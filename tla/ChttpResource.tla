---------------------------- MODULE ChttpResource ----------------------------
(***************************************************************************)
(* Documents and data fetched over HTTP: the resource that holds one       *)
(* response at a time for a data user and a text user                      *)
(* (scxml_chttp_resource.c), and the bridge that lends its text to the     *)
(* VoiceXML dialog manager (voicexml_chttp_resource.c).                    *)
(*                                                                         *)
(* A lease is a pointer to the resource, the same for every user: what     *)
(* keeps the users apart is the kind of the active response and the fact   *)
(* that each forgets its lease when it closes it.  Views of URIs, headers  *)
(* and media types are judged valid or not.                                *)
(***************************************************************************)
EXTENDS Integers, FiniteSets

CONSTANTS
    max_response_body_bytes,   \* limit of the configuration
    MaxSize,                   \* largest limit of a caller, and body of a response
    MaxResponses               \* bound: responses ever received

ResourceAssumption ==
    max_response_body_bytes \in Nat \ {0} /\ MaxSize \in Nat \ {0} /\ MaxResponses \in Nat

VARIABLES
    impl,       \* scxml_chttp_resource_impl
    voice,      \* vxml_chttp_resource_impl
    user,       \* what each user holds: a response, or 0
    response,   \* external: what the transport has given out
    decoder     \* external: responses a decoder is open on

reVars == <<impl, voice, user, response, decoder>>

Users == {"data", "text", "document"}
Responses == 1 .. MaxResponses
ResourceErrors ==
    {"DENIED", "FAILED", "TIMEOUT", "LIMIT_EXCEEDED", "NOT_FOUND", "INVALID_DATA"}

ResourceTypeOK ==
    /\ impl \in [live : BOOLEAN, raw_profile : BOOLEAN,
                 active : {"NONE", "DATA", "TEXT"}, decoder : BOOLEAN,
                 response : 0 .. MaxResponses]
    /\ voice \in [live : BOOLEAN, active : BOOLEAN,
                  last_status : {"OK"} \cup ResourceErrors]
    /\ user \in [Users -> 0 .. MaxResponses]
    /\ response \in [Responses -> [state : {"none", "live", "destroyed"},
                                   size : 0 .. MaxSize]]
    /\ decoder \subseteq Responses

ResourceInit ==
    /\ \E raw \in BOOLEAN :
          impl = [live |-> TRUE, raw_profile |-> raw, active |-> "NONE",
                  decoder |-> FALSE, response |-> 0]
    /\ voice = [live |-> TRUE, active |-> FALSE, last_status |-> "OK"]
    /\ user = [u \in Users |-> 0]
    /\ response = [r \in Responses |-> [state |-> "none", size |-> 0]]
    /\ decoder = {}

Fresh == {r \in Responses : response[r].state = "none"}
Got == CHOOSE r \in Fresh : \A q \in Fresh : r <= q

-----------------------------------------------------------------------------
(* acquire_response: what comes back, and what it amounts to.              *)

Replies == [status : {200, 302, 404, 500}, size : 0 .. MaxSize,
            type : BOOLEAN, utf8 : BOOLEAN]

map_http_status(status) ==
    CASE status = 200 -> "OK" [] status = 302 -> "DENIED"
      [] status = 404 -> "NOT_FOUND" [] OTHER -> "FAILED"

\* A data user of the decoding profile has no limit of its own.
BodyLimit(kind, max) ==
    IF (kind = "TEXT" \/ impl.raw_profile) /\ max < max_response_body_bytes
      THEN max ELSE max_response_body_bytes

Judged(reply, kind, max) ==
    IF map_http_status(reply.status) # "OK" THEN map_http_status(reply.status)
    ELSE IF reply.size > BodyLimit(kind, max) THEN "LIMIT_EXCEEDED"
    ELSE IF ~reply.type \/ (kind = "TEXT" /\ ~reply.utf8) THEN "INVALID_DATA"
    ELSE "OK"

\* Fault: an active response is no reason to refuse.
MayAcquire_Always == impl.live

MayAcquire == impl.live /\ impl.active = "NONE"

\* fail_response: the response is destroyed at once.
Rejected(reply) ==
    response' = [response EXCEPT ![Got] = [state |-> "destroyed", size |-> reply.size]]

Unready == UNCHANGED decoder

\* The response is kept for the caller.  decoding tells what the decoder of a
\* data user made of it.
Kept(u, kind, reply, decoding) ==
    /\ impl' = [impl EXCEPT !.active = kind, !.response = Got, !.decoder = decoding]
    /\ response' = [response EXCEPT ![Got] = [state |-> "live", size |-> reply.size]]
    /\ decoder' = IF decoding THEN decoder \cup {Got} ELSE decoder
    /\ user' = [user EXCEPT ![u] = Got]

Nothing == UNCHANGED <<impl, user, response, decoder>>

\* A response that came is judged and then kept or destroyed.
acquire_response(u, kind, max, reply, ready) ==
    LET judged == Judged(reply, kind, max)
        decodes == kind = "DATA" /\ ~impl.raw_profile
    IN /\ MayAcquire /\ Fresh # {}
       /\ IF judged # "OK" THEN Rejected(reply) /\ UNCHANGED <<impl, user, decoder>>
          ELSE IF decodes /\ ~ready
            THEN Rejected(reply) /\ Unready /\ UNCHANGED <<impl, user>>
          ELSE Kept(u, kind, reply, decodes)

Decoders == IF impl.active = "DATA" /\ impl.decoder THEN decoder \ {impl.response}
            ELSE decoder

release_active ==
    /\ impl' = [impl EXCEPT !.active = "NONE", !.decoder = FALSE]
    /\ response' = [response EXCEPT ![impl.response].state = "destroyed"]
    /\ decoder' = Decoders

-----------------------------------------------------------------------------
(* The users.  A call may also be refused before a request is made, by the *)
(* resolver, the checks of its answer or the transport.                    *)

data_open ==
    /\ user["data"] = 0
    /\ \/ Nothing
       \/ \E max \in 1 .. MaxSize, reply \in Replies, ready \in BOOLEAN :
            acquire_response("data", "DATA", max, reply, ready)
    /\ UNCHANGED voice

text_open ==
    /\ user["text"] = 0
    /\ \/ Nothing
       \/ \E max \in 1 .. MaxSize, reply \in Replies :
            acquire_response("text", "TEXT", max, reply, TRUE)
    /\ UNCHANGED voice

\* data_close, data_close_v2 and text_close.
resource_close(u, kind) ==
    /\ user[u] # 0 /\ impl.live /\ impl.active = kind
    /\ release_active
    /\ user' = [user EXCEPT ![u] = 0]
    /\ UNCHANGED voice

\* A lent document is no reason to ask again; a timeout cannot be honoured.
document_open ==
    /\ voice.live /\ ~voice.active
    /\ \/ /\ Nothing
          /\ \E status \in ResourceErrors : voice' = [voice EXCEPT !.last_status = status]
       \/ \E max \in 1 .. MaxSize, reply \in Replies :
            /\ acquire_response("document", "TEXT", max, reply, TRUE)
            /\ LET status == Judged(reply, "TEXT", max)
               IN voice' = [voice EXCEPT !.active = (status = "OK"),
                                         !.last_status = status]

document_open_with_policy ==
    /\ voice.live
    /\ voice' = [voice EXCEPT !.last_status = "FAILED"]
    /\ UNCHANGED <<impl, user, response, decoder>>

document_close ==
    /\ voice.live /\ voice.active /\ impl.active = "TEXT"
    /\ release_active
    /\ voice' = [voice EXCEPT !.active = FALSE]
    /\ user' = [user EXCEPT !["document"] = 0]

resource_destroy ==
    /\ impl.live /\ impl.active = "NONE"
    /\ impl' = [impl EXCEPT !.live = FALSE]
    /\ UNCHANGED <<voice, user, response, decoder>>

voice_destroy ==
    /\ voice.live /\ ~voice.active
    /\ voice' = [voice EXCEPT !.live = FALSE]
    /\ UNCHANGED <<impl, user, response, decoder>>

ResourceNext ==
    \/ data_open \/ resource_close("data", "DATA")
    \/ text_open \/ resource_close("text", "TEXT")
    \/ document_open \/ document_open_with_policy \/ document_close
    \/ resource_destroy \/ voice_destroy

ResourceSpec == ResourceInit /\ [][ResourceNext]_reVars

\* Who has got a resource closes it in the end.
ResourceFairness ==
    /\ WF_reVars(resource_close("data", "DATA"))
    /\ WF_reVars(resource_close("text", "TEXT"))
    /\ WF_reVars(document_close)

ResourceFairSpec == ResourceSpec /\ ResourceFairness

-----------------------------------------------------------------------------
(* What has to hold.                                                       *)

\* What a user reads is a response that is still there, and its alone.
LentIsAlive ==
    \A u \in Users : user[u] # 0 =>
        /\ response[user[u]].state = "live"
        /\ impl.live /\ impl.active # "NONE" /\ impl.response = user[u]
        /\ \A w \in Users \ {u} : user[w] # user[u]

\* No response is lost: each is destroyed or can still be released by its user.
NoResponseLost ==
    \A r \in Responses : response[r].state = "live" => \E u \in Users : user[u] = r

\* A decoder is open exactly on the response that is lent as decoded data.
DecoderClosed ==
    decoder = IF impl.active = "DATA" /\ ~impl.raw_profile THEN {impl.response} ELSE {}

\* The bridge is busy exactly while the dialog manager has its document.
BridgeBusyMeansLent == voice.active <=> user["document"] # 0

\* A lent body respects the limit of the configuration.
LentWithinLimit ==
    \A u \in Users : user[u] # 0 => response[user[u]].size <= max_response_body_bytes

\* Whatever is lent comes back, so that the resource can be destroyed.
LentComesBack == []<>(impl.active = "NONE")

\* One response at a time is lent to one user, alive and within the limit, and
\* none is lost on any of the error paths.
ResourceSound ==
    /\ ResourceTypeOK
    /\ LentIsAlive /\ NoResponseLost
    /\ DecoderClosed /\ BridgeBusyMeansLent /\ LentWithinLimit
=============================================================================
