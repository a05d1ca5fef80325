------------------------------ MODULE MCBridges ------------------------------
(***************************************************************************)
(* The bridges between a Session and the network, side by side.  They      *)
(* share no state in the code, so a behaviour is one of one bridge, which  *)
(* "part" names; the others stay as they began.                            *)
(***************************************************************************)
EXTENDS CnetEgress, CnetIngress, CnetFrameIngress, CnetDomainFence,
        ChttpProcessor, ChttpResource

CONSTANT Explored   \* the bridges to explore

VARIABLES
    part,
    row, ticket, binding, endpoint, ch_count, executor, held, worker, handler,
    client, now, asked,                                 \* ChttpEventIo
    request, body, form,                                \* ChttpCodec
    submit, su_call, provider, su_response              \* SubmitResource

Unused == 0   \* the state of a codec nobody calls

Ch == INSTANCE ChttpEventIo WITH
        Bindings <- {"b1"}, egress_capacity <- 2, endpoint_capacity <- 1,
        SendIds <- {"s1"}, MaxDelay <- 1, MaxTime <- 1, MaxSends <- 2,
        count <- ch_count

\* Rows that are used again, by a send or a cancel of an earlier one.
Again == INSTANCE ChttpEventIo WITH
        Bindings <- {"b1"}, egress_capacity <- 2, endpoint_capacity <- 1,
        SendIds <- {"s1"}, MaxDelay <- 0, MaxTime <- 0, MaxSends <- 3,
        count <- ch_count

\* Two bindings that compete for the endpoint and the rows.
Two == INSTANCE ChttpEventIo WITH
        Bindings <- {"b1", "b2"}, egress_capacity <- 2, endpoint_capacity <- 1,
        SendIds <- {"s1"}, MaxDelay <- 0, MaxTime <- 0, MaxSends <- 2,
        count <- ch_count

-----------------------------------------------------------------------------
(* Forms to encode and bodies to decode.                                   *)

Char == INSTANCE ChttpCodec WITH
          max_event_name_bytes <- 2, max_form_entry_count <- 2,
          max_form_name_bytes <- 2, max_form_value_bytes <- 1,
          max_encoded_body_bytes <- 12, Requests <- {}, Bodies <- {}

UpTo(n, S) == UNION {[1 .. k -> S] : k \in 0 .. n}
Field(n, v) == [name |-> n, value |-> v]

\* An Event name, and up to two entries; the second is picked from a few that
\* clash with the first or with the Event.
Sends ==
    [event : UpTo(1, Char!Byte) \cup {<<1, 2>>, <<1, Char!Pct, 2>>},
     entries : {<<>>}
       \cup {<<Field(n, v)>> :
               n \in UpTo(1, Char!Byte) \cup {Char!ReservedName}, v \in UpTo(1, Char!Byte)}
       \cup {<<Field(n, v), Field(Char!ReservedName, w)>> :
               n \in {<<Char!Eq>>, <<1>>, Char!ReservedName}, v \in {<<Char!Amp>>, <<>>},
               w \in {<<>>, <<2>>, <<Char!Space>>, <<Char!Pct, 1>>}}]

\* Every body of up to four characters, and longer ones with the reserved name.
ReceivedBodies ==
    UpTo(4, {Char!Amp, Char!Eq, Char!Pct, Char!Plus, 8, 1, 2})
        \cup {Char!ReservedName \o <<Char!Eq>> \o v \o w :
                v \in UpTo(2, {Char!Amp, Char!Eq, Char!Pct, 1, 8}),
                w \in {<<>>, <<Char!Amp>>, <<Char!Amp, 1>>,
                       <<Char!Amp>> \o Char!ReservedName \o <<Char!Eq, 1>>}}

Co == INSTANCE ChttpCodec WITH
        max_event_name_bytes <- 2, max_form_entry_count <- 2,
        max_form_name_bytes <- 2, max_form_value_bytes <- 1,
        max_encoded_body_bytes <- 12, Requests <- Sends, Bodies <- ReceivedBodies

-----------------------------------------------------------------------------
(* Submissions.                                                            *)

Mark == INSTANCE SubmitResource WITH
          max_uri_bytes <- 8, max_body_bytes <- 25, max_header_bytes <- 28,
          max_segments <- 5, max_parts <- 2, max_response_bytes <- 1,
          MaxAttempts <- 2, Requests <- {},
          request <- submit, call <- su_call, response <- su_response

\* Names that clash, separators and spaces, and URIs with and without a query.
FormNames == {<<>>, <<1>>, <<Char!Eq>>, <<1, Char!Space>>}
FormValues == {<<>>, <<Char!Amp>>, <<2, Char!Pct>>}
FormFields ==
    {<<>>} \cup {<<Field(n, v)>> : n \in FormNames, v \in FormValues}
    \cup {<<Field(n, v), Field(m, w)>> : n, m \in FormNames, v, w \in FormValues}
    \cup {<<Field(<<1>>, <<>>), Field(<<2>>, <<>>), Field(m, <<>>)>> : m \in FormNames}
FormRequests ==
    [kind : {"form"}, method : {"GET", "POST"}, multipart_type : BOOLEAN,
     fields : FormFields, uri : {<<1>>, <<1, Mark!Question, 2>>}]

\* Names with quotes and line ends; contents that look like delimiters.
PartNames == {<<1>>, <<Mark!Quote>>, <<1, Mark!Backslash>>, <<Mark!NewLine>>}
Contents == {<<>>, <<2>>, <<Mark!Boundary(1)>>,
             <<Mark!NewLine, Mark!Dash, Mark!Boundary(1), Mark!NewLine>>,
             <<Mark!Boundary(1), Mark!Boundary(2)>>}
OfText(k) == [kind |-> "TEXT", index |-> k]
OfRecording(k) == [kind |-> "RECORDING", index |-> k]
Orders == {<<>>, <<OfRecording(1), OfText(1)>>, <<OfRecording(1), OfRecording(1)>>,
           <<OfText(1)>>, <<OfText(1), OfRecording(2)>>, <<OfRecording(1)>>}
MultipartRequests ==
    [kind : {"multipart"}, uri : {<<1>>},
     fields : {<<>>} \cup {<<Field(n, v)>> : n \in PartNames, v \in Contents},
     recordings : {<<>>} \cup {<<Field(n, v)>> : n \in PartNames, v \in Contents}
                    \cup {<<Field(<<1>>, <<2>>), Field(<<2>>, <<2>>)>>},
     parts : Orders]

ScriptRequests == [kind : {"script"}, uri : {<<1>>}, charset : BOOLEAN]

Su == INSTANCE SubmitResource WITH
        max_uri_bytes <- 8, max_body_bytes <- 25, max_header_bytes <- 28,
        max_segments <- 5, max_parts <- 2, max_response_bytes <- 1,
        MaxAttempts <- 2,
        Requests <- FormRequests \cup MultipartRequests \cup ScriptRequests,
        request <- submit, call <- su_call, response <- su_response

ASSUME BridgesAssumption ==
    /\ IngressAssumption /\ FrameAssumption /\ FenceAssumption
    /\ Ch!ChttpAssumption /\ Again!ChttpAssumption /\ Two!ChttpAssumption
    /\ ProcessorAssumption /\ ResourceAssumption
    /\ Co!CodecAssumption /\ Su!SubmitAssumption

-----------------------------------------------------------------------------
chVars == <<row, ticket, binding, endpoint, ch_count, executor, held, worker, handler,
            client, now, asked>>
coVars == <<request, body, form>>
suVars == <<submit, su_call, provider, su_response>>
egressVars == vars
cnetVars == <<egressVars, ingressVars, frameVars, fenceVars>>
httpVars == <<chVars, prVars, reVars, coVars, suVars>>
bridgesVars == <<part, cnetVars, httpVars>>

BridgesInit ==
    /\ part \in Explored
    /\ Init /\ IngressInit /\ FrameInit /\ FenceInit /\ ProcessorInit
    /\ ResourceInit /\ (part # "resource" => impl.raw_profile)
    /\ CASE part = "chttp_again" -> Again!Init
         [] part = "chttp_two" -> Two!Init
         [] OTHER -> Ch!Init
    /\ IF part = "codec" THEN Co!Init
       ELSE request = Unused /\ body = Unused /\ form = Unused
    /\ IF part = "submit" THEN Su!Init
       ELSE submit = Unused /\ su_call = Unused /\ provider = Unused /\ su_response = Unused

BridgesNext ==
    \/ /\ part = "egress" /\ Next
       /\ UNCHANGED <<part, ingressVars, frameVars, fenceVars, httpVars>>
    \/ /\ part = "ingress" /\ IngressNext
       /\ UNCHANGED <<part, egressVars, frameVars, fenceVars, httpVars>>
    \/ /\ part = "frames" /\ FrameNext
       /\ UNCHANGED <<part, egressVars, ingressVars, fenceVars, httpVars>>
    \/ /\ part = "fence" /\ FenceNext
       /\ UNCHANGED <<part, egressVars, ingressVars, frameVars, httpVars>>
    \/ /\ \/ part = "chttp" /\ Ch!Next
          \/ part = "chttp_again" /\ Again!Next
          \/ part = "chttp_two" /\ Two!Next
       /\ UNCHANGED <<part, cnetVars, prVars, reVars, coVars, suVars>>
    \/ /\ part = "processor" /\ ProcessorNext
       /\ UNCHANGED <<part, cnetVars, chVars, reVars, coVars, suVars>>
    \/ /\ part = "resource" /\ ResourceNext
       /\ UNCHANGED <<part, cnetVars, chVars, prVars, coVars, suVars>>
    \/ /\ part = "codec" /\ Co!Next
       /\ UNCHANGED <<part, cnetVars, chVars, prVars, reVars, suVars>>
    \/ /\ part = "submit" /\ Su!Next
       /\ UNCHANGED <<part, cnetVars, chVars, prVars, reVars, coVars>>

BridgesSpec == BridgesInit /\ [][BridgesNext]_bridgesVars

-----------------------------------------------------------------------------
(* The properties of the components, each for its own behaviours.          *)

\* The HTTP rows: nothing lost, doubled or cancelled for another (ChttpEventIo).
ChttpSound ==
    /\ part = "chttp" => Ch!ChttpSound
    /\ part = "chttp_again" => Again!ChttpSound
    /\ part = "chttp_two" => Two!ChttpSound

\* The form codec: decode undoes encode (ChttpCodec).
CodecSound == part = "codec" => Co!CodecSound

\* Submissions: what leaves is what was submitted (SubmitResource).
SubmitSound == part = "submit" => Su!SubmitSound

-----------------------------------------------------------------------------
(* The fairness of each module, for the part that runs.                    *)

EgressFair ==
    /\ WF_egressVars(part = "egress" /\ Settle)
    /\ WF_egressVars(part = "egress" /\ PumpStep)
    /\ WF_egressVars(part = "egress" /\ EndOfConnection)

IngressFair ==
    /\ WF_ingressVars(part = "ingress" /\ Drain)
    /\ WF_ingressVars(part = "ingress" /\ \E n \in 1 .. 2 : drain_begin(n))
    /\ SF_ingressVars(part = "ingress" /\ drain_one)
    /\ WF_ingressVars(part = "ingress" /\ ingress.closed /\ IngressEndOfConnection)

FrameFair ==
    /\ WF_frameVars(part = "frames" /\ Process)
    /\ WF_frameVars(part = "frames" /\ \E n \in 1 .. 2 : process_begin(n))
    /\ SF_frameVars(part = "frames" /\ publish_accepted)
    /\ WF_frameVars(part = "frames" /\ framer.closed /\ FrameEndOfConnection)

FenceFair ==
    /\ WF_fenceVars(part = "fence" /\ retire_end)
    /\ WF_fenceVars(part = "fence" /\ \E accepted \in BOOLEAN : try_submit_end(accepted))
    /\ \A g \in 1 .. 3 : /\ SF_fenceVars(part = "fence" /\ operation_ends(g))
                         /\ SF_fenceVars(part = "fence" /\ retire_begin(g))

ChttpFair ==
    /\ WF_chVars(part = "chttp" /\ (Ch!submit_one_select \/ Ch!cancel_one_select))
    /\ WF_chVars(part = "chttp" /\ Ch!complete_row_release)
    /\ WF_chVars(part = "chttp" /\ (Ch!submit_one_accepted \/ Ch!submit_one_full
                                    \/ Ch!submit_one_failed))
    /\ SF_chVars(part = "chttp" /\ (Ch!submit_one_accepted \/ Ch!submit_one_failed))
    /\ WF_chVars(part = "chttp" /\ (Ch!cancel_one_accepted \/ Ch!cancel_one_full))
    /\ \A r \in 0 .. 1 : /\ SF_chVars(part = "chttp" /\ Ch!request_complete(r))
                         /\ WF_chVars(part = "chttp" /\ (Ch!egress_commit(r)
                                                         \/ Ch!egress_discard(r)))
    /\ WF_chVars(part = "chttp" /\ (Ch!prepare_send_abort("b1")
                                    \/ Ch!prepare_send_finish("b1")))
    /\ WF_chVars(part = "chttp" /\ Ch!tick) /\ WF_chVars(part = "chttp" /\ Ch!ingress_leave)

ProcessorFair ==
    /\ WF_prVars(part = "processor" /\ Worker)
    /\ WF_prVars(part = "processor" /\ (start_ready \/ start_init_failed
                 \/ \E stopped \in BOOLEAN : start_stop_server(stopped)))
    /\ WF_prVars(part = "processor" /\ (stop_server_failed \/ stop_request
                 \/ stop_wait \/ stop_join \/ stop_finish
                 \/ \E terminal_error \in BOOLEAN : stop_server(terminal_error)))

ResourceFair ==
    /\ WF_reVars(part = "resource" /\ resource_close("data", "DATA"))
    /\ WF_reVars(part = "resource" /\ resource_close("text", "TEXT"))
    /\ WF_reVars(part = "resource" /\ document_close)

\* What the bridges owe in the end, each under the fairness of its own module:
\* stored chunks and frames leave, a cut frame is noticed, committed sends and
\* requests end, start and stop return, lent responses come back, closed bridges
\* quiesce; and the fence never attaches a generation again (retire, stage).
BridgesProgress ==
    /\ part = "egress" /\ EgressFair => ClosedBridgeQuiesces
    /\ part = "ingress" /\ IngressFair => StoredChunksLeave /\ ClosedQuiesces
    /\ part = "frames" /\ FrameFair => EndIsNoticed /\ FrameClosedQuiesces
    /\ part = "fence" /\ FenceFair => ClosedFenceDrains
    /\ part = "chttp" /\ ChttpFair => Ch!CommittedSendEnds /\ Ch!SubmittedRequestEnds
    /\ part = "processor" /\ ProcessorFair => CallsReturn /\ NoLostRequest
    /\ part = "resource" /\ ResourceFair => LentComesBack
    /\ [][part = "fence" => NoReattachment]_bridgesVars
=============================================================================
