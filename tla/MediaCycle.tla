----------------------------- MODULE MediaCycle -----------------------------
(***************************************************************************)
(* The media items of a CMeta session (voicexml_cmeta_session.c): collect  *)
(* (fields, menus, recorded utterances), record and transfer.  One cycle:  *)
(* the owner selects an item, prepares and commits a provider's ticket,    *)
(* which arms a one-slot mailbox; producers complete the generation from   *)
(* their own threads; the owner consumes the completion and selects again. *)
(*                                                                         *)
(* A recording is lent with a lease: ACCEPTED moves it to the session,     *)
(* which releases it once; any other answer leaves it with the producer.   *)
(* A mailbox is closed before the provider is quiesced, so a producer may  *)
(* be anywhere in its call when the session goes away.                     *)
(***************************************************************************)
EXTENDS Integers, FiniteSets, Sequences, FiniteSetsExt

CONSTANTS
    Kind,            \* the items of the form, in document order
    Producers,       \* threads of the providers
    Incompatible,    \* the kinds whose provider may report slots that do not fit
    MaxGeneration,   \* bound: cycles of one channel
    MaxLeases        \* bound: recordings lent

AllKinds == {"FIELD", "MENU", "UTTERANCE", "RECORD", "TRANSFER"}

MediaAssumption ==
    /\ Kind \in Seq(AllKinds) /\ Incompatible \subseteq {"FIELD", "UTTERANCE"}
    /\ MaxGeneration \in Nat \ {0} /\ MaxLeases \in Nat

Items == 1 .. Len(Kind)
Inputs == {i \in Items : Kind[i] \in {"FIELD", "UTTERANCE"}}
Leases == 1 .. MaxLeases
Channels == {"COLLECT", "RECORD", "TRANSFER"}
Collected == {"FIELD", "MENU", "UTTERANCE"}
Channel(kind) == IF kind \in {"RECORD", "TRANSFER"} THEN kind ELSE "COLLECT"
(* Adapters with a quiesce callback; legacy collect providers have none.   *)
Quiesces(kind) == kind \in {"UTTERANCE", "RECORD", "TRANSFER"}

VARIABLES
    s,          \* the session, vxml_cmeta_session_data
    owner,      \* the owner thread: where it is, and mailbox states it closed over
    call,       \* the ingress call each producer is in
    provider    \* the providers: ticket, generations committed, quiesced, canceled

vars == <<s, owner, call, provider>>

Disarmed == [state |-> "DISARMED", generation |-> 0, lease |-> 0, result |-> "NONE",
             slots |-> {}]
NoCall == [at |-> "OUT", kind |-> "FIELD", channel |-> "COLLECT", generation |-> 0,
           result |-> "NONE", slots |-> {}, lease |-> 0]

-----------------------------------------------------------------------------
(* Selection: the first item without a value, or the end of the form.      *)

select_directed_item(t) ==
    LET open == Items \ t.bound
    IN IF open = {} THEN [t EXCEPT !.state = "LEFT", !.active = 0]
       ELSE LET i == Min(open)
            IN [t EXCEPT !.active = i, !.generation[Channel(Kind[i])] = @ + 1]

Init ==
    /\ s = select_directed_item(
            [state |-> "RUNNING", active |-> 0, bound |-> {},
             generation |-> [c \in Channels |-> 0],
             box |-> [c \in Channels |-> Disarmed],
             prepared |-> FALSE, in_flight |-> FALSE, transaction |-> FALSE,
             record_result |-> [i \in Items |-> 0],
             utterance |-> [lease |-> 0, generation |-> 0, item |-> 0],
             shadow |-> [i \in Items |-> 0],
             lastresult |-> 0,
             lease |-> [l \in Leases |-> "UNUSED"]])
    /\ owner = [at |-> "IDLE", prev |-> "DISARMED"]
    /\ call = [p \in Producers |-> NoCall]
    /\ provider = [ticket |-> FALSE, committed |-> [c \in Channels |-> 0],
                   quiesced |-> [c \in Channels |-> 0], accepted |-> {},
                   canceled |-> {}, stopped |-> FALSE]

ActiveKind == Kind[s.active]
ActiveChannel == Channel(ActiveKind)
InFlight == <<ActiveChannel, s.generation[ActiveChannel]>>

-----------------------------------------------------------------------------
(* Leases and transactions.                                                *)

record_release_lease(t, ls) ==
    [t EXCEPT !.lease = [l \in Leases |->
        IF l \notin ls THEN t.lease[l]
        ELSE IF t.lease[l] = "RELEASED" THEN "TWICE" ELSE "RELEASED"]]

payload_reset(t, c, release) ==
    LET u == IF release THEN record_release_lease(t, {t.box[c].lease}) ELSE t
    IN [u EXCEPT !.box[c].lease = 0, !.box[c].result = "NONE", !.box[c].slots = {}]

(* The end of a generation on the owner: whatever recording the mailbox    *)
(* still holds is released.                                                *)
disarm(t, c) ==
    [payload_reset(t, c, TRUE) EXCEPT
        !.box[c].state = "DISARMED", !.box[c].generation = 0, !.in_flight = FALSE]

record_results_reconcile(t) ==
    LET gone == {i \in Items \ t.bound : t.record_result[i] # 0}
        u == record_release_lease(t, {t.record_result[i] : i \in gone})
    IN [u EXCEPT !.record_result = [i \in Items |->
            IF i \in gone THEN 0 ELSE t.record_result[i]]]

(* Bound becomes the staged values; the shadows of the fields touched, by  *)
(* a value or by clear, go.                                                *)
transaction_commit(t, bound, touched) ==
    record_results_reconcile(
        [t EXCEPT !.bound = bound,
                  !.shadow = [i \in Items |-> IF i \in touched THEN 0 ELSE t.shadow[i]]])

(* The content of handlers and filled actions: they leave the values alone *)
(* or clear those of some items.                                           *)
Cleared(t) == {{}, t.bound} \cup {{i} : i \in t.bound}

(* A raised event: unhandled, it fails the session; a handler clears       *)
(* items, and may leave the document.                                      *)
cmeta_raise_event_impl(t) ==
    {[t EXCEPT !.state = "FAILED"]}
    \cup {[transaction_commit(t, t.bound \ c, c) EXCEPT !.state = next] :
             c \in Cleared(t), next \in {"RUNNING", "LEFT"}}

Reselect(t) == IF t.state = "RUNNING" THEN select_directed_item(t) ELSE t

(* A filled action failed: its effects are undone and the failure raised.  *)
recover_backend_process(t) ==
    {IF u.state = "FAILED" THEN u ELSE Reselect(u) : u \in cmeta_raise_event_impl(t)}

-----------------------------------------------------------------------------
(* Admission.                                                              *)

Idle == owner.at = "IDLE" /\ s.state = "RUNNING" /\ s.active # 0

(* The request is built inside a transaction of its own, collect's only.   *)
collect_begin_transaction(t) ==
    IF Channel(Kind[t.active]) = "COLLECT" THEN [t EXCEPT !.transaction = TRUE] ELSE t

collect_abort_transaction(t) == [t EXCEPT !.transaction = FALSE]

Prepare(kinds) ==
    /\ Idle /\ ActiveKind \in kinds /\ ~s.prepared /\ ~s.in_flight
    /\ s' = [collect_begin_transaction(s) EXCEPT !.prepared = TRUE]
    /\ provider' = [provider EXCEPT !.ticket = TRUE]
    /\ UNCHANGED <<owner, call>>

collect_prepare == Prepare(Collected)
record_prepare == Prepare({"RECORD"})
transfer_prepare == Prepare({"TRANSFER"})

(* The provider or the request is refused: a partial ticket is discarded   *)
(* at once; a field's request in error is raised.                          *)
collect_prepare_request ==
    /\ Idle /\ ActiveKind \in Collected /\ ~s.prepared /\ ~s.in_flight
    /\ LET aborted == collect_abort_transaction(collect_begin_transaction(s))
       IN s' \in {aborted} \cup
              (IF ActiveKind # "MENU" THEN cmeta_raise_event_impl(aborted) ELSE {})
    /\ UNCHANGED <<owner, call, provider>>

Armed(c) == [Disarmed EXCEPT !.state = "EMPTY", !.generation = s.generation[c]]

Commit(kinds) ==
    /\ Idle /\ ActiveKind \in kinds /\ s.prepared /\ ~s.in_flight
    /\ s.generation[ActiveChannel] <= MaxGeneration
    /\ s.box[ActiveChannel].state = "DISARMED"
    /\ s' = [s EXCEPT !.box[ActiveChannel] = Armed(ActiveChannel), !.prepared = FALSE,
                      !.in_flight = TRUE, !.transaction = FALSE]
    /\ provider' = [provider EXCEPT !.ticket = FALSE,
                        !.committed[ActiveChannel] = s.generation[ActiveChannel]]
    /\ UNCHANGED <<owner, call>>

collect_commit == Commit(Collected)
record_commit == Commit({"RECORD"})
transfer_commit == Commit({"TRANSFER"})

Discard(kinds) ==
    /\ Idle /\ ActiveKind \in kinds /\ s.prepared /\ ~s.in_flight
    /\ s' = [collect_abort_transaction(s) EXCEPT !.prepared = FALSE]
    /\ provider' = [provider EXCEPT !.ticket = FALSE]
    /\ UNCHANGED <<owner, call>>

collect_discard == Discard(Collected)
record_discard == Discard({"RECORD"})
transfer_discard == Discard({"TRANSFER"})

(* The host raises an event between two calls: not while a collect         *)
(* transaction is open.                                                    *)
raise ==
    /\ Idle /\ ~s.transaction
    /\ s' \in cmeta_raise_event_impl(s)
    /\ UNCHANGED <<owner, call, provider>>

-----------------------------------------------------------------------------
(* Ingress: a producer's call of try_complete, one atomic access a step.   *)

Lends(kind, result) ==
    \/ kind = "UTTERANCE" /\ result \in {"FILL", "UNFIT"}
    \/ kind = "RECORD" /\ result = "SUCCESS"

(* A provider calls for a generation it was committed and that has not     *)
(* been quiesced; a legacy one as long as its producers are not stopped.   *)
(* quiesce lets nobody in while it waits.                                  *)
Quiescing == owner.at \in {"QUIESCE", "SETTLE_QUIESCE"}
May(kind, c, g) ==
    /\ g \in 1 .. provider.committed[c]
    /\ IF Quiesces(kind) THEN g > provider.quiesced[c] /\ ~(Quiescing /\ ActiveChannel = c)
       ELSE ~provider.stopped

Unused == {l \in Leases : s.lease[l] = "UNUSED"}

Enter(p, kind, results, slots) ==
    /\ call[p].at = "OUT"
    /\ kind \in {Kind[i] : i \in Items}
    /\ \E g \in 1 .. MaxGeneration, result \in results, more \in slots :
         /\ May(kind, Channel(kind), g)
         /\ Lends(kind, result) => Unused # {}
         /\ LET l == IF Lends(kind, result) THEN Min(Unused) ELSE 0
            IN /\ call' = [call EXCEPT ![p] =
                    [at |-> "IN", kind |-> kind, channel |-> Channel(kind),
                     generation |-> g, result |-> result, slots |-> more, lease |-> l]]
               /\ s' = IF l = 0 THEN s ELSE [s EXCEPT !.lease[l] = "PRODUCER"]
    /\ UNCHANGED <<owner, provider>>

(* The call returns without having been accepted: the producer releases    *)
(* what it lent.                                                           *)
Refused(p, t) ==
    /\ s' = record_release_lease(t, {call[p].lease})
    /\ call' = [call EXCEPT ![p] = NoCall]
    /\ UNCHANGED <<owner, provider>>

(* State, generation and result, before anything is claimed.               *)
ingress_check(p) ==
    LET c == call[p].channel
        box == s.box[c]
    IN /\ call[p].at = "IN"
       /\ IF /\ box.state = "EMPTY"
             /\ call[p].generation = box.generation
             /\ s.active # 0 /\ ActiveChannel = c /\ call[p].kind = ActiveKind
          THEN /\ call' = [call EXCEPT ![p].at = "CHECKED"]
               /\ UNCHANGED <<s, owner, provider>>
          ELSE Refused(p, s)

ingress_claim(p) ==
    LET c == call[p].channel
    IN /\ call[p].at = "CHECKED"
       /\ IF s.box[c].state = "EMPTY"
          THEN /\ s' = [s EXCEPT !.box[c].state = "WRITING"]
               /\ call' = [call EXCEPT ![p].at = "CLAIMED"]
               /\ UNCHANGED <<owner, provider>>
          ELSE Refused(p, s)

(* A claim that turns out wrong: fields and records store EMPTY whatever   *)
(* the state has become; menus and transfers disarm a mailbox that is      *)
(* still theirs.                                                           *)
Unclaim(t, c, kind) ==
    IF kind \in {"MENU", "TRANSFER"}
    THEN [t EXCEPT !.box[c].state = IF @ = "WRITING" THEN "DISARMED" ELSE @]
    ELSE [t EXCEPT !.box[c].state = "EMPTY"]

\* Fault: the generation is not looked at again after the claim.
StillCurrent_Once(p) == TRUE

StillCurrent(p) == s.box[call[p].channel].generation = call[p].generation

ingress_write(p) ==
    LET c == call[p].channel
    IN /\ call[p].at = "CLAIMED"
       /\ IF call[p].result # "UNFIT" /\ StillCurrent(p)
          THEN /\ s' = [s EXCEPT !.box[c].lease = call[p].lease,
                                 !.box[c].result = call[p].result,
                                 !.box[c].slots =
                                    IF c = "COLLECT" THEN call[p].slots \cup {s.active} ELSE {}]
               /\ call' = [call EXCEPT ![p].at = "WRITTEN"]
               /\ UNCHANGED <<owner, provider>>
          ELSE Refused(p, Unclaim(payload_reset(s, c, FALSE), c, call[p].kind))

(* A record completion that finds the mailbox closed leaves its copy there. *)
ingress_publish(p) ==
    LET c == call[p].channel
        l == call[p].lease
    IN /\ call[p].at = "WRITTEN"
       /\ IF s.box[c].state = "WRITING"
          THEN /\ s' = [s EXCEPT !.box[c].state = "READY",
                        !.lease = [k \in Leases |-> IF k = l THEN "SESSION" ELSE @[k]]]
               /\ call' = [call EXCEPT ![p] = NoCall]
               /\ provider' = [provider EXCEPT !.accepted =
                                    @ \cup {<<c, call[p].generation>>}]
               /\ UNCHANGED owner
          ELSE Refused(p, IF call[p].kind = "RECORD" THEN s ELSE payload_reset(s, c, FALSE))

Steps(p, kind) ==
    /\ call[p].at # "OUT" /\ call[p].kind = kind
    /\ ingress_check(p) \/ ingress_claim(p) \/ ingress_write(p) \/ ingress_publish(p)

Unfit(kind) == IF kind \in Incompatible THEN {"UNFIT"} ELSE {}

(* One scalar for the selected field; several slots, of which the selected *)
(* field must be one; several slots and a recording.                       *)
collect_try_complete(p) == Enter(p, "FIELD", {"FILL"}, {{}}) \/ Steps(p, "FIELD")
collect_try_complete_v2(p) ==
    Enter(p, "FIELD", {"FILL"} \cup Unfit("FIELD"), {Inputs}) \/ Steps(p, "FIELD")
collect_try_complete_v3(p) ==
    \/ Enter(p, "UTTERANCE", {"FILL", "BARE"} \cup Unfit("UTTERANCE"), {{}, Inputs})
    \/ Steps(p, "UTTERANCE")
menu_try_complete(p) == Enter(p, "MENU", {"EVENT", "NEXT"}, {{}}) \/ Steps(p, "MENU")
record_try_complete(p) ==
    Enter(p, "RECORD", {"SUCCESS", "TERMCHAR", "NOINPUT"}, {{}}) \/ Steps(p, "RECORD")
transfer_try_complete(p) ==
    Enter(p, "TRANSFER", {"RESULT", "HANGUP", "FAULT"}, {{}}) \/ Steps(p, "TRANSFER")

-----------------------------------------------------------------------------
(* Progress: the owner claims a ready completion, lets the provider        *)
(* quiesce, and applies it.                                                *)

\* Fault: the owner waits until no producer is inside.
Ready_Alone ==
    /\ s.box[ActiveChannel].state = "READY"
    /\ \A p \in Producers : call[p].at = "OUT"

Ready == s.box[ActiveChannel].state = "READY"

run_ready ==
    /\ Idle /\ s.in_flight /\ Ready
    /\ s' = [s EXCEPT !.box[ActiveChannel].state = "WRITING"]
    /\ owner' = [owner EXCEPT !.at = IF Quiesces(ActiveKind) THEN "QUIESCE" ELSE "APPLY"]
    /\ UNCHANGED <<call, provider>>

Inside(c, g) == {p \in Producers : /\ call[p].at # "OUT"
                                   /\ call[p].channel = c /\ call[p].generation = g}

(* quiesce returns when no callback of the generation is inside, and none  *)
(* enters later.                                                           *)
quiesce_generation ==
    /\ Quiescing
    /\ Inside(ActiveChannel, s.generation[ActiveChannel]) = {}
    /\ provider' = [provider EXCEPT !.quiesced[ActiveChannel] = s.generation[ActiveChannel]]
    /\ owner' = [owner EXCEPT !.at = IF @ = "QUIESCE" THEN "APPLY" ELSE "SETTLE"]
    /\ UNCHANGED <<s, call>>

(* A filled action done: the values of slots, less those it cleared.       *)
Filled(t, slots) ==
    {[transaction_commit(t, (t.bound \cup slots) \ c, slots \cup c) EXCEPT !.state = next] :
        c \in {{}, t.bound} \cup {{i} : i \in t.bound \cup slots}, next \in {"RUNNING", "LEFT"}}

collect_utterance_result_reset(t) == record_release_lease(t, {t.utterance.lease})

NextResult(t) == t.lastresult + 1

(* A committed recognition replaces the last result: a new generation, the *)
(* field's shadow of it, and the recording moved out of the mailbox.       *)
ReplaceResult(t, i, utterance) ==
    LET g == NextResult(t)
        u == collect_utterance_result_reset(t)
    IN [u EXCEPT
        !.lastresult = g,
        !.shadow[i] = IF utterance /\ i \in t.bound /\ t.box["COLLECT"].lease # 0
                      THEN g ELSE @,
        !.utterance = [lease |-> t.box["COLLECT"].lease, generation |-> g,
                       item |-> IF utterance THEN i ELSE 0],
        !.box["COLLECT"].lease = 0]

collect_run_ready(t) ==
    LET box == t.box["COLLECT"]
        i == t.active
        utterance == Kind[i] = "UTTERANCE"
    IN IF box.generation # t.generation["COLLECT"] \/ box.slots \cap t.bound # {}
       THEN {[disarm(t, "COLLECT") EXCEPT !.state = "FAILED"]}
       ELSE recover_backend_process(disarm(t, "COLLECT"))
            \cup {Reselect(disarm(ReplaceResult(u, i, utterance), "COLLECT")) :
                     u \in Filled(t, box.slots)}

(* A choice raises an event, after which the menu is armed again with a    *)
(* fresh generation, or names the next document.                           *)
menu_run_ready(t) ==
    LET u == disarm(t, "COLLECT")
    IN IF t.box["COLLECT"].result = "NEXT" THEN {[u EXCEPT !.state = "LEFT"]}
       ELSE {IF v.state = "RUNNING" THEN [v EXCEPT !.generation["COLLECT"] = @ + 1] ELSE v :
                v \in cmeta_raise_event_impl(u)}

(* The result keeps the recording while its item has a value; clearing the *)
(* item in its own filled action gives it back at once.                    *)
AdoptRecording(t, i) ==
    IF i \in t.bound
    THEN [record_release_lease(t, {t.record_result[i]}) EXCEPT
            !.record_result[i] = t.box["RECORD"].lease, !.box["RECORD"].lease = 0]
    ELSE t

record_run_ready(t) ==
    IF t.box["RECORD"].result = "NOINPUT"
    THEN {Reselect(u) : u \in cmeta_raise_event_impl(disarm(t, "RECORD"))}
    ELSE recover_backend_process(disarm(t, "RECORD"))
         \cup {Reselect(disarm(AdoptRecording(u, t.active), "RECORD")) :
                  u \in Filled(t, {t.active})}

(* Only a result runs filled actions; a disconnect completes the item      *)
(* before its event; an error leaves it open.                              *)
transfer_run_ready(t) ==
    LET u == disarm(t, "TRANSFER")
        done == transaction_commit(u, u.bound \cup {u.active}, {})
    IN CASE t.box["TRANSFER"].result = "RESULT" ->
              recover_backend_process(u) \cup {Reselect(v) : v \in Filled(u, {u.active})}
         [] t.box["TRANSFER"].result = "HANGUP" ->
              {Reselect(v) : v \in cmeta_raise_event_impl(done)}
         [] OTHER -> {Reselect(v) : v \in cmeta_raise_event_impl(u)}

apply ==
    /\ owner.at = "APPLY"
    /\ s' \in CASE ActiveKind = "MENU" -> menu_run_ready(s)
                [] ActiveKind = "RECORD" -> record_run_ready(s)
                [] ActiveKind = "TRANSFER" -> transfer_run_ready(s)
                [] OTHER -> collect_run_ready(s)
    /\ owner' = [owner EXCEPT !.at = "IDLE"]
    /\ UNCHANGED <<call, provider>>

-----------------------------------------------------------------------------
(* Closing: mailboxes first, then the ticket or the generation in flight,  *)
(* then what the session holds.                                            *)

(* A recorder or transfer that has delivered is not canceled on top; the   *)
(* legacy collect contract cancels always.                                 *)
settle_record(prev) == prev \in {"EMPTY", "DISARMED"}
settle_transfer(prev) == prev # "READY"
settle_collect(kind, prev) == kind = "UTTERANCE" => prev \in {"EMPTY", "DISARMED"}

Cancels(kind, prev) ==
    CASE kind = "RECORD" -> settle_record(prev)
      [] kind = "TRANSFER" -> settle_transfer(prev)
      [] OTHER -> settle_collect(kind, prev)

SettleWaits(kind, prev) == Quiesces(kind)

(* Producers of a legacy provider are stopped before the session closes.   *)
close ==
    /\ owner.at = "IDLE" /\ s.state # "CLOSED"
    /\ \A p \in Producers : call[p].at # "OUT" => Quiesces(call[p].kind)
    /\ LET c == IF s.active = 0 THEN "COLLECT" ELSE ActiveChannel
       IN /\ owner' = [at |-> IF s.in_flight /\ SettleWaits(ActiveKind, s.box[c].state)
                              THEN "SETTLE_QUIESCE" ELSE "SETTLE",
                       prev |-> s.box[c].state]
          /\ s' = [s EXCEPT !.box = [d \in Channels |-> [s.box[d] EXCEPT !.state = "CLOSED"]],
                            !.prepared = FALSE]
          /\ provider' = [provider EXCEPT !.ticket = FALSE, !.stopped = TRUE,
                !.canceled = IF s.in_flight /\ Cancels(ActiveKind, s.box[c].state)
                             THEN @ \cup {InFlight} ELSE @]
    /\ UNCHANGED call

ReleasesReady(prev) == prev = "READY"

session_data_destroy ==
    LET c == IF s.active = 0 THEN "COLLECT" ELSE ActiveChannel
        u == payload_reset(s, c, ReleasesReady(owner.prev))
        held == {u.utterance.lease} \cup {u.record_result[i] : i \in Items}
    IN /\ owner.at = "SETTLE"
       /\ s' = [record_release_lease(u, held) EXCEPT
                    !.state = "CLOSED", !.in_flight = FALSE, !.transaction = FALSE,
                    !.utterance.lease = 0, !.record_result = [i \in Items |-> 0],
                    !.box = [d \in Channels |-> [u.box[d] EXCEPT !.generation = 0]]]
       /\ owner' = [at |-> "IDLE", prev |-> "DISARMED"]
       /\ UNCHANGED <<call, provider>>

Next ==
    \/ collect_prepare \/ collect_prepare_request \/ record_prepare \/ transfer_prepare
    \/ collect_commit \/ record_commit \/ transfer_commit
    \/ collect_discard \/ record_discard \/ transfer_discard
    \/ raise \/ run_ready \/ quiesce_generation \/ apply
    \/ close \/ session_data_destroy
    \/ \E p \in Producers :
         \/ collect_try_complete(p) \/ collect_try_complete_v2(p)
         \/ collect_try_complete_v3(p) \/ menu_try_complete(p)
         \/ record_try_complete(p) \/ transfer_try_complete(p)

Spec == Init /\ [][Next]_vars

(* Threads in the middle of a call go on, and the owner keeps driving      *)
(* completions; nobody must call, raise or close.                          *)
Fairness ==
    /\ WF_vars(run_ready) /\ WF_vars(quiesce_generation) /\ WF_vars(apply)
    /\ WF_vars(session_data_destroy)
    /\ \A p \in Producers, kind \in AllKinds : WF_vars(Steps(p, kind))

FairSpec == Spec /\ Fairness

-----------------------------------------------------------------------------
Closed == s.state = "CLOSED"

(* Types, and a transaction of collect's stays open only while its ticket  *)
(* is held: every other handler would be refused for ever.                 *)
TypeOK ==
    /\ s.state \in {"RUNNING", "LEFT", "FAILED", "CLOSED"}
    /\ s.active \in 0 .. Len(Kind) /\ s.bound \subseteq Items
    /\ \A c \in Channels :
         /\ s.box[c].state \in {"DISARMED", "EMPTY", "WRITING", "READY", "CLOSED"}
         /\ s.box[c].lease \in 0 .. MaxLeases
    /\ \A l \in Leases : s.lease[l] \in {"UNUSED", "PRODUCER", "SESSION", "RELEASED", "TWICE"}
    /\ owner.at \in {"IDLE", "QUIESCE", "APPLY", "SETTLE_QUIESCE", "SETTLE"}
    /\ s.transaction => s.prepared \/ owner.at # "IDLE"

(* record_release_lease: a recording that was accepted is released once,   *)
(* whichever of mailbox, result and producer held it last.                 *)
ReleasedOnce == \A l \in Leases : s.lease[l] # "TWICE"

(* The recordings the session owns are the ones it can still release: in a *)
(* mailbox or in a result.  None is left when it is closed.                *)
Holding ==
    {s.box[c].lease : c \in {d \in Channels : s.box[d].state # "CLOSED"}}
    \cup {s.record_result[i] : i \in Items} \cup {s.utterance.lease}
LeaseHeld ==
    owner.at \in {"IDLE", "QUIESCE", "APPLY"} =>
        {l \in Leases : s.lease[l] = "SESSION"} \subseteq Holding

(* What a lease was released for is not read again: results and mailbox    *)
(* hold recordings that are the session's.                                 *)
NoFreedRecording ==
    /\ \A i \in Items : s.record_result[i] # 0 => s.lease[s.record_result[i]] = "SESSION"
    /\ s.utterance.lease # 0 => s.lease[s.utterance.lease] = "SESSION"
    /\ \A c \in Channels : s.box[c].state = "READY" /\ s.box[c].lease # 0
            => s.lease[s.box[c].lease] = "SESSION"

(* While a generation is in flight its mailbox can take its completion: a  *)
(* producer that is late, or whose result does not fit, gives it back.     *)
StaysArmed ==
    (/\ owner.at = "IDLE" /\ s.state = "RUNNING" /\ s.in_flight
     /\ \A p \in Producers : call[p].at \in {"OUT", "IN", "CHECKED"})
        => s.box[ActiveChannel].state \in {"EMPTY", "READY"}

(* The completion the owner applies is one of its own generation, never a  *)
(* late one: it was accepted for the generation now in flight.             *)
AppliesItsOwn ==
    owner.at \in {"QUIESCE", "APPLY"} =>
        /\ InFlight \in provider.accepted
        /\ s.box[ActiveChannel].generation = s.generation[ActiveChannel]

(* No provider thread is inside a session that is gone.                    *)
NobodyInside == Closed => \A p \in Producers : call[p].at = "OUT"

(* Every ticket and every generation is ended for the provider: committed  *)
(* or discarded, completed, canceled or quiesced; recorders and transfers  *)
(* that have completed are not canceled on top.                            *)
ProviderSettled ==
    /\ provider.ticket = s.prepared
    /\ Closed => \A c \in Channels : \A g \in 1 .. provider.committed[c] :
         \/ <<c, g>> \in provider.accepted \cup provider.canceled
         \/ g <= provider.quiesced[c]
    /\ \A k \in {Kind[i] : i \in Items} :
         k \notin {"FIELD", "MENU"} =>
            \A g \in 1 .. MaxGeneration :
                <<Channel(k), g>> \notin provider.accepted \cap provider.canceled

(* vxml_session_cmeta_recording_shadow: a field's recording can be read    *)
(* only while the last result is that field's own.                         *)
Readable(i) ==
    /\ s.utterance.lease # 0
    /\ s.shadow[i] # 0 /\ s.shadow[i] = s.utterance.generation
ShadowIsOwn == \A i \in Items : Readable(i) => s.utterance.item = i

(* An accepted completion is consumed, or the session goes.  Again and     *)
(* again none waits.                                                       *)
CompletionConsumed ==
    \A c \in Channels : []<>(s.box[c].state # "READY" \/ s.state # "RUNNING")

(* Leases, mailboxes and tickets: each recording and each generation has   *)
(* one owner and one end, however producers, owner and close interleave.   *)
MediaSound ==
    /\ TypeOK
    /\ ReleasedOnce /\ LeaseHeld /\ NoFreedRecording
    /\ AppliesItsOwn /\ NobodyInside /\ ProviderSettled
    /\ ShadowIsOwn
=============================================================================
