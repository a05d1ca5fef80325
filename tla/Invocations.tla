----------------------------- MODULE Invocations -----------------------------
(***************************************************************************)
(* The <invoke> lifecycle of one SCXML Session (scxml_runtime.c,           *)
(* scxml_session.c).  Every <invoke> of the document has one row.  Entry   *)
(* and exit of its owner state, the start at the end of a macrostep, the   *)
(* completion and the automatic forwarding are all effects: they are       *)
(* staged in the journal of the statechart instance and change the row, or *)
(* reach the invoke adapter, only when that transaction commits.  The      *)
(* children report Events and their end from threads of their own: the row *)
(* is checked under the registry lock, the Event is sent after it, and is  *)
(* looked at again when the lane takes it from the mailbox.                *)
(*                                                                         *)
(* The statechart instance (mailbox, configuration, journal) and the       *)
(* invoke adapter with its children are external.                          *)
(***************************************************************************)
EXTENDS Integers, Sequences, FiniteSets, SequencesExt, FiniteSetsExt

CONSTANTS
    Inv,               \* the <invoke> elements, in document order 1 .. n
    owner,             \* the state that holds each of them
    autoforward,       \* those with autoforward="true"
    effect_capacity,   \* effects of one transaction
    mailbox_capacity,  \* external Events waiting
    internal_capacity, \* internal Events waiting
    UINT64_MAX,        \* the largest invocation token
    Reporter,          \* threads on which children report
    MaxReports,        \* reports of one behaviour
    MaxExternal,       \* other external Events of one behaviour
    MaxMicrosteps,     \* microsteps of one macrostep
    AdapterAnswers,    \* what the invoke adapter may answer
    ContentFails,      \* whether executable content may fail a microstep
    CanEnd             \* whether the owner may close or cancel the Session

InvocationAssumption ==
    /\ Inv = 1 .. Cardinality(Inv) /\ DOMAIN owner = Inv /\ autoforward \subseteq Inv
    /\ {effect_capacity, mailbox_capacity, internal_capacity, UINT64_MAX} \subseteq Nat
    /\ {MaxReports, MaxExternal, MaxMicrosteps} \subseteq Nat
    /\ AdapterAnswers \subseteq {"ACCEPTED", "HALF_TICKET", "ERROR_EXECUTION",
                                 "ERROR_COMMUNICATION", "INVALID_CONTRACT"}
    /\ ContentFails \in BOOLEAN /\ CanEnd \in BOOLEAN

Owners == {owner[i] : i \in Inv}
Tokens == 1 .. UINT64_MAX
RowStates == {"INACTIVE", "PENDING", "START_RESERVED", "FAIL_RESERVED", "ACTIVE", "FAILED"}
NoRow == [state |-> "INACTIVE", token |-> 0]

VARIABLES
    rows,       \* invocation_rows
    journal,    \* the invocation effects staged in the running transaction
    session,    \* next_invocation_token, invoke_stats and the lifecycle
    lane,       \* the executor of the instance: what it is doing
    chart,      \* external: configuration, mailbox and internal queue
    reporters,  \* the report calls between the check and the send
    child,      \* external: the child behind each token
    seen,       \* history: what the chart was shown of each token
    attempts    \* history: starts tried since the owner was last entered

vars == <<rows, journal, session, lane, chart, reporters, child, seen, attempts>>

Stats == {"started", "active", "start_failed", "completed", "cancelled", "cancel_failed",
          "forwarded", "forward_failed", "returned_accepted", "returned_rejected",
          "adapter_error_rejected"}
EffectKinds == {"ENTER", "EXIT", "START", "FAIL", "COMPLETE", "FORWARD"}
Effect == [kind : EffectKinds, inv : Inv, token : 0 .. UINT64_MAX]
NoEvent == [kind |-> "other", token |-> 0]

TypeOK ==
    /\ rows \in [Inv -> [state : RowStates, token : 0 .. UINT64_MAX]]
    /\ journal \in Seq(Effect) /\ Len(journal) <= effect_capacity + 1
    /\ session.next_invocation_token \in 0 .. UINT64_MAX
    /\ session.stats \in [Stats -> Nat]
    /\ session.closes \in 0 .. 1
    /\ session.instance \in {"running", "exiting", "ended", "errored", "destroyed"}
    /\ lane.pc \in {"idle", "prepare", "micro", "commit", "cancel"}
    /\ lane.phase \in {"trigger", "micro", "quiesce"}
    /\ lane.index \in 1 .. Cardinality(Inv) + 1
    /\ chart.config \subseteq Owners
    /\ Len(chart.mailbox) <= mailbox_capacity
    /\ chart.internal \in 0 .. internal_capacity
    /\ child \in [Tokens -> {"none", "offered", "refused", "running", "finished",
                             "stopped", "abandoned", "discarded"}]

Init ==
    /\ rows = [i \in Inv |-> NoRow]
    /\ journal = <<>>
    /\ session = [next_invocation_token |-> 1, stats |-> [k \in Stats |-> 0], closes |-> 0,
                  instance |-> "running", admission |-> TRUE, external |-> 0]
    /\ lane = [pc |-> "micro", phase |-> "micro", index |-> 1, skipped |-> 0,
               event |-> NoEvent, steps |-> 0, token |-> 0]
    /\ chart = [config |-> {}, mailbox |-> <<>>, internal |-> 0, raised |-> 0, next |-> {},
                fresh |-> {}]
    /\ attempts = [i \in Inv |-> 0]
    /\ reporters = [r \in Reporter |-> [pc |-> "idle", event |-> NoEvent]]
    /\ child = [t \in Tokens |-> "none"]
    /\ seen = [t \in Tokens |-> <<>>]

Count(s, k) == [s EXCEPT !.stats[k] = @ + 1]

--------------------------------------------------------------------------
(* Staging *)

\* acquire_invocation_effect_locked: the pool has one row more than the
\* journal has effects, so that a full journal is always the one to say so.
pool_free(j) == Len(j) < effect_capacity + 1

\* stage_effect of the instance: external.
journal_free(j) == Len(j) < effect_capacity

\* discard_invocation_lifecycle: a reserved row falls back to PENDING, the
\* ticket of a start or of a forward is handed back.
discard_row(rs, e) ==
    LET reserved == IF e.kind = "START" THEN "START_RESERVED" ELSE "FAIL_RESERVED" IN
    IF e.kind \in {"START", "FAIL"} /\ rs[e.inv] = [state |-> reserved, token |-> e.token]
    THEN [rs EXCEPT ![e.inv] = [state |-> "PENDING", token |-> 0]]
    ELSE rs

discard_invocation_lifecycle(rs, j) == FoldSeq(LAMBDA e, r : discard_row(r, e), rs, j)

discarded_children(c, j) ==
    [t \in Tokens |-> IF c[t] = "offered" /\ \E k \in 1 .. Len(j) : j[k].kind = "START" /\ j[k].token = t
                      THEN "discarded" ELSE c[t]]

\* A FATAL outcome: the instance drops the transaction and is errored.
Fatal(rs, j, c) ==
    /\ rows' = discard_invocation_lifecycle(rs, j)
    /\ child' = discarded_children(c, j)
    /\ journal' = <<>>
    /\ lane' = [lane EXCEPT !.pc = "idle", !.event = NoEvent, !.skipped = 0, !.index = 1,
                            !.steps = 0, !.token = 0]
    /\ chart' = [chart EXCEPT !.raised = 0, !.next = {}, !.fresh = {}, !.mailbox = <<>>,
                              !.internal = 0]

Errored(s) == [s EXCEPT !.instance = "errored", !.admission = FALSE]

\* enqueue_invocation_adapter_error: an internal Event of the transaction.
enqueue_invocation_adapter_error(ch) == ch.internal + ch.raised < internal_capacity

--------------------------------------------------------------------------
(* A microstep: entry and exit of the owner states *)

Steps(k, states) ==
    [n \in 1 .. Cardinality({i \in Inv : owner[i] \in states}) |->
        [kind |-> k, token |-> 0,
         inv |-> SetToSortSeq({i \in Inv : owner[i] \in states}, <)[n]]]

\* execute_invocation_lifecycle, once for every <invoke> of the states that
\* are left and then of those that are entered.
execute_invocation_lifecycle(exits, enters) == Steps("EXIT", exits) \o Steps("ENTER", enters)

\* The instance takes a transition (eventless, of the trigger or of an
\* internal Event), leaves "exits" and enters "enters".
Microstep(exits, enters) ==
    LET j == execute_invocation_lifecycle(exits, enters) IN
    /\ lane.pc = "micro" /\ lane.phase = "micro" /\ session.instance = "running"
    /\ lane.steps < MaxMicrosteps
    /\ exits \cup enters /= {}
    /\ exits \subseteq chart.config /\ enters \cap (chart.config \ exits) = {}
    /\ UNCHANGED <<reporters, seen, attempts>>
    /\ \/ /\ Len(j) <= effect_capacity
          /\ journal' = j
          /\ lane' = [lane EXCEPT !.pc = "commit", !.steps = @ + 1]
          /\ chart' = [chart EXCEPT !.next = (chart.config \ exits) \cup enters,
                                    !.fresh = enters,
                                    !.internal = IF @ > 0 THEN @ - 1 ELSE 0]
          /\ UNCHANGED <<rows, session, child>>
       \/ /\ Len(j) > effect_capacity \/ ContentFails
          /\ Fatal(rows, j, child)
          /\ session' = Errored(session)

\* Internal work is drained: an Event that enables nothing is consumed.
Drain ==
    /\ lane.pc = "micro" /\ lane.phase = "micro" /\ chart.internal > 0
    /\ session.instance = "running"
    /\ chart' = [chart EXCEPT !.internal = @ - 1]
    /\ UNCHANGED <<rows, journal, session, lane, reporters, child, seen, attempts>>

\* Nothing is left to do: PREPARE_QUIESCENCE runs
\* prepare_invocation_quiescence over the rows.
Stable ==
    /\ lane.pc = "micro" /\ lane.phase = "micro" /\ chart.internal = 0
    /\ session.instance = "running"
    /\ lane' = [lane EXCEPT !.pc = "prepare", !.phase = "quiesce", !.index = 1]
    /\ chart' = [chart EXCEPT !.next = chart.config]
    /\ UNCHANGED <<rows, journal, session, reporters, child, seen, attempts>>

\* request_exit: every state is left, then the instance is over.
ExitAll ==
    /\ lane.pc \in {"idle", "micro"} /\ session.instance = "exiting"
    /\ UNCHANGED <<reporters, seen, attempts>>
    /\ IF Len(execute_invocation_lifecycle(chart.config, {})) <= effect_capacity
       THEN /\ journal' = execute_invocation_lifecycle(chart.config, {})
            /\ lane' = [lane EXCEPT !.pc = "commit", !.phase = "micro"]
            /\ chart' = [chart EXCEPT !.next = {}, !.mailbox = <<>>, !.internal = 0]
            /\ UNCHANGED <<rows, session, child>>
       ELSE Fatal(rows, <<>>, child) /\ session' = Errored(session)

--------------------------------------------------------------------------
(* The end of a macrostep: pending invocations are started *)

Starting == lane.pc = "prepare" /\ lane.phase = "quiesce"

\* has_pending_active_invocation
has_pending_active_invocation(i) ==
    rows[i].state = "PENDING" /\ owner[i] \in chart.config

\* stage_invocation_result: only a PENDING row is reserved.
stage_invocation_result(i, t, k) ==
    /\ pool_free(journal) /\ journal_free(journal) /\ rows[i].state = "PENDING"
    /\ journal' = Append(journal, [kind |-> k, inv |-> i, token |-> t])
    /\ rows' = [rows EXCEPT ![i] =
                   [state |-> IF k = "START" THEN "START_RESERVED" ELSE "FAIL_RESERVED",
                    token |-> t]]

take_token(s) ==
    [s EXCEPT !.next_invocation_token = IF @ = UINT64_MAX THEN 0 ELSE @ + 1]

\* scxml_runtime_start_pending_invocations, one row: "refused" when the
\* idlocation, the type, the source or the payload cannot be evaluated, or
\* the adapter says no; half a ticket or a broken contract is FATAL.
StartPending(answer) ==
    LET i == lane.index  t == session.next_invocation_token
        refused == answer \in {"ERROR_EXECUTION", "ERROR_COMMUNICATION", "CLOSED", "EVALUATION"}
        fits == pool_free(journal) /\ journal_free(journal)
        onward == lane' = [lane EXCEPT !.index = @ + 1]
        offered(o) == [child EXCEPT ![t] = o] IN
    /\ Starting /\ i \in Inv /\ has_pending_active_invocation(i)
    /\ IF session.closes = 0 THEN answer /= "CLOSED" ELSE answer \in {"CLOSED", "EVALUATION"}
    /\ UNCHANGED <<reporters, seen>>
    /\ attempts' = [attempts EXCEPT ![i] = @ + 1]
    /\ IF t = 0
       THEN Fatal(rows, journal, child) /\ session' = Errored(session)
       ELSE \/ /\ answer = "ACCEPTED" /\ fits
               /\ stage_invocation_result(i, t, "START")
               /\ child' = offered("offered")
               /\ session' = take_token(session) /\ onward /\ UNCHANGED chart
            \/ /\ refused /\ fits /\ enqueue_invocation_adapter_error(chart)
               /\ stage_invocation_result(i, t, "FAIL")
               /\ child' = offered("refused")
               /\ chart' = [chart EXCEPT !.raised = @ + 1]
               /\ session' = take_token(session) /\ onward
            \/ /\ \/ answer \in {"HALF_TICKET", "INVALID_CONTRACT"}
                  \/ ~fits
                  \/ refused /\ ~enqueue_invocation_adapter_error(chart)
               /\ Fatal(rows, journal,
                        offered(IF answer = "ACCEPTED" THEN "discarded" ELSE "refused"))
               /\ session' = IF refused /\ fits
                             THEN Count(Errored(take_token(session)), "adapter_error_rejected")
                             ELSE Errored(take_token(session))

SkipRow ==
    /\ Starting /\ lane.index \in Inv /\ ~has_pending_active_invocation(lane.index)
    /\ lane' = [lane EXCEPT !.index = @ + 1]
    /\ UNCHANGED <<rows, journal, session, chart, reporters, child, seen, attempts>>

\* Fault: the loop ends one row early.
PreparedAll_Fault ==
    /\ lane.pc = "prepare" /\ lane.index = Cardinality(Inv)
    /\ lane' = [lane EXCEPT !.pc = "commit"]
    /\ UNCHANGED <<rows, journal, session, chart, reporters, child, seen, attempts>>

PreparedAll ==
    /\ lane.pc = "prepare" /\ lane.index \notin Inv
    /\ lane' = [lane EXCEPT !.pc = "commit"]
    /\ UNCHANGED <<rows, journal, session, chart, reporters, child, seen, attempts>>

--------------------------------------------------------------------------
(* The next external Event *)

live(t) == \E i \in Inv : rows[i] = [state |-> "ACTIVE", token |-> t]

Row(t) == CHOOSE i \in Inv : rows[i] = [state |-> "ACTIVE", token |-> t]

\* Fault: the mailbox is trusted, a row that is gone makes no difference.
Dequeue_Fault ==
    LET e == Head(chart.mailbox) IN
    /\ lane.pc = "idle" /\ chart.mailbox /= <<>> /\ session.instance = "running"
    /\ chart' = [chart EXCEPT !.mailbox = Tail(@), !.next = chart.config]
    /\ lane' = [lane EXCEPT !.pc = "prepare", !.phase = "trigger", !.index = 1, !.event = e]
    /\ seen' = IF e.token = 0 THEN seen ELSE [seen EXCEPT ![e.token] = Append(@, e.kind)]
    /\ journal' = IF e.kind = "done"
                  THEN <<[kind |-> "COMPLETE", inv |-> 1, token |-> e.token]>> ELSE <<>>
    /\ UNCHANGED <<rows, session, reporters, child, attempts>>

\* stage_invocation_completion: the end of the child is an effect too.
stage_invocation_completion(i, t) ==
    journal' = Append(journal, [kind |-> "COMPLETE", inv |-> i, token |-> t])

\* execute_invocation_finalize: what the content does is left out; it may
\* fail, and a failure is FATAL.
execute_invocation_finalize(ok) == ok \/ ContentFails

\* preprocess_invocation_external, up to the forwarding: the Event of a row
\* that is gone is dropped; <finalize> may fail the Session.
Dequeue ==
    LET e == Head(chart.mailbox)
        rest == [chart EXCEPT !.mailbox = Tail(@), !.next = chart.config]
        forwarding(skip) == lane' = [lane EXCEPT !.pc = "prepare", !.phase = "trigger",
                                        !.index = 1, !.event = e, !.skipped = skip] IN
    /\ lane.pc = "idle" /\ chart.mailbox /= <<>> /\ session.instance = "running"
    /\ UNCHANGED <<reporters, attempts>>
    /\ \/ /\ e.token /= 0 /\ ~live(e.token)
          /\ session' = Count(session, "returned_rejected")
          /\ chart' = rest
          /\ UNCHANGED <<rows, journal, lane, child, seen>>
       \/ /\ e.token /= 0 /\ live(e.token)
          /\ seen' = [seen EXCEPT ![e.token] = Append(@, e.kind)]
          /\ \E ok \in BOOLEAN :
                /\ execute_invocation_finalize(ok)
                /\ IF ok /\ (e.kind = "done" => pool_free(journal) /\ journal_free(journal))
                   THEN /\ chart' = rest
                        /\ IF e.kind = "done"
                           THEN stage_invocation_completion(Row(e.token), e.token) /\ forwarding(Row(e.token))
                           ELSE UNCHANGED journal /\ forwarding(0)
                        /\ UNCHANGED <<rows, session, child>>
                   ELSE Fatal(rows, journal, child) /\ session' = Errored(session)
       \/ /\ e.token = 0
          /\ chart' = rest
          /\ forwarding(0)
          /\ UNCHANGED <<rows, journal, session, child, seen>>

\* forward_external_to_invocations: who gets the Event.
forwards_to(i) == i \in autoforward /\ i /= lane.skipped /\ rows[i].state = "ACTIVE"

Forwarding == lane.pc = "prepare" /\ lane.phase = "trigger"

\* stage_invocation_forward: the ticket waits in the journal.
stage_invocation_forward(i) ==
    /\ pool_free(journal) /\ journal_free(journal)
    /\ journal' = Append(journal, [kind |-> "FORWARD", inv |-> i, token |-> rows[i].token])

\* prepare_forward for one row.
Forward(answer) ==
    LET i == lane.index
        refused == answer \in {"ERROR_EXECUTION", "ERROR_COMMUNICATION", "CLOSED"}
        fits == pool_free(journal) /\ journal_free(journal) IN
    /\ Forwarding /\ i \in Inv /\ forwards_to(i)
    /\ (session.closes = 0) <=> (answer /= "CLOSED")
    /\ UNCHANGED <<reporters, seen, attempts>>
    /\ \/ /\ answer = "ACCEPTED" /\ stage_invocation_forward(i)
          /\ lane' = [lane EXCEPT !.index = @ + 1]
          /\ UNCHANGED <<rows, session, chart, child>>
       \/ /\ refused /\ enqueue_invocation_adapter_error(chart)
          /\ session' = Count(session, "forward_failed")
          /\ chart' = [chart EXCEPT !.raised = @ + 1]
          /\ lane' = [lane EXCEPT !.index = @ + 1]
          /\ UNCHANGED <<rows, journal, child>>
       \/ /\ \/ answer = "ACCEPTED" /\ ~fits
             \/ answer \in {"HALF_TICKET", "INVALID_CONTRACT"}
             \/ refused /\ ~enqueue_invocation_adapter_error(chart)
          /\ session' = IF answer = "ACCEPTED" THEN Errored(session)
                        ELSE Count(Errored(session), "forward_failed")
          /\ Fatal(rows, journal, child)

SkipForward ==
    /\ Forwarding /\ lane.index \in Inv /\ ~forwards_to(lane.index)
    /\ lane' = [lane EXCEPT !.index = @ + 1]
    /\ UNCHANGED <<rows, journal, session, chart, reporters, child, seen, attempts>>

--------------------------------------------------------------------------
(* The transaction is published: effects commit in the order of staging *)

Matches(e, state) == rows[e.inv] = [state |-> state, token |-> e.token]

\* commit_invocation_lifecycle under the registry lock, with the adapter
\* ticket committed (or handed back) right after it.  An EXIT of a running
\* invocation is left to Cancel.
commit_invocation_lifecycle(e) ==
    LET clear(st) == /\ rows' = [rows EXCEPT ![e.inv] = NoRow]
                     /\ session' = Count([session EXCEPT !.stats["active"] = @ - 1], st)
        settled == lane' = lane IN
    \/ /\ e.kind = "ENTER"
       /\ rows' = [rows EXCEPT ![e.inv] = [state |-> "PENDING", token |-> 0]]
       /\ settled /\ UNCHANGED <<session, child>>
    \/ /\ e.kind = "EXIT" /\ rows[e.inv].state = "ACTIVE"
       /\ rows' = [rows EXCEPT ![e.inv] = NoRow]
       /\ session' = [session EXCEPT !.stats["active"] = @ - 1]
       /\ lane' = [lane EXCEPT !.pc = "cancel", !.token = rows[e.inv].token]
       /\ UNCHANGED child
    \/ /\ e.kind = "EXIT" /\ rows[e.inv].state /= "ACTIVE"
       /\ rows' = [rows EXCEPT ![e.inv] = NoRow]
       /\ settled /\ UNCHANGED <<session, child>>
    \/ /\ e.kind = "START" /\ Matches(e, "START_RESERVED")
       /\ rows' = [rows EXCEPT ![e.inv].state = "ACTIVE"]
       /\ session' = Count(Count(session, "started"), "active")
       /\ child' = [child EXCEPT ![e.token] = "running"]
       /\ settled
    \/ /\ e.kind = "START" /\ ~Matches(e, "START_RESERVED")
       /\ child' = [child EXCEPT ![e.token] = "discarded"]
       /\ settled /\ UNCHANGED <<rows, session>>
    \/ /\ e.kind = "FAIL" /\ Matches(e, "FAIL_RESERVED")
       /\ rows' = [rows EXCEPT ![e.inv].state = "FAILED"]
       /\ session' = Count(session, "start_failed")
       /\ settled /\ UNCHANGED child
    \/ /\ e.kind = "COMPLETE" /\ Matches(e, "ACTIVE")
       /\ clear("completed") /\ settled /\ UNCHANGED child
    \/ /\ e.kind = "FORWARD"
       /\ session' = Count(session, "forwarded")
       /\ settled /\ UNCHANGED <<rows, child>>
    \/ /\ \/ e.kind = "FAIL" /\ ~Matches(e, "FAIL_RESERVED")
          \/ e.kind = "COMPLETE" /\ ~Matches(e, "ACTIVE")
       /\ settled /\ UNCHANGED <<rows, session, child>>

Commit ==
    /\ lane.pc = "commit" /\ journal /= <<>>
    /\ commit_invocation_lifecycle(Head(journal))
    /\ journal' = Tail(journal)
    /\ UNCHANGED <<chart, reporters, seen, attempts>>

\* report_invocation_adapter_error: an internal Event sent past the
\* journal; one that is turned away is counted.
report_invocation_adapter_error(s) ==
    IF chart.internal + chart.raised < internal_capacity /\ session.admission
    THEN session' = s /\ chart' = [chart EXCEPT !.internal = @ + 1]
    ELSE session' = Count(s, "adapter_error_rejected") /\ UNCHANGED chart

\* prepare_cancel, outside the lock; a refusal is counted and reported as an
\* adapter error.
Cancel(answer) ==
    LET ok == answer = "ACCEPTED" IN
    /\ lane.pc = "cancel"
    /\ (session.closes = 0) <=> (answer /= "CLOSED")
    /\ lane' = [lane EXCEPT !.pc = "commit", !.token = 0]
    /\ child' = [child EXCEPT ![lane.token] = IF ~ok THEN "abandoned"
                                              ELSE IF @ = "running" THEN "stopped" ELSE @]
    /\ UNCHANGED <<rows, journal, reporters, seen, attempts>>
    /\ IF ok THEN session' = Count(session, "cancelled") /\ UNCHANGED chart
       ELSE report_invocation_adapter_error(Count(session, "cancel_failed"))

\* The transaction is over: the state, the configuration and the internal
\* Events it raised are published, and the macrostep goes on.
Published ==
    LET ch == [chart EXCEPT !.config = chart.next, !.internal = @ + chart.raised, !.raised = 0] IN
    /\ lane.pc = "commit" /\ journal = <<>>
    /\ chart' = [ch EXCEPT !.next = {}, !.fresh = {}]
    /\ attempts' = [i \in Inv |-> IF owner[i] \in chart.fresh THEN 0 ELSE attempts[i]]
    /\ lane' = IF lane.phase = "quiesce" /\ ch.internal = 0
               THEN [lane EXCEPT !.pc = "idle", !.index = 1, !.steps = 0, !.event = NoEvent,
                                 !.skipped = 0]
               ELSE [lane EXCEPT !.pc = "micro", !.phase = "micro", !.index = 1,
                                 !.event = NoEvent, !.skipped = 0]
    /\ session' = IF session.instance = "exiting" /\ ch.config = {}
                  THEN [session EXCEPT !.instance = "ended"] ELSE session
    /\ UNCHANGED <<rows, journal, reporters, child, seen>>

--------------------------------------------------------------------------
(* The children and the owner of the Session *)

Reports == session.stats["returned_accepted"] + session.stats["returned_rejected"]

\* scxml_session_report_invoke_event and _done: the row is checked under the
\* lock; an unknown token is turned away.
report_invoke(r, k, t) ==
    /\ reporters[r].pc = "idle" /\ session.instance /= "destroyed"
    /\ Reports < MaxReports
    /\ child[t] \in {"running", "finished", "stopped", "abandoned"}
    /\ (k = "event") => child[t] /= "finished"
    /\ child' = [child EXCEPT ![t] = IF k = "done" /\ @ = "running" THEN "finished" ELSE @]
    /\ IF live(t)
       THEN /\ reporters' = [reporters EXCEPT ![r] = [pc |-> "send", event |-> [kind |-> k, token |-> t]]]
            /\ UNCHANGED session
       ELSE session' = Count(session, "returned_rejected") /\ UNCHANGED reporters
    /\ UNCHANGED <<rows, journal, lane, chart, seen, attempts>>

report_invoke_event(r, t) == report_invoke(r, "event", t)
report_invoke_done(r, t) == report_invoke(r, "done", t)

\* try_send_tagged and the count of what became of it.
ReportSend(r) ==
    LET ok == session.admission /\ Len(chart.mailbox) < mailbox_capacity IN
    /\ reporters[r].pc = "send"
    /\ reporters' = [reporters EXCEPT ![r] = [pc |-> "idle", event |-> NoEvent]]
    /\ chart' = IF ok THEN [chart EXCEPT !.mailbox = Append(@, reporters[r].event)] ELSE chart
    /\ session' = Count(session, IF ok THEN "returned_accepted" ELSE "returned_rejected")
    /\ UNCHANGED <<rows, journal, lane, child, seen, attempts>>

\* scxml_session_try_send: any other external Event.
TrySend ==
    /\ session.admission /\ Len(chart.mailbox) < mailbox_capacity
    /\ session.external < MaxExternal
    /\ chart' = [chart EXCEPT !.mailbox = Append(@, NoEvent)]
    /\ session' = [session EXCEPT !.external = @ + 1]
    /\ UNCHANGED <<rows, journal, lane, reporters, child, seen, attempts>>

\* session_close_adapter: the flag is exchanged, the adapter closed once.
session_close_adapter(s) == [s EXCEPT !.closes = 1]

\* scxml_session_close
Close ==
    /\ CanEnd /\ session.instance \in {"running", "errored"} /\ session.closes = 0
    /\ session' = session_close_adapter([session EXCEPT !.admission = FALSE])
    /\ UNCHANGED <<rows, journal, lane, chart, reporters, child, seen, attempts>>

\* scxml_session_cancel: request_exit, then the adapter is closed.
SessionCancel ==
    /\ CanEnd /\ session.instance = "running"
    /\ session' = session_close_adapter([session EXCEPT !.instance = "exiting", !.admission = FALSE])
    /\ UNCHANGED <<rows, journal, lane, chart, reporters, child, seen, attempts>>

\* A closed adapter stops its children: external.
ChildStops(t) ==
    /\ session.closes = 1 /\ child[t] \in {"running", "abandoned"}
    /\ child' = [child EXCEPT ![t] = "stopped"]
    /\ UNCHANGED <<rows, journal, session, lane, chart, reporters, seen, attempts>>

\* is_quiescent of the adapter: external.
Quiescent ==
    /\ \A t \in Tokens : child[t] \notin {"offered", "running", "abandoned"}
    /\ \A r \in Reporter : reporters[r].pc = "idle"

\* scxml_session_destroy: WOULD_BLOCK until the adapter is quiescent and the
\* instance is not executing.
Destroy ==
    /\ session.closes = 1 /\ ~session.admission /\ Quiescent
    /\ session.instance \in {"running", "ended", "errored"} /\ lane.pc = "idle"
    /\ session.instance = "running" => chart.mailbox = <<>>
    /\ session' = [session EXCEPT !.instance = "destroyed"]
    /\ UNCHANGED <<rows, journal, lane, chart, reporters, child, seen, attempts>>

--------------------------------------------------------------------------
Lane ==
    \/ \E exits, enters \in SUBSET Owners : Microstep(exits, enters)
    \/ Drain \/ Stable \/ ExitAll \/ SkipRow \/ PreparedAll \/ Dequeue \/ SkipForward
    \/ \E a \in AdapterAnswers \cup {"CLOSED", "EVALUATION"} : StartPending(a)
    \/ \E a \in AdapterAnswers \cup {"CLOSED"} : Forward(a) \/ Cancel(a)
    \/ Commit \/ Published

Children ==
    \/ \E r \in Reporter, t \in Tokens : report_invoke_event(r, t) \/ report_invoke_done(r, t)
    \/ \E r \in Reporter : ReportSend(r)
    \/ \E t \in Tokens : ChildStops(t)

Next == Lane \/ Children \/ TrySend \/ Close \/ SessionCancel \/ Destroy

Spec == Init /\ [][Next]_vars

\* The executor runs what is ready, and a report call returns.
LiveSpec == Spec /\ WF_vars(Lane) /\ \A r \in Reporter : WF_vars(ReportSend(r))

--------------------------------------------------------------------------
(* Properties *)

\* The statistics a host reads say what the rows say: "active" counts the
\* running invocations, and every invocation that was started is running,
\* completed, cancelled, or its cancel failed or is under way.
Accounted ==
    LET n == session.stats IN
    /\ n["active"] = Cardinality({i \in Inv : rows[i].state = "ACTIVE"})
    /\ n["started"] = n["active"] + n["completed"] + n["cancelled"] + n["cancel_failed"]
                      + (IF lane.pc = "cancel" THEN 1 ELSE 0)

\* No child runs that the Session has forgotten, and no row is ACTIVE whose
\* child was never committed: only between the row and the cancel call may
\* the two disagree.
NoOrphanChild ==
    \A t \in Tokens :
        /\ child[t] = "running" => live(t) \/ (lane.pc = "cancel" /\ lane.token = t)
        /\ live(t) => child[t] \in {"running", "finished"} \/ session.closes = 1

\* Two invocations never carry one token, and a token names one child.
TokensUnique ==
    \A i, k \in Inv : i /= k /\ rows[i].token /= 0 => rows[i].token /= rows[k].token

\* The chart sees the end of an invocation at most once and nothing of the
\* invocation after it, however often the child reports and however the
\* report races the lane.
DoneIsLast ==
    \A t \in Tokens : \A n \in 1 .. Len(seen[t]) : seen[t][n] = "done" => n = Len(seen[t])

\* An Event that was already in the mailbox when its invocation was
\* cancelled is not shown to the chart.
CancelledIsSilent ==
    \A t \in Tokens : seen'[t] /= seen[t] =>
            child[t] \notin {"stopped", "abandoned"} \/ session.closes = 1

\* When the Session waits for an external Event, every entry of an owner
\* state has had its invocation started exactly once, none is pending, and
\* a state that is not active has no invocation.
StartedOncePerEntry ==
    lane.pc = "idle" /\ session.instance = "running" =>
        \A i \in Inv : IF owner[i] \in chart.config
                       THEN attempts[i] = 1 /\ rows[i].state \in {"ACTIVE", "FAILED", "INACTIVE"}
                       ELSE rows[i] = NoRow

\* Rollback is complete: an errored Session has no reserved row, and no
\* ticket of the adapter that was neither committed nor discarded.
RolledBack ==
    session.instance = "errored" =>
        /\ \A i \in Inv : rows[i].state \notin {"START_RESERVED", "FAIL_RESERVED"}
        /\ \A t \in Tokens : child[t] /= "offered"

\* The Event that ends an invocation is not forwarded to it, and no forward
\* is committed to a child that is already being cancelled.
ForwardsReachTheLiving ==
    \A n \in 1 .. Len(journal) : journal[n].kind = "FORWARD" =>
        /\ live(journal[n].token)
        /\ \A m \in 1 .. Len(journal) :
              journal[m].kind = "COMPLETE" => journal[m].token /= journal[n].token

\* The adapter is closed once and nothing of it is in use once the Session
\* is destroyed.
CleanEnd ==
    session.instance = "destroyed" =>
        /\ session.closes = 1
        /\ \A t \in Tokens : child[t] \notin {"offered", "running", "abandoned"}
        /\ journal = <<>>

\* A pending invocation is started (or fails, or its owner is left).
PendingIsStarted ==
    \A i \in Inv : []<>(rows[i].state /= "PENDING" \/ session.instance /= "running")

\* A cancelled Session leaves all its states and ends.
CancelledSessionEnds == []<>(session.instance /= "exiting")

\* What the chart, the Session and the children hold of an invocation agree,
\* whatever reports, cancels and failures come between (above).
InvocationSound ==
    /\ TypeOK /\ Accounted /\ NoOrphanChild /\ TokensUnique /\ DoneIsLast
    /\ StartedOncePerEntry /\ ForwardsReachTheLiving /\ RolledBack /\ CleanEnd
=============================================================================
