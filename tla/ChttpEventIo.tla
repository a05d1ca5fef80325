----------------------------- MODULE ChttpEventIo -----------------------------
(***************************************************************************)
(* The BasicHTTP Event I/O processor while it is RUNNING: the egress rows  *)
(* (chttp_event_io_egress.c), the bindings of Sessions and their endpoints *)
(* (chttp_event_io.c) and the inbound handler (chttp_event_io_ingress.c).  *)
(*                                                                         *)
(* Four kinds of threads share the state under the processor lock: the     *)
(* executors of the Sessions prepare, commit and discard effects; the      *)
(* worker submits rows to the HTTP client, cancels and completes them; the *)
(* server thread runs the inbound handler; and the host opens and closes   *)
(* bindings.  An action is one critical section; what a thread does with   *)
(* no lock held lies between two actions.                                  *)
(*                                                                         *)
(* Starting and stopping the processor is ChttpProcessor; a RUNNING one    *)
(* cannot leave that state while bindings live (its NoBindingAfterStop).   *)
(***************************************************************************)
EXTENDS Integers, FiniteSets, FiniteSetsExt

CONSTANTS
    Bindings,            \* bindings ever made
    egress_capacity,     \* rows, and cancel tickets
    endpoint_capacity,   \* endpoints
    SendIds,             \* ids of sends
    MaxDelay,            \* largest delay of a send
    MaxTime,             \* bound: the clock, where due times saturate
    MaxSends             \* bound: sends ever prepared

ChttpAssumption ==
    /\ egress_capacity \in Nat \ {0} /\ endpoint_capacity \in Nat \ {0}
    /\ MaxDelay \in Nat /\ MaxTime \in Nat /\ MaxSends \in Nat

None == "none"
NoRow == -1
Rows == 0 .. egress_capacity - 1
Endpoints == 0 .. endpoint_capacity - 1

VARIABLES
    row,        \* the rows, scxml_chttp_egress_row
    ticket,     \* the cancel tickets, scxml_chttp_cancel_ticket
    binding,    \* scxml_chttp_binding_impl
    endpoint,   \* the binding of each endpoint
    count,      \* the counters of the processor; ended is the sum of completed,
                \* failed and cancelled and, not counted by the code, dropped
    executor,   \* the row a binding's executor is preparing
    held,       \* external: rows whose send ticket CFlow has not settled
    worker,     \* what the worker is doing, and the row it does it for
    handler,    \* the binding the inbound handler is serving
    client,     \* external: the requests the HTTP client has in flight
    now,        \* the clock
    asked       \* history: row uses that a cancel or a close was aimed at

vars == <<row, ticket, binding, endpoint, count, executor, held, worker,
          handler, client, now, asked>>

RowStates == {"FREE", "RESERVED", "READY", "SUBMITTING", "SUBMITTED", "COMPLETING"}
Row == [state : RowStates, binding : Bindings \cup {None},
        generation : 0 .. MaxSends, send_id : SendIds \cup {None},
        delay : 0 .. MaxDelay, due : 0 .. MaxTime,
        sequence : Nat, cancel_requested : BOOLEAN]
FreeRow(generation) ==
    [state |-> "FREE", binding |-> None, generation |-> generation,
     send_id |-> None, delay |-> 0, due |-> 0, sequence |-> 0,
     cancel_requested |-> FALSE]

Uses == Rows \X (1 .. MaxSends)

TypeOK ==
    /\ row \in [Rows -> Row]
    /\ ticket \in [Rows -> [reserved : BOOLEAN, target : Rows,
                            generation : 0 .. MaxSends]]
    /\ binding \in [Bindings ->
          [state : {"none", "RESERVED", "ACTIVE", "CLOSING", "QUIESCENT", "gone"},
           next_sequence : Nat, outbound : 0 .. egress_capacity,
           callbacks : 0 .. 1, session : BOOLEAN]]
    /\ endpoint \in [Endpoints -> Bindings \cup {None}]
    /\ count \in [queued : Nat, in_flight : Nat, accepted : Nat,
                  ended : Nat, invariant_failures : Nat]
    /\ executor \in [Bindings -> Rows \cup {NoRow}]
    /\ held \subseteq Rows
    /\ worker \in [pc : {"idle", "submit", "cancel", "report"}, row : Rows]
    /\ handler \in Bindings \cup {None}
    /\ client \in [Rows -> {"none", "active", "cancelling"}]
    /\ now \in 0 .. MaxTime
    /\ asked \subseteq Uses

Init ==
    /\ row = [r \in Rows |-> FreeRow(0)]
    /\ ticket = [t \in Rows |-> [reserved |-> FALSE, target |-> 0, generation |-> 0]]
    /\ binding = [b \in Bindings |->
          [state |-> "none", next_sequence |-> 1, outbound |-> 0,
           callbacks |-> 0, session |-> FALSE]]
    /\ endpoint = [e \in Endpoints |-> None]
    /\ count = [queued |-> 0, in_flight |-> 0, accepted |-> 0, ended |-> 0,
                invariant_failures |-> 0]
    /\ executor = [b \in Bindings |-> NoRow]
    /\ held = {}
    /\ worker = [pc |-> "idle", row |-> 0]
    /\ handler = None
    /\ client = [r \in Rows |-> "none"]
    /\ now = 0
    /\ asked = {}

Open(b) == binding[b].state \in {"RESERVED", "ACTIVE"}
First(S) == CHOOSE n \in S : \A m \in S : n <= m
Less(n) == IF n = 0 THEN 0 ELSE n - 1
Use(r) == <<r, row[r].generation>>
Sent == MapThenSumSet(LAMBDA r : row[r].generation, Rows)
invariant_failure == count' = [count EXCEPT !.invariant_failures = @ + 1]

\* reset_row_locked for a set of rows of one binding.
Reset(rs) ==
    row' = [r \in Rows |-> IF r \in rs THEN FreeRow(row[r].generation) ELSE row[r]]
Unreference(b, n) ==
    [binding EXCEPT ![b].outbound = IF @ < n THEN 0 ELSE @ - n]

-----------------------------------------------------------------------------
(* The executor of a Session: sends.                                       *)

\* The first section of prepare_send reserves the first free row.
prepare_send_reserve(b, id, delay) ==
    LET free == {r \in Rows : row[r].state = "FREE"}
        r == First(free)
    IN /\ Open(b) /\ executor[b] = NoRow
       /\ free # {} /\ Sent < MaxSends
       /\ row' = [row EXCEPT ![r] =
             [FreeRow(row[r].generation + 1) EXCEPT
                 !.state = "RESERVED", !.binding = b, !.send_id = id,
                 !.delay = delay]]
       /\ binding' = [binding EXCEPT ![b].outbound = @ + 1]
       /\ count' = [count EXCEPT !.queued = @ + 1]
       /\ executor' = [executor EXCEPT ![b] = r]
       /\ UNCHANGED <<ticket, endpoint, held, worker, handler, client, now, asked>>

\* abort_reserved: resolving the target or encoding the body has failed.
prepare_send_abort(b) ==
    LET r == executor[b]
    IN /\ r # NoRow
       /\ executor' = [executor EXCEPT ![b] = NoRow]
       /\ IF row[r].state = "RESERVED"
            THEN /\ Reset({r})
                 /\ binding' = Unreference(b, 1)
                 /\ count' = [count EXCEPT !.queued = Less(@)]
            ELSE invariant_failure /\ UNCHANGED <<row, binding>>
       /\ UNCHANGED <<ticket, endpoint, held, worker, handler, client, now, asked>>

\* The last section of prepare_send hands out the ticket, unless the binding
\* was closed while target and body were prepared.
prepare_send_finish(b) ==
    LET r == executor[b]
        reserved == row[r].state = "RESERVED"
    IN /\ r # NoRow
       /\ executor' = [executor EXCEPT ![b] = NoRow]
       /\ IF reserved /\ Open(b)
            THEN /\ count' = [count EXCEPT !.accepted = @ + 1]
                 /\ held' = held \cup {r}
                 /\ UNCHANGED <<row, binding>>
            ELSE /\ UNCHANGED held
                 /\ IF reserved
                      THEN /\ Reset({r})
                           /\ binding' = Unreference(b, 1)
                           /\ count' = [count EXCEPT !.queued = Less(@)]
                      ELSE UNCHANGED <<row, binding, count>>
       /\ UNCHANGED <<ticket, endpoint, worker, handler, client, now, asked>>

\* A row committed after close is let go without a word.
egress_commit(r) ==
    LET b == row[r].binding
    IN /\ r \in held
       /\ held' = held \ {r}
       /\ IF row[r].state # "RESERVED" \/ b = None
            THEN invariant_failure /\ UNCHANGED <<row, binding>>
            ELSE IF ~Open(b)
            THEN /\ Reset({r})
                 /\ binding' = Unreference(b, 1)
                 /\ count' = [count EXCEPT !.queued = Less(@), !.ended = @ + 1]
            ELSE /\ row' = [row EXCEPT ![r].state = "READY",
                              ![r].sequence = binding[b].next_sequence,
                              ![r].due = IF row[r].delay > MaxTime - now THEN MaxTime
                                          ELSE now + row[r].delay]
                 /\ binding' = [binding EXCEPT ![b].next_sequence = @ + 1]
                 /\ UNCHANGED count
       /\ UNCHANGED <<ticket, endpoint, executor, worker, handler, client, now, asked>>

egress_discard(r) ==
    /\ r \in held
    /\ held' = held \ {r}
    /\ IF row[r].state = "RESERVED"
         THEN /\ Reset({r})
              /\ binding' = Unreference(row[r].binding, 1)
              /\ count' = [count EXCEPT !.queued = Less(@), !.ended = @ + 1]
         ELSE invariant_failure /\ UNCHANGED <<row, binding>>
    /\ UNCHANGED <<ticket, endpoint, executor, worker, handler, client, now, asked>>

-----------------------------------------------------------------------------
(* The executor of a Session: cancels.                                     *)

\* A cancel with no row of the binding is the downstream adapter's, and one
\* with no free ticket is answered FULL: neither changes anything here.
prepare_cancel(b, id) ==
    LET targets == {r \in Rows : row[r].binding = b /\ row[r].send_id = id
                                   /\ row[r].state # "FREE"}
        free == {t \in Rows : ~ticket[t].reserved}
        r == First(targets)
    IN /\ Open(b) /\ executor[b] = NoRow
       /\ targets # {} /\ free # {}
       /\ ticket' = [ticket EXCEPT ![First(free)] =
             [reserved |-> TRUE, target |-> r, generation |-> row[r].generation]]
       /\ asked' = asked \cup {Use(r)}
       /\ UNCHANGED <<row, binding, endpoint, count, executor, held, worker,
                      handler, client, now>>

\* Fault: the generation of the row is not compared.
Targets_AnyUse(t) == TRUE

Targets(t) == row[ticket[t].target].generation = ticket[t].generation

\* Effects are committed in the order they were prepared: a send that is to be
\* cancelled in the same step has been settled before.
cancel_commit(t) ==
    LET r == ticket[t].target
        b == row[r].binding
    IN /\ ticket[t].reserved
       /\ Targets(t) => r \notin held
       /\ ticket' = [ticket EXCEPT ![t].reserved = FALSE]
       /\ IF Targets(t) /\ row[r].state = "READY"
            THEN /\ Reset({r})
                 /\ binding' = Unreference(b, 1)
                 /\ count' = [count EXCEPT !.queued = Less(@), !.ended = @ + 1]
            ELSE /\ row' = IF Targets(t) /\ row[r].state \in {"SUBMITTING", "SUBMITTED"}
                             THEN [row EXCEPT ![r].cancel_requested = TRUE]
                             ELSE row
                 /\ UNCHANGED <<binding, count>>
       /\ UNCHANGED <<endpoint, executor, held, worker, handler, client, now, asked>>

cancel_discard(t) ==
    /\ ticket[t].reserved
    /\ ticket' = [ticket EXCEPT ![t].reserved = FALSE]
    /\ UNCHANGED <<row, binding, endpoint, count, executor, held, worker,
                   handler, client, now, asked>>

-----------------------------------------------------------------------------
(* The worker.                                                             *)

earlier_row_blocks(r) ==
    \E q \in Rows \ {r} :
        /\ row[q].binding = row[r].binding
        /\ row[q].state \notin {"FREE", "RESERVED"}
        /\ row[q].sequence < row[r].sequence

\* The rows that may be submitted; of these the one due first, then the first.
Selectable == {r \in Rows : /\ row[r].state = "READY"
                            /\ binding[row[r].binding].state = "ACTIVE"
                            /\ row[r].due <= now
                            /\ ~earlier_row_blocks(r)}
select_ready ==
    First({r \in Selectable : \A q \in Selectable : row[r].due <= row[q].due})

submit_one_select ==
    /\ worker.pc = "idle" /\ Selectable # {}
    /\ LET r == select_ready
       IN /\ row' = [row EXCEPT ![r].state = "SUBMITTING"]
          /\ worker' = [pc |-> "submit", row |-> r]
    /\ count' = [count EXCEPT !.queued = Less(@), !.in_flight = @ + 1]
    /\ UNCHANGED <<ticket, binding, endpoint, executor, held, handler, client, now, asked>>

\* The client takes the request over.
submit_one_accepted ==
    LET r == worker.row
    IN /\ worker.pc = "submit"
       /\ row' = [row EXCEPT ![r].state = "SUBMITTED"]
       /\ client' = [client EXCEPT ![r] = "active"]
       /\ worker' = [worker EXCEPT !.pc = "idle"]
       /\ UNCHANGED <<ticket, binding, endpoint, count, executor, held, handler,
                      now, asked>>

\* The client has no room: the row is READY again.
submit_one_full ==
    LET r == worker.row
    IN /\ worker.pc = "submit"
       /\ row' = [row EXCEPT ![r].state = "READY"]
       /\ count' = [count EXCEPT !.queued = @ + 1, !.in_flight = Less(@)]
       /\ worker' = [worker EXCEPT !.pc = "idle"]
       /\ UNCHANGED <<ticket, binding, endpoint, executor, held, handler, client,
                      now, asked>>

\* The first section of complete_row.
Completed(r) ==
    /\ IF row[r].state \in {"SUBMITTED", "SUBMITTING"} /\ row[r].binding # None
         THEN /\ row' = [row EXCEPT ![r].state = "COMPLETING"]
              /\ count' = [count EXCEPT !.in_flight = Less(@), !.ended = @ + 1]
              /\ worker' = [pc |-> "report", row |-> r]
         ELSE /\ invariant_failure
              /\ worker' = [worker EXCEPT !.pc = "idle"]
              /\ UNCHANGED row
    /\ UNCHANGED binding

\* The client refuses the request for good.
submit_one_failed ==
    /\ worker.pc = "submit"
    /\ Completed(worker.row)
    /\ UNCHANGED <<ticket, endpoint, executor, held, handler, client, now, asked>>

\* The client calls request_complete while it is polled: the request was
\* answered, failed or was cancelled.
request_complete(r) ==
    /\ worker.pc = "idle" /\ client[r] # "none"
    /\ client' = [client EXCEPT ![r] = "none"]
    /\ Completed(r)
    /\ UNCHANGED <<ticket, endpoint, executor, held, handler, now, asked>>

\* The Session has been told with no lock held; the row is released.
complete_row_release ==
    LET r == worker.row
    IN /\ worker.pc = "report"
       /\ IF row[r].state = "COMPLETING"
            THEN /\ Reset({r})
                 /\ binding' = Unreference(row[r].binding, 1)
                 /\ UNCHANGED count
            ELSE invariant_failure /\ UNCHANGED <<row, binding>>
       /\ worker' = [worker EXCEPT !.pc = "idle"]
       /\ UNCHANGED <<ticket, endpoint, executor, held, handler, client, now, asked>>

Cancellable == {r \in Rows : row[r].state = "SUBMITTED" /\ row[r].cancel_requested}

cancel_one_select ==
    /\ worker.pc = "idle" /\ Cancellable # {}
    /\ row' = [row EXCEPT ![First(Cancellable)].cancel_requested = FALSE]
    /\ worker' = [pc |-> "cancel", row |-> First(Cancellable)]
    /\ UNCHANGED <<ticket, binding, endpoint, count, executor, held, handler,
                   client, now, asked>>

\* The client accepts the cancel, or it has accepted one before.
cancel_one_accepted ==
    /\ worker.pc = "cancel"
    /\ client' = [client EXCEPT ![worker.row] = "cancelling"]
    /\ worker' = [worker EXCEPT !.pc = "idle"]
    /\ UNCHANGED <<row, ticket, binding, endpoint, count, executor, held,
                   handler, now, asked>>

\* The client has no room for the cancel: it is asked again later.
cancel_one_full ==
    /\ worker.pc = "cancel"
    /\ row' = [row EXCEPT ![worker.row].cancel_requested = TRUE]
    /\ worker' = [worker EXCEPT !.pc = "idle"]
    /\ UNCHANGED <<ticket, binding, endpoint, count, executor, held, handler,
                   client, now, asked>>

-----------------------------------------------------------------------------
(* Bindings.                                                               *)

binding_init(b) ==
    LET free == {e \in Endpoints : endpoint[e] = None}
    IN /\ binding[b].state = "none" /\ free # {}
       /\ binding' = [binding EXCEPT ![b].state = "RESERVED"]
       /\ endpoint' = [endpoint EXCEPT ![First(free)] = b]
       /\ UNCHANGED <<row, ticket, count, executor, held, worker, handler,
                      client, now, asked>>

binding_activate(b) ==
    /\ binding[b].state = "RESERVED"
    /\ binding' = [binding EXCEPT ![b].state = "ACTIVE", ![b].session = TRUE]
    /\ UNCHANGED <<row, ticket, endpoint, count, executor, held, worker,
                   handler, client, now, asked>>

\* close_binding_locked: READY rows go, requests under way are cancelled.
CloseRows(b) ==
    row' = [r \in Rows |->
              IF row[r].binding # b THEN row[r]
              ELSE IF row[r].state = "READY" THEN FreeRow(row[r].generation)
              ELSE IF row[r].state \in {"SUBMITTING", "SUBMITTED"}
                THEN [row[r] EXCEPT !.cancel_requested = TRUE]
              ELSE row[r]]

\* A second close changes nothing here; the downstream adapter is closed once.
composite_close(b) ==
    LET ready == {r \in Rows : row[r].binding = b /\ row[r].state = "READY"}
        n == Cardinality(ready)
    IN /\ Open(b)
       /\ CloseRows(b)
       /\ binding' = [Unreference(b, n) EXCEPT ![b].state = "CLOSING"]
       /\ count' = [count EXCEPT !.queued = IF @ < n THEN 0 ELSE @ - n,
                                 !.ended = @ + n]
       /\ asked' = asked \cup {Use(r) : r \in {q \in Rows : row[q].binding = b}}
       /\ UNCHANGED <<ticket, endpoint, executor, held, worker, handler, client, now>>

Unreferenced(b) == binding[b].callbacks = 0 /\ binding[b].outbound = 0

\* The downstream adapter is asked first; this is its second section.
composite_is_quiescent(b) ==
    /\ binding[b].state = "CLOSING" /\ Unreferenced(b)
    /\ binding' = [binding EXCEPT ![b].state = "QUIESCENT", ![b].session = FALSE]
    /\ UNCHANGED <<row, ticket, endpoint, count, executor, held, worker,
                   handler, client, now, asked>>

binding_destroy(b) ==
    /\ binding[b].state = "QUIESCENT"
    /\ \E e \in Endpoints :
          /\ endpoint[e] = b
          /\ endpoint' = [endpoint EXCEPT ![e] = None]
    /\ binding' = [binding EXCEPT ![b].state = "gone"]
    /\ UNCHANGED <<row, ticket, count, executor, held, worker, handler, client,
                   now, asked>>

-----------------------------------------------------------------------------
(* The inbound handler, run by the server one request at a time.           *)

\* A request for another endpoint is answered 404, for a binding that is not
\* ACTIVE 410, with no change to the binding.
ingress_enter(b) ==
    /\ handler = None
    /\ \E e \in Endpoints : endpoint[e] = b
    /\ binding[b].state = "ACTIVE" /\ binding[b].session
    /\ handler' = b
    /\ binding' = [binding EXCEPT ![b].callbacks = @ + 1]
    /\ UNCHANGED <<row, ticket, endpoint, count, executor, held, worker, client,
                   now, asked>>

\* The request was decoded, offered to the Session and answered meanwhile.
ingress_leave ==
    LET b == handler
    IN /\ b # None
       /\ handler' = None
       /\ IF binding[b].callbacks # 0
            THEN /\ binding' = [binding EXCEPT ![b].callbacks = @ - 1]
                 /\ UNCHANGED count
            ELSE invariant_failure /\ UNCHANGED binding
       /\ UNCHANGED <<row, ticket, endpoint, executor, held, worker, client, now, asked>>

tick ==
    /\ now < MaxTime
    /\ now' = now + 1
    /\ UNCHANGED <<row, ticket, binding, endpoint, count, executor, held,
                   worker, handler, client, asked>>

Executor ==
    \/ \E b \in Bindings : \E id \in SendIds, delay \in 0 .. MaxDelay :
            prepare_send_reserve(b, id, delay)
    \/ \E b \in Bindings : prepare_send_abort(b) \/ prepare_send_finish(b)
    \/ \E b \in Bindings, id \in SendIds : prepare_cancel(b, id)
    \/ \E r \in Rows : egress_commit(r) \/ egress_discard(r)
    \/ \E t \in Rows : cancel_commit(t) \/ cancel_discard(t)

Worker ==
    \/ submit_one_select
    \/ submit_one_accepted \/ submit_one_full \/ submit_one_failed
    \/ complete_row_release
    \/ cancel_one_select \/ cancel_one_accepted \/ cancel_one_full

Client == \E r \in Rows : request_complete(r)

Host == \E b \in Bindings :
            \/ binding_init(b) \/ binding_activate(b) \/ composite_close(b)
            \/ composite_is_quiescent(b) \/ binding_destroy(b)

Next ==
    \/ Executor \/ Worker \/ Client \/ Host
    \/ \E b \in Bindings : ingress_enter(b)
    \/ ingress_leave
    \/ tick

Spec == Init /\ [][Next]_vars

\* The worker loops for ever, the client has room again and again and ends each
\* request, CFlow settles the tickets it was given, time passes.
Fairness ==
    /\ WF_vars(submit_one_select \/ cancel_one_select) /\ WF_vars(complete_row_release)
    /\ WF_vars(submit_one_accepted \/ submit_one_full \/ submit_one_failed)
    /\ SF_vars(submit_one_accepted \/ submit_one_failed)
    /\ WF_vars(cancel_one_accepted \/ cancel_one_full)
    /\ \A r \in Rows : SF_vars(request_complete(r))
    /\ \A b \in Bindings : WF_vars(prepare_send_abort(b) \/ prepare_send_finish(b))
    /\ \A r \in Rows : WF_vars(egress_commit(r) \/ egress_discard(r))
    /\ WF_vars(tick) /\ WF_vars(ingress_leave)

FairSpec == Spec /\ Fairness

-----------------------------------------------------------------------------
(* What has to hold.                                                       *)

\* None of the consistency checks of the processor ever fails.
NoInvariantFailure == count.invariant_failures = 0

RowsIn(states) == {r \in Rows : row[r].state \in states}

\* The counters that close, stop and quiescence rely on are exact, whatever
\* thread released a row: the underflow guards of the code are never needed.
CountersExact ==
    /\ count.queued = Cardinality(RowsIn({"RESERVED", "READY"}))
    /\ count.in_flight = Cardinality(RowsIn({"SUBMITTING", "SUBMITTED"}))
    /\ \A b \in Bindings : binding[b].outbound =
          Cardinality({r \in Rows : row[r].binding = b /\ row[r].state # "FREE"})

\* Requests of one binding go out one by one in the order of their commits: the
\* row the worker has taken is older than every other committed row.
OneByOneInOrder ==
    \A r \in RowsIn({"SUBMITTING", "SUBMITTED", "COMPLETING"}), q \in Rows :
        /\ q # r /\ row[q].binding = row[r].binding
        /\ row[q].state \notin {"FREE", "RESERVED"}
        => row[q].state = "READY" /\ row[r].sequence < row[q].sequence

\* The Session is used with no lock held, by the worker that reports and by the
\* inbound handler; it is not let go before both have returned.
SessionBorrowed ==
    /\ worker.pc = "report" =>
          /\ row[worker.row].state = "COMPLETING"
          /\ binding[row[worker.row].binding].state \in {"ACTIVE", "CLOSING"}
    /\ handler # None => binding[handler].session

\* A request is only cancelled when a cancel or a close was aimed at this very
\* send, not at an earlier one that used the same row.
CancelHitsItsTarget ==
    \A r \in Rows : row[r].cancel_requested \/ client[r] = "cancelling"
                      => Use(r) \in asked

\* Every send that was accepted is under way or has ended exactly once.
AcceptedEndOnce ==
    count.accepted = count.ended + Cardinality(held)
        + Cardinality(RowsIn({"READY", "SUBMITTING", "SUBMITTED"}))

\* A binding that was destroyed left nothing behind that refers to it.
GoneUnreferenced ==
    \A b \in Bindings : binding[b].state \in {"QUIESCENT", "gone"} =>
        /\ \A r \in Rows : row[r].binding # b
        /\ executor[b] = NoRow /\ handler # b

\* A committed send of an open binding is submitted and ends, however often the
\* client had no room and however long earlier sends are delayed: again and again
\* a row is free or not yet committed.
CommittedSendEnds ==
    \A r \in Rows :
        []<>(\/ row[r].state \in {"FREE", "RESERVED"}
             \/ binding[row[r].binding].state # "ACTIVE")

\* A request of a closed binding that the client has got ends.
SubmittedRequestEnds ==
    \A r \in Rows : []<>(row[r].state \notin {"SUBMITTED", "COMPLETING"})

\* docs/specs/scxml-chttp-event-io-design.md: close "cancels or drains that
\* binding's published rows", and client pressure keeps a row queued only
\* "until capacity becomes available or shutdown cancels it".
ClosedBindingDrains ==
    \A b \in Bindings :
        binding[b].state = "CLOSING" ~> binding[b].outbound = 0

\* Rows, tickets, bindings and counters agree in every interleaving of executor,
\* worker, handler and host; no send is lost, doubled, overtaken or cancelled for
\* another.
ChttpSound ==
    /\ TypeOK
    /\ NoInvariantFailure /\ CountersExact
    /\ OneByOneInOrder /\ AcceptedEndOnce
    /\ CancelHitsItsTarget
    /\ SessionBorrowed /\ GoneUnreferenced
=============================================================================
