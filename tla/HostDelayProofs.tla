--------------------------- MODULE HostDelayProofs ---------------------------
(***************************************************************************)
(* The sendid registry of a Session and the ledger of the Host router      *)
(* agree about every delayed send, for every capacity of either and for    *)
(* every order in which sends, cancels, deadlines, reports and close meet. *)
(*                                                                         *)
(* The router's own invariants carry over, because each step of HostDelay  *)
(* is a step of the router or leaves the router alone.  What the two       *)
(* registries say of each other (Agreement) holds while no microstep was   *)
(* rolled back, and needs that the document does not reuse a sendid whose  *)
(* Event has fired and is not delivered (~ids_recur).                      *)
(***************************************************************************)
EXTENDS HostDelay, HostRouterLedgerProofs

SessionTypes ==
    /\ delayed_sends \in [Regs -> [state : RegStates,
                                   previous_state : RegStates,
                                   id : SendIds \cup {NoId}]]
    /\ executing \in [pc : {"idle", "adapter", "admit", "rollback"},
                      kind : {"send", "delayed", "cancel"},
                      id : SendIds \cup {NoId}, delay : Delays \cup {0},
                      reg : Regs]
    /\ effects \in Seq(Effect)
    /\ registry_done \in BOOLEAN
    /\ binding \in {"open", "closing", "closed"}
    /\ failed \in BOOLEAN

\* The Session's half of the journal matches the router's, ticket by ticket,
\* and the other journals are empty.
Aligned ==
    /\ Len(effects) = Len(journal[0])
    /\ Len(effects) <= prepared_effect_capacity
    /\ \A k \in 1 .. Len(effects) :
          effects[k].kind = "cancel" <=> journal[0][k].kind = "cancel"
    /\ \A k \in 1 .. Len(effects), r \in Rows : journal[0][k] = SendTicket(r) =>
          (effects[k].kind = "delayed" <=> rows[r].delay # 0)
    /\ \A j \in Journals \ {0} : journal[j] = <<>> /\ phase[j] = "open"

\* An element executes while the microstep is open, tickets settle after its
\* end, and a rollback is the last thing that happens to the journal.
Phased ==
    /\ executing.pc # "idle" =>
          /\ phase[0] = "open" /\ Len(effects) < prepared_effect_capacity
          /\ executing.kind = "delayed" <=> executing.delay # 0
          /\ executing.kind = "send" <=> executing.id = NoId
    /\ registry_done => phase[0] # "open"
    /\ phase[0] # "open" => journal[0] # <<>>
    /\ failed => executing.pc = "idle" /\ phase[0] # "commit"
    /\ failed /\ phase[0] = "open" => journal[0] = <<>>
    /\ phase[0] = "discard" => failed

\* Every row and intent belongs to the Session, a witness of a lost race is on
\* a fired row, and each reserved row still has a sequence number to take.
Origin ==
    /\ \A r \in Rows : rows[r].state # "FREE" => rows[r].source = Source
    /\ \A c \in CancelRows : cancel_rows[c].in_use => cancel_rows[c].source = Source
    /\ \A r \in Rows : rows[r].fire_won_cancel =>
          rows[r].state \in {"FIRING", "READY", "INFLIGHT"}
    /\ next_sequence + reserved <= next_row_identity

RouterFacts == RouterInv /\ BorrowsPinned /\ EventInv
SessionFacts == SessionTypes /\ Aligned /\ Phased /\ Origin

-----------------------------------------------------------------------------
(* The Session is a user of the router. *)

LEMMA SourceIsRef == Source \in Refs /\ Source.slot = 0 /\ Source.generation = 1
  BY LimitAssumption, TableIndices DEF Source, Refs

LEMMA ZeroJournal == 0 \in Journals
  BY CapacityAssumption DEF Journals

\* The attached router satisfies the router's invariants.
LEMMA InitialAttached == DelayInit => RouterFacts
  <1> SUFFICES ASSUME DelayInit PROVE RouterFacts
    OBVIOUS
  <1> USE CapacityAssumption, LimitAssumption, NameAssumption, TableIndices
  <1>0. PICK x \in Sessions : \A s \in Slots : endpoints[s] =
          IF s = 0 THEN [generation |-> 1, live |-> TRUE, active |-> TRUE,
                         session |-> x, parent |-> NoRef, accessible |-> FALSE]
          ELSE BlankEndpoint
    BY DelayAssumption DEF DelayInit
  <1>1. TopologyInv
    <2>1. LiveSlots = {0} /\ LiveRoutes = {}
      BY <1>0 DEF DelayInit, LiveSlots, LiveRoutes, BlankEndpoint, FreeRoute
    <2>2. endpoints \in [Slots -> Endpoint]
      <3> DEFINE y == CHOOSE z \in Sessions : TRUE
      <3>1. y \in Sessions
        BY DelayAssumption
      <3>2. endpoints = [s \in Slots |->
              IF s = 0 THEN [generation |-> 1, live |-> TRUE, active |-> TRUE,
                             session |-> y, parent |-> NoRef, accessible |-> FALSE]
              ELSE BlankEndpoint]
        BY DEF DelayInit
      <3> HIDE DEF y
      <3> QED BY <3>1, <3>2 DEF BlankEndpoint, Endpoint
    <2>3. invoke_routes \in [Routes -> Route]
      BY DEF DelayInit, FreeRoute, Route
    <2>4. Cardinality({0}) = 1
      BY FS_Singleton
    <2> QED BY <2>1, <2>2, <2>3, <2>4, FS_EmptySet DEF DelayInit, TopologyInv
  <1>2. LedgerInv
    <2>1. UsedRows = {} /\ ReservedRows = {} /\ TimerRows = {}
      BY DEF DelayInit, UsedRows, ReservedRows, TimerRows, CountsTimer, FreeRow
    <2>2. rows \in [Rows -> Row]
      BY DEF DelayInit, FreeRow, Row, RowStates
    <2> QED BY <2>1, <2>2, FS_EmptySet DEF DelayInit, LedgerInv, FreeRow
  <1>3. StampInv /\ Accounting
    BY DEF DelayInit, StampInv, Accounting
  <1>4. LifeInv
    BY DEF DelayInit, LifeInv
  <1>5. JournalInv
    BY DEF DelayInit, JournalInv, Phases
  <1>6. OutcomeInv
    BY DEF DelayInit, OutcomeInv, Fates
  <1>7. IntentInv
    <2>1. UsedIntents = {}
      BY DEF DelayInit, UsedIntents, FreeCancel
    <2>2. cancel_rows \in [CancelRows -> CancelRow]
      BY DEF DelayInit, FreeCancel, CancelRow
    <2> QED BY <2>1, <2>2, FS_EmptySet DEF DelayInit, IntentInv
  <1>8. LaneInv /\ ClaimInv
    BY DEF DelayInit, LaneInv, ClaimInv, IdleDrain, IdleTimer, LaneStates
  <1>9. RouterInv
    BY <1>1, <1>2, <1>3, <1>4, <1>5, <1>6, <1>7, <1>8 DEF RouterInv
  <1>10. /\ \A r \in Rows : rows[r] = FreeRow
         /\ \A c \in CancelRows : cancel_rows[c] = FreeCancel
         /\ \A i \in Routes : invoke_routes[i] = FreeRoute
         /\ \A j \in Journals : Len(journal[j]) = 0
         /\ \A i \in 1 .. MaxU64 : fate[i] = "none"
         /\ drain.pc = "idle" /\ timer.pc = "idle"
         /\ next_row_identity = 0 /\ next_sequence = 0 /\ invariant_failures = 0
    BY DEF DelayInit, IdleDrain, IdleTimer
  <1>11. /\ FreeRow.state = "FREE" /\ FreeRow.identity = 0 /\ FreeRow.sequence = 0
         /\ FreeRow.delay = 0 /\ ~FreeCancel.in_use /\ ~FreeRoute.live
         /\ \A s \in Slots : endpoints[s].parent.generation = 0
         /\ \A s \in Slots : endpoints[s].active => endpoints[s].session # NoSession
    BY <1>0 DEF FreeRow, FreeCancel, FreeRoute, BlankEndpoint, NoRef
  <1>12. BorrowsPinned
    BY <1>10, <1>11 DEF BorrowsPinned
  <1>13. HoldInv
    BY <1>10, <1>11 DEF HoldInv, DrainHolds, TimerHolds
  <1>14. IdentityInv
    <2>1. \A i \in 1 .. MaxU64 : i > 0 /\ i # 0
      OBVIOUS
    <2> QED BY <1>10, <1>11, <2>1 DEF IdentityInv
  <1>15. SequenceInv /\ SessionInv
    BY <1>10, <1>11 DEF SequenceInv, SessionInv
  <1>16. TicketInv
    <2>1. 1 .. 0 = {}
      OBVIOUS
    <2> QED BY <1>10, <1>11, <2>1 DEF TicketInv, SendsReserved, CancelsInUse, TicketsOnce,
                                      ReservedTicketed, SendsFirst, IntentsNameEvents
  <1>17. UnfiredIdsUnique /\ NeverEarly
    BY <1>10, <1>11 DEF UnfiredIdsUnique, NeverEarly, CountsTimer
  <1> QED BY <1>9, <1>10, <1>12, <1>13, <1>14, <1>15, <1>16, <1>17 DEF RouterFacts, EventInv

\* Each step of the composition is a step of the router or none.
LEMMA UsesRouter ==
    ASSUME SessionTypes, Phased, [DelayNext]_allVars
    PROVE  [Next]_vars
  <1>0. 0 \in Journals /\ Source \in Refs /\ Self \in Targets
    BY SourceIsRef, CapacityAssumption DEF Journals, Targets
  <1>1. CASE host_prepare_send
    <2>1. <<executing.delay, executing.id>> \in Sends
      BY <1>1, NameAssumption, LimitAssumption
         DEF host_prepare_send, SessionTypes, Phased, Sends
    <2>2. prepare_target(Source, Self, executing.delay, executing.id)
      BY <1>1 DEF host_prepare_send
    <2>3. \E source \in Refs, target \in Targets, d \in Sends :
             prepare_target(source, target, d[1], d[2])
      <3> DEFINE d == <<executing.delay, executing.id>>
      <3>1. d[1] = executing.delay /\ d[2] = executing.id
        OBVIOUS
      <3>2. prepare_target(Source, Self, d[1], d[2])
        BY <2>2, <3>1
      <3> QED BY <3>2, <2>1, <1>0
    <2> QED BY <2>3 DEF Produce, Next
  <1>2. CASE host_prepare_cancel
    <2>1. executing.id \in SendIds
      BY <1>2 DEF host_prepare_cancel, SessionTypes, Phased
    <2> QED BY <1>0, <1>2, <2>1 DEF host_prepare_cancel, Produce, Next
  <1>3. CASE end_microstep("commit") \/ end_microstep("discard")
    BY <1>0, <1>3 DEF end_microstep, Settle, Next
  <1>4. CASE settle_ticket
    BY <1>0, <1>4 DEF settle_ticket, Settle, Next
  <1>5. CASE report_send_done
    <2>1. \E settled \in BOOLEAN : run_due_report(settled)
      BY <1>5 DEF report_send_done
    <2> QED BY <2>1 DEF Next
  <1>6. CASE host_close_cancels
    BY <1>0, <1>6 DEF host_close_cancels, HostCalls, Next
  <1>7. CASE HostSteps
    BY <1>7 DEF HostSteps, HostCalls, Next
  <1>8. CASE UNCHANGED vars
    BY <1>8
  <1>9. CASE UNCHANGED allVars
    BY <1>9 DEF allVars
  <1> QED
    BY <1>1, <1>2, <1>3, <1>4, <1>5, <1>6, <1>7, <1>8, <1>9
       DEF DelayNext, execute_send, execute_cancel, host_prepare, host_refuses,
           rollback_prepared_effect, settle_registry, host_close

LEMMA RouterFactsKept ==
    ASSUME RouterFacts, SessionTypes, Phased, [DelayNext]_allVars
    PROVE  RouterFacts' /\ EventStep
  BY UsesRouter, NextKeeps, NextPins, NextKeepsEvents DEF RouterFacts

-----------------------------------------------------------------------------
(* What the host's calls do to the rows. *)

\* The timer has asked the Session and has not yet settled the row.
Reported(r) == timer.pc = "reported" /\ timer.row = r

Passes(r, from, to) ==
    rows[r].state = from /\ rows'[r] = [rows[r] EXCEPT !.state = to]

Drops(r, states) == rows[r].state \in states /\ rows'[r] = FreeRow

\* A lane moves a row along or has it delivered; a row that waits is dropped
\* only by a close, and one that fires also if nobody knows its report.
HostMoves ==
    /\ \A r \in Rows :
          \/ rows'[r] = rows[r]
          \/ Passes(r, "DELAYED", "FIRING") /\ ~Reported(r)
          \/ Passes(r, "FIRING", "READY") /\ Reported(r)
          \/ Passes(r, "READY", "INFLIGHT")
          \/ Passes(r, "INFLIGHT", "READY")
          \/ Drops(r, {"INFLIGHT"})
          \/ /\ Drops(r, {"FIRING"}) /\ Reported(r)
             /\ closed \/ ~(timer.settled \/ CancelRaced(timer.row))
          \/ /\ Drops(r, {"DELAYED", "READY"})
             /\ closed' \/ (binding # "open" /\ binding' # "open")
    /\ timer'.pc = "reported" => UNCHANGED timer /\ rows'[timer.row] = rows[timer.row]
    /\ timer.pc = "reported" =>
          UNCHANGED timer \/ rows'[timer.row].state \in {"FREE", "READY"}
    /\ closed => closed'
    /\ timer_done_failed' # timer_done_failed =>
          timer.pc = "reported" /\ ~(timer.settled \/ CancelRaced(timer.row))
    /\ UNCHANGED <<journal, phase, cancel_rows, reserved, next_row_identity,
                   next_sequence>>

\* A set of rows in use is freed, and nothing else happens to a row.
LEMMA FreedRows ==
    ASSUME RouterInv, NEW D \in SUBSET UsedRows, NEW end, release_locked(D, end)
    PROVE  /\ \A r \in Rows : rows'[r] = IF r \in D THEN FreeRow ELSE rows[r]
           /\ D \cap ReservedRows = {} => UNCHANGED reserved
           /\ reserved' <= reserved
  <1>1. D \in SUBSET Rows /\ D \cap UsedRows = D
    BY DEF UsedRows
  <1>2. Releasable(D) = D
    BY <1>1, EveryRowIsReleasable DEF RouterInv
  <1>3. reserved' = Minus(reserved, Cardinality(D \cap ReservedRows))
    BY <1>2 DEF release_locked
  <1>4. Minus(reserved, Cardinality({})) = reserved
    BY FS_EmptySet DEF Minus, RouterInv, LedgerInv
  <1>5. reserved' <= reserved
    <2>1. IsFiniteSet(D \cap ReservedRows)
      BY FiniteTables, FS_Subset DEF ReservedRows
    <2>2. Cardinality(D \cap ReservedRows) \in Nat
      BY <2>1, FS_CardinalityType
    <2> QED BY <1>3, <2>2 DEF Minus, RouterInv, LedgerInv
  <1> QED BY <1>2, <1>3, <1>4, <1>5 DEF release_locked

LEMMA TimerMoves ==
    ASSUME RouterFacts, RunDueLane, UNCHANGED sessionVars
    PROVE  HostMoves
  <1>0. /\ rows \in [Rows -> Row] /\ timer.row \in Rows
        /\ timer.pc \in {"busy", "reported"} => rows[timer.row].state = "FIRING"
        /\ timer_pending \in Nat
        /\ timer \in [pc : LaneStates, row : Rows, budget : 0 .. MaxBatch,
                      settled : BOOLEAN]
        /\ timer_pending = Cardinality(TimerRows)
        /\ \A r \in Rows : rows[r].state = "FIRING" => rows[r].delay # 0
    BY DEF RouterFacts, RouterInv, LedgerInv, LaneInv, ClaimInv
  <1>1. ASSUME NEW r \in Rows, run_due_claim(r)
        PROVE  HostMoves
    <2>1. rows[r].state = "DELAYED" /\ timer.pc = "scan"
      BY <1>1 DEF run_due_claim, Earliest, Due
    <2>2. \A q \in Rows : rows'[q] = IF q = r THEN [rows[r] EXCEPT !.state = "FIRING"]
                                    ELSE rows[q]
      BY <1>0, <1>1 DEF run_due_claim
    <2>3. timer'.pc = "busy"
      BY <1>0, <1>1 DEF run_due_claim
    <2> QED BY <1>1, <2>1, <2>2, <2>3
            DEF run_due_claim, HostMoves, Passes, Reported, life, intents, journals, stamps,
                outcomes
  <1>2. CASE run_due_stop \/ run_due_return
    <2>1. timer'.pc # "reported"
      BY <1>0, <1>2 DEF run_due_stop, run_due_return, IdleTimer
    <2> QED BY <1>2, <2>1 DEF run_due_stop, run_due_return, HostMoves, ledger, life, intents,
                              journals, stamps, outcomes
  <1>3. CASE run_due_settle
    <2>1. timer.pc = "reported" /\ rows[timer.row].state = "FIRING"
      BY <1>0, <1>3 DEF run_due_settle
    <2>2. /\ {timer.row} \in SUBSET UsedRows /\ {timer.row} \cap ReservedRows = {}
          /\ timer.row \in TimerRows
      BY <1>0, <2>1 DEF UsedRows, ReservedRows, TimerRows, CountsTimer
    <2>3. timer_pending # 0
      <3>1. IsFiniteSet(TimerRows)
        BY FiniteTables, FS_Subset DEF TimerRows
      <3> QED BY <3>1, <2>2, <1>0, FS_EmptySet
    <2>4. UNCHANGED <<journal, phase, cancel_rows, next_row_identity, next_sequence, closed>>
      BY <1>3 DEF run_due_settle, intents, journals, stamps, life
    <2>5. CASE (~Acknowledged \/ closed) /\ fire_failed
      <3>1. /\ \A r \in Rows : rows'[r] = IF r \in {timer.row} THEN FreeRow ELSE rows[r]
            /\ UNCHANGED reserved
        BY <2>2, <2>5, FreedRows DEF fire_failed, cancel_rows_locked, RouterFacts
      <3>2. timer'.pc # "reported"
        BY <1>0, <2>5 DEF fire_failed
      <3>3. timer_done_failed' # timer_done_failed => ~Acknowledged
        BY <2>5 DEF fire_failed
      <3>4. rows'[timer.row].state = "FREE"
        BY <1>0, <3>1 DEF FreeRow
      <3> QED BY <2>1, <2>4, <2>5, <3>1, <3>2, <3>3, <3>4
              DEF HostMoves, Drops, Reported, Acknowledged
    <2>6. CASE fire_publishes
      <3>1. \A q \in Rows : rows'[q] = IF q = timer.row
                              THEN [rows[q] EXCEPT !.state = "READY"] ELSE rows[q]
        BY <1>0, <2>6 DEF fire_publishes
      <3>2. timer'.pc # "reported"
        BY <1>0, <2>6 DEF fire_publishes
      <3>3. rows'[timer.row].state = "READY"
        BY <1>0, <3>1 DEF Row
      <3> QED BY <2>1, <2>4, <2>6, <3>1, <3>2, <3>3
              DEF HostMoves, Passes, Reported, fire_publishes
    <2> QED BY <1>3, <2>1, <2>3, <2>5, <2>6 DEF run_due_settle
  <1> QED BY <1>1, <1>2, <1>3 DEF RunDueLane

LEMMA DrainMoves ==
    ASSUME RouterFacts, DrainLane, UNCHANGED sessionVars
    PROVE  HostMoves
  <1>0. /\ rows \in [Rows -> Row] /\ drain.row \in Rows
        /\ drain.pc = "busy" => rows[drain.row].state = "INFLIGHT"
        /\ timer.pc \in {"busy", "reported"} => rows[timer.row].state = "FIRING"
    BY DEF RouterFacts, RouterInv, LedgerInv, LaneInv, ClaimInv
  <1>1. ASSUME NEW r \in Rows, drain_claim(r)
        PROVE  HostMoves
    <2>1. rows[r].state = "READY"
      BY <1>1 DEF drain_claim, IsHead, ReadyRows, RowsIn
    <2>2. \A q \in Rows : rows'[q] = IF q = r THEN [rows[r] EXCEPT !.state = "INFLIGHT"]
                                    ELSE rows[q]
      BY <1>0, <1>1 DEF drain_claim
    <2>3. timer.row # r \/ timer.pc # "reported"
      BY <1>0, <2>1
    <2>4. UNCHANGED <<timer, journal, phase, cancel_rows, reserved, next_row_identity,
                      next_sequence, closed, timer_done_failed>>
      BY <1>1 DEF drain_claim, life, intents, journals, stamps, outcomes
    <2>5. timer.row \in Rows
      BY DEF RouterFacts, RouterInv, LaneInv
    <2> QED BY <2>1, <2>2, <2>3, <2>4, <2>5 DEF HostMoves, Passes
  <1>2. CASE drain_stop \/ drain_return
    <2> QED BY <1>2 DEF drain_stop, drain_return, HostMoves, ledger, life, intents,
                        journals, stamps, outcomes
  <1>3. ASSUME NEW ok \in BOOLEAN, drain_settle(ok)
        PROVE  HostMoves
    <2>1. drain.pc = "busy" /\ rows[drain.row].state = "INFLIGHT"
      BY <1>0, <1>3 DEF drain_settle
    <2>2. /\ {drain.row} \in SUBSET UsedRows /\ {drain.row} \cap ReservedRows = {}
      BY <1>0, <2>1 DEF UsedRows, ReservedRows
    <2>3. timer.row \in Rows /\ (timer.pc = "reported" => timer.row # drain.row)
      BY <1>0, <2>1 DEF RouterFacts, RouterInv, LaneInv
    <2>4. UNCHANGED <<timer, journal, phase, cancel_rows, next_row_identity,
                      next_sequence, closed, timer_done_failed>>
      BY <1>3 DEF drain_settle, life, intents, journals, stamps, outcomes
    <2>5. CASE release_locked({drain.row}, "delivered") \/ release_locked({drain.row}, "cancelled")
      <3>1. /\ \A r \in Rows : rows'[r] = IF r \in {drain.row} THEN FreeRow ELSE rows[r]
            /\ UNCHANGED reserved
        BY <2>2, <2>5, FreedRows DEF RouterFacts
      <3> QED BY <2>1, <2>3, <2>4, <3>1 DEF HostMoves, Drops
    <2>6. CASE /\ rows' = [rows EXCEPT ![drain.row].state = "READY"]
               /\ UNCHANGED reserved
      <3>1. \A q \in Rows : rows'[q] = IF q = drain.row
                              THEN [rows[q] EXCEPT !.state = "READY"] ELSE rows[q]
        BY <1>0, <2>6
      <3> QED BY <2>1, <2>3, <2>4, <2>6, <3>1 DEF HostMoves, Passes
    <2> QED BY <1>3, <2>1, <2>5, <2>6 DEF drain_settle, admitted, refused, cancel_rows_locked
  <1> QED BY <1>1, <1>2, <1>3 DEF DrainLane

LEMMA HostStepMoves ==
    ASSUME RouterFacts, HostSteps \/ host_close_cancels
    PROVE  HostMoves
  <1>1. CASE RunDueLane /\ UNCHANGED sessionVars
    BY <1>1, TimerMoves
  <1>2. CASE DrainLane /\ UNCHANGED sessionVars
    BY <1>2, DrainMoves
  <1>3. ASSUME NEW n \in 1 .. MaxBatch, run_due(n)
        PROVE  HostMoves
    <2>1. timer'.pc # "reported"
      BY <1>3 DEF run_due, IdleTimer
    <2> QED BY <1>3, <2>1 DEF run_due, HostMoves, ledger, life, intents, journals, stamps,
                              outcomes
  <1>4. ASSUME NEW n \in 1 .. MaxBatch, drain_begin(n)
        PROVE  HostMoves
    BY <1>4 DEF drain_begin, HostMoves, ledger, life, intents, journals, stamps, outcomes
  <1>5. CASE Tick
    BY <1>5 DEF Tick, HostMoves, ledger, life, lanes, intents, journals, stamps, outcomes
  <1>6. ASSUME NEW D \in SUBSET AcceptedRows, cancel_rows_locked(D),
               closed' \/ (binding # "open" /\ binding' # "open"), closed => closed',
               UNCHANGED <<stamps, intents, lanes, journals, timer_done_failed>>
        PROVE  HostMoves
    <2>1. /\ D \in SUBSET UsedRows /\ D \cap ReservedRows = {}
          /\ \A r \in D : rows[r].state \in {"READY", "DELAYED"}
      BY DEF AcceptedRows, RowsIn, UsedRows, ReservedRows
    <2>2. /\ \A r \in Rows : rows'[r] = IF r \in D THEN FreeRow ELSE rows[r]
          /\ UNCHANGED reserved
      BY <1>6, <2>1, FreedRows DEF cancel_rows_locked, RouterFacts
    <2>3. timer.row \in Rows /\ (timer.pc = "reported" => timer.row \notin D)
      BY <2>1 DEF RouterFacts, RouterInv, LaneInv, ClaimInv
    <2>4. \A r \in Rows : rows'[r] = rows[r] \/ Drops(r, {"DELAYED", "READY"})
      BY <2>1, <2>2 DEF Drops
    <2> QED BY <1>6, <2>2, <2>3, <2>4 DEF HostMoves, stamps, intents, lanes, journals
  <1>7. CASE close
    <2>1. AcceptedRows \in SUBSET AcceptedRows
      OBVIOUS
    <2> QED BY <1>6, <1>7, <2>1 DEF close
  <1>8. CASE host_close_cancels
    <2>1. {r \in AcceptedRows : refs_equal(rows[r].source, Source)} \in SUBSET AcceptedRows
      OBVIOUS
    <2>2. binding # "open" /\ binding' # "open"
      BY <1>8 DEF host_close_cancels
    <2> QED BY <1>6, <1>8, <2>1, <2>2 DEF host_close_cancels, cancel_source, life
  <1> QED BY <1>1, <1>2, <1>3, <1>4, <1>5, <1>7, <1>8 DEF HostSteps

-----------------------------------------------------------------------------
(* What the settlement of a ticket does to the rows. *)

SameEvent(r) ==
    /\ rows'[r].identity = rows[r].identity /\ rows'[r].source = rows[r].source
    /\ rows'[r].delay = rows[r].delay /\ rows'[r].send_id = rows[r].send_id

\* A commit publishes the row, unless the router was closed meanwhile.
SendCommits(r) ==
    /\ r \in Rows /\ rows[r].state = "RESERVED"
    /\ Head(journal[0]) = SendTicket(r)
    /\ \A q \in Rows \ {r} : rows'[q] = rows[q]
    /\ \/ closed /\ rows'[r] = FreeRow
       \/ /\ SameEvent(r) /\ rows'[r].fire_won_cancel = rows[r].fire_won_cancel
          /\ rows'[r].state = IF rows[r].delay # 0 THEN "DELAYED" ELSE "READY"
    /\ UNCHANGED cancel_rows

\* A cancel withdraws its Event, or leaves its witness on a FIRING row.
CancelCommits(c) ==
    LET t == cancel_rows[c].target
    IN  /\ c \in CancelRows /\ cancel_rows[c].in_use
        /\ Head(journal[0]) = CancelTicket(c)
        /\ \A q \in Rows \ {t} : rows'[q] = rows[q]
        /\ IF StillTargets(cancel_rows[c])
           THEN \/ rows[t].state = "DELAYED" /\ rows'[t] = FreeRow
                \/ /\ rows[t].state = "FIRING"
                   /\ rows'[t] = [rows[t] EXCEPT !.fire_won_cancel = TRUE]
                \/ rows[t].state \in {"READY", "INFLIGHT"} /\ rows'[t] = rows[t]
           ELSE rows'[t] = rows[t]
        /\ cancel_rows'[c] = FreeCancel
        /\ \A k \in CancelRows \ {c} : cancel_rows'[k] = cancel_rows[k]

LEMMA SendCommitted ==
    ASSUME RouterFacts, RouterFacts', Origin, NEW r \in Rows, ticket_commit(0, r)
    PROVE  /\ SendCommits(r) /\ UNCHANGED next_row_identity
           /\ next_sequence' + reserved' <= next_sequence + reserved
  <1>0. /\ rows \in [Rows -> Row] /\ reserved \in Nat /\ next_sequence \in Nat
        /\ next_sequence <= MaxU64 /\ next_row_identity \in 0 .. MaxU64
        /\ reserved = Cardinality(ReservedRows) /\ MaxU64 \in Nat
        /\ 0 \in Journals /\ journal \in [Journals -> Seq(Ticket)]
    BY LimitAssumption, ZeroJournal, SMTT(30)
       DEF RouterFacts, RouterInv, LedgerInv, StampInv, JournalInv
  <1>1. /\ Head(journal[0]) = SendTicket(r) /\ journal[0] # <<>>
        /\ UNCHANGED cancel_rows
    BY <1>0 DEF ticket_commit, NextTicket, SendTicket, intents
  <1>2. rows[r].state = "RESERVED"
    <2>1. 1 \in 1 .. Len(journal[0]) /\ journal[0][1] = SendTicket(r)
      BY <1>0, <1>1
    <2> QED BY <1>0, <2>1 DEF RouterFacts, EventInv, TicketInv, SendsReserved
  <1>3. {r} \in SUBSET UsedRows
    BY <1>2 DEF UsedRows
  <1>4. CASE /\ closed \/ ~matches(rows[r].target) \/ next_sequence = MaxU64
             /\ cancel_rows_locked({r}) /\ UNCHANGED stamps
    <2>1. matches(rows[r].target)
      BY <1>2 DEF RouterFacts, BorrowsPinned
    <2>2. reserved # 0
      <3>1. IsFiniteSet(ReservedRows) /\ r \in ReservedRows
        BY <1>2, FiniteTables, FS_Subset DEF ReservedRows
      <3> QED BY <3>1, <1>0, FS_EmptySet
    <2>3. next_sequence # MaxU64
      BY <1>0, <2>2 DEF Origin
    <2>4. /\ \A q \in Rows : rows'[q] = IF q \in {r} THEN FreeRow ELSE rows[q]
          /\ reserved' <= reserved
      BY <1>3, <1>4, FreedRows DEF cancel_rows_locked, RouterFacts
    <2>5. reserved' \in Nat
      BY DEF RouterFacts, RouterInv, LedgerInv
    <2>6. UNCHANGED <<next_row_identity, next_sequence>>
      BY <1>4 DEF stamps
    <2> QED BY <1>0, <1>1, <1>2, <1>4, <2>1, <2>3, <2>4, <2>5, <2>6 DEF SendCommits
  <1>5. CASE commit_publishes(r)
    <2>1. \A q \in Rows \ {r} : rows'[q] = rows[q]
      BY <1>0, <1>5 DEF commit_publishes
    <2>2. /\ SameEvent(r) /\ rows'[r].fire_won_cancel = rows[r].fire_won_cancel
          /\ rows'[r].state = IF rows[r].delay # 0 THEN "DELAYED" ELSE "READY"
      BY <1>0, <1>5 DEF commit_publishes, SameEvent, Row
    <2>3. next_sequence' = next_sequence + 1 /\ reserved' = reserved - 1
          /\ UNCHANGED next_row_identity
      BY <1>5 DEF commit_publishes
    <2>4. next_sequence' + reserved' <= next_sequence + reserved
      BY <1>0, <2>3
    <2> QED BY <1>1, <1>2, <2>1, <2>2, <2>3, <2>4 DEF SendCommits
  <1> QED BY <1>2, <1>4, <1>5 DEF ticket_commit, commit_locked

LEMMA CancelCommitted ==
    ASSUME RouterFacts, RouterFacts', Origin, NEW c \in CancelRows, cancel_commit(0, c)
    PROVE  /\ CancelCommits(c) /\ UNCHANGED next_row_identity
           /\ next_sequence' + reserved' <= next_sequence + reserved
  <1> DEFINE t == cancel_rows[c].target
  <1>a. t \in Rows
    BY DEF RouterFacts, RouterInv, IntentInv, CancelRow
  <1>0. /\ rows \in [Rows -> Row] /\ reserved \in Nat /\ next_sequence \in Nat
        /\ 0 \in Journals /\ journal \in [Journals -> Seq(Ticket)]
        /\ cancel_rows \in [CancelRows -> CancelRow] /\ t \in Rows
        /\ reserved' \in Nat
    <2>1. reserved' \in Nat
      BY DEF RouterFacts, RouterInv, LedgerInv
    <2>2. next_sequence \in Nat
      BY LimitAssumption DEF RouterFacts, RouterInv, StampInv
    <2> QED BY <1>a, <2>1, <2>2, ZeroJournal
            DEF RouterFacts, RouterInv, LedgerInv, JournalInv, IntentInv
  <1>1. /\ Head(journal[0]) = CancelTicket(c) /\ journal[0] # <<>>
        /\ UNCHANGED <<next_row_identity, next_sequence>>
    BY <1>0 DEF cancel_commit, NextTicket, CancelTicket, stamps
  <1>2. 1 \in 1 .. Len(journal[0]) /\ journal[0][1] = CancelTicket(c)
    BY <1>0, <1>1
  <1>3. cancel_rows[c].in_use
    BY <1>0, <1>2 DEF RouterFacts, EventInv, TicketInv, CancelsInUse
  <1>4. /\ cancel_rows'[c] = FreeCancel
        /\ \A k \in CancelRows \ {c} : cancel_rows'[k] = cancel_rows[k]
    <2>1. IsFiniteSet(UsedIntents) /\ c \in UsedIntents
      BY <1>3, FiniteTables, FS_Subset DEF UsedIntents
    <2>2. cancel_pending # 0
      BY <2>1, FS_EmptySet DEF RouterFacts, RouterInv, IntentInv
    <2>3. cancel_rows' = [cancel_rows EXCEPT ![c] = FreeCancel]
      BY <1>3, <2>2 DEF cancel_commit, cancel_release_locked, CancelReleasable
    <2> QED BY <1>0, <2>3
  <1>5. StillTargets(cancel_rows[c]) =>
           /\ rows[t].state \in {"DELAYED", "FIRING", "READY", "INFLIGHT"}
           /\ refs_equal(rows[t].source, cancel_rows[c].source)
    <2> SUFFICES ASSUME StillTargets(cancel_rows[c])
                 PROVE  /\ rows[t].state \in {"DELAYED", "FIRING", "READY", "INFLIGHT"}
                        /\ refs_equal(rows[t].source, cancel_rows[c].source)
      OBVIOUS
    <2>1. rows[t].identity # 0
      BY <1>3 DEF StillTargets, RouterFacts, EventInv, TicketInv, IntentsNameEvents
    <2>2. rows[t].state # "FREE"
      BY <1>0, <2>1 DEF RouterFacts, EventInv, IdentityInv
    <2>3. rows[t].state # "RESERVED"
      <3>1. SUFFICES ASSUME rows[t].state = "RESERVED" PROVE FALSE
        OBVIOUS
      <3>2. \E l \in 1 .. 1 - 1 : journal[0][l] = SendTicket(t)
        BY <1>0, <1>2, <3>1 DEF RouterFacts, EventInv, TicketInv, SendsFirst
      <3> QED BY <3>2
    <2>4. rows[t].state \in RowStates
      BY <1>0 DEF Row
    <2>5. rows[t].source = Source /\ cancel_rows[c].source = Source
      BY <1>0, <1>3, <2>2 DEF Origin
    <2> QED BY <2>2, <2>3, <2>4, <2>5, SourceIsRef DEF RowStates, refs_equal
  <1>6. CASE Revocable(cancel_rows[c])
    <2>1. StillTargets(cancel_rows[c]) /\ rows[t].state = "DELAYED"
      BY <1>5, <1>6 DEF Revocable
    <2>2. {t} \in SUBSET UsedRows
      BY <1>0, <2>1 DEF UsedRows
    <2>3. release_locked({t}, "cancelled")
      BY <1>3, <1>6 DEF cancel_commit, cancel_revokes
    <2>4. /\ \A q \in Rows : rows'[q] = IF q \in {t} THEN FreeRow ELSE rows[q]
          /\ reserved' <= reserved
      BY <2>2, <2>3, FreedRows DEF RouterFacts
    <2> QED BY <1>0, <1>1, <1>3, <1>4, <2>1, <2>4 DEF CancelCommits
  <1>7. CASE ~Revocable(cancel_rows[c])
    <2>1. cancel_too_late(c)
      BY <1>7 DEF cancel_commit
    <2>2. UNCHANGED reserved
      BY <2>1 DEF cancel_too_late
    <2>3. StillTargets(cancel_rows[c]) => rows[t].state # "DELAYED"
      BY <1>5, <1>7 DEF Revocable
    <2>4. CASE StillTargets(cancel_rows[c]) /\ rows[t].state = "FIRING"
      <3>1. rows' = [rows EXCEPT ![t].fire_won_cancel = TRUE]
        BY <2>1, <2>4 DEF cancel_too_late
      <3>2. /\ \A q \in Rows \ {t} : rows'[q] = rows[q]
            /\ rows'[t] = [rows[t] EXCEPT !.fire_won_cancel = TRUE]
        BY <1>0, <3>1
      <3> QED BY <1>0, <1>1, <1>3, <1>4, <2>2, <2>4, <3>2 DEF CancelCommits
    <2>5. CASE ~(StillTargets(cancel_rows[c]) /\ rows[t].state = "FIRING")
      <3>1. rows' = rows
        BY <2>1, <2>5 DEF cancel_too_late
      <3> QED BY <1>0, <1>1, <1>3, <1>4, <1>5, <2>2, <2>3, <2>5, <3>1 DEF CancelCommits
    <2> QED BY <2>4, <2>5
  <1> QED BY <1>6, <1>7

-----------------------------------------------------------------------------
(* The facts about the Session that need no agreement of the registries. *)

\* Rows and intents stay what they are until they are freed.
StepFrame ==
    /\ \A r \in Rows :
          /\ rows'[r].state # "FREE" => rows[r].state # "FREE" /\ SameEvent(r)
          /\ rows'[r].fire_won_cancel =>
                rows'[r].state \in {"FIRING", "READY", "INFLIGHT"}
    /\ \A c \in CancelRows :
          cancel_rows'[c].in_use => cancel_rows'[c] = cancel_rows[c]
    /\ next_sequence' + reserved' <= next_sequence + reserved
    /\ UNCHANGED next_row_identity

LEMMA FramedOrigin ==
    ASSUME RouterFacts, RouterFacts', Origin, StepFrame
    PROVE  Origin'
  <1>1. /\ next_sequence \in Nat /\ reserved \in Nat /\ next_row_identity \in Nat
        /\ next_sequence' \in Nat /\ reserved' \in Nat
    BY LimitAssumption DEF RouterFacts, RouterInv, LedgerInv, StampInv
  <1>2. next_sequence' + reserved' <= next_row_identity'
    BY <1>1 DEF Origin, StepFrame
  <1> QED BY <1>2 DEF Origin, StepFrame, SameEvent

LEMMA FreeRowFacts ==
    FreeRow.state = "FREE" /\ ~FreeRow.fire_won_cancel /\ FreeRow.delay = 0
  BY DEF FreeRow

LEMMA HostMovesFrame ==
    ASSUME RouterFacts, Origin, HostMoves
    PROVE  StepFrame
  <1>1. /\ rows \in [Rows -> Row]
        /\ next_sequence \in Nat /\ reserved \in Nat
    BY LimitAssumption DEF RouterFacts, RouterInv, LedgerInv, StampInv
  <1>2. ASSUME NEW r \in Rows
        PROVE  /\ rows'[r].state # "FREE" => rows[r].state # "FREE" /\ SameEvent(r)
               /\ rows'[r].fire_won_cancel =>
                     rows'[r].state \in {"FIRING", "READY", "INFLIGHT"}
    <2>1. CASE rows'[r] = rows[r]
      BY <2>1 DEF SameEvent, Origin
    <2>2. CASE rows'[r] = FreeRow
      BY <2>2, FreeRowFacts
    <2>3. ASSUME NEW from, NEW to, Passes(r, from, to), from # "FREE",
                 to \in {"FIRING", "READY", "INFLIGHT"}
          PROVE  /\ rows'[r].state # "FREE" => rows[r].state # "FREE" /\ SameEvent(r)
                 /\ rows'[r].fire_won_cancel =>
                       rows'[r].state \in {"FIRING", "READY", "INFLIGHT"}
      <3>1. rows[r] \in Row
        BY <1>1
      <3> QED BY <2>3, <3>1 DEF Passes, SameEvent, Row
    <2> QED BY <2>1, <2>2, <2>3 DEF HostMoves, Drops
  <1> QED BY <1>1, <1>2 DEF StepFrame, HostMoves

LEMMA TicketFrame ==
    ASSUME RouterFacts, RouterFacts', Origin, settle_ticket
    PROVE  StepFrame
  <1>0. /\ rows \in [Rows -> Row] /\ next_sequence \in Nat /\ reserved \in Nat
        /\ reserved' \in Nat
    <2>1. reserved' \in Nat
      BY DEF RouterFacts, RouterInv, LedgerInv
    <2>2. next_sequence \in Nat
      BY LimitAssumption DEF RouterFacts, RouterInv, StampInv
    <2> QED BY <2>1, <2>2 DEF RouterFacts, RouterInv, LedgerInv
  <1>1. ASSUME NEW r \in Rows, ticket_commit(0, r)
        PROVE  StepFrame
    <2>1. /\ SendCommits(r) /\ UNCHANGED next_row_identity
          /\ next_sequence' + reserved' <= next_sequence + reserved
      BY <1>1, SendCommitted
    <2>2. ~rows[r].fire_won_cancel
      BY <2>1 DEF SendCommits, Origin
    <2> QED BY <2>1, <2>2, FreeRowFacts DEF SendCommits, StepFrame, SameEvent, Origin
  <1>2. ASSUME NEW c \in CancelRows, cancel_commit(0, c)
        PROVE  StepFrame
    <2> DEFINE t == cancel_rows[c].target
    <2>1. /\ CancelCommits(c) /\ UNCHANGED next_row_identity
          /\ next_sequence' + reserved' <= next_sequence + reserved
      BY <1>2, CancelCommitted
    <2>2. t \in Rows /\ rows[t] \in Row
      <3>1. t \in Rows
        BY DEF RouterFacts, RouterInv, IntentInv, CancelRow
      <3> QED BY <3>1, <1>0
    <2>3. /\ rows'[t].state # "FREE" => rows[t].state # "FREE" /\ SameEvent(t)
          /\ rows'[t].fire_won_cancel =>
                rows'[t].state \in {"FIRING", "READY", "INFLIGHT"}
      <3>1. CASE rows'[t] = rows[t]
        BY <2>2, <3>1 DEF SameEvent, Origin
      <3>2. CASE rows'[t] = FreeRow
        BY <3>2, FreeRowFacts
      <3>3. CASE rows[t].state = "FIRING" /\ rows'[t] = [rows[t] EXCEPT !.fire_won_cancel = TRUE]
        BY <2>2, <3>3 DEF SameEvent, Row
      <3> QED BY <2>1, <3>1, <3>2, <3>3 DEF CancelCommits
    <2>4. \A q \in Rows \ {t} : rows'[q] = rows[q]
      BY <2>1 DEF CancelCommits
    <2>5. \A k \in CancelRows : cancel_rows'[k].in_use => cancel_rows'[k] = cancel_rows[k]
      BY <2>1 DEF CancelCommits, FreeCancel
    <2> HIDE DEF t
    <2> QED BY <2>1, <2>3, <2>4, <2>5 DEF StepFrame, SameEvent, Origin
  <1>3. ASSUME NEW r \in Rows, ticket_discard(0, r)
        PROVE  StepFrame
    <2>1. CASE rows[r].state = "RESERVED"
      <3>1. {r} \in SUBSET UsedRows /\ release_locked({r}, "discarded")
        BY <1>3, <2>1 DEF ticket_discard, discard_locked, UsedRows
      <3>2. /\ \A q \in Rows : rows'[q] = IF q \in {r} THEN FreeRow ELSE rows[q]
            /\ reserved' <= reserved
        BY <3>1, FreedRows DEF RouterFacts
      <3>3. UNCHANGED <<cancel_rows, next_sequence, next_row_identity>>
        BY <1>3 DEF ticket_discard, intents, stamps
      <3> QED BY <1>0, <3>2, <3>3, FreeRowFacts DEF StepFrame, SameEvent, Origin
    <2>2. CASE rows[r].state # "RESERVED"
      <3>1. UNCHANGED <<rows, reserved, cancel_rows, next_sequence, next_row_identity>>
        BY <1>3, <2>2 DEF ticket_discard, discard_locked, intents, stamps
      <3> QED BY <1>0, <3>1 DEF StepFrame, SameEvent, Origin
    <2> QED BY <2>1, <2>2
  <1>4. ASSUME NEW c \in CancelRows, cancel_discard(0, c)
        PROVE  StepFrame
    <2>1. UNCHANGED <<rows, reserved, next_sequence, next_row_identity>>
      BY <1>4 DEF cancel_discard, stamps
    <2>2. cancel_rows' = cancel_rows \/ cancel_rows' = [cancel_rows EXCEPT ![c] = FreeCancel]
      BY <1>4 DEF cancel_discard, cancel_release_locked, intents
    <2>3. \A k \in CancelRows : cancel_rows'[k].in_use => cancel_rows'[k] = cancel_rows[k]
      <3>1. cancel_rows \in [CancelRows -> CancelRow]
        BY DEF RouterFacts, RouterInv, IntentInv
      <3> QED BY <2>2, <3>1 DEF FreeCancel
    <2> QED BY <1>0, <2>1, <2>3 DEF StepFrame, SameEvent, Origin
  <1> QED BY <1>1, <1>2, <1>3, <1>4 DEF settle_ticket

RegRow == [state : RegStates, previous_state : RegStates, id : SendIds \cup {NoId}]

LEMMA RegTypes ==
    ASSUME NEW row \in RegRow, NEW kind
    PROVE  /\ FreeReg \in RegRow
           /\ RolledBack(row, kind) \in RegRow
           /\ Committed(row, kind) \in RegRow
           /\ [row EXCEPT !.previous_state = "FREE"] \in RegRow
           /\ [row EXCEPT !.previous_state = row.state, !.state = "CANCEL_RESERVED"] \in RegRow
  <1>1. FreeReg \in RegRow
    BY DEF FreeReg, RegRow, RegStates
  <1>2. /\ [row EXCEPT !.previous_state = "FREE"] \in RegRow
        /\ [row EXCEPT !.previous_state = "ACTIVE"] \in RegRow
        /\ [row EXCEPT !.state = "ACTIVE"] \in RegRow
        /\ [row EXCEPT !.state = row.previous_state, !.previous_state = "FREE"] \in RegRow
        /\ [row EXCEPT !.previous_state = row.state, !.state = "CANCEL_RESERVED"] \in RegRow
    BY DEF RegRow, RegStates
  <1> QED BY <1>1, <1>2 DEF RolledBack, Committed

LEMMA RegIndices == 0 \in Regs /\ Regs \subseteq Nat
  BY DelayAssumption DEF Regs

\* Steps of the Session that leave the router alone.
SessionStep ==
    \/ \E d \in Sends : execute_send(d[1], d[2])
    \/ \E id \in SendIds : execute_cancel(id)
    \/ host_prepare
    \/ host_refuses
    \/ rollback_prepared_effect
    \/ settle_registry
    \/ host_close

LEMMA AloneKeepsTypes ==
    ASSUME RouterFacts, SessionTypes, Aligned, Phased, SessionStep
    PROVE  SessionTypes'
  <1>0. /\ delayed_sends \in [Regs -> RegRow] /\ executing.reg \in Regs
        /\ effects \in Seq(Effect) /\ registry_done \in BOOLEAN /\ failed \in BOOLEAN
        /\ binding \in {"open", "closing", "closed"}
    BY DEF SessionTypes, RegRow
  <1>1. ASSUME NEW d \in Sends, execute_send(d[1], d[2])
        PROVE  SessionTypes'
    <2>1. d[1] \in Delays \cup {0} /\ d[2] \in SendIds \cup {NoId}
      BY DEF Sends
    <2>2. CASE /\ executing' = [Idle EXCEPT !.pc = "adapter"]
               /\ UNCHANGED delayed_sends
      <3>1. executing' \in [pc : {"idle", "adapter", "admit", "rollback"},
                            kind : {"send", "delayed", "cancel"},
                            id : SendIds \cup {NoId}, delay : Delays \cup {0},
                            reg : Regs]
        BY <2>2, RegIndices DEF Idle
      <3> QED BY <1>0, <1>1, <2>2, <3>1 DEF SessionTypes, RegRow, execute_send
    <2>3. ASSUME NEW g \in Regs,
                 delayed_sends' = [delayed_sends EXCEPT
                    ![g] = [FreeReg EXCEPT !.state = "RESERVED", !.id = d[2]]],
                 executing' = [pc |-> "adapter", kind |-> "delayed",
                                id |-> d[2], delay |-> d[1], reg |-> g]
          PROVE  SessionTypes'
      <3>1. [FreeReg EXCEPT !.state = "RESERVED", !.id = d[2]] \in RegRow
        BY <2>1 DEF FreeReg, RegRow, RegStates
      <3>2. delayed_sends' \in [Regs -> RegRow]
        BY <1>0, <2>3, <3>1
      <3>3. executing' \in [pc : {"idle", "adapter", "admit", "rollback"},
                            kind : {"send", "delayed", "cancel"},
                            id : SendIds \cup {NoId}, delay : Delays \cup {0},
                            reg : Regs]
        BY <2>1, <2>3
      <3> QED BY <1>0, <1>1, <3>2, <3>3 DEF SessionTypes, RegRow, execute_send
    <2> QED BY <1>1, <2>2, <2>3 DEF execute_send
  <1>2. ASSUME NEW id \in SendIds, execute_cancel(id)
        PROVE  SessionTypes'
    <2>1. PICK g \in Regs :
             /\ delayed_sends' = [delayed_sends EXCEPT
                  ![g].previous_state = delayed_sends[g].state,
                  ![g].state = "CANCEL_RESERVED"]
             /\ executing' = [pc |-> "adapter", kind |-> "cancel", id |-> id,
                              delay |-> 0, reg |-> g]
      BY <1>2 DEF execute_cancel
    <2>2. delayed_sends' = [delayed_sends EXCEPT
            ![g] = [delayed_sends[g] EXCEPT !.previous_state = delayed_sends[g].state,
                                            !.state = "CANCEL_RESERVED"]]
      BY <1>0, <2>1 DEF RegRow
    <2>3. delayed_sends' \in [Regs -> RegRow]
      BY <1>0, <2>2, RegTypes
    <2>4. executing' \in [pc : {"idle", "adapter", "admit", "rollback"},
                          kind : {"send", "delayed", "cancel"},
                          id : SendIds \cup {NoId}, delay : Delays \cup {0},
                          reg : Regs]
      BY <2>1
    <2> QED BY <1>0, <1>2, <2>3, <2>4 DEF SessionTypes, RegRow, execute_cancel
  <1>3. CASE host_prepare \/ host_refuses
    <2>1. executing' = [executing EXCEPT !.pc = "admit"]
          \/ executing' = [executing EXCEPT !.pc = "rollback"]
      BY <1>3 DEF host_prepare, host_refuses
    <2>2. executing' \in [pc : {"idle", "adapter", "admit", "rollback"},
                          kind : {"send", "delayed", "cancel"},
                          id : SendIds \cup {NoId}, delay : Delays \cup {0},
                          reg : Regs]
      BY <2>1 DEF SessionTypes
    <2> QED BY <1>0, <1>3, <2>2 DEF SessionTypes, RegRow, host_prepare, host_refuses
  <1>4. CASE rollback_prepared_effect
    <2>1. delayed_sends' \in [Regs -> RegRow]
      <3>1. delayed_sends' = [delayed_sends EXCEPT ![executing.reg] =
                                RolledBack(delayed_sends[executing.reg], executing.kind)]
        BY <1>0, <1>4 DEF rollback_prepared_effect
      <3>2. RolledBack(delayed_sends[executing.reg], executing.kind) \in RegRow
        BY <1>0, RegTypes
      <3> QED BY <1>0, <3>1, <3>2
    <2>2. executing' \in [pc : {"idle", "adapter", "admit", "rollback"},
                          kind : {"send", "delayed", "cancel"},
                          id : SendIds \cup {NoId}, delay : Delays \cup {0},
                          reg : Regs]
      BY <1>4, RegIndices DEF rollback_prepared_effect, Idle
    <2> QED BY <1>0, <1>4, <2>1, <2>2 DEF SessionTypes, RegRow, rollback_prepared_effect
  <1>5. CASE settle_registry
    <2>1. effects # <<>>
      <3>1. journal[0] # <<>> /\ journal[0] \in Seq(Ticket)
        BY <1>5, ZeroJournal DEF settle_registry, Phased, RouterFacts, RouterInv, JournalInv
      <3>2. Len(journal[0]) # 0
        BY <3>1
      <3> QED BY <3>2 DEF Aligned
    <2>2. Head(effects) \in Effect
      BY <1>0, <2>1
    <2>3. Head(effects).reg \in Regs
      BY <2>2 DEF Effect
    <2> DEFINE g == Head(effects).reg
               new == IF phase[0] = "commit"
                      THEN Committed(delayed_sends[g], Head(effects).kind)
                      ELSE RolledBack(delayed_sends[g], Head(effects).kind)
    <2>4. new \in RegRow
      BY <1>0, <2>3, RegTypes
    <2>5. delayed_sends' = [delayed_sends EXCEPT ![g] = new]
      BY <1>0, <1>5, <2>3 DEF settle_registry
    <2> HIDE DEF g, new
    <2>6. delayed_sends' \in [Regs -> RegRow]
      BY <1>0, <2>4, <2>5
    <2> QED BY <1>0, <1>5, <2>6 DEF SessionTypes, RegRow, settle_registry
  <1>6. CASE host_close
    BY <1>6 DEF host_close, SessionTypes
  <1> QED BY <1>1, <1>2, <1>3, <1>4, <1>5, <1>6 DEF SessionStep

LEMMA AlignedKept ==
    ASSUME RouterFacts', Aligned, StepFrame, UNCHANGED <<effects, journal>>,
           \A j \in Journals \ {0} : phase'[j] = phase[j]
    PROVE  Aligned'
  <1>1. ASSUME NEW k \in 1 .. Len(effects), NEW r \in Rows, journal[0][k] = SendTicket(r)
        PROVE  rows'[r].delay = rows[r].delay
    <2>1. k \in 1 .. Len(journal'[0]) /\ journal'[0][k] = SendTicket(r)
      BY <1>1 DEF Aligned
    <2>2. rows'[r].state = "RESERVED"
      BY <2>1, ZeroJournal DEF RouterFacts, EventInv, TicketInv, SendsReserved
    <2> QED BY <2>2 DEF StepFrame, SameEvent
  <1> QED BY <1>1 DEF Aligned

\* Nothing happens to rows, intents and counters.
LEMMA StillFrame ==
    ASSUME RouterFacts, Origin, UNCHANGED <<ledger, stamps, intents>>
    PROVE  StepFrame
  <1>1. next_sequence \in Nat /\ reserved \in Nat
    BY LimitAssumption DEF RouterFacts, RouterInv, LedgerInv, StampInv
  <1> QED BY <1>1 DEF StepFrame, SameEvent, Origin, ledger, stamps, intents

LEMMA AlonePhases ==
    ASSUME SessionTypes, Aligned, Phased, SessionStep
    PROVE  /\ Phased'
           /\ UNCHANGED vars /\ UNCHANGED <<effects, failed>>
  <1>0. executing \in [pc : {"idle", "adapter", "admit", "rollback"},
                       kind : {"send", "delayed", "cancel"},
                       id : SendIds \cup {NoId}, delay : Delays \cup {0},
                       reg : Regs]
    BY DEF SessionTypes
  <1>1. UNCHANGED vars /\ UNCHANGED <<effects, failed>>
    BY DEF SessionStep, execute_send, execute_cancel, host_prepare, host_refuses,
           rollback_prepared_effect, settle_registry, host_close
  <1>2. UNCHANGED <<phase, journal>>
    BY <1>1 DEF vars, journals
  <1>3. ASSUME NEW d \in Sends, execute_send(d[1], d[2])
        PROVE  Phased'
    <2>1. d[1] # 0 => d[2] # NoId
      BY NameAssumption DEF Sends
    <2>2. \/ executing'.kind = "send" /\ executing'.delay = 0 /\ executing'.id = NoId
          \/ executing'.kind = "delayed" /\ executing'.delay # 0 /\ executing'.id # NoId
      BY <1>3, <2>1 DEF execute_send, Idle
    <2> QED BY <1>1, <1>2, <1>3, <2>2 DEF Phased, execute_send, Running
  <1>4. ASSUME NEW id \in SendIds, execute_cancel(id)
        PROVE  Phased'
    <2>1. executing'.kind = "cancel" /\ executing'.delay = 0 /\ executing'.id # NoId
      BY <1>4, NameAssumption DEF execute_cancel
    <2> QED BY <1>1, <1>2, <1>4, <2>1 DEF Phased, execute_cancel, Running
  <1>5. CASE host_prepare \/ host_refuses
    <2>1. /\ executing.pc # "idle" /\ executing'.kind = executing.kind
          /\ executing'.delay = executing.delay /\ executing'.id = executing.id
          /\ UNCHANGED registry_done
      BY <1>0, <1>5 DEF host_prepare, host_refuses
    <2> QED BY <1>1, <1>2, <2>1 DEF Phased
  <1>6. CASE rollback_prepared_effect
    BY <1>1, <1>2, <1>6 DEF Phased, rollback_prepared_effect, Idle
  <1>7. CASE settle_registry
    BY <1>1, <1>2, <1>7 DEF Phased, settle_registry
  <1>8. CASE host_close
    BY <1>1, <1>2, <1>8 DEF Phased, host_close
  <1> QED BY <1>1, <1>3, <1>4, <1>5, <1>6, <1>7, <1>8 DEF SessionStep

LEMMA AloneKeepsFacts ==
    ASSUME RouterFacts, RouterFacts', SessionFacts, SessionStep
    PROVE  SessionFacts'
  <1>1. Phased' /\ UNCHANGED vars /\ UNCHANGED effects
    BY AlonePhases DEF SessionFacts
  <1>2. UNCHANGED <<ledger, stamps, intents, journal, phase>>
    BY <1>1 DEF vars, journals
  <1>3. StepFrame
    BY <1>2, StillFrame DEF SessionFacts
  <1>4. Aligned'
    BY <1>1, <1>2, <1>3, AlignedKept DEF SessionFacts
  <1>5. Origin'
    BY <1>3, FramedOrigin DEF SessionFacts
  <1> QED BY <1>1, <1>4, <1>5, AloneKeepsTypes DEF SessionFacts

\* The host's calls, the report of the timer and the end of a microstep leave
\* the effects alone.
LEMMA CallsKeepFacts ==
    ASSUME RouterFacts, RouterFacts', SessionFacts,
           \/ HostSteps \/ host_close_cancels \/ report_send_done
           \/ end_microstep("commit") \/ end_microstep("discard")
    PROVE  SessionFacts' /\ StepFrame
  <1>0. /\ phase \in [Journals -> Phases] /\ journal \in [Journals -> Seq(Ticket)]
        /\ delayed_sends \in [Regs -> RegRow]
    BY DEF RouterFacts, RouterInv, JournalInv, SessionFacts, SessionTypes, RegRow
  <1>1. CASE HostSteps \/ host_close_cancels
    <2>1. HostMoves
      BY <1>1, HostStepMoves
    <2>2. StepFrame
      BY <2>1, HostMovesFrame DEF SessionFacts
    <2>3. UNCHANGED <<journal, phase, effects, delayed_sends, executing, registry_done, failed>>
      BY <1>1, <2>1 DEF HostMoves, HostSteps, host_close_cancels, sessionVars
    <2>4. Aligned'
      BY <2>2, <2>3, AlignedKept DEF SessionFacts
    <2>5. Origin'
      BY <2>2, FramedOrigin DEF SessionFacts
    <2>6. Phased'
      BY <2>3 DEF SessionFacts, Phased
    <2>7. binding' \in {"open", "closing", "closed"}
      BY <1>1 DEF HostSteps, host_close_cancels, sessionVars, SessionFacts, SessionTypes
    <2>8. SessionTypes'
      BY <2>3, <2>7 DEF SessionFacts, SessionTypes
    <2> QED BY <2>2, <2>4, <2>5, <2>6, <2>8 DEF SessionFacts
  <1>2. CASE report_send_done
    <2>1. UNCHANGED <<ledger, stamps, intents, journals, executing, effects, registry_done,
                      binding, failed>>
      BY <1>2 DEF report_send_done, run_due_report
    <2>2. StepFrame
      BY <2>1, StillFrame DEF SessionFacts
    <2>3. Aligned'
      BY <2>1, <2>2, AlignedKept DEF SessionFacts, journals
    <2>4. Origin'
      BY <2>2, FramedOrigin DEF SessionFacts
    <2>5. Phased'
      BY <2>1 DEF SessionFacts, Phased, journals
    <2>6. delayed_sends' \in [Regs -> RegRow]
      <3>1. \A g \in Regs : FreeReg \in RegRow /\ delayed_sends[g] \in RegRow
              /\ [delayed_sends[g] EXCEPT !.previous_state = "FREE"] \in RegRow
        BY <1>0, RegTypes
      <3> DEFINE id == rows[timer.row].send_id
                 found == {g \in find_delayed_send(id) :
                             /\ IsFirst(g, find_delayed_send(id))
                             /\ Owed(delayed_sends[g])}
      <3>2. delayed_sends' = [g \in Regs |->
             IF g \notin found THEN delayed_sends[g]
             ELSE IF delayed_sends[g].state = "CANCEL_RESERVED"
             THEN [delayed_sends[g] EXCEPT !.previous_state = "FREE"]
             ELSE FreeReg]
        BY <1>2 DEF report_send_done
      <3> HIDE DEF found, id
      <3> QED BY <3>1, <3>2
    <2>7. SessionTypes'
      BY <2>1, <2>6 DEF SessionFacts, SessionTypes, RegRow
    <2> QED BY <2>2, <2>3, <2>4, <2>5, <2>7 DEF SessionFacts
  <1>3. ASSUME NEW how \in {"commit", "discard"}, end_microstep(how)
        PROVE  SessionFacts' /\ StepFrame
    <2>1. UNCHANGED <<ledger, stamps, intents, journal, executing, effects, registry_done,
                      binding, delayed_sends>>
      BY <1>3 DEF end_microstep, EndMicrostep
    <2>2. /\ phase'[0] = how /\ phase[0] = "open" /\ executing.pc = "idle"
          /\ journal[0] # <<>> /\ failed' = (how = "discard")
          /\ \A j \in Journals \ {0} : phase'[j] = phase[j]
      BY <1>0, <1>3, ZeroJournal DEF end_microstep, EndMicrostep
    <2>3. StepFrame
      BY <2>1, StillFrame DEF SessionFacts
    <2>4. Aligned'
      BY <2>1, <2>2, <2>3, AlignedKept DEF SessionFacts
    <2>5. Origin'
      BY <2>3, FramedOrigin DEF SessionFacts
    <2>6. Phased'
      BY <2>1, <2>2 DEF SessionFacts, Phased
    <2>7. SessionTypes'
      BY <2>1, <2>2 DEF SessionFacts, SessionTypes
    <2> QED BY <2>3, <2>4, <2>5, <2>6, <2>7 DEF SessionFacts
  <1> QED BY <1>1, <1>2, <1>3

-----------------------------------------------------------------------------
(* Tickets join the journal and leave it. *)

\* The k-th ticket is that of a delayed send, or of a cancel, with the row of
\* the registry and the row or intent of the router that it is about.
SendAt(k, g, r) ==
    /\ k \in 1 .. Len(effects)
    /\ effects[k] = [kind |-> "delayed", reg |-> g]
    /\ journal[0][k] = SendTicket(r)

CancelAt(k, g, c) ==
    /\ k \in 1 .. Len(effects)
    /\ effects[k] = [kind |-> "cancel", reg |-> g]
    /\ journal[0][k] = CancelTicket(c)

\* The Session's half and the router's half of a new ticket.
Joins(e, t) ==
    /\ effects' = Append(effects, e)
    /\ journal'[0] = Append(journal[0], t)
    /\ \A j \in Journals \ {0} : journal'[j] = journal[j]
    /\ UNCHANGED <<phase, delayed_sends, registry_done, binding, failed, timer,
                   closed, timer_done_failed>>
    /\ executing' = Idle

\* The admission of a send takes a FREE row under a new identity.
SendJoins(r) ==
    /\ r \in Rows /\ rows[r].state = "FREE"
    /\ rows'[r].state = "RESERVED" /\ rows'[r].source = Source
    /\ rows'[r].delay = executing.delay /\ rows'[r].send_id = executing.id
    /\ rows'[r].identity = next_row_identity + 1
    /\ ~rows'[r].fire_won_cancel
    /\ \A q \in Rows \ {r} : rows'[q] = rows[q]
    /\ next_row_identity' = next_row_identity + 1
    /\ reserved' = reserved + 1 /\ UNCHANGED <<next_sequence, cancel_rows>>
    /\ executing.pc = "admit" /\ executing.kind # "cancel"
    /\ Joins([kind |-> executing.kind, reg |-> executing.reg], SendTicket(r))

\* The admission of a cancel aims at the delayed row of its sendid.
CancelJoins(c, r) ==
    /\ c \in CancelRows /\ ~cancel_rows[c].in_use
    /\ r \in Rows /\ rows[r].state # "FREE" /\ rows[r].delay # 0
    /\ rows[r].send_id = executing.id
    /\ cancel_rows'[c].in_use /\ cancel_rows'[c].source = Source
    /\ cancel_rows'[c].target = r
    /\ cancel_rows'[c].target_identity = rows[r].identity
    /\ \A k \in CancelRows \ {c} : cancel_rows'[k] = cancel_rows[k]
    /\ UNCHANGED <<rows, reserved, next_row_identity, next_sequence>>
    /\ executing.pc = "admit" /\ executing.kind = "cancel"
    /\ Joins([kind |-> "cancel", reg |-> executing.reg], CancelTicket(c))

LEMMA SendAdmitted ==
    ASSUME RouterFacts, SessionTypes, host_prepare_send
    PROVE  \E r \in Rows : SendJoins(r)
  <1>0. /\ rows \in [Rows -> Row] /\ journal \in [Journals -> Seq(Ticket)]
    BY DEF RouterFacts, RouterInv, LedgerInv, JournalInv
  <1>1. PICK r \in Rows, ref \in Refs :
           /\ reserve_locked(r, NewRow(ref, Source, executing.delay, executing.id))
           /\ HandOut(0, "send", r)
    BY SourceIsRef DEF host_prepare_send, prepare_target
  <1> DEFINE row == NewRow(ref, Source, executing.delay, executing.id)
  <1>2. /\ row.state = "RESERVED" /\ row.source = Source
        /\ row.delay = executing.delay /\ row.send_id = executing.id
        /\ row.identity = next_row_identity + 1 /\ ~row.fire_won_cancel
    BY DEF NewRow
  <1>3. /\ rows[r].state = "FREE" /\ rows' = [rows EXCEPT ![r] = row]
        /\ next_row_identity' = next_row_identity + 1
    BY <1>1 DEF reserve_locked, IsFirst, FreeRows, RowsIn
  <1> HIDE DEF row
  <1>4. rows'[r] = row /\ \A q \in Rows \ {r} : rows'[q] = rows[q]
    BY <1>0, <1>3
  <1>5. /\ journal'[0] = Append(journal[0], SendTicket(r))
        /\ \A j \in Journals \ {0} : journal'[j] = journal[j]
        /\ UNCHANGED phase
    BY <1>0, <1>1, ZeroJournal DEF HandOut, SendTicket
  <1>6. /\ reserved' = reserved + 1 /\ UNCHANGED <<next_sequence, cancel_rows>>
        /\ UNCHANGED <<timer, closed, timer_done_failed>>
    BY DEF host_prepare_send, prepare_target, intents, lanes, life
  <1>7. Joins([kind |-> executing.kind, reg |-> executing.reg], SendTicket(r))
    BY <1>5, <1>6 DEF host_prepare_send, Staged, Joins
  <1>8. SendJoins(r)
    BY <1>2, <1>3, <1>4, <1>6, <1>7 DEF SendJoins, host_prepare_send
  <1> QED BY <1>8

LEMMA CancelAdmitted ==
    ASSUME RouterFacts, SessionTypes, host_prepare_cancel
    PROVE  \E c \in CancelRows, r \in Rows : CancelJoins(c, r)
  <1>0. /\ cancel_rows \in [CancelRows -> CancelRow] /\ journal \in [Journals -> Seq(Ticket)]
    BY DEF RouterFacts, RouterInv, IntentInv, JournalInv
  <1>1. PICK r \in Rows, c \in CancelRows :
         /\ IsFirst(r, Cancellable(Source, executing.id))
         /\ IsFirst(c, {k \in CancelRows : ~cancel_rows[k].in_use})
         /\ cancel_rows' = [cancel_rows EXCEPT
              ![c] = [in_use |-> TRUE, target |-> r, source |-> Source,
                      target_identity |-> rows[r].identity]]
         /\ HandOut(0, "cancel", c)
    BY SourceIsRef DEF host_prepare_cancel, prepare_cancel
  <1>2. /\ rows[r].state # "FREE" /\ rows[r].delay # 0 /\ rows[r].send_id = executing.id
        /\ ~cancel_rows[c].in_use
    BY <1>1 DEF IsFirst, Cancellable
  <1>3. /\ cancel_rows'[c] = [in_use |-> TRUE, target |-> r, source |-> Source,
                              target_identity |-> rows[r].identity]
        /\ \A k \in CancelRows \ {c} : cancel_rows'[k] = cancel_rows[k]
    BY <1>0, <1>1
  <1>4. /\ journal'[0] = Append(journal[0], CancelTicket(c))
        /\ \A j \in Journals \ {0} : journal'[j] = journal[j]
        /\ UNCHANGED phase
    BY <1>0, <1>1, ZeroJournal DEF HandOut, CancelTicket
  <1>5. /\ UNCHANGED <<rows, reserved, next_row_identity, next_sequence>>
        /\ UNCHANGED <<timer, closed, timer_done_failed>>
    BY DEF host_prepare_cancel, prepare_cancel, ledger, stamps, lanes, life, outcomes
  <1>6. Joins([kind |-> "cancel", reg |-> executing.reg], CancelTicket(c))
    BY <1>4, <1>5 DEF host_prepare_cancel, Staged, Joins
  <1>7. CancelJoins(c, r)
    BY <1>2, <1>3, <1>5, <1>6 DEF CancelJoins, host_prepare_cancel
  <1> QED BY <1>7

\* Only the last ticket is new.
LEMMA JoinedTickets ==
    ASSUME RouterFacts, SessionFacts, NEW e \in Effect, NEW t, Joins(e, t)
    PROVE  /\ Len(effects) \in Nat
           /\ Len(effects') = Len(effects) + 1 /\ Len(journal'[0]) = Len(effects')
           /\ \A k \in 1 .. Len(effects) :
                 effects'[k] = effects[k] /\ journal'[0][k] = journal[0][k]
           /\ effects'[Len(effects) + 1] = e /\ journal'[0][Len(effects) + 1] = t
           /\ effects' \in Seq(Effect)
  <1>1. /\ effects \in Seq(Effect) /\ journal[0] \in Seq(Ticket)
        /\ Len(effects) = Len(journal[0])
    BY ZeroJournal DEF RouterFacts, RouterInv, JournalInv, SessionFacts, SessionTypes, Aligned
  <1>2. effects' = Append(effects, e) /\ journal'[0] = Append(journal[0], t)
    BY DEF Joins
  <1> QED BY <1>1, <1>2

\* Where the tickets are afterwards.
LEMMA JoinedAt ==
    ASSUME RouterFacts, SessionFacts, NEW e \in Effect, NEW t, Joins(e, t),
           NEW k, NEW g, NEW i
    PROVE  /\ SendAt(k, g, i)' <=>
                \/ SendAt(k, g, i)
                \/ /\ k = Len(effects) + 1 /\ t = SendTicket(i)
                   /\ e = [kind |-> "delayed", reg |-> g]
           /\ CancelAt(k, g, i)' <=>
                \/ CancelAt(k, g, i)
                \/ /\ k = Len(effects) + 1 /\ t = CancelTicket(i)
                   /\ e = [kind |-> "cancel", reg |-> g]
  <1>1. /\ Len(effects) \in Nat
        /\ Len(effects') = Len(effects) + 1
        /\ \A m \in 1 .. Len(effects) :
              effects'[m] = effects[m] /\ journal'[0][m] = journal[0][m]
        /\ effects'[Len(effects) + 1] = e /\ journal'[0][Len(effects) + 1] = t
    BY JoinedTickets
  <1>2. \A m : m \in 1 .. Len(effects') <=> m \in 1 .. Len(effects) \/ m = Len(effects) + 1
    BY <1>1
  <1>3. Len(effects) + 1 \notin 1 .. Len(effects)
    BY <1>1
  <1>4. CASE k \in 1 .. Len(effects)
    BY <1>1, <1>2, <1>3, <1>4 DEF SendAt, CancelAt
  <1>5. CASE k = Len(effects) + 1
    BY <1>1, <1>2, <1>3, <1>5 DEF SendAt, CancelAt
  <1>6. CASE k \notin 1 .. Len(effects) /\ k # Len(effects) + 1
    BY <1>2, <1>6 DEF SendAt, CancelAt
  <1> QED BY <1>4, <1>5, <1>6

LEMMA JoinKeepsSession ==
    ASSUME RouterFacts, SessionFacts, NEW e \in Effect, NEW t \in Ticket, Joins(e, t),
           executing.pc # "idle",
           e.kind = "cancel" <=> t.kind = "cancel",
           \A r \in Rows : t = SendTicket(r) => (e.kind = "delayed" <=> rows'[r].delay # 0),
           \A k \in 1 .. Len(effects), r \in Rows :
              journal[0][k] = SendTicket(r) => rows'[r].delay = rows[r].delay
    PROVE  SessionTypes' /\ Aligned' /\ Phased'
  <1>1. /\ Len(effects) \in Nat
        /\ Len(effects') = Len(effects) + 1 /\ Len(journal'[0]) = Len(effects')
        /\ \A k \in 1 .. Len(effects) :
              effects'[k] = effects[k] /\ journal'[0][k] = journal[0][k]
        /\ effects'[Len(effects) + 1] = e /\ journal'[0][Len(effects) + 1] = t
        /\ effects' \in Seq(Effect)
    BY JoinedTickets
  <1>2. executing' \in [pc : {"idle", "adapter", "admit", "rollback"},
                        kind : {"send", "delayed", "cancel"},
                        id : SendIds \cup {NoId}, delay : Delays \cup {0},
                        reg : Regs] /\ executing'.pc = "idle"
    BY RegIndices DEF Joins, Idle
  <1>3. SessionTypes'
    BY <1>1, <1>2 DEF SessionFacts, SessionTypes, Joins
  <1>4. /\ Len(effects) < prepared_effect_capacity /\ phase[0] = "open" /\ ~failed
        /\ ~registry_done
    BY DEF SessionFacts, Phased, SessionTypes
  <1>5. Phased'
    BY <1>2, <1>4 DEF Joins, Phased
  <1>6. Len(effects') <= prepared_effect_capacity
    BY <1>1, <1>4, DelayAssumption
  <1>7. \A m \in 1 .. Len(effects') : m \in 1 .. Len(effects) \/ m = Len(effects) + 1
    BY <1>1
  <1>8. Aligned'
    <2>1. \A m \in 1 .. Len(effects') :
             effects'[m].kind = "cancel" <=> journal'[0][m].kind = "cancel"
      BY <1>1, <1>7, SMTT(30) DEF SessionFacts, Aligned
    <2>2. \A m \in 1 .. Len(effects'), r \in Rows : journal'[0][m] = SendTicket(r) =>
             (effects'[m].kind = "delayed" <=> rows'[r].delay # 0)
      BY <1>1, <1>7, SMTT(30) DEF SessionFacts, Aligned
    <2>3. \A j \in Journals \ {0} : journal'[j] = <<>> /\ phase'[j] = "open"
      BY DEF SessionFacts, Aligned, Joins
    <2> QED BY <1>1, <1>6, <2>1, <2>2, <2>3 DEF Aligned
  <1> QED BY <1>3, <1>5, <1>8

LEMMA AdmissionKeepsFacts ==
    ASSUME RouterFacts, RouterFacts', SessionFacts, host_prepare_send \/ host_prepare_cancel
    PROVE  SessionFacts'
  <1>0. /\ executing.kind \in {"send", "delayed", "cancel"} /\ executing.reg \in Regs
        /\ next_sequence \in Nat /\ reserved \in Nat /\ next_row_identity \in Nat
        /\ [kind |-> executing.kind, reg |-> executing.reg] \in Effect
        /\ [kind |-> "cancel", reg |-> executing.reg] \in Effect
    BY LimitAssumption DEF SessionFacts, SessionTypes, RouterFacts, RouterInv, LedgerInv,
                           StampInv, Effect
  <1>a. \A k \in 1 .. Len(effects), r \in Rows :
           journal[0][k] = SendTicket(r) => rows[r].state = "RESERVED"
    BY ZeroJournal DEF SessionFacts, Aligned, RouterFacts, EventInv, TicketInv, SendsReserved
  <1>1. ASSUME NEW r \in Rows, SendJoins(r)
        PROVE  SessionFacts'
    <2> DEFINE e == [kind |-> executing.kind, reg |-> executing.reg]
    <2>1. SendTicket(r) \in Ticket /\ SendTicket(r).kind = "send" /\ e.kind = executing.kind
      BY DEF SendTicket, Ticket
    <2>2. \A q \in Rows : SendTicket(r) = SendTicket(q) => q = r
      BY DEF SendTicket
    <2>3. executing.kind = "delayed" <=> rows'[r].delay # 0
      BY <1>1 DEF SendJoins, SessionFacts, Phased
    <2>4. \A k \in 1 .. Len(effects), q \in Rows :
             journal[0][k] = SendTicket(q) => rows'[q].delay = rows[q].delay
      BY <1>1, <1>a DEF SendJoins
    <2>5. e \in Effect /\ Joins(e, SendTicket(r)) /\ e.kind # "cancel" /\ executing.pc # "idle"
      BY <1>0, <1>1 DEF SendJoins
    <2> HIDE DEF e
    <2>6. SessionTypes' /\ Aligned' /\ Phased'
      BY <2>1, <2>2, <2>3, <2>4, <2>5, JoinKeepsSession
    <2>7. next_sequence' + reserved' <= next_row_identity'
      BY <1>0, <1>1 DEF SendJoins, SessionFacts, Origin
    <2>8. Origin'
      BY <1>1, <2>7 DEF SendJoins, SessionFacts, Origin
    <2> QED BY <2>6, <2>8 DEF SessionFacts
  <1>2. ASSUME NEW c \in CancelRows, NEW r \in Rows, CancelJoins(c, r)
        PROVE  SessionFacts'
    <2> DEFINE e == [kind |-> "cancel", reg |-> executing.reg]
    <2>1. /\ CancelTicket(c) \in Ticket /\ CancelTicket(c).kind = "cancel"
          /\ e.kind = "cancel"
      BY DEF CancelTicket, Ticket
    <2>2. \A q \in Rows : CancelTicket(c) # SendTicket(q)
      BY DEF SendTicket, CancelTicket
    <2>3. e \in Effect /\ Joins(e, CancelTicket(c)) /\ executing.pc # "idle"
      BY <1>0, <1>2 DEF CancelJoins
    <2>4. UNCHANGED <<rows, reserved, next_row_identity, next_sequence>>
      BY <1>2 DEF CancelJoins
    <2> HIDE DEF e
    <2>5. SessionTypes' /\ Aligned' /\ Phased'
      BY <2>1, <2>2, <2>3, <2>4, JoinKeepsSession
    <2>6. Origin'
      BY <1>2, <2>4 DEF CancelJoins, SessionFacts, Origin
    <2> QED BY <2>5, <2>6 DEF SessionFacts
  <1> QED BY <1>1, <1>2, SendAdmitted, CancelAdmitted DEF SessionFacts

\* The first ticket leaves, and the others move up.
Leaves ==
    /\ effects' = Tail(effects)
    /\ journal'[0] = Tail(journal[0])
    /\ \A j \in Journals \ {0} : journal'[j] = journal[j] /\ phase'[j] = phase[j]
    /\ phase'[0] = IF journal'[0] = <<>> THEN "open" ELSE phase[0]
    /\ registry_done /\ registry_done' = FALSE
    /\ UNCHANGED <<delayed_sends, executing, binding, failed, timer, closed,
                   timer_done_failed>>

LEMMA SettledLeaves ==
    ASSUME RouterFacts, SessionFacts, settle_ticket
    PROVE  Leaves
  <1>0. /\ phase \in [Journals -> Phases] /\ journal \in [Journals -> Seq(Ticket)]
    BY DEF RouterFacts, RouterInv, JournalInv
  <1>1. /\ journal' = [journal EXCEPT ![0] = Tail(@)]
        /\ phase' = [phase EXCEPT ![0] = IF Tail(journal[0]) = <<>> THEN "open" ELSE @]
    BY DEF settle_ticket, ticket_commit, ticket_discard, cancel_commit, cancel_discard,
           NextTicket
  <1>2. UNCHANGED <<timer, closed, timer_done_failed>>
    BY DEF settle_ticket, ticket_commit, ticket_discard, cancel_commit, cancel_discard,
           lanes, life, outcomes
  <1> QED BY <1>0, <1>1, <1>2, ZeroJournal DEF settle_ticket, Leaves

LEMMA TailFacts ==
    ASSUME NEW S, NEW s \in Seq(S), s # <<>>
    PROVE  /\ Tail(s) \in Seq(S) /\ Len(Tail(s)) = Len(s) - 1 /\ Len(s) \in Nat \ {0}
           /\ \A k \in 1 .. Len(Tail(s)) : Tail(s)[k] = s[k + 1]
           /\ Tail(s) = <<>> <=> Len(Tail(s)) = 0
  <1>1. Tail(s) \in Seq(S) /\ Len(Tail(s)) = Len(s) - 1 /\ Len(s) \in Nat \ {0}
    OBVIOUS
  <1>2. \A k \in 1 .. Len(Tail(s)) : Tail(s)[k] = s[k + 1]
    OBVIOUS
  <1>3. \A u \in Seq(S) : u = <<>> <=> Len(u) = 0
    OBVIOUS
  <1> QED BY <1>1, <1>2, <1>3

LEMMA LeftTickets ==
    ASSUME RouterFacts, SessionFacts, Leaves
    PROVE  /\ Len(effects) \in Nat \ {0}
           /\ Len(effects') = Len(effects) - 1 /\ Len(journal'[0]) = Len(effects')
           /\ \A k \in 1 .. Len(effects') :
                 effects'[k] = effects[k + 1] /\ journal'[0][k] = journal[0][k + 1]
           /\ effects' \in Seq(Effect)
           /\ journal'[0] = <<>> <=> Len(effects') = 0
  <1>1. /\ effects \in Seq(Effect) /\ journal[0] \in Seq(Ticket)
        /\ Len(effects) = Len(journal[0]) /\ journal[0] # <<>>
    BY ZeroJournal DEF RouterFacts, RouterInv, JournalInv, SessionFacts, SessionTypes, Aligned,
                       Phased, Leaves
  <1>2. effects' = Tail(effects) /\ journal'[0] = Tail(journal[0])
    BY DEF Leaves
  <1>3. effects # <<>>
    BY <1>1
  <1> QED BY <1>1, <1>2, <1>3, TailFacts

LEMMA LeftAt ==
    ASSUME RouterFacts, SessionFacts, Leaves, NEW k, NEW g, NEW i
    PROVE  /\ SendAt(k, g, i)' <=> k \in Nat \ {0} /\ SendAt(k + 1, g, i)
           /\ CancelAt(k, g, i)' <=> k \in Nat \ {0} /\ CancelAt(k + 1, g, i)
  <1>1. /\ Len(effects) \in Nat \ {0} /\ Len(effects') = Len(effects) - 1
        /\ \A m \in 1 .. Len(effects') :
              effects'[m] = effects[m + 1] /\ journal'[0][m] = journal[0][m + 1]
    BY LeftTickets
  <1>2. \A m : m \in 1 .. Len(effects') <=> m \in Nat \ {0} /\ m + 1 \in 1 .. Len(effects)
    BY <1>1
  <1> QED BY <1>1, <1>2 DEF SendAt, CancelAt

LEMMA SettlementKeepsFacts ==
    ASSUME RouterFacts, RouterFacts', SessionFacts, settle_ticket
    PROVE  SessionFacts'
  <1>1. Leaves /\ StepFrame
    BY SettledLeaves, TicketFrame DEF SessionFacts
  <1>2. /\ Len(effects) \in Nat \ {0}
        /\ Len(effects') = Len(effects) - 1 /\ Len(journal'[0]) = Len(effects')
        /\ \A k \in 1 .. Len(effects') :
              effects'[k] = effects[k + 1] /\ journal'[0][k] = journal[0][k + 1]
        /\ effects' \in Seq(Effect)
    BY <1>1, LeftTickets
  <1>3. \A m \in 1 .. Len(effects') : m + 1 \in 1 .. Len(effects)
    BY <1>2
  <1>4. SessionTypes'
    BY <1>1, <1>2 DEF Leaves, SessionFacts, SessionTypes
  <1>5. Origin'
    BY <1>1, FramedOrigin DEF SessionFacts
  <1>6. Phased'
    <2>1. executing.pc = "idle"
      BY <1>1 DEF Leaves, SessionFacts, Phased
    <2> QED BY <1>1, <2>1 DEF Leaves, SessionFacts, Phased
  <1>7. Len(effects') <= prepared_effect_capacity
    BY <1>2, DelayAssumption DEF SessionFacts, Aligned
  <1>8. ASSUME NEW m \in 1 .. Len(effects'), NEW r \in Rows, journal'[0][m] = SendTicket(r)
        PROVE  effects'[m].kind = "delayed" <=> rows'[r].delay # 0
    <2>1. rows'[r].state = "RESERVED"
      BY <1>2, <1>8, ZeroJournal DEF RouterFacts, EventInv, TicketInv, SendsReserved
    <2>2. rows'[r].delay = rows[r].delay
      BY <1>1, <2>1 DEF StepFrame, SameEvent
    <2> QED BY <1>2, <1>3, <1>8, <2>2, ZenonT(30) DEF SessionFacts, Aligned
  <1>9. Aligned'
    <2>1. \A m \in 1 .. Len(effects') :
             effects'[m].kind = "cancel" <=> journal'[0][m].kind = "cancel"
      BY <1>2, <1>3 DEF SessionFacts, Aligned
    <2>2. \A j \in Journals \ {0} : journal'[j] = <<>> /\ phase'[j] = "open"
      BY <1>1 DEF SessionFacts, Aligned, Leaves
    <2> QED BY <1>2, <1>7, <1>8, <2>1, <2>2 DEF Aligned
  <1> QED BY <1>4, <1>5, <1>6, <1>9 DEF SessionFacts

LEMMA FactsKept ==
    ASSUME RouterFacts, SessionFacts, [DelayNext]_allVars
    PROVE  RouterFacts' /\ SessionFacts'
  <1>1. RouterFacts'
    BY RouterFactsKept DEF SessionFacts
  <1>2. CASE UNCHANGED allVars
    <2>1. UNCHANGED <<vars, delayed_sends, executing, effects, registry_done, binding, failed>>
      BY <1>2 DEF allVars, sessionVars
    <2>2. UNCHANGED <<rows, reserved, next_row_identity, next_sequence, cancel_rows, journal,
                      phase>>
      BY <2>1 DEF vars, ledger, stamps, intents, journals
    <2> QED BY <1>1, <2>1, <2>2 DEF SessionFacts, SessionTypes, Aligned, Phased, Origin
  <1>3. CASE SessionStep
    BY <1>1, <1>3, AloneKeepsFacts
  <1>4. CASE host_prepare_send \/ host_prepare_cancel
    BY <1>1, <1>4, AdmissionKeepsFacts
  <1>5. CASE settle_ticket
    BY <1>1, <1>5, SettlementKeepsFacts
  <1>6. CASE \/ HostSteps \/ host_close_cancels \/ report_send_done
             \/ end_microstep("commit") \/ end_microstep("discard")
    BY <1>1, <1>6, CallsKeepFacts
  <1> QED BY <1>1, <1>2, <1>3, <1>4, <1>5, <1>6 DEF DelayNext, SessionStep

LEMMA InitialFacts == DelayInit => RouterFacts /\ SessionFacts
  <1> SUFFICES ASSUME DelayInit PROVE RouterFacts /\ SessionFacts
    OBVIOUS
  <1>1. RouterFacts
    BY InitialAttached
  <1>2. SessionTypes
    <2>1. FreeReg \in RegRow
      BY DEF FreeReg, RegRow, RegStates
    <2>2. delayed_sends \in [Regs -> RegRow]
      BY <2>1 DEF DelayInit
    <2>3. executing \in [pc : {"idle", "adapter", "admit", "rollback"},
                          kind : {"send", "delayed", "cancel"},
                          id : SendIds \cup {NoId}, delay : Delays \cup {0},
                          reg : Regs]
      BY RegIndices DEF DelayInit, Idle
    <2>4. effects \in Seq(Effect)
      BY DEF DelayInit
    <2> QED BY <2>2, <2>3, <2>4 DEF DelayInit, SessionTypes, RegRow
  <1>3. Aligned
    <2>1. /\ Len(effects) = 0 /\ Len(journal[0]) = 0
          /\ \A j \in Journals \ {0} : journal[j] = <<>> /\ phase[j] = "open"
      BY ZeroJournal DEF DelayInit
    <2>2. 1 .. Len(effects) = {}
      BY <2>1
    <2> QED BY <2>1, <2>2, DelayAssumption DEF Aligned
  <1>4. Phased
    BY ZeroJournal DEF DelayInit, Phased, Idle
  <1>5. Origin
    BY FreeRowFacts DEF DelayInit, Origin, FreeCancel
  <1> QED BY <1>1, <1>2, <1>3, <1>4, <1>5 DEF SessionFacts

-----------------------------------------------------------------------------
(* What the two registries say of each other. *)

Owing(g) == delayed_sends[g].state # "FREE"

\* The state of a registry row, a cancel that is under way put aside.
Standing(g) == IF delayed_sends[g].state = "CANCEL_RESERVED"
               THEN delayed_sends[g].previous_state ELSE delayed_sends[g].state

DelayedRow(r) == rows[r].state # "FREE" /\ rows[r].delay # 0

\* A delayed send the Session has not been told of.
Unfired(r) == CountsTimer(rows[r]) /\ ~rows[r].fire_won_cancel /\ ~Reported(r)

Names(g, r) == delayed_sends[g].id = rows[r].send_id

\* The element in hand is a delayed send, or a cancel, of this registry row.
Sending(g) ==
    executing.pc # "idle" /\ executing.kind = "delayed" /\ executing.reg = g
Cancelling(g) ==
    executing.pc # "idle" /\ executing.kind = "cancel" /\ executing.reg = g

SendPending(g) == \E k \in Nat, r \in Rows : SendAt(k, g, r)
CancelPending(g) == \E k \in Nat, c \in CancelRows : CancelAt(k, g, c)

\* The intent was prepared for the Event that is now in the row.
Aims(c, r) ==
    /\ cancel_rows[c].target = r
    /\ cancel_rows[c].target_identity = rows[r].identity

OneRegPerId ==
    \A g, h \in Regs :
       Owing(g) /\ Owing(h) /\ delayed_sends[g].id = delayed_sends[h].id => g = h

OneRowPerId ==
    \A r, q \in Rows :
       DelayedRow(r) /\ DelayedRow(q) /\ rows[r].send_id = rows[q].send_id => r = q

\* A send that has its registry row and no ticket: no row of the router has
\* its id.
SendInHand ==
    \A g \in Regs : Sending(g) =>
       /\ delayed_sends[g].state = "RESERVED" /\ delayed_sends[g].id = executing.id
       /\ \A r \in Rows : DelayedRow(r) => rows[r].send_id # executing.id
       /\ ~CancelPending(g) /\ ~SendPending(g)

\* A cancel that has marked its registry row and has no ticket: if the row was
\* reported meanwhile, no unfired row is left for it.
CancelInHand ==
    \A g \in Regs : Cancelling(g) =>
       /\ delayed_sends[g].state = "CANCEL_RESERVED"
       /\ delayed_sends[g].id = executing.id
       /\ CancelPending(g) => delayed_sends[g].previous_state = "CANCEL_RESERVED"
       /\ delayed_sends[g].previous_state = "FREE" =>
             \A r \in Rows : Unfired(r) => ~Names(g, r)

\* A ticket of a send has a registry row of the same id, no cancel of that
\* row comes before it, and its registry half is settled first.
SendsRegistered ==
    \A k \in Nat, g \in Regs, r \in Rows : SendAt(k, g, r) =>
       /\ Owing(g) /\ Names(g, r)
       /\ k = 1 /\ registry_done => Standing(g) # "RESERVED"
       /\ \A l \in Nat, c \in CancelRows : l < k => ~CancelAt(l, g, c)

\* A ticket of a cancel has marked its registry row, until its commit or that
\* of an earlier cancel clears the row.
CancelsRegistered ==
    \A k \in Nat, g \in Regs, c \in CancelRows : CancelAt(k, g, c) =>
       /\ \/ delayed_sends[g].state = "CANCEL_RESERVED"
          \/ ~Owing(g) /\ phase[0] = "commit"
       /\ k = 1 /\ registry_done => ~Owing(g)

\* Only a cancel marks a registry row.
CancelledForAReason ==
    \A g \in Regs : delayed_sends[g].state = "CANCEL_RESERVED" =>
       /\ CancelPending(g) \/ Cancelling(g)
       /\ delayed_sends[g].previous_state = "CANCEL_RESERVED" => CancelPending(g)

\* A ticket of a cancel aims at the row that its registry row stands for, and
\* at no row of another.
CancelsAim ==
    \A k \in Nat, g \in Regs, c \in CancelRows, r \in Rows : CancelAt(k, g, c) =>
       /\ Owing(g) /\ DelayedRow(r) /\ Names(g, r) => Aims(c, r)
       /\ Aims(c, r) => /\ DelayedRow(r)
                        /\ \A h \in Regs : Owing(h) /\ Names(h, r) => h = g

\* Between the two halves of a cancel the router has the row alone.
Window(r) ==
    registry_done /\ \E g \in Regs, c \in CancelRows : CancelAt(1, g, c) /\ Aims(c, r)

RowsRegistered ==
    \A r \in Rows : Unfired(r) => \/ Window(r)
                                  \/ \E g \in Regs : Owing(g) /\ Names(g, r)

\* A registry row is RESERVED no longer than its row.
ReservedTogether ==
    \A g \in Regs, r \in Rows :
       Owing(g) /\ DelayedRow(r) /\ Names(g, r) /\ Standing(g) = "RESERVED" =>
          rows[r].state = "RESERVED"

\* Every report is answered, or explained by a cancel of the row.
ReportsAcknowledged ==
    timer.pc = "reported" => timer.settled \/ CancelRaced(timer.row)

RegsHaveRows ==
    /\ \A g \in Regs : Standing(g) = "RESERVED" => Sending(g) \/ SendPending(g)
    /\ binding = "open" /\ ~closed =>
          \A g \in Regs : Standing(g) = "ACTIVE" =>
             \E r \in Rows : Unfired(r) /\ Names(g, r)

Agreement ==
    /\ OneRegPerId /\ OneRowPerId
    /\ SendInHand /\ CancelInHand
    /\ SendsRegistered /\ CancelsRegistered /\ CancelledForAReason /\ CancelsAim
    /\ RowsRegistered /\ ReservedTogether
    /\ ReportsAcknowledged /\ timer_done_failed = 0
    /\ RegsHaveRows

\* The inductive invariant.
DelayInv == RouterFacts /\ SessionFacts /\ (~failed => Agreement)

\* A ticket and what it owns.
TicketsOwn ==
    /\ \A k, g : \A r \in Rows : SendAt(k, g, r) =>
          /\ k \in Nat \ {0} /\ g \in Regs
          /\ rows[r].state = "RESERVED" /\ DelayedRow(r)
    /\ \A k, g : \A c \in CancelRows : CancelAt(k, g, c) =>
          k \in Nat \ {0} /\ g \in Regs /\ cancel_rows[c].in_use
    /\ \A k, l, g, h, c : CancelAt(k, g, c) /\ CancelAt(l, h, c) => k = l /\ g = h
    /\ \A k, g, h, c, r : ~(CancelAt(k, g, c) /\ SendAt(k, h, r))
    /\ \A k, g, h, c, d : CancelAt(k, g, c) /\ CancelAt(k, h, d) => g = h /\ c = d

LEMMA TicketFacts == RouterFacts /\ SessionFacts => TicketsOwn
  <1> SUFFICES ASSUME RouterFacts, SessionFacts PROVE TicketsOwn
    OBVIOUS
  <1>0. /\ effects \in Seq(Effect) /\ Len(effects) = Len(journal[0]) /\ Len(effects) \in Nat
    BY DEF SessionFacts, SessionTypes, Aligned
  <1>a. \A k \in 1 .. Len(effects) : k \in Nat \ {0} /\ effects[k].reg \in Regs
    <2>1. \A k \in 1 .. Len(effects) : k \in Nat \ {0} /\ effects[k] \in Effect
      BY <1>0
    <2> QED BY <2>1 DEF Effect
  <1>1. ASSUME NEW k, NEW g, NEW r \in Rows, SendAt(k, g, r)
        PROVE  /\ k \in Nat \ {0} /\ g \in Regs
               /\ rows[r].state = "RESERVED" /\ DelayedRow(r)
    <2>1. k \in Nat \ {0} /\ g \in Regs
      BY <1>1, <1>a DEF SendAt
    <2>2. rows[r].state = "RESERVED"
      BY <1>0, <1>1, ZeroJournal DEF SendAt, RouterFacts, EventInv, TicketInv, SendsReserved
    <2>3. rows[r].delay # 0
      BY <1>1 DEF SendAt, SessionFacts, Aligned
    <2> QED BY <2>1, <2>2, <2>3 DEF DelayedRow
  <1>2. ASSUME NEW k, NEW g, NEW c \in CancelRows, CancelAt(k, g, c)
        PROVE  k \in Nat \ {0} /\ g \in Regs /\ cancel_rows[c].in_use
    <2>1. k \in Nat \ {0} /\ g \in Regs
      BY <1>2, <1>a DEF CancelAt
    <2> QED BY <1>0, <1>2, <2>1, ZeroJournal
            DEF CancelAt, RouterFacts, EventInv, TicketInv, CancelsInUse
  <1>3. ASSUME NEW k, NEW l, NEW g, NEW h, NEW c, CancelAt(k, g, c), CancelAt(l, h, c)
        PROVE  k = l /\ g = h
    <2>1. k = l
      BY <1>0, <1>3, ZeroJournal DEF CancelAt, RouterFacts, EventInv, TicketInv, TicketsOnce
    <2> QED BY <1>3, <2>1 DEF CancelAt
  <1>4. \A k, g, h, c, r : ~(CancelAt(k, g, c) /\ SendAt(k, h, r))
    BY DEF CancelAt, SendAt
  <1>5. \A k, g, h, c, d : CancelAt(k, g, c) /\ CancelAt(k, h, d) => g = h /\ c = d
    BY DEF CancelAt, CancelTicket
  <1> QED BY <1>1, <1>2, <1>3, <1>4, <1>5 DEF TicketsOwn

LEMMA TicketFactsNext == (RouterFacts /\ SessionFacts => TicketsOwn)'
  BY TicketFacts, PTL

\* Each effect with a registry row is such a ticket.
LEMMA EffectTickets ==
    ASSUME RouterFacts, SessionFacts, NEW k \in 1 .. Len(effects)
    PROVE  /\ effects[k].kind \in {"send", "delayed", "cancel"} /\ effects[k].reg \in Regs
           /\ effects[k].kind = "delayed" => \E r \in Rows : SendAt(k, effects[k].reg, r)
           /\ effects[k].kind = "cancel" =>
                 \E c \in CancelRows : CancelAt(k, effects[k].reg, c)
  <1>1. effects[k] \in Effect /\ journal[0][k] \in Ticket
    BY ZeroJournal DEF SessionFacts, SessionTypes, Aligned, RouterFacts, RouterInv, JournalInv
  <1>2. /\ effects[k].kind \in {"send", "delayed", "cancel"} /\ effects[k].reg \in Regs
        /\ effects[k] = [kind |-> effects[k].kind, reg |-> effects[k].reg]
    BY <1>1 DEF Effect
  <1>3. journal[0][k].kind # "cancel" =>
           \E r \in Rows : journal[0][k] = SendTicket(r)
    BY <1>1 DEF Ticket, SendTicket
  <1>4. journal[0][k].kind = "cancel" =>
           \E c \in CancelRows : journal[0][k] = CancelTicket(c)
    BY <1>1 DEF Ticket, CancelTicket
  <1>5. effects[k].kind = "cancel" <=> journal[0][k].kind = "cancel"
    BY DEF SessionFacts, Aligned
  <1> QED BY <1>2, <1>3, <1>4, <1>5 DEF SendAt, CancelAt

-----------------------------------------------------------------------------
(* Steps of the router that leave the registry alone. *)

\* Tickets stay where they are (d = 0) or the first one leaves (d = 1), and no
\* row becomes unfired.
Follows(d) ==
    /\ StepFrame
    /\ UNCHANGED <<delayed_sends, executing>>
    /\ \A k, g, i : /\ SendAt(k, g, i)' <=> k \in Nat \ {0} /\ SendAt(k + d, g, i)
                    /\ CancelAt(k, g, i)' <=> k \in Nat \ {0} /\ CancelAt(k + d, g, i)
    /\ \A r \in Rows : Unfired(r)' => Unfired(r)
    /\ d = 0 => UNCHANGED <<registry_done, phase>>
    /\ d = 1 => registry_done /\ registry_done' = FALSE
    /\ phase'[0] = phase[0] \/ \A k, g, c : ~CancelAt(k, g, c)'

LEMMA UnfiredDelayed ==
    \A r \in Rows : Unfired(r) => DelayedRow(r)
  BY DEF Unfired, DelayedRow, CountsTimer

\* What is seen of the rows afterwards was seen before.
LEMMA FramedRows ==
    ASSUME RouterFacts, RouterFacts', StepFrame, UNCHANGED delayed_sends, NEW r \in Rows
    PROVE  /\ DelayedRow(r)' => /\ DelayedRow(r) /\ rows'[r].send_id = rows[r].send_id
                                /\ \A g \in Regs : Names(g, r)' <=> Names(g, r)
           /\ \A c \in CancelRows : cancel_rows'[c].in_use =>
                 /\ Aims(c, r)' => Aims(c, r) /\ (DelayedRow(r) => DelayedRow(r)')
                 /\ Aims(c, r) /\ DelayedRow(r)' => Aims(c, r)'
  <1>1. DelayedRow(r)' => SameEvent(r) /\ DelayedRow(r)
    BY DEF StepFrame, DelayedRow, SameEvent
  <1>2. ASSUME NEW c \in CancelRows, cancel_rows'[c].in_use
        PROVE  /\ Aims(c, r)' => Aims(c, r) /\ (DelayedRow(r) => DelayedRow(r)')
               /\ Aims(c, r) /\ DelayedRow(r)' => Aims(c, r)'
    <2>1. cancel_rows'[c] = cancel_rows[c]
      BY <1>2 DEF StepFrame
    <2>2. cancel_rows'[c].target_identity # 0
      BY <1>2 DEF RouterFacts, EventInv, TicketInv, IntentsNameEvents
    <2>3. Aims(c, r)' => rows'[r].state # "FREE"
      BY <2>2 DEF Aims, RouterFacts, EventInv, IdentityInv
    <2>4. Aims(c, r)' => SameEvent(r)
      BY <2>3 DEF StepFrame
    <2> QED BY <1>1, <2>1, <2>3, <2>4 DEF Aims, SameEvent, DelayedRow
  <1> QED BY <1>1, <1>2 DEF SameEvent, Names

LEMMA FollowsKeepsTickets ==
    ASSUME RouterFacts, RouterFacts', SessionFacts, SessionFacts', Agreement,
           NEW d \in {0, 1}, Follows(d)
    PROVE  /\ OneRegPerId' /\ OneRowPerId' /\ SendInHand' /\ CancelInHand'
           /\ SendsRegistered' /\ CancelsRegistered' /\ CancelledForAReason'
           /\ CancelsAim'
  <1>1. /\ \A g \in Regs : /\ Owing(g)' <=> Owing(g)
                           /\ Standing(g)' = Standing(g)
                           /\ Sending(g)' <=> Sending(g)
                           /\ Cancelling(g)' <=> Cancelling(g)
        /\ \A g : delayed_sends'[g] = delayed_sends[g]
        /\ executing' = executing
    BY DEF Follows, Owing, Standing, Sending, Cancelling
  <1>2. \A r \in Rows :
           /\ DelayedRow(r)' => /\ DelayedRow(r) /\ rows'[r].send_id = rows[r].send_id
                                /\ \A g \in Regs : Names(g, r)' <=> Names(g, r)
           /\ Unfired(r)' => Unfired(r) /\ DelayedRow(r)'
    BY FramedRows, UnfiredDelayed DEF Follows, Unfired, DelayedRow, CountsTimer
  <1>3. \A c \in CancelRows, r \in Rows : cancel_rows'[c].in_use =>
                 /\ Aims(c, r)' => Aims(c, r) /\ (DelayedRow(r) => DelayedRow(r)')
                 /\ Aims(c, r) /\ DelayedRow(r)' => Aims(c, r)'
    BY FramedRows DEF Follows
  <1>4. \A k, g, i : /\ SendAt(k, g, i)' => k \in Nat \ {0} /\ SendAt(k + d, g, i)
                     /\ CancelAt(k, g, i)' => k \in Nat \ {0} /\ CancelAt(k + d, g, i)
    BY DEF Follows
  <1>5. \A k, g : \A c \in CancelRows : CancelAt(k, g, c)' => cancel_rows'[c].in_use
    BY TicketFactsNext DEF TicketsOwn
  <1>6. \A g : /\ SendPending(g)' => SendPending(g)
               /\ CancelPending(g)' => CancelPending(g)
    BY <1>4 DEF SendPending, CancelPending
  <1>7. OneRegPerId' /\ OneRowPerId'
    BY <1>1, <1>2 DEF Agreement, OneRegPerId, OneRowPerId
  <1>8. SendInHand'
    BY <1>1, <1>2, <1>6 DEF Agreement, SendInHand
  <1>9. CancelInHand'
    BY <1>1, <1>2, <1>6 DEF Agreement, CancelInHand
  <1>10. SendsRegistered'
    <2> SUFFICES ASSUME NEW k \in Nat, NEW g \in Regs, NEW r \in Rows, SendAt(k, g, r)'
                 PROVE  /\ Owing(g)' /\ Names(g, r)'
                        /\ k = 1 /\ registry_done' => Standing(g)' # "RESERVED"
                        /\ \A l \in Nat, c \in CancelRows : l < k => ~CancelAt(l, g, c)'
      BY DEF SendsRegistered
    <2>a. DelayedRow(r)'
      BY TicketFactsNext DEF TicketsOwn
    <2>b. SendAt(k + d, g, r)
      BY <1>4, Zenon
    <2>1. SendAt(k + d, g, r) /\ k + d \in Nat /\ DelayedRow(r)'
      BY <2>a, <2>b
    <2>2. /\ Owing(g) /\ Names(g, r)
          /\ k + d = 1 /\ registry_done => Standing(g) # "RESERVED"
          /\ \A l \in Nat, c \in CancelRows : l < k + d => ~CancelAt(l, g, c)
      BY <2>1 DEF Agreement, SendsRegistered
    <2>c. registry_done' => d = 0 /\ registry_done
      BY DEF Follows
    <2>3. k = 1 /\ registry_done' => Standing(g)' # "RESERVED"
      BY <1>1, <2>2, <2>c
    <2>4. ASSUME NEW l \in Nat, NEW c \in CancelRows, l < k, CancelAt(l, g, c)'
          PROVE  FALSE
      <3>1. CancelAt(l + d, g, c) /\ l + d \in Nat /\ l + d < k + d
        BY <1>4, <2>4
      <3> QED BY <2>2, <3>1
    <2> QED BY <1>1, <1>2, <2>1, <2>2, <2>3, <2>4
  <1>11. CancelsRegistered'
    <2> SUFFICES ASSUME NEW k \in Nat, NEW g \in Regs, NEW c \in CancelRows, CancelAt(k, g, c)'
                 PROVE  /\ \/ delayed_sends'[g].state = "CANCEL_RESERVED"
                           \/ ~Owing(g)' /\ phase'[0] = "commit"
                        /\ k = 1 /\ registry_done' => ~Owing(g)'
      BY DEF CancelsRegistered
    <2>1. CancelAt(k + d, g, c) /\ k + d \in Nat /\ phase'[0] = phase[0]
      BY <1>4 DEF Follows
    <2>2. /\ \/ delayed_sends[g].state = "CANCEL_RESERVED"
             \/ ~Owing(g) /\ phase[0] = "commit"
          /\ k + d = 1 /\ registry_done => ~Owing(g)
      BY <2>1 DEF Agreement, CancelsRegistered
    <2> QED BY <1>1, <2>1, <2>2 DEF Follows
  <1>12. CancelledForAReason'
    <2>1. ASSUME NEW g \in Regs, CancelPending(g), Owing(g) PROVE CancelPending(g)'
      <3>1. PICK k \in Nat, c \in CancelRows : CancelAt(k, g, c)
        BY <2>1 DEF CancelPending
      <3>2. k \in Nat \ {0} /\ ~(k = 1 /\ registry_done)
        BY <2>1, <3>1, TicketFacts DEF TicketsOwn, Agreement, CancelsRegistered
      <3>3. k - d \in Nat \ {0} /\ (k - d) + d = k
        BY <3>2 DEF Follows
      <3>4. CancelAt(k - d, g, c)'
        BY <3>1, <3>3 DEF Follows
      <3> QED BY <3>3, <3>4 DEF CancelPending
    <2>2. \A g \in Regs : delayed_sends[g].state = "CANCEL_RESERVED" => Owing(g)
      BY DEF Owing
    <2> QED BY <1>1, <2>1, <2>2 DEF Agreement, CancelledForAReason
  <1>13. CancelsAim'
    <2> SUFFICES ASSUME NEW k \in Nat, NEW g \in Regs, NEW c \in CancelRows, NEW r \in Rows,
                        CancelAt(k, g, c)'
                 PROVE  /\ Owing(g)' /\ DelayedRow(r)' /\ Names(g, r)' => Aims(c, r)'
                        /\ Aims(c, r)' =>
                              /\ DelayedRow(r)'
                              /\ \A h \in Regs : Owing(h)' /\ Names(h, r)' => h = g
      BY DEF CancelsAim
    <2>1. CancelAt(k + d, g, c) /\ k + d \in Nat /\ cancel_rows'[c].in_use
      BY <1>4, <1>5
    <2>2. /\ Owing(g) /\ DelayedRow(r) /\ Names(g, r) => Aims(c, r)
          /\ Aims(c, r) => /\ DelayedRow(r)
                           /\ \A h \in Regs : Owing(h) /\ Names(h, r) => h = g
      BY <2>1 DEF Agreement, CancelsAim
    <2> QED BY <1>1, <1>2, <1>3, <2>1, <2>2
  <1> QED BY <1>7, <1>8, <1>9, <1>10, <1>11, <1>12, <1>13
LEMMA HostMovesUnfired ==
    ASSUME RouterFacts, SessionFacts, HostMoves, NEW r \in Rows
    PROVE  /\ Unfired(r)' => Unfired(r)
           /\ Unfired(r) /\ binding' = "open" /\ ~closed' => Unfired(r)'
  <1>1. rows[r] \in Row /\ FreeRow.delay = 0
    BY DEF RouterFacts, RouterInv, LedgerInv, FreeRow
  <1>2. /\ timer'.pc = "reported" => timer' = timer
        /\ timer.pc = "reported" =>
              timer' = timer \/ rows'[timer.row].state \in {"FREE", "READY"}
    BY DEF HostMoves
  <1>3. CASE rows'[r] = rows[r]
    BY <1>2, <1>3 DEF Unfired, Reported, CountsTimer
  <1>4. CASE Passes(r, "DELAYED", "FIRING") /\ ~Reported(r)
    BY <1>1, <1>2, <1>4 DEF Unfired, Reported, CountsTimer, Passes, Row
  <1>5. CASE Passes(r, "FIRING", "READY") /\ Reported(r)
    BY <1>1, <1>5 DEF Unfired, CountsTimer, Passes, Row
  <1>6. CASE Passes(r, "READY", "INFLIGHT") \/ Passes(r, "INFLIGHT", "READY")
    BY <1>1, <1>6 DEF Unfired, CountsTimer, Passes, Row
  <1>7. CASE \/ Drops(r, {"INFLIGHT"})
             \/ Drops(r, {"FIRING"}) /\ Reported(r)
             \/ Drops(r, {"DELAYED", "READY"}) /\ (closed' \/ binding' # "open")
    BY <1>1, <1>7 DEF Unfired, CountsTimer, Drops
  <1> QED BY <1>3, <1>4, <1>5, <1>6, <1>7 DEF HostMoves

LEMMA HostKeepsAgreement ==
    ASSUME RouterFacts, RouterFacts', SessionFacts, SessionFacts', Agreement, HostMoves,
           UNCHANGED <<delayed_sends, executing, effects, registry_done>>,
           binding' = "open" => binding = "open"
    PROVE  Agreement'
  <1>1. \A r \in Rows : /\ Unfired(r)' => Unfired(r)
                        /\ Unfired(r) /\ binding' = "open" /\ ~closed' => Unfired(r)'
    BY HostMovesUnfired
  <1>2. \A k, g, i : /\ SendAt(k, g, i)' <=> SendAt(k, g, i)
                     /\ CancelAt(k, g, i)' <=> CancelAt(k, g, i)
    BY DEF SendAt, CancelAt, HostMoves
  <1>3. StepFrame
    BY HostMovesFrame DEF SessionFacts
  <1>4. Follows(0)
    <2>1. \A k, g, i : /\ SendAt(k, g, i) => k \in Nat \ {0} /\ k + 0 = k
                       /\ CancelAt(k, g, i) => k \in Nat \ {0} /\ k + 0 = k
      BY DEF SendAt, CancelAt, SessionFacts, SessionTypes
    <2>2. \A k \in Nat : k + 0 = k
      OBVIOUS
    <2>3. \A k, g, i : /\ SendAt(k, g, i)' <=> k \in Nat \ {0} /\ SendAt(k + 0, g, i)
                       /\ CancelAt(k, g, i)' <=> k \in Nat \ {0} /\ CancelAt(k + 0, g, i)
      BY <1>2, <2>1, <2>2
    <2> QED BY <1>1, <1>3, <2>3 DEF Follows, HostMoves
  <1>5. /\ OneRegPerId' /\ OneRowPerId' /\ SendInHand' /\ CancelInHand'
        /\ SendsRegistered' /\ CancelsRegistered' /\ CancelledForAReason' /\ CancelsAim'
    BY <1>4, FollowsKeepsTickets
  <1>6. \A r \in Rows :
           /\ DelayedRow(r)' => /\ DelayedRow(r)
                                /\ \A g \in Regs : Names(g, r)' <=> Names(g, r)
           /\ \A c \in CancelRows : cancel_rows'[c].in_use =>
                 (Aims(c, r) /\ DelayedRow(r)' => Aims(c, r)')
    BY <1>3, FramedRows
  <1>7. \A g \in Regs : /\ Owing(g)' <=> Owing(g)
                        /\ Standing(g)' = Standing(g)
                        /\ Sending(g)' <=> Sending(g)
    BY DEF Owing, Standing, Sending
  <1>8. \A r \in Rows : Unfired(r)' => DelayedRow(r)'
    BY DEF Unfired, DelayedRow, CountsTimer
  <1>9. RowsRegistered'
    <2> SUFFICES ASSUME NEW r \in Rows, Unfired(r)'
                 PROVE  Window(r)' \/ \E g \in Regs : Owing(g)' /\ Names(g, r)'
      BY DEF RowsRegistered
    <2>1. Unfired(r) /\ DelayedRow(r)'
      BY <1>1, <1>8
    <2>2. CASE Window(r)
      <3>1. PICK g \in Regs, c \in CancelRows : CancelAt(1, g, c) /\ Aims(c, r)
        BY <2>2 DEF Window
      <3>2. CancelAt(1, g, c)' /\ registry_done'
        BY <1>2, <2>2, <3>1 DEF Window
      <3>3. cancel_rows'[c].in_use
        BY <3>2, TicketFactsNext DEF TicketsOwn
      <3>4. Aims(c, r)'
        BY <1>6, <2>1, <3>1, <3>3
      <3> QED BY <3>2, <3>4 DEF Window
    <2>3. CASE \E g \in Regs : Owing(g) /\ Names(g, r)
      BY <1>6, <1>7, <2>1, <2>3
    <2> QED BY <2>1, <2>2, <2>3 DEF Agreement, RowsRegistered
  <1>10. ReservedTogether'
    <2>1. \A r \in Rows : rows[r].state = "RESERVED" => rows'[r].state = "RESERVED"
      BY DEF HostMoves, Passes, Drops
    <2> QED BY <1>6, <1>7, <2>1 DEF Agreement, ReservedTogether
  <1>11. ReportsAcknowledged'
    BY DEF Agreement, ReportsAcknowledged, CancelRaced, HostMoves
  <1>12. timer_done_failed' = 0
    BY DEF Agreement, ReportsAcknowledged, HostMoves
  <1>13. RegsHaveRows'
    <2>1. \A g \in Regs : SendPending(g)' <=> SendPending(g)
      BY <1>2 DEF SendPending
    <2>2. \A g \in Regs : Standing(g)' = "RESERVED" => Sending(g)' \/ SendPending(g)'
      BY <1>7, <2>1 DEF Agreement, RegsHaveRows
    <2>3. ASSUME binding' = "open", ~closed', NEW g \in Regs, Standing(g)' = "ACTIVE"
          PROVE  \E r \in Rows : Unfired(r)' /\ Names(g, r)'
      <3>1. binding = "open" /\ ~closed /\ Standing(g) = "ACTIVE"
        BY <1>7, <2>3 DEF HostMoves
      <3>2. PICK r \in Rows : Unfired(r) /\ Names(g, r)
        BY <3>1 DEF Agreement, RegsHaveRows
      <3>3. Unfired(r)' /\ DelayedRow(r)'
        BY <1>1, <1>8, <2>3, <3>2
      <3> QED BY <1>6, <3>2, <3>3
    <2> QED BY <2>2, <2>3 DEF RegsHaveRows
  <1> QED BY <1>5, <1>9, <1>10, <1>11, <1>12, <1>13 DEF Agreement
-----------------------------------------------------------------------------
(* The router's half of a ticket is settled. *)

LEMMA SettlementFollows ==
    ASSUME RouterFacts, RouterFacts', SessionFacts, settle_ticket,
           \A r \in Rows : Unfired(r)' => Unfired(r)
    PROVE  Follows(1) /\ Leaves
  <1>1. Leaves /\ StepFrame
    BY SettledLeaves, TicketFrame DEF SessionFacts
  <1>2. \A k, g, i : /\ SendAt(k, g, i)' <=> k \in Nat \ {0} /\ SendAt(k + 1, g, i)
                     /\ CancelAt(k, g, i)' <=> k \in Nat \ {0} /\ CancelAt(k + 1, g, i)
    BY <1>1, LeftAt
  <1>3. phase'[0] = phase[0] \/ \A k, g, c : ~CancelAt(k, g, c)'
    <2>1. CASE journal'[0] = <<>>
      <3>1. Len(effects') = 0
        BY <1>1, <2>1, LeftTickets
      <3>2. 1 .. Len(effects') = {}
        BY <3>1
      <3> QED BY <3>2 DEF CancelAt
    <2>2. CASE journal'[0] # <<>>
      BY <1>1, <2>2 DEF Leaves
    <2> QED BY <2>1, <2>2
  <1>4. UNCHANGED <<delayed_sends, executing>> /\ registry_done /\ registry_done' = FALSE
    BY <1>1 DEF Leaves
  <1> QED BY <1>1, <1>2, <1>3, <1>4 DEF Follows

\* What the two kinds of tickets have in common.
LEMMA SettlementKeepsRest ==
    ASSUME RouterFacts, RouterFacts', SessionFacts, SessionFacts', Agreement, settle_ticket,
           \A r \in Rows : Unfired(r)' => Unfired(r) /\ ~Window(r),
           \A g \in Regs, r \in Rows :
              Standing(g) = "RESERVED" => ~SendAt(1, g, r),
           binding = "open" /\ ~closed => \A g \in Regs, r \in Rows :
              Standing(g) = "ACTIVE" /\ Unfired(r) /\ Names(g, r) => Unfired(r)'
    PROVE  /\ OneRegPerId' /\ OneRowPerId' /\ SendInHand' /\ CancelInHand'
           /\ SendsRegistered' /\ CancelsRegistered' /\ CancelledForAReason' /\ CancelsAim'
           /\ RowsRegistered' /\ RegsHaveRows' /\ timer_done_failed' = 0
  <1>1. Follows(1) /\ Leaves
    BY SettlementFollows
  <1>2. /\ OneRegPerId' /\ OneRowPerId' /\ SendInHand' /\ CancelInHand'
        /\ SendsRegistered' /\ CancelsRegistered' /\ CancelledForAReason' /\ CancelsAim'
    BY <1>1, FollowsKeepsTickets
  <1>3. \A r \in Rows : Unfired(r)' =>
           DelayedRow(r)' /\ \A g \in Regs : Names(g, r)' <=> Names(g, r)
    <2>1. \A r \in Rows : Unfired(r)' => DelayedRow(r)'
      BY DEF Unfired, DelayedRow, CountsTimer
    <2>2. \A r \in Rows : DelayedRow(r)' => \A g \in Regs : Names(g, r)' <=> Names(g, r)
      BY <1>1, FramedRows DEF Follows
    <2> QED BY <2>1, <2>2
  <1>4. /\ \A g \in Regs : /\ Owing(g)' <=> Owing(g)
                           /\ Standing(g)' = Standing(g)
        /\ UNCHANGED <<binding, closed, timer_done_failed>>
    BY <1>1 DEF Leaves, Owing, Standing
  <1>5. RowsRegistered'
    BY <1>3, <1>4 DEF Agreement, RowsRegistered
  <1>6. ASSUME NEW g \in Regs, Standing(g)' = "RESERVED"
        PROVE  SendPending(g)'
    <2>1. executing.pc = "idle"
      BY <1>1 DEF Leaves, SessionFacts, Phased
    <2>2. PICK k \in Nat, r \in Rows : SendAt(k, g, r)
      BY <1>4, <1>6, <2>1 DEF Agreement, RegsHaveRows, Sending, SendPending
    <2>3. k # 0 /\ k # 1
      BY <1>4, <1>6, <2>2, TicketFacts DEF TicketsOwn
    <2>4. k - 1 \in Nat \ {0} /\ (k - 1) + 1 = k
      BY <2>3
    <2>5. SendAt(k - 1, g, r)'
      BY <1>1, <2>2, <2>4 DEF Follows
    <2> QED BY <2>4, <2>5 DEF SendPending
  <1>7. RegsHaveRows'
    <2>1. ASSUME binding' = "open", ~closed', NEW g \in Regs, Standing(g)' = "ACTIVE"
          PROVE  \E r \in Rows : Unfired(r)' /\ Names(g, r)'
      BY <1>3, <1>4, <2>1 DEF Agreement, RegsHaveRows
    <2> QED BY <1>6, <2>1 DEF RegsHaveRows
  <1> QED BY <1>2, <1>4, <1>5, <1>7 DEF Agreement

LEMMA SendSettlementAgrees ==
    ASSUME RouterFacts, RouterFacts', SessionFacts, SessionFacts', Agreement, settle_ticket,
           NEW r \in Rows, ticket_commit(0, r)
    PROVE  Agreement'
  <1>1. SendCommits(r) /\ Leaves
    BY SendCommitted, SettledLeaves DEF SessionFacts
  <1>2. /\ journal[0] \in Seq(Ticket) /\ journal[0] # <<>> /\ Len(effects) = Len(journal[0])
        /\ effects \in Seq(Effect)
    BY <1>1, ZeroJournal DEF Leaves, RouterFacts, RouterInv, JournalInv, SessionFacts,
                             SessionTypes, Aligned, Phased
  <1>3. 1 \in 1 .. Len(effects) /\ journal[0][1] = SendTicket(r)
    BY <1>1, <1>2 DEF SendCommits
  <1>4. \A q \in Rows : ~Window(q)
    <2>1. \A c : SendTicket(r) # CancelTicket(c)
      BY DEF SendTicket, CancelTicket
    <2>2. \A g, c : ~CancelAt(1, g, c)
      BY <1>3, <2>1 DEF CancelAt
    <2> QED BY <2>2 DEF Window
  <1>5. /\ timer' = timer /\ closed' = closed /\ registry_done
        /\ rows[r].state = "RESERVED"
        /\ \A q \in Rows \ {r} : rows'[q] = rows[q]
        /\ \/ closed /\ rows'[r] = FreeRow
           \/ /\ SameEvent(r) /\ rows'[r].fire_won_cancel = rows[r].fire_won_cancel
              /\ rows'[r].state = IF rows[r].delay # 0 THEN "DELAYED" ELSE "READY"
        /\ UNCHANGED cancel_rows
    BY <1>1 DEF Leaves, SendCommits
  <1>6. \A q \in Rows : /\ Unfired(q)' => Unfired(q)
                        /\ ~closed /\ Unfired(q) => Unfired(q)'
    <2>1. \A q \in Rows \ {r} : Unfired(q)' <=> Unfired(q)
      BY <1>5 DEF Unfired, CountsTimer, Reported
    <2>2. Unfired(r)' => Unfired(r)
      BY <1>5, FreeRowFacts DEF Unfired, CountsTimer, Reported, SameEvent
    <2>3. ~closed /\ Unfired(r) => Unfired(r)'
      BY <1>5 DEF Unfired, CountsTimer, Reported, SameEvent
    <2> QED BY <2>1, <2>2, <2>3
  <1>7. ASSUME rows[r].delay # 0
        PROVE  \E g \in Regs : SendAt(1, g, r) /\ Owing(g) /\ Names(g, r)
                               /\ Standing(g) # "RESERVED"
    <2>1. effects[1].kind = "delayed"
      BY <1>3, <1>7 DEF SessionFacts, Aligned
    <2>a. effects[1] \in Effect
      BY <1>2, <1>3
    <2>2. effects[1] = [kind |-> "delayed", reg |-> effects[1].reg] /\ effects[1].reg \in Regs
      BY <2>1, <2>a DEF Effect
    <2>3. SendAt(1, effects[1].reg, r)
      BY <1>3, <2>2 DEF SendAt
    <2> QED BY <1>5, <2>2, <2>3 DEF Agreement, SendsRegistered
  <1>8. \A g \in Regs, q \in Rows : Standing(g) = "RESERVED" => ~SendAt(1, g, q)
    BY <1>5 DEF Agreement, SendsRegistered
  <1>9. /\ OneRegPerId' /\ OneRowPerId' /\ SendInHand' /\ CancelInHand'
        /\ SendsRegistered' /\ CancelsRegistered' /\ CancelledForAReason' /\ CancelsAim'
        /\ RowsRegistered' /\ RegsHaveRows' /\ timer_done_failed' = 0
    BY <1>4, <1>6, <1>8, SettlementKeepsRest
  <1>10. ReservedTogether'
    <2> SUFFICES ASSUME NEW g \in Regs, NEW q \in Rows, Owing(g)', DelayedRow(q)',
                        Names(g, q)', Standing(g)' = "RESERVED"
                 PROVE  rows'[q].state = "RESERVED"
      BY DEF ReservedTogether
    <2>0. StepFrame /\ UNCHANGED delayed_sends
      BY <1>1, TicketFrame DEF SessionFacts, Leaves
    <2>1. DelayedRow(q) /\ Names(g, q)
      BY <2>0, FramedRows
    <2>2. Owing(g) /\ Standing(g) = "RESERVED"
      BY <2>0 DEF Owing, Standing
    <2>3. rows[q].state = "RESERVED"
      BY <2>1, <2>2 DEF Agreement, ReservedTogether
    <2>4. q # r
      <3> SUFFICES ASSUME q = r PROVE FALSE
        OBVIOUS
      <3>1. PICK h \in Regs : Owing(h) /\ Names(h, r) /\ Standing(h) # "RESERVED"
        BY <1>7, <2>1 DEF DelayedRow
      <3>2. h = g
        BY <2>1, <2>2, <3>1 DEF Agreement, OneRegPerId, Names
      <3> QED BY <2>2, <3>1, <3>2
    <2> QED BY <1>5, <2>3, <2>4
  <1>11. ReportsAcknowledged'
    <2>1. timer.pc = "reported" => timer.row \in Rows \ {r}
      BY <1>5 DEF RouterFacts, RouterInv, LaneInv, ClaimInv
    <2> QED BY <1>5, <2>1 DEF Agreement, ReportsAcknowledged, CancelRaced
  <1> QED BY <1>9, <1>10, <1>11 DEF Agreement
LEMMA CancelSettlementAgrees ==
    ASSUME RouterFacts, RouterFacts', SessionFacts, SessionFacts', Agreement, settle_ticket,
           NEW c \in CancelRows, cancel_commit(0, c)
    PROVE  Agreement'
  <1>1. CancelCommits(c) /\ Leaves
    BY CancelCommitted, SettledLeaves DEF SessionFacts
  <1>2. /\ journal[0] \in Seq(Ticket) /\ journal[0] # <<>> /\ Len(effects) = Len(journal[0])
        /\ effects \in Seq(Effect) /\ registry_done
    BY <1>1, ZeroJournal DEF Leaves, RouterFacts, RouterInv, JournalInv, SessionFacts,
                             SessionTypes, Aligned, Phased
  <1>3. 1 \in 1 .. Len(effects) /\ journal[0][1] = CancelTicket(c)
    BY <1>1, <1>2 DEF CancelCommits
  <1>4. PICK g0 \in Regs : CancelAt(1, g0, c)
    <2>1. journal[0][1].kind = "cancel"
      BY <1>3 DEF CancelTicket
    <2>2. effects[1].kind = "cancel" /\ effects[1] \in Effect
      BY <1>2, <1>3, <2>1 DEF SessionFacts, Aligned
    <2>3. effects[1] = [kind |-> "cancel", reg |-> effects[1].reg] /\ effects[1].reg \in Regs
      BY <2>2 DEF Effect
    <2> QED BY <1>3, <2>3 DEF CancelAt
  <1>5. ~Owing(g0)
    BY <1>2, <1>4 DEF Agreement, CancelsRegistered
  <1> DEFINE t == cancel_rows[c].target
  <1>6. /\ timer' = timer /\ t \in Rows
        /\ \A q \in Rows \ {t} : rows'[q] = rows[q]
        /\ \A q \in Rows : Aims(c, q) => q = t
        /\ IF Aims(c, t)
           THEN \/ rows[t].state = "DELAYED" /\ rows'[t] = FreeRow
                \/ /\ rows[t].state = "FIRING"
                   /\ rows'[t] = [rows[t] EXCEPT !.fire_won_cancel = TRUE]
                \/ rows[t].state \in {"READY", "INFLIGHT"} /\ rows'[t] = rows[t]
           ELSE rows'[t] = rows[t]
        /\ \A k \in CancelRows \ {c} : cancel_rows'[k] = cancel_rows[k]
    <2>1. t \in Rows
      BY DEF RouterFacts, RouterInv, IntentInv, CancelRow
    <2>2. Aims(c, t) <=> StillTargets(cancel_rows[c])
      BY DEF Aims, StillTargets
    <2> QED BY <1>1, <2>1, <2>2 DEF Leaves, CancelCommits, Aims
  <1> HIDE DEF t
  <1>a. rows[t] \in Row
    BY <1>6 DEF RouterFacts, RouterInv, LedgerInv
  <1>b. \A q \in Rows : \/ rows'[q] = rows[q] /\ (Aims(c, q) => ~CountsTimer(rows[q]))
                        \/ /\ Aims(c, q) /\ ~CountsTimer(rows'[q])
                           /\ rows[q].state = "DELAYED"
                        \/ /\ Aims(c, q) /\ rows'[q].fire_won_cancel
                           /\ rows'[q].identity = rows[q].identity
                           /\ rows[q].state = "FIRING" /\ rows'[q].state = "FIRING"
    <2>1. CASE ~Aims(c, t)
      BY <1>6, <2>1
    <2>2. CASE Aims(c, t) /\ rows[t].state = "DELAYED" /\ rows'[t] = FreeRow
      BY <1>6, <2>2, FreeRowFacts DEF CountsTimer
    <2>3. CASE /\ Aims(c, t) /\ rows[t].state = "FIRING"
               /\ rows'[t] = [rows[t] EXCEPT !.fire_won_cancel = TRUE]
      <3>1. /\ rows'[t].fire_won_cancel /\ rows'[t].identity = rows[t].identity
            /\ rows'[t].state = "FIRING"
        BY <1>a, <2>3 DEF Row
      <3> QED BY <1>6, <2>3, <3>1
    <2>4. CASE Aims(c, t) /\ rows[t].state \in {"READY", "INFLIGHT"} /\ rows'[t] = rows[t]
      BY <1>6, <2>4 DEF CountsTimer
    <2> QED BY <1>6, <2>1, <2>2, <2>3, <2>4
  <1>7. \A q \in Rows : /\ Unfired(q)' => Unfired(q) /\ ~Aims(c, q)
                        /\ Unfired(q) /\ ~Aims(c, q) => Unfired(q)'
    BY <1>6, <1>b DEF Unfired, Reported, CountsTimer
  <1>8. \A q \in Rows : Window(q) => Aims(c, q)
    <2>1. \A g, d : CancelAt(1, g, d) => d = c
      BY <1>4, TicketFacts DEF TicketsOwn
    <2> QED BY <2>1 DEF Window
  <1>9. \A g \in Regs, q \in Rows : ~SendAt(1, g, q)
    BY <1>4, TicketFacts DEF TicketsOwn
  <1>10. ASSUME NEW g \in Regs, NEW q \in Rows, Standing(g) = "ACTIVE", Unfired(q),
                Names(g, q)
         PROVE  Unfired(q)'
    <2>1. Owing(g)
      BY <1>10 DEF Owing, Standing
    <2>2. ~Aims(c, q)
      BY <1>4, <1>5, <1>10, <2>1 DEF Agreement, CancelsAim
    <2> QED BY <1>7, <1>10, <2>2
  <1>11. /\ OneRegPerId' /\ OneRowPerId' /\ SendInHand' /\ CancelInHand'
         /\ SendsRegistered' /\ CancelsRegistered' /\ CancelledForAReason' /\ CancelsAim'
         /\ RowsRegistered' /\ RegsHaveRows' /\ timer_done_failed' = 0
    BY <1>7, <1>8, <1>9, <1>10, SettlementKeepsRest
  <1>12. ReservedTogether'
    <2>1. StepFrame /\ UNCHANGED delayed_sends
      BY <1>1, TicketFrame DEF SessionFacts, Leaves
    <2>2. \A q \in Rows : DelayedRow(q)' => DelayedRow(q)
                                            /\ \A g \in Regs : Names(g, q)' <=> Names(g, q)
      BY <2>1, FramedRows
    <2>3. \A g \in Regs : /\ Owing(g)' <=> Owing(g)
                          /\ Standing(g)' = Standing(g)
      BY <2>1 DEF Owing, Standing
    <2>4. \A q \in Rows : rows[q].state = "RESERVED" => rows'[q].state = "RESERVED"
      BY <1>b
    <2> QED BY <2>2, <2>3, <2>4 DEF Agreement, ReservedTogether
  <1>13. ReportsAcknowledged'
    <2> SUFFICES ASSUME timer.pc = "reported", ~timer.settled
                 PROVE  CancelRaced(timer.row)'
      BY <1>6 DEF ReportsAcknowledged, CancelRaced
    <2>1. PICK q \in Rows : q = timer.row /\ rows[q].state = "FIRING" /\ CancelRaced(q)
      BY DEF RouterFacts, RouterInv, LaneInv, ClaimInv, Agreement, ReportsAcknowledged
    <2>2. timer'.row = q
      BY <1>6, <2>1
    <2>3. \/ rows'[q] = rows[q] /\ ~Aims(c, q)
          \/ rows'[q].fire_won_cancel
      <3>1. rows[q].delay # 0
        BY <2>1 DEF RouterFacts, RouterInv, LedgerInv
      <3> QED BY <1>b, <2>1, <3>1 DEF CountsTimer
    <2>4. CASE rows'[q].fire_won_cancel
      BY <2>2, <2>4 DEF CancelRaced
    <2>5. CASE rows'[q] = rows[q] /\ ~Aims(c, q)
      <3>1. \A d \in CancelRows : cancel_rows[d].in_use /\ Aims(d, q) =>
               d # c /\ cancel_rows'[d] = cancel_rows[d]
        BY <1>6, <2>5
      <3> QED BY <2>1, <2>2, <2>5, <3>1 DEF CancelRaced, Aims
    <2> QED BY <2>3, <2>4, <2>5
  <1> QED BY <1>11, <1>12, <1>13 DEF Agreement

LEMMA SettlementAgrees ==
    ASSUME RouterFacts, RouterFacts', SessionFacts, SessionFacts', Agreement, settle_ticket,
           ~failed
    PROVE  Agreement'
  <1>1. phase[0] # "discard"
    BY DEF SessionFacts, Phased
  <1>2. \/ \E r \in Rows : ticket_commit(0, r)
        \/ \E c \in CancelRows : cancel_commit(0, c)
    BY <1>1 DEF settle_ticket, ticket_discard, cancel_discard, NextTicket
  <1> QED BY <1>2, SendSettlementAgrees, CancelSettlementAgrees
-----------------------------------------------------------------------------
(* Steps of the Session that leave the router alone. *)

Still == UNCHANGED <<rows, timer, cancel_rows, closed, timer_done_failed, journal, effects>>

LEMMA StillLedger ==
    ASSUME Still
    PROVE  /\ \A k, g, i : /\ SendAt(k, g, i)' <=> SendAt(k, g, i)
                           /\ CancelAt(k, g, i)' <=> CancelAt(k, g, i)
           /\ \A r : /\ DelayedRow(r)' <=> DelayedRow(r)
                     /\ Unfired(r)' <=> Unfired(r)
           /\ \A c, r : Aims(c, r)' <=> Aims(c, r)
           /\ \A g : /\ SendPending(g)' <=> SendPending(g)
                     /\ CancelPending(g)' <=> CancelPending(g)
           /\ ReportsAcknowledged' <=> ReportsAcknowledged
  <1>1. \A k, g, i : /\ SendAt(k, g, i)' <=> SendAt(k, g, i)
                     /\ CancelAt(k, g, i)' <=> CancelAt(k, g, i)
    BY DEF Still, SendAt, CancelAt
  <1>2. \A r : /\ DelayedRow(r)' <=> DelayedRow(r)
               /\ Unfired(r)' <=> Unfired(r)
    BY DEF Still, DelayedRow, Unfired, Reported
  <1>3. \A c, r : Aims(c, r)' <=> Aims(c, r)
    BY DEF Still, Aims
  <1>4. \A g : /\ SendPending(g)' <=> SendPending(g)
               /\ CancelPending(g)' <=> CancelPending(g)
    BY <1>1 DEF SendPending, CancelPending
  <1>5. ReportsAcknowledged' <=> ReportsAcknowledged
    BY DEF Still, ReportsAcknowledged, CancelRaced
  <1> QED BY <1>1, <1>2, <1>3, <1>4, <1>5

\* The conjuncts that do not look at the registry.
LEMMA StillKeepsRows ==
    ASSUME Agreement, Still
    PROVE  OneRowPerId' /\ ReportsAcknowledged' /\ timer_done_failed' = 0
  BY StillLedger DEF Agreement, OneRowPerId, Still, DelayedRow

\* An element or the microstep goes one step on, and the registry stays.
LEMMA QuietAgrees ==
    ASSUME Agreement, Still, UNCHANGED delayed_sends,
           \A g \in Regs : Sending(g)' <=> Sending(g),
           \A g \in Regs : Cancelling(g)' <=> Cancelling(g),
           \A g \in Regs : Sending(g) \/ Cancelling(g) => executing'.id = executing.id,
           phase'[0] = phase[0] \/ phase'[0] = "commit",
           \/ UNCHANGED registry_done
           \/ ~registry_done /\ \A g, i : ~SendAt(1, g, i) /\ ~CancelAt(1, g, i),
           binding' = "open" => binding = "open"
    PROVE  Agreement'
  <1>1. /\ \A k, g, i : /\ SendAt(k, g, i)' <=> SendAt(k, g, i)
                        /\ CancelAt(k, g, i)' <=> CancelAt(k, g, i)
        /\ \A r : /\ DelayedRow(r)' <=> DelayedRow(r)
                  /\ Unfired(r)' <=> Unfired(r)
        /\ \A c, r : Aims(c, r)' <=> Aims(c, r)
        /\ \A g : /\ SendPending(g)' <=> SendPending(g)
                  /\ CancelPending(g)' <=> CancelPending(g)
    BY StillLedger
  <1>2. /\ \A g : /\ Owing(g)' <=> Owing(g)
                  /\ Standing(g)' = Standing(g)
                  /\ delayed_sends'[g] = delayed_sends[g]
        /\ \A g, r : Names(g, r)' <=> Names(g, r)
        /\ UNCHANGED <<rows, closed>>
    BY DEF Still, Owing, Standing, Names
  <1>3. OneRegPerId' /\ ReservedTogether'
    BY <1>1, <1>2 DEF Agreement, OneRegPerId, ReservedTogether
  <1>4. SendInHand' /\ CancelInHand'
    BY <1>1, <1>2 DEF Agreement, SendInHand, CancelInHand
  <1>5. SendsRegistered'
    BY <1>1, <1>2 DEF Agreement, SendsRegistered
  <1>6. CancelsRegistered'
    BY <1>1, <1>2 DEF Agreement, CancelsRegistered
  <1>7. CancelledForAReason'
    BY <1>1, <1>2 DEF Agreement, CancelledForAReason
  <1>8. CancelsAim'
    BY <1>1, <1>2 DEF Agreement, CancelsAim
  <1>9. RowsRegistered'
    <2>1. \A r \in Rows : Window(r) => Window(r)'
      BY <1>1 DEF Window
    <2> QED BY <1>1, <1>2, <2>1 DEF Agreement, RowsRegistered
  <1>10. RegsHaveRows'
    BY <1>1, <1>2 DEF Agreement, RegsHaveRows
  <1> QED BY <1>3, <1>4, <1>5, <1>6, <1>7, <1>8, <1>9, <1>10, StillKeepsRows DEF Agreement
\* One row of the registry changes.
LEMMA OtherRegs ==
    ASSUME NEW g \in Regs, UNCHANGED rows,
           \A h \in Regs \ {g} : delayed_sends'[h] = delayed_sends[h]
    PROVE  /\ \A h \in Regs \ {g} : /\ Owing(h)' <=> Owing(h)
                                    /\ Standing(h)' = Standing(h)
           /\ \A h \in Regs \ {g}, r \in Rows : Names(h, r)' <=> Names(h, r)
           /\ \A r : rows'[r] = rows[r]
  BY DEF Owing, Standing, Names

\* An element that failed gives its registry row back, and no ticket and no
\* row of the router is left of it.
LEMMA ReleaseAgrees ==
    ASSUME Agreement, Still, NEW g \in Regs, ~Owing(g)',
           delayed_sends'[g].state # "CANCEL_RESERVED", Standing(g)' = "FREE",
           \A h \in Regs \ {g} : delayed_sends'[h] = delayed_sends[h],
           ~CancelPending(g), ~SendPending(g),
           \A r \in Rows : Unfired(r) => ~Names(g, r),
           \A h \in Regs : Sending(h) \/ Cancelling(h) => h = g,
           executing'.pc = "idle", UNCHANGED <<registry_done, phase, binding>>
    PROVE  Agreement'
  <1>1. /\ \A k, h, i : /\ SendAt(k, h, i)' <=> SendAt(k, h, i)
                        /\ CancelAt(k, h, i)' <=> CancelAt(k, h, i)
        /\ \A r : /\ DelayedRow(r)' <=> DelayedRow(r)
                  /\ Unfired(r)' <=> Unfired(r)
        /\ \A c, r : Aims(c, r)' <=> Aims(c, r)
        /\ \A h : /\ SendPending(h)' <=> SendPending(h)
                  /\ CancelPending(h)' <=> CancelPending(h)
    BY StillLedger
  <1>2. /\ \A h \in Regs \ {g} : /\ Owing(h)' <=> Owing(h)
                                 /\ Standing(h)' = Standing(h)
                                 /\ delayed_sends'[h] = delayed_sends[h]
        /\ \A h \in Regs \ {g}, r \in Rows : Names(h, r)' <=> Names(h, r)
        /\ UNCHANGED <<rows, closed>>
    BY OtherRegs DEF Still
  <1>3. \A k \in Nat : /\ \A r \in Rows : ~SendAt(k, g, r)
                       /\ \A c \in CancelRows : ~CancelAt(k, g, c)
    BY DEF SendPending, CancelPending
  <1>4. \A h : ~Sending(h)' /\ ~Cancelling(h)'
    BY DEF Sending, Cancelling
  <1>5. OneRegPerId' /\ ReservedTogether'
    BY <1>1, <1>2 DEF Agreement, OneRegPerId, ReservedTogether
  <1>6. SendInHand' /\ CancelInHand'
    BY <1>4 DEF SendInHand, CancelInHand
  <1>7. SendsRegistered'
    BY <1>1, <1>2, <1>3 DEF Agreement, SendsRegistered
  <1>8. CancelsRegistered'
    BY <1>1, <1>2, <1>3 DEF Agreement, CancelsRegistered
  <1>9. CancelledForAReason'
    BY <1>1, <1>2 DEF Agreement, CancelledForAReason
  <1>10. CancelsAim'
    BY <1>1, <1>2, <1>3 DEF Agreement, CancelsAim
  <1>11. RowsRegistered'
    <2>1. \A r \in Rows : Window(r) => Window(r)'
      BY <1>1 DEF Window
    <2> QED BY <1>1, <1>2, <2>1 DEF Agreement, RowsRegistered
  <1>12. RegsHaveRows'
    BY <1>1, <1>2 DEF Agreement, RegsHaveRows
  <1> QED BY <1>5, <1>6, <1>7, <1>8, <1>9, <1>10, <1>11, <1>12, StillKeepsRows DEF Agreement

\* A row of the router that is RESERVED or DELAYED has not fired.
LEMMA WaitingIsUnfired ==
    ASSUME RouterFacts, SessionFacts, NEW r \in Rows, DelayedRow(r),
           rows[r].state \in {"RESERVED", "DELAYED"}
    PROVE  Unfired(r)
  BY DEF RouterFacts, RouterInv, ClaimInv, SessionFacts, Origin, Unfired, DelayedRow,
         CountsTimer, Reported

LEMMA RollbackAgrees ==
    ASSUME RouterFacts, SessionFacts, Agreement, rollback_prepared_effect
    PROVE  Agreement'
  <1>g. PICK g \in Regs : g = executing.reg
    BY DEF SessionFacts, SessionTypes
  <1>0. /\ delayed_sends \in [Regs -> RegRow] /\ g \in Regs
        /\ executing.pc = "rollback" /\ phase[0] = "open" /\ ~registry_done
        /\ executing.kind \in {"send", "delayed", "cancel"}
    BY DEF SessionFacts, SessionTypes, RegRow, Phased, rollback_prepared_effect
  <1>1. /\ Still /\ UNCHANGED <<registry_done, phase, binding>> /\ executing' = Idle
    BY DEF rollback_prepared_effect, Still, vars, ledger, lanes, intents, life, outcomes,
           journals
  <1>2. /\ delayed_sends'[g] = RolledBack(delayed_sends[g], executing.kind)
        /\ \A h \in Regs \ {g} : delayed_sends'[h] = delayed_sends[h]
        /\ DOMAIN delayed_sends' = Regs
    BY <1>g, <1>0 DEF rollback_prepared_effect
  <1>3. /\ executing'.pc = "idle"
        /\ \A h : ~Sending(h)' /\ ~Cancelling(h)'
        /\ \A h \in Regs : /\ Sending(h) <=> executing.kind = "delayed" /\ h = g
                           /\ Cancelling(h) <=> executing.kind = "cancel" /\ h = g
    BY <1>g, <1>0, <1>1 DEF Sending, Cancelling, Idle
  <1>4. delayed_sends[g] \in RegRow
    BY <1>0
  <1>a. ASSUME delayed_sends'[g] = FreeReg
        PROVE  ~Owing(g)' /\ delayed_sends'[g].state # "CANCEL_RESERVED" /\ Standing(g)' = "FREE"
    BY <1>a DEF Owing, Standing, FreeReg
  <1>5. CASE executing.kind = "send"
    <2>1. UNCHANGED delayed_sends
      <3>1. \A h \in Regs : delayed_sends'[h] = delayed_sends[h]
        BY <1>2, <1>5 DEF RolledBack
      <3> QED BY <1>0, <1>2, <3>1 DEF rollback_prepared_effect
    <2> QED BY <1>1, <1>3, <1>5, <2>1, QuietAgrees
  <1>6. CASE executing.kind = "delayed"
    <2>1. /\ Sending(g) /\ delayed_sends[g].state = "RESERVED"
          /\ delayed_sends[g].id = executing.id
          /\ \A r \in Rows : DelayedRow(r) => rows[r].send_id # executing.id
          /\ ~CancelPending(g) /\ ~SendPending(g)
      BY <1>0, <1>3, <1>6 DEF Agreement, SendInHand
    <2>2. delayed_sends'[g] = FreeReg
      BY <1>2, <1>6, <2>1 DEF RolledBack
    <2>3. \A r \in Rows : Unfired(r) => ~Names(g, r)
      BY <2>1, UnfiredDelayed DEF Names
    <2>4. \A h \in Regs : Sending(h) \/ Cancelling(h) => h = g
      BY <1>3
    <2> QED BY <1>0, <1>1, <1>2, <1>3, <1>a, <2>1, <2>2, <2>3, <2>4, ReleaseAgrees
  <1>7. CASE executing.kind = "cancel"
    <2>1. /\ Cancelling(g) /\ delayed_sends[g].state = "CANCEL_RESERVED"
          /\ CancelPending(g) => delayed_sends[g].previous_state = "CANCEL_RESERVED"
          /\ delayed_sends[g].previous_state = "FREE" =>
                \A r \in Rows : Unfired(r) => ~Names(g, r)
      BY <1>0, <1>3, <1>7 DEF Agreement, CancelInHand
    <2>2. CASE delayed_sends[g].previous_state = "FREE"
      <3>1. delayed_sends'[g] = FreeReg
        BY <1>2, <1>7, <2>1, <2>2 DEF RolledBack
      <3>2. ~SendPending(g)
        <4> SUFFICES ASSUME NEW k \in Nat, NEW r \in Rows, SendAt(k, g, r) PROVE FALSE
          BY DEF SendPending
        <4>1. DelayedRow(r) /\ rows[r].state = "RESERVED" /\ Names(g, r)
          BY <1>0, TicketFacts DEF TicketsOwn, Agreement, SendsRegistered
        <4>2. Unfired(r)
          BY <4>1, WaitingIsUnfired
        <4> QED BY <2>1, <2>2, <4>1, <4>2
      <3>3. \A h \in Regs : Sending(h) \/ Cancelling(h) => h = g
        BY <1>3
      <3> QED BY <1>0, <1>1, <1>2, <1>3, <1>a, <2>1, <2>2, <3>1, <3>2, <3>3, ReleaseAgrees
    <2>3. CASE delayed_sends[g].previous_state # "FREE"
      <3>1. /\ delayed_sends'[g].state = delayed_sends[g].previous_state
            /\ delayed_sends'[g].previous_state = "FREE"
            /\ delayed_sends'[g].id = delayed_sends[g].id
        <4>1. delayed_sends'[g] = [delayed_sends[g] EXCEPT
                 !.state = delayed_sends[g].previous_state, !.previous_state = "FREE"]
          BY <1>2, <1>7, <2>1, <2>3 DEF RolledBack
        <4> QED BY <1>4, <4>1 DEF RegRow
      <3>2. /\ \A k, h, i : /\ SendAt(k, h, i)' <=> SendAt(k, h, i)
                            /\ CancelAt(k, h, i)' <=> CancelAt(k, h, i)
            /\ \A r : /\ DelayedRow(r)' <=> DelayedRow(r)
                      /\ Unfired(r)' <=> Unfired(r)
            /\ \A c, r : Aims(c, r)' <=> Aims(c, r)
            /\ \A h : /\ SendPending(h)' <=> SendPending(h)
                      /\ CancelPending(h)' <=> CancelPending(h)
        BY <1>1, StillLedger
      <3>3. /\ \A h \in Regs : /\ Owing(h)' <=> Owing(h)
                               /\ delayed_sends'[h].id = delayed_sends[h].id
                               /\ Standing(h)' = "RESERVED" => Standing(h) = "RESERVED"
                               /\ Standing(h)' = "ACTIVE" => Standing(h) = "ACTIVE"
            /\ \A h \in Regs, r \in Rows : Names(h, r)' <=> Names(h, r)
            /\ UNCHANGED <<rows, closed>>
        BY <1>1, <1>2, <2>1, <2>3, <3>1 DEF Still, Owing, Standing, Names
      <3>4. OneRegPerId' /\ ReservedTogether'
        BY <3>2, <3>3 DEF Agreement, OneRegPerId, ReservedTogether
      <3>5. SendInHand' /\ CancelInHand'
        BY <1>3 DEF SendInHand, CancelInHand
      <3>6. SendsRegistered'
        BY <1>0, <1>1, <3>2, <3>3 DEF Agreement, SendsRegistered
      <3>7. CancelsRegistered'
        <4>1. \A k \in Nat, c \in CancelRows : CancelAt(k, g, c) =>
                 delayed_sends'[g].state = "CANCEL_RESERVED"
          BY <2>1, <3>1 DEF CancelPending
        <4>2. \A k \in Nat, h \in Regs, c \in CancelRows : CancelAt(k, h, c) =>
                 delayed_sends'[h].state = "CANCEL_RESERVED"
          BY <1>0, <1>2, <4>1 DEF Agreement, CancelsRegistered
        <4> QED BY <1>0, <1>1, <3>2, <4>2 DEF CancelsRegistered
      <3>8. CancelledForAReason'
        <4>1. delayed_sends'[g].state = "CANCEL_RESERVED" => CancelPending(g)
          BY <1>0, <2>1, <3>1 DEF Agreement, CancelledForAReason
        <4>2. \A h \in Regs \ {g} : delayed_sends'[h].state = "CANCEL_RESERVED" =>
                 CancelPending(h)
          BY <1>2, <1>3 DEF Agreement, CancelledForAReason
        <4> QED BY <3>2, <4>1, <4>2 DEF CancelledForAReason
      <3>9. CancelsAim'
        BY <3>2, <3>3 DEF Agreement, CancelsAim
      <3>10. RowsRegistered'
        <4>1. \A r \in Rows : ~Window(r)
          BY <1>0 DEF Window
        <4> QED BY <3>2, <3>3, <4>1 DEF Agreement, RowsRegistered
      <3>11. RegsHaveRows'
        <4>1. \A h \in Regs : ~Sending(h)
          BY <1>3, <1>7
        <4> QED BY <1>1, <3>2, <3>3, <4>1 DEF Agreement, RegsHaveRows
      <3> QED BY <1>1, <3>4, <3>5, <3>6, <3>7, <3>8, <3>9, <3>10, <3>11, StillKeepsRows
              DEF Agreement
    <2> QED BY <2>2, <2>3
  <1> QED BY <1>0, <1>5, <1>6, <1>7
\* While the microstep is open, every ticket of a cancel has its mark on the
\* registry row, and no cancel is between its two halves.
LEMMA OpenTickets ==
    ASSUME SessionFacts, Agreement, phase[0] = "open"
    PROVE  /\ ~registry_done /\ \A r \in Rows : ~Window(r)
           /\ \A k \in Nat, g \in Regs, c \in CancelRows :
                 CancelAt(k, g, c) => delayed_sends[g].state = "CANCEL_RESERVED"
           /\ \A g \in Regs : CancelPending(g) => delayed_sends[g].state = "CANCEL_RESERVED"
           /\ \A g \in Regs : SendPending(g) => Owing(g)
  BY DEF SessionFacts, Phased, Window, Agreement, CancelsRegistered, SendsRegistered,
         CancelPending, SendPending

\* The id of a new delayed send is unknown to the router.
LEMMA NewIdIsNew ==
    ASSUME RouterFacts, SessionFacts, Agreement, phase[0] = "open", NEW id,
           ~FiredEarlier(id), find_delayed_send(id) = {}
    PROVE  /\ \A r \in Rows : DelayedRow(r) => rows[r].send_id # id
           /\ \A g \in Regs : Owing(g) => delayed_sends[g].id # id
  <1>1. \A g \in Regs : Owing(g) => delayed_sends[g].id # id
    BY DEF find_delayed_send, same_send_id, Owing
  <1>2. ASSUME NEW r \in Rows, DelayedRow(r), rows[r].send_id = id
        PROVE  FALSE
    <2>1. rows[r].state \in {"RESERVED", "DELAYED"}
      BY <1>2 DEF FiredEarlier, DelayedRow, RouterFacts, RouterInv, LedgerInv, Row, RowStates
    <2>2. Unfired(r)
      BY <1>2, <2>1, WaitingIsUnfired
    <2>3. PICK g \in Regs : Owing(g) /\ Names(g, r)
      BY <2>2, OpenTickets DEF Agreement, RowsRegistered
    <2> QED BY <1>1, <1>2, <2>3 DEF Names
  <1> QED BY <1>1, <1>2

LEMMA SendStartAgrees ==
    ASSUME RouterFacts, SessionFacts, Agreement, ~ids_recur,
           NEW delay, NEW id, execute_send(delay, id)
    PROVE  Agreement'
  <1>0. /\ Still /\ UNCHANGED <<registry_done, phase, binding>>
        /\ executing.pc = "idle" /\ phase[0] = "open" /\ ~FiredEarlier(id)
        /\ delayed_sends \in [Regs -> RegRow]
    BY DEF execute_send, Running, Still, vars, ledger, lanes, intents, life, outcomes,
           journals, SessionFacts, SessionTypes, RegRow
  <1>1. \A h : ~Sending(h) /\ ~Cancelling(h)
    BY <1>0 DEF Sending, Cancelling
  <1>2. CASE delay = 0
    <2>1. executing'.kind = "send" /\ UNCHANGED delayed_sends
      BY <1>2 DEF execute_send, Idle
    <2>2. \A h : ~Sending(h)' /\ ~Cancelling(h)'
      BY <2>1 DEF Sending, Cancelling
    <2> QED BY <1>0, <1>1, <2>1, <2>2, QuietAgrees
  <1>3. CASE delay # 0
    <2>1. PICK g \in Regs :
             /\ delayed_sends[g].state = "FREE"
             /\ delayed_sends' = [delayed_sends EXCEPT
                    ![g] = [FreeReg EXCEPT !.state = "RESERVED", !.id = id]]
             /\ executing' = [pc |-> "adapter", kind |-> "delayed",
                              id |-> id, delay |-> delay, reg |-> g]
             /\ find_delayed_send(id) = {}
      BY <1>3 DEF execute_send, IsFirst, FreeRegs
    <2>2. /\ delayed_sends'[g].state = "RESERVED" /\ delayed_sends'[g].id = id
          /\ \A h \in Regs \ {g} : delayed_sends'[h] = delayed_sends[h]
      BY <1>0, <2>1 DEF FreeReg
    <2>3. /\ \A h \in Regs : Sending(h)' <=> h = g
          /\ \A h : ~Cancelling(h)'
          /\ executing'.id = id
      BY <2>1 DEF Sending, Cancelling
    <2>4. /\ \A r \in Rows : DelayedRow(r) => rows[r].send_id # id
          /\ \A h \in Regs : Owing(h) => delayed_sends[h].id # id
      BY <1>0, <2>1, NewIdIsNew
    <2>5. /\ \A k, h, i : /\ SendAt(k, h, i)' <=> SendAt(k, h, i)
                          /\ CancelAt(k, h, i)' <=> CancelAt(k, h, i)
          /\ \A r : /\ DelayedRow(r)' <=> DelayedRow(r)
                    /\ Unfired(r)' <=> Unfired(r)
          /\ \A c, r : Aims(c, r)' <=> Aims(c, r)
          /\ \A h : /\ SendPending(h)' <=> SendPending(h)
                    /\ CancelPending(h)' <=> CancelPending(h)
      BY <1>0, StillLedger
    <2>6. /\ \A h \in Regs \ {g} : /\ Owing(h)' <=> Owing(h)
                                   /\ Standing(h)' = Standing(h)
          /\ \A h \in Regs \ {g}, r \in Rows : Names(h, r)' <=> Names(h, r)
          /\ UNCHANGED <<rows, closed>>
      BY <1>0, <2>2, OtherRegs DEF Still
    <2>7. /\ ~Owing(g) /\ Owing(g)' /\ Standing(g)' = "RESERVED"
          /\ \A r \in Rows : DelayedRow(r) => ~Names(g, r)'
      BY <2>1, <2>2, <2>4, <2>6 DEF Owing, Standing, Names
    <2>8. ~SendPending(g) /\ ~CancelPending(g) /\ ~registry_done /\ \A r \in Rows : ~Window(r)
      BY <1>0, <2>1, <2>7, OpenTickets
    <2>9. \A k \in Nat : /\ \A r \in Rows : ~SendAt(k, g, r)
                         /\ \A c \in CancelRows : ~CancelAt(k, g, c)
      BY <2>8 DEF SendPending, CancelPending
    <2>10. OneRegPerId'
      <3>1. \A h \in Regs \ {g} : Owing(h)' => delayed_sends'[h].id # id
        BY <2>2, <2>4, <2>6
      <3> QED BY <2>2, <2>6, <3>1 DEF Agreement, OneRegPerId
    <2>11. ReservedTogether'
      BY <2>5, <2>6, <2>7 DEF Agreement, ReservedTogether
    <2>12. SendInHand'
      BY <2>2, <2>3, <2>4, <2>5, <2>6, <2>8 DEF SendInHand
    <2>13. CancelInHand'
      BY <2>3 DEF CancelInHand
    <2>14. SendsRegistered'
      BY <1>0, <2>5, <2>6, <2>9 DEF Agreement, SendsRegistered
    <2>15. CancelsRegistered'
      BY <1>0, <2>2, <2>5, <2>6, <2>9 DEF Agreement, CancelsRegistered
    <2>16. CancelledForAReason'
      BY <1>1, <2>2, <2>5 DEF Agreement, CancelledForAReason
    <2>17. CancelsAim'
      <3> SUFFICES ASSUME NEW k \in Nat, NEW h \in Regs, NEW c \in CancelRows, NEW r \in Rows,
                          CancelAt(k, h, c)'
                   PROVE  /\ Owing(h)' /\ DelayedRow(r)' /\ Names(h, r)' => Aims(c, r)'
                          /\ Aims(c, r)' =>
                                /\ DelayedRow(r)'
                                /\ \A e \in Regs : Owing(e)' /\ Names(e, r)' => e = h
        BY DEF CancelsAim
      <3>1. CancelAt(k, h, c) /\ h # g
        BY <2>5, <2>9
      <3>2. /\ Owing(h) /\ DelayedRow(r) /\ Names(h, r) => Aims(c, r)
            /\ Aims(c, r) => /\ DelayedRow(r)
                             /\ \A e \in Regs : Owing(e) /\ Names(e, r) => e = h
        BY <3>1 DEF Agreement, CancelsAim
      <3> QED BY <2>5, <2>6, <2>7, <3>1, <3>2
    <2>18. RowsRegistered'
      BY <2>5, <2>6, <2>7, <2>8 DEF Agreement, RowsRegistered
    <2>19. RegsHaveRows'
      <3>1. \A h \in Regs : Standing(h)' = "RESERVED" => Sending(h)' \/ SendPending(h)'
        BY <1>1, <2>3, <2>5, <2>6 DEF Agreement, RegsHaveRows
      <3>2. ASSUME binding' = "open", ~closed', NEW h \in Regs, Standing(h)' = "ACTIVE"
            PROVE  \E r \in Rows : Unfired(r)' /\ Names(h, r)'
        BY <1>0, <2>5, <2>6, <2>7, <3>2 DEF Agreement, RegsHaveRows
      <3> QED BY <3>1, <3>2 DEF RegsHaveRows
    <2> QED BY <1>0, <2>10, <2>11, <2>12, <2>13, <2>14, <2>15, <2>16, <2>17, <2>18, <2>19,
               StillKeepsRows DEF Agreement
  <1> QED BY <1>2, <1>3

LEMMA CancelStartAgrees ==
    ASSUME RouterFacts, SessionFacts, Agreement, NEW id, execute_cancel(id)
    PROVE  Agreement'
  <1>0. /\ Still /\ UNCHANGED <<registry_done, phase, binding>>
        /\ executing.pc = "idle" /\ phase[0] = "open"
        /\ delayed_sends \in [Regs -> RegRow]
    BY DEF execute_cancel, Running, Still, vars, ledger, lanes, intents, life, outcomes,
           journals, SessionFacts, SessionTypes, RegRow
  <1>1. \A h : ~Sending(h) /\ ~Cancelling(h)
    BY <1>0 DEF Sending, Cancelling
  <1>2. PICK g \in Regs :
           /\ Owing(g) /\ delayed_sends[g].id = id
           /\ delayed_sends' = [delayed_sends EXCEPT
                ![g].previous_state = delayed_sends[g].state,
                ![g].state = "CANCEL_RESERVED"]
           /\ executing' = [pc |-> "adapter", kind |-> "cancel", id |-> id,
                            delay |-> 0, reg |-> g]
    BY DEF execute_cancel, IsFirst, find_delayed_send, same_send_id, Owing
  <1>3. /\ delayed_sends'[g].state = "CANCEL_RESERVED" /\ delayed_sends'[g].id = id
        /\ delayed_sends'[g].previous_state = delayed_sends[g].state
        /\ \A h \in Regs \ {g} : delayed_sends'[h] = delayed_sends[h]
    <2>1. delayed_sends[g] \in RegRow
      BY <1>0
    <2> QED BY <1>0, <1>2, <2>1 DEF RegRow
  <1>4. /\ \A h \in Regs : Cancelling(h)' <=> h = g
        /\ \A h : ~Sending(h)'
        /\ executing'.id = id
    BY <1>2 DEF Sending, Cancelling
  <1>5. /\ \A k, h, i : /\ SendAt(k, h, i)' <=> SendAt(k, h, i)
                        /\ CancelAt(k, h, i)' <=> CancelAt(k, h, i)
        /\ \A r : /\ DelayedRow(r)' <=> DelayedRow(r)
                  /\ Unfired(r)' <=> Unfired(r)
        /\ \A c, r : Aims(c, r)' <=> Aims(c, r)
        /\ \A h : /\ SendPending(h)' <=> SendPending(h)
                  /\ CancelPending(h)' <=> CancelPending(h)
    BY <1>0, StillLedger
  <1>6. /\ \A h \in Regs : /\ Owing(h)' <=> Owing(h)
                           /\ delayed_sends'[h].id = delayed_sends[h].id
                           /\ Standing(h)' = "RESERVED" => Standing(h) = "RESERVED"
                           /\ Standing(h)' = "ACTIVE" => Standing(h) = "ACTIVE"
        /\ \A h \in Regs, r \in Rows : Names(h, r)' <=> Names(h, r)
        /\ UNCHANGED <<rows, closed>>
    BY <1>0, <1>2, <1>3 DEF Still, Owing, Standing, Names
  <1>7. /\ ~registry_done /\ \A r \in Rows : ~Window(r)
        /\ \A k \in Nat, h \in Regs, c \in CancelRows :
              CancelAt(k, h, c) => delayed_sends[h].state = "CANCEL_RESERVED"
        /\ \A h \in Regs : CancelPending(h) => delayed_sends[h].state = "CANCEL_RESERVED"
    BY <1>0, OpenTickets
  <1>8. OneRegPerId' /\ ReservedTogether'
    BY <1>5, <1>6 DEF Agreement, OneRegPerId, ReservedTogether
  <1>9. SendInHand'
    BY <1>4 DEF SendInHand
  <1>10. CancelInHand'
    BY <1>2, <1>3, <1>4, <1>5, <1>7 DEF CancelInHand, Owing
  <1>11. SendsRegistered'
    BY <1>0, <1>5, <1>6, <1>7 DEF Agreement, SendsRegistered
  <1>12. CancelsRegistered'
    BY <1>0, <1>3, <1>5, <1>7 DEF CancelsRegistered
  <1>13. CancelledForAReason'
    BY <1>1, <1>3, <1>4, <1>5 DEF Agreement, CancelledForAReason
  <1>14. CancelsAim'
    BY <1>5, <1>6 DEF Agreement, CancelsAim
  <1>15. RowsRegistered'
    BY <1>5, <1>6, <1>7 DEF Agreement, RowsRegistered
  <1>16. RegsHaveRows'
    BY <1>0, <1>1, <1>5, <1>6 DEF Agreement, RegsHaveRows
  <1> QED BY <1>0, <1>8, <1>9, <1>10, <1>11, <1>12, <1>13, <1>14, <1>15, <1>16,
             StillKeepsRows DEF Agreement
\* The registry half of the first effect is settled.
LEMMA RegistryAgrees ==
    ASSUME RouterFacts, SessionFacts, Agreement, ~failed, settle_registry
    PROVE  Agreement'
  <1>0. /\ Still /\ UNCHANGED <<executing, phase, binding>>
        /\ ~registry_done /\ registry_done' /\ phase[0] = "commit" /\ executing.pc = "idle"
        /\ delayed_sends \in [Regs -> RegRow]
    <2>1. phase[0] \in Phases /\ phase[0] # "discard"
      BY ZeroJournal DEF RouterFacts, RouterInv, JournalInv, SessionFacts, Phased
    <2>2. phase[0] = "commit"
      BY <2>1 DEF settle_registry, Phases
    <2> QED BY <2>2 DEF settle_registry, Still, vars, ledger, lanes, intents, life, outcomes,
                    journals, SessionFacts, SessionTypes, RegRow, Phased
  <1>1. 1 \in 1 .. Len(effects) /\ Head(effects) = effects[1]
    <2>1. /\ journal[0] # <<>> /\ journal[0] \in Seq(Ticket) /\ effects \in Seq(Effect)
          /\ Len(effects) = Len(journal[0])
      BY <1>0, ZeroJournal DEF SessionFacts, SessionTypes, Aligned, Phased, RouterFacts,
                               RouterInv, JournalInv
    <2> QED BY <2>1
  <1>2. PICK g \in Regs : g = effects[1].reg
    BY <1>1, EffectTickets
  <1>3. /\ effects[1].kind \in {"send", "delayed", "cancel"}
        /\ effects[1].kind = "delayed" => \E r \in Rows : SendAt(1, g, r)
        /\ effects[1].kind = "cancel" => \E c \in CancelRows : CancelAt(1, g, c)
    BY <1>1, <1>2, EffectTickets
  <1>4. /\ delayed_sends'[g] = Committed(delayed_sends[g], effects[1].kind)
        /\ \A h \in Regs \ {g} : delayed_sends'[h] = delayed_sends[h]
    BY <1>0, <1>1, <1>2 DEF settle_registry
  <1>a. delayed_sends[g] \in RegRow
    BY <1>0
  <1>b. \A h : ~Sending(h)' /\ ~Cancelling(h)' /\ ~Sending(h) /\ ~Cancelling(h)
    BY <1>0 DEF Sending, Cancelling
  <1>c. \A r \in Rows : ~Window(r)
    BY <1>0 DEF Window
  <1>5. /\ \A k, h, i : /\ SendAt(k, h, i)' <=> SendAt(k, h, i)
                        /\ CancelAt(k, h, i)' <=> CancelAt(k, h, i)
        /\ \A r : /\ DelayedRow(r)' <=> DelayedRow(r)
                  /\ Unfired(r)' <=> Unfired(r)
        /\ \A c, r : Aims(c, r)' <=> Aims(c, r)
        /\ \A h : /\ SendPending(h)' <=> SendPending(h)
                  /\ CancelPending(h)' <=> CancelPending(h)
    BY <1>0, StillLedger
  <1>6. /\ \A h \in Regs \ {g} : /\ Owing(h)' <=> Owing(h)
                                 /\ Standing(h)' = Standing(h)
        /\ \A h \in Regs \ {g}, r \in Rows : Names(h, r)' <=> Names(h, r)
        /\ UNCHANGED <<rows, closed>>
    BY <1>0, <1>4, OtherRegs DEF Still
  <1>7. SendInHand' /\ CancelInHand'
    BY <1>b DEF SendInHand, CancelInHand
  <1>8. CASE effects[1].kind = "send"
    <2>1. UNCHANGED delayed_sends
      <3>1. \A h \in Regs : delayed_sends'[h] = delayed_sends[h]
        BY <1>4, <1>8 DEF Committed
      <3> QED BY <1>0, <1>1, <3>1 DEF settle_registry
    <2>2. \A h, i : ~SendAt(1, h, i) /\ ~CancelAt(1, h, i)
      BY <1>8 DEF SendAt, CancelAt
    <2> QED BY <1>0, <1>b, <2>1, <2>2, QuietAgrees
  <1>9. CASE effects[1].kind = "delayed"
    <2>1. PICK r0 \in Rows : SendAt(1, g, r0)
      BY <1>3, <1>9
    <2>2. /\ Owing(g) /\ Names(g, r0) /\ DelayedRow(r0) /\ rows[r0].state = "RESERVED"
      BY <2>1, TicketFacts DEF TicketsOwn, Agreement, SendsRegistered
    <2>3. Unfired(r0)
      BY <2>2, WaitingIsUnfired
    <2>4. \A h, c : ~CancelAt(1, h, c)
      BY <2>1, TicketFacts DEF TicketsOwn
    <2>5. /\ delayed_sends'[g].state = "CANCEL_RESERVED" <=>
                delayed_sends[g].state = "CANCEL_RESERVED"
          /\ delayed_sends'[g].previous_state = "CANCEL_RESERVED" <=>
                delayed_sends[g].previous_state = "CANCEL_RESERVED"
          /\ Owing(g)' /\ delayed_sends'[g].id = delayed_sends[g].id
          /\ Standing(g)' # "RESERVED"
      BY <1>4, <1>9, <1>a, <2>2 DEF Committed, RegRow, Owing, Standing
    <2>6. /\ \A h \in Regs : /\ Owing(h)' <=> Owing(h)
                             /\ delayed_sends'[h].id = delayed_sends[h].id
                             /\ Standing(h)' = "RESERVED" => Standing(h) = "RESERVED"
          /\ \A h \in Regs, r \in Rows : Names(h, r)' <=> Names(h, r)
      BY <1>4, <1>6, <2>2, <2>5 DEF Names
    <2>7. OneRegPerId' /\ ReservedTogether'
      BY <1>5, <1>6, <2>6 DEF Agreement, OneRegPerId, ReservedTogether
    <2>8. SendsRegistered'
      <3>1. \A h \in Regs, r \in Rows : SendAt(1, h, r) => h = g
        BY <2>1 DEF SendAt
      <3> QED BY <1>5, <2>5, <2>6, <3>1 DEF Agreement, SendsRegistered
    <2>9. CancelsRegistered'
      BY <1>0, <1>4, <1>5, <2>4, <2>5, <2>6 DEF Agreement, CancelsRegistered
    <2>10. CancelledForAReason'
      BY <1>4, <1>5, <1>b, <2>5 DEF Agreement, CancelledForAReason
    <2>11. CancelsAim'
      BY <1>5, <2>6 DEF Agreement, CancelsAim
    <2>12. RowsRegistered'
      BY <1>5, <1>c, <2>6 DEF Agreement, RowsRegistered
    <2>13. RegsHaveRows'
      <3>1. \A h \in Regs : Standing(h)' = "RESERVED" => SendPending(h)'
        BY <1>5, <1>b, <2>6 DEF Agreement, RegsHaveRows
      <3>2. ASSUME binding' = "open", ~closed', NEW h \in Regs, Standing(h)' = "ACTIVE"
            PROVE  \E r \in Rows : Unfired(r)' /\ Names(h, r)'
        <4>1. CASE h = g
          BY <1>5, <2>2, <2>3, <2>6, <4>1
        <4>2. CASE h # g
          BY <1>0, <1>5, <1>6, <3>2, <4>2 DEF Agreement, RegsHaveRows
        <4> QED BY <4>1, <4>2
      <3> QED BY <3>1, <3>2 DEF RegsHaveRows
    <2> QED BY <1>0, <1>7, <2>7, <2>8, <2>9, <2>10, <2>11, <2>12, <2>13, StillKeepsRows
            DEF Agreement
  <1>10. CASE effects[1].kind = "cancel"
    <2>1. PICK c0 \in CancelRows : CancelAt(1, g, c0)
      BY <1>3, <1>10
    <2>2. delayed_sends[g].state = "CANCEL_RESERVED" \/ delayed_sends[g].state = "FREE"
      BY <2>1 DEF Agreement, CancelsRegistered, Owing
    <2>3. delayed_sends'[g].state = "FREE" /\ ~Owing(g)' /\ Standing(g)' = "FREE"
      BY <1>4, <1>10, <2>2 DEF Committed, FreeReg, Owing, Standing
    <2>4. /\ \A h, r : ~SendAt(1, h, r)
          /\ \A h, c : CancelAt(1, h, c) => h = g /\ c = c0
      BY <2>1, TicketFacts DEF TicketsOwn
    <2>5. \A k \in Nat, r \in Rows : ~SendAt(k, g, r)
      <3> SUFFICES ASSUME NEW k \in Nat, NEW r \in Rows, SendAt(k, g, r) PROVE FALSE
        OBVIOUS
      <3>1. k \in Nat \ {0, 1}
        BY <2>4, TicketFacts DEF TicketsOwn
      <3>2. 1 < k
        BY <3>1
      <3> QED BY <2>1, <3>2 DEF Agreement, SendsRegistered
    <2>6. OneRegPerId' /\ ReservedTogether'
      BY <1>4, <1>5, <1>6, <2>3 DEF Agreement, OneRegPerId, ReservedTogether
    <2>7. SendsRegistered'
      BY <1>5, <1>6, <2>4, <2>5 DEF Agreement, SendsRegistered
    <2>8. CancelsRegistered'
      <3> SUFFICES ASSUME NEW k \in Nat, NEW h \in Regs, NEW c \in CancelRows,
                          CancelAt(k, h, c)'
                   PROVE  /\ \/ delayed_sends'[h].state = "CANCEL_RESERVED"
                             \/ ~Owing(h)' /\ phase'[0] = "commit"
                          /\ k = 1 /\ registry_done' => ~Owing(h)'
        BY DEF CancelsRegistered
      <3>1. CASE h = g
        BY <1>0, <2>3, <3>1
      <3>2. CASE h # g
        <4>1. CancelAt(k, h, c) /\ k # 1
          BY <1>5, <2>4, <3>2
        <4> QED BY <1>0, <1>4, <1>6, <3>2, <4>1 DEF Agreement, CancelsRegistered
      <3> QED BY <3>1, <3>2
    <2>9. CancelledForAReason'
      BY <1>4, <1>5, <1>b, <2>3 DEF Agreement, CancelledForAReason
    <2>10. CancelsAim'
      BY <1>5, <1>6, <2>3 DEF Agreement, CancelsAim
    <2>11. RowsRegistered'
      <3> SUFFICES ASSUME NEW r \in Rows, Unfired(r)'
                   PROVE  Window(r)' \/ \E h \in Regs : Owing(h)' /\ Names(h, r)'
        BY DEF RowsRegistered
      <3>1. Unfired(r) /\ DelayedRow(r)
        BY <1>5, UnfiredDelayed
      <3>2. PICK h \in Regs : Owing(h) /\ Names(h, r)
        BY <1>c, <3>1 DEF Agreement, RowsRegistered
      <3>3. CASE h = g
        <4>1. Aims(c0, r)
          BY <2>1, <3>1, <3>2, <3>3 DEF Agreement, CancelsAim
        <4> QED BY <1>0, <1>5, <2>1, <4>1 DEF Window
      <3>4. CASE h # g
        BY <1>6, <3>2, <3>4
      <3> QED BY <3>3, <3>4
    <2>12. RegsHaveRows'
      BY <1>0, <1>5, <1>6, <1>b, <2>3 DEF Agreement, RegsHaveRows
    <2> QED BY <1>0, <1>7, <2>6, <2>7, <2>8, <2>9, <2>10, <2>11, <2>12, StillKeepsRows
            DEF Agreement
  <1> QED BY <1>3, <1>8, <1>9, <1>10

LEMMA SessionStepAgrees ==
    ASSUME RouterFacts, SessionFacts, Agreement, ~failed, ~ids_recur, SessionStep
    PROVE  Agreement'
  <1>1. ASSUME NEW d \in Sends, execute_send(d[1], d[2])
        PROVE  Agreement'
    BY <1>1, SendStartAgrees
  <1>2. ASSUME NEW id \in SendIds, execute_cancel(id)
        PROVE  Agreement'
    BY <1>2, CancelStartAgrees
  <1>3. CASE host_prepare \/ host_refuses
    <2>1. /\ Still /\ UNCHANGED <<delayed_sends, registry_done, phase, binding>>
      BY <1>3 DEF host_prepare, host_refuses, Still, vars, ledger, lanes, intents, life,
                  outcomes, journals
    <2>2. /\ executing.pc # "idle" /\ executing'.pc # "idle"
          /\ executing'.kind = executing.kind /\ executing'.reg = executing.reg
          /\ executing'.id = executing.id
      BY <1>3 DEF host_prepare, host_refuses, SessionFacts, SessionTypes
    <2>3. \A g \in Regs : /\ Sending(g)' <=> Sending(g)
                          /\ Cancelling(g)' <=> Cancelling(g)
      BY <2>2 DEF Sending, Cancelling
    <2> QED BY <2>1, <2>2, <2>3, QuietAgrees
  <1>4. CASE host_close
    <2>1. /\ Still /\ UNCHANGED <<delayed_sends, executing, registry_done, phase>>
          /\ binding' # "open"
      BY <1>4 DEF host_close, Still, vars, ledger, lanes, intents, life, outcomes, journals
    <2>2. \A g \in Regs : /\ Sending(g)' <=> Sending(g)
                          /\ Cancelling(g)' <=> Cancelling(g)
      BY <2>1 DEF Sending, Cancelling
    <2> QED BY <2>1, <2>2, QuietAgrees
  <1> QED BY <1>1, <1>2, <1>3, <1>4, RollbackAgrees, RegistryAgrees DEF SessionStep

LEMMA CommitStartAgrees ==
    ASSUME RouterFacts, SessionFacts, Agreement, end_microstep("commit")
    PROVE  Agreement'
  <1>1. /\ Still /\ UNCHANGED <<delayed_sends, executing, registry_done, binding>>
    BY DEF end_microstep, EndMicrostep, Still, ledger, lanes, intents, life, outcomes
  <1>2. phase'[0] = "commit"
    BY ZeroJournal DEF end_microstep, EndMicrostep, RouterFacts, RouterInv, JournalInv
  <1>3. \A g \in Regs : /\ Sending(g)' <=> Sending(g)
                        /\ Cancelling(g)' <=> Cancelling(g)
    BY <1>1 DEF Sending, Cancelling
  <1> QED BY <1>1, <1>2, <1>3, QuietAgrees
-----------------------------------------------------------------------------
(* The report of a deadline. *)

\* The timer asks the Session about row q: the registry row that stands for it
\* is given back, or marked if a cancel holds it, or there is none.
Reports(q) ==
    /\ timer.pc = "busy" /\ timer.row = q /\ rows[q].state = "FIRING"
    /\ timer'.pc = "reported" /\ timer'.row = q
    /\ \/ /\ timer'.settled = FALSE /\ UNCHANGED delayed_sends
          /\ \A g \in Regs : Owing(g) /\ Names(g, q) => Standing(g) # "ACTIVE"
       \/ /\ timer'.settled = TRUE
          /\ \E g \in Regs :
               /\ Names(g, q) /\ Standing(g) = "ACTIVE"
               /\ \A h \in Regs \ {g} : delayed_sends'[h] = delayed_sends[h]
               /\ \/ delayed_sends[g].state = "ACTIVE" /\ delayed_sends'[g] = FreeReg
                  \/ /\ delayed_sends[g].state = "CANCEL_RESERVED"
                     /\ delayed_sends'[g] = [delayed_sends[g] EXCEPT
                                                !.previous_state = "FREE"]
    /\ UNCHANGED <<rows, cancel_rows, closed, timer_done_failed, journal, phase,
                   effects, executing, registry_done, binding>>

LEMMA ReportReports ==
    ASSUME RouterFacts, SessionFacts, OneRegPerId, report_send_done
    PROVE  \E q \in Rows : Reports(q)
  <1>0. /\ delayed_sends \in [Regs -> RegRow] /\ timer.pc = "busy"
        /\ timer \in [pc : LaneStates, row : Rows, budget : 0 .. MaxBatch,
                      settled : BOOLEAN]
    BY DEF SessionFacts, SessionTypes, RegRow, RouterFacts, RouterInv, LaneInv,
           report_send_done, run_due_report
  <1>1. PICK q \in Rows : timer.row = q /\ rows[q].state = "FIRING"
    BY <1>0 DEF RouterFacts, RouterInv, ClaimInv
  <1> DEFINE id == rows[q].send_id
             found == {g \in find_delayed_send(id) :
                         /\ IsFirst(g, find_delayed_send(id))
                         /\ Owed(delayed_sends[g])}
  <1>2. /\ run_due_report(found # {})
        /\ delayed_sends' = [g \in Regs |->
             IF g \notin found THEN delayed_sends[g]
             ELSE IF delayed_sends[g].state = "CANCEL_RESERVED"
             THEN [delayed_sends[g] EXCEPT !.previous_state = "FREE"]
             ELSE FreeReg]
        /\ UNCHANGED <<executing, effects, registry_done, binding>>
    BY <1>1 DEF report_send_done
  <1>3. \A g : g \in found <=> /\ g \in Regs /\ Owing(g) /\ Names(g, q)
                               /\ Standing(g) = "ACTIVE"
    <2>1. \A g : g \in find_delayed_send(id) <=> g \in Regs /\ Owing(g) /\ Names(g, q)
      BY DEF find_delayed_send, same_send_id, Owing, Names
    <2>2. \A g, h \in find_delayed_send(id) : g = h
      BY <2>1 DEF OneRegPerId, Names
    <2>3. \A g \in find_delayed_send(id) : IsFirst(g, find_delayed_send(id))
      <3>1. \A g \in Regs : g <= g
        BY RegIndices
      <3> QED BY <2>1, <2>2, <3>1 DEF IsFirst
    <2>4. \A g \in Regs : Owed(delayed_sends[g]) <=> Standing(g) = "ACTIVE"
      BY DEF Owed, Standing
    <2> QED BY <2>1, <2>3, <2>4
  <1> HIDE DEF found, id
  <1>4. /\ timer'.pc = "reported" /\ timer'.row = q /\ timer'.settled = (found # {})
        /\ UNCHANGED <<rows, cancel_rows, closed, timer_done_failed, journal, phase>>
    BY <1>0, <1>1, <1>2 DEF run_due_report, ledger, intents, life, outcomes, journals
  <1>5. CASE found = {}
    <2>1. \A g \in Regs : delayed_sends'[g] = delayed_sends[g]
      BY <1>2, <1>5
    <2>2. delayed_sends' = delayed_sends
      BY <1>0, <1>2, <1>5
    <2> QED BY <1>0, <1>1, <1>2, <1>3, <1>4, <1>5, <2>2 DEF Reports
  <1>6. CASE found # {}
    <2>1. PICK g \in found : TRUE
      BY <1>6
    <2>2. g \in Regs /\ Owing(g) /\ Names(g, q) /\ Standing(g) = "ACTIVE"
      BY <1>3, <2>1
    <2>3. \A h \in Regs \ {g} : h \notin found
      BY <1>3, <2>2 DEF OneRegPerId, Names
    <2>4. \A h \in Regs \ {g} : delayed_sends'[h] = delayed_sends[h]
      BY <1>2, <2>3
    <2>5. \/ delayed_sends[g].state = "ACTIVE" /\ delayed_sends'[g] = FreeReg
          \/ /\ delayed_sends[g].state = "CANCEL_RESERVED"
             /\ delayed_sends'[g] = [delayed_sends[g] EXCEPT !.previous_state = "FREE"]
      BY <1>2, <2>1, <2>2 DEF Standing
    <2> QED BY <1>0, <1>1, <1>2, <1>4, <1>6, <2>2, <2>4, <2>5 DEF Reports
  <1> QED BY <1>5, <1>6

LEMMA ReportAgrees ==
    ASSUME RouterFacts, SessionFacts, Agreement, report_send_done
    PROVE  Agreement'
  <1>0. PICK q \in Rows : Reports(q)
    BY ReportReports DEF Agreement
  <1>1. /\ DelayedRow(q) /\ rows[q].state = "FIRING" /\ CountsTimer(rows[q])
        /\ delayed_sends \in [Regs -> RegRow]
    <2>1. rows[q].delay # 0
      BY <1>0 DEF Reports, RouterFacts, RouterInv, LedgerInv
    <2> QED BY <1>0, <2>1 DEF Reports, DelayedRow, CountsTimer, SessionFacts, SessionTypes, RegRow
  <1>2. UNCHANGED <<rows, cancel_rows, closed, timer_done_failed, journal, phase,
                    effects, executing, registry_done, binding>>
    BY <1>0 DEF Reports
  <1>3. /\ \A k, g, i : /\ SendAt(k, g, i)' <=> SendAt(k, g, i)
                        /\ CancelAt(k, g, i)' <=> CancelAt(k, g, i)
        /\ \A r : DelayedRow(r)' <=> DelayedRow(r)
        /\ \A c, r : Aims(c, r)' <=> Aims(c, r)
        /\ \A g : /\ Sending(g)' <=> Sending(g)
                  /\ Cancelling(g)' <=> Cancelling(g)
    BY <1>2 DEF SendAt, CancelAt, DelayedRow, Aims, Sending, Cancelling
  <1>4. \A g : /\ SendPending(g)' <=> SendPending(g)
               /\ CancelPending(g)' <=> CancelPending(g)
    BY <1>3 DEF SendPending, CancelPending
  <1>5. \A r \in Rows : Unfired(r)' <=> Unfired(r) /\ r # q
    BY <1>0, <1>2 DEF Reports, Unfired, Reported
  <1>6. \A r \in Rows : Window(r)' <=> Window(r)
    BY <1>2, <1>3 DEF Window
  <1>7. OneRowPerId' /\ timer_done_failed' = 0
    BY <1>2, <1>3 DEF Agreement, OneRowPerId
  <1>8. CASE /\ timer'.settled = FALSE /\ UNCHANGED delayed_sends
             /\ \A g \in Regs : Owing(g) /\ Names(g, q) => Standing(g) # "ACTIVE"
    <2>1. /\ \A g : /\ Owing(g)' <=> Owing(g)
                    /\ Standing(g)' = Standing(g)
                    /\ delayed_sends'[g] = delayed_sends[g]
          /\ \A g, r : Names(g, r)' <=> Names(g, r)
      BY <1>2, <1>8 DEF Owing, Standing, Names
    <2>2. OneRegPerId' /\ ReservedTogether'
      BY <1>2, <1>3, <2>1 DEF Agreement, OneRegPerId, ReservedTogether
    <2>3. SendInHand'
      BY <1>2, <1>3, <1>4, <2>1 DEF Agreement, SendInHand
    <2>4. CancelInHand'
      BY <1>2, <1>3, <1>4, <1>5, <2>1 DEF Agreement, CancelInHand
    <2>5. SendsRegistered'
      BY <1>2, <1>3, <2>1 DEF Agreement, SendsRegistered
    <2>6. CancelsRegistered'
      BY <1>2, <1>3, <2>1 DEF Agreement, CancelsRegistered
    <2>7. CancelledForAReason'
      BY <1>3, <1>4, <2>1 DEF Agreement, CancelledForAReason
    <2>8. CancelsAim'
      BY <1>3, <2>1 DEF Agreement, CancelsAim
    <2>9. RowsRegistered'
      BY <1>5, <1>6, <2>1 DEF Agreement, RowsRegistered
    <2>10. RegsHaveRows'
      <3>1. \A g \in Regs : Standing(g) = "ACTIVE" => Owing(g)
        BY DEF Standing, Owing
      <3> QED BY <1>2, <1>3, <1>4, <1>5, <1>8, <2>1, <3>1 DEF Agreement, RegsHaveRows
    <2>11. CancelRaced(q)
      <3> SUFFICES ASSUME ~rows[q].fire_won_cancel
                   PROVE  \E c \in CancelRows : cancel_rows[c].in_use /\ Aims(c, q)
        BY DEF CancelRaced, Aims
      <3>1. Unfired(q)
        BY <1>0, <1>1 DEF Unfired, Reported, Reports
      <3>2. CASE Window(q)
        BY <3>2, TicketFacts DEF Window, TicketsOwn
      <3>3. ASSUME NEW g \in Regs, Owing(g), Names(g, q)
            PROVE  \E c \in CancelRows : cancel_rows[c].in_use /\ Aims(c, q)
        <4>1. Standing(g) # "ACTIVE" /\ Standing(g) # "RESERVED"
          BY <1>1, <1>8, <3>3 DEF Agreement, ReservedTogether
        <4>2. delayed_sends[g] \in RegRow
          BY <1>1
        <4>3. /\ delayed_sends[g].state = "CANCEL_RESERVED"
              /\ delayed_sends[g].previous_state \in {"FREE", "CANCEL_RESERVED"}
          BY <3>3, <4>1, <4>2 DEF RegRow, RegStates, Owing, Standing
        <4>4. CancelPending(g)
          <5>1. Cancelling(g) => delayed_sends[g].previous_state # "FREE"
            BY <3>1, <3>3 DEF Agreement, CancelInHand
          <5> QED BY <4>3, <5>1 DEF Agreement, CancelledForAReason
        <4>5. PICK k \in Nat, c \in CancelRows : CancelAt(k, g, c)
          BY <4>4 DEF CancelPending
        <4>6. Aims(c, q)
          BY <1>1, <3>3, <4>5 DEF Agreement, CancelsAim
        <4> QED BY <4>5, <4>6, TicketFacts DEF TicketsOwn
      <3> QED BY <3>1, <3>2, <3>3 DEF Agreement, RowsRegistered
    <2>12. ReportsAcknowledged'
      <3>1. CancelRaced(q)'
        BY <1>2, <2>11 DEF CancelRaced
      <3>2. timer'.row = q
        BY <1>0 DEF Reports
      <3> QED BY <3>1, <3>2 DEF ReportsAcknowledged, CancelRaced
    <2> QED BY <1>7, <2>2, <2>3, <2>4, <2>5, <2>6, <2>7, <2>8, <2>9, <2>10, <2>12
            DEF Agreement
  <1>9. ASSUME timer'.settled = TRUE, NEW g \in Regs,
               Names(g, q), Standing(g) = "ACTIVE",
               \A h \in Regs \ {g} : delayed_sends'[h] = delayed_sends[h],
               \/ delayed_sends[g].state = "ACTIVE" /\ delayed_sends'[g] = FreeReg
               \/ /\ delayed_sends[g].state = "CANCEL_RESERVED"
                  /\ delayed_sends'[g] = [delayed_sends[g] EXCEPT !.previous_state = "FREE"]
        PROVE  Agreement'
    <2>1. /\ Owing(g)
          /\ \/ /\ delayed_sends[g].state = "ACTIVE"
                /\ delayed_sends'[g].state = "FREE" /\ ~Owing(g)'
             \/ /\ delayed_sends[g].state = "CANCEL_RESERVED"
                /\ delayed_sends[g].previous_state = "ACTIVE"
                /\ delayed_sends'[g].state = "CANCEL_RESERVED" /\ Owing(g)'
                /\ delayed_sends'[g].id = delayed_sends[g].id
                /\ delayed_sends'[g].previous_state = "FREE"
          /\ Standing(g)' = "FREE"
      <3>1. delayed_sends[g] \in RegRow
        BY <1>1
      <3> QED BY <1>9, <3>1 DEF Owing, Standing, FreeReg, RegRow
    <2>2. /\ \A h \in Regs \ {g} : /\ Owing(h)' <=> Owing(h)
                                   /\ Standing(h)' = Standing(h)
          /\ \A h \in Regs \ {g}, r \in Rows : Names(h, r)' <=> Names(h, r)
      BY <1>2, <1>9, OtherRegs
    <2>3. /\ \A r \in Rows : DelayedRow(r) /\ Names(g, r) => r = q
          /\ \A h \in Regs : Owing(h) /\ Names(h, q) => h = g
      BY <1>1, <1>9, <2>1 DEF Agreement, OneRowPerId, OneRegPerId, Names
    <2>4. \A k \in Nat, r \in Rows : ~SendAt(k, g, r)
      <3> SUFFICES ASSUME NEW k \in Nat, NEW r \in Rows, SendAt(k, g, r) PROVE FALSE
        OBVIOUS
      <3>1. DelayedRow(r) /\ rows[r].state = "RESERVED" /\ Names(g, r)
        BY TicketFacts DEF TicketsOwn, Agreement, SendsRegistered
      <3> QED BY <1>1, <2>3, <3>1
    <2>5. ~Sending(g)
      BY <2>1 DEF Agreement, SendInHand
    <2>6. Owing(g)' => \A r \in Rows : Names(g, r)' <=> Names(g, r)
      BY <1>2, <2>1 DEF Names
    <2>7. OneRegPerId'
      BY <1>9, <2>1, <2>2 DEF Agreement, OneRegPerId
    <2>8. ReservedTogether'
      BY <1>2, <1>3, <2>1, <2>2 DEF Agreement, ReservedTogether
    <2>9. SendInHand'
      BY <1>2, <1>3, <1>4, <1>9, <2>5 DEF Agreement, SendInHand
    <2>10. CancelInHand'
      <3> SUFFICES ASSUME NEW h \in Regs, Cancelling(h)
                   PROVE  /\ delayed_sends'[h].state = "CANCEL_RESERVED"
                          /\ delayed_sends'[h].id = executing.id
                          /\ CancelPending(h) =>
                                delayed_sends'[h].previous_state = "CANCEL_RESERVED"
                          /\ delayed_sends'[h].previous_state = "FREE" =>
                                \A r \in Rows : Unfired(r)' => ~Names(h, r)'
        BY <1>2, <1>3, <1>4 DEF CancelInHand
      <3>1. /\ delayed_sends[h].state = "CANCEL_RESERVED"
            /\ delayed_sends[h].id = executing.id
            /\ CancelPending(h) => delayed_sends[h].previous_state = "CANCEL_RESERVED"
            /\ delayed_sends[h].previous_state = "FREE" =>
                  \A r \in Rows : Unfired(r) => ~Names(h, r)
        BY DEF Agreement, CancelInHand
      <3>2. CASE h # g
        BY <1>5, <1>9, <2>2, <3>1, <3>2
      <3>3. CASE h = g
        BY <1>5, <2>1, <2>3, <2>6, <3>1, <3>3, UnfiredDelayed
      <3> QED BY <3>2, <3>3
    <2>11. SendsRegistered'
      BY <1>2, <1>3, <2>2, <2>4 DEF Agreement, SendsRegistered
    <2>12. CancelsRegistered'
      <3> SUFFICES ASSUME NEW k \in Nat, NEW h \in Regs, NEW c \in CancelRows,
                          CancelAt(k, h, c)
                   PROVE  /\ \/ delayed_sends'[h].state = "CANCEL_RESERVED"
                             \/ ~Owing(h)' /\ phase'[0] = "commit"
                          /\ k = 1 /\ registry_done' => ~Owing(h)'
        BY <1>3 DEF CancelsRegistered
      <3>1. /\ \/ delayed_sends[h].state = "CANCEL_RESERVED"
               \/ ~Owing(h) /\ phase[0] = "commit"
            /\ k = 1 /\ registry_done => ~Owing(h)
        BY DEF Agreement, CancelsRegistered
      <3>2. CASE h # g
        BY <1>2, <1>9, <2>2, <3>1, <3>2
      <3>3. CASE h = g
        BY <1>2, <2>1, <3>1, <3>3
      <3> QED BY <3>2, <3>3
    <2>13. CancelledForAReason'
      BY <1>3, <1>4, <1>9, <2>1 DEF Agreement, CancelledForAReason
    <2>14. CancelsAim'
      BY <1>3, <2>1, <2>2, <2>6 DEF Agreement, CancelsAim
    <2>15. RowsRegistered'
      <3> SUFFICES ASSUME NEW r \in Rows, Unfired(r)'
                   PROVE  Window(r)' \/ \E h \in Regs : Owing(h)' /\ Names(h, r)'
        BY DEF RowsRegistered
      <3>1. Unfired(r) /\ r # q /\ DelayedRow(r)
        BY <1>5, UnfiredDelayed
      <3>2. CASE Window(r)
        BY <1>6, <3>2
      <3>3. ASSUME NEW h \in Regs, Owing(h), Names(h, r)
            PROVE  Owing(h)' /\ Names(h, r)'
        BY <2>2, <2>3, <3>1, <3>3
      <3> QED BY <3>1, <3>2, <3>3 DEF Agreement, RowsRegistered
    <2>16. RegsHaveRows'
      <3>1. \A h \in Regs : Standing(h)' = "RESERVED" => Sending(h)' \/ SendPending(h)'
        BY <1>3, <1>4, <2>1, <2>2 DEF Agreement, RegsHaveRows
      <3>2. ASSUME binding' = "open", ~closed', NEW h \in Regs, Standing(h)' = "ACTIVE"
            PROVE  \E r \in Rows : Unfired(r)' /\ Names(h, r)'
        <4>1. h # g /\ Standing(h) = "ACTIVE" /\ Owing(h)
          BY <2>1, <2>2, <3>2 DEF Standing, Owing
        <4>2. PICK r \in Rows : Unfired(r) /\ Names(h, r)
          BY <1>2, <3>2, <4>1 DEF Agreement, RegsHaveRows
        <4>3. r # q
          BY <2>3, <4>1, <4>2
        <4> QED BY <1>5, <2>2, <4>1, <4>2, <4>3
      <3> QED BY <3>1, <3>2 DEF RegsHaveRows
    <2>17. ReportsAcknowledged'
      BY <1>9 DEF ReportsAcknowledged
    <2> QED BY <1>7, <2>7, <2>8, <2>9, <2>10, <2>11, <2>12, <2>13, <2>14, <2>15, <2>16, <2>17
            DEF Agreement
  <1> QED BY <1>0, <1>8, <1>9 DEF Reports
-----------------------------------------------------------------------------
(* A ticket joins the journal. *)

\* No intent aims at an Event that has just been admitted.
LEMMA NewRowUnaimed ==
    ASSUME RouterFacts, NEW r \in Rows, SendJoins(r), NEW c \in CancelRows,
           cancel_rows[c].in_use
    PROVE  ~Aims(c, r)'
  <1>1. /\ cancel_rows[c].target_identity \in 1 .. next_row_identity
        /\ next_row_identity \in Nat
    BY LimitAssumption DEF RouterFacts, RouterInv, StampInv, EventInv, TicketInv,
                           IntentsNameEvents
  <1>2. cancel_rows[c].target_identity # next_row_identity + 1
    BY <1>1
  <1> QED BY <1>2 DEF SendJoins, Aims

LEMMA SendAdmissionAgrees ==
    ASSUME RouterFacts, SessionFacts, Agreement, NEW r \in Rows, SendJoins(r)
    PROVE  Agreement'
  <1> DEFINE e == [kind |-> executing.kind, reg |-> executing.reg]
  <1>g. PICK g \in Regs : g = executing.reg
    BY DEF SessionFacts, SessionTypes
  <1>0. /\ executing.kind \in {"send", "delayed"} /\ executing.pc = "admit"
        /\ phase[0] = "open" /\ e \in Effect
        /\ executing.kind = "delayed" <=> rows'[r].delay # 0
        /\ rows'[r].send_id = executing.id
    BY DEF SessionFacts, SessionTypes, Phased, SendJoins, Effect
  <1>1. /\ Joins(e, SendTicket(r)) /\ executing'.pc = "idle"
        /\ UNCHANGED <<cancel_rows, phase, delayed_sends, registry_done, binding, timer,
                       closed, timer_done_failed>>
        /\ rows[r].state = "FREE" /\ rows'[r].state = "RESERVED"
        /\ \A q \in Rows \ {r} : rows'[q] = rows[q]
    BY DEF SendJoins, Joins, Idle
  <1>2. /\ \A k, h, i : CancelAt(k, h, i)' <=> CancelAt(k, h, i)
        /\ \A k, h : \A i \in Rows : SendAt(k, h, i)' <=>
              \/ SendAt(k, h, i)
              \/ /\ k = Len(effects) + 1 /\ i = r /\ h = g
                 /\ executing.kind = "delayed"
    <2>1. \A i : SendTicket(r) # CancelTicket(i)
      BY DEF SendTicket, CancelTicket
    <2>2. \A i : SendTicket(r) = SendTicket(i) => i = r
      BY DEF SendTicket
    <2>3. \A h : e = [kind |-> "delayed", reg |-> h] <=> h = g /\ executing.kind = "delayed"
      BY <1>g
    <2> HIDE DEF e
    <2> QED BY <1>0, <1>1, <2>1, <2>2, <2>3, JoinedAt
  <1> HIDE DEF e
  <1>3. /\ ~registry_done /\ \A q \in Rows : ~Window(q)
        /\ Len(effects) \in Nat
    BY <1>0, OpenTickets DEF SessionFacts, SessionTypes
  <1>4. /\ \A h : ~Sending(h)' /\ ~Cancelling(h)' /\ ~Cancelling(h)
        /\ \A h \in Regs : Sending(h) <=> h = g /\ executing.kind = "delayed"
    BY <1>g, <1>0, <1>1 DEF Sending, Cancelling
  <1>5. /\ \A h : /\ Owing(h)' <=> Owing(h)
                  /\ Standing(h)' = Standing(h)
                  /\ delayed_sends'[h] = delayed_sends[h]
        /\ \A q \in Rows \ {r} :
              /\ DelayedRow(q)' <=> DelayedRow(q)
              /\ Unfired(q)' <=> Unfired(q)
              /\ \A h : Names(h, q)' <=> Names(h, q)
              /\ \A c : Aims(c, q)' <=> Aims(c, q)
    BY <1>1 DEF Owing, Standing, DelayedRow, Unfired, Reported, CountsTimer, Names, Aims
  <1>6. /\ ~DelayedRow(r) /\ ~Unfired(r)
        /\ DelayedRow(r)' <=> executing.kind = "delayed"
        /\ \A h : Names(h, r)' <=> delayed_sends[h].id = executing.id
        /\ \A k, h : ~SendAt(k, h, r)
    <2>1. ~DelayedRow(r) /\ ~Unfired(r)
      BY <1>1 DEF DelayedRow, Unfired, CountsTimer
    <2>2. \A k, h : ~SendAt(k, h, r)
      BY <2>1, TicketFacts DEF TicketsOwn
    <2> QED BY <1>0, <1>1, <2>1, <2>2 DEF DelayedRow, Names
  <1>7. \A k, h : \A c \in CancelRows : CancelAt(k, h, c) => ~Aims(c, r)'
    BY NewRowUnaimed, TicketFacts DEF TicketsOwn
  <1>8. \A h : CancelPending(h)' <=> CancelPending(h)
    BY <1>2 DEF CancelPending
  <1>9. executing.kind = "delayed" =>
           /\ delayed_sends[g].state = "RESERVED" /\ delayed_sends[g].id = executing.id
           /\ \A q \in Rows : DelayedRow(q) => rows[q].send_id # executing.id
           /\ ~CancelPending(g)
    BY <1>4 DEF Agreement, SendInHand
  <1>a. executing.kind = "delayed" =>
           /\ Owing(g) /\ Standing(g) = "RESERVED" /\ Names(g, r)'
           /\ \A h \in Regs : Owing(h) /\ Names(h, r)' => h = g
           /\ \A k \in Nat, c \in CancelRows : ~CancelAt(k, g, c)
    <2> SUFFICES ASSUME executing.kind = "delayed"
                 PROVE  /\ Owing(g) /\ Standing(g) = "RESERVED" /\ Names(g, r)'
                        /\ \A h \in Regs : Owing(h) /\ Names(h, r)' => h = g
                        /\ \A k \in Nat, c \in CancelRows : ~CancelAt(k, g, c)
      OBVIOUS
    <2>1. Owing(g) /\ Standing(g) = "RESERVED"
      BY <1>9 DEF Owing, Standing
    <2>2. \A h \in Regs : Owing(h) /\ Names(h, r)' => h = g
      BY <1>6, <1>9, <2>1 DEF Agreement, OneRegPerId
    <2> QED BY <1>6, <1>9, <2>1, <2>2 DEF CancelPending
  <1>10. OneRegPerId'
    BY <1>5 DEF Agreement, OneRegPerId
  <1>11. OneRowPerId'
    BY <1>0, <1>1, <1>5, <1>6, <1>9 DEF Agreement, OneRowPerId
  <1>12. SendInHand' /\ CancelInHand'
    BY <1>4 DEF SendInHand, CancelInHand
  <1>13. SendsRegistered'
    <2> SUFFICES ASSUME NEW k \in Nat, NEW h \in Regs, NEW q \in Rows, SendAt(k, h, q)'
                 PROVE  /\ Owing(h)' /\ Names(h, q)'
                        /\ k = 1 /\ registry_done' => Standing(h)' # "RESERVED"
                        /\ \A l \in Nat, c \in CancelRows : l < k => ~CancelAt(l, h, c)'
      BY DEF SendsRegistered
    <2>1. CASE SendAt(k, h, q)
      <3>1. q # r
        BY <1>6, <2>1
      <3> QED BY <1>1, <1>2, <1>5, <2>1, <3>1 DEF Agreement, SendsRegistered
    <2>2. CASE q = r /\ h = g /\ executing.kind = "delayed"
      BY <1>1, <1>2, <1>3, <1>5, <1>a, <2>2
    <2> QED BY <1>2, <2>1, <2>2
  <1>14. CancelsRegistered'
    BY <1>1, <1>2, <1>5 DEF Agreement, CancelsRegistered
  <1>15. CancelledForAReason'
    BY <1>4, <1>5, <1>8 DEF Agreement, CancelledForAReason
  <1>16. CancelsAim'
    <2> SUFFICES ASSUME NEW k \in Nat, NEW h \in Regs, NEW c \in CancelRows, NEW q \in Rows,
                        CancelAt(k, h, c)
                 PROVE  /\ Owing(h)' /\ DelayedRow(q)' /\ Names(h, q)' => Aims(c, q)'
                        /\ Aims(c, q)' =>
                              /\ DelayedRow(q)'
                              /\ \A f \in Regs : Owing(f)' /\ Names(f, q)' => f = h
      BY <1>2 DEF CancelsAim
    <2>1. CASE q = r
      BY <1>5, <1>6, <1>7, <1>a, <2>1
    <2>2. CASE q # r
      BY <1>5, <2>2 DEF Agreement, CancelsAim
    <2> QED BY <2>1, <2>2
  <1>17. RowsRegistered'
    <2> SUFFICES ASSUME NEW q \in Rows, Unfired(q)'
                 PROVE  \E h \in Regs : Owing(h)' /\ Names(h, q)'
      BY DEF RowsRegistered
    <2>1. CASE q = r
      <3>1. DelayedRow(r)'
        BY <2>1 DEF Unfired, CountsTimer, DelayedRow
      <3> QED BY <1>5, <1>6, <1>a, <2>1, <3>1
    <2>2. CASE q # r
      BY <1>3, <1>5, <2>2 DEF Agreement, RowsRegistered
    <2> QED BY <2>1, <2>2
  <1>18. ReservedTogether'
    <2>1. \A h \in Regs, q \in Rows \ {r} :
             Owing(h)' /\ DelayedRow(q)' /\ Names(h, q)' /\ Standing(h)' = "RESERVED" =>
                rows'[q].state = "RESERVED"
      BY <1>1, <1>5 DEF Agreement, ReservedTogether
    <2> QED BY <1>1, <2>1 DEF ReservedTogether
  <1>19. ReportsAcknowledged'
    <2>1. timer.pc = "reported" => timer.row \in Rows \ {r}
      BY <1>1 DEF RouterFacts, RouterInv, LaneInv, ClaimInv
    <2> QED BY <1>1, <2>1 DEF Agreement, ReportsAcknowledged, CancelRaced
  <1>20. RegsHaveRows'
    <2>1. ASSUME NEW h \in Regs, Standing(h) = "RESERVED"
          PROVE  SendPending(h)'
      <3>1. CASE Sending(h)
        <4>1. PICK n \in Nat : n = Len(effects) + 1
          BY <1>3
        <4>2. SendAt(n, h, r)'
          BY <1>2, <1>4, <3>1, <4>1
        <4> QED BY <4>2 DEF SendPending
      <3>2. CASE SendPending(h)
        BY <1>2, <3>2 DEF SendPending
      <3> QED BY <2>1, <3>1, <3>2 DEF Agreement, RegsHaveRows
    <2>2. ASSUME binding' = "open", ~closed', NEW h \in Regs, Standing(h)' = "ACTIVE"
          PROVE  \E q \in Rows : Unfired(q)' /\ Names(h, q)'
      <3>1. PICK q \in Rows : Unfired(q) /\ Names(h, q)
        BY <1>1, <1>5, <2>2 DEF Agreement, RegsHaveRows
      <3>2. q # r
        BY <1>6, <3>1
      <3> QED BY <1>5, <3>1, <3>2
    <2> QED BY <1>5, <2>1, <2>2 DEF RegsHaveRows
  <1>21. timer_done_failed' = 0
    BY <1>1 DEF Agreement
  <1> QED BY <1>10, <1>11, <1>12, <1>13, <1>14, <1>15, <1>16, <1>17, <1>18, <1>19, <1>20,
             <1>21 DEF Agreement

LEMMA CancelAdmissionAgrees ==
    ASSUME RouterFacts, SessionFacts, Agreement, NEW c \in CancelRows, NEW r \in Rows,
           CancelJoins(c, r)
    PROVE  Agreement'
  <1> DEFINE e == [kind |-> "cancel", reg |-> executing.reg]
  <1>g. PICK g \in Regs : g = executing.reg
    BY DEF SessionFacts, SessionTypes
  <1>0. /\ executing.kind = "cancel" /\ executing.pc = "admit"
        /\ phase[0] = "open" /\ e \in Effect
        /\ DelayedRow(r) /\ rows[r].send_id = executing.id
    BY DEF SessionFacts, SessionTypes, Phased, CancelJoins, Effect, DelayedRow
  <1>1. /\ Joins(e, CancelTicket(c)) /\ executing'.pc = "idle"
        /\ UNCHANGED <<rows, phase, delayed_sends, registry_done, binding, timer, closed,
                       timer_done_failed>>
        /\ ~cancel_rows[c].in_use
        /\ cancel_rows'[c].target = r /\ cancel_rows'[c].target_identity = rows[r].identity
        /\ \A k \in CancelRows \ {c} : cancel_rows'[k] = cancel_rows[k]
    BY DEF CancelJoins, Joins, Idle
  <1>2. /\ \A k, h, i : SendAt(k, h, i)' <=> SendAt(k, h, i)
        /\ \A k, h : \A i \in CancelRows : CancelAt(k, h, i)' <=>
              CancelAt(k, h, i) \/ (k = Len(effects) + 1 /\ i = c /\ h = g)
    <2>1. \A i : CancelTicket(c) # SendTicket(i)
      BY DEF SendTicket, CancelTicket
    <2>2. \A i : CancelTicket(c) = CancelTicket(i) => i = c
      BY DEF CancelTicket
    <2>3. \A h : e = [kind |-> "cancel", reg |-> h] <=> h = g
      BY <1>g
    <2> HIDE DEF e
    <2> QED BY <1>0, <1>1, <2>1, <2>2, <2>3, JoinedAt
  <1> HIDE DEF e
  <1>3. /\ ~registry_done /\ \A q \in Rows : ~Window(q)
        /\ Len(effects) \in Nat
    BY <1>0, OpenTickets DEF SessionFacts, SessionTypes
  <1>4. /\ \A h : ~Sending(h)' /\ ~Cancelling(h)' /\ ~Sending(h)
        /\ \A h \in Regs : Cancelling(h) <=> h = g
    BY <1>g, <1>0, <1>1 DEF Sending, Cancelling
  <1>5. /\ \A h : /\ Owing(h)' <=> Owing(h)
                  /\ Standing(h)' = Standing(h)
                  /\ delayed_sends'[h] = delayed_sends[h]
        /\ \A q \in Rows :
              /\ DelayedRow(q)' <=> DelayedRow(q)
              /\ Unfired(q)' <=> Unfired(q)
              /\ \A h : Names(h, q)' <=> Names(h, q)
        /\ \A d \in CancelRows \ {c}, q \in Rows : Aims(d, q)' <=> Aims(d, q)
        /\ \A q \in Rows : Aims(c, q)' => q = r
        /\ Aims(c, r)'
    BY <1>1 DEF Owing, Standing, DelayedRow, Unfired, Reported, CountsTimer, Names, Aims
  <1>6. \A k, h : ~CancelAt(k, h, c)
    BY <1>1, TicketFacts DEF TicketsOwn
  <1>7. /\ delayed_sends[g].state = "CANCEL_RESERVED" /\ delayed_sends[g].id = executing.id
        /\ Owing(g) /\ Names(g, r)
    BY <1>0, <1>4 DEF Agreement, CancelInHand, Owing, Names
  <1>8. /\ \A q \in Rows : DelayedRow(q) /\ Names(g, q) => q = r
        /\ \A h \in Regs : Owing(h) /\ Names(h, r) => h = g
    BY <1>0, <1>7 DEF Agreement, OneRowPerId, OneRegPerId, Names
  <1>9. /\ \A h : SendPending(h)' <=> SendPending(h)
        /\ \A h : CancelPending(h) => CancelPending(h)'
        /\ CancelPending(g)'
    <2>1. PICK n \in Nat : n = Len(effects) + 1
      BY <1>3
    <2>2. CancelAt(n, g, c)'
      BY <1>2, <2>1
    <2> QED BY <1>2, <2>2 DEF SendPending, CancelPending
  <1>10. OneRegPerId' /\ OneRowPerId' /\ ReservedTogether'
    BY <1>1, <1>5 DEF Agreement, OneRegPerId, OneRowPerId, ReservedTogether
  <1>11. SendInHand' /\ CancelInHand'
    BY <1>4 DEF SendInHand, CancelInHand
  <1>12. SendsRegistered'
    <2> SUFFICES ASSUME NEW k \in Nat, NEW h \in Regs, NEW q \in Rows, SendAt(k, h, q)
                 PROVE  /\ Owing(h)' /\ Names(h, q)'
                        /\ k = 1 /\ registry_done' => Standing(h)' # "RESERVED"
                        /\ \A l \in Nat, d \in CancelRows : l < k => ~CancelAt(l, h, d)'
      BY <1>2 DEF SendsRegistered
    <2>1. k <= Len(effects)
      BY <1>3 DEF SendAt
    <2>2. \A l \in Nat : l < k => l # Len(effects) + 1
      BY <1>3, <2>1
    <2> QED BY <1>1, <1>2, <1>5, <2>2 DEF Agreement, SendsRegistered
  <1>13. CancelsRegistered'
    BY <1>1, <1>2, <1>3, <1>5, <1>7 DEF Agreement, CancelsRegistered
  <1>14. CancelledForAReason'
    BY <1>4, <1>5, <1>9 DEF Agreement, CancelledForAReason
  <1>15. CancelsAim'
    <2> SUFFICES ASSUME NEW k \in Nat, NEW h \in Regs, NEW d \in CancelRows, NEW q \in Rows,
                        CancelAt(k, h, d)'
                 PROVE  /\ Owing(h) /\ DelayedRow(q) /\ Names(h, q) => Aims(d, q)'
                        /\ Aims(d, q)' =>
                              /\ DelayedRow(q)
                              /\ \A f \in Regs : Owing(f) /\ Names(f, q) => f = h
      BY <1>5 DEF CancelsAim
    <2>1. CASE CancelAt(k, h, d)
      <3>1. d # c
        BY <1>6, <2>1
      <3> QED BY <1>5, <2>1, <3>1 DEF Agreement, CancelsAim
    <2>2. CASE d = c /\ h = g
      BY <1>0, <1>5, <1>8, <2>2
    <2> QED BY <1>2, <2>1, <2>2
  <1>16. RowsRegistered'
    BY <1>3, <1>5 DEF Agreement, RowsRegistered
  <1>17. ReportsAcknowledged'
    BY <1>1 DEF Agreement, ReportsAcknowledged, CancelRaced
  <1>18. RegsHaveRows'
    BY <1>1, <1>4, <1>5, <1>9 DEF Agreement, RegsHaveRows
  <1>19. timer_done_failed' = 0
    BY <1>1 DEF Agreement
  <1> QED BY <1>10, <1>11, <1>12, <1>13, <1>14, <1>15, <1>16, <1>17, <1>18, <1>19
          DEF Agreement
-----------------------------------------------------------------------------
(* The invariant. *)

LEMMA InitialAgreement == DelayInit => Agreement
  <1> SUFFICES ASSUME DelayInit PROVE Agreement
    OBVIOUS
  <1>1. /\ \A g \in Regs : ~Owing(g) /\ Standing(g) = "FREE"
        /\ \A g \in Regs : delayed_sends[g].state # "CANCEL_RESERVED"
    BY DEF DelayInit, FreeReg, Owing, Standing
  <1>2. \A r \in Rows : ~DelayedRow(r) /\ ~Unfired(r)
    BY DEF DelayInit, FreeRow, DelayedRow, Unfired, CountsTimer
  <1>3. \A k, g, i : ~SendAt(k, g, i) /\ ~CancelAt(k, g, i)
    <2>1. Len(effects) = 0
      BY DEF DelayInit
    <2>2. 1 .. Len(effects) = {}
      BY <2>1
    <2> QED BY <2>2 DEF SendAt, CancelAt
  <1>4. \A g : ~Sending(g) /\ ~Cancelling(g)
    BY DEF DelayInit, Idle, Sending, Cancelling
  <1>5. timer.pc # "reported" /\ timer_done_failed = 0
    BY DEF DelayInit, IdleTimer
  <1>6. OneRegPerId /\ OneRowPerId /\ SendInHand /\ CancelInHand
    BY <1>1, <1>2, <1>4 DEF OneRegPerId, OneRowPerId, SendInHand, CancelInHand
  <1>7. SendsRegistered /\ CancelsRegistered /\ CancelledForAReason /\ CancelsAim
    BY <1>1, <1>3 DEF SendsRegistered, CancelsRegistered, CancelledForAReason, CancelsAim
  <1>8. RowsRegistered /\ ReservedTogether /\ ReportsAcknowledged /\ RegsHaveRows
    BY <1>1, <1>2, <1>5 DEF RowsRegistered, ReservedTogether, ReportsAcknowledged, RegsHaveRows
  <1> QED BY <1>5, <1>6, <1>7, <1>8 DEF Agreement

LEMMA AgreementKept ==
    ASSUME RouterFacts, SessionFacts, ~failed => Agreement, ~ids_recur,
           [DelayNext]_allVars
    PROVE  ~failed' => Agreement'
  <1> SUFFICES ASSUME ~failed' PROVE Agreement'
    OBVIOUS
  <1>1. RouterFacts' /\ SessionFacts'
    BY FactsKept
  <1>2. ~failed
    <2>1. CASE end_microstep("commit") \/ end_microstep("discard")
      <3>1. phase[0] = "open" /\ journal[0] # <<>>
        BY <2>1 DEF end_microstep, EndMicrostep
      <3> QED BY <3>1 DEF SessionFacts, Phased
    <2>2. CASE UNCHANGED failed
      BY <2>2
    <2> QED BY <2>1, <2>2
            DEF DelayNext, execute_send, execute_cancel, host_prepare, host_prepare_send,
                host_prepare_cancel, Staged, host_refuses, rollback_prepared_effect,
                settle_registry, settle_ticket, report_send_done, host_close,
                host_close_cancels, HostSteps, sessionVars, allVars
  <1>3. Agreement
    BY <1>2
  <1>4. CASE SessionStep
    BY <1>2, <1>3, <1>4, SessionStepAgrees
  <1>5. CASE host_prepare_send
    <2>1. PICK r \in Rows : SendJoins(r)
      BY <1>5, SendAdmitted DEF SessionFacts
    <2> QED BY <1>3, <2>1, SendAdmissionAgrees
  <1>6. CASE host_prepare_cancel
    <2>1. PICK c \in CancelRows, r \in Rows : CancelJoins(c, r)
      BY <1>6, CancelAdmitted DEF SessionFacts
    <2> QED BY <1>3, <2>1, CancelAdmissionAgrees
  <1>7. CASE end_microstep("commit")
    BY <1>3, <1>7, CommitStartAgrees
  <1>8. CASE end_microstep("discard")
    BY <1>8 DEF end_microstep
  <1>9. CASE settle_ticket
    BY <1>1, <1>2, <1>3, <1>9, SettlementAgrees
  <1>10. CASE report_send_done
    BY <1>3, <1>10, ReportAgrees
  <1>11. CASE HostSteps \/ host_close_cancels
    <2>1. HostMoves
      BY <1>11, HostStepMoves
    <2>2. /\ UNCHANGED <<delayed_sends, executing, effects, registry_done>>
          /\ binding' = "open" => binding = "open"
      BY <1>11 DEF HostSteps, host_close_cancels, sessionVars
    <2> QED BY <1>1, <1>3, <2>1, <2>2, HostKeepsAgreement
  <1>12. CASE UNCHANGED allVars
    <2>1. /\ Still /\ UNCHANGED <<delayed_sends, executing, registry_done, phase, binding>>
      BY <1>12 DEF allVars, sessionVars, Still, vars, ledger, lanes, intents, life, outcomes,
                   journals
    <2>2. \A g \in Regs : /\ Sending(g)' <=> Sending(g)
                          /\ Cancelling(g)' <=> Cancelling(g)
      BY <2>1 DEF Sending, Cancelling
    <2> QED BY <1>3, <2>1, <2>2, QuietAgrees
  <1> QED BY <1>4, <1>5, <1>6, <1>7, <1>8, <1>9, <1>10, <1>11, <1>12
          DEF DelayNext, SessionStep

\* While no microstep was rolled back, and for a document that does not send
\* an id again before its Event is delivered, the registry of the Session and
\* the ledger of the router agree in every state: the inductive invariant.
THEOREM DelayInvariant == ~ids_recur => (DelaySpec => []DelayInv)
  <1> SUFFICES ASSUME ~ids_recur PROVE DelaySpec => []DelayInv
    OBVIOUS
  <1>1. DelayInit => DelayInv
    BY InitialFacts, InitialAgreement DEF DelayInv
  <1>2. DelayInv /\ [DelayNext]_allVars => DelayInv'
    BY FactsKept, AgreementKept DEF DelayInv
  <1> QED BY <1>1, <1>2, PTL DEF DelaySpec
LEMMA TypesAgree == RouterFacts /\ SessionFacts => DelayTypeOK
  <1>1. RouterInv => TypeOK
    BY DEF RouterInv, TopologyInv, LedgerInv, StampInv, IntentInv, JournalInv,
           LaneInv, OutcomeInv, LifeInv, TypeOK
  <1> QED BY <1>1 DEF RouterFacts, SessionFacts, SessionTypes, Aligned, DelayTypeOK

LEMMA RegistriesMatch == DelayInv => RegistryMatchesLedger
  <1> SUFFICES ASSUME DelayInv, Settled
               PROVE  {delayed_sends[g].id : g \in Regs \ FreeRegs} = UnfiredIds
    BY DEF RegistryMatchesLedger
  <1>0. /\ Agreement /\ delayed_sends \in [Regs -> RegRow]
        /\ executing.pc = "idle" /\ timer.pc # "reported" /\ binding = "open" /\ ~closed
    BY DEF DelayInv, Settled, SessionFacts, SessionTypes, RegRow
  <1>1. \A k, g, i : ~SendAt(k, g, i) /\ ~CancelAt(k, g, i)
    <2>1. Len(effects) = 0
      BY DEF DelayInv, Settled, SessionFacts, Aligned
    <2>2. 1 .. Len(effects) = {}
      BY <2>1
    <2> QED BY <2>2 DEF SendAt, CancelAt
  <1>2. \A g : ~Sending(g) /\ ~Cancelling(g) /\ ~SendPending(g) /\ ~CancelPending(g)
    BY <1>0, <1>1 DEF Sending, Cancelling, SendPending, CancelPending
  <1>3. \A g : g \in Regs \ FreeRegs <=> g \in Regs /\ Owing(g)
    BY DEF FreeRegs, Owing
  <1>4. \A r \in Rows :
           Unfired(r) <=> CountsTimer(rows[r]) /\ ~rows[r].fire_won_cancel
    BY <1>0 DEF Unfired, Reported
  <1>5. ASSUME NEW g \in Regs, Owing(g)
        PROVE  \E r \in Rows : Unfired(r) /\ Names(g, r)
    <2>1. delayed_sends[g].state # "CANCEL_RESERVED"
      BY <1>0, <1>2 DEF Agreement, CancelledForAReason
    <2>2. Standing(g) # "RESERVED"
      BY <1>0, <1>2 DEF Agreement, RegsHaveRows
    <2>3. delayed_sends[g] \in RegRow
      BY <1>0
    <2>4. Standing(g) = "ACTIVE"
      BY <1>5, <2>1, <2>2, <2>3 DEF Standing, Owing, RegRow, RegStates
    <2> QED BY <1>0, <2>4 DEF Agreement, RegsHaveRows
  <1>6. ASSUME NEW r \in Rows, Unfired(r)
        PROVE  \E g \in Regs : Owing(g) /\ Names(g, r)
    BY <1>0, <1>1, <1>6 DEF Agreement, RowsRegistered, Window
  <1> QED BY <1>3, <1>4, <1>5, <1>6 DEF UnfiredIds, Names

\* The sendids the Session owes are those of the unfired rows of the ledger
\* whenever the Session is between microsteps, and every deadline that races a
\* cancel is recognised by run_due: for every capacity of the two registries,
\* of the journal and of the timers.
THEOREM DelaySoundness == ~ids_recur => (DelaySpec => []DelaySound)
  <1> SUFFICES ASSUME ~ids_recur PROVE DelaySpec => []DelaySound
    OBVIOUS
  <1>1. DelayInv => NoProtocolFailure
    BY DEF DelayInv, Agreement, NoProtocolFailure
  <1>2. DelayInv => DelaySound
    BY <1>1, TypesAgree, RegistriesMatch DEF DelayInv, DelaySound
  <1>3. DelaySpec => []DelayInv
    BY DelayInvariant
  <1> QED BY <1>2, <1>3, PTL

\* A delayed row that is given up before drain has it goes for one of the
\* named reasons.
LEMMA GivenUpForAReason ==
    ASSUME DelayInv, [DelayNext]_allVars, NEW r \in Rows,
           rows[r].delay # 0, rows[r].state \in {"DELAYED", "FIRING", "READY"},
           rows'[r].identity # rows[r].identity
    PROVE  \/ closed' \/ binding # "open" \/ failed
           \/ \E c \in CancelRows :
                /\ cancel_rows[c].in_use /\ ~cancel_rows'[c].in_use
                /\ cancel_rows[c].target_identity = rows[r].identity
  <1> SUFFICES ASSUME ~failed, ~closed', binding = "open"
               PROVE  \E c \in CancelRows :
                        /\ cancel_rows[c].in_use /\ ~cancel_rows'[c].in_use
                        /\ cancel_rows[c].target_identity = rows[r].identity
    OBVIOUS
  <1>0. /\ RouterFacts /\ SessionFacts /\ Agreement /\ RouterFacts'
        /\ rows[r] \in Row
    BY FactsKept DEF DelayInv, RouterFacts, RouterInv, LedgerInv
  <1>1. CASE UNCHANGED rows
    BY <1>1
  <1>2. CASE host_prepare_send
    <2>1. PICK q \in Rows : SendJoins(q)
      BY <1>0, <1>2, SendAdmitted DEF SessionFacts
    <2>2. r # q
      BY <2>1 DEF SendJoins
    <2> QED BY <2>1, <2>2 DEF SendJoins
  <1>3. CASE settle_ticket
    <2>1. phase[0] # "discard"
      BY <1>0 DEF SessionFacts, Phased
    <2>2. \/ \E q \in Rows : ticket_commit(0, q)
          \/ \E c \in CancelRows : cancel_commit(0, c)
      BY <1>3, <2>1 DEF settle_ticket, ticket_discard, cancel_discard, NextTicket
    <2>3. ASSUME NEW q \in Rows, ticket_commit(0, q) PROVE FALSE
      <3>1. SendCommits(q)
        BY <1>0, <2>3, SendCommitted DEF SessionFacts
      <3>2. r # q
        BY <3>1 DEF SendCommits
      <3> QED BY <3>1, <3>2 DEF SendCommits
    <2>4. ASSUME NEW c \in CancelRows, cancel_commit(0, c)
          PROVE  /\ cancel_rows[c].in_use /\ ~cancel_rows'[c].in_use
                 /\ cancel_rows[c].target_identity = rows[r].identity
      <3>1. CancelCommits(c)
        BY <1>0, <2>4, CancelCommitted DEF SessionFacts
      <3>2. rows'[r] # rows[r]
        OBVIOUS
      <3>3. r = cancel_rows[c].target /\ StillTargets(cancel_rows[c])
        BY <3>1, <3>2 DEF CancelCommits
      <3> QED BY <3>1, <3>3 DEF CancelCommits, StillTargets, FreeCancel
    <2> QED BY <2>2, <2>3, <2>4
  <1>4. CASE HostSteps \/ host_close_cancels
    <2>1. HostMoves
      BY <1>0, <1>4, HostStepMoves
    <2>2. ~closed /\ (Reported(r) => timer.settled \/ CancelRaced(timer.row))
      BY <1>0, <2>1 DEF HostMoves, Agreement, ReportsAcknowledged, Reported
    <2>3. \A from, to : ~Passes(r, from, to)
      BY <1>0 DEF Passes, Row
    <2> QED BY <2>1, <2>2, <2>3 DEF HostMoves, Drops
  <1>5. CASE SessionStep
    <2>1. UNCHANGED vars
      BY <1>0, <1>5, AlonePhases DEF SessionFacts
    <2> QED BY <1>1, <2>1 DEF vars, ledger
  <1>6. CASE \/ host_prepare_cancel \/ report_send_done
             \/ end_microstep("commit") \/ end_microstep("discard")
    BY <1>1, <1>6 DEF host_prepare_cancel, prepare_cancel, report_send_done, run_due_report,
                      end_microstep, EndMicrostep, ledger
  <1>7. CASE UNCHANGED allVars
    BY <1>1, <1>7 DEF allVars, vars, ledger
  <1> QED BY <1>2, <1>3, <1>4, <1>5, <1>6, <1>7 DEF DelayNext, SessionStep

\* A delayed Event that was committed ends undelivered only because of its own
\* cancel, or because its source failed or it or the router was closed.
THEOREM DelayedEventsSurvive == ~ids_recur => (DelaySpec => NoDelayedEventIsLost)
  <1> SUFFICES ASSUME ~ids_recur PROVE DelaySpec => NoDelayedEventIsLost
    OBVIOUS
  <1> DEFINE Lost ==
        \A r \in Rows :
           /\ rows[r].delay # 0 /\ rows[r].state \in {"DELAYED", "FIRING", "READY"}
           /\ fate[rows[r].identity] = "live"
           /\ fate'[rows[r].identity] = "cancelled"
           => \/ closed' \/ binding # "open" \/ failed
              \/ \E c \in CancelRows :
                   /\ cancel_rows[c].in_use /\ ~cancel_rows'[c].in_use
                   /\ cancel_rows[c].target_identity = rows[r].identity
  <1>1. DelayInv /\ DelayInv' /\ [DelayNext]_allVars => [Lost]_allVars
    <2> SUFFICES ASSUME DelayInv, DelayInv', [DelayNext]_allVars PROVE Lost
      OBVIOUS
    <2> SUFFICES ASSUME NEW r \in Rows, rows[r].delay # 0,
                        rows[r].state \in {"DELAYED", "FIRING", "READY"},
                        fate'[rows[r].identity] = "cancelled"
                 PROVE  \/ closed' \/ binding # "open" \/ failed
                        \/ \E c \in CancelRows :
                             /\ cancel_rows[c].in_use /\ ~cancel_rows'[c].in_use
                             /\ cancel_rows[c].target_identity = rows[r].identity
      OBVIOUS
    <2>1. PICK i \in 1 .. MaxU64 : i = rows[r].identity
      <3>1. /\ rows[r].identity # 0 /\ rows[r].identity <= next_row_identity
            /\ next_row_identity \in 0 .. MaxU64 /\ rows[r] \in Row
        BY DEF DelayInv, RouterFacts, RouterInv, LedgerInv, StampInv, EventInv, IdentityInv
      <3>2. rows[r].identity \in Nat
        BY <3>1, LimitAssumption DEF Row
      <3> QED BY <3>1, <3>2, LimitAssumption
    <2>2. fate'[i] # "live"
      BY <2>1
    <2>3. rows'[r].identity # i
      BY <2>2 DEF DelayInv, RouterFacts, EventInv, IdentityInv
    <2> QED BY <2>1, <2>3, GivenUpForAReason
  <1>2. DelaySpec => []DelayInv
    BY DelayInvariant
  <1> QED BY <1>1, <1>2, PTL DEF DelaySpec, NoDelayedEventIsLost
=============================================================================
