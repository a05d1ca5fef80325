-------------------------- MODULE HostRouterProofs --------------------------
(***************************************************************************)
(* Proofs about the Host router, for every capacity and every limit.       *)
(***************************************************************************)
EXTENDS HostRouter, FiniteSetTheorems, WellFoundedInduction, TLAPS

(***************************************************************************)
(* The inductive invariant, cut along the state it speaks of, so that an   *)
(* action only has to be compared with the parts it writes.                *)
(***************************************************************************)
LiveSlots == {s \in Slots : endpoints[s].live}
LiveRoutes == {i \in Routes : invoke_routes[i].live}
UsedIntents == {c \in CancelRows : cancel_rows[c].in_use}

TopologyInv ==
    /\ endpoints \in [Slots -> Endpoint]
    /\ endpoint_count \in Nat
    /\ invoke_routes \in [Routes -> Route]
    /\ invoke_count \in Nat
    /\ endpoint_count = Cardinality(LiveSlots)
    /\ invoke_count = Cardinality(LiveRoutes)

LedgerInv ==
    /\ rows \in [Rows -> Row]
    /\ pending \in Nat /\ reserved \in Nat /\ timer_pending \in Nat
    /\ invariant_failures \in Nat
    /\ pending = Cardinality(UsedRows)
    /\ reserved = Cardinality(ReservedRows)
    /\ timer_pending = Cardinality(TimerRows)
    /\ \A r \in Rows :
          rows[r].state \in {"DELAYED", "FIRING"} => rows[r].delay # 0

StampInv ==
    /\ next_row_identity \in 0 .. MaxU64
    /\ next_sequence \in 0 .. MaxU64

IntentInv ==
    /\ cancel_rows \in [CancelRows -> CancelRow]
    /\ cancel_pending \in Nat
    /\ cancel_pending = Cardinality(UsedIntents)

JournalInv ==
    /\ journal \in [Journals -> Seq(Ticket)]
    /\ phase \in [Journals -> Phases]

LaneInv ==
    /\ drain \in [pc : LaneStates, row : Rows, budget : 0 .. MaxBatch]
    /\ timer \in [pc : LaneStates, row : Rows, budget : 0 .. MaxBatch,
                  settled : BOOLEAN]
    /\ aborting \in Refs
    /\ drain.pc \in {"scan", "busy"} => drain.budget # 0
    /\ timer.pc \in {"scan", "busy", "reported"} => timer.budget # 0

\* The row a lane has claimed is still the lane's.
ClaimInv ==
    /\ drain.pc = "busy" => rows[drain.row].state = "INFLIGHT"
    /\ timer.pc \in {"busy", "reported"} => rows[timer.row].state = "FIRING"

OutcomeInv ==
    /\ discarded \in Nat /\ delivered \in Nat /\ cancelled \in Nat
    /\ timer_done_failed \in Nat
    /\ fate \in [1 .. MaxU64 -> Fates]

LifeInv == closed \in BOOLEAN /\ destroyed \in BOOLEAN /\ now \in Nat

RouterInv ==
    /\ TopologyInv /\ LedgerInv /\ StampInv /\ IntentInv /\ JournalInv
    /\ LaneInv /\ ClaimInv /\ OutcomeInv /\ LifeInv /\ Accounting

-----------------------------------------------------------------------------
(* Facts about the tables. *)

\* Every table is finite, and so is every set of its rows.
LEMMA FiniteTables ==
    /\ IsFiniteSet(Slots) /\ IsFiniteSet(Rows)
    /\ IsFiniteSet(Routes) /\ IsFiniteSet(CancelRows)
  BY FS_Interval, CapacityAssumption DEF Slots, Rows, Routes, CancelRows

\* Each table has a first row, and its index is a natural number.
LEMMA TableIndices ==
    /\ 0 \in Rows /\ 0 \in Slots
    /\ Rows \subseteq Nat /\ Slots \subseteq Nat
    /\ Routes \subseteq Nat /\ CancelRows \subseteq Nat
    /\ NoRef \in Refs
  BY CapacityAssumption, LimitAssumption
     DEF Slots, Rows, Routes, CancelRows, NoRef, Refs

\* A router fresh from scxml_host_router_init satisfies the invariant: every
\* table is blank and every counter is zero.
LEMMA InitialRouter == Init => RouterInv
  <1> SUFFICES ASSUME Init PROVE RouterInv
    OBVIOUS
  <1> USE CapacityAssumption, LimitAssumption, NameAssumption, TableIndices
  <1>1. TopologyInv
    <2>1. LiveSlots = {} /\ LiveRoutes = {}
      BY DEF Init, LiveSlots, LiveRoutes, BlankEndpoint, FreeRoute
    <2>2. endpoints \in [Slots -> Endpoint]
      BY DEF Init, BlankEndpoint, Endpoint
    <2>3. invoke_routes \in [Routes -> Route]
      BY DEF Init, FreeRoute, Route
    <2> QED BY <2>1, <2>2, <2>3, FS_EmptySet DEF Init, TopologyInv
  <1>2. LedgerInv
    <2>1. UsedRows = {} /\ ReservedRows = {} /\ TimerRows = {}
      BY DEF Init, UsedRows, ReservedRows, TimerRows, CountsTimer, FreeRow
    <2>2. rows \in [Rows -> Row]
      BY DEF Init, FreeRow, Row, RowStates
    <2> QED BY <2>1, <2>2, FS_EmptySet DEF Init, LedgerInv, FreeRow
  <1>3. StampInv /\ Accounting
    BY DEF Init, StampInv, Accounting
  <1>8. LifeInv
    BY DEF Init, LifeInv
  <1>6. JournalInv
    BY DEF Init, JournalInv, Phases
  <1>7. OutcomeInv
    BY DEF Init, OutcomeInv, Fates
  <1>4. IntentInv
    <2>1. UsedIntents = {}
      BY DEF Init, UsedIntents, FreeCancel
    <2>2. cancel_rows \in [CancelRows -> CancelRow]
      BY DEF Init, FreeCancel, CancelRow
    <2> QED BY <2>1, <2>2, FS_EmptySet DEF Init, IntentInv
  <1>5. LaneInv /\ ClaimInv
    BY DEF Init, LaneInv, ClaimInv, IdleDrain, IdleTimer, LaneStates
  <1> QED BY <1>1, <1>2, <1>3, <1>4, <1>5, <1>6, <1>7, <1>8 DEF RouterInv

-----------------------------------------------------------------------------
(* release_locked under the invariant. *)

\* The counters bound what they count, so release_locked never stops short.
LEMMA EveryRowIsReleasable ==
    ASSUME LedgerInv, NEW D \in SUBSET Rows
    PROVE  Releasable(D) = D \cap UsedRows
  <1>1. IsFiniteSet(UsedRows)
    BY FiniteTables, FS_Subset DEF UsedRows
  <1>2. ASSUME NEW r \in D \cap UsedRows
        PROVE  Cardinality({q \in D \cap UsedRows : q <= r}) <= pending
    <2>1. {q \in D \cap UsedRows : q <= r} \in SUBSET UsedRows
      OBVIOUS
    <2> QED BY <2>1, <1>1, FS_Subset DEF LedgerInv
  <1> QED BY <1>2 DEF Releasable

\* Releasing a set of rows keeps the counters equal to what they count, and
\* leaves the other rows alone.
LEMMA ReleaseKeepsLedger ==
    ASSUME LedgerInv, NEW D \in SUBSET Rows, NEW end \in Fates,
           fate \in [1 .. MaxU64 -> Fates],
           release_locked(D, end), invariant_failures' \in Nat
    PROVE  /\ LedgerInv'
           /\ fate' \in [1 .. MaxU64 -> Fates]
           /\ pending' = pending - Cardinality(D \cap UsedRows)
           /\ \A r \in Rows \ D : rows'[r] = rows[r]
  <1> DEFINE R == D \cap UsedRows
  <1>1. Releasable(D) = R
    BY EveryRowIsReleasable
  <1>2. rows' = [r \in Rows |-> IF r \in R THEN FreeRow ELSE rows[r]]
    BY <1>1 DEF release_locked
  <1>3. /\ pending' = pending - Cardinality(R)
        /\ reserved' = Minus(reserved, Cardinality(R \cap ReservedRows))
        /\ timer_pending' = Minus(timer_pending, Cardinality(R \cap TimerRows))
    BY <1>1 DEF release_locked
  <1>4. FreeRow \in Row
    BY LimitAssumption, TableIndices DEF FreeRow, Row, RowStates
  <1>5. rows' \in [Rows -> Row]
    BY <1>2, <1>4 DEF LedgerInv
  <1>6. /\ UsedRows' = UsedRows \ R
        /\ ReservedRows' = ReservedRows \ R
        /\ TimerRows' = TimerRows \ R
    BY <1>2 DEF UsedRows, ReservedRows, TimerRows, CountsTimer, FreeRow
  <1>7. /\ IsFiniteSet(UsedRows) /\ IsFiniteSet(ReservedRows)
        /\ IsFiniteSet(TimerRows) /\ IsFiniteSet(R)
    BY FiniteTables, FS_Subset DEF UsedRows, ReservedRows, TimerRows
  <1>8. /\ Cardinality(UsedRows \ R) = Cardinality(UsedRows) - Cardinality(R)
        /\ Cardinality(UsedRows \ R) \in Nat
    <2>1. UsedRows \cap R = R
      OBVIOUS
    <2>2. IsFiniteSet(UsedRows \ R)
      BY <1>7, FS_Difference
    <2>3. Cardinality(UsedRows \ R) \in Nat
      BY <2>2, FS_CardinalityType
    <2>4. Cardinality(UsedRows \ R)
            = Cardinality(UsedRows) - Cardinality(UsedRows \cap R)
      BY <1>7, FS_Difference
    <2> QED BY <2>1, <2>3, <2>4
  <1>9. /\ Cardinality(ReservedRows \ R)
              = Cardinality(ReservedRows) - Cardinality(R \cap ReservedRows)
        /\ Cardinality(ReservedRows \ R) \in Nat
        /\ Cardinality(R \cap ReservedRows) \in Nat
    <2>1. ReservedRows \cap R = R \cap ReservedRows
      OBVIOUS
    <2>2. IsFiniteSet(ReservedRows \ R) /\ IsFiniteSet(R \cap ReservedRows)
      BY <1>7, FS_Difference, FS_Intersection
    <2>3. /\ Cardinality(ReservedRows \ R) \in Nat
          /\ Cardinality(R \cap ReservedRows) \in Nat
      BY <2>2, FS_CardinalityType
    <2>4. Cardinality(ReservedRows \ R)
            = Cardinality(ReservedRows) - Cardinality(ReservedRows \cap R)
      BY <1>7, FS_Difference
    <2> QED BY <2>1, <2>3, <2>4
  <1>10. /\ Cardinality(TimerRows \ R)
               = Cardinality(TimerRows) - Cardinality(R \cap TimerRows)
         /\ Cardinality(TimerRows \ R) \in Nat
         /\ Cardinality(R \cap TimerRows) \in Nat
    <2>1. TimerRows \cap R = R \cap TimerRows
      OBVIOUS
    <2>2. IsFiniteSet(TimerRows \ R) /\ IsFiniteSet(R \cap TimerRows)
      BY <1>7, FS_Difference, FS_Intersection
    <2>3. /\ Cardinality(TimerRows \ R) \in Nat
          /\ Cardinality(R \cap TimerRows) \in Nat
      BY <2>2, FS_CardinalityType
    <2>4. Cardinality(TimerRows \ R)
            = Cardinality(TimerRows) - Cardinality(TimerRows \cap R)
      BY <1>7, FS_Difference
    <2> QED BY <2>1, <2>3, <2>4
  <1>11. /\ pending' \in Nat /\ pending' = Cardinality(UsedRows')
         /\ reserved' \in Nat /\ reserved' = Cardinality(ReservedRows')
         /\ timer_pending' \in Nat /\ timer_pending' = Cardinality(TimerRows')
    BY <1>3, <1>6, <1>8, <1>9, <1>10, SMTT(30) DEF LedgerInv, Minus
  <1>12. \A r \in Rows :
            rows'[r].state \in {"DELAYED", "FIRING"} => rows'[r].delay # 0
    BY <1>2 DEF FreeRow, LedgerInv
  <1>13. LedgerInv'
    BY <1>5, <1>11, <1>12 DEF LedgerInv
  <1>14. fate' \in [1 .. MaxU64 -> Fates]
    BY DEF release_locked
  <1>15. \A r \in Rows \ D : rows'[r] = rows[r]
    BY <1>2
  <1> QED BY <1>3, <1>13, <1>14, <1>15

\* What release_locked adds to the failure counter is a natural number.
LEMMA ReleaseFailuresType ==
    ASSUME LedgerInv, NEW D \in SUBSET Rows
    PROVE  release_failures(D) \in Nat
  <1> DEFINE R == D \cap UsedRows
  <1>1. Releasable(D) = R
    BY EveryRowIsReleasable
  <1>2. /\ IsFiniteSet(D \ R) /\ IsFiniteSet(R \cap ReservedRows)
        /\ IsFiniteSet(R \cap TimerRows)
    BY FiniteTables, FS_Subset
  <1>3. /\ Cardinality(D \ R) \in Nat /\ Cardinality(R \cap ReservedRows) \in Nat
        /\ Cardinality(R \cap TimerRows) \in Nat
    BY <1>2, FS_CardinalityType
  <1>4. /\ Shortfall(reserved, Cardinality(R \cap ReservedRows)) \in Nat
        /\ Shortfall(timer_pending, Cardinality(R \cap TimerRows)) \in Nat
    BY <1>3 DEF Shortfall, LedgerInv
  <1> QED BY <1>1, <1>3, <1>4 DEF release_failures

\* The loops of abort, cancel, cancel_source and close: rows that are in use
\* and held by no lane are dropped and counted.
LEMMA CancelKeepsLedger ==
    ASSUME LedgerInv, OutcomeInv, Accounting, ClaimInv, StampInv,
           NEW D \in SUBSET Rows,
           \A r \in D : rows[r].state \in {"RESERVED", "READY", "DELAYED"},
           cancel_rows_locked(D),
           UNCHANGED <<next_row_identity, discarded, delivered,
                       timer_done_failed, drain, timer>>,
           drain.row \in Rows, timer.row \in Rows
    PROVE  LedgerInv' /\ OutcomeInv' /\ Accounting' /\ ClaimInv'
  <1>1. release_locked(D, "cancelled") /\ "cancelled" \in Fates
    BY DEF cancel_rows_locked, Fates
  <1>2. invariant_failures' \in Nat
    BY ReleaseFailuresType DEF cancel_rows_locked, LedgerInv
  <1>3. /\ LedgerInv' /\ fate' \in [1 .. MaxU64 -> Fates]
        /\ pending' = pending - Cardinality(D \cap UsedRows)
        /\ \A r \in Rows \ D : rows'[r] = rows[r]
    BY <1>1, <1>2, ReleaseKeepsLedger DEF OutcomeInv
  <1>4. D \cap UsedRows = D
    BY DEF UsedRows
  <1>5. Cardinality(D) \in Nat
    BY FiniteTables, FS_Subset, FS_CardinalityType
  <1>6. cancelled' = cancelled + Cardinality(D)
    BY DEF cancel_rows_locked
  <1>7. OutcomeInv'
    BY <1>3, <1>5, <1>6 DEF OutcomeInv
  <1>8. Accounting'
    <2>1. pending' = pending - Cardinality(D)
      BY <1>3, <1>4
    <2>2. pending \in Nat /\ cancelled \in Nat /\ discarded \in Nat
             /\ delivered \in Nat
      BY DEF LedgerInv, OutcomeInv
    <2> QED BY <2>1, <2>2, <1>5, <1>6 DEF Accounting
  <1>9. ClaimInv'
    <2>1. drain.pc = "busy" => drain.row \in Rows \ D
      BY DEF ClaimInv
    <2>2. timer.pc \in {"busy", "reported"} => timer.row \in Rows \ D
      BY DEF ClaimInv
    <2> QED BY <1>3, <2>1, <2>2 DEF ClaimInv
  <1> QED BY <1>3, <1>7, <1>8, <1>9

-----------------------------------------------------------------------------
(* Endpoint administration keeps the invariant. *)

\* A row of the endpoint table changes; the live slots follow.
LEMMA PublishKeepsTopology ==
    ASSUME TopologyInv, NEW s \in Slots, NEW e \in Endpoint,
           ~endpoints[s].live, e.live,
           endpoints' = [endpoints EXCEPT ![s] = e],
           endpoint_count' = endpoint_count + 1,
           UNCHANGED <<invoke_routes, invoke_count>>
    PROVE  TopologyInv'
  <1>1. IsFiniteSet(LiveSlots)
    BY FiniteTables, FS_Subset DEF LiveSlots
  <1>2. LiveSlots' = LiveSlots \cup {s} /\ s \notin LiveSlots
    BY DEF LiveSlots, TopologyInv
  <1>3. Cardinality(LiveSlots') = Cardinality(LiveSlots) + 1
    BY <1>1, <1>2, FS_AddElement
  <1>4. LiveRoutes' = LiveRoutes
    BY DEF LiveRoutes
  <1>5. endpoints' \in [Slots -> Endpoint]
    BY DEF TopologyInv
  <1> QED BY <1>3, <1>4, <1>5 DEF TopologyInv

\* Taking a live endpoint down blanks its slot and lowers endpoint_count by one.
LEMMA DetachKeepsTopology ==
    ASSUME TopologyInv, NEW ref \in Refs, matches(ref), detach_endpoint(ref),
           UNCHANGED <<invoke_routes, invoke_count>>
    PROVE  TopologyInv'
  <1>1. ref.slot \in Slots /\ ref.generation \in 0 .. MaxU32
    BY DEF Refs
  <1>2. endpoints' \in [Slots -> Endpoint]
    BY <1>1, TableIndices
       DEF TopologyInv, detach_endpoint, BlankEndpoint, Endpoint
  <1>3. LiveSlots' = LiveSlots \ {ref.slot} /\ ref.slot \in LiveSlots
    BY <1>1 DEF LiveSlots, detach_endpoint, BlankEndpoint, TopologyInv, matches
  <1>4. IsFiniteSet(LiveSlots) /\ IsFiniteSet(LiveSlots')
    BY <1>3, FiniteTables, FS_Subset, FS_RemoveElement DEF LiveSlots
  <1>5. /\ Cardinality(LiveSlots') = Cardinality(LiveSlots) - 1
        /\ Cardinality(LiveSlots') \in Nat
    BY <1>3, <1>4, FS_RemoveElement, FS_CardinalityType
  <1>6. LiveRoutes' = LiveRoutes
    BY DEF LiveRoutes
  <1> QED BY <1>2, <1>5, <1>6 DEF TopologyInv, detach_endpoint

\* Changing the relations or the Session of a slot, but not its liveness.
LEMMA RelinkKeepsTopology ==
    ASSUME TopologyInv, NEW s \in Slots, NEW e \in Endpoint,
           e.live = endpoints[s].live,
           endpoints' = [endpoints EXCEPT ![s] = e],
           UNCHANGED <<endpoint_count, invoke_routes, invoke_count>>
    PROVE  TopologyInv'
  <1>1. LiveSlots' = LiveSlots /\ LiveRoutes' = LiveRoutes
    BY DEF LiveSlots, LiveRoutes, TopologyInv
  <1>2. endpoints' \in [Slots -> Endpoint]
    BY DEF TopologyInv
  <1> QED BY <1>1, <1>2 DEF TopologyInv

\* Everything but the topology stays.
LEMMA OnlyTopology ==
    ASSUME RouterInv, TopologyInv',
           UNCHANGED <<ledger, stamps, intents, lanes, journals, outcomes,
                       life, now>>
    PROVE  RouterInv'
  <1> USE DEF ledger, stamps, intents, lanes, journals, outcomes, life
  <1>1. LedgerInv'
    BY DEF RouterInv, LedgerInv, UsedRows, ReservedRows, TimerRows, CountsTimer
  <1>2. StampInv' /\ JournalInv' /\ OutcomeInv'
    BY DEF RouterInv, StampInv, JournalInv, OutcomeInv
  <1>3. IntentInv'
    BY DEF RouterInv, IntentInv, UsedIntents
  <1>4. LaneInv' /\ ClaimInv'
    BY DEF RouterInv, LaneInv, ClaimInv
  <1>5. LifeInv'
    BY DEF RouterInv, LifeInv
  <1>6. Accounting'
    BY DEF RouterInv, Accounting
  <1> QED BY <1>1, <1>2, <1>3, <1>4, <1>5, <1>6 DEF RouterInv

\* The generation of an unused slot can still grow.
LEMMA NewEndpointType ==
    ASSUME TopologyInv, NEW s \in Slots, FirstUnusedSlot(s),
           NEW session \in Sessions \cup {NoSession}
    PROVE  NewEndpoint(s, session) \in Endpoint /\ NewEndpoint(s, session).live
  <1>1. endpoints[s].generation \in 0 .. MaxU32 /\ endpoints[s].generation # MaxU32
    BY DEF FirstUnusedSlot, IsFirst, TopologyInv, Endpoint
  <1>2. endpoints[s].generation + 1 \in 0 .. MaxU32
    BY <1>1, LimitAssumption
  <1> QED BY <1>2, TableIndices DEF NewEndpoint, Endpoint

\* Every endpoint and alias operation keeps the invariant.
LEMMA AdministerKeeps ==
    ASSUME RouterInv, Administer
    PROVE  RouterInv'
  <1> USE TableIndices, LimitAssumption
  <1>0. TopologyInv /\ endpoints \in [Slots -> Endpoint]
    BY DEF RouterInv, TopologyInv
  <1>1. CASE reserve
    <2>1. PICK s \in Slots :
            /\ FirstUnusedSlot(s)
            /\ endpoints' = [endpoints EXCEPT ![s] = NewEndpoint(s, NoSession)]
      BY <1>1 DEF reserve
    <2>2. NewEndpoint(s, NoSession) \in Endpoint /\ NewEndpoint(s, NoSession).live
      BY <1>0, <2>1, NewEndpointType
    <2>3. ~endpoints[s].live
      BY <2>1 DEF FirstUnusedSlot, IsFirst
    <2>4. TopologyInv'
      BY <1>0, <1>1, <2>1, <2>2, <2>3, PublishKeepsTopology DEF reserve
    <2> QED BY <1>1, <2>4, OnlyTopology DEF reserve
  <1>2. ASSUME NEW session \in Sessions, attach(session)
        PROVE  RouterInv'
    <2>1. PICK s \in Slots :
            /\ FirstUnusedSlot(s)
            /\ endpoints' = [endpoints EXCEPT ![s] = NewEndpoint(s, session)]
      BY <1>2 DEF attach
    <2>2. NewEndpoint(s, session) \in Endpoint /\ NewEndpoint(s, session).live
      BY <1>0, <2>1, NewEndpointType
    <2>3. ~endpoints[s].live
      BY <2>1 DEF FirstUnusedSlot, IsFirst
    <2>4. TopologyInv'
      BY <1>0, <1>2, <2>1, <2>2, <2>3, PublishKeepsTopology DEF attach
    <2> QED BY <1>2, <2>4, OnlyTopology DEF attach
  <1>3. ASSUME NEW ref \in Refs, NEW session \in Sessions, activate(ref, session)
        PROVE  RouterInv'
    <2> DEFINE e == [endpoints[ref.slot] EXCEPT !.session = session,
                                                !.active = TRUE]
    <2>1. ref.slot \in Slots
      BY DEF Refs
    <2>2. e \in Endpoint /\ e.live = endpoints[ref.slot].live
      <3>1. endpoints[ref.slot] \in Endpoint
        BY <1>0, <2>1
      <3> QED BY <3>1 DEF Endpoint
    <2>3. endpoints' = [endpoints EXCEPT ![ref.slot] = e]
      BY <1>0, <1>3, <2>1 DEF activate, Endpoint
    <2>4. TopologyInv'
      BY <1>0, <1>3, <2>1, <2>2, <2>3, RelinkKeepsTopology DEF activate
    <2> QED BY <1>3, <2>4, OnlyTopology DEF activate
  <1>4. ASSUME NEW ref \in Refs, abort(ref)
        PROVE  RouterInv'
    <2> DEFINE D == {r \in AcceptedRows : Involves(rows[r], ref)}
    <2>1. /\ D \in SUBSET Rows
          /\ \A r \in D : rows[r].state \in {"RESERVED", "READY", "DELAYED"}
      BY DEF AcceptedRows, RowsIn
    <2>2. cancel_rows_locked(D)
      BY <1>4 DEF abort
    <2>3. /\ UNCHANGED <<next_row_identity, next_sequence, discarded, delivered,
                         timer_done_failed, drain, timer, journal, phase, now,
                         cancel_rows, cancel_pending, closed, destroyed>>
          /\ UNCHANGED topology
      BY <1>4 DEF abort, stamps, journals, intents, life
    <2>4. drain.row \in Rows /\ timer.row \in Rows
      BY DEF RouterInv, LaneInv
    <2>5. LedgerInv' /\ OutcomeInv' /\ Accounting' /\ ClaimInv'
      BY <2>1, <2>2, <2>3, <2>4, CancelKeepsLedger DEF RouterInv
    <2>6. TopologyInv'
      BY <2>3 DEF RouterInv, TopologyInv, topology, LiveSlots, LiveRoutes
    <2>7. StampInv' /\ JournalInv'
      BY <2>3 DEF RouterInv, StampInv, JournalInv
    <2>8. IntentInv'
      BY <2>3 DEF RouterInv, IntentInv, UsedIntents
    <2>9. LaneInv'
      BY <1>4, <2>3 DEF RouterInv, LaneInv, abort
    <2>10. LifeInv'
      BY <2>3 DEF RouterInv, LifeInv
    <2> QED BY <2>5, <2>6, <2>7, <2>8, <2>9, <2>10 DEF RouterInv
  <1>5. CASE abort_detach
    <2>1. TopologyInv'
      <3>1. CASE matches(aborting) /\ Unborrowed(aborting)
        BY <1>0, <1>5, <3>1, DetachKeepsTopology
           DEF abort_detach, RouterInv, LaneInv
      <3>2. CASE ~(matches(aborting) /\ Unborrowed(aborting))
        BY <1>0, <1>5, <3>2
           DEF abort_detach, TopologyInv, LiveSlots, LiveRoutes
      <3> QED BY <3>1, <3>2
    <2>2. UNCHANGED <<ledger, stamps, intents, drain, timer, journals, outcomes,
                      life, now>> /\ aborting' \in Refs
      BY <1>5 DEF abort_detach
    <2> USE DEF ledger, stamps, intents, journals, outcomes, life
    <2>3. LedgerInv'
      BY <2>2 DEF RouterInv, LedgerInv, UsedRows, ReservedRows, TimerRows,
                  CountsTimer
    <2>4. StampInv' /\ JournalInv' /\ OutcomeInv'
      BY <2>2 DEF RouterInv, StampInv, JournalInv, OutcomeInv
    <2>5. IntentInv'
      BY <2>2 DEF RouterInv, IntentInv, UsedIntents
    <2>6. LaneInv' /\ ClaimInv'
      BY <2>2 DEF RouterInv, LaneInv, ClaimInv
    <2>7. LifeInv'
      BY <2>2 DEF RouterInv, LifeInv
    <2>8. Accounting'
      BY <2>2 DEF RouterInv, Accounting
    <2> QED BY <2>1, <2>3, <2>4, <2>5, <2>6, <2>7, <2>8 DEF RouterInv
  <1>6. ASSUME NEW ref \in Refs, detach(ref)
        PROVE  RouterInv'
    <2>1. TopologyInv'
      BY <1>0, <1>6, DetachKeepsTopology DEF detach
    <2> QED BY <1>6, <2>1, OnlyTopology DEF detach
  <1>7. ASSUME NEW child \in Refs, NEW parent \in Refs, set_parent(child, parent)
        PROVE  RouterInv'
    <2> DEFINE e == [endpoints[child.slot] EXCEPT !.parent = parent]
    <2>1. child.slot \in Slots
      BY DEF Refs
    <2>2. e \in Endpoint /\ e.live = endpoints[child.slot].live
      BY <1>0, <2>1 DEF Endpoint
    <2>3. endpoints' = [endpoints EXCEPT ![child.slot] = e]
      BY <1>0, <1>7, <2>1 DEF set_parent, Endpoint
    <2>4. TopologyInv'
      BY <1>0, <1>7, <2>1, <2>2, <2>3, RelinkKeepsTopology DEF set_parent
    <2> QED BY <1>7, <2>4, OnlyTopology DEF set_parent
  <1>8. ASSUME NEW ref \in Refs, NEW b \in BOOLEAN, set_external_access(ref, b)
        PROVE  RouterInv'
    <2> DEFINE e == [endpoints[ref.slot] EXCEPT !.accessible = b]
    <2>1. ref.slot \in Slots
      BY DEF Refs
    <2>2. e \in Endpoint /\ e.live = endpoints[ref.slot].live
      BY <1>0, <2>1 DEF Endpoint
    <2>3. endpoints' = [endpoints EXCEPT ![ref.slot] = e]
      BY <1>0, <1>8, <2>1 DEF set_external_access, Endpoint
    <2>4. TopologyInv'
      BY <1>0, <1>8, <2>1, <2>2, <2>3, RelinkKeepsTopology
         DEF set_external_access
    <2> QED BY <1>8, <2>4, OnlyTopology DEF set_external_access
  <1>9. ASSUME NEW owner \in Refs, NEW target \in Refs, NEW id \in InvokeIds,
               bind_invoke(owner, id, target)
        PROVE  RouterInv'
    <2> DEFINE x == [live |-> TRUE, owner |-> owner, id |-> id,
                     target |-> target]
    <2>1. PICK i \in Routes :
            /\ ~invoke_routes[i].live
            /\ invoke_routes' = [invoke_routes EXCEPT ![i] = x]
      BY <1>9 DEF bind_invoke, IsFirst
    <2>2. x \in Route /\ invoke_routes \in [Routes -> Route]
      BY <1>0 DEF Route, TopologyInv
    <2>3. LiveRoutes' = LiveRoutes \cup {i} /\ i \notin LiveRoutes
      BY <2>1, <2>2 DEF LiveRoutes
    <2>4. IsFiniteSet(LiveRoutes)
      BY FiniteTables, FS_Subset DEF LiveRoutes
    <2>5. Cardinality(LiveRoutes') = Cardinality(LiveRoutes) + 1
      BY <2>3, <2>4, FS_AddElement
    <2>6. LiveSlots' = LiveSlots
      BY <1>9 DEF LiveSlots, bind_invoke
    <2>7. invoke_routes' \in [Routes -> Route]
      BY <2>1, <2>2
    <2>8. TopologyInv'
      BY <1>0, <1>9, <2>5, <2>6, <2>7 DEF TopologyInv, bind_invoke
    <2> QED BY <1>9, <2>8, OnlyTopology DEF bind_invoke
  <1>10. ASSUME NEW owner \in Refs, NEW id \in InvokeIds,
                unbind_invoke(owner, id)
         PROVE  RouterInv'
    <2>1. PICK i \in Routes :
            /\ invoke_routes[i].live
            /\ invoke_routes' = [invoke_routes EXCEPT ![i] = FreeRoute]
      BY <1>10 DEF unbind_invoke, IsFirst, IsRoute
    <2>2. FreeRoute \in Route /\ invoke_routes \in [Routes -> Route]
      BY <1>0 DEF FreeRoute, Route, TopologyInv
    <2>3. LiveRoutes' = LiveRoutes \ {i} /\ i \in LiveRoutes
      BY <2>1, <2>2 DEF LiveRoutes, FreeRoute
    <2>4. IsFiniteSet(LiveRoutes) /\ IsFiniteSet(LiveRoutes')
      BY <2>3, FiniteTables, FS_Subset, FS_RemoveElement DEF LiveRoutes
    <2>5. /\ Cardinality(LiveRoutes') = Cardinality(LiveRoutes) - 1
          /\ Cardinality(LiveRoutes') \in Nat
      BY <2>3, <2>4, FS_RemoveElement, FS_CardinalityType
    <2>6. LiveSlots' = LiveSlots
      BY <1>10 DEF LiveSlots, unbind_invoke
    <2>7. invoke_routes' \in [Routes -> Route]
      BY <2>1, <2>2
    <2>8. TopologyInv'
      BY <1>0, <1>10, <2>5, <2>6, <2>7 DEF TopologyInv, unbind_invoke
    <2> QED BY <1>10, <2>8, OnlyTopology DEF unbind_invoke
  <1> QED BY <1>1, <1>2, <1>3, <1>4, <1>5, <1>6, <1>7, <1>8, <1>9, <1>10
          DEF Administer

-----------------------------------------------------------------------------
(* Admission keeps the invariant. *)

\* reserve_locked takes a FREE row and the next identity.  The row is counted
\* by what its caller makes of it: a ticket, or an Event that is READY.
LEMMA ReserveKeepsLedger ==
    ASSUME RouterInv, NEW r \in Rows, NEW row \in Row, reserve_locked(r, row),
           \/ /\ row.state = "RESERVED"
              /\ reserved' = reserved + 1
              /\ timer_pending' = IF row.delay # 0 THEN timer_pending + 1
                                  ELSE timer_pending
           \/ /\ row.state = "READY" /\ row.delay = 0
              /\ UNCHANGED <<reserved, timer_pending>>,
           UNCHANGED <<invariant_failures, discarded, delivered, cancelled,
                       timer_done_failed, drain, timer>>
    PROVE  /\ LedgerInv' /\ OutcomeInv' /\ Accounting' /\ ClaimInv'
           /\ next_row_identity' \in 0 .. MaxU64
  <1>1. rows[r].state = "FREE"
    BY DEF reserve_locked, IsFirst, FreeRows, RowsIn
  <1>2. rows' = [rows EXCEPT ![r] = row] /\ rows \in [Rows -> Row]
    BY DEF reserve_locked, RouterInv, LedgerInv
  <1>3. row.state # "FREE" /\ row.state \notin {"DELAYED", "FIRING"}
    OBVIOUS
  <1>4. /\ IsFiniteSet(UsedRows) /\ IsFiniteSet(ReservedRows)
        /\ IsFiniteSet(TimerRows)
    BY FiniteTables, FS_Subset DEF UsedRows, ReservedRows, TimerRows
  <1>5. /\ pending \in Nat /\ reserved \in Nat /\ timer_pending \in Nat
        /\ pending = Cardinality(UsedRows)
        /\ reserved = Cardinality(ReservedRows)
        /\ timer_pending = Cardinality(TimerRows)
        /\ discarded \in Nat /\ delivered \in Nat /\ cancelled \in Nat
        /\ timer_done_failed \in Nat /\ next_row_identity \in 0 .. MaxU64
    BY DEF RouterInv, LedgerInv, OutcomeInv, StampInv
  <1>6. /\ r \notin UsedRows /\ r \notin ReservedRows /\ r \notin TimerRows
    BY <1>1 DEF UsedRows, ReservedRows, TimerRows, CountsTimer
  <1>7. /\ pending' \in Nat /\ pending' = Cardinality(UsedRows')
    <2>1. UsedRows' = UsedRows \cup {r}
      BY <1>2, <1>3 DEF UsedRows
    <2>2. Cardinality(UsedRows \cup {r}) = pending + 1
      BY <1>4, <1>5, <1>6, FS_AddElement
    <2>3. pending' = pending + 1
      BY DEF reserve_locked
    <2> QED BY <2>1, <2>2, <2>3, <1>5
  <1>8. /\ reserved' \in Nat /\ reserved' = Cardinality(ReservedRows')
        /\ timer_pending' \in Nat /\ timer_pending' = Cardinality(TimerRows')
    <2>1. ReservedRows' = IF row.state = "RESERVED" THEN ReservedRows \cup {r}
                          ELSE ReservedRows
      BY <1>2, <1>6 DEF ReservedRows
    <2>2. TimerRows' = IF CountsTimer(row) THEN TimerRows \cup {r}
                       ELSE TimerRows
      BY <1>2, <1>6 DEF TimerRows
    <2>3. /\ Cardinality(ReservedRows \cup {r}) = reserved + 1
          /\ Cardinality(TimerRows \cup {r}) = timer_pending + 1
      BY <1>4, <1>5, <1>6, FS_AddElement
    <2>4. CASE row.state = "RESERVED"
      <3>1. CountsTimer(row) <=> row.delay # 0
        BY <2>4 DEF CountsTimer
      <3> QED BY <3>1, <2>1, <2>2, <2>3, <2>4, <1>5
    <2>5. CASE row.state = "READY" /\ row.delay = 0
      <3>1. ~CountsTimer(row)
        BY <2>5 DEF CountsTimer
      <3> QED BY <3>1, <2>1, <2>2, <2>5, <1>5
    <2> QED BY <2>4, <2>5
  <1>9. LedgerInv'
    <2>1. rows' \in [Rows -> Row]
      BY <1>2
    <2>2. \A q \in Rows :
             rows'[q].state \in {"DELAYED", "FIRING"} => rows'[q].delay # 0
      BY <1>2, <1>3 DEF RouterInv, LedgerInv
    <2> QED BY <2>1, <2>2, <1>7, <1>8 DEF LedgerInv, RouterInv
  <1>10. /\ next_row_identity' = next_row_identity + 1
         /\ next_row_identity' \in 0 .. MaxU64
    BY <1>5, LimitAssumption DEF reserve_locked
  <1>11. OutcomeInv'
    BY DEF reserve_locked, RouterInv, OutcomeInv, Fates
  <1>12. Accounting'
    BY <1>5, <1>10 DEF Accounting, RouterInv, reserve_locked
  <1>13. ClaimInv'
    BY <1>1, <1>2 DEF ClaimInv, RouterInv, LaneInv
  <1> QED BY <1>9, <1>10, <1>11, <1>12, <1>13

\* A ticket joins a journal.
LEMMA HandOutKeepsJournals ==
    ASSUME JournalInv, NEW j \in Journals, NEW kind, NEW index,
           [kind |-> kind, row |-> index] \in Ticket, HandOut(j, kind, index)
    PROVE  JournalInv'
  BY DEF JournalInv, HandOut

\* The three kinds of Event a caller may reserve a row for.
LEMMA NewRowType ==
    ASSUME StampInv, NEW target \in Refs, NEW source \in Refs,
           NEW delay \in Delays \cup {0}, NEW send_id \in SendIds \cup {NoId},
           next_row_identity # MaxU64
    PROVE  LET row == NewRow(target, source, delay, send_id)
           IN  row \in Row /\ row.state = "RESERVED" /\ row.delay = delay
  <1>1. next_row_identity + 1 \in 0 .. MaxU64
    BY LimitAssumption DEF StampInv
  <1> QED BY <1>1, LimitAssumption DEF NewRow, Row, RowStates

\* An admission writes the ledger, the identities and one journal.
LEMMA OnlyAdmission ==
    ASSUME RouterInv, LedgerInv', OutcomeInv', Accounting', ClaimInv',
           StampInv', JournalInv',
           UNCHANGED <<topology, intents, lanes, life, now>>
    PROVE  RouterInv'
  <1> USE DEF topology, intents, lanes, life
  <1>1. TopologyInv'
    BY DEF RouterInv, TopologyInv, LiveSlots, LiveRoutes
  <1>2. IntentInv'
    BY DEF RouterInv, IntentInv, UsedIntents
  <1>3. LaneInv'
    BY DEF RouterInv, LaneInv
  <1>4. LifeInv'
    BY DEF RouterInv, LifeInv
  <1> QED BY <1>1, <1>2, <1>3, <1>4 DEF RouterInv

\* prepare_target, prepare, enqueue and prepare_cancel keep the invariant.
LEMMA ProduceKeeps ==
    ASSUME RouterInv, Produce
    PROVE  RouterInv'
  <1> USE TableIndices, LimitAssumption
  <1>0. /\ StampInv /\ JournalInv /\ endpoint_capacity \in Journals
        /\ \A ref \in Refs : ref.slot \in Journals
    BY CapacityAssumption DEF RouterInv, Journals, Refs, Slots
  <1>1. ASSUME NEW source \in Refs, NEW target \in Targets, NEW d \in Sends,
               prepare_target(source, target, d[1], d[2])
        PROVE  RouterInv'
    <2> DEFINE delay == d[1]
               id == d[2]
    <2>1. delay \in Delays \cup {0} /\ id \in SendIds \cup {NoId}
      BY DEF Sends
    <2>a. prepare_target(source, target, delay, id)
      BY <1>1
    <2> HIDE DEF delay, id
    <2>b. PICK r \in Rows, ref \in Refs :
            /\ reserve_locked(r, NewRow(ref, source, delay, id))
            /\ HandOut(source.slot, "send", r)
      BY <2>a DEF prepare_target
    <2> DEFINE row == NewRow(ref, source, delay, id)
    <2>2. reserve_locked(r, row) /\ HandOut(source.slot, "send", r)
      BY <2>b
    <2>3. next_row_identity # MaxU64
      BY <2>2 DEF reserve_locked
    <2>4. row \in Row /\ row.state = "RESERVED" /\ row.delay = delay
      BY <1>0, <2>1, <2>3, NewRowType
    <2>5. /\ reserved' = reserved + 1
          /\ timer_pending' = IF delay # 0 THEN timer_pending + 1
                              ELSE timer_pending
          /\ UNCHANGED <<topology, invariant_failures, next_sequence, intents,
                         lanes, discarded, delivered, cancelled,
                         timer_done_failed, life, now>>
      BY <2>a DEF prepare_target
    <2> HIDE DEF row
    <2>6. /\ LedgerInv' /\ OutcomeInv' /\ Accounting' /\ ClaimInv'
          /\ next_row_identity' \in 0 .. MaxU64
      BY <2>2, <2>4, <2>5, ReserveKeepsLedger DEF lanes
    <2>7. StampInv'
      BY <1>0, <2>5, <2>6 DEF StampInv
    <2>8. [kind |-> "send", row |-> r] \in Ticket
      BY DEF Ticket
    <2>9. JournalInv'
      BY <1>0, <2>2, <2>8, HandOutKeepsJournals
    <2> QED BY <2>5, <2>6, <2>7, <2>9, OnlyAdmission
  <1>2. ASSUME NEW source \in Refs, NEW id \in SendIds,
               prepare_cancel(source, id)
        PROVE  RouterInv'
    <2> DEFINE x(r) == [in_use |-> TRUE, target |-> r, source |-> source,
                        target_identity |-> rows[r].identity]
    <2>1. PICK r \in Rows, c \in CancelRows :
            /\ ~cancel_rows[c].in_use
            /\ cancel_rows' = [cancel_rows EXCEPT ![c] = x(r)]
            /\ HandOut(source.slot, "cancel", c)
      BY <1>2 DEF prepare_cancel, IsFirst
    <2>2. x(r) \in CancelRow /\ cancel_rows \in [CancelRows -> CancelRow]
      BY DEF RouterInv, LedgerInv, IntentInv, CancelRow, Row
    <2>3. UsedIntents' = UsedIntents \cup {c} /\ c \notin UsedIntents
      BY <2>1, <2>2 DEF UsedIntents
    <2>4. IsFiniteSet(UsedIntents)
      BY FiniteTables, FS_Subset DEF UsedIntents
    <2>5. Cardinality(UsedIntents') = Cardinality(UsedIntents) + 1
      BY <2>3, <2>4, FS_AddElement
    <2>6. cancel_rows' \in [CancelRows -> CancelRow]
      BY <2>1, <2>2
    <2>7. cancel_pending' = cancel_pending + 1
      BY <1>2 DEF prepare_cancel
    <2>8. IntentInv'
      BY <2>5, <2>6, <2>7 DEF RouterInv, IntentInv
    <2>9. [kind |-> "cancel", row |-> c] \in Ticket
      BY DEF Ticket
    <2>10. JournalInv'
      BY <1>0, <2>1, <2>9, HandOutKeepsJournals
    <2>11. UNCHANGED <<topology, ledger, stamps, lanes, outcomes, life, now>>
      BY <1>2 DEF prepare_cancel
    <2> USE DEF topology, ledger, stamps, lanes, outcomes, life
    <2>12. TopologyInv'
      BY <2>11 DEF RouterInv, TopologyInv, LiveSlots, LiveRoutes
    <2>13. LedgerInv'
      BY <2>11 DEF RouterInv, LedgerInv, UsedRows, ReservedRows, TimerRows,
                   CountsTimer
    <2>14. StampInv' /\ OutcomeInv' /\ Accounting'
      BY <2>11 DEF RouterInv, StampInv, OutcomeInv, Accounting
    <2>15. LaneInv' /\ ClaimInv'
      BY <2>11 DEF RouterInv, LaneInv, ClaimInv
    <2>16. LifeInv'
      BY <2>11 DEF RouterInv, LifeInv
    <2> QED BY <2>8, <2>10, <2>12, <2>13, <2>14, <2>15, <2>16 DEF RouterInv
  <1>3. ASSUME NEW target \in Refs, prepare(target)
        PROVE  RouterInv'
    <2> DEFINE row == NewRow(target, NoRef, 0, NoId)
    <2>2. PICK r \in Rows : /\ reserve_locked(r, row)
                            /\ HandOut(endpoint_capacity, "send", r)
      BY <1>3 DEF prepare
    <2>3. next_row_identity # MaxU64
      BY <2>2 DEF reserve_locked
    <2>4. row \in Row /\ row.state = "RESERVED" /\ row.delay = 0
      BY <1>0, <2>3, NewRowType
    <2>5. /\ reserved' = reserved + 1
          /\ UNCHANGED <<topology, timer_pending, invariant_failures,
                         next_sequence, intents, lanes, discarded, delivered,
                         cancelled, timer_done_failed, life, now>>
      BY <1>3 DEF prepare
    <2> HIDE DEF row
    <2>6. /\ LedgerInv' /\ OutcomeInv' /\ Accounting' /\ ClaimInv'
          /\ next_row_identity' \in 0 .. MaxU64
      BY <2>2, <2>4, <2>5, ReserveKeepsLedger DEF lanes
    <2>7. StampInv'
      BY <1>0, <2>5, <2>6 DEF StampInv
    <2>8. [kind |-> "send", row |-> r] \in Ticket
      BY DEF Ticket
    <2>9. JournalInv'
      BY <1>0, <2>2, <2>8, HandOutKeepsJournals
    <2> QED BY <2>5, <2>6, <2>7, <2>9, OnlyAdmission
  <1>4. ASSUME NEW target \in Refs, enqueue(target)
        PROVE  RouterInv'
    <2> DEFINE n == NewRow(target, NoRef, 0, NoId)
               row == [n EXCEPT !.state = "READY",
                                !.sequence = next_sequence + 1]
    <2>2. PICK r \in Rows : reserve_locked(r, row)
      BY <1>4 DEF enqueue
    <2>3. next_row_identity # MaxU64
      BY <2>2 DEF reserve_locked
    <2>4. n \in Row /\ n.delay = 0
      BY <1>0, <2>3, NewRowType
    <2>5. next_sequence + 1 \in 0 .. MaxU64
      BY <1>0, <1>4 DEF enqueue, StampInv
    <2> HIDE DEF n
    <2>6. row \in Row /\ row.state = "READY" /\ row.delay = 0
      BY <2>4, <2>5 DEF Row, RowStates
    <2>7. UNCHANGED <<topology, reserved, timer_pending, invariant_failures,
                      intents, lanes, journals, discarded, delivered,
                      cancelled, timer_done_failed, life, now>>
      BY <1>4 DEF enqueue
    <2> HIDE DEF row
    <2>8. /\ LedgerInv' /\ OutcomeInv' /\ Accounting' /\ ClaimInv'
          /\ next_row_identity' \in 0 .. MaxU64
      BY <2>2, <2>6, <2>7, ReserveKeepsLedger DEF lanes
    <2>9. StampInv'
      BY <1>4, <2>5, <2>8 DEF StampInv, enqueue
    <2>10. JournalInv'
      BY <1>0, <2>7 DEF JournalInv, journals
    <2> QED BY <2>7, <2>8, <2>9, <2>10, OnlyAdmission
  <1> QED BY <1>1, <1>2, <1>3, <1>4 DEF Produce

-----------------------------------------------------------------------------
(* Settlement keeps the invariant. *)

\* A row that stays in use changes its state: reserved and timer_pending drop
\* by one exactly when the row leaves what they count.
LEMMA MoveKeepsLedger ==
    ASSUME LedgerInv, NEW r \in Rows, NEW new \in Row,
           rows' = [rows EXCEPT ![r] = new],
           rows[r].state # "FREE", new.state \notin {"FREE", "RESERVED"},
           CountsTimer(new) => CountsTimer(rows[r]),
           new.state \in {"DELAYED", "FIRING"} => new.delay # 0,
           pending' = pending, invariant_failures' \in Nat,
           reserved' = IF rows[r].state = "RESERVED" THEN reserved - 1
                       ELSE reserved,
           timer_pending' = IF CountsTimer(rows[r]) /\ ~CountsTimer(new)
                            THEN timer_pending - 1 ELSE timer_pending
    PROVE  LedgerInv'
  <1>1. /\ rows \in [Rows -> Row] /\ pending \in Nat
        /\ reserved = Cardinality(ReservedRows) /\ reserved \in Nat
        /\ timer_pending = Cardinality(TimerRows) /\ timer_pending \in Nat
        /\ pending = Cardinality(UsedRows)
    BY DEF LedgerInv
  <1>2. /\ IsFiniteSet(ReservedRows) /\ IsFiniteSet(TimerRows)
    BY FiniteTables, FS_Subset DEF ReservedRows, TimerRows
  <1>3. UsedRows' = UsedRows
    BY <1>1 DEF UsedRows
  <1>4. reserved' \in Nat /\ reserved' = Cardinality(ReservedRows')
    <2>1. ReservedRows' = ReservedRows \ {r}
      BY <1>1 DEF ReservedRows
    <2>2. IsFiniteSet(ReservedRows \ {r})
      BY <1>2, FS_RemoveElement
    <2>3. Cardinality(ReservedRows \ {r}) \in Nat
      BY <2>2, FS_CardinalityType
    <2>4. Cardinality(ReservedRows \ {r}) =
            IF r \in ReservedRows THEN reserved - 1 ELSE reserved
      BY <1>1, <1>2, FS_RemoveElement
    <2>5. r \in ReservedRows <=> rows[r].state = "RESERVED"
      BY DEF ReservedRows
    <2> QED BY <2>1, <2>3, <2>4, <2>5
  <1>5. timer_pending' \in Nat /\ timer_pending' = Cardinality(TimerRows')
    <2>1. r \in TimerRows <=> CountsTimer(rows[r])
      BY DEF TimerRows
    <2>2. CASE CountsTimer(rows[r]) /\ ~CountsTimer(new)
      <3>1. TimerRows' = TimerRows \ {r}
        BY <1>1, <2>2 DEF TimerRows
      <3>2. IsFiniteSet(TimerRows \ {r})
        BY <1>2, FS_RemoveElement
      <3>3. Cardinality(TimerRows \ {r}) \in Nat
        BY <3>2, FS_CardinalityType
      <3>4. Cardinality(TimerRows \ {r}) = timer_pending - 1
        BY <1>1, <1>2, <2>1, <2>2, FS_RemoveElement
      <3> QED BY <3>1, <3>3, <3>4, <2>2
    <2>3. CASE ~(CountsTimer(rows[r]) /\ ~CountsTimer(new))
      <3>1. TimerRows' = TimerRows
        BY <1>1, <2>3 DEF TimerRows
      <3> QED BY <3>1, <1>1, <2>3
    <2> QED BY <2>2, <2>3
  <1>6. rows' \in [Rows -> Row]
    BY <1>1
  <1>7. \A q \in Rows :
           rows'[q].state \in {"DELAYED", "FIRING"} => rows'[q].delay # 0
    BY <1>1 DEF LedgerInv
  <1> QED BY <1>1, <1>3, <1>4, <1>5, <1>6, <1>7 DEF LedgerInv

\* A settling call consumes the first ticket of a journal.
LEMMA NextTicketKeepsJournals ==
    ASSUME JournalInv, NEW j \in Journals, NEW how \in Phases, NEW kind,
           NEW index, NextTicket(j, how, kind, index)
    PROVE  JournalInv'
  <1>1. journal[j] \in Seq(Ticket) /\ journal[j] # <<>>
    BY DEF JournalInv, NextTicket
  <1>2. Tail(journal[j]) \in Seq(Ticket)
    BY <1>1
  <1>3. journal' \in [Journals -> Seq(Ticket)]
    BY <1>2 DEF NextTicket, JournalInv
  <1>4. phase' \in [Journals -> Phases]
    BY DEF NextTicket, JournalInv, Phases
  <1> QED BY <1>3, <1>4 DEF JournalInv

\* Releasing an intent keeps its counter.
LEMMA IntentReleaseKeeps ==
    ASSUME IntentInv, NEW c \in CancelRows, cancel_release_locked(c)
    PROVE  IntentInv' /\ cancel_release_failures(c) \in Nat
  <1>1. cancel_release_failures(c) \in Nat
    BY DEF cancel_release_failures
  <1>2. CASE ~CancelReleasable(c)
    BY <1>1, <1>2 DEF cancel_release_locked, intents, IntentInv, UsedIntents
  <1>3. CASE CancelReleasable(c)
    <2>1. /\ cancel_rows' = [cancel_rows EXCEPT ![c] = FreeCancel]
          /\ cancel_pending' = cancel_pending - 1
          /\ cancel_rows \in [CancelRows -> CancelRow]
      BY <1>3 DEF cancel_release_locked, IntentInv
    <2>2. FreeCancel \in CancelRow
      BY TableIndices, LimitAssumption DEF FreeCancel, CancelRow
    <2>3. UsedIntents' = UsedIntents \ {c} /\ c \in UsedIntents
      BY <1>3, <2>1 DEF UsedIntents, FreeCancel, CancelReleasable
    <2>4. IsFiniteSet(UsedIntents) /\ IsFiniteSet(UsedIntents')
      BY <2>3, FiniteTables, FS_Subset, FS_RemoveElement DEF UsedIntents
    <2>5. /\ Cardinality(UsedIntents') = Cardinality(UsedIntents) - 1
          /\ Cardinality(UsedIntents') \in Nat
      BY <2>3, <2>4, FS_RemoveElement, FS_CardinalityType
    <2>6. cancel_rows' \in [CancelRows -> CancelRow]
      BY <2>1, <2>2
    <2> QED BY <1>1, <2>1, <2>5, <2>6 DEF IntentInv
  <1> QED BY <1>2, <1>3

\* A settlement writes the ledger, the sequence, an intent and a journal.
LEMMA OnlySettlement ==
    ASSUME RouterInv, LedgerInv', OutcomeInv', Accounting', ClaimInv',
           StampInv', JournalInv', IntentInv',
           UNCHANGED <<topology, lanes, life, now>>
    PROVE  RouterInv'
  <1> USE DEF topology, lanes, life
  <1>1. TopologyInv'
    BY DEF RouterInv, TopologyInv, LiveSlots, LiveRoutes
  <1>2. LaneInv'
    BY DEF RouterInv, LaneInv
  <1>3. LifeInv'
    BY DEF RouterInv, LifeInv
  <1> QED BY <1>1, <1>2, <1>3 DEF RouterInv

\* ticket_commit: published, given up on a closed router, or refused.
LEMMA CommitKeeps ==
    ASSUME RouterInv, NEW j \in Journals, NEW r \in Rows, ticket_commit(j, r)
    PROVE  RouterInv'
  <1> USE TableIndices, LimitAssumption
  <1>1. /\ UNCHANGED <<topology, intents, lanes, discarded, delivered,
                       timer_done_failed, life, now>>
        /\ commit_locked(r)
    BY DEF ticket_commit
  <1>2. JournalInv'
    BY NextTicketKeepsJournals DEF ticket_commit, RouterInv, Phases
  <1>3. IntentInv'
    BY <1>1 DEF RouterInv, IntentInv, UsedIntents, intents
  <1>4. /\ rows \in [Rows -> Row] /\ invariant_failures \in Nat
        /\ pending \in Nat /\ cancelled \in Nat /\ now \in Nat
        /\ next_sequence \in 0 .. MaxU64
        /\ drain.row \in Rows /\ timer.row \in Rows
    BY DEF RouterInv, LedgerInv, OutcomeInv, LifeInv, StampInv, LaneInv
  <1>5. LedgerInv' /\ OutcomeInv' /\ Accounting' /\ ClaimInv' /\ StampInv'
    <2>1. CASE rows[r].state # "RESERVED"
      <3>1. /\ invariant_failures' = invariant_failures + 1
            /\ UNCHANGED <<rows, pending, reserved, timer_pending, stamps,
                           fate, cancelled>>
        BY <1>1, <2>1 DEF commit_locked, commit_failed
      <3>2. LedgerInv'
        BY <1>4, <3>1 DEF RouterInv, LedgerInv, UsedRows, ReservedRows,
                          TimerRows, CountsTimer
      <3>3. OutcomeInv' /\ Accounting' /\ StampInv'
        BY <1>1, <3>1 DEF RouterInv, OutcomeInv, Accounting, StampInv, stamps
      <3>4. ClaimInv'
        BY <1>1, <3>1 DEF RouterInv, ClaimInv, lanes
      <3> QED BY <3>2, <3>3, <3>4
    <2>2. CASE /\ rows[r].state = "RESERVED"
               /\ closed \/ ~matches(rows[r].target) \/ next_sequence = MaxU64
      <3>1. cancel_rows_locked({r}) /\ UNCHANGED stamps
        BY <1>1, <2>2 DEF commit_locked
      <3>2. LedgerInv' /\ OutcomeInv' /\ Accounting' /\ ClaimInv'
        <4>1. {r} \in SUBSET Rows
          OBVIOUS
        <4>2. \A q \in {r} : rows[q].state \in {"RESERVED", "READY", "DELAYED"}
          BY <2>2
        <4> QED BY <1>1, <1>4, <3>1, <4>1, <4>2, CancelKeepsLedger
                DEF RouterInv, stamps, lanes
      <3>3. StampInv'
        BY <3>1 DEF RouterInv, StampInv, stamps
      <3> QED BY <3>2, <3>3
    <2>3. CASE /\ rows[r].state = "RESERVED" /\ next_sequence # MaxU64
               /\ commit_publishes(r)
      <3> DEFINE deadline == IF rows[r].delay # 0 THEN now + rows[r].delay
                             ELSE rows[r].deadline
                 state == IF rows[r].delay # 0 THEN "DELAYED" ELSE "READY"
                 new == [rows[r] EXCEPT !.sequence = next_sequence + 1,
                                        !.deadline = deadline,
                                        !.state = state]
      <3>0. rows[r] \in Row
        BY <1>4
      <3>1. rows' = [rows EXCEPT ![r] = new]
        BY <1>4, <2>3 DEF commit_publishes, Row
      <3>2. /\ reserved' = reserved - 1 /\ next_sequence' = next_sequence + 1
            /\ UNCHANGED <<pending, timer_pending, invariant_failures,
                           next_row_identity, fate, cancelled>>
        BY <2>3 DEF commit_publishes
      <3>3. next_sequence + 1 \in 0 .. MaxU64
        BY <1>4, <2>3
      <3>4. rows[r].delay \in Nat
        BY <3>0 DEF Row
      <3>5. new \in Row
        <4>1. deadline \in Nat
          BY <1>4, <3>0, <3>4 DEF Row
        <4>2. state \in RowStates
          BY DEF RowStates
        <4> HIDE DEF deadline, state
        <4> QED BY <3>0, <3>3, <4>1, <4>2 DEF Row
      <3>6. /\ new.state = IF rows[r].delay # 0 THEN "DELAYED" ELSE "READY"
            /\ new.delay = rows[r].delay
        BY <3>0 DEF Row
      <3> HIDE DEF new
      <3>7. /\ new.state \notin {"FREE", "RESERVED"}
            /\ CountsTimer(new) <=> CountsTimer(rows[r])
            /\ new.state \in {"DELAYED", "FIRING"} => new.delay # 0
        BY <2>3, <3>6 DEF CountsTimer
      <3>8. LedgerInv'
        BY <1>4, <2>3, <3>1, <3>2, <3>5, <3>7, MoveKeepsLedger DEF RouterInv
      <3>9. OutcomeInv' /\ Accounting' /\ StampInv'
        BY <1>1, <3>2, <3>3 DEF RouterInv, OutcomeInv, Accounting, StampInv
      <3>10. ClaimInv'
        BY <1>1, <1>4, <2>3, <3>1 DEF RouterInv, ClaimInv, lanes
      <3> QED BY <3>8, <3>9, <3>10
    <2> QED BY <1>1, <2>1, <2>2, <2>3 DEF commit_locked
  <1> QED BY <1>1, <1>2, <1>3, <1>5, OnlySettlement

\* One row that is in use and held by no lane ends in a given way.
LEMMA EndOneRow ==
    ASSUME RouterInv, NEW r \in Rows, NEW end \in Fates,
           rows[r].state # "FREE", release_locked({r}, end),
           invariant_failures' \in Nat
    PROVE  /\ LedgerInv' /\ fate' \in [1 .. MaxU64 -> Fates]
           /\ pending' = pending - 1 /\ pending \in Nat
           /\ \A q \in Rows \ {r} : rows'[q] = rows[q]
  <1>1. {r} \in SUBSET Rows
    OBVIOUS
  <1>2. {r} \cap UsedRows = {r}
    BY DEF UsedRows
  <1>3. Cardinality({r}) = 1
    BY FS_Singleton
  <1> QED BY <1>1, <1>2, <1>3, ReleaseKeepsLedger
          DEF RouterInv, OutcomeInv, LedgerInv

\* ticket_discard releases the row of its ticket and counts it once.
LEMMA DiscardKeeps ==
    ASSUME RouterInv, NEW j \in Journals, NEW r \in Rows, ticket_discard(j, r)
    PROVE  RouterInv'
  <1>1. /\ UNCHANGED <<topology, stamps, intents, lanes, delivered, cancelled,
                       timer_done_failed, life, now>>
        /\ discard_locked(r)
    BY DEF ticket_discard
  <1>2. JournalInv'
    BY NextTicketKeepsJournals DEF ticket_discard, RouterInv, Phases
  <1>3. IntentInv' /\ StampInv'
    BY <1>1 DEF RouterInv, IntentInv, UsedIntents, StampInv, intents, stamps
  <1>4. /\ invariant_failures \in Nat /\ discarded \in Nat
        /\ drain.row \in Rows /\ timer.row \in Rows
        /\ delivered \in Nat /\ cancelled \in Nat
    BY DEF RouterInv, LedgerInv, OutcomeInv, LaneInv
  <1>5. LedgerInv' /\ OutcomeInv' /\ Accounting' /\ ClaimInv'
    <2>1. CASE rows[r].state # "RESERVED"
      <3>1. /\ invariant_failures' = invariant_failures + 1
            /\ UNCHANGED <<rows, pending, reserved, timer_pending, fate,
                           discarded>>
        BY <1>1, <2>1 DEF discard_locked
      <3>2. LedgerInv'
        BY <1>4, <3>1 DEF RouterInv, LedgerInv, UsedRows, ReservedRows,
                          TimerRows, CountsTimer
      <3>3. OutcomeInv' /\ Accounting'
        BY <1>1, <3>1 DEF RouterInv, OutcomeInv, Accounting, stamps
      <3>4. ClaimInv'
        BY <1>1, <3>1 DEF RouterInv, ClaimInv, lanes
      <3> QED BY <3>2, <3>3, <3>4
    <2>2. CASE rows[r].state = "RESERVED"
      <3>1. /\ release_locked({r}, "discarded")
            /\ discarded' = discarded + 1
            /\ invariant_failures' = invariant_failures + release_failures({r})
        BY <1>1, <2>2 DEF discard_locked
      <3>2. invariant_failures' \in Nat
        <4>1. {r} \in SUBSET Rows
          OBVIOUS
        <4>2. release_failures({r}) \in Nat
          BY <4>1, ReleaseFailuresType DEF RouterInv
        <4> QED BY <1>4, <3>1, <4>2
      <3>3. /\ LedgerInv' /\ fate' \in [1 .. MaxU64 -> Fates]
            /\ pending' = pending - 1 /\ pending \in Nat
            /\ \A q \in Rows \ {r} : rows'[q] = rows[q]
        BY <2>2, <3>1, <3>2, EndOneRow DEF Fates
      <3>4. OutcomeInv'
        BY <1>1, <1>4, <3>1, <3>3 DEF RouterInv, OutcomeInv
      <3>5. Accounting'
        BY <1>1, <1>4, <3>1, <3>3 DEF RouterInv, Accounting, stamps
      <3>6. ClaimInv'
        BY <1>1, <1>4, <2>2, <3>3 DEF RouterInv, ClaimInv, lanes
      <3> QED BY <3>3, <3>4, <3>5, <3>6
    <2> QED BY <2>1, <2>2
  <1> QED BY <1>1, <1>2, <1>3, <1>5, OnlySettlement

\* cancel_commit revokes the row or leaves a witness, and frees the intent.
LEMMA CancelCommitKeeps ==
    ASSUME RouterInv, NEW j \in Journals, NEW c \in CancelRows,
           cancel_commit(j, c)
    PROVE  RouterInv'
  <1> DEFINE r == cancel_rows[c].target
  <1>1. /\ UNCHANGED <<topology, stamps, lanes, discarded, delivered,
                       timer_done_failed, life, now>>
        /\ cancel_release_locked(c)
    BY DEF cancel_commit
  <1>2. JournalInv'
    BY NextTicketKeepsJournals DEF cancel_commit, RouterInv, Phases
  <1>3. IntentInv' /\ cancel_release_failures(c) \in Nat
    BY <1>1, IntentReleaseKeeps DEF RouterInv
  <1>4. StampInv'
    BY <1>1 DEF RouterInv, StampInv, stamps
  <1>5. /\ r \in Rows /\ rows \in [Rows -> Row]
        /\ invariant_failures \in Nat /\ pending \in Nat
        /\ discarded \in Nat /\ delivered \in Nat /\ cancelled \in Nat
        /\ drain.row \in Rows /\ timer.row \in Rows
    BY DEF RouterInv, LedgerInv, OutcomeInv, LaneInv, IntentInv, CancelRow
  <1> HIDE DEF r
  <1>6. LedgerInv' /\ OutcomeInv' /\ Accounting' /\ ClaimInv'
    <2>1. CASE Revocable(cancel_rows[c]) /\ cancel_revokes(c)
      <3>1. /\ release_locked({r}, "cancelled")
            /\ cancelled' = cancelled + 1
            /\ invariant_failures' = invariant_failures + release_failures({r})
                                       + cancel_release_failures(c)
        BY <2>1 DEF cancel_revokes, r
      <3>2. rows[r].state \in {"RESERVED", "DELAYED"}
        BY <2>1 DEF Revocable, r
      <3>3. invariant_failures' \in Nat
        <4>1. {r} \in SUBSET Rows
          BY <1>5
        <4>2. release_failures({r}) \in Nat
          BY <4>1, ReleaseFailuresType DEF RouterInv
        <4> QED BY <1>3, <1>5, <3>1, <4>2
      <3>4. /\ LedgerInv' /\ fate' \in [1 .. MaxU64 -> Fates]
            /\ pending' = pending - 1
            /\ \A q \in Rows \ {r} : rows'[q] = rows[q]
        BY <1>5, <3>1, <3>2, <3>3, EndOneRow DEF Fates
      <3>5. OutcomeInv'
        BY <1>1, <1>5, <3>1, <3>4 DEF RouterInv, OutcomeInv
      <3>6. Accounting'
        BY <1>1, <1>5, <3>1, <3>4 DEF RouterInv, Accounting, stamps
      <3>7. ClaimInv'
        BY <1>1, <1>5, <3>2, <3>4 DEF RouterInv, ClaimInv, lanes
      <3> QED BY <3>4, <3>5, <3>6, <3>7
    <2>2. CASE cancel_too_late(c)
      <3>1. /\ invariant_failures' = invariant_failures
                                       + cancel_release_failures(c)
            /\ UNCHANGED <<pending, reserved, timer_pending, cancelled, fate>>
            /\ rows' = IF StillTargets(cancel_rows[c])
                            /\ rows[r].state = "FIRING"
                       THEN [rows EXCEPT ![r].fire_won_cancel = TRUE] ELSE rows
        BY <2>2 DEF cancel_too_late, r
      <3>2. invariant_failures' \in Nat
        BY <1>3, <1>5, <3>1
      <3>3. OutcomeInv' /\ Accounting'
        BY <1>1, <3>1 DEF RouterInv, OutcomeInv, Accounting, stamps
      <3>4. CASE rows' = rows
        <4>1. LedgerInv'
          BY <3>1, <3>2, <3>4 DEF RouterInv, LedgerInv, UsedRows, ReservedRows,
                                  TimerRows, CountsTimer
        <4>2. ClaimInv'
          BY <1>1, <3>4 DEF RouterInv, ClaimInv, lanes
        <4> QED BY <3>3, <4>1, <4>2
      <3>5. CASE /\ rows[r].state = "FIRING"
                 /\ rows' = [rows EXCEPT ![r].fire_won_cancel = TRUE]
        <4> DEFINE new == [rows[r] EXCEPT !.fire_won_cancel = TRUE]
        <4>0. rows[r] \in Row /\ rows[r].delay # 0
          BY <1>5, <3>5 DEF RouterInv, LedgerInv
        <4>1. rows' = [rows EXCEPT ![r] = new]
          BY <1>5, <3>5 DEF Row
        <4>2. new \in Row /\ new.state = "FIRING" /\ new.delay = rows[r].delay
          BY <4>0, <3>5 DEF Row
        <4> HIDE DEF new
        <4>3. CountsTimer(new) /\ CountsTimer(rows[r])
          BY <4>0, <4>2, <3>5 DEF CountsTimer
        <4>4. LedgerInv'
          BY <1>5, <3>1, <3>2, <3>5, <4>0, <4>1, <4>2, <4>3, MoveKeepsLedger
             DEF RouterInv
        <4>5. ClaimInv'
          BY <1>1, <1>5, <3>5, <4>1, <4>2 DEF RouterInv, ClaimInv, lanes
        <4> QED BY <3>3, <4>4, <4>5
      <3> QED BY <3>1, <3>4, <3>5
    <2> QED BY <2>1, <2>2 DEF cancel_commit
  <1> QED BY <1>1, <1>2, <1>3, <1>4, <1>6, OnlySettlement

\* cancel_discard frees the intent and touches no row.
LEMMA CancelDiscardKeeps ==
    ASSUME RouterInv, NEW j \in Journals, NEW c \in CancelRows,
           cancel_discard(j, c)
    PROVE  RouterInv'
  <1>1. /\ UNCHANGED <<topology, rows, pending, reserved, timer_pending, stamps,
                       lanes, outcomes, life, now>>
        /\ cancel_release_locked(c)
        /\ invariant_failures' = invariant_failures + cancel_release_failures(c)
    BY DEF cancel_discard
  <1>2. JournalInv'
    BY NextTicketKeepsJournals DEF cancel_discard, RouterInv, Phases
  <1>3. IntentInv' /\ cancel_release_failures(c) \in Nat
    BY <1>1, IntentReleaseKeeps DEF RouterInv
  <1>4. LedgerInv'
    BY <1>1, <1>3 DEF RouterInv, LedgerInv, UsedRows, ReservedRows, TimerRows,
                      CountsTimer
  <1>5. StampInv' /\ OutcomeInv' /\ Accounting'
    BY <1>1 DEF RouterInv, StampInv, OutcomeInv, Accounting, stamps, outcomes
  <1>6. ClaimInv'
    BY <1>1 DEF RouterInv, ClaimInv, lanes
  <1> QED BY <1>1, <1>2, <1>3, <1>4, <1>5, <1>6, OnlySettlement

\* The end of a microstep only chooses how its tickets settle.
LEMMA EndMicrostepKeeps ==
    ASSUME RouterInv, NEW j \in Journals, NEW how \in Phases,
           EndMicrostep(j, how)
    PROVE  RouterInv'
  <1>1. UNCHANGED <<topology, ledger, stamps, intents, lanes, journal,
                    outcomes, life, now>>
    BY DEF EndMicrostep
  <1> USE DEF ledger, stamps, intents, outcomes
  <1>2. JournalInv'
    BY <1>1 DEF EndMicrostep, RouterInv, JournalInv
  <1>3. LedgerInv'
    BY <1>1 DEF RouterInv, LedgerInv, UsedRows, ReservedRows, TimerRows,
                CountsTimer
  <1>4. StampInv' /\ OutcomeInv' /\ Accounting'
    BY <1>1 DEF RouterInv, StampInv, OutcomeInv, Accounting
  <1>5. IntentInv'
    BY <1>1 DEF RouterInv, IntentInv, UsedIntents
  <1>6. ClaimInv'
    BY <1>1 DEF RouterInv, ClaimInv, lanes
  <1> QED BY <1>1, <1>2, <1>3, <1>4, <1>5, <1>6, OnlySettlement

\* Every settlement of a ticket keeps the invariant.
LEMMA SettleKeeps ==
    ASSUME RouterInv, Settle
    PROVE  RouterInv'
  <1>1. "commit" \in Phases /\ "discard" \in Phases
    BY DEF Phases
  <1> QED BY <1>1, EndMicrostepKeeps, CommitKeeps, DiscardKeeps,
             CancelCommitKeeps, CancelDiscardKeeps DEF Settle

-----------------------------------------------------------------------------
(* The two lanes keep the invariant. *)

\* A step of a lane writes the ledger, its outcomes and its own counter.
LEMMA OnlyLane ==
    ASSUME RouterInv, LedgerInv', OutcomeInv', Accounting', LaneInv', ClaimInv',
           UNCHANGED <<topology, stamps, intents, journals, life, now>>
    PROVE  RouterInv'
  <1> USE DEF topology, stamps, intents, journals, life
  <1>1. TopologyInv'
    BY DEF RouterInv, TopologyInv, LiveSlots, LiveRoutes
  <1>2. IntentInv'
    BY DEF RouterInv, IntentInv, UsedIntents
  <1>3. StampInv' /\ JournalInv' /\ LifeInv'
    BY DEF RouterInv, StampInv, JournalInv, LifeInv
  <1> QED BY <1>1, <1>2, <1>3 DEF RouterInv

\* A step that only moves the program counter of a lane.
LEMMA OnlyCounter ==
    ASSUME RouterInv, LaneInv', ClaimInv',
           UNCHANGED <<topology, ledger, stamps, intents, journals, outcomes,
                       life, now>>
    PROVE  RouterInv'
  <1> USE DEF ledger, outcomes
  <1>1. LedgerInv'
    BY DEF RouterInv, LedgerInv, UsedRows, ReservedRows, TimerRows, CountsTimer
  <1>2. OutcomeInv' /\ Accounting'
    BY DEF RouterInv, OutcomeInv, Accounting, stamps
  <1> QED BY <1>1, <1>2, OnlyLane

\* A row in use changes its state, nothing else, between two states that both
\* are no ticket: what claims and hands back a row.
LEMMA RestateKeepsLedger ==
    ASSUME RouterInv, NEW r \in Rows, NEW state \in RowStates,
           rows' = [rows EXCEPT ![r].state = state],
           rows[r].state \notin {"FREE", "RESERVED"},
           state \notin {"FREE", "RESERVED"},
           state \in {"DELAYED", "FIRING"} => rows[r].state = "DELAYED",
           pending' = pending, reserved' = reserved,
           invariant_failures' = invariant_failures,
           timer_pending' =
              IF rows[r].state = "FIRING" /\ state = "READY"
              THEN timer_pending - 1 ELSE timer_pending,
           rows[r].state = "FIRING" => state = "READY",
           rows[r].state = "DELAYED" => state = "FIRING"
    PROVE  /\ LedgerInv'
           /\ rows'[r].state = state
           /\ \A q \in Rows \ {r} : rows'[q] = rows[q]
  <1> DEFINE new == [rows[r] EXCEPT !.state = state]
  <1>1. rows \in [Rows -> Row] /\ rows[r] \in Row /\ invariant_failures \in Nat
    BY DEF RouterInv, LedgerInv
  <1>2. rows' = [rows EXCEPT ![r] = new]
    BY <1>1
  <1>3. new \in Row /\ new.state = state /\ new.delay = rows[r].delay
    BY <1>1 DEF Row
  <1>4. rows[r].state \in {"DELAYED", "FIRING"} => rows[r].delay # 0
    BY DEF RouterInv, LedgerInv
  <1> HIDE DEF new
  <1>5. /\ CountsTimer(new) => CountsTimer(rows[r])
        /\ CountsTimer(rows[r]) /\ ~CountsTimer(new)
              <=> rows[r].state = "FIRING" /\ state = "READY"
        /\ new.state \in {"DELAYED", "FIRING"} => new.delay # 0
    BY <1>3, <1>4 DEF CountsTimer
  <1>6. LedgerInv'
    BY <1>1, <1>2, <1>3, <1>5, MoveKeepsLedger DEF RouterInv
  <1>7. rows'[r] = new /\ \A q \in Rows \ {r} : rows'[q] = rows[q]
    BY <1>1, <1>2
  <1> QED BY <1>3, <1>6, <1>7

\* The row a lane holds ends, whatever the lane does next.
LEMMA LaneEndsRow ==
    ASSUME RouterInv, NEW r \in Rows, rows[r].state # "FREE",
           cancel_rows_locked({r})
    PROVE  /\ LedgerInv' /\ fate' \in [1 .. MaxU64 -> Fates]
           /\ pending' = pending - 1 /\ cancelled' = cancelled + 1
           /\ \A q \in Rows \ {r} : rows'[q] = rows[q]
  <1>1. {r} \in SUBSET Rows
    OBVIOUS
  <1>2. Cardinality({r}) = 1
    BY FS_Singleton
  <1>3. cancelled' = cancelled + 1
    BY <1>2 DEF cancel_rows_locked
  <1>4. release_failures({r}) \in Nat /\ invariant_failures \in Nat
    BY <1>1, ReleaseFailuresType DEF RouterInv, LedgerInv
  <1>5. invariant_failures' \in Nat /\ release_locked({r}, "cancelled")
    BY <1>4 DEF cancel_rows_locked
  <1> QED BY <1>3, <1>5, EndOneRow DEF Fates


\* run_due: claiming the earliest due row, stopping, reporting, returning.
LEMMA TimerMovesKeep ==
    ASSUME RouterInv,
           \/ \E r \in Rows : run_due_claim(r)
           \/ run_due_stop
           \/ \E settled \in BOOLEAN : run_due_report(settled)
           \/ run_due_return
    PROVE  RouterInv'
  <1> USE TableIndices
  <1>0. LaneInv /\ ClaimInv /\ rows \in [Rows -> Row]
    BY DEF RouterInv, LedgerInv
  <1>1. ASSUME NEW r \in Rows, run_due_claim(r) PROVE RouterInv'
    <2>1. /\ timer.pc = "scan" /\ rows[r].state = "DELAYED"
          /\ rows' = [rows EXCEPT ![r].state = "FIRING"]
          /\ timer' = [timer EXCEPT !.pc = "busy", !.row = r]
          /\ UNCHANGED <<topology, pending, reserved, timer_pending,
                         invariant_failures, stamps, intents, drain, aborting,
                         journals, outcomes, life, now>>
      BY <1>1 DEF run_due_claim, Earliest, Due
    <2>2. /\ LedgerInv' /\ rows'[r].state = "FIRING"
          /\ \A q \in Rows \ {r} : rows'[q] = rows[q]
      BY <2>1, RestateKeepsLedger DEF RowStates
    <2>3. LaneInv'
      BY <1>0, <2>1 DEF LaneInv, LaneStates
    <2>4. ClaimInv'
      BY <1>0, <2>1, <2>2 DEF ClaimInv, LaneInv
    <2>5. OutcomeInv' /\ Accounting'
      BY <2>1 DEF RouterInv, OutcomeInv, Accounting, outcomes, stamps
    <2> QED BY <2>1, <2>2, <2>3, <2>4, <2>5, OnlyLane
  <1>2. CASE run_due_stop
    <2>1. LaneInv' /\ ClaimInv'
      BY <1>0, <1>2 DEF run_due_stop, LaneInv, ClaimInv, LaneStates, ledger
    <2> QED BY <1>2, <2>1, OnlyCounter DEF run_due_stop
  <1>3. ASSUME NEW settled \in BOOLEAN, run_due_report(settled) PROVE RouterInv'
    <2>1. LaneInv' /\ ClaimInv'
      BY <1>0, <1>3 DEF run_due_report, LaneInv, ClaimInv, LaneStates, ledger
    <2> QED BY <1>3, <2>1, OnlyCounter DEF run_due_report
  <1>4. CASE run_due_return
    <2>1. LaneInv' /\ ClaimInv'
      BY <1>0, <1>4, LimitAssumption
         DEF run_due_return, LaneInv, ClaimInv, LaneStates, ledger, IdleTimer
    <2> QED BY <1>4, <2>1, OnlyCounter DEF run_due_return
  <1> QED BY <1>1, <1>2, <1>3, <1>4

\* run_due, last section: the fired row is published or given up.  The row is
\* still FIRING and still counted, so the two repairs of a broken ledger are
\* dead code.
LEMMA FireKeeps ==
    ASSUME RouterInv, run_due_settle
    PROVE  RouterInv'
  <1> DEFINE r == timer.row
  <1>1. /\ timer.pc = "reported" /\ timer.budget # 0 /\ r \in Rows
        /\ rows[r].state = "FIRING" /\ rows \in [Rows -> Row]
        /\ drain.row \in Rows /\ (drain.pc = "busy" => drain.row # r)
        /\ timer \in [pc : LaneStates, row : Rows, budget : 0 .. MaxBatch,
                      settled : BOOLEAN]
    BY DEF run_due_settle, RouterInv, LaneInv, ClaimInv, LedgerInv
  <1>2. timer_pending # 0
    <2>1. rows[r].delay # 0
      BY <1>1 DEF RouterInv, LedgerInv
    <2>2. r \in TimerRows
      BY <1>1, <2>1 DEF TimerRows, CountsTimer
    <2>3. IsFiniteSet(TimerRows)
      BY FiniteTables, FS_Subset DEF TimerRows
    <2>4. TimerRows # {}
      BY <2>2
    <2>5. Cardinality(TimerRows) # 0
      BY <2>3, <2>4, FS_EmptySet
    <2> QED BY <2>5 DEF RouterInv, LedgerInv
  <1>3. UNCHANGED <<topology, stamps, intents, drain, aborting, journals,
                    discarded, delivered, life, now>>
    BY DEF run_due_settle
  <1>4. /\ pending \in Nat /\ discarded \in Nat /\ delivered \in Nat
        /\ cancelled \in Nat /\ timer_done_failed \in Nat
    BY DEF RouterInv, LedgerInv, OutcomeInv
  <1>5. fire_failed \/ fire_publishes
    BY <1>1, <1>2 DEF run_due_settle
  <1>6. LaneInv' /\ timer'.pc \in {"scan", "exit"}
    <2>1. CASE fire_failed
      <3>1. timer' = [timer EXCEPT
                        !.pc = IF Acknowledged THEN "scan" ELSE "exit",
                        !.row = 0, !.settled = FALSE]
        BY <2>1 DEF fire_failed
      <3>2. /\ timer' \in [pc : LaneStates, row : Rows, budget : 0 .. MaxBatch,
                           settled : BOOLEAN]
            /\ timer'.pc \in {"scan", "exit"} /\ timer'.budget = timer.budget
        BY <1>1, <3>1, TableIndices DEF LaneStates
      <3> QED BY <1>1, <1>3, <3>2 DEF RouterInv, LaneInv
    <2>2. CASE fire_publishes
      <3>1. timer' = [timer EXCEPT
                        !.pc = IF timer.budget = 1 THEN "exit" ELSE "scan",
                        !.row = 0, !.settled = FALSE, !.budget = @ - 1]
        BY <2>2 DEF fire_publishes
      <3>2. timer.budget - 1 \in 0 .. MaxBatch
        BY <1>1, LimitAssumption
      <3>3. /\ timer' \in [pc : LaneStates, row : Rows, budget : 0 .. MaxBatch,
                           settled : BOOLEAN]
            /\ timer'.pc = IF timer.budget = 1 THEN "exit" ELSE "scan"
            /\ timer'.budget = timer.budget - 1
        BY <1>1, <3>1, <3>2, TableIndices DEF LaneStates
      <3>4. timer'.pc = "scan" => timer'.budget # 0
        BY <1>1, <3>3
      <3> QED BY <1>1, <1>3, <3>3, <3>4 DEF RouterInv, LaneInv
    <2> QED BY <1>5, <2>1, <2>2
  <1> HIDE DEF r
  <1>7. /\ LedgerInv' /\ OutcomeInv' /\ Accounting'
        /\ \A q \in Rows \ {r} : rows'[q] = rows[q]
    <2>1. CASE fire_failed
      <3>1. /\ cancel_rows_locked({r})
            /\ timer_done_failed' \in {timer_done_failed, timer_done_failed + 1}
        BY <2>1 DEF fire_failed, r
      <3>2. /\ LedgerInv' /\ fate' \in [1 .. MaxU64 -> Fates]
            /\ pending' = pending - 1 /\ cancelled' = cancelled + 1
            /\ \A q \in Rows \ {r} : rows'[q] = rows[q]
        BY <1>1, <3>1, LaneEndsRow
      <3>3. OutcomeInv'
        BY <1>3, <1>4, <3>1, <3>2 DEF OutcomeInv
      <3>4. Accounting'
        <4>1. UNCHANGED <<next_row_identity, discarded, delivered>>
          BY <1>3 DEF stamps
        <4>2. next_row_identity = pending + discarded + delivered + cancelled
          BY DEF RouterInv, Accounting
        <4> QED BY <1>4, <3>2, <4>1, <4>2 DEF Accounting
      <3> QED BY <3>2, <3>3, <3>4
    <2>2. CASE fire_publishes
      <3>1. /\ rows' = [rows EXCEPT ![r].state = "READY"]
            /\ timer_pending' = timer_pending - 1
            /\ UNCHANGED <<pending, reserved, invariant_failures, cancelled,
                           fate, timer_done_failed>>
        BY <2>2 DEF fire_publishes, r
      <3>2. LedgerInv' /\ \A q \in Rows \ {r} : rows'[q] = rows[q]
        BY <1>1, <3>1, RestateKeepsLedger DEF RowStates
      <3>3. OutcomeInv' /\ Accounting'
        BY <1>3, <3>1 DEF RouterInv, OutcomeInv, Accounting, stamps
      <3> QED BY <3>2, <3>3
    <2> QED BY <1>5, <2>1, <2>2
  <1>8. ClaimInv'
    BY <1>1, <1>3, <1>6, <1>7 DEF RouterInv, ClaimInv
  <1> QED BY <1>3, <1>6, <1>7, <1>8, OnlyLane


\* drain: claiming the head, stopping, returning.
LEMMA DrainMovesKeep ==
    ASSUME RouterInv,
           (\E r \in Rows : drain_claim(r)) \/ drain_stop \/ drain_return
    PROVE  RouterInv'
  <1> USE TableIndices
  <1>0. LaneInv /\ ClaimInv /\ rows \in [Rows -> Row]
    BY DEF RouterInv, LedgerInv
  <1>1. ASSUME NEW r \in Rows, drain_claim(r) PROVE RouterInv'
    <2>1. /\ drain.pc = "scan" /\ rows[r].state = "READY"
          /\ rows' = [rows EXCEPT ![r].state = "INFLIGHT"]
          /\ drain' = [drain EXCEPT !.pc = "busy", !.row = r]
          /\ UNCHANGED <<topology, pending, reserved, timer_pending,
                         invariant_failures, stamps, intents, timer, aborting,
                         journals, outcomes, life, now>>
      BY <1>1 DEF drain_claim, IsHead, ReadyRows, RowsIn
    <2>2. /\ LedgerInv' /\ rows'[r].state = "INFLIGHT"
          /\ \A q \in Rows \ {r} : rows'[q] = rows[q]
      BY <2>1, RestateKeepsLedger DEF RowStates
    <2>3. LaneInv'
      BY <1>0, <2>1 DEF LaneInv, LaneStates
    <2>4. ClaimInv'
      BY <1>0, <2>1, <2>2 DEF ClaimInv, LaneInv
    <2>5. OutcomeInv' /\ Accounting'
      BY <2>1 DEF RouterInv, OutcomeInv, Accounting, outcomes, stamps
    <2> QED BY <2>1, <2>2, <2>3, <2>4, <2>5, OnlyLane
  <1>2. CASE drain_stop
    <2>1. LaneInv' /\ ClaimInv'
      BY <1>0, <1>2 DEF drain_stop, LaneInv, ClaimInv, LaneStates, ledger
    <2> QED BY <1>2, <2>1, OnlyCounter DEF drain_stop
  <1>3. CASE drain_return
    <2>1. LaneInv' /\ ClaimInv'
      BY <1>0, <1>3, LimitAssumption
         DEF drain_return, LaneInv, ClaimInv, LaneStates, ledger, IdleDrain
    <2> QED BY <1>3, <2>1, OnlyCounter DEF drain_return
  <1> QED BY <1>1, <1>2, <1>3

\* drain, after the admission: the row is delivered, given up, or READY again.
\* It is still INFLIGHT, so admission_lost never happens.
LEMMA AdmissionKeeps ==
    ASSUME RouterInv, NEW ok \in BOOLEAN, drain_settle(ok)
    PROVE  RouterInv'
  <1> DEFINE r == drain.row
  <1>1. /\ drain.pc = "busy" /\ drain.budget # 0 /\ r \in Rows
        /\ rows[r].state = "INFLIGHT" /\ rows \in [Rows -> Row]
        /\ timer.row \in Rows
        /\ (timer.pc \in {"busy", "reported"} => timer.row # r)
        /\ drain \in [pc : LaneStates, row : Rows, budget : 0 .. MaxBatch]
    BY DEF drain_settle, RouterInv, LaneInv, ClaimInv, LedgerInv
  <1>2. UNCHANGED <<topology, stamps, intents, timer, aborting, journals,
                    discarded, timer_done_failed, life, now>>
    BY DEF drain_settle
  <1>3. /\ pending \in Nat /\ discarded \in Nat /\ delivered \in Nat
        /\ cancelled \in Nat /\ timer_done_failed \in Nat
        /\ invariant_failures \in Nat
    BY DEF RouterInv, LedgerInv, OutcomeInv
  <1>4. admitted \/ refused
    BY <1>1 DEF drain_settle
  <1>5. LaneInv' /\ drain'.pc \in {"scan", "exit"}
    <2>1. CASE admitted
      <3>1. drain' = [drain EXCEPT
                        !.pc = IF drain.budget = 1 THEN "exit" ELSE "scan",
                        !.row = 0, !.budget = @ - 1]
        BY <2>1 DEF admitted
      <3>2. drain.budget - 1 \in 0 .. MaxBatch
        BY <1>1, LimitAssumption
      <3>3. /\ drain' \in [pc : LaneStates, row : Rows, budget : 0 .. MaxBatch]
            /\ drain'.pc = IF drain.budget = 1 THEN "exit" ELSE "scan"
            /\ drain'.budget = drain.budget - 1
        BY <1>1, <3>1, <3>2, TableIndices DEF LaneStates
      <3>4. drain'.pc = "scan" => drain'.budget # 0
        BY <1>1, <3>3
      <3> QED BY <1>1, <1>2, <3>3, <3>4 DEF RouterInv, LaneInv
    <2>2. CASE refused
      <3>1. drain' = [drain EXCEPT !.pc = "exit", !.row = 0]
        BY <2>2 DEF refused
      <3> QED BY <1>1, <1>2, <3>1, TableIndices DEF RouterInv, LaneInv, LaneStates
    <2> QED BY <1>4, <2>1, <2>2
  <1> HIDE DEF r
  <1>6. /\ LedgerInv' /\ OutcomeInv' /\ Accounting'
        /\ \A q \in Rows \ {r} : rows'[q] = rows[q]
    <2>1. CASE admitted
      <3>1. /\ release_locked({r}, "delivered")
            /\ invariant_failures' = invariant_failures + release_failures({r})
            /\ delivered' = delivered + 1 /\ cancelled' = cancelled
        BY <2>1 DEF admitted, r
      <3>2. invariant_failures' \in Nat
        <4>1. {r} \in SUBSET Rows
          BY <1>1
        <4>2. release_failures({r}) \in Nat
          BY <4>1, ReleaseFailuresType DEF RouterInv
        <4> QED BY <1>3, <3>1, <4>2
      <3>3. /\ LedgerInv' /\ fate' \in [1 .. MaxU64 -> Fates]
            /\ pending' = pending - 1
            /\ \A q \in Rows \ {r} : rows'[q] = rows[q]
        BY <1>1, <3>1, <3>2, EndOneRow DEF Fates
      <3>4. OutcomeInv'
        BY <1>2, <1>3, <3>1, <3>3 DEF OutcomeInv
      <3>5. Accounting'
        BY <1>2, <1>3, <3>1, <3>3 DEF RouterInv, Accounting, stamps
      <3> QED BY <3>3, <3>4, <3>5
    <2>2. CASE refused /\ closed
      <3>1. cancel_rows_locked({r}) /\ delivered' = delivered
        BY <2>2 DEF refused, r
      <3>2. /\ LedgerInv' /\ fate' \in [1 .. MaxU64 -> Fates]
            /\ pending' = pending - 1 /\ cancelled' = cancelled + 1
            /\ \A q \in Rows \ {r} : rows'[q] = rows[q]
        BY <1>1, <3>1, LaneEndsRow
      <3>3. OutcomeInv'
        BY <1>2, <1>3, <3>1, <3>2 DEF OutcomeInv
      <3>4. Accounting'
        BY <1>2, <1>3, <3>1, <3>2 DEF RouterInv, Accounting, stamps
      <3> QED BY <3>2, <3>3, <3>4
    <2>3. CASE refused /\ ~closed
      <3>1. /\ rows' = [rows EXCEPT ![r].state = "READY"]
            /\ UNCHANGED <<pending, reserved, timer_pending, delivered,
                           invariant_failures, cancelled, fate>>
        BY <2>3 DEF refused, r
      <3>2. LedgerInv' /\ \A q \in Rows \ {r} : rows'[q] = rows[q]
        BY <1>1, <3>1, RestateKeepsLedger DEF RowStates
      <3>3. OutcomeInv' /\ Accounting'
        BY <1>2, <3>1 DEF RouterInv, OutcomeInv, Accounting, stamps
      <3> QED BY <3>2, <3>3
    <2> QED BY <1>4, <2>1, <2>2, <2>3
  <1>7. ClaimInv'
    BY <1>1, <1>2, <1>5, <1>6 DEF RouterInv, ClaimInv
  <1> QED BY <1>2, <1>5, <1>6, <1>7, OnlyLane

-----------------------------------------------------------------------------
(* Calls of the host, and the theorems. *)

\* cancel, cancel_source and close drop rows that no ticket and no lane holds.
LEMMA BulkCancelKeeps ==
    ASSUME RouterInv, NEW D \in SUBSET Rows,
           \A r \in D : rows[r].state \in {"READY", "DELAYED"},
           cancel_rows_locked(D), closed' \in BOOLEAN,
           UNCHANGED <<topology, stamps, intents, lanes, journals, discarded,
                       delivered, timer_done_failed, destroyed, now>>
    PROVE  RouterInv'
  <1> USE DEF topology, stamps, intents, lanes, journals
  <1>1. drain.row \in Rows /\ timer.row \in Rows
    BY DEF RouterInv, LaneInv
  <1>2. LedgerInv' /\ OutcomeInv' /\ Accounting' /\ ClaimInv'
    BY <1>1, CancelKeepsLedger DEF RouterInv
  <1>3. TopologyInv'
    BY DEF RouterInv, TopologyInv, LiveSlots, LiveRoutes
  <1>4. IntentInv'
    BY DEF RouterInv, IntentInv, UsedIntents
  <1>5. StampInv' /\ JournalInv' /\ LifeInv' /\ LaneInv'
    BY DEF RouterInv, StampInv, JournalInv, LifeInv, LaneInv
  <1> QED BY <1>2, <1>3, <1>4, <1>5 DEF RouterInv

\* run_due, drain and the bulk cancellations, close, destroy and the clock.
LEMMA HostCallsKeep ==
    ASSUME RouterInv, HostCalls
    PROVE  RouterInv'
  <1> USE TableIndices, LimitAssumption
  <1>0. LaneInv /\ ClaimInv
    BY DEF RouterInv
  <1>1. ASSUME NEW n \in 1 .. MaxBatch, run_due(n) PROVE RouterInv'
    <2>1. timer' = [pc |-> "scan", row |-> 0, budget |-> n, settled |-> FALSE]
      BY <1>1 DEF run_due, IdleTimer
    <2>2. UNCHANGED <<rows, drain, aborting>>
      BY <1>1 DEF run_due, ledger
    <2>3. timer' \in [pc : LaneStates, row : Rows, budget : 0 .. MaxBatch,
                      settled : BOOLEAN]
      BY <2>1 DEF LaneStates
    <2>4. LaneInv' /\ ClaimInv'
      BY <1>0, <2>1, <2>2, <2>3 DEF LaneInv, ClaimInv
    <2> QED BY <1>1, <2>4, OnlyCounter DEF run_due
  <1>2. ASSUME NEW n \in 1 .. MaxBatch, drain_begin(n) PROVE RouterInv'
    <2>1. drain' = [pc |-> "scan", row |-> 0, budget |-> n]
      BY <1>2 DEF drain_begin, IdleDrain
    <2>2. LaneInv' /\ ClaimInv'
      BY <1>0, <1>2, <2>1 DEF drain_begin, LaneInv, ClaimInv, LaneStates, ledger
    <2> QED BY <1>2, <2>2, OnlyCounter DEF drain_begin
  <1>3. ASSUME NEW ref \in Refs, cancel(ref) PROVE RouterInv'
    <2> DEFINE D == {r \in ReadyRows : rows[r].target = ref}
    <2>1. D \in SUBSET Rows /\ \A r \in D : rows[r].state \in {"READY", "DELAYED"}
      BY DEF ReadyRows, RowsIn
    <2>2. closed' \in BOOLEAN
      BY <1>3 DEF cancel, life, RouterInv, LifeInv
    <2> QED BY <1>3, <2>1, <2>2, BulkCancelKeeps DEF cancel, life
  <1>4. ASSUME NEW ref \in Refs, cancel_source(ref) PROVE RouterInv'
    <2> DEFINE D == {r \in AcceptedRows : refs_equal(rows[r].source, ref)}
    <2>1. D \in SUBSET Rows /\ \A r \in D : rows[r].state \in {"READY", "DELAYED"}
      BY DEF AcceptedRows, RowsIn
    <2>2. closed' \in BOOLEAN
      BY <1>4 DEF cancel_source, life, RouterInv, LifeInv
    <2> QED BY <1>4, <2>1, <2>2, BulkCancelKeeps DEF cancel_source, life
  <1>5. CASE close
    <2>1. /\ AcceptedRows \in SUBSET Rows
          /\ \A r \in AcceptedRows : rows[r].state \in {"READY", "DELAYED"}
      BY DEF AcceptedRows, RowsIn
    <2> QED BY <1>5, <2>1, BulkCancelKeeps DEF close
  <1>6. CASE destroy \/ Tick
    <2>1. UNCHANGED <<topology, ledger, stamps, intents, lanes, journals,
                      outcomes>>
      BY <1>6 DEF destroy, Tick
    <2>2. LifeInv'
      <3>1. LifeInv
        BY DEF RouterInv
      <3>2. CASE destroy
        BY <3>1, <3>2, Zenon DEF destroy, LifeInv
      <3>3. CASE Tick
        <4>1. now' \in Nat
          BY <3>1, <3>3 DEF Tick, LifeInv
        <4>2. UNCHANGED <<closed, destroyed>>
          BY <3>3 DEF Tick, life
        <4> QED BY <3>1, <4>1, <4>2 DEF LifeInv
      <3> QED BY <1>6, <3>2, <3>3
    <2> USE DEF topology, ledger, stamps, intents, lanes, journals, outcomes
    <2>3. TopologyInv'
      BY <2>1 DEF RouterInv, TopologyInv, LiveSlots, LiveRoutes
    <2>4. LedgerInv'
      BY <2>1 DEF RouterInv, LedgerInv, UsedRows, ReservedRows, TimerRows,
                  CountsTimer
    <2>5. IntentInv'
      BY <2>1 DEF RouterInv, IntentInv, UsedIntents
    <2>6. StampInv' /\ JournalInv' /\ LaneInv' /\ ClaimInv'
      BY <2>1 DEF RouterInv, StampInv, JournalInv, LaneInv, ClaimInv
    <2>7. OutcomeInv' /\ Accounting'
      BY <2>1 DEF RouterInv, OutcomeInv, Accounting
    <2> QED BY <2>2, <2>3, <2>4, <2>5, <2>6, <2>7 DEF RouterInv
  <1> QED BY <1>1, <1>2, <1>3, <1>4, <1>5, <1>6 DEF HostCalls

\* A step that changes nothing.
LEMMA StutterKeeps ==
    ASSUME RouterInv, UNCHANGED vars
    PROVE  RouterInv'
  <1>1. UNCHANGED <<topology, ledger, stamps, intents, lanes, journals,
                    outcomes, life, now>>
    BY DEF vars
  <1>2. LaneInv' /\ ClaimInv'
    BY <1>1 DEF RouterInv, LaneInv, ClaimInv, lanes, ledger
  <1> QED BY <1>1, <1>2, OnlyCounter

\* RouterInv is inductive: one step of any actor keeps it.
LEMMA NextKeeps ==
    ASSUME RouterInv, [Next]_vars
    PROVE  RouterInv'
  <1>1. CASE Administer
    BY <1>1, AdministerKeeps
  <1>2. CASE Produce
    BY <1>2, ProduceKeeps
  <1>3. CASE Settle
    BY <1>3, SettleKeeps
  <1>4. CASE RunDueLane \/ \E settled \in BOOLEAN : run_due_report(settled)
    BY <1>4, TimerMovesKeep, FireKeeps DEF RunDueLane
  <1>5. CASE DrainLane
    BY <1>5, DrainMovesKeep, AdmissionKeeps DEF DrainLane
  <1>6. CASE HostCalls
    BY <1>6, HostCallsKeep
  <1>7. CASE Finished \/ UNCHANGED vars
    BY <1>7, StutterKeeps DEF Finished
  <1> QED BY <1>1, <1>2, <1>3, <1>4, <1>5, <1>6, <1>7 DEF Next

\* Every reachable state of the router satisfies the inductive invariant,
\* whatever the capacities, the limits and the interleaving of the lanes.
THEOREM RouterInvariant == Spec => []RouterInv
  <1>1. Init => RouterInv
    BY InitialRouter
  <1>2. RouterInv /\ [Next]_vars => RouterInv'
    BY NextKeeps
  <1> QED BY <1>1, <1>2, PTL DEF Spec

\* Type correctness: every table entry, counter, journal and lane of the
\* router stays in its range; no generation, identity or sequence passes the
\* last value of its C type.
THEOREM TypeCorrect == Spec => []TypeOK
  <1>1. RouterInv => TypeOK
    BY DEF RouterInv, TopologyInv, LedgerInv, StampInv, IntentInv, JournalInv,
           LaneInv, OutcomeInv, LifeInv, TypeOK
  <1> QED BY <1>1, RouterInvariant, PTL

\* The counters that admission, full-table checks and quiescence trust are the
\* sizes of the tables, after every critical section.
THEOREM CountersCorrect == Spec => []CountersMatchTables
  <1>1. RouterInv => CountersMatchTables
    BY DEF RouterInv, TopologyInv, LedgerInv, IntentInv, LiveSlots, LiveRoutes,
           UsedIntents, CountersMatchTables
  <1> QED BY <1>1, RouterInvariant, PTL

\* No Event is lost or counted twice: every identity handed out is pending, or
\* counted once as discarded, delivered or cancelled.
THEOREM AccountingCorrect == Spec => []Accounting
  <1>1. RouterInv => Accounting
    BY DEF RouterInv
  <1> QED BY <1>1, RouterInvariant, PTL


-----------------------------------------------------------------------------
(* A closed router publishes nothing again. *)

\* No row becomes READY or DELAYED in this step.
NothingAccepted ==
    \A r \in Rows : rows'[r].state \in {"READY", "DELAYED"} =>
                       rows[r].state \in {"READY", "DELAYED"}

\* Releasing rows accepts nothing.
LEMMA ReleaseAcceptsNothing ==
    ASSUME NEW D, NEW end, release_locked(D, end)
    PROVE  NothingAccepted
  <1>1. rows' = [r \in Rows |-> IF r \in Releasable(D) THEN FreeRow ELSE rows[r]]
    BY DEF release_locked
  <1>2. FreeRow.state = "FREE"
    BY DEF FreeRow
  <1> QED BY <1>1, <1>2 DEF NothingAccepted

\* On a closed router administration and settlement accept nothing: a ticket
\* that commits late is given up.
LEMMA ClosedSettlement ==
    ASSUME RouterInv, closed, Administer \/ Produce \/ Settle
    PROVE  NothingAccepted /\ closed' = closed
  <1>0. rows \in [Rows -> Row]
    BY DEF RouterInv, LedgerInv
  <1>1. CASE Administer
    <2>1. ASSUME NEW ref \in Refs, abort(ref)
          PROVE  NothingAccepted /\ closed' = closed
      BY <2>1, ReleaseAcceptsNothing DEF abort, cancel_rows_locked, life
    <2>2. ASSUME NEW ref \in Refs, detach(ref)
          PROVE  NothingAccepted /\ closed' = closed
      BY <2>2 DEF detach, ledger, life, NothingAccepted
    <2>3. CASE abort_detach
      BY <2>3 DEF abort_detach, ledger, life, NothingAccepted
    <2>4. ASSUME NEW owner \in Refs, NEW id \in InvokeIds,
                 unbind_invoke(owner, id)
          PROVE  NothingAccepted /\ closed' = closed
      BY <2>4 DEF unbind_invoke, ledger, life, NothingAccepted
    <2> QED BY <1>1, <2>1, <2>2, <2>3, <2>4
            DEF Administer, reserve, attach, activate, set_parent,
                set_external_access, bind_invoke, MayPublish
  <1>2. CASE Produce
    BY <1>2 DEF Produce, prepare_target, prepare_cancel, prepare, enqueue, Open
  <1>3. ASSUME NEW j \in Journals, NEW r \in Rows, ticket_commit(j, r)
        PROVE  NothingAccepted /\ closed' = closed
    <2>1. commit_locked(r) /\ closed' = closed
      BY <1>3 DEF ticket_commit, life
    <2>2. commit_failed \/ cancel_rows_locked({r})
      BY <2>1 DEF commit_locked
    <2>3. CASE commit_failed
      BY <2>1, <2>3 DEF commit_failed, NothingAccepted
    <2>4. CASE cancel_rows_locked({r})
      BY <2>1, <2>4, ReleaseAcceptsNothing DEF cancel_rows_locked
    <2> QED BY <2>2, <2>3, <2>4
  <1>4. ASSUME NEW j \in Journals, NEW r \in Rows, ticket_discard(j, r)
        PROVE  NothingAccepted /\ closed' = closed
    <2>1. discard_locked(r) /\ closed' = closed
      BY <1>4 DEF ticket_discard, life
    <2>2. release_locked({r}, "discarded") \/ rows' = rows
      BY <2>1 DEF discard_locked
    <2> QED BY <2>1, <2>2, ReleaseAcceptsNothing DEF NothingAccepted
  <1>5. ASSUME NEW j \in Journals, NEW c \in CancelRows, cancel_commit(j, c)
        PROVE  NothingAccepted /\ closed' = closed
    <2> DEFINE r == cancel_rows[c].target
    <2>1. closed' = closed /\ (cancel_revokes(c) \/ cancel_too_late(c))
      BY <1>5 DEF cancel_commit, life
    <2>2. \/ release_locked({r}, "cancelled")
          \/ rows' = rows
          \/ rows' = [rows EXCEPT ![r].fire_won_cancel = TRUE]
      BY <2>1 DEF cancel_revokes, cancel_too_late
    <2>3. CASE rows' = [rows EXCEPT ![r].fire_won_cancel = TRUE]
      <3>1. \A q \in Rows : rows'[q].state = rows[q].state
        BY <1>0, <2>3 DEF Row
      <3> QED BY <2>1, <3>1 DEF NothingAccepted
    <2> QED BY <2>1, <2>2, <2>3, ReleaseAcceptsNothing DEF NothingAccepted
  <1>6. ASSUME NEW j \in Journals, NEW c \in CancelRows, cancel_discard(j, c)
        PROVE  NothingAccepted /\ closed' = closed
    BY <1>6 DEF cancel_discard, life, NothingAccepted
  <1>7. ASSUME NEW j \in Journals, NEW how, EndMicrostep(j, how)
        PROVE  NothingAccepted /\ closed' = closed
    BY <1>7 DEF EndMicrostep, ledger, life, NothingAccepted
  <1> QED BY <1>1, <1>2, <1>3, <1>4, <1>5, <1>6, <1>7 DEF Settle

\* Neither do the lanes: a row that fires or is refused too late is given up.
LEMMA ClosedLanes ==
    ASSUME RouterInv, closed,
           \/ RunDueLane \/ DrainLane
           \/ \E settled \in BOOLEAN : run_due_report(settled)
    PROVE  NothingAccepted /\ closed' = closed
  <1>1. ASSUME NEW r \in Rows, run_due_claim(r) \/ drain_claim(r) PROVE FALSE
    BY <1>1 DEF run_due_claim, drain_claim
  <1>2. CASE \/ run_due_stop \/ run_due_return \/ drain_stop \/ drain_return
             \/ \E settled \in BOOLEAN : run_due_report(settled)
    BY <1>2 DEF run_due_stop, run_due_return, drain_stop, drain_return,
                run_due_report, ledger, life, NothingAccepted
  <1>3. CASE run_due_settle
    <2>1. closed' = closed /\ (fire_broken \/ fire_failed)
      BY <1>3 DEF run_due_settle, life
    <2> QED BY <2>1, ReleaseAcceptsNothing
            DEF fire_broken, fire_failed, cancel_rows_locked
  <1>4. ASSUME NEW ok \in BOOLEAN, drain_settle(ok)
        PROVE  NothingAccepted /\ closed' = closed
    <2>1. closed' = closed /\ (admission_lost \/ admitted \/ refused)
      BY <1>4 DEF drain_settle, life
    <2>2. CASE admission_lost
      BY <2>1, <2>2 DEF admission_lost, NothingAccepted
    <2>3. CASE admitted
      BY <2>1, <2>3, ReleaseAcceptsNothing DEF admitted
    <2>4. CASE refused
      BY <2>1, <2>4, ReleaseAcceptsNothing DEF refused, cancel_rows_locked
    <2> QED BY <2>1, <2>2, <2>3, <2>4
  <1> QED BY <1>1, <1>2, <1>3, <1>4 DEF RunDueLane, DrainLane

\* The calls of the host on a closed router accept nothing either.
LEMMA ClosedHostCalls ==
    ASSUME closed, HostCalls
    PROVE  NothingAccepted /\ closed' = closed
  <1>1. ASSUME NEW ref \in Refs, cancel(ref) \/ cancel_source(ref)
        PROVE  NothingAccepted /\ closed' = closed
    BY <1>1, ReleaseAcceptsNothing
       DEF cancel, cancel_source, cancel_rows_locked, life
  <1>2. CASE destroy \/ Tick
    BY <1>2 DEF destroy, Tick, ledger, life, NothingAccepted
  <1> QED BY <1>1, <1>2 DEF HostCalls, run_due, drain_begin, close, Open

\* The step that closes the router drops every accepted row.
LEMMA CloseEmptiesLedger ==
    ASSUME RouterInv, [Next]_vars, ~closed, closed'
    PROVE  ClosedLedger'
  <1>1. close
    <2>1. CASE Administer
      BY <2>1 DEF Administer, reserve, attach, activate, abort, abort_detach,
                  detach, set_parent, set_external_access, bind_invoke,
                  unbind_invoke, life
    <2>2. CASE Produce
      BY <2>2 DEF Produce, prepare_target, prepare_cancel, prepare, enqueue, life
    <2>3. CASE Settle
      BY <2>3 DEF Settle, EndMicrostep, ticket_commit, ticket_discard,
                  cancel_commit, cancel_discard, life
    <2>4. CASE RunDueLane \/ \E settled \in BOOLEAN : run_due_report(settled)
      BY <2>4 DEF RunDueLane, run_due_claim, run_due_stop, run_due_settle,
                  run_due_return, run_due_report, life
    <2>5. CASE DrainLane
      BY <2>5 DEF DrainLane, drain_claim, drain_stop, drain_settle,
                  drain_return, life
    <2>6. CASE HostCalls
      BY <2>6 DEF HostCalls, run_due, drain_begin, cancel, cancel_source,
                  destroy, Tick, life
    <2>7. CASE Finished \/ UNCHANGED vars
      BY <2>7 DEF Finished, vars, life
    <2> QED BY <2>1, <2>2, <2>3, <2>4, <2>5, <2>6, <2>7 DEF Next
  <1>2. AcceptedRows \in SUBSET Rows /\ AcceptedRows \cap UsedRows = AcceptedRows
    BY DEF AcceptedRows, RowsIn, UsedRows
  <1>3. Releasable(AcceptedRows) = AcceptedRows
    BY <1>2, EveryRowIsReleasable DEF RouterInv
  <1>4. rows' = [r \in Rows |-> IF r \in AcceptedRows THEN FreeRow ELSE rows[r]]
    BY <1>1, <1>3 DEF close, cancel_rows_locked, release_locked
  <1>5. AcceptedRows' = {}
    BY <1>4 DEF AcceptedRows, RowsIn, FreeRow
  <1> QED BY <1>5 DEF ClosedLedger

\* Once close has returned, no interleaving of late commits, fired deadlines
\* and refused deliveries ever puts a row back where drain or run_due finds it.
THEOREM ClosedStaysEmpty == Spec => []ClosedLedger
  <1>1. Init => ClosedLedger
    BY DEF Init, ClosedLedger
  <1>2. RouterInv /\ ClosedLedger /\ [Next]_vars => ClosedLedger'
    <2> SUFFICES ASSUME RouterInv, ClosedLedger, [Next]_vars
                 PROVE  ClosedLedger'
      OBVIOUS
    <2>1. CASE closed
      <3>1. NothingAccepted
        <4>1. CASE Finished \/ UNCHANGED vars
          BY <4>1 DEF Finished, vars, ledger, NothingAccepted
        <4> QED BY <2>1, <4>1, ClosedSettlement, ClosedLanes, ClosedHostCalls
                DEF Next
      <3>2. AcceptedRows = {}
        BY <2>1 DEF ClosedLedger
      <3>3. AcceptedRows' = {}
        BY <3>1, <3>2 DEF NothingAccepted, AcceptedRows, RowsIn
      <3> QED BY <3>3 DEF ClosedLedger
    <2>2. CASE ~closed /\ closed'
      BY <2>2, CloseEmptiesLedger
    <2>3. CASE ~closed'
      BY <2>3 DEF ClosedLedger
    <2> QED BY <2>1, <2>2, <2>3
  <1> QED BY <1>1, <1>2, RouterInvariant, PTL DEF Spec


-----------------------------------------------------------------------------
(* Whatever borrows an endpoint pins its generation. *)

\* No row, and no intent, names an endpoint that it did not name before.
RowNamesKept ==
    \A r \in Rows : rows'[r].state # "FREE" =>
       /\ rows[r].state # "FREE"
       /\ rows'[r].target = rows[r].target /\ rows'[r].source = rows[r].source
IntentNamesKept ==
    \A c \in CancelRows : cancel_rows'[c].in_use =>
       cancel_rows[c].in_use /\ cancel_rows'[c].source = cancel_rows[c].source

\* Releasing rows names nothing new.
LEMMA ReleaseNamesNothing ==
    ASSUME NEW D, NEW end, release_locked(D, end)
    PROVE  RowNamesKept
  <1>1. rows' = [r \in Rows |-> IF r \in Releasable(D) THEN FreeRow ELSE rows[r]]
    BY DEF release_locked
  <1>2. FreeRow.state = "FREE"
    BY DEF FreeRow
  <1> QED BY <1>1, <1>2 DEF RowNamesKept

\* Moving a row in use to another state names nothing new.
LEMMA RestateNamesNothing ==
    ASSUME RouterInv, NEW r \in Rows, NEW state, rows[r].state # "FREE",
           rows' = [rows EXCEPT ![r].state = state]
    PROVE  RowNamesKept
  <1>1. rows \in [Rows -> Row]
    BY DEF RouterInv, LedgerInv
  <1>2. \A q \in Rows : /\ rows'[q].target = rows[q].target
                        /\ rows'[q].source = rows[q].source
                        /\ q # r => rows'[q].state = rows[q].state
    BY <1>1 DEF Row
  <1> QED BY <1>2 DEF RowNamesKept

\* The settlement of a ticket names nothing new.
LEMMA SettleNamesNothing ==
    ASSUME RouterInv, Settle
    PROVE  RowNamesKept /\ IntentNamesKept /\ UNCHANGED topology
  <1>0. rows \in [Rows -> Row] /\ cancel_rows \in [CancelRows -> CancelRow]
    BY DEF RouterInv, LedgerInv, IntentInv
  <1>1. ASSUME NEW j \in Journals, NEW r \in Rows, ticket_commit(j, r)
        PROVE  RowNamesKept /\ IntentNamesKept /\ UNCHANGED topology
    <2>1. commit_locked(r) /\ UNCHANGED <<topology, cancel_rows>>
      BY <1>1 DEF ticket_commit, intents
    <2>2. RowNamesKept
      <3>1. CASE rows[r].state # "RESERVED"
        BY <2>1, <3>1 DEF commit_locked, commit_failed, RowNamesKept
      <3>2. CASE cancel_rows_locked({r})
        BY <3>2, ReleaseNamesNothing DEF cancel_rows_locked
      <3>3. CASE rows[r].state = "RESERVED" /\ commit_publishes(r)
        <4>1. \A q \in Rows : /\ rows'[q].target = rows[q].target
                              /\ rows'[q].source = rows[q].source
                              /\ q # r => rows'[q].state = rows[q].state
          BY <1>0, <3>3 DEF commit_publishes, Row
        <4> QED BY <3>3, <4>1 DEF RowNamesKept
      <3> QED BY <2>1, <3>1, <3>2, <3>3 DEF commit_locked
    <2> QED BY <2>1, <2>2 DEF IntentNamesKept
  <1>2. ASSUME NEW j \in Journals, NEW r \in Rows, ticket_discard(j, r)
        PROVE  RowNamesKept /\ IntentNamesKept /\ UNCHANGED topology
    <2>1. discard_locked(r) /\ UNCHANGED <<topology, cancel_rows>>
      BY <1>2 DEF ticket_discard, intents
    <2>2. release_locked({r}, "discarded") \/ rows' = rows
      BY <2>1 DEF discard_locked
    <2>3. RowNamesKept
      BY <2>2, ReleaseNamesNothing DEF RowNamesKept
    <2> QED BY <2>1, <2>3 DEF IntentNamesKept
  <1>3. ASSUME NEW c \in CancelRows, cancel_release_locked(c)
        PROVE  IntentNamesKept
    BY <1>0, <1>3 DEF cancel_release_locked, FreeCancel, intents, IntentNamesKept
  <1>4. ASSUME NEW j \in Journals, NEW c \in CancelRows, cancel_commit(j, c)
        PROVE  RowNamesKept /\ IntentNamesKept /\ UNCHANGED topology
    <2> DEFINE r == cancel_rows[c].target
    <2>1. /\ cancel_revokes(c) \/ cancel_too_late(c)
          /\ cancel_release_locked(c) /\ UNCHANGED topology
      BY <1>4 DEF cancel_commit
    <2>2. \/ release_locked({r}, "cancelled")
          \/ rows' = rows
          \/ rows' = [rows EXCEPT ![r].fire_won_cancel = TRUE]
      BY <2>1 DEF cancel_revokes, cancel_too_late
    <2>3. CASE rows' = [rows EXCEPT ![r].fire_won_cancel = TRUE]
      <3>1. \A q \in Rows : /\ rows'[q].state = rows[q].state
                            /\ rows'[q].target = rows[q].target
                            /\ rows'[q].source = rows[q].source
        BY <1>0, <2>3 DEF Row
      <3> QED BY <1>3, <2>1, <3>1 DEF RowNamesKept
    <2>4. RowNamesKept
      BY <2>2, <2>3, ReleaseNamesNothing DEF RowNamesKept
    <2> QED BY <1>3, <2>1, <2>4
  <1>5. ASSUME NEW j \in Journals, NEW c \in CancelRows, cancel_discard(j, c)
        PROVE  RowNamesKept /\ IntentNamesKept /\ UNCHANGED topology
    BY <1>3, <1>5 DEF cancel_discard, RowNamesKept
  <1>6. ASSUME NEW j \in Journals, NEW how, EndMicrostep(j, how)
        PROVE  RowNamesKept /\ IntentNamesKept /\ UNCHANGED topology
    BY <1>6 DEF EndMicrostep, ledger, intents, RowNamesKept, IntentNamesKept
  <1> QED BY <1>1, <1>2, <1>4, <1>5, <1>6 DEF Settle

\* Neither do the lanes, nor the calls of the host.
LEMMA LanesNameNothing ==
    ASSUME RouterInv,
           \/ RunDueLane \/ DrainLane \/ HostCalls
           \/ \E settled \in BOOLEAN : run_due_report(settled)
           \/ Finished \/ UNCHANGED vars
    PROVE  RowNamesKept /\ IntentNamesKept /\ UNCHANGED topology
  <1>1. CASE \E r \in Rows : run_due_claim(r) \/ drain_claim(r)
    <2>1. PICK r \in Rows : run_due_claim(r) \/ drain_claim(r)
      BY <1>1
    <2>2. /\ rows[r].state # "FREE"
          /\ \E state : rows' = [rows EXCEPT ![r].state = state]
          /\ UNCHANGED <<topology, intents>>
      BY <2>1 DEF run_due_claim, drain_claim, Earliest, Due, IsHead, ReadyRows,
                  RowsIn
    <2> QED BY <2>2, RestateNamesNothing DEF intents, IntentNamesKept
  <1>2. CASE \/ run_due_stop \/ run_due_return \/ drain_stop \/ drain_return
             \/ \E settled \in BOOLEAN : run_due_report(settled)
             \/ \E n \in 1 .. MaxBatch : run_due(n) \/ drain_begin(n)
             \/ destroy \/ Tick \/ Finished \/ UNCHANGED vars
    <2>1. UNCHANGED <<topology, ledger, intents>>
      BY <1>2 DEF run_due_stop, run_due_return, drain_stop, drain_return,
                  run_due_report, run_due, drain_begin, destroy, Tick, Finished,
                  vars
    <2> QED BY <2>1 DEF ledger, intents, RowNamesKept, IntentNamesKept
  <1>3. CASE run_due_settle
    <2>1. /\ UNCHANGED <<topology, intents>> /\ timer.row \in Rows
          /\ rows[timer.row].state = "FIRING"
      BY <1>3 DEF run_due_settle, RouterInv, LaneInv, ClaimInv
    <2>2. fire_broken \/ fire_failed \/ fire_publishes
      BY <1>3 DEF run_due_settle
    <2>3. CASE fire_broken \/ fire_failed
      BY <2>1, <2>3, ReleaseNamesNothing
         DEF fire_broken, fire_failed, cancel_rows_locked, intents,
             IntentNamesKept
    <2>4. CASE fire_publishes
      BY <2>1, <2>4, RestateNamesNothing
         DEF fire_publishes, intents, IntentNamesKept
    <2> QED BY <2>2, <2>3, <2>4
  <1>4. CASE \E ok \in BOOLEAN : drain_settle(ok)
    <2>1. /\ UNCHANGED <<topology, intents>> /\ drain.row \in Rows
          /\ rows[drain.row].state = "INFLIGHT"
      BY <1>4 DEF drain_settle, RouterInv, LaneInv, ClaimInv
    <2>2. admitted \/ refused
      BY <1>4, <2>1 DEF drain_settle
    <2>3. CASE admitted
      BY <2>1, <2>3, ReleaseNamesNothing DEF admitted, intents, IntentNamesKept
    <2>4. CASE refused
      BY <2>1, <2>4, ReleaseNamesNothing, RestateNamesNothing
         DEF refused, cancel_rows_locked, intents, IntentNamesKept
    <2> QED BY <2>2, <2>3, <2>4
  <1>5. CASE (\E ref \in Refs : cancel(ref) \/ cancel_source(ref)) \/ close
    <2>1. /\ \E D : release_locked(D, "cancelled")
          /\ UNCHANGED <<topology, intents>>
      BY <1>5 DEF cancel, cancel_source, close, cancel_rows_locked
    <2> QED BY <2>1, ReleaseNamesNothing DEF intents, IntentNamesKept
  <1> QED BY <1>1, <1>2, <1>3, <1>4, <1>5 DEF RunDueLane, DrainLane, HostCalls

\* A step that names nothing new and leaves the endpoints alone.
LEMMA PinnedByNames ==
    ASSUME BorrowsPinned, RowNamesKept, IntentNamesKept, UNCHANGED topology
    PROVE  BorrowsPinned'
  BY DEF BorrowsPinned, RowNamesKept, IntentNamesKept, topology, matches


\* A new row or intent names endpoints that match when it is made.
LEMMA ProducePins ==
    ASSUME RouterInv, BorrowsPinned, Produce
    PROVE  BorrowsPinned'
  <1>0. rows \in [Rows -> Row] /\ cancel_rows \in [CancelRows -> CancelRow]
    BY DEF RouterInv, LedgerInv, IntentInv
  <1>1. ASSUME NEW r \in Rows, NEW row, rows' = [rows EXCEPT ![r] = row],
               matches(row.target),
               row.source.generation # 0 => matches(row.source),
               UNCHANGED <<topology, intents>>
        PROVE  BorrowsPinned'
    <2>1. \A q \in Rows : rows'[q] = IF q = r THEN row ELSE rows[q]
      BY <1>0, <1>1
    <2>2. UNCHANGED <<endpoints, invoke_routes, cancel_rows>>
      BY <1>1 DEF topology, intents
    <2>3. \A q \in Rows : (rows[q].state # "FREE" =>
             /\ matches(rows[q].target)
             /\ rows[q].source.generation # 0 => matches(rows[q].source))'
      <3> SUFFICES ASSUME NEW q \in Rows, rows'[q].state # "FREE"
                   PROVE  (/\ matches(rows[q].target)
                           /\ rows[q].source.generation # 0 => matches(rows[q].source))'
        OBVIOUS
      <3>1. CASE q = r
        BY <1>1, <2>1, <2>2, <3>1 DEF matches
      <3>2. CASE q # r
        BY <2>1, <2>2, <3>2 DEF BorrowsPinned, matches
      <3> QED BY <3>1, <3>2
    <2>4. (\A c \in CancelRows :
             cancel_rows[c].in_use => matches(cancel_rows[c].source))'
      BY <2>2 DEF BorrowsPinned, matches
    <2>5. (\A s \in Slots : endpoints[s].parent.generation # 0 =>
             endpoints[s].live /\ matches(endpoints[s].parent))'
      BY <2>2 DEF BorrowsPinned, matches
    <2>6. (\A i \in Routes : invoke_routes[i].live =>
             matches(invoke_routes[i].owner) /\ matches(invoke_routes[i].target))'
      BY <2>2 DEF BorrowsPinned, matches
    <2> QED BY <2>3, <2>4, <2>5, <2>6 DEF BorrowsPinned
  <1>2. ASSUME NEW source \in Refs, NEW target \in Targets, NEW d \in Sends,
               prepare_target(source, target, d[1], d[2])
        PROVE  BorrowsPinned'
    <2>1. PICK r \in Rows, ref \in Refs :
             /\ matches(ref)
             /\ rows' = [rows EXCEPT ![r] = NewRow(ref, source, d[1], d[2])]
      BY <1>2 DEF prepare_target, reserve_locked
    <2>2. matches(source) /\ UNCHANGED <<topology, intents>>
      BY <1>2 DEF prepare_target
    <2>3. /\ NewRow(ref, source, d[1], d[2]).target = ref
          /\ NewRow(ref, source, d[1], d[2]).source = source
      BY DEF NewRow
    <2> QED BY <1>1, <2>1, <2>2, <2>3
  <1>3. ASSUME NEW target \in Refs, prepare(target) \/ enqueue(target)
        PROVE  BorrowsPinned'
    <2> DEFINE n == NewRow(target, NoRef, 0, NoId)
               m == [n EXCEPT !.state = "READY", !.sequence = next_sequence + 1]
    <2>1. n.target = target /\ n.source = NoRef
      BY DEF NewRow
    <2>2. m.target = target /\ m.source = NoRef
      BY DEF NewRow
    <2>3. PICK r \in Rows : \/ rows' = [rows EXCEPT ![r] = n]
                            \/ rows' = [rows EXCEPT ![r] = m]
      BY <1>3 DEF prepare, enqueue, reserve_locked
    <2>4. matches(target) /\ UNCHANGED <<topology, intents>>
      BY <1>3 DEF prepare, enqueue
    <2>5. NoRef.generation = 0
      BY DEF NoRef
    <2> HIDE DEF n, m
    <2> QED BY <1>1, <2>1, <2>2, <2>3, <2>4, <2>5
  <1>4. ASSUME NEW source \in Refs, NEW id \in SendIds,
               prepare_cancel(source, id)
        PROVE  BorrowsPinned'
    <2>1. PICK r \in Rows, c \in CancelRows :
            cancel_rows' = [cancel_rows EXCEPT
              ![c] = [in_use |-> TRUE, target |-> r, source |-> source,
                      target_identity |-> rows[r].identity]]
      BY <1>4 DEF prepare_cancel
    <2>2. \A k \in CancelRows :
            cancel_rows'[k].source = IF k = c THEN source
                                     ELSE cancel_rows[k].source
      BY <1>0, <2>1
    <2>3. \A k \in CancelRows : k # c => cancel_rows'[k] = cancel_rows[k]
      BY <1>0, <2>1
    <2>4. matches(source) /\ UNCHANGED <<endpoints, invoke_routes, rows>>
      BY <1>4 DEF prepare_cancel, topology, ledger
    <2> QED BY <2>2, <2>3, <2>4 DEF BorrowsPinned, matches
  <1> QED BY <1>2, <1>3, <1>4 DEF Produce

\* A reference that matches names its slot uniquely.
LEMMA MatchIsUnique ==
    ASSUME NEW a \in Refs, NEW b \in Refs, matches(a), matches(b),
           a.slot = b.slot
    PROVE  a = b
  BY DEF Refs, matches

\* The names a table holds are references.
LEMMA NamesAreRefs ==
    ASSUME RouterInv
    PROVE  /\ \A r \in Rows : rows[r].target \in Refs /\ rows[r].source \in Refs
           /\ \A c \in CancelRows : cancel_rows[c].source \in Refs
           /\ \A s \in Slots : endpoints[s].parent \in Refs
           /\ \A i \in Routes : /\ invoke_routes[i].owner \in Refs
                                /\ invoke_routes[i].target \in Refs
  BY DEF RouterInv, LedgerInv, IntentInv, TopologyInv, Row, CancelRow, Endpoint,
         Route

\* The reference b names the current generation of a live slot after the step.
MatchesNext(b) ==
    /\ b.generation # 0
    /\ endpoints'[b.slot].live
    /\ endpoints'[b.slot].generation = b.generation

\* Only endpoints change, and what is named matches afterwards.
LEMMA PinnedNext ==
    ASSUME UNCHANGED <<invoke_routes, rows, cancel_rows>>,
           \A r \in Rows : rows[r].state # "FREE" =>
              /\ MatchesNext(rows[r].target)
              /\ rows[r].source.generation # 0 => MatchesNext(rows[r].source),
           \A c \in CancelRows :
              cancel_rows[c].in_use => MatchesNext(cancel_rows[c].source),
           \A s \in Slots : endpoints'[s].parent.generation # 0 =>
              endpoints'[s].live /\ MatchesNext(endpoints'[s].parent),
           \A i \in Routes : invoke_routes[i].live =>
              /\ MatchesNext(invoke_routes[i].owner)
              /\ MatchesNext(invoke_routes[i].target)
    PROVE  BorrowsPinned'
  BY DEF BorrowsPinned, matches, MatchesNext

\* Taking down an endpoint that nothing borrows leaves every borrow alone: a
\* borrowed reference that shared its slot would be the same reference.
LEMMA DetachPins ==
    ASSUME RouterInv, BorrowsPinned, NEW ref \in Refs, matches(ref),
           Unborrowed(ref), detach_endpoint(ref),
           UNCHANGED <<invoke_routes, rows, cancel_rows>>
    PROVE  BorrowsPinned'
  <1>1. /\ ref.slot \in Slots /\ ref.generation # 0
        /\ endpoints \in [Slots -> Endpoint]
    BY DEF Refs, matches, RouterInv, TopologyInv
  <1>2. /\ \A s \in Slots \ {ref.slot} : endpoints'[s] = endpoints[s]
        /\ endpoints'[ref.slot].parent = NoRef
    BY <1>1 DEF detach_endpoint, BlankEndpoint
  <1>3. ASSUME NEW b \in Refs, matches(b), ~refs_equal(b, ref)
        PROVE  MatchesNext(b)
    <2>1. b.slot # ref.slot
      BY <1>3, MatchIsUnique DEF refs_equal, matches
    <2>2. b.slot \in Slots
      BY DEF Refs
    <2> QED BY <1>2, <1>3, <2>1, <2>2 DEF matches, MatchesNext
  <1>4. \A r \in Rows : rows[r].state # "FREE" =>
          /\ MatchesNext(rows[r].target)
          /\ rows[r].source.generation # 0 => MatchesNext(rows[r].source)
    BY <1>3, NamesAreRefs DEF BorrowsPinned, Unborrowed
  <1>5. \A c \in CancelRows :
          cancel_rows[c].in_use => MatchesNext(cancel_rows[c].source)
    BY <1>3, NamesAreRefs DEF BorrowsPinned, Unborrowed
  <1>6. \A s \in Slots : endpoints'[s].parent.generation # 0 =>
          endpoints'[s].live /\ MatchesNext(endpoints'[s].parent)
    BY <1>2, <1>3, NamesAreRefs DEF BorrowsPinned, Unborrowed, NoRef
  <1>7. \A i \in Routes : invoke_routes[i].live =>
          /\ MatchesNext(invoke_routes[i].owner)
          /\ MatchesNext(invoke_routes[i].target)
    BY <1>3, NamesAreRefs DEF BorrowsPinned, Unborrowed
  <1> QED BY <1>4, <1>5, <1>6, <1>7, PinnedNext

\* Publishing a slot that is not live disturbs no borrow: none names it.
LEMMA PublishPins ==
    ASSUME RouterInv, BorrowsPinned, NEW s \in Slots, ~endpoints[s].live,
           NEW e, endpoints' = [endpoints EXCEPT ![s] = e],
           e.parent.generation = 0,
           UNCHANGED <<invoke_routes, rows, cancel_rows>>
    PROVE  BorrowsPinned'
  <1>1. \A k \in Slots : endpoints'[k] = IF k = s THEN e ELSE endpoints[k]
    BY DEF RouterInv, TopologyInv
  <1>2. \A b \in Refs : matches(b) => b.slot # s /\ b.slot \in Slots
    BY DEF matches, Refs
  <1>3. \A b \in Refs : matches(b) => endpoints'[b.slot] = endpoints[b.slot]
    BY <1>1, <1>2
  <1> QED BY <1>1, <1>3, NamesAreRefs DEF BorrowsPinned, matches

\* Changing the Session, the access or the parent of an endpoint keeps its
\* generation; a new parent matches.
LEMMA RelinkPins ==
    ASSUME RouterInv, BorrowsPinned, NEW s \in Slots, NEW e,
           endpoints' = [endpoints EXCEPT ![s] = e],
           e.live = endpoints[s].live, e.generation = endpoints[s].generation,
           \/ e.parent = endpoints[s].parent
           \/ e.parent.generation = 0
           \/ e.live /\ matches(e.parent) /\ e.parent \in Refs,
           UNCHANGED <<invoke_routes, rows, cancel_rows>>
    PROVE  BorrowsPinned'
  <1>1. \A k \in Slots : endpoints'[k] = IF k = s THEN e ELSE endpoints[k]
    BY DEF RouterInv, TopologyInv
  <1>2. \A k \in Slots : /\ endpoints'[k].live = endpoints[k].live
                         /\ endpoints'[k].generation = endpoints[k].generation
    BY <1>1
  <1>3. \A b \in Refs : matches(b) => MatchesNext(b)
    BY <1>2 DEF Refs, matches, MatchesNext
  <1>4. \A r \in Rows : rows[r].state # "FREE" =>
          /\ MatchesNext(rows[r].target)
          /\ rows[r].source.generation # 0 => MatchesNext(rows[r].source)
    BY <1>3, NamesAreRefs DEF BorrowsPinned
  <1>5. \A c \in CancelRows :
          cancel_rows[c].in_use => MatchesNext(cancel_rows[c].source)
    BY <1>3, NamesAreRefs DEF BorrowsPinned
  <1>6. \A k \in Slots : endpoints'[k].parent.generation # 0 =>
          endpoints'[k].live /\ MatchesNext(endpoints'[k].parent)
    <2>1. \A k \in Slots : endpoints[k].parent.generation # 0 =>
            endpoints[k].live /\ MatchesNext(endpoints[k].parent)
      BY <1>3, NamesAreRefs DEF BorrowsPinned
    <2> QED BY <1>1, <1>2, <1>3, <2>1
  <1>7. \A i \in Routes : invoke_routes[i].live =>
          /\ MatchesNext(invoke_routes[i].owner)
          /\ MatchesNext(invoke_routes[i].target)
    BY <1>3, NamesAreRefs DEF BorrowsPinned
  <1> QED BY <1>4, <1>5, <1>6, <1>7, PinnedNext

\* Endpoint administration keeps every borrow pinned.
LEMMA AdministerPins ==
    ASSUME RouterInv, BorrowsPinned, Administer
    PROVE  BorrowsPinned'
  <1>0. /\ endpoints \in [Slots -> Endpoint] /\ invoke_routes \in [Routes -> Route]
        /\ \A b \in Refs : b.slot \in Slots
        /\ NoRef.generation = 0
    BY DEF RouterInv, TopologyInv, Refs, NoRef
  <1>1. ASSUME reserve \/ \E x \in Sessions : attach(x)
        PROVE  BorrowsPinned'
    <2>1. PICK s \in Slots, x \in Sessions \cup {NoSession} :
            /\ ~endpoints[s].live
            /\ endpoints' = [endpoints EXCEPT ![s] = NewEndpoint(s, x)]
      BY <1>1 DEF reserve, attach, FirstUnusedSlot, IsFirst
    <2>2. NewEndpoint(s, x).parent.generation = 0
      BY <1>0 DEF NewEndpoint
    <2>3. UNCHANGED <<invoke_routes, rows, cancel_rows>>
      BY <1>1 DEF reserve, attach, ledger, intents
    <2> QED BY <2>1, <2>2, <2>3, PublishPins
  <1>2. ASSUME NEW ref \in Refs, NEW x \in Sessions, activate(ref, x)
        PROVE  BorrowsPinned'
    <2> DEFINE old == endpoints[ref.slot]
               e == [old EXCEPT !.session = x, !.active = TRUE]
    <2>1. old \in Endpoint
      BY <1>0
    <2>2. endpoints' = [endpoints EXCEPT ![ref.slot] = e]
      BY <1>0, <1>2 DEF activate
    <2>3. UNCHANGED <<invoke_routes, rows, cancel_rows>>
      BY <1>2 DEF activate, ledger, intents
    <2>4. /\ e.live = old.live /\ e.generation = old.generation
          /\ e.parent = old.parent
      BY <2>1 DEF Endpoint
    <2> HIDE DEF e
    <2> QED BY <1>0, <2>2, <2>3, <2>4, RelinkPins
  <1>3. ASSUME NEW ref \in Refs, abort(ref) PROVE BorrowsPinned'
    <2>1. RowNamesKept /\ UNCHANGED <<topology, cancel_rows>>
      BY <1>3, ReleaseNamesNothing DEF abort, cancel_rows_locked, intents
    <2> QED BY <2>1, PinnedByNames DEF IntentNamesKept
  <1>4. CASE abort_detach
    <2>1. UNCHANGED <<invoke_routes, rows, cancel_rows>>
      BY <1>4 DEF abort_detach, ledger, intents
    <2>2. CASE UNCHANGED endpoints
      BY <2>1, <2>2 DEF BorrowsPinned, matches
    <2>3. CASE /\ matches(aborting) /\ Unborrowed(aborting)
               /\ detach_endpoint(aborting)
      BY <2>1, <2>3, DetachPins DEF RouterInv, LaneInv
    <2> QED BY <1>4, <2>2, <2>3 DEF abort_detach
  <1>5. ASSUME NEW ref \in Refs, detach(ref) PROVE BorrowsPinned'
    BY <1>5, DetachPins DEF detach, ledger, intents
  <1>6. ASSUME NEW child \in Refs, NEW parent \in Refs, set_parent(child, parent)
        PROVE  BorrowsPinned'
    <2> DEFINE old == endpoints[child.slot]
               e == [old EXCEPT !.parent = parent]
    <2>1. old \in Endpoint /\ old.live
      BY <1>0, <1>6 DEF set_parent, matches
    <2>2. endpoints' = [endpoints EXCEPT ![child.slot] = e]
      BY <1>0, <1>6 DEF set_parent
    <2>3. UNCHANGED <<invoke_routes, rows, cancel_rows>>
      BY <1>6 DEF set_parent, ledger, intents
    <2>4. /\ e.live = old.live /\ e.generation = old.generation
          /\ e.parent = parent
      BY <2>1 DEF Endpoint
    <2>5. parent.generation = 0 \/ matches(parent)
      BY <1>0, <1>6 DEF set_parent, MayAdopt
    <2> HIDE DEF e
    <2> QED BY <1>0, <2>1, <2>2, <2>3, <2>4, <2>5, RelinkPins
  <1>7. ASSUME NEW ref \in Refs, NEW b \in BOOLEAN, set_external_access(ref, b)
        PROVE  BorrowsPinned'
    <2> DEFINE old == endpoints[ref.slot]
               e == [old EXCEPT !.accessible = b]
    <2>1. old \in Endpoint
      BY <1>0
    <2>2. endpoints' = [endpoints EXCEPT ![ref.slot] = e]
      BY <1>0, <1>7 DEF set_external_access
    <2>3. UNCHANGED <<invoke_routes, rows, cancel_rows>>
      BY <1>7 DEF set_external_access, ledger, intents
    <2>4. /\ e.live = old.live /\ e.generation = old.generation
          /\ e.parent = old.parent
      BY <2>1 DEF Endpoint
    <2> HIDE DEF e
    <2> QED BY <1>0, <2>2, <2>3, <2>4, RelinkPins
  <1>8. ASSUME NEW owner \in Refs, NEW target \in Refs, NEW id \in InvokeIds,
               bind_invoke(owner, id, target)
        PROVE  BorrowsPinned'
    <2>1. PICK i \in Routes :
            invoke_routes' = [invoke_routes EXCEPT
              ![i] = [live |-> TRUE, owner |-> owner, id |-> id,
                      target |-> target]]
      BY <1>8 DEF bind_invoke
    <2>2. \A k \in Routes :
            IF k = i THEN /\ invoke_routes'[k].owner = owner
                          /\ invoke_routes'[k].target = target
            ELSE invoke_routes'[k] = invoke_routes[k]
      BY <1>0, <2>1
    <2>3. /\ matches(owner) /\ matches(target)
          /\ UNCHANGED <<endpoints, rows, cancel_rows>>
      BY <1>8 DEF bind_invoke, ledger, intents
    <2>4. (\A r \in Rows : rows[r].state # "FREE" =>
             /\ matches(rows[r].target)
             /\ rows[r].source.generation # 0 => matches(rows[r].source))'
      BY <2>3 DEF BorrowsPinned, matches
    <2>5. (\A c \in CancelRows :
             cancel_rows[c].in_use => matches(cancel_rows[c].source))'
      BY <2>3 DEF BorrowsPinned, matches
    <2>6. (\A s \in Slots : endpoints[s].parent.generation # 0 =>
             endpoints[s].live /\ matches(endpoints[s].parent))'
      BY <2>3 DEF BorrowsPinned, matches
    <2>7. \A k \in Routes : (invoke_routes[k].live =>
             matches(invoke_routes[k].owner) /\ matches(invoke_routes[k].target))'
      <3> SUFFICES ASSUME NEW k \in Routes, invoke_routes'[k].live
                   PROVE  (/\ matches(invoke_routes[k].owner)
                           /\ matches(invoke_routes[k].target))'
        OBVIOUS
      <3>1. CASE k = i
        BY <2>2, <2>3, <3>1 DEF matches
      <3>2. CASE k # i
        BY <2>2, <2>3, <3>2 DEF BorrowsPinned, matches
      <3> QED BY <3>1, <3>2
    <2> QED BY <2>4, <2>5, <2>6, <2>7 DEF BorrowsPinned
  <1>9. ASSUME NEW owner \in Refs, NEW id \in InvokeIds, unbind_invoke(owner, id)
        PROVE  BorrowsPinned'
    <2>1. PICK i \in Routes : invoke_routes' = [invoke_routes EXCEPT ![i] = FreeRoute]
      BY <1>9 DEF unbind_invoke
    <2>2. \A k \in Routes : invoke_routes'[k].live =>
             invoke_routes'[k] = invoke_routes[k]
      BY <1>0, <2>1 DEF FreeRoute
    <2>3. UNCHANGED <<endpoints, rows, cancel_rows>>
      BY <1>9 DEF unbind_invoke, ledger, intents
    <2> QED BY <2>2, <2>3 DEF BorrowsPinned, matches
  <1> QED BY <1>1, <1>2, <1>3, <1>4, <1>5, <1>6, <1>7, <1>8, <1>9 DEF Administer

LEMMA NextPins ==
    ASSUME RouterInv, BorrowsPinned, [Next]_vars
    PROVE  BorrowsPinned'
  <1>1. CASE Administer
    BY <1>1, AdministerPins
  <1>2. CASE Produce
    BY <1>2, ProducePins
  <1>3. CASE Settle
    BY <1>3, SettleNamesNothing, PinnedByNames
  <1>4. CASE \/ RunDueLane \/ DrainLane \/ HostCalls
             \/ \E settled \in BOOLEAN : run_due_report(settled)
             \/ Finished \/ UNCHANGED vars
    BY <1>4, LanesNameNothing, PinnedByNames
  <1> QED BY <1>1, <1>2, <1>3, <1>4 DEF Next

\* Nothing outlives the endpoint it names: a row, a cancel intent, a parent link
\* or an alias keeps naming the generation it was made for, although slots are
\* detached, aborted and reused concurrently with producers and lanes.
THEOREM BorrowsStayPinned == Spec => []BorrowsPinned
  <1>1. Init => BorrowsPinned
    BY DEF Init, BorrowsPinned, FreeRow, FreeCancel, FreeRoute, BlankEndpoint,
           NoRef
  <1>2. RouterInv /\ BorrowsPinned /\ [Next]_vars => BorrowsPinned'
    BY NextPins
  <1> QED BY <1>1, <1>2, RouterInvariant, PTL DEF Spec

-----------------------------------------------------------------------------
(* The parent links. *)

\* Every nonempty set of natural numbers has a least one.
LEMMA LeastOf ==
    ASSUME NEW T \in SUBSET Nat, T # {}
    PROVE  \E n \in T : \A m \in T : n <= m
  <1> DEFINE R == {p \in Nat \X Nat : p[1] < p[2]}
  <1>1. OpToRel(<, Nat) = R
    BY Zenon DEF OpToRel
  <1>2. IsWellFoundedOn(R, Nat)
    BY NatLessThanWellFounded, <1>1, Zenon
  <1>3. \E x \in T : \A y \in T : ~(<<y, x>> \in R)
    <2> HIDE DEF R
    <2> QED BY <1>2, WFMin
  <1>4. PICK x \in T : \A y \in T : ~(<<y, x>> \in R)
    BY <1>3
  <1>5. ASSUME NEW y \in T PROVE x <= y
    BY <1>4, <<y, x>> \in Nat \X Nat
  <1> QED BY <1>5

\* Induction, as a statement about sets.
LEMMA StepInduction ==
    ASSUME NEW T \in SUBSET Nat, 0 \in T, \A n \in T : n + 1 \in T
    PROVE  T = Nat
  <1> SUFFICES ASSUME T # Nat PROVE FALSE
    OBVIOUS
  <1>1. PICK n \in Nat \ T : \A m \in Nat \ T : n <= m
    BY LeastOf
  <1>2. n - 1 \in T
    BY <1>1
  <1> QED BY <1>1, <1>2

\* The walk up from a parent link, in a table E of endpoints.
Above(E, ref) == IF ref.generation = 0 THEN NoRef ELSE E[ref.slot].parent

IsWalk(E, p, m, up) ==
    up = [n \in 0 .. m |-> IF n = 0 THEN p ELSE Above(E, up[n - 1])]

WalkFrom(E, p) == CHOOSE up : IsWalk(E, p, endpoint_capacity, up)

LEMMA AncestorsAreWalks ==
    /\ \A p : AncestorsFrom(p) = WalkFrom(endpoints, p)
    /\ (\A p : AncestorsFrom(p) = WalkFrom(endpoints, p))'
  BY DEF AncestorsFrom, WalkFrom, IsWalk, Above

\* There is such a walk, although the definition is recursive.
LEMMA WalkExists ==
    ASSUME NEW E, NEW p, NEW m \in Nat
    PROVE  \E up : IsWalk(E, p, m, up)
  <1> DEFINE T == {k \in Nat : \E up : IsWalk(E, p, k, up)}
  <1>1. 0 \in T
    <2>1. IsWalk(E, p, 0, [n \in 0 .. 0 |-> p])
      BY DEF IsWalk
    <2> QED BY <2>1
  <1>2. ASSUME NEW k \in T PROVE k + 1 \in T
    <2>1. k \in Nat
      OBVIOUS
    <2>2. PICK up : IsWalk(E, p, k, up)
      OBVIOUS
    <2> DEFINE v == [n \in 0 .. k + 1 |-> IF n = k + 1 THEN Above(E, up[k]) ELSE up[n]]
    <2>3. \A n \in 0 .. k : up[n] = IF n = 0 THEN p ELSE Above(E, up[n - 1])
      BY <2>2 DEF IsWalk
    <2>4. \A n \in 0 .. k + 1 : v[n] = IF n = 0 THEN p ELSE Above(E, v[n - 1])
      <3> SUFFICES ASSUME NEW n \in 0 .. k + 1
                   PROVE  v[n] = IF n = 0 THEN p ELSE Above(E, v[n - 1])
        OBVIOUS
      <3>1. CASE n = k + 1
        <4>1. v[n] = Above(E, up[k]) /\ v[n - 1] = up[k] /\ n # 0
          BY <2>1, <3>1
        <4> QED BY <4>1
      <3>2. CASE n # k + 1
        <4>1. n \in 0 .. k /\ v[n] = up[n] /\ (n # 0 => n - 1 \in 0 .. k + 1 /\ n - 1 # k + 1)
          BY <2>1, <3>2
        <4>2. n # 0 => v[n - 1] = up[n - 1]
          BY <4>1
        <4> QED BY <2>3, <4>1, <4>2
      <3> QED BY <3>1, <3>2
    <2>5. v = [n \in 0 .. k + 1 |-> v[n]]
      OBVIOUS
    <2> HIDE DEF v
    <2>6. IsWalk(E, p, k + 1, v)
      BY <2>4, <2>5 DEF IsWalk
    <2> QED BY <2>1, <2>6
  <1> HIDE DEF T
  <1>3. T \in SUBSET Nat
    BY DEF T
  <1>4. T = Nat
    BY <1>1, <1>2, <1>3, StepInduction
  <1> QED BY <1>4 DEF T

LEMMA WalkSteps ==
    ASSUME NEW E, NEW p
    PROVE  /\ WalkFrom(E, p)[0] = p
           /\ \A n \in 0 .. endpoint_capacity - 1 :
                 WalkFrom(E, p)[n + 1] = Above(E, WalkFrom(E, p)[n])
  <1>1. endpoint_capacity \in Nat /\ endpoint_capacity # 0
    BY CapacityAssumption
  <1> DEFINE w == WalkFrom(E, p)
  <1>2. IsWalk(E, p, endpoint_capacity, w)
    BY <1>1, WalkExists DEF WalkFrom
  <1> HIDE DEF w
  <1>3. \A n \in 0 .. endpoint_capacity :
           w[n] = IF n = 0 THEN p ELSE Above(E, w[n - 1])
    BY <1>2 DEF IsWalk
  <1>4. ASSUME NEW n \in 0 .. endpoint_capacity - 1 PROVE w[n + 1] = Above(E, w[n])
    <2>1. n + 1 \in 0 .. endpoint_capacity /\ n + 1 # 0 /\ (n + 1) - 1 = n
      BY <1>1
    <2> QED BY <1>3, <2>1
  <1>5. w[0] = p
    BY <1>1, <1>3
  <1> QED BY <1>4, <1>5 DEF w

(***************************************************************************)
(* Acyclic says it without counting: in every set of slots there is one    *)
(* whose parent is not in the set.  That is inductive; that walks end      *)
(* follows, as a walk longer than the table would come back to a slot.     *)
(***************************************************************************)
Acyclic ==
    /\ \A s \in Slots :
          endpoints[s].parent.generation = 0 => endpoints[s].parent = NoRef
    /\ \A T \in SUBSET Slots : T # {} =>
          \E s \in T : \/ endpoints[s].parent.generation = 0
                       \/ endpoints[s].parent.slot \notin T

LEMMA WalksEnd ==
    ASSUME RouterInv, Acyclic, NEW p \in Refs, p.generation = 0 => p = NoRef
    PROVE  WalkFrom(endpoints, p)[endpoint_capacity] = NoRef
  <1> DEFINE w == WalkFrom(endpoints, p)
             c == endpoint_capacity
  <1>0. /\ c \in Nat /\ c # 0 /\ NoRef.generation = 0
        /\ endpoints \in [Slots -> Endpoint]
    BY CapacityAssumption DEF NoRef, RouterInv, TopologyInv
  <1>1. w[0] = p /\ \A n \in 0 .. c - 1 : w[n + 1] = Above(endpoints, w[n])
    BY WalkSteps
  <1> HIDE DEF w
  \* Links of a walk are references, and the null one is NoRef.
  <1>2. \A n \in 0 .. c : w[n] \in Refs /\ (w[n].generation = 0 => w[n] = NoRef)
    <2> DEFINE T == {n \in Nat : n <= c =>
                       w[n] \in Refs /\ (w[n].generation = 0 => w[n] = NoRef)}
    <2>1. 0 \in T
      BY <1>1
    <2>2. ASSUME NEW n \in T PROVE n + 1 \in T
      <3> SUFFICES ASSUME n + 1 <= c
                   PROVE  /\ w[n + 1] \in Refs
                          /\ w[n + 1].generation = 0 => w[n + 1] = NoRef
        OBVIOUS
      <3>1. n \in 0 .. c - 1 /\ n <= c
        BY <1>0
      <3>2. w[n] \in Refs /\ w[n + 1] = Above(endpoints, w[n])
        BY <1>1, <3>1
      <3>3. w[n].slot \in Slots
        BY <3>2 DEF Refs
      <3>4. endpoints[w[n].slot].parent \in Refs
        BY <1>0, <3>3 DEF Endpoint
      <3>5. NoRef \in Refs
        BY CapacityAssumption, LimitAssumption DEF NoRef, Refs, Slots
      <3> QED BY <3>2, <3>3, <3>4, <3>5 DEF Above, Acyclic
    <2> HIDE DEF T
    <2>3. T \in SUBSET Nat
      BY DEF T
    <2>4. T = Nat
      BY <2>1, <2>2, <2>3, StepInduction
    <2>5. \A n \in 0 .. c : n \in T /\ n <= c
      BY <1>0, <2>4
    <2> QED BY <2>5 DEF T
  <1> SUFFICES ASSUME w[c] # NoRef PROVE FALSE
    BY DEF w
  <1>3. c \in 0 .. c
    BY <1>0
  <1>4. w[c].generation # 0
    BY <1>2, <1>3
  \* Before the end no link is null.
  <1>5. \A n \in 0 .. c : w[n].generation # 0
    <2> SUFFICES ASSUME NEW n \in 0 .. c, w[n].generation = 0 PROVE FALSE
      OBVIOUS
    <2> DEFINE T == {k \in Nat : n + k <= c => w[n + k] = NoRef}
    <2>0. n \in Nat /\ n <= c
      BY <1>0
    <2>1. 0 \in T
      BY <1>2, <2>0
    <2>2. ASSUME NEW k \in T PROVE k + 1 \in T
      <3> SUFFICES ASSUME n + (k + 1) <= c PROVE w[n + (k + 1)] = NoRef
        OBVIOUS
      <3>1. n + k \in 0 .. c - 1 /\ n + k <= c /\ n + (k + 1) = (n + k) + 1
        BY <1>0, <2>0
      <3>2. w[n + k] = NoRef /\ w[(n + k) + 1] = Above(endpoints, w[n + k])
        BY <1>1, <3>1
      <3> QED BY <1>0, <3>1, <3>2 DEF Above
    <2> HIDE DEF T
    <2>3. T \in SUBSET Nat
      BY DEF T
    <2>4. T = Nat
      BY <2>1, <2>2, <2>3, StepInduction
    <2>5. c - n \in T /\ n + (c - n) = c
      BY <1>0, <2>0, <2>4
    <2>6. w[c] = NoRef
      BY <1>0, <2>5 DEF T
    <2> QED BY <2>6
  \* Two of them name the same slot.
  <1> DEFINE f == [n \in 0 .. c |-> w[n].slot]
  <1>6. f \in [0 .. c -> Slots]
    BY <1>2 DEF Refs
  <1>7. \E m, n \in 0 .. c : m # n /\ f[m] = f[n]
    <2>1. /\ IsFiniteSet(0 .. c) /\ Cardinality(0 .. c) = c + 1
          /\ IsFiniteSet(0 .. c - 1) /\ Cardinality(0 .. c - 1) = c
      BY <1>0, FS_Interval
    <2>2. IsFiniteSet(Slots) /\ Cardinality(Slots) < Cardinality(0 .. c)
      BY <1>0, <2>1 DEF Slots
    <2> HIDE DEF f, c
    <2> QED BY <1>6, <2>1, <2>2, FS_PigeonHole
  <1>8. PICK m \in 0 .. c, n \in 0 .. c : m < n /\ w[m].slot = w[n].slot
    <2>1. PICK a \in 0 .. c, b \in 0 .. c : a # b /\ w[a].slot = w[b].slot
      BY <1>7
    <2>2. a < b \/ b < a
      BY <1>0, <2>1
    <2> QED BY <2>1, <2>2
  \* So the slots between them all have a parent among them.
  <1> DEFINE L == {k \in 0 .. c : m <= k /\ k < n}
             C == {w[k].slot : k \in L}
  <1>9. C \in SUBSET Slots
    BY <1>2 DEF Refs
  <1>10. m \in L
    BY <1>0, <1>8
  <1>11. PICK k \in L : \/ endpoints[w[k].slot].parent.generation = 0
                        \/ endpoints[w[k].slot].parent.slot \notin C
    <2>1. C # {}
      BY <1>10
    <2>2. PICK s \in C : endpoints[s].parent.generation = 0 \/ endpoints[s].parent.slot \notin C
      <3> HIDE DEF C
      <3> QED BY <1>9, <2>1 DEF Acyclic
    <2> QED BY <2>2
  <1>12. /\ k \in 0 .. c - 1 /\ k \in 0 .. c /\ k + 1 \in 0 .. c
         /\ k + 1 # n => k + 1 \in L
    BY <1>0, <1>8
  <1>13. w[k + 1] = endpoints[w[k].slot].parent
    BY <1>1, <1>5, <1>12 DEF Above
  <1>14. w[k + 1].generation # 0
    BY <1>5, <1>12
  <1>15. w[k + 1].slot \in C
    <2>1. CASE k + 1 = n
      BY <1>8, <1>10, <2>1
    <2>2. CASE k + 1 # n
      BY <1>12, <2>2
    <2> QED BY <2>1, <2>2
  <1> QED BY <1>11, <1>13, <1>14, <1>15

LEMMA AcyclicIsForest ==
    ASSUME RouterInv, Acyclic
    PROVE  ParentForest
  <1> SUFFICES ASSUME NEW s \in Slots
               PROVE  WalkFrom(endpoints, endpoints[s].parent)[endpoint_capacity] = NoRef
    BY AncestorsAreWalks DEF ParentForest
  <1>1. endpoints[s].parent \in Refs
    BY DEF RouterInv, TopologyInv, Endpoint
  <1> QED BY <1>1, WalksEnd DEF Acyclic

\* What administration does to parent links: links are cut, or one is made.
CutsLinks ==
    \A s \in Slots : endpoints'[s].parent \in {endpoints[s].parent, NoRef}

LEMMA CutsKeepAcyclic ==
    ASSUME Acyclic, CutsLinks
    PROVE  Acyclic'
  <1>0. NoRef.generation = 0
    BY DEF NoRef
  <1>1. ASSUME NEW s \in Slots, endpoints'[s].parent.generation = 0
        PROVE  endpoints'[s].parent = NoRef
    BY <1>1 DEF Acyclic, CutsLinks
  <1>2. ASSUME NEW T \in SUBSET Slots, T # {}
        PROVE  \E s \in T : \/ endpoints'[s].parent.generation = 0
                            \/ endpoints'[s].parent.slot \notin T
    <2>1. PICK s \in T : \/ endpoints[s].parent.generation = 0
                         \/ endpoints[s].parent.slot \notin T
      BY <1>2 DEF Acyclic
    <2>2. endpoints'[s].parent = endpoints[s].parent \/ endpoints'[s].parent = NoRef
      BY DEF CutsLinks
    <2> QED BY <1>0, <2>1, <2>2
  <1> QED BY <1>1, <1>2 DEF Acyclic

\* set_parent makes a link only to a parent from which a walk does not pass
\* the child, so the link closes no cycle.
LEMMA AdoptKeepsAcyclic ==
    ASSUME RouterInv, Acyclic, NEW child \in Refs, NEW parent \in Refs,
           matches(child), MayAdopt(child, parent),
           \A s \in Slots : endpoints'[s].parent =
              IF s = child.slot THEN parent ELSE endpoints[s].parent
    PROVE  Acyclic'
  <1> DEFINE w == WalkFrom(endpoints, parent)
             c == endpoint_capacity
  <1>0. c \in Nat /\ c # 0 /\ endpoints \in [Slots -> Endpoint]
    BY CapacityAssumption DEF RouterInv, TopologyInv
  <1>1. w[0] = parent /\ \A n \in 0 .. c - 1 : w[n + 1] = Above(endpoints, w[n])
    BY WalkSteps
  <1>2. /\ matches(parent)
        /\ \A n \in 0 .. c - 1 : w[n].generation # 0 =>
              ~refs_equal(w[n], child) /\ matches(w[n])
        /\ w[c].generation = 0
    BY AncestorsAreWalks DEF MayAdopt
  <1> HIDE DEF w
  <1>3. parent.generation # 0
    BY <1>2 DEF matches
  \* The slots on the walk, which stays in the table.
  <1>4. \A n \in 0 .. c : w[n] \in Refs
    <2> DEFINE T == {n \in Nat : n <= c => w[n] \in Refs}
    <2>1. 0 \in T
      BY <1>1
    <2>2. ASSUME NEW n \in T PROVE n + 1 \in T
      <3> SUFFICES ASSUME n + 1 <= c PROVE w[n + 1] \in Refs
        OBVIOUS
      <3>1. n \in 0 .. c - 1 /\ n <= c
        BY <1>0
      <3>2. w[n] \in Refs /\ w[n + 1] = Above(endpoints, w[n])
        BY <1>1, <3>1
      <3>3. w[n].slot \in Slots
        BY <3>2 DEF Refs
      <3>4. endpoints[w[n].slot].parent \in Refs
        BY <1>0, <3>3 DEF Endpoint
      <3>5. NoRef \in Refs
        BY CapacityAssumption, LimitAssumption DEF NoRef, Refs, Slots
      <3> QED BY <3>2, <3>4, <3>5 DEF Above
    <2> HIDE DEF T
    <2>3. T \in SUBSET Nat
      BY DEF T
    <2>4. T = Nat
      BY <2>1, <2>2, <2>3, StepInduction
    <2>5. \A n \in 0 .. c : n \in T /\ n <= c
      BY <1>0, <2>4
    <2> QED BY <2>5 DEF T
  <1>5. ASSUME NEW n \in 0 .. c - 1, w[n].generation # 0
        PROVE  w[n].slot # child.slot
    <2>1. ~refs_equal(w[n], child) /\ matches(w[n])
      BY <1>2, <1>5
    <2>2. w[n] # child
      BY <1>5, <2>1 DEF refs_equal
    <2>3. w[n] \in Refs
      BY <1>0, <1>4
    <2>4. w[n].slot = child.slot => w[n].generation = child.generation
      BY <2>1 DEF matches
    <2>5. w[n].slot = child.slot => w[n] = child
      BY <2>3, <2>4 DEF Refs
    <2> QED BY <2>2, <2>5
  <1>6. ASSUME NEW s \in Slots, endpoints'[s].parent.generation = 0
        PROVE  endpoints'[s].parent = NoRef
    BY <1>3, <1>6 DEF Acyclic
  <1>7. ASSUME NEW T \in SUBSET Slots, T # {},
               \A s \in T : /\ endpoints'[s].parent.generation # 0
                            /\ endpoints'[s].parent.slot \in T
        PROVE  FALSE
    <2>1. CASE child.slot \notin T
      <3>1. \A s \in T : endpoints'[s].parent = endpoints[s].parent
        BY <2>1
      <3> QED BY <1>7, <3>1 DEF Acyclic
    <2>2. CASE child.slot \in T
      \* What the walk visits of T has its parents there too.
      <3> DEFINE K == {n \in 0 .. c - 1 : w[n].generation # 0 /\ w[n].slot \in T}
                 A == {w[n].slot : n \in K}
      <3>1. 0 \in K
        <4>1. child.slot \in Slots
          BY DEF Refs
        <4>2. endpoints'[child.slot].parent = parent
          BY <4>1
        <4>3. parent.slot \in T
          BY <1>7, <2>2, <4>2
        <4>4. 0 \in 0 .. c - 1
          BY <1>0
        <4> QED BY <1>1, <1>3, <4>3, <4>4
      <3>2. A \in SUBSET Slots /\ A # {}
        BY <3>1, <1>7
      <3>3. PICK s \in A : endpoints[s].parent.generation = 0 \/ endpoints[s].parent.slot \notin A
        <4> HIDE DEF A
        <4> QED BY <3>2 DEF Acyclic
      <3>4. PICK n \in K : w[n].slot = s
        OBVIOUS
      <3>5. s \in T /\ s # child.slot /\ w[n].generation # 0
        BY <1>5, <3>4
      <3>6. endpoints'[s].parent = endpoints[s].parent
        BY <1>7, <3>5
      <3>7. endpoints[s].parent.generation # 0 /\ endpoints[s].parent.slot \in T
        BY <1>7, <3>5, <3>6
      <3>8. w[n + 1] = endpoints[s].parent
        BY <1>1, <3>4, <3>5 DEF Above
      <3>9. n + 1 \in 0 .. c - 1
        <4>1. n + 1 # c
          BY <1>2, <3>7, <3>8
        <4> QED BY <1>0, <4>1
      <3>10. n + 1 \in K
        BY <3>7, <3>8, <3>9
      <3>11. w[n + 1].slot \in A
        BY <3>10
      <3> QED BY <3>3, <3>7, <3>8, <3>11
    <2> QED BY <2>1, <2>2
  <1> QED BY <1>6, <1>7 DEF Acyclic

\* Only administration writes endpoints, and only set_parent makes a link.
LEMMA NextLinks ==
    ASSUME RouterInv, [Next]_vars
    PROVE  \/ CutsLinks
           \/ \E child, parent \in Refs :
                 /\ matches(child) /\ MayAdopt(child, parent)
                 /\ \A s \in Slots : endpoints'[s].parent =
                       IF s = child.slot THEN parent ELSE endpoints[s].parent
  <1>0. endpoints \in [Slots -> Endpoint] /\ aborting \in Refs
    BY DEF RouterInv, TopologyInv, LaneInv
  <1>1. UNCHANGED endpoints => CutsLinks
    BY DEF CutsLinks
  <1>2. ASSUME NEW s \in Slots, NEW e, endpoints' = [endpoints EXCEPT ![s] = e],
               e.parent \in {endpoints[s].parent, NoRef}
        PROVE  CutsLinks
    BY <1>0, <1>2 DEF CutsLinks
  <1>3. CASE Administer
    <2>1. CASE reserve \/ \E session \in Sessions : attach(session)
      <3>1. PICK s \in Slots, session \in Sessions \cup {NoSession} :
               endpoints' = [endpoints EXCEPT ![s] = NewEndpoint(s, session)]
        BY <2>1 DEF reserve, attach
      <3>2. NewEndpoint(s, session).parent = NoRef
        BY DEF NewEndpoint
      <3> QED BY <1>2, <3>1, <3>2
    <2>2. ASSUME NEW ref \in Refs, detach_endpoint(ref) PROVE CutsLinks
      <3>1. ref.slot \in Slots /\ [BlankEndpoint EXCEPT !.generation = ref.generation].parent = NoRef
        BY DEF Refs, BlankEndpoint
      <3> QED BY <1>2, <2>2, <3>1 DEF detach_endpoint
    <2>3. CASE \E ref \in Refs : detach(ref)
      BY <2>2, <2>3 DEF detach
    <2>4. CASE abort_detach
      BY <1>0, <1>1, <2>2, <2>4 DEF abort_detach
    <2>5. ASSUME NEW ref \in Refs, NEW session \in Sessions, activate(ref, session)
          PROVE  CutsLinks
      <3>1. \A s \in Slots : endpoints'[s].parent = endpoints[s].parent
        BY <1>0, <2>5 DEF activate, Endpoint, Refs
      <3> QED BY <3>1 DEF CutsLinks
    <2>6. ASSUME NEW ref \in Refs, NEW b \in BOOLEAN, set_external_access(ref, b)
          PROVE  CutsLinks
      <3>1. \A s \in Slots : endpoints'[s].parent = endpoints[s].parent
        BY <1>0, <2>6 DEF set_external_access, Endpoint, Refs
      <3> QED BY <3>1 DEF CutsLinks
    <2>7. ASSUME NEW child \in Refs, NEW parent \in Refs, set_parent(child, parent)
          PROVE  \/ CutsLinks
                 \/ /\ matches(child) /\ MayAdopt(child, parent)
                    /\ \A s \in Slots : endpoints'[s].parent =
                          IF s = child.slot THEN parent ELSE endpoints[s].parent
      <3>1. \A s \in Slots : endpoints'[s].parent =
               IF s = child.slot THEN parent ELSE endpoints[s].parent
        BY <1>0, <2>7 DEF set_parent, Endpoint, Refs
      <3>2. matches(child) /\ (parent = NoRef \/ MayAdopt(child, parent))
        BY <2>7 DEF set_parent
      <3> QED BY <3>1, <3>2 DEF CutsLinks
    <2>8. CASE \/ \E ref \in Refs : abort(ref)
               \/ \E owner, target \in Refs, id \in InvokeIds :
                     bind_invoke(owner, id, target)
               \/ \E owner \in Refs, id \in InvokeIds : unbind_invoke(owner, id)
      BY <1>1, <2>8 DEF abort, bind_invoke, unbind_invoke, topology
    <2> QED BY <1>3, <2>1, <2>3, <2>4, <2>5, <2>6, <2>7, <2>8 DEF Administer
  <1>4. CASE Produce
    BY <1>1, <1>4 DEF Produce, prepare_target, prepare_cancel, prepare, enqueue, topology
  <1>5. CASE Settle
    BY <1>1, <1>5, SettleNamesNothing DEF topology
  <1>6. CASE \/ RunDueLane \/ DrainLane \/ HostCalls
             \/ \E settled \in BOOLEAN : run_due_report(settled)
             \/ Finished \/ UNCHANGED vars
    BY <1>1, <1>6, LanesNameNothing DEF topology
  <1> QED BY <1>3, <1>4, <1>5, <1>6 DEF Next

\* However sessions are adopted, detached and reserved again, no two of them
\* pin each other: the walk up from every endpoint ends inside the table.
THEOREM ForestCorrect == Spec => []ParentForest
  <1>1. Init => Acyclic
    <2> SUFFICES ASSUME Init PROVE Acyclic
      OBVIOUS
    <2>1. \A s \in Slots : endpoints[s].parent = NoRef
      BY DEF Init, BlankEndpoint
    <2> QED BY <2>1 DEF Acyclic, NoRef
  <1>2. RouterInv /\ Acyclic /\ [Next]_vars => Acyclic'
    BY NextLinks, CutsKeepAcyclic, AdoptKeepsAcyclic
  <1>3. RouterInv /\ Acyclic => ParentForest
    BY AcyclicIsForest
  <1> QED BY <1>1, <1>2, <1>3, RouterInvariant, PTL DEF Spec

-----------------------------------------------------------------------------
(* What the runs check, for every router. *)

\* The tables, the counters beside them and the references into them stay
\* consistent under every interleaving of producers, lanes and the host.
THEOREM TablesCorrect == Spec => []TablesSound
  <1>1. TypeOK /\ CountersMatchTables /\ BorrowsPinned => TablesSound
    BY DEF TablesSound
  <1> QED BY <1>1, TypeCorrect, CountersCorrect, BorrowsStayPinned, PTL

\* Events are neither lost nor counted twice, and close publishes none.
THEOREM LedgerCorrect == Spec => []LedgerExact
  <1>1. Accounting /\ ClosedLedger => LedgerExact
    BY DEF LedgerExact
  <1> QED BY <1>1, AccountingCorrect, ClosedStaysEmpty, PTL
=============================================================================
