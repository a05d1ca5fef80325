----------------------- MODULE HostRouterLedgerProofs -----------------------
(***************************************************************************)
(* What the Host router does to an accepted Event, for every capacity and  *)
(* every limit.  Each step of the router is first shown to do one of a few *)
(* things to the table of rows (EventStep); the invariants that make up    *)
(* LedgerSound, the action properties of LedgerSteps and the refinement of *)
(* EventLedger are then proved of those, and no longer of the actions. For *)
(* the refinement the table of rows is read as a ledger, each of the three *)
(* ways to change it is shown to change the ledger likewise, and each kind *)
(* of step is matched with the ledger's.                                   *)
(***************************************************************************)
EXTENDS HostRouterRefinement, HostRouterProofs

(***************************************************************************)
(* The invariants. *)
(***************************************************************************)

\* The lane that holds a row while it has dropped the mutex.
DrainHolds(r) == drain.pc = "busy" /\ drain.row = r
TimerHolds(r) == timer.pc \in {"busy", "reported"} /\ timer.row = r

\* A row is INFLIGHT or FIRING exactly while its lane holds it.
HoldInv ==
    \A r \in Rows : /\ rows[r].state = "INFLIGHT" <=> DrainHolds(r)
                    /\ rows[r].state = "FIRING" <=> TimerHolds(r)

\* Identities are handed out once, and a live one is held by one row.
IdentityInv ==
    /\ \A r \in Rows : /\ rows[r].identity <= next_row_identity
                       /\ rows[r].identity = 0 <=> rows[r].state = "FREE"
    /\ \A r, q \in Rows :
          rows[r].identity = rows[q].identity /\ rows[r].identity # 0 => r = q
    /\ \A i \in 1 .. MaxU64 :
          /\ fate[i] = "live" <=> \E r \in Rows : rows[r].identity = i
          /\ fate[i] = "none" <=> i > next_row_identity

\* Sequences are handed out in order, and the row that drain holds is not
\* behind any READY row unless one of the two was delayed.
SequenceInv ==
    /\ \A r \in Rows : rows[r].sequence <= next_sequence
    /\ \A r \in Rows :
          rows[r].state \in {"FREE", "RESERVED"} => rows[r].sequence = 0
    /\ \A r, q \in Rows :
          /\ rows[r].state = "INFLIGHT" /\ rows[r].delay = 0
          /\ rows[q].state = "READY" /\ rows[q].delay = 0
          => rows[r].sequence <= rows[q].sequence

\* The journal that holds the tickets of a source.
Home(ref) == IF ref.generation = 0 THEN endpoint_capacity ELSE ref.slot

SendTicket(r) == [kind |-> "send", row |-> r]
CancelTicket(c) == [kind |-> "cancel", row |-> c]

\* A ticket owns its row, or its intent, and is in the journal of its source.
SendsReserved ==
    \A j \in Journals, r \in Rows : \A k \in 1 .. Len(journal[j]) :
       journal[j][k] = SendTicket(r) =>
          rows[r].state = "RESERVED" /\ Home(rows[r].source) = j

CancelsInUse ==
    \A j \in Journals, c \in CancelRows : \A k \in 1 .. Len(journal[j]) :
       journal[j][k] = CancelTicket(c) =>
          cancel_rows[c].in_use /\ Home(cancel_rows[c].source) = j

TicketsOnce ==
    \A j \in Journals : \A k, l \in 1 .. Len(journal[j]) :
       journal[j][k] = journal[j][l] => k = l

ReservedTicketed ==
    \A r \in Rows : rows[r].state = "RESERVED" =>
       \E k \in 1 .. Len(journal[Home(rows[r].source)]) :
          journal[Home(rows[r].source)][k] = SendTicket(r)

\* A cancel ticket comes after the ticket of the send it is meant for.
SendsFirst ==
    \A j \in Journals, c \in CancelRows : \A k \in 1 .. Len(journal[j]) :
       /\ journal[j][k] = CancelTicket(c)
       /\ StillTargets(cancel_rows[c])
       /\ rows[cancel_rows[c].target].state = "RESERVED"
       => \E l \in 1 .. k - 1 :
             journal[j][l] = SendTicket(cancel_rows[c].target)

IntentsNameEvents ==
    \A c \in CancelRows : cancel_rows[c].in_use =>
       cancel_rows[c].target_identity \in 1 .. next_row_identity

TicketInv ==
    /\ SendsReserved /\ CancelsInUse /\ TicketsOnce
    /\ ReservedTicketed /\ SendsFirst /\ IntentsNameEvents

\* An endpoint that is active has a Session, and so has the endpoint that a
\* lane calls without the mutex.
SessionInv ==
    /\ \A s \in Slots : endpoints[s].active => endpoints[s].session # NoSession
    /\ \A r \in Rows : rows[r].state = "INFLIGHT" =>
          endpoints[rows[r].target.slot].session # NoSession
    /\ \A r \in Rows : rows[r].state = "FIRING" =>
          /\ rows[r].source.generation # 0
          /\ endpoints[rows[r].source.slot].session # NoSession

(***************************************************************************)
(* What a step does to the rows. *)
(***************************************************************************)
HoldsSame ==
    \A q \in Rows : /\ DrainHolds(q)' <=> DrainHolds(q)
                    /\ TimerHolds(q)' <=> TimerHolds(q)

QuietStep ==
    /\ UNCHANGED <<rows, fate, next_row_identity, next_sequence, closed>>
    /\ HoldsSame

\* A FREE row becomes the row of a new Event.
AddsRow(r, row) ==
    /\ ~closed /\ UNCHANGED closed
    /\ r \in Rows /\ rows[r].state = "FREE" /\ row \in Row /\ row.state # "FREE"
    /\ row.identity = next_row_identity + 1 /\ next_row_identity # MaxU64
    /\ rows' = [rows EXCEPT ![r] = row]
    /\ next_row_identity' = next_row_identity + 1
    /\ fate' = [fate EXCEPT ![next_row_identity + 1] = "live"]
    /\ HoldsSame

OfferStep(r, row) ==
    /\ AddsRow(r, row)
    /\ row.state = "RESERVED" /\ row.sequence = 0 /\ UNCHANGED next_sequence
    /\ row.delay # 0 => /\ row.source.generation # 0
                        /\ PendingDelayed(row.source, row.send_id) = {}

EnqueueStep(r, row) ==
    /\ AddsRow(r, row)
    /\ row.state = "READY" /\ row.delay = 0
    /\ row.sequence = next_sequence + 1
    /\ next_sequence' = next_sequence + 1

\* A row in use changes and stays the row of its Event.
MovesRow(r, row) ==
    /\ UNCHANGED <<fate, next_row_identity, closed>>
    /\ r \in Rows /\ rows[r].state # "FREE" /\ row \in Row /\ row.state # "FREE"
    /\ row.identity = rows[r].identity /\ row.source = rows[r].source
    /\ row.target = rows[r].target /\ row.delay = rows[r].delay
    /\ row.send_id = rows[r].send_id
    /\ rows' = [rows EXCEPT ![r] = row]

PublishStep(r, row) ==
    /\ ~closed /\ MovesRow(r, row) /\ HoldsSame
    /\ rows[r].state = "RESERVED"
    /\ row.state = IF row.delay # 0 THEN "DELAYED" ELSE "READY"
    /\ row.sequence = next_sequence + 1
    /\ next_sequence' = next_sequence + 1

KeepsStamps(r, row) ==
    /\ MovesRow(r, row) /\ UNCHANGED next_sequence
    /\ row.sequence = rows[r].sequence /\ row.deadline = rows[r].deadline

\* Only the witness of a lost race is written.
WitnessStep(r, row) ==
    KeepsStamps(r, row) /\ row.state = rows[r].state /\ HoldsSame

DrainSame == \A q \in Rows : DrainHolds(q)' <=> DrainHolds(q)
TimerSame == \A q \in Rows : TimerHolds(q)' <=> TimerHolds(q)

ClaimStep(r, row) ==
    /\ ~closed /\ KeepsStamps(r, row)
    /\ rows[r].state = "DELAYED" /\ row.state = "FIRING"
    /\ rows[r].deadline <= now /\ Due(r)
    /\ DrainSame
    /\ \A q \in Rows : ~TimerHolds(q) /\ (TimerHolds(q)' <=> q = r)

RipenStep(r, row) ==
    /\ ~closed /\ KeepsStamps(r, row)
    /\ rows[r].state = "FIRING" /\ row.state = "READY"
    /\ DrainSame /\ TimerHolds(r)
    /\ \A q \in Rows : ~TimerHolds(q)'

TakeStep(r, row) ==
    /\ ~closed /\ KeepsStamps(r, row)
    /\ IsHead(r) /\ Deliverable(rows[r]) /\ row.state = "INFLIGHT"
    /\ TimerSame
    /\ \A q \in Rows : ~DrainHolds(q) /\ (DrainHolds(q)' <=> q = r)

PutBackStep(r, row) ==
    /\ ~closed /\ KeepsStamps(r, row)
    /\ rows[r].state = "INFLIGHT" /\ row.state = "READY"
    /\ TimerSame /\ DrainHolds(r)
    /\ \A q \in Rows : ~DrainHolds(q)'

\* Rows in use become FREE, and their Events end.
EndsRows(D, end) ==
    /\ UNCHANGED <<next_row_identity, next_sequence>>
    /\ D \in SUBSET UsedRows
    /\ rows' = [r \in Rows |-> IF r \in D THEN FreeRow ELSE rows[r]]
    /\ fate' = [i \in 1 .. MaxU64 |->
                  IF \E r \in D : rows[r].identity = i THEN end ELSE fate[i]]

WithdrawStep(D, end) ==
    /\ EndsRows(D, end) /\ UNCHANGED closed /\ HoldsSame
    /\ end \in {"cancelled", "discarded"}
    /\ \A r \in D : rows[r].state \in {"DELAYED", "READY"}

GiveUpStep(r, end) ==
    /\ EndsRows({r}, end) /\ UNCHANGED closed /\ HoldsSame
    /\ end \in {"cancelled", "discarded"}
    /\ r \in Rows /\ rows[r].state = "RESERVED"

CloseStep ==
    /\ ~closed /\ closed' = TRUE /\ HoldsSame
    /\ EndsRows(AcceptedRows, "cancelled")

TimerEndsStep(r) ==
    /\ EndsRows({r}, "cancelled") /\ UNCHANGED closed
    /\ r \in Rows /\ rows[r].state = "FIRING" /\ TimerHolds(r)
    /\ DrainSame /\ \A q \in Rows : ~TimerHolds(q)'

DrainEndsStep(r, end) ==
    /\ EndsRows({r}, end) /\ UNCHANGED closed
    /\ r \in Rows /\ rows[r].state = "INFLIGHT" /\ DrainHolds(r)
    /\ end = "delivered" \/ (end = "cancelled" /\ closed)
    /\ TimerSame /\ \A q \in Rows : ~DrainHolds(q)'

\* A step that leaves RESERVED rows alone.
PlainStep ==
    \/ QuietStep
    \/ \E r, row : \/ EnqueueStep(r, row) \/ WitnessStep(r, row)
                   \/ ClaimStep(r, row) \/ RipenStep(r, row)
                   \/ TakeStep(r, row) \/ PutBackStep(r, row)
    \/ \E D, end : WithdrawStep(D, end)
    \/ CloseStep
    \/ \E r : TimerEndsStep(r) \/ DrainEndsStep(r, "delivered")
                               \/ DrainEndsStep(r, "cancelled")

(***************************************************************************)
(* What a step does to the tickets. *)
(***************************************************************************)
HandsOut(j, t) == journal' = [journal EXCEPT ![j] = Append(@, t)]

Settles(j, t) ==
    /\ j \in Journals /\ journal[j] # <<>> /\ Head(journal[j]) = t
    /\ journal' = [journal EXCEPT ![j] = Tail(@)]

\* No ticket changes hands.
NoTicketStep == PlainStep /\ UNCHANGED <<journal, cancel_rows>>

SendPrepared(r, row) ==
    /\ OfferStep(r, row) /\ HandsOut(Home(row.source), SendTicket(r))
    /\ UNCHANGED cancel_rows

CancelPrepared(r, c) ==
    /\ QuietStep
    /\ r \in Rows /\ rows[r].state # "FREE" /\ rows[r].source.generation # 0
    /\ c \in CancelRows /\ ~cancel_rows[c].in_use
    /\ cancel_rows' = [cancel_rows EXCEPT
         ![c] = [in_use |-> TRUE, target |-> r, source |-> rows[r].source,
                 target_identity |-> rows[r].identity]]
    /\ HandsOut(Home(rows[r].source), CancelTicket(c))

SendSettled(j, r) ==
    /\ r \in Rows /\ Settles(j, SendTicket(r)) /\ UNCHANGED cancel_rows
    /\ (\E row : PublishStep(r, row)) \/ (\E end : GiveUpStep(r, end))

\* The Event of the intent is withdrawn, or none; the intent is free again.
CancelSettled(j, c) ==
    /\ c \in CancelRows /\ Settles(j, CancelTicket(c))
    /\ cancel_rows[c].in_use
    /\ cancel_rows' = [cancel_rows EXCEPT ![c] = FreeCancel]
    /\ \/ QuietStep
       \/ \E row : WitnessStep(cancel_rows[c].target, row)
       \/ /\ StillTargets(cancel_rows[c])
          /\ WithdrawStep({cancel_rows[c].target}, "cancelled")

TicketMoves ==
    \/ NoTicketStep
    \/ \E r, row : SendPrepared(r, row)
    \/ \E r, c : CancelPrepared(r, c)
    \/ \E j, r : SendSettled(j, r)
    \/ \E j, c : CancelSettled(j, c)

\* What every step is: one of these, with the clock going on and no failure
\* counted.
EventStep ==
    /\ TicketMoves
    /\ now' \in Nat /\ now <= now'
    /\ UNCHANGED invariant_failures

-----------------------------------------------------------------------------
(* Each step is one of those. *)

\* release_locked on rows in use frees them all and counts no failure.
LEMMA ReleaseEnds ==
    ASSUME RouterInv, NEW D \in SUBSET UsedRows, NEW end, release_locked(D, end),
           UNCHANGED <<next_row_identity, next_sequence>>
    PROVE  EndsRows(D, end)
  <1>1. D \in SUBSET Rows /\ D \cap UsedRows = D
    BY DEF UsedRows
  <1>2. Releasable(D) = D
    BY <1>1, EveryRowIsReleasable DEF RouterInv
  <1> QED BY <1>2 DEF release_locked, EndsRows

LEMMA ReleaseIsClean ==
    ASSUME RouterInv, NEW D \in SUBSET UsedRows
    PROVE  release_failures(D) = 0
  <1>1. D \in SUBSET Rows /\ D \cap UsedRows = D
    BY DEF UsedRows
  <1>2. Releasable(D) = D
    BY <1>1, EveryRowIsReleasable DEF RouterInv
  <1>3. Cardinality(D \ D) = 0
    BY FS_EmptySet
  <1>4. /\ IsFiniteSet(ReservedRows) /\ IsFiniteSet(TimerRows)
        /\ D \cap ReservedRows \in SUBSET ReservedRows
        /\ D \cap TimerRows \in SUBSET TimerRows
    BY FiniteTables, FS_Subset DEF ReservedRows, TimerRows
  <1>5. /\ Cardinality(D \cap ReservedRows) <= reserved
        /\ Cardinality(D \cap TimerRows) <= timer_pending
    BY <1>4, FS_Subset DEF RouterInv, LedgerInv
  <1>6. /\ Shortfall(reserved, Cardinality(D \cap ReservedRows)) = 0
        /\ Shortfall(timer_pending, Cardinality(D \cap TimerRows)) = 0
    BY <1>5 DEF Shortfall
  <1> QED BY <1>2, <1>3, <1>6 DEF release_failures

\* Lanes that are left alone hold what they held.
LEMMA LanesKeepHolding ==
    /\ UNCHANGED <<drain, timer>> => HoldsSame
    /\ UNCHANGED drain => DrainSame
    /\ UNCHANGED timer => TimerSame
  BY DEF HoldsSame, DrainSame, TimerSame, DrainHolds, TimerHolds

\* Only one row is different.
LEMMA OneRowChanged ==
    ASSUME rows \in [Rows -> Row], rows' \in [Rows -> Row], NEW r \in Rows,
           \A q \in Rows \ {r} : rows'[q] = rows[q]
    PROVE  rows' = [rows EXCEPT ![r] = rows'[r]]
  OBVIOUS

\* Nothing happens to rows, tickets and clock.
LEMMA QuietEvent ==
    ASSUME RouterInv,
           UNCHANGED <<ledger, stamps, intents, drain, timer, journal, outcomes, life, now>>
    PROVE  EventStep
  <1>1. QuietStep
    BY LanesKeepHolding DEF QuietStep, ledger, stamps, outcomes, life
  <1>2. NoTicketStep
    BY <1>1 DEF NoTicketStep, PlainStep, intents
  <1>3. now \in Nat
    BY DEF RouterInv, LifeInv
  <1> QED BY <1>2, <1>3 DEF EventStep, TicketMoves, ledger

\* The loops that drop accepted rows.
LEMMA CancelWithdraws ==
    ASSUME RouterInv, NEW D \in SUBSET AcceptedRows, cancel_rows_locked(D),
           UNCHANGED <<stamps, closed, drain, timer, journal, intents, now>>
    PROVE  EventStep
  <1>1. D \in SUBSET UsedRows /\ \A r \in D : rows[r].state \in {"DELAYED", "READY"}
    BY DEF AcceptedRows, RowsIn, UsedRows
  <1>2. EndsRows(D, "cancelled")
    BY <1>1, ReleaseEnds DEF cancel_rows_locked, stamps
  <1>3. WithdrawStep(D, "cancelled")
    BY <1>1, <1>2, LanesKeepHolding DEF WithdrawStep
  <1>4. NoTicketStep
    BY <1>3 DEF PlainStep, NoTicketStep, intents
  <1>5. UNCHANGED invariant_failures
    BY <1>1, ReleaseIsClean DEF cancel_rows_locked, RouterInv, LedgerInv
  <1>6. now \in Nat
    BY DEF RouterInv, LifeInv
  <1> QED BY <1>4, <1>5, <1>6 DEF EventStep, TicketMoves

\* Administration of endpoints: only abort touches rows.
LEMMA AdministerEvents ==
    ASSUME RouterInv, Administer
    PROVE  EventStep
  <1>1. ASSUME NEW ref \in Refs, abort(ref)
        PROVE  EventStep
    <2> DEFINE D == {r \in AcceptedRows : Involves(rows[r], ref)}
    <2>1. /\ cancel_rows_locked(D) /\ D \in SUBSET AcceptedRows
          /\ UNCHANGED <<stamps, closed, drain, timer, journal, intents, now>>
      BY <1>1 DEF abort, life, journals
    <2> HIDE DEF D
    <2> QED BY <2>1, CancelWithdraws
  <1>2. CASE ~ \E ref \in Refs : abort(ref)
    <2>1. UNCHANGED <<ledger, stamps, intents, drain, timer, journal, outcomes, life, now>>
      BY <1>2 DEF Administer, reserve, attach, activate, abort_detach, detach, set_parent,
                  set_external_access, bind_invoke, unbind_invoke, lanes, journals
    <2> QED BY <2>1, QuietEvent
  <1> QED BY <1>1, <1>2

\* The admission of an Event takes a FREE row, and its ticket joins the
\* journal of its source.
LEMMA ProduceEvents ==
    ASSUME RouterInv, RouterInv', Produce
    PROVE  EventStep
  <1>0. /\ rows \in [Rows -> Row] /\ rows' \in [Rows -> Row]
        /\ next_row_identity \in Nat /\ next_sequence \in Nat /\ now \in Nat
    BY LimitAssumption DEF RouterInv, LedgerInv, StampInv, LifeInv
  <1>1. ASSUME NEW r \in Rows, NEW row, reserve_locked(r, row), Open,
               UNCHANGED <<lanes, life>>, row.identity = next_row_identity + 1,
               row.state # "FREE"
        PROVE  AddsRow(r, row)
    <2>1. rows[r].state = "FREE"
      BY <1>1 DEF reserve_locked, IsFirst, FreeRows, RowsIn
    <2>2. rows' = [rows EXCEPT ![r] = row]
      BY <1>1 DEF reserve_locked
    <2>3. row \in Row
      BY <2>2, <1>0
    <2>4. HoldsSame
      BY <1>1, LanesKeepHolding DEF lanes
    <2> QED BY <1>1, <2>1, <2>2, <2>3, <2>4 DEF AddsRow, reserve_locked, Open, life
  <1>2. ASSUME NEW source \in Refs, NEW target \in Targets, NEW d \in Sends,
               prepare_target(source, target, d[1], d[2])
        PROVE  EventStep
    <2>1. PICK r \in Rows, ref \in Refs :
             /\ reserve_locked(r, NewRow(ref, source, d[1], d[2]))
             /\ HandOut(source.slot, "send", r)
      BY <1>2 DEF prepare_target
    <2> DEFINE row == NewRow(ref, source, d[1], d[2])
    <2>2. /\ row.identity = next_row_identity + 1 /\ row.state = "RESERVED"
          /\ row.sequence = 0 /\ row.source = source /\ row.delay = d[1]
          /\ row.send_id = d[2]
      BY DEF NewRow
    <2>3. /\ Open /\ matches(source) /\ UNCHANGED <<lanes, life, now, invariant_failures>>
          /\ UNCHANGED <<next_sequence, cancel_rows>>
          /\ d[1] # 0 => PendingDelayed(source, d[2]) = {}
      BY <1>2 DEF prepare_target, intents
    <2> HIDE DEF row
    <2>4. AddsRow(r, row)
      BY <1>1, <2>1, <2>2, <2>3 DEF row
    <2>5. OfferStep(r, row)
      BY <2>2, <2>3, <2>4 DEF OfferStep, matches
    <2>6. HandsOut(Home(row.source), SendTicket(r))
      BY <2>1, <2>2, <2>3 DEF HandsOut, HandOut, Home, SendTicket, matches
    <2>7. SendPrepared(r, row)
      BY <2>3, <2>5, <2>6 DEF SendPrepared
    <2> QED BY <2>3, <2>7, <1>0 DEF EventStep, TicketMoves
  <1>3. ASSUME NEW target \in Refs, prepare(target)
        PROVE  EventStep
    <2>1. PICK r \in Rows : /\ reserve_locked(r, NewRow(target, NoRef, 0, NoId))
                            /\ HandOut(endpoint_capacity, "send", r)
      BY <1>3 DEF prepare
    <2> DEFINE row == NewRow(target, NoRef, 0, NoId)
    <2>2. /\ row.identity = next_row_identity + 1 /\ row.state = "RESERVED"
          /\ row.sequence = 0 /\ row.source = NoRef /\ row.delay = 0
      BY DEF NewRow
    <2>3. /\ Open /\ UNCHANGED <<lanes, life, now, invariant_failures>>
          /\ UNCHANGED <<next_sequence, cancel_rows>>
      BY <1>3 DEF prepare, intents
    <2> HIDE DEF row
    <2>4. AddsRow(r, row)
      BY <1>1, <2>1, <2>2, <2>3 DEF row
    <2>5. OfferStep(r, row)
      BY <2>2, <2>3, <2>4 DEF OfferStep
    <2>6. HandsOut(Home(row.source), SendTicket(r))
      BY <2>1, <2>2 DEF HandsOut, HandOut, Home, SendTicket, NoRef
    <2>7. SendPrepared(r, row)
      BY <2>3, <2>5, <2>6 DEF SendPrepared
    <2> QED BY <2>3, <2>7, <1>0 DEF EventStep, TicketMoves
  <1>4. ASSUME NEW target \in Refs, enqueue(target)
        PROVE  EventStep
    <2> DEFINE row == [NewRow(target, NoRef, 0, NoId) EXCEPT
                         !.state = "READY", !.sequence = next_sequence + 1]
    <2>1. PICK r \in Rows : reserve_locked(r, row)
      BY <1>4 DEF enqueue
    <2>2. /\ row.identity = next_row_identity + 1 /\ row.state = "READY"
          /\ row.sequence = next_sequence + 1 /\ row.delay = 0
      BY DEF NewRow
    <2>3. /\ Open /\ UNCHANGED <<lanes, life, now, invariant_failures>>
          /\ UNCHANGED <<journal, cancel_rows>> /\ next_sequence' = next_sequence + 1
      BY <1>4 DEF enqueue, intents, journals
    <2> HIDE DEF row
    <2>4. AddsRow(r, row)
      BY <1>1, <2>1, <2>2, <2>3
    <2>5. NoTicketStep
      BY <2>2, <2>3, <2>4 DEF EnqueueStep, PlainStep, NoTicketStep
    <2> QED BY <2>3, <2>5, <1>0 DEF EventStep, TicketMoves
  <1>5. ASSUME NEW source \in Refs, NEW id \in SendIds, prepare_cancel(source, id)
        PROVE  EventStep
    <2>1. PICK r \in Rows, c \in CancelRows :
            /\ IsFirst(r, Cancellable(source, id))
            /\ IsFirst(c, {k \in CancelRows : ~cancel_rows[k].in_use})
            /\ cancel_rows' = [cancel_rows EXCEPT
                 ![c] = [in_use |-> TRUE, target |-> r, source |-> source,
                         target_identity |-> rows[r].identity]]
            /\ HandOut(source.slot, "cancel", c)
      BY <1>5 DEF prepare_cancel
    <2>2. /\ rows[r].state # "FREE" /\ rows[r].source = source
          /\ source.generation # 0 /\ ~cancel_rows[c].in_use
      BY <2>1 DEF IsFirst, Cancellable, refs_equal
    <2>3. UNCHANGED <<ledger, stamps, drain, timer, outcomes, life, now>>
      BY <1>5 DEF prepare_cancel, lanes
    <2>4. QuietStep
      BY <2>3, LanesKeepHolding DEF QuietStep, ledger, stamps, outcomes, life
    <2>5. HandsOut(Home(rows[r].source), CancelTicket(c))
      BY <2>1, <2>2 DEF HandsOut, HandOut, Home, CancelTicket
    <2>6. CancelPrepared(r, c)
      BY <2>1, <2>2, <2>4, <2>5 DEF CancelPrepared
    <2> QED BY <2>3, <2>6, <1>0 DEF EventStep, TicketMoves, ledger
  <1> QED BY <1>2, <1>3, <1>4, <1>5 DEF Produce

\* Rows released one by one by a settlement: their Events end.
LEMMA OneRowEnds ==
    ASSUME RouterInv, NEW r \in Rows, rows[r].state # "FREE", NEW end,
           release_locked({r}, end), UNCHANGED stamps
    PROVE  EndsRows({r}, end) /\ release_failures({r}) = 0
  <1>1. {r} \in SUBSET UsedRows
    BY DEF UsedRows
  <1> QED BY <1>1, ReleaseEnds, ReleaseIsClean DEF stamps

\* The ticket at the head of a journal still owns its RESERVED row, so a
\* commit publishes it or gives it up, and a discard gives it up.
LEMMA SendSettles ==
    ASSUME RouterInv, RouterInv', SendsReserved, NEW j \in Journals, NEW r \in Rows,
           ticket_commit(j, r) \/ ticket_discard(j, r)
    PROVE  EventStep
  <1>0. /\ rows \in [Rows -> Row] /\ rows' \in [Rows -> Row]
        /\ now \in Nat /\ invariant_failures \in Nat /\ journal[j] \in Seq(Ticket)
    BY DEF RouterInv, LedgerInv, LifeInv, JournalInv
  <1>1. /\ journal[j] # <<>> /\ Head(journal[j]) = SendTicket(r)
        /\ journal' = [journal EXCEPT ![j] = Tail(@)]
    BY DEF ticket_commit, ticket_discard, NextTicket, SendTicket
  <1>2. Settles(j, SendTicket(r))
    BY <1>1 DEF Settles
  <1>3. rows[r].state = "RESERVED"
    <2>1. 1 \in 1 .. Len(journal[j]) /\ journal[j][1] = SendTicket(r)
      BY <1>0, <1>1
    <2> QED BY <2>1 DEF SendsReserved
  <1>4. /\ UNCHANGED <<cancel_rows, drain, timer, closed, now>> /\ HoldsSame
    BY LanesKeepHolding DEF ticket_commit, ticket_discard, intents, lanes, life
  <1>5. SUFFICES /\ (\E row : PublishStep(r, row)) \/ (\E end : GiveUpStep(r, end))
                 /\ UNCHANGED invariant_failures
    BY <1>0, <1>2, <1>4 DEF SendSettled, TicketMoves, EventStep
  <1>6. ASSUME NEW end \in {"cancelled", "discarded"}, release_locked({r}, end),
               UNCHANGED stamps
        PROVE  GiveUpStep(r, end) /\ release_failures({r}) = 0
    BY <1>3, <1>4, <1>6, OneRowEnds DEF GiveUpStep
  <1>7. CASE ticket_discard(j, r)
    BY <1>0, <1>3, <1>6, <1>7 DEF ticket_discard, discard_locked
  <1>8. CASE ticket_commit(j, r) /\ cancel_rows_locked({r}) /\ UNCHANGED stamps
    BY <1>0, <1>6, <1>8 DEF cancel_rows_locked
  <1>9. CASE ticket_commit(j, r) /\ ~closed /\ commit_publishes(r)
    <2>1. /\ \A q \in Rows \ {r} : rows'[q] = rows[q]
          /\ rows'[r].identity = rows[r].identity
          /\ rows'[r].source = rows[r].source /\ rows'[r].target = rows[r].target
          /\ rows'[r].delay = rows[r].delay /\ rows'[r].send_id = rows[r].send_id
          /\ rows'[r].state = (IF rows[r].delay # 0 THEN "DELAYED" ELSE "READY")
          /\ rows'[r].sequence = next_sequence + 1
      BY <1>0, <1>9 DEF commit_publishes, Row
    <2>2. rows' = [rows EXCEPT ![r] = rows'[r]] /\ rows'[r] \in Row
      BY <1>0, <2>1, OneRowChanged
    <2>3. /\ UNCHANGED <<next_row_identity, fate, invariant_failures>>
          /\ next_sequence' = next_sequence + 1
      BY <1>9 DEF commit_publishes
    <2>4. MovesRow(r, rows'[r])
      BY <1>3, <1>4, <2>1, <2>2, <2>3 DEF MovesRow
    <2>5. PublishStep(r, rows'[r])
      BY <1>3, <1>4, <1>9, <2>1, <2>3, <2>4 DEF PublishStep
    <2> QED BY <2>3, <2>5
  <1> QED BY <1>3, <1>7, <1>8, <1>9 DEF ticket_commit, commit_locked

\* A cancel ticket frees its intent.  Its target is no ticket any more: the
\* ticket of the send came first in the same journal.
LEMMA CancelSettles ==
    ASSUME RouterInv, RouterInv', CancelsInUse, SendsFirst,
           NEW j \in Journals, NEW c \in CancelRows,
           cancel_commit(j, c) \/ cancel_discard(j, c)
    PROVE  EventStep
  <1> DEFINE r == cancel_rows[c].target
  <1>0. /\ rows \in [Rows -> Row] /\ rows' \in [Rows -> Row]
        /\ now \in Nat /\ invariant_failures \in Nat /\ journal[j] \in Seq(Ticket)
        /\ r \in Rows
    BY DEF RouterInv, LedgerInv, LifeInv, JournalInv, IntentInv, CancelRow
  <1>1. /\ journal[j] # <<>> /\ Head(journal[j]) = CancelTicket(c)
        /\ journal' = [journal EXCEPT ![j] = Tail(@)]
    BY DEF cancel_commit, cancel_discard, NextTicket, CancelTicket
  <1>2. 1 \in 1 .. Len(journal[j]) /\ journal[j][1] = CancelTicket(c)
    BY <1>0, <1>1
  <1>3. cancel_rows[c].in_use
    BY <1>2 DEF CancelsInUse
  <1>4. CancelReleasable(c) /\ cancel_release_failures(c) = 0
    <2>1. c \in UsedIntents /\ IsFiniteSet(UsedIntents)
      BY <1>3, FiniteTables, FS_Subset DEF UsedIntents
    <2>2. UsedIntents # {}
      BY <2>1
    <2>3. Cardinality(UsedIntents) # 0
      BY <2>1, <2>2, FS_EmptySet
    <2>4. cancel_pending # 0
      BY <2>3 DEF RouterInv, IntentInv
    <2> QED BY <1>3, <2>4 DEF CancelReleasable, cancel_release_failures
  <1>5. cancel_rows' = [cancel_rows EXCEPT ![c] = FreeCancel]
    BY <1>4 DEF cancel_commit, cancel_discard, cancel_release_locked
  <1>6. /\ UNCHANGED <<drain, timer, closed, now, stamps>> /\ HoldsSame
    BY LanesKeepHolding DEF cancel_commit, cancel_discard, lanes, life
  <1>7. StillTargets(cancel_rows[c]) => rows[r].state # "RESERVED"
    <2>1. 1 .. 1 - 1 = {}
      OBVIOUS
    <2> QED BY <1>2, <2>1 DEF SendsFirst
  <1>8. SUFFICES /\ \/ QuietStep
                    \/ \E row : WitnessStep(r, row)
                    \/ /\ StillTargets(cancel_rows[c])
                       /\ WithdrawStep({r}, "cancelled")
                 /\ UNCHANGED invariant_failures
    <2>1. Settles(j, CancelTicket(c))
      BY <1>1 DEF Settles
    <2>2. CancelSettled(j, c)
      BY <1>3, <1>5, <1>8, <2>1 DEF CancelSettled
    <2> QED BY <1>0, <1>6, <1>8, <2>2 DEF TicketMoves, EventStep
  <1> HIDE DEF r
  <1>9. ASSUME UNCHANGED <<rows, fate>>
        PROVE  QuietStep
    BY <1>6, <1>9 DEF QuietStep, stamps
  <1>10. CASE cancel_discard(j, c)
    BY <1>0, <1>4, <1>9, <1>10 DEF cancel_discard, outcomes
  <1>11. CASE Revocable(cancel_rows[c]) /\ cancel_revokes(c)
    <2>1. /\ release_locked({r}, "cancelled")
          /\ invariant_failures' = invariant_failures + release_failures({r})
                                     + cancel_release_failures(c)
      BY <1>11 DEF cancel_revokes, r
    <2>2. StillTargets(cancel_rows[c]) /\ rows[r].state = "DELAYED"
      BY <1>7, <1>11 DEF Revocable, r
    <2>3. EndsRows({r}, "cancelled") /\ release_failures({r}) = 0
      BY <1>0, <1>6, <2>1, <2>2, OneRowEnds
    <2>4. WithdrawStep({r}, "cancelled")
      BY <1>6, <2>2, <2>3 DEF WithdrawStep
    <2> QED BY <1>0, <1>4, <2>1, <2>2, <2>3, <2>4
  <1>12. CASE cancel_too_late(c)
    <2>1. /\ rows' = IF StillTargets(cancel_rows[c]) /\ rows[r].state = "FIRING"
                     THEN [rows EXCEPT ![r].fire_won_cancel = TRUE] ELSE rows
          /\ invariant_failures' = invariant_failures + cancel_release_failures(c)
          /\ UNCHANGED fate
      BY <1>12 DEF cancel_too_late, r
    <2>2. UNCHANGED invariant_failures
      BY <1>0, <1>4, <2>1
    <2>3. CASE rows' = rows
      BY <1>9, <2>1, <2>2, <2>3
    <2>4. CASE /\ rows[r].state = "FIRING"
               /\ rows' = [rows EXCEPT ![r].fire_won_cancel = TRUE]
      <3>1. /\ \A q \in Rows \ {r} : rows'[q] = rows[q]
            /\ rows'[r].identity = rows[r].identity
            /\ rows'[r].source = rows[r].source /\ rows'[r].target = rows[r].target
            /\ rows'[r].delay = rows[r].delay /\ rows'[r].send_id = rows[r].send_id
            /\ rows'[r].state = rows[r].state /\ rows'[r].sequence = rows[r].sequence
            /\ rows'[r].deadline = rows[r].deadline
        BY <1>0, <2>4 DEF Row
      <3>2. rows' = [rows EXCEPT ![r] = rows'[r]] /\ rows'[r] \in Row
        BY <1>0, <3>1, OneRowChanged
      <3>3. KeepsStamps(r, rows'[r])
        BY <1>0, <1>6, <2>1, <2>4, <3>1, <3>2 DEF KeepsStamps, MovesRow, stamps
      <3>4. WitnessStep(r, rows'[r])
        BY <1>6, <3>1, <3>3 DEF WitnessStep
      <3> QED BY <2>2, <3>4
    <2> QED BY <2>1, <2>3, <2>4
  <1> QED BY <1>3, <1>10, <1>11, <1>12 DEF cancel_commit

\* The settlement of the tickets of a microstep.
LEMMA SettleEvents ==
    ASSUME RouterInv, RouterInv', TicketInv, Settle
    PROVE  EventStep
  <1>1. ASSUME NEW j \in Journals, NEW how, EndMicrostep(j, how)
        PROVE  EventStep
    BY <1>1, QuietEvent DEF EndMicrostep, lanes
  <1> QED BY <1>1, SendSettles, CancelSettles DEF Settle, TicketInv

\* A lane restates the row it works on.
LEMMA RestatedRow ==
    ASSUME RouterInv, RouterInv', NEW r \in Rows, NEW state,
           rows[r].state # "FREE", state # "FREE",
           rows' = [rows EXCEPT ![r].state = state],
           UNCHANGED <<fate, stamps, closed>>
    PROVE  KeepsStamps(r, rows'[r]) /\ rows'[r].state = state
  <1>0. rows \in [Rows -> Row] /\ rows' \in [Rows -> Row]
    BY DEF RouterInv, LedgerInv
  <1>1. /\ \A q \in Rows \ {r} : rows'[q] = rows[q]
        /\ rows'[r].identity = rows[r].identity
        /\ rows'[r].source = rows[r].source /\ rows'[r].target = rows[r].target
        /\ rows'[r].delay = rows[r].delay /\ rows'[r].send_id = rows[r].send_id
        /\ rows'[r].sequence = rows[r].sequence
        /\ rows'[r].deadline = rows[r].deadline /\ rows'[r].state = state
    BY <1>0 DEF Row
  <1>2. rows' = [rows EXCEPT ![r] = rows'[r]] /\ rows'[r] \in Row
    BY <1>0, <1>1, OneRowChanged
  <1> QED BY <1>1, <1>2 DEF KeepsStamps, MovesRow, stamps

\* A step that hands out and settles no ticket.
LEMMA PlainEvent ==
    ASSUME RouterInv, PlainStep, UNCHANGED <<journal, intents, now, invariant_failures>>
    PROVE  EventStep
  <1>1. now \in Nat
    BY DEF RouterInv, LifeInv
  <1>2. NoTicketStep
    BY DEF NoTicketStep, intents
  <1> QED BY <1>1, <1>2 DEF EventStep, TicketMoves

\* run_due claims a due row, and publishes it or gives it up when the source
\* has answered.
LEMMA TimerEvents ==
    ASSUME RouterInv, RouterInv',
           RunDueLane \/ \E settled \in BOOLEAN : run_due_report(settled)
    PROVE  EventStep
  <1>0. /\ timer.row \in Rows
        /\ timer \in [pc : LaneStates, row : Rows, budget : 0 .. MaxBatch,
                      settled : BOOLEAN]
    BY DEF RouterInv, LaneInv
  <1>1. ASSUME NEW r \in Rows, run_due_claim(r) PROVE EventStep
    <2>1. /\ timer.pc = "scan" /\ ~closed /\ rows[r].state = "DELAYED"
          /\ rows[r].deadline <= now /\ Due(r)
          /\ rows' = [rows EXCEPT ![r].state = "FIRING"]
          /\ timer' = [timer EXCEPT !.pc = "busy", !.row = r]
          /\ UNCHANGED <<drain, fate, stamps, closed, journal, intents, now,
                         invariant_failures>>
      BY <1>1 DEF run_due_claim, Earliest, Due, outcomes, journals, life
    <2>2. KeepsStamps(r, rows'[r]) /\ rows'[r].state = "FIRING"
      BY <2>1, RestatedRow
    <2>3. \A q \in Rows : ~TimerHolds(q) /\ (TimerHolds(q)' <=> q = r)
      BY <1>0, <2>1 DEF TimerHolds
    <2>4. ClaimStep(r, rows'[r])
      BY <2>1, <2>2, <2>3, LanesKeepHolding DEF ClaimStep
    <2>5. PlainStep
      BY <2>4 DEF PlainStep
    <2> QED BY <2>1, <2>5, PlainEvent
  <1>2. ASSUME NEW settled \in BOOLEAN, run_due_report(settled) PROVE EventStep
    <2>1. /\ UNCHANGED <<rows, fate, next_row_identity, next_sequence, closed, drain,
                         journal, intents, now, invariant_failures>>
          /\ timer.pc = "busy"
          /\ timer' = [timer EXCEPT !.pc = "reported", !.settled = settled]
      BY <1>2 DEF run_due_report, ledger, stamps, outcomes, life, journals
    <2>2. TimerSame
      BY <1>0, <2>1 DEF TimerSame, TimerHolds
    <2>3. HoldsSame
      BY <2>1, <2>2, LanesKeepHolding DEF HoldsSame, TimerSame, DrainSame
    <2>4. PlainStep
      BY <2>1, <2>3 DEF PlainStep, QuietStep
    <2> QED BY <2>1, <2>4, PlainEvent
  <1>3. CASE run_due_stop \/ run_due_return
    <2>1. /\ UNCHANGED <<rows, fate, next_row_identity, next_sequence, closed, drain,
                         journal, intents, now, invariant_failures>>
          /\ timer.pc \in {"scan", "exit"} /\ timer'.pc \in {"exit", "idle"}
      BY <1>0, <1>3 DEF run_due_stop, run_due_return, IdleTimer, ledger, stamps,
                        outcomes, life, journals
    <2>2. TimerSame
      BY <2>1 DEF TimerSame, TimerHolds
    <2>3. HoldsSame
      BY <2>1, <2>2, LanesKeepHolding DEF HoldsSame, TimerSame, DrainSame
    <2>4. PlainStep
      BY <2>1, <2>3 DEF PlainStep, QuietStep
    <2> QED BY <2>1, <2>4, PlainEvent
  <1>4. CASE run_due_settle
    <2> DEFINE r == timer.row
    <2>1. /\ timer.pc = "reported" /\ rows[r].state = "FIRING"
          /\ UNCHANGED <<stamps, intents, drain, journal, closed, now>>
          /\ invariant_failures \in Nat
      BY <1>4 DEF run_due_settle, RouterInv, ClaimInv, LedgerInv, journals, life
    <2>2. timer_pending # 0
      <3>1. r \in TimerRows /\ IsFiniteSet(TimerRows)
        BY <1>0, <2>1, FiniteTables, FS_Subset
           DEF TimerRows, CountsTimer, RouterInv, LedgerInv
      <3>2. TimerRows # {}
        BY <3>1
      <3>3. Cardinality(TimerRows) # 0
        BY <3>1, <3>2, FS_EmptySet
      <3> QED BY <3>3 DEF RouterInv, LedgerInv
    <2>3. fire_failed \/ (fire_publishes /\ ~closed)
      BY <1>4, <2>1, <2>2 DEF run_due_settle
    <2>4. timer'.pc \in {"scan", "exit"}
      BY <1>0, <2>3 DEF fire_failed, fire_publishes
    <2>5. /\ TimerHolds(r) /\ DrainSame /\ \A q \in Rows : ~TimerHolds(q)'
      BY <2>1, <2>4, LanesKeepHolding DEF TimerHolds
    <2>6. CASE fire_failed
      <3>1. cancel_rows_locked({r})
        BY <2>6 DEF fire_failed
      <3>2. EndsRows({r}, "cancelled") /\ release_failures({r}) = 0
        BY <1>0, <2>1, <3>1, OneRowEnds DEF cancel_rows_locked
      <3>3. UNCHANGED invariant_failures
        BY <2>1, <3>1, <3>2 DEF cancel_rows_locked
      <3>4. TimerEndsStep(r)
        BY <1>0, <2>1, <2>5, <3>2 DEF TimerEndsStep
      <3>5. PlainStep
        BY <3>4 DEF PlainStep
      <3> QED BY <2>1, <3>3, <3>5, PlainEvent
    <2>7. CASE fire_publishes /\ ~closed
      <3>1. rows' = [rows EXCEPT ![r].state = "READY"]
            /\ UNCHANGED <<fate, invariant_failures>>
        BY <2>7 DEF fire_publishes
      <3>2. KeepsStamps(r, rows'[r]) /\ rows'[r].state = "READY"
        BY <1>0, <2>1, <3>1, RestatedRow
      <3>3. RipenStep(r, rows'[r])
        BY <2>1, <2>5, <2>7, <3>2 DEF RipenStep
      <3>4. PlainStep
        BY <3>3 DEF PlainStep
      <3> QED BY <2>1, <3>1, <3>4, PlainEvent
    <2> QED BY <2>3, <2>6, <2>7
  <1> QED BY <1>1, <1>2, <1>3, <1>4 DEF RunDueLane

\* drain takes the head, and delivers it, puts it back or gives it up.
LEMMA DrainEvents ==
    ASSUME RouterInv, RouterInv', DrainLane
    PROVE  EventStep
  <1>0. /\ drain.row \in Rows
        /\ drain \in [pc : LaneStates, row : Rows, budget : 0 .. MaxBatch]
    BY DEF RouterInv, LaneInv
  <1>1. ASSUME NEW r \in Rows, drain_claim(r) PROVE EventStep
    <2>1. /\ drain.pc = "scan" /\ ~closed /\ rows[r].state = "READY" /\ IsHead(r)
          /\ Deliverable(rows[r])
          /\ rows' = [rows EXCEPT ![r].state = "INFLIGHT"]
          /\ drain' = [drain EXCEPT !.pc = "busy", !.row = r]
          /\ UNCHANGED <<timer, fate, stamps, closed, journal, intents, now,
                         invariant_failures>>
      BY <1>1 DEF drain_claim, IsHead, ReadyRows, RowsIn, outcomes, journals, life
    <2>2. KeepsStamps(r, rows'[r]) /\ rows'[r].state = "INFLIGHT"
      BY <2>1, RestatedRow
    <2>3. \A q \in Rows : ~DrainHolds(q) /\ (DrainHolds(q)' <=> q = r)
      BY <1>0, <2>1 DEF DrainHolds
    <2>4. TakeStep(r, rows'[r])
      BY <2>1, <2>2, <2>3, LanesKeepHolding DEF TakeStep
    <2>5. PlainStep
      BY <2>4 DEF PlainStep
    <2> QED BY <2>1, <2>5, PlainEvent
  <1>2. CASE drain_stop \/ drain_return
    <2>1. /\ UNCHANGED <<rows, fate, next_row_identity, next_sequence, closed, timer,
                         journal, intents, now, invariant_failures>>
          /\ drain.pc \in {"scan", "exit"} /\ drain'.pc \in {"exit", "idle"}
      BY <1>0, <1>2 DEF drain_stop, drain_return, IdleDrain, ledger, stamps,
                        outcomes, life, journals
    <2>2. DrainSame
      BY <2>1 DEF DrainSame, DrainHolds
    <2>3. HoldsSame
      BY <2>1, <2>2, LanesKeepHolding DEF HoldsSame, TimerSame, DrainSame
    <2>4. PlainStep
      BY <2>1, <2>3 DEF PlainStep, QuietStep
    <2> QED BY <2>1, <2>4, PlainEvent
  <1>3. ASSUME NEW ok \in BOOLEAN, drain_settle(ok) PROVE EventStep
    <2> DEFINE r == drain.row
    <2>1. /\ drain.pc = "busy" /\ rows[r].state = "INFLIGHT"
          /\ UNCHANGED <<stamps, intents, timer, journal, closed, now>>
          /\ invariant_failures \in Nat
      BY <1>3 DEF drain_settle, RouterInv, ClaimInv, LedgerInv, journals, life
    <2>2. admitted \/ refused
      BY <1>3, <2>1 DEF drain_settle
    <2>3. drain'.pc \in {"scan", "exit"}
      BY <1>0, <2>2 DEF admitted, refused
    <2>4. /\ DrainHolds(r) /\ TimerSame /\ \A q \in Rows : ~DrainHolds(q)'
      BY <2>1, <2>3, LanesKeepHolding DEF DrainHolds
    <2>5. CASE admitted
      <3>1. /\ release_locked({r}, "delivered")
            /\ invariant_failures' = invariant_failures + release_failures({r})
        BY <2>5 DEF admitted
      <3>2. EndsRows({r}, "delivered") /\ release_failures({r}) = 0
        BY <1>0, <2>1, <3>1, OneRowEnds
      <3>3. UNCHANGED invariant_failures
        BY <2>1, <3>1, <3>2
      <3>4. DrainEndsStep(r, "delivered")
        BY <1>0, <2>1, <2>4, <3>2 DEF DrainEndsStep
      <3>5. PlainStep
        BY <3>4 DEF PlainStep
      <3> QED BY <2>1, <3>3, <3>5, PlainEvent
    <2>6. CASE refused /\ closed
      <3>1. cancel_rows_locked({r})
        BY <2>6 DEF refused
      <3>2. EndsRows({r}, "cancelled") /\ release_failures({r}) = 0
        BY <1>0, <2>1, <3>1, OneRowEnds DEF cancel_rows_locked
      <3>3. UNCHANGED invariant_failures
        BY <2>1, <3>1, <3>2 DEF cancel_rows_locked
      <3>4. DrainEndsStep(r, "cancelled")
        BY <1>0, <2>1, <2>4, <2>6, <3>2 DEF DrainEndsStep
      <3>5. PlainStep
        BY <3>4 DEF PlainStep
      <3> QED BY <2>1, <3>3, <3>5, PlainEvent
    <2>7. CASE refused /\ ~closed
      <3>1. /\ rows' = [rows EXCEPT ![r].state = "READY"]
            /\ UNCHANGED <<fate, invariant_failures>>
        BY <2>7 DEF refused
      <3>2. KeepsStamps(r, rows'[r]) /\ rows'[r].state = "READY"
        BY <1>0, <2>1, <3>1, RestatedRow
      <3>3. PutBackStep(r, rows'[r])
        BY <2>1, <2>4, <2>7, <3>2 DEF PutBackStep
      <3>4. PlainStep
        BY <3>3 DEF PlainStep
      <3> QED BY <2>1, <3>1, <3>4, PlainEvent
    <2> QED BY <2>2, <2>5, <2>6, <2>7
  <1> QED BY <1>1, <1>2, <1>3 DEF DrainLane

\* The calls of the host: bulk cancellation, close, and what touches no row.
LEMMA HostCallEvents ==
    ASSUME RouterInv, HostCalls \/ Finished \/ UNCHANGED vars
    PROVE  EventStep
  <1>0. now \in Nat /\ invariant_failures \in Nat
    BY DEF RouterInv, LifeInv, LedgerInv
  <1>1. ASSUME NEW n \in 1 .. MaxBatch, run_due(n) \/ drain_begin(n)
        PROVE  EventStep
    <2>1. /\ UNCHANGED <<rows, fate, next_row_identity, next_sequence, closed,
                         journal, intents, now, invariant_failures>>
      BY <1>1 DEF run_due, drain_begin, ledger, stamps, outcomes, life, journals
    <2>2. \/ UNCHANGED drain /\ timer.pc = "idle" /\ timer'.pc = "scan"
          \/ UNCHANGED timer /\ drain.pc = "idle" /\ drain'.pc = "scan"
      BY <1>1 DEF run_due, drain_begin, IdleDrain, IdleTimer
    <2>3. HoldsSame
      BY <2>2 DEF HoldsSame, DrainHolds, TimerHolds
    <2>4. PlainStep
      BY <2>1, <2>3 DEF PlainStep, QuietStep
    <2> QED BY <2>1, <2>4, PlainEvent
  <1>2. ASSUME NEW ref \in Refs, cancel(ref) PROVE EventStep
    <2> DEFINE D == {r \in ReadyRows : rows[r].target = ref}
    <2>1. /\ cancel_rows_locked(D) /\ D \in SUBSET AcceptedRows
          /\ UNCHANGED <<stamps, closed, drain, timer, journal, intents, now>>
      BY <1>2 DEF cancel, life, journals, lanes, ReadyRows, AcceptedRows, RowsIn
    <2> HIDE DEF D
    <2> QED BY <2>1, CancelWithdraws
  <1>3. ASSUME NEW ref \in Refs, cancel_source(ref) PROVE EventStep
    <2> DEFINE D == {r \in AcceptedRows : refs_equal(rows[r].source, ref)}
    <2>1. /\ cancel_rows_locked(D) /\ D \in SUBSET AcceptedRows
          /\ UNCHANGED <<stamps, closed, drain, timer, journal, intents, now>>
      BY <1>3 DEF cancel_source, life, journals, lanes
    <2> HIDE DEF D
    <2> QED BY <2>1, CancelWithdraws
  <1>4. CASE close
    <2>1. /\ ~closed /\ closed' = TRUE /\ cancel_rows_locked(AcceptedRows)
          /\ UNCHANGED <<stamps, drain, timer, journal, intents, now>>
      BY <1>4 DEF close, Open, lanes, journals
    <2>2. AcceptedRows \in SUBSET UsedRows
      BY DEF AcceptedRows, RowsIn, UsedRows
    <2>3. EndsRows(AcceptedRows, "cancelled")
      BY <2>1, <2>2, ReleaseEnds DEF cancel_rows_locked, stamps
    <2>4. UNCHANGED invariant_failures
      BY <1>0, <2>1, <2>2, ReleaseIsClean DEF cancel_rows_locked
    <2>5. CloseStep
      BY <2>1, <2>3, LanesKeepHolding DEF CloseStep
    <2>6. PlainStep
      BY <2>5 DEF PlainStep
    <2> QED BY <2>1, <2>4, <2>6, PlainEvent
  <1>5. CASE destroy \/ Tick \/ Finished \/ UNCHANGED vars
    <2>1. /\ UNCHANGED <<rows, fate, next_row_identity, next_sequence, closed, drain,
                         timer, journal, cancel_rows, invariant_failures>>
          /\ now' \in Nat /\ now <= now'
      BY <1>0, <1>5 DEF destroy, Tick, Finished, vars, ledger, stamps, outcomes, life,
                        journals, lanes, intents
    <2>2. NoTicketStep
      BY <2>1, LanesKeepHolding DEF NoTicketStep, PlainStep, QuietStep
    <2> QED BY <2>1, <2>2 DEF EventStep, TicketMoves
  <1> QED BY <1>1, <1>2, <1>3, <1>4, <1>5 DEF HostCalls

\* Every step of the router does one of these things to Events and tickets.
LEMMA NextEvents ==
    ASSUME RouterInv, TicketInv, [Next]_vars
    PROVE  EventStep
  <1>1. RouterInv'
    BY NextKeeps
  <1> QED BY <1>1, AdministerEvents, ProduceEvents, SettleEvents, TimerEvents,
             DrainEvents, HostCallEvents DEF Next

-----------------------------------------------------------------------------
(* What follows for the rows, whatever happens to the tickets. *)

Ends == {"delivered", "cancelled", "discarded"}

RowStep ==
    \/ QuietStep
    \/ \E r, row : \/ OfferStep(r, row) \/ EnqueueStep(r, row)
                   \/ PublishStep(r, row) \/ WitnessStep(r, row)
                   \/ ClaimStep(r, row) \/ RipenStep(r, row)
                   \/ TakeStep(r, row) \/ PutBackStep(r, row)
    \/ \E D, end : WithdrawStep(D, end)
    \/ CloseStep
    \/ \E r, end : GiveUpStep(r, end)
    \/ \E r : TimerEndsStep(r) \/ DrainEndsStep(r, "delivered")
                               \/ DrainEndsStep(r, "cancelled")

LEMMA EventRowStep == EventStep => RowStep
  <1> SUFFICES ASSUME EventStep PROVE RowStep
    OBVIOUS
  <1>1. CASE NoTicketStep
    BY <1>1 DEF NoTicketStep, PlainStep, RowStep
  <1>2. ASSUME NEW r, NEW row, SendPrepared(r, row) PROVE RowStep
    BY <1>2 DEF SendPrepared, RowStep
  <1>3. ASSUME NEW r, NEW c, CancelPrepared(r, c) PROVE RowStep
    BY <1>3 DEF CancelPrepared, RowStep
  <1>4. ASSUME NEW j, NEW r, SendSettled(j, r) PROVE RowStep
    BY <1>4 DEF SendSettled, RowStep
  <1>5. ASSUME NEW j, NEW c, CancelSettled(j, c) PROVE RowStep
    BY <1>5 DEF CancelSettled, RowStep
  <1> QED BY <1>1, <1>2, <1>3, <1>4, <1>5 DEF EventStep, TicketMoves

\* Seen from afar a step leaves the rows alone, adds one, changes one, or
\* ends some.
LEMMA FourKinds ==
    ASSUME RowStep
    PROVE  \/ UNCHANGED <<rows, fate, next_row_identity>>
           \/ \E r, row : AddsRow(r, row)
           \/ \E r, row : MovesRow(r, row)
           \/ \E D, end : EndsRows(D, end) /\ end \in Ends
  <1>1. ASSUME NEW r, NEW row, OfferStep(r, row) \/ EnqueueStep(r, row)
        PROVE  AddsRow(r, row)
    BY <1>1 DEF OfferStep, EnqueueStep
  <1>2. ASSUME NEW r, NEW row,
               \/ PublishStep(r, row) \/ WitnessStep(r, row)
               \/ ClaimStep(r, row) \/ RipenStep(r, row)
               \/ TakeStep(r, row) \/ PutBackStep(r, row)
        PROVE  MovesRow(r, row)
    BY <1>2 DEF PublishStep, WitnessStep, ClaimStep, RipenStep, TakeStep,
                PutBackStep, KeepsStamps
  <1>3. ASSUME NEW D, NEW end, WithdrawStep(D, end)
        PROVE  EndsRows(D, end) /\ end \in Ends
    BY <1>3 DEF WithdrawStep, Ends
  <1>4. CASE CloseStep
    BY <1>4 DEF CloseStep, Ends
  <1>5. ASSUME NEW r, NEW end, GiveUpStep(r, end)
        PROVE  EndsRows({r}, end) /\ end \in Ends
    BY <1>5 DEF GiveUpStep, Ends
  <1>6. ASSUME NEW r, TimerEndsStep(r)
        PROVE  EndsRows({r}, "cancelled")
    BY <1>6 DEF TimerEndsStep
  <1>7. ASSUME NEW r, NEW end, DrainEndsStep(r, end)
        PROVE  EndsRows({r}, end)
    BY <1>7 DEF DrainEndsStep
  <1>8. "delivered" \in Ends /\ "cancelled" \in Ends
    BY DEF Ends
  <1> QED BY <1>1, <1>2, <1>3, <1>4, <1>5, <1>6, <1>7, <1>8 DEF RowStep, QuietStep

\* Identities are handed out once and a live one has one row.
LEMMA IdentityKept ==
    ASSUME RouterInv, IdentityInv, RowStep
    PROVE  IdentityInv'
  <1>0. /\ rows \in [Rows -> Row] /\ fate \in [1 .. MaxU64 -> Fates]
        /\ next_row_identity \in 0 .. MaxU64 /\ MaxU64 \in Nat
        /\ \A r \in Rows : rows[r].identity \in 0 .. MaxU64
    BY LimitAssumption DEF RouterInv, LedgerInv, OutcomeInv, StampInv, Row
  <1> DEFINE n == next_row_identity
  <1>1. /\ \A r \in Rows : /\ rows[r].identity <= n
                           /\ rows[r].identity = 0 <=> rows[r].state = "FREE"
        /\ \A r, q \in Rows :
              rows[r].identity = rows[q].identity /\ rows[r].identity # 0 => r = q
        /\ \A i \in 1 .. MaxU64 :
              /\ fate[i] = "live" <=> \E r \in Rows : rows[r].identity = i
              /\ fate[i] = "none" <=> i > n
    BY DEF IdentityInv
  <1>2. CASE UNCHANGED <<rows, fate, next_row_identity>>
    BY <1>2 DEF IdentityInv
  <1>3. ASSUME NEW r, NEW row, AddsRow(r, row) PROVE IdentityInv'
    <2>1. /\ r \in Rows /\ rows[r].identity = 0 /\ row.identity = n + 1
          /\ rows' = [rows EXCEPT ![r] = row] /\ next_row_identity' = n + 1
          /\ fate' = [fate EXCEPT ![n + 1] = "live"] /\ n + 1 \in 1 .. MaxU64
          /\ row.state # "FREE"
      BY <1>0, <1>1, <1>3 DEF AddsRow
    <2>2. \A q \in Rows : /\ q # r => rows'[q] = rows[q]
                          /\ q = r => rows'[q] = row
      BY <1>0, <2>1
    <2>3. \A i \in 1 .. MaxU64 : fate'[i] = IF i = n + 1 THEN "live" ELSE fate[i]
      BY <1>0, <2>1
    <2>7. n \in Nat /\ \A q \in Rows : rows[q].identity \in Nat
      BY <1>0
    <2> HIDE DEF n
    <2>4. \A q \in Rows : /\ rows'[q].identity <= n + 1
                          /\ rows'[q].identity = 0 <=> rows'[q].state = "FREE"
      BY <1>1, <2>1, <2>2, <2>7
    <2>5. \A p, q \in Rows :
             rows'[p].identity = rows'[q].identity /\ rows'[p].identity # 0 => p = q
      <3>1. \A q \in Rows : rows[q].identity # n + 1
        BY <1>1, <2>7
      <3> QED BY <1>1, <2>1, <2>2, <3>1
    <2>6. ASSUME NEW i \in 1 .. MaxU64
          PROVE  /\ fate'[i] = "live" <=> \E q \in Rows : rows'[q].identity = i
                 /\ fate'[i] = "none" <=> i > n + 1
      <3>1. CASE i = n + 1
        BY <1>0, <2>1, <2>2, <2>3, <3>1
      <3>2. CASE i # n + 1
        <4>1. fate'[i] = fate[i]
          BY <2>3, <3>2
        <4>2. (\E q \in Rows : rows'[q].identity = i) <=>
              (\E q \in Rows : rows[q].identity = i)
          BY <2>1, <2>2, <3>2
        <4>3. i > n + 1 <=> i > n
          BY <1>0, <3>2 DEF n
        <4> QED BY <1>1, <4>1, <4>2, <4>3
      <3> QED BY <3>1, <3>2
    <2> QED BY <2>1, <2>4, <2>5, <2>6 DEF IdentityInv
  <1>4. ASSUME NEW r, NEW row, MovesRow(r, row) PROVE IdentityInv'
    <2>1. /\ r \in Rows /\ row.identity = rows[r].identity
          /\ rows' = [rows EXCEPT ![r] = row] /\ UNCHANGED <<fate, next_row_identity>>
          /\ row.state # "FREE" /\ rows[r].state # "FREE"
      BY <1>4 DEF MovesRow
    <2>2. \A q \in Rows : /\ rows'[q].identity = rows[q].identity
                          /\ rows'[q].state = "FREE" <=> rows[q].state = "FREE"
      BY <1>0, <2>1
    <2> QED BY <1>1, <2>1, <2>2 DEF IdentityInv
  <1>5. ASSUME NEW D, NEW end \in Ends, EndsRows(D, end) PROVE IdentityInv'
    <2>1. /\ D \in SUBSET Rows /\ \A q \in D : rows[q].state # "FREE"
          /\ UNCHANGED next_row_identity
          /\ \A q \in Rows : rows'[q] = IF q \in D THEN FreeRow ELSE rows[q]
          /\ \A i \in 1 .. MaxU64 :
                fate'[i] = IF \E q \in D : rows[q].identity = i THEN end ELSE fate[i]
      BY <1>5 DEF EndsRows, UsedRows
    <2>2. FreeRow.identity = 0 /\ FreeRow.state = "FREE"
      BY DEF FreeRow
    <2>3. end # "live" /\ end # "none"
      BY DEF Ends
    <2> HIDE DEF n
    <2>4. \A q \in Rows : /\ rows'[q].identity <= n
                          /\ rows'[q].identity = 0 <=> rows'[q].state = "FREE"
      BY <1>0, <1>1, <2>1, <2>2 DEF n
    <2>5. \A p, q \in Rows :
             rows'[p].identity = rows'[q].identity /\ rows'[p].identity # 0 => p = q
      BY <1>1, <2>1, <2>2
    <2>6. ASSUME NEW i \in 1 .. MaxU64
          PROVE  /\ fate'[i] = "live" <=> \E q \in Rows : rows'[q].identity = i
                 /\ fate'[i] = "none" <=> i > n
      <3>0. i # 0
        OBVIOUS
      <3>1. CASE \E q \in D : rows[q].identity = i
        <4>1. PICK q \in D : rows[q].identity = i
          BY <3>1
        <4>2. fate'[i] = end
          BY <2>1, <3>1
        <4>3. \A p \in Rows : rows'[p].identity # i
          BY <1>1, <2>1, <2>2, <3>0, <4>1
        <4>4. ~(i > n)
          BY <1>0, <1>1, <2>1, <4>1 DEF n
        <4> QED BY <2>3, <4>2, <4>3, <4>4
      <3>2. CASE ~ \E q \in D : rows[q].identity = i
        <4>1. fate'[i] = fate[i]
          BY <2>1, <3>2
        <4>2. (\E q \in Rows : rows'[q].identity = i) <=>
              (\E q \in Rows : rows[q].identity = i)
          BY <2>1, <2>2, <3>0, <3>2
        <4> QED BY <1>1, <4>1, <4>2
      <3> QED BY <3>1, <3>2
    <2> QED BY <2>1, <2>4, <2>5, <2>6 DEF IdentityInv, n
  <1> QED BY <1>2, <1>3, <1>4, <1>5, FourKinds

LEMMA RowsAfter ==
    ASSUME RouterInv, NEW r, NEW row, AddsRow(r, row) \/ MovesRow(r, row)
    PROVE  /\ r \in Rows /\ rows'[r] = row
           /\ \A q \in Rows : q # r => rows'[q] = rows[q]
  <1>1. rows \in [Rows -> Row]
    BY DEF RouterInv, LedgerInv
  <1> QED BY <1>1 DEF AddsRow, MovesRow

LEMMA RowsAfterEnd ==
    ASSUME NEW D, NEW end, EndsRows(D, end)
    PROVE  /\ D \in SUBSET Rows /\ \A q \in D : rows[q].state # "FREE"
           /\ \A q \in Rows : rows'[q] = IF q \in D THEN FreeRow ELSE rows[q]
           /\ FreeRow.state = "FREE" /\ FreeRow.sequence = 0 /\ FreeRow.delay = 0
  BY DEF EndsRows, UsedRows, FreeRow

\* A row is INFLIGHT or FIRING exactly while its lane holds it.
LEMMA HoldKept ==
    ASSUME RouterInv, HoldInv, RowStep
    PROVE  HoldInv'
  <1> USE DEF HoldInv, HoldsSame, DrainSame, TimerSame
  <1>1. CASE QuietStep
    BY <1>1 DEF QuietStep
  <1>2. ASSUME NEW r, NEW row, OfferStep(r, row) \/ EnqueueStep(r, row)
        PROVE  HoldInv'
    <2>1. /\ AddsRow(r, row) /\ row.state \in {"RESERVED", "READY"}
          /\ rows[r].state = "FREE" /\ HoldsSame
      BY <1>2 DEF OfferStep, EnqueueStep, AddsRow
    <2> QED BY <2>1, RowsAfter
  <1>3. ASSUME NEW r, NEW row, PublishStep(r, row) \/ WitnessStep(r, row)
        PROVE  HoldInv'
    <2>1. /\ MovesRow(r, row) /\ HoldsSame
          /\ \/ rows[r].state = "RESERVED" /\ row.state \in {"DELAYED", "READY"}
             \/ row.state = rows[r].state
      BY <1>3 DEF PublishStep, WitnessStep, KeepsStamps
    <2> QED BY <2>1, RowsAfter
  <1>4. ASSUME NEW r, NEW row, ClaimStep(r, row) PROVE HoldInv'
    <2>1. MovesRow(r, row)
      BY <1>4 DEF ClaimStep, KeepsStamps
    <2> QED BY <1>4, <2>1, RowsAfter DEF ClaimStep
  <1>5. ASSUME NEW r, NEW row, RipenStep(r, row) PROVE HoldInv'
    <2>1. MovesRow(r, row)
      BY <1>5 DEF RipenStep, KeepsStamps
    <2>2. \A q \in Rows : TimerHolds(q) => q = r
      BY <1>5 DEF RipenStep, TimerHolds
    <2> QED BY <1>5, <2>1, <2>2, RowsAfter DEF RipenStep
  <1>6. ASSUME NEW r, NEW row, TakeStep(r, row) PROVE HoldInv'
    <2>1. MovesRow(r, row) /\ rows[r].state = "READY"
      BY <1>6 DEF TakeStep, KeepsStamps, IsHead, ReadyRows, RowsIn
    <2> QED BY <1>6, <2>1, RowsAfter DEF TakeStep
  <1>7. ASSUME NEW r, NEW row, PutBackStep(r, row) PROVE HoldInv'
    <2>1. MovesRow(r, row)
      BY <1>7 DEF PutBackStep, KeepsStamps
    <2>2. \A q \in Rows : DrainHolds(q) => q = r
      BY <1>7 DEF PutBackStep, DrainHolds
    <2> QED BY <1>7, <2>1, <2>2, RowsAfter DEF PutBackStep
  <1>8. ASSUME NEW D, NEW end, EndsRows(D, end), HoldsSame,
               \A q \in D : rows[q].state \in {"DELAYED", "READY", "RESERVED"}
        PROVE  HoldInv'
    BY <1>8, RowsAfterEnd
  <1>9. ASSUME NEW D, NEW end, WithdrawStep(D, end) PROVE HoldInv'
    <2>1. /\ EndsRows(D, end) /\ HoldsSame
          /\ \A q \in D : rows[q].state \in {"DELAYED", "READY", "RESERVED"}
      BY <1>9 DEF WithdrawStep
    <2> QED BY <1>8, <2>1
  <1>10. CASE CloseStep
    <2>1. /\ EndsRows(AcceptedRows, "cancelled") /\ HoldsSame
          /\ \A q \in AcceptedRows : rows[q].state \in {"DELAYED", "READY", "RESERVED"}
      BY <1>10 DEF CloseStep, AcceptedRows, RowsIn
    <2> QED BY <1>8, <2>1
  <1>11. ASSUME NEW r, NEW end, GiveUpStep(r, end) PROVE HoldInv'
    <2>1. /\ EndsRows({r}, end) /\ HoldsSame
          /\ \A q \in {r} : rows[q].state \in {"DELAYED", "READY", "RESERVED"}
      BY <1>11 DEF GiveUpStep
    <2> QED BY <1>8, <2>1
  <1>12. ASSUME NEW r, TimerEndsStep(r) PROVE HoldInv'
    <2>1. EndsRows({r}, "cancelled")
      BY <1>12 DEF TimerEndsStep
    <2>2. \A q \in Rows : TimerHolds(q) => q = r
      BY <1>12 DEF TimerEndsStep, TimerHolds
    <2> QED BY <1>12, <2>1, <2>2, RowsAfterEnd DEF TimerEndsStep
  <1>13. ASSUME NEW r, NEW end, DrainEndsStep(r, end) PROVE HoldInv'
    <2>1. EndsRows({r}, end)
      BY <1>13 DEF DrainEndsStep
    <2>2. \A q \in Rows : DrainHolds(q) => q = r
      BY <1>13 DEF DrainEndsStep, DrainHolds
    <2> QED BY <1>13, <2>1, <2>2, RowsAfterEnd DEF DrainEndsStep
  <1> QED BY <1>1, <1>2, <1>3, <1>4, <1>5, <1>6, <1>7, <1>9, <1>10, <1>11, <1>12, <1>13
          DEF RowStep

\* Every row that is not new or changed in one of these ways is as before.
LEMMA DeadlinesKept ==
    ASSUME RouterInv, NeverEarly, RowStep, now' \in Nat, now <= now'
    PROVE  NeverEarly'
  <1> USE DEF NeverEarly
  <1>0. now \in Nat /\ \A q \in Rows : rows[q].deadline \in Nat
    BY DEF RouterInv, LifeInv, LedgerInv, Row
  <1>1. \A q \in Rows : rows[q].deadline <= now => rows[q].deadline <= now'
    BY <1>0
  <1>2. CASE QuietStep
    BY <1>1, <1>2 DEF QuietStep
  <1>3. ASSUME NEW r, NEW row, AddsRow(r, row) \/ MovesRow(r, row),
               row.delay = 0 \/ row.state \in {"RESERVED", "DELAYED"}
        PROVE  NeverEarly'
    BY <1>1, <1>3, RowsAfter
  <1>4. ASSUME NEW r, NEW row, KeepsStamps(r, row),
               \/ row.state = rows[r].state
               \/ row.state \in {"READY", "FIRING", "INFLIGHT"}
                  /\ rows[r].state \in {"FIRING", "READY", "INFLIGHT"}
               \/ rows[r].deadline <= now
        PROVE  NeverEarly'
    BY <1>1, <1>4, RowsAfter DEF KeepsStamps, MovesRow
  <1>5. ASSUME NEW D, NEW end, EndsRows(D, end)
        PROVE  NeverEarly'
    BY <1>1, <1>5, RowsAfterEnd
  <1>6. ASSUME NEW r, NEW row, OfferStep(r, row) \/ EnqueueStep(r, row)
        PROVE  NeverEarly'
    BY <1>3, <1>6 DEF OfferStep, EnqueueStep
  <1>7. ASSUME NEW r, NEW row, PublishStep(r, row) PROVE NeverEarly'
    BY <1>3, <1>7 DEF PublishStep
  <1>8. ASSUME NEW r, NEW row,
               \/ WitnessStep(r, row) \/ ClaimStep(r, row) \/ RipenStep(r, row)
               \/ TakeStep(r, row) \/ PutBackStep(r, row)
        PROVE  NeverEarly'
    BY <1>4, <1>8 DEF WitnessStep, ClaimStep, RipenStep, TakeStep, PutBackStep, IsHead,
                      ReadyRows, RowsIn
  <1> QED BY <1>2, <1>5, <1>6, <1>7, <1>8
          DEF RowStep, WithdrawStep, CloseStep, GiveUpStep, TimerEndsStep, DrainEndsStep

\* Only one unfired delayed send of a source bears a given sendid.
LEMMA UnfiredKept ==
    ASSUME RouterInv, UnfiredIdsUnique, RowStep
    PROVE  UnfiredIdsUnique'
  <1>1. ASSUME \A q \in Rows : CountsTimer(rows'[q]) =>
                  /\ CountsTimer(rows[q]) /\ rows'[q].source = rows[q].source
                  /\ rows'[q].send_id = rows[q].send_id
        PROVE  UnfiredIdsUnique'
    BY <1>1 DEF UnfiredIdsUnique
  <1>2. CASE QuietStep
    BY <1>1, <1>2 DEF QuietStep
  <1>3. ASSUME NEW r, NEW row, OfferStep(r, row) PROVE UnfiredIdsUnique'
    <2>1. AddsRow(r, row)
      BY <1>3 DEF OfferStep
    <2>2. CASE row.delay = 0
      BY <1>1, <2>1, <2>2, RowsAfter DEF CountsTimer
    <2>3. CASE row.delay # 0
      <3>1. /\ r \in Rows /\ rows'[r] = row
            /\ \A q \in Rows : q # r => rows'[q] = rows[q]
        BY <2>1, RowsAfter
      <3>2. /\ row.source.generation # 0
            /\ PendingDelayed(row.source, row.send_id) = {}
        BY <1>3, <2>3 DEF OfferStep
      <3>3. \A q \in Rows : CountsTimer(rows[q]) =>
               rows[q].source # row.source \/ rows[q].send_id # row.send_id
        BY <3>2 DEF PendingDelayed, CountsTimer, refs_equal
      <3> QED BY <3>1, <3>3 DEF UnfiredIdsUnique
    <2> QED BY <2>2, <2>3
  <1>4. ASSUME NEW r, NEW row, EnqueueStep(r, row) PROVE UnfiredIdsUnique'
    <2>1. AddsRow(r, row) /\ row.state = "READY"
      BY <1>4 DEF EnqueueStep
    <2> QED BY <1>1, <2>1, RowsAfter DEF CountsTimer
  <1>5. ASSUME NEW r, NEW row, MovesRow(r, row),
               CountsTimer(row) => CountsTimer(rows[r])
        PROVE  UnfiredIdsUnique'
    BY <1>1, <1>5, RowsAfter DEF MovesRow
  <1>6. ASSUME NEW r, NEW row,
               \/ PublishStep(r, row) \/ WitnessStep(r, row) \/ ClaimStep(r, row)
               \/ RipenStep(r, row) \/ TakeStep(r, row) \/ PutBackStep(r, row)
        PROVE  UnfiredIdsUnique'
    <2>1. MovesRow(r, row)
      BY <1>6 DEF PublishStep, WitnessStep, ClaimStep, RipenStep, TakeStep,
                  PutBackStep, KeepsStamps
    <2>2. row.delay = rows[r].delay
      BY <2>1 DEF MovesRow
    <2>3. \/ row.state = rows[r].state \/ rows[r].state \in {"RESERVED", "DELAYED"}
          \/ row.state \in {"READY", "INFLIGHT"}
      BY <1>6 DEF PublishStep, WitnessStep, ClaimStep, RipenStep, TakeStep, PutBackStep
    <2> QED BY <1>5, <2>1, <2>2, <2>3 DEF CountsTimer
  <1>7. ASSUME NEW D, NEW end, EndsRows(D, end)
        PROVE  UnfiredIdsUnique'
    BY <1>1, <1>7, RowsAfterEnd DEF CountsTimer
  <1> QED BY <1>2, <1>3, <1>4, <1>6, <1>7
          DEF RowStep, WithdrawStep, CloseStep, GiveUpStep, TimerEndsStep, DrainEndsStep

\* Commit order: what drain holds is never behind what is READY.
LEMMA SequenceKept ==
    ASSUME RouterInv, HoldInv, SequenceInv, RowStep
    PROVE  SequenceInv'
  <1>0. /\ next_sequence \in Nat /\ \A q \in Rows : rows[q].sequence \in Nat
        /\ \A q \in Rows : rows[q].state = "FIRING" => rows[q].delay # 0
    BY LimitAssumption DEF RouterInv, LedgerInv, StampInv, Row
  <1>1. /\ \A q \in Rows : rows[q].sequence <= next_sequence
        /\ \A q \in Rows :
              rows[q].state \in {"FREE", "RESERVED"} => rows[q].sequence = 0
        /\ \A p, q \in Rows :
              /\ rows[p].state = "INFLIGHT" /\ rows[p].delay = 0
              /\ rows[q].state = "READY" /\ rows[q].delay = 0
              => rows[p].sequence <= rows[q].sequence
    BY DEF SequenceInv
  <1>2. CASE QuietStep
    BY <1>1, <1>2 DEF QuietStep, SequenceInv
  <1>3. ASSUME NEW r, NEW row, OfferStep(r, row) PROVE SequenceInv'
    <2>1. /\ AddsRow(r, row) /\ row.state = "RESERVED" /\ row.sequence = 0
          /\ UNCHANGED next_sequence
      BY <1>3 DEF OfferStep
    <2>2. /\ r \in Rows /\ rows'[r] = row
          /\ \A q \in Rows : q # r => rows'[q] = rows[q]
      BY <2>1, RowsAfter
    <2> QED BY <1>0, <1>1, <2>1, <2>2 DEF SequenceInv
  <1>4. ASSUME NEW r, NEW row, EnqueueStep(r, row) \/ PublishStep(r, row)
        PROVE  SequenceInv'
    <2>1. /\ AddsRow(r, row) \/ MovesRow(r, row)
          /\ row.state \in {"READY", "DELAYED"}
          /\ row.sequence = next_sequence + 1 /\ next_sequence' = next_sequence + 1
      BY <1>4 DEF EnqueueStep, PublishStep
    <2>2. /\ r \in Rows /\ rows'[r] = row
          /\ \A q \in Rows : q # r => rows'[q] = rows[q]
      BY <2>1, RowsAfter
    <2>3. \A q \in Rows : rows[q].sequence <= next_sequence + 1
      BY <1>0, <1>1
    <2> QED BY <1>0, <1>1, <2>1, <2>2, <2>3 DEF SequenceInv
  <1>5. ASSUME NEW r, NEW row, KeepsStamps(r, row)
        PROVE  /\ r \in Rows /\ rows'[r] = row
               /\ \A q \in Rows : q # r => rows'[q] = rows[q]
               /\ row.sequence = rows[r].sequence /\ row.delay = rows[r].delay
               /\ UNCHANGED next_sequence
    <2>1. /\ MovesRow(r, row) /\ row.sequence = rows[r].sequence
          /\ UNCHANGED next_sequence
      BY <1>5 DEF KeepsStamps
    <2>2. row.delay = rows[r].delay
      BY <2>1 DEF MovesRow
    <2> QED BY <2>1, <2>2, RowsAfter
  <1>6. ASSUME NEW r, NEW row, WitnessStep(r, row) \/ ClaimStep(r, row)
        PROVE  SequenceInv'
    <2>1. /\ KeepsStamps(r, row)
          /\ \/ row.state = rows[r].state
             \/ row.state = "FIRING"
      BY <1>6 DEF WitnessStep, ClaimStep
    <2> QED BY <1>1, <1>5, <2>1 DEF SequenceInv
  <1>7. ASSUME NEW r, NEW row, RipenStep(r, row) PROVE SequenceInv'
    <2>1. KeepsStamps(r, row) /\ row.state = "READY" /\ rows[r].state = "FIRING"
      BY <1>7 DEF RipenStep
    <2>2. row.delay # 0
      BY <1>0, <1>5, <2>1
    <2> QED BY <1>1, <1>5, <2>1, <2>2 DEF SequenceInv
  <1>8. ASSUME NEW r, NEW row, TakeStep(r, row) PROVE SequenceInv'
    <2>1. /\ KeepsStamps(r, row) /\ row.state = "INFLIGHT"
          /\ \A q \in Rows : rows[q].state = "READY" =>
                                rows[r].sequence <= rows[q].sequence
      BY <1>8 DEF TakeStep, IsHead, ReadyRows, RowsIn
    <2>2. \A q \in Rows : rows[q].state # "INFLIGHT"
      BY <1>8 DEF TakeStep, HoldInv
    <2> QED BY <1>1, <1>5, <2>1, <2>2 DEF SequenceInv
  <1>9. ASSUME NEW r, NEW row, PutBackStep(r, row) PROVE SequenceInv'
    <2>1. KeepsStamps(r, row) /\ row.state = "READY" /\ DrainHolds(r)
      BY <1>9 DEF PutBackStep
    <2>2. \A q \in Rows : rows[q].state = "INFLIGHT" => q = r
      BY <2>1 DEF HoldInv, DrainHolds
    <2> QED BY <1>1, <1>5, <2>1, <2>2 DEF SequenceInv
  <1>10. ASSUME NEW D, NEW end, EndsRows(D, end) PROVE SequenceInv'
    <2>1. UNCHANGED next_sequence
      BY <1>10 DEF EndsRows
    <2> QED BY <1>0, <1>1, <1>10, <2>1, RowsAfterEnd DEF SequenceInv
  <1> QED BY <1>2, <1>3, <1>4, <1>6, <1>7, <1>8, <1>9, <1>10
          DEF RowStep, WithdrawStep, CloseStep, GiveUpStep, TimerEndsStep, DrainEndsStep

-----------------------------------------------------------------------------
(* What follows for the tickets. *)

\* Facts about the journals that hold for every step below.
LEMMA JournalTypes ==
    ASSUME RouterInv
    PROVE  /\ journal \in [Journals -> Seq(Ticket)]
           /\ \A j \in Journals : journal[j] \in Seq(Ticket)
           /\ \A r \in Rows : Home(rows[r].source) \in Journals
           /\ \A c \in CancelRows : Home(cancel_rows[c].source) \in Journals
           /\ \A c \in CancelRows : cancel_rows[c].target \in Rows
           /\ \A r \in Rows, c \in CancelRows : SendTicket(r) # CancelTicket(c)
           /\ \A r, q \in Rows : SendTicket(r) = SendTicket(q) => r = q
           /\ \A c, d \in CancelRows : CancelTicket(c) = CancelTicket(d) => c = d
  <1>1. journal \in [Journals -> Seq(Ticket)]
    BY DEF RouterInv, JournalInv
  <1>2. \A ref \in Refs : Home(ref) \in Journals
    BY CapacityAssumption DEF Home, Refs, Slots, Journals
  <1>3. /\ \A r \in Rows : rows[r].source \in Refs
        /\ \A c \in CancelRows : cancel_rows[c].source \in Refs
        /\ \A c \in CancelRows : cancel_rows[c].target \in Rows
    <2>1. rows \in [Rows -> Row] /\ cancel_rows \in [CancelRows -> CancelRow]
      BY DEF RouterInv, LedgerInv, IntentInv
    <2> QED BY <2>1 DEF Row, CancelRow
  <1>4. /\ \A r \in Rows, c \in CancelRows : SendTicket(r) # CancelTicket(c)
        /\ \A r, q \in Rows : SendTicket(r) = SendTicket(q) => r = q
        /\ \A c, d \in CancelRows : CancelTicket(c) = CancelTicket(d) => c = d
    <2>1. \A x : SendTicket(x).kind = "send" /\ SendTicket(x).row = x
      BY DEF SendTicket
    <2>2. \A x : CancelTicket(x).kind = "cancel" /\ CancelTicket(x).row = x
      BY DEF CancelTicket
    <2> QED BY <2>1, <2>2
  <1> QED BY <1>1, <1>2, <1>3, <1>4

\* A ticket that is handed out becomes the last of its journal.
LEMMA JournalGrows ==
    ASSUME RouterInv, NEW j \in Journals, NEW t, HandsOut(j, t),
           RouterInv'
    PROVE  /\ \A i \in Journals : \A k \in 1 .. Len(journal'[i]) :
                \/ k \in 1 .. Len(journal[i]) /\ journal'[i][k] = journal[i][k]
                \/ i = j /\ k = Len(journal[j]) + 1 /\ journal'[i][k] = t
           /\ \A i \in Journals : \A k \in 1 .. Len(journal[i]) :
                k \in 1 .. Len(journal'[i]) /\ journal'[i][k] = journal[i][k]
           /\ Len(journal[j]) + 1 \in 1 .. Len(journal'[j])
           /\ journal'[j][Len(journal[j]) + 1] = t
  <1>1. /\ journal \in [Journals -> Seq(Ticket)] /\ journal[j] \in Seq(Ticket)
        /\ journal' = [journal EXCEPT ![j] = Append(journal[j], t)]
    BY JournalTypes DEF HandsOut
  <1>2. /\ \A i \in Journals : i # j => journal'[i] = journal[i]
        /\ journal'[j] = Append(journal[j], t)
    BY <1>1
  <1>3. Append(journal[j], t) \in Seq(Ticket)
    BY <1>2, JournalTypes DEF RouterInv, JournalInv
  <1> DEFINE s == journal[j]
             u == Append(s, t)
  <1>4. /\ Len(u) = Len(s) + 1 /\ Len(s) \in Nat
        /\ \A k \in 1 .. Len(s) : u[k] = s[k]
        /\ u[Len(s) + 1] = t
    BY <1>1
  <1> HIDE DEF u
  <1>5. /\ \A k \in 1 .. Len(u) : k \in 1 .. Len(s) \/ k = Len(s) + 1
        /\ \A k \in 1 .. Len(s) : k \in 1 .. Len(u)
        /\ Len(s) + 1 \in 1 .. Len(u)
    BY <1>4
  <1>6. journal'[j] = u
    BY <1>2 DEF u
  <1> QED BY <1>2, <1>4, <1>5, <1>6

\* A ticket that settles was the first of its journal.
LEMMA JournalShrinks ==
    ASSUME RouterInv, NEW j, NEW t, Settles(j, t)
    PROVE  /\ j \in Journals /\ 1 \in 1 .. Len(journal[j]) /\ journal[j][1] = t
           /\ \A i \in Journals : i # j => journal'[i] = journal[i]
           /\ \A k \in 1 .. Len(journal'[j]) :
                 k + 1 \in 1 .. Len(journal[j]) /\ journal'[j][k] = journal[j][k + 1]
           /\ \A k \in 1 .. Len(journal[j]) : k # 1 =>
                 k - 1 \in 1 .. Len(journal'[j]) /\ journal'[j][k - 1] = journal[j][k]
  <1>1. /\ journal \in [Journals -> Seq(Ticket)] /\ j \in Journals
        /\ journal[j] \in Seq(Ticket) /\ journal[j] # <<>> /\ Head(journal[j]) = t
        /\ journal' = [journal EXCEPT ![j] = Tail(journal[j])]
    BY JournalTypes DEF Settles
  <1> DEFINE s == journal[j]
             u == Tail(s)
  <1>2. /\ \A i \in Journals : i # j => journal'[i] = journal[i]
        /\ journal'[j] = u
    BY <1>1
  <1>3. /\ Len(s) \in Nat /\ Len(s) # 0 /\ Len(u) = Len(s) - 1 /\ s[1] = t
        /\ \A k \in 1 .. Len(s) - 1 : u[k] = s[k + 1]
    BY <1>1
  <1> HIDE DEF s, u
  <1>4. /\ \A k \in 1 .. Len(u) :
              k + 1 \in 1 .. Len(s) /\ u[k] = s[k + 1]
        /\ \A k \in 1 .. Len(s) : k # 1 =>
              k - 1 \in 1 .. Len(u) /\ u[k - 1] = s[(k - 1) + 1] /\ (k - 1) + 1 = k
        /\ 1 \in 1 .. Len(s)
    BY <1>3
  <1>5. \A k \in 1 .. Len(s) : k # 1 => k - 1 \in 1 .. Len(u) /\ u[k - 1] = s[k]
    BY <1>4
  <1> QED BY <1>1, <1>2, <1>3, <1>4, <1>5 DEF s

\* The rows of the tickets keep their state, source and identity.
TicketRowsSame ==
    \A q \in Rows :
       /\ rows'[q].state = "RESERVED" <=> rows[q].state = "RESERVED"
       /\ rows[q].state = "RESERVED" =>
             rows'[q].source = rows[q].source /\ rows'[q].identity = rows[q].identity

LEMMA PlainKeepsTicketRows ==
    ASSUME RouterInv, HoldInv, PlainStep
    PROVE  /\ TicketRowsSame
           /\ next_row_identity' \in {next_row_identity, next_row_identity + 1}
  <1>1. CASE QuietStep
    BY <1>1 DEF QuietStep, TicketRowsSame
  <1>2. ASSUME NEW r, NEW row, EnqueueStep(r, row)
        PROVE  /\ TicketRowsSame
               /\ next_row_identity' = next_row_identity + 1
    <2>1. /\ AddsRow(r, row) /\ rows[r].state = "FREE" /\ row.state = "READY"
          /\ next_row_identity' = next_row_identity + 1
      BY <1>2 DEF EnqueueStep, AddsRow
    <2> QED BY <2>1, RowsAfter DEF TicketRowsSame
  <1>3. ASSUME NEW r, NEW row,
               \/ WitnessStep(r, row) \/ ClaimStep(r, row) \/ RipenStep(r, row)
               \/ TakeStep(r, row) \/ PutBackStep(r, row)
        PROVE  TicketRowsSame /\ UNCHANGED next_row_identity
    <2>1. /\ MovesRow(r, row)
          /\ \/ row.state = rows[r].state
             \/ row.state # "RESERVED" /\ rows[r].state # "RESERVED"
      BY <1>3 DEF WitnessStep, ClaimStep, RipenStep, TakeStep, PutBackStep,
                  KeepsStamps, IsHead, ReadyRows, RowsIn
    <2>2. /\ row.source = rows[r].source /\ row.identity = rows[r].identity
          /\ UNCHANGED next_row_identity
      BY <2>1 DEF MovesRow
    <2> QED BY <2>1, <2>2, RowsAfter DEF TicketRowsSame
  <1>4. ASSUME NEW D, NEW end, EndsRows(D, end),
               \A q \in D : rows[q].state # "RESERVED"
        PROVE  TicketRowsSame /\ UNCHANGED next_row_identity
    <2>1. UNCHANGED next_row_identity
      BY <1>4 DEF EndsRows
    <2> QED BY <1>4, <2>1, RowsAfterEnd DEF TicketRowsSame
  <1>5. ASSUME NEW D, NEW end, WithdrawStep(D, end)
        PROVE  TicketRowsSame /\ UNCHANGED next_row_identity
    <2>1. EndsRows(D, end) /\ \A q \in D : rows[q].state # "RESERVED"
      BY <1>5 DEF WithdrawStep
    <2> QED BY <1>4, <2>1
  <1>6. CASE CloseStep
    <2>1. /\ EndsRows(AcceptedRows, "cancelled")
          /\ \A q \in AcceptedRows : rows[q].state # "RESERVED"
      BY <1>6 DEF CloseStep, AcceptedRows, RowsIn
    <2> QED BY <1>4, <2>1
  <1>7. ASSUME NEW r, NEW end,
               (TimerEndsStep(r) /\ end = "cancelled") \/ DrainEndsStep(r, end)
        PROVE  TicketRowsSame /\ UNCHANGED next_row_identity
    <2>1. EndsRows({r}, end) /\ \A q \in {r} : rows[q].state # "RESERVED"
      BY <1>7 DEF TimerEndsStep, DrainEndsStep
    <2> QED BY <1>4, <2>1
  <1> QED BY <1>1, <1>2, <1>3, <1>5, <1>6, <1>7 DEF PlainStep

\* A step of the lanes or of the host leaves every ticket with its row.
LEMMA TicketsKept ==
    ASSUME RouterInv, HoldInv, TicketInv, NoTicketStep
    PROVE  TicketInv'
  <1>1. /\ TicketRowsSame /\ UNCHANGED <<journal, cancel_rows>>
        /\ next_row_identity' \in {next_row_identity, next_row_identity + 1}
    BY PlainKeepsTicketRows DEF NoTicketStep
  <1>2. next_row_identity \in Nat
    BY LimitAssumption DEF RouterInv, StampInv
  <1>3. /\ \A c \in CancelRows : cancel_rows[c].target \in Rows
        /\ \A r \in Rows : Home(rows[r].source) \in Journals
    BY JournalTypes
  <1>4. SendsReserved'
    BY <1>1 DEF TicketInv, SendsReserved, TicketRowsSame
  <1>5. CancelsInUse'
    BY <1>1 DEF TicketInv, CancelsInUse
  <1>6. TicketsOnce'
    BY <1>1 DEF TicketInv, TicketsOnce
  <1>7. ReservedTicketed'
    BY <1>1 DEF TicketInv, ReservedTicketed, TicketRowsSame
  <1>8. SendsFirst'
    BY <1>1, <1>3 DEF TicketInv, SendsFirst, TicketRowsSame, StillTargets
  <1>9. IntentsNameEvents'
    <2>1. \A i \in 1 .. next_row_identity : i \in 1 .. next_row_identity'
      BY <1>1, <1>2
    <2> QED BY <1>1, <2>1 DEF TicketInv, IntentsNameEvents
  <1> QED BY <1>4, <1>5, <1>6, <1>7, <1>8, <1>9 DEF TicketInv

\* A new send ticket owns the row it was made for.
LEMMA SendTicketKept ==
    ASSUME RouterInv, RouterInv', TicketInv, NEW r, NEW row, SendPrepared(r, row)
    PROVE  TicketInv'
  <1> DEFINE h == Home(row.source)
  <1>1. /\ AddsRow(r, row) /\ row.state = "RESERVED" /\ HandsOut(h, SendTicket(r))
        /\ UNCHANGED cancel_rows /\ rows[r].state = "FREE"
        /\ row.identity = next_row_identity + 1
        /\ next_row_identity' = next_row_identity + 1
    BY DEF SendPrepared, OfferStep, AddsRow
  <1>2. /\ r \in Rows /\ rows'[r] = row
        /\ \A q \in Rows : q # r => rows'[q] = rows[q]
    BY <1>1, RowsAfter
  <1>3. h \in Journals
    <2>1. row \in Row
      BY <1>1 DEF AddsRow
    <2>2. row.source \in Refs
      BY <2>1 DEF Row
    <2> QED BY <2>2, CapacityAssumption DEF Home, Refs, Slots, Journals
  <1>4. next_row_identity \in Nat
    BY LimitAssumption DEF RouterInv, StampInv
  <1> HIDE DEF h
  <1>5. /\ \A i \in Journals : \A k \in 1 .. Len(journal'[i]) :
             \/ k \in 1 .. Len(journal[i]) /\ journal'[i][k] = journal[i][k]
             \/ /\ i = h /\ k = Len(journal[h]) + 1 /\ journal'[i][k] = SendTicket(r)
        /\ \A i \in Journals : \A k \in 1 .. Len(journal[i]) :
             k \in 1 .. Len(journal'[i]) /\ journal'[i][k] = journal[i][k]
        /\ Len(journal[h]) + 1 \in 1 .. Len(journal'[h])
        /\ journal'[h][Len(journal[h]) + 1] = SendTicket(r)
    BY <1>1, <1>3, JournalGrows
  <1>6. /\ \A q \in Rows, c \in CancelRows : SendTicket(q) # CancelTicket(c)
        /\ \A p, q \in Rows : SendTicket(p) = SendTicket(q) => p = q
        /\ \A c \in CancelRows : cancel_rows[c].target \in Rows
        /\ \A q \in Rows : Home(rows[q].source) \in Journals
    BY JournalTypes
  <1>7. \A i \in Journals : \A k \in 1 .. Len(journal[i]) : journal[i][k] # SendTicket(r)
    BY <1>1, <1>2 DEF TicketInv, SendsReserved
  <1>8. SendsReserved'
    <2> SUFFICES ASSUME NEW i \in Journals, NEW q \in Rows, NEW k \in 1 .. Len(journal'[i]),
                        journal'[i][k] = SendTicket(q)
                 PROVE  rows'[q].state = "RESERVED" /\ Home(rows'[q].source) = i
      BY DEF SendsReserved
    <2>1. CASE k \in 1 .. Len(journal[i]) /\ journal'[i][k] = journal[i][k]
      <3>1. q # r /\ rows[q].state = "RESERVED" /\ Home(rows[q].source) = i
        BY <1>7, <2>1 DEF TicketInv, SendsReserved
      <3> QED BY <1>2, <3>1
    <2>2. CASE i = h /\ journal'[i][k] = SendTicket(r)
      BY <1>1, <1>2, <1>6, <2>2 DEF h
    <2> QED BY <1>5, <2>1, <2>2
  <1>9. CancelsInUse'
    <2> SUFFICES ASSUME NEW i \in Journals, NEW c \in CancelRows,
                        NEW k \in 1 .. Len(journal'[i]), journal'[i][k] = CancelTicket(c)
                 PROVE  cancel_rows[c].in_use /\ Home(cancel_rows[c].source) = i
      BY <1>1 DEF CancelsInUse
    <2>1. k \in 1 .. Len(journal[i]) /\ journal[i][k] = CancelTicket(c)
      BY <1>2, <1>5, <1>6
    <2> QED BY <2>1 DEF TicketInv, CancelsInUse
  <1>10. TicketsOnce'
    BY <1>5, <1>7 DEF TicketInv, TicketsOnce
  <1>11. ReservedTicketed'
    <2> SUFFICES ASSUME NEW q \in Rows, rows'[q].state = "RESERVED"
                 PROVE  \E k \in 1 .. Len(journal'[Home(rows'[q].source)]) :
                           journal'[Home(rows'[q].source)][k] = SendTicket(q)
      BY DEF ReservedTicketed
    <2>1. CASE q = r
      BY <1>2, <1>5, <2>1 DEF h
    <2>2. CASE q # r
      <3> DEFINE g == Home(rows[q].source)
      <3>1. rows'[q] = rows[q] /\ g \in Journals
        BY <1>2, <1>6, <2>2
      <3>2. PICK k \in 1 .. Len(journal[g]) : journal[g][k] = SendTicket(q)
        BY <3>1 DEF TicketInv, ReservedTicketed
      <3> HIDE DEF g
      <3>3. k \in 1 .. Len(journal'[g]) /\ journal'[g][k] = SendTicket(q)
        BY <1>5, <3>1, <3>2
      <3> QED BY <3>1, <3>3 DEF g
    <2> QED BY <2>1, <2>2
  <1>12. SendsFirst'
    <2> SUFFICES ASSUME NEW i \in Journals, NEW c \in CancelRows,
                        NEW k \in 1 .. Len(journal'[i]), journal'[i][k] = CancelTicket(c),
                        rows'[cancel_rows[c].target].identity
                           = cancel_rows[c].target_identity,
                        rows'[cancel_rows[c].target].state = "RESERVED"
                 PROVE  \E l \in 1 .. k - 1 :
                           journal'[i][l] = SendTicket(cancel_rows[c].target)
      BY <1>1 DEF SendsFirst, StillTargets
    <2> DEFINE t == cancel_rows[c].target
    <2>1. k \in 1 .. Len(journal[i]) /\ journal[i][k] = CancelTicket(c)
      BY <1>2, <1>5, <1>6
    <2>2. cancel_rows[c].target_identity \in 1 .. next_row_identity
      BY <2>1 DEF TicketInv, CancelsInUse, IntentsNameEvents
    <2>3. t # r
      BY <1>1, <1>2, <1>4, <2>2
    <2>4. rows'[t] = rows[t]
      BY <1>2, <1>6, <2>3
    <2>5. \E l \in 1 .. k - 1 : journal[i][l] = SendTicket(t)
      BY <2>1, <2>4 DEF TicketInv, SendsFirst, StillTargets
    <2>6. Len(journal[i]) \in Nat
      BY JournalTypes
    <2>7. \A l \in 1 .. k - 1 : l \in 1 .. Len(journal[i])
      BY <2>1, <2>6
    <2> QED BY <1>5, <2>5, <2>7
  <1>13. IntentsNameEvents'
    <2>1. \A i \in 1 .. next_row_identity : i \in 1 .. next_row_identity'
      BY <1>1, <1>4
    <2> QED BY <1>1, <2>1 DEF TicketInv, IntentsNameEvents
  <1> QED BY <1>8, <1>9, <1>10, <1>11, <1>12, <1>13 DEF TicketInv

\* A new cancel ticket follows the ticket of its target.
LEMMA CancelTicketKept ==
    ASSUME RouterInv, RouterInv', IdentityInv, TicketInv, NEW r, NEW c,
           CancelPrepared(r, c)
    PROVE  TicketInv'
  <1> DEFINE h == Home(rows[r].source)
  <1>1. /\ UNCHANGED <<rows, next_row_identity>> /\ HandsOut(h, CancelTicket(c))
        /\ r \in Rows /\ rows[r].state # "FREE" /\ c \in CancelRows
        /\ ~cancel_rows[c].in_use
        /\ cancel_rows' = [cancel_rows EXCEPT
             ![c] = [in_use |-> TRUE, target |-> r, source |-> rows[r].source,
                     target_identity |-> rows[r].identity]]
    BY DEF CancelPrepared, QuietStep
  <1>2. /\ cancel_rows'[c].in_use /\ cancel_rows'[c].target = r
        /\ cancel_rows'[c].source = rows[r].source
        /\ cancel_rows'[c].target_identity = rows[r].identity
        /\ \A d \in CancelRows : d # c => cancel_rows'[d] = cancel_rows[d]
    BY <1>1 DEF RouterInv, IntentInv
  <1>3. h \in Journals
    BY <1>1, JournalTypes
  <1> HIDE DEF h
  <1>5. /\ \A i \in Journals : \A k \in 1 .. Len(journal'[i]) :
             \/ k \in 1 .. Len(journal[i]) /\ journal'[i][k] = journal[i][k]
             \/ /\ i = h /\ k = Len(journal[h]) + 1 /\ journal'[i][k] = CancelTicket(c)
        /\ \A i \in Journals : \A k \in 1 .. Len(journal[i]) :
             k \in 1 .. Len(journal'[i]) /\ journal'[i][k] = journal[i][k]
        /\ Len(journal[h]) + 1 \in 1 .. Len(journal'[h])
        /\ journal'[h][Len(journal[h]) + 1] = CancelTicket(c)
    BY <1>1, <1>3, JournalGrows
  <1>6. /\ \A q \in Rows, d \in CancelRows : SendTicket(q) # CancelTicket(d)
        /\ \A d, e \in CancelRows : CancelTicket(d) = CancelTicket(e) => d = e
        /\ \A d \in CancelRows : cancel_rows[d].target \in Rows
        /\ \A q \in Rows : Home(rows[q].source) \in Journals
    BY JournalTypes
  <1>7. \A i \in Journals : \A k \in 1 .. Len(journal[i]) : journal[i][k] # CancelTicket(c)
    BY <1>1 DEF TicketInv, CancelsInUse
  <1>8. SendsReserved'
    <2> SUFFICES ASSUME NEW i \in Journals, NEW q \in Rows, NEW k \in 1 .. Len(journal'[i]),
                        journal'[i][k] = SendTicket(q)
                 PROVE  rows[q].state = "RESERVED" /\ Home(rows[q].source) = i
      BY <1>1 DEF SendsReserved
    <2>1. k \in 1 .. Len(journal[i]) /\ journal[i][k] = SendTicket(q)
      BY <1>1, <1>5, <1>6
    <2> QED BY <2>1 DEF TicketInv, SendsReserved
  <1>9. CancelsInUse'
    <2> SUFFICES ASSUME NEW i \in Journals, NEW d \in CancelRows,
                        NEW k \in 1 .. Len(journal'[i]), journal'[i][k] = CancelTicket(d)
                 PROVE  cancel_rows'[d].in_use /\ Home(cancel_rows'[d].source) = i
      BY DEF CancelsInUse
    <2>1. CASE k \in 1 .. Len(journal[i]) /\ journal'[i][k] = journal[i][k]
      <3>1. d # c /\ cancel_rows[d].in_use /\ Home(cancel_rows[d].source) = i
        BY <1>7, <2>1 DEF TicketInv, CancelsInUse
      <3> QED BY <1>2, <3>1
    <2>2. CASE i = h /\ journal'[i][k] = CancelTicket(c)
      BY <1>1, <1>2, <1>6, <2>2 DEF h
    <2> QED BY <1>5, <2>1, <2>2
  <1>10. TicketsOnce'
    BY <1>5, <1>7, SMTT(30) DEF TicketInv, TicketsOnce
  <1>11. ReservedTicketed'
    BY <1>1, <1>5, <1>6 DEF TicketInv, ReservedTicketed
  <1>12. SendsFirst'
    <2> SUFFICES ASSUME NEW i \in Journals, NEW d \in CancelRows,
                        NEW k \in 1 .. Len(journal'[i]), journal'[i][k] = CancelTicket(d),
                        rows[cancel_rows'[d].target].identity
                           = cancel_rows'[d].target_identity,
                        rows[cancel_rows'[d].target].state = "RESERVED"
                 PROVE  \E l \in 1 .. k - 1 :
                           journal'[i][l] = SendTicket(cancel_rows'[d].target)
      BY <1>1 DEF SendsFirst, StillTargets
    <2>6. Len(journal[i]) \in Nat /\ Len(journal[h]) \in Nat
      BY <1>3, JournalTypes
    <2>1. CASE k \in 1 .. Len(journal[i]) /\ journal'[i][k] = journal[i][k]
      <3>1. d # c
        BY <1>7, <2>1
      <3>2. cancel_rows'[d] = cancel_rows[d]
        BY <1>2, <3>1
      <3>3. \E l \in 1 .. k - 1 : journal[i][l] = SendTicket(cancel_rows[d].target)
        BY <2>1, <3>2 DEF TicketInv, SendsFirst, StillTargets
      <3>4. \A l \in 1 .. k - 1 : l \in 1 .. Len(journal[i])
        BY <2>1, <2>6
      <3> QED BY <1>5, <3>2, <3>3, <3>4
    <2>2. CASE i = h /\ k = Len(journal[h]) + 1 /\ journal'[i][k] = CancelTicket(c)
      <3>1. d = c
        BY <1>1, <1>6, <2>2
      <3>2. rows[r].state = "RESERVED"
        BY <1>2, <3>1
      <3>3. \E l \in 1 .. Len(journal[h]) : journal[h][l] = SendTicket(r)
        BY <1>1, <3>2 DEF TicketInv, ReservedTicketed, h
      <3>4. k - 1 = Len(journal[h])
        BY <2>2, <2>6
      <3> QED BY <1>2, <1>3, <1>5, <2>2, <3>1, <3>3, <3>4
    <2> QED BY <1>5, <2>1, <2>2
  <1>13. IntentsNameEvents'
    <2>1. rows[r].identity \in 1 .. next_row_identity
      <3>1. rows[r].identity \in Nat /\ next_row_identity \in Nat
        BY <1>1, LimitAssumption DEF RouterInv, LedgerInv, StampInv, Row
      <3>2. rows[r].identity # 0 /\ rows[r].identity <= next_row_identity
        BY <1>1 DEF IdentityInv
      <3> QED BY <3>1, <3>2
    <2> QED BY <1>1, <1>2, <2>1 DEF TicketInv, IntentsNameEvents
  <1> QED BY <1>8, <1>9, <1>10, <1>11, <1>12, <1>13 DEF TicketInv

\* A send that settles takes its ticket, the first of its journal, along.
LEMMA SendSettledKept ==
    ASSUME RouterInv, TicketInv, NEW j, NEW r, SendSettled(j, r)
    PROVE  TicketInv'
  <1>1. /\ r \in Rows /\ Settles(j, SendTicket(r)) /\ UNCHANGED cancel_rows
        /\ (\E row : PublishStep(r, row)) \/ (\E end : GiveUpStep(r, end))
    BY DEF SendSettled
  <1>2. /\ \A q \in Rows : q # r => rows'[q] = rows[q]
        /\ rows'[r].state # "RESERVED" /\ UNCHANGED next_row_identity
    <2>1. ASSUME NEW row, PublishStep(r, row)
          PROVE  /\ \A q \in Rows : q # r => rows'[q] = rows[q]
                 /\ rows'[r].state # "RESERVED" /\ UNCHANGED next_row_identity
      <3>1. /\ MovesRow(r, row) /\ row.state # "RESERVED"
            /\ UNCHANGED next_row_identity
        BY <2>1 DEF PublishStep, MovesRow
      <3> QED BY <3>1, RowsAfter
    <2>2. ASSUME NEW end, GiveUpStep(r, end)
          PROVE  /\ \A q \in Rows : q # r => rows'[q] = rows[q]
                 /\ rows'[r].state # "RESERVED" /\ UNCHANGED next_row_identity
      <3>1. EndsRows({r}, end) /\ UNCHANGED next_row_identity
        BY <2>2 DEF GiveUpStep, EndsRows
      <3> QED BY <1>1, <3>1, RowsAfterEnd
    <2> QED BY <1>1, <2>1, <2>2
  <1>3. /\ j \in Journals /\ 1 \in 1 .. Len(journal[j]) /\ journal[j][1] = SendTicket(r)
        /\ \A i \in Journals : i # j => journal'[i] = journal[i]
        /\ \A k \in 1 .. Len(journal'[j]) :
              k + 1 \in 1 .. Len(journal[j]) /\ journal'[j][k] = journal[j][k + 1]
        /\ \A k \in 1 .. Len(journal[j]) : k # 1 =>
              k - 1 \in 1 .. Len(journal'[j]) /\ journal'[j][k - 1] = journal[j][k]
    BY <1>1, JournalShrinks
  <1>4. /\ \A q \in Rows, c \in CancelRows : SendTicket(q) # CancelTicket(c)
        /\ \A p, q \in Rows : SendTicket(p) = SendTicket(q) => p = q
        /\ \A c \in CancelRows : cancel_rows[c].target \in Rows
        /\ \A q \in Rows : Home(rows[q].source) \in Journals
    BY JournalTypes
  <1>5. Home(rows[r].source) = j
    BY <1>1, <1>3 DEF TicketInv, SendsReserved
  <1>6. ASSUME NEW i \in Journals, NEW k \in 1 .. Len(journal'[i])
        PROVE  /\ journal'[i][k] # SendTicket(r)
               /\ \E m \in 1 .. Len(journal[i]) : journal'[i][k] = journal[i][m]
    <2>1. CASE i = j
      <3>1. k + 1 \in 1 .. Len(journal[j]) /\ journal'[j][k] = journal[j][k + 1]
        BY <1>3, <1>6, <2>1
      <3>2. k + 1 # 1
        BY <1>6
      <3>3. journal[j][k + 1] # SendTicket(r)
        BY <1>3, <3>1, <3>2 DEF TicketInv, TicketsOnce
      <3> QED BY <2>1, <3>1, <3>3
    <2>2. CASE i # j
      BY <1>1, <1>3, <1>5, <1>6, <2>2 DEF TicketInv, SendsReserved
    <2> QED BY <2>1, <2>2
  <1>7. SendsReserved'
    <2> SUFFICES ASSUME NEW i \in Journals, NEW q \in Rows, NEW k \in 1 .. Len(journal'[i]),
                        journal'[i][k] = SendTicket(q)
                 PROVE  rows'[q].state = "RESERVED" /\ Home(rows'[q].source) = i
      BY DEF SendsReserved
    <2>1. q # r /\ rows[q].state = "RESERVED" /\ Home(rows[q].source) = i
      BY <1>6 DEF TicketInv, SendsReserved
    <2> QED BY <1>2, <2>1
  <1>8. CancelsInUse'
    <2> SUFFICES ASSUME NEW i \in Journals, NEW c \in CancelRows,
                        NEW k \in 1 .. Len(journal'[i]), journal'[i][k] = CancelTicket(c)
                 PROVE  cancel_rows[c].in_use /\ Home(cancel_rows[c].source) = i
      BY <1>1 DEF CancelsInUse
    <2> QED BY <1>6 DEF TicketInv, CancelsInUse
  <1>9. TicketsOnce'
    <2> SUFFICES ASSUME NEW i \in Journals, NEW k \in 1 .. Len(journal'[i]),
                        NEW l \in 1 .. Len(journal'[i]), journal'[i][k] = journal'[i][l]
                 PROVE  k = l
      BY DEF TicketsOnce
    <2>1. CASE i = j
      <3>1. journal[j][k + 1] = journal[j][l + 1]
        BY <1>3, <2>1
      <3>2. k + 1 \in 1 .. Len(journal[j]) /\ l + 1 \in 1 .. Len(journal[j])
        BY <1>3, <2>1
      <3>3. k + 1 = l + 1
        BY <2>1, <3>1, <3>2 DEF TicketInv, TicketsOnce
      <3> QED BY <3>3
    <2>2. CASE i # j
      BY <1>3, <2>2 DEF TicketInv, TicketsOnce
    <2> QED BY <2>1, <2>2
  <1>10. ReservedTicketed'
    <2> SUFFICES ASSUME NEW q \in Rows, rows'[q].state = "RESERVED"
                 PROVE  \E k \in 1 .. Len(journal'[Home(rows'[q].source)]) :
                           journal'[Home(rows'[q].source)][k] = SendTicket(q)
      BY DEF ReservedTicketed
    <2> DEFINE g == Home(rows[q].source)
    <2>1. q # r /\ rows'[q] = rows[q] /\ g \in Journals
      BY <1>2, <1>4
    <2>2. PICK k \in 1 .. Len(journal[g]) : journal[g][k] = SendTicket(q)
      BY <2>1 DEF TicketInv, ReservedTicketed
    <2> HIDE DEF g
    <2>3. CASE g = j
      <3>1. k # 1
        BY <1>1, <1>3, <1>4, <2>1, <2>2, <2>3
      <3>2. k - 1 \in 1 .. Len(journal'[g]) /\ journal'[g][k - 1] = SendTicket(q)
        BY <1>3, <2>2, <2>3, <3>1
      <3> QED BY <2>1, <3>2 DEF g
    <2>4. CASE g # j
      BY <1>3, <2>1, <2>2, <2>4 DEF g
    <2> QED BY <2>3, <2>4
  <1>11. SendsFirst'
    <2> SUFFICES ASSUME NEW i \in Journals, NEW c \in CancelRows,
                        NEW k \in 1 .. Len(journal'[i]), journal'[i][k] = CancelTicket(c),
                        rows'[cancel_rows[c].target].identity
                           = cancel_rows[c].target_identity,
                        rows'[cancel_rows[c].target].state = "RESERVED"
                 PROVE  \E l \in 1 .. k - 1 :
                           journal'[i][l] = SendTicket(cancel_rows[c].target)
      BY <1>1 DEF SendsFirst, StillTargets
    <2> DEFINE t == cancel_rows[c].target
    <2>1. t \in Rows /\ t # r /\ rows'[t] = rows[t]
      BY <1>2, <1>4
    <2>2. StillTargets(cancel_rows[c]) /\ rows[t].state = "RESERVED"
      BY <2>1 DEF StillTargets
    <2>3. CASE i # j
      <3>1. \E l \in 1 .. k - 1 : journal[i][l] = SendTicket(t)
        BY <1>3, <2>2, <2>3 DEF TicketInv, SendsFirst
      <3> QED BY <1>3, <2>3, <3>1
    <2>4. CASE i = j
      <3>1. k + 1 \in 1 .. Len(journal[j]) /\ journal[j][k + 1] = CancelTicket(c)
        BY <1>3, <2>4
      <3>2. PICK l \in 1 .. (k + 1) - 1 : journal[j][l] = SendTicket(t)
        BY <1>3, <2>2, <3>1 DEF TicketInv, SendsFirst
      <3> HIDE DEF t
      <3>3. l # 1
        BY <1>1, <1>3, <1>4, <2>1, <3>2
      <3>4. l \in 1 .. Len(journal[j]) /\ l - 1 \in 1 .. k - 1
        <4>1. Len(journal[j]) \in Nat
          BY <1>3, JournalTypes
        <4> QED BY <3>1, <3>2, <3>3, <4>1
      <3>5. journal'[j][l - 1] = SendTicket(t)
        BY <1>3, <3>2, <3>3, <3>4
      <3> QED BY <2>4, <3>4, <3>5 DEF t
    <2> QED BY <2>3, <2>4
  <1>12. IntentsNameEvents'
    BY <1>1, <1>2 DEF TicketInv, IntentsNameEvents
  <1> QED BY <1>7, <1>8, <1>9, <1>10, <1>11, <1>12 DEF TicketInv

\* A cancel that settles frees its intent, and no other ticket names it.
LEMMA CancelSettledKept ==
    ASSUME RouterInv, HoldInv, TicketInv, NEW j, NEW c, CancelSettled(j, c)
    PROVE  TicketInv'
  <1>1. /\ c \in CancelRows /\ Settles(j, CancelTicket(c)) /\ cancel_rows[c].in_use
        /\ cancel_rows' = [cancel_rows EXCEPT ![c] = FreeCancel]
        /\ PlainStep /\ UNCHANGED next_row_identity
    <2>1. PlainStep
      BY DEF CancelSettled, PlainStep
    <2>2. UNCHANGED next_row_identity
      BY DEF CancelSettled, QuietStep, WitnessStep, KeepsStamps, MovesRow,
             WithdrawStep, EndsRows
    <2> QED BY <2>1, <2>2 DEF CancelSettled
  <1>2. TicketRowsSame
    BY <1>1, PlainKeepsTicketRows
  <1>3. /\ j \in Journals /\ 1 \in 1 .. Len(journal[j])
        /\ journal[j][1] = CancelTicket(c)
        /\ \A i \in Journals : i # j => journal'[i] = journal[i]
        /\ \A k \in 1 .. Len(journal'[j]) :
              k + 1 \in 1 .. Len(journal[j]) /\ journal'[j][k] = journal[j][k + 1]
        /\ \A k \in 1 .. Len(journal[j]) : k # 1 =>
              k - 1 \in 1 .. Len(journal'[j]) /\ journal'[j][k - 1] = journal[j][k]
    BY <1>1, JournalShrinks
  <1>4. /\ \A q \in Rows, d \in CancelRows : SendTicket(q) # CancelTicket(d)
        /\ \A d, e \in CancelRows : CancelTicket(d) = CancelTicket(e) => d = e
        /\ \A d \in CancelRows : cancel_rows[d].target \in Rows
        /\ \A q \in Rows : Home(rows[q].source) \in Journals
    BY JournalTypes
  <1>5. Home(cancel_rows[c].source) = j
    BY <1>1, <1>3 DEF TicketInv, CancelsInUse
  <1>13. /\ ~cancel_rows'[c].in_use
         /\ \A d \in CancelRows : d # c => cancel_rows'[d] = cancel_rows[d]
    BY <1>1 DEF RouterInv, IntentInv, FreeCancel
  <1>6. ASSUME NEW i \in Journals, NEW k \in 1 .. Len(journal'[i])
        PROVE  /\ journal'[i][k] # CancelTicket(c)
               /\ \E m \in 1 .. Len(journal[i]) : journal'[i][k] = journal[i][m]
    <2>1. CASE i = j
      <3>1. k + 1 \in 1 .. Len(journal[j]) /\ journal'[j][k] = journal[j][k + 1]
        BY <1>3, <1>6, <2>1
      <3>2. k + 1 # 1
        BY <1>6
      <3>3. journal[j][k + 1] # CancelTicket(c)
        BY <1>3, <3>1, <3>2 DEF TicketInv, TicketsOnce
      <3> QED BY <2>1, <3>1, <3>3
    <2>2. CASE i # j
      BY <1>1, <1>3, <1>5, <1>6, <2>2 DEF TicketInv, CancelsInUse
    <2> QED BY <2>1, <2>2
  <1>7. SendsReserved'
    <2> SUFFICES ASSUME NEW i \in Journals, NEW q \in Rows, NEW k \in 1 .. Len(journal'[i]),
                        journal'[i][k] = SendTicket(q)
                 PROVE  rows'[q].state = "RESERVED" /\ Home(rows'[q].source) = i
      BY DEF SendsReserved
    <2>1. rows[q].state = "RESERVED" /\ Home(rows[q].source) = i
      BY <1>6 DEF TicketInv, SendsReserved
    <2> QED BY <1>2, <2>1 DEF TicketRowsSame
  <1>8. CancelsInUse'
    <2> SUFFICES ASSUME NEW i \in Journals, NEW d \in CancelRows,
                        NEW k \in 1 .. Len(journal'[i]), journal'[i][k] = CancelTicket(d)
                 PROVE  cancel_rows'[d].in_use /\ Home(cancel_rows'[d].source) = i
      BY DEF CancelsInUse
    <2>1. d # c /\ cancel_rows[d].in_use /\ Home(cancel_rows[d].source) = i
      BY <1>6 DEF TicketInv, CancelsInUse
    <2> QED BY <1>13, <2>1
  <1>9. TicketsOnce'
    <2> SUFFICES ASSUME NEW i \in Journals, NEW k \in 1 .. Len(journal'[i]),
                        NEW l \in 1 .. Len(journal'[i]), journal'[i][k] = journal'[i][l]
                 PROVE  k = l
      BY DEF TicketsOnce
    <2>1. CASE i = j
      <3>1. journal[j][k + 1] = journal[j][l + 1]
        BY <1>3, <2>1
      <3>2. k + 1 \in 1 .. Len(journal[j]) /\ l + 1 \in 1 .. Len(journal[j])
        BY <1>3, <2>1
      <3>3. k + 1 = l + 1
        BY <2>1, <3>1, <3>2 DEF TicketInv, TicketsOnce
      <3> QED BY <3>3
    <2>2. CASE i # j
      BY <1>3, <2>2 DEF TicketInv, TicketsOnce
    <2> QED BY <2>1, <2>2
  <1>10. ReservedTicketed'
    <2> SUFFICES ASSUME NEW q \in Rows, rows'[q].state = "RESERVED"
                 PROVE  \E k \in 1 .. Len(journal'[Home(rows'[q].source)]) :
                           journal'[Home(rows'[q].source)][k] = SendTicket(q)
      BY DEF ReservedTicketed
    <2> DEFINE g == Home(rows[q].source)
    <2>1. rows[q].state = "RESERVED" /\ rows'[q].source = rows[q].source /\ g \in Journals
      BY <1>2, <1>4 DEF TicketRowsSame
    <2>2. PICK k \in 1 .. Len(journal[g]) : journal[g][k] = SendTicket(q)
      BY <2>1 DEF TicketInv, ReservedTicketed
    <2> HIDE DEF g
    <2>3. CASE g = j
      <3>1. k # 1
        BY <1>1, <1>3, <1>4, <2>2, <2>3
      <3>2. k - 1 \in 1 .. Len(journal'[g]) /\ journal'[g][k - 1] = SendTicket(q)
        BY <1>3, <2>2, <2>3, <3>1
      <3> QED BY <2>1, <3>2 DEF g
    <2>4. CASE g # j
      BY <1>3, <2>1, <2>2, <2>4 DEF g
    <2> QED BY <2>3, <2>4
  <1>11. SendsFirst'
    <2> SUFFICES ASSUME NEW i \in Journals, NEW d \in CancelRows,
                        NEW k \in 1 .. Len(journal'[i]), journal'[i][k] = CancelTicket(d),
                        rows'[cancel_rows'[d].target].identity
                           = cancel_rows'[d].target_identity,
                        rows'[cancel_rows'[d].target].state = "RESERVED"
                 PROVE  \E l \in 1 .. k - 1 :
                           journal'[i][l] = SendTicket(cancel_rows'[d].target)
      BY DEF SendsFirst, StillTargets
    <2> DEFINE t == cancel_rows[d].target
    <2>1. d # c /\ cancel_rows'[d] = cancel_rows[d] /\ t \in Rows
      BY <1>4, <1>6, <1>13
    <2>2. StillTargets(cancel_rows[d]) /\ rows[t].state = "RESERVED"
      BY <1>2, <2>1 DEF StillTargets, TicketRowsSame
    <2>3. CASE i # j
      <3>1. \E l \in 1 .. k - 1 : journal[i][l] = SendTicket(t)
        BY <1>3, <2>2, <2>3 DEF TicketInv, SendsFirst
      <3> QED BY <1>3, <2>1, <2>3, <3>1
    <2>4. CASE i = j
      <3>1. k + 1 \in 1 .. Len(journal[j]) /\ journal[j][k + 1] = CancelTicket(d)
        BY <1>3, <2>4
      <3>2. PICK l \in 1 .. (k + 1) - 1 : journal[j][l] = SendTicket(t)
        BY <1>3, <2>2, <3>1 DEF TicketInv, SendsFirst
      <3> HIDE DEF t
      <3>3. l # 1
        BY <1>1, <1>3, <1>4, <2>1, <3>2
      <3>4. l \in 1 .. Len(journal[j]) /\ l - 1 \in 1 .. k - 1
        <4>1. Len(journal[j]) \in Nat
          BY <1>3, JournalTypes
        <4> QED BY <3>1, <3>2, <3>3, <4>1
      <3>5. journal'[j][l - 1] = SendTicket(t)
        BY <1>3, <3>2, <3>3, <3>4
      <3> QED BY <2>1, <2>4, <3>4, <3>5 DEF t
    <2> QED BY <2>3, <2>4
  <1>12. IntentsNameEvents'
    BY <1>1, <1>13 DEF TicketInv, IntentsNameEvents
  <1> QED BY <1>7, <1>8, <1>9, <1>10, <1>11, <1>12 DEF TicketInv

\* Every ticket keeps its row or intent until it settles.
LEMMA TicketsStay ==
    ASSUME RouterInv, RouterInv', HoldInv, IdentityInv, TicketInv, EventStep
    PROVE  TicketInv'
  BY TicketsKept, SendTicketKept, CancelTicketKept, SendSettledKept,
     CancelSettledKept DEF EventStep, TicketMoves

-----------------------------------------------------------------------------
(* The Sessions the lanes call. *)

\* Endpoints keep their Session while a row borrows them.
SessionsKept ==
    /\ \A s \in Slots : endpoints'[s].active => endpoints'[s].session # NoSession
    /\ \A r \in Rows : rows[r].state # "FREE" =>
          /\ endpoints[rows[r].target.slot].session # NoSession =>
                endpoints'[rows[r].target.slot].session # NoSession
          /\ /\ rows[r].source.generation # 0
             /\ endpoints[rows[r].source.slot].session # NoSession
             => endpoints'[rows[r].source.slot].session # NoSession

LEMMA AdministerKeepsSessions ==
    ASSUME RouterInv, BorrowsPinned, SessionInv, Administer
    PROVE  SessionsKept
  <1>0. /\ endpoints \in [Slots -> Endpoint]
        /\ \A b \in Refs : b.slot \in Slots
        /\ \A r \in Rows : rows[r].target \in Refs /\ rows[r].source \in Refs
        /\ \A s \in Slots : endpoints[s].active => endpoints[s].session # NoSession
    BY NamesAreRefs DEF RouterInv, TopologyInv, Refs, SessionInv
  <1>1. ASSUME UNCHANGED endpoints PROVE SessionsKept
    BY <1>0, <1>1 DEF SessionsKept
  <1>2. ASSUME NEW t \in Slots,
               \A s \in Slots \ {t} : endpoints'[s] = endpoints[s],
               endpoints'[t].active => endpoints'[t].session # NoSession,
               \/ ~endpoints[t].live
               \/ endpoints[t].session # NoSession => endpoints'[t].session # NoSession
        PROVE  SessionsKept
    <2>1. \A s \in Slots : endpoints'[s].active => endpoints'[s].session # NoSession
      BY <1>0, <1>2
    <2>2. ASSUME NEW b \in Refs, matches(b), endpoints[b.slot].session # NoSession
          PROVE  endpoints'[b.slot].session # NoSession
      <3>1. b.slot \in Slots /\ endpoints[b.slot].live
        BY <1>0, <2>2 DEF matches
      <3> QED BY <1>2, <2>2, <3>1
    <2> QED BY <1>0, <2>1, <2>2 DEF SessionsKept, BorrowsPinned
  <1>3. ASSUME NEW ref \in Refs, matches(ref), Unborrowed(ref), detach_endpoint(ref)
        PROVE  SessionsKept
    <2>1. /\ ref.slot \in Slots
          /\ \A s \in Slots \ {ref.slot} : endpoints'[s] = endpoints[s]
          /\ ~endpoints'[ref.slot].active
      BY <1>0, <1>3 DEF detach_endpoint, BlankEndpoint
    <2>2. \A s \in Slots : endpoints'[s].active => endpoints'[s].session # NoSession
      BY <1>0, <2>1
    <2>3. ASSUME NEW b \in Refs, matches(b), ~refs_equal(b, ref)
          PROVE  endpoints'[b.slot] = endpoints[b.slot]
      <3>1. b.slot # ref.slot
        BY <1>3, <2>3, MatchIsUnique DEF refs_equal, matches
      <3> QED BY <1>0, <2>1, <3>1
    <2> QED BY <1>0, <1>3, <2>2, <2>3 DEF SessionsKept, BorrowsPinned, Unborrowed
  <1>4. ASSUME reserve \/ \E x \in Sessions : attach(x)
        PROVE  SessionsKept
    <2>1. PICK s \in Slots, x \in Sessions \cup {NoSession} :
            /\ ~endpoints[s].live
            /\ endpoints' = [endpoints EXCEPT ![s] = NewEndpoint(s, x)]
      BY <1>4 DEF reserve, attach, FirstUnusedSlot, IsFirst
    <2>2. /\ \A q \in Slots \ {s} : endpoints'[q] = endpoints[q]
          /\ endpoints'[s].active => endpoints'[s].session # NoSession
      BY <1>0, <2>1 DEF NewEndpoint
    <2> QED BY <1>2, <2>1, <2>2
  <1>5. ASSUME NEW ref \in Refs, NEW x \in Sessions, activate(ref, x)
        PROVE  SessionsKept
    <2>1. /\ \A q \in Slots \ {ref.slot} : endpoints'[q] = endpoints[q]
          /\ endpoints'[ref.slot].session = x /\ x # NoSession
      BY <1>0, <1>5, NameAssumption DEF activate, Endpoint
    <2> QED BY <1>0, <1>2, <2>1
  <1>6. ASSUME NEW ref \in Refs, NEW parent,
               \/ set_parent(ref, parent)
               \/ parent \in BOOLEAN /\ set_external_access(ref, parent)
        PROVE  SessionsKept
    <2>1. /\ \A q \in Slots \ {ref.slot} : endpoints'[q] = endpoints[q]
          /\ endpoints'[ref.slot].session = endpoints[ref.slot].session
          /\ endpoints'[ref.slot].active = endpoints[ref.slot].active
      BY <1>0, <1>6 DEF set_parent, set_external_access, Endpoint
    <2> QED BY <1>0, <1>2, <2>1
  <1>7. CASE abort_detach
    BY <1>1, <1>3, <1>7 DEF abort_detach, RouterInv, LaneInv
  <1>8. ASSUME NEW ref \in Refs, detach(ref) \/ abort(ref) PROVE SessionsKept
    BY <1>1, <1>3, <1>8 DEF detach, abort, topology
  <1> QED BY <1>1, <1>4, <1>5, <1>6, <1>7, <1>8
          DEF Administer, bind_invoke, unbind_invoke

\* Every other step leaves the endpoints alone.
LEMMA OthersKeepSessions ==
    ASSUME SessionInv, [Next]_vars, ~Administer
    PROVE  SessionsKept
  <1>1. UNCHANGED endpoints
    <2>1. CASE Produce
      BY <2>1 DEF Produce, prepare_target, prepare_cancel, prepare, enqueue, topology
    <2>2. CASE Settle
      BY <2>2 DEF Settle, EndMicrostep, ticket_commit, ticket_discard,
                  cancel_commit, cancel_discard, topology
    <2>3. CASE RunDueLane \/ \E settled \in BOOLEAN : run_due_report(settled)
      BY <2>3 DEF RunDueLane, run_due_claim, run_due_stop, run_due_settle,
                  run_due_return, run_due_report, topology
    <2>4. CASE DrainLane
      BY <2>4 DEF DrainLane, drain_claim, drain_stop, drain_settle,
                  drain_return, topology
    <2>5. CASE HostCalls
      BY <2>5 DEF HostCalls, run_due, drain_begin, cancel, cancel_source, close,
                  destroy, Tick, topology
    <2>6. CASE Finished \/ UNCHANGED vars
      BY <2>6 DEF Finished, vars, topology
    <2> QED BY <2>1, <2>2, <2>3, <2>4, <2>5, <2>6 DEF Next
  <1> QED BY <1>1 DEF SessionsKept, SessionInv

\* A row is claimed only for a published endpoint, and names it until it ends.
LEMMA ClaimsNamePublished ==
    ASSUME RouterInv, RowStep
    PROVE  /\ \A r \in Rows : rows'[r].state = "INFLIGHT" =>
                /\ rows[r].state # "FREE" /\ rows'[r].target = rows[r].target
                /\ \/ rows[r].state = "INFLIGHT"
                   \/ endpoints[rows[r].target.slot].active
           /\ \A r \in Rows : rows'[r].state = "FIRING" =>
                /\ rows[r].state # "FREE" /\ rows'[r].source = rows[r].source
                /\ \/ rows[r].state = "FIRING"
                   \/ /\ rows[r].source.generation # 0
                      /\ endpoints[rows[r].source.slot].active
  <1> DEFINE Claims(r, row) ==
         /\ row.state = "INFLIGHT" =>
              /\ rows[r].state # "FREE" /\ row.target = rows[r].target
              /\ \/ rows[r].state = "INFLIGHT"
                 \/ endpoints[rows[r].target.slot].active
         /\ row.state = "FIRING" =>
              /\ rows[r].state # "FREE" /\ row.source = rows[r].source
              /\ \/ rows[r].state = "FIRING"
                 \/ /\ rows[r].source.generation # 0
                    /\ endpoints[rows[r].source.slot].active
  <1> SUFFICES \A r \in Rows : Claims(r, rows'[r])
    OBVIOUS
  <1>0. \A r \in Rows : Claims(r, rows[r])
    OBVIOUS
  <1>1. CASE QuietStep
    BY <1>0, <1>1 DEF QuietStep
  <1>2. ASSUME NEW r, NEW row, AddsRow(r, row) \/ MovesRow(r, row), Claims(r, row)
        PROVE  \A q \in Rows : Claims(q, rows'[q])
    <2>1. /\ r \in Rows /\ rows'[r] = row
          /\ \A q \in Rows : q # r => rows'[q] = rows[q]
      BY <1>2, RowsAfter
    <2> HIDE DEF Claims
    <2> QED BY <1>0, <1>2, <2>1
  <1>3. ASSUME NEW D, NEW end, EndsRows(D, end)
        PROVE  \A q \in Rows : Claims(q, rows'[q])
    BY <1>0, <1>3, RowsAfterEnd
  <1>4. ASSUME NEW r, NEW row, OfferStep(r, row) \/ EnqueueStep(r, row)
        PROVE  AddsRow(r, row) /\ Claims(r, row)
    BY <1>4 DEF OfferStep, EnqueueStep
  <1>5. ASSUME NEW r, NEW row,
               \/ PublishStep(r, row) \/ WitnessStep(r, row) \/ RipenStep(r, row)
               \/ PutBackStep(r, row)
        PROVE  MovesRow(r, row) /\ Claims(r, row)
    BY <1>5 DEF PublishStep, WitnessStep, RipenStep, PutBackStep, KeepsStamps, MovesRow
  <1>6. ASSUME NEW r, NEW row, ClaimStep(r, row)
        PROVE  MovesRow(r, row) /\ Claims(r, row)
    BY <1>6 DEF ClaimStep, KeepsStamps, MovesRow, Due, matches
  <1>7. ASSUME NEW r, NEW row, TakeStep(r, row)
        PROVE  MovesRow(r, row) /\ Claims(r, row)
    BY <1>7 DEF TakeStep, KeepsStamps, MovesRow, Deliverable
  <1> HIDE DEF Claims
  <1> QED BY <1>1, <1>2, <1>3, <1>4, <1>5, <1>6, <1>7
          DEF RowStep, WithdrawStep, CloseStep, GiveUpStep, TimerEndsStep, DrainEndsStep

\* The Session a lane calls without the mutex stays published.
LEMMA SessionKept ==
    ASSUME RouterInv, BorrowsPinned, SessionInv, RowStep, [Next]_vars
    PROVE  SessionInv'
  <1>1. SessionsKept
    BY AdministerKeepsSessions, OthersKeepSessions
  <1>2. \A r \in Rows : rows[r].target.slot \in Slots /\ rows[r].source.slot \in Slots
    BY NamesAreRefs DEF Refs
  <1> QED BY <1>1, <1>2, ClaimsNamePublished DEF SessionsKept, SessionInv

-----------------------------------------------------------------------------
(* The theorems. *)

EventInv ==
    /\ HoldInv /\ IdentityInv /\ SequenceInv /\ TicketInv /\ SessionInv
    /\ UnfiredIdsUnique /\ NeverEarly /\ invariant_failures = 0

\* A fresh router holds nothing and has handed out nothing.
LEMMA InitialEvents == Init => EventInv
  <1> SUFFICES ASSUME Init PROVE EventInv
    OBVIOUS
  <1>1. /\ \A r \in Rows : rows[r] = FreeRow
        /\ \A c \in CancelRows : cancel_rows[c] = FreeCancel
        /\ \A s \in Slots : endpoints[s] = BlankEndpoint
        /\ \A j \in Journals : Len(journal[j]) = 0
        /\ \A i \in 1 .. MaxU64 : fate[i] = "none"
        /\ drain.pc = "idle" /\ timer.pc = "idle"
        /\ next_row_identity = 0 /\ next_sequence = 0 /\ invariant_failures = 0
    BY DEF Init, IdleDrain, IdleTimer
  <1>2. /\ FreeRow.state = "FREE" /\ FreeRow.identity = 0 /\ FreeRow.sequence = 0
        /\ FreeRow.delay = 0 /\ ~FreeCancel.in_use /\ ~BlankEndpoint.active
    BY DEF FreeRow, FreeCancel, BlankEndpoint
  <1>3. HoldInv
    BY <1>1, <1>2 DEF HoldInv, DrainHolds, TimerHolds
  <1>4. IdentityInv
    <2>1. \A i \in 1 .. MaxU64 : i > 0 /\ i # 0
      BY LimitAssumption
    <2> QED BY <1>1, <1>2, <2>1 DEF IdentityInv
  <1>5. SequenceInv
    BY <1>1, <1>2 DEF SequenceInv
  <1>6. TicketInv
    <2>1. 1 .. 0 = {}
      OBVIOUS
    <2> QED BY <1>1, <1>2, <2>1 DEF TicketInv, SendsReserved, CancelsInUse, TicketsOnce,
                                    ReservedTicketed, SendsFirst, IntentsNameEvents
  <1>7. SessionInv
    BY <1>1, <1>2 DEF SessionInv
  <1>8. UnfiredIdsUnique /\ NeverEarly
    BY <1>1, <1>2 DEF UnfiredIdsUnique, NeverEarly, CountsTimer
  <1> QED BY <1>1, <1>3, <1>4, <1>5, <1>6, <1>7, <1>8 DEF EventInv

LEMMA NextKeepsEvents ==
    ASSUME RouterInv, BorrowsPinned, EventInv, [Next]_vars
    PROVE  EventInv' /\ EventStep
  <1>1. EventStep /\ RouterInv'
    BY NextEvents, NextKeeps DEF EventInv
  <1>2. RowStep
    BY <1>1, EventRowStep
  <1>3. HoldInv' /\ IdentityInv' /\ SequenceInv'
    BY <1>2, HoldKept, IdentityKept, SequenceKept DEF EventInv
  <1>4. TicketInv'
    BY <1>1, TicketsStay DEF EventInv
  <1>5. SessionInv'
    BY <1>2, SessionKept DEF EventInv
  <1>6. UnfiredIdsUnique'
    BY <1>2, UnfiredKept DEF EventInv
  <1>7. NeverEarly'
    BY <1>1, <1>2, DeadlinesKept DEF EventInv, EventStep
  <1>8. invariant_failures' = 0
    BY <1>1 DEF EventInv, EventStep
  <1> QED BY <1>1, <1>3, <1>4, <1>5, <1>6, <1>7, <1>8 DEF EventInv

\* The inductive invariant behind everything below: rows, tickets, lanes and
\* Sessions stay matched with one another.
THEOREM EventInvariant == Spec => []EventInv
  <1>1. Init => EventInv
    BY InitialEvents
  <1>2. RouterInv /\ BorrowsPinned /\ EventInv /\ [Next]_vars => EventInv'
    BY NextKeepsEvents
  <1> QED BY <1>1, <1>2, RouterInvariant, BorrowsStayPinned, PTL DEF Spec

\* A table whose counter is below its capacity has a free entry.
LEMMA RoomLeft ==
    ASSUME RouterInv
    PROVE  /\ pending # event_capacity => FreeRows # {}
           /\ cancel_pending < cancel_capacity =>
                \E c \in CancelRows : ~cancel_rows[c].in_use
  <1>1. /\ Cardinality(Rows) = event_capacity
        /\ Cardinality(CancelRows) = cancel_capacity
    <2>1. event_capacity \in Nat /\ cancel_capacity \in Nat
      BY CapacityAssumption
    <2>2. /\ Cardinality(0 .. event_capacity - 1)
                = IF 0 > event_capacity - 1 THEN 0 ELSE (event_capacity - 1) - 0 + 1
          /\ Cardinality(0 .. cancel_capacity - 1)
                = IF 0 > cancel_capacity - 1 THEN 0 ELSE (cancel_capacity - 1) - 0 + 1
      <3>1. 0 \in Int /\ event_capacity - 1 \in Int /\ cancel_capacity - 1 \in Int
        BY <2>1
      <3> QED BY <3>1, FS_Interval
    <2> QED BY <2>1, <2>2 DEF Rows, CancelRows
  <1>2. ASSUME FreeRows = {} PROVE pending = event_capacity
    <2>1. UsedRows = Rows
      BY <1>2 DEF FreeRows, RowsIn, UsedRows
    <2> QED BY <1>1, <2>1 DEF RouterInv, LedgerInv
  <1>3. ASSUME \A c \in CancelRows : cancel_rows[c].in_use
        PROVE  cancel_pending = cancel_capacity
    <2>1. UsedIntents = CancelRows
      BY <1>3 DEF UsedIntents
    <2> QED BY <1>1, <2>1 DEF RouterInv, IntentInv
  <1>4. cancel_pending < cancel_capacity => cancel_pending # cancel_capacity
    BY CapacityAssumption DEF RouterInv, IntentInv
  <1> QED BY <1>2, <1>3, <1>4

\* An identity is on as many rows as it has left to live: one, or none.
LEMMA OneRowEach ==
    ASSUME RouterInv, IdentityInv
    PROVE  HeldByOneRow
  <1> SUFFICES ASSUME NEW i \in 1 .. MaxU64
               PROVE  Cardinality({r \in Rows : rows[r].identity = i})
                         = IF fate[i] = "live" THEN 1 ELSE 0
    BY DEF HeldByOneRow
  <1> DEFINE H == {r \in Rows : rows[r].identity = i}
  <1>1. CASE fate[i] = "live"
    <2>1. PICK r \in Rows : rows[r].identity = i
      BY <1>1 DEF IdentityInv
    <2>2. i # 0
      OBVIOUS
    <2>3. H = {r}
      BY <2>1, <2>2 DEF IdentityInv
    <2> HIDE DEF H
    <2>4. Cardinality(H) = 1
      BY <2>3, FS_Singleton
    <2> QED BY <1>1, <2>4 DEF H
  <1>2. CASE fate[i] # "live"
    <2>1. H = {}
      BY <1>2 DEF IdentityInv
    <2> HIDE DEF H
    <2>2. Cardinality(H) = 0
      BY <2>1, FS_EmptySet
    <2> QED BY <1>2, <2>2 DEF H
  <1> QED BY <1>1, <1>2

\* The code's own assertions never fire: every ticket finds its row RESERVED,
\* every lane the row it claimed, every counter what it counts.  Every Event has
\* one row until it ends, a lane's Session outlives the call, the sendid of an
\* unfired send is its own, and no delayed Event is ready before its deadline.
THEOREM LedgerSoundness == Spec => []LedgerSound
  <1>1. RouterInv /\ EventInv => LedgerSound
    <2> SUFFICES ASSUME RouterInv, EventInv PROVE LedgerSound
      OBVIOUS
    <2>1. NoInvariantFailure
      BY RoomLeft DEF EventInv, NoInvariantFailure
    <2>2. HeldByOneRow
      BY OneRowEach DEF EventInv
    <2>3. LaneBorrowsSession
      <3>1. drain.row \in Rows /\ timer.row \in Rows /\ ClaimInv
        BY DEF RouterInv, LaneInv
      <3> QED BY <3>1 DEF ClaimInv, EventInv, SessionInv, LaneBorrowsSession
    <2> QED BY <2>1, <2>2, <2>3 DEF LedgerSound, EventInv
  <1> QED BY <1>1, RouterInvariant, EventInvariant, PTL

\* Only a cancel ticket that settles frees an intent, and what it withdraws is
\* the Event the intent names.
LEMMA CancelRevokes ==
    ASSUME RouterInv, EventStep
    PROVE  CancelRevokesItsTarget
  <1> SUFFICES ASSUME NEW c \in CancelRows, NEW i \in 1 .. MaxU64,
                      cancel_rows[c].in_use, ~cancel_rows'[c].in_use,
                      fate[i] = "live", fate'[i] = "cancelled"
               PROVE  i = cancel_rows[c].target_identity
    BY DEF CancelRevokesItsTarget
  <1>0. cancel_rows \in [CancelRows -> CancelRow]
    BY DEF RouterInv, IntentInv
  <1>1. PICK j, d : CancelSettled(j, d)
    <2>1. CASE NoTicketStep
      BY <2>1 DEF NoTicketStep
    <2>2. ASSUME NEW r, NEW row, SendPrepared(r, row) PROVE FALSE
      BY <2>2 DEF SendPrepared
    <2>3. ASSUME NEW r, NEW d, CancelPrepared(r, d) PROVE FALSE
      BY <1>0, <2>3 DEF CancelPrepared
    <2>4. ASSUME NEW j, NEW r, SendSettled(j, r) PROVE FALSE
      BY <2>4 DEF SendSettled
    <2> QED BY <2>1, <2>2, <2>3, <2>4 DEF EventStep, TicketMoves
  <1>2. d = c
    BY <1>0, <1>1 DEF CancelSettled
  <1>3. fate' # fate
    OBVIOUS
  <1>4. /\ StillTargets(cancel_rows[c])
        /\ EndsRows({cancel_rows[c].target}, "cancelled")
    BY <1>1, <1>2, <1>3 DEF CancelSettled, QuietStep, WitnessStep, KeepsStamps,
                            MovesRow, WithdrawStep
  <1>5. rows[cancel_rows[c].target].identity = i
    BY <1>4 DEF EndsRows
  <1> QED BY <1>4, <1>5 DEF StillTargets

\* An Event is delivered from the row that drain holds.
LEMMA DeliveryIsInOrder ==
    ASSUME RouterInv, EventInv, RowStep
    PROVE  DeliveredInCommitOrder
  <1> SUFFICES ASSUME NEW r \in Rows, NEW q \in Rows,
                      rows[r].identity # 0, rows[r].delay = 0,
                      fate[rows[r].identity] = "live",
                      fate'[rows[r].identity] = "delivered",
                      rows[q].delay = 0, rows[q].state \in {"READY", "INFLIGHT"}
               PROVE  rows[r].sequence <= rows[q].sequence
    BY DEF DeliveredInCommitOrder
  <1> DEFINE i == rows[r].identity
  <1>0. i \in 1 .. MaxU64 /\ \A p \in Rows : rows[p].sequence \in Nat
    BY LimitAssumption DEF RouterInv, LedgerInv, Row
  <1>1. ASSUME NEW D, NEW end, EndsRows(D, end)
        PROVE  end = "delivered" /\ \E p \in D : rows[p].identity = i
    BY <1>0, <1>1 DEF EndsRows
  <1>2. UNCHANGED fate => FALSE
    OBVIOUS
  <1>3. ASSUME NEW p, NEW row, AddsRow(p, row) PROVE FALSE
    <2>1. /\ fate \in [1 .. MaxU64 -> Fates]
          /\ fate' = [fate EXCEPT ![next_row_identity + 1] = "live"]
      BY <1>3 DEF AddsRow, RouterInv, OutcomeInv
    <2> HIDE DEF i
    <2>2. fate'[i] = "live" \/ fate'[i] = fate[i]
      BY <1>0, <2>1
    <2> QED BY <2>2 DEF i
  <1>4. PICK p : DrainEndsStep(p, "delivered")
    <2>1. ASSUME NEW D, NEW end, WithdrawStep(D, end) PROVE FALSE
      BY <1>1, <2>1 DEF WithdrawStep
    <2>2. CASE CloseStep
      BY <1>1, <2>2 DEF CloseStep
    <2>3. ASSUME NEW p, NEW end, GiveUpStep(p, end) PROVE FALSE
      BY <1>1, <2>3 DEF GiveUpStep
    <2>4. ASSUME NEW p, TimerEndsStep(p) \/ DrainEndsStep(p, "cancelled") PROVE FALSE
      BY <1>1, <2>4 DEF TimerEndsStep, DrainEndsStep
    <2>5. ASSUME NEW p, NEW row, MovesRow(p, row) PROVE FALSE
      BY <1>2, <2>5 DEF MovesRow
    <2>6. ASSUME NEW p, NEW row,
                 \/ PublishStep(p, row) \/ WitnessStep(p, row) \/ ClaimStep(p, row)
                 \/ RipenStep(p, row) \/ TakeStep(p, row) \/ PutBackStep(p, row)
          PROVE  FALSE
      BY <2>5, <2>6 DEF PublishStep, WitnessStep, ClaimStep, RipenStep, TakeStep,
                        PutBackStep, KeepsStamps
    <2> QED BY <1>2, <1>3, <2>1, <2>2, <2>3, <2>4, <2>6
            DEF RowStep, QuietStep, OfferStep, EnqueueStep
  <1>5. p = r /\ DrainHolds(r)
    <2>1. rows[p].identity = i /\ p \in Rows /\ DrainHolds(p)
      BY <1>1, <1>4 DEF DrainEndsStep
    <2> QED BY <2>1 DEF EventInv, IdentityInv
  <1>6. CASE rows[q].state = "INFLIGHT"
    <2>1. q = r
      BY <1>5, <1>6 DEF EventInv, HoldInv, DrainHolds
    <2> QED BY <1>0, <2>1
  <1>7. CASE rows[q].state = "READY"
    <2>1. rows[r].state = "INFLIGHT"
      BY <1>5 DEF EventInv, HoldInv
    <2> QED BY <1>7, <2>1 DEF EventInv, SequenceInv
  <1> QED BY <1>6, <1>7

\* A cancel withdraws the Event it was prepared for or none, although its row may
\* be reused (ABA), and undelayed Events are delivered in commit order.
THEOREM LedgerStepsCorrect == Spec => LedgerSteps
  <1>1. RouterInv /\ BorrowsPinned /\ EventInv /\ [Next]_vars
           => [CancelRevokesItsTarget /\ DeliveredInCommitOrder]_vars
    <2> SUFFICES ASSUME RouterInv, BorrowsPinned, EventInv, [Next]_vars
                 PROVE  CancelRevokesItsTarget /\ DeliveredInCommitOrder
      OBVIOUS
    <2>1. EventStep
      BY NextKeepsEvents
    <2>2. RowStep
      BY <2>1, EventRowStep
    <2> QED BY <2>1, <2>2, CancelRevokes, DeliveryIsInOrder
  <1> QED BY <1>1, RouterInvariant, BorrowsStayPinned, EventInvariant, PTL
          DEF Spec, LedgerSteps

\* With every counter at zero every table is empty.
LEMMA QuiescentIsEmpty ==
    ASSUME RouterInv, is_quiescent
    PROVE  /\ \A r \in Rows : rows[r].state = "FREE"
           /\ \A c \in CancelRows : ~cancel_rows[c].in_use
           /\ \A ref \in Refs : ~matches(ref)
  <1>1. /\ IsFiniteSet(UsedRows) /\ IsFiniteSet(UsedIntents) /\ IsFiniteSet(LiveSlots)
    BY FiniteTables, FS_Subset DEF UsedRows, UsedIntents, LiveSlots
  <1>2. /\ Cardinality(UsedRows) = 0 /\ Cardinality(UsedIntents) = 0
        /\ Cardinality(LiveSlots) = 0
    BY DEF RouterInv, LedgerInv, IntentInv, TopologyInv, is_quiescent
  <1>3. UsedRows = {} /\ UsedIntents = {} /\ LiveSlots = {}
    BY <1>1, <1>2, FS_EmptySet
  <1>4. \A ref \in Refs : ~matches(ref)
    BY <1>3 DEF LiveSlots, matches, Refs
  <1> QED BY <1>3, <1>4 DEF UsedRows, UsedIntents

\* Between the check of destroy and the release of the router nothing revives
\* it: no ticket, lane, endpoint or late call is left that could.
THEOREM QuiescenceLastsForever == Spec => QuiescenceIsStable
  <1>1. RouterInv /\ EventInv /\ [Next]_vars => [is_quiescent => is_quiescent']_vars
    <2> SUFFICES ASSUME RouterInv, EventInv, [Next]_vars, is_quiescent
                 PROVE  is_quiescent'
      OBVIOUS
    <2>0. /\ closed /\ drain.pc = "idle" /\ timer.pc = "idle"
          /\ \A r \in Rows : rows[r].state = "FREE"
          /\ \A c \in CancelRows : ~cancel_rows[c].in_use
          /\ \A ref \in Refs : ~matches(ref)
          /\ aborting \in Refs
      BY QuiescentIsEmpty DEF is_quiescent, RouterInv, LaneInv
    <2>1. ASSUME UNCHANGED <<topology, closed, drain, timer, ledger, cancel_pending>>
          PROVE  is_quiescent'
      BY <2>1 DEF is_quiescent, topology, ledger
    <2>2. CASE Administer
      <3>1. CASE abort_detach
        <4>1. UNCHANGED <<topology, closed, drain, timer, ledger, cancel_pending>>
          BY <2>0, <3>1 DEF abort_detach, topology, intents, life
        <4> QED BY <2>1, <4>1
      <3> QED BY <2>0, <2>2, <3>1
              DEF Administer, reserve, attach, activate, abort, detach, set_parent,
                  set_external_access, bind_invoke, unbind_invoke, MayPublish
    <2>3. CASE Produce
      BY <2>0, <2>3 DEF Produce, prepare_target, prepare_cancel, prepare, enqueue, Open
    <2>4. CASE Settle
      <3>1. ASSUME NEW j \in Journals, NEW how, EndMicrostep(j, how)
            PROVE  is_quiescent'
        BY <2>1, <3>1 DEF EndMicrostep, intents, lanes, life
      <3>2. ASSUME NEW j \in Journals, NEW x, NEW how, NEW kind, NextTicket(j, how, kind, x)
            PROVE  /\ 1 \in 1 .. Len(journal[j])
                   /\ journal[j][1] = [kind |-> kind, row |-> x]
        <4>1. journal[j] \in Seq(Ticket) /\ journal[j] # <<>>
              /\ Head(journal[j]) = [kind |-> kind, row |-> x]
          BY <3>2, JournalTypes DEF NextTicket
        <4> QED BY <4>1
      <3>3. ASSUME NEW j \in Journals, NEW r \in Rows,
                   ticket_commit(j, r) \/ ticket_discard(j, r)
            PROVE  FALSE
        <4>1. 1 \in 1 .. Len(journal[j]) /\ journal[j][1] = SendTicket(r)
          BY <3>2, <3>3 DEF ticket_commit, ticket_discard, SendTicket
        <4>2. rows[r].state = "RESERVED"
          BY <4>1 DEF EventInv, TicketInv, SendsReserved
        <4> QED BY <2>0, <4>2
      <3>4. ASSUME NEW j \in Journals, NEW c \in CancelRows,
                   cancel_commit(j, c) \/ cancel_discard(j, c)
            PROVE  FALSE
        <4>1. 1 \in 1 .. Len(journal[j]) /\ journal[j][1] = CancelTicket(c)
          BY <3>2, <3>4 DEF cancel_commit, cancel_discard, CancelTicket
        <4>2. cancel_rows[c].in_use
          BY <4>1 DEF EventInv, TicketInv, CancelsInUse
        <4> QED BY <2>0, <4>2
      <3> QED BY <2>4, <3>1, <3>3, <3>4 DEF Settle
    <2>5. CASE \/ RunDueLane \/ DrainLane
               \/ \E settled \in BOOLEAN : run_due_report(settled)
      BY <2>0, <2>5 DEF RunDueLane, DrainLane, run_due_claim, run_due_stop,
                        run_due_settle, run_due_return, run_due_report, drain_claim,
                        drain_stop, drain_settle, drain_return
    <2>6. CASE HostCalls
      <3>1. CASE destroy \/ Tick
        BY <2>1, <3>1 DEF destroy, Tick, intents, lanes, life
      <3> QED BY <2>0, <2>6, <3>1
              DEF HostCalls, run_due, drain_begin, cancel, cancel_source, close, Open
    <2>7. CASE Finished \/ UNCHANGED vars
      BY <2>1, <2>7 DEF Finished, vars, intents, lanes, life
    <2> QED BY <2>2, <2>3, <2>4, <2>5, <2>6, <2>7 DEF Next
  <1> QED BY <1>1, RouterInvariant, EventInvariant, PTL DEF Spec, QuiescenceIsStable

-----------------------------------------------------------------------------
(* The Host router implements EventLedger.                                 *)


(***************************************************************************)
(* The ledger read off a table R of rows and the fates F. *)
(***************************************************************************)
HeldIn(R, i) == {r \in Rows : R[r].identity = i}

EndOf(end) == IF end \in {"cancelled", "discarded"} THEN "withdrawn" ELSE end

StatusIn(R, F) ==
    [i \in 1 .. MaxU64 |->
       IF HeldIn(R, i) # {}
       THEN StatusOfState[R[CHOOSE r \in Rows : r \in HeldIn(R, i)].state]
       ELSE EndOf(F[i])]

RankIn(R) ==
    [i \in 1 .. MaxU64 |->
       IF HeldIn(R, i) # {}
       THEN R[CHOOSE r \in Rows : r \in HeldIn(R, i)].sequence ELSE 0]

HeldOnce(R) ==
    \A r, q \in Rows :
       R[r].identity = R[q].identity /\ R[r].identity # 0 => r = q

\* The row that holds an Event tells its status and its rank.
LEMMA ReadHeld ==
    ASSUME NEW R, NEW F, HeldOnce(R), NEW r \in Rows,
           R[r].identity \in 1 .. MaxU64
    PROVE  /\ StatusIn(R, F)[R[r].identity] = StatusOfState[R[r].state]
           /\ RankIn(R)[R[r].identity] = R[r].sequence
  <1> DEFINE i == R[r].identity
             c == CHOOSE q \in Rows : q \in HeldIn(R, i)
  <1>1. r \in HeldIn(R, i)
    BY DEF HeldIn
  <1>2. c \in Rows /\ c \in HeldIn(R, i)
    BY <1>1
  <1>3. R[c].identity = i /\ i # 0
    BY <1>2, LimitAssumption DEF HeldIn
  <1>4. c = r
    BY <1>2, <1>3 DEF HeldOnce
  <1>5. HeldIn(R, i) # {}
    BY <1>1
  <1> HIDE DEF i
  <1>6. i \in 1 .. MaxU64
    BY DEF i
  <1>7. StatusIn(R, F)[i] = StatusOfState[R[c].state] /\ RankIn(R)[i] = R[c].sequence
    BY <1>5, <1>6 DEF StatusIn, RankIn
  <1> QED BY <1>4, <1>7 DEF i

\* An Event that no row holds has its fate, and no rank.
LEMMA ReadUnheld ==
    ASSUME NEW R, NEW F, NEW i \in 1 .. MaxU64, \A r \in Rows : R[r].identity # i
    PROVE  StatusIn(R, F)[i] = EndOf(F[i]) /\ RankIn(R)[i] = 0
  <1>1. HeldIn(R, i) = {}
    BY DEF HeldIn
  <1> QED BY <1>1 DEF StatusIn, RankIn

LEMMA ReadNow ==
    /\ AbstractStatus = StatusIn(rows, fate) /\ AbstractRank = RankIn(rows)
    /\ AbstractStatus' = StatusIn(rows', fate') /\ AbstractRank' = RankIn(rows')
  BY DEF AbstractStatus, AbstractRank, StatusIn, RankIn, RowsHolding, RowOf, HeldIn,
         EndOf

-----------------------------------------------------------------------------
(* The three ways to change the table. *)

\* What the proofs below know of a table.
TableFacts ==
    /\ rows \in [Rows -> Row] /\ fate \in [1 .. MaxU64 -> Fates]
    /\ HeldOnce(rows)
    /\ \A r \in Rows : rows[r].identity \in 0 .. MaxU64
    /\ \A r \in Rows : rows[r].state # "FREE" => rows[r].identity \in 1 .. MaxU64
    /\ \A r \in Rows : rows[r].state = "FREE" => rows[r].identity = 0

LEMMA TableIsFine ==
    ASSUME RouterInv, IdentityInv
    PROVE  TableFacts
  <1>1. rows \in [Rows -> Row] /\ fate \in [1 .. MaxU64 -> Fates] /\ MaxU64 \in Nat
    BY LimitAssumption DEF RouterInv, LedgerInv, OutcomeInv
  <1>2. \A r \in Rows : rows[r].identity \in 0 .. MaxU64
    BY <1>1 DEF Row
  <1>3. \A r \in Rows : rows[r].identity = 0 <=> rows[r].state = "FREE"
    BY DEF IdentityInv
  <1>4. \A r \in Rows : rows[r].state # "FREE" => rows[r].identity \in 1 .. MaxU64
    BY <1>1, <1>2, <1>3
  <1>5. HeldOnce(rows)
    BY DEF HeldOnce, IdentityInv
  <1> QED BY <1>1, <1>2, <1>3, <1>4, <1>5 DEF TableFacts

\* One row changes, and its Event is held by it afterwards: only the status
\* and the rank of this Event change.
LEMMA OneEventChanges ==
    ASSUME TableFacts, TableFacts', NEW r \in Rows, NEW row \in Row,
           rows'[r] = row, \A q \in Rows : q # r => rows'[q] = rows[q],
           row.state # "FREE",
           rows[r].identity \in {0, row.identity},
           \A i \in 1 .. MaxU64 : i # row.identity => fate'[i] = fate[i]
    PROVE  /\ row.identity \in 1 .. MaxU64
           /\ AbstractStatus' = [AbstractStatus EXCEPT
                                   ![row.identity] = StatusOfState[row.state]]
           /\ AbstractRank' = [AbstractRank EXCEPT ![row.identity] = row.sequence]
  <1> DEFINE e == row.identity
             S == StatusIn(rows, fate)   T == StatusIn(rows', fate')
             K == RankIn(rows)           L == RankIn(rows')
  <1>1. HeldOnce(rows) /\ HeldOnce(rows')
    BY DEF TableFacts
  <1>2. e \in 1 .. MaxU64
    BY DEF TableFacts
  <1>3. T[e] = StatusOfState[row.state] /\ L[e] = row.sequence
    BY <1>1, <1>2, ReadHeld
  <1>4. ASSUME NEW i \in 1 .. MaxU64, i # e
        PROVE  T[i] = S[i] /\ L[i] = K[i]
    <2>1. CASE \E q \in Rows : rows[q].identity = i
      <3>1. PICK q \in Rows : rows[q].identity = i
        BY <2>1
      <3>2. q # r
        BY <1>4, <3>1, LimitAssumption
      <3>3. rows'[q] = rows[q]
        BY <3>2
      <3>4. S[i] = StatusOfState[rows[q].state] /\ K[i] = rows[q].sequence
        BY <1>1, <3>1, ReadHeld, SMTT(30)
      <3>5. T[i] = StatusOfState[rows'[q].state] /\ L[i] = rows'[q].sequence
        BY <1>1, <3>1, <3>3, ReadHeld
      <3> QED BY <3>3, <3>4, <3>5
    <2>2. CASE \A q \in Rows : rows[q].identity # i
      <3>1. \A q \in Rows : rows'[q].identity # i
        BY <1>4, <2>2
      <3>2. S[i] = EndOf(fate[i]) /\ K[i] = 0
        BY <2>2, ReadUnheld
      <3>3. T[i] = EndOf(fate'[i]) /\ L[i] = 0
        BY <3>1, ReadUnheld
      <3> QED BY <1>4, <3>2, <3>3
    <2> QED BY <2>1, <2>2
  <1>5. /\ S = [i \in 1 .. MaxU64 |-> S[i]] /\ T = [i \in 1 .. MaxU64 |-> T[i]]
        /\ K = [i \in 1 .. MaxU64 |-> K[i]] /\ L = [i \in 1 .. MaxU64 |-> L[i]]
    BY DEF StatusIn, RankIn
  <1> HIDE DEF e, S, T, K, L
  <1>6. T = [S EXCEPT ![e] = StatusOfState[row.state]]
    BY <1>2, <1>3, <1>4, <1>5
  <1>7. L = [K EXCEPT ![e] = row.sequence]
    BY <1>2, <1>3, <1>4, <1>5
  <1> QED BY <1>2, <1>6, <1>7, ReadNow DEF e, S, T, K, L

\* The Events that the rows of D hold.
EventsOf(D) == {i \in 1 .. MaxU64 : \E r \in D : rows[r].identity = i}

\* Rows become FREE: exactly their Events end.
LEMMA EventsEnd ==
    ASSUME TableFacts, TableFacts', NEW D, NEW end, EndsRows(D, end)
    PROVE  /\ AbstractStatus' = [i \in 1 .. MaxU64 |->
                IF i \in EventsOf(D) THEN EndOf(end) ELSE AbstractStatus[i]]
           /\ AbstractRank' = [i \in 1 .. MaxU64 |->
                IF i \in EventsOf(D) THEN 0 ELSE AbstractRank[i]]
  <1> DEFINE E == EventsOf(D)
             S == StatusIn(rows, fate)   T == StatusIn(rows', fate')
             K == RankIn(rows)           L == RankIn(rows')
  <1>1. /\ D \in SUBSET Rows /\ \A q \in D : rows[q].state # "FREE"
        /\ \A q \in Rows : rows'[q] = IF q \in D THEN FreeRow ELSE rows[q]
        /\ FreeRow.identity = 0
    BY RowsAfterEnd DEF FreeRow
  <1>2. \A i \in 1 .. MaxU64 : fate'[i] = IF i \in E THEN end ELSE fate[i]
    BY DEF EndsRows, EventsOf
  <1>3. ASSUME NEW i \in E
        PROVE  i \in 1 .. MaxU64 /\ T[i] = EndOf(end) /\ L[i] = 0
    <2>1. i \in 1 .. MaxU64 /\ i # 0
      BY <1>3, LimitAssumption DEF EventsOf
    <2>2. PICK r \in D : rows[r].identity = i
      BY DEF EventsOf
    <2>3. \A q \in Rows : rows'[q].identity # i
      <3> SUFFICES ASSUME NEW q \in Rows, rows'[q].identity = i PROVE FALSE
        OBVIOUS
      <3>1. q \notin D
        BY <1>1, <2>1
      <3>2. rows[q].identity = i
        BY <1>1, <3>1
      <3> QED BY <1>1, <2>1, <2>2, <3>1, <3>2 DEF TableFacts, HeldOnce
    <2>4. T[i] = EndOf(fate'[i]) /\ L[i] = 0
      BY <2>1, <2>3, ReadUnheld
    <2> QED BY <1>2, <2>1, <2>4
  <1>4. ASSUME NEW i \in 1 .. MaxU64, i \notin E
        PROVE  T[i] = S[i] /\ L[i] = K[i]
    <2>1. CASE \E q \in Rows : rows[q].identity = i
      <3>1. PICK q \in Rows : rows[q].identity = i
        BY <2>1
      <3>2. q \notin D
        BY <1>4, <3>1 DEF EventsOf
      <3>3. rows'[q] = rows[q]
        BY <1>1, <3>2
      <3>4. S[i] = StatusOfState[rows[q].state] /\ K[i] = rows[q].sequence
        BY <3>1, ReadHeld DEF TableFacts
      <3>5. T[i] = StatusOfState[rows'[q].state] /\ L[i] = rows'[q].sequence
        BY <3>1, <3>3, ReadHeld DEF TableFacts
      <3> QED BY <3>3, <3>4, <3>5
    <2>2. CASE \A q \in Rows : rows[q].identity # i
      <3>0. i # 0
        BY LimitAssumption
      <3>1. \A q \in Rows : rows'[q].identity # i
        BY <1>1, <2>2, <3>0
      <3>2. S[i] = EndOf(fate[i]) /\ K[i] = 0
        BY <2>2, ReadUnheld
      <3>3. T[i] = EndOf(fate'[i]) /\ L[i] = 0
        BY <3>1, ReadUnheld
      <3> QED BY <1>2, <1>4, <3>2, <3>3
    <2> QED BY <2>1, <2>2
  <1>5. T = [i \in 1 .. MaxU64 |-> T[i]] /\ L = [i \in 1 .. MaxU64 |-> L[i]]
    BY DEF StatusIn, RankIn
  <1> HIDE DEF E, S, T, K, L
  <1>6. T = [i \in 1 .. MaxU64 |-> IF i \in E THEN EndOf(end) ELSE S[i]]
    BY <1>3, <1>4, <1>5
  <1>7. L = [i \in 1 .. MaxU64 |-> IF i \in E THEN 0 ELSE K[i]]
    BY <1>3, <1>4, <1>5
  <1> QED BY <1>6, <1>7, ReadNow DEF E, S, T, K, L

-----------------------------------------------------------------------------
(* Each kind of step is one of the ledger's. *)

\* The status of a row in use, and its rank.
LEMMA HeldStatus ==
    ASSUME TableFacts, NEW r \in Rows, rows[r].state # "FREE"
    PROVE  /\ rows[r].identity \in 1 .. MaxU64
           /\ AbstractStatus[rows[r].identity] = StatusOfState[rows[r].state]
           /\ AbstractRank[rows[r].identity] = rows[r].sequence
  BY ReadHeld, ReadNow DEF TableFacts

\* An Event with a status of a row in use is held by a row.
LEMMA PendingIsHeld ==
    ASSUME RouterInv, IdentityInv, NEW i \in 1 .. MaxU64,
           AbstractStatus[i] \in {"offered", "waiting", "claimed", "ready", "leaving"}
    PROVE  \E r \in Rows : rows[r].identity = i /\ rows[r].state # "FREE"
  <1>0. TableFacts
    BY TableIsFine
  <1>1. ASSUME \A r \in Rows : rows[r].identity # i PROVE FALSE
    <2>1. AbstractStatus[i] = EndOf(fate[i])
      BY <1>1, ReadUnheld, ReadNow
    <2>2. fate[i] \in {"none", "live", "delivered", "cancelled", "discarded"}
      BY <1>0 DEF TableFacts, Fates
    <2> QED BY <2>1, <2>2 DEF EndOf
  <1>2. PICK r \in Rows : rows[r].identity = i
    BY <1>1
  <1>3. i # 0
    BY LimitAssumption
  <1> QED BY <1>0, <1>2, <1>3 DEF TableFacts

\* The next identity is new to the ledger.
LEMMA NextIsNew ==
    ASSUME RouterInv, IdentityInv, next_row_identity # MaxU64
    PROVE  /\ next_row_identity + 1 \in 1 .. MaxU64
           /\ Ledger!IsNew(next_row_identity + 1)
           /\ AbstractRank[next_row_identity + 1] = 0
  <1>0. TableFacts
    BY TableIsFine
  <1>1. next_row_identity \in 0 .. MaxU64 /\ MaxU64 \in Nat
    BY LimitAssumption DEF RouterInv, StampInv
  <1> DEFINE e == next_row_identity + 1
  <1>2. e \in 1 .. MaxU64 /\ \A f \in 1 .. MaxU64 : f < e <=> ~(f > next_row_identity)
    BY <1>1
  <1>3. \A i \in 1 .. MaxU64 : fate[i] = "none" <=> i > next_row_identity
    BY DEF IdentityInv
  <1>4. \A i \in 1 .. MaxU64 : fate[i] = "live" <=> \E r \in Rows : rows[r].identity = i
    BY DEF IdentityInv
  <1>5. fate[e] = "none"
    BY <1>1, <1>2, <1>3
  <1> HIDE DEF e
  <1>6. \A r \in Rows : rows[r].identity # e
    BY <1>2, <1>4, <1>5
  <1>7. AbstractStatus[e] = "none" /\ AbstractRank[e] = 0
    BY <1>2, <1>5, <1>6, ReadUnheld, ReadNow DEF EndOf
  <1>8. ASSUME NEW f \in 1 .. MaxU64, f < e PROVE AbstractStatus[f] # "none"
    <2>1. fate[f] # "none"
      BY <1>2, <1>3, <1>8
    <2>2. CASE \E r \in Rows : rows[r].identity = f
      <3>1. PICK r \in Rows : rows[r].identity = f
        BY <2>2
      <3>2. rows[r].state # "FREE" /\ rows[r].state \in RowStates
        BY <1>0, <3>1, LimitAssumption DEF TableFacts, Row
      <3>3. AbstractStatus[f] = StatusOfState[rows[r].state]
        BY <1>0, <3>1, <3>2, HeldStatus
      <3> QED BY <3>2, <3>3 DEF StatusOfState, RowStates
    <2>3. CASE \A r \in Rows : rows[r].identity # f
      <3>1. AbstractStatus[f] = EndOf(fate[f])
        BY <2>3, ReadUnheld, ReadNow
      <3> QED BY <2>1, <3>1 DEF EndOf
    <2> QED BY <2>2, <2>3
  <1>9. Ledger!IsNew(e)
    BY <1>7, <1>8 DEF Ledger!IsNew, Ledger!Events
  <1> QED BY <1>2, <1>7, <1>9 DEF e

LEMMA RowsAsLedger ==
    StatusOfState["RESERVED"] = "offered" /\ StatusOfState["DELAYED"] = "waiting" /\
    StatusOfState["FIRING"] = "claimed" /\ StatusOfState["READY"] = "ready" /\
    StatusOfState["INFLIGHT"] = "leaving"
  BY DEF StatusOfState, RowStates

\* A new row is a new Event: offered, or published at once.
LEMMA AddsEvent ==
    ASSUME RouterInv, IdentityInv, TableFacts, TableFacts', NEW r, NEW row,
           AddsRow(r, row)
    PROVE  /\ row.identity \in 1 .. MaxU64 /\ Ledger!IsNew(row.identity)
           /\ AbstractRank[row.identity] = 0 /\ ~closed /\ UNCHANGED closed
           /\ AbstractStatus' = [AbstractStatus EXCEPT
                                   ![row.identity] = StatusOfState[row.state]]
           /\ AbstractRank' = [AbstractRank EXCEPT ![row.identity] = row.sequence]
  <1>1. /\ r \in Rows /\ row \in Row /\ row.state # "FREE" /\ rows[r].state = "FREE"
        /\ row.identity = next_row_identity + 1 /\ next_row_identity # MaxU64
        /\ ~closed /\ UNCHANGED closed
    BY DEF AddsRow
  <1>2. rows'[r] = row /\ \A q \in Rows : q # r => rows'[q] = rows[q]
    BY RowsAfter
  <1>3. rows[r].identity = 0
    BY <1>1 DEF TableFacts
  <1>4. \A i \in 1 .. MaxU64 : i # row.identity => fate'[i] = fate[i]
    BY <1>1 DEF AddsRow, TableFacts
  <1>5. /\ row.identity \in 1 .. MaxU64 /\ Ledger!IsNew(row.identity)
        /\ AbstractRank[row.identity] = 0
    BY <1>1, NextIsNew
  <1>6. rows[r].identity \in {0, row.identity}
    BY <1>3
  <1> QED BY <1>1, <1>2, <1>4, <1>5, <1>6, OneEventChanges

\* A row in use that changes is its Event that changes.
LEMMA MovesEvent ==
    ASSUME RouterInv, TableFacts, TableFacts', NEW r, NEW row, MovesRow(r, row)
    PROVE  /\ r \in Rows /\ row.identity \in 1 .. MaxU64
           /\ row.identity = rows[r].identity /\ UNCHANGED closed
           /\ AbstractStatus[row.identity] = StatusOfState[rows[r].state]
           /\ AbstractRank[row.identity] = rows[r].sequence
           /\ AbstractStatus' = [AbstractStatus EXCEPT
                                   ![row.identity] = StatusOfState[row.state]]
           /\ AbstractRank' = [AbstractRank EXCEPT ![row.identity] = row.sequence]
  <1>1. /\ r \in Rows /\ row \in Row /\ row.state # "FREE" /\ rows[r].state # "FREE"
        /\ row.identity = rows[r].identity /\ UNCHANGED <<fate, closed>>
    BY DEF MovesRow
  <1>2. rows'[r] = row /\ \A q \in Rows : q # r => rows'[q] = rows[q]
    BY RowsAfter
  <1>3. \A i \in 1 .. MaxU64 : i # row.identity => fate'[i] = fate[i]
    BY <1>1
  <1>4. rows[r].identity \in {0, row.identity}
    BY <1>1
  <1>5. /\ AbstractStatus[row.identity] = StatusOfState[rows[r].state]
        /\ AbstractRank[row.identity] = rows[r].sequence
    BY <1>1, HeldStatus
  <1> QED BY <1>1, <1>2, <1>3, <1>4, <1>5, OneEventChanges

\* Writing what is there changes nothing.
LEMMA SameWrite ==
    /\ \A e \in 1 .. MaxU64 :
          /\ [AbstractStatus EXCEPT ![e] = AbstractStatus[e]] = AbstractStatus
          /\ [AbstractRank EXCEPT ![e] = AbstractRank[e]] = AbstractRank
  <1>1. /\ AbstractStatus = [i \in 1 .. MaxU64 |-> AbstractStatus[i]]
        /\ AbstractRank = [i \in 1 .. MaxU64 |-> AbstractRank[i]]
    BY DEF AbstractStatus, AbstractRank
  <1> QED BY <1>1

LedgerStep == Ledger!LedgerNext \/ UNCHANGED Ledger!ledgerVars

\* Steps that leave every Event where it is.
LEMMA StutterSteps ==
    ASSUME RouterInv, TableFacts, TableFacts',
           QuietStep \/ \E r, row : WitnessStep(r, row)
    PROVE  LedgerStep
  <1>1. CASE QuietStep
    BY <1>1, ReadNow DEF QuietStep, LedgerStep, Ledger!ledgerVars
  <1>2. ASSUME NEW r, NEW row, WitnessStep(r, row) PROVE LedgerStep
    <2>1. /\ MovesRow(r, row) /\ UNCHANGED next_sequence
          /\ row.sequence = rows[r].sequence /\ row.state = rows[r].state
      BY <1>2 DEF WitnessStep, KeepsStamps
    <2>2. UNCHANGED <<AbstractStatus, AbstractRank, closed>>
      BY <2>1, MovesEvent, SameWrite
    <2> QED BY <2>1, <2>2 DEF LedgerStep, Ledger!ledgerVars
  <1> QED BY <1>1, <1>2

\* prepare offers an Event, enqueue publishes one that was not offered.
LEMMA NewSteps ==
    ASSUME RouterInv, IdentityInv, TableFacts, TableFacts', NEW r, NEW row,
           OfferStep(r, row) \/ EnqueueStep(r, row)
    PROVE  LedgerStep
  <1>0. AddsRow(r, row)
    BY DEF OfferStep, EnqueueStep
  <1> DEFINE e == row.identity
  <1>1. /\ e \in 1 .. MaxU64 /\ Ledger!IsNew(e)
        /\ AbstractRank[e] = 0 /\ ~closed /\ UNCHANGED closed
        /\ AbstractStatus' = [AbstractStatus EXCEPT ![e] = StatusOfState[row.state]]
        /\ AbstractRank' = [AbstractRank EXCEPT ![e] = row.sequence]
    BY <1>0, AddsEvent
  <1>2. CASE OfferStep(r, row)
    <2>1. row.state = "RESERVED" /\ row.sequence = 0 /\ UNCHANGED next_sequence
      BY <1>2 DEF OfferStep
    <2>2. UNCHANGED AbstractRank
      BY <1>1, <2>1, SameWrite
    <2>3. Ledger!Offer(e)
      BY <1>1, <2>1, <2>2, RowsAsLedger DEF Ledger!Offer, Ledger!Become
    <2> QED BY <1>1, <2>3 DEF LedgerStep, Ledger!LedgerNext, Ledger!Events
  <1>3. CASE EnqueueStep(r, row)
    <2>1. /\ row.state = "READY" /\ row.sequence = next_sequence + 1
          /\ next_sequence' = next_sequence + 1
      BY <1>3 DEF EnqueueStep
    <2>2. Ledger!PublishNew(e)
      BY <1>1, <2>1, RowsAsLedger DEF Ledger!PublishNew, Ledger!Publish, Ledger!Become
    <2> QED BY <1>1, <2>2 DEF LedgerStep, Ledger!LedgerNext, Ledger!Events
  <1> QED BY <1>2, <1>3

\* The commit of a ticket publishes the Event it offered.
LEMMA PublishSteps ==
    ASSUME RouterInv, TableFacts, TableFacts', NEW r, NEW row, PublishStep(r, row)
    PROVE  LedgerStep
  <1> DEFINE e == row.identity
  <1>1. /\ ~closed /\ MovesRow(r, row) /\ rows[r].state = "RESERVED"
        /\ row.state \in {"DELAYED", "READY"}
        /\ row.sequence = next_sequence + 1 /\ next_sequence' = next_sequence + 1
    BY DEF PublishStep
  <1>2. /\ e \in 1 .. MaxU64 /\ UNCHANGED closed
        /\ AbstractStatus[e] = StatusOfState[rows[r].state]
        /\ AbstractStatus' = [AbstractStatus EXCEPT ![e] = StatusOfState[row.state]]
        /\ AbstractRank' = [AbstractRank EXCEPT ![e] = row.sequence]
    BY <1>1, MovesEvent
  <1>3. StatusOfState[row.state] \in {"waiting", "ready"}
    BY <1>1, RowsAsLedger
  <1>4. Ledger!Publish(e, StatusOfState[row.state])
    BY <1>1, <1>2 DEF Ledger!Publish, Ledger!Become
  <1>5. Ledger!PublishOffered(e)
    BY <1>1, <1>2, <1>3, <1>4, RowsAsLedger DEF Ledger!PublishOffered
  <1> QED BY <1>2, <1>5 DEF LedgerStep, Ledger!LedgerNext, Ledger!Events

\* The lanes: a deadline is claimed and settled, an Event is handed over and
\* put back.
LEMMA LaneSteps ==
    ASSUME RouterInv, IdentityInv, HoldInv, TableFacts, TableFacts', NEW r, NEW row,
           \/ ClaimStep(r, row) \/ RipenStep(r, row)
           \/ TakeStep(r, row) \/ PutBackStep(r, row)
    PROVE  LedgerStep
  <1> DEFINE e == row.identity
  <1>1. /\ ~closed /\ MovesRow(r, row) /\ UNCHANGED next_sequence
        /\ row.sequence = rows[r].sequence
    BY DEF ClaimStep, RipenStep, TakeStep, PutBackStep, KeepsStamps
  <1>2. /\ r \in Rows /\ e \in 1 .. MaxU64 /\ UNCHANGED closed
        /\ AbstractStatus[e] = StatusOfState[rows[r].state]
        /\ AbstractRank[e] = rows[r].sequence
        /\ AbstractStatus' = [AbstractStatus EXCEPT ![e] = StatusOfState[row.state]]
        /\ AbstractRank' = [AbstractRank EXCEPT ![e] = row.sequence]
    BY <1>1, MovesEvent
  <1>3. UNCHANGED AbstractRank
    BY <1>1, <1>2, SameWrite
  <1>4. CASE ClaimStep(r, row)
    <2>1. Ledger!Claim(e)
      BY <1>1, <1>2, <1>3, <1>4, RowsAsLedger DEF ClaimStep, Ledger!Claim, Ledger!Become
    <2> QED BY <1>2, <2>1 DEF LedgerStep, Ledger!LedgerNext, Ledger!Events
  <1>5. CASE RipenStep(r, row)
    <2>1. Ledger!Ripen(e)
      BY <1>1, <1>2, <1>3, <1>5, RowsAsLedger DEF RipenStep, Ledger!Ripen, Ledger!Become
    <2> QED BY <1>2, <2>1 DEF LedgerStep, Ledger!LedgerNext, Ledger!Events
  <1>6. CASE PutBackStep(r, row)
    <2>1. Ledger!PutBack(e)
      BY <1>1, <1>2, <1>3, <1>6, RowsAsLedger DEF PutBackStep, Ledger!PutBack, Ledger!Become
    <2> QED BY <1>2, <2>1 DEF LedgerStep, Ledger!LedgerNext, Ledger!Events
  <1>7. CASE TakeStep(r, row)
    <2>1. /\ rows[r].state = "READY" /\ row.state = "INFLIGHT"
          /\ \A q \in Rows : ~DrainHolds(q)
          /\ \A q \in Rows : rows[q].state = "READY" => rows[r].sequence <= rows[q].sequence
      BY <1>7 DEF TakeStep, IsHead, ReadyRows, RowsIn
    <2>2. ASSUME NEW f \in 1 .. MaxU64
          PROVE  /\ AbstractStatus[f] # "leaving"
                 /\ AbstractStatus[f] = "ready" => AbstractRank[e] <= AbstractRank[f]
      <3> SUFFICES ASSUME AbstractStatus[f] \in {"leaving", "ready"}
                   PROVE  AbstractStatus[f] = "ready" /\ AbstractRank[e] <= AbstractRank[f]
        OBVIOUS
      <3>1. PICK q \in Rows : rows[q].identity = f /\ rows[q].state # "FREE"
        BY PendingIsHeld
      <3>2. /\ AbstractStatus[f] = StatusOfState[rows[q].state]
            /\ AbstractRank[f] = rows[q].sequence
        BY <3>1, HeldStatus
      <3>3. rows[q].state \in RowStates /\ rows[q].state # "INFLIGHT"
        BY <2>1 DEF HoldInv, TableFacts, Row
      <3>4. rows[q].state = "READY"
        BY <3>1, <3>2, <3>3, RowsAsLedger DEF RowStates
      <3> QED BY <1>2, <2>1, <3>2, <3>4, RowsAsLedger
    <2>3. Ledger!Take(e)
      BY <1>1, <1>2, <1>3, <2>1, <2>2, RowsAsLedger
         DEF Ledger!Take, Ledger!Become, Ledger!Events
    <2> QED BY <1>2, <2>3 DEF LedgerStep, Ledger!LedgerNext, Ledger!Events
  <1> QED BY <1>4, <1>5, <1>6, <1>7

\* What EndsRows is in the ledger.
LEMMA EndsInLedger ==
    ASSUME TableFacts, TableFacts', NEW D, NEW end, EndsRows(D, end)
    PROVE  /\ EventsOf(D) \in SUBSET Ledger!Events
           /\ Ledger!End(EventsOf(D), EndOf(end))
           /\ \A e \in EventsOf(D) : \E r \in D :
                 /\ r \in Rows /\ rows[r].identity = e /\ rows[r].state # "FREE"
                 /\ AbstractStatus[e] = StatusOfState[rows[r].state]
  <1>1. D \in SUBSET Rows /\ \A q \in D : rows[q].state # "FREE"
    BY RowsAfterEnd
  <1>2. Ledger!End(EventsOf(D), EndOf(end))
    BY EventsEnd DEF Ledger!End, Ledger!Events, EndsRows
  <1>3. \A e \in EventsOf(D) : \E r \in D :
           /\ r \in Rows /\ rows[r].identity = e /\ rows[r].state # "FREE"
           /\ AbstractStatus[e] = StatusOfState[rows[r].state]
    BY <1>1, HeldStatus DEF EventsOf
  <1> QED BY <1>2, <1>3 DEF EventsOf, Ledger!Events

\* The Event of one row.
LEMMA OneEvent ==
    ASSUME TableFacts, NEW r \in Rows, rows[r].state # "FREE"
    PROVE  EventsOf({r}) = {rows[r].identity} /\ rows[r].identity \in 1 .. MaxU64
  BY DEF EventsOf, TableFacts

\* Events that no lane holds are withdrawn together.
LEMMA WithdrawSteps ==
    ASSUME TableFacts, TableFacts', NEW D, NEW end, EndsRows(D, end),
           UNCHANGED closed, end \in {"cancelled", "discarded"},
           \A r \in D : rows[r].state \in {"RESERVED", "DELAYED", "READY"}
    PROVE  LedgerStep
  <1>1. EndOf(end) = "withdrawn"
    BY DEF EndOf
  <1>2. \A e \in EventsOf(D) : AbstractStatus[e] \in {"offered", "waiting", "ready"}
    BY EndsInLedger, RowsAsLedger
  <1>3. EventsOf(D) \in SUBSET Ledger!Events /\ Ledger!End(EventsOf(D), "withdrawn")
    BY <1>1, EndsInLedger
  <1>4. Ledger!Withdraw(EventsOf(D))
    BY <1>2, <1>3 DEF Ledger!Withdraw
  <1> QED BY <1>3, <1>4 DEF LedgerStep, Ledger!LedgerNext

\* close withdraws every Event that is published and not held by a lane.
LEMMA CloseSteps ==
    ASSUME RouterInv, IdentityInv, TableFacts, TableFacts', CloseStep
    PROVE  LedgerStep
  <1> DEFINE W == {e \in Ledger!Events : AbstractStatus[e] \in {"waiting", "ready"}}
  <1>1. EndsRows(AcceptedRows, "cancelled") /\ ~closed /\ closed' = TRUE
    BY DEF CloseStep
  <1>2. Ledger!End(EventsOf(AcceptedRows), "withdrawn")
    BY <1>1, EndsInLedger DEF EndOf
  <1>3. ASSUME NEW e \in EventsOf(AcceptedRows) PROVE e \in W
    <2>1. PICK r \in AcceptedRows : AbstractStatus[e] = StatusOfState[rows[r].state]
      BY <1>1, EndsInLedger
    <2>2. rows[r].state \in {"READY", "DELAYED"}
      BY DEF AcceptedRows, RowsIn
    <2>3. e \in Ledger!Events
      BY <1>1, EndsInLedger
    <2> QED BY <2>1, <2>2, <2>3, RowsAsLedger
  <1>4. ASSUME NEW e \in W PROVE e \in EventsOf(AcceptedRows)
    <2>1. e \in 1 .. MaxU64 /\ AbstractStatus[e] \in {"waiting", "ready"}
      BY DEF Ledger!Events
    <2>2. PICK r \in Rows : rows[r].identity = e /\ rows[r].state # "FREE"
      BY <2>1, PendingIsHeld
    <2>3. AbstractStatus[e] = StatusOfState[rows[r].state] /\ rows[r].state \in RowStates
      BY <2>2, HeldStatus DEF TableFacts, Row
    <2>4. rows[r].state \in {"READY", "DELAYED"}
      BY <2>1, <2>2, <2>3, RowsAsLedger DEF RowStates
    <2> QED BY <2>1, <2>2, <2>4 DEF EventsOf, AcceptedRows, RowsIn
  <1>5. EventsOf(AcceptedRows) = W
    BY <1>3, <1>4
  <1>6. Ledger!Close
    BY <1>1, <1>2, <1>5 DEF Ledger!Close
  <1> QED BY <1>6 DEF LedgerStep, Ledger!LedgerNext

\* A lane ends the Event it holds.
LEMMA LaneEndSteps ==
    ASSUME TableFacts, TableFacts', NEW r,
           TimerEndsStep(r) \/ DrainEndsStep(r, "delivered") \/ DrainEndsStep(r, "cancelled")
    PROVE  LedgerStep
  <1> DEFINE e == rows[r].identity
  <1>1. r \in Rows /\ rows[r].state # "FREE" /\ UNCHANGED closed
    BY DEF TimerEndsStep, DrainEndsStep
  <1>2. EventsOf({r}) = {e} /\ e \in Ledger!Events
    BY <1>1, OneEvent DEF Ledger!Events
  <1>3. AbstractStatus[e] = StatusOfState[rows[r].state]
    BY <1>1, HeldStatus
  <1>4. ASSUME NEW end, EndsRows({r}, end) PROVE Ledger!End({e}, EndOf(end))
    BY <1>2, <1>4, EndsInLedger
  <1>5. EndOf("cancelled") = "withdrawn" /\ EndOf("delivered") = "delivered"
    BY DEF EndOf
  <1>6. CASE TimerEndsStep(r)
    <2>1. Ledger!End({e}, "withdrawn") /\ rows[r].state = "FIRING"
      BY <1>4, <1>5, <1>6 DEF TimerEndsStep
    <2>2. Ledger!WithdrawHeld(e)
      BY <1>1, <1>3, <2>1, RowsAsLedger DEF Ledger!WithdrawHeld
    <2> QED BY <1>2, <2>2 DEF LedgerStep, Ledger!LedgerNext
  <1>7. CASE DrainEndsStep(r, "delivered")
    <2>1. Ledger!End({e}, "delivered") /\ rows[r].state = "INFLIGHT"
      BY <1>4, <1>5, <1>7 DEF DrainEndsStep
    <2>2. Ledger!Deliver(e)
      BY <1>1, <1>3, <2>1, RowsAsLedger DEF Ledger!Deliver
    <2> QED BY <1>2, <2>2 DEF LedgerStep, Ledger!LedgerNext
  <1>8. CASE DrainEndsStep(r, "cancelled")
    <2>1. Ledger!End({e}, "withdrawn") /\ rows[r].state = "INFLIGHT" /\ closed
      BY <1>4, <1>5, <1>8 DEF DrainEndsStep
    <2>2. Ledger!WithdrawHeld(e)
      BY <1>1, <1>3, <2>1, RowsAsLedger DEF Ledger!WithdrawHeld
    <2> QED BY <1>2, <2>2 DEF LedgerStep, Ledger!LedgerNext
  <1> QED BY <1>6, <1>7, <1>8

-----------------------------------------------------------------------------

\* The empty router is the empty ledger.
LEMMA EmptyLedger == Init => Ledger!LedgerInit
  <1> SUFFICES ASSUME Init PROVE Ledger!LedgerInit
    OBVIOUS
  <1>1. /\ rows = [r \in Rows |-> FreeRow] /\ next_sequence = 0 /\ closed = FALSE
        /\ fate = [i \in 1 .. MaxU64 |-> "none"]
    BY DEF Init
  <1>2. ASSUME NEW i \in 1 .. MaxU64
        PROVE  AbstractStatus[i] = "none" /\ AbstractRank[i] = 0
    <2>1. \A r \in Rows : rows[r].identity # i
      BY <1>1, LimitAssumption DEF FreeRow
    <2>2. fate[i] = "none"
      BY <1>1
    <2> QED BY <2>1, <2>2, ReadUnheld, ReadNow DEF EndOf
  <1>3. /\ AbstractStatus = [i \in 1 .. MaxU64 |-> AbstractStatus[i]]
        /\ AbstractRank = [i \in 1 .. MaxU64 |-> AbstractRank[i]]
    BY DEF AbstractStatus, AbstractRank
  <1>4. /\ AbstractStatus = [i \in 1 .. MaxU64 |-> "none"]
        /\ AbstractRank = [i \in 1 .. MaxU64 |-> 0]
    BY <1>2, <1>3
  <1> QED BY <1>1, <1>4 DEF Ledger!LedgerInit, Ledger!Events

\* Every step of the router is a step of the ledger or leaves it alone.
LEMMA StepsRefine ==
    ASSUME RouterInv, RouterInv', EventInv, EventInv', RowStep
    PROVE  LedgerStep
  <1>1. IdentityInv /\ IdentityInv' /\ HoldInv
    BY DEF EventInv
  <1>2. TableFacts
    BY <1>1, TableIsFine
  <1>3. TableFacts'
    <2>1. rows' \in [Rows -> Row] /\ fate' \in [1 .. MaxU64 -> Fates] /\ MaxU64 \in Nat
      BY LimitAssumption DEF RouterInv, LedgerInv, OutcomeInv
    <2>2. \A r \in Rows : rows'[r].identity \in 0 .. MaxU64
      BY <2>1 DEF Row
    <2>3. \A r \in Rows : rows'[r].identity = 0 <=> rows'[r].state = "FREE"
      BY <1>1 DEF IdentityInv
    <2>4. \A r \in Rows : rows'[r].state # "FREE" => rows'[r].identity \in 1 .. MaxU64
      BY <2>1, <2>2, <2>3
    <2>5. HeldOnce(rows')
      BY <1>1 DEF HeldOnce, IdentityInv
    <2> QED BY <2>1, <2>2, <2>3, <2>4, <2>5 DEF TableFacts
  <1>4. ASSUME NEW D, NEW end, WithdrawStep(D, end) PROVE LedgerStep
    BY <1>2, <1>3, <1>4, WithdrawSteps DEF WithdrawStep
  <1>5. ASSUME NEW r, NEW end, GiveUpStep(r, end) PROVE LedgerStep
    BY <1>2, <1>3, <1>5, WithdrawSteps DEF GiveUpStep
  <1> QED BY <1>1, <1>2, <1>3, <1>4, <1>5, StutterSteps, NewSteps, PublishSteps,
             LaneSteps, CloseSteps, LaneEndSteps DEF RowStep

\* The Host router keeps what EventLedger promises: every Event is offered,
\* published in order, handed over oldest first, and delivered or withdrawn
\* exactly once, whatever rows, tickets and lanes do meanwhile.
THEOREM RouterImplementsLedger == Spec => ImplementsLedger
  <1>1. RouterInv /\ BorrowsPinned /\ EventInv /\ [Next]_vars /\ RouterInv'
           => [Ledger!LedgerNext]_(Ledger!ledgerVars)
    <2> SUFFICES ASSUME RouterInv, BorrowsPinned, EventInv, [Next]_vars, RouterInv'
                 PROVE  LedgerStep
      BY DEF LedgerStep
    <2>1. EventInv' /\ EventStep
      BY NextKeepsEvents
    <2>2. RowStep
      BY <2>1, EventRowStep
    <2> QED BY <2>1, <2>2, StepsRefine
  <1> QED BY <1>1, EmptyLedger, RouterInvariant, BorrowsStayPinned, EventInvariant, PTL
          DEF Spec, ImplementsLedger, Ledger!LedgerSpec
=============================================================================
