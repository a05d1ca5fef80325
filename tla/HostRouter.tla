----------------------------- MODULE HostRouter -----------------------------
(***************************************************************************)
(* The bounded Host router of TurboSCXML (scxml_host_router.c): endpoint   *)
(* identity, and the ledger of external Events that were accepted from a   *)
(* source but not yet transferred to the FIFO of their target Session.     *)
(*                                                                         *)
(* Every action is one critical section of the router's mutex.  An         *)
(* operation that drops the mutex (drain, run_due, abort) is a lane with a *)
(* program counter, one action per critical section, and everything else   *)
(* may happen between two of them.                                         *)
(*                                                                         *)
(* An Event's name and content are never read by the router: a row is told *)
(* apart by its identity.  Calls that return an error leave the state as   *)
(* it is, so they are not actions; the purely diagnostic counters          *)
(* (high_water, rejected_full, stale_refs, delivery_errors, timer_fired,   *)
(* timer_cancelled, cancel_xxx) are not modelled; prepared and committed   *)
(* always equal next_row_identity and next_sequence.                       *)
(***************************************************************************)
EXTENDS Integers, FiniteSets, Sequences

CONSTANTS
    endpoint_capacity,   \* scxml_host_router_config, each a table size
    event_capacity,
    invoke_capacity,
    timer_capacity,
    cancel_capacity,
    Sessions,            \* Session objects a host may publish
    LocationOf,          \* the location string a Session reports
    Addresses,           \* target strings other than "" and "#_parent"
    InvokeIds,           \* invoke ids, each as the address "#_<id>"
    SendIds,
    Delays,              \* nonzero delays, in clock ticks
    MaxU32,              \* UINT32_MAX: the last generation of a slot
    MaxU64,              \* UINT64_MAX: the last row identity and sequence
    MaxTime,             \* bound: the last instant of the clock
    MaxBatch,            \* bound: max_events and max_fires of one call
    NoSession, NoId      \* NULL session, empty send id

ASSUME CapacityAssumption ==
    /\ endpoint_capacity \in Nat \ {0}
    /\ event_capacity \in Nat \ {0}
    /\ invoke_capacity \in Nat
    /\ timer_capacity \in Nat /\ timer_capacity <= event_capacity
    /\ cancel_capacity \in Nat
    /\ (timer_capacity = 0) <=> (cancel_capacity = 0)

ASSUME LimitAssumption ==
    /\ MaxU32 \in Nat \ {0}
    /\ MaxU64 \in Nat \ {0}
    /\ MaxTime \in Nat
    /\ MaxBatch \in Nat \ {0}
    /\ Delays \subseteq Nat \ {0}

ASSUME NameAssumption ==
    /\ NoSession \notin Sessions
    /\ NoId \notin SendIds
    /\ InvokeIds \subseteq Addresses
    /\ LocationOf \in [Sessions -> Addresses]

Slots == 0 .. endpoint_capacity - 1
Rows == 0 .. event_capacity - 1
Routes == 0 .. invoke_capacity - 1
CancelRows == 0 .. cancel_capacity - 1

\* scxml_host_session_ref; {0} is the null reference.
Refs == [slot : Slots, generation : 0 .. MaxU32]
NoRef == [slot |-> 0, generation |-> 0]

\* The two source-relative target strings that are not in Addresses.
Self == "self"
Parent == "parent"
Targets == Addresses \cup {Self, Parent}

RowStates ==
    {"FREE", "RESERVED", "DELAYED", "FIRING", "READY", "INFLIGHT"}

Endpoint == [generation : 0 .. MaxU32, live : BOOLEAN, active : BOOLEAN,
             session : Sessions \cup {NoSession}, parent : Refs,
             accessible : BOOLEAN]

Row == [state : RowStates, target : Refs, source : Refs,
        sequence : 0 .. MaxU64, identity : 0 .. MaxU64,
        delay : Delays \cup {0}, deadline : Nat,
        fire_won_cancel : BOOLEAN, send_id : SendIds \cup {NoId}]

FreeRow == [state |-> "FREE", target |-> NoRef, source |-> NoRef,
            sequence |-> 0, identity |-> 0, delay |-> 0, deadline |-> 0,
            fire_won_cancel |-> FALSE, send_id |-> NoId]

CancelRow == [in_use : BOOLEAN, target : Rows, source : Refs,
              target_identity : 0 .. MaxU64]

FreeCancel == [in_use |-> FALSE, target |-> 0, source |-> NoRef,
               target_identity |-> 0]

Route == [live : BOOLEAN, owner : Refs, id : InvokeIds \cup {NoId},
          target : Refs]

FreeRoute == [live |-> FALSE, owner |-> NoRef, id |-> NoId, target |-> NoRef]

(***************************************************************************)
(* The effect journals.  A ticket returned by a prepare_* call moves into  *)
(* the CFlow effect journal of the Session that is in a microstep; CFlow   *)
(* settles the tickets of one microstep in the order of their              *)
(* preparation, all with commit or all with discard, one call each.  The   *)
(* journal of a Session is named after its slot; the last journal holds    *)
(* the tickets of scxml_host_router_prepare, which has no source.          *)
(***************************************************************************)
Journals == 0 .. endpoint_capacity
Ticket == [kind : {"send"}, row : Rows] \cup
          [kind : {"cancel"}, row : CancelRows]
Phases == {"open", "commit", "discard"}

VARIABLES
    endpoints,          \* [Slots -> Endpoint]
    endpoint_count,
    invoke_routes,      \* [Routes -> Route]
    invoke_count,
    rows,               \* [Rows -> Row]
    pending,            \* rows that are not FREE
    reserved,           \* rows that are RESERVED
    timer_pending,      \* rows with a delay that have not fired
    next_row_identity,
    next_sequence,
    cancel_rows,        \* [CancelRows -> CancelRow]
    cancel_pending,
    closed,
    destroyed,          \* router->impl = NULL
    drain,              \* the lane in scxml_host_router_drain
    timer,              \* the lane in scxml_host_router_run_due
    aborting,           \* the endpoint between the two sections of abort
    journal,            \* [Journals -> Seq(Ticket)]
    phase,              \* [Journals -> Phases]
    now,                \* the borrowed CFlow clock
    discarded, delivered, cancelled, timer_done_failed, invariant_failures,
    fate                \* history: what became of each row identity

topology == <<endpoints, endpoint_count, invoke_routes, invoke_count>>
ledger == <<rows, pending, reserved, timer_pending, invariant_failures>>
stamps == <<next_row_identity, next_sequence>>
intents == <<cancel_rows, cancel_pending>>
lanes == <<drain, timer, aborting>>
journals == <<journal, phase>>
outcomes == <<discarded, delivered, cancelled, timer_done_failed, fate>>
life == <<closed, destroyed>>

vars == <<topology, ledger, stamps, intents, lanes, journals, outcomes,
          life, now>>

LaneStates == {"idle", "scan", "busy", "reported", "exit"}

\* fate of an identity: "none" before its row is reserved, "live" while a
\* row holds it, then one of the three ends.
Fates == {"none", "live", "delivered", "cancelled", "discarded"}

TypeOK ==
    /\ endpoints \in [Slots -> Endpoint]
    /\ endpoint_count \in Nat
    /\ invoke_routes \in [Routes -> Route]
    /\ invoke_count \in Nat
    /\ rows \in [Rows -> Row]
    /\ pending \in Nat
    /\ reserved \in Nat
    /\ timer_pending \in Nat
    /\ next_row_identity \in 0 .. MaxU64
    /\ next_sequence \in 0 .. MaxU64
    /\ cancel_rows \in [CancelRows -> CancelRow]
    /\ cancel_pending \in Nat
    /\ closed \in BOOLEAN
    /\ destroyed \in BOOLEAN
    /\ drain \in [pc : LaneStates, row : Rows, budget : 0 .. MaxBatch]
    /\ timer \in [pc : LaneStates, row : Rows, budget : 0 .. MaxBatch,
                  settled : BOOLEAN]
    /\ aborting \in Refs
    /\ journal \in [Journals -> Seq(Ticket)]
    /\ phase \in [Journals -> Phases]
    /\ now \in Nat
    /\ discarded \in Nat
    /\ delivered \in Nat
    /\ cancelled \in Nat
    /\ timer_done_failed \in Nat
    /\ invariant_failures \in Nat
    /\ fate \in [1 .. MaxU64 -> Fates]

BlankEndpoint == [generation |-> 0, live |-> FALSE, active |-> FALSE,
                  session |-> NoSession, parent |-> NoRef,
                  accessible |-> FALSE]
IdleDrain == [pc |-> "idle", row |-> 0, budget |-> 0]
IdleTimer == [pc |-> "idle", row |-> 0, budget |-> 0, settled |-> FALSE]

\* scxml_host_router_init
Init ==
    /\ endpoints = [s \in Slots |-> BlankEndpoint]
    /\ endpoint_count = 0
    /\ invoke_routes = [i \in Routes |-> FreeRoute]
    /\ invoke_count = 0
    /\ rows = [r \in Rows |-> FreeRow]
    /\ pending = 0
    /\ reserved = 0
    /\ timer_pending = 0
    /\ next_row_identity = 0
    /\ next_sequence = 0
    /\ cancel_rows = [c \in CancelRows |-> FreeCancel]
    /\ cancel_pending = 0
    /\ closed = FALSE
    /\ destroyed = FALSE
    /\ drain = IdleDrain
    /\ timer = IdleTimer
    /\ aborting = NoRef
    /\ journal = [j \in Journals |-> <<>>]
    /\ phase = [j \in Journals |-> "open"]
    /\ now = 0
    /\ discarded = 0
    /\ delivered = 0
    /\ cancelled = 0
    /\ timer_done_failed = 0
    /\ invariant_failures = 0
    /\ fate = [i \in 1 .. MaxU64 |-> "none"]

-----------------------------------------------------------------------------
(* Helpers that run under the mutex. *)

matches(ref) ==
    /\ ref.generation # 0
    /\ endpoints[ref.slot].live
    /\ endpoints[ref.slot].generation = ref.generation

refs_equal(a, b) == a.generation # 0 /\ a = b

IsFirst(i, S) == i \in S /\ \A k \in S : i <= k

\* A saturating decrement, and how many of its steps hit zero: the code
\* counts each of those as an invariant failure.
Minus(x, n) == IF n <= x THEN x - n ELSE 0
Shortfall(x, n) == IF n <= x THEN 0 ELSE n - x

CountsTimer(row) ==
    row.delay # 0 /\ row.state \in {"RESERVED", "DELAYED", "FIRING"}

\* The rows the three ledger counters stand for.
UsedRows == {r \in Rows : rows[r].state # "FREE"}
ReservedRows == {r \in Rows : rows[r].state = "RESERVED"}
TimerRows == {r \in Rows : CountsTimer(rows[r])}

\* release_locked on each row of D in index order.  A row is released only
\* while it is not FREE and pending is not zero.
Releasable(D) ==
    {r \in D \cap UsedRows :
        Cardinality({q \in D \cap UsedRows : q <= r}) <= pending}

release_locked(D, end) ==
    LET R == Releasable(D)
    IN  /\ rows' = [r \in Rows |-> IF r \in R THEN FreeRow ELSE rows[r]]
        /\ pending' = pending - Cardinality(R)
        /\ reserved' =
               Minus(reserved, Cardinality(R \cap ReservedRows))
        /\ timer_pending' =
               Minus(timer_pending, Cardinality(R \cap TimerRows))
        /\ fate' = [i \in 1 .. MaxU64 |->
                       IF \E r \in R : rows[r].identity = i
                       THEN end ELSE fate[i]]

\* The invariant failures that release_locked counts on the way.
release_failures(D) ==
    LET R == Releasable(D)
    IN  Cardinality(D \ R)
          + Shortfall(reserved, Cardinality(R \cap ReservedRows))
          + Shortfall(timer_pending, Cardinality(R \cap TimerRows))

\* The loops that drop a set of accepted rows: each is released and counted.
cancel_rows_locked(D) ==
    /\ release_locked(D, "cancelled")
    /\ cancelled' = cancelled + Cardinality(D)
    /\ invariant_failures' = invariant_failures + release_failures(D)

RowsIn(states) == {r \in Rows : rows[r].state \in states}
FreeRows == RowsIn({"FREE"})
ReadyRows == RowsIn({"READY"})

\* Committed rows that no lane holds: what abort, cancel_source and close drop.
AcceptedRows == RowsIn({"READY", "DELAYED"})

\* reserve_locked: the first FREE row r takes the next identity.
reserve_locked(r, row) ==
    /\ pending # event_capacity
    /\ next_row_identity # MaxU64
    /\ IsFirst(r, FreeRows)
    /\ rows' = [rows EXCEPT ![r] = row]
    /\ next_row_identity' = next_row_identity + 1
    /\ pending' = pending + 1
    /\ fate' = [fate EXCEPT ![next_row_identity + 1] = "live"]

NewRow(target, source, delay, send_id) ==
    [state |-> "RESERVED", target |-> target, source |-> source,
     sequence |-> 0, identity |-> next_row_identity + 1, delay |-> delay,
     deadline |-> 0, fire_won_cancel |-> FALSE, send_id |-> send_id]

\* A ticket joins an open journal.
HandOut(j, kind, index) ==
    /\ phase[j] = "open"
    /\ journal' = [journal EXCEPT
                     ![j] = Append(@, [kind |-> kind, row |-> index])]
    /\ UNCHANGED phase

-----------------------------------------------------------------------------
(* Endpoint administration.  "Attach/detach and router destroy must not    *)
(* race with running callers" (host_router.h): the host makes these calls  *)
(* one at a time.  Producers and the two lanes still run concurrently.     *)

HostTurn == aborting = NoRef /\ ~destroyed

\* Fault: closed is not looked at.
MayPublish_WhenClosed == HostTurn

MayPublish == HostTurn /\ ~closed

FirstUnusedSlot(s) ==
    IsFirst(s, {k \in Slots : /\ ~endpoints[k].live
                              /\ endpoints[k].generation # MaxU32})

\* A slot under its next generation; only an attached one is active.
NewEndpoint(s, session) ==
    [generation |-> endpoints[s].generation + 1, live |-> TRUE,
     active |-> (session # NoSession), session |-> session,
     parent |-> NoRef, accessible |-> FALSE]

reserve ==
    /\ MayPublish
    /\ \E s \in Slots :
         /\ FirstUnusedSlot(s)
         /\ endpoints' = [endpoints EXCEPT ![s] = NewEndpoint(s, NoSession)]
    /\ endpoint_count' = endpoint_count + 1
    /\ UNCHANGED <<invoke_routes, invoke_count, ledger, stamps, intents,
                   lanes, journals, outcomes, life, now>>

\* An endpoint publishes a location only while it has a Session.
Publishes(s, session) ==
    /\ endpoints[s].session # NoSession
    /\ \/ endpoints[s].session = session
       \/ LocationOf[endpoints[s].session] = LocationOf[session]

activate(ref, session) ==
    /\ MayPublish
    /\ matches(ref)
    /\ ~endpoints[ref.slot].active
    /\ endpoints[ref.slot].session = NoSession
    /\ \A s \in Slots : ~(endpoints[s].active /\ Publishes(s, session))
    /\ endpoints' = [endpoints EXCEPT ![ref.slot].session = session,
                                      ![ref.slot].active = TRUE]
    /\ UNCHANGED <<endpoint_count, invoke_routes, invoke_count, ledger,
                   stamps, intents, lanes, journals, outcomes, life, now>>

attach(session) ==
    /\ MayPublish
    /\ \A s \in Slots : ~(endpoints[s].live /\ Publishes(s, session))
    /\ \E s \in Slots :
         /\ FirstUnusedSlot(s)
         /\ endpoints' = [endpoints EXCEPT ![s] = NewEndpoint(s, session)]
    /\ endpoint_count' = endpoint_count + 1
    /\ UNCHANGED <<invoke_routes, invoke_count, ledger, stamps, intents,
                   lanes, journals, outcomes, life, now>>

\* Fault: detach does not look at the invoke routes.
Unborrowed_IgnoresRoutes(ref) ==
    /\ \A r \in Rows : rows[r].state # "FREE" =>
          ~refs_equal(rows[r].target, ref) /\ ~refs_equal(rows[r].source, ref)
    /\ \A c \in CancelRows : cancel_rows[c].in_use =>
          ~refs_equal(cancel_rows[c].source, ref)
    /\ \A s \in Slots : endpoints[s].live =>
          ~refs_equal(endpoints[s].parent, ref)

\* Nothing borrows the endpoint any more.
Unborrowed(ref) ==
    /\ \A r \in Rows : rows[r].state # "FREE" =>
          ~refs_equal(rows[r].target, ref) /\ ~refs_equal(rows[r].source, ref)
    /\ \A c \in CancelRows : cancel_rows[c].in_use =>
          ~refs_equal(cancel_rows[c].source, ref)
    /\ \A s \in Slots : endpoints[s].live =>
          ~refs_equal(endpoints[s].parent, ref)
    /\ \A i \in Routes : invoke_routes[i].live =>
          /\ ~refs_equal(invoke_routes[i].owner, ref)
          /\ ~refs_equal(invoke_routes[i].target, ref)

detach_endpoint(ref) ==
    /\ endpoints' = [endpoints EXCEPT
         ![ref.slot] = [BlankEndpoint EXCEPT !.generation = ref.generation]]
    /\ endpoint_count' = endpoint_count - 1

detach(ref) ==
    /\ HostTurn
    /\ matches(ref)
    /\ Unborrowed(ref)
    /\ detach_endpoint(ref)
    /\ UNCHANGED <<invoke_routes, invoke_count, ledger, stamps, intents,
                   lanes, journals, outcomes, life, now>>

\* The rows of an endpoint, as source or as target.
Involves(row, ref) ==
    refs_equal(row.source, ref) \/ refs_equal(row.target, ref)

\* abort, first section: nothing is dropped while a ticket or a lane still
\* holds a row of the endpoint.
abort(ref) ==
    /\ HostTurn
    /\ matches(ref)
    /\ ~endpoints[ref.slot].active
    /\ \A r \in Rows : Involves(rows[r], ref) =>
          rows[r].state \notin {"RESERVED", "INFLIGHT", "FIRING"}
    /\ cancel_rows_locked({r \in AcceptedRows :
                             Involves(rows[r], ref)})
    /\ aborting' = ref
    /\ UNCHANGED <<topology, stamps, intents, drain, timer, journals,
                   discarded, delivered, timer_done_failed, life, now>>

\* abort, second section: the call of detach, which may still refuse.
abort_detach ==
    /\ aborting # NoRef
    /\ aborting' = NoRef
    /\ IF matches(aborting) /\ Unborrowed(aborting)
       THEN detach_endpoint(aborting)
       ELSE UNCHANGED <<endpoints, endpoint_count>>
    /\ UNCHANGED <<invoke_routes, invoke_count, ledger, stamps, intents,
                   drain, timer, journals, outcomes, life, now>>

\* The ancestors the cycle check visits, starting at the proposed parent.
AncestorsFrom(parent) ==
    LET up[n \in 0 .. endpoint_capacity] ==
          IF n = 0 THEN parent
          ELSE IF up[n - 1].generation = 0 THEN NoRef
               ELSE endpoints[up[n - 1].slot].parent
    IN  up

\* Fault: only the parent itself is compared with the child.
MayAdopt_Unwalked(child, parent) ==
    ~refs_equal(child, parent) /\ matches(parent)

MayAdopt(child, parent) ==
    LET up == AncestorsFrom(parent)
    IN  /\ ~refs_equal(child, parent)
        /\ matches(parent)
        /\ \A n \in 0 .. endpoint_capacity - 1 : up[n].generation # 0 =>
              ~refs_equal(up[n], child) /\ matches(up[n])
        /\ up[endpoint_capacity].generation = 0

set_parent(child, parent) ==
    /\ MayPublish
    /\ matches(child)
    /\ parent = NoRef \/ MayAdopt(child, parent)
    /\ endpoints' = [endpoints EXCEPT ![child.slot].parent = parent]
    /\ UNCHANGED <<endpoint_count, invoke_routes, invoke_count, ledger,
                   stamps, intents, lanes, journals, outcomes, life, now>>

set_external_access(ref, enabled) ==
    /\ MayPublish
    /\ matches(ref)
    /\ endpoints' = [endpoints EXCEPT ![ref.slot].accessible = enabled]
    /\ UNCHANGED <<endpoint_count, invoke_routes, invoke_count, ledger,
                   stamps, intents, lanes, journals, outcomes, life, now>>

IsRoute(i, owner, id) ==
    /\ invoke_routes[i].live
    /\ refs_equal(invoke_routes[i].owner, owner)
    /\ invoke_routes[i].id = id

bind_invoke(source, id, target) ==
    /\ MayPublish
    /\ ~refs_equal(source, target)
    /\ matches(source) /\ matches(target)
    /\ \A i \in Routes : ~IsRoute(i, source, id)
    /\ \E i \in Routes :
         /\ IsFirst(i, {k \in Routes : ~invoke_routes[k].live})
         /\ invoke_routes' = [invoke_routes EXCEPT
              ![i] = [live |-> TRUE, owner |-> source, id |-> id,
                      target |-> target]]
    /\ invoke_count' = invoke_count + 1
    /\ UNCHANGED <<endpoints, endpoint_count, ledger, stamps, intents, lanes,
                   journals, outcomes, life, now>>

\* unbind works on a closed router too.
unbind_invoke(source, id) ==
    /\ HostTurn
    /\ matches(source)
    /\ \E i \in Routes :
         /\ IsFirst(i, {k \in Routes : IsRoute(k, source, id)})
         /\ invoke_routes' = [invoke_routes EXCEPT ![i] = FreeRoute]
    /\ invoke_count' = invoke_count - 1
    /\ UNCHANGED <<endpoints, endpoint_count, ledger, stamps, intents, lanes,
                   journals, outcomes, life, now>>

-----------------------------------------------------------------------------
(* Admission of Events and of cancellations. *)

Open == ~destroyed /\ ~closed

\* The endpoint a target string means to a live source; NoRef if none.  An
\* invoke alias comes before a global location with the same spelling.
AliasOf(source, target) ==
    {i \in Routes : IsRoute(i, source, target)}
PublicAt(target) ==
    {s \in Slots : /\ endpoints[s].live /\ endpoints[s].accessible
                   /\ endpoints[s].session # NoSession
                   /\ LocationOf[endpoints[s].session] = target}

resolve_relative(source, target) ==
    IF target = Self THEN source
    ELSE IF target = Parent THEN endpoints[source.slot].parent
    ELSE IF AliasOf(source, target) = {} THEN NoRef
    ELSE invoke_routes[CHOOSE i \in Routes :
                         IsFirst(i, AliasOf(source, target))].target

resolve_locked(source, target) ==
    LET relative == resolve_relative(source, target)
    IN  IF relative.generation = 0 /\ PublicAt(target) # {}
        THEN LET s == CHOOSE k \in Slots : IsFirst(k, PublicAt(target))
             IN  [slot |-> s, generation |-> endpoints[s].generation]
        ELSE relative

\* Fault: sends that are still tickets are not seen.
PendingDelayed_CommittedOnly(source, send_id) ==
    {r \in Rows : /\ rows[r].delay # 0
                  /\ rows[r].state \in {"DELAYED", "FIRING"}
                  /\ refs_equal(rows[r].source, source)
                  /\ rows[r].send_id = send_id}

\* A delayed send of this source and id that has not fired yet.
PendingDelayed(source, send_id) ==
    {r \in Rows : /\ rows[r].delay # 0
                  /\ rows[r].state \in {"RESERVED", "DELAYED", "FIRING"}
                  /\ refs_equal(rows[r].source, source)
                  /\ rows[r].send_id = send_id}

prepare_target(source, target, delay, send_id) ==
    /\ Open
    /\ matches(source)
    /\ delay # 0 => /\ send_id # NoId
                    /\ timer_pending < timer_capacity
                    /\ PendingDelayed(source, send_id) = {}
    /\ \E r \in Rows, ref \in Refs :
         /\ ref = resolve_locked(source, target)
         /\ matches(ref)
         /\ reserve_locked(r, NewRow(ref, source, delay, send_id))
         /\ HandOut(source.slot, "send", r)
    /\ reserved' = reserved + 1
    /\ timer_pending' = IF delay # 0 THEN timer_pending + 1 ELSE timer_pending
    /\ UNCHANGED <<topology, invariant_failures, next_sequence, intents, lanes,
                   discarded, delivered, cancelled, timer_done_failed, life,
                   now>>

\* scxml_host_router_prepare: a ticket without a source.
prepare(target) ==
    /\ Open
    /\ matches(target)
    /\ \E r \in Rows :
         /\ reserve_locked(r, NewRow(target, NoRef, 0, NoId))
         /\ HandOut(endpoint_capacity, "send", r)
    /\ reserved' = reserved + 1
    /\ UNCHANGED <<topology, timer_pending, invariant_failures, next_sequence,
                   intents, lanes, discarded, delivered, cancelled,
                   timer_done_failed, life, now>>

\* prepare and commit in one critical section.
enqueue(target) ==
    /\ Open
    /\ matches(target)
    /\ next_sequence # MaxU64
    /\ \E r \in Rows :
         reserve_locked(r, [NewRow(target, NoRef, 0, NoId) EXCEPT
                              !.state = "READY",
                              !.sequence = next_sequence + 1])
    /\ next_sequence' = next_sequence + 1
    /\ UNCHANGED <<topology, reserved, timer_pending, invariant_failures,
                   intents, lanes, journals, discarded, delivered, cancelled,
                   timer_done_failed, life, now>>

\* The rows prepare_cancel looks through: any delayed row of the source and
\* id that is not FREE, the fired ones included; it takes the first.
Cancellable(source, send_id) ==
    {r \in Rows : /\ rows[r].delay # 0
                  /\ rows[r].state # "FREE"
                  /\ refs_equal(rows[r].source, source)
                  /\ rows[r].send_id = send_id}

prepare_cancel(source, send_id) ==
    /\ Open
    /\ cancel_capacity # 0
    /\ matches(source)
    /\ cancel_pending < cancel_capacity
    /\ \E r \in Rows, c \in CancelRows :
         /\ IsFirst(r, Cancellable(source, send_id))
         /\ IsFirst(c, {k \in CancelRows : ~cancel_rows[k].in_use})
         /\ cancel_rows' = [cancel_rows EXCEPT
              ![c] = [in_use |-> TRUE, target |-> r, source |-> source,
                      target_identity |-> rows[r].identity]]
         /\ HandOut(source.slot, "cancel", c)
    /\ cancel_pending' = cancel_pending + 1
    /\ UNCHANGED <<topology, ledger, stamps, lanes, outcomes, life, now>>

-----------------------------------------------------------------------------
(* Settlement of the tickets of one microstep. *)

\* CFlow ends the microstep of a journal: commit it, or roll it back.
EndMicrostep(j, how) ==
    /\ phase[j] = "open"
    /\ journal[j] # <<>>
    /\ phase' = [phase EXCEPT ![j] = how]
    /\ UNCHANGED <<topology, ledger, stamps, intents, lanes, journal,
                   outcomes, life, now>>

\* The next ticket of j is this one, and the settling call consumes it.
NextTicket(j, how, kind, index) ==
    /\ phase[j] = how
    /\ journal[j] # <<>>
    /\ Head(journal[j]) = [kind |-> kind, row |-> index]
    /\ journal' = [journal EXCEPT ![j] = Tail(@)]
    /\ phase' = [phase EXCEPT ![j] = IF Tail(journal[j]) = <<>>
                                     THEN "open" ELSE @]

\* commit_locked on a row that is no longer RESERVED only counts a failure.
commit_failed ==
    /\ invariant_failures' = invariant_failures + 1
    /\ UNCHANGED <<rows, pending, reserved, timer_pending, stamps, fate,
                   cancelled>>

commit_publishes(r) ==
    /\ reserved' = reserved - 1
    /\ next_sequence' = next_sequence + 1
    /\ rows' = [rows EXCEPT
         ![r].sequence = next_sequence + 1,
         ![r].deadline = IF rows[r].delay # 0 THEN now + rows[r].delay ELSE @,
         ![r].state = IF rows[r].delay # 0 THEN "DELAYED" ELSE "READY"]
    /\ UNCHANGED <<pending, timer_pending, invariant_failures,
                   next_row_identity, fate, cancelled>>

\* Fault: a ticket that commits after close still publishes.
commit_locked_IgnoresClose(r) ==
    IF rows[r].state # "RESERVED" THEN commit_failed
    ELSE IF ~matches(rows[r].target) \/ next_sequence = MaxU64
    THEN cancel_rows_locked({r}) /\ UNCHANGED stamps
    ELSE commit_publishes(r)

commit_locked(r) ==
    IF rows[r].state # "RESERVED" THEN commit_failed
    ELSE IF closed \/ ~matches(rows[r].target) \/ next_sequence = MaxU64
    THEN cancel_rows_locked({r}) /\ UNCHANGED stamps
    ELSE commit_publishes(r)

ticket_commit(j, r) ==
    /\ NextTicket(j, "commit", "send", r)
    /\ commit_locked(r)
    /\ UNCHANGED <<topology, intents, lanes, discarded, delivered,
                   timer_done_failed, life, now>>

discard_locked(r) ==
    IF rows[r].state # "RESERVED"
    THEN /\ invariant_failures' = invariant_failures + 1
         /\ UNCHANGED <<rows, pending, reserved, timer_pending, fate, discarded>>
    ELSE /\ release_locked({r}, "discarded")
         /\ discarded' = discarded + 1
         /\ invariant_failures' = invariant_failures + release_failures({r})

ticket_discard(j, r) ==
    /\ NextTicket(j, "discard", "send", r)
    /\ discard_locked(r)
    /\ UNCHANGED <<topology, stamps, intents, lanes, delivered, cancelled,
                   timer_done_failed, life, now>>

CancelReleasable(c) == cancel_rows[c].in_use /\ cancel_pending # 0

cancel_release_locked(c) ==
    IF CancelReleasable(c)
    THEN /\ cancel_rows' = [cancel_rows EXCEPT ![c] = FreeCancel]
         /\ cancel_pending' = cancel_pending - 1
    ELSE UNCHANGED intents

cancel_release_failures(c) == IF CancelReleasable(c) THEN 0 ELSE 1

\* Fault: the identity of the row is not compared.
StillTargets_AnyIdentity(intent) == rows[intent.target].state # "FREE"

\* The row an intent was prepared for, unless the slot has been reused.
StillTargets(intent) == rows[intent.target].identity = intent.target_identity

Revocable(intent) ==
    /\ StillTargets(intent)
    /\ refs_equal(rows[intent.target].source, intent.source)
    /\ rows[intent.target].state \in {"RESERVED", "DELAYED"}

\* cancel_commit on an intent in use: it revokes the row, or the deadline
\* claim has won and only a witness is left on a FIRING row.
cancel_revokes(c) ==
    /\ release_locked({cancel_rows[c].target}, "cancelled")
    /\ cancelled' = cancelled + 1
    /\ invariant_failures' = invariant_failures
         + release_failures({cancel_rows[c].target}) + cancel_release_failures(c)

cancel_too_late(c) ==
    LET r == cancel_rows[c].target
    IN  /\ rows' = IF StillTargets(cancel_rows[c]) /\ rows[r].state = "FIRING"
                   THEN [rows EXCEPT ![r].fire_won_cancel = TRUE] ELSE rows
        /\ invariant_failures' = invariant_failures + cancel_release_failures(c)
        /\ UNCHANGED <<pending, reserved, timer_pending, cancelled, fate>>

cancel_commit(j, c) ==
    /\ NextTicket(j, "commit", "cancel", c)
    /\ IF cancel_rows[c].in_use /\ Revocable(cancel_rows[c])
       THEN cancel_revokes(c) ELSE cancel_too_late(c)
    /\ cancel_release_locked(c)
    /\ UNCHANGED <<topology, stamps, lanes, discarded, delivered,
                   timer_done_failed, life, now>>

cancel_discard(j, c) ==
    /\ NextTicket(j, "discard", "cancel", c)
    /\ cancel_release_locked(c)
    /\ invariant_failures' = invariant_failures + cancel_release_failures(c)
    /\ UNCHANGED <<topology, rows, pending, reserved, timer_pending, stamps,
                   lanes, outcomes, life, now>>

-----------------------------------------------------------------------------
(* scxml_host_router_run_due: one host call claims due rows one by one.    *)
(* While it has dropped the mutex it asks the source Session to retire the *)
(* sendid; what the Session answers is not the router's to know.           *)

run_due(max_fires) ==
    /\ Open
    /\ timer_capacity # 0
    /\ timer.pc = "idle"
    /\ timer' = [IdleTimer EXCEPT !.pc = "scan", !.budget = max_fires]
    /\ UNCHANGED <<topology, ledger, stamps, intents, drain, aborting,
                   journals, outcomes, life, now>>

Due(r) ==
    /\ rows[r].state = "DELAYED"
    /\ rows[r].deadline <= now
    /\ matches(rows[r].source)
    /\ endpoints[rows[r].source.slot].active

Earliest(r) ==
    /\ Due(r)
    /\ \A q \in Rows \ {r} : Due(q) =>
         \/ rows[r].deadline < rows[q].deadline
         \/ /\ rows[r].deadline = rows[q].deadline
            /\ rows[r].sequence < rows[q].sequence

run_due_claim(r) ==
    /\ timer.pc = "scan"
    /\ ~closed
    /\ Earliest(r)
    /\ rows' = [rows EXCEPT ![r].state = "FIRING"]
    /\ timer' = [timer EXCEPT !.pc = "busy", !.row = r]
    /\ UNCHANGED <<topology, pending, reserved, timer_pending,
                   invariant_failures, stamps, intents, drain, aborting,
                   journals, outcomes, life, now>>

run_due_stop ==
    /\ timer.pc = "scan"
    /\ closed \/ \A r \in Rows : ~Due(r)
    /\ timer' = [timer EXCEPT !.pc = "exit"]
    /\ UNCHANGED <<topology, ledger, stamps, intents, drain, aborting,
                   journals, outcomes, life, now>>

\* scxml_session_report_send_done, outside the mutex.
run_due_report(settled) ==
    /\ timer.pc = "busy"
    /\ timer' = [timer EXCEPT !.pc = "reported", !.settled = settled]
    /\ UNCHANGED <<topology, ledger, stamps, intents, drain, aborting,
                   journals, outcomes, life, now>>

\* A cancel of this very row is committed, or still in the journal.
CancelRaced(r) ==
    \/ rows[r].fire_won_cancel
    \/ \E c \in CancelRows : /\ cancel_rows[c].in_use
                             /\ cancel_rows[c].target = r
                             /\ cancel_rows[c].target_identity = rows[r].identity

Acknowledged == timer.settled \/ CancelRaced(timer.row)

fire_failed ==
    /\ timer_done_failed' = IF Acknowledged THEN timer_done_failed
                            ELSE timer_done_failed + 1
    /\ cancel_rows_locked({timer.row})
    /\ timer' = [timer EXCEPT !.pc = IF Acknowledged THEN "scan" ELSE "exit",
                              !.row = 0, !.settled = FALSE]

fire_publishes ==
    /\ rows' = [rows EXCEPT ![timer.row].state = "READY"]
    /\ timer_pending' = timer_pending - 1
    /\ timer' = [timer EXCEPT !.pc = IF timer.budget = 1 THEN "exit" ELSE "scan",
                              !.row = 0, !.settled = FALSE, !.budget = @ - 1]
    /\ UNCHANGED <<pending, reserved, invariant_failures, cancelled, fate,
                   timer_done_failed>>

\* The two answers to a broken ledger: leave the row, or give it up.
fire_broken ==
    LET D == {timer.row} \cap RowsIn({"FIRING"})
    IN  /\ timer' = [timer EXCEPT !.pc = "exit", !.row = 0, !.settled = FALSE]
        /\ release_locked(D, "cancelled")
        /\ invariant_failures' = invariant_failures + 1 + release_failures(D)
        /\ UNCHANGED <<cancelled, timer_done_failed>>

run_due_settle ==
    /\ timer.pc = "reported"
    /\ IF rows[timer.row].state # "FIRING" THEN fire_broken
       ELSE IF ~Acknowledged \/ closed THEN fire_failed
       ELSE IF timer_pending = 0 THEN fire_broken
       ELSE fire_publishes
    /\ UNCHANGED <<topology, stamps, intents, drain, aborting, journals,
                   discarded, delivered, life, now>>

\* Fault: timer_running is not reset.
run_due_return_KeepsRunning ==
    timer.pc = "exit" /\ UNCHANGED vars

run_due_return ==
    /\ timer.pc = "exit"
    /\ timer' = IdleTimer
    /\ UNCHANGED <<topology, ledger, stamps, intents, drain, aborting,
                   journals, outcomes, life, now>>

-----------------------------------------------------------------------------
(* scxml_host_router_drain: one host call hands READY rows to the Session  *)
(* FIFOs in commit order, the mutex dropped during each admission.         *)

drain_begin(max_events) ==
    /\ Open
    /\ drain.pc = "idle"
    /\ drain' = [IdleDrain EXCEPT !.pc = "scan", !.budget = max_events]
    /\ UNCHANGED <<topology, ledger, stamps, intents, timer, aborting,
                   journals, outcomes, life, now>>

IsHead(r) ==
    /\ r \in ReadyRows
    /\ \A q \in ReadyRows : rows[r].sequence <= rows[q].sequence

Deliverable(row) ==
    /\ matches(row.target)
    /\ endpoints[row.target.slot].active
    /\ row.source.generation # 0 =>
         matches(row.source) /\ endpoints[row.source.slot].active

drain_claim(r) ==
    /\ drain.pc = "scan"
    /\ ~closed
    /\ IsHead(r)
    /\ Deliverable(rows[r])
    /\ rows' = [rows EXCEPT ![r].state = "INFLIGHT"]
    /\ drain' = [drain EXCEPT !.pc = "busy", !.row = r]
    /\ UNCHANGED <<topology, pending, reserved, timer_pending,
                   invariant_failures, stamps, intents, timer, aborting,
                   journals, outcomes, life, now>>

\* Closed, nothing READY, or a head that cannot be delivered now.
drain_stop ==
    /\ drain.pc = "scan"
    /\ closed \/ \A r \in Rows : IsHead(r) => ~Deliverable(rows[r])
    /\ drain' = [drain EXCEPT !.pc = "exit"]
    /\ UNCHANGED <<topology, ledger, stamps, intents, timer, aborting,
                   journals, outcomes, life, now>>

\* The Session's FIFO took the Event.
admitted ==
    /\ release_locked({drain.row}, "delivered")
    /\ invariant_failures' = invariant_failures + release_failures({drain.row})
    /\ delivered' = delivered + 1
    /\ drain' = [drain EXCEPT !.pc = IF drain.budget = 1 THEN "exit" ELSE "scan",
                              !.row = 0, !.budget = @ - 1]
    /\ UNCHANGED cancelled

\* Fault: the refused row is made READY on a closed router too.
refused_Republishes ==
    /\ drain' = [drain EXCEPT !.pc = "exit", !.row = 0]
    /\ rows' = [rows EXCEPT ![drain.row].state = "READY"]
    /\ UNCHANGED <<delivered, pending, reserved, timer_pending,
                   invariant_failures, cancelled, fate>>

\* It did not (FULL or an error): the row stays READY unless the router was
\* closed meanwhile.
refused ==
    /\ drain' = [drain EXCEPT !.pc = "exit", !.row = 0]
    /\ UNCHANGED delivered
    /\ IF closed THEN cancel_rows_locked({drain.row})
       ELSE /\ rows' = [rows EXCEPT ![drain.row].state = "READY"]
            /\ UNCHANGED <<pending, reserved, timer_pending,
                           invariant_failures, cancelled, fate>>

\* A row that is not INFLIGHT any more only counts a failure.
admission_lost ==
    /\ drain' = [drain EXCEPT !.pc = "exit", !.row = 0]
    /\ invariant_failures' = invariant_failures + 1
    /\ UNCHANGED <<rows, pending, reserved, timer_pending, delivered,
                   cancelled, fate>>

drain_settle(ok) ==
    /\ drain.pc = "busy"
    /\ IF rows[drain.row].state # "INFLIGHT" THEN admission_lost
       ELSE IF ok THEN admitted ELSE refused
    /\ UNCHANGED <<topology, stamps, intents, timer, aborting, journals,
                   discarded, timer_done_failed, life, now>>

drain_return ==
    /\ drain.pc = "exit"
    /\ drain' = IdleDrain
    /\ UNCHANGED <<topology, ledger, stamps, intents, timer, aborting,
                   journals, outcomes, life, now>>

-----------------------------------------------------------------------------
(* Bulk cancellation, close and destroy. *)

\* scxml_host_router_cancel: the READY rows of one target.
cancel(target) ==
    /\ ~destroyed
    /\ matches(target)
    /\ cancel_rows_locked({r \in ReadyRows : rows[r].target = target})
    /\ UNCHANGED <<topology, stamps, intents, lanes, journals, discarded,
                   delivered, timer_done_failed, life, now>>

cancel_source(source) ==
    /\ ~destroyed
    /\ matches(source)
    /\ cancel_rows_locked({r \in AcceptedRows :
                             refs_equal(rows[r].source, source)})
    /\ UNCHANGED <<topology, stamps, intents, lanes, journals, discarded,
                   delivered, timer_done_failed, life, now>>

close ==
    /\ Open
    /\ closed' = TRUE
    /\ cancel_rows_locked(AcceptedRows)
    /\ UNCHANGED <<topology, stamps, intents, lanes, journals, discarded,
                   delivered, timer_done_failed, destroyed, now>>

is_quiescent ==
    /\ closed
    /\ drain.pc = "idle" /\ timer.pc = "idle"
    /\ pending = 0 /\ timer_pending = 0 /\ cancel_pending = 0
    /\ endpoint_count = 0 /\ invoke_count = 0

destroy ==
    /\ HostTurn
    /\ is_quiescent
    /\ destroyed' = TRUE
    /\ UNCHANGED <<topology, ledger, stamps, intents, lanes, journals,
                   outcomes, closed, now>>

\* The CFlow clock.  Its owner serialises it with run_due and with commit.
Tick ==
    /\ timer.pc = "idle"
    /\ ~destroyed
    /\ now < MaxTime
    /\ now' = now + 1
    /\ UNCHANGED <<topology, ledger, stamps, intents, lanes, journals,
                   outcomes, life>>

\* A destroyed router stays destroyed.
Finished == destroyed /\ UNCHANGED vars

-----------------------------------------------------------------------------
Sends == ({0} \X {NoId}) \cup (Delays \X SendIds)

Administer ==
    \/ reserve
    \/ \E s \in Sessions : attach(s)
    \/ \E ref \in Refs, s \in Sessions : activate(ref, s)
    \/ \E ref \in Refs : abort(ref)
    \/ abort_detach
    \/ \E ref \in Refs : detach(ref)
    \/ \E child, parent \in Refs : set_parent(child, parent)
    \/ \E ref \in Refs, b \in BOOLEAN : set_external_access(ref, b)
    \/ \E owner, target \in Refs, id \in InvokeIds :
          bind_invoke(owner, id, target)
    \/ \E owner \in Refs, id \in InvokeIds : unbind_invoke(owner, id)

Produce ==
    \/ \E source \in Refs, target \in Targets, d \in Sends :
          prepare_target(source, target, d[1], d[2])
    \/ \E source \in Refs, id \in SendIds : prepare_cancel(source, id)
    \/ \E target \in Refs : prepare(target)
    \/ \E target \in Refs : enqueue(target)

Settle ==
    \/ \E j \in Journals : EndMicrostep(j, "commit")
    \/ \E j \in Journals : EndMicrostep(j, "discard")
    \/ \E j \in Journals, r \in Rows : ticket_commit(j, r)
    \/ \E j \in Journals, r \in Rows : ticket_discard(j, r)
    \/ \E j \in Journals, c \in CancelRows : cancel_commit(j, c)
    \/ \E j \in Journals, c \in CancelRows : cancel_discard(j, c)

RunDueLane ==
    \/ \E r \in Rows : run_due_claim(r)
    \/ run_due_stop
    \/ run_due_settle
    \/ run_due_return

DrainLane ==
    \/ \E r \in Rows : drain_claim(r)
    \/ drain_stop
    \/ \E ok \in BOOLEAN : drain_settle(ok)
    \/ drain_return

HostCalls ==
    \/ \E n \in 1 .. MaxBatch : run_due(n)
    \/ \E n \in 1 .. MaxBatch : drain_begin(n)
    \/ \E ref \in Refs : cancel(ref)
    \/ \E ref \in Refs : cancel_source(ref)
    \/ close
    \/ destroy
    \/ Tick

Next ==
    \/ Administer
    \/ Produce
    \/ Settle
    \/ RunDueLane
    \/ \E settled \in BOOLEAN : run_due_report(settled)
    \/ DrainLane
    \/ HostCalls
    \/ Finished

Spec == Init /\ [][Next]_vars

(***************************************************************************)
(* Fairness.  A microstep ends and CFlow settles its tickets; a critical   *)
(* section that was entered is left, and the calls made outside the mutex  *)
(* return; the host keeps calling run_due and drain while the router is    *)
(* open, and takes its relations and endpoints down once it is closed.     *)
(* The FIFO of a Session that is asked again and again admits at last.     *)
(***************************************************************************)
SettleJournal(j) ==
    \/ EndMicrostep(j, "commit") \/ EndMicrostep(j, "discard")
    \/ \E r \in Rows : ticket_commit(j, r) \/ ticket_discard(j, r)
    \/ \E c \in CancelRows : cancel_commit(j, c) \/ cancel_discard(j, c)

WindDown ==
    /\ closed
    /\ \/ \E ref \in Refs : detach(ref)
       \/ \E owner \in Refs, id \in InvokeIds : unbind_invoke(owner, id)

LaneFairness ==
    /\ \A j \in Journals : WF_vars(SettleJournal(j))
    /\ WF_vars(abort_detach)
    /\ WF_vars(RunDueLane)
    /\ WF_vars(\E settled \in BOOLEAN : run_due_report(settled))
    /\ WF_vars(DrainLane)
    /\ SF_vars(drain_settle(TRUE))
    /\ WF_vars(\E n \in 1 .. MaxBatch : drain_begin(n))
    /\ SF_vars(WindDown)

Fairness == LaneFairness /\ WF_vars(\E n \in 1 .. MaxBatch : run_due(n))

FairSpec == Spec /\ Fairness

-----------------------------------------------------------------------------
(* What the router promises. *)

\* The counters the code keeps beside its tables, and trusts for admission
\* and for quiescence, are the sizes of what they count.
CountersMatchTables ==
    /\ pending = Cardinality(UsedRows)
    /\ reserved = Cardinality(ReservedRows)
    /\ timer_pending = Cardinality(TimerRows)
    /\ cancel_pending = Cardinality({c \in CancelRows : cancel_rows[c].in_use})
    /\ endpoint_count = Cardinality({s \in Slots : endpoints[s].live})
    /\ invoke_count = Cardinality({i \in Routes : invoke_routes[i].live})

\* The code's own assertion counter never moves: a ticket always finds its
\* row RESERVED, a lane always finds the row it claimed, no counter
\* underflows, and a row or intent is free whenever the counters say so.
NoInvariantFailure ==
    /\ invariant_failures = 0
    /\ pending # event_capacity => FreeRows # {}
    /\ cancel_pending < cancel_capacity =>
          \E c \in CancelRows : ~cancel_rows[c].in_use

\* prepared = pending + discarded + delivered + cancelled, in the counters
\* get_stats publishes: no accepted Event is lost or counted twice.
Accounting ==
    next_row_identity = pending + discarded + delivered + cancelled

\* A live identity is held by exactly one row, and by none once it ended.
HeldByOneRow ==
    \A i \in 1 .. MaxU64 :
       Cardinality({r \in Rows : rows[r].identity = i})
          = (IF fate[i] = "live" THEN 1 ELSE 0)

\* Everything that names an endpoint names its current generation: rows and
\* intents until they settle, parents and aliases until they are unlinked.
BorrowsPinned ==
    /\ \A r \in Rows : rows[r].state # "FREE" =>
          /\ matches(rows[r].target)
          /\ rows[r].source.generation # 0 => matches(rows[r].source)
    /\ \A c \in CancelRows :
          cancel_rows[c].in_use => matches(cancel_rows[c].source)
    /\ \A s \in Slots : endpoints[s].parent.generation # 0 =>
          endpoints[s].live /\ matches(endpoints[s].parent)
    /\ \A i \in Routes : invoke_routes[i].live =>
          matches(invoke_routes[i].owner) /\ matches(invoke_routes[i].target)

\* While a lane has dropped the mutex the Session it borrows stays published.
LaneBorrowsSession ==
    /\ drain.pc = "busy" =>
          /\ rows[drain.row].state = "INFLIGHT"
          /\ endpoints[rows[drain.row].target.slot].session # NoSession
    /\ timer.pc \in {"busy", "reported"} =>
          /\ rows[timer.row].state = "FIRING"
          /\ endpoints[rows[timer.row].source.slot].session # NoSession

\* No parent cycle: the walk up from any endpoint ends.  Otherwise two
\* endpoints would pin each other and the router could never quiesce.
ParentForest ==
    \A s \in Slots :
       AncestorsFrom(endpoints[s].parent)[endpoint_capacity] = NoRef

\* Only one unfired delayed send of a source bears a given sendid.
UnfiredIdsUnique ==
    \A r, q \in Rows :
       /\ CountsTimer(rows[r]) /\ CountsTimer(rows[q])
       /\ rows[r].source = rows[q].source
       /\ rows[r].send_id = rows[q].send_id
       => r = q

\* A delayed Event becomes deliverable only at its deadline.
NeverEarly ==
    \A r \in Rows :
       rows[r].delay # 0 /\ rows[r].state \in {"FIRING", "READY", "INFLIGHT"}
          => rows[r].deadline <= now

\* A closed router publishes nothing again: what is left is held by a ticket
\* or by a lane, and settles.
ClosedLedger ==
    closed => AcceptedRows = {}

\* The tables are well formed, the counters the code trusts are their sizes,
\* and a reference that is held names what it named when it was taken.
TablesSound == TypeOK /\ CountersMatchTables /\ BorrowsPinned

\* No accepted Event is lost or counted twice, and a closed router publishes
\* none.
LedgerExact == Accounting /\ ClosedLedger

\* The code's checks stay silent, a row stays with the Event and the Session it
\* was claimed for, and a delayed Event has one row and waits for its deadline.
LedgerSound ==
    /\ NoInvariantFailure /\ HeldByOneRow /\ LaneBorrowsSession
    /\ UnfiredIdsUnique /\ NeverEarly

\* cancel_commit withdraws the Event its intent was prepared for or none,
\* although the row may have been released and reused since (ABA).
CancelRevokesItsTarget ==
    \A c \in CancelRows, i \in 1 .. MaxU64 :
         /\ cancel_rows[c].in_use /\ ~cancel_rows'[c].in_use
         /\ fate[i] = "live" /\ fate'[i] = "cancelled"
         => i = cancel_rows[c].target_identity

\* Events without a delay are delivered in the order of their commits.
DeliveredInCommitOrder ==
    \A r, q \in Rows :
         /\ rows[r].identity # 0 /\ rows[r].delay = 0
         /\ fate[rows[r].identity] = "live"
         /\ fate'[rows[r].identity] = "delivered"
         /\ rows[q].delay = 0 /\ rows[q].state \in {"READY", "INFLIGHT"}
         => rows[r].sequence <= rows[q].sequence

\* A step cancels no Event but the one a cancel was meant for, and delivers
\* none before an earlier one.
LedgerSteps == [][CancelRevokesItsTarget /\ DeliveredInCommitOrder]_vars

\* destroy checks for quiescence and frees afterwards, in two steps: nothing
\* may revive the router in between.
QuiescenceIsStable == [][is_quiescent => is_quiescent']_vars

\* Once the host closes the router, which stays closed, it can always take it
\* down: the journals and lanes settle, and no borrow, alias or parent link
\* blocks the last detach.
CloseQuiesces == []<>(closed => is_quiescent)

\* Due Events of published sources are claimed by run_due or withdrawn: again
\* and again none waits.  Events are finitely many here, so this is to say that
\* each is claimed; none sits past its deadline behind other due rows.
DueIsClaimed == []<>(\A r \in Rows : ~Due(r))

\* If in the end every live endpoint is published, committed Events end: again
\* and again none is left.  A FULL Session delays the head of the ledger, and
\* never starves it or what is behind it.
ReadyEventsEnd ==
    <>[](\A s \in Slots : endpoints[s].live => endpoints[s].active)
       => []<>(\A r \in Rows : rows[r].state \notin {"READY", "INFLIGHT"})

\* What the host needs of a router it goes on driving: deadlines are kept and
\* committed Events end.
RouterProgress == DueIsClaimed /\ ReadyEventsEnd
=============================================================================
