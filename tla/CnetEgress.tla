----------------------------- MODULE CnetEgress -----------------------------
(***************************************************************************)
(* The outbound raw-byte bridge from SCXML Sessions to one CNet connection *)
(* (scxml_cnet_egress.c).  Three parties share its rows under one lock:    *)
(*                                                                         *)
(*   - the CFlow executor reserves a row in prepare_send and settles the   *)
(*     ticket with ticket_commit or ticket_discard;                        *)
(*   - the CNet owner thread pumps READY rows into CNet and is called back *)
(*     by CNet (observe_state, observe_send) while it polls the client;    *)
(*   - any thread may close the bridge.                                    *)
(*                                                                         *)
(* scxml_cnet_egress_pump takes the lock five times and calls the buffer   *)
(* pool and CNet in between with no lock held: each critical section is an *)
(* action.  Pump and callbacks never overlap, they run on one thread.      *)
(*                                                                         *)
(* Bytes are represented by their number and by the sequence of the row    *)
(* they come from.                                                         *)
(***************************************************************************)
EXTENDS Integers, Sequences, FiniteSets, FiniteSetsExt

CONSTANTS
    capacity,            \* rows
    max_payload_bytes,   \* longest payload accepted
    max_writes,          \* largest argument of pump
    CnetRoom,            \* writes that fit into the command queue of CNet
    MaxPrepared,         \* bound: rows prepared in a behaviour
    MaxRefused           \* bound: refused calls and stale callbacks

ASSUME EgressAssumption ==
    /\ capacity \in Nat \ {0}
    /\ max_payload_bytes \in Nat \ {0}
    /\ max_writes \in Nat \ {0}
    /\ CnetRoom \in Nat \ {0}
    /\ MaxPrepared \in Nat
    /\ MaxRefused \in Nat

Rows == 0 .. capacity - 1
Sizes == 1 .. max_payload_bytes
RowStates == {"FREE", "RESERVED", "READY", "SUBMITTING", "SUBMITTED"}
FreeRow == [state |-> "FREE", sequence |-> 0, size |-> 0]
Counters == {"prepared", "committed", "discarded", "submitted", "completed",
             "cancelled", "rejected_full", "transient_full",
             "stale_callbacks", "invariant_failures"}
\* The return value of cnet_send_buffer: accepted, ENOBUFS or EBUSY, another.
Statuses == {"OK", "ENOBUFS", "ESHUTDOWN"}

VARIABLES
    rows,            \* [Rows -> the row]
    pending,         \* the number of rows in use, as the code counts them
    high_water,      \* the largest value of pending
    next_sequence,   \* the sequence given to the last commit
    count,           \* the statistics
    bound, connected, terminal, closed,
    first_error,     \* "OK" until the bridge has failed
    pump,            \* the pump call in progress; pc "idle" when pumping is FALSE
    freeing,         \* destroy: "no", "checked" or "freed"
    tickets,         \* rows whose ticket CFlow holds
    connection,      \* external: what CNet knows of the connection
    in_flight,       \* external: writes CNet accepted and has not completed
    wire             \* history: the sequences CNet accepted, in order

vars == <<rows, pending, high_water, next_sequence, count, bound, connected,
          terminal, closed, first_error, pump, freeing, tickets, connection,
          in_flight, wire>>
table == <<rows, pending>>
flags == <<bound, connected, terminal, closed, first_error>>
external == <<connection, in_flight, wire>>

failed == first_error # "OK"
IdlePump == [pc |-> "idle", row |-> 0, sequence |-> 0, left |-> 0,
             status |-> "OK"]
Row == [state : RowStates, sequence : Nat, size : Nat]
PumpCall == [pc : {"idle", "select", "buffer", "send", "record", "end"},
             row : Rows, sequence : Nat, left : Nat, status : Statuses]
Write == [sequence : Nat, size : Nat]

TypeOK ==
    /\ rows \in [Rows -> Row]
    /\ pending \in Nat /\ high_water \in Nat /\ next_sequence \in Nat
    /\ count \in [Counters -> Nat]
    /\ bound \in BOOLEAN /\ connected \in BOOLEAN
    /\ terminal \in BOOLEAN /\ closed \in BOOLEAN
    /\ first_error \in {"OK", "EIO", "EPROTO"} \cup Statuses
    /\ pump \in PumpCall
    /\ freeing \in {"no", "checked", "freed"}
    /\ tickets \in SUBSET Rows
    /\ connection \in {"none", "connecting", "connected", "closing",
                       "closed", "failed"}
    /\ in_flight \in Seq(Write)
    /\ wire \in Seq(Nat)

Init ==
    /\ rows = [r \in Rows |-> FreeRow]
    /\ pending = 0 /\ high_water = 0 /\ next_sequence = 0
    /\ count = [c \in Counters |-> 0]
    /\ bound = FALSE /\ connected = FALSE
    /\ terminal = FALSE /\ closed = FALSE
    /\ first_error = "OK"
    /\ pump = IdlePump
    /\ freeing = "no"
    /\ tickets = {}
    /\ connection = "none"
    /\ in_flight = <<>>
    /\ wire = <<>>

-----------------------------------------------------------------------------
(* Helpers of the code.                                                    *)

RowsIn(S) == {r \in Rows : rows[r].state \in S}
UsedRows == RowsIn(RowStates \ {"FREE"})

\* The row of a state with the smallest sequence, for a nonempty set of rows.
earliest(R) == CHOOSE r \in R : \A q \in R : rows[r].sequence <= rows[q].sequence

\* release_row on the rows R in table order: it refuses a FREE row, and any
\* row once pending is 0.
Releasable(R) ==
    {r \in R : /\ rows[r].state # "FREE"
               /\ Cardinality({q \in R : q < r}) < pending}

release_row(R) ==
    /\ rows' = [r \in Rows |-> IF r \in Releasable(R) THEN FreeRow ELSE rows[r]]
    /\ pending' = pending - Cardinality(Releasable(R))

\* The statistics after `counter` is raised by n, and after the rows R are
\* released and counted as `counter`.
Raise(counter, n) == count' = [count EXCEPT ![counter] = @ + n]
Released(counter, R) ==
    count' = [c \in Counters |->
        count[c] + (IF c = counter THEN Cardinality(R) ELSE 0)
                 + (IF c = "invariant_failures"
                      THEN Cardinality(R \ Releasable(R)) ELSE 0)]
ReleasedUncounted(R) ==
    Raise("invariant_failures", Cardinality(R \ Releasable(R)))

set_failure(status) ==
    first_error' = IF failed THEN first_error ELSE status

Restate(r, state, sequence) ==
    rows' = [rows EXCEPT ![r] = [state |-> state, sequence |-> sequence,
                                 size |-> rows[r].size]]
SetState(r, state) == Restate(r, state, rows[r].sequence)

\* Bound on calls that only count a refusal.
MayRefuse ==
    count["rejected_full"] + count["transient_full"]
        + count["stale_callbacks"] < MaxRefused

Quiescent ==
    /\ closed /\ pending = 0 /\ pump.pc = "idle"
    /\ bound => terminal

-----------------------------------------------------------------------------
(* The executor: prepare_send and the tickets it returns.                  *)

FirstFree(r) ==
    /\ rows[r].state = "FREE"
    /\ \A q \in RowsIn({"FREE"}) : r <= q

reserve(r, size) ==
    /\ rows' = [rows EXCEPT ![r] = [state |-> "RESERVED", sequence |-> 0,
                                    size |-> size]]
    /\ pending' = pending + 1
    /\ high_water' = IF pending' > high_water THEN pending' ELSE high_water
    /\ tickets' = tickets \cup {r}
    /\ Raise("prepared", 1)

prepare_send(size) ==
    /\ freeing # "freed" /\ count["prepared"] < MaxPrepared
    /\ ~closed /\ ~terminal /\ ~failed
    /\ \/ /\ pending = capacity
          /\ MayRefuse
          /\ Raise("rejected_full", 1)
          /\ UNCHANGED <<table, high_water, tickets>>
       \/ /\ pending # capacity
          /\ IF RowsIn({"FREE"}) = {}
               THEN /\ Raise("invariant_failures", 1)
                    /\ UNCHANGED <<table, high_water, tickets>>
               ELSE \E r \in Rows : FirstFree(r) /\ reserve(r, size)
    /\ UNCHANGED <<next_sequence, flags, pump, freeing, external>>

make_ready(r) ==
    /\ Restate(r, "READY", next_sequence + 1)
    /\ next_sequence' = next_sequence + 1
    /\ Raise("committed", 1)
    /\ UNCHANGED pending

ticket_commit(r) ==
    /\ r \in tickets
    /\ tickets' = tickets \ {r}
    /\ IF rows[r].state # "RESERVED"
         THEN /\ Raise("invariant_failures", 1)
              /\ UNCHANGED <<table, next_sequence>>
         ELSE \/ /\ closed \/ terminal
                 /\ release_row({r})
                 /\ Released("cancelled", {r})
                 /\ UNCHANGED next_sequence
              \/ /\ ~closed /\ ~terminal
                 /\ make_ready(r)
    /\ UNCHANGED <<high_water, flags, pump, freeing, external>>

ticket_discard(r) ==
    /\ r \in tickets
    /\ tickets' = tickets \ {r}
    /\ IF rows[r].state # "RESERVED"
         THEN /\ Raise("invariant_failures", 1)
              /\ UNCHANGED table
         ELSE /\ release_row({r})
              /\ Released("discarded", {r})
    /\ UNCHANGED <<high_water, next_sequence, flags, pump, freeing, external>>

-----------------------------------------------------------------------------
(* The CNet owner between two pumps: bind and the callbacks of CNet.       *)

OwnerPolls == pump.pc = "idle"

\* Fault: a closed bridge accepts a connection.
bind_AfterClose ==
    /\ freeing # "freed" /\ OwnerPolls /\ ~bound
    /\ bound' = TRUE
    /\ connection' = "connecting"
    /\ UNCHANGED <<table, high_water, next_sequence, count, connected,
                   terminal, closed, first_error, pump, freeing, tickets,
                   in_flight, wire>>

\* The host connects with the bridge as observer and binds the connection
\* before it polls.
bind ==
    /\ freeing # "freed" /\ OwnerPolls
    /\ ~bound /\ ~closed
    /\ bound' = TRUE
    /\ connection' = "connecting"
    /\ UNCHANGED <<table, high_water, next_sequence, count, connected,
                   terminal, closed, first_error, pump, freeing, tickets,
                   in_flight, wire>>

\* The state changes CNet reports, each at most once and in this order.
Reportable(state) ==
    \/ state = "connected" /\ connection = "connecting"
    \/ state = "closing" /\ connection \in {"connecting", "connected"}
    \/ state \in {"closed", "failed"}
       /\ connection \in {"connecting", "connected", "closing"}

\* The rows that end with the connection.
CancelledByEnd == RowsIn({"READY", "SUBMITTED"})

observe_state(state) ==
    /\ OwnerPolls /\ Reportable(state)
    /\ connection' = state
    /\ connected' = (state = "connected")
    /\ \/ /\ state \in {"connected", "closing"}
          /\ UNCHANGED <<table, count, terminal, first_error, in_flight>>
       \/ /\ state \in {"closed", "failed"}
          /\ terminal' = TRUE
          /\ IF state = "failed"
               THEN set_failure("EIO")
               ELSE UNCHANGED first_error
          /\ in_flight' = <<>>
          /\ release_row(CancelledByEnd)
          /\ Released("cancelled", CancelledByEnd)
    /\ UNCHANGED <<high_water, next_sequence, bound, closed, pump, freeing,
                   tickets, wire>>

\* A callback of a connection that is not the bound one.
observe_stale ==
    /\ OwnerPolls /\ freeing # "freed" /\ MayRefuse
    /\ Raise("stale_callbacks", 1)
    /\ UNCHANGED <<table, high_water, next_sequence, flags, pump, freeing,
                   tickets, external>>

\* CNet completes its oldest write and reports how much it wrote.
observe_send(size) ==
    /\ OwnerPolls /\ in_flight # <<>>
    /\ in_flight' = Tail(in_flight)
    /\ LET submitted == RowsIn({"SUBMITTED"})
           row == earliest(submitted)
       IN IF submitted = {}
            THEN /\ Raise("invariant_failures", 1)
                 /\ set_failure("EPROTO")
                 /\ UNCHANGED table
            ELSE /\ release_row({row})
                 /\ \/ /\ rows[row].size = size
                       /\ Released("completed", {row})
                       /\ UNCHANGED first_error
                    \/ /\ rows[row].size # size
                       /\ ReleasedUncounted({row})
                       /\ set_failure("EPROTO")
    /\ UNCHANGED <<high_water, next_sequence, bound, connected, terminal,
                   closed, pump, freeing, tickets, connection, wire>>

-----------------------------------------------------------------------------
(* close, from any thread, and destroy.                                    *)

\* Fault: accepted writes are cancelled too.
CancelledByClose_Submitted == RowsIn({"READY", "SUBMITTED"})

CancelledByClose == RowsIn({"READY"})

adapter_close ==
    /\ freeing # "freed" /\ ~closed
    /\ closed' = TRUE
    /\ release_row(CancelledByClose)
    /\ Released("cancelled", CancelledByClose)
    /\ UNCHANGED <<high_water, next_sequence, bound, connected, terminal,
                   first_error, pump, freeing, tickets, external>>

destroy_check ==
    /\ freeing = "no" /\ Quiescent
    /\ freeing' = "checked"
    /\ UNCHANGED <<table, high_water, next_sequence, count, flags, pump,
                   tickets, external>>

destroy_free ==
    /\ freeing = "checked"
    /\ freeing' = "freed"
    /\ UNCHANGED <<table, high_water, next_sequence, count, flags, pump,
                   tickets, external>>

-----------------------------------------------------------------------------
(* scxml_cnet_egress_pump.                                                 *)

pump_begin(n) ==
    /\ freeing # "freed" /\ pump.pc = "idle"
    /\ ~closed /\ ~terminal /\ ~failed
    /\ bound /\ connected
    /\ pump' = [IdlePump EXCEPT !.pc = "select", !.left = n]
    /\ UNCHANGED <<table, high_water, next_sequence, count, flags, freeing,
                   tickets, external>>

\* The next row is taken and its bytes are copied, or the loop ends.
pump_select ==
    /\ pump.pc = "select"
    /\ LET ready == RowsIn({"READY"})
           row == earliest(ready)
       IN \/ /\ pump.left = 0 \/ ready = {} \/ closed \/ terminal
             /\ pump' = [pump EXCEPT !.pc = "end"]
             /\ UNCHANGED rows
          \/ /\ pump.left > 0 /\ ready # {} /\ ~closed /\ ~terminal
             /\ SetState(row, "SUBMITTING")
             /\ pump' = [pump EXCEPT !.pc = "buffer", !.row = row,
                                     !.sequence = rows[row].sequence]
    /\ UNCHANGED <<pending, high_water, next_sequence, count, flags, freeing,
                   tickets, external>>

\* The pool has no buffer: the row waits for another pump.
pump_no_buffer ==
    /\ pump.pc = "buffer"
    /\ pump' = [pump EXCEPT !.pc = "end"]
    /\ \/ /\ closed
          /\ release_row({pump.row})
          /\ Released("cancelled", {pump.row})
       \/ /\ ~closed
          /\ SetState(pump.row, "READY")
          /\ UNCHANGED <<pending, count>>
    /\ UNCHANGED <<high_water, next_sequence, flags, freeing, tickets, external>>

\* The bytes are in a buffer; a bridge closed meanwhile cancels the row.
pump_buffer ==
    /\ pump.pc = "buffer"
    /\ \/ /\ closed \/ terminal
          /\ release_row({pump.row})
          /\ Released("cancelled", {pump.row})
          /\ pump' = [pump EXCEPT !.pc = "end"]
       \/ /\ ~closed /\ ~terminal
          /\ pump' = [pump EXCEPT !.pc = "send"]
          /\ UNCHANGED <<table, count>>
    /\ UNCHANGED <<high_water, next_sequence, flags, freeing, tickets, external>>

\* External: CNet takes the write, refuses it for now, or refuses it.
cnet_send_buffer(status) ==
    /\ pump.pc = "send"
    /\ status = "OK" => Len(in_flight) < CnetRoom
    /\ status = "ENOBUFS" => MayRefuse
    /\ pump' = [pump EXCEPT !.pc = "record", !.status = status]
    /\ IF status = "OK"
         THEN /\ in_flight' = Append(in_flight,
                                [sequence |-> pump.sequence,
                                 size |-> rows[pump.row].size])
              /\ wire' = Append(wire, pump.sequence)
         ELSE UNCHANGED <<in_flight, wire>>
    /\ UNCHANGED <<table, high_water, next_sequence, count, flags, freeing,
                   tickets, connection>>

PumpRecorded ==
    pump' = IF pump.status = "OK"
              THEN [pump EXCEPT !.pc = "select", !.left = @ - 1]
              ELSE [pump EXCEPT !.pc = "end"]

pump_record ==
    /\ pump.pc = "record" /\ PumpRecorded
    /\ IF rows[pump.row].state # "SUBMITTING"
         THEN /\ Raise("invariant_failures", 1)
              /\ set_failure("EPROTO")
              /\ UNCHANGED table
         ELSE \/ /\ pump.status = "OK"
                 /\ SetState(pump.row, "SUBMITTED")
                 /\ Raise("submitted", 1)
                 /\ UNCHANGED <<pending, first_error>>
              \/ /\ pump.status # "OK" /\ (closed \/ terminal)
                 /\ release_row({pump.row})
                 /\ Released("cancelled", {pump.row})
                 /\ UNCHANGED first_error
              \/ /\ pump.status = "ENOBUFS" /\ ~closed /\ ~terminal
                 /\ SetState(pump.row, "READY")
                 /\ Raise("transient_full", 1)
                 /\ UNCHANGED <<pending, first_error>>
              \/ /\ pump.status = "ESHUTDOWN" /\ ~closed /\ ~terminal
                 /\ release_row({pump.row})
                 /\ ReleasedUncounted({pump.row})
                 /\ set_failure(pump.status)
    /\ UNCHANGED <<high_water, next_sequence, bound, connected, terminal,
                   closed, freeing, tickets, external>>

pump_end ==
    /\ pump.pc = "end"
    /\ pump' = IdlePump
    /\ UNCHANGED <<table, high_water, next_sequence, count, flags, freeing,
                   tickets, external>>

PumpStep ==
    \/ pump_select \/ pump_no_buffer \/ pump_buffer
    \/ \E status \in Statuses : cnet_send_buffer(status)
    \/ pump_record \/ pump_end

Settle == \E r \in Rows : ticket_commit(r) \/ ticket_discard(r)

Next ==
    \/ \E size \in Sizes : prepare_send(size) \/ observe_send(size)
    \/ Settle
    \/ bind
    \/ \E state \in {"connected", "closing", "closed", "failed"} :
            observe_state(state)
    \/ observe_stale
    \/ adapter_close
    \/ \E n \in 1 .. max_writes : pump_begin(n)
    \/ PumpStep
    \/ destroy_check \/ destroy_free

Spec == Init /\ [][Next]_vars

\* CFlow settles every ticket of a microstep, a pump call returns, and the
\* owner of the CNet domain ends the connection of a closed bridge and polls
\* until CNet has reported it.
EndOfConnection ==
    closed /\ \E state \in {"closed", "failed"} : observe_state(state)

Fairness ==
    /\ WF_vars(Settle)
    /\ WF_vars(PumpStep)
    /\ WF_vars(EndOfConnection)

FairSpec == Spec /\ Fairness

-----------------------------------------------------------------------------
(* What has to hold.                                                       *)

\* `pending` is trusted for backpressure and for quiescence: it is the number
\* of rows in use, so it never blocks or underflows, and the high-water mark
\* never exceeds the table.
PendingMatchesRows ==
    /\ pending = Cardinality(UsedRows)
    /\ pending <= high_water /\ high_water <= capacity

\* A ticket is a pointer to its row: while CFlow holds it, neither the end of
\* the connection nor close gives the row to somebody else.
TicketsBorrowRows == tickets = RowsIn({"RESERVED"})

\* The code's own consistency checks never fire, whatever the order in which
\* executor, owner and close take the lock.
ChecksNeverFire == count["invariant_failures"] = 0

\* CNet gets the committed rows in commit order and with none missing between
\* two of them, across transient refusals, full pools, failures and close.
WirePrefix == \A i \in 1 .. Len(wire) : wire[i] = i

\* The writes CNet still owes a completion are exactly the SUBMITTED rows,
\* oldest first (and the row of a pump that has not recorded its acceptance),
\* so observe_send credits a completion to the write it belongs to.
InFlightMatches ==
    LET accepted == RowsIn({"SUBMITTED"}) \cup
                    (IF pump.pc = "record" /\ pump.status = "OK"
                       THEN {pump.row} ELSE {})
    IN /\ Len(in_flight) = Cardinality(accepted)
       /\ \A i \in 1 .. Len(in_flight) : \E r \in accepted :
            /\ rows[r].sequence = in_flight[i].sequence
            /\ rows[r].size = in_flight[i].size
       /\ \A i, j \in 1 .. Len(in_flight) :
            i < j => in_flight[i].sequence < in_flight[j].sequence

\* Every prepared row is in use or ended in exactly one way the statistics
\* report, as long as the bridge has not failed.
SettledOnce ==
    ~failed => count["prepared"] = pending + count["discarded"]
                                   + count["completed"] + count["cancelled"]

\* After the end of the connection only tickets keep rows: nobody is left who
\* would release a committed one.
TerminalDrained == terminal => UsedRows = RowsIn({"RESERVED"})

\* Close cancels every committed row CNet has not been offered, and no later
\* step of a pump that is under way brings one back.
CloseCancelsReady == closed => RowsIn({"READY"}) = {}

\* Once destroy has freed the rows, nobody can still reach them: no ticket, no
\* pump and no connection that would call back.
NothingAfterFree ==
    freeing = "freed" =>
        /\ tickets = {} /\ pump.pc = "idle"
        /\ connection \in {"none", "closed", "failed"}

\* Every row the bridge admits is counted, borrowed, offered and settled as the
\* executor, the owner and CNet each believe, and none outlives the bridge.
EgressSound ==
    /\ TypeOK /\ PendingMatchesRows /\ TicketsBorrowRows /\ ChecksNeverFire
    /\ WirePrefix /\ InFlightMatches /\ SettledOnce /\ TerminalDrained
    /\ CloseCancelsReady /\ NothingAfterFree

\* destroy checks for quiescence, gives up the lock and frees: what it checked
\* cannot change in between.
QuiescenceStable == [][Quiescent => Quiescent']_vars

\* A closed bridge becomes quiescent and can be destroyed.
ClosedBridgeQuiesces == []<>(closed => Quiescent)
=============================================================================
