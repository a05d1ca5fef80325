-------------------------- MODULE CnetEgressProofs --------------------------
(***************************************************************************)
(* Proofs about the CNet egress bridge, for every number of rows, payload  *)
(* bound, pump size and room in CNet.                                      *)
(***************************************************************************)
EXTENDS CnetEgress, FiniteSetTheorems, TLAPS

(***************************************************************************)
(* The inductive invariant.  The properties do not carry themselves: that  *)
(* the checks never fire needs to know whose row the pump holds and which  *)
(* rows CNet owes a completion, and the order on the wire needs to know    *)
(* where the committed rows that are not on it yet are.                    *)
(***************************************************************************)
Working == {"buffer", "send", "record"}

\* The pump owns the SUBMITTING row, and there is no other.
PumpInv ==
    /\ pump.pc \in Working =>
         /\ rows[pump.row].state = "SUBMITTING"
         /\ rows[pump.row].sequence = pump.sequence
         /\ pump.left > 0
    /\ \A r \in Rows : rows[r].state = "SUBMITTING" =>
         pump.pc \in Working /\ r = pump.row
    /\ terminal => pump.pc = "idle"
    /\ pump.pc \in Working \cup {"select"} => ~failed

ConnectionInv ==
    /\ bound <=> connection # "none"
    /\ terminal <=> connection \in {"closed", "failed"}

FreeingInv == freeing # "no" => Quiescent

\* The wire holds 1, 2, ...; every later commit waits in a row of its own
\* until the bridge closes, ends or fails.
OrderInv ==
    /\ WirePrefix
    /\ pump.pc \in {"buffer", "send"} => pump.sequence = Len(wire) + 1
    /\ pump.pc = "record" =>
         pump.sequence = IF pump.status = "OK" THEN Len(wire) ELSE Len(wire) + 1
    /\ \A r \in Rows : rows[r].state = "READY" =>
         rows[r].sequence \in Len(wire) + 1 .. next_sequence
    /\ Len(wire) <= next_sequence
    /\ pump.pc \in Working => pump.sequence <= next_sequence
    /\ \A r, q \in Rows :
         /\ rows[r].state \in {"READY", "SUBMITTING"}
         /\ rows[q].state \in {"READY", "SUBMITTING"}
         /\ rows[r].sequence = rows[q].sequence
         => r = q
    /\ ~closed /\ ~terminal /\ ~failed =>
         \A s \in Len(wire) + 1 .. next_sequence : \E r \in Rows :
            rows[r].state \in {"READY", "SUBMITTING"} /\ rows[r].sequence = s

\* The rows whose write CNet has accepted.
Accepted ==
    {r \in Rows : \/ rows[r].state = "SUBMITTED"
                  \/ pump.pc = "record" /\ pump.status = "OK" /\ r = pump.row}

\* Accepted rows and writes in flight correspond one to one.
FlightInv ==
    /\ Len(in_flight) = Cardinality(Accepted)
    /\ \A i \in 1 .. Len(in_flight) : \E r \in Accepted :
         /\ rows[r].sequence = in_flight[i].sequence
         /\ rows[r].size = in_flight[i].size
    /\ \A i, j \in 1 .. Len(in_flight) :
         i < j => in_flight[i].sequence < in_flight[j].sequence
    /\ \A r \in Accepted : \E i \in 1 .. Len(in_flight) :
         rows[r].sequence = in_flight[i].sequence
    /\ \A r \in Accepted : rows[r].sequence <= Len(wire)
    /\ \A r, q \in Accepted : rows[r].sequence = rows[q].sequence => r = q

EgressInv ==
    /\ TypeOK /\ PendingMatchesRows /\ TicketsBorrowRows /\ ChecksNeverFire
    /\ PumpInv /\ ConnectionInv /\ FreeingInv /\ OrderInv /\ FlightInv
    /\ SettledOnce /\ TerminalDrained /\ CloseCancelsReady

-----------------------------------------------------------------------------
(* The table is finite and its rows are counted by `pending`.              *)

\* The rows, and every set of them, are finite.
LEMMA FiniteRows ==
    /\ IsFiniteSet(Rows)
    /\ Cardinality(Rows) = capacity
    /\ 0 \in Rows
<1>1. IsFiniteSet(Rows) /\ Cardinality(Rows) = capacity
    BY EgressAssumption, FS_Interval, 0 \in Int, capacity - 1 \in Int DEF Rows
<1>2. QED
    BY <1>1, EgressAssumption DEF Rows

\* The initial state satisfies the invariant.
LEMMA InitialBridge == Init => EgressInv
<1> SUFFICES ASSUME Init PROVE EgressInv
    OBVIOUS
<1>1. TypeOK
    <2>1. FreeRow \in Row /\ IdlePump \in PumpCall
        BY FiniteRows DEF FreeRow, Row, RowStates, IdlePump, PumpCall, Statuses
    <2>2. <<>> \in Seq(Write) /\ <<>> \in Seq(Nat)
        OBVIOUS
    <2>3. rows \in [Rows -> Row] /\ count \in [Counters -> Nat]
        BY <2>1 DEF Init
    <2>4. QED
        BY <2>1, <2>2, <2>3 DEF Init, TypeOK
<1>2. UsedRows = {} /\ RowsIn({"RESERVED"}) = {} /\ RowsIn({"READY"}) = {}
    BY DEF Init, UsedRows, RowsIn, FreeRow, RowStates
<1>3. PendingMatchesRows
    BY <1>2, FS_EmptySet, EgressAssumption DEF Init, PendingMatchesRows
<1>4. Accepted = {}
    BY DEF Init, Accepted, FreeRow, IdlePump
<1>5. FlightInv
    BY <1>4, FS_EmptySet DEF Init, FlightInv
<1>6. PumpInv /\ OrderInv /\ ConnectionInv /\ FreeingInv
    BY DEF Init, PumpInv, OrderInv, ConnectionInv, FreeingInv, FreeRow,
        IdlePump, Working, WirePrefix
<1>7. SettledOnce /\ ChecksNeverFire
    BY DEF Init, SettledOnce, ChecksNeverFire, Counters
<1>8. TerminalDrained /\ CloseCancelsReady /\ TicketsBorrowRows
    BY <1>2 DEF Init, TerminalDrained, CloseCancelsReady, TicketsBorrowRows
<1>9. QED
    BY <1>1, <1>3, <1>5, <1>6, <1>7, <1>8 DEF EgressInv

\* release_row gives back exactly the rows it is called for, keeps `pending`
\* exact and never runs into its own check.
LEMMA ReleaseKeepsTable ==
    ASSUME TypeOK, PendingMatchesRows, NEW R \in SUBSET UsedRows,
           release_row(R)
    PROVE  /\ Releasable(R) = R
           /\ rows' = [r \in Rows |-> IF r \in R THEN FreeRow ELSE rows[r]]
           /\ rows' \in [Rows -> Row]
           /\ pending' \in Nat /\ pending' <= pending
           /\ pending' = Cardinality(UsedRows')
           /\ Cardinality(R) \in Nat
           /\ pending = pending' + Cardinality(R)
           /\ Cardinality(R \ Releasable(R)) = 0
<1>1. IsFiniteSet(UsedRows)
    BY FiniteRows, FS_Subset, UsedRows \subseteq Rows DEF UsedRows, RowsIn
<1>2. IsFiniteSet(R) /\ Cardinality(R) \in Nat
    BY <1>1, FS_Subset, FS_CardinalityType
<1>3. ASSUME NEW r \in R
      PROVE  Cardinality({q \in R : q < r}) < pending
    <2> DEFINE before == {q \in R : q < r}
    <2>0. r \in Int
        BY R \subseteq Rows DEF Rows, UsedRows, RowsIn
    <2>1. before \subseteq UsedRows
        BY R \subseteq UsedRows
    <2>2. before # UsedRows
        BY <2>0, R \subseteq UsedRows, ~(r < r)
    <2> HIDE DEF before
    <2>3. Cardinality(before) < Cardinality(UsedRows)
        BY <1>1, <2>1, <2>2, FS_Subset, FS_CardinalityType
    <2>4. QED
        BY <2>3 DEF PendingMatchesRows, before
<1>4. Releasable(R) = R
    BY <1>3 DEF Releasable, UsedRows, RowsIn, RowStates
<1>5. rows' = [r \in Rows |-> IF r \in R THEN FreeRow ELSE rows[r]]
    BY <1>4 DEF release_row
<1>6. rows' \in [Rows -> Row]
    BY <1>5 DEF TypeOK, FreeRow, Row, RowStates
<1>7. UsedRows' = UsedRows \ R
    BY <1>5 DEF UsedRows, RowsIn, FreeRow, Row, RowStates, TypeOK
<1>8. Cardinality(UsedRows \ R) = Cardinality(UsedRows) - Cardinality(R)
    <2>1. R \cap UsedRows = R
        OBVIOUS
    <2>2. QED
        BY <1>1, <1>2, <2>1, FS_Difference
<1>9. Cardinality(UsedRows \ R) \in Nat
    BY <1>1, FS_Difference, FS_CardinalityType
<1>10. Cardinality(R \ Releasable(R)) = 0
    BY <1>4, FS_EmptySet, R \ R = {}
<1>11. pending' = pending - Cardinality(R)
    BY <1>4 DEF release_row
<1>12. pending' = Cardinality(UsedRows') /\ pending' \in Nat
    BY <1>7, <1>8, <1>9, <1>11 DEF PendingMatchesRows
<1>13. pending' <= pending /\ pending = pending' + Cardinality(R)
    BY <1>2, <1>11, <1>12 DEF TypeOK
<1>14. QED
    BY <1>2, <1>4, <1>5, <1>6, <1>10, <1>12, <1>13

\* A change of state that neither takes nor frees a row keeps the table.
LEMMA MoveKeepsTable ==
    ASSUME TypeOK, PendingMatchesRows, NEW r \in UsedRows,
           NEW state \in RowStates \ {"FREE"}, NEW sequence \in Nat,
           Restate(r, state, sequence),
           UNCHANGED pending
    PROVE  /\ rows' \in [Rows -> Row]
           /\ rows'[r].state = state /\ rows'[r].sequence = sequence
           /\ rows'[r].size = rows[r].size
           /\ \A q \in Rows \ {r} : rows'[q] = rows[q]
           /\ pending' = Cardinality(UsedRows')
<1>0. r \in Rows /\ rows[r].state # "FREE"
    BY DEF UsedRows, RowsIn, RowStates
<1>1. /\ rows' \in [Rows -> Row]
      /\ rows'[r].state = state /\ rows'[r].sequence = sequence
      /\ rows'[r].size = rows[r].size
      /\ \A q \in Rows \ {r} : rows'[q] = rows[q]
    BY <1>0 DEF TypeOK, Restate, Row
<1>2. UsedRows' = UsedRows
    BY <1>0, <1>1 DEF UsedRows, RowsIn, RowStates, Row
<1>3. pending' = Cardinality(UsedRows')
    BY <1>2 DEF PendingMatchesRows
<1>4. QED
    BY <1>1, <1>3

-----------------------------------------------------------------------------
(* What has to stay for a part of the invariant to stay.                   *)

\* Steps that keep the accepted rows and the writes in flight.
LEMMA FlightFrame ==
    ASSUME FlightInv, Accepted' = Accepted,
           \A r \in Accepted : rows'[r] = rows[r],
           UNCHANGED <<in_flight, wire>>
    PROVE  FlightInv'
    BY DEF FlightInv

\* Steps that put no row on the wire, make no row READY that was not already
\* waiting, and lose a waiting row only when the bridge stops.
LEMMA OrderFrame ==
    ASSUME OrderInv, UNCHANGED <<next_sequence, wire>>,
           pump' = pump \/ pump'.pc \in {"idle", "select", "end"},
           \A r \in Rows : rows'[r].state = "READY" =>
               rows'[r].sequence \in Len(wire) + 1 .. next_sequence,
           \A r \in Rows : rows'[r].state \in {"READY", "SUBMITTING"} =>
               /\ rows[r].state \in {"READY", "SUBMITTING"}
               /\ rows'[r].sequence = rows[r].sequence,
           ~closed' /\ ~terminal' /\ ~failed' =>
               /\ ~closed /\ ~terminal /\ ~failed
               /\ \A r \in Rows :
                    /\ rows[r].state \in {"READY", "SUBMITTING"}
                    /\ rows[r].sequence \in Len(wire) + 1 .. next_sequence
                    => /\ rows'[r].state \in {"READY", "SUBMITTING"}
                       /\ rows'[r].sequence = rows[r].sequence
    PROVE  OrderInv'
<1>1. WirePrefix' /\ (Len(wire) <= next_sequence)'
    BY DEF OrderInv, WirePrefix
<1>2. /\ pump'.pc \in {"buffer", "send"} => pump'.sequence = Len(wire') + 1
      /\ pump'.pc = "record" =>
           pump'.sequence = IF pump'.status = "OK" THEN Len(wire')
                                                   ELSE Len(wire') + 1
      /\ pump'.pc \in Working => pump'.sequence <= next_sequence'
    <2>1. CASE pump' = pump
        BY <2>1 DEF OrderInv, Working
    <2>2. CASE pump'.pc \in {"idle", "select", "end"}
        BY <2>2 DEF Working
    <2>3. QED
        BY <2>1, <2>2
<1>3. ASSUME ~closed' /\ ~terminal' /\ ~failed',
             NEW s \in Len(wire') + 1 .. next_sequence'
      PROVE  \E r \in Rows : /\ rows'[r].state \in {"READY", "SUBMITTING"}
                             /\ rows'[r].sequence = s
    <2>1. s \in Len(wire) + 1 .. next_sequence
        OBVIOUS
    <2>2. PICK r \in Rows : rows[r].state \in {"READY", "SUBMITTING"}
                            /\ rows[r].sequence = s
        BY <1>3, <2>1 DEF OrderInv
    <2>3. QED
        BY <1>3, <2>1, <2>2
<1>4. ASSUME NEW r \in Rows, rows'[r].state = "READY"
      PROVE  rows'[r].sequence \in Len(wire') + 1 .. next_sequence'
    BY <1>4
<1>5. ASSUME NEW r \in Rows, NEW q \in Rows,
             rows'[r].state \in {"READY", "SUBMITTING"},
             rows'[q].state \in {"READY", "SUBMITTING"},
             rows'[r].sequence = rows'[q].sequence
      PROVE  r = q
    BY <1>5 DEF OrderInv
<1>6. QED
    BY <1>1, <1>2, <1>3, <1>4, <1>5 DEF OrderInv, Working

-----------------------------------------------------------------------------
(* The statistics.                                                         *)

\* Raise changes one counter.
LEMMA RaiseCounts ==
    ASSUME TypeOK, NEW c \in Counters, NEW n \in Nat, Raise(c, n)
    PROVE  /\ count' \in [Counters -> Nat]
           /\ count'[c] = count[c] + n
           /\ \A d \in Counters \ {c} : count'[d] = count[d]
    BY DEF TypeOK, Raise

\* A release that succeeds counts its rows and no failure.
LEMMA ReleasedCounts ==
    ASSUME TypeOK, NEW c \in Counters \ {"invariant_failures"}, NEW R,
           Cardinality(R) \in Nat, Cardinality(R \ Releasable(R)) = 0,
           Released(c, R)
    PROVE  /\ count' \in [Counters -> Nat]
           /\ count'[c] = count[c] + Cardinality(R)
           /\ \A d \in Counters \ {c} : count'[d] = count[d]
<1>1. \A d \in Counters : count[d] \in Nat
    BY DEF TypeOK
<1>2. ASSUME NEW d \in Counters
      PROVE  count'[d] = count[d] + (IF d = c THEN Cardinality(R) ELSE 0)
    BY <1>1 DEF Released
<1>3. count' \in [Counters -> Nat]
    BY <1>1, <1>2 DEF Released
<1>4. QED
    BY <1>1, <1>2, <1>3

\* A release that succeeds without being counted changes no counter.
LEMMA UncountedCounts ==
    ASSUME TypeOK, NEW R, Cardinality(R \ Releasable(R)) = 0,
           ReleasedUncounted(R)
    PROVE  /\ count' \in [Counters -> Nat]
           /\ \A d \in Counters : count'[d] = count[d]
    BY DEF TypeOK, ReleasedUncounted, Raise, Counters

\* Steps that leave the table, the tickets and the writes in flight alone only
\* have to keep the parts about pump, connection and destroy.
LEMMA TableFrame ==
    ASSUME EgressInv, TypeOK', PumpInv', ConnectionInv', FreeingInv', OrderInv',
           Accepted' = Accepted,
           \A d \in Counters \ {"rejected_full", "stale_callbacks"} :
               count'[d] = count[d],
           UNCHANGED <<rows, pending, high_water, tickets, terminal, closed,
                       first_error, in_flight, wire>>
    PROVE  EgressInv'
<1>1. UNCHANGED UsedRows
    BY DEF UsedRows, RowsIn
<1>2. PendingMatchesRows' /\ TicketsBorrowRows'
    BY <1>1 DEF EgressInv, PendingMatchesRows, TicketsBorrowRows, RowsIn
<1>3. ChecksNeverFire' /\ SettledOnce'
    BY DEF EgressInv, ChecksNeverFire, SettledOnce, Counters, failed
<1>4. TerminalDrained' /\ CloseCancelsReady'
    BY <1>1 DEF EgressInv, TerminalDrained, CloseCancelsReady, RowsIn
<1>5. FlightInv'
    BY FlightFrame DEF EgressInv
<1>6. QED
    BY <1>2, <1>3, <1>4, <1>5 DEF EgressInv

\* A refusal only counts.
LEMMA RefusalKeeps ==
    ASSUME EgressInv, NEW c \in {"rejected_full", "stale_callbacks"},
           Raise(c, 1),
           UNCHANGED <<table, high_water, next_sequence, flags, pump, freeing,
                       tickets, external>>
    PROVE  EgressInv'
<1>f. UNCHANGED <<rows, pending, high_water, next_sequence, tickets,
                  terminal, closed, first_error, in_flight, wire>>
    BY DEF table, flags, external
<1>c. /\ count' \in [Counters -> Nat]
      /\ \A d \in Counters \ {c} : count'[d] = count[d]
    BY RaiseCounts DEF EgressInv, Counters
<1>1. TypeOK'
    BY <1>c, <1>f DEF EgressInv, TypeOK, table, flags, external
<1>2. PumpInv' /\ OrderInv' /\ Accepted' = Accepted
    BY <1>f DEF EgressInv, PumpInv, OrderInv, WirePrefix, Accepted, failed,
        table, flags, external
<1>3. ConnectionInv' /\ FreeingInv'
    BY <1>f DEF EgressInv, ConnectionInv, FreeingInv, Quiescent,
        table, flags, external
<1>4. QED
    BY <1>c, <1>f, <1>1, <1>2, <1>3, TableFrame

\* A callback of another connection.
LEMMA StaleKeeps ==
    ASSUME EgressInv, observe_stale
    PROVE  EgressInv'
    BY RefusalKeeps DEF observe_stale

\* Binding a connection.
LEMMA BindKeeps ==
    ASSUME EgressInv, bind
    PROVE  EgressInv'
<1>f. UNCHANGED <<rows, pending, high_water, next_sequence, tickets,
                  terminal, closed, first_error, in_flight, wire>>
    BY DEF bind, table
<1>1. TypeOK'
    BY <1>f DEF EgressInv, TypeOK, bind, table
<1>2. PumpInv' /\ OrderInv' /\ Accepted' = Accepted
    BY <1>f DEF EgressInv, PumpInv, OrderInv, WirePrefix, Accepted, failed,
        bind, table
<1>3. ConnectionInv' /\ FreeingInv'
    BY <1>f DEF EgressInv, ConnectionInv, FreeingInv, Quiescent,
        bind, table
<1>4. UNCHANGED count
    BY DEF bind, table
<1>5. QED
    BY <1>f, <1>1, <1>2, <1>3, <1>4, TableFrame

\* destroy, its test.
LEMMA DestroyCheckKeeps ==
    ASSUME EgressInv, destroy_check
    PROVE  EgressInv'
<1>f. UNCHANGED <<rows, pending, high_water, next_sequence, tickets,
                  terminal, closed, first_error, in_flight, wire>>
    BY DEF destroy_check, table, flags, external
<1>1. TypeOK'
    BY <1>f DEF EgressInv, TypeOK, destroy_check, table, flags, external
<1>2. PumpInv' /\ OrderInv' /\ Accepted' = Accepted
    BY <1>f DEF EgressInv, PumpInv, OrderInv, WirePrefix, Accepted, failed,
        destroy_check, table, flags, external
<1>3. ConnectionInv' /\ FreeingInv'
    BY <1>f DEF EgressInv, ConnectionInv, FreeingInv, Quiescent,
        destroy_check, table, flags, external
<1>4. UNCHANGED count
    BY DEF destroy_check, table, flags, external
<1>5. QED
    BY <1>f, <1>1, <1>2, <1>3, <1>4, TableFrame

\* destroy, the release of the storage.
LEMMA DestroyFreeKeeps ==
    ASSUME EgressInv, destroy_free
    PROVE  EgressInv'
<1>f. UNCHANGED <<rows, pending, high_water, next_sequence, tickets,
                  terminal, closed, first_error, in_flight, wire>>
    BY DEF destroy_free, table, flags, external
<1>1. TypeOK'
    BY <1>f DEF EgressInv, TypeOK, destroy_free, table, flags, external
<1>2. PumpInv' /\ OrderInv' /\ Accepted' = Accepted
    BY <1>f DEF EgressInv, PumpInv, OrderInv, WirePrefix, Accepted, failed,
        destroy_free, table, flags, external
<1>3. ConnectionInv' /\ FreeingInv'
    BY <1>f DEF EgressInv, ConnectionInv, FreeingInv, Quiescent,
        destroy_free, table, flags, external
<1>4. UNCHANGED count
    BY DEF destroy_free, table, flags, external
<1>5. QED
    BY <1>f, <1>1, <1>2, <1>3, <1>4, TableFrame

\* A pump call that may start.
LEMMA PumpBeginKeeps ==
    ASSUME EgressInv, NEW n \in 1 .. max_writes, pump_begin(n)
    PROVE  EgressInv'
<1>f. UNCHANGED <<rows, pending, high_water, next_sequence, tickets,
                  terminal, closed, first_error, in_flight, wire>>
    BY DEF pump_begin, table, flags, external
<1>p. pump' \in PumpCall /\ pump'.pc = "select" /\ pump.pc = "idle"
    <2>1. n \in Nat
        OBVIOUS
    <2>2. QED
        BY <2>1, FiniteRows DEF pump_begin, IdlePump, PumpCall, Statuses
<1>1. TypeOK'
    BY <1>p, <1>f DEF EgressInv, TypeOK, pump_begin, table, flags, external
<1>2. PumpInv' /\ OrderInv' /\ Accepted' = Accepted
    BY <1>f, <1>p DEF EgressInv, PumpInv, OrderInv, WirePrefix, Accepted,
        Working, failed, pump_begin, table, flags, external
<1>3. ConnectionInv' /\ FreeingInv'
    BY <1>p, <1>f DEF EgressInv, ConnectionInv, FreeingInv, Quiescent,
        pump_begin, table, flags, external
<1>4. UNCHANGED count
    BY DEF pump_begin, table, flags, external
<1>5. QED
    BY <1>f, <1>1, <1>2, <1>3, <1>4, TableFrame

\* The end of a pump call.
LEMMA PumpEndKeeps ==
    ASSUME EgressInv, pump_end
    PROVE  EgressInv'
<1>f. UNCHANGED <<rows, pending, high_water, next_sequence, tickets,
                  terminal, closed, first_error, in_flight, wire>>
    BY DEF pump_end, table, flags, external
<1>p. pump' \in PumpCall /\ pump'.pc = "idle" /\ pump.pc = "end"
    BY FiniteRows DEF pump_end, IdlePump, PumpCall, Statuses
<1>1. TypeOK'
    BY <1>p, <1>f DEF EgressInv, TypeOK, pump_end, table, flags, external
<1>2. PumpInv' /\ OrderInv' /\ Accepted' = Accepted
    BY <1>f, <1>p DEF EgressInv, PumpInv, OrderInv, WirePrefix, Accepted,
        Working, failed, pump_end, table, flags, external
<1>3. ConnectionInv' /\ FreeingInv'
    BY <1>p, <1>f DEF EgressInv, ConnectionInv, FreeingInv, Quiescent,
        pump_end, table, flags, external
<1>4. UNCHANGED count
    BY DEF pump_end, table, flags, external
<1>5. QED
    BY <1>f, <1>1, <1>2, <1>3, <1>4, TableFrame

\* A row is reserved for a ticket.
LEMMA ReserveKeeps ==
    ASSUME EgressInv, NEW r \in Rows, NEW size \in Sizes, rows[r].state = "FREE",
           ~closed, ~terminal, ~failed, pending # capacity, reserve(r, size),
           UNCHANGED <<next_sequence, flags, pump, freeing, external>>
    PROVE  EgressInv'
<1>a. /\ rows' \in [Rows -> Row]
      /\ rows'[r] = [state |-> "RESERVED", sequence |-> 0, size |-> size]
      /\ \A q \in Rows \ {r} : rows'[q] = rows[q]
    BY DEF EgressInv, TypeOK, reserve, Row, RowStates, Sizes
<1>b. /\ count' \in [Counters -> Nat]
      /\ count'["prepared"] = count["prepared"] + 1
      /\ \A d \in Counters \ {"prepared"} : count'[d] = count[d]
    BY RaiseCounts DEF EgressInv, reserve, Counters
<1>c. UsedRows' = UsedRows \cup {r} /\ r \notin UsedRows
    BY <1>a DEF UsedRows, RowsIn, RowStates
<1>d. IsFiniteSet(UsedRows) /\ Cardinality(UsedRows) <= capacity
    BY FiniteRows, FS_Subset, UsedRows \subseteq Rows DEF UsedRows, RowsIn
<1>e. pending' = Cardinality(UsedRows') /\ pending' = pending + 1
    BY <1>c, <1>d, FS_AddElement DEF EgressInv, PendingMatchesRows, reserve
<1>f. tickets' = tickets \cup {r} /\ Accepted' = Accepted
    BY <1>a DEF EgressInv, PumpInv, Working, reserve, flags, external, Accepted
<1>1. TypeOK'
    BY <1>a, <1>b, <1>e, <1>f DEF EgressInv, TypeOK, flags, external, reserve
<1>2. PendingMatchesRows'
    BY <1>d, <1>e, EgressAssumption
        DEF EgressInv, PendingMatchesRows, TypeOK, reserve
<1>3. TicketsBorrowRows'
    BY <1>a, <1>b, <1>e, <1>f
        DEF EgressInv, TicketsBorrowRows, RowsIn, flags, external, Row,
            RowStates, UsedRows
<1>4. ChecksNeverFire'
    BY <1>a, <1>b, <1>e, <1>f
        DEF EgressInv, ChecksNeverFire, TypeOK, Counters, flags, external,
            Row, RowStates, UsedRows, RowsIn
<1>5. PumpInv'
    <2>1. /\ pump.pc \in Working => rows'[pump.row] = rows[pump.row]
          /\ rows'[r].state # "SUBMITTING"
        BY <1>a DEF EgressInv, TypeOK, PumpCall, PumpInv
    <2>2. \A q \in Rows : rows'[q].state = "SUBMITTING" =>
            pump.pc \in Working /\ q = pump.row
        BY <1>a, <2>1 DEF EgressInv, PumpInv
    <2>3. QED
        BY <2>1, <2>2 DEF EgressInv, PumpInv, failed, flags
<1>6. ConnectionInv'
    BY <1>a, <1>b, <1>e, <1>f
        DEF EgressInv, ConnectionInv, flags, external, Row, RowStates,
            UsedRows, RowsIn
<1>7. FreeingInv'
    BY DEF EgressInv, FreeingInv, Quiescent, flags
<1>8. OrderInv'
    BY <1>a, OrderFrame DEF EgressInv, OrderInv, external, flags, failed
<1>9. FlightInv'
    <2>1. \A q \in Accepted : rows'[q] = rows[q]
        BY <1>a DEF EgressInv, PumpInv, Working, Accepted
    <2>2. QED
        BY <1>f, <2>1, FlightFrame DEF EgressInv, external
<1>10. SettledOnce'
    <2>1. /\ count["prepared"] = pending + count["discarded"]
                + count["completed"] + count["cancelled"]
          /\ pending \in Nat /\ \A d \in Counters : count[d] \in Nat
        BY DEF EgressInv, SettledOnce, TypeOK
    <2>2. /\ count'["discarded"] = count["discarded"]
          /\ count'["completed"] = count["completed"]
          /\ count'["cancelled"] = count["cancelled"]
        BY <1>b DEF Counters
    <2>3. QED
        BY <1>b, <1>e, <2>1, <2>2 DEF SettledOnce, Counters
<1>11. TerminalDrained'
    BY <1>a, <1>b, <1>e, <1>f
        DEF EgressInv, TerminalDrained, UsedRows, RowsIn, flags, external,
            Row, RowStates
<1>12. CloseCancelsReady'
    BY <1>a, <1>b, <1>e, <1>f
        DEF EgressInv, CloseCancelsReady, RowsIn, flags, external, Row,
            RowStates, UsedRows
<1>13. QED
    BY <1>1, <1>2, <1>3, <1>4, <1>5, <1>6, <1>7, <1>8, <1>9, <1>10, <1>11,
        <1>12
        DEF EgressInv

\* prepare_send, which never finds pending below the capacity without a free row.
LEMMA PrepareKeeps ==
    ASSUME EgressInv, NEW size \in Sizes, prepare_send(size)
    PROVE  EgressInv'
<1>1. CASE pending = capacity
    BY <1>1, RefusalKeeps DEF prepare_send
<1>2. CASE pending # capacity
    <2>1. RowsIn({"FREE"}) # {}
        <3>1. SUFFICES ASSUME RowsIn({"FREE"}) = {} PROVE FALSE
            OBVIOUS
        <3>2. UsedRows = Rows
            BY <3>1 DEF EgressInv, TypeOK, Row, RowStates, UsedRows, RowsIn
        <3>3. QED
            BY <1>2, <3>2, FiniteRows DEF EgressInv, PendingMatchesRows
    <2>2. QED
        BY <1>2, <2>1, ReserveKeeps DEF prepare_send, FirstFree
<1>3. QED
    BY <1>1, <1>2

\* Rows that end and are counted once keep the books.
LEMMA SettleFrame ==
    ASSUME TypeOK, SettledOnce, NEW n \in Nat,
           NEW c \in {"discarded", "completed", "cancelled"},
           pending' \in Nat, pending = pending' + n,
           count'[c] = count[c] + n,
           \A d \in Counters \ {c} : count'[d] = count[d],
           ~failed' => ~failed
    PROVE  SettledOnce'
<1>1. \A d \in Counters : count[d] \in Nat
    BY DEF TypeOK
<1>2. SUFFICES ASSUME ~failed
               PROVE  count'["prepared"] = pending' + count'["discarded"]
                          + count'["completed"] + count'["cancelled"]
    BY DEF SettledOnce
<1>3. count["prepared"] = pending + count["discarded"]
                          + count["completed"] + count["cancelled"]
    BY <1>2 DEF SettledOnce
<1>4. CASE c = "discarded"
    BY <1>1, <1>3, <1>4 DEF Counters
<1>5. CASE c = "completed"
    BY <1>1, <1>3, <1>5 DEF Counters
<1>6. CASE c = "cancelled"
    BY <1>1, <1>3, <1>6 DEF Counters
<1>7. QED
    BY <1>4, <1>5, <1>6

-----------------------------------------------------------------------------
(* The tickets.                                                            *)

\* A ticket that gives its row back.
LEMMA EndTicketKeeps ==
    ASSUME EgressInv, NEW r \in tickets, NEW c \in {"cancelled", "discarded"},
           release_row({r}), Released(c, {r}), tickets' = tickets \ {r},
           UNCHANGED <<high_water, next_sequence, flags, pump, freeing,
                       external>>
    PROVE  EgressInv'
<1>r. r \in Rows /\ rows[r].state = "RESERVED" /\ r \in UsedRows
    BY DEF EgressInv, TicketsBorrowRows, UsedRows, RowsIn, RowStates
<1>a. /\ rows' \in [Rows -> Row]
      /\ \A q \in Rows : rows'[q] = IF q \in {r} THEN FreeRow ELSE rows[q]
      /\ pending' \in Nat /\ pending' <= pending
      /\ pending' = Cardinality(UsedRows')
      /\ Cardinality({r}) \in Nat /\ pending = pending' + Cardinality({r})
      /\ Cardinality({r} \ Releasable({r})) = 0
    <2>1. {r} \in SUBSET UsedRows /\ release_row({r})
        BY <1>r
    <2>2. rows' = [q \in Rows |-> IF q \in {r} THEN FreeRow ELSE rows[q]]
        BY <2>1, ReleaseKeepsTable DEF EgressInv
    <2>3. QED
        BY <2>1, <2>2, ReleaseKeepsTable DEF EgressInv
<1>b. /\ count' \in [Counters -> Nat]
      /\ count'[c] = count[c] + Cardinality({r})
      /\ \A d \in Counters \ {c} : count'[d] = count[d]
    BY <1>a, ReleasedCounts DEF EgressInv, Counters
<1>c. rows'[r].state = "FREE" /\ \A q \in Rows \ {r} : rows'[q] = rows[q]
    BY <1>a, <1>r DEF FreeRow
<1>1. TypeOK'
    BY <1>a, <1>b, tickets' \subseteq tickets
        DEF EgressInv, TypeOK, flags, external
<1>2. PendingMatchesRows'
    BY <1>a DEF EgressInv, PendingMatchesRows, TypeOK
<1>3. TicketsBorrowRows'
    BY <1>c, <1>r
        DEF EgressInv, TicketsBorrowRows, RowsIn, table, flags, external
<1>4. ChecksNeverFire'
    BY <1>b DEF EgressInv, ChecksNeverFire, Counters
<1>5. PumpInv'
    <2>1. /\ pump.pc \in Working => rows'[pump.row] = rows[pump.row]
          /\ \A q \in Rows : rows'[q].state = "SUBMITTING" =>
                pump.pc \in Working /\ q = pump.row
        BY <1>c, <1>r DEF EgressInv, TypeOK, PumpCall, PumpInv
    <2>2. QED
        BY <2>1 DEF EgressInv, PumpInv, failed, flags
<1>6. ConnectionInv'
    BY <1>c, <1>r
        DEF EgressInv, ConnectionInv, table, flags, external
<1>7. FreeingInv'
    <2>1. pending' = 0 => pending = 0 \/ pending = Cardinality({r})
        BY <1>a
    <2>2. CASE freeing = "no"
        BY <2>2 DEF FreeingInv
    <2>3. CASE freeing # "no"
        <3>1. Quiescent
            BY <2>3 DEF EgressInv, FreeingInv
        <3>2. pending' = 0
            BY <1>a, <3>1 DEF Quiescent
        <3>3. QED
            BY <3>1, <3>2 DEF FreeingInv, Quiescent, flags
    <2>4. QED
        BY <2>2, <2>3
<1>8. OrderInv'
    BY <1>c, <1>r, OrderFrame DEF EgressInv, OrderInv, external, flags, failed
<1>9. FlightInv'
    <2>1. r \notin Accepted
        BY <1>r DEF EgressInv, PumpInv, Working, Accepted
    <2>2. Accepted' = Accepted
        BY <1>c, <1>r, <2>1 DEF Accepted
    <2>3. QED
        BY <1>c, <2>1, <2>2, FlightFrame DEF EgressInv, external, Accepted
<1>10. SettledOnce'
    BY <1>a, <1>b, SettleFrame DEF EgressInv, failed, flags
<1>11. TerminalDrained'
    BY <1>c, <1>r
        DEF EgressInv, TerminalDrained, UsedRows, RowsIn, table, flags,
            external
<1>12. CloseCancelsReady'
    BY <1>c, <1>r
        DEF EgressInv, CloseCancelsReady, RowsIn, table, flags, external
<1>13. QED
    BY <1>1, <1>2, <1>3, <1>4, <1>5, <1>6, <1>7, <1>8, <1>9, <1>10, <1>11,
        <1>12
        DEF EgressInv

\* A commit that makes its row READY.
LEMMA ReadyKeeps ==
    ASSUME EgressInv, NEW r \in tickets, ~closed, ~terminal, make_ready(r),
           tickets' = tickets \ {r},
           UNCHANGED <<high_water, flags, pump, freeing, external>>
    PROVE  EgressInv'
<1>r. r \in Rows /\ rows[r].state = "RESERVED" /\ r \in UsedRows
    BY DEF EgressInv, TicketsBorrowRows, UsedRows, RowsIn, RowStates
<1>a. /\ rows' \in [Rows -> Row]
      /\ rows'[r].state = "READY" /\ rows'[r].sequence = next_sequence + 1
      /\ \A q \in Rows \ {r} : rows'[q] = rows[q]
      /\ pending' = pending /\ pending' = Cardinality(UsedRows')
    <2>1. "READY" \in RowStates \ {"FREE"} /\ next_sequence + 1 \in Nat
        BY DEF EgressInv, TypeOK, RowStates
    <2>2. QED
        BY <1>r, <2>1, MoveKeepsTable DEF EgressInv, make_ready
<1>b. /\ count' \in [Counters -> Nat]
      /\ \A d \in Counters \ {"committed"} : count'[d] = count[d]
    BY RaiseCounts DEF EgressInv, make_ready, Counters
<1>n. next_sequence' = next_sequence + 1 /\ next_sequence \in Nat
    BY DEF EgressInv, TypeOK, make_ready
<1>1. TypeOK'
    BY <1>a, <1>b, <1>n, tickets' \subseteq tickets
        DEF EgressInv, TypeOK, flags, external
<1>2. PendingMatchesRows'
    BY <1>a DEF EgressInv, PendingMatchesRows, TypeOK
<1>3. TicketsBorrowRows'
    BY <1>a, <1>r
        DEF EgressInv, TicketsBorrowRows, RowsIn, table, flags, external
<1>4. ChecksNeverFire'
    BY <1>b DEF EgressInv, ChecksNeverFire, Counters
<1>5. PumpInv'
    <2>1. /\ pump.pc \in Working => rows'[pump.row] = rows[pump.row]
          /\ \A q \in Rows : rows'[q].state = "SUBMITTING" =>
                pump.pc \in Working /\ q = pump.row
        BY <1>a, <1>r DEF EgressInv, TypeOK, PumpCall, PumpInv
    <2>2. QED
        BY <2>1 DEF EgressInv, PumpInv, failed, flags
<1>6. ConnectionInv'
    BY <1>a, <1>r
        DEF EgressInv, ConnectionInv, table, flags, external
<1>7. FreeingInv'
    BY <1>a, <1>r
        DEF EgressInv, FreeingInv, Quiescent, table, flags, external
<1>8. OrderInv'
    <2>1. Len(wire) \in Nat
        BY DEF EgressInv, TypeOK
    <2>2. ASSUME NEW q \in Rows, rows'[q].state = "READY"
          PROVE  rows'[q].sequence \in Len(wire) + 1 .. next_sequence'
        BY <1>a, <1>n, <2>1, <2>2 DEF EgressInv, OrderInv
    <2>3. ASSUME ~failed, NEW s \in Len(wire) + 1 .. next_sequence'
          PROVE  \E q \in Rows : /\ rows'[q].state \in {"READY", "SUBMITTING"}
                                 /\ rows'[q].sequence = s
        <3>1. CASE s = next_sequence + 1
            BY <1>a, <1>r, <3>1
        <3>2. CASE s \in Len(wire) + 1 .. next_sequence
            <4>1. PICK q \in Rows : /\ rows[q].state \in {"READY", "SUBMITTING"}
                                    /\ rows[q].sequence = s
                BY <2>3, <3>2 DEF EgressInv, OrderInv
            <4>2. q # r
                BY <1>r, <4>1
            <4>3. QED
                BY <1>a, <4>1, <4>2
        <3>3. QED
            BY <1>n, <2>1, <2>3, <3>1, <3>2
    <2>4. /\ WirePrefix' /\ Len(wire) <= next_sequence'
          /\ pump.pc \in Working => pump.sequence <= next_sequence'
        BY <1>n, <2>1
            DEF EgressInv, TypeOK, PumpCall, OrderInv, WirePrefix, external
    <2>5. wire' = wire /\ pump' = pump /\ (failed' <=> failed)
        BY DEF external, flags, failed
    <2>6. \A q \in Rows : rows[q].state \in {"READY", "SUBMITTING"} =>
             rows[q].sequence <= next_sequence
        BY <1>n, <2>1 DEF EgressInv, TypeOK, PumpCall, PumpInv, OrderInv
    <2>7. ASSUME NEW p \in Rows, NEW q \in Rows,
                 rows'[p].state \in {"READY", "SUBMITTING"},
                 rows'[q].state \in {"READY", "SUBMITTING"},
                 rows'[p].sequence = rows'[q].sequence
          PROVE  p = q
        <3>1. CASE p = r \/ q = r
            BY <1>a, <1>n, <1>r, <2>6, <2>7, <3>1, SMTT(30) DEF EgressInv, TypeOK, Row
        <3>2. CASE p # r /\ q # r
            BY <1>a, <2>7, <3>2 DEF EgressInv, OrderInv
        <3>3. QED
            BY <3>1, <3>2
    <2>8. QED
        BY <2>2, <2>3, <2>4, <2>5, <2>7 DEF EgressInv, OrderInv
<1>9. FlightInv'
    <2>1. r \notin Accepted
        BY <1>r DEF EgressInv, PumpInv, Working, Accepted
    <2>2. Accepted' = Accepted
        BY <1>a, <1>r, <2>1 DEF Accepted
    <2>3. QED
        BY <1>a, <2>1, <2>2, FlightFrame DEF EgressInv, external, Accepted
<1>10. SettledOnce'
    BY <1>a, <1>b DEF EgressInv, SettledOnce, Counters, failed, flags
<1>11. TerminalDrained'
    BY <1>a, <1>r
        DEF EgressInv, TerminalDrained, UsedRows, RowsIn, table, flags,
            external
<1>12. CloseCancelsReady'
    BY <1>a, <1>r
        DEF EgressInv, CloseCancelsReady, RowsIn, table, flags, external
<1>13. QED
    BY <1>1, <1>2, <1>3, <1>4, <1>5, <1>6, <1>7, <1>8, <1>9, <1>10, <1>11,
        <1>12
        DEF EgressInv

\* ticket_commit.
LEMMA CommitKeeps ==
    ASSUME EgressInv, NEW r \in Rows, ticket_commit(r)
    PROVE  EgressInv'
<1>1. r \in tickets /\ rows[r].state = "RESERVED"
    BY DEF EgressInv, TicketsBorrowRows, RowsIn, ticket_commit
<1>2. CASE closed \/ terminal
    BY <1>1, <1>2, EndTicketKeeps DEF ticket_commit
<1>3. CASE ~closed /\ ~terminal
    BY <1>1, <1>3, ReadyKeeps DEF ticket_commit
<1>4. QED
    BY <1>2, <1>3

\* ticket_discard.
LEMMA DiscardKeeps ==
    ASSUME EgressInv, NEW r \in Rows, ticket_discard(r)
    PROVE  EgressInv'
<1>1. r \in tickets /\ rows[r].state = "RESERVED"
    BY DEF EgressInv, TicketsBorrowRows, RowsIn, ticket_discard
<1>2. QED
    BY <1>1, EndTicketKeeps DEF ticket_discard

-----------------------------------------------------------------------------
(* The end of the connection, close and completions.                       *)

\* No row in use: the table has no ticket, no accepted row, nothing.
LEMMA NoneUsed ==
    ASSUME EgressInv, pending = 0
    PROVE  UsedRows = {}
    BY FiniteRows, FS_Subset, FS_EmptySet, UsedRows \subseteq Rows
        DEF EgressInv, PendingMatchesRows, UsedRows, RowsIn

\* CNet reports that the connection is up or is closing.
LEMMA ReportKeeps ==
    ASSUME EgressInv, NEW state \in {"connected", "closing"},
           observe_state(state)
    PROVE  EgressInv'
<1>f. UNCHANGED <<rows, pending, high_water, next_sequence, tickets,
                  terminal, closed, first_error, in_flight, wire>>
    BY DEF observe_state, table
<1>1. TypeOK'
    BY <1>f DEF EgressInv, TypeOK, observe_state, Reportable
<1>2. PumpInv' /\ OrderInv' /\ Accepted' = Accepted
    BY <1>f DEF EgressInv, PumpInv, OrderInv, WirePrefix, Accepted, failed,
        observe_state, Reportable
<1>3. ConnectionInv' /\ FreeingInv'
    BY <1>f DEF EgressInv, ConnectionInv, FreeingInv, Quiescent,
        observe_state, Reportable
<1>4. UNCHANGED count
    BY DEF observe_state, table
<1>5. QED
    BY <1>f, <1>1, <1>2, <1>3, <1>4, TableFrame

\* CNet reports the end of the connection.
LEMMA EndKeeps ==
    ASSUME EgressInv, NEW state \in {"closed", "failed"}, observe_state(state)
    PROVE  EgressInv'
<1>r. CancelledByEnd \subseteq UsedRows /\ release_row(CancelledByEnd)
    BY DEF CancelledByEnd, UsedRows, RowsIn, RowStates, observe_state
<1>a. /\ rows' \in [Rows -> Row]
      /\ \A q \in Rows : rows'[q] = IF q \in CancelledByEnd THEN FreeRow ELSE rows[q]
      /\ pending' \in Nat /\ pending' <= pending
      /\ pending' = Cardinality(UsedRows')
      /\ Cardinality(CancelledByEnd) \in Nat /\ pending = pending' + Cardinality(CancelledByEnd)
      /\ Cardinality(CancelledByEnd \ Releasable(CancelledByEnd)) = 0
    <2>1. CancelledByEnd \in SUBSET UsedRows /\ release_row(CancelledByEnd)
        BY <1>r
    <2>2. rows' = [q \in Rows |-> IF q \in CancelledByEnd THEN FreeRow ELSE rows[q]]
        BY <2>1, ReleaseKeepsTable DEF EgressInv
    <2>3. QED
        BY <2>1, <2>2, ReleaseKeepsTable DEF EgressInv
<1>b. /\ count' \in [Counters -> Nat]
      /\ count'["cancelled"] = count["cancelled"] + Cardinality(CancelledByEnd)
      /\ \A d \in Counters \ {"cancelled"} : count'[d] = count[d]
    <2>1. Released("cancelled", CancelledByEnd)
        BY DEF observe_state
    <2>2. QED
        BY <1>a, <2>1, ReleasedCounts DEF EgressInv, Counters
<1>c. /\ pump.pc = "idle" /\ bound /\ ~terminal
      /\ \A q \in Rows : rows[q].state # "SUBMITTING"
    BY DEF EgressInv, ConnectionInv, PumpInv, Working, observe_state,
        OwnerPolls, Reportable
<1>d. \A q \in Rows :
        /\ rows'[q].state \in {"FREE", "RESERVED"}
        /\ rows'[q].state = "RESERVED" <=> rows[q].state = "RESERVED"
    BY <1>a, <1>c
        DEF EgressInv, TypeOK, Row, RowStates, CancelledByEnd, RowsIn, FreeRow
<1>e. /\ first_error' \in {"OK", "EIO", "EPROTO"} \cup Statuses
      /\ ~failed' => ~failed
    BY DEF EgressInv, TypeOK, observe_state, set_failure, failed
<1>f. /\ terminal' = TRUE /\ in_flight' = <<>> /\ connection' = state
      /\ connected' \in BOOLEAN
    BY DEF observe_state
<1>g. UNCHANGED <<high_water, next_sequence, bound, closed, pump, freeing,
                  tickets, wire>>
    BY DEF observe_state
<1>1. TypeOK'
    <2>1. <<>> \in Seq(Write)
        OBVIOUS
    <2>2. QED
        BY <1>a, <1>b, <1>e, <1>f, <1>g, <2>1 DEF EgressInv, TypeOK
<1>2. PendingMatchesRows'
    BY <1>a, <1>g DEF EgressInv, PendingMatchesRows, TypeOK
<1>3. TicketsBorrowRows'
    BY <1>d, <1>g DEF EgressInv, TicketsBorrowRows, RowsIn
<1>4. ChecksNeverFire'
    BY <1>b DEF EgressInv, ChecksNeverFire, Counters
<1>5. PumpInv'
    BY <1>c, <1>d, <1>g DEF PumpInv, Working
<1>6. ConnectionInv'
    BY <1>c, <1>f, <1>g DEF EgressInv, ConnectionInv
<1>7. FreeingInv'
    BY <1>c, <1>g DEF EgressInv, FreeingInv, Quiescent
<1>8. OrderInv'
    BY <1>d, <1>f, <1>g, OrderFrame DEF EgressInv
<1>9. FlightInv'
    <2>1. Accepted' = {}
        BY <1>c, <1>d, <1>g DEF Accepted
    <2>2. QED
        BY <1>f, <2>1, FS_EmptySet DEF FlightInv
<1>10. SettledOnce'
    BY <1>a, <1>b, <1>e, SettleFrame DEF EgressInv
<1>11. TerminalDrained'
    BY <1>d DEF TerminalDrained, UsedRows, RowsIn, RowStates
<1>12. CloseCancelsReady'
    BY <1>d DEF CloseCancelsReady, RowsIn
<1>13. QED
    BY <1>1, <1>2, <1>3, <1>4, <1>5, <1>6, <1>7, <1>8, <1>9, <1>10, <1>11,
        <1>12
        DEF EgressInv

\* adapter_close.
LEMMA CloseKeeps ==
    ASSUME EgressInv, adapter_close
    PROVE  EgressInv'
<1>r. CancelledByClose \subseteq UsedRows /\ release_row(CancelledByClose)
    BY DEF CancelledByClose, UsedRows, RowsIn, RowStates, adapter_close
<1>a. /\ rows' \in [Rows -> Row]
      /\ \A q \in Rows : rows'[q] = IF q \in CancelledByClose THEN FreeRow ELSE rows[q]
      /\ pending' \in Nat /\ pending' <= pending
      /\ pending' = Cardinality(UsedRows')
      /\ Cardinality(CancelledByClose) \in Nat /\ pending = pending' + Cardinality(CancelledByClose)
      /\ Cardinality(CancelledByClose \ Releasable(CancelledByClose)) = 0
    <2>1. CancelledByClose \in SUBSET UsedRows /\ release_row(CancelledByClose)
        BY <1>r
    <2>2. rows' = [q \in Rows |-> IF q \in CancelledByClose THEN FreeRow ELSE rows[q]]
        BY <2>1, ReleaseKeepsTable DEF EgressInv
    <2>3. QED
        BY <2>1, <2>2, ReleaseKeepsTable DEF EgressInv
<1>b. /\ count' \in [Counters -> Nat]
      /\ count'["cancelled"] = count["cancelled"] + Cardinality(CancelledByClose)
      /\ \A d \in Counters \ {"cancelled"} : count'[d] = count[d]
    <2>1. Released("cancelled", CancelledByClose)
        BY DEF adapter_close
    <2>2. QED
        BY <1>a, <2>1, ReleasedCounts DEF EgressInv, Counters
<1>d. \A q \in Rows : IF rows[q].state = "READY"
                           THEN rows'[q].state = "FREE"
                           ELSE rows'[q] = rows[q]
    BY <1>a DEF CancelledByClose, RowsIn, FreeRow
<1>f. /\ ~closed /\ closed' = TRUE
      /\ UNCHANGED <<high_water, next_sequence, bound, connected, terminal,
                     first_error, pump, freeing, tickets, connection,
                     in_flight, wire>>
    BY DEF adapter_close, external
<1>1. TypeOK'
    BY <1>a, <1>b, <1>f DEF EgressInv, TypeOK
<1>2. PendingMatchesRows'
    BY <1>a, <1>f DEF EgressInv, PendingMatchesRows, TypeOK
<1>3. TicketsBorrowRows'
    BY <1>d, <1>f DEF EgressInv, TicketsBorrowRows, RowsIn
<1>4. ChecksNeverFire'
    BY <1>b DEF EgressInv, ChecksNeverFire, Counters
<1>5. PumpInv'
    <2>1. /\ pump.pc \in Working => rows'[pump.row] = rows[pump.row]
          /\ \A q \in Rows : rows'[q].state = "SUBMITTING" =>
                pump.pc \in Working /\ q = pump.row
        BY <1>d DEF EgressInv, TypeOK, PumpCall, PumpInv
    <2>2. QED
        BY <1>f, <2>1 DEF EgressInv, PumpInv, failed
<1>6. ConnectionInv'
    BY <1>f DEF EgressInv, ConnectionInv
<1>7. FreeingInv'
    BY <1>f DEF EgressInv, FreeingInv, Quiescent
<1>8. OrderInv'
    BY <1>d, <1>f, OrderFrame DEF EgressInv
<1>9. FlightInv'
    <2>1. \A q \in Accepted : rows[q].state # "READY"
        BY DEF EgressInv, PumpInv, Working, Accepted
    <2>2. Accepted' = Accepted
        BY <1>d, <1>f, <2>1 DEF Accepted
    <2>3. QED
        BY <1>d, <1>f, <2>1, <2>2, FlightFrame DEF EgressInv, Accepted
<1>10. SettledOnce'
    BY <1>a, <1>b, <1>f, SettleFrame DEF EgressInv, failed
<1>11. TerminalDrained'
    BY <1>d, <1>f DEF EgressInv, TerminalDrained, UsedRows, RowsIn, RowStates
<1>12. CloseCancelsReady'
    BY <1>d DEF CloseCancelsReady, RowsIn
<1>13. QED
    BY <1>1, <1>2, <1>3, <1>4, <1>5, <1>6, <1>7, <1>8, <1>9, <1>10, <1>11,
        <1>12
        DEF EgressInv

\* CNet completes a write: the earliest SUBMITTED row is the one it belongs to.
LEMMA CompletionKeeps ==
    ASSUME EgressInv, NEW size \in Sizes, observe_send(size)
    PROVE  EgressInv'
<1> DEFINE submitted == RowsIn({"SUBMITTED"})
           row == earliest(submitted)
<1>i. /\ pump.pc = "idle" /\ Len(in_flight) \in Nat \ {0}
      /\ in_flight \in Seq(Write) /\ in_flight' = Tail(in_flight)
    BY DEF EgressInv, TypeOK, observe_send, OwnerPolls
<1>j. Accepted = submitted
    BY <1>i DEF Accepted, RowsIn
<1>k. PICK first \in Accepted : rows[first].sequence = in_flight[1].sequence
    <2>1. 1 \in 1 .. Len(in_flight)
        BY <1>i
    <2>2. QED
        BY <2>1 DEF EgressInv, FlightInv
<1>l. \A i \in 1 .. Len(in_flight) : in_flight[i].sequence \in Nat
    <2>1. \A i \in 1 .. Len(in_flight) : in_flight[i] \in Write
        BY <1>i
    <2>2. QED
        BY <2>1 DEF Write
<1>m. \A q \in Accepted : rows[first].sequence <= rows[q].sequence
    <2> SUFFICES ASSUME NEW q \in Accepted
                 PROVE  rows[first].sequence <= rows[q].sequence
        OBVIOUS
    <2>1. PICK i \in 1 .. Len(in_flight) : rows[q].sequence = in_flight[i].sequence
        BY DEF EgressInv, FlightInv
    <2>2. i = 1 \/ in_flight[1].sequence < in_flight[i].sequence
        BY <1>i, <2>1 DEF EgressInv, FlightInv
    <2>3. 1 \in 1 .. Len(in_flight)
        BY <1>i
    <2>4. QED
        BY <1>k, <1>l, <2>1, <2>2, <2>3
<1>o. row \in submitted /\ \A q \in submitted : rows[row].sequence <= rows[q].sequence
    BY <1>j, <1>k, <1>m DEF earliest
<1>p. row = first
    <2>1. rows[row].sequence \in Nat /\ rows[first].sequence \in Nat
        BY <1>j, <1>k, <1>o DEF EgressInv, TypeOK, Row, RowsIn
    <2>2. rows[row].sequence = rows[first].sequence
        BY <1>j, <1>k, <1>m, <1>o, <2>1
    <2>3. QED
        BY <1>j, <1>k, <1>o, <2>2 DEF EgressInv, FlightInv
<1>q. /\ release_row({row})
      /\ \/ Released("completed", {row}) /\ first_error' = first_error
         \/ ReleasedUncounted({row}) /\ set_failure("EPROTO")
    BY <1>o DEF observe_send
<1>r. row \in Rows /\ rows[row].state = "SUBMITTED" /\ row \in UsedRows
    BY <1>o DEF RowsIn, UsedRows, RowStates
<1> HIDE DEF row, submitted
<1>a. /\ rows' \in [Rows -> Row]
      /\ \A q \in Rows : rows'[q] = IF q \in {row} THEN FreeRow ELSE rows[q]
      /\ pending' \in Nat /\ pending' <= pending
      /\ pending' = Cardinality(UsedRows')
      /\ Cardinality({row}) \in Nat /\ pending = pending' + Cardinality({row})
      /\ Cardinality({row} \ Releasable({row})) = 0
    <2>1. {row} \in SUBSET UsedRows /\ release_row({row})
        BY <1>q, <1>r
    <2>2. rows' = [q \in Rows |-> IF q \in {row} THEN FreeRow ELSE rows[q]]
        BY <2>1, ReleaseKeepsTable DEF EgressInv
    <2>3. QED
        BY <2>1, <2>2, ReleaseKeepsTable DEF EgressInv
<1>b. /\ count' \in [Counters -> Nat]
      /\ count'["invariant_failures"] = count["invariant_failures"]
    <2>1. CASE Released("completed", {row})
        <3>1. /\ count' \in [Counters -> Nat]
              /\ \A d \in Counters \ {"completed"} : count'[d] = count[d]
            BY <1>a, <2>1, ReleasedCounts DEF EgressInv, Counters
        <3>2. QED
            BY <3>1 DEF Counters
    <2>2. CASE ReleasedUncounted({row})
        BY <1>a, <2>2, UncountedCounts DEF EgressInv, Counters
    <2>3. QED
        BY <1>q, <2>1, <2>2
<1>d. rows'[row].state = "FREE" /\ \A q \in Rows \ {row} : rows'[q] = rows[q]
    BY <1>a, <1>r DEF FreeRow
<1>e. /\ first_error' \in {"OK", "EIO", "EPROTO"} \cup Statuses
      /\ ~failed' => ~failed
    BY <1>q DEF EgressInv, TypeOK, set_failure, failed
<1>f. UNCHANGED <<high_water, next_sequence, bound, connected, terminal,
                  closed, pump, freeing, tickets, connection, wire>>
    BY DEF observe_send
<1>1. TypeOK'
    <2>1. Tail(in_flight) \in Seq(Write)
        BY <1>i
    <2>2. QED
        BY <1>a, <1>b, <1>e, <1>f, <1>i, <2>1 DEF EgressInv, TypeOK
<1>2. PendingMatchesRows'
    BY <1>a, <1>f DEF EgressInv, PendingMatchesRows, TypeOK
<1>3. TicketsBorrowRows'
    BY <1>d, <1>f, <1>r DEF EgressInv, TicketsBorrowRows, RowsIn
<1>4. ChecksNeverFire'
    BY <1>b DEF EgressInv, ChecksNeverFire
<1>5. PumpInv'
    BY <1>d, <1>f, <1>i, <1>r DEF EgressInv, PumpInv, Working
<1>6. ConnectionInv'
    BY <1>f DEF EgressInv, ConnectionInv
<1>7. FreeingInv'
    <2>1. pending # 0
        BY <1>r, NoneUsed
    <2>2. QED
        BY <1>f, <2>1 DEF EgressInv, FreeingInv, Quiescent
<1>8. OrderInv'
    BY <1>d, <1>e, <1>f, <1>r, OrderFrame DEF EgressInv, OrderInv
<1>9. FlightInv'
    <2>1. Accepted' = Accepted \ {row} /\ row \in Accepted
        BY <1>d, <1>f, <1>i, <1>r DEF Accepted
    <2>2. Cardinality(Accepted') = Cardinality(Accepted) - 1
        <3>1. IsFiniteSet(Accepted)
            BY FiniteRows, FS_Subset, Accepted \subseteq Rows DEF Accepted
        <3>2. QED
            BY <2>1, <3>1, FS_RemoveElement
    <2>3. Len(in_flight') = Cardinality(Accepted')
        BY <1>i, <2>2 DEF EgressInv, FlightInv
    <2>4. \A i \in 1 .. Len(in_flight') :
             /\ i + 1 \in 1 .. Len(in_flight)
             /\ in_flight'[i] = in_flight[i + 1]
        BY <1>i
    <2>5. ASSUME NEW i \in 1 .. Len(in_flight')
          PROVE  \E q \in Accepted' : /\ rows'[q].sequence = in_flight'[i].sequence
                                      /\ rows'[q].size = in_flight'[i].size
        <3>1. PICK q \in Accepted : /\ rows[q].sequence = in_flight[i + 1].sequence
                                    /\ rows[q].size = in_flight[i + 1].size
            BY <2>4 DEF EgressInv, FlightInv
        <3>2. in_flight[1].sequence < in_flight[i + 1].sequence
            BY <1>i, <2>4 DEF EgressInv, FlightInv
        <3>3. q # row
            BY <1>i, <1>k, <1>l, <1>p, <2>4, <3>1, <3>2
        <3>4. QED
            BY <1>d, <2>1, <2>4, <3>1, <3>3 DEF Accepted
    <2>6. ASSUME NEW i \in 1 .. Len(in_flight'),
                 NEW j \in 1 .. Len(in_flight'), i < j
          PROVE  in_flight'[i].sequence < in_flight'[j].sequence
        <3>1. i + 1 < j + 1
            BY <2>6
        <3>2. in_flight[i + 1].sequence < in_flight[j + 1].sequence
            BY <2>4, <3>1 DEF EgressInv, FlightInv
        <3>3. QED
            BY <2>4, <3>2
    <2>7. ASSUME NEW q \in Accepted'
          PROVE  \E i \in 1 .. Len(in_flight') :
                    rows'[q].sequence = in_flight'[i].sequence
        <3>1. q \in Accepted /\ q # row /\ rows'[q] = rows[q]
            BY <1>d, <2>1 DEF Accepted
        <3>2. PICK i \in 1 .. Len(in_flight) :
                    rows[q].sequence = in_flight[i].sequence
            BY <3>1 DEF EgressInv, FlightInv
        <3>3. i # 1
            BY <1>k, <1>p, <3>1, <3>2 DEF EgressInv, FlightInv
        <3>4. i - 1 \in 1 .. Len(in_flight') /\ (i - 1) + 1 = i
            BY <1>i, <3>2, <3>3
        <3>5. in_flight'[i - 1] = in_flight[i]
            BY <2>4, <3>4
        <3>6. QED
            BY <3>1, <3>2, <3>4, <3>5
    <2>8. \A q \in Accepted' : q \in Accepted /\ rows'[q] = rows[q]
        BY <1>d, <2>1 DEF Accepted
    <2>9. /\ \A q \in Accepted' : rows'[q].sequence <= Len(wire')
          /\ \A q, s \in Accepted' : rows'[q].sequence = rows'[s].sequence => q = s
        BY <1>f, <2>8 DEF EgressInv, FlightInv
    <2>10. QED
        BY <2>3, <2>5, <2>6, <2>7, <2>9 DEF FlightInv
<1>10. SettledOnce'
    <2>1. CASE Released("completed", {row}) /\ first_error' = first_error
        <3>1. /\ count'["completed"] = count["completed"] + Cardinality({row})
              /\ \A d \in Counters \ {"completed"} : count'[d] = count[d]
            BY <1>a, <2>1, ReleasedCounts DEF EgressInv, Counters
        <3>2. QED
            BY <1>a, <1>e, <3>1, SettleFrame DEF EgressInv
    <2>2. CASE set_failure("EPROTO")
        BY <2>2 DEF SettledOnce, set_failure, failed
    <2>3. QED
        BY <1>q, <2>1, <2>2
<1>11. TerminalDrained'
    BY <1>d, <1>f, <1>r DEF EgressInv, TerminalDrained, UsedRows, RowsIn, RowStates
<1>12. CloseCancelsReady'
    BY <1>d, <1>f DEF EgressInv, CloseCancelsReady, RowsIn
<1>13. QED
    BY <1>1, <1>2, <1>3, <1>4, <1>5, <1>6, <1>7, <1>8, <1>9, <1>10, <1>11,
        <1>12
        DEF EgressInv

-----------------------------------------------------------------------------
(* The pump.                                                               *)

\* The pump's call is in range after a change of its position.
LEMMA PumpMoves ==
    ASSUME TypeOK,
           NEW pc \in {"idle", "select", "buffer", "send", "record", "end"},
           pump' = [pump EXCEPT !.pc = pc]
    PROVE  /\ pump' \in PumpCall /\ pump'.pc = pc /\ pump'.row = pump.row
           /\ pump'.sequence = pump.sequence /\ pump'.status = pump.status
           /\ pump'.left = pump.left
    BY DEF TypeOK, PumpCall

\* The pump gives up its row: the bridge has stopped or stops with it.
LEMMA PumpDropsKeeps ==
    ASSUME EgressInv, pump.pc \in Working,
           ~(pump.pc = "record" /\ pump.status = "OK"),
           release_row({pump.row}), pump' = [pump EXCEPT !.pc = "end"],
           count' \in [Counters -> Nat],
           count'["invariant_failures"] = count["invariant_failures"],
           first_error' \in {"OK", "EIO", "EPROTO"} \cup Statuses,
           closed \/ terminal \/ failed',
           SettledOnce',
           UNCHANGED <<high_water, next_sequence, bound, connected, terminal,
                       closed, freeing, tickets, connection, in_flight, wire>>
    PROVE  EgressInv'
<1>w. pump.pc # "idle"
    BY DEF Working
<1>r. /\ pump.row \in Rows /\ rows[pump.row].state = "SUBMITTING"
      /\ pump.row \in UsedRows
    BY DEF EgressInv, TypeOK, PumpCall, PumpInv, UsedRows, RowsIn, RowStates
<1>a. /\ rows' \in [Rows -> Row]
      /\ \A q \in Rows : rows'[q] = IF q \in {pump.row} THEN FreeRow ELSE rows[q]
      /\ pending' \in Nat /\ pending' <= pending
      /\ pending' = Cardinality(UsedRows')
      /\ Cardinality({pump.row}) \in Nat /\ pending = pending' + Cardinality({pump.row})
      /\ Cardinality({pump.row} \ Releasable({pump.row})) = 0
    <2>1. {pump.row} \in SUBSET UsedRows /\ release_row({pump.row})
        BY <1>r
    <2>2. rows' = [q \in Rows |-> IF q \in {pump.row} THEN FreeRow ELSE rows[q]]
        BY <2>1, ReleaseKeepsTable DEF EgressInv
    <2>3. QED
        BY <2>1, <2>2, ReleaseKeepsTable DEF EgressInv
<1>d. /\ rows'[pump.row].state = "FREE"
      /\ \A q \in Rows \ {pump.row} : rows'[q] = rows[q]
    BY <1>a, <1>r DEF FreeRow
<1>f. UNCHANGED <<high_water, next_sequence, bound, connected, terminal,
                  closed, freeing, tickets, connection, in_flight, wire>>
    OBVIOUS
<1>p. pump' \in PumpCall /\ pump'.pc = "end"
    BY PumpMoves DEF EgressInv
<1>1. TypeOK'
    BY <1>a, <1>f, <1>p DEF EgressInv, TypeOK
<1>2. PendingMatchesRows'
    BY <1>a, <1>f DEF EgressInv, PendingMatchesRows, TypeOK
<1>3. TicketsBorrowRows'
    BY <1>d, <1>f, <1>r DEF EgressInv, TicketsBorrowRows, RowsIn
<1>4. ChecksNeverFire'
    BY DEF EgressInv, ChecksNeverFire
<1>5. PumpInv'
    <2>1. ~terminal'
        BY <1>f, <1>w DEF EgressInv, PumpInv
    <2>2. \A q \in Rows : rows'[q].state # "SUBMITTING"
        BY <1>d, <1>r DEF EgressInv, PumpInv
    <2>3. QED
        BY <1>p, <2>1, <2>2 DEF PumpInv, Working
<1>6. ConnectionInv'
    BY <1>f DEF EgressInv, ConnectionInv
<1>7. FreeingInv'
    BY <1>f, <1>w DEF EgressInv, FreeingInv, Quiescent, Working
<1>8. OrderInv'
    <2>1. \A q \in Rows : rows'[q].state = "READY" =>
             rows'[q].sequence \in Len(wire) + 1 .. next_sequence
        BY <1>d, <1>r DEF EgressInv, OrderInv
    <2>2. \A q \in Rows : rows'[q].state \in {"READY", "SUBMITTING"} =>
             /\ rows[q].state \in {"READY", "SUBMITTING"}
             /\ rows'[q].sequence = rows[q].sequence
        BY <1>d, <1>r
    <2>3. QED
        BY <1>f, <1>p, <2>1, <2>2, OrderFrame DEF EgressInv
<1>9. FlightInv'
    <2>1. Accepted' = Accepted /\ \A q \in Accepted : rows'[q] = rows[q]
        BY <1>d, <1>p, <1>r DEF Accepted
    <2>2. QED
        BY <1>f, <2>1, FlightFrame DEF EgressInv
<1>10. SettledOnce'
    OBVIOUS
<1>11. TerminalDrained'
    BY <1>f, <1>w DEF EgressInv, PumpInv, TerminalDrained
<1>12. CloseCancelsReady'
    BY <1>d, <1>f DEF EgressInv, CloseCancelsReady, RowsIn
<1>13. QED
    BY <1>1, <1>2, <1>3, <1>4, <1>5, <1>6, <1>7, <1>8, <1>9, <1>10, <1>11,
        <1>12
        DEF EgressInv

\* The pump puts its row back.
LEMMA PumpReturnsKeeps ==
    ASSUME EgressInv, pump.pc \in Working,
           ~(pump.pc = "record" /\ pump.status = "OK"), ~closed,
           SetState(pump.row, "READY"), pump' = [pump EXCEPT !.pc = "end"],
           count' \in [Counters -> Nat],
           \A d \in Counters \ {"transient_full"} : count'[d] = count[d],
           UNCHANGED <<pending, first_error, high_water, next_sequence, bound,
                       connected, terminal, closed, freeing, tickets,
                       connection, in_flight, wire>>
    PROVE  EgressInv'
<1>w. pump.pc # "idle"
    BY DEF Working
<1>r. /\ pump.row \in Rows /\ rows[pump.row].state = "SUBMITTING"
      /\ pump.row \in UsedRows /\ rows[pump.row].sequence = pump.sequence
    BY DEF EgressInv, TypeOK, PumpCall, PumpInv, UsedRows, RowsIn, RowStates
<1>a. /\ rows' \in [Rows -> Row]
      /\ rows'[pump.row].state = "READY"
      /\ rows'[pump.row].sequence = pump.sequence
      /\ \A q \in Rows \ {pump.row} : rows'[q] = rows[q]
      /\ pending' = Cardinality(UsedRows')
    <2>1. "READY" \in RowStates \ {"FREE"} /\ pump.sequence \in Nat
        BY DEF EgressInv, TypeOK, PumpCall, RowStates
    <2>2. Restate(pump.row, "READY", pump.sequence)
        BY <1>r DEF SetState
    <2>3. QED
        BY <1>r, <2>1, <2>2, MoveKeepsTable DEF EgressInv
<1>f. UNCHANGED <<pending, first_error, high_water, next_sequence, bound,
                  connected, terminal, closed, freeing, tickets, connection,
                  in_flight, wire>>
    OBVIOUS
<1>p. pump' \in PumpCall /\ pump'.pc = "end"
    BY PumpMoves DEF EgressInv
<1>s. ~terminal
    BY <1>w DEF EgressInv, PumpInv
<1>1. TypeOK'
    BY <1>a, <1>f, <1>p DEF EgressInv, TypeOK
<1>2. PendingMatchesRows'
    BY <1>a, <1>f DEF EgressInv, PendingMatchesRows, TypeOK
<1>3. TicketsBorrowRows'
    BY <1>a, <1>f, <1>r DEF EgressInv, TicketsBorrowRows, RowsIn
<1>4. ChecksNeverFire'
    BY DEF EgressInv, ChecksNeverFire, Counters
<1>5. PumpInv'
    <2>1. \A q \in Rows : rows'[q].state # "SUBMITTING"
        BY <1>a, <1>r DEF EgressInv, PumpInv
    <2>2. QED
        BY <1>f, <1>p, <1>s, <2>1 DEF PumpInv, Working
<1>6. ConnectionInv'
    BY <1>f DEF EgressInv, ConnectionInv
<1>7. FreeingInv'
    BY <1>f, <1>w DEF EgressInv, FreeingInv, Quiescent, Working
<1>8. OrderInv'
    <2>1. pump.sequence \in Len(wire) + 1 .. next_sequence
        BY DEF EgressInv, TypeOK, PumpCall, OrderInv, Working
    <2>2. \A q \in Rows : rows'[q].state = "READY" =>
             rows'[q].sequence \in Len(wire) + 1 .. next_sequence
        BY <1>a, <1>r, <2>1 DEF EgressInv, OrderInv
    <2>3. \A q \in Rows :
             /\ rows'[q].state \in {"READY", "SUBMITTING"} <=>
                rows[q].state \in {"READY", "SUBMITTING"}
             /\ rows'[q].sequence = rows[q].sequence
        BY <1>a, <1>r
    <2>4. QED
        BY <1>f, <1>p, <2>2, <2>3, OrderFrame DEF EgressInv, failed
<1>9. FlightInv'
    <2>1. Accepted' = Accepted /\ \A q \in Accepted : rows'[q] = rows[q]
        BY <1>a, <1>p, <1>r DEF Accepted
    <2>2. QED
        BY <1>f, <2>1, FlightFrame DEF EgressInv
<1>10. SettledOnce'
    BY <1>f DEF EgressInv, SettledOnce, Counters, failed
<1>11. TerminalDrained'
    BY <1>f, <1>s DEF TerminalDrained
<1>12. CloseCancelsReady'
    BY <1>f DEF CloseCancelsReady
<1>13. QED
    BY <1>1, <1>2, <1>3, <1>4, <1>5, <1>6, <1>7, <1>8, <1>9, <1>10, <1>11,
        <1>12
        DEF EgressInv

\* The loop of the pump ends.
LEMMA PumpStopsKeeps ==
    ASSUME EgressInv, pump.pc = "select", pump' = [pump EXCEPT !.pc = "end"],
           UNCHANGED <<table, high_water, next_sequence, count, flags, freeing,
                       tickets, external>>
    PROVE  EgressInv'
<1>f. UNCHANGED <<rows, pending, high_water, next_sequence, tickets,
                  terminal, closed, first_error, in_flight, wire>>
    BY DEF table, flags, external
<1>p. /\ pump' \in PumpCall /\ pump'.pc = "end" /\ pump'.row = pump.row
      /\ pump'.sequence = pump.sequence /\ pump'.status = pump.status
      /\ pump'.left = pump.left
    BY PumpMoves DEF EgressInv
<1>1. TypeOK'
    BY <1>p, <1>f DEF EgressInv, TypeOK, table, flags, external
<1>2. PumpInv' /\ OrderInv' /\ Accepted' = Accepted
    BY <1>f, <1>p DEF EgressInv, PumpInv, OrderInv, WirePrefix, Accepted,
        Working, failed, table, flags, external
<1>3. ConnectionInv' /\ FreeingInv'
    BY <1>p, <1>f DEF EgressInv, ConnectionInv, FreeingInv, Quiescent,
        table, flags, external
<1>4. UNCHANGED count
    BY DEF table, flags, external
<1>5. QED
    BY <1>f, <1>1, <1>2, <1>3, <1>4, TableFrame

\* The pump is about to offer its row to CNet.
LEMMA PumpOffersKeeps ==
    ASSUME EgressInv, pump.pc = "buffer", pump' = [pump EXCEPT !.pc = "send"],
           UNCHANGED <<table, high_water, next_sequence, count, flags, freeing,
                       tickets, external>>
    PROVE  EgressInv'
<1>f. UNCHANGED <<rows, pending, high_water, next_sequence, tickets,
                  terminal, closed, first_error, in_flight, wire>>
    BY DEF table, flags, external
<1>p. /\ pump' \in PumpCall /\ pump'.pc = "send" /\ pump'.row = pump.row
      /\ pump'.sequence = pump.sequence /\ pump'.status = pump.status
      /\ pump'.left = pump.left
    BY PumpMoves DEF EgressInv
<1>1. TypeOK'
    BY <1>p, <1>f DEF EgressInv, TypeOK, table, flags, external
<1>2. PumpInv' /\ OrderInv' /\ Accepted' = Accepted
    BY <1>f, <1>p DEF EgressInv, PumpInv, OrderInv, WirePrefix, Accepted,
        Working, failed, table, flags, external
<1>3. ConnectionInv' /\ FreeingInv'
    BY <1>p, <1>f DEF EgressInv, ConnectionInv, FreeingInv, Quiescent,
        table, flags, external
<1>4. UNCHANGED count
    BY DEF table, flags, external
<1>5. QED
    BY <1>f, <1>1, <1>2, <1>3, <1>4, TableFrame

\* CNet refuses the write.
LEMMA PumpRefusedKeeps ==
    ASSUME EgressInv, pump.pc = "send", NEW status \in Statuses \ {"OK"},
           pump' = [pump EXCEPT !.pc = "record", !.status = status],
           UNCHANGED <<table, high_water, next_sequence, count, flags, freeing,
                       tickets, external>>
    PROVE  EgressInv'
<1>f. UNCHANGED <<rows, pending, high_water, next_sequence, tickets,
                  terminal, closed, first_error, in_flight, wire>>
    BY DEF table, flags, external
<1>p. /\ pump' \in PumpCall /\ pump'.pc = "record" /\ pump'.row = pump.row
      /\ pump'.sequence = pump.sequence /\ pump'.status = status
      /\ status # "OK" /\ pump'.left = pump.left
    BY DEF EgressInv, TypeOK, PumpCall
<1>1. TypeOK'
    BY <1>p, <1>f DEF EgressInv, TypeOK, table, flags, external
<1>2. PumpInv' /\ OrderInv' /\ Accepted' = Accepted
    BY <1>f, <1>p DEF EgressInv, PumpInv, OrderInv, WirePrefix, Accepted,
        Working, failed, table, flags, external
<1>3. ConnectionInv' /\ FreeingInv'
    BY <1>p, <1>f DEF EgressInv, ConnectionInv, FreeingInv, Quiescent,
        table, flags, external
<1>4. UNCHANGED count
    BY DEF table, flags, external
<1>5. QED
    BY <1>f, <1>1, <1>2, <1>3, <1>4, TableFrame

\* CNet accepts the write.
LEMMA PumpAcceptedKeeps ==
    ASSUME EgressInv, cnet_send_buffer("OK")
    PROVE  EgressInv'
<1>p. /\ pump.pc = "send" /\ pump' \in PumpCall /\ pump'.pc = "record"
      /\ pump'.row = pump.row /\ pump'.sequence = pump.sequence
      /\ pump'.status = "OK" /\ pump'.left = pump.left
    BY DEF EgressInv, TypeOK, PumpCall, Statuses, cnet_send_buffer
<1>f. UNCHANGED <<rows, pending, high_water, next_sequence, count, bound,
                  connected, terminal, closed, first_error, freeing, tickets,
                  connection>>
    BY DEF cnet_send_buffer, table, flags
<1>r. /\ pump.row \in Rows /\ rows[pump.row].state = "SUBMITTING"
      /\ rows[pump.row].sequence = pump.sequence
      /\ rows[pump.row].size \in Nat /\ pump.sequence \in Nat
    BY <1>p DEF EgressInv, TypeOK, PumpCall, PumpInv, Row, Working
<1>n. /\ wire \in Seq(Nat) /\ wire' = Append(wire, pump.sequence)
      /\ pump.sequence = Len(wire) + 1 /\ pump.sequence <= next_sequence
      /\ next_sequence \in Nat
    BY <1>p DEF EgressInv, TypeOK, OrderInv, Working, cnet_send_buffer
<1>o. /\ wire' \in Seq(Nat) /\ Len(wire') = Len(wire) + 1
      /\ \A i \in 1 .. Len(wire) : wire'[i] = wire[i]
      /\ wire'[Len(wire) + 1] = Len(wire) + 1
    BY <1>n, <1>r
<1> DEFINE write == [sequence |-> pump.sequence, size |-> rows[pump.row].size]
<1>w. write \in Write /\ write.sequence = pump.sequence
                      /\ write.size = rows[pump.row].size
    BY <1>r DEF Write
<1>v. in_flight \in Seq(Write) /\ in_flight' = Append(in_flight, write)
    BY DEF EgressInv, TypeOK, cnet_send_buffer
<1> HIDE DEF write
<1>x. /\ in_flight' \in Seq(Write) /\ Len(in_flight') = Len(in_flight) + 1
      /\ Len(in_flight) \in Nat
      /\ \A i \in 1 .. Len(in_flight) : in_flight'[i] = in_flight[i]
      /\ in_flight'[Len(in_flight) + 1] = write
    BY <1>v, <1>w
<1>1. TypeOK'
    BY <1>f, <1>o, <1>p, <1>x DEF EgressInv, TypeOK
<1>2. PendingMatchesRows'
    BY <1>p, <1>f
        DEF EgressInv, PendingMatchesRows, UsedRows, RowsIn, flags
<1>3. TicketsBorrowRows'
    BY <1>p, <1>f
        DEF EgressInv, TicketsBorrowRows, RowsIn, flags
<1>4. ChecksNeverFire'
    BY <1>p, <1>f
        DEF EgressInv, ChecksNeverFire, TypeOK, Counters, flags
<1>5. PumpInv'
    BY <1>p, <1>f
        DEF EgressInv, PumpInv, Working, failed, flags
<1>6. ConnectionInv'
    BY <1>p, <1>f
        DEF EgressInv, ConnectionInv, flags
<1>7. FreeingInv'
    BY <1>f, <1>p DEF EgressInv, FreeingInv, Quiescent
<1>8. OrderInv'
    <2>1. Len(wire) \in Nat
        BY <1>n
    <2>2. WirePrefix'
        BY <1>o, <2>1 DEF EgressInv, OrderInv, WirePrefix
    <2>3. ASSUME NEW q \in Rows, rows'[q].state = "READY"
          PROVE  rows'[q].sequence \in Len(wire') + 1 .. next_sequence'
        <3>1. rows[q].sequence \in Len(wire) + 1 .. next_sequence
            BY <1>f, <2>3 DEF EgressInv, OrderInv
        <3>2. rows[q].sequence # Len(wire) + 1
            BY <1>f, <1>n, <1>r, <2>3 DEF EgressInv, OrderInv
        <3>3. QED
            BY <1>f, <1>o, <2>1, <3>1, <3>2
    <2>4. ASSUME ~closed' /\ ~terminal' /\ ~failed',
                 NEW s \in Len(wire') + 1 .. next_sequence'
          PROVE  \E q \in Rows : /\ rows'[q].state \in {"READY", "SUBMITTING"}
                                 /\ rows'[q].sequence = s
        <3>1. s \in Len(wire) + 1 .. next_sequence
            BY <1>f, <1>o, <2>1
        <3>2. ~failed
            BY <1>f, <2>4 DEF failed
        <3>3. QED
            BY <1>f, <2>4, <3>1, <3>2 DEF EgressInv, OrderInv
    <2>5. /\ Len(wire') <= next_sequence' /\ pump'.sequence = Len(wire')
          /\ pump'.sequence <= next_sequence'
        BY <1>f, <1>n, <1>o, <1>p
    <2>6. QED
        BY <1>f, <1>p, <2>2, <2>3, <2>4, <2>5 DEF EgressInv, OrderInv, Working
<1>9. FlightInv'
    <2>1. Accepted' = Accepted \cup {pump.row} /\ pump.row \notin Accepted
        BY <1>f, <1>p, <1>r DEF Accepted
    <2>2. Len(in_flight') = Cardinality(Accepted')
        <3>1. IsFiniteSet(Accepted)
            BY FiniteRows, FS_Subset, Accepted \subseteq Rows DEF Accepted
        <3>2. QED
            BY <1>x, <2>1, <3>1, FS_AddElement DEF EgressInv, FlightInv
    <2>3. \A q \in Accepted : rows[q].sequence \in Nat /\ rows[q].sequence <= Len(wire)
        BY DEF EgressInv, TypeOK, Row, FlightInv, Accepted
    <2>4. \A i \in 1 .. Len(in_flight) : /\ in_flight[i].sequence \in Nat
                                         /\ in_flight[i].sequence < pump.sequence
        <3>1. Len(wire) \in Nat
            BY <1>n
        <3>2. QED
            BY <1>n, <2>3, <3>1, SMTT(30) DEF EgressInv, FlightInv
    <2>5. ASSUME NEW i \in 1 .. Len(in_flight')
          PROVE  \E q \in Accepted' : /\ rows'[q].sequence = in_flight'[i].sequence
                                      /\ rows'[q].size = in_flight'[i].size
        <3>1. CASE i = Len(in_flight) + 1
            BY <1>f, <1>r, <1>w, <1>x, <2>1, <3>1
        <3>2. CASE i \in 1 .. Len(in_flight)
            <4>1. PICK q \in Accepted : /\ rows[q].sequence = in_flight[i].sequence
                                        /\ rows[q].size = in_flight[i].size
                BY <3>2 DEF EgressInv, FlightInv
            <4>2. QED
                BY <1>f, <1>x, <2>1, <3>2, <4>1
        <3>3. QED
            BY <1>x, <3>1, <3>2
    <2>6. ASSUME NEW i \in 1 .. Len(in_flight'),
                 NEW j \in 1 .. Len(in_flight'), i < j
          PROVE  in_flight'[i].sequence < in_flight'[j].sequence
        <3>1. i \in 1 .. Len(in_flight) /\ in_flight'[i] = in_flight[i]
            BY <1>x, <2>6
        <3>2. CASE j = Len(in_flight) + 1
            BY <1>w, <1>x, <2>4, <3>1, <3>2
        <3>3. CASE j \in 1 .. Len(in_flight)
            BY <1>x, <2>6, <3>1, <3>3 DEF EgressInv, FlightInv
        <3>4. QED
            BY <1>x, <3>2, <3>3
    <2>7. ASSUME NEW q \in Accepted'
          PROVE  \E i \in 1 .. Len(in_flight') :
                    rows'[q].sequence = in_flight'[i].sequence
        <3>1. CASE q = pump.row
            <4>1. Len(in_flight) + 1 \in 1 .. Len(in_flight')
                BY <1>x
            <4>2. QED
                BY <1>f, <1>r, <1>w, <1>x, <3>1, <4>1
        <3>2. CASE q \in Accepted
            <4>1. PICK i \in 1 .. Len(in_flight) :
                        rows[q].sequence = in_flight[i].sequence
                BY <3>2 DEF EgressInv, FlightInv
            <4>2. i \in 1 .. Len(in_flight')
                BY <1>x
            <4>3. QED
                BY <1>f, <1>x, <4>1, <4>2
        <3>3. QED
            BY <2>1, <3>1, <3>2
    <2>8. \A q \in Accepted' : rows'[q].sequence <= Len(wire')
        BY <1>f, <1>n, <1>o, <1>r, <2>1, <2>3
    <2>9. ASSUME NEW p \in Accepted', NEW q \in Accepted',
                 rows'[p].sequence = rows'[q].sequence
          PROVE  p = q
        <3>1. \A a \in Accepted : rows[a].sequence # pump.sequence
            BY <1>n, <2>3
        <3>2. QED
            BY <1>f, <1>r, <2>1, <2>9, <3>1 DEF EgressInv, FlightInv
    <2>10. QED
        BY <2>2, <2>5, <2>6, <2>7, <2>8, <2>9 DEF FlightInv
<1>10. SettledOnce'
    BY <1>p, <1>f
        DEF EgressInv, SettledOnce, TypeOK, Counters, failed, flags
<1>11. TerminalDrained'
    BY <1>p, <1>f
        DEF EgressInv, TerminalDrained, UsedRows, RowsIn, flags
<1>12. CloseCancelsReady'
    BY <1>p, <1>f
        DEF EgressInv, CloseCancelsReady, RowsIn, flags
<1>13. QED
    BY <1>1, <1>2, <1>3, <1>4, <1>5, <1>6, <1>7, <1>8, <1>9, <1>10, <1>11,
        <1>12
        DEF EgressInv

\* The pump takes the earliest READY row: it is the next on the wire.
LEMMA PumpTakesKeeps ==
    ASSUME EgressInv, pump.pc = "select", pump.left > 0, ~closed, ~terminal,
           RowsIn({"READY"}) # {}, NEW row, row = earliest(RowsIn({"READY"})),
           SetState(row, "SUBMITTING"),
           pump' = [pump EXCEPT !.pc = "buffer", !.row = row,
                                !.sequence = rows[row].sequence],
           UNCHANGED <<pending, high_water, next_sequence, count, flags,
                       freeing, tickets, external>>
    PROVE  EgressInv'
<1>w. pump.pc # "idle" /\ pump.pc \notin Working
    BY DEF Working
<1>f. UNCHANGED <<pending, first_error, high_water, next_sequence, bound,
                  connected, terminal, closed, freeing, tickets, connection,
                  in_flight, wire>>
    BY DEF flags, external
<1>s. ~terminal /\ ~failed
    BY DEF EgressInv, PumpInv
<1>b. UNCHANGED count
    OBVIOUS
<1>l. Len(wire) \in Nat /\ next_sequence \in Nat
    BY DEF EgressInv, TypeOK
<1>m. \A q \in RowsIn({"READY"}) :
        rows[q].sequence \in Len(wire) + 1 .. next_sequence
    BY DEF EgressInv, OrderInv, RowsIn
<1>o. PICK next \in RowsIn({"READY"}) : rows[next].sequence = Len(wire) + 1
    <2>1. Len(wire) + 1 \in Len(wire) + 1 .. next_sequence
        BY <1>l, <1>m
    <2>2. PICK q \in Rows : /\ rows[q].state \in {"READY", "SUBMITTING"}
                            /\ rows[q].sequence = Len(wire) + 1
        BY <1>s, <2>1 DEF EgressInv, OrderInv
    <2>3. rows[q].state # "SUBMITTING"
        BY <1>w DEF EgressInv, PumpInv
    <2>4. QED
        BY <2>2, <2>3 DEF RowsIn
<1>q. row \in RowsIn({"READY"}) /\ rows[row].sequence <= rows[next].sequence
    <2>1. \A q \in RowsIn({"READY"}) : rows[next].sequence <= rows[q].sequence
        BY <1>l, <1>m, <1>o
    <2>2. QED
        BY <1>o, <2>1 DEF earliest
<1>r. /\ row \in Rows /\ rows[row].state = "READY" /\ row \in UsedRows
      /\ rows[row].sequence = Len(wire) + 1
      /\ rows[row].sequence \in Nat /\ rows[row].sequence <= next_sequence
    BY <1>l, <1>m, <1>o, <1>q DEF RowsIn, UsedRows, RowStates
<1>a. /\ rows' \in [Rows -> Row]
      /\ rows'[row].state = "SUBMITTING"
      /\ rows'[row].sequence = rows[row].sequence
      /\ rows'[row].size = rows[row].size
      /\ \A q \in Rows \ {row} : rows'[q] = rows[q]
      /\ pending' = Cardinality(UsedRows')
    <2>1. "SUBMITTING" \in RowStates \ {"FREE"} /\ rows[row].sequence \in Nat
        BY <1>r DEF EgressInv, TypeOK, PumpCall, Row, RowStates
    <2>2. Restate(row, "SUBMITTING", rows[row].sequence) /\ UNCHANGED pending
        BY <1>f, <1>r DEF SetState
    <2>3. QED
        BY <1>r, <2>1, <2>2, MoveKeepsTable DEF EgressInv
<1>p. /\ pump' \in PumpCall /\ pump'.pc = "buffer" /\ pump'.row = row
      /\ pump'.sequence = rows[row].sequence /\ pump'.left > 0
    BY <1>r DEF EgressInv, TypeOK, PumpCall
<1>1. TypeOK'
    BY <1>a, <1>b, <1>f, <1>p DEF EgressInv, TypeOK
<1>2. PendingMatchesRows'
    BY <1>a, <1>f DEF EgressInv, PendingMatchesRows, TypeOK
<1>3. TicketsBorrowRows'
    BY <1>a, <1>f, <1>r DEF EgressInv, TicketsBorrowRows, RowsIn
<1>4. ChecksNeverFire'
    BY <1>b DEF EgressInv, ChecksNeverFire, Counters
<1>5. PumpInv'
    <2>1. \A q \in Rows : rows'[q].state = "SUBMITTING" => q = row
        BY <1>a, <1>w DEF EgressInv, PumpInv
    <2>2. QED
        BY <1>a, <1>f, <1>p, <1>s, <2>1 DEF PumpInv, Working, failed
<1>6. ConnectionInv'
    BY <1>f DEF EgressInv, ConnectionInv
<1>7. FreeingInv'
    BY <1>f, <1>w DEF EgressInv, FreeingInv, Quiescent
<1>8. OrderInv'
    <2>1. \A q \in Rows :
             /\ rows'[q].state \in {"READY", "SUBMITTING"} <=>
                rows[q].state \in {"READY", "SUBMITTING"}
             /\ rows'[q].sequence = rows[q].sequence
             /\ rows'[q].state = "READY" => rows[q].state = "READY"
        BY <1>a, <1>r
    <2>2. WirePrefix'
        BY <1>f DEF EgressInv, OrderInv, WirePrefix
    <2>3. /\ pump'.sequence = Len(wire') + 1 /\ pump'.sequence <= next_sequence'
          /\ Len(wire') <= next_sequence'
        BY <1>f, <1>p, <1>r DEF EgressInv, OrderInv
    <2>4. \A s \in Len(wire') + 1 .. next_sequence' : \E q \in Rows :
             rows'[q].state \in {"READY", "SUBMITTING"} /\ rows'[q].sequence = s
        BY <1>f, <1>s, <2>1 DEF EgressInv, OrderInv
    <2>5. \A q \in Rows : rows'[q].state = "READY" =>
             rows'[q].sequence \in Len(wire') + 1 .. next_sequence'
        BY <1>f, <2>1 DEF EgressInv, OrderInv
    <2>6. ASSUME NEW p \in Rows, NEW q \in Rows,
                 rows'[p].state \in {"READY", "SUBMITTING"},
                 rows'[q].state \in {"READY", "SUBMITTING"},
                 rows'[p].sequence = rows'[q].sequence
          PROVE  p = q
        BY <2>1, <2>6 DEF EgressInv, OrderInv
    <2>7. QED
        BY <1>p, <2>2, <2>3, <2>4, <2>5, <2>6 DEF OrderInv, Working
<1>9. FlightInv'
    <2>1. Accepted' = Accepted /\ \A q \in Accepted : rows'[q] = rows[q]
        BY <1>a, <1>p, <1>r DEF Accepted
    <2>2. QED
        BY <1>f, <2>1, FlightFrame DEF EgressInv
<1>10. SettledOnce'
    BY <1>b, <1>f DEF EgressInv, SettledOnce, Counters, failed
<1>11. TerminalDrained'
    BY <1>f, <1>s DEF TerminalDrained
<1>12. CloseCancelsReady'
    BY <1>f DEF CloseCancelsReady
<1>13. QED
    BY <1>1, <1>2, <1>3, <1>4, <1>5, <1>6, <1>7, <1>8, <1>9, <1>10, <1>11,
        <1>12
        DEF EgressInv

\* The pump records that CNet has accepted the write.
LEMMA PumpSubmitsKeeps ==
    ASSUME EgressInv, pump.pc = "record", pump.status = "OK",
           SetState(pump.row, "SUBMITTED"), PumpRecorded,
           Raise("submitted", 1),
           UNCHANGED <<pending, first_error, high_water, next_sequence, bound,
                       connected, terminal, closed, freeing, tickets,
                       connection, in_flight, wire>>
    PROVE  EgressInv'
<1>w. pump.pc # "idle" /\ pump.pc \in Working
    BY DEF Working
<1>f. UNCHANGED <<pending, first_error, high_water, next_sequence, bound,
                  connected, terminal, closed, freeing, tickets, connection,
                  in_flight, wire>>
    OBVIOUS
<1>s. ~terminal /\ ~failed
    BY <1>w DEF EgressInv, PumpInv
<1>b. /\ count' \in [Counters -> Nat]
      /\ \A d \in Counters \ {"submitted"} : count'[d] = count[d]
    BY RaiseCounts DEF EgressInv, Counters
<1>r. /\ pump.row \in Rows /\ rows[pump.row].state = "SUBMITTING"
      /\ pump.row \in UsedRows /\ rows[pump.row].sequence = pump.sequence
      /\ pump.sequence \in Nat /\ pump.sequence = Len(wire)
    BY <1>w DEF EgressInv, TypeOK, PumpCall, PumpInv, OrderInv, UsedRows,
        RowsIn, RowStates
<1>a. /\ rows' \in [Rows -> Row]
      /\ rows'[pump.row].state = "SUBMITTED"
      /\ rows'[pump.row].sequence = pump.sequence
      /\ rows'[pump.row].size = rows[pump.row].size
      /\ \A q \in Rows \ {pump.row} : rows'[q] = rows[q]
      /\ pending' = Cardinality(UsedRows')
    <2>1. "SUBMITTED" \in RowStates \ {"FREE"} /\ pump.sequence \in Nat
        BY <1>r DEF EgressInv, TypeOK, PumpCall, Row, RowStates
    <2>2. Restate(pump.row, "SUBMITTED", pump.sequence) /\ UNCHANGED pending
        BY <1>f, <1>r DEF SetState
    <2>3. QED
        BY <1>r, <2>1, <2>2, MoveKeepsTable DEF EgressInv
<1>p. pump' \in PumpCall /\ pump'.pc = "select"
    <2>1. pump.left - 1 \in Nat
        BY <1>w DEF EgressInv, TypeOK, PumpCall, PumpInv
    <2>2. QED
        BY <2>1 DEF EgressInv, TypeOK, PumpCall, PumpRecorded
<1>1. TypeOK'
    BY <1>a, <1>b, <1>f, <1>p DEF EgressInv, TypeOK
<1>2. PendingMatchesRows'
    BY <1>a, <1>f DEF EgressInv, PendingMatchesRows, TypeOK
<1>3. TicketsBorrowRows'
    BY <1>a, <1>f, <1>r DEF EgressInv, TicketsBorrowRows, RowsIn
<1>4. ChecksNeverFire'
    BY <1>b DEF EgressInv, ChecksNeverFire, Counters
<1>5. PumpInv'
    <2>1. \A q \in Rows : rows'[q].state # "SUBMITTING"
        BY <1>a, <1>r DEF EgressInv, PumpInv
    <2>2. QED
        BY <1>f, <1>p, <1>s, <2>1 DEF PumpInv, Working, failed
<1>6. ConnectionInv'
    BY <1>f DEF EgressInv, ConnectionInv
<1>7. FreeingInv'
    BY <1>f, <1>w DEF EgressInv, FreeingInv, Quiescent
<1>8. OrderInv'
    <2>1. Len(wire) \in Nat
        BY DEF EgressInv, TypeOK
    <2>2. \A q \in Rows : rows'[q].state \in {"READY", "SUBMITTING"} =>
             q # pump.row /\ rows'[q] = rows[q]
        BY <1>a
    <2>3. \A q \in Rows : rows'[q].state = "READY" =>
             rows'[q].sequence \in Len(wire) + 1 .. next_sequence
        BY <2>2 DEF EgressInv, OrderInv
    <2>4. \A q \in Rows :
             rows[q].sequence \in Len(wire) + 1 .. next_sequence =>
                q # pump.row /\ rows'[q] = rows[q]
        BY <1>a, <1>r, <2>1
    <2>5. QED
        BY <1>f, <1>p, <1>s, <2>2, <2>3, <2>4, OrderFrame DEF EgressInv, failed
<1>9. FlightInv'
    <2>1. Accepted' = Accepted
        BY <1>a, <1>p, <1>r DEF Accepted
    <2>2. \A q \in Rows : /\ rows'[q].sequence = rows[q].sequence
                          /\ rows'[q].size = rows[q].size
        BY <1>a, <1>r
    <2>3. \A q \in Accepted : q \in Rows
        BY DEF Accepted
    <2>4. QED
        BY <1>f, <2>1, <2>2, <2>3 DEF EgressInv, FlightInv
<1>10. SettledOnce'
    BY <1>b, <1>f DEF EgressInv, SettledOnce, Counters, failed
<1>11. TerminalDrained'
    BY <1>f, <1>s DEF TerminalDrained
<1>12. CloseCancelsReady'
    BY <1>a, <1>f DEF EgressInv, CloseCancelsReady, RowsIn
<1>13. QED
    BY <1>1, <1>2, <1>3, <1>4, <1>5, <1>6, <1>7, <1>8, <1>9, <1>10, <1>11,
        <1>12
        DEF EgressInv

\* A row the pump cancels is counted, so the statistics still add up.
LEMMA PumpCancelsKeeps ==
    ASSUME EgressInv, pump.pc \in Working,
           ~(pump.pc = "record" /\ pump.status = "OK"),
           release_row({pump.row}), Released("cancelled", {pump.row}),
           pump' = [pump EXCEPT !.pc = "end"], closed \/ terminal,
           UNCHANGED <<high_water, next_sequence, flags, freeing, tickets,
                       external>>
    PROVE  EgressInv'
<1>1. pump.row \in UsedRows
    BY DEF EgressInv, TypeOK, PumpCall, PumpInv, UsedRows, RowsIn, RowStates
<1>2. /\ pending' \in Nat /\ Cardinality({pump.row}) \in Nat
      /\ pending = pending' + Cardinality({pump.row})
      /\ Cardinality({pump.row} \ Releasable({pump.row})) = 0
    <2>1. {pump.row} \in SUBSET UsedRows /\ release_row({pump.row})
        BY <1>1
    <2>2. QED
        BY <2>1, ReleaseKeepsTable DEF EgressInv
<1>3. /\ count' \in [Counters -> Nat]
      /\ count'["cancelled"] = count["cancelled"] + Cardinality({pump.row})
      /\ \A d \in Counters \ {"cancelled"} : count'[d] = count[d]
    <2>1. "cancelled" \in Counters \ {"invariant_failures"}
        BY DEF Counters
    <2>2. QED
        BY <1>2, <2>1, ReleasedCounts DEF EgressInv
<1>4. UNCHANGED <<high_water, next_sequence, bound, connected, terminal,
                  closed, first_error, freeing, tickets, connection,
                  in_flight, wire>>
    BY DEF flags, external
<1>5. SettledOnce'
    BY <1>2, <1>3, <1>4, SettleFrame DEF EgressInv, failed
<1>6. /\ first_error' \in {"OK", "EIO", "EPROTO"} \cup Statuses
      /\ count'["invariant_failures"] = count["invariant_failures"]
    BY <1>3, <1>4 DEF EgressInv, TypeOK, Counters
<1>7. QED
    BY <1>3, <1>4, <1>5, <1>6, PumpDropsKeeps

\* CNet refuses the write for good: the bridge fails with the row.
LEMMA PumpFailsKeeps ==
    ASSUME EgressInv, pump.pc = "record", pump.status = "ESHUTDOWN",
           release_row({pump.row}), ReleasedUncounted({pump.row}),
           pump' = [pump EXCEPT !.pc = "end"], set_failure(pump.status),
           UNCHANGED <<high_water, next_sequence, bound, connected, terminal,
                       closed, freeing, tickets, external>>
    PROVE  EgressInv'
<1>w. pump.pc \in Working
    BY DEF Working
<1>1. pump.row \in UsedRows
    BY <1>w
        DEF EgressInv, TypeOK, PumpCall, PumpInv, UsedRows, RowsIn, RowStates
<1>2. Cardinality({pump.row} \ Releasable({pump.row})) = 0
    <2>1. {pump.row} \in SUBSET UsedRows /\ release_row({pump.row})
        BY <1>1
    <2>2. QED
        BY <2>1, ReleaseKeepsTable DEF EgressInv
<1>3. count' \in [Counters -> Nat] /\ \A d \in Counters : count'[d] = count[d]
    BY <1>2, UncountedCounts DEF EgressInv
<1>4. count'["invariant_failures"] = count["invariant_failures"]
    BY <1>3 DEF Counters
<1>5. failed' /\ first_error' \in {"OK", "EIO", "EPROTO"} \cup Statuses
    BY DEF EgressInv, TypeOK, set_failure, failed, Statuses
<1>6. SettledOnce'
    BY <1>5 DEF SettledOnce
<1>7. UNCHANGED <<high_water, next_sequence, bound, connected, terminal,
                  closed, freeing, tickets, connection, in_flight, wire>>
    BY DEF external
<1>8. QED
    BY <1>w, <1>3, <1>4, <1>5, <1>6, <1>7, PumpDropsKeeps

\* The loop of the pump takes a row or ends.
LEMMA SelectKeeps ==
    ASSUME EgressInv, pump_select
    PROVE  EgressInv'
<1> DEFINE ready == RowsIn({"READY"})
           row == earliest(ready)
<1>1. pump.pc = "select" /\ UNCHANGED <<pending, high_water, next_sequence,
                                count, flags, freeing, tickets, external>>
    BY DEF pump_select
<1>2. CASE pump' = [pump EXCEPT !.pc = "end"] /\ UNCHANGED rows
    <2>1. UNCHANGED table
        BY <1>1, <1>2 DEF table
    <2>2. QED
        BY <1>1, <1>2, <2>1, PumpStopsKeeps
<1>3. CASE /\ pump.left > 0 /\ ready # {} /\ ~closed /\ ~terminal
           /\ SetState(row, "SUBMITTING")
           /\ pump' = [pump EXCEPT !.pc = "buffer", !.row = row,
                                   !.sequence = rows[row].sequence]
    BY <1>1, <1>3, PumpTakesKeeps
<1>4. QED
    BY <1>2, <1>3 DEF pump_select

\* The pool has no buffer.
LEMMA NoBufferKeeps ==
    ASSUME EgressInv, pump_no_buffer
    PROVE  EgressInv'
<1>1. /\ pump.pc = "buffer" /\ pump.pc \in Working
      /\ pump' = [pump EXCEPT !.pc = "end"]
      /\ UNCHANGED <<high_water, next_sequence, flags, freeing, tickets,
                     external>>
    BY DEF pump_no_buffer, Working
<1>2. CASE closed
    <2>1. release_row({pump.row}) /\ Released("cancelled", {pump.row})
        BY <1>2 DEF pump_no_buffer
    <2>2. QED
        BY <1>1, <1>2, <2>1, PumpCancelsKeeps
<1>3. CASE ~closed
    <2>1. SetState(pump.row, "READY") /\ UNCHANGED <<pending, count>>
        BY <1>3 DEF pump_no_buffer
    <2>2. count' \in [Counters -> Nat]
        BY <2>1 DEF EgressInv, TypeOK
    <2>3. UNCHANGED <<pending, first_error, high_water, next_sequence, bound,
                      connected, terminal, closed, freeing, tickets,
                      connection, in_flight, wire>>
        BY <1>1, <2>1 DEF flags, external
    <2>4. QED
        BY <1>1, <1>3, <2>1, <2>2, <2>3, PumpReturnsKeeps
<1>4. QED
    BY <1>2, <1>3

\* The bytes are in a buffer.
LEMMA BufferKeeps ==
    ASSUME EgressInv, pump_buffer
    PROVE  EgressInv'
<1>1. /\ pump.pc = "buffer" /\ pump.pc \in Working
      /\ UNCHANGED <<high_water, next_sequence, flags, freeing, tickets,
                     external>>
    BY DEF pump_buffer, Working
<1>2. CASE closed \/ terminal
    <2>1. /\ release_row({pump.row}) /\ Released("cancelled", {pump.row})
          /\ pump' = [pump EXCEPT !.pc = "end"]
        BY <1>2 DEF pump_buffer
    <2>2. QED
        BY <1>1, <1>2, <2>1, PumpCancelsKeeps
<1>3. CASE ~closed /\ ~terminal
    BY <1>1, <1>3, PumpOffersKeeps DEF pump_buffer
<1>4. QED
    BY <1>2, <1>3

\* CNet answers.
LEMMA SendKeeps ==
    ASSUME EgressInv, NEW status \in Statuses, cnet_send_buffer(status)
    PROVE  EgressInv'
<1>1. CASE status = "OK"
    BY <1>1, PumpAcceptedKeeps
<1>2. CASE status # "OK"
    <2>1. /\ pump.pc = "send"
          /\ pump' = [pump EXCEPT !.pc = "record", !.status = status]
          /\ UNCHANGED <<table, high_water, next_sequence, count, flags,
                         freeing, tickets, connection, in_flight, wire>>
        BY <1>2 DEF cnet_send_buffer
    <2>2. UNCHANGED external
        BY <2>1 DEF external
    <2>3. QED
        BY <1>2, <2>1, <2>2, PumpRefusedKeeps
<1>3. QED
    BY <1>1, <1>2

\* The pump records what CNet answered.  Its row is still the one it took.
LEMMA RecordKeeps ==
    ASSUME EgressInv, pump_record
    PROVE  EgressInv'
<1>1. /\ pump.pc = "record" /\ pump.pc \in Working /\ PumpRecorded
      /\ pump.status \in Statuses
      /\ UNCHANGED <<high_water, next_sequence, bound, connected, terminal,
                     closed, freeing, tickets, connection, in_flight, wire>>
    BY DEF EgressInv, TypeOK, PumpCall, pump_record, Working, external
<1>2. rows[pump.row].state = "SUBMITTING"
    BY <1>1 DEF EgressInv, PumpInv
<1>3. CASE pump.status = "OK"
    <2>1. /\ SetState(pump.row, "SUBMITTED") /\ Raise("submitted", 1)
          /\ UNCHANGED <<pending, first_error>>
        BY <1>2, <1>3 DEF pump_record
    <2>2. QED
        BY <1>1, <1>3, <2>1, PumpSubmitsKeeps
<1>4. pump.status # "OK" => pump' = [pump EXCEPT !.pc = "end"]
    BY <1>1 DEF PumpRecorded
<1>5. CASE pump.status # "OK" /\ (closed \/ terminal)
    <2>1. /\ release_row({pump.row}) /\ Released("cancelled", {pump.row})
          /\ UNCHANGED first_error
        BY <1>2, <1>5 DEF pump_record
    <2>2. UNCHANGED <<high_water, next_sequence, flags, freeing, tickets,
                      external>>
        BY <1>1, <2>1 DEF flags, external
    <2>3. QED
        BY <1>1, <1>4, <1>5, <2>1, <2>2, PumpCancelsKeeps
<1>6. CASE pump.status = "ENOBUFS" /\ ~closed /\ ~terminal
    <2>1. /\ SetState(pump.row, "READY") /\ Raise("transient_full", 1)
          /\ UNCHANGED <<pending, first_error>>
        BY <1>2, <1>6 DEF pump_record
    <2>2. /\ count' \in [Counters -> Nat]
          /\ \A d \in Counters \ {"transient_full"} : count'[d] = count[d]
        BY <2>1, RaiseCounts DEF EgressInv, Counters
    <2>3. UNCHANGED <<pending, first_error, high_water, next_sequence, bound,
                      connected, terminal, closed, freeing, tickets,
                      connection, in_flight, wire>>
        BY <1>1, <2>1
    <2>4. QED
        BY <1>1, <1>4, <1>6, <2>1, <2>2, <2>3, PumpReturnsKeeps
<1>7. CASE pump.status = "ESHUTDOWN" /\ ~closed /\ ~terminal
    <2>1. /\ release_row({pump.row}) /\ ReleasedUncounted({pump.row})
          /\ set_failure(pump.status)
        BY <1>2, <1>7 DEF pump_record
    <2>2. UNCHANGED external
        BY <1>1 DEF external
    <2>3. QED
        BY <1>1, <1>4, <1>7, <2>1, <2>2, PumpFailsKeeps
<1>8. QED
    BY <1>1, <1>3, <1>5, <1>6, <1>7 DEF Statuses

-----------------------------------------------------------------------------
(* The theorems.                                                           *)

\* A stuttering step.
LEMMA StutterKeeps ==
    ASSUME EgressInv, UNCHANGED vars
    PROVE  EgressInv'
<1>f. UNCHANGED <<rows, pending, high_water, next_sequence, tickets,
                  terminal, closed, first_error, in_flight, wire>>
    BY DEF vars
<1>1. TypeOK'
    BY <1>f DEF EgressInv, TypeOK, vars
<1>2. PumpInv' /\ OrderInv' /\ Accepted' = Accepted
    BY <1>f DEF EgressInv, PumpInv, OrderInv, WirePrefix, Accepted, failed,
        vars
<1>3. ConnectionInv' /\ FreeingInv'
    BY <1>f DEF EgressInv, ConnectionInv, FreeingInv, Quiescent,
        vars
<1>4. UNCHANGED count
    BY DEF vars
<1>5. QED
    BY <1>f, <1>1, <1>2, <1>3, <1>4, TableFrame

\* Every step of executor, owner, pump and close keeps the invariant.
LEMMA NextKeeps ==
    ASSUME EgressInv, [Next]_vars
    PROVE  EgressInv'
<1>1. ASSUME NEW size \in Sizes, prepare_send(size) PROVE EgressInv'
    BY <1>1, PrepareKeeps
<1>2. ASSUME NEW size \in Sizes, observe_send(size) PROVE EgressInv'
    BY <1>2, CompletionKeeps
<1>3. CASE Settle
    BY <1>3, CommitKeeps, DiscardKeeps DEF Settle
<1>4. CASE bind
    BY <1>4, BindKeeps
<1>5. ASSUME NEW state \in {"connected", "closing", "closed", "failed"},
             observe_state(state)
      PROVE  EgressInv'
    <2>1. CASE state \in {"connected", "closing"}
        BY <1>5, <2>1, ReportKeeps
    <2>2. CASE state \in {"closed", "failed"}
        BY <1>5, <2>2, EndKeeps
    <2>3. QED
        BY <2>1, <2>2
<1>6. CASE observe_stale
    BY <1>6, StaleKeeps
<1>7. CASE adapter_close
    BY <1>7, CloseKeeps
<1>8. ASSUME NEW n \in 1 .. max_writes, pump_begin(n) PROVE EgressInv'
    BY <1>8, PumpBeginKeeps
<1>9. CASE PumpStep
    BY <1>9, SelectKeeps, NoBufferKeeps, BufferKeeps, SendKeeps, RecordKeeps,
        PumpEndKeeps DEF PumpStep
<1>10. CASE destroy_check \/ destroy_free
    BY <1>10, DestroyCheckKeeps, DestroyFreeKeeps
<1>11. CASE UNCHANGED vars
    BY <1>11, StutterKeeps
<1>12. QED
    BY <1>1, <1>2, <1>3, <1>4, <1>5, <1>6, <1>7, <1>8, <1>9, <1>10, <1>11
        DEF Next

\* The strengthened invariant holds in every reachable state of the bridge.
THEOREM EgressInvariant == Spec => []EgressInv
<1>1. Init => EgressInv
    BY InitialBridge
<1>2. EgressInv /\ [Next]_vars => EgressInv'
    BY NextKeeps
<1>3. QED
    BY <1>1, <1>2, PTL DEF Spec

\* Every variable of the bridge stays in its type: no counter and neither
\* `pending` nor the pump's budget ever underflows.
THEOREM EgressTypeCorrect == Spec => []TypeOK
<1>1. EgressInv => TypeOK
    BY DEF EgressInv
<1>2. QED
    BY <1>1, EgressInvariant, PTL

\* `pending` is exact, whoever releases rows in whatever order.
THEOREM PendingExact == Spec => []PendingMatchesRows
<1>1. EgressInv => PendingMatchesRows
    BY DEF EgressInv
<1>2. QED
    BY <1>1, EgressInvariant, PTL

\* No release but the ticket's own takes a row away from the ticket.
THEOREM TicketsSafe == Spec => []TicketsBorrowRows
<1>1. EgressInv => TicketsBorrowRows
    BY DEF EgressInv
<1>2. QED
    BY <1>1, EgressInvariant, PTL

\* The consistency checks of the code are dead code.
THEOREM ChecksDead == Spec => []ChecksNeverFire
<1>1. EgressInv => ChecksNeverFire
    BY DEF EgressInv
<1>2. QED
    BY <1>1, EgressInvariant, PTL

\* CNet gets the committed rows in commit order with none missing.
THEOREM WireOrdered == Spec => []WirePrefix
<1>1. EgressInv => WirePrefix
    BY DEF EgressInv, OrderInv
<1>2. QED
    BY <1>1, EgressInvariant, PTL

\* A completion of CNet is credited to the write it belongs to.
THEOREM CompletionsMatch == Spec => []InFlightMatches
<1>1. ASSUME EgressInv PROVE InFlightMatches
    <2> DEFINE accepted == RowsIn({"SUBMITTED"}) \cup
                           (IF pump.pc = "record" /\ pump.status = "OK"
                              THEN {pump.row} ELSE {})
    <2>1. accepted = Accepted
        BY <1>1 DEF EgressInv, TypeOK, PumpCall, RowsIn, Accepted
    <2>2. QED
        BY <1>1, <2>1 DEF EgressInv, FlightInv, InFlightMatches
<1>2. QED
    BY <1>1, EgressInvariant, PTL

\* The statistics account for every prepared row until the bridge fails.
THEOREM RowsSettledOnce == Spec => []SettledOnce
<1>1. EgressInv => SettledOnce
    BY DEF EgressInv
<1>2. QED
    BY <1>1, EgressInvariant, PTL

\* After the end of the connection only tickets keep rows.
THEOREM EndDrains == Spec => []TerminalDrained
<1>1. EgressInv => TerminalDrained
    BY DEF EgressInv
<1>2. QED
    BY <1>1, EgressInvariant, PTL

\* After close no committed row waits, whatever the pump does.
THEOREM CloseCancels == Spec => []CloseCancelsReady
<1>1. EgressInv => CloseCancelsReady
    BY DEF EgressInv
<1>2. QED
    BY <1>1, EgressInvariant, PTL

\* The storage destroy frees is out of everybody's reach.
THEOREM FreedUnreachable == Spec => []NothingAfterFree
<1>1. ASSUME EgressInv PROVE NothingAfterFree
    <2> SUFFICES ASSUME freeing = "freed"
                 PROVE  /\ tickets = {} /\ pump.pc = "idle"
                        /\ connection \in {"none", "closed", "failed"}
        BY DEF NothingAfterFree
    <2>1. Quiescent
        BY <1>1 DEF EgressInv, FreeingInv
    <2>2. UsedRows = {}
        BY <1>1, <2>1, NoneUsed DEF Quiescent
    <2>3. tickets = {}
        BY <1>1, <2>2
            DEF EgressInv, TicketsBorrowRows, UsedRows, RowsIn, RowStates
    <2>4. connection \in {"none", "closed", "failed"}
        BY <1>1, <2>1 DEF EgressInv, ConnectionInv, Quiescent
    <2>5. QED
        BY <2>1, <2>3, <2>4 DEF Quiescent
<1>2. QED
    BY <1>1, EgressInvariant, PTL

\* Nobody can take the bridge out of quiescence: what destroy has checked still
\* holds when it frees.
THEOREM QuiescenceLasts == Spec => QuiescenceStable
<1>1. ASSUME EgressInv, Quiescent, [Next]_vars PROVE Quiescent'
    <2>1. closed /\ pending = 0 /\ pump.pc = "idle" /\ (bound => terminal)
        BY <1>1 DEF Quiescent
    <2>2. UsedRows = {}
        BY <1>1, <2>1, NoneUsed
    <2>3. tickets = {}
        BY <1>1, <2>2
            DEF EgressInv, TicketsBorrowRows, UsedRows, RowsIn, RowStates
    <2>4. connection \in {"none", "closed", "failed"}
        BY <1>1, <2>1 DEF EgressInv, ConnectionInv
    <2>5. in_flight = <<>>
        <3>1. Accepted = {}
            BY <2>1, <2>2 DEF Accepted, UsedRows, RowsIn, RowStates
        <3>2. Len(in_flight) = 0 /\ in_flight \in Seq(Write)
            BY <1>1, <3>1, FS_EmptySet DEF EgressInv, TypeOK, FlightInv
        <3>3. QED
            BY <3>2
    <2>6. \A size \in Sizes : ~prepare_send(size) /\ ~observe_send(size)
        BY <2>1, <2>5 DEF prepare_send, observe_send
    <2>7. ~Settle /\ ~bind /\ ~adapter_close /\ ~PumpStep
        BY <2>1, <2>3 DEF Settle, ticket_commit, ticket_discard, bind,
            adapter_close, PumpStep, pump_select, pump_no_buffer, pump_buffer,
            cnet_send_buffer, pump_record, pump_end
    <2>8. \A state : ~observe_state(state)
        BY <2>4 DEF observe_state, Reportable
    <2>9. \A n \in 1 .. max_writes : ~pump_begin(n)
        BY <2>1 DEF pump_begin
    <2>10. observe_stale \/ destroy_check \/ destroy_free \/ UNCHANGED vars
        BY <1>1, <2>6, <2>7, <2>8, <2>9 DEF Next
    <2>11. UNCHANGED <<closed, pending, pump, bound, terminal>>
        BY <2>10 DEF observe_stale, destroy_check, destroy_free, vars, table,
            flags
    <2>12. QED
        BY <2>1, <2>11 DEF Quiescent
<1>2. EgressInv /\ [Next]_vars => [Quiescent => Quiescent']_vars
    BY <1>1
<1>3. QED
    BY <1>2, EgressInvariant, PTL DEF Spec, QuiescenceStable

-----------------------------------------------------------------------------
\* The bridge is sound as a whole: what the rows, the statistics, CFlow's tickets
\* and CNet's callbacks say of a write agrees, for every capacity and payload.
THEOREM EgressCorrect == Spec => []EgressSound
<1>1. /\ TypeOK /\ PendingMatchesRows /\ TicketsBorrowRows /\ ChecksNeverFire
      /\ WirePrefix /\ InFlightMatches /\ SettledOnce /\ TerminalDrained
      /\ CloseCancelsReady /\ NothingAfterFree
      => EgressSound
    BY DEF EgressSound
<1>2. QED
    BY <1>1, EgressTypeCorrect, PendingExact, TicketsSafe, ChecksDead, WireOrdered,
        CompletionsMatch, RowsSettledOnce, EndDrains, CloseCancels, FreedUnreachable, PTL
=============================================================================
