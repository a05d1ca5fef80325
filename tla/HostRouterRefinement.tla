------------------------ MODULE HostRouterRefinement ------------------------
(***************************************************************************)
(* The Host router implements EventLedger: an Event is a row identity, and *)
(* its status is read off the row that holds it, or off its fate.          *)
(***************************************************************************)
EXTENDS HostRouter

RowsHolding(i) == {r \in Rows : rows[r].identity = i}
RowOf(i) == rows[CHOOSE r \in Rows : r \in RowsHolding(i)]

StatusOfState ==
    [state \in RowStates |->
       CASE state = "RESERVED" -> "offered"
         [] state = "DELAYED"  -> "waiting"
         [] state = "FIRING"   -> "claimed"
         [] state = "READY"    -> "ready"
         [] state = "INFLIGHT" -> "leaving"
         [] state = "FREE"     -> "none"]

AbstractStatus ==
    [i \in 1 .. MaxU64 |->
       IF RowsHolding(i) # {} THEN StatusOfState[RowOf(i).state]
       ELSE IF fate[i] \in {"cancelled", "discarded"} THEN "withdrawn"
       ELSE fate[i]]

AbstractRank ==
    [i \in 1 .. MaxU64 |->
       IF RowsHolding(i) # {} THEN RowOf(i).sequence ELSE 0]

Ledger == INSTANCE EventLedger WITH
    LastEvent <- MaxU64,
    status <- AbstractStatus,
    rank <- AbstractRank,
    last <- next_sequence,
    open <- ~closed

\* Every step of the router is a step of the ledger or leaves it alone: the
\* reuse of rows, the split critical sections and the ticket order never
\* show in what happens to an Event.
ImplementsLedger == Ledger!LedgerSpec
=============================================================================
