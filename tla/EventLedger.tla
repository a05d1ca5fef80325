----------------------------- MODULE EventLedger -----------------------------
(***************************************************************************)
(* What the Host router promises about the Events it accepts, without      *)
(* tables, slots, tickets, counters or locks: every Event is offered, then *)
(* published or withdrawn; a published one waits for its deadline if it    *)
(* has one, is handed over in the order of publication, and is delivered   *)
(* or withdrawn exactly once.  A closed ledger only lets Events end.       *)
(***************************************************************************)
EXTENDS Naturals

CONSTANT LastEvent    \* Events are numbered 1 .. LastEvent as offered

VARIABLES status, rank, last, open

ledgerVars == <<status, rank, last, open>>

Events == 1 .. LastEvent
Pending == {"offered", "waiting", "claimed", "ready", "leaving"}
Ended == {"delivered", "withdrawn"}

LedgerInit ==
    /\ status = [e \in Events |-> "none"]
    /\ rank = [e \in Events |-> 0]
    /\ last = 0
    /\ open = TRUE

\* The next Event of the numbering.
IsNew(e) == status[e] = "none" /\ \A f \in Events : f < e => status[f] # "none"

Become(e, to) == status' = [status EXCEPT ![e] = to]

Offer(e) ==
    /\ open /\ IsNew(e)
    /\ Become(e, "offered")
    /\ UNCHANGED <<rank, last, open>>

Publish(e, to) ==
    /\ open /\ Become(e, to)
    /\ last' = last + 1
    /\ rank' = [rank EXCEPT ![e] = last + 1]
    /\ UNCHANGED open

PublishOffered(e) ==
    status[e] = "offered" /\ \E to \in {"waiting", "ready"} : Publish(e, to)

PublishNew(e) == IsNew(e) /\ Publish(e, "ready")

\* The deadline of e is claimed, and then e may be handed over.
Claim(e) ==
    /\ open /\ status[e] = "waiting"
    /\ Become(e, "claimed")
    /\ UNCHANGED <<rank, last, open>>

Ripen(e) ==
    /\ open /\ status[e] = "claimed"
    /\ Become(e, "ready")
    /\ UNCHANGED <<rank, last, open>>

\* One Event at a time is handed over, the first of the ready ones.
Take(e) ==
    /\ open /\ status[e] = "ready"
    /\ \A f \in Events : /\ status[f] # "leaving"
                         /\ status[f] = "ready" => rank[e] <= rank[f]
    /\ Become(e, "leaving")
    /\ UNCHANGED <<rank, last, open>>

PutBack(e) ==
    /\ open /\ status[e] = "leaving"
    /\ Become(e, "ready")
    /\ UNCHANGED <<rank, last, open>>

End(S, how) ==
    /\ status' = [e \in Events |-> IF e \in S THEN how ELSE status[e]]
    /\ rank' = [e \in Events |-> IF e \in S THEN 0 ELSE rank[e]]
    /\ UNCHANGED last

Deliver(e) == status[e] = "leaving" /\ End({e}, "delivered") /\ UNCHANGED open

\* Events nobody is handing over may be withdrawn together; one that is
\* being handed over is withdrawn alone, and only when the ledger is closed.
Withdraw(S) ==
    /\ \A e \in S : status[e] \in {"offered", "waiting", "ready"}
    /\ End(S, "withdrawn")
    /\ UNCHANGED open

WithdrawHeld(e) ==
    /\ status[e] = "claimed" \/ (status[e] = "leaving" /\ ~open)
    /\ End({e}, "withdrawn")
    /\ UNCHANGED open

Close ==
    /\ open /\ open' = FALSE
    /\ End({e \in Events : status[e] \in {"waiting", "ready"}}, "withdrawn")

LedgerNext ==
    \/ \E e \in Events :
         \/ Offer(e) \/ PublishOffered(e) \/ PublishNew(e) \/ Claim(e)
         \/ Ripen(e) \/ Take(e) \/ PutBack(e) \/ Deliver(e)
         \/ WithdrawHeld(e)
    \/ \E S \in SUBSET Events : Withdraw(S)
    \/ Close

LedgerSpec == LedgerInit /\ [][LedgerNext]_ledgerVars
=============================================================================
