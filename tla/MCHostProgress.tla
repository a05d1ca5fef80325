--------------------------- MODULE MCHostProgress ---------------------------
(***************************************************************************)
(* The Host router driven to its end.  "part" says what the host asks of   *)
(* it: endpoints that adopt, name and send to one another, or deadlines.   *)
(* What is cut are steps that bring something new and that no fairness     *)
(* asks for: what the router has taken in it can always bring to an end.   *)
(***************************************************************************)
EXTENDS MCHostRouter

CONSTANT Explored   \* the parts to explore

VARIABLE part

\* Endpoints send to themselves, a parent or an alias; each Session has its slot.
Asks ==
    /\ \A s \in Slots : ~endpoints'[s].accessible
    /\ endpoints'[0].session # s2 /\ endpoints'[1].session # s1

\* Two endpoints, their parents and an alias, and one Event; no send has a delay,
\* and the host does not call run_due.
FamilyAsks ==
    /\ next_row_identity' <= 1
    /\ \A r \in Rows : rows'[r].delay = 0
    /\ timer'.pc = "idle" /\ now' = 0

\* One endpoint, and two delayed sends that may be due at one instant.
TimersAsk ==
    /\ endpoints'[1].generation = 0
    /\ \A r \in Rows : rows'[r].state # "FREE" => rows'[r].delay # 0

ProgressInit == Init /\ part \in Explored

ProgressNext ==
    /\ Next /\ Asks
    /\ part = "family" => FamilyAsks
    /\ part = "timers" => TimersAsk
    /\ UNCHANGED part

\* The router's fairness; run_due is called where deadlines are asked for.
ProgressSpec ==
    /\ ProgressInit /\ [][ProgressNext]_<<part, vars>>
    /\ LaneFairness
    /\ WF_vars(part = "timers" /\ \E n \in 1 .. MaxBatch : run_due(n))
=============================================================================
