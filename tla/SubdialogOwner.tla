--------------------------- MODULE SubdialogOwner ---------------------------
(***************************************************************************)
(* Subdialogs: the owner that runs child sessions for their parents        *)
(* (voicexml_subdialog_owner.c), with the parent's side of the exchange:   *)
(* prepare, commit, discard, completion mailbox and settlement             *)
(* (voicexml_cmeta_session.c).                                             *)
(*                                                                         *)
(* Context 0 is the root session, context r the session of row r, which    *)
(* may have a subdialog of its own.  What a session does between two       *)
(* exchanges is one of the outcomes the owner tells apart.  The owner is   *)
(* called by one thread at a time; run_ready is a loop over the rows, one  *)
(* step per row.                                                           *)
(***************************************************************************)
EXTENDS Integers, FiniteSets

CONSTANTS
    capacity, max_navigation_hops, max_nesting_depth,   \* the configuration
    MaxGeneration,   \* bound: subdialogs of one session
    MaxRoots,        \* bound: root sessions ever bound
    MaxWork          \* bound: largest max_work of a call of run_ready

OwnerAssumption ==
    /\ capacity \in Nat \ {0} /\ max_navigation_hops \in Nat \ {0}
    /\ max_nesting_depth \in Nat \ {0} /\ MaxGeneration \in Nat
    /\ MaxRoots \in Nat /\ MaxWork \in Nat \ {0}

VARIABLES
    sys,         \* rows, sessions by context, and documents borrowed from the store
    ow_closed,   \* owner_impl.closed
    ow_run,      \* the call of run_ready under way: next context and work left
    roots        \* root sessions bound so far

ownerVars == <<sys, ow_closed, ow_run, roots>>

Rows == 1 .. capacity
Contexts == 0 .. capacity
None == -1

EmptyRow == [state |-> "EMPTY", parent |-> None, generation |-> 0, depth |-> 0,
             hops |-> 0, ref |-> FALSE, event |-> FALSE]
NoSession == [state |-> "NONE", generation |-> 0, active |-> FALSE, prepared |-> 0,
              in_flight |-> FALSE, mailbox |-> "DISARMED"]
Idle == [at |-> None, work |-> 0]

OwnerInit ==
    /\ sys = [row |-> [r \in Rows |-> EmptyRow], session |-> [c \in Contexts |-> NoSession],
              borrows |-> 0]
    /\ ow_closed = FALSE
    /\ ow_run = Idle
    /\ roots = 0

-----------------------------------------------------------------------------
(* What a session does from its start, or from the end of a subdialog, to  *)
(* its next stop: it selects a subdialog, waits for something else,        *)
(* leaves the document, ends or fails.                                     *)

Stopped(session, outcome) ==
    IF outcome = "SELECT"
    THEN [session EXCEPT !.state = "RUNNING", !.active = TRUE, !.generation = @ + 1]
    ELSE [session EXCEPT !.state = outcome, !.active = FALSE]
Outcomes(session) ==
    {"RUNNING", "NAVIGATING", "SUBMITTING", "EXITED", "FAILED"}
    \cup (IF session.generation < MaxGeneration THEN {"SELECT"} ELSE {})
Started(c, s) ==
    {[s EXCEPT !.session[c] = Stopped(NoSession, o)] : o \in Outcomes(NoSession)}

-----------------------------------------------------------------------------
(* Rows: tickets, cancellation and teardown.                               *)

row_ticket_commit(s, r) ==
    IF s.row[r].state = "RESERVED" THEN [s EXCEPT !.row[r].state = "PENDING"] ELSE s

row_ticket_discard(s, r) ==
    IF s.row[r].state = "RESERVED" THEN [s EXCEPT !.row[r] = EmptyRow] ELSE s

(* The first row of that parent and generation that is in use.             *)
Asked(s, c, generation) ==
    {r \in Rows : /\ s.row[r].state # "EMPTY"
                  /\ s.row[r].parent = c /\ s.row[r].generation = generation}

\* Fault: a row that is active is left to its session.
owner_cancel_Waiting(s, c, generation) ==
    [s EXCEPT !.row = [r \in Rows |->
        IF r \in Asked(s, c, generation) /\ s.row[r].state # "ACTIVE"
        THEN [s.row[r] EXCEPT !.state = "CANCELED"] ELSE s.row[r]]]

owner_cancel(s, c, generation) ==
    [s EXCEPT !.row = [r \in Rows |->
        IF /\ r \in Asked(s, c, generation)
           /\ \A q \in Asked(s, c, generation) : r <= q
        THEN [s.row[r] EXCEPT !.state = "CANCELED"] ELSE s.row[r]]]

(* session_data_destroy: a ticket is discarded; a child is canceled unless *)
(* its completion has arrived.                                             *)
settle_subdialog(s, c) ==
    LET session == s.session[c]
    IN IF session.prepared # 0 THEN row_ticket_discard(s, session.prepared)
       ELSE IF session.in_flight /\ session.mailbox # "READY"
       THEN owner_cancel(s, c, session.generation)
       ELSE s

close_session(s, c) ==
    [settle_subdialog(s, c) EXCEPT
        !.session[c] = [NoSession EXCEPT !.state = "CLOSED"]]

row_destroy_runtime(s, r) ==
    [settle_subdialog(s, r) EXCEPT
        !.session[r] = NoSession, !.row[r].hops = 0, !.row[r].ref = FALSE,
        !.borrows = @ - (IF s.row[r].ref THEN 1 ELSE 0)]

row_clear(s, r) == [row_destroy_runtime(s, r) EXCEPT !.row[r] = EmptyRow]

-----------------------------------------------------------------------------
(* Admission: session c asks for a child.  The request may be refused, for *)
(* its parameters (snapshot and copy_param) or for a limit.                *)

Wants(session) ==
    /\ session.state = "RUNNING" /\ session.active
    /\ session.prepared = 0 /\ ~session.in_flight
DepthOf(s, c) == IF c = 0 THEN 0 ELSE s.row[c].depth
EmptyRows(s) == {r \in Rows : s.row[r].state = "EMPTY"}
NextRow(s) == CHOOSE r \in EmptyRows(s) : \A q \in EmptyRows(s) : r <= q

Admissible(s, c) == ~ow_closed /\ DepthOf(s, c) < max_nesting_depth /\ EmptyRows(s) # {}

owner_prepare(s, c) ==
    LET r == NextRow(s)
    IN [s EXCEPT !.row[r] = [EmptyRow EXCEPT !.state = "RESERVED", !.parent = c,
                                !.generation = s.session[c].generation,
                                !.depth = DepthOf(s, c) + 1],
                 !.session[c].prepared = r]

subdialog_commit(s, c) ==
    row_ticket_commit(
        [s EXCEPT !.session[c].prepared = 0, !.session[c].in_flight = TRUE,
                  !.session[c].mailbox = "EMPTY"],
        s.session[c].prepared)

(* Results of a step: the system, whether the call goes on, and progress.  *)
Result(s, ok, progressed) == [sys |-> s, ok |-> ok, progressed |-> progressed]

drive_parent_context(s, c) ==
    IF s.session[c].state \in {"NONE", "CLOSED"} THEN {Result(s, FALSE, FALSE)}
    ELSE IF ~Wants(s.session[c]) THEN {Result(s, TRUE, FALSE)}
    ELSE {Result(s, FALSE, FALSE)}
         \cup (IF Admissible(s, c)
               THEN {Result(subdialog_commit(owner_prepare(s, c), c), TRUE, TRUE)} ELSE {})

-----------------------------------------------------------------------------
(* Completion: the child's result goes through the mailbox of its parent,  *)
(* which goes on to its next stop.  A failing parent ends the call.        *)

subdialog_run_ready(s, c) ==
    LET settled == [s.session[c] EXCEPT !.in_flight = FALSE, !.mailbox = "DISARMED"]
    IN {Result([s EXCEPT !.session[c] = Stopped(settled, o)], o # "FAILED", TRUE) :
           o \in Outcomes(settled)}

Ingress(s, r) ==
    LET row == s.row[r]
        parent == s.session[row.parent]
    IN CASE parent.state = "CLOSED" -> "CLOSED"
         [] parent.state # "CLOSED" /\ parent.mailbox = "DISARMED" -> "STALE"
         [] parent.state # "CLOSED" /\ parent.mailbox = "READY" -> "FULL"
         [] OTHER -> IF row.generation = parent.generation /\ parent.in_flight
                     THEN "ACCEPTED" ELSE "STALE"

Refused(s, r) == {Result(s, FALSE, FALSE)}

(* The completion may be too large for the mailbox, or not fit its type.   *)
publish_row_completion(s, r) ==
    LET parent == s.row[r].parent
        ready == [row_destroy_runtime(s, r) EXCEPT !.session[parent].mailbox = "READY"]
    IN IF s.session[parent].state = "NONE" \/ Ingress(s, r) = "FULL" THEN Refused(s, r)
       ELSE IF Ingress(s, r) \in {"STALE", "CLOSED"} THEN {Result(row_clear(s, r), TRUE, TRUE)}
       ELSE Refused(s, r)
            \cup {[done EXCEPT !.sys.row[r] = EmptyRow] : done \in subdialog_run_ready(ready, parent)}

-----------------------------------------------------------------------------
(* Children: their first document, and those they go on to.                *)

WithEvent(s, r) == [s EXCEPT !.row[r].event = TRUE]
Borrowed(s, r, hops) ==
    [s EXCEPT !.row[r].ref = TRUE, !.row[r].hops = hops, !.borrows = @ + 1]

(* Not found or not readable: error.badfetch; not startable:               *)
(* error.semantic, with everything given back.                             *)
row_acquire_initial(s, r) ==
    {WithEvent(s, r), WithEvent(row_destroy_runtime(Borrowed(s, r, 0), r), r)}
    \cup Started(r, Borrowed(s, r, 0))

NextDocument(s, r) == Borrowed(row_destroy_runtime(s, r), r, s.row[r].hops + 1)

(* One hop; a child that stops at another document needs a further one.    *)
row_follow_hop(s, r) ==
    IF s.row[r].hops >= max_navigation_hops THEN {Result(s, FALSE, FALSE)}
    ELSE {Result(t, TRUE, TRUE) :
            t \in {WithEvent(s, r), WithEvent(row_destroy_runtime(NextDocument(s, r), r), r)}
                  \cup Started(r, NextDocument(s, r))}

Navigating(s, r) == s.session[r].state = "NAVIGATING" /\ ~s.row[r].event

row_follow_navigation(s, r) ==
    LET Hops[n \in 0 .. max_navigation_hops + 1] ==
          IF n = 0 THEN {Result(s, TRUE, FALSE)}
          ELSE UNION {IF done.ok /\ Navigating(done.sys, r) THEN row_follow_hop(done.sys, r)
                      ELSE {done} : done \in Hops[n - 1]}
    IN {IF done.ok /\ done.sys.session[r].state = "SUBMITTING" /\ ~done.sys.row[r].event
        THEN [done EXCEPT !.ok = FALSE] ELSE done : done \in Hops[max_navigation_hops + 1]}

Terminal(s, r) == s.session[r].state \in {"EXITED", "FAILED"} \/ s.row[r].event
Failing(s, r) == IF s.session[r].state = "FAILED" THEN WithEvent(s, r) ELSE s

(* After each part of the work: end the child, go on, or stop the call.    *)
Finish(done, r) ==
    IF done.ok /\ Terminal(done.sys, r)
    THEN publish_row_completion(Failing(done.sys, r), r) ELSE {done}

progress_active_row(s, r) ==
    IF Terminal(s, r) THEN publish_row_completion(Failing(s, r), r)
    ELSE IF s.session[r].state = "NAVIGATING"
    THEN UNION {IF done.ok /\ ~Terminal(done.sys, r) THEN drive_parent_context(done.sys, r)
                ELSE Finish(done, r) : done \in row_follow_navigation(s, r)}
    ELSE IF s.session[r].state # "RUNNING" THEN {Result(s, FALSE, FALSE)}
    ELSE drive_parent_context(s, r)

-----------------------------------------------------------------------------
(* run_ready, one context at a time.                                       *)

RowWork(s, r) ==
    CASE s.row[r].state \in {"EMPTY", "RESERVED"} -> {Result(s, TRUE, FALSE)}
      [] s.row[r].state = "CANCELED" -> {Result(row_clear(s, r), TRUE, TRUE)}
      [] s.row[r].state = "PENDING" ->
           UNION {{[done EXCEPT !.progressed = TRUE] : done \in progress_active_row(t, r)} :
                    t \in row_acquire_initial([s EXCEPT !.row[r].state = "ACTIVE"], r)}
      [] s.row[r].state = "ACTIVE" -> progress_active_row(s, r)

Work(s, c) ==
    IF c # 0 THEN RowWork(s, c)
    ELSE IF ow_closed \/ s.session[0].state = "NONE" THEN {Result(s, TRUE, FALSE)}
    ELSE drive_parent_context(s, 0)

run_begin(work) ==
    /\ ow_run = Idle
    /\ ow_run' = [at |-> 0, work |-> work]
    /\ UNCHANGED <<sys, ow_closed, roots>>

run_step ==
    /\ ow_run # Idle
    /\ \E done \in Work(sys, ow_run.at) :
          /\ sys' = done.sys
          /\ LET left == ow_run.work - (IF done.progressed THEN 1 ELSE 0)
             IN ow_run' = IF ~done.ok \/ left = 0 \/ ow_run.at = capacity THEN Idle
                          ELSE [at |-> ow_run.at + 1, work |-> left]
    /\ UNCHANGED <<ow_closed, roots>>

-----------------------------------------------------------------------------
(* The other calls, between two calls of run_ready.                        *)

HasLiveRows == \E r \in Rows : sys.row[r].state # "EMPTY"

bind_root ==
    /\ ow_run = Idle /\ ~ow_closed /\ ~HasLiveRows /\ roots < MaxRoots
    /\ sys.session[0].state \in {"NONE", "CLOSED"}
    /\ sys' \in Started(0, sys)
    /\ roots' = roots + 1
    /\ UNCHANGED <<ow_closed, ow_run>>

(* The root session is also used directly: for its other inputs, to        *)
(* prepare, commit and discard, and to close it.                           *)
root_input ==
    /\ ow_run = Idle /\ sys.session[0].state = "RUNNING" /\ ~sys.session[0].active
    /\ \E o \in Outcomes(sys.session[0]) : sys' = [sys EXCEPT !.session[0] = Stopped(@, o)]
    /\ UNCHANGED <<ow_closed, ow_run, roots>>

root_prepare ==
    /\ ow_run = Idle /\ Wants(sys.session[0]) /\ Admissible(sys, 0)
    /\ sys' = owner_prepare(sys, 0)
    /\ UNCHANGED <<ow_closed, ow_run, roots>>

root_commit ==
    /\ ow_run = Idle /\ sys.session[0].prepared # 0
    /\ sys' = subdialog_commit(sys, 0)
    /\ UNCHANGED <<ow_closed, ow_run, roots>>

root_discard ==
    /\ ow_run = Idle /\ sys.session[0].prepared # 0
    /\ sys' = [row_ticket_discard(sys, sys.session[0].prepared) EXCEPT !.session[0].prepared = 0]
    /\ UNCHANGED <<ow_closed, ow_run, roots>>

root_close ==
    /\ ow_run = Idle /\ sys.session[0].state \notin {"NONE", "CLOSED"}
    /\ sys' = close_session(sys, 0)
    /\ UNCHANGED <<ow_closed, ow_run, roots>>

CloseRow(row) ==
    IF row.state \in {"RESERVED", "PENDING", "ACTIVE"} THEN [row EXCEPT !.state = "CANCELED"] ELSE row

owner_close ==
    /\ ow_run = Idle /\ ~ow_closed
    /\ ow_closed' = TRUE
    /\ sys' = [sys EXCEPT !.row = [r \in Rows |-> CloseRow(sys.row[r])]]
    /\ UNCHANGED <<ow_run, roots>>

OwnerNext ==
    \/ run_step \/ bind_root \/ root_input \/ root_prepare \/ root_commit
    \/ root_discard \/ root_close \/ owner_close
    \/ \E work \in 1 .. MaxWork : run_begin(work)

(* The program keeps calling run_ready, and a call goes through its rows.  *)
OwnerFairness == WF_ownerVars(run_step) /\ WF_ownerVars(\E work \in 1 .. MaxWork : run_begin(work))

OwnerSpec == OwnerInit /\ [][OwnerNext]_ownerVars
OwnerFairSpec == OwnerSpec /\ OwnerFairness

-----------------------------------------------------------------------------
(* Properties.                                                             *)

States == {"NONE", "RUNNING", "NAVIGATING", "SUBMITTING", "EXITED", "FAILED", "CLOSED"}
Live(r) == sys.row[r].state \in {"PENDING", "ACTIVE"}

(* Rows and sessions have the values of their declarations.                *)
OwnerTypeOK ==
    /\ \A r \in Rows :
          /\ sys.row[r].state \in {"EMPTY", "RESERVED", "PENDING", "ACTIVE", "CANCELED"}
          /\ sys.row[r].parent \in Contexts \cup {None}
          /\ sys.row[r].depth \in 0 .. max_nesting_depth
          /\ sys.row[r].hops \in 0 .. max_navigation_hops
    /\ \A c \in Contexts : sys.session[c].state \in States
    /\ sys.borrows \in Nat

(* A session that waits for its subdialog is waited for by exactly one     *)
(* row that will answer it: nothing lets a row go without an answer        *)
(* (publish_row_completion, row_clear, owner_cancel).                      *)
WaitingHasChild ==
    ~ow_closed => \A c \in Contexts :
        sys.session[c].in_flight =>
            Cardinality({r \in Rows : Live(r) /\ sys.row[r].parent = c
                            /\ sys.row[r].generation = sys.session[c].generation}) = 1

(* A row that runs, or will, has a parent that waits for it: when a parent *)
(* goes away, by whatever way, its children have been canceled             *)
(* (settle_subdialog, row_destroy_runtime).                                *)
ChildHasWaiting ==
    \A r \in Rows : Live(r) =>
        LET parent == sys.session[sys.row[r].parent]
        IN parent.in_flight /\ parent.generation = sys.row[r].generation

(* A ticket that is out names a row reserved for its holder, or one that   *)
(* the closed owner has taken back; it never reaches another's row.        *)
TicketIsOwn ==
    \A c \in Contexts : LET r == sys.session[c].prepared IN
        r # 0 => \/ sys.row[r].state = "RESERVED" /\ sys.row[r].parent = c
                 \/ ow_closed

(* The documents borrowed are those of the rows with a session to read     *)
(* them or an answer to send: none are left when the owner is quiescent.   *)
BorrowsExact ==
    /\ sys.borrows = Cardinality({r \in Rows : sys.row[r].ref})
    /\ \A r \in Rows : sys.row[r].ref => sys.row[r].state \in {"ACTIVE", "CANCELED"}

(* Once the owner is closed all rows are torn down, however they were      *)
(* nested and whatever they were doing.                                    *)
ClosedBecomesQuiescent == []<>(ow_closed => ~HasLiveRows)

(* Parents and children of the nesting agree with each other, with the     *)
(* tickets that are out and with the documents borrowed.                   *)
OwnerSound ==
    /\ OwnerTypeOK
    /\ WaitingHasChild /\ ChildHasWaiting
    /\ TicketIsOwn /\ BorrowsExact
=============================================================================
