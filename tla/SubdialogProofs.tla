-------------------------- MODULE SubdialogProofs --------------------------
(***************************************************************************)
(* Proofs about subdialogs: for every number of rows, depth of nesting and *)
(* number of hops, parents and children agree with each other, with the    *)
(* tickets that are out and with the documents borrowed.  First what each  *)
(* operation on one child changes, then what run_ready makes of a system   *)
(* in which all is well, the teardown of a closed owner, the calls on the  *)
(* root session, and the invariant.                                        *)
(***************************************************************************)
EXTENDS SubdialogOwner, FiniteSetTheorems, WellFoundedInduction, TLAPS

\* What a row and a session hold; the mailbox is never seen full.
RowStates == {"EMPTY", "RESERVED", "PENDING", "ACTIVE", "CANCELED"}
RowRecords == [state : RowStates, parent : Contexts \cup {None}, generation : Nat,
               depth : 0 .. max_nesting_depth, hops : 0 .. max_navigation_hops,
               ref : BOOLEAN, event : BOOLEAN]
SessionRecords == [state : States, generation : Nat, active : BOOLEAN,
                   prepared : 0 .. capacity, in_flight : BOOLEAN,
                   mailbox : {"DISARMED", "EMPTY"}]
Systems == [row : [Rows -> RowRecords], session : [Contexts -> SessionRecords],
            borrows : Nat]

\* A session waits for its child, or holds a ticket, only while it runs.
SessionFits(q) ==
    /\ q.in_flight => q.state = "RUNNING" /\ q.active /\ q.prepared = 0
    /\ q.mailbox = (IF q.in_flight THEN "EMPTY" ELSE "DISARMED")
    /\ q.prepared # 0 => q.state = "RUNNING" /\ q.active

\* A row that is not active has no session yet, one that is empty nothing at all;
\* only the root session holds tickets or is closed.
RowFits(s, r) ==
    /\ s.row[r].state = "EMPTY" => s.row[r] = EmptyRow
    /\ s.row[r].state # "EMPTY" => s.row[r].parent \in Contexts
    /\ s.row[r].state \in {"EMPTY", "RESERVED", "PENDING"} =>
          s.session[r] = NoSession /\ ~s.row[r].ref /\ ~s.row[r].event
    /\ s.session[r].prepared = 0 /\ s.session[r].state # "CLOSED"
    /\ s.row[r].event => ~s.session[r].in_flight

LiveIn(s, r) == s.row[r].state \in {"PENDING", "ACTIVE"}

\* A live row is the one its parent waits for; a reserved row the one of the ticket.
Nested(s) ==
    /\ \A r \in Rows : LiveIn(s, r) =>
          /\ s.session[s.row[r].parent].in_flight
          /\ s.session[s.row[r].parent].generation = s.row[r].generation
          /\ \A q \in Rows : LiveIn(s, q) /\ s.row[q].parent = s.row[r].parent => q = r
    /\ \A r \in Rows : s.row[r].state = "RESERVED" =>
          s.row[r].parent = 0 /\ s.session[0].prepared = r
          /\ s.row[r].generation = s.session[0].generation

Reading(s) == {r \in Rows : s.row[r].ref}

\* What holds of the owner at any time.
Sane(s) ==
    /\ s \in Systems
    /\ \A c \in Contexts : SessionFits(s.session[c])
    /\ \A r \in Rows : RowFits(s, r)
    /\ Nested(s)
    /\ s.borrows = Cardinality(Reading(s))

\* Who waits will be answered, and a ticket has its row.
Answered(s) ==
    /\ \A c \in Contexts : s.session[c].in_flight =>
          \E r \in Rows : LiveIn(s, r) /\ s.row[r].parent = c
    /\ s.session[0].prepared # 0 => s.row[s.session[0].prepared].state = "RESERVED"

\* An owner whose root session is there, and one that tears its rows down.
Open(s) ==
    /\ Sane(s) /\ Answered(s)
    /\ s.session[0].state # "CLOSED"
    /\ \A r \in Rows : s.row[r].state # "CANCELED"

Torn(s) == Sane(s) /\ \A r \in Rows : s.row[r].state \in {"EMPTY", "CANCELED"}

\* A call of run_ready, or none.
Calls == {Idle} \cup [at : Contexts, work : Nat \ {0}]

\* A closed owner is torn down; an open one answers every session that waits, and
\* only a root session that is gone leaves canceled rows, until run_ready notices.
Phase(s, is_closed, at) ==
    /\ Sane(s)
    /\ is_closed => Torn(s)
    /\ ~is_closed =>
          /\ Answered(s)
          /\ \/ Open(s)
             \/ s.session[0].state = "CLOSED" /\ at \in {None, 0}

OwnerInv ==
    /\ ow_closed \in BOOLEAN /\ ow_run \in Calls
    /\ Phase(sys, ow_closed, ow_run.at)

\* A record with the fields of a system: what an EXCEPT of a system always is.
Shaped(t) == t = [n \in {"row", "session", "borrows"} |-> t[n]]

\* Systems are such records;
LEMMA SystemIsShaped ==
    ASSUME NEW s \in Systems
    PROVE  Shaped(s)
  BY DEF Systems, Shaped

\* and such records with the right parts are systems.
LEMMA ShapedIsSystem ==
    ASSUME NEW t, Shaped(t), t.row \in [Rows -> RowRecords],
           t.session \in [Contexts -> SessionRecords], t.borrows \in Nat
    PROVE  t \in Systems
  BY DEF Systems, Shaped

\* Every nonempty set of natural numbers has a least element.
LEMMA LeastRow ==
    ASSUME NEW T \in SUBSET Nat, T # {}
    PROVE  \E n \in T : \A m \in T : n <= m
  <1> DEFINE R == {p \in Nat \X Nat : p[1] < p[2]}
  <1>1. IsWellFoundedOn(R, Nat)
    <2>1. OpToRel(<, Nat) = R
      BY Zenon DEF OpToRel
    <2> QED BY <2>1, NatLessThanWellFounded, Zenon
  <1>2. PICK x \in T : \A y \in T : <<y, x>> \notin R
    <2> HIDE DEF R
    <2> QED BY <1>1, WFMin
  <1>3. ASSUME NEW y \in T PROVE x <= y
    BY <1>2, <<y, x>> \in Nat \X Nat
  <1> QED BY <1>3

\* Induction, as a statement about sets.
LEMMA StepInduction ==
    ASSUME NEW T \in SUBSET Nat, 0 \in T, \A n \in T : n + 1 \in T
    PROVE  T = Nat
  <1> SUFFICES ASSUME T # Nat PROVE FALSE
    OBVIOUS
  <1>1. PICK n \in Nat \ T : \A m \in Nat \ T : n <= m
    BY LeastRow
  <1>2. n - 1 \in T
    BY <1>1
  <1> QED BY <1>1, <1>2

\* The row taken for a child is an empty one.
LEMMA NextRowIsEmpty ==
    ASSUME OwnerAssumption, NEW s, EmptyRows(s) # {}
    PROVE  NextRow(s) \in Rows /\ s.row[NextRow(s)].state = "EMPTY"
  <1>1. EmptyRows(s) \in SUBSET Nat
    BY DEF EmptyRows, Rows, OwnerAssumption
  <1>2. \E r \in EmptyRows(s) : \A q \in EmptyRows(s) : r <= q
    BY <1>1, LeastRow
  <1>3. NextRow(s) \in EmptyRows(s)
    BY <1>2, Zenon DEF NextRow
  <1> QED BY <1>3 DEF EmptyRows

\* Context 0 is no row.
LEMMA RowsAndContexts ==
    ASSUME OwnerAssumption
    PROVE  /\ IsFiniteSet(Rows) /\ Rows \subseteq Contexts /\ 0 \in Contexts /\ 0 \notin Rows
           /\ None \notin Contexts /\ Rows \subseteq 0 .. capacity
           /\ Contexts = Rows \cup {0}
  <1>1. IsFiniteSet(Rows)
    BY FS_Interval DEF Rows, OwnerAssumption
  <1> QED BY <1>1 DEF Rows, Contexts, None, OwnerAssumption

\* What is built anew is well formed.
LEMMA FreshRecords ==
    ASSUME OwnerAssumption
    PROVE  /\ EmptyRow \in RowRecords /\ NoSession \in SessionRecords
           /\ SessionFits(NoSession)
  BY DEF OwnerAssumption, EmptyRow, RowRecords, RowStates, NoSession, SessionRecords,
         SessionFits, States, None

\* Where a session stops: never with a subdialog under way.
LEMMA StoppedFits ==
    ASSUME OwnerAssumption, NEW q \in SessionRecords, ~q.in_flight, q.prepared = 0,
           q.mailbox = "DISARMED", NEW o \in Outcomes(q)
    PROVE  /\ Stopped(q, o) \in SessionRecords /\ SessionFits(Stopped(q, o))
           /\ ~Stopped(q, o).in_flight /\ Stopped(q, o).prepared = 0
           /\ Stopped(q, o).state \notin {"NONE", "CLOSED"}
           /\ Stopped(q, o).mailbox = "DISARMED"
  <1>1. CASE o = "SELECT"
    <2>1. Stopped(q, o) = [q EXCEPT !.state = "RUNNING", !.active = TRUE, !.generation = @ + 1]
      BY <1>1 DEF Stopped
    <2>2. q.generation \in Nat /\ q.generation + 1 \in Nat
      BY DEF SessionRecords
    <2>3. Stopped(q, o) \in SessionRecords
      BY <2>1, <2>2 DEF SessionRecords, States
    <2> QED BY <2>1, <2>3 DEF SessionRecords, SessionFits
  <1>2. CASE o # "SELECT"
    <2>1. Stopped(q, o) = [q EXCEPT !.state = o, !.active = FALSE]
      BY <1>2 DEF Stopped
    <2>2. o \in {"RUNNING", "NAVIGATING", "SUBMITTING", "EXITED", "FAILED"}
      BY <1>2 DEF Outcomes
    <2> QED BY <2>1, <2>2 DEF SessionRecords, SessionFits, States
  <1> QED BY <1>1, <1>2

\* Counting the borrowed documents when one row changes.
LEMMA ReadingChanges ==
    ASSUME OwnerAssumption, NEW s \in Systems, NEW t \in Systems, NEW r \in Rows,
           \A q \in Rows \ {r} : t.row[q] = s.row[q]
    PROVE  /\ Cardinality(Reading(s)) \in Nat
           /\ t.row[r].ref = s.row[r].ref => Cardinality(Reading(t)) = Cardinality(Reading(s))
           /\ t.row[r].ref /\ ~s.row[r].ref =>
                 Cardinality(Reading(t)) = Cardinality(Reading(s)) + 1
           /\ ~t.row[r].ref /\ s.row[r].ref =>
                 Cardinality(Reading(t)) = Cardinality(Reading(s)) - 1
  <1>1. IsFiniteSet(Reading(s)) /\ IsFiniteSet(Reading(t))
    BY RowsAndContexts, FS_Subset DEF Reading
  <1>2. Cardinality(Reading(s)) \in Nat /\ Cardinality(Reading(t)) \in Nat
    BY <1>1, FS_CardinalityType
  <1>3. ASSUME t.row[r].ref = s.row[r].ref
        PROVE  Cardinality(Reading(t)) = Cardinality(Reading(s))
    <2>1. Reading(t) = Reading(s)
      BY <1>3 DEF Reading
    <2> QED BY <2>1
  <1>4. ASSUME t.row[r].ref, ~s.row[r].ref
        PROVE  Cardinality(Reading(t)) = Cardinality(Reading(s)) + 1
    <2>1. Reading(t) = Reading(s) \cup {r} /\ r \notin Reading(s)
      BY <1>4 DEF Reading
    <2> QED BY <1>1, <2>1, FS_AddElement
  <1>5. ASSUME ~t.row[r].ref, s.row[r].ref
        PROVE  Cardinality(Reading(t)) = Cardinality(Reading(s)) - 1
    <2>1. Reading(s) = Reading(t) \cup {r} /\ r \notin Reading(t)
      BY <1>5 DEF Reading
    <2>2. Cardinality(Reading(s)) = Cardinality(Reading(t)) + 1
      BY <1>1, <2>1, FS_AddElement
    <2> QED BY <1>2, <2>2
  <1> QED BY <1>2, <1>3, <1>4, <1>5

\* A child that works changes only its own row and session, and asks for nothing.
LEMMA ChildMoves ==
    ASSUME OwnerAssumption, NEW s, Open(s), NEW r \in Rows, LiveIn(s, r),
           ~s.session[r].in_flight, NEW t \in Systems,
           \A q \in Rows \ {r} : t.row[q] = s.row[q],
           \A c \in Contexts \ {r} : t.session[c] = s.session[c],
           t.row[r].state = "ACTIVE", t.row[r].parent = s.row[r].parent,
           t.row[r].generation = s.row[r].generation,
           SessionFits(t.session[r]), ~t.session[r].in_flight,
           t.session[r].prepared = 0, t.session[r].state # "CLOSED",
           t.borrows = Cardinality(Reading(t))
    PROVE  Open(t)
  <1>1. Sane(s) /\ Answered(s) /\ s \in Systems
    BY DEF Open, Sane
  <1>2. \A c \in Contexts : SessionFits(t.session[c])
    BY <1>1 DEF Sane
  <1>3. ASSUME NEW q \in Rows PROVE RowFits(t, q)
    <2>1. CASE q = r
      BY <1>1, <2>1 DEF Sane, RowFits, LiveIn
    <2>2. CASE q # r
      BY <1>1, <2>2, RowsAndContexts DEF Sane, RowFits
    <2> QED BY <2>1, <2>2
  <1>4. Nested(t)
    <2>1. \A q \in Rows : LiveIn(t, q) <=> LiveIn(s, q)
      BY DEF LiveIn
    <2>2. \A q \in Rows : /\ t.row[q].parent = s.row[q].parent
                          /\ t.row[q].generation = s.row[q].generation
                          /\ t.row[q].state = "RESERVED" <=> s.row[q].state = "RESERVED"
      BY DEF LiveIn
    <2>3. ASSUME NEW q \in Rows, LiveIn(t, q)
          PROVE  /\ t.session[t.row[q].parent].in_flight
                 /\ t.session[t.row[q].parent].generation = t.row[q].generation
                 /\ \A p \in Rows : LiveIn(t, p) /\ t.row[p].parent = t.row[q].parent => p = q
      <3>1. /\ s.session[s.row[q].parent].in_flight
            /\ s.session[s.row[q].parent].generation = s.row[q].generation
            /\ \A p \in Rows : LiveIn(s, p) /\ s.row[p].parent = s.row[q].parent => p = q
        BY <1>1, <2>1, <2>3 DEF Sane, Nested
      <3>2. s.row[q].parent \in Contexts
        BY <1>1, <2>1, <2>3 DEF Sane, RowFits, LiveIn
      <3>3. s.row[q].parent # r
        BY <3>1
      <3> QED BY <2>1, <2>2, <3>1, <3>2, <3>3
    <2>4. ASSUME NEW q \in Rows, t.row[q].state = "RESERVED"
          PROVE  t.row[q].parent = 0 /\ t.session[0].prepared = q
                 /\ t.row[q].generation = t.session[0].generation
      BY <1>1, <2>2, <2>4, RowsAndContexts DEF Sane, Nested
    <2> QED BY <2>3, <2>4 DEF Nested
  <1>5. Answered(t)
    <2>1. t.session[0] = s.session[0] /\ s.session[0].prepared \in 0 .. capacity
      BY <1>1, RowsAndContexts DEF Systems, SessionRecords
    <2>2. s.session[0].prepared # 0 =>
            s.session[0].prepared \in Rows /\ s.row[s.session[0].prepared].state = "RESERVED"
      BY <1>1, <2>1 DEF Answered, Rows
    <2>3. t.session[0].prepared # 0 => t.row[t.session[0].prepared].state = "RESERVED"
      BY <2>1, <2>2 DEF LiveIn
    <2>4. \A c \in Contexts : t.session[c].in_flight =>
             \E q \in Rows : LiveIn(t, q) /\ t.row[q].parent = c
      BY <1>1 DEF Answered, LiveIn
    <2> QED BY <2>3, <2>4 DEF Answered
  <1>6. \A q \in Rows : t.row[q].state # "CANCELED"
    BY DEF Open
  <1>7. t.session[0].state # "CLOSED"
    BY RowsAndContexts DEF Open
  <1> QED BY <1>2, <1>3, <1>4, <1>5, <1>6, <1>7 DEF Open, Sane

-----------------------------------------------------------------------------
(* Children at work: their first document and those they go on to.         *)

\* A child that is under way and waits for no subdialog of its own.
Working(s, r) ==
    Open(s) /\ s.row[r].state = "ACTIVE" /\ ~s.session[r].in_flight

\* Row r becomes x, its session q, and n documents are borrowed.
Becomes(s, t, r, x, q, n) ==
    /\ t.row = [s.row EXCEPT ![r] = x]
    /\ t.session = [s.session EXCEPT ![r] = q]
    /\ t.borrows = n
    /\ x \in RowRecords /\ q \in SessionRecords /\ n \in Nat => t \in Systems

\* What such a change leaves alone.
LEMMA BecomesParts ==
    ASSUME OwnerAssumption, NEW s \in Systems, NEW t, NEW r \in Rows, NEW x, NEW q, NEW n,
           Becomes(s, t, r, x, q, n)
    PROVE  /\ t.row[r] = x /\ t.session[r] = q /\ t.borrows = n
           /\ \A p \in Rows \ {r} : t.row[p] = s.row[p]
           /\ \A c \in Contexts \ {r} : t.session[c] = s.session[c]
  BY RowsAndContexts DEF Systems, Becomes

\* The operations on a child are of that form: its event,
LEMMA WithEventBecomes ==
    ASSUME OwnerAssumption, NEW s \in Systems, NEW r \in Rows
    PROVE  Becomes(s, WithEvent(s, r), r, [s.row[r] EXCEPT !.event = TRUE],
                   s.session[r], s.borrows)
  <1> DEFINE t == WithEvent(s, r)
             x == [s.row[r] EXCEPT !.event = TRUE]
  <1>1. t.row = [s.row EXCEPT ![r] = x] /\ t.session = s.session /\ t.borrows = s.borrows
    BY DEF WithEvent, Systems
  <1>2. s.session = [s.session EXCEPT ![r] = s.session[r]]
    BY RowsAndContexts DEF Systems
  <1>3. ASSUME x \in RowRecords PROVE t \in Systems
    <2>1. t.row \in [Rows -> RowRecords]
      BY <1>1, <1>3 DEF Systems
    <2> QED BY <1>1, <2>1 DEF WithEvent, Systems
  <1> QED BY <1>1, <1>2, <1>3 DEF Becomes

\* a document from the store,
LEMMA BorrowedBecomes ==
    ASSUME OwnerAssumption, NEW s \in Systems, NEW r \in Rows, NEW h
    PROVE  Becomes(s, Borrowed(s, r, h), r, [s.row[r] EXCEPT !.ref = TRUE, !.hops = h],
                   s.session[r], s.borrows + 1)
  <1> DEFINE t == Borrowed(s, r, h)
             x == [s.row[r] EXCEPT !.ref = TRUE, !.hops = h]
  <1>1. t.row = [s.row EXCEPT ![r] = x] /\ t.session = s.session /\ t.borrows = s.borrows + 1
    BY DEF Borrowed, Systems
  <1>2. s.session = [s.session EXCEPT ![r] = s.session[r]]
    BY RowsAndContexts DEF Systems
  <1>3. ASSUME x \in RowRecords PROVE t \in Systems
    <2>1. t.row \in [Rows -> RowRecords]
      BY <1>1, <1>3 DEF Systems
    <2>2. t = [s EXCEPT !.row[r].ref = TRUE, !.row[r].hops = h, !.borrows = @ + 1]
      BY DEF Borrowed
    <2>3. s.borrows + 1 \in Nat
      BY DEF Systems
    <2> HIDE DEF t
    <2> QED BY <1>1, <2>1, <2>2, <2>3 DEF Systems
  <1> QED BY <1>1, <1>2, <1>3 DEF Becomes

\* the end of its session,
LEMMA DestroyedBecomes ==
    ASSUME OwnerAssumption, NEW s \in Systems, NEW r \in Rows, settle_subdialog(s, r) = s
    PROVE  Becomes(s, row_destroy_runtime(s, r), r,
                   [s.row[r] EXCEPT !.hops = 0, !.ref = FALSE], NoSession,
                   s.borrows - (IF s.row[r].ref THEN 1 ELSE 0))
  <1> DEFINE t == row_destroy_runtime(s, r)
             x == [s.row[r] EXCEPT !.hops = 0, !.ref = FALSE]
             n == s.borrows - (IF s.row[r].ref THEN 1 ELSE 0)
  <1>1. /\ t.row = [s.row EXCEPT ![r] = x]
        /\ t.session = [s.session EXCEPT ![r] = NoSession] /\ t.borrows = n
    BY RowsAndContexts DEF row_destroy_runtime, Systems
  <1>2. ASSUME x \in RowRecords, n \in Nat PROVE t \in Systems
    <2>1. t.row \in [Rows -> RowRecords] /\ t.session \in [Contexts -> SessionRecords]
      BY <1>1, <1>2, FreshRecords DEF Systems
    <2> HIDE DEF x, n
    <2>2. t = [s EXCEPT !.session[r] = NoSession, !.row[r].hops = 0, !.row[r].ref = FALSE,
                        !.borrows = @ - (IF s.row[r].ref THEN 1 ELSE 0)]
      BY DEF row_destroy_runtime
    <2> HIDE DEF t
    <2> QED BY <1>1, <1>2, <2>1, <2>2 DEF Systems
  <1> QED BY <1>1, <1>2 DEF Becomes

\* and its start.
LEMMA StartedBecomes ==
    ASSUME OwnerAssumption, NEW s \in Systems, NEW r \in Rows, NEW t \in Started(r, s)
    PROVE  \E o \in Outcomes(NoSession) :
             Becomes(s, t, r, s.row[r], Stopped(NoSession, o), s.borrows)
  <1>1. PICK o \in Outcomes(NoSession) : t = [s EXCEPT !.session[r] = Stopped(NoSession, o)]
    BY DEF Started
  <1> DEFINE q == Stopped(NoSession, o)
  <1> HIDE DEF q
  <1>2. t.row = s.row /\ t.session = [s.session EXCEPT ![r] = q] /\ t.borrows = s.borrows
    BY <1>1 DEF Systems, q
  <1>3. s.row = [s.row EXCEPT ![r] = s.row[r]]
    BY DEF Systems
  <1>4. ASSUME q \in SessionRecords PROVE t \in Systems
    <2>1. t.row \in [Rows -> RowRecords] /\ t.session \in [Contexts -> SessionRecords]
      BY <1>2, <1>4 DEF Systems
    <2> QED BY <1>1, <1>2, <2>1 DEF Systems
  <1>5. Becomes(s, t, r, s.row[r], q, s.borrows)
    BY <1>2, <1>3, <1>4 DEF Becomes
  <1> QED BY <1>5 DEF q

\* A child that works goes on working, if the documents are counted right.
LEMMA WorkingGoesOn ==
    ASSUME OwnerAssumption, NEW s, NEW r \in Rows, Working(s, r),
           NEW x \in RowRecords, x.state = "ACTIVE",
           x.parent = s.row[r].parent, x.generation = s.row[r].generation,
           NEW q \in SessionRecords, SessionFits(q), ~q.in_flight, q.prepared = 0,
           q.state # "CLOSED",
           NEW n \in Nat,
           n = s.borrows - (IF s.row[r].ref THEN 1 ELSE 0) + (IF x.ref THEN 1 ELSE 0),
           NEW t, Becomes(s, t, r, x, q, n)
    PROVE  Working(t, r)
  <1>1. Open(s) /\ s \in Systems /\ s.borrows = Cardinality(Reading(s))
    BY DEF Working, Open, Sane
  <1>2. /\ t \in Systems /\ t.row[r] = x /\ t.session[r] = q /\ t.borrows = n
        /\ \A p \in Rows \ {r} : t.row[p] = s.row[p]
        /\ \A c \in Contexts \ {r} : t.session[c] = s.session[c]
    <2>1. t \in Systems
      BY DEF Becomes
    <2> QED BY <1>1, <2>1, BecomesParts
  <1>3. s.row[r].ref \in BOOLEAN /\ x.ref \in BOOLEAN
    BY <1>1 DEF Systems, RowRecords
  <1>4. t.borrows = Cardinality(Reading(t))
    <2>1. /\ Cardinality(Reading(s)) \in Nat
          /\ x.ref = s.row[r].ref => Cardinality(Reading(t)) = Cardinality(Reading(s))
          /\ x.ref /\ ~s.row[r].ref => Cardinality(Reading(t)) = Cardinality(Reading(s)) + 1
          /\ ~x.ref /\ s.row[r].ref => Cardinality(Reading(t)) = Cardinality(Reading(s)) - 1
      BY <1>1, <1>2, ReadingChanges
    <2> QED BY <1>1, <1>2, <1>3, <2>1
  <1>5. Open(t)
    <2>1. LiveIn(s, r)
      BY DEF Working, LiveIn
    <2> QED BY <1>1, <1>2, <1>4, <2>1, ChildMoves DEF Working
  <1> QED BY <1>2, <1>5 DEF Working

\* What is known of a child that works.
LEMMA WorkingFacts ==
    ASSUME OwnerAssumption, NEW s, NEW r \in Rows, Working(s, r)
    PROVE  /\ s \in Systems /\ s.row[r] \in RowRecords /\ s.session[r] \in SessionRecords
           /\ SessionFits(s.session[r]) /\ ~s.session[r].in_flight
           /\ s.session[r].prepared = 0 /\ s.session[r].state # "CLOSED"
           /\ s.row[r].state = "ACTIVE" /\ s.borrows \in Nat
           /\ s.row[r].ref => s.borrows - 1 \in Nat
  <1>1. s \in Systems /\ s.borrows = Cardinality(Reading(s))
    BY DEF Working, Open, Sane
  <1>2. s.row[r] \in RowRecords /\ s.session[r] \in SessionRecords /\ s.borrows \in Nat
    BY <1>1, RowsAndContexts DEF Systems
  <1>3. SessionFits(s.session[r]) /\ s.session[r].prepared = 0 /\ s.session[r].state # "CLOSED"
    BY RowsAndContexts DEF Working, Open, Sane, RowFits
  <1>4. ASSUME s.row[r].ref PROVE s.borrows # 0
    <2>1. r \in Reading(s) /\ IsFiniteSet(Reading(s))
      BY <1>4, RowsAndContexts, FS_Subset DEF Reading
    <2> QED BY <1>1, <2>1, FS_EmptySet
  <1> QED BY <1>1, <1>2, <1>3, <1>4 DEF Working

\* The event a child is answered with.
LEMMA WithEventWorks ==
    ASSUME OwnerAssumption, NEW s, NEW r \in Rows, Working(s, r)
    PROVE  Working(WithEvent(s, r), r)
  <1> DEFINE x == [s.row[r] EXCEPT !.event = TRUE]
  <1>1. /\ x \in RowRecords /\ x.state = "ACTIVE" /\ x.parent = s.row[r].parent
        /\ x.generation = s.row[r].generation /\ x.ref = s.row[r].ref
    BY WorkingFacts DEF RowRecords
  <1>2. s.borrows = s.borrows - (IF s.row[r].ref THEN 1 ELSE 0) + (IF x.ref THEN 1 ELSE 0)
    BY <1>1, WorkingFacts
  <1> HIDE DEF x
  <1>3. Becomes(s, WithEvent(s, r), r, x, s.session[r], s.borrows)
    BY WorkingFacts, WithEventBecomes DEF x
  <1> QED BY <1>1, <1>2, <1>3, WorkingFacts, WorkingGoesOn

\* Tearing down the session of a child that works gives its document back.
LEMMA DestroyedWorks ==
    ASSUME OwnerAssumption, NEW s, NEW r \in Rows, Working(s, r)
    PROVE  /\ Working(row_destroy_runtime(s, r), r)
           /\ row_destroy_runtime(s, r).session[r] = NoSession
           /\ ~row_destroy_runtime(s, r).row[r].ref
  <1> DEFINE x == [s.row[r] EXCEPT !.hops = 0, !.ref = FALSE]
             n == s.borrows - (IF s.row[r].ref THEN 1 ELSE 0)
             t == row_destroy_runtime(s, r)
  <1>1. /\ x \in RowRecords /\ x.state = "ACTIVE" /\ x.parent = s.row[r].parent
        /\ x.generation = s.row[r].generation /\ x.ref = FALSE
    <2>1. 0 \in 0 .. max_navigation_hops
      BY DEF OwnerAssumption
    <2> QED BY <2>1, WorkingFacts DEF RowRecords
  <1>2. s \in Systems /\ n \in Nat /\ n = n + (IF x.ref THEN 1 ELSE 0)
    BY <1>1, WorkingFacts
  <1>3. settle_subdialog(s, r) = s
    BY WorkingFacts DEF settle_subdialog
  <1>4. Becomes(s, t, r, x, NoSession, n)
    BY <1>2, <1>3, DestroyedBecomes
  <1> HIDE DEF x, t
  <1>5. t.session[r] = NoSession /\ ~t.row[r].ref
    BY <1>1, <1>2, <1>4, BecomesParts
  <1>6. ~NoSession.in_flight /\ NoSession.prepared = 0 /\ NoSession.state # "CLOSED"
    BY DEF NoSession
  <1>7. Working(t, r)
    BY <1>1, <1>2, <1>4, <1>6, FreshRecords, WorkingGoesOn
  <1> QED BY <1>5, <1>7 DEF t

\* Another document, for a child that has none: it cannot be started, or it runs
\* to its next stop.
LEMMA DocumentWorks ==
    ASSUME OwnerAssumption, NEW s, NEW r \in Rows, Working(s, r),
           s.session[r] = NoSession, ~s.row[r].ref, NEW h \in 0 .. max_navigation_hops
    PROVE  /\ Working(Borrowed(s, r, h), r)
           /\ Working(WithEvent(row_destroy_runtime(Borrowed(s, r, h), r), r), r)
           /\ \A t \in Started(r, Borrowed(s, r, h)) : Working(t, r)
  <1> DEFINE x == [s.row[r] EXCEPT !.ref = TRUE, !.hops = h]
             b == Borrowed(s, r, h)
  <1>1. s \in Systems /\ s.borrows \in Nat /\ s.borrows + 1 \in Nat
    BY WorkingFacts
  <1>2. /\ x \in RowRecords /\ x.state = "ACTIVE" /\ x.parent = s.row[r].parent
        /\ x.generation = s.row[r].generation /\ x.ref = TRUE
    BY WorkingFacts DEF RowRecords
  <1>3. Becomes(s, b, r, x, NoSession, s.borrows + 1)
    BY <1>1, BorrowedBecomes
  <1> HIDE DEF x, b
  <1>4. ~NoSession.in_flight /\ NoSession.prepared = 0 /\ NoSession.state # "CLOSED"
    BY DEF NoSession
  <1>5. Working(b, r)
    BY <1>1, <1>2, <1>3, <1>4, FreshRecords, WorkingGoesOn
  <1>6. b \in Systems /\ b.row[r] = x /\ b.session[r] = NoSession /\ b.borrows = s.borrows + 1
    <2>1. b \in Systems
      BY <1>5, WorkingFacts
    <2> QED BY <1>1, <1>3, <2>1, BecomesParts
  <1>7. Working(row_destroy_runtime(b, r), r)
    BY <1>5, DestroyedWorks
  <1>8. ASSUME NEW t \in Started(r, b) PROVE Working(t, r)
    <2>1. PICK o \in Outcomes(NoSession) :
            Becomes(b, t, r, b.row[r], Stopped(NoSession, o), b.borrows)
      BY <1>6, StartedBecomes
    <2>2. /\ Stopped(NoSession, o) \in SessionRecords /\ SessionFits(Stopped(NoSession, o))
          /\ ~Stopped(NoSession, o).in_flight /\ Stopped(NoSession, o).prepared = 0
          /\ Stopped(NoSession, o).state # "CLOSED"
      BY FreshRecords, StoppedFits DEF NoSession
    <2>3. b.borrows = b.borrows - (IF b.row[r].ref THEN 1 ELSE 0) + (IF x.ref THEN 1 ELSE 0)
      BY <1>1, <1>2, <1>6
    <2>4. b.borrows \in Nat
      BY <1>1, <1>6
    <2> QED BY <1>2, <1>5, <1>6, <2>1, <2>2, <2>3, <2>4, WorkingGoesOn
  <1>9. Working(WithEvent(row_destroy_runtime(b, r), r), r)
    BY <1>7, WithEventWorks
  <1> QED BY <1>5, <1>8, <1>9 DEF b

\* The first document of a child.
LEMMA AcquireWorks ==
    ASSUME OwnerAssumption, NEW s, NEW r \in Rows, Working(s, r),
           s.session[r] = NoSession, ~s.row[r].ref, NEW t \in row_acquire_initial(s, r)
    PROVE  Working(t, r)
  <1>1. 0 \in 0 .. max_navigation_hops
    BY DEF OwnerAssumption
  <1> QED BY <1>1, WithEventWorks, DocumentWorks DEF row_acquire_initial

-----------------------------------------------------------------------------
(* Following a child from document to document.                            *)

Results == [sys : Systems, ok : BOOLEAN, progressed : BOOLEAN]

\* A result of navigating: the child still works, or its step has failed.
Navigated(d, r) == d \in Results /\ Working(d.sys, r)

\* A result is a record of its parts.
LEMMA ResultParts ==
    ASSUME NEW s \in Systems, NEW a \in BOOLEAN, NEW b \in BOOLEAN
    PROVE  /\ Result(s, a, b) \in Results /\ Result(s, a, b).sys = s
           /\ Result(s, a, b).ok = a /\ Result(s, a, b).progressed = b
  BY DEF Result, Results

\* One hop.
LEMMA HopWorks ==
    ASSUME OwnerAssumption, NEW s, NEW r \in Rows, Working(s, r),
           NEW d \in row_follow_hop(s, r)
    PROVE  Navigated(d, r)
  <1>1. s \in Systems
    BY WorkingFacts
  <1>2. CASE s.row[r].hops >= max_navigation_hops
    <2>1. d = Result(s, FALSE, FALSE)
      BY <1>2 DEF row_follow_hop
    <2> QED BY <1>1, <2>1, ResultParts DEF Navigated
  <1>3. CASE ~(s.row[r].hops >= max_navigation_hops)
    <2> DEFINE u == row_destroy_runtime(s, r)
               h == s.row[r].hops + 1
    <2>1. h \in 0 .. max_navigation_hops
      <3>1. s.row[r].hops \in 0 .. max_navigation_hops
        BY WorkingFacts DEF RowRecords
      <3> QED BY <1>3, <3>1 DEF OwnerAssumption
    <2>2. Working(u, r) /\ u.session[r] = NoSession /\ ~u.row[r].ref
      BY DestroyedWorks
    <2>3. NextDocument(s, r) = Borrowed(u, r, h)
      BY DEF NextDocument
    <2> HIDE DEF u, h
    <2>4. PICK t \in {WithEvent(s, r), WithEvent(row_destroy_runtime(NextDocument(s, r), r), r)}
                     \cup Started(r, NextDocument(s, r)) : d = Result(t, TRUE, TRUE)
      BY <1>3, Zenon DEF row_follow_hop
    <2>5. Working(t, r)
      BY <2>1, <2>2, <2>3, <2>4, WithEventWorks, DocumentWorks
    <2>6. t \in Systems
      BY <2>5, WorkingFacts
    <2> QED BY <2>4, <2>5, <2>6, ResultParts DEF Navigated
  <1> QED BY <1>2, <1>3

\* The results after at most n hops.
HopStep(d, r) ==
    IF d.ok /\ Navigating(d.sys, r) THEN row_follow_hop(d.sys, r) ELSE {d}
IsHopping(s, r, m, f) ==
    f = [n \in 0 .. m |->
          IF n = 0 THEN {Result(s, TRUE, FALSE)}
          ELSE UNION {HopStep(d, r) : d \in f[n - 1]}]

\* The results are defined by a recursive function: one such function exists.
LEMMA HoppingExists ==
    ASSUME NEW s, NEW r, NEW m \in Nat
    PROVE  \E f : IsHopping(s, r, m, f)
  <1> DEFINE T == {k \in Nat : \E f : IsHopping(s, r, k, f)}
  <1>1. 0 \in T
    <2> DEFINE f == [n \in 0 .. 0 |-> {Result(s, TRUE, FALSE)}]
    <2>1. IsHopping(s, r, 0, f)
      BY DEF IsHopping
    <2> QED BY <2>1
  <1>2. ASSUME NEW k \in T PROVE k + 1 \in T
    <2>1. k \in Nat
      OBVIOUS
    <2>2. PICK f : IsHopping(s, r, k, f)
      OBVIOUS
    <2> DEFINE Body(g, n) == IF n = 0 THEN {Result(s, TRUE, FALSE)}
                             ELSE UNION {HopStep(d, r) : d \in g[n - 1]}
               After == UNION {HopStep(d, r) : d \in f[k]}
               v == [n \in 0 .. k + 1 |-> IF n = k + 1 THEN After ELSE f[n]]
    <2>3. \A n \in 0 .. k : f[n] = Body(f, n)
      BY <2>2, Zenon DEF IsHopping
    <2>4. ASSUME NEW n \in 0 .. k + 1 PROVE v[n] = Body(v, n)
      <3>1. CASE n = k + 1
        <4>1. n # 0 /\ n - 1 = k /\ k \in 0 .. k + 1 /\ k # k + 1
          BY <2>1, <3>1
        <4>2. v[n] = After /\ v[n - 1] = f[k]
          BY <3>1, <4>1
        <4> HIDE DEF v
        <4> QED BY <4>1, <4>2, Zenon
      <3>2. CASE n # k + 1
        <4>1. n \in 0 .. k /\ (n # 0 => n - 1 \in 0 .. k + 1 /\ n - 1 # k + 1)
          BY <2>1, <3>2
        <4>2. v[n] = f[n] /\ (n # 0 => v[n - 1] = f[n - 1])
          BY <3>2, <4>1
        <4>3. f[n] = Body(f, n)
          BY <2>3, <4>1
        <4> HIDE DEF v
        <4> QED BY <4>2, <4>3
      <3> QED BY <3>1, <3>2
    <2>5. v = [n \in 0 .. k + 1 |-> Body(v, n)]
      <3>1. v = [n \in 0 .. k + 1 |-> v[n]]
        OBVIOUS
      <3> HIDE DEF v
      <3> QED BY <2>4, <3>1, Zenon
    <2> HIDE DEF v
    <2>6. IsHopping(s, r, k + 1, v)
      BY <2>5, Zenon DEF IsHopping
    <2> QED BY <2>1, <2>6
  <1> HIDE DEF T
  <1>3. T \in SUBSET Nat
    BY DEF T
  <1>4. T = Nat
    BY <1>1, <1>2, <1>3, StepInduction
  <1> QED BY <1>4 DEF T

\* However often it hops, the child works.
LEMMA NavigationWorks ==
    ASSUME OwnerAssumption, NEW s, NEW r \in Rows, Working(s, r),
           NEW d \in row_follow_navigation(s, r)
    PROVE  Navigated(d, r)
  <1> DEFINE m == max_navigation_hops + 1
             f == CHOOSE f : IsHopping(s, r, m, f)
  <1>1. m \in Nat
    BY DEF OwnerAssumption
  <1>2. IsHopping(s, r, m, f)
    BY <1>1, HoppingExists
  <1>3. row_follow_navigation(s, r) =
          {IF done.ok /\ done.sys.session[r].state = "SUBMITTING" /\ ~done.sys.row[r].event
           THEN [done EXCEPT !.ok = FALSE] ELSE done : done \in f[m]}
    BY Zenon DEF row_follow_navigation, IsHopping, HopStep
  <1> HIDE DEF f, m
  <1> DEFINE T == {n \in Nat : n <= m => \A e \in f[n] : Navigated(e, r)}
  <1>4. 0 \in T
    <2>1. f[0] = {Result(s, TRUE, FALSE)}
      BY <1>1, <1>2 DEF IsHopping
    <2>2. s \in Systems
      BY WorkingFacts
    <2> QED BY <2>1, <2>2, ResultParts DEF Navigated
  <1>5. ASSUME NEW n \in T PROVE n + 1 \in T
    <2> SUFFICES ASSUME n + 1 <= m, NEW e \in f[n + 1] PROVE Navigated(e, r)
      OBVIOUS
    <2>1. f[n + 1] = UNION {HopStep(g, r) : g \in f[n]}
      <3>1. n \in Nat /\ n + 1 \in 0 .. m /\ n + 1 # 0 /\ (n + 1) - 1 = n
        BY <1>1
      <3>2. f[n + 1] = IF n + 1 = 0 THEN {Result(s, TRUE, FALSE)}
                       ELSE UNION {HopStep(g, r) : g \in f[(n + 1) - 1]}
        BY <1>2, <3>1, Zenon DEF IsHopping
      <3> QED BY <3>1, <3>2
    <2>2. PICK g \in f[n] : e \in HopStep(g, r)
      BY <2>1
    <2>3. Navigated(g, r)
      BY <1>1, <2>2
    <2>4. CASE g.ok /\ Navigating(g.sys, r)
      BY <2>2, <2>3, <2>4, HopWorks DEF HopStep, Navigated
    <2>5. CASE ~(g.ok /\ Navigating(g.sys, r))
      BY <2>2, <2>3, <2>5 DEF HopStep
    <2> QED BY <2>4, <2>5
  <1> HIDE DEF T
  <1>6. T = Nat
    <2>1. T \in SUBSET Nat
      BY DEF T
    <2> QED BY <1>4, <1>5, <2>1, StepInduction
  <1>7. \A e \in f[m] : Navigated(e, r)
    BY <1>1, <1>6 DEF T
  <1>8. PICK e \in f[m] : d = IF e.ok /\ e.sys.session[r].state = "SUBMITTING"
                                 /\ ~e.sys.row[r].event
                              THEN [e EXCEPT !.ok = FALSE] ELSE e
    BY <1>3
  <1>9. Navigated(e, r)
    BY <1>7
  <1>10. d \in Results /\ d.sys = e.sys
    BY <1>8, <1>9 DEF Navigated, Results
  <1> QED BY <1>9, <1>10 DEF Navigated

-----------------------------------------------------------------------------
(* A child begins to work, and a session asks for a child.                 *)

\* A child that was pending begins.
LEMMA PendingWorks ==
    ASSUME OwnerAssumption, NEW s, Open(s), NEW r \in Rows, s.row[r].state = "PENDING"
    PROVE  LET t == [s EXCEPT !.row[r].state = "ACTIVE"]
           IN Working(t, r) /\ t.session[r] = NoSession /\ ~t.row[r].ref
  <1> DEFINE t == [s EXCEPT !.row[r].state = "ACTIVE"]
             x == [s.row[r] EXCEPT !.state = "ACTIVE"]
  <1>1. s \in Systems /\ RowFits(s, r) /\ s.borrows = Cardinality(Reading(s))
    BY DEF Open, Sane
  <1>2. s.session[r] = NoSession /\ ~s.row[r].ref /\ s.row[r] \in RowRecords
    BY <1>1 DEF RowFits, Systems
  <1>3. t.row = [s.row EXCEPT ![r] = x] /\ t.session = s.session /\ t.borrows = s.borrows
    BY <1>1 DEF Systems
  <1>4. x \in RowRecords /\ x.state = "ACTIVE" /\ x.parent = s.row[r].parent
        /\ x.generation = s.row[r].generation /\ x.ref = s.row[r].ref
    BY <1>2 DEF RowRecords, RowStates
  <1>5. t \in Systems
    <2>1. t.row \in [Rows -> RowRecords] /\ t.session \in [Contexts -> SessionRecords]
      BY <1>1, <1>3, <1>4 DEF Systems
    <2>2. Shaped(s) /\ s.borrows \in Nat
      BY <1>1, SystemIsShaped DEF Systems
    <2>3. Shaped(t)
      BY <2>2 DEF Shaped
    <2> HIDE DEF t
    <2> QED BY <1>3, <2>1, <2>2, <2>3, ShapedIsSystem
  <1> HIDE DEF t, x
  <1>6. t.row[r] = x /\ \A q \in Rows \ {r} : t.row[q] = s.row[q]
    BY <1>1, <1>3 DEF Systems
  <1>7. t.borrows = Cardinality(Reading(t))
    BY <1>1, <1>3, <1>4, <1>5, <1>6, ReadingChanges
  <1>8. Open(t)
    <2>1. LiveIn(s, r) /\ SessionFits(NoSession)
      BY FreshRecords DEF LiveIn
    <2>2. ~NoSession.in_flight /\ NoSession.prepared = 0 /\ NoSession.state # "CLOSED"
      BY DEF NoSession
    <2>3. /\ t.session[r] = NoSession /\ ~s.session[r].in_flight
          /\ \A c \in Contexts \ {r} : t.session[c] = s.session[c]
      BY <1>2, <1>3, <2>2
    <2>4. /\ t.row[r].state = "ACTIVE" /\ t.row[r].parent = s.row[r].parent
          /\ t.row[r].generation = s.row[r].generation
      BY <1>4, <1>6
    <2> QED BY <1>5, <1>6, <1>7, <2>1, <2>2, <2>3, <2>4, ChildMoves
  <1>9. ~t.session[r].in_flight
    BY <1>2, <1>3 DEF NoSession
  <1> QED BY <1>2, <1>3, <1>4, <1>6, <1>8, <1>9 DEF Working, t

\* The row of a child that is asked for, and its parent.
LEMMA AskingParts ==
    ASSUME OwnerAssumption, NEW s \in Systems, NEW c \in Contexts, EmptyRows(s) # {}
    PROVE  LET r == NextRow(s)
               t == subdialog_commit(owner_prepare(s, c), c)
           IN /\ t.row = [s.row EXCEPT ![r] =
                            [EmptyRow EXCEPT !.state = "PENDING", !.parent = c,
                                             !.generation = s.session[c].generation,
                                             !.depth = DepthOf(s, c) + 1]]
              /\ t.session = [s.session EXCEPT ![c] =
                                [s.session[c] EXCEPT !.prepared = 0, !.in_flight = TRUE,
                                                     !.mailbox = "EMPTY"]]
              /\ t.borrows = s.borrows /\ Shaped(t)
  <1> DEFINE r == NextRow(s)
             p == owner_prepare(s, c)
             x == [EmptyRow EXCEPT !.state = "RESERVED", !.parent = c,
                                   !.generation = s.session[c].generation,
                                   !.depth = DepthOf(s, c) + 1]
             y == [EmptyRow EXCEPT !.state = "PENDING", !.parent = c,
                                   !.generation = s.session[c].generation,
                                   !.depth = DepthOf(s, c) + 1]
             u == [p EXCEPT !.session[c].prepared = 0, !.session[c].in_flight = TRUE,
                            !.session[c].mailbox = "EMPTY"]
             t == subdialog_commit(owner_prepare(s, c), c)
             q == [s.session[c] EXCEPT !.prepared = 0, !.in_flight = TRUE, !.mailbox = "EMPTY"]
  <1>1. r \in Rows
    BY NextRowIsEmpty
  <1>2. y = [x EXCEPT !.state = "PENDING"] /\ x.state = "RESERVED"
    BY DEF EmptyRow
  <1>3. p = [s EXCEPT !.row[r] = x, !.session[c].prepared = r]
    BY DEF owner_prepare
  <1>4. t = row_ticket_commit(u, p.session[c].prepared)
    BY Zenon DEF subdialog_commit
  <1> HIDE DEF r, x, y, p, t
  <1>5. /\ p.row = [s.row EXCEPT ![r] = x] /\ p.borrows = s.borrows
        /\ p.session = [s.session EXCEPT ![c] = [s.session[c] EXCEPT !.prepared = r]]
    BY <1>3 DEF Systems
  <1>6. Shaped(p)
    <2>1. Shaped(s)
      BY SystemIsShaped
    <2> QED BY <1>3, <2>1 DEF Shaped
  <1>7. p.session[c] = [s.session[c] EXCEPT !.prepared = r]
        /\ s.session \in [Contexts -> SessionRecords]
    BY <1>5 DEF Systems
  <1>8. p.session[c].prepared = r
    BY <1>7 DEF SessionRecords
  <1>9. u.row = p.row /\ u.borrows = p.borrows /\ Shaped(u)
        /\ u.session = [p.session EXCEPT ![c] =
             [p.session[c] EXCEPT !.prepared = 0, !.in_flight = TRUE, !.mailbox = "EMPTY"]]
    BY <1>6 DEF Shaped
  <1>10. u.session = [s.session EXCEPT ![c] = q]
    <2>1. [p.session[c] EXCEPT !.prepared = 0, !.in_flight = TRUE, !.mailbox = "EMPTY"] = q
      BY <1>7, Zenon DEF SessionRecords
    <2> HIDE DEF u, q
    <2> QED BY <1>5, <1>9, <2>1
  <1> HIDE DEF u, q
  <1>11. u.row[r] = x
    BY <1>1, <1>5, <1>9 DEF Systems
  <1>12. t = [u EXCEPT !.row[r].state = "PENDING"]
    BY <1>2, <1>4, <1>8, <1>11 DEF row_ticket_commit
  <1>13. t.row = [u.row EXCEPT ![r] = [x EXCEPT !.state = "PENDING"]]
         /\ t.session = u.session /\ t.borrows = u.borrows /\ Shaped(t)
    BY <1>9, <1>11, <1>12 DEF Shaped
  <1>14. t.row = [s.row EXCEPT ![r] = y]
    BY <1>2, <1>5, <1>9, <1>13
  <1> QED BY <1>5, <1>9, <1>10, <1>13, <1>14 DEF r, t, q, y
\* A session that asks for a child waits for it, and all is well.
LEMMA AskingIsSound ==
    ASSUME OwnerAssumption, NEW s, Open(s), NEW c \in Contexts, Wants(s.session[c]),
           Admissible(s, c), c \in Rows => ~s.row[c].event
    PROVE  Open(subdialog_commit(owner_prepare(s, c), c))
  <1> DEFINE t == subdialog_commit(owner_prepare(s, c), c)
             r == NextRow(s)
             y == [EmptyRow EXCEPT !.state = "PENDING", !.parent = c,
                                   !.generation = s.session[c].generation,
                                   !.depth = DepthOf(s, c) + 1]
             q == [s.session[c] EXCEPT !.prepared = 0, !.in_flight = TRUE, !.mailbox = "EMPTY"]
  <1>1. /\ s \in Systems /\ Sane(s) /\ Answered(s) /\ s.row \in [Rows -> RowRecords]
        /\ s.session \in [Contexts -> SessionRecords] /\ s.borrows \in Nat
    BY DEF Open, Sane, Systems
  <1>2. r \in Rows /\ s.row[r].state = "EMPTY"
    BY NextRowIsEmpty DEF Admissible
  <1>3. /\ t.row = [s.row EXCEPT ![r] = y] /\ t.session = [s.session EXCEPT ![c] = q]
        /\ t.borrows = s.borrows /\ Shaped(t)
    BY <1>1, AskingParts DEF Admissible
  <1>4. /\ y.state = "PENDING" /\ y.parent = c /\ y.generation = s.session[c].generation
        /\ y.ref = FALSE /\ y.event = FALSE /\ y \in RowRecords
    <2>1. DepthOf(s, c) + 1 \in 0 .. max_nesting_depth
      <3>1. DepthOf(s, c) \in 0 .. max_nesting_depth
        BY <1>1, RowsAndContexts DEF DepthOf, RowRecords, OwnerAssumption
      <3> QED BY <3>1 DEF Admissible, OwnerAssumption
    <2>2. s.session[c].generation \in Nat
      BY <1>1 DEF SessionRecords
    <2> HIDE DEF DepthOf
    <2> QED BY <2>1, <2>2, FreshRecords DEF RowRecords, RowStates, EmptyRow
  <1>5. /\ q \in SessionRecords /\ q.in_flight = TRUE /\ q.prepared = 0 /\ q.mailbox = "EMPTY"
        /\ q.generation = s.session[c].generation /\ q.state = "RUNNING" /\ q.active
    <2>1. s.session[c] \in SessionRecords /\ s.session[c].state = "RUNNING"
          /\ s.session[c].active /\ 0 \in 0 .. capacity
      BY <1>1 DEF Wants, OwnerAssumption
    <2> QED BY <2>1 DEF SessionRecords
  <1>6. ~s.session[c].in_flight /\ s.session[c].prepared = 0 /\ s.session[c].state = "RUNNING"
    BY DEF Wants
  <1> HIDE DEF t, r, y, q
  <1>7. /\ t.row[r] = y /\ \A p \in Rows \ {r} : t.row[p] = s.row[p]
        /\ t.session[c] = q /\ \A d \in Contexts \ {c} : t.session[d] = s.session[d]
    BY <1>1, <1>2, <1>3
  <1>8. t \in Systems
    <2>1. t.row \in [Rows -> RowRecords] /\ t.session \in [Contexts -> SessionRecords]
      <3>1. y \in RowRecords /\ q \in SessionRecords
        BY <1>4, <1>5
      <3>2. t.row \in [Rows -> RowRecords]
        BY <1>1, <1>3, <3>1
      <3>3. t.session \in [Contexts -> SessionRecords]
        BY <1>1, <1>3, <3>1
      <3> QED BY <3>2, <3>3
    <2> QED BY <1>1, <1>3, <2>1, ShapedIsSystem
  <1>9. r # c /\ s.row[r] = EmptyRow /\ s.session[r] = NoSession
    BY <1>1, <1>2, <1>6 DEF Sane, RowFits, NoSession
  <1>10. \A d \in Contexts : SessionFits(t.session[d])
    <2>1. SessionFits(q)
      BY <1>5 DEF SessionFits
    <2> QED BY <1>1, <1>7, <2>1 DEF Sane
  <1>11. ASSUME NEW p \in Rows PROVE RowFits(t, p)
    <2>1. CASE p = r
      BY <1>2, <1>4, <1>7, <1>9, <2>1, RowsAndContexts DEF RowFits, NoSession
    <2>2. CASE p = c
      <3>1. RowFits(s, c) /\ s.session[c] # NoSession
        BY <1>1, <1>6, <2>2 DEF Sane, NoSession
      <3> QED BY <1>5, <1>7, <1>9, <2>2, <3>1 DEF RowFits
    <2>3. CASE p # r /\ p # c
      BY <1>1, <1>7, <2>3, RowsAndContexts DEF Sane, RowFits
    <2> QED BY <2>1, <2>2, <2>3
  <1>12. \A p \in Rows \ {r} : LiveIn(t, p) <=> LiveIn(s, p)
    BY <1>7 DEF LiveIn
  <1>13. ASSUME NEW p \in Rows, LiveIn(s, p) PROVE s.row[p].parent \in Contexts \ {c}
    <2>1. s.session[s.row[p].parent].in_flight
      BY <1>1, <1>13 DEF Sane, Nested
    <2>2. s.row[p].parent \in Contexts
      BY <1>1, <1>13 DEF Sane, RowFits, LiveIn
    <2> QED BY <1>6, <2>1, <2>2
  <1>14. Nested(t)
    <2>1. ASSUME NEW p \in Rows, LiveIn(t, p)
          PROVE  /\ t.session[t.row[p].parent].in_flight
                 /\ t.session[t.row[p].parent].generation = t.row[p].generation
                 /\ \A o \in Rows : LiveIn(t, o) /\ t.row[o].parent = t.row[p].parent => o = p
      <3>1. CASE p = r
        BY <1>4, <1>5, <1>7, <1>12, <1>13, <3>1
      <3>2. CASE p # r
        <4>1. LiveIn(s, p) /\ t.row[p] = s.row[p]
          BY <1>7, <1>12, <2>1, <3>2
        <4>2. s.row[p].parent \in Contexts \ {c}
          BY <1>13, <4>1
        <4>3. /\ s.session[s.row[p].parent].in_flight
              /\ s.session[s.row[p].parent].generation = s.row[p].generation
              /\ \A o \in Rows : LiveIn(s, o) /\ s.row[o].parent = s.row[p].parent => o = p
          BY <1>1, <4>1 DEF Sane, Nested
        <4> QED BY <1>4, <1>7, <1>12, <4>1, <4>2, <4>3
      <3> QED BY <3>1, <3>2
    <2>2. ASSUME NEW p \in Rows, t.row[p].state = "RESERVED"
          PROVE  t.row[p].parent = 0 /\ t.session[0].prepared = p
                 /\ t.row[p].generation = t.session[0].generation
      <3>1. p # r /\ t.row[p] = s.row[p]
        BY <1>4, <1>7, <2>2
      <3>2. s.row[p].parent = 0 /\ s.session[0].prepared = p
            /\ s.row[p].generation = s.session[0].generation
        BY <1>1, <2>2, <3>1 DEF Sane, Nested
      <3>3. c # 0
        BY <1>6, <3>2, RowsAndContexts
      <3> QED BY <1>7, <3>1, <3>2, <3>3, RowsAndContexts
    <2> QED BY <2>1, <2>2 DEF Nested
  <1>15. t.borrows = Cardinality(Reading(t))
    <2>1. t.row[r].ref = s.row[r].ref
      <3>1. EmptyRow.ref = FALSE
        BY DEF EmptyRow
      <3> QED BY <1>4, <1>7, <1>9, <3>1, Zenon
    <2>2. Cardinality(Reading(t)) = Cardinality(Reading(s))
      BY <1>1, <1>2, <1>7, <1>8, <2>1, ReadingChanges
    <2> QED BY <1>1, <1>3, <2>2 DEF Sane
  <1>16. Answered(t)
    <2>1. ASSUME NEW d \in Contexts, t.session[d].in_flight
          PROVE  \E p \in Rows : LiveIn(t, p) /\ t.row[p].parent = d
      <3>1. CASE d = c
        BY <1>2, <1>4, <1>7, <3>1 DEF LiveIn
      <3>2. CASE d # c
        <4>1. PICK p \in Rows : LiveIn(s, p) /\ s.row[p].parent = d
          BY <1>1, <1>7, <2>1, <3>2 DEF Answered
        <4>2. p # r
          BY <1>2, <4>1 DEF LiveIn
        <4> QED BY <1>7, <1>12, <4>1, <4>2
      <3> QED BY <3>1, <3>2
    <2>2. ASSUME t.session[0].prepared # 0
          PROVE  t.row[t.session[0].prepared].state = "RESERVED"
      <3>1. c # 0
        BY <1>5, <1>7, <2>2
      <3>2. t.session[0] = s.session[0] /\ s.session[0].prepared \in 0 .. capacity
        BY <1>1, <1>7, <3>1, RowsAndContexts DEF SessionRecords
      <3>3. s.session[0].prepared \in Rows
            /\ s.row[s.session[0].prepared].state = "RESERVED"
        BY <1>1, <2>2, <3>2 DEF Answered, Rows
      <3> QED BY <1>2, <1>7, <3>2, <3>3
    <2> QED BY <2>1, <2>2 DEF Answered
  <1>17. t.session[0].state # "CLOSED"
    BY <1>5, <1>7, RowsAndContexts DEF Open
  <1>18. \A p \in Rows : t.row[p].state # "CANCELED"
    BY <1>4, <1>7 DEF Open
  <1> QED BY <1>8, <1>10, <1>11, <1>14, <1>15, <1>16, <1>17, <1>18 DEF Open, Sane, t

-----------------------------------------------------------------------------
(* A child's completion, and its work.                                     *)

\* A result after which all is well.
Well(d) == d \in Results /\ Open(d.sys)

\* The parent of a child that works waits for it.
LEMMA ParentWaits ==
    ASSUME OwnerAssumption, NEW s, NEW r \in Rows, Working(s, r)
    PROVE  /\ s.row[r].parent \in Contexts \ {r}
           /\ s.session[s.row[r].parent].in_flight
           /\ s.session[s.row[r].parent].state = "RUNNING"
           /\ s.session[s.row[r].parent].prepared = 0
           /\ s.session[s.row[r].parent].mailbox = "EMPTY"
           /\ s.session[s.row[r].parent].generation = s.row[r].generation
           /\ \A q \in Rows : LiveIn(s, q) /\ s.row[q].parent = s.row[r].parent => q = r
  <1>1. Sane(s) /\ LiveIn(s, r) /\ ~s.session[r].in_flight
    BY DEF Working, Open, LiveIn
  <1>2. s.row[r].parent \in Contexts
    BY <1>1 DEF Sane, RowFits, LiveIn
  <1>3. /\ s.session[s.row[r].parent].in_flight
        /\ s.session[s.row[r].parent].generation = s.row[r].generation
        /\ \A q \in Rows : LiveIn(s, q) /\ s.row[q].parent = s.row[r].parent => q = r
    BY <1>1 DEF Sane, Nested
  <1>4. SessionFits(s.session[s.row[r].parent])
    BY <1>1, <1>2 DEF Sane
  <1> QED BY <1>1, <1>2, <1>3, <1>4 DEF SessionFits

\* A torn down child is forgotten and its parent goes on from where it waited.
LEMMA ParentGoesOn ==
    ASSUME OwnerAssumption, NEW s, NEW r \in Rows, Working(s, r),
           s.session[r] = NoSession, ~s.row[r].ref,
           NEW q \in SessionRecords, SessionFits(q), ~q.in_flight, q.prepared = 0,
           q.state # "CLOSED",
           NEW t, Shaped(t), t.row = [s.row EXCEPT ![r] = EmptyRow],
           t.session = [s.session EXCEPT ![s.row[r].parent] = q], t.borrows = s.borrows
    PROVE  Open(t)
  <1> DEFINE c == s.row[r].parent
  <1>1. /\ s \in Systems /\ Sane(s) /\ Answered(s) /\ s.row \in [Rows -> RowRecords]
        /\ s.session \in [Contexts -> SessionRecords] /\ s.borrows \in Nat
    BY DEF Working, Open, Sane, Systems
  <1>2. /\ c \in Contexts \ {r} /\ s.session[c].in_flight /\ s.session[c].prepared = 0
        /\ \A p \in Rows : LiveIn(s, p) /\ s.row[p].parent = c => p = r
    BY ParentWaits
  <1>3. t.session = [s.session EXCEPT ![c] = q]
    OBVIOUS
  <1>4. LiveIn(s, r) /\ s.row[r].parent = c /\ s.row[r].state = "ACTIVE"
    BY DEF Working, LiveIn
  <1> HIDE DEF c
  <1>5. /\ t.row[r] = EmptyRow /\ \A p \in Rows \ {r} : t.row[p] = s.row[p]
        /\ t.session[c] = q /\ \A d \in Contexts \ {c} : t.session[d] = s.session[d]
    BY <1>1, <1>2, <1>3
  <1>6. t \in Systems
    <2>1. t.row \in [Rows -> RowRecords] /\ t.session \in [Contexts -> SessionRecords]
      BY <1>1, <1>3, FreshRecords
    <2> QED BY <1>1, <2>1, ShapedIsSystem
  <1>7. /\ EmptyRow.state = "EMPTY" /\ EmptyRow.ref = FALSE /\ EmptyRow.event = FALSE
        /\ ~NoSession.in_flight /\ NoSession.prepared = 0 /\ NoSession.state = "NONE"
    BY DEF EmptyRow, NoSession
  <1>8. \A d \in Contexts : SessionFits(t.session[d])
    BY <1>1, <1>5 DEF Sane
  <1>9. ASSUME NEW p \in Rows PROVE RowFits(t, p)
    <2>1. CASE p = r
      BY <1>2, <1>5, <1>7, <2>1, RowsAndContexts DEF RowFits
    <2>2. CASE p = c
      <3>1. RowFits(s, c) /\ s.session[c] # NoSession
        BY <1>1, <1>2, <1>7, <2>2 DEF Sane
      <3> QED BY <1>2, <1>5, <2>2, <3>1 DEF RowFits
    <2>3. CASE p # r /\ p # c
      BY <1>1, <1>5, <2>3, RowsAndContexts DEF Sane, RowFits
    <2> QED BY <2>1, <2>2, <2>3
  <1>10. ~LiveIn(t, r) /\ \A p \in Rows \ {r} : LiveIn(t, p) <=> LiveIn(s, p)
    BY <1>5, <1>7 DEF LiveIn
  <1>11. Nested(t)
    <2>1. ASSUME NEW p \in Rows, LiveIn(t, p)
          PROVE  /\ t.session[t.row[p].parent].in_flight
                 /\ t.session[t.row[p].parent].generation = t.row[p].generation
                 /\ \A o \in Rows : LiveIn(t, o) /\ t.row[o].parent = t.row[p].parent => o = p
      <3>1. p # r /\ LiveIn(s, p) /\ t.row[p] = s.row[p]
        BY <1>5, <1>10, <2>1
      <3>2. s.row[p].parent \in Contexts \ {c}
        BY <1>1, <1>2, <3>1 DEF Sane, RowFits, LiveIn
      <3>3. /\ s.session[s.row[p].parent].in_flight
            /\ s.session[s.row[p].parent].generation = s.row[p].generation
            /\ \A o \in Rows : LiveIn(s, o) /\ s.row[o].parent = s.row[p].parent => o = p
        BY <1>1, <3>1 DEF Sane, Nested
      <3> QED BY <1>5, <1>10, <3>1, <3>2, <3>3
    <2>2. ASSUME NEW p \in Rows, t.row[p].state = "RESERVED"
          PROVE  t.row[p].parent = 0 /\ t.session[0].prepared = p
                 /\ t.row[p].generation = t.session[0].generation
      <3>1. p # r /\ t.row[p] = s.row[p]
        BY <1>5, <1>7, <2>2
      <3>2. s.row[p].parent = 0 /\ s.session[0].prepared = p
            /\ s.row[p].generation = s.session[0].generation
        BY <1>1, <2>2, <3>1 DEF Sane, Nested
      <3>3. c # 0
        BY <1>2, <3>2, RowsAndContexts
      <3> QED BY <1>5, <3>1, <3>2, <3>3, RowsAndContexts
    <2> QED BY <2>1, <2>2 DEF Nested
  <1>12. t.borrows = Cardinality(Reading(t))
    <2>1. s.row[r].ref = FALSE
      BY <1>1 DEF RowRecords
    <2>2. t.row[r].ref = s.row[r].ref
      BY <1>5, <1>7, <2>1, Zenon
    <2>3. Cardinality(Reading(t)) = Cardinality(Reading(s))
      BY <1>1, <1>5, <1>6, <2>2, ReadingChanges
    <2> QED BY <1>1, <2>3 DEF Sane
  <1>13. Answered(t)
    <2>1. ASSUME NEW d \in Contexts, t.session[d].in_flight
          PROVE  \E p \in Rows : LiveIn(t, p) /\ t.row[p].parent = d
      <3>1. d # c
        BY <1>5, <2>1
      <3>2. PICK p \in Rows : LiveIn(s, p) /\ s.row[p].parent = d
        BY <1>1, <1>5, <2>1, <3>1 DEF Answered
      <3>3. p # r
        BY <1>4, <3>1, <3>2
      <3> QED BY <1>5, <1>10, <3>2, <3>3
    <2>2. ASSUME t.session[0].prepared # 0
          PROVE  t.row[t.session[0].prepared].state = "RESERVED"
      <3>1. c # 0
        BY <1>5, <2>2
      <3>2. t.session[0] = s.session[0] /\ s.session[0].prepared \in 0 .. capacity
        BY <1>1, <1>5, <3>1, RowsAndContexts DEF SessionRecords
      <3>3. s.session[0].prepared \in Rows
            /\ s.row[s.session[0].prepared].state = "RESERVED"
        BY <1>1, <2>2, <3>2 DEF Answered, Rows
      <3> QED BY <1>4, <1>5, <3>2, <3>3
    <2> QED BY <2>1, <2>2 DEF Answered
  <1>14. t.session[0].state # "CLOSED"
    BY <1>5, RowsAndContexts DEF Working, Open
  <1>15. \A p \in Rows : t.row[p].state # "CANCELED"
    BY <1>5, <1>7 DEF Working, Open
  <1> QED BY <1>6, <1>8, <1>9, <1>11, <1>12, <1>13, <1>14, <1>15 DEF Open, Sane

\* A completion reaches the parent, or the call stops.
LEMMA PublishIsWell ==
    ASSUME OwnerAssumption, NEW s, NEW r \in Rows, Working(s, r),
           NEW d \in publish_row_completion(s, r)
    PROVE  Well(d)
  <1> DEFINE c == s.row[r].parent
             u == row_destroy_runtime(s, r)
             ready == [u EXCEPT !.session[c].mailbox = "READY"]
             settled == [ready.session[c] EXCEPT !.in_flight = FALSE, !.mailbox = "DISARMED"]
  <1>1. s \in Systems /\ Open(s)
    BY WorkingFacts DEF Working
  <1>2. /\ c \in Contexts \ {r} /\ s.session[c].in_flight /\ s.session[c].state = "RUNNING"
        /\ s.session[c].mailbox = "EMPTY" /\ s.session[c].generation = s.row[r].generation
    BY ParentWaits
  <1>3. Ingress(s, r) = "ACCEPTED"
    BY <1>2 DEF Ingress
  <1>4. Well(Result(s, FALSE, FALSE))
    BY <1>1, ResultParts DEF Well
  <1>5. publish_row_completion(s, r) =
          {Result(s, FALSE, FALSE)}
          \cup {[done EXCEPT !.sys.row[r] = EmptyRow] : done \in subdialog_run_ready(ready, c)}
    BY <1>2, <1>3 DEF publish_row_completion, Refused
  <1>6. Working(u, r) /\ u.session[r] = NoSession /\ ~u.row[r].ref
    BY DestroyedWorks
  <1>7. u.row[r].parent = c /\ u \in Systems
    <2>1. settle_subdialog(s, r) = s
      BY WorkingFacts DEF settle_subdialog
    <2>2. u.row[r] = [s.row[r] EXCEPT !.hops = 0, !.ref = FALSE]
      <3>1. Becomes(s, u, r, [s.row[r] EXCEPT !.hops = 0, !.ref = FALSE], NoSession,
                    s.borrows - (IF s.row[r].ref THEN 1 ELSE 0))
        BY <1>1, <2>1, DestroyedBecomes
      <3> HIDE DEF u
      <3> QED BY <1>1, <3>1, BecomesParts
    <2>3. s.row[r] \in RowRecords
      BY WorkingFacts
    <2> HIDE DEF u
    <2> QED BY <1>6, <2>2, <2>3, WorkingFacts DEF RowRecords
  <1> HIDE DEF c, u
  <1>8. /\ u.session[c].in_flight /\ u.session[c].prepared = 0
        /\ u.session[c].state = "RUNNING"
    BY <1>6, <1>7, ParentWaits
  <1>9. u.session \in [Contexts -> SessionRecords] /\ Shaped(u)
    BY <1>7, SystemIsShaped DEF Systems
  <1>10. /\ ready.row = u.row /\ ready.borrows = u.borrows /\ Shaped(ready)
         /\ ready.session = [u.session EXCEPT ![c] = [u.session[c] EXCEPT !.mailbox = "READY"]]
    BY <1>9 DEF Shaped
  <1>11. settled = [u.session[c] EXCEPT !.in_flight = FALSE, !.mailbox = "DISARMED"]
    <2>1. ready.session[c] = [u.session[c] EXCEPT !.mailbox = "READY"]
      BY <1>2, <1>9, <1>10
    <2>2. u.session[c] \in SessionRecords
      BY <1>2, <1>9
    <2> HIDE DEF ready
    <2> QED BY <2>1, <2>2, Zenon DEF SessionRecords
  <1>12. /\ settled \in SessionRecords /\ ~settled.in_flight /\ settled.prepared = 0
         /\ settled.mailbox = "DISARMED"
    <2>1. u.session[c] \in SessionRecords
      BY <1>2, <1>9
    <2> HIDE DEF settled
    <2> QED BY <1>8, <1>11, <2>1 DEF SessionRecords
  <1>13. ASSUME NEW o \in Outcomes(settled)
         PROVE  LET e == Result([ready EXCEPT !.session[c] = Stopped(settled, o)],
                                o # "FAILED", TRUE)
                IN Well([e EXCEPT !.sys.row[r] = EmptyRow])
    <2> DEFINE q == Stopped(settled, o)
               v == [ready EXCEPT !.session[c] = q]
               t == [v EXCEPT !.row[r] = EmptyRow]
               a == o # "FAILED"
               b == TRUE
    <2> HIDE DEF ready, settled
    <2>1. q \in SessionRecords /\ SessionFits(q) /\ ~q.in_flight /\ q.prepared = 0
          /\ q.state # "CLOSED"
      BY <1>12, StoppedFits
    <2> HIDE DEF q
    <2>2. v.row = u.row /\ v.borrows = u.borrows /\ Shaped(v)
          /\ v.session = [ready.session EXCEPT ![c] = q]
      BY <1>10 DEF Shaped
    <2>3. v.session = [u.session EXCEPT ![c] = q]
      BY <1>9, <1>10, <2>2
    <2> HIDE DEF v
    <2>4. t.row = [u.row EXCEPT ![r] = EmptyRow] /\ t.session = v.session
          /\ t.borrows = u.borrows /\ Shaped(t)
      BY <2>2 DEF Shaped
    <2> HIDE DEF t
    <2>5. Open(t)
      BY <1>6, <1>7, <2>1, <2>3, <2>4, ParentGoesOn
    <2>6. t \in Systems
      BY <2>5 DEF Open, Sane
    <2>7. a \in BOOLEAN /\ b \in BOOLEAN
      OBVIOUS
    <2> HIDE DEF a, b
    <2>8. [Result(v, a, b) EXCEPT !.sys.row[r] = EmptyRow] = Result(t, a, b)
      <3>1. t = [v EXCEPT !.row[r] = EmptyRow]
        BY DEF t
      <3> QED BY <3>1 DEF Result
    <2>9. Well(Result(t, a, b))
      BY <2>5, <2>6, <2>7, ResultParts DEF Well
    <2> QED BY <2>8, <2>9, Zenon DEF v, q, a, b
  <1>14. ASSUME NEW e \in subdialog_run_ready(ready, c)
         PROVE  Well([e EXCEPT !.sys.row[r] = EmptyRow])
    <2>1. PICK o \in Outcomes(settled) :
            e = Result([ready EXCEPT !.session[c] = Stopped(settled, o)], o # "FAILED", TRUE)
      BY <1>14, Zenon DEF subdialog_run_ready
    <2> HIDE DEF ready, settled
    <2> QED BY <1>13, <2>1, Zenon
  <1> HIDE DEF ready
  <1> QED BY <1>4, <1>5, <1>14

\* A session that may ask for a child, at its turn.
LEMMA DriveIsWell ==
    ASSUME OwnerAssumption, NEW s, Open(s), NEW c \in Contexts,
           c \in Rows => ~s.row[c].event, NEW d \in drive_parent_context(s, c)
    PROVE  Well(d)
  <1> DEFINE t == subdialog_commit(owner_prepare(s, c), c)
  <1>1. s \in Systems
    BY DEF Open, Sane
  <1>2. Well(Result(s, FALSE, FALSE)) /\ Well(Result(s, TRUE, FALSE))
    BY <1>1, ResultParts DEF Well
  <1>3. ASSUME Wants(s.session[c]), Admissible(s, c) PROVE Well(Result(t, TRUE, TRUE))
    <2>1. Open(t)
      BY <1>3, AskingIsSound
    <2>2. t \in Systems
      BY <2>1 DEF Open, Sane
    <2> HIDE DEF t
    <2> QED BY <2>1, <2>2, ResultParts DEF Well
  <1> HIDE DEF t
  <1>4. CASE s.session[c].state \in {"NONE", "CLOSED"} \/ ~Wants(s.session[c])
    <2>1. d = Result(s, FALSE, FALSE) \/ d = Result(s, TRUE, FALSE)
      BY <1>4, Zenon DEF drive_parent_context
    <2> QED BY <1>2, <2>1
  <1>5. CASE s.session[c].state \notin {"NONE", "CLOSED"} /\ Wants(s.session[c])
    <2>1. d \in {Result(s, FALSE, FALSE)}
               \cup (IF Admissible(s, c) THEN {Result(t, TRUE, TRUE)} ELSE {})
      BY <1>5, Zenon DEF drive_parent_context, t
    <2>2. CASE Admissible(s, c)
      BY <1>2, <1>3, <1>5, <2>1, <2>2
    <2>3. CASE ~Admissible(s, c)
      BY <1>2, <2>1, <2>3
    <2> QED BY <2>2, <2>3
  <1> QED BY <1>4, <1>5

\* A child whose session ends or whose event is set works no longer for others.
LEMMA TerminalWorks ==
    ASSUME OwnerAssumption, NEW s, Open(s), NEW r \in Rows, s.row[r].state = "ACTIVE",
           Terminal(s, r) \/ s.session[r].state = "NAVIGATING"
    PROVE  Working(s, r)
  <1>1. SessionFits(s.session[r]) /\ RowFits(s, r)
    BY RowsAndContexts DEF Open, Sane
  <1> QED BY <1>1 DEF Terminal, SessionFits, RowFits, Working

\* A child that ends answers, with its event if it failed.
LEMMA FinishIsWell ==
    ASSUME OwnerAssumption, NEW s, NEW r \in Rows, Working(s, r),
           NEW d \in publish_row_completion(Failing(s, r), r)
    PROVE  Well(d)
  <1>1. Working(Failing(s, r), r)
    BY WithEventWorks DEF Failing
  <1> QED BY <1>1, PublishIsWell

\* The work of a child: it goes on, ends, or asks for a child of its own.
LEMMA ProgressIsWell ==
    ASSUME OwnerAssumption, NEW s, Open(s), NEW r \in Rows, s.row[r].state = "ACTIVE",
           NEW d \in progress_active_row(s, r)
    PROVE  Well(d)
  <1>1. CASE Terminal(s, r)
    <2>1. d \in publish_row_completion(Failing(s, r), r)
      BY <1>1, Zenon DEF progress_active_row
    <2> QED BY <1>1, <2>1, TerminalWorks, FinishIsWell
  <1>2. CASE ~Terminal(s, r) /\ s.session[r].state = "NAVIGATING"
    <2>1. Working(s, r)
      BY <1>2, TerminalWorks
    <2>2. PICK e \in row_follow_navigation(s, r) :
            d \in (IF e.ok /\ ~Terminal(e.sys, r) THEN drive_parent_context(e.sys, r)
                   ELSE Finish(e, r))
      BY <1>2, Zenon DEF progress_active_row
    <2>3. Navigated(e, r)
      BY <2>1, NavigationWorks
    <2>4. Working(e.sys, r) /\ e \in Results /\ Open(e.sys)
      BY <2>3 DEF Navigated, Working
    <2>5. CASE e.ok /\ ~Terminal(e.sys, r)
      <3>1. d \in drive_parent_context(e.sys, r)
        BY <2>2, <2>5
      <3>2. ~e.sys.row[r].event /\ r \in Contexts
        BY <2>5, RowsAndContexts DEF Terminal
      <3> QED BY <2>4, <3>1, <3>2, DriveIsWell
    <2>6. CASE ~(e.ok /\ ~Terminal(e.sys, r)) /\ e.ok /\ Terminal(e.sys, r)
      <3>1. d \in publish_row_completion(Failing(e.sys, r), r)
        BY <2>2, <2>6, Zenon DEF Finish
      <3> QED BY <2>4, <3>1, FinishIsWell
    <2>7. CASE ~e.ok
      <3>1. d = e
        BY <2>2, <2>7, Zenon DEF Finish
      <3> QED BY <2>4, <3>1 DEF Well
    <2> QED BY <2>5, <2>6, <2>7
  <1>3. CASE ~Terminal(s, r) /\ s.session[r].state \notin {"NAVIGATING", "RUNNING"}
    <2>1. d = Result(s, FALSE, FALSE)
      BY <1>3 DEF progress_active_row
    <2>2. s \in Systems
      BY DEF Open, Sane
    <2> QED BY <2>1, <2>2, ResultParts DEF Well
  <1>4. CASE ~Terminal(s, r) /\ s.session[r].state = "RUNNING"
    <2>1. d \in drive_parent_context(s, r)
      BY <1>4, Zenon DEF progress_active_row
    <2>2. ~s.row[r].event /\ r \in Contexts
      BY <1>4, RowsAndContexts DEF Terminal
    <2> QED BY <2>1, <2>2, DriveIsWell
  <1> QED BY <1>1, <1>2, <1>3, <1>4

\* The work of one context while all is well.
LEMMA WorkIsWell ==
    ASSUME OwnerAssumption, ow_closed = FALSE, NEW s, Open(s), NEW c \in Contexts,
           NEW d \in Work(s, c)
    PROVE  Well(d)
  <1>1. s \in Systems
    BY DEF Open, Sane
  <1>2. Well(Result(s, TRUE, FALSE))
    BY <1>1, ResultParts DEF Well
  <1>3. CASE c = 0
    <2>1. d = Result(s, TRUE, FALSE) \/ d \in drive_parent_context(s, 0)
      BY <1>3, Zenon DEF Work
    <2> QED BY <1>2, <2>1, RowsAndContexts, DriveIsWell
  <1>4. CASE c # 0
    <2>1. d \in RowWork(s, c) /\ c \in Rows
      BY <1>4, RowsAndContexts DEF Work
    <2>2. s.row[c].state \in RowStates \ {"CANCELED"}
      BY <1>1, <2>1 DEF Open, Systems, RowRecords
    <2>3. CASE s.row[c].state \in {"EMPTY", "RESERVED"}
      <3>1. d = Result(s, TRUE, FALSE)
        BY <2>1, <2>3 DEF RowWork
      <3> QED BY <1>2, <3>1
    <2>4. CASE s.row[c].state = "PENDING"
      <3> DEFINE a == [s EXCEPT !.row[c].state = "ACTIVE"]
      <3>1. d \in UNION {{[done EXCEPT !.progressed = TRUE] : done \in progress_active_row(t, c)} :
                           t \in row_acquire_initial(a, c)}
        BY <2>1, <2>4 DEF RowWork
      <3>2. Working(a, c) /\ a.session[c] = NoSession /\ ~a.row[c].ref
        BY <2>1, <2>4, PendingWorks
      <3> HIDE DEF a
      <3>3. PICK t \in row_acquire_initial(a, c) :
              d \in {[done EXCEPT !.progressed = TRUE] : done \in progress_active_row(t, c)}
        BY <3>1
      <3>4. PICK e \in progress_active_row(t, c) : d = [e EXCEPT !.progressed = TRUE]
        BY <3>3
      <3>5. Working(t, c)
        BY <2>1, <3>2, AcquireWorks
      <3>6. Well(e)
        BY <2>1, <3>5, ProgressIsWell DEF Working
      <3> QED BY <3>4, <3>6 DEF Well, Results
    <2>5. CASE s.row[c].state = "ACTIVE"
      <3>1. d \in progress_active_row(s, c)
        BY <2>1, <2>5 DEF RowWork
      <3> QED BY <2>1, <2>5, <3>1, ProgressIsWell
    <2> QED BY <2>2, <2>3, <2>4, <2>5 DEF RowStates
  <1> QED BY <1>3, <1>4

-----------------------------------------------------------------------------
(* Rows are canceled, tickets are taken back, and the root session moves.  *)

\* What is known of a row and its session.
LEMMA SaneFacts ==
    ASSUME OwnerAssumption, NEW s, Sane(s)
    PROVE  /\ s \in Systems /\ s.row \in [Rows -> RowRecords]
           /\ s.session \in [Contexts -> SessionRecords] /\ s.borrows \in Nat /\ Shaped(s)
           /\ \A r \in Rows : s.row[r].ref => s.borrows - 1 \in Nat
  <1>1. s \in Systems /\ s.borrows = Cardinality(Reading(s))
    BY DEF Sane
  <1>2. s.row \in [Rows -> RowRecords] /\ s.session \in [Contexts -> SessionRecords]
        /\ s.borrows \in Nat /\ Shaped(s)
    BY <1>1, SystemIsShaped DEF Systems
  <1>3. ASSUME NEW r \in Rows, s.row[r].ref PROVE s.borrows # 0
    <2>1. r \in Reading(s) /\ IsFiniteSet(Reading(s))
      BY <1>3, RowsAndContexts, FS_Subset DEF Reading
    <2> QED BY <1>1, <2>1, FS_EmptySet
  <1> QED BY <1>1, <1>2, <1>3

\* Rows may be canceled, and reserved rows emptied, at any time.
LEMMA RowsFall ==
    ASSUME OwnerAssumption, NEW s, Sane(s), NEW t, Shaped(t),
           t.row \in [Rows -> RowRecords], t.session = s.session, t.borrows = s.borrows,
           \A r \in Rows :
              \/ t.row[r] = s.row[r]
              \/ s.row[r].state # "EMPTY" /\ t.row[r] = [s.row[r] EXCEPT !.state = "CANCELED"]
              \/ s.row[r].state = "RESERVED" /\ t.row[r] = EmptyRow
    PROVE  Sane(t) /\ \A r \in Rows : LiveIn(t, r) => LiveIn(s, r) /\ t.row[r] = s.row[r]
  <1>1. /\ s \in Systems /\ s.row \in [Rows -> RowRecords] /\ s.borrows \in Nat
        /\ s.session \in [Contexts -> SessionRecords]
    BY SaneFacts
  <1>2. t \in Systems
    BY <1>1, ShapedIsSystem
  <1>3. ASSUME NEW r \in Rows, t.row[r] # s.row[r]
        PROVE  /\ t.row[r].state \in {"EMPTY", "CANCELED"} /\ t.row[r].ref = s.row[r].ref
               /\ RowFits(t, r)
    <2>1. s.row[r] \in RowRecords /\ RowFits(s, r)
      BY <1>1 DEF Sane
    <2>2. CASE s.row[r].state # "EMPTY" /\ t.row[r] = [s.row[r] EXCEPT !.state = "CANCELED"]
      <3>1. /\ t.row[r].state = "CANCELED" /\ t.row[r].ref = s.row[r].ref
            /\ t.row[r].parent = s.row[r].parent /\ t.row[r].event = s.row[r].event
        BY <2>1, <2>2 DEF RowRecords
      <3> QED BY <2>1, <2>2, <3>1 DEF RowFits
    <2>3. CASE s.row[r].state = "RESERVED" /\ t.row[r] = EmptyRow
      <3>1. /\ t.row[r].state = "EMPTY" /\ t.row[r].ref = FALSE /\ t.row[r].event = FALSE
        BY <2>3 DEF EmptyRow
      <3>2. s.row[r].ref = FALSE /\ s.session[r] = NoSession
        BY <2>1, <2>3 DEF RowFits, RowRecords
      <3>3. t.row[r].ref = s.row[r].ref
        BY <3>1, <3>2, Zenon
      <3>4. RowFits(t, r)
        BY <2>1, <2>3, <3>1, <3>2 DEF RowFits
      <3> QED BY <3>1, <3>3, <3>4
    <2> QED BY <1>3, <2>2, <2>3
  <1>4. \A r \in Rows : RowFits(t, r)
    <2>1. ASSUME NEW r \in Rows, t.row[r] = s.row[r] PROVE RowFits(t, r)
      BY <2>1 DEF Sane, RowFits
    <2> QED BY <1>3, <2>1
  <1>5. \A r \in Rows : LiveIn(t, r) => LiveIn(s, r) /\ t.row[r] = s.row[r]
    BY <1>3 DEF LiveIn
  <1>6. Nested(t)
    <2>1. ASSUME NEW r \in Rows, LiveIn(t, r)
          PROVE  /\ t.session[t.row[r].parent].in_flight
                 /\ t.session[t.row[r].parent].generation = t.row[r].generation
                 /\ \A q \in Rows : LiveIn(t, q) /\ t.row[q].parent = t.row[r].parent => q = r
      BY <1>5, <2>1 DEF Sane, Nested
    <2>2. ASSUME NEW r \in Rows, t.row[r].state = "RESERVED"
          PROVE  t.row[r].parent = 0 /\ t.session[0].prepared = r
                 /\ t.row[r].generation = t.session[0].generation
      <3>1. t.row[r] = s.row[r]
        BY <1>3, <2>2
      <3> QED BY <2>2, <3>1 DEF Sane, Nested
    <2> QED BY <2>1, <2>2 DEF Nested
  <1>7. Reading(t) = Reading(s)
    <2>1. \A r \in Rows : t.row[r].ref = s.row[r].ref
      BY <1>3
    <2> QED BY <2>1 DEF Reading
  <1>8. \A c \in Contexts : SessionFits(t.session[c])
    BY DEF Sane
  <1>9. t.borrows = Cardinality(Reading(t))
    BY <1>7 DEF Sane
  <1> QED BY <1>2, <1>4, <1>5, <1>6, <1>8, <1>9 DEF Sane

\* The root session moves while no row asks for it.
LEMMA RootMoves ==
    ASSUME OwnerAssumption, NEW s, Sane(s),
           \A r \in Rows : LiveIn(s, r) => s.row[r].parent # 0,
           \A r \in Rows : s.row[r].state # "RESERVED",
           NEW q \in SessionRecords, SessionFits(q), ~q.in_flight, q.prepared = 0,
           NEW t, Shaped(t), t.row = s.row, t.session = [s.session EXCEPT ![0] = q],
           t.borrows = s.borrows
    PROVE  /\ Sane(t) /\ t.session[0] = q
           /\ (\A c \in Contexts \ {0} : s.session[c].in_flight =>
                 \E r \in Rows : LiveIn(s, r) /\ s.row[r].parent = c) => Answered(t)
  <1>1. /\ s \in Systems /\ s.row \in [Rows -> RowRecords] /\ s.borrows \in Nat
        /\ s.session \in [Contexts -> SessionRecords]
    BY SaneFacts
  <1>2. /\ t.session[0] = q /\ \A c \in Contexts \ {0} : t.session[c] = s.session[c]
        /\ \A r \in Rows : t.row[r] = s.row[r] /\ (LiveIn(t, r) <=> LiveIn(s, r))
    BY <1>1, RowsAndContexts DEF LiveIn
  <1>3. t \in Systems
    <2>1. t.session \in [Contexts -> SessionRecords]
      BY <1>1
    <2> QED BY <1>1, <2>1, ShapedIsSystem
  <1>4. \A c \in Contexts : SessionFits(t.session[c])
    BY <1>2 DEF Sane
  <1>5. ASSUME NEW r \in Rows PROVE RowFits(t, r)
    BY <1>2, RowsAndContexts DEF Sane, RowFits
  <1>6. Nested(t)
    <2>1. ASSUME NEW r \in Rows, LiveIn(t, r)
          PROVE  /\ t.session[t.row[r].parent].in_flight
                 /\ t.session[t.row[r].parent].generation = t.row[r].generation
                 /\ \A p \in Rows : LiveIn(t, p) /\ t.row[p].parent = t.row[r].parent => p = r
      <3>1. LiveIn(s, r) /\ s.row[r].parent \in Contexts \ {0}
        BY <1>2, <2>1 DEF Sane, RowFits, LiveIn
      <3>2. /\ s.session[s.row[r].parent].in_flight
            /\ s.session[s.row[r].parent].generation = s.row[r].generation
            /\ \A p \in Rows : LiveIn(s, p) /\ s.row[p].parent = s.row[r].parent => p = r
        BY <3>1 DEF Sane, Nested
      <3> QED BY <1>2, <3>1, <3>2
    <2> QED BY <2>1, <1>2 DEF Nested
  <1>7. Reading(t) = Reading(s)
    BY <1>2 DEF Reading
  <1>8. ASSUME \A c \in Contexts \ {0} : s.session[c].in_flight =>
                 \E r \in Rows : LiveIn(s, r) /\ s.row[r].parent = c
        PROVE  Answered(t)
    <2>1. ASSUME NEW c \in Contexts, t.session[c].in_flight
          PROVE  \E r \in Rows : LiveIn(t, r) /\ t.row[r].parent = c
      <3>1. c # 0
        BY <1>2, <2>1
      <3>2. PICK r \in Rows : LiveIn(s, r) /\ s.row[r].parent = c
        BY <1>2, <1>8, <2>1, <3>1
      <3> QED BY <1>2, <3>2
    <2> QED BY <1>2, <2>1 DEF Answered
  <1>9. t.borrows = Cardinality(Reading(t))
    BY <1>7 DEF Sane
  <1> QED BY <1>2, <1>3, <1>4, <1>5, <1>6, <1>8, <1>9 DEF Sane

\* Canceling the child of a session that is asked for once.
LEMMA CancelFalls ==
    ASSUME OwnerAssumption, NEW s, Sane(s), NEW c, NEW g
    PROVE  LET t == owner_cancel(s, c, g)
           IN /\ Sane(t) /\ t.session = s.session
              /\ \A r \in Rows : LiveIn(t, r) => LiveIn(s, r) /\ t.row[r] = s.row[r]
              /\ \A r \in Rows : t.row[r].state # "RESERVED" \/ t.row[r] = s.row[r]
              /\ \A r \in Rows :
                    IF /\ r \in Asked(s, c, g) /\ \A q \in Asked(s, c, g) : r <= q
                    THEN t.row[r] = [s.row[r] EXCEPT !.state = "CANCELED"]
                    ELSE t.row[r] = s.row[r]
  <1> DEFINE t == owner_cancel(s, c, g)
             First(r) == r \in Asked(s, c, g) /\ \A q \in Asked(s, c, g) : r <= q
  <1>1. s.row \in [Rows -> RowRecords] /\ Shaped(s)
    BY SaneFacts
  <1>2. \A r \in Rows : First(r) => s.row[r].state # "EMPTY"
    BY DEF Asked
  <1>3. t = [s EXCEPT !.row = [r \in Rows |->
               IF First(r) THEN [s.row[r] EXCEPT !.state = "CANCELED"] ELSE s.row[r]]]
    BY DEF owner_cancel
  <1> HIDE DEF First, t
  <1>4. /\ t.session = s.session /\ t.borrows = s.borrows /\ Shaped(t)
        /\ t.row = [r \in Rows |->
             IF First(r) THEN [s.row[r] EXCEPT !.state = "CANCELED"] ELSE s.row[r]]
    BY <1>1, <1>3 DEF Shaped
  <1>5. \A r \in Rows : IF First(r) THEN t.row[r] = [s.row[r] EXCEPT !.state = "CANCELED"]
                        ELSE t.row[r] = s.row[r]
    BY <1>4
  <1>6. t.row \in [Rows -> RowRecords]
    <2>1. \A r \in Rows : s.row[r] \in RowRecords
      BY <1>1
    <2>2. \A r \in Rows : [s.row[r] EXCEPT !.state = "CANCELED"] \in RowRecords
      BY <2>1 DEF RowRecords, RowStates
    <2> QED BY <1>4, <2>1, <2>2
  <1>7. Sane(t) /\ \A r \in Rows : LiveIn(t, r) => LiveIn(s, r) /\ t.row[r] = s.row[r]
    <2>1. \A r \in Rows :
            \/ t.row[r] = s.row[r]
            \/ s.row[r].state # "EMPTY" /\ t.row[r] = [s.row[r] EXCEPT !.state = "CANCELED"]
            \/ s.row[r].state = "RESERVED" /\ t.row[r] = EmptyRow
      BY <1>2, <1>5
    <2>2. t.session = s.session /\ t.borrows = s.borrows /\ Shaped(t)
      BY <1>4
    <2> QED BY <1>6, <2>1, <2>2, RowsFall
  <1>8. \A r \in Rows : t.row[r].state # "RESERVED" \/ t.row[r] = s.row[r]
    <2> TAKE r \in Rows
    <2>1. s.row[r] \in RowRecords
      BY <1>1
    <2>2. [s.row[r] EXCEPT !.state = "CANCELED"].state = "CANCELED"
      BY <2>1 DEF RowRecords
    <2> QED BY <1>5, <2>2
  <1> QED BY <1>4, <1>5, <1>7, <1>8 DEF t, First

-----------------------------------------------------------------------------
(* Teardown of a closed owner, and the calls on the root session.          *)

\* In a closed owner a row is cleared and nothing else changes.
LEMMA ClearIsTorn ==
    ASSUME OwnerAssumption, NEW s, Torn(s), NEW r \in Rows
    PROVE  Torn(row_clear(s, r))
  <1> DEFINE u == row_destroy_runtime(s, r)
             t == row_clear(s, r)
             x == [s.row[r] EXCEPT !.hops = 0, !.ref = FALSE]
             n == s.borrows - (IF s.row[r].ref THEN 1 ELSE 0)
  <1>1. /\ s \in Systems /\ s.row \in [Rows -> RowRecords] /\ s.borrows \in Nat
        /\ s.session \in [Contexts -> SessionRecords] /\ Shaped(s) /\ Sane(s)
        /\ s.row[r].ref => s.borrows - 1 \in Nat
    BY SaneFacts DEF Torn
  <1>2. settle_subdialog(s, r) = s
    <2> DEFINE g == s.session[r].generation
               left == [q \in Rows |->
                         IF q \in Asked(s, r, g) /\ \A p \in Asked(s, r, g) : q <= p
                         THEN [s.row[q] EXCEPT !.state = "CANCELED"] ELSE s.row[q]]
    <2>1. s.session[r].prepared = 0
      BY <1>1 DEF Sane, RowFits
    <2>2. ASSUME NEW q \in Rows PROVE left[q] = s.row[q]
      <3>1. q \in Asked(s, r, g) => s.row[q].state = "CANCELED"
        BY DEF Asked, Torn
      <3>2. s.row[q].state = "CANCELED" => [s.row[q] EXCEPT !.state = "CANCELED"] = s.row[q]
        BY <1>1 DEF RowRecords
      <3> QED BY <3>1, <3>2
    <2>3. left = s.row
      BY <1>1, <2>2
    <2> HIDE DEF left
    <2>4. [s EXCEPT !.row = left] = s
      BY <1>1, <2>3 DEF Systems
    <2>5. owner_cancel(s, r, g) = s
      BY <2>4, Zenon DEF owner_cancel, left
    <2> QED BY <2>1, <2>5 DEF settle_subdialog
  <1>3. /\ x \in RowRecords /\ n \in Nat
    <2>1. s.row[r] \in RowRecords /\ 0 \in 0 .. max_navigation_hops
      BY <1>1 DEF OwnerAssumption
    <2>2. x \in RowRecords
      BY <2>1 DEF RowRecords
    <2> QED BY <1>1, <2>2
  <1>4. Becomes(s, u, r, x, NoSession, n)
    BY <1>1, <1>2, DestroyedBecomes
  <1>5. t = [u EXCEPT !.row[r] = EmptyRow]
    BY DEF row_clear
  <1> HIDE DEF u, t, x
  <1>6. u \in Systems /\ u.row = [s.row EXCEPT ![r] = x] /\ u.borrows = n
        /\ u.session = [s.session EXCEPT ![r] = NoSession]
    BY <1>3, <1>4, FreshRecords DEF Becomes
  <1> HIDE DEF n
  <1>7. /\ t.row = [s.row EXCEPT ![r] = EmptyRow] /\ t.borrows = n /\ Shaped(t)
        /\ t.session = [s.session EXCEPT ![r] = NoSession]
    <2>1. Shaped(u)
      BY <1>6, SystemIsShaped
    <2>2. t.row = [u.row EXCEPT ![r] = EmptyRow] /\ t.session = u.session
          /\ t.borrows = u.borrows /\ Shaped(t)
      BY <1>5, <2>1 DEF Shaped
    <2> QED BY <1>1, <1>6, <2>2
  <1>8. t \in Systems
    <2>1. t.row \in [Rows -> RowRecords] /\ t.session \in [Contexts -> SessionRecords]
      BY <1>1, <1>7, FreshRecords
    <2> QED BY <1>3, <1>7, <2>1, ShapedIsSystem
  <1>9. /\ t.row[r] = EmptyRow /\ \A q \in Rows \ {r} : t.row[q] = s.row[q]
        /\ t.session[r] = NoSession /\ \A c \in Contexts \ {r} : t.session[c] = s.session[c]
    BY <1>1, <1>7, RowsAndContexts
  <1>10. /\ EmptyRow.state = "EMPTY" /\ EmptyRow.ref = FALSE /\ EmptyRow.event = FALSE
         /\ ~NoSession.in_flight /\ NoSession.prepared = 0 /\ NoSession.state = "NONE"
    BY DEF EmptyRow, NoSession
  <1>11. \A c \in Contexts : SessionFits(t.session[c])
    BY <1>1, <1>9, FreshRecords DEF Sane
  <1>12. ASSUME NEW q \in Rows PROVE RowFits(t, q)
    <2>1. CASE q = r
      BY <1>9, <1>10, <2>1 DEF RowFits
    <2>2. CASE q # r
      BY <1>1, <1>9, <2>2, RowsAndContexts DEF Sane, RowFits
    <2> QED BY <2>1, <2>2
  <1>13. \A q \in Rows : t.row[q].state \in {"EMPTY", "CANCELED"}
    BY <1>9, <1>10 DEF Torn
  <1>14. Nested(t)
    BY <1>13 DEF Nested, LiveIn
  <1>15. t.borrows = Cardinality(Reading(t))
    <2>1. s.borrows = Cardinality(Reading(s)) /\ s.row[r].ref \in BOOLEAN
      BY <1>1 DEF Sane, RowRecords
    <2>2. CASE s.row[r].ref
      BY <1>1, <1>7, <1>8, <1>9, <1>10, <2>1, <2>2, ReadingChanges DEF n
    <2>3. CASE ~s.row[r].ref
      <3>1. t.row[r].ref = s.row[r].ref
        BY <1>9, <1>10, <2>1, <2>3, Zenon
      <3> QED BY <1>1, <1>7, <1>8, <1>9, <2>1, <2>3, <3>1, ReadingChanges DEF n
    <2> QED BY <2>1, <2>2, <2>3
  <1> QED BY <1>8, <1>11, <1>12, <1>13, <1>14, <1>15 DEF Torn, Sane, t

\* The work of a closed owner.
LEMMA ClosedWorkIsTorn ==
    ASSUME OwnerAssumption, ow_closed = TRUE, NEW s, Torn(s), NEW c \in Contexts,
           NEW d \in Work(s, c)
    PROVE  d \in Results /\ Torn(d.sys)
  <1>1. s \in Systems
    BY DEF Torn, Sane
  <1>2. CASE d = Result(s, TRUE, FALSE)
    BY <1>1, <1>2, ResultParts
  <1>3. CASE d # Result(s, TRUE, FALSE)
    <2>1. c \in Rows /\ d \in RowWork(s, c)
      BY <1>3, RowsAndContexts DEF Work
    <2>2. d = Result(row_clear(s, c), TRUE, TRUE)
      BY <1>3, <2>1 DEF RowWork, Torn
    <2>3. Torn(row_clear(s, c))
      BY <2>1, ClearIsTorn
    <2>4. row_clear(s, c) \in Systems
      BY <2>3 DEF Torn, Sane
    <2> QED BY <2>2, <2>3, <2>4, ResultParts
  <1> QED BY <1>2, <1>3

\* Where nobody is asked for, nobody waits; no ticket is out without its row.
LEMMA NoTicket ==
    ASSUME OwnerAssumption, NEW s, Sane(s)
    PROVE  /\ s.session[0].prepared = 0 => \A r \in Rows : s.row[r].state # "RESERVED"
           /\ ~s.session[0].in_flight => \A r \in Rows : LiveIn(s, r) => s.row[r].parent # 0
           /\ s.session[0].prepared # 0 =>
                 /\ s.session[0].prepared \in Rows /\ ~s.session[0].in_flight
                 /\ s.session[0].state = "RUNNING" /\ s.session[0].active
                 /\ s.session[0].mailbox = "DISARMED"
                 /\ \A r \in Rows : s.row[r].state = "RESERVED" => r = s.session[0].prepared
  <1>1. s.session[0] \in SessionRecords /\ SessionFits(s.session[0])
    BY SaneFacts, RowsAndContexts DEF Sane
  <1>2. \A r \in Rows : s.row[r].state = "RESERVED" => s.session[0].prepared = r
    BY DEF Sane, Nested
  <1>3. \A r \in Rows : LiveIn(s, r) => s.session[s.row[r].parent].in_flight
    BY DEF Sane, Nested
  <1>4. s.session[0].prepared \in 0 .. capacity
    BY <1>1 DEF SessionRecords
  <1>5. s.session[0].prepared # 0 => s.session[0].prepared \in Rows
    BY <1>4 DEF Rows, OwnerAssumption
  <1> QED BY <1>1, <1>2, <1>3, <1>5, RowsAndContexts DEF SessionFits

\* A ticket that is discarded.
LEMMA DiscardFalls ==
    ASSUME OwnerAssumption, NEW s, Sane(s), NEW p \in Rows
    PROVE  LET t == row_ticket_discard(s, p)
           IN /\ Sane(t) /\ t.session = s.session /\ t.row[p].state # "RESERVED"
              /\ \A r \in Rows : \/ t.row[r] = s.row[r]
                                 \/ r = p /\ s.row[p].state = "RESERVED" /\ t.row[p] = EmptyRow
  <1>1. CASE s.row[p].state # "RESERVED"
    BY <1>1 DEF row_ticket_discard
  <1>2. CASE s.row[p].state = "RESERVED"
    <2> DEFINE t == row_ticket_discard(s, p)
    <2>1. s.row \in [Rows -> RowRecords] /\ Shaped(s)
      BY SaneFacts
    <2>2. t = [s EXCEPT !.row[p] = EmptyRow]
      BY <1>2 DEF row_ticket_discard
    <2> HIDE DEF t
    <2>3. t.row = [s.row EXCEPT ![p] = EmptyRow] /\ t.session = s.session
          /\ t.borrows = s.borrows /\ Shaped(t)
      BY <2>1, <2>2 DEF Shaped
    <2>4. t.row \in [Rows -> RowRecords]
      BY <2>1, <2>3, FreshRecords
    <2>5. t.row[p] = EmptyRow /\ \A r \in Rows \ {p} : t.row[r] = s.row[r]
      BY <2>1, <2>3
    <2>6. Sane(t)
      BY <1>2, <2>3, <2>4, <2>5, RowsFall
    <2> QED BY <1>2, <2>3, <2>5, <2>6 DEF t, EmptyRow
  <1> QED BY <1>1, <1>2

\* The root session is closed: its ticket is taken back, its child canceled.
LEMMA SettleRoot ==
    ASSUME OwnerAssumption, NEW s, Sane(s), Torn(s) \/ Open(s)
    PROVE  LET t == settle_subdialog(s, 0)
           IN /\ Sane(t) /\ t.session = s.session
              /\ \A r \in Rows : LiveIn(t, r) => t.row[r].parent # 0
              /\ \A r \in Rows : t.row[r].state # "RESERVED"
              /\ \A r \in Rows : LiveIn(s, r) /\ s.row[r].parent # 0 => t.row[r] = s.row[r]
              /\ Torn(s) => Torn(t)
  <1> DEFINE t == settle_subdialog(s, 0)
             g == s.session[0].generation
  <1>1. CASE s.session[0].prepared # 0
    <2> DEFINE p == s.session[0].prepared
    <2>1. p \in Rows /\ ~s.session[0].in_flight
          /\ \A r \in Rows : s.row[r].state = "RESERVED" => r = p
      BY <1>1, NoTicket
    <2>2. t = row_ticket_discard(s, p)
      BY <1>1 DEF settle_subdialog
    <2> HIDE DEF t, p
    <2>3. /\ Sane(t) /\ t.session = s.session /\ t.row[p].state # "RESERVED"
          /\ \A r \in Rows : \/ t.row[r] = s.row[r]
                             \/ r = p /\ s.row[p].state = "RESERVED" /\ t.row[p] = EmptyRow
      BY <2>1, <2>2, DiscardFalls
    <2>4. \A r \in Rows : LiveIn(t, r) => t.row[r].parent # 0
      BY <2>1, <2>3, NoTicket
    <2>5. \A r \in Rows : t.row[r].state # "RESERVED"
      BY <2>1, <2>3
    <2>6. \A r \in Rows : LiveIn(s, r) => t.row[r] = s.row[r]
      BY <2>3 DEF LiveIn
    <2>7. Torn(s) => Torn(t)
      BY <2>3 DEF Torn
    <2> QED BY <2>3, <2>4, <2>5, <2>6, <2>7 DEF t
  <1>2. CASE s.session[0].prepared = 0 /\ s.session[0].in_flight
    <2>1. s.session[0].mailbox # "READY"
      BY <1>2, RowsAndContexts DEF Sane, SessionFits
    <2>2. t = owner_cancel(s, 0, g)
      BY <1>2, <2>1 DEF settle_subdialog
    <2> HIDE DEF t, g
    <2>3. /\ Sane(t) /\ t.session = s.session
          /\ \A r \in Rows : LiveIn(t, r) => LiveIn(s, r) /\ t.row[r] = s.row[r]
          /\ \A r \in Rows : t.row[r].state # "RESERVED" \/ t.row[r] = s.row[r]
          /\ \A r \in Rows :
                IF /\ r \in Asked(s, 0, g) /\ \A q \in Asked(s, 0, g) : r <= q
                THEN t.row[r] = [s.row[r] EXCEPT !.state = "CANCELED"]
                ELSE t.row[r] = s.row[r]
      BY <2>2, CancelFalls
    <2>4. \A r \in Rows : s.row[r].state # "RESERVED"
      BY <1>2, NoTicket
    <2>5. ASSUME NEW r \in Rows, LiveIn(t, r), t.row[r].parent = 0 PROVE FALSE
      <3>1. LiveIn(s, r) /\ s.row[r].parent = 0 /\ t.row[r] = s.row[r]
        BY <2>3, <2>5
      <3>2. Open(s)
        BY <3>1 DEF Torn, LiveIn
      <3>3. s.row[r].generation = g
            /\ \A q \in Rows : LiveIn(s, q) /\ s.row[q].parent = 0 => q = r
        BY <3>1 DEF Sane, Nested, g
      <3>4. r \in Asked(s, 0, g)
        BY <3>1, <3>3 DEF Asked, LiveIn
      <3>5. ASSUME NEW q \in Asked(s, 0, g) PROVE q = r
        <4>1. q \in Rows /\ s.row[q].state # "EMPTY" /\ s.row[q].parent = 0
          BY DEF Asked
        <4>2. s.row[q].state \in RowStates
          BY <4>1, SaneFacts DEF RowRecords
        <4>3. LiveIn(s, q)
          BY <2>4, <3>2, <4>1, <4>2 DEF RowStates, Open, LiveIn
        <4> QED BY <3>3, <4>1, <4>3
      <3>6. \A q \in Asked(s, 0, g) : r <= q
        BY <3>5 DEF Rows, OwnerAssumption
      <3>7. t.row[r] = [s.row[r] EXCEPT !.state = "CANCELED"] /\ s.row[r] \in RowRecords
        BY <2>3, <3>4, <3>6, SaneFacts
      <3>8. t.row[r].state = "CANCELED"
        BY <3>7 DEF RowRecords
      <3> QED BY <2>5, <3>8 DEF LiveIn
    <2>6. ASSUME NEW r \in Rows, s.row[r].parent # 0 PROVE t.row[r] = s.row[r]
      <3>1. r \notin Asked(s, 0, g)
        BY <2>6 DEF Asked
      <3> QED BY <2>3, <3>1
    <2>7. ASSUME Torn(s) PROVE Torn(t)
      <3> SUFFICES ASSUME NEW r \in Rows PROVE t.row[r].state \in {"EMPTY", "CANCELED"}
        BY <2>3 DEF Torn
      <3>1. s.row[r].state \in {"EMPTY", "CANCELED"} /\ s.row[r] \in RowRecords
        BY <2>7, SaneFacts DEF Torn
      <3>2. [s.row[r] EXCEPT !.state = "CANCELED"].state = "CANCELED"
        BY <3>1 DEF RowRecords
      <3> QED BY <2>3, <3>1, <3>2
    <2>8. \A r \in Rows : t.row[r].state # "RESERVED"
      BY <2>3, <2>4
    <2> QED BY <2>3, <2>5, <2>6, <2>7, <2>8 DEF t
  <1>3. CASE s.session[0].prepared = 0 /\ ~s.session[0].in_flight
    <2>1. t = s
      BY <1>3 DEF settle_subdialog
    <2> HIDE DEF t
    <2> QED BY <1>3, <2>1, NoTicket DEF t
  <1> QED BY <1>1, <1>2, <1>3

\* Closing the root session leaves no row without a waiting parent.
LEMMA CloseIsSane ==
    ASSUME OwnerAssumption, NEW s, Sane(s), Torn(s) \/ Open(s)
    PROVE  LET t == close_session(s, 0)
           IN /\ Sane(t) /\ t.session[0].state = "CLOSED"
              /\ Torn(s) => Torn(t)
              /\ Open(s) => Answered(t)
  <1> DEFINE u == settle_subdialog(s, 0)
             q == [NoSession EXCEPT !.state = "CLOSED"]
             t == close_session(s, 0)
  <1>1. /\ Sane(u) /\ u.session = s.session
        /\ \A r \in Rows : LiveIn(u, r) => u.row[r].parent # 0
        /\ \A r \in Rows : u.row[r].state # "RESERVED"
        /\ \A r \in Rows : LiveIn(s, r) /\ s.row[r].parent # 0 => u.row[r] = s.row[r]
        /\ Torn(s) => Torn(u)
    BY SettleRoot
  <1>2. t = [u EXCEPT !.session[0] = q]
    BY DEF close_session
  <1>3. q \in SessionRecords /\ SessionFits(q) /\ ~q.in_flight /\ q.prepared = 0
        /\ q.state = "CLOSED"
    <2>1. q \in SessionRecords
      BY FreshRecords DEF SessionRecords, States
    <2> QED BY <2>1 DEF NoSession, SessionFits
  <1> HIDE DEF u, q, t
  <1>4. t.row = u.row /\ t.session = [u.session EXCEPT ![0] = q] /\ t.borrows = u.borrows
        /\ Shaped(t)
    <2>1. Shaped(u)
      BY <1>1, SaneFacts
    <2> QED BY <1>2, <2>1 DEF Shaped
  <1>5. Sane(t) /\ t.session[0] = q
    <2>1. /\ Sane(u) /\ \A r \in Rows : LiveIn(u, r) => u.row[r].parent # 0
          /\ \A r \in Rows : u.row[r].state # "RESERVED"
      BY <1>1
    <2>2. t.session[0] = q
      BY <1>4, <2>1, SaneFacts, RowsAndContexts
    <2>3. Sane(t)
      BY <1>3, <1>4, <2>1, RootMoves
    <2> QED BY <2>2, <2>3
  <1>6. ASSUME Open(s) PROVE Answered(t)
    <2>1. ASSUME NEW c \in Contexts \ {0}, u.session[c].in_flight
          PROVE  \E r \in Rows : LiveIn(u, r) /\ u.row[r].parent = c
      <3>1. PICK r \in Rows : LiveIn(s, r) /\ s.row[r].parent = c
        BY <1>1, <1>6, <2>1 DEF Open, Answered
      <3>2. u.row[r] = s.row[r]
        BY <1>1, <3>1
      <3> QED BY <3>1, <3>2 DEF LiveIn
    <2> QED BY <1>1, <1>3, <1>4, <2>1, RootMoves
  <1>7. Torn(s) => Torn(t)
    BY <1>1, <1>4, <1>5 DEF Torn
  <1> QED BY <1>3, <1>5, <1>6, <1>7 DEF t

\* The root session reserves a row: its ticket names that row.
LEMMA PrepareIsSound ==
    ASSUME OwnerAssumption, NEW s, Open(s), Wants(s.session[0]), Admissible(s, 0)
    PROVE  Open(owner_prepare(s, 0))
  <1> DEFINE t == owner_prepare(s, 0)
             r == NextRow(s)
             x == [EmptyRow EXCEPT !.state = "RESERVED", !.parent = 0,
                                   !.generation = s.session[0].generation,
                                   !.depth = DepthOf(s, 0) + 1]
             q == [s.session[0] EXCEPT !.prepared = r]
  <1>1. /\ s \in Systems /\ Sane(s) /\ Answered(s) /\ s.row \in [Rows -> RowRecords]
        /\ s.session \in [Contexts -> SessionRecords] /\ s.borrows \in Nat /\ Shaped(s)
    BY SaneFacts DEF Open
  <1>2. r \in Rows /\ s.row[r].state = "EMPTY"
    BY NextRowIsEmpty DEF Admissible
  <1>3. t = [s EXCEPT !.row[r] = x, !.session[0].prepared = r]
    BY DEF owner_prepare
  <1>4. ~s.session[0].in_flight /\ s.session[0].prepared = 0 /\ s.session[0].state = "RUNNING"
        /\ s.session[0].active
    BY DEF Wants
  <1>5. /\ x.state = "RESERVED" /\ x.parent = 0 /\ x.generation = s.session[0].generation
        /\ x.ref = FALSE /\ x.event = FALSE /\ x \in RowRecords
    <2>1. DepthOf(s, 0) + 1 \in 0 .. max_nesting_depth
      BY DEF Admissible, DepthOf, OwnerAssumption
    <2>2. s.session[0].generation \in Nat /\ 0 \in Contexts
      BY <1>1, RowsAndContexts DEF SessionRecords
    <2> HIDE DEF DepthOf
    <2> QED BY <2>1, <2>2, FreshRecords DEF RowRecords, RowStates, EmptyRow
  <1>6. /\ q \in SessionRecords /\ ~q.in_flight /\ q.prepared = r /\ q.state = "RUNNING"
        /\ q.active /\ q.generation = s.session[0].generation
        /\ q.mailbox = s.session[0].mailbox
    <2>1. s.session[0] \in SessionRecords /\ r \in 0 .. capacity
      BY <1>1, <1>2, RowsAndContexts
    <2> HIDE DEF r
    <2> QED BY <1>4, <2>1 DEF SessionRecords
  <1> HIDE DEF t, x
  <1>7. t.row = [s.row EXCEPT ![r] = x] /\ t.session = [s.session EXCEPT ![0] = q]
        /\ t.borrows = s.borrows /\ Shaped(t)
    <2> HIDE DEF r
    <2> QED BY <1>1, <1>3 DEF Shaped
  <1> HIDE DEF r, q
  <1>8. /\ t.row[r] = x /\ \A p \in Rows \ {r} : t.row[p] = s.row[p]
        /\ t.session[0] = q /\ \A c \in Contexts \ {0} : t.session[c] = s.session[c]
    BY <1>1, <1>2, <1>7, RowsAndContexts
  <1>9. t \in Systems
    <2>1. t.row \in [Rows -> RowRecords] /\ t.session \in [Contexts -> SessionRecords]
      BY <1>1, <1>5, <1>6, <1>7
    <2> QED BY <1>1, <1>7, <2>1, ShapedIsSystem
  <1>10. s.row[r] = EmptyRow /\ s.session[r] = NoSession
    BY <1>1, <1>2 DEF Sane, RowFits
  <1>11. \A c \in Contexts : SessionFits(t.session[c])
    <2>1. SessionFits(q)
      BY <1>1, <1>4, <1>6, RowsAndContexts DEF SessionFits, Sane
    <2> QED BY <1>1, <1>8, <2>1 DEF Sane
  <1>12. ASSUME NEW p \in Rows PROVE RowFits(t, p)
    <2>1. CASE p = r
      BY <1>5, <1>8, <1>10, <2>1, RowsAndContexts DEF RowFits, NoSession
    <2>2. CASE p # r
      BY <1>1, <1>8, <2>2, RowsAndContexts DEF Sane, RowFits
    <2> QED BY <2>1, <2>2
  <1>13. ~LiveIn(s, r) /\ ~LiveIn(t, r) /\ \A p \in Rows \ {r} : LiveIn(t, p) <=> LiveIn(s, p)
    BY <1>2, <1>5, <1>8 DEF LiveIn
  <1>14. Nested(t)
    <2>1. ASSUME NEW p \in Rows, LiveIn(t, p)
          PROVE  /\ t.session[t.row[p].parent].in_flight
                 /\ t.session[t.row[p].parent].generation = t.row[p].generation
                 /\ \A o \in Rows : LiveIn(t, o) /\ t.row[o].parent = t.row[p].parent => o = p
      <3>1. p # r /\ LiveIn(s, p) /\ t.row[p] = s.row[p]
        BY <1>8, <1>13, <2>1
      <3>2. s.row[p].parent \in Contexts \ {0}
        BY <1>1, <1>4, <3>1, NoTicket DEF Sane, RowFits, LiveIn
      <3>3. /\ s.session[s.row[p].parent].in_flight
            /\ s.session[s.row[p].parent].generation = s.row[p].generation
            /\ \A o \in Rows : LiveIn(s, o) /\ s.row[o].parent = s.row[p].parent => o = p
        BY <1>1, <3>1 DEF Sane, Nested
      <3> QED BY <1>8, <1>13, <3>1, <3>2, <3>3
    <2>2. ASSUME NEW p \in Rows, t.row[p].state = "RESERVED"
          PROVE  t.row[p].parent = 0 /\ t.session[0].prepared = p
                 /\ t.row[p].generation = t.session[0].generation
      <3>1. p = r
        BY <1>1, <1>4, <1>8, <2>2, NoTicket
      <3> QED BY <1>5, <1>6, <1>8, <3>1
    <2> QED BY <2>1, <2>2 DEF Nested
  <1>15. t.borrows = Cardinality(Reading(t))
    <2>1. EmptyRow.ref = FALSE
      BY DEF EmptyRow
    <2>2. t.row[r].ref = s.row[r].ref
      BY <1>5, <1>8, <1>10, <2>1, Zenon
    <2>3. Cardinality(Reading(t)) = Cardinality(Reading(s))
      BY <1>1, <1>2, <1>8, <1>9, <2>2, ReadingChanges
    <2> QED BY <1>1, <1>7, <2>3 DEF Sane
  <1>16. Answered(t)
    <2>1. ASSUME NEW c \in Contexts, t.session[c].in_flight
          PROVE  \E p \in Rows : LiveIn(t, p) /\ t.row[p].parent = c
      <3>1. c # 0
        BY <1>6, <1>8, <2>1
      <3>2. PICK p \in Rows : LiveIn(s, p) /\ s.row[p].parent = c
        BY <1>1, <1>8, <2>1, <3>1 DEF Answered
      <3> QED BY <1>8, <1>13, <3>2
    <2> QED BY <1>5, <1>6, <1>8, <2>1 DEF Answered
  <1>17. t.session[0].state # "CLOSED" /\ \A p \in Rows : t.row[p].state # "CANCELED"
    BY <1>5, <1>6, <1>8 DEF Open
  <1> QED BY <1>9, <1>11, <1>12, <1>14, <1>15, <1>16, <1>17 DEF Open, Sane, t

\* What the commit of the root's ticket changes.
LEMMA CommitParts ==
    ASSUME OwnerAssumption, NEW s, Sane(s), s.session[0].prepared # 0
    PROVE  LET t == subdialog_commit(s, 0)
               p == s.session[0].prepared
           IN /\ t.row = (IF s.row[p].state = "RESERVED"
                          THEN [s.row EXCEPT ![p] = [s.row[p] EXCEPT !.state = "PENDING"]]
                          ELSE s.row)
              /\ t.session = [s.session EXCEPT ![0] =
                                [s.session[0] EXCEPT !.prepared = 0, !.in_flight = TRUE,
                                                     !.mailbox = "EMPTY"]]
              /\ t.borrows = s.borrows /\ Shaped(t)
  <1> DEFINE t == subdialog_commit(s, 0)
             p == s.session[0].prepared
             q == [s.session[0] EXCEPT !.prepared = 0, !.in_flight = TRUE, !.mailbox = "EMPTY"]
             u == [s EXCEPT !.session[0].prepared = 0, !.session[0].in_flight = TRUE,
                            !.session[0].mailbox = "EMPTY"]
  <1>1. s.session \in [Contexts -> SessionRecords] /\ Shaped(s) /\ 0 \in Contexts
    BY SaneFacts, RowsAndContexts
  <1>2. t = row_ticket_commit(u, p)
    BY Zenon DEF subdialog_commit
  <1>3. u.row = s.row /\ u.borrows = s.borrows /\ Shaped(u)
        /\ u.session = [s.session EXCEPT ![0] = q]
    BY <1>1 DEF Shaped
  <1> HIDE DEF u, t, p, q
  <1>4. CASE s.row[p].state = "RESERVED"
    <2>1. t = [u EXCEPT !.row[p].state = "PENDING"]
      BY <1>2, <1>3, <1>4 DEF row_ticket_commit
    <2>2. t.row = [u.row EXCEPT ![p] = [u.row[p] EXCEPT !.state = "PENDING"]]
          /\ t.session = u.session /\ t.borrows = u.borrows /\ Shaped(t)
      BY <1>3, <2>1 DEF Shaped
    <2> QED BY <1>3, <1>4, <2>2 DEF t, p, q
  <1>5. CASE s.row[p].state # "RESERVED"
    <2>1. t = u
      BY <1>2, <1>3, <1>5 DEF row_ticket_commit
    <2> QED BY <1>3, <1>5, <2>1 DEF t, p, q
  <1> QED BY <1>4, <1>5

\* The committed child is the one the root session waits for; a closed owner has
\* taken its row back.
LEMMA CommitIsSound ==
    ASSUME OwnerAssumption, NEW s, Sane(s), s.session[0].prepared # 0
    PROVE  /\ Open(s) => Open(subdialog_commit(s, 0))
           /\ Torn(s) => Torn(subdialog_commit(s, 0))
  <1> DEFINE t == subdialog_commit(s, 0)
             p == s.session[0].prepared
             y == [s.row[p] EXCEPT !.state = "PENDING"]
             q == [s.session[0] EXCEPT !.prepared = 0, !.in_flight = TRUE, !.mailbox = "EMPTY"]
  <1>1. /\ s \in Systems /\ s.row \in [Rows -> RowRecords] /\ s.borrows \in Nat
        /\ s.session \in [Contexts -> SessionRecords]
    BY SaneFacts
  <1>2. /\ p \in Rows /\ ~s.session[0].in_flight /\ s.session[0].state = "RUNNING"
        /\ s.session[0].active
        /\ \A r \in Rows : s.row[r].state = "RESERVED" => r = p
        /\ \A r \in Rows : LiveIn(s, r) => s.row[r].parent # 0
    BY NoTicket
  <1>3. /\ t.row = (IF s.row[p].state = "RESERVED" THEN [s.row EXCEPT ![p] = y] ELSE s.row)
        /\ t.session = [s.session EXCEPT ![0] = q] /\ t.borrows = s.borrows /\ Shaped(t)
    BY CommitParts
  <1>4. /\ q \in SessionRecords /\ q.in_flight /\ q.prepared = 0 /\ q.state = "RUNNING"
        /\ q.mailbox = "EMPTY" /\ q.active /\ q.generation = s.session[0].generation
    <2>1. s.session[0] \in SessionRecords /\ 0 \in 0 .. capacity
      BY <1>1, RowsAndContexts DEF OwnerAssumption
    <2> QED BY <1>2, <2>1 DEF SessionRecords
  <1>5. /\ y \in RowRecords /\ y.state = "PENDING" /\ y.parent = s.row[p].parent
        /\ y.generation = s.row[p].generation /\ y.ref = s.row[p].ref
        /\ y.event = s.row[p].event
    <2>1. s.row[p] \in RowRecords
      BY <1>1, <1>2
    <2> HIDE DEF p
    <2> QED BY <2>1 DEF RowRecords, RowStates
  <1> HIDE DEF t, p, y, q
  <1>6. /\ t.session[0] = q /\ \A c \in Contexts \ {0} : t.session[c] = s.session[c]
        /\ \A r \in Rows \ {p} : t.row[r] = s.row[r]
        /\ t.row[p] = IF s.row[p].state = "RESERVED" THEN y ELSE s.row[p]
    BY <1>1, <1>2, <1>3, RowsAndContexts
  <1>7. t \in Systems
    <2>1. t.row \in [Rows -> RowRecords] /\ t.session \in [Contexts -> SessionRecords]
      <3>1. y \in RowRecords /\ q \in SessionRecords
        BY <1>4, <1>5
      <3>2. t.row \in [Rows -> RowRecords]
        <4>1. t.row = [s.row EXCEPT ![p] = y] \/ t.row = s.row
          BY <1>3
        <4> QED BY <1>1, <3>1, <4>1
      <3>3. t.session \in [Contexts -> SessionRecords]
        BY <1>1, <1>3, <3>1
      <3> QED BY <3>2, <3>3
    <2> QED BY <1>1, <1>3, <2>1, ShapedIsSystem
  <1>8. \A c \in Contexts : SessionFits(t.session[c])
    <2>1. SessionFits(q)
      BY <1>4 DEF SessionFits
    <2> QED BY <1>6, <2>1 DEF Sane
  <1>9. \A r \in Rows : t.row[r].ref = s.row[r].ref
    BY <1>5, <1>6
  <1>10. ASSUME NEW r \in Rows PROVE RowFits(t, r)
    <2>1. RowFits(s, r) /\ t.session[r] = s.session[r]
      BY <1>6, RowsAndContexts DEF Sane
    <2>2. CASE r = p /\ s.row[p].state = "RESERVED"
      BY <1>5, <1>6, <2>1, <2>2 DEF RowFits
    <2>3. CASE ~(r = p /\ s.row[p].state = "RESERVED")
      <3>1. t.row[r] = s.row[r]
        BY <1>6, <2>3
      <3> QED BY <2>1, <3>1 DEF RowFits
    <2> QED BY <2>2, <2>3
  <1>11. t.borrows = Cardinality(Reading(t))
    <2>1. Reading(t) = Reading(s)
      BY <1>9 DEF Reading
    <2> QED BY <1>3, <2>1 DEF Sane
  <1>12. ASSUME Torn(s) PROVE Torn(t)
    <2>1. \A r \in Rows : t.row[r].state \in {"EMPTY", "CANCELED"}
      BY <1>2, <1>6, <1>12 DEF Torn
    <2>2. Nested(t)
      BY <2>1 DEF Nested, LiveIn
    <2> QED BY <1>7, <1>8, <1>10, <1>11, <2>1, <2>2 DEF Torn, Sane
  <1>13. ASSUME Open(s) PROVE Open(t)
    <2>1. s.row[p].state = "RESERVED"
      BY <1>13 DEF Open, Answered, p
    <2>2. t.row[p] = y /\ y.parent = 0 /\ y.generation = q.generation
      BY <1>2, <1>4, <1>5, <1>6, <2>1 DEF Sane, Nested
    <2>3. LiveIn(t, p) /\ \A r \in Rows \ {p} : LiveIn(t, r) <=> LiveIn(s, r)
      BY <1>5, <1>6, <2>2 DEF LiveIn
    <2>4. Nested(t)
      <3>1. ASSUME NEW r \in Rows, LiveIn(t, r)
            PROVE  /\ t.session[t.row[r].parent].in_flight
                   /\ t.session[t.row[r].parent].generation = t.row[r].generation
                   /\ \A o \in Rows : LiveIn(t, o) /\ t.row[o].parent = t.row[r].parent => o = r
        <4>1. CASE r = p
          BY <1>2, <1>4, <1>6, <2>2, <2>3, <4>1
        <4>2. CASE r # p
          <5>1. LiveIn(s, r) /\ t.row[r] = s.row[r]
            BY <1>6, <2>3, <3>1, <4>2
          <5>2. s.row[r].parent \in Contexts \ {0}
            BY <1>2, <5>1 DEF Sane, RowFits, LiveIn
          <5>3. /\ s.session[s.row[r].parent].in_flight
                /\ s.session[s.row[r].parent].generation = s.row[r].generation
                /\ \A o \in Rows : LiveIn(s, o) /\ s.row[o].parent = s.row[r].parent => o = r
            BY <5>1 DEF Sane, Nested
          <5> QED BY <1>6, <2>2, <2>3, <5>1, <5>2, <5>3
        <4> QED BY <4>1, <4>2
      <3>2. \A r \in Rows : t.row[r].state # "RESERVED"
        BY <1>2, <1>5, <1>6, <2>2
      <3> QED BY <3>1, <3>2 DEF Nested
    <2>5. Answered(t)
      <3>1. ASSUME NEW c \in Contexts, t.session[c].in_flight
            PROVE  \E r \in Rows : LiveIn(t, r) /\ t.row[r].parent = c
        <4>1. CASE c = 0
          BY <1>2, <2>2, <2>3, <4>1
        <4>2. CASE c # 0
          <5>1. PICK r \in Rows : LiveIn(s, r) /\ s.row[r].parent = c
            BY <1>6, <1>13, <3>1, <4>2 DEF Open, Answered
          <5>2. r # p
            BY <2>1, <5>1 DEF LiveIn
          <5> QED BY <1>6, <2>3, <5>1, <5>2
        <4> QED BY <4>1, <4>2
      <3> QED BY <1>4, <1>6, <3>1 DEF Answered
    <2>6. t.session[0].state # "CLOSED" /\ \A r \in Rows : t.row[r].state # "CANCELED"
      BY <1>4, <1>5, <1>6, <1>13, <2>2 DEF Open
    <2> QED BY <1>7, <1>8, <1>10, <1>11, <2>4, <2>5, <2>6 DEF Open, Sane
  <1> QED BY <1>12, <1>13 DEF t

\* The discarded ticket's row is free again.
LEMMA DiscardIsSound ==
    ASSUME OwnerAssumption, NEW s, Sane(s), s.session[0].prepared # 0
    PROVE  LET t == [row_ticket_discard(s, s.session[0].prepared) EXCEPT
                        !.session[0].prepared = 0]
           IN (Open(s) => Open(t)) /\ (Torn(s) => Torn(t))
  <1> DEFINE p == s.session[0].prepared
             u == row_ticket_discard(s, p)
             q == [s.session[0] EXCEPT !.prepared = 0]
             t == [u EXCEPT !.session[0].prepared = 0]
  <1>1. /\ p \in Rows /\ ~s.session[0].in_flight /\ s.session[0].state = "RUNNING"
        /\ s.session[0].mailbox = "DISARMED"
        /\ \A r \in Rows : s.row[r].state = "RESERVED" => r = p
        /\ \A r \in Rows : LiveIn(s, r) => s.row[r].parent # 0
    BY NoTicket
  <1>2. /\ Sane(u) /\ u.session = s.session /\ u.row[p].state # "RESERVED"
        /\ \A r \in Rows : \/ u.row[r] = s.row[r]
                           \/ r = p /\ s.row[p].state = "RESERVED" /\ u.row[p] = EmptyRow
    BY <1>1, DiscardFalls
  <1>3. /\ q \in SessionRecords /\ SessionFits(q) /\ ~q.in_flight /\ q.prepared = 0
        /\ q.state = "RUNNING"
    <2>1. s.session[0] \in SessionRecords /\ 0 \in 0 .. capacity
      BY SaneFacts, RowsAndContexts DEF OwnerAssumption
    <2> QED BY <1>1, <2>1 DEF SessionRecords, SessionFits
  <1> HIDE DEF p, u
  <1>4. t.row = u.row /\ t.session = [u.session EXCEPT ![0] = q] /\ t.borrows = u.borrows
        /\ Shaped(t)
    <2>1. Shaped(u)
      BY <1>2, SaneFacts
    <2> QED BY <1>2, <2>1 DEF Shaped
  <1> HIDE DEF q, t
  <1>5. EmptyRow.state = "EMPTY"
    BY DEF EmptyRow
  <1>6. /\ \A r \in Rows : LiveIn(u, r) => LiveIn(s, r) /\ u.row[r] = s.row[r]
        /\ \A r \in Rows : LiveIn(s, r) => u.row[r] = s.row[r]
    BY <1>2, <1>5 DEF LiveIn
  <1>7. /\ \A r \in Rows : LiveIn(u, r) => u.row[r].parent # 0
        /\ \A r \in Rows : u.row[r].state # "RESERVED"
    BY <1>1, <1>2, <1>5, <1>6
  <1>8. Sane(t)
    BY <1>2, <1>3, <1>4, <1>7, RootMoves
  <1>9. t.session[0] = q
    BY <1>2, <1>4, SaneFacts, RowsAndContexts
  <1>10. ASSUME Torn(s) PROVE Torn(t)
    BY <1>2, <1>4, <1>5, <1>8, <1>10 DEF Torn
  <1>11. ASSUME Open(s) PROVE Open(t)
    <2>1. ASSUME NEW c \in Contexts \ {0}, u.session[c].in_flight
          PROVE  \E r \in Rows : LiveIn(u, r) /\ u.row[r].parent = c
      <3>1. PICK r \in Rows : LiveIn(s, r) /\ s.row[r].parent = c
        BY <1>2, <1>11, <2>1 DEF Open, Answered
      <3>2. u.row[r] = s.row[r]
        BY <1>6, <3>1
      <3> QED BY <3>1, <3>2 DEF LiveIn
    <2>2. Answered(t)
      BY <1>2, <1>3, <1>4, <1>7, <2>1, RootMoves
    <2>3. \A r \in Rows : t.row[r].state # "CANCELED"
      BY <1>2, <1>4, <1>5, <1>11 DEF Open
    <2> QED BY <1>3, <1>8, <1>9, <2>2, <2>3 DEF Open
  <1> QED BY <1>10, <1>11 DEF t, u, p

\* The root session goes on to its next stop, from one that waits for no child.
LEMMA RootGoesOn ==
    ASSUME OwnerAssumption, NEW s, Sane(s), NEW q \in SessionRecords,
           ~s.session[0].in_flight, s.session[0].prepared = 0,
           ~q.in_flight, q.prepared = 0, q.mailbox = "DISARMED", NEW o \in Outcomes(q)
    PROVE  LET t == [s EXCEPT !.session[0] = Stopped(q, o)]
           IN /\ Torn(s) => Torn(t)
              /\ Answered(s) /\ (\A r \in Rows : s.row[r].state # "CANCELED") => Open(t)
  <1> DEFINE e == Stopped(q, o)
             t == [s EXCEPT !.session[0] = e]
  <1>1. e \in SessionRecords /\ SessionFits(e) /\ ~e.in_flight /\ e.prepared = 0
        /\ e.state # "CLOSED"
    BY StoppedFits
  <1> HIDE DEF e
  <1>2. t.row = s.row /\ t.session = [s.session EXCEPT ![0] = e] /\ t.borrows = s.borrows
        /\ Shaped(t)
    <2>1. Shaped(s)
      BY SaneFacts
    <2> QED BY <2>1 DEF Shaped
  <1> HIDE DEF t
  <1>3. /\ \A r \in Rows : LiveIn(s, r) => s.row[r].parent # 0
        /\ \A r \in Rows : s.row[r].state # "RESERVED"
    BY NoTicket
  <1>4. Sane(t)
    BY <1>1, <1>2, <1>3, RootMoves
  <1>5. t.session[0] = e
    BY <1>2, SaneFacts, RowsAndContexts
  <1>6. ASSUME Torn(s) PROVE Torn(t)
    BY <1>2, <1>4, <1>6 DEF Torn
  <1>7. ASSUME Answered(s), \A r \in Rows : s.row[r].state # "CANCELED" PROVE Open(t)
    <2>1. \A c \in Contexts \ {0} : s.session[c].in_flight =>
             \E r \in Rows : LiveIn(s, r) /\ s.row[r].parent = c
      BY <1>7 DEF Answered
    <2>2. Answered(t)
      BY <1>1, <1>2, <1>3, <2>1, RootMoves
    <2> QED BY <1>1, <1>2, <1>4, <1>5, <1>7, <2>2 DEF Open
  <1> QED BY <1>6, <1>7 DEF t, e

\* Closing the owner takes every row back.
LEMMA RowsClose ==
    ASSUME OwnerAssumption, NEW s, Sane(s)
    PROVE  Torn([s EXCEPT !.row = [r \in Rows |-> CloseRow(s.row[r])]])
  <1> DEFINE t == [s EXCEPT !.row = [r \in Rows |-> CloseRow(s.row[r])]]
  <1>1. s.row \in [Rows -> RowRecords] /\ Shaped(s)
    BY SaneFacts
  <1>2. ASSUME NEW r \in Rows
        PROVE  /\ CloseRow(s.row[r]) \in RowRecords
               /\ CloseRow(s.row[r]).state \in {"EMPTY", "CANCELED"}
               /\ \/ CloseRow(s.row[r]) = s.row[r]
                  \/ /\ s.row[r].state # "EMPTY"
                     /\ CloseRow(s.row[r]) = [s.row[r] EXCEPT !.state = "CANCELED"]
    <2>1. s.row[r] \in RowRecords
      BY <1>1
    <2> QED BY <2>1 DEF CloseRow, RowRecords, RowStates
  <1>3. t.row = [r \in Rows |-> CloseRow(s.row[r])] /\ t.session = s.session
        /\ t.borrows = s.borrows /\ Shaped(t)
    BY <1>1 DEF Shaped
  <1> HIDE DEF t
  <1>4. \A r \in Rows : t.row[r] = CloseRow(s.row[r])
    BY <1>3
  <1>5. t.row \in [Rows -> RowRecords]
    BY <1>2, <1>3
  <1>6. t.session = s.session /\ t.borrows = s.borrows /\ Shaped(t)
    BY <1>3
  <1>7. \A r \in Rows :
          \/ t.row[r] = s.row[r]
          \/ s.row[r].state # "EMPTY" /\ t.row[r] = [s.row[r] EXCEPT !.state = "CANCELED"]
          \/ s.row[r].state = "RESERVED" /\ t.row[r] = EmptyRow
    BY <1>2, <1>4
  <1>8. Sane(t)
    BY <1>5, <1>6, <1>7, RowsFall
  <1>9. \A r \in Rows : t.row[r].state \in {"EMPTY", "CANCELED"}
    BY <1>2, <1>4
  <1> QED BY <1>8, <1>9 DEF Torn, t

-----------------------------------------------------------------------------
(* The invariant.                                                          *)

\* The two phases in which calls change anything.
LEMMA PhaseOfParts ==
    ASSUME NEW s, NEW at
    PROVE  /\ Torn(s) => Phase(s, TRUE, at)
           /\ Open(s) => Phase(s, FALSE, at)
  BY DEF Phase, Torn, Open

\* The invariant holds when the owner is made.
LEMMA OwnerInitInv ==
    OwnerAssumption /\ OwnerInit => OwnerInv
  <1> SUFFICES ASSUME OwnerAssumption, OwnerInit PROVE OwnerInv
    OBVIOUS
  <1>1. /\ sys.row = [r \in Rows |-> EmptyRow] /\ sys.session = [c \in Contexts |-> NoSession]
        /\ sys.borrows = 0 /\ sys \in Systems
    BY FreshRecords DEF OwnerInit, Systems
  <1>2. /\ \A r \in Rows : sys.row[r] = EmptyRow
        /\ \A c \in Contexts : sys.session[c] = NoSession
    BY <1>1
  <1>3. /\ EmptyRow.state = "EMPTY" /\ EmptyRow.ref = FALSE /\ EmptyRow.event = FALSE
        /\ ~NoSession.in_flight /\ NoSession.prepared = 0 /\ NoSession.state = "NONE"
    BY DEF EmptyRow, NoSession
  <1>4. \A c \in Contexts : SessionFits(sys.session[c])
    BY <1>2, FreshRecords
  <1>5. \A r \in Rows : RowFits(sys, r)
    BY <1>2, <1>3, RowsAndContexts DEF RowFits
  <1>6. Nested(sys) /\ Answered(sys)
    BY <1>2, <1>3, RowsAndContexts DEF Nested, Answered, LiveIn
  <1>7. sys.borrows = Cardinality(Reading(sys))
    <2>1. Reading(sys) = {}
      BY <1>2, <1>3 DEF Reading
    <2> QED BY <1>1, <2>1, FS_EmptySet
  <1>8. Sane(sys) /\ Open(sys)
    BY <1>1, <1>2, <1>3, <1>4, <1>5, <1>6, <1>7, RowsAndContexts DEF Sane, Open
  <1>9. ow_run \in Calls /\ ow_closed = FALSE
    BY DEF OwnerInit, Calls
  <1>10. Phase(sys, FALSE, ow_run.at)
    BY <1>8, PhaseOfParts
  <1> QED BY <1>9, <1>10 DEF OwnerInv

\* One step of run_ready.
LEMMA RunStepInv ==
    ASSUME OwnerAssumption, OwnerInv, run_step
    PROVE  OwnerInv'
  <1>1. /\ ow_closed \in BOOLEAN /\ ow_run \in Calls /\ Phase(sys, ow_closed, ow_run.at)
        /\ ow_run # Idle
    BY DEF OwnerInv, run_step
  <1>2. ow_run.at \in Contexts /\ ow_run.work \in Nat \ {0} /\ ow_run.at # None
    BY <1>1, RowsAndContexts DEF Calls
  <1>3. PICK d \in Work(sys, ow_run.at) :
          /\ sys' = d.sys /\ ow_closed' = ow_closed
          /\ LET left == ow_run.work - (IF d.progressed THEN 1 ELSE 0)
             IN ow_run' = IF ~d.ok \/ left = 0 \/ ow_run.at = capacity THEN Idle
                          ELSE [at |-> ow_run.at + 1, work |-> left]
    BY DEF run_step
  <1>4. ASSUME d \in Results PROVE ow_run' \in Calls
    <2> DEFINE left == ow_run.work - (IF d.progressed THEN 1 ELSE 0)
    <2>1. left \in Nat
      BY <1>2, <1>4 DEF Results
    <2>2. ow_run.at # capacity => ow_run.at + 1 \in Contexts
      BY <1>2 DEF Contexts, OwnerAssumption
    <2>3. ow_run' = IF ~d.ok \/ left = 0 \/ ow_run.at = capacity THEN Idle
                    ELSE [at |-> ow_run.at + 1, work |-> left]
      BY <1>3
    <2> HIDE DEF left
    <2> QED BY <2>1, <2>2, <2>3 DEF Calls
  <1>5. CASE ow_closed
    <2>1. d \in Results /\ Torn(sys')
      BY <1>1, <1>2, <1>3, <1>5, ClosedWorkIsTorn DEF Phase
    <2>2. Phase(sys', ow_closed', ow_run'.at)
      BY <1>1, <1>3, <1>5, <2>1, PhaseOfParts
    <2> QED BY <1>1, <1>3, <1>4, <2>1, <2>2 DEF OwnerInv
  <1>6. CASE ~ow_closed /\ Open(sys)
    <2>1. Well(d)
      BY <1>1, <1>2, <1>3, <1>6, WorkIsWell
    <2>2. d \in Results /\ Open(sys')
      BY <1>3, <2>1 DEF Well
    <2>3. Phase(sys', ow_closed', ow_run'.at)
      BY <1>1, <1>3, <1>6, <2>2, PhaseOfParts
    <2> QED BY <1>1, <1>3, <1>4, <2>2, <2>3 DEF OwnerInv
  <1>7. CASE ~ow_closed /\ sys.session[0].state = "CLOSED" /\ ow_run.at \in {None, 0}
    <2>1. ow_run.at = 0
      BY <1>2, <1>7
    <2>2. d = Result(sys, FALSE, FALSE)
      BY <1>3, <1>7, <2>1 DEF Work, drive_parent_context
    <2>3. sys' = sys /\ ow_run' = Idle
      BY <1>3, <2>2 DEF Result
    <2>4. Idle \in Calls /\ Idle.at = None
      BY DEF Calls, Idle
    <2>5. Phase(sys', ow_closed', ow_run'.at)
      BY <1>1, <1>3, <1>7, <2>3, <2>4 DEF Phase
    <2> QED BY <1>1, <1>3, <2>3, <2>4, <2>5 DEF OwnerInv
  <1> QED BY <1>1, <1>5, <1>6, <1>7 DEF Phase

\* The calls between two calls of run_ready.
LEMMA CallInv ==
    ASSUME OwnerAssumption, OwnerInv, OwnerNext, ~run_step
    PROVE  OwnerInv'
  <1> DEFINE root == sys.session[0]
  <1>1. /\ ow_closed \in BOOLEAN /\ ow_run \in Calls /\ Phase(sys, ow_closed, ow_run.at)
        /\ Sane(sys) /\ ow_run = Idle
    BY DEF OwnerInv, Phase, OwnerNext, bind_root, root_input, root_prepare,
           root_commit, root_discard, root_close, owner_close, run_begin
  <1>2. Idle.at = None /\ Idle \in Calls
    BY DEF Idle, Calls
  <1>3. root \in SessionRecords /\ SessionFits(root)
    BY <1>1, SaneFacts, RowsAndContexts DEF Sane
  <1>4. root.state # "CLOSED" =>
          (ow_closed /\ Torn(sys)) \/ (~ow_closed /\ Open(sys))
    BY <1>1, Zenon DEF Phase
  <1>5. SUFFICES /\ ow_closed' \in BOOLEAN /\ ow_run' \in Calls
                 /\ Phase(sys', ow_closed', ow_run'.at)
    BY DEF OwnerInv
  <1>6. ASSUME ow_run' = ow_run, ow_closed' = ow_closed, root.state # "CLOSED",
               Torn(sys) => Torn(sys'), Open(sys) => Open(sys')
        PROVE  /\ ow_closed' \in BOOLEAN /\ ow_run' \in Calls
               /\ Phase(sys', ow_closed', ow_run'.at)
    BY <1>1, <1>2, <1>4, <1>6, PhaseOfParts
  <1>7. CASE bind_root
    <2>1. /\ sys' \in Started(0, sys) /\ ~ow_closed /\ ow_closed' = ow_closed
          /\ ow_run' = ow_run /\ root.state \in {"NONE", "CLOSED"}
          /\ \A r \in Rows : sys.row[r].state = "EMPTY"
      BY <1>7 DEF bind_root, HasLiveRows
    <2>2. PICK o \in Outcomes(NoSession) : sys' = [sys EXCEPT !.session[0] = Stopped(NoSession, o)]
      BY <2>1 DEF Started
    <2>3. ~root.in_flight /\ root.prepared = 0
      BY <1>3, <2>1 DEF SessionFits
    <2>4. ~NoSession.in_flight /\ NoSession.prepared = 0 /\ NoSession.mailbox = "DISARMED"
      BY DEF NoSession
    <2>5. Answered(sys) /\ \A r \in Rows : sys.row[r].state # "CANCELED"
      BY <1>1, <2>1 DEF Phase
    <2>6. Open(sys')
      BY <1>1, <2>2, <2>3, <2>4, <2>5, FreshRecords, RootGoesOn
    <2> QED BY <1>1, <1>2, <2>1, <2>6, PhaseOfParts
  <1>8. CASE root_input
    <2>1. PICK o \in Outcomes(root) : sys' = [sys EXCEPT !.session[0] = Stopped(root, o)]
      BY <1>8 DEF root_input
    <2>2. /\ root.state = "RUNNING" /\ ~root.active
          /\ ow_closed' = ow_closed /\ ow_run' = ow_run
      BY <1>8 DEF root_input
    <2>3. ~root.in_flight /\ root.prepared = 0 /\ root.mailbox = "DISARMED"
      BY <1>3, <2>2 DEF SessionFits
    <2>4. /\ Torn(sys) => Torn(sys')
          /\ Open(sys) => Open(sys')
      <3>1. /\ Torn(sys) => Torn(sys')
            /\ Answered(sys) /\ (\A r \in Rows : sys.row[r].state # "CANCELED") => Open(sys')
        BY <1>1, <1>3, <2>1, <2>3, RootGoesOn
      <3> QED BY <3>1 DEF Open
    <2> QED BY <1>6, <2>2, <2>4
  <1>9. CASE root_prepare
    <2>1. /\ Wants(root) /\ Admissible(sys, 0) /\ sys' = owner_prepare(sys, 0)
          /\ ow_closed' = ow_closed /\ ow_run' = ow_run
      BY <1>9 DEF root_prepare
    <2>2. ~ow_closed /\ root.state # "CLOSED"
      BY <2>1 DEF Admissible, Wants
    <2>3. Open(sys')
      BY <1>4, <2>1, <2>2, PrepareIsSound
    <2> QED BY <1>1, <1>2, <2>1, <2>2, <2>3, PhaseOfParts
  <1>10. CASE root_commit
    <2>1. root.prepared # 0 /\ sys' = subdialog_commit(sys, 0)
          /\ ow_closed' = ow_closed /\ ow_run' = ow_run
      BY <1>10 DEF root_commit
    <2>2. root.state # "CLOSED"
      BY <1>3, <2>1 DEF SessionFits
    <2> QED BY <1>1, <1>6, <2>1, <2>2, CommitIsSound
  <1>11. CASE root_discard
    <2>1. /\ root.prepared # 0 /\ ow_closed' = ow_closed /\ ow_run' = ow_run
          /\ sys' = [row_ticket_discard(sys, root.prepared) EXCEPT !.session[0].prepared = 0]
      BY <1>11 DEF root_discard
    <2>2. root.state # "CLOSED"
      BY <1>3, <2>1 DEF SessionFits
    <2> QED BY <1>1, <1>6, <2>1, <2>2, DiscardIsSound
  <1>12. CASE root_close
    <2>1. /\ root.state \notin {"NONE", "CLOSED"} /\ sys' = close_session(sys, 0)
          /\ ow_closed' = ow_closed /\ ow_run' = ow_run
      BY <1>12 DEF root_close
    <2>2. Torn(sys) \/ Open(sys)
      BY <1>4, <2>1
    <2>3. /\ Sane(sys') /\ sys'.session[0].state = "CLOSED"
          /\ Torn(sys) => Torn(sys')
          /\ Open(sys) => Answered(sys')
      BY <1>1, <2>1, <2>2, CloseIsSane
    <2>4. CASE ow_closed
      BY <1>1, <1>2, <1>4, <2>1, <2>3, <2>4, PhaseOfParts
    <2>5. CASE ~ow_closed
      BY <1>1, <1>2, <1>4, <2>1, <2>3, <2>5 DEF Phase
    <2> QED BY <2>4, <2>5
  <1>13. CASE owner_close
    <2>1. /\ sys' = [sys EXCEPT !.row = [r \in Rows |-> CloseRow(sys.row[r])]]
          /\ ow_closed' = TRUE /\ ow_run' = ow_run
      BY <1>13 DEF owner_close
    <2>2. Torn(sys')
      BY <1>1, <2>1, RowsClose
    <2> QED BY <1>1, <1>2, <2>1, <2>2, PhaseOfParts
  <1>14. CASE \E work \in 1 .. MaxWork : run_begin(work)
    <2>1. PICK work \in 1 .. MaxWork : run_begin(work)
      BY <1>14
    <2>2. /\ sys' = sys /\ ow_closed' = ow_closed /\ ow_run' = [at |-> 0, work |-> work]
          /\ work \in Nat \ {0}
      BY <2>1 DEF run_begin, OwnerAssumption
    <2>3. ow_run' \in Calls /\ ow_run'.at = 0
      BY <2>2, RowsAndContexts DEF Calls
    <2>4. Phase(sys', ow_closed', ow_run'.at)
      BY <1>1, <2>2, <2>3 DEF Phase
    <2> QED BY <1>1, <2>2, <2>3, <2>4
  <1> QED BY <1>7, <1>8, <1>9, <1>10, <1>11, <1>12, <1>13, <1>14 DEF OwnerNext

\* What the invariant says of parents and children.
LEMMA InvImpliesSound ==
    OwnerAssumption /\ OwnerInv => OwnerSound
  <1> SUFFICES ASSUME OwnerAssumption, OwnerInv PROVE OwnerSound
    OBVIOUS
  <1>1. /\ Sane(sys) /\ sys.row \in [Rows -> RowRecords]
        /\ sys.session \in [Contexts -> SessionRecords] /\ sys.borrows \in Nat
        /\ ~ow_closed => Answered(sys)
    BY SaneFacts DEF OwnerInv, Phase
  <1>2. OwnerTypeOK
    <2>1. \A r \in Rows : sys.row[r] \in RowRecords
      BY <1>1
    <2>2. \A c \in Contexts : sys.session[c] \in SessionRecords
      BY <1>1
    <2> QED BY <1>1, <2>1, <2>2 DEF OwnerTypeOK, RowRecords, RowStates, SessionRecords
  <1>3. \A r \in Rows : Live(r) <=> LiveIn(sys, r)
    BY DEF Live, LiveIn
  <1>4. ChildHasWaiting
    BY <1>1, <1>3 DEF ChildHasWaiting, Sane, Nested
  <1>5. WaitingHasChild
    <2> SUFFICES ASSUME ~ow_closed, NEW c \in Contexts, sys.session[c].in_flight
                 PROVE  Cardinality({r \in Rows : Live(r) /\ sys.row[r].parent = c
                            /\ sys.row[r].generation = sys.session[c].generation}) = 1
      BY DEF WaitingHasChild
    <2>1. PICK r \in Rows : LiveIn(sys, r) /\ sys.row[r].parent = c
      BY <1>1 DEF Answered
    <2>2. /\ sys.row[r].generation = sys.session[c].generation
          /\ \A q \in Rows : LiveIn(sys, q) /\ sys.row[q].parent = c => q = r
      BY <1>1, <2>1 DEF Sane, Nested
    <2>3. {q \in Rows : Live(q) /\ sys.row[q].parent = c
              /\ sys.row[q].generation = sys.session[c].generation} = {r}
      BY <1>3, <2>1, <2>2
    <2> QED BY <2>3, FS_Singleton
  <1>6. TicketIsOwn
    <2> SUFFICES ASSUME NEW c \in Contexts, sys.session[c].prepared # 0, ~ow_closed
                 PROVE  LET r == sys.session[c].prepared
                        IN sys.row[r].state = "RESERVED" /\ sys.row[r].parent = c
      BY DEF TicketIsOwn
    <2>1. c = 0
      BY <1>1, RowsAndContexts DEF Sane, RowFits
    <2>2. sys.session[0].prepared \in Rows
      BY <1>1, <2>1, NoTicket
    <2>3. sys.row[sys.session[0].prepared].state = "RESERVED"
      BY <1>1, <2>1 DEF Answered
    <2> QED BY <1>1, <2>1, <2>2, <2>3 DEF Sane, Nested
  <1>7. BorrowsExact
    <2>1. sys.borrows = Cardinality({r \in Rows : sys.row[r].ref})
      BY <1>1 DEF Sane, Reading
    <2>2. ASSUME NEW r \in Rows, sys.row[r].ref
          PROVE  sys.row[r].state \in {"ACTIVE", "CANCELED"}
      <3>1. sys.row[r].state \in RowStates
        BY <1>1 DEF RowRecords
      <3>2. RowFits(sys, r)
        BY <1>1 DEF Sane
      <3> QED BY <2>2, <3>1, <3>2 DEF RowFits, RowStates
    <2> QED BY <2>1, <2>2 DEF BorrowsExact
  <1> QED BY <1>2, <1>4, <1>5, <1>6, <1>7 DEF OwnerSound

-----------------------------------------------------------------------------
(* In every state of the owner parents and children agree with each other,  *)
(* with the tickets that are out and with the documents borrowed: run_ready, *)
(* row_follow_navigation, publish_row_completion, owner_cancel, close.       *)
THEOREM OwnerCorrect ==
    OwnerAssumption => (OwnerSpec => []OwnerSound)
  <1> SUFFICES ASSUME OwnerAssumption PROVE OwnerSpec => []OwnerSound
    OBVIOUS
  <1>1. OwnerInit => OwnerInv
    BY OwnerInitInv
  <1>2. OwnerInv /\ [OwnerNext]_ownerVars => OwnerInv'
    <2> SUFFICES ASSUME OwnerInv, [OwnerNext]_ownerVars PROVE OwnerInv'
      OBVIOUS
    <2>1. CASE UNCHANGED ownerVars
      BY <2>1 DEF ownerVars, OwnerInv
    <2>2. CASE OwnerNext /\ run_step
      BY <2>2, RunStepInv
    <2>3. CASE OwnerNext /\ ~run_step
      BY <2>3, CallInv
    <2> QED BY <2>1, <2>2, <2>3
  <1>3. OwnerInv => OwnerSound
    BY InvImpliesSound
  <1> QED BY <1>1, <1>2, <1>3, PTL DEF OwnerSpec
=============================================================================
