---------------------------- MODULE DialogProofs ----------------------------
(***************************************************************************)
(* Proofs about the VoiceXML dialog manager: for every number of rows,     *)
(* dialogs, hops and scripts no dialog, event, ticket or resource of a row *)
(* is lost or given to another.  First the invariant, then what the work   *)
(* on one row may make of it and of the holdings, the steps of run_ready,  *)
(* the settlement of tickets, and the closing.                             *)
(***************************************************************************)
EXTENDS DialogManager, FiniteSetTheorems, WellFoundedInduction, TLAPS

\* What a row of the manager holds, and what the manager holds for all of them.
Settled == {EMPTY, PREPARED, RUNNING, EVENT_PENDING}
DialogStates == Settled \cup {RESERVED(k) : k \in Kinds} \cup {PENDING(k) : k \in Kinds}
DialogEvents == {"NONE", "PREPARED", "STARTED"} \cup Ends
AllStops == {"RUNNING", "NAVIGATING", "SUBMITTING", "SCRIPTING", "EXITED"}
DialogRecords ==
    [generation : 0 .. MaxDialogs, state : DialogStates, restore_state : DialogStates,
     event : DialogEvents, restore_event : DialogEvents, ticket : Kinds \cup {"NONE"},
     hops : 0 .. dm_max_navigation_hops, scripts : 0 .. max_script_steps,
     program : BOOLEAN, ref : BOOLEAN, session : AllStops \cup {"NONE", "FAILED"},
     started : BOOLEAN]
HeldRecords == [documents : Int, programs : Int, responses : Int, audio : Int]

\* What the CCXML side may have heard of a dialog that goes on, and of any.
Going == {<<>>, <<"PREPARED">>, <<"STARTED">>, <<"PREPARED", "STARTED">>}
HasStarted == {<<"STARTED">>, <<"PREPARED", "STARTED">>}
Histories ==
    Going \cup {Append(g, "EXIT") : g \in Going} \cup {Append(g, "ERROR_START") : g \in Going}
          \cup {<<"ERROR_PREPARE">>}

\* The queued event is the next that may be told, and one is queued when it should be.
EventFits(row, heard) ==
    /\ row.event \in {"PREPARED", "ERROR_PREPARE"} => heard = <<>>
    /\ row.event = "STARTED" => ~row.started /\ row.session \in {"RUNNING", "EXITED"}
    /\ row.state = EVENT_PENDING => row.event # "NONE"
    /\ row.state \notin {EVENT_PENDING, RESERVED("TERMINATE"), PENDING("TERMINATE")}
          => row.event = "NONE"

\* What a discard puts back is what the row was.
RestoreFits(row) ==
    row.state \in {RESERVED("TERMINATE"), RESERVED("PREPARED_START")} =>
        /\ row.restore_state \in {PREPARED, RUNNING, EVENT_PENDING}
        /\ row.restore_event = row.event
        /\ row.event = "NONE" <=> row.restore_state # EVENT_PENDING
        /\ row.restore_state = RUNNING => row.started /\ row.session = "RUNNING"

\* A row, what was heard of its dialog, and whether run_ready works on it.
DialogFits(row, heard, at) ==
    /\ row \in DialogRecords
    /\ ~(row.ref /\ row.program)
    /\ row.state = EMPTY => row = FreeRow(row.generation)
    /\ row.state # EMPTY =>
          /\ row.generation # 0 /\ heard \in Going
          /\ row.started <=> heard \in HasStarted
    /\ \A k \in Kinds : row.state = RESERVED(k) <=> row.ticket = k
    /\ row.state \in {RESERVED("PREPARE"), PENDING("PREPARE")} => heard = <<>>
    /\ row.state \in {RESERVED("PREPARE"), PENDING("PREPARE"), RESERVED("DIRECT_START")}
          => ~row.ref /\ ~row.program
    /\ row.state = PENDING("DIRECT_START") /\ ~at => ~row.ref /\ ~row.program
    /\ row.state = RUNNING => row.started /\ (~at => row.session = "RUNNING")
    /\ at => /\ row.state \in {PENDING("DIRECT_START"), PENDING("PREPARED_START"), RUNNING,
                               EVENT_PENDING}
             /\ row.state # EVENT_PENDING => row.session \in AllStops
    /\ EventFits(row, heard) /\ RestoreFits(row)

RunRecords == [at : DialogRows \cup {0}, seen : 0 .. dm_capacity, work : 0 .. MaxDialogWork]
TicketRecords == [row : DialogRows, kind : Kinds, generation : 0 .. MaxDialogs]

ManagerTyped ==
    /\ rows \in [DialogRows -> DialogRecords] /\ held \in HeldRecords
    /\ closed \in BOOLEAN /\ next \in DialogRows /\ sink \in {"OPEN", "CLOSED"}
    /\ run \in RunRecords /\ told \in [Dialogs -> Histories]
    /\ asked \subseteq Dialogs /\ tickets \subseteq TicketRecords

\* Nothing is known of a dialog that is still to come, or was only reserved.
NotYet ==
    /\ \A d \in Dialogs : d[2] > rows[d[1]].generation => told[d] = <<>> /\ d \notin asked
    /\ \A r \in DialogRows : rows[r].ticket \in Creating => IdOf(r) \notin asked

DialogInv ==
    /\ ManagerTyped
    /\ \A r \in DialogRows : DialogFits(rows[r], told[IdOf(r)], run.at = r)
    /\ NotYet /\ NoDialogLost
    /\ HeldExactly /\ DialogTicketIsOwn /\ ClosedIsEmpty
    /\ closed => run = NotRunning

-----------------------------------------------------------------------------
\* The states of a row are different from each other.
LEMMA StatesDiffer ==
    /\ EMPTY # PREPARED /\ EMPTY # RUNNING /\ EMPTY # EVENT_PENDING
    /\ PREPARED # RUNNING /\ PREPARED # EVENT_PENDING /\ RUNNING # EVENT_PENDING
    /\ \A k : RESERVED(k) \notin Settled /\ PENDING(k) \notin Settled
    /\ \A k, l : /\ RESERVED(k) # PENDING(l)
                 /\ RESERVED(k) = RESERVED(l) => k = l
                 /\ PENDING(k) = PENDING(l) => k = l
  <1>1. "EMPTY" # "PREPARED" /\ "EMPTY" # "RUNNING" /\ "EMPTY" # "EVENT_PENDING"
        /\ "PREPARED" # "RUNNING" /\ "PREPARED" # "EVENT_PENDING"
        /\ "RUNNING" # "EVENT_PENDING"
    OBVIOUS
  <1>2. ASSUME NEW a, NEW b, NEW c, NEW d, <<a, b>> = <<c, d>> PROVE a = c /\ b = d
    BY <1>2
  <1> QED BY <1>1, <1>2 DEF EMPTY, PREPARED, RUNNING, EVENT_PENDING, State, RESERVED, PENDING,
                Settled

\* So are the kinds of a ticket, and none is no kind.
LEMMA KindsDiffer ==
    /\ Creating \subseteq Kinds /\ "NONE" \notin Kinds /\ "PREPARE" \in Creating
    /\ "DIRECT_START" \in Creating
    /\ "PREPARED_START" \in Kinds \ Creating /\ "TERMINATE" \in Kinds \ Creating
    /\ Kinds = {"PREPARE", "DIRECT_START", "PREPARED_START", "TERMINATE"}
    /\ Creating = {"PREPARE", "DIRECT_START"}
  BY DEF Kinds, Creating

\* The states the manager names are states.
LEMMA StatesExist ==
    /\ Settled \subseteq DialogStates
    /\ \A k \in Kinds : RESERVED(k) \in DialogStates /\ PENDING(k) \in DialogStates
    /\ EMPTY \in Settled /\ PREPARED \in Settled /\ RUNNING \in Settled
    /\ EVENT_PENDING \in Settled
  BY DEF DialogStates, Settled

\* What may be heard: how a history goes on.
LEMMA HistoriesGoOn ==
    /\ <<>> \in Going \ HasStarted
    /\ Append(<<>>, "PREPARED") \in Going \ HasStarted
    /\ \A g \in Going \ HasStarted :
          Append(g, "STARTED") \in Going /\ Append(g, "STARTED") \in HasStarted
    /\ \A g \in Going : g \in Histories /\ Append(g, "EXIT") \in Histories
                        /\ Append(g, "ERROR_START") \in Histories
    /\ Append(<<>>, "ERROR_PREPARE") \in Histories
  <1>1. <<>> # <<"STARTED">> /\ <<>> # <<"PREPARED", "STARTED">>
        /\ <<"PREPARED">> # <<"STARTED">> /\ <<"PREPARED">> # <<"PREPARED", "STARTED">>
    OBVIOUS
  <1>2. /\ Append(<<>>, "PREPARED") = <<"PREPARED">> /\ Append(<<>>, "STARTED") = <<"STARTED">>
        /\ Append(<<"PREPARED">>, "STARTED") = <<"PREPARED", "STARTED">>
        /\ Append(<<>>, "ERROR_PREPARE") = <<"ERROR_PREPARE">>
    <2>1. ASSUME NEW e PROVE Append(<<>>, e) = <<e>>
      OBVIOUS
    <2>2. ASSUME NEW e, NEW f PROVE Append(<<e>>, f) = <<e, f>>
      <3> DEFINE a == Append(<<e>>, f)
                 b == <<e, f>>
      <3>1. <<e>> \in Seq({e, f}) /\ Len(<<e>>) = 1 /\ <<e>>[1] = e
        OBVIOUS
      <3>2. a \in Seq({e, f}) /\ Len(a) = 2 /\ a[1] = e /\ a[2] = f
        BY <3>1
      <3>3. b \in Seq({e, f}) /\ Len(b) = 2 /\ b[1] = e /\ b[2] = f
        OBVIOUS
      <3> HIDE DEF a, b
      <3>4. a \in [1 .. 2 -> {e, f}] /\ b \in [1 .. 2 -> {e, f}]
        BY <3>2, <3>3
      <3>5. \A i \in 1 .. 2 : a[i] = b[i]
        BY <3>2, <3>3
      <3>6. a = b
        BY <3>4, <3>5
      <3> QED BY <3>6 DEF a, b
    <2> QED BY <2>1, <2>2
  <1>3. Going \ HasStarted = {<<>>, <<"PREPARED">>}
    BY <1>1 DEF Going, HasStarted
  <1> QED BY <1>1, <1>2, <1>3 DEF Going, HasStarted, Histories

-----------------------------------------------------------------------------
\* A row under work, whatever is done with its session and its document, and what
\* the work may make of row and holdings.
Working(row, heard) ==
    /\ row \in DialogRecords /\ ~(row.ref /\ row.program)
    /\ row.generation # 0 /\ row.ticket = "NONE"
    /\ heard \in Going /\ (row.started <=> heard \in HasStarted)
    /\ row.state \in {PENDING(k) : k \in Kinds} \cup {RUNNING}
    /\ row.state = RUNNING => row.started

SameDialog(row, other) ==
    /\ other.generation = row.generation /\ other.state = row.state
    /\ other.ticket = row.ticket /\ other.event = row.event
    /\ other.started = row.started

Bit(b) == IF b THEN 1 ELSE 0
Balanced(row, h, x) ==
    /\ x.held \in HeldRecords
    /\ x.held.documents = h.documents + Bit(x.row.ref) - Bit(row.ref)
    /\ x.held.programs = h.programs + Bit(x.row.program) - Bit(row.program)
    /\ x.held.responses = h.responses /\ x.held.audio = h.audio

Moves(row, h, heard, x) ==
    /\ Balanced(row, h, x)
    /\ x.row.generation = row.generation
    /\ DialogFits(x.row, heard, TRUE)

\* Work goes on where only session, document and counters of a row change.
LEMMA SameWorks ==
    ASSUME NEW row, NEW other, NEW heard, Working(row, heard), other \in DialogRecords,
           SameDialog(row, other), ~(other.ref /\ other.program)
    PROVE  Working(other, heard)
  BY DEF Working, SameDialog

\* A row whose session has stopped somewhere may be handed off,
LEMMA WorkingFits ==
    ASSUME NEW row, NEW heard, Working(row, heard), row.session \in AllStops,
           row.event = "NONE",
           row.state \in {PENDING("DIRECT_START"), PENDING("PREPARED_START"), RUNNING}
    PROVE  DialogFits(row, heard, TRUE)
  <1>1. row.state # EMPTY /\ row.state # EVENT_PENDING
        /\ \A k \in Kinds : row.state # RESERVED(k)
        /\ row.state # PENDING("PREPARE")
    BY StatesDiffer, StatesExist
  <1>2. \A k \in Kinds : row.ticket # k
    BY KindsDiffer DEF Working
  <1>3. EventFits(row, heard)
    BY <1>1 DEF EventFits
  <1>4. RestoreFits(row)
    BY <1>1, KindsDiffer DEF RestoreFits
  <1> QED BY <1>1, <1>2, <1>3, <1>4, KindsDiffer DEF DialogFits, Working

\* What queueing an event makes of a row.
LEMMA QueueParts ==
    ASSUME NEW row \in DialogRecords, NEW e \in DialogEvents
    PROVE  LET q == queue_event(row, e) IN
           /\ q \in DialogRecords /\ q.state = EVENT_PENDING /\ q.event = e
           /\ q.generation = row.generation /\ q.ticket = row.ticket
           /\ q.ref = row.ref /\ q.program = row.program
           /\ q.started = row.started /\ q.session = row.session
  BY StatesExist DEF queue_event, DialogRecords

\* and one with an event to tell, if it is the next that may be told.
LEMMA QueueFits ==
    ASSUME NEW row, NEW heard, Working(row, heard), NEW e \in DialogEvents \ {"NONE"},
           e \in {"PREPARED", "ERROR_PREPARE"} => heard = <<>>,
           e = "STARTED" => ~row.started /\ row.session \in {"RUNNING", "EXITED"}
    PROVE  DialogFits(queue_event(row, e), heard, TRUE)
  <1> DEFINE q == queue_event(row, e)
  <1>1. /\ q \in DialogRecords /\ q.state = EVENT_PENDING /\ q.event = e
        /\ q.generation = row.generation /\ q.ticket = row.ticket
        /\ q.ref = row.ref /\ q.program = row.program
        /\ q.started = row.started /\ q.session = row.session
    BY QueueParts DEF Working
  <1> HIDE DEF q
  <1>2. /\ q.state # EMPTY /\ q.state # RUNNING
        /\ \A k : q.state # RESERVED(k) /\ q.state # PENDING(k)
    BY <1>1, StatesDiffer, StatesExist
  <1>3. \A k \in Kinds : q.ticket # k
    BY <1>1, KindsDiffer DEF Working
  <1>4. EventFits(q, heard)
    BY <1>1 DEF EventFits
  <1>5. RestoreFits(q)
    BY <1>2 DEF RestoreFits
  <1>6. DialogFits(q, heard, TRUE)
    BY <1>1, <1>2, <1>3, <1>4, <1>5 DEF DialogFits, Working
  <1> QED BY <1>6 DEF q

-----------------------------------------------------------------------------
\* The results of work are pairs.
LEMMA KeepParts ==
    ASSUME NEW row, NEW h
    PROVE  Keep(row, h).row = row /\ Keep(row, h).held = h
  BY DEF Keep

\* What stays as it was balances.
LEMMA KeepBalances ==
    ASSUME NEW row, NEW other, NEW h \in HeldRecords, row.ref \in BOOLEAN, row.program \in BOOLEAN,
           other.ref = row.ref, other.program = row.program
    PROVE  Balanced(row, h, Keep(other, h))
  <1>1. /\ h.documents \in Int /\ h.programs \in Int
        /\ Bit(row.ref) \in Int /\ Bit(row.program) \in Int
    BY DEF HeldRecords, Bit
  <1>2. Bit(other.ref) = Bit(row.ref) /\ Bit(other.program) = Bit(row.program)
    BY DEF Bit
  <1> HIDE DEF Bit
  <1> QED BY <1>1, <1>2, KeepParts DEF Balanced

\* A session stops somewhere else.
LEMMA SessionParts ==
    ASSUME NEW row \in DialogRecords, NEW s \in AllStops \cup {"NONE", "FAILED"}
    PROVE  LET q == [row EXCEPT !.session = s] IN
           /\ q \in DialogRecords /\ q.session = s /\ SameDialog(row, q)
           /\ q.ref = row.ref /\ q.program = row.program
  BY DEF DialogRecords, SameDialog

\* A session at work that stops somewhere else is still at work.
LEMMA SessionWorks ==
    ASSUME NEW row, NEW heard, Working(row, heard), NEW s \in AllStops \cup {"NONE", "FAILED"}
    PROVE  LET q == [row EXCEPT !.session = s] IN
           /\ Working(q, heard) /\ q.session = s /\ SameDialog(row, q)
           /\ q.ref = row.ref /\ q.program = row.program
  <1> DEFINE q == [row EXCEPT !.session = s]
  <1>1. /\ q \in DialogRecords /\ q.session = s /\ SameDialog(row, q)
        /\ q.ref = row.ref /\ q.program = row.program
    BY SessionParts DEF Working
  <1> HIDE DEF q
  <1>2. Working(q, heard)
    BY <1>1, SameWorks DEF Working
  <1> QED BY <1>1, <1>2 DEF q

\* Failed: the row tells of it.
LEMMA FailedFits ==
    ASSUME NEW row, NEW heard, Working(row, heard)
    PROVE  /\ DialogFits(Failed(row), heard, TRUE)
           /\ Failed(row).generation = row.generation
           /\ Failed(row).ref = row.ref /\ Failed(row).program = row.program
  <1>1. "ERROR_START" \in DialogEvents \ {"NONE"} /\ row \in DialogRecords
    BY DEF DialogEvents, Ends, Working
  <1> QED BY <1>1, QueueFits, QueueParts DEF Failed

StartStates == {PENDING("DIRECT_START"), PENDING("PREPARED_START"), RUNNING}

\* A start leaves the holdings alone.
LEMMA StartFits ==
    ASSUME ManagerAssumption, NEW row, NEW heard, NEW h, Working(row, heard),
           row.state \in StartStates, row.event = "NONE",
           NEW x \in start_current_session(row, h)
    PROVE  /\ x.held = h /\ x.row.ref = row.ref /\ x.row.program = row.program
           /\ x.row.generation = row.generation /\ DialogFits(x.row, heard, TRUE)
  <1> DEFINE at(s) == [row EXCEPT !.session = s]
  <1>1. ASSUME NEW s \in SessionStops, x = Keep(at(s), h)
        PROVE  /\ x.held = h /\ x.row.ref = row.ref /\ x.row.program = row.program
               /\ x.row.generation = row.generation /\ DialogFits(x.row, heard, TRUE)
    <2>1. s \in AllStops
      BY DEF ManagerAssumption, AllStops
    <2>2. /\ Working(at(s), heard) /\ at(s).session = s /\ SameDialog(row, at(s))
          /\ at(s).ref = row.ref /\ at(s).program = row.program
      BY <2>1, SessionWorks
    <2> HIDE DEF at
    <2>3. DialogFits(at(s), heard, TRUE)
      BY <2>1, <2>2, WorkingFits DEF SameDialog, StartStates
    <2>4. x.row = at(s) /\ x.held = h
      BY <1>1, KeepParts
    <2> QED BY <2>2, <2>3, <2>4 DEF SameDialog
  <1>2. CASE x = Keep(Failed(row), h)
    <2>1. x.row = Failed(row) /\ x.held = h
      BY <1>2, KeepParts
    <2> QED BY <2>1, FailedFits
  <1>3. CASE x = Keep(Failed(at("FAILED")), h)
    <2>1. /\ Working(at("FAILED"), heard) /\ SameDialog(row, at("FAILED"))
          /\ at("FAILED").ref = row.ref /\ at("FAILED").program = row.program
      BY SessionWorks
    <2> HIDE DEF at
    <2>2. x.row = Failed(at("FAILED")) /\ x.held = h
      BY <1>3, KeepParts
    <2> QED BY <2>1, <2>2, FailedFits DEF SameDialog
  <1> QED BY <1>1, <1>2, <1>3 DEF start_current_session

\* A row without session and document, and what it then no longer holds.
LEMMA DestroyParts ==
    ASSUME NEW row \in DialogRecords, NEW h \in HeldRecords
    PROVE  LET g == dialog_destroy_runtime(row, h) IN
           /\ g.row \in DialogRecords /\ SameDialog(row, g.row) /\ g.row.session = "NONE"
           /\ g.row.ref = FALSE /\ g.row.program = FALSE
           /\ g.row.hops = row.hops
           /\ g.held \in HeldRecords
           /\ g.held.documents = h.documents - Bit(row.ref)
           /\ g.held.programs = h.programs - Bit(row.program)
           /\ g.held.responses = h.responses /\ g.held.audio = h.audio
  <1> DEFINE q == [row EXCEPT !.session = "NONE", !.program = FALSE, !.ref = FALSE]
             k == [h EXCEPT !.programs = @ - (IF row.program THEN 1 ELSE 0),
                            !.documents = @ - (IF row.ref THEN 1 ELSE 0)]
  <1>1. /\ q \in DialogRecords /\ SameDialog(row, q) /\ q.session = "NONE"
        /\ q.ref = FALSE /\ q.program = FALSE /\ q.hops = row.hops
    BY DEF DialogRecords, SameDialog
  <1>2. /\ k \in HeldRecords /\ k.documents = h.documents - Bit(row.ref)
        /\ k.programs = h.programs - Bit(row.program)
        /\ k.responses = h.responses /\ k.audio = h.audio
    <2>1. Bit(row.ref) \in Int /\ Bit(row.program) \in Int
      BY DEF Bit
    <2>2. k = [h EXCEPT !.programs = @ - Bit(row.program), !.documents = @ - Bit(row.ref)]
      BY DEF Bit
    <2>3. h.programs - Bit(row.program) \in Int /\ h.documents - Bit(row.ref) \in Int
      BY <2>1 DEF HeldRecords
    <2>4. ASSUME NEW a \in Int, NEW b \in Int
          PROVE  LET m == [h EXCEPT !.programs = a, !.documents = b] IN
                 /\ m \in HeldRecords /\ m.documents = b /\ m.programs = a
                 /\ m.responses = h.responses /\ m.audio = h.audio
      BY DEF HeldRecords
    <2> HIDE DEF k
    <2> QED BY <2>2, <2>3, <2>4
  <1>3. dialog_destroy_runtime(row, h).row = q /\ dialog_destroy_runtime(row, h).held = k
    BY DEF dialog_destroy_runtime
  <1> HIDE DEF q, k
  <1> QED BY <1>1, <1>2, <1>3

\* The next document in the place of the last one, with one hop more.
LEMMA MovedParts ==
    ASSUME ManagerAssumption, NEW row \in DialogRecords, ~HopsSpent(row)
    PROVE  /\ Moved(row) \in DialogRecords /\ SameDialog(row, Moved(row))
           /\ Moved(row).ref = row.ref /\ Moved(row).program = row.program
  <1>1. row.hops + 1 \in 0 .. dm_max_navigation_hops
    BY DEF HopsSpent, DialogRecords, ManagerAssumption
  <1> QED BY <1>1 DEF Moved, DialogRecords, SameDialog

\* A document of the store, or a program of its own.
LEMMA TakenParts ==
    ASSUME NEW row \in DialogRecords
    PROVE  LET u == [row EXCEPT !.ref = TRUE]
               v == [row EXCEPT !.program = TRUE] IN
           /\ u \in DialogRecords /\ SameDialog(row, u) /\ u.ref = TRUE
           /\ u.program = row.program /\ u.hops = row.hops /\ u.session = row.session
           /\ v \in DialogRecords /\ SameDialog(row, v) /\ v.program = TRUE
           /\ v.ref = row.ref /\ v.hops = row.hops /\ v.session = row.session
  BY DEF DialogRecords, SameDialog

\* After a hop the row is at work on its next document.
LEMMA NextDocument ==
    ASSUME ManagerAssumption, NEW row, NEW heard, NEW h \in HeldRecords,
           Working(row, heard), ~HopsSpent(row)
    PROVE  LET g == dialog_destroy_runtime(row, h)
               u == Moved([g.row EXCEPT !.ref = TRUE])
               v == Moved([g.row EXCEPT !.program = TRUE]) IN
           /\ Working(u, heard) /\ SameDialog(row, u) /\ u.ref = TRUE /\ u.program = FALSE
           /\ Working(v, heard) /\ SameDialog(row, v) /\ v.ref = FALSE /\ v.program = TRUE
  <1> DEFINE g == dialog_destroy_runtime(row, h)
             s == [g.row EXCEPT !.ref = TRUE]
             t == [g.row EXCEPT !.program = TRUE]
  <1>1. /\ g.row \in DialogRecords /\ SameDialog(row, g.row)
        /\ g.row.ref = FALSE /\ g.row.program = FALSE /\ g.row.hops = row.hops
    BY DestroyParts DEF Working
  <1> HIDE DEF g
  <1>2. /\ s \in DialogRecords /\ SameDialog(g.row, s) /\ s.hops = row.hops
        /\ s.ref = TRUE /\ s.program = FALSE
        /\ t \in DialogRecords /\ SameDialog(g.row, t) /\ t.hops = row.hops
        /\ t.ref = FALSE /\ t.program = TRUE
    BY <1>1, TakenParts
  <1> HIDE DEF s, t
  <1>3. ASSUME NEW w \in DialogRecords, SameDialog(g.row, w), w.hops = row.hops,
               ~(w.ref /\ w.program)
        PROVE  /\ Working(Moved(w), heard) /\ SameDialog(row, Moved(w))
               /\ Moved(w).ref = w.ref /\ Moved(w).program = w.program
    <2>1. /\ Moved(w) \in DialogRecords /\ SameDialog(w, Moved(w))
          /\ Moved(w).ref = w.ref /\ Moved(w).program = w.program
      BY <1>3, MovedParts DEF HopsSpent
    <2>2. SameDialog(row, Moved(w))
      BY <1>1, <1>3, <2>1 DEF SameDialog
    <2>3. Working(Moved(w), heard)
      BY <1>3, <2>1, <2>2, SameWorks
    <2> QED BY <2>1, <2>2, <2>3
  <1> QED BY <1>2, <1>3 DEF s, t, g

-----------------------------------------------------------------------------
\* Every hand-off leaves a row that fits, and balances.

\* A row that may be handed off.
Handed(row, heard) ==
    Working(row, heard) /\ row.state \in StartStates /\ row.event = "NONE"

\* A start after the holdings were brought up to date moves the row.
LEMMA StartMoves ==
    ASSUME ManagerAssumption, NEW row, NEW heard, NEW h, NEW q, NEW k,
           Handed(q, heard), q.generation = row.generation, Balanced(row, h, Keep(q, k)),
           NEW x \in start_current_session(q, k)
    PROVE  Moves(row, h, heard, x)
  <1>1. /\ x.held = k /\ x.row.ref = q.ref /\ x.row.program = q.program
        /\ x.row.generation = q.generation /\ DialogFits(x.row, heard, TRUE)
    BY StartFits DEF Handed
  <1>2. Balanced(row, h, x)
    BY <1>1, KeepParts DEF Balanced
  <1> QED BY <1>1, <1>2 DEF Moves

\* So does a failure.
LEMMA FailureMoves ==
    ASSUME NEW row, NEW heard, NEW h \in HeldRecords, Working(row, heard)
    PROVE  Moves(row, h, heard, Keep(Failed(row), h))
  <1>1. /\ DialogFits(Failed(row), heard, TRUE) /\ Failed(row).generation = row.generation
        /\ Failed(row).ref = row.ref /\ Failed(row).program = row.program
    BY FailedFits
  <1>2. row.ref \in BOOLEAN /\ row.program \in BOOLEAN
    BY DEF Working, DialogRecords
  <1>3. Balanced(row, h, Keep(Failed(row), h))
    BY <1>1, <1>2, KeepBalances
  <1>4. Keep(Failed(row), h).row = Failed(row)
    BY KeepParts
  <1> QED BY <1>1, <1>3, <1>4 DEF Moves

\* The next document is taken before the last is let go.
LEMMA HopBalances ==
    ASSUME NEW row, NEW heard, NEW h \in HeldRecords, NEW k \in HeldRecords,
           Handed(row, heard), NEW q, Working(q, heard), SameDialog(row, q),
           k.documents = h.documents + Bit(q.ref), k.programs = h.programs + Bit(q.program),
           k.responses = h.responses, k.audio = h.audio
    PROVE  LET g == dialog_destroy_runtime(row, k) IN
           Handed(q, heard) /\ q.generation = row.generation
           /\ Balanced(row, h, Keep(q, g.held))
  <1> DEFINE g == dialog_destroy_runtime(row, k)
  <1>1. /\ g.held \in HeldRecords
        /\ g.held.documents = k.documents - Bit(row.ref)
        /\ g.held.programs = k.programs - Bit(row.program)
        /\ g.held.responses = k.responses /\ g.held.audio = k.audio
    BY DestroyParts DEF Handed, Working
  <1> HIDE DEF g
  <1>2. Handed(q, heard) /\ q.generation = row.generation
    BY DEF Handed, SameDialog
  <1>3. Keep(q, g.held).row = q /\ Keep(q, g.held).held = g.held
    BY KeepParts
  <1>4. Balanced(row, h, Keep(q, g.held))
    <2>0. \A b : Bit(b) \in Int
      BY DEF Bit
    <2>1. g.held.documents = h.documents + Bit(q.ref) - Bit(row.ref)
      BY <1>1, <2>0 DEF HeldRecords
    <2>2. g.held.programs = h.programs + Bit(q.program) - Bit(row.program)
      BY <1>1, <2>0 DEF HeldRecords
    <2>3. g.held.responses = h.responses /\ g.held.audio = h.audio
      BY <1>1
    <2> QED BY <1>1, <1>3, <2>1, <2>2, <2>3, Zenon DEF Balanced
  <1> QED BY <1>2, <1>4 DEF g

\* A navigation.
LEMMA NavigationMoves ==
    ASSUME ManagerAssumption, NEW row, NEW heard, NEW h \in HeldRecords, Handed(row, heard),
           NEW x \in follow_navigation(row, h)
    PROVE  Moves(row, h, heard, x)
  <1>1. CASE x = Keep(Failed(row), h)
    BY <1>1, FailureMoves DEF Handed
  <1>2. CASE ~HopsSpent(row) /\ x # Keep(Failed(row), h)
    <2> DEFINE k == [h EXCEPT !.documents = @ + 1]
               g == dialog_destroy_runtime(row, k)
               q == Moved([g.row EXCEPT !.ref = TRUE])
    <2>1. /\ k \in HeldRecords /\ k.documents = h.documents + 1
          /\ k.programs = h.programs + 0 /\ k.responses = h.responses /\ k.audio = h.audio
      BY DEF HeldRecords
    <2>2. x \in start_current_session(q, g.held)
      BY <1>2 DEF follow_navigation
    <2> HIDE DEF k
    <2>3. /\ Working(q, heard) /\ SameDialog(row, q) /\ q.ref = TRUE /\ q.program = FALSE
      <3>1. ~HopsSpent(row) /\ Working(row, heard) /\ k \in HeldRecords
        BY <1>2, <2>1 DEF Handed
      <3> QED BY <3>1, NextDocument, Zenon
    <2> HIDE DEF q
    <2>4. Bit(q.ref) = 1 /\ Bit(q.program) = 0
      BY <2>3 DEF Bit
    <2>5. Handed(q, heard) /\ q.generation = row.generation
          /\ Balanced(row, h, Keep(q, g.held))
      BY <2>1, <2>3, <2>4, HopBalances
    <2> QED BY <2>2, <2>5, StartMoves
  <1> QED BY <1>1, <1>2 DEF follow_navigation

\* Audio and response of a submission come and go.
LEMMA SubmitHoldings ==
    ASSUME NEW h \in HeldRecords, NEW audio \in {0, 1}
    PROVE  LET a == AnsweredResponse(Waiting(h, audio), audio)
               r == RefusedResponse(a)
               k == [a EXCEPT !.responses = @ - 1, !.programs = @ + 1] IN
           /\ r \in HeldRecords /\ r.documents = h.documents /\ r.programs = h.programs
           /\ r.responses = h.responses /\ r.audio = h.audio
           /\ k \in HeldRecords /\ k.documents = h.documents /\ k.programs = h.programs + 1
           /\ k.responses = h.responses /\ k.audio = h.audio
  <1> DEFINE w == Waiting(h, audio)
             a == AnsweredResponse(w, audio)
             r == RefusedResponse(a)
             k == [a EXCEPT !.responses = @ - 1, !.programs = @ + 1]
  <1>1. /\ w \in HeldRecords /\ w.documents = h.documents /\ w.programs = h.programs
        /\ w.responses = h.responses /\ w.audio = h.audio + audio
    BY DEF Waiting, HeldRecords
  <1> HIDE DEF w
  <1>2. /\ a \in HeldRecords /\ a.documents = h.documents /\ a.programs = h.programs
        /\ a.responses = h.responses + 1 /\ a.audio = w.audio - audio
    <2> DEFINE i == w.audio - audio
               j == w.responses + 1
    <2>1. i \in Int /\ j \in Int /\ j = h.responses + 1
      BY <1>1 DEF HeldRecords
    <2>2. a = [w EXCEPT !.audio = i, !.responses = j]
      BY DEF AnsweredResponse
    <2> HIDE DEF a, i, j
    <2>3. /\ a \in HeldRecords /\ a.audio = i /\ a.responses = j
          /\ a.documents = w.documents /\ a.programs = w.programs
      BY <1>1, <2>1, <2>2 DEF HeldRecords
    <2> QED BY <1>1, <2>1, <2>3 DEF i
  <1>3. a.audio = h.audio
    BY <1>1, <1>2 DEF HeldRecords
  <1> HIDE DEF a
  <1>4. /\ r \in HeldRecords /\ r.documents = h.documents /\ r.programs = h.programs
        /\ r.responses = a.responses - 1 /\ r.audio = h.audio
    BY <1>2, <1>3 DEF RefusedResponse, HeldRecords
  <1>5. /\ k \in HeldRecords /\ k.documents = h.documents /\ k.programs = a.programs + 1
        /\ k.responses = a.responses - 1 /\ k.audio = h.audio
    <2> DEFINE i == a.responses - 1
               j == a.programs + 1
    <2>1. i \in Int /\ j \in Int
      BY <1>2 DEF HeldRecords
    <2>2. k = [a EXCEPT !.responses = i, !.programs = j]
      OBVIOUS
    <2> HIDE DEF k, i, j
    <2>3. /\ k \in HeldRecords /\ k.responses = i /\ k.programs = j
          /\ k.documents = a.documents /\ k.audio = a.audio
      BY <1>2, <2>1, <2>2 DEF HeldRecords
    <2> QED BY <1>2, <1>3, <2>3 DEF i, j
  <1>6. a.responses - 1 = h.responses
    BY <1>2 DEF HeldRecords
  <1> HIDE DEF r, k
  <1> QED BY <1>2, <1>4, <1>5, <1>6 DEF r, k, a, w

\* A submission.
LEMMA SubmitMoves ==
    ASSUME ManagerAssumption, NEW row, NEW heard, NEW h \in HeldRecords, Handed(row, heard),
           NEW x \in follow_one_submit(row, h)
    PROVE  Moves(row, h, heard, x)
  <1>1. CASE x = Keep(Failed(row), h)
    BY <1>1, FailureMoves DEF Handed
  <1>2. ASSUME NEW audio \in {0, 1}, ~HopsSpent(row),
               x = Keep(Failed(row), RefusedResponse(AnsweredResponse(Waiting(h, audio), audio)))
        PROVE  Moves(row, h, heard, x)
    <2> DEFINE r == RefusedResponse(AnsweredResponse(Waiting(h, audio), audio))
    <2>1. /\ r \in HeldRecords /\ r.documents = h.documents /\ r.programs = h.programs
          /\ r.responses = h.responses /\ r.audio = h.audio
      BY SubmitHoldings
    <2>2. x = Keep(Failed(row), r)
      BY <1>2
    <2> HIDE DEF r
    <2>3. Moves(row, r, heard, x)
      BY <2>1, <2>2, FailureMoves DEF Handed
    <2> QED BY <2>1, <2>3 DEF Moves, Balanced
  <1>3. ASSUME NEW audio \in {0, 1}, ~HopsSpent(row),
               x \in Compiled(row, AnsweredResponse(Waiting(h, audio), audio))
        PROVE  Moves(row, h, heard, x)
    <2> DEFINE a == AnsweredResponse(Waiting(h, audio), audio)
               k == [a EXCEPT !.responses = @ - 1, !.programs = @ + 1]
               g == dialog_destroy_runtime(row, k)
               q == Moved([g.row EXCEPT !.program = TRUE])
    <2>1. /\ k \in HeldRecords /\ k.documents = h.documents /\ k.programs = h.programs + 1
          /\ k.responses = h.responses /\ k.audio = h.audio
      BY SubmitHoldings
    <2>2. x \in start_current_session(q, g.held)
      BY <1>3 DEF Compiled
    <2> HIDE DEF a, k
    <2>3. k.documents = h.documents + 0
      BY <2>1 DEF HeldRecords
    <2>4. /\ Working(q, heard) /\ SameDialog(row, q) /\ q.ref = FALSE /\ q.program = TRUE
      <3>1. ~HopsSpent(row) /\ Working(row, heard) /\ k \in HeldRecords
        BY <1>3, <2>1 DEF Handed
      <3> QED BY <3>1, NextDocument, Zenon
    <2> HIDE DEF q
    <2>5. Bit(q.ref) = 0 /\ Bit(q.program) = 1
      BY <2>4 DEF Bit
    <2>6. Handed(q, heard) /\ q.generation = row.generation
          /\ Balanced(row, h, Keep(q, g.held))
      BY <2>1, <2>3, <2>4, <2>5, HopBalances
    <2> QED BY <2>2, <2>6, StartMoves
  <1> QED BY <1>1, <1>2, <1>3 DEF follow_one_submit

\* A script.
LEMMA ScriptMoves ==
    ASSUME ManagerAssumption, NEW row, NEW heard, NEW h \in HeldRecords, Handed(row, heard),
           NEW x \in execute_script(row, h)
    PROVE  Moves(row, h, heard, x)
  <1>1. CASE x = Keep(Failed(row), h)
    BY <1>1, FailureMoves DEF Handed
  <1>2. CASE ~(row.scripts >= max_script_steps) /\ x # Keep(Failed(row), h)
    <2> DEFINE q == [row EXCEPT !.scripts = @ + 1]
               t(s) == [row EXCEPT !.scripts = @ + 1, !.session = s]
    <2>1. row \in DialogRecords /\ row.scripts + 1 \in 0 .. max_script_steps
      BY <1>2 DEF Handed, Working, DialogRecords, ManagerAssumption
    <2>2. /\ q \in DialogRecords /\ SameDialog(row, q)
          /\ q.ref = row.ref /\ q.program = row.program
      BY <2>1 DEF DialogRecords, SameDialog
    <2>3. \A s : t(s) = [q EXCEPT !.session = s]
      BY <2>1 DEF DialogRecords
    <2>4. /\ Handed(q, heard) /\ q.generation = row.generation
      BY <2>2, SameWorks DEF Handed, SameDialog, Working
    <2>5. Balanced(row, h, Keep(q, h))
      BY <2>1, <2>2, KeepBalances DEF DialogRecords
    <2>6. ASSUME NEW s \in SessionStops, x = Keep(t(s), h) PROVE x \in start_current_session(q, h)
      BY <2>3, <2>6 DEF start_current_session
    <2>7. ASSUME x = Keep(Failed(q), h) PROVE x \in start_current_session(q, h)
      BY <2>7 DEF start_current_session
    <2>8. x \in start_current_session(q, h)
      BY <1>2, <2>6, <2>7 DEF execute_script
    <2> HIDE DEF q
    <2> QED BY <2>4, <2>5, <2>8, StartMoves
  <1> QED BY <1>1, <1>2 DEF execute_script

\* A session that is not handed off has started, or ended, or rests.
LEMMA RestMoves ==
    ASSUME NEW row, NEW heard, NEW h \in HeldRecords, Handed(row, heard),
           row.session \in {"RUNNING", "EXITED"}, NEW x,
           x = Keep(IF ~row.started THEN queue_event(row, "STARTED")
                    ELSE IF row.session = "EXITED" THEN queue_event(row, "EXIT")
                    ELSE [row EXCEPT !.state = RUNNING], h)
    PROVE  Moves(row, h, heard, x)
  <1>1. /\ Working(row, heard) /\ row \in DialogRecords
        /\ row.ref \in BOOLEAN /\ row.program \in BOOLEAN
        /\ {"STARTED", "EXIT"} \subseteq DialogEvents \ {"NONE"}
    BY DEF Handed, Working, DialogRecords, DialogEvents, Ends
  <1>2. ASSUME NEW e \in {"STARTED", "EXIT"}, x = Keep(queue_event(row, e), h),
               e = "STARTED" => ~row.started
        PROVE  Moves(row, h, heard, x)
    <2> DEFINE q == queue_event(row, e)
    <2>1. DialogFits(q, heard, TRUE)
      BY <1>1, <1>2, QueueFits
    <2>2. q.generation = row.generation /\ q.ref = row.ref /\ q.program = row.program
      BY <1>1, QueueParts
    <2> HIDE DEF q
    <2>3. Balanced(row, h, Keep(q, h))
      BY <1>1, <2>2, KeepBalances
    <2>4. x = Keep(q, h) /\ x.row = q
      BY <1>2, KeepParts DEF q
    <2> QED BY <2>1, <2>2, <2>3, <2>4 DEF Moves
  <1>3. ASSUME row.started, row.session # "EXITED", x = Keep([row EXCEPT !.state = RUNNING], h)
        PROVE  Moves(row, h, heard, x)
    <2> DEFINE q == [row EXCEPT !.state = RUNNING]
    <2>1. /\ q \in DialogRecords /\ q.state = RUNNING /\ q.generation = row.generation
          /\ q.ref = row.ref /\ q.program = row.program /\ q.ticket = row.ticket
          /\ q.started = row.started /\ q.session = row.session /\ q.event = row.event
      BY <1>1, StatesExist DEF DialogRecords
    <2> HIDE DEF q
    <2>2. Working(q, heard) /\ q.session \in AllStops /\ q.event = "NONE"
      BY <1>1, <1>3, <2>1 DEF Working, Handed, AllStops
    <2>3. DialogFits(q, heard, TRUE)
      BY <2>1, <2>2, WorkingFits
    <2>4. Balanced(row, h, Keep(q, h))
      BY <1>1, <2>1, KeepBalances
    <2>5. x = Keep(q, h) /\ x.row = q
      BY <1>3, KeepParts DEF q
    <2> QED BY <2>1, <2>3, <2>4, <2>5 DEF Moves
  <1> QED BY <1>2, <1>3

\* Every turn of the hand-offs moves the row.
LEMMA HandoffMoves ==
    ASSUME ManagerAssumption, NEW row, NEW heard, NEW h \in HeldRecords, Handed(row, heard),
           row.session \in AllStops, NEW x \in follow_session_handoffs(row, h)
    PROVE  Moves(row, h, heard, x)
  <1>1. CASE row.session = "SCRIPTING"
    BY <1>1, ScriptMoves DEF follow_session_handoffs
  <1>2. CASE row.session = "SUBMITTING"
    BY <1>2, SubmitMoves DEF follow_session_handoffs
  <1>3. CASE row.session = "NAVIGATING"
    BY <1>3, NavigationMoves DEF follow_session_handoffs
  <1>4. CASE row.session \in {"RUNNING", "EXITED"}
    BY <1>4, RestMoves DEF follow_session_handoffs
  <1> QED BY <1>1, <1>2, <1>3, <1>4 DEF AllStops

-----------------------------------------------------------------------------
\* Every row that run_ready takes up is moved on.

\* A document, or a failure to get one.
LEMMA LoadParts ==
    ASSUME NEW row, NEW heard, NEW h \in HeldRecords, Working(row, heard),
           row.ref = FALSE, row.program = FALSE, NEW e \in {"ERROR_PREPARE", "ERROR_START"},
           NEW x \in load_document_program(row, h, e)
    PROVE  \/ x = Keep(queue_event(row, e), h) /\ x.row.state = EVENT_PENDING
           \/ /\ x = Keep(x.row, x.held) /\ x.row.state # EVENT_PENDING
              /\ Working(x.row, heard) /\ SameDialog(row, x.row)
              /\ Balanced(row, h, Keep(x.row, x.held))
  <1>1. row \in DialogRecords /\ e \in DialogEvents
    BY DEF Working, DialogEvents, Ends
  <1>2. CASE x = Keep(queue_event(row, e), h)
    BY <1>1, <1>2, QueueParts, KeepParts
  <1> DEFINE u == [row EXCEPT !.ref = TRUE]
             v == [row EXCEPT !.program = TRUE]
             d == [h EXCEPT !.documents = @ + 1]
             p == [h EXCEPT !.programs = @ + 1]
  <1>3. /\ u \in DialogRecords /\ SameDialog(row, u) /\ u.ref = TRUE /\ u.program = FALSE
        /\ v \in DialogRecords /\ SameDialog(row, v) /\ v.program = TRUE /\ v.ref = FALSE
    BY <1>1, TakenParts
  <1>4. /\ d \in HeldRecords /\ d.documents = h.documents + 1 /\ d.programs = h.programs
        /\ d.responses = h.responses /\ d.audio = h.audio
    BY DEF HeldRecords
  <1>5. /\ p \in HeldRecords /\ p.documents = h.documents /\ p.programs = h.programs + 1
        /\ p.responses = h.responses /\ p.audio = h.audio
    BY DEF HeldRecords
  <1>6. x = Keep(queue_event(row, e), h) \/ x = Keep(u, d) \/ x = Keep(v, p)
    BY DEF load_document_program
  <1> HIDE DEF u, v, d, p
  <1>7. row.state # EVENT_PENDING
    BY StatesDiffer, StatesExist DEF Working
  <1>8. Working(u, heard) /\ Working(v, heard)
    BY <1>3, SameWorks
  <1>9. Bit(u.ref) = 1 /\ Bit(u.program) = 0 /\ Bit(v.ref) = 0 /\ Bit(v.program) = 1
        /\ Bit(row.ref) = 0 /\ Bit(row.program) = 0
    BY <1>3 DEF Bit
  <1>10. Balanced(row, h, Keep(u, d))
    <2>1. d.documents = h.documents + 1 - 0 /\ d.programs = h.programs + 0 - 0
      BY <1>4 DEF HeldRecords
    <2> QED BY <1>4, <1>9, <2>1, KeepParts DEF Balanced
  <1>11. Balanced(row, h, Keep(v, p))
    <2>1. p.documents = h.documents + 0 - 0 /\ p.programs = h.programs + 1 - 0
      BY <1>5 DEF HeldRecords
    <2> QED BY <1>5, <1>9, <2>1, KeepParts DEF Balanced
  <1>12. CASE x = Keep(u, d)
    <2>1. x.row = u /\ x.held = d
      BY <1>12, KeepParts
    <2> QED BY <1>3, <1>7, <1>8, <1>10, <1>12, <2>1 DEF SameDialog
  <1>13. CASE x = Keep(v, p)
    <2>1. x.row = v /\ x.held = p
      BY <1>13, KeepParts
    <2> QED BY <1>3, <1>7, <1>8, <1>11, <1>13, <2>1 DEF SameDialog
  <1> QED BY <1>2, <1>6, <1>12, <1>13

\* An event about what the row has come to.
LEMMA QueueMoves ==
    ASSUME NEW row, NEW heard, NEW h, NEW q, NEW k, Working(q, heard),
           q.generation = row.generation, Balanced(row, h, Keep(q, k)),
           NEW e \in {"PREPARED", "ERROR_PREPARE", "ERROR_START", "EXIT"},
           e \in {"PREPARED", "ERROR_PREPARE"} => heard = <<>>
    PROVE  Moves(row, h, heard, Keep(queue_event(q, e), k))
  <1> DEFINE y == queue_event(q, e)
  <1>1. e \in DialogEvents \ {"NONE"} /\ e # "STARTED" /\ q \in DialogRecords
    BY DEF DialogEvents, Ends, Working
  <1>2. DialogFits(y, heard, TRUE)
    BY <1>1, QueueFits
  <1>3. y.generation = q.generation /\ y.ref = q.ref /\ y.program = q.program
    BY <1>1, QueueParts
  <1> HIDE DEF y
  <1>4. /\ Keep(y, k).row = y /\ Keep(y, k).held = k
        /\ Keep(q, k).row = q /\ Keep(q, k).held = k
    BY KeepParts
  <1>5. Balanced(row, h, Keep(y, k))
    BY <1>3, <1>4 DEF Balanced
  <1>6. Moves(row, h, heard, Keep(y, k))
    BY <1>2, <1>3, <1>4, <1>5 DEF Moves
  <1> QED BY <1>6 DEF y

\* A row that waits to be taken up, or runs, can be worked on.
LEMMA FitsWorks ==
    ASSUME NEW row, NEW heard, NEW at \in BOOLEAN, DialogFits(row, heard, at),
           row.state \in {PENDING(k) : k \in Kinds} \cup {RUNNING}
    PROVE  /\ Working(row, heard)
           /\ at => row.session \in AllStops /\ Handed(row, heard)
           /\ row.state \in StartStates => Handed(row, heard)
  <1>1. /\ row.state # EMPTY /\ row.state # EVENT_PENDING
        /\ \A k : row.state # RESERVED(k)
    BY StatesDiffer, StatesExist
  <1>2. row.ticket = "NONE"
    BY <1>1 DEF DialogFits, DialogRecords
  <1>3. Working(row, heard)
    BY <1>1, <1>2 DEF Working, DialogFits
  <1>4. row.state \in StartStates => row.event = "NONE"
    <2> SUFFICES ASSUME row.state \in StartStates PROVE row.event = "NONE"
      OBVIOUS
    <2>1. row.state # PENDING("TERMINATE")
      BY StatesDiffer, StatesExist DEF StartStates
    <2> QED BY <1>1, <2>1 DEF DialogFits, EventFits
  <1>5. at => row.state \in StartStates /\ row.session \in AllStops
    BY <1>1 DEF DialogFits, StartStates
  <1> QED BY <1>3, <1>4, <1>5 DEF Handed

\* What run_ready makes of a row it takes up.
LEMMA ProgressMoves ==
    ASSUME ManagerAssumption, NEW row, NEW heard, NEW h \in HeldRecords,
           DialogFits(row, heard, FALSE),
           row.state \in {PENDING(k) : k \in Kinds} \cup {RUNNING},
           NEW x \in progress_row(row, h)
    PROVE  Moves(row, h, heard, x)
  <1>1. /\ Working(row, heard) /\ (row.state \in StartStates => Handed(row, heard))
        /\ row \in DialogRecords /\ row.ref \in BOOLEAN /\ row.program \in BOOLEAN
    BY FitsWorks DEF Working, DialogRecords
  <1>2. Balanced(row, h, Keep(row, h))
    BY <1>1, KeepBalances
  <1>3. /\ RUNNING # PENDING("PREPARE") /\ RUNNING # PENDING("DIRECT_START")
        /\ RUNNING # PENDING("PREPARED_START") /\ RUNNING # PENDING("TERMINATE")
        /\ PENDING("PREPARE") # PENDING("DIRECT_START")
        /\ PENDING("PREPARE") # PENDING("PREPARED_START")
        /\ PENDING("PREPARE") # PENDING("TERMINATE")
        /\ PENDING("DIRECT_START") # PENDING("PREPARED_START")
        /\ PENDING("DIRECT_START") # PENDING("TERMINATE")
        /\ PENDING("PREPARED_START") # PENDING("TERMINATE")
    BY StatesDiffer, StatesExist
  <1>4. CASE row.state = PENDING("PREPARE")
    <2>1. heard = <<>> /\ row.ref = FALSE /\ row.program = FALSE
      BY <1>1, <1>4 DEF DialogFits
    <2> DEFINE loaded == load_document_program(row, h, "ERROR_PREPARE")
    <2>2. x \in (loaded \ Loaded(loaded))
                \cup {Keep(queue_event(y.row, "PREPARED"), y.held) : y \in Loaded(loaded)}
      BY <1>3, <1>4 DEF progress_row
    <2> HIDE DEF loaded
    <2>3. CASE x \in loaded \ Loaded(loaded)
      <3>1. x \in loaded /\ x.row.state = EVENT_PENDING
        BY <2>3 DEF Loaded
      <3>2. x = Keep(queue_event(row, "ERROR_PREPARE"), h)
        BY <1>1, <2>1, <3>1, LoadParts DEF loaded
      <3> QED BY <1>1, <1>2, <2>1, <3>2, QueueMoves
    <2>4. ASSUME NEW y \in Loaded(loaded), x = Keep(queue_event(y.row, "PREPARED"), y.held)
          PROVE  Moves(row, h, heard, x)
      <3>1. y \in loaded /\ y.row.state # EVENT_PENDING
        BY DEF Loaded
      <3>2. /\ Working(y.row, heard) /\ SameDialog(row, y.row)
            /\ Balanced(row, h, Keep(y.row, y.held))
        BY <1>1, <2>1, <3>1, LoadParts DEF loaded
      <3>3. y.row.generation = row.generation
        BY <3>2 DEF SameDialog
      <3> QED BY <2>1, <2>4, <3>2, <3>3, QueueMoves
    <2> QED BY <2>2, <2>3, <2>4
  <1>5. CASE row.state = PENDING("DIRECT_START")
    <2>1. row.ref = FALSE /\ row.program = FALSE /\ row.event = "NONE"
      BY <1>1, <1>5 DEF DialogFits, Handed, StartStates
    <2> DEFINE loaded == load_document_program(row, h, "ERROR_START")
    <2>2. x \in (loaded \ Loaded(loaded))
                \cup UNION {start_current_session(y.row, y.held) : y \in Loaded(loaded)}
      BY <1>3, <1>5 DEF progress_row, StartLoaded
    <2> HIDE DEF loaded
    <2>3. CASE x \in loaded \ Loaded(loaded)
      <3>1. x \in loaded /\ x.row.state = EVENT_PENDING
        BY <2>3 DEF Loaded
      <3>2. x = Keep(queue_event(row, "ERROR_START"), h)
        BY <1>1, <2>1, <3>1, LoadParts DEF loaded
      <3> QED BY <1>1, <1>2, <3>2, QueueMoves
    <2>4. ASSUME NEW y \in Loaded(loaded), x \in start_current_session(y.row, y.held)
          PROVE  Moves(row, h, heard, x)
      <3>1. y \in loaded /\ y.row.state # EVENT_PENDING
        BY DEF Loaded
      <3>2. /\ Working(y.row, heard) /\ SameDialog(row, y.row)
            /\ Balanced(row, h, Keep(y.row, y.held))
        BY <1>1, <2>1, <3>1, LoadParts DEF loaded
      <3>3. y.row.generation = row.generation /\ Handed(y.row, heard)
        BY <1>5, <2>1, <3>2 DEF SameDialog, Handed, StartStates
      <3> QED BY <2>4, <3>2, <3>3, StartMoves
    <2> QED BY <2>2, <2>3, <2>4
  <1>6. CASE row.state = PENDING("PREPARED_START")
    <2>1. x \in start_current_session(row, h)
      BY <1>3, <1>6 DEF progress_row
    <2> QED BY <1>1, <1>2, <1>6, <2>1, StartMoves DEF StartStates
  <1>7. CASE row.state = PENDING("TERMINATE")
    <2> DEFINE g == dialog_destroy_runtime(row, h)
    <2>1. x = Keep(queue_event(g.row, "EXIT"), g.held)
      BY <1>3, <1>7 DEF progress_row, Terminated
    <2>2. /\ g.row \in DialogRecords /\ SameDialog(row, g.row)
          /\ g.row.ref = FALSE /\ g.row.program = FALSE
          /\ g.held \in HeldRecords
          /\ g.held.documents = h.documents - Bit(row.ref)
          /\ g.held.programs = h.programs - Bit(row.program)
          /\ g.held.responses = h.responses /\ g.held.audio = h.audio
      BY <1>1, DestroyParts
    <2> HIDE DEF g
    <2>3. Working(g.row, heard) /\ g.row.generation = row.generation
      BY <1>1, <2>2, SameWorks DEF SameDialog
    <2>4. Balanced(row, h, Keep(g.row, g.held))
      <3>1. Bit(g.row.ref) = 0 /\ Bit(g.row.program) = 0 /\ \A b : Bit(b) \in Int
        BY <2>2 DEF Bit
      <3>2. /\ g.held.documents = h.documents + Bit(g.row.ref) - Bit(row.ref)
            /\ g.held.programs = h.programs + Bit(g.row.program) - Bit(row.program)
        BY <2>2, <3>1 DEF HeldRecords
      <3>3. Keep(g.row, g.held).row = g.row /\ Keep(g.row, g.held).held = g.held
        BY KeepParts
      <3> QED BY <2>2, <3>2, <3>3, Zenon DEF Balanced
    <2> QED BY <2>1, <2>3, <2>4, QueueMoves
  <1>8. CASE row.state = RUNNING
    <2>1. x \in {Keep(Failed(row), h)}
                \cup {Keep([row EXCEPT !.session = s], h) : s \in SessionStops}
      BY <1>3, <1>8 DEF progress_row
    <2>2. x \in start_current_session(row, h)
      BY <2>1 DEF start_current_session
    <2> QED BY <1>1, <1>2, <1>8, <2>2, StartMoves DEF StartStates
  <1> QED BY <1>4, <1>5, <1>6, <1>7, <1>8 DEF Kinds, Creating

-----------------------------------------------------------------------------
\* Telling an event, and emptying a row.

\* An empty row fits whatever was heard.
LEMMA FreeFits ==
    ASSUME ManagerAssumption, NEW g \in 0 .. MaxDialogs, NEW heard
    PROVE  /\ DialogFits(FreeRow(g), heard, FALSE) /\ FreeRow(g) \in DialogRecords
           /\ FreeRow(g).generation = g /\ FreeRow(g).state = EMPTY
           /\ FreeRow(g).ticket = "NONE" /\ FreeRow(g).ref = FALSE /\ FreeRow(g).program = FALSE
  <1> DEFINE q == FreeRow(g)
  <1>1. /\ q.generation = g /\ q.state = EMPTY /\ q.event = "NONE" /\ q.ticket = "NONE"
        /\ q.ref = FALSE /\ q.program = FALSE /\ q.session = "NONE" /\ q.started = FALSE
    BY DEF FreeRow
  <1>2. q \in DialogRecords
    <2>1. EMPTY \in DialogStates
      BY StatesExist
    <2>2. 0 \in 0 .. dm_max_navigation_hops /\ 0 \in 0 .. max_script_steps
      BY DEF ManagerAssumption
    <2>3. "NONE" \in DialogEvents
      BY DEF DialogEvents
    <2> QED BY <2>1, <2>2, <2>3 DEF FreeRow, DialogRecords
  <1>3. q.state = EMPTY => q = FreeRow(q.generation)
    BY <1>1
  <1> HIDE DEF q
  <1>4. /\ q.state # PREPARED /\ q.state # RUNNING /\ q.state # EVENT_PENDING
        /\ \A k : q.state # RESERVED(k) /\ q.state # PENDING(k)
    BY <1>1, StatesDiffer, StatesExist
  <1>5. \A k \in Kinds : q.ticket # k
    BY <1>1, KindsDiffer
  <1>6. EventFits(q, heard) /\ RestoreFits(q)
    BY <1>1, <1>4 DEF EventFits, RestoreFits
  <1>7. DialogFits(q, heard, FALSE)
    BY <1>1, <1>2, <1>3, <1>4, <1>5, <1>6 DEF DialogFits
  <1> QED BY <1>1, <1>2, <1>7 DEF q

\* A row is emptied: nothing of it is held.
LEMMA ClearMoves ==
    ASSUME ManagerAssumption, NEW row \in DialogRecords, NEW h \in HeldRecords, NEW heard
    PROVE  LET x == dialog_clear(row, h) IN
           /\ x.row = FreeRow(row.generation) /\ x.row.generation = row.generation
           /\ Balanced(row, h, x) /\ DialogFits(x.row, heard, FALSE)
           /\ x.row.state = EMPTY /\ x.row.ticket = "NONE"
  <1> DEFINE x == dialog_clear(row, h)
             g == dialog_destroy_runtime(row, h)
  <1>1. x.row = FreeRow(row.generation) /\ x.held = g.held
    BY DEF dialog_clear
  <1>2. /\ g.held \in HeldRecords
        /\ g.held.documents = h.documents - Bit(row.ref)
        /\ g.held.programs = h.programs - Bit(row.program)
        /\ g.held.responses = h.responses /\ g.held.audio = h.audio
    BY DestroyParts
  <1> HIDE DEF g, x
  <1>3. row.generation \in 0 .. MaxDialogs
    BY DEF DialogRecords
  <1>4. /\ DialogFits(x.row, heard, FALSE) /\ x.row.generation = row.generation
        /\ x.row.state = EMPTY /\ x.row.ticket = "NONE"
        /\ x.row.ref = FALSE /\ x.row.program = FALSE
    BY <1>1, <1>3, FreeFits
  <1>5. Bit(x.row.ref) = 0 /\ Bit(x.row.program) = 0 /\ \A b : Bit(b) \in Int
    BY <1>4 DEF Bit
  <1>6. /\ x.held.documents = h.documents + Bit(x.row.ref) - Bit(row.ref)
        /\ x.held.programs = h.programs + Bit(x.row.program) - Bit(row.program)
    BY <1>1, <1>2, <1>5 DEF HeldRecords
  <1>7. Balanced(row, h, x)
    BY <1>1, <1>2, <1>6, Zenon DEF Balanced
  <1> QED BY <1>1, <1>4, <1>7 DEF x

\* A row that rests: prepared, or running.
LEMMA RestingFits ==
    ASSUME NEW q \in DialogRecords, NEW heard \in Going, ~(q.ref /\ q.program),
           q.generation # 0, q.ticket = "NONE", q.event = "NONE",
           q.started <=> heard \in HasStarted,
           q.state = PREPARED \/ (q.state = RUNNING /\ q.started /\ q.session = "RUNNING")
    PROVE  DialogFits(q, heard, FALSE)
  <1>1. /\ q.state # EMPTY /\ q.state # EVENT_PENDING
        /\ \A k : q.state # RESERVED(k) /\ q.state # PENDING(k)
    BY StatesDiffer, StatesExist
  <1>2. q.state = RUNNING => q.started /\ q.session = "RUNNING"
    BY StatesDiffer
  <1>3. \A k \in Kinds : q.ticket # k
    BY KindsDiffer
  <1>4. EventFits(q, heard) /\ RestoreFits(q)
    BY <1>1 DEF EventFits, RestoreFits
  <1> QED BY <1>1, <1>2, <1>3, <1>4 DEF DialogFits

\* What telling the queued event leaves of the row.
LEMMA PublishMoves ==
    ASSUME ManagerAssumption, NEW row, NEW heard, NEW h \in HeldRecords,
           DialogFits(row, heard, TRUE), row.state = EVENT_PENDING
    PROVE  LET x == Published(row, h)
               next_heard == Append(heard, row.event) IN
           /\ Balanced(row, h, x) /\ x.row.generation = row.generation
           /\ x.row.ticket = "NONE" /\ next_heard \in Histories
           /\ x.row.state = EVENT_PENDING => DialogFits(x.row, next_heard, TRUE)
           /\ x.row.state # EVENT_PENDING => DialogFits(x.row, next_heard, FALSE)
           /\ x.row.state = EMPTY =>
                 \E g \in Going, e \in Ends : next_heard = Append(g, e)
  <1> DEFINE x == Published(row, h)
             next_heard == Append(heard, row.event)
  <1>1. /\ row \in DialogRecords /\ heard \in Going /\ row.generation # 0
        /\ (row.started <=> heard \in HasStarted) /\ ~(row.ref /\ row.program)
        /\ row.event \in DialogEvents \ {"NONE"} /\ row.ref \in BOOLEAN /\ row.program \in BOOLEAN
        /\ (row.event \in {"PREPARED", "ERROR_PREPARE"} => heard = <<>>)
        /\ (row.event = "STARTED" => ~row.started /\ row.session \in {"RUNNING", "EXITED"})
    BY StatesDiffer DEF DialogFits, EventFits, DialogRecords
  <1>2. row.ticket = "NONE"
    BY StatesDiffer, StatesExist DEF DialogFits, DialogRecords
  <1>3. CASE row.event = "PREPARED"
    <2> DEFINE q == [row EXCEPT !.event = "NONE", !.state = PREPARED]
    <2>1. /\ q \in DialogRecords /\ q.event = "NONE" /\ q.state = PREPARED
          /\ q.generation = row.generation /\ q.ticket = row.ticket
          /\ q.ref = row.ref /\ q.program = row.program /\ q.started = row.started
      BY <1>1, StatesExist DEF DialogRecords, DialogEvents
    <2>2. x = Keep(q, h) /\ next_heard = Append(<<>>, "PREPARED")
      BY <1>1, <1>3 DEF Published
    <2> HIDE DEF q, x, next_heard
    <2>3. x.row = q /\ next_heard \in Going \ HasStarted /\ next_heard \in Histories
          /\ ~row.started
      BY <1>1, <1>3, <2>2, KeepParts, HistoriesGoOn
    <2>4. DialogFits(q, next_heard, FALSE)
      BY <1>1, <1>2, <2>1, <2>3, RestingFits
    <2>5. Balanced(row, h, Keep(q, h))
      BY <1>1, <2>1, KeepBalances
    <2>6. q.state # EVENT_PENDING /\ q.state # EMPTY
      BY <2>1, StatesDiffer
    <2>7. /\ Balanced(row, h, x) /\ x.row.generation = row.generation
          /\ x.row.ticket = "NONE" /\ next_heard \in Histories
          /\ DialogFits(x.row, next_heard, FALSE)
          /\ x.row.state # EVENT_PENDING /\ x.row.state # EMPTY
      BY <1>2, <2>1, <2>2, <2>3, <2>4, <2>5, <2>6
    <2> QED BY <2>7 DEF x, next_heard
  <1>4. CASE row.event = "STARTED"
    <2> DEFINE s == [row EXCEPT !.started = TRUE]
               q == [s EXCEPT !.event = "NONE", !.state = RUNNING]
               y == queue_event(s, "EXIT")
    <2>1. /\ s \in DialogRecords /\ s.started = TRUE
          /\ s.generation = row.generation /\ s.ticket = row.ticket
          /\ s.ref = row.ref /\ s.program = row.program /\ s.session = row.session
      BY <1>1 DEF DialogRecords
    <2>2. "EXIT" \in DialogEvents /\ "NONE" \in DialogEvents
      BY DEF DialogEvents, Ends
    <2>3. x = Keep(IF row.session = "EXITED" THEN y ELSE q, h)
          /\ next_heard = Append(heard, "STARTED")
      BY <1>3, <1>4 DEF Published
    <2> HIDE DEF s, x, next_heard
    <2>4. next_heard \in Going /\ next_heard \in HasStarted /\ next_heard \in Histories
      BY <1>1, <1>4, <2>3, HistoriesGoOn
    <2>5. CASE row.session = "EXITED"
      <3>1. /\ y \in DialogRecords /\ y.state = EVENT_PENDING /\ y.event = "EXIT"
            /\ y.generation = row.generation /\ y.ticket = row.ticket
            /\ y.ref = row.ref /\ y.program = row.program /\ y.started = TRUE
        BY <2>1, <2>2, QueueParts
      <3> HIDE DEF y
      <3>2. /\ y.state # EMPTY /\ y.state # RUNNING
            /\ \A k : y.state # RESERVED(k) /\ y.state # PENDING(k)
        BY <3>1, StatesDiffer, StatesExist
      <3>3. \A k \in Kinds : y.ticket # k
        BY <1>2, <3>1, KindsDiffer
      <3>4. EventFits(y, next_heard) /\ RestoreFits(y)
        BY <3>1, <3>2 DEF EventFits, RestoreFits
      <3>5. DialogFits(y, next_heard, TRUE)
        BY <1>1, <2>4, <3>1, <3>2, <3>3, <3>4 DEF DialogFits
      <3>6. Balanced(row, h, Keep(y, h))
        BY <1>1, <3>1, KeepBalances
      <3>7. x = Keep(y, h) /\ x.row = y
        BY <2>3, <2>5, KeepParts
      <3>8. /\ Balanced(row, h, x) /\ x.row.generation = row.generation
            /\ x.row.ticket = "NONE" /\ x.row.state = EVENT_PENDING /\ x.row.state # EMPTY
            /\ DialogFits(x.row, next_heard, TRUE)
        BY <1>2, <3>1, <3>2, <3>5, <3>6, <3>7
      <3> QED BY <2>4, <3>8 DEF x, next_heard
    <2>6. CASE row.session # "EXITED"
      <3>1. /\ q \in DialogRecords /\ q.state = RUNNING /\ q.event = "NONE"
            /\ q.generation = row.generation /\ q.ticket = row.ticket
            /\ q.ref = row.ref /\ q.program = row.program /\ q.started = TRUE
            /\ q.session = row.session
        BY <2>1, <2>2, StatesExist DEF DialogRecords
      <3> HIDE DEF q
      <3>2. row.session = "RUNNING"
        BY <1>1, <1>4, <2>6
      <3>3. DialogFits(q, next_heard, FALSE)
        BY <1>1, <1>2, <2>4, <3>1, <3>2, RestingFits
      <3>4. Balanced(row, h, Keep(q, h))
        BY <1>1, <3>1, KeepBalances
      <3>5. x = Keep(q, h) /\ x.row = q
        BY <2>3, <2>6, KeepParts
      <3>6. q.state # EVENT_PENDING /\ q.state # EMPTY
        BY <3>1, StatesDiffer
      <3>7. /\ Balanced(row, h, x) /\ x.row.generation = row.generation
            /\ x.row.ticket = "NONE" /\ x.row.state # EVENT_PENDING /\ x.row.state # EMPTY
            /\ DialogFits(x.row, next_heard, FALSE)
        BY <1>2, <3>1, <3>3, <3>4, <3>5, <3>6
      <3> QED BY <2>4, <3>7 DEF x, next_heard
    <2> QED BY <2>5, <2>6
  <1>5. CASE row.event \in Ends
    <2>1. x = dialog_clear(row, h)
      BY <1>5 DEF Published, Ends
    <2>2. next_heard \in Histories
      BY <1>1, <1>5, HistoriesGoOn DEF Ends
    <2>3. \E g \in Going, e \in Ends : next_heard = Append(g, e)
      BY <1>1, <1>5
    <2> HIDE DEF x, next_heard
    <2>4. /\ x.row.generation = row.generation /\ Balanced(row, h, x)
          /\ DialogFits(x.row, next_heard, FALSE)
          /\ x.row.state = EMPTY /\ x.row.ticket = "NONE"
      BY <1>1, <2>1, ClearMoves
    <2>5. x.row.state # EVENT_PENDING
      BY <2>4, StatesDiffer
    <2> QED BY <2>2, <2>3, <2>4, <2>5 DEF x, next_heard
  <1> QED BY <1>1, <1>3, <1>4, <1>5 DEF DialogEvents

-----------------------------------------------------------------------------
\* The manager as a whole.

\* A set that changes at one element.
LEMMA OneElement ==
    ASSUME NEW S, IsFiniteSet(S), NEW A \in SUBSET S, NEW B \in SUBSET S, NEW r,
           A \ {r} = B \ {r}
    PROVE  Cardinality(B) = Cardinality(A) + Bit(r \in B) - Bit(r \in A)
  <1>1. IsFiniteSet(A) /\ IsFiniteSet(B)
    BY FS_Subset
  <1>2. Cardinality(A) \in Nat /\ Cardinality(B) \in Nat
    BY <1>1, FS_CardinalityType
  <1>3. r \in A => Cardinality(A \ {r}) = Cardinality(A) - 1
    BY <1>1, FS_RemoveElement
  <1>4. r \notin A => A \ {r} = A
    OBVIOUS
  <1>5. r \in B => Cardinality(B \ {r}) = Cardinality(B) - 1
    BY <1>1, FS_RemoveElement
  <1>6. r \notin B => B \ {r} = B
    OBVIOUS
  <1> QED BY <1>2, <1>3, <1>4, <1>5, <1>6 DEF Bit

\* Rows are finitely many.
LEMMA DialogRowsFinite ==
    ManagerAssumption => IsFiniteSet(DialogRows) /\ 0 \notin DialogRows
  BY FS_Interval DEF DialogRows, ManagerAssumption

\* Balanced work on one row keeps the holdings exact.
LEMMA HeldMoves ==
    ASSUME ManagerAssumption, rows \in [DialogRows -> DialogRecords], HeldExactly,
           NEW r \in DialogRows, NEW x, x.row \in DialogRecords, Balanced(rows[r], held, x),
           rows' = [rows EXCEPT ![r] = x.row], held' = x.held
    PROVE  held' \in HeldRecords /\ HeldExactly'
  <1> DEFINE A == {q \in DialogRows : rows[q].ref}
             B == {q \in DialogRows : rows'[q].ref}
             C == {q \in DialogRows : rows[q].program}
             D == {q \in DialogRows : rows'[q].program}
  <1>1. /\ rows'[r] = x.row /\ \A q \in DialogRows \ {r} : rows'[q] = rows[q]
        /\ rows[r] \in DialogRecords
    OBVIOUS
  <1>2. A \ {r} = B \ {r} /\ C \ {r} = D \ {r}
    BY <1>1
  <1>3. /\ r \in A <=> rows[r].ref
        /\ r \in B <=> x.row.ref
        /\ r \in C <=> rows[r].program
        /\ r \in D <=> x.row.program
    BY <1>1
  <1>4. /\ A \in SUBSET DialogRows /\ B \in SUBSET DialogRows
        /\ C \in SUBSET DialogRows /\ D \in SUBSET DialogRows
    OBVIOUS
  <1>5. /\ held.documents = Cardinality(A) /\ held.programs = Cardinality(C)
        /\ held.responses = 0 /\ held.audio = 0
    BY DEF HeldExactly
  <1> HIDE DEF A, B, C, D
  <1>6. /\ Bit(r \in A) = Bit(rows[r].ref) /\ Bit(r \in B) = Bit(x.row.ref)
        /\ Bit(r \in C) = Bit(rows[r].program) /\ Bit(r \in D) = Bit(x.row.program)
    BY <1>3 DEF Bit
  <1>7. /\ Cardinality(B) = Cardinality(A) + Bit(r \in B) - Bit(r \in A)
        /\ Cardinality(D) = Cardinality(C) + Bit(r \in D) - Bit(r \in C)
    BY <1>2, <1>4, DialogRowsFinite, OneElement
  <1>8. /\ held'.documents = Cardinality(B) /\ held'.programs = Cardinality(D)
        /\ held'.responses = 0 /\ held'.audio = 0 /\ held' \in HeldRecords
    BY <1>5, <1>6, <1>7 DEF Balanced
  <1> QED BY <1>8 DEF HeldExactly, B, D

\* A row at work takes its dialog one step further, and the others where they were.
LEMMA RunMoves ==
    ASSUME ManagerAssumption, DialogInv, NEW r \in DialogRows, NEW x, ~closed,
           run.at \in {0, r}, rows[r].ticket = "NONE", rows[r].state # EMPTY,
           Balanced(rows[r], held, x), x.row.generation = rows[r].generation,
           x.row.ticket = "NONE",
           rows' = [rows EXCEPT ![r] = x.row], held' = x.held,
           told' \in [Dialogs -> Histories],
           \A d \in Dialogs : d # IdOf(r) => told'[d] = told[d],
           run' \in RunRecords, run'.at \in {0, r}, next' \in DialogRows,
           DialogFits(x.row, told'[IdOf(r)], run'.at = r),
           x.row.state = EMPTY => told'[IdOf(r)] # <<>> /\ Last(told'[IdOf(r)]) \in Ends,
           UNCHANGED <<closed, tickets, sink, asked>>
    PROVE  DialogInv'
  <1>1. /\ rows \in [DialogRows -> DialogRecords] /\ held \in HeldRecords
        /\ \A q \in DialogRows : DialogFits(rows[q], told[IdOf(q)], run.at = q)
        /\ asked \subseteq Dialogs /\ tickets \subseteq TicketRecords /\ closed \in BOOLEAN
        /\ sink \in {"OPEN", "CLOSED"} /\ 0 \notin DialogRows
    BY DialogRowsFinite DEF DialogInv, ManagerTyped
  <1>2. x.row \in DialogRecords
    BY DEF DialogFits
  <1>3. /\ rows' \in [DialogRows -> DialogRecords] /\ rows'[r] = x.row
        /\ \A q \in DialogRows \ {r} : rows'[q] = rows[q]
        /\ \A q \in DialogRows : rows'[q].generation = rows[q].generation
    BY <1>1, <1>2
  <1>4. held' \in HeldRecords /\ HeldExactly'
    BY <1>1, <1>2, HeldMoves DEF DialogInv
  <1>5. ManagerTyped'
    BY <1>1, <1>3, <1>4 DEF ManagerTyped
  <1>6. \A q \in DialogRows : IdOf(q)' = IdOf(q)
    BY <1>3 DEF IdOf
  <1>7. ASSUME NEW q \in DialogRows PROVE DialogFits(rows'[q], told'[IdOf(q)'], run'.at = q)
    <2>1. CASE q = r
      BY <1>3, <1>6, <2>1
    <2>2. CASE q # r
      <3>1. DialogFits(rows[q], told[IdOf(q)], FALSE)
        <4>1. (run.at = q) = FALSE
          BY <1>1, <2>2
        <4> QED BY <1>1, <4>1
      <3>2. (run'.at = q) = FALSE
        BY <1>1, <2>2
      <3>3. rows'[q] = rows[q] /\ IdOf(q)' = IdOf(q)
        BY <1>3, <1>6, <2>2
      <3>4. CASE rows[q].state = EMPTY
        <4>1. rows[q] = FreeRow(rows[q].generation) /\ rows[q].generation \in 0 .. MaxDialogs
          BY <1>1, <3>4 DEF DialogFits, DialogRecords
        <4>2. DialogFits(rows[q], told'[IdOf(q)'], FALSE)
          BY <4>1, FreeFits
        <4> QED BY <3>2, <3>3, <4>2
      <3>5. CASE rows[q].state # EMPTY
        <4>1. rows[q].generation \in 1 .. MaxDialogs
          BY <3>1, <3>5 DEF DialogFits, DialogRecords
        <4>2. IdOf(q) \in Dialogs /\ IdOf(q) # IdOf(r)
          BY <2>2, <4>1 DEF IdOf, Dialogs
        <4>3. told'[IdOf(q)'] = told[IdOf(q)]
          BY <3>3, <4>2
        <4> QED BY <3>1, <3>2, <3>3, <4>3
      <3> QED BY <3>4, <3>5
    <2> QED BY <2>1, <2>2
  <1>8. NotYet'
    <2>1. ASSUME NEW d \in Dialogs, d[2] > rows'[d[1]].generation
          PROVE  told'[d] = <<>> /\ d \notin asked'
      <3>1. d[1] \in DialogRows /\ d[2] > rows[d[1]].generation
        BY <1>3, <2>1 DEF Dialogs
      <3>2. d # IdOf(r)
        <4>1. rows[r].generation \in Int
          BY <1>1 DEF DialogRecords
        <4> QED BY <3>1, <4>1 DEF IdOf
      <3> QED BY <3>1, <3>2 DEF DialogInv, NotYet
    <2>2. ASSUME NEW q \in DialogRows, rows'[q].ticket \in Creating
          PROVE  IdOf(q)' \notin asked'
      <3>1. q # r
        BY <1>3, <2>2, KindsDiffer
      <3> QED BY <1>3, <1>6, <2>2, <3>1 DEF DialogInv, NotYet
    <2> QED BY <2>1, <2>2 DEF NotYet
  <1>9. NoDialogLost'
    <2> SUFFICES ASSUME NEW d \in asked
                 PROVE  \/ closed'
                        \/ rows'[d[1]].generation = d[2] /\ rows'[d[1]].state # EMPTY
                        \/ told'[d] # <<>> /\ Last(told'[d]) \in Ends
      BY DEF NoDialogLost
    <2>1. \/ rows[d[1]].generation = d[2] /\ rows[d[1]].state # EMPTY
          \/ told[d] # <<>> /\ Last(told[d]) \in Ends
      BY DEF DialogInv, NoDialogLost
    <2>2. d \in Dialogs /\ d[1] \in DialogRows /\ d = <<d[1], d[2]>>
      BY <1>1 DEF Dialogs
    <2>3. CASE d = IdOf(r)
      <3>1. d[1] = r /\ d[2] = rows[r].generation
        BY <2>3 DEF IdOf
      <3> QED BY <1>3, <2>3, <3>1
    <2>4. CASE d # IdOf(r)
      <3>1. told'[d] = told[d]
        BY <2>2, <2>4
      <3>2. rows[d[1]].generation = d[2] => d[1] # r
        BY <2>2, <2>4 DEF IdOf
      <3> QED BY <1>3, <2>1, <2>2, <3>1, <3>2
    <2> QED BY <2>3, <2>4
  <1>10. DialogTicketIsOwn'
    <2> SUFFICES ASSUME NEW t \in tickets
                 PROVE  /\ \/ rows'[t.row].generation = t.generation
                              /\ rows'[t.row].ticket = t.kind
                           \/ closed /\ rows'[t.row].state = EMPTY
                              /\ rows'[t.row].ticket = "NONE"
                        /\ \A u \in tickets : u.row = t.row => u = t
      BY DEF DialogTicketIsOwn
    <2>1. /\ rows[t.row].generation = t.generation /\ rows[t.row].ticket = t.kind
          /\ \A u \in tickets : u.row = t.row => u = t
      BY DEF DialogInv, DialogTicketIsOwn
    <2>2. t.row \in DialogRows /\ t.kind \in Kinds
      BY <1>1 DEF TicketRecords
    <2>3. t.row # r
      BY <2>1, <2>2, KindsDiffer
    <2> QED BY <1>3, <2>1, <2>2, <2>3
  <1>11. ClosedIsEmpty' /\ (closed' => run' = NotRunning')
    BY DEF ClosedIsEmpty
  <1> QED BY <1>4, <1>5, <1>7, <1>8, <1>9, <1>10, <1>11 DEF DialogInv

\* A call of run_ready may leave a row that tells, or rests,
LEMMA FitsAway ==
    ASSUME NEW row, NEW heard, DialogFits(row, heard, TRUE),
           row.state = EVENT_PENDING \/ (row.state = RUNNING /\ row.session = "RUNNING")
    PROVE  DialogFits(row, heard, FALSE)
  <1>1. row.state # PENDING("DIRECT_START") /\ (row.state = RUNNING => row.session = "RUNNING")
    BY StatesDiffer, StatesExist
  <1> QED BY <1>1 DEF DialogFits

\* and take up one that tells.
LEMMA FitsHere ==
    ASSUME NEW row, NEW heard, DialogFits(row, heard, FALSE), row.state = EVENT_PENDING
    PROVE  DialogFits(row, heard, TRUE)
  BY StatesDiffer DEF DialogFits

\* Steps of run_ready that leave the rows alone.
LEMMA RunGoesOn ==
    ASSUME ManagerAssumption, DialogInv, run' \in RunRecords, next' \in DialogRows,
           sink' \in {"OPEN", "CLOSED"}, closed => run' = NotRunning,
           \A q \in DialogRows : DialogFits(rows[q], told[IdOf(q)], run'.at = q),
           UNCHANGED <<rows, held, closed, tickets, told, asked>>
    PROVE  DialogInv'
  <1>1. ManagerTyped'
    BY DEF DialogInv, ManagerTyped
  <1>2. \A q \in DialogRows : DialogFits(rows'[q], told'[IdOf(q)'], run'.at = q)
    BY DEF IdOf
  <1>3. NotYet' /\ NoDialogLost' /\ HeldExactly' /\ DialogTicketIsOwn' /\ ClosedIsEmpty'
    BY DEF DialogInv, NotYet, IdOf, NoDialogLost, HeldExactly, DialogTicketIsOwn, ClosedIsEmpty
  <1>4. closed' => run' = NotRunning'
    BY DEF NotRunning
  <1> QED BY <1>1, <1>2, <1>3, <1>4 DEF DialogInv

\* What the invariant says of a row.
LEMMA InvOfRow ==
    ASSUME ManagerAssumption, DialogInv, NEW r \in DialogRows
    PROVE  /\ DialogFits(rows[r], told[IdOf(r)], run.at = r) /\ rows[r] \in DialogRecords
           /\ rows[r].state # EMPTY => IdOf(r) \in Dialogs
           /\ rows \in [DialogRows -> DialogRecords] /\ held \in HeldRecords
           /\ told \in [Dialogs -> Histories] /\ 0 \notin DialogRows
  <1>1. /\ DialogFits(rows[r], told[IdOf(r)], run.at = r)
        /\ rows \in [DialogRows -> DialogRecords] /\ held \in HeldRecords
        /\ told \in [Dialogs -> Histories] /\ 0 \notin DialogRows
    BY DialogRowsFinite DEF DialogInv, ManagerTyped
  <1>2. rows[r] \in DialogRecords
    BY <1>1
  <1>3. ASSUME rows[r].state # EMPTY PROVE IdOf(r) \in Dialogs
    <2>1. rows[r].generation \in 1 .. MaxDialogs
      BY <1>1, <1>2, <1>3 DEF DialogFits, DialogRecords
    <2> QED BY <2>1 DEF IdOf, Dialogs
  <1> QED BY <1>1, <1>2, <1>3

\* The beginning and the ends of run_ready, and the end of the sink.
LEMMA RunFrameInv ==
    ASSUME ManagerAssumption, DialogInv,
           (\E work \in 1 .. MaxDialogWork : dialog_run_begin(work))
           \/ run_blocked \/ run_rested \/ run_end \/ sink_close
    PROVE  DialogInv'
  <1>1. /\ run \in RunRecords /\ next \in DialogRows /\ sink \in {"OPEN", "CLOSED"}
        /\ (closed => run = NotRunning) /\ NotRunning \in RunRecords /\ NotRunning.at = 0
        /\ 0 \notin DialogRows
    BY DialogRowsFinite DEF DialogInv, ManagerTyped, NotRunning, RunRecords, ManagerAssumption
  <1>2. ASSUME NEW work \in 1 .. MaxDialogWork, dialog_run_begin(work) PROVE DialogInv'
    <2>1. run' \in RunRecords /\ run'.at = 0 /\ run.at = 0
      BY <1>1, <1>2 DEF dialog_run_begin, RunRecords, ManagerAssumption
    <2>2. \A q \in DialogRows : DialogFits(rows[q], told[IdOf(q)], run'.at = q)
      BY <2>1, InvOfRow
    <2> QED BY <1>1, <1>2, <2>1, <2>2, RunGoesOn DEF dialog_run_begin
  <1>3. CASE run_blocked
    <2> DEFINE r == run.at
    <2>1. r \in DialogRows /\ rows[r].state = EVENT_PENDING /\ run' = NotRunning
      BY <1>1, <1>3 DEF run_blocked, Under, Row, RunRecords
    <2>2. ASSUME NEW q \in DialogRows PROVE DialogFits(rows[q], told[IdOf(q)], run'.at = q)
      <3>1. DialogFits(rows[q], told[IdOf(q)], run.at = q)
        BY InvOfRow
      <3>2. (run'.at = q) = FALSE
        BY <1>1, <2>1
      <3>3. DialogFits(rows[q], told[IdOf(q)], FALSE)
        <4>1. CASE run.at = q
          BY <2>1, <3>1, <4>1, FitsAway
        <4>2. CASE run.at # q
          BY <3>1, <4>2
        <4> QED BY <4>1, <4>2
      <3> QED BY <3>2, <3>3
    <2> QED BY <1>1, <1>3, <2>1, <2>2, RunGoesOn DEF run_blocked
  <1>4. CASE run_rested
    <2> DEFINE r == run.at
    <2>1. /\ r \in DialogRows /\ rows[r].state = RUNNING /\ rows[r].session = "RUNNING"
          /\ run' \in RunRecords /\ run'.at = 0
      BY <1>1, <1>4 DEF run_rested, Under, Row, RunRecords
    <2>2. ASSUME NEW q \in DialogRows PROVE DialogFits(rows[q], told[IdOf(q)], run'.at = q)
      <3>1. DialogFits(rows[q], told[IdOf(q)], run.at = q)
        BY InvOfRow
      <3>2. (run'.at = q) = FALSE
        BY <1>1, <2>1
      <3>3. DialogFits(rows[q], told[IdOf(q)], FALSE)
        <4>1. CASE run.at = q
          BY <2>1, <3>1, <4>1, FitsAway
        <4>2. CASE run.at # q
          BY <3>1, <4>2
        <4> QED BY <4>1, <4>2
      <3> QED BY <3>2, <3>3
    <2>3. ~closed
      BY <1>1, <2>1
    <2> QED BY <1>1, <1>4, <2>1, <2>2, <2>3, RunGoesOn DEF run_rested
  <1>5. CASE run_end
    <2>1. run' = NotRunning /\ run.at = 0
      BY <1>5 DEF run_end, Under
    <2>2. \A q \in DialogRows : DialogFits(rows[q], told[IdOf(q)], run'.at = q)
      BY <1>1, <2>1, InvOfRow
    <2> QED BY <1>1, <1>5, <2>1, <2>2, RunGoesOn DEF run_end
  <1>6. CASE sink_close
    <2>1. run' = run /\ sink' = "CLOSED"
      BY <1>6 DEF sink_close
    <2>2. \A q \in DialogRows : DialogFits(rows[q], told[IdOf(q)], run'.at = q)
      BY <2>1, InvOfRow
    <2> QED BY <1>1, <1>6, <2>1, <2>2, RunGoesOn DEF sink_close
  <1> QED BY <1>2, <1>3, <1>4, <1>5, <1>6

\* A row that run_ready looks at.
LEMMA RunRowInv ==
    ASSUME ManagerAssumption, DialogInv, run_row
    PROVE  DialogInv'
  <1>1. /\ run \in RunRecords /\ next \in DialogRows /\ sink \in {"OPEN", "CLOSED"}
        /\ (closed => run = NotRunning) /\ 0 \notin DialogRows
        /\ run.at = 0 /\ run.work > 0 /\ run.seen < dm_capacity
        /\ run.work \in 0 .. MaxDialogWork /\ run.seen \in 0 .. dm_capacity
    BY DialogRowsFinite DEF DialogInv, ManagerTyped, RunRecords, run_row, Under
  <1>2. ~closed
    BY <1>1 DEF NotRunning
  <1>3. next' \in DialogRows
    BY <1>1 DEF run_row, Advance, DialogRows, ManagerAssumption
  <1>4. CASE ~Ready(rows[next])
    <2>1. run' = [run EXCEPT !.seen = @ + 1] /\ UNCHANGED <<rows, held>>
      BY <1>4 DEF run_row
    <2>2. run' \in RunRecords /\ run'.at = 0
      BY <1>1, <2>1 DEF RunRecords, ManagerAssumption
    <2>3. \A q \in DialogRows : DialogFits(rows[q], told[IdOf(q)], run'.at = q)
      BY <1>1, <2>2, InvOfRow
    <2> QED BY <1>1, <1>2, <1>3, <2>1, <2>2, <2>3, RunGoesOn DEF run_row
  <1>5. CASE Ready(rows[next])
    <2> DEFINE r == next
    <2>1. /\ run' = [at |-> next, seen |-> run.seen + 1, work |-> run.work - 1]
          /\ UNCHANGED <<closed, tickets, sink, told, asked>>
      BY <1>5 DEF run_row
    <2>2. run' \in RunRecords /\ run'.at = next
      BY <1>1, <2>1 DEF RunRecords, ManagerAssumption
    <2>3. /\ DialogFits(rows[r], told[IdOf(r)], run.at = r) /\ rows[r] \in DialogRecords
          /\ (rows[r].state # EMPTY => IdOf(r) \in Dialogs) /\ held \in HeldRecords
          /\ rows \in [DialogRows -> DialogRecords] /\ told \in [Dialogs -> Histories]
      BY <1>1, InvOfRow
    <2>4. DialogFits(rows[r], told[IdOf(r)], FALSE)
      <3>1. (run.at = r) = FALSE
        BY <1>1
      <3> QED BY <2>3, <3>1
    <2>5. /\ rows[r].state \in {PENDING(k) : k \in Kinds} \cup {RUNNING, EVENT_PENDING}
          /\ rows[r].state # EMPTY /\ \A k : rows[r].state # RESERVED(k)
      BY <1>5, StatesDiffer, StatesExist DEF Ready, Pending
    <2>6. rows[r].ticket = "NONE"
      BY <2>3, <2>4, <2>5 DEF DialogFits, DialogRecords
    <2>7. ASSUME NEW x, rows' = [rows EXCEPT ![r] = x.row], held' = x.held,
                 Moves(rows[r], held, told[IdOf(r)], x)
          PROVE  DialogInv'
      <3>1. /\ Balanced(rows[r], held, x) /\ x.row.generation = rows[r].generation
            /\ DialogFits(x.row, told[IdOf(r)], TRUE)
        BY <2>7 DEF Moves
      <3>2. x.row.state # EMPTY /\ x.row.ticket = "NONE"
        BY <3>1, StatesDiffer, StatesExist DEF DialogFits, DialogRecords
      <3>3. DialogFits(x.row, told'[IdOf(r)], run'.at = r)
        BY <2>1, <2>2, <3>1
      <3>4. told' = told
        BY <2>1
      <3> HIDE DEF r
      <3> QED BY <1>1, <1>2, <1>3, <2>1, <2>2, <2>3, <2>5, <2>6, <2>7, <3>1, <3>2, <3>3, <3>4,
                 RunMoves DEF r
    <2>8. CASE rows[r].state = EVENT_PENDING
      <3> DEFINE x == Keep(rows[r], held)
      <3>1. x.row = rows[r] /\ x.held = held
        BY KeepParts
      <3>2. rows' = [rows EXCEPT ![r] = x.row] /\ held' = x.held
        BY <1>5, <2>3, <2>8, <3>1 DEF run_row
      <3>3. DialogFits(x.row, told[IdOf(r)], TRUE)
        BY <2>4, <2>8, <3>1, FitsHere
      <3>4. Balanced(rows[r], held, x)
        BY <2>3, KeepBalances DEF DialogRecords
      <3>5. Moves(rows[r], held, told[IdOf(r)], x)
        BY <3>1, <3>3, <3>4 DEF Moves
      <3> HIDE DEF x
      <3> QED BY <2>7, <3>2, <3>5
    <2>9. CASE rows[r].state # EVENT_PENDING
      <3>1. PICK x \in progress_row(rows[r], held) :
                    rows' = [rows EXCEPT ![r] = x.row] /\ held' = x.held
        BY <1>5, <2>9 DEF run_row
      <3>2. Moves(rows[r], held, told[IdOf(r)], x)
        BY <2>3, <2>4, <2>5, <2>9, ProgressMoves
      <3> QED BY <2>7, <3>1, <3>2
    <2> QED BY <2>8, <2>9
  <1> QED BY <1>4, <1>5

\* A turn of the hand-offs.
LEMMA RunHandoffInv ==
    ASSUME ManagerAssumption, DialogInv, run_handoff
    PROVE  DialogInv'
  <1> DEFINE r == run.at
  <1>1. /\ run \in RunRecords /\ next \in DialogRows /\ (closed => run = NotRunning)
        /\ 0 \notin DialogRows /\ r \in DialogRows
    BY DialogRowsFinite DEF DialogInv, ManagerTyped, RunRecords, run_handoff, Under
  <1>2. ~closed
    BY <1>1 DEF NotRunning
  <1>3. /\ rows[r].state \in StartStates
        /\ \E x \in follow_session_handoffs(rows[r], held) :
              rows' = [rows EXCEPT ![r] = x.row] /\ held' = x.held
        /\ UNCHANGED <<closed, next, run, tickets, sink, told, asked>>
    BY DEF run_handoff, Row, Put, StartStates
  <1>4. PICK x \in follow_session_handoffs(rows[r], held) :
            rows' = [rows EXCEPT ![r] = x.row] /\ held' = x.held
    BY <1>3
  <1>5. /\ DialogFits(rows[r], told[IdOf(r)], TRUE) /\ rows[r] \in DialogRecords
        /\ (rows[r].state # EMPTY => IdOf(r) \in Dialogs) /\ held \in HeldRecords
        /\ rows \in [DialogRows -> DialogRecords] /\ told \in [Dialogs -> Histories]
    <2>1. (run.at = r) = TRUE
      OBVIOUS
    <2> QED BY <1>1, <2>1, InvOfRow
  <1>6. rows[r].state \in {PENDING(k) : k \in Kinds} \cup {RUNNING}
    BY <1>3, KindsDiffer DEF StartStates
  <1>7. Handed(rows[r], told[IdOf(r)]) /\ rows[r].session \in AllStops
    BY <1>5, <1>6, FitsWorks
  <1>8. Moves(rows[r], held, told[IdOf(r)], x)
    BY <1>4, <1>5, <1>7, HandoffMoves
  <1>9. /\ Balanced(rows[r], held, x) /\ x.row.generation = rows[r].generation
        /\ DialogFits(x.row, told[IdOf(r)], TRUE)
    BY <1>8 DEF Moves
  <1>10. x.row.state # EMPTY /\ x.row.ticket = "NONE"
    BY <1>9, StatesDiffer, StatesExist DEF DialogFits, DialogRecords
  <1>11. rows[r].state # EMPTY /\ rows[r].ticket = "NONE"
    BY <1>6, <1>7, StatesDiffer, StatesExist DEF Handed, Working
  <1>12. run' = run /\ told' = told /\ next' = next
    BY <1>3
  <1>13. DialogFits(x.row, told'[IdOf(r)], run'.at = r)
    BY <1>9, <1>12
  <1> HIDE DEF r
  <1>14. run.at = r
    BY DEF r
  <1> QED BY <1>1, <1>2, <1>3, <1>4, <1>5, <1>9, <1>10, <1>11, <1>12, <1>13, <1>14, RunMoves

\* The end of a history.
LEMMA EndOfHistory ==
    ASSUME NEW g \in Going, NEW e
    PROVE  Append(g, e) # <<>> /\ Last(Append(g, e)) = e
  <1>1. g \in Seq({"PREPARED", "STARTED"})
    <2> DEFINE T == {"PREPARED", "STARTED"}
    <2>1. <<>> \in Seq(T)
      OBVIOUS
    <2>2. \A a \in T : <<a>> \in Seq(T)
      OBVIOUS
    <2>3. \A a, b \in T : <<a, b>> \in Seq(T)
      OBVIOUS
    <2>4. "PREPARED" \in T /\ "STARTED" \in T
      OBVIOUS
    <2> HIDE DEF T
    <2>5. g \in Seq(T)
      BY <2>1, <2>2, <2>3, <2>4 DEF Going
    <2> QED BY <2>5 DEF T
  <1>2. g \in Seq({"PREPARED", "STARTED", e})
    BY <1>1
  <1>3. /\ Len(Append(g, e)) = Len(g) + 1 /\ Append(g, e)[Len(g) + 1] = e /\ Len(g) \in Nat
    BY <1>2
  <1> QED BY <1>3 DEF Last

\* An event is told.
LEMMA RunPublishInv ==
    ASSUME ManagerAssumption, DialogInv, run_publish
    PROVE  DialogInv'
  <1> DEFINE r == run.at
             x == Published(rows[r], held)
             heard == Append(told[IdOf(r)], rows[r].event)
  <1>1. /\ run \in RunRecords /\ next \in DialogRows /\ (closed => run = NotRunning)
        /\ 0 \notin DialogRows /\ r \in DialogRows /\ rows[r].state = EVENT_PENDING
    BY DialogRowsFinite DEF DialogInv, ManagerTyped, RunRecords, run_publish, Under, Row
  <1>2. ~closed
    BY <1>1 DEF NotRunning
  <1>3. /\ told' = [told EXCEPT ![IdOf(r)] = heard]
        /\ rows' = [rows EXCEPT ![r] = x.row] /\ held' = x.held
        /\ run' = IF x.row.state = EVENT_PENDING THEN run ELSE [run EXCEPT !.at = 0]
        /\ UNCHANGED <<closed, next, tickets, sink, asked>>
    BY DEF run_publish, Row, Put
  <1>4. /\ DialogFits(rows[r], told[IdOf(r)], TRUE) /\ rows[r] \in DialogRecords
        /\ (rows[r].state # EMPTY => IdOf(r) \in Dialogs) /\ held \in HeldRecords
        /\ rows \in [DialogRows -> DialogRecords] /\ told \in [Dialogs -> Histories]
    <2>1. (run.at = r) = TRUE
      OBVIOUS
    <2> QED BY <1>1, <2>1, InvOfRow
  <1>5. rows[r].state # EMPTY /\ rows[r].ticket = "NONE"
    BY <1>1, <1>4, StatesDiffer, StatesExist DEF DialogFits, DialogRecords
  <1>6. /\ Balanced(rows[r], held, x) /\ x.row.generation = rows[r].generation
        /\ x.row.ticket = "NONE" /\ heard \in Histories
        /\ (x.row.state = EVENT_PENDING => DialogFits(x.row, heard, TRUE))
        /\ (x.row.state # EVENT_PENDING => DialogFits(x.row, heard, FALSE))
        /\ (x.row.state = EMPTY => \E g \in Going, e \in Ends : heard = Append(g, e))
    BY <1>1, <1>4, PublishMoves
  <1> HIDE DEF x, heard
  <1>7. x.row.state = EMPTY => heard # <<>> /\ Last(heard) \in Ends
    BY <1>6, EndOfHistory
  <1>8. /\ told' \in [Dialogs -> Histories] /\ told'[IdOf(r)] = heard
        /\ \A d \in Dialogs : d # IdOf(r) => told'[d] = told[d]
    BY <1>3, <1>4, <1>5, <1>6
  <1>9. run' \in RunRecords /\ run'.at \in {0, r}
    BY <1>1, <1>3 DEF RunRecords
  <1>10. DialogFits(x.row, told'[IdOf(r)], run'.at = r)
    <2>1. CASE x.row.state = EVENT_PENDING
      BY <1>3, <1>6, <1>8, <2>1
    <2>2. CASE x.row.state # EVENT_PENDING
      <3>1. (run'.at = r) = FALSE
        BY <1>1, <1>3, <2>2 DEF RunRecords
      <3> QED BY <1>6, <1>8, <2>2, <3>1
    <2> QED BY <2>1, <2>2
  <1> HIDE DEF r
  <1>11. run.at = r
    BY DEF r
  <1> QED BY <1>1, <1>2, <1>3, <1>4, <1>5, <1>6, <1>7, <1>8, <1>9, <1>10, <1>11, RunMoves

-----------------------------------------------------------------------------
\* Tickets.

\* What the caller does with one row between the calls of run_ready: to the row,
\* to what is asked of it, and to its tickets.
RowSettles(r, x) ==
    /\ Balanced(rows[r], held, x) /\ x.row \in DialogRecords
    /\ rows' = [rows EXCEPT ![r] = x.row] /\ held' = x.held
    /\ x.row.generation \in {rows[r].generation, rows[r].generation + 1}
    /\ DialogFits(x.row, told[<<r, x.row.generation>>], FALSE)
    /\ closed => x.row.state = EMPTY

AskedSettles(r, q) ==
    /\ asked' \subseteq Dialogs
    /\ \A d \in asked' : d \in asked \/ d = <<r, q.generation>>
    /\ q.ticket \in Creating => <<r, q.generation>> \notin asked'
    /\ \A d \in asked' : d[1] = r =>
          \/ closed
          \/ q.generation = d[2] /\ q.state # EMPTY
          \/ told[d] # <<>> /\ Last(told[d]) \in Ends

TicketsSettle(r, q) ==
    /\ tickets' \subseteq TicketRecords
    /\ \A t \in tickets' : t.row # r => t \in tickets
    /\ \A t \in tickets' : t.row = r =>
          /\ ~closed /\ q.generation = t.generation /\ q.ticket = t.kind
          /\ \A u \in tickets' : u.row = r => u = t

LEMMA SettleMoves ==
    ASSUME ManagerAssumption, DialogInv, NEW r \in DialogRows, NEW x, run = NotRunning,
           RowSettles(r, x), AskedSettles(r, x.row), TicketsSettle(r, x.row),
           UNCHANGED <<closed, next, run, sink, told>>
    PROVE  DialogInv'
  <1> USE DEF RowSettles, AskedSettles, TicketsSettle
  <1>1. /\ rows \in [DialogRows -> DialogRecords] /\ held \in HeldRecords
        /\ \A q \in DialogRows : DialogFits(rows[q], told[IdOf(q)], run.at = q)
        /\ asked \subseteq Dialogs /\ closed \in BOOLEAN /\ NotRunning.at = 0
        /\ rows[r].generation \in Int /\ x.row.generation \in Int
        /\ x.row.generation >= rows[r].generation /\ 0 \notin DialogRows
    BY DialogRowsFinite DEF DialogInv, ManagerTyped, DialogRecords, NotRunning
  <1>2. /\ rows' \in [DialogRows -> DialogRecords] /\ rows'[r] = x.row
        /\ \A q \in DialogRows \ {r} : rows'[q] = rows[q]
    BY <1>1
  <1>3. held' \in HeldRecords /\ HeldExactly'
    BY <1>1, HeldMoves DEF DialogInv
  <1>4. ManagerTyped'
    BY <1>1, <1>2, <1>3 DEF ManagerTyped, DialogInv
  <1>5. IdOf(r)' = <<r, x.row.generation>> /\ \A q \in DialogRows \ {r} : IdOf(q)' = IdOf(q)
    BY <1>2 DEF IdOf
  <1>6. ASSUME NEW q \in DialogRows PROVE DialogFits(rows'[q], told'[IdOf(q)'], run'.at = q)
    <2>1. (run'.at = q) = FALSE /\ (run.at = q) = FALSE
      BY <1>1
    <2>2. CASE q = r
      BY <1>2, <1>5, <2>1, <2>2
    <2>3. CASE q # r
      BY <1>1, <1>2, <1>5, <2>1, <2>3
    <2> QED BY <2>2, <2>3
  <1>7. NotYet'
    <2>1. ASSUME NEW d \in Dialogs, d[2] > rows'[d[1]].generation
          PROVE  told'[d] = <<>> /\ d \notin asked'
      <3>1. d[1] \in DialogRows /\ d[2] \in Int /\ d = <<d[1], d[2]>>
        BY DEF Dialogs
      <3>2. rows[d[1]].generation \in Int
        BY <1>1, <3>1 DEF DialogRecords
      <3>3. d[2] > rows[d[1]].generation
        <4>1. CASE d[1] = r
          BY <1>1, <1>2, <2>1, <3>1, <4>1
        <4>2. CASE d[1] # r
          BY <1>2, <2>1, <3>1, <4>2
        <4> QED BY <4>1, <4>2
      <3>4. d # <<r, x.row.generation>>
        BY <1>1, <1>2, <2>1, <3>1
      <3>5. told[d] = <<>> /\ d \notin asked
        BY <3>3 DEF DialogInv, NotYet
      <3> QED BY <3>4, <3>5
    <2>2. ASSUME NEW q \in DialogRows, rows'[q].ticket \in Creating
          PROVE  IdOf(q)' \notin asked'
      <3>1. CASE q = r
        BY <1>2, <1>5, <2>2, <3>1
      <3>2. CASE q # r
        <4>1. IdOf(q)' = IdOf(q) /\ IdOf(q) \notin asked
          BY <1>2, <1>5, <2>2, <3>2 DEF DialogInv, NotYet
        <4>2. IdOf(q) # <<r, x.row.generation>>
          BY <3>2 DEF IdOf
        <4> QED BY <4>1, <4>2
      <3> QED BY <3>1, <3>2
    <2> QED BY <2>1, <2>2 DEF NotYet
  <1>8. NoDialogLost'
    <2> SUFFICES ASSUME NEW d \in asked'
                 PROVE  \/ closed'
                        \/ rows'[d[1]].generation = d[2] /\ rows'[d[1]].state # EMPTY
                        \/ told'[d] # <<>> /\ Last(told'[d]) \in Ends
      BY DEF NoDialogLost
    <2>1. d[1] \in DialogRows
      BY DEF Dialogs
    <2>2. CASE d[1] = r
      BY <1>2, <2>2
    <2>3. CASE d[1] # r
      <3>1. d \in asked
        BY <2>3
      <3> QED BY <1>2, <2>1, <2>3, <3>1 DEF DialogInv, NoDialogLost
    <2> QED BY <2>2, <2>3
  <1>9. DialogTicketIsOwn'
    <2> SUFFICES ASSUME NEW t \in tickets'
                 PROVE  /\ \/ rows'[t.row].generation = t.generation
                              /\ rows'[t.row].ticket = t.kind
                           \/ closed /\ rows'[t.row].state = EMPTY
                              /\ rows'[t.row].ticket = "NONE"
                        /\ \A u \in tickets' : u.row = t.row => u = t
      BY DEF DialogTicketIsOwn
    <2>1. t.row \in DialogRows
      BY DEF TicketRecords
    <2>2. CASE t.row = r
      BY <1>2, <2>2
    <2>3. CASE t.row # r
      <3>1. t \in tickets /\ rows'[t.row] = rows[t.row]
        BY <1>2, <2>1, <2>3
      <3>2. \A u \in tickets' : u.row = t.row => u \in tickets
        BY <2>3
      <3> QED BY <3>1, <3>2 DEF DialogInv, DialogTicketIsOwn
    <2> QED BY <2>2, <2>3
  <1>10. ClosedIsEmpty' /\ (closed' => run' = NotRunning')
    <2>1. closed => \A q \in DialogRows : rows'[q].state = EMPTY
      BY <1>2 DEF DialogInv, ClosedIsEmpty
    <2> QED BY <2>1 DEF ClosedIsEmpty, NotRunning
  <1> QED BY <1>3, <1>4, <1>6, <1>7, <1>8, <1>9, <1>10 DEF DialogInv

\* No ticket is out for a row that waits for none.
LEMMA NoTicketOut ==
    ASSUME DialogInv, NEW r \in DialogRows, ~closed, rows[r].ticket = "NONE"
    PROVE  \A t \in tickets : t.row # r
  <1> SUFFICES ASSUME NEW t \in tickets, t.row = r PROVE FALSE
    OBVIOUS
  <1>1. rows[r].ticket = t.kind /\ t.kind \in Kinds
    BY DEF DialogInv, DialogTicketIsOwn, ManagerTyped, TicketRecords
  <1> QED BY <1>1, KindsDiffer

\* What was asked about a row's dialogs: known, ended, or the row's own.
LEMMA AskedBefore ==
    ASSUME DialogInv, NEW r \in DialogRows, NEW d \in asked, d[1] = r
    PROVE  /\ d = <<r, d[2]>> /\ d[2] \in Int /\ rows[r].generation \in Int
           /\ d[2] <= rows[r].generation
           /\ d = IdOf(r) \/ d[2] < rows[r].generation
           /\ \/ closed
              \/ rows[r].generation = d[2] /\ rows[r].state # EMPTY
              \/ told[d] # <<>> /\ Last(told[d]) \in Ends
  <1>1. d \in Dialogs /\ rows[r] \in DialogRecords
    BY DEF DialogInv, ManagerTyped
  <1>2. d = <<r, d[2]>> /\ d[2] \in Int /\ rows[r].generation \in Int
    BY <1>1 DEF Dialogs, DialogRecords
  <1>3. ~(d[2] > rows[r].generation)
    BY <1>1 DEF DialogInv, NotYet
  <1>4. d[2] = rows[r].generation => d = IdOf(r)
    BY <1>2 DEF IdOf
  <1>5. \/ closed
        \/ rows[r].generation = d[2] /\ rows[r].state # EMPTY
        \/ told[d] # <<>> /\ Last(told[d]) \in Ends
    BY DEF DialogInv, NoDialogLost
  <1> QED BY <1>2, <1>3, <1>4, <1>5

\* A row with a ticket.
Ticketed(row, kind) == [row EXCEPT !.ticket = kind, !.state = RESERVED(kind)]

LEMMA TicketedParts ==
    ASSUME NEW row \in DialogRecords, NEW kind \in Kinds
    PROVE  LET q == Ticketed(row, kind) IN
           /\ q \in DialogRecords /\ q.ticket = kind /\ q.state = RESERVED(kind)
           /\ q.generation = row.generation /\ q.ref = row.ref /\ q.program = row.program
           /\ q.event = row.event /\ q.started = row.started /\ q.session = row.session
           /\ q.restore_state = row.restore_state /\ q.restore_event = row.restore_event
  BY StatesExist DEF Ticketed, DialogRecords

\* What a reservation does to its row.
LEMMA ReserveMoves ==
    ASSUME ManagerAssumption, DialogInv, NEW r \in DialogRows, NEW row \in DialogRecords,
           NEW kind \in Kinds, run = NotRunning, ~closed, rows[r].ticket = "NONE",
           Reserve(r, row, kind), row.ref = rows[r].ref, row.program = rows[r].program,
           row.generation \in {rows[r].generation, rows[r].generation + 1},
           DialogFits(Ticketed(row, kind), told[<<r, row.generation>>], FALSE),
           kind \in Creating => row.generation = rows[r].generation + 1,
           row.generation = rows[r].generation + 1 => rows[r].state = EMPTY
    PROVE  DialogInv'
  <1> DEFINE q == Ticketed(row, kind)
             t == [row |-> r, kind |-> kind, generation |-> row.generation]
  <1>1. /\ q \in DialogRecords /\ q.ticket = kind /\ q.state = RESERVED(kind)
        /\ q.generation = row.generation /\ q.ref = row.ref /\ q.program = row.program
    BY TicketedParts
  <1>2. /\ rows' = [rows EXCEPT ![r] = q] /\ tickets' = tickets \cup {t}
        /\ UNCHANGED <<held, closed, next, run, sink, told, asked>>
    BY DEF Reserve, Ticketed
  <1>3. t \in TicketRecords /\ t.row = r /\ t.kind = kind /\ t.generation = row.generation
    BY DEF TicketRecords, DialogRecords
  <1>4. /\ tickets \subseteq TicketRecords /\ asked \subseteq Dialogs /\ held \in HeldRecords
        /\ rows[r] \in DialogRecords
    BY DEF DialogInv, ManagerTyped
  <1>5. \A u \in tickets : u.row # r
    BY NoTicketOut
  <1> HIDE DEF t, q
  <1>6. PICK x : x = Keep(q, held)
    OBVIOUS
  <1>27. x.row = q /\ x.held = held
    BY <1>6, KeepParts
  <1>7. Balanced(rows[r], held, x)
    BY <1>1, <1>4, <1>6, KeepBalances DEF DialogRecords
  <1>8. q.state # EMPTY
    BY <1>1, StatesDiffer, StatesExist
  <1>9. ASSUME NEW d \in asked, d[1] = r
        PROVE  \/ q.generation = d[2] /\ q.state # EMPTY
               \/ told[d] # <<>> /\ Last(told[d]) \in Ends
    <2>1. \/ rows[r].generation = d[2] /\ rows[r].state # EMPTY
          \/ told[d] # <<>> /\ Last(told[d]) \in Ends
      BY <1>9, AskedBefore
    <2> QED BY <1>1, <1>8, <2>1
  <1>10. kind \in Creating => <<r, q.generation>> \notin asked
    <2> SUFFICES ASSUME kind \in Creating, <<r, q.generation>> \in asked PROVE FALSE
      OBVIOUS
    <2>1. q.generation = rows[r].generation + 1
      BY <1>1
    <2>2. <<r, q.generation>>[1] = r /\ <<r, q.generation>>[2] = q.generation
      OBVIOUS
    <2>3. q.generation <= rows[r].generation /\ rows[r].generation \in Int
      BY <2>2, AskedBefore
    <2> QED BY <2>1, <2>3
  <1>11. DialogFits(q, told[<<r, q.generation>>], FALSE)
    BY <1>1 DEF q
  <1>12. q.generation \in {rows[r].generation, rows[r].generation + 1}
    BY <1>1
  <1>13. \A u \in tickets' : u.row = r => u = t
    BY <1>2, <1>5
  <1>14. \A u \in tickets' : u.row # r => u \in tickets
    BY <1>2, <1>3
  <1>15. tickets' \subseteq TicketRecords /\ asked' = asked
    BY <1>2, <1>3, <1>4
  <1>16. TicketsSettle(r, q)
    BY <1>1, <1>3, <1>13, <1>14, <1>15 DEF TicketsSettle
  <1>17. AskedSettles(r, q)
    BY <1>1, <1>4, <1>9, <1>10, <1>15 DEF AskedSettles
  <1>18. RowSettles(r, x)
    BY <1>1, <1>2, <1>7, <1>11, <1>12, <1>27 DEF RowSettles
  <1>19. TicketsSettle(r, x.row) /\ AskedSettles(r, x.row)
    BY <1>16, <1>17, <1>27
  <1> QED BY <1>2, <1>18, <1>19, SettleMoves

\* The bound on dialogs leaves room for one more of every row.
LEMMA RoomForDialog ==
    ASSUME ManagerAssumption, NEW r \in DialogRows, rows[r] \in DialogRecords,
           Cardinality(EverAsked) < MaxDialogs
    PROVE  rows[r].generation + 1 \in 0 .. MaxDialogs
  <1>1. rows[r].generation \in 0 .. MaxDialogs /\ MaxDialogs \in Nat
    BY DEF DialogRecords, ManagerAssumption
  <1> SUFFICES ASSUME rows[r].generation = MaxDialogs PROVE FALSE
    BY <1>1
  <1> DEFINE T == {r} \X (1 .. MaxDialogs)
  <1>2. T \subseteq EverAsked
    BY <1>1 DEF EverAsked, Dialogs
  <1>3. IsFiniteSet(Dialogs)
    <2>1. IsFiniteSet(DialogRows) /\ IsFiniteSet(1 .. MaxDialogs)
      BY <1>1, DialogRowsFinite, FS_Interval
    <2> QED BY <2>1, FS_Product DEF Dialogs
  <1>4. IsFiniteSet(EverAsked)
    BY <1>3, FS_Subset DEF EverAsked
  <1>5. Cardinality(T) <= Cardinality(EverAsked) /\ Cardinality(T) \in Nat
        /\ Cardinality(EverAsked) \in Nat
    BY <1>2, <1>4, FS_Subset, FS_CardinalityType
  <1>6. Cardinality(T) = MaxDialogs
    <2>1. IsFiniteSet({r}) /\ Cardinality({r}) = 1
      BY FS_Singleton
    <2>2. IsFiniteSet(1 .. MaxDialogs) /\ Cardinality(1 .. MaxDialogs) = MaxDialogs
      BY <1>1, FS_Interval
    <2>3. Cardinality(T) = Cardinality({r}) * Cardinality(1 .. MaxDialogs)
      BY <2>1, <2>2, FS_Product
    <2> QED BY <1>1, <2>1, <2>2, <2>3
  <1> QED BY <1>1, <1>5, <1>6

\* Every nonempty set of natural numbers has a least element.
LEMMA LeastRow ==
    ASSUME NEW T \in SUBSET Nat, T # {}
    PROVE  \E n \in T : \A m \in T : n <= m
  <1> DEFINE R == {p \in Nat \X Nat : p[1] < p[2]}
  <1>1. IsWellFoundedOn(R, Nat)
    <2>1. OpToRel(<, Nat) = R
      BY Zenon DEF OpToRel
    <2> QED BY <2>1, NatLessThanWellFounded, Zenon
  <1>2. PICK x \in T : \A y \in T : <<y, x>> \notin R
    <2> HIDE DEF R
    <2> QED BY <1>1, WFMin
  <1>3. ASSUME NEW y \in T PROVE x <= y
    BY <1>2, <<y, x>> \in Nat \X Nat
  <1> QED BY <1>3

\* The first empty row is one.
LEMMA FirstFreeRow ==
    ASSUME ManagerAssumption, FreeRows # {}
    PROVE  find_empty_row \in FreeRows
  <1>1. FreeRows \in SUBSET Nat
    BY DEF FreeRows, DialogRows
  <1>2. \E m \in FreeRows : \A q \in FreeRows : m <= q
    BY <1>1, LeastRow
  <1> QED BY <1>2 DEF find_empty_row

\* A row reserved for a new dialog.
LEMMA NewFits ==
    ASSUME ManagerAssumption, NEW g \in 0 .. MaxDialogs, g + 1 \in 0 .. MaxDialogs,
           NEW kind \in Creating
    PROVE  LET row == [FreeRow(g) EXCEPT !.generation = @ + 1] IN
           /\ row \in DialogRecords /\ row.generation = g + 1
           /\ row.ref = FALSE /\ row.program = FALSE
           /\ DialogFits(Ticketed(row, kind), <<>>, FALSE)
  <1> DEFINE row == [FreeRow(g) EXCEPT !.generation = @ + 1]
             q == Ticketed(row, kind)
  <1>1. FreeRow(g) \in DialogRecords
    BY FreeFits
  <1>2. /\ row \in DialogRecords /\ row.generation = g + 1
        /\ row.ref = FALSE /\ row.program = FALSE
        /\ row.event = "NONE" /\ row.started = FALSE
    BY <1>1 DEF FreeRow, DialogRecords
  <1> HIDE DEF row
  <1>3. kind \in Kinds
    BY KindsDiffer
  <1>4. /\ q \in DialogRecords /\ q.ticket = kind /\ q.state = RESERVED(kind)
        /\ q.generation = g + 1 /\ q.ref = FALSE /\ q.program = FALSE
        /\ q.event = "NONE" /\ q.started = FALSE
    BY <1>2, <1>3, TicketedParts
  <1> HIDE DEF q
  <1>5. EventFits(q, <<>>) /\ RestoreFits(q)
    BY <1>4, StatesDiffer, StatesExist, KindsDiffer DEF EventFits, RestoreFits
  <1>6. \A k \in Kinds : q.state = RESERVED(k) <=> q.ticket = k
    BY <1>4, StatesDiffer
  <1>7. q.state # EMPTY /\ q.state # RUNNING /\ \A k : q.state # PENDING(k)
    BY <1>4, StatesDiffer, StatesExist
  <1>8. q.generation # 0 /\ <<>> \in Going /\ <<>> \notin HasStarted
    BY <1>4, HistoriesGoOn
  <1>9. DialogFits(q, <<>>, FALSE)
    BY <1>4, <1>5, <1>6, <1>7, <1>8 DEF DialogFits
  <1> QED BY <1>2, <1>9 DEF row, q

\* A row reserved for a start or a termination, and what a discard would put back.
LEMMA SavedFits ==
    ASSUME NEW row, NEW heard, DialogFits(row, heard, FALSE),
           row.state \in {PREPARED, RUNNING, EVENT_PENDING},
           NEW kind \in {"PREPARED_START", "TERMINATE"},
           kind = "PREPARED_START" => row.state = PREPARED
    PROVE  LET s == Restorable(row) IN
           /\ s \in DialogRecords /\ s.generation = row.generation
           /\ s.ref = row.ref /\ s.program = row.program
           /\ DialogFits(Ticketed(s, kind), heard, FALSE)
  <1> DEFINE s == Restorable(row)
             q == Ticketed(s, kind)
  <1>1. row \in DialogRecords
    BY DEF DialogFits
  <1>2. /\ s \in DialogRecords /\ s.generation = row.generation
        /\ s.ref = row.ref /\ s.program = row.program /\ s.started = row.started
        /\ s.event = row.event /\ s.session = row.session
        /\ s.restore_state = row.state /\ s.restore_event = row.event
    BY <1>1 DEF Restorable, DialogRecords
  <1> HIDE DEF s
  <1>3. kind \in Kinds \ Creating
    BY KindsDiffer
  <1>4. /\ q \in DialogRecords /\ q.ticket = kind /\ q.state = RESERVED(kind)
        /\ q.generation = row.generation /\ q.ref = row.ref /\ q.program = row.program
        /\ q.started = row.started
        /\ q.event = row.event /\ q.session = row.session
        /\ q.restore_state = row.state /\ q.restore_event = row.event
    BY <1>2, <1>3, TicketedParts
  <1> HIDE DEF q
  <1>5. /\ row.state # EMPTY /\ \A k : row.state # RESERVED(k) /\ row.state # PENDING(k)
    BY StatesDiffer, StatesExist
  <1>6. /\ row.event = "NONE" <=> row.state # EVENT_PENDING
        /\ row.event \in {"PREPARED", "ERROR_PREPARE"} => heard = <<>>
        /\ row.event = "STARTED" => ~row.started /\ row.session \in {"RUNNING", "EXITED"}
    BY <1>5 DEF DialogFits, EventFits
  <1>7. row.state = RUNNING => row.started /\ row.session = "RUNNING"
    BY DEF DialogFits
  <1>8. q.state \notin Settled /\ q.state \notin {RESERVED("PREPARE"), RESERVED("DIRECT_START")}
        /\ \A k : q.state # PENDING(k)
    BY <1>3, <1>4, StatesDiffer, KindsDiffer
  <1>9. EventFits(q, heard)
    <2>1. q.state \notin {EVENT_PENDING, RESERVED("TERMINATE"), PENDING("TERMINATE")}
            => q.event = "NONE"
      BY <1>4, <1>6, StatesDiffer
    <2> QED BY <1>4, <1>6, <1>8, <2>1, StatesExist DEF EventFits
  <1>10. RestoreFits(q)
    BY <1>4, <1>6, <1>7 DEF RestoreFits
  <1>11. \A k \in Kinds : q.state = RESERVED(k) <=> q.ticket = k
    BY <1>4, StatesDiffer
  <1>12. /\ row.generation # 0 /\ heard \in Going /\ (row.started <=> heard \in HasStarted)
         /\ ~(row.ref /\ row.program)
    BY <1>5 DEF DialogFits
  <1>13. q.state # EMPTY /\ q.state # RUNNING
    BY <1>8, StatesExist
  <1>14. DialogFits(q, heard, FALSE)
    BY <1>4, <1>8, <1>9, <1>10, <1>11, <1>12, <1>13 DEF DialogFits
  <1> QED BY <1>2, <1>14 DEF s, q

\* A dialog is asked for.
LEMMA NewDialogInv ==
    ASSUME ManagerAssumption, DialogInv, NEW kind \in Creating, prepare_new_dialog(kind)
    PROVE  DialogInv'
  <1> DEFINE r == find_empty_row
             row == [rows[r] EXCEPT !.generation = @ + 1]
             g == rows[r].generation
  <1>1. r \in FreeRows /\ run = NotRunning /\ ~closed /\ Reserve(r, row, kind)
    BY FirstFreeRow DEF prepare_new_dialog
  <1>2. r \in DialogRows /\ rows[r].state = EMPTY
    BY <1>1 DEF FreeRows
  <1> HIDE DEF r
  <1>3. rows[r] \in DialogRecords /\ rows[r] = FreeRow(g)
    BY <1>2, InvOfRow DEF DialogFits
  <1>4. g + 1 \in 0 .. MaxDialogs /\ g \in 0 .. MaxDialogs
    BY <1>2, <1>3, RoomForDialog DEF prepare_new_dialog, DialogRecords
  <1>5. /\ row \in DialogRecords /\ row.generation = g + 1
        /\ row.ref = FALSE /\ row.program = FALSE
        /\ DialogFits(Ticketed(row, kind), <<>>, FALSE)
    BY <1>3, <1>4, NewFits
  <1>6. rows[r].ref = FALSE /\ rows[r].program = FALSE /\ rows[r].ticket = "NONE"
    BY <1>3, <1>4, FreeFits
  <1>7. told[<<r, g + 1>>] = <<>>
    <2>1. <<r, g + 1>> \in Dialogs
      BY <1>2, <1>4 DEF Dialogs
    <2>2. g + 1 > g
      BY <1>4
    <2> QED BY <2>1, <2>2 DEF DialogInv, NotYet
  <1>8. kind \in Kinds
    BY KindsDiffer
  <1> HIDE DEF row
  <1>9. DialogFits(Ticketed(row, kind), told[<<r, row.generation>>], FALSE)
    BY <1>5, <1>7
  <1>10. /\ row.ref = rows[r].ref /\ row.program = rows[r].program
         /\ row.generation = rows[r].generation + 1
    BY <1>5, <1>6
  <1> QED BY <1>1, <1>2, <1>5, <1>6, <1>8, <1>9, <1>10, ReserveMoves

\* The start or the termination of a dialog is asked for.
LEMMA SavedInv ==
    ASSUME ManagerAssumption, DialogInv, NEW r \in DialogRows,
           prepare_prepared_dialog_start(r) \/ prepare_dialog_terminate(r)
    PROVE  DialogInv'
  <1>1. PICK kind \in {"PREPARED_START", "TERMINATE"} :
          /\ run = NotRunning /\ ~closed /\ rows[r].state \in {PREPARED, RUNNING, EVENT_PENDING}
          /\ kind = "PREPARED_START" => rows[r].state = PREPARED
          /\ Reserve(r, Restorable(rows[r]), kind)
    BY DEF prepare_prepared_dialog_start, prepare_dialog_terminate, Terminable
  <1>2. (run.at = r) = FALSE
    BY <1>1, InvOfRow DEF NotRunning
  <1>3. DialogFits(rows[r], told[IdOf(r)], FALSE) /\ rows[r] \in DialogRecords
    BY <1>2, InvOfRow
  <1>4. rows[r].ticket = "NONE"
    <2>1. \A k \in Kinds : rows[r].state # RESERVED(k)
      BY <1>1, StatesDiffer, StatesExist
    <2> QED BY <1>3, <2>1 DEF DialogFits, DialogRecords
  <1> DEFINE s == Restorable(rows[r])
  <1>5. /\ s \in DialogRecords /\ s.generation = rows[r].generation
        /\ s.ref = rows[r].ref /\ s.program = rows[r].program
        /\ DialogFits(Ticketed(s, kind), told[IdOf(r)], FALSE)
    BY <1>1, <1>3, SavedFits
  <1>6. kind \in Kinds /\ kind \notin Creating
    BY KindsDiffer
  <1>7. rows[r].generation # rows[r].generation + 1
    BY <1>3 DEF DialogRecords
  <1> HIDE DEF s
  <1>8. DialogFits(Ticketed(s, kind), told[<<r, s.generation>>], FALSE)
    BY <1>5 DEF IdOf
  <1>9. Reserve(r, s, kind)
    BY <1>1 DEF s
  <1> QED BY <1>1, <1>4, <1>5, <1>6, <1>7, <1>8, <1>9, ReserveMoves

\* A committed row waits for run_ready.
LEMMA CommitFits ==
    ASSUME NEW row, NEW heard, DialogFits(row, heard, FALSE), row.ticket \in Kinds
    PROVE  LET q == Committed(row) IN
           /\ q \in DialogRecords /\ q.generation = row.generation /\ q.ticket = "NONE"
           /\ q.ref = row.ref /\ q.program = row.program /\ q.state # EMPTY
           /\ DialogFits(q, heard, FALSE)
  <1> DEFINE q == Committed(row)
             k == row.ticket
  <1>1. row \in DialogRecords /\ row.state = RESERVED(k) /\ k \in Kinds
    BY DEF DialogFits
  <1>2. /\ q \in DialogRecords /\ q.generation = row.generation /\ q.ticket = "NONE"
        /\ q.ref = row.ref /\ q.program = row.program /\ q.state = PENDING(k)
        /\ q.event = row.event /\ q.started = row.started /\ q.session = row.session
    <2>1. "NONE" \in DialogEvents /\ EMPTY \in DialogStates /\ PENDING(k) \in DialogStates
      BY <1>1, StatesExist DEF DialogEvents
    <2>2. q = [row EXCEPT !.ticket = "NONE", !.restore_state = EMPTY, !.restore_event = "NONE",
                          !.state = PENDING(k)]
      BY <1>1 DEF Committed
    <2> HIDE DEF q, k
    <2> QED BY <1>1, <2>1, <2>2 DEF DialogRecords
  <1> HIDE DEF q, k
  <1>3. /\ q.state \notin Settled /\ \A l : q.state # RESERVED(l)
        /\ \A l : q.state = PENDING(l) <=> k = l
        /\ \A l : row.state = RESERVED(l) <=> k = l
    BY <1>1, <1>2, StatesDiffer
  <1>4. row.state \notin Settled /\ \A l : row.state # PENDING(l)
    BY <1>1, StatesDiffer
  <1>5. /\ row.generation # 0 /\ heard \in Going /\ (row.started <=> heard \in HasStarted)
        /\ ~(row.ref /\ row.program) /\ EventFits(row, heard)
    BY <1>4, StatesExist DEF DialogFits
  <1>6. EventFits(q, heard) /\ RestoreFits(q)
    <2>1. q.state \notin {EVENT_PENDING, RESERVED("TERMINATE"), PENDING("TERMINATE")}
            => q.event = "NONE"
      BY <1>2, <1>3, <1>4, <1>5, StatesExist DEF EventFits
    <2> QED BY <1>2, <1>3, <1>5, <2>1, StatesExist DEF EventFits, RestoreFits
  <1>7. k = "PREPARE" => heard = <<>>
    BY <1>3 DEF DialogFits
  <1>8. k \in {"PREPARE", "DIRECT_START"} => ~row.ref /\ ~row.program
    BY <1>3 DEF DialogFits
  <1>9. \A l \in Kinds : q.state = RESERVED(l) <=> q.ticket = l
    BY <1>2, <1>3, KindsDiffer
  <1>10. q.state # EMPTY /\ q.state # RUNNING
    BY <1>3, StatesExist
  <1>11. DialogFits(q, heard, FALSE)
    BY <1>2, <1>3, <1>5, <1>6, <1>7, <1>8, <1>9, <1>10 DEF DialogFits
  <1> QED BY <1>2, <1>10, <1>11 DEF q

\* A discarded start or termination puts the row back.
LEMMA RestoredFits ==
    ASSUME NEW row, NEW heard, DialogFits(row, heard, FALSE), row.ticket \in Kinds \ Creating
    PROVE  LET q == Restored(row) IN
           /\ q \in DialogRecords /\ q.generation = row.generation /\ q.ticket = "NONE"
           /\ q.ref = row.ref /\ q.program = row.program /\ q.state # EMPTY
           /\ DialogFits(q, heard, FALSE)
  <1> DEFINE q == Restored(row)
             k == row.ticket
  <1>1. row \in DialogRecords /\ row.state = RESERVED(k) /\ k \in {"PREPARED_START", "TERMINATE"}
    BY KindsDiffer DEF DialogFits
  <1>2. /\ row.restore_state \in {PREPARED, RUNNING, EVENT_PENDING}
        /\ row.restore_event = row.event
        /\ row.event = "NONE" <=> row.restore_state # EVENT_PENDING
        /\ row.restore_state = RUNNING => row.started /\ row.session = "RUNNING"
    BY <1>1 DEF DialogFits, RestoreFits
  <1>3. /\ q \in DialogRecords /\ q.generation = row.generation /\ q.ticket = "NONE"
        /\ q.ref = row.ref /\ q.program = row.program /\ q.state = row.restore_state
        /\ q.event = row.event /\ q.started = row.started /\ q.session = row.session
    <2>1. "NONE" \in DialogEvents /\ EMPTY \in DialogStates
      BY StatesExist DEF DialogEvents
    <2>2. row.restore_state \in DialogStates /\ row.restore_event \in DialogEvents
      BY <1>1 DEF DialogRecords
    <2> QED BY <1>1, <1>2, <2>1, <2>2 DEF Restored, DialogRecords
  <1> HIDE DEF q
  <1>4. row.state \notin Settled
    BY <1>1, StatesDiffer
  <1>5. /\ row.generation # 0 /\ heard \in Going /\ (row.started <=> heard \in HasStarted)
        /\ ~(row.ref /\ row.program) /\ EventFits(row, heard)
    BY <1>4, StatesExist DEF DialogFits
  <1>6. \A l : q.state # RESERVED(l) /\ q.state # PENDING(l)
    BY <1>2, <1>3, StatesDiffer, StatesExist
  <1>7. EventFits(q, heard) /\ RestoreFits(q)
    BY <1>2, <1>3, <1>5, <1>6 DEF EventFits, RestoreFits
  <1>8. \A l \in Kinds : q.state = RESERVED(l) <=> q.ticket = l
    BY <1>3, <1>6, KindsDiffer
  <1>9. q.state # EMPTY
    BY <1>2, <1>3, StatesDiffer
  <1>10. DialogFits(q, heard, FALSE)
    BY <1>2, <1>3, <1>5, <1>6, <1>7, <1>8, <1>9 DEF DialogFits
  <1> QED BY <1>3, <1>9, <1>10 DEF q

\* A ticket whose row was cleared goes without a trace.
LEMMA TicketGone ==
    ASSUME ManagerAssumption, DialogInv, tickets' \subseteq tickets,
           UNCHANGED <<rows, held, closed, next, run, sink, told, asked>>
    PROVE  DialogInv'
  <1>1. ManagerTyped'
    BY DEF DialogInv, ManagerTyped
  <1>2. \A r \in DialogRows : DialogFits(rows[r], told[IdOf(r)], run.at = r)'
    <2> TAKE r \in DialogRows
    <2>1. DialogFits(rows[r], told[IdOf(r)], run.at = r) /\ IdOf(r)' = IdOf(r)
      BY DEF DialogInv, IdOf
    <2>2. (run'.at = r) = (run.at = r)
      OBVIOUS
    <2> QED BY <2>1, <2>2
  <1>3. NotYet' /\ NoDialogLost' /\ HeldExactly' /\ ClosedIsEmpty'
    BY DEF DialogInv, NotYet, NoDialogLost, HeldExactly, ClosedIsEmpty, IdOf
  <1>4. DialogTicketIsOwn'
    BY DEF DialogInv, DialogTicketIsOwn
  <1>5. closed' => run' = NotRunning'
    BY DEF DialogInv, NotRunning
  <1> QED BY <1>1, <1>2, <1>3, <1>4, <1>5 DEF DialogInv

\* The ticket of a row that waits for one.
LEMMA TicketOut ==
    ASSUME ManagerAssumption, DialogInv, NEW t \in tickets, rows[t.row].ticket # "NONE",
           run = NotRunning
    PROVE  /\ t.row \in DialogRows /\ ~closed /\ rows[t.row].ticket \in Kinds
           /\ rows[t.row].ticket = t.kind
           /\ DialogFits(rows[t.row], told[IdOf(t.row)], FALSE)
           /\ rows[t.row].state # EMPTY
           /\ \A u \in tickets \ {t} : u.row # t.row
  <1>1. t.row \in DialogRows
    BY DEF DialogInv, ManagerTyped, TicketRecords
  <1>2. /\ rows[t.row].ticket = t.kind /\ \A u \in tickets : u.row = t.row => u = t
    BY DEF DialogInv, DialogTicketIsOwn
  <1>3. (run.at = t.row) = FALSE
    BY <1>1, InvOfRow DEF NotRunning
  <1>4. DialogFits(rows[t.row], told[IdOf(t.row)], FALSE) /\ rows[t.row] \in DialogRecords
    BY <1>1, <1>3, InvOfRow
  <1>5. rows[t.row].ticket \in Kinds
    BY <1>4 DEF DialogRecords
  <1>6. rows[t.row].state # EMPTY
    <2>1. rows[t.row].state = RESERVED(rows[t.row].ticket)
      BY <1>4, <1>5 DEF DialogFits
    <2> QED BY <2>1, StatesDiffer, StatesExist
  <1>7. ~closed
    BY <1>1, <1>6 DEF DialogInv, ClosedIsEmpty
  <1> QED BY <1>1, <1>2, <1>4, <1>5, <1>6, <1>7

\* After its settlement no ticket of the row is out.
LEMMA TicketSettled ==
    ASSUME DialogInv, NEW t \in tickets, tickets' = tickets \ {t}, NEW q,
           \A u \in tickets \ {t} : u.row # t.row
    PROVE  TicketsSettle(t.row, q)
  <1>1. tickets \subseteq TicketRecords
    BY DEF DialogInv, ManagerTyped
  <1> QED BY <1>1 DEF TicketsSettle

\* A ticket is committed.
LEMMA CommitInv ==
    ASSUME ManagerAssumption, DialogInv, NEW t \in tickets, ticket_commit(t)
    PROVE  DialogInv'
  <1> DEFINE r == t.row
             q == Committed(rows[r])
  <1>1. /\ run = NotRunning /\ tickets' = tickets \ {t}
        /\ UNCHANGED <<held, closed, next, run, sink, told>>
    BY DEF ticket_commit
  <1>2. CASE rows[r].ticket = "NONE"
    <2>1. rows' = rows /\ asked' = asked
      BY <1>2, KindsDiffer DEF ticket_commit
    <2> QED BY <1>1, <2>1, TicketGone
  <1>3. CASE rows[r].ticket # "NONE"
    <2>1. /\ r \in DialogRows /\ ~closed /\ rows[r].ticket \in Kinds
          /\ DialogFits(rows[r], told[IdOf(r)], FALSE) /\ rows[r].state # EMPTY
          /\ \A u \in tickets \ {t} : u.row # r
      BY <1>1, <1>3, TicketOut
    <2>2. /\ rows' = [rows EXCEPT ![r] = q]
          /\ asked' = IF rows[r].ticket \in Creating THEN asked \cup {IdOf(r)} ELSE asked
      BY <1>3 DEF ticket_commit
    <2>3. /\ q \in DialogRecords /\ q.generation = rows[r].generation /\ q.ticket = "NONE"
          /\ q.ref = rows[r].ref /\ q.program = rows[r].program /\ q.state # EMPTY
          /\ DialogFits(q, told[IdOf(r)], FALSE)
      BY <2>1, CommitFits
    <2>4. /\ rows[r] \in DialogRecords /\ held \in HeldRecords /\ IdOf(r) \in Dialogs
      BY <2>1, InvOfRow
    <2> HIDE DEF q
    <2>5. TicketsSettle(r, q)
      BY <1>1, <2>1, TicketSettled
    <2> HIDE DEF r
    <2>6. IdOf(r) = <<r, q.generation>>
      BY <2>3 DEF IdOf
    <2>7. AskedSettles(r, q)
      <3>1. asked' \subseteq Dialogs /\ \A d \in asked' : d \in asked \/ d = <<r, q.generation>>
        BY <2>2, <2>4, <2>6 DEF DialogInv, ManagerTyped
      <3>2. q.ticket \notin Creating
        BY <2>3, KindsDiffer
      <3>3. ASSUME NEW d \in asked', d[1] = r
            PROVE  \/ q.generation = d[2] /\ q.state # EMPTY
                   \/ told[d] # <<>> /\ Last(told[d]) \in Ends
        <4>1. CASE d \in asked
          <5>1. \/ rows[r].generation = d[2] /\ rows[r].state # EMPTY
                \/ told[d] # <<>> /\ Last(told[d]) \in Ends
            BY <2>1, <3>3, <4>1, AskedBefore
          <5> QED BY <2>3, <5>1
        <4>2. CASE d = <<r, q.generation>>
          BY <2>3, <4>2
        <4> QED BY <3>1, <4>1, <4>2
      <3> QED BY <3>1, <3>2, <3>3 DEF AskedSettles
    <2>8. PICK x : x = Keep(q, held)
      OBVIOUS
    <2>9. x.row = q /\ x.held = held
      BY <2>8, KeepParts
    <2>10. Balanced(rows[r], held, x)
      BY <2>3, <2>4, <2>8, KeepBalances DEF DialogRecords
    <2>11. RowSettles(r, x)
      BY <1>1, <2>1, <2>2, <2>3, <2>6, <2>9, <2>10 DEF RowSettles
    <2>12. AskedSettles(r, x.row) /\ TicketsSettle(r, x.row)
      BY <2>5, <2>7, <2>9
    <2> QED BY <1>1, <2>1, <2>11, <2>12, SettleMoves
  <1> QED BY <1>2, <1>3

\* A discard of a row's ticket settles the row.
LEMMA DiscardFits ==
    ASSUME ManagerAssumption, DialogInv, NEW r \in DialogRows, ~closed,
           rows[r].ticket \in Kinds, DialogFits(rows[r], told[IdOf(r)], FALSE),
           NEW x, x = Discarded(rows[r], held)
    PROVE  /\ Balanced(rows[r], held, x) /\ x.row.generation = rows[r].generation
           /\ x.row.ticket = "NONE" /\ DialogFits(x.row, told[IdOf(r)], FALSE)
           /\ x.row.state = EMPTY => rows[r].ticket \in Creating
  <1>1. rows[r] \in DialogRecords /\ held \in HeldRecords
    BY InvOfRow
  <1>2. CASE rows[r].ticket \in Creating
    <2>1. x = dialog_clear(rows[r], held)
      BY <1>2 DEF Discarded
    <2> QED BY <1>1, <1>2, <2>1, ClearMoves
  <1>3. CASE rows[r].ticket \notin Creating
    <2> DEFINE q == Restored(rows[r])
    <2>1. x = Keep(q, held)
      BY <1>3 DEF Discarded
    <2>2. /\ q \in DialogRecords /\ q.generation = rows[r].generation /\ q.ticket = "NONE"
          /\ q.ref = rows[r].ref /\ q.program = rows[r].program /\ q.state # EMPTY
          /\ DialogFits(q, told[IdOf(r)], FALSE)
      BY <1>3, RestoredFits
    <2> HIDE DEF q
    <2>3. x.row = q
      BY <2>1, KeepParts
    <2>4. Balanced(rows[r], held, x)
      BY <1>1, <2>1, <2>2, KeepBalances DEF DialogRecords
    <2> QED BY <2>2, <2>3, <2>4
  <1> QED BY <1>2, <1>3

\* A ticket is discarded.
LEMMA DiscardInv ==
    ASSUME ManagerAssumption, DialogInv, NEW t \in tickets, ticket_discard(t)
    PROVE  DialogInv'
  <1> DEFINE r == t.row
  <1>1. /\ run = NotRunning /\ tickets' = tickets \ {t}
        /\ UNCHANGED <<closed, next, run, sink, told, asked>>
    BY DEF ticket_discard
  <1>2. CASE rows[r].ticket = "NONE"
    <2>1. rows' = rows /\ held' = held
      BY <1>2 DEF ticket_discard
    <2> QED BY <1>1, <2>1, TicketGone
  <1>3. CASE rows[r].ticket # "NONE"
    <2>1. /\ r \in DialogRows /\ ~closed /\ rows[r].ticket \in Kinds
          /\ DialogFits(rows[r], told[IdOf(r)], FALSE) /\ rows[r].state # EMPTY
          /\ \A u \in tickets \ {t} : u.row # r
      BY <1>1, <1>3, TicketOut
    <2>2. PICK x : x = Discarded(rows[r], held)
      OBVIOUS
    <2>3. rows' = [rows EXCEPT ![r] = x.row] /\ held' = x.held
      BY <1>3, <2>2 DEF ticket_discard
    <2>4. /\ Balanced(rows[r], held, x) /\ x.row.generation = rows[r].generation
          /\ x.row.ticket = "NONE" /\ DialogFits(x.row, told[IdOf(r)], FALSE)
          /\ x.row.state = EMPTY => rows[r].ticket \in Creating
      BY <2>1, <2>2, DiscardFits
    <2>5. TicketsSettle(r, x.row)
      BY <1>1, <2>1, TicketSettled
    <2> HIDE DEF r
    <2>6. IdOf(r) = <<r, x.row.generation>> /\ x.row \in DialogRecords
      BY <2>4 DEF IdOf, DialogFits
    <2>7. AskedSettles(r, x.row)
      <3>1. asked' \subseteq Dialogs
        BY <1>1 DEF DialogInv, ManagerTyped
      <3>2. x.row.ticket \notin Creating
        BY <2>4, KindsDiffer
      <3>3. ASSUME NEW d \in asked, d[1] = r
            PROVE  \/ x.row.generation = d[2] /\ x.row.state # EMPTY
                   \/ told[d] # <<>> /\ Last(told[d]) \in Ends
        <4>1. /\ d = <<r, d[2]>>
              /\ \/ rows[r].generation = d[2] /\ rows[r].state # EMPTY
                 \/ told[d] # <<>> /\ Last(told[d]) \in Ends
          BY <2>1, <3>3, AskedBefore
        <4>2. rows[r].ticket \in Creating => IdOf(r) \notin asked
          BY <2>1 DEF DialogInv, NotYet
        <4> QED BY <2>4, <2>6, <4>1, <4>2
      <3> QED BY <1>1, <3>1, <3>2, <3>3 DEF AskedSettles
    <2>8. RowSettles(r, x)
      BY <1>1, <2>1, <2>3, <2>4, <2>6 DEF RowSettles
    <2> QED BY <1>1, <2>1, <2>5, <2>7, <2>8, SettleMoves
  <1> QED BY <1>2, <1>3

\* Everything is given back at the end.
LEMMA CloseInv ==
    ASSUME ManagerAssumption, DialogInv, close
    PROVE  DialogInv'
  <1>1. /\ run = NotRunning /\ closed' = TRUE /\ held' = HeldAfterClose
        /\ UNCHANGED <<next, run, tickets, sink, told, asked>>
    BY DEF close
  <1>2. ASSUME NEW r \in DialogRows
        PROVE  /\ rows'[r] = FreeRow(rows[r].generation)
               /\ rows[r].generation \in 0 .. MaxDialogs
               /\ rows[r].state = EMPTY => rows[r].ref = FALSE /\ rows[r].program = FALSE
    <2>1. rows[r] \in DialogRecords
          /\ (rows[r].state = EMPTY => rows[r] = FreeRow(rows[r].generation))
      BY InvOfRow DEF DialogFits
    <2>2. rows[r].generation \in 0 .. MaxDialogs
      BY <2>1 DEF DialogRecords
    <2>3. rows'[r] = FreeRow(rows[r].generation)
      BY <2>1 DEF close, Clears
    <2>4. rows[r].state = EMPTY => rows[r].ref = FALSE /\ rows[r].program = FALSE
      <3> DEFINE g == rows[r].generation
      <3>1. rows[r].state = EMPTY => rows[r] = FreeRow(g)
        BY <2>1
      <3>2. FreeRow(g).ref = FALSE /\ FreeRow(g).program = FALSE
        BY <2>2, FreeFits
      <3> HIDE DEF g
      <3> QED BY <3>1, <3>2
    <2> QED BY <2>2, <2>3, <2>4
  <1>3. ASSUME NEW r \in DialogRows
        PROVE  /\ DialogFits(rows'[r], told'[IdOf(r)'], FALSE) /\ rows'[r] \in DialogRecords
               /\ rows'[r].generation = rows[r].generation /\ rows'[r].state = EMPTY
               /\ rows'[r].ticket = "NONE" /\ rows'[r].ref = FALSE /\ rows'[r].program = FALSE
    <2> DEFINE g == rows[r].generation
               h == told'[IdOf(r)']
    <2>1. g \in 0 .. MaxDialogs /\ rows'[r] = FreeRow(g)
      BY <1>2
    <2> HIDE DEF g, h
    <2>2. /\ DialogFits(FreeRow(g), h, FALSE) /\ FreeRow(g) \in DialogRecords
          /\ FreeRow(g).generation = g /\ FreeRow(g).state = EMPTY
          /\ FreeRow(g).ticket = "NONE" /\ FreeRow(g).ref = FALSE /\ FreeRow(g).program = FALSE
      BY <2>1, FreeFits
    <2> QED BY <2>1, <2>2 DEF g, h
  <1>4. rows' \in [DialogRows -> DialogRecords]
    <2>1. rows' = [r \in DialogRows |-> IF Clears(rows[r]) THEN FreeRow(rows[r].generation)
                                        ELSE rows[r]]
      BY DEF close
    <2>2. DOMAIN rows' = DialogRows /\ rows' = [r \in DialogRows |-> rows'[r]]
      BY <2>1
    <2> QED BY <1>3, <2>2
  <1> DEFINE R == {r \in DialogRows : rows[r].ref}
             P == {r \in DialogRows : rows[r].program}
             C == {r \in DialogRows : Clears(rows[r])}
  <1>5. /\ held \in HeldRecords /\ held.documents = Cardinality(R)
        /\ held.programs = Cardinality(P) /\ held.responses = 0 /\ held.audio = 0
    BY DEF DialogInv, ManagerTyped, HeldExactly
  <1>6. {r \in C : rows[r].ref} = R /\ {r \in C : rows[r].program} = P
    BY <1>2 DEF Clears
  <1>7. held' = [held EXCEPT !.documents = @ - Cardinality(R), !.programs = @ - Cardinality(P)]
    <2>1. held' = [held EXCEPT !.documents = @ - Cardinality({r \in C : rows[r].ref}),
                               !.programs = @ - Cardinality({r \in C : rows[r].program})]
      BY <1>1 DEF HeldAfterClose
    <2> QED BY <1>6, <2>1
  <1>8. held' \in HeldRecords /\ HeldExactly'
    <2>1. /\ held' \in HeldRecords /\ held'.documents = 0 /\ held'.programs = 0
          /\ held'.responses = 0 /\ held'.audio = 0
      <3> DEFINE a == Cardinality(R)
                 b == Cardinality(P)
      <3>1. a \in Int /\ b \in Int /\ held.documents = a /\ held.programs = b
        BY <1>5 DEF HeldRecords
      <3>2. held' = [held EXCEPT !.documents = held.documents - a, !.programs = held.programs - b]
        BY <1>7
      <3> HIDE DEF a, b
      <3>3. held.documents - a = 0 /\ held.programs - b = 0
        BY <3>1
      <3>4. held' = [held EXCEPT !.documents = 0, !.programs = 0]
        BY <3>2, <3>3
      <3> QED BY <1>5, <3>4 DEF HeldRecords
    <2>2. {r \in DialogRows : rows'[r].ref} = {} /\ {r \in DialogRows : rows'[r].program} = {}
      BY <1>3
    <2>3. Cardinality({r \in DialogRows : rows'[r].ref}) = 0
          /\ Cardinality({r \in DialogRows : rows'[r].program}) = 0
      BY <2>2, FS_EmptySet
    <2> QED BY <2>1, <2>3 DEF HeldExactly
  <1>9. ManagerTyped'
    BY <1>1, <1>4, <1>8 DEF DialogInv, ManagerTyped
  <1>10. \A r \in DialogRows : DialogFits(rows[r], told[IdOf(r)], run.at = r)'
    <2> TAKE r \in DialogRows
    <2>1. (run'.at = r) = FALSE
      BY <1>1, InvOfRow DEF NotRunning
    <2> QED BY <1>3, <2>1
  <1>11. NotYet'
    <2>1. ASSUME NEW d \in Dialogs, d[2] > rows'[d[1]].generation
          PROVE  told'[d] = <<>> /\ d \notin asked'
      <3>1. d[1] \in DialogRows
        BY DEF Dialogs
      <3> QED BY <1>1, <1>3, <2>1, <3>1 DEF DialogInv, NotYet
    <2>2. \A r \in DialogRows : rows'[r].ticket \notin Creating
      BY <1>3, KindsDiffer
    <2> QED BY <2>1, <2>2 DEF NotYet
  <1>12. NoDialogLost' /\ ClosedIsEmpty' /\ (closed' => run' = NotRunning')
    BY <1>1, <1>3 DEF NoDialogLost, ClosedIsEmpty, NotRunning
  <1>13. DialogTicketIsOwn'
    <2>1. \A t \in tickets : t.row \in DialogRows /\ \A u \in tickets : u.row = t.row => u = t
      BY DEF DialogInv, ManagerTyped, TicketRecords, DialogTicketIsOwn
    <2> QED BY <1>1, <1>3, <2>1 DEF DialogTicketIsOwn
  <1> QED BY <1>8, <1>9, <1>10, <1>11, <1>12, <1>13 DEF DialogInv

\* The manager's promise.

\* What may have been heard is in order, and has one start at most.
LEMMA HistoryInOrder ==
    ASSUME NEW h \in Histories
    PROVE  /\ \A i \in DOMAIN h :
                 /\ h[i] \in Ends => i = Len(h)
                 /\ h[i] \in {"PREPARED", "ERROR_PREPARE"} => i = 1
           /\ Cardinality({i \in DOMAIN h : h[i] = "STARTED"}) <= 1
  <1> DEFINE Ordered(f) ==
               /\ \A i \in DOMAIN f :
                     /\ f[i] \in Ends => i = Len(f)
                     /\ f[i] \in {"PREPARED", "ERROR_PREPARE"} => i = 1
               /\ \A i, j \in DOMAIN f : f[i] = "STARTED" /\ f[j] = "STARTED" => i = j
  <1>1. \A g \in Going : /\ g \in Seq({"PREPARED", "STARTED"}) /\ Ordered(g)
                         /\ \A i \in DOMAIN g : g[i] \notin Ends
    <2> SUFFICES ASSUME NEW g \in Going
                 PROVE  /\ g \in Seq({"PREPARED", "STARTED"}) /\ Ordered(g)
                        /\ \A i \in DOMAIN g : g[i] \notin Ends
      OBVIOUS
    <2>1. CASE g = <<>>
      BY <2>1
    <2>2. CASE g = <<"PREPARED">>
      BY <2>2 DEF Ends
    <2>3. CASE g = <<"STARTED">>
      BY <2>3 DEF Ends
    <2>4. CASE g = <<"PREPARED", "STARTED">>
      BY <2>4 DEF Ends
    <2> QED BY <2>1, <2>2, <2>3, <2>4 DEF Going
  <1>2. ASSUME NEW g \in Going, NEW e \in {"EXIT", "ERROR_START"}
        PROVE  Ordered(Append(g, e))
    <2> DEFINE f == Append(g, e)
    <2>1. g \in Seq({"PREPARED", "STARTED"})
      BY <1>1
    <2>2. /\ DOMAIN f = 1 .. Len(g) + 1 /\ Len(f) = Len(g) + 1 /\ DOMAIN g = 1 .. Len(g)
          /\ f[Len(g) + 1] = e /\ \A i \in DOMAIN g : f[i] = g[i]
      BY <2>1
    <2>3. Len(g) \in Nat /\ e \notin {"PREPARED", "ERROR_PREPARE", "STARTED"}
      BY <2>1
    <2> HIDE DEF f
    <2>4. \A i \in DOMAIN f : i \in DOMAIN g \/ i = Len(g) + 1
      BY <2>2, <2>3
    <2>5. ASSUME NEW i \in DOMAIN f
          PROVE  /\ f[i] \in Ends => i = Len(f)
                 /\ f[i] \in {"PREPARED", "ERROR_PREPARE"} => i = 1
      BY <1>1, <2>2, <2>3, <2>4
    <2>6. ASSUME NEW i \in DOMAIN f, NEW j \in DOMAIN f, f[i] = "STARTED", f[j] = "STARTED"
          PROVE  i = j
      BY <1>1, <2>2, <2>3, <2>4, <2>6
    <2> QED BY <2>5, <2>6 DEF f
  <1>3. Ordered(<<"ERROR_PREPARE">>)
    BY DEF Ends
  <1>4. Ordered(h)
    BY <1>1, <1>2, <1>3 DEF Histories
  <1> DEFINE S == {i \in DOMAIN h : h[i] = "STARTED"}
  <1>5. Cardinality(S) <= 1
    <2>1. CASE S = {}
      BY <2>1, FS_EmptySet
    <2>2. CASE S # {}
      <3>1. PICK i : i \in S
        BY <2>2
      <3>2. S = {i}
        BY <1>4, <3>1
      <3> HIDE DEF S
      <3> QED BY <3>2, FS_Singleton
    <2> QED BY <2>1, <2>2
  <1> QED BY <1>4, <1>5

\* The invariant says what the manager promises.
LEMMA InvIsSound ==
    ASSUME ManagerAssumption, DialogInv
    PROVE  DialogSound
  <1>1. ASSUME NEW r \in DialogRows
        PROVE  /\ rows[r].generation \in 0 .. MaxDialogs
               /\ rows[r].hops \in 0 .. dm_max_navigation_hops
               /\ rows[r].scripts \in 0 .. max_script_steps
               /\ rows[r].ticket \in Kinds \cup {"NONE"}
               /\ ~(rows[r].ref /\ rows[r].program)
    <2>1. rows[r] \in DialogRecords /\ ~(rows[r].ref /\ rows[r].program)
      BY InvOfRow DEF DialogFits
    <2> QED BY <2>1 DEF DialogRecords
  <1>2. /\ closed \in BOOLEAN /\ next \in DialogRows /\ sink \in {"OPEN", "CLOSED"}
        /\ run.at \in DialogRows \cup {0} /\ run.seen \in 0 .. dm_capacity
        /\ run.work \in 0 .. MaxDialogWork
        /\ asked \subseteq Dialogs /\ told \in [Dialogs -> Histories]
    BY DEF DialogInv, ManagerTyped, RunRecords
  <1>3. DialogTypeOK
    BY <1>1, <1>2 DEF DialogTypeOK
  <1>4. EventsInOrder
    <2>1. \A d \in Dialogs : told[d] \in Histories
      BY <1>2
    <2> QED BY <2>1, HistoryInOrder DEF EventsInOrder, TimesTold
  <1>5. EventKept
    <2> SUFFICES ASSUME NEW r \in DialogRows
                 PROVE  /\ rows[r].state = EVENT_PENDING => rows[r].event # "NONE"
                        /\ rows[r].state = RUNNING /\ run.at # r => rows[r].session = "RUNNING"
      BY DEF EventKept
    <2>1. DialogFits(rows[r], told[IdOf(r)], run.at = r)
      BY InvOfRow
    <2> QED BY <2>1 DEF DialogFits, EventFits
  <1> QED BY <1>3, <1>4, <1>5 DEF DialogSound, DialogInv

\* It holds in the beginning.
LEMMA DialogInitInv ==
    ASSUME ManagerAssumption, DialogInit
    PROVE  DialogInv
  <1>1. 0 \in 0 .. MaxDialogs
    BY DEF ManagerAssumption
  <1>2. ASSUME NEW r \in DialogRows
        PROVE  rows[r] = FreeRow(0) /\ rows[r].generation = 0 /\ rows[r].state = EMPTY
               /\ rows[r].ticket = "NONE" /\ rows[r].ref = FALSE /\ rows[r].program = FALSE
               /\ rows[r] \in DialogRecords /\ DialogFits(rows[r], told[IdOf(r)], FALSE)
    BY <1>1, FreeFits DEF DialogInit
  <1>3. ManagerTyped
    <2>1. rows \in [DialogRows -> DialogRecords]
      BY <1>1, FreeFits DEF DialogInit
    <2>2. held \in HeldRecords /\ run \in RunRecords
      BY DEF DialogInit, HeldRecords, RunRecords, NotRunning, ManagerAssumption
    <2>3. next \in DialogRows
      BY DEF DialogInit, DialogRows, ManagerAssumption
    <2>4. told \in [Dialogs -> Histories]
      BY HistoriesGoOn DEF DialogInit
    <2> QED BY <2>1, <2>2, <2>3, <2>4 DEF ManagerTyped, DialogInit
  <1>4. \A r \in DialogRows : DialogFits(rows[r], told[IdOf(r)], run.at = r)
    <2> TAKE r \in DialogRows
    <2>1. (run.at = r) = FALSE
      BY DialogRowsFinite DEF DialogInit, NotRunning
    <2> QED BY <1>2, <2>1
  <1>5. NotYet
    BY <1>2, KindsDiffer DEF NotYet, DialogInit
  <1>6. HeldExactly
    <2>1. {r \in DialogRows : rows[r].ref} = {} /\ {r \in DialogRows : rows[r].program} = {}
      BY <1>2
    <2>2. /\ Cardinality({r \in DialogRows : rows[r].ref}) = 0
          /\ Cardinality({r \in DialogRows : rows[r].program}) = 0
      BY <2>1, FS_EmptySet
    <2> QED BY <2>2 DEF HeldExactly, DialogInit
  <1>7. NoDialogLost /\ DialogTicketIsOwn /\ ClosedIsEmpty /\ (closed => run = NotRunning)
    BY DEF NoDialogLost, DialogTicketIsOwn, ClosedIsEmpty, DialogInit
  <1> QED BY <1>3, <1>4, <1>5, <1>6, <1>7 DEF DialogInv

\* No step of the manager breaks it.
LEMMA DialogNextInv ==
    ASSUME ManagerAssumption, DialogInv, [DialogNext]_dialogVars
    PROVE  DialogInv'
  <1>1. CASE \E kind \in Creating : prepare_new_dialog(kind)
    BY <1>1, NewDialogInv
  <1>2. CASE \E r \in DialogRows : prepare_prepared_dialog_start(r) \/ prepare_dialog_terminate(r)
    BY <1>2, SavedInv
  <1>3. CASE \E t \in tickets : ticket_commit(t)
    BY <1>3, CommitInv
  <1>4. CASE \E t \in tickets : ticket_discard(t)
    BY <1>4, DiscardInv
  <1>5. CASE \/ \E work \in 1 .. MaxDialogWork : dialog_run_begin(work)
             \/ run_blocked \/ run_rested \/ run_end \/ sink_close
    BY <1>5, RunFrameInv
  <1>6. CASE run_row
    BY <1>6, RunRowInv
  <1>7. CASE run_handoff
    BY <1>7, RunHandoffInv
  <1>8. CASE run_publish
    BY <1>8, RunPublishInv
  <1>9. CASE close
    BY <1>9, CloseInv
  <1>10. CASE UNCHANGED dialogVars
    <2>1. tickets' \subseteq tickets
          /\ UNCHANGED <<rows, held, closed, next, run, sink, told, asked>>
      BY <1>10 DEF dialogVars
    <2> QED BY <2>1, TicketGone
  <1> QED BY <1>1, <1>2, <1>3, <1>4, <1>5, <1>6, <1>7, <1>8, <1>9, <1>10 DEF DialogNext

\* Whatever the manager is asked for, in whatever order tickets are settled, rows are
\* worked on, events are refused by the sink and the manager is closed: no dialog,
\* event, ticket or resource of a row is lost or given to another, and the CCXML side
\* hears of every dialog in order (DialogSound), for any number of rows, hops and scripts.
THEOREM ManagerCorrect == ManagerAssumption => (DialogSpec => []DialogSound)
  <1> SUFFICES ASSUME ManagerAssumption PROVE DialogSpec => []DialogSound
    OBVIOUS
  <1>1. DialogInit => DialogInv
    BY DialogInitInv
  <1>2. DialogInv /\ [DialogNext]_dialogVars => DialogInv'
    BY DialogNextInv
  <1>3. DialogInv => DialogSound
    BY InvIsSound
  <1> QED BY <1>1, <1>2, <1>3, PTL DEF DialogSpec
=============================================================================
