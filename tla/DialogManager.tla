--------------------------- MODULE DialogManager ---------------------------
(***************************************************************************)
(* The VoiceXML dialog manager (voicexml_dialog_manager.c): the CCXML      *)
(* adapter that prepares, starts and terminates dialogs by ticket, and     *)
(* run_ready, which works on the rows in turn and tells the CCXML side     *)
(* about them through a bounded event sink.                                *)
(*                                                                         *)
(* The manager is called by one thread at a time.  run_ready is a loop     *)
(* over the rows, and the work on one row a loop over the hand-offs of its *)
(* session (script, submission, next document); each turn of either loop   *)
(* is a step.  What a session does until its next stop is one of the       *)
(* states the manager tells apart.  The caller settles each ticket once,   *)
(* possibly long after the manager was closed.                             *)
(***************************************************************************)
EXTENDS Integers, FiniteSets, Sequences, SequencesExt

CONSTANTS
    dm_capacity, dm_max_navigation_hops, max_script_steps,   \* the configuration
    SessionStops,     \* bound: the states a session may stop in
    MaxDialogs,       \* bound: dialogs ever asked for
    MaxDialogWork     \* bound: largest max_work of a call of run_ready

ManagerAssumption ==
    /\ dm_capacity \in Nat \ {0} /\ dm_max_navigation_hops \in Nat \ {0}
    /\ SessionStops \subseteq {"RUNNING", "NAVIGATING", "SUBMITTING", "SCRIPTING", "EXITED"}
    /\ max_script_steps \in Nat /\ MaxDialogs \in Nat \ {0} /\ MaxDialogWork \in Nat \ {0}

VARIABLES
    rows,      \* impl->rows
    held,      \* what the rows hold outside: documents, programs, responses, audio
    closed,    \* impl->closed
    next,      \* impl->next_progress_slot
    run,       \* the call of run_ready under way
    tickets,   \* tickets handed out and not settled
    sink,      \* "OPEN" or, for good, "CLOSED"
    told,      \* history: the events of each dialog that the sink accepted
    asked      \* history: the dialogs whose creation was committed

dialogVars == <<rows, held, closed, next, run, tickets, sink, told, asked>>

DialogRows == 1 .. dm_capacity
Dialogs == DialogRows \X (1 .. MaxDialogs)
IdOf(r) == <<r, rows[r].generation>>

Creating == {"PREPARE", "DIRECT_START"}
Kinds == Creating \cup {"PREPARED_START", "TERMINATE"}
RESERVED(kind) == <<"RESERVED", kind>>
PENDING(kind) == <<"PENDING", kind>>
State(name) == <<name, "NONE">>
EMPTY == State("EMPTY")
PREPARED == State("PREPARED")
RUNNING == State("RUNNING")
EVENT_PENDING == State("EVENT_PENDING")

FreeRow(generation) ==
    [generation |-> generation, state |-> EMPTY, restore_state |-> EMPTY,
     event |-> "NONE", restore_event |-> "NONE", ticket |-> "NONE",
     hops |-> 0, scripts |-> 0, program |-> FALSE, ref |-> FALSE,
     session |-> "NONE", started |-> FALSE]
NotRunning == [at |-> 0, seen |-> 0, work |-> 0]

DialogInit ==
    /\ rows = [r \in DialogRows |-> FreeRow(0)]
    /\ held = [documents |-> 0, programs |-> 0, responses |-> 0, audio |-> 0]
    /\ closed = FALSE /\ next = 1 /\ run = NotRunning
    /\ tickets = {} /\ sink = "OPEN"
    /\ told = [d \in Dialogs |-> <<>>] /\ asked = {}

-----------------------------------------------------------------------------
(* A row with what it holds.                                               *)

dialog_destroy_runtime(row, h) ==
    [row  |-> [row EXCEPT !.session = "NONE", !.program = FALSE, !.ref = FALSE],
     held |-> [h EXCEPT !.programs = @ - (IF row.program THEN 1 ELSE 0),
                        !.documents = @ - (IF row.ref THEN 1 ELSE 0)]]

dialog_clear(row, h) ==
    [row |-> FreeRow(row.generation), held |-> dialog_destroy_runtime(row, h).held]

queue_event(row, event) == [row EXCEPT !.event = event, !.state = EVENT_PENDING]
Failed(row) == queue_event(row, "ERROR_START")

Keep(row, h) == [row |-> row, held |-> h]

-----------------------------------------------------------------------------
(* The adapter: prepare a new dialog, the start of a prepared one, or a    *)
(* termination; the ticket is the address of the row.                      *)

FreeRows == {r \in DialogRows : rows[r].state = EMPTY}
find_empty_row == CHOOSE r \in FreeRows : \A q \in FreeRows : r <= q

EverAsked == {d \in Dialogs : d[2] <= rows[d[1]].generation}

Reserve(r, row, kind) ==
    /\ rows' = [rows EXCEPT ![r] = [row EXCEPT !.ticket = kind, !.state = RESERVED(kind)]]
    /\ tickets' = tickets \cup {[row |-> r, kind |-> kind, generation |-> row.generation]}
    /\ UNCHANGED <<held, closed, next, run, sink, told, asked>>

prepare_new_dialog(kind) ==
    /\ run = NotRunning /\ ~closed /\ FreeRows # {} /\ kind \in Creating
    /\ Cardinality(EverAsked) < MaxDialogs
    /\ Reserve(find_empty_row,
               [rows[find_empty_row] EXCEPT !.generation = @ + 1], kind)

Restorable(row) == [row EXCEPT !.restore_state = row.state, !.restore_event = row.event]

prepare_prepared_dialog_start(r) ==
    /\ run = NotRunning /\ ~closed /\ rows[r].state = PREPARED
    /\ Reserve(r, Restorable(rows[r]), "PREPARED_START")

Terminable(row) ==
    row.ticket = "NONE" /\ row.state \in {PREPARED, RUNNING, EVENT_PENDING}

prepare_dialog_terminate(r) ==
    /\ run = NotRunning /\ ~closed /\ Terminable(rows[r])
    /\ Reserve(r, Restorable(rows[r]), "TERMINATE")

-----------------------------------------------------------------------------
(* Settlement of a ticket; one whose row was cleared is only counted.      *)

(* What was saved for a discard is dead from here on, and is forgotten.    *)
Committed(row) ==
    [row EXCEPT !.ticket = "NONE", !.restore_state = EMPTY, !.restore_event = "NONE",
                !.state = IF row.state = RESERVED(row.ticket) THEN PENDING(row.ticket)
                          ELSE row.state]

ticket_commit(t) ==
    /\ run = NotRunning /\ t \in tickets
    /\ tickets' = tickets \ {t}
    /\ rows' = IF rows[t.row].ticket = "NONE" THEN rows
               ELSE [rows EXCEPT ![t.row] = Committed(@)]
    /\ asked' = IF rows[t.row].ticket \in Creating THEN asked \cup {IdOf(t.row)} ELSE asked
    /\ UNCHANGED <<held, closed, next, run, sink, told>>

\* Fault: the queued event is not put back.
Restored_State(row) == [row EXCEPT !.state = row.restore_state, !.ticket = "NONE",
                                   !.event = "NONE"]

Restored(row) ==
    [row EXCEPT !.state = row.restore_state, !.event = row.restore_event,
                !.ticket = "NONE", !.restore_state = EMPTY, !.restore_event = "NONE"]

Discarded(row, h) ==
    IF row.ticket \in Creating THEN dialog_clear(row, h) ELSE Keep(Restored(row), h)

ticket_discard(t) ==
    /\ run = NotRunning /\ t \in tickets
    /\ tickets' = tickets \ {t}
    /\ IF rows[t.row].ticket = "NONE" THEN UNCHANGED <<rows, held>>
       ELSE /\ rows' = [rows EXCEPT ![t.row] = Discarded(@, held).row]
            /\ held' = Discarded(rows[t.row], held).held
    /\ UNCHANGED <<closed, next, run, sink, told, asked>>

-----------------------------------------------------------------------------
(* Sessions.  start_current_session may fail before or after the session   *)
(* is live, or start it and let it run to its first stop.                  *)

start_current_session(row, h) ==
    {Keep([row EXCEPT !.session = s], h) : s \in SessionStops}
    \cup {Keep(Failed(row), h), Keep(Failed([row EXCEPT !.session = "FAILED"]), h)}

(* acquire_store_document, or compile_document of a manager that is not    *)
(* store backed: the program, or failure with nothing held.                *)
load_document_program(row, h, failure) ==
    {Keep(queue_event(row, failure), h),
     Keep([row EXCEPT !.ref = TRUE], [h EXCEPT !.documents = @ + 1]),
     Keep([row EXCEPT !.program = TRUE], [h EXCEPT !.programs = @ + 1])}

Loaded(results) == {x \in results : x.row.state # EVENT_PENDING}

HopsSpent(row) == row.hops >= dm_max_navigation_hops
Moved(row) == [row EXCEPT !.hops = @ + 1]

(* The next document is borrowed before the current one is let go; a       *)
(* failure before that leaves the row on the current one.                  *)
follow_navigation(row, h) ==
    IF HopsSpent(row) THEN {Keep(Failed(row), h)}
    ELSE LET gone == dialog_destroy_runtime(row, [h EXCEPT !.documents = @ + 1])
         IN {Keep(Failed(row), h)}
            \cup start_current_session(Moved([gone.row EXCEPT !.ref = TRUE]), gone.held)

(* A submission plays fetch audio while it waits, and its response is open *)
(* from the answer until it is compiled or refused.                        *)
Waiting(h, audio) == [h EXCEPT !.audio = @ + audio]
AnsweredResponse(h, audio) == [h EXCEPT !.audio = @ - audio, !.responses = @ + 1]

RefusedResponse(h) == [h EXCEPT !.responses = @ - 1]

Compiled(row, h) ==
    LET gone == dialog_destroy_runtime(row, [h EXCEPT !.responses = @ - 1, !.programs = @ + 1])
    IN start_current_session(Moved([gone.row EXCEPT !.program = TRUE]), gone.held)

follow_one_submit(row, h) ==
    IF HopsSpent(row) THEN {Keep(Failed(row), h)}
    ELSE {Keep(Failed(row), h)}
         \cup UNION {LET answered == AnsweredResponse(Waiting(h, audio), audio)
                     IN {Keep(Failed(row), RefusedResponse(answered))} \cup Compiled(row, answered)
                     : audio \in {0, 1}}

execute_script(row, h) ==
    IF row.scripts >= max_script_steps THEN {Keep(Failed(row), h)}
    ELSE {Keep([row EXCEPT !.scripts = @ + 1, !.session = s], h) : s \in SessionStops}
         \cup {Keep(Failed([row EXCEPT !.scripts = @ + 1]), h)}

HandsOff(row) == row.session \in {"NAVIGATING", "SUBMITTING", "SCRIPTING"}

(* One turn of the loop of follow_session_handoffs, or what follows it.    *)
follow_session_handoffs(row, h) ==
    CASE row.session = "SCRIPTING"  -> execute_script(row, h)
      [] row.session = "SUBMITTING" -> follow_one_submit(row, h)
      [] row.session = "NAVIGATING" -> follow_navigation(row, h)
      [] OTHER -> {Keep(IF ~row.started THEN queue_event(row, "STARTED")
                        ELSE IF row.session = "EXITED" THEN queue_event(row, "EXIT")
                        ELSE [row EXCEPT !.state = RUNNING], h)}

-----------------------------------------------------------------------------
(* The work on one row, up to its hand-offs and its events.                *)

(* The row is quiesced, told that the caller hung up, and emptied.         *)
Terminated(row, h) ==
    LET gone == dialog_destroy_runtime(row, h)
    IN Keep(queue_event(gone.row, "EXIT"), gone.held)

StartLoaded(results) ==
    (results \ Loaded(results))
    \cup UNION {start_current_session(x.row, x.held) : x \in Loaded(results)}

progress_row(row, h) ==
    CASE row.state = PENDING("PREPARE") ->
           LET loaded == load_document_program(row, h, "ERROR_PREPARE")
           IN (loaded \ Loaded(loaded))
              \cup {Keep(queue_event(x.row, "PREPARED"), x.held) : x \in Loaded(loaded)}
      [] row.state = PENDING("DIRECT_START") ->
           StartLoaded(load_document_program(row, h, "ERROR_START"))
      [] row.state = PENDING("PREPARED_START") -> start_current_session(row, h)
      [] row.state = PENDING("TERMINATE") -> {Terminated(row, h)}
      [] row.state = RUNNING ->
           {Keep(Failed(row), h)}
           \cup {Keep([row EXCEPT !.session = s], h) : s \in SessionStops}

Pending(row) == row.state \in {PENDING(k) : k \in Kinds}
Ready(row) == Pending(row) \/ row.state \in {EVENT_PENDING, RUNNING}

(* What publishing the queued event leaves of the row.                     *)
Published(row, h) ==
    CASE row.event = "PREPARED" -> Keep([row EXCEPT !.event = "NONE", !.state = PREPARED], h)
      [] row.event = "STARTED" ->
           LET started == [row EXCEPT !.started = TRUE]
           IN Keep(IF row.session = "EXITED" THEN queue_event(started, "EXIT")
                   ELSE [started EXCEPT !.event = "NONE", !.state = RUNNING], h)
      [] OTHER -> dialog_clear(row, h)

-----------------------------------------------------------------------------
(* run_ready.  run.at is the row being worked on, 0 between rows; seen     *)
(* counts the rows looked at, work what is left of max_work.  phase: a row *)
(* is first progressed, then handed off, then published until it rests.    *)

Under == run.at # 0
Row == rows[run.at]

dialog_run_begin(work) ==
    /\ run = NotRunning /\ ~closed
    /\ run' = [at |-> 0, seen |-> 0, work |-> work]
    /\ UNCHANGED <<rows, held, closed, next, tickets, sink, told, asked>>

\* Fault: the slot is advanced only when its row succeeds.
Advance_Later(r) == r

Advance(r) == IF r = dm_capacity THEN 1 ELSE r + 1

Put(x) == /\ rows' = [rows EXCEPT ![run.at] = x.row] /\ held' = x.held

(* The next row: passed over, or taken up and progressed.                  *)
run_row ==
    /\ run.work > 0 /\ ~Under /\ run.seen < dm_capacity
    /\ next' = Advance(next)
    /\ IF ~Ready(rows[next])
       THEN run' = [run EXCEPT !.seen = @ + 1] /\ UNCHANGED <<rows, held>>
       ELSE /\ run' = [at |-> next, seen |-> run.seen + 1, work |-> run.work - 1]
            /\ IF rows[next].state = EVENT_PENDING THEN UNCHANGED <<rows, held>>
               ELSE \E x \in progress_row(rows[next], held) :
                        /\ rows' = [rows EXCEPT ![next] = x.row] /\ held' = x.held
    /\ UNCHANGED <<closed, tickets, sink, told, asked>>

(* The hand-offs: from a start, or from a running session that went on.    *)
run_handoff ==
    /\ Under /\ Row.state \in {PENDING("DIRECT_START"), PENDING("PREPARED_START"), RUNNING}
    /\ HandsOff(Row) \/ Row.state # RUNNING \/ Row.session = "EXITED"
    /\ \E x \in follow_session_handoffs(Row, held) : Put(x)
    /\ UNCHANGED <<closed, next, run, tickets, sink, told, asked>>

run_publish ==
    /\ Under /\ Row.state = EVENT_PENDING /\ sink = "OPEN"
    /\ told' = [told EXCEPT ![IdOf(run.at)] = Append(@, Row.event)]
    /\ Put(Published(Row, held))
    /\ run' = IF Published(Row, held).row.state = EVENT_PENDING THEN run
              ELSE [run EXCEPT !.at = 0]
    /\ UNCHANGED <<closed, next, tickets, sink, asked>>

(* The sink is full, or closed: the call returns, the event stays queued.  *)
run_blocked ==
    /\ Under /\ Row.state = EVENT_PENDING
    /\ run' = NotRunning
    /\ UNCHANGED <<rows, held, closed, next, tickets, sink, told, asked>>

run_rested ==
    /\ Under /\ Row.state = RUNNING /\ Row.session = "RUNNING"
    /\ run' = [run EXCEPT !.at = 0]
    /\ UNCHANGED <<rows, held, closed, next, tickets, sink, told, asked>>

run_end ==
    /\ ~Under /\ run # NotRunning /\ (run.seen = dm_capacity \/ run.work = 0)
    /\ run' = NotRunning
    /\ UNCHANGED <<rows, held, closed, next, tickets, sink, told, asked>>

-----------------------------------------------------------------------------
(* close clears every row; the sessions in them are quiesced and closed.   *)

Clears(row) == row.state # EMPTY

HeldAfterClose ==
    LET cleared == {r \in DialogRows : Clears(rows[r])}
    IN [held EXCEPT !.documents = @ - Cardinality({r \in cleared : rows[r].ref}),
                    !.programs = @ - Cardinality({r \in cleared : rows[r].program})]

close ==
    /\ run = NotRunning /\ ~closed
    /\ closed' = TRUE
    /\ rows' = [r \in DialogRows |-> IF Clears(rows[r]) THEN FreeRow(rows[r].generation)
                                     ELSE rows[r]]
    /\ held' = HeldAfterClose
    /\ UNCHANGED <<next, run, tickets, sink, told, asked>>

sink_close ==
    /\ sink = "OPEN" /\ sink' = "CLOSED"
    /\ UNCHANGED <<rows, held, closed, next, run, tickets, told, asked>>

RunStep == run_row \/ run_handoff \/ run_publish \/ run_blocked \/ run_rested \/ run_end

DialogNext ==
    \/ \E kind \in Creating : prepare_new_dialog(kind)
    \/ \E r \in DialogRows : prepare_prepared_dialog_start(r) \/ prepare_dialog_terminate(r)
    \/ \E t \in tickets : ticket_commit(t) \/ ticket_discard(t)
    \/ \E work \in 1 .. MaxDialogWork : dialog_run_begin(work)
    \/ run_row \/ run_handoff \/ run_publish \/ run_blocked \/ run_rested \/ run_end
    \/ close \/ sink_close

(* The host calls run_ready again and again, a call returns, and the sink  *)
(* accepts an event that is offered to it again and again.                 *)
DialogFairness ==
    /\ WF_dialogVars(\E work \in 1 .. MaxDialogWork : dialog_run_begin(work))
    /\ WF_dialogVars(RunStep)
    /\ \A r \in DialogRows : SF_dialogVars(run.at = r /\ run_publish)

DialogSpec == DialogInit /\ [][DialogNext]_dialogVars
DialogFairSpec == DialogSpec /\ DialogFairness

-----------------------------------------------------------------------------
(* Properties.                                                             *)

(* No dialog follows more documents or scripts than its limits.            *)
DialogTypeOK ==
    /\ \A r \in DialogRows :
          /\ rows[r].generation \in 0 .. MaxDialogs
          /\ rows[r].hops \in 0 .. dm_max_navigation_hops
          /\ rows[r].scripts \in 0 .. max_script_steps
          /\ rows[r].ticket \in Kinds \cup {"NONE"}
          /\ ~(rows[r].ref /\ rows[r].program)
    /\ closed \in BOOLEAN /\ next \in DialogRows /\ sink \in {"OPEN", "CLOSED"}
    /\ run.at \in DialogRows \cup {0} /\ run.seen \in 0 .. dm_capacity
    /\ run.work \in 0 .. MaxDialogWork
    /\ asked \subseteq Dialogs

Ends == {"EXIT", "ERROR_PREPARE", "ERROR_START"}
TimesTold(d, e) == Cardinality({i \in DOMAIN told[d] : told[d][i] = e})

(* The CCXML side hears of a dialog in order: prepared first, started      *)
(* once, and nothing after the event that ends it, whatever was            *)
(* terminated, discarded, refused by a full sink or reused in between.     *)
EventsInOrder ==
    \A d \in Dialogs :
        /\ \A i \in DOMAIN told[d] :
              /\ told[d][i] \in Ends => i = Len(told[d])
              /\ told[d][i] \in {"PREPARED", "ERROR_PREPARE"} => i = 1
        /\ TimesTold(d, "STARTED") <= 1

(* A dialog whose creation was committed is never lost: until the manager  *)
(* closes it has its row, or its end was told.                             *)
NoDialogLost ==
    \A d \in asked :
        \/ closed
        \/ rows[d[1]].generation = d[2] /\ rows[d[1]].state # EMPTY
        \/ told[d] # <<>> /\ Last(told[d]) \in Ends

(* Documents, programs and responses: each held once by the row that uses  *)
(* it, and none outlives it.                                               *)
HeldExactly ==
    /\ held.documents = Cardinality({r \in DialogRows : rows[r].ref})
    /\ held.programs = Cardinality({r \in DialogRows : rows[r].program})
    /\ held.responses = 0 /\ held.audio = 0

(* The ticket a caller holds is the one its row waits for, or its row was  *)
(* cleared by the closing: settling it cannot act on another reservation.  *)
DialogTicketIsOwn ==
    \A t \in tickets :
        /\ \/ rows[t.row].generation = t.generation /\ rows[t.row].ticket = t.kind
           \/ closed /\ rows[t.row].state = EMPTY /\ rows[t.row].ticket = "NONE"
        /\ \A u \in tickets : u.row = t.row => u = t

(* A discarded termination is no termination: an event that was waiting to *)
(* be told is still told, and the row is never left without its next step. *)
EventKept ==
    \A r \in DialogRows :
        /\ rows[r].state = EVENT_PENDING => rows[r].event # "NONE"
        /\ rows[r].state = RUNNING /\ run.at # r => rows[r].session = "RUNNING"

(* A closed manager is empty: only tickets are left, and they do nothing.  *)
ClosedIsEmpty == closed => \A r \in DialogRows : rows[r].state = EMPTY

(* Committed work comes to rest and a queued event is told, whatever the   *)
(* other rows do and however often the sink is full in between.            *)
WorkIsDone ==
    \A r \in DialogRows :
        []<>(~(Pending(rows[r]) \/ rows[r].state = EVENT_PENDING) \/ sink = "CLOSED")

(* No dialog, event, ticket or resource of a row is lost or given to       *)
(* another, and the CCXML side hears of each dialog in order.              *)
DialogSound ==
    /\ DialogTypeOK
    /\ EventsInOrder /\ NoDialogLost /\ EventKept
    /\ HeldExactly /\ DialogTicketIsOwn /\ ClosedIsEmpty
=============================================================================
