------------------------------ MODULE VoiceFia ------------------------------
(***************************************************************************)
(* The form interpretation algorithm of a CMeta session                    *)
(* (voicexml_cmeta_session.c): form initialization, selection, blocks,     *)
(* filled processes, event dispatch and the executable content they run.   *)
(*                                                                         *)
(* All of it runs on the owner's thread inside one call of the host; a     *)
(* step of the model is one action row, one scope of a lookup or one pass. *)
(* Values are abstracted to which slots are bound: slot 0 is a variable,   *)
(* slot i the variable of item i, slot -i the control slot of transfer i.  *)
(* An expression may succeed, fail with an Event of the expression backend *)
(* or fail with a status alone, and may have written before it failed.     *)
(***************************************************************************)
EXTENDS Integers, FiniteSets, Sequences, SequencesExt

CONSTANTS
    Kind,          \* the items of the form, in document order
    Conditional,   \* the items that have a condition
    ItemExpr,      \* the initials and blocks that have an initial expression
    Scripts,       \* the initializers of document and form, each "DOCUMENT" or "FORM"
    Handler,       \* the event handlers: scope, event and count, in document order
    Filled,        \* the filled elements: mode, field and targets, in document order
    BlockBodies, FilledBodies, HandlerBodies,   \* the executable content to try
    Writable,      \* whether the program has an expression backend
    Outcomes,      \* what expressions do
    Events,        \* the events the host raises
    MaxSteps, MaxDepth, MaxFrames, MaxCounters,  \* the limits of session and program
    MaxCount       \* bound: stands for UINT_MAX, at which counters stay

Items == 1 .. Len(Kind)
Of(kind) == {i \in Items : Kind[i] = kind}
Controls == {-i : i \in Of("TRANSFER")}
Slots == {0} \cup Items \cup Controls
(* A transfer is selected by its control slot, any other item by its own.  *)
Guard(i) == IF Kind[i] = "TRANSFER" THEN -i ELSE i
Statuses == {"OK", "LIMIT", "SEMANTIC", "STATE", "STRUCTURE", "SCRIPT"}
NoEvent == <<>>
Semantic == <<"error", "semantic">>
(* Scopes by rank: the active item, the form, the document.                *)
FormScope == <<1, 0>>
DocumentScope == <<2, 0>>
Scopes == {<<0, i>> : i \in Items} \cup {FormScope, DocumentScope}

FiaAssumption ==
    /\ Kind \in Seq({"FIELD", "INITIAL", "BLOCK", "RECORD", "TRANSFER", "SUBDIALOG"})
    /\ Conditional \subseteq Items /\ ItemExpr \subseteq Of("INITIAL") \cup Of("BLOCK")
    /\ Of("BLOCK") \in {{}, Items} /\ Writable \in BOOLEAN
    /\ Outcomes \subseteq {"TRUE", "FALSE", "EVENT", "STATUS"}
    /\ {MaxSteps, MaxDepth, MaxFrames, MaxCounters, MaxCount} \subseteq Nat \ {0}

VARIABLES
    prog,   \* the executable content of blocks, filled elements and handlers
    s,      \* the session
    c       \* the call in progress: where it is, its frames and its lookup

vars == <<prog, s, c>>

-----------------------------------------------------------------------------
(* Transactions.                                                           *)

transaction_reset(t) == [t EXCEPT !.staged = {}, !.retry_reset = {}, !.submit = FALSE]

(* base and asked are history: the committed values the transaction        *)
(* started from, and whether its content asked for a transfer.             *)
transaction_begin(t) ==
    [transaction_reset(t) EXCEPT !.navigation = FALSE, !.staged = t.committed,
                                 !.base = t.committed, !.asked = FALSE]

reset_owner_retry_counters(counter, owners) ==
    [k \in DOMAIN counter |->
        IF k[1] \in {<<0, i>> : i \in owners} /\ k[2] \in {<<"noinput">>, <<"nomatch">>}
        THEN 0 ELSE counter[k]]

apply_retry_resets(t) ==
    [t EXCEPT !.counter = reset_owner_retry_counters(t.counter, t.retry_reset)]

transaction_commit(t) ==
    [transaction_reset([apply_retry_resets(t) EXCEPT !.committed = t.staged])
        EXCEPT !.submit = t.submit]

session_fail(t, status) == [t EXCEPT !.state = "FAILED", !.error = status]

publish_pending_submit(t) == [t EXCEPT !.submit = FALSE, !.state = "SUBMITTING"]

publish_pending_navigation(t) == [t EXCEPT !.navigation = FALSE, !.state = "NAVIGATING"]

publish_pending_control(t) ==
    IF t.submit /\ t.navigation THEN session_fail(t, "STRUCTURE")
    ELSE IF t.submit THEN publish_pending_submit(t)
    ELSE publish_pending_navigation(t)

terminal_publish(t) == [t EXCEPT !.state = "EXITED", !.terminal = t.exit, !.exit = "NONE"]

(* What a committed range left to publish, if anything.                    *)
Leaves(t) == t.submit \/ t.navigation \/ t.exit # "NONE"
Publish(t) == IF t.submit \/ t.navigation THEN publish_pending_control(t)
              ELSE terminal_publish(t)

consume_step(t) == [t EXCEPT !.steps = @ + 1]
Spent(t) == t.steps >= MaxSteps

-----------------------------------------------------------------------------
(* Expressions: the results a session may be left with, each with what the *)
(* expression returned.                                                    *)

evaluate_expression(t) ==
    {[t |-> t, is |-> "TRUE"]}
    \cup UNION {{[t |-> [t EXCEPT !.failure = IF o = "EVENT" THEN Semantic ELSE NoEvent,
                                  !.staged = @ \cup w],
                  is |-> o] : w \in {{}, {0}}} :
                    o \in Outcomes \cap (IF Writable THEN {"EVENT", "STATUS"} ELSE {"STATUS"})}

evaluate_condition(t) ==
    evaluate_expression(t)
    \cup (IF "FALSE" \in Outcomes THEN {[t |-> t, is |-> "FALSE"]} ELSE {})

Holds(r) == r.is \in {"TRUE", "FALSE"}
OK(t) == [t |-> t, status |-> "OK"]
Error(t, status) == [t |-> [t EXCEPT !.failure = NoEvent], status |-> status]

(* A computation that goes on with f when the expression has a value.      *)
AfterValue(t, f(_)) ==
    {IF r.is = "TRUE" THEN f(r.t) ELSE [t |-> r.t, status |-> "SCRIPT"] :
        r \in evaluate_expression(t)}

-----------------------------------------------------------------------------
(* Executable content.                                                     *)

(* Undefined clears the slot; a part of an unbound value cannot be set.    *)
assign_resolved_location(t, a) ==
    IF a.value = "UNDEFINED" THEN OK([t EXCEPT !.staged = @ \ {a.slot}])
    ELSE IF ~a.direct /\ a.slot \notin t.staged THEN Error(t, "SEMANTIC")
    ELSE OK([t EXCEPT !.staged = @ \cup {a.slot}])

execute_assign(t, a) == AfterValue(t, LAMBDA u : assign_resolved_location(u, a))

execute_var(t) == AfterValue(t, LAMBDA u : OK([u EXCEPT !.staged = @ \cup {0}]))

(* Clearing a transfer's result also opens its control slot.               *)
reset_transfer_control_by_result_slot(targets) == {-i : i \in targets \cap Of("TRANSFER")}

mark_field_retry_reset(t, targets) == [t EXCEPT !.retry_reset = @ \cup targets]

execute_clear(t, a) ==
    OK([mark_field_retry_reset(t, a.slots \cap (Of("FIELD") \cup Of("INITIAL")))
        EXCEPT !.staged = @ \ (a.slots \cup reset_transfer_control_by_result_slot(a.slots))])

execute_exit(t) == AfterValue(t, LAMBDA u : OK([u EXCEPT !.exit = "EXIT", !.asked = TRUE]))

(* A return of values reads them; a return of an Event does not.           *)
execute_return(t, a) ==
    IF a.slots \subseteq t.staged THEN OK([t EXCEPT !.exit = "RETURN", !.asked = TRUE])
    ELSE Error(t, "SEMANTIC")

execute_disconnect(t) == OK([t EXCEPT !.exit = "DISCONNECT", !.asked = TRUE])

execute_throw(t, a) == OK([t EXCEPT !.thrown = a.event])

execute_rethrow(t) ==
    IF t.dispatching THEN OK([t EXCEPT !.rethrow = TRUE]) ELSE Error(t, "STATE")

execute_reprompt(t) ==
    IF t.dispatching THEN OK([t EXCEPT !.handler_reprompt = TRUE]) ELSE Error(t, "STATE")

execute_goto(t) ==
    IF t.navigation THEN Error(t, "STRUCTURE") ELSE OK([t EXCEPT !.navigation = TRUE, !.asked = TRUE])

execute_submit(t, a) ==
    IF t.submit THEN Error(t, "STRUCTURE")
    ELSE IF a.slots \subseteq t.staged THEN OK([t EXCEPT !.submit = TRUE, !.asked = TRUE])
    ELSE Error(t, "SEMANTIC")

Execute(t, a) ==
    CASE a.kind = "VAR"        -> execute_var(t)
      [] a.kind = "ASSIGN"     -> execute_assign(t, a)
      [] a.kind = "SCRIPT"     -> AfterValue(t, OK)
      [] a.kind = "CLEAR"      -> {execute_clear(t, a)}
      [] a.kind = "EXIT"       -> execute_exit(t)
      [] a.kind = "RETURN"     -> {execute_return(t, a)}
      [] a.kind = "DISCONNECT" -> {execute_disconnect(t)}
      [] a.kind = "THROW"      -> {execute_throw(t, a)}
      [] a.kind = "RETHROW"    -> {execute_rethrow(t)}
      [] a.kind = "REPROMPT"   -> {execute_reprompt(t)}
      [] a.kind = "GOTO"       -> {execute_goto(t)}
      [] a.kind = "SUBMIT"     -> {execute_submit(t, a)}

(* The actions that end the range they are in.                             *)
Transfers == {"EXIT", "RETURN", "DISCONNECT", "THROW", "RETHROW", "GOTO", "SUBMIT"}

-----------------------------------------------------------------------------
(* A call in progress.  after says what follows a dispatch; failed is      *)
(* history: the lookup answers a failure, of the block guard.              *)

Idle == [at |-> "IDLE", status |-> "OK", range |-> "NONE", index |-> 0, frames |-> <<>>,
         queue |-> <<>>, completed |-> {}, event |-> NoEvent, origin |-> <<>>, rank |-> 0,
         depth |-> 0, unhandled |-> "OK", after |-> "HOST", failed |-> FALSE, guard |-> {},
         last |-> -1]

Return == c' = Idle
Continue(t, next) == /\ s' = t /\ c' = IF t.state = "RUNNING" THEN next ELSE Idle

(* Start of a range: what was to be published and thrown is forgotten.     *)
terminal_pending_reset(t) == [t EXCEPT !.exit = "NONE"]

Body(range, i) == CASE range = "BLOCK" -> prog.block[i]
                    [] range = "FILLED" -> prog.filled[i]
                    [] range = "HANDLER" -> prog.handler[i]

EnterRange(d, range, i) ==
    [d EXCEPT !.at = "RUN", !.range = range, !.index = i, !.status = "OK",
              !.frames = <<Body(range, i)>>]

(* One row: the frame is moved past it, a step is spent, it is executed.   *)
(* An if pushes the branch that is taken; rows that transfer control end   *)
(* the range.                                                              *)
execute_action_range ==
    /\ c.at = "RUN"
    /\ prog' = prog
    /\ LET frame == IF c.frames = <<>> THEN <<>> ELSE Last(c.frames)
           outer == IF c.frames = <<>> THEN <<>> ELSE Front(c.frames)
           done(status) == [c EXCEPT !.at = "RETURN", !.status = status, !.frames = <<>>]
       IN \/ /\ c.frames = <<>>
             /\ c' = done("OK") /\ s' = s
          \/ /\ c.frames # <<>> /\ frame = <<>>
             /\ c' = [c EXCEPT !.frames = outer] /\ s' = s
          \/ /\ frame # <<>> /\ Spent(s)
             /\ c' = done("LIMIT") /\ s' = [s EXCEPT !.failure = NoEvent]
          \/ /\ frame # <<>> /\ ~Spent(s)
             /\ LET a == Head(frame)
                    rest == Append(outer, Tail(frame))
                    t == consume_step(s)
                IN \/ /\ a.kind = "IF"
                      /\ \E r \in evaluate_condition(t) :
                            LET branch == IF r.is = "TRUE" THEN a.then ELSE a.else
                            IN IF ~Holds(r) THEN s' = r.t /\ c' = done("SCRIPT")
                               ELSE IF branch = <<>>
                                    THEN s' = r.t /\ c' = [c EXCEPT !.frames = rest]
                               ELSE IF Len(rest) >= MaxFrames
                                    THEN /\ s' = [r.t EXCEPT !.failure = NoEvent]
                                         /\ c' = done("LIMIT")
                               ELSE s' = r.t /\ c' = [c EXCEPT !.frames = Append(rest, branch)]
                   \/ /\ a.kind # "IF"
                      /\ \E r \in Execute(t, a) :
                            /\ s' = r.t
                            /\ c' = IF r.status # "OK" \/ a.kind \in Transfers
                                    THEN done(r.status) ELSE [c EXCEPT !.frames = rest]

-----------------------------------------------------------------------------
(* Event dispatch.                                                         *)

(* The scope of a rank: that of the origin where there is one; blocks have *)
(* no handlers of their own.                                               *)
event_scope_owner(rank) ==
    IF c.origin # <<>> /\ c.origin[1] = rank THEN c.origin
    ELSE IF rank = 1 THEN FormScope
    ELSE IF rank = 2 THEN DocumentScope
    ELSE IF s.active # 0 /\ Kind[s.active] # "BLOCK" THEN <<0, s.active>>
    ELSE <<>>

(* Counters are kept for the life of the session, in a table with a limit. *)
event_counter_next(t, scope, event) ==
    LET k == <<scope, event>>
        old == IF k \in DOMAIN t.counter THEN t.counter[k] ELSE 0
        new == IF old = MaxCount THEN old ELSE old + 1
    IN [t EXCEPT !.counter = [j \in DOMAIN @ \cup {k} |-> IF j = k THEN new ELSE @[j]]]

CounterFull(t, scope, event) ==
    /\ <<scope, event>> \notin DOMAIN t.counter
    /\ Cardinality(DOMAIN t.counter) >= MaxCounters

event_prefix_match(pattern, event) == IsPrefix(pattern, event)

(* The scan keeps the first row unless a later one is better.              *)
select_event_handler(scope, event, occurrence) ==
    FoldLeft(LAMBDA best, h :
                LET row == Handler[h]
                IN IF \/ row.scope # scope \/ row.count > occurrence
                      \/ ~event_prefix_match(row.event, event) THEN best
                   ELSE IF \/ best = 0
                           \/ Len(row.event) > Len(Handler[best].event)
                           \/ /\ Len(row.event) = Len(Handler[best].event)
                              /\ row.count > Handler[best].count THEN h
                   ELSE best,
             0, [i \in 1 .. Len(Handler) |-> i])

(* A new lookup of an event, from a rank outward.                          *)
LookupFrom(d, rank) ==
    [d EXCEPT !.at = "LOOKUP", !.rank = rank, !.depth = @ + 1, !.status = "OK"]

dispatch_event_impl(t, d, event, origin, unhandled, after) ==
    IF Len(Handler) = 0 THEN Continue(session_fail(t, unhandled), Idle)
    ELSE Continue(t, LookupFrom([d EXCEPT !.event = event, !.origin = origin,
                                          !.unhandled = unhandled, !.after = after,
                                          !.depth = 0, !.last = -1],
                                IF origin = <<>> THEN 0 ELSE origin[1]))

(* A failure with an Event is dispatched, any other ends the session.      *)
recover_backend_failure(t, status, after, guard) ==
    IF t.failure = NoEvent THEN s' = session_fail(t, status) /\ Return
    ELSE dispatch_event_impl([t EXCEPT !.failure = NoEvent],
            [Idle EXCEPT !.failed = TRUE, !.guard = guard],
            t.failure, t.failure_scope, status, after)

execute_event_handler(t) ==
    [transaction_begin(terminal_pending_reset(t))
        EXCEPT !.thrown = NoEvent, !.rethrow = FALSE, !.handler_reprompt = FALSE,
               !.dispatching = TRUE]

lookup ==
    /\ c.at = "LOOKUP"
    /\ prog' = prog
    /\ LET scope == IF c.rank = 3 THEN <<>> ELSE event_scope_owner(c.rank)
           t == event_counter_next(s, scope, c.event)
           h == select_event_handler(scope, c.event, t.counter[<<scope, c.event>>])
       IN \/ /\ c.depth > MaxDepth
             /\ s' = session_fail(s, "LIMIT") /\ Return
          \/ /\ c.depth <= MaxDepth /\ c.rank = 3
             /\ s' = session_fail(s, c.unhandled) /\ Return
          \/ /\ c.depth <= MaxDepth /\ c.rank < 3 /\ scope = <<>>
             /\ s' = s /\ c' = [c EXCEPT !.rank = @ + 1]
          \/ /\ c.depth <= MaxDepth /\ scope # <<>> /\ CounterFull(s, scope, c.event)
             /\ s' = session_fail(s, "LIMIT") /\ Return
          \/ /\ c.depth <= MaxDepth /\ scope # <<>> /\ ~CounterFull(s, scope, c.event)
             /\ IF h = 0 THEN s' = t /\ c' = [c EXCEPT !.rank = @ + 1]
                ELSE /\ s' = execute_event_handler(t)
                     /\ c' = EnterRange([c EXCEPT !.failed = FALSE, !.guard = {}], "HANDLER", h)

(* What follows a dispatch that left the session running.                  *)
Resume(t) ==
    CASE c.after = "HOST"       -> s' = t /\ Return
      [] c.after = "INITIALIZE" -> s' = [t EXCEPT !.state = "EXITED"] /\ Return
      [] c.after = "SELECT"     -> s' = t /\ c' = [Idle EXCEPT !.at = "SELECT"]
      [] c.after = "BLOCK"      -> s' = t /\ c' = [Idle EXCEPT !.at = "BLOCK"]

(* The end of a handler.  A failing one is answered like any failure, from *)
(* its own scope and within the same depth.                                *)
return_rethrow(t) == [c EXCEPT !.last = c.rank, !.rank = c.rank + 1]

return_handler ==
    /\ c.at = "RETURN" /\ c.range = "HANDLER"
    /\ prog' = prog
    /\ LET row == Handler[c.index]
           t == [s EXCEPT !.dispatching = FALSE]
           u == [transaction_commit(t) EXCEPT !.reprompt = @ \/ t.handler_reprompt,
                                              !.handler_reprompt = FALSE]
           from == IF c.origin = <<>> THEN <<>> ELSE row.scope
       IN IF c.status # "OK"
          THEN LET r == [transaction_reset(t) EXCEPT
                            !.thrown = NoEvent, !.rethrow = FALSE, !.handler_reprompt = FALSE,
                            !.failure = NoEvent]
               IN IF t.failure = NoEvent THEN s' = session_fail(r, c.status) /\ Return
                  ELSE /\ s' = r
                       /\ c' = LookupFrom([c EXCEPT !.event = t.failure, !.last = -1,
                                    !.origin = row.scope, !.unhandled = c.status,
                                    !.failed = TRUE], row.scope[1])
          ELSE IF Leaves(u)
          THEN s' = Publish([u EXCEPT !.reprompt =
                        IF t.submit \/ t.navigation THEN s.reprompt ELSE @]) /\ Return
          ELSE IF u.thrown # NoEvent
          THEN /\ s' = [u EXCEPT !.thrown = NoEvent]
               /\ c' = LookupFrom([c EXCEPT !.event = u.thrown, !.unhandled = "SEMANTIC",
                            !.last = -1, !.origin = from],
                            IF from = <<>> THEN 0 ELSE from[1])
          ELSE IF u.rethrow
          THEN LET d == return_rethrow(u)
               IN /\ s' = [u EXCEPT !.rethrow = FALSE]
                  /\ c' = IF d.rank < 3 THEN LookupFrom(d, d.rank)
                          ELSE [d EXCEPT !.at = "LOOKUP"]
          ELSE Resume(u)

-----------------------------------------------------------------------------
(* Start: the initializers, then the expressions of the items.             *)

RECURSIVE initialize_initializers(_, _)
initialize_initializers(t, scripts) ==
    IF scripts = <<>> THEN {OK(t)}
    ELSE IF Spent(t)
    THEN {Error(t, "LIMIT")}
    ELSE UNION {IF r.is = "TRUE" THEN initialize_initializers(r.t, Tail(scripts))
                ELSE {[t |-> [r.t EXCEPT !.failure_scope =
                                IF Head(scripts) = "FORM" THEN FormScope ELSE DocumentScope],
                       status |-> "SCRIPT"]} :
                  r \in evaluate_expression(consume_step(t))}

(* The expression of an item gives it a value, or leaves it undefined; its *)
(* failure says nothing of the scope.                                      *)
RECURSIVE initialize_items(_, _)
initialize_items(t, exprs) ==
    IF exprs = {} THEN {OK(t)}
    ELSE LET i == CHOOSE j \in exprs : \A k \in exprs : j <= k
         IN UNION {IF r.is = "TRUE"
                   THEN UNION {initialize_items([r.t EXCEPT !.staged = @ \cup v], exprs \ {i}) :
                                  v \in {{}, {i}}}
                   ELSE {[t |-> r.t, status |-> "SCRIPT"]} : r \in evaluate_expression(t)}

initialize_form(t) ==
    UNION {IF r.status = "OK" THEN initialize_items(r.t, ItemExpr) ELSE {r} :
              r \in initialize_initializers(t, Scripts)}

start ==
    /\ c.at = "IDLE" /\ s.state = "READY"
    /\ prog' = prog
    /\ LET t == transaction_begin([s EXCEPT !.state = "RUNNING"])
       IN \E r \in initialize_form(t) :
            IF r.status # "OK"
            THEN recover_backend_failure(transaction_reset(r.t), r.status, "INITIALIZE", {})
            ELSE Continue(transaction_commit(r.t),
                    [Idle EXCEPT !.at = IF Of("BLOCK") # {} THEN "BLOCK" ELSE "SELECT"])

-----------------------------------------------------------------------------
(* Selection: the first item without a value whose condition holds.  An    *)
(* initial without a condition needs a form none of whose fields is        *)
(* filled.  Conditions are evaluated up to the one that holds or fails.    *)

form_has_bound_input(values) == Of("FIELD") \cap values # {}

RECURSIVE select_directed_item_pass(_, _)
select_directed_item_pass(t, i) ==
    LET values == IF Writable THEN t.staged ELSE t.committed
        taken == {[t |-> [t EXCEPT !.active = i], status |-> "OK"]}
        next(u) == select_directed_item_pass(u, i + 1)
    IN IF i > Len(Kind)
       THEN {OK([t EXCEPT !.active = 0, !.state = "EXITED", !.terminal = "END"])}
       ELSE IF Guard(i) \in values THEN next(t)
       ELSE IF i \in Conditional
       THEN UNION {IF r.is = "TRUE" THEN {OK([r.t EXCEPT !.active = i])}
                   ELSE IF r.is = "FALSE" THEN next(r.t)
                   ELSE {[t |-> [r.t EXCEPT !.active = 0], status |-> "SCRIPT"]} :
                       r \in evaluate_condition(t)}
       ELSE IF Kind[i] = "INITIAL" /\ form_has_bound_input(values) THEN next(t)
       ELSE taken

SelectStep(t) == consume_step(t)

(* With a backend the pass is a transaction, repeated after each catch.    *)
select_directed_item ==
    /\ c.at = "SELECT"
    /\ prog' = prog
    /\ IF Writable
       THEN \/ /\ Spent(s) /\ s' = session_fail(s, "LIMIT") /\ Return
            \/ /\ ~Spent(s)
               /\ LET t == [transaction_begin(SelectStep(s)) EXCEPT !.failure = NoEvent]
                  IN \E r \in select_directed_item_pass(t, 1) :
                        IF r.status = "OK" THEN s' = transaction_commit(r.t) /\ Return
                        ELSE recover_backend_failure(
                                [transaction_reset(r.t) EXCEPT !.failure_scope = FormScope],
                                r.status, "SELECT", {})
       ELSE \E r \in select_directed_item_pass(s, 1) :
               /\ s' = IF r.status = "OK" THEN r.t ELSE session_fail(r.t, r.status)
               /\ Return

-----------------------------------------------------------------------------
(* Blocks: selected like items, in the transaction their content runs in.  *)

BlockStep(t) == consume_step(t)

block_enter(t) ==
    /\ s' = [terminal_pending_reset(t) EXCEPT !.staged = @ \cup {t.active}]
    /\ c' = EnterRange(c, "BLOCK", t.active)

block_select ==
    /\ c.at = "BLOCK" /\ Writable
    /\ prog' = prog
    /\ \/ /\ Spent(s) /\ s' = session_fail(s, "LIMIT") /\ Return
       \/ /\ ~Spent(s)
          /\ \E r \in select_directed_item_pass(transaction_begin(BlockStep(s)), 1) :
                IF r.status # "OK"
                THEN recover_backend_failure(
                        [transaction_reset(r.t) EXCEPT !.failure_scope = FormScope],
                        r.status, "BLOCK", {})
                ELSE IF r.t.active = 0 THEN s' = transaction_commit(r.t) /\ Return
                ELSE block_enter(r.t)

(* Without a backend the values are those committed, and only a block that *)
(* is found costs a step and opens a transaction.                          *)
block_select_native ==
    /\ c.at = "BLOCK" /\ ~Writable
    /\ prog' = prog
    /\ \E r \in select_directed_item_pass(s, 1) :
          IF r.status # "OK" THEN s' = session_fail(r.t, r.status) /\ Return
          ELSE IF r.t.active = 0 THEN s' = r.t /\ Return
          ELSE IF Spent(r.t) THEN s' = session_fail(r.t, "LIMIT") /\ Return
          ELSE block_enter(transaction_begin(consume_step(r.t)))

(* A block that failed has been visited all the same; only its effects are *)
(* undone.                                                                 *)
FailedBlock(t) == [transaction_reset(t) EXCEPT !.committed = @ \cup {t.active}]

return_block ==
    /\ c.at = "RETURN" /\ c.range = "BLOCK"
    /\ prog' = prog
    /\ LET t == transaction_commit(s)
       IN IF c.status # "OK"
          THEN IF s.failure = NoEvent
               THEN s' = session_fail(transaction_reset(s), c.status) /\ Return
               ELSE recover_backend_failure([FailedBlock(s) EXCEPT !.failure_scope = FormScope],
                        c.status, "BLOCK", {s.active})
          ELSE IF Leaves(t) THEN s' = Publish(t) /\ Return
          ELSE s' = t /\ c' = [Idle EXCEPT !.at = "BLOCK"]

-----------------------------------------------------------------------------
(* Completions and their filled processes: the element's own filled, or    *)
(* after an initial those of the fields it filled, then the form's.        *)

OwnFilled(i) == SelectSeq([f \in 1 .. Len(Filled) |-> f],
                          LAMBDA f : Filled[f].mode = "FIELD" /\ Filled[f].field = i)
FormFilled == SelectSeq([f \in 1 .. Len(Filled) |-> f], LAMBDA f : Filled[f].mode # "FIELD")

execute_filled_process(i, completed) == OwnFilled(i) \o FormFilled
execute_record_filled_process(i) == OwnFilled(i)
execute_transfer_filled_process(i) == OwnFilled(i) \o FormFilled
execute_subdialog_filled_process(i) == OwnFilled(i) \o FormFilled
execute_initial_filled_process(completed) ==
    FlattenSeq([i \in Items |-> IF i \in completed THEN OwnFilled(i) ELSE <<>>]) \o FormFilled

mark_initial_controls_filled(t) == [t EXCEPT !.staged = @ \cup Of("INITIAL")]

\* Fault: a target bound by an earlier completion counts as filled by this one.
filled_should_run_for_results_Bound(t, f, completed) ==
    \/ Filled[f].mode = "FIELD"
    \/ Filled[f].mode = "ALL" /\ Filled[f].targets \subseteq t.staged
    \/ Filled[f].mode = "ANY" /\ Filled[f].targets \cap t.staged # {}

filled_should_run_for_results(t, f, completed) ==
    \/ Filled[f].mode = "FIELD"
    \/ Filled[f].mode = "ALL" /\ Filled[f].targets \subseteq t.staged
    \/ Filled[f].mode = "ANY" /\ Filled[f].targets \cap completed # {}

Complete(slots, bind, queue) ==
    LET t == transaction_begin(s)
    IN IF slots \cap t.staged # {} THEN s' = session_fail(transaction_reset(t), "SEMANTIC") /\ Return
       ELSE /\ s' = [t EXCEPT !.staged = @ \cup slots \cup bind]
            /\ c' = [Idle EXCEPT !.at = "FILLED", !.queue = queue, !.completed = slots]

Running(kind) == c.at = "IDLE" /\ s.state = "RUNNING" /\ s.active \in Of(kind)

collect_run_ready ==
    /\ prog' = prog
    /\ \E slots \in SUBSET Of("FIELD") :
        \/ /\ Running("FIELD") /\ s.active \in slots
           /\ Complete(slots, {}, execute_filled_process(s.active, slots))
        \/ /\ Running("INITIAL") /\ slots # {}
           /\ Complete(slots, mark_initial_controls_filled([s EXCEPT !.staged = {}]).staged,
                       execute_initial_filled_process(slots))

record_run_ready ==
    /\ Running("RECORD") /\ prog' = prog
    /\ Complete({s.active}, {}, execute_record_filled_process(s.active))

transfer_run_ready ==
    /\ Running("TRANSFER") /\ prog' = prog
    /\ Complete({s.active}, {-s.active}, execute_transfer_filled_process(s.active))

subdialog_run_ready ==
    /\ Running("SUBDIALOG") /\ prog' = prog
    /\ Complete({s.active}, {}, execute_subdialog_filled_process(s.active))

(* The next filled element of the queue, or the end of the process.        *)
filled_next ==
    /\ c.at = "FILLED"
    /\ prog' = prog
    /\ LET t == transaction_commit(mark_field_retry_reset(s, c.completed \cap Of("FIELD")))
           f == Head(c.queue)
           d == [c EXCEPT !.queue = Tail(@)]
       IN IF c.queue = <<>>
          THEN IF Leaves(t) THEN s' = Publish([t EXCEPT !.reprompt = FALSE]) /\ Return
               ELSE s' = [t EXCEPT !.reprompt = FALSE] /\ c' = [Idle EXCEPT !.at = "SELECT"]
          ELSE IF filled_should_run_for_results(s, f, c.completed)
          THEN s' = terminal_pending_reset(s) /\ c' = EnterRange(d, "FILLED", f)
          ELSE s' = s /\ c' = d

FilledScope(f) == IF Filled[f].mode = "FIELD" THEN <<0, Filled[f].field>> ELSE FormScope

(* Exit and goto end the process; a submit does not.                       *)
EndsProcess(t) == t.exit # "NONE" \/ t.navigation

return_filled ==
    /\ c.at = "RETURN" /\ c.range = "FILLED"
    /\ prog' = prog
    /\ IF c.status # "OK"
       THEN recover_backend_failure(
                [transaction_reset(s) EXCEPT !.failure_scope = FilledScope(c.index)],
                c.status, "SELECT", {})
       ELSE /\ s' = s
            /\ c' = [c EXCEPT !.at = "FILLED", !.queue = IF EndsProcess(s) THEN <<>> ELSE @]

-----------------------------------------------------------------------------
(* The host's other calls.                                                 *)

CanRaise == /\ c.at = "IDLE" /\ s.state = "RUNNING"
            /\ s.active # 0 => Kind[s.active] # "SUBDIALOG"

vxml_session_cmeta_raise ==
    /\ CanRaise /\ prog' = prog
    /\ \E e \in Events : dispatch_event_impl(s, Idle, e, <<>>, "SEMANTIC", "HOST")

vxml_session_cmeta_noinput ==
    /\ CanRaise /\ prog' = prog
    /\ dispatch_event_impl(s, Idle, <<"noinput">>, <<>>, "SEMANTIC", "HOST")

vxml_session_cmeta_nomatch ==
    /\ CanRaise /\ prog' = prog
    /\ dispatch_event_impl(s, Idle, <<"nomatch">>, <<>>, "SEMANTIC", "HOST")

vxml_session_cmeta_take_reprompt ==
    /\ c.at = "IDLE" /\ s.state = "RUNNING" /\ s.reprompt
    /\ s' = [s EXCEPT !.reprompt = FALSE]
    /\ UNCHANGED <<prog, c>>

Init ==
    /\ prog \in [block : [Of("BLOCK") -> BlockBodies],
                 filled : [1 .. Len(Filled) -> FilledBodies],
                 handler : [1 .. Len(Handler) -> HandlerBodies]]
    /\ s = [state |-> "READY", error |-> "OK", active |-> 0, committed |-> {}, staged |-> {},
            base |-> {}, asked |-> FALSE, retry_reset |-> {}, counter |-> [k \in {} |-> 0], submit |-> FALSE,
            navigation |-> FALSE, exit |-> "NONE", terminal |-> "NONE", thrown |-> NoEvent,
            rethrow |-> FALSE, handler_reprompt |-> FALSE, reprompt |-> FALSE,
            dispatching |-> FALSE, failure |-> NoEvent, failure_scope |-> DocumentScope,
            steps |-> 0]
    /\ c = Idle

Inside == \/ execute_action_range \/ lookup \/ return_handler \/ select_directed_item
          \/ block_select \/ block_select_native \/ return_block \/ filled_next \/ return_filled

Host == \/ start \/ collect_run_ready \/ record_run_ready \/ transfer_run_ready
        \/ subdialog_run_ready \/ vxml_session_cmeta_raise \/ vxml_session_cmeta_noinput
        \/ vxml_session_cmeta_nomatch \/ vxml_session_cmeta_take_reprompt

Next == Inside \/ Host

Spec == Init /\ [][Next]_vars
FairSpec == Spec /\ WF_vars(Inside)

-----------------------------------------------------------------------------
(* Properties.                                                             *)

TypeOK ==
    /\ s.state \in {"READY", "RUNNING", "EXITED", "FAILED", "SUBMITTING", "NAVIGATING"}
    /\ s.error \in Statuses /\ (s.state = "FAILED") = (s.error # "OK")
    /\ s.committed \subseteq Slots /\ s.staged \subseteq Slots
    /\ s.active \in 0 .. Len(Kind) /\ s.steps \in 0 .. MaxSteps
    /\ Cardinality(DOMAIN s.counter) <= MaxCounters
    /\ \A k \in DOMAIN s.counter : k[1] \in Scopes /\ s.counter[k] \in 0 .. MaxCount
    /\ c.depth \in 0 .. MaxDepth + 1 /\ Len(c.frames) <= MaxFrames
    /\ c.at # "IDLE" => s.state = "RUNNING"
    /\ (c.at = "IDLE" /\ s.state # "READY") => ~s.dispatching

(* Once an action has transferred control (exit, goto, submit), nothing    *)
(* more is executed before the transfer is published.                      *)
TransferBarrier == c.at = "RUN" /\ c.frames # <<>> => ~Leaves(s)

(* A transfer is never lost: selection does not go on, and no call returns *)
(* with the session running, after content that committed asked for one.   *)
NoTransferLost ==
    c.at \in {"SELECT", "BLOCK", "IDLE"} /\ s.state = "RUNNING" => ~s.asked /\ ~Leaves(s)

(* When a failure is dispatched its transaction is undone, of block,       *)
(* filled, handler, condition or initializer, the values a completion      *)
(* brought included; only the guard of a failed block stays set.           *)
RolledBack ==
    c.at = "LOOKUP" /\ c.failed =>
        /\ s.committed = s.base \cup c.guard
        /\ s.staged = {} /\ s.retry_reset = {} /\ ~s.submit

(* The retry counters of a field or initial go back to zero only when the  *)
(* content that cleared or filled it commits.                              *)
RetriesForgottenByCommit ==
    \A k \in DOMAIN s.counter :
        s'.counter[k] < s.counter[k] =>
            /\ k[1][2] \in s.retry_reset \/ k[1][2] \in c.completed
            /\ s'.committed = s.staged

(* The row a scope answers with has the longest name that matches, among   *)
(* those the highest count that was reached, and comes first among equals. *)
HandlerIsBest ==
    c.at = "RUN" /\ c.range = "HANDLER" =>
        LET chosen == Handler[c.index]
            n == s.counter[<<chosen.scope, c.event>>]
            fits == {h \in 1 .. Len(Handler) :
                        /\ Handler[h].scope = chosen.scope /\ Handler[h].count <= n
                        /\ IsPrefix(Handler[h].event, c.event)}
            better(h) == \/ Len(Handler[h].event) > Len(chosen.event)
                         \/ /\ Len(Handler[h].event) = Len(chosen.event)
                            /\ \/ Handler[h].count > chosen.count
                               \/ Handler[h].count = chosen.count /\ h < c.index
        IN c.index \in fits /\ \A h \in fits : ~better(h)

(* A rethrown event only reaches scopes outside those that rethrew it.     *)
RethrowGoesOut == c.at = "RUN" /\ c.range = "HANDLER" => c.rank > c.last

(* A form-level filled of mode any runs only for what this completion      *)
(* filled.                                                                 *)
AnyIsOfCompletion ==
    c.at = "RUN" /\ c.range = "FILLED" /\ Filled[c.index].mode = "ANY" =>
        Filled[c.index].targets \cap c.completed # {}

(* Every call returns: catches that retry are bounded by steps, chained    *)
(* events by depth.                                                        *)
CallReturns == []<>(c.at = "IDLE")

(* Transfers, failures and handlers of one call: nothing runs after a      *)
(* transfer, nothing staged survives a failure, and the handler that runs  *)
(* is the one that should.                                                 *)
FiaSound ==
    /\ TypeOK
    /\ TransferBarrier /\ NoTransferLost
    /\ RolledBack /\ AnyIsOfCompletion
    /\ HandlerIsBest /\ RethrowGoesOut
=============================================================================
