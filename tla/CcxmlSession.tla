---------------------------- MODULE CcxmlSession ----------------------------
(***************************************************************************)
(* A CCXML session (ccxml_session.c): attachment to its adapters, the      *)
(* dispatch of one event through guards and the actions of the selected    *)
(* transition, and the settlement of the effect tickets it prepared.       *)
(*                                                                         *)
(* A dispatch is a sequence of steps, one per guard and per action, since  *)
(* each of them calls an adapter that may refuse.  The datamodel has a     *)
(* state variable "var" and locations for identifiers, 0 being the empty   *)
(* string.  The compiled program is a parameter: a sequence of transitions *)
(* with the events and states they match.                                  *)
(***************************************************************************)
EXTENDS Integers, Sequences, FiniteSets

CONSTANTS
    Programs,                 \* the programs a session may be attached to
    Names, FatalNames,        \* event names; those that end an unready session
    max_foreach_iterations,   \* a limit of the compiler
    MaxToken,                 \* bound: UINT64_MAX
    MaxInits, MaxDispatches,  \* bounds: sessions, and events of one session
    Refusals                  \* what an adapter may answer besides ACCEPTED

CcxmlAssumption ==
    /\ FatalNames \subseteq Names /\ max_foreach_iterations \in Nat \ {0}
    /\ MaxToken \in Nat \ {0} /\ MaxInits \in Nat /\ MaxDispatches \in Nat
    /\ Refusals \subseteq {"FULL", "INVALID_CONTRACT", "ERROR"}

VARIABLES
    program,   \* impl.program
    x,         \* ccxml_session_impl, with the locals of a dispatch
    w          \* the adapters: datamodel, tickets, closings

vars == <<program, x, w>>

Unbound == -1
Locations == {"sid", "cid", "did"}
NoFrame == [live |-> FALSE, action |-> 0, iteration |-> 0, length |-> 0]
NoSession == [phase |-> "NONE", closed |-> FALSE, terminated |-> FALSE, errored |-> FALSE,
              dispatching |-> FALSE, status |-> "OK", selected |-> FALSE,
              exit_requested |-> FALSE, event |-> "", connection |-> FALSE,
              at |-> 0, index |-> 0, conditional |-> <<>>, tickets |-> <<>>,
              next_send_token |-> 0, committed |-> Unbound, staged |-> Unbound,
              checkpoint |-> Unbound, pending |-> FALSE, checkpoint_live |-> FALSE,
              frame |-> NoFrame, handles |-> {}]

(* tickets, order and written are history: the tickets of the last         *)
(* dispatch, the order they were settled in, and its last foreach item;    *)
(* so are issued (send identifiers) and named (what became of the effect   *)
(* an identifier stands for), before (the scope when it began) and flaw (a *)
(* check that only a miscompiled program or a short array can fail).       *)
Outside == [data |-> [var |-> "s0", sid |-> 0, cid |-> 0, did |-> 0],
            tickets |-> <<>>, order |-> <<>>, written |-> Unbound, before |-> Unbound,
            issued |-> <<>>, named |-> <<>>, cancels |-> {}, flaw |-> FALSE,
            closes |-> 0, inits |-> 0, dispatches |-> 0, result |-> "NONE"]

Init ==
    /\ program \in Programs
    /\ x = NoSession
    /\ w = Outside

-----------------------------------------------------------------------------
(* The effects of a transition as the compiler counts them: the capacity   *)
(* of the ticket array.                                                    *)

Control == {"IF", "ELSEIF", "ELSE", "ENDIF", "FOREACH", "ENDFOREACH"}
WithId(a) == a.kind \in {"CREATE_CONFERENCE", "DIALOG_PREPARE", "DIALOG_START"}
             \/ (a.kind = "SEND" /\ a.location # "")
Weight(a) == IF a.kind \in Control THEN 0 ELSE IF WithId(a) THEN 2 ELSE 1
Expansion(actions, i) ==
    IF \E f \in 1 .. i : actions[f].kind = "FOREACH" /\ i < actions[f].block_end
    THEN max_foreach_iterations ELSE 1
LocalEffects(actions) ==
    LET sum[i \in 0 .. Len(actions)] ==
        IF i = 0 THEN 0 ELSE sum[i - 1] + Weight(actions[i]) * Expansion(actions, i)
    IN sum[Len(actions)]
max_transition_effects ==
    CHOOSE n \in {LocalEffects(program[t].actions) : t \in DOMAIN program} :
        \A t \in DOMAIN program : LocalEffects(program[t].actions) <= n

-----------------------------------------------------------------------------
(* Attachment.  Handles are the conditions and expressions the datamodel   *)
(* has compiled.  The adapters count as attached once the session holds    *)
(* copies of them: every later failure closes them.                        *)

Handle(kind, t, i) == <<kind, t, i>>
TransitionConditions == {Handle("guard", t, 0) : t \in {u \in DOMAIN program : program[u].cond # ""}}
ActionHandles(kind, has(_)) ==
    UNION {{Handle(kind, t, i) : i \in {j \in DOMAIN program[t].actions :
                                         has(program[t].actions[j])}} : t \in DOMAIN program}
ActionConditions == ActionHandles("cond", LAMBDA a : a.kind \in {"IF", "ELSEIF"})
StringExpressions == ActionHandles("string", LAMBDA a : a.dynamic)

destroy_conditions(y) == [y EXCEPT !.handles = {h \in @ : h[1] = "string"}]
destroy_string_expressions(y) == [y EXCEPT !.handles = {h \in @ : h[1] # "string"}]
destroy_foreach_scope(y) ==
    [y EXCEPT !.frame = NoFrame, !.checkpoint = Unbound, !.staged = Unbound,
              !.committed = Unbound, !.pending = FALSE, !.checkpoint_live = FALSE]

close_adapter(y, v) ==
    IF y.closed THEN [y |-> y, v |-> v]
    ELSE [y |-> [y EXCEPT !.closed = TRUE], v |-> [v EXCEPT !.closes = @ + 1]]

(* retain_foreach_scope compiles no handle: it may only fail.              *)
Stages == <<"FOREACH", "GUARDS", "CONDITIONS", "STRINGS", "EXECUTOR", "INSTANCE", "VARIABLE">>
Compiled(stage) ==
    CASE stage = "GUARDS" -> TransitionConditions
      [] stage = "CONDITIONS" -> ActionConditions
      [] stage = "STRINGS" -> StringExpressions
      [] OTHER -> {}

(* Whatever the arguments and the adapters' tables lack is refused before  *)
(* anything is attached.                                                   *)
admission_refused ==
    /\ x.phase = "NONE" /\ w.inits < MaxInits
    /\ w' = [w EXCEPT !.inits = @ + 1, !.closes = 0, !.dispatches = 0, !.result = "INVALID_ARGUMENT"]
    /\ UNCHANGED <<program, x>>

ccxml_session_init ==
    /\ x.phase = "NONE" /\ w.inits < MaxInits
    /\ x' = [NoSession EXCEPT !.phase = "FOREACH", !.next_send_token = 1]
    /\ w' = [w EXCEPT !.inits = @ + 1, !.closes = 0, !.dispatches = 0,
                      !.tickets = <<>>, !.order = <<>>, !.written = Unbound, !.before = Unbound]
    /\ UNCHANGED program

Unwound(y, partial) ==
    destroy_foreach_scope(destroy_conditions(destroy_string_expressions(
        [y EXCEPT !.handles = @ \cup partial])))

StageAt(phase) == CHOOSE i \in DOMAIN Stages : Stages[i] = phase
attach ==
    /\ \E i \in DOMAIN Stages : x.phase = Stages[i]
    /\ x' = [x EXCEPT !.handles = @ \cup Compiled(x.phase),
                      !.phase = IF StageAt(x.phase) = Len(Stages) THEN "LIVE"
                                ELSE Stages[StageAt(x.phase) + 1]]
    /\ w' = IF x.phase = "VARIABLE" THEN [w EXCEPT !.data.var = "s0", !.result = "OK"] ELSE w
    /\ UNCHANGED program

attach_failed ==
    /\ \E i \in DOMAIN Stages : x.phase = Stages[i]
    /\ \E partial \in SUBSET Compiled(x.phase) :
        LET c == close_adapter(Unwound(x, partial), w)
        IN x' = [NoSession EXCEPT !.handles = c.y.handles] /\ w' = [c.v EXCEPT !.result = "FAILED"]
    /\ UNCHANGED program

-----------------------------------------------------------------------------
(* Tickets.  discard_tickets goes from the last to the first.              *)

Settled(v, order, state) ==
    [v EXCEPT !.tickets = [t \in DOMAIN @ |->
                  IF \E i \in DOMAIN order : order[i] = t THEN [@[t] EXCEPT !.state = state] ELSE @[t]],
              !.order = @ \o order,
              !.named = [i \in DOMAIN @ |->
                  IF \E t \in DOMAIN order : v.tickets[order[t]].names = i THEN state ELSE @[i]]]
Reversed(seq) == [i \in DOMAIN seq |-> seq[Len(seq) + 1 - i]]

discard_tickets(v, tickets) == Settled(v, Reversed(tickets), "DISCARDED")

close_foreach_frame(y) == [y EXCEPT !.frame = NoFrame]

settle_foreach_block(y, succeeded) ==
    IF ~y.checkpoint_live THEN y
    ELSE [y EXCEPT !.checkpoint_live = FALSE, !.checkpoint = Unbound,
                   !.staged = IF succeeded THEN @ ELSE y.checkpoint]

discard_foreach_scope(y) ==
    IF ~y.pending THEN y
    ELSE [y EXCEPT !.pending = FALSE, !.staged = Unbound, !.checkpoint = Unbound,
                   !.checkpoint_live = FALSE]

\* Fault: the scope becomes visible with the block, not with the transition.
commit_foreach_scope_Checkpoint(y) ==
    IF ~y.pending THEN y ELSE [y EXCEPT !.pending = FALSE, !.staged = Unbound]
commit_foreach_scope(y) ==
    IF ~y.pending THEN y
    ELSE [y EXCEPT !.pending = FALSE, !.committed = y.staged, !.staged = Unbound]

(* The transition has failed: its tickets are discarded and the loop       *)
(* abandoned (execute_transition_binding).                                 *)
Fails(y, v, status) ==
    /\ x' = discard_foreach_scope(settle_foreach_block(close_foreach_frame(
                [y EXCEPT !.status = status, !.tickets = <<>>, !.index = 0,
                          !.conditional = <<>>, !.at = 0]), FALSE))
    /\ w' = discard_tickets(v, y.tickets)
Flawed(status) == Fails(x, [w EXCEPT !.flaw = TRUE], status)

(* The adapter returns a ticket that lacks its commit callback, too.       *)
Answers == {"ACCEPTED", "HALF"} \cup Refusals

Ticket(op, names, location, value) ==
    [op |-> op, index |-> x.index, names |-> names, location |-> location, value |-> value,
     item |-> x.staged, state |-> "PREPARED"]
Held(v, ticket) == [v EXCEPT !.tickets = Append(@, ticket)]

retain_ticket(y, v, answer, ticket) ==
    LET held == Held(v, ticket)
        dropped == Settled(held, <<Len(held.tickets)>>, "DISCARDED")
    IN IF answer \in Refusals THEN [ok |-> "ADAPTER_ERROR", y |-> y, v |-> v]
       ELSE IF answer = "HALF" THEN [ok |-> "INVALID_CONTRACT", y |-> y, v |-> dropped]
       ELSE IF Len(y.tickets) >= max_transition_effects
       THEN [ok |-> "LIMIT_EXCEEDED", y |-> y, v |-> [dropped EXCEPT !.flaw = TRUE]]
       ELSE [ok |-> "OK", y |-> [y EXCEPT !.tickets = Append(@, Len(held.tickets))], v |-> held]

Advance(y, v) == x' = [y EXCEPT !.index = @ + 1] /\ w' = v
Outcome(r) == IF r.ok = "OK" THEN Advance(r.y, r.v) ELSE Fails(r.y, r.v, r.ok)

(* One effect, or an effect and the write of the identifier it returned,   *)
(* exchanged so that the identifier is known when the effect happens.      *)
Effect(op, names) ==
    \E answer \in Answers : Outcome(retain_ticket(x, w, answer, Ticket(op, names, "", 0)))

Exchanged(tickets) ==
    LET n == Len(tickets)
    IN [i \in 1 .. n |-> IF i = n - 1 THEN tickets[n] ELSE IF i = n THEN tickets[n - 1] ELSE tickets[i]]

EffectWithId(y, v, op, id, location) ==
    \E answer \in Answers :
        LET r == retain_ticket(y, v, answer, Ticket(op, id, "", 0))
        IN IF r.ok # "OK" THEN Fails(r.y, r.v, r.ok)
           ELSE \E again \in Answers :
                LET q == retain_ticket(r.y, r.v, again, Ticket("WRITE", 0, location, id))
                IN IF q.ok # "OK" THEN Fails(q.y, q.v, q.ok)
                   ELSE Advance([q.y EXCEPT !.tickets = Exchanged(@)], q.v)

(* A provider's identifier, or the empty one it should not return.         *)
ProviderEffect(op, location) ==
    \/ LET id == Len(w.named) + 1
       IN EffectWithId(x, [w EXCEPT !.named = Append(@, "PREPARED")], op, id, location)
    \/ LET r == retain_ticket(x, w, "ACCEPTED", Ticket(op, 0, "", 0))
       IN Fails(r.y, r.v, IF r.ok = "OK" THEN "INVALID_CONTRACT" ELSE r.ok)

-----------------------------------------------------------------------------
(* Evaluation: what the datamodel may answer, by operation.                *)

evaluate_string_expression ==
    {"OK"} \cup {IF r = "FULL" THEN "ALLOCATION_FAILED"
                 ELSE IF r = "ERROR" THEN "ADAPTER_ERROR" ELSE r : r \in Refusals}
evaluate_action_string_expression(a) == IF a.dynamic THEN evaluate_string_expression ELSE {"OK"}
datamodel_payload_failure_status ==
    {IF r = "FULL" THEN "ALLOCATION_FAILED"
     ELSE IF r = "ERROR" THEN "ADAPTER_ERROR" ELSE r : r \in Refusals}

(* The item a condition sees: of the transaction if one is pending.        *)
ActionScope(y) == IF y.pending THEN y.staged ELSE y.committed
Values(cond, scope) == IF cond = "item" THEN {scope = 1} ELSE BOOLEAN
ConditionFailures ==
    {IF r = "INVALID_CONTRACT" THEN r ELSE "ADAPTER_ERROR" : r \in Refusals}

-----------------------------------------------------------------------------
(* Guards, in document order until one is enabled.                         *)

Running == x.phase = "LIVE" /\ x.dispatching
Guarding == Running /\ ~x.selected /\ x.at \in DOMAIN program

Skip == x' = [x EXCEPT !.at = @ + 1] /\ UNCHANGED w
GuardFailure ==
    \E status \in ConditionFailures :
        x' = [x EXCEPT !.status = status, !.at = @ + 1] /\ UNCHANGED w
Select == x' = [x EXCEPT !.selected = TRUE, !.index = 1] /\ UNCHANGED w

GuardDisabled(t) == x.status # "OK" \/ x.event \notin t.events

transition_guard ==
    LET t == program[x.at]
    IN /\ Guarding
       /\ \/ GuardDisabled(t) /\ Skip
          \/ /\ ~GuardDisabled(t)
             /\ \/ t.states # {} /\ GuardFailure
                \/ t.states # {} /\ w.data.var \notin t.states /\ Skip
                \/ /\ t.states = {} \/ w.data.var \in t.states
                   /\ \/ t.cond # "" /\ GuardFailure
                      \/ \E value \in IF t.cond = "" THEN {TRUE} ELSE Values(t.cond, x.committed) :
                            IF value THEN Select ELSE Skip
       /\ UNCHANGED program

-----------------------------------------------------------------------------
(* Control actions.                                                        *)

Actions == program[x.at].actions
Executing == Running /\ x.selected /\ x.index # 0
At(kind) ==
    /\ Executing /\ x.index <= Len(Actions) /\ Actions[x.index].kind = kind
    /\ UNCHANGED program
Action == Actions[x.index]

begin_foreach_block(y) ==
    LET begun == IF y.pending THEN y ELSE [y EXCEPT !.staged = y.committed, !.pending = TRUE]
    IN [begun EXCEPT !.checkpoint = begun.staged, !.checkpoint_live = TRUE]

foreach_expression_status ==
    {IF r = "FULL" THEN "LIMIT_EXCEEDED" ELSE IF r = "ERROR" THEN "ADAPTER_ERROR" ELSE r : r \in Refusals}

(* scxml_foreach_next_with_system writes the item into the staged scope.   *)
foreach_next(y, iteration) == [y EXCEPT !.staged = iteration]

foreach_open ==
    /\ At("FOREACH")
    /\ IF x.frame.live \/ x.checkpoint_live THEN Flawed("INVALID_CONTRACT")
       ELSE LET begun == begin_foreach_block(x)
            IN \/ \E status \in foreach_expression_status : Fails(begun, w, status)
               \/ x' = [settle_foreach_block(close_foreach_frame(begun), TRUE) EXCEPT
                            !.index = Action.block_end] /\ UNCHANGED w
               \/ \E length \in 1 .. max_foreach_iterations :
                    Advance(foreach_next([begun EXCEPT !.frame =
                                [live |-> TRUE, action |-> x.index, iteration |-> 0,
                                 length |-> length]], 0), [w EXCEPT !.written = 0])

NextIteration(frame) == frame.iteration + 1
foreach_iterate ==
    LET next == NextIteration(x.frame)
    IN /\ At("ENDFOREACH")
       /\ IF ~x.frame.live \/ Action.branch_next # x.frame.action THEN Flawed("INVALID_CONTRACT")
          ELSE \/ next < x.frame.length /\ \E status \in foreach_expression_status : Fails(x, w, status)
               \/ /\ next < x.frame.length
                  /\ x' = [foreach_next(x, next) EXCEPT !.frame.iteration = next,
                               !.index = Actions[x.frame.action].branch_next]
                  /\ w' = [w EXCEPT !.written = next]
               \/ /\ next >= x.frame.length
                  /\ Advance(settle_foreach_block(close_foreach_frame(x), TRUE), w)

Top == x.conditional[Len(x.conditional)]
Popped == SubSeq(x.conditional, 1, Len(x.conditional) - 1)
Evaluate(frames) ==
    \/ \E status \in ConditionFailures : Fails(x, w, status)
    \/ \E value \in Values(Action.cond, ActionScope(x)) :
        /\ x' = [x EXCEPT !.conditional = Append(frames, [block_end |-> Action.block_end, taken |-> value]),
                          !.index = IF value THEN @ + 1 ELSE Action.branch_next]
        /\ UNCHANGED w

action_if == At("IF") /\ Evaluate(x.conditional)

InBlock == x.conditional # <<>> /\ Top.block_end = Action.block_end
Leave == x' = [x EXCEPT !.conditional = Popped, !.index = Action.block_end + 1] /\ UNCHANGED w
action_elseif ==
    /\ At("ELSEIF")
    /\ IF ~InBlock THEN Flawed("INVALID_CONTRACT")
       ELSE IF Top.taken THEN Leave
       ELSE Evaluate(Popped)

action_else ==
    /\ At("ELSE")
    /\ IF ~InBlock THEN Flawed("INVALID_CONTRACT")
       ELSE IF Top.taken THEN Leave
       ELSE Advance([x EXCEPT !.conditional[Len(x.conditional)].taken = TRUE], w)

action_endif ==
    /\ At("ENDIF")
    /\ IF x.conditional = <<>> \/ Top.block_end # x.index THEN Flawed("INVALID_CONTRACT")
       ELSE Advance([x EXCEPT !.conditional = Popped], w)

action_exit == /\ At("EXIT")
               /\ x' = [x EXCEPT !.exit_requested = TRUE, !.index = Len(Actions) + 1]
               /\ UNCHANGED w

-----------------------------------------------------------------------------
(* Leaf actions.  Those on the event's connection need one; the others     *)
(* evaluate what is dynamic, then prepare their effect.                    *)

connection_id_valid == x.connection
OnConnection(effect) ==
    IF connection_id_valid THEN effect ELSE Fails(x, w, "INVALID_EVENT")
Evaluated(statuses, effect) ==
    \/ \E status \in statuses \ {"OK"} : Fails(x, w, status)
    \/ effect

action_assign ==
    /\ At("ASSIGN_STRING")
    /\ \E answer \in Answers : Outcome(retain_ticket(x, w, answer, Ticket("WRITE", 0, "var", Action.value)))

action_accept == At("ACCEPT") /\ OnConnection(Effect("ACCEPT", 0))
action_disconnect == At("DISCONNECT") /\ OnConnection(Effect("DISCONNECT", 0))
action_reject == At("REJECT") /\ OnConnection(Effect("REJECT", 0))
action_create_call ==
    At("CREATE_CALL") /\ Evaluated(evaluate_action_string_expression(Action), Effect("CREATE_CALL", 0))
action_redirect ==
    /\ At("REDIRECT")
    /\ OnConnection(Evaluated(evaluate_action_string_expression(Action), Effect("REDIRECT", 0)))
action_join == At("JOIN") /\ Effect("JOIN", 0)
action_unjoin == At("UNJOIN") /\ Effect("UNJOIN", 0)
action_merge == At("MERGE") /\ Effect("MERGE", 0)

action_create_conference ==
    /\ At("CREATE_CONFERENCE")
    /\ Evaluated(evaluate_action_string_expression(Action),
                 ProviderEffect("CREATE_CONFERENCE", Action.location))
action_dialog_prepare ==
    /\ At("DIALOG_PREPARE")
    /\ Evaluated(evaluate_action_string_expression(Action),
                 ProviderEffect("DIALOG_PREPARE", Action.location))
action_dialog_start ==
    /\ At("DIALOG_START")
    /\ OnConnection(Evaluated(evaluate_action_string_expression(Action),
                              ProviderEffect("DIALOG_START", Action.location)))

(* An identifier read from the datamodel, as committed.                    *)
OnIdentifier(op) ==
    LET id == w.data[Action.location]
    IN \/ \E r \in Refusals : Fails(x, w, "ADAPTER_ERROR")
       \/ id = 0 /\ Fails(x, w, "INVALID_CONTRACT")
       \/ id # 0 /\ Effect(op, 0)
action_destroy_conference == At("DESTROY_CONFERENCE") /\ OnIdentifier("DESTROY_CONFERENCE")
action_dialog_terminate == At("DIALOG_TERMINATE") /\ OnIdentifier("DIALOG_TERMINATE")
action_prepared_dialog_start ==
    At("PREPARED_DIALOG_START") /\ OnConnection(OnIdentifier("PREPARED_DIALOG_START"))

CancelId(location) == w.data[location]
action_cancel ==
    /\ At("CANCEL")
    /\ \/ \E status \in IF Action.dynamic THEN evaluate_string_expression \ {"OK"}
                        ELSE ConditionFailures : Fails(x, w, status)
       \/ LET id == CancelId(Action.location)
          IN IF id = 0 THEN Fails(x, w, "INVALID_CONTRACT")
             ELSE \E answer \in Answers :
                  Outcome(retain_ticket(x, [w EXCEPT !.cancels = @ \cup {<<id, w.named[id]>>}],
                                        answer, Ticket("CANCEL", 0, "", 0)))

-----------------------------------------------------------------------------
(* Send: the delay, the namelist and the dynamic parts, then the token of  *)
(* its identifier, which is spent whatever happens next.                   *)

DelayStatuses(a) ==
    {"OK"} \cup (IF a.delay = "LOCATION" THEN datamodel_payload_failure_status \cup {"INVALID_CONTRACT"}
                 ELSE IF a.delay = "EXPRESSION" THEN evaluate_string_expression \cup {"INVALID_CONTRACT"}
                 ELSE {})
PayloadStatuses(a) ==
    {"OK"} \cup (IF a.payload THEN datamodel_payload_failure_status \cup {"INVALID_CONTRACT"} ELSE {})
NameStatuses(a) ==
    IF a.name_is_dynamic
    THEN evaluate_string_expression \cup {"LIMIT_EXCEEDED", "INVALID_CONTRACT", "ALLOCATION_FAILED"}
    ELSE {"OK"}
TypeStatuses(a) ==
    IF a.type_is_dynamic THEN evaluate_string_expression \cup {"LIMIT_EXCEEDED", "ALLOCATION_FAILED"}
    ELSE {"OK"}
SendStatuses(a) ==
    DelayStatuses(a) \cup PayloadStatuses(a) \cup NameStatuses(a) \cup TypeStatuses(a)
    \cup evaluate_action_string_expression(a)

TokenAfter(token) == IF token = MaxToken THEN 0 ELSE token + 1

action_send ==
    LET token == x.next_send_token
        spent == [x EXCEPT !.next_send_token = TokenAfter(token)]
        issued == [w EXCEPT !.issued = Append(@, <<w.inits, token>>), !.named = Append(@, "PREPARED")]
    IN /\ At("SEND")
       /\ Evaluated(SendStatuses(Action),
            IF Action.location = "" THEN Effect("SEND", 0)
            ELSE IF token = 0 THEN Fails(x, w, "LIMIT_EXCEEDED")
            ELSE EffectWithId(spent, issued, "SEND", Len(issued.named), Action.location))

-----------------------------------------------------------------------------
(* The end of a transition: an open loop of an exit is settled, and one    *)
(* aggregate ticket staged with the runtime, which commits it at the end   *)
(* of the step or, if the step fails there, discards it.                   *)

Written(data, tickets) ==
    LET after[i \in 0 .. Len(tickets)] ==
            IF i = 0 THEN data
            ELSE IF tickets[i].location = "" THEN after[i - 1]
            ELSE [after[i - 1] EXCEPT ![tickets[i].location] = tickets[i].value]
    IN after[Len(tickets)]

commit_prepared_tickets(y, v) ==
    /\ x' = commit_foreach_scope([y EXCEPT !.tickets = <<>>, !.index = 0, !.at = 0])
    /\ w' = [Settled(v, y.tickets, "COMMITTED") EXCEPT
                !.data = Written(@, [i \in DOMAIN y.tickets |-> v.tickets[y.tickets[i]]])]

discard_prepared_tickets(y, v) ==
    /\ x' = discard_foreach_scope([y EXCEPT !.tickets = <<>>, !.index = 0, !.at = 0])
    /\ w' = discard_tickets(v, y.tickets)

LeftLoop(y) ==
    IF y.frame.live THEN settle_foreach_block(close_foreach_frame(y), TRUE) ELSE y

execute_transition_binding ==
    LET y == LeftLoop([x EXCEPT !.conditional = <<>>])
    IN /\ Executing /\ x.index > Len(Actions)
       /\ \/ x.conditional # <<>> /\ ~x.exit_requested /\ Flawed("INVALID_CONTRACT")
          \/ /\ x.conditional = <<>> \/ x.exit_requested
             /\ \/ commit_prepared_tickets(y, w)
                \/ /\ y.tickets # <<>> \/ y.pending
                   /\ discard_prepared_tickets(
                        [y EXCEPT !.status = "LIMIT_EXCEEDED", !.errored = TRUE], w)
                \/ discard_prepared_tickets([y EXCEPT !.errored = TRUE], w)
       /\ UNCHANGED program

-----------------------------------------------------------------------------
(* Dispatch, close and destroy, which the caller serializes; a callback    *)
(* that dispatches is told BUSY.                                           *)

unhandled_event_is_fatal(name) == name \in FatalNames

MayDispatch == x.phase = "LIVE" /\ ~x.closed /\ ~x.terminated /\ ~x.dispatching

ccxml_session_dispatch ==
    /\ MayDispatch /\ w.dispatches < MaxDispatches
    /\ \E name \in Names, connection \in BOOLEAN :
        x' = IF x.errored THEN x
             ELSE [x EXCEPT !.dispatching = TRUE, !.status = "OK", !.selected = FALSE,
                            !.exit_requested = FALSE, !.event = name, !.connection = connection,
                            !.at = 1, !.index = 0]
    /\ w' = IF x.errored THEN [w EXCEPT !.dispatches = @ + 1, !.result = "CLOSED"]
            ELSE [w EXCEPT !.dispatches = @ + 1, !.tickets = <<>>, !.order = <<>>,
                           !.written = Unbound, !.before = x.committed]
    /\ UNCHANGED program

dispatch_return ==
    LET status == IF x.errored /\ x.status = "OK" THEN "INVALID_CONTRACT" ELSE x.status
        exits == /\ status = "OK"
                 /\ x.exit_requested \/ (~x.selected /\ unhandled_event_is_fatal(x.event))
        done == [x EXCEPT !.dispatching = FALSE, !.at = 0, !.event = "", !.connection = FALSE,
                          !.status = status, !.terminated = exits]
        c == IF exits THEN close_adapter(done, w) ELSE [y |-> done, v |-> w]
    IN /\ Running /\ x.index = 0 /\ (x.selected \/ x.at \notin DOMAIN program)
       /\ x' = c.y
       /\ w' = [c.v EXCEPT !.result = status]
       /\ UNCHANGED program

ccxml_session_close ==
    /\ x.phase = "LIVE" /\ ~x.dispatching
    /\ LET c == close_adapter(x, w) IN x' = c.y /\ w' = c.v
    /\ UNCHANGED program

ccxml_session_destroy ==
    /\ x.phase = "LIVE" /\ ~x.dispatching
    /\ LET c == close_adapter(x, w)
       IN \/ x' = c.y /\ w' = [c.v EXCEPT !.result = "BUSY"]
          \/ /\ x' = [NoSession EXCEPT !.handles = Unwound(c.y, {}).handles]
             /\ w' = [c.v EXCEPT !.result = "OK"]
    /\ UNCHANGED program

Step ==
    \/ attach \/ attach_failed \/ transition_guard
    \/ foreach_open \/ foreach_iterate \/ action_if \/ action_elseif \/ action_else
    \/ action_endif \/ action_exit \/ action_assign \/ action_accept \/ action_disconnect
    \/ action_reject \/ action_create_call \/ action_redirect \/ action_join \/ action_unjoin
    \/ action_merge \/ action_create_conference \/ action_dialog_prepare
    \/ action_dialog_start \/ action_destroy_conference \/ action_dialog_terminate
    \/ action_prepared_dialog_start \/ action_cancel \/ action_send
    \/ execute_transition_binding \/ dispatch_return
Next ==
    \/ admission_refused \/ ccxml_session_init \/ Step
    \/ ccxml_session_dispatch \/ ccxml_session_close \/ ccxml_session_destroy

Spec == Init /\ [][Next]_vars

-----------------------------------------------------------------------------
(* Properties.                                                             *)

Idle == x.phase = "LIVE" /\ ~x.dispatching

(* Types of the session and of the adapters' side; a token never exceeds   *)
(* its width (next_send_token).                                            *)
TypeOK ==
    /\ x.phase \in {"NONE", "LIVE"} \cup {Stages[i] : i \in DOMAIN Stages}
    /\ x.next_send_token \in 0 .. MaxToken
    /\ x.committed \in Unbound .. max_foreach_iterations - 1
    /\ \A i \in DOMAIN x.tickets : x.tickets[i] \in DOMAIN w.tickets
    /\ w.data.var \in {"s0", "s1"} /\ \A l \in Locations : w.data[l] \in 0 .. Len(w.named)

(* A dispatch commits every ticket it was given or discards every one, and *)
(* none is left, whatever failed in between (execute_transition_actions,   *)
(* retain_ticket, execute_transition_binding).                             *)
AllOrNothing ==
    /\ Idle => LET states == {w.tickets[t].state : t \in DOMAIN w.tickets}
               IN x.tickets = <<>> /\ states \subseteq
                    (IF x.status = "OK" THEN {"COMMITTED"} ELSE {"DISCARDED"})
    /\ \A i, j \in DOMAIN w.order : i # j => w.order[i] # w.order[j]

(* Effects happen in document order, each after the write of its own       *)
(* identifier; discarding goes the other way, an effect before the write   *)
(* (the exchanges after retain_ticket, discard_tickets).                   *)
Before(i, j) ==
    LET a == w.tickets[w.order[i]] b == w.tickets[w.order[j]]
    IN b.op = "WRITE" /\ b.location # "var" /\ a.names = b.value
SettleOrder ==
    \A i, j \in DOMAIN w.order :
        i < j => IF w.tickets[w.order[i]].state = "COMMITTED"
                 THEN /\ ~Before(i, j)
                      /\ w.order[i] > w.order[j] => Before(j, i)
                 ELSE w.order[i] < w.order[j] => Before(i, j)

(* The items of a loop become visible with their transition or not at all, *)
(* also when the transition exits from inside the loop, and no loop        *)
(* survives its transition (settle_foreach_block, commit_foreach_scope).   *)
ScopeFollowsTransition ==
    Idle => /\ ~x.pending /\ ~x.checkpoint_live /\ ~x.frame.live
            /\ x.committed = IF x.status = "OK" /\ w.written # Unbound THEN w.written ELSE w.before

(* A branch inside a loop is decided on the item of its own iteration      *)
(* (evaluate_action_condition): "conditions inside foreach read the        *)
(* current staged typed item".                                             *)
UnderItemBranch(t, i) ==
    \E c \in 1 .. i : /\ program[t].actions[c].kind = "IF" /\ program[t].actions[c].cond = "item"
                      /\ i < program[t].actions[c].branch_next
BranchSeesItem ==
    Executing => \A i \in DOMAIN x.tickets :
        UnderItemBranch(x.at, w.tickets[x.tickets[i]].index) => w.tickets[x.tickets[i]].item = 1

(* A program as the compiler emits it never fails a structural check, and  *)
(* the ticket array it sized is never full (retain_ticket,                 *)
(* execute_transition_actions).                                            *)
CompiledProgramFits == ~w.flaw

(* An identifier in the datamodel stands for an effect that was committed: *)
(* no failed send, conference or dialog leaves its name behind.            *)
IdentifiersName ==
    Idle => \A l \in Locations : w.data[l] # 0 => w.named[w.data[l]] = "COMMITTED"

(* A cancel never names a send of its own transition, which could still be *)
(* rolled back (action CANCEL reads the committed datamodel).              *)
CancelsCommitted == \A c \in w.cancels : c[2] = "COMMITTED"

(* No two sends ever carry the same identifier, across failures, the end   *)
(* of the token range and sessions (next_send_token).                      *)
SendIdsUnique == \A i, j \in DOMAIN w.issued : i # j => w.issued[i] # w.issued[j]

(* Attached adapters are closed once, by the end of the session, and every *)
(* compiled handle is released by then (close_adapter,                     *)
(* destroy_conditions, destroy_string_expressions).                        *)
ClosedOnceAndReleased ==
    /\ w.closes <= 1
    /\ x.phase = "NONE" => x.handles = {}
    /\ x.phase = "NONE" /\ w.result \in {"OK", "FAILED"} => w.closes = 1

(* After a guard fails, no transition of that dispatch is taken            *)
(* (transition_guard).                                                     *)
FailedGuardStops == ~x.selected /\ x.dispatching /\ x.status # "OK" => ~x'.selected

(* A dispatch takes effect whole or not at all, in document order, and the *)
(* session gives back what it took (above).                                *)
CcxmlSound ==
    /\ TypeOK /\ AllOrNothing /\ SettleOrder /\ ScopeFollowsTransition /\ BranchSeesItem
    /\ CompiledProgramFits /\ IdentifiersName /\ CancelsCommitted /\ SendIdsUnique
    /\ ClosedOnceAndReleased
=============================================================================
