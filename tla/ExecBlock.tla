------------------------------ MODULE ExecBlock ------------------------------
(***************************************************************************)
(* Executable content of an SCXML Session (scxml_runtime.c): the blocks of *)
(* a microstep, one after the other, each a range of steps with nested     *)
(* ranges for <if> and <foreach>.  A step continues, aborts its block or   *)
(* is FATAL.  An aborted block has said so with an error Event and takes   *)
(* its changes of the datamodel and of the script scope back; what it      *)
(* raised and sent before stays.  A FATAL outcome drops the whole          *)
(* microstep: the statechart instance discards every ticket of its journal *)
(* and is errored.                                                         *)
(*                                                                         *)
(* A value of the datamodel is the number of the write that stored it.     *)
(* The statechart instance, the Event I/O adapter and the timer behind a   *)
(* delayed send are external.                                              *)
(***************************************************************************)
EXTENDS Integers, Sequences, FiniteSets, SequencesExt

CONSTANTS
    StartPrograms,          \* the lists of blocks the first microstep may execute
    Programs,               \* and those of a later one
    Ids,                    \* sendids, as numbers
    delayed_send_capacity,  \* rows of the sendid registry
    metadata_capacity,      \* rows of external_metadata_rows
    effect_capacity,        \* tickets of one microstep
    internal_capacity,      \* internal Events of one microstep
    max_conditional_depth,  \* nesting of <if> and <foreach>
    MaxLength,              \* items of a <foreach> array
    Answers,                \* what the adapter answers
    MaxMicrosteps

ExecAssumption ==
    /\ {delayed_send_capacity, metadata_capacity, effect_capacity, internal_capacity,
        max_conditional_depth, MaxLength, MaxMicrosteps} \subseteq Nat
    /\ Ids \subseteq Nat \ {0}
    /\ Answers \subseteq {"ACCEPTED", "HALF_TICKET", "ERROR_EXECUTION",
                          "ERROR_COMMUNICATION", "INVALID_CONTRACT"}

Vars == {"x", "late", "early", "idlocation"}
Phases == {"NEVER", "PENDING", "DONE"}
Rows == 1 .. metadata_capacity
FreeReg == [state |-> "FREE", previous |-> "FREE"]
Ticket == [kind : {"late", "scope", "send", "delayed", "cancel", "metadata"}, ref : Ids \cup Rows \cup {0}]

VARIABLES
    m,      \* the Session and the transaction of the running microstep
    ran     \* history: what the blocks of this microstep did

vars == <<m, ran>>

TypeOK ==
    /\ m.pc \in {"idle", "begin", "step", "aborted", "publish", "errored"}
    /\ m.published \in [Vars -> Nat] /\ m.state \in [Vars -> Nat] /\ m.out \in [Vars -> Nat]
    /\ m.scope \in [committed : Nat, staged : Nat, checkpoint : Nat,
                    pending : BOOLEAN, live : BOOLEAN]
    /\ m.late \in Phases /\ m.late_ticket \in BOOLEAN
    /\ m.journal \in Seq(Ticket) /\ Len(m.journal) <= effect_capacity
    /\ Len(m.raised) <= internal_capacity
    /\ Len(m.frames) <= max_conditional_depth + 1
    /\ m.registry \in [Ids -> [state : {"FREE", "RESERVED", "ACTIVE", "CANCEL_RESERVED"},
                               previous : {"FREE", "RESERVED", "ACTIVE", "CANCEL_RESERVED"}]]
    /\ m.metadata \in [Rows -> {"free", "used"}]
    /\ m.snapshots \in Nat

Init ==
    /\ m = [pc |-> "idle", blocks |-> <<>>, block |-> 1, frames |-> <<>>,
            published |-> [v \in Vars |-> 0], state |-> [v \in Vars |-> 0],
            out |-> [v \in Vars |-> 0], stamp |-> 1,
            scope |-> [committed |-> 0, staged |-> 0, checkpoint |-> 0,
                       pending |-> FALSE, live |-> FALSE],
            late |-> "NEVER", late_ticket |-> FALSE,
            journal |-> <<>>, raised |-> <<>>, queue |-> {},
            registry |-> [i \in Ids |-> FreeReg], metadata |-> [r \in Rows |-> "free"],
            failed_send |-> 0, snapshots |-> 0, microsteps |-> 0]
    /\ ran = [aborts |-> 0, conditions |-> 0, initializers |-> 0]

Top(s) == s.frames[Len(s.frames)]
Block(s) == s.blocks[s.block]
Step(s) == Block(s)[Top(s).index]
Stepping == m.pc = "step" /\ Top(m).index < Top(m).end

--------------------------------------------------------------------------
(* Outcomes *)

\* discard of every ticket of the journal.
\* rollback_prepared_effect_locked
rollback_prepared_effect(row, k) ==
    CASE k = "delayed" /\ row.state = "RESERVED" -> FreeReg
      [] k = "delayed" /\ row.state = "CANCEL_RESERVED" /\ row.previous = "RESERVED" ->
            [row EXCEPT !.previous = "FREE"]
      [] k = "cancel" /\ row.state = "CANCEL_RESERVED" ->
            IF row.previous = "FREE" THEN FreeReg ELSE [state |-> row.previous, previous |-> "FREE"]
      [] OTHER -> row

\* discard_late_initializer
discard_late_initializer(s) ==
    [s EXCEPT !.late = IF @ = "PENDING" THEN "NEVER" ELSE @, !.late_ticket = FALSE]

\* discard_supplemental_scope
discard_supplemental_scope(s) ==
    [s EXCEPT !.scope.staged = 0, !.scope.pending = FALSE]

discard_ticket(t, s) ==
    CASE t.kind = "late" -> discard_late_initializer(s)
      [] t.kind = "scope" -> discard_supplemental_scope(s)
      [] t.kind = "metadata" -> [s EXCEPT !.metadata[t.ref] = "free"]
      [] t.kind \in {"delayed", "cancel"} ->
            [s EXCEPT !.registry[t.ref] = rollback_prepared_effect(@, t.kind)]
      [] OTHER -> s

\* settle_supplemental_block
settle_supplemental_block(s, succeeded) ==
    IF ~s.scope.live THEN s
    ELSE [s EXCEPT !.scope.staged = IF succeeded THEN @ ELSE s.scope.checkpoint,
                   !.scope.checkpoint = 0, !.scope.live = FALSE]

\* Every way out of a <foreach> destroys its copy of the array.
Loops(s) == Cardinality({n \in 1 .. Len(s.frames) : s.frames[n].loop})

\* FATAL: the block is settled, then the instance drops the microstep.
Fatal(s) ==
    LET d == FoldSeq(discard_ticket, settle_supplemental_block(s, FALSE), s.journal) IN
    [d EXCEPT !.pc = "errored", !.frames = <<>>, !.journal = <<>>, !.raised = <<>>,
              !.state = s.published, !.out = s.published, !.failed_send = 0,
              !.snapshots = s.snapshots - Loops(s)]

RaiseFits(s) == Len(s.raised) < internal_capacity
Raised(s, e) == [s EXCEPT !.raised = Append(@, e)]
StageFits(s) == Len(s.journal) < effect_capacity
Staged(s, t) == [s EXCEPT !.journal = Append(@, t)]

\* raise_block_execution_error, raise_adapter_error: the block is aborted,
\* and the error Event says so; no room for the Event is FATAL.
raise_block_execution_error(s) ==
    IF RaiseFits(s) THEN [Raised(s, [event |-> "execution", row |-> 0]) EXCEPT !.pc = "aborted"]
    ELSE Fatal(s)
raise_adapter_error(s, e) ==
    IF RaiseFits(s) THEN [Raised(s, [event |-> e, row |-> 0]) EXCEPT !.pc = "aborted"]
    ELSE Fatal(s)

\* adapter_failure_outcome: only the known refusals are errors of the
\* document, everything else breaks the contract.
adapter_failure_outcome(s, answer) ==
    CASE answer = "ERROR_EXECUTION" -> raise_adapter_error(s, "execution")
      [] answer = "ERROR_COMMUNICATION" -> raise_adapter_error(s, "communication")
      [] OTHER -> Fatal(s)

\* index = step->next
Continue(s) == [s EXCEPT !.frames[Len(s.frames)].index = Step(s).next]

Write(s, v) == [s EXCEPT !.out[v] = s.stamp, !.stamp = @ + 1]

--------------------------------------------------------------------------
(* Blocks *)

BeginMicrostep(p) ==
    /\ m.pc = "idle" /\ m.microsteps < MaxMicrosteps
    /\ p \in IF m.microsteps = 0 THEN StartPrograms ELSE Programs
    /\ m' = [m EXCEPT !.pc = "begin", !.blocks = p, !.block = 1, !.state = m.published,
                      !.microsteps = @ + 1]
    /\ ran' = [ran EXCEPT !.aborts = 0, !.conditions = 0, !.initializers = 0]

\* begin_supplemental_block: the first block of a microstep stages a copy of
\* the committed scope under one ticket, every block keeps a checkpoint.
begin_supplemental_block(s) ==
    LET t == [s EXCEPT !.scope.staged = IF s.scope.pending THEN @ ELSE s.scope.committed,
                       !.scope.pending = TRUE] IN
    IF ~s.scope.pending /\ ~StageFits(s) THEN Fatal(s)
    ELSE LET u == IF s.scope.pending THEN t ELSE Staged(t, [kind |-> "scope", ref |-> 0]) IN
         [u EXCEPT !.scope.checkpoint = u.scope.staged, !.scope.live = TRUE, !.pc = "step"]

\* execute_scxml_block_impl, up to the range: the block works on a copy.
BeginBlock ==
    /\ m.pc = "begin"
    /\ m' = begin_supplemental_block(
                [m EXCEPT !.out = m.state, !.failed_send = 0,
                          !.frames = <<[index |-> 1, end |-> Len(Block(m)) + 1, begin |-> 1,
                                        abort |-> FALSE, items |-> 0, loop |-> FALSE]>>])
    /\ UNCHANGED ran

NextBlock(s) ==
    IF s.block < Len(s.blocks)
    THEN [s EXCEPT !.pc = "begin", !.block = @ + 1, !.state = s.out, !.frames = <<>>, !.failed_send = 0]
    ELSE [s EXCEPT !.pc = "publish", !.state = s.out, !.frames = <<>>, !.failed_send = 0]

\* execute_scxml_block_impl after a range that went through.
EndBlock ==
    /\ m.pc = "step" /\ Len(m.frames) = 1 /\ Top(m).index = Top(m).end
    /\ m' = NextBlock(settle_supplemental_block(m, TRUE))
    /\ UNCHANGED ran

\* After an abort: both the state and the script scope are put back; only
\* the id of a send the adapter refused is stored again.
restore_block(s) ==
    LET t == settle_supplemental_block(s, FALSE) IN
    [t EXCEPT !.out = IF s.failed_send = 0 THEN s.state
                      ELSE [s.state EXCEPT !["idlocation"] = s.failed_send],
              !.snapshots = s.snapshots - Loops(s)]

AbortBlock ==
    /\ m.pc = "aborted"
    /\ m' = NextBlock(restore_block(m))
    /\ ran' = [ran EXCEPT !.aborts = @ + 1]

--------------------------------------------------------------------------
(* Steps *)

\* SCXML_STEP_RAISE
StepRaise ==
    /\ Stepping /\ Step(m).kind = "RAISE"
    /\ m' = IF RaiseFits(m) THEN Continue(Raised(m, [event |-> "raised", row |-> 0])) ELSE Fatal(m)
    /\ UNCHANGED ran

\* SCXML_STEP_ASSIGN: a failing assignment aborts.
StepAssign(ok) ==
    /\ Stepping /\ Step(m).kind = "ASSIGN"
    /\ m' = IF ok THEN Continue(Write(m, "x")) ELSE raise_block_execution_error(m)
    /\ UNCHANGED ran

\* SCXML_STEP_SCRIPT: it may have stored anything before it throws.
StepScript(ok) ==
    LET s == [Write(m, "x") EXCEPT !.scope.staged = m.stamp] IN
    /\ Stepping /\ Step(m).kind = "SCRIPT"
    /\ m' = IF ok THEN Continue(s) ELSE raise_block_execution_error(s)
    /\ UNCHANGED ran

\* execute_custom_action: an argument or the call may fail.
execute_custom_action(ok) ==
    /\ Stepping /\ Step(m).kind = "CUSTOM"
    /\ m' = IF ok THEN Continue(m) ELSE raise_block_execution_error(m)
    /\ UNCHANGED ran

\* apply_data_initializers: each initializer works over a snapshot, a
\* failing one is taken back and reported, and the next one runs.
apply_data_initializers(s, v, ok) ==
    IF ok THEN Continue(Write(s, v))
    ELSE IF RaiseFits(s) THEN Continue(Raised(s, [event |-> "execution", row |-> 0])) ELSE Fatal(s)

\* SCXML_STEP_EARLY_INITIALIZE
StepEarly(ok) ==
    /\ Stepping /\ Step(m).kind = "EARLY"
    /\ m' = apply_data_initializers(m, "early", ok)
    /\ ran' = IF ok THEN ran ELSE [ran EXCEPT !.initializers = @ + 1]

\* The marker of the first entry, under one ticket for all of a microstep.
late_initializer(s) ==
    LET t == [s EXCEPT !.late = "PENDING"] IN
    IF s.late_ticket THEN t
    ELSE IF StageFits(s) THEN [Staged(t, [kind |-> "late", ref |-> 0]) EXCEPT !.late_ticket = TRUE]
    ELSE Fatal(s)

\* SCXML_STEP_LATE_INITIALIZE: only the first entry of the state.
StepLate(ok) ==
    LET s == late_initializer(m) IN
    /\ Stepping /\ Step(m).kind = "LATE"
    /\ m' = CASE m.late = "DONE" -> Continue(m)
              [] m.late = "PENDING" -> Fatal(m)
              [] m.late = "NEVER" -> IF s.pc = "errored" THEN s ELSE apply_data_initializers(s, "late", ok)
    /\ ran' = IF m.late = "NEVER" /\ s.pc /= "errored" /\ ~ok
              THEN [ran EXCEPT !.initializers = @ + 1] ELSE ran

--------------------------------------------------------------------------
(* <send> and <cancel> *)

FreeRow(s) == CHOOSE r \in Rows : s.metadata[r] = "free" /\ \A q \in Rows : s.metadata[q] = "free" => r <= q
NoRow(s) == \A r \in Rows : s.metadata[r] = "used"

\* An Event with a metadata row: raise_internal_tagged, then the row's
\* ticket; the row is given back where either fails.
Tagged(s, e) ==
    LET r == FreeRow(s) IN
    IF RaiseFits(s) /\ StageFits(s)
    THEN Staged(Raised([s EXCEPT !.metadata[r] = "used"], [event |-> e, row |-> r]),
                [kind |-> "metadata", ref |-> r])
    ELSE Fatal(s)

\* materialize_send_id_location: the generated id is stored in the copy.
materialize_send_id_location(s) == IF Step(s).idlocation THEN Write(s, "idlocation") ELSE s

\* send_failure_outcome: a send with an id says which one failed, and its id
\* is kept for the handler of the error although the block is aborted.
send_failure_outcome(s, answer) ==
    LET e == IF answer = "ERROR_EXECUTION" THEN "execution" ELSE "communication" IN
    IF answer \notin {"ERROR_EXECUTION", "ERROR_COMMUNICATION"} THEN Fatal(s)
    ELSE IF ~Step(s).named THEN raise_adapter_error(s, e)
    ELSE IF NoRow(s) THEN Fatal(s)
    ELSE LET t == Tagged(s, e) IN
         IF t.pc = "errored" THEN t
         ELSE [t EXCEPT !.pc = "aborted",
                        !.failed_send = IF Step(s).idlocation THEN s.out["idlocation"] ELSE 0]

\* A send to #_internal: plain, or with data in a metadata row.
execute_internal_send(s, ok) ==
    IF ~Step(s).payload
    THEN IF RaiseFits(s) THEN Continue(Raised(s, [event |-> "sent", row |-> 0])) ELSE Fatal(s)
    ELSE IF NoRow(s) \/ ~ok THEN raise_block_execution_error(s)
    ELSE LET t == Tagged(s, "sent") IN IF t.pc = "errored" THEN t ELSE Continue(t)

\* acquire_prepared_effect_locked, reserve_delayed_send_locked: a duplicate
\* sendid is an execution error, no room a communication error.
reserve_failure(s) ==
    LET used == {i \in Ids : s.registry[i].state /= "FREE"} IN
    IF ~Step(s).delayed THEN "none"
    ELSE IF Step(s).id \in used THEN "execution"
    ELSE IF Cardinality(used) >= delayed_send_capacity THEN "communication" ELSE "none"

execute_external_send(s, answer) ==
    LET i == Step(s).id
        reserved == IF Step(s).delayed
                    THEN [s EXCEPT !.registry[i] = [state |-> "RESERVED", previous |-> "FREE"]] ELSE s
        t == [kind |-> IF Step(s).delayed THEN "delayed" ELSE "send",
              ref |-> IF Step(s).delayed THEN i ELSE 0] IN
    IF reserve_failure(s) /= "none" THEN raise_adapter_error(s, reserve_failure(s))
    ELSE IF answer = "ACCEPTED"
    THEN IF StageFits(reserved) THEN Continue(Staged(reserved, t)) ELSE Fatal(s)
    ELSE send_failure_outcome(s, answer)

\* execute_send: an attribute that cannot be evaluated aborts before the
\* adapter or the registry is touched.
execute_send(ok, answer) ==
    LET s == materialize_send_id_location(m) IN
    /\ Stepping /\ Step(m).kind = "SEND"
    /\ m' = IF ~ok /\ ~(Step(m).internal /\ Step(m).payload) THEN raise_block_execution_error(m)
            ELSE IF Step(m).internal THEN execute_internal_send(s, ok)
            ELSE execute_external_send(s, answer)
    /\ UNCHANGED ran

\* execute_cancel: nothing known under that id is nothing to do.  A second
\* cancel of the id reserves the row over the first.
execute_cancel(answer) ==
    LET i == Step(m).id  row == m.registry[i]
        s == [m EXCEPT !.registry[i] = [state |-> "CANCEL_RESERVED", previous |-> row.state]]
        back == [s EXCEPT !.registry[i] = rollback_prepared_effect(@, "cancel")] IN
    /\ Stepping /\ Step(m).kind = "CANCEL"
    /\ m' = IF row.state = "FREE" THEN Continue(m)
            ELSE IF answer = "ACCEPTED"
            THEN IF StageFits(s) THEN Continue(Staged(s, [kind |-> "cancel", ref |-> i])) ELSE Fatal(back)
            ELSE IF answer = "HALF_TICKET" THEN Fatal(back)
            ELSE adapter_failure_outcome(back, answer)
    /\ UNCHANGED ran

--------------------------------------------------------------------------
(* Nested ranges *)

Enter(s, begin, end, abort, items, loop) ==
    IF Len(s.frames) > max_conditional_depth THEN Fatal(s)
    ELSE [s EXCEPT !.frames = Append(@, [index |-> begin, begin |-> begin, end |-> end,
                                         abort |-> abort, items |-> items, loop |-> loop])]

\* SCXML_STEP_IF: the branches in order, up to the one that is taken; an
\* error in a condition is an Event, and inside a <foreach> an abort too.
StepIf(taken, errors) ==
    LET b == Step(m).branches  n == Len(b)
        s == IF Len(m.raised) + errors > internal_capacity THEN Fatal(m)
             ELSE [m EXCEPT !.raised = @ \o [k \in 1 .. errors |-> [event |-> "execution", row |-> 0]]] IN
    /\ Stepping /\ Step(m).kind = "IF"
    /\ taken \in 0 .. n
    /\ errors <= Cardinality({k \in 1 .. n : b[k].conditional /\ (taken = 0 \/ k < taken)})
    /\ taken = 0 => \A k \in 1 .. n : b[k].conditional
    /\ Top(m).abort /\ errors > 0 => errors = 1 /\ taken = 0
    /\ m' = IF s.pc = "errored" THEN s
            ELSE IF errors > 0 /\ Top(m).abort THEN [s EXCEPT !.pc = "aborted"]
            ELSE IF taken = 0 THEN Continue(s)
            ELSE Enter(Continue(s), b[taken].begin, b[taken].end, Top(m).abort, 0, FALSE)
    /\ ran' = IF s.pc = "errored" \/ (errors > 0 /\ Top(m).abort) THEN ran
              ELSE [ran EXCEPT !.conditions = @ + errors]

\* SCXML_STEP_FOREACH: the array is copied once; its items are taken by
\* foreach_next, which may fail.
StepForeach(ok, length) ==
    LET s == [m EXCEPT !.snapshots = @ + 1] IN
    /\ Stepping /\ Step(m).kind = "FOREACH"
    /\ m' = IF ~ok THEN raise_block_execution_error(m)
            ELSE IF length = 0 THEN Continue(m)
            ELSE LET t == Enter(Continue(s), Top(m).index + 1, Step(m).next, TRUE, length, TRUE)
                 IN IF t.pc = "errored" THEN [t EXCEPT !.snapshots = @ - 1]
                    ELSE [Write(t, "x") EXCEPT !.frames[Len(t.frames)].items = length - 1]
    /\ UNCHANGED ran

\* The end of a nested range: the next item, or back to the outer range.
EndRange(ok) ==
    LET f == Top(m)
        pop == [m EXCEPT !.frames = SubSeq(@, 1, Len(@) - 1)] IN
    /\ m.pc = "step" /\ Len(m.frames) > 1 /\ f.index = f.end
    /\ f.items = 0 => ok
    /\ m' = IF ~f.loop THEN pop
            ELSE IF f.items = 0 THEN [pop EXCEPT !.snapshots = @ - 1]
            ELSE IF ok THEN [Write(m, "x") EXCEPT !.frames[Len(m.frames)].index = f.begin,
                                                  !.frames[Len(m.frames)].items = f.items - 1]
            ELSE raise_block_execution_error(m)
    /\ UNCHANGED ran

--------------------------------------------------------------------------
(* The microstep is published *)

\* commit_late_initializer
commit_late_initializer(s) ==
    [s EXCEPT !.late = IF @ = "PENDING" THEN "DONE" ELSE @, !.late_ticket = FALSE]

\* commit_supplemental_scope
commit_supplemental_scope(s) ==
    [s EXCEPT !.scope.committed = s.scope.staged, !.scope.staged = 0, !.scope.pending = FALSE]

\* Fault: a cancel that finds another state behind it leaves the row.
commit_prepared_effect_Fault(row, k) ==
    CASE k = "delayed" /\ row.state = "RESERVED" -> [row EXCEPT !.state = "ACTIVE"]
      [] k = "cancel" /\ row.state = "CANCEL_RESERVED" /\ row.previous = "ACTIVE" -> FreeReg
      [] OTHER -> row

\* commit_prepared_effect: the registry half.
commit_prepared_effect(row, k) ==
    CASE k = "delayed" /\ row.state = "RESERVED" -> [row EXCEPT !.state = "ACTIVE"]
      [] k = "delayed" /\ row.state = "CANCEL_RESERVED" /\ row.previous = "RESERVED" ->
            [row EXCEPT !.previous = "ACTIVE"]
      [] k = "cancel" /\ row.state = "CANCEL_RESERVED" -> FreeReg
      [] OTHER -> row

Commit ==
    LET t == Head(m.journal) IN
    /\ m.pc = "publish" /\ m.journal /= <<>>
    /\ m' = [CASE t.kind = "late" -> commit_late_initializer(m)
               [] t.kind = "scope" -> commit_supplemental_scope(m)
               [] t.kind \in {"delayed", "cancel"} ->
                     [m EXCEPT !.registry[t.ref] = commit_prepared_effect(@, t.kind)]
               [] OTHER -> m
             EXCEPT !.journal = Tail(@)]
    /\ UNCHANGED ran

Published ==
    /\ m.pc = "publish" /\ m.journal = <<>>
    /\ m' = [m EXCEPT !.pc = "idle", !.published = m.state, !.raised = <<>>, !.blocks = <<>>,
                      !.queue = @ \cup ({m.raised[k].row : k \in 1 .. Len(m.raised)} \ {0})]
    /\ UNCHANGED ran

\* A tagged internal Event is observed and its row released.
Observe(r) ==
    /\ m.pc = "idle" /\ r \in m.queue
    /\ m' = [m EXCEPT !.queue = @ \ {r}, !.metadata[r] = "free"]
    /\ UNCHANGED ran

\* scxml_session_report_send_done, from the timer's thread.
report_send_done(i) ==
    LET row == m.registry[i] IN
    /\ m.pc /= "errored"
    /\ \/ /\ row.state = "ACTIVE" /\ m' = [m EXCEPT !.registry[i] = FreeReg]
       \/ /\ row.state = "CANCEL_RESERVED" /\ row.previous = "ACTIVE"
          /\ m' = [m EXCEPT !.registry[i].previous = "FREE"]
    /\ UNCHANGED ran

Next ==
    \/ \E p \in StartPrograms \cup Programs : BeginMicrostep(p)
    \/ BeginBlock \/ EndBlock \/ AbortBlock \/ StepRaise \/ Commit \/ Published
    \/ \E ok \in BOOLEAN : \/ StepAssign(ok) \/ StepScript(ok) \/ execute_custom_action(ok)
                           \/ StepEarly(ok) \/ StepLate(ok) \/ EndRange(ok)
                           \/ \E a \in Answers : execute_send(ok, a)
                           \/ \E n \in 0 .. MaxLength : StepForeach(ok, n)
    \/ \E a \in Answers : execute_cancel(a)
    \/ \E t, e \in 0 .. 2 : StepIf(t, e)
    \/ \E r \in Rows : Observe(r)
    \/ \E i \in Ids : report_send_done(i)

Spec == Init /\ [][Next]_vars

--------------------------------------------------------------------------
(* Properties *)

\* An aborted block leaves no trace in the datamodel and in the script
\* scope, but for the id of the send the adapter refused: what the next
\* block starts from is what this one started from.
AbortLeavesNoTrace ==
    m.pc = "aborted" /\ m'.pc \in {"begin", "publish"} =>
         /\ \A v \in Vars \ {"idlocation"} : m'.state[v] = m.state[v]
         /\ m'.state["idlocation"] \in {m.state["idlocation"], m.out["idlocation"]}
         /\ m'.scope.staged = m.scope.checkpoint

\* A block starts from the scope as the block before it left it.
BlocksBuildOnEachOther ==
    m.pc = "begin" /\ m'.pc = "step" =>
         m'.scope.checkpoint = IF m.scope.pending THEN m.scope.staged ELSE m.scope.committed

\* Every abort, failing condition and failing initializer has raised exactly
\* one error Event: the document is told about each, and about each once.
ErrorsAreTold ==
    m.pc \in {"begin", "publish"} /\ m.journal /= <<>> =>
        Cardinality({k \in 1 .. Len(m.raised) : m.raised[k].event \in {"execution", "communication"}})
            = ran.aborts + ran.conditions + ran.initializers

\* A microstep publishes all of its parts or none: an errored Session keeps
\* the state, the scope and the markers of the last published microstep.
AllOrNothing ==
    /\ m.pc = "errored" => /\ m.state = m.published /\ m.late /= "PENDING"
                           /\ ~m.scope.pending /\ ~m.scope.live
    /\ m.pc = "idle" => /\ ~m.scope.pending /\ ~m.scope.live /\ ~m.late_ticket
                        /\ m.late /= "PENDING"

\* The script scope that is committed is the one the last block left.
ScopeIsPublished ==
    m.pc = "publish" /\ m.scope.pending /\ ~m'.scope.pending =>
         m'.scope.committed = m.scope.staged

\* Late data is bound at the first entry of its state and never again: a
\* later entry finds the value the document has given it since.
LateOnce ==
    m.published["late"] /= 0 => m'.published["late"] = m.published["late"]

\* No send stays half reserved: when the tickets of a microstep are settled
\* every row of the registry is free or holds a running timer, however often
\* an id was cancelled in it.
NoRowStuck ==
    m.pc = "idle" => \A i \in Ids : m.registry[i] \in {FreeReg, [state |-> "ACTIVE", previous |-> "FREE"]}

\* A metadata row is in use only for an Event that is still to be observed.
MetadataRowsReturn ==
    \A r \in Rows : m.metadata[r] = "used" =>
        \/ r \in m.queue
        \/ \E k \in 1 .. Len(m.raised) : m.raised[k].row = r

\* Every copy of an array that a <foreach> opened is destroyed, on every way
\* out of the loop.
SnapshotsClosed == m.pc \in {"idle", "begin", "publish", "errored"} => m.snapshots = 0

\* A microstep is published whole or not at all, and gives back what it took
\* (above).
ExecSound ==
    TypeOK /\ AllOrNothing /\ ErrorsAreTold /\ NoRowStuck /\ MetadataRowsReturn /\ SnapshotsClosed

\* A block sees what the blocks before it left, and nothing of one that was
\* aborted; late data is bound once.
ExecSteps == AbortLeavesNoTrace /\ BlocksBuildOnEachOther /\ ScopeIsPublished /\ LateOnce
=============================================================================
