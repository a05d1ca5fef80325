------------------------------ MODULE MCSessions ------------------------------
(***************************************************************************)
(* The Sessions, side by side: of SCXML the initialisation, external data, *)
(* executable content, Event metadata and invocations, and the CCXML       *)
(* Session.  They are explored one at a time: "part" names which, and with *)
(* which program, and the others stay as they began.                       *)
(***************************************************************************)
EXTENDS Integers, Sequences, FiniteSets

CONSTANT Explored   \* the components and programs to explore

VARIABLES
    part,
    inv_rows, journal, session, lane, chart, reporters, child, seen, attempts,  \* Invocations
    block, ran,                                                              \* ExecBlock
    ev_rows, next_token, ev_calls, mailbox, worker, current, slots,
    completions, next_sequence, ev_log,                                      \* EventMetadata
    init_cfg, init_s, adapter, instance, calls,                              \* SessionInit
    da_cfg, da_s, da_log,                                                    \* DataResource
    program, cc_x, cc_w,                                                     \* CcxmlSession
    pattern, pt_name, pattern_index, name_index, wildcard_index,
    wildcard_name_index, result                                              \* EventPattern

invVars == <<inv_rows, journal, session, lane, chart, reporters, child, seen, attempts>>
blockVars == <<block, ran>>
eventVars == <<ev_rows, next_token, ev_calls, mailbox, worker, current, slots, completions,
               next_sequence, ev_log>>
initVars == <<init_cfg, init_s, adapter, instance, calls>>
dataVars == <<da_cfg, da_s, da_log>>
ccxmlVars == <<program, cc_x, cc_w>>
patternVars == <<pattern, pt_name, pattern_index, name_index, wildcard_index, wildcard_name_index, result>>
sessionsVars == <<part, invVars, blockVars, eventVars, initVars, dataVars, ccxmlVars, patternVars>>

Unused == 0

-----------------------------------------------------------------------------
(* Invocations: a state "a" with one <invoke> and a state "b" with another. *)

Refusing == {"ACCEPTED", "HALF_TICKET", "ERROR_EXECUTION", "ERROR_COMMUNICATION",
             "INVALID_CONTRACT"}

\* Reports and forwards against the lane.
Reports == INSTANCE Invocations WITH
             Inv <- 1 .. 2, owner <- <<"a", "b">>, autoforward <- {1, 2},
             effect_capacity <- 4, mailbox_capacity <- 2, internal_capacity <- 1,
             UINT64_MAX <- 2, Reporter <- {"r1"}, MaxReports <- 2, MaxExternal <- 1,
             MaxMicrosteps <- 1, AdapterAnswers <- {"ACCEPTED"}, ContentFails <- FALSE,
             CanEnd <- FALSE, rows <- inv_rows
\* Every answer of the adapter, and content that fails.
Faults == INSTANCE Invocations WITH
             Inv <- 1 .. 2, owner <- <<"a", "b">>, autoforward <- {1, 2},
             effect_capacity <- 2, mailbox_capacity <- 2, internal_capacity <- 1,
             UINT64_MAX <- 2, Reporter <- {"r1"}, MaxReports <- 1, MaxExternal <- 1,
             MaxMicrosteps <- 1, AdapterAnswers <- Refusing, ContentFails <- TRUE,
             CanEnd <- FALSE, rows <- inv_rows
\* Close, cancel and destroy at any time.
Endings == INSTANCE Invocations WITH
             Inv <- 1 .. 2, owner <- <<"a", "b">>, autoforward <- {1},
             effect_capacity <- 3, mailbox_capacity <- 1, internal_capacity <- 1,
             UINT64_MAX <- 2, Reporter <- {"r1"}, MaxReports <- 1, MaxExternal <- 0,
             MaxMicrosteps <- 1, AdapterAnswers <- {"ACCEPTED", "ERROR_COMMUNICATION"},
             ContentFails <- FALSE, CanEnd <- TRUE, rows <- inv_rows
\* The same without forwards, for liveness.
Lives == INSTANCE Invocations WITH
             Inv <- 1 .. 2, owner <- <<"a", "b">>, autoforward <- {},
             effect_capacity <- 3, mailbox_capacity <- 2, internal_capacity <- 1,
             UINT64_MAX <- 2, Reporter <- {"r1"}, MaxReports <- 1, MaxExternal <- 0,
             MaxMicrosteps <- 1, AdapterAnswers <- {"ACCEPTED", "ERROR_EXECUTION"},
             ContentFails <- FALSE, CanEnd <- TRUE, rows <- inv_rows

-----------------------------------------------------------------------------
(* Executable content.                                                     *)

Content(k, next) ==
    [kind |-> k, next |-> next, id |-> 1, idlocation |-> FALSE, named |-> FALSE,
     delayed |-> FALSE, internal |-> FALSE, payload |-> FALSE, branches |-> <<>>]
Send(i, next) == [Content("SEND", next) EXCEPT !.id = i, !.named = TRUE, !.idlocation = TRUE]
Delayed(i, next) == [Content("SEND", next) EXCEPT !.id = i, !.named = TRUE, !.delayed = TRUE]
Internal(payload, next) == [Content("SEND", next) EXCEPT !.internal = TRUE, !.payload = payload]
Cancel(i, next) == [Content("CANCEL", next) EXCEPT !.id = i]
IfStep(branches, next) == [Content("IF", next) EXCEPT !.branches = branches]
Arm(begin, end, conditional) == [begin |-> begin, end |-> end, conditional |-> conditional]

\* The first microstep: early data and root scripts in one block, then the
\* entry of a state with late data.
DataStart ==
    { << <<Content("EARLY", 2), Content("SCRIPT", 3)>>, <<Content("LATE", 2)>>, <<Content("ASSIGN", 2)>> >>,
      << <<Content("EARLY", 2), Content("SCRIPT", 3)>> >> }

\* Content that only changes data.
DataPrograms ==
    { << <<Content("LATE", 2)>>, <<Content("SCRIPT", 2), Content("RAISE", 3)>> >>,
      << <<Content("SCRIPT", 2), Content("RAISE", 3)>>, <<Content("SCRIPT", 2), Content("CUSTOM", 3)>> >>,
      << <<Content("RAISE", 2), Content("RAISE", 3), Content("RAISE", 4)>>, <<Content("LATE", 2)>> >> }

\* Sends and cancels, the same id more than once in one microstep.
SendPrograms ==
    { << <<Delayed(1, 2), Cancel(1, 3), Cancel(1, 4)>> >>,
      << <<Cancel(1, 2), Cancel(1, 3)>>, <<Delayed(1, 2), Delayed(2, 3)>> >>,
      << <<Send(1, 2), Internal(FALSE, 3)>>, <<Content("ASSIGN", 2), Internal(TRUE, 3)>> >>,
      << <<Delayed(2, 2), Internal(TRUE, 3), Content("RAISE", 4), Content("RAISE", 5), Content("RAISE", 6)>> >> }

\* A loop with a condition in it, and a condition with a loop in it.
NestedPrograms ==
    { << <<Content("FOREACH", 4), IfStep(<<Arm(3, 4, TRUE)>>, 4), Content("SCRIPT", 4), Content("RAISE", 5)>> >>,
      << <<IfStep(<<Arm(2, 4, TRUE), Arm(4, 5, FALSE)>>, 5),
           Content("FOREACH", 4), Content("FOREACH", 4), Content("ASSIGN", 5)>>,
         <<Content("FOREACH", 3), Content("CUSTOM", 3)>> >> }

DataBlocks == INSTANCE ExecBlock WITH
          StartPrograms <- DataStart, Programs <- DataPrograms, Ids <- {1, 2},
          delayed_send_capacity <- 2, metadata_capacity <- 1, effect_capacity <- 2,
          internal_capacity <- 3, max_conditional_depth <- 2, MaxLength <- 2,
          Answers <- {"ACCEPTED"}, MaxMicrosteps <- 3, m <- block
SendBlocks == INSTANCE ExecBlock WITH
          StartPrograms <- SendPrograms, Programs <- SendPrograms, Ids <- {1, 2},
          delayed_send_capacity <- 2, metadata_capacity <- 1, effect_capacity <- 4,
          internal_capacity <- 3, max_conditional_depth <- 2, MaxLength <- 2,
          Answers <- Refusing, MaxMicrosteps <- 2, m <- block
NestedBlocks == INSTANCE ExecBlock WITH
          StartPrograms <- NestedPrograms, Programs <- NestedPrograms, Ids <- {1, 2},
          delayed_send_capacity <- 2, metadata_capacity <- 1, effect_capacity <- 3,
          internal_capacity <- 3, max_conditional_depth <- 2, MaxLength <- 2,
          Answers <- {"ACCEPTED"}, MaxMicrosteps <- 1, m <- block

-----------------------------------------------------------------------------
(* Events: two producers, and two states whose final children carry data.  *)

DeclaredNames == {<<"a">>, <<"a", "b">>}

Events == INSTANCE EventMetadata WITH
            Producers <- {"p1", "p2"}, Messages <- 1 .. 2, Structured <- {1},
            Declared <- DeclaredNames, Names <- {<<"a", "b", "c">>, <<"c">>},
            external_event_capacity <- 2, completion_capacity <- 2, Parents <- {1},
            FieldCount <- 1, MaxFinals <- 1, MaxToken <- 3,
            rows <- ev_rows, calls <- ev_calls, log <- ev_log
DoneData == INSTANCE EventMetadata WITH
            Producers <- {"p1", "p2"}, Messages <- 1 .. 2, Structured <- {},
            Declared <- DeclaredNames, Names <- {},
            external_event_capacity <- 2, completion_capacity <- 2, Parents <- {1, 2},
            FieldCount <- 2, MaxFinals <- 4, MaxToken <- 3,
            rows <- ev_rows, calls <- ev_calls, log <- ev_log

-----------------------------------------------------------------------------
(* Initialisation: every set of functions an adapter may lack.             *)

Table(caps, fns) == [present |-> TRUE, caps |-> caps, fns |-> fns]
EventCaps == {"SEND", "DELAYED_SEND", "CANCEL", "PAYLOAD"}
EventFns == {"prepare_send", "prepare_cancel"}
InvokeCaps == {"START", "CANCEL", "FORWARD", "CONTENT"}
InvokeFns == {"prepare_start", "prepare_cancel", "prepare_forward"}

Lifecycle == INSTANCE SessionInit WITH
    Requirements <- {{"EVENT_IO", "INVOKE"}}, EventIoTables <- {Table(EventCaps, EventFns)},
    InvokeTables <- {Table(InvokeCaps, InvokeFns)}, Capacities <- {1},
    Ioprocessors <- {<<>>, <<"http", "http">>, <<"scxml">>, <<"http", "cnet">>},
    Quickjs <- BOOLEAN, Callers <- {"c1", "c2"}, cfg <- init_cfg, s <- init_s
\* One thread that closes, for liveness: two that take turns can keep a host
\* that waits for both from destroying.
Teardown == INSTANCE SessionInit WITH
    Requirements <- {{"EVENT_IO", "INVOKE"}}, EventIoTables <- {Table(EventCaps, EventFns)},
    InvokeTables <- {Table(InvokeCaps, InvokeFns)}, Capacities <- {1},
    Ioprocessors <- {<<>>, <<"http", "cnet">>},
    Quickjs <- {FALSE}, Callers <- {"c1"}, cfg <- init_cfg, s <- init_s
EventAdmission == INSTANCE SessionInit WITH
    Requirements <- {r \in SUBSET {"EVENT_IO", "DELAYED_SEND", "CANCEL", "PAYLOAD", "LATE"} : Cardinality(r) < 3},
    EventIoTables <- {Table(c, f) : c \in SUBSET EventCaps, f \in SUBSET EventFns},
    InvokeTables <- {}, Capacities <- {0, 1}, Ioprocessors <- {<<>>},
    Quickjs <- {FALSE}, Callers <- {"c1"}, cfg <- init_cfg, s <- init_s
InvokeAdmission == INSTANCE SessionInit WITH
    Requirements <- SUBSET {"INVOKE", "FORWARD", "INVOKE_CONTENT"},
    EventIoTables <- {}, InvokeTables <- {Table(c, f) : c \in SUBSET InvokeCaps, f \in SUBSET InvokeFns},
    Capacities <- {1}, Ioprocessors <- {<<>>},
    Quickjs <- {FALSE}, Callers <- {"c1"}, cfg <- init_cfg, s <- init_s

-----------------------------------------------------------------------------
(* External data: overlapping locations, some with the host's values.      *)

D(lo, hi, uri, late) == [lo |-> lo, hi |-> hi, uri |-> uri, late |-> late]
External == INSTANCE DataResource WITH
    Programs <- {<<D(0, 1, "u1", FALSE), D(1, 2, "", FALSE), D(2, 3, "u2", TRUE)>>,
                 <<D(0, 2, "u1", FALSE), D(0, 1, "u2", FALSE)>>,
                 <<D(0, 1, "", TRUE), D(1, 2, "u1", TRUE)>>,
                 <<D(0, 1, "u1", FALSE), D(0, 1, "u2", FALSE)>>},
    Boundaries <- {"raw", "legacy", "none"},
    OverrideLists <- {<<>>, << <<0, 1>> >>, << <<2, 3>> >>, << <<0, 1>>, <<0, 1>> >>, << <<1, 3>> >>},
    Cells <- 0 .. 2, Sizes <- 0 .. 2, MaxBytes <- 1, ErrorRoom <- 2,
    cfg <- da_cfg, s <- da_s, log <- da_log

-----------------------------------------------------------------------------
(* CCXML programs: each a sequence of transitions.                         *)

A(kind) == [kind |-> kind, branch_next |-> 0, block_end |-> 0, cond |-> "", dynamic |-> FALSE,
            location |-> "", value |-> "", delay |-> "NONE", payload |-> FALSE,
            name_is_dynamic |-> FALSE, type_is_dynamic |-> FALSE]
WithId(kind, location) == [A(kind) EXCEPT !.location = location]
SetState(value) == [A("ASSIGN_STRING") EXCEPT !.value = value]
Branch(kind, cond, next, end) ==
    [A(kind) EXCEPT !.cond = cond, !.branch_next = next, !.block_end = end]
Loop(next, end) == [A("FOREACH") EXCEPT !.branch_next = next, !.block_end = end]
Again(first) == [A("ENDFOREACH") EXCEPT !.branch_next = first]
On(events, states, cond, actions) ==
    [events |-> events, states |-> states, cond |-> cond, actions |-> actions]

Sends ==
    << On({"a"}, {}, "", <<WithId("SEND", "sid"), WithId("CANCEL", "sid"), SetState("s1")>>),
       On({"b"}, {"s0"}, "", <<[WithId("SEND", "sid") EXCEPT !.delay = "LOCATION", !.payload = TRUE],
                               A("ACCEPT")>>),
       On({"b"}, {}, "", <<WithId("CANCEL", "sid"), A("EXIT")>>) >>
Providers ==
    << On({"a"}, {"s0"}, "", <<WithId("CREATE_CONFERENCE", "cid"), WithId("DIALOG_START", "did"), SetState("s1")>>),
       On({"a"}, {"s1"}, "", <<WithId("DESTROY_CONFERENCE", "cid"), WithId("DIALOG_TERMINATE", "did"), SetState("s0")>>),
       On({"b"}, {}, "any", <<WithId("DIALOG_PREPARE", "did"), WithId("PREPARED_DIALOG_START", "did")>>) >>
Loops ==
    << On({"a"}, {}, "", <<Loop(2, 8), Branch("IF", "item", 4, 6), WithId("SEND", "sid"),
                           Branch("ELSE", "", 6, 6), A("JOIN"), A("ENDIF"), Again(1),
                           A("UNJOIN")>>),
       On({"b"}, {}, "item", <<Loop(2, 7), Branch("IF", "any", 5, 5), A("MERGE"), A("EXIT"),
                               A("ENDIF"), Again(1)>>),
       On({"b"}, {}, "", <<Loop(2, 4), A("JOIN"), Again(1), Loop(5, 9),
                           Branch("IF", "any", 7, 7), A("MERGE"), A("ENDIF"), Again(4)>>) >>
Branches ==
    << On({"a"}, {}, "any", <<Branch("IF", "any", 3, 7), A("DISCONNECT"),
                              Branch("ELSEIF", "any", 5, 7), [A("REDIRECT") EXCEPT !.dynamic = TRUE],
                              Branch("ELSE", "", 7, 7), [A("CREATE_CALL") EXCEPT !.dynamic = TRUE],
                              A("ENDIF"), A("REJECT")>>),
       On({"a", "b"}, {}, "any", <<A("EXIT")>>) >>
Dynamic ==
    << On({"a"}, {}, "", <<[WithId("SEND", "sid") EXCEPT !.delay = "EXPRESSION", !.dynamic = TRUE,
                                !.name_is_dynamic = TRUE, !.type_is_dynamic = TRUE],
                           [WithId("CANCEL", "sid") EXCEPT !.dynamic = TRUE]>>) >>

Ccxml == INSTANCE CcxmlSession WITH
           Programs <- {Sends, Providers, Loops, Branches, Dynamic},
           Names <- {"a", "b", "error.x"}, FatalNames <- {"error.x"},
           max_foreach_iterations <- 2, MaxToken <- 2, MaxInits <- 1, MaxDispatches <- 3,
           Refusals <- {"INVALID_CONTRACT", "ERROR"}, x <- cc_x, w <- cc_w
\* A second session that takes the place of the first.
CcxmlAgain == INSTANCE CcxmlSession WITH
           Programs <- {Sends}, Names <- {"a", "b"}, FatalNames <- {},
           max_foreach_iterations <- 2, MaxToken <- 2, MaxInits <- 2, MaxDispatches <- 2,
           Refusals <- {"ERROR"}, x <- cc_x, w <- cc_w

\* The Event names of its transitions.
Pattern == INSTANCE EventPattern WITH MaxPattern <- 3, MaxName <- 3, Letters <- {"a", "A", "b"},
             name <- pt_name

ASSUME SessionsAssumption ==
    /\ Reports!InvocationAssumption /\ Faults!InvocationAssumption
    /\ Endings!InvocationAssumption /\ Lives!InvocationAssumption
    /\ DataBlocks!ExecAssumption /\ SendBlocks!ExecAssumption /\ NestedBlocks!ExecAssumption
    /\ Events!MetadataAssumption /\ DoneData!MetadataAssumption /\ Ccxml!CcxmlAssumption /\ CcxmlAgain!CcxmlAssumption
    /\ Pattern!PatternAssumption

-----------------------------------------------------------------------------
SessionsInit ==
    /\ part \in Explored
    /\ Reports!Init /\ DataBlocks!Init
    /\ Events!Init /\ (part = "events" \/ next_token = 1)
    /\ IF part = "lifecycle" THEN Lifecycle!Init
       ELSE IF part = "teardown" THEN Teardown!Init
       ELSE IF part = "event_admission" THEN EventAdmission!Init
       ELSE IF part = "invoke_admission" THEN InvokeAdmission!Init
       ELSE /\ init_cfg = Unused /\ init_s = [pc |-> "unused"] /\ adapter = Unused
            /\ instance = "none" /\ calls = Unused
    /\ IF part = "data" THEN External!Init ELSE da_cfg = Unused /\ da_s = Unused /\ da_log = Unused
    /\ IF part = "ccxml" THEN Ccxml!Init
       ELSE IF part = "ccxml_again" THEN CcxmlAgain!Init
       ELSE program = Unused /\ cc_x = Unused /\ cc_w = Unused
    /\ IF part = "pattern" THEN Pattern!Init
       ELSE /\ pattern = <<>> /\ pt_name = <<>> /\ pattern_index = 0 /\ name_index = 0
            /\ wildcard_index = Unused /\ wildcard_name_index = 0 /\ result = "NONE"

SessionsNext ==
    \/ /\ \/ part = "reports" /\ Reports!Next
          \/ part = "faults" /\ Faults!Next
          \/ part = "ends" /\ Endings!Next
          \/ part = "live" /\ Lives!Next
       /\ UNCHANGED <<part, blockVars, eventVars, initVars, dataVars, ccxmlVars, patternVars>>
    \/ /\ \/ part = "exec_data" /\ DataBlocks!Next
          \/ part = "exec_sends" /\ SendBlocks!Next
          \/ part = "exec_nested" /\ NestedBlocks!Next
       /\ UNCHANGED <<part, invVars, eventVars, initVars, dataVars, ccxmlVars, patternVars>>
    \/ /\ \/ part = "events" /\ Events!Next
          \/ part = "donedata" /\ DoneData!Next
       /\ UNCHANGED <<part, invVars, blockVars, initVars, dataVars, ccxmlVars, patternVars>>
    \/ /\ \/ part = "lifecycle" /\ Lifecycle!Next
          \/ part = "teardown" /\ Teardown!Next
          \/ part = "event_admission" /\ EventAdmission!Next
          \/ part = "invoke_admission" /\ InvokeAdmission!Next
       /\ UNCHANGED <<part, invVars, blockVars, eventVars, dataVars, ccxmlVars, patternVars>>
    \/ /\ part = "data" /\ External!Next
       /\ UNCHANGED <<part, invVars, blockVars, eventVars, initVars, ccxmlVars, patternVars>>
    \/ /\ \/ part = "ccxml" /\ Ccxml!Next
          \/ part = "ccxml_again" /\ CcxmlAgain!Next
       /\ UNCHANGED <<part, invVars, blockVars, eventVars, initVars, dataVars, patternVars>>
    \/ /\ part = "pattern" /\ Pattern!Next
       /\ UNCHANGED <<part, invVars, blockVars, eventVars, initVars, dataVars, ccxmlVars>>

-----------------------------------------------------------------------------
(* The properties of the components, each for its own behaviours.          *)

\* The chart, the rows and the children agree about every invocation
\* (scxml_runtime.c: the invocation effects, report_invoke_event).
InvocationSound ==
    /\ part = "reports" => Reports!InvocationSound
    /\ part = "faults" => Faults!InvocationSound
    /\ part = "ends" => Endings!InvocationSound
    /\ part = "live" => Lives!InvocationSound

\* A microstep takes effect whole or not at all and tells of every error
\* (scxml_runtime.c: execute_scxml_block_impl, the prepared effects).
ExecSound ==
    /\ part = "exec_data" => DataBlocks!ExecSound
    /\ part = "exec_sends" => SendBlocks!ExecSound
    /\ part = "exec_nested" => NestedBlocks!ExecSound

\* Every Event is looked at with its own metadata, and rows and slots come
\* back (scxml_runtime.c: observe_event, completion_data_reserve).
MetadataSound ==
    /\ part = "events" => Events!MetadataSound
    /\ part = "donedata" => DoneData!MetadataSound

\* What init, close and destroy took they give back, and what init admits can
\* run (scxml_session.c: scxml_session_init, scxml_session_destroy).
InitSound ==
    /\ part = "lifecycle" => Lifecycle!InitSound
    /\ part = "teardown" => Teardown!InitSound
    /\ part = "event_admission" => EventAdmission!InitSound
    /\ part = "invoke_admission" => InvokeAdmission!InitSound

\* Data is there only from an initializer that succeeded, and its resources
\* are closed (scxml_runtime.c: apply_data_initializers).
DataSound == part = "data" => External!DataSound

\* A CCXML Event selects the transitions its name matches and takes effect
\* whole or not at all (ccxml_session.c: event_pattern_matches,
\* execute_transition_actions, retain_ticket).
CcxmlSound ==
    /\ part = "ccxml" => Ccxml!CcxmlSound
    /\ part = "ccxml_again" => CcxmlAgain!CcxmlSound
    /\ part = "pattern" => Pattern!GreedyIsExact

\* What no step may do: show the chart a cancelled invocation, build a block
\* on an aborted one, mix the metadata of Events, or take a transition after
\* a guard failed.
SessionSteps ==
    [][/\ part = "reports" => Reports!CancelledIsSilent
       /\ part = "ends" => Endings!CancelledIsSilent
       /\ part = "exec_data" => DataBlocks!ExecSteps
       /\ part = "exec_sends" => SendBlocks!ExecSteps
       /\ part = "exec_nested" => NestedBlocks!ExecSteps
       /\ part = "events" => Events!OwnMetadata
       /\ part = "donedata" => DoneData!DoneDataInOrder
       /\ part = "ccxml" => Ccxml!FailedGuardStops
       /\ part = "ccxml_again" => CcxmlAgain!FailedGuardStops]_sessionsVars

\* The executor runs what is ready, and a report call returns.
LaneFair ==
    /\ WF_invVars(part = "live" /\ Lives!Lane)
    /\ WF_invVars(part = "live" /\ Lives!ReportSend("r1"))

\* A call under way goes on and the worker looks at the Events it has.
WorkerFair ==
    /\ WF_eventVars(part = "events" /\ Events!Work)
    /\ \A p \in {"p1", "p2"} : WF_eventVars(part = "events" /\ Events!Produce(p))

\* Calls go on, a closed adapter becomes quiescent, and a host that has begun
\* to destroy the Session calls again until it is done.
HostFair ==
    /\ WF_initVars(part = "teardown" /\ Teardown!CloseOne("c1"))
    /\ \A a \in {"event_io", "invoke"} : WF_initVars(part = "teardown" /\ Teardown!Quiesce(a))
    /\ SF_initVars(part = "teardown" /\ instance = "closed" /\ Teardown!scxml_session_destroy(TRUE))

\* Pending invocations are started and a cancelled Session ends; every Event
\* that took a row is looked at or refused; a Session that is being closed can
\* always be destroyed; the match of a pattern, which no one interrupts, ends;
\* and no step does what SessionSteps forbids.
SessionsProgress ==
    /\ SessionSteps
    /\ part = "live" /\ LaneFair => Lives!PendingIsStarted /\ Lives!CancelledSessionEnds
    /\ part = "events" /\ WorkerFair => Events!EventIsObserved
    /\ part = "teardown" /\ HostFair => Teardown!DestroyEnds
    /\ part = "pattern" /\ WF_patternVars(part = "pattern" /\ Pattern!Next) => Pattern!MatchEnds
=============================================================================
