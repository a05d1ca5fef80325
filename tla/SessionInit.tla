----------------------------- MODULE SessionInit -----------------------------
(***************************************************************************)
(* The life of an SCXML Session object (scxml_session.c): admission of the *)
(* configuration, the stages of scxml_session_init_model, which may each   *)
(* fail and take back what the stages before have built, then close,       *)
(* cancel and destroy.                                                     *)
(*                                                                         *)
(* cflow_statechart_instance_init runs the initial entry before it         *)
(* returns, so the adapters may already hold rows of a Session whose init  *)
(* fails.  The instance and both adapters are external.                    *)
(***************************************************************************)
EXTENDS Integers, Sequences, FiniteSets

CONSTANTS
    Requirements,   \* sets of features the program may require
    EventIoTables,  \* Event I/O adapters: [caps, fns]; "caps" without SEND is one too
    InvokeTables,   \* invoke adapters
    Capacities,     \* values of effect_capacity, delayed_send_capacity, ...
    Ioprocessors,   \* lists of configured processor types
    Quickjs,        \* the values of quickjs_profile to consider
    Callers         \* threads that close or cancel

Adapters == {"event_io", "invoke"}
NoAdapter == [present |-> FALSE, caps |-> {}, fns |-> {}]
CoreType == "scxml"

\* What session_free_storage frees, and what the init stages build.
Storage == {"ioprocessors", "name", "overrides", "resources", "scope", "rows", "runtime"}
Stages == <<"impl", "ioprocessors", "name", "overrides", "resources", "scope", "rows", "mutex",
            "retain", "state", "runtime", "instance">>

VARIABLES
    cfg,        \* the configuration and the program's requirements
    s,          \* [pc, stage, held]: the caller of init and what is allocated
    adapter,    \* [present, retained, closed, rows, quiescent] of each adapter
    instance,   \* the statechart instance
    calls       \* the calls of close and cancel under way

vars == <<cfg, s, adapter, instance, calls>>

TypeOK ==
    /\ s.pc \in {"validate", "init", "failed", "running", "destroyed"}
    /\ s.stage \in 1 .. Len(Stages) + 1
    /\ s.held \subseteq Storage \cup {"impl", "mutex", "state", "instance"}
    /\ adapter \in [Adapters -> [retained : BOOLEAN, closed : 0 .. Cardinality(Callers) + 2, rows : BOOLEAN, quiescent : BOOLEAN]]
    /\ instance \in {"none", "running", "closed"}
    /\ calls \in [Callers -> {"idle", "event_io", "invoke"}]

Init ==
    /\ cfg \in [req : Requirements, event_io : EventIoTables \cup {NoAdapter},
                invoke : InvokeTables \cup {NoAdapter}, effect_capacity : Capacities,
                delayed_send_capacity : Capacities, invocation_capacity : Capacities,
                ioprocessors : Ioprocessors, quickjs : Quickjs]
    /\ s = [pc |-> "validate", stage |-> 1, held |-> {}]
    /\ adapter = [a \in Adapters |-> [retained |-> FALSE, closed |-> 0, rows |-> FALSE, quiescent |-> FALSE]]
    /\ instance = "none"
    /\ calls = [c \in Callers |-> "idle"]

--------------------------------------------------------------------------
(* Admission *)

\* event_io_adapter_valid: a capability has its function, and payload,
\* content and delay need send, cancel needs delay.
event_io_adapter_valid(t) ==
    ~t.present \/
    /\ "SEND" \in t.caps => "prepare_send" \in t.fns
    /\ {"PAYLOAD", "CONTENT", "DELAYED_SEND"} \cap t.caps /= {} => "SEND" \in t.caps
    /\ "CANCEL" \in t.caps => "DELAYED_SEND" \in t.caps /\ "prepare_cancel" \in t.fns

\* invoke_adapter_valid
invoke_adapter_valid(t) ==
    ~t.present \/
    /\ "START" \in t.caps => "prepare_start" \in t.fns
    /\ {"PAYLOAD", "CONTENT"} \cap t.caps /= {} => "START" \in t.caps
    /\ "CANCEL" \in t.caps => "prepare_cancel" \in t.fns
    /\ "FORWARD" \in t.caps => "prepare_forward" \in t.fns

\* The checks of scxml_session_init_model before it allocates.
admitted(c) ==
    /\ event_io_adapter_valid(c.event_io) /\ invoke_adapter_valid(c.invoke)
    /\ "LATE" \in c.req => c.effect_capacity > 0
    /\ "EVENT_IO" \in c.req => c.event_io.present /\ c.effect_capacity > 0 /\ "SEND" \in c.event_io.caps
    /\ "DELAYED_SEND" \in c.req => c.delayed_send_capacity > 0 /\ "DELAYED_SEND" \in c.event_io.caps
    /\ "CANCEL" \in c.req => "CANCEL" \in c.event_io.caps
    /\ "INVOKE" \in c.req => /\ c.invoke.present /\ c.effect_capacity > 0
                             /\ c.invocation_capacity > 0
                             /\ {"START", "CANCEL"} \subseteq c.invoke.caps
    /\ "FORWARD" \in c.req => "FORWARD" \in c.invoke.caps
    /\ \A f \in {"PAYLOAD", "CONTENT"} \cap c.req : c.event_io.present /\ f \in c.event_io.caps
    /\ "INVOKE_PAYLOAD" \in c.req => c.invoke.present /\ "PAYLOAD" \in c.invoke.caps
    /\ "INVOKE_CONTENT" \in c.req => c.invoke.present /\ "CONTENT" \in c.invoke.caps

\* retain_ioprocessors: the types are distinct and none is the core type.
ioprocessors_valid(l) ==
    /\ \A i \in 1 .. Len(l) : l[i] /= CoreType
    /\ \A i, j \in 1 .. Len(l) : l[i] = l[j] => i = j

Validate ==
    /\ s.pc = "validate"
    /\ s' = [s EXCEPT !.pc = IF admitted(cfg) THEN "init" ELSE "failed"]
    /\ UNCHANGED <<cfg, adapter, instance, calls>>

--------------------------------------------------------------------------
(* The stages *)

Stage == Stages[s.stage]
Succeed(held) == s' = [s EXCEPT !.stage = @ + 1, !.held = @ \cup held]

\* session_free_storage, then free(impl).
session_free_storage(held) == held \ (Storage \cup {"impl"})

\* session_close_adapter: atomic_exchange lets only the first one through.
session_close_adapter(a) ==
    [x \in Adapters |-> IF a[x].retained THEN [a[x] EXCEPT !.closed = 1] ELSE a[x]]

\* impl, ioprocessors, name, overrides, resources, scope, rows, mutex: a
\* failure frees what there is; the adapters are not yet the Session's.
Build(ok) ==
    /\ s.pc = "init" /\ Stage \in Storage \cup {"impl", "mutex"} /\ Stage /= "runtime"
    /\ IF ok /\ (Stage = "ioprocessors" => ioprocessors_valid(cfg.ioprocessors))
       THEN Succeed({Stage})
       ELSE s' = [s EXCEPT !.pc = "failed", !.held = session_free_storage(@)]
    /\ UNCHANGED <<cfg, adapter, instance, calls>>

\* impl->event_io, impl->invoke
retain_adapters ==
    /\ s.pc = "init" /\ Stage = "retain"
    /\ adapter' = [a \in Adapters |-> [adapter[a] EXCEPT !.retained = cfg[a].present]]
    /\ Succeed({})
    /\ UNCHANGED <<cfg, instance, calls>>

\* A failure after the adapters were retained closes them.
Undo ==
    /\ adapter' = session_close_adapter(adapter)
    /\ s' = [s EXCEPT !.pc = "failed", !.held = session_free_storage(@ \ {"mutex", "state"})]

\* initialize_cmeta_state
initialize_cmeta_state(ok) ==
    /\ s.pc = "init" /\ Stage = "state"
    /\ IF ok THEN Succeed({"state"}) /\ UNCHANGED adapter ELSE Undo
    /\ UNCHANGED <<cfg, instance, calls>>

\* scxml_quickjs_session_runtime_init, for a QuickJS program
quickjs_runtime_init(ok) ==
    /\ s.pc = "init" /\ Stage = "runtime"
    /\ IF ~cfg.quickjs THEN ok /\ Succeed({}) /\ UNCHANGED adapter
       ELSE IF ok THEN Succeed({"runtime"}) /\ UNCHANGED adapter ELSE Undo
    /\ UNCHANGED <<cfg, instance, calls>>

\* cflow_statechart_instance_init: the initial entry may give rows to the
\* adapters, then it succeeds or fails.  The initial state is only a copy.
instance_init(ok, sent) ==
    LET a == [x \in Adapters |-> [adapter[x] EXCEPT !.rows = x \in sent]] IN
    /\ s.pc = "init" /\ Stage = "instance"
    /\ sent \subseteq {x \in Adapters : adapter[x].retained}
    /\ IF ok THEN /\ adapter' = a /\ instance' = "running"
                  /\ s' = [s EXCEPT !.pc = "running", !.stage = @ + 1,
                                    !.held = (@ \ {"state"}) \cup {"instance"}]
       ELSE /\ adapter' = session_close_adapter(a) /\ UNCHANGED instance
            /\ s' = [s EXCEPT !.pc = "failed", !.held = session_free_storage(@ \ {"mutex", "state"})]
    /\ UNCHANGED <<cfg, calls>>

--------------------------------------------------------------------------
(* The end *)

\* scxml_session_close and scxml_session_cancel: the instance first ...
scxml_session_close(c) ==
    /\ s.pc = "running" /\ calls[c] = "idle"
    /\ instance' = "closed"
    /\ calls' = [calls EXCEPT ![c] = "event_io"]
    /\ UNCHANGED <<cfg, s, adapter>>

\* ... then one adapter after the other.
CloseOne(c) ==
    /\ calls[c] /= "idle"
    /\ adapter' = [adapter EXCEPT ![calls[c]] = session_close_adapter(adapter)[calls[c]]]
    /\ calls' = [calls EXCEPT ![c] = IF calls[c] = "event_io" THEN "invoke" ELSE "idle"]
    /\ UNCHANGED <<cfg, s, instance>>

\* The adapters finish their work some time after close.
Quiesce(a) ==
    /\ adapter[a].closed > 0 /\ ~adapter[a].quiescent
    /\ adapter' = [adapter EXCEPT ![a].quiescent = TRUE, ![a].rows = FALSE]
    /\ UNCHANGED <<cfg, s, instance, calls>>

\* Fault: only the Event I/O adapter is asked.
destroy_ready_Fault(a) == a["event_io"].retained => a["event_io"].quiescent

\* Both is_quiescent answers.
destroy_ready(a) == \A x \in Adapters : a[x].retained => a[x].quiescent

\* scxml_session_destroy, which the host calls when no other call is under
\* way; the instance may still say WOULD_BLOCK.
scxml_session_destroy(idle) ==
    LET a == session_close_adapter(adapter) IN
    /\ s.pc = "running" /\ \A c \in Callers : calls[c] = "idle"
    /\ instance' = "closed" /\ adapter' = a
    /\ s' = IF destroy_ready(a) /\ idle
            THEN [s EXCEPT !.pc = "destroyed", !.held = session_free_storage(@ \ {"mutex", "instance"})]
            ELSE s
    /\ UNCHANGED <<cfg, calls>>

Next ==
    \/ Validate \/ retain_adapters
    \/ \E ok \in BOOLEAN : \/ Build(ok) \/ initialize_cmeta_state(ok) \/ quickjs_runtime_init(ok)
                           \/ scxml_session_destroy(ok)
                           \/ \E sent \in SUBSET Adapters : instance_init(ok, sent)
    \/ \E c \in Callers : scxml_session_close(c) \/ CloseOne(c)
    \/ \E a \in Adapters : Quiesce(a)

Spec == Init /\ [][Next]_vars

\* Calls go on, a closed adapter becomes quiescent, and a host that has begun
\* to destroy the Session calls again until it is done; the executor is idle
\* then.
LiveSpec ==
    /\ Spec
    /\ \A c \in Callers : WF_vars(CloseOne(c))
    /\ \A a \in Adapters : WF_vars(Quiesce(a))
    /\ SF_vars(instance = "closed" /\ scxml_session_destroy(TRUE))

--------------------------------------------------------------------------
(* Properties *)

\* Init that fails, at whatever stage, and destroy leave nothing allocated.
NothingLeaks == s.pc \in {"failed", "destroyed"} => s.held = {}

\* Close is called once on an adapter, by init, close, cancel or destroy.
ClosedOnce == \A a \in Adapters : adapter[a].closed <= 1

\* An adapter that was given rows by the initial entry is closed when init
\* fails, so that it can discard them.
ClosedIfUsed == s.pc = "failed" => \A a \in Adapters : adapter[a].rows => adapter[a].closed = 1

\* What the program may do, the adapters and the capacities can: a running
\* Session never finds a function of its adapter missing.
AdmittedCanRun ==
    s.pc = "running" =>
        /\ cfg.req \cap {"EVENT_IO", "PAYLOAD", "CONTENT", "DELAYED_SEND"} /= {} =>
               "prepare_send" \in cfg.event_io.fns
        /\ {"PAYLOAD", "CONTENT", "DELAYED_SEND", "CANCEL"} \cap cfg.req \subseteq cfg.event_io.caps
        /\ "CANCEL" \in cfg.req => "prepare_cancel" \in cfg.event_io.fns
        /\ cfg.req \cap {"INVOKE", "INVOKE_PAYLOAD", "INVOKE_CONTENT"} /= {} =>
               "prepare_start" \in cfg.invoke.fns
        /\ "INVOKE" \in cfg.req => "prepare_cancel" \in cfg.invoke.fns
        /\ "FORWARD" \in cfg.req => "prepare_forward" \in cfg.invoke.fns

\* The storage goes only when both adapters have let go of the Session.
DestroyedWhenQuiet ==
    s.pc = "destroyed" => \A a \in Adapters : adapter[a].retained => adapter[a].quiescent /\ ~adapter[a].rows

\* A Session that is being closed can always be destroyed.
DestroyEnds == []<>(instance = "closed" => s.pc = "destroyed")

\* Init, close and destroy give back what they took, and admit only what can
\* run (above).
InitSound ==
    NothingLeaks /\ ClosedOnce /\ ClosedIfUsed /\ AdmittedCanRun /\ DestroyedWhenQuiet /\ TypeOK
==============================================================================
