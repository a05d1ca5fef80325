---------------------------- MODULE DataResource ----------------------------
(***************************************************************************)
(* Data initializers of an SCXML Session whose value comes from outside    *)
(* (scxml_runtime.c, scxml_session.c): the host overrides some of them     *)
(* when it creates the Session, the others open a resource, read it        *)
(* through a format provider and bind it to the datamodel.  Each stage may *)
(* fail; the initializer then must leave no data, no open resource and one *)
(* diagnostic.                                                             *)
(*                                                                         *)
(* The datamodel is a row of cells; a location is an interval of them.     *)
(* The resource adapter and the format providers are external.             *)
(***************************************************************************)
EXTENDS Integers, Sequences, FiniteSets

CONSTANTS
    Programs,       \* sequences of [lo, hi, uri, late]; uri = "" is an expression
    Boundaries,     \* "raw": bytes and a format; "legacy": a reader; "none"
    OverrideLists,  \* sequences of locations <<lo, hi>>
    Cells,          \* 0 .. number of cells - 1
    Sizes,          \* sizes of a resource
    MaxBytes,       \* max_data_resource_bytes
    ErrorRoom       \* error events the internal queue takes

Formats == {"JSON", "BINARY"}
DiagStages == {"none", "ACQUIRE", "FORMAT_OPEN", "NATIVE_BIND", "FORMAT_CLOSE"}
NoDiag == [stage |-> "none", uri |-> ""]
NoResource == [size |-> 0, view |-> TRUE, format |-> "JSON"]

VARIABLES
    cfg,    \* [prog, boundary, overrides]
    s,      \* the Session and the initializer that is being applied
    log     \* history: [opened, closed, outcome] of each initializer, failures told

vars == <<cfg, s, log>>
Inits == 1 .. Len(cfg.prog)
Covers(i) == {c \in Cells : cfg.prog[i].lo <= c /\ c < cfg.prog[i].hi}

TypeOK ==
    /\ s.pc \in {"admit", "early", "open", "check", "reader", "bind", "close_reader", "close", "result",
                 "microstep", "idle", "failed", "refused"}
    /\ s.i \in 0 .. Len(cfg.prog) + 1
    /\ s.overridden \subseteq Inits
    /\ s.state \in [Cells -> 0 .. Len(cfg.prog)] /\ s.snapshot \in [Cells -> 0 .. Len(cfg.prog)]
    /\ s.published \in [Cells -> 0 .. Len(cfg.prog)]
    /\ s.status \in {"OK", "EVALUATION_ERROR", "LIMIT_EXCEEDED"}
    /\ s.late \in [Inits -> {"EARLY", "NEVER", "PENDING", "DONE"}]
    /\ s.diag \in [stage : DiagStages, uri : {""} \cup {cfg.prog[i].uri : i \in Inits}]
    /\ s.errors \in 0 .. ErrorRoom
    /\ s.reader \in BOOLEAN
    /\ log.opened \in [Inits -> 0 .. 1] /\ log.closed \in [Inits -> 0 .. 1]

Init ==
    /\ cfg \in [prog : Programs, boundary : Boundaries, overrides : OverrideLists]
    /\ s = [pc |-> "admit", i |-> 0, overridden |-> {}, state |-> [c \in Cells |-> 0],
            snapshot |-> [c \in Cells |-> 0], published |-> [c \in Cells |-> 0], status |-> "OK",
            late |-> [i \in Inits |-> IF cfg.prog[i].late THEN "NEVER" ELSE "EARLY"],
            diag |-> NoDiag, errors |-> 0, reader |-> FALSE, res |-> NoResource]
    /\ log = [opened |-> [i \in Inits |-> 0], closed |-> [i \in Inits |-> 0],
              outcome |-> [i \in Inits |-> "none"], last |-> NoDiag]

--------------------------------------------------------------------------
(* Admission *)

\* scxml_assign_destination_matches
Matching(loc) == {i \in Inits : <<cfg.prog[i].lo, cfg.prog[i].hi>> = loc}

\* retain_environment_overrides: every override names one initializer, and
\* no two the same.
retain_environment_overrides(l) ==
    /\ Len(l) <= Len(cfg.prog)
    /\ \A k \in 1 .. Len(l) : Cardinality(Matching(l[k])) = 1
    /\ \A j, k \in 1 .. Len(l) : j < k => Matching(l[j]) /= Matching(l[k])

\* scxml_session_data_initializer_is_overridden
is_overridden(i) == i \in s.overridden

\* External initializers that are left need an adapter.
retain_data_resource_options(over) ==
    (\E i \in Inits \ over : cfg.prog[i].uri /= "") => cfg.boundary /= "none"

Admit ==
    LET over == UNION {Matching(cfg.overrides[k]) : k \in 1 .. Len(cfg.overrides)} IN
    /\ s.pc = "admit"
    /\ s' = IF retain_environment_overrides(cfg.overrides) /\ retain_data_resource_options(over)
            THEN [s EXCEPT !.pc = "early", !.i = 1, !.overridden = over]
            ELSE [s EXCEPT !.pc = "refused"]
    /\ UNCHANGED <<cfg, log>>

--------------------------------------------------------------------------
(* One external initializer, stage by stage *)

External(i) == cfg.prog[i].uri /= ""

\* store_data_resource_diagnostic, under registry_lock
store_data_resource_diagnostic(x, stage) == [x EXCEPT !.diag = [stage |-> stage, uri |-> cfg.prog[x.i].uri]]

\* data_resource_failure
data_resource_failure(st) == IF st = "LIMIT" THEN "LIMIT_EXCEEDED" ELSE "EVALUATION_ERROR"

Fail(x, stage, status) == [store_data_resource_diagnostic(x, stage) EXCEPT !.status = status]
FailLog(stage) == log' = [log EXCEPT !.last = [stage |-> stage, uri |-> cfg.prog[s.i].uri]]

\* open of the adapter: a failing open leaves nothing to close.
OpenFails(st) ==
    /\ s.pc = "open"
    /\ s' = [Fail(s, "ACQUIRE", data_resource_failure(st)) EXCEPT !.pc = "result"]
    /\ FailLog("ACQUIRE")
    /\ UNCHANGED cfg

OpenSucceeds(res) ==
    /\ s.pc = "open"
    /\ s' = [s EXCEPT !.pc = "check", !.res = res]
    /\ log' = [log EXCEPT !.opened[s.i] = @ + 1]
    /\ UNCHANGED cfg

\* The byte bound and the view.
CheckView ==
    /\ s.pc = "check" /\ cfg.boundary = "raw"
    /\ IF s.res.size > MaxBytes \/ (s.res.size /= 0 /\ ~s.res.view)
       THEN /\ s' = [Fail(s, "ACQUIRE", IF s.res.size > MaxBytes THEN "LIMIT_EXCEEDED" ELSE "EVALUATION_ERROR")
                        EXCEPT !.pc = "close"]
            /\ FailLog("ACQUIRE")
       ELSE s' = [s EXCEPT !.pc = "reader"] /\ UNCHANGED log
    /\ UNCHANGED cfg

\* data_resource_format_provider and data_bind_format_reader_open: st is
\* the reader's answer.
OpenReader(st) ==
    /\ s.pc = "reader"
    /\ IF s.res.format = "BINARY" \/ st /= "OK"
       THEN /\ s' = [Fail(s, "FORMAT_OPEN", IF s.res.format /= "BINARY" /\ st = "LIMIT"
                                            THEN "LIMIT_EXCEEDED" ELSE "EVALUATION_ERROR")
                        EXCEPT !.pc = "close"]
            /\ FailLog("FORMAT_OPEN")
       ELSE s' = [s EXCEPT !.pc = "bind", !.reader = TRUE] /\ UNCHANGED log
    /\ UNCHANGED cfg

\* The legacy adapter gives a reader itself.
CheckReader(ready) ==
    /\ s.pc = "check" /\ cfg.boundary = "legacy"
    /\ IF ready THEN s' = [s EXCEPT !.pc = "bind"] /\ UNCHANGED log
       ELSE s' = [Fail(s, "FORMAT_OPEN", "EVALUATION_ERROR") EXCEPT !.pc = "close"] /\ FailLog("FORMAT_OPEN")
    /\ UNCHANGED cfg

\* scxml_assign_apply_external_diagnostic decodes into its own storage and
\* then moves the value.
Bind(st) ==
    /\ s.pc = "bind"
    /\ LET next == IF s.reader THEN "close_reader" ELSE "close" IN
       IF st = "OK"
       THEN /\ s' = [s EXCEPT !.pc = next,
                              !.state = [c \in Cells |-> IF c \in Covers(s.i) THEN s.i ELSE s.state[c]]]
            /\ UNCHANGED log
       ELSE /\ s' = [Fail(s, "NATIVE_BIND", data_resource_failure(st)) EXCEPT !.pc = next]
            /\ FailLog("NATIVE_BIND")
    /\ UNCHANGED cfg

\* data_bind_format_reader_close: its failure counts when the bind had not
\* failed, and the value is already in the state.
CloseReader(ok) ==
    /\ s.pc = "close_reader"
    /\ IF ~ok /\ s.status = "OK"
       THEN /\ s' = [Fail(s, "FORMAT_CLOSE", "EVALUATION_ERROR") EXCEPT !.pc = "close", !.reader = FALSE]
            /\ FailLog("FORMAT_CLOSE")
       ELSE s' = [s EXCEPT !.pc = "close", !.reader = FALSE] /\ UNCHANGED log
    /\ UNCHANGED cfg

CloseResource ==
    /\ s.pc = "close"
    /\ s' = [s EXCEPT !.pc = "result", !.res = NoResource]
    /\ log' = [log EXCEPT !.closed[s.i] = @ + 1]
    /\ UNCHANGED cfg

--------------------------------------------------------------------------
(* apply_data_initializers *)

InMicrostep(x) == \E i \in Inits : x.late[i] = "PENDING"

\* The next initializer of the early range, with its snapshot.
BeginInitializer ==
    /\ s.pc = "early" /\ s.i <= Len(cfg.prog)
    /\ s' = IF cfg.prog[s.i].late \/ is_overridden(s.i) THEN [s EXCEPT !.i = @ + 1]
            ELSE [s EXCEPT !.pc = IF External(s.i) THEN "open" ELSE "result",
                           !.snapshot = s.state, !.status = "OK"]
    /\ UNCHANGED <<cfg, log>>

\* An initializer with an expression either assigns or fails.
ApplyExpression(ok) ==
    /\ s.pc = "result" /\ ~External(s.i) /\ log.outcome[s.i] = "none"
    /\ s' = IF ok THEN [s EXCEPT !.state = [c \in Cells |-> IF c \in Covers(s.i) THEN s.i ELSE s.state[c]]]
            ELSE [s EXCEPT !.status = "EVALUATION_ERROR"]
    /\ log' = [log EXCEPT !.outcome[s.i] = "tried"]
    /\ UNCHANGED cfg

\* A failing initializer gets its snapshot back.
restore(x) == IF x.status = "OK" THEN x ELSE [x EXCEPT !.state = x.snapshot]

\* The end of one initializer: restore and error.execution, which may not
\* fit any more.
FinishInitializer ==
    LET x == restore(s)
        bad == s.status /= "OK"
        next == IF InMicrostep(s) THEN "microstep" ELSE "early" IN
    /\ s.pc = "result" /\ (External(s.i) \/ log.outcome[s.i] = "tried")
    /\ s' = IF bad /\ s.errors = ErrorRoom THEN [x EXCEPT !.pc = "failed"]
            ELSE [x EXCEPT !.pc = next, !.errors = IF bad THEN @ + 1 ELSE @,
                           !.i = IF next = "early" THEN @ + 1 ELSE @, !.status = "OK",
                           !.snapshot = [c \in Cells |-> 0]]
    /\ log' = [log EXCEPT !.outcome[s.i] = IF bad THEN "failed" ELSE "ok"]
    /\ UNCHANGED cfg

\* The early range is done and published with the initial entry.
EndEarly ==
    /\ s.pc = "early" /\ s.i > Len(cfg.prog)
    /\ s' = [s EXCEPT !.pc = "idle", !.i = 0, !.published = s.state]
    /\ UNCHANGED <<cfg, log>>

\* A state with a late initializer is entered for the first time.
EnterLate(i) ==
    /\ s.pc = "idle" /\ s.late[i] = "NEVER"
    /\ s' = [s EXCEPT !.late[i] = "PENDING", !.i = i, !.status = "OK", !.snapshot = s.state,
                      !.pc = IF is_overridden(i) THEN "microstep" ELSE IF External(i) THEN "open" ELSE "result"]
    /\ log' = [log EXCEPT !.outcome[i] = "none", !.opened[i] = 0, !.closed[i] = 0]
    /\ UNCHANGED cfg

\* Fault: a discarded microstep leaves the initializer marked as done.
DiscardMicrostep_Fault ==
    /\ s.pc = "microstep"
    /\ s' = [s EXCEPT !.pc = "idle", !.i = 0, !.late[s.i] = "DONE", !.state = s.published,
                      !.snapshot = [c \in Cells |-> 0]]
    /\ log' = [log EXCEPT !.outcome[s.i] = "none"]
    /\ UNCHANGED cfg

\* The microstep is discarded, and its copy of the state with it.
DiscardMicrostep ==
    /\ s.pc = "microstep"
    /\ s' = [s EXCEPT !.pc = "idle", !.i = 0, !.late[s.i] = "NEVER", !.state = s.published,
                      !.snapshot = [c \in Cells |-> 0]]
    /\ log' = [log EXCEPT !.outcome[s.i] = "none"]
    /\ UNCHANGED cfg

\* The microstep is published.
CommitMicrostep ==
    /\ s.pc = "microstep"
    /\ s' = [s EXCEPT !.pc = "idle", !.i = 0, !.late[s.i] = "DONE", !.published = s.state,
                      !.snapshot = [c \in Cells |-> 0]]
    /\ UNCHANGED <<cfg, log>>

--------------------------------------------------------------------------
(* Reads *)

\* session_data_range_is_bound: some declaration in the range has its value
\* (early, overridden, or a late one that was entered), or none declares it.
session_data_range_is_bound(lo, hi) ==
    LET decl == {i \in Inits : Covers(i) \cap (lo .. hi - 1) /= {}} IN
    \/ decl = {}
    \/ \E i \in decl : s.late[i] = "EARLY" \/ is_overridden(i) \/ s.late[i] /= "NEVER"

Next ==
    \/ Admit \/ BeginInitializer \/ FinishInitializer \/ EndEarly \/ CheckView \/ CloseResource
    \/ DiscardMicrostep \/ CommitMicrostep
    \/ \E st \in {"LIMIT", "ERROR"} : OpenFails(st)
    \/ \E size \in Sizes, view \in BOOLEAN, format \in Formats :
           OpenSucceeds(IF cfg.boundary = "raw" THEN [size |-> size, view |-> view, format |-> format]
                        ELSE NoResource)
    \/ \E st \in {"OK", "LIMIT", "ERROR"} : OpenReader(st) \/ Bind(st)
    \/ \E ok \in BOOLEAN : CheckReader(ok) \/ CloseReader(ok) \/ ApplyExpression(ok)
    \/ \E i \in Inits : EnterLate(i)

Spec == Init /\ [][Next]_vars

--------------------------------------------------------------------------
(* Properties *)

AtRest == s.pc \in {"early", "microstep", "idle", "failed", "refused"}

\* Between two initializers no resource and no reader is open, whichever
\* stage failed.
ResourcesReturned ==
    AtRest => \A i \in Inits : log.opened[i] = log.closed[i] /\ ~s.reader

\* Data is only there from an initializer that succeeded: even one that
\* fails after the bind leaves nothing.
FailureLeavesNothing ==
    AtRest => \A c \in Cells : s.state[c] /= 0 => log.outcome[s.state[c]] = "ok"

\* The diagnostic a host can copy names the resource that failed last and
\* the first stage that failed in it.
DiagnosticOfLastFailure == s.diag = log.last

\* An initializer that the host has overridden opens nothing and writes nothing.
OverriddenUntouched ==
    \A i \in s.overridden : log.opened[i] = 0 /\ \A c \in Cells : s.state[c] /= i

\* Every override of an admitted Session took an initializer of its own.
OverridesAllUsed ==
    s.pc \notin {"admit", "refused"} => Cardinality(s.overridden) = Len(cfg.overrides)

\* What reads as unbound was never written, also when the microstep that
\* wrote it was discarded; and a late initializer that has run is bound.
UnboundIsUnwritten ==
    s.pc = "idle" => \A i \in Inits :
        LET p == cfg.prog[i] IN
        /\ ~session_data_range_is_bound(p.lo, p.hi) => \A c \in Covers(i) : s.state[c] = 0
        /\ session_data_range_is_bound(p.lo, p.hi) =>
               \E j \in Inits : Covers(j) \cap Covers(i) /= {} /\ (is_overridden(j) \/ log.outcome[j] /= "none")

\* Data comes from the initializer that succeeded, and every resource it read
\* is closed (above).
DataSound ==
    /\ TypeOK /\ ResourcesReturned /\ FailureLeavesNothing /\ DiagnosticOfLastFailure
    /\ OverriddenUntouched /\ OverridesAllUsed /\ UnboundIsUnwritten
=============================================================================
