# TurboSCXML: a TLA+ verification project

TurboSCXML runs three kinds of XML documents in C: SCXML state charts, CCXML call
control and VoiceXML dialogs. The interpreter core (CFlow) and the services under
it (Salts, CMeta, CHTTP, CNET, QuickJS) are external libraries; `src/` holds the
document compilers, the Sessions, and the bounded services that connect Sessions
with each other and with the outside. These services carry the hard part: fixed
tables, several locks, calls made with no lock held, transactions of several
steps that may each fail, and shutdown while work is in flight. This project
models them, checks the models with TLC and proves what matters most with TLAPS.

## 1. Inventory

| Component | State it keeps | Operations | Hard because |
|---|---|---|---|
| Host router (`scxml_host_router.c`) | endpoint slots with generations, invoke aliases, the Event ledger with six row states, cancel intents, counters, two lane flags, `closed` | reserve, activate, attach, abort, detach, set_parent, bind/unbind_invoke, prepare(_target), enqueue, prepare_cancel, commit/discard of tickets, run_due, drain, cancel, cancel_source, close, destroy | every operation may run between two critical sections of drain, run_due and abort; rows and slots are reused; counters are trusted |
| Host Event I/O (`scxml_host_event_io.c`) | `closed`, the endpoint reference | prepare_send, prepare_cancel, close | reads its flag before it asks the router |
| SCXML runtime (`scxml_runtime.c`) | effects of a microstep, the sendid registry, invocation rows, metadata rows, checkpoints of data and scope | blocks of executable content, send and cancel, start, forward and end of invocations, observation of an Event, data initializers | settles in two steps under two locks; any step in the middle of several may fail |
| SCXML Session (`scxml_session.c`) | the CFlow instance, adapters, the registries | init, try_send, step, the reports of sends and children, cancel, close, destroy | host threads report while the owner steps; init runs content before it can still fail |
| CHTTP Event I/O (`chttp_event_io*.c`) | request rows, bindings, cancel tickets, a worker, a client, a listener | send, cancel, submit, completion, ingress, start, stop, close | completion, retry, cancel and close race; stop is retried after a timeout |
| CNET egress (`scxml_cnet_egress.c`) | rows with five states, `pending`, the bound connection, flags, statistics | prepare_send, commit/discard of tickets, pump, callbacks of CNet, close, destroy | the pump calls the buffer pool and CNet with no lock held; three threads release rows |
| CNET ingress, frames, fence (`scxml_cnet_*.c`) | a ring with receive credit, a frame decoder, generations of a domain | callbacks of CNet, drain, process, activate, submit, retire, close | credit must never be lost; a full mailbox stops in the middle; callbacks call back in |
| Resources (`scxml_chttp_resource.c`, `voicexml_*_resource.c`) | one lent response, one submission | open, read, close; check, size, write, send once | several users of one lease; sizes computed and written by different code |
| CCXML Session (`ccxml_session.c`) | adapters and compiled handles, the tickets of a dispatch, staged identifiers, loop scopes | attach, dispatch, close, destroy | every action calls an adapter that may refuse, with earlier effects held |
| VoiceXML dialog manager (`voicexml_dialog_manager.c`) | dialog rows, tickets, queued events | prepare start/terminate, commit, discard, run_ready, close | a termination is reserved over a queued event; the event sink is bounded |
| VoiceXML document store (`voicexml_document_store.c`) | cached documents, borrows, a clock | resolve, acquire, release | an entry is evicted while a stale reference to it is around |
| VoiceXML subdialog owner (`voicexml_subdialog_owner.c`) | child sessions by row | prepare, commit, cancel, run_ready, close | a row names its parent by an address that is used again |
| VoiceXML CMeta Session (`voicexml_cmeta_session.c`) | the form being interpreted, mailboxes of media and prompts, retry counters, one transaction | start, prepare/commit/discard, completions from other threads, raise, run_ready, close | late and duplicate completions, recordings on loan, handlers that fail inside handlers |
| VoiceXML CMeta compiler (`voicexml_cmeta_program.c`) | tables sized by one pass and filled by two others | measure, register, lower | the passes must count the same rows, thousands of lines apart |
| Plugins, components, providers | load and retain counts | load, retain, release | the dynamic loader |
| Other compilers and evaluators (`*_program.c`, `scxml_analyze.c`, `scxml_emit.c`, `*_expr.c`, ...) | none that outlives a call | parse, check, emit, evaluate | boundary arithmetic, order of evaluation |

How they interact. A Session runs a microstep in CFlow. A `<send>` or `<cancel>`
in it calls the Event I/O adapter (router, CHTTP or CNET), which reserves a row and
returns a *ticket*; CFlow keeps the ticket in the effect journal of the microstep
and commits or discards all of them. An `<invoke>` does the same with the invoke
adapter. Deadlines, children, connections and HTTP requests report back from
other threads, with no lock of the Session held. CCXML prepares dialogs with the
dialog manager by tickets of the same kind; the manager runs VoiceXML sessions,
which fetch documents from the store, run subdialogs through the owner, and hand
prompts and collections to media providers, whose completions come back through
one-slot mailboxes.

What makes each part correct, in one sentence each: the router neither loses nor
duplicates an Event, never touches an endpoint that is gone, and can always be
shut down; the two sendid registries agree; a block or a transition takes effect
whole or not at all; an invocation is started once per entry and silent once it
is cancelled; a queue delivers in order and refuses when it is full; a lease is
released once; a completion settles the cycle it belongs to; the passes of a
compiler agree about every document.

`PROJECT.json` lists the hazards, each at its line, with the properties for it.

## 2. Modules

| Module | What it is | Run |
|---|---|---|
| `HostRouter` | the router: one action per critical section, the properties, the fairness | `router_*` |
| `EventLedger`, `HostRouterRefinement` | abstract specification of what happens to an Event, and the mapping under which the router implements it | `router_ledger` |
| `HostRouterProofs` | the inductive invariant of `HostRouter`: tables, counters, pinned slots, the parent forest | |
| `HostRouterLedgerProofs` | the life of each Event: tickets, lanes, fates and the steps between them; the router implements `EventLedger` | |
| `HostDelay` | composition: registry of a Session, Host Event I/O binding and router, each with its own lock | `delayed_send` |
| `HostDelayProofs` | registry and ledger agree | |
| `CnetEgress`, `CnetEgressProofs` | the egress bridge: executor, owner thread with its pump, close; its theorems | `bridges` |
| `CnetIngress`, `CnetFrameIngress`, `CnetDomainFence` | the receive bridges and the admission fence | `bridges` |
| `CnetReceiveProofs` | the theorems of these three | |
| `ChttpEventIo`, `ChttpProcessor`, `ChttpCodec` | HTTP rows, worker and bindings; start, stop, destroy; the form codec | `bridges` |
| `ChttpResource`, `SubmitResource` | lent responses; submissions and scripts | `bridges` |
| `ChttpProofs` | the theorems of `ChttpProcessor` and `ChttpResource` | |
| `DocumentUri`, `DocumentStore` | references; the cache of documents | `sessions` |
| `SubdialogOwner`, `DialogManager` | child sessions; dialogs of CCXML | `sessions` |
| `SubdialogProofs`, `DialogProofs` | the theorem of `SubdialogOwner`, and of `DialogManager` | |
| `CmetaDocument`, `CmetaExecutable` | the three passes over a document; over executable content, and its execution | `sessions` |
| `MediaCycle`, `PromptMedia`, `VoiceFia` | collection; playback; form interpretation, events and executable content | `voice` |
| `Invocations` | the `<invoke>` lifecycle of a Session | `sessions` |
| `ExecBlock`, `EventMetadata`, `DataResource` | blocks of a microstep; what is known of an Event; external data | `sessions` |
| `SessionInit` | admission, init with its unwinding, close, cancel, destroy | `sessions` |
| `CcxmlSession`, `EventPattern` | a CCXML Session; its event matcher, step by step | `sessions` |
| `MCHostRouter`, `MCHostProgress`, `MCHostDelay`, `MCBridges`, `MCSessions`, `MCDialogs`, `MCVoice` | instances for TLC; `MCDialogs` extends `MCSessions` | |

Definitions keep the names of the C functions. A definition named
`<Name>_<Fault>` and commented "Fault:" is a broken variant of the definition
after it; no specification uses it. It serves to show that a property notices
such a fault.

The last four MC modules hold components *side by side*. The components in one
of them share no state; `part` is chosen once, in `Init`, and names the component
(and program, form or document) whose `Next` is taken, while the variables of the
others never change. A property is guarded by its part; `CnetEgress`, the three receive
modules, `ChttpProcessor` and `ChttpResource`, which `MCBridges` extends, and
`SubdialogOwner` and `DialogManager`, which `MCDialogs` extends (their constants are in
the cfg), are in their first state while they are not the part, so their properties need
no guard. The manager is explored twice, each part cutting what the other has: part
`dialogs` has two dialogs whose sessions exit at their first stop, with one row worked
on per call, `dialogs_stops` one dialog whose session stops everywhere; neither cut
leaves an enabled step of `run_ready` without an outcome. This is one exploration per
component in one run, not a composition. The compositions of the project are `HostDelay`
(registry, binding, router), `SubdialogOwner` (owner and parent session),
`CmetaExecutable` (compiler and interpreter) and the environment each module describes.

### HostRouter

Tables are functions from indices to records with the fields of the C structs;
`FREE`, `RESERVED`, `DELAYED`, `FIRING`, `READY` and `INFLIGHT` are the six row
states. Strings that the router never reads (name and content of an Event) are
dropped. A target string is `Self`, `Parent` or an address; `resolve_locked`
keeps the order in which the code tries alias and location.

`drain`, `timer` and `aborting` are the program counters of the three operations
that drop the mutex. `drain.pc = "busy"` is the window in which the Session
admits the Event; `timer.pc = "busy"`, then `"reported"`, is the window around
`scxml_session_report_send_done`.

`journal` and `phase` stand for CFlow's effect journals (external): tickets of a
microstep are settled in the order they were prepared, all with commit or all
with discard, one call each, anything in between. The last journal holds tickets
of `scxml_host_router_prepare`, which has no source Session.

`host_router.h` says "Attach/detach and router destroy must not race with running
callers": `HostTurn` keeps the endpoint calls one at a time. Producers, tickets
and lanes still interleave with them. The clock is advanced by the thread that
calls `run_due`, so `Tick` needs an idle timer lane.

`fate` is a history variable. Counters that nothing reads back (`high_water`,
`rejected_full`, `stale_refs`, ...) are left out; `prepared` and `committed`
always equal `next_row_identity` and `next_sequence`, which are kept. A call
that only returns an error changes nothing and is no action.

### HostDelay

A delayed `<send>` takes the registry lock, then reads the binding's flag, then
takes the router's lock; a fired deadline takes router, registry, router. The
module has an action for each of these sections, and the registry row goes
through `RESERVED`, `ACTIVE` and `CANCEL_RESERVED` with the `previous_state` the
code uses for rollback. A rolled-back microstep puts the instance in error
(`failed`), as the tests of the repository expect.

### The CNet bridges

`CnetEgress`: a row goes FREE, RESERVED (a ticket), READY (committed, with a
sequence number), SUBMITTING (the pump works on it), SUBMITTED (CNet owes a
completion), FREE. Each critical section of `scxml_cnet_egress_pump` is an action:
`pump_begin`, `pump_select`, then `pump_no_buffer` or `pump_buffer`, the call of
CNet (`cnet_send_buffer`, external), `pump_record`, `pump_end`. `pump.pc = "idle"`
is `pumping == false`; `pump.sequence` only records which row the pump copied.
`cnet_egress.h` says of pump "Caller is the CNet owner thread", and CNet calls its
observer from the owner's poll: callbacks and pump never overlap (`OwnerPolls`),
while tickets and close interleave with both. `connection` and `in_flight` are
what CNet knows (external): it reports a state change at most once, completes
writes in the order it accepted them, and no write completes after the
connection has ended. `wire` is a history variable.

`CnetIngress` has the ring, the one receive credit and drain as a loop of
transfers the Session may refuse; a chunk is its number. `CnetFrameIngress`
decodes a stream byte by byte: bytes are digits to a small base, so that a length
may be zero, legal or above the limit, and chunks cut headers and frames anywhere.
`CnetDomainFence` has the callbacks of the host as windows in which the fence is
called again.

### CHTTP

`ChttpEventIo` is the RUNNING processor: rows with the use they are in, cancel
tickets, two bindings, the executor that resolves and encodes with no lock held,
the worker that selects, submits, retries and reports, the client (external:
accepts, has no room or fails; completes each request once) and the inbound
handler. `ChttpProcessor` is start, stop with its timeout and retry, and destroy.
`ChttpCodec` and `SubmitResource` are operators over small alphabets that keep
the characters the code treats apart; the size pass and the write pass are
separate definitions, as in the code, and are compared. `ChttpResource` is the
one response that a data user, a text user and the VoiceXML bridge share.

### VoiceXML

`DocumentUri` resolves a reference by segments, as the code moves its cursor, and
compares with RFC 3986's resolution (`RfcTarget`: merge, and removal of dot segments),
which is stated beside it. `DocumentStore` has
entries and borrows with generations, byte counts and the clock of the LRU
eviction, and every way an acquisition fails. `SubdialogOwner` and
`DialogManager` are called by one thread at a time; `run_ready` is a loop with one
step per row. What a session does until it next stops is one of the states they
tell apart, chosen freely.

`MediaCycle` and `PromptMedia` model the ingress of completions as the code's
sequence of atomic loads, exchanges and rechecks on generation and slot, with
producers anywhere in it while the owner arms, consumes, cancels and closes; a
recording has a lease. In `PromptMedia` the recheck after the claim, the write of the
payload and its publication are three steps, so that a producer may be overtaken
between any two. In `MediaCycle` recheck and write are one: there a mailbox is settled
only from READY (:10863) and armed only from DISARMED (:8944), and only close takes it from
a producer that has claimed it. `VoiceFia` runs on the owner's thread: a step is one action
row, one scope of a handler lookup, or one pass. An expression succeeds, fails
with an Event or fails with a status, and may have written before it failed.

`CmetaDocument` and `CmetaExecutable` model the compiler: measurement, registration
and lowering are three definitions over the same element tree, and the comparison
the code makes at the end is the property `PassesAgree`. The Session's execution of
the lowered tables is compared with the meaning of the tree. These two modules
use RECURSIVE operators and are therefore only model-checked. Strings are
abstracted to one unit of storage per name; expressions and grammars to valid or
not. The set of documents is every combination of item kinds, prompts, filled,
menus and handlers written in `MCDialogs`, except the three cases of section 5.

### SCXML and CCXML Sessions

`Invocations` takes the statechart instance and the invoke adapter as external,
with the scheduling of `docs/specs/scxml-macrostep-invocation-scheduling-design.md`:
effects are staged in a journal and settled together, pending invocations are
started at the end of a macrostep, an external Event is finalized and forwarded
before it is processed. Reporters check the row under the lock and send after it.

`ExecBlock`: a program is a sequence of blocks of steps with nested ranges. The
EARLY initializers and the root scripts share one block (`scxml_emit.c:2378-2457`),
LATE ones have their own; a failing finalize is FATAL. `EventMetadata`: producers
fill rows outside the lock, the worker copies structured data outside it; a
message stands for all of its metadata, `MaxToken` exceeds the number of messages
as 2^63 does, and there is one completion slot more than `completion_capacity`, as
in the code. `SessionInit` enumerates the requirements of a program and the
functions an adapter has. `DataResource` has the five stages of an external
initializer and their error paths.

`CcxmlSession`: CFlow (external) evaluates guards in document order and stops at
the first enabled one, then commits the aggregate ticket or discards it with the
instance errored. Dispatch, close and destroy are serialized by the caller
(`docs/specs/ccxml-core-mvp-design.md:210`). `EventPattern` is the matcher as a
loop over two cursors, compared with a definition of matching by all splits.

## 3. Runs

| Run | Instance | Distinct states | Checks |
|---|---|---|---|
| `router_topology` | 2 slots of 2 generations, 1 row, 1 alias, 2 Sessions | 290,000 | `TablesSound`, `ParentForest`, `QuiescenceIsStable` |
| `router_ledger` | 1 endpoint, 2 rows, 2 sendids, 1 intent, batches of 2 | 219,000 | `LedgerExact`, `LedgerSound`, `LedgerSteps`, `ImplementsLedger` |
| `router_progress` | 2 parts, fair: 2 endpoints with parents, an alias and an Event; 1 endpoint, 2 timers, 1 intent, batches of 1 | 53,000 | `CloseQuiesces`, `RouterProgress` |
| `delayed_send` | 1 registry row, 2 effects, 2 rows, 2 intents | 731,000 | `DelaySound`, `NoDelayedEventIsLost` |
| `bridges` | 11 parts | 465,000 | `EgressSound`, `QuiescenceStable`, `IngressSound`, `FrameSound`, `FenceSound`, `ChttpSound`, `ProcessorSound`, `ResourceSound`, `CodecSound`, `SubmitSound`, `BridgesProgress` |
| `sessions` | 25 parts | 512,000 | `InvocationSound`, `ExecSound`, `MetadataSound`, `InitSound`, `DataSound`, `CcxmlSound`, `SessionsProgress`, `UriSound`, `StoreSound`, `OwnerSound`, `DialogSound`, `ExecutableSound`, `DocumentSound`, `DialogsProgress` |
| `voice` | 13 parts | 1,384,000 | `MediaSound`, `PromptSound`, `FiaSound`, `VoiceProgress` |
| `recurring_sendid`, `chttp_close`, `initial_second`, `prompt_producers`, `uri_rfc` | | | violations, section 5 |

A property named `...Sound` is the conjunction of named parts in the component's
module, each with its own comment: for instance `InvocationSound` joins
`Accounted`, `NoOrphanChild`, `TokensUnique`, `DoneIsLast`, `StartedOncePerEntry`,
`ForwardsReachTheLiving`, `RolledBack` and `CleanEnd`. `...Progress` joins the
liveness of its parts, and in the group runs also what no step may do.

Bounds. `MaxU32` and `MaxU64` are the code's own limits at a small width: the guards
that stop at `UINT32_MAX` and `UINT64_MAX` are in the model and are reached in every
router run, so those need no state constraint. Two rows are enough for one row to be
claimed by each lane, and for an order between two; two slots for the smallest parent
cycle and for an alias between two Sessions. `router_progress` has what its hazards need
and cuts what only adds to it: in part `family` two endpoints adopt and name one
another, and one Event has no delay; in part `timers` one endpoint has two delayed
sends, both due at once while `run_due` takes one; in both no endpoint has external
access. What is cut (a step that brings something new, or the second endpoint) is never
a step that fairness asks for, so that no behaviour is lost for being cut short. The
egress bridge, explored with pumps of 1 or 2 writes and 2 writes in CNet, has two rows
and four sends, so that rows are reused while later commits wait at other indices;
payloads have one or two bytes, so that a completion may report the wrong size. The HTTP
rows are explored three times: with delays, with reuse (three sends on two rows) and
with two bindings. Media cycles have two producers and two generations, so that a
producer of the first may act in the second. Prompts have two generations and two
playbacks, and two producers both when the aggregate driver runs them and when the host
does (`Driver`, `Manual`). Those two have no clock; part `driver_single` has one
producer, two marks and elapsed times. With two producers `AcceptedIsCurrent` does not
hold of `Driver` (section 5, `prompt_producers`); everything else that `PromptSound`
says is checked with two. CCXML is explored with a second session in the place of the
first (`ccxml_again`), so that send ids of two sessions meet. Two invocations with
different owners, three tokens of metadata, three rows of subdialogs at nesting depth
two, three dispatches of CCXML are each the least at which the listed hazards occur.
Every bound is a named constant of its module.

Deadlock is checked in the router's runs (a destroyed router stutters by an
explicit action). The others switch it off: they end with a destroyed component,
a failed Session or an answer that was computed.

Fairness. In `router_progress` it is part of the specification. The group runs have a
specification without fairness and check formulas `part = ... /\ ...Fair => liveness`,
so that each component has its own fairness and no other's. Most liveness is stated as
"again and again nothing waits" (`[]<>`): what is asked for is finite in every instance,
so this says that each single one is answered.

* Router: CFlow settles the tickets of a microstep it has ended, and a microstep
  ends; a lane that is inside a call leaves it; the host keeps calling `run_due`
  (in `router_progress`: where there are deadlines)
  and `drain`, and takes relations and endpoints down after `close`. These are
  weak, because each stays possible until it is done, except two: taking down is
  strong, since a ticket may block a detach again and again until it settles, and
  the successful admission is strong, since a Session's FIFO is full only between
  two of its steps. Nothing is assumed about producers, commits versus rollbacks,
  or the clock.
* CNet: CFlow settles every ticket, a pump, drain or process call returns, the
  owner of the domain ends the connection of a closed bridge and polls until CNet
  has said so; a mailbox or router that is full is not full for ever (strong).
* CHTTP: the worker's loop goes on, the executor and the inbound handler return,
  the client completes what it accepted and has room again (strong).
* VoiceXML: the host calls `run_ready` again and again and its sink takes an
  offered event in the end (strong); threads inside a call go on.
* Sessions: the executor runs what is ready, calls in progress return, a closed
  adapter becomes quiescent and a host that began to destroy calls again. The last
  is checked with one closing thread: two that take turns inside close can keep
  destroy at WOULD_BLOCK.

## 4. Proofs

`HostRouterProofs` proves, for every capacity, limit and set of names,
`TypeCorrect`, `CountersCorrect`, `AccountingCorrect`, `ClosedStaysEmpty` and
`BorrowsStayPinned`, and from them `TablesCorrect` (`Spec => []TablesSound`) and
`LedgerCorrect` (`Spec => []LedgerExact`).

Assumptions: `CapacityAssumption` (what `scxml_host_router_init` demands of its
configuration), `LimitAssumption` and `NameAssumption`. TLC evaluates them in
every run.

Argument. None of these is inductive alone. A counter is only known to match its
table after a release if every released row was counted, which needs that a lane
still owns the row it claimed; that in turn needs that bulk cancellation never
takes a claimed row. `RouterInv` joins the types, the counters, `Accounting`,
`ClaimInv` (the row of a busy drain is INFLIGHT, the row of a busy timer FIRING)
and the fact that only rows with a delay are DELAYED or FIRING. It is cut along
the variables, so that each action only meets the parts it writes:
`EveryRowIsReleasable` shows that the guard of `release_locked` never stops it,
`ReleaseKeepsLedger`, `MoveKeepsLedger` and `ReserveKeepsLedger` cover the three
ways a row changes, and one lemma per action uses them. On the way it follows
that the code's repairs of a broken ledger (`fire_broken`, `admission_lost`) are
never reached.

`ClosedStaysEmpty` adds that, on a closed router, no step makes a row READY or
DELAYED, and that the closing step releases all of those. `BorrowsStayPinned`
adds that a new row, intent, parent or alias names a matching endpoint, that all
other steps name nothing new, and that `detach` cannot hit a borrowed slot: two
references that match and share a slot are equal (`MatchIsUnique`).

`CnetEgressProofs` proves every safety property of `CnetEgress` for every number
of rows, payload size, pump size and room in CNet, from `EgressAssumption` alone:
`EgressTypeCorrect`, `PendingExact`, `TicketsSafe`, `ChecksDead`, `WireOrdered`,
`CompletionsMatch`, `RowsSettledOnce`, `EndDrains`, `CloseCancels` and
`FreedUnreachable`, together `EgressCorrect` (`Spec => []EgressSound`), and the
action property `QuiescenceLasts`.

Argument. `EgressInv` adds to the properties what they need from each other.
`PumpInv`: the pump owns the only SUBMITTING row, and that row still has the
sequence the pump copied, whatever close and tickets did meanwhile; so
`pump_record` finds its row. `OrderInv`: the wire holds 1, 2, ..., READY rows are
all later and differ, and, while the bridge runs, every later commit still waits
in some row; so the earliest READY row is the next on the wire. `FlightInv`:
accepted rows and writes in flight correspond one to one; so a completion finds
a row, and the earliest one is the right one. `FreeingInv` and `ConnectionInv`
carry quiescence from the test in destroy to the release. `ReleaseKeepsTable`
shows that `release_row` never meets its own check, which is the arithmetic core
(a row in use implies `pending > 0`). `TableFrame`, `OrderFrame` and
`FlightFrame` say which part of the state each part of the invariant reads, and
one lemma per action uses them.

`ForestCorrect` (`Spec => []ParentForest`). That the walk over parents ends within
`endpoint_capacity` links is not inductive. `Acyclic` is: every nonempty set of
slots has one whose parent is not in the set. Detach and abort only cut links;
`set_parent` makes one only after its walk from the new parent did not meet the
child. That walks end follows by induction on their length and the pigeonhole
theorem.

`HostRouterLedgerProofs` proves `LedgerSoundness` (`Spec => []LedgerSound`),
`LedgerStepsCorrect` (`Spec => LedgerSteps`) and `QuiescenceLastsForever`. Each action
of the router is first shown to have one of few shapes (`EventStep`: reserve a row,
settle a ticket, move a row along its states, release, cancel in bulk), and then each
part of `EventInvariant` is proved once per shape: a ticket owns a RESERVED row or an
intent that no other ticket has, sequences and identities are handed out once, the fate
of an Event follows the state of its row, and a lane's row, Session and reference stay
what they were when it claimed them. From it follows that each shape maps to a step of
`EventLedger` or to a stutter, `RouterImplementsLedger` (`Spec => ImplementsLedger`).

`HostDelayProofs` proves `DelaySoundness` (`DelaySpec => []DelaySound`) and
`DelayedEventsSurvive` (`DelaySpec => NoDelayedEventIsLost`), both under
`~ids_recur`, without which they are false (section 5, `recurring_sendid`).
Everything known of the router carries over, since a step of the composition is a
step of the router or leaves it alone. `SessionFacts` hold always: the effects of
a Session match the tickets of its journal, and an element executes only while
the microstep is open. `Agreement` holds while no microstep was rolled back. It
says which of the registry's states goes with which state of row and ticket, in
each of the windows in which the two locks are not held together: a send in hand
(registered, no row yet), a cancel in hand, a RESERVED row with its RESERVED
registration, and a reported deadline, whose registration is gone while its row is
still FIRING. The registration of a cancel that lost to a deadline is the case
that needs the most: a row is marked `fire_won_cancel` exactly then, which is how
`run_due` tells the lost race from a protocol error. The whole invariant was
checked with TLC on the 436,803 states of an instance before it was proved.

`CnetReceiveProofs` has the three receive modules, under `IngressAssumption`,
`FrameAssumption` and `FenceAssumption` (what the three `init` functions demand,
evaluated by TLC in `bridges`).

* `IngressCorrect` (`Spec => []IngressSound`), for every ring and chunk size. The
  ring is followed through its wrap-around: `At(i, k)` is the k-th stored chunk,
  and storing, taking and draining keep the chunks after all the accepted ones
  and in CNet's order.
* `FrameCorrect` (`FrameSpec => []FrameSound`), for every base, frame and chunk
  size. `FrameInv` joins the shape of header, frame and chunk, what only an open
  bridge without failure may do, what the bridge knows of the connection, when a
  frame is cut, and `StreamDecoded`: the encoding of what the router got, then the
  header and frame under way, then the rest of the chunk is the stream. Moving a
  byte is an instance of associativity (`ByteMoves`), publishing a frame needs that
  decoding its header and encoding its length are inverse (`HeaderReads`,
  `HeaderEncodes`: the arithmetic of two digits), and that `FlattenSeq`, a fold over
  a sequence of any length, appends (`FlattenAppends`). The last is an induction; it
  is proved over sets of natural numbers (`StepInduction`, from the library's least
  element of a well-founded relation), since the theorems with an operator parameter
  cannot be used.
* `FenceCorrect` (`FenceSpec => []FenceSound`) and `NeverReattached`, for every set
  of generations and number of operations.

`ChttpProofs` has `ProcessorCorrect` and `ResourceCorrect`, under
`ProcessorAssumption` and `ResourceAssumption`, both evaluated by TLC in `bridges`.

* `ProcessorCorrect` (`ProcessorSpec => []ProcessorSound`), for every number of
  bindings and of attempts to stop. Host and worker share one structure, and what
  STOPPED promises is said of all three of worker, server and client. So the
  invariant reads the flags as the position of whoever writes them: `HostInv` ties
  `state` and `stop_active` to the call the host is in, `WorkerInv` the flags of the
  worker to its place in the loop. `AttemptInv` is about timeout and retry: while the
  worker lives, a completed attempt is a failed one, and the worker's generation is
  the current one; `stop_request` raises the generation and takes the completion
  back in the same step, so that a late failure finds another generation.
* `ResourceCorrect` (`ResourceSpec => []ResourceSound`), for every limit and any
  number of responses. `ActiveInv` names the one user that holds the active
  response. Acquire and release are proved once (`AcquireKeeps`, `ReleaseKeeps`) for
  whoever calls them; the bridge adds that it is busy exactly while it holds one.

`SubdialogProofs` has `OwnerCorrect` (`OwnerSpec => []OwnerSound`), under
`OwnerAssumption`, evaluated by TLC in `sessions`, for every number of rows, hops of
navigation and depth of nesting. `OwnerSound` says that rows and waiting sessions
agree; a single call of `run_ready`, `close` or `<cancel>` takes that agreement apart
and puts it together again, so it is no invariant of the operators a call is made of.

* `OwnerInv` is one predicate of the whole system, `Phase`. `Sane` holds at any time:
  a session that waits runs and holds no ticket, a row that is not active has no
  session, a live row is the only one its parent waits for, a reserved row is the one
  of the root's ticket, the documents borrowed are those of the rows. `Answered` holds
  until the owner is closed: who waits has a live row. `Open` adds that the root is
  there and nothing is canceled; `Torn` that nothing is left but rows to clear. An
  owner whose root session closed is between the two until `run_ready` sees it.
* Operators on one child keep `Sane` and `Answered` of the rest (`ChildMoves`), in
  whatever order a start, a document, an event and a hop come (`WorkingGoesOn`). The
  hops of `row_follow_navigation` are a recursive function of the number of hops; what
  it returns is proved by induction over sets of natural numbers (`NavigationWorks`,
  from `StepInduction`).
* A child that asks for a child of its own takes the first empty row (`AskingIsSound`),
  one that ends answers the parent that waits for it and lets its row go in the same
  step (`PublishIsWell`, from `ParentGoesOn`): the generation in the row is the one the
  parent is in, so no answer reaches a session that took the place of another.
* Calls on the root and the teardown take all rows at once (`RootMoves`, `RowsFall`).
  `CloseIsSane` and `ClearIsTorn` show that a close in any state leaves a system that
  is `Torn` and stays so.

`DialogProofs` has `ManagerCorrect` (`DialogSpec => []DialogSound`), under
`ManagerAssumption`, evaluated by TLC in `sessions`, for every number of rows, dialogs,
hops and scripts, and for any order in which tickets are settled, rows worked on,
events refused by the sink and the manager closed. What the CCXML side was told is a
history; the order of its events (`EventsInOrder`) follows from no field of a row, and
`DialogInv` therefore relates each row to the history of its dialog.

* `DialogFits` is that relation: a dialog that goes on was told one of four
  histories (`Going`), its `started` says which, and the queued event is the next one
  that may follow (`EventFits`). While a termination or a start is reserved,
  `RestoreFits` says that the values kept for a discard are those the row had, so that
  a discard gives back an event that waits. `run_ready` may leave a row half done; its
  last argument is whether it works on this row.
* `NotYet` is why a row can be reused: of a generation that is to come nothing was
  told, and a dialog that was only reserved was never asked for.
* Documents and programs are counted through `Balanced`: a hop that borrows before it
  lets go, a submission with its audio and its response, a failure anywhere in them
  change the counts by what the row gains or loses (`NavigationMoves`, `SubmitMoves`,
  `ProgressMoves`); `HeldMoves` turns this into `HeldExactly`.
* Three lemmas carry the steps: `RunMoves` for the work of `run_ready` on a row,
  `SettleMoves` for what a caller does to a row between the calls (`RowSettles`,
  `AskedSettles`, `TicketsSettle`), `CloseInv` for all rows at once. That the bound on
  dialogs keeps generations in range is counting (`RoomForDialog`). TLC checked
  `DialogInv` on the 1.56 million states of an instance before it was proved.

Only model-checked: the other components of the group runs, and all liveness (fairness
is out of the prover's reach). The compilers and `VoiceFia` are written with RECURSIVE
operators, which the prover cannot handle; what the codecs, the resolution of URIs and
the pattern matcher compute would each need an induction of its own over their input.

## 5. Where code and documentation disagree

Five disagreements are runs of their own.

* `recurring_sendid`. `prepare_cancel` takes the first row of source and sendid
  that is not FREE; that includes rows whose deadline has already fired. The
  header speaks of "one live delayed send". If a document sends with a sendid
  again while the first Event is fired and still undelivered, a `<cancel>` then
  hits the first row: the second Event stays scheduled although its Session has
  dropped the id. `delayed_send` assumes ids do not recur in that window
  (`ids_recur = FALSE`).
* `chttp_close`. Close while a row is SUBMITTING only requests its cancel; if the
  client then has no room the row is READY again, in a binding whose rows nobody
  selects: the binding never drains. The fair parts of `bridges` check what does
  hold, that a committed send ends or its binding is closing.
* `initial_second`. `cmeta_register_initial_item` clears the form that
  `cmeta_build_schemas` has just stored, so that lowering refuses every `<initial>`
  of a form that is not the first.
* `prompt_producers`. `cmeta.h:1464` calls the completion of prompts "MPSC admission",
  and only asks that producers stop "before close/destroy". The slot's state does not
  say who claimed it. A producer claims it and finds its generation current; the
  playback is settled, which stores DISARMED (:1105), and the next is armed, which
  stores EMPTY (:14599); a second producer claims the slot for the new generation; the
  first one's exchange from WRITING to READY (:14754) succeeds, and its payload settles
  the wrong playback. With one producer the exchange fails, as it should: that is
  `AcceptedIsCurrent` in `driver_single`.
* `uri_rfc`. `document_store.h:183` promises the "RFC3986 hierarchical resolution
  model". The code keeps a final slash only if the path ends in one
  (`voicexml_document_store.c:196`), so that a path that ends in `.` or `..` loses the
  slash that the RFC gives it, and it drops empty segments (:212), which `..` then does
  not count (:216). `UriSound` says what does hold of the same bases and references:
  without either the RFC's URI is reached; with a final dot segment, or with empty
  segments and no `..`, its names are; its query always is; and the URI that `resolve`
  gives is its own normal form.

Others were met while modelling. The models contain the behaviour; the instances
or the properties of the passing runs leave the case out, as noted.

* `voicexml_document_store.c:235`: a path without a leading slash gets one (`x:a/b`
  becomes `x:/a/b`), and a `..` with nothing to take back then stays (:219). The
  properties of references speak of hierarchical URIs, those with an authority or a
  rooted path.
* `voicexml_cmeta_session.c:10707`: a menu completion that stalls between its
  checks and its claim can disarm the slot of the next generation. `StaysArmed` is
  checked for fields and not for menus. `:14743` is the same for prompts, where no
  property speaks of it.
* `voicexml_cmeta_session.c:9700`: a recorded utterance whose result does not fit
  stores EMPTY over CLOSED. No instance has an utterance that does not fit.
* `voicexml_cmeta_session.c:11622`: a handler raised between prepare and commit of
  a prompt takes the staging area over. `RAISE` is only in the instance whose
  driver prepares and commits in one call.
* `voicexml_cmeta_session.c:12736`: noinput cancels a playback without barring its
  generation, so that its late completion is accepted for the replay.
  `AcceptedIsCurrent` is checked where no noinput occurs.
* `voicexml_cmeta_session.c:10440`: filled processes stop after exit and goto and
  not after submit. No filled content of `MCVoice` submits.
* `voicexml_cmeta_session.c:3019` and `:11690`: failures of the expressions of
  initials and blocks are looked up from the document, and an event thrown while a
  failure is answered starts at the thrower's scope. No property claims otherwise.
* `voicexml_cmeta_program.c:9495` and `:7434`: a prompt after filled is measured
  and not registered; an initial may have the name of a subdialog. No document of
  `MCDialogs` has either.

## 6. Not modelled

* SCXML document pipeline (`scxml_program.c`, `scxml_ast.c`, `scxml_xml_decode.c`,
  `scxml_analyze.c`, `scxml_emit.c`), CCXML and plain VoiceXML compilers: one
  sequential pass each, no state that outlives a call, and a target language whose
  meaning is CFlow's.
* Expression evaluation over typed values, and its script engine (QuickJS).
* `voicexml_session.c`, the small profile: its steps are a subset of `VoiceFia`'s.
* Component, plugin and provider loading: table checks around the dynamic loader.
* Projection of requests to media providers, value queries, statistics that
  nothing reads back, and memory allocation, whose failures are kept only where
  a partial result has to be undone.

## 7. What is left

Modelling: the analyzer's target and history resolution as pure operators;
`VoiceFia` composed with `MediaCycle` and `PromptMedia`, which are now each
other's environment. Proofs: the
components of the group runs that are written without recursion: `ChttpEventIo`,
`DocumentStore`, `MediaCycle` and `Invocations`.
