---------------------------- MODULE CnetDomainFence ----------------------------
(***************************************************************************)
(* The admission fence of a CNet domain (scxml_cnet_domain_fence.c): at    *)
(* most two generations of a plugin are attached, exactly one admits new   *)
(* work, and a generation is let go only when its work has ended.  The     *)
(* fence calls the host back, to submit and to ask for quiescence; the     *)
(* host may call the fence again from there, and is then refused.          *)
(***************************************************************************)
EXTENDS Integers, FiniteSets

CONSTANTS
    Generations,    \* generation numbers the host hands out, a set of positive numbers
    MaxWork         \* bound: operations of a generation CNet has in flight

FenceAssumption ==
    /\ Generations \subseteq Nat \ {0}
    /\ MaxWork \in Nat \ {0}

None == 0
IdleCall == [kind |-> "none", generation |-> None]

VARIABLES
    fence,     \* the struct scxml_cnet_domain_fence_impl
    call,      \* the callback under way and the generation it is about
    work,      \* external: operations in flight, for each generation
    freed      \* the fence was destroyed

fenceVars == <<fence, call, work, freed>>

Slot == Generations \cup {None}

FenceTypeOK ==
    /\ fence \in [current : Slot, staged : Slot, draining : Slot, latest : Slot,
                  epoch : Nat, switches : Nat, retired : Nat,
                  closed : BOOLEAN, submitting : BOOLEAN]
    /\ call \in [kind : {"none", "submit", "probe"}, generation : Slot]
    /\ work \in [Generations -> 0 .. MaxWork]
    /\ freed \in BOOLEAN

FenceInit ==
    /\ fence = [current |-> None, staged |-> None, draining |-> None,
                latest |-> None, epoch |-> 0, switches |-> 0, retired |-> 0,
                closed |-> FALSE, submitting |-> FALSE]
    /\ call = IdleCall
    /\ work = [g \in Generations |-> 0]
    /\ freed = FALSE

Attached(f) == {f.current, f.staged, f.draining} \ {None}

\* Every call but get_stats is refused while a callback runs.
Admissible == ~freed /\ ~fence.submitting

attach(generation) ==
    /\ Admissible /\ ~fence.closed
    /\ generation > fence.latest
    /\ fence.staged = None /\ fence.draining = None
    /\ fence' = IF fence.current = None
                  THEN [fence EXCEPT !.current = generation, !.epoch = @ + 1,
                                     !.latest = generation]
                  ELSE [fence EXCEPT !.staged = generation, !.latest = generation]
    /\ UNCHANGED <<call, work, freed>>

Switched(f) ==
    [f EXCEPT !.draining = f.current, !.current = f.staged, !.staged = None,
              !.epoch = @ + 1, !.switches = @ + 1]

\* Fault: the switch is allowed from inside the submit callback.
activate_Nested(generation) ==
    /\ ~freed /\ fence.draining = None /\ ~fence.closed
    /\ fence.staged = generation
    /\ fence' = Switched(fence)
    /\ UNCHANGED <<call, work, freed>>

\* The check for current = None answers EPROTO; see StagedHasCurrent.
activate(generation) ==
    /\ Admissible /\ fence.draining = None /\ ~fence.closed
    /\ fence.staged = generation
    /\ fence.current # None
    /\ fence' = Switched(fence)
    /\ UNCHANGED <<call, work, freed>>

\* The submit callback starts; any other generation is rejected.
try_submit_begin(generation) ==
    /\ Admissible /\ ~fence.closed
    /\ generation = fence.current
    /\ fence' = [fence EXCEPT !.submitting = TRUE]
    /\ call' = [kind |-> "submit", generation |-> generation]
    /\ UNCHANGED <<work, freed>>

\* The callback returns: CNet has accepted the operation, or it failed.
try_submit_end(accepted) ==
    /\ ~freed /\ call.kind = "submit"
    /\ accepted => work[call.generation] < MaxWork
    /\ work' = IF accepted THEN [work EXCEPT ![call.generation] = @ + 1] ELSE work
    /\ fence' = [fence EXCEPT !.submitting = FALSE]
    /\ call' = IdleCall
    /\ UNCHANGED freed

\* Of the attached generations the current one is held until close.
Retirable(generation) ==
    \/ generation \in {fence.draining, fence.staged}
    \/ generation = fence.current /\ fence.closed

Retired(generation) ==
    LET clear(g) == IF g = generation THEN None ELSE g
    IN [fence EXCEPT !.draining = clear(@), !.staged = clear(@),
                     !.current = clear(@), !.retired = @ + 1,
                     !.submitting = FALSE]

\* A staged generation has admitted nothing and may be retired without evidence.
retire_staged(generation) ==
    /\ Admissible /\ generation = fence.staged
    /\ fence' = Retired(generation)
    /\ UNCHANGED <<call, work, freed>>

\* The quiescence callback starts.
retire_begin(generation) ==
    /\ Admissible /\ Retirable(generation)
    /\ fence' = [fence EXCEPT !.submitting = TRUE]
    /\ call' = [kind |-> "probe", generation |-> generation]
    /\ UNCHANGED <<work, freed>>

\* external: the domain answers for the work of the generation.
WorkSettled(generation) == work[generation] = 0

retire_end ==
    /\ ~freed /\ call.kind = "probe"
    /\ fence' = IF WorkSettled(call.generation) THEN Retired(call.generation)
                ELSE [fence EXCEPT !.submitting = FALSE]
    /\ call' = IdleCall
    /\ UNCHANGED <<work, freed>>

fence_close ==
    /\ Admissible /\ ~fence.closed
    /\ fence' = [fence EXCEPT !.closed = TRUE]
    /\ UNCHANGED <<call, work, freed>>

fence_destroy ==
    /\ Admissible /\ fence.closed /\ Attached(fence) = {}
    /\ freed' = TRUE
    /\ UNCHANGED <<fence, call, work>>

\* external: CNet ends an operation while it is polled.
operation_ends(generation) ==
    /\ work[generation] > 0 /\ ~fence.submitting
    /\ work' = [work EXCEPT ![generation] = @ - 1]
    /\ UNCHANGED <<fence, call, freed>>

Retire ==
    \/ retire_end
    \/ \E g \in Generations : retire_staged(g) \/ retire_begin(g)

FenceNext ==
    \/ \E g \in Generations : attach(g) \/ activate(g) \/ try_submit_begin(g)
    \/ \E accepted \in BOOLEAN : try_submit_end(accepted)
    \/ Retire
    \/ fence_close
    \/ fence_destroy
    \/ \E g \in Generations : operation_ends(g)

FenceSpec == FenceInit /\ [][FenceNext]_fenceVars

\* Callbacks return, CNet ends the operations it accepted, and the host asks for
\* the retirement of every generation it has attached.
FenceFairness ==
    /\ WF_fenceVars(retire_end)
    /\ WF_fenceVars(\E accepted \in BOOLEAN : try_submit_end(accepted))
    /\ \A g \in Generations :
        SF_fenceVars(operation_ends(g)) /\ SF_fenceVars(retire_begin(g))

FenceFairSpec == FenceSpec /\ FenceFairness

-----------------------------------------------------------------------------
(* What has to hold.                                                       *)

\* Work in flight always belongs to a generation that is still attached and has
\* been current: the plugin code it needs is not let go under it.
WorkIsAttached ==
    \A g \in Generations :
        work[g] > 0 => ~freed /\ g \in {fence.current, fence.draining}

\* The generation whose submit callback runs is the one that admits work, for
\* the whole callback, whatever the host calls from inside it.
AdmittedByCurrent ==
    call.kind = "submit" => call.generation = fence.current /\ ~fence.closed

\* Generations are replaced in the order of their numbers, two at a time.
AttachedInOrder ==
    /\ Cardinality(Attached(fence)) <= 2
    /\ fence.draining # None /\ fence.current # None => fence.draining < fence.current
    /\ fence.staged # None /\ fence.current # None => fence.current < fence.staged
    /\ \A g \in Attached(fence) : g <= fence.latest

\* An open fence never has a staged generation without a current one, so
\* activate never answers EPROTO.
StagedHasCurrent == fence.staged # None /\ ~fence.closed => fence.current # None

\* The admission epoch tells the generations apart that have been current.
EpochCountsSwitches ==
    fence.epoch = fence.switches + IF fence.latest = None THEN 0 ELSE 1

\* A generation that was let go never comes back.
NoReattachment == \A g \in Attached(fence)' \ Attached(fence) : g > fence.latest

\* A closed fence lets every generation go, so that it can be destroyed.
ClosedFenceDrains == []<>(fence.closed => Attached(fence) = {})

\* Generations of the plugin are admitted one at a time and in order, and none
\* is let go while CNet works for it.
FenceSound ==
    /\ FenceTypeOK
    /\ WorkIsAttached /\ AdmittedByCurrent
    /\ AttachedInOrder /\ StagedHasCurrent /\ EpochCountsSwitches
=============================================================================
