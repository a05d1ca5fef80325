------------------------------ MODULE HostDelay ------------------------------
(***************************************************************************)
(* Delayed <send> and <cancel> of one Session over the Host router: the    *)
(* sendid registry of the Session (scxml_runtime.c, scxml_session.c), the  *)
(* Host Event I/O binding (scxml_host_event_io.c) and the router's ledger  *)
(* (HostRouter) each have a lock of their own.  A <send> takes them one    *)
(* after the other, a timer that fires takes them in the opposite order,   *)
(* and the registry is changed before the ticket of the router is settled. *)
(*                                                                         *)
(* The Session is already attached and published, and sends to itself: who *)
(* the target is makes no difference to the two registries.                *)
(***************************************************************************)
EXTENDS HostRouter

CONSTANTS
    delayed_send_capacity,      \* rows of the Session's sendid registry
    prepared_effect_capacity,   \* effects of one microstep
    ids_recur    \* whether the document sends a sendid again while an
                 \* earlier Event of that id has fired but is not delivered

ASSUME DelayAssumption ==
    /\ delayed_send_capacity \in Nat \ {0}
    /\ prepared_effect_capacity \in Nat \ {0}
    /\ ids_recur \in BOOLEAN
    /\ Sessions # {}

Regs == 0 .. delayed_send_capacity - 1
RegStates == {"FREE", "RESERVED", "ACTIVE", "CANCEL_RESERVED"}
FreeReg == [state |-> "FREE", previous_state |-> "FREE", id |-> NoId]

VARIABLES
    delayed_sends,   \* [Regs -> the registry row]
    executing,       \* the <send> or <cancel> between registry and adapter
    effects,         \* the Session's half of the tickets in its journal
    registry_done,   \* the registry half of the first effect is settled
    binding,         \* the Host binding: open, closing or closed
    failed           \* a microstep was rolled back: the instance is errored

sessionVars == <<delayed_sends, executing, effects, registry_done, binding,
                 failed>>
allVars == <<vars, sessionVars>>

Source == [slot |-> 0, generation |-> 1]
Idle == [pc |-> "idle", kind |-> "send", id |-> NoId, delay |-> 0, reg |-> 0]
Effect == [kind : {"send", "delayed", "cancel"}, reg : Regs]

DelayTypeOK ==
    /\ TypeOK
    /\ delayed_sends \in [Regs -> [state : RegStates,
                                   previous_state : RegStates,
                                   id : SendIds \cup {NoId}]]
    /\ executing \in [pc : {"idle", "adapter", "admit", "rollback"},
                      kind : {"send", "delayed", "cancel"},
                      id : SendIds \cup {NoId}, delay : Delays \cup {0},
                      reg : Regs]
    /\ effects \in Seq(Effect) /\ Len(effects) <= prepared_effect_capacity
    /\ registry_done \in BOOLEAN
    /\ binding \in {"open", "closing", "closed"}
    /\ failed \in BOOLEAN

\* The router after attach, and the Session bound to its endpoint.
DelayInit ==
    /\ endpoints = [s \in Slots |->
         IF s = 0 THEN [generation |-> 1, live |-> TRUE, active |-> TRUE,
                        session |-> CHOOSE x \in Sessions : TRUE,
                        parent |-> NoRef, accessible |-> FALSE]
         ELSE BlankEndpoint]
    /\ endpoint_count = 1
    /\ invoke_routes = [i \in Routes |-> FreeRoute]
    /\ invoke_count = 0
    /\ rows = [r \in Rows |-> FreeRow]
    /\ pending = 0 /\ reserved = 0 /\ timer_pending = 0
    /\ next_row_identity = 0 /\ next_sequence = 0
    /\ cancel_rows = [c \in CancelRows |-> FreeCancel]
    /\ cancel_pending = 0
    /\ closed = FALSE /\ destroyed = FALSE
    /\ drain = IdleDrain /\ timer = IdleTimer /\ aborting = NoRef
    /\ journal = [j \in Journals |-> <<>>]
    /\ phase = [j \in Journals |-> "open"]
    /\ now = 0
    /\ discarded = 0 /\ delivered = 0 /\ cancelled = 0
    /\ timer_done_failed = 0 /\ invariant_failures = 0
    /\ fate = [i \in 1 .. MaxU64 |-> "none"]
    /\ delayed_sends = [g \in Regs |-> FreeReg]
    /\ executing = Idle
    /\ effects = <<>>
    /\ registry_done = FALSE
    /\ binding = "open"
    /\ failed = FALSE

-----------------------------------------------------------------------------
(* The registry, under registry_lock. *)

same_send_id(g, id) ==
    delayed_sends[g].state # "FREE" /\ delayed_sends[g].id = id

find_delayed_send(id) == {g \in Regs : same_send_id(g, id)}
FreeRegs == {g \in Regs : delayed_sends[g].state = "FREE"}

\* A microstep may execute another element.
Running ==
    /\ ~failed
    /\ executing.pc = "idle"
    /\ phase[0] = "open"
    /\ Len(effects) < prepared_effect_capacity

\* An Event of this id whose deadline was claimed and that is not delivered.
FiredEarlier(id) ==
    \E r \in Rows : /\ rows[r].delay # 0 /\ rows[r].send_id = id
                    /\ rows[r].state \in {"FIRING", "READY", "INFLIGHT"}

\* execute_send: a delayed send first takes a row of the registry.
execute_send(delay, id) ==
    /\ Running
    /\ ids_recur \/ ~FiredEarlier(id)
    /\ \/ /\ delay = 0
          /\ executing' = [Idle EXCEPT !.pc = "adapter"]
          /\ UNCHANGED delayed_sends
       \/ /\ delay # 0
          /\ find_delayed_send(id) = {}
          /\ \E g \in Regs :
               /\ IsFirst(g, FreeRegs)
               /\ delayed_sends' = [delayed_sends EXCEPT
                    ![g] = [FreeReg EXCEPT !.state = "RESERVED", !.id = id]]
               /\ executing' = [pc |-> "adapter", kind |-> "delayed",
                                id |-> id, delay |-> delay, reg |-> g]
    /\ UNCHANGED <<vars, effects, registry_done, binding, failed>>

\* execute_cancel of a registered id; an unknown id is no effect at all.
execute_cancel(id) ==
    /\ Running
    /\ \E g \in Regs :
         /\ IsFirst(g, find_delayed_send(id))
         /\ delayed_sends' = [delayed_sends EXCEPT
              ![g].previous_state = delayed_sends[g].state,
              ![g].state = "CANCEL_RESERVED"]
         /\ executing' = [pc |-> "adapter", kind |-> "cancel", id |-> id,
                          delay |-> 0, reg |-> g]
    /\ UNCHANGED <<vars, effects, registry_done, binding, failed>>

-----------------------------------------------------------------------------
(* The Host adapter: first the binding's closed flag, then the router. *)

host_prepare ==
    /\ executing.pc = "adapter"
    /\ executing' = [executing EXCEPT
         !.pc = IF binding = "open" THEN "admit" ELSE "rollback"]
    /\ UNCHANGED <<vars, delayed_sends, effects, registry_done, binding, failed>>

Staged ==
    /\ executing' = Idle
    /\ effects' = Append(effects, [kind |-> executing.kind,
                                   reg |-> executing.reg])
    /\ UNCHANGED <<delayed_sends, registry_done, binding, failed>>

host_prepare_send ==
    /\ executing.pc = "admit" /\ executing.kind # "cancel"
    /\ prepare_target(Source, Self, executing.delay, executing.id)
    /\ Staged

host_prepare_cancel ==
    /\ executing.pc = "admit" /\ executing.kind = "cancel"
    /\ prepare_cancel(Source, executing.id)
    /\ Staged

\* The router's refusals of a send and of a cancel.
RefusesSend ==
    \/ closed
    \/ pending = event_capacity
    \/ next_row_identity = MaxU64
    \/ executing.delay # 0 /\ timer_pending >= timer_capacity
    \/ executing.delay # 0 /\ PendingDelayed(Source, executing.id) # {}

RefusesCancel ==
    \/ closed
    \/ cancel_pending >= cancel_capacity
    \/ Cancellable(Source, executing.id) = {}

host_refuses ==
    /\ executing.pc = "admit"
    /\ IF executing.kind = "cancel" THEN RefusesCancel ELSE RefusesSend
    /\ executing' = [executing EXCEPT !.pc = "rollback"]
    /\ UNCHANGED <<vars, delayed_sends, effects, registry_done, binding, failed>>

\* rollback_prepared_effect_locked for one effect.
RolledBack(row, kind) ==
    IF kind = "delayed" THEN
        IF row.state = "RESERVED" THEN FreeReg
        ELSE IF row.state = "CANCEL_RESERVED" /\ row.previous_state = "RESERVED"
        THEN [row EXCEPT !.previous_state = "FREE"]
        ELSE row
    ELSE IF kind = "cancel" /\ row.state = "CANCEL_RESERVED" THEN
        IF row.previous_state = "FREE" THEN FreeReg
        ELSE [row EXCEPT !.state = row.previous_state, !.previous_state = "FREE"]
    ELSE row

rollback_prepared_effect ==
    /\ executing.pc = "rollback"
    /\ delayed_sends' = [delayed_sends EXCEPT
         ![executing.reg] = RolledBack(@, executing.kind)]
    /\ executing' = Idle
    /\ UNCHANGED <<vars, effects, registry_done, binding, failed>>

-----------------------------------------------------------------------------
(* The end of the microstep: each effect settles its registry half under   *)
(* registry_lock, drops that lock, and then settles the router's ticket.   *)

end_microstep(how) ==
    /\ executing.pc = "idle"
    /\ EndMicrostep(0, how)
    /\ failed' = (how = "discard")
    /\ UNCHANGED <<delayed_sends, executing, effects, registry_done, binding>>

\* Fault: the registry row of a cancelled send is not cleared.
Committed_KeepsCancelled(row, kind) ==
    IF kind = "delayed" /\ row.state = "RESERVED"
    THEN [row EXCEPT !.state = "ACTIVE"]
    ELSE IF /\ kind = "delayed" /\ row.state = "CANCEL_RESERVED"
            /\ row.previous_state = "RESERVED"
    THEN [row EXCEPT !.previous_state = "ACTIVE"]
    ELSE row

\* commit_prepared_effect, its part under registry_lock.
Committed(row, kind) ==
    IF kind = "delayed" /\ row.state = "RESERVED"
    THEN [row EXCEPT !.state = "ACTIVE"]
    ELSE IF /\ kind = "delayed" /\ row.state = "CANCEL_RESERVED"
            /\ row.previous_state = "RESERVED"
    THEN [row EXCEPT !.previous_state = "ACTIVE"]
    ELSE IF kind = "cancel" /\ row.state = "CANCEL_RESERVED" THEN FreeReg
    ELSE row

settle_registry ==
    /\ phase[0] # "open" /\ ~registry_done
    /\ delayed_sends' = [delayed_sends EXCEPT
         ![Head(effects).reg] =
            IF phase[0] = "commit" THEN Committed(@, Head(effects).kind)
            ELSE RolledBack(@, Head(effects).kind)]
    /\ registry_done' = TRUE
    /\ UNCHANGED <<vars, executing, effects, binding, failed>>

settle_ticket ==
    /\ registry_done
    /\ \/ \E r \in Rows : ticket_commit(0, r)
       \/ \E r \in Rows : ticket_discard(0, r)
       \/ \E c \in CancelRows : cancel_commit(0, c)
       \/ \E c \in CancelRows : cancel_discard(0, c)
    /\ registry_done' = FALSE
    /\ effects' = Tail(effects)
    /\ UNCHANGED <<delayed_sends, executing, binding, failed>>

-----------------------------------------------------------------------------
(* Completion, close and the host's calls. *)

\* Fault: an id whose cancel is being prepared is not found.
Owed_ActiveOnly(row) == row.state = "ACTIVE"

\* scxml_session_report_send_done: the id of a row the Session still owes.
Owed(row) ==
    \/ row.state = "ACTIVE"
    \/ row.state = "CANCEL_RESERVED" /\ row.previous_state = "ACTIVE"

report_send_done ==
    LET id == rows[timer.row].send_id
        found == {g \in find_delayed_send(id) :
                    /\ IsFirst(g, find_delayed_send(id))
                    /\ Owed(delayed_sends[g])}
    IN  /\ run_due_report(found # {})
        /\ delayed_sends' = [g \in Regs |->
             IF g \notin found THEN delayed_sends[g]
             ELSE IF delayed_sends[g].state = "CANCEL_RESERVED"
             THEN [delayed_sends[g] EXCEPT !.previous_state = "FREE"]
             ELSE FreeReg]
        /\ UNCHANGED <<executing, effects, registry_done, binding, failed>>

\* host_close: the flag, then the rows of the source.
host_close ==
    /\ binding = "open"
    /\ binding' = "closing"
    /\ UNCHANGED <<vars, delayed_sends, executing, effects, registry_done, failed>>

host_close_cancels ==
    /\ binding = "closing"
    /\ binding' = "closed"
    /\ cancel_source(Source)
    /\ UNCHANGED <<delayed_sends, executing, effects, registry_done, failed>>

HostSteps ==
    /\ \/ RunDueLane
       \/ DrainLane
       \/ \E n \in 1 .. MaxBatch : run_due(n)
       \/ \E n \in 1 .. MaxBatch : drain_begin(n)
       \/ close
       \/ Tick
    /\ UNCHANGED sessionVars

DelayNext ==
    \/ \E d \in Sends : execute_send(d[1], d[2])
    \/ \E id \in SendIds : execute_cancel(id)
    \/ host_prepare
    \/ host_prepare_send
    \/ host_prepare_cancel
    \/ host_refuses
    \/ rollback_prepared_effect
    \/ end_microstep("commit")
    \/ end_microstep("discard")
    \/ settle_registry
    \/ settle_ticket
    \/ report_send_done
    \/ host_close
    \/ host_close_cancels
    \/ HostSteps

DelaySpec == DelayInit /\ [][DelayNext]_allVars

-----------------------------------------------------------------------------
(* What the two registries promise together. *)

\* Between microsteps, and outside the window in which a timer reports.
Settled ==
    /\ executing.pc = "idle" /\ journal[0] = <<>>
    /\ timer.pc # "reported"
    /\ binding = "open" /\ ~closed /\ ~failed

\* A FIRING row whose cancel came too late carries a witness of that.
UnfiredIds ==
    {rows[r].send_id : r \in {q \in Rows : /\ CountsTimer(rows[q])
                                           /\ ~rows[q].fire_won_cancel}}

\* The sendids the Session owes are those of the unfired rows of the ledger:
\* each delayed send is known to both registries or to neither.
RegistryMatchesLedger ==
    Settled => {delayed_sends[g].id : g \in Regs \ FreeRegs} = UnfiredIds

\* While its Session runs, run_due never meets a sendid the Session does not
\* know: every race of a deadline with a cancel is recognised, and none is
\* taken for a protocol error.
NoProtocolFailure == ~failed => timer_done_failed = 0

\* A delayed Event that was committed ends undelivered only because of its
\* own cancel, or because its source failed or it or the router was closed.
NoDelayedEventIsLost ==
    [][\A r \in Rows :
         /\ rows[r].delay # 0 /\ rows[r].state \in {"DELAYED", "FIRING", "READY"}
         /\ fate[rows[r].identity] = "live"
         /\ fate'[rows[r].identity] = "cancelled"
         => \/ closed' \/ binding # "open" \/ failed
            \/ \E c \in CancelRows :
                 /\ cancel_rows[c].in_use /\ ~cancel_rows'[c].in_use
                 /\ cancel_rows[c].target_identity = rows[r].identity]_allVars

\* The two registries agree, and no race is taken for a protocol error.
DelaySound == DelayTypeOK /\ RegistryMatchesLedger /\ NoProtocolFailure
=============================================================================
