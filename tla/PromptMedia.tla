----------------------------- MODULE PromptMedia -----------------------------
(***************************************************************************)
(* Prompt playback of a CMeta session (voicexml_cmeta_session.c): a prompt *)
(* is selected among the rows of the active item, prepared with a media    *)
(* provider, committed, marked, barged into and completed.  A playback has *)
(* the collect generation as its own; its completion arrives from another  *)
(* thread through a one-slot mailbox.  Nothing waits for that thread: the  *)
(* provider's cancel does not block, so a canceled playback may still      *)
(* complete.                                                               *)
(***************************************************************************)
EXTENDS Integers, FiniteSets, Sequences, FiniteSetsExt

CONSTANTS
    Rows,            \* the prompts of every item: count, condition, bargein, marks
    Producers,       \* threads of the media provider
    Host,            \* the owner's calls: DRIVER or MANUAL, NOINPUT, RAISE, BARGE, MARK
    Backend,         \* whether an expression backend evaluates the conditions
    MaxGeneration,   \* bound: collect generations
    MaxPlaybacks,    \* bound: playbacks committed
    MaxRetries,      \* bound: recovery events of one item
    MaxElapsed       \* bound: playback clock

PromptAssumption ==
    /\ \A i \in DOMAIN Rows : \A r \in DOMAIN Rows[i] :
          Rows[i][r].count \in Nat \ {0} /\ Rows[i][r].marks \in Nat
    /\ Backend \in BOOLEAN
    /\ {MaxGeneration, MaxPlaybacks, MaxRetries, MaxElapsed} \subseteq Nat
    /\ Host \subseteq {"DRIVER", "MANUAL", "NOINPUT", "RAISE", "BARGE", "MARK"}

Items == DOMAIN Rows
Elapsed == 0 .. MaxElapsed
Segments == 1 .. Max({0} \cup UNION {{Rows[i][r].marks : r \in DOMAIN Rows[i]} : i \in Items})
Untimed == -1
NoMark == [generation |-> 0, mark |-> 0, time |-> 0]
NoCall == [at |-> "OUT", generation |-> 0, playback |-> 0, outcome |-> "COMPLETED",
           elapsed |-> Untimed]

VARIABLES
    s,       \* the session, vxml_cmeta_session_data
    box,     \* prompt_media_mailbox: state, generation and payload
    call     \* the ingress call each producer is in

vars == <<s, box, call>>

Running == s.state = "RUNNING"

-----------------------------------------------------------------------------
(* Transactions.  Values are the set of generations whose prompt wrote     *)
(* into them; 0 stands for the values the session already had.             *)

transaction_reset(t) == [t EXCEPT !.staged = {}]
transaction_begin(t) == [t EXCEPT !.staged = t.committed]
transaction_commit(t) == [t EXCEPT !.committed = t.staged, !.staged = {}]

prompt_media_begin_transaction(t) ==
    IF ~Backend THEN t
    ELSE [transaction_begin(t) EXCEPT !.transaction = TRUE, !.selection = 0]

prompt_media_abort_transaction(t) ==
    IF ~t.transaction THEN t
    ELSE [transaction_reset(t) EXCEPT !.transaction = FALSE, !.selection = 0]

-----------------------------------------------------------------------------
(* Selection of a row.                                                     *)

prompt_retry_count(t) == 1 + t.retries[t.active]

(* The eligible row of the highest count, the first of them; 0 for none.   *)
select_prompt_row(t) ==
    LET rows == Rows[t.active]
        eligible == {r \in DOMAIN rows : /\ rows[r].count <= prompt_retry_count(t)
                                         /\ rows[r].condition => t.flag}
        best == {r \in eligible : \A q \in eligible : rows[q].count <= rows[r].count}
    IN IF best = {} THEN 0 ELSE Min(best)

CacheHolds(t) ==
    t.selection # 0 /\ t.selection_generation = t.collect_generation
                    /\ t.selection_item = t.active

(* selection is 1 + the row, 0 when nothing is cached.                     *)
selected_prompt_row(t) ==
    IF Backend /\ CacheHolds(t) THEN t.selection - 1 ELSE select_prompt_row(t)

(* Inside a transaction the selection is kept.                             *)
Selected(t) ==
    IF Backend /\ t.transaction
    THEN [t EXCEPT !.selection = 1 + selected_prompt_row(t),
                   !.selection_generation = t.collect_generation,
                   !.selection_item = t.active]
    ELSE t

-----------------------------------------------------------------------------
(* Settlement.  Disarming stores, it does not compare: a producer that is  *)
(* writing finds out when it publishes.                                    *)

Disarm(b) ==
    [b EXCEPT !.generation = 0, !.elapsed = Untimed,
              !.state = IF b.state = "CLOSED" THEN "CLOSED" ELSE "DISARMED"]
prompt_media_mailbox_disarm == Disarm(box)

settle_prompt_media(t) ==
    LET u == IF t.prepared # "NO"
             THEN [t EXCEPT !.prepared = "NO", !.ticket = FALSE]
             ELSE IF t.in_flight THEN [t EXCEPT !.in_flight = FALSE, !.playing = 0]
             ELSE t
        v == IF u.transaction
             THEN [transaction_reset(u) EXCEPT !.transaction = FALSE, !.selection = 0]
             ELSE u
    IN [v EXCEPT !.generation = 0]

-----------------------------------------------------------------------------
(* Events.  A handler runs in a transaction of its own; it may change what *)
(* conditions read.  No transaction of a prompt is looked for.             *)

execute_event_handler(t) ==
    {[t EXCEPT !.state = "FAILED"]}
    \cup {[transaction_commit(transaction_begin(t)) EXCEPT !.flag = f] : f \in BOOLEAN}

prompt_media_raise_failure(t) == execute_event_handler(t)

(* FIA: the next item, and a new generation.                               *)
select_directed_item(t, i) ==
    [settle_prompt_media(t) EXCEPT !.active = i, !.collect_generation = @ + 1,
                                   !.collecting = FALSE]

Init ==
    /\ s = [state |-> "RUNNING", active |-> 1, collect_generation |-> 1,
            collecting |-> FALSE, retries |-> [i \in Items |-> 0], flag |-> FALSE,
            committed |-> {0}, staged |-> {}, transaction |-> FALSE,
            selection |-> 0, selection_generation |-> 0, selection_item |-> 0,
            prepared |-> "NO", in_flight |-> FALSE, generation |-> 0,
            barged |-> 0, progress |-> 0,
            mark_generation |-> 0, last_mark |-> 0, mark_elapsed |-> Untimed,
            result |-> NoMark, shadow |-> [i \in Items |-> NoMark],
            \* history: the provider's ticket and playback, the row it plays, the
            \* generations of the playbacks begun and which of them completed,
            \* the effects published, when an item was filled, whether the
            \* completion of one playback settled another
            ticket |-> FALSE, playing |-> 0, row |-> 0, gens |-> <<>>, ended |-> {},
            published |-> {0}, filled |-> [i \in Items |-> 0], foreign |-> FALSE]
    /\ box = [state |-> "DISARMED", generation |-> 0, outcome |-> "COMPLETED",
              elapsed |-> Untimed, playback |-> 0]
    /\ call = [p \in Producers |-> NoCall]

-----------------------------------------------------------------------------
(* Admission.                                                              *)

(* A foreach prompt opens a transaction when no backend has; whatever the  *)
(* expressions of a prompt write is staged.                                *)
prompt_media_project_batch(t) ==
    LET opens == ~t.transaction /\ Rows[t.active][selected_prompt_row(t)].foreach
        u == IF opens THEN [transaction_begin(t) EXCEPT !.transaction = TRUE] ELSE t
    IN IF u.transaction THEN [u EXCEPT !.staged = @ \cup {t.collect_generation}] ELSE u

(* What can come of a prepare: a ticket, nothing to play, a refusal, or a  *)
(* failure that is raised as an event once everything is undone.           *)
prompt_media_prepare(t) ==
    IF selected_prompt_row(t) = 0 THEN {prompt_media_abort_transaction(t)}
    ELSE LET u == prompt_media_project_batch(Selected(t))
             undone == prompt_media_abort_transaction(u)
             held(kind) == [u EXCEPT !.prepared = kind, !.ticket = (kind = "TICKET"),
                                     !.generation = u.collect_generation]
         IN {held("TICKET"), undone}
            \cup {held(k) : k \in {k \in {"NOOP"} : Rows[t.active][selected_prompt_row(u)].foreach}}
            \cup prompt_media_raise_failure(undone)

Admissible(t) ==
    /\ t.state = "RUNNING" /\ t.prepared = "NO" /\ ~t.in_flight
    /\ t.barged # t.collect_generation

Publish(t) ==
    IF t.transaction
    THEN [transaction_commit(t) EXCEPT !.transaction = FALSE,
                                       !.published = @ \cup {t.generation}]
    ELSE t

(* Commit: noop only publishes, a ticket needs a mailbox nobody is in.     *)
prompt_media_commit(t) ==
    IF t.prepared = "NOOP"
    THEN [Publish(t) EXCEPT !.prepared = "NO", !.generation = 0,
                            !.mark_generation = 0, !.last_mark = 0]
    ELSE [Publish(t) EXCEPT
            !.prepared = "NO", !.in_flight = TRUE, !.mark_generation = t.generation,
            !.last_mark = 0, !.mark_elapsed = Untimed, !.ticket = FALSE,
            !.row = selected_prompt_row(t), !.gens = Append(@, t.generation),
            !.playing = Len(t.gens) + 1]

Armed(t) == [state |-> "EMPTY", generation |-> t.generation, outcome |-> "COMPLETED",
             elapsed |-> Untimed, playback |-> 0]

CommitsTo(t, u, b) ==
    \/ /\ t.prepared = "NOOP" /\ u = prompt_media_commit(t) /\ b = box
    \/ /\ t.prepared = "TICKET" /\ box.state = "DISARMED" /\ Len(t.gens) < MaxPlaybacks
       /\ u = prompt_media_commit(t) /\ b = Armed(t)

(* The calls of a host that drives the protocol itself.                    *)
vxml_session_cmeta_prompt_media_prepare ==
    /\ "MANUAL" \in Host /\ Admissible(s) /\ ~s.transaction
    /\ s' \in prompt_media_prepare(prompt_media_begin_transaction(s))
    /\ UNCHANGED <<box, call>>

vxml_session_cmeta_prompt_media_commit ==
    /\ "MANUAL" \in Host /\ Running
    /\ CommitsTo(s, s', box') /\ UNCHANGED call

vxml_session_cmeta_prompt_media_discard ==
    /\ "MANUAL" \in Host /\ Running /\ s.prepared # "NO"
    /\ s' = [prompt_media_abort_transaction(s) EXCEPT !.generation = 0,
                !.prepared = "NO", !.ticket = FALSE]
    /\ UNCHANGED <<box, call>>

(* One call of the driver: prepare and commit a prompt of this generation, *)
(* or find that there is none; the refused ones propagate.                 *)
progress_prompt ==
    /\ "DRIVER" \in Host /\ Running /\ ~s.collecting
    /\ s.progress # s.collect_generation
    /\ LET t == Selected(prompt_media_begin_transaction(s))
           done(u) == [u EXCEPT !.progress = u.collect_generation]
       IN IF selected_prompt_row(t) = 0
          THEN s' = done([Publish([t EXCEPT !.generation = 0]) EXCEPT !.published = s.published])
               /\ UNCHANGED box
          ELSE /\ Admissible(s)
               /\ \E u \in prompt_media_prepare(t) :
                     \/ u.prepared = "NO" /\ s' = u /\ UNCHANGED box
                     \/ \E v \in {prompt_media_commit(u)} :
                           CommitsTo(u, v, box') /\ s' = done(v)
    /\ UNCHANGED call

(* Collecting starts beside the prompt; it keeps the prompt's selection.   *)
progress_collect ==
    /\ Running /\ ~s.collecting /\ ~s.transaction
    /\ "DRIVER" \in Host => s.progress = s.collect_generation
    /\ s' = [s EXCEPT !.collecting = TRUE]
    /\ UNCHANGED <<box, call>>

-----------------------------------------------------------------------------
(* Marks, barge-in and the result they leave.                              *)

(* None when the terminal time lies before the mark.                       *)
prompt_mark_result_publish(t, generation, elapsed) ==
    IF t.last_mark = 0 \/ t.mark_elapsed = Untimed THEN {[t EXCEPT !.result = NoMark]}
    ELSE IF elapsed < t.mark_elapsed THEN {}
    ELSE {[t EXCEPT !.result = [generation |-> generation, mark |-> t.last_mark,
                                time |-> elapsed - t.mark_elapsed]]}

prompt_mark_result_reset(t) == [t EXCEPT !.result = NoMark]

(* The provider reports marks of the row it plays; the session judges them *)
(* by the row it takes for selected.                                       *)
prompt_media_mark(segment, elapsed) ==
    /\ "MARK" \in Host /\ Running /\ s.in_flight
    /\ s.mark_generation = s.generation /\ box.state = "EMPTY"
    /\ segment <= Rows[s.active][s.row].marks
    /\ selected_prompt_row(s) # 0
    /\ segment <= Rows[s.active][selected_prompt_row(s)].marks
    /\ segment > s.last_mark
    /\ elapsed # Untimed => elapsed >= s.mark_elapsed
    /\ s' = [s EXCEPT !.last_mark = segment, !.mark_elapsed = elapsed]
    /\ UNCHANGED <<box, call>>

prompt_media_barge(elapsed) ==
    /\ "BARGE" \in Host /\ Running /\ s.in_flight
    /\ s.generation = s.collect_generation
    /\ selected_prompt_row(s) # 0 /\ Rows[s.active][selected_prompt_row(s)].bargein
    /\ \E t \in IF elapsed = Untimed THEN {prompt_mark_result_reset(s)}
                ELSE prompt_mark_result_publish(s, s.collect_generation, elapsed) :
          s' = settle_prompt_media([t EXCEPT !.barged = t.collect_generation])
    /\ box' = prompt_media_mailbox_disarm
    /\ UNCHANGED call

-----------------------------------------------------------------------------
(* Ingress: a producer reports the end of a playback, which may have been  *)
(* canceled meanwhile.  One atomic access a step.                          *)

Current(c) == /\ box.generation = c.generation /\ s.in_flight
              /\ s.generation = c.generation
Leave(p) == call' = [call EXCEPT ![p] = NoCall]

Enter(p) ==
    /\ call[p].at = "OUT" /\ s.state # "CLOSED"
    /\ \E k \in DOMAIN s.gens \ s.ended, outcome \in {"COMPLETED", "FAILED"},
          elapsed \in Elapsed \cup {Untimed} :
          /\ k + 1 >= Len(s.gens)
          /\ outcome = "FAILED" => elapsed = Untimed
          /\ call' = [call EXCEPT ![p] = [at |-> "CHECK", generation |-> s.gens[k],
                        playback |-> k, outcome |-> outcome, elapsed |-> elapsed]]
          /\ s' = [s EXCEPT !.ended = @ \cup {k}]
    /\ UNCHANGED box

(* A refused report is repeated only when the slot was taken.              *)
ingress_check(p) ==
    /\ call[p].at = "CHECK"
    /\ IF /\ box.state = "EMPTY" /\ Current(call[p])
          /\ (call[p].elapsed # Untimed => call[p].elapsed >= s.mark_elapsed)
       THEN call' = [call EXCEPT ![p].at = "CLAIM"]
       ELSE Leave(p)
    /\ UNCHANGED <<s, box>>

ingress_claim(p) ==
    /\ call[p].at = "CLAIM"
    /\ IF box.state = "EMPTY"
       THEN /\ box' = [box EXCEPT !.state = "WRITING"]
            /\ call' = [call EXCEPT ![p].at = "RECHECK"]
       ELSE Leave(p) /\ UNCHANGED box
    /\ UNCHANGED s

\* Fault: the generation is not looked at again once the slot is claimed.
StillCurrent_Claimed(c) == TRUE

StillCurrent(c) == Current(c)

ingress_recheck(p) ==
    /\ call[p].at = "RECHECK"
    /\ IF StillCurrent(call[p])
       THEN call' = [call EXCEPT ![p].at = "WRITE"] /\ UNCHANGED box
       ELSE /\ box' = [box EXCEPT !.state = IF @ = "WRITING" THEN "DISARMED" ELSE @]
            /\ Leave(p)
    /\ UNCHANGED s

(* The payload is written into the slot, whoever has claimed it by now.    *)
ingress_write(p) ==
    /\ call[p].at = "WRITE"
    /\ box' = [box EXCEPT !.outcome = call[p].outcome, !.elapsed = call[p].elapsed,
                          !.playback = call[p].playback]
    /\ call' = [call EXCEPT ![p].at = "PUBLISH"]
    /\ UNCHANGED s

ingress_publish(p) ==
    /\ call[p].at = "PUBLISH"
    /\ box' = IF box.state = "WRITING" THEN [box EXCEPT !.state = "READY"]
              ELSE [box EXCEPT !.elapsed = Untimed]
    /\ Leave(p) /\ UNCHANGED s

prompt_media_try_complete(p) ==
    \/ ingress_check(p) \/ ingress_claim(p) \/ ingress_recheck(p)
    \/ ingress_write(p) \/ ingress_publish(p)

-----------------------------------------------------------------------------
(* The owner consumes the completion: result, settlement, then the event   *)
(* of a failure.                                                           *)

prompt_media_run_ready ==
    /\ Running /\ box.state = "READY"
    /\ box' = prompt_media_mailbox_disarm
    /\ LET settled(t) == [t EXCEPT !.in_flight = FALSE, !.generation = 0, !.playing = 0,
                                   !.foreign = @ \/ box.playback # t.playing]
           timed == box.outcome = "COMPLETED" /\ box.elapsed # Untimed
           marked == IF timed THEN prompt_mark_result_publish(s, box.generation, box.elapsed)
                     ELSE {prompt_mark_result_reset(s)}
       IN IF ~s.in_flight \/ box.generation # s.generation
          THEN s' = [s EXCEPT !.in_flight = FALSE, !.generation = 0]
          ELSE \E t \in IF marked = {} THEN {s} ELSE marked :
                  IF box.outcome = "FAILED"
                  THEN s' \in prompt_media_raise_failure(settled(t))
                  ELSE s' = settled(t)
    /\ UNCHANGED call

(* A filled item keeps the mark of its own generation.                     *)
snapshot_field_mark_shadow(t, i) ==
    [t EXCEPT !.shadow[i] = IF t.result.generation = t.collect_generation
                            THEN t.result ELSE NoMark]

(* The completion of a collect: the item is filled, or the recognition     *)
(* brought nothing that stays, and the form goes on to some item that is   *)
(* without a value, a cleared one perhaps.                                 *)
collect_run_ready ==
    /\ Running /\ s.collecting /\ s.collect_generation < MaxGeneration
    /\ \E fills \in BOOLEAN, i \in Items :
          LET t == IF ~fills THEN s
                   ELSE [snapshot_field_mark_shadow(s, s.active)
                            EXCEPT !.filled[s.active] = s.collect_generation]
              u == IF t.result.generation # t.collect_generation
                   THEN prompt_mark_result_reset(t) ELSE t
          IN s' = [select_directed_item(u, i) EXCEPT !.shadow[i] = NoMark, !.filled[i] = 0,
                      !.retries[s.active] = IF fills THEN 0 ELSE @]
    /\ box' = prompt_media_mailbox_disarm
    /\ UNCHANGED call

(* noinput and nomatch settle the prompt before they are raised.           *)
noinput ==
    /\ "NOINPUT" \in Host /\ Running /\ s.retries[s.active] < MaxRetries
    /\ s' \in execute_event_handler([settle_prompt_media(s) EXCEPT !.retries[s.active] = @ + 1])
    /\ box' = prompt_media_mailbox_disarm
    /\ UNCHANGED call

raise ==
    /\ "RAISE" \in Host /\ Running
    /\ s' \in execute_event_handler(s)
    /\ UNCHANGED <<box, call>>

(* Producers are stopped before close.                                     *)
close ==
    /\ s.state # "CLOSED" /\ \A p \in Producers : call[p].at = "OUT"
    /\ s' = [settle_prompt_media(s) EXCEPT !.state = "CLOSED"]
    /\ box' = Disarm([box EXCEPT !.state = "CLOSED"])
    /\ UNCHANGED call

Next ==
    \/ vxml_session_cmeta_prompt_media_prepare \/ vxml_session_cmeta_prompt_media_commit
    \/ vxml_session_cmeta_prompt_media_discard
    \/ progress_prompt \/ progress_collect
    \/ \E segment \in Segments, elapsed \in Elapsed \cup {Untimed} :
          prompt_media_mark(segment, elapsed)
    \/ \E elapsed \in Elapsed \cup {Untimed} : prompt_media_barge(elapsed)
    \/ \E p \in Producers : Enter(p) \/ prompt_media_try_complete(p)
    \/ prompt_media_run_ready \/ collect_run_ready \/ noinput \/ raise \/ close

Spec == Init /\ [][Next]_vars

-----------------------------------------------------------------------------
(* Properties.                                                             *)

Marks == [generation : 0 .. MaxGeneration, mark : Nat, time : Int]

(* Every part of the session and the mailbox has its type; a reservation   *)
(* and a playback exclude one another.                                     *)
TypeOK ==
    /\ s.state \in {"RUNNING", "FAILED", "CLOSED"} /\ s.active \in Items
    /\ s.collect_generation \in 1 .. MaxGeneration
    /\ s.prepared \in {"NO", "NOOP", "TICKET"} /\ {s.in_flight, s.transaction} \subseteq BOOLEAN
    /\ s.prepared # "NO" => ~s.in_flight
    /\ s.result \in Marks /\ s.shadow \in [Items -> Marks]
    /\ box.state \in {"DISARMED", "EMPTY", "WRITING", "READY", "CLOSED"}
    /\ call \in [Producers -> [at : {"OUT", "CHECK", "CLAIM", "RECHECK", "WRITE", "PUBLISH"},
                               generation : Nat, playback : Nat,
                               outcome : {"COMPLETED", "FAILED"}, elapsed : Int]]

(* Barge-in and marks are judged by the row that is being played, whatever *)
(* handlers did to the values its condition reads (the cached selection).  *)
PolicyIsPlayed == s.in_flight => selected_prompt_row(s) = s.row

(* What the expressions of a prompt wrote is in the committed values when  *)
(* its ticket was committed and only then, and nothing else is ever lost   *)
(* from them: prepare stages, commit publishes, refusal and discard undo.  *)
EffectsPublished == s.committed = s.published

(* The session never forgets a ticket it was given or a playback it began: *)
(* the provider plays exactly while one is in flight.                      *)
ProviderSettled ==
    /\ s.ticket <=> s.prepared = "TICKET"
    /\ (s.playing # 0) <=> s.in_flight

(* A completion settles the playback it was reported for, however late.    *)
AcceptedIsCurrent == ~s.foreign

(* The time since the last mark is never negative, although the terminal   *)
(* time is compared with the mark long before it is used.                  *)
MarktimeSane == s.result.time >= 0

(* The mark in a field's shadow was passed while that field was collected. *)
ShadowIsOwn == \A i \in Items : s.shadow[i].generation \in {0, s.filled[i]}

(* Selection, staged effects, tickets and marks of a prompt agree with     *)
(* what is played.                                                         *)
PromptSound ==
    /\ TypeOK
    /\ PolicyIsPlayed /\ EffectsPublished /\ ProviderSettled
    /\ MarktimeSane /\ ShadowIsOwn
=============================================================================
