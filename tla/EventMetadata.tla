---------------------------- MODULE EventMetadata ----------------------------
(***************************************************************************)
(* What an SCXML Session knows of the Event it is looking at: the rows     *)
(* external_metadata_rows, which a producer fills and the worker of the    *)
(* statechart instance empties (scxml_session.c, scxml_runtime.c), and the *)
(* slots that hold the donedata of a final state until its done.state      *)
(* Event is observed.                                                      *)
(*                                                                         *)
(* A row is reserved, marked and cleared under registry_lock; structured   *)
(* data is copied and destroyed outside it.  A message stands for all of   *)
(* its metadata.  The mailbox and the queue of completion Events belong to *)
(* the statechart instance and are external.                               *)
(***************************************************************************)
EXTENDS Integers, Sequences, FiniteSets, SequencesExt

CONSTANTS
    Producers,
    Messages,               \* numbers; one call of try_send_named each
    Structured,             \* those with a structured object as their data
    Declared,               \* the Event names of the program, sequences of tokens
    Names,                  \* the names producers send
    external_event_capacity,
    completion_capacity,
    Parents,                \* states with final children
    FieldCount,             \* assignments of a donedata object
    MaxFinals,
    MaxToken

MetadataAssumption ==
    /\ Messages \subseteq Nat \ {0} /\ Structured \subseteq Messages
    /\ {external_event_capacity, completion_capacity, FieldCount, MaxFinals, MaxToken} \subseteq Nat
    \* 2^63 tokens outlive every row: none comes back while it is in use
    /\ MaxToken > Cardinality(Messages)

Rows == 1 .. external_event_capacity
\* One more than completion Events can wait: the Event looked at holds one.
Slots == 1 .. completion_capacity + 1
FreeRow == [in_use |-> FALSE, live |-> FALSE, token |-> 0, message |-> 0, name |-> <<>>]
FreeSlot == [state |-> "FREE", parent |-> 0, sequence |-> 0, data |-> {}]
IdleCall == [pc |-> "idle", row |-> 0, message |-> 0, name |-> <<>>]
NoEvent == [name |-> <<>>, message |-> 0, object |-> 0, slot |-> 0, event |-> <<>>]

VARIABLES
    rows, next_token, calls, mailbox, worker, current,
    slots, completions, next_sequence,
    log     \* history: messages left to send, destroyed objects, donedata in order of completion

vars == <<rows, next_token, calls, mailbox, worker, current, slots, completions, next_sequence, log>>

TypeOK ==
    /\ rows \in [Rows -> [in_use : BOOLEAN, live : BOOLEAN, token : 0 .. MaxToken,
                          message : Messages \cup {0}, name : Names \cup {<<>>}]]
    /\ next_token \in 1 .. MaxToken
    /\ \A p \in Producers : calls[p].pc \in {"idle", "attach", "send", "release", "destroy", "clear"}
    /\ Len(mailbox) <= external_event_capacity
    /\ worker \in [pc : {"idle", "copy", "clear", "errored"}, row : Rows \cup {0}, error : {"", "stale", "copy", "full", "raise"}]
    /\ slots \in [Slots -> [state : {"FREE", "READY", "BOUND"}, parent : Parents \cup {0},
                            sequence : Nat, data : SUBSET (0 .. FieldCount)]]
    /\ Len(completions) <= completion_capacity

Init ==
    /\ rows = [r \in Rows |-> FreeRow]
    /\ next_token \in 1 .. MaxToken
    /\ calls = [p \in Producers |-> IdleCall]
    /\ mailbox = <<>>
    /\ worker = [pc |-> "idle", row |-> 0, error |-> ""]
    /\ current = NoEvent
    /\ slots = [s \in Slots |-> FreeSlot]
    /\ completions = <<>> /\ next_sequence = 1
    /\ log = [left |-> Messages, destroyed |-> [m \in Messages |-> 0], done |-> <<>>, finals |-> 0]

--------------------------------------------------------------------------
(* Producers *)

\* The declared name that is the longest dotted prefix of the name; <<>>
\* stands for external_unmatched_event.
Representative(name) ==
    LET p == {d \in Declared : IsPrefix(d, name)} IN
    IF p = {} THEN <<>> ELSE CHOOSE d \in p : \A e \in p : Len(e) <= Len(d)

\* BIT | ((token + 1) & ~BIT), and never BIT alone.
NextToken(t) == IF t = MaxToken THEN 1 ELSE t + 1

\* Fault: a row whose data is still being read counts as free.
FreeRows_Fault == {r \in Rows : ~rows[r].in_use}

FreeRows == {r \in Rows : ~rows[r].in_use /\ ~rows[r].live}

\* scxml_runtime_reserve_event_metadata, called by try_send_metadata_impl;
\* without a row the answer is FULL.
reserve_event_metadata(p, m, name) ==
    /\ calls[p].pc = "idle" /\ m \in log.left
    /\ log' = [log EXCEPT !.left = @ \ {m}]
    /\ \/ FreeRows = {} /\ UNCHANGED <<rows, next_token, calls>>
       \/ /\ FreeRows /= {}
          /\ LET r == CHOOSE q \in FreeRows : \A o \in FreeRows : q <= o IN
             /\ rows' = [rows EXCEPT ![r].in_use = TRUE, ![r].token = next_token, ![r].message = m]
             /\ calls' = [calls EXCEPT ![p] = [pc |-> "attach", row |-> r, message |-> m, name |-> name]]
          /\ next_token' = NextToken(next_token)
    /\ UNCHANGED <<mailbox, worker, current, slots, completions, next_sequence>>

\* The name, then scxml_analyze_attach_event_content, outside the lock.
attach_event_content(p, ok) ==
    LET c == calls[p] IN
    /\ c.pc = "attach"
    /\ rows' = [rows EXCEPT ![c.row].name = c.name, ![c.row].live = ok /\ c.message \in Structured]
    /\ calls' = [calls EXCEPT ![p].pc = IF ok THEN "send" ELSE "release"]
    /\ UNCHANGED <<next_token, mailbox, worker, current, slots, completions, next_sequence, log>>

\* cflow_statechart_instance_try_send_tagged, which refuses when the
\* mailbox is full or the instance has ended.
try_send_tagged(p) ==
    LET c == calls[p] IN
    /\ c.pc = "send"
    /\ \/ /\ Len(mailbox) < external_event_capacity /\ worker.pc /= "errored"
          /\ mailbox' = Append(mailbox, [token |-> rows[c.row].token, message |-> c.message,
                                         name |-> c.name, event |-> Representative(c.name)])
          /\ calls' = [calls EXCEPT ![p] = IdleCall]
       \/ /\ Len(mailbox) = external_event_capacity \/ worker.pc = "errored"
          /\ calls' = [calls EXCEPT ![p].pc = "release"]
          /\ UNCHANGED mailbox
    /\ UNCHANGED <<rows, next_token, worker, current, slots, completions, next_sequence, log>>

\* scxml_runtime_release_event_metadata: the mark under the lock ...
release_event_metadata(p) ==
    LET c == calls[p] IN
    /\ c.pc = "release"
    /\ rows' = IF ~rows[c.row].in_use THEN rows
               ELSE IF rows[c.row].live THEN [rows EXCEPT ![c.row].in_use = FALSE]
               ELSE [rows EXCEPT ![c.row] = FreeRow]
    /\ calls' = IF rows[c.row].in_use /\ rows[c.row].live THEN [calls EXCEPT ![p].pc = "destroy"]
                ELSE [calls EXCEPT ![p] = IdleCall]
    /\ UNCHANGED <<next_token, mailbox, worker, current, slots, completions, next_sequence, log>>

\* ... the object outside it ...
release_destroy(p) ==
    LET c == calls[p] IN
    /\ c.pc = "destroy"
    /\ log' = [log EXCEPT !.destroyed[rows[c.row].message] = @ + 1]
    /\ calls' = [calls EXCEPT ![p].pc = "clear"]
    /\ UNCHANGED <<rows, next_token, mailbox, worker, current, slots, completions, next_sequence>>

\* ... and the row under it again.
release_clear(p) ==
    /\ calls[p].pc = "clear"
    /\ rows' = [rows EXCEPT ![calls[p].row] = FreeRow]
    /\ calls' = [calls EXCEPT ![p] = IdleCall]
    /\ UNCHANGED <<next_token, mailbox, worker, current, slots, completions, next_sequence, log>>

--------------------------------------------------------------------------
(* The worker observes Events *)

completion_data_release(s) == IF current.slot = 0 THEN s ELSE [s EXCEPT ![current.slot] = FreeSlot]

\* scxml_runtime_observe_event for an external Event with a metadata token.
\* The current Event is cleared first; a token no row holds is FATAL.
observe_event ==
    LET e == Head(mailbox)
        found == {r \in Rows : rows[r].in_use /\ rows[r].token = e.token} IN
    /\ worker.pc = "idle" /\ completions = <<>> /\ mailbox /= <<>>
    /\ mailbox' = Tail(mailbox)
    /\ slots' = completion_data_release(slots)
    /\ IF found = {}
       THEN worker' = [worker EXCEPT !.pc = "errored", !.error = "stale"] /\ current' = NoEvent /\ UNCHANGED rows
       ELSE LET r == CHOOSE q \in found : \A o \in found : q <= o IN
            /\ current' = [NoEvent EXCEPT !.name = IF rows[r].name = <<>> THEN e.event ELSE rows[r].name,
                                          !.message = rows[r].message, !.event = e.event]
            /\ IF rows[r].live
               THEN /\ rows' = [rows EXCEPT ![r].in_use = FALSE]
                    /\ worker' = [worker EXCEPT !.pc = "copy", !.row = r]
               ELSE rows' = [rows EXCEPT ![r] = FreeRow] /\ UNCHANGED worker
    /\ UNCHANGED <<next_token, calls, completions, next_sequence, log>>

\* scxml_runtime_copy_event_data_object: the object of the row is destroyed
\* whether or not the copy went well.
observe_copy(ok) ==
    LET m == rows[worker.row].message IN
    /\ worker.pc = "copy"
    /\ current' = [current EXCEPT !.object = IF ok THEN m ELSE 0]
    /\ log' = [log EXCEPT !.destroyed[m] = @ + 1]
    /\ worker' = [worker EXCEPT !.pc = "clear", !.error = IF ok THEN "" ELSE "copy"]
    /\ UNCHANGED <<rows, next_token, calls, mailbox, slots, completions, next_sequence>>

observe_clear ==
    /\ worker.pc = "clear"
    /\ rows' = [rows EXCEPT ![worker.row] = FreeRow]
    /\ worker' = [worker EXCEPT !.pc = IF worker.error = "" THEN "idle" ELSE "errored", !.row = 0]
    /\ UNCHANGED <<next_token, calls, mailbox, current, slots, completions, next_sequence, log>>

--------------------------------------------------------------------------
(* Donedata *)

\* materialize_done_data_object: the fields whose assignment went well make
\* the projected schema; none at all is completion_data_publish_empty.
materialize_done_data_object(fields) == fields

\* materialize_done_data_scalar, _cmeta, _inline: the content, as field 0, or
\* nothing.
materialize_done_data_content(ok) == IF ok THEN {0} ELSE {}

\* The first free slot, 0 when there is none.
completion_data_reserve ==
    LET free == {s \in Slots : slots[s].state = "FREE"} IN
    IF free = {} THEN 0 ELSE CHOOSE q \in free : \A o \in free : q <= o

\* The microstep that enters a final state of parent: completion_data_reserve
\* and materialize_done_data, then the instance queues the completion Event.
\* Every field or content that fails raises error.execution: without room
\* for it the slot is released and the microstep is FATAL.
materialize_done_data(parent, data, fits) ==
    LET s == completion_data_reserve IN
    /\ worker.pc = "idle" /\ log.finals < MaxFinals
    /\ Len(completions) < completion_capacity
    /\ fits \/ data \notin {{0}, 1 .. FieldCount}
    /\ IF s = 0 \/ ~fits
       THEN worker' = [worker EXCEPT !.pc = "errored", !.error = IF s = 0 THEN "full" ELSE "raise"]
            /\ UNCHANGED <<slots, completions, next_sequence, log>>
       ELSE /\ slots' = [slots EXCEPT ![s] = [state |-> "READY", parent |-> parent,
                                              sequence |-> next_sequence, data |-> data]]
            /\ next_sequence' = next_sequence + 1
            /\ completions' = Append(completions, parent)
            /\ log' = [log EXCEPT !.done = Append(@, data), !.finals = @ + 1]
            /\ UNCHANGED worker
    /\ UNCHANGED <<rows, next_token, calls, mailbox, current>>

completion_data_bind_oldest(s, parent) ==
    LET ready == {q \in Slots : s[q].state = "READY" /\ s[q].parent = parent} IN
    IF ready = {} THEN 0 ELSE CHOOSE q \in ready : \A o \in ready : s[q].sequence <= s[o].sequence

\* scxml_runtime_observe_event for a completion: bind_completion_done_data.
bind_completion_done_data ==
    LET cleared == completion_data_release(slots)
        q == completion_data_bind_oldest(cleared, Head(completions)) IN
    /\ worker.pc = "idle" /\ completions /= <<>>
    /\ completions' = Tail(completions)
    /\ slots' = IF q = 0 THEN cleared ELSE [cleared EXCEPT ![q].state = "BOUND"]
    /\ current' = [NoEvent EXCEPT !.slot = q]
    /\ log' = [log EXCEPT !.done = Tail(@)]
    /\ UNCHANGED <<rows, next_token, calls, mailbox, worker, next_sequence>>

--------------------------------------------------------------------------
Produce(p) ==
    \/ \E ok \in BOOLEAN : attach_event_content(p, ok)
    \/ try_send_tagged(p) \/ release_event_metadata(p) \/ release_destroy(p) \/ release_clear(p)

Work == observe_event \/ (\E ok \in BOOLEAN : observe_copy(ok)) \/ observe_clear \/ bind_completion_done_data

Final ==
    \E p \in Parents, fits \in BOOLEAN :
        \/ \E f \in SUBSET (1 .. FieldCount) :
                materialize_done_data(p, materialize_done_data_object(f), fits)
        \/ \E ok \in BOOLEAN : materialize_done_data(p, materialize_done_data_content(ok), fits)

Next ==
    \/ \E p \in Producers, m \in Messages, n \in Names : reserve_event_metadata(p, m, n)
    \/ \E p \in Producers : Produce(p)
    \/ Work \/ Final

Spec == Init /\ [][Next]_vars

\* A call under way goes on and the worker looks at the Events it has.
LiveSpec == Spec /\ WF_vars(Work) /\ \A p \in Producers : WF_vars(Produce(p))

--------------------------------------------------------------------------
(* Properties *)

\* The Event the worker looks at has the metadata it was sent with: the name,
\* the message and the object all belong to one call.
OwnMetadata ==
    Len(mailbox') < Len(mailbox) /\ worker'.error /= "stale" =>
         /\ current'.message = Head(mailbox).message
         /\ current'.name = Head(mailbox).name
OwnObject == current.object \in {0, current.message}

\* No Event is turned away because its row is gone: the token of an Event in
\* the mailbox is held by a row until the Event is looked at.
TokenHeld ==
    \A k \in 1 .. Len(mailbox) :
        \E r \in Rows : rows[r].in_use /\ rows[r].token = mailbox[k].token /\ rows[r].message = mailbox[k].message

\* Structured data is destroyed once, by whoever took the row last.
DestroyedOnce ==
    /\ \A m \in Messages : log.destroyed[m] <= 1
    /\ \A r \in Rows : rows[r].in_use /\ rows[r].live => log.destroyed[rows[r].message] = 0

\* The worker looks at an Event under the longest declared name that covers
\* it, so that the most specific transition can match.
MostSpecificName ==
    \A k \in 1 .. Len(mailbox) : \A d \in Declared :
        IsPrefix(d, mailbox[k].name) => IsPrefix(d, mailbox[k].event)

\* A done.state Event carries the donedata of the completion it reports, in
\* the order of the completions, whatever slots were free in between.
DoneDataInOrder ==
    Len(completions') < Len(completions) =>
         /\ current'.slot /= 0
         /\ slots'[current'.slot].data = Head(log.done)

\* There is a slot for every completion the queue admits.
SlotsSuffice == worker.error /= "full"

\* Every row comes back when its Event has been looked at or refused.
RowsReturn ==
    (\A p \in Producers : calls[p].pc = "idle") /\ mailbox = <<>> /\ worker.pc \in {"idle", "errored"}
        => \A r \in Rows : rows[r] = FreeRow

\* A row that is taken comes back: the Event is looked at or refused, unless
\* the Session ends.
EventIsObserved ==
    \A m \in Messages :
        []<>(worker.pc = "errored" \/ \A r \in Rows : rows[r].message /= m)

\* Metadata, objects and donedata belong to the Event the worker looks at, and
\* their rows and slots come back (above).
MetadataSound ==
    /\ TypeOK /\ OwnObject /\ TokenHeld /\ DestroyedOnce /\ MostSpecificName
    /\ RowsReturn /\ SlotsSuffice
==============================================================================
