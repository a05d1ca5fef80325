----------------------------- MODULE CnetIngress -----------------------------
(***************************************************************************)
(* The inbound bridge from one CNet connection to the mailbox of a Session *)
(* (scxml_cnet_ingress.c).  The host arms one receive credit at a time,    *)
(* CNet calls back with a chunk while it is polled, and drain hands the    *)
(* stored chunks to the Session.  Everything runs on the CNet owner        *)
(* thread; what interleaves is the order of these calls, and the Session   *)
(* whose mailbox may be full or closed at each transfer.                   *)
(*                                                                         *)
(* A chunk is its number on the connection; hex encoding only doubles it.  *)
(***************************************************************************)
EXTENDS Integers, Sequences

CONSTANTS
    ring_capacity,     \* rows of the ring
    max_chunk_bytes,   \* longest chunk accepted
    max_events,        \* largest argument of drain
    MaxChunks          \* bound: chunks the peer sends

IngressAssumption ==
    /\ ring_capacity \in Nat \ {0}
    /\ max_chunk_bytes \in Nat \ {0}
    /\ max_events \in Nat \ {0}
    /\ MaxChunks \in Nat

NoChunk == 0
Errors == {"OK", "EPROTO", "EMSGSIZE", "ENOBUFS", "EIO"}

VARIABLES
    ingress,         \* the struct scxml_cnet_ingress_impl
    drain,           \* transfers the running drain may still make, 0 when idle
    in_connection,   \* external: what CNet knows of the connection
    credit,          \* external: CNet owes the bridge a receive callback
    sent,            \* external: chunks CNet has handed over
    mailbox,         \* external: chunks the Session has accepted, in order
    late             \* history: chunks that came after close

ingressVars == <<ingress, drain, in_connection, credit, sent, mailbox, late>>

Impl == [rows : [0 .. ring_capacity - 1 -> 0 .. MaxChunks], head : 0 .. ring_capacity - 1,
         pending : 0 .. ring_capacity, bound : BOOLEAN, connected : BOOLEAN,
         armed : BOOLEAN, closed : BOOLEAN, terminal : BOOLEAN,
         first_error : Errors, received : Nat, delivered : Nat,
         cancelled : Nat]

IngressTypeOK ==
    /\ ingress \in Impl
    /\ drain \in 0 .. max_events
    /\ in_connection \in {"none", "connecting", "connected", "closing", "closed",
                       "failed", "freed"}
    /\ credit \in BOOLEAN
    /\ sent \in 0 .. MaxChunks
    /\ mailbox \in Seq(1 .. MaxChunks)
    /\ late \in 0 .. MaxChunks

IngressInit ==
    /\ ingress = [rows |-> [i \in 0 .. ring_capacity - 1 |-> NoChunk], head |-> 0,
                  pending |-> 0, bound |-> FALSE, connected |-> FALSE,
                  armed |-> FALSE, closed |-> FALSE, terminal |-> FALSE,
                  first_error |-> "OK", received |-> 0, delivered |-> 0,
                  cancelled |-> 0]
    /\ drain = 0
    /\ in_connection = "none" /\ credit = FALSE /\ sent = 0
    /\ mailbox = <<>>
    /\ late = 0

Failed(i) == i.first_error # "OK"
mark_failure(i, error) ==
    [i EXCEPT !.first_error = IF Failed(i) THEN @ ELSE error]
Idle == drain = 0 /\ in_connection # "freed"

-----------------------------------------------------------------------------
(* Callbacks of CNet.                                                      *)

Ended(state) ==
    LET ended == [ingress EXCEPT !.connected = FALSE, !.armed = FALSE,
                                 !.terminal = TRUE]
    IN IF state = "failed" THEN mark_failure(ended, "EIO") ELSE ended

\* CNet reports each change of state once; an ended connection loses its credit.
ingress_observe_state(state) ==
    /\ Idle
    /\ \/ /\ state = "connected" /\ in_connection = "connecting"
          /\ ingress' = [ingress EXCEPT !.connected = TRUE]
          /\ UNCHANGED credit
       \/ /\ state = "closing" /\ in_connection \in {"connecting", "connected"}
          /\ ingress' = [ingress EXCEPT !.connected = FALSE]
          /\ UNCHANGED credit
       \/ /\ state \in {"closed", "failed"}
          /\ in_connection \in {"connecting", "connected", "closing"}
          /\ ingress' = Ended(state)
          /\ credit' = FALSE
    /\ in_connection' = state
    /\ UNCHANGED <<drain, sent, mailbox, late>>

\* Fault: the chunk is written at the head of the ring.
Stored_AtHead(i, chunk) ==
    [i EXCEPT !.rows[i.head] = chunk, !.pending = @ + 1, !.received = @ + 1]

Stored(i, chunk) ==
    [i EXCEPT !.rows[(i.head + i.pending) % ring_capacity] = chunk,
              !.pending = @ + 1, !.received = @ + 1]

\* What the bridge makes of a chunk, in the order of the tests.
Received(size, kind) ==
    LET taken == [ingress EXCEPT !.armed = FALSE]
    IN CASE ~ingress.armed -> mark_failure(ingress, "EPROTO")
         [] ingress.armed /\ ingress.closed -> [taken EXCEPT !.cancelled = @ + 1]
         [] OTHER ->
              IF kind # "bytes" THEN mark_failure(taken, "EPROTO")
              ELSE IF size > max_chunk_bytes THEN mark_failure(taken, "EMSGSIZE")
              ELSE IF ingress.pending >= ring_capacity
                     THEN mark_failure(taken, "ENOBUFS")
              ELSE Stored(taken, sent + 1)

observe_receive(size, kind) ==
    /\ Idle /\ credit
    /\ in_connection \in {"connected", "closing"} /\ sent < MaxChunks
    /\ credit' = FALSE /\ sent' = sent + 1
    /\ ingress' = Received(size, kind)
    /\ late' = IF ingress.closed THEN late + 1 ELSE late
    /\ UNCHANGED <<drain, in_connection, mailbox>>

-----------------------------------------------------------------------------
(* Calls of the host.                                                      *)

\* The host connects with the bridge as observer and binds before it polls.
ingress_bind ==
    /\ Idle /\ ~ingress.bound /\ ~ingress.closed
    /\ ingress' = [ingress EXCEPT !.bound = TRUE]
    /\ in_connection' = "connecting"
    /\ UNCHANGED <<drain, credit, sent, mailbox, late>>

MayArm ==
    /\ ingress.bound /\ ingress.connected
    /\ ~ingress.closed /\ ~ingress.terminal /\ ~Failed(ingress)
    /\ ~ingress.armed

\* cnet_receive accepts the credit or fails.
arm(accepted) ==
    /\ Idle /\ MayArm
    /\ ingress.pending # ring_capacity
    /\ ingress' = [ingress EXCEPT !.armed = accepted]
    /\ credit' = accepted
    /\ UNCHANGED <<drain, in_connection, sent, mailbox, late>>

drain_begin(n) ==
    /\ Idle /\ ~ingress.closed /\ ~Failed(ingress) /\ ingress.pending # 0
    /\ drain' = n
    /\ UNCHANGED <<ingress, in_connection, credit, sent, mailbox, late>>

\* The mailbox is full: the head row waits for another drain.
drain_full ==
    /\ drain > 0
    /\ drain' = 0
    /\ UNCHANGED <<ingress, in_connection, credit, sent, mailbox, late>>

\* The Session refuses for another reason.
drain_refused ==
    /\ drain > 0
    /\ drain' = 0
    /\ ingress' = mark_failure(ingress, "EPROTO")
    /\ UNCHANGED <<in_connection, credit, sent, mailbox, late>>

Advanced(i) ==
    [i EXCEPT !.rows[i.head] = NoChunk, !.head = (@ + 1) % ring_capacity,
              !.pending = @ - 1, !.delivered = @ + 1]

\* The Session accepts the head row; the loop goes on while there is one.
drain_one ==
    /\ drain > 0
    /\ mailbox' = Append(mailbox, ingress.rows[ingress.head])
    /\ ingress' = Advanced(ingress)
    /\ drain' = IF ingress.pending = 1 THEN 0 ELSE drain - 1
    /\ UNCHANGED <<in_connection, credit, sent, late>>

close ==
    /\ Idle /\ ~ingress.closed
    /\ ingress' = [ingress EXCEPT !.closed = TRUE,
                     !.cancelled = @ + ingress.pending,
                     !.rows = [i \in 0 .. ring_capacity - 1 |-> NoChunk],
                     !.pending = 0, !.head = 0]
    /\ UNCHANGED <<drain, in_connection, credit, sent, mailbox, late>>

is_quiescent ==
    /\ ingress.closed /\ ~ingress.armed /\ ingress.pending = 0
    /\ ingress.bound => ingress.terminal

\* A freed bridge has no calls; "freed" replaces what CNet knew if CNet is done.
destroy ==
    /\ Idle /\ is_quiescent
    /\ in_connection' = IF in_connection \in {"none", "closed", "failed"}
                         THEN "freed" ELSE in_connection
    /\ UNCHANGED <<ingress, drain, credit, sent, mailbox, late>>

Drain == drain_full \/ drain_refused \/ drain_one

IngressEndOfConnection == \E state \in {"closed", "failed"} : ingress_observe_state(state)

IngressNext ==
    \/ \E state \in {"connected", "closing"} : ingress_observe_state(state)
    \/ IngressEndOfConnection
    \/ \E size \in 0 .. max_chunk_bytes + 1, kind \in {"bytes", "text"} :
            observe_receive(size, kind)
    \/ ingress_bind
    \/ \E accepted \in BOOLEAN : arm(accepted)
    \/ \E n \in 1 .. max_events : drain_begin(n)
    \/ Drain
    \/ close
    \/ destroy

IngressSpec == IngressInit /\ [][IngressNext]_ingressVars

\* The loop of drain ends; the host drains again as long as rows are stored,
\* the Session makes room again and again, and the domain owner ends the
\* connection of a closed bridge.
IngressFairness ==
    /\ WF_ingressVars(Drain)
    /\ WF_ingressVars(\E n \in 1 .. max_events : drain_begin(n))
    /\ SF_ingressVars(drain_one)
    /\ WF_ingressVars(ingress.closed /\ IngressEndOfConnection)

IngressFairSpec == IngressSpec /\ IngressFairness

-----------------------------------------------------------------------------
(* What has to hold.                                                       *)

\* The bridge believes in a credit exactly when CNet owes it a callback: it is
\* never overrun by a second chunk and never waits for one that cannot come.
CreditMatches == ingress.armed = credit

\* A credit is only given when a row is left for its chunk, so no chunk that
\* CNet was asked for is refused for lack of room, whatever drain does between.
RoomForCredit ==
    /\ credit => ingress.pending < ring_capacity
    /\ ingress.first_error # "ENOBUFS"

\* The chunk stored n-th reaches the Session n-th: rows of the ring, read from
\* the head, continue what was delivered, with no chunk lost or repeated.
FifoDelivery ==
    LET stored == [k \in 1 .. ingress.pending |->
                     ingress.rows[(ingress.head + k - 1) % ring_capacity]]
        all == mailbox \o stored
    IN \A i, j \in 1 .. Len(all) : i < j => all[i] < all[j] /\ all[i] # NoChunk

\* Every chunk the bridge took over is delivered, stored or counted as
\* cancelled, a chunk that came after close included.
Accounting ==
    ingress.received + late
        = ingress.delivered + ingress.pending + ingress.cancelled

\* destroy frees the storage only when CNet will not call back any more.
FreedAfterEnd ==
    is_quiescent => in_connection \in {"none", "closed", "failed", "freed"}

\* What the bridge stores reaches the Session, unless the bridge fails or is
\* closed, whatever number of times the mailbox was full.
StoredChunksLeave == []<>(ingress.pending = 0 \/ Failed(ingress))

\* A closed bridge becomes quiescent.
ClosedQuiesces == []<>(ingress.closed => is_quiescent)

\* The ring and its credit, as the bridge and CNet see them: at every moment the
\* two agree, chunks keep their order and their number, and the storage outlives
\* every callback.
IngressSound ==
    /\ IngressTypeOK
    /\ CreditMatches /\ RoomForCredit
    /\ FifoDelivery /\ Accounting
    /\ FreedAfterEnd
=============================================================================
