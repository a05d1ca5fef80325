------------------------- MODULE CnetReceiveProofs -------------------------
(***************************************************************************)
(* Proofs about what receives from CNet: the raw ingress bridge, for every *)
(* size of the ring and every chunk limit; the framed bridge, for every byte *)
(* base, frame and chunk size; and the admission fence of a CNet domain, for *)
(* every set of generation numbers.  Each has its inductive invariant, one *)
(* lemma per operation, and the theorems at the end of its part.           *)
(***************************************************************************)
EXTENDS CnetIngress, CnetFrameIngress, CnetDomainFence, FiniteSetTheorems,
        NaturalsInduction, SequenceTheorems, WellFoundedInduction, TLAPS

(***************************************************************************)
(* The raw ingress bridge (scxml_cnet_ingress.c).                          *)
(***************************************************************************)

\* The row k places after h in the ring, and the k-th stored chunk.
Pos(h, k) == (h + k) % ring_capacity
At(i, k) == i.rows[Pos(i.head, k - 1)]

\* The ring holds chunks in the order CNet handed them over, after everything
\* the Session has accepted.
RingInv ==
    /\ \A k \in 1 .. ingress.pending : At(ingress, k) \in 1 .. sent
    /\ \A k, l \in 1 .. ingress.pending :
         k < l => At(ingress, k) < At(ingress, l)

MailboxInv ==
    /\ \A n \in 1 .. Len(mailbox) : mailbox[n] \in 1 .. sent
    /\ \A n, m \in 1 .. Len(mailbox) : n < m => mailbox[n] < mailbox[m]
    /\ \A n \in 1 .. Len(mailbox), k \in 1 .. ingress.pending :
         mailbox[n] < At(ingress, k)

\* A bridge that was never bound has no connection, and one that ended was told.
ConnectionInv ==
    /\ ~ingress.bound => in_connection \in {"none", "freed"} /\ ~ingress.terminal
    /\ ingress.terminal => in_connection \in {"closed", "failed", "freed"}

\* drain only goes on while there is a row at the head.
DrainInv == drain > 0 => ingress.pending > 0

\* A late chunk is one of those CNet handed over.
LateInv == late <= sent

IngressInv ==
    /\ LateInv
    /\ IngressTypeOK /\ CreditMatches /\ RoomForCredit /\ Accounting
    /\ RingInv /\ MailboxInv /\ ConnectionInv /\ DrainInv

-----------------------------------------------------------------------------
(* Positions of the ring. *)

\* Going k rows on from the head wraps around at most once.
LEMMA Wraps ==
    ASSUME IngressAssumption
    PROVE  \A h \in 0 .. ring_capacity - 1, k \in 0 .. ring_capacity :
              Pos(h, k) = IF h + k < ring_capacity THEN h + k ELSE h + k - ring_capacity
  <1> SUFFICES ASSUME NEW h \in 0 .. ring_capacity - 1, NEW k \in 0 .. ring_capacity
               PROVE  Pos(h, k) = IF h + k < ring_capacity THEN h + k
                                  ELSE h + k - ring_capacity
    OBVIOUS
  <1>1. CASE h + k < ring_capacity
    BY <1>1, SMT DEF IngressAssumption, Pos
  <1>2. CASE h + k >= ring_capacity
    BY <1>2, SMT DEF IngressAssumption, Pos
  <1> QED BY <1>1, <1>2 DEF IngressAssumption

\* A position is a row of the ring, rows less than a whole ring apart are
\* different, and stepping the head by one shifts all positions by one.
LEMMA Positions ==
    ASSUME IngressAssumption, NEW h \in 0 .. ring_capacity - 1
    PROVE  /\ \A k \in 0 .. ring_capacity - 1 : Pos(h, k) \in 0 .. ring_capacity - 1
           /\ \A k, l \in 0 .. ring_capacity - 1 : k # l => Pos(h, k) # Pos(h, l)
           /\ Pos(h, 0) = h /\ Pos(h, 1) \in 0 .. ring_capacity - 1
           /\ \A k \in 0 .. ring_capacity - 1 : Pos(Pos(h, 1), k) = Pos(h, k + 1)
  <1>1. \A k \in 0 .. ring_capacity :
           Pos(h, k) = IF h + k < ring_capacity THEN h + k ELSE h + k - ring_capacity
    BY Wraps
  <1>2. Pos(h, 1) \in 0 .. ring_capacity - 1
    BY <1>1 DEF IngressAssumption
  <1>3. \A k \in 0 .. ring_capacity :
           Pos(Pos(h, 1), k) = IF Pos(h, 1) + k < ring_capacity THEN Pos(h, 1) + k
                               ELSE Pos(h, 1) + k - ring_capacity
    BY <1>2, Wraps
  <1>4. ASSUME NEW k \in 0 .. ring_capacity - 1
        PROVE  Pos(Pos(h, 1), k) = Pos(h, k + 1)
    <2>1. Pos(h, k + 1) = IF h + (k + 1) < ring_capacity THEN h + (k + 1)
                          ELSE h + (k + 1) - ring_capacity
      BY <1>1 DEF IngressAssumption
    <2>2. Pos(h, 1) = IF h + 1 < ring_capacity THEN h + 1 ELSE h + 1 - ring_capacity
      BY <1>1 DEF IngressAssumption
    <2> QED BY <2>1, <2>2, <1>3 DEF IngressAssumption
  <1> QED BY <1>1, <1>2, <1>4 DEF IngressAssumption

-----------------------------------------------------------------------------
(* The record of the bridge. *)

\* Steps that leave the ring alone leave what it stores alone.
LEMMA RingKept ==
    ASSUME IngressInv,
           ingress'.rows = ingress.rows, ingress'.head = ingress.head,
           ingress'.pending = ingress.pending,
           UNCHANGED <<drain, mailbox>>, sent' \in {sent, sent + 1}
    PROVE  RingInv' /\ MailboxInv' /\ DrainInv'
  <1> USE DEF IngressInv
  <1>1. \A k : At(ingress', k) = At(ingress, k)
    BY DEF At
  <1>2. 1 .. sent \subseteq 1 .. sent'
    BY DEF IngressTypeOK
  <1>3. RingInv'
    BY <1>1, <1>2 DEF RingInv
  <1>4. MailboxInv'
    BY <1>1, <1>2 DEF MailboxInv
  <1> QED BY <1>3, <1>4 DEF DrainInv

\* The fields of the record have their types.
LEMMA ImplFields ==
    ASSUME IngressAssumption, NEW i \in Impl
    PROVE  /\ i.rows \in [0 .. ring_capacity - 1 -> 0 .. MaxChunks]
           /\ i.head \in 0 .. ring_capacity - 1 /\ i.pending \in 0 .. ring_capacity
           /\ i.received \in Nat /\ i.delivered \in Nat /\ i.cancelled \in Nat
           /\ i.armed \in BOOLEAN /\ i.closed \in BOOLEAN
           /\ ring_capacity \in Nat \ {0} /\ MaxChunks \in Nat
  BY DEF Impl, IngressAssumption

\* Booleans of the record may be written in any way.
LEMMA ImplUpdate ==
    ASSUME NEW i \in Impl
    PROVE  /\ [i EXCEPT !.bound = TRUE] \in Impl
           /\ \A c \in BOOLEAN : [i EXCEPT !.connected = c] \in Impl
           /\ \A a \in BOOLEAN : [i EXCEPT !.armed = a] \in Impl
           /\ [i EXCEPT !.connected = FALSE, !.armed = FALSE, !.terminal = TRUE] \in Impl
  BY Zenon DEF Impl

\* mark_failure writes the first error, and nothing else.
LEMMA MarkFailure ==
    ASSUME NEW i \in Impl, NEW e \in Errors
    PROVE  /\ mark_failure(i, e) \in Impl
           /\ mark_failure(i, e) = [i EXCEPT !.first_error = mark_failure(i, e).first_error]
           /\ mark_failure(i, e).first_error \in {i.first_error, e}
           /\ mark_failure(i, e).rows = i.rows
           /\ mark_failure(i, e).head = i.head
           /\ mark_failure(i, e).pending = i.pending
           /\ mark_failure(i, e).bound = i.bound
           /\ mark_failure(i, e).armed = i.armed
           /\ mark_failure(i, e).closed = i.closed
           /\ mark_failure(i, e).terminal = i.terminal
           /\ mark_failure(i, e).received = i.received
           /\ mark_failure(i, e).delivered = i.delivered
           /\ mark_failure(i, e).cancelled = i.cancelled
  <1> DEFINE f == IF Failed(i) THEN i.first_error ELSE e
  <1>1. f \in Errors /\ f \in {i.first_error, e}
    BY DEF Impl
  <1>2. mark_failure(i, e) = [i EXCEPT !.first_error = f]
    BY DEF mark_failure, Impl
  <1>3. mark_failure(i, e) \in Impl
    <2> HIDE DEF f
    <2> QED BY <1>1, <1>2, Zenon DEF Impl
  <1> HIDE DEF f
  <1> QED BY <1>1, <1>2, <1>3 DEF Impl

-----------------------------------------------------------------------------
(* The steps. *)

\* A new bridge stores nothing and has no connection.
LEMMA InitialIngress ==
    ASSUME IngressAssumption, IngressInit
    PROVE  IngressInv
  <1> USE DEF IngressInit, IngressAssumption
  <1>1. IngressTypeOK
    <2>1. /\ 0 \in 0 .. ring_capacity - 1 /\ 0 \in 0 .. ring_capacity /\ 0 \in Nat
          /\ NoChunk \in 0 .. MaxChunks /\ "OK" \in Errors
          /\ 0 \in 0 .. max_events /\ 0 \in 0 .. MaxChunks
      BY DEF NoChunk, Errors
    <2>2. [i \in 0 .. ring_capacity - 1 |-> NoChunk] \in [0 .. ring_capacity - 1 -> 0 .. MaxChunks]
      BY <2>1
    <2>3. ingress \in Impl
      BY <2>1, <2>2, Zenon DEF Impl
    <2>4. mailbox \in Seq(1 .. MaxChunks)
      OBVIOUS
    <2> QED BY <2>1, <2>3, <2>4, Zenon DEF IngressTypeOK
  <1>2. CreditMatches /\ RoomForCredit
    BY DEF CreditMatches, RoomForCredit
  <1>5. Accounting
    <2>1. /\ ingress.received = 0 /\ ingress.delivered = 0
          /\ ingress.pending = 0 /\ ingress.cancelled = 0
      OBVIOUS
    <2> QED BY <2>1 DEF Accounting
  <1>3. RingInv /\ MailboxInv
    BY DEF RingInv, MailboxInv
  <1>4. ConnectionInv /\ DrainInv /\ LateInv
    BY DEF ConnectionInv, DrainInv, LateInv
  <1> QED BY <1>1, <1>2, <1>3, <1>4, <1>5 DEF IngressInv

\* A step that neither stores nor removes a chunk and keeps the numbers of the
\* bridge keeps the invariant, if it keeps credit and connection in order.
LEMMA QuietStep ==
    ASSUME IngressAssumption, IngressInv,
           ingress' \in Impl, drain' = drain, UNCHANGED <<sent, mailbox, late>>,
           ingress'.rows = ingress.rows, ingress'.head = ingress.head,
           ingress'.pending = ingress.pending,
           ingress'.received = ingress.received,
           ingress'.delivered = ingress.delivered,
           ingress'.cancelled = ingress.cancelled,
           ingress'.first_error # "ENOBUFS",
           in_connection' \in {"none", "connecting", "connected", "closing", "closed",
                            "failed", "freed"},
           credit' \in BOOLEAN, CreditMatches',
           credit' => ingress.pending < ring_capacity,
           ConnectionInv'
    PROVE  IngressInv'
  <1>1. IngressTypeOK'
    BY DEF IngressInv, IngressTypeOK
  <1>2. RoomForCredit' /\ Accounting' /\ LateInv'
    BY DEF IngressInv, RoomForCredit, Accounting, LateInv
  <1>3. RingInv' /\ MailboxInv' /\ DrainInv'
    BY RingKept
  <1> QED BY <1>1, <1>2, <1>3 DEF IngressInv

\* The state callback of CNet (scxml_cnet_ingress_observe_state).
LEMMA ObserveStateKeeps ==
    ASSUME IngressAssumption, IngressInv,
           NEW state \in {"connected", "closing", "closed", "failed"},
           ingress_observe_state(state)
    PROVE  IngressInv'
  <1> USE DEF IngressInv
  <1>t. ingress \in Impl
    BY DEF IngressTypeOK
  <1>1. CASE state \in {"connected", "closing"}
    <2>1. ingress' \in Impl
      <3>1. \E c \in BOOLEAN : ingress' = [ingress EXCEPT !.connected = c]
        BY <1>1 DEF ingress_observe_state
      <3> QED BY <3>1, <1>t, ImplUpdate
    <2>2. /\ ingress'.rows = ingress.rows /\ ingress'.head = ingress.head
          /\ ingress'.pending = ingress.pending
          /\ ingress'.received = ingress.received
          /\ ingress'.delivered = ingress.delivered
          /\ ingress'.cancelled = ingress.cancelled
          /\ ingress'.first_error = ingress.first_error
          /\ ingress'.armed = ingress.armed /\ ingress'.bound = ingress.bound
          /\ ingress'.terminal = ingress.terminal
      BY <1>1, <1>t DEF ingress_observe_state, Impl
    <2>3. /\ in_connection' = state /\ credit' = credit
          /\ in_connection \in {"connecting", "connected"}
          /\ UNCHANGED <<drain, sent, mailbox, late>>
      BY <1>1 DEF ingress_observe_state
    <2>4. ConnectionInv'
      BY <2>2, <2>3, <1>1 DEF ConnectionInv
    <2>5. CreditMatches' /\ credit' \in BOOLEAN
      BY <2>2, <2>3 DEF CreditMatches, IngressTypeOK
    <2>6. /\ ingress'.first_error # "ENOBUFS"
          /\ credit' => ingress.pending < ring_capacity
      BY <2>2, <2>3 DEF RoomForCredit
    <2> QED BY <1>1, <2>1, <2>2, <2>3, <2>4, <2>5, <2>6, QuietStep
  <1>2. CASE state \in {"closed", "failed"}
    <2> DEFINE ended == [ingress EXCEPT !.connected = FALSE, !.armed = FALSE,
                                        !.terminal = TRUE]
    <2>1. ended \in Impl /\ "EIO" \in Errors
      BY <1>t, ImplUpdate DEF Errors
    <2>2. /\ ended.rows = ingress.rows /\ ended.head = ingress.head
          /\ ended.pending = ingress.pending /\ ended.received = ingress.received
          /\ ended.delivered = ingress.delivered
          /\ ended.cancelled = ingress.cancelled
          /\ ended.first_error = ingress.first_error
          /\ ended.armed = FALSE /\ ended.bound = ingress.bound
          /\ ended.terminal = TRUE
      BY <1>t DEF Impl
    <2>3. /\ ingress' = ended \/ ingress' = mark_failure(ended, "EIO")
          /\ credit' = FALSE /\ in_connection' = state
          /\ in_connection \in {"connecting", "connected", "closing"}
          /\ UNCHANGED <<drain, sent, mailbox, late>>
      BY <1>2 DEF ingress_observe_state, Ended
    <2> HIDE DEF ended
    <2>4. /\ ingress' \in Impl
          /\ ingress'.rows = ingress.rows /\ ingress'.head = ingress.head
          /\ ingress'.pending = ingress.pending
          /\ ingress'.received = ingress.received
          /\ ingress'.delivered = ingress.delivered
          /\ ingress'.cancelled = ingress.cancelled
          /\ ingress'.first_error \in {ingress.first_error, "EIO"}
          /\ ingress'.armed = FALSE /\ ingress'.bound = ingress.bound
          /\ ingress'.terminal = TRUE
      BY <2>1, <2>2, <2>3, MarkFailure
    <2>5. ConnectionInv' /\ CreditMatches'
      BY <2>3, <2>4, <1>2 DEF ConnectionInv, CreditMatches
    <2>6. ingress'.first_error # "ENOBUFS"
      BY <2>4 DEF RoomForCredit
    <2> QED BY <1>2, <2>3, <2>4, <2>5, <2>6, QuietStep
  <1> QED BY <1>1, <1>2

\* Storing a chunk puts it after all others (the copy into the ring in
\* scxml_cnet_ingress_observe_receive).
LEMMA StoringKeepsOrder ==
    ASSUME IngressAssumption, IngressInv, ingress.pending < ring_capacity,
           NEW i \in Impl, i.rows = ingress.rows, i.head = ingress.head,
           i.pending = ingress.pending,
           ingress' = Stored(i, sent + 1), sent' = sent + 1, sent < MaxChunks,
           UNCHANGED <<drain, mailbox>>
    PROVE  /\ ingress' \in Impl
           /\ ingress'.pending = ingress.pending + 1
           /\ RingInv' /\ MailboxInv' /\ DrainInv'
  <1> USE DEF IngressInv
  <1> DEFINE p == Pos(ingress.head, ingress.pending)
  <1>s. ingress \in Impl /\ sent \in 0 .. MaxChunks
    BY DEF IngressTypeOK
  <1>f. /\ ingress.rows \in [0 .. ring_capacity - 1 -> 0 .. MaxChunks]
        /\ ingress.head \in 0 .. ring_capacity - 1 /\ ingress.pending \in 0 .. ring_capacity
        /\ i.received \in Nat /\ ring_capacity \in Nat \ {0} /\ MaxChunks \in Nat
    BY <1>s, ImplFields
  <1>t. /\ sent \in Nat /\ sent + 1 \in 1 .. MaxChunks
        /\ ingress.head \in 0 .. ring_capacity - 1 /\ ingress.pending \in 0 .. ring_capacity - 1
        /\ ingress.rows \in [0 .. ring_capacity - 1 -> 0 .. MaxChunks]
        /\ i.received \in Nat /\ ring_capacity \in Nat \ {0} /\ MaxChunks \in Nat
    BY <1>s, <1>f
  <1>1. p \in 0 .. ring_capacity - 1
    BY <1>t, Positions
  <1>2. ingress' = [i EXCEPT !.rows = [ingress.rows EXCEPT ![p] = sent + 1],
                             !.pending = ingress.pending + 1,
                             !.received = i.received + 1]
    BY <1>t DEF Stored, Pos, Impl
  <1> HIDE DEF p
  <1>3. [ingress.rows EXCEPT ![p] = sent + 1] \in [0 .. ring_capacity - 1 -> 0 .. MaxChunks]
    BY <1>1, <1>t DEF IngressAssumption
  <1>4. ingress.pending + 1 \in 0 .. ring_capacity /\ i.received + 1 \in Nat
    BY <1>t, SMTT(30)
  <1>5. ingress' \in Impl
    BY <1>2, <1>3, <1>4, Zenon DEF Impl
  <1>6. /\ ingress'.rows = [ingress.rows EXCEPT ![p] = sent + 1]
        /\ ingress'.head = ingress.head
        /\ ingress'.pending = ingress.pending + 1
    BY <1>2 DEF Impl
  <1>p. \A k \in 1 .. ingress'.pending :
           k # ingress.pending + 1 => k \in 1 .. ingress.pending
    <2> DEFINE n == ingress.pending
    <2>1. n \in Nat /\ ingress'.pending = n + 1
      BY <1>6, <1>t
    <2> HIDE DEF n
    <2>2. \A k \in 1 .. n + 1 : k # n + 1 => k \in 1 .. n
      BY <2>1
    <2> QED BY <2>1, <2>2 DEF n
  <1>7. ASSUME NEW k \in 1 .. ingress.pending
        PROVE  At(ingress', k) = At(ingress, k)
    <2>1. k - 1 \in 0 .. ring_capacity - 1 /\ k - 1 # ingress.pending
      BY <1>t
    <2>2. Pos(ingress.head, k - 1) # p /\ Pos(ingress.head, k - 1) \in 0 .. ring_capacity - 1
      <3>1. /\ \A n \in 0 .. ring_capacity - 1 : Pos(ingress.head, n) \in 0 .. ring_capacity - 1
            /\ \A n, l \in 0 .. ring_capacity - 1 :
                 n # l => Pos(ingress.head, n) # Pos(ingress.head, l)
        BY <1>t, Positions, Zenon
      <3> QED BY <2>1, <1>t, <3>1, Zenon DEF p
    <2> QED BY <2>2, <1>6, <1>t DEF At
  <1>r. RingInv /\ MailboxInv
    OBVIOUS
  <1> HIDE DEF IngressInv
  <1>8. At(ingress', ingress.pending + 1) = sent + 1
    <2>1. (ingress.pending + 1) - 1 = ingress.pending
      BY <1>t
    <2>2. Pos(ingress.head, (ingress.pending + 1) - 1) = p
      BY <2>1 DEF p
    <2> QED BY <2>2, <1>1, <1>6, <1>t DEF At
  <1>9. RingInv'
    <2>1. \A k \in 1 .. ingress'.pending : At(ingress', k) \in 1 .. sent'
      <3> SUFFICES ASSUME NEW k \in 1 .. ingress'.pending
                   PROVE  At(ingress', k) \in 1 .. sent'
        OBVIOUS
      <3>1. CASE k = ingress.pending + 1
        <4>1. At(ingress', k) = sent + 1 /\ sent' = sent + 1
          BY <3>1, <1>8, Zenon
        <4>2. sent + 1 \in 1 .. sent + 1
          BY <1>t
        <4> QED BY <4>1, <4>2, Zenon
      <3>2. CASE k # ingress.pending + 1
        <4>1. k \in 1 .. ingress.pending
          BY <3>2, <1>p
        <4>2. At(ingress, k) \in 1 .. sent
          BY <4>1, <1>r DEF RingInv
        <4> QED BY <4>1, <4>2, <1>7, <1>t
      <3> QED BY <3>1, <3>2
    <2>2. \A k, l \in 1 .. ingress'.pending :
             k < l => At(ingress', k) < At(ingress', l)
      <3> SUFFICES ASSUME NEW k \in 1 .. ingress'.pending,
                          NEW l \in 1 .. ingress'.pending, k < l
                   PROVE  At(ingress', k) < At(ingress', l)
        OBVIOUS
      <3>1. k \in 1 .. ingress.pending /\ At(ingress, k) \in 1 .. sent
        <4>1. k # ingress.pending + 1
          BY <1>6, <1>t
        <4>2. k \in 1 .. ingress.pending
          BY <4>1, <1>p
        <4> QED BY <4>2, <1>r DEF RingInv
      <3>2. CASE l = ingress.pending + 1
        <4>1. At(ingress', l) = sent + 1 /\ At(ingress', k) = At(ingress, k)
          BY <3>1, <3>2, <1>7, <1>8
        <4> QED BY <3>1, <4>1, <1>t
      <3>3. CASE l # ingress.pending + 1
        <4>1. l \in 1 .. ingress.pending
          BY <3>3, <1>p
        <4>2. At(ingress, k) < At(ingress, l)
          BY <4>1, <3>1, <1>r DEF RingInv
        <4> QED BY <4>1, <4>2, <3>1, <1>7
      <3> QED BY <3>2, <3>3
    <2> QED BY <2>1, <2>2 DEF RingInv
  <1>10. MailboxInv'
    <2>0. \A n \in 1 .. Len(mailbox) : mailbox[n] \in 1 .. sent
      BY <1>r DEF MailboxInv
    <2>1. \A n \in 1 .. Len(mailbox) : mailbox[n] \in 1 .. sent'
      <3>1. \A c \in 1 .. sent : c \in 1 .. sent + 1
        BY <1>t
      <3>2. sent' = sent + 1
        OBVIOUS
      <3> QED BY <2>0, <3>1, <3>2, Zenon
    <2>2. ASSUME NEW n \in 1 .. Len(mailbox), NEW k \in 1 .. ingress'.pending
          PROVE  mailbox[n] < At(ingress', k)
      <3>1. CASE k = ingress.pending + 1
        <4>1. At(ingress', k) = sent + 1 /\ mailbox[n] \in 1 .. sent
          BY <2>0, <3>1, <1>8, Zenon
        <4>2. \A c \in 1 .. sent : c < sent + 1
          BY <1>t
        <4> QED BY <4>1, <4>2, Zenon
      <3>2. CASE k # ingress.pending + 1
        <4>1. k \in 1 .. ingress.pending
          BY <3>2, <1>p
        <4>2. mailbox[n] < At(ingress, k)
          BY <4>1, <1>r DEF MailboxInv
        <4> QED BY <4>1, <4>2, <1>7
      <3> QED BY <3>1, <3>2
    <2> QED BY <1>r, <2>1, <2>2 DEF MailboxInv
  <1>11. DrainInv'
    BY <1>6, <1>t DEF DrainInv, IngressInv
  <1> QED BY <1>5, <1>6, <1>9, <1>10, <1>11

\* The receive callback of CNet: with the credit given, there is a row for the
\* chunk, and what is not stored is counted or marked as a failure.
LEMMA ObserveReceiveKeeps ==
    ASSUME IngressAssumption, IngressInv, NEW size, NEW kind,
           observe_receive(size, kind)
    PROVE  IngressInv'
  <1> USE DEF IngressInv
  <1> DEFINE taken == [ingress EXCEPT !.armed = FALSE]
  <1>s. ingress \in Impl /\ sent \in 0 .. MaxChunks /\ late \in 0 .. MaxChunks
    BY DEF IngressTypeOK
  <1>f. /\ ingress.received \in Nat /\ ingress.delivered \in Nat
        /\ ingress.cancelled \in Nat /\ ingress.pending \in 0 .. ring_capacity
        /\ ingress.closed \in BOOLEAN
        /\ ring_capacity \in Nat \ {0} /\ MaxChunks \in Nat
    BY <1>s, ImplFields
  <1>1. /\ ingress.armed /\ ingress.pending < ring_capacity
        /\ credit' = FALSE /\ sent' = sent + 1 /\ sent < MaxChunks
        /\ in_connection \in {"connected", "closing"}
        /\ ingress' = Received(size, kind)
        /\ late' = IF ingress.closed THEN late + 1 ELSE late
        /\ UNCHANGED <<drain, in_connection, mailbox>>
    BY DEF observe_receive, CreditMatches, RoomForCredit
  <1>2. taken \in Impl
    BY <1>s, ImplUpdate
  <1>3. /\ taken.rows = ingress.rows /\ taken.head = ingress.head
        /\ taken.pending = ingress.pending /\ taken.received = ingress.received
        /\ taken.delivered = ingress.delivered /\ taken.cancelled = ingress.cancelled
        /\ taken.first_error = ingress.first_error /\ taken.armed = FALSE
        /\ taken.closed = ingress.closed
        /\ taken.bound = ingress.bound /\ taken.terminal = ingress.terminal
    BY <1>s DEF Impl
  <1>4. \/ ingress.closed /\ ingress' = [taken EXCEPT !.cancelled = @ + 1]
        \/ /\ ~ingress.closed
           /\ \/ ingress' = mark_failure(taken, "EPROTO")
              \/ ingress' = mark_failure(taken, "EMSGSIZE")
              \/ ingress' = Stored(taken, sent + 1)
    BY <1>1, <1>f DEF Received
  <1> HIDE DEF taken
  <1>5. late' \in 0 .. MaxChunks /\ LateInv'
    BY <1>1, <1>s, <1>f DEF LateInv
  <1>6. ConnectionInv' /\ CreditMatches'
        /\ ingress'.first_error # "ENOBUFS" /\ ingress' \in Impl
        /\ Accounting' /\ RingInv' /\ MailboxInv' /\ DrainInv'
    <2>1. CASE ingress.closed /\ ingress' = [taken EXCEPT !.cancelled = @ + 1]
      <3>1. ingress.cancelled + 1 \in Nat
        BY <1>f
      <3>2. ingress' \in Impl
        BY <2>1, <1>2, <1>3, <3>1, Zenon DEF Impl
      <3>3. /\ ingress'.rows = ingress.rows /\ ingress'.head = ingress.head
            /\ ingress'.pending = ingress.pending
            /\ ingress'.received = ingress.received
            /\ ingress'.delivered = ingress.delivered
            /\ ingress'.cancelled = ingress.cancelled + 1
            /\ ingress'.first_error = ingress.first_error /\ ingress'.armed = FALSE
            /\ ingress'.bound = ingress.bound /\ ingress'.terminal = ingress.terminal
        BY <2>1, <1>2, <1>3 DEF Impl
      <3>4. RingInv' /\ MailboxInv' /\ DrainInv'
        BY <3>3, <1>1, RingKept
      <3>5. Accounting'
        BY <3>3, <1>1, <1>f, <1>s, <2>1 DEF Accounting
      <3>6. ConnectionInv' /\ CreditMatches'
        BY <3>3, <1>1 DEF ConnectionInv, CreditMatches
      <3> QED BY <3>2, <3>3, <3>4, <3>5, <3>6 DEF RoomForCredit
    <2>2. ASSUME NEW e \in {"EPROTO", "EMSGSIZE"}, ~ingress.closed,
                 ingress' = mark_failure(taken, e)
          PROVE  ConnectionInv' /\ CreditMatches'
                 /\ ingress'.first_error # "ENOBUFS" /\ ingress' \in Impl
                 /\ Accounting' /\ RingInv' /\ MailboxInv' /\ DrainInv'
      <3>0. e \in Errors
        BY DEF Errors
      <3>1. /\ ingress' \in Impl
            /\ ingress'.rows = ingress.rows /\ ingress'.head = ingress.head
            /\ ingress'.pending = ingress.pending
            /\ ingress'.received = ingress.received
            /\ ingress'.delivered = ingress.delivered
            /\ ingress'.cancelled = ingress.cancelled
            /\ ingress'.first_error \in {ingress.first_error, e}
            /\ ingress'.armed = FALSE
            /\ ingress'.bound = ingress.bound /\ ingress'.terminal = ingress.terminal
        BY <2>2, <3>0, <1>2, <1>3, MarkFailure
      <3>2. RingInv' /\ MailboxInv' /\ DrainInv'
        BY <3>1, <1>1, RingKept
      <3>3. Accounting'
        BY <3>1, <1>1, <2>2 DEF Accounting
      <3>4. ConnectionInv' /\ CreditMatches'
        BY <3>1, <1>1 DEF ConnectionInv, CreditMatches
      <3> QED BY <3>1, <3>2, <3>3, <3>4 DEF RoomForCredit
    <2>3. CASE ~ingress.closed /\ ingress' = Stored(taken, sent + 1)
      <3>1. /\ ingress' \in Impl
            /\ ingress'.pending = ingress.pending + 1
            /\ RingInv' /\ MailboxInv' /\ DrainInv'
        BY <2>3, <1>1, <1>2, <1>3, StoringKeepsOrder
      <3>2. /\ ingress'.received = ingress.received + 1
            /\ ingress'.delivered = ingress.delivered
            /\ ingress'.cancelled = ingress.cancelled
            /\ ingress'.first_error = ingress.first_error /\ ingress'.armed = FALSE
            /\ ingress'.bound = ingress.bound /\ ingress'.terminal = ingress.terminal
        BY <2>3, <1>2, <1>3 DEF Stored, Impl
      <3>3. Accounting'
        BY <3>1, <3>2, <1>1, <1>f, <1>s, <2>3 DEF Accounting
      <3>4. ConnectionInv' /\ CreditMatches'
        BY <3>2, <1>1 DEF ConnectionInv, CreditMatches
      <3> QED BY <3>1, <3>2, <3>3, <3>4 DEF RoomForCredit
    <2> QED BY <1>4, <2>1, <2>2, <2>3
  <1>7. IngressTypeOK'
    <2>1. /\ sent + 1 \in 0 .. MaxChunks /\ credit' \in BOOLEAN
          /\ ingress' \in Impl /\ late' \in 0 .. MaxChunks
      <3>1. sent + 1 \in 0 .. MaxChunks
        BY <1>1, <1>s, <1>f
      <3> QED BY <3>1, <1>1, <1>5, <1>6, Zenon
    <2>2. /\ drain' \in 0 .. max_events /\ mailbox' \in Seq(1 .. MaxChunks)
          /\ in_connection' \in {"none", "connecting", "connected", "closing", "closed",
                              "failed", "freed"}
      BY <1>1 DEF IngressTypeOK
    <2> QED BY <1>1, <2>1, <2>2, Zenon DEF IngressTypeOK
  <1>8. RoomForCredit'
    BY <1>1, <1>6 DEF RoomForCredit
  <1> QED BY <1>5, <1>6, <1>7, <1>8

\* The calls of the host that do not move chunks.
LEMMA BindKeeps ==
    ASSUME IngressAssumption, IngressInv, ingress_bind
    PROVE  IngressInv'
  <1> USE DEF IngressInv
  <1>s. ingress \in Impl
    BY DEF IngressTypeOK
  <1>1. ingress' \in Impl
    BY <1>s, ImplUpdate DEF ingress_bind
  <1>2. /\ ingress'.rows = ingress.rows /\ ingress'.head = ingress.head
        /\ ingress'.pending = ingress.pending
        /\ ingress'.received = ingress.received
        /\ ingress'.delivered = ingress.delivered
        /\ ingress'.cancelled = ingress.cancelled
        /\ ingress'.first_error = ingress.first_error
        /\ ingress'.armed = ingress.armed /\ ingress'.bound = TRUE
        /\ ingress'.terminal = ingress.terminal
    BY <1>s DEF ingress_bind, Impl
  <1>3. ConnectionInv'
    BY <1>2 DEF ingress_bind, ConnectionInv
  <1>4. CreditMatches' /\ credit' \in BOOLEAN
    BY <1>2 DEF ingress_bind, CreditMatches, IngressTypeOK
  <1>5. /\ ingress'.first_error # "ENOBUFS"
        /\ credit' => ingress.pending < ring_capacity
    BY <1>2 DEF ingress_bind, RoomForCredit
  <1> QED BY <1>1, <1>2, <1>3, <1>4, <1>5, QuietStep DEF ingress_bind

\* arm.
LEMMA ArmKeeps ==
    ASSUME IngressAssumption, IngressInv, NEW accepted \in BOOLEAN, arm(accepted)
    PROVE  IngressInv'
  <1> USE DEF IngressInv
  <1>s. ingress \in Impl
    BY DEF IngressTypeOK
  <1>1. ingress' \in Impl
    BY <1>s, ImplUpdate DEF arm
  <1>2. /\ ingress'.rows = ingress.rows /\ ingress'.head = ingress.head
        /\ ingress'.pending = ingress.pending
        /\ ingress'.received = ingress.received
        /\ ingress'.delivered = ingress.delivered
        /\ ingress'.cancelled = ingress.cancelled
        /\ ingress'.first_error = ingress.first_error
        /\ ingress'.armed = accepted /\ ingress'.bound = ingress.bound
        /\ ingress'.terminal = ingress.terminal
    BY <1>s DEF arm, Impl
  <1>3. ConnectionInv' /\ CreditMatches'
    BY <1>2 DEF arm, ConnectionInv, CreditMatches
  <1>4. ingress.pending < ring_capacity
    BY <1>s, ImplFields DEF arm
  <1>5. ingress'.first_error # "ENOBUFS"
    BY <1>2 DEF RoomForCredit
  <1>6. in_connection' = in_connection /\ credit' = accepted
        /\ UNCHANGED <<drain, sent, mailbox, late>>
    BY DEF arm
  <1>7. in_connection \in {"none", "connecting", "connected", "closing", "closed",
                        "failed", "freed"}
    BY DEF IngressTypeOK
  <1> QED BY <1>1, <1>2, <1>3, <1>4, <1>5, <1>6, <1>7, QuietStep

\* Beginning a drain, and the two ways it stops before the ring is empty.
LEMMA DrainStopsKeep ==
    ASSUME IngressAssumption, IngressInv,
           \/ \E n \in 1 .. max_events : drain_begin(n)
           \/ drain_full \/ drain_refused
    PROVE  IngressInv'
  <1> USE DEF IngressInv
  <1>s. /\ ingress \in Impl /\ "EPROTO" \in Errors /\ max_events \in Nat \ {0}
        /\ ingress.pending \in 0 .. ring_capacity /\ ring_capacity \in Nat \ {0}
    BY ImplFields DEF IngressTypeOK, Errors, IngressAssumption
  <1>1. /\ drain' \in 0 .. max_events /\ (drain' > 0 => ingress.pending > 0)
        /\ ingress' = ingress \/ ingress' = mark_failure(ingress, "EPROTO")
        /\ UNCHANGED <<in_connection, credit, sent, mailbox, late>>
    BY <1>s DEF drain_begin, drain_full, drain_refused
  <1>2. /\ ingress' \in Impl
        /\ ingress'.rows = ingress.rows /\ ingress'.head = ingress.head
        /\ ingress'.pending = ingress.pending
        /\ ingress'.received = ingress.received
        /\ ingress'.delivered = ingress.delivered
        /\ ingress'.cancelled = ingress.cancelled
        /\ ingress'.first_error \in {ingress.first_error, "EPROTO"}
        /\ ingress'.armed = ingress.armed /\ ingress'.bound = ingress.bound
        /\ ingress'.terminal = ingress.terminal
    BY <1>1, <1>s, MarkFailure
  <1>3. \A k : At(ingress', k) = At(ingress, k)
    BY <1>2 DEF At
  <1>4. RingInv' /\ MailboxInv'
    BY <1>1, <1>2, <1>3 DEF RingInv, MailboxInv
  <1>5. DrainInv' /\ LateInv' /\ ConnectionInv'
    BY <1>1, <1>2 DEF DrainInv, LateInv, ConnectionInv
  <1>6. CreditMatches' /\ RoomForCredit' /\ Accounting'
    BY <1>1, <1>2 DEF CreditMatches, RoomForCredit, Accounting
  <1>7. IngressTypeOK'
    BY <1>1, <1>2 DEF IngressTypeOK
  <1> QED BY <1>4, <1>5, <1>6, <1>7

\* The Session accepts the head row: the ring moves on by one row, and what it
\* stores still follows what the mailbox has.
LEMMA DrainOneKeeps ==
    ASSUME IngressAssumption, IngressInv, drain_one
    PROVE  IngressInv'
  <1> USE DEF IngressInv
  <1> DEFINE h == Pos(ingress.head, 1)
             n == Len(mailbox)
             c == At(ingress, 1)
  <1>s. ingress \in Impl /\ sent \in 0 .. MaxChunks /\ mailbox \in Seq(1 .. MaxChunks)
        /\ drain \in 0 .. max_events /\ late \in 0 .. MaxChunks
    BY DEF IngressTypeOK
  <1>f. /\ ingress.rows \in [0 .. ring_capacity - 1 -> 0 .. MaxChunks]
        /\ ingress.head \in 0 .. ring_capacity - 1 /\ ingress.pending \in 0 .. ring_capacity
        /\ ingress.received \in Nat /\ ingress.delivered \in Nat
        /\ ingress.cancelled \in Nat
        /\ ring_capacity \in Nat \ {0} /\ MaxChunks \in Nat /\ max_events \in Nat
    BY <1>s, ImplFields DEF IngressAssumption
  <1>1. /\ drain > 0 /\ ingress.pending > 0
        /\ mailbox' = Append(mailbox, ingress.rows[ingress.head])
        /\ ingress' = Advanced(ingress)
        /\ drain' = IF ingress.pending = 1 THEN 0 ELSE drain - 1
        /\ UNCHANGED <<in_connection, credit, sent, late>>
    BY DEF drain_one, DrainInv
  <1>2. /\ h \in 0 .. ring_capacity - 1 /\ Pos(ingress.head, 0) = ingress.head
        /\ \A k \in 0 .. ring_capacity - 1 : Pos(h, k) = Pos(ingress.head, k + 1)
    BY <1>f, Positions
  <1>3. c = ingress.rows[ingress.head] /\ c \in 1 .. sent
    <2>1. 1 \in 1 .. ingress.pending /\ 1 - 1 = 0
      BY <1>1, <1>f
    <2>2. c = ingress.rows[ingress.head]
      BY <1>2, <2>1 DEF At
    <2> QED BY <2>1, <2>2 DEF RingInv
  <1>4. ingress' = [ingress EXCEPT !.rows = [ingress.rows EXCEPT ![ingress.head] = NoChunk],
                                   !.head = h, !.pending = ingress.pending - 1,
                                   !.delivered = ingress.delivered + 1]
    BY <1>1, <1>s DEF Advanced, Pos, Impl
  <1>5. /\ [ingress.rows EXCEPT ![ingress.head] = NoChunk]
               \in [0 .. ring_capacity - 1 -> 0 .. MaxChunks]
        /\ ingress.pending - 1 \in 0 .. ring_capacity /\ ingress.delivered + 1 \in Nat
    <2>1. NoChunk \in 0 .. MaxChunks
      BY <1>f DEF NoChunk
    <2>2. ingress.pending - 1 \in 0 .. ring_capacity /\ ingress.delivered + 1 \in Nat
      <3>1. \A p \in 0 .. ring_capacity, d \in Nat :
               p > 0 => p - 1 \in 0 .. ring_capacity /\ d + 1 \in Nat
        BY <1>f
      <3> QED BY <3>1, <1>1, <1>f
    <2> QED BY <1>f, <2>1, <2>2
  <1> HIDE DEF h, c
  <1>6. ingress' \in Impl
    BY <1>2, <1>4, <1>5, <1>s, Zenon DEF Impl
  <1>7. /\ ingress'.rows = [ingress.rows EXCEPT ![ingress.head] = NoChunk]
        /\ ingress'.head = h /\ ingress'.pending = ingress.pending - 1
        /\ ingress'.delivered = ingress.delivered + 1
        /\ ingress'.received = ingress.received
        /\ ingress'.cancelled = ingress.cancelled
        /\ ingress'.first_error = ingress.first_error
        /\ ingress'.armed = ingress.armed /\ ingress'.bound = ingress.bound
        /\ ingress'.terminal = ingress.terminal
    BY <1>4, <1>s DEF Impl
  <1>8. ASSUME NEW k \in 1 .. ingress'.pending
        PROVE  /\ At(ingress', k) = At(ingress, k + 1)
               /\ k + 1 \in 1 .. ingress.pending
    <2>1. /\ k \in Nat /\ k - 1 \in 0 .. ring_capacity - 1 /\ (k - 1) + 1 = k
          /\ k \in 0 .. ring_capacity - 1 /\ (k + 1) - 1 = k /\ k # 0
          /\ 0 \in 0 .. ring_capacity - 1 /\ k + 1 \in 1 .. ingress.pending
      BY <1>7, <1>f, <1>1, SMTT(30)
    <2>2. Pos(h, k - 1) = Pos(ingress.head, k)
      BY <2>1, <1>2
    <2>3. Pos(ingress.head, k) # ingress.head /\ Pos(ingress.head, k) \in 0 .. ring_capacity - 1
      <3>1. Pos(ingress.head, k) # Pos(ingress.head, 0)
        <4>1. \A a, b \in 0 .. ring_capacity - 1 :
                 a # b => Pos(ingress.head, a) # Pos(ingress.head, b)
          BY <1>f, Positions
        <4> QED BY <4>1, <2>1, Zenon
      <3> QED BY <3>1, <2>1, <1>2, <1>f, Positions
    <2>4. At(ingress', k) = ingress.rows[Pos(ingress.head, k)]
      BY <2>2, <2>3, <1>7, <1>f DEF At
    <2> QED BY <2>1, <2>4 DEF At
  <1>9. RingInv'
    <2>1. ASSUME NEW k \in 1 .. ingress'.pending
          PROVE  At(ingress', k) \in 1 .. sent'
      BY <1>8, <1>1 DEF RingInv
    <2>2. ASSUME NEW k \in 1 .. ingress'.pending, NEW l \in 1 .. ingress'.pending, k < l
          PROVE  At(ingress', k) < At(ingress', l)
      <3>1. k + 1 < l + 1
        BY <2>2, <1>7, <1>f
      <3>2. At(ingress, k + 1) < At(ingress, l + 1)
        BY <3>1, <1>8 DEF RingInv
      <3> QED BY <3>2, <1>8
    <2> QED BY <2>1, <2>2 DEF RingInv
  <1>10. /\ Len(mailbox') = n + 1 /\ n \in Nat /\ mailbox'[n + 1] = c
         /\ \A m \in 1 .. n : mailbox'[m] = mailbox[m]
         /\ mailbox' \in Seq(1 .. MaxChunks)
    <2>1. c \in 1 .. MaxChunks /\ mailbox' = Append(mailbox, c)
      BY <1>1, <1>3, <1>s, <1>f, SMTT(30)
    <2> QED BY <2>1, <1>s
  <1> HIDE DEF n
  <1>11. MailboxInv'
    <2>0. ASSUME NEW m \in 1 .. n
          PROVE  mailbox'[m] \in 1 .. sent /\ mailbox'[m] < c
      <3>1. 1 \in 1 .. ingress.pending
        BY <1>1, <1>f
      <3> QED BY <3>1, <1>10 DEF MailboxInv, c, n
    <2>1. ASSUME NEW m \in 1 .. n + 1 PROVE mailbox'[m] \in 1 .. sent'
      <3>1. m = n + 1 \/ m \in 1 .. n
        BY <1>10
      <3> QED BY <3>1, <2>0, <1>3, <1>1, <1>10
    <2>2. ASSUME NEW l \in 1 .. n + 1, NEW m \in 1 .. n + 1, l < m
          PROVE  mailbox'[l] < mailbox'[m]
      <3>1. l \in 1 .. n /\ (m = n + 1 \/ m \in 1 .. n)
        BY <2>2, <1>10
      <3>2. CASE m = n + 1
        BY <3>1, <3>2, <2>0, <1>10
      <3>3. CASE m \in 1 .. n
        BY <3>1, <3>3, <2>2, <1>10 DEF MailboxInv, n
      <3> QED BY <3>1, <3>2, <3>3
    <2>3. ASSUME NEW m \in 1 .. n + 1, NEW k \in 1 .. ingress'.pending
          PROVE  mailbox'[m] < At(ingress', k)
      <3>1. m = n + 1 \/ m \in 1 .. n
        BY <1>10
      <3>2. 1 \in 1 .. ingress.pending /\ 1 < k + 1 /\ k + 1 \in 1 .. ingress.pending
        BY <1>1, <1>f, <1>7, <1>8
      <3>3. CASE m = n + 1
        <4>1. At(ingress, 1) < At(ingress, k + 1)
          BY <3>2 DEF RingInv
        <4> QED BY <3>3, <4>1, <1>8, <1>10 DEF c
      <3>4. CASE m \in 1 .. n
        BY <3>2, <3>4, <1>8, <1>10 DEF MailboxInv, n
      <3> QED BY <3>1, <3>3, <3>4
    <2> QED BY <2>1, <2>2, <2>3, <1>10 DEF MailboxInv
  <1>12. DrainInv' /\ drain' \in 0 .. max_events
    BY <1>1, <1>7, <1>f, <1>s DEF DrainInv
  <1>13. LateInv' /\ ConnectionInv' /\ CreditMatches'
    BY <1>1, <1>7 DEF LateInv, ConnectionInv, CreditMatches
  <1>14. RoomForCredit' /\ Accounting'
    <2>1. RoomForCredit'
      <3>1. credit' = credit /\ (ingress.pending < ring_capacity => ingress.pending - 1 < ring_capacity)
        BY <1>1, <1>f
      <3> QED BY <3>1, <1>7 DEF RoomForCredit
    <2>2. late \in Nat /\ late' = late
      BY <1>1, <1>f, <1>s
    <2>3. Accounting'
      <3> DEFINE r == ingress.received
                 d == ingress.delivered
                 p == ingress.pending
                 q == ingress.cancelled
      <3>1. r \in Nat /\ d \in Nat /\ p \in Nat /\ q \in Nat /\ r + late = d + p + q
        BY <1>f DEF Accounting
      <3>2. /\ ingress'.received = r /\ ingress'.delivered = d + 1
            /\ ingress'.pending = p - 1 /\ ingress'.cancelled = q
        BY <1>7
      <3> HIDE DEF r, d, p, q
      <3>3. r + late = (d + 1) + (p - 1) + q
        BY <3>1, <2>2
      <3> QED BY <3>2, <3>3, <2>2, Zenon DEF Accounting
    <2> QED BY <2>1, <2>3
  <1>15. IngressTypeOK'
    <2>1. /\ sent' \in 0 .. MaxChunks /\ late' \in 0 .. MaxChunks /\ credit' \in BOOLEAN
          /\ in_connection' \in {"none", "connecting", "connected", "closing", "closed",
                              "failed", "freed"}
      BY <1>1 DEF IngressTypeOK
    <2> QED BY <2>1, <1>6, <1>10, <1>12, Zenon DEF IngressTypeOK
  <1> QED BY <1>9, <1>11, <1>12, <1>13, <1>14, <1>15

\* close empties the ring and counts what it held as cancelled.
LEMMA CloseKeeps ==
    ASSUME IngressAssumption, IngressInv, close
    PROVE  IngressInv'
  <1> USE DEF IngressInv
  <1>s. ingress \in Impl /\ late \in 0 .. MaxChunks /\ sent \in 0 .. MaxChunks
    BY DEF IngressTypeOK
  <1>f. /\ ingress.pending \in 0 .. ring_capacity
        /\ ingress.received \in Nat /\ ingress.delivered \in Nat
        /\ ingress.cancelled \in Nat
        /\ ring_capacity \in Nat \ {0} /\ MaxChunks \in Nat
    BY <1>s, ImplFields
  <1>1. /\ ingress' = [ingress EXCEPT !.closed = TRUE,
                         !.cancelled = ingress.cancelled + ingress.pending,
                         !.rows = [i \in 0 .. ring_capacity - 1 |-> NoChunk],
                         !.pending = 0, !.head = 0]
        /\ drain = 0 /\ UNCHANGED <<drain, in_connection, credit, sent, mailbox, late>>
    BY <1>s DEF close, Idle, Impl
  <1>2. /\ ingress.cancelled + ingress.pending \in Nat
        /\ [i \in 0 .. ring_capacity - 1 |-> NoChunk] \in [0 .. ring_capacity - 1 -> 0 .. MaxChunks]
        /\ 0 \in 0 .. ring_capacity /\ 0 \in 0 .. ring_capacity - 1
    BY <1>f DEF NoChunk
  <1>3. ingress' \in Impl
    BY <1>1, <1>2, <1>s, Zenon DEF Impl
  <1>4. /\ ingress'.pending = 0
        /\ ingress'.delivered = ingress.delivered
        /\ ingress'.received = ingress.received
        /\ ingress'.cancelled = ingress.cancelled + ingress.pending
        /\ ingress'.first_error = ingress.first_error
        /\ ingress'.armed = ingress.armed /\ ingress'.bound = ingress.bound
        /\ ingress'.terminal = ingress.terminal
    BY <1>1, <1>s DEF Impl
  <1>5. RingInv' /\ MailboxInv'
    BY <1>1, <1>4 DEF RingInv, MailboxInv
  <1>6. DrainInv' /\ LateInv' /\ ConnectionInv' /\ CreditMatches'
    BY <1>1, <1>4 DEF DrainInv, LateInv, ConnectionInv, CreditMatches
  <1>7. RoomForCredit' /\ Accounting'
    BY <1>1, <1>4, <1>f, <1>s DEF RoomForCredit, Accounting
  <1>8. IngressTypeOK'
    BY <1>1, <1>3 DEF IngressTypeOK
  <1> QED BY <1>5, <1>6, <1>7, <1>8

\* destroy frees a quiescent bridge.
LEMMA DestroyKeeps ==
    ASSUME IngressAssumption, IngressInv, destroy
    PROVE  IngressInv'
  <1> USE DEF IngressInv
  <1>0. \/ in_connection' = in_connection
        \/ in_connection \in {"none", "closed", "failed"} /\ in_connection' = "freed"
    BY Zenon DEF destroy
  <1>1. UNCHANGED <<ingress, drain, credit, sent, mailbox, late>>
    BY Zenon DEF destroy
  <1>2. ConnectionInv' /\ IngressTypeOK'
    BY <1>0, <1>1 DEF ConnectionInv, IngressTypeOK
  <1>3. CreditMatches' /\ RoomForCredit' /\ Accounting' /\ LateInv' /\ DrainInv'
    BY <1>1 DEF CreditMatches, RoomForCredit, Accounting, LateInv, DrainInv
  <1>4. RingInv' /\ MailboxInv'
    BY <1>1 DEF RingInv, MailboxInv, At
  <1> QED BY <1>2, <1>3, <1>4

\* No step changes what the invariant says.
LEMMA IngressStep ==
    ASSUME IngressAssumption, IngressInv, [IngressNext]_ingressVars
    PROVE  IngressInv'
  <1>1. CASE UNCHANGED ingressVars
    BY <1>1 DEF ingressVars, IngressInv, IngressTypeOK, CreditMatches, RoomForCredit, Accounting,
                LateInv, RingInv, MailboxInv, At, ConnectionInv, DrainInv
  <1>2. CASE \E state \in {"connected", "closing"} : ingress_observe_state(state)
    BY <1>2, ObserveStateKeeps
  <1>3. CASE IngressEndOfConnection
    BY <1>3, ObserveStateKeeps DEF IngressEndOfConnection
  <1>4. CASE \E size \in 0 .. max_chunk_bytes + 1, kind \in {"bytes", "text"} :
                observe_receive(size, kind)
    BY <1>4, ObserveReceiveKeeps
  <1>5. CASE \E accepted \in BOOLEAN : arm(accepted)
    BY <1>5, ArmKeeps
  <1>6. CASE \E n \in 1 .. max_events : drain_begin(n)
    BY <1>6, DrainStopsKeep
  <1>7. CASE Drain
    BY <1>7, DrainStopsKeep, DrainOneKeeps DEF Drain
  <1> QED BY <1>1, <1>2, <1>3, <1>4, <1>5, <1>6, <1>7, BindKeeps, CloseKeeps, DestroyKeeps
          DEF IngressNext

\* A function on the first numbers is a sequence of that length.
LEMMA FunctionIsSeq ==
    ASSUME NEW S, NEW p \in Nat, NEW f \in [1 .. p -> S]
    PROVE  f \in Seq(S) /\ Len(f) = p
  OBVIOUS

\* Where the elements of a concatenation come from.
LEMMA Concatenation ==
    ASSUME NEW S, NEW a \in Seq(S), NEW b \in Seq(S)
    PROVE  /\ Len(a \o b) = Len(a) + Len(b)
           /\ \A i \in 1 .. Len(a) : (a \o b)[i] = a[i]
           /\ \A i \in 1 .. Len(a) + Len(b) : i > Len(a) => (a \o b)[i] = b[i - Len(a)]
  OBVIOUS

\* The invariant gives the order of the chunks and the safe release of the
\* storage.
LEMMA IngressConsequences ==
    ASSUME IngressAssumption, IngressInv
    PROVE  IngressSound
  <1> USE DEF IngressInv
  <1>1. FreedAfterEnd
    BY DEF FreedAfterEnd, is_quiescent, ConnectionInv
  <1>2. FifoDelivery
    <2> DEFINE stored == [k \in 1 .. ingress.pending |->
                            ingress.rows[(ingress.head + k - 1) % ring_capacity]]
               all == mailbox \o stored
               n == Len(mailbox)
               p == ingress.pending
    <2>s. ingress \in Impl /\ mailbox \in Seq(1 .. MaxChunks) /\ sent \in 0 .. MaxChunks
      BY DEF IngressTypeOK
    <2>f. /\ p \in 0 .. ring_capacity /\ ring_capacity \in Nat \ {0} /\ n \in Nat
          /\ p \in Nat /\ MaxChunks \in Nat /\ ingress.head \in 0 .. ring_capacity - 1
      BY <2>s, ImplFields
    <2>1. ASSUME NEW k \in 1 .. p
          PROVE  stored[k] = At(ingress, k) /\ At(ingress, k) \in 1 .. sent
      <3>1. ingress.head + k - 1 = ingress.head + (k - 1)
        BY <2>f
      <3>2. stored[k] = At(ingress, k)
        BY <3>1 DEF At, Pos
      <3> QED BY <3>2 DEF RingInv
    <2>2. stored \in Seq(1 .. MaxChunks) /\ Len(stored) = p
      <3>0. stored = [k \in 1 .. p |-> stored[k]]
        OBVIOUS
      <3> HIDE DEF stored, p
      <3>2. \A k \in 1 .. p : stored[k] \in 1 .. MaxChunks
        BY <2>1, <2>s, <2>f
      <3>1. stored \in [1 .. p -> 1 .. MaxChunks]
        BY <3>0, <3>2
      <3> QED BY <3>1, <2>f, FunctionIsSeq
    <2> HIDE DEF stored, p, n
    <2>3. /\ Len(all) = n + p
          /\ \A i \in 1 .. n : all[i] = mailbox[i]
          /\ \A i \in 1 .. n + p : i > n => all[i] = stored[i - n]
      <3>1. stored \in Seq(1 .. MaxChunks) /\ mailbox \in Seq(1 .. MaxChunks)
        BY <2>2, <2>s
      <3> QED BY <3>1, <2>2, Concatenation DEF n
    <2> HIDE DEF all
    <2>4. ASSUME NEW i \in 1 .. n + p, NEW j \in 1 .. n + p, i < j
          PROVE  all[i] < all[j] /\ all[i] # NoChunk
      <3>1. (i \in 1 .. n \/ (i > n /\ i - n \in 1 .. p))
            /\ (j \in 1 .. n \/ (j > n /\ j - n \in 1 .. p))
        BY <2>f
      <3>2. CASE i \in 1 .. n /\ j \in 1 .. n
        BY <3>2, <2>3, <2>4, <2>s DEF MailboxInv, n, NoChunk
      <3>3. CASE i \in 1 .. n /\ j > n /\ j - n \in 1 .. p
        <4>1. all[i] = mailbox[i] /\ all[j] = At(ingress, j - n)
          BY <3>3, <2>1, <2>3
        <4> QED BY <4>1, <3>3 DEF MailboxInv, n, p, NoChunk
      <3>4. CASE i > n /\ i - n \in 1 .. p /\ j > n /\ j - n \in 1 .. p
        <4>1. all[i] = At(ingress, i - n) /\ all[j] = At(ingress, j - n)
          BY <3>4, <2>1, <2>3
        <4>2. i - n < j - n
          BY <2>4, <2>f
        <4> QED BY <4>1, <4>2, <3>4, <2>1 DEF RingInv, p, NoChunk
      <3> QED BY <3>1, <3>2, <3>3, <3>4, <2>4, <2>f
    <2> QED BY <2>3, <2>4 DEF FifoDelivery, all, stored
  <1> QED BY <1>1, <1>2 DEF IngressSound

-----------------------------------------------------------------------------
(* The theorems. *)

\* The inductive invariant: the ring, read from its head, continues what the
\* mailbox has taken, and credit, counters and connection agree.
THEOREM IngressInvariant == IngressAssumption => (IngressSpec => []IngressInv)
  <1> SUFFICES ASSUME IngressAssumption PROVE IngressSpec => []IngressInv
    OBVIOUS
  <1>1. IngressInit => IngressInv
    BY InitialIngress
  <1>2. IngressInv /\ [IngressNext]_ingressVars => IngressInv'
    BY IngressStep
  <1> QED BY <1>1, <1>2, PTL DEF IngressSpec

\* Whatever the size of the ring and however drains and callbacks interleave,
\* the bridge and CNet agree about the credit, a chunk that CNet was asked for
\* finds a row, the Session gets the chunks in order, each is accounted for, and
\* the storage is not freed while CNet may call back (scxml_cnet_ingress.c).
THEOREM IngressCorrect == IngressAssumption => (IngressSpec => []IngressSound)
  <1> SUFFICES ASSUME IngressAssumption PROVE IngressSpec => []IngressSound
    OBVIOUS
  <1>1. IngressInv => IngressSound
    BY IngressConsequences
  <1> QED BY <1>1, IngressInvariant, PTL

(***************************************************************************)
(* The framed ingress bridge (scxml_cnet_frame_ingress.c).                 *)
(***************************************************************************)

\* Every nonempty set of natural numbers has a least one.
LEMMA LeastOf ==
    ASSUME NEW T \in SUBSET Nat, T # {}
    PROVE  \E n \in T : \A m \in T : n <= m
  <1> DEFINE R == {p \in Nat \X Nat : p[1] < p[2]}
  <1>1. OpToRel(<, Nat) = R
    BY Zenon DEF OpToRel
  <1>2. IsWellFoundedOn(R, Nat)
    BY NatLessThanWellFounded, <1>1, Zenon
  <1>3. \E x \in T : \A y \in T : ~(<<y, x>> \in R)
    <2> HIDE DEF R
    <2> QED BY <1>2, WFMin
  <1>4. PICK x \in T : \A y \in T : ~(<<y, x>> \in R)
    BY <1>3
  <1>5. ASSUME NEW y \in T PROVE x <= y
    BY <1>4, <<y, x>> \in Nat \X Nat
  <1> QED BY <1>5

\* Induction, as a statement about sets.
LEMMA StepInduction ==
    ASSUME NEW T \in SUBSET Nat, 0 \in T, \A n \in T : n + 1 \in T
    PROVE  T = Nat
  <1> SUFFICES ASSUME T # Nat PROVE FALSE
    OBVIOUS
  <1>1. PICK n \in Nat \ T : \A m \in Nat \ T : n <= m
    BY LeastOf
  <1>2. n - 1 \in T
    BY <1>1
  <1> QED BY <1>1, <1>2

-----------------------------------------------------------------------------
(* What FlattenSeq computes. *)

\* f[k] is the concatenation of the first k of m sequences.
IsFlattening(seqs, m, f) ==
    f = [i \in 1 .. m |-> IF i = 1 THEN seqs[i] ELSE f[i - 1] \o seqs[i]]

\* FlattenSeq is defined by a recursive function: one such function exists.
LEMMA FlatteningExists ==
    ASSUME NEW seqs, NEW m \in Nat
    PROVE  \E f : IsFlattening(seqs, m, f)
  <1> DEFINE T == {k \in Nat : \E f : IsFlattening(seqs, k, f)}
  <1>1. 0 \in T
    <2> DEFINE f == [i \in 1 .. 0 |-> i]
    <2>1. IsFlattening(seqs, 0, f)
      BY DEF IsFlattening
    <2> QED BY <2>1
  <1>2. ASSUME NEW k \in T PROVE k + 1 \in T
    <2>1. k \in Nat
      OBVIOUS
    <2>2. PICK f : IsFlattening(seqs, k, f)
      OBVIOUS
    <2> DEFINE Final == IF k = 0 THEN seqs[1] ELSE f[k] \o seqs[k + 1]
               v == [i \in 1 .. k + 1 |-> IF i = k + 1 THEN Final ELSE f[i]]
    <2>3. \A i \in 1 .. k : f[i] = IF i = 1 THEN seqs[i] ELSE f[i - 1] \o seqs[i]
      BY <2>2 DEF IsFlattening
    <2>4. \A i \in 1 .. k + 1 : v[i] = IF i = 1 THEN seqs[i] ELSE v[i - 1] \o seqs[i]
      <3> SUFFICES ASSUME NEW i \in 1 .. k + 1
                   PROVE  v[i] = IF i = 1 THEN seqs[i] ELSE v[i - 1] \o seqs[i]
        OBVIOUS
      <3>1. CASE i = k + 1
        <4>1. v[i] = Final /\ (i = 1 <=> k = 0)
          BY <2>1, <3>1
        <4>2. k # 0 => i - 1 = k /\ k \in 1 .. k + 1 /\ k # k + 1
          BY <2>1, <3>1
        <4>3. k # 0 => v[i - 1] = f[k]
          BY <4>2
        <4> HIDE DEF v
        <4> QED BY <3>1, <4>1, <4>3
      <3>2. CASE i # k + 1
        <4>1. i \in 1 .. k /\ v[i] = f[i] /\ (i # 1 => i - 1 \in 1 .. k + 1 /\ i - 1 # k + 1)
          BY <2>1, <3>2
        <4>2. i # 1 => v[i - 1] = f[i - 1]
          BY <4>1
        <4> HIDE DEF v
        <4> QED BY <2>3, <4>1, <4>2
      <3> QED BY <3>1, <3>2
    <2>5. v = [i \in 1 .. k + 1 |-> v[i]]
      OBVIOUS
    <2> HIDE DEF v
    <2>6. IsFlattening(seqs, k + 1, v)
      BY <2>4, <2>5 DEF IsFlattening
    <2> QED BY <2>1, <2>6
  <1> HIDE DEF T
  <1>3. T \in SUBSET Nat
    BY DEF T
  <1>4. T = Nat
    BY <1>1, <1>2, <1>3, StepInduction
  <1> QED BY <1>4 DEF T

\* FlattenSeq is the concatenation, one sequence after the other.
LEMMA FlattenSteps ==
    ASSUME NEW seqs, Len(seqs) \in Nat \ {0}
    PROVE  \E f : /\ FlattenSeq(seqs) = f[Len(seqs)]
                  /\ \A i \in 1 .. Len(seqs) :
                       f[i] = IF i = 1 THEN seqs[i] ELSE f[i - 1] \o seqs[i]
  <1> DEFINE f == CHOOSE f : IsFlattening(seqs, Len(seqs), f)
  <1>1. FlattenSeq(seqs) = f[Len(seqs)]
    BY DEF FlattenSeq, IsFlattening
  <1>2. IsFlattening(seqs, Len(seqs), f)
    BY FlatteningExists
  <1> HIDE DEF f
  <1>3. \A i \in 1 .. Len(seqs) : f[i] = IF i = 1 THEN seqs[i] ELSE f[i - 1] \o seqs[i]
    BY <1>2 DEF IsFlattening
  <1> QED BY <1>1, <1>3

\* FlattenSeq takes sequences of S to a sequence of S, and one more sequence is
\* put at the end.
LEMMA FlattenAppends ==
    ASSUME NEW S, NEW seqs \in Seq(Seq(S)), NEW x \in Seq(S)
    PROVE  /\ FlattenSeq(seqs) \in Seq(S)
           /\ FlattenSeq(Append(seqs, x)) = FlattenSeq(seqs) \o x
  <1> DEFINE n == Len(seqs)
             more == Append(seqs, x)
  <1>0. /\ n \in Nat /\ Len(more) = n + 1 /\ more[n + 1] = x
        /\ \A i \in 1 .. n : more[i] = seqs[i] /\ seqs[i] \in Seq(S)
    <2> DEFINE U == Seq(S)
    <2>1. seqs \in Seq(U) /\ x \in U
      OBVIOUS
    <2> HIDE DEF U
    <2>2. n \in Nat /\ Len(more) = n + 1 /\ more[n + 1] = x
      BY <2>1
    <2>3. \A i \in 1 .. n : more[i] = seqs[i] /\ seqs[i] \in U
      BY <2>1
    <2> QED BY <2>2, <2>3 DEF U
  <1> SUFFICES FlattenSeq(seqs) \in Seq(S) /\ FlattenSeq(more) = FlattenSeq(seqs) \o x
    OBVIOUS
  <1> HIDE DEF more
  <1>1. PICK g : /\ FlattenSeq(more) = g[n + 1]
                 /\ \A i \in 1 .. n + 1 :
                      g[i] = IF i = 1 THEN more[i] ELSE g[i - 1] \o more[i]
    <2>1. Len(more) \in Nat \ {0}
      BY <1>0
    <2>2. \E f : /\ FlattenSeq(more) = f[Len(more)]
                 /\ \A i \in 1 .. Len(more) :
                      f[i] = IF i = 1 THEN more[i] ELSE f[i - 1] \o more[i]
      BY <2>1, FlattenSteps
    <2> QED BY <1>0, <2>2
  <1>2. CASE n = 0
    <2>1. seqs = <<>> /\ FlattenSeq(seqs) = <<>>
      BY <1>2, EmptySeq DEF FlattenSeq
    <2>2. FlattenSeq(more) = x
      <3>1. n + 1 = 1 /\ 1 \in 1 .. n + 1
        BY <1>2
      <3>2. FlattenSeq(more) = g[1] /\ g[1] = more[1] /\ more[1] = x
        BY <1>0, <1>1, <3>1
      <3> QED BY <3>2
    <2>3. <<>> \o x = x /\ <<>> \in Seq(S)
      BY ConcatEmptySeq
    <2> QED BY <2>1, <2>2, <2>3
  <1>3. CASE n # 0
    <2>1. PICK f : /\ FlattenSeq(seqs) = f[n]
                   /\ \A i \in 1 .. n : f[i] = IF i = 1 THEN seqs[i] ELSE f[i - 1] \o seqs[i]
      BY <1>0, <1>3, FlattenSteps
    <2> DEFINE T == {k \in Nat : k + 1 <= n => f[k + 1] \in Seq(S) /\ g[k + 1] = f[k + 1]}
    <2>2. 0 \in T
      <3>1. 1 \in 1 .. n /\ 1 \in 1 .. n + 1
        BY <1>0, <1>3
      <3>2. f[1] = seqs[1] /\ g[1] = more[1]
        BY <1>1, <2>1, <3>1
      <3> QED BY <1>0, <3>1, <3>2
    <2>3. ASSUME NEW k \in T PROVE k + 1 \in T
      <3> SUFFICES ASSUME k + 1 + 1 <= n
                   PROVE  f[k + 1 + 1] \in Seq(S) /\ g[k + 1 + 1] = f[k + 1 + 1]
        OBVIOUS
      <3>1. /\ k \in Nat /\ k + 1 <= n /\ f[k + 1] \in Seq(S) /\ g[k + 1] = f[k + 1]
        BY <1>0
      <3>2. /\ k + 1 + 1 \in 1 .. n /\ k + 1 + 1 \in 1 .. n + 1
            /\ k + 1 + 1 # 1 /\ (k + 1 + 1) - 1 = k + 1
        BY <1>0, <3>1
      <3>3. /\ f[k + 1 + 1] = f[k + 1] \o seqs[k + 1 + 1]
            /\ g[k + 1 + 1] = g[k + 1] \o more[k + 1 + 1]
        BY <1>1, <2>1, <3>2
      <3>4. /\ seqs[k + 1 + 1] \in Seq(S) /\ more[k + 1 + 1] = seqs[k + 1 + 1]
        BY <1>0, <3>2
      <3>5. f[k + 1] \o seqs[k + 1 + 1] \in Seq(S)
        BY <3>1, <3>4, ConcatProperties
      <3> QED BY <3>1, <3>3, <3>4, <3>5
    <2> HIDE DEF T
    <2>4. T \in SUBSET Nat
      BY DEF T
    <2>5. T = Nat
      BY <2>2, <2>3, <2>4, StepInduction
    <2>6. n - 1 \in T /\ (n - 1) + 1 = n
      BY <1>0, <1>3, <2>5
    <2>7. f[n] \in Seq(S) /\ g[n] = f[n]
      BY <1>0, <2>6 DEF T
    <2>8. n + 1 \in 1 .. n + 1 /\ n + 1 # 1 /\ (n + 1) - 1 = n
      BY <1>0, <1>3
    <2>9. g[n + 1] = g[n] \o more[n + 1]
      BY <1>1, <2>8
    <2> QED BY <1>0, <1>1, <2>1, <2>7, <2>9
  <1> QED BY <1>2, <1>3

\* What scxml_cnet_frame_ingress_impl holds.
Impls == [chunk : Seq(Byte), pos : Nat, header : Seq(Byte),
          frame : Seq(Byte), expected : Nat, bound : BOOLEAN,
          connected : BOOLEAN, armed : BOOLEAN, terminal : BOOLEAN,
          closed : BOOLEAN, first_error : FrameErrors,
          cancelled_bytes : Nat]

\* The types, with the length of a published frame.
FrameTypes ==
    /\ framer \in Impls
    /\ budget \in 0 .. max_frames
    /\ fr_connection \in {"none", "connecting", "connected", "closing", "closed",
                          "failed", "freed"}
    /\ fr_credit \in BOOLEAN
    /\ published \in Seq(Seq(Byte))
    /\ \A k \in 1 .. Len(published) : Len(published[k]) <= max_frame_bytes
    /\ stream \in Seq(Byte)
    /\ fr_late \in 0 .. MaxBytes

\* A header is complete before its frame begins, and a frame is never longer
\* than its header says or the bridge allows.
FrameShape ==
    /\ Len(framer.chunk) <= max_receive_bytes /\ framer.pos <= Len(framer.chunk)
    /\ Len(framer.header) <= 2
    /\ Len(framer.header) # 2 => framer.expected = 0 /\ framer.frame = <<>>
    /\ Len(framer.header) = 2 => framer.expected = Length(framer.header)
    /\ Len(framer.header) = 2 /\ ~FrameFailed(framer) =>
          framer.expected \in 1 .. max_frame_bytes
    /\ Len(framer.frame) <= framer.expected
    /\ Len(framer.frame) <= max_frame_bytes

\* Only a bridge that is open and has not failed decodes; close gives back all.
FrameRunning ==
    /\ budget > 0 => ~FrameFailed(framer) /\ ~framer.closed
    /\ framer.closed =>
          /\ framer.chunk = <<>> /\ framer.pos = 0
          /\ framer.header = <<>> /\ framer.frame = <<>> /\ framer.expected = 0
          /\ Len(stream) + fr_late = Len(Wire(published)) + framer.cancelled_bytes
    /\ ~framer.closed => framer.cancelled_bytes = 0 /\ fr_late = 0

\* What the bridge knows of the connection lags behind CNet in one way only.
FrameConnected ==
    /\ ~framer.bound => fr_connection \in {"none", "freed"} /\ ~framer.terminal
    /\ framer.terminal => fr_connection \in {"closed", "failed", "freed"}
    /\ fr_connection = "freed" => framer.closed

\* A truncated frame was cut: the stream ended inside its header or its body.
FrameCut ==
    framer.first_error = "truncated" /\ ~framer.closed =>
        /\ fr_connection \in {"closed", "failed"}
        /\ framer.chunk = <<>> /\ framer.header # <<>> /\ ~FrameComplete(framer)

\* The inductive invariant: StreamDecoded is its heart.
FrameInv ==
    /\ FrameTypes /\ FrameShape /\ FrameRunning /\ FrameConnected /\ FrameCut
    /\ StreamDecoded /\ CreditIsCovered /\ BackPressure

-----------------------------------------------------------------------------
(* Headers and the encoded stream. *)

\* Two bytes are read back from the number they stand for.
LEMMA HeaderReads ==
    ASSUME FrameAssumption, NEW a \in Byte, NEW b \in Byte
    PROVE  /\ a * Base + b \in 0 .. Base * Base - 1
           /\ (a * Base + b) \div Base = a
           /\ (a * Base + b) % Base = b
  <1>0. Base \in Nat /\ Base > 1 /\ a \in Nat /\ b \in Nat /\ a <= Base - 1 /\ b <= Base - 1
    BY DEF FrameAssumption, Byte
  <1> DEFINE n == a * Base + b
             q == n \div Base
             r == n % Base
  <1>1. a * Base \in Nat /\ n \in Nat
    BY <1>0
  <1>2. q \in Int /\ r \in 0 .. Base - 1 /\ n = Base * q + r
    BY <1>0, <1>1
  <1> HIDE DEF q, r
  <1>3. \A d \in Int : d >= 1 => Base * d >= Base
    BY <1>0
  <1>4. Base * (q - a) = b - r
    BY <1>0, <1>2
  <1>5. ~(q - a >= 1)
    BY <1>0, <1>2, <1>3, <1>4
  <1>6. ~(a - q >= 1)
    <2>1. Base * (a - q) = r - b
      BY <1>0, <1>2
    <2> QED BY <1>0, <1>2, <1>3, <2>1
  <1>7. q = a
    BY <1>0, <1>2, <1>5, <1>6
  <1>8. r = b
    BY <1>0, <1>2, <1>7
  <1>9. n <= Base * Base - 1
    <2>1. a * Base <= (Base - 1) * Base
      BY <1>0
    <2>2. (Base - 1) * Base = Base * Base - Base
      BY <1>0
    <2> QED BY <1>0, <1>1, <2>1, <2>2
  <1> QED BY <1>1, <1>7, <1>8, <1>9 DEF q, r

\* A sequence of bytes is one of numbers; SeqUpTo bounds its length.
LEMMA Bytes ==
    ASSUME FrameAssumption
    PROVE  /\ Byte \subseteq Nat
           /\ \A s : s \in Seq(Byte) => s \in Seq(Nat) /\ Len(s) \in Nat
           /\ \A n \in Nat : \A s : s \in SeqUpTo(n) <=> s \in Seq(Byte) /\ Len(s) <= n
  <1>1. Byte \subseteq Nat
    BY DEF FrameAssumption, Byte
  <1>2. ASSUME NEW s \in Seq(Byte) PROVE s \in Seq(Nat) /\ Len(s) \in Nat
    BY <1>1, SeqMonotonic, LenProperties
  <1>3. ASSUME NEW n \in Nat, NEW s, s \in SeqUpTo(n) PROVE s \in Seq(Byte) /\ Len(s) <= n
    <2>1. PICK k \in 0 .. n : s \in [1 .. k -> Byte]
      BY <1>3 DEF SeqUpTo
    <2>2. k \in Nat
      OBVIOUS
    <2>3. s \in Seq(Byte)
      <3>1. s \in UNION {[1 .. m -> Byte] : m \in Nat}
        BY <2>1, <2>2
      <3> QED BY <3>1, SeqDef
    <2>4. Len(s) \in Nat /\ DOMAIN s = 1 .. Len(s) /\ DOMAIN s = 1 .. k
      BY <2>1, <2>3, LenProperties
    <2>5. Len(s) = k
      <3>1. Len(s) # 0 => Len(s) \in 1 .. k
        BY <2>4
      <3>2. k # 0 => k \in 1 .. Len(s)
        BY <2>2, <2>4
      <3> DEFINE l == Len(s)
      <3>3. l \in Nat /\ (l # 0 => l <= k) /\ (k # 0 => k <= l)
        BY <2>2, <2>4, <3>1, <3>2
      <3> HIDE DEF l
      <3>4. l = k
        BY <2>2, <3>3
      <3> QED BY <3>4 DEF l
    <2> QED BY <2>2, <2>3, <2>5
  <1>4. ASSUME NEW n \in Nat, NEW s, s \in Seq(Byte), Len(s) <= n PROVE s \in SeqUpTo(n)
    <2>1. Len(s) \in 0 .. n /\ s \in [1 .. Len(s) -> Byte]
      BY <1>4, LenProperties
    <2> QED BY <2>1 DEF SeqUpTo
  <1> QED BY <1>1, <1>2, <1>3, <1>4

\* Encoding one frame more appends its header and its bytes.
LEMMA WireAppends ==
    ASSUME FrameAssumption, NEW frames \in Seq(Seq(Byte)), NEW f \in Seq(Byte)
    PROVE  /\ Wire(frames) \in Seq(Nat)
           /\ Encoded(f) \in Seq(Nat)
           /\ Wire(Append(frames, f)) = Wire(frames) \o Encoded(f)
  <1> DEFINE U == Seq(Byte)
             coded(fs) == [k \in 1 .. Len(fs) |-> Encoded(fs[k])]
             N == Seq(Nat)
  <1>0. ASSUME NEW g \in U PROVE Encoded(g) \in N
    <2>1. Len(g) \in Nat /\ g \in Seq(Nat)
      BY Bytes
    <2>2. Len(g) \div Base \in Nat /\ Len(g) % Base \in Nat
      <3> DEFINE n == Len(g)
      <3>1. n \in Nat /\ Base \in Nat /\ Base > 1
        BY <2>1 DEF FrameAssumption
      <3> HIDE DEF n
      <3>2. n % Base \in 0 .. Base - 1
        BY <3>1
      <3> DEFINE q == n \div Base
                 m == n % Base
      <3>3. q \in Int /\ n = Base * q + m
        BY <3>1
      <3> HIDE DEF q, m
      <3>4. \A d \in Int : d < 0 => Base * d + Base <= 0
        BY <3>1
      <3>5. q >= 0
        <4>1. m \in 0 .. Base - 1
          BY <3>2 DEF m
        <4>2. q < 0 => Base * q + Base <= 0
          BY <3>3, <3>4
        <4> DEFINE z == Base * q
        <4>3. z \in Int /\ n = z + m
          BY <3>1, <3>3
        <4> HIDE DEF z
        <4>4. ~(z + Base <= 0)
          BY <3>1, <4>1, <4>3
        <4> QED BY <3>3, <4>2, <4>4 DEF z
      <3>6. n \div Base \in Nat
        BY <3>3, <3>5 DEF q
      <3> QED BY <3>1, <3>2, <3>6 DEF n
    <2>3. <<Len(g) \div Base, Len(g) % Base>> \in Seq(Nat)
      BY <2>2
    <2> QED BY <2>1, <2>3, ConcatProperties DEF Encoded
  <1>1. frames \in Seq(U) /\ f \in U
    OBVIOUS
  <1> HIDE DEF U
  <1>2. /\ Len(frames) \in Nat /\ Len(Append(frames, f)) = Len(frames) + 1
        /\ \A k \in 1 .. Len(frames) : frames[k] \in U /\ Append(frames, f)[k] = frames[k]
        /\ Append(frames, f)[Len(frames) + 1] = f
    BY <1>1
  <1>3. coded(frames) \in Seq(N) /\ Encoded(f) \in N
    <2>1. coded(frames) \in [1 .. Len(frames) -> N]
      BY <1>0, <1>2
    <2> HIDE DEF coded, N
    <2>2. coded(frames) \in Seq(N)
      <3>1. coded(frames) \in UNION {[1 .. m -> N] : m \in Nat}
        BY <1>2, <2>1
      <3> QED BY <3>1, SeqDef
    <2> QED BY <1>0, <1>1, <2>2
  <1>4. coded(Append(frames, f)) = Append(coded(frames), Encoded(f))
    <2> DEFINE x == coded(frames)
               y == coded(Append(frames, f))
    <2>1. y = [k \in 1 .. Len(frames) + 1 |-> Encoded(Append(frames, f)[k])]
      BY <1>2
    <2>2. Len(x) = Len(frames) /\ Len(Append(x, Encoded(f))) = Len(frames) + 1
      BY <1>2, <1>3
    <2> QED BY <1>2, <1>3, <2>1, <2>2
  <1>5. /\ FlattenSeq(coded(frames)) \in N
        /\ FlattenSeq(Append(coded(frames), Encoded(f))) = FlattenSeq(coded(frames)) \o Encoded(f)
    <2> HIDE DEF coded
    <2> QED BY <1>3, FlattenAppends
  <1> QED BY <1>3, <1>4, <1>5 DEF Wire

\* What a complete frame was read from is its encoding.
LEMMA HeaderEncodes ==
    ASSUME FrameAssumption, NEW h \in Seq(Byte), Len(h) = 2,
           NEW f \in Seq(Byte), Len(f) = Length(h)
    PROVE  h \o f = Encoded(f)
  <1>1. h[1] \in Byte /\ h[2] \in Byte /\ h = <<h[1], h[2]>>
    <2>1. 1 \in 1 .. Len(h) /\ 2 \in 1 .. Len(h)
      OBVIOUS
    <2>2. h[1] \in Byte /\ h[2] \in Byte
      BY <2>1, ElementOfSeq
    <2>3. <<h[1], h[2]>> \in Seq(Byte) /\ Len(<<h[1], h[2]>>) = 2
      BY <2>2
    <2>4. \A i \in 1 .. Len(h) : h[i] = <<h[1], h[2]>>[i]
      OBVIOUS
    <2> QED BY <2>2, <2>3, <2>4, SeqEqual
  <1>2. Length(h) \div Base = h[1] /\ Length(h) % Base = h[2]
    BY <1>1, HeaderReads DEF Length
  <1> QED BY <1>1, <1>2 DEF Encoded

\* Taking the next byte from the rest of the chunk moves it to the end of s.
LEMMA ByteMoves ==
    ASSUME FrameAssumption, NEW w \in Seq(Nat), NEW c \in Seq(Byte), NEW p \in Nat, p < Len(c)
    PROVE  /\ c[p + 1] \in Byte
           /\ SubSeq(c, p + 1, Len(c)) \in Seq(Nat)
           /\ SubSeq(c, p + 2, Len(c)) \in Seq(Nat)
           /\ w \o SubSeq(c, p + 1, Len(c)) = Append(w, c[p + 1]) \o SubSeq(c, p + 2, Len(c))
  <1>0. Len(c) \in Nat /\ c \in Seq(Nat) /\ Byte \subseteq Nat
    BY Bytes
  <1>1. p + 1 \in 1 .. Len(c) /\ Len(c) \in p + 1 .. Len(c) /\ p + 1 + 1 = p + 2
    BY <1>0
  <1>2. c[p + 1] \in Byte
    BY <1>1, ElementOfSeq
  <1>3. SubSeq(c, p + 1, Len(c)) = <<c[p + 1]>> \o SubSeq(c, p + 2, Len(c))
    BY <1>0, <1>1, SubSeqRecursiveFirst
  <1> DEFINE u == SubSeq(c, p + 2, Len(c))
             x == c[p + 1]
  <1>4. u \in Seq(Nat)
    <2>1. \A i \in p + 2 .. Len(c) : c[i] \in Nat
      BY <1>0, ElementOfSeq
    <2> QED BY <1>0, <2>1, SubSeqProperties
  <1>5. <<x>> \in Seq(Nat)
    BY <1>0, <1>2
  <1> HIDE DEF u, x
  <1>6. <<x>> \o u \in Seq(Nat)
    BY <1>4, <1>5, ConcatProperties
  <1>7. w \o (<<x>> \o u) = (w \o <<x>>) \o u
    <2> DEFINE one == <<x>>
    <2>1. one \in Seq(Nat)
      BY <1>5
    <2> HIDE DEF one
    <2>2. (w \o one) \o u = w \o (one \o u)
      BY <1>4, <2>1, ConcatAssociative, SMTT(30)
    <2> QED BY <2>2 DEF one
  <1>8. w \o <<x>> = Append(w, x)
    <2>1. x \in Nat
      BY <1>0, <1>2 DEF x
    <2> QED BY <2>1, AppendIsConcat, Zenon
  <1> QED BY <1>2, <1>3, <1>4, <1>6, <1>7, <1>8 DEF u, x

\* Nothing published is nothing on the wire.
LEMMA EmptyWire == Wire(<<>>) = <<>>
  <1> DEFINE none == [k \in 1 .. Len(<<>>) |-> Encoded(<<>>[k])]
  <1>1. none = <<>>
    BY EmptySeq
  <1>2. FlattenSeq(<<>>) = <<>>
    BY EmptySeq DEF FlattenSeq
  <1> QED BY <1>1, <1>2 DEF Wire

\* A new bridge satisfies the invariant.
LEMMA InitialFrames == FrameAssumption /\ FrameInit => FrameInv
  <1> SUFFICES ASSUME FrameAssumption, FrameInit PROVE FrameInv
    OBVIOUS
  <1>0. /\ <<>> \in Seq(Byte) /\ <<>> \in Seq(Seq(Byte)) /\ <<>> \in Seq(Nat)
        /\ Len(<<>>) = 0 /\ Len(<<>>) # 2
    BY EmptySeq
  <1>1. FrameTypes
    <2>1. framer \in Impls
      BY <1>0 DEF FrameInit, Impls, FrameErrors
    <2>2. \A k \in 1 .. Len(published) : Len(published[k]) <= max_frame_bytes
      BY <1>0 DEF FrameInit
    <2>3. budget \in 0 .. max_frames /\ fr_late \in 0 .. MaxBytes
      BY DEF FrameInit, FrameAssumption
    <2>4. published \in Seq(Seq(Byte)) /\ stream \in Seq(Byte)
      BY <1>0 DEF FrameInit
    <2>5. fr_connection = "none" /\ fr_credit = FALSE
      BY DEF FrameInit
    <2> QED BY <2>1, <2>2, <2>3, <2>4, <2>5 DEF FrameTypes, Impls
  <1>2. FrameShape
    BY <1>0 DEF FrameInit, FrameShape, FrameAssumption
  <1>3. FrameRunning
    BY <1>0 DEF FrameInit, FrameRunning
  <1>4. FrameConnected /\ FrameCut /\ CreditIsCovered /\ BackPressure
    BY DEF FrameInit, FrameConnected, FrameCut, CreditIsCovered, BackPressure
  <1>5. StreamDecoded
    <2>1. SubSeq(<<>>, 0 + 1, Len(<<>>)) = <<>>
      BY <1>0, SubSeqEmpty
    <2>2. <<>> \o <<>> = <<>>
      BY <1>0, ConcatEmptySeq
    <2>3. /\ published = <<>> /\ framer.header = <<>> /\ framer.frame = <<>>
          /\ framer.chunk = <<>> /\ framer.pos = 0 /\ stream = <<>>
      BY DEF FrameInit
    <2> QED BY <2>1, <2>2, <2>3, EmptyWire DEF StreamDecoded
  <1> QED BY <1>1, <1>2, <1>3, <1>4, <1>5 DEF FrameInv

\* A step that leaves the bytes alone, and does not take back a failure.
BytesKept ==
    /\ framer'.chunk = framer.chunk /\ framer'.pos = framer.pos
    /\ framer'.header = framer.header /\ framer'.frame = framer.frame
    /\ framer'.expected = framer.expected /\ framer'.closed = framer.closed
    /\ framer'.cancelled_bytes = framer.cancelled_bytes
    /\ FrameFailed(framer) => framer'.first_error = framer.first_error
    /\ UNCHANGED <<published, stream, fr_late>>

\* A step that moves no byte keeps what is decoded.
LEMMA BytesKeptKeeps ==
    ASSUME FrameInv, BytesKept, budget' > 0 => ~FrameFailed(framer') /\ ~framer.closed
    PROVE  FrameShape' /\ FrameRunning' /\ StreamDecoded'
  <1>1. ~FrameFailed(framer') => ~FrameFailed(framer)
    BY DEF BytesKept, FrameFailed
  <1>2. FrameShape'
    BY <1>1 DEF BytesKept, FrameInv, FrameShape, Length
  <1>3. FrameRunning'
    BY DEF BytesKept, FrameInv, FrameRunning
  <1>4. StreamDecoded'
    BY DEF BytesKept, FrameInv, StreamDecoded
  <1> QED BY <1>2, <1>3, <1>4

\* Recording an error keeps the rest of the struct.
LEMMA MarkError ==
    ASSUME NEW i \in Impls, NEW status \in FrameErrors
    PROVE  /\ mark_error(i, status) \in Impls
           /\ mark_error(i, status) =
                [i EXCEPT !.first_error = IF FrameFailed(i) THEN i.first_error ELSE status]
  BY DEF mark_error, Impls

\* on_state: the connection opens, closes, fails or ends.
LEMMA OnStateKeeps ==
    ASSUME FrameAssumption, FrameInv,
           NEW state \in {"connected", "closing", "closed", "failed"}, on_state(state)
    PROVE  FrameInv'
  <1>0. /\ framer \in Impls /\ budget = 0 /\ fr_connection # "freed"
        /\ UNCHANGED <<budget, published, stream, fr_late>> /\ fr_connection' = state
    BY DEF on_state, FrameIdle, FrameInv, FrameTypes, Impls
  <1>1. /\ framer' \in Impls /\ BytesKept /\ fr_credit' \in BOOLEAN
        /\ framer'.bound = framer.bound
        /\ framer'.armed = fr_credit' /\ (fr_credit' => fr_credit)
        /\ framer'.first_error \in {framer.first_error, "EIO"}
        /\ FrameFailed(framer) => framer'.first_error = framer.first_error
        /\ framer'.terminal => framer.terminal \/ state \in {"closed", "failed"}
        /\ fr_connection \in {"connecting", "connected", "closing"}
    <2>1. CASE state = "connected" /\ framer' = [framer EXCEPT !.connected = TRUE]
               /\ UNCHANGED fr_credit
      BY <1>0, <2>1 DEF on_state, Impls, BytesKept, FrameFailed, FrameInv, CreditIsCovered, FrameTypes
    <2>2. CASE state = "closing" /\ framer' = [framer EXCEPT !.connected = FALSE]
               /\ UNCHANGED fr_credit
      BY <1>0, <2>2 DEF on_state, Impls, BytesKept, FrameFailed, FrameInv, CreditIsCovered, FrameTypes
    <2>3. CASE /\ state \in {"closed", "failed"}
               /\ fr_connection \in {"connecting", "connected", "closing"}
               /\ framer' = FrameEnded(state) /\ fr_credit' = FALSE
      BY <1>0, <2>3 DEF FrameEnded, mark_error, Impls, BytesKept, FrameFailed, FrameErrors
    <2> QED BY <2>1, <2>2, <2>3 DEF on_state
  <1>2. FrameTypes'
    BY <1>0, <1>1 DEF FrameTypes, Impls, FrameInv
  <1>3. FrameShape' /\ FrameRunning' /\ StreamDecoded'
    BY <1>0, <1>1, BytesKeptKeeps
  <1>4. FrameConnected'
    BY <1>0, <1>1 DEF FrameConnected, FrameInv, BytesKept
  <1>5. FrameCut'
    BY <1>0, <1>1 DEF FrameCut, FrameInv, BytesKept, FrameComplete
  <1>6. CreditIsCovered' /\ BackPressure'
    BY <1>1 DEF CreditIsCovered, BackPressure, FrameInv, BytesKept, FrameComplete
  <1> QED BY <1>2, <1>3, <1>4, <1>5, <1>6 DEF FrameInv

\* bind.
LEMMA FrameBindKeeps ==
    ASSUME FrameAssumption, FrameInv, frame_bind
    PROVE  FrameInv'
  <1>0. /\ framer \in Impls /\ budget = 0 /\ fr_connection = "none"
        /\ UNCHANGED <<budget, published, stream, fr_late, fr_credit>>
        /\ fr_connection' = "connecting" /\ ~framer.terminal
        /\ framer' = [framer EXCEPT !.bound = TRUE]
    BY DEF frame_bind, FrameIdle, FrameInv, FrameTypes, Impls, FrameConnected
  <1>1. framer' \in Impls /\ BytesKept /\ framer'.bound
        /\ framer'.armed = framer.armed /\ framer'.first_error = framer.first_error
        /\ ~framer'.terminal
    BY <1>0 DEF Impls, BytesKept
  <1>2. FrameTypes'
    BY <1>0, <1>1 DEF FrameTypes, Impls, FrameInv
  <1>3. FrameShape' /\ FrameRunning' /\ StreamDecoded'
    BY <1>0, <1>1, BytesKeptKeeps
  <1>4. FrameConnected' /\ FrameCut'
    BY <1>0, <1>1 DEF FrameConnected, FrameCut, FrameInv, BytesKept
  <1>6. CreditIsCovered' /\ BackPressure'
    BY <1>0, <1>1 DEF CreditIsCovered, BackPressure, FrameInv, BytesKept, FrameComplete
  <1> QED BY <1>2, <1>3, <1>4, <1>6 DEF FrameInv

\* arm.
LEMMA FrameArmKeeps ==
    ASSUME FrameAssumption, FrameInv, NEW accepted \in BOOLEAN, frame_arm(accepted)
    PROVE  FrameInv'
  <1>0. /\ framer \in Impls /\ budget = 0
        /\ UNCHANGED <<budget, published, stream, fr_late, fr_connection>>
        /\ NothingOutstanding(framer) /\ fr_credit' = accepted
        /\ framer' = [framer EXCEPT !.armed = accepted]
    BY DEF frame_arm, FrameIdle, FrameInv, FrameTypes, Impls
  <1>1. framer' \in Impls /\ BytesKept /\ framer'.bound = framer.bound
        /\ framer'.armed = accepted /\ framer'.first_error = framer.first_error
        /\ framer'.terminal = framer.terminal
    BY <1>0 DEF Impls, BytesKept
  <1>2. FrameTypes'
    BY <1>0, <1>1 DEF FrameTypes, Impls, FrameInv
  <1>3. FrameShape' /\ FrameRunning' /\ StreamDecoded'
    BY <1>0, <1>1, BytesKeptKeeps
  <1>4. FrameConnected' /\ FrameCut'
    BY <1>0, <1>1 DEF FrameConnected, FrameCut, FrameInv, BytesKept, FrameComplete
  <1>6. CreditIsCovered' /\ BackPressure'
    BY <1>0, <1>1 DEF CreditIsCovered, BackPressure, FrameInv, BytesKept, FrameComplete,
                      NothingOutstanding
  <1> QED BY <1>2, <1>3, <1>4, <1>6 DEF FrameInv

\* The calls that change neither the struct nor the stream.
LEMMA CountingKeeps ==
    ASSUME FrameAssumption, FrameInv,
           \/ \E n \in 1 .. max_frames : process_begin(n)
           \/ publish_full
           \/ frame_destroy
    PROVE  FrameInv'
  <1>0. /\ framer' = framer /\ BytesKept /\ UNCHANGED fr_credit
        /\ budget' \in 0 .. max_frames
        /\ budget' > 0 => ~FrameFailed(framer') /\ ~framer.closed
    BY DEF process_begin, publish_full, frame_destroy, BytesKept, FrameIdle, FrameInv,
           FrameAssumption
  <1>1. \/ fr_connection' = fr_connection
        \/ frame_is_quiescent /\ fr_connection' = "freed"
    BY DEF process_begin, publish_full, frame_destroy
  <1>2. FrameTypes'
    BY <1>0, <1>1 DEF FrameTypes, FrameInv, BytesKept
  <1>3. FrameShape' /\ FrameRunning' /\ StreamDecoded'
    BY <1>0, BytesKeptKeeps
  <1>4. FrameConnected' /\ FrameCut'
    BY <1>0, <1>1 DEF FrameConnected, FrameCut, FrameInv, frame_is_quiescent
  <1>6. CreditIsCovered' /\ BackPressure'
    BY <1>0 DEF CreditIsCovered, BackPressure, FrameInv
  <1> QED BY <1>2, <1>3, <1>4, <1>6 DEF FrameInv

\* on_receive: a chunk arrives for an open bridge, or is only counted.
LEMMA OnReceiveKeeps ==
    ASSUME FrameAssumption, FrameInv, NEW data \in SeqUpTo(max_receive_bytes + 1),
           NEW kind \in {"bytes", "text"}, on_receive(data, kind)
    PROVE  FrameInv'
  <1>0. /\ framer \in Impls /\ budget = 0 /\ fr_credit /\ framer.armed
        /\ fr_connection \in {"connected", "closing"} /\ ~framer.terminal
        /\ fr_credit' = FALSE /\ framer' = FrameReceived(data, kind)
        /\ UNCHANGED <<budget, fr_connection, published>>
    BY DEF on_receive, FrameIdle, FrameInv, FrameTypes, Impls, CreditIsCovered, FrameConnected
  <1>1. /\ data \in Seq(Byte) /\ Len(data) \in Nat
        /\ Len(stream) \in Nat /\ fr_late \in Nat /\ stream \in Seq(Byte)
        /\ Len(stream) + fr_late + Len(data) <= MaxBytes
    <2>1. max_receive_bytes + 1 \in Nat
      BY DEF FrameAssumption
    <2> QED BY <2>1, Bytes DEF FrameInv, FrameTypes, on_receive
  <1> DEFINE taken == [framer EXCEPT !.armed = FALSE]
  <1>2. taken \in Impls
    BY <1>0 DEF Impls
  \* After close the bytes are only counted.
  <1>3. CASE framer.closed
    <2>1. framer' = [taken EXCEPT !.cancelled_bytes = framer.cancelled_bytes + Len(data)]
      BY <1>0, <1>3 DEF FrameReceived, Impls
    <2>2. framer.chunk = <<>> /\ framer'.chunk = <<>>
      BY <1>0, <1>3, <2>1 DEF FrameInv, FrameRunning, Impls
    <2>3. UNCHANGED stream /\ fr_late' = fr_late + Len(data)
      BY <1>3, <2>2 DEF on_receive
    <2>10. framer' \in Impls
      <3>1. framer.cancelled_bytes + Len(data) \in Nat
        BY <1>0, <1>1 DEF Impls
      <3> HIDE DEF taken
      <3> QED BY <1>2, <2>1, <3>1 DEF Impls
    <2>4. /\ framer' \in Impls /\ framer'.armed = FALSE
          /\ framer'.cancelled_bytes = framer.cancelled_bytes + Len(data)
          /\ framer'.pos = framer.pos /\ framer'.header = framer.header
          /\ framer'.frame = framer.frame /\ framer'.expected = framer.expected
          /\ framer'.closed /\ framer'.first_error = framer.first_error
          /\ framer'.bound = framer.bound /\ framer'.terminal = framer.terminal
      BY <1>0, <1>3, <2>1, <2>10 DEF Impls
    <2>5. FrameTypes'
      <3>1. fr_late' \in 0 .. MaxBytes
        BY <1>1, <2>3 DEF FrameAssumption
      <3> QED BY <1>0, <2>3, <2>4, <3>1 DEF FrameInv, FrameTypes, Impls
    <2>6. FrameShape'
      BY <2>2, <2>4 DEF FrameInv, FrameShape, FrameFailed, Length
    <2>7. Len(Wire(published)) \in Nat
      BY WireAppends, EmptySeq DEF FrameInv, FrameTypes
    <2>8. FrameRunning'
      BY <1>0, <1>1, <1>3, <2>2, <2>3, <2>4, <2>7, SMTT(30) DEF FrameInv, FrameRunning, Impls
    <2>9. FrameConnected' /\ FrameCut' /\ StreamDecoded' /\ BackPressure'
      BY <1>0, <2>4
         DEF FrameInv, FrameConnected, FrameCut, StreamDecoded, BackPressure
    <2>11. CreditIsCovered'
      BY <1>0, <2>4 DEF FrameInv, CreditIsCovered
    <2> QED BY <2>5, <2>6, <2>8, <2>9, <2>11 DEF FrameInv
  \* The chunk is refused: the credit is spent and the bridge has failed.
  <1>4. CASE ~framer.closed /\ \E e \in {"EPROTO", "EMSGSIZE"} : framer' = mark_error(taken, e)
    <2>1. PICK e \in {"EPROTO", "EMSGSIZE"} : framer' = mark_error(taken, e)
      BY <1>4
    <2>2. /\ framer' \in Impls
          /\ framer' = [taken EXCEPT !.first_error = IF FrameFailed(taken) THEN taken.first_error ELSE e]
      BY <1>2, <2>1, MarkError DEF FrameErrors
    <2>3. framer.chunk = <<>>
      BY <1>0, <1>4 DEF FrameInv, CreditIsCovered
    <2>4. /\ framer'.armed = FALSE /\ framer'.chunk = framer.chunk
          /\ framer'.pos = framer.pos /\ framer'.header = framer.header
          /\ framer'.frame = framer.frame /\ framer'.expected = framer.expected
          /\ framer'.closed = framer.closed
          /\ framer'.cancelled_bytes = framer.cancelled_bytes
          /\ framer'.first_error \in {framer.first_error, e}
          /\ FrameFailed(framer) => framer'.first_error = framer.first_error
          /\ framer'.bound = framer.bound /\ framer'.terminal = framer.terminal
      BY <1>0, <2>2 DEF Impls, FrameFailed
    <2>5. UNCHANGED <<stream, fr_late>>
      BY <1>4, <2>3, <2>4 DEF on_receive
    <2>6. BytesKept
      BY <1>0, <2>4, <2>5 DEF BytesKept
    <2>7. FrameTypes'
      BY <1>0, <2>2, <2>5 DEF FrameInv, FrameTypes, Impls
    <2>8. FrameShape' /\ FrameRunning' /\ StreamDecoded'
      BY <1>0, <2>6, BytesKeptKeeps
    <2>9. FrameConnected' /\ BackPressure'
      BY <1>0, <2>4 DEF FrameInv, FrameConnected, BackPressure
    <2>10. FrameCut'
      BY <1>0, <2>4 DEF FrameInv, FrameCut
    <2>11. CreditIsCovered'
      BY <1>0, <2>3, <2>4 DEF FrameInv, CreditIsCovered
    <2> QED BY <2>7, <2>8, <2>9, <2>10, <2>11 DEF FrameInv
  \* The chunk is kept.
  <1>5. CASE /\ ~framer.closed /\ data # <<>> /\ Len(data) <= max_receive_bytes
             /\ framer' = [taken EXCEPT !.chunk = data, !.pos = 0]
    <2>1. framer.chunk = <<>>
      BY <1>0, <1>5 DEF FrameInv, CreditIsCovered
    <2>10. framer' \in Impls
      BY <1>1, <1>2, <1>5 DEF Impls
    <2>2. /\ framer' \in Impls /\ framer'.armed = FALSE /\ framer'.chunk = data
          /\ framer'.pos = 0 /\ framer'.header = framer.header
          /\ framer'.frame = framer.frame /\ framer'.expected = framer.expected
          /\ framer'.closed = framer.closed
          /\ framer'.cancelled_bytes = framer.cancelled_bytes
          /\ framer'.first_error = framer.first_error
          /\ framer'.bound = framer.bound /\ framer'.terminal = framer.terminal
      BY <1>0, <1>5, <2>10 DEF Impls
    <2>3. stream' = stream \o data /\ UNCHANGED fr_late
      BY <1>5, <2>2 DEF on_receive
    <2>4. stream' \in Seq(Byte)
      BY <1>1, <2>3, ConcatProperties
    <2>5. FrameTypes'
      BY <1>0, <2>2, <2>3, <2>4 DEF FrameInv, FrameTypes, Impls
    <2>6. FrameShape'
      BY <1>1, <1>5, <2>2 DEF FrameInv, FrameShape, FrameFailed, Length
    <2>7. FrameRunning'
      BY <1>0, <1>5, <2>2, <2>3 DEF FrameInv, FrameRunning
    <2>8. StreamDecoded'
      <3> DEFINE w == Wire(published) \o framer.header \o framer.frame
      <3>1. w \in Seq(Nat)
        <4>1. /\ Wire(published) \in Seq(Nat)
              /\ framer.header \in Seq(Nat) /\ framer.frame \in Seq(Nat)
          BY WireAppends, Bytes DEF FrameInv, FrameTypes, Impls
        <4> QED BY <4>1, ConcatProperties
      <3>2. SubSeq(framer.chunk, framer.pos + 1, Len(framer.chunk)) = <<>>
        BY <2>1, EmptySeq, SubSeqEmpty DEF FrameInv, FrameShape, FrameTypes
      <3>3. stream = w
        BY <1>5, <3>1, <3>2, ConcatEmptySeq DEF FrameInv, StreamDecoded
      <3>4. SubSeq(data, 0 + 1, Len(data)) = data
        BY <1>1, SubSeqFull
      <3> QED BY <1>0, <2>2, <2>3, <3>3, <3>4 DEF StreamDecoded
    <2>9. FrameConnected' /\ FrameCut' /\ BackPressure'
      BY <1>0, <2>2 DEF FrameInv, FrameConnected, FrameCut, BackPressure
    <2>11. CreditIsCovered'
      BY <1>0, <2>2 DEF FrameInv, CreditIsCovered
    <2> QED BY <2>5, <2>6, <2>7, <2>8, <2>9, <2>11 DEF FrameInv
  <1>6. framer.chunk = <<>> \/ framer.closed
    BY <1>0 DEF FrameInv, CreditIsCovered
  <1> QED BY <1>0, <1>1, <1>3, <1>4, <1>5, <1>6 DEF FrameReceived, FrameAssumption

\* What is still to be decoded of the chunk.
Rest(i) == SubSeq(i.chunk, i.pos + 1, Len(i.chunk))

\* After the loop a chunk that is used up is dropped, and a failure is recorded
\* only if the stream has ended inside a frame.
LEMMA LeaveDrops ==
    ASSUME NEW i \in Impls, i.pos <= Len(i.chunk), i.first_error = "OK"
    PROVE  /\ Leave(i) \in Impls
           /\ Leave(i).header = i.header /\ Leave(i).frame = i.frame
           /\ Leave(i).expected = i.expected /\ Leave(i).closed = i.closed
           /\ Leave(i).armed = i.armed /\ Leave(i).bound = i.bound
           /\ Leave(i).terminal = i.terminal
           /\ Leave(i).cancelled_bytes = i.cancelled_bytes
           /\ Leave(i).pos <= Len(Leave(i).chunk)
           /\ Len(Leave(i).chunk) <= Len(i.chunk)
           /\ Leave(i).chunk \in {i.chunk, <<>>}
           /\ Rest(Leave(i)) = Rest(i)
           /\ Leave(i).first_error \in {"OK", "truncated"}
           /\ Leave(i).first_error = "truncated" =>
                 /\ i.terminal /\ Leave(i).chunk = <<>>
                 /\ \/ i.expected = 0 /\ i.header # <<>>
                    \/ i.expected # 0 /\ Len(i.frame) # i.expected
  <1> DEFINE left == IF i.pos = Len(i.chunk) THEN [i EXCEPT !.chunk = <<>>, !.pos = 0] ELSE i
  <1>0. /\ i.chunk \in Seq(Byte) /\ Len(i.chunk) \in Nat /\ i.pos \in Nat
        /\ <<>> \in Seq(Byte) /\ Len(<<>>) = 0
    BY EmptySeq DEF Impls
  <1>1. left \in Impls
    BY <1>0 DEF Impls
  <1>2. /\ left.header = i.header /\ left.frame = i.frame
        /\ left.expected = i.expected /\ left.closed = i.closed
        /\ left.armed = i.armed /\ left.bound = i.bound /\ left.terminal = i.terminal
        /\ left.cancelled_bytes = i.cancelled_bytes /\ left.first_error = "OK"
        /\ left.chunk \in {i.chunk, <<>>}
    BY DEF Impls
  <1>3. left.pos <= Len(left.chunk) /\ Len(left.chunk) <= Len(i.chunk)
    BY <1>0 DEF Impls
  <1>4. Rest(left) = Rest(i)
    <2>1. CASE i.pos = Len(i.chunk)
      <3>1. left.chunk = <<>> /\ left.pos = 0
        BY <2>1 DEF Impls
      <3>2. SubSeq(<<>>, 0 + 1, Len(<<>>)) = <<>>
        BY <1>0, SubSeqEmpty
      <3>3. SubSeq(i.chunk, i.pos + 1, Len(i.chunk)) = <<>>
        BY <1>0, <2>1, SubSeqEmpty
      <3> QED BY <3>1, <3>2, <3>3 DEF Rest
    <2>2. CASE i.pos # Len(i.chunk)
      BY <2>2
    <2> QED BY <2>1, <2>2
  <1>5. Leave(i) = IF Truncated(left) THEN mark_error(left, "truncated") ELSE left
    BY DEF Leave
  <1> HIDE DEF left
  <1>6. /\ mark_error(left, "truncated") = [left EXCEPT !.first_error = "truncated"]
        /\ mark_error(left, "truncated") \in Impls
    BY <1>1, <1>2, MarkError DEF FrameErrors, FrameFailed
  <1>7. CASE ~Truncated(left)
    BY <1>1, <1>2, <1>3, <1>4, <1>5, <1>7
  <1>8. CASE Truncated(left)
    <2>1. Leave(i) = [left EXCEPT !.first_error = "truncated"] /\ Leave(i) \in Impls
      BY <1>5, <1>6, <1>8
    <2>2. /\ Leave(i).header = left.header /\ Leave(i).frame = left.frame
          /\ Leave(i).expected = left.expected /\ Leave(i).closed = left.closed
          /\ Leave(i).armed = left.armed /\ Leave(i).bound = left.bound
          /\ Leave(i).terminal = left.terminal /\ Leave(i).pos = left.pos
          /\ Leave(i).cancelled_bytes = left.cancelled_bytes
          /\ Leave(i).chunk = left.chunk /\ Leave(i).first_error = "truncated"
      BY <1>1, <2>1 DEF Impls
    <2>3. Rest(Leave(i)) = Rest(left)
      BY <2>2 DEF Rest
    <2>4. /\ left.terminal /\ left.chunk = <<>>
          /\ \/ left.expected = 0 /\ left.header # <<>>
             \/ left.expected # 0 /\ Len(left.frame) # left.expected
      BY <1>8 DEF Truncated
    <2> QED BY <1>2, <1>3, <1>4, <2>1, <2>2, <2>3, <2>4
  <1> QED BY <1>7, <1>8

\* What holds while process runs.
LEMMA InProcess ==
    ASSUME FrameAssumption, FrameInv, budget > 0
    PROVE  /\ framer \in Impls /\ framer.first_error = "OK" /\ framer.closed = FALSE
           /\ framer.cancelled_bytes = 0 /\ fr_late = 0
           /\ fr_connection # "freed"
           /\ budget - 1 \in 0 .. max_frames /\ 0 \in 0 .. max_frames
           /\ Len(framer.chunk) \in Nat /\ framer.pos \in Nat
           /\ framer.pos <= Len(framer.chunk)
           /\ Wire(published) \in Seq(Nat)
           /\ framer.header \in Seq(Nat) /\ framer.frame \in Seq(Nat)
           /\ stream = ((Wire(published) \o framer.header) \o framer.frame) \o Rest(framer)
           /\ fr_credit => framer.chunk = <<>> /\ ~FrameComplete(framer)
  <1>1. /\ framer \in Impls /\ budget \in 0 .. max_frames /\ published \in Seq(Seq(Byte))
    BY DEF FrameInv, FrameTypes, Impls
  <1>2. framer.first_error = "OK" /\ framer.closed = FALSE
    BY <1>1 DEF FrameInv, FrameRunning, FrameFailed, Impls
  <1>3. /\ framer.cancelled_bytes = 0 /\ fr_late = 0 /\ fr_connection # "freed"
        /\ framer.pos <= Len(framer.chunk)
    BY <1>2 DEF FrameInv, FrameRunning, FrameConnected, FrameShape
  <1>4. /\ Len(framer.chunk) \in Nat /\ framer.pos \in Nat
        /\ framer.header \in Seq(Nat) /\ framer.frame \in Seq(Nat)
    BY <1>1, Bytes DEF Impls
  <1>5. Wire(published) \in Seq(Nat)
    BY <1>1, WireAppends, EmptySeq
  <1>6. stream = ((Wire(published) \o framer.header) \o framer.frame) \o Rest(framer)
    BY <1>2 DEF FrameInv, StreamDecoded, Rest
  <1>7. fr_credit => framer.chunk = <<>> /\ ~FrameComplete(framer)
    BY <1>2 DEF FrameInv, CreditIsCovered, BackPressure
  <1>8. budget - 1 \in 0 .. max_frames /\ 0 \in 0 .. max_frames
    BY <1>1 DEF FrameAssumption
  <1> QED BY <1>1, <1>2, <1>3, <1>4, <1>5, <1>6, <1>7, <1>8

\* process: the router accepts a complete frame.
LEMMA PublishAcceptedKeeps ==
    ASSUME FrameAssumption, FrameInv, publish_accepted
    PROVE  FrameInv'
  <1> DEFINE cleared == [framer EXCEPT !.frame = <<>>, !.header = <<>>, !.expected = 0]
  <1>0. /\ budget > 0 /\ FrameComplete(framer) /\ budget' = budget - 1
        /\ published' = Append(published, framer.frame)
        /\ framer' = IF budget = 1 THEN Leave(cleared) ELSE cleared
        /\ UNCHANGED <<fr_connection, fr_credit, stream, fr_late>>
    BY DEF publish_accepted
  <1>1. framer \in Impls /\ framer.first_error = "OK" /\ framer.pos <= Len(framer.chunk)
        /\ framer.closed = FALSE /\ budget \in 0 .. max_frames /\ budget - 1 \in 0 .. max_frames
    BY <1>0, InProcess DEF FrameInv, FrameTypes
  <1>2. <<>> \in Seq(Byte) /\ Len(<<>>) = 0 /\ <<>> \in Seq(Nat)
    BY EmptySeq
  <1>3. /\ cleared \in Impls /\ cleared.pos <= Len(cleared.chunk)
        /\ cleared.first_error = "OK" /\ cleared.chunk = framer.chunk
        /\ cleared.pos = framer.pos /\ cleared.frame = <<>> /\ cleared.header = <<>>
        /\ cleared.expected = 0 /\ cleared.closed = framer.closed
        /\ cleared.armed = framer.armed /\ cleared.bound = framer.bound
        /\ cleared.terminal = framer.terminal
        /\ cleared.cancelled_bytes = framer.cancelled_bytes
    BY <1>1, <1>2 DEF Impls
  <1> HIDE DEF cleared
  <1>4. /\ framer' \in Impls /\ framer'.frame = <<>> /\ framer'.header = <<>>
        /\ framer'.expected = 0 /\ framer'.closed = FALSE
        /\ framer'.armed = framer.armed /\ framer'.bound = framer.bound
        /\ framer'.terminal = framer.terminal
        /\ framer'.cancelled_bytes = framer.cancelled_bytes
        /\ framer'.first_error = "OK"
        /\ framer'.pos <= Len(framer'.chunk) /\ Len(framer'.chunk) <= Len(framer.chunk)
        /\ Rest(framer') = Rest(framer)
    <2>1. CASE budget = 1
      <3>1. framer' = Leave(cleared)
        BY <1>0, <2>1
      <3>2. Rest(cleared) = Rest(framer)
        BY <1>3 DEF Rest
      <3> QED BY <1>1, <1>3, <3>1, <3>2, LeaveDrops
    <2>2. CASE budget # 1
      <3>1. framer' = cleared /\ Rest(cleared) = Rest(framer)
        BY <1>0, <1>3, <2>2 DEF Rest
      <3>2. Len(framer.chunk) \in Nat
        BY <1>0, InProcess
      <3> QED BY <1>1, <1>3, <3>1, <3>2
    <2> QED BY <2>1, <2>2
  <1>5. /\ framer.frame \in Seq(Byte) /\ framer.header \in Seq(Byte)
        /\ Len(framer.header) = 2 /\ Len(framer.frame) = Length(framer.header)
        /\ Len(framer.frame) <= max_frame_bytes
    BY <1>0, <1>1 DEF FrameInv, FrameShape, FrameComplete, Impls
  <1>6. FrameTypes'
    <2> DEFINE U == Seq(Byte)
    <2>1. published \in Seq(U) /\ framer.frame \in U
      BY <1>5 DEF FrameInv, FrameTypes
    <2> HIDE DEF U
    <2>2. published' \in Seq(U) /\ Len(published') = Len(published) + 1 /\ Len(published) \in Nat
      BY <1>0, <2>1
    <2>3. \A k \in 1 .. Len(published) + 1 :
             published'[k] = IF k = Len(published) + 1 THEN framer.frame ELSE published[k]
      BY <1>0, <2>1
    <2>4. \A k \in 1 .. Len(published') : Len(published'[k]) <= max_frame_bytes
      <3> SUFFICES ASSUME NEW k \in 1 .. Len(published') PROVE Len(published'[k]) <= max_frame_bytes
        OBVIOUS
      <3>1. CASE k = Len(published) + 1
        BY <1>5, <2>2, <2>3, <3>1
      <3>2. CASE k # Len(published) + 1
        <4>1. k \in 1 .. Len(published)
          BY <2>2, <3>2
        <4> QED BY <2>2, <2>3, <3>2, <4>1 DEF FrameInv, FrameTypes
      <3> QED BY <3>1, <3>2
    <2> QED BY <1>0, <1>1, <1>4, <2>2, <2>4 DEF FrameInv, FrameTypes, Impls, U
  <1>7. FrameShape'
    <2>1. Len(framer'.chunk) \in Nat /\ Len(framer.chunk) \in Nat
      BY <1>1, <1>4, Bytes DEF Impls
    <2>2. Len(framer'.chunk) <= max_receive_bytes
      BY <1>4, <2>1 DEF FrameInv, FrameShape, FrameAssumption
    <2> QED BY <1>2, <1>4, <2>2 DEF FrameShape, FrameAssumption
  <1>8. FrameRunning'
    BY <1>0, <1>1, <1>4, InProcess DEF FrameRunning, FrameFailed
  <1>9. FrameConnected' /\ FrameCut'
    <2>1. fr_connection # "freed"
      BY <1>0, InProcess
    <2> QED BY <1>0, <1>4, <2>1 DEF FrameInv, FrameConnected, FrameCut
  <1>10. CreditIsCovered' /\ BackPressure'
    <2>1. ~fr_credit
      BY <1>0, InProcess
    <2> QED BY <1>0, <1>4, <2>1 DEF FrameInv, CreditIsCovered, BackPressure
  <1>11. StreamDecoded'
    <2> DEFINE w == Wire(published)
               h == framer.header
               f == framer.frame
    <2>1. /\ w \in Seq(Nat) /\ h \in Seq(Nat) /\ f \in Seq(Nat)
          /\ stream = ((w \o h) \o f) \o Rest(framer)
      BY <1>0, InProcess
    <2>2. h \o f = Encoded(f) /\ Wire(published') = w \o Encoded(f) /\ Encoded(f) \in Seq(Nat)
      <3>1. h \o f = Encoded(f)
        BY <1>5, HeaderEncodes
      <3>2. published \in Seq(Seq(Byte))
        BY DEF FrameInv, FrameTypes
      <3>3. Wire(Append(published, f)) = w \o Encoded(f) /\ Encoded(f) \in Seq(Nat)
        BY <1>5, <3>2, WireAppends
      <3> QED BY <1>0, <3>1, <3>3
    <2> HIDE DEF w, h, f
    <2>3. (w \o h) \o f = w \o (h \o f)
      <3>1. w \in Seq(Nat) /\ h \in Seq(Nat) /\ f \in Seq(Nat)
        BY <2>1
      <3> QED BY <3>1, ConcatAssociative, SMTT(30)
    <2>4. Wire(published') \in Seq(Nat)
      BY <2>1, <2>2, ConcatProperties
    <2>5. (Wire(published') \o <<>>) \o <<>> = Wire(published')
      BY <1>2, <2>4, ConcatEmptySeq
    <2> QED BY <1>0, <1>4, <2>1, <2>2, <2>3, <2>5 DEF StreamDecoded, Rest
  <1> QED BY <1>6, <1>7, <1>8, <1>9, <1>10, <1>11 DEF FrameInv

\* process: the router refuses it, full or with an error.
LEMMA PublishRefusedKeeps ==
    ASSUME FrameAssumption, FrameInv, publish_refused
    PROVE  FrameInv'
  <1>0. /\ budget > 0 /\ FrameComplete(framer) /\ budget' = 0
        /\ framer' = mark_error(framer, "router")
        /\ UNCHANGED <<fr_connection, fr_credit, published, stream, fr_late>>
    BY DEF publish_refused
  <1>1. /\ framer \in Impls /\ framer.first_error = "OK" /\ fr_connection # "freed"
        /\ 0 \in 0 .. max_frames
    BY <1>0, InProcess
  <1>2. framer' = [framer EXCEPT !.first_error = "router"] /\ framer' \in Impls
    BY <1>0, <1>1, MarkError DEF FrameErrors, FrameFailed
  <1>3. /\ BytesKept /\ framer'.armed = framer.armed /\ framer'.bound = framer.bound
        /\ framer'.terminal = framer.terminal /\ framer'.first_error = "router"
    BY <1>0, <1>1, <1>2 DEF BytesKept, Impls, FrameFailed
  <1>4. FrameTypes'
    BY <1>0, <1>1, <1>2 DEF FrameInv, FrameTypes, Impls
  <1>5. FrameShape' /\ FrameRunning' /\ StreamDecoded'
    BY <1>0, <1>3, BytesKeptKeeps
  <1>6. FrameConnected' /\ FrameCut' /\ CreditIsCovered'
    BY <1>0, <1>3 DEF FrameInv, FrameConnected, FrameCut, CreditIsCovered, BytesKept
  <1>7. BackPressure'
    BY <1>0, <1>3 DEF FrameInv, BackPressure, BytesKept, FrameComplete
  <1> QED BY <1>4, <1>5, <1>6, <1>7 DEF FrameInv

\* process: the chunk is used up, and CNet is asked for the next one.
LEMMA ChunkEndKeeps ==
    ASSUME FrameAssumption, FrameInv, chunk_end
    PROVE  FrameInv'
  <1>0. /\ budget > 0 /\ ~FrameComplete(framer) /\ budget' = 0
        /\ framer' = Leave(framer)
        /\ UNCHANGED <<fr_connection, fr_credit, published, stream, fr_late>>
    BY DEF chunk_end
  <1>1. /\ framer \in Impls /\ framer.first_error = "OK" /\ framer.closed = FALSE
        /\ framer.pos <= Len(framer.chunk) /\ fr_connection # "freed"
        /\ 0 \in 0 .. max_frames /\ framer.cancelled_bytes = 0 /\ fr_late = 0
        /\ stream = ((Wire(published) \o framer.header) \o framer.frame) \o Rest(framer)
        /\ fr_credit => framer.chunk = <<>>
    BY <1>0, InProcess
  <1>2. /\ framer' \in Impls
        /\ framer'.header = framer.header /\ framer'.frame = framer.frame
        /\ framer'.expected = framer.expected /\ framer'.closed = framer.closed
        /\ framer'.armed = framer.armed /\ framer'.bound = framer.bound
        /\ framer'.terminal = framer.terminal
        /\ framer'.cancelled_bytes = framer.cancelled_bytes
        /\ framer'.pos <= Len(framer'.chunk)
        /\ Len(framer'.chunk) <= Len(framer.chunk)
        /\ framer'.chunk \in {framer.chunk, <<>>}
        /\ Rest(framer') = Rest(framer)
        /\ framer'.first_error \in {"OK", "truncated"}
        /\ framer'.first_error = "truncated" =>
              /\ framer.terminal /\ framer'.chunk = <<>>
              /\ \/ framer.expected = 0 /\ framer.header # <<>>
                 \/ framer.expected # 0 /\ Len(framer.frame) # framer.expected
    BY <1>0, <1>1, LeaveDrops
  <1>3. FrameTypes'
    BY <1>0, <1>1, <1>2 DEF FrameInv, FrameTypes, Impls
  <1>4. FrameShape'
    <2>1. Len(framer'.chunk) \in Nat /\ Len(framer.chunk) \in Nat
      BY <1>1, <1>2, Bytes DEF Impls
    <2>2. Len(framer'.chunk) <= max_receive_bytes
      BY <1>2, <2>1 DEF FrameInv, FrameShape, FrameAssumption
    <2>3. ~FrameFailed(framer)
      BY <1>1 DEF FrameFailed
    <2> QED BY <1>2, <2>2, <2>3 DEF FrameInv, FrameShape, Length
  <1>5. FrameRunning'
    <2>1. framer'.closed = FALSE /\ ~(budget' > 0)
      BY <1>0, <1>1, <1>2
    <2> QED BY <1>0, <1>1, <1>2, <2>1 DEF FrameRunning
  <1>6. FrameConnected'
    BY <1>0, <1>1, <1>2 DEF FrameInv, FrameConnected
  <1>7. FrameCut'
    <2> SUFFICES ASSUME framer'.first_error = "truncated"
                 PROVE  /\ fr_connection \in {"closed", "failed"}
                        /\ framer'.chunk = <<>> /\ framer'.header # <<>>
                        /\ ~FrameComplete(framer')
      BY <1>0 DEF FrameCut
    <2>1. framer.terminal /\ framer'.chunk = <<>>
      BY <1>2
    <2>2. fr_connection \in {"closed", "failed"}
      BY <1>1, <2>1 DEF FrameInv, FrameConnected
    <2>3. framer.header # <<>>
      <3>1. framer.expected # 0 => Len(framer.header) = 2
        BY DEF FrameInv, FrameShape
      <3>2. Len(<<>>) = 0
        BY EmptySeq
      <3>3. framer.expected # 0 \/ framer.header # <<>>
        BY <1>2
      <3>4. Len(framer.header) = 2 => framer.header # <<>>
        BY <3>2
      <3> QED BY <3>1, <3>3, <3>4
    <2> QED BY <1>0, <1>2, <2>1, <2>2, <2>3 DEF FrameComplete
  <1>8. CreditIsCovered' /\ BackPressure'
    BY <1>0, <1>1, <1>2 DEF FrameInv, CreditIsCovered, BackPressure, FrameComplete
  <1>9. StreamDecoded'
    BY <1>0, <1>1, <1>2 DEF StreamDecoded, Rest
  <1> QED BY <1>3, <1>4, <1>5, <1>6, <1>7, <1>8, <1>9 DEF FrameInv

\* A byte of the chunk is taken: what the two decoding steps have in common.
LEMMA ByteTaken ==
    ASSUME FrameAssumption, FrameInv, budget > 0, ~FrameComplete(framer),
           framer.pos # Len(framer.chunk)
    PROVE  /\ framer \in Impls /\ framer.first_error = "OK" /\ framer.closed = FALSE
           /\ framer.cancelled_bytes = 0 /\ fr_late = 0
           /\ fr_connection # "freed" /\ fr_credit = FALSE
           /\ framer.pos < Len(framer.chunk)
           /\ framer.pos + 1 \in Nat /\ framer.pos + 1 <= Len(framer.chunk)
           /\ framer.chunk[framer.pos + 1] \in Byte
           /\ Append(framer.header, framer.chunk[framer.pos + 1]) \in Seq(Byte)
           /\ Len(Append(framer.header, framer.chunk[framer.pos + 1])) = Len(framer.header) + 1
           /\ Append(framer.frame, framer.chunk[framer.pos + 1]) \in Seq(Byte)
           /\ Len(Append(framer.frame, framer.chunk[framer.pos + 1])) = Len(framer.frame) + 1
           /\ stream = Append((Wire(published) \o framer.header) \o framer.frame,
                              framer.chunk[framer.pos + 1])
                         \o SubSeq(framer.chunk, framer.pos + 2, Len(framer.chunk))
           /\ Wire(published) \in Seq(Nat)
           /\ framer.header \in Seq(Byte) /\ framer.frame \in Seq(Byte)
  <1> DEFINE x == framer.chunk[framer.pos + 1]
  <1>1. /\ framer \in Impls /\ framer.first_error = "OK" /\ framer.closed = FALSE
        /\ framer.cancelled_bytes = 0 /\ fr_late = 0 /\ fr_connection # "freed"
        /\ Len(framer.chunk) \in Nat /\ framer.pos \in Nat
        /\ framer.pos <= Len(framer.chunk)
        /\ Wire(published) \in Seq(Nat)
        /\ framer.header \in Seq(Nat) /\ framer.frame \in Seq(Nat)
        /\ stream = ((Wire(published) \o framer.header) \o framer.frame) \o Rest(framer)
        /\ fr_credit => framer.chunk = <<>>
    BY InProcess
  <1>2. /\ framer.pos < Len(framer.chunk)
        /\ framer.pos + 1 \in Nat /\ framer.pos + 1 <= Len(framer.chunk)
    BY <1>1
  <1>3. fr_credit = FALSE
    <2>1. Len(<<>>) = 0
      BY EmptySeq
    <2> QED BY <1>1, <1>2, <2>1 DEF FrameInv, FrameTypes
  <1>4. framer.chunk \in Seq(Byte) /\ framer.header \in Seq(Byte) /\ framer.frame \in Seq(Byte)
    BY <1>1 DEF Impls
  <1> DEFINE w == (Wire(published) \o framer.header) \o framer.frame
  <1>5. w \in Seq(Nat)
    BY <1>1, ConcatProperties
  <1>6. /\ x \in Byte
        /\ w \o Rest(framer) = Append(w, x) \o SubSeq(framer.chunk, framer.pos + 2, Len(framer.chunk))
    <2> HIDE DEF w
    <2> DEFINE c == framer.chunk
               p == framer.pos
    <2>1. c \in Seq(Byte) /\ p \in Nat /\ p < Len(c)
      BY <1>1, <1>2, <1>4
    <2> HIDE DEF c, p
    <2>2. /\ c[p + 1] \in Byte
          /\ w \o SubSeq(c, p + 1, Len(c)) = Append(w, c[p + 1]) \o SubSeq(c, p + 2, Len(c))
      BY <1>5, <2>1, ByteMoves
    <2> QED BY <2>2 DEF c, p, Rest
  <1> HIDE DEF x
  <1>7. /\ Append(framer.header, x) \in Seq(Byte)
        /\ Len(Append(framer.header, x)) = Len(framer.header) + 1
        /\ Append(framer.frame, x) \in Seq(Byte)
        /\ Len(Append(framer.frame, x)) = Len(framer.frame) + 1
    BY <1>4, <1>6, AppendProperties
  <1> QED BY <1>1, <1>2, <1>3, <1>4, <1>6, <1>7 DEF x

\* process: a byte of the frame.
LEMMA TakeFrameKeeps ==
    ASSUME FrameAssumption, FrameInv, take_frame
    PROVE  FrameInv'
  <1> DEFINE x == framer.chunk[framer.pos + 1]
             h == framer.header
             f == framer.frame
             w == Wire(published)
  <1>0. /\ budget > 0 /\ ~FrameComplete(framer) /\ framer.pos # Len(framer.chunk)
        /\ Len(h) = 2
        /\ framer' = [framer EXCEPT !.pos = framer.pos + 1, !.frame = Append(f, x)]
        /\ UNCHANGED <<budget, fr_connection, fr_credit, published, stream, fr_late>>
    BY InProcess DEF take_frame, Impls
  <1>1. /\ framer \in Impls /\ framer.first_error = "OK" /\ framer.closed = FALSE
        /\ framer.cancelled_bytes = 0 /\ fr_late = 0
        /\ fr_connection # "freed" /\ fr_credit = FALSE
        /\ framer.pos + 1 \in Nat /\ framer.pos + 1 <= Len(framer.chunk)
        /\ x \in Byte /\ Append(f, x) \in Seq(Byte) /\ Len(Append(f, x)) = Len(f) + 1
        /\ stream = Append((w \o h) \o f, x) \o SubSeq(framer.chunk, framer.pos + 2, Len(framer.chunk))
        /\ w \in Seq(Nat) /\ h \in Seq(Byte) /\ f \in Seq(Byte)
    BY <1>0, ByteTaken
  <1>2. /\ framer' \in Impls /\ framer'.pos = framer.pos + 1 /\ framer'.frame = Append(f, x)
        /\ framer'.chunk = framer.chunk /\ framer'.header = h
        /\ framer'.expected = framer.expected /\ framer'.closed = FALSE
        /\ framer'.armed = framer.armed /\ framer'.bound = framer.bound
        /\ framer'.terminal = framer.terminal /\ framer'.first_error = "OK"
        /\ framer'.cancelled_bytes = 0
    BY <1>0, <1>1 DEF Impls
  <1>3. FrameTypes'
    BY <1>0, <1>2 DEF FrameInv, FrameTypes, Impls
  <1>4. FrameShape'
    <2>1. framer.expected \in 1 .. max_frame_bytes /\ Len(f) <= framer.expected /\ Len(f) \in Nat
      BY <1>0, <1>1, Bytes DEF FrameInv, FrameShape, FrameFailed
    <2>2. Len(f) + 1 <= framer.expected /\ Len(f) + 1 <= max_frame_bytes
      BY <1>0, <2>1 DEF FrameComplete, FrameAssumption
    <2> QED BY <1>0, <1>1, <1>2, <2>1, <2>2 DEF FrameInv, FrameShape, Length
  <1>5. FrameRunning'
    BY <1>0, <1>1, <1>2 DEF FrameRunning, FrameFailed
  <1>6. FrameConnected' /\ FrameCut' /\ BackPressure'
    BY <1>0, <1>1, <1>2 DEF FrameInv, FrameConnected, FrameCut, BackPressure
  <1>7. CreditIsCovered'
    BY <1>0, <1>1, <1>2 DEF FrameInv, CreditIsCovered
  <1>8. StreamDecoded'
    <2>1. h \in Seq(Nat) /\ f \in Seq(Nat) /\ x \in Nat
      BY <1>1, Bytes
    <2>2. (w \o h) \in Seq(Nat)
      BY <1>1, <2>1, ConcatProperties
    <2>3. Append((w \o h) \o f, x) = (w \o h) \o Append(f, x)
      <3> DEFINE a == w \o h
                 one == <<x>>
      <3>0. a \in Seq(Nat) /\ one \in Seq(Nat)
        BY <2>1, <2>2
      <3>1. Append(f, x) = f \o one
        BY <2>1, AppendIsConcat
      <3> HIDE DEF a
      <3>2. a \o f \in Seq(Nat)
        BY <2>1, <3>0, ConcatProperties
      <3>3. Append(a \o f, x) = (a \o f) \o one
        BY <2>1, <3>2, AppendIsConcat
      <3> HIDE DEF one, f
      <3>4. (a \o f) \o one = a \o (f \o one)
        BY <2>1, <3>0, ConcatAssociative, SMTT(30)
      <3> QED BY <3>1, <3>3, <3>4 DEF a, f
    <2>4. (framer.pos + 1) + 1 = framer.pos + 2
      BY <1>1 DEF Impls
    <2> QED BY <1>0, <1>1, <1>2, <2>3, <2>4 DEF StreamDecoded
  <1> QED BY <1>3, <1>4, <1>5, <1>6, <1>7, <1>8 DEF FrameInv

\* process: a byte of the header; the second one gives the length.
LEMMA TakeHeaderKeeps ==
    ASSUME FrameAssumption, FrameInv, take_header
    PROVE  FrameInv'
  <1> DEFINE x == framer.chunk[framer.pos + 1]
             h == framer.header
             w == Wire(published)
             header == Append(h, x)
             taken == [framer EXCEPT !.header = header, !.pos = framer.pos + 1]
             sized == [taken EXCEPT !.expected = Length(header)]
             bad == Length(header) = 0 \/ Length(header) > max_frame_bytes
  <1>0. /\ budget > 0 /\ ~FrameComplete(framer) /\ framer.pos # Len(framer.chunk)
        /\ Len(h) # 2
        /\ UNCHANGED <<fr_connection, fr_credit, published, stream, fr_late>>
        /\ \/ Len(header) # 2 /\ framer' = taken /\ budget' = budget
           \/ Len(header) = 2 /\ ~bad /\ framer' = sized /\ budget' = budget
           \/ /\ Len(header) = 2 /\ bad /\ budget' = 0
              /\ \E e \in {"EPROTO", "EMSGSIZE"} : framer' = mark_error(sized, e)
    BY DEF take_header
  <1>1. /\ framer \in Impls /\ framer.first_error = "OK" /\ framer.closed = FALSE
        /\ framer.cancelled_bytes = 0 /\ fr_late = 0
        /\ fr_connection # "freed" /\ fr_credit = FALSE
        /\ framer.pos + 1 \in Nat /\ framer.pos + 1 <= Len(framer.chunk)
        /\ x \in Byte /\ header \in Seq(Byte) /\ Len(header) = Len(h) + 1
        /\ stream = Append((w \o h) \o framer.frame, x)
                      \o SubSeq(framer.chunk, framer.pos + 2, Len(framer.chunk))
        /\ w \in Seq(Nat) /\ h \in Seq(Byte)
    BY <1>0, ByteTaken
  <1>2. /\ framer.frame = <<>> /\ framer.expected = 0 /\ Len(h) \in Nat /\ Len(h) < 2
        /\ <<>> \in Seq(Byte) /\ Len(<<>>) = 0
    <2>1. Len(h) \in Nat /\ <<>> \in Seq(Byte) /\ Len(<<>>) = 0
      BY <1>1, Bytes, EmptySeq
    <2>2. Len(h) <= 2 /\ framer.frame = <<>> /\ framer.expected = 0
      BY <1>0 DEF FrameInv, FrameShape
    <2> DEFINE n == Len(h)
    <2>3. n \in Nat /\ n <= 2 /\ n # 2
      BY <1>0, <2>1, <2>2
    <2> HIDE DEF n
    <2>4. n < 2
      BY <2>3
    <2> QED BY <2>1, <2>2, <2>4 DEF n
  <1>3. /\ taken \in Impls /\ taken.header = header /\ taken.pos = framer.pos + 1
        /\ taken.chunk = framer.chunk /\ taken.frame = <<>> /\ taken.expected = 0
        /\ taken.closed = FALSE /\ taken.armed = framer.armed
        /\ taken.bound = framer.bound /\ taken.terminal = framer.terminal
        /\ taken.first_error = "OK" /\ taken.cancelled_bytes = 0
    BY <1>1, <1>2 DEF Impls
  <1>4. Len(header) = 2 => Length(header) \in Nat
    <2> SUFFICES ASSUME Len(header) = 2 PROVE Length(header) \in Nat
      OBVIOUS
    <2>1. header[1] \in Byte /\ header[2] \in Byte
      BY <1>1, ElementOfSeq
    <2>2. header[1] * Base + header[2] \in Nat
      BY <2>1, HeaderReads
    <2> QED BY <2>2 DEF Length
  <1>5. /\ framer' \in Impls /\ framer'.header = header /\ framer'.pos = framer.pos + 1
        /\ framer'.chunk = framer.chunk /\ framer'.frame = <<>>
        /\ framer'.closed = FALSE /\ framer'.armed = framer.armed
        /\ framer'.bound = framer.bound /\ framer'.terminal = framer.terminal
        /\ framer'.cancelled_bytes = 0
        /\ framer'.first_error \in {"OK", "EPROTO", "EMSGSIZE"}
        /\ budget' \in 0 .. max_frames
        /\ budget' > 0 => framer'.first_error = "OK"
        /\ Len(header) # 2 => framer'.expected = 0
        /\ Len(header) = 2 => framer'.expected = Length(header)
        /\ Len(header) = 2 /\ framer'.first_error = "OK" =>
              Length(header) # 0 /\ Length(header) <= max_frame_bytes
    <2>0. budget \in 0 .. max_frames /\ 0 \in 0 .. max_frames
      BY DEF FrameInv, FrameTypes, FrameAssumption
    <2> HIDE DEF taken, header
    <2>1. CASE Len(header) # 2 /\ framer' = taken /\ budget' = budget
      BY <1>3, <2>0, <2>1
    <2>2. ASSUME Len(header) = 2
          PROVE  /\ sized \in Impls /\ sized.header = header /\ sized.pos = framer.pos + 1
                 /\ sized.chunk = framer.chunk /\ sized.frame = <<>>
                 /\ sized.expected = Length(header)
                 /\ sized.closed = FALSE /\ sized.armed = framer.armed
                 /\ sized.bound = framer.bound /\ sized.terminal = framer.terminal
                 /\ sized.first_error = "OK" /\ sized.cancelled_bytes = 0
      BY <1>3, <1>4, <2>2 DEF Impls
    <2>3. CASE Len(header) = 2 /\ ~bad /\ framer' = sized /\ budget' = budget
      <3>1. Length(header) # 0 /\ Length(header) <= max_frame_bytes
        BY <1>4, <2>3 DEF FrameAssumption
      <3> HIDE DEF sized
      <3> QED BY <2>0, <2>2, <2>3, <3>1
    <2>4. CASE /\ Len(header) = 2 /\ bad /\ budget' = 0
               /\ \E e \in {"EPROTO", "EMSGSIZE"} : framer' = mark_error(sized, e)
      <3>1. PICK e \in {"EPROTO", "EMSGSIZE"} : framer' = mark_error(sized, e)
        BY <2>4
      <3> HIDE DEF sized
      <3>2. framer' = [sized EXCEPT !.first_error = e] /\ framer' \in Impls
        BY <2>2, <2>4, <3>1, MarkError DEF FrameErrors, FrameFailed
      <3>3. /\ framer'.header = sized.header /\ framer'.pos = sized.pos
            /\ framer'.chunk = sized.chunk /\ framer'.frame = sized.frame
            /\ framer'.closed = sized.closed /\ framer'.armed = sized.armed
            /\ framer'.bound = sized.bound /\ framer'.terminal = sized.terminal
            /\ framer'.cancelled_bytes = sized.cancelled_bytes
            /\ framer'.expected = sized.expected /\ framer'.first_error = e
        BY <2>2, <2>4, <3>2 DEF Impls
      <3>4. framer'.first_error # "OK" /\ ~(budget' > 0)
        BY <2>4, <3>3
      <3> QED BY <2>0, <2>2, <2>4, <3>2, <3>3, <3>4
    <2> QED BY <1>0, <2>1, <2>3, <2>4 DEF header, taken
  <1>6. FrameTypes'
    BY <1>0, <1>5 DEF FrameInv, FrameTypes, Impls
  <1>7. FrameShape'
    <2>1. Len(header) = 2 => Length(header) \in Nat /\ 0 <= Length(header)
      BY <1>4
    <2>2. Len(header) <= 2
      BY <1>1, <1>2
    <2>3. 0 <= framer'.expected
      BY <1>5, <2>1
    <2>4. framer'.pos <= Len(framer'.chunk) /\ Len(framer'.chunk) <= max_receive_bytes
      BY <1>1, <1>5 DEF FrameInv, FrameShape
    <2>5. Len(framer'.header) # 2 => framer'.expected = 0 /\ framer'.frame = <<>>
      BY <1>5
    <2>6. Len(framer'.header) = 2 => framer'.expected = Length(framer'.header)
      BY <1>5
    <2>7. Len(framer'.header) = 2 /\ ~FrameFailed(framer') => framer'.expected \in 1 .. max_frame_bytes
      BY <1>5, <2>1 DEF FrameFailed, FrameAssumption
    <2>8. Len(framer'.frame) <= framer'.expected /\ Len(framer'.frame) <= max_frame_bytes
      BY <1>2, <1>5, <2>3 DEF FrameAssumption
    <2> QED BY <1>5, <2>2, <2>4, <2>5, <2>6, <2>7, <2>8 DEF FrameShape
  <1>8. FrameRunning'
    BY <1>0, <1>1, <1>5 DEF FrameRunning, FrameFailed
  <1>9. FrameConnected' /\ FrameCut' /\ BackPressure'
    BY <1>0, <1>1, <1>5 DEF FrameInv, FrameConnected, FrameCut, BackPressure
  <1>10. CreditIsCovered'
    BY <1>0, <1>1, <1>5 DEF FrameInv, CreditIsCovered
  <1>11. StreamDecoded'
    <2>1. h \in Seq(Nat) /\ header \in Seq(Nat) /\ x \in Nat
      BY <1>1, Bytes
    <2>2. w \o h \in Seq(Nat) /\ w \o header \in Seq(Nat)
      BY <1>1, <2>1, ConcatProperties
    <2>3. (w \o h) \o framer.frame = w \o h /\ (w \o header) \o <<>> = w \o header
      BY <1>2, <2>2, ConcatEmptySeq
    <2>4. Append(w \o h, x) = w \o header
      <3> DEFINE one == <<x>>
      <3>0. one \in Seq(Nat)
        BY <2>1
      <3>1. header = h \o one /\ Append(w \o h, x) = (w \o h) \o one
        BY <2>1, <2>2, AppendIsConcat
      <3> HIDE DEF one, h, header, w
      <3>2. (w \o h) \o one = w \o (h \o one)
        <4>1. w \in Seq(Nat) /\ h \in Seq(Nat) /\ one \in Seq(Nat)
          BY <1>1, <2>1, <3>0
        <4> QED BY <4>1, ConcatAssociative, SMTT(30)
      <3> QED BY <3>1, <3>2
    <2>5. (framer.pos + 1) + 1 = framer.pos + 2
      BY <1>1 DEF Impls
    <2> QED BY <1>0, <1>1, <1>5, <2>3, <2>4, <2>5 DEF StreamDecoded
  <1> QED BY <1>6, <1>7, <1>8, <1>9, <1>10, <1>11 DEF FrameInv

\* close gives back every byte that was not published.
LEMMA FrameCloseKeeps ==
    ASSUME FrameAssumption, FrameInv, frame_close
    PROVE  FrameInv'
  <1> DEFINE n == Unfinished(framer)
  <1>0. /\ budget = 0 /\ ~framer.closed /\ framer \in Impls
        /\ framer' = [framer EXCEPT !.closed = TRUE,
                        !.cancelled_bytes = framer.cancelled_bytes + n,
                        !.chunk = <<>>, !.pos = 0, !.frame = <<>>,
                        !.expected = 0, !.header = <<>>]
        /\ UNCHANGED <<budget, fr_connection, fr_credit, published, stream, fr_late>>
    BY DEF frame_close, FrameIdle, FrameInv, FrameTypes, Impls
  <1>1. /\ <<>> \in Seq(Byte) /\ Len(<<>>) = 0
        /\ framer.cancelled_bytes = 0 /\ fr_late = 0
    BY <1>0, EmptySeq DEF FrameInv, FrameRunning
  <1>2. /\ Len(framer.chunk) \in Nat /\ framer.pos \in Nat
        /\ framer.pos <= Len(framer.chunk)
        /\ framer.header \in Seq(Nat) /\ framer.frame \in Seq(Nat)
        /\ Len(framer.frame) \in Nat /\ Len(framer.header) \in Nat
        /\ framer.chunk \in Seq(Nat)
    BY <1>0, Bytes DEF Impls, FrameInv, FrameShape
  <1>3. /\ n = Len(framer.chunk) - framer.pos + Len(framer.frame)
               + Len(framer.header)
        /\ n \in Nat
    <2> DEFINE c == Len(framer.chunk)
               p == framer.pos
               f == Len(framer.frame)
               h == Len(framer.header)
    <2>1. n = c - p + f + h
      BY Zenon DEF Unfinished
    <2>2. c \in Nat /\ p \in Nat /\ p <= c /\ f \in Nat /\ h \in Nat
      BY <1>2
    <2> HIDE DEF n, c, p, f, h
    <2>3. n \in Nat
      BY <2>1, <2>2
    <2> QED BY <2>1, <2>3 DEF c, p, f, h
  <1> HIDE DEF n
  <1>4. /\ framer' \in Impls /\ framer'.closed = TRUE /\ framer'.cancelled_bytes = n
        /\ framer'.chunk = <<>> /\ framer'.pos = 0 /\ framer'.frame = <<>>
        /\ framer'.expected = 0 /\ framer'.header = <<>>
        /\ framer'.armed = framer.armed /\ framer'.bound = framer.bound
        /\ framer'.terminal = framer.terminal
        /\ framer'.first_error = framer.first_error
    <2>1. framer.cancelled_bytes + n = n
      BY <1>1, <1>3
    <2>2. framer' = [framer EXCEPT !.closed = TRUE, !.cancelled_bytes = n,
                        !.chunk = <<>>, !.pos = 0, !.frame = <<>>,
                        !.expected = 0, !.header = <<>>]
      BY <1>0, <2>1, Zenon
    <2>3. n \in Nat /\ <<>> \in Seq(Byte) /\ framer \in Impls
      BY <1>0, <1>1, <1>3
    <2> QED BY <2>2, <2>3 DEF Impls
  \* Every byte of the stream was published or is given back now.
  <1>5. Len(stream) = Len(Wire(published)) + n
    <2> DEFINE w == Wire(published)
               h == framer.header
               f == framer.frame
               r == SubSeq(framer.chunk, framer.pos + 1, Len(framer.chunk))
    <2>1. w \in Seq(Nat)
      BY WireAppends, EmptySeq DEF FrameInv, FrameTypes
    <2>2. r \in Seq(Nat) /\ Len(r) = Len(framer.chunk) - framer.pos
      <3>1. \A i \in framer.pos + 1 .. Len(framer.chunk) : framer.chunk[i] \in Nat
        <4>1. \A i \in framer.pos + 1 .. Len(framer.chunk) : i \in 1 .. Len(framer.chunk)
          BY <1>2
        <4>2. \A i \in 1 .. Len(framer.chunk) : framer.chunk[i] \in Nat
          BY <1>2, ElementOfSeq
        <4> QED BY <4>1, <4>2, Zenon
      <3>2. framer.pos + 1 \in Int /\ Len(framer.chunk) \in Int
        BY <1>2
      <3>3. /\ r \in Seq(Nat)
            /\ Len(r) = IF framer.pos + 1 <= Len(framer.chunk)
                        THEN Len(framer.chunk) - (framer.pos + 1) + 1 ELSE 0
        BY <3>1, <3>2, SubSeqProperties
      <3> QED BY <1>2, <3>3
    <2>3. stream = ((w \o h) \o f) \o r
      BY <1>0 DEF FrameInv, StreamDecoded
    <2>4. h \in Seq(Nat) /\ f \in Seq(Nat)
      BY <1>2
    <2>5. n = Len(r) + Len(f) + Len(h)
      BY <1>2, <1>3, <2>2
    <2> HIDE DEF w, h, f, r
    <2>6. w \o h \in Seq(Nat) /\ Len(w \o h) = Len(w) + Len(h)
      BY <2>1, <2>4, ConcatProperties
    <2>7. (w \o h) \o f \in Seq(Nat) /\ Len((w \o h) \o f) = Len(w \o h) + Len(f)
      BY <2>4, <2>6, ConcatProperties
    <2>8. Len(stream) = Len((w \o h) \o f) + Len(r)
      BY <2>2, <2>3, <2>7, ConcatProperties
    <2>9. Len(w) \in Nat /\ Len(h) \in Nat /\ Len(f) \in Nat /\ Len(r) \in Nat
      BY <2>1, <2>2, <2>4, LenProperties
    <2> QED BY <2>5, <2>6, <2>7, <2>8, <2>9 DEF w
  <1>6. FrameTypes'
    BY <1>0, <1>4 DEF FrameInv, FrameTypes, Impls
  <1>7. FrameShape'
    BY <1>1, <1>4 DEF FrameShape, FrameAssumption
  <1>8. FrameRunning'
    BY <1>0, <1>1, <1>4, <1>5 DEF FrameRunning, FrameInv, FrameTypes
  <1>9. FrameConnected' /\ FrameCut' /\ StreamDecoded'
    BY <1>0, <1>4 DEF FrameInv, FrameConnected, FrameCut, StreamDecoded
  <1>10. CreditIsCovered' /\ BackPressure'
    BY <1>0, <1>4 DEF FrameInv, CreditIsCovered, BackPressure, FrameComplete
  <1> QED BY <1>6, <1>7, <1>8, <1>9, <1>10 DEF FrameInv

\* Every callback, call and decoding step keeps the invariant.
LEMMA FrameStep == FrameAssumption /\ FrameInv /\ [FrameNext]_frameVars => FrameInv'
  <1> SUFFICES ASSUME FrameAssumption, FrameInv, [FrameNext]_frameVars PROVE FrameInv'
    OBVIOUS
  <1>1. CASE UNCHANGED frameVars
    <2>1. FrameTypes' /\ FrameShape'
      BY <1>1 DEF frameVars, FrameInv, FrameTypes, FrameShape, FrameFailed
    <2>2. FrameRunning' /\ FrameConnected' /\ FrameCut'
      BY <1>1 DEF frameVars, FrameInv, FrameRunning, FrameConnected, FrameCut,
                  FrameFailed, FrameComplete
    <2>3. StreamDecoded' /\ CreditIsCovered' /\ BackPressure'
      BY <1>1 DEF frameVars, FrameInv, StreamDecoded, CreditIsCovered, BackPressure,
                  FrameComplete
    <2> QED BY <2>1, <2>2, <2>3 DEF FrameInv
  <1>2. CASE FrameNext
    BY <1>2, OnStateKeeps, OnReceiveKeeps, FrameBindKeeps, FrameArmKeeps, CountingKeeps,
       PublishAcceptedKeeps, PublishRefusedKeeps, ChunkEndKeeps, TakeHeaderKeeps,
       TakeFrameKeeps, FrameCloseKeeps
       DEF FrameNext, FrameEndOfConnection, Process
  <1> QED BY <1>1, <1>2

\* The invariant gives what the bridge promises.
LEMMA FrameConsequences == FrameAssumption /\ FrameInv => FrameSound
  <1> SUFFICES ASSUME FrameAssumption, FrameInv PROVE FrameSound
    OBVIOUS
  <1>0. /\ framer \in Impls /\ published \in Seq(Seq(Byte)) /\ fr_late \in Nat
        /\ Wire(published) \in Seq(Nat) /\ stream \in Seq(Byte)
    <2>1. framer \in Impls /\ published \in Seq(Seq(Byte)) /\ fr_late \in Nat /\ stream \in Seq(Byte)
      BY DEF FrameInv, FrameTypes, Impls, FrameAssumption
    <2> QED BY <2>1, WireAppends, EmptySeq
  <1>1. FrameTypeOK
    <2>1. max_receive_bytes \in Nat /\ max_frame_bytes \in Nat /\ 2 \in Nat
      BY DEF FrameAssumption
    <2>2. /\ framer.chunk \in SeqUpTo(max_receive_bytes)
          /\ framer.frame \in SeqUpTo(max_frame_bytes)
          /\ framer.header \in SeqUpTo(2)
      BY <1>0, <2>1, Bytes DEF FrameInv, FrameShape, Impls
    <2>3. framer.pos \in 0 .. max_receive_bytes
      <3>1. Len(framer.chunk) \in Nat /\ framer.pos \in Nat
        BY <1>0, Bytes DEF Impls
      <3> QED BY <2>1, <3>1 DEF FrameInv, FrameShape
    <2>4. framer.expected \in 0 .. Base * Base - 1
      <3>1. CASE Len(framer.header) = 2
        <4>1. framer.header[1] \in Byte /\ framer.header[2] \in Byte
          BY <1>0, <3>1, ElementOfSeq DEF Impls
        <4>2. framer.header[1] * Base + framer.header[2] \in 0 .. Base * Base - 1
          BY <4>1, HeaderReads
        <4> QED BY <3>1, <4>2 DEF FrameInv, FrameShape, Length
      <3>2. CASE Len(framer.header) # 2
        <4>1. 0 \in Byte
          BY DEF Byte, FrameAssumption
        <4>2. 0 * Base + 0 \in 0 .. Base * Base - 1 /\ 0 * Base + 0 = 0
          BY <4>1, HeaderReads DEF FrameAssumption
        <4> QED BY <3>2, <4>2 DEF FrameInv, FrameShape
      <3> QED BY <3>1, <3>2
    <2>5. framer \in FrameImpl
      BY <1>0, <2>2, <2>3, <2>4 DEF FrameImpl, Impls
    <2>6. published \in Seq(SeqUpTo(max_frame_bytes))
      <3> DEFINE U == Seq(Byte)
                 V == SeqUpTo(max_frame_bytes)
      <3>0. \A s : s \in U /\ Len(s) <= max_frame_bytes => s \in V
        BY <2>1, Bytes
      <3>1. published \in Seq(U) /\ \A k \in 1 .. Len(published) : Len(published[k]) <= max_frame_bytes
        BY <1>0 DEF FrameInv, FrameTypes
      <3> HIDE DEF U, V
      <3>2. Len(published) \in Nat /\ published \in [1 .. Len(published) -> U]
        BY <3>1, LenProperties
      <3>3. published \in [1 .. Len(published) -> V]
        BY <3>0, <3>1, <3>2
      <3>4. published \in UNION {[1 .. m -> V] : m \in Nat}
        BY <3>2, <3>3
      <3> QED BY <3>4, SeqDef DEF V
    <2> QED BY <2>5, <2>6 DEF FrameTypeOK, FrameInv, FrameTypes
  <1>2. FrameAccounting
    <2> DEFINE w == Wire(published)
               h == framer.header
               f == framer.frame
               c == framer.chunk
               p == framer.pos
    <2>1. /\ w \in Seq(Nat) /\ h \in Seq(Nat) /\ f \in Seq(Nat) /\ c \in Seq(Nat)
          /\ p \in Nat /\ p <= Len(c) /\ Len(stream) \in Nat /\ fr_late \in Nat
      BY <1>0, Bytes DEF Impls, FrameInv, FrameShape
    <2>2. /\ Len(w) \in Nat /\ Len(h) \in Nat /\ Len(f) \in Nat /\ Len(c) \in Nat
      BY <2>1, LenProperties
    <2>3. Len(((w \o h) \o f) \o c) = Len(w) + Len(h) + Len(f) + Len(c)
      <3> HIDE DEF w, h, f, c
      <3>1. w \o h \in Seq(Nat) /\ Len(w \o h) = Len(w) + Len(h)
        BY <2>1, ConcatProperties
      <3>2. (w \o h) \o f \in Seq(Nat) /\ Len((w \o h) \o f) = Len(w \o h) + Len(f)
        BY <2>1, <3>1, ConcatProperties
      <3>3. Len(((w \o h) \o f) \o c) = Len((w \o h) \o f) + Len(c)
        BY <2>1, <3>2, ConcatProperties
      <3> QED BY <2>2, <3>1, <3>2, <3>3
    <2>4. CASE framer.closed
      <3>1. /\ Len(h) = 0 /\ Len(f) = 0 /\ Len(c) = 0 /\ p = 0
            /\ Len(stream) + fr_late = Len(w) + framer.cancelled_bytes
        BY <2>4, EmptySeq DEF FrameInv, FrameRunning
      <3>2. framer.cancelled_bytes \in Nat
        BY <1>0 DEF Impls
      <3> DEFINE all == Len(((w \o h) \o f) \o c)
                 s == Len(stream)
                 a == Len(w)
                 b == Len(h)
                 d == Len(f)
                 e == Len(c)
                 z == framer.cancelled_bytes
      <3>3. /\ all = a + b + d + e /\ s + fr_late = a + z
            /\ b = 0 /\ d = 0 /\ e = 0 /\ p = 0 /\ a \in Nat /\ z \in Nat
        BY <2>2, <2>3, <3>1, <3>2
      <3> HIDE DEF all, s, a, b, d, e, z, p
      <3>4. s + fr_late = all - p + z
        BY <3>3
      <3> QED BY <3>4, Zenon DEF FrameAccounting, all, s, z, w, h, f, c, p
    <2>5. CASE ~framer.closed
      <3> DEFINE r == SubSeq(c, p + 1, Len(c))
      <3>1. framer.cancelled_bytes = 0 /\ fr_late = 0 /\ stream = ((w \o h) \o f) \o r
        BY <2>5 DEF FrameInv, FrameRunning, StreamDecoded
      <3>2. r \in Seq(Nat) /\ Len(r) = Len(c) - p
        <4>1. \A i \in p + 1 .. Len(c) : c[i] \in Nat
          <5>1. \A i \in p + 1 .. Len(c) : i \in 1 .. Len(c)
            BY <2>1, <2>2
          <5> HIDE DEF c, p
          <5>2. \A i \in 1 .. Len(c) : c[i] \in Nat
            BY <2>1, ElementOfSeq
          <5> QED BY <5>1, <5>2, Zenon
        <4>2. p + 1 \in Int /\ Len(c) \in Int
          BY <2>1, <2>2
        <4>3. /\ r \in Seq(Nat)
              /\ Len(r) = IF p + 1 <= Len(c) THEN Len(c) - (p + 1) + 1 ELSE 0
          <5> HIDE DEF c, p
          <5> QED BY <4>1, <4>2, SubSeqProperties
        <4>4. p + 1 <= Len(c) \/ p = Len(c)
          BY <2>1, <2>2
        <4> HIDE DEF r, c, p
        <4> QED BY <2>1, <2>2, <4>3, <4>4
      <3> HIDE DEF w, h, f, r
      <3>3. w \o h \in Seq(Nat) /\ Len(w \o h) = Len(w) + Len(h)
        BY <2>1, ConcatProperties
      <3>4. (w \o h) \o f \in Seq(Nat) /\ Len((w \o h) \o f) = Len(w \o h) + Len(f)
        BY <2>1, <3>3, ConcatProperties
      <3>5. Len(stream) = Len((w \o h) \o f) + Len(r)
        BY <3>1, <3>2, <3>4, ConcatProperties
      <3>6. Len(stream) = Len(w) + Len(h) + Len(f) + Len(c) - p
        BY <2>1, <2>2, <3>2, <3>3, <3>4, <3>5
      <3> DEFINE all == Len(((w \o h) \o f) \o c)
                 s == Len(stream)
                 a == Len(w)
                 b == Len(h)
                 d == Len(f)
                 e == Len(c)
      <3>7. /\ all = a + b + d + e /\ s = a + b + d + e - p
            /\ fr_late = 0 /\ framer.cancelled_bytes = 0
            /\ a \in Nat /\ b \in Nat /\ d \in Nat /\ e \in Nat /\ p \in Nat
        BY <2>1, <2>2, <2>3, <3>1, <3>6
      <3> HIDE DEF all, s, a, b, d, e, p
      <3>8. s + fr_late = all - p + framer.cancelled_bytes
        BY <3>7
      <3> QED BY <3>8, Zenon DEF FrameAccounting, all, s, w, h, f, c, p
    <2> QED BY <2>4, <2>5
  <1>3. TruncatedMeansCut
    <2> SUFFICES ASSUME framer.first_error = "truncated", ~framer.closed
                 PROVE  /\ fr_connection \in {"closed", "failed"}
                        /\ stream # Wire(published)
                        /\ framer.chunk = <<>> /\ ~FrameComplete(framer)
      BY DEF TruncatedMeansCut
    <2>1. /\ fr_connection \in {"closed", "failed"} /\ framer.chunk = <<>>
          /\ framer.header # <<>> /\ ~FrameComplete(framer)
      BY DEF FrameInv, FrameCut
    <2>2. framer.header \in Seq(Nat) /\ Len(framer.header) \in Nat \ {0}
      BY <1>0, <2>1, Bytes, EmptySeq DEF Impls
    <2>3. Len(stream) = Len(Wire(published)) + Len(framer.header) + Len(framer.frame)
                          + Len(framer.chunk) - framer.pos
      <3>1. framer.cancelled_bytes = 0 /\ fr_late = 0
        BY DEF FrameInv, FrameRunning
      <3> DEFINE w == Wire(published)
                 h == framer.header
                 f == framer.frame
                 c == framer.chunk
      <3>2. w \in Seq(Nat) /\ h \in Seq(Nat) /\ f \in Seq(Nat) /\ c \in Seq(Nat)
            /\ Len(stream) \in Nat /\ framer.pos \in Nat
        BY <1>0, Bytes DEF Impls
      <3>3. Len(stream) + 0 = Len(((w \o h) \o f) \o c) - framer.pos + 0
        BY <1>2, <3>1 DEF FrameAccounting
      <3> HIDE DEF w, h, f, c
      <3>4. w \o h \in Seq(Nat) /\ Len(w \o h) = Len(w) + Len(h)
        BY <3>2, ConcatProperties
      <3>5. (w \o h) \o f \in Seq(Nat) /\ Len((w \o h) \o f) = Len(w \o h) + Len(f)
        BY <3>2, <3>4, ConcatProperties
      <3>6. Len(((w \o h) \o f) \o c) = Len((w \o h) \o f) + Len(c)
        BY <3>2, <3>5, ConcatProperties
      <3>7. /\ Len(w) \in Nat /\ Len(h) \in Nat /\ Len(f) \in Nat /\ Len(c) \in Nat
        BY <3>2, LenProperties
      <3>8. Len(stream) = Len(w) + Len(h) + Len(f) + Len(c) - framer.pos
        BY <3>2, <3>3, <3>4, <3>5, <3>6, <3>7
      <3> QED BY <3>8, Zenon DEF w, h, f, c
    <2>4. /\ Len(framer.chunk) = 0 /\ framer.pos = 0 /\ Len(framer.frame) \in Nat
          /\ Len(Wire(published)) \in Nat
      <3>1. framer.frame \in Seq(Byte) /\ framer.pos \in Nat
        BY <1>0 DEF Impls
      <3>2. Len(framer.frame) \in Nat /\ Len(Wire(published)) \in Nat
        BY <1>0, <3>1, LenProperties
      <3>3. Len(framer.chunk) = 0
        BY <2>1, EmptySeq
      <3>4. framer.pos <= Len(framer.chunk)
        BY DEF FrameInv, FrameShape
      <3> QED BY <3>1, <3>2, <3>3, <3>4
    <2>5. Len(stream) # Len(Wire(published))
      <3> DEFINE s == Len(stream)
                 w == Len(Wire(published))
                 h == Len(framer.header)
                 f == Len(framer.frame)
                 c == Len(framer.chunk)
      <3>1. /\ s = w + h + f + c - framer.pos /\ c = 0 /\ framer.pos = 0
            /\ w \in Nat /\ f \in Nat /\ h \in Nat \ {0}
        BY <2>2, <2>3, <2>4
      <3> HIDE DEF s, w, h, f, c
      <3>2. s # w
        BY <3>1
      <3> QED BY <3>2 DEF s, w
    <2> QED BY <2>1, <2>4, <2>5
  <1>4. FrameFreedAfterEnd
    BY DEF FrameFreedAfterEnd, frame_is_quiescent, FrameInv, FrameConnected
  <1> QED BY <1>1, <1>2, <1>3, <1>4 DEF FrameSound, FrameInv

\* The inductive invariant: what the router got, the frame under way and the
\* rest of the chunk are the stream, and only an open bridge without a failure
\* decodes.
THEOREM FrameInvariant == FrameAssumption => (FrameSpec => []FrameInv)
  <1> SUFFICES ASSUME FrameAssumption PROVE FrameSpec => []FrameInv
    OBVIOUS
  <1>1. FrameInit => FrameInv
    BY InitialFrames
  <1>2. FrameInv /\ [FrameNext]_frameVars => FrameInv'
    BY FrameStep
  <1> QED BY <1>1, <1>2, PTL DEF FrameSpec

\* For every base, frame and chunk size: no byte is lost, repeated or misplaced
\* however chunks and frames overlap and however often the router is full, a
\* full router stops the stream, a truncated frame is reported only for a stream
\* cut inside a frame, and the storage outlives every callback
\* (scxml_cnet_frame_ingress.c).
THEOREM FrameCorrect == FrameAssumption => (FrameSpec => []FrameSound)
  <1> SUFFICES ASSUME FrameAssumption PROVE FrameSpec => []FrameSound
    OBVIOUS
  <1>1. FrameInv => FrameSound
    BY FrameConsequences
  <1>2. FrameSpec => []FrameInv
    BY FrameInvariant
  <1> QED BY <1>1, <1>2, PTL

(***************************************************************************)
(* The admission fence of a domain (scxml_cnet_domain_fence.c).            *)
(***************************************************************************)

\* A callback runs exactly while the fence refuses other calls, and what it is
\* about stays attached until it returns.
CallInv ==
    /\ IF fence.submitting THEN call.kind # "none" ELSE call = IdleCall
    /\ call.kind = "submit" =>
         call.generation = fence.current /\ call.generation # None /\ ~fence.closed
    /\ call.kind = "probe" =>
         /\ call.generation # None
         /\ \/ call.generation \in {fence.draining, fence.staged}
            \/ call.generation = fence.current /\ fence.closed

\* A generation waits on one side of the current one only, and an open fence
\* that has ever attached one has a current one.
SlotInv ==
    /\ fence.staged = None \/ fence.draining = None
    /\ fence.latest # None /\ ~fence.closed => fence.current # None
    /\ fence.draining # None /\ fence.current # None => fence.draining < fence.current
    /\ fence.staged # None /\ fence.current # None => fence.current < fence.staged
    /\ fence.current <= fence.latest
    /\ fence.staged <= fence.latest
    /\ fence.draining <= fence.latest

\* destroy only follows the retirement of the last generation.
FreedInv == freed => Attached(fence) = {} /\ ~fence.submitting

FenceInv ==
    /\ FenceTypeOK /\ CallInv /\ SlotInv /\ FreedInv
    /\ WorkIsAttached /\ EpochCountsSwitches

\* The slots hold generation numbers, or none.
LEMMA SlotsAreNumbers ==
    ASSUME FenceAssumption
    PROVE  Slot \subseteq Nat /\ None \notin Generations /\ None \in Nat
  BY DEF FenceAssumption, Slot, None

\* A new fence has no generation, no callback and no work.
LEMMA InitialFence ==
    ASSUME FenceAssumption, FenceInit
    PROVE  FenceInv
  <1> USE SlotsAreNumbers DEF FenceInit
  <1>1. FenceTypeOK
    <2>1. work \in [Generations -> 0 .. MaxWork]
      BY DEF FenceAssumption
    <2>2. 0 \in Nat /\ None \in Slot
      BY DEF Slot
    <2> QED BY <2>1, <2>2, Zenon DEF FenceTypeOK, IdleCall
  <1>2. CallInv /\ SlotInv /\ FreedInv
    BY DEF CallInv, SlotInv, FreedInv, Attached, IdleCall
  <1>3. WorkIsAttached /\ EpochCountsSwitches
    BY DEF WorkIsAttached, EpochCountsSwitches, None
  <1> QED BY <1>1, <1>2, <1>3 DEF FenceInv

\* scxml_cnet_domain_fence_attach stages a generation, or makes the first one
\* current.
LEMMA AttachKeeps ==
    ASSUME FenceAssumption, FenceInv, NEW g \in Generations, attach(g)
    PROVE  FenceInv'
  <1> USE SlotsAreNumbers DEF FenceInv, attach, Admissible
  <1>1. FenceTypeOK'
    <2>0. fence.epoch + 1 \in Nat /\ g \in Slot
      BY DEF FenceTypeOK, Slot
    <2>1. CASE fence.current = None
      BY <2>0, <2>1, Zenon DEF FenceTypeOK
    <2>2. CASE fence.current # None
      BY <2>0, <2>2, Zenon DEF FenceTypeOK
    <2> QED BY <2>1, <2>2
  <1>2. CallInv'
    BY DEF FenceTypeOK, CallInv, SlotInv, Slot
  <1>3. SlotInv'
    BY DEF FenceTypeOK, SlotInv, Slot, None
  <1>4. FreedInv' /\ WorkIsAttached'
    BY DEF FenceTypeOK, FreedInv, WorkIsAttached, SlotInv, Slot
  <1>5. EpochCountsSwitches'
    BY DEF FenceTypeOK, EpochCountsSwitches, SlotInv, None, Slot
  <1> QED BY <1>1, <1>2, <1>3, <1>4, <1>5

\* scxml_cnet_domain_fence_activate switches: the current generation drains.
LEMMA ActivateKeeps ==
    ASSUME FenceAssumption, FenceInv, NEW g \in Generations, activate(g)
    PROVE  FenceInv'
  <1> USE SlotsAreNumbers DEF FenceInv, activate, Admissible, Switched
  <1>1. FenceTypeOK'
    <2>1. fence.epoch + 1 \in Nat /\ fence.switches + 1 \in Nat /\ None \in Slot
      BY DEF FenceTypeOK, Slot
    <2> QED BY <2>1, Zenon DEF FenceTypeOK
  <1>2. CallInv'
    <2>1. call = IdleCall /\ call' = IdleCall /\ fence'.submitting = FALSE
      BY DEF FenceTypeOK, CallInv
    <2> QED BY <2>1 DEF CallInv, IdleCall
  <1>3. SlotInv'
    BY DEF FenceTypeOK, SlotInv, Slot, None
  <1>4. FreedInv' /\ WorkIsAttached'
    BY DEF FenceTypeOK, FreedInv, WorkIsAttached
  <1>5. EpochCountsSwitches'
    BY DEF FenceTypeOK, EpochCountsSwitches
  <1> QED BY <1>1, <1>2, <1>3, <1>4, <1>5

\* The two halves of try_submit, around the host's callback.
LEMMA SubmitKeeps ==
    ASSUME FenceAssumption, FenceInv,
           \/ \E g \in Generations : try_submit_begin(g)
           \/ \E accepted \in BOOLEAN : try_submit_end(accepted)
    PROVE  FenceInv'
  <1> USE SlotsAreNumbers DEF FenceInv
  <1>1. ASSUME NEW g \in Generations, try_submit_begin(g)
        PROVE  FenceInv'
    <2> USE <1>1 DEF try_submit_begin, Admissible
    <2>1. FenceTypeOK' /\ CallInv'
      BY DEF FenceTypeOK, CallInv, Slot
    <2>2. SlotInv' /\ FreedInv'
      BY DEF FenceTypeOK, SlotInv, FreedInv
    <2>3. WorkIsAttached' /\ EpochCountsSwitches'
      BY DEF FenceTypeOK, WorkIsAttached, EpochCountsSwitches
    <2> QED BY <2>1, <2>2, <2>3
  <1>2. ASSUME NEW accepted \in BOOLEAN, try_submit_end(accepted)
        PROVE  FenceInv'
    <2> USE <1>2 DEF try_submit_end
    <2>0. call.generation \in Generations /\ call.generation = fence.current
      BY DEF FenceTypeOK, CallInv, Slot
    <2>1. work' \in [Generations -> 0 .. MaxWork]
      BY <2>0 DEF FenceTypeOK, FenceAssumption
    <2>2. FenceTypeOK'
      BY <2>1 DEF FenceTypeOK, IdleCall, Slot
    <2>3. CallInv' /\ SlotInv' /\ FreedInv'
      BY DEF FenceTypeOK, CallInv, SlotInv, FreedInv, IdleCall, Attached
    <2>4. WorkIsAttached'
      BY <2>0 DEF FenceTypeOK, WorkIsAttached
    <2>5. EpochCountsSwitches'
      BY DEF FenceTypeOK, EpochCountsSwitches
    <2> QED BY <2>2, <2>3, <2>4, <2>5
  <1> QED BY <1>1, <1>2

\* What letting a generation go needs: it is attached, an open fence keeps its
\* current one, and no work is in flight for it.
LEMMA RetirementKeeps ==
    ASSUME FenceAssumption, FenceInv, NEW g \in Generations,
           \/ g \in {fence.draining, fence.staged}
           \/ g = fence.current /\ fence.closed,
           work[g] = 0, ~freed,
           fence' = Retired(g), call' = IdleCall, UNCHANGED <<work, freed>>
    PROVE  FenceInv'
  <1> USE SlotsAreNumbers DEF FenceInv, Retired
  <1>1. FenceTypeOK'
    <2> DEFINE clear(x) == IF x = g THEN None ELSE x
    <2>1. /\ clear(fence.draining) \in Slot
          /\ clear(fence.staged) \in Slot
          /\ clear(fence.current) \in Slot
      BY DEF FenceTypeOK, Slot
    <2>2. fence' = [fence EXCEPT !.draining = clear(fence.draining),
                      !.staged = clear(fence.staged), !.current = clear(fence.current),
                      !.retired = fence.retired + 1, !.submitting = FALSE]
      BY DEF FenceTypeOK
    <2>3. call' \in [kind : {"none", "submit", "probe"}, generation : Slot]
      BY DEF IdleCall, Slot
    <2>4. fence.retired + 1 \in Nat
      BY DEF FenceTypeOK
    <2> HIDE DEF clear, Retired
    <2> QED BY <2>1, <2>2, <2>3, <2>4, Zenon DEF FenceTypeOK
  <1>2. CallInv'
    BY DEF FenceTypeOK, CallInv, IdleCall
  <1>3. SlotInv'
    BY DEF FenceTypeOK, SlotInv, Slot, None
  <1>4. FreedInv' /\ WorkIsAttached'
    BY DEF FenceTypeOK, FreedInv, WorkIsAttached
  <1>5. EpochCountsSwitches'
    BY DEF FenceTypeOK, EpochCountsSwitches
  <1> QED BY <1>1, <1>2, <1>3, <1>4, <1>5

\* scxml_cnet_domain_fence_retire, with and without the quiescence callback.
LEMMA RetireKeeps ==
    ASSUME FenceAssumption, FenceInv, Retire
    PROVE  FenceInv'
  <1> USE SlotsAreNumbers DEF FenceInv
  <1>1. ASSUME NEW g \in Generations, retire_staged(g)
        PROVE  FenceInv'
    <2>1. work[g] = 0
      <3>1. g # fence.current /\ g # fence.draining
        BY <1>1 DEF retire_staged, SlotInv, FenceTypeOK, Slot
      <3> QED BY <3>1 DEF WorkIsAttached, FenceTypeOK
    <2>2. call' = IdleCall
      BY <1>1 DEF retire_staged, Admissible, CallInv, FenceTypeOK, IdleCall
    <2> QED BY <1>1, <2>1, <2>2, RetirementKeeps DEF retire_staged, Admissible
  <1>2. ASSUME NEW g \in Generations, retire_begin(g)
        PROVE  FenceInv'
    <2> USE <1>2 DEF retire_begin, Admissible, Retirable
    <2>1. FenceTypeOK' /\ CallInv'
      BY DEF FenceTypeOK, CallInv, Slot
    <2>2. SlotInv' /\ FreedInv'
      BY DEF FenceTypeOK, SlotInv, FreedInv
    <2>3. WorkIsAttached' /\ EpochCountsSwitches'
      BY DEF FenceTypeOK, WorkIsAttached, EpochCountsSwitches
    <2> QED BY <2>1, <2>2, <2>3
  <1>3. ASSUME retire_end
        PROVE  FenceInv'
    <2>1. call.generation \in Generations
      BY <1>3 DEF retire_end, CallInv, FenceTypeOK, Slot
    <2>2. CASE WorkSettled(call.generation)
      BY <1>3, <2>1, <2>2, RetirementKeeps DEF retire_end, WorkSettled, CallInv
    <2>3. CASE ~WorkSettled(call.generation)
      <3> USE <1>3, <2>3 DEF retire_end
      <3>1. FenceTypeOK' /\ CallInv'
        BY DEF FenceTypeOK, CallInv, IdleCall, Slot
      <3>2. SlotInv' /\ FreedInv'
        BY DEF FenceTypeOK, SlotInv, FreedInv
      <3>3. WorkIsAttached' /\ EpochCountsSwitches'
        BY DEF FenceTypeOK, WorkIsAttached, EpochCountsSwitches
      <3> QED BY <3>1, <3>2, <3>3
    <2> QED BY <2>2, <2>3
  <1> QED BY <1>1, <1>2, <1>3 DEF Retire

\* close, destroy, and the end of an operation of CNet.
LEMMA OthersKeep ==
    ASSUME FenceAssumption, FenceInv,
           fence_close \/ fence_destroy \/ \E g \in Generations : operation_ends(g)
    PROVE  FenceInv'
  <1> USE SlotsAreNumbers DEF FenceInv
  <1>1. CASE fence_close
    <2> USE <1>1 DEF fence_close, Admissible
    <2>0. FenceTypeOK'
      BY DEF FenceTypeOK
    <2>1. CallInv'
      <3>1. call = IdleCall /\ call' = IdleCall /\ fence'.submitting = FALSE
        BY DEF FenceTypeOK, CallInv
      <3> QED BY <3>1 DEF CallInv, IdleCall
    <2>3. SlotInv'
      BY DEF FenceTypeOK, SlotInv
    <2>2. FreedInv' /\ WorkIsAttached' /\ EpochCountsSwitches'
      BY DEF FenceTypeOK, FreedInv, WorkIsAttached, EpochCountsSwitches
    <2> QED BY <2>0, <2>1, <2>2, <2>3
  <1>2. CASE fence_destroy
    <2> USE <1>2 DEF fence_destroy, Admissible
    <2>1. \A g \in Generations : work[g] = 0
      BY DEF Attached, WorkIsAttached, FenceTypeOK
    <2>2. FenceTypeOK' /\ CallInv' /\ SlotInv' /\ FreedInv'
      BY DEF FenceTypeOK, CallInv, SlotInv, FreedInv, Attached
    <2>3. WorkIsAttached' /\ EpochCountsSwitches'
      BY <2>1 DEF WorkIsAttached, EpochCountsSwitches
    <2> QED BY <2>2, <2>3
  <1>3. ASSUME NEW g \in Generations, operation_ends(g)
        PROVE  FenceInv'
    <2> USE <1>3 DEF operation_ends
    <2>1. work' \in [Generations -> 0 .. MaxWork]
      BY DEF FenceTypeOK, FenceAssumption
    <2>2. FenceTypeOK' /\ CallInv' /\ SlotInv' /\ FreedInv'
      BY <2>1 DEF FenceTypeOK, CallInv, SlotInv, FreedInv, Attached
    <2>3. WorkIsAttached' /\ EpochCountsSwitches'
      BY DEF FenceTypeOK, WorkIsAttached, EpochCountsSwitches
    <2> QED BY <2>2, <2>3
  <1> QED BY <1>1, <1>2, <1>3

\* Every call of the fence and every step of CNet keeps the invariant.
LEMMA FenceStep == FenceAssumption /\ FenceInv /\ [FenceNext]_fenceVars => FenceInv'
  <1> SUFFICES ASSUME FenceAssumption, FenceInv, [FenceNext]_fenceVars
               PROVE  FenceInv'
    OBVIOUS
  <1>1. CASE UNCHANGED fenceVars
    BY <1>1 DEF fenceVars, FenceInv, FenceTypeOK, CallInv, SlotInv, FreedInv,
                WorkIsAttached, EpochCountsSwitches, Attached
  <1>2. CASE FenceNext
    BY <1>2, AttachKeeps, ActivateKeeps, SubmitKeeps, RetireKeeps, OthersKeep
       DEF FenceNext
  <1> QED BY <1>1, <1>2

\* The invariant holds in every behaviour of the fence.
THEOREM FenceInvariant == FenceAssumption => (FenceSpec => []FenceInv)
  <1> SUFFICES ASSUME FenceAssumption PROVE FenceSpec => []FenceInv
    OBVIOUS
  <1>1. FenceInit => FenceInv
    BY InitialFence
  <1>2. FenceInv /\ [FenceNext]_fenceVars => FenceInv'
    BY FenceStep
  <1> QED BY <1>1, <1>2, PTL DEF FenceSpec

\* The invariant gives what the fence promises.
LEMMA InvariantIsSound == FenceAssumption /\ FenceInv => FenceSound
  <1> SUFFICES ASSUME FenceAssumption, FenceInv PROVE FenceSound
    OBVIOUS
  <1> USE SlotsAreNumbers DEF FenceInv
  <1>1. Cardinality(Attached(fence)) <= 2
    <2>1. PICK a, b : Attached(fence) \subseteq {a, b}
      BY DEF Attached, SlotInv
    <2>2. IsFiniteSet({a, b}) /\ Cardinality({a, b}) <= 2
      <3>1. IsFiniteSet({a}) /\ Cardinality({a}) = 1
        BY FS_Singleton
      <3>3. {a} \cup {b} = {a, b}
        OBVIOUS
      <3>4. Cardinality({a} \cup {b}) <= 2 /\ IsFiniteSet({a} \cup {b})
        <4> HIDE DEF FenceInv
        <4>1. IsFiniteSet({a} \cup {b})
          BY <3>1, FS_AddElement
        <4>2. \/ Cardinality({a} \cup {b}) = Cardinality({a})
              \/ Cardinality({a} \cup {b}) = Cardinality({a}) + 1
          BY <3>1, FS_AddElement
        <4> QED BY <3>1, <4>1, <4>2
      <3> QED BY <3>3, <3>4
    <2> QED BY <2>1, <2>2, FS_Subset, FS_CardinalityType
  <1>2. AttachedInOrder
    BY <1>1 DEF AttachedInOrder, SlotInv, Attached
  <1>3. StagedHasCurrent
    BY DEF StagedHasCurrent, SlotInv, FenceTypeOK, Slot, None
  <1>4. AdmittedByCurrent
    BY DEF AdmittedByCurrent, CallInv
  <1> QED BY <1>2, <1>3, <1>4 DEF FenceSound

\* Generations are admitted one at a time and in order, and none is let go while
\* CNet works for it, whatever the host calls from inside a callback
\* (scxml_cnet_domain_fence.c).
THEOREM FenceCorrect == FenceAssumption => (FenceSpec => []FenceSound)
  <1> SUFFICES ASSUME FenceAssumption PROVE FenceSpec => []FenceSound
    OBVIOUS
  <1>1. FenceInv => FenceSound
    BY InvariantIsSound
  <1>2. FenceSpec => []FenceInv
    BY FenceInvariant
  <1> QED BY <1>1, <1>2, PTL

\* A generation that was let go never comes back: attach only takes a number
\* above the latest one.
THEOREM NeverReattached == FenceAssumption => (FenceSpec => [][NoReattachment]_fenceVars)
  <1> SUFFICES ASSUME FenceAssumption PROVE FenceSpec => [][NoReattachment]_fenceVars
    OBVIOUS
  <1>1. FenceInv /\ [FenceNext]_fenceVars => [NoReattachment]_fenceVars
    <2> SUFFICES ASSUME FenceInv, FenceNext PROVE NoReattachment
      OBVIOUS
    <2> USE SlotsAreNumbers
    <2>1. ASSUME NEW g \in Generations, attach(g) PROVE NoReattachment
      BY <2>1 DEF attach, NoReattachment, Attached, FenceInv, FenceTypeOK
    <2>2. ASSUME NEW g \in Generations, activate(g) PROVE NoReattachment
      BY <2>2 DEF activate, Switched, NoReattachment, Attached, FenceInv, FenceTypeOK
    <2>3. ASSUME NEW g \in Generations, fence' = Retired(g) PROVE NoReattachment
      BY <2>3 DEF Retired, NoReattachment, Attached, FenceInv, FenceTypeOK
    <2>4. ASSUME UNCHANGED <<fence.current, fence.staged, fence.draining>>
          PROVE  NoReattachment
      BY <2>4 DEF NoReattachment, Attached
    <2>5. ASSUME retire_end PROVE NoReattachment
      <3>1. call.generation \in Generations
        BY <2>5 DEF retire_end, FenceInv, CallInv, FenceTypeOK, Slot
      <3> QED BY <2>3, <2>4, <2>5, <3>1 DEF retire_end, FenceInv, FenceTypeOK
    <2> QED
      BY <2>1, <2>2, <2>3, <2>4, <2>5
         DEF FenceNext, Retire, try_submit_begin, try_submit_end, retire_staged,
             retire_begin, fence_close, fence_destroy, operation_ends, FenceInv, FenceTypeOK
  <1>2. FenceSpec => []FenceInv
    BY FenceInvariant
  <1> QED BY <1>1, <1>2, PTL DEF FenceSpec
============================================================================
