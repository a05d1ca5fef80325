--------------------------- MODULE CnetFrameIngress ---------------------------
(***************************************************************************)
(* The framed inbound bridge (scxml_cnet_frame_ingress.c): chunks of a     *)
(* CNet byte stream are cut into frames with a two-byte length header, and *)
(* each frame is enqueued at the host router.  Chunks and frames have no   *)
(* relation to each other; the router may refuse a frame for lack of room  *)
(* at any moment, and the connection may end inside a frame.  All calls    *)
(* are made on the CNet owner thread.                                      *)
(*                                                                         *)
(* A byte is a digit to the base Base (256 in the code).                   *)
(***************************************************************************)
EXTENDS Integers, SequencesExt

CONSTANTS
    Base,                \* values of a byte
    max_frame_bytes,     \* longest frame accepted
    max_receive_bytes,   \* longest chunk accepted
    max_frames,          \* largest argument of process
    MaxBytes             \* bound: bytes the peer sends

FrameAssumption ==
    /\ Base \in Nat \ {0, 1}
    /\ max_frame_bytes \in 1 .. Base * Base - 1
    /\ max_receive_bytes \in Nat \ {0}
    /\ max_frames \in Nat \ {0}
    /\ MaxBytes \in Nat

\* "truncated" is SALTS_EPROTO too, kept apart from the malformed headers.
FrameErrors ==
    {"OK", "EPROTO", "EMSGSIZE", "EBUSY", "EIO", "router", "truncated"}

VARIABLES
    framer,      \* the struct scxml_cnet_frame_ingress_impl
    budget,       \* frames the running process may still publish, 0 when idle
    fr_connection,   \* external: what CNet knows of the connection
    fr_credit,       \* external: CNet owes the bridge a receive callback
    published,    \* external: frames the router has accepted, in order
    stream,       \* history: bytes the bridge took over, in order
    fr_late          \* history: bytes that came after close

frameVars ==
    <<framer, budget, fr_connection, fr_credit, published, stream, fr_late>>

Byte == 0 .. Base - 1
SeqUpTo(n) == UNION {[1 .. k -> Byte] : k \in 0 .. n}

FrameImpl == [chunk : SeqUpTo(max_receive_bytes), pos : 0 .. max_receive_bytes,
         header : SeqUpTo(2), frame : SeqUpTo(max_frame_bytes),
         expected : 0 .. Base * Base - 1,
         bound : BOOLEAN, connected : BOOLEAN, armed : BOOLEAN,
         terminal : BOOLEAN, closed : BOOLEAN, first_error : FrameErrors,
         cancelled_bytes : Nat]

FrameTypeOK ==
    /\ framer \in FrameImpl
    /\ budget \in 0 .. max_frames
    /\ fr_connection \in {"none", "connecting", "connected", "closing", "closed",
                       "failed", "freed"}
    /\ fr_credit \in BOOLEAN
    /\ published \in Seq(SeqUpTo(max_frame_bytes))
    /\ stream \in Seq(Byte)
    /\ fr_late \in 0 .. MaxBytes

FrameInit ==
    /\ framer = [chunk |-> <<>>, pos |-> 0, header |-> <<>>, frame |-> <<>>,
                  expected |-> 0, bound |-> FALSE, connected |-> FALSE,
                  armed |-> FALSE, terminal |-> FALSE, closed |-> FALSE,
                  first_error |-> "OK", cancelled_bytes |-> 0]
    /\ budget = 0
    /\ fr_connection = "none" /\ fr_credit = FALSE
    /\ published = <<>> /\ stream = <<>> /\ fr_late = 0

FrameFailed(i) == i.first_error # "OK"
mark_error(i, status) ==
    [i EXCEPT !.first_error = IF FrameFailed(i) THEN @ ELSE status]
FrameIdle == budget = 0 /\ fr_connection # "freed"
FrameComplete(i) == i.expected # 0 /\ Len(i.frame) = i.expected

-----------------------------------------------------------------------------
(* Callbacks of CNet.                                                      *)

FrameEnded(state) ==
    LET ended == [framer EXCEPT !.connected = FALSE, !.terminal = TRUE,
                                 !.armed = FALSE]
    IN IF state = "failed" THEN mark_error(ended, "EIO") ELSE ended

on_state(state) ==
    /\ FrameIdle
    /\ \/ /\ state = "connected" /\ fr_connection = "connecting"
          /\ framer' = [framer EXCEPT !.connected = TRUE]
          /\ UNCHANGED fr_credit
       \/ /\ state = "closing" /\ fr_connection \in {"connecting", "connected"}
          /\ framer' = [framer EXCEPT !.connected = FALSE]
          /\ UNCHANGED fr_credit
       \/ /\ state \in {"closed", "failed"}
          /\ fr_connection \in {"connecting", "connected", "closing"}
          /\ framer' = FrameEnded(state)
          /\ fr_credit' = FALSE
    /\ fr_connection' = state
    /\ UNCHANGED <<budget, published, stream, fr_late>>

\* What the bridge makes of a chunk, in the order of the tests.
FrameReceived(data, kind) ==
    LET taken == [framer EXCEPT !.armed = FALSE]
    IN CASE ~framer.armed -> mark_error(framer, "EPROTO")
         [] framer.armed /\ framer.closed ->
              [taken EXCEPT !.cancelled_bytes = @ + Len(data)]
         [] OTHER ->
              IF kind # "bytes" \/ data = <<>> THEN mark_error(taken, "EPROTO")
              ELSE IF Len(data) > max_receive_bytes
                     THEN mark_error(taken, "EMSGSIZE")
              ELSE IF framer.chunk # <<>> THEN mark_error(taken, "EBUSY")
              ELSE [taken EXCEPT !.chunk = data, !.pos = 0]

on_receive(data, kind) ==
    /\ FrameIdle /\ fr_credit /\ fr_connection \in {"connected", "closing"}
    /\ Len(stream) + fr_late + Len(data) <= MaxBytes
    /\ fr_credit' = FALSE
    /\ framer' = FrameReceived(data, kind)
    /\ stream' = IF framer'.chunk # <<>> THEN stream \o data ELSE stream
    /\ fr_late' = IF framer.closed THEN fr_late + Len(data) ELSE fr_late
    /\ UNCHANGED <<budget, fr_connection, published>>

-----------------------------------------------------------------------------
(* Calls of the host.                                                      *)

\* The host connects with the bridge as observer and binds before it polls.
frame_bind ==
    /\ FrameIdle /\ ~framer.bound /\ ~framer.closed
    /\ framer' = [framer EXCEPT !.bound = TRUE]
    /\ fr_connection' = "connecting"
    /\ UNCHANGED <<budget, fr_credit, published, stream, fr_late>>

\* No data is received while a copied chunk or a complete frame is outstanding.
NothingOutstanding(i) == i.chunk = <<>> /\ ~FrameComplete(i)

\* cnet_receive accepts the credit or fails.
frame_arm(accepted) ==
    /\ FrameIdle
    /\ framer.bound /\ framer.connected /\ ~framer.armed
    /\ ~framer.closed /\ ~framer.terminal /\ ~FrameFailed(framer)
    /\ NothingOutstanding(framer)
    /\ framer' = [framer EXCEPT !.armed = accepted]
    /\ fr_credit' = accepted
    /\ UNCHANGED <<budget, fr_connection, published, stream, fr_late>>

process_begin(n) ==
    /\ FrameIdle /\ ~framer.closed /\ ~FrameFailed(framer)
    /\ budget' = n
    /\ UNCHANGED <<framer, fr_connection, fr_credit, published, stream,
                   fr_late>>

\* The stream has ended inside a frame and nothing is left to decode.
Truncated(i) ==
    /\ i.terminal /\ i.chunk = <<>>
    /\ \/ i.expected = 0 /\ i.header # <<>>
       \/ i.expected # 0 /\ Len(i.frame) # i.expected

\* What process does after its loop.
Leave(i) ==
    LET left == IF i.pos = Len(i.chunk)
                  THEN [i EXCEPT !.chunk = <<>>, !.pos = 0] ELSE i
    IN IF Truncated(left) THEN mark_error(left, "truncated") ELSE left

\* The router accepts the complete frame; the last of the budget ends the loop.
publish_accepted ==
    /\ budget > 0 /\ FrameComplete(framer)
    /\ published' = Append(published, framer.frame)
    /\ LET cleared == [framer EXCEPT !.frame = <<>>, !.header = <<>>,
                                      !.expected = 0]
       IN framer' = IF budget = 1 THEN Leave(cleared) ELSE cleared
    /\ budget' = budget - 1
    /\ UNCHANGED <<fr_connection, fr_credit, stream, fr_late>>

\* Fault: the frame the router has no room for is dropped.
publish_full_Drops ==
    /\ budget > 0 /\ FrameComplete(framer)
    /\ budget' = 0
    /\ framer' = [framer EXCEPT !.frame = <<>>, !.header = <<>>,
                                  !.expected = 0]
    /\ UNCHANGED <<fr_connection, fr_credit, published, stream, fr_late>>

\* The router has no room: the frame stays for the next process.
publish_full ==
    /\ budget > 0 /\ FrameComplete(framer)
    /\ budget' = 0
    /\ UNCHANGED <<framer, fr_connection, fr_credit, published, stream,
                   fr_late>>

\* The router refuses for good.
publish_refused ==
    /\ budget > 0 /\ FrameComplete(framer)
    /\ budget' = 0
    /\ framer' = mark_error(framer, "router")
    /\ UNCHANGED <<fr_connection, fr_credit, published, stream, fr_late>>

\* The chunk is decoded.
chunk_end ==
    /\ budget > 0 /\ ~FrameComplete(framer)
    /\ framer.pos = Len(framer.chunk)
    /\ budget' = 0
    /\ framer' = Leave(framer)
    /\ UNCHANGED <<fr_connection, fr_credit, published, stream, fr_late>>

Length(header) == header[1] * Base + header[2]

\* The next byte belongs to the header; a bad length fails the bridge.
take_header ==
    /\ budget > 0 /\ ~FrameComplete(framer)
    /\ framer.pos # Len(framer.chunk) /\ Len(framer.header) # 2
    /\ LET header == Append(framer.header, framer.chunk[framer.pos + 1])
           taken == [framer EXCEPT !.header = header, !.pos = @ + 1]
           length == Length(header)
           sized == [taken EXCEPT !.expected = length]
           bad == length = 0 \/ length > max_frame_bytes
       IN IF Len(header) # 2
            THEN framer' = taken /\ budget' = budget
            ELSE /\ framer' = IF ~bad THEN sized
                               ELSE mark_error(sized, IF length = 0 THEN "EPROTO"
                                                      ELSE "EMSGSIZE")
                 /\ budget' = IF bad THEN 0 ELSE budget
    /\ UNCHANGED <<fr_connection, fr_credit, published, stream, fr_late>>

\* The next byte belongs to the frame.
take_frame ==
    /\ budget > 0 /\ ~FrameComplete(framer)
    /\ framer.pos # Len(framer.chunk) /\ Len(framer.header) = 2
    /\ framer' = [framer EXCEPT !.pos = @ + 1,
                     !.frame = Append(@, framer.chunk[framer.pos + 1])]
    /\ UNCHANGED <<budget, fr_connection, fr_credit, published, stream,
                   fr_late>>

\* The bytes the bridge still owns.
Unfinished(i) == Len(i.chunk) - i.pos + Len(i.frame) + Len(i.header)

frame_close ==
    /\ FrameIdle /\ ~framer.closed
    /\ framer' = [framer EXCEPT !.closed = TRUE,
                     !.cancelled_bytes = @ + Unfinished(framer),
                     !.chunk = <<>>, !.pos = 0, !.frame = <<>>,
                     !.expected = 0, !.header = <<>>]
    /\ UNCHANGED <<budget, fr_connection, fr_credit, published, stream,
                   fr_late>>

frame_is_quiescent ==
    /\ framer.closed /\ ~framer.armed
    /\ framer.bound => framer.terminal

\* A freed bridge has no calls; "freed" replaces what CNet knew if CNet is done.
frame_destroy ==
    /\ FrameIdle /\ frame_is_quiescent
    /\ fr_connection' = IF fr_connection \in {"none", "closed", "failed"}
                       THEN "freed" ELSE fr_connection
    /\ UNCHANGED <<framer, budget, fr_credit, published, stream, fr_late>>

Process ==
    publish_accepted \/ publish_full \/ publish_refused \/ chunk_end
        \/ take_header \/ take_frame

FrameEndOfConnection == \E state \in {"closed", "failed"} : on_state(state)

FrameNext ==
    \/ \E state \in {"connected", "closing"} : on_state(state)
    \/ FrameEndOfConnection
    \/ \E data \in SeqUpTo(max_receive_bytes + 1), kind \in {"bytes", "text"} :
            on_receive(data, kind)
    \/ frame_bind
    \/ \E accepted \in BOOLEAN : frame_arm(accepted)
    \/ \E n \in 1 .. max_frames : process_begin(n)
    \/ Process
    \/ frame_close
    \/ frame_destroy

FrameSpec == FrameInit /\ [][FrameNext]_frameVars

\* The loop of process ends, the host calls it again and again, the router has
\* room again and again, and the owner ends the connection of a closed bridge.
FrameFairness ==
    /\ WF_frameVars(Process)
    /\ WF_frameVars(\E n \in 1 .. max_frames : process_begin(n))
    /\ SF_frameVars(publish_accepted)
    /\ WF_frameVars(framer.closed /\ FrameEndOfConnection)

FrameFairSpec == FrameSpec /\ FrameFairness

-----------------------------------------------------------------------------
(* What has to hold.                                                       *)

Encoded(frame) == <<Len(frame) \div Base, Len(frame) % Base>> \o frame

Wire(frames) == FlattenSeq([k \in 1 .. Len(frames) |-> Encoded(frames[k])])

\* The frames the router got, encoded again, the partial frame and the rest of
\* the chunk are the stream: however chunks and frames overlap and however
\* often the router was full, no byte is lost, repeated or misplaced.
StreamDecoded ==
    ~framer.closed =>
        Wire(published) \o framer.header \o framer.frame
            \o SubSeq(framer.chunk, framer.pos + 1, Len(framer.chunk))
          = stream

\* The bridge believes in a credit exactly when CNet owes it a callback, and
\* then has room for a chunk: no chunk it asked for is answered with EBUSY.
CreditIsCovered ==
    /\ framer.armed = fr_credit
    /\ fr_credit /\ ~framer.closed => framer.chunk = <<>>
    /\ framer.first_error # "EBUSY"

\* A credit is never outstanding while a complete frame waits for the router:
\* a host that is full stops the stream at its source.
BackPressure == fr_credit => ~FrameComplete(framer)

\* A truncated frame is reported only for a stream that really ends inside a
\* frame, after every complete frame of it was published.
TruncatedMeansCut ==
    framer.first_error = "truncated" /\ ~framer.closed =>
        /\ fr_connection \in {"closed", "failed"}
        /\ stream # Wire(published)
        /\ framer.chunk = <<>> /\ ~FrameComplete(framer)

\* Every byte the bridge took over is published, held or counted as cancelled.
FrameAccounting ==
    Len(stream) + fr_late
        = Len(Wire(published) \o framer.header \o framer.frame \o framer.chunk)
            - framer.pos + framer.cancelled_bytes

\* destroy frees the storage only when CNet will not call back any more.
FrameFreedAfterEnd ==
    frame_is_quiescent =>
        fr_connection \in {"none", "closed", "failed", "freed"}

\* A stream that ends is either published completely or the bridge fails: a cut
\* frame does not stay unnoticed.
EndIsNoticed ==
    []<>(framer.terminal
            => Wire(published) = stream \/ FrameFailed(framer) \/ framer.closed)

\* A closed bridge becomes quiescent.
FrameClosedQuiesces == []<>(framer.closed => frame_is_quiescent)

\* The stream is decoded byte by byte, credits follow the room there is, and the
\* storage outlives every callback.
FrameSound ==
    /\ FrameTypeOK
    /\ StreamDecoded /\ FrameAccounting
    /\ CreditIsCovered /\ BackPressure
    /\ TruncatedMeansCut /\ FrameFreedAfterEnd
=============================================================================
