------------------------- MODULE FragmentReassembly -------------------------
(***************************************************************************)
(* The two pure halves of SCHC ACK-on-Error fragmentation (lichen-schc     *)
(* fragment.rs): how a sender cuts a packet into fragments and answers an  *)
(* ACK bitmap, and how a receiver stores fragments, decides what is        *)
(* missing and acknowledges.  A packet is a sequence of tiles and its MIC  *)
(* is the packet itself: the CRC is taken to tell packets apart.  A bitmap *)
(* is the set of the positions whose bit is one; position 0 is FCN 62,     *)
(* the last position is FCN 0 in a window that is not final and the All-1  *)
(* fragment in the final one.                                              *)
(***************************************************************************)
EXTENDS Integers, Sequences, FiniteSetsExt

CONSTANTS
    WindowSize,      \* WINDOW_SIZE: 63 in the profile
    MaxAckRequests,  \* MAX_ACK_REQUESTS
    NoTile           \* a storage slot never written

ASSUME ReassemblyAssumption ==
    /\ WindowSize \in Nat \ {0, 1}
    /\ MaxAckRequests \in Nat \ {0}

Positions == 0 .. WindowSize - 1
LastPosition == WindowSize - 1

-----------------------------------------------------------------------------
(* The sender's packet.  Tiles are numbered from zero.                      *)

FinalWindow(packet) == (Len(packet) - 1) \div WindowSize

FragmentOf(packet, i) ==
    IF i + 1 = Len(packet)
    THEN [kind |-> "all1", win |-> i \div WindowSize, pos |-> LastPosition,
          tile |-> packet[i + 1], mic |-> packet]
    ELSE [kind |-> "regular", win |-> i \div WindowSize, pos |-> i % WindowSize,
          tile |-> packet[i + 1]]

Fragments(packet) == [n \in 1 .. Len(packet) |-> FragmentOf(packet, n - 1)]

\* The positions of window w the packet fills.
Assigned(packet, w) ==
    {FragmentOf(packet, i).pos : i \in {j \in 0 .. Len(packet) - 1 : j \div WindowSize = w}}

AckRequest == [kind |-> "ackreq"]

\* fragment_at_position.
FragmentAt(packet, w, pos) ==
    CHOOSE f \in {FragmentOf(packet, i) : i \in 0 .. Len(packet) - 1} : f.win = w /\ f.pos = pos

\* SenderOutput: the positions of a window still to be written and whether an
\* ACK REQ follows them.  The output of an abort is never written (its
\* reservation is released), so it counts as none.
NoOutput == [win |-> 0, missing |-> {}, request |-> FALSE]
RequestOutput == [NoOutput EXCEPT !.request = TRUE]

\* Retransmit: the missing tiles, then an ACK REQ unless the All-1 among them
\* is a request already.
Repair(packet, w, missing) ==
    [win |-> w, missing |-> missing,
     request |-> ~(w = FinalWindow(packet) /\ LastPosition \in missing)]

\* write_next: the next message of an output, and what is left of it.
NextMessage(packet, out) ==
    IF out.missing # {} THEN FragmentAt(packet, out.win, Min(out.missing)) ELSE AckRequest

AfterMessage(out) ==
    IF out.missing # {} THEN [out EXCEPT !.missing = @ \ {Min(out.missing)}] ELSE NoOutput

-----------------------------------------------------------------------------
(* The receiver's reassembly state and the results of its handlers.         *)

EmptyBuffer == [tiles |-> [i \in 0 .. 2 * WindowSize - 1 |-> NoTile], all1 |-> NoTile,
                attempts |-> 0]

Bitmap(buf, w) == {q \in Positions : buf.tiles[w * WindowSize + q] # NoTile}

NoResponse == [kind |-> "none"]
ReceiverAbort == [kind |-> "rabort"]
Ack(w, map, complete) == [kind |-> "ack", win |-> w, map |-> map, complete |-> complete]

Result(buf, response, packet, aborted) ==
    [buf |-> buf, response |-> response, packet |-> packet, aborted |-> aborted]

\* No response, nothing delivered.
Silent(buf) == Result(buf, NoResponse, <<>>, FALSE)

AbortResult == Result(EmptyBuffer, ReceiverAbort, <<>>, TRUE)

\* MUTANT of Respond: one answer fewer than the sender has requests.
RespondShort(buf, ack, packet) ==
    IF buf.attempts + 1 >= MaxAckRequests THEN AbortResult
    ELSE Result([buf EXCEPT !.attempts = @ + 1], ack, packet, FALSE)

\* respond and respond_with_packet: the fifth answer is an abort, and the
\* packet it would have carried is dropped.
Respond(buf, ack, packet) ==
    IF buf.attempts >= MaxAckRequests THEN AbortResult
    ELSE Result([buf EXCEPT !.attempts = @ + 1], ack, packet, FALSE)

\* The lowest bit set in the All-1's window bounds the regular tiles the
\* receiver can know of; a tile missing behind it shows only as a failed MIC.
RegularCount(buf) ==
    LET map == Bitmap(buf, buf.all1.win) IN IF map = {} THEN 0 ELSE Max(map) + 1

\* The tiles up to that bound, then the final tile.
Reassembled(buf) ==
    LET count == buf.all1.win * WindowSize + RegularCount(buf)
    IN  [i \in 1 .. count + 1 |-> IF i <= count THEN buf.tiles[i - 1] ELSE buf.all1.tile]

\* MUTANT of GapAck: the tiles required are reported, not those received.
GapAckRequired(buf) ==
    Ack(buf.all1.win, (0 .. RegularCount(buf) - 1) \union {LastPosition}, FALSE)

\* The answer when the All-1 has come and its window has a gap.
GapAck(buf) == Ack(buf.all1.win, Bitmap(buf, buf.all1.win) \union {LastPosition}, FALSE)

\* The answer to a failed MIC: with two tiles or more and no gap the All-1 is
\* asked for again, otherwise it is marked received.
MicFailureAck(buf) ==
    IF RegularCount(buf) > 1 THEN Ack(buf.all1.win, Bitmap(buf, buf.all1.win), FALSE)
    ELSE GapAck(buf)

\* finalize: the All-1 is stored.
Finalize(buf) ==
    LET w == buf.all1.win IN
    IF w = 1 /\ Bitmap(buf, 0) # Positions
    THEN Respond(buf, Ack(0, Bitmap(buf, 0), FALSE), <<>>)
    ELSE IF Bitmap(buf, w) # 0 .. RegularCount(buf) - 1 THEN Respond(buf, GapAck(buf), <<>>)
    ELSE IF Reassembled(buf) = buf.all1.mic
    THEN Respond(buf, Ack(w, {}, TRUE), Reassembled(buf))
    ELSE Respond(buf, MicFailureAck(buf), <<>>)

Ordinal(f) == f.win * WindowSize + f.pos

\* receive_inner for a regular tile: none at or behind the All-1, and none
\* that differs from what its slot holds.
ReceiveRegular(buf, f) ==
    IF \/ buf.all1 # NoTile /\ Ordinal(f) >= Ordinal(buf.all1)
       \/ buf.tiles[Ordinal(f)] \notin {NoTile, f.tile}
    THEN AbortResult
    ELSE Silent([buf EXCEPT !.tiles[Ordinal(f)] = f.tile])

\* receive_all1: no tile may lie at or behind the All-1.
ReceiveAll1(buf, f) ==
    IF \/ \E i \in Ordinal(f) .. 2 * WindowSize - 1 : buf.tiles[i] # NoTile
       \/ buf.all1 \notin {NoTile, f}
    THEN AbortResult
    ELSE Finalize([buf EXCEPT !.all1 = f])

\* receive_ack_request: before the All-1 the lowest incomplete window is
\* acknowledged.
ReceiveAckRequest(buf) ==
    IF buf.all1 # NoTile THEN Finalize(buf)
    ELSE LET w == IF Bitmap(buf, 0) = Positions THEN 1 ELSE 0
         IN  Respond(buf, Ack(w, Bitmap(buf, w), FALSE), <<>>)

\* receive_bytes.
Receive(buf, f) ==
    CASE f.kind = "regular" -> ReceiveRegular(buf, f)
      [] f.kind = "all1" -> ReceiveAll1(buf, f)
      [] f.kind = "ackreq" -> ReceiveAckRequest(buf)
      [] f.kind = "sabort" -> Result(EmptyBuffer, NoResponse, <<>>, TRUE)

\* is_receiver_session_opener: the first regular tile alone.
IsOpener(f) == f.kind = "regular" /\ f.win = 0 /\ f.pos = 0
=============================================================================
