--------------------------- MODULE Fragmentation ----------------------------
(***************************************************************************)
(* One direction of SCHC fragmentation between two authenticated peers     *)
(* (lichen-schc fragment.rs): FragmentSender and                            *)
(* AuthenticatedFragmentReceiver, each with its FragmentationPolicy, over   *)
(* a link that loses, delays and reorders frames.  T = 0: nothing in a      *)
(* fragment or an ACK tells one packet's session from the next.  What       *)
(* keeps sessions apart is the reservation of the tuple, the 60 s           *)
(* hold-down after it (the tombstone) and the link counters.                *)
(*                                                                          *)
(* The caller is not in the repository.  It is taken to write the fragments *)
(* in order, to replace a pending output by the next one, to hold one       *)
(* receiver, to try a frame on it, else on the tombstone, and to open a     *)
(* receiver for an opening fragment; it may cancel or drop either side at   *)
(* any time.  The peer evidence stays current and its counter is 0.  The    *)
(* link hands a frame over at most once (its replay window) and within      *)
(* Latency.  Timers count down; 0 is due.                                   *)
(*                                                                          *)
(* reserve_sender lets the next packet start the moment the hold-down is    *)
(* over.  The receiver's hold-down begins with the last frame it took, as   *)
(* much as Latency later, so that this is too soon for sessions to stay     *)
(* apart; a Patient caller waits for Pause more, which nothing in src/ asks *)
(* of it.                                                                   *)
(***************************************************************************)
EXTENDS FragmentReassembly

CONSTANTS
    Packets,         \* the packets to send, one per session
    Retransmission,  \* RETRANSMISSION_TIMEOUT
    Inactivity,      \* INACTIVITY_TIMEOUT
    HoldDown,        \* FRAGMENT_TOMBSTONE
    Latency,         \* the longest time a frame is under way
    Pause,           \* how long a patient caller waits after a hold-down
    Patient,         \* the sender's caller waits for Pause
    PollFirst,       \* the receiver's caller polls expire_due before each frame
    MaxFlight,       \* bound: frames under way from one side
    MaxCounter       \* the last link counter

None == -1

Tiles == UNION {{Packets[n][i] : i \in DOMAIN Packets[n]} : n \in DOMAIN Packets}

ASSUME FragmentationAssumption ==
    /\ {Retransmission, Inactivity, HoldDown, MaxFlight} \subseteq Nat \ {0}
    /\ {Latency, Pause, MaxCounter} \subseteq Nat
    /\ {PollFirst, Patient} \subseteq BOOLEAN
    /\ Packets \in Seq(Seq(Tiles))
    /\ \A n \in DOMAIN Packets :
          /\ Len(Packets[n]) \in 2 .. 2 * WindowSize
          /\ NoTile \notin Tiles \cup {FragmentOf(Packets[n], Len(Packets[n]) - 1)}

\* A frame is under way for less than a hold-down and for no longer than a patient
\* caller's pause, and a reservation lapses within a hold-down.
ASSUME SeparationAssumption ==
    Latency <= Pause /\ Latency < HoldDown /\ Inactivity <= HoldDown

VARIABLES
    sender,     \* the FragmentSender and the outputs its caller still writes
    sres,       \* sender_sessions: time left to the reservation, or None
    shold,      \* sender_tombstones: time left of the hold-down, then of the pause
    rbuf,       \* the FragmentReceiver's reassembly state
    rres,       \* receiver_sessions: time left and high counter, or none
    rtomb,      \* receiver_tombstones: time left, high counter and response
    net,        \* frames under way
    counter,    \* last link counter used by each side
    delivered   \* observer: the packets handed to the receiver's caller

fragVars == <<sender, sres, shold, rbuf, rres, rtomb, net, counter, delivered>>
senderVars == <<sender, sres, shold>>
receiverVars == <<rbuf, rres, rtomb, delivered>>

Sides == {"a", "b"}  \* a sends the packets, b the ACKs

NoSession == [left |-> None, high |-> 0]
NoTombstone == [left |-> None, high |-> 0, response |-> NoResponse]

Packet == Packets[sender.ses]

FragInit ==
    /\ sender = [ses |-> 0, status |-> "idle", attempts |-> 0, ackHigh |-> 0,
                 timer |-> None, next |-> 1, out |-> NoOutput]
    /\ sres = None
    /\ shold = -Pause
    /\ rbuf = EmptyBuffer
    /\ rres = NoSession
    /\ rtomb = NoTombstone
    /\ net = {}
    /\ counter = [s \in Sides |-> 0]
    /\ delivered = <<>>

Under(side) == {f \in net : f.from = side}

CanSend(side) ==
    Cardinality(Under(side)) < MaxFlight /\ counter[side] < MaxCounter

\* What net and counter become when side sends msg (nothing for no response).
Sent(frames, side, msg) ==
    IF msg.kind = "none" THEN net' = frames /\ UNCHANGED counter
    ELSE /\ counter' = [counter EXCEPT ![side] = @ + 1]
         /\ net' = frames \union {[from |-> side, ctr |-> counter[side] + 1,
                                   ttl |-> Latency, msg |-> msg]}

-----------------------------------------------------------------------------
(* The sender.                                                              *)

\* touch_sender succeeds; on a lapsed reservation it fails (SenderLapse).
SenderLive == sres > 0

\* FragmentSender::new with reserve_sender: refused while the tuple is
\* reserved or held down.
NewSender ==
    /\ sender.ses < Len(Packets)
    /\ sres = None /\ shold <= 0
    /\ sres' = Inactivity
    /\ sender' = [ses |-> sender.ses + 1, status |-> "ready", attempts |-> 0, ackHigh |-> 0,
                  timer |-> None, next |-> 1, out |-> NoOutput]
    /\ UNCHANGED <<shold, receiverVars, net, counter>>

\* When the caller has the next packet sent.
CallerReady == Patient => shold = -Pause

Offer == CallerReady /\ NewSender

\* start_current.
Start ==
    /\ sender.status = "ready" /\ SenderLive
    /\ sres' = Inactivity
    /\ sender' = [sender EXCEPT !.status = "active", !.attempts = 1, !.timer = Retransmission]
    /\ UNCHANGED <<shold, receiverVars, net, counter>>

\* get_fragment_current: the next of the packet's fragments.
WriteFragment ==
    /\ sender.status = "active" /\ SenderLive
    /\ sender.next <= Len(Packet)
    /\ CanSend("a")
    /\ Sent(net, "a", Fragments(Packet)[sender.next])
    /\ sender' = [sender EXCEPT !.next = @ + 1]
    /\ sres' = Inactivity
    /\ UNCHANGED <<shold, receiverVars>>

\* write_next_current: the next message of the pending output.
WriteOutput ==
    /\ (sender.out.missing # {} \/ sender.out.request) /\ SenderLive
    /\ CanSend("a")
    /\ Sent(net, "a", NextMessage(Packet, sender.out))
    /\ sender' = [sender EXCEPT !.out = AfterMessage(@)]
    /\ sres' = Inactivity
    /\ UNCHANGED <<shold, receiverVars>>

\* MUTANT of ReleaseSender: no hold-down.
ReleaseSenderAtOnce == sres' = None /\ UNCHANGED shold

\* release_sender: the reservation ends and the hold-down begins.
ReleaseSender == sres' = None /\ shold' = HoldDown

\* The sender ends with status.
EndSender(status) ==
    /\ sender' = [sender EXCEPT !.status = status, !.timer = None, !.out = NoOutput]
    /\ ReleaseSender

\* A request is made: one more attempt, the timer runs anew.
Request(out, ackHigh) ==
    /\ sender' = [sender EXCEPT !.attempts = @ + 1, !.timer = Retransmission, !.out = out,
                                !.ackHigh = ackHigh]
    /\ sres' = Inactivity
    /\ UNCHANGED shold

\* timeout_current, due.
Timeout ==
    /\ sender.status = "active" /\ SenderLive
    /\ sender.timer = 0
    /\ IF sender.attempts >= MaxAckRequests
       THEN EndSender("aborted")
       ELSE Request(RequestOutput, sender.ackHigh)
    /\ UNCHANGED <<receiverVars, net, counter>>

\* validate_authenticated_control and the counter check of handle_ack_frame.
AckAdmitted(f) ==
    /\ sender.status = "active" /\ SenderLive
    /\ f.ctr > sender.ackHigh
    /\ f.msg.kind = "ack" =>
         IF f.msg.complete THEN f.msg.win = FinalWindow(Packet)
         ELSE f.msg.win <= FinalWindow(Packet) /\ f.msg.map \subseteq Assigned(Packet, f.msg.win)

\* An ACK that ends nothing and asks for nothing.
AckNoted(f) ==
    /\ sender' = [sender EXCEPT !.ackHigh = f.ctr]
    /\ sres' = Inactivity
    /\ UNCHANGED shold

\* handle_ack_inner.
HandleAck(f) ==
    LET missing == Assigned(Packet, f.msg.win) \ f.msg.map IN
    CASE f.msg.kind = "rabort" -> EndSender("aborted")
      [] f.msg.kind = "ack" /\ f.msg.complete -> EndSender("succeeded")
      [] f.msg.kind = "ack" /\ ~f.msg.complete ->
           IF missing = {}
           THEN IF f.msg.win = FinalWindow(Packet) THEN EndSender("aborted")
                ELSE AckNoted(f)
           ELSE IF sender.attempts >= MaxAckRequests THEN EndSender("aborted")
           ELSE Request(Repair(Packet, f.msg.win, missing), f.ctr)

\* handle_ack_frame.  What is not admitted changes nothing.
ReceiveControl ==
    \E f \in Under("b") :
       /\ net' = net \ {f}
       /\ IF AckAdmitted(f) THEN HandleAck(f) ELSE UNCHANGED senderVars
       /\ UNCHANGED <<receiverVars, counter>>

\* FragmentSender::cancel.
CancelSender ==
    /\ sender.status \in {"ready", "active"} /\ sres # None
    /\ EndSender("aborted")
    /\ UNCHANGED <<receiverVars, net, counter>>

\* Drop (abandon_sender): the hold-down is counted from the last time the
\* policy saw, between the last use of the reservation and now.
DropSender ==
    /\ sender.status \in {"ready", "active"} /\ sres # None
    /\ sender' = [sender EXCEPT !.status = "aborted", !.timer = None, !.out = NoOutput]
    /\ sres' = None
    /\ \E age \in 0 .. Inactivity - sres :
         shold' = IF age < HoldDown THEN HoldDown - age ELSE 0
    /\ UNCHANGED <<receiverVars, net, counter>>

\* MUTANT of SenderLapse: the hold-down begins and the reservation stays.
SenderLapseKept ==
    /\ sres = 0
    /\ shold' = HoldDown
    /\ UNCHANGED <<sender, sres, receiverVars, net, counter>>

\* expire_due, or any use of a lapsed reservation.
SenderLapse ==
    /\ sres = 0
    /\ ReleaseSender
    /\ UNCHANGED <<sender, receiverVars, net, counter>>

-----------------------------------------------------------------------------
(* The receiver.                                                            *)

\* release_receiver and expire_receiver_session.
EndReceiver(high, response) ==
    /\ rres' = NoSession
    /\ rtomb' = [left |-> HoldDown, high |-> high, response |-> response]
    /\ rbuf' = EmptyBuffer

\* receive_verified over a reservation: a terminal result is released even
\* when the reservation has lapsed, any other result is lost with it.
ReceiveIn(session, f) ==
    LET r == Receive(IF session = NoSession THEN EmptyBuffer ELSE rbuf, f.msg) IN
    IF r.aborted \/ r.packet # <<>>
    THEN /\ EndReceiver(f.ctr, r.response)
         /\ delivered' = IF r.packet = <<>> THEN delivered ELSE Append(delivered, r.packet)
         /\ Sent(net \ {f}, "b", r.response)
    ELSE IF session # NoSession /\ session.left = 0
    THEN /\ EndReceiver(session.high, ReceiverAbort)
         /\ net' = net \ {f}
         /\ UNCHANGED <<delivered, counter>>
    ELSE /\ rres' = [left |-> Inactivity, high |-> f.ctr]
         /\ rbuf' = r.buf
         /\ Sent(net \ {f}, "b", r.response)
         /\ UNCHANGED delivered
         /\ rtomb' = IF session = NoSession THEN NoTombstone ELSE rtomb

\* replay_receiver_terminal: late frames raise the high counter; an All-1 or
\* an ACK REQ gets the terminal response again during the hold-down.
ReplayTerminal(f) ==
    /\ rtomb' = [rtomb EXCEPT !.high = f.ctr]
    /\ Sent(net \ {f}, "b", IF rtomb.left > 0 /\ f.msg.kind \in {"all1", "ackreq"}
                            THEN rtomb.response ELSE NoResponse)
    /\ UNCHANGED <<rbuf, rres, delivered>>

Discard(f) == net' = net \ {f} /\ UNCHANGED <<receiverVars, counter>>

\* A frame for the receiver: its live session, the tombstone, or a new
\* session (reserve_receiver) whose admission floor is the tombstone's.
ReceiveData ==
    \E f \in Under("a") :
       /\ CanSend("b")
       /\ PollFirst => rres.left # 0
       /\ IF rres # NoSession
          THEN IF f.ctr > rres.high THEN ReceiveIn(rres, f) ELSE Discard(f)
          ELSE IF rtomb # NoTombstone
          THEN IF f.ctr <= rtomb.high THEN Discard(f)
               ELSE IF IsOpener(f.msg) /\ rtomb.left = 0 THEN ReceiveIn(NoSession, f)
               ELSE ReplayTerminal(f)
          ELSE IF IsOpener(f.msg) THEN ReceiveIn(NoSession, f) ELSE Discard(f)
       /\ UNCHANGED senderVars

\* AuthenticatedFragmentReceiver::cancel.
CancelReceiver ==
    /\ rres # NoSession
    /\ EndReceiver(rres.high, NoResponse)
    /\ UNCHANGED <<senderVars, net, counter, delivered>>

\* Drop (abandon_receiver), with the hold-down counted as in DropSender.
DropReceiver ==
    /\ rres # NoSession
    /\ \E age \in 0 .. Inactivity - rres.left :
         rtomb' = [left |-> IF age < HoldDown THEN HoldDown - age ELSE 0,
                   high |-> rres.high, response |-> NoResponse]
    /\ rres' = NoSession
    /\ rbuf' = EmptyBuffer
    /\ UNCHANGED <<senderVars, net, counter, delivered>>

\* expire_due or timeout, with a lapsed reservation.
ReceiverLapse ==
    /\ rres.left = 0
    /\ EndReceiver(rres.high, ReceiverAbort)
    /\ UNCHANGED <<senderVars, net, counter, delivered>>

\* expire_due, with a tombstone whose hold-down is over: it is dropped, and
\* the admission floor with it.
RetireTombstone ==
    /\ rtomb.left = 0
    /\ rtomb' = NoTombstone
    /\ UNCHANGED <<senderVars, rbuf, rres, net, counter, delivered>>

-----------------------------------------------------------------------------
Less(t) == IF t > 0 THEN t - 1 ELSE t

Tick ==
    /\ sender' = [sender EXCEPT !.timer = Less(@)]
    /\ sres' = Less(sres)
    /\ shold' = IF shold > -Pause THEN shold - 1 ELSE shold
    /\ rres' = [rres EXCEPT !.left = Less(@)]
    /\ rtomb' = [rtomb EXCEPT !.left = Less(@)]
    /\ net' = {[f EXCEPT !.ttl = @ - 1] : f \in {g \in net : g.ttl > 0}}
    /\ UNCHANGED <<rbuf, counter, delivered>>

SenderNext ==
    Offer \/ Start \/ WriteFragment \/ WriteOutput \/ Timeout \/ ReceiveControl
      \/ CancelSender \/ DropSender \/ SenderLapse

ReceiverNext ==
    ReceiveData \/ CancelReceiver \/ DropReceiver \/ ReceiverLapse \/ RetireTombstone

FragNext == SenderNext \/ ReceiverNext \/ Tick

\* Time passes, the owner polls expire_due on both sides, and the sender's
\* caller writes the outputs it is given.
Fairness ==
    WF_fragVars(Tick) /\ WF_fragVars(SenderLapse) /\ WF_fragVars(ReceiverLapse) /\ WF_fragVars(WriteOutput)

FragSpec == FragInit /\ [][FragNext]_fragVars /\ Fairness

-----------------------------------------------------------------------------
(* Properties.                                                              *)

Transfer == INSTANCE PacketTransfer WITH
    N <- Len(Packets),
    offered <- sender.ses,
    outcome <- CASE sender.status \in {"ready", "active"} -> "open"
                 [] sender.status = "aborted" -> "failed"
                 [] OTHER -> sender.status,
    handed <- [i \in DOMAIN delivered |->
                  CHOOSE n \in DOMAIN Packets : Packets[n] = delivered[i]]

\* Fragmentation implements PacketTransfer: packets reach the receiver's
\* caller at most once, in order and only while they are on offer, and the
\* sender reports success only for a packet delivered, although neither
\* fragments nor ACKs name the packet they belong to.
ImplementsTransfer == Transfer!Spec

\* A sender that reports success has delivered its packet: the complete ACK it
\* took was the answer to this packet, not the response a receiver keeps for the
\* frames of an earlier one (the tombstone's hold-down, fragment.rs).
SuccessMeansDelivered ==
    sender.status = "succeeded" => \E i \in DOMAIN delivered : delivered[i] = Packet

\* An ACK under way for the final window always names a tile the sender can
\* repair: the bitmap finalize() builds from a partial window never sends
\* the sender into the abort of handle_ack_inner.
RepairPossible ==
    \A f \in Under("b") :
        (sender.status = "active" /\ f.msg.kind = "ack" /\ ~f.msg.complete
           /\ f.msg.win = FinalWindow(Packet))
        => ~(Assigned(Packet, f.msg.win) \subseteq f.msg.map)

\* A Receiver-Abort is never sent while the session has only stored tiles of
\* the packet on offer: the receiver's limit of answers covers every request
\* the sender's limit of attempts allows.
AnswersSuffice ==
    [][\A f \in net' :
          (f.from = "b" /\ f.ctr > counter["b"] /\ f.msg.kind = "rabort")
             => rres = NoSession]_fragVars

\* Every reservation ends, on both sides, and the sender's tuple is free for
\* a next packet after the hold-down.
ReservationsEnd ==
    /\ (sres # None) ~> (sres = None /\ shold <= 0)
    /\ (rres # NoSession) ~> (rres = NoSession)
=============================================================================
