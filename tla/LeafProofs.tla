----------------------------- MODULE LeafProofs -----------------------------
(***************************************************************************)
(* What a leaf does, for any number of sequences, faults and parents, every *)
(* retry ladder and every clock:                                            *)
(*   - the DAOs it signs (DaoOrigin): one per sequence, durable before      *)
(*     sent, and the refinement of DaoSource;                               *)
(*   - when it sends them (RplLoop): the deadlines of its owner loop.       *)
(* Liveness (ParentAnnounced) is left to TLC.                               *)
(***************************************************************************)
EXTENDS DaoOrigin, RplLoop, TLAPS

(* Two values are never each newer than the other, so a root that holds one *)
(* and is sent the other cannot be moved back and forth between them.       *)
LEMMA NewerAntisymmetric ==
    ASSUME NEW a \in Seqs, NEW b \in Seqs, SeqIsNewer(a, b)
    PROVE  ~SeqIsNewer(b, a)
BY LollipopAssumption DEF Seqs, SeqIsNewer, SameRegion, Ahead

(* An increment is a sequence, and always newer than what it follows.       *)
LEMMA IncrementNewer ==
    ASSUME NEW s \in Seqs
    PROVE  IncrementLollipop(s) \in Seqs /\ SeqIsNewer(IncrementLollipop(s), s)
BY LollipopAssumption DEF Seqs, SeqIsNewer, SameRegion, Ahead, IncrementLollipop

(* The value a new DaoManager starts from, 240, is a sequence.             *)
LEMMA StartIsSeq == Start \in Seqs
BY LollipopAssumption DEF Seqs, Start

-----------------------------------------------------------------------------

\* Memory and storage agree while the node is up; a node that is down holds
\* nothing, and a record that was never provisioned is empty.
Synced ==
    /\ phase # "off" => tx = TxRecord(disk.reserved, disk.signed)
    /\ phase = "off" => tx.signed = NoDao
    /\ ~disk.provisioned => /\ disk.reserved = 0
                            /\ disk.signed = NoDao
                            /\ phase = "off"

\* Where send_dao is says whether bytes are retained.
PhaseOK ==
    /\ phase = "reserved" => /\ disk.signed = NoDao
                             /\ parent \in Parents
                             /\ disk.reserved > 0
    /\ phase \in {"sending", "clearing"} => disk.signed # NoDao
    /\ phase = "clearing" => disk.signed \in air

\* No DAO has a sequence above the reserved one, none has the sequence being
\* built, and retained bytes are those of the reserved sequence.
SeqBound ==
    /\ \A d \in air : d.seq <= disk.reserved
    /\ phase = "reserved" => \A d \in air : d.seq < disk.reserved
    /\ disk.signed # NoDao => disk.signed.seq = disk.reserved

\* The DAOs on the air and in the record have distinct sequences.
Distinct ==
    /\ \A d, e \in air : d.seq = e.seq => d = e
    /\ disk.signed # NoDao =>
          \A d \in air : d.seq = disk.signed.seq => d = disk.signed

IInv == TypeOK /\ Synced /\ PhaseOK /\ SeqBound /\ Distinct

\* The initial state satisfies the invariant.
LEMMA InitIInv == Init => IInv
BY OriginAssumption, StartIsSeq
   DEF Init, IInv, TypeOK, Synced, PhaseOK, SeqBound, Distinct, TxRecord, Phases

\* Every step keeps it: one case per action.
LEMMA NextIInv == IInv /\ [Next]_vars => IInv'
<1> SUFFICES ASSUME IInv, [Next]_vars PROVE IInv'
    OBVIOUS
<1> USE OriginAssumption
<1>1. CASE Provision
    BY <1>1 DEF Provision, Store, IInv, TypeOK, Synced, PhaseOK, SeqBound, Distinct,
                TxRecord, Phases
<1>2. CASE OpenState
    BY <1>2 DEF OpenState, IInv, TypeOK, Synced, PhaseOK, SeqBound, Distinct,
                TxRecord, Phases
<1>3. ASSUME NEW p \in Parents \cup {NoParent, Unpinned}, SetParent(p) PROVE IInv'
    BY <1>3 DEF SetParent, IInv, TypeOK, Synced, PhaseOK, SeqBound, Distinct,
                TxRecord, Phases
<1>4. CASE Retransmit
    BY <1>4 DEF Retransmit, IInv, TypeOK, Synced, PhaseOK, SeqBound, Distinct,
                TxRecord, Phases
<1>5. CASE Reserve
    <2>1. IncrementLollipop(path) \in Seqs
        BY IncrementNewer DEF IInv, TypeOK
    <2>2. \A d \in air : d.seq \in Nat
        BY DEF IInv, TypeOK, Daos
    <2> QED
        BY <1>5, <2>1, <2>2 DEF Reserve, CanReserve, NextSequence, Store, IInv, TypeOK, Synced,
                PhaseOK, SeqBound, Distinct, TxRecord, Phases
<1>6. CASE Finalize
    <2>1. Draft \in Daos /\ Draft.seq = disk.reserved
        BY <1>6 DEF Finalize, Draft, Daos, IInv, TypeOK, Synced, PhaseOK, TxRecord
    <2>2. Draft # NoDao
        BY <2>1 DEF Daos
    <2> QED
        BY <1>6, <2>1, <2>2 DEF Finalize, Store, IInv, TypeOK, Synced, PhaseOK,
                SeqBound, Distinct, TxRecord, Phases
<1>7. CASE FinalizeFails
    BY <1>7 DEF FinalizeFails, Fault, IInv, TypeOK, Synced, PhaseOK, SeqBound, Distinct,
                TxRecord, Phases
<1>8. CASE TransmitOk
    BY <1>8 DEF TransmitOk, IInv, TypeOK, Synced, PhaseOK, SeqBound, Distinct,
                TxRecord, Phases
<1>9. CASE TransmitFails
    BY <1>9 DEF TransmitFails, Fault, IInv, TypeOK, Synced, PhaseOK, SeqBound, Distinct,
                TxRecord, Phases
<1>10. CASE Clear
    BY <1>10 DEF Clear, Store, IInv, TypeOK, Synced, PhaseOK, SeqBound, Distinct,
                TxRecord, Phases
<1>11. CASE ClearFails
    BY <1>11 DEF ClearFails, Fault, IInv, TypeOK, Synced, PhaseOK, SeqBound, Distinct,
                TxRecord, Phases
<1>12. CASE Crash
    BY <1>12, StartIsSeq DEF Crash, Fault, IInv, TypeOK, Synced, PhaseOK, SeqBound,
                Distinct, TxRecord, Phases
<1>13. CASE UNCHANGED vars
    BY <1>13 DEF vars, IInv, TypeOK, Synced, PhaseOK, SeqBound, Distinct, TxRecord
<1> QED
    BY <1>1, <1>2, <1>3, <1>4, <1>5, <1>6, <1>7, <1>8, <1>9, <1>10, <1>11, <1>12, <1>13
       DEF Next

(* Every variable keeps its type: in particular a leaf never reserves past  *)
(* the last sequence (Exhausted in reserve_next).                           *)
THEOREM OriginTypeCorrect == Spec => []TypeOK
BY InitIInv, NextIInv, PTL DEF Spec, IInv

(* An origin sequence stands for one signed DAO for ever, across crashes,   *)
(* failed writes and failed transmissions (reserve_next, finalize_signed).  *)
THEOREM OneDao == Spec => []OneDaoPerSequence
<1>1. IInv => OneDaoPerSequence
    BY DEF IInv, Synced, Distinct, OneDaoPerSequence, Made, TxRecord
<1> QED
    BY <1>1, InitIInv, NextIInv, PTL DEF Spec

(* send_dao only ever transmits bytes that are durable and newer than all   *)
(* that were transmitted before (finalize_signed before transmit_dao).      *)
THEOREM DurableNewest == Spec => []SendsDurableNewest
<1>1. IInv => SendsDurableNewest
    BY DEF IInv, Synced, PhaseOK, SeqBound, SendsDurableNewest, TxRecord
<1> QED
    BY <1>1, InitIInv, NextIInv, PTL DEF Spec

\* A node that was never provisioned is an origin that has reserved nothing.
LEMMA InitRefines == Init => Src!SourceInit
BY DEF Init, Src!SourceInit, Made, TxRecord, Start, Src!Start

\* Provisioning, opening, parent changes and a retry change nothing the root
\* relies on; a transmission and a clear move a DAO that already counts.
LEMMA NextRefines == IInv /\ [Next]_vars => [Src!SourceNext]_(Src!sourceVars)
<1> SUFFICES ASSUME IInv, [Next]_vars
             PROVE  Src!SourceNext \/ UNCHANGED Src!sourceVars
    BY DEF Src!sourceVars
<1> USE DEF IInv, Synced, PhaseOK, TxRecord
<1>1. CASE Provision
    BY <1>1 DEF Provision, Store, Src!sourceVars, Made
<1>2. CASE OpenState
    BY <1>2 DEF OpenState, Src!sourceVars, Made
<1>3. ASSUME NEW p \in Parents \cup {NoParent, Unpinned}, SetParent(p)
      PROVE  UNCHANGED Src!sourceVars
    BY <1>3 DEF SetParent, Src!sourceVars, Made
<1>4. CASE Retransmit
    BY <1>4 DEF Retransmit, Src!sourceVars, Made
<1>5. CASE Reserve
    <2>1. Made' = Made
        BY <1>5 DEF Reserve, CanReserve, Store, Made
    <2>2. /\ tx.reserved = disk.reserved
          /\ disk'.reserved = disk.reserved + 1
          /\ disk.reserved < MaxSeq
          /\ path' = Src!IncrementLollipop(path)
          /\ phase = "idle" /\ phase' = "reserved"
        BY <1>5 DEF Reserve, CanReserve, NextSequence, Store, IncrementLollipop,
                    Src!IncrementLollipop
    <2>3. Src!Begin(Self)
        BY <2>1, <2>2 DEF Src!Begin
    <2> QED BY <2>3 DEF Src!SourceNext
<1>6. CASE Finalize
    <2>1. parent \in Parents /\ Draft # NoDao
        BY <1>6, OriginAssumption DEF Finalize, TypeOK, Draft, Daos
    <2>2. Src!Emit(Self, parent)
        BY <1>6, <2>1 DEF Finalize, Store, Src!Emit, Made, Draft
    <2> QED BY <2>1, <2>2 DEF Src!SourceNext
<1>7. CASE FinalizeFails
    <2>1. Src!Abandon(Self)
        BY <1>7 DEF FinalizeFails, Src!Abandon, Made
    <2> QED BY <2>1 DEF Src!SourceNext
<1>8. CASE TransmitOk
    BY <1>8 DEF TransmitOk, Src!sourceVars, Made
<1>9. CASE TransmitFails
    BY <1>9 DEF TransmitFails, Src!sourceVars, Made
<1>10. CASE Clear
    BY <1>10 DEF Clear, Store, Src!sourceVars, Made
<1>11. CASE ClearFails
    BY <1>11 DEF ClearFails, Src!sourceVars, Made
<1>12. CASE Crash
    <2>1. Made' = Made
        BY <1>12 DEF Crash, Made
    <2>2. path' = Src!Start /\ phase' = "off" /\ disk' = disk
        BY <1>12 DEF Crash, Start, Src!Start
    <2>3. Src!Reboot(Self)
        BY <2>1, <2>2 DEF Src!Reboot
    <2> QED BY <2>3 DEF Src!SourceNext
<1>13. CASE UNCHANGED vars
    BY <1>13 DEF vars, Src!sourceVars, Made
<1> QED
    BY <1>1, <1>2, <1>3, <1>4, <1>5, <1>6, <1>7, <1>8, <1>9, <1>10, <1>11, <1>12, <1>13
       DEF Next

(* The leaf implements DaoSource: what the root is modelled against is what  *)
(* the leaf does.                                                           *)
THEOREM OriginRefinement == Spec => PromisesKept
BY InitIInv, NextIInv, InitRefines, NextRefines, PTL
   DEF Spec, PromisesKept, Src!SourceSpec

-----------------------------------------------------------------------------

(***************************************************************************)
(* The owner loop.                                                          *)
(***************************************************************************)

\* The number of delays of the retry ladder.
Rungs == Len(RetryDelays)

\* The Trickle timers: the transmission is due before the interval ends.
Timers ==
    {tr \in [state : {"stopped", "transmit", "expire"}, interval : Nat \ {0},
             end : Nat, at : Nat, heard : Nat] :
        tr.state = "transmit" => tr.at <= tr.end}

\* The states of the router.
NodeStates == [joined : BOOLEAN, trickle : Timers, changed : Nat \cup {None}]

\* The states of the DAO scheduler: a retry is on a rung of the ladder.
DaoStates ==
    {d \in [phase : Timed \cup {"idle", "exhausted"}, attempt : Nat, deadline : Nat] :
        d.phase = "retry" => d.attempt < Rungs}

\* What the loop may be about to do.
Kinds == {"none", "receive", "transmit", "expire", "dao"}
Actions == {p \in [kind : Kinds, timeout : Nat] : p.kind = "none" => p = NoAction}

\* The values the variables hold.
LoopTypes ==
    /\ last \in Nat /\ last <= MaxTime
    /\ maint \in Nat \cup {None}
    /\ pending \in Actions
    /\ bound \in BOOLEAN /\ born \in Nat
    /\ node \in NodeStates
    /\ dao \in DaoStates

\* A timer that was just started: its event is ahead.
Restarted(tr, t) == tr.state = "stopped" \/ (tr.state = "transmit" /\ t < tr.at)

\* What a clock sample at t may do to a node: its timer is started again, or
\* its timer, membership and parent stay; a change is remembered while joined.
Remembers(m, n, t) ==
    /\ m \in NodeStates
    /\ m.changed # None => m.joined
    /\ m.changed \in {None, t, n.changed}

\* The two things a clock sample may do.
Moves(m, n, t) ==
    /\ Remembers(m, n, t)
    /\ \/ Restarted(m.trickle, t)
       \/ /\ m.trickle.state = n.trickle.state /\ m.trickle.at = n.trickle.at
          /\ m.joined = n.joined /\ m.changed = n.changed

\* The next maintenance m is ahead of t, by at most an interval.
MaintAhead(m, t) ==
    IF m = None THEN t + MaintEvery > MaxTime ELSE t < m /\ m <= t + MaintEvery

\* The deadline m is some intervals after b.
OnGrid(m, b) == m # None => m <= MaxTime /\ \E k \in Nat \ {0} : m = b + MaintEvery * k

-----------------------------------------------------------------------------
\* Whole units of m in x.
LEMMA DivBounds ==
    ASSUME NEW x \in Nat, NEW m \in Nat \ {0}
    PROVE  x \div m \in Nat /\ m * (x \div m) <= x /\ x < m * (x \div m) + m
OBVIOUS

\* A new interval starts with its event ahead, in its second half.
LEMMA BeginRestarted ==
    ASSUME NEW t \in Nat, NEW iv \in Nat \ {0}, NEW rand \in Nat
    PROVE  BeginInterval(t, iv, rand) \in Timers /\ Restarted(BeginInterval(t, iv, rand), t)
<1> DEFINE h == Half(iv)
           r == IF iv > h THEN rand % (iv - h) ELSE 0
<1>1. h \in Nat /\ 1 <= h /\ h <= iv
    BY DEF Half
<1>2. r \in Nat /\ h + r <= iv
    <2>1. CASE iv > h
        <3> DEFINE m == iv - h
        <3>1. m \in Nat \ {0}
            BY <1>1, <2>1
        <3> HIDE DEF m, h
        <3>2. rand % m \in 0 .. m - 1
            BY <3>1
        <3>3. r = rand % m
            BY <2>1 DEF m
        <3> QED
            BY <1>1, <3>1, <3>2, <3>3 DEF m
    <2>2. CASE ~ (iv > h)
        BY <1>1, <2>2
    <2> QED
        BY <2>1, <2>2
<1> DEFINE a == t + h + r
<1>3. a \in Nat /\ t < a /\ a <= t + iv
    BY <1>1, <1>2
<1>4. BeginInterval(t, iv, rand) =
        IF t + iv > MaxTime THEN Stopped
        ELSE [state |-> "transmit", interval |-> iv, end |-> t + iv, at |-> a, heard |-> 0]
    BY DEF BeginInterval
<1> HIDE DEF a
<1>5. CASE t + iv > MaxTime
    BY <1>4, <1>5, LoopAssumption DEF Stopped, Timers, Restarted
<1>6. CASE ~ (t + iv > MaxTime)
    <2>1. BeginInterval(t, iv, rand) =
            [state |-> "transmit", interval |-> iv, end |-> t + iv, at |-> a, heard |-> 0]
        BY <1>4, <1>6
    <2> QED
        BY <1>3, <2>1 DEF Timers, Restarted
<1> QED
    BY <1>5, <1>6

\* A change of the topology.
LEMMA ChangeMoves ==
    ASSUME NEW n \in NodeStates, NEW t \in Nat, NEW joinable \in BOOLEAN,
           NEW m \in Changed(n, t, joinable)
    PROVE  Moves(m, n, t) /\ Restarted(m.trickle, t) /\ (m.joined => joinable \/ n.joined)
<1>1. PICK j \in (IF joinable \/ n.joined THEN BOOLEAN ELSE {FALSE}) :
        m = Node(j, ResetTrickle(t, 0),
                 IF j /\ n.joined THEN (IF n.changed = None THEN t ELSE n.changed) ELSE None)
    BY DEF Changed
<1>2. ResetTrickle(t, 0) \in Timers /\ Restarted(ResetTrickle(t, 0), t)
    BY LoopAssumption, BeginRestarted DEF ResetTrickle
<1>3. j \in BOOLEAN /\ (j => joinable \/ n.joined)
    BY <1>1
<1>4. /\ m.joined = j /\ m.trickle = ResetTrickle(t, 0)
      /\ m.changed = IF j /\ n.joined THEN (IF n.changed = None THEN t ELSE n.changed) ELSE None
      /\ m = [joined |-> m.joined, trickle |-> m.trickle, changed |-> m.changed]
    BY <1>1 DEF Node
<1>5. n.changed \in Nat \cup {None} /\ n.joined \in BOOLEAN
    BY DEF NodeStates
<1>6. m.changed \in Nat \cup {None} /\ m.changed \in {None, t, n.changed} /\ (m.changed # None => m.joined)
    BY <1>3, <1>4, <1>5
<1>7. m \in NodeStates
    BY <1>2, <1>3, <1>4, <1>6 DEF NodeStates
<1> QED
    BY <1>2, <1>3, <1>4, <1>6, <1>7 DEF Moves, Remembers

\* Maintenance never makes a node join.
LEMMA MaintainMoves ==
    ASSUME NEW n \in NodeStates, n.changed # None => n.joined, NEW t \in Nat,
           NEW m \in Maintained(n, t)
    PROVE  Moves(m, n, t) /\ (m.joined => n.joined) /\ (m = n \/ Restarted(m.trickle, t))
<1>1. CASE m = n
    BY <1>1 DEF Moves, Remembers
<1>2. CASE m \in Changed(n, t, FALSE)
    BY <1>2, ChangeMoves
<1> QED
    BY <1>1, <1>2 DEF Maintained

\* A received frame.
LEMMA ProcessMoves ==
    ASSUME NEW n \in NodeStates, n.changed # None => n.joined, NEW t \in Nat,
           NEW m \in Processed(n, t)
    PROVE  Moves(m, n, t)
<1>1. CASE m = n
    BY <1>1 DEF Moves, Remembers
<1>2. CASE m = Node(n.joined, HeardConsistent(n.trickle), n.changed)
    <2> DEFINE h == HeardConsistent(n.trickle)
    <2>1. n.trickle \in Timers /\ n.joined \in BOOLEAN /\ n.changed \in Nat \cup {None}
        BY DEF NodeStates
    <2>2. h \in Timers /\ h.state = n.trickle.state /\ h.at = n.trickle.at
        <3>1. K \in Nat /\ n.trickle.heard \in Nat
            BY <2>1, LoopAssumption DEF Timers
        <3>2. Smaller(n.trickle.heard + 1, K) \in Nat
            BY <3>1 DEF Smaller
        <3>3. h = n.trickle \/ h = [n.trickle EXCEPT !.heard = Smaller(n.trickle.heard + 1, K)]
            BY DEF HeardConsistent
        <3> QED
            BY <2>1, <3>2, <3>3 DEF Timers
    <2>3. m.joined = n.joined /\ m.trickle = h /\ m.changed = n.changed
        BY <1>2 DEF Node
    <2>4. m \in NodeStates
        BY <1>2, <2>1, <2>2 DEF Node, NodeStates
    <2> HIDE DEF h
    <2> QED
        BY <2>2, <2>3, <2>4 DEF Moves, Remembers
<1>3. CASE m \in Changed(n, t, TRUE)
    BY <1>3, ChangeMoves
<1> QED
    BY <1>1, <1>2, <1>3 DEF Processed

\* Two changes at one sample are one.
LEMMA MovesTwice ==
    ASSUME NEW n, NEW m, NEW k, NEW t, Moves(m, n, t), Moves(k, m, t)
    PROVE  Moves(k, n, t)
BY DEF Moves, Remembers, Restarted

\* Maintenance stays on its grid.
LEMMA MaintNext ==
    ASSUME maint \in Nat \cup {None}, last \in Nat, MaintAhead(maint, last),
           born \in Nat, OnGrid(maint, born), NEW t \in Nat, last <= t, t <= MaxTime
    PROVE  LET m == IF maint # None /\ t >= maint THEN NextMaintenance(t) ELSE maint
           IN  m \in Nat \cup {None} /\ MaintAhead(m, t) /\ OnGrid(m, born)
<1> DEFINE m == IF maint # None /\ t >= maint THEN NextMaintenance(t) ELSE maint
<1>1. MaxTime \in Nat /\ MaintEvery \in Nat \ {0}
    BY LoopAssumption
<1>2. CASE maint = None
    BY <1>1, <1>2 DEF MaintAhead
<1>3. CASE maint # None /\ ~ (t >= maint)
    BY <1>1, <1>3 DEF MaintAhead
<1>4. CASE maint # None /\ t >= maint
    <2> DEFINE x == t - maint
               q == x \div MaintEvery
               p == MaintEvery * q
               next == maint + (p + MaintEvery)
    <2>1. maint \in Nat /\ x \in Nat /\ t = maint + x
        BY <1>4
    <2>2. q \in Nat /\ p <= x /\ x < p + MaintEvery
        <3> HIDE DEF x
        <3> QED
            BY <1>1, <2>1, DivBounds
    <2>3. p \in Nat /\ MaintEvery * (q + 1) = p + MaintEvery
        <3> HIDE DEF q
        <3> QED
            BY <1>1, <2>2
    <2>4. m = IF next > MaxTime THEN None ELSE next
        BY <1>4, <2>3 DEF NextMaintenance
    <2>5. next \in Nat /\ t < next /\ next <= t + MaintEvery
        <3> HIDE DEF x, q, p
        <3> QED
            BY <1>1, <2>1, <2>2, <2>3
    <2>6. \E k \in Nat \ {0} : next = born + MaintEvery * k
        <3>1. PICK k \in Nat \ {0} : maint = born + MaintEvery * k
            BY <1>4 DEF OnGrid
        <3> DEFINE j == k + (q + 1)
        <3>2. j \in Nat \ {0} /\ MaintEvery * j = MaintEvery * k + MaintEvery * (q + 1)
            <4> HIDE DEF q
            <4> QED
                BY <1>1, <2>2
        <3>3. next = born + MaintEvery * j
            <4>1. MaintEvery * k \in Nat
                BY <1>1
            <4> HIDE DEF j, p, q
            <4> QED
                BY <1>1, <2>3, <3>1, <3>2, <4>1
        <3> HIDE DEF j, next
        <3> QED
            BY <3>2, <3>3
    <2> HIDE DEF next, m
    <2>7. next # None
        BY <2>5 DEF None
    <2> QED
        BY <1>1, <2>4, <2>5, <2>6, <2>7 DEF MaintAhead, OnGrid, m
<1> QED
    BY <1>2, <1>3, <1>4

-----------------------------------------------------------------------------
(* The conditions on a node n, its DAO scheduler d and the pending action p *)
(* at the clock sample t.                                                   *)

\* The DAO is planned while the node is joined; a receive ends before it, and
\* nothing but the DAO is pending when it is due.
DaoPlanned(n, d, p, t) ==
    IF p.kind = "none"
    THEN n.joined /\ d.phase \in Timed => t <= d.deadline + Late
    ELSE /\ n.joined <=> d.phase # "idle"
         /\ p.kind = "dao" => d.phase \in Timed
         /\ d.phase \in Timed =>
               IF p.kind = "dao" THEN d.deadline <= t /\ t <= d.deadline + Late + MaxSend
               ELSE t < d.deadline /\ (p.kind = "receive" => t + p.timeout <= d.deadline)

\* No attempt is planned further ahead than a refresh.
DaoNear(d, t) ==
    /\ d.phase \in Timed => d.deadline <= t + Refresh
    /\ d.phase = "exhausted" => MaxTime < t + Refresh

\* Nor further than a refresh after the parent changed; a node that joined and
\* changed its parent at one sample is about to be polled.
ChangeNear(n, d, p, t) ==
    n.changed # None =>
        /\ n.joined /\ n.changed <= t
        /\ d.phase \in Timed => d.deadline <= n.changed + Refresh
        /\ d.phase = "exhausted" => MaxTime < n.changed + Refresh
        /\ d.phase = "idle" => p.kind = "none" /\ t = n.changed

\* The pending Trickle event is the one that is due, and a receive ends before
\* the next.
EventPending(tr, p, t) ==
    /\ p.kind \in {"transmit", "expire"} => tr.state = p.kind /\ tr.at <= t
    /\ p.kind = "receive" /\ tr.state # "stopped" => t + p.timeout <= tr.at

\* Twice the longest transmission, k times: that many attempts and their polls.
Cost(k) == 2 * MaxSend * k

\* How much later than due the event may be with p pending: p's own
\* transmission, and, in the second half of an interval, the one that ended the
\* first half.
Slack(tr, p) ==
    (IF p.kind = "none" THEN 0 ELSE MaxSend) + (IF tr.state = "expire" THEN Late + MaxSend ELSE 0)

\* How late the Trickle event is: by the attempts the scheduler has made of its
\* ladder, and once it has made all, it rests for a refresh.
EventLate(n, d, p, t) ==
    n.trickle.state # "stopped" =>
        LET soon == n.trickle.at + Late + Slack(n.trickle, p) IN
        \/ t <= soon
        \/ n.joined /\ d.phase = "retry" /\ t <= soon + Cost(d.attempt + 1)
        \/ n.joined /\ d.phase = "exhausted" /\ t <= soon + Cost(Rungs + 1)
        \/ /\ n.joined /\ d.phase = "refresh" /\ t <= soon + Cost(Rungs + 1)
           /\ t + Refresh <= d.deadline + Slack(n.trickle, p)

\* The relations between the node, the scheduler, the pending action and the
\* last sample of the clock.
Good(n, d, p, t) ==
    /\ DaoPlanned(n, d, p, t) /\ DaoNear(d, t) /\ ChangeNear(n, d, p, t)
    /\ EventPending(n.trickle, p, t) /\ EventLate(n, d, p, t)

\* A runtime that refuses has nothing pending that counts: it is replaced before
\* the next poll.
Effective == IF bound THEN pending ELSE NoAction

\* The inductive invariant of the loop.
LoopInv ==
    /\ LoopTypes
    /\ ~bound => pending.kind = "receive"
    /\ bound => MaintAhead(maint, last) /\ OnGrid(maint, born)
    /\ Good(node, dao, Effective, last)

\* The constants are numbers.
LEMMA Numbers ==
    /\ {Imin, MaxInterval, K, MaintEvery, Refresh, MaxTimeout} \subseteq Nat \ {0}
    /\ Late \in Nat /\ MaxSend \in Nat /\ MaxTime \in Nat /\ InitialMax \in Nat
    /\ Refresh \in Nat /\ Rungs \in Nat \ {0}
    /\ \A k \in 1 .. Rungs : RetryDelays[k] \in Nat \ {0} /\ RetryDelays[k] <= Refresh
<1>1. RetryDelays \in Seq(Nat \ {0}) /\ RetryDelays # <<>>
    BY LoopAssumption
<1>2. Rungs \in Nat /\ \A k \in 1 .. Rungs : RetryDelays[k] \in Nat \ {0}
    BY <1>1 DEF Rungs
<1>3. Rungs # 0
    BY <1>1 DEF Rungs
<1> QED
    BY <1>2, <1>3, LoopAssumption, RefreshAssumption DEF Rungs

\* Each attempt adds its cost.
LEMMA CostSteps ==
    /\ Cost(0) = 0
    /\ \A k \in Nat : Cost(k) \in Nat /\ Cost(k + 1) = Cost(k) + 2 * MaxSend
    /\ \A k \in Nat : k <= Rungs + 1 => Cost(k) <= Cost(Rungs + 1)
<1>1. MaxSend \in Nat /\ Rungs + 1 \in Nat
    BY Numbers
<1>2. \A k \in Nat : Cost(k) \in Nat /\ Cost(k + 1) = Cost(k) + 2 * MaxSend
    BY <1>1 DEF Cost
<1>3. ASSUME NEW k \in Nat, NEW l \in Nat, k <= l
      PROVE  Cost(k) <= Cost(l)
    <2> DEFINE m == 2 * MaxSend
    <2>1. m \in Nat
        BY <1>1
    <2>2. Cost(k) = m * k /\ Cost(l) = m * l
        BY DEF Cost
    <2> HIDE DEF m
    <2>3. m * k <= m * l
        BY <1>3, <2>1
    <2> QED
        BY <2>2, <2>3
<1> QED
    BY <1>1, <1>2, <1>3 DEF Cost

\* The slack is a number.
LEMMA SlackNat ==
    ASSUME NEW tr, NEW p
    PROVE  Slack(tr, p) \in Nat
BY Numbers DEF Slack

\* A timer that was just started is not late.
LEMMA LateRestarted ==
    ASSUME NEW n \in NodeStates, NEW d, NEW p, NEW t \in Nat, Restarted(n.trickle, t)
    PROVE  EventLate(n, d, p, t)
<1>1. n.trickle.at \in Nat
    BY DEF NodeStates, Timers
<1>2. Late \in Nat /\ Slack(n.trickle, p) \in Nat
    BY Numbers, SlackNat
<1>3. n.trickle.state # "stopped" => t <= n.trickle.at + Late + Slack(n.trickle, p)
    BY <1>1, <1>2 DEF Restarted
<1> QED
    BY <1>3 DEF EventLate

\* A completed receive or Trickle event leaves the DAO in time.
LEMMA CompleteKeeps ==
    ASSUME NEW n \in NodeStates, NEW m, NEW d \in DaoStates, NEW p \in Actions,
           p.kind \notin {"none", "dao"}, NEW t \in Nat, NEW s \in Nat, t <= s,
           s <= t + Late + (IF p.kind = "receive" THEN p.timeout ELSE 0),
           DaoPlanned(n, d, p, t), DaoNear(d, t), ChangeNear(n, d, p, t),
           Remembers(m, n, s)
    PROVE  /\ DaoPlanned(m, d, NoAction, s) /\ DaoNear(d, s) /\ ChangeNear(m, d, NoAction, s)
           /\ EventPending(m.trickle, NoAction, s)
<1>1. Late \in Nat /\ MaxSend \in Nat /\ MaxTime \in Nat /\ Refresh \in Nat /\ p.timeout \in Nat
      /\ d.deadline \in Nat /\ n.changed \in Nat \cup {None}
    BY Numbers DEF Actions, DaoStates, NodeStates
<1>2. d.phase \in Timed => s <= d.deadline + Late
    BY <1>1 DEF DaoPlanned
<1>3. DaoNear(d, s)
    BY <1>1 DEF DaoNear
<1>4. NoAction.kind = "none"
    BY DEF NoAction
<1>5. ChangeNear(m, d, NoAction, s)
    <2> SUFFICES ASSUME m.changed # None
                 PROVE  /\ m.joined /\ m.changed <= s
                        /\ d.phase \in Timed => d.deadline <= m.changed + Refresh
                        /\ d.phase = "exhausted" => MaxTime < m.changed + Refresh
                        /\ d.phase = "idle" => s = m.changed
        BY <1>4 DEF ChangeNear
    <2>1. m.joined /\ m.changed \in {s, n.changed}
        BY DEF Remembers
    <2>2. CASE m.changed = s
        BY <1>1, <1>3, <2>1, <2>2 DEF DaoNear
    <2>3. CASE m.changed = n.changed
        BY <1>1, <2>1, <2>3 DEF ChangeNear
    <2> QED
        BY <2>1, <2>2, <2>3
<1> QED
    BY <1>2, <1>3, <1>4, <1>5 DEF DaoPlanned, EventPending

-----------------------------------------------------------------------------
\* The parts of the invariant after a step that leaves the runtime bound.
LEMMA Established ==
    ASSUME last' \in Nat, last' <= MaxTime, maint' \in Nat \cup {None}, pending' \in Actions,
           bound', bound' \in BOOLEAN, born' \in Nat,
           node' \in NodeStates, dao' \in DaoStates, MaintAhead(maint', last'),
           OnGrid(maint', born'), Good(node', dao', pending', last')
    PROVE  LoopInv'
<1>1. Effective' = pending'
    BY DEF Effective
<1>2. /\ last' \in Nat /\ last' <= MaxTime /\ maint' \in Nat \cup {None} /\ pending' \in Actions
      /\ node' \in NodeStates /\ dao' \in DaoStates /\ MaintAhead(maint', last')
      /\ OnGrid(maint', born') /\ Good(node', dao', Effective', last')
    BY <1>1
<1> QED
    BY <1>2 DEF LoopInv, LoopTypes, MaintAhead, OnGrid, Good,
       DaoPlanned, DaoNear, ChangeNear, EventPending, EventLate, Slack, Cost, Actions, NodeStates, DaoStates, Timers

\* The invariant in parts.
LEMMA InvHolds ==
    ASSUME LoopInv
    PROVE  /\ last \in Nat /\ last <= MaxTime /\ maint \in Nat \cup {None}
           /\ pending \in Actions /\ node \in NodeStates /\ dao \in DaoStates
           /\ bound \in BOOLEAN /\ born \in Nat
           /\ Effective \in Actions
           /\ DaoPlanned(node, dao, Effective, last) /\ DaoNear(dao, last)
           /\ ChangeNear(node, dao, Effective, last) /\ EventPending(node.trickle, Effective, last)
           /\ EventLate(node, dao, Effective, last)
           /\ node.changed # None => node.joined
<1>1. NoAction \in Actions
    BY DEF NoAction, Actions, Kinds
<1> QED
    BY <1>1 DEF LoopInv, LoopTypes, Good, ChangeNear, Effective

\* The same while the runtime is bound.
LEMMA InvParts ==
    ASSUME LoopInv, bound
    PROVE  /\ last \in Nat /\ last <= MaxTime /\ maint \in Nat \cup {None}
           /\ pending \in Actions /\ node \in NodeStates /\ dao \in DaoStates
           /\ bound \in BOOLEAN /\ born \in Nat
           /\ MaintAhead(maint, last) /\ OnGrid(maint, born)
           /\ DaoPlanned(node, dao, pending, last) /\ DaoNear(dao, last)
           /\ ChangeNear(node, dao, pending, last) /\ EventPending(node.trickle, pending, last)
           /\ EventLate(node, dao, pending, last)
           /\ node.changed # None => node.joined
<1>1. Effective = pending
    BY DEF Effective
<1> QED
    BY <1>1, InvHolds DEF LoopInv

\* A clock sample is a time.
LEMMA SampleTime ==
    ASSUME last \in Nat, NEW most \in Nat, NEW t \in Samples(most)
    PROVE  t \in Nat /\ last <= t /\ t <= last + most /\ t <= MaxTime
BY Numbers DEF Samples, Smaller

\* No action is an action, and none is pending then.
LEMMA NoActionIs == NoAction \in Actions /\ NoAction.kind = "none"
BY DEF NoAction, Actions, Kinds

\* A received frame, or none, and maintenance.
LEMMA ReceiveKeeps ==
    ASSUME LoopInv, bound, Receive
    PROVE  LoopInv'
<1> USE InvParts
<1>1. pending.kind = "receive" /\ pending' = NoAction /\ dao' = dao /\ bound' = bound /\ born' = born
    BY DEF Receive, runtimeVars
<1>0. PICK t \in Samples(pending.timeout + Late) : \E m \in Processed(node, t) :
        /\ last' = t
        /\ node' \in Maintained(m, t)
        /\ maint' = IF maint # None /\ t >= maint THEN NextMaintenance(t) ELSE maint
    BY DEF Receive
<1>2. PICK m \in Processed(node, t) :
        /\ last' = t
        /\ node' \in Maintained(m, t)
        /\ maint' = IF maint # None /\ t >= maint THEN NextMaintenance(t) ELSE maint
    BY <1>0
<1> DEFINE k == node'
<1>3. pending.timeout + Late \in Nat /\ pending.timeout \in Nat /\ Late \in Nat
    BY Numbers DEF Actions
<1>4. t \in Nat /\ last <= t /\ t <= last + (pending.timeout + Late) /\ t <= MaxTime
    BY <1>3, SampleTime
<1>5. maint' \in Nat \cup {None} /\ MaintAhead(maint', t) /\ OnGrid(maint', born)
    BY <1>2, <1>4, MaintNext
<1>6. Moves(m, node, t)
    BY <1>4, ProcessMoves
<1>7. m \in NodeStates /\ (m.changed # None => m.joined)
    BY <1>6 DEF Moves, Remembers
<1>8. Moves(k, m, t)
    BY <1>2, <1>4, <1>7, MaintainMoves
<1> HIDE DEF k
<1>9. Moves(k, node, t)
    BY <1>6, <1>8, MovesTwice
<1>10. k \in NodeStates /\ Remembers(k, node, t)
    BY <1>9 DEF Moves, Remembers
<1>11. t <= last + Late + (IF pending.kind = "receive" THEN pending.timeout ELSE 0)
    BY <1>1, <1>3, <1>4
<1>12. /\ DaoPlanned(k, dao, NoAction, t) /\ DaoNear(dao, t) /\ ChangeNear(k, dao, NoAction, t)
       /\ EventPending(k.trickle, NoAction, t)
    BY <1>1, <1>4, <1>10, <1>11, CompleteKeeps
<1>13. EventLate(k, dao, NoAction, t)
    <2>1. CASE Restarted(k.trickle, t)
        BY <1>4, <1>10, <2>1, LateRestarted
    <2>2. CASE k.trickle.state = node.trickle.state /\ k.trickle.at = node.trickle.at
        <3>1. k.trickle.at \in Nat /\ Slack(k.trickle, NoAction) \in Nat
            BY <1>10, SlackNat DEF NodeStates, Timers
        <3>2. k.trickle.state # "stopped" => t <= k.trickle.at + Late
            BY <1>1, <1>3, <1>4, <2>2, <3>1 DEF EventPending
        <3>3. k.trickle.state # "stopped" => t <= k.trickle.at + Late + Slack(k.trickle, NoAction)
            BY <1>3, <1>4, <3>1, <3>2
        <3> QED
            BY <3>3 DEF EventLate
    <2> QED
        BY <1>9, <2>1, <2>2 DEF Moves
<1> QED
    BY <1>1, <1>2, <1>4, <1>5, <1>10, <1>12, <1>13, NoActionIs, Established DEF Good, k

\* The transmission of a DIO: the event that is pending is still due, unless
\* maintenance started the timer again.
LEMMA TransmitKeeps ==
    ASSUME LoopInv, bound, TrickleTransmit
    PROVE  LoopInv'
<1> USE InvParts
<1>1. pending.kind = "transmit" /\ pending' = NoAction /\ dao' = dao /\ bound' = bound /\ born' = born
    BY DEF TrickleTransmit, runtimeVars
<1>2. PICK t \in Samples(Late) : \E n \in Maintained(node, t) :
        /\ Observe(t, n)
        /\ node' = IF n.trickle.state = "transmit" /\ n.trickle.at <= t
                   THEN Node(n.joined, FireTransmit(n.trickle), n.changed) ELSE n
    BY DEF TrickleTransmit
<1>3. PICK n \in Maintained(node, t) :
        /\ Observe(t, n)
        /\ node' = IF n.trickle.state = "transmit" /\ n.trickle.at <= t
                   THEN Node(n.joined, FireTransmit(n.trickle), n.changed) ELSE n
    BY <1>2
<1> DEFINE k == node'
<1>4. Late \in Nat /\ MaxSend \in Nat
    BY Numbers
<1>5. t \in Nat /\ last <= t /\ t <= last + Late /\ t <= MaxTime
    BY <1>4, SampleTime
<1>6. last' = t /\ maint' \in Nat \cup {None} /\ MaintAhead(maint', t) /\ OnGrid(maint', born)
    BY <1>3, <1>5, MaintNext DEF Observe
<1>7. Moves(n, node, t) /\ (n = node \/ Restarted(n.trickle, t))
    BY <1>5, MaintainMoves
<1>8. n \in NodeStates /\ n.joined \in BOOLEAN /\ n.trickle \in Timers /\ n.changed \in Nat \cup {None}
    BY <1>7 DEF Moves, Remembers, NodeStates
<1>9. Remembers(k, node, t) /\ k \in NodeStates /\ EventLate(k, dao, NoAction, t)
    <2>1. CASE Restarted(n.trickle, t)
        <3>1. k = n
            BY <1>3, <1>5, <1>8, <2>1 DEF Restarted, Timers
        <3> QED
            BY <1>5, <1>7, <1>8, <2>1, <3>1, LateRestarted DEF Moves
    <2>2. CASE n = node
        <3> DEFINE tr == node.trickle
                   f == FireTransmit(tr)
        <3>1. tr.state = "transmit" /\ tr.at <= last /\ tr \in Timers
            BY <1>1 DEF EventPending, NodeStates
        <3>2. tr.at \in Nat /\ tr.end \in Nat /\ tr.at <= tr.end
            BY <3>1 DEF Timers
        <3>3. tr.at <= t
            BY <1>5, <3>1, <3>2
        <3>4. k = Node(node.joined, f, node.changed)
            BY <1>3, <2>2, <3>1, <3>3
        <3>5. f \in Timers /\ f.state = "expire" /\ f.at = tr.end
            BY <3>1, <3>2 DEF FireTransmit, Timers
        <3>6. k.joined = node.joined /\ k.trickle = f /\ k.changed = node.changed
            BY <3>4 DEF Node
        <3>7. k \in NodeStates
            BY <1>8, <2>2, <3>4, <3>5 DEF Node, NodeStates
        <3>8. Remembers(k, node, t)
            BY <3>6, <3>7 DEF Remembers
        <3>9. Slack(f, NoAction) = Late + MaxSend /\ Slack(tr, pending) = MaxSend
            BY <1>1, <1>4, <3>1, <3>5, NoActionIs DEF Slack
        <3> DEFINE soon == tr.at + Late + MaxSend
                   then == tr.end + Late + (Late + MaxSend)
        <3>10. \/ last <= soon
               \/ node.joined /\ dao.phase = "retry" /\ last <= soon + Cost(dao.attempt + 1)
               \/ node.joined /\ dao.phase = "exhausted" /\ last <= soon + Cost(Rungs + 1)
               \/ /\ node.joined /\ dao.phase = "refresh" /\ last <= soon + Cost(Rungs + 1)
                  /\ last + Refresh <= dao.deadline + MaxSend
            BY <3>1, <3>9 DEF EventLate
        <3>11. soon \in Nat /\ then \in Nat /\ soon + Late <= then
            BY <1>4, <3>2
        <3>12. Cost(dao.attempt + 1) \in Nat /\ Cost(Rungs + 1) \in Nat /\ Refresh \in Nat
               /\ dao.deadline \in Nat
            BY Numbers, CostSteps DEF DaoStates
        <3> HIDE DEF f, tr, soon, then, k
        <3>13. \/ t <= then
               \/ k.joined /\ dao.phase = "retry" /\ t <= then + Cost(dao.attempt + 1)
               \/ k.joined /\ dao.phase = "exhausted" /\ t <= then + Cost(Rungs + 1)
               \/ /\ k.joined /\ dao.phase = "refresh" /\ t <= then + Cost(Rungs + 1)
                  /\ t + Refresh <= dao.deadline + (Late + MaxSend)
            BY <1>4, <1>5, <3>6, <3>10, <3>11, <3>12
        <3>14. then = k.trickle.at + Late + Slack(k.trickle, NoAction)
            BY <3>5, <3>6, <3>9 DEF then
        <3>15. EventLate(k, dao, NoAction, t)
            BY <3>6, <3>9, <3>13, <3>14 DEF EventLate
        <3> QED
            BY <3>7, <3>8, <3>15
    <2> QED
        BY <1>7, <2>1, <2>2
<1> HIDE DEF k
<1>10. t <= last + Late + (IF pending.kind = "receive" THEN pending.timeout ELSE 0)
    BY <1>1, <1>4, <1>5
<1>11. /\ DaoPlanned(k, dao, NoAction, t) /\ DaoNear(dao, t) /\ ChangeNear(k, dao, NoAction, t)
       /\ EventPending(k.trickle, NoAction, t)
    BY <1>1, <1>5, <1>9, <1>10, CompleteKeeps
<1> QED
    BY <1>1, <1>5, <1>6, <1>9, <1>11, NoActionIs, Established DEF Good, k

\* The end of an interval starts the next.
LEMMA ExpireKeeps ==
    ASSUME LoopInv, bound, TrickleExpire
    PROVE  LoopInv'
<1> USE InvParts
<1>1. pending.kind = "expire" /\ pending' = NoAction /\ dao' = dao /\ bound' = bound /\ born' = born
    BY DEF TrickleExpire, runtimeVars
<1>2. PICK t \in Samples(Late), rand \in 0 .. MaxInterval : \E n \in Maintained(node, t) :
        /\ Observe(t, n)
        /\ node' = IF n.trickle.state = "expire" /\ n.trickle.at <= t
                   THEN Node(n.joined, ExpireInterval(n.trickle, t, rand), n.changed) ELSE n
    BY DEF TrickleExpire
<1>3. PICK n \in Maintained(node, t) :
        /\ Observe(t, n)
        /\ node' = IF n.trickle.state = "expire" /\ n.trickle.at <= t
                   THEN Node(n.joined, ExpireInterval(n.trickle, t, rand), n.changed) ELSE n
    BY <1>2
<1> DEFINE k == node'
<1>4. Late \in Nat /\ rand \in Nat /\ MaxInterval \in Nat \ {0}
    BY Numbers
<1>5. t \in Nat /\ last <= t /\ t <= last + Late /\ t <= MaxTime
    BY <1>4, SampleTime
<1>6. last' = t /\ maint' \in Nat \cup {None} /\ MaintAhead(maint', t) /\ OnGrid(maint', born)
    BY <1>3, <1>5, MaintNext DEF Observe
<1>7. Moves(n, node, t) /\ (n = node \/ Restarted(n.trickle, t))
    BY <1>5, MaintainMoves
<1>8. n \in NodeStates /\ n.joined \in BOOLEAN /\ n.trickle \in Timers /\ n.changed \in Nat \cup {None}
    BY <1>7 DEF Moves, Remembers, NodeStates
<1>9. Remembers(k, node, t) /\ k \in NodeStates /\ Restarted(k.trickle, t)
    <2>1. CASE Restarted(n.trickle, t)
        <3>1. k = n
            BY <1>3, <2>1 DEF Restarted
        <3> QED
            BY <1>7, <1>8, <2>1, <3>1 DEF Moves
    <2>2. CASE n = node
        <3> DEFINE f == ExpireInterval(node.trickle, t, rand)
                   iv == Smaller(2 * node.trickle.interval, MaxInterval)
        <3>1. node.trickle.state = "expire" /\ node.trickle.at <= last
              /\ node.trickle.at \in Nat /\ node.trickle.interval \in Nat \ {0}
            BY <1>1 DEF EventPending, NodeStates, Timers
        <3>2. node.trickle.at <= t
            BY <1>5, <3>1
        <3>3. k = Node(node.joined, f, node.changed)
            BY <1>3, <2>2, <3>1, <3>2
        <3>4. iv \in Nat \ {0}
            BY <1>4, <3>1 DEF Smaller
        <3>5. f = BeginInterval(t, iv, rand)
            BY DEF ExpireInterval
        <3> HIDE DEF f, iv
        <3>6. f \in Timers /\ Restarted(f, t)
            BY <1>4, <1>5, <3>4, <3>5, BeginRestarted
        <3>7. k.joined = node.joined /\ k.trickle = f /\ k.changed = node.changed
            BY <3>3 DEF Node
        <3>8. k \in NodeStates
            BY <1>8, <2>2, <3>3, <3>6 DEF Node, NodeStates
        <3> QED
            BY <3>6, <3>7, <3>8 DEF Remembers
    <2> QED
        BY <1>7, <2>1, <2>2
<1> HIDE DEF k
<1>10. t <= last + Late + (IF pending.kind = "receive" THEN pending.timeout ELSE 0)
    BY <1>1, <1>4, <1>5
<1>11. /\ DaoPlanned(k, dao, NoAction, t) /\ DaoNear(dao, t) /\ ChangeNear(k, dao, NoAction, t)
       /\ EventPending(k.trickle, NoAction, t)
    BY <1>1, <1>5, <1>9, <1>10, CompleteKeeps
<1>12. EventLate(k, dao, NoAction, t)
    BY <1>5, <1>9, LateRestarted
<1> QED
    BY <1>1, <1>5, <1>6, <1>9, <1>11, <1>12, NoActionIs, Established DEF Good, k

\* What is planned after an attempt: a rung of the ladder, the next refresh or
\* nothing any more.
LEMMA NextAttempt ==
    ASSUME dao \in DaoStates, NEW t \in Nat, NEW d \in {DaoSent(t), DaoFailed(t)}
    PROVE  /\ d \in DaoStates /\ d.phase \in {"retry", "refresh", "exhausted"}
           /\ DaoNear(d, t)
           /\ d.phase \in Timed => t <= d.deadline
           /\ d.phase = "retry" => d.attempt = Rung
           /\ d.phase = "refresh" => t + Refresh = d.deadline
<1> USE Numbers
<1>1. Rung \in Nat
    BY DEF Rung, DaoStates
<1>2. CASE d = NextRefresh(t)
    BY <1>2 DEF NextRefresh, DaoExhausted, DaoPhase, DaoStates, DaoNear, Timed
<1>3. CASE d # NextRefresh(t)
    <2> DEFINE delay == RetryDelays[Rung + 1]
    <2>1. ~ (Rung >= Len(RetryDelays))
          /\ d = IF t + delay > MaxTime THEN DaoExhausted ELSE DaoPhase("retry", Rung, t + delay)
        BY <1>3 DEF DaoSent, DaoFailed
    <2>2. Rung < Rungs /\ Rung + 1 \in 1 .. Rungs
        BY <1>1, <2>1 DEF Rungs
    <2>3. delay \in Nat /\ delay <= Refresh
        BY <2>2
    <2> HIDE DEF delay
    <2>4. CASE t + delay > MaxTime
        BY <2>1, <2>3, <2>4 DEF DaoExhausted, DaoPhase, DaoStates, DaoNear, Timed
    <2>5. CASE ~ (t + delay > MaxTime)
        BY <1>1, <2>1, <2>2, <2>3, <2>5 DEF DaoPhase, DaoStates, DaoNear, Timed
    <2> QED
        BY <2>4, <2>5
<1> QED
    BY <1>2, <1>3

\* A DAO, sent or failed.
LEMMA DaoKeeps ==
    ASSUME LoopInv, bound, DaoTransmit
    PROVE  LoopInv'
<1> USE InvParts
<1>1. pending.kind = "dao" /\ pending' = NoAction /\ bound' = bound /\ born' = born
    BY DEF DaoTransmit, runtimeVars
<1> DEFINE n == [node EXCEPT !.changed = None]
           k == node'
           d == dao'
<1>2. PICK t \in Samples(MaxSend) :
        /\ last' = t
        /\ k \in Maintained(n, t)
        /\ maint' = IF maint # None /\ t >= maint THEN NextMaintenance(t) ELSE maint
        /\ d \in {DaoSent(t), DaoFailed(t)}
    BY DEF DaoTransmit
<1>3. Late \in Nat /\ MaxSend \in Nat /\ Refresh \in Nat /\ Rungs \in Nat \ {0}
    BY Numbers
<1>4. t \in Nat /\ last <= t /\ t <= last + MaxSend /\ t <= MaxTime
    BY <1>3, SampleTime
<1>5. maint' \in Nat \cup {None} /\ MaintAhead(maint', t) /\ OnGrid(maint', born)
    BY <1>2, <1>4, MaintNext
<1>6. n \in NodeStates /\ n.changed = None /\ n.trickle = node.trickle /\ n.joined = node.joined
    BY DEF NodeStates
<1>7. /\ d \in DaoStates /\ d.phase \in {"retry", "refresh", "exhausted"}
      /\ DaoNear(d, t)
      /\ d.phase \in Timed => t <= d.deadline
      /\ d.phase = "retry" => d.attempt = Rung
      /\ d.phase = "refresh" => t + Refresh = d.deadline
    BY <1>2, <1>4, NextAttempt
<1> HIDE DEF n, k, d
<1>8. Moves(k, n, t)
    BY <1>2, <1>4, <1>6, MaintainMoves
<1>9. k \in NodeStates /\ (k.changed # None => k.joined /\ k.changed = t)
    BY <1>6, <1>8 DEF Moves, Remembers
<1>10. DaoPlanned(k, d, NoAction, t) /\ EventPending(k.trickle, NoAction, t)
    <2>1. d.phase \in Timed => t <= d.deadline + Late
        <3>1. d.deadline \in Nat
            BY <1>7 DEF DaoStates
        <3> QED
            BY <1>3, <1>4, <1>7, <3>1
    <2> QED
        BY <2>1, NoActionIs DEF DaoPlanned, EventPending
<1>11. ChangeNear(k, d, NoAction, t)
    BY <1>4, <1>7, <1>9 DEF ChangeNear, DaoNear
<1>12. EventLate(k, d, NoAction, t)
    <2>1. CASE Restarted(k.trickle, t)
        BY <1>4, <1>9, <2>1, LateRestarted
    <2>2. CASE /\ k.trickle.state = node.trickle.state /\ k.trickle.at = node.trickle.at
               /\ k.joined = node.joined
        <3> SUFFICES ASSUME k.trickle.state # "stopped"
                     PROVE  EventLate(k, d, NoAction, t)
            BY DEF EventLate
        <3> DEFINE e == IF k.trickle.state = "expire" THEN Late + MaxSend ELSE 0
                   soon == k.trickle.at + Late + e
                   all == Cost(Rungs + 1)
        <3>1. Slack(k.trickle, NoAction) = e /\ Slack(node.trickle, pending) = MaxSend + e
            BY <1>1, <1>3, <2>2, NoActionIs DEF Slack
        <3>2. e \in Nat /\ e <= Late + MaxSend /\ soon \in Nat
            BY <1>3, <1>9 DEF NodeStates, Timers
        <3>3. dao.phase \in Timed /\ dao.deadline <= last /\ node.joined /\ dao.deadline \in Nat
            BY <1>1 DEF DaoPlanned, DaoStates, Timed
        <3>4. \/ last <= soon + MaxSend
              \/ dao.phase = "retry" /\ last <= soon + MaxSend + Cost(dao.attempt + 1)
              \/ /\ dao.phase = "refresh"
                 /\ last + Refresh <= dao.deadline + (MaxSend + e)
            <4>1. node.trickle.at + Late + Slack(node.trickle, pending) = soon + MaxSend
                BY <1>3, <1>9, <2>2, <3>1, <3>2 DEF NodeStates, Timers
            <4>2. dao.phase # "exhausted"
                BY <3>3 DEF Timed
            <4> HIDE DEF soon, e
            <4> QED
                BY <2>2, <3>1, <4>1, <4>2 DEF EventLate
        <3>5. Rung \in Nat /\ Rung <= Rungs /\ Cost(Rung) \in Nat /\ Cost(Rung + 1) \in Nat
              /\ all \in Nat /\ Cost(Rung + 1) <= all /\ Cost(Rung + 1) = Cost(Rung) + 2 * MaxSend
            <4>1. Rung \in Nat /\ Rung <= Rungs /\ Rung + 1 <= Rungs + 1 /\ Rung + 1 \in Nat
                  /\ Rungs + 1 \in Nat
                BY <1>3 DEF Rung, DaoStates
            <4> QED
                BY <4>1, CostSteps
        <3>6. last <= soon + MaxSend + Cost(Rung)
            <4>1. CASE last <= soon + MaxSend
                <5> HIDE DEF soon
                <5> QED
                    BY <1>3, <3>2, <3>5, <4>1
            <4>2. CASE dao.phase = "retry" /\ last <= soon + MaxSend + Cost(dao.attempt + 1)
                BY <4>2 DEF Rung
            <4>3. CASE /\ dao.phase = "refresh"
                       /\ last + Refresh <= dao.deadline + (MaxSend + e)
                <5> HIDE DEF e, soon
                <5> QED
                    BY <1>3, <3>2, <3>3, <4>3, RefreshAssumption
            <4> QED
                BY <3>4, <4>1, <4>2, <4>3
        <3> HIDE DEF e, soon, all
        <3>7. t <= soon + Cost(Rung + 1)
            BY <1>3, <1>4, <3>2, <3>5, <3>6
        <3>8. t <= soon + all
            BY <1>4, <3>2, <3>5, <3>7
        <3>9. soon = k.trickle.at + Late + Slack(k.trickle, NoAction)
            BY <3>1 DEF soon
        <3>10. k.joined
            BY <2>2, <3>3
        <3>11. CASE d.phase = "retry"
            BY <1>7, <3>7, <3>9, <3>10, <3>11 DEF EventLate
        <3>12. CASE d.phase = "exhausted"
            BY <3>8, <3>9, <3>10, <3>12 DEF EventLate, all
        <3>13. CASE d.phase = "refresh"
            <4>1. d.deadline \in Nat
                BY <1>7 DEF DaoStates
            <4>2. t + Refresh <= d.deadline + Slack(k.trickle, NoAction)
                BY <1>3, <1>4, <1>7, <3>1, <3>2, <3>13, <4>1
            <4> QED
                BY <3>8, <3>9, <3>10, <3>13, <4>2 DEF EventLate, all
        <3> QED
            BY <1>7, <3>11, <3>12, <3>13
    <2> QED
        BY <1>6, <1>8, <2>1, <2>2 DEF Moves
<1> QED
    BY <1>1, <1>2, <1>4, <1>5, <1>7, <1>9, <1>10, <1>11, <1>12, NoActionIs, Established
       DEF Good, k, d

\* next_action: the event that is due, or a receive that ends before the next.
LEMMA NextActionIs ==
    ASSUME NEW tr \in Timers, NEW m \in Nat \cup {None}, NEW t \in Nat, t <= MaxTime,
           MaintAhead(m, t)
    PROVE  LET a == NextAction(tr, m, t)
           IN  /\ a \in Actions /\ a.kind \in {"receive", "transmit", "expire"}
               /\ EventPending(tr, a, t)
<1> DEFINE a == NextAction(tr, m, t)
<1>1. tr.state \in {"stopped", "transmit", "expire"} /\ tr.at \in Nat
    BY DEF Timers
<1>2. MaxTime \in Nat /\ MaxTimeout \in Nat
    BY Numbers
<1>3. CASE TrickleDue(tr, t)
    <2>1. a = [kind |-> tr.state, timeout |-> 0] /\ tr.state # "stopped" /\ tr.at <= t
        BY <1>3 DEF NextAction, Act, TrickleDue
    <2> QED
        BY <1>1, <2>1 DEF Actions, Kinds, EventPending
<1>4. CASE ~TrickleDue(tr, t)
    <2> DEFINE e == IF tr.state = "stopped" THEN MaxTime ELSE tr.at
               b == IF m = None THEN e ELSE Smaller(m, e)
    <2>1. tr.state = "stopped" \/ t < tr.at
        BY <1>1, <1>4 DEF TrickleDue
    <2>2. e \in Nat /\ t <= e
        BY <1>1, <1>2, <2>1
    <2>3. b \in Nat /\ t <= b /\ b <= e
        <3>1. CASE m = None
            BY <2>2, <3>1
        <3>2. CASE m # None
            <4>1. m \in Nat /\ t < m
                BY <3>2 DEF MaintAhead
            <4> HIDE DEF e
            <4> QED
                BY <2>2, <3>2, <4>1 DEF Smaller
        <3> QED
            BY <3>1, <3>2
    <2>4. a = IF tr.state = "stopped" /\ m = None THEN Listen(MaxTimeout)
              ELSE Listen(Smaller(b - t, MaxTimeout))
        BY <1>4 DEF NextAction
    <2> HIDE DEF b
    <2>5. PICK w \in Nat : a = Listen(w) /\ (tr.state # "stopped" => t + w <= tr.at)
        <3>1. CASE tr.state = "stopped" /\ m = None
            BY <1>2, <2>4, <3>1
        <3>2. CASE ~ (tr.state = "stopped" /\ m = None)
            <4> DEFINE w == Smaller(b - t, MaxTimeout)
            <4>1. w \in Nat /\ t + w <= b
                BY <1>2, <2>3 DEF Smaller
            <4>2. tr.state # "stopped" => e = tr.at
                OBVIOUS
            <4> HIDE DEF w, e
            <4>3. tr.state # "stopped" => t + w <= tr.at
                BY <1>1, <2>2, <2>3, <4>1, <4>2
            <4>4. a = Listen(w)
                BY <2>4, <3>2 DEF w
            <4> QED
                BY <4>1, <4>3, <4>4
        <3> QED
            BY <3>1, <3>2
    <2>6. a = [kind |-> "receive", timeout |-> w]
        BY <2>5 DEF Listen
    <2> HIDE DEF a
    <2> QED
        BY <2>5, <2>6 DEF Actions, Kinds, EventPending, a
<1> QED
    BY <1>3, <1>4

\* constrain_to_dao: a DAO that is due comes first, and no receive outlasts it.
LEMMA ConstrainedIs ==
    ASSUME NEW tr, NEW a \in Actions, a.kind \in {"receive", "transmit", "expire"},
           NEW t \in Nat, EventPending(tr, a, t), NEW n, NEW d \in DaoStates,
           n.joined <=> d.phase # "idle",
           d.phase \in Timed => t <= d.deadline + Late + MaxSend,
           tr.state # "stopped" => tr.at \in Nat
    PROVE  LET p == ConstrainToDao(a, d, t)
           IN  p \in Actions /\ p.kind # "none" /\ EventPending(tr, p, t) /\ DaoPlanned(n, d, p, t)
<1> DEFINE p == ConstrainToDao(a, d, t)
<1>1. d.deadline \in Nat /\ a.timeout \in Nat
    BY DEF DaoStates, Actions
<1>2. CASE d.phase \notin Timed
    <2>1. p = a
        BY <1>2 DEF ConstrainToDao
    <2> QED
        BY <1>2, <2>1 DEF DaoPlanned
<1>3. CASE d.phase \in Timed /\ d.deadline <= t
    <2>1. p = [kind |-> "dao", timeout |-> 0]
        BY <1>3 DEF ConstrainToDao, Act
    <2> QED
        BY <1>3, <2>1 DEF Actions, Kinds, EventPending, DaoPlanned
<1>4. CASE d.phase \in Timed /\ ~ (d.deadline <= t) /\ a.kind # "receive"
    <2>1. p = a /\ t < d.deadline
        BY <1>1, <1>4 DEF ConstrainToDao
    <2> QED
        BY <1>4, <2>1 DEF DaoPlanned
<1>5. CASE d.phase \in Timed /\ ~ (d.deadline <= t) /\ a.kind = "receive"
    <2> DEFINE w == Smaller(a.timeout, d.deadline - t)
    <2>1. w \in Nat /\ w <= a.timeout /\ t + w <= d.deadline /\ t < d.deadline
        BY <1>1, <1>5 DEF Smaller
    <2>2. p = [kind |-> "receive", timeout |-> w]
        BY <1>5 DEF ConstrainToDao, Listen
    <2> HIDE DEF w, p
    <2>3. tr.state # "stopped" => t + w <= tr.at
        BY <1>1, <1>5, <2>1 DEF EventPending
    <2> QED
        BY <1>5, <2>1, <2>2, <2>3 DEF Actions, Kinds, EventPending, DaoPlanned, p
<1> QED
    BY <1>2, <1>3, <1>4, <1>5

\* dao_tx_advance: the scheduler follows the membership of the node.
LEMMA AdvancedIs ==
    ASSUME LoopInv, bound, pending = NoAction, NEW t \in Nat, last <= t, t <= last + MaxSend,
           t <= MaxTime, NEW n, Moves(n, node, t), n.joined => node.joined,
           NEW offset \in 0 .. InitialMax
    PROVE  LET d == Advanced(n, t, offset)
           IN  /\ d \in DaoStates /\ (n.joined <=> d.phase # "idle")
               /\ d.phase \in Timed => t <= d.deadline + Late + MaxSend
               /\ DaoNear(d, t)
               /\ n.joined => d = dao \/ (dao.phase = "idle" /\ d.phase = "initial")
               /\ \A p : ChangeNear(n, d, p, t)
<1> USE InvParts
<1> DEFINE d == Advanced(n, t, offset)
<1>1. Late \in Nat /\ MaxSend \in Nat /\ MaxTime \in Nat /\ Refresh \in Nat /\ InitialMax \in Nat
      /\ offset \in Nat /\ offset <= InitialMax /\ InitialMax + MaxSend <= Refresh
    BY Numbers, RefreshAssumption
<1>2. n.joined \in BOOLEAN /\ (n.changed # None => n.joined)
      /\ n.changed \in {None, t, node.changed} /\ node.changed \in Nat \cup {None}
    BY DEF Moves, Remembers, NodeStates
<1>3. pending.kind = "none"
    BY NoActionIs
<1>4. CASE ~n.joined
    <2>1. d = DaoIdle
        BY <1>4 DEF Advanced
    <2> QED
        BY <1>2, <1>4, <2>1 DEF DaoIdle, DaoPhase, DaoStates, Timed, DaoNear, ChangeNear
<1>5. CASE n.joined /\ dao.phase = "idle"
    <2> DEFINE u == Smaller(t + offset, MaxTime)
    <2>1. u \in Nat /\ t <= u /\ u <= t + InitialMax
        BY <1>1 DEF Smaller
    <2>2. d = DaoPhase("initial", 0, u)
        BY <1>5 DEF Advanced
    <2> HIDE DEF u, d
    <2>3. d.phase = "initial" /\ d.deadline = u /\ d \in DaoStates
        BY <2>1, <2>2 DEF DaoPhase, DaoStates, Timed
    <2>4. t <= d.deadline + Late + MaxSend /\ d.deadline <= t + Refresh
        BY <1>1, <2>1, <2>3
    <2>5. n.changed # None => n.changed <= t /\ d.deadline <= n.changed + Refresh
        <3>1. CASE n.changed = t
            BY <2>4, <3>1
        <3>2. CASE n.changed = node.changed /\ n.changed # None
            <4>1. node.changed = last
                BY <1>5, <3>2 DEF ChangeNear
            <4> QED
                BY <1>1, <2>1, <2>3, <3>2, <4>1
        <3> QED
            BY <1>2, <3>1, <3>2
    <2> QED
        BY <1>5, <2>3, <2>4, <2>5 DEF DaoNear, ChangeNear, d
<1>6. CASE n.joined /\ dao.phase # "idle"
    <2>1. d = dao
        BY <1>6 DEF Advanced
    <2>2. dao.deadline \in Nat
        BY DEF DaoStates
    <2>3. dao.phase \in Timed => t <= dao.deadline + Late + MaxSend
        BY <1>1, <1>3, <1>6, <2>2 DEF DaoPlanned
    <2>4. DaoNear(dao, t)
        BY <1>1, <2>2 DEF DaoNear
    <2>5. \A p : ChangeNear(n, dao, p, t)
        <3> SUFFICES ASSUME n.changed # None
                     PROVE  /\ n.joined /\ n.changed <= t
                            /\ dao.phase \in Timed => dao.deadline <= n.changed + Refresh
                            /\ dao.phase = "exhausted" => MaxTime < n.changed + Refresh
            BY <1>6 DEF ChangeNear
        <3>1. CASE n.changed = t
            BY <1>6, <2>4, <3>1 DEF DaoNear
        <3>2. CASE n.changed = node.changed
            BY <1>2, <1>6, <3>2 DEF ChangeNear
        <3> QED
            BY <1>2, <3>1, <3>2
    <2> QED
        BY <1>6, <2>1, <2>3, <2>4, <2>5
<1> QED
    BY <1>2, <1>4, <1>5, <1>6

\* A poll takes time of its own.
LEMMA PollLate ==
    ASSUME NEW n \in NodeStates, NEW m \in NodeStates, NEW d \in DaoStates, NEW e,
           NEW p, p.kind # "none", NEW t \in Nat, NEW s \in Nat, t <= s, s <= t + MaxSend,
           EventLate(n, d, NoAction, t),
           m.trickle.state = n.trickle.state, m.trickle.at = n.trickle.at, m.joined = n.joined,
           m.joined => e = d \/ (d.phase = "idle" /\ e.phase = "initial")
    PROVE  EventLate(m, e, p, s)
<1> SUFFICES ASSUME m.trickle.state # "stopped"
             PROVE  EventLate(m, e, p, s)
    BY DEF EventLate
<1> DEFINE x == IF m.trickle.state = "expire" THEN Late + MaxSend ELSE 0
           soon == m.trickle.at + Late + x
<1>1. Late \in Nat /\ MaxSend \in Nat /\ Refresh \in Nat /\ m.trickle.at \in Nat /\ d.deadline \in Nat
      /\ d.attempt \in Nat /\ Rungs + 1 \in Nat /\ d.attempt + 1 \in Nat
    BY Numbers DEF NodeStates, Timers, DaoStates
<1>2. x \in Nat /\ soon \in Nat
    BY <1>1
<1>3. Slack(n.trickle, NoAction) = x /\ Slack(m.trickle, p) = MaxSend + x
    BY <1>1, NoActionIs DEF Slack
<1>4. Cost(d.attempt + 1) \in Nat /\ Cost(Rungs + 1) \in Nat
    BY <1>1, CostSteps
<1>5. \/ t <= soon
      \/ n.joined /\ d.phase = "retry" /\ t <= soon + Cost(d.attempt + 1)
      \/ n.joined /\ d.phase = "exhausted" /\ t <= soon + Cost(Rungs + 1)
      \/ /\ n.joined /\ d.phase = "refresh" /\ t <= soon + Cost(Rungs + 1)
         /\ t + Refresh <= d.deadline + x
    BY <1>3 DEF EventLate
<1>6. m.trickle.at + Late + Slack(m.trickle, p) = soon + MaxSend
    BY <1>1, <1>2, <1>3
<1> HIDE DEF x, soon
<1>7. \/ s <= soon + MaxSend
      \/ n.joined /\ d.phase = "retry" /\ s <= soon + MaxSend + Cost(d.attempt + 1)
      \/ n.joined /\ d.phase = "exhausted" /\ s <= soon + MaxSend + Cost(Rungs + 1)
      \/ /\ n.joined /\ d.phase = "refresh" /\ s <= soon + MaxSend + Cost(Rungs + 1)
         /\ s + Refresh <= d.deadline + (MaxSend + x)
    BY <1>1, <1>2, <1>4, <1>5
<1>8. CASE s <= soon + MaxSend
    BY <1>6, <1>8 DEF EventLate
<1>9. CASE n.joined /\ d.phase # "idle"
    <2>1. e = d /\ m.joined
        BY <1>9
    <2> QED
        BY <1>3, <1>6, <1>7, <2>1 DEF EventLate
<1> QED
    BY <1>7, <1>8, <1>9

\* A poll: maintenance, the scheduler and the choice of the next action.
LEMMA PollKeeps ==
    ASSUME LoopInv, bound, Poll
    PROVE  LoopInv'
<1> USE InvParts
<1>1. pending = NoAction /\ bound' = bound /\ born' = born
    BY DEF Poll, runtimeVars
<1>2. PICK t \in Samples(MaxSend) : \E n \in Maintained(node, t) :
        /\ Observe(t, n)
        /\ node' = n
        /\ \E offset \in 0 .. InitialMax : dao' = Advanced(n, t, offset)
        /\ pending' = ConstrainToDao(NextAction(n.trickle, maint', t), dao', t)
    BY DEF Poll
<1>3. PICK n \in Maintained(node, t) :
        /\ Observe(t, n)
        /\ node' = n
        /\ \E offset \in 0 .. InitialMax : dao' = Advanced(n, t, offset)
        /\ pending' = ConstrainToDao(NextAction(n.trickle, maint', t), dao', t)
    BY <1>2
<1>4. PICK offset \in 0 .. InitialMax : dao' = Advanced(n, t, offset)
    BY <1>3
<1> DEFINE m == maint'
           d == dao'
           a == NextAction(n.trickle, m, t)
           p == pending'
<1>5. t \in Nat /\ last <= t /\ t <= last + MaxSend /\ t <= MaxTime
    BY SampleTime, Numbers
<1>6. last' = t /\ m \in Nat \cup {None} /\ MaintAhead(m, t) /\ OnGrid(m, born)
    BY <1>3, <1>5, MaintNext DEF Observe
<1>7. Moves(n, node, t) /\ (n.joined => node.joined) /\ (n = node \/ Restarted(n.trickle, t))
    BY <1>5, MaintainMoves
<1>8. n \in NodeStates /\ n.trickle \in Timers /\ n.trickle.at \in Nat
    BY <1>7 DEF Moves, Remembers, NodeStates, Timers
<1>9. /\ d \in DaoStates /\ (n.joined <=> d.phase # "idle")
      /\ d.phase \in Timed => t <= d.deadline + Late + MaxSend
      /\ DaoNear(d, t)
      /\ n.joined => d = dao \/ (dao.phase = "idle" /\ d.phase = "initial")
      /\ \A q : ChangeNear(n, d, q, t)
    BY <1>1, <1>4, <1>5, <1>7, AdvancedIs
<1> HIDE DEF m, d
<1>10. /\ a \in Actions /\ a.kind \in {"receive", "transmit", "expire"}
       /\ EventPending(n.trickle, a, t)
    BY <1>5, <1>6, <1>8, NextActionIs
<1>11. p = ConstrainToDao(a, d, t)
    BY <1>3 DEF d, m
<1> HIDE DEF a, p
<1>12. p \in Actions /\ p.kind # "none" /\ EventPending(n.trickle, p, t) /\ DaoPlanned(n, d, p, t)
    BY <1>5, <1>8, <1>9, <1>10, <1>11, ConstrainedIs
<1>13. EventLate(n, d, p, t)
    <2>1. CASE n = node
        BY <1>1, <1>5, <1>9, <1>12, <2>1, PollLate
    <2>2. CASE Restarted(n.trickle, t)
        BY <1>5, <1>8, <2>2, LateRestarted
    <2> QED
        BY <1>7, <2>1, <2>2
<1> QED
    BY <1>1, <1>3, <1>5, <1>6, <1>8, <1>9, <1>12, <1>13, Established DEF Good, m, d, p

\* A multicast DIS restarts the timer and leaves the runtime stale.
LEMMA DisKeeps ==
    ASSUME LoopInv, bound, ReceiveDis
    PROVE  LoopInv'
<1> USE InvParts
<1>1. pending.kind = "receive" /\ pending' = pending /\ dao' = dao /\ maint' = maint
      /\ bound' = FALSE /\ born' = born
    BY DEF ReceiveDis
<1>2. PICK t \in Samples(pending.timeout + Late), jitter \in 0 .. Imin :
        last' = t /\ node' = Node(node.joined, ResetTrickle(t, jitter), node.changed)
    BY DEF ReceiveDis
<1> DEFINE k == node'
           tr == ResetTrickle(t, jitter)
<1>3. pending.timeout + Late \in Nat /\ pending.timeout \in Nat /\ Late \in Nat
      /\ jitter \in Nat /\ Imin \in Nat \ {0}
    BY Numbers DEF Actions
<1>4. t \in Nat /\ last <= t /\ t <= last + (pending.timeout + Late) /\ t <= MaxTime
    BY <1>3, SampleTime
<1>5. tr \in Timers /\ Restarted(tr, t)
    BY <1>3, <1>4, BeginRestarted DEF ResetTrickle
<1> HIDE DEF tr
<1>6. k \in NodeStates /\ k.trickle = tr /\ k.joined = node.joined /\ k.changed = node.changed
    BY <1>2, <1>5 DEF Node, NodeStates, tr
<1> HIDE DEF k
<1>7. Remembers(k, node, t)
    BY <1>6 DEF Remembers
<1>8. t <= last + Late + (IF pending.kind = "receive" THEN pending.timeout ELSE 0)
    BY <1>1, <1>3, <1>4
<1>9. /\ DaoPlanned(k, dao, NoAction, t) /\ DaoNear(dao, t) /\ ChangeNear(k, dao, NoAction, t)
      /\ EventPending(k.trickle, NoAction, t)
    BY <1>1, <1>4, <1>7, <1>8, CompleteKeeps
<1>10. EventLate(k, dao, NoAction, t)
    BY <1>4, <1>5, <1>6, LateRestarted
<1>11. Effective' = NoAction
    BY <1>1 DEF Effective
<1>12. Good(node', dao', Effective', last')
    BY <1>1, <1>2, <1>9, <1>10, <1>11 DEF Good, k
<1>13. last' \in Nat /\ last' <= MaxTime /\ node' \in NodeStates
    BY <1>2, <1>4, <1>6 DEF k
<1> QED
    BY <1>1, <1>12, <1>13 DEF LoopInv, LoopTypes, Good, DaoPlanned, DaoNear, ChangeNear,
       EventPending, EventLate, Slack, Cost, Actions, NodeStates, DaoStates, Timers

\* A new runtime starts its grid an interval ahead.
LEMMA FirstAhead ==
    ASSUME NEW t \in Nat, t <= MaxTime
    PROVE  LET m == FirstMaintenance(t)
           IN  m \in Nat \cup {None} /\ MaintAhead(m, t) /\ OnGrid(m, t)
<1> DEFINE m == FirstMaintenance(t)
<1>1. MaxTime \in Nat /\ MaintEvery \in Nat \ {0}
    BY Numbers
<1>2. m = IF t + MaintEvery > MaxTime THEN None ELSE t + MaintEvery
    BY DEF FirstMaintenance
<1>3. t + MaintEvery = t + MaintEvery * 1 /\ 1 \in Nat \ {0}
    BY <1>1
<1>4. t + MaintEvery # None
    BY <1>1 DEF None
<1> HIDE DEF m
<1> QED
    BY <1>1, <1>2, <1>3, <1>4 DEF MaintAhead, OnGrid, m

\* The owner replaces the runtime: node and scheduler are as they were.
LEMMA RebindKeeps ==
    ASSUME LoopInv, ~bound, NewRuntime
    PROVE  LoopInv'
<1> USE InvHolds
<1>1. /\ born' = last /\ maint' = FirstMaintenance(last) /\ pending' = NoAction /\ bound' = TRUE
      /\ last' = last /\ node' = node /\ dao' = dao
    BY DEF NewRuntime
<1>2. Effective = NoAction
    BY DEF Effective
<1>3. Good(node, dao, NoAction, last)
    BY <1>2 DEF Good
<1>4. maint' \in Nat \cup {None} /\ MaintAhead(maint', last) /\ OnGrid(maint', last)
    BY <1>1, FirstAhead
<1> QED
    BY <1>1, <1>3, <1>4, NoActionIs, Established

\* The loop starts with its timer ahead and no DAO planned.
LEMMA LoopInitInv == LoopInit => LoopInv
<1> SUFFICES ASSUME LoopInit
             PROVE  LoopInv
    OBVIOUS
<1>1. PICK r \in 0 .. Imin : node = Node(FALSE, BeginInterval(0, Imin, r), None)
    BY DEF LoopInit
<1> DEFINE tr == BeginInterval(0, Imin, r)
<1>2. tr \in Timers /\ Restarted(tr, 0)
    <2>1. Imin \in Nat \ {0} /\ r \in Nat /\ 0 \in Nat
        BY Numbers
    <2> QED
        BY <2>1, BeginRestarted
<1> HIDE DEF tr
<1>3. node \in NodeStates /\ node.trickle = tr /\ ~node.joined /\ node.changed = None
    BY <1>1, <1>2 DEF Node, NodeStates, tr
<1>4. /\ last = 0 /\ maint = FirstMaintenance(0) /\ pending = NoAction /\ dao = DaoIdle
      /\ bound = TRUE /\ born = 0
    BY DEF LoopInit
<1>5. MaintAhead(maint, last) /\ OnGrid(maint, born) /\ maint \in Nat \cup {None} /\ 0 <= MaxTime
    BY <1>4, Numbers, FirstAhead
<1>6. dao \in DaoStates /\ dao.phase = "idle"
    BY <1>4 DEF DaoIdle, DaoPhase, DaoStates, Timed
<1>7. EventLate(node, dao, pending, last)
    BY <1>2, <1>3, <1>4, LateRestarted
<1> QED
    BY <1>3, <1>4, <1>5, <1>6, <1>7, NoActionIs
       DEF Effective, LoopInv, LoopTypes, Good, DaoPlanned, DaoNear, ChangeNear, EventPending, Timed

\* Every step keeps the invariant: one lemma per action.
LEMMA LoopNextInv ==
    ASSUME Rebinds
    PROVE  LoopInv /\ [LoopNext]_loopVars => LoopInv'
<1> SUFFICES ASSUME LoopInv, [LoopNext]_loopVars
             PROVE  LoopInv'
    OBVIOUS
<1>1. CASE UNCHANGED loopVars
    BY <1>1 DEF loopVars, LoopInv, Effective, LoopTypes, MaintAhead, OnGrid, Good,
       DaoPlanned, DaoNear, ChangeNear, EventPending, EventLate, Slack, Cost
<1>2. pending.kind # "receive" => bound
    BY DEF LoopInv
<1>3. CASE Poll
    <2>1. bound
        BY <1>2, <1>3, NoActionIs DEF Poll
    <2> QED
        BY <1>3, <2>1, PollKeeps
<1>4. CASE Receive \/ ReceiveDis
    BY <1>4, ReceiveKeeps, DisKeeps DEF Receive, ReceiveDis
<1>5. CASE Stale
    BY <1>5, RebindKeeps DEF Stale
<1>6. CASE TrickleTransmit \/ TrickleExpire \/ DaoTransmit
    <2>1. bound
        BY <1>2, <1>6 DEF TrickleTransmit, TrickleExpire, DaoTransmit
    <2> QED
        BY <1>6, <2>1, TransmitKeeps, ExpireKeeps, DaoKeeps
<1> QED
    BY <1>1, <1>3, <1>4, <1>5, <1>6 DEF LoopNext

\* The invariant holds throughout.
LEMMA LoopInvariant ==
    ASSUME Rebinds
    PROVE  LoopSpec => []LoopInv
BY LoopInitInv, LoopNextInv, PTL DEF LoopSpec

\* Under an owner that replaces a stale runtime, the loop does not run past the
\* deadline of a DAO by more than a late wake-up and a transmission
\* (constrain_to_dao).
THEOREM DaoIsOnTime ==
    ASSUME Rebinds
    PROVE  LoopSpec => []DaoOnTime
<1>1. LoopInv => DaoOnTime
    <2> SUFFICES ASSUME LoopInv
                 PROVE  DaoOnTime
        OBVIOUS
    <2>1. Late \in Nat /\ MaxSend \in Nat /\ last \in Nat /\ dao.deadline \in Nat
        BY Numbers, InvHolds DEF DaoStates
    <2> QED
        BY <2>1, InvHolds DEF DaoOnTime, DaoPlanned
<1> QED
    BY <1>1, LoopInvariant, PTL

\* Under the same owner, the next maintenance of a bound runtime is never overdue,
\* never more than an interval away and always on the grid the runtime was made
\* with (next_maintenance_after).
THEOREM MaintenanceIsOnGrid ==
    ASSUME Rebinds
    PROVE  LoopSpec => []MaintenanceOnGrid
<1>1. LoopInv => MaintenanceOnGrid
    <2> SUFFICES ASSUME LoopInv, bound, maint # None
                 PROVE  \E k \in 1 .. MaxTime : maint = born + MaintEvery * k
        BY InvParts DEF MaintenanceOnGrid, MaintAhead
    <2>1. MaxTime \in Nat /\ MaintEvery \in Nat \ {0} /\ born \in Nat
        BY Numbers, InvParts
    <2>2. PICK k \in Nat \ {0} : maint = born + MaintEvery * k
        BY InvParts DEF OnGrid
    <2>3. k <= MaintEvery * k /\ MaintEvery * k \in Nat
        BY <2>1
    <2>4. maint <= MaxTime
        BY InvParts DEF OnGrid
    <2>5. k \in 1 .. MaxTime
        BY <2>1, <2>2, <2>3, <2>4
    <2> QED
        BY <2>2, <2>5
<1> QED
    BY <1>1, LoopInvariant, PTL

\* Together: with an owner that replaces a stale runtime, no deadline of the DAO
\* scheduler or of maintenance is slept past.
THEOREM DeadlinesAreKept ==
    ASSUME Rebinds
    PROVE  LoopSpec => []DeadlinesKept
BY DaoIsOnTime, MaintenanceIsOnGrid, PTL DEF DeadlinesKept

\* Under the same owner, a Trickle event is late by no more than the attempts of
\* one retry ladder, whatever fails: the scheduler that comes first in next_action
\* cannot starve the timer, because it rests for a refresh after its last attempt.
THEOREM TrickleIsOnTime ==
    ASSUME Rebinds
    PROVE  LoopSpec => []TrickleOnTime
<1>1. LoopInv => TrickleOnTime
    <2> SUFFICES ASSUME LoopInv, node.trickle.state # "stopped"
                 PROVE  TrickleOnTime
        BY DEF TrickleOnTime
    <2> DEFINE x == IF node.trickle.state = "expire" THEN Late + MaxSend ELSE 0
               all == Cost(Rungs + 1)
               soon == node.trickle.at + Late + Slack(node.trickle, Effective)
    <2>1. Late \in Nat /\ MaxSend \in Nat /\ last \in Nat /\ node.trickle.at \in Nat /\ Rungs \in Nat
        BY Numbers, InvHolds DEF NodeStates, Timers
    <2>2. x \in Nat /\ Slack(node.trickle, Effective) \in Nat
          /\ Slack(node.trickle, Effective) <= MaxSend + x
        BY <2>1 DEF Slack
    <2>3. soon \in Nat /\ soon <= node.trickle.at + Late + MaxSend + x
        <3> HIDE DEF x
        <3> QED
            BY <2>1, <2>2
    <2>4. dao.phase = "retry" => /\ Cost(dao.attempt + 1) \in Nat
                                 /\ Cost(dao.attempt + 1) <= all
        <3>1. dao.phase = "retry" => dao.attempt \in Nat /\ dao.attempt < Rungs
            BY InvHolds DEF DaoStates
        <3>2. dao.phase = "retry" => dao.attempt + 1 \in Nat /\ dao.attempt + 1 <= Rungs + 1
            BY <2>1, <3>1
        <3> QED
            BY <3>2, CostSteps
    <2>5. all \in Nat /\ all = 2 * MaxSend * (Rungs + 1)
        BY <2>1, CostSteps DEF Cost
    <2>6. last <= soon + all
        <3>1. \/ last <= soon
              \/ dao.phase = "retry" /\ last <= soon + Cost(dao.attempt + 1)
              \/ last <= soon + all
            BY InvHolds DEF EventLate
        <3> HIDE DEF soon, all
        <3> QED
            BY <2>1, <2>3, <2>4, <2>5, <3>1
    <2>7. MaxSend * (1 + 2 * (Rungs + 1)) = MaxSend + 2 * MaxSend * (Rungs + 1)
        BY <2>1
    <2>8. last <= node.trickle.at + Late + MaxSend + x + all
        <3> HIDE DEF soon, all, x
        <3> QED
            BY <2>1, <2>2, <2>3, <2>5, <2>6
    <2>9. node.trickle.at + Late + MaxSend + x + all = node.trickle.at + Late + (MaxSend + all) + x
        <3> HIDE DEF all, x
        <3> QED
            BY <2>1, <2>2, <2>5
    <2>10. last <= node.trickle.at + Late + MaxSend * (1 + 2 * (Rungs + 1)) + x
        BY <2>5, <2>7, <2>8, <2>9
    <2> QED
        BY <2>10 DEF TrickleOnTime, Rungs
<1> QED
    BY <1>1, LoopInvariant, PTL

\* Under the same owner, a DAO is attempted within a refresh, a late wake-up and a
\* transmission of a change of parent: no path through the scheduler forgets the
\* change or puts it off again.
THEOREM ChangesAreAnnounced ==
    ASSUME Rebinds
    PROVE  LoopSpec => []ParentChangeAnnounced
<1>1. LoopInv => ParentChangeAnnounced
    <2> SUFFICES ASSUME LoopInv, node.changed # None
                 PROVE  last <= node.changed + Refresh + Late + MaxSend
        BY DEF ParentChangeAnnounced
    <2>1. Late \in Nat /\ MaxSend \in Nat /\ MaxTime \in Nat /\ Refresh \in Nat /\ last \in Nat
          /\ last <= MaxTime /\ dao.deadline \in Nat /\ node.changed \in Nat
        BY Numbers, InvHolds DEF NodeStates, DaoStates
    <2>2. node.joined
        BY InvHolds
    <2>3. dao.phase \in Timed => last <= dao.deadline + Late + MaxSend
        BY <2>1, <2>2, InvHolds DEF DaoPlanned
    <2>4. CASE dao.phase \in Timed
        BY <2>1, <2>3, <2>4, InvHolds DEF ChangeNear
    <2>5. CASE dao.phase = "exhausted"
        BY <2>1, <2>5, InvHolds DEF ChangeNear
    <2>6. CASE dao.phase = "idle"
        BY <2>1, <2>6, InvHolds DEF ChangeNear
    <2> QED
        BY <2>4, <2>5, <2>6, InvHolds DEF DaoStates
<1> QED
    BY <1>1, LoopInvariant, PTL
=============================================================================
