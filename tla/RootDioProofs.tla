---------------------------- MODULE RootDioProofs ----------------------------
(***************************************************************************)
(* Proofs about the root-signature gate (RootDio), for any set of DODAGs,   *)
(* any table size and any number of DIOs, reboots and failing writes.       *)
(***************************************************************************)
EXTENDS RootDio, TLAPS

\* The part of the types the proofs use.
Types ==
    /\ sent \in [Keys -> Nat]
    /\ now \in Nat
    /\ air \subseteq Dios
    /\ cache \in Marks
    /\ disk \in Marks
    /\ log \in Seq(Dios)

\* Every DIO ever verified is at or below the durable mark of its DODAG: the
\* fact that survives a reboot, when the cache does not.
LogBelowMarks == \A i \in 1 .. Len(log) : log[i].seq <= disk[log[i].key]

IInv == Types /\ MarksCoherent /\ LogBelowMarks /\ VerifiedInOrder

\* The initial state satisfies the invariant.
LEMMA InitIInv == Init => IInv
BY DEF Init, IInv, Types, Marks, Empty, NoMark, Dios, MarksCoherent, LogBelowMarks,
       VerifiedInOrder

\* The marks accept proposes for an admissible DIO raise its DODAG's mark and
\* leave the others alone.
LEMMA ProposedRaises ==
    ASSUME IInv, NEW d \in air, running, Fresher(d)
    PROVE  /\ Proposed(d) \in Marks
           /\ d \in Dios
           /\ Proposed(d)[d.key] = d.seq
           /\ d.seq > disk[d.key]
           /\ \A k \in Keys : Proposed(d)[k] >= disk[k]
           /\ \A k \in Keys \ {d.key} : Proposed(d)[k] = disk[k]
<1>1. d \in Dios /\ d.key \in Keys /\ d.seq \in Nat
  BY DEF IInv, Types, Dios
<1>2. cache = disk
  BY DEF IInv, MarksCoherent
<1>3. disk \in [Keys -> {-1} \cup Nat]
  BY DEF IInv, Types, Marks, NoMark
<1> QED
  BY <1>1, <1>2, <1>3 DEF Proposed, Fresher, Marks, NoMark

\* What the invariant says of an entry of the log.
LEMMA LogTyped ==
    ASSUME IInv
    PROVE  \A i \in 1 .. Len(log) :
               log[i].key \in Keys /\ log[i].seq \in Nat /\ log[i].seq <= disk[log[i].key]
<1>1. log \in Seq(Dios)
  BY DEF IInv, Types
<1>2. \A i \in 1 .. Len(log) : log[i] \in Dios
  BY <1>1
<1>3. \A e \in Dios : e.key \in Keys /\ e.seq \in Nat
  BY DEF Dios
<1> QED
  BY <1>2, <1>3 DEF IInv, LogBelowMarks

\* A step that verifies d keeps the log below the marks and in order.
LEMMA VerifyKeeps ==
    ASSUME IInv, NEW d \in air, NEW how, VerifyDio(d, how)
    PROVE  IInv'
<1>1. running /\ Fresher(d) /\ running' = running
      /\ air' = air /\ sent' = sent /\ now' = now
  BY DEF VerifyDio, Admissible, Judged, env
<1>2. disk' = Proposed(d) /\ cache' = Proposed(d) /\ log' = Append(log, d)
  BY DEF VerifyDio
<1>3. /\ Proposed(d) \in Marks /\ d \in Dios
      /\ Proposed(d)[d.key] = d.seq /\ d.seq > disk[d.key]
      /\ \A k \in Keys : Proposed(d)[k] >= disk[k]
  BY <1>1, ProposedRaises
<1>4. log \in Seq(Dios) /\ disk \in [Keys -> {-1} \cup Nat]
  BY DEF IInv, Types, Marks, NoMark
<1>5. /\ Len(log') = Len(log) + 1 /\ log' \in Seq(Dios)
      /\ \A i \in 1 .. Len(log) : log'[i] = log[i]
      /\ log'[Len(log) + 1] = d
  BY <1>2, <1>3, <1>4
<1>6. \A i \in 1 .. Len(log) :
          log[i].key \in Keys /\ log[i].seq \in Nat /\ log[i].seq <= disk[log[i].key]
  BY LogTyped
<1>7. d.key \in Keys /\ d.seq \in Nat /\ Proposed(d) \in [Keys -> {-1} \cup Nat]
  BY <1>3 DEF Dios, Marks, NoMark
<1>8. Types'
  BY <1>1, <1>2, <1>3, <1>5 DEF IInv, Types
<1>9. LogBelowMarks'
  <2> SUFFICES ASSUME NEW i \in 1 .. Len(log')
               PROVE  log'[i].seq <= Proposed(d)[log'[i].key]
    BY <1>2 DEF LogBelowMarks
  <2>1. CASE i = Len(log) + 1
    BY <2>1, <1>3, <1>5, <1>7
  <2>2. CASE i \in 1 .. Len(log)
    <3> DEFINE k == log[i].key
    <3>1. k \in Keys /\ log[i].seq \in Nat /\ log[i].seq <= disk[k] /\ log'[i] = log[i]
      BY <2>2, <1>5, <1>6
    <3>2. Proposed(d)[k] >= disk[k] /\ disk[k] \in {-1} \cup Nat
          /\ Proposed(d)[k] \in {-1} \cup Nat
      BY <3>1, <1>3, <1>4, <1>7
    <3> HIDE DEF k
    <3> QED
      BY <3>1, <3>2 DEF k
  <2> QED
    BY <2>1, <2>2, <1>4, <1>5
<1>10. VerifiedInOrder'
  <2> SUFFICES ASSUME NEW i \in 1 .. Len(log'), NEW j \in 1 .. Len(log'),
                      i < j, log'[i].key = log'[j].key
               PROVE  log'[i].seq < log'[j].seq
    BY DEF VerifiedInOrder
  <2>1. i \in 1 .. Len(log) /\ log'[i] = log[i]
    BY <1>4, <1>5
  <2>2. CASE j = Len(log) + 1
    <3>1. log'[j] = d /\ log[i].key = d.key
      BY <2>1, <2>2, <1>5
    <3>2. log[i].seq \in Nat /\ log[i].seq <= disk[d.key]
      BY <2>1, <3>1, <1>6
    <3>3. disk[d.key] \in {-1} \cup Nat
      BY <1>4, <1>7
    <3> QED
      BY <2>1, <3>1, <3>2, <3>3, <1>3, <1>7
  <2>3. CASE j \in 1 .. Len(log)
    BY <2>1, <2>3, <1>5 DEF IInv, VerifiedInOrder
  <2> QED
    BY <2>2, <2>3, <1>4, <1>5
<1> QED
  BY <1>1, <1>2, <1>8, <1>9, <1>10 DEF IInv, MarksCoherent

\* Every step keeps the invariant and moves no durable mark back.
LEMMA NextIInv ==
    ASSUME IInv, [Next]_vars
    PROVE  IInv' /\ \A k \in Keys : disk'[k] >= disk[k]
<1> USE DEF IInv, Types, MarksCoherent, LogBelowMarks, VerifiedInOrder
<1>0. \A k \in Keys : disk[k] \in {-1} \cup Nat
  BY DEF Marks, NoMark
<1>1. ASSUME UNCHANGED <<sent, air, now, running, cache, disk, log>>
      PROVE  IInv' /\ \A k \in Keys : disk'[k] >= disk[k]
  BY <1>0, <1>1
<1>2. ASSUME NEW k \in Keys, SendDio(k)
      PROVE  IInv' /\ \A l \in Keys : disk'[l] >= disk[l]
  <2>1. air' = air \cup {[key |-> k, serial |-> sent[k] + 1,
                          seq |-> IF k \in LocalRoots THEN RootDioSeq ELSE OtherRootSeq(k),
                          expiry |-> now + Ttl]}
    BY <1>2 DEF SendDio
  <2>2. /\ sent[k] + 1 \in Nat \ {0} /\ now + Ttl \in Nat
        /\ (IF k \in LocalRoots THEN RootDioSeq ELSE OtherRootSeq(k)) \in Nat
    BY RootDioAssumption DEF RootDioSeq, OtherRootSeq
  <2>3. air' \subseteq Dios
    BY <2>1, <2>2 DEF Dios
  <2> QED
    BY <1>0, <1>2, <2>3 DEF SendDio
<1>3. ASSUME NEW k \in Keys, Pin(k)
      PROVE  IInv' /\ \A l \in Keys : disk'[l] >= disk[l]
  BY <1>1, <1>3 DEF Pin, env, obs
<1>4. CASE Tick
  BY <1>0, <1>4 DEF Tick
<1>5. CASE Resume
  BY <1>0, <1>5 DEF Resume, env, obs
<1>6. CASE SetWallClock
  BY <1>1, <1>6 DEF SetWallClock, env, obs
<1>7. CASE Crash
  <2>1. Empty \in Marks
    BY DEF Empty, Marks
  <2>2. /\ UNCHANGED <<sent, air, now, disk, log>>
        /\ ~running' /\ cache' = Empty
    BY <1>7 DEF Crash, env, obs
  <2> QED
    BY <1>0, <2>1, <2>2
<1>8. ASSUME NEW d \in air, NEW how \in Conditions, Receive(d, how)
      PROVE  IInv' /\ \A k \in Keys : disk'[k] >= disk[k]
  <2>1. CASE RejectDio(d, how)
    BY <1>1, <2>1 DEF RejectDio, Judged, env
  <2>2. CASE BaselineDio(d, how)
    BY <1>1, <2>2 DEF BaselineDio, Judged, env
  <2>3. CASE VerifyDio(d, how)
    <3>1. IInv'
      BY <2>3, VerifyKeeps
    <3>2. running /\ Fresher(d) /\ disk' = Proposed(d)
      BY <2>3 DEF VerifyDio, Admissible
    <3> QED
      BY <3>1, <3>2, ProposedRaises
  <2>4. CASE PersistFails(d, how)
    BY <1>1, <2>4 DEF PersistFails, Judged, env
  <2>5. CASE CrashInPersist(d, how)
    <3>1. running /\ Fresher(d) /\ disk' = Proposed(d)
      BY <2>5 DEF CrashInPersist, Admissible
    <3>2. air' = air /\ sent' = sent /\ now' = now /\ log' = log /\ cache' = Empty /\ ~running'
      BY <2>5 DEF CrashInPersist, Judged, env
    <3>3. disk' \in Marks /\ \A k \in Keys : disk'[k] >= disk[k]
      BY <3>1, ProposedRaises
    <3>4. \A i \in 1 .. Len(log) :
             log[i].key \in Keys /\ log[i].seq \in Nat /\ log[i].seq <= disk[log[i].key]
      BY LogTyped
    <3>5. \A k \in Keys : disk'[k] \in {-1} \cup Nat
      BY <3>3 DEF Marks, NoMark
    <3>6. LogBelowMarks'
      <4> SUFFICES ASSUME NEW i \in 1 .. Len(log)
                   PROVE  log[i].seq <= disk'[log[i].key]
        BY <3>2
      <4> DEFINE k == log[i].key
      <4>1. k \in Keys /\ log[i].seq \in Nat /\ log[i].seq <= disk[k]
        BY <3>4
      <4>2. disk'[k] >= disk[k] /\ disk[k] \in {-1} \cup Nat /\ disk'[k] \in {-1} \cup Nat
        BY <4>1, <1>0, <3>3, <3>5
      <4> HIDE DEF k
      <4> QED
        BY <4>1, <4>2 DEF k
    <3>7. Empty \in Marks
      BY DEF Empty, Marks
    <3> QED
      BY <3>2, <3>3, <3>6, <3>7
  <2> QED
    BY <1>8, <2>1, <2>2, <2>3, <2>4, <2>5 DEF Receive
<1>9. CASE UNCHANGED vars
  BY <1>1, <1>9 DEF vars
<1> QED
  BY <1>2, <1>3, <1>4, <1>5, <1>6, <1>7, <1>8, <1>9 DEF Next

\* The inductive invariant holds in every behaviour of the gate.
LEMMA Invariance == Spec => []IInv
<1>1. IInv /\ [Next]_vars => IInv'
  BY NextIInv
<1> QED
  BY InitIInv, <1>1, PTL DEF Spec

\* No signed DIO is verified twice in the life of a node, and the verified ones
\* of a DODAG increase: verify_dio_root_signature with its durable cache.
THEOREM OnceVerified == Spec => []VerifiedInOrder
<1>1. IInv => VerifiedInOrder
  BY DEF IInv
<1> QED
  BY Invariance, <1>1, PTL

\* The cache of a running node is its durable record, after any sequence of
\* failing writes and reboots.
THEOREM Coherent == Spec => []MarksCoherent
<1>1. IInv => MarksCoherent
  BY DEF IInv
<1> QED
  BY Invariance, <1>1, PTL

\* The durable marks never move back, by any step of the gate.
THEOREM MarksGrow == Spec => MarksOnlyGrow
<1>1. IInv /\ [Next]_vars => [\A k \in Keys : disk'[k] >= disk[k]]_vars
  BY NextIInv
<1> QED
  BY Invariance, <1>1, PTL DEF Spec, MarksOnlyGrow

-----------------------------------------------------------------------------
(* Where a mark comes from, and what is refused.                            *)

\* A root that increments its counter numbers its DIOs in the order it sends
\* them.
AirNumbered ==
    \A d \in air : d.key \notin LocalRoots => d.seq = FirstSeq + d.serial - 1

\* The second layer of the invariant, which takes the first one as given.
EInv ==
    /\ seen \in [Keys -> Nat]
    /\ AirNumbered
    /\ MarksEarned
    /\ RefusedLocal

\* The initial state satisfies the second layer.
LEMMA InitEInv == Init => EInv
BY DEF Init, EInv, AirNumbered, MarksEarned, RefusedLocal, Tracked, Empty, NoMark

\* What every judgement of a DIO does to the observer of deliveries.
LEMMA JudgedSeen ==
    ASSUME IInv, EInv, NEW d \in air, NEW how, Judged(d, how)
    PROVE  /\ seen' \in [Keys -> Nat]
           /\ \A k \in Keys : seen'[k] >= seen[k]
           /\ how = "intact" => d.serial <= seen'[d.key]
           /\ air' = air
<1>1. d.key \in Keys /\ d.serial \in Nat
  BY DEF IInv, Types, Dios
<1>2. seen \in [Keys -> Nat]
  BY DEF EInv
<1>3. CASE InOrder(d, how)
  <2>1. seen' = [seen EXCEPT ![d.key] = d.serial] /\ d.serial > seen[d.key] /\ air' = air
    BY <1>3 DEF Judged, InOrder, env
  <2> QED
    BY <1>1, <1>2, <2>1
<1>4. CASE ~InOrder(d, how)
  <2>1. seen' = seen /\ (how = "intact" => ~ (d.serial > seen[d.key])) /\ air' = air
    BY <1>4 DEF Judged, InOrder, env
  <2> QED
    BY <1>1, <1>2, <2>1
<1> QED
  BY <1>3, <1>4

\* A judgement that leaves the durable marks alone keeps every mark earned.
LEMMA EarnedKept ==
    ASSUME IInv, EInv, seen' \in [Keys -> Nat], \A k \in Keys : seen'[k] >= seen[k],
           air \subseteq air', disk' = disk
    PROVE  MarksEarned'
<1> SUFFICES ASSUME NEW k \in Tracked(disk)
             PROVE  \E e \in air' : e.key = k /\ e.seq = disk[k] /\ e.serial <= seen'[k]
  BY DEF MarksEarned, Tracked
<1>1. k \in Keys
  BY DEF Tracked
<1>2. PICK e \in air : e.key = k /\ e.seq = disk[k] /\ e.serial <= seen[k]
  BY DEF EInv, MarksEarned
<1>3. e.serial \in Nat /\ seen[k] \in Nat /\ seen'[k] \in Nat /\ seen'[k] >= seen[k]
  BY <1>1 DEF IInv, Types, Dios, EInv
<1>4. e.serial <= seen'[k]
  BY <1>2, <1>3
<1> QED
  BY <1>2, <1>4

\* An admissible DIO whose mark is written has itself been delivered intact.
LEMMA EarnedByWriting ==
    ASSUME IInv, EInv, NEW d \in air, NEW how, running, Admissible(d, how),
           Judged(d, how), disk' = Proposed(d)
    PROVE  MarksEarned'
<1>1. how = "intact" /\ Fresher(d)
  BY DEF Admissible
<1>2. /\ seen' \in [Keys -> Nat]
      /\ \A k \in Keys : seen'[k] >= seen[k]
      /\ d.serial <= seen'[d.key] /\ air' = air
  BY <1>1, JudgedSeen
<1>3. /\ Proposed(d)[d.key] = d.seq
      /\ \A k \in Keys \ {d.key} : Proposed(d)[k] = disk[k]
  BY <1>1, ProposedRaises
<1> SUFFICES ASSUME NEW k \in Keys, Proposed(d)[k] # NoMark
             PROVE  \E e \in air : e.key = k /\ e.seq = Proposed(d)[k] /\ e.serial <= seen'[k]
  BY <1>2 DEF MarksEarned, Tracked
<1>4. CASE k = d.key
  BY <1>2, <1>3, <1>4
<1>5. CASE k # d.key
  <2>1. Proposed(d)[k] = disk[k] /\ k \in Tracked(disk)
    BY <1>3, <1>5 DEF Tracked
  <2>2. PICK e \in air : e.key = k /\ e.seq = disk[k] /\ e.serial <= seen[k]
    BY <2>1 DEF EInv, MarksEarned
  <2>3. e.serial \in Nat /\ seen[k] \in Nat /\ seen'[k] \in Nat /\ seen'[k] >= seen[k]
    BY <1>2 DEF IInv, Types, Dios, EInv
  <2>4. e.serial <= seen'[k]
    BY <2>2, <2>3
  <2> QED
    BY <2>1, <2>2, <2>4
<1> QED
  BY <1>4, <1>5

\* A DIO delivered in order is at or below its DODAG's mark only when its
\* root's counter stands still and has signed an earlier one.
LEMMA InOrderFresh ==
    ASSUME IInv, EInv, NEW d \in air, NEW how, running, InOrder(d, how), Rejected(d, how)
    PROVE  d.key \in LocalRoots /\ d.serial > 1
<1>1. d.key \in Keys /\ d.seq \in Nat /\ d.serial \in Nat
  BY DEF IInv, Types, Dios
<1>2. cache = disk /\ disk[d.key] \in {-1} \cup Nat
  BY <1>1 DEF IInv, MarksCoherent, Types, Marks, NoMark
<1>3. ~ (d.seq > disk[d.key]) /\ d.serial > seen[d.key]
  BY <1>2 DEF InOrder, Rejected, Fresher
<1>4. d.key \in Tracked(disk)
  BY <1>1, <1>2, <1>3 DEF Tracked, NoMark
<1>5. PICK e \in air : e.key = d.key /\ e.seq = disk[d.key] /\ e.serial <= seen[d.key]
  BY <1>4 DEF EInv, MarksEarned
<1>6. e.serial \in Nat \ {0} /\ seen[d.key] \in Nat /\ e.seq \in Nat
  BY <1>1 DEF IInv, Types, Dios, EInv
<1>7. d.serial > 1
  BY <1>1, <1>3, <1>5, <1>6
<1>8. ASSUME d.key \notin LocalRoots
      PROVE  FALSE
  <2>1. e.seq = FirstSeq + e.serial - 1 /\ d.seq = FirstSeq + d.serial - 1
    BY <1>5, <1>8 DEF EInv, AirNumbered
  <2> QED
    BY <1>1, <1>3, <1>5, <1>6, <2>1, RootDioAssumption
<1> QED
  BY <1>7, <1>8

\* Every step keeps the second layer.
LEMMA NextEInv ==
    ASSUME IInv, EInv, [Next]_vars
    PROVE  EInv'
<1>1. ASSUME UNCHANGED <<air, disk, seen, refused>>
      PROVE  EInv'
  BY <1>1 DEF EInv, AirNumbered, MarksEarned, RefusedLocal, Tracked
<1>2. ASSUME NEW k \in Keys, SendDio(k)
      PROVE  EInv'
  <2>1. /\ air' = air \cup {[key |-> k, serial |-> sent[k] + 1,
                          seq |-> IF k \in LocalRoots THEN RootDioSeq ELSE OtherRootSeq(k),
                          expiry |-> now + Ttl]}
        /\ UNCHANGED <<disk, seen, refused>>
    BY <1>2 DEF SendDio
  <2>2. sent[k] \in Nat
    BY DEF IInv, Types
  <2>3. AirNumbered'
    BY <2>1, <2>2, RootDioAssumption DEF AirNumbered, EInv, OtherRootSeq
  <2>4. \A l \in Keys : seen'[l] >= seen[l]
    BY <2>1 DEF EInv
  <2>5. MarksEarned'
    BY <2>1, <2>4, EarnedKept DEF EInv
  <2> QED
    BY <2>1, <2>3, <2>5 DEF EInv, RefusedLocal
<1>3. ASSUME NEW k \in Keys, Pin(k)
      PROVE  EInv'
  BY <1>1, <1>3 DEF Pin, env, obs
<1>4. CASE Tick \/ Resume \/ SetWallClock \/ Crash
  BY <1>1, <1>4 DEF Tick, Resume, SetWallClock, Crash, env, obs
<1>5. ASSUME NEW d \in air, NEW how \in Conditions, Receive(d, how)
      PROVE  EInv'
  <2>1. Judged(d, how)
    BY <1>5 DEF Receive, RejectDio, BaselineDio, VerifyDio, PersistFails, CrashInPersist
  <2>2. /\ seen' \in [Keys -> Nat] /\ air' = air
        /\ \A k \in Keys : seen'[k] >= seen[k]
    BY <2>1, JudgedSeen
  <2>3. AirNumbered'
    BY <2>2 DEF EInv, AirNumbered
  <2>4. MarksEarned'
    <3>1. CASE disk' = disk
      BY <2>2, <3>1, EarnedKept
    <3>2. CASE VerifyDio(d, how) \/ CrashInPersist(d, how)
      <4>1. running /\ Admissible(d, how) /\ disk' = Proposed(d)
        BY <3>2 DEF VerifyDio, CrashInPersist
      <4> QED
        BY <2>1, <4>1, EarnedByWriting
    <3> QED
      BY <1>5, <3>1, <3>2 DEF Receive, RejectDio, BaselineDio, PersistFails
  <2>5. RefusedLocal'
    <3>1. CASE RejectDio(d, how)
      <4>1. running /\ Rejected(d, how)
            /\ refused' = IF InOrder(d, how) THEN refused \cup {d} ELSE refused
        BY <3>1 DEF RejectDio
      <4>2. InOrder(d, how) => d.key \in LocalRoots /\ d.serial > 1
        BY <4>1, InOrderFresh
      <4> QED
        BY <4>1, <4>2 DEF EInv, RefusedLocal
    <3>2. CASE refused' = refused
      BY <3>2 DEF EInv, RefusedLocal
    <3> QED
      BY <1>5, <3>1, <3>2 DEF Receive, BaselineDio, VerifyDio, PersistFails, CrashInPersist
  <2> QED
    BY <2>2, <2>3, <2>4, <2>5 DEF EInv
<1>6. CASE UNCHANGED vars
  BY <1>1, <1>6 DEF vars
<1> QED
  BY <1>2, <1>3, <1>4, <1>5, <1>6 DEF Next

\* The second layer holds in every behaviour of the gate.
LEMMA EInvariance == Spec => []EInv
<1>1. IInv /\ EInv /\ [Next]_vars => EInv'
  BY NextEInv
<1> QED
  BY InitEInv, Invariance, <1>1, PTL DEF Spec

\* A durable mark is always the sequence of a DIO that was delivered intact: a
\* genuine payload carried by another header never uses up its root's sequence,
\* by any number of crashes within the write.
THEOREM Earned == Spec => []MarksEarned
<1>1. EInv => MarksEarned
  BY DEF EInv
<1> QED
  BY EInvariance, <1>1, PTL

\* A DIO delivered in order is refused only when this repository's producer,
\* whose root_dio_seq stays at 1, has signed it after another one: for any set
\* of local roots, capacity and number of crashes and failing writes.
THEOREM OnlyLocalRefused == Spec => []RefusedLocal
<1>1. EInv => RefusedLocal
  BY DEF EInv
<1> QED
  BY EInvariance, <1>1, PTL
=============================================================================
