------------------------------- MODULE RootDio -------------------------------
(***************************************************************************)
(* Root-signed DIOs: the producer (Router::build_authenticated_dio_with_    *)
(* root_sig, send_dio) and the receiver's gate verify_dio_root_signature    *)
(* with its RootSeqCache, whose high-water marks are made durable before    *)
(* they count.  The gate runs under &mut self without an await, so one DIO  *)
(* is judged in one step; power may be lost in its write.                   *)
(*                                                                          *)
(* A DODAG and instance is a key; the signed payload is its sequence and    *)
(* expiry.  What the checks of the COSE object and of the carrying header   *)
(* find is the delivery's condition: "intact", "forged" (the signature or   *)
(* its binding to the pinned key fails) or "moved" (the payload is genuine  *)
(* and the DIO header differs from it).  Frames are lost, repeated and      *)
(* reordered freely: a DIO on the air may be delivered at any later time.   *)
(***************************************************************************)
EXTENDS Integers, FiniteSets, Sequences

CONSTANTS
    Keys,        \* (dodag_id, instance) pairs
    LocalRoots,  \* the keys whose root runs this repository's producer
    FirstSeq,    \* where the counter of any other root starts
    Capacity,    \* MAX_ROOT_SEQ_KEYS
    Ttl,         \* ROOT_SIG_TTL_SECONDS
    MaxDios,     \* bound on the DIOs a root sends
    MaxNow,      \* bound on the wall clock
    MaxFaults    \* bound on crashes and failing writes

ASSUME RootDioAssumption ==
    /\ LocalRoots \subseteq Keys
    /\ FirstSeq \in Nat /\ Capacity \in Nat /\ Ttl \in Nat
    /\ MaxDios \in Nat /\ MaxNow \in Nat /\ MaxFaults \in Nat

VARIABLES
    sent,        \* per key: how many signed DIOs its root has sent
    air,         \* the signed DIOs sent so far
    now,         \* wall-clock time
    running,     \* the receiver is up
    clock,       \* set_wall_clock_unix has been called since boot
    pinned,      \* the keys whose root key the announce store has pinned
    cache,       \* root_seqs: the high-water marks in memory
    disk,        \* the durable high-water marks
    faults,      \* crashes and failing writes so far
    log,         \* observer: the DIOs judged Verified, in order
    seen,        \* observer: per key, the latest DIO delivered intact
    refused      \* observer: DIOs rejected though delivered in order

env  == <<sent, air, now>>
obs  == <<log, seen, refused>>
vars == <<sent, air, now, running, clock, pinned, cache, disk, faults, log, seen, refused>>

NoMark == -1
Empty  == [k \in Keys |-> NoMark]
Marks  == [Keys -> {NoMark} \cup Nat]
Tracked(marks) == {k \in Keys : marks[k] # NoMark}
Dios   == [key : Keys, serial : Nat \ {0}, seq : Nat, expiry : Nat]

Init ==
    /\ sent = [k \in Keys |-> 0]
    /\ air = {}
    /\ now = 0
    /\ running = FALSE
    /\ clock = FALSE
    /\ pinned = {}
    /\ cache = Empty
    /\ disk = Empty
    /\ faults = 0
    /\ log = <<>>
    /\ seen = [k \in Keys |-> 0]
    /\ refused = {}

-----------------------------------------------------------------------------
(* Roots and time.                                                          *)

\* root_dio_seq: set to 1 when the router is made, read by the producer, and
\* assigned nowhere else.
RootDioSeq == 1

\* The counter of a root that increments it with each DIO.
OtherRootSeq(k) == FirstSeq + sent[k]

\* send_dio of the root of k: the 0x17 option signs sequence and expiry.
SendDio(k) ==
    /\ sent[k] < MaxDios
    /\ sent' = [sent EXCEPT ![k] = @ + 1]
    /\ air' = air \cup {[key |-> k, serial |-> sent[k] + 1,
                         seq |-> IF k \in LocalRoots THEN RootDioSeq ELSE OtherRootSeq(k),
                         expiry |-> now + Ttl]}
    /\ UNCHANGED <<now, running, clock, pinned, cache, disk, faults, log, seen, refused>>

Tick ==
    /\ now < MaxNow
    /\ now' = now + 1
    /\ UNCHANGED <<sent, air, running, clock, pinned, cache, disk, faults, log, seen, refused>>

-----------------------------------------------------------------------------
(* The receiver's life.                                                     *)

\* RootSeqCache::decode: a record with a zero sequence is corrupt.
Decodes(marks) == \A k \in Keys : marks[k] # 0

\* RootSeqCache::resume in provision_leaf or open_leaf: the durable marks, or
\* an empty record when there is none; corrupt state fails closed.
Resume ==
    /\ ~running
    /\ Decodes(disk)
    /\ running' = TRUE
    /\ clock' = FALSE
    /\ pinned' = {}
    /\ cache' = disk
    /\ UNCHANGED <<env, disk, faults, obs>>

SetWallClock ==
    /\ running
    /\ clock' = TRUE
    /\ UNCHANGED <<env, running, pinned, cache, disk, faults, obs>>

\* Announce processing pins a root key, or evicts a pin from its table.
Pin(k) ==
    /\ running
    /\ pinned' \in {pinned \cup {k}, pinned \ {k}}
    /\ UNCHANGED <<env, running, clock, cache, disk, faults, obs>>

Fault == faults < MaxFaults /\ faults' = faults + 1

Crash ==
    /\ running
    /\ running' = FALSE
    /\ cache' = Empty
    /\ Fault
    /\ UNCHANGED <<env, clock, pinned, disk, obs>>

-----------------------------------------------------------------------------
(* The gate.                                                                *)

Conditions == {"intact", "forged", "moved"}

\* A clock is set and the signature has not expired.
Assessable(d) == clock /\ now < d.expiry

\* root_seq strictly exceeds the mark, if there is one.
Fresher(d) == d.seq > cache[d.key]

\* RootSeqCache::accept: a tracked key, or a free entry for a new one.
HasRoom(d) == d.key \in Tracked(cache) \/ Cardinality(Tracked(cache)) < Capacity

\* The marks accept proposes.
Proposed(d) == [cache EXCEPT ![d.key] = d.seq]

\* Mutant of Rejected: a new DODAG that does not fit is rejected too.
RejectedAtCapacity(d, how) ==
    /\ d.key \in pinned
    /\ \/ how = "forged"
       \/ Assessable(d) /\ (how = "moved" \/ ~Fresher(d) \/ ~HasRoom(d))

\* Forged, moved onto another header, replayed or regressed.
Rejected(d, how) ==
    /\ d.key \in pinned
    /\ \/ how = "forged"
       \/ Assessable(d) /\ (how = "moved" \/ ~Fresher(d))

\* Mutant of Admissible: the mark is moved before the header is compared.
AdmissibleUnmatched(d, how) ==
    /\ d.key \in pinned
    /\ how # "forged"
    /\ Assessable(d)
    /\ Fresher(d)
    /\ HasRoom(d)

\* The DIO passes every check; its mark has still to be made durable.
Admissible(d, how) ==
    /\ d.key \in pinned
    /\ how = "intact"
    /\ Assessable(d)
    /\ Fresher(d)
    /\ HasRoom(d)

\* Nothing its root sent later has been delivered before.
InOrder(d, how) == how = "intact" /\ d.serial > seen[d.key]

Judged(d, how) ==
    /\ seen' = IF InOrder(d, how) THEN [seen EXCEPT ![d.key] = d.serial] ELSE seen
    /\ UNCHANGED <<env, clock, pinned>>

\* Reject: process_rpl drops the DIO.
RejectDio(d, how) ==
    /\ running
    /\ Rejected(d, how)
    /\ refused' = IF InOrder(d, how) THEN refused \cup {d} ELSE refused
    /\ Judged(d, how)
    /\ UNCHANGED <<running, cache, disk, faults, log>>

\* Baseline: no pin, no clock, expired, or no room; the DIO is processed as
\* an unsigned one.
BaselineDio(d, how) ==
    /\ running
    /\ ~Rejected(d, how)
    /\ ~Admissible(d, how)
    /\ Judged(d, how)
    /\ UNCHANGED <<running, cache, disk, faults, log, refused>>

\* Mutant of VerifyDio: the mark is admitted in memory and not written.
VerifyDioVolatile(d, how) ==
    /\ running
    /\ Admissible(d, how)
    /\ cache' = Proposed(d)
    /\ log' = Append(log, d)
    /\ Judged(d, how)
    /\ UNCHANGED <<running, disk, faults, refused>>

\* Verified: the proposed marks are persisted, then become the cache.
VerifyDio(d, how) ==
    /\ running
    /\ Admissible(d, how)
    /\ disk' = Proposed(d)
    /\ cache' = Proposed(d)
    /\ log' = Append(log, d)
    /\ Judged(d, how)
    /\ UNCHANGED <<running, faults, refused>>

\* Mutant of PersistFails: the cache is moved on although the write failed.
PersistFailsCommitted(d, how) ==
    /\ running
    /\ Admissible(d, how)
    /\ Fault
    /\ cache' = Proposed(d)
    /\ Judged(d, how)
    /\ UNCHANGED <<running, disk, log, refused>>

\* The write fails: Baseline, and the cache is as before.
PersistFails(d, how) ==
    /\ running
    /\ Admissible(d, how)
    /\ Fault
    /\ Judged(d, how)
    /\ UNCHANGED <<running, cache, disk, log, refused>>

\* Power is lost after the write and before the DIO counts.
CrashInPersist(d, how) ==
    /\ running
    /\ Admissible(d, how)
    /\ Fault
    /\ disk' = Proposed(d)
    /\ running' = FALSE
    /\ cache' = Empty
    /\ Judged(d, how)
    /\ UNCHANGED <<log, refused>>

Receive(d, how) ==
    \/ RejectDio(d, how)
    \/ BaselineDio(d, how)
    \/ VerifyDio(d, how)
    \/ PersistFails(d, how)
    \/ CrashInPersist(d, how)

Next ==
    \/ \E k \in Keys : SendDio(k) \/ Pin(k)
    \/ Tick
    \/ Resume \/ SetWallClock \/ Crash
    \/ \E d \in air, how \in Conditions : Receive(d, how)

Spec == Init /\ [][Next]_vars

-----------------------------------------------------------------------------
(* Properties.                                                              *)

\* Per DODAG, the DIOs judged Verified have strictly increasing sequences over
\* the whole life of the node: none is verified twice, whatever reboots, pin
\* evictions, clock losses and failing writes lie between two deliveries.
VerifiedInOrder ==
    \A i, j \in 1 .. Len(log) :
        (i < j /\ log[i].key = log[j].key) => log[i].seq < log[j].seq

\* While the node runs, the marks in memory are the durable ones: a failing
\* write leaves neither ahead, so a healthy redelivery is judged as the first
\* delivery would have been, and a reboot changes no verdict.
MarksCoherent == running => cache = disk

\* A mark is the sequence of a DIO that was delivered intact: a genuine payload
\* carried by another header never uses up its root's sequence.
MarksEarned ==
    \A k \in Tracked(disk) :
        \E d \in air : d.key = k /\ d.seq = disk[k] /\ d.serial <= seen[k]

\* A signed DIO that no later DIO of its root has overtaken is refused only when
\* this repository's producer, whose root_dio_seq stays at 1, has sent it, and
\* not as the first: of a root that numbers its DIOs none is ever refused,
\* whatever the other root, the capacity, reboots and failing writes do.
RefusedLocal == \A d \in refused : d.key \in LocalRoots /\ d.serial > 1

\* The durable marks never move back, and a tracked DODAG stays tracked.
MarksOnlyGrow == [][\A k \in Keys : disk'[k] >= disk[k]]_vars
=============================================================================
