----------------------------- MODULE LinkProofs ------------------------------
(***************************************************************************)
(* Proofs about what runs over one link: the link layer (LinkLayer) and      *)
(* SCHC fragmentation (Fragmentation), which relies on its counters.         *)
(*                                                                           *)
(* What holds of the link layer for every window width, table size and       *)
(* number of keys.  The windows first, as functions of a frame; then the     *)
(* pins; then one inductive invariant in layers: the types, the two tables   *)
(* and their access orders, the durable generations, the frames accepted,    *)
(* and the evidence callers keep.                                            *)
(*                                                                           *)
(* What holds of fragmentation for every packet, window size and timeout     *)
(* that keep sessions apart: the answers of a buffer that holds tiles of one *)
(* packet; then the inductive invariant FragInv, that everything under way   *)
(* is of the packet on offer; then Counted, that the requests of a session   *)
(* are no more than the sender's attempts.                                   *)
(***************************************************************************)
EXTENDS LinkLayer, Fragmentation, AccessOrderProofs

\* An accepted frame moves the window to one that is well-formed again.
LEMMA AdvanceType ==
    ASSUME NEW st \in State \cup {NoReplay}, NEW e \in Epochs, NEW q \in SeqNums
    PROVE  Advance(st, e, q) \in State
<1>1. CASE st = NoReplay
    BY <1>1 DEF Advance, State
<1>2. CASE st # NoReplay
    <2>1. st \in State
        BY <1>2
    <2>2. CASE e > st.epoch
        BY <1>2, <2>1, <2>2 DEF Advance, State
    <2>3. CASE ~(e > st.epoch) /\ q > st.last
        BY <1>2, <2>1, <2>3 DEF Advance, State
    <2>4. CASE ~(e > st.epoch) /\ ~(q > st.last)
        BY <1>2, <2>1, <2>4 DEF Advance, State
    <2> QED
        BY <2>2, <2>3, <2>4
<1> QED
    BY <1>1, <1>2

\* check_and_update: the frame it accepted is a replay at once.
THEOREM AcceptedIsReplay ==
    ASSUME NEW st \in State \cup {NoReplay}, NEW e \in Epochs, NEW q \in SeqNums,
           Fresh(st, e, q)
    PROVE  ~Fresh(Advance(st, e, q), e, q)
<1> USE LinkLayerAssumption
<1>1. Advance(st, e, q) # NoReplay
    BY AdvanceType, MissingAssumption
<1>2. CASE st = NoReplay
    BY <1>1, <1>2 DEF Fresh, Advance
<1>3. CASE st # NoReplay
    <2>1. st \in State
        BY <1>3
    <2>2. CASE e > st.epoch
        BY <1>1, <1>3, <2>1, <2>2 DEF Fresh, Advance, State
    <2>3. CASE ~(e > st.epoch) /\ q > st.last
        BY <1>1, <1>3, <2>1, <2>3 DEF Fresh, Advance, State
    <2>4. CASE ~(e > st.epoch) /\ ~(q > st.last)
        BY <1>1, <1>3, <2>1, <2>4 DEF Fresh, Advance, State
    <2> QED
        BY <2>2, <2>3, <2>4
<1> QED
    BY <1>2, <1>3

\* check_and_update: what was a replay before a frame was accepted is one
\* after it, whatever bits the shift of the window dropped.
THEOREM ReplayStaysReplay ==
    ASSUME NEW st \in State, NEW e \in Epochs, NEW q \in SeqNums,
           NEW f \in Epochs, NEW r \in SeqNums,
           Fresh(st, e, q), ~Fresh(st, f, r)
    PROVE  ~Fresh(Advance(st, e, q), f, r)
<1> USE LinkLayerAssumption
<1>0. /\ st.epoch \in Nat /\ st.last \in Nat /\ st.seen \subseteq Nat
      /\ e \in Nat /\ q \in Nat /\ f \in Nat /\ r \in Nat
    BY DEF State
<1>1. st # NoReplay /\ Advance(st, e, q) # NoReplay
    BY AdvanceType, MissingAssumption
<1>2. e >= st.epoch /\ f <= st.epoch
    BY <1>0, <1>1 DEF Fresh
<1>3. f = st.epoch => r <= st.last /\ (r <= st.last - Window \/ r \in st.seen)
    BY <1>1 DEF Fresh, State
<1>4. CASE e > st.epoch
    <2>1. Advance(st, e, q).epoch = e
        BY <1>1, <1>4 DEF Advance
    <2> QED
        BY <1>0, <1>1, <1>2, <1>4, <2>1 DEF Fresh
<1>5. CASE ~(e > st.epoch) /\ q > st.last
    <2>1. Advance(st, e, q) = [st EXCEPT !.last = q, !.seen = {x \in @ : x > q - Window} \cup {q}]
        BY <1>1, <1>5 DEF Advance
    <2> QED
        BY <1>1, <1>2, <1>3, <1>5, <2>1 DEF Fresh, State
<1>6. CASE ~(e > st.epoch) /\ ~(q > st.last)
    <2>1. Advance(st, e, q) = [st EXCEPT !.seen = @ \cup {q}]
        BY <1>1, <1>6 DEF Advance
    <2> QED
        BY <1>1, <1>2, <1>3, <1>6, <2>1 DEF Fresh, State
<1> QED
    BY <1>2, <1>4, <1>5, <1>6

-----------------------------------------------------------------------------
(* Pins.                                                                    *)

\* The pin table has an entry, possibly empty, for each identifier.
PinTable == DOMAIN pinned = Iids

\* A new link layer has one.
LEMMA PinTableInit == Init => PinTable
BY DEF Init, PinTable

\* The one step that sets a pin to a key finds it empty or equal to that key;
\* all others remove pins or leave them.
LEMMA PinStep ==
    ASSUME PinTable, [Next]_vars
    PROVE  /\ PinTable'
           /\ \A i \in Iids : pinned[i] # NoKey => pinned'[i] \in {pinned[i], NoKey}
<1> USE LinkLayerAssumption DEF PinTable
<1>1. CASE \E k \in Keys : RefreshPeer(k)
    BY <1>1 DEF RefreshPeer
<1>2. CASE \E k \in Keys : InstallPeer(k)
    BY <1>2 DEF InstallPeer
<1>3. CASE \E i \in Iids : UnpinPeer(i)
    BY <1>3 DEF UnpinPeer
<1>4. CASE \E i \in Iids : RemovePeer(i) \/ ForgetPeer(i)
    BY <1>4 DEF RemovePeer, ForgetPeer, RetirePeer
<1>5. CASE \E k \in Keys, e \in Epochs, q \in SeqNums : ReceiveFrame(k, e, q)
    <2>1. PICK k \in Keys, e \in Epochs, q \in SeqNums : ReceiveFrame(k, e, q)
        BY <1>5
    <2>2. pinned' = [pinned EXCEPT ![IidOf[k]] = k] /\ pinned[IidOf[k]] \in {NoKey, k}
        BY <2>1 DEF ReceiveFrame, Verifies
    <2> QED
        BY <2>2
<1>6. CASE \E k \in Keys, e \in Epochs, q \in SeqNums : RejectReplay(k, e, q)
    BY <1>6 DEF RejectReplay, table
<1>7. CASE \E k \in Keys : RejectSender(k)
    BY <1>7 DEF RejectSender, vars, table
<1>8. CASE \E i \in Iids : Persist(i)
    BY <1>8 DEF Persist, table
<1>9. CASE \E i \in Iids : Restore(i)
    BY <1>9 DEF Restore
<1>10. CASE Restart
    BY <1>10 DEF Restart
<1>11. CASE UNCHANGED vars
    BY <1>11 DEF vars, table
<1> QED
    BY <1>1, <1>2, <1>3, <1>4, <1>5, <1>6, <1>7, <1>8, <1>9, <1>10, <1>11 DEF Next

\* receive_frame never moves a pin to another key, whichever keys share an
\* identifier: the pin has to be removed first.
THEOREM PinsNeverExchanged == Spec => PinsHold
<1>1. PinTable /\ [Next]_vars => PinTable'
    BY PinStep
<1>2. PinTable /\ [Next]_vars =>
          [\A i \in Iids : pinned[i] # NoKey => pinned'[i] \in {pinned[i], NoKey}]_vars
    BY PinStep
<1> QED
    BY <1>1, <1>2, PinTableInit, PTL DEF Spec, PinsHold

-----------------------------------------------------------------------------
(* The types, which every later layer of the invariant takes as given.      *)

Types ==
    /\ owner \in Nat \ {0} /\ dropped = 1 .. (owner - 1)
    /\ peers \in [Iids -> Peers \cup {NoPeer}]
    /\ pinned \in [Iids -> Keys \cup {NoKey}]
    /\ replay \in [Keys -> State \cup {NoReplay}]
    /\ accepted \in [Keys -> SUBSET (Epochs \X SeqNums)]
    /\ serial \in Nat /\ gens \in Nat
    /\ held \in Evidence \cup {Nothing}
    /\ held # Nothing => held.owner \in 1 .. owner
    /\ disk \in [Iids -> Records \cup {Nothing}]
    /\ known \in SUBSET {i \in Iids : disk[i] # Nothing}

\* LinkLayer::new has the types.
LEMMA TypesInit == Init => Types
BY DEF Init, Types

\* The entry of a configured peer.
LEMMA PeerType ==
    ASSUME Types, NEW i \in Configured
    PROVE  i \in Iids /\ peers[i] \in Peers /\ peers[i].key \in Keys
           /\ peers[i].gen \in Nat /\ peers[i].serial \in Nat
BY DEF Types, Configured, Peers

\* Resetting windows keeps their types.
LEMMA ResetType ==
    ASSUME Types, NEW ks, Reset(ks)
    PROVE  /\ replay' \in [Keys -> State \cup {NoReplay}]
           /\ accepted' \in [Keys -> SUBSET (Epochs \X SeqNums)]
BY DEF Types, Reset

\* Every step keeps the types.
LEMMA TypesStep ==
    ASSUME Types, [Next]_vars
    PROVE  Types'
<1> USE LinkLayerAssumption
<1>1. ASSUME NEW k \in Keys, RefreshPeer(k)
      PROVE  Types'
    BY <1>1 DEF RefreshPeer, windows, Types
<1>2. ASSUME NEW k \in Keys, InstallPeer(k)
      PROVE  Types'
    <2>1. NewPeer(k) \in Peers
        BY DEF NewPeer, Peers, Types
    <2>2. peers' \in [Iids -> Peers \cup {NoPeer}]
        BY <1>2, <2>1 DEF InstallPeer, Types
    <2>3. pinned' \in [Iids -> Keys \cup {NoKey}]
        BY <1>2 DEF InstallPeer, Types
    <2>4. \E ks : Reset(ks)
        BY <1>2 DEF InstallPeer
    <2>5. /\ UNCHANGED <<owner, dropped, held, disk, known>>
          /\ serial' = serial + 1 /\ gens' = gens + 1
        BY <1>2 DEF InstallPeer, Allocate
    <2> QED
        BY <2>2, <2>3, <2>4, <2>5, ResetType DEF Types
<1>3. ASSUME NEW i \in Iids, UnpinPeer(i)
      PROVE  Types'
    <2>1. i \in Configured /\ NewPeer(peers[i].key) \in Peers
        BY <1>3, PeerType DEF UnpinPeer, NewPeer, Peers, Types
    <2>2. peers' \in [Iids -> Peers \cup {NoPeer}] /\ pinned' \in [Iids -> Keys \cup {NoKey}]
        BY <1>3, <2>1 DEF UnpinPeer, Types
    <2>3. /\ UNCHANGED <<owner, dropped, replay, accepted, held, disk, known>>
          /\ serial' = serial + 1 /\ gens' = gens + 1
        BY <1>3 DEF UnpinPeer, Allocate, windows
    <2> QED
        BY <2>2, <2>3 DEF Types
<1>4. ASSUME NEW i \in Iids, NEW ks, RetirePeer(i, ks)
      PROVE  Types'
    <2>1. /\ peers' \in [Iids -> Peers \cup {NoPeer}]
          /\ pinned' \in [Iids -> Keys \cup {NoKey}]
        BY <1>4 DEF RetirePeer, Types
    <2>2. UNCHANGED <<owner, dropped, serial, gens, held, disk, known>> /\ Reset(ks)
        BY <1>4 DEF RetirePeer
    <2> QED
        BY <2>1, <2>2, ResetType DEF Types
<1>5. ASSUME NEW k \in Keys, NEW e \in Epochs, NEW q \in SeqNums, ReceiveFrame(k, e, q)
      PROVE  Types'
    <2> DEFINE i == IidOf[k]
               evidence == [key |-> k, epoch |-> e, seq |-> q, owner |-> owner,
                            gen |-> peers[i].gen, serial |-> peers[i].serial]
    <2>1. i \in Configured
        BY <1>5 DEF ReceiveFrame, Verifies
    <2>2. Advance(replay[k], e, q) \in State
        BY AdvanceType DEF Types
    <2>3. replay' \in [Keys -> State \cup {NoReplay}]
        BY <1>5, <2>2 DEF ReceiveFrame, Types
    <2>4. accepted' \in [Keys -> SUBSET (Epochs \X SeqNums)]
        BY <1>5 DEF ReceiveFrame, Types
    <2>5. pinned' \in [Iids -> Keys \cup {NoKey}]
        BY <1>5, <2>1 DEF ReceiveFrame, Types
    <2>6. owner \in 1 .. owner
        BY DEF Types
    <2>7. evidence \in Evidence /\ evidence.owner = owner
        BY <2>1, PeerType DEF Evidence, Types
    <2>8. held' \in {held, evidence}
        BY <1>5 DEF ReceiveFrame
    <2>9. UNCHANGED <<owner, dropped, peers, serial, gens, disk, known>>
        BY <1>5 DEF ReceiveFrame
    <2>10. held' \in Evidence \cup {Nothing} /\ (held' # Nothing => held'.owner \in 1 .. owner')
        BY <2>6, <2>7, <2>8, <2>9 DEF Types
    <2> QED
        BY <2>3, <2>4, <2>5, <2>9, <2>10 DEF Types
<1>6. ASSUME NEW k \in Keys, NEW e \in Epochs, NEW q \in SeqNums, RejectReplay(k, e, q)
      PROVE  Types'
    BY <1>6 DEF RejectReplay, table, Types
<1>7. ASSUME NEW i \in Iids, Persist(i)
      PROVE  Types'
    <2>1. i \in Configured /\ peers[i].key \in Tracked
        BY <1>7 DEF Persist
    <2>2. replay[peers[i].key] \in State
        BY <2>1 DEF Tracked, Types
    <2> DEFINE r == [key |-> peers[i].key, serial |-> peers[i].serial, next |-> serial,
                     state |-> replay[peers[i].key], accepted |-> accepted[peers[i].key]]
    <2>3. r \in Records
        BY <2>1, <2>2, PeerType DEF Records, Types
    <2>4. r # Nothing
        BY <2>3, MissingAssumption
    <2>5. disk' = [disk EXCEPT ![i] = r] /\ known' = known \cup {i}
          /\ UNCHANGED <<owner, dropped, peers, pinned, replay, accepted, serial, gens, held>>
        BY <1>7 DEF Persist, table, windows
    <2> HIDE DEF r
    <2>6. disk' \in [Iids -> Records \cup {Nothing}]
          /\ known' \in SUBSET {j \in Iids : disk'[j] # Nothing}
        BY <2>3, <2>4, <2>5 DEF Types
    <2> QED
        BY <2>5, <2>6 DEF Types
<1>8. ASSUME NEW i \in Iids, Restore(i)
      PROVE  Types'
    <2> DEFINE r == disk[i]
    <2>1. r \in Records /\ r # Nothing
        BY <1>8 DEF Restore, Types
    <2>2. r.key \in Keys /\ r.serial \in Nat /\ r.next \in Nat /\ r.state \in State
          /\ r.accepted \in SUBSET (Epochs \X SeqNums)
        BY <2>1 DEF Records
    <2>3. /\ gens' = gens + 1
          /\ serial' = NextSerial(r.next)
          /\ peers' = [peers EXCEPT ![i] = [key |-> r.key, gen |-> gens + 1, serial |-> r.serial]]
          /\ pinned' = [pinned EXCEPT ![i] = r.key]
          /\ replay' = [replay EXCEPT ![r.key] = r.state]
          /\ accepted' = [accepted EXCEPT ![r.key] = r.accepted]
          /\ known' = known \cup {i}
          /\ UNCHANGED <<owner, dropped, held, disk>>
        BY <1>8 DEF Restore
    <2>4. known' \in SUBSET {j \in Iids : disk[j] # Nothing}
        BY <2>1, <2>3 DEF Types
    <2> HIDE DEF r
    <2>5. peers' \in [Iids -> Peers \cup {NoPeer}]
        BY <2>2, <2>3 DEF Types, Peers
    <2>6. serial' \in Nat /\ gens' \in Nat
        BY <2>2, <2>3 DEF Types, NextSerial
    <2> QED
        BY <2>2, <2>3, <2>4, <2>5, <2>6 DEF Types
<1>9. CASE Restart
    <2>1. UNCHANGED <<gens, disk>> /\ known' = {} /\ serial' = 1
          /\ owner' = owner + 1 /\ dropped' = dropped \cup {owner}
          /\ held' \in {held, Nothing}
          /\ peers' = [i \in Iids |-> NoPeer] /\ pinned' = [i \in Iids |-> NoKey]
        BY <1>9 DEF Restart
    <2>2. Reset(Keys)
        BY <1>9 DEF Restart
    <2>3. owner' \in Nat /\ dropped' = 1 .. (owner' - 1) /\ 1 .. owner \subseteq 1 .. owner'
        BY <2>1 DEF Types
    <2> QED
        BY <2>1, <2>2, <2>3, ResetType DEF Types
<1>10. CASE UNCHANGED vars
    BY <1>10 DEF vars, table, windows, Types
<1> QED
    BY <1>1, <1>2, <1>3, <1>4, <1>5, <1>6, <1>7, <1>8, <1>9, <1>10
       DEF Next, RemovePeer, ForgetPeer, RejectSender

-----------------------------------------------------------------------------
(* What evict_if_needed makes of the order of accesses.                     *)

\* A table within its capacity evicts nobody.
LEMMA NoSurplus ==
    ASSUME NEW R, NEW ms, IsFiniteSet(ms), Cardinality(ms) <= MaxPeers
    PROVE  Surplus(R, ms) = {}
<1> SUFFICES ASSUME NEW x \in ms
             PROVE  ~ (Cardinality({y \in ms \ {x} : <<x, y>> \in R}) >= MaxPeers)
    BY DEF Surplus
<1> DEFINE later == {y \in ms \ {x} : <<x, y>> \in R}
<1>1. IsFiniteSet(ms \ {x}) /\ Cardinality(ms \ {x}) = Cardinality(ms) - 1
    BY FS_RemoveElement
<1>2. later \in SUBSET (ms \ {x})
    OBVIOUS
<1> HIDE DEF later
<1>3. IsFiniteSet(later) /\ Cardinality(later) <= Cardinality(ms \ {x})
    BY <1>1, <1>2, FS_Subset
<1>4. Cardinality(ms) \in Nat /\ Cardinality(later) \in Nat
    BY <1>3, FS_CardinalityType
<1>5. ~ (Cardinality(later) >= MaxPeers)
    BY <1>1, <1>3, <1>4, LinkLayerAssumption
<1> QED
    BY <1>5 DEF later

\* The member just accessed is not evicted.
LEMMA NewestStays ==
    ASSUME NEW R, NEW ms, NEW x, R \subseteq ms \X ms
    PROVE  x \notin Surplus(Touch(R, ms, x), ms \cup {x})
<1> DEFINE later == {y \in (ms \cup {x}) \ {x} : <<x, y>> \in Touch(R, ms, x)}
<1>1. later = {}
    BY TouchPairs
<1>2. Cardinality({}) = 0
    BY FS_EmptySet
<1>3. x \in Surplus(Touch(R, ms, x), ms \cup {x}) => Cardinality(later) >= MaxPeers
    BY DEF Surplus
<1> HIDE DEF later
<1> QED
    BY <1>1, <1>2, <1>3, LinkLayerAssumption

\* One member too many, and evict_if_needed brings the table to its capacity:
\* two members cannot both be followed by equally many others.
LEMMA SurplusCuts ==
    ASSUME NEW R, NEW ms, TotalOn(R, ms), IsFiniteSet(ms), Cardinality(ms) <= MaxPeers + 1
    PROVE  /\ IsFiniteSet(ms \ Surplus(R, ms))
           /\ Cardinality(ms \ Surplus(R, ms)) <= MaxPeers
<1> USE LinkLayerAssumption
<1> DEFINE later(x) == {y \in ms \ {x} : <<x, y>> \in R}
           sur == Surplus(R, ms)
<1>1. sur \in SUBSET ms /\ ms \ sur \in SUBSET ms
    BY DEF Surplus
<1>2. Cardinality(ms) \in Nat
    BY FS_CardinalityType
<1>3. /\ IsFiniteSet(ms \ sur) /\ Cardinality(ms \ sur) <= Cardinality(ms)
      /\ Cardinality(ms) = Cardinality(ms \ sur) => ms = ms \ sur
    BY <1>1, FS_Subset
<1>4. Cardinality(ms \ sur) \in Nat
    BY <1>3, FS_CardinalityType
<1>5. CASE sur # {}
    <2>1. ms # ms \ sur
        BY <1>1, <1>5
    <2> QED
        BY <1>2, <1>3, <1>4, <2>1
<1>6. CASE Cardinality(ms) <= MaxPeers
    BY <1>2, <1>3, <1>4, <1>6
<1>7. CASE sur = {} /\ Cardinality(ms) = MaxPeers + 1
    <2>1. ASSUME NEW x \in ms
          PROVE  IsFiniteSet(later(x)) /\ Cardinality(later(x)) \in 0 .. (MaxPeers - 1)
        <3>1. later(x) \in SUBSET ms
            OBVIOUS
        <3>2. IsFiniteSet(later(x))
            BY <3>1, FS_Subset
        <3>3. Cardinality(later(x)) \in Nat
            BY <3>2, FS_CardinalityType
        <3>4. ~ (Cardinality(later(x)) >= MaxPeers)
            BY <1>7, <2>1 DEF Surplus
        <3> QED
            BY <3>2, <3>3, <3>4
    <2> DEFINE f == [x \in ms |-> Cardinality(later(x))]
    <2>2. f \in [ms -> 0 .. (MaxPeers - 1)]
        BY <2>1
    <2>3. IsFiniteSet(0 .. (MaxPeers - 1)) /\ Cardinality(0 .. (MaxPeers - 1)) = MaxPeers
        BY FS_Interval
    <2>4. Cardinality(0 .. (MaxPeers - 1)) < Cardinality(ms)
        BY <1>7, <2>3
    <2> HIDE DEF f
    <2>5. PICK x, y \in ms : x # y /\ f[x] = f[y]
        BY <2>2, <2>3, <2>4, FS_PigeonHole
    <2>6. ASSUME NEW a \in ms, NEW b \in ms, <<a, b>> \in R
          PROVE  Cardinality(later(a)) # Cardinality(later(b))
        <3>1. later(b) \in SUBSET later(a)
            BY <2>6 DEF TotalOn
        <3>2. b \in later(a) /\ b \notin later(b)
            BY <2>6 DEF TotalOn
        <3>3. IsFiniteSet(later(a))
            BY <2>1
        <3> HIDE DEF later
        <3> QED
            BY <3>1, <3>2, <3>3, FS_Subset
    <2>7. Cardinality(later(x)) = Cardinality(later(y))
        BY <2>5 DEF f
    <2>8. <<x, y>> \in R \/ <<y, x>> \in R
        BY <2>5 DEF TotalOn
    <2> HIDE DEF later
    <2> QED
        BY <2>6, <2>7, <2>8
<1> QED
    BY <1>2, <1>5, <1>6, <1>7

-----------------------------------------------------------------------------
(* The peer table and the replay table.                                     *)

\* An entry sits at its key's identifier, only entries have pins, and the
\* accesses are ordered.
PeersPlaced ==
    /\ \A i \in Configured : IidOf[peers[i].key] = i
    /\ \A i \in Iids : pinned[i] # NoKey => i \in Configured
    /\ TotalOn(order, Configured)

\* evict_if_needed keeps the table within its capacity.
PeersBounded == IsFiniteSet(Configured) /\ Cardinality(Configured) <= MaxPeers

\* A replay window belongs to a configured key: the two tables are separate
\* and have separate capacities, and the windows go when their peers go.
WindowsOfPeers ==
    \A k \in Tracked : IidOf[k] \in Configured /\ peers[IidOf[k]].key = k

\* A committed record is stored under its key's identifier.
RecordsPlaced == \A i \in Iids : disk[i] # Nothing => IidOf[disk[i].key] = i

TableInv == PeersPlaced /\ PeersBounded /\ WindowsOfPeers /\ RecordsPlaced

\* The empty tables satisfy it.
LEMMA TableInit == Init => TableInv
<1> SUFFICES ASSUME Init
             PROVE  TableInv
    OBVIOUS
<1>1. Configured = {} /\ Tracked = {} /\ order = {}
    BY DEF Init, Configured, Tracked
<1>2. IsFiniteSet({}) /\ Cardinality({}) = 0
    BY FS_EmptySet
<1>3. \A i \in Iids : pinned[i] = NoKey /\ disk[i] = Nothing
    BY DEF Init
<1> QED
    BY <1>1, <1>2, <1>3, LinkLayerAssumption
       DEF TableInv, PeersPlaced, PeersBounded, WindowsOfPeers, RecordsPlaced, TotalOn

\* A new peer: its entry at i, and of the others those not evicted.
LEMMA InstallKeeps ==
    ASSUME Types, TableInv, NEW k \in Keys, InstallPeer(k)
    PROVE  /\ TableInv'
           /\ Configured' = (Configured \cup {IidOf[k]})
                                \ Surplus(Touch(order, Configured, IidOf[k]), Configured \cup {IidOf[k]})
<1> USE LinkLayerAssumption
<1> DEFINE i == IidOf[k]
           replaced == {i} \cap Configured
           used == Touch(order, Configured, i)
           evicted == Surplus(used, Configured \cup {i})
           gone == {peers[j] : j \in replaced \cup evicted}
<1>1. /\ peers' = [j \in Iids |-> IF j = i THEN NewPeer(k)
                                  ELSE IF j \in evicted THEN NoPeer ELSE peers[j]]
      /\ order' = Without(used, evicted)
      /\ pinned' = [j \in Iids |-> IF j \in evicted THEN NoKey ELSE pinned[j]]
      /\ Reset({p.key : p \in gone})
      /\ disk' = disk
    BY DEF InstallPeer
<1>2. i \in Iids /\ Configured \subseteq Iids
    BY DEF Configured
<1>3. TotalOn(used, Configured \cup {i})
    BY TouchTotal DEF TableInv, PeersPlaced
<1>4. i \notin evicted
    BY NewestStays DEF TableInv, PeersPlaced, TotalOn
<1>5. evicted \subseteq Configured \cup {i}
    BY DEF Surplus
<1>6. NewPeer(k) \in Peers /\ NewPeer(k).key = k /\ NewPeer(k) # NoPeer
    BY MissingAssumption DEF NewPeer, Peers, Types
<1> HIDE DEF used, evicted
<1>7. Configured' = (Configured \cup {i}) \ evicted
    BY <1>1, <1>2, <1>4, <1>6 DEF Configured
<1>8. \A j \in Configured' : IidOf[peers'[j].key] = j
    BY <1>1, <1>2, <1>6, <1>7 DEF TableInv, PeersPlaced
<1>9. \A j \in Iids : pinned'[j] # NoKey => j \in Configured'
    BY <1>1, <1>7 DEF TableInv, PeersPlaced
<1>10. TotalOn(order', Configured')
    BY <1>1, <1>3, <1>7, WithoutTotal
<1>11. PeersBounded'
    <2>1. IsFiniteSet(Configured) /\ Cardinality(Configured) \in Nat
          /\ Cardinality(Configured) <= MaxPeers
        BY FS_CardinalityType DEF TableInv, PeersBounded
    <2> HIDE DEF i
    <2>2. /\ IsFiniteSet(Configured \cup {i})
          /\ Cardinality(Configured \cup {i}) =
                 IF i \in Configured THEN Cardinality(Configured) ELSE Cardinality(Configured) + 1
        BY <2>1, FS_AddElement
    <2>3. IsFiniteSet(Configured \cup {i}) /\ Cardinality(Configured \cup {i}) <= MaxPeers + 1
        BY <2>1, <2>2
    <2>4. IsFiniteSet((Configured \cup {i}) \ evicted)
          /\ Cardinality((Configured \cup {i}) \ evicted) <= MaxPeers
        BY <1>3, <2>3, SurplusCuts DEF evicted
    <2> QED
        BY <1>7, <2>4 DEF PeersBounded
<1>12. WindowsOfPeers'
    <2> SUFFICES ASSUME NEW x \in Tracked'
                 PROVE  IidOf[x] \in Configured' /\ peers'[IidOf[x]].key = x
        BY DEF WindowsOfPeers
    <2>1. x \in Keys /\ x \in Tracked /\ x \notin {p.key : p \in gone}
        BY <1>1 DEF Tracked, Reset
    <2>2. IidOf[x] \in Configured /\ peers[IidOf[x]].key = x
        BY <2>1 DEF TableInv, WindowsOfPeers
    <2>3. IidOf[x] # i /\ IidOf[x] \notin evicted
        BY <2>1, <2>2
    <2> QED
        BY <1>1, <1>2, <1>7, <2>2, <2>3
<1> QED
    BY <1>1, <1>7, <1>8, <1>9, <1>10, <1>11, <1>12
       DEF TableInv, PeersPlaced, RecordsPlaced, used, evicted

\* The windows of configured keys fit into their table: a frame that verifies
\* never evicts one.
LEMMA NoWindowEvicted ==
    ASSUME Types, TableInv, NEW k \in Keys, Verifies(k), NEW R
    PROVE  Surplus(R, Tracked \cup {k}) = {}
<1> USE LinkLayerAssumption
<1> DEFINE ms == Tracked \cup {k}
           f == [x \in ms |-> IidOf[x]]
<1>1. \A x \in ms : IidOf[x] \in Configured /\ peers[IidOf[x]].key = x
    BY DEF TableInv, WindowsOfPeers, Verifies
<1>2. f \in Injection(ms, Configured)
    BY <1>1 DEF Injection, IsInjective
<1> HIDE DEF f, ms
<1>3. IsFiniteSet(ms) /\ Cardinality(ms) <= Cardinality(Configured)
    BY <1>2, FS_Injection DEF TableInv, PeersBounded
<1>4. Cardinality(ms) \in Nat /\ Cardinality(Configured) \in Nat
      /\ Cardinality(Configured) <= MaxPeers
    BY <1>3, FS_CardinalityType DEF TableInv, PeersBounded
<1>5. Cardinality(ms) <= MaxPeers
    BY <1>3, <1>4
<1>6. Surplus(R, ms) = {}
    BY <1>3, <1>5, NoSurplus
<1> QED
    BY <1>6 DEF ms

\* Steps that leave the table, the windows and the records alone keep it.
LEMMA TableKept ==
    ASSUME TableInv, UNCHANGED <<peers, pinned, replay, disk>>,
           TotalOn(order', Configured)
    PROVE  TableInv'
BY DEF TableInv, PeersPlaced, PeersBounded, WindowsOfPeers, RecordsPlaced, Configured, Tracked

\* An access of a configured peer keeps the order.
LEMMA AccessKeeps ==
    ASSUME TableInv, NEW i \in Configured
    PROVE  TotalOn(Touch(order, Configured, i), Configured)
<1>1. Configured \cup {i} = Configured
    OBVIOUS
<1> QED
    BY <1>1, TouchTotal DEF TableInv, PeersPlaced

\* A peer that leaves takes its pin and its window with it.
LEMMA RetireKeeps ==
    ASSUME Types, TableInv, NEW i \in Iids, NEW ks, RetirePeer(i, ks), peers[i].key \in ks
    PROVE  TableInv' /\ Configured' = Configured \ {i}
<1>1. /\ peers' = [peers EXCEPT ![i] = NoPeer] /\ pinned' = [pinned EXCEPT ![i] = NoKey]
      /\ order' = Without(order, {i}) /\ Reset(ks) /\ disk' = disk /\ i \in Configured
    BY DEF RetirePeer
<1>2. Configured' = Configured \ {i}
    BY <1>1 DEF Configured, Types
<1>3. \A j \in Configured' : IidOf[peers'[j].key] = j
    BY <1>1, <1>2 DEF TableInv, PeersPlaced, Types, Configured
<1>4. \A j \in Iids : pinned'[j] # NoKey => j \in Configured'
    BY <1>1, <1>2 DEF TableInv, PeersPlaced, Types
<1>5. TotalOn(order', Configured')
    BY <1>1, <1>2, WithoutTotal DEF TableInv, PeersPlaced
<1>6. PeersBounded'
    <2>1. IsFiniteSet(Configured) /\ Cardinality(Configured) \in Nat
          /\ Cardinality(Configured) <= MaxPeers
        BY FS_CardinalityType DEF TableInv, PeersBounded
    <2>2. IsFiniteSet(Configured \ {i}) /\ Cardinality(Configured \ {i}) = Cardinality(Configured) - 1
        BY <1>1, <2>1, FS_RemoveElement
    <2> QED
        BY <1>2, <2>1, <2>2, LinkLayerAssumption DEF PeersBounded
<1>7. WindowsOfPeers'
    <2> SUFFICES ASSUME NEW x \in Tracked'
                 PROVE  IidOf[x] \in Configured' /\ peers'[IidOf[x]].key = x
        BY DEF WindowsOfPeers
    <2>1. x \in Keys /\ x \in Tracked /\ x \notin ks
        BY <1>1 DEF Tracked, Reset
    <2>2. IidOf[x] \in Configured /\ peers[IidOf[x]].key = x
        BY <2>1 DEF TableInv, WindowsOfPeers
    <2>3. IidOf[x] # i
        BY <2>1, <2>2
    <2> QED
        BY <1>1, <1>2, <2>2, <2>3 DEF Types, Configured
<1> QED
    BY <1>1, <1>2, <1>3, <1>4, <1>5, <1>6, <1>7 DEF TableInv, PeersPlaced, RecordsPlaced

\* A restored peer fits: the Conflict checks saw room in both tables.
LEMMA RestoreKeeps ==
    ASSUME Types, TableInv, NEW i \in Iids, Restore(i)
    PROVE  TableInv' /\ Configured' = Configured \cup {i}
<1> DEFINE r == disk[i]
<1>1. /\ r # Nothing /\ Cardinality(Configured) < MaxPeers /\ i \notin Configured
      /\ peers' = [peers EXCEPT ![i] = [key |-> r.key, gen |-> gens + 1, serial |-> r.serial]]
      /\ pinned' = [pinned EXCEPT ![i] = r.key]
      /\ order' = Touch(order, Configured, i)
      /\ replay' = [replay EXCEPT ![r.key] = r.state]
      /\ disk' = disk
    BY DEF Restore
<1>2. r.key \in Keys /\ r.serial \in Nat /\ IidOf[r.key] = i
    BY <1>1 DEF Types, Records, TableInv, RecordsPlaced
<1>3. [key |-> r.key, gen |-> gens + 1, serial |-> r.serial] \in Peers
    BY <1>2 DEF Peers, Types
<1>4. peers'[i] # NoPeer /\ peers'[i].key = r.key /\ \A j \in Iids \ {i} : peers'[j] = peers[j]
    BY <1>1, <1>3, MissingAssumption DEF Types
<1> HIDE DEF r
<1>5. Configured' = Configured \cup {i}
    BY <1>4 DEF Configured
<1>6. \A j \in Configured' : IidOf[peers'[j].key] = j
    BY <1>2, <1>4, <1>5 DEF TableInv, PeersPlaced, Configured
<1>7. \A j \in Iids : pinned'[j] # NoKey => j \in Configured'
    BY <1>1, <1>5 DEF TableInv, PeersPlaced, Types
<1>8. TotalOn(order', Configured')
    BY <1>1, <1>5, TouchTotal DEF TableInv, PeersPlaced
<1>9. PeersBounded'
    <2>1. IsFiniteSet(Configured) /\ Cardinality(Configured) \in Nat
        BY FS_CardinalityType DEF TableInv, PeersBounded
    <2>2. IsFiniteSet(Configured \cup {i}) /\ Cardinality(Configured \cup {i}) = Cardinality(Configured) + 1
        BY <1>1, <2>1, FS_AddElement
    <2> QED
        BY <1>1, <1>5, <2>1, <2>2, LinkLayerAssumption DEF PeersBounded
<1>10. WindowsOfPeers'
    <2> SUFFICES ASSUME NEW x \in Tracked'
                 PROVE  IidOf[x] \in Configured' /\ peers'[IidOf[x]].key = x
        BY DEF WindowsOfPeers
    <2>1. CASE x = r.key
        BY <1>2, <1>4, <1>5, <2>1
    <2>2. CASE x # r.key
        <3>1. x \in Tracked
            BY <1>1, <2>2 DEF Tracked, Types
        <3>2. IidOf[x] \in Configured /\ peers[IidOf[x]].key = x
            BY <3>1 DEF TableInv, WindowsOfPeers
        <3> QED
            BY <1>1, <1>4, <1>5, <3>2 DEF Configured
    <2> QED
        BY <2>1, <2>2
<1> QED
    BY <1>1, <1>5, <1>6, <1>7, <1>8, <1>9, <1>10 DEF TableInv, PeersPlaced, RecordsPlaced

\* A frame accepted evicts no window, so it only moves its sender's.
LEMMA ReceiveMoves ==
    ASSUME Types, TableInv, NEW k \in Keys, NEW e, NEW q, ReceiveFrame(k, e, q)
    PROVE  /\ replay' = [replay EXCEPT ![k] = Advance(replay[k], e, q)]
           /\ IidOf[k] \in Configured /\ peers[IidOf[k]].key = k
<1>1. Verifies(k)
    BY DEF ReceiveFrame
<1>2. Surplus(Touch(lru, Tracked, k), Tracked \cup {k}) = {}
    BY <1>1, NoWindowEvicted
<1>3. replay' = [x \in Keys |-> IF x = k THEN Advance(replay[k], e, q) ELSE replay[x]]
    BY <1>2 DEF ReceiveFrame
<1> QED
    BY <1>1, <1>3 DEF Types, Verifies

\* Every step keeps the tables.
LEMMA TableStep ==
    ASSUME Types, TableInv, [Next]_vars
    PROVE  TableInv'
<1> USE LinkLayerAssumption
<1>0. TotalOn(order, Configured)
    BY DEF TableInv, PeersPlaced
<1>1. ASSUME NEW k \in Keys, RefreshPeer(k)
      PROVE  TableInv'
    <2>1. UNCHANGED <<peers, pinned, replay, disk>> /\ IidOf[k] \in Configured
          /\ order' = Touch(order, Configured, IidOf[k])
        BY <1>1 DEF RefreshPeer, windows
    <2> QED
        BY <2>1, AccessKeeps, TableKept
<1>2. ASSUME NEW k \in Keys, InstallPeer(k)
      PROVE  TableInv'
    BY <1>2, InstallKeeps
<1>3. ASSUME NEW i \in Iids, UnpinPeer(i)
      PROVE  TableInv'
    <2>1. /\ i \in Configured /\ UNCHANGED <<order, replay, disk>>
          /\ pinned' = [pinned EXCEPT ![i] = NoKey]
          /\ peers' = [peers EXCEPT ![i] = NewPeer(peers[i].key)]
        BY <1>3 DEF UnpinPeer, windows
    <2>2. NewPeer(peers[i].key) # NoPeer /\ NewPeer(peers[i].key).key = peers[i].key
        BY <2>1, PeerType, MissingAssumption DEF NewPeer, Peers, Types
    <2>3. \A j \in Iids : /\ peers'[j] # NoPeer <=> peers[j] # NoPeer
                          /\ peers[j] # NoPeer => peers'[j].key = peers[j].key
        BY <2>1, <2>2 DEF Types, Configured
    <2>4. Configured' = Configured /\ Tracked' = Tracked
        BY <2>1, <2>3 DEF Configured, Tracked
    <2>5. \A j \in Configured : peers'[j].key = peers[j].key
        BY <2>3 DEF Configured
    <2>6. \A j \in Iids : pinned'[j] # NoKey => j \in Configured
        BY <2>1 DEF TableInv, PeersPlaced, Types
    <2> QED
        BY <2>1, <2>4, <2>5, <2>6
           DEF TableInv, PeersPlaced, PeersBounded, WindowsOfPeers, RecordsPlaced
<1>4. ASSUME NEW i \in Iids, RemovePeer(i) \/ ForgetPeer(i)
      PROVE  TableInv'
    <2>1. PICK ks : RetirePeer(i, ks) /\ peers[i].key \in ks
        <3>1. CASE RemovePeer(i)
            BY <3>1 DEF RemovePeer
        <3>2. CASE ForgetPeer(i)
            <4>1. i \in Configured
                BY <3>2 DEF ForgetPeer, RetirePeer
            <4>2. peers[i].key # NoKey
                BY <4>1, PeerType, MissingAssumption
            <4> QED
                BY <3>2, <4>2 DEF ForgetPeer
        <3> QED
            BY <1>4, <3>1, <3>2
    <2> QED
        BY <2>1, RetireKeeps
<1>5. ASSUME NEW k \in Keys, NEW e \in Epochs, NEW q \in SeqNums, ReceiveFrame(k, e, q)
      PROVE  TableInv'
    <2>1. /\ replay' = [replay EXCEPT ![k] = Advance(replay[k], e, q)]
          /\ IidOf[k] \in Configured /\ peers[IidOf[k]].key = k
        BY <1>5, ReceiveMoves
    <2>2. /\ order' = Touch(order, Configured, IidOf[k])
          /\ pinned' = [pinned EXCEPT ![IidOf[k]] = k]
          /\ UNCHANGED <<peers, disk>>
        BY <1>5 DEF ReceiveFrame
    <2>3. Configured' = Configured /\ Tracked' \subseteq Tracked \cup {k}
        BY <2>1, <2>2 DEF Configured, Tracked, Types
    <2>4. TotalOn(order', Configured)
        BY <2>1, <2>2, AccessKeeps
    <2>5. \A j \in Iids : pinned'[j] # NoKey => j \in Configured
        BY <2>1, <2>2 DEF TableInv, PeersPlaced, Types
    <2> QED
        BY <2>1, <2>2, <2>3, <2>4, <2>5
           DEF TableInv, PeersPlaced, PeersBounded, WindowsOfPeers, RecordsPlaced
<1>6. ASSUME NEW k \in Keys, NEW e \in Epochs, NEW q \in SeqNums, RejectReplay(k, e, q)
      PROVE  TableInv'
    BY <1>0, <1>6, TableKept DEF RejectReplay, table
<1>7. ASSUME NEW i \in Iids, Persist(i)
      PROVE  TableInv'
    <2>1. /\ i \in Configured /\ UNCHANGED <<peers, order, pinned, replay>>
          /\ disk' = [disk EXCEPT ![i] =
                         [key |-> peers[i].key, serial |-> peers[i].serial, next |-> serial,
                          state |-> replay[peers[i].key], accepted |-> accepted[peers[i].key]]]
        BY <1>7 DEF Persist, table, windows
    <2>2. disk'[i].key = peers[i].key /\ \A j \in Iids \ {i} : disk'[j] = disk[j]
        BY <2>1 DEF Types
    <2>3. RecordsPlaced'
        BY <2>1, <2>2 DEF TableInv, RecordsPlaced, PeersPlaced
    <2> QED
        BY <2>1, <2>3
           DEF TableInv, PeersPlaced, PeersBounded, WindowsOfPeers, Configured, Tracked
<1>8. ASSUME NEW i \in Iids, Restore(i)
      PROVE  TableInv'
    BY <1>8, RestoreKeeps
<1>9. CASE Restart
    <2>1. peers' = [i \in Iids |-> NoPeer] /\ order' = {} /\ disk' = disk
          /\ pinned' = [i \in Iids |-> NoKey]
        BY <1>9 DEF Restart
    <2>2. Reset(Keys)
        BY <1>9 DEF Restart
    <2>3. Configured' = {} /\ Tracked' = {}
        BY <2>1, <2>2 DEF Configured, Tracked, Reset
    <2>4. IsFiniteSet({}) /\ Cardinality({}) = 0
        BY FS_EmptySet
    <2> QED
        BY <2>1, <2>3, <2>4
           DEF TableInv, PeersPlaced, PeersBounded, WindowsOfPeers, RecordsPlaced, TotalOn
<1>10. CASE UNCHANGED vars
    BY <1>0, <1>10, TableKept DEF vars, table, windows
<1> QED
    BY <1>1, <1>2, <1>3, <1>4, <1>5, <1>6, <1>7, <1>8, <1>9, <1>10 DEF Next, RejectSender

-----------------------------------------------------------------------------
(* Durable generations.                                                     *)

\* What a record carries over a restart: its serial is below the next one its
\* writer would have allocated, and the instance that wrote or restored it
\* allocates from there on.
SerialsInv ==
    /\ DurableSerialsFresh
    /\ \A i \in Iids : disk[i] # Nothing => disk[i].serial < disk[i].next
    /\ \A i \in known : disk[i].next <= serial

\* Nothing is configured or known at first.
LEMMA SerialsInit == Init => SerialsInv
BY DEF Init, SerialsInv, DurableSerialsFresh, Configured

\* A step that writes no record and whose peers have the serials of former
\* peers, or the one just allocated, keeps the serials fresh.
LEMMA SerialsKept ==
    ASSUME Types, Types', SerialsInv, disk' = disk, known' \subseteq known,
           serial' \in {serial, serial + 1},
           \A i \in Configured' :
               \/ i \in Configured /\ peers'[i].serial = peers[i].serial
               \/ peers'[i].serial = serial /\ serial' = serial + 1
    PROVE  SerialsInv'
<1>1. \A i \in Configured : peers[i].serial \in Nat /\ peers[i].serial < serial
    BY PeerType DEF SerialsInv, DurableSerialsFresh
<1>2. \A i \in known : disk[i].serial \in Nat /\ disk[i].next \in Nat
    BY DEF Types, Records
<1>3. serial \in Nat
    BY DEF Types
<1> QED
    BY <1>1, <1>2, <1>3 DEF SerialsInv, DurableSerialsFresh

\* Every step keeps the serials fresh.
LEMMA SerialsStep ==
    ASSUME Types, Types', TableInv, SerialsInv, [Next]_vars
    PROVE  SerialsInv'
<1> USE LinkLayerAssumption
<1>1. ASSUME UNCHANGED <<peers, disk, known, serial>>
      PROVE  SerialsInv'
    BY <1>1 DEF SerialsInv, DurableSerialsFresh, Configured
<1>2. ASSUME NEW k \in Keys, InstallPeer(k)
      PROVE  SerialsInv'
    <2>1. UNCHANGED <<disk, known>> /\ serial' = serial + 1
        BY <1>2 DEF InstallPeer, Allocate
    <2>2. \A i \in Iids : peers'[i] \in {NewPeer(k), NoPeer, peers[i]}
        BY <1>2 DEF InstallPeer
    <2>3. NewPeer(k).serial = serial
        BY DEF NewPeer
    <2>4. \A i \in Configured' :
              \/ i \in Configured /\ peers'[i].serial = peers[i].serial
              \/ peers'[i].serial = serial /\ serial' = serial + 1
        BY <2>1, <2>2, <2>3 DEF Configured
    <2> QED
        BY <2>1, <2>4, SerialsKept
<1>3. ASSUME NEW i \in Iids, UnpinPeer(i)
      PROVE  SerialsInv'
    <2>1. UNCHANGED <<disk, known>> /\ serial' = serial + 1 /\ i \in Configured
          /\ peers' = [peers EXCEPT ![i] = NewPeer(peers[i].key)]
        BY <1>3 DEF UnpinPeer, Allocate
    <2>2. NewPeer(peers[i].key).serial = serial
        BY DEF NewPeer
    <2>3. \A j \in Configured' :
              \/ j \in Configured /\ peers'[j].serial = peers[j].serial
              \/ peers'[j].serial = serial /\ serial' = serial + 1
        BY <2>1, <2>2 DEF Configured, Types
    <2> QED
        BY <2>1, <2>3, SerialsKept
<1>4. ASSUME NEW i \in Iids, NEW ks, RetirePeer(i, ks)
      PROVE  SerialsInv'
    <2>1. UNCHANGED <<disk, known, serial>> /\ peers' = [peers EXCEPT ![i] = NoPeer]
        BY <1>4 DEF RetirePeer
    <2>2. \A j \in Configured' : j \in Configured /\ peers'[j].serial = peers[j].serial
        BY <2>1 DEF Configured, Types
    <2> QED
        BY <2>1, <2>2, SerialsKept
<1>5. ASSUME NEW i \in Iids, Persist(i)
      PROVE  SerialsInv'
    <2>1. /\ i \in Configured /\ UNCHANGED <<peers, serial>> /\ known' = known \cup {i}
          /\ disk' = [disk EXCEPT ![i] =
                         [key |-> peers[i].key, serial |-> peers[i].serial, next |-> serial,
                          state |-> replay[peers[i].key], accepted |-> accepted[peers[i].key]]]
        BY <1>5 DEF Persist, table
    <2>2. /\ disk'[i].serial = peers[i].serial /\ disk'[i].next = serial
          /\ \A j \in Iids \ {i} : disk'[j] = disk[j]
        BY <2>1 DEF Types
    <2>3. peers[i].serial < serial /\ serial \in Nat
        BY <2>1 DEF SerialsInv, DurableSerialsFresh, Types
    <2>4. known \subseteq Iids /\ Configured' = Configured
        BY <2>1 DEF Types, Configured
    <2> QED
        BY <2>1, <2>2, <2>3, <2>4 DEF SerialsInv, DurableSerialsFresh
<1>6. ASSUME NEW i \in Iids, Restore(i)
      PROVE  SerialsInv'
    <2> DEFINE r == disk[i]
    <2>1. /\ r # Nothing /\ UNCHANGED disk /\ known' = known \cup {i}
          /\ peers' = [peers EXCEPT ![i] = [key |-> r.key, gen |-> gens + 1, serial |-> r.serial]]
          /\ serial' = NextSerial(r.next)
        BY <1>6 DEF Restore
    <2>2. r.serial < r.next /\ r.serial \in Nat /\ r.next \in Nat /\ serial \in Nat
        BY <2>1 DEF SerialsInv, Types, Records
    <2>3. serial' \in Nat /\ serial' >= serial /\ serial' >= r.next
        BY <2>1, <2>2 DEF NextSerial
    <2>4. \A j \in known : disk[j].serial \in Nat /\ disk[j].next \in Nat
                         /\ disk[j].serial < serial /\ disk[j].next <= serial
        BY DEF Types, Records, SerialsInv, DurableSerialsFresh
    <2>5. \A j \in known' : disk[j].serial < serial' /\ disk[j].next <= serial'
        BY <2>1, <2>2, <2>3, <2>4
    <2>6. \A j \in Configured : peers[j].serial \in Nat /\ peers[j].serial < serial
        BY PeerType DEF SerialsInv, DurableSerialsFresh
    <2>7. /\ peers'[i].serial = r.serial
          /\ \A j \in Configured' \ {i} : j \in Configured /\ peers'[j] = peers[j]
        BY <2>1 DEF Configured, Types
    <2>8. \A j \in Configured' : peers'[j].serial < serial'
        BY <2>2, <2>3, <2>6, <2>7
    <2> QED
        BY <2>1, <2>5, <2>8 DEF SerialsInv, DurableSerialsFresh
<1>7. CASE Restart
    <2>1. peers' = [i \in Iids |-> NoPeer] /\ disk' = disk /\ known' = {}
        BY <1>7 DEF Restart
    <2>2. Configured' = {}
        BY <2>1 DEF Configured
    <2> QED
        BY <2>1, <2>2 DEF SerialsInv, DurableSerialsFresh
<1> QED
    BY <1>1, <1>2, <1>3, <1>4, <1>5, <1>6, <1>7
       DEF Next, vars, table, RefreshPeer, RemovePeer, ForgetPeer, ReceiveFrame, RejectReplay,
           RejectSender

-----------------------------------------------------------------------------
(* Replay windows over evictions and restarts.                              *)

\* What a record remembers as accepted is a replay for the window it carries.
RecordsReplay ==
    \A i \in Iids : disk[i] # Nothing =>
        \A t \in disk[i].accepted : ~Fresh(disk[i].state, t[1], t[2])

ReplayInv == AcceptedOnce /\ RecordsReplay

\* Nothing has been accepted at first.
LEMMA ReplayInit == Init => ReplayInv
BY DEF Init, ReplayInv, AcceptedOnce, RecordsReplay

\* A window that is reset forgets its frames together with their history.
LEMMA ResetReplays ==
    ASSUME Types, ReplayInv, NEW ks, Reset(ks), disk' = disk
    PROVE  ReplayInv'
BY DEF Types, ReplayInv, AcceptedOnce, RecordsReplay, Reset

\* An accepted frame becomes a replay, and no replay of its sender's window
\* becomes fresh.
LEMMA ReceiveReplays ==
    ASSUME Types, TableInv, ReplayInv,
           NEW k \in Keys, NEW e \in Epochs, NEW q \in SeqNums, ReceiveFrame(k, e, q)
    PROVE  ReplayInv'
<1>1. /\ replay' = [replay EXCEPT ![k] = Advance(replay[k], e, q)]
      /\ accepted' = [accepted EXCEPT ![k] = @ \cup {<<e, q>>}]
      /\ disk' = disk /\ Fresh(replay[k], e, q)
    BY ReceiveMoves DEF ReceiveFrame
<1>2. replay[k] \in State \cup {NoReplay} /\ accepted[k] \in SUBSET (Epochs \X SeqNums)
    BY DEF Types
<1>3. ~Fresh(Advance(replay[k], e, q), e, q)
    BY <1>1, <1>2, AcceptedIsReplay
<1>4. ASSUME NEW t \in accepted[k]
      PROVE  ~Fresh(Advance(replay[k], e, q), t[1], t[2])
    <2>1. t[1] \in Epochs /\ t[2] \in SeqNums
        BY <1>2
    <2>2. ~Fresh(replay[k], t[1], t[2])
        BY DEF ReplayInv, AcceptedOnce
    <2>3. replay[k] \in State
        BY <1>2, <2>2 DEF Fresh
    <2> QED
        BY <1>1, <2>1, <2>2, <2>3, ReplayStaysReplay
<1>5. AcceptedOnce'
    <2> SUFFICES ASSUME NEW x \in Keys, NEW t \in accepted'[x]
                 PROVE  ~Fresh(replay'[x], t[1], t[2])
        BY DEF AcceptedOnce
    <2>1. CASE x = k
        <3>1. replay'[x] = Advance(replay[k], e, q) /\ accepted'[x] = accepted[k] \cup {<<e, q>>}
            BY <1>1, <2>1 DEF Types
        <3> QED
            BY <1>3, <1>4, <3>1
    <2>2. CASE x # k
        BY <1>1, <2>2 DEF Types, ReplayInv, AcceptedOnce
    <2> QED
        BY <2>1, <2>2
<1> QED
    BY <1>1, <1>5 DEF ReplayInv, RecordsReplay

\* Every step keeps accepted frames replays.
LEMMA ReplayStep ==
    ASSUME Types, TableInv, ReplayInv, [Next]_vars
    PROVE  ReplayInv'
<1>1. ASSUME UNCHANGED <<replay, accepted, disk>>
      PROVE  ReplayInv'
    BY <1>1 DEF ReplayInv, AcceptedOnce, RecordsReplay
<1>2. ASSUME NEW ks, Reset(ks), disk' = disk
      PROVE  ReplayInv'
    BY <1>2, ResetReplays
<1>3. ASSUME NEW k \in Keys, InstallPeer(k)
      PROVE  ReplayInv'
    BY <1>2, <1>3 DEF InstallPeer
<1>4. ASSUME NEW i \in Iids, NEW ks, RetirePeer(i, ks)
      PROVE  ReplayInv'
    BY <1>2, <1>4 DEF RetirePeer
<1>5. ASSUME NEW k \in Keys, NEW e \in Epochs, NEW q \in SeqNums, ReceiveFrame(k, e, q)
      PROVE  ReplayInv'
    BY <1>5, ReceiveReplays
<1>6. ASSUME NEW i \in Iids, Persist(i)
      PROVE  ReplayInv'
    <2> DEFINE r == [key |-> peers[i].key, serial |-> peers[i].serial, next |-> serial,
                     state |-> replay[peers[i].key], accepted |-> accepted[peers[i].key]]
    <2>1. i \in Configured /\ UNCHANGED <<replay, accepted>> /\ disk' = [disk EXCEPT ![i] = r]
        BY <1>6 DEF Persist, windows
    <2>2. peers[i].key \in Keys
        BY <2>1, PeerType
    <2>3. \A t \in r.accepted : ~Fresh(r.state, t[1], t[2])
        BY <2>2 DEF ReplayInv, AcceptedOnce
    <2> HIDE DEF r
    <2> QED
        BY <2>1, <2>3 DEF ReplayInv, AcceptedOnce, RecordsReplay, Types
<1>7. ASSUME NEW i \in Iids, Restore(i)
      PROVE  ReplayInv'
    <2> DEFINE r == disk[i]
    <2>1. /\ r # Nothing /\ UNCHANGED disk
          /\ replay' = [replay EXCEPT ![r.key] = r.state]
          /\ accepted' = [accepted EXCEPT ![r.key] = r.accepted]
        BY <1>7 DEF Restore
    <2>2. r.key \in Keys
        BY <2>1 DEF Types, Records
    <2>3. \A t \in r.accepted : ~Fresh(r.state, t[1], t[2])
        BY <2>1 DEF ReplayInv, RecordsReplay
    <2> HIDE DEF r
    <2> QED
        BY <2>1, <2>2, <2>3 DEF ReplayInv, AcceptedOnce, RecordsReplay, Types
<1>8. CASE Restart
    BY <1>2, <1>8 DEF Restart
<1> QED
    BY <1>1, <1>3, <1>4, <1>5, <1>6, <1>7, <1>8
       DEF Next, vars, windows, RefreshPeer, UnpinPeer, RemovePeer, ForgetPeer, RejectReplay,
           RejectSender

-----------------------------------------------------------------------------
(* Runtime generations and the evidence of an accepted frame.               *)

\* A configured peer's generation is its own and its flag is not set.
GensLive ==
    /\ retired \subseteq 1 .. gens
    /\ \A i \in Configured : peers[i].gen \in (1 .. gens) \ retired
    /\ \A i, j \in Configured : peers[i].gen = peers[j].gen => i = j

EvidenceInv == EvidenceAgrees /\ GensLive

\* No evidence is held at first.
LEMMA EvidenceInit == Init => EvidenceInv
BY DEF Init, EvidenceInv, EvidenceAgrees, GensLive, Configured

\* Evidence stays as current as the link says, when a step sets the flag of
\* the peer it changes and moves no other pin.
LEMMA EvidenceKept ==
    ASSUME Types, EvidenceAgrees, held' = held, owner' = owner, dropped' = dropped,
           retired \subseteq retired',
           \A i \in Configured : peers[i].gen \notin retired' =>
               /\ i \in Configured'
               /\ peers'[i] = peers[i]
               /\ pinned[i] # NoKey => pinned'[i] = pinned[i]
    PROVE  EvidenceAgrees'
<1> SUFFICES ASSUME held # Nothing, IsCurrent(held)'
             PROVE  AcceptsFrame(held)'
    BY DEF EvidenceAgrees, AcceptsFrame
<1>1. IsCurrent(held)
    BY DEF IsCurrent
<1>2. AcceptsFrame(held)
    BY <1>1 DEF EvidenceAgrees
<1> DEFINE i == IidOf[held.key]
<1>3. held.key \in Keys /\ held.key # NoKey
    BY MissingAssumption DEF Types, Evidence
<1>4. /\ i \in Configured /\ peers[i].gen = held.gen
      /\ pinned[i] = held.key
    BY <1>2 DEF AcceptsFrame
<1>5. peers[i].gen \notin retired'
    BY <1>4 DEF IsCurrent
<1>6. i \in Configured' /\ peers'[i] = peers[i] /\ pinned'[i] = pinned[i]
    BY <1>3, <1>4, <1>5
<1> QED
    BY <1>2, <1>6 DEF AcceptsFrame, IsCurrent

\* Setting the flags of the peers that leave sets no other peer's.
LEMMA GensKept ==
    ASSUME Types, GensLive, NEW left, left \subseteq Configured,
           retired' = retired \cup {peers[i].gen : i \in left},
           gens' \in {gens, gens + 1},
           \A i \in Configured' :
               \/ i \in Configured \ left /\ peers'[i] = peers[i]
               \/ peers'[i].gen = gens + 1 /\ gens' = gens + 1,
           \A i, j \in Configured' :
               (peers'[i].gen = gens + 1 /\ peers'[j].gen = gens + 1) => i = j
    PROVE  GensLive'
<1>1. gens \in Nat /\ 1 .. gens \subseteq 1 .. gens' /\ gens + 1 \notin 1 .. gens
    BY DEF Types
<1>2. retired' \subseteq 1 .. gens
    BY DEF GensLive
<1>3. \A i \in Configured \ left : peers[i].gen \in (1 .. gens) \ retired'
    BY DEF GensLive
<1>4. \A i \in Configured' : peers'[i].gen \in (1 .. gens') \ retired'
    BY <1>1, <1>2, <1>3
<1>5. ASSUME NEW i \in Configured', NEW j \in Configured', peers'[i].gen = peers'[j].gen
      PROVE  i = j
    <2>1. CASE peers'[i].gen = gens + 1
        BY <1>5, <2>1
    <2>2. CASE peers'[i].gen # gens + 1
        <3>1. peers'[j].gen # gens + 1
            BY <1>5, <2>2
        <3>2. i \in Configured /\ j \in Configured /\ peers'[i] = peers[i] /\ peers'[j] = peers[j]
            BY <2>2, <3>1
        <3> QED
            BY <1>5, <3>2 DEF GensLive
    <2> QED
        BY <2>1, <2>2
<1> QED
    BY <1>1, <1>2, <1>4, <1>5 DEF GensLive

\* add_peer: the flags of a replaced and of an evicted peer are set, and the
\* new peer's generation is its own.
LEMMA InstallEvidence ==
    ASSUME Types, TableInv, EvidenceInv, NEW k \in Keys, InstallPeer(k)
    PROVE  EvidenceInv'
<1> USE LinkLayerAssumption
<1> DEFINE i == IidOf[k]
           used == Touch(order, Configured, i)
           evicted == Surplus(used, Configured \cup {i})
           left == ({i} \cap Configured) \cup evicted
<1>1. /\ peers' = [j \in Iids |-> IF j = i THEN NewPeer(k)
                                  ELSE IF j \in evicted THEN NoPeer ELSE peers[j]]
      /\ pinned' = [j \in Iids |-> IF j \in evicted THEN NoKey ELSE pinned[j]]
      /\ retired' = retired \cup {p.gen : p \in {peers[j] : j \in left}}
      /\ UNCHANGED <<owner, dropped, held>>
      /\ gens' = gens + 1
    BY DEF InstallPeer, Allocate
<1>2. i \in Iids /\ Configured \subseteq Iids
    BY DEF Configured
<1>3. i \notin evicted
    BY NewestStays DEF TableInv, PeersPlaced, TotalOn
<1>4. Configured' = (Configured \cup {i}) \ evicted
    BY InstallKeeps
<1>5. NewPeer(k).gen = gens + 1
    BY DEF NewPeer
<1>6. evicted \subseteq Configured \cup {i}
    BY DEF Surplus
<1> HIDE DEF used, evicted
<1>7. left \subseteq Configured
    BY <1>3, <1>6
<1>8. retired' = retired \cup {peers[j].gen : j \in left}
    BY <1>1
<1>9. \A j \in Configured \ left : j \in Configured' /\ peers'[j] = peers[j] /\ pinned'[j] = pinned[j]
    BY <1>1, <1>2, <1>4
<1>10. \A j \in Configured' : j = i \/ (j \in Configured \ left /\ peers'[j] = peers[j])
    BY <1>1, <1>2, <1>4
<1>11. peers'[i].gen = gens + 1
    BY <1>1, <1>2, <1>5
<1> HIDE DEF left
<1>12. EvidenceAgrees'
    <2>1. \A j \in Configured : peers[j].gen \notin retired' => j \in Configured \ left
        BY <1>8
    <2> QED
        BY <1>1, <1>8, <1>9, <2>1, EvidenceKept DEF EvidenceInv
<1>13. GensLive'
    <2>1. \A j \in Configured : peers[j].gen # gens + 1
        BY DEF EvidenceInv, GensLive, Types
    <2>2. \A a, b \in Configured' :
              (peers'[a].gen = gens + 1 /\ peers'[b].gen = gens + 1) => a = b
        BY <1>10, <2>1
    <2> QED
        BY <1>1, <1>7, <1>8, <1>10, <1>11, <2>2, GensKept DEF EvidenceInv
<1> QED
    BY <1>12, <1>13 DEF EvidenceInv

\* unpin_peer, remove_peer and forget_peer: the flag of the peer is set.
LEMMA LeavingEvidence ==
    ASSUME Types, EvidenceInv, NEW i \in Configured,
           UNCHANGED <<owner, dropped, held>>,
           retired' = retired \cup {peers[i].gen},
           \A j \in Iids \ {i} : peers'[j] = peers[j] /\ pinned'[j] = pinned[j],
           \/ peers'[i] = NoPeer /\ gens' = gens
           \/ peers'[i].gen = gens + 1 /\ gens' = gens + 1
    PROVE  EvidenceInv'
<1>1. \A j \in Configured \ {i} : j \in Configured' /\ peers'[j] = peers[j] /\ pinned'[j] = pinned[j]
    BY DEF Configured
<1>2. \A j \in Configured' :
          \/ j \in Configured \ {i} /\ peers'[j] = peers[j]
          \/ j = i /\ peers'[j].gen = gens + 1 /\ gens' = gens + 1
    BY DEF Configured
<1>3. retired' = retired \cup {peers[j].gen : j \in {i}}
    OBVIOUS
<1>4. \A j \in Configured : peers[j].gen # gens + 1
    BY DEF EvidenceInv, GensLive, Types
<1>5. \A a, b \in Configured' :
          (peers'[a].gen = gens + 1 /\ peers'[b].gen = gens + 1) => a = b
    BY <1>2, <1>4
<1>6. GensLive'
    BY <1>2, <1>3, <1>5, GensKept DEF EvidenceInv
<1>7. EvidenceAgrees'
    BY <1>1, EvidenceKept DEF EvidenceInv
<1> QED
    BY <1>6, <1>7 DEF EvidenceInv

\* Every step keeps flags and link in agreement.
LEMMA EvidenceStep ==
    ASSUME Types, TableInv, EvidenceInv, [Next]_vars
    PROVE  EvidenceInv'
<1> USE LinkLayerAssumption
<1>1. ASSUME UNCHANGED <<owner, dropped, peers, pinned, gens, retired, held>>
      PROVE  EvidenceInv'
    BY <1>1 DEF EvidenceInv, EvidenceAgrees, GensLive, Configured, IsCurrent, AcceptsFrame
<1>2. ASSUME NEW k \in Keys, InstallPeer(k)
      PROVE  EvidenceInv'
    BY <1>2, InstallEvidence
<1>3. ASSUME NEW i \in Iids, UnpinPeer(i)
      PROVE  EvidenceInv'
    <2>1. /\ i \in Configured /\ UNCHANGED <<owner, dropped, held>>
          /\ retired' = retired \cup {peers[i].gen} /\ gens' = gens + 1
          /\ peers' = [peers EXCEPT ![i] = NewPeer(peers[i].key)]
          /\ pinned' = [pinned EXCEPT ![i] = NoKey]
        BY <1>3 DEF UnpinPeer, Allocate
    <2>2. peers'[i].gen = gens + 1
          /\ \A j \in Iids \ {i} : peers'[j] = peers[j] /\ pinned'[j] = pinned[j]
        BY <2>1 DEF Types, NewPeer
    <2> QED
        BY <2>1, <2>2, LeavingEvidence
<1>4. ASSUME NEW i \in Iids, NEW ks, RetirePeer(i, ks)
      PROVE  EvidenceInv'
    <2>1. /\ i \in Configured /\ UNCHANGED <<owner, dropped, held, gens>>
          /\ retired' = retired \cup {peers[i].gen}
          /\ peers' = [peers EXCEPT ![i] = NoPeer]
          /\ pinned' = [pinned EXCEPT ![i] = NoKey]
        BY <1>4 DEF RetirePeer
    <2>2. peers'[i] = NoPeer
          /\ \A j \in Iids \ {i} : peers'[j] = peers[j] /\ pinned'[j] = pinned[j]
        BY <2>1 DEF Types
    <2> QED
        BY <2>1, <2>2, LeavingEvidence
<1>5. ASSUME NEW k \in Keys, NEW e \in Epochs, NEW q \in SeqNums, ReceiveFrame(k, e, q)
      PROVE  EvidenceInv'
    <2> DEFINE i == IidOf[k]
               f == [key |-> k, epoch |-> e, seq |-> q, owner |-> owner,
                     gen |-> peers[i].gen, serial |-> peers[i].serial]
    <2>1. /\ i \in Configured /\ peers[i].key = k /\ pinned[i] \in {NoKey, k}
          /\ pinned' = [pinned EXCEPT ![i] = k]
          /\ held' \in {held, f}
          /\ UNCHANGED <<owner, dropped, peers, gens, retired>>
        BY <1>5 DEF ReceiveFrame, Verifies
    <2>2. Configured' = Configured
        BY <2>1 DEF Configured
    <2>3. pinned'[i] = k /\ \A j \in Iids \ {i} : pinned'[j] = pinned[j]
        BY <2>1 DEF Types, Configured
    <2>4. GensLive'
        BY <2>1, <2>2 DEF EvidenceInv, GensLive
    <2>5. CASE held' = held
        <3>1. \A j \in Configured : pinned[j] # NoKey => pinned'[j] = pinned[j]
            BY <2>1, <2>3 DEF Configured
        <3>2. EvidenceAgrees'
            BY <2>1, <2>2, <2>5, <3>1, EvidenceKept DEF EvidenceInv
        <3> QED
            BY <2>4, <3>2 DEF EvidenceInv
    <2>6. CASE held' = f
        <3>1. f.owner = owner /\ f.gen = peers[i].gen /\ f.key = k /\ f.serial = peers[i].serial
            OBVIOUS
        <3>2. f.owner \notin dropped /\ f.gen \notin retired
            BY <2>1, <3>1 DEF Types, EvidenceInv, GensLive
        <3>3. IsCurrent(held)' /\ AcceptsFrame(held)'
            BY <2>1, <2>2, <2>3, <2>6, <3>1, <3>2 DEF IsCurrent, AcceptsFrame
        <3> QED
            BY <2>4, <3>3 DEF EvidenceInv, EvidenceAgrees
    <2> QED
        BY <2>1, <2>5, <2>6
<1>6. ASSUME NEW i \in Iids, Restore(i)
      PROVE  EvidenceInv'
    <2> DEFINE r == disk[i]
    <2>1. /\ i \notin Configured /\ gens' = gens + 1
          /\ peers' = [peers EXCEPT ![i] = [key |-> r.key, gen |-> gens + 1, serial |-> r.serial]]
          /\ pinned' = [pinned EXCEPT ![i] = r.key]
          /\ UNCHANGED <<owner, dropped, retired, held>>
        BY <1>6 DEF Restore
    <2>2. Configured' = Configured \cup {i}
        BY <1>6, RestoreKeeps
    <2>3. /\ peers'[i].gen = gens + 1
          /\ \A j \in Configured : peers'[j] = peers[j] /\ pinned'[j] = pinned[j]
        BY <2>1 DEF Types, Configured
    <2>4. EvidenceAgrees'
        BY <2>1, <2>2, <2>3, EvidenceKept DEF EvidenceInv
    <2>5. \A j \in Configured : peers[j].gen # gens + 1
        BY DEF EvidenceInv, GensLive, Types
    <2>6. retired' = retired \cup {peers[j].gen : j \in {}}
        BY <2>1
    <2>7. \A a, b \in Configured' :
              (peers'[a].gen = gens + 1 /\ peers'[b].gen = gens + 1) => a = b
        BY <2>2, <2>3, <2>5
    <2> DEFINE none == {}
    <2>8. /\ none \subseteq Configured
          /\ retired' = retired \cup {peers[j].gen : j \in none}
          /\ \A j \in Configured' :
                 \/ j \in Configured \ none /\ peers'[j] = peers[j]
                 \/ peers'[j].gen = gens + 1 /\ gens' = gens + 1
        BY <2>1, <2>2, <2>3, <2>6
    <2> HIDE DEF none
    <2>9. GensLive'
        BY <2>1, <2>7, <2>8, GensKept DEF EvidenceInv
    <2> QED
        BY <2>4, <2>9 DEF EvidenceInv
<1>7. CASE Restart
    <2>1. /\ dropped' = dropped \cup {owner} /\ gens' = gens
          /\ retired' = retired \cup {peers[i].gen : i \in Configured}
          /\ peers' = [i \in Iids |-> NoPeer] /\ held' \in {held, Nothing}
        BY <1>7 DEF Restart
    <2>2. \A i \in Configured : peers[i].gen \in 1 .. gens
        BY DEF EvidenceInv, GensLive
    <2>3. retired \subseteq 1 .. gens
        BY DEF EvidenceInv, GensLive
    <2>4. Configured' = {}
        BY <2>1 DEF Configured
    <2>5. Configured' = {} /\ retired' \subseteq 1 .. gens'
        BY <2>1, <2>2, <2>3, <2>4
    <2>6. held' # Nothing => held'.owner \in dropped'
        BY <2>1 DEF Types
    <2> QED
        BY <2>5, <2>6 DEF EvidenceInv, EvidenceAgrees, GensLive, IsCurrent, AcceptsFrame
<1> QED
    BY <1>1, <1>2, <1>3, <1>4, <1>5, <1>6, <1>7
       DEF Next, vars, table, RefreshPeer, RemovePeer, ForgetPeer, RejectReplay, RejectSender,
           Persist

-----------------------------------------------------------------------------
(* The theorems.                                                            *)

LInv == Types /\ TableInv /\ SerialsInv /\ ReplayInv /\ EvidenceInv

\* The layers together are inductive.
LEMMA Invariance == Spec => []LInv
<1>1. Init => LInv
    BY TypesInit, TableInit, SerialsInit, ReplayInit, EvidenceInit DEF LInv
<1>2. LInv /\ [Next]_vars => LInv'
    BY TypesStep, TableStep, SerialsStep, ReplayStep, EvidenceStep DEF LInv
<1> QED
    BY <1>1, <1>2, PTL DEF Spec

\* A frame accepted once is refused until its peer is removed, for every table
\* size: the replay table never has to evict a window of a configured peer.
THEOREM NoFrameTwice == Spec => []AcceptedOnce
<1>1. LInv => AcceptedOnce
    BY DEF LInv, ReplayInv
<1> QED
    BY Invariance, <1>1, PTL

\* What the flags of a held AuthenticatedFrame say is what
\* accepts_authenticated_frame answers, over replaced, evicted, unpinned and
\* restored peers and over other instances of the link.
THEOREM FlagsAgree == Spec => []EvidenceAgrees
<1>1. LInv => EvidenceAgrees
    BY DEF LInv, EvidenceInv
<1> QED
    BY Invariance, <1>1, PTL

\* No durable generation is allocated twice among the configured peers and the
\* records this instance wrote or restored.
THEOREM SerialsFresh == Spec => []DurableSerialsFresh
<1>1. LInv => DurableSerialsFresh
    BY DEF LInv, SerialsInv
<1> QED
    BY Invariance, <1>1, PTL

\* The peer table stays within its capacity, every window is that of the
\* configured key of its identifier, and no configured peer's flag is set.
THEOREM TablesConsistent == Spec => [](PeersBounded /\ WindowsOfPeers /\ GensLive)
<1>1. LInv => PeersBounded /\ WindowsOfPeers /\ GensLive
    BY DEF LInv, TableInv, EvidenceInv
<1> QED
    BY Invariance, <1>1, PTL
-----------------------------------------------------------------------------

(***************************************************************************)
(* Fragmentation.                                                           *)
(***************************************************************************)

\* A packet: between two tiles and two windows of them.
IsPacket(p) ==
    /\ p \in Seq(Tiles) /\ Len(p) \in 2 .. 2 * WindowSize
    /\ NoTile \notin Tiles \cup {FragmentOf(p, Len(p) - 1)}

\* The buffer holds tiles of p, the opening one among them.
Fits(buf, p) ==
    /\ buf \in [tiles : [0 .. 2 * WindowSize - 1 -> Tiles \cup {NoTile}],
                all1 : {NoTile, FragmentOf(p, Len(p) - 1)}, attempts : Nat]
    /\ buf.tiles[0] # NoTile
    /\ \A i \in 0 .. 2 * WindowSize - 1 :
          buf.tiles[i] # NoTile => i < Len(p) - 1 /\ buf.tiles[i] = p[i + 1]

\* An answer that asks for tiles of p: never for the opening one, and, of the
\* final window, always for one.
Partial(p, m) ==
    \E w \in {0, 1}, map \in SUBSET Positions :
        /\ m = Ack(w, map, FALSE)
        /\ w = 0 => 0 \in map
        /\ w = FinalWindow(p) => ~(Assigned(p, w) \subseteq map)

\* The answer that p is complete.
Final(p) == Ack(FinalWindow(p), {}, TRUE)

\* p was handed to the receiver's caller.
Handed(dl, p) == \E i \in DOMAIN dl : dl[i] = p

\* The messages the receiver answers.
IsRequest(m) == m.kind \in {"all1", "ackreq"}

\* A message the sender of p may write.
OfPacket(p, m) == m = AckRequest \/ \E i \in 0 .. Len(p) - 1 : m = FragmentOf(p, i)

\* A message the receiver may send while p is on offer.
Answer(p, m, dl) == m = ReceiverAbort \/ Partial(p, m) \/ (m = Final(p) /\ Handed(dl, p))

\* The opening fragment is still to be written, or under way.
OpenerAhead(N, next) == next = 1 \/ \E f \in N : f.from = "a" /\ IsOpener(f.msg)

\* No two packets hold the same tiles.
Distinct == \A m, n \in DOMAIN Packets : Packets[m] = Packets[n] => m = n

\* What belongs together while p is on offer: the messages under way and still
\* to be written are of p, its opening fragment is written once, and so a
\* receiver that is open holds tiles of p and has not handed p over; an answer
\* that p is complete is given only when it has.
Session(p, N, next, out, buf, r, t, dl) ==
    /\ \A f \in N : f.from = "a" => OfPacket(p, f.msg)
    /\ \A f, g \in N :
          f.from = "a" /\ g.from = "a" /\ IsOpener(f.msg) /\ IsOpener(g.msg) => f = g
    /\ next = 1 => \A f \in N : f.from = "a" => ~IsOpener(f.msg)
    /\ out.missing \subseteq Assigned(p, out.win)
    /\ out.win = 0 => 0 \notin out.missing
    /\ r.left > 0 => ~OpenerAhead(N, next) /\ Fits(buf, p)
    /\ \A f \in N : f.from = "b" => Answer(p, f.msg, dl)
    /\ t.left > 0 =>
          \/ t.response \in {NoResponse, ReceiverAbort}
          \/ t.response = Final(p) /\ Handed(dl, p)
    /\ Distinct /\ (OpenerAhead(N, next) \/ r.left > 0) => ~Handed(dl, p)

\* How long the sender has not used its reservation, at least.
Quiet == IF sres = None THEN HoldDown - shold ELSE Inactivity - sres

\* Everything that is under way or open was caused by a use of the reservation
\* at least q ago.
InTime(N, r, t, q) ==
    /\ \A f \in N : f.ttl + q <= IF f.from = "a" THEN Latency ELSE 2 * Latency
    /\ r.left > 0 => r.left + q <= Inactivity + Latency
    /\ t.left > 0 /\ t.response.kind = "ack" => t.left + q <= HoldDown + Latency

\* The types of the sender and of the frames.
Outputs == [win : {0, 1}, missing : SUBSET Positions, request : BOOLEAN]
Acks == [kind : {"ack"}, win : {0, 1}, map : SUBSET Positions, complete : BOOLEAN]
Senders == [ses : 0 .. Len(Packets), status : {"idle", "ready", "active", "aborted", "succeeded"},
            attempts : Nat, ackHigh : Nat, timer : Int, next : Nat \ {0}, out : Outputs]
Frames(N) ==
    \A f \in N : /\ f = [from |-> f.from, ctr |-> f.ctr, ttl |-> f.ttl, msg |-> f.msg]
                 /\ f.from \in Sides /\ f.ctr \in Nat /\ f.ttl \in 0 .. Latency

FragTypes ==
    /\ sender \in Senders
    /\ sres \in -1 .. Inactivity /\ shold \in -Pause .. HoldDown
    /\ rres \in [left : -1 .. Inactivity, high : Nat]
    /\ rtomb \in [left : -1 .. HoldDown, high : Nat,
                  response : {NoResponse, ReceiverAbort} \cup Acks]
    /\ counter \in [Sides -> Nat]
    /\ Frames(net)
    /\ delivered \in Seq({Packets[n] : n \in 1 .. sender.ses})

\* Nothing happens before the first packet, and nothing is written before a
\* session starts.
Orderly ==
    /\ sender.status = "idle" <=> sender.ses = 0
    /\ sender.ses = 0 => sres = None /\ net = {} /\ rres.left <= 0
    /\ sender.status = "ready" => sender.next = 1 /\ sender.out = NoOutput
    /\ rres.left = -1 => rres = NoSession

\* The inductive invariant.
FragInv ==
    /\ FragTypes /\ Orderly
    /\ InTime(net, rres, rtomb, Quiet)
    /\ sender.ses > 0 =>
          Session(Packet, net, sender.next, sender.out, rbuf, rres, rtomb, delivered)

\* The requests under way, and whether a request is still to be written: the
\* All-1 among the fragments, and the end of an output.
Requests(N) == {f \in N : f.from = "a" /\ IsRequest(f.msg)}
AsksAll1(p, out) == out.win = FinalWindow(p) /\ LastPosition \in out.missing
ToWrite(p, s) == IF s.status = "active" /\ s.next <= Len(p) THEN 1 ELSE 0
ToAsk(p, out) == IF out.request \/ AsksAll1(p, out) THEN 1 ELSE 0
Given(r, buf) == IF r.left > 0 THEN buf.attempts ELSE 0

\* Every attempt of the sender is one request: to be written, under way or
\* answered.
Counted ==
    /\ IsFiniteSet(net)
    /\ \A f \in net : f.ctr <= counter[f.from]
    /\ sender.status = "ready" => sender.attempts = 0
    /\ sender.ses > 0 =>
          /\ sender.attempts <= MaxAckRequests
          /\ ~(sender.out.request /\ AsksAll1(Packet, sender.out))
          /\ ToWrite(Packet, sender) + ToAsk(Packet, sender.out)
                + Cardinality(Requests(net)) + Given(rres, rbuf) <= sender.attempts

-----------------------------------------------------------------------------
(* The packet's fragments and the receiver's answers.                       *)

\* Only two windows are in use.
LEMMA TwoWindows ==
    ASSUME NEW i \in 0 .. 2 * WindowSize - 1
    PROVE  /\ i \div WindowSize = IF i < WindowSize THEN 0 ELSE 1
           /\ i % WindowSize = IF i < WindowSize THEN i ELSE i - WindowSize
<1>1. WindowSize \in Nat \ {0} /\ i \in Nat
    BY ReassemblyAssumption
<1>2. CASE i < WindowSize
    BY <1>1, <1>2
<1>3. CASE i >= WindowSize
    <2>1. PICK j \in Nat : j = i - WindowSize /\ j < WindowSize
        BY <1>1, <1>3
    <2>2. i = WindowSize * 1 + j
        BY <1>1, <2>1
    <2> QED
        BY <1>1, <1>3, <2>1, <2>2
<1> QED
    BY <1>1, <1>2, <1>3

\* The fields of a fragment.
LEMMA FragmentIs ==
    ASSUME NEW p, IsPacket(p), NEW i \in 0 .. Len(p) - 1
    PROVE  LET f == FragmentOf(p, i)
               last == i + 1 = Len(p)
           IN  /\ Len(p) \in Nat /\ i \in Nat
               /\ f.kind = IF last THEN "all1" ELSE "regular"
               /\ f.win = IF i < WindowSize THEN 0 ELSE 1
               /\ f.pos = IF last THEN WindowSize - 1 ELSE IF i < WindowSize THEN i ELSE i - WindowSize
               /\ f.pos \in Positions
               /\ f.tile = p[i + 1] /\ p[i + 1] \in Tiles
               /\ last => f.mic = p /\ f.win = FinalWindow(p)
               /\ IsOpener(f) <=> i = 0
<1>1. Len(p) \in Nat /\ i \in Nat /\ i \in 0 .. 2 * WindowSize - 1 /\ Len(p) >= 2
    BY ReassemblyAssumption DEF IsPacket
<1>2. /\ i \div WindowSize = IF i < WindowSize THEN 0 ELSE 1
      /\ i % WindowSize = IF i < WindowSize THEN i ELSE i - WindowSize
    BY <1>1, TwoWindows
<1>3. p[i + 1] \in Tiles
    BY <1>1 DEF IsPacket
<1>4. CASE i + 1 = Len(p)
    BY <1>1, <1>2, <1>3, <1>4, ReassemblyAssumption DEF FragmentOf, LastPosition, Positions, FinalWindow, IsOpener
<1>5. CASE i + 1 # Len(p)
    BY <1>1, <1>2, <1>3, <1>5, ReassemblyAssumption DEF FragmentOf, LastPosition, Positions, IsOpener
<1> QED
    BY <1>4, <1>5

\* A set of positions that is not empty has a largest.
LEMMA MaxIs ==
    ASSUME NEW n \in Nat, NEW S \in SUBSET (0 .. n), S # {}
    PROVE  Max(S) \in S /\ \A y \in S : y <= Max(S)
<1> DEFINE U == {u \in Nat : \A y \in S : y <= u}
<1>1. U \subseteq Nat /\ n \in U
    OBVIOUS
<1>2. PICK u \in U : \A v \in U : u <= v
    BY <1>1, LeastNat
<1>3. u \in S
    <2> SUFFICES ASSUME u \notin S PROVE FALSE
        OBVIOUS
    <2>1. PICK y \in S : TRUE
        OBVIOUS
    <2>2. \A z \in S : z <= u - 1
        BY <1>2
    <2>3. u - 1 \in Nat
        BY <1>2, <2>1, <2>2
    <2>4. u - 1 \in U
        BY <2>2, <2>3
    <2> QED
        BY <1>2, <2>4
<1>4. \E x \in S : \A y \in S : x >= y
    BY <1>2, <1>3
<1> QED
    BY <1>4 DEF Max

\* The final window, and what the packet fills of it.
LEMMA FinalIs ==
    ASSUME NEW p, IsPacket(p)
    PROVE  /\ FinalWindow(p) \in {0, 1}
           /\ FinalWindow(p) * WindowSize <= Len(p) - 1
           /\ Len(p) - 1 < FinalWindow(p) * WindowSize + WindowSize
           /\ LastPosition \in Assigned(p, FinalWindow(p))
           /\ \A w \in {0, 1}, q \in Positions :
                 w * WindowSize + q < Len(p) - 1 => q \in Assigned(p, w)
           /\ \A w \in {0, 1} : Assigned(p, w) \subseteq Positions
<1>1. Len(p) \in Nat /\ Len(p) >= 2 /\ Len(p) - 1 \in 0 .. 2 * WindowSize - 1 /\ WindowSize \in Nat /\ WindowSize >= 2
    BY ReassemblyAssumption DEF IsPacket
<1>2. FinalWindow(p) = IF Len(p) - 1 < WindowSize THEN 0 ELSE 1
    BY <1>1, TwoWindows DEF FinalWindow
<1>3. LastPosition \in Assigned(p, FinalWindow(p))
    <2>1. Len(p) - 1 \in {j \in 0 .. Len(p) - 1 : j \div WindowSize = FinalWindow(p)}
        BY <1>1 DEF FinalWindow
    <2>2. FragmentOf(p, Len(p) - 1).pos = LastPosition
        BY <1>1, FragmentIs DEF LastPosition
    <2> QED
        BY <2>1, <2>2 DEF Assigned
<1>4. ASSUME NEW w \in {0, 1}, NEW q \in Positions, w * WindowSize + q < Len(p) - 1
      PROVE  q \in Assigned(p, w)
    <2>1. PICK j \in 0 .. Len(p) - 1 : j = w * WindowSize + q /\ j + 1 # Len(p)
        BY <1>1, <1>4 DEF Positions
    <2>2. j \in 0 .. 2 * WindowSize - 1 /\ w = IF j < WindowSize THEN 0 ELSE 1
        BY <1>1, <2>1 DEF Positions
    <2>3. j \div WindowSize = w
        BY <2>2, TwoWindows
    <2>4. FragmentOf(p, j).pos = q
        <3>1. FragmentOf(p, j).pos = IF j < WindowSize THEN j ELSE j - WindowSize
            BY <2>1, FragmentIs
        <3>2. q = IF j < WindowSize THEN j ELSE j - WindowSize
            BY <1>1, <2>1 DEF Positions
        <3> QED
            BY <3>1, <3>2
    <2> QED
        BY <2>3, <2>4 DEF Assigned
<1>5. ASSUME NEW w \in {0, 1} PROVE Assigned(p, w) \subseteq Positions
    BY FragmentIs DEF Assigned
<1>6. /\ FinalWindow(p) \in {0, 1}
      /\ FinalWindow(p) * WindowSize <= Len(p) - 1
      /\ Len(p) - 1 < FinalWindow(p) * WindowSize + WindowSize
    BY <1>1, <1>2
<1> QED
    BY <1>3, <1>4, <1>5, <1>6

\* What is left of a window after its tiles: a largest one, or none.
LEMMA CountIs ==
    ASSUME NEW p, IsPacket(p), NEW buf, Fits(buf, p), buf.all1 # NoTile
    PROVE  LET w == FinalWindow(p)
               map == Bitmap(buf, w)
               c == RegularCount(buf)
           IN  /\ buf.all1 = FragmentOf(p, Len(p) - 1) /\ buf.all1.win = w
               /\ c \in Nat /\ w * WindowSize + c <= Len(p) - 1
               /\ map \subseteq 0 .. c - 1
               /\ c = 0 \/ c - 1 \in map
<1> DEFINE w == FinalWindow(p)
           map == Bitmap(buf, w)
<1>1. buf.all1 = FragmentOf(p, Len(p) - 1)
    BY DEF Fits
<1>2. Len(p) \in Nat /\ Len(p) >= 2 /\ WindowSize \in Nat /\ WindowSize >= 2
    BY ReassemblyAssumption DEF IsPacket
<1>3. buf.all1.win = w /\ w \in {0, 1} /\ w * WindowSize <= Len(p) - 1
    BY <1>1, <1>2, FragmentIs, FinalIs
<1>4. RegularCount(buf) = IF map = {} THEN 0 ELSE Max(map) + 1
    BY <1>3 DEF RegularCount
<1>5. map \in SUBSET (0 .. WindowSize - 1)
    BY DEF Bitmap, Positions
<1>6. ASSUME NEW q \in map PROVE w * WindowSize + q < Len(p) - 1
    <2>1. q \in Positions /\ buf.tiles[w * WindowSize + q] # NoTile
        BY DEF Bitmap
    <2>2. w * WindowSize + q \in 0 .. 2 * WindowSize - 1
        BY <1>2, <1>3, <2>1 DEF Positions
    <2> QED
        BY <2>1, <2>2 DEF Fits
<1>7. CASE map = {}
    BY <1>1, <1>2, <1>3, <1>4, <1>7
<1>8. CASE map # {}
    <2>1. Max(map) \in map /\ \A y \in map : y <= Max(map)
        <3> HIDE DEF map
        <3>1. WindowSize - 1 \in Nat
            BY <1>2
        <3> QED
            BY <1>5, <1>8, <3>1, MaxIs
    <2>2. Max(map) \in Nat /\ w * WindowSize + Max(map) < Len(p) - 1
        BY <1>2, <1>5, <1>6, <2>1
    <2> HIDE DEF map
    <2>3. RegularCount(buf) = Max(map) + 1
        BY <1>4, <1>8
    <2>4. w * WindowSize \in Nat
        BY <1>2, <1>3
    <2>5. map \subseteq 0 .. (Max(map) + 1) - 1
        BY <1>2, <1>5, <2>1, <2>2
    <2> QED
        BY <1>1, <1>2, <1>3, <2>1, <2>2, <2>3, <2>4, <2>5 DEF map
<1> QED
    BY <1>7, <1>8

\* A full buffer is the packet.
LEMMA WholeIs ==
    ASSUME NEW p, IsPacket(p), NEW buf, Fits(buf, p), buf.all1 # NoTile,
           FinalWindow(p) = 1 => Bitmap(buf, 0) = Positions,
           Bitmap(buf, FinalWindow(p)) = 0 .. RegularCount(buf) - 1,
           FinalWindow(p) * WindowSize + RegularCount(buf) = Len(p) - 1
    PROVE  Reassembled(buf) = p
<1> DEFINE w == FinalWindow(p)
           c == RegularCount(buf)
<1>1. Len(p) \in Nat /\ Len(p) >= 2 /\ Len(p) <= 2 * WindowSize /\ WindowSize \in Nat /\ WindowSize >= 2
    BY ReassemblyAssumption DEF IsPacket
<1>2. buf.all1 = FragmentOf(p, Len(p) - 1) /\ buf.all1.win = w /\ c \in Nat /\ w \in {0, 1}
    BY CountIs, FinalIs
<1>3. buf.all1.tile = p[Len(p)]
    BY <1>1, <1>2, FragmentIs
<1>4. ASSUME NEW i \in 1 .. Len(p) - 1 PROVE buf.tiles[i - 1] = p[i]
    <2>1. i - 1 \in 0 .. 2 * WindowSize - 1
        BY <1>1
    <2>2. CASE i - 1 < w * WindowSize
        <3>1. w = 1 /\ i - 1 \in Positions
            BY <1>1, <1>2, <2>1, <2>2 DEF Positions
        <3>2. buf.tiles[0 * WindowSize + (i - 1)] # NoTile
            BY <3>1 DEF Bitmap
        <3>3. 0 * WindowSize + (i - 1) = i - 1
            BY <1>1, <2>1
        <3> QED
            BY <2>1, <3>2, <3>3 DEF Fits
    <2>3. CASE i - 1 >= w * WindowSize
        <3> DEFINE b == w * WindowSize
        <3>1. b \in Nat /\ b + c = Len(p) - 1 /\ b <= i - 1
            BY <1>1, <1>2, <2>3
        <3> HIDE DEF b, c
        <3>2. (i - 1) - b \in 0 .. c - 1 /\ i - 1 = b + ((i - 1) - b)
            BY <1>1, <1>2, <2>1, <3>1
        <3>3. PICK q \in 0 .. c - 1 : i - 1 = w * WindowSize + q
            BY <3>2 DEF b
        <3> USE DEF c
        <3>4. buf.tiles[w * WindowSize + q] # NoTile
            BY <3>3 DEF Bitmap
        <3> QED
            BY <2>1, <3>3, <3>4 DEF Fits
    <2> QED
        BY <1>1, <1>2, <2>1, <2>2, <2>3
<1>5. Reassembled(buf) = [i \in 1 .. (Len(p) - 1) + 1 |->
                             IF i <= Len(p) - 1 THEN buf.tiles[i - 1] ELSE buf.all1.tile]
    BY <1>2 DEF Reassembled
<1>6. (Len(p) - 1) + 1 = Len(p)
    BY <1>1
<1>7. p = [i \in 1 .. Len(p) |-> p[i]]
    BY DEF IsPacket
<1>8. \A i \in 1 .. Len(p) : (IF i <= Len(p) - 1 THEN buf.tiles[i - 1] ELSE buf.all1.tile) = p[i]
    BY <1>1, <1>3, <1>4
<1> QED
    BY <1>5, <1>6, <1>7, <1>8

\* The results of the receiver's handlers while the sender's packet is p.
Answers(r, buf, p) ==
    \/ buf.attempts >= MaxAckRequests /\ r = AbortResult
    \/ /\ r.aborted = FALSE /\ r.packet = <<>> /\ Partial(p, r.response)
       /\ Fits(r.buf, p) /\ r.buf.attempts = buf.attempts + 1
    \/ r.aborted = FALSE /\ r.packet = p /\ r.response = Final(p)

\* A tile is stored.
Stores(r, buf, p) ==
    /\ r.aborted = FALSE /\ r.packet = <<>> /\ r.response = NoResponse
    /\ Fits(r.buf, p) /\ r.buf.attempts = buf.attempts

\* An answer is given, or the answers have run out.
LEMMA RespondIs ==
    ASSUME NEW p, NEW buf, Fits(buf, p), NEW ack, NEW packet,
           \/ packet = <<>> /\ Partial(p, ack)
           \/ packet = p /\ ack = Final(p)
    PROVE  Answers(Respond(buf, ack, packet), buf, p)
<1>1. CASE buf.attempts >= MaxAckRequests
    BY <1>1 DEF Respond, Answers
<1>2. CASE ~(buf.attempts >= MaxAckRequests)
    <2> DEFINE b == [buf EXCEPT !.attempts = @ + 1]
    <2>1. Fits(b, p) /\ b.attempts = buf.attempts + 1
        BY DEF Fits
    <2>2. Respond(buf, ack, packet) = Result(b, ack, packet, FALSE)
        BY <1>2 DEF Respond
    <2> HIDE DEF b
    <2> QED
        BY <2>1, <2>2 DEF Result, Answers
<1> QED
    BY <1>1, <1>2

\* finalize: what it asks for is missing, and what it hands over is the packet.
LEMMA FinalizeIs ==
    ASSUME NEW p, IsPacket(p), NEW buf, Fits(buf, p), buf.all1 # NoTile
    PROVE  Answers(Finalize(buf), buf, p)
<1> DEFINE w == FinalWindow(p)
           c == RegularCount(buf)
           map == Bitmap(buf, w)
           b == w * WindowSize
<1>1. Len(p) \in Nat /\ Len(p) >= 2 /\ WindowSize \in Nat /\ WindowSize >= 2
    BY ReassemblyAssumption DEF IsPacket
<1>2. /\ buf.all1 = FragmentOf(p, Len(p) - 1) /\ buf.all1.win = w
      /\ c \in Nat /\ b + c <= Len(p) - 1
      /\ map \subseteq 0 .. c - 1
      /\ c = 0 \/ c - 1 \in map
    BY CountIs
<1>3. /\ w \in {0, 1} /\ b \in Nat /\ Len(p) - 1 < b + WindowSize
      /\ \A q \in Positions : b + q < Len(p) - 1 => q \in Assigned(p, w)
    <2>1. w \in {0, 1}
        BY FinalIs
    <2> QED
        BY <1>1, <2>1, FinalIs
<1>4. buf.all1.mic = p
    BY <1>1, <1>2, FragmentIs
<1>5. Bitmap(buf, 0) \subseteq Positions /\ 0 \in Bitmap(buf, 0) /\ map \subseteq Positions
    <2>1. 0 * WindowSize + 0 = 0 /\ 0 \in Positions
        BY <1>1 DEF Positions
    <2> QED
        BY <2>1 DEF Bitmap, Fits
<1>6. CASE w = 1 /\ Bitmap(buf, 0) # Positions
    <2>1. Finalize(buf) = Respond(buf, Ack(0, Bitmap(buf, 0), FALSE), <<>>)
        BY <1>2, <1>6 DEF Finalize
    <2>2. Partial(p, Ack(0, Bitmap(buf, 0), FALSE))
        <3>1. Bitmap(buf, 0) \in SUBSET Positions /\ 0 \in Bitmap(buf, 0) /\ 0 # FinalWindow(p)
            BY <1>5, <1>6
        <3> QED
            BY <3>1, Zenon DEF Partial
    <2> QED
        BY <2>1, <2>2, RespondIs
<1>7. ASSUME NEW q \in Positions, b + q < Len(p) - 1, q \notin map, NEW m \in SUBSET Positions,
             m = map \/ (m = map \cup {LastPosition} /\ q # LastPosition)
      PROVE  Partial(p, Ack(w, m, FALSE))
    <2>1. q \in Assigned(p, w) /\ q \notin m
        BY <1>3, <1>7
    <2>2. w = 0 => 0 \in m
        BY <1>5, <1>7
    <2> QED
        BY <1>3, <2>1, <2>2 DEF Partial
<1>8. LastPosition = WindowSize - 1 /\ LastPosition \in Positions
    BY <1>1 DEF LastPosition, Positions
<1>9. CASE ~(w = 1 /\ Bitmap(buf, 0) # Positions) /\ map # 0 .. c - 1
    <2>1. PICK q \in 0 .. c - 1 : q \notin map
        BY <1>2, <1>9
    <2>2. q \in Positions /\ b + q < Len(p) - 1 /\ q # LastPosition
        <3>1. q \in Nat /\ q < c - 1 /\ c - 1 \in Positions
            BY <1>2, <1>5, <2>1
        <3> HIDE DEF b, c, map, w
        <3> QED
            BY <1>1, <1>2, <1>3, <1>8, <3>1 DEF Positions
    <2>3. GapAck(buf) = Ack(w, map \cup {LastPosition}, FALSE)
        BY <1>2 DEF GapAck
    <2>4. Finalize(buf) = Respond(buf, GapAck(buf), <<>>)
        BY <1>2, <1>9 DEF Finalize
    <2>5. map \cup {LastPosition} \in SUBSET Positions
        BY <1>5, <1>8
    <2>6. Partial(p, GapAck(buf))
        BY <1>7, <2>1, <2>2, <2>3, <2>5
    <2> QED
        BY <2>4, <2>6, RespondIs
<1>10. CASE ~(w = 1 /\ Bitmap(buf, 0) # Positions) /\ map = 0 .. c - 1 /\ Reassembled(buf) = p
    <2>1. Finalize(buf) = Respond(buf, Final(p), p)
        BY <1>2, <1>4, <1>10 DEF Finalize, Final
    <2> QED
        BY <2>1, RespondIs
<1>11. CASE ~(w = 1 /\ Bitmap(buf, 0) # Positions) /\ map = 0 .. c - 1 /\ Reassembled(buf) # p
    <2>1. b + c # Len(p) - 1
        BY <1>3, <1>11, WholeIs
    <2>2. c \in Positions /\ b + c < Len(p) - 1 /\ c # LastPosition /\ c \notin map
        <3>1. c \notin map
            BY <1>2, <1>11
        <3> HIDE DEF b, c, map, w
        <3> QED
            BY <1>1, <1>2, <1>3, <1>8, <2>1, <3>1 DEF Positions
    <2>3. MicFailureAck(buf) \in {Ack(w, map, FALSE), Ack(w, map \cup {LastPosition}, FALSE)}
        BY <1>2 DEF MicFailureAck, GapAck
    <2>4. Finalize(buf) = Respond(buf, MicFailureAck(buf), <<>>)
        BY <1>2, <1>4, <1>11 DEF Finalize
    <2>5. map \in SUBSET Positions /\ map \cup {LastPosition} \in SUBSET Positions
        BY <1>5, <1>8
    <2>6. Partial(p, MicFailureAck(buf))
        BY <1>7, <2>2, <2>3, <2>5
    <2> QED
        BY <2>4, <2>6, RespondIs
<1> QED
    BY <1>6, <1>9, <1>10, <1>11

\* Every message of the packet, on a buffer that fits it.
LEMMA ReceiveIs ==
    ASSUME NEW p, IsPacket(p), NEW buf, Fits(buf, p), NEW m, OfPacket(p, m)
    PROVE  LET r == Receive(buf, m) IN
           IF IsRequest(m) THEN Answers(r, buf, p) ELSE Stores(r, buf, p)
<1>1. Len(p) \in Nat /\ Len(p) >= 2 /\ Len(p) <= 2 * WindowSize /\ WindowSize \in Nat /\ WindowSize >= 2
    BY ReassemblyAssumption DEF IsPacket
<1> DEFINE last == FragmentOf(p, Len(p) - 1)
<1>2. /\ last.kind = "all1" /\ last.win = FinalWindow(p) /\ last.pos = LastPosition
      /\ Ordinal(last) \in Nat /\ Len(p) - 1 <= Ordinal(last) /\ last # NoTile
    <2>1. /\ last.kind = "all1" /\ last.pos = WindowSize - 1
          /\ last.win = FinalWindow(p) /\ FinalWindow(p) \in {0, 1}
          /\ Len(p) - 1 < FinalWindow(p) * WindowSize + WindowSize
        BY <1>1, FragmentIs, FinalIs
    <2>2. Ordinal(last) = FinalWindow(p) * WindowSize + (WindowSize - 1)
        BY <2>1 DEF Ordinal
    <2> QED
        BY <1>1, <2>1, <2>2 DEF LastPosition, IsPacket
<1>3. ASSUME NEW i \in 0 .. Len(p) - 1, m = FragmentOf(p, i), i + 1 # Len(p)
      PROVE  /\ ~IsRequest(m)
             /\ Stores(Receive(buf, m), buf, p)
    <2>1. m.kind = "regular" /\ m.tile = p[i + 1] /\ p[i + 1] \in Tiles /\ i \in Nat
        BY <1>3, FragmentIs
    <2>2. Ordinal(m) = i
        <3>1. m.win = (IF i < WindowSize THEN 0 ELSE 1)
              /\ m.pos = (IF i < WindowSize THEN i ELSE i - WindowSize)
            BY <1>3, FragmentIs
        <3> QED
            BY <1>1, <2>1, <3>1 DEF Ordinal
    <2>3. i \in 0 .. 2 * WindowSize - 1 /\ i < Len(p) - 1
        BY <1>1, <1>3, <2>1
    <2> DEFINE b == [buf EXCEPT !.tiles[Ordinal(m)] = m.tile]
    <2>4. Receive(buf, m) = Silent(b)
        <3>1. ~(buf.all1 # NoTile /\ Ordinal(m) >= Ordinal(buf.all1))
            BY <1>1, <1>2, <2>2, <2>3 DEF Fits
        <3>2. buf.tiles[Ordinal(m)] \in {NoTile, m.tile}
            BY <2>1, <2>2, <2>3 DEF Fits
        <3> QED
            BY <2>1, <3>1, <3>2 DEF Receive, ReceiveRegular
    <2>5. Fits(b, p) /\ b.attempts = buf.attempts
        <3> DEFINE t == [buf.tiles EXCEPT ![i] = p[i + 1]]
        <3>1. b = [buf EXCEPT !.tiles = t]
            BY <2>1, <2>2
        <3>2. /\ buf.tiles \in [0 .. 2 * WindowSize - 1 -> Tiles \cup {NoTile}]
              /\ p[i + 1] # NoTile
            BY <2>1 DEF Fits, IsPacket
        <3>3. t \in [0 .. 2 * WindowSize - 1 -> Tiles \cup {NoTile}] /\ t[0] # NoTile
            BY <2>1, <2>3, <3>2 DEF Fits
        <3>4. \A j \in 0 .. 2 * WindowSize - 1 : t[j] # NoTile => j < Len(p) - 1 /\ t[j] = p[j + 1]
            BY <2>3, <3>2 DEF Fits
        <3> HIDE DEF b, t
        <3> QED
            BY <3>1, <3>3, <3>4 DEF Fits
    <2> HIDE DEF b
    <2> QED
        BY <2>1, <2>4, <2>5 DEF Silent, Result, IsRequest, Stores
<1>4. CASE m = last
    <2> DEFINE b == [buf EXCEPT !.all1 = m]
    <2>1. Fits(b, p) /\ b.all1 # NoTile /\ b.attempts = buf.attempts
        BY <1>2, <1>4 DEF Fits
    <2>2. Receive(buf, m) = Finalize(b)
        <3>1. ~ \E i \in Ordinal(m) .. 2 * WindowSize - 1 : buf.tiles[i] # NoTile
            BY <1>1, <1>2, <1>4 DEF Fits
        <3>2. buf.all1 \in {NoTile, m}
            BY <1>4 DEF Fits
        <3> QED
            BY <1>2, <1>4, <3>1, <3>2 DEF Receive, ReceiveAll1
    <2> HIDE DEF b
    <2>3. Answers(Finalize(b), b, p)
        BY <2>1, FinalizeIs
    <2> QED
        BY <1>2, <1>4, <2>1, <2>2, <2>3 DEF IsRequest, Answers
<1>5. CASE m = AckRequest
    <2>1. m.kind = "ackreq" /\ Receive(buf, m) = ReceiveAckRequest(buf)
        BY <1>5 DEF AckRequest, Receive
    <2>2. CASE buf.all1 # NoTile
        BY <2>1, <2>2, FinalizeIs DEF ReceiveAckRequest, IsRequest
    <2>3. CASE buf.all1 = NoTile
        <3> DEFINE w == IF Bitmap(buf, 0) = Positions THEN 1 ELSE 0
        <3>1. Receive(buf, m) = Respond(buf, Ack(w, Bitmap(buf, w), FALSE), <<>>)
            BY <2>1, <2>3 DEF ReceiveAckRequest
        <3>2. w \in {0, 1} /\ Bitmap(buf, w) \in SUBSET Positions
            BY DEF Bitmap
        <3>3. w = 0 => 0 \in Bitmap(buf, w)
            <4>1. 0 * WindowSize + 0 = 0 /\ 0 \in Positions
                BY <1>1 DEF Positions
            <4> QED
                BY <4>1 DEF Bitmap, Fits
        <3> HIDE DEF w
        <3>4. ASSUME w = FinalWindow(p) PROVE ~(Assigned(p, w) \subseteq Bitmap(buf, w))
            <4>1. LastPosition \in Assigned(p, w) /\ Len(p) - 1 < w * WindowSize + WindowSize
                BY <3>4, FinalIs
            <4>2. w * WindowSize + LastPosition \in 0 .. 2 * WindowSize - 1
                BY <1>1, <3>2 DEF LastPosition
            <4>3. ~(w * WindowSize + LastPosition < Len(p) - 1)
                BY <1>1, <3>2, <4>1 DEF LastPosition
            <4>4. LastPosition \notin Bitmap(buf, w)
                BY <4>2, <4>3 DEF Bitmap, Fits
            <4> QED
                BY <4>1, <4>4
        <3>5. Partial(p, Ack(w, Bitmap(buf, w), FALSE))
            BY <3>2, <3>3, <3>4 DEF Partial
        <3> QED
            BY <2>1, <3>1, <3>5, RespondIs DEF IsRequest
    <2> QED
        BY <2>2, <2>3
<1>6. m = last \/ m = AckRequest \/ \E i \in 0 .. Len(p) - 1 : m = FragmentOf(p, i) /\ i + 1 # Len(p)
    <2>1. \A i \in 0 .. Len(p) - 1 : i + 1 = Len(p) => i = Len(p) - 1
        BY <1>1
    <2> QED
        BY <2>1 DEF OfPacket
<1> HIDE DEF last
<1> QED
    BY <1>3, <1>4, <1>5, <1>6

-----------------------------------------------------------------------------
(* The session: messages of one packet, and none of another.                *)

\* The constants are numbers.
LEMMA FragNumbers ==
    /\ Retransmission \in Nat /\ Inactivity \in Nat /\ HoldDown \in Nat
    /\ Inactivity > 0 /\ HoldDown > 0
    /\ Latency \in Nat /\ Pause \in Nat /\ MaxCounter \in Nat
    /\ WindowSize \in Nat /\ WindowSize >= 2
    /\ Latency <= Pause /\ Latency < HoldDown /\ Inactivity <= HoldDown
    /\ Len(Packets) \in Nat
BY FragmentationAssumption, SeparationAssumption, ReassemblyAssumption

\* A packet on offer is a packet.
LEMMA PacketIs ==
    ASSUME NEW n \in 1 .. Len(Packets)
    PROVE  IsPacket(Packets[n])
<1>1. Packets \in Seq(Seq(Tiles)) /\ n \in DOMAIN Packets
    BY FragmentationAssumption
<1> QED
    BY <1>1, FragmentationAssumption DEF IsPacket

\* What is caused later than q2 ago keeps the times, and q2 is no more than q.
LEMMA TimesKept ==
    ASSUME NEW N, NEW r, NEW t, NEW q \in Int, InTime(N, r, t, q), Frames(N),
           NEW N2, NEW r2, NEW t2, NEW q2 \in Int, q2 <= q,
           \A g \in N2 : g \in N \/ (g.ttl = Latency /\ q2 <= IF g.from = "a" THEN 0 ELSE Latency),
           r.left \in Int, t.left \in Int,
           r2.left > 0 => r2.left = r.left \/ (r2.left = Inactivity /\ q2 <= Latency),
           \/ t2.left = t.left /\ t2.response = t.response
           \/ t2.left > 0 => (t2.left = HoldDown /\ q2 <= Latency) \/ t2.response.kind # "ack"
    PROVE  InTime(N2, r2, t2, q2)
<1>1. ASSUME NEW g \in N2 PROVE g.ttl + q2 <= IF g.from = "a" THEN Latency ELSE 2 * Latency
    <2>1. CASE g \in N
        <3>1. g.ttl \in Int /\ g.ttl + q <= IF g.from = "a" THEN Latency ELSE 2 * Latency
            BY <2>1 DEF InTime, Frames
        <3> QED
            BY <3>1, FragNumbers
    <2>2. CASE g.ttl = Latency /\ q2 <= IF g.from = "a" THEN 0 ELSE Latency
        BY <2>2, FragNumbers
    <2> QED
        BY <2>1, <2>2
<1>2. r2.left > 0 => r2.left + q2 <= Inactivity + Latency
    BY FragNumbers DEF InTime
<1>3. t2.left > 0 /\ t2.response.kind = "ack" => t2.left + q2 <= HoldDown + Latency
    BY FragNumbers DEF InTime
<1> QED
    BY <1>1, <1>2, <1>3 DEF InTime

\* The sender writes a message.
LEMMA SessionWrites ==
    ASSUME NEW p, NEW N, NEW next, NEW out, NEW buf, NEW r, NEW t, NEW dl,
           Session(p, N, next, out, buf, r, t, dl),
           NEW m, OfPacket(p, m), NEW c, NEW l, NEW n2, NEW o2,
           o2.missing \subseteq Assigned(p, o2.win), o2.win = 0 => 0 \notin o2.missing,
           \/ n2 = next /\ ~IsOpener(m)
           \/ n2 # 1 /\ (IsOpener(m) => next = 1)
    PROVE  Session(p, N \cup {[from |-> "a", ctr |-> c, ttl |-> l, msg |-> m]}, n2, o2, buf, r, t, dl)
BY DEF Session, OpenerAhead

\* The receiver takes what is under way, answers, and ends or goes on.
LEMMA SessionReceives ==
    ASSUME NEW p, NEW N, NEW next, NEW out, NEW buf, NEW r, NEW t, NEW dl,
           Session(p, N, next, out, buf, r, t, dl),
           NEW N2, NEW buf2, NEW r2, NEW t2, NEW dl2, NEW o2,
           o2.missing \subseteq Assigned(p, o2.win), o2.win = 0 => 0 \notin o2.missing,
           \A g \in N2 : g \in N \/ (g.from = "b" /\ Answer(p, g.msg, dl2)),
           Handed(dl, p) => Handed(dl2, p),
           r2.left > 0 => Fits(buf2, p) /\ ~OpenerAhead(N2, next),
           t2.left > 0 =>
              \/ t2.response \in {NoResponse, ReceiverAbort}
              \/ t2.response = Final(p) /\ Handed(dl2, p),
           Distinct /\ (OpenerAhead(N2, next) \/ r2.left > 0) => ~Handed(dl2, p)
    PROVE  Session(p, N2, next, o2, buf2, r2, t2, dl2)
<1>1. \A f \in N2 : f.from = "b" => Answer(p, f.msg, dl2)
    BY DEF Session, Answer
<1>2. \A f \in N2 : f.from = "a" => f \in N
    OBVIOUS
<1> QED
    BY <1>1, <1>2 DEF Session

\* The frames under way after a tick.
Older(N) == {[f EXCEPT !.ttl = @ - 1] : f \in {g \in N : g.ttl > 0}}

\* The frames a tick leaves.
LEMMA OlderIs ==
    ASSUME NEW N, Frames(N), NEW f \in Older(N)
    PROVE  \E g \in N : /\ g.ttl > 0 /\ f.ttl = g.ttl - 1 /\ f.from = g.from /\ f.msg = g.msg
                        /\ f.ctr = g.ctr /\ f.ttl \in 0 .. Latency
                        /\ f = [from |-> f.from, ctr |-> f.ctr, ttl |-> f.ttl, msg |-> f.msg]
                        /\ g = [from |-> g.from, ctr |-> g.ctr, ttl |-> f.ttl + 1, msg |-> g.msg]
<1>1. PICK g \in N : g.ttl > 0 /\ f = [g EXCEPT !.ttl = @ - 1]
    BY DEF Older
<1>2. /\ g = [from |-> g.from, ctr |-> g.ctr, ttl |-> g.ttl, msg |-> g.msg]
      /\ g.ttl \in 0 .. Latency /\ Latency \in Nat
    BY FragNumbers DEF Frames
<1>3. f = [from |-> g.from, ctr |-> g.ctr, ttl |-> g.ttl - 1, msg |-> g.msg]
    BY <1>1, <1>2
<1>4. f.ttl = g.ttl - 1 /\ f.from = g.from /\ f.msg = g.msg /\ f.ctr = g.ctr
    BY <1>3
<1>5. g.ttl = f.ttl + 1 /\ f.ttl \in 0 .. Latency
    BY <1>1, <1>2, <1>4
<1> QED
    BY <1>1, <1>2, <1>3, <1>4, <1>5

\* Time alone changes nothing of a session.
LEMMA SessionTicks ==
    ASSUME NEW p, NEW N, NEW next, NEW out, NEW buf, NEW r, NEW t, NEW dl, Frames(N),
           Session(p, N, next, out, buf, r, t, dl),
           NEW r2, NEW t2, r2.left > 0 => r.left > 0, t2.left > 0 => t.left > 0,
           t2.response = t.response
    PROVE  Session(p, Older(N), next, out, buf, r2, t2, dl)
<1>1. \A f \in Older(N) : \E g \in N : f.from = g.from /\ f.msg = g.msg
    BY OlderIs
<1>2. ASSUME NEW f \in Older(N), NEW g \in Older(N), f.from = "a", g.from = "a",
             IsOpener(f.msg), IsOpener(g.msg)
      PROVE  f = g
    <2>1. PICK f1 \in N : /\ f.from = f1.from /\ f.msg = f1.msg /\ f1.ctr = f.ctr
                          /\ f = [from |-> f.from, ctr |-> f.ctr, ttl |-> f.ttl, msg |-> f.msg]
                          /\ f.ttl = f1.ttl - 1
        BY OlderIs
    <2>2. PICK g1 \in N : /\ g.from = g1.from /\ g.msg = g1.msg /\ g1.ctr = g.ctr
                          /\ g = [from |-> g.from, ctr |-> g.ctr, ttl |-> g.ttl, msg |-> g.msg]
                          /\ g.ttl = g1.ttl - 1
        BY OlderIs
    <2>3. f1 = g1
        BY <1>2, <2>1, <2>2 DEF Session
    <2> QED
        BY <2>1, <2>2, <2>3
<1>3. OpenerAhead(Older(N), next) => OpenerAhead(N, next)
    BY <1>1 DEF OpenerAhead
<1>4. \A f \in Older(N) : (f.from = "a" => OfPacket(p, f.msg)) /\ (f.from = "b" => Answer(p, f.msg, dl))
    BY <1>1 DEF Session
<1>5. next = 1 => \A f \in Older(N) : f.from = "a" => ~IsOpener(f.msg)
    BY <1>1 DEF Session
<1>6. /\ r2.left > 0 => ~OpenerAhead(Older(N), next) /\ Fits(buf, p)
      /\ t2.left > 0 =>
          \/ t2.response \in {NoResponse, ReceiverAbort}
          \/ t2.response = Final(p) /\ Handed(dl, p)
      /\ Distinct /\ (OpenerAhead(Older(N), next) \/ r2.left > 0) => ~Handed(dl, p)
    BY <1>3 DEF Session
<1>7. /\ out.missing \subseteq Assigned(p, out.win)
      /\ out.win = 0 => 0 \notin out.missing
    BY DEF Session
<1> QED
    BY <1>2, <1>4, <1>5, <1>6, <1>7 DEF Session

\* The parts of the invariant after a step.
LEMMA FragEstablished ==
    ASSUME FragTypes', Orderly', InTime(net', rres', rtomb', Quiet'),
           sender'.ses > 0 =>
              Session(Packets[sender'.ses], net', sender'.next, sender'.out, rbuf', rres',
                      rtomb', delivered')
    PROVE  FragInv'
BY DEF FragInv, Packet, InTime, Session, OpenerAhead, OfPacket, Answer, Partial, Final, Handed,
       Fits, IsOpener, Distinct

\* The parts of the invariant.
LEMMA FragParts ==
    ASSUME FragInv
    PROVE  /\ FragTypes /\ Orderly /\ InTime(net, rres, rtomb, Quiet)
           /\ Quiet \in Int /\ sender.ses \in Nat
           /\ sender.ses > 0 =>
                /\ sender.ses \in 1 .. Len(Packets) /\ IsPacket(Packet)
                /\ Session(Packet, net, sender.next, sender.out, rbuf, rres, rtomb, delivered)
<1>1. sender.ses \in 0 .. Len(Packets) /\ Len(Packets) \in Nat
    BY FragNumbers DEF FragInv, FragTypes, Senders
<1>2. Quiet \in Int
    BY FragNumbers DEF FragInv, FragTypes, Quiet
<1>3. sender.ses > 0 => sender.ses \in 1 .. Len(Packets)
    BY <1>1
<1> QED
    BY <1>1, <1>2, <1>3, PacketIs DEF FragInv, Packet

\* When the next packet is offered, nothing of the last one is left.
LEMMA NothingLeft ==
    ASSUME Patient, FragInv, Offer
    PROVE  /\ net = {} /\ ~(rres.left > 0) /\ Quiet' = 0
           /\ ~(rtomb.left > 0 /\ rtomb.response.kind = "ack")
<1>1. FragTypes /\ InTime(net, rres, rtomb, Quiet)
    BY FragParts
<1>2. sres = None /\ shold = -Pause /\ sres' = Inactivity
    BY DEF Offer, CallerReady, NewSender
<1>3. Quiet = HoldDown + Pause /\ Quiet' = 0
    BY <1>2, FragNumbers DEF Quiet, None
<1>4. net = {}
    <2> SUFFICES ASSUME NEW f \in net PROVE FALSE
        OBVIOUS
    <2>1. f.ttl \in 0 .. Latency /\ f.ttl + (HoldDown + Pause) <= IF f.from = "a" THEN Latency ELSE 2 * Latency
        BY <1>1, <1>3 DEF FragTypes, Frames, InTime
    <2> QED
        BY <2>1, FragNumbers
<1>5. ~(rres.left > 0) /\ ~(rtomb.left > 0 /\ rtomb.response.kind = "ack")
    <2>1. rres.left \in Int /\ rtomb.left \in Int
        BY <1>1 DEF FragTypes
    <2> QED
        BY <1>1, <1>3, <2>1, FragNumbers DEF InTime
<1> QED
    BY <1>3, <1>4, <1>5

\* FragmentSender::new, of a patient caller.
LEMMA OfferKeeps ==
    ASSUME Patient, FragInv, Offer
    PROVE  FragInv'
<1>1. FragTypes /\ Orderly /\ InTime(net, rres, rtomb, Quiet) /\ sender.ses \in Nat
    BY FragParts
<1>2. sres = None /\ shold = -Pause /\ sres' = Inactivity /\ shold' = shold
      /\ sender.ses < Len(Packets)
      /\ sender' = [ses |-> sender.ses + 1, status |-> "ready", attempts |-> 0, ackHigh |-> 0,
                    timer |-> None, next |-> 1, out |-> NoOutput]
      /\ rbuf' = rbuf /\ rres' = rres /\ rtomb' = rtomb /\ delivered' = delivered
      /\ net' = net /\ counter' = counter
    BY DEF Offer, CallerReady, NewSender, receiverVars
<1>3. Quiet' = 0
    BY NothingLeft
<1>4. net = {}
    BY NothingLeft
<1>5. ~(rres.left > 0) /\ ~(rtomb.left > 0 /\ rtomb.response.kind = "ack")
    BY NothingLeft
<1>6. rtomb.left > 0 => rtomb.response \in {NoResponse, ReceiverAbort}
    BY <1>1, <1>5 DEF FragTypes, Acks
<1> DEFINE p == Packets[sender.ses + 1]
<1>7. sender.ses + 1 \in 1 .. Len(Packets)
    BY <1>1, <1>2, FragNumbers
<1>8. Distinct => ~Handed(delivered, p)
    <2> SUFFICES ASSUME Distinct, NEW i \in DOMAIN delivered, delivered[i] = p
                 PROVE  FALSE
        BY DEF Handed
    <2>1. PICK n \in 1 .. sender.ses : delivered[i] = Packets[n]
        <3> DEFINE S == {Packets[n] : n \in 1 .. sender.ses}
        <3>1. delivered \in Seq(S)
            BY <1>1 DEF FragTypes
        <3> HIDE DEF S
        <3>2. delivered[i] \in S
            BY <3>1
        <3> QED
            BY <3>2 DEF S
    <2>2. n \in DOMAIN Packets /\ sender.ses + 1 \in DOMAIN Packets /\ n # sender.ses + 1
        <3>1. DOMAIN Packets = 1 .. Len(Packets) /\ Len(Packets) \in Nat
            BY FragmentationAssumption
        <3>2. n \in 1 .. Len(Packets) /\ n # sender.ses + 1
            BY <1>1, <1>2, <3>1
        <3> QED
            BY <1>7, <3>1, <3>2
    <2> QED
        BY <2>1, <2>2 DEF Distinct
<1>9. Session(p, {}, 1, NoOutput, rbuf, rres, rtomb, delivered)
    BY <1>5, <1>6, <1>8 DEF Session, NoOutput
<1>10. FragTypes'
    <2>1. sender' \in Senders
        BY <1>2, <1>7 DEF Senders, Outputs, NoOutput, None
    <2>2. delivered \in Seq({Packets[n] : n \in 1 .. sender.ses + 1})
        BY <1>1 DEF FragTypes
    <2>3. delivered' \in Seq({Packets[n] : n \in 1 .. sender'.ses})
        BY <1>2, <2>2
    <2>4. sres' \in -1 .. Inactivity /\ shold' \in -Pause .. HoldDown
        BY <1>1, <1>2, FragNumbers DEF FragTypes
    <2> QED
        BY <1>1, <1>2, <2>1, <2>3, <2>4 DEF FragTypes, Frames
<1>11. Orderly'
    BY <1>1, <1>2 DEF Orderly
<1>12. InTime(net', rres', rtomb', Quiet')
    BY <1>2, <1>4, <1>5 DEF InTime
<1> QED
    BY <1>2, <1>4, <1>9, <1>10, <1>11, <1>12, FragEstablished

\* A step of the sender that writes nothing.
LEMMA SenderKeeps ==
    ASSUME FragInv, UNCHANGED receiverVars, counter' = counter, net' \subseteq net,
           sender' \in Senders, sender'.ses = sender.ses, sender.ses > 0,
           sender'.next = sender.next, sender'.status # "idle",
           sender'.status = "ready" => sender.next = 1 /\ sender'.out = NoOutput,
           sender'.out.missing \subseteq Assigned(Packet, sender'.out.win),
           sender'.out.win = 0 => 0 \notin sender'.out.missing,
           sres' \in -1 .. Inactivity, shold' \in -Pause .. HoldDown, Quiet' <= Quiet
    PROVE  FragInv'
<1>1. /\ FragTypes /\ Orderly /\ InTime(net, rres, rtomb, Quiet) /\ Quiet \in Int
      /\ Session(Packet, net, sender.next, sender.out, rbuf, rres, rtomb, delivered)
    BY FragParts
<1>2. rbuf' = rbuf /\ rres' = rres /\ rtomb' = rtomb /\ delivered' = delivered
    BY DEF receiverVars
<1>3. Quiet' \in Int
    BY FragNumbers DEF Quiet
<1>4. rres.left \in Int /\ rtomb.left \in Int /\ Frames(net)
    BY <1>1 DEF FragTypes
<1>5. InTime(net', rres, rtomb, Quiet')
    BY <1>1, <1>3, <1>4, TimesKept
<1>6. rres.left > 0 => Fits(rbuf, Packet) /\ ~OpenerAhead(net', sender.next)
    BY <1>1 DEF Session, OpenerAhead
<1>7. Distinct /\ (OpenerAhead(net', sender.next) \/ rres.left > 0) => ~Handed(delivered, Packet)
    BY <1>1 DEF Session, OpenerAhead
<1>8. rtomb.left > 0 =>
              \/ rtomb.response \in {NoResponse, ReceiverAbort}
              \/ rtomb.response = Final(Packet) /\ Handed(delivered, Packet)
    BY <1>1 DEF Session
<1>9. Session(Packet, net', sender.next, sender'.out, rbuf, rres, rtomb, delivered)
    BY <1>1, <1>6, <1>7, <1>8, SessionReceives
<1>10. FragTypes'
    BY <1>1, <1>2 DEF FragTypes, Frames
<1>11. Orderly'
    BY <1>1, <1>2 DEF Orderly
<1>12. Packets[sender'.ses] = Packet
    BY DEF Packet
<1> QED
    BY <1>2, <1>5, <1>9, <1>10, <1>11, <1>12, FragEstablished

\* A use or a release of the reservation starts the time anew.
LEMMA QuietAnew ==
    ASSUME FragInv
    PROVE  /\ Quiet \in Nat
           /\ sres' = Inactivity \/ ReleaseSender => Quiet' = 0
<1>1. sres \in -1 .. Inactivity /\ shold \in -Pause .. HoldDown
    BY FragParts DEF FragTypes
<1> QED
    BY <1>1, FragNumbers DEF Quiet, ReleaseSender, None

\* A sender with a reservation has a packet.
LEMMA LiveIs ==
    ASSUME FragInv, sres # None
    PROVE  /\ sender.ses > 0 /\ sender.ses \in 1 .. Len(Packets) /\ IsPacket(Packet)
           /\ sender \in Senders /\ sres \in 0 .. Inactivity /\ sender.status # "idle"
<1>1. sender.ses \in Nat /\ sender \in Senders /\ sres \in -1 .. Inactivity
    BY FragParts DEF FragTypes
<1>2. sender.ses > 0 /\ sender.status # "idle"
    BY <1>1, FragParts DEF Orderly
<1> QED
    BY <1>1, <1>2, FragParts, FragNumbers DEF None

\* start_current.
LEMMA StartKeeps ==
    ASSUME FragInv, Start
    PROVE  FragInv'
<1>1. /\ sender.status = "ready" /\ sres > 0 /\ sres' = Inactivity /\ shold' = shold
      /\ sender' = [sender EXCEPT !.status = "active", !.attempts = 1, !.timer = Retransmission]
      /\ net' = net /\ counter' = counter /\ UNCHANGED receiverVars
    BY DEF Start, SenderLive
<1>2. sres \in Int /\ sres # None
    BY <1>1, FragParts DEF FragTypes, None
<1>3. /\ sender.ses > 0 /\ sender \in Senders
      /\ Session(Packet, net, sender.next, sender.out, rbuf, rres, rtomb, delivered)
    BY <1>2, LiveIs, FragParts
<1>4. sender' \in Senders /\ sender'.ses = sender.ses /\ sender'.next = sender.next
      /\ sender'.status = "active" /\ sender'.out = sender.out
    <2>1. Retransmission \in Int
        BY FragNumbers
    <2> QED
        BY <1>1, <1>3, <2>1 DEF Senders
<1>5. sender.out.missing \subseteq Assigned(Packet, sender.out.win)
      /\ (sender.out.win = 0 => 0 \notin sender.out.missing)
    BY <1>3 DEF Session
<1>6. sres' \in -1 .. Inactivity /\ shold' \in -Pause .. HoldDown
    <2>1. shold \in -Pause .. HoldDown
        BY FragParts DEF FragTypes
    <2> QED
        BY <1>1, <2>1, FragNumbers
<1>7. Quiet' <= Quiet
    BY <1>1, QuietAnew
<1> QED
    BY <1>1, <1>3, <1>4, <1>5, <1>6, <1>7, SenderKeeps

\* A message is written: the reservation is used.
LEMMA WriteKeeps ==
    ASSUME FragInv, NEW m, OfPacket(Packet, m), m.kind # "none",
           sres > 0, sres' = Inactivity, shold' = shold, UNCHANGED receiverVars,
           Sent(net, "a", m), sender' \in Senders, sender'.ses = sender.ses,
           sender'.status = sender.status, sender.status # "ready",
           sender'.out.missing \subseteq Assigned(Packet, sender'.out.win),
           sender'.out.win = 0 => 0 \notin sender'.out.missing,
           \/ sender'.next = sender.next /\ ~IsOpener(m)
           \/ sender'.next # 1 /\ (IsOpener(m) => sender.next = 1)
    PROVE  FragInv'
<1>1. /\ FragTypes /\ Orderly /\ InTime(net, rres, rtomb, Quiet) /\ Quiet \in Int
      /\ sres \in Int /\ sres # None
    BY FragParts DEF FragTypes, None
<1>2. sender.ses > 0 /\ Session(Packet, net, sender.next, sender.out, rbuf, rres, rtomb, delivered)
    BY <1>1, LiveIs, FragParts
<1>3. rbuf' = rbuf /\ rres' = rres /\ rtomb' = rtomb /\ delivered' = delivered
    BY DEF receiverVars
<1> DEFINE c == counter["a"] + 1
           N == net \cup {[from |-> "a", ctr |-> c, ttl |-> Latency, msg |-> m]}
<1>4. net' = N /\ counter' = [counter EXCEPT !["a"] = @ + 1]
    BY DEF Sent
<1>5. c \in Nat /\ counter' \in [Sides -> Nat]
    BY <1>1, <1>4 DEF FragTypes, Sides
<1>6. Session(Packet, N, sender'.next, sender'.out, rbuf, rres, rtomb, delivered)
    BY <1>2, SessionWrites
<1>7. InTime(N, rres, rtomb, Quiet')
    <2>1. rres.left \in Int /\ rtomb.left \in Int /\ Frames(net)
        BY <1>1 DEF FragTypes
    <2>2. Quiet' = 0 /\ 0 <= Quiet
        BY QuietAnew
    <2>3. \A g \in N : g \in net \/ (g.ttl = Latency /\ 0 <= IF g.from = "a" THEN 0 ELSE Latency)
        BY FragNumbers
    <2> HIDE DEF N
    <2>4. InTime(N, rres, rtomb, 0)
        BY <1>1, <2>1, <2>2, <2>3, TimesKept
    <2> QED
        BY <2>2, <2>4
<1>8. FragTypes'
    <2>1. Frames(N)
        <3> SUFFICES ASSUME NEW f \in N
                     PROVE  /\ f = [from |-> f.from, ctr |-> f.ctr, ttl |-> f.ttl, msg |-> f.msg]
                            /\ f.from \in Sides /\ f.ctr \in Nat /\ f.ttl \in 0 .. Latency
            BY DEF Frames
        <3>1. CASE f \in net
            BY <1>1, <3>1 DEF FragTypes, Frames
        <3> HIDE DEF c
        <3>2. CASE f = [from |-> "a", ctr |-> c, ttl |-> Latency, msg |-> m]
            <4>1. Latency \in 0 .. Latency
                BY FragNumbers
            <4> QED
                BY <1>5, <3>2, <4>1 DEF Sides
        <3> QED
            BY <3>1, <3>2
    <2>2. Frames(net')
        BY <1>4, <2>1
    <2>3. sres' \in -1 .. Inactivity /\ shold' \in -Pause .. HoldDown
        BY <1>1, FragNumbers DEF FragTypes
    <2> QED
        BY <1>1, <1>3, <1>5, <2>2, <2>3 DEF FragTypes, Frames
<1>9. Orderly'
    BY <1>1, <1>2, <1>3 DEF Orderly
<1>10. Packets[sender'.ses] = Packet
    BY DEF Packet
<1> HIDE DEF N
<1> QED
    BY <1>3, <1>4, <1>6, <1>7, <1>8, <1>9, <1>10, FragEstablished

\* get_fragment_current: the opening fragment comes first, and once.
LEMMA WriteFragmentKeeps ==
    ASSUME FragInv, WriteFragment
    PROVE  FragInv'
<1> DEFINE i == sender.next - 1
           m == Fragments(Packet)[sender.next]
<1>1. /\ sender.status = "active" /\ sres > 0 /\ sender.next <= Len(Packet)
      /\ Sent(net, "a", m) /\ sender' = [sender EXCEPT !.next = @ + 1]
      /\ sres' = Inactivity /\ shold' = shold /\ UNCHANGED receiverVars
    BY DEF WriteFragment, SenderLive
<1>2. sres # None
    BY <1>1, FragParts DEF FragTypes, None
<1>3. /\ sender.ses > 0 /\ sender \in Senders /\ IsPacket(Packet)
      /\ Session(Packet, net, sender.next, sender.out, rbuf, rres, rtomb, delivered)
    BY <1>2, LiveIs, FragParts
<1>4. sender.next \in Nat \ {0} /\ Len(Packet) \in Nat
    BY <1>3 DEF Senders, IsPacket
<1>5. i \in 0 .. Len(Packet) - 1 /\ sender.next \in 1 .. Len(Packet)
    BY <1>1, <1>4
<1>6. m = FragmentOf(Packet, i)
    BY <1>5 DEF Fragments
<1>7. OfPacket(Packet, m) /\ m.kind # "none" /\ (IsOpener(m) <=> i = 0)
    BY <1>3, <1>5, <1>6, FragmentIs DEF OfPacket
<1>8. /\ sender' \in Senders /\ sender'.ses = sender.ses /\ sender'.status = sender.status
      /\ sender'.next = sender.next + 1 /\ sender'.out = sender.out
    BY <1>1, <1>3, <1>4 DEF Senders
<1>9. sender.out.missing \subseteq Assigned(Packet, sender.out.win)
      /\ (sender.out.win = 0 => 0 \notin sender.out.missing)
    BY <1>3 DEF Session
<1>10. sender'.next # 1 /\ (i = 0 => sender.next = 1)
    BY <1>4, <1>8
<1> HIDE DEF m, i
<1> QED
    BY <1>1, <1>7, <1>8, <1>9, <1>10, WriteKeeps

\* A set of positions that is not empty has a smallest.
LEMMA MinIs ==
    ASSUME NEW S \in SUBSET Nat, S # {}
    PROVE  Min(S) \in S
<1>1. \E x \in S : \A y \in S : x <= y
    BY LeastNat
<1> QED
    BY <1>1 DEF Min

\* What an output may ask for while p is on offer.
Asks(p, out) ==
    /\ out \in Outputs
    /\ out.missing \subseteq Assigned(p, out.win)
    /\ out.win = 0 => 0 \notin out.missing

\* write_next: a message of the packet, never its opening fragment.
LEMMA NextMessageIs ==
    ASSUME NEW p, IsPacket(p), NEW out, Asks(p, out)
    PROVE  LET m == NextMessage(p, out) IN
           /\ OfPacket(p, m) /\ m.kind # "none" /\ ~IsOpener(m)
           /\ out.missing # {} => m.kind # "ackreq" /\ m.win = out.win /\ m.pos = Min(out.missing)
           /\ Asks(p, AfterMessage(out))
<1>1. CASE out.missing = {}
    <2>1. NextMessage(p, out) = AckRequest /\ AfterMessage(out) = NoOutput
        BY <1>1 DEF NextMessage, AfterMessage
    <2>2. Asks(p, NoOutput)
        BY DEF Asks, NoOutput, Outputs
    <2> QED
        BY <1>1, <2>1, <2>2 DEF OfPacket, AckRequest, IsOpener
<1>2. CASE out.missing # {}
    <2> DEFINE q == Min(out.missing)
               m == FragmentAt(p, out.win, q)
    <2>1. q \in out.missing
        <3>1. out.missing \in SUBSET Nat
            BY ReassemblyAssumption DEF Asks, Outputs, Positions
        <3> QED
            BY <1>2, <3>1, MinIs
    <2> HIDE DEF q
    <2>2. PICK j \in 0 .. Len(p) - 1 : j \div WindowSize = out.win /\ FragmentOf(p, j).pos = q
        BY <2>1 DEF Asks, Assigned
    <2>3. FragmentOf(p, j).win = out.win
        BY <2>2 DEF FragmentOf
    <2>4. /\ m \in {FragmentOf(p, i) : i \in 0 .. Len(p) - 1}
          /\ m.win = out.win /\ m.pos = q
        BY <2>2, <2>3 DEF FragmentAt
    <2>5. PICK i \in 0 .. Len(p) - 1 : m = FragmentOf(p, i)
        BY <2>4
    <2>6. NextMessage(p, out) = m /\ AfterMessage(out) = [out EXCEPT !.missing = @ \ {q}]
        BY <1>2 DEF NextMessage, AfterMessage, q
    <2> HIDE DEF m
    <2>7. m.kind \notin {"none", "ackreq"} /\ OfPacket(p, m)
        BY <2>5, FragmentIs DEF OfPacket
    <2>8. ~IsOpener(m)
        BY <2>1, <2>4 DEF Asks, IsOpener
    <2>9. Asks(p, AfterMessage(out))
        BY <2>6 DEF Asks, Outputs
    <2> QED
        BY <2>4, <2>6, <2>7, <2>8, <2>9 DEF q
<1> QED
    BY <1>1, <1>2

\* The output of a sender asks for what is missing of its packet.
LEMMA OutIs ==
    ASSUME FragInv, sres # None
    PROVE  Asks(Packet, sender.out)
<1>1. sender.out \in Outputs
    BY LiveIs DEF Senders
<1> QED
    BY <1>1, LiveIs, FragParts DEF Session, Asks

\* write_next_current.
LEMMA WriteOutputKeeps ==
    ASSUME FragInv, WriteOutput
    PROVE  FragInv'
<1> DEFINE m == NextMessage(Packet, sender.out)
           o == AfterMessage(sender.out)
<1>1. /\ sres > 0 /\ sres' = Inactivity /\ shold' = shold /\ UNCHANGED receiverVars
      /\ Sent(net, "a", m) /\ sender' = [sender EXCEPT !.out = o]
      /\ sender.out.missing # {} \/ sender.out.request
    BY DEF WriteOutput, SenderLive
<1>2. sres # None
    BY <1>1, FragParts DEF FragTypes, None
<1>3. sender \in Senders /\ IsPacket(Packet) /\ Asks(Packet, sender.out)
    BY <1>2, LiveIs, OutIs
<1>4. /\ OfPacket(Packet, m) /\ m.kind # "none" /\ ~IsOpener(m) /\ Asks(Packet, o)
    BY <1>3, NextMessageIs
<1>5. sender.status # "ready"
    BY <1>1, FragParts DEF Orderly, NoOutput
<1> HIDE DEF m, o
<1>6. /\ sender' \in Senders /\ sender'.ses = sender.ses /\ sender'.status = sender.status
      /\ sender'.next = sender.next /\ sender'.out = o
    BY <1>1, <1>3, <1>4 DEF Senders, Asks
<1> QED
    BY <1>1, <1>4, <1>5, <1>6, WriteKeeps DEF Asks

\* The sender ends: it is held down from now on.
LEMMA EndSenderKeeps ==
    ASSUME FragInv, sres # None, NEW st \in {"aborted", "succeeded"}, EndSender(st),
           UNCHANGED receiverVars, counter' = counter, net' \subseteq net
    PROVE  FragInv'
<1>1. sender.ses > 0 /\ sender \in Senders
    BY LiveIs
<1>2. /\ sender' = [sender EXCEPT !.status = st, !.timer = None, !.out = NoOutput]
      /\ sres' = None /\ shold' = HoldDown
    BY DEF EndSender, ReleaseSender
<1>3. /\ sender' \in Senders /\ sender'.ses = sender.ses /\ sender'.next = sender.next
      /\ sender'.status = st /\ sender'.out = NoOutput
    <2>1. NoOutput \in Outputs /\ None \in Int
        BY DEF NoOutput, Outputs, None
    <2> QED
        BY <1>1, <1>2, <2>1 DEF Senders
<1>4. sender'.out.missing = {}
    BY <1>3 DEF NoOutput
<1>5. sres' \in -1 .. Inactivity /\ shold' \in -Pause .. HoldDown
    BY <1>2, FragNumbers DEF None
<1>6. Quiet' <= Quiet
    BY QuietAnew DEF EndSender
<1> QED
    BY <1>1, <1>3, <1>4, <1>5, <1>6, SenderKeeps

\* An answer is noted, or asked for: the reservation is used.
LEMMA AskKeeps ==
    ASSUME FragInv, sres # None, sender.status = "active", NEW o, Asks(Packet, o),
           sender' \in Senders, sender'.ses = sender.ses, sender'.next = sender.next,
           sender'.status = sender.status, sender'.out = o,
           sres' = Inactivity, shold' = shold,
           UNCHANGED receiverVars, counter' = counter, net' \subseteq net
    PROVE  FragInv'
<1>1. sender.ses > 0
    BY LiveIs
<1>2. sres' \in -1 .. Inactivity /\ shold' \in -Pause .. HoldDown
    <2>1. shold \in -Pause .. HoldDown
        BY FragParts DEF FragTypes
    <2> QED
        BY <2>1, FragNumbers
<1>3. Quiet' <= Quiet
    BY QuietAnew
<1> QED
    BY <1>1, <1>2, <1>3, SenderKeeps DEF Asks

\* One more request.
LEMMA RequestKeeps ==
    ASSUME FragInv, sres # None, sender.status = "active", NEW o, Asks(Packet, o),
           NEW h \in Nat, Request(o, h),
           UNCHANGED receiverVars, counter' = counter, net' \subseteq net
    PROVE  FragInv'
<1>1. sender \in Senders /\ Retransmission \in Int
    BY LiveIs, FragNumbers
<1>2. /\ sender' = [sender EXCEPT !.attempts = @ + 1, !.timer = Retransmission, !.out = o,
                                !.ackHigh = h]
      /\ sres' = Inactivity /\ shold' = shold
    BY DEF Request
<1>3. sender' \in Senders /\ sender'.ses = sender.ses /\ sender'.next = sender.next
      /\ sender'.status = sender.status /\ sender'.out = o
    <2>1. sender.attempts + 1 \in Nat /\ o \in Outputs
        BY <1>1 DEF Senders, Asks
    <2> QED
        BY <1>1, <1>2, <2>1 DEF Senders
<1> QED
    BY <1>2, <1>3, AskKeeps

\* timeout_current.
LEMMA TimeoutKeeps ==
    ASSUME FragInv, Timeout
    PROVE  FragInv'
<1>1. /\ sender.status = "active" /\ sres > 0 /\ UNCHANGED receiverVars
      /\ net' = net /\ counter' = counter
      /\ EndSender("aborted") \/ Request(RequestOutput, sender.ackHigh)
    BY DEF Timeout, SenderLive
<1>2. sres # None
    BY <1>1, FragParts DEF FragTypes, None
<1>3. Asks(Packet, RequestOutput) /\ sender.ackHigh \in Nat
    BY <1>2, LiveIs DEF Asks, RequestOutput, NoOutput, Outputs, Senders
<1> QED
    BY <1>1, <1>2, <1>3, EndSenderKeeps, RequestKeeps

\* handle_ack_frame: an answer asks for tiles of the packet on offer.
LEMMA ReceiveControlKeeps ==
    ASSUME FragInv, ReceiveControl
    PROVE  FragInv'
<1>1. PICK f \in net : /\ f.from = "b" /\ net' = net \ {f} /\ UNCHANGED receiverVars
                       /\ counter' = counter
                       /\ IF AckAdmitted(f) THEN HandleAck(f) ELSE UNCHANGED senderVars
    BY DEF ReceiveControl, Under
<1>2. /\ FragTypes /\ Orderly /\ sender.ses > 0 /\ sender \in Senders /\ IsPacket(Packet)
      /\ Session(Packet, net, sender.next, sender.out, rbuf, rres, rtomb, delivered)
    <2>1. sender.ses \in Nat /\ net # {}
        BY <1>1, FragParts
    <2>2. sender.ses > 0
        BY <2>1, FragParts DEF Orderly
    <2> QED
        BY <2>2, FragParts DEF FragTypes
<1>3. f.ctr \in Nat /\ Answer(Packet, f.msg, delivered)
    BY <1>1, <1>2 DEF FragTypes, Frames, Session
<1>4. CASE ~AckAdmitted(f)
    <2>1. sender' = sender /\ sres' = sres /\ shold' = shold
        BY <1>1, <1>4 DEF senderVars
    <2>2. Quiet' = Quiet
        BY <2>1 DEF Quiet
    <2>3. sender.status # "idle" /\ sres \in -1 .. Inactivity /\ shold \in -Pause .. HoldDown
        BY <1>2 DEF Orderly, FragTypes
    <2>4. Quiet <= Quiet
        BY FragParts
    <2> QED
        BY <1>1, <1>2, <2>1, <2>2, <2>3, <2>4, SenderKeeps DEF Session, Orderly
<1>5. CASE AckAdmitted(f)
    <2>1. sender.status = "active" /\ sres > 0 /\ HandleAck(f)
        BY <1>1, <1>5 DEF AckAdmitted, SenderLive
    <2>2. sres # None
        BY <1>2, <2>1 DEF FragTypes, None
    <2>3. CASE \E st \in {"aborted", "succeeded"} : EndSender(st)
        BY <1>1, <2>2, <2>3, EndSenderKeeps
    <2>4. CASE f.msg = ReceiverAbort
        BY <2>1, <2>3, <2>4 DEF HandleAck, ReceiverAbort
    <2>5. CASE f.msg = Final(Packet)
        BY <2>1, <2>3, <2>5 DEF HandleAck, Final, Ack
    <2>6. CASE Partial(Packet, f.msg)
        <3>1. PICK w \in {0, 1}, map \in SUBSET Positions :
                 /\ f.msg = Ack(w, map, FALSE)
                 /\ w = 0 => 0 \in map
            BY <2>6 DEF Partial
        <3>2. f.msg.kind = "ack" /\ f.msg.complete = FALSE /\ f.msg.win = w /\ f.msg.map = map
            BY <3>1 DEF Ack
        <3> DEFINE missing == Assigned(Packet, w) \ map
        <3>3. \/ EndSender("aborted") \/ AckNoted(f)
              \/ Request(Repair(Packet, w, missing), f.ctr)
            BY <2>1, <3>2 DEF HandleAck
        <3>4. Asks(Packet, Repair(Packet, w, missing))
            <4>1. missing \subseteq Positions /\ missing \subseteq Assigned(Packet, w)
                BY <1>2, FinalIs
            <4>2. w = 0 => 0 \notin missing
                BY <3>1
            <4> HIDE DEF missing
            <4> QED
                BY <4>1, <4>2 DEF Repair, Asks, Outputs
        <3>5. CASE AckNoted(f)
            <4>1. /\ sender' \in Senders /\ sender'.ses = sender.ses /\ sender'.next = sender.next
                  /\ sender'.status = sender.status /\ sender'.out = sender.out
                BY <1>2, <1>3, <3>5 DEF AckNoted, Senders
            <4> QED
                BY <1>1, <2>1, <2>2, <3>5, <4>1, OutIs, AskKeeps DEF AckNoted
        <3> HIDE DEF missing
        <3> QED
            BY <1>1, <1>3, <2>1, <2>2, <2>3, <3>3, <3>4, <3>5, RequestKeeps
    <2> QED
        BY <1>3, <2>4, <2>5, <2>6 DEF Answer
<1> QED
    BY <1>4, <1>5

\* FragmentSender::cancel.
LEMMA CancelSenderKeeps ==
    ASSUME FragInv, CancelSender
    PROVE  FragInv'
BY EndSenderKeeps DEF CancelSender

\* Drop: the hold-down is counted from no earlier than the last use.
LEMMA DropSenderKeeps ==
    ASSUME FragInv, DropSender
    PROVE  FragInv'
<1>1. PICK age \in 0 .. Inactivity - sres :
         /\ sres # None /\ sres' = None
         /\ shold' = IF age < HoldDown THEN HoldDown - age ELSE 0
         /\ sender' = [sender EXCEPT !.status = "aborted", !.timer = None, !.out = NoOutput]
         /\ UNCHANGED receiverVars /\ net' = net /\ counter' = counter
    BY DEF DropSender
<1>2. sender.ses > 0 /\ sender \in Senders /\ sres \in 0 .. Inactivity
    BY <1>1, LiveIs
<1>3. /\ sender' \in Senders /\ sender'.ses = sender.ses /\ sender'.next = sender.next
      /\ sender'.status = "aborted" /\ sender'.out = NoOutput
    <2>1. NoOutput \in Outputs /\ None \in Int
        BY DEF NoOutput, Outputs, None
    <2> QED
        BY <1>1, <1>2, <2>1 DEF Senders
<1>4. sender'.out.missing = {}
    BY <1>3 DEF NoOutput
<1>5. PICK s \in Int : s = shold'
    BY <1>1, <1>2, FragNumbers
<1>6. s \in -Pause .. HoldDown /\ HoldDown - s <= Inactivity - sres
    BY <1>1, <1>2, <1>5, FragNumbers
<1>7. Quiet' = HoldDown - s /\ Quiet = Inactivity - sres
    BY <1>1, <1>5 DEF Quiet
<1>8. sres' \in -1 .. Inactivity
    BY <1>1, FragNumbers DEF None
<1> QED
    BY <1>1, <1>2, <1>3, <1>4, <1>5, <1>6, <1>7, <1>8, SenderKeeps

\* expire_due, the sender.
LEMMA SenderLapseKeeps ==
    ASSUME FragInv, SenderLapse
    PROVE  FragInv'
<1>1. /\ sres = 0 /\ ReleaseSender /\ sender' = sender /\ UNCHANGED receiverVars
      /\ net' = net /\ counter' = counter
    BY DEF SenderLapse
<1>2. /\ sender.ses > 0 /\ sender \in Senders /\ sender.status # "idle" /\ Orderly
      /\ Asks(Packet, sender.out)
    BY <1>1, LiveIs, OutIs, FragParts DEF None
<1>3. sres' \in -1 .. Inactivity /\ shold' \in -Pause .. HoldDown
    BY <1>1, FragNumbers DEF ReleaseSender, None
<1>4. Quiet' <= Quiet
    BY <1>1, QuietAnew
<1> QED
    BY <1>1, <1>2, <1>3, <1>4, SenderKeeps DEF Asks, Orderly

\* The types of the receiver's reservation and tombstone.
Sessions == [left : -1 .. Inactivity, high : Nat]
Tombstones == [left : -1 .. HoldDown, high : Nat,
               response : {NoResponse, ReceiverAbort} \cup Acks]

\* A step of the receiver: it takes frames, answers the packet on offer, and
\* what it starts is caused by a frame under way.
LEMMA ReceiverKeeps ==
    ASSUME FragInv, UNCHANGED senderVars,
           rres' \in Sessions, rres'.left = -1 => rres' = NoSession, rtomb' \in Tombstones,
           counter' \in [Sides -> Nat], Frames(net'),
           delivered' \in Seq({Packets[n] : n \in 1 .. sender.ses}),
           \A g \in net' : \/ g \in net
                           \/ /\ g.from = "b" /\ g.ttl = Latency /\ Quiet <= Latency
                              /\ sender.ses > 0 /\ Answer(Packet, g.msg, delivered'),
           sender.ses > 0 /\ Handed(delivered, Packet) => Handed(delivered', Packet),
           rres'.left > 0 => /\ sender.ses > 0 /\ Fits(rbuf', Packet)
                             /\ ~OpenerAhead(net', sender.next)
                             /\ rres'.left = Inactivity /\ Quiet <= Latency,
           \/ rtomb'.left = rtomb.left /\ rtomb'.response = rtomb.response
           \/ rtomb'.left <= 0
           \/ rtomb'.response \in {NoResponse, ReceiverAbort}
           \/ /\ rtomb'.left = HoldDown /\ Quiet <= Latency
              /\ sender.ses > 0 /\ rtomb'.response = Final(Packet) /\ Handed(delivered', Packet),
           sender.ses > 0 /\ Distinct /\ (OpenerAhead(net', sender.next) \/ rres'.left > 0)
              => ~Handed(delivered', Packet)
    PROVE  FragInv'
<1>1. /\ FragTypes /\ Orderly /\ InTime(net, rres, rtomb, Quiet) /\ Quiet \in Int
      /\ sender.ses \in Nat
      /\ sender.ses > 0 =>
            Session(Packet, net, sender.next, sender.out, rbuf, rres, rtomb, delivered)
    BY FragParts
<1>2. sender' = sender /\ sres' = sres /\ shold' = shold
    BY DEF senderVars
<1>3. Quiet' = Quiet
    BY <1>2 DEF Quiet
<1>4. rtomb'.left \in Int /\ rres'.left \in Int /\ rres.left \in Int /\ rtomb.left \in Int
      /\ Frames(net)
    BY <1>1 DEF FragTypes, Sessions, Tombstones
<1>5. InTime(net', rres', rtomb', Quiet)
    <2>1. \A g \in net' : g \in net \/ (g.ttl = Latency /\ Quiet <= IF g.from = "a" THEN 0 ELSE Latency)
        OBVIOUS
    <2>2. \/ rtomb'.left = rtomb.left /\ rtomb'.response = rtomb.response
          \/ rtomb'.left > 0 =>
                (rtomb'.left = HoldDown /\ Quiet <= Latency) \/ rtomb'.response.kind # "ack"
        BY <1>4 DEF NoResponse, ReceiverAbort
    <2>3. Quiet <= Quiet
        BY <1>1
    <2> QED
        BY <1>1, <1>4, <2>1, <2>2, <2>3, TimesKept
<1>6. ASSUME sender.ses > 0
      PROVE  Session(Packet, net', sender.next, sender.out, rbuf', rres', rtomb', delivered')
    <2>1. /\ Session(Packet, net, sender.next, sender.out, rbuf, rres, rtomb, delivered)
          /\ sender.out.missing \subseteq Assigned(Packet, sender.out.win)
          /\ sender.out.win = 0 => 0 \notin sender.out.missing
        BY <1>1, <1>6 DEF Session
    <2>2. rtomb'.left > 0 =>
              \/ rtomb'.response \in {NoResponse, ReceiverAbort}
              \/ rtomb'.response = Final(Packet) /\ Handed(delivered', Packet)
        BY <1>4, <1>6, <2>1 DEF Session
    <2>3. \A g \in net' : g \in net \/ (g.from = "b" /\ Answer(Packet, g.msg, delivered'))
        OBVIOUS
    <2>4. rres'.left > 0 => Fits(rbuf', Packet) /\ ~OpenerAhead(net', sender.next)
        OBVIOUS
    <2> QED
        BY <1>6, <2>1, <2>2, <2>3, <2>4, SessionReceives
<1>7. FragTypes'
    BY <1>1, <1>2 DEF FragTypes, Frames, Sessions, Tombstones
<1>8. Orderly'
    <2>1. sender.ses = 0 => net' = {} /\ rres'.left <= 0
        BY <1>1, <1>4 DEF Orderly
    <2> QED
        BY <1>1, <1>2, <2>1 DEF Orderly
<1> QED
    BY <1>2, <1>3, <1>5, <1>6, <1>7, <1>8, FragEstablished DEF Packet

\* The receiver ends without a packet: it says nothing, or that it gave up.
LEMMA EndReceiverKeeps ==
    ASSUME FragInv, UNCHANGED <<senderVars, net, counter, delivered>>,
           rres' = NoSession, NEW l \in 0 .. HoldDown, NEW a \in {NoResponse, ReceiverAbort},
           rtomb' = [left |-> l, high |-> rres.high, response |-> a]
    PROVE  FragInv'
<1>1. FragTypes /\ net' = net /\ counter' = counter /\ delivered' = delivered /\ UNCHANGED senderVars
    BY FragParts
<1>2. rres' \in Sessions /\ rres'.left = -1
    BY FragNumbers DEF NoSession, None, Sessions
<1>3. rtomb' \in Tombstones /\ rtomb'.response \in {NoResponse, ReceiverAbort}
    <2>1. rres.high \in Nat /\ l \in -1 .. HoldDown
        BY <1>1, FragNumbers DEF FragTypes
    <2> QED
        BY <2>1 DEF Tombstones
<1>4. sender.ses > 0 /\ Distinct /\ OpenerAhead(net, sender.next) => ~Handed(delivered, Packet)
    BY FragParts DEF Session
<1>5. /\ counter' \in [Sides -> Nat] /\ Frames(net')
      /\ delivered' \in Seq({Packets[n] : n \in 1 .. sender.ses})
    BY <1>1 DEF FragTypes, Frames
<1> QED
    BY <1>1, <1>2, <1>3, <1>4, <1>5, ReceiverKeeps

\* AuthenticatedFragmentReceiver::cancel.
LEMMA CancelReceiverKeeps ==
    ASSUME FragInv, CancelReceiver
    PROVE  FragInv'
<1>1. HoldDown \in 0 .. HoldDown
    BY FragNumbers
<1> QED
    BY <1>1, EndReceiverKeeps DEF CancelReceiver, EndReceiver

\* Drop, the receiver.
LEMMA DropReceiverKeeps ==
    ASSUME FragInv, DropReceiver
    PROVE  FragInv'
<1>1. PICK age \in 0 .. Inactivity - rres.left :
         rtomb' = [left |-> IF age < HoldDown THEN HoldDown - age ELSE 0,
                   high |-> rres.high, response |-> NoResponse]
    BY DEF DropReceiver
<1>2. (IF age < HoldDown THEN HoldDown - age ELSE 0) \in 0 .. HoldDown
    BY FragNumbers
<1> QED
    BY <1>1, <1>2, EndReceiverKeeps DEF DropReceiver

\* expire_due, the receiver.
LEMMA ReceiverLapseKeeps ==
    ASSUME FragInv, ReceiverLapse
    PROVE  FragInv'
<1>1. HoldDown \in 0 .. HoldDown
    BY FragNumbers
<1> QED
    BY <1>1, EndReceiverKeeps DEF ReceiverLapse, EndReceiver

\* expire_due, the tombstone.
LEMMA RetireTombstoneKeeps ==
    ASSUME FragInv, RetireTombstone
    PROVE  FragInv'
<1>1. /\ FragTypes /\ Orderly /\ InTime(net, rres, rtomb, Quiet) /\ Quiet \in Int
      /\ sender.ses > 0 =>
            Session(Packet, net, sender.next, sender.out, rbuf, rres, rtomb, delivered)
    BY FragParts
<1>2. /\ sender' = sender /\ sres' = sres /\ shold' = shold /\ rbuf' = rbuf /\ rres' = rres
      /\ net' = net /\ counter' = counter /\ delivered' = delivered
      /\ rtomb' = NoTombstone
    BY DEF RetireTombstone, senderVars
<1>3. Quiet' = Quiet
    BY <1>2 DEF Quiet
<1>4. NoTombstone.left = -1 /\ NoTombstone \in Tombstones
    BY FragNumbers DEF NoTombstone, None, Tombstones
<1>5. InTime(net, rres, NoTombstone, Quiet)
    BY <1>1, <1>4 DEF InTime
<1>6. sender.ses > 0 =>
         Session(Packet, net, sender.next, sender.out, rbuf, rres, NoTombstone, delivered)
    BY <1>1, <1>4 DEF Session
<1>7. FragTypes'
    BY <1>1, <1>2, <1>4 DEF FragTypes, Frames, Tombstones
<1>8. Orderly'
    BY <1>1, <1>2 DEF Orderly
<1> QED
    BY <1>2, <1>3, <1>5, <1>6, <1>7, <1>8, FragEstablished DEF Packet

\* Time passes.
LEMMA TickKeeps ==
    ASSUME FragInv, Tick
    PROVE  FragInv'
<1>1. /\ FragTypes /\ Orderly /\ InTime(net, rres, rtomb, Quiet) /\ Quiet \in Int
      /\ sender.ses > 0 =>
            Session(Packet, net, sender.next, sender.out, rbuf, rres, rtomb, delivered)
    BY FragParts
<1>2. /\ sender' = [sender EXCEPT !.timer = Less(@)] /\ sres' = Less(sres)
      /\ shold' = IF shold > -Pause THEN shold - 1 ELSE shold
      /\ rres' = [rres EXCEPT !.left = Less(@)] /\ rtomb' = [rtomb EXCEPT !.left = Less(@)]
      /\ net' = Older(net) /\ rbuf' = rbuf /\ counter' = counter /\ delivered' = delivered
    BY DEF Tick, Older
<1>3. /\ sender \in Senders /\ sres \in -1 .. Inactivity /\ shold \in -Pause .. HoldDown
      /\ rres \in Sessions /\ rtomb \in Tombstones /\ Frames(net)
    BY <1>1 DEF FragTypes, Sessions, Tombstones
<1>4. /\ sender' \in Senders /\ sender'.ses = sender.ses /\ sender'.next = sender.next
      /\ sender'.status = sender.status /\ sender'.out = sender.out
    <2>1. Less(sender.timer) \in Int
        BY <1>3 DEF Senders, Less
    <2> QED
        BY <1>2, <1>3, <2>1 DEF Senders
<1>5. /\ rres' \in Sessions /\ rres'.left = Less(rres.left)
      /\ rtomb' \in Tombstones /\ rtomb'.left = Less(rtomb.left) /\ rtomb'.response = rtomb.response
    <2>1. Less(rres.left) \in -1 .. Inactivity /\ Less(rtomb.left) \in -1 .. HoldDown
        BY <1>3, FragNumbers DEF Sessions, Tombstones, Less
    <2> QED
        BY <1>2, <1>3, <2>1 DEF Sessions, Tombstones
<1>6. rres.left \in Int /\ rtomb.left \in Int
    BY <1>3 DEF Sessions, Tombstones
<1>7. PICK q \in Int : q = Quiet' /\ q <= Quiet + 1
    <2>1. PICK s \in Int : s = sres' /\ s = Less(sres)
        BY <1>2, <1>3 DEF Less
    <2>2. PICK h \in Int : h = shold' /\ h = IF shold > -Pause THEN shold - 1 ELSE shold
        BY <1>2, <1>3, FragNumbers
    <2>3. Quiet' = IF s = None THEN HoldDown - h ELSE Inactivity - s
        BY <2>1, <2>2 DEF Quiet
    <2>4. (IF s = None THEN HoldDown - h ELSE Inactivity - s) <= Quiet + 1
        BY <1>3, <2>1, <2>2, FragNumbers DEF Quiet, Less, None
    <2>5. (IF s = None THEN HoldDown - h ELSE Inactivity - s) \in Int
        BY FragNumbers
    <2> QED
        BY <2>3, <2>4, <2>5
<1>8. InTime(Older(net), rres', rtomb', q)
    <2>1. ASSUME NEW f \in Older(net)
          PROVE  f.ttl + q <= IF f.from = "a" THEN Latency ELSE 2 * Latency
        <3>1. PICK g \in net : f.ttl = g.ttl - 1 /\ f.from = g.from
            BY <1>3, OlderIs
        <3>2. g.ttl \in Int /\ g.ttl + Quiet <= IF g.from = "a" THEN Latency ELSE 2 * Latency
            BY <1>1, <1>3 DEF Frames, InTime
        <3> QED
            BY <1>1, <1>7, <3>1, <3>2, FragNumbers
    <2>2. ASSUME rres'.left > 0 PROVE rres'.left + q <= Inactivity + Latency
        <3>1. rres.left > 0 /\ rres'.left = rres.left - 1
            BY <1>5, <1>6, <2>2 DEF Less
        <3>2. rres.left + Quiet <= Inactivity + Latency
            BY <1>1, <3>1 DEF InTime
        <3> QED
            BY <1>1, <1>6, <1>7, <3>1, <3>2, FragNumbers
    <2>3. ASSUME rtomb'.left > 0, rtomb'.response.kind = "ack"
          PROVE  rtomb'.left + q <= HoldDown + Latency
        <3>1. rtomb.left > 0 /\ rtomb'.left = rtomb.left - 1
            BY <1>5, <1>6, <2>3 DEF Less
        <3>2. rtomb.left + Quiet <= HoldDown + Latency
            BY <1>1, <1>5, <2>3, <3>1 DEF InTime
        <3> QED
            BY <1>1, <1>6, <1>7, <3>1, <3>2, FragNumbers
    <2> QED
        BY <2>1, <2>2, <2>3 DEF InTime
<1>9. /\ rres'.left > 0 => rres.left > 0
      /\ rtomb'.left > 0 => rtomb.left > 0
    BY <1>5, <1>6 DEF Less
<1>10. ASSUME sender.ses > 0
       PROVE  Session(Packet, Older(net), sender.next, sender.out, rbuf, rres', rtomb', delivered)
    BY <1>1, <1>3, <1>5, <1>9, <1>10, SessionTicks
<1>11. FragTypes'
    <2>1. Frames(Older(net))
        BY <1>3, OlderIs DEF Frames
    <2>2. Frames(net')
        BY <1>2, <2>1
    <2>3. sres' \in -1 .. Inactivity /\ shold' \in -Pause .. HoldDown
        <3>1. Less(sres) \in -1 .. Inactivity
              /\ (IF shold > -Pause THEN shold - 1 ELSE shold) \in -Pause .. HoldDown
            BY <1>3, FragNumbers DEF Less
        <3> QED
            BY <1>2, <3>1
    <2> QED
        BY <1>1, <1>2, <1>4, <1>5, <2>2, <2>3 DEF FragTypes, Frames, Sessions, Tombstones
<1>12. Orderly'
    <2>1. net = {} => Older(net) = {}
        BY DEF Older
    <2>2. sres = None => Less(sres) = None
        BY DEF Less, None
    <2>3. rres.left <= 0 => rres'.left <= 0
        BY <1>5, <1>6 DEF Less
    <2>4. rres'.left = -1 => rres' = NoSession
        <3>1. rres'.left = -1 => rres.left = -1
            BY <1>5, <1>6 DEF Less
        <3>2. rres.left = -1 => rres = NoSession
            BY <1>1 DEF Orderly
        <3>3. [NoSession EXCEPT !.left = Less(@)] = NoSession
            BY DEF NoSession, Less, None
        <3> QED
            BY <1>2, <3>1, <3>2, <3>3
    <2> QED
        BY <1>1, <1>2, <1>4, <2>1, <2>2, <2>3, <2>4 DEF Orderly
<1> QED
    BY <1>2, <1>4, <1>7, <1>8, <1>10, <1>11, <1>12, FragEstablished DEF Packet

\* The opening fragment starts a buffer that fits the packet.
LEMMA OpenIs ==
    ASSUME NEW p, IsPacket(p), NEW m, OfPacket(p, m), IsOpener(m)
    PROVE  LET r == Receive(EmptyBuffer, m) IN
           /\ r.aborted = FALSE /\ r.packet = <<>> /\ r.response = NoResponse
           /\ Fits(r.buf, p) /\ r.buf.attempts = 0
<1>1. Len(p) \in Nat /\ Len(p) >= 2 /\ WindowSize \in Nat /\ WindowSize >= 2
    BY ReassemblyAssumption DEF IsPacket
<1>2. m.kind = "regular" /\ m.win = 0 /\ m.pos = 0 /\ m.tile = p[1] /\ p[1] \in Tiles
    <2>1. PICK i \in 0 .. Len(p) - 1 : m = FragmentOf(p, i)
        BY DEF OfPacket, AckRequest, IsOpener
    <2>2. i = 0
        BY <2>1, FragmentIs
    <2> QED
        BY <2>1, <2>2, FragmentIs DEF IsOpener
<1>3. Ordinal(m) = 0 /\ 0 \in 0 .. 2 * WindowSize - 1 /\ p[1] # NoTile
    BY <1>1, <1>2 DEF Ordinal, IsPacket
<1> DEFINE e == [i \in 0 .. 2 * WindowSize - 1 |-> NoTile]
           t == [e EXCEPT ![0] = p[1]]
           b == [tiles |-> t, all1 |-> NoTile, attempts |-> 0]
<1>4. Receive(EmptyBuffer, m) = Silent([EmptyBuffer EXCEPT !.tiles[0] = p[1]])
    <2>1. EmptyBuffer.all1 = NoTile /\ EmptyBuffer.tiles[0] = NoTile
        BY <1>3 DEF EmptyBuffer
    <2> QED
        BY <1>2, <1>3, <2>1 DEF Receive, ReceiveRegular
<1>5. [EmptyBuffer EXCEPT !.tiles[0] = p[1]] = b
    <2>1. EmptyBuffer = [tiles |-> e, all1 |-> NoTile, attempts |-> 0]
        BY DEF EmptyBuffer
    <2> HIDE DEF e
    <2> QED
        BY <2>1
<1>6. t \in [0 .. 2 * WindowSize - 1 -> Tiles \cup {NoTile}] /\ t[0] = p[1]
      /\ \A i \in 0 .. 2 * WindowSize - 1 : i # 0 => t[i] = NoTile
    BY <1>2, <1>3
<1> HIDE DEF t
<1>7. Fits(b, p)
    BY <1>1, <1>3, <1>6 DEF Fits
<1> HIDE DEF b
<1> QED
    BY <1>4, <1>5, <1>7 DEF Silent, Result, b

\* The frames and counters after the receiver has taken f and answered.
LEMMA SentIs ==
    ASSUME FragInv, NEW f \in net, NEW m, Sent(net \ {f}, "b", m)
    PROVE  /\ counter' \in [Sides -> Nat] /\ Frames(net')
           /\ \A g \in net' : \/ g \in net \ {f}
                              \/ /\ g.from = "b" /\ g.ttl = Latency /\ g.msg = m
                                 /\ m.kind # "none" /\ g.ctr = counter["b"] + 1
<1>1. counter \in [Sides -> Nat] /\ Frames(net)
    BY FragParts DEF FragTypes
<1>2. CASE m.kind = "none"
    BY <1>1, <1>2 DEF Sent, Frames
<1>3. CASE m.kind # "none"
    <2> DEFINE c == counter["b"] + 1
               new == [from |-> "b", ctr |-> c, ttl |-> Latency, msg |-> m]
    <2>1. net' = (net \ {f}) \cup {new} /\ counter' = [counter EXCEPT !["b"] = @ + 1]
        BY <1>3 DEF Sent
    <2>2. c \in Nat /\ counter' \in [Sides -> Nat]
        BY <1>1, <2>1 DEF Sides
    <2>3. new.from = "b" /\ new.ttl = Latency /\ new.msg = m /\ new.ctr = c
        OBVIOUS
    <2>4. Latency \in 0 .. Latency /\ "b" \in Sides
        BY FragNumbers DEF Sides
    <2> HIDE DEF c
    <2>5. new = [from |-> new.from, ctr |-> new.ctr, ttl |-> new.ttl, msg |-> new.msg]
        OBVIOUS
    <2> HIDE DEF new
    <2>6. Frames(net')
        BY <1>1, <2>1, <2>2, <2>3, <2>4, <2>5 DEF Frames
    <2> QED
        BY <1>3, <2>1, <2>2, <2>3, <2>6 DEF c
<1> QED
    BY <1>2, <1>3

\* A message of the packet on the live session.
LEMMA ReceiveLiveKeeps ==
    ASSUME FragInv, NEW f \in net, f.from = "a", rres.left > 0, ReceiveIn(rres, f),
           UNCHANGED senderVars
    PROVE  FragInv'
<1>1. FragTypes /\ Orderly /\ InTime(net, rres, rtomb, Quiet) /\ Quiet \in Int /\ sender.ses \in Nat
    BY FragParts
<1>2. /\ sender.ses > 0 /\ sender.ses \in 1 .. Len(Packets) /\ IsPacket(Packet)
      /\ Session(Packet, net, sender.next, sender.out, rbuf, rres, rtomb, delivered)
    <2>1. sender.ses > 0
        BY <1>1 DEF Orderly
    <2> QED
        BY <2>1, FragParts
<1>3. /\ OfPacket(Packet, f.msg) /\ Fits(rbuf, Packet) /\ ~OpenerAhead(net, sender.next)
      /\ Distinct => ~Handed(delivered, Packet)
    BY <1>2 DEF Session
<1>4. Quiet <= Latency /\ f.ctr \in Nat
    <2>1. f.ttl \in 0 .. Latency /\ f.ttl + Quiet <= Latency /\ f.ctr \in Nat
        BY <1>1 DEF FragTypes, Frames, InTime
    <2> QED
        BY <1>1, <2>1, FragNumbers
<1>5. rres # NoSession /\ rres.left # 0 /\ rres \in Sessions /\ rtomb \in Tombstones
    <2>1. rres \in Sessions /\ rtomb \in Tombstones
        BY <1>1 DEF FragTypes, Sessions, Tombstones
    <2>2. rres.left \in Int
        BY <2>1 DEF Sessions
    <2> QED
        BY <2>1, <2>2 DEF NoSession, None
<1> DEFINE r == Receive(rbuf, f.msg)
<1>6. IF r.aborted \/ r.packet # <<>>
      THEN /\ EndReceiver(f.ctr, r.response)
           /\ delivered' = IF r.packet = <<>> THEN delivered ELSE Append(delivered, r.packet)
           /\ Sent(net \ {f}, "b", r.response)
      ELSE /\ rres' = [left |-> Inactivity, high |-> f.ctr] /\ rbuf' = r.buf
           /\ Sent(net \ {f}, "b", r.response) /\ delivered' = delivered /\ rtomb' = rtomb
    BY <1>5 DEF ReceiveIn
<1>7. IF IsRequest(f.msg) THEN Answers(r, rbuf, Packet) ELSE Stores(r, rbuf, Packet)
    <2>1. IsPacket(Packet) /\ Fits(rbuf, Packet) /\ OfPacket(Packet, f.msg)
        BY <1>2, <1>3
    <2> QED
        BY <2>1, ReceiveIs
<1> HIDE DEF r
<1>8. Sent(net \ {f}, "b", r.response)
    BY <1>6
<1>9. /\ counter' \in [Sides -> Nat] /\ Frames(net')
      /\ \A g \in net' : \/ g \in net \ {f}
                         \/ /\ g.from = "b" /\ g.ttl = Latency /\ g.msg = r.response
                            /\ r.response.kind # "none"
    BY <1>8, SentIs
<1>10. ~OpenerAhead(net', sender.next)
    BY <1>3, <1>9 DEF OpenerAhead
<1> DEFINE S == {Packets[n] : n \in 1 .. sender.ses}
<1>11. delivered \in Seq(S) /\ Packet \in S
    BY <1>1, <1>2 DEF FragTypes, Packet
<1> HIDE DEF S
<1>12. NoSession \in Sessions /\ NoSession.left = -1 /\ HoldDown \in -1 .. HoldDown
    BY FragNumbers DEF NoSession, None, Sessions
<1>13. CASE r = AbortResult
    <2>1. r.aborted = TRUE /\ r.packet = <<>> /\ r.response = ReceiverAbort
        BY <1>13 DEF AbortResult, Result
    <2>2. /\ rres' = NoSession /\ delivered' = delivered
          /\ rtomb' = [left |-> HoldDown, high |-> f.ctr, response |-> ReceiverAbort]
        BY <1>6, <2>1 DEF EndReceiver
    <2>3. rtomb' \in Tombstones /\ rtomb'.response = ReceiverAbort
        BY <1>4, <1>12, <2>2 DEF Tombstones
    <2>4. Answer(Packet, ReceiverAbort, delivered')
        BY DEF Answer
    <2>5. delivered' \in Seq(S)
        BY <1>11, <2>2
    <2> QED
        BY <1>2, <1>4, <1>9, <1>10, <1>12, <2>1, <2>2, <2>3, <2>4, <2>5, ReceiverKeeps DEF S
<1>14. CASE r.aborted = FALSE /\ r.packet = Packet /\ r.response = Final(Packet)
    <2>1. Packet # <<>>
        BY <1>2 DEF IsPacket
    <2>2. /\ rres' = NoSession /\ delivered' = Append(delivered, Packet)
          /\ rtomb' = [left |-> HoldDown, high |-> f.ctr, response |-> Final(Packet)]
        BY <1>6, <1>14, <2>1 DEF EndReceiver
    <2>3. Final(Packet) \in Acks
        BY <1>2, FinalIs DEF Final, Ack, Acks
    <2>4. rtomb' \in Tombstones /\ rtomb'.response = Final(Packet) /\ rtomb'.left = HoldDown
        BY <1>4, <1>12, <2>2, <2>3 DEF Tombstones
    <2>5. delivered' \in Seq(S)
        BY <1>11, <2>2
    <2>6. Handed(delivered', Packet)
        <3>1. Len(delivered) + 1 \in DOMAIN delivered' /\ delivered'[Len(delivered) + 1] = Packet
            BY <1>11, <2>2
        <3> QED
            BY <3>1 DEF Handed
    <2>7. Answer(Packet, Final(Packet), delivered')
        BY <2>6 DEF Answer
    <2> QED
        BY <1>2, <1>4, <1>9, <1>10, <1>12, <1>14, <2>2, <2>4, <2>5, <2>6, <2>7, ReceiverKeeps DEF S
<1>15. CASE /\ r.aborted = FALSE /\ r.packet = <<>> /\ Fits(r.buf, Packet)
            /\ r.response = NoResponse \/ Partial(Packet, r.response)
    <2>1. /\ rres' = [left |-> Inactivity, high |-> f.ctr] /\ rbuf' = r.buf
          /\ delivered' = delivered /\ rtomb' = rtomb
        BY <1>6, <1>15
    <2>2. rres' \in Sessions /\ rres'.left = Inactivity /\ rres'.left # -1
        BY <1>4, <2>1, FragNumbers DEF Sessions
    <2>3. r.response.kind # "none" => Answer(Packet, r.response, delivered')
        BY <1>15 DEF Answer, NoResponse
    <2>4. delivered' \in Seq(S)
        BY <1>11, <2>1
    <2>5. Fits(rbuf', Packet)
        BY <1>15, <2>1
    <2> QED
        BY <1>2, <1>3, <1>4, <1>5, <1>9, <1>10, <2>1, <2>2, <2>3, <2>4, <2>5, ReceiverKeeps DEF S
<1> QED
    BY <1>7, <1>13, <1>14, <1>15 DEF Answers, Stores

\* A session is opened by the opening fragment.
LEMMA OpenKeeps ==
    ASSUME FragInv, NEW f \in net, f.from = "a", IsOpener(f.msg), ReceiveIn(NoSession, f),
           UNCHANGED senderVars
    PROVE  FragInv'
<1>1. FragTypes /\ Orderly /\ InTime(net, rres, rtomb, Quiet) /\ Quiet \in Int /\ sender.ses \in Nat
    BY FragParts
<1>2. /\ sender.ses > 0 /\ IsPacket(Packet)
      /\ Session(Packet, net, sender.next, sender.out, rbuf, rres, rtomb, delivered)
    <2>1. sender.ses > 0
        BY <1>1 DEF Orderly
    <2> QED
        BY <2>1, FragParts
<1>3. OfPacket(Packet, f.msg) /\ OpenerAhead(net, sender.next) /\ ~OpenerAhead(net \ {f}, sender.next)
    BY <1>2 DEF Session, OpenerAhead
<1>4. Quiet <= Latency /\ f.ctr \in Nat
    <2>1. f.ttl \in 0 .. Latency /\ f.ttl + Quiet <= Latency /\ f.ctr \in Nat
        BY <1>1 DEF FragTypes, Frames, InTime
    <2> QED
        BY <1>1, <2>1, FragNumbers
<1> DEFINE r == Receive(EmptyBuffer, f.msg)
<1>5. /\ r.aborted = FALSE /\ r.packet = <<>> /\ r.response = NoResponse
      /\ Fits(r.buf, Packet)
    BY <1>2, <1>3, OpenIs
<1>6. /\ rres' = [left |-> Inactivity, high |-> f.ctr] /\ rbuf' = r.buf
      /\ Sent(net \ {f}, "b", NoResponse) /\ delivered' = delivered /\ rtomb' = NoTombstone
    BY <1>5 DEF ReceiveIn
<1> HIDE DEF r
<1>7. net' = net \ {f} /\ counter' = counter
    BY <1>6 DEF Sent, NoResponse
<1>8. rres' \in Sessions /\ rres'.left = Inactivity /\ rres'.left # -1
    BY <1>4, <1>6, FragNumbers DEF Sessions
<1>9. rtomb' \in Tombstones /\ rtomb'.response = NoResponse
    BY <1>6, FragNumbers DEF NoTombstone, None, Tombstones
<1>10. /\ counter' \in [Sides -> Nat] /\ Frames(net')
       /\ delivered' \in Seq({Packets[n] : n \in 1 .. sender.ses})
    BY <1>1, <1>6, <1>7 DEF FragTypes, Frames
<1>11. Distinct => ~Handed(delivered', Packet)
    BY <1>2, <1>3, <1>6 DEF Session
<1>12. ~OpenerAhead(net', sender.next) /\ Fits(rbuf', Packet)
    BY <1>3, <1>5, <1>6, <1>7
<1> QED
    BY <1>2, <1>4, <1>6, <1>7, <1>8, <1>9, <1>10, <1>11, <1>12, ReceiverKeeps

\* replay_receiver_terminal: the tombstone answers for the packet on offer.
LEMMA ReplayKeeps ==
    ASSUME FragInv, NEW f \in net, f.from = "a", rres = NoSession, ReplayTerminal(f),
           UNCHANGED senderVars
    PROVE  FragInv'
<1>1. FragTypes /\ Orderly /\ InTime(net, rres, rtomb, Quiet) /\ Quiet \in Int /\ sender.ses \in Nat
    BY FragParts
<1>2. /\ sender.ses > 0
      /\ Session(Packet, net, sender.next, sender.out, rbuf, rres, rtomb, delivered)
    <2>1. sender.ses > 0
        BY <1>1 DEF Orderly
    <2> QED
        BY <2>1, FragParts
<1>3. Quiet <= Latency /\ f.ctr \in Nat
    <2>1. f.ttl \in 0 .. Latency /\ f.ttl + Quiet <= Latency /\ f.ctr \in Nat
        BY <1>1 DEF FragTypes, Frames, InTime
    <2> QED
        BY <1>1, <2>1, FragNumbers
<1> DEFINE m == IF rtomb.left > 0 /\ f.msg.kind \in {"all1", "ackreq"}
                THEN rtomb.response ELSE NoResponse
<1>4. /\ rtomb' = [rtomb EXCEPT !.high = f.ctr] /\ Sent(net \ {f}, "b", m)
      /\ rbuf' = rbuf /\ rres' = rres /\ delivered' = delivered
    BY DEF ReplayTerminal
<1>5. m.kind # "none" => Answer(Packet, m, delivered)
    BY <1>2 DEF Session, Answer, NoResponse
<1> HIDE DEF m
<1>6. /\ counter' \in [Sides -> Nat] /\ Frames(net')
      /\ \A g \in net' : \/ g \in net \ {f}
                         \/ /\ g.from = "b" /\ g.ttl = Latency /\ g.msg = m /\ m.kind # "none"
    BY <1>4, SentIs
<1>7. /\ rtomb' \in Tombstones /\ rtomb'.left = rtomb.left /\ rtomb'.response = rtomb.response
    <2>1. rtomb \in Tombstones
        BY <1>1 DEF FragTypes, Tombstones
    <2> QED
        BY <1>3, <1>4, <2>1 DEF Tombstones
<1>8. rres' \in Sessions /\ rres' = NoSession /\ rres'.left = -1
    BY <1>4, FragNumbers DEF NoSession, None, Sessions
<1>9. delivered' \in Seq({Packets[n] : n \in 1 .. sender.ses})
    BY <1>1, <1>4 DEF FragTypes
<1>10. Distinct /\ OpenerAhead(net', sender.next) => ~Handed(delivered', Packet)
    <2>1. OpenerAhead(net', sender.next) => OpenerAhead(net, sender.next)
        BY <1>6 DEF OpenerAhead
    <2> QED
        BY <1>2, <1>4, <2>1 DEF Session
<1> QED
    BY <1>2, <1>3, <1>4, <1>5, <1>6, <1>7, <1>8, <1>9, <1>10, ReceiverKeeps

\* A frame is discarded.
LEMMA DiscardKeeps ==
    ASSUME FragInv, NEW f \in net, Discard(f), UNCHANGED senderVars
    PROVE  FragInv'
<1>1. FragTypes /\ Orderly /\ sender.ses \in Nat /\ Quiet \in Int
    BY FragParts
<1>2. /\ net' = net \ {f} /\ counter' = counter /\ UNCHANGED receiverVars
      /\ sender' = sender /\ sres' = sres /\ shold' = shold
    BY DEF Discard, senderVars
<1>3. sender.ses > 0 /\ sender \in Senders
    BY <1>1 DEF Orderly, FragTypes
<1>4. Session(Packet, net, sender.next, sender.out, rbuf, rres, rtomb, delivered)
    BY <1>3, FragParts
<1>5. Quiet' = Quiet /\ Quiet <= Quiet
    BY <1>1, <1>2 DEF Quiet
<1>6. /\ sres \in -1 .. Inactivity /\ shold \in -Pause .. HoldDown
      /\ sender.status # "idle"
      /\ sender.status = "ready" => sender.next = 1 /\ sender.out = NoOutput
    BY <1>1, <1>3 DEF FragTypes, Orderly
<1> QED
    BY <1>2, <1>3, <1>4, <1>5, <1>6, SenderKeeps DEF Session

\* receive_verified, with the caller that polls first.
LEMMA ReceiveDataKeeps ==
    ASSUME FragInv, PollFirst, ReceiveData
    PROVE  FragInv'
<1>1. PICK f \in net :
         /\ f.from = "a" /\ rres.left # 0 /\ UNCHANGED senderVars
         /\ \/ rres # NoSession /\ ReceiveIn(rres, f)
            \/ Discard(f)
            \/ IsOpener(f.msg) /\ ReceiveIn(NoSession, f)
            \/ rres = NoSession /\ ReplayTerminal(f)
    BY DEF ReceiveData, Under
<1>2. rres # NoSession => rres.left > 0
    <2>1. rres.left \in -1 .. Inactivity /\ (rres.left = -1 => rres = NoSession)
        BY FragParts DEF FragTypes, Orderly
    <2> QED
        BY <1>1, <2>1, FragNumbers
<1> QED
    BY <1>1, <1>2, ReceiveLiveKeeps, DiscardKeeps, OpenKeeps, ReplayKeeps

\* The initial state.
LEMMA FragStarts ==
    ASSUME FragInit
    PROVE  FragInv
<1>1. /\ sender = [ses |-> 0, status |-> "idle", attempts |-> 0, ackHigh |-> 0,
                   timer |-> None, next |-> 1, out |-> NoOutput]
      /\ sres = None /\ shold = -Pause /\ rres = NoSession /\ rtomb = NoTombstone
      /\ net = {} /\ counter = [s \in Sides |-> 0] /\ delivered = <<>>
    BY DEF FragInit
<1>2. sender \in Senders
    <2>1. 0 \in 0 .. Len(Packets) /\ NoOutput \in Outputs
        BY FragNumbers DEF NoOutput, Outputs
    <2> QED
        BY <1>1, <2>1 DEF Senders, None
<1>3. rres \in Sessions /\ rtomb \in Tombstones /\ rres.left = -1 /\ rtomb.left = -1
    BY <1>1, FragNumbers DEF NoSession, NoTombstone, None, Sessions, Tombstones
<1>4. sres \in -1 .. Inactivity /\ shold \in -Pause .. HoldDown
    BY <1>1, FragNumbers DEF None
<1>5. FragTypes
    BY <1>1, <1>2, <1>3, <1>4 DEF FragTypes, Frames, Sessions, Tombstones
<1>6. Orderly
    BY <1>1, <1>3 DEF Orderly
<1>7. InTime(net, rres, rtomb, Quiet)
    BY <1>1, <1>3 DEF InTime
<1> QED
    BY <1>1, <1>5, <1>6, <1>7 DEF FragInv

\* Every step keeps the invariant.
LEMMA FragSteps ==
    ASSUME PollFirst, Patient, FragInv, [FragNext]_fragVars
    PROVE  FragInv'
<1>1. CASE UNCHANGED fragVars
    <2>1. /\ sender' = sender /\ sres' = sres /\ shold' = shold /\ rbuf' = rbuf /\ rres' = rres
          /\ rtomb' = rtomb /\ net' = net /\ counter' = counter /\ delivered' = delivered
        BY <1>1 DEF fragVars
    <2>2. FragTypes' /\ Orderly'
        BY <2>1, FragParts DEF FragTypes, Orderly, Frames
    <2>3. Quiet' = Quiet
        BY <2>1 DEF Quiet
    <2> QED
        BY <2>1, <2>2, <2>3, FragParts, FragEstablished DEF Packet
<1>2. CASE SenderNext
    BY <1>2, OfferKeeps, StartKeeps, WriteFragmentKeeps, WriteOutputKeeps, TimeoutKeeps,
       ReceiveControlKeeps, CancelSenderKeeps, DropSenderKeeps, SenderLapseKeeps DEF SenderNext
<1>3. CASE ReceiverNext
    BY <1>3, ReceiveDataKeeps, CancelReceiverKeeps, DropReceiverKeeps, ReceiverLapseKeeps,
       RetireTombstoneKeeps DEF ReceiverNext
<1>4. CASE Tick
    BY <1>4, TickKeeps
<1> QED
    BY <1>1, <1>2, <1>3, <1>4 DEF FragNext

\* The invariant holds.
LEMMA FragHolds ==
    ASSUME PollFirst, Patient
    PROVE  FragSpec => []FragInv
<1>1. FragInit => FragInv
    BY FragStarts
<1>2. FragInv /\ [FragNext]_fragVars => FragInv'
    BY FragSteps
<1> QED
    BY <1>1, <1>2, PTL DEF FragSpec

(* An ACK under way is about the packet on offer, and one for its final     *)
(* window leaves a tile to repair: handle_ack_inner never aborts over a      *)
(* bitmap that finalize built.  The caller polls expiry before each frame     *)
(* and is patient: it waits after a hold-down for the frames under way.       *)
THEOREM RepairIsPossible ==
    ASSUME PollFirst, Patient
    PROVE  FragSpec => []RepairPossible
<1>1. FragInv => RepairPossible
    <2> SUFFICES ASSUME FragInv, NEW f \in Under("b"), sender.status = "active",
                        f.msg.kind = "ack", ~f.msg.complete, f.msg.win = FinalWindow(Packet)
                 PROVE  ~(Assigned(Packet, f.msg.win) \subseteq f.msg.map)
        BY DEF RepairPossible
    <2>1. f \in net /\ f.from = "b" /\ sender.ses > 0
        BY FragParts DEF Under, Orderly
    <2>2. Answer(Packet, f.msg, delivered)
        BY <2>1, FragParts DEF Session
    <2>3. Partial(Packet, f.msg)
        BY <2>2 DEF Answer, ReceiverAbort, Final, Ack
    <2> QED
        BY <2>3 DEF Partial, Ack
<1> QED
    BY <1>1, FragHolds, PTL

-----------------------------------------------------------------------------
(* The refinement.                                                          *)

\* The abstract state.
Outcome(status) ==
    CASE status \in {"ready", "active"} -> "open"
      [] status = "aborted" -> "failed"
      [] OTHER -> status
Numbers(dl) == [i \in DOMAIN dl |-> CHOOSE n \in DOMAIN Packets : Packets[n] = dl[i]]

\* What was handed over has a number, the packet's own.
LEMMA NumbersAre ==
    ASSUME Distinct, NEW k \in 0 .. Len(Packets),
           NEW dl \in Seq({Packets[n] : n \in 1 .. k})
    PROVE  /\ Numbers(dl) \in Seq(DOMAIN Packets) /\ Len(Numbers(dl)) = Len(dl)
           /\ \A i \in DOMAIN dl : dl[i] = Packets[Numbers(dl)[i]]
           /\ \A m \in DOMAIN Packets : Handed(dl, Packets[m]) <=> \E i \in DOMAIN Numbers(dl) : Numbers(dl)[i] = m
           /\ \A m \in DOMAIN Packets : Numbers(Append(dl, Packets[m])) = Append(Numbers(dl), m)
<1> DEFINE S == {Packets[n] : n \in 1 .. k}
           Num(d) == CHOOSE n \in DOMAIN Packets : Packets[n] = d
<1>1. DOMAIN Packets = 1 .. Len(Packets) /\ Len(Packets) \in Nat
    BY FragmentationAssumption
<1>2. \A m \in DOMAIN Packets : Num(Packets[m]) = m
    BY DEF Distinct
<1>3. \A d \in S : Num(d) \in DOMAIN Packets /\ Packets[Num(d)] = d
    <2>1. \A n \in 1 .. k : n \in DOMAIN Packets
        BY <1>1
    <2> QED
        BY <2>1
<1>4. Numbers(dl) = [i \in DOMAIN dl |-> Num(dl[i])]
    BY DEF Numbers
<1>5. \A m : Numbers(Append(dl, Packets[m]))
                = [i \in DOMAIN Append(dl, Packets[m]) |-> Num(Append(dl, Packets[m])[i])]
    BY DEF Numbers
<1>6. dl \in Seq(S)
    OBVIOUS
<1> HIDE DEF S, Num
<1>7. DOMAIN dl = 1 .. Len(dl) /\ Len(dl) \in Nat /\ \A i \in DOMAIN dl : dl[i] \in S
    BY <1>6
<1>8. /\ Numbers(dl) \in Seq(DOMAIN Packets) /\ Len(Numbers(dl)) = Len(dl)
      /\ DOMAIN Numbers(dl) = DOMAIN dl
      /\ \A i \in DOMAIN dl : Numbers(dl)[i] = Num(dl[i])
    BY <1>3, <1>4, <1>7
<1>9. \A i \in DOMAIN dl : dl[i] = Packets[Numbers(dl)[i]]
    BY <1>3, <1>7, <1>8
<1>10. ASSUME NEW m \in DOMAIN Packets
       PROVE  Handed(dl, Packets[m]) <=> \E i \in DOMAIN Numbers(dl) : Numbers(dl)[i] = m
    BY <1>2, <1>8, <1>9 DEF Handed
<1>11. ASSUME NEW m \in DOMAIN Packets
       PROVE  Numbers(Append(dl, Packets[m])) = Append(Numbers(dl), m)
    <2> DEFINE a == Append(dl, Packets[m])
    <2>1. DOMAIN a = 1 .. Len(dl) + 1
        BY <1>6, <1>7
    <2>2. \A i \in 1 .. Len(dl) + 1 : a[i] = IF i <= Len(dl) THEN dl[i] ELSE Packets[m]
        BY <1>6, <1>7
    <2>3. Numbers(a) = [i \in 1 .. Len(dl) + 1 |-> Num(a[i])]
        BY <1>5, <2>1
    <2>4. Append(Numbers(dl), m) = [i \in 1 .. Len(dl) + 1 |->
                                      IF i <= Len(dl) THEN Numbers(dl)[i] ELSE m]
        <3>1. Numbers(dl) \in Seq(DOMAIN Packets) /\ Len(Numbers(dl)) = Len(dl)
            BY <1>8
        <3> DEFINE n == Numbers(dl)
        <3> HIDE DEF n
        <3>2. DOMAIN Append(n, m) = 1 .. Len(n) + 1
            BY <3>1 DEF n
        <3>3. \A i \in 1 .. Len(n) + 1 : Append(n, m)[i] = IF i <= Len(n) THEN n[i] ELSE m
            BY <3>1 DEF n
        <3> DEFINE T == DOMAIN Packets
        <3>4. n \in Seq(T) /\ m \in T
            BY <3>1 DEF n
        <3> HIDE DEF T
        <3> DEFINE x == Append(n, m)
        <3>5. x \in Seq(T)
            BY <3>4
        <3> HIDE DEF x
        <3>6. x = [i \in 1 .. Len(x) |-> x[i]] /\ DOMAIN x = 1 .. Len(x)
            BY <3>5
        <3>7. x = [i \in 1 .. Len(n) + 1 |-> IF i <= Len(n) THEN n[i] ELSE m]
            BY <3>2, <3>3, <3>6 DEF x
        <3> QED
            BY <3>1, <3>7 DEF n, x
    <2>5. \A i \in 1 .. Len(dl) + 1 : Num(a[i]) = IF i <= Len(dl) THEN Numbers(dl)[i] ELSE m
        BY <1>2, <1>7, <1>8, <2>2
    <2> QED
        BY <2>3, <2>4, <2>5
<1> QED
    BY <1>8, <1>9, <1>10, <1>11

\* What a step of the sender does to the packets: the next is offered, the one
\* on offer ends, with success only once it is handed over, or nothing.
LEMMA SenderDoes ==
    ASSUME FragInv, SenderNext
    PROVE  /\ delivered' = delivered
           /\ \/ sender.ses < Len(Packets) /\ sender'.ses = sender.ses + 1 /\ sender'.status = "ready"
              \/ sender'.ses = sender.ses /\ Outcome(sender'.status) = Outcome(sender.status)
              \/ /\ sender'.ses = sender.ses /\ sender.status \in {"ready", "active"}
                 /\ \/ sender'.status = "aborted"
                    \/ sender'.status = "succeeded" /\ Handed(delivered, Packet)
<1>1. sender \in Senders
    BY FragParts DEF FragTypes
<1>2. ASSUME NEW st, EndSender(st)
      PROVE  sender'.ses = sender.ses /\ sender'.status = st
    BY <1>1, <1>2 DEF EndSender, Senders
<1>3. ASSUME NEW o, NEW h, Request(o, h)
      PROVE  sender'.ses = sender.ses /\ sender'.status = sender.status
    BY <1>1, <1>3 DEF Request, Senders
<1>4. CASE Offer
    BY <1>4 DEF Offer, NewSender, receiverVars
<1>5. CASE Start
    BY <1>1, <1>5 DEF Start, receiverVars, Senders, Outcome
<1>6. CASE WriteFragment \/ WriteOutput
    BY <1>1, <1>6 DEF WriteFragment, WriteOutput, receiverVars, Senders
<1>7. CASE Timeout
    BY <1>2, <1>3, <1>7 DEF Timeout, receiverVars
<1>8. CASE ReceiveControl
    <2>1. PICK f \in net : /\ f.from = "b" /\ delivered' = delivered
                           /\ IF AckAdmitted(f) THEN HandleAck(f) ELSE UNCHANGED senderVars
        BY <1>8 DEF ReceiveControl, Under, receiverVars
    <2>2. CASE ~AckAdmitted(f)
        BY <2>1, <2>2 DEF senderVars
    <2>3. CASE AckAdmitted(f)
        <3>1. sender.status = "active" /\ HandleAck(f)
            BY <2>1, <2>3 DEF AckAdmitted
        <3>2. sender.ses > 0
            BY <3>1, FragParts DEF Orderly
        <3>3. Answer(Packet, f.msg, delivered)
            BY <2>1, <3>2, FragParts DEF Session
        <3>4. CASE f.msg = ReceiverAbort
            BY <1>2, <2>1, <3>1, <3>4 DEF HandleAck, ReceiverAbort
        <3>5. CASE f.msg = Final(Packet) /\ Handed(delivered, Packet)
            BY <1>2, <2>1, <3>1, <3>5 DEF HandleAck, Final, Ack
        <3>6. CASE Partial(Packet, f.msg)
            <4>1. f.msg.kind = "ack" /\ f.msg.complete = FALSE
                BY <3>6 DEF Partial, Ack
            <4>2. \/ EndSender("aborted") \/ AckNoted(f)
                  \/ \E o : Request(o, f.ctr)
                BY <3>1, <4>1 DEF HandleAck
            <4>3. CASE AckNoted(f)
                BY <1>1, <2>1, <4>3 DEF AckNoted, Senders
            <4> QED
                BY <1>2, <1>3, <2>1, <3>1, <4>2, <4>3
        <3> QED
            BY <3>3, <3>4, <3>5, <3>6 DEF Answer
    <2> QED
        BY <2>2, <2>3
<1>9. CASE CancelSender
    BY <1>2, <1>9 DEF CancelSender, receiverVars
<1>10. CASE DropSender
    BY <1>1, <1>10 DEF DropSender, receiverVars, Senders
<1>11. CASE SenderLapse
    BY <1>11 DEF SenderLapse, receiverVars
<1> QED
    BY <1>4, <1>5, <1>6, <1>7, <1>8, <1>9, <1>10, <1>11 DEF SenderNext

\* What a step of the receiver does to the packets: the one on offer is handed
\* over, for the first time, or nothing.
LEMMA ReceiverDoes ==
    ASSUME FragInv, PollFirst, ReceiverNext
    PROVE  /\ sender' = sender
           /\ \/ delivered' = delivered
              \/ /\ sender.ses > 0 /\ delivered' = Append(delivered, Packet)
                 /\ Distinct => ~Handed(delivered, Packet)
<1>1. CASE ReceiveData
    <2>1. PICK f \in net :
             /\ f.from = "a" /\ rres.left # 0 /\ UNCHANGED senderVars
             /\ \/ rres # NoSession /\ ReceiveIn(rres, f)
                \/ Discard(f)
                \/ IsOpener(f.msg) /\ ReceiveIn(NoSession, f)
                \/ rres = NoSession /\ ReplayTerminal(f)
        BY <1>1 DEF ReceiveData, Under
    <2>2. rres # NoSession => rres.left > 0
        <3>1. rres.left \in -1 .. Inactivity /\ (rres.left = -1 => rres = NoSession)
            BY FragParts DEF FragTypes, Orderly
        <3> QED
            BY <2>1, <3>1, FragNumbers
    <2>3. /\ sender.ses > 0 /\ IsPacket(Packet) /\ sender' = sender
          /\ Session(Packet, net, sender.next, sender.out, rbuf, rres, rtomb, delivered)
        <3>1. sender.ses > 0
            BY <2>1, FragParts DEF Orderly
        <3> QED
            BY <2>1, <3>1, FragParts DEF senderVars
    <2>4. OfPacket(Packet, f.msg)
        BY <2>1, <2>3 DEF Session
    <2>5. CASE Discard(f) \/ ReplayTerminal(f)
        BY <2>3, <2>5 DEF Discard, ReplayTerminal, receiverVars
    <2>6. CASE IsOpener(f.msg) /\ ReceiveIn(NoSession, f)
        <3>1. LET r == Receive(EmptyBuffer, f.msg) IN r.aborted = FALSE /\ r.packet = <<>>
            BY <2>3, <2>4, <2>6, OpenIs
        <3> QED
            BY <2>3, <2>6, <3>1 DEF ReceiveIn
    <2>7. CASE rres # NoSession /\ ReceiveIn(rres, f)
        <3> DEFINE r == Receive(rbuf, f.msg)
        <3>1. Fits(rbuf, Packet) /\ (Distinct => ~Handed(delivered, Packet))
            BY <2>2, <2>3, <2>7 DEF Session
        <3>2. IF IsRequest(f.msg) THEN Answers(r, rbuf, Packet) ELSE Stores(r, rbuf, Packet)
            BY <2>3, <2>4, <3>1, ReceiveIs
        <3>3. delivered' \in {delivered, Append(delivered, r.packet)}
              /\ (r.packet = <<>> => delivered' = delivered)
            BY <2>7 DEF ReceiveIn
        <3> HIDE DEF r
        <3>4. r.packet = <<>> \/ r.packet = Packet
            BY <3>2 DEF Answers, Stores, AbortResult, Result
        <3> QED
            BY <2>3, <3>1, <3>3, <3>4
    <2> QED
        BY <2>1, <2>5, <2>6, <2>7
<1>2. CASE CancelReceiver \/ DropReceiver \/ ReceiverLapse \/ RetireTombstone
    BY <1>2 DEF CancelReceiver, DropReceiver, ReceiverLapse, RetireTombstone, senderVars
<1> QED
    BY <1>1, <1>2 DEF ReceiverNext

(* Fragmentation implements PacketTransfer: every packet is handed over at   *)
(* most once, while it is on offer, and reported as sent only when it was.   *)
(* The packets are told apart by what they hold, so no two are the same; the  *)
(* caller polls expiry before each frame and is patient.                      *)
THEOREM TransferRefinement ==
    ASSUME PollFirst, Patient, Distinct
    PROVE  FragSpec => ImplementsTransfer
<1>1. FragInit => Transfer!Init
    <2> SUFFICES ASSUME FragInit PROVE Transfer!Init
        OBVIOUS
    <2> QED
        BY DEF FragInit, Transfer!Init
<1>2. ASSUME FragInv, [FragNext]_fragVars
      PROVE  [Transfer!Next]_(Transfer!vars)
    <2> DEFINE was == Outcome(sender.status)
               is == Outcome(sender'.status)
               had == Numbers(delivered)
               has == Numbers(delivered')
    <2>1. /\ sender.ses \in 0 .. Len(Packets) /\ Len(Packets) \in Nat
          /\ delivered \in Seq({Packets[n] : n \in 1 .. sender.ses})
          /\ sender.ses > 0 => sender.ses \in DOMAIN Packets /\ Packet = Packets[sender.ses]
        <3>1. sender \in Senders /\ delivered \in Seq({Packets[n] : n \in 1 .. sender.ses})
            BY <1>2, FragParts DEF FragTypes
        <3>2. sender.ses \in 0 .. Len(Packets) /\ Len(Packets) \in Nat
            BY <3>1, FragNumbers DEF Senders
        <3>3. DOMAIN Packets = 1 .. Len(Packets)
            BY FragmentationAssumption
        <3>4. sender.ses > 0 => sender.ses \in 1 .. Len(Packets)
            BY <3>2
        <3> QED
            BY <3>1, <3>2, <3>3, <3>4 DEF Packet
    <2>2. /\ \A m \in DOMAIN Packets : Handed(delivered, Packets[m])
                                          <=> \E i \in DOMAIN had : had[i] = m
          /\ \A m \in DOMAIN Packets : Numbers(Append(delivered, Packets[m])) = Append(had, m)
        BY <2>1, NumbersAre
    <2>3. \/ sender.ses < Len(Packets) /\ sender'.ses = sender.ses + 1 /\ is = "open" /\ has = had
          \/ sender'.ses = sender.ses /\ is = was /\ has = had
          \/ sender'.ses = sender.ses /\ was = "open" /\ is = "failed" /\ has = had
          \/ /\ sender'.ses = sender.ses /\ was = "open" /\ is = "succeeded" /\ has = had
             /\ \E i \in DOMAIN had : had[i] = sender.ses
          \/ /\ sender.ses # 0 /\ sender'.ses = sender.ses /\ is = was
             /\ \A i \in DOMAIN had : had[i] # sender.ses
             /\ has = Append(had, sender.ses)
        <3>1. CASE UNCHANGED fragVars
            BY <3>1 DEF fragVars
        <3>2. CASE SenderNext
            <4>1. \/ sender.ses < Len(Packets) /\ sender'.ses = sender.ses + 1 /\ sender'.status = "ready"
                  \/ sender'.ses = sender.ses /\ is = was
                  \/ /\ sender'.ses = sender.ses /\ sender.status \in {"ready", "active"}
                     /\ \/ sender'.status = "aborted"
                        \/ sender'.status = "succeeded" /\ Handed(delivered, Packet)
                BY <1>2, <3>2, SenderDoes
            <4>2. has = had
                BY <1>2, <3>2, SenderDoes
            <4>3. sender.status \in {"ready", "active"} => sender.ses > 0
                BY <1>2, FragParts DEF Orderly
            <4>4. \A st : /\ st \in {"ready", "active"} => Outcome(st) = "open"
                           /\ Outcome("aborted") = "failed" /\ Outcome("succeeded") = "succeeded"
                BY DEF Outcome
            <4>5. /\ sender'.status = "ready" => is = "open"
                  /\ sender'.status = "aborted" => is = "failed"
                  /\ sender'.status = "succeeded" => is = "succeeded"
                  /\ sender.status \in {"ready", "active"} => was = "open"
                BY <4>4
            <4> HIDE DEF is, was, had, has
            <4>6. sender.ses > 0 /\ Handed(delivered, Packet) => \E i \in DOMAIN had : had[i] = sender.ses
                BY <2>1, <2>2
            <4> QED
                BY <4>1, <4>2, <4>3, <4>5, <4>6
        <3>3. CASE ReceiverNext
            <4>1. /\ sender' = sender
                  /\ \/ delivered' = delivered
                     \/ /\ sender.ses > 0 /\ delivered' = Append(delivered, Packet)
                        /\ ~Handed(delivered, Packet)
                BY <1>2, <3>3, ReceiverDoes
            <4>2. is = was
                BY <4>1
            <4>3. delivered' = delivered => has = had
                OBVIOUS
            <4>4. sender.ses > 0 /\ delivered' = Append(delivered, Packet) => has = Append(had, sender.ses)
                BY <2>1, <2>2
            <4>5. sender.ses > 0 /\ ~Handed(delivered, Packet) => \A i \in DOMAIN had : had[i] # sender.ses
                BY <2>1, <2>2
            <4> HIDE DEF is, was, had, has
            <4>6. sender.ses > 0 => sender.ses # 0
                OBVIOUS
            <4> QED
                BY <4>1, <4>2, <4>3, <4>4, <4>5, <4>6
        <3>4. CASE Tick
            <4>1. sender'.ses = sender.ses /\ sender'.status = sender.status /\ delivered' = delivered
                BY <1>2, <3>4, FragParts DEF Tick, FragTypes, Senders
            <4> QED
                BY <4>1
        <3> QED
            BY <1>2, <3>1, <3>2, <3>3, <3>4 DEF FragNext
    <2> QED
        BY <2>3 DEF Transfer!Next, Transfer!Offer, Transfer!HandOver, Transfer!Succeed, Transfer!Fail,
                    Transfer!vars, Outcome, Numbers
<1> QED
    BY <1>1, <1>2, FragHolds, PTL DEF FragSpec, ImplementsTransfer, Transfer!Spec

-----------------------------------------------------------------------------
(* The requests of a session.                                               *)

\* No new frame of the sender: no more requests.
LEMMA RequestsFewer ==
    ASSUME NEW N, IsFiniteSet(N), NEW N2, Requests(N2) \subseteq Requests(N)
    PROVE  /\ IsFiniteSet(Requests(N)) /\ Cardinality(Requests(N)) \in Nat
           /\ Cardinality(Requests(N2)) \in Nat
           /\ Cardinality(Requests(N2)) <= Cardinality(Requests(N))
<1>1. Requests(N) \in SUBSET N
    BY DEF Requests
<1>2. IsFiniteSet(Requests(N))
    BY <1>1, FS_Subset
<1>3. IsFiniteSet(Requests(N2)) /\ Cardinality(Requests(N2)) <= Cardinality(Requests(N))
    BY <1>2, FS_Subset
<1> QED
    BY <1>2, <1>3, FS_CardinalityType

\* One frame more: at most one request more.
LEMMA RequestsMore ==
    ASSUME NEW N, IsFiniteSet(N), NEW f
    PROVE  /\ IsFiniteSet(N \cup {f}) /\ Cardinality(Requests(N \cup {f})) \in Nat
           /\ Cardinality(Requests(N \cup {f}))
                 <= Cardinality(Requests(N)) + IF IsRequest(f.msg) THEN 1 ELSE 0
<1>1. IsFiniteSet(N \cup {f})
    BY FS_AddElement
<1>2. IsFiniteSet(Requests(N)) /\ Cardinality(Requests(N)) \in Nat
    BY RequestsFewer
<1> DEFINE r == Requests(N)
           r2 == Requests(N \cup {f})
<1>3. r2 \subseteq r \/ (IsRequest(f.msg) /\ r2 = r \cup {f})
    BY DEF Requests
<1>4. CASE r2 \subseteq r
    <2>1. Cardinality(r2) \in Nat /\ Cardinality(r2) <= Cardinality(r)
        BY <1>4, RequestsFewer
    <2> HIDE DEF r, r2
    <2> QED
        BY <1>1, <1>2, <2>1 DEF r, r2
<1>5. CASE IsRequest(f.msg) /\ r2 = r \cup {f}
    <2>1. Cardinality(r \cup {f}) = IF f \in r THEN Cardinality(r) ELSE Cardinality(r) + 1
        BY <1>2, FS_AddElement
    <2> HIDE DEF r, r2
    <2>2. Cardinality(r) \in Nat
        BY <1>2 DEF r
    <2>3. Cardinality(r2) \in Nat /\ Cardinality(r2) <= Cardinality(r) + 1
        BY <1>5, <2>1, <2>2
    <2> QED
        BY <1>1, <1>5, <2>3 DEF r, r2
<1> QED
    BY <1>3, <1>4, <1>5

\* A request is taken: one less.
LEMMA RequestsLess ==
    ASSUME NEW N, IsFiniteSet(N), NEW f \in Requests(N), NEW N2,
           Requests(N2) \subseteq Requests(N) \ {f}
    PROVE  Cardinality(Requests(N2)) \in Nat
           /\ Cardinality(Requests(N2)) <= Cardinality(Requests(N)) - 1
<1>1. IsFiniteSet(Requests(N)) /\ Cardinality(Requests(N)) \in Nat
    BY RequestsFewer
<1>2. IsFiniteSet(Requests(N) \ {f}) /\ Cardinality(Requests(N) \ {f}) = Cardinality(Requests(N)) - 1
    BY <1>1, FS_RemoveElement
<1>3. IsFiniteSet(Requests(N2)) /\ Cardinality(Requests(N2)) <= Cardinality(Requests(N) \ {f})
    BY <1>2, FS_Subset
<1> QED
    BY <1>2, <1>3, FS_CardinalityType

\* A tick leaves no more requests than there were.
LEMMA RequestsOlder ==
    ASSUME NEW N, IsFiniteSet(N), Frames(N)
    PROVE  /\ IsFiniteSet(Older(N)) /\ Cardinality(Requests(Older(N))) \in Nat
           /\ Cardinality(Requests(Older(N))) <= Cardinality(Requests(N))
<1> DEFINE Aged(f) == [f EXCEPT !.ttl = @ - 1]
<1>1. ASSUME NEW S, IsFiniteSet(S), NEW T, T \subseteq {Aged(g) : g \in S}
      PROVE  IsFiniteSet(T) /\ Cardinality(T) \in Nat /\ Cardinality(T) <= Cardinality(S)
    <2> DEFINE A == {Aged(g) : g \in S}
               m == [g \in S |-> Aged(g)]
    <2>1. m \in Surjection(S, A)
        BY DEF Surjection
    <2>2. IsFiniteSet(A) /\ Cardinality(A) <= Cardinality(S)
        BY <1>1, <2>1, FS_Surjection
    <2>3. IsFiniteSet(T) /\ Cardinality(T) <= Cardinality(A)
        BY <1>1, <2>2, FS_Subset
    <2> QED
        BY <1>1, <2>2, <2>3, FS_CardinalityType
<1>2. Older(N) \subseteq {Aged(g) : g \in N}
    BY DEF Older
<1>3. Requests(Older(N)) \subseteq {Aged(g) : g \in Requests(N)}
    <2> SUFFICES ASSUME NEW f \in Older(N), f.from = "a", IsRequest(f.msg)
                 PROVE  \E g \in Requests(N) : f = Aged(g)
        BY DEF Requests
    <2>1. PICK g \in N : g.ttl > 0 /\ f = Aged(g)
        BY DEF Older
    <2>2. g = [from |-> g.from, ctr |-> g.ctr, ttl |-> g.ttl, msg |-> g.msg]
        BY DEF Frames
    <2>3. f.from = g.from /\ f.msg = g.msg
        BY <2>1, <2>2
    <2> QED
        BY <2>1, <2>3 DEF Requests
<1>4. IsFiniteSet(Requests(N))
    BY RequestsFewer
<1> QED
    BY <1>1, <1>2, <1>3, <1>4

\* The terms of the sum.
LEMMA CountParts ==
    ASSUME FragInv, Counted
    PROVE  /\ IsFiniteSet(net) /\ Cardinality(Requests(net)) \in Nat
           /\ Given(rres, rbuf) \in Nat /\ sender.attempts \in Nat
<1>1. IsFiniteSet(net) /\ Cardinality(Requests(net)) \in Nat
    BY RequestsFewer DEF Counted
<1>2. sender.attempts \in Nat
    BY FragParts DEF FragTypes, Senders
<1>3. ASSUME rres.left > 0 PROVE rbuf.attempts \in Nat
    <2>1. sender.ses > 0
        <3>1. rres.left \in Int
            BY FragParts DEF FragTypes
        <3> QED
            BY <1>3, <3>1, FragParts DEF Orderly
    <2>2. Fits(rbuf, Packet)
        BY <1>3, <2>1, FragParts DEF Session
    <2> QED
        BY <2>2 DEF Fits
<1> QED
    BY <1>1, <1>2, <1>3 DEF Given

\* The sum after a step.
LEMMA CountEstablished ==
    ASSUME IsFiniteSet(net'), \A f \in net' : f.ctr <= counter'[f.from],
           sender'.status = "ready" => sender'.attempts = 0,
           sender'.ses > 0 =>
              /\ sender'.attempts <= MaxAckRequests
              /\ ~(sender'.out.request /\ AsksAll1(Packets[sender'.ses], sender'.out))
              /\ ToWrite(Packets[sender'.ses], sender') + ToAsk(Packets[sender'.ses], sender'.out)
                    + Cardinality(Requests(net')) + Given(rres', rbuf') <= sender'.attempts
    PROVE  Counted'
BY DEF Counted, Packet, AsksAll1, ToWrite, ToAsk, Requests, Given, FinalWindow, IsRequest

\* A step that gives the sender d more attempts adds no more than d requests.
LEMMA CountsKept ==
    ASSUME FragInv, Counted, sender.ses > 0, sender'.ses = sender.ses,
           IsFiniteSet(net'), \A f \in net' : f.ctr <= counter'[f.from],
           sender'.status = "ready" => sender'.attempts = 0,
           ~(sender'.out.request /\ AsksAll1(Packet, sender'.out)),
           NEW d \in Nat, sender'.attempts = sender.attempts + d,
           d = 0 \/ sender.attempts + d <= MaxAckRequests,
           NEW k \in Int, Cardinality(Requests(net')) \in Nat,
           Cardinality(Requests(net')) <= Cardinality(Requests(net)) + k,
           NEW g \in Int, Given(rres', rbuf') \in Nat,
           Given(rres', rbuf') <= Given(rres, rbuf) + g,
           ToWrite(Packet, sender') + ToAsk(Packet, sender'.out) + k + g
              <= ToWrite(Packet, sender) + ToAsk(Packet, sender.out) + d
    PROVE  Counted'
<1>1. /\ Cardinality(Requests(net)) \in Nat /\ Given(rres, rbuf) \in Nat /\ sender.attempts \in Nat
    BY CountParts
<1>2. /\ sender.attempts <= MaxAckRequests
      /\ ToWrite(Packet, sender) + ToAsk(Packet, sender.out)
            + Cardinality(Requests(net)) + Given(rres, rbuf) <= sender.attempts
    BY DEF Counted
<1> DEFINE w == ToWrite(Packet, sender) + ToAsk(Packet, sender.out)
           w2 == ToWrite(Packet, sender') + ToAsk(Packet, sender'.out)
<1>3. w \in Nat /\ w2 \in Nat
    BY DEF ToWrite, ToAsk
<1>4. MaxAckRequests \in Nat
    BY ReassemblyAssumption
<1>5. PICK c \in Nat : c = Cardinality(Requests(net'))
    OBVIOUS
<1>6. PICK h \in Nat : h = Given(rres', rbuf')
    OBVIOUS
<1>7. w + Cardinality(Requests(net)) + Given(rres, rbuf) <= sender.attempts /\ w2 + k + g <= w + d
    BY <1>2
<1> HIDE DEF w, w2
<1>8. w2 + c + h <= sender.attempts + d
    BY <1>1, <1>3, <1>5, <1>6, <1>7
<1>9. sender.attempts + d <= MaxAckRequests
    BY <1>1, <1>2, <1>4
<1>10. Packets[sender'.ses] = Packet
    BY DEF Packet
<1> QED
    BY <1>5, <1>6, <1>8, <1>9, <1>10, CountEstablished DEF w2

\* A step of the sender that writes nothing.
LEMMA SenderCounts ==
    ASSUME FragInv, Counted, sender.ses > 0, sender'.ses = sender.ses,
           net' \subseteq net, counter' = counter, UNCHANGED receiverVars,
           sender'.status = "ready" => sender'.attempts = 0,
           ~(sender'.out.request /\ AsksAll1(Packet, sender'.out)),
           NEW d \in Nat, sender'.attempts = sender.attempts + d,
           d = 0 \/ sender.attempts + d <= MaxAckRequests,
           ToWrite(Packet, sender') + ToAsk(Packet, sender'.out)
              <= ToWrite(Packet, sender) + ToAsk(Packet, sender.out) + d
    PROVE  Counted'
<1>1. rres' = rres /\ rbuf' = rbuf
    BY DEF receiverVars
<1>2. IsFiniteSet(net) /\ Given(rres, rbuf) \in Nat
    BY CountParts
<1>3. IsFiniteSet(net')
    BY <1>2, FS_Subset
<1>4. Requests(net') \subseteq Requests(net)
    BY DEF Requests
<1>5. Cardinality(Requests(net')) \in Nat
      /\ Cardinality(Requests(net')) <= Cardinality(Requests(net)) /\ Cardinality(Requests(net)) \in Nat
    BY <1>2, <1>4, RequestsFewer
<1>6. \A f \in net' : f.ctr <= counter'[f.from]
    BY DEF Counted
<1>7. Cardinality(Requests(net')) <= Cardinality(Requests(net)) + 0
    BY <1>5
<1>8. Given(rres', rbuf') \in Nat /\ Given(rres', rbuf') <= Given(rres, rbuf) + 0
    BY <1>1, <1>2
<1>9. ToWrite(Packet, sender') + ToAsk(Packet, sender'.out) + 0 + 0
         <= ToWrite(Packet, sender) + ToAsk(Packet, sender.out) + d
    BY DEF ToWrite, ToAsk
<1> QED
    BY <1>3, <1>5, <1>6, <1>7, <1>8, <1>9, CountsKept

\* An ended sender has nothing to write.
LEMMA EndCounts ==
    ASSUME FragInv, Counted, sender.ses > 0, sender'.ses = sender.ses,
           net' \subseteq net, counter' = counter, UNCHANGED receiverVars,
           sender'.status \in {"aborted", "succeeded"}, sender'.out = NoOutput,
           sender'.attempts = sender.attempts
    PROVE  Counted'
<1>1. sender'.out.request = FALSE /\ sender'.out.missing = {}
    BY DEF NoOutput
<1>2. ~AsksAll1(Packet, sender'.out)
    BY <1>1 DEF AsksAll1
<1>3. ToWrite(Packet, sender') = 0 /\ ToAsk(Packet, sender'.out) = 0
    BY <1>1, <1>2 DEF ToWrite, ToAsk
<1>4. ToWrite(Packet, sender) + ToAsk(Packet, sender.out) \in Nat
    BY DEF ToWrite, ToAsk
<1>5. sender.attempts \in Nat
    BY CountParts
<1>6. sender'.attempts = sender.attempts + 0
    BY <1>5
<1>7. ToWrite(Packet, sender') + ToAsk(Packet, sender'.out)
         <= ToWrite(Packet, sender) + ToAsk(Packet, sender.out) + 0
    BY <1>3, <1>4
<1> QED
    BY <1>1, <1>6, <1>7, SenderCounts

\* Nothing the sums depend on has changed.
LEMMA IdleCounts ==
    ASSUME FragInv, Counted, sender.ses > 0, sender'.ses = sender.ses,
           net' \subseteq net, counter' = counter, UNCHANGED receiverVars,
           sender'.status = sender.status, sender'.next = sender.next, sender'.out = sender.out,
           sender'.attempts = sender.attempts
    PROVE  Counted'
<1>1. sender.attempts \in Nat
    BY CountParts
<1>2. sender'.attempts = sender.attempts + 0
    BY <1>1
<1>3. ToWrite(Packet, sender') + ToAsk(Packet, sender'.out)
         <= ToWrite(Packet, sender) + ToAsk(Packet, sender.out) + 0
    BY DEF ToWrite, ToAsk
<1> QED
    BY <1>2, <1>3, SenderCounts DEF Counted

\* One more attempt, and one more request to be written.
LEMMA RequestCounts ==
    ASSUME FragInv, Counted, sender.ses > 0, sender.status = "active", NEW o, NEW h, Request(o, h),
           ~(o.request /\ AsksAll1(Packet, o)), ~(sender.attempts >= MaxAckRequests),
           net' \subseteq net, counter' = counter, UNCHANGED receiverVars
    PROVE  Counted'
<1>1. sender \in Senders /\ sender.attempts \in Nat /\ MaxAckRequests \in Nat
    BY FragParts, CountParts, ReassemblyAssumption DEF FragTypes
<1>2. /\ sender'.ses = sender.ses /\ sender'.status = sender.status /\ sender'.next = sender.next
      /\ sender'.out = o /\ sender'.attempts = sender.attempts + 1
    BY <1>1 DEF Request, Senders
<1>3. ToWrite(Packet, sender') = ToWrite(Packet, sender)
    BY <1>2 DEF ToWrite
<1>4. ToWrite(Packet, sender') + ToAsk(Packet, sender'.out)
         <= ToWrite(Packet, sender) + ToAsk(Packet, sender.out) + 1
    BY <1>3 DEF ToWrite, ToAsk
<1>5. sender.attempts + 1 <= MaxAckRequests
    BY <1>1
<1> QED
    BY <1>2, <1>4, <1>5, SenderCounts

\* A message is written.
LEMMA WriteCounts ==
    ASSUME FragInv, Counted, sender.ses > 0, sender'.ses = sender.ses, NEW m, m.kind # "none",
           Sent(net, "a", m), UNCHANGED receiverVars,
           sender'.status = sender.status, sender'.attempts = sender.attempts,
           ~(sender'.out.request /\ AsksAll1(Packet, sender'.out)),
           ToWrite(Packet, sender') + ToAsk(Packet, sender'.out) + (IF IsRequest(m) THEN 1 ELSE 0)
              <= ToWrite(Packet, sender) + ToAsk(Packet, sender.out)
    PROVE  Counted'
<1>1. rres' = rres /\ rbuf' = rbuf /\ counter \in [Sides -> Nat] /\ Frames(net)
    BY FragParts DEF receiverVars, FragTypes
<1>2. IsFiniteSet(net) /\ Given(rres, rbuf) \in Nat /\ sender.attempts \in Nat
    BY CountParts
<1> DEFINE c == counter["a"] + 1
           f == [from |-> "a", ctr |-> c, ttl |-> Latency, msg |-> m]
           k == IF IsRequest(m) THEN 1 ELSE 0
<1>3. net' = net \cup {f} /\ counter' = [counter EXCEPT !["a"] = @ + 1]
    BY DEF Sent
<1>4. f.msg = m /\ f.from = "a" /\ f.ctr = c
    OBVIOUS
<1>5. \A g \in net : g.ctr \in Nat /\ g.from \in Sides /\ g.ctr <= counter[g.from]
    BY <1>1 DEF Counted, Frames
<1>6. counter' \in [Sides -> Nat] /\ counter'["a"] = c /\ \A s \in Sides : counter[s] <= counter'[s]
    BY <1>1, <1>3 DEF Sides
<1> HIDE DEF c
<1>7. \A g \in net' : g.ctr <= counter'[g.from]
    <2> SUFFICES ASSUME NEW g \in net' PROVE g.ctr <= counter'[g.from]
        OBVIOUS
    <2>1. CASE g \in net
        <3>1. g.ctr \in Nat /\ counter[g.from] \in Nat /\ counter'[g.from] \in Nat
              /\ g.ctr <= counter[g.from] /\ counter[g.from] <= counter'[g.from]
            BY <1>1, <1>5, <1>6, <2>1
        <3> QED
            BY <3>1
    <2>2. CASE g = f
        <3>1. counter'["a"] \in Nat
            BY <1>6 DEF Sides
        <3> QED
            BY <1>4, <1>6, <2>2, <3>1
    <2> QED
        BY <1>3, <2>1, <2>2
<1> HIDE DEF f
<1>8. /\ IsFiniteSet(net') /\ Cardinality(Requests(net')) \in Nat
      /\ Cardinality(Requests(net')) <= Cardinality(Requests(net)) + k
    BY <1>2, <1>3, <1>4, RequestsMore
<1>9. Given(rres', rbuf') \in Nat /\ Given(rres', rbuf') <= Given(rres, rbuf) + 0
    BY <1>1, <1>2
<1>10. sender'.attempts = sender.attempts + 0
    BY <1>2
<1>11. /\ k \in Int
       /\ ToWrite(Packet, sender') + ToAsk(Packet, sender'.out) + k + 0
             <= ToWrite(Packet, sender) + ToAsk(Packet, sender.out) + 0
    BY DEF ToWrite, ToAsk
<1>12. sender'.status = "ready" => sender'.attempts = 0
    BY DEF Counted
<1> HIDE DEF k
<1> QED
    BY <1>7, <1>8, <1>9, <1>10, <1>11, <1>12, CountsKept

\* The All-1 is the last fragment.
LEMMA RequestIs ==
    ASSUME NEW p, IsPacket(p), NEW i \in 0 .. Len(p) - 1
    PROVE  /\ IsRequest(FragmentOf(p, i)) <=> i + 1 = Len(p)
           /\ IsRequest(FragmentOf(p, i)) =>
                FragmentOf(p, i).win = FinalWindow(p) /\ FragmentOf(p, i).pos = LastPosition
<1>1. /\ FragmentOf(p, i).kind = IF i + 1 = Len(p) THEN "all1" ELSE "regular"
      /\ i + 1 = Len(p) => FragmentOf(p, i).win = FinalWindow(p)
                           /\ FragmentOf(p, i).pos = WindowSize - 1
    BY FragmentIs
<1> QED
    BY <1>1 DEF IsRequest, LastPosition

\* The sender's steps keep the count.
LEMMA SenderNextCounts ==
    ASSUME Patient, FragInv, Counted, SenderNext
    PROVE  Counted'
<1>1. sender \in Senders /\ sender.attempts \in Nat /\ MaxAckRequests \in Nat \ {0}
    BY FragParts, CountParts, ReassemblyAssumption DEF FragTypes
<1>2. ASSUME sender.status \notin {"idle"}
      PROVE  sender.ses > 0
    BY <1>2, FragParts DEF Orderly
<1>3. CASE Offer
    <2>1. /\ sender' = [ses |-> sender.ses + 1, status |-> "ready", attempts |-> 0, ackHigh |-> 0,
                        timer |-> None, next |-> 1, out |-> NoOutput]
          /\ net' = net /\ rres' = rres /\ rbuf' = rbuf /\ counter' = counter
        BY <1>3 DEF Offer, NewSender, receiverVars
    <2>2. net = {} /\ ~(rres.left > 0)
        BY <1>3, NothingLeft
    <2>3. Requests(net') = {} /\ IsFiniteSet(net')
        BY <2>1, <2>2, FS_EmptySet DEF Requests
    <2>4. Cardinality(Requests(net')) = 0
        BY <2>3, FS_EmptySet
    <2>5. Given(rres', rbuf') = 0
        BY <2>1, <2>2 DEF Given
    <2>6. sender'.status = "ready" /\ sender'.attempts = 0 /\ sender'.out.request = FALSE
          /\ sender'.out.missing = {}
        BY <2>1 DEF NoOutput
    <2>7. \A p : ToWrite(p, sender') = 0 /\ ToAsk(p, sender'.out) = 0
        BY <2>6 DEF ToWrite, ToAsk, AsksAll1
    <2> QED
        BY <1>1, <2>1, <2>2, <2>4, <2>3, <2>5, <2>6, <2>7, CountEstablished
<1>4. CASE Start
    <2>1. /\ sender.status = "ready" /\ net' = net /\ counter' = counter /\ UNCHANGED receiverVars
          /\ sender' = [sender EXCEPT !.status = "active", !.attempts = 1, !.timer = Retransmission]
        BY <1>4 DEF Start
    <2>2. /\ sender'.status = "active" /\ sender'.ses = sender.ses /\ sender'.next = sender.next
          /\ sender'.out = sender.out /\ sender'.attempts = 1
        BY <1>1, <2>1 DEF Senders
    <2>3. sender.attempts = 0 /\ ~(sender.out.request /\ AsksAll1(Packet, sender.out)) /\ sender.ses > 0
        BY <1>2, <2>1 DEF Counted
    <2>4. sender'.attempts = sender.attempts + 1 /\ sender.attempts + 1 <= MaxAckRequests
        BY <1>1, <2>2, <2>3
    <2>5. ToWrite(Packet, sender') + ToAsk(Packet, sender'.out)
             <= ToWrite(Packet, sender) + ToAsk(Packet, sender.out) + 1
        BY <2>2 DEF ToWrite, ToAsk
    <2> QED
        BY <2>1, <2>2, <2>3, <2>4, <2>5, SenderCounts
<1>5. CASE WriteFragment
    <2> DEFINE i == sender.next - 1
               m == Fragments(Packet)[sender.next]
    <2>1. /\ sender.status = "active" /\ sender.next <= Len(Packet)
          /\ Sent(net, "a", m) /\ sender' = [sender EXCEPT !.next = @ + 1]
          /\ UNCHANGED receiverVars
        BY <1>5 DEF WriteFragment
    <2>2. sender.ses > 0 /\ IsPacket(Packet)
        BY <1>2, <2>1, FragParts
    <2>3. sender.next \in Nat \ {0} /\ Len(Packet) \in Nat
        BY <1>1, <2>2 DEF Senders, IsPacket
    <2>4. i \in 0 .. Len(Packet) - 1 /\ sender.next \in 1 .. Len(Packet)
        BY <2>1, <2>3
    <2>5. m = FragmentOf(Packet, i)
        BY <2>4 DEF Fragments
    <2>6. m.kind # "none" /\ (IsRequest(m) <=> i + 1 = Len(Packet))
        BY <2>2, <2>4, <2>5, FragmentIs, RequestIs
    <2>7. /\ sender'.ses = sender.ses /\ sender'.status = sender.status
          /\ sender'.attempts = sender.attempts /\ sender'.next = sender.next + 1
          /\ sender'.out = sender.out
        BY <1>1, <2>1, <2>3 DEF Senders
    <2>8. i + 1 = sender.next
        BY <2>3
    <2> HIDE DEF m, i
    <2>9. ToWrite(Packet, sender') + (IF IsRequest(m) THEN 1 ELSE 0) <= ToWrite(Packet, sender)
        BY <2>1, <2>3, <2>6, <2>7, <2>8 DEF ToWrite
    <2>10. ToAsk(Packet, sender'.out) = ToAsk(Packet, sender.out)
        BY <2>7
    <2>11. ToWrite(Packet, sender') + ToAsk(Packet, sender'.out) + (IF IsRequest(m) THEN 1 ELSE 0)
              <= ToWrite(Packet, sender) + ToAsk(Packet, sender.out)
        BY <2>9, <2>10 DEF ToWrite, ToAsk
    <2>12. ~(sender'.out.request /\ AsksAll1(Packet, sender'.out))
        BY <2>2, <2>7 DEF Counted
    <2> QED
        BY <2>1, <2>2, <2>6, <2>7, <2>11, <2>12, WriteCounts
<1>6. CASE WriteOutput
    <2> DEFINE m == NextMessage(Packet, sender.out)
               o == AfterMessage(sender.out)
    <2>1. /\ sres > 0 /\ Sent(net, "a", m) /\ sender' = [sender EXCEPT !.out = o]
          /\ UNCHANGED receiverVars
          /\ sender.out.missing # {} \/ sender.out.request
        BY <1>6 DEF WriteOutput, SenderLive
    <2>2. sres # None
        BY <2>1, FragParts DEF FragTypes, None
    <2>3. sender.ses > 0 /\ IsPacket(Packet) /\ Asks(Packet, sender.out)
        BY <2>2, LiveIs, OutIs
    <2>4. ~(sender.out.request /\ AsksAll1(Packet, sender.out))
        BY <2>3 DEF Counted
    <2>5. /\ OfPacket(Packet, m) /\ m.kind # "none"
          /\ sender.out.missing # {} =>
                m.kind # "ackreq" /\ m.win = sender.out.win /\ m.pos = Min(sender.out.missing)
        BY <2>3, NextMessageIs
    <2>6. /\ sender'.ses = sender.ses /\ sender'.status = sender.status
          /\ sender'.attempts = sender.attempts /\ sender'.next = sender.next /\ sender'.out = o
        <3> HIDE DEF m, o
        <3> QED
            BY <1>1, <2>1 DEF Senders
    <2>7. /\ ~(o.request /\ AsksAll1(Packet, o))
          /\ ToAsk(Packet, o) + (IF IsRequest(m) THEN 1 ELSE 0) <= ToAsk(Packet, sender.out)
        <3>1. CASE sender.out.missing = {}
            <4>1. o = NoOutput /\ sender.out.request
                BY <2>1, <3>1 DEF AfterMessage
            <4>2. ToAsk(Packet, sender.out) = 1
                BY <4>1 DEF ToAsk
            <4>3. ToAsk(Packet, NoOutput) = 0 /\ NoOutput.request = FALSE
                BY DEF ToAsk, NoOutput, AsksAll1
            <4> QED
                BY <4>1, <4>2, <4>3
        <3>2. CASE sender.out.missing # {}
            <4> DEFINE q == Min(sender.out.missing)
            <4> HIDE DEF q, m
            <4>1. o = [sender.out EXCEPT !.missing = @ \ {q}]
                BY <3>2 DEF AfterMessage, q
            <4>2. /\ o.request = sender.out.request /\ o.win = sender.out.win
                  /\ o.missing = sender.out.missing \ {q}
                BY <2>3, <4>1 DEF Asks, Outputs
            <4> HIDE DEF o
            <4>3. AsksAll1(Packet, o) => AsksAll1(Packet, sender.out)
                BY <4>2 DEF AsksAll1
            <4>4. CASE IsRequest(m)
                <5>1. PICK j \in 0 .. Len(Packet) - 1 : m = FragmentOf(Packet, j)
                    BY <2>5, <3>2 DEF OfPacket, AckRequest
                <5>2. sender.out.win = FinalWindow(Packet) /\ q = LastPosition
                    BY <2>3, <2>5, <3>2, <4>4, <5>1, RequestIs DEF q
                <5>3. q \in sender.out.missing
                    <6>1. sender.out.missing \in SUBSET Nat
                        BY <2>3, ReassemblyAssumption DEF Asks, Outputs, Positions
                    <6> QED
                        BY <3>2, <6>1, MinIs DEF q
                <5>4. AsksAll1(Packet, sender.out) /\ ~AsksAll1(Packet, o)
                    BY <4>2, <5>2, <5>3 DEF AsksAll1
                <5> QED
                    BY <2>4, <4>2, <4>4, <5>4 DEF ToAsk
            <4>5. CASE ~IsRequest(m)
                BY <2>4, <4>2, <4>3, <4>5 DEF ToAsk
            <4> QED
                BY <4>4, <4>5
        <3> QED
            BY <3>1, <3>2
    <2> HIDE DEF m, o
    <2>8. ToWrite(Packet, sender') = ToWrite(Packet, sender)
        BY <2>6 DEF ToWrite
    <2>9. ToWrite(Packet, sender') + ToAsk(Packet, sender'.out) + (IF IsRequest(m) THEN 1 ELSE 0)
             <= ToWrite(Packet, sender) + ToAsk(Packet, sender.out)
        BY <2>6, <2>7, <2>8 DEF ToWrite, ToAsk
    <2>10. ~(sender'.out.request /\ AsksAll1(Packet, sender'.out))
        BY <2>6, <2>7
    <2>11. UNCHANGED receiverVars /\ Sent(net, "a", m) /\ m.kind # "none"
        BY <2>1, <2>5
    <2> QED
        BY <2>3, <2>6, <2>9, <2>10, <2>11, WriteCounts
<1>7. ASSUME NEW st \in {"aborted", "succeeded"}, sender.ses > 0,
             sender' = [sender EXCEPT !.status = st, !.timer = None, !.out = NoOutput],
             net' \subseteq net, counter' = counter, UNCHANGED receiverVars
      PROVE  Counted'
    <2>1. /\ sender'.ses = sender.ses /\ sender'.status = st /\ sender'.out = NoOutput
          /\ sender'.attempts = sender.attempts
        BY <1>1, <1>7 DEF Senders
    <2> QED
        BY <1>7, <2>1, EndCounts
<1>8. CASE Timeout
    <2>1. /\ sender.status = "active" /\ UNCHANGED receiverVars /\ net' = net /\ counter' = counter
          /\ IF sender.attempts >= MaxAckRequests THEN EndSender("aborted")
             ELSE Request(RequestOutput, sender.ackHigh)
        BY <1>8 DEF Timeout
    <2>2. ~AsksAll1(Packet, RequestOutput)
        BY DEF AsksAll1, RequestOutput, NoOutput
    <2> QED
        BY <1>2, <1>7, <2>1, <2>2, RequestCounts DEF EndSender
<1>9. CASE ReceiveControl
    <2>1. PICK f \in net : /\ f.from = "b" /\ net' = net \ {f} /\ UNCHANGED receiverVars
                           /\ counter' = counter
                           /\ IF AckAdmitted(f) THEN HandleAck(f) ELSE UNCHANGED senderVars
        BY <1>9 DEF ReceiveControl, Under
    <2>2. sender.ses > 0
        BY <2>1, FragParts DEF Orderly
    <2>3. CASE ~AckAdmitted(f)
        BY <2>1, <2>2, <2>3, IdleCounts DEF senderVars
    <2>4. CASE AckAdmitted(f)
        <3>1. sender.status = "active" /\ HandleAck(f) /\ Answer(Packet, f.msg, delivered)
            BY <2>1, <2>2, <2>4, FragParts DEF AckAdmitted, Session
        <3>2. CASE EndSender("aborted") \/ EndSender("succeeded")
            BY <1>7, <2>1, <2>2, <3>2 DEF EndSender
        <3>3. CASE f.msg = ReceiverAbort \/ f.msg = Final(Packet)
            <4>1. f.msg.kind = "rabort" \/ (f.msg.kind = "ack" /\ f.msg.complete = TRUE)
                BY <3>3 DEF ReceiverAbort, Final, Ack
            <4>2. EndSender("aborted") \/ EndSender("succeeded")
                BY <3>1, <4>1 DEF HandleAck
            <4> QED
                BY <3>2, <4>2
        <3>4. CASE Partial(Packet, f.msg)
            <4>1. f.msg.kind = "ack" /\ f.msg.complete = FALSE
                BY <3>4 DEF Partial, Ack
            <4> DEFINE missing == Assigned(Packet, f.msg.win) \ f.msg.map
                       o == Repair(Packet, f.msg.win, missing)
            <4>2. \/ EndSender("aborted") \/ AckNoted(f)
                  \/ ~(sender.attempts >= MaxAckRequests) /\ Request(o, f.ctr)
                BY <3>1, <4>1 DEF HandleAck
            <4>3. ~(o.request /\ AsksAll1(Packet, o))
                <5> HIDE DEF missing
                <5> QED
                    BY DEF Repair, AsksAll1
            <4>4. CASE AckNoted(f)
                <5>1. /\ sender'.ses = sender.ses /\ sender'.next = sender.next
                      /\ sender'.status = sender.status /\ sender'.out = sender.out
                      /\ sender'.attempts = sender.attempts
                    BY <1>1, <4>4 DEF AckNoted, Senders
                <5> QED
                    BY <2>1, <2>2, <5>1, IdleCounts
            <4> HIDE DEF o
            <4> QED
                BY <2>1, <2>2, <3>1, <3>2, <4>2, <4>3, <4>4, RequestCounts
        <3> QED
            BY <3>1, <3>3, <3>4 DEF Answer
    <2> QED
        BY <2>3, <2>4
<1>10. CASE CancelSender
    BY <1>2, <1>7, <1>10 DEF CancelSender, EndSender
<1>11. CASE DropSender
    BY <1>2, <1>7, <1>11 DEF DropSender
<1>12. CASE SenderLapse
    <2>1. /\ sres = 0 /\ sender' = sender /\ UNCHANGED receiverVars
          /\ net' = net /\ counter' = counter
        BY <1>12 DEF SenderLapse
    <2>2. sender.ses > 0
        BY <2>1, LiveIs DEF None
    <2> QED
        BY <2>1, <2>2, IdleCounts
<1> QED
    BY <1>3, <1>4, <1>5, <1>6, <1>8, <1>9, <1>10, <1>11, <1>12 DEF SenderNext

\* The receiver takes a frame: a request it takes is one it may answer.
LEMMA TakeCounts ==
    ASSUME FragInv, Counted, sender' = sender, sender.ses > 0, NEW f \in net, f.from = "a",
           NEW m, Sent(net \ {f}, "b", m), Given(rres', rbuf') \in Nat,
           Given(rres', rbuf') <= Given(rres, rbuf) + IF IsRequest(f.msg) THEN 1 ELSE 0
    PROVE  Counted'
<1>1. counter \in [Sides -> Nat] /\ Frames(net)
    BY FragParts DEF FragTypes
<1>2. IsFiniteSet(net) /\ sender.attempts \in Nat /\ Cardinality(Requests(net)) \in Nat
    BY CountParts
<1>3. /\ counter' \in [Sides -> Nat] /\ Frames(net')
      /\ \A g \in net' : \/ g \in net \ {f}
                         \/ g.from = "b" /\ m.kind # "none" /\ g.ctr = counter["b"] + 1
    BY SentIs
<1>4. /\ \A s \in Sides : counter[s] <= counter'[s]
      /\ m.kind # "none" => counter'["b"] = counter["b"] + 1
    <2>1. CASE m.kind = "none"
        <3>1. counter' = counter
            BY <2>1 DEF Sent
        <3>2. \A s \in Sides : counter[s] \in Nat
            BY <1>1
        <3> QED
            BY <2>1, <3>1, <3>2
    <2>2. CASE m.kind # "none"
        <3>1. counter' = [counter EXCEPT !["b"] = @ + 1]
            BY <2>2 DEF Sent
        <3> QED
            BY <1>1, <3>1 DEF Sides
    <2> QED
        BY <2>1, <2>2
<1>5. \A g \in net' : g.ctr <= counter'[g.from]
    <2> SUFFICES ASSUME NEW g \in net' PROVE g.ctr <= counter'[g.from]
        OBVIOUS
    <2>1. CASE g \in net
        <3>1. g.ctr \in Nat /\ counter[g.from] \in Nat /\ counter'[g.from] \in Nat
              /\ g.ctr <= counter[g.from] /\ counter[g.from] <= counter'[g.from]
            BY <1>1, <1>3, <1>4, <2>1 DEF Frames, Counted
        <3> QED
            BY <3>1
    <2>2. CASE g.from = "b" /\ m.kind # "none" /\ g.ctr = counter["b"] + 1
        <3>1. counter["b"] + 1 \in Nat
            BY <1>1 DEF Sides
        <3> QED
            BY <1>4, <2>2, <3>1
    <2> QED
        BY <1>3, <2>1, <2>2
<1>6. IsFiniteSet(net')
    <2>1. IsFiniteSet(net \ {f})
        BY <1>2, FS_RemoveElement
    <2>2. net' = net \ {f} \/ \E g : net' = (net \ {f}) \cup {g}
        BY DEF Sent
    <2>3. \A g : IsFiniteSet((net \ {f}) \cup {g})
        BY <2>1, FS_AddElement
    <2> QED
        BY <2>1, <2>2, <2>3
<1>7. Requests(net') \subseteq Requests(net) \ {f}
    <2>1. \A g \in net' : g.from = "a" => g \in net \ {f}
        BY <1>3
    <2> QED
        BY <2>1 DEF Requests
<1> DEFINE g == IF IsRequest(f.msg) THEN 1 ELSE 0
<1>8. /\ Cardinality(Requests(net')) \in Nat
      /\ Cardinality(Requests(net')) <= Cardinality(Requests(net)) - g
    <2>1. CASE IsRequest(f.msg)
        <3>1. f \in Requests(net)
            BY <2>1 DEF Requests
        <3> QED
            BY <1>2, <1>7, <2>1, <3>1, RequestsLess
    <2>2. CASE ~IsRequest(f.msg)
        <3>1. /\ Cardinality(Requests(net')) \in Nat
              /\ Cardinality(Requests(net')) <= Cardinality(Requests(net))
            BY <1>2, <1>7, RequestsFewer
        <3> QED
            BY <1>2, <2>2, <3>1
    <2> QED
        BY <2>1, <2>2
<1>9. g \in Int /\ -g \in Int /\ Cardinality(Requests(net)) + (-g) = Cardinality(Requests(net)) - g
    BY <1>2
<1>10. Given(rres', rbuf') <= Given(rres, rbuf) + g
    OBVIOUS
<1>11. ToWrite(Packet, sender') + ToAsk(Packet, sender'.out) + (-g) + g
          <= ToWrite(Packet, sender) + ToAsk(Packet, sender.out) + 0
    BY DEF ToWrite, ToAsk
<1>12. /\ sender'.ses = sender.ses /\ sender'.attempts = sender.attempts + 0
       /\ sender'.status = "ready" => sender'.attempts = 0
       /\ ~(sender'.out.request /\ AsksAll1(Packet, sender'.out))
    BY <1>2 DEF Counted
<1>13. Cardinality(Requests(net')) <= Cardinality(Requests(net)) + (-g)
    BY <1>8, <1>9
<1> HIDE DEF g
<1> QED
    BY <1>5, <1>6, <1>8, <1>9, <1>10, <1>11, <1>12, <1>13, CountsKept

\* Nothing is sent, and no answer more is counted.
LEMMA QuitCounts ==
    ASSUME FragInv, Counted, sender'.ses = sender.ses, sender'.status = sender.status,
           sender'.next = sender.next, sender'.out = sender.out, sender'.attempts = sender.attempts,
           IsFiniteSet(net'), \A f \in net' : f.ctr <= counter'[f.from],
           Cardinality(Requests(net')) \in Nat,
           Cardinality(Requests(net')) <= Cardinality(Requests(net)),
           Given(rres', rbuf') \in Nat, Given(rres', rbuf') <= Given(rres, rbuf)
    PROVE  Counted'
<1>1. /\ sender.attempts \in Nat /\ Cardinality(Requests(net)) \in Nat
      /\ Given(rres, rbuf) \in Nat /\ sender.ses \in Nat
    BY CountParts, FragParts
<1>2. sender'.status = "ready" => sender'.attempts = 0
    BY DEF Counted
<1>3. CASE ~(sender.ses > 0)
    BY <1>2, <1>3, CountEstablished
<1>4. CASE sender.ses > 0
    <2>1. /\ Cardinality(Requests(net')) <= Cardinality(Requests(net)) + 0
          /\ Given(rres', rbuf') <= Given(rres, rbuf) + 0
          /\ sender'.attempts = sender.attempts + 0
        BY <1>1
    <2>2. ToWrite(Packet, sender') = ToWrite(Packet, sender)
        BY DEF ToWrite
    <2>3. ToWrite(Packet, sender') + ToAsk(Packet, sender'.out) + 0 + 0
             <= ToWrite(Packet, sender) + ToAsk(Packet, sender.out) + 0
        BY <2>2 DEF ToWrite, ToAsk
    <2>4. ~(sender'.out.request /\ AsksAll1(Packet, sender'.out))
        BY <1>4 DEF Counted
    <2> QED
        BY <1>2, <1>4, <2>1, <2>3, <2>4, CountsKept
<1> QED
    BY <1>3, <1>4

\* A message of the packet on the live session: what is sent is no abort.
LEMMA LiveAnswers ==
    ASSUME FragInv, Counted, NEW f \in net, f.from = "a", rres.left > 0
    PROVE  LET r == Receive(rbuf, f.msg) IN
           /\ r # AbortResult
           /\ IF IsRequest(f.msg) THEN Answers(r, rbuf, Packet) ELSE Stores(r, rbuf, Packet)
           /\ rbuf.attempts \in Nat /\ sender.ses > 0 /\ Packet # <<>>
<1>1. sender.ses > 0
    BY FragParts DEF Orderly
<1>2. /\ IsPacket(Packet) /\ OfPacket(Packet, f.msg) /\ Fits(rbuf, Packet)
    BY <1>1, FragParts DEF Session
<1> DEFINE r == Receive(rbuf, f.msg)
<1>3. IF IsRequest(f.msg) THEN Answers(r, rbuf, Packet) ELSE Stores(r, rbuf, Packet)
    BY <1>2, ReceiveIs
<1>4. rbuf.attempts \in Nat /\ Packet # <<>>
    BY <1>2 DEF Fits, IsPacket
<1>5. CASE ~IsRequest(f.msg)
    <2>1. r.aborted = FALSE
        BY <1>3, <1>5 DEF Stores
    <2> HIDE DEF r
    <2>2. r # AbortResult
        BY <2>1 DEF AbortResult, Result
    <2> QED
        BY <1>1, <1>3, <1>4, <2>2 DEF r
<1>6. CASE IsRequest(f.msg)
    <2>1. /\ IsFiniteSet(net) /\ Cardinality(Requests(net)) \in Nat /\ sender.attempts \in Nat
          /\ MaxAckRequests \in Nat
        BY CountParts, ReassemblyAssumption
    <2>2. f \in Requests(net) /\ IsFiniteSet(Requests(net))
        BY <1>6, <2>1, RequestsFewer DEF Requests
    <2>3. Cardinality(Requests(net)) # 0
        BY <2>2, FS_EmptySet
    <2>4. /\ ToWrite(Packet, sender) + ToAsk(Packet, sender.out)
                + Cardinality(Requests(net)) + rbuf.attempts <= sender.attempts
          /\ sender.attempts <= MaxAckRequests
        BY <1>1 DEF Counted, Given
    <2>5. ToWrite(Packet, sender) \in Nat /\ ToAsk(Packet, sender.out) \in Nat
        BY DEF ToWrite, ToAsk
    <2>6. ~(rbuf.attempts >= MaxAckRequests)
        BY <1>4, <2>1, <2>3, <2>4, <2>5
    <2>7. r.aborted = FALSE
        BY <1>3, <1>6, <2>6 DEF Answers
    <2> HIDE DEF r
    <2>8. r # AbortResult
        BY <2>7 DEF AbortResult, Result
    <2> QED
        BY <1>1, <1>3, <1>4, <2>8 DEF r
<1> QED
    BY <1>5, <1>6

\* The receiver's steps keep the count.
LEMMA ReceiverNextCounts ==
    ASSUME FragInv, PollFirst, Counted, ReceiverNext
    PROVE  Counted'
<1>1. /\ IsFiniteSet(net) /\ Cardinality(Requests(net)) \in Nat /\ Given(rres, rbuf) \in Nat
      /\ \A f \in net : f.ctr <= counter[f.from]
    BY CountParts DEF Counted
<1>2. ASSUME sender' = sender, net' = net, counter' = counter,
             rres' = NoSession \/ (rres' = rres /\ rbuf' = rbuf)
      PROVE  Counted'
    <2>1. Given(rres', rbuf') \in Nat /\ Given(rres', rbuf') <= Given(rres, rbuf)
        BY <1>1, <1>2 DEF Given, NoSession, None
    <2>2. Cardinality(Requests(net')) \in Nat /\ Cardinality(Requests(net')) <= Cardinality(Requests(net))
        BY <1>1, <1>2
    <2> QED
        BY <1>1, <1>2, <2>1, <2>2, QuitCounts
<1>3. CASE CancelReceiver \/ DropReceiver \/ ReceiverLapse \/ RetireTombstone
    BY <1>2, <1>3 DEF CancelReceiver, DropReceiver, ReceiverLapse, RetireTombstone, EndReceiver, senderVars
<1>4. CASE ReceiveData
    <2>1. PICK f \in net :
             /\ f.from = "a" /\ rres.left # 0 /\ sender' = sender
             /\ \/ rres # NoSession /\ ReceiveIn(rres, f)
                \/ Discard(f)
                \/ IsOpener(f.msg) /\ ReceiveIn(NoSession, f)
                \/ rres = NoSession /\ ReplayTerminal(f)
        BY <1>4 DEF ReceiveData, Under, senderVars
    <2>2. rres # NoSession => rres.left > 0
        <3>1. rres.left \in -1 .. Inactivity /\ (rres.left = -1 => rres = NoSession)
            BY FragParts DEF FragTypes, Orderly
        <3> QED
            BY <2>1, <3>1, FragNumbers
    <2>3. sender.ses > 0 /\ IsPacket(Packet) /\ OfPacket(Packet, f.msg)
        <3>1. sender.ses > 0
            BY <2>1, FragParts DEF Orderly
        <3> QED
            BY <2>1, <3>1, FragParts DEF Session
    <2>4. CASE Discard(f)
        <3>1. Sent(net \ {f}, "b", NoResponse) /\ rres' = rres /\ rbuf' = rbuf
            BY <2>4 DEF Discard, Sent, NoResponse, receiverVars
        <3>2. Given(rres', rbuf') \in Nat
              /\ Given(rres', rbuf') <= Given(rres, rbuf) + IF IsRequest(f.msg) THEN 1 ELSE 0
            BY <1>1, <3>1
        <3> QED
            BY <2>1, <2>3, <3>1, <3>2, TakeCounts
    <2>5. CASE ReplayTerminal(f)
        <3>1. rres' = rres /\ rbuf' = rbuf /\ \E m : Sent(net \ {f}, "b", m)
            BY <2>5 DEF ReplayTerminal
        <3>2. Given(rres', rbuf') \in Nat
              /\ Given(rres', rbuf') <= Given(rres, rbuf) + IF IsRequest(f.msg) THEN 1 ELSE 0
            BY <1>1, <3>1
        <3> QED
            BY <2>1, <2>3, <3>1, <3>2, TakeCounts
    <2>6. CASE IsOpener(f.msg) /\ ReceiveIn(NoSession, f)
        <3> DEFINE r == Receive(EmptyBuffer, f.msg)
        <3>1. r.aborted = FALSE /\ r.packet = <<>> /\ r.buf.attempts = 0
            BY <2>3, <2>6, OpenIs
        <3>2. rbuf' = r.buf /\ Sent(net \ {f}, "b", r.response)
            BY <2>6, <3>1 DEF ReceiveIn
        <3>3. Given(rres', rbuf') = 0
            BY <3>1, <3>2 DEF Given
        <3>4. Given(rres', rbuf') \in Nat
              /\ Given(rres', rbuf') <= Given(rres, rbuf) + IF IsRequest(f.msg) THEN 1 ELSE 0
            BY <1>1, <3>3
        <3> HIDE DEF r
        <3> QED
            BY <2>1, <2>3, <3>2, <3>4, TakeCounts
    <2>7. CASE rres # NoSession /\ ReceiveIn(rres, f)
        <3> DEFINE r == Receive(rbuf, f.msg)
        <3>1. /\ r # AbortResult /\ rbuf.attempts \in Nat /\ Packet # <<>>
              /\ IF IsRequest(f.msg) THEN Answers(r, rbuf, Packet) ELSE Stores(r, rbuf, Packet)
            BY <2>1, <2>2, <2>7, LiveAnswers
        <3>2. /\ Sent(net \ {f}, "b", r.response)
              /\ rres' = NoSession \/ rbuf' = r.buf
              /\ r.aborted \/ r.packet # <<>> => rres' = NoSession
            BY <2>1, <2>7 DEF ReceiveIn, EndReceiver
        <3> HIDE DEF r
        <3>3. \/ rres' = NoSession
              \/ rbuf' = r.buf /\ r.buf.attempts = rbuf.attempts + IF IsRequest(f.msg) THEN 1 ELSE 0
            BY <3>1, <3>2 DEF Answers, Stores
        <3>4. Given(rres, rbuf) = rbuf.attempts
            BY <2>2, <2>7 DEF Given
        <3>5. Given(rres', rbuf') \in Nat
              /\ Given(rres', rbuf') <= Given(rres, rbuf) + IF IsRequest(f.msg) THEN 1 ELSE 0
            <4>1. CASE rres' = NoSession
                BY <3>1, <3>4, <4>1 DEF Given, NoSession, None
            <4>2. CASE rbuf' = r.buf /\ r.buf.attempts = rbuf.attempts + IF IsRequest(f.msg) THEN 1 ELSE 0
                <5>1. PICK n \in Nat : n = rbuf'.attempts
                                       /\ n = rbuf.attempts + IF IsRequest(f.msg) THEN 1 ELSE 0
                    BY <3>1, <4>2
                <5>2. Given(rres', rbuf') \in {0, n}
                    BY <5>1 DEF Given
                <5> QED
                    BY <3>1, <3>4, <5>1, <5>2
            <4> QED
                BY <3>3, <4>1, <4>2
        <3> QED
            BY <2>1, <2>3, <3>2, <3>5, TakeCounts
    <2> QED
        BY <2>1, <2>4, <2>5, <2>6, <2>7
<1> QED
    BY <1>3, <1>4 DEF ReceiverNext

\* Every step keeps the count.
LEMMA CountSteps ==
    ASSUME PollFirst, Patient, FragInv, Counted, [FragNext]_fragVars
    PROVE  Counted'
<1>1. /\ IsFiniteSet(net) /\ Cardinality(Requests(net)) \in Nat /\ Given(rres, rbuf) \in Nat
      /\ \A f \in net : f.ctr <= counter[f.from]
    BY CountParts DEF Counted
<1>2. CASE UNCHANGED fragVars
    <2>1. /\ sender' = sender /\ rres' = rres /\ rbuf' = rbuf /\ net' = net /\ counter' = counter
        BY <1>2 DEF fragVars
    <2>2. Cardinality(Requests(net')) \in Nat /\ Cardinality(Requests(net')) <= Cardinality(Requests(net))
          /\ Given(rres', rbuf') \in Nat /\ Given(rres', rbuf') <= Given(rres, rbuf)
        BY <1>1, <2>1
    <2> QED
        BY <1>1, <2>1, <2>2, QuitCounts
<1>3. CASE Tick
    <2>1. /\ sender' = [sender EXCEPT !.timer = Less(@)] /\ rres' = [rres EXCEPT !.left = Less(@)]
          /\ net' = Older(net) /\ rbuf' = rbuf /\ counter' = counter
        BY <1>3 DEF Tick, Older
    <2>2. sender \in Senders /\ rres \in Sessions /\ Frames(net)
        BY FragParts DEF FragTypes, Sessions
    <2>3. /\ sender'.ses = sender.ses /\ sender'.status = sender.status
          /\ sender'.next = sender.next /\ sender'.out = sender.out
          /\ sender'.attempts = sender.attempts
        BY <2>1, <2>2 DEF Senders
    <2>4. rres'.left > 0 => rres.left > 0
        <3>1. rres'.left = Less(rres.left) /\ rres.left \in Int
            BY <2>1, <2>2 DEF Sessions
        <3> QED
            BY <3>1 DEF Less
    <2>5. Given(rres', rbuf') \in Nat /\ Given(rres', rbuf') <= Given(rres, rbuf)
        BY <1>1, <2>1, <2>4 DEF Given
    <2>6. /\ IsFiniteSet(net') /\ Cardinality(Requests(net')) \in Nat
          /\ Cardinality(Requests(net')) <= Cardinality(Requests(net))
        BY <1>1, <2>1, <2>2, RequestsOlder
    <2>7. \A f \in net' : f.ctr <= counter'[f.from]
        BY <1>1, <2>1, <2>2, OlderIs
    <2> QED
        BY <2>3, <2>5, <2>6, <2>7, QuitCounts
<1> QED
    BY <1>2, <1>3, SenderNextCounts, ReceiverNextCounts DEF FragNext

(* The receiver's limit of answers covers the sender's limit of attempts:    *)
(* respond() never gives up on a session whose frames are all of the packet  *)
(* on offer.  The caller polls expiry before each frame and is patient.       *)
THEOREM AnswersDoSuffice ==
    ASSUME PollFirst, Patient
    PROVE  FragSpec => AnswersSuffice
<1>1. FragInit => Counted
    <2> SUFFICES ASSUME FragInit PROVE Counted
        OBVIOUS
    <2>1. sender.ses = 0 /\ sender.status = "idle" /\ net = {}
        BY DEF FragInit
    <2> QED
        BY <2>1, FS_EmptySet DEF Counted
<1>2. ASSUME FragInv, Counted, [FragNext]_fragVars
      PROVE  [\A f \in net' : (f.from = "b" /\ f.ctr > counter["b"] /\ f.msg.kind = "rabort")
                                 => rres = NoSession]_fragVars
    <2> SUFFICES ASSUME FragNext, NEW f \in net', f.from = "b", f.ctr > counter["b"],
                        f.msg.kind = "rabort", rres # NoSession
                 PROVE  FALSE
        BY <1>2
    <2>1. /\ counter \in [Sides -> Nat] /\ Frames(net) /\ rres.left \in -1 .. Inactivity
          /\ rres.left = -1 => rres = NoSession
        BY <1>2, FragParts DEF FragTypes, Orderly
    <2>2. f \notin net
        <3> SUFFICES ASSUME f \in net PROVE FALSE
            OBVIOUS
        <3>1. f.ctr <= counter["b"] /\ f.ctr \in Nat /\ counter["b"] \in Nat
            BY <1>2, <2>1 DEF Counted, Frames, Sides
        <3> QED
            BY <3>1
    <2>3. CASE SenderNext
        <3>1. net' \subseteq net \/ \E m : net' = net \cup {[from |-> "a", ctr |-> counter["a"] + 1,
                                                             ttl |-> Latency, msg |-> m]}
            BY <2>3 DEF SenderNext, Offer, NewSender, Start, WriteFragment, WriteOutput, Timeout,
                        ReceiveControl, CancelSender, DropSender, SenderLapse, Sent
        <3> QED
            BY <2>2, <3>1
    <2>4. CASE Tick
        <3>1. net' = Older(net)
            BY <2>4 DEF Tick, Older
        <3>2. PICK g \in net : f.from = g.from /\ f.ctr = g.ctr
            BY <2>1, <3>1, OlderIs
        <3>3. f.ctr <= counter["b"] /\ f.ctr \in Nat /\ counter["b"] \in Nat
            BY <1>2, <2>1, <3>2 DEF Counted, Frames, Sides
        <3> QED
            BY <3>3
    <2>5. CASE CancelReceiver \/ DropReceiver \/ ReceiverLapse \/ RetireTombstone
        BY <2>2, <2>5 DEF CancelReceiver, DropReceiver, ReceiverLapse, RetireTombstone
    <2>6. CASE ReceiveData
        <3>1. PICK d \in net : /\ d.from = "a" /\ rres.left # 0
                               /\ ReceiveIn(rres, d) \/ Discard(d)
            BY <2>6 DEF ReceiveData, Under
        <3>2. rres.left > 0
            BY <2>1, <3>1, FragNumbers
        <3>3. ReceiveIn(rres, d)
            BY <2>2, <3>1 DEF Discard
        <3> DEFINE r == Receive(rbuf, d.msg)
        <3>4. /\ r # AbortResult
              /\ IF IsRequest(d.msg) THEN Answers(r, rbuf, Packet) ELSE Stores(r, rbuf, Packet)
            BY <1>2, <3>1, <3>2, LiveAnswers
        <3>5. Sent(net \ {d}, "b", r.response)
            BY <3>1, <3>3 DEF ReceiveIn
        <3> HIDE DEF r
        <3>6. f.msg = r.response
            BY <1>2, <2>2, <3>5, SentIs
        <3>7. Partial(Packet, r.response) \/ r.response = Final(Packet) \/ r.response = NoResponse
            BY <3>4 DEF Answers, Stores
        <3>8. r.response.kind # "rabort"
            <4>1. CASE Partial(Packet, r.response)
                BY <4>1 DEF Partial, Ack
            <4>2. CASE r.response \in {Final(Packet), NoResponse}
                BY <4>2 DEF Final, Ack, NoResponse
            <4> QED
                BY <3>7, <4>1, <4>2
        <3> QED
            BY <3>6, <3>8
    <2> QED
        BY <2>3, <2>4, <2>5, <2>6 DEF FragNext, ReceiverNext
<1>3. ASSUME FragInv, Counted, [FragNext]_fragVars PROVE Counted'
    BY <1>3, CountSteps
<1> QED
    BY <1>1, <1>2, <1>3, FragHolds, PTL DEF FragSpec, AnswersSuffice
=============================================================================
