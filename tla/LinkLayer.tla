------------------------------ MODULE LinkLayer ------------------------------
(***************************************************************************)
(* The receiving side of the link layer: the peers whose frames are         *)
(* accepted, their pinned keys, their replay windows, the evidence a caller *)
(* keeps of an accepted frame, and the signed record that carries one       *)
(* peer's trust and replay state over a restart.                            *)
(*                                                                         *)
(* A frame is its signer, epoch and sequence number; a frame with a bad     *)
(* signature, for another node or without a signer changes no state.        *)
(***************************************************************************)
EXTENDS Integers, FiniteSets, AccessOrder

CONSTANTS
    Keys,        \* public keys of the peers
    Iids,        \* their interface identifiers
    IidOf,       \* IidOf[k]: 64 bits of a hash of the key, so two keys may share one
    MaxPeers,    \* capacity of the peer table and of the replay table (64)
    Window,      \* sequence numbers a replay window covers (32)
    Epochs,      \* u8
    SeqNums,     \* u16
    MaxGens,     \* bound on the key generations allocated
    MaxOwners,   \* bound on the LinkLayer instances created
    NoPeer,      \* an interface identifier that is not configured
    NoKey,       \* an interface identifier without a pin
    NoReplay,    \* a key without replay state
    Nothing      \* no evidence held; no record stored

ASSUME LinkLayerAssumption ==
    /\ IidOf \in [Keys -> Iids]
    /\ MaxPeers \in Nat \ {0} /\ Window \in Nat \ {0}
    /\ MaxGens \in Nat /\ MaxOwners \in Nat \ {0}
    /\ Epochs \subseteq Nat /\ SeqNums \subseteq Nat

VARIABLES
    owner,       \* this instance (receiving_link_identity)
    dropped,     \* instances whose identity is retired
    peers,       \* LinkLayer::peers: key, runtime generation, durable serial
    order,       \* last_access of peers: pairs of identifiers, accessed in this order
    pinned,      \* LinkLayer::pinned
    replay,      \* ReplayProtector::peers
    lru,         \* last_access of replay: pairs of keys, accessed in this order
    serial,      \* next_durable_generation
    gens,        \* runtime generations allocated
    retired,     \* runtime generations whose flag is set
    held,        \* an AuthenticatedFrame a caller keeps
    disk,        \* the committed trust record of each identifier
    known,       \* identifiers whose record this instance wrote or restored
    accepted     \* history: frames accepted since a key's replay state began

table == <<peers, order, pinned>>
windows == <<replay, lru, accepted>>
vars == <<owner, dropped, table, windows, serial, gens, retired, held, disk, known>>

State == [epoch : Epochs, last : SeqNums, seen : SUBSET SeqNums]

Peers == [key : Keys, gen : Nat, serial : Nat]
Records == [key : Keys, serial : Nat, next : Nat, state : State,
            accepted : SUBSET (Epochs \X SeqNums)]
Evidence == [key : Keys, epoch : Epochs, seq : SeqNums, owner : Nat, gen : Nat, serial : Nat]

\* A missing entry is told apart from every entry.
ASSUME MissingAssumption ==
    /\ NoPeer \notin Peers
    /\ NoKey \notin Keys
    /\ NoReplay \notin State
    /\ Nothing \notin Evidence /\ Nothing \notin Records

Configured == {i \in Iids : peers[i] # NoPeer}
Tracked == {k \in Keys : replay[k] # NoReplay}

\* LinkLayer::new
Init ==
    /\ owner = 1 /\ dropped = {}
    /\ peers = [i \in Iids |-> NoPeer] /\ order = {}
    /\ pinned = [i \in Iids |-> NoKey]
    /\ replay = [k \in Keys |-> NoReplay] /\ lru = {}
    /\ serial = 1 /\ gens = 0 /\ retired = {}
    /\ held = Nothing
    /\ disk = [i \in Iids |-> Nothing] /\ known = {}
    /\ accepted = [k \in Keys |-> {}]

-----------------------------------------------------------------------------
(* Access orders and replay windows.                                        *)

\* Both evict_if_needed: the members after which a whole table's worth of
\* others have been accessed.
Surplus(before, ms) ==
    {x \in ms : Cardinality({y \in ms \ {x} : <<x, y>> \in before}) >= MaxPeers}

\* Whether check_and_update accepts: a new key, a newer epoch, or in the same
\* epoch a newer sequence number or an unseen one within the window.
Fresh(st, e, q) ==
    st # NoReplay =>
        \/ e > st.epoch
        \/ /\ e = st.epoch
           /\ q > st.last \/ (q > st.last - Window /\ q \notin st.seen)

\* Mutant: a newer sequence number clears the window.
AdvanceCleared(st, e, q) ==
    IF st = NoReplay THEN [epoch |-> e, last |-> q, seen |-> {q}]
    ELSE IF e > st.epoch \/ q > st.last THEN [epoch |-> e, last |-> q, seen |-> {q}]
    ELSE [st EXCEPT !.seen = @ \cup {q}]

\* The window after an accepted frame: bits shifted out are forgotten.
Advance(st, e, q) ==
    IF st = NoReplay THEN [epoch |-> e, last |-> q, seen |-> {q}]
    ELSE IF e > st.epoch THEN [epoch |-> e, last |-> q, seen |-> {q}]
    ELSE IF q > st.last
    THEN [st EXCEPT !.last = q, !.seen = {x \in @ : x > q - Window} \cup {q}]
    ELSE [st EXCEPT !.seen = @ \cup {q}]

\* ReplayProtector::reset_peer for each key of ks.
Reset(ks) ==
    /\ replay' = [k \in Keys |-> IF k \in ks THEN NoReplay ELSE replay[k]]
    /\ lru' = Without(lru, ks)
    /\ accepted' = [k \in Keys |-> IF k \in ks THEN {} ELSE accepted[k]]

-----------------------------------------------------------------------------
(* Peers.                                                                   *)

NewPeer(k) == [key |-> k, gen |-> gens + 1, serial |-> serial]

\* allocate_durable_generation and PeerKeyGeneration::allocate.
Allocate ==
    /\ gens < MaxGens /\ serial <= MaxGens
    /\ gens' = gens + 1
    /\ serial' = serial + 1

\* add_peer of the key that is configured: only its access time changes.
RefreshPeer(k) ==
    /\ IidOf[k] \in Configured /\ peers[IidOf[k]].key = k
    /\ order' = Touch(order, Configured, IidOf[k])
    /\ UNCHANGED <<owner, dropped, peers, pinned, windows, serial, gens, retired,
                   held, disk, known>>

\* add_peer of a new key: a key it replaces is retired with its window (the
\* pin stays), then evict_if_needed retires what exceeds the capacity.
InstallPeer(k) ==
    LET i == IidOf[k]
        replaced == {i} \cap Configured
        used == Touch(order, Configured, i)
        evicted == Surplus(used, Configured \cup {i})
        gone == {peers[j] : j \in replaced \cup evicted}
    IN  /\ replaced # {} => peers[i].key # k
        /\ Allocate
        /\ peers' = [j \in Iids |-> IF j = i THEN NewPeer(k)
                                    ELSE IF j \in evicted THEN NoPeer ELSE peers[j]]
        /\ order' = Without(used, evicted)
        /\ pinned' = [j \in Iids |-> IF j \in evicted THEN NoKey ELSE pinned[j]]
        /\ retired' = retired \cup {p.gen : p \in gone}
        /\ Reset({p.key : p \in gone})
        /\ UNCHANGED <<owner, dropped, held, disk, known>>

\* Mutant: the generation of an unpinned peer goes on.
UnpinPeerKeepsGeneration(i) ==
    /\ i \in Configured
    /\ pinned' = [pinned EXCEPT ![i] = NoKey]
    /\ UNCHANGED <<owner, dropped, peers, order, windows, serial, gens, retired,
                   held, disk, known>>

\* unpin_peer: a new generation of the configured key, with its old window.
\* (Only configured identifiers have a pin.)
UnpinPeer(i) ==
    /\ i \in Configured
    /\ Allocate
    /\ pinned' = [pinned EXCEPT ![i] = NoKey]
    /\ retired' = retired \cup {peers[i].gen}
    /\ peers' = [peers EXCEPT ![i] = NewPeer(peers[i].key)]
    /\ UNCHANGED <<owner, dropped, order, windows, held, disk, known>>

\* A peer leaves the table with its pin and the windows of the keys ks.
RetirePeer(i, ks) ==
    /\ i \in Configured
    /\ peers' = [peers EXCEPT ![i] = NoPeer]
    /\ order' = Without(order, {i})
    /\ pinned' = [pinned EXCEPT ![i] = NoKey]
    /\ retired' = retired \cup {peers[i].gen}
    /\ Reset(ks)
    /\ UNCHANGED <<owner, dropped, serial, gens, held, disk, known>>

\* remove_peer: the window of the configured key goes.
RemovePeer(i) == RetirePeer(i, {peers[i].key})

\* forget_peer: the window of a differing pinned key goes too.
ForgetPeer(i) == RetirePeer(i, {peers[i].key, pinned[i]} \ {NoKey})

-----------------------------------------------------------------------------
(* Frames.                                                                  *)

\* Mutant: the pin is not compared.
VerifiesUnpinned(k) == IidOf[k] \in Configured /\ peers[IidOf[k]].key = k

\* The frame's signer is the configured key and does not contradict the pin.
Verifies(k) ==
    /\ IidOf[k] \in Configured
    /\ peers[IidOf[k]].key = k
    /\ pinned[IidOf[k]] \in {NoKey, k}

\* receive_frame_with_receipt: the frame is new; its sender becomes the most
\* recently used and is pinned, and the caller may keep the evidence.
ReceiveFrame(k, e, q) ==
    LET i == IidOf[k]
        used == Touch(lru, Tracked, k)
        evicted == Surplus(used, Tracked \cup {k})
        evidence == [key |-> k, epoch |-> e, seq |-> q, owner |-> owner,
                     gen |-> peers[i].gen, serial |-> peers[i].serial]
    IN  /\ Verifies(k)
        /\ Fresh(replay[k], e, q)
        /\ replay' = [x \in Keys |->
                         IF x \in evicted THEN NoReplay
                         ELSE IF x = k THEN Advance(replay[k], e, q) ELSE replay[x]]
        /\ lru' = Without(used, evicted)
        /\ accepted' = [accepted EXCEPT ![k] = @ \cup {<<e, q>>}]
        /\ order' = Touch(order, Configured, i)
        /\ pinned' = [pinned EXCEPT ![i] = k]
        /\ held' \in {held, evidence}
        /\ UNCHANGED <<owner, dropped, peers, serial, gens, retired, disk, known>>

\* UnknownSender or KeyChange: an error, and nothing else.
RejectSender(k) == ~Verifies(k) /\ UNCHANGED vars

\* The frame is a replay: only the window's access time changes.
RejectReplay(k, e, q) ==
    /\ Verifies(k)
    /\ ~Fresh(replay[k], e, q)
    /\ lru' = Touch(lru, Tracked, k)
    /\ UNCHANGED <<owner, dropped, table, replay, accepted, serial, gens, retired,
                   held, disk, known>>

-----------------------------------------------------------------------------
(* Restarts.                                                                *)

\* persist_peer_trust_state, committed by the caller.
Persist(i) ==
    /\ i \in Configured
    /\ pinned[i] = peers[i].key
    /\ peers[i].key \in Tracked
    /\ disk' = [disk EXCEPT ![i] =
                   [key |-> peers[i].key, serial |-> peers[i].serial, next |-> serial,
                    state |-> replay[peers[i].key],
                    accepted |-> accepted[peers[i].key]]]
    /\ known' = known \cup {i}
    /\ UNCHANGED <<owner, dropped, table, windows, serial, gens, retired, held>>

\* Mutant: the record's next serial is not read.
NextSerialOwn(next) == serial

\* next_durable_generation after a record is restored.
NextSerial(next) == IF next > serial THEN next ELSE serial

\* restore_peer_trust_state: refused as Conflict when a table is full or the
\* identifier is in use; the durable generation goes on with a new runtime one.
Restore(i) ==
    LET r == disk[i] IN
    /\ r # Nothing
    /\ Cardinality(Configured) < MaxPeers /\ Cardinality(Tracked) < MaxPeers
    /\ i \notin Configured /\ pinned[i] = NoKey
    /\ gens < MaxGens
    /\ gens' = gens + 1
    /\ serial' = NextSerial(r.next)
    /\ peers' = [peers EXCEPT ![i] =
                    [key |-> r.key, gen |-> gens + 1, serial |-> r.serial]]
    /\ order' = Touch(order, Configured, i)
    /\ pinned' = [pinned EXCEPT ![i] = r.key]
    /\ replay' = [replay EXCEPT ![r.key] = r.state]
    /\ lru' = Touch(lru, Tracked, r.key)
    /\ accepted' = [accepted EXCEPT ![r.key] = r.accepted]
    /\ known' = known \cup {i}
    /\ UNCHANGED <<owner, dropped, retired, held, disk>>

\* The LinkLayer is dropped and another one made, in the same process (a
\* caller may still hold evidence) or in a new one.
Restart ==
    /\ owner < MaxOwners
    /\ dropped' = dropped \cup {owner}
    /\ retired' = retired \cup {peers[i].gen : i \in Configured}
    /\ owner' = owner + 1
    /\ peers' = [i \in Iids |-> NoPeer] /\ order' = {}
    /\ pinned' = [i \in Iids |-> NoKey]
    /\ Reset(Keys)
    /\ serial' = 1
    /\ held' \in {held, Nothing}
    /\ known' = {}
    /\ UNCHANGED <<gens, disk>>

Next ==
    \/ \E k \in Keys : RefreshPeer(k) \/ InstallPeer(k)
    \/ \E i \in Iids : UnpinPeer(i) \/ RemovePeer(i) \/ ForgetPeer(i)
    \/ \E k \in Keys, e \in Epochs, q \in SeqNums :
           ReceiveFrame(k, e, q) \/ RejectReplay(k, e, q)
    \/ \E k \in Keys : RejectSender(k)
    \/ \E i \in Iids : Persist(i) \/ Restore(i)
    \/ Restart

Spec == Init /\ [][Next]_vars

-----------------------------------------------------------------------------
(* Properties.                                                              *)

\* AuthenticatedFrame::is_current: what its holder can ask without the link.
IsCurrent(f) == f.owner \notin dropped /\ f.gen \notin retired

\* accepts_authenticated_frame: what the link answers.
AcceptsFrame(f) ==
    /\ f.owner = owner
    /\ IsCurrent(f)
    /\ IidOf[f.key] \in Configured
    /\ LET p == peers[IidOf[f.key]] IN
           p.key = f.key /\ p.gen = f.gen /\ p.serial = f.serial
    /\ pinned[IidOf[f.key]] = f.key

\* A frame accepted once is refused from then on, over refreshes, unpinning,
\* other peers' evictions and restored records, until its peer is removed.
AcceptedOnce ==
    \A k \in Keys : \A t \in accepted[k] : ~Fresh(replay[k], t[1], t[2])

\* The flags a piece of evidence shares with the link tell its holder what the
\* link itself would answer, so admission may rely on either.
EvidenceAgrees == held # Nothing => (IsCurrent(held) <=> AcceptsFrame(held))

\* A durable generation allocated from now on differs from those of the
\* configured peers and of every record this instance wrote or restored.
DurableSerialsFresh ==
    /\ \A i \in Configured : peers[i].serial < serial
    /\ \A i \in known : disk[i].serial < serial

\* A pin is never exchanged for another key: it has to be removed first.
PinsHold ==
    [][\A i \in Iids : pinned[i] # NoKey => pinned'[i] \in {pinned[i], NoKey}]_vars
=============================================================================
