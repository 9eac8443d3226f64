# TLA+ verification of LICHEN

LICHEN (LoRa IPv6 CoAP Hybrid Extended Network) is a mesh network for LoRa
radios: IPv6 over a signed link layer, SCHC compression, RPL routing with signed
control messages, CoAP with OSCORE above it, and gateways to the Internet. The
repository holds a Rust workspace (`src/rust`), a Zephyr implementation in C
(`src/lichen`), a Python one (`src/python`) and the specification (`src/spec`).
This project models the control logic of the **Rust workspace**, checks the
models with TLC on small instances and proves the central results with TLAPS for
every value of the constants.

Contents: [1 inventory](#1-inventory), [2 modules](#2-modules-and-the-code),
[3 runs](#3-what-the-runs-check), [4 proofs](#4-what-is-proved),
[5 findings](#5-findings), [6 not modelled](#6-what-is-not-modelled),
[7 plan](#7-plan).

## 1. Inventory

Paths below are relative to `src/rust`.

### 1.1 The parts that are modelled

| Part | State | Operations | Hard behaviour | What makes it correct |
|---|---|---|---|---|
| Redundant store `lichen-hal/src/storage.rs` | two framed copies of a value, generation and CRC each; a handle per owner | provision, open, update | power loss inside a write; two owners; the last generation | it is one atomic durable record: an acknowledged value is never lost, rolled back or overwritten unseen |
| DAO origin `lichen-rpl/src/persistence.rs`, `lichen-node/src/routing/router.rs`, `rpl_stack/transmit.rs` | reserved sequence and retained signed bytes (durable), Path Sequence (RAM) | reserve, build, sign, finalize, transmit, clear, reopen | crash or failure between any two of them; a parent change while bytes are retained | a sequence stands for one DAO for ever; what is sent is durable and newest; the current parent is announced in the end |
| DAO root `lichen-rpl/src/routing.rs`, `persistence.rs`, `router.rs`, `node.rs` | admitted keys and replay floors (durable); edges, deadlines, Path Sequences and source routes (RAM) | admit, process a DAO, expire, look up, reopen | lost, repeated, reordered DAOs; restarts on both sides; full tables; loops while the topology changes; two clocks' units | floors only grow, edges agree with floors, routes are loop-free paths over live edges, soft state expires |
| Lollipop counter `lichen-rpl/src/routing.rs` | an 8-bit counter at leaf and root | compare, increment | reboots and losses make two values incomparable | a leaf is refused for a bounded number of DAOs only |
| Root-signed DIOs `rpl_stack/receive.rs`, `root_sig.rs`, `lichen-rpl/src/root_seq_cache.rs` | highest verified `root_seq` per DODAG, durable and cached; pinned root keys; wall clock | sign, verify, accept, persist, resume | replay over reboots, failing writes, a full table, a payload moved onto another header | no DIO is verified twice; only an intact DIO moves a mark; an in-order DIO is refused only for its producer's fault |
| Owner loop `lichen-node/src/runtime.rs`, `rpl_stack/runtime.rs`, `dao_tx_sched.rs`, `lichen-rpl/src/trickle.rs`, `dao_timing.rs` | last clock sample, next maintenance, pending action, bound generation, Trickle timer, DAO scheduler | poll, receive, complete Trickle transmit or expire, complete or fail a DAO | three deadlines, one action at a time, time passing inside each radio operation; a DIS that makes the runtime stale inside its receive | nothing sleeps past a deadline, nothing starves, nothing is disabled by failures |
| DODAG `lichen-rpl/src/dodag.rs`, `routing/router.rs`, `routing/neighbor.rs` | version, rank, lowest rank, preferred parent, candidates; a table of neighbours by age | process a DIO, poison, revoke, maintain, send a DIO | DIOs late and lost; leaves that hear each other; a full table; equal candidates | ranks do not creep; candidates are tracked and below the node; without a root everyone leaves |
| Link receiver `lichen-link/src/link_layer.rs`, `replay.rs` | peers with a key and a generation each, pins, a replay window per key, two access orders; a signed record per peer | add, unpin, remove, forget, receive, persist, restore, drop | a window at its edges, eviction, a peer replaced or unpinned while a frame is in hand, restart from a record | no frame accepted twice while its peer stays; evidence dies with what it proves; a pin is never exchanged |
| Fragmentation `lichen-schc/src/fragment.rs` | sender and receiver session, their reservations with an inactivity timer, hold-downs (tombstones) with a counter floor and the last answer | new, start, write, acknowledge, repair, time out, receive, cancel, drop, expire | T = 0: frames do not name their packet; frames lost, late and reordered; two limits of attempts; a caller that goes away | packets are handed over at most once, in order and whole; success means delivered (only with a patient caller); a repair is possible; every reservation ends |
| Gateway OSCORE stores `lichen-gateway/src/gateway.rs` | per context a sealed state, a sealed floor and a cache entry, once for sender sequence numbers and once for replay windows | load, save, compare and exchange, check and accept a Partial IV | a crash or a failed write between state and floor; eviction from a full cache; restart | no nonce twice, no request served twice, every record readable by the next process |
| Slot coordinator `lichen-gateway/src/resources.rs`, `slot.rs` | replay state and last claim per gateway, slots owned by resolution; state file, floor file, memory | verify a claim, resolve, yield, commit, load | replaced file and failed write; three gateways; claims of an old superframe | an acknowledged claim is durable and respected; the state can always be saved and loaded |
| Request dispatch `lichen-gateway/src/gateway.rs`, `lichen-node/src/secure.rs` | installed contexts, pending requests | install, admit, handle, reserve, transmit | byte-identical requests, a response that is not sent, a context that is replaced | no request is answered twice (that a response answers the request at hand does not hold, section 5) |
| Gateway start `lichen-gateway/src/bin/lichend.rs`, `trust.rs`, `rpl_stack/provisioning.rs` | ten files in two roots; the provisioning manifest | provision or resume each store, advance the epoch, federate, run | a crash at every write, several in a row; checks that fail closed | no boot refuses what a crash left; epochs and claim sequences are not reused |
| Link sender `lichen-node/src/stack.rs`, `lichen-gateway/src/bin/lichend.rs` | saved epoch (durable); epoch and sequence number (RAM) | boot, next tuple, stop | the end of the sequence numbers and of the epochs, over reboots | no tuple is signed twice under one key |

How they interact: the owner loop polls, and on a due DAO calls `send_dao`, which
drives the DAO origin; the origin's record, the root's admissions and floors and
the root-sequence marks are all kept in redundant stores; the DAOs of the origins
are what the DAO root consumes; received DIOs pass the root-signature gate before
the router looks at them, and what they do to the DODAG (join, leave, another
parent, Trickle reset) comes back to the loop and to the origin. Every frame
below them is signed with a tuple of the link sender and has passed the link
receiver, whose evidence the router, SCHC and the DODAG check again before they
use it. Packets that do not fit a frame go through fragmentation, whose sessions
are told apart by the link counters of those frames. A gateway is a root: its
start provisions the root's stores together with its own; its peers' slot claims
arrive as OSCORE requests, pass the recipient store, end in the slot coordinator
and are answered under a sequence number of the sender store.

### 1.2 The other parts (not modelled yet, or only in part)

| Part | State and operations | Hard behaviour | Properties it should have |
|---|---|---|---|
| Multi-root coordination `lichen-rpl/src/multi_instance.rs` | peer gateways, time master, DODAG versions, DAO backbone bridge | concurrent elections, routes learned twice | one master per view; a route has one owner |
| Short addresses `lichen-rpl/src/address_assignment.rs` | the assigned short address; request, acknowledge, release, save | a late acknowledgement after a release | an acknowledgement only counts for the pending request |
| SCHC compression `lichen-schc/src/codec.rs` and others | rules | none across steps | codec, covered by vectors |
| Node and secure stack, the rest `lichen-node/src/stack.rs`, `secure.rs`, `node.rs` | forwarding, the client side of OSCORE | hop limits, duplicate suppression | no packet forwarded for ever |
| Announces `lichen-node/src/announce.rs`, `announce_store.rs` | pinned origin keys and sequences | capacity, persistence | a pinned key never silently changes |
| Gradient, forward buffer, DTN `lichen-node/src/gradient.rs`, `forward_buffer.rs`, `routing/dtn.rs` | queues per source, byte budget, deadlines | eviction, expiry, backpressure | bounded; nothing delivered after its deadline |
| LOADng `lichen-core/src/loadng.rs` | typestate of a route discovery, sequence freshness | an expanding ring against a late reply | a stale reply is ignored |
| TX queue, CSMA, duty cycle `lichen-core/src/tx_queue.rs`, `duty_cycle.rs` | four-entry priority queue, backoff, window of transmissions | preemption, expiry, budget at its limit | budget never exceeded over any window |
| TDMA `lichen-core/src/superframe.rs`, `tdma_beacon.rs`, `desync.rs`, `lichen-node/src/tdma_scheduler.rs` | slots, beacon state, clock offset | clock drift, missed beacons | two owners never share a slot |
| CoAP `lichen-coap/src/client.rs`, `observe.rs`, `block.rs` | pending requests, backoffs, observers, block transfers | reordered notifications, a block lost or repeated | a notification never goes back; a transfer is the sent body |
| OSCORE `lichen-oscore/src/lib.rs`, `provisioning.rs`, `ownership.rs` | key-update generation, ownership of a context | reboot inside an update | no key and sequence pair is used twice |
| Gateway, the rest `lichen-gateway/src/handoff.rs`, `membership.rs`, `tdma_fsm.rs`, `tunnel_auth.rs` | node registry with staged handoffs, groups, tunnel sessions | two gateways and one node; commit against rollback | a node is owned by one gateway |
| Codecs, daemon I/O, applications, radio drivers, firmware, UIs, foreign-protocol bridges | formats and I/O | - | out of a model checker's reach, or no state of their own |
| Zephyr (C) and Python implementations | the same protocol | - | the Rust crates are the reference here |

`PROJECT.json` lists every part with its sources and status, and under `hazards`
each thing in this code that a test would hardly reach, at its line, with the
properties that would catch it.

## 2. Modules and the code

| Module | Kind | Models |
|---|---|---|
| `DurableRecord` | abstract specification | one durable value that is provisioned, opened and updated atomically |
| `RedundantStore` | component | `open_redundant`, `provision_redundant`, `update_redundant` over two slots |
| `Lollipop` | operators | `seq_is_newer`, `increment_lollipop`, the initial 240 |
| `PathSync` | component | the Path Sequences of one leaf and its root over reboots and losses |
| `DaoSource` | abstract specification | what the DAO origins promise the root |
| `DaoOrigin` | component | `DaoTxState`, `build_signed_dao`, `send_dao` |
| `DaoRoot` | composition of `DaoSource` with the root | admission, `process_signature_verified`, route assembly, expiry, restart |
| `RootDio` | component, both ends | `send_dio`, `verify_dio_root_signature`, `RootSeqCache` |
| `RplLoop` | composition | `RplRuntime`, `TrickleTimer`, `DaoTxScheduler` |
| `Dodag` | composition of leaves and a root | `DodagState`, `NeighborTable`, `Router::process_authenticated_dio`, `maintain`, `send_dio` |
| `AccessOrder` | operators | the access orders of the peer, replay and neighbour tables |
| `LinkLayer` | component | peers, pins, replay windows, evidence and trust records of a receiver |
| `LinkTuple` | component | `try_next_link_tuple` and the epoch `lichend` saves |
| `PacketTransfer` | abstract specification | what fragmentation promises: one packet after the other, each handed over at most once |
| `FragmentReassembly` | operators | cutting a packet, the receiver's buffer, gaps and ACK bitmaps, repairs |
| `Fragmentation` | component, both ends | `FragmentSender`, `AuthenticatedFragmentReceiver`, the sessions and tombstones of `FragmentationPolicy` |
| `SealedRecords` | operators, instantiated twice | `GatewayOscoreSenderStore`, `GatewayOscoreRecipientStore` |
| `SlotCoordinator` | operators | claim verification, conflict resolution, `commit_slot_state`, loading |
| `GatewayRequests` | composition of the three stores with the secure stack | `dispatch_runtime_gcp` and `send_response` |
| `GatewayBoot` | composition | `lichend` from its first file to the running gateway |
| `RootProofs` | proofs | `RedundantStore`, `DaoRoot`, `PathSync` (section 4) |
| `LeafProofs` | proofs | `DaoOrigin`, `Lollipop`, `RplLoop` |
| `LinkProofs` | proofs | `LinkLayer`, `FragmentReassembly`, `Fragmentation` |
| `RootDioProofs`, `AccessOrderProofs`, `DodagProofs`, `GatewayRequestsProofs`, `GatewayBootProofs` | proofs | the module each is named after |
| `MC...` | instances | constants and symmetry for TLC |

The refinements form a chain: `RedundantStore` implements `DurableRecord`, which
is why `DaoOrigin` and `RootDio` may treat a write as one step that happens or
does not; `DaoOrigin` implements `DaoSource`, which is why `DaoRoot` may take
`DaoSource` for its leaves. `Fragmentation` implements `PacketTransfer`, which is
what a caller may rely on without knowing of fragments.

**RedundantStore.** `slots` is what the two keys hold, `handle` the
`RedundantValue` of each owner and `cache` the payload the owner computed its
next value from. The bytes of a frame are reduced to what `parse_slot` tells
apart: absent, torn, or a record with generation and payload. The storage
backend is the environment: a write succeeds, fails without effect, or is cut by
power loss, after which the key holds the old, the new or torn bytes. (Torn is
weaker than what `NonVolatile::write` promises; it is what CRC and second slot
are for.) Error returns are the negations of the guards and change nothing.

**DaoOrigin.** `disk` is the durable record, `tx` the copy in memory, `phase`
where `send_dao` is. One action per step that can be followed by a crash or an
error: `Reserve` is `reserve_next` together with the Path Sequence increment that
follows it in RAM, `Finalize` is `sign_dao` and `finalize_signed`, `TransmitOk`
and `TransmitFails` are `transmit_dao`, `Clear` and `ClearFails` are
`clear_transmitted`. `send_dao` holds the stack exclusively, so the parent
changes only between two calls. A parent whose key is not pinned (`Unpinned`)
makes `build_signed_dao` return early, but retained bytes are still sent to it.
Fairness: the node is started; while it is joined the scheduler calls `send_dao`
again (retry ladder, then every 15 minutes), and a call runs to its end. Nothing
is assumed of failures and crashes beyond their finite number (`MaxFaults`).

**DaoRoot.** `admitted` and `floor` are durable; `edges` (with deadline), `fresh`
(Path Sequence and candidate) and `routes` are lost at a restart. A DAO that an
origin made may arrive at any later time, any number of times. `Apply` is a DAO
newer than the floor, `Reconcile` the DAO of the floor again, which rebuilds what
a restart lost. `process_dao_inner` commits all of its maps or none, so each is
one step. The clock runs in ticks finer than the seconds of the lifetimes,
because `process_signature_verified_dao` rounds the start of a lifetime up and
`expire_routes` rounds down. One Target (the origin itself) and one Transit per
DAO, which is all the leaf builder makes.

**RootDio.** One receiver and the roots of a few DODAGs. The gate runs without an
await, so each verdict is one step, except that power may be lost in its write
(`CrashInPersist`) and the write may fail (`PersistFails`). Signature and
structure checks are the condition of a delivery: intact, forged, or moved onto
another header. `LocalRoots` run the repository's own producer, whose sequence is
constant; the other roots number their DIOs. The passing run has one of each.
`log`, `seen` and `refused` are observers.

**RplLoop.** One clock; an action samples it and every radio operation lets it
advance, by the receive timeout plus lateness or by the length of a transmission.
`Processed` and `Maintained` leave open what a frame or a pruned neighbour does
to the DODAG. `MaxTime` stands for `u64::MAX`: additions beyond it fail as the
code's checked additions do. The deadline of the receive and the
action are recomputed at every poll, as in the code. `bound` says whether the
generation the runtime is bound to is still the stack's. A multicast DIS
(`ReceiveDis`) restarts Trickle, with its jitter, through the low-level calls that
move the stack's generation; the receive in progress is then refused as stale, its
action stays pending, and every later poll is refused for that. What the owner does
next is not in the code but for a test, which makes a new `RplRuntime`, and an
example, which ends. `Rebinds` is that choice: with it the owner makes a new
runtime, whose maintenance starts a new grid (`NewRuntime`, `born`); without it the
runtime is kept and time passes (`Refused`). `node.changed` is an observer: when
the parent for which no DAO was attempted yet was chosen.

**LinkLayer.** `peers`, `pinned` and `replay` are the three maps; their access
times are only ever compared, so `order` and `lru` keep the pairs of entries of
which the first was used before the second (`AccessOrder`; the saturation of the
64-bit clocks is left out). A replay window is its epoch, last
sequence number and the set of seen numbers that the bit mask holds. The shared
flags that void evidence are the sets `retired` (key generations) and `dropped`
(link instances); `held` is one frame some caller keeps. Frames are signer, epoch
and sequence number and may arrive in any order and any number of times; parse
and signature errors change nothing. An interface identifier is 64 bits of a hash
of the key: the code handles two keys with the same one, and so does the model.
`disk` is the record the caller committed last, per peer, which is what the
minimum revision enforces. `accepted` is history: it begins and ends with the
peer's replay state, and a restored record brings back what had been accepted
when it was written.

**FragmentReassembly** and **Fragmentation.** A packet is a sequence of tiles and
its MIC is the packet itself. A bitmap is the set of positions whose bit is one,
in the sender's numbering (the last position is FCN 0, or the All-1 of the final
window). `sender` is the `FragmentSender` and the output its caller is still
writing: as in `SenderOutput`, the window, the positions of it that are still
missing and whether an ACK REQ follows them (an abort is never written, its
reservation is gone, so it counts as no output); `NextMessage` and `AfterMessage`
are what `write_next` takes from it and leaves. `sres` and `shold` are its reservation and hold-down, `rbuf`, `rres` and
`rtomb` the receiver's buffer, reservation and tombstone. Each is a timer that
counts down; the code stores deadlines. One action per public call:
`NewSender`, `Start`, `WriteFragment` (`get_fragment_current`), `WriteOutput`
(`write_next_current`), `Timeout`, `ReceiveControl` (`handle_ack_frame`),
`ReceiveData` (a frame tried on the session, else on the tombstone, else as an
opener), cancel and `Drop` of each side, and what `expire_due` does as
`SenderLapse`, `ReceiverLapse` and `RetireTombstone`. The calls that use a lapsed
reservation fail as in the code, except where the code lets a terminal result
pass. The caller is not in the repository; what is assumed of it is in the head
of the module: it polls `expire_due` before it hands over a frame (`PollFirst`),
and a frame is under way for at most `Latency`. `NewSender` is what `reserve_sender`
lets it do: to start the next packet as soon as the hold-down is over. That is too
early for T = 0 (section 5). A `Patient` caller waits for `Pause` more; nothing in
the code asks that of it, so it is a hypothesis of the run and of the theorems.
`SeparationAssumption` is about these times: a frame is under way for less than a
hold-down and for no longer than the pause, so that nothing of a patient caller's
packet is left when the next one begins, and a reservation lapses within a hold-down
(60 s each in the code). Fairness:
time passes, expiry is polled, and an output is written.

**SealedRecords**, **SlotCoordinator** and **GatewayRequests.** A store is a state
file and a floor file per context and a first-in first-out cache; an operator
returns the set of results its calls may have, failed writes included. The two
instances differ in the order of their states and in whether a context without a
record has a first state. `slots` is the coordinator in memory, its file and its
floor. A request passes `Admit` (replay check, opening, durable acceptance),
`Handle` (the resource), `Reserve` (the sequence number) and `Transmit`, and a
crash may come between any two, because each ends in an `await` or a write; the
dispatcher holds one request at a time. Each step may also be the last one: the
request names no resource (`Drop`; `Routed` reduces the options and the method of a
request to whether it has slots), there is no route or the response does not fit
(`Unsent`), the reservation fails or the protection after it (`Reserve` with
`GiveUp`). The request then stays pending; only `Transmit` takes it out, sent or not.
A read has no action of its own: like a
claim that is refused it changes the replay window and the pending entries only.
`install_gcp_context` is the public call, for any peer at any time, also for one that
has a context, which it replaces; the daemon
itself calls it before its loops, for at most as many peers as the store has room
for. `contexts` and `pending` are the installed
contexts and `pending_requests` of the secure stack. The OSCORE context is a
library outside the repository: it opens a Partial IV once in its lifetime and
reserves a number by compare-and-exchange. Peers repeat a claim under a new
Partial IV, the network repeats anything. Pending entries are matched by the
content of the request, as in `send_response`. `served`, `used`, `promised`,
`answered` and `renewed` are observers.

**GatewayBoot.** One action per durable write of `main`, in its order, with the
check that precedes it; a check that fails closed leads to `refused`, the end of
the link epochs to `exhausted`. A crash is possible between any two writes, and a
write that fails makes the daemon exit, with the file replaced or not, which is
the same. Contents are reduced to what the checks compare: generations, the set
of trusted peers, the number of entries. While the gateway runs, slot claims,
claim sequences and admissions move the same files on. A federation may be
configured differently at every boot. Fairness: a boot is straight-line code and
does not stop by itself.

**Dodag.** `node` holds for each leaf its `DodagState`, its neighbours (`heard`)
with the order in which they were last heard (`before`) and whether it has the root's authorization
of its version. A DIO is a copy of what its sender was; one is under way at a
time, each leaf in range may hear it, late, and a new one replaces it, which is
loss. A DIO that `process_authenticated_dio` rejects installs nothing of the
staged state, also not the eviction it made room by. `select_parent` returns a
set of outcomes, because candidates of equal cost are met in the order of a hash
map. Time is reduced to what aging compares: maintenance may find any number of
the least recently heard neighbours aged. The configuration is
constant, since every `Router` starts from the default one and no root changes it;
the link ETX is the 1.0 that `RplStack` passes. That a root raises its version is
external: the Rust root never does. `low` is an observer. Fairness: maintenance
runs, as `RplLoop` shows of the loop of an owner that replaces a stale runtime, so a
neighbour is pruned unless a DIO of it is accepted time and again; nothing is assumed
of the radio. With an owner that keeps a stale runtime (section 5) maintenance ends
and nobody leaves.

**LinkTuple.** The daemon saves the next epoch before the stack exists; the stack
counts in RAM. `used` is history. The module states one property, which the code
does not keep (section 5).

## 3. What the runs check

| Run | Instance | Distinct states | Shows |
|---|---|---|---|
| `root` | the store: 2 owners, 2 payloads, 6 generations; the DAO root: 4 leaves, tables of 3, 3 DAOs in all and up to 2 of one leaf, routes of 2 hops, lifetime 1 s of 2 ticks, clock to 4 | 541 200 (with symmetry) | the pair of slots is one atomic record and a usable handle holds the stored payload; edges agree with floors, routes sound, no loops, edges stay for their lifetime |
| `dao_origin` | 2 parents, 4 sequences, 3 faults | 26 834 | one DAO per sequence, sends durable and newest, implements `DaoSource`, the parent is announced in the end |
| `root_dio` | a root that numbers its DIOs and one that does not, 3 DIOs each, table of 1, 2 faults | 237 196 | verified DIOs in order over reboots, marks coherent and earned, no in-order DIO of the first root refused and never the first one of the second |
| `rpl_loop` | Imin 2, Imax 4, maintenance 2, ladder 1-2-4, refresh 12, end of time 26, a stale runtime is replaced; Path Sequences: the code's constants (128, 16), up to 18 losses | 2 422 716 | DAO, Trickle and maintenance deadlines kept (a Trickle event waits for one failing ladder of DAOs at most, the end of an interval also for its own transmission); maintenance on the runtime's grid; a DAO for a new parent attempted within a refresh, however many fail before; a leaf that loses fewer than 15 DAOs is refused at most 17 times, with 15 or 16 losses up to a turn of the circular region |
| `rpl_loop_dis` | the same, a stale runtime is kept | - | a finding of section 5 |
| `link_layer` | 4 keys, 2 of them with one identifier, table of 2, window 2, 3 generations, 2 instances | 620 506 (with symmetry) | an accepted frame is refused from then on, also after a restart from the record and whatever the replay table evicts; evidence is current exactly when the link accepts it; durable generations are not allocated twice; pins are not exchanged |
| `fragmentation` | 2 packets of 4 and 5 tiles with a common first one, windows of 4, 2 attempts, 2 frames under way from each side, a patient caller | 782 165 | implements `PacketTransfer`; an incomplete ACK names a tile the sender has; the receiver does not give up first; reservations end |
| `fragmentation_reuse` | 2 packets of one length, a caller that does not wait | - | a finding of section 5 |
| `gateway_requests` | 3 gateways, 3 slots, 3 requests, 2 superframes, stores of 1 context, window 1; at most two of: a crash, a failed call, a replaced context, a new superframe, a request for no resource | 2 344 658 | each request served once, nonces fresh, stores readable, acknowledged claims durable and respected, candidates valid; no two responses bound to one request while the peer keeps its first context |
| `gateway_boot` | 2 peers, 4 crashes, 4 epochs, 3 generations, 2 claims | 734 560 | no boot refuses what a crash left, the gateway comes up in the end, epochs and claim sequences fresh |
| `dodag` | 3 leaves, a table of 2, MaxRankIncrease of 2 hops, one new version or restart | 140 202 | ranks stay within MaxRankIncrease of the lowest; candidates are tracked neighbours below the node; without a root every leaf leaves the DODAG |
| `link_tuple_reuse` | small | - | a finding of section 5 |

The properties by run; each is stated in words in front of its definition:

* `root`: `HandleCoherent` and `AtomicRecord` of the store; `EdgesMatchFloor`,
  `RoutesSound`, `Loopless` and `EdgesStay` of the DAO root.
* `dao_origin`: `OneDaoPerSequence`, `SendsDurableNewest`, `PromisesKept`,
  `ParentAnnounced`.
* `root_dio`: `VerifiedInOrder`, `MarksCoherent`, `MarksEarned`, `RefusedLocal`.
* `rpl_loop`: `DeadlinesKept` (of DAOs and of maintenance), `TrickleOnTime`,
  `ParentChangeAnnounced`; `StallBounded` of the Path Sequences; `rpl_loop_dis`: `TrickleOnTime`.
* `link_layer`: `AcceptedOnce`, `EvidenceAgrees`, `DurableSerialsFresh`, `PinsHold`.
* `link_tuple_reuse`: `TuplesFresh`.
* `fragmentation`: `RepairPossible`, `ImplementsTransfer`, `AnswersSuffice`,
  `ReservationsEnd`; `fragmentation_reuse`: `SuccessMeansDelivered`.
* `gateway_requests`: `StoresReadable`, `PromisesKept`, `ClaimsRespected`,
  `CandidatesValid`, `ServedOnce`, `NonceFresh`, `AnsweredOnce`.
* `gateway_boot`: `NeverRefused`, `Recovers`, `EpochFresh`, `ClaimFresh`.
* `dodag`: `NoCreep`, `CandidatesTracked`, `OrphansLeave`.

Why the bounds are enough. In `root` and in `rpl_loop` one of two parts
moves while the other is at its start; they share no variable. The store: an update touches the two newest generations
only, so three updates visit every relation of the slots; six also reach the last
generation with each slot newest. The Path Sequences use the real constants and pass
the window by two, where the bound changes. `dao_origin`: three faults allow a
crash after a failed clear after a failed transmit, four sequences let two
complete DAOs follow them and the space run out. The DAO root: three DAOs are
enough for a loop of three leaves, for a chain that is too long, and for one leaf
to be overtaken by its own newer DAO beside another leaf's; the fourth leaf makes
the table full; the clock passes the deadline of an edge that was rounded up.
`root_dio`: a table of one entry with two DODAGs makes it full; three DIOs
allow overtaking, and a second DIO of the root that does not count. `rpl_loop`: the ladder is walked to its end before the refresh,
a late receive overtakes several deadlines, and the clock's end is reached with
every scheduler phase; a multicast DIS may come in any receive. `link_layer`: a table of two with three identifiers evicts,
two keys of one identifier replace each other, three generations allow evidence,
its retirement and a successor; one epoch and two numbers suffice for the tables,
because what the window does with every epoch, number and width is proved.
`fragmentation`: one packet fits one window exactly and the other reaches a second
one, so that a partial final window and a full one both need repair; the common
first tile makes a late opener of one packet a plausible opener of the other; two
attempts make both limits bite; two frames under way from each side allow
reordering, and the link counter never runs out in the run. Wider windows only
repeat the same positions. `gateway_requests`: a cache of one context with two
peers evicts at every change of the peer; a window of one has its edge at every
second request; three requests let a claim be repeated, overtaken by another and
answered by a yield. One peer has a
lower and one a higher identifier, so a claim is lost, won and yielded. Two of the
rare events come in any order: what a crash, a failed call or a replacement leaves is
met by one more of them. A request that is left pending is passed over, answered by an
equal one or evicted. The context of one peer is replaced, because what a context holds
concerns no other.
`gateway_boot`: four crashes cut a provisioning short twice and an operating
gateway twice; the epochs run out on the last of them, so both ends of `Recovers`
occur. `dodag`: three neighbours and a table for two evict candidates, the two
relays of one rank are ties, and the one that hears the leaf can become its child,
so that a late DIO offers a loop; two hops of increase are room for more than one
turn of it.
Each property has a mutant in `PROJECT.json`: a change of a
mapped definition, of the kind a bug in that code would be, under which the run
finds the property violated.

Deadlock is checked in every run but those of `LinkTuple`, `GatewayRequests` and
`GatewayBoot`: each of the others can always go on (a crash, a reboot, another
frame or another poll is possible in every state). A sender whose saved epoch is
the last one does stop: the daemon refuses to start until the identity is rotated,
which is a final state of `LinkTuple` and of `GatewayBoot` (`exhausted`). In
`GatewayRequests` the bounded numbers of requests, superframes and faults run out.

Fairness is stated in four modules, as section 2 explains with each:
`DaoOrigin` (`ParentAnnounced`), `Fragmentation` (`ReservationsEnd`),
`GatewayBoot` (`Recovers`) and `Dodag` (`OrphansLeave`). Nothing is assumed of delivery.

Only model-checked, not proved: these four liveness properties (fairness and
ENABLED are beyond the prover). Every other property of a passing run, 36 of 40, is
also a theorem of section 4. Some hold only with an exception or of one kind of caller;
TLC finds a counterexample to each without it. `RefusedLocal` excepts the repository's
own producer of DIOs. `AnsweredOnce` excepts a peer whose context was replaced: a failed
acceptance and a replacement let one request be opened, and answered, twice. The
properties of `rpl_loop` are those of an owner that replaces a stale runtime, the ones of
`fragmentation` those of a patient caller; of another one `ImplementsTransfer` and
`AnswersSuffice` are false.

## 4. What is proved

Assumptions are the named `ASSUME`s of each module: bounds are natural numbers,
sentinels differ from what they stand beside, and for `Lollipop` a window of less
than half the circular region (16 of 128 in the code). A neighbour table has at
least two entries (16 in the code): with one, `CandidatesTracked` would be false,
because a table that is full with the protected parent lets a newer version clear
the candidates and then takes its sender as a candidate without tracking it. There
is no assumption on the number of clients, payloads, parents, nodes, keys, DIOs,
packets, requests, crashes or faults. The sets of gateways and of peers that a gateway
trusts, and of the origins of a root, are finite. `RefreshAssumption` of `RplLoop`
says that the refresh interval (15 minutes) is longer than the initial delay, than
any rung of the retry ladder (16 s) and than the radio operations between two polls;
`SeparationAssumption` of `Fragmentation` is explained in section 2.

Some theorems have a hypothesis of their own. `StallsEnd`:
the lollipop window has at least two values (16 in the code). Those about the owner
loop: the owner makes a new runtime when the old one is stale (`Rebinds`); of one that
does not they are false (`rpl_loop_dis`).
`RepairIsPossible` and `AnswersDoSuffice`: the receiver's caller polls `expire_due`
before each frame (`PollFirst`), without which a frame may be taken into a session that
has lapsed, and the sender's caller is `Patient`, without which packets are taken for
each other (`fragmentation_reuse`). `TransferRefinement` needs the same, and that no
two packets are equal, because the refinement mapping tells packets apart by their
contents.

* **RootProofs**, the store: `StoreTypeCorrect`, `StoreConsecutive`, `StoreCoherent`,
  `StoreRefinement`. `HandleCoherent` is not inductive: a stale handle must be known
  to stay stale. The invariant (`StoreInv`) adds that no handle is ahead of the newest
  generation and that a handle at that generation agrees with the copy it names
  (`HandleBound`), and that a client without a
  handle has no payload while a copy that parses has a generation (`Wellformed`). An
  update then makes every other handle stale, because generations are
  consecutive; power loss in a write only touches the older slot, so the view
  stays or becomes the new value, and each step is a step of `DurableRecord`.
* **RootProofs**, the DAO root: `FloorKept`, `NoLoops`, `RoutesAreSound`,
  `LiveEdgesStay`, for any finite set of origins, every table size, lifetime and route
  length.
  The invariant `RootInv`: an edge comes from the path sequence entry of its origin
  and that from the DAO of the floor (`Follows`); every set of origins has a way out
  of it (`Exits`), which is looplessness without paths; a route is a path over the
  edges there are (`Routed`).
  `CycleFound` shows that `contains_cycle`, which only walks as many steps as there
  are origins, finds every set without a way out: a chain that long would meet one
  origin twice. `LiveEdgesStay` says of every lifetime that an edge goes only with its
  deadline, its replacement or a restart; that it does go with the soft-state period
  is what the shipped lifetime denies (section 5).
* **RootProofs**, Path Sequences: `StallsEnd`, for every window and circular region of
  more than twice its size. With at most a window of losses the leaf is where it is
  because it counted on from the value the root has, or from its start value since a
  reboot (`SyncInv`: `FromRoot` or `FromStart`); both bound the refusals.
* **LeafProofs**, the origin: `OriginTypeCorrect`, `OneDao`, `DurableNewest`,
  `OriginRefinement`
  (`Spec => DaoSource`). The invariant: memory equals disk while the node is up
  (`Synced`), what is retained in each phase (`PhaseOK`), no DAO anywhere is
  numbered above the reserved sequence, and strictly below it while one is being
  built (`SeqBound`), and two DAOs of one number are equal (`Distinct`). A new DAO
  is then numbered above all others when it is finalized. Of `Lollipop` this needs
  that two values are never each newer than the other
  (`NewerAntisymmetric`), that an increment is a sequence and newer than what it
  follows (`IncrementNewer`) and that the start value is a sequence (`StartIsSeq`).
* **LeafProofs**, the owner loop: `DeadlinesAreKept` (from `DaoIsOnTime` and
  `MaintenanceIsOnGrid`), `TrickleIsOnTime`, `ChangesAreAnnounced`, for every timing constant, retry ladder,
  lateness and length of a transmission, and any number of multicast DIS and new
  runtimes. The invariant `LoopInv` relates the last clock sample to the
  next maintenance (`MaintAhead`), to the DAO deadline (`DaoPlanned`: a receive ends
  before it, and nothing else is pending once it is due; `DaoNear`: it is at most a
  refresh away), to the change of the parent (`ChangeNear`), and to the Trickle event
  (`EventPending`, `EventLate`). The last is the one that matters for starvation: a
  late event is late by what the attempts made of the ladder have cost, and after
  the whole ladder the scheduler rests for a refresh, in which the event is served.
* **RootDioProofs**: `OnceVerified`, `Coherent`, `MarksGrow`. The log of verified
  DIOs is in order because every logged sequence is at most the durable mark of
  its key (`LogBelowMarks`) and a new one exceeds the mark in memory, which is the
  durable one (`MarksCoherent`); neither a failing write nor a crash separates
  them. A second layer over it (`EInv`) gives `Earned` and `OnlyLocalRefused`: the DIOs on the air of a root are numbered in the order in
  which they were made (`AirNumbered`), a mark is that of an intact delivery, and
  so a DIO that none has overtaken exceeds the mark, unless its producer does not
  count. There is no assumption on which roots run which producer.
* **AccessOrderProofs**: what the tables need of their access orders, for any
  finite table. A touch and a removal keep the order total (`TouchTotal`,
  `WithoutTotal`), and a table that is not empty has a least recently used entry
  (`FirstExists`), by the well-ordering of the naturals (`LeastNat`) applied to
  the number of predecessors. An eviction therefore removes exactly one entry.
* **LinkProofs**, the link receiver: `AcceptedIsReplay` and `ReplayStaysReplay` are the two
  facts that make `AcceptedOnce` inductive: a frame the window accepted is refused
  at once, and accepting another never makes it acceptable again, because a bit
  that is shifted out lies below the window from then on. `PinsNeverExchanged` is
  `PinsHold` for every number of keys and however they share identifiers.
  `NoFrameTwice`, `FlagsAgree`, `SerialsFresh` and `TablesConsistent` rest on the
  invariant `LInv` in four parts. `TableInv`: the peer table is within its capacity
  and every replay window is that of the configured key of its identifier; hence
  there are at most as many windows as peers, and the replay table, which evicts by
  an order of its own, never has to evict one of a configured peer. `SerialsInv`
  adds to `DurableSerialsFresh` that a record's serial is below the next one of its
  writer, and that the next one of an instance that wrote or restored it is not below
  that. `ReplayInv`: what was accepted is a replay of the window in memory, and what a
  record says was accepted is one of the window it restores.
  `EvidenceInv` adds to `EvidenceAgrees` that the runtime generation of a configured
  peer is allocated, is its own and is not retired.
* **LinkProofs**, fragmentation: `RepairIsPossible`, `TransferRefinement`,
  `AnswersDoSuffice`, for all lists of packets, window sizes, numbers of attempts and
  frames under way. Two layers. The first is about `finalize` alone: a buffer that
  `Fits` a packet holds tiles of it at their places, the opening one among them; each
  fragment keeps that, never aborts, and every answer is an `Answer` to that packet:
  if incomplete, it lacks a position the packet fills, if complete, the reassembled
  packet is the one sent. A failed MIC over a window without a gap is the case that
  needs an argument: what is missing then lies behind the last tile received, so
  either the All-1 is asked for again or a regular tile is named. The second,
  `FragInv`, puts buffer and packet together although no frame says which packet it
  is of. Everything that is under way or open was caused by a use of the sender's
  reservation at most so long ago (`InTime`, with `Quiet` the time since that use);
  when a patient caller starts the next packet, that time is over. So all there is belongs to the
  packet on offer (`Session`): its opening fragment is written once, a session that is
  open was opened by it and a packet handed over has no opener ahead, hence no second
  session. `AnswersDoSuffice` adds a count (`Counted`): the requests still to be
  written, under way and answered are together at most the attempts made, which are
  at most `MaxAckRequests`, so the receiver never reaches its own limit first.
* **GatewayBootProofs**: `BootsAgain`, `EpochsFresh`, `ClaimsFresh`, for every
  number of crashes, epochs, generations and claims and every finite set of peers.
  `NeverRefused` says only that a point is not reached; what makes it inductive is
  the order of the files (`FileInv`): an artifact exists only with a manifest and a
  manifest only with a claim sequence; a floor exists only with its store and is
  never above it; a store whose stage is not committed has its first contents; the
  two root files are empty while the gateway is provisioned and both there
  afterwards; provisioning is resumed exactly while the stage is below COMPLETE; the
  slot floor is at most one above memory. Epochs run under are at most the saved
  one, and below it until the gateway runs (`EpochInv`); sequences handed out are
  at most the one in memory, and that at most the one in the file (`ClaimInv`).
* **DodagProofs**: `NeverCreeps`, `AlwaysTracked`, for every network of leaves and
  links, every loss, and new versions and restarts up to 16 in all, the window within
  which the versions of the model are ordered as the code orders them. A node is `Good` when
  its table is within its capacity, ordered, and contains its candidates (`Tabled`),
  and when its candidates are below it and its rank is within MaxRankIncrease of its
  lowest (`Ranked`). Each operator of the DODAG keeps that from any DIO, whatever the
  sender was (`Prunes`, `Reselects`, `Removes`, `Hears`, `Forgets`, `Processes`), and
  lowers the lowest rank or keeps it unless the version changes (`Falls`), which
  bounds it by the observer `low`. Nothing relates two nodes.
* **GatewayRequestsProofs**: the seven properties that the run checks of
  `GatewayRequests`, for any gateways and claims, any capacities and replay window, and
  any number of requests, superframes, crashes, failed writes and replaced contexts.
  The invariant `GInv` has a part per store.
  One argument (`StoreInv`) serves both OSCORE stores, whose orders of states are its
  parameter: a floor is never ahead of its state file, a cached state is the one of
  its floor or there is no floor, a context has at most one cache entry, and whatever
  a process can load is still acceptable for its context (no served request is fresh
  in it, no used number is at or above it). A failed save leaves the state file ahead
  of floor and cache only, which the next load repairs; an eviction loses nothing that
  is not on disk. For the coordinator the file may be ahead of memory by the
  one claim whose commit failed and the floor by one generation; that the
  acknowledged claims are spent and respected is shown of memory and file separately,
  because a crash exchanges the one for the other. `PendingInv` gives `BoundOnce`
  (`AnsweredOnce`): what is pending of a peer with its first context is in what that
  context has opened, so it was opened once, and no response was bound to it but the
  one being transmitted, which takes it out.

Outside the prover's reach, and so left to TLC: liveness under fairness, ENABLED, and
anything over `RECURSIVE` operators, which no module uses. Induction over data is out
of reach too, because the induction theorems take an operator as a parameter.
Where a proof needs the effect of one, it argues by a least counterexample instead
(`LeastNat` in `AccessOrderProofs`, the well-ordering of sets of numbers): that is
how `RootProofs` reaches the recursive function `Chain` of `contains_cycle`.

## 5. Findings

**A roll-over is forgotten by a restart** (`link_tuple_reuse`). When the sequence
number runs out, the stack enters the next epoch and nothing saves it; the daemon
then starts in that same epoch at 0 and signs tuples it has signed before, where
`spec/02-physical-link.md` requires it to resume above the last one used.
Receivers that know it refuse its frames as replays until it has passed the old
position.

**A multicast DIS stops the owner loop** (`rpl_loop_dis`). Inside the receive, the DIS
resets Trickle by calls that move the stack's generation (`rpl_stack/receive.rs:668`).
The completion of that same receive is refused as stale before it takes the pending
action, and from then on every poll is refused because an action is pending. Unless
its owner makes a new `RplRuntime`, as one test does and no document asks, the node
answers the DIS (`draft-lichen-rpl-lora-00.md:260`) with silence: no DIO, no DAO, no
maintenance. `rpl_loop` shows that replacing the runtime is enough.

**A packet is taken for the one before it** (`fragmentation_reuse`). The two
hold-downs do not end together: the sender's starts when it gives a packet up, the
receiver's with the last frame that arrived. `reserve_sender` (`fragment.rs:627`) looks
at the sender's only. The trace: a packet is cancelled while its last fragment is under
way, the receiver completes it, the next packet starts when the sender's hold-down is
over, its opener is swallowed by the receiver's tombstone and its last fragment is
answered with the complete ACK that the tombstone keeps for the previous packet; the
sender reports success for a packet nobody received (`spec/03-adaptation.md:268-269`,
`:336-337`).

Other places where the code and a document or comment differ, met while modelling.
The models follow the code; no run is kept for them.

* *A response is bound to an older request.* The pending entry of a request goes only
  when its response is transmitted or fails to be. It stays when there is no route
  (`rpl_stack/secure.rs:213`), when a preflight, the reservation or the encoding fails
  (`secure.rs:1492-1558`) and when the request names no resource
  (`gateway.rs:1555-1592`); an equal request that follows is answered under the old
  Partial IV and token, with no crash and no failed write, where the comment at
  `secure.rs:1571-1576` says that a dead correlation "must not serve a later
  byte-identical retry". `AnsweredOnce` is what holds.
* *The shipped lifetime is infinite.* `DodagConfig::default` gives every DAO the
  lifetime 255 (`lichen-rpl/src/message.rs:683`), which the root takes as no deadline
  and no receiver bounds (`router.rs:539-546`): the edge of a leaf that went silent
  stays until a restart, while `spec/09-packets-timing.md:127` and
  `dao_timing.rs:20-21` speak of 30 minutes of soft state. `EdgesStay` holds of every
  lifetime; that edges go in time holds of no run.
* *The producer of signed DIOs does not count.* `root_dio_seq` is 1 for the life of a
  `Router` (`routing/router.rs:210`, `:975`; the comment at `:187-188` and
  `spec/06-security.md:653` say that it increments), so a receiver verifies the first
  signed DIO of such a root and refuses every later one as a replay. `RefusedLocal` is
  what holds.
* *Routing.* A parent change waits for the running retry or the refresh (`rpl_stack/mod.rs:213`), where
  `draft-lichen-rpl-lora-00.md:275` says at once; `ParentChangeAnnounced` states
  the bound that the code keeps. A newer version is not adopted from an advertiser
  that is poisoned or not admissible, because the router discards the staged state
  (`routing/router.rs:569`, `:630`), where the comment at `dodag.rs:434` says that the
  version must not wait for an admissible advertiser. A root with a wall clock signs
  its DIOs and leaves the version authorization out (`router.rs:951`), so from those
  no new version is adopted at all.
* *Fragmentation.* A terminal result is released although the reservation has
  lapsed (`fragment.rs:706`), so without a poll before the frame a packet can be
  delivered, and success reported, after the deadline
  (`spec/03-adaptation.md:269-270`). A Sender-Abort is pending only after the
  reservation is gone and so is never written (`fragment.rs:2491`;
  `draft-lichen-schc-lora-00.md:375-376` has it sent). Expiry drops a tombstone
  together with its counter floor (`spec/03-adaptation.md:339` keeps the floor).
* *Gateway requests.* A context without a record is refused by a full cache
  (`gateway.rs:634`), while a cached one evicts. The table of gateways of the slot
  verifier never evicts. With the default slot map a gateway owns every slot, so a
  claim with a lower identifier is answered with too few free slots, where
  `spec/08` has the gateway yield.
* *Gateway start.* The trust store and its floor are two writes
  (`gateway.rs:1272`; the comment above it says "persists atomically with the
  floor below"), and after a crash between them no later boot with the same peers
  raises the floor. Every boot consumes a link epoch, also one that fails later. A
  gateway provisioned before there was a claim sequence is refused.

## 6. What is not modelled

Byte formats, signatures and COSE decoding: the models start from messages that
parsed and say what a failing check does. In the root: several Targets or
Transits in one DAO, Path Control ranks, delegated prefixes and managed hosts
(`rpl_managed_hosts` only grows, `routing.rs:1794`), eviction of freshness entries
(only possible with more targets than one per origin, `routing.rs:1432`),
lollipop-only processing of unsigned DAOs. In the loop: the outcomes of
parent selection are left open. In `Dodag`: changes of the DODAG configuration and
links of different ETX, neither of which the Rust stack produces, and the rate
limit on DIOs, which is one more loss. In the store: the typed wrappers
and the backends (`FileStorage` ignores the result of syncing the directory,
`storage.rs:590`). Of the root sequences: a signed zero, which no producer makes
and the cache could not read again (`root_seq_cache.rs:247`). In the link layer:
the frame codec, the receipt clock and the SCHC floor commitment of a trust record.
In fragmentation: installing and renewing policies, permits and generations, saving
and restoring the counter floor, the storage limit. In the gateway: the claims it
sends itself, the dynamic slot map, the node registry and handoff, introductions and
expiry of trust, the OSCORE library. The parts of section 1.2. Codecs, drivers,
firmware, user interfaces and bridges have no protocol state of their own and are
left out for good.

## 7. Plan

In this order; each step is a module, its instance, its properties and mutants.

1. `Dodag` composed with `RplLoop` in place of its open choices, and configuration
   changes.
2. DAO root, the rest: several Targets and Transits, Path Control, delegated
   prefixes, eviction; route assembly against a reference definition.
3. TX queue, CSMA and duty cycle; forward buffer and DTN.
4. CoAP client, Observe, Block; OSCORE key update.
5. Gateway handoff between two gateways.
6. Announce store, LOADng, multi-root coordination, short addresses.
