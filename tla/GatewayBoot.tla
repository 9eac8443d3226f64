---------------------------- MODULE GatewayBoot ----------------------------
(***************************************************************************)
(* How the gateway daemon provisions itself and starts again               *)
(* (lichen-gateway/src/bin/lichend.rs, with the trust store, the slot      *)
(* replay store and the RPL root state that it opens).  The daemon makes   *)
(* one durable write after another and fails closed on a combination of    *)
(* files that it takes for tampering, so the question is whether a crash   *)
(* between two writes can leave such a combination behind.                 *)
(*                                                                         *)
(* A file is a sequence of at most one value, empty when it does not       *)
(* exist.  Every write replaces its file by a rename.  A write that fails  *)
(* makes the daemon exit, with the file replaced or not: in the model this *)
(* is a Crash after or before the write.                                   *)
(***************************************************************************)
EXTENDS Integers, FiniteSets, Sequences

CONSTANTS
    Peers,           \* the gateways that a configuration may name
    MaxEpoch,        \* the last link epoch (255 in the code, counted from 128)
    MaxCrashes,      \* bound: the crashes
    MaxGeneration,   \* bound: the generations of the slot replay state
    MaxClaim         \* bound: the claim sequence

ASSUME BootAssumption ==
    /\ IsFiniteSet(Peers)
    /\ {MaxEpoch, MaxCrashes, MaxGeneration, MaxClaim} \subseteq Nat
    /\ MaxEpoch > 0

VARIABLES
    disk,       \* the files of the state root and of the rollback-floor root
    pc,         \* what the daemon does next
    ram,        \* what it holds in memory: [created, resume, slot, claim]
    crashes,    \* the crashes so far
    epochs,     \* the link epochs the gateway has run under
    claimed     \* the claim sequences handed out for signing

vars == <<disk, pc, ram, crashes, epochs, claimed>>

\* The stages of the provisioning manifest.
IDENTITY == 0
TRUST    == 1
SLOT     == 2
COMPLETE == 3

Exists(file) == file # << >>
Larger(a, b) == IF a > b THEN a ELSE b

EmptyTrust == [generation |-> 1, peers |-> {}]

Init ==
    /\ disk = [seed |-> << >>, epoch |-> << >>, claim |-> << >>, manifest |-> << >>,
               trust |-> << >>, trustFloor |-> << >>, slot |-> << >>, slotFloor |-> << >>,
               admissions |-> << >>, replay |-> << >>]
    /\ pc = "down"
    /\ ram = [created |-> FALSE, resume |-> FALSE, slot |-> 0, claim |-> 0]
    /\ crashes = 0
    /\ epochs = {}
    /\ claimed = {}

\* A step of the boot: it goes on with its writes, or fails closed.
Step(at, ok, next, files, memory) ==
    /\ pc = at
    /\ IF ok
       THEN pc' = next /\ disk' = files /\ ram' = memory
       ELSE pc' = "refused" /\ UNCHANGED <<disk, ram>>
    /\ UNCHANGED <<crashes, epochs, claimed>>

Start ==
    /\ pc = "down"
    /\ pc' = "seed"
    /\ UNCHANGED <<disk, ram, crashes, epochs, claimed>>

(***************************************************************************)
(* The identity and the link epoch, which every boot advances.             *)
(***************************************************************************)
OpenSeed ==
    Step("seed", TRUE, "epoch",
         [disk EXCEPT !.seed = <<"identity">>],
         [ram EXCEPT !.created = ~ Exists(disk.seed)])

\* MUTANT of NextEpoch: a stored epoch is used again.
NextEpochStored ==
    Step("epoch", TRUE, "claim",
         [disk EXCEPT !.epoch = IF Exists(@) THEN @ ELSE <<1>>], ram)

NextEpoch ==
    IF disk.epoch = <<MaxEpoch>>
    THEN Step("epoch", TRUE, "exhausted", disk, ram)
    ELSE Step("epoch", TRUE, "claim",
              [disk EXCEPT !.epoch = IF Exists(@) THEN <<@[1] + 1>> ELSE <<1>>], ram)

(***************************************************************************)
(* The claim sequence, which a provisioned gateway must have, and the      *)
(* provisioning manifest.                                                  *)
(***************************************************************************)
Artifacts == <<disk.trust, disk.trustFloor, disk.slot, disk.slotFloor>>
SomeArtifact == \E i \in DOMAIN Artifacts : Exists(Artifacts[i])
AllArtifacts == \A i \in DOMAIN Artifacts : Exists(Artifacts[i])

\* MUTANT of OpenClaimSeq: the counter is only persisted with the first claim.
OpenClaimSeqLazily ==
    Step("claim",
         (Exists(disk.manifest) \/ SomeArtifact) => Exists(disk.claim),
         "manifest", disk,
         [ram EXCEPT !.claim = IF Exists(disk.claim) THEN disk.claim[1] ELSE 0])

OpenClaimSeq ==
    Step("claim",
         (Exists(disk.manifest) \/ SomeArtifact) => Exists(disk.claim),
         "manifest",
         [disk EXCEPT !.claim = IF Exists(@) THEN @ ELSE <<0>>],
         [ram EXCEPT !.claim = IF Exists(disk.claim) THEN disk.claim[1] ELSE 0])

OpenManifest ==
    LET stored == Exists(disk.manifest)
        fresh  == ~ stored /\ (ram.created \/ ~ SomeArtifact)
    IN  Step("manifest",
             \/ stored
             \/ fresh /\ ~ (ram.created /\ SomeArtifact)
             \/ ~ fresh /\ AllArtifacts,
             "trust",
             [disk EXCEPT !.manifest = IF fresh THEN <<IDENTITY>> ELSE @],
             [ram EXCEPT !.resume = fresh \/ (stored /\ disk.manifest[1] < COMPLETE)])

(***************************************************************************)
(* The trust store and its floor (recover_or_provision_trust_store while   *)
(* provisioning, a plain load afterwards).                                 *)
(***************************************************************************)
Stage == disk.manifest[1]

Advance(stage) == [disk EXCEPT !.manifest = <<Larger(Stage, stage)>>]

\* initial_resume_state_is_valid
InitialResumeStateIsValid(boundary, initial) == Stage >= boundary \/ initial

TrustLoads == Exists(disk.trust) /\ Exists(disk.trustFloor)
                  /\ disk.trust[1].generation >= disk.trustFloor[1]

\* MUTANT of TrustRecovers: a store without a floor is not recovered.
TrustRecoversWhole ==
    /\ Exists(disk.trust) <=> Exists(disk.trustFloor)
    /\ Stage >= TRUST => TrustLoads
    /\ InitialResumeStateIsValid(TRUST, Exists(disk.trust) => disk.trust[1] = EmptyTrust)

TrustRecovers ==
    /\ Stage >= TRUST => Exists(disk.trust) /\ Exists(disk.trustFloor)
    /\ CASE Exists(disk.trust) /\ Exists(disk.trustFloor)     -> TrustLoads
         [] ~ Exists(disk.trust) /\ Exists(disk.trustFloor)   -> disk.trustFloor[1] = 1
         [] OTHER                                             -> TRUE
    /\ InitialResumeStateIsValid(TRUST, Exists(disk.trust) => disk.trust[1] = EmptyTrust)

OpenTrust ==
    IF ram.resume
    THEN Step("trust", TrustRecovers, "trust_floor",
              [disk EXCEPT !.trust = IF Exists(@) THEN @ ELSE <<EmptyTrust>>], ram)
    ELSE Step("trust", TrustLoads, "slot", disk, ram)

AnchorTrust ==
    Step("trust_floor", TRUE, "trust_stage",
         [disk EXCEPT !.trustFloor = IF Exists(@) THEN @ ELSE <<disk.trust[1].generation>>], ram)

CommitTrust == Step("trust_stage", TRUE, "slot", Advance(TRUST), ram)

(***************************************************************************)
(* The slot replay state and its floor (recover_or_provision_slot_replay). *)
(***************************************************************************)
SlotLoads == Exists(disk.slot) /\ Exists(disk.slotFloor) /\ disk.slot[1] >= disk.slotFloor[1]

OpenSlot ==
    IF ram.resume
    THEN Step("slot",
              /\ Stage >= SLOT => Exists(disk.slot) /\ Exists(disk.slotFloor)
              /\ ~ Exists(disk.slot) /\ Exists(disk.slotFloor) => disk.slotFloor[1] = 1,
              "slot_floor",
              [disk EXCEPT !.slot = IF Exists(@) THEN @ ELSE <<1>>], ram)
    ELSE Step("slot", SlotLoads, "admissions", disk,
              [ram EXCEPT !.slot = disk.slot[1]])

AnchorSlot ==
    Step("slot_floor", TRUE, "slot_stage",
         [disk EXCEPT !.slotFloor = IF Exists(@) THEN @ ELSE <<1>>], ram)

CommitSlot ==
    Step("slot_stage",
         SlotLoads /\ InitialResumeStateIsValid(SLOT, disk.slot[1] = 1),
         "admissions", Advance(SLOT), [ram EXCEPT !.slot = disk.slot[1]])

(***************************************************************************)
(* The RPL root state: the admitted origins and their high-water, each by  *)
(* the number of its entries (provision_or_resume_root_state, open_root).  *)
(***************************************************************************)
Empty(file) == Exists(file) => file[1] = 0

OpenAdmissions ==
    IF ram.resume
    THEN Step("admissions", Empty(disk.admissions) /\ Empty(disk.replay), "replay",
              [disk EXCEPT !.admissions = IF Exists(@) THEN @ ELSE <<0>>], ram)
    ELSE Step("admissions",
              /\ Exists(disk.admissions) /\ Exists(disk.replay)
              /\ disk.replay[1] <= disk.admissions[1],
              "federation", disk, ram)

OpenReplay ==
    Step("replay", TRUE, "federation",
         [disk EXCEPT !.replay = IF Exists(@) THEN @ ELSE <<0>>], ram)

(***************************************************************************)
(* The federation: no federation, or a configured set of peers that become *)
(* the trusted ones, each change a generation (provision_closed_federation)*)
(***************************************************************************)
Federated(config) ==
    LET old     == disk.trust[1]
        changes == (config \ old.peers) \union (old.peers \ config)
    IN  [generation |-> old.generation + Cardinality(changes), peers |-> config]

Disabled == Step("federation", TRUE, "complete", disk, ram)

Federate ==
    /\ pc = "federation"
    /\ \E config \in (SUBSET Peers) \ {{}} :
        IF Federated(config) = disk.trust[1]
        THEN Step("federation", TRUE, "complete", disk, ram)
        ELSE Step("federation", TRUE, "federation_floor",
                  [disk EXCEPT !.trust = <<Federated(config)>>], ram)

AnchorFederation ==
    Step("federation_floor", TRUE, "complete",
         [disk EXCEPT !.trustFloor = <<disk.trust[1].generation>>], ram)

\* The gateway runs.
Complete ==
    /\ pc = "complete"
    /\ pc' = "running"
    /\ disk' = IF ram.resume THEN [disk EXCEPT !.manifest = <<COMPLETE>>] ELSE disk
    /\ epochs' = epochs \union {disk.epoch[1]}
    /\ UNCHANGED <<ram, crashes, claimed>>

(***************************************************************************)
(* The running gateway.  A slot claim is committed to the file, the floor  *)
(* and memory in this order, stopping where a write fails.                 *)
(***************************************************************************)
CommitClaims ==
    /\ pc = "running"
    /\ ram.slot < MaxGeneration
    /\ LET next    == ram.slot + 1
           written == [disk EXCEPT !.slot = <<next>>]
           floored == [written EXCEPT !.slotFloor = <<next>>]
       IN  \/ disk' = written /\ ram' = ram
           \/ disk' = floored /\ ram' = ram
           \/ disk' = floored /\ ram' = [ram EXCEPT !.slot = next]
    /\ UNCHANGED <<pc, crashes, epochs, claimed>>

\* MUTANT of NextSeq: memory is advanced although the write failed.
NextSeqUnchecked ==
    /\ pc = "running"
    /\ ram.claim < MaxClaim
    /\ \E file \in {disk.claim, <<ram.claim + 1>>} : disk' = [disk EXCEPT !.claim = file]
    /\ ram' = [ram EXCEPT !.claim = @ + 1]
    /\ claimed' = claimed \union {ram.claim + 1}
    /\ UNCHANGED <<pc, crashes, epochs>>

\* ClaimSeqStore::next_seq: the file, then memory and the caller.
NextSeq ==
    /\ pc = "running"
    /\ ram.claim < MaxClaim
    /\ disk' = [disk EXCEPT !.claim = <<ram.claim + 1>>]
    /\ \/ /\ ram' = [ram EXCEPT !.claim = @ + 1]
          /\ claimed' = claimed \union {ram.claim + 1}
       \/ UNCHANGED <<ram, claimed>>
    /\ UNCHANGED <<pc, crashes, epochs>>

\* An origin is admitted before its first DAO is accepted.
AdmitOrigin ==
    /\ pc = "running"
    /\ disk.admissions = <<0>>
    /\ disk' = [disk EXCEPT !.admissions = <<1>>]
    /\ UNCHANGED <<pc, ram, crashes, epochs, claimed>>

\* A DAO of an admitted origin is accepted: its replay floor is durable first.
AcceptDao ==
    /\ pc = "running"
    /\ disk.admissions = <<1>> /\ disk.replay = <<0>>
    /\ disk' = [disk EXCEPT !.replay = <<1>>]
    /\ UNCHANGED <<pc, ram, crashes, epochs, claimed>>

\* A crash, or an exit after a failed write; what is in memory is lost.
Crash ==
    /\ pc \notin {"down", "refused", "exhausted"}
    /\ crashes < MaxCrashes
    /\ crashes' = crashes + 1
    /\ pc' = "down"
    /\ ram' = [created |-> FALSE, resume |-> FALSE, slot |-> 0, claim |-> 0]
    /\ UNCHANGED <<disk, epochs, claimed>>

Boot ==
    \/ Start \/ OpenSeed \/ NextEpoch \/ OpenClaimSeq \/ OpenManifest
    \/ OpenTrust \/ AnchorTrust \/ CommitTrust
    \/ OpenSlot \/ AnchorSlot \/ CommitSlot
    \/ OpenAdmissions \/ OpenReplay
    \/ Disabled \/ Federate \/ AnchorFederation \/ Complete

Run == CommitClaims \/ NextSeq \/ AdmitOrigin \/ AcceptDao

Next == Boot \/ Run \/ Crash

\* The boot is straight-line code of one task: it does not stop by itself.
Spec == Init /\ [][Next]_vars /\ WF_vars(Boot)

-----------------------------------------------------------------------------
(***************************************************************************)
(* No crash, wherever it happens, leaves files that the next boot takes    *)
(* for tampering and refuses.                                              *)
(***************************************************************************)
NeverRefused == pc # "refused"

(***************************************************************************)
(* Once the crashes end the gateway runs, unless its link epochs are used  *)
(* up: an interrupted provisioning is always resumed to its end.           *)
(***************************************************************************)
Recovers == []<>(pc \in {"running", "exhausted"})

(***************************************************************************)
(* No two boots start in the same link epoch, in which the frame counters  *)
(* begin at zero, wherever a boot is cut short.  (The roll-over into the   *)
(* next epoch by a running gateway is LinkTuple's subject.)                *)
(***************************************************************************)
EpochFresh ==
    [][pc # "running" /\ pc' = "running" => disk.epoch[1] \notin epochs]_vars

(***************************************************************************)
(* No claim sequence is handed out twice, over crashes and failed writes.  *)
(***************************************************************************)
ClaimFresh ==
    [][pc = "running" /\ ram'.claim # ram.claim /\ pc' = "running"
          => ram'.claim \notin claimed]_vars
=============================================================================
