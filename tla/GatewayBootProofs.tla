------------------------- MODULE GatewayBootProofs -------------------------
(***************************************************************************)
(* The daemon never refuses the files that its own crashes leave behind,   *)
(* and reuses neither a link epoch nor a claim sequence.                   *)
(***************************************************************************)
EXTENDS GatewayBoot, FiniteSetTheorems, TLAPS

\* A file that does not exist is empty; one that does holds one element of S.
IsFile(f, S) == f = << >> \/ (f = <<f[1]>> /\ f[1] \in S)

\* The points of the boot, by what has been opened on the way there.
Opened == {"admissions", "replay", "federation", "federation_floor", "complete", "running"}
SlotOpen == {"slot", "slot_floor", "slot_stage"} \union Opened
Provisioning == {"trust", "trust_floor", "trust_stage"} \union SlotOpen
Counting == {"manifest"} \union Provisioning
Points == {"down", "seed", "epoch", "claim", "exhausted"} \union Counting

TypeInv ==
    /\ disk = [seed |-> disk.seed, epoch |-> disk.epoch, claim |-> disk.claim,
               manifest |-> disk.manifest, trust |-> disk.trust,
               trustFloor |-> disk.trustFloor, slot |-> disk.slot,
               slotFloor |-> disk.slotFloor, admissions |-> disk.admissions,
               replay |-> disk.replay]
    /\ IsFile(disk.epoch, Nat) /\ IsFile(disk.claim, Nat)
    /\ IsFile(disk.manifest, Nat)
    /\ IsFile(disk.trust, [generation : Nat, peers : SUBSET Peers])
    /\ IsFile(disk.trustFloor, Nat)
    /\ IsFile(disk.slot, Nat) /\ IsFile(disk.slotFloor, Nat)
    /\ IsFile(disk.admissions, Nat) /\ IsFile(disk.replay, Nat)
    /\ pc \in Points
    /\ ram = [created |-> ram.created, resume |-> ram.resume, slot |-> ram.slot,
              claim |-> ram.claim]
    /\ ram.slot \in Nat /\ ram.claim \in Nat

\* The manifest comes before every artifact and after the claim sequence, and
\* the boot resumes provisioning exactly while its stage is below COMPLETE.
ManifestInv ==
    /\ SomeArtifact => Exists(disk.manifest)
    /\ Exists(disk.manifest) => Exists(disk.claim) /\ Stage <= COMPLETE
    /\ pc \in Counting => Exists(disk.claim)
    /\ pc \in Provisioning => Exists(disk.manifest)
    /\ pc \in Provisioning \ {"running"} => (ram.resume <=> Stage < COMPLETE)
    /\ pc = "running" => Stage = COMPLETE

\* The trust floor exists only with its store and is not above it; before the
\* stage is committed the store has its first contents.
TrustInv ==
    /\ Exists(disk.trustFloor) => Exists(disk.trust) /\ TrustLoads
    /\ Exists(disk.manifest) /\ Stage >= TRUST => TrustLoads
    /\ Exists(disk.manifest) /\ Stage < TRUST /\ Exists(disk.trust) => disk.trust[1] = EmptyTrust
    /\ pc \in {"trust_floor", "trust_stage"} => Exists(disk.trust)
    /\ pc = "trust_stage" => Exists(disk.trustFloor)
    /\ pc \in SlotOpen => Stage >= TRUST

\* The same of the slot store, whose floor is at most one above memory.
SlotInv ==
    /\ Exists(disk.slotFloor) => SlotLoads
    /\ Exists(disk.manifest) /\ Stage >= SLOT => SlotLoads
    /\ Exists(disk.manifest) /\ Stage < SLOT /\ Exists(disk.slot) => disk.slot[1] = 1
    /\ pc \in {"slot_floor", "slot_stage"} => Exists(disk.slot)
    /\ pc = "slot_stage" => Exists(disk.slotFloor)
    /\ pc \in Opened => Stage >= SLOT /\ disk.slotFloor[1] <= ram.slot + 1

\* The two root files are empty while provisioning and both there afterwards;
\* an origin is admitted before its DAO is accepted.
RootInv ==
    /\ Exists(disk.admissions) \/ Exists(disk.replay) => Exists(disk.manifest)
    /\ Exists(disk.manifest) /\ Stage < COMPLETE => Empty(disk.admissions) /\ Empty(disk.replay)
    /\ (Exists(disk.manifest) /\ Stage = COMPLETE)
          \/ pc \in {"federation", "federation_floor", "complete"} =>
          Exists(disk.admissions) /\ Exists(disk.replay) /\ disk.replay[1] <= disk.admissions[1]
    /\ pc = "replay" => Exists(disk.admissions)

\* The saved epoch bounds those run under, strictly until this boot runs.
EpochInv ==
    /\ epochs \subseteq Nat
    /\ \A e \in epochs : Exists(disk.epoch) /\ e <= disk.epoch[1]
    /\ pc \in Counting \union {"claim"} => Exists(disk.epoch)
    /\ pc \in (Counting \ {"running"}) \union {"claim"} => \A e \in epochs : e < disk.epoch[1]

\* Sequences handed out are bounded by memory, and memory by the file.
ClaimInv ==
    /\ claimed \subseteq Nat
    /\ \A n \in claimed : Exists(disk.claim) /\ n <= disk.claim[1]
    /\ pc \in Counting => ram.claim <= disk.claim[1] /\ \A n \in claimed : n <= ram.claim

FileInv == TypeInv /\ ManifestInv /\ TrustInv /\ SlotInv /\ RootInv
IInv == FileInv /\ EpochInv /\ ClaimInv

-----------------------------------------------------------------------------
\* On an empty disk with the daemon down, nothing is out of order.
LEMMA InitFileInv == Init => FileInv
BY DEF Init, FileInv, TypeInv, ManifestInv, TrustInv, SlotInv, RootInv, Stage, TrustLoads,
       SlotLoads, Empty, Exists, SomeArtifact, Artifacts, IsFile, Opened, SlotOpen,
       Provisioning, Counting, Points, EmptyTrust

\* Applying the configured peers (gateway.rs, the federation of trust) never
\* lowers the generation of the trust store.
LEMMA FederatedGrows ==
    ASSUME TypeInv, Exists(disk.trust), NEW config \in SUBSET Peers
    PROVE  /\ Federated(config) \in [generation : Nat, peers : SUBSET Peers]
           /\ Federated(config).generation >= disk.trust[1].generation
<1> DEFINE changes == (config \ disk.trust[1].peers) \union (disk.trust[1].peers \ config)
<1>1. disk.trust[1] \in [generation : Nat, peers : SUBSET Peers]
    BY DEF TypeInv, IsFile, Exists
<1>2. changes \subseteq Peers
    BY <1>1
<1>3. Cardinality(changes) \in Nat
    BY <1>2, BootAssumption, FS_Subset, FS_CardinalityType
<1> QED
    BY <1>1, <1>3 DEF Federated

\* Every step of a boot, of the running daemon and a crash at any point keeps the
\* files in the order in which they are written.
LEMMA NextFileInv == FileInv /\ [Next]_vars => FileInv'
<1> SUFFICES ASSUME FileInv, [Next]_vars PROVE FileInv'
    OBVIOUS
<1> USE DEF FileInv, Exists, Stage, IDENTITY, TRUST, SLOT, COMPLETE, Opened, SlotOpen,
        Provisioning, Counting, Points, IsFile
<1>1. CASE Start
    <2>1. /\ pc = "down" /\ pc' = "seed"
          /\ disk' = disk
          /\ ram' = ram
        BY <1>1 DEF Start
    <2>2. TypeInv'
        BY <2>1 DEF TypeInv, ManifestInv
    <2>3. ManifestInv'
        BY <2>1 DEF TypeInv, ManifestInv, SomeArtifact, Artifacts
    <2>4. TrustInv'
        BY <2>1
           DEF TypeInv, ManifestInv, SomeArtifact, Artifacts, TrustInv, TrustLoads, EmptyTrust
    <2>5. SlotInv'
        BY <2>1 DEF TypeInv, ManifestInv, SomeArtifact, Artifacts, SlotInv, SlotLoads
    <2>6. RootInv'
        BY <2>1 DEF TypeInv, ManifestInv, SomeArtifact, Artifacts, RootInv, Empty
    <2> QED
        BY <2>2, <2>3, <2>4, <2>5, <2>6
<1>2. CASE OpenSeed
    <2>1. /\ pc = "seed" /\ pc' = "epoch"
          /\ disk' = [disk EXCEPT !.seed = <<"identity">>]
          /\ ram' = [ram EXCEPT !.created = ~ Exists(disk.seed)]
        BY <1>2 DEF OpenSeed, Step
    <2>2. TypeInv'
        BY <2>1 DEF TypeInv, ManifestInv
    <2>3. ManifestInv'
        BY <2>1 DEF TypeInv, ManifestInv, SomeArtifact, Artifacts
    <2>4. TrustInv'
        BY <2>1
           DEF TypeInv, ManifestInv, SomeArtifact, Artifacts, TrustInv, TrustLoads, EmptyTrust
    <2>5. SlotInv'
        BY <2>1 DEF TypeInv, ManifestInv, SomeArtifact, Artifacts, SlotInv, SlotLoads
    <2>6. RootInv'
        BY <2>1 DEF TypeInv, ManifestInv, SomeArtifact, Artifacts, RootInv, Empty
    <2> QED
        BY <2>2, <2>3, <2>4, <2>5, <2>6
<1>3. CASE NextEpoch /\ disk.epoch = <<MaxEpoch>>
    <2>1. /\ pc = "epoch" /\ pc' = "exhausted"
          /\ disk' = disk
          /\ ram' = ram
        BY <1>3 DEF NextEpoch, Step
    <2>2. TypeInv'
        BY <2>1 DEF TypeInv, ManifestInv
    <2>3. ManifestInv'
        BY <2>1 DEF TypeInv, ManifestInv, SomeArtifact, Artifacts
    <2>4. TrustInv'
        BY <2>1
           DEF TypeInv, ManifestInv, SomeArtifact, Artifacts, TrustInv, TrustLoads, EmptyTrust
    <2>5. SlotInv'
        BY <2>1 DEF TypeInv, ManifestInv, SomeArtifact, Artifacts, SlotInv, SlotLoads
    <2>6. RootInv'
        BY <2>1 DEF TypeInv, ManifestInv, SomeArtifact, Artifacts, RootInv, Empty
    <2> QED
        BY <2>2, <2>3, <2>4, <2>5, <2>6
<1>4. CASE NextEpoch /\ disk.epoch # <<MaxEpoch>>
    <2>1. /\ pc = "epoch" /\ pc' = "claim"
          /\ disk' = [disk EXCEPT !.epoch =
                      IF Exists(disk.epoch) THEN <<disk.epoch[1] + 1>> ELSE <<1>>]
          /\ ram' = ram
        BY <1>4 DEF NextEpoch, Step
    <2>2. TypeInv'
        BY <2>1 DEF TypeInv, ManifestInv
    <2>3. ManifestInv'
        BY <2>1 DEF TypeInv, ManifestInv, SomeArtifact, Artifacts
    <2>4. TrustInv'
        BY <2>1
           DEF TypeInv, ManifestInv, SomeArtifact, Artifacts, TrustInv, TrustLoads, EmptyTrust
    <2>5. SlotInv'
        BY <2>1 DEF TypeInv, ManifestInv, SomeArtifact, Artifacts, SlotInv, SlotLoads
    <2>6. RootInv'
        BY <2>1 DEF TypeInv, ManifestInv, SomeArtifact, Artifacts, RootInv, Empty
    <2> QED
        BY <2>2, <2>3, <2>4, <2>5, <2>6
<1>5. CASE OpenClaimSeq
    <2>1. /\ pc = "claim" /\ pc' = "manifest"
          /\ disk' = [disk EXCEPT !.claim = IF Exists(disk.claim) THEN disk.claim ELSE <<0>>]
          /\ ram' = [ram EXCEPT !.claim = IF Exists(disk.claim) THEN disk.claim[1] ELSE 0]
        BY <1>5 DEF OpenClaimSeq, Step, TypeInv, ManifestInv, SomeArtifact, Artifacts
    <2>2. TypeInv'
        BY <2>1 DEF TypeInv, ManifestInv
    <2>3. ManifestInv'
        BY <2>1 DEF TypeInv, ManifestInv, SomeArtifact, Artifacts
    <2>4. TrustInv'
        BY <2>1
           DEF TypeInv, ManifestInv, SomeArtifact, Artifacts, TrustInv, TrustLoads, EmptyTrust
    <2>5. SlotInv'
        BY <2>1 DEF TypeInv, ManifestInv, SomeArtifact, Artifacts, SlotInv, SlotLoads
    <2>6. RootInv'
        BY <2>1 DEF TypeInv, ManifestInv, SomeArtifact, Artifacts, RootInv, Empty
    <2> QED
        BY <2>2, <2>3, <2>4, <2>5, <2>6
<1>6. CASE OpenManifest
    <2>1. /\ pc = "manifest" /\ pc' = "trust"
          /\ disk' = [disk EXCEPT !.manifest =
                      IF Exists(disk.manifest) THEN disk.manifest ELSE <<IDENTITY>>]
          /\ ram' = [ram EXCEPT !.resume =
                      (~ Exists(disk.manifest) \/ disk.manifest[1] < COMPLETE)]
        BY <1>6
           DEF OpenManifest, Step, AllArtifacts, TypeInv, ManifestInv, SomeArtifact, Artifacts
    <2>2. /\ disk'.manifest = IF Exists(disk.manifest) THEN disk.manifest ELSE <<IDENTITY>>
          /\ disk'.seed = disk.seed /\ disk'.epoch = disk.epoch /\ disk'.claim = disk.claim
          /\ disk'.trust = disk.trust /\ disk'.trustFloor = disk.trustFloor /\ disk'.slot = disk.slot
          /\ disk'.slotFloor = disk.slotFloor /\ disk'.admissions = disk.admissions
          /\ disk'.replay = disk.replay
        BY <2>1 DEF TypeInv
    <2>3. /\ ram'.resume <=> ((~ Exists(disk.manifest) \/ disk.manifest[1] < COMPLETE))
          /\ ram'.created = ram.created /\ ram'.slot = ram.slot /\ ram'.claim = ram.claim
        BY <2>1 DEF TypeInv
    <2>4. TypeInv'
        BY <2>1, <2>2, <2>3 DEF TypeInv, ManifestInv
    <2>5. ManifestInv'
        BY <2>1, <2>2, <2>3 DEF TypeInv, ManifestInv, SomeArtifact, Artifacts
    <2>6. TrustInv'
        BY <2>1, <2>2, <2>3
           DEF TypeInv, ManifestInv, SomeArtifact, Artifacts, TrustInv, TrustLoads, EmptyTrust
    <2>7. SlotInv'
        BY <2>1, <2>2, <2>3 DEF TypeInv, ManifestInv, SomeArtifact, Artifacts, SlotInv, SlotLoads
    <2>8. RootInv'
        BY <2>1, <2>2, <2>3 DEF TypeInv, ManifestInv, SomeArtifact, Artifacts, RootInv, Empty
    <2> QED
        BY <2>4, <2>5, <2>6, <2>7, <2>8
<1>7. CASE OpenTrust /\ ram.resume
    <2>1. /\ pc = "trust" /\ pc' = "trust_floor"
          /\ disk' = [disk EXCEPT !.trust =
                      IF Exists(disk.trust) THEN disk.trust ELSE <<EmptyTrust>>]
          /\ ram' = ram
        BY <1>7
           DEF OpenTrust, Step, TrustRecovers, InitialResumeStateIsValid, TypeInv, ManifestInv,
               SomeArtifact, Artifacts, TrustInv, TrustLoads, EmptyTrust
    <2>2. TypeInv'
        BY <2>1 DEF TypeInv, ManifestInv, EmptyTrust
    <2>3. ManifestInv'
        BY <2>1 DEF TypeInv, ManifestInv, SomeArtifact, Artifacts
    <2>4. TrustInv'
        BY <2>1
           DEF TypeInv, ManifestInv, SomeArtifact, Artifacts, TrustInv, TrustLoads, EmptyTrust
    <2>5. SlotInv'
        BY <2>1 DEF TypeInv, ManifestInv, SomeArtifact, Artifacts, SlotInv, SlotLoads
    <2>6. RootInv'
        BY <2>1 DEF TypeInv, ManifestInv, SomeArtifact, Artifacts, RootInv, Empty
    <2> QED
        BY <2>2, <2>3, <2>4, <2>5, <2>6
<1>8. CASE OpenTrust /\ ~ ram.resume
    <2>1. /\ pc = "trust" /\ pc' = "slot"
          /\ Stage = COMPLETE
          /\ disk' = disk
          /\ ram' = ram
        BY <1>8
           DEF OpenTrust, Step, TrustRecovers, InitialResumeStateIsValid, TypeInv, ManifestInv,
               SomeArtifact, Artifacts, TrustInv, TrustLoads, EmptyTrust
    <2>2. TypeInv'
        BY <2>1 DEF TypeInv, ManifestInv
    <2>3. ManifestInv'
        BY <2>1 DEF TypeInv, ManifestInv, SomeArtifact, Artifacts
    <2>4. TrustInv'
        BY <2>1
           DEF TypeInv, ManifestInv, SomeArtifact, Artifacts, TrustInv, TrustLoads, EmptyTrust
    <2>5. SlotInv'
        BY <2>1 DEF TypeInv, ManifestInv, SomeArtifact, Artifacts, SlotInv, SlotLoads
    <2>6. RootInv'
        BY <2>1 DEF TypeInv, ManifestInv, SomeArtifact, Artifacts, RootInv, Empty
    <2> QED
        BY <2>2, <2>3, <2>4, <2>5, <2>6
<1>9. CASE AnchorTrust
    <2>1. /\ pc = "trust_floor" /\ pc' = "trust_stage"
          /\ disk' = [disk EXCEPT !.trustFloor =
                      IF Exists(disk.trustFloor) THEN disk.trustFloor
                      ELSE <<disk.trust[1].generation>>]
          /\ ram' = ram
        BY <1>9
           DEF AnchorTrust, Step, TypeInv, ManifestInv, SomeArtifact, Artifacts, TrustInv,
               TrustLoads, EmptyTrust
    <2>2. TypeInv'
        BY <2>1 DEF TypeInv, ManifestInv, TrustInv
    <2>3. ManifestInv'
        BY <2>1 DEF TypeInv, ManifestInv, SomeArtifact, Artifacts
    <2>4. TrustInv'
        BY <2>1
           DEF TypeInv, ManifestInv, SomeArtifact, Artifacts, TrustInv, TrustLoads, EmptyTrust
    <2>5. SlotInv'
        BY <2>1 DEF TypeInv, ManifestInv, SomeArtifact, Artifacts, SlotInv, SlotLoads
    <2>6. RootInv'
        BY <2>1 DEF TypeInv, ManifestInv, SomeArtifact, Artifacts, RootInv, Empty
    <2> QED
        BY <2>2, <2>3, <2>4, <2>5, <2>6
<1>10. CASE CommitTrust
    <2>1. /\ pc = "trust_stage" /\ pc' = "slot"
          /\ disk' = [disk EXCEPT !.manifest = <<IF Stage > TRUST THEN Stage ELSE TRUST>>]
          /\ ram' = ram
        BY <1>10
           DEF CommitTrust, Step, Advance, Larger, TypeInv, ManifestInv, SomeArtifact, Artifacts
    <2>2. TypeInv'
        BY <2>1 DEF TypeInv, ManifestInv
    <2>3. ManifestInv'
        BY <2>1 DEF TypeInv, ManifestInv, SomeArtifact, Artifacts
    <2>4. TrustInv'
        BY <2>1
           DEF TypeInv, ManifestInv, SomeArtifact, Artifacts, TrustInv, TrustLoads, EmptyTrust
    <2>5. SlotInv'
        BY <2>1 DEF TypeInv, ManifestInv, SomeArtifact, Artifacts, SlotInv, SlotLoads
    <2>6. RootInv'
        BY <2>1 DEF TypeInv, ManifestInv, SomeArtifact, Artifacts, RootInv, Empty
    <2> QED
        BY <2>2, <2>3, <2>4, <2>5, <2>6
<1>11. CASE OpenSlot /\ ram.resume
    <2>1. /\ pc = "slot" /\ pc' = "slot_floor"
          /\ disk' = [disk EXCEPT !.slot = IF Exists(disk.slot) THEN disk.slot ELSE <<1>>]
          /\ ram' = ram
        BY <1>11
           DEF OpenSlot, Step, TypeInv, ManifestInv, SomeArtifact, Artifacts, SlotInv, SlotLoads
    <2>2. TypeInv'
        BY <2>1 DEF TypeInv, ManifestInv
    <2>3. ManifestInv'
        BY <2>1 DEF TypeInv, ManifestInv, SomeArtifact, Artifacts
    <2>4. TrustInv'
        BY <2>1
           DEF TypeInv, ManifestInv, SomeArtifact, Artifacts, TrustInv, TrustLoads, EmptyTrust
    <2>5. SlotInv'
        BY <2>1 DEF TypeInv, ManifestInv, SomeArtifact, Artifacts, SlotInv, SlotLoads
    <2>6. RootInv'
        BY <2>1 DEF TypeInv, ManifestInv, SomeArtifact, Artifacts, RootInv, Empty
    <2> QED
        BY <2>2, <2>3, <2>4, <2>5, <2>6
<1>12. CASE OpenSlot /\ ~ ram.resume
    <2>1. /\ pc = "slot" /\ pc' = "admissions"
          /\ Stage = COMPLETE
          /\ disk' = disk
          /\ ram' = [ram EXCEPT !.slot = disk.slot[1]]
        BY <1>12
           DEF OpenSlot, Step, TypeInv, ManifestInv, SomeArtifact, Artifacts, SlotInv, SlotLoads
    <2>2. TypeInv'
        BY <2>1 DEF TypeInv, ManifestInv, SlotInv, SlotLoads
    <2>3. ManifestInv'
        BY <2>1 DEF TypeInv, ManifestInv, SomeArtifact, Artifacts
    <2>4. TrustInv'
        BY <2>1
           DEF TypeInv, ManifestInv, SomeArtifact, Artifacts, TrustInv, TrustLoads, EmptyTrust
    <2>5. SlotInv'
        BY <2>1 DEF TypeInv, ManifestInv, SomeArtifact, Artifacts, SlotInv, SlotLoads
    <2>6. RootInv'
        BY <2>1 DEF TypeInv, ManifestInv, SomeArtifact, Artifacts, RootInv, Empty
    <2> QED
        BY <2>2, <2>3, <2>4, <2>5, <2>6
<1>13. CASE AnchorSlot
    <2>1. /\ pc = "slot_floor" /\ pc' = "slot_stage"
          /\ disk' = [disk EXCEPT !.slotFloor =
                      IF Exists(disk.slotFloor) THEN disk.slotFloor ELSE <<1>>]
          /\ ram' = ram
        BY <1>13
           DEF AnchorSlot, Step, TypeInv, ManifestInv, SomeArtifact, Artifacts, SlotInv, SlotLoads
    <2>2. TypeInv'
        BY <2>1 DEF TypeInv, ManifestInv
    <2>3. ManifestInv'
        BY <2>1 DEF TypeInv, ManifestInv, SomeArtifact, Artifacts
    <2>4. TrustInv'
        BY <2>1
           DEF TypeInv, ManifestInv, SomeArtifact, Artifacts, TrustInv, TrustLoads, EmptyTrust
    <2>5. SlotInv'
        BY <2>1 DEF TypeInv, ManifestInv, SomeArtifact, Artifacts, SlotInv, SlotLoads
    <2>6. RootInv'
        BY <2>1 DEF TypeInv, ManifestInv, SomeArtifact, Artifacts, RootInv, Empty
    <2> QED
        BY <2>2, <2>3, <2>4, <2>5, <2>6
<1>14. CASE CommitSlot
    <2>1. /\ pc = "slot_stage" /\ pc' = "admissions"
          /\ disk' = [disk EXCEPT !.manifest = <<IF Stage > SLOT THEN Stage ELSE SLOT>>]
          /\ ram' = [ram EXCEPT !.slot = disk.slot[1]]
        BY <1>14
           DEF CommitSlot, Step, Advance, Larger, InitialResumeStateIsValid, TypeInv, ManifestInv,
               SomeArtifact, Artifacts, SlotInv, SlotLoads
    <2>2. TypeInv'
        BY <2>1 DEF TypeInv, ManifestInv, SlotInv
    <2>3. ManifestInv'
        BY <2>1 DEF TypeInv, ManifestInv, SomeArtifact, Artifacts
    <2>4. TrustInv'
        BY <2>1
           DEF TypeInv, ManifestInv, SomeArtifact, Artifacts, TrustInv, TrustLoads, EmptyTrust
    <2>5. SlotInv'
        BY <2>1 DEF TypeInv, ManifestInv, SomeArtifact, Artifacts, SlotInv, SlotLoads
    <2>6. RootInv'
        BY <2>1 DEF TypeInv, ManifestInv, SomeArtifact, Artifacts, RootInv, Empty
    <2> QED
        BY <2>2, <2>3, <2>4, <2>5, <2>6
<1>15. CASE OpenAdmissions /\ ram.resume
    <2>1. /\ pc = "admissions" /\ pc' = "replay"
          /\ Stage < COMPLETE
          /\ disk' = [disk EXCEPT !.admissions =
                      IF Exists(disk.admissions) THEN disk.admissions ELSE <<0>>]
          /\ ram' = ram
        BY <1>15
           DEF OpenAdmissions, Step, TypeInv, ManifestInv, SomeArtifact, Artifacts, RootInv, Empty
    <2>2. TypeInv'
        BY <2>1 DEF TypeInv, ManifestInv
    <2>3. ManifestInv'
        BY <2>1 DEF TypeInv, ManifestInv, SomeArtifact, Artifacts
    <2>4. TrustInv'
        BY <2>1
           DEF TypeInv, ManifestInv, SomeArtifact, Artifacts, TrustInv, TrustLoads, EmptyTrust
    <2>5. SlotInv'
        BY <2>1 DEF TypeInv, ManifestInv, SomeArtifact, Artifacts, SlotInv, SlotLoads
    <2>6. RootInv'
        BY <2>1 DEF TypeInv, ManifestInv, SomeArtifact, Artifacts, RootInv, Empty
    <2> QED
        BY <2>2, <2>3, <2>4, <2>5, <2>6
<1>16. CASE OpenAdmissions /\ ~ ram.resume
    <2>1. /\ pc = "admissions" /\ pc' = "federation"
          /\ Stage = COMPLETE
          /\ disk' = disk
          /\ ram' = ram
        BY <1>16
           DEF OpenAdmissions, Step, TypeInv, ManifestInv, SomeArtifact, Artifacts, RootInv, Empty
    <2>2. TypeInv'
        BY <2>1 DEF TypeInv, ManifestInv
    <2>3. ManifestInv'
        BY <2>1 DEF TypeInv, ManifestInv, SomeArtifact, Artifacts
    <2>4. TrustInv'
        BY <2>1
           DEF TypeInv, ManifestInv, SomeArtifact, Artifacts, TrustInv, TrustLoads, EmptyTrust
    <2>5. SlotInv'
        BY <2>1 DEF TypeInv, ManifestInv, SomeArtifact, Artifacts, SlotInv, SlotLoads
    <2>6. RootInv'
        BY <2>1 DEF TypeInv, ManifestInv, SomeArtifact, Artifacts, RootInv, Empty
    <2> QED
        BY <2>2, <2>3, <2>4, <2>5, <2>6
<1>17. CASE OpenReplay
    <2>1. /\ pc = "replay" /\ pc' = "federation"
          /\ disk' = [disk EXCEPT !.replay = IF Exists(disk.replay) THEN disk.replay ELSE <<0>>]
          /\ ram' = ram
        BY <1>17
           DEF OpenReplay, Step, TypeInv, ManifestInv, SomeArtifact, Artifacts, RootInv, Empty
    <2>2. TypeInv'
        BY <2>1 DEF TypeInv, ManifestInv
    <2>3. ManifestInv'
        BY <2>1 DEF TypeInv, ManifestInv, SomeArtifact, Artifacts
    <2>4. TrustInv'
        BY <2>1
           DEF TypeInv, ManifestInv, SomeArtifact, Artifacts, TrustInv, TrustLoads, EmptyTrust
    <2>5. SlotInv'
        BY <2>1 DEF TypeInv, ManifestInv, SomeArtifact, Artifacts, SlotInv, SlotLoads
    <2>6. RootInv'
        BY <2>1 DEF TypeInv, ManifestInv, SomeArtifact, Artifacts, RootInv, Empty
    <2> QED
        BY <2>2, <2>3, <2>4, <2>5, <2>6
<1>18. CASE Disabled
    <2>1. /\ pc = "federation" /\ pc' = "complete"
          /\ disk' = disk
          /\ ram' = ram
        BY <1>18 DEF Disabled, Step
    <2>2. TypeInv'
        BY <2>1 DEF TypeInv, ManifestInv
    <2>3. ManifestInv'
        BY <2>1 DEF TypeInv, ManifestInv, SomeArtifact, Artifacts
    <2>4. TrustInv'
        BY <2>1
           DEF TypeInv, ManifestInv, SomeArtifact, Artifacts, TrustInv, TrustLoads, EmptyTrust
    <2>5. SlotInv'
        BY <2>1 DEF TypeInv, ManifestInv, SomeArtifact, Artifacts, SlotInv, SlotLoads
    <2>6. RootInv'
        BY <2>1 DEF TypeInv, ManifestInv, SomeArtifact, Artifacts, RootInv, Empty
    <2> QED
        BY <2>2, <2>3, <2>4, <2>5, <2>6
<1>19. CASE AnchorFederation
    <2>1. /\ pc = "federation_floor" /\ pc' = "complete"
          /\ disk' = [disk EXCEPT !.trustFloor = <<disk.trust[1].generation>>]
          /\ ram' = ram
        BY <1>19 DEF AnchorFederation, Step
    <2>2. TypeInv'
        BY <2>1 DEF TypeInv, ManifestInv, TrustInv, TrustLoads
    <2>3. ManifestInv'
        BY <2>1 DEF TypeInv, ManifestInv, SomeArtifact, Artifacts
    <2>4. TrustInv'
        BY <2>1
           DEF TypeInv, ManifestInv, SomeArtifact, Artifacts, TrustInv, TrustLoads, EmptyTrust
    <2>5. SlotInv'
        BY <2>1 DEF TypeInv, ManifestInv, SomeArtifact, Artifacts, SlotInv, SlotLoads
    <2>6. RootInv'
        BY <2>1 DEF TypeInv, ManifestInv, SomeArtifact, Artifacts, RootInv, Empty
    <2> QED
        BY <2>2, <2>3, <2>4, <2>5, <2>6
<1>20. CASE AdmitOrigin
    <2>1. /\ pc = "running" /\ pc' = "running"
          /\ disk.admissions = <<0>>
          /\ disk' = [disk EXCEPT !.admissions = <<1>>]
          /\ ram' = ram
        BY <1>20 DEF AdmitOrigin
    <2>2. TypeInv'
        BY <2>1 DEF TypeInv, ManifestInv
    <2>3. ManifestInv'
        BY <2>1 DEF TypeInv, ManifestInv, SomeArtifact, Artifacts
    <2>4. TrustInv'
        BY <2>1
           DEF TypeInv, ManifestInv, SomeArtifact, Artifacts, TrustInv, TrustLoads, EmptyTrust
    <2>5. SlotInv'
        BY <2>1 DEF TypeInv, ManifestInv, SomeArtifact, Artifacts, SlotInv, SlotLoads
    <2>6. RootInv'
        BY <2>1 DEF TypeInv, ManifestInv, SomeArtifact, Artifacts, RootInv, Empty
    <2> QED
        BY <2>2, <2>3, <2>4, <2>5, <2>6
<1>21. CASE AcceptDao
    <2>1. /\ pc = "running" /\ pc' = "running"
          /\ disk.admissions = <<1>>
          /\ disk' = [disk EXCEPT !.replay = <<1>>]
          /\ ram' = ram
        BY <1>21 DEF AcceptDao
    <2>2. TypeInv'
        BY <2>1 DEF TypeInv, ManifestInv
    <2>3. ManifestInv'
        BY <2>1 DEF TypeInv, ManifestInv, SomeArtifact, Artifacts
    <2>4. TrustInv'
        BY <2>1
           DEF TypeInv, ManifestInv, SomeArtifact, Artifacts, TrustInv, TrustLoads, EmptyTrust
    <2>5. SlotInv'
        BY <2>1 DEF TypeInv, ManifestInv, SomeArtifact, Artifacts, SlotInv, SlotLoads
    <2>6. RootInv'
        BY <2>1 DEF TypeInv, ManifestInv, SomeArtifact, Artifacts, RootInv, Empty
    <2> QED
        BY <2>2, <2>3, <2>4, <2>5, <2>6
<1>22. CASE Complete
    <2>1. /\ pc = "complete" /\ pc' = "running"
          /\ (~ ram.resume => Stage = COMPLETE)
          /\ disk' = [disk EXCEPT !.manifest = IF ram.resume THEN <<COMPLETE>> ELSE disk.manifest]
          /\ ram' = ram
        BY <1>22 DEF Complete, TypeInv, ManifestInv, SomeArtifact, Artifacts, RootInv
    <2>2. TypeInv'
        BY <2>1 DEF TypeInv, ManifestInv
    <2>3. ManifestInv'
        BY <2>1 DEF TypeInv, ManifestInv, SomeArtifact, Artifacts
    <2>4. TrustInv'
        BY <2>1
           DEF TypeInv, ManifestInv, SomeArtifact, Artifacts, TrustInv, TrustLoads, EmptyTrust
    <2>5. SlotInv'
        BY <2>1 DEF TypeInv, ManifestInv, SomeArtifact, Artifacts, SlotInv, SlotLoads
    <2>6. RootInv'
        BY <2>1 DEF TypeInv, ManifestInv, SomeArtifact, Artifacts, RootInv, Empty
    <2> QED
        BY <2>2, <2>3, <2>4, <2>5, <2>6
<1>23. CASE Federate
    <2>1. PICK config \in SUBSET Peers :
             /\ pc = "federation" /\ pc' \in {"complete", "federation_floor"}
             /\ disk' \in {disk, [disk EXCEPT !.trust = <<Federated(config)>>]}
             /\ ram' = ram
        BY <1>23 DEF Federate, Step
    <2>2. Exists(disk.trust) /\ Stage >= SLOT
        BY <2>1
           DEF TypeInv, ManifestInv, SomeArtifact, Artifacts, TrustInv, TrustLoads, EmptyTrust,
               SlotInv
    <2>3. /\ Federated(config) \in [generation : Nat, peers : SUBSET Peers]
          /\ Federated(config).generation >= disk.trust[1].generation
        BY <2>2, FederatedGrows
    <2>4. CASE disk' = disk
        BY <2>1, <2>4
           DEF TypeInv, ManifestInv, SomeArtifact, Artifacts, TrustInv, TrustLoads, SlotInv,
               SlotLoads, RootInv
    <2>5. CASE disk' = [disk EXCEPT !.trust = <<Federated(config)>>]
        <3>1. TypeInv'
            BY <2>1, <2>3, <2>5 DEF TypeInv
        <3>2. ManifestInv'
            BY <2>1, <2>2, <2>5 DEF TypeInv, ManifestInv, SomeArtifact, Artifacts
        <3>3. TrustInv'
            BY <2>1, <2>2, <2>3, <2>5
               DEF TypeInv, ManifestInv, SomeArtifact, Artifacts, TrustInv, TrustLoads, EmptyTrust
        <3>4. SlotInv'
            BY <2>1, <2>5 DEF TypeInv, ManifestInv, SomeArtifact, Artifacts, SlotInv, SlotLoads
        <3>5. RootInv'
            BY <2>1, <2>5 DEF TypeInv, ManifestInv, SomeArtifact, Artifacts, RootInv, Empty
        <3> QED
            BY <3>1, <3>2, <3>3, <3>4, <3>5
    <2> QED
        BY <2>1, <2>4, <2>5
<1>24. CASE CommitClaims
    <2> DEFINE written == [disk EXCEPT !.slot = <<ram.slot + 1>>]
               floored == [disk EXCEPT !.slot = <<ram.slot + 1>>, !.slotFloor = <<ram.slot + 1>>]
    <2>1. /\ pc = "running" /\ pc' = "running"
          /\ \/ disk' = written /\ ram' = ram
             \/ disk' = floored /\ ram' = ram
             \/ disk' = floored /\ ram' = [ram EXCEPT !.slot = ram.slot + 1]
        BY <1>24 DEF CommitClaims
    <2>2. /\ ram.slot \in Nat /\ disk.slotFloor[1] \in Nat /\ disk.slotFloor[1] <= ram.slot + 1
          /\ SlotLoads /\ Stage = COMPLETE
        BY <2>1 DEF TypeInv, ManifestInv, SomeArtifact, Artifacts, SlotInv, SlotLoads
    <2>3. CASE disk' = written /\ ram' = ram
        <3>1. TypeInv'
            BY <2>1, <2>2, <2>3 DEF TypeInv
        <3>2. ManifestInv'
            BY <2>1, <2>2, <2>3 DEF TypeInv, ManifestInv, SomeArtifact, Artifacts, SlotLoads
        <3>3. TrustInv'
            BY <2>1, <2>3
               DEF TypeInv, ManifestInv, SomeArtifact, Artifacts, TrustInv, TrustLoads, EmptyTrust
        <3>4. SlotInv'
            BY <2>1, <2>2, <2>3
               DEF TypeInv, ManifestInv, SomeArtifact, Artifacts, SlotInv, SlotLoads
        <3>5. RootInv'
            BY <2>1, <2>3 DEF TypeInv, ManifestInv, SomeArtifact, Artifacts, RootInv, Empty
        <3> QED
            BY <3>1, <3>2, <3>3, <3>4, <3>5
    <2>4. CASE disk' = floored /\ ram' = ram
        <3>1. disk' = [seed |-> disk.seed, epoch |-> disk.epoch, claim |-> disk.claim,
                       manifest |-> disk.manifest, trust |-> disk.trust,
                       trustFloor |-> disk.trustFloor, slot |-> <<ram.slot + 1>>,
                       slotFloor |-> <<ram.slot + 1>>, admissions |-> disk.admissions,
                       replay |-> disk.replay]
            BY <2>4 DEF TypeInv
        <3>2. IsFile(<<ram.slot + 1>>, Nat) /\ pc' \in Points
            BY <2>1, <2>2
        <3>3. (ram.slot \in Nat /\ ram.claim \in Nat
               /\ ram = [created |-> ram.created, resume |-> ram.resume,
                         slot |-> ram.slot, claim |-> ram.claim])'
            BY <2>2, <2>4 DEF TypeInv
        <3>4. TypeInv'
            BY <3>3, <3>2, <3>1 DEF TypeInv
        <3>5. ManifestInv'
            BY <2>1, <2>2, <2>4 DEF TypeInv, ManifestInv, SomeArtifact, Artifacts, SlotLoads
        <3>6. TrustInv'
            BY <2>1, <2>4
               DEF TypeInv, ManifestInv, SomeArtifact, Artifacts, TrustInv, TrustLoads, EmptyTrust
        <3>7. SlotInv'
            BY <2>1, <2>2, <2>4
               DEF TypeInv, ManifestInv, SomeArtifact, Artifacts, SlotInv, SlotLoads
        <3>8. RootInv'
            BY <2>1, <2>4 DEF TypeInv, ManifestInv, SomeArtifact, Artifacts, RootInv, Empty
        <3> QED
            BY <3>4, <3>5, <3>6, <3>7, <3>8
    <2>5. CASE disk' = floored /\ ram' = [ram EXCEPT !.slot = ram.slot + 1]
        <3>1. disk' = [seed |-> disk.seed, epoch |-> disk.epoch, claim |-> disk.claim,
                       manifest |-> disk.manifest, trust |-> disk.trust,
                       trustFloor |-> disk.trustFloor, slot |-> <<ram.slot + 1>>,
                       slotFloor |-> <<ram.slot + 1>>, admissions |-> disk.admissions,
                       replay |-> disk.replay]
            BY <2>5 DEF TypeInv
        <3>2. IsFile(<<ram.slot + 1>>, Nat) /\ pc' \in Points
            BY <2>1, <2>2
        <3>3. (ram.slot \in Nat /\ ram.claim \in Nat
               /\ ram = [created |-> ram.created, resume |-> ram.resume,
                         slot |-> ram.slot, claim |-> ram.claim])'
            BY <2>2, <2>5 DEF TypeInv
        <3>4. TypeInv'
            BY <3>3, <3>2, <3>1 DEF TypeInv
        <3>5. ManifestInv'
            BY <2>1, <2>2, <2>5 DEF TypeInv, ManifestInv, SomeArtifact, Artifacts, SlotLoads
        <3>6. TrustInv'
            BY <2>1, <2>5
               DEF TypeInv, ManifestInv, SomeArtifact, Artifacts, TrustInv, TrustLoads, EmptyTrust
        <3>7. SlotInv'
            BY <2>1, <2>2, <2>5
               DEF TypeInv, ManifestInv, SomeArtifact, Artifacts, SlotInv, SlotLoads
        <3>8. RootInv'
            BY <2>1, <2>5 DEF TypeInv, ManifestInv, SomeArtifact, Artifacts, RootInv, Empty
        <3> QED
            BY <3>4, <3>5, <3>6, <3>7, <3>8
    <2> QED
        BY <2>1, <2>3, <2>4, <2>5
<1>25. CASE NextSeq
    <2>1. /\ pc = "running" /\ pc' = "running"
          /\ disk' = [disk EXCEPT !.claim = <<ram.claim + 1>>]
          /\ ram' \in {ram, [ram EXCEPT !.claim = ram.claim + 1]}
        BY <1>25 DEF NextSeq
    <2>2. TypeInv'
        BY <2>1 DEF TypeInv
    <2>3. ManifestInv'
        BY <2>1 DEF TypeInv, ManifestInv, SomeArtifact, Artifacts
    <2>4. TrustInv'
        BY <2>1
           DEF TypeInv, ManifestInv, SomeArtifact, Artifacts, TrustInv, TrustLoads, EmptyTrust
    <2>5. SlotInv'
        BY <2>1 DEF TypeInv, ManifestInv, SomeArtifact, Artifacts, SlotInv, SlotLoads
    <2>6. RootInv'
        BY <2>1 DEF TypeInv, ManifestInv, SomeArtifact, Artifacts, RootInv, Empty
    <2> QED
        BY <2>2, <2>3, <2>4, <2>5, <2>6
<1>26. CASE Crash
    BY <1>26
       DEF Crash, TypeInv, ManifestInv, SomeArtifact, Artifacts, TrustInv, TrustLoads, SlotInv,
           SlotLoads, RootInv, Empty
<1>27. CASE UNCHANGED vars
    BY <1>27
       DEF vars, TypeInv, ManifestInv, SomeArtifact, Artifacts, TrustInv, TrustLoads, SlotInv,
           SlotLoads, RootInv, Empty
<1> QED
    BY <1>1, <1>2, <1>3, <1>4, <1>5, <1>6, <1>7, <1>8, <1>9, <1>10, <1>11, <1>12, <1>13,
       <1>14, <1>15, <1>16, <1>17, <1>18, <1>19, <1>20, <1>21, <1>22, <1>23, <1>24, <1>25,
       <1>26, <1>27
       DEF Next, Boot, Run

-----------------------------------------------------------------------------
(* The counters.                                                            *)

\* No epoch was run under and no sequence handed out before the first boot.
LEMMA InitCounters == Init => EpochInv /\ ClaimInv
BY DEF Init, EpochInv, ClaimInv, Counting, Provisioning, SlotOpen, Opened

\* A boot takes an epoch above all that were run under, before it runs.
LEMMA NextEpochInv == FileInv /\ EpochInv /\ [Next]_vars => EpochInv'
<1> SUFFICES ASSUME FileInv, EpochInv, [Next]_vars PROVE EpochInv'
    OBVIOUS
<1> USE DEF FileInv, TypeInv, EpochInv, Exists, IsFile, Counting, Provisioning, SlotOpen, Opened
<1>1. CASE OpenSeed
    BY <1>1 DEF OpenSeed, Step
<1>2. CASE NextEpoch
    BY <1>2 DEF NextEpoch, Step
<1>3. CASE OpenClaimSeq \/ OpenManifest
    BY <1>3 DEF OpenClaimSeq, OpenManifest, Step
<1>4. CASE OpenTrust \/ AnchorTrust \/ CommitTrust
    BY <1>4 DEF OpenTrust, AnchorTrust, CommitTrust, Step, Advance
<1>5. CASE OpenSlot \/ AnchorSlot \/ CommitSlot
    BY <1>5 DEF OpenSlot, AnchorSlot, CommitSlot, Step, Advance
<1>6. CASE OpenAdmissions \/ OpenReplay
    BY <1>6 DEF OpenAdmissions, OpenReplay, Step
<1>7. CASE Disabled \/ Federate \/ AnchorFederation
    BY <1>7 DEF Disabled, Federate, AnchorFederation, Step
<1>8. CASE Complete
    BY <1>8 DEF Complete
<1>9. CASE CommitClaims
    BY <1>9 DEF CommitClaims
<1>10. CASE NextSeq \/ AdmitOrigin \/ AcceptDao
    BY <1>10 DEF NextSeq, AdmitOrigin, AcceptDao
<1>11. CASE Start \/ Crash \/ UNCHANGED vars
    BY <1>11 DEF Start, Crash, vars
<1> QED
    BY <1>1, <1>2, <1>3, <1>4, <1>5, <1>6, <1>7, <1>8, <1>9, <1>10, <1>11 DEF Next, Boot, Run

\* The file is at least as high as memory, and memory as what was handed out.
LEMMA NextClaimInv == FileInv /\ ClaimInv /\ [Next]_vars => ClaimInv'
<1> SUFFICES ASSUME FileInv, ClaimInv, [Next]_vars PROVE ClaimInv'
    OBVIOUS
<1> USE DEF FileInv, TypeInv, ClaimInv, Exists, IsFile, Counting, Provisioning, SlotOpen, Opened
<1>1. CASE OpenSeed \/ NextEpoch
    BY <1>1 DEF OpenSeed, NextEpoch, Step
<1>2. CASE OpenClaimSeq
    BY <1>2 DEF OpenClaimSeq, Step
<1>3. CASE OpenManifest
    BY <1>3 DEF OpenManifest, Step
<1>4. CASE OpenTrust \/ AnchorTrust \/ CommitTrust
    BY <1>4 DEF OpenTrust, AnchorTrust, CommitTrust, Step, Advance
<1>5. CASE OpenSlot \/ AnchorSlot \/ CommitSlot
    BY <1>5 DEF OpenSlot, AnchorSlot, CommitSlot, Step, Advance
<1>6. CASE OpenAdmissions \/ OpenReplay
    BY <1>6 DEF OpenAdmissions, OpenReplay, Step
<1>7. CASE Disabled \/ Federate \/ AnchorFederation
    BY <1>7 DEF Disabled, Federate, AnchorFederation, Step
<1>8. CASE Complete
    BY <1>8 DEF Complete
<1>9. CASE CommitClaims
    BY <1>9 DEF CommitClaims
<1>10. CASE NextSeq
    BY <1>10 DEF NextSeq, ManifestInv
<1>11. CASE AdmitOrigin \/ AcceptDao
    BY <1>11 DEF AdmitOrigin, AcceptDao
<1>12. CASE Start \/ Crash \/ UNCHANGED vars
    BY <1>12 DEF Start, Crash, vars
<1> QED
    BY <1>1, <1>2, <1>3, <1>4, <1>5, <1>6, <1>7, <1>8, <1>9, <1>10, <1>11, <1>12
    DEF Next, Boot, Run

\* The invariant holds in every reachable state.
LEMMA Invariance == Spec => []IInv
<1>1. Init => IInv
    BY InitFileInv, InitCounters DEF IInv
<1>2. IInv /\ [Next]_vars => IInv'
    BY NextFileInv, NextEpochInv, NextClaimInv DEF IInv
<1> QED
    BY <1>1, <1>2, PTL DEF Spec

-----------------------------------------------------------------------------
\* The daemon never refuses its own files: whatever combination of seed,
\* epoch, claim sequence, manifest, stores and floors a crash leaves, each
\* check of the next boot (lichend main) passes.
THEOREM BootsAgain == Spec => []NeverRefused
<1>1. IInv => NeverRefused
    BY DEF IInv, FileInv, TypeInv, NeverRefused, Points, Counting, Provisioning, SlotOpen, Opened
<1> QED
    BY <1>1, Invariance, PTL

\* No two boots run in one link epoch, for any number of crashes and epochs.
THEOREM EpochsFresh == Spec => EpochFresh
<1>1. IInv /\ [Next]_vars =>
          [pc # "running" /\ pc' = "running" => disk.epoch[1] \notin epochs]_vars
    <2> SUFFICES ASSUME IInv, Next, pc # "running", pc' = "running"
                 PROVE  disk.epoch[1] \notin epochs
        OBVIOUS
    <2>1. pc = "complete"
        BY DEF Next, Boot, Run, Start, OpenSeed, NextEpoch, OpenClaimSeq, OpenManifest, OpenTrust,
               AnchorTrust, CommitTrust, OpenSlot, AnchorSlot, CommitSlot, OpenAdmissions,
               OpenReplay, Disabled, Federate, AnchorFederation, Complete, CommitClaims, NextSeq,
               AdmitOrigin, AcceptDao, Crash, Step
    <2> QED
        BY <2>1 DEF IInv, FileInv, TypeInv, EpochInv, IsFile, Exists, Counting, Provisioning,
                    SlotOpen, Opened
<1> QED
    BY <1>1, Invariance, PTL DEF Spec, EpochFresh

\* ClaimSeqStore::next_seq never hands out a sequence twice, for any number of
\* crashes and failed writes.
THEOREM ClaimsFresh == Spec => ClaimFresh
<1>1. IInv /\ [Next]_vars =>
          [pc = "running" /\ ram'.claim # ram.claim /\ pc' = "running"
              => ram'.claim \notin claimed]_vars
    <2> SUFFICES ASSUME IInv, Next, pc = "running", ram'.claim # ram.claim, pc' = "running"
                 PROVE  ram'.claim \notin claimed
        OBVIOUS
    <2>1. NextSeq \/ CommitClaims \/ AdmitOrigin \/ AcceptDao
        BY DEF Next, Boot, Run, Start, OpenSeed, NextEpoch, OpenClaimSeq, OpenManifest, OpenTrust,
               AnchorTrust, CommitTrust, OpenSlot, AnchorSlot, CommitSlot, OpenAdmissions,
               OpenReplay, Disabled, Federate, AnchorFederation, Complete, Crash, Step
    <2>2. NextSeq
        BY <2>1 DEF CommitClaims, AdmitOrigin, AcceptDao, IInv, FileInv, TypeInv
    <2>3. ram'.claim = ram.claim + 1
        BY <2>2 DEF NextSeq, IInv, FileInv, TypeInv
    <2> QED
        BY <2>3 DEF IInv, FileInv, TypeInv, ClaimInv, Counting, Provisioning, SlotOpen, Opened
<1> QED
    BY <1>1, Invariance, PTL DEF Spec, ClaimFresh
=============================================================================
