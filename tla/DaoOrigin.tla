------------------------------ MODULE DaoOrigin ------------------------------
(***************************************************************************)
(* A leaf that originates signed DAOs: DaoTxState (lichen-rpl               *)
(* persistence.rs), Router::build_signed_dao (router.rs) and the stack's    *)
(* send_dao (transmit.rs).  A sequence is reserved durably, the signed      *)
(* bytes are stored durably before they are transmitted and kept until the  *)
(* radio has taken them, so that a retry or a reboot sends exactly them.    *)
(*                                                                          *)
(* The record is written through update_redundant: RedundantStore shows     *)
(* that a write happens or does not, also when power is lost in it.  The    *)
(* stack owns the only handle, so a write that returns an error is a        *)
(* storage failure (or an exhausted generation) and changes nothing.        *)
(* send_dao holds the stack exclusively until it returns or is dropped: no  *)
(* DIO is processed, so the parent does not change, while it runs.          *)
(***************************************************************************)
EXTENDS Lollipop

CONSTANTS
    Self,        \* this node
    Parents,     \* parents whose key is pinned, so that a Transit can name them
    NoParent,    \* not joined
    Unpinned,    \* joined to a parent whose key is not pinned
    NoDao,       \* no retained signed DAO
    MaxSeq,      \* u64::MAX: the last origin sequence
    MaxFaults    \* bound on crashes and on failing operations

ASSUME OriginAssumption ==
    /\ MaxSeq \in Nat
    /\ MaxFaults \in Nat
    /\ NoParent \notin Parents /\ Unpinned \notin Parents /\ NoParent # Unpinned
    /\ NoDao \notin [origin : {Self}, seq : 1 .. MaxSeq, path : Seqs, parent : Parents]

VARIABLES
    disk,        \* the durable DaoTxState record
    tx,          \* the DaoTxState in memory
    path,        \* path_sequence of the DaoManager
    parent,      \* preferred_parent of the DODAG state
    phase,       \* where send_dao is
    air,         \* the DAOs the radio has sent
    faults       \* crashes and failures so far

vars == <<disk, tx, path, parent, phase, air, faults>>

Daos   == [origin : {Self}, seq : 1 .. MaxSeq, path : Seqs, parent : Parents]
Phases == {"off", "idle", "reserved", "sending", "clearing"}
TxRecord(r, s) == [reserved |-> r, signed |-> s]

\* The durable record, the copy in memory and the counters stay in range: no
\* sequence beyond the last one is ever reserved.
TypeOK ==
    /\ disk \in [provisioned : BOOLEAN, reserved : 0 .. MaxSeq, signed : Daos \cup {NoDao}]
    /\ tx \in [reserved : 0 .. MaxSeq, signed : Daos \cup {NoDao}]
    /\ path \in Seqs
    /\ parent \in Parents \cup {NoParent, Unpinned}
    /\ phase \in Phases
    /\ air \subseteq Daos
    /\ faults \in 0 .. MaxFaults

Init ==
    /\ disk = [provisioned |-> FALSE, reserved |-> 0, signed |-> NoDao]
    /\ tx = TxRecord(0, NoDao)
    /\ path = Start
    /\ parent = NoParent
    /\ phase = "off"
    /\ air = {}
    /\ faults = 0

\* Every write stores the reserved sequence and the retained bytes together.
Store(r, s) == disk' = [provisioned |-> TRUE, reserved |-> r, signed |-> s]

Fault == faults < MaxFaults /\ faults' = faults + 1

-----------------------------------------------------------------------------
\* DaoTxState::provision: refused where a record exists.
Provision ==
    /\ phase = "off"
    /\ ~disk.provisioned
    /\ Store(0, NoDao)
    /\ tx' = TxRecord(0, NoDao)
    /\ phase' = "idle"
    /\ UNCHANGED <<path, parent, air, faults>>

\* Mutant of OpenState: a record without retained bytes is taken as a new one.
OpenStateAfresh ==
    /\ phase = "off"
    /\ disk.provisioned
    /\ tx' = TxRecord(IF disk.signed = NoDao THEN 0 ELSE disk.reserved, disk.signed)
    /\ phase' = "idle"
    /\ UNCHANGED <<disk, path, parent, air, faults>>

\* DaoTxState::open after a reboot.
OpenState ==
    /\ phase = "off"
    /\ disk.provisioned
    /\ tx' = TxRecord(disk.reserved, disk.signed)
    /\ phase' = "idle"
    /\ UNCHANGED <<disk, path, parent, air, faults>>

\* A DIO or a neighbour timeout changes the preferred parent.
SetParent(p) ==
    /\ phase = "idle"
    /\ parent' = p
    /\ UNCHANGED <<disk, tx, path, phase, air, faults>>

\* send_dao with retained bytes: they are sent as they are, to any parent.
Retransmit ==
    /\ phase = "idle"
    /\ tx.signed # NoDao
    /\ parent # NoParent
    /\ phase' = "sending"
    /\ UNCHANGED <<disk, tx, path, parent, air, faults>>

\* Mutant of NextSequence: an interrupted build's sequence is used again.
NextSequenceReused(r) == IF r = 0 THEN 1 ELSE r

NextSequence(r) == r + 1

\* build_signed_dao up to reserve_next: joined to a parent it can name, and
\* not Exhausted.
CanReserve ==
    /\ phase = "idle"
    /\ tx.signed = NoDao
    /\ parent \in Parents
    /\ tx.reserved < MaxSeq

\* reserve_next and build_dao_with_lifetime.
Reserve ==
    /\ CanReserve
    /\ Store(NextSequence(tx.reserved), tx.signed)
    /\ tx' = TxRecord(NextSequence(tx.reserved), tx.signed)
    /\ path' = IncrementLollipop(path)
    /\ phase' = "reserved"
    /\ UNCHANGED <<parent, air, faults>>

\* The DAO build_dao_with_lifetime and sign_dao make.
Draft == [origin |-> Self, seq |-> tx.reserved, path |-> path, parent |-> parent]

\* Mutant of Finalize: the signed bytes are kept in memory only.
FinalizeVolatile ==
    /\ phase = "reserved"
    /\ tx' = TxRecord(tx.reserved, Draft)
    /\ phase' = "sending"
    /\ UNCHANGED <<disk, path, parent, air, faults>>

\* finalize_signed: the signed bytes are durable before transmit_dao runs.
Finalize ==
    /\ phase = "reserved"
    /\ Store(tx.reserved, Draft)
    /\ tx' = TxRecord(tx.reserved, Draft)
    /\ phase' = "sending"
    /\ UNCHANGED <<path, parent, air, faults>>

\* sign_dao or the write of finalize_signed fails; both counters have moved on.
FinalizeFails ==
    /\ phase = "reserved"
    /\ phase' = "idle"
    /\ Fault
    /\ UNCHANGED <<disk, tx, path, parent, air>>

\* transmit_dao succeeds.
TransmitOk ==
    /\ phase = "sending"
    /\ air' = air \cup {tx.signed}
    /\ phase' = "clearing"
    /\ UNCHANGED <<disk, tx, path, parent, faults>>

\* transmit_dao fails, or its future is dropped; the frame may have gone out.
TransmitFails ==
    /\ phase = "sending"
    /\ \E out \in {{}, {tx.signed}} : air' = air \cup out
    /\ phase' = "idle"
    /\ Fault
    /\ UNCHANGED <<disk, tx, path, parent>>

\* Mutant of Clear: the record is cleared, the copy in memory is not.
ClearDiskOnly ==
    /\ phase = "clearing"
    /\ Store(tx.reserved, NoDao)
    /\ phase' = "idle"
    /\ UNCHANGED <<tx, path, parent, air, faults>>

\* clear_transmitted.
Clear ==
    /\ phase = "clearing"
    /\ Store(tx.reserved, NoDao)
    /\ tx' = TxRecord(tx.reserved, NoDao)
    /\ phase' = "idle"
    /\ UNCHANGED <<path, parent, air, faults>>

\* Its write fails: the bytes stay, and are sent once more.
ClearFails ==
    /\ phase = "clearing"
    /\ phase' = "idle"
    /\ Fault
    /\ UNCHANGED <<disk, tx, path, parent, air>>

\* Power is lost; the new DaoManager starts its Path Sequence again.
Crash ==
    /\ phase # "off"
    /\ Fault
    /\ tx' = TxRecord(0, NoDao)
    /\ path' = Start
    /\ parent' = NoParent
    /\ phase' = "off"
    /\ UNCHANGED <<disk, air>>

Next ==
    \/ Provision \/ OpenState
    \/ \E p \in Parents \cup {NoParent, Unpinned} : SetParent(p)
    \/ Retransmit \/ Reserve \/ Finalize \/ FinalizeFails
    \/ TransmitOk \/ TransmitFails \/ Clear \/ ClearFails
    \/ Crash

\* The newest DAO on the air names p.
Announced(p) == \E d \in air : d.parent = p /\ \A e \in air : e.seq <= d.seq

\* The node is started, the scheduler calls send_dao again while the node is
\* joined (retry ladder, then every 15 minutes), and send_dao runs to its end.
Fairness ==
    /\ WF_vars(Provision \/ OpenState)
    /\ WF_vars(Retransmit)
    /\ WF_vars(Reserve /\ ~Announced(parent))
    /\ WF_vars(Finalize)
    /\ WF_vars(TransmitOk)
    /\ WF_vars(Clear)

Spec == Init /\ [][Next]_vars /\ Fairness

-----------------------------------------------------------------------------
(* Properties.                                                              *)

\* The DAOs of this node that exist anywhere.
Made == air \cup ({tx.signed, disk.signed} \ {NoDao})

\* An origin sequence stands for one signed DAO for ever: the root's rule that
\* an equal sequence must have an equal digest never rejects an honest leaf.
OneDaoPerSequence == \A d, e \in Made : d.seq = e.seq => d = e

\* What send_dao hands to the radio is already durable, and nothing newer was
\* ever on the air: a retained DAO is never sent after its successor, also
\* when it survives reboots, failed clears and parent changes.
SendsDurableNewest ==
    phase = "sending" =>
        /\ disk.signed = tx.signed
        /\ \A d \in air : d.seq <= tx.signed.seq

\* The leaf keeps the promises the root relies on.
Src == INSTANCE DaoSource WITH
    Origins  <- {Self},
    seq      <- [o \in {Self} |-> disk.reserved],
    path     <- [o \in {Self} |-> path],
    building <- [o \in {Self} |-> IF phase = "reserved" THEN disk.reserved ELSE 0],
    sent     <- Made

PromisesKept == Src!SourceSpec

\* A node that stays with a parent ends up with the newest DAO on the air
\* naming that parent, even if it was holding bytes that name an earlier one,
\* unless its sequence space is used up.
ParentAnnounced ==
    \A p \in Parents :
        <>[](parent = p) => <>[](disk.reserved = MaxSeq \/ Announced(p))
=============================================================================
