------------------------------ MODULE LinkTuple ------------------------------
(***************************************************************************)
(* The (epoch, sequence number) tuples a gateway signs its frames with,     *)
(* over reboots.  The daemon persists an epoch only when it starts; the     *)
(* stack also moves to the next epoch by itself when the sequence number    *)
(* runs out, and tells nobody.                                             *)
(***************************************************************************)
EXTENDS Integers

CONSTANTS
    MinEpoch,    \* 128: the lowest epoch the stack starts at
    MaxEpoch,    \* u8::MAX
    MaxSeq,      \* u16::MAX
    MaxBoots     \* bound on the number of boots

VARIABLES
    saved,       \* the epoch in storage, None before the first boot
    boots,       \* boots so far
    up,          \* the stack exists
    epoch,       \* Stack::epoch
    seqnum,      \* Stack::seqnum
    exhausted,   \* Stack::sequence_exhausted
    used         \* history: every tuple handed out, with its boot

vars == <<saved, boots, up, epoch, seqnum, exhausted, used>>

None == -1

\* A new key: no epoch stored, or one below MinEpoch.
Init ==
    /\ saved \in {None} \cup (0 .. (MinEpoch - 1))
    /\ boots = 0
    /\ up = FALSE
    /\ epoch = 0 /\ seqnum = 0 /\ exhausted = FALSE
    /\ used = {}

\* safe_epoch of the daemon; at MaxEpoch it refuses to start.
CanBoot == saved < MaxEpoch

SafeEpoch == IF saved < MinEpoch THEN MinEpoch ELSE saved + 1

\* lichend main: the epoch is saved before the stack exists, and the
\* sequence number starts at 0.
Boot ==
    /\ ~up /\ boots < MaxBoots
    /\ CanBoot
    /\ saved' = SafeEpoch
    /\ boots' = boots + 1
    /\ up' = TRUE
    /\ epoch' = SafeEpoch
    /\ seqnum' = 0
    /\ exhausted' = FALSE
    /\ UNCHANGED used

\* The save fails, or the power does right after it: no stack, and the epoch
\* may be in storage.
BootFails ==
    /\ ~up /\ boots < MaxBoots
    /\ CanBoot
    /\ saved' = SafeEpoch
    /\ UNCHANGED <<boots, up, epoch, seqnum, exhausted, used>>

\* try_next_link_tuple, for a frame that is then signed and sent.
NextTuple ==
    /\ up /\ ~exhausted
    /\ used' = used \cup {[boot |-> boots, epoch |-> epoch, seq |-> seqnum]}
    /\ \/ /\ seqnum < MaxSeq
          /\ seqnum' = seqnum + 1
          /\ UNCHANGED <<epoch, exhausted>>
       \/ /\ seqnum = MaxSeq /\ epoch < MaxEpoch
          /\ epoch' = epoch + 1
          /\ seqnum' = 0
          /\ UNCHANGED exhausted
       \/ /\ seqnum = MaxSeq /\ epoch = MaxEpoch
          /\ exhausted' = TRUE
          /\ UNCHANGED <<epoch, seqnum>>
    /\ UNCHANGED <<saved, boots, up>>

\* The daemon stops, or the power does.
Stop ==
    /\ up
    /\ up' = FALSE
    /\ UNCHANGED <<saved, boots, epoch, seqnum, exhausted, used>>

Next == Boot \/ BootFails \/ NextTuple \/ Stop

Spec == Init /\ [][Next]_vars

-----------------------------------------------------------------------------
Repeated(t, u) == t.boot # u.boot /\ t.epoch = u.epoch /\ t.seq = u.seq

\* spec/02-physical-link.md, section 4.4: "With persisted state, a rebooted
\* node resumes at a greater unused tuple".  No tuple is signed twice.
TuplesFresh == \A t, u \in used : ~Repeated(t, u)
=============================================================================
