------------------------------ MODULE DaoSource ------------------------------
(***************************************************************************)
(* What the DAO origins of a DODAG promise the root: a signed DAO, once it  *)
(* may have left the node, is the only one its origin ever makes with that  *)
(* origin sequence, whatever crashes; every new one has a larger origin     *)
(* sequence and the next Path Sequence, which a reboot sets back to Start.  *)
(*                                                                          *)
(* DaoOrigin implements this specification for one node; DaoRoot takes it   *)
(* as the population of leaves whose DAOs it is sent.                       *)
(***************************************************************************)
EXTENDS Lollipop

CONSTANTS
    Origins,     \* the nodes that originate DAOs
    Parents,     \* the addresses a Transit option may name
    MaxSeq       \* u64::MAX: the last origin sequence

ASSUME MaxSeqAssumption == MaxSeq \in Nat

VARIABLES
    seq,         \* per origin: the last sequence it has reserved
    path,        \* per origin: its Path Sequence
    building,    \* per origin: the sequence whose DAO is being made, or 0
    sent         \* the DAOs that may have left their origin

sourceVars == <<seq, path, building, sent>>

Daos == [origin : Origins, seq : 1 .. MaxSeq, path : Seqs, parent : Parents]

SourceInit ==
    /\ seq = [o \in Origins |-> 0]
    /\ path = [o \in Origins |-> Start]
    /\ building = [o \in Origins |-> 0]
    /\ sent = {}

\* A sequence is reserved for the next DAO.
Begin(o) ==
    /\ building[o] = 0
    /\ seq[o] < MaxSeq
    /\ seq' = [seq EXCEPT ![o] = @ + 1]
    /\ path' = [path EXCEPT ![o] = IncrementLollipop(@)]
    /\ building' = [building EXCEPT ![o] = seq[o] + 1]
    /\ UNCHANGED sent

\* The DAO is made, and will be sent any number of times, or never.
Emit(o, p) ==
    /\ building[o] > 0
    /\ building' = [building EXCEPT ![o] = 0]
    /\ sent' = sent \cup {[origin |-> o, seq |-> building[o], path |-> path[o],
                            parent |-> p]}
    /\ UNCHANGED <<seq, path>>

\* The reserved sequence is given up.
Abandon(o) ==
    /\ building[o] > 0
    /\ building' = [building EXCEPT ![o] = 0]
    /\ UNCHANGED <<seq, path, sent>>

\* A reboot gives it up as well, and the Path Sequence starts again.
Reboot(o) ==
    /\ path' = [path EXCEPT ![o] = Start]
    /\ building' = [building EXCEPT ![o] = 0]
    /\ UNCHANGED <<seq, sent>>

SourceNext ==
    \E o \in Origins :
        \/ Begin(o) \/ Abandon(o) \/ Reboot(o)
        \/ \E p \in Parents : Emit(o, p)

SourceSpec == SourceInit /\ [][SourceNext]_sourceVars
=============================================================================
