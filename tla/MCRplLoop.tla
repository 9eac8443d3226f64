------------------------------ MODULE MCRplLoop ------------------------------
(* The DAO side of a leaf for TLC: RplLoop, with the ladder 4/8/16 s in     *)
(* units of four seconds, and the Path Sequences of its DAOs at the root,   *)
(* with the constants of the code and enough losses for them to become      *)
(* incomparable.  The two share no variable, so that it is enough to let    *)
(* one of them move while the other is at its start.                        *)
EXTENDS RplLoop, PathSync

Ladder == <<1, 2, 4>>

LeafInit == LoopInit /\ SyncInit

LeafNext ==
    \/ SyncInit /\ LoopNext /\ UNCHANGED syncVars
    \/ LoopInit /\ SyncNext /\ UNCHANGED loopVars

LeafSpec == LeafInit /\ [][LeafNext]_<<loopVars, syncVars>>
=============================================================================
