------------------------------ MODULE Lollipop ------------------------------
(***************************************************************************)
(* The eight-bit lollipop counter of lichen-rpl (routing.rs): the order the *)
(* root uses to decide whether a Path Sequence is newer than the one it     *)
(* has, and the increment the leaf uses.  Values below Circular are the     *)
(* circular region, values from Circular up the linear one a counter        *)
(* starts in after a reboot.                                                *)
(***************************************************************************)
EXTENDS Integers

CONSTANTS
    Circular,    \* LOLLIPOP_CIRCULAR_BIT (128): the size of each region
    Window       \* LOLLIPOP_SEQUENCE_WINDOW (16)

ASSUME LollipopAssumption ==
    /\ Circular \in Nat /\ Window \in Nat
    /\ 1 <= Window /\ 2 * Window < Circular

Seqs  == 0 .. 2 * Circular - 1

\* dao_sequence and path_sequence of a new DaoManager (240).
Start == 2 * Circular - Window

\* wrapping_sub(new, old) & 0x7F, for two values of one region.
Ahead(new, old) == IF new >= old THEN new - old ELSE new - old + Circular

SameRegion(new, old) == new < Circular <=> old < Circular

\* Mutant of SeqIsNewer: the window is exclusive.
SeqIsNewerShort(new, old) ==
    \/ SameRegion(new, old) /\ Ahead(new, old) \in 1 .. Window - 1
    \/ new < Circular /\ old >= Circular /\ 2 * Circular + new - old < Window
    \/ new >= Circular /\ old < Circular /\ 2 * Circular + old - new > Window

\* seq_is_newer: within one region a window ahead; a circular value is newer
\* than a linear one a window before the wrap, a linear one than the rest.
SeqIsNewer(new, old) ==
    \/ SameRegion(new, old) /\ Ahead(new, old) \in 1 .. Window
    \/ new < Circular /\ old >= Circular /\ 2 * Circular + new - old <= Window
    \/ new >= Circular /\ old < Circular /\ 2 * Circular + old - new > Window

\* increment_lollipop: each region's last value is followed by 0.
IncrementLollipop(s) ==
    IF s \in {Circular - 1, 2 * Circular - 1} THEN 0 ELSE s + 1
=============================================================================
