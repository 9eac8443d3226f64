------------------------------ MODULE MCDodag ------------------------------
(* A leaf with three neighbours, the root and two relays of one rank, and a *)
(* table for two of them; one of the relays hears it as well.               *)
EXTENDS Dodag

CONSTANTS a, b, c, r

Crowded == {r} \X {a, b, c} \union {b, c} \X {a} \union {<<a, b>>}
=============================================================================
