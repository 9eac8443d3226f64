--------------------------- MODULE PacketTransfer ---------------------------
(***************************************************************************)
(* What fragmentation promises a caller, without fragments, timers or      *)
(* counters: packets 1..N are offered one after the other; the packet on   *)
(* offer is handed to the receiving application at most once; the sender    *)
(* reports success only for a packet handed over, and may report failure    *)
(* at any time, of a packet handed over too.                                *)
(***************************************************************************)
EXTENDS Naturals, Sequences

CONSTANT N

VARIABLES
    offered,   \* the number of the packet on offer, 0 before the first
    outcome,   \* what the sender reports of it
    handed     \* the numbers of the packets handed over, in order

vars == <<offered, outcome, handed>>

Init == offered = 0 /\ outcome = "idle" /\ handed = <<>>

Offer ==
    /\ offered < N
    /\ offered' = offered + 1
    /\ outcome' = "open"
    /\ UNCHANGED handed

HandOver ==
    /\ offered # 0 /\ \A i \in DOMAIN handed : handed[i] # offered
    /\ handed' = Append(handed, offered)
    /\ UNCHANGED <<offered, outcome>>

Succeed ==
    /\ outcome = "open" /\ \E i \in DOMAIN handed : handed[i] = offered
    /\ outcome' = "succeeded"
    /\ UNCHANGED <<offered, handed>>

Fail ==
    /\ outcome = "open"
    /\ outcome' = "failed"
    /\ UNCHANGED <<offered, handed>>

Next == Offer \/ HandOver \/ Succeed \/ Fail

Spec == Init /\ [][Next]_vars
=============================================================================
