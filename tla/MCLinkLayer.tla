----------------------------- MODULE MCLinkLayer -----------------------------
(* LinkLayer with four keys, two of which share an interface identifier; the *)
(* others are interchangeable together with their identifiers.               *)
EXTENDS LinkLayer, TLC

CONSTANTS k1, k2, k3, k4, i1, i2, i3

MCIidOf == [k \in Keys |-> CASE k \in {k1, k2} -> i1 [] k = k3 -> i2 [] k = k4 -> i3]

Colliding == Permutations({k1, k2})
Alone == {f \in Permutations({k3, k4, i2, i3}) :
              f[k3] \in {k3, k4} /\ (f[k3] = k3 <=> f[i2] = i2)}
Symmetry == {f @@ g : f \in Colliding, g \in Alone}
=============================================================================
