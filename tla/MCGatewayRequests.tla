------------------------- MODULE MCGatewayRequests -------------------------
(* A gateway with one peer of lower and one of higher IID; the former also  *)
(* asks for what the gateway does not have.                                *)
EXTENDS GatewayRequests

CONSTANT MaxEvents

MCPeers == {1, 3}
MCClaimSlots == [p \in MCPeers |-> IF p = 1 THEN {{}, {0}} ELSE {{0}, {1}}]

\* Bound: crashes, failed calls, replaced contexts, superframes and requests for
\* no resource, taken together.
FewEvents ==
    faults.crashes + faults.failures + Cardinality(renewed) + (superframe - 1)
        + Cardinality({v \in DOMAIN requests[1] : ~ Routed(requests[1][v])}) <= MaxEvents
=============================================================================
