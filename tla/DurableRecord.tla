---------------------------- MODULE DurableRecord ----------------------------
(***************************************************************************)
(* What the two-slot store of lichen-hal promises its callers: one durable *)
(* record with a generation, replaced atomically, that survives power loss *)
(* and that only a holder of the newest generation may replace.            *)
(*                                                                         *)
(* RedundantStore implements this specification.  The DAO modules take it  *)
(* as the storage they run on.                                             *)
(***************************************************************************)
EXTENDS Integers

CONSTANTS
    Payloads,    \* the values a caller may store
    NoPayload,   \* not a payload: what an absent or a corrupt record holds
    Clients,     \* holders of a copy of the record in memory
    MaxGen       \* the last generation

VARIABLES
    reg,         \* the durable record
    holds        \* per client: the generation and the value it has in memory

vars == <<reg, holds>>

Blank(kind)  == [kind |-> kind, gen |-> 0, val |-> NoPayload]
Record(g, v) == [kind |-> "record", gen |-> g, val |-> v]
Nothing      == [gen |-> 0, val |-> NoPayload]
Copy         == [gen |-> reg.gen, val |-> reg.val]

Init ==
    /\ reg = Blank("absent")
    /\ holds = [c \in Clients |-> Nothing]

\* A first value is stored where none was.
Provision(v) ==
    /\ reg.kind = "absent"
    /\ reg' = Record(1, v)
    /\ UNCHANGED holds

\* A client reads the record.
Open(c) ==
    /\ reg.kind = "record"
    /\ holds' = [holds EXCEPT ![c] = Copy]
    /\ UNCHANGED reg

\* A client whose copy is the record itself, value included, replaces it.
Update(c, v) ==
    /\ reg.kind = "record"
    /\ reg.gen < MaxGen
    /\ holds[c] = Copy
    /\ reg' = Record(reg.gen + 1, v)
    /\ holds' = [holds EXCEPT ![c] = [gen |-> reg.gen + 1, val |-> v]]

\* Power loss empties every client's memory.  The operation that was under
\* way has happened or it has not; the first one ever may also leave the
\* record corrupt for good.
PowerLoss ==
    /\ holds' = [c \in Clients |-> Nothing]
    /\ \/ UNCHANGED reg
       \/ /\ reg.kind = "absent"
          /\ \/ reg' = Blank("torn")
             \/ \E v \in Payloads : reg' = Record(1, v)
       \/ /\ reg.kind = "record"
          /\ reg.gen < MaxGen
          /\ \E c \in Clients : holds[c] = Copy
          /\ \E v \in Payloads : reg' = Record(reg.gen + 1, v)

Next ==
    \/ \E v \in Payloads : Provision(v)
    \/ \E c \in Clients : Open(c)
    \/ \E c \in Clients, v \in Payloads : Update(c, v)
    \/ PowerLoss

Spec == Init /\ [][Next]_vars
=============================================================================
