--------------------------- MODULE RedundantStore ---------------------------
(***************************************************************************)
(* The two-slot durable value of lichen-hal (storage.rs).  A value is       *)
(* written alternately to two keys, each copy framed with a generation and  *)
(* a CRC, and the newest copy that parses is the value.  Every persistent   *)
(* protocol state of the mesh (DAO origin sequence, DAO admissions and      *)
(* high-water marks, root sequence cache) is kept in such a pair.           *)
(*                                                                          *)
(* The bytes of a frame are abstracted to what parse_slot tells apart: an   *)
(* absent key, a key whose bytes fail the length, version or CRC checks     *)
(* ("torn") and a record with its generation and payload.  The environment  *)
(* is NonVolatile::write: it succeeds, it fails and leaves the old value    *)
(* (the contract in lib.rs; no state changes, so no action), or power is    *)
(* lost during it and the key holds the old, the new or a torn copy.  A     *)
(* torn copy is weaker than the contract of the trait; it is what the CRC   *)
(* and the second slot are there for.                                       *)
(***************************************************************************)
EXTENDS Integers

CONSTANTS
    Payloads,    \* the payloads a caller may store
    NoPayload,   \* not a payload
    Clients,     \* owners of a RedundantValue handle on the same two keys
    MaxGen       \* u64::MAX: the generation that cannot be incremented

ASSUME NoPayloadAssumption == NoPayload \notin Payloads
ASSUME MaxGenAssumption == MaxGen \in Nat \ {0}

VARIABLES
    slots,       \* what the two keys of the storage hold
    handle,      \* per client: its RedundantValue (generation 0: none)
    cache        \* per client: the payload it took from, or gave to, the store

storeVars == <<slots, handle, cache>>

Blank(kind)  == [kind |-> kind, gen |-> 0, val |-> NoPayload]
Record(g, v) == [kind |-> "record", gen |-> g, val |-> v]
NoHandle     == [gen |-> 0, slot |-> 0]

SlotValues ==
    [kind : {"absent", "torn", "record"}, gen : 0..MaxGen,
     val : Payloads \cup {NoPayload}]

\* Slots, handles and copies are of their types, and no generation passes
\* the last one (the checked_add of update_redundant).
TypeOK ==
    /\ slots \in [{0, 1} -> SlotValues]
    /\ handle \in [Clients -> [gen : 0..MaxGen, slot : {0, 1}]]
    /\ cache \in [Clients -> Payloads \cup {NoPayload}]

-----------------------------------------------------------------------------
(* Reading the pair: the match both open_redundant and update_redundant    *)
(* make.  Slot 1 wins only with a strictly larger generation.              *)

Parses(s, i) == s[i].kind = "record"
Readable(s)  == Parses(s, 0) \/ Parses(s, 1)

Latest(s) ==
    IF Parses(s, 1) /\ (Parses(s, 0) => s[1].gen > s[0].gen) THEN 1 ELSE 0

Missing(s) == s[0].kind = "absent" /\ s[1].kind = "absent"

\* What open_redundant returns: a record, Missing ("absent") or Corrupt ("torn").
View(s) ==
    IF Readable(s) THEN s[Latest(s)]
    ELSE IF Missing(s) THEN Blank("absent") ELSE Blank("torn")

\* Mutant of IsCurrent: the slot alone is compared, so a stale writer passes.
IsCurrentSlotOnly(s, h) == Readable(s) /\ Latest(s) = h.slot

\* The handle check of update_redundant: generation and slot are the latest.
IsCurrent(s, h) ==
    /\ Readable(s)
    /\ s[Latest(s)].gen = h.gen
    /\ Latest(s) = h.slot

\* Mutant of TargetSlot: the newest copy is overwritten in place.
TargetSlotInPlace(h) == h.slot

\* The slot update_redundant writes, given the caller's handle.
TargetSlot(h) == 1 - h.slot

-----------------------------------------------------------------------------
(* Operations.  Error returns (Exists, Missing, Corrupt, Stale, Exhausted,  *)
(* Storage) change nothing and are the negations of the guards.             *)

StoreInit ==
    /\ slots = [i \in {0, 1} |-> Blank("absent")]
    /\ handle = [c \in Clients |-> NoHandle]
    /\ cache = [c \in Clients |-> NoPayload]

\* provision_redundant: only into an absent pair, generation 1 in slot 0.
Provision(v) ==
    /\ Missing(slots)
    /\ slots' = [slots EXCEPT ![0] = Record(1, v)]
    /\ UNCHANGED <<handle, cache>>

\* open_redundant by client c, which keeps the handle and the payload.
Open(c) ==
    /\ Readable(slots)
    /\ handle' = [handle EXCEPT ![c] = [gen |-> slots[Latest(slots)].gen,
                                        slot |-> Latest(slots)]]
    /\ cache' = [cache EXCEPT ![c] = slots[Latest(slots)].val]
    /\ UNCHANGED slots

CanUpdate(c) ==
    /\ handle[c].gen > 0
    /\ IsCurrent(slots, handle[c])
    /\ handle[c].gen < MaxGen

\* update_redundant by client c.
Update(c, v) ==
    /\ CanUpdate(c)
    /\ slots' = [slots EXCEPT ![TargetSlot(handle[c])] = Record(handle[c].gen + 1, v)]
    /\ handle' = [handle EXCEPT ![c] = [gen |-> handle[c].gen + 1,
                                        slot |-> TargetSlot(handle[c])]]
    /\ cache' = [cache EXCEPT ![c] = v]

Reset ==
    /\ handle' = [c \in Clients |-> NoHandle]
    /\ cache' = [c \in Clients |-> NoPayload]

\* Power is lost outside a write.
PowerLoss ==
    /\ Reset
    /\ UNCHANGED slots

\* Power is lost during the write of provision_redundant.
CrashInProvision(v) ==
    /\ Missing(slots)
    /\ Reset
    /\ \E copy \in {Record(1, v), Blank("torn")} :
          slots' = [slots EXCEPT ![0] = copy]

\* Power is lost during the write of update_redundant.
CrashInUpdate(c, v) ==
    /\ CanUpdate(c)
    /\ Reset
    /\ \E copy \in {Record(handle[c].gen + 1, v), Blank("torn")} :
          slots' = [slots EXCEPT ![TargetSlot(handle[c])] = copy]

StoreNext ==
    \/ \E v \in Payloads : Provision(v) \/ CrashInProvision(v)
    \/ \E c \in Clients : Open(c)
    \/ \E c \in Clients, v \in Payloads : Update(c, v) \/ CrashInUpdate(c, v)
    \/ PowerLoss

StoreSpec == StoreInit /\ [][StoreNext]_storeVars

-----------------------------------------------------------------------------
(* Properties.                                                              *)

\* A handle that update_redundant would accept belongs to a client whose
\* copy of the payload is the stored one: state computed from that copy (the
\* DAO sequence, the high-water map) never overwrites what it has not seen.
HandleCoherent ==
    \A c \in Clients :
        IsCurrent(slots, handle[c]) => cache[c] = View(slots).val

\* The two copies are consecutive generations, so there is always exactly one
\* newest copy, and a pair that does not parse was never acknowledged: only a
\* first write cut short by power loss can make open_redundant say Corrupt.
CopiesConsecutive ==
    /\ (Parses(slots, 0) /\ Parses(slots, 1)) =>
          \/ slots[0].gen = slots[1].gen + 1
          \/ slots[1].gen = slots[0].gen + 1
    /\ ~Readable(slots) => slots[1].kind = "absent"

\* Every behaviour of the pair is a behaviour of one atomic durable record:
\* a value once stored is never lost or rolled back, whatever write power
\* loss interrupts, and stale handles never replace it.
Abs == INSTANCE DurableRecord WITH
    reg   <- View(slots),
    holds <- [c \in Clients |-> [gen |-> handle[c].gen, val |-> cache[c]]]

AtomicRecord == Abs!Spec
=============================================================================
