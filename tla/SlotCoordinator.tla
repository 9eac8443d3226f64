-------------------------- MODULE SlotCoordinator --------------------------
(***************************************************************************)
(* The slot coordinator of a gateway (lichen-gateway/src/resources.rs and  *)
(* slot.rs): how it verifies the slot claim of another gateway, resolves a *)
(* conflict with the slots it owns, and what of the outcome is durable.    *)
(*                                                                         *)
(* A coordinator is [seen, generation, claims, owned]: the replay          *)
(* high-water (superframe and claim sequence) of every gateway heard, the  *)
(* generation of the replay state, the last verified claim of every        *)
(* gateway, and the slots owned by conflict resolution (an empty sequence  *)
(* before the first one: then the slot map of the configuration counts).   *)
(* A claim is [slots, superframe, seq], signed by its gateway.  Gateways   *)
(* are their identifiers (IIDs), compared as numbers.                      *)
(***************************************************************************)
EXTENDS Integers, FiniteSets, Sequences, Functions, FiniteSetsExt

CONSTANTS
    Self,            \* the IID of this gateway
    Slots,           \* slots_per_superframe
    Ordinal,         \* this gateway's ordinal in the interleaved slot map ...
    GatewayCount,    \* ... of so many gateways
    MaxGateways      \* the capacity of the replay table

ASSUME CoordinatorAssumption ==
    /\ Self \in Nat
    /\ Slots \in Nat \ {0}
    /\ GatewayCount \in Nat \ {0}
    /\ Ordinal \in 0..(GatewayCount - 1)
    /\ MaxGateways \in Nat \ {0}

SlotSet == 0..(Slots - 1)

Fresh == [seen |-> << >>, generation |-> 1, claims |-> << >>, owned |-> << >>]

\* SlotMap::owned_slots in the interleaved mode.
OwnedSlots(c) ==
    IF c.owned # << >>
    THEN c.owned[1]
    ELSE {s \in SlotSet : s >= Ordinal /\ (s - Ordinal) % GatewayCount = 0}

\* SlotClaimVerifier::verify after the signature checks, for superframe sf.
Verdict(c, g, claim, sf) ==
    CASE claim.superframe # sf                         -> "stale"
      [] claim.superframe = sf /\ g \in DOMAIN c.seen
           /\ claim.seq <= c.seen[g].seq               -> "replay"
      [] claim.superframe = sf /\ g \notin DOMAIN c.seen
           /\ Cardinality(DOMAIN c.seen) >= MaxGateways -> "full"
      [] OTHER                                         -> "verified"

Put(f, g, v) == [x \in DOMAIN f \union {g} |-> IF x = g THEN v ELSE f[x]]

Verified(c, g, claim) ==
    [c EXCEPT !.seen = Put(@, g, [superframe |-> claim.superframe, seq |-> claim.seq]),
              !.generation = @ + 1]

\* The verified claim replaces or joins the stored claims.
Recorded(c, g, claim) == [c EXCEPT !.claims = Put(@, g, claim)]

\* MUTANT of OccupiedByOthers: only the claim at hand is avoided.
OccupiedByNone(c, g, sf) == {}

\* Slots that another gateway's claim for superframe sf takes.
OccupiedByOthers(c, g, sf) ==
    UNION {c.claims[h].slots :
              h \in {x \in DOMAIN c.claims \ {g} : c.claims[x].superframe = sf}}

\* The n lowest slots that are not occupied.
FindNextAvailable(n, occupied) ==
    LET free == SlotSet \ occupied
    IN  {s \in free : Cardinality({x \in free : x < s}) < n}

Outcome(answer, next) == [answer |-> answer, next |-> next]

(***************************************************************************)
(* handle_post_slots after the payload is decoded: the answer, and the     *)
(* coordinator to commit (the present one where nothing is committed).     *)
(***************************************************************************)
Yield(c, g, claim, sf) ==
    LET overlap  == OwnedSlots(c) \intersect claim.slots
        retained == OwnedSlots(c) \ claim.slots
        occupied == retained \union claim.slots \union OccupiedByOthers(c, g, sf)
        found    == FindNextAvailable(Cardinality(overlap), occupied)
    IN  IF Cardinality(found) # Cardinality(overlap)
        THEN Outcome("insufficient", c)
        ELSE Outcome("changed",
                     [Recorded(Verified(c, g, claim), g, claim)
                         EXCEPT !.owned = <<retained \union found>>])

\* MUTANT of Resolve: a claim that loses is not recorded.
ResolveUnrecorded(c, g, claim, sf) ==
    IF OwnedSlots(c) \intersect claim.slots = {}
    THEN Outcome("changed", Recorded(Verified(c, g, claim), g, claim))
    ELSE IF Self < g
    THEN Outcome("conflict", Verified(c, g, claim))
    ELSE Yield(c, g, claim, sf)

Resolve(c, g, claim, sf) ==
    LET verified == Recorded(Verified(c, g, claim), g, claim)
    IN  IF OwnedSlots(c) \intersect claim.slots = {}
        THEN Outcome("changed", verified)
        ELSE IF Self < g
        THEN Outcome("conflict", verified)
        ELSE Yield(c, g, claim, sf)

PostSlots(c, g, claim, sf) ==
    LET verdict == Verdict(c, g, claim, sf)
    IN  CASE verdict \in {"stale", "replay"} -> Outcome("forbidden", c)
          [] verdict = "full"                -> Outcome("empty", c)
          [] OTHER                           -> Resolve(c, g, claim, sf)

\* validate_semantic_slot_state, on which saving and loading both insist.
Valid(c) ==
    /\ c.owned # << >> => c.owned[1] \subseteq SlotSet
    /\ Cardinality(DOMAIN c.claims) <= MaxGateways
    /\ \A g \in DOMAIN c.claims :
          /\ c.claims[g].slots \subseteq SlotSet
          /\ g \in DOMAIN c.seen
          /\ c.seen[g] = [superframe |-> c.claims[g].superframe,
                          seq |-> c.claims[g].seq]

\* MUTANT of Commit: memory first, and the results of the writes ignored.
CommitUnchecked(s, next) ==
    LET remembered == [s EXCEPT !.memory = next]
        written    == [remembered EXCEPT !.disk = next]
    IN  {[slots |-> x, ok |-> TRUE] :
            x \in {remembered, written, [written EXCEPT !.floor = next.generation]}}

(***************************************************************************)
(* commit_slot_state on [memory, disk, floor]: the state file, the floor   *)
(* file, then memory.  Either file may be replaced and its write still     *)
(* reported as failed (the directory is synced after the rename).          *)
(***************************************************************************)
Commit(s, next) ==
    LET written  == [s EXCEPT !.disk = next]
        floored  == [written EXCEPT !.floor = next.generation]
        done     == [floored EXCEPT !.memory = next]
    IN  IF ~ Valid(next)
        THEN {[slots |-> s, ok |-> FALSE]}
        ELSE {[slots |-> x, ok |-> FALSE] : x \in {s, written, floored}}
                 \union {[slots |-> done, ok |-> TRUE]}

\* load_coordinator_state against the generation floor.
Loadable(s) == s.disk.generation >= s.floor /\ s.disk.generation > 0 /\ Valid(s.disk)
=============================================================================
