----------------------------- MODULE AccessOrder -----------------------------
(***************************************************************************)
(* The order in which the members of a table were last accessed.  The code  *)
(* stamps each entry (last_access of the peer table and of the replay       *)
(* table, last_seen_ms of the neighbour table) and only ever compares the   *)
(* stamps, so the model keeps the order alone: the pairs <<x, y>> of        *)
(* members of which x was accessed before y.                                *)
(***************************************************************************)

\* Entries are removed.
Without(before, gone) == {p \in before : p[1] \notin gone /\ p[2] \notin gone}

\* x, a member of ms or a new one, is accessed: it comes after all others.
Touch(before, ms, x) == Without(before, {x}) \cup {<<y, x>> : y \in ms \ {x}}

\* The least recently accessed of ms.
First(before, ms) == {x \in ms : \A y \in ms \ {x} : <<x, y>> \in before}
=============================================================================
