----------------------------- MODULE MCLinkTuple -----------------------------
(* LinkTuple with three epochs of three tuples and up to three boots. *)
EXTENDS LinkTuple
=============================================================================
