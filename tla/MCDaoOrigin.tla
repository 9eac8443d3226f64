---------------------------- MODULE MCDaoOrigin ----------------------------
(* One leaf, two parents, four sequences and three faults, with a lollipop   *)
(* small enough to wrap.                                                    *)
EXTENDS DaoOrigin, TLC
=============================================================================
