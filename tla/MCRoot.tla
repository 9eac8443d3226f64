------------------------------- MODULE MCRoot -------------------------------
(* The parts of a root for TLC: DaoRoot, with leaves that may be each       *)
(* other's parents and are interchangeable, and the redundant record in     *)
(* which its floors and admissions are kept.  The two share no variable, so *)
(* that it is enough to let one of them move while the other is at its      *)
(* start.                                                                   *)
EXTENDS DaoRoot, RedundantStore, TLC

LOCAL INSTANCE FiniteSetsExt

CONSTANT MaxDaos

OriginSymmetry == Permutations(Origins)

\* Bound: the leaves begin so many DAOs in all.
FewDaos == MapThenSumSet(LAMBDA o : seq[o], Origins) <= MaxDaos

RootInit == Init /\ StoreInit

RootNext ==
    \/ StoreInit /\ Next /\ UNCHANGED storeVars
    \/ Init /\ StoreNext /\ UNCHANGED vars

RootSpec == RootInit /\ [][RootNext]_<<vars, storeVars>>
=============================================================================
