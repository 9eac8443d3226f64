------------------------------ MODULE MCRootDio ------------------------------
(* Model of RootDio for TLC: one root runs this repository's producer, the  *)
(* other one numbers its DIOs.                                              *)
EXTENDS RootDio
=============================================================================
