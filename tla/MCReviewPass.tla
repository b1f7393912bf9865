---------------------------- MODULE MCReviewPass ----------------------------
(***************************************************************************)
(* ReviewPass on small instances.  Files are interchangeable: no action    *)
(* and no property names one.                                              *)
(***************************************************************************)
EXTENDS ReviewPass, TLC

FileSymmetry == Permutations(Files)
=============================================================================
