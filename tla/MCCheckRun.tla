----------------------------- MODULE MCCheckRun -----------------------------
(***************************************************************************)
(* CheckRun on small instances: two reviews, so that a push's run and a    *)
(* re-run overlap, and up to two heads.                                    *)
(***************************************************************************)
EXTENDS CheckRun
=============================================================================
