----------------------------- MODULE Selection -----------------------------
(***************************************************************************)
(* What a loop makes of a list when it keeps some of its elements.         *)
(***************************************************************************)
EXTENDS Sequences, SequencesExt

\* The elements of s at the positions of S, in their order.
Those(s, S) ==
  FoldLeftDomain(LAMBDA kept, i : IF i \in S THEN Append(kept, s[i]) ELSE kept, <<>>, s)
=============================================================================
