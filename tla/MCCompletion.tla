---------------------------- MODULE MCCompletion ----------------------------
(***************************************************************************)
(* Completion with chains of one to four legs: an operator's own endpoint, *)
(* the inferred one, a self-hosted one without a key, and fallbacks named  *)
(* twice, bare, qualified, with a key that does not resolve or a provider  *)
(* nobody declared.                                                        *)
(***************************************************************************)
EXTENDS Completion

MCEndpoints ==
  {[key |-> "k", base |-> "", model |-> ""],
   [key |-> "", base |-> "", model |-> "m"],
   [key |-> "", base |-> "self", model |-> "m"]}
MCIdLists == {<<>>, <<"m">>}
Ref(provider, model) == [provider |-> provider, model |-> model]
MCRefLists ==
  {<<>>, <<Ref("", "m")>>, <<Ref("", "m"), Ref("p", "m")>>,
   <<Ref("q", "m"), Ref("none", "m"), Ref("p", "n")>>}
MCProviders ==
  [name \in {"p", "q"} |->
     [base |-> name, key |-> IF name = "p" THEN "kp" ELSE ""]]
=============================================================================
