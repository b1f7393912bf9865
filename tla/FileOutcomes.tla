---------------------------- MODULE FileOutcomes ----------------------------
(***************************************************************************)
(* What a review pass promises, without how it gets there.  Every file is  *)
(* pending until it settles, covered or not, once and for all; then one    *)
(* verdict is given, and it is a pass only when every file is covered and  *)
(* nothing was found that blocks.                                          *)
(***************************************************************************)
CONSTANT Files

VARIABLES
  status,   \* file -> pending, covered or uncovered
  found,    \* some finding blocks
  verdict

vars == <<status, found, verdict>>

Init ==
  /\ status = [f \in Files |-> "pending"]
  /\ found = FALSE
  /\ verdict = "none"

\* Any number of files settle together; a blocking finding may turn up.
Settle ==
  /\ verdict = "none"
  /\ status' \in [Files -> {"pending", "covered", "uncovered"}]
  /\ \A f \in Files : status[f] # "pending" => status'[f] = status[f]
  /\ found' \in BOOLEAN /\ (found => found')
  /\ UNCHANGED verdict

Conclude ==
  /\ verdict = "none"
  /\ \A f \in Files : status[f] # "pending"
  /\ verdict' \in {"PASS", "FOUND", "COULD_NOT_EVALUATE"}
  /\ verdict' = "PASS" => /\ ~found
                          /\ \A f \in Files : status[f] = "covered"
  /\ verdict' = "FOUND" <=> found
  /\ UNCHANGED <<status, found>>

Next == Settle \/ Conclude

Spec == Init /\ [][Next]_vars
=============================================================================
