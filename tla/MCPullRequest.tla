--------------------------- MODULE MCPullRequest ---------------------------
(***************************************************************************)
(* Two files a and b; x and y are two findings on a, and x may also be     *)
(* found on b, whose comment goes to a (b has no hunks to anchor on).      *)
(***************************************************************************)
EXTENDS PullRequest, TLC

MCPaths == {"a", "b"}
MCFps   == {"x", "y"}
MCClaims == {[fp |-> "x", path |-> "a", at |-> "a"],
             [fp |-> "y", path |-> "a", at |-> "a"],
             [fp |-> "x", path |-> "b", at |-> "a"]}
MCSimilarity == [p \in MCFps \X MCFps |-> IF p[1] = p[2] THEN 100 ELSE 30]
ReviewerSymmetry == Permutations(Reviewers)
MCPathOrder == [p \in MCPaths |-> IF p = "a" THEN 1 ELSE 2]

\* Bound: when both reviewers are at work the instance is smaller.
SmallTogether ==
  (\A r \in Reviewers : runs[r] > 0) =>
    /\ tip = 1
    /\ \E r \in Reviewers : runs[r] = 1
    /\ \A r \in Reviewers : run[r].pc \in {"reviewed", "reconciled", "posted"} =>
                              Len(run[r].found) <= 1
    /\ DOMAIN code = {"a"}
=============================================================================
