-------------------------------- MODULE Gate --------------------------------
(***************************************************************************)
(* The decision a run record is reduced to.  internal/scope computes the   *)
(* coverage arithmetic over the recorded file outcomes, internal/gate      *)
(* turns coverage, findings and the reports of the failing job into one of *)
(* three verdicts, and a verdict into a GitHub check-run conclusion.       *)
(* Everything here is a pure operator: the code keeps no state either.     *)
(*                                                                         *)
(* A run record is abstracted to                                           *)
(*   outcomes        path -> the sequence of outcomes recorded for it      *)
(*   apiFiles        number of files GitHub listed for the pull request    *)
(*   blocks          some finding of the record blocks                     *)
(*   samples         number of model samples behind the record             *)
(*   providerFailed, budgetTripped   hard failures reported by the job     *)
(***************************************************************************)
EXTENDS Integers, Sequences, FiniteSets

SkipReasons == {"binary", "vendored", "lockfile", "generated", "minified",
                "paths_ignore", "oversized", "unchanged_since_review",
                "risk_rank_cutoff"}

\* The closed set of skip reasons that count toward coverage.
ApprovedSkipReasons == SkipReasons \ {"risk_rank_cutoff"}

\* A mutant of IsApprovedSkipReason: a file cut by rank counts as covered.
IsAnySkipReason(reason) == reason \in SkipReasons

IsApprovedSkipReason(reason) == reason \in ApprovedSkipReasons

FileReviewed == "reviewed"
FileSkipped  == "skipped"
FileErrored  == "errored"
States       == {FileReviewed, FileSkipped, FileErrored}

Verdicts    == {"PASS", "FOUND", "COULD_NOT_EVALUATE"}
Conclusions == {"success", "failure", "neutral"}

\* Every record of a run, named by its path and its position.
Recorded(outcomes) ==
  UNION {{<<f, i>> : i \in DOMAIN outcomes[f]} : f \in DOMAIN outcomes}

InState(outcomes, state) ==
  {r \in Recorded(outcomes) : outcomes[r[1]][r[2]].state = state}

ApprovedSkips(outcomes) ==
  {r \in InState(outcomes, FileSkipped) :
     IsApprovedSkipReason(outcomes[r[1]][r[2]].reason)}

ComputeCoverage(outcomes, apiFiles) ==
  LET reviewed == Cardinality(InState(outcomes, FileReviewed))
      approved == Cardinality(ApprovedSkips(outcomes))
      errored  == Cardinality(InState(outcomes, FileErrored))
  IN [apiFiles |-> apiFiles, reviewed |-> reviewed, approvedSkip |-> approved,
      errored  |-> errored,
      complete |-> /\ apiFiles > 0
                   /\ reviewed + approved = apiFiles
                   /\ errored = 0]

EmptyInScope(c) ==
  c.apiFiles > 0 /\ c.reviewed = 0 /\ c.approvedSkip = 0 /\ c.errored = 0

\* A mutant of NotEvaluated: an unapproved skip is left to the coverage sum.
NotEvaluatedBySum(r) ==
  LET cov == ComputeCoverage(r.outcomes, r.apiFiles)
  IN \/ cov.apiFiles <= 0
     \/ EmptyInScope(cov)
     \/ InState(r.outcomes, FileErrored) # {}
     \/ ~cov.complete
     \/ r.samples < 1

\* What keeps a record without blocking findings from passing, in the order
\* the code asks.
NotEvaluated(r) ==
  LET cov == ComputeCoverage(r.outcomes, r.apiFiles)
  IN \/ cov.apiFiles <= 0
     \/ EmptyInScope(cov)
     \/ InState(r.outcomes, FileErrored) # {}
     \/ InState(r.outcomes, FileSkipped) # ApprovedSkips(r.outcomes)
     \/ ~cov.complete
     \/ r.samples < 1

Decide(r) ==
  IF r.providerFailed \/ r.budgetTripped THEN "COULD_NOT_EVALUATE"
  ELSE IF r.blocks THEN "FOUND"
  ELSE IF NotEvaluated(r) THEN "COULD_NOT_EVALUATE"
  ELSE "PASS"

\* With the repository's opt-out a run that could not evaluate is neutral,
\* which GitHub counts as a satisfied required check.
Conclusion(verdict, neutralToolFailure) ==
  CASE verdict = "COULD_NOT_EVALUATE" /\ neutralToolFailure -> "neutral"
    [] verdict = "PASS" -> "success"
    [] OTHER -> "failure"
=============================================================================
