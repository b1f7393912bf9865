----------------------------- MODULE ReviewPass -----------------------------
(***************************************************************************)
(* One review pass: internal/reviewer.Run, from a manifest of changed      *)
(* files to a run record, and the verdict the gate takes from the record.  *)
(*                                                                         *)
(*   classify   skips, deletions and missing files leave before any call   *)
(*   triage     one whole-diff call names the files to read first          *)
(*   order      too many flagged files are cut by rank; the rest queue up  *)
(*   dispatch   one file alone, then waves of BatchSize files shared by    *)
(*              Concurrency workers; a wave ends before the next begins    *)
(*   returned   every manifest path left over is finalised                 *)
(*   judged     gate.Decide has reduced the record to a verdict            *)
(*                                                                         *)
(* A completion is a call to a provider.  Three kinds of unit make them -  *)
(* triage, the review of a file, the verification of a finding - through   *)
(* one retry loop and one run-wide bucket of retries per kind.             *)
(*                                                                         *)
(* Abstracted: what a file or an answer says (only whether it parses, how  *)
(* many findings the verifier is asked about, whether one of them blocks), *)
(* the order of files within a priority tier (any order), prompt contents, *)
(* usage accounting, logging.                                              *)
(***************************************************************************)
EXTENDS Gate, FiniteSetsExt

CONSTANTS
  Files,           \* the manifest: the paths GitHub lists for the change
  Classes,         \* what a file may turn out to be (see FileClasses)
  BatchSize,       \* files per wave; 6 in the code
  Concurrency,     \* roles.review.concurrency; below 1 reads as 1
  Cutoff,          \* RiskRankCutoff; 40 in the code
  RetryBucket,     \* defaultRetriesPerUnitType; 3 in the code
  ParseBudget,     \* defaultPerFileParseRetries; 2 in the code
  DeadlineBudget,  \* defaultPerFileDeadlineRetries; 1 in the code
  RunawayBudget,   \* defaultPerFileRunawayRetries; 1 in the code
  MaxClaims,       \* findings of one file the verifier is asked about
  ToolsMode,       \* structured_output: tools
  EffortPinned,    \* the operator set reasoning_effort
  MayCancel        \* the caller may end the run's context

FileClasses == {"deleted", "ignored", "missing", "unchanged", "reviewable"}
Units       == {"triage", "review", "verify"}
\* Why a completion is asked for: a review's first call, its re-asks from the
\* file's own budget, its retries from the run-wide bucket, and the others.
Purposes    == {"first", "reask", "retry", "triage", "verify"}
Triage      == "triage"
Callers     == Files \cup {Triage}

ASSUME FilesAssumption ==
  IsFiniteSet(Files) /\ Triage \notin Files /\ Classes \subseteq FileClasses
ASSUME BoundsAssumption ==
  /\ BatchSize \in Nat \ {0} /\ Concurrency \in Int /\ Cutoff \in Nat
  /\ RetryBucket \in Nat /\ ParseBudget \in Nat /\ DeadlineBudget \in Nat
  /\ RunawayBudget \in Nat /\ MaxClaims \in Nat
ASSUME SwitchAssumption == {ToolsMode, EffortPinned, MayCancel} \subseteq BOOLEAN

VARIABLES
  class,      \* file -> what the classification finds it to be
  source,     \* the files that add lines
  phase,
  canceled,   \* the run's context has ended
  call,       \* caller -> its completion: none, open, doomed or backoff
  retryLeft,  \* unit -> retries left in the run-wide bucket
  followUps,  \* tool follow-ups triage may still make
  flagged,    \* what triage flagged
  usable,     \* triage gave a usable answer
  lead,       \* queued files of the first tier
  rest,       \* queued files of the second tier
  primed,     \* the first file has been dispatched
  batch,      \* the files of the current wave
  unit,       \* file -> idle, review, verify or settled
  left,       \* file -> its own re-ask budgets
  claims,     \* file -> findings the verifier has not been asked about yet
  answer,     \* file -> the outcome its parsed answer declares
  blocked,    \* files with a finding that blocks
  outcomes,   \* RunRecord.Files, by path
  finalized,  \* paths that have a terminal state
  runErr,     \* the error Run returns, as a flag
  issued,     \* purpose -> completions asked for so far
  verdict     \* what the gate decided

input    == <<class, source>>
triageVars == <<followUps, flagged, usable>>
queue    == <<lead, rest, primed, batch>>
work     == <<unit, left, claims, answer, blocked>>
record   == <<outcomes, finalized, runErr>>
vars     == <<input, phase, canceled, call, retryLeft, triageVars, queue,
              work, record, issued, verdict>>

Reasons == SkipReasons \cup
  {"", "missing_post_image", "canceled", "runaway_generation",
   "deterministic_failure", "deadline_exceeded", "model_error",
   "parse_failure"}

Outcome(state, reason) == [state |-> state, reason |-> reason]
Outcomes == {Outcome(s, r) : s \in States, r \in Reasons}

Budgets == [parse : 0..ParseBudget, deadline : 0..DeadlineBudget,
            runaway : 0..RunawayBudget]

Reviewable == {f \in Files : class[f] = "reviewable"}

Init ==
  /\ class \in [Files -> Classes]
  /\ source \in SUBSET {f \in Files : class[f] = "reviewable"}
  /\ phase = "classify" /\ canceled = FALSE
  /\ call = [c \in Callers |-> "none"]
  /\ retryLeft = [u \in Units |-> RetryBucket]
  /\ followUps = 1 /\ flagged = {} /\ usable = FALSE
  /\ lead = {} /\ rest = {} /\ primed = FALSE /\ batch = {}
  /\ unit = [f \in Files |-> "idle"]
  /\ left = [f \in Files |-> [parse |-> ParseBudget, deadline |-> DeadlineBudget,
                              runaway |-> RunawayBudget]]
  /\ claims = [f \in Files |-> 0]
  /\ answer = [f \in Files |-> "none"]
  /\ blocked = {}
  /\ outcomes = [f \in Files |-> <<>>] /\ finalized = {} /\ runErr = FALSE
  /\ issued = [p \in Purposes |-> 0]
  /\ verdict = "none"
-----------------------------------------------------------------------------
(* Completions.  A call made on a dead context can only come back as an    *)
(* error; one that was open when the context ended may still be answered.  *)

NewCall == IF canceled THEN "doomed" ELSE "open"

Ask(c, purpose) ==
  /\ call' = [call EXCEPT ![c] = NewCall]
  /\ issued' = [issued EXCEPT ![purpose] = @ + 1]

Hangup(c) == call' = [call EXCEPT ![c] = "none"] /\ UNCHANGED issued

\* What completeWithRetry may hand back to caller c of unit u now.
\* "transient" leaves the loop only when the bucket is empty.
Returns(c, u) ==
  (IF call[c] = "open" THEN {"answer", "runaway", "deterministic"} ELSE {})
  \cup (IF call[c] \in {"open", "doomed"} THEN {"deadline"} ELSE {})
  \cup (IF call[c] = "open" /\ ~canceled /\ retryLeft[u] = 0
        THEN {"transient"} ELSE {})
  \cup (IF call[c] # "none" /\ canceled THEN {"canceled"} ELSE {})

\* A mutant of TryRetry: the bucket is not looked at before it is drawn on.
TryRetryUnchecked(u) == retryLeft' = [retryLeft EXCEPT ![u] = @ - 1]

TryRetry(u) ==
  retryLeft[u] > 0 /\ retryLeft' = [retryLeft EXCEPT ![u] = @ - 1]

UnitOf(c) == IF c = Triage THEN "triage" ELSE unit[c]

\* A transient provider error, with a retry left in the bucket: sleep.
Backoff(c) ==
  /\ call[c] = "open" /\ ~canceled
  /\ TryRetry(UnitOf(c))
  /\ call' = [call EXCEPT ![c] = "backoff"]
  /\ UNCHANGED <<input, phase, canceled, triageVars, queue, work, record,
                 issued, verdict>>

\* The sleep is over: the same request again.
Resume(c) ==
  /\ call[c] = "backoff"
  /\ Ask(c, IF UnitOf(c) = "review" THEN "retry" ELSE UnitOf(c))
  /\ UNCHANGED <<input, phase, canceled, retryLeft, triageVars, queue, work,
                 record, verdict>>
-----------------------------------------------------------------------------
(* Classification and triage.                                              *)

\* A mutant of Classified: a file carried forward counts as reviewed.
ClassifiedCarriedAsReviewed(f) ==
  CASE class[f] \in {"deleted", "unchanged"} -> <<Outcome(FileReviewed, "")>>
    [] class[f] = "ignored" -> <<Outcome(FileSkipped, "paths_ignore")>>
    [] class[f] = "missing" -> <<Outcome(FileErrored, "missing_post_image")>>
    [] OTHER                -> <<>>

Classified(f) ==
  CASE class[f] = "deleted"   -> <<Outcome(FileReviewed, "")>>
    [] class[f] = "ignored"   -> <<Outcome(FileSkipped, "paths_ignore")>>
    [] class[f] = "missing"   -> <<Outcome(FileErrored, "missing_post_image")>>
    [] class[f] = "unchanged" -> <<Outcome(FileSkipped, "unchanged_since_review")>>
    [] OTHER                  -> <<>>

Classify ==
  /\ phase = "classify"
  /\ phase' = "triage"
  /\ outcomes' = [f \in Files |-> Classified(f)]
  /\ finalized' = {f \in Files : Classified(f) # <<>>}
  /\ Ask(Triage, "triage")
  /\ UNCHANGED <<input, canceled, retryLeft, triageVars, queue, work, runErr,
                 verdict>>

\* An answer that is not JSON is asked for again: a blank one in
\* response_format mode, any one in tools mode while a follow-up is left.
TriageReask ==
  /\ phase = "triage"
  /\ "answer" \in Returns(Triage, "triage")
  /\ ToolsMode => followUps > 0
  /\ TryRetry("triage")
  /\ followUps' = IF ToolsMode THEN followUps - 1 ELSE followUps
  /\ Ask(Triage, "triage")
  /\ UNCHANGED <<input, phase, canceled, flagged, usable, queue, work, record,
                 verdict>>

\* Triage may name any path of the manifest, those already settled included.
TriageFlags ==
  /\ phase = "triage"
  /\ "answer" \in Returns(Triage, "triage")
  /\ flagged' \in SUBSET Files
  /\ usable' = TRUE
  /\ phase' = "order"
  /\ Hangup(Triage)
  /\ UNCHANGED <<input, canceled, retryLeft, followUps, queue, work, record,
                 verdict>>

\* An error, an answer of another schema version, one that names a path the
\* manifest does not have, or one that cannot be asked for again.
TriageFallback ==
  /\ phase = "triage"
  /\ Returns(Triage, "triage") # {}
  /\ phase' = "order"
  /\ Hangup(Triage)
  /\ UNCHANGED <<input, canceled, retryLeft, triageVars, queue, work, record,
                 verdict>>
-----------------------------------------------------------------------------
(* The queue.                                                              *)

FlaggedEntries == IF usable THEN Reviewable \cap flagged ELSE Reviewable

ShouldRiskRank == Cardinality(FlaggedEntries \cap source) > Cutoff

\* The best Cutoff entries by added lines: all of them add lines, because
\* more than Cutoff entries do.
Ranked == {K \in SUBSET (FlaggedEntries \cap source) : Cardinality(K) = Cutoff}

Enqueue ==
  /\ phase = "order" /\ ~ShouldRiskRank
  /\ phase' = "dispatch"
  /\ lead' = FlaggedEntries
  /\ rest' = Reviewable \ FlaggedEntries
  /\ UNCHANGED <<input, canceled, call, retryLeft, triageVars, primed, batch,
                 work, record, issued, verdict>>

\* A cut entry is recorded as skipped.  The second tier leaves out what
\* triage flagged; without a usable triage nothing was flagged, and the cut
\* entries queue up behind the kept ones all the same.
RiskRank ==
  /\ phase = "order" /\ ShouldRiskRank
  /\ phase' = "dispatch"
  /\ \E K \in Ranked :
       /\ lead' = K
       /\ rest' = Reviewable \ (K \cup flagged)
       /\ outcomes' = [f \in Files |->
            IF f \in FlaggedEntries \ K
            THEN Append(outcomes[f], Outcome(FileSkipped, "risk_rank_cutoff"))
            ELSE outcomes[f]]
       /\ finalized' = finalized \cup (FlaggedEntries \ K)
  /\ UNCHANGED <<input, canceled, call, retryLeft, triageVars, primed, batch,
                 work, runErr, issued, verdict>>

Waiting  == lead \cup rest
BatchDone == \A f \in batch : unit[f] = "settled"
\* A mutant of WaveSize: the first wave is a full one.
WaveSizeUnprimed == BatchSize

WaveSize == IF primed THEN BatchSize ELSE 1

\* The next files in queue order: the second tier only when the first is out.
NextWave(B) ==
  /\ B \subseteq Waiting
  /\ Cardinality(B) = Min({WaveSize, Cardinality(Waiting)})
  /\ B \subseteq lead \/ lead \subseteq B

Dispatch ==
  /\ phase = "dispatch" /\ BatchDone /\ ~runErr /\ Waiting # {}
  /\ \E B \in SUBSET Waiting :
       /\ NextWave(B)
       /\ batch' = B
       /\ lead' = lead \ B
       /\ rest' = rest \ B
  /\ primed' = TRUE
  /\ UNCHANGED <<input, phase, canceled, call, retryLeft, triageVars, work,
                 record, issued, verdict>>
-----------------------------------------------------------------------------
(* The review of one file.                                                 *)

Workers == IF Concurrency < 1 THEN 1 ELSE Concurrency
Busy    == {f \in batch : unit[f] \in {"review", "verify"}}

RecordFile(f, state, reason) ==
  /\ outcomes' = [outcomes EXCEPT ![f] = Append(@, Outcome(state, reason))]
  /\ finalized' = finalized \cup {f}

Begin(f) ==
  /\ phase = "dispatch" /\ f \in batch /\ unit[f] = "idle"
  /\ Cardinality(Busy) < Workers
  /\ ~canceled
  /\ unit' = [unit EXCEPT ![f] = "review"]
  /\ Ask(f, "first")
  /\ UNCHANGED <<input, phase, canceled, retryLeft, triageVars, queue, left,
                 claims, answer, blocked, record, verdict>>

\* A file whose turn comes on a dead context is not asked about at all.
BeginCanceled(f) ==
  /\ phase = "dispatch" /\ f \in batch /\ unit[f] = "idle"
  /\ Cardinality(Busy) < Workers
  /\ canceled
  /\ unit' = [unit EXCEPT ![f] = "settled"]
  /\ RecordFile(f, FileErrored, "canceled")
  /\ runErr' = TRUE
  /\ UNCHANGED <<input, phase, canceled, call, retryLeft, triageVars, queue,
                 left, claims, answer, blocked, issued, verdict>>

\* A mutant of Recoverable: an expired deadline is final at once.
RecoverableRunawayOnly(f, e) ==
  e = "runaway" /\ left[f].runaway > 0 /\ ~EffortPinned

Recoverable(f, e) ==
  \/ e = "runaway"  /\ left[f].runaway > 0 /\ ~EffortPinned
  \/ e = "deadline" /\ left[f].deadline > 0

\* A runaway is asked again with its reasoning bounded, from the file's own
\* budget.
ReaskRunaway(f) ==
  /\ unit[f] = "review"
  /\ "runaway" \in Returns(f, "review") /\ Recoverable(f, "runaway")
  /\ left' = [left EXCEPT ![f].runaway = @ - 1]
  /\ Ask(f, "reask")
  /\ UNCHANGED <<input, phase, canceled, retryLeft, triageVars, queue, unit,
                 claims, answer, blocked, record, verdict>>

\* An expired deadline is asked again with a fresh one, even when the
\* context of the run is what expired.
ReaskDeadline(f) ==
  /\ unit[f] = "review"
  /\ "deadline" \in Returns(f, "review") /\ Recoverable(f, "deadline")
  /\ left' = [left EXCEPT ![f].deadline = @ - 1]
  /\ Ask(f, "reask")
  /\ UNCHANGED <<input, phase, canceled, retryLeft, triageVars, queue, unit,
                 claims, answer, blocked, record, verdict>>

ErrorReason(e) ==
  CASE e = "runaway"       -> "runaway_generation"
    [] e = "deterministic" -> "deterministic_failure"
    [] e \notin {"runaway", "deterministic"} /\ canceled  -> "canceled"
    [] e = "deadline" /\ ~canceled -> "deadline_exceeded"
    [] OTHER               -> "model_error"

GiveUp(f) ==
  /\ unit[f] = "review"
  /\ \E e \in Returns(f, "review") \ {"answer"} :
       /\ ~Recoverable(f, e)
       /\ RecordFile(f, FileErrored, ErrorReason(e))
  /\ runErr' = (runErr \/ canceled)
  /\ unit' = [unit EXCEPT ![f] = "settled"]
  /\ Hangup(f)
  /\ UNCHANGED <<input, phase, canceled, retryLeft, triageVars, queue, left,
                 claims, answer, blocked, verdict>>

\* A mutant of ReaskUnparsable: the re-ask draws on the run-wide bucket.
ReaskUnparsableShared(f) ==
  /\ unit[f] = "review"
  /\ "answer" \in Returns(f, "review")
  /\ TryRetry("review")
  /\ Ask(f, "reask")
  /\ UNCHANGED <<input, phase, canceled, triageVars, queue, work, record,
                 verdict>>

\* Blank, not JSON, or against the review schema: no finding is lost.
ReaskUnparsable(f) ==
  /\ unit[f] = "review"
  /\ "answer" \in Returns(f, "review")
  /\ left[f].parse > 0
  /\ left' = [left EXCEPT ![f].parse = @ - 1]
  /\ Ask(f, "reask")
  /\ UNCHANGED <<input, phase, canceled, retryLeft, triageVars, queue, unit,
                 claims, answer, blocked, record, verdict>>

\* The budget is spent.  A parse failure is not a run error, canceled or not.
ParseFailure(f) ==
  /\ unit[f] = "review"
  /\ "answer" \in Returns(f, "review")
  /\ left[f].parse = 0
  /\ RecordFile(f, FileErrored, "parse_failure")
  /\ unit' = [unit EXCEPT ![f] = "settled"]
  /\ Hangup(f)
  /\ UNCHANGED <<input, phase, canceled, retryLeft, triageVars, queue, left,
                 claims, answer, blocked, runErr, verdict>>

\* A parsed answer: the outcome it declares, and n findings to verify.  The
\* declared outcome is kept for the properties; the code reads it no more.
Parsed(f) ==
  /\ unit[f] = "review"
  /\ "answer" \in Returns(f, "review")
  /\ \E o \in {"reviewed", "not_reviewable"}, n \in 0..MaxClaims :
       /\ answer' = [answer EXCEPT ![f] = o]
       /\ claims' = [claims EXCEPT ![f] = n]
       /\ IF n = 0
          THEN /\ unit' = [unit EXCEPT ![f] = "settled"]
               /\ RecordFile(f, FileReviewed, "")
               /\ Hangup(f)
          ELSE /\ unit' = [unit EXCEPT ![f] = "verify"]
               /\ Ask(f, "verify")
               /\ UNCHANGED <<outcomes, finalized>>
  /\ UNCHANGED <<input, phase, canceled, retryLeft, triageVars, queue, left,
                 blocked, runErr, verdict>>

\* One finding verified.  A supported candidate blocks; an error, a missing
\* context or a refutation leaves a note or nothing.  The file's record is
\* written after its last finding.
Verified(f) ==
  /\ unit[f] = "verify"
  /\ Returns(f, "verify") # {}
  /\ \/ "answer" \in Returns(f, "verify") /\ blocked' = blocked \cup {f}
     \/ UNCHANGED blocked
  /\ claims' = [claims EXCEPT ![f] = @ - 1]
  /\ IF claims[f] = 1
     THEN /\ unit' = [unit EXCEPT ![f] = "settled"]
          /\ RecordFile(f, FileReviewed, "")
          /\ Hangup(f)
     ELSE /\ Ask(f, "verify")
          /\ UNCHANGED <<unit, outcomes, finalized>>
  /\ UNCHANGED <<input, phase, canceled, retryLeft, triageVars, queue, left,
                 answer, runErr, verdict>>

Review(f) ==
  \/ Begin(f) \/ BeginCanceled(f)
  \/ ReaskRunaway(f) \/ ReaskDeadline(f) \/ GiveUp(f)
  \/ ReaskUnparsable(f) \/ ParseFailure(f) \/ Parsed(f)
  \/ Verified(f)
-----------------------------------------------------------------------------
(* The end of the run.                                                     *)

\* A mutant of FinalizeDefault: settled paths are not looked up.
FinalizeAlways(f) == Append(outcomes[f], Outcome(FileErrored, "canceled"))

FinalizeDefault(f) ==
  IF f \in finalized THEN outcomes[f]
  ELSE Append(outcomes[f], Outcome(FileErrored, "canceled"))

\* A mutant of Return: the run ends only when its queue is empty.
ReturnDrained ==
  /\ phase = "dispatch" /\ BatchDone /\ Waiting = {}
  /\ phase' = "returned"
  /\ outcomes' = [f \in Files |-> FinalizeDefault(f)]
  /\ finalized' = Files
  /\ UNCHANGED <<input, canceled, call, retryLeft, triageVars, queue, work,
                 runErr, issued, verdict>>

Return ==
  /\ phase = "dispatch" /\ BatchDone /\ (runErr \/ Waiting = {})
  /\ phase' = "returned"
  /\ outcomes' = [f \in Files |-> FinalizeDefault(f)]
  /\ finalized' = Files
  /\ UNCHANGED <<input, canceled, call, retryLeft, triageVars, queue, work,
                 runErr, issued, verdict>>

RunRecord ==
  [outcomes |-> outcomes, apiFiles |-> Cardinality(Files),
   blocks |-> blocked # {}, samples |-> 1,
   providerFailed |-> FALSE, budgetTripped |-> FALSE]

Judge ==
  /\ phase = "returned"
  /\ phase' = "judged"
  /\ verdict' = Decide(RunRecord)
  /\ UNCHANGED <<input, canceled, call, retryLeft, triageVars, queue, work,
                 record, issued>>

\* The caller of Run ends its context, at any point of the run.
Cancel ==
  /\ MayCancel /\ ~canceled
  /\ phase \notin {"returned", "judged"}
  /\ canceled' = TRUE
  /\ UNCHANGED <<input, phase, call, retryLeft, triageVars, queue, work,
                 record, issued, verdict>>

Progress ==
  \/ Classify
  \/ TriageReask \/ TriageFlags \/ TriageFallback
  \/ Enqueue \/ RiskRank \/ Dispatch
  \/ \E c \in Callers : Backoff(c) \/ Resume(c)
  \/ \E f \in Files : Review(f)
  \/ Return \/ Judge

Next == Progress \/ Cancel

Spec == Init /\ [][Next]_vars
\* Every call carries a deadline of its own and every worker is a goroutine,
\* so a run that can go on goes on.  Nothing makes the caller cancel it.
FairSpec == Spec /\ WF_vars(Progress)
-----------------------------------------------------------------------------
(* What a pass promises.                                                   *)

TypeOK ==
  /\ class \in [Files -> Classes] /\ source \subseteq Files
  /\ phase \in {"classify", "triage", "order", "dispatch", "returned", "judged"}
  /\ canceled \in BOOLEAN
  /\ call \in [Callers -> {"none", "open", "doomed", "backoff"}]
  /\ retryLeft \in [Units -> 0..RetryBucket]
  /\ followUps \in 0..1 /\ flagged \subseteq Files /\ usable \in BOOLEAN
  /\ lead \subseteq Files /\ rest \subseteq Files /\ batch \subseteq Files
  /\ primed \in BOOLEAN
  /\ unit \in [Files -> {"idle", "review", "verify", "settled"}]
  /\ left \in [Files -> Budgets]
  /\ claims \in [Files -> 0..MaxClaims]
  /\ answer \in [Files -> {"none", "reviewed", "not_reviewable"}]
  /\ blocked \subseteq Files
  /\ outcomes \in [Files -> Seq(Outcomes)]
  /\ finalized \subseteq Files /\ runErr \in BOOLEAN
  /\ issued \in [Purposes -> Nat]
  /\ verdict \in Verdicts \cup {"none"}

Ended == phase \in {"returned", "judged"}

Cut(f) ==
  outcomes[f] # <<>> /\ outcomes[f][1] = Outcome(FileSkipped, "risk_rank_cutoff")

\* PLAN.md, section 7: every path of the manifest resolves to exactly one
\* terminal state, no fourth state and no absence.
OneTerminalState ==
  Ended => \A f \in Files : Len(outcomes[f]) = 1

\* What the code does hold to: no path is absent whatever calls fail and
\* whenever the run is canceled, and a path has two states only when it was
\* cut by rank with no usable triage, which leaves it in the queue.
SettledOnce ==
  Ended => \A f \in Files :
    \/ Len(outcomes[f]) = 1
    \/ Len(outcomes[f]) = 2 /\ Cut(f) /\ ~usable

\* Fail closed: a pass means that the run did not die, that nothing blocks
\* and that every file of the manifest was deleted, skipped for an approved
\* reason, or answered for.
PassIsCovered ==
  verdict = "PASS" =>
    /\ ~runErr /\ blocked = {}
    /\ \A f \in Files :
         class[f] \in {"deleted", "ignored", "unchanged"} \/ answer[f] # "none"

\* PLAN.md, section 8: "nothing to say" and "could not say anything" are
\* different values.  A pass would then mean that no file's answer was the
\* second.
PassIsReviewed ==
  verdict = "PASS" => \A f \in Files : answer[f] # "not_reviewable"

\* No file is given up early: each reason for an error names a budget that
\* is spent or a condition that holds, however retries and cancellation
\* interleave among the workers.
GivenUpOnlyWhenSpent ==
  \A f \in Files : \A i \in DOMAIN outcomes[f] :
    LET reason == outcomes[f][i].reason
    IN /\ reason = "model_error"        => retryLeft["review"] = 0
       /\ reason = "parse_failure"      => left[f].parse = 0
       /\ reason = "deadline_exceeded"  => left[f].deadline = 0
       /\ reason = "runaway_generation" => left[f].runaway = 0 \/ EffortPinned
       /\ reason = "canceled"           => canceled

Spent(f) ==
  (ParseBudget - left[f].parse) + (DeadlineBudget - left[f].deadline)
    + (RunawayBudget - left[f].runaway)

\* Every review call is paid for exactly once, each from its own purse: one
\* first call per file, re-asks from the file's own budgets, and from the
\* run-wide bucket retries only.  One file's broken output therefore never
\* draws on what the others share (issue 73), and a run's calls are bounded.
CallsAccounted ==
  LET asleep == {f \in Files : unit[f] = "review" /\ call[f] = "backoff"}
      drawn  == RetryBucket - retryLeft["review"]
  IN /\ issued["first"] <= Cardinality({f \in Files : unit[f] # "idle"})
     /\ issued["reask"] = MapThenSumSet(Spent, Files)
     /\ issued["retry"] + Cardinality(asleep) <= drawn
     /\ ~canceled => issued["retry"] + Cardinality(asleep) = drawn
     /\ issued["triage"] <= 1 + RetryBucket
     /\ issued["verify"] <= issued["first"] * MaxClaims + RetryBucket

\* The first file is read alone, so that the calls after it find the cached
\* prefix; no more calls are in flight than workers; a wave starts only
\* when the one before has ended.
CallsInFlight ==
  LET inFlight == {f \in Files : call[f] # "none"}
      settled  == {f \in Files : unit[f] = "settled"}
  IN /\ Cardinality(inFlight) > 1 => settled # {}
     /\ Cardinality(inFlight) <= Workers
     /\ inFlight \cup {f \in Files : unit[f] \in {"review", "verify"}} \subseteq batch
     /\ call[Triage] # "none" => inFlight = {}

\* An answer is not lost, nor invented: when the run has ended, exactly the
\* files whose answer parsed, and the deleted ones, are recorded as
\* reviewed - a cancellation that meets a file in verification included.
AnswerIsRecorded ==
  Ended => \A f \in Files :
    (answer[f] # "none" \/ class[f] = "deleted")
      <=> \E i \in DOMAIN outcomes[f] : outcomes[f][i].state = FileReviewed

\* A run always ends in a verdict.
Terminates == <>(phase = "judged")

\* The first outcome of a file is the one that settles it.
StatusOf(f) ==
  IF outcomes[f] = <<>> THEN "pending"
  ELSE IF \/ outcomes[f][1].state = FileReviewed
          \/ outcomes[f][1].state = FileSkipped
             /\ IsApprovedSkipReason(outcomes[f][1].reason)
       THEN "covered" ELSE "uncovered"

Promise == INSTANCE FileOutcomes WITH
  status <- [f \in Files |-> StatusOf(f)],
  found  <- blocked # {}

\* The pass implements its abstract specification: outcomes settle once, the
\* verdict comes last and only once, and it is a pass only of covered files.
KeepsPromise == Promise!Spec
=============================================================================
