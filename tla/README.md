# A verification project for Cite

Cite (`cmd/cite`, `internal/`) reviews pull requests with a language model and
reports a required check run.  It is a Go program that lives for one job at a
time: `cite review` for a push or a "@cite review" comment, `cite signals` for
reactions, `cite bypass` for the break-glass label, `cite reaper` and
`cite re-review` on a schedule.  Whatever one job leaves for the next one is on
GitHub: the check run, the review threads, a sticky comment.

The specifications below are read from the code.  TLC checks them on small
instances and TLAPS proves, for every value of their constants, the invariants
that matter most.

## 1. Inventory

| part | state | operations | what makes it hard | what makes it correct |
| -- | -- | -- | -- | -- |
| Review pass (`internal/reviewer/reviewer.go`, `triage.go`, `scope/rank.go`) | the manifest, the queue of files, the retry bucket per kind of call, per-file re-ask budgets, the run record | classify, triage, rank, dispatch in waves, review a file, verify a finding, finalise | workers, cancellation at any point, five kinds of failure with budgets of their own | every file ends in one state, budgets hold, an answer is never lost, a run ends |
| Coverage and gate (`scope/coverage.go`, `skip.go`, `gate/gate.go`) | none | count outcomes, decide, conclude | counts instead of sets | a pass only of covered files |
| Required check run (`cmd/cite/review.go`, `reaper.go`, `bypass.go`, `githubclient/checks.go`, `labels.go`) | check runs per commit | create queued, conclude, sweep, bypass | overlapping jobs, pushes, lost calls, killed jobs, reads long before writes | no verdict on a commit it was not made for, no pending check for ever, a block stands |
| Sticky comment and delta review (`cmd/cite/review.go`, `publish.go`) | a state blob in a comment: blob SHAs, findings, ledger, head and merge base | read, decide what is unchanged, carry findings, write | crashes between the steps of publishing, two writers | a file is skipped only if its content was reviewed, a block on it is carried |
| Reconciliation (`publisher/reconcile.go`, `cmd/cite/sameclaim.go`) | review threads | match by fingerprint, by text, by claim; post, resolve, minimise | findings differ from run to run on the same code; humans resolve threads meanwhile | one open thread per claim, a thread is resolved on a verified basis, a human's word stands |
| Dismissals (`publisher/ledger.go`, `cmd/cite/listen.go`, `replyclass.go`) | ledger entries with an expiry, in the sticky comment | dismiss by reaction, reply or resolution; suppress; rebuild | the sticky comment is read early and rewritten late, anyone may quote it | an entry says what happened, a finding is silenced for a recorded reason only, a write drops only what it had not read |
| Publication (`githubclient/checks.go`, `publisher/budget.go`, `body.go`) | none | rank, cut to a budget, place, render, post a review, bisect a 422 | a finding passes five filters; the API refuses a whole review for one anchor | no finding is dropped silently, a block is shown |
| Model client, failover (`model/client.go`, `failover.go`, `cmd/cite/fallback.go`) | the chain; of a call: leg, attempt, deadline, bucket | infer an endpoint, build a chain, complete, fail over, retry, wait | error classes decide who retries, across two loops | a call ends, is given up late, spends a bounded amount; a credential goes to its endpoint |
| Validation (`reviewer/validate.go`, `evidence.go`, `negative.go`, `reanchor.go`) | none | anchor, evidence cascade, absence claims, blocking formula | many conjuncts, computed from untrusted answers | what is published stands, what blocks is shown to be true, what is shown to be true blocks |
| Diffs (`scope/diff.go`, `manifest.go`) | none | parse, number lines, list files | text that looks like a header | a comment lands on the line it is about |
| Configuration (`internal/config`, `cmd/cite/settings.go`) | none | merge files, validate, resolve roles, flags and variables | precedence over files, each checked by itself | the nearest layer wins and is the one that is named; what is accepted can be run |
| Instructions (`internal/instructions`) | none | discover and order instruction files | precedence | the nearest file wins, from the base ref only |
| Bypass log and re-review (`cmd/cite/bypass.go`, `rereview.go`) | a log comment, issues | log a bypass; list merges, read logs, review again, file issues | a log rewritten as a whole, taken from whoever wrote it last, two windows on different clocks | a line Cite wrote is a use, an issue traces to a merge and a line |
| Globs, envelope, xref, context pass, capture, canary, soak, metrics, cost | none that a verdict depends on | parsing, rendering, measuring | | |

The jobs interact through GitHub alone.  Inside a job the review pass is the
only concurrent part; the pull-request context pass runs beside it and is joined
before the record is written.

## 2. Modules

The review of one push:

* `Gate` holds the pure operators that everything ends in: the outcome a file may
  have, the approved skip reasons, `ComputeCoverage`, `EmptyInScope`, `Decide`,
  `Conclusion`.
* `FileOutcomes` is the abstract specification of a pass: files settle, each
  once, and at the end a verdict is announced, which is a pass only if every file
  is covered and nothing was found.
* `ReviewPass` is `reviewer.Run` and the gate after it.  `phase` follows the
  sections of `Run`; `lead` and `rest` are the queue (risky files first, order
  free within a tier), `batch` the wave the workers share.  A caller of a
  provider (triage or a file) has a `call` that is open, doomed (open on a dead
  context), or asleep in `backoff`; `Returns` gives what may come back, and one
  action handles each kind of return the way `completeWithRetry` and `reviewFile`
  do.  `left` are the per-file budgets, `retryLeft` the run-wide buckets,
  `outcomes` the run record in the order of its writes, `finalized` the set the
  defaults are filled in from.  `issued` counts calls and `answer` keeps what the
  code throws away; both exist for the properties only.

One call of a model, below it:

* `BoundedCall` is the abstract specification of a completion, what
  `ReviewPass` assumes in `Returns`: a live call may be answered or fail for a
  reason, a call in a dead run can only fail for want of a run, a transient error
  comes out only when the bucket is empty, a wait costs one retry, every call ends.
* `ModelClient` has the operators of one client: `Infer` (endpoint and credential),
  `NewModelClient` (the chain of legs), the replies a provider may give and
  `ErrorOf`, which classifies them, `FailsOver`, `RetryDelay`.
* `Completion` composes the retry loop of `reviewer.go`, the chain of `failover.go`
  and one HTTP request at a time: `Send`, `Answered`, `Refused`, `HungUp`,
  `FallOver`, `ChainFails`, then `GiveUp` or `Backoff`, `Wake` or `SleepCut`.  The
  per-call deadline (`Expire`), the end of the run (`Cancel`) and other calls that
  draw on the bucket (`OthersDraw`) come at any point.  It implements `BoundedCall`
  by the mapping `State`, `Result`.

What a finding goes through, without state:

* `Evidence` is the evidence cascade; a line is a sequence of words, a word standing
  for a character.  `Absence` is the check of asserted absences, `Diff` git's output
  for a change and the parser of it, `Validation` the file context, the anchors and
  re-anchoring, the ladder of drop reasons, the verifier's cross-check and
  `BlockingCandidate`.  `Publication` is the comment budget and the review that is
  built.  `Configuration` is the list of configuration files, the merge, the roles,
  flags and variables.
* `Findings` says what a diff, a quote and a claim *mean*, apart from how the code
  goes about them: `TellsTheChange`, `PatchTells`, `Stands`, `Proved`, `Plain`.
* `Selection` has one operator, `Those`: the elements of a list that a loop keeps.  It
  is a fold over places, which can be reasoned about where a test on elements cannot;
  `Reconcile`, `Diff` and `Publication` select with it.
* `Decisions` puts all of these as questions: a state is a change, a review of a
  file, a run to publish, a list of configuration files or a call of `cite`, and
  steps make the questions longer.  Each property compares an answer of the code's
  operators with the meaning.

What the jobs leave for one another:

* `CheckRun` is the required check of one pull request.  A review walks through
  `GetPR`, `CreateCheckRun`, its evaluation, publishing and `ConcludeCheckRun`,
  one step per call; the reaper through listing, looking and concluding by a
  remembered id; the bypass through reading the label, finding a pending check
  and concluding it.  GitHub's side (a PATCH completes a check run whatever it
  was, the newest check run of a commit is its gate) is external.
* `Ledger` is the dismissal ledger: entries, queries, expiry, who may dismiss.
* `Reconcile` is `publisher.Reconcile` as operators: `ExactPass`, `FuzzyPass`,
  `ClaimPass` in the code's greedy order, then `Obsolete` and `Plan`.  The text of
  findings is reduced to `Similarity`, the percentage the Jaccard score is compared
  with; a fingerprint has one text.
* `Delta` is the state of the sticky comment and what a run makes of it.  The
  comment's body is the sequence of tokens its reader searches for, because the
  order of the tokens decides what is read.
* `PullRequest` composes both into the rounds of review on one pull request:
  `code` and `tip` are the author's, `threads` and `sticky` are on GitHub, `run`
  is what a reviewer's job holds in memory, from `GetPR` to `WriteSticky`, one
  action per call that reads or writes GitHub.  `Die` ends a run anywhere: a call
  that failed, or a killed job.  A content is the set of findings whose quoted
  span it has; which of them a review raises is free.  `peak` and `last` exist for
  the properties only, as does `calm`, which says that the threads a run saw are
  still as it left them.
* `Conversation` composes `Reconcile`, `Ledger` and `Delta` into the life of the
  comments every job shares.  `comments` is the conversation; `jobs` are the jobs of
  any kind in the order they started, each with what it read and has not yet
  written: a signals job walks (`Walk`, `Classify`), reads again (`Reread`) and
  writes (`WriteLedger`); a review reads the state when it starts, reconciles,
  publishes and writes a state of its own making (`WriteSticky`); a bypass concludes,
  reads the log and writes it; a re-review reads the log, reviews and files issues.
  People vote, resolve, reply, repeat the sticky comment (`RestateSticky`) or the bypass
  log with lines of their own (`RestateLog`), push, label and merge in between, and time
  passes.  `recorded` and `uses` exist for the properties.
* `MCReviewPass`, `MCCompletion`, `MCDecisions`, `MCCheckRun`, `MCPullRequest` and
  `MCConversation` instantiate them; `ReviewPass_proofs`, `Completion_proofs`,
  `Decisions_proofs`, `Findings_proofs`, `CheckRun_proofs`, `PullRequest_proofs` and
  `Conversation_proofs` hold the proofs, and `Induction_proofs` what several of them
  need to reason about folds.

Definitions whose comment begins with "A mutant of" are the same operation with
a plausible mistake in it.  They are used by nothing; putting one in place of the
operation it mutates must make a named property fail.

## 3. Runs

| run | instance | shows |
| -- | -- | -- |
| `pass` | 3 files of any class, waves of 2 on 2 workers, rank cutoff 1, a runaway re-ask, tools mode, cancellation | no path is lost, invented or answered in vain; a pass covers all; calls in flight are bounded |
| `promise` | 2 files, 1 shared retry, a deadline and a parse re-ask, weak fairness | a run reaches a verdict and implements `FileOutcomes`; nothing is given up early, every call is paid for once |
| `completion` | chains of 1 to 4 legs from 24 settings, 2 retries, every reply | a completion is a `BoundedCall`; it gives up late, spends a bounded amount, waits a bounded time, and no leg has another's credential |
| `decisions` | 83,563 questions: changes of up to 4 lines, findings on 5 changes, 3 findings to publish, 3 of 15 configuration files, some 500 calls | diffs, validation, publication and configuration mean what they say |
| `check_run` | 2 reviews, 2 heads, faults, kill switch on or off | a green commit is earned, a reported block stands, a pending check heals |
| `pull_request` | 2 files, 3 findings, 2 runs, 2 commits, a person, 2 reviewers (smaller when both work) | no duplicate thread, a quiet replay, resolution for a cause only, threads that agree with the findings |
| `conversation` | 2 findings with one coarse identity, 2 jobs of any kinds, 5 events | entries are true, each line Cite logged is a use, silence has a cause, issues trace to a merge and a line of the log, writes keep what they read |
| `sticky_lost` (violation) | 1 reviewer | the state a run wrote is never read back: unchanged files are reviewed again |
| `unfetched` (violation) | contents may fail to arrive | a thread is resolved as verified gone because its file could not be fetched |
| `said_bypass` (violation) | as `conversation` | a comment under the log's marker makes a merge nobody bypassed reviewed again and issues filed |
| `diff_header` (violation) | content that begins with `-- ` or `++ ` | a removed line is read as a header and every number after it is off |
| `budget` (violation) | as `decisions` | on GitHub more is posted than the budget allows |

Bounds.  Three files are the fewest for a wave of two after the first file, and
for a cut that leaves one file on each side; two workers interleave; one retry is
enough for a file to spend what another needed.  Re-asks of the three kinds are
counted apart, so each run of `ReviewPass` may have a budget of one for some of them
and none for the others.  Two reviews and two heads give every overlap of a run with
a push, a re-run, the reaper and the bypass: each property speaks of one check run
and of those on one commit.  Heads and budgets are the only counters, bounded by
`MaxHead` and by the budgets of the code.

`completion` has an endpoint of each kind (an own key, the inferred one, a named one
without a key), command-line models, and references that are bare, qualified, to a
key that does not resolve and to a provider nobody declared.  Two retries make the
chain be walked three times; `RequestCap` 3 over `LegCap` 2 makes the leg's cap bite;
`Retry-After` is absent, below and above the longest wait.

`decisions` has no interleaving: its states are inputs, and the model is the
exhaustive comparison of operators with their meaning.  The code's thresholds are
scaled down with the inputs (a quote of 2 words, a span of 2 lines, a file of 5
lines of which 7 exist, budgets of 1 to 4, 2 comments a file), each so that there are
inputs on both sides of it.

`pull_request` has two fingerprints on one file and one of them on a second file
whose comment is posted on the first: exact, similar and claimed matches compete,
on the same path and across paths, and a finding may be raised twice in one run.
Two runs and two commits give what one run leaves to another, with or without a
push, a lost run, a resolution by hand or a rejected comment between them.  While
both reviewers have started, the constraint `SmallTogether` keeps one commit, one
file, one finding a run and three runs in all: enough for every overlap of the
two on one thread.  The similarity of the two fingerprints is below the
threshold, so that the model is asked about them; identical ones are above it.  `ThreadsPage` is not exceeded: the
properties are stated for threads that fit their page.

`conversation` starts from what one round of review leaves: a thread and a sticky
comment.  Five events are two jobs and three things people do, or time: enough to
have somebody act, a job record it, somebody bring the state back into sight and a
review go by it, or for two bypasses to overlap and a re-review to follow.  Since the
state Cite writes cannot be read back (`sticky_lost`), it is `RestateSticky` by a member
that gives a later job a ledger; without that action half of the properties would
hold of empty ledgers only.  A line somebody wrote has no use behind it (`use` 0) and
any time up to the next tick.  The sticky comment and the bypass log are written by
different jobs and meet nowhere, so the constraint `OneComment` keeps a behaviour to
one of them.  `FewWords` has two replies, or one reply and one restatement of either comment: a second
person on a thread, and a state that comes back after somebody spoke.  Two ticks, an expiry of one and a window of none put every event
within a limit or past it.

Deadlock is off where the system stops by itself: a pass and a completion end, runs,
events and questions are counted.  In `CheckRun` something can always happen (time
passes, the reaper looks again), so it is on.

Fairness.  In `ReviewPass` the run's own steps are weakly fair: every call has a
deadline of its own, workers are goroutines and nobody waits on anything else;
the caller's cancellation is not fair.  In `Completion` the client's own steps are
weakly fair and a deadline passes (`context.WithTimeout` before every walk), which
is all that ends a provider that never answers; nothing else is fair, the bucket
included.  In `CheckRun` a started review takes its next step unless it is killed,
time passes, the reaper is on a cron, and its calls do not fail for ever (strong
fairness of looking and reaping, because a failing sweep starts over).  Neither
pushes, labels, failures nor deaths are fair.  `PullRequest`, `Conversation` and
`Decisions` state safety only.

## 4. Where the code and its documents differ

The five violation runs are such places; `PROJECT.json` quotes the sentences.

* `sticky_lost`: the state of the sticky comment is never read back (PLAN section 10).
* `unfetched`: a file that could not be fetched counts as a file that is gone.
* `said_bypass`: the bypass log is looked for by its marker in the comments of everybody
  (`rereview.go:104`, `bypass.go:136`, `checks.go:444-459`), where the sticky comment is
  not.  Of a log that others write too, `LinesAreUses` holds for the lines Cite wrote, and
  `IssuesTraceToTheLog` has an issue follow a merge and a line.
* `diff_header`: a removed line that begins with `-- ` is read as a header.
* `budget`: the comment budget binds reports only.

Further disagreements that a property of a module states, and which TLC shows when
the property is added to the module's configuration:

* `AnchorableIsShown` (`Decisions`): the text of `git diff` ends with a newline, what
  follows it is split off as a line (`diff.go:118`), and the last hunk takes it as context
  (`diff.go:227-233`), so an anchor on a line nobody was shown is taken (`diff.go:70-72`).
  It concerns `cite review --diff`: `ParseFilePatch` trims a patch first (`ghpatch.go:28`).
  `DiffTellsTheChange` has every line of a patch; of a text, every line but the last, and
  what the last is.
* `UndeclaredBlocksNothing` (`Decisions`): "an absence that was never declared cannot
  block" (`negative.go:51-52`, `380-382`), but with some absence declared, prose that
  asserts another is heard only when the file contradicts it (`negative.go:417-421`, as
  the comment above it says).  `Proved` has what the code does give: the quotes are
  there, every declared claim is true, one is declared, and the file does not contradict
  the prose.
* `ChangesAreSaid` (`Decisions`): an override is a difference of what is written
  (`layers.go:286-291`), and a list is written with its elements joined
  (`layers.go:361-366`), so a list of one string can replace one of two without a word,
  where the comment has any difference (`layers.go:265-267`).  `OverridesAreSaid` compares
  what is written.
* `AcceptedIsComplete` (`Decisions`): a merged configuration is not asked for its required
  fields (`layers.go:129`; schema.go:75-78).
* `OneTerminalState` (`ReviewPass`, cutoff 2 of 2 files): a file cut by rank without a
  usable triage is queued all the same and has two records (`reviewer.go:732`; PLAN
  section 7 has one terminal state for each path).
* `PassIsReviewed` (`ReviewPass`): an answer that says "not reviewable" is parsed, its
  outcome is dropped and the file passes (`reviewer.go:1138`; section 8).
* `HeadReports` (`CheckRun`): with the kill switch on no check run is created, and the
  reaper passes over a commit without one (`review.go:512`; PLAN.md:1017).
* `BypassUnblocks` (`CheckRun`): the label concludes a pending check only
  (`bypass.go:90`; docs/troubleshooting.md:381).
* `BlockStands` with `Neutral` TRUE: where tool failures are neutral, the reaper can
  turn a block into neutral (`reaper.go:81`; action.yml:89).
* `TerminalSpendsNoBucket` (`Completion`): an early leg's runaway or truncated answer
  is forgotten when a later leg fails for a passing reason; the bucket is drawn on and
  the chain walked again, the same request meeting the same leg (`failover.go:71`;
  client.go:702-704, reviewer.go:555-563).
* `DismissalIsHuman` (`Conversation`): a signals job counts a thread Cite itself
  resolved as resolved by a person (`listen.go:177`; ledger.go:39-40).
* `MergeIsReReviewed` (`Conversation`): a bypass is reviewed again only when the merge
  and the log line both lie in one window (`rereview.go:112`; docs/security.md:268-270).
* `ElidedSpanIsBounded` (`Decisions`): when the first segment of an elided quote is
  found on the first line, the span is measured from the second (`evidence.go:150`).
* `DefinitionIsNoCall` (`Decisions`, `Shell` TRUE): a definition without a keyword
  (shell, C, Java) counts as a call and falsifies a true "never called"
  (`negative.go:65`).

Read while modelling, and not stated as a property:

* Reconciliation and threads.  A thread Cite resolved itself counts as resolved by a
  human (`publish.go:44`), so a finding that comes back is absorbed by it without a
  visible thread; `ThreadsAgree` therefore accepts a resolved thread whose span
  stands.  `ReplayIsQuiet` excludes a fingerprint raised on two paths: there the
  fallback to any path can give a finding the thread of the other, and a replay then
  posts although `reconcile.go:41` promises it does not.  Beyond a hundred threads
  (`checks.go:224`) the later ones are not seen and their findings are posted again.
  `PLAN.md` section 10 re-reads the head before publishing; the code does not.  Two
  reviewers share threads that name no reviewer: each resolves what the other raised
  and it did not; `ResolvedForCause` holds for each of them by itself.  Ties of the
  fuzzy pass go to the alphabetically first path, where its comment prefers the
  finding's own (`reconcile.go:110`).
* Ledger and signals.  A 👎 or a resolution of the pull request's own author counts
  (docs/security.md:248-249 says who may dismiss).  Each signals job records anew what
  it sees, so an expiry is renewed for as long as the reaction is there.  A verdict on
  a reply is kept by fingerprint: later replies are never read (`listen.go:371`), and
  a review's `writeSticky` drops all verdicts.  A reply that arrives between the
  listing of comments and of threads has no known association and is not counted.  A
  deleted file is recorded with the blob of an empty one.  `Active` is not gated by
  `Published`, which ledger.go:43-46 says dismissals are, and nothing calls `Prune`.
* Comments.  The sticky comment is found by containing its marker: a quote of it
  becomes the newest one and displaces it for reading and writing.  A bypass that dies
  between the conclusion and the log leaves no line.  Re-review windows that overlap
  file an issue twice; a log line has the resolution of a minute.
* Validation.  A finding has several drop entries when several of its claims are false.
  A removed call at the start of a line reads as a declaration.  An elided quote
  without a line is accepted wherever it first fits, with no check that it is
  ambiguous.  A quoted line that is an evidence marker is read before the comment's own
  data.  `ParseFilePatch` gives an added file `/dev/null` as its old path.  The comment at
  `diff.go:24-26` has no path for a deleted file; the code keeps the one of the header,
  and manifest_diff_test.go:30-63 expects it (`{Status: "D", Path: "cmd/old.go"}`), as
  `TellsTheChange` does.
* Configuration.  A machine's file alone prints no override (`layers.go:115`;
  docs/configuration.md:185-186); `verify` decides verdicts and is not among the keys
  whose override is printed; `max_comments: 0` means no limit; `CITE_DEBUG=off` turns
  debugging on; a malformed `--capture-max-bytes` skips the variable too.

## 5. Proofs

TLAPS proves, for all constants that satisfy the named assumptions, every invariant
and action property of `ReviewPass`, `Completion`, `CheckRun`, `Conversation`,
`PullRequest` and `Decisions` but one (`ReplayIsQuiet`).

* `ReviewPass_proofs`: `TypeCorrect`, `OneOutcomeEach` (`SettledOnce`),
  `FailsClosed` (`PassIsCovered`), `AnswersRecorded` (`AnswerIsRecorded`) and
  `Refinement` (`KeepsPromise`).  The inductive invariant ties a file's record to
  the stage it is in: nothing is recorded while a file waits or is with a worker,
  except the cut of a file that queues all the same; queue, wave and settled
  files are disjoint; `finalized` is the set of files with a record; an answer is
  kept from the moment it parses to the moment it is recorded.  The pass is then
  counted: `Decide` compares counts, so `FailsClosed` needs that a complete count
  forces every file to have an approved state, which is arithmetic on
  cardinalities and is where a doubly recorded file matters.
  Three more invariants speak of calls.  `NotGivenUpEarly` (`GivenUpOnlyWhenSpent`)
  rests on `SpentInv`: no budget is refilled (`BudgetsShrink`), and while the pass
  dispatches, a file without a record is queued or in the wave, so that a file left over
  at the end was left over by a cancellation.  `BoundedConcurrency` (`CallsInFlight`)
  rests on `FlightInv`: until a file has settled the wave has one file, and triage has no
  call outside its phase.  `CallsPaidFor`
  (`CallsAccounted`) rests on `AccountInv`, a balance between the calls made and what
  paid for them.  A file owes its first review until it starts and one verification
  for each claim it still holds, so the balance is a sum over files, and each action
  moves one term of it.
* `Completion_proofs`: `SpentBeforeFailing` (`NotGivenUpEarly`),
  `FullBudgetBeforeOverflow` (`OverflowHadTheFullBudget`) and `CompletionIsBounded`,
  that every step of a completion is one of `BoundedCall` or none.  The invariant
  follows an error from the reply to the caller: `ReplyClass` shows that every error
  is of one class, that only a typed one is terminal, and that a typed one that is not
  is among those another model is asked about; a doomed walk can only end for want of
  time or of a run; a chain stops early only for an error no other model would be
  asked about.  The chain itself is left arbitrary there, so the three hold of any.
  The others need the chain to be one that `NewModelClient` builds, from settings that
  `SettingsAssumption` types: `CredentialsStay` (`CredentialFollowsEndpoint`) is an
  induction along the fold over the references, which adds a leg only if its
  endpoint's key is its own and no earlier leg asks the same; `WellTyped` (`TypeOK`)
  needs what a reply may hold and that a chain has legs.  `BoundedWaits`
  (`WaitsAreBounded`) needs that a doubled delay stays between its base and its maximum;
  `BoundedSpend` (`SpendBounded`) that a walk that has reached a leg has been granted no
  more than the legs before it cost, and starts at nothing with each attempt.
* `CheckRun_proofs`: `CheckTypeCorrect`, `GreenEarned`, `BlocksStand`.  The
  inductive invariant follows each conclusion to its writer: a review's check run
  is on the head that review read, the reaper and the bypass hold check runs of
  the commit they looked at, a success is a pass or a bypass.  `BlocksStand`
  assumes that a tool failure blocks (the default); without it the property is
  false.
* `Conversation_proofs`, for any finite set of fingerprints, any expiry and window, any
  number of jobs and events: `MemoryIsTyped` (`TypeOK`), `LedgerTellsTheTruth`
  (`LedgerIsTrue`), `SilenceHasACause` (`SuppressedForCause`), `NothingReadIsLost`
  (`KeepsWhatItRead`), `LogIsTrue` (`LinesAreUses`), `IssuesAreJustified`
  (`IssuesTraceToTheLog`).  People may write logs of their own in both.  `LogInv` says
  what a bypass job may hold between its read of the log and its write: of the lines that
  Cite wrote, those of jobs that are done, its own not among them, and others only when
  people have commented under the marker, so that a write over somebody else's may lose a
  line and cannot invent or double one.  `IssueInv` adds what a re-review read.  `MemoryInv` says of every comment and of every job's memory
  that its entries are attested by the threads, and of whatever a review may read that a
  signals job recorded it; that is inductive because people only ever add to a thread
  (`Grown`): what attests an entry once does so for ever, however late it is written.
  It also has, about any ledger, expiry and time, without a state: `PruneKeepsAnswers`
  and `PruneEarlyOrLate` (dropping what expired is invisible, so it does not matter that
  nobody does), `DismissalLasts` (to the tick), `ResolutionIsOfItsBlob`, `WritesOnlyAdd`.
* `PullRequest_proofs`, for any reviewers, files, findings and similarity, and any
  number of runs: `RoundsTyped` (`TypeOK`), `NothingResolvedWithoutCause`
  (`ResolvedForCause`), `ThreadsAreNotDuplicated` (`NoDuplicate`),
  `ThreadsTellTheFindings` (`ThreadsAgree`).  A plan is the outcome of three greedy
  passes, each a fold; `MatchFacts` says what they have in common: a thread answers one
  finding at most, an exact match goes first, and a finding is left to be posted only if
  no thread of its fingerprint is.  `RoundInv` holds a run's memory together with what
  justifies each resolution its plan lists, which must survive whatever others do
  between reconciling and resolving.  `PeakInv` counts the comments that a plan has yet
  to post with the threads that are open, because a review is posted in one call or
  comment by comment and may die in between.  `AgreeInv` is what an undisturbed run
  knows between its fetch and its last resolution.  `NothingResolvedWithoutCause` has
  the hypothesis that no fetch of a content fails; without it the run `unfetched` shows
  the property false.  `MaxCommits` is at least one, since a pull request has a head.
* `Decisions_proofs`, about the configuration: for any files, lists of any length, and
  calls, `NearestLayerWins` (`NearestWins`), `EveryOverrideIsSaid` (`OverridesAreSaid`),
  `AcceptedCanRun` (`AcceptedIsSound`).  The fold over a list is followed file by file
  (`IsLoading`, `LoadingExists`), and each property has a statement of its own about a
  walk that is not over: `FromLast` (every key has the value of the last file so far
  that says it, and is attributed to that file), `Told` (what is written otherwise than
  the first file's own value has a line of the log, which is inductive because a line is
  written whenever what is written changes), `Noted` (the schema has been asked about every file).  They
  rest on `ConfigurationAssumption`: what the parser makes of a file (numbers where a
  number is asked for, model entries in a list) and the built-in numbers (the built-in
  comment cap is within the bound, `config.go:25`).  Without a state, for any trees:
  `LayerKeepsAttribution`, and `UnpinnedReviewHasTime` for any
  numbers in the built-in table.
* `Findings_proofs`, about changes, reviews and publications: changes of any length, any
  context around them, findings in any number.  Each loop of the code is a fold that is
  followed as a walk, and each property has a statement about a walk that is not over.
  The questions themselves keep little: `AskedInv` (a change is one of `Changes`, a
  review repeats one finding and one answer) and `PublicationInv` (no two findings of a
  run have one fingerprint, carried ones exist on GitHub only) are the inductive
  invariants, typed by `ChangesAssumption`, `ReviewsAssumption`, `PublicationAssumption`.
  * `ParserTellsTheChange` (`DiffTellsTheChange`).  `HasRead` says what the parser holds
    after the lines of some edits: one file, the hunks opened so far, every shown edit
    before them in it with its numbers, and counters that stand where the next edit's
    line is; the piece of text after the last newline comes after the walk.  A patch is a
    diff without its header, trimmed or not: the walk is the same one and ends at the last
    shown line (`FilePatchParsed`), and `LinesFound` turns its numbers into the set that
    comments go on.  It supposes `NoHeaderLike`, that no removed line begins with `-- ` and no
    added one with `++ `; without it the run `diff_header` shows the property false.
  * `BlockedIsProved` (`BlocksOnlyWhenProved`).  `Judges` follows the findings of an
    answer; what is in the result was put there for its own finding.  That an absence is
    true of the file is read off the lines the code looks at, so it supposes that lines
    show what they do (`Shows`: what a line defines, calls or mentions has the form the
    code searches for), and that the verifier is on (`Verifies`), as it is by default.
    That its quotes are in the file is the evidence of `WhatIsPublishedStands`; that the
    file does not contradict its prose is `ProseIsFound`, with prose that asserts what
    `ProseAssumption` types.  Prose about a name that is not declared is not covered
    (`UndeclaredBlocksNothing`, section 4).
  * `ProvedIsBlocked` (`ProvedBlocks`) is the converse: what is shown, plainly, passes
    every reason for a drop.  It supposes that what looks like a definition or a call is
    one (`Does`); with `Shell` the looks deceive (`DefinitionIsNoCall`, section 4).
  * `WhatIsPublishedStands` (`PublishedStands`), for lines, quotes and diffs of any
    length.  That a quote which is accepted is there: each step of the normaliser keeps
    what is visible of a text (`ExpandKeeps`, `TrimRightKeeps`, `DedentedKeeps`,
    `NormKeeps`; it takes away and puts in words that do not show), so a normalised
    line that includes a normalised quote does so as it is read (`NormalizedIncludes`,
    `IncludesVisible`), and the greedy walk over the segments of an elided quote leaves
    each on a later line than the one before (`InOrder`).  That a claim is not
    contradicted rests on `Shows`, as above.  That a finding has a place in the diff:
    the last line of an anchor in a hunk, a removed declaration, the nearest change, or
    a line of another file's diff (`PostedHasAPlace`), each of which the parser made of
    a line of the change (`NoHeaderLike`): reviews are of the patches GitHub gives.
  * `NothingPublishedIsLost` (`NothingIsLost`).  Ranking is a permutation
    (`FindingsAreOrdered`: the code's comparison is a strict order of keys), `BudgetChooses`
    says that each ranked finding so far is chosen once or among the drops, never both,
    and `CanAndCannot`, `OnceOrListed` that a chosen one is a comment or in the body.  It
    supposes that a finding's place was found in the diff (`WellPlaced`, which
    `WhatIsPublishedStands` has of the findings of a review) and that its text quotes no evidence marker (`OwnsItsEvidence`;
    one that does is listed under another's name, section 4).
  * `BlockingIsShown` (`HeldByWhatIsShown`).  A block comes first in the ranking
    (`BlockingComesFirst`), and no budget has no room at all (`RoomForOne`).

  The instance of the run satisfies all of these hypotheses: `MCDecisions` states them as
  the assumption `Recognisable`, which TLC evaluates.
* `Induction_proofs` has no theorem of the system.  The library's induction takes an
  operator, which the installed provers cannot instantiate; stated for sets and for
  functions instead (`SubsetInduction`), it applies to one fold at a time.  A fold of the
  community modules is a `CHOOSE` of a recursive function, so the lemmas show first that
  the function exists (`FoldExists`) and then what holds of it: sums over a set, walks
  along a sequence.

Model-checked only:

* `ReplayIsQuiet`.  It is not true of every `Similarity`: the greedy passes break ties
  by the order of the findings (`reconcile.go:213`), and findings come in the order the
  workers end (`reviewer.go:1180`).  Say the model takes *x* for *z*, *x* for *w* and *y*
  for *z*, and there are threads of *z* and *w*.  In the order *y*, *x* both are matched
  and nothing is posted; on a replay in the order *x*, *y* the first takes the thread of
  *z*, and *y* is posted, against the promise of `reconcile.go:41`.  The instance has one
  fingerprint on two paths and two that only a model can tell to be the same, and the
  property holds there; a hypothesis under which it always holds would say little more
  than that nothing is alike.
* Liveness (`Terminates`, `PendingHeals`, the fair half of `IsABoundedCall`): the provers
  have no rule for ENABLED and fairness here.

## 6. What the models leave out

* What a file, a prompt or an answer says.  In `ReviewPass` an answer parses or not,
  declares an outcome, and has findings the verifier is asked about; a candidate
  blocks or not; `Decisions` has what findings say, and no calls.  The verifier is
  always on.
* The order of files within a tier of the queue: any order.
* In `Completion`: prompts, schemas, usage, the wire capture, output tokens beyond the
  cap.  The bucket is one kind of call's.
* In `CheckRun`: other pull requests, titles and summaries, the removal of a label, more
  than one label.  A killed process forgets its verdict.
  The reaper considers a pull request only when it has been quiet for the stale
  time at the moment of listing, as the code does.
* In `PullRequest`: report mode and dry runs, replies, minimised comments, the
  context comment, threads that are not Cite's, the comment budget, whether a
  finding blocks.  Ledger entries are never read there (see `sticky_lost`), so none are
  made.  The answer to one pair of claims is the same throughout a run.
* In `Conversation`: comments that their authors edit or delete, more than one flagged file, the steps in which a review posts and
  resolves, the check run, comments that fail to be listed, the second half of a
  re-review (the model's answers are any subset of what the file has).
* In `Decisions`: the tables of phrases, keywords and languages have a member or two of
  each kind; quoted and escaped paths, binary patches, copies, a similarity other
  than 50 (a field beside the letter; the code writes them as one word, `R050`), the
  reviews of a local diff (the phantom line is in the parser's questions only), a duration
  written in two ways ("60s" and "1m" are two renderings and one value), `max_tokens` of a provider that
  is not declared; one setting of each kind (string, boolean with two flags, boolean
  with one, list, byte count) for the thirty there are.
* Wire capture, cross references, the context pass, canary, soak, metrics and cost hold
  no state a verdict, a comment or a ledger depends on: they observe, render or
  measure.  Instruction files are text found by directory and put into prompts.  YAML,
  JSON schema, Markdown and glob parsing are text processing.

## 7. Plan

1. Proofs: `ReplayIsQuiet` where no two fingerprints are alike.
2. Two flagged files in `Conversation`, so that one ledger serves both.
3. The precedence of instruction files as operators of `Decisions`.
