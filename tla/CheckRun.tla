------------------------------ MODULE CheckRun ------------------------------
(***************************************************************************)
(* The required check of one pull request.  Four actors share it through   *)
(* the GitHub API: reviews (cmd/cite review, several at once: the workflow *)
(* of a push and a "@cite review" re-run), the author who pushes, whoever  *)
(* puts the bypass label on (cmd/cite bypass), and the scheduled reaper    *)
(* (cmd/cite reaper).  Every API call is a step of its own, so anything    *)
(* may happen between what an actor reads and what it writes.              *)
(*                                                                         *)
(* GitHub is external: a check run is created queued on a commit, a PATCH  *)
(* completes it whatever it was before, and a commit's gate is the newest  *)
(* check run on it.  Abstracted: the review itself (any verdict), what it  *)
(* publishes, titles and summaries, the bypass log, other pull requests.   *)
(***************************************************************************)
EXTENDS Gate

CONSTANTS
  Reviews,   \* runs of cite review
  MaxHead,   \* bound on pushes: heads are numbered 1..MaxHead
  Disabled,  \* the values the workflows pass as -disabled
  Neutral,   \* -tool-failure-blocks=false
  Faults     \* API calls may fail and jobs may be killed

ASSUME ReviewsAssumption == IsFiniteSet(Reviews) /\ "nobody" \notin Reviews
ASSUME HeadsAssumption == MaxHead \in Nat \ {0}
ASSUME FlagsAssumption == Disabled \subseteq BOOLEAN /\ {Neutral, Faults} \subseteq BOOLEAN

VARIABLES
  head,      \* the head commit of the pull request
  stale,     \* twenty minutes have passed since the last update of it
  created,   \* the check runs in order of creation, by the review they are of
  check,     \* review -> its check run
  pc,        \* review -> idle, started, queued, decided, published or gone
  at,        \* review -> the head it read
  verdict,   \* review -> what its gate decided
  reported,  \* reviews whose own conclusion was written
  sweep,     \* the reaper's current look at the pull request
  bypass     \* the run of cite bypass the label started

reviewVars == <<created, pc, at, verdict, reported>>
vars == <<head, stale, check, reviewVars, sweep, bypass>>

Heads   == 0..MaxHead  \* 0: none
Nobody  == "nobody"
NoSweep == [pc |-> "idle", head |-> 0, found |-> Nobody]
NoCheck == [head |-> 0, status |-> "none", conclusion |-> "none", by |-> "none"]

Completed(h, conclusion, by) ==
  [head |-> h, status |-> "completed", conclusion |-> conclusion, by |-> by]

Init ==
  /\ head = 1 /\ stale = FALSE
  /\ created = <<>>
  /\ check = [r \in Reviews |-> NoCheck]
  /\ pc = [r \in Reviews |-> "idle"]
  /\ at = [r \in Reviews |-> 0]
  /\ verdict = [r \in Reviews |-> "none"]
  /\ reported = {}
  /\ sweep = NoSweep
  /\ bypass = [pc |-> "idle", head |-> 0, found |-> Nobody]

\* The check runs on commit h, by their place in the order of creation, and
\* of a set of places the one the API lists first: the newest.
On(h) == {i \in DOMAIN created : check[created[i]].head = h}

Listed(places) ==
  LET latest == {i \in places : \A j \in places : j <= i}
  IN IF latest = {} THEN Nobody ELSE created[CHOOSE i \in latest : TRUE]

Newest(h) == Listed(On(h))

Queued(h) == {i \in On(h) : check[created[i]].status = "queued"}
-----------------------------------------------------------------------------
(* A review.                                                               *)

Goto(r, l) == pc' = [pc EXCEPT ![r] = l]

\* GetPR: the head is read once, here, and never again.
Start(r) ==
  /\ pc[r] = "idle"
  /\ at' = [at EXCEPT ![r] = head]
  /\ Goto(r, "started")
  /\ UNCHANGED <<head, stale, check, created, verdict, reported, sweep, bypass>>

\* Disabled, the run creates no check run, and so has none to conclude.
KillSwitch(r) ==
  /\ pc[r] = "started" /\ TRUE \in Disabled
  /\ Goto(r, "gone")
  /\ UNCHANGED <<head, stale, check, created, at, verdict, reported, sweep, bypass>>

\* A mutant of CreateCheck: the check goes to whatever the head is by now.
CreateCheckOnHead(r) ==
  /\ pc[r] = "started" /\ FALSE \in Disabled
  /\ check' = [check EXCEPT ![r] = [NoCheck EXCEPT !.head = head, !.status = "queued"]]
  /\ created' = Append(created, r)
  /\ Goto(r, "queued")
  /\ UNCHANGED <<head, stale, at, verdict, reported, sweep, bypass>>

CreateCheck(r) ==
  /\ pc[r] = "started" /\ FALSE \in Disabled
  /\ check' = [check EXCEPT ![r] = [NoCheck EXCEPT !.head = at[r], !.status = "queued"]]
  /\ created' = Append(created, r)
  /\ Goto(r, "queued")
  /\ UNCHANGED <<head, stale, at, verdict, reported, sweep, bypass>>

\* A mutant of Conclude: the verdict is written for the conclusion.
ConcludeVerdict(r, v) ==
  /\ check' = [check EXCEPT ![r] = Completed(@.head, v, "review")]
  /\ reported' = reported \cup {r}
  /\ Goto(r, "gone")

\* ConcludeCheckRun: the run ends with it, written or not.
Conclude(r, v) ==
  /\ \/ /\ check' = [check EXCEPT ![r] =
                       Completed(@.head, Conclusion(v, Neutral), "review")]
        /\ reported' = reported \cup {r}
     \/ Faults /\ UNCHANGED <<check, reported>>
  /\ Goto(r, "gone")

\* A broken configuration, no model client, no review threads: the run
\* concludes that it could not evaluate.
GiveUp(r) ==
  /\ pc[r] = "queued"
  /\ verdict' = [verdict EXCEPT ![r] = "COULD_NOT_EVALUATE"]
  /\ Conclude(r, "COULD_NOT_EVALUATE")
  /\ UNCHANGED <<head, stale, created, at, sweep, bypass>>

\* The review has run and the gate has decided.
Evaluate(r) ==
  /\ pc[r] = "queued"
  /\ \E v \in Verdicts : verdict' = [verdict EXCEPT ![r] = v]
  /\ Goto(r, "decided")
  /\ UNCHANGED <<head, stale, check, created, at, reported, sweep, bypass>>

\* The review is posted, threads resolved, the sticky comment written: all
\* of them update the pull request, and each may fail without ending the run.
Publish(r) ==
  /\ pc[r] = "decided"
  /\ Goto(r, "published")
  /\ stale' = FALSE \/ (Faults /\ UNCHANGED stale)
  /\ UNCHANGED <<head, check, created, at, verdict, reported, sweep, bypass>>

\* The review cannot be posted: the run concludes the verdict all the same.
PublishFails(r) ==
  /\ pc[r] = "decided" /\ Faults
  /\ Conclude(r, verdict[r])
  /\ UNCHANGED <<head, stale, created, at, verdict, sweep, bypass>>

Finish(r) ==
  /\ pc[r] = "published"
  /\ Conclude(r, verdict[r])
  /\ UNCHANGED <<head, stale, created, at, verdict, sweep, bypass>>

\* The run ends where it is: a failed call of those that return without
\* concluding, a runner that dies, a newer run that cancels this one.
Die(r) ==
  /\ pc[r] \notin {"idle", "gone"} /\ Faults
  /\ Goto(r, "gone")
  /\ verdict' = [verdict EXCEPT ![r] = "none"]
  /\ UNCHANGED <<head, stale, check, created, at, reported, sweep, bypass>>

Review(r) ==
  \/ Start(r) \/ KillSwitch(r) \/ CreateCheck(r) \/ GiveUp(r) \/ Evaluate(r)
  \/ Publish(r) \/ PublishFails(r) \/ Finish(r)
-----------------------------------------------------------------------------
(* The pull request.                                                       *)

Push ==
  /\ head < MaxHead
  /\ head' = head + 1
  /\ stale' = FALSE
  /\ UNCHANGED <<check, reviewVars, sweep, bypass>>

\* -stale-minutes go by without an update of the pull request.
Elapse ==
  /\ ~stale
  /\ stale' = TRUE
  /\ UNCHANGED <<head, check, reviewVars, sweep, bypass>>
-----------------------------------------------------------------------------
(* The reaper: ListOpenPRs, then HasTerminalCiteCheck on the head it saw,  *)
(* then a conclusion by the id it saw.                                     *)

\* A pull request updated lately is not looked at.
Sweep ==
  /\ sweep.pc = "idle" /\ stale
  /\ sweep' = [NoSweep EXCEPT !.pc = "listed", !.head = head]
  /\ UNCHANGED <<head, stale, check, reviewVars, bypass>>

\* A mutant of Stuck: any concluded check run of the head will do.
StuckAll(h) == IF Queued(h) = On(h) THEN Listed(On(h)) ELSE Nobody

\* HasTerminalCiteCheck looks at the first check run listed, and no further.
\* A head that has none has none to conclude either.
Stuck(h) == IF Newest(h) = Listed(Queued(h)) THEN Newest(h) ELSE Nobody

Look ==
  /\ sweep.pc = "listed"
  /\ sweep' = IF Stuck(sweep.head) # Nobody
              THEN [sweep EXCEPT !.pc = "stuck", !.found = Stuck(sweep.head)]
              ELSE NoSweep
  /\ UNCHANGED <<head, stale, check, reviewVars, bypass>>

\* A mutant of ReaperConclusion: a check that never reported is let through.
ReaperNeutral == "neutral"

ReaperConclusion == Conclusion("COULD_NOT_EVALUATE", Neutral)

Reap ==
  /\ sweep.pc = "stuck"
  /\ check' = [check EXCEPT ![sweep.found] =
                 Completed(@.head, ReaperConclusion, "reaper")]
  /\ sweep' = NoSweep
  /\ UNCHANGED <<head, stale, reviewVars, bypass>>

\* The sweep stops on its first error; the schedule starts another.
SweepFails ==
  /\ sweep.pc # "idle" /\ Faults
  /\ sweep' = NoSweep
  /\ UNCHANGED <<head, stale, check, reviewVars, bypass>>
-----------------------------------------------------------------------------
(* The bypass: GetPR when the label is on, then PendingCiteCheck and the   *)
(* conclusion.                                                             *)

Label ==
  /\ bypass.pc = "idle"
  /\ bypass' = [bypass EXCEPT !.pc = "read", !.head = head]
  /\ stale' = FALSE
  /\ UNCHANGED <<head, check, reviewVars, sweep>>

\* PendingCiteCheck looks further, for the first that is not completed.
\* Without one nothing is concluded.
PendingCiteCheck(h) == Listed(Queued(h))

BypassFinds ==
  /\ bypass.pc = "read"
  /\ bypass' = [bypass EXCEPT !.found = PendingCiteCheck(bypass.head),
                  !.pc = IF PendingCiteCheck(bypass.head) = Nobody
                         THEN "done" ELSE "found"]
  /\ UNCHANGED <<head, stale, check, reviewVars, sweep>>

BypassConcludes ==
  /\ bypass.pc = "found"
  /\ check' = [check EXCEPT ![bypass.found] = Completed(@.head, "success", "bypass")]
  /\ bypass' = [bypass EXCEPT !.pc = "done"]
  /\ UNCHANGED <<head, stale, reviewVars, sweep>>

BypassFails ==
  /\ bypass.pc \in {"read", "found"} /\ Faults
  /\ bypass' = [bypass EXCEPT !.pc = "done"]
  /\ UNCHANGED <<head, stale, check, reviewVars, sweep>>

Bypass == BypassFinds \/ BypassConcludes

Next ==
  \/ \E r \in Reviews : Review(r) \/ Die(r)
  \/ Push \/ Elapse
  \/ Sweep \/ Look \/ Reap \/ SweepFails
  \/ Label \/ Bypass \/ BypassFails

Spec == Init /\ [][Next]_vars
\* A started job takes its next step unless it is killed, time passes, the
\* reaper is on a schedule, and its calls do not fail for ever.
FairSpec ==
  /\ Spec
  /\ \A r \in Reviews : WF_vars(Review(r))
  /\ WF_vars(Elapse) /\ WF_vars(Sweep) /\ SF_vars(Look) /\ SF_vars(Reap)
  /\ WF_vars(Bypass)
-----------------------------------------------------------------------------
TypeOK ==
  /\ head \in 1..MaxHead /\ stale \in BOOLEAN
  /\ created \in Seq(Reviews)
  /\ check \in [Reviews -> [head : Heads, status : {"none", "queued", "completed"},
                            conclusion : Conclusions \cup {"none"},
                            by : {"none", "review", "reaper", "bypass"}]]
  /\ pc \in [Reviews -> {"idle", "started", "queued", "decided", "published", "gone"}]
  /\ at \in [Reviews -> Heads]
  /\ verdict \in [Reviews -> Verdicts \cup {"none"}]
  /\ reported \subseteq Reviews
  /\ sweep \in [pc : {"idle", "listed", "stuck"}, head : Heads,
                found : Reviews \cup {Nobody}]
  /\ bypass \in [pc : {"idle", "read", "found", "done"},
                 head : Heads, found : Reviews \cup {Nobody}]

\* What branch protection sees on commit h.
Reported(h) == Newest(h) # Nobody /\ check[Newest(h)].status = "completed"

GateOf(h) == IF Newest(h) = Nobody THEN "absent" ELSE check[Newest(h)].conclusion

\* A commit is green only when a review of that very commit passed it, or
\* the bypass was used on it: no push, re-run, reaper or publishing failure
\* in between carries a verdict from one commit to another.
GreenIsEarned ==
  \A h \in 1..MaxHead :
    GateOf(h) = "success" =>
      \/ \E r \in Reviews : at[r] = h /\ verdict[r] = "PASS" /\ r \in reported
      \/ bypass.head = h /\ bypass.found = Newest(h)

\* action.yml, tool_failure_blocks: a real finding always concludes failure.
\* Once a review has reported a block, nothing but the bypass turns its check
\* run into one that lets the merge through.
BlockStands ==
  \A r \in reported :
    verdict[r] = "FOUND" /\ check[r].by # "bypass" => check[r].conclusion = "failure"

\* A check run that was created does not stay pending on a head that stays:
\* its review concludes it, or the reaper does, whichever steps were lost.
PendingHeals ==
  \A h \in 1..MaxHead :
    (head = h /\ Newest(h) # Nobody) ~> (head # h \/ Reported(h))

\* PLAN.md, the kill switch: a green check, never no check; gate.go, PRState:
\* the reaper creates a check run where there is none.  Either way a head that
\* stays would have a concluded check run in the end.
HeadReports ==
  \A h \in 1..MaxHead :
    (head = h) ~> (head # h \/ Reported(h))

\* docs/troubleshooting.md, the bypass label: it unblocks a merge when the
\* gate is wrong.  A labelled head would then turn green.
BypassUnblocks ==
  \A h \in 1..MaxHead :
    (bypass.pc = "read" /\ bypass.head = h /\ GateOf(h) = "failure")
      ~> (GateOf(h) = "success")
=============================================================================
