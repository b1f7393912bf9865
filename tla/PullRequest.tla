---------------------------- MODULE PullRequest ----------------------------
(***************************************************************************)
(* The rounds of review on one pull request: reviewPR of cmd/cite with its *)
(* effects on GitHub other than the check run (see CheckRun).              *)
(*                                                                         *)
(* A run reads the head, lists the files, reads the sticky comment, has    *)
(* the files reviewed, fetches the review threads and reconciles, posts a  *)
(* review, resolves obsolete threads one by one and writes the sticky      *)
(* comment.  Between any two of these calls the author may push, a person  *)
(* may resolve a thread, and the job may die.  A reviewer (an identity)    *)
(* has one run at a time; reviewers share the threads, not the sticky.     *)
(*                                                                         *)
(* The content of a file is the set of findings (fingerprints) whose       *)
(* quoted span it has; only files of the pull request's diff are in code.  *)
(* Which findings a review raises, which files fail, and what the model    *)
(* calls the same claim are free choices.  No time passes; dismissals and  *)
(* the other writers of the sticky comment are the subject of Conversation.*)
(***************************************************************************)
EXTENDS Reconcile, Delta

CONSTANTS
  Reviewers,    \* identities of Cite at work on the pull request
  Paths, Fps,   \* files, fingerprints
  Claims,       \* the findings there can be: [fp, path, at]
  MergeBases,   \* what the compare API may give as merge base
  ThreadsPage,  \* threads in the one page that is fetched (100)
  FetchFails,   \* whether fetching a file's content may fail
  MaxFindings,  \* bound: findings of one run
  MaxRuns,      \* bound: runs of one reviewer
  MaxCommits    \* bound: commits on the pull request

ASSUME PullRequestAssumption ==
  /\ Claims \subseteq [fp : Fps, path : Paths, at : Paths \cup {Body}]
  /\ Body \notin Paths
  /\ Similarity \in [Fps \X Fps -> 0..100]
  /\ PathOrder \in [Paths -> Nat]
  /\ FetchFails \in BOOLEAN
  /\ None \notin Nat /\ None \notin MergeBases
  /\ {ThreadsPage, MaxFindings, MaxRuns} \subseteq Nat /\ MaxCommits \in Nat \ {0}

VARIABLES
  code,      \* path -> content, at the head
  tip,       \* the number of the head commit
  threads,   \* the review threads, oldest first: [fp, path, about, by, poster]
  sticky,    \* reviewer -> body of its sticky comment (<<>>: none yet)
  run,       \* reviewer -> its run
  runs,      \* reviewer -> runs started
  peak,      \* fp -> the most findings of it one round raised  (for the properties)
  last       \* the last round that was posted in full          (for the properties)

vars == <<code, tip, threads, sticky, run, runs, peak, last>>

Nobody == "nobody"
Cite   == "cite"
Person == "person"

Contents(p) == SUBSET {c.fp : c \in {d \in Claims : d.path = p}}
Codes == {f \in UNION {[S -> SUBSET Fps] : S \in SUBSET Paths} :
            \A p \in DOMAIN f : f[p] \in Contents(p)}

Idle == [pc |-> "idle"]

CountOf(found, fp) == Cardinality({i \in DOMAIN found : found[i].fp = fp})

\* Two runs' findings are the same up to the order the workers left them in.
SameFindings(found, other) ==
  \A c \in Claims : Cardinality({i \in DOMAIN found : found[i] = c})
                  = Cardinality({i \in DOMAIN other : other[i] = c})

Init ==
  /\ code \in Codes
  /\ tip = 1
  /\ threads = <<>>
  /\ sticky = [r \in Reviewers |-> <<>>]
  /\ run = [r \in Reviewers |-> Idle]
  /\ runs = [r \in Reviewers |-> 0]
  /\ peak = [fp \in Fps |-> 0]
  /\ last = None

-----------------------------------------------------------------------------
(* The steps of a run. *)

\* GetPR: the head this run is about.
GetPR(r) ==
  /\ run[r].pc = "idle"
  /\ runs[r] < MaxRuns
  /\ runs' = [runs EXCEPT ![r] = @ + 1]
  /\ run' = [run EXCEPT ![r] = [pc |-> "opened", tip |-> tip, head |-> code]]
  /\ UNCHANGED <<code, tip, threads, sticky, peak, last>>

\* The files (at the head of the moment) and their blobs, the merge base, and
\* the contents at the head read before; a content that cannot be fetched is
\* left out.
ListFiles(r) ==
  /\ run[r].pc = "opened"
  /\ LET there == DOMAIN code \cap DOMAIN run[r].head
     IN \E base \in MergeBases, post \in SUBSET there :
          /\ FetchFails \/ post = there
          /\ run' = [run EXCEPT ![r] =
                [pc |-> "listed", tip |-> @.tip, head |-> @.head, listed |-> code,
                 base |-> base, post |-> post]]
  /\ UNCHANGED <<code, tip, threads, sticky, runs, peak, last>>

\* The state of an earlier run, and the files it lets this run skip.
ReadState(r) ==
  /\ run[r].pc = "listed"
  /\ LET prev == ReadSticky(sticky[r])
     IN \E status \in Statuses :
          /\ run[r].tip = prev.head => status = "identical"
          /\ run' = [run EXCEPT ![r] =
                [pc |-> "read", tip |-> @.tip, head |-> @.head, listed |-> @.listed,
                 base |-> @.base, post |-> @.post, prev |-> prev,
                 delta |-> DeltaBasisHolds(prev, @.tip, @.base, status),
                 unchanged |-> IF DeltaBasisHolds(prev, @.tip, @.base, status)
                               THEN UnchangedFiles(@.listed, prev) ELSE {}]]
  /\ UNCHANGED <<code, tip, threads, sticky, runs, peak, last>>

\* The findings a completed review of the files may hold: a finding quotes the
\* content it was given.
Raisable(r, reviewed) ==
  {c \in Claims : c.path \in reviewed /\ c.fp \in run[r].head[c.path]}

\* Files whose outcome is "reviewed".
Finished(r, reviewed) == reviewed

\* reviewer.Run, and the earlier findings of the files it did not review.  A
\* file without content errors; so may any other.
RunReview(r) ==
  /\ run[r].pc = "read"
  /\ \E reviewed \in SUBSET (run[r].post \ run[r].unchanged) :
       \E n \in 0..MaxFindings :
         \E found \in [1..n -> Raisable(r, reviewed)] :
           run' = [run EXCEPT ![r] =
             [pc |-> "reviewed", tip |-> @.tip, head |-> @.head, listed |-> @.listed,
              base |-> @.base, post |-> @.post, prev |-> @.prev,
              unchanged |-> @.unchanged, reviewed |-> Finished(r, reviewed),
              found |-> IF @.delta
                        THEN CarryIntoRecord(found, @.prev,
                               FilesToReview(@.prev.shas, @.listed), DOMAIN @.listed)
                        ELSE found]]
  /\ UNCHANGED <<code, tip, threads, sticky, runs, peak, last>>

\* threadsFromGitHub: one page of threads; a thread anyone resolved counts as
\* resolved by a person.
LiveThreads ==
  [j \in 1..(IF Len(threads) < ThreadsPage THEN Len(threads) ELSE ThreadsPage) |->
     [fp |-> threads[j].fp, path |-> threads[j].path, about |-> threads[j].about,
      resolved |-> threads[j].by # Nobody]]

\* spanGoneFor: a file that is not in the post-image is gone.
SpanGone(r, t) ==
  t.about \in run[r].post => t.fp \notin run[r].head[t.about]

\* Threads are fetched, then matched.
ReconcileThreads(r) ==
  /\ run[r].pc = "reviewed"
  /\ LET live  == LiveThreads
         found == run[r].found
         gone  == {j \in DOMAIN live : SpanGone(r, live[j])}
     IN \E same \in SUBSET Askable(found, live, gone) :
          LET opts == [gone      |-> gone,
                       fresh     |-> run[r].reviewed,
                       same      |-> same,
                       dismissed |-> {fp \in Fps : Active(run[r].prev.ledger, fp, 0)},
                       handled   |-> {}]
          IN run' = [run EXCEPT ![r] =
               [pc |-> "reconciled", tip |-> @.tip, head |-> @.head,
                listed |-> @.listed, base |-> @.base, post |-> @.post,
                prev |-> @.prev, unchanged |-> @.unchanged,
                reviewed |-> @.reviewed, found |-> @.found, same |-> same,
                plan |-> Plan(found, live, opts), calm |-> TRUE]]
  /\ peak' = [fp \in Fps |-> LET n == CountOf(run[r].found, fp)
                             IN IF n > peak[fp] THEN n ELSE peak[fp]]
  /\ UNCHANGED <<code, tip, threads, sticky, runs, last>>

\* The comments that anchor somewhere; the others go into the review's body.
Comments(plan) ==
  Those(plan.post, {i \in DOMAIN plan.post : plan.post[i].at # Body})

\* CreateReview on 422: the first half of the comments moves into the body and
\* the rest is tried again.
Landed(n) ==
  LET kept[k \in 0..n] == {k} \cup (IF k = 0 THEN {} ELSE kept[k - (IF k = 1 THEN 1 ELSE k \div 2)])
  IN kept[n]

\* The round as the next one may find it again.
Round(r) == [by |-> r, tip |-> run[r].tip, listed |-> run[r].listed, post |-> run[r].post,
             reviewed |-> run[r].reviewed, found |-> run[r].found, same |-> run[r].same]

\* A step of r leaves a round that is its own as it was.
Undisturbed(r) == IF last # None /\ last.by = r THEN last ELSE None

Posted(r, comments) ==
  [i \in DOMAIN comments |-> [fp |-> comments[i].fp, path |-> comments[i].at,
                              about |-> comments[i].path, by |-> Nobody, poster |-> r]]

\* Something else happened to the threads: no run can count on what it saw.
Stirred(rs) == [q \in Reviewers |-> IF rs[q].pc \in {"reconciled", "posted"}
                                    THEN [rs[q] EXCEPT !.calm = FALSE] ELSE rs[q]]

\* CreateReview: one atomic call for all comments that land.
PublishReview(r) ==
  /\ run[r].pc = "reconciled"
  /\ LET comments == Comments(run[r].plan)
     IN \E n \in Landed(Len(comments)) :
          /\ threads' = threads \o
               Posted(r, SubSeq(comments, Len(comments) - n + 1, Len(comments)))
          /\ run' = [q \in Reviewers |->
               IF q = r THEN [run[r] EXCEPT !.pc = "posted", !.calm = @ /\ n = Len(comments)]
               ELSE IF n > 0 THEN Stirred(run)[q] ELSE run[q]]
          /\ last' = IF run[r].calm /\ n = Len(comments) THEN Round(r) ELSE None
  /\ UNCHANGED <<code, tip, sticky, runs, peak>>

\* resolveReviewThread on the next obsolete thread; a failure is logged and
\* the thread stays.
ResolveThread(r) ==
  /\ run[r].pc = "posted"
  /\ run[r].plan.resolve # {}
  /\ LET j == Least(run[r].plan.resolve)
         rest == [run EXCEPT ![r].plan.resolve = @ \ {j}]
     IN \/ /\ threads' = IF threads[j].by = Nobody
                         THEN [threads EXCEPT ![j].by = Cite] ELSE threads
           /\ run' = [q \in Reviewers |-> IF q = r THEN rest[q] ELSE Stirred(run)[q]]
        \/ /\ run' = [rest EXCEPT ![r].calm = FALSE]
           /\ UNCHANGED threads
  /\ last' = Undisturbed(r)
  /\ UNCHANGED <<code, tip, sticky, runs, peak>>

\* What the sticky comment records of a finding has no anchor.
Unanchored(found) == [i \in DOMAIN found |-> [found[i] EXCEPT !.at = Body]]

\* The state the next run is to find.
NextState(r) ==
  [safe     |-> TRUE,
   head     |-> run[r].tip,
   base     |-> run[r].base,
   shas     |-> CompletedSHAs(run[r].reviewed \cup (run[r].unchanged \cap run[r].post),
                              run[r].listed),
   findings |-> Unanchored(StandingFindings(run[r].found, run[r].plan)),
   ledger   |-> run[r].prev.ledger,
   replies  |-> <<>>]

\* writeSticky ends the run; a failed write is a warning.
WriteSticky(r) ==
  /\ run[r].pc = "posted"
  /\ run[r].plan.resolve = {}
  /\ \/ sticky' = [sticky EXCEPT ![r] = StickyBody(NextState(r))]
     \/ UNCHANGED sticky
  /\ run' = [run EXCEPT ![r] = Idle]
  /\ UNCHANGED <<code, tip, threads, runs, peak, last>>

\* A call of the run fails and ends it, or its job is killed or canceled.
Die(r) ==
  /\ run[r].pc # "idle"
  /\ run' = [run EXCEPT ![r] = Idle]
  /\ UNCHANGED <<code, tip, threads, sticky, runs, peak, last>>

-----------------------------------------------------------------------------
(* The world around. *)

\* A person resolves a thread.
ResolveByHand ==
  /\ \E j \in DOMAIN threads :
       /\ threads[j].by = Nobody
       /\ threads' = [threads EXCEPT ![j].by = Person]
  /\ run' = Stirred(run)
  /\ last' = None
  /\ UNCHANGED <<code, tip, sticky, runs, peak>>

\* The author pushes.
Push ==
  /\ tip < MaxCommits
  /\ tip' = tip + 1
  /\ code' \in Codes \ {code}
  /\ UNCHANGED <<threads, sticky, run, runs, peak, last>>

Step(r) == GetPR(r) \/ ListFiles(r) \/ ReadState(r) \/ RunReview(r)
           \/ ReconcileThreads(r) \/ PublishReview(r) \/ ResolveThread(r)
           \/ WriteSticky(r)

Next == (\E r \in Reviewers : Step(r) \/ Die(r)) \/ ResolveByHand \/ Push

Spec == Init /\ [][Next]_vars

-----------------------------------------------------------------------------
(* Properties. *)

\* The values of the variables.
TypeOK ==
  /\ code \in Codes
  /\ tip \in 1..MaxCommits
  /\ threads \in Seq([fp : Fps, path : Paths, about : Paths,
                      by : {Nobody, Cite, Person}, poster : Reviewers])
  /\ runs \in [Reviewers -> 0..MaxRuns]
  /\ peak \in [Fps -> 0..MaxFindings]
  /\ DOMAIN run = Reviewers /\ DOMAIN sticky = Reviewers
  /\ \A r \in Reviewers :
       /\ run[r].pc \in {"idle", "opened", "listed", "read", "reviewed",
                         "reconciled", "posted"}
       /\ run[r].pc \in {"reconciled", "posted"} =>
            run[r].plan.resolve \subseteq DOMAIN threads

OpenThreads(fp, r) ==
  {j \in DOMAIN threads : /\ threads[j].fp = fp
                          /\ threads[j].by = Nobody
                          /\ threads[j].poster = r}

\* Findings have identity: over any number of rounds, pushes, lost runs and
\* threads resolved by hand, a reviewer never has more open threads under a
\* fingerprint than one round raised findings under it.  Holds as long as the
\* threads fit the one page that is fetched.
NoDuplicate ==
  Len(threads) <= ThreadsPage =>
    \A r \in Reviewers, fp \in Fps :
      Cardinality(OpenThreads(fp, r)) <= peak[fp]

\* No fingerprint was raised on two paths.
NoTwins(found) ==
  \A i, k \in DOMAIN found : found[i].fp = found[k].fp => found[i].path = found[k].path

\* Replaying the pull request posts no thread: a round that finds the head, the
\* files and the findings of the last posted one, with nobody having resolved a
\* thread since, plans no comment (the threads fitting their page).
Replays(r) ==
  /\ run[r].pc = "reconciled"
  /\ run[r].calm
  /\ Len(threads) <= ThreadsPage
  /\ last # None
  /\ last.tip = run[r].tip
  /\ last.listed = run[r].listed
  /\ last.post = run[r].post
  /\ last.reviewed = run[r].reviewed
  /\ last.same = run[r].same
  /\ SameFindings(last.found, run[r].found)

ReplayIsQuiet ==
  \A r \in Reviewers :
    Replays(r) /\ NoTwins(run[r].found) => Comments(run[r].plan) = <<>>

\* What justifies that the run r resolves thread j: the span is not in the
\* content of the head, or the file has left the pull request, or its review
\* completed; and every finding the run raised under the thread's fingerprint
\* is answered by another thread.
Cause(r, j) ==
  LET t == threads[j]
      content == run[r].head
  IN /\ \/ t.about \notin DOMAIN run[r].listed
        \/ t.about \notin DOMAIN content
        \/ t.fp \notin content[t.about]
        \/ t.path \in run[r].reviewed
     /\ \A i \in DOMAIN run[r].found :
          run[r].found[i].fp = t.fp => run[r].plan.match[i] \notin {0, j}

\* Cite resolves a thread on a verified basis only, and never the thread of a
\* finding it has just raised.
ResolvedForCause ==
  [][\A j \in DOMAIN threads :
       threads[j].by = Nobody /\ threads'[j].by = Cite =>
         \E r \in Reviewers : run[r].pc = "posted" /\ Cause(r, j)]_vars

\* A thread speaks for a finding: the same fingerprint, or one that is similar
\* or was called the same claim.
SpeaksFor(r, t, f) ==
  \/ t.fp = f.fp
  \/ Similarity[<<f.fp, t.fp>>] > FuzzyMatchThreshold
  \/ <<f.fp, t.fp>> \in run[r].same

\* A round that nothing disturbed leaves the threads in agreement with its
\* findings: each finding that anchors has a thread that speaks for it, open or
\* resolved with its span still there, and each open thread on a reviewed file
\* speaks for a finding.
ThreadsAgree ==
  \A r \in Reviewers :
    run[r].pc = "posted" /\ run[r].plan.resolve = {} /\ run[r].calm
    /\ Len(threads) <= ThreadsPage =>
      /\ \A i \in DOMAIN run[r].found :
           run[r].found[i].at # Body =>
             \E j \in DOMAIN threads :
               /\ SpeaksFor(r, threads[j], run[r].found[i])
               /\ threads[j].by = Nobody \/ ~SpanGone(r, threads[j])
      /\ \A j \in DOMAIN threads :
           threads[j].by = Nobody /\ threads[j].path \in run[r].reviewed =>
             \E i \in DOMAIN run[r].found :
               SpeaksFor(r, threads[j], run[r].found[i])

\* A file whose blob is the one a completed review recorded in the sticky
\* comment, at this head and on this merge base, is not reviewed again.
UnchangedIsSkipped ==
  \A r \in Reviewers :
    run[r].pc = "read" =>
      \A i \in DOMAIN sticky[r] :
        sticky[r][i].token = "<!-- cite-state=" =>
          LET state == sticky[r][i].state
          IN state.head = run[r].tip /\ state.base = run[r].base =>
               UnchangedFiles(run[r].listed, state) \subseteq run[r].unchanged
=============================================================================
