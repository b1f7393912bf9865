---------------------------- MODULE Conversation ----------------------------
(***************************************************************************)
(* The conversation of a pull request as the only memory of its jobs: the  *)
(* sticky comment, with the state and the ledger that reviews and signals  *)
(* jobs read early and rewrite late, and the bypass log, which the         *)
(* break-glass job extends and the scheduled re-review goes by.            *)
(*                                                                         *)
(* One file is flagged.  Its content is the set of fingerprints whose      *)
(* quoted span it has (None: deleted) and is its blob; Coarse gives the    *)
(* fingerprints that are the same but for the quote.  Time is in ticks.  A *)
(* comment is [marker, poster, body]: the body of the sticky comment is    *)
(* that of Delta, the body of the log a sequence of lines [at, use], those *)
(* that parse: use is the job of the bypass a line was written for, and 0  *)
(* in a line that somebody else wrote.                                     *)
(*                                                                         *)
(* Abstracted here and modelled elsewhere: the check run (CheckRun), the   *)
(* steps in which a review posts and resolves (PullRequest).               *)
(***************************************************************************)
EXTENDS Reconcile, Delta

CONSTANTS
  Fps, Coarse,
  Corrupt,      \* a ledger that does not parse
  Window,       \* look-back of the re-review, in ticks (-since)
  MaxEvents,    \* bound: jobs started and things people do
  MaxJobs       \* bound: jobs started

ASSUME ConversationAssumption ==
  /\ IsFiniteSet(Fps) /\ Coarse \in [Fps -> SUBSET Fps]
  /\ Similarity = [p \in Fps \X Fps |-> 0]
  /\ {LedgerExpiry, Window, MaxEvents, MaxJobs} \subseteq Nat

VARIABLES
  file,      \* the content of the flagged file at the head
  threads,   \* Cite's review threads: [fp, by, down, replies]
  comments,  \* the conversation, oldest first
  label,     \* the break-glass label is on
  merged,    \* when it was merged (None: not yet)
  issues,    \* issues filed: [fp, job]
  jobs,      \* the jobs, in the order they started
  clock, events,
  recorded,  \* entries any signals job has written    (for the properties)
  uses       \* when each bypass took effect           (for the properties)

vars == <<file, threads, comments, label, merged, issues, jobs, clock, events,
          recorded, uses>>
world == <<file, threads, label, merged, clock, events>>

Nobody == "nobody"
Cite   == "cite"
Path   == "file"

Association == [author   |-> "CONTRIBUTOR",
                member   |-> "MEMBER",
                newcomer |-> "FIRST_TIME_CONTRIBUTOR"]
People == DOMAIN Association

Contents == (SUBSET Fps) \cup {None}
Stands(fp, content) == content # None /\ fp \in content

-----------------------------------------------------------------------------
(* The comments. *)

Sticky == "cite-sticky"
Log    == "cite-bypass-log"

Newest(S) == IF S = {} THEN 0 ELSE CHOOSE i \in S : \A k \in S : k <= i

\* FindIssueComment, findStickyComment: the newest comment with the marker,
\* whoever wrote it.
FindIssueComment(marker) == Newest({i \in DOMAIN comments : comments[i].marker = marker})

\* FindTrustedIssueComment: the newest one by a bot or by someone with a role in
\* the repository who is not the author of the pull request.
FindTrustedIssueComment(marker) ==
  Newest({i \in DOMAIN comments :
            comments[i].marker = marker /\ comments[i].poster \in {Cite, "member"}})

\* UpsertIssueComment.
Upsert(marker, body) ==
  LET i == FindIssueComment(marker)
  IN IF i # 0 THEN [comments EXCEPT ![i].body = body]
     ELSE Append(comments, [marker |-> marker, poster |-> Cite, body |-> body])

readSticky ==
  LET i == FindTrustedIssueComment(Sticky)
  IN IF i = 0 THEN EmptyState ELSE ReadSticky(comments[i].body)

-----------------------------------------------------------------------------
(* Jobs. *)

Goto(j, job) == jobs' = [jobs EXCEPT ![j] = job]
At(j, pc) == jobs[j].pc = pc
Ended(j) == Goto(j, [kind |-> jobs[j].kind, pc |-> "done"])

Start(job) ==
  /\ Len(jobs) < MaxJobs
  /\ events < MaxEvents
  /\ events' = events + 1
  /\ jobs' = Append(jobs, job)
  /\ UNCHANGED <<file, threads, comments, label, merged, issues, clock,
                 recorded, uses>>

(* cite signals *)

\* GetPR and the review comments: the head, and the replies whose authors'
\* associations are known.
StartSignals ==
  Start([kind |-> "signals", pc |-> "opened", head |-> file,
         listed |-> [t \in DOMAIN threads |-> Len(threads[t].replies)]])

\* A mutant of LedgerOf: every job starts a ledger of its own.
NoLedgerOf(state) == {}

\* The ledger a signals job starts from: one that does not parse is empty.
LedgerOf(state) == IF state.ledger = Corrupt THEN {} ELSE state.ledger

\* A 👎 on a comment of Cite's dismisses its fingerprint.
Downvoted == {t \in DOMAIN threads : threads[t].down}
AddReactions(ledger, now) ==
  FoldLeftDomain(LAMBDA l, t : IF t \in Downvoted
                               THEN Add(l, threads[t].fp, "reaction", now) ELSE l,
                 ledger, threads)

\* gitBlobSHA of what was fetched: a file that is not there hashes as an empty one.
BlobOf(content) == IF content = None THEN {} ELSE content

\* signalDisposition.count: a resolved thread is recorded with the blob at the
\* head; it counts as fixed when its span is gone and else as dismissed.
Disposition(ledger, t, head, now) ==
  LET fp == threads[t].fp
      resolved == AddResolved(ledger, fp, Coarse[fp], BlobOf(head), now)
  IN IF threads[t].by = Nobody THEN ledger
     ELSE IF Stands(fp, head) THEN Add(resolved, fp, "thread-resolution", now)
     ELSE AddAcceptedFixed(resolved, fp, now)

\* The sticky comment, the reactions and the threads are read.
Walk(j) ==
  /\ At(j, "opened") /\ jobs[j].kind = "signals"
  /\ LET state  == readSticky
         start  == AddReactions(LedgerOf(state), clock)
         ledger == FoldLeftDomain(LAMBDA l, t : Disposition(l, t, jobs[j].head, clock),
                                  start, threads)
     IN Goto(j, [kind |-> "signals", pc |-> "walked", now |-> clock, saw |-> state,
                 listed |-> jobs[j].listed,
                 replies |-> [t \in DOMAIN threads |-> threads[t].replies],
                 verdicts |-> state.replies, ledger |-> ledger, news |->
                   \E t \in DOMAIN threads : threads[t].down \/ threads[t].by # Nobody])
  /\ UNCHANGED <<world, comments, issues, recorded, uses>>

\* The association of a reply's author, unless it came after the comments had
\* been listed.
AssociationOf(job, t, k) ==
  IF t \in DOMAIN job.listed /\ k <= job.listed[t]
  THEN Association[job.replies[t][k]] ELSE ""

\* Threads with replies nobody has classified: their fingerprint has no verdict.
Unclassified(job) ==
  {t \in DOMAIN job.replies : threads[t].fp \notin DOMAIN job.verdicts}

\* Classification takes replies in order: the first whose call succeeds decides
\* for the fingerprint, and a call that fails leaves it to the next one.  A
\* rejecting reply of someone who may dismiss adds a dismissal.
Classify(j) ==
  /\ At(j, "walked")
  /\ \E t \in Unclassified(jobs[j]) :
       \E k \in DOMAIN jobs[j].replies[t], verdict \in {"rejecting", "not-rejecting"} :
         LET fp   == threads[t].fp
             who  == jobs[j].replies[t][k]
             may  == CanDismiss(AssociationOf(jobs[j], t, k), who = "author")
             quiet == Active(jobs[j].ledger, fp, jobs[j].now)
         IN Goto(j, [jobs[j] EXCEPT
              !.verdicts = (fp :> verdict) @@ @,
              !.news = TRUE,
              !.ledger = IF verdict = "rejecting" /\ may /\ ~quiet
                         THEN Add(@, fp, who, jobs[j].now) ELSE @])
  /\ UNCHANGED <<world, comments, issues, recorded, uses>>

\* updateStickyLedger, first half: the state is read again.  A job with nothing
\* to record ends.
Reread(j) ==
  /\ At(j, "walked")
  /\ IF jobs[j].news
     THEN Goto(j, [kind |-> "signals", pc |-> "reread", saw |-> jobs[j].saw,
                   ledger |-> jobs[j].ledger,
                   state |-> [readSticky EXCEPT
                                !.ledger = jobs[j].ledger,
                                !.replies = IF jobs[j].verdicts # <<>>
                                            THEN jobs[j].verdicts ELSE @]])
     ELSE Ended(j)
  /\ UNCHANGED <<world, comments, issues, recorded, uses>>

\* Second half: the comment is written.
WriteLedger(j) ==
  /\ At(j, "reread")
  /\ comments' = Upsert(Sticky, StickyBody(jobs[j].state))
  /\ recorded' = recorded \cup jobs[j].ledger
  /\ Ended(j)
  /\ UNCHANGED <<world, issues, uses>>

(* cite review *)

\* GetPR, the listing with the blobs, the sticky comment.
StartReview ==
  Start([kind |-> "review", pc |-> "opened", head |-> file, saw |-> readSticky])

LiveThreads ==
  [t \in DOMAIN threads |-> [fp |-> threads[t].fp, path |-> Path, about |-> Path,
                             resolved |-> threads[t].by # Nobody]]

\* The ledger a review starts from: one that does not parse is rebuilt.
ReviewLedger(state) ==
  IF state.ledger = Corrupt THEN RebuildFromThreads(threads, clock) ELSE state.ledger

Finding(fp) == [fp |-> fp, path |-> Path, at |-> Path]

\* The file is reviewed, the threads are fetched and reconciled.
ReviewAndReconcile(j) ==
  /\ At(j, "opened") /\ jobs[j].kind = "review"
  /\ LET head   == jobs[j].head
         ledger == ReviewLedger(jobs[j].saw)
         gone   == {t \in DOMAIN threads : ~Stands(threads[t].fp, head)}
         opts(reviewed) ==
           [gone |-> gone, same |-> {}, fresh |-> reviewed,
            dismissed |-> {fp \in Fps : Active(ledger, fp, clock)},
            handled |-> {fp \in Fps : ResolvedActive(ledger, fp, Coarse[fp], head, clock)}]
     IN \E reviewed \in (IF head = None THEN {{}} ELSE {{}, {Path}}) :
          \E raised \in (IF reviewed = {} THEN {{}} ELSE SUBSET head) :
            \E found \in SetToSeqs({Finding(fp) : fp \in raised}) :
              Goto(j, [kind |-> "review", pc |-> "reconciled", head |-> head,
                       now |-> clock, saw |-> jobs[j].saw, ledger |-> ledger,
                       reviewed |-> reviewed, found |-> found,
                       plan |-> Plan(found, LiveThreads, opts(reviewed))])
  /\ UNCHANGED <<world, comments, issues, recorded, uses>>

\* CreateReview, then the obsolete threads are resolved, all but those for which
\* the call fails.
PublishReview(j) ==
  /\ At(j, "reconciled")
  /\ LET plan == jobs[j].plan
         posted == [i \in DOMAIN plan.post |->
                     [fp |-> plan.post[i].fp, by |-> Nobody, down |-> FALSE,
                      replies |-> <<>>]]
     IN \E closed \in SUBSET plan.resolve :
          threads' = [t \in DOMAIN threads |->
                       IF t \in closed /\ threads[t].by = Nobody
                       THEN [threads[t] EXCEPT !.by = Cite] ELSE threads[t]] \o posted
  /\ Goto(j, [kind |-> "review", pc |-> "published", saw |-> jobs[j].saw,
              ledger |-> jobs[j].ledger, reviewed |-> jobs[j].reviewed,
              head |-> jobs[j].head])
  /\ UNCHANGED <<file, comments, label, merged, issues, clock, events, recorded, uses>>

\* writeSticky: the state is built anew, with the ledger read at the start and
\* no verdicts on replies.
WriteSticky(j) ==
  /\ At(j, "published")
  /\ comments' = Upsert(Sticky, StickyBody(
       [EmptyState EXCEPT !.safe = TRUE, !.ledger = jobs[j].ledger,
          !.shas = IF jobs[j].reviewed = {} THEN <<>> ELSE Path :> jobs[j].head]))
  /\ Ended(j)
  /\ UNCHANGED <<world, issues, recorded, uses>>

(* cite bypass *)

\* The label is verified; the pending check is concluded or there is none.
StartBypass ==
  /\ label
  /\ Start([kind |-> "bypass", pc |-> "verified"])

Conclude(j) ==
  /\ At(j, "verified")
  /\ Goto(j, [kind |-> "bypass", pc |-> "concluded", line |-> [at |-> clock, use |-> j]])
  /\ uses' = [k \in DOMAIN uses \cup {j} |-> IF k = j THEN clock ELSE uses[k]]
  /\ UNCHANGED <<world, comments, issues, recorded>>

\* appendBypassLog: the log is read.
LinesOf(i) == IF i = 0 THEN <<>> ELSE comments[i].body

ReadLog(j) ==
  /\ At(j, "concluded")
  /\ Goto(j, [kind |-> "bypass", pc |-> "extending", line |-> jobs[j].line,
              saw |-> LinesOf(FindIssueComment(Log))])
  /\ UNCHANGED <<world, comments, issues, recorded, uses>>

\* A mutant of ExtendedLog: the line goes in once for the log and once for the run.
LoggedTwice(lines, line) == lines \o <<line, line>>

\* What was read is written with one more line.
ExtendedLog(lines, line) == Append(lines, line)

WriteLog(j) ==
  /\ At(j, "extending")
  /\ comments' = Upsert(Log, ExtendedLog(jobs[j].saw, jobs[j].line))
  /\ Ended(j)
  /\ UNCHANGED <<world, issues, recorded, uses>>

(* cite re-review *)

StartReReview ==
  Start([kind |-> "re-review", pc |-> "opened", cutoff |-> clock - Window])

\* ListRecentlyMerged: merged and not before the cutoff.
RecentlyMerged(cutoff) == merged # None /\ merged >= cutoff

\* A mutant of parseBypassLog: entries of any age.
WholeLog(lines, cutoff) == {i \in DOMAIN lines : TRUE}

\* parseBypassLog: the lines not before the cutoff.
parseBypassLog(lines, cutoff) == {i \in DOMAIN lines : lines[i].at >= cutoff}

Swept(j, read, ok, did) ==
  Goto(j, [kind |-> "re-review", pc |-> "swept", cutoff |-> jobs[j].cutoff,
           read |-> read, ok |-> ok, did |-> did])

\* The pull request is passed over, or reviewed again; reading the log or the
\* review may fail.
Sweep(j) ==
  /\ At(j, "opened") /\ jobs[j].kind = "re-review"
  /\ LET lines == IF RecentlyMerged(jobs[j].cutoff)
                  THEN LinesOf(FindIssueComment(Log)) ELSE <<>>
         due   == parseBypassLog(lines, jobs[j].cutoff) # {}
     IN \/ RecentlyMerged(jobs[j].cutoff) /\ Swept(j, lines, FALSE, FALSE)
        \/ ~due /\ Swept(j, lines, TRUE, FALSE)
        \/ /\ due
           /\ \E blocking \in SUBSET (IF file = None THEN {} ELSE file) :
                Goto(j, [kind |-> "re-review", pc |-> "filing", read |-> lines,
                         ok |-> TRUE, cutoff |-> jobs[j].cutoff, todo |-> blocking])
  /\ UNCHANGED <<world, comments, issues, recorded, uses>>

\* fileEscapedFinding: one issue for each blocking finding; a failing call is
\* counted and the next finding tried.
FileEscapedFinding(j) ==
  /\ At(j, "filing")
  /\ \/ /\ jobs[j].todo = {}
        /\ Swept(j, jobs[j].read, jobs[j].ok, TRUE)
        /\ UNCHANGED issues
     \/ \E fp \in jobs[j].todo, filed \in BOOLEAN :
          /\ Goto(j, [jobs[j] EXCEPT !.todo = @ \ {fp}, !.ok = @ /\ filed])
          /\ issues' = IF filed THEN Append(issues, [fp |-> fp, job |-> j]) ELSE issues
  /\ UNCHANGED <<world, comments, recorded, uses>>

\* A call fails, the write of the sticky comment among them, or the job is killed.
Die(j) ==
  /\ jobs[j].pc \notin {"done", "swept"}
  /\ Ended(j)
  /\ UNCHANGED <<world, comments, issues, recorded, uses>>

-----------------------------------------------------------------------------
(* What people do. *)

Event == events < MaxEvents /\ events' = events + 1

\* A 👎 on a comment of Cite's.
Downvote ==
  /\ Event
  /\ \E t \in DOMAIN threads \ Downvoted : threads' = [threads EXCEPT ![t].down = TRUE]
  /\ UNCHANGED <<file, comments, label, merged, issues, jobs, clock, recorded, uses>>

ResolveByHand ==
  /\ Event
  /\ \E t \in DOMAIN threads :
       threads[t].by = Nobody /\ threads' = [threads EXCEPT ![t].by = "person"]
  /\ UNCHANGED <<file, comments, label, merged, issues, jobs, clock, recorded, uses>>

\* Replies of bots are skipped wherever they are read, and left out here.
Reply ==
  /\ Event
  /\ \E t \in DOMAIN threads, who \in People :
       threads' = [threads EXCEPT ![t].replies = Append(@, who)]
  /\ UNCHANGED <<file, comments, label, merged, issues, jobs, clock, recorded, uses>>

\* Someone comments with the text of the sticky comment: as it is (a copy), or,
\* with a role in the repository, its state put first, or that with the ledger
\* broken.
RestateSticky ==
  /\ Event
  /\ LET i == FindIssueComment(Sticky)
         Post(who, body) == comments' = Append(comments,
                              [marker |-> Sticky, poster |-> who, body |-> body])
         StateFirst(state) == <<Opening(state), Terminator, [token |-> "<!-- cite-sticky"],
                                Terminator>>
     IN /\ i # 0
        /\ \/ Post("author", comments[i].body)
           \/ \E k \in DOMAIN comments[i].body :
                /\ comments[i].body[k].token = "<!-- cite-state="
                /\ LET state == comments[i].body[k].state
                   IN \/ Post("member", StateFirst(state))
                      \/ Post("member", StateFirst([state EXCEPT !.ledger = Corrupt]))
  /\ UNCHANGED <<file, threads, label, merged, issues, jobs, clock, recorded, uses>>

\* Someone, anyone, comments with the marker of the bypass log, whether there is a
\* log or not: in a quote-reply, whose lines "> ..." do not parse, or with a copy
\* of its lines, to which they may add one of their own, of any time.
RestateLog ==
  /\ Event
  /\ LET lines == LinesOf(FindIssueComment(Log))
         said  == {Append(lines, [at |-> t, use |-> 0]) : t \in 0 .. clock + 1}
     IN \E body \in {<<>>, lines} \cup said :
          comments' = Append(comments, [marker |-> Log, poster |-> "author", body |-> body])
  /\ UNCHANGED <<file, threads, label, merged, issues, jobs, clock, recorded, uses>>

Restate == RestateSticky \/ RestateLog

Push ==
  /\ Event
  /\ merged = None
  /\ file' \in Contents \ {file}
  /\ UNCHANGED <<threads, comments, label, merged, issues, jobs, clock, recorded, uses>>

PutLabel ==
  /\ Event
  /\ ~label /\ label' = TRUE
  /\ UNCHANGED <<file, threads, comments, merged, issues, jobs, clock, recorded, uses>>

Merge ==
  /\ Event
  /\ merged = None /\ merged' = clock
  /\ UNCHANGED <<file, threads, comments, label, issues, jobs, clock, recorded, uses>>

Tick ==
  /\ Event
  /\ clock' = clock + 1
  /\ UNCHANGED <<file, threads, comments, label, merged, issues, jobs, recorded, uses>>

\* A round of review has left a thread and its sticky comment behind.
Init ==
  /\ file \in Contents \ {None, {}}
  /\ \E fp \in file :
       threads = <<[fp |-> fp, by |-> Nobody, down |-> FALSE, replies |-> <<>>]>>
  /\ comments = <<[marker |-> Sticky, poster |-> Cite, body |-> StickyBody(
                     [EmptyState EXCEPT !.safe = TRUE, !.shas = Path :> file])]>>
  /\ label = FALSE /\ merged = None
  /\ issues = <<>> /\ jobs = <<>>
  /\ clock = 0 /\ events = 0
  /\ recorded = {} /\ uses = <<>>

Step(j) ==
  \/ Walk(j) \/ Classify(j) \/ Reread(j) \/ WriteLedger(j)
  \/ ReviewAndReconcile(j) \/ PublishReview(j) \/ WriteSticky(j)
  \/ Conclude(j) \/ ReadLog(j) \/ WriteLog(j)
  \/ Sweep(j) \/ FileEscapedFinding(j)

Next ==
  \/ StartSignals \/ StartReview \/ StartBypass \/ StartReReview
  \/ \E j \in DOMAIN jobs : Step(j) \/ Die(j)
  \/ Downvote \/ ResolveByHand \/ Reply \/ Restate \/ Push
  \/ PutLabel \/ Merge \/ Tick

Spec == Init /\ [][Next]_vars

-----------------------------------------------------------------------------
(* Properties. *)

Ledgers == {ReadSticky(comments[i].body).ledger :
              i \in {k \in DOMAIN comments : comments[k].marker = Sticky}}
           \cup {jobs[j].ledger : j \in {k \in DOMAIN jobs : "ledger" \in DOMAIN jobs[k]}}

\* The values of the variables.
TypeOK ==
  /\ file \in Contents
  /\ threads \in Seq([fp : Fps, by : {Nobody, Cite, "person"}, down : BOOLEAN,
                      replies : Seq(People)])
  /\ label \in BOOLEAN /\ merged \in 0..clock \cup {None}
  /\ \A L \in Ledgers \ {Corrupt} : \A e \in L :
       e.kind \in EntryKinds /\ e.fp \in Fps /\ e.at \in 0..clock
  /\ Len(jobs) <= MaxJobs /\ events <= MaxEvents
  /\ \A j \in DOMAIN jobs :
       jobs[j].kind \in {"signals", "review", "bypass", "re-review"}

\* What an entry says happened: a 👎, a resolved thread, or a reply of somebody
\* who may dismiss, on a thread of the entry's fingerprint.
Attested(e) ==
  \E t \in DOMAIN threads :
    /\ threads[t].fp = e.fp
    /\ \/ e.kind = "published"
       \/ e.kind = "dismissal" /\ e.author = "reaction" /\ threads[t].down
       \/ e.kind = "dismissal" /\ e.author = "thread-resolution" /\ threads[t].by # Nobody
       \/ /\ e.kind = "dismissal" /\ e.author = "member"
          /\ \E k \in DOMAIN threads[t].replies : threads[t].replies[k] = "member"
       \/ e.kind \in {"resolved", "accepted-and-fixed"} /\ threads[t].by # Nobody

\* The ledger tells no lies: whatever jobs overlap, die, are fed stale or broken
\* state, every entry anywhere is about something that happened, and nobody's
\* word counts who may not dismiss (the pull request's author, a first-timer, an
\* author whose association is not known).
LedgerIsTrue == \A L \in Ledgers \ {Corrupt} : \A e \in L : Attested(e)

\* A review keeps quiet about a finding for a recorded reason only: a dismissal
\* of it a signals job recorded within the expiry, or a resolution of it or of
\* its like, within the expiry, on the very blob under review.
SuppressedForCause ==
  \A j \in DOMAIN jobs :
    At(j, "reconciled") =>
      \A i \in jobs[j].plan.suppressed :
        \E e \in recorded :
          /\ jobs[j].now - e.at < LedgerExpiry
          /\ \/ e.kind = "dismissal" /\ e.fp = jobs[j].found[i].fp
             \/ /\ e.kind = "resolved" /\ e.blob = jobs[j].head
                /\ Coarse[e.fp] = Coarse[jobs[j].found[i].fp]

\* The comment a write goes to, and the state in it, readable or not.
Overwritten(marker) == comments[FindIssueComment(marker)].body
Held(body) == body[SelectInSeq(body, LAMBDA t : t.token = "<!-- cite-state=")].state

\* The job writes its comment in this step.
Writes(j) == jobs'[j].pc = "done" /\ comments' # comments

\* A write loses only what its job had not read: over a state or a log that is
\* still what the job read at its start, no entry and no line is dropped.
KeepsLedger(j) ==
  LET was == ReadSticky(Overwritten(Sticky))
  IN (was = jobs[j].saw /\ was.ledger # Corrupt) =>
       was.ledger \subseteq Held(Overwritten(Sticky)').ledger

KeepsLog(j) ==
  LET log == LinesOf(FindIssueComment(Log))
  IN log = jobs[j].saw => IsPrefix(log, Overwritten(Log)')

KeepsWhatItRead ==
  [][\A j \in DOMAIN jobs :
       /\ (At(j, "reread") \/ At(j, "published")) /\ Writes(j) => KeepsLedger(j)
       /\ At(j, "extending") /\ Writes(j) => KeepsLog(j)]_vars

\* People have put the marker of the log on comments of their own.
SaidByPeople(cs) == \E i \in DOMAIN cs : cs[i].marker = Log /\ cs[i].poster # Cite

\* The log enumerates: each line that a break-glass job wrote stands for a bypass
\* of its own that concluded at the time it says, and no two lines for the same,
\* however jobs overlap or die and whatever is copied; a line of somebody else's
\* is there only when people have written under the marker.
LinesAreUses ==
  LET lines == LinesOf(FindIssueComment(Log))
      logged == {i \in DOMAIN lines : lines[i].use # 0}
  IN /\ \A i \in logged : lines[i].use \in DOMAIN uses /\ uses[lines[i].use] = lines[i].at
     /\ \A i, k \in logged : lines[i].use = lines[k].use => i = k
     /\ logged # DOMAIN lines => SaidByPeople(comments)

\* The pull request was merged within the window, and somebody had bypassed the
\* check within it.
Bypassed(cutoff) == RecentlyMerged(cutoff) /\ \E u \in DOMAIN uses : uses[u] >= cutoff

\* A job that has not ended, so that its cutoff is known.
Knows(job) == "cutoff" \in DOMAIN jobs[job]

\* An issue traces to the log: the pull request was merged within the window of
\* the job that filed it, which filed no other for the finding; and somebody had
\* bypassed the check within that window, unless people have written a log.
IssuesTraceToTheLog ==
  /\ IsInjective(issues)
  /\ \A i \in DOMAIN issues :
       LET cutoff == jobs[issues[i].job].cutoff
       IN Knows(issues[i].job) =>
            \/ Bypassed(cutoff)
            \/ RecentlyMerged(cutoff) /\ SaidByPeople(comments)

\* "cite re-review re-reviews bypassed merge commits": an issue is filed for a
\* bypass, whatever people have commented.
IssuesTraceToBypasses ==
  \A i \in DOMAIN issues :
    Knows(issues[i].job) => Bypassed(jobs[issues[i].job].cutoff)

\* "Records a human adjudication": whoever resolved the threads a dismissal is
\* taken from, it was not Cite.
DismissalIsHuman ==
  \A e \in recorded :
    e.kind = "dismissal" /\ e.author = "thread-resolution" =>
      \E t \in DOMAIN threads : threads[t].fp = e.fp /\ threads[t].by = "person"

\* "A scheduled job re-reviews bypassed merge commits": a job that went well has
\* reviewed again the merge it listed and found in the bypass log.
MergeIsReReviewed ==
  \A j \in DOMAIN jobs :
    At(j, "swept") /\ jobs[j].ok /\ jobs[j].read # <<>> => jobs[j].did
=============================================================================
