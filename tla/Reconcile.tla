----------------------------- MODULE Reconcile -----------------------------
(***************************************************************************)
(* The reconciler of internal/publisher: which finding of a run is already *)
(* answered by which review thread of the pull request, which findings are *)
(* new, and which threads are obsolete.                                    *)
(*                                                                         *)
(* A finding is [fp, path, at]: its fingerprint, the file it is about and  *)
(* the file its comment is posted on (another one for a file without       *)
(* hunks, Body when it anchors nowhere).  A live thread is [fp, path,      *)
(* about, resolved]; its position in the sequence is the order of thread   *)
(* IDs.  What the code asks its caller comes in opts:                      *)
(*   gone       threads whose quoted span is not in the content read       *)
(*   fresh      files whose review completed in this run                   *)
(*   same       pairs <<finding, thread>> of fingerprints the model calls  *)
(*              the same claim (an error and a spent budget answer no)     *)
(*   dismissed  fingerprints with an active dismissal                      *)
(*   handled    fingerprints that are, or that resemble, one resolved on   *)
(*              the blob the file still has                                *)
(*                                                                         *)
(* The text of a finding is abstracted to Similarity, the percentage of    *)
(* tokens two fingerprints of one category share (0 across categories),    *)
(* and the alphabetical order of paths to PathOrder.                       *)
(***************************************************************************)
EXTENDS Integers, Sequences, FiniteSets, SequencesExt, Selection

CONSTANTS Similarity, PathOrder, Body

FuzzyMatchThreshold == 60

\* Threads that are still open, in the reconciler's eyes.
Open(live) == {j \in DOMAIN live : ~live[j].resolved}

Least(S) == CHOOSE j \in S : \A k \in S : j <= k

\* The first non-empty set of a list has the candidates; the lowest ID wins.
Pick(candidates) ==
  LET i == SelectInSeq(candidates, LAMBDA S : S # {})
  IN IF i = 0 THEN 0 ELSE Least(candidates[i])

\* A mutant of Free: a finding's position is marked as used, not its thread's.
Unmarked(match, S) == S \ {i \in DOMAIN match : match[i] # 0}

\* Each thread answers for one finding: those no finding has taken yet.
Free(match, S) == S \ {match[i] : i \in DOMAIN match}

TakeExact(found, live, match, i) ==
  LET equal == {j \in Free(match, Open(live)) : live[j].fp = found[i].fp}
  IN Pick(<<{j \in equal : live[j].path = found[i].path}, equal>>)

\* Pass 1: the same fingerprint, on the same path if there is one.
ExactPass(found, live, match) ==
  FoldLeftDomain(LAMBDA m, i : [m EXCEPT ![i] = TakeExact(found, live, m, i)],
                 match, found)

Similar(found, live, match) ==
  {p \in {i \in DOMAIN match : match[i] = 0} \X Free(match, Open(live)) :
     Similarity[<<found[p[1]].fp, live[p[2]].fp>>] > FuzzyMatchThreshold}

\* Pass 2: the most similar pair of what is left, as often as there is one; ties
\* go by the thread's path and ID.
FuzzyPass(found, live, match) ==
  LET score(p) == Similarity[<<found[p[1]].fp, live[p[2]].fp>>]
      place(p) == PathOrder[live[p[2]].path]
      before(p, q) ==
        \/ score(p) > score(q)
        \/ score(p) = score(q) /\ place(p) < place(q)
        \/ score(p) = score(q) /\ place(p) = place(q) /\ p[2] < q[2]
        \/ score(p) = score(q) /\ p[2] = q[2] /\ p[1] < q[1]
      firsts(m) == {p \in Similar(found, live, m) :
                      \A q \in Similar(found, live, m) : q = p \/ before(p, q)}
      take(m, i) == IF firsts(m) = {} THEN m
                    ELSE LET p == CHOOSE p \in firsts(m) : TRUE
                         IN  [m EXCEPT ![p[1]] = p[2]]
  IN FoldLeftDomain(take, match, found)

\* A mutant of TakeClaim: a resolved thread answers though its span is gone.
TakeAnyResolved(found, live, match, i, opts) ==
  LET here == {j \in Free(match, DOMAIN live) : live[j].path = found[i].path}
      restates(j) == \/ live[j].resolved /\ live[j].fp = found[i].fp
                     \/ <<found[i].fp, live[j].fp>> \in opts.same
  IN Pick(<<{j \in here : restates(j)}>>)

\* What the finding restates on its own path: an open thread, else a resolved
\* one whose span stands, by fingerprint before by claim.
TakeClaim(found, live, match, i, opts) ==
  LET here     == {j \in Free(match, DOMAIN live) : live[j].path = found[i].path}
      standing == {j \in here : live[j].resolved /\ j \notin opts.gone}
      restates(j) == <<found[i].fp, live[j].fp>> \in opts.same
  IN Pick(<<{j \in here : ~live[j].resolved /\ restates(j)},
            {j \in standing : live[j].fp = found[i].fp},
            {j \in standing : restates(j)}>>)

\* Pass 3: the same claim in other words.
ClaimPass(found, live, match, opts) ==
  FoldLeftDomain(LAMBDA m, i : IF m[i] # 0 THEN m ELSE
                   [m EXCEPT ![i] = TakeClaim(found, live, m, i, opts)],
                 match, found)

\* The matching before any model is asked.
TextMatch(found, live) ==
  FuzzyPass(found, live, ExactPass(found, live, [i \in DOMAIN found |-> 0]))

Match(found, live, opts) == ClaimPass(found, live, TextMatch(found, live), opts)

\* The pairs of fingerprints pass 3 may ask the model about.
Askable(found, live, gone) ==
  LET match == TextMatch(found, live)
      pairs == {p \in (DOMAIN found) \X Free(match, DOMAIN live) :
                  /\ match[p[1]] = 0
                  /\ found[p[1]].path = live[p[2]].path
                  /\ found[p[1]].fp # live[p[2]].fp
                  /\ live[p[2]].resolved => p[2] \notin gone}
  IN {<<found[p[1]].fp, live[p[2]].fp>> : p \in pairs}

\* A mutant of Obsolete: positions among the findings are taken for threads.
Leftover(live, match, opts) == {i \in DOMAIN match : match[i] = 0}

\* A mutant of Obsolete: a thread no finding answers is obsolete, whether or
\* not its file was reviewed.
Unanswered(live, match, opts) == Free(match, Open(live))

\* Threads to resolve: their span is gone, or their file was reviewed and
\* nothing was raised that they answer for.
Obsolete(live, match, opts) ==
  {j \in Free(match, Open(live)) :
     \/ j \in opts.gone
     \/ live[j].path \in opts.fresh /\ live[j].fp \notin opts.dismissed}

\* The plan: which thread answers which finding, which findings are answered
\* by a resolved thread, which are new, and the threads to resolve.
Plan(found, live, opts) ==
  LET match == Match(found, live, opts)
      new   == {i \in DOMAIN found : match[i] = 0}
      quiet == {i \in new : found[i].fp \in opts.dismissed \cup opts.handled}
  IN [match      |-> match,
      absorbed   |-> {i \in DOMAIN found : match[i] # 0 /\ live[match[i]].resolved},
      suppressed |-> quiet,
      post       |-> Those(found, new \ quiet),
      resolve    |-> Obsolete(live, match, opts)]
=============================================================================
