------------------------- MODULE Conversation_proofs -------------------------
(***************************************************************************)
(* The properties of Conversation, proved for every set of fingerprints,   *)
(* every expiry and window, and any number of jobs and events.             *)
(*                                                                         *)
(* Two inductive invariants.  LogInv says what a break-glass job holds of  *)
(* the bypass log between its read and its write; LinesAreUses follows     *)
(* from it, and IssueInv builds on it.  MemoryInv says what every comment  *)
(* and every job holds of the dismissal ledger: entries that the threads   *)
(* attest, and, for whatever a review may read, entries a signals job has  *)
(* recorded; TypeOK, LedgerIsTrue, SuppressedForCause and the action       *)
(* property KeepsWhatItRead follow.  That threads only gain (Grown) is     *)
(* what keeps an entry true once it was.                                   *)
(***************************************************************************)
EXTENDS Conversation, Induction_proofs, SequenceTheorems

-----------------------------------------------------------------------------
(* Sequences.                                                              *)

IsSeq(s) == s \in Seq(ToSet(s))

\* A sequence of whatever is a sequence of its elements.
LEMMA SeqIsSeq ==
  ASSUME NEW S, NEW s \in Seq(S)
  PROVE  IsSeq(s)
<1>1. Len(s) \in Nat /\ s \in [1..Len(s) -> S] /\ DOMAIN s = 1..Len(s)
  OBVIOUS
<1>2. s \in [1..Len(s) -> ToSet(s)]
  BY <1>1 DEF ToSet
<1> QED
  BY <1>1, <1>2, SeqDef DEF IsSeq

\* One element more.
LEMMA Appended ==
  ASSUME NEW s, IsSeq(s), NEW e
  PROVE  /\ IsSeq(Append(s, e)) /\ Len(s) \in Nat /\ DOMAIN s = 1..Len(s)
         /\ Len(Append(s, e)) = Len(s) + 1
         /\ DOMAIN Append(s, e) = 1..(Len(s) + 1)
         /\ Append(s, e)[Len(s) + 1] = e
         /\ \A i \in DOMAIN s : Append(s, e)[i] = s[i]
<1> DEFINE S == ToSet(s) \cup {e}
<1>1. s \in Seq(S)
  <2>1. Len(s) \in Nat /\ s \in [1..Len(s) -> ToSet(s)]
    BY DEF IsSeq
  <2>2. s \in [1..Len(s) -> S]
    BY <2>1
  <2> QED
    BY <2>1, <2>2, SeqDef
<1>2. Append(s, e) \in Seq(S)
  <2> HIDE DEF S
  <2> QED
    BY <1>1 DEF S
<1>3. IsSeq(Append(s, e))
  BY <1>2, SeqIsSeq
<1> QED
  BY <1>1, <1>3

\* One element changed.
LEMMA Changed ==
  ASSUME NEW s, IsSeq(s), NEW k \in DOMAIN s, NEW e
  PROVE  /\ IsSeq([s EXCEPT ![k] = e]) /\ Len([s EXCEPT ![k] = e]) = Len(s)
         /\ DOMAIN [s EXCEPT ![k] = e] = DOMAIN s
         /\ [s EXCEPT ![k] = e][k] = e
         /\ \A i \in DOMAIN s : i # k => [s EXCEPT ![k] = e][i] = s[i]
<1> DEFINE S == ToSet(s) \cup {e}
           r == [s EXCEPT ![k] = e]
<1>1. Len(s) \in Nat /\ s \in [1..Len(s) -> ToSet(s)] /\ DOMAIN s = 1..Len(s)
  BY DEF IsSeq
<1>2. r \in [1..Len(s) -> S]
  BY <1>1
<1>3. r \in Seq(S) /\ Len(r) = Len(s)
  <2>1. r \in Seq(S)
    BY <1>1, <1>2, SeqDef
  <2> QED
    BY <1>1, <2>1
<1>4. IsSeq(r)
  BY <1>3, SeqIsSeq
<1> QED
  BY <1>1, <1>3, <1>4
-----------------------------------------------------------------------------
(* The folds.                                                              *)

\* What a walk over threads adds to a ledger.
Between(L, more) == {M \in SUBSET (L \cup more) : L \subseteq M}

Reactions(now) == {Entry("dismissal", threads[t].fp, "reaction", now) : t \in Downvoted}

\* The reactions add to a ledger a dismissal for each thread that has one.
LEMMA ReactionsAdd ==
  ASSUME NEW L, NEW now, NEW n \in Nat, DOMAIN threads = 1..n
  PROVE  AddReactions(L, now) \in Between(L, Reactions(now))
<1> DEFINE C == Between(L, Reactions(now))
           Op(l, t) == IF t \in Downvoted THEN Add(l, threads[t].fp, "reaction", now) ELSE l
           h == [e \in (1..n) \X C |-> Op(e[2], e[1])]
           s == [i \in DOMAIN threads |-> i]
           W(it) == [T \in SUBSET DOMAIN s |->
                       IF T = {} THEN L ELSE Op(it[T \ {Max(T)}], s[Max(T)])]
           it == CHOOSE it : it = W(it)
<1>1. DOMAIN s = 1..n /\ \A i \in 1..n : s[i] = i
  OBVIOUS
<1>2. AddReactions(L, now) = it[DOMAIN s]
  BY DEF AddReactions, FoldLeftDomain, FoldLeft, MapThenFoldSet
<1>3. ASSUME NEW l \in C, NEW t \in 1..n PROVE Op(l, t) \in C
  BY DEF Between, Reactions, Add, Downvoted
<1>4. L \in C
  BY DEF Between
<1>5. PICK g \in [SUBSET (1..n) -> C] : \A T \in SUBSET (1..n) :
        g[T] = IF T = {} THEN L ELSE h[<<Max(T), g[T \ {Max(T)}]>>]
  <2>1. h \in [(1..n) \X C -> C]
    <3> HIDE DEF C, Op
    <3> QED
      BY <1>3
  <2> HIDE DEF h, C
  <2>2. Walks(n, C, L, h) # {}
    BY <1>4, <2>1, WalkExists
  <2> QED
    BY <2>2 DEF Walks
<1> HIDE DEF C
<1>6. g = W(g)
  <2>1. ASSUME NEW T \in SUBSET (1..n), T # {}
        PROVE  g[T] = Op(g[T \ {Max(T)}], s[Max(T)])
    <3>1. Max(T) \in 1..n /\ g[T \ {Max(T)}] \in C
      BY <2>1, LargestIndex
    <3> HIDE DEF Op
    <3>2. h[<<Max(T), g[T \ {Max(T)}]>>] = Op(g[T \ {Max(T)}], Max(T))
      BY <3>1
    <3> QED
      BY <1>1, <1>5, <2>1, <3>1, <3>2
  <2> HIDE DEF Op, h
  <2> QED
    BY <1>1, <1>5, <2>1
<1>7. it = W(it)
  <2> HIDE DEF W
  <2> QED
    BY <1>6
<1> HIDE DEF it
<1>8. ASSUME NEW T \in SUBSET (1..n), T # {}, it[T \ {Max(T)}] \in C
      PROVE  it[T] \in C
  <2>1. Max(T) \in 1..n
    BY <1>8, LargestIndex
  <2> HIDE DEF Op
  <2>2. it[T] = Op(it[T \ {Max(T)}], Max(T))
    BY <1>1, <1>7, <1>8, <2>1
  <2> QED
    BY <1>3, <1>8, <2>1, <2>2
<1>9. it[{}] = L
  BY <1>1, <1>7
<1>10. it[1..n] \in C
  BY <1>4, <1>8, <1>9, FoldStays
<1> QED
  BY <1>1, <1>2, <1>10 DEF C

\* The entries a walk over the threads may add.
Resolutions(head, now) ==
  UNION {{[Entry("resolved", threads[t].fp, "", now)
             EXCEPT !.coarse = Coarse[threads[t].fp], !.blob = BlobOf(head)],
          Entry("dismissal", threads[t].fp, "thread-resolution", now),
          Entry("accepted-and-fixed", threads[t].fp, "", now)} :
         t \in {u \in DOMAIN threads : threads[u].by # Nobody}}

\* A thread nobody has resolved adds nothing, a resolved one that it is.
LEMMA DispositionAdds ==
  ASSUME NEW L, NEW head, NEW now, NEW l \in Between(L, Resolutions(head, now)),
         NEW t \in DOMAIN threads
  PROVE  Disposition(l, t, head, now) \in Between(L, Resolutions(head, now))
<1> DEFINE more == Resolutions(head, now)
           e1 == [Entry("resolved", threads[t].fp, "", now)
                    EXCEPT !.coarse = Coarse[threads[t].fp], !.blob = BlobOf(head)]
           e2 == Entry("dismissal", threads[t].fp, "thread-resolution", now)
           e3 == Entry("accepted-and-fixed", threads[t].fp, "", now)
<1>1. threads[t].by # Nobody => {e1, e2, e3} \subseteq more
  BY DEF Resolutions
<1>2. \/ threads[t].by = Nobody /\ Disposition(l, t, head, now) = l
      \/ threads[t].by # Nobody /\ Disposition(l, t, head, now) \in
                                     {(l \cup {e1}) \cup {e2}, (l \cup {e1}) \cup {e3}}
  BY DEF Disposition, Add, AddResolved, AddAcceptedFixed
<1> HIDE DEF more, e1, e2, e3
<1> QED
  BY <1>1, <1>2 DEF Between, more

\* So does the walk over all of them.
LEMMA DispositionsAdd ==
  ASSUME NEW L, NEW head, NEW now, NEW n \in Nat, DOMAIN threads = 1..n
  PROVE  FoldLeftDomain(LAMBDA l, t : Disposition(l, t, head, now), L, threads)
           \in Between(L, Resolutions(head, now))
<1> DEFINE C == Between(L, Resolutions(head, now))
           Op(l, t) == Disposition(l, t, head, now)
           h == [e \in (1..n) \X C |-> Op(e[2], e[1])]
           s == [i \in DOMAIN threads |-> i]
           W(it) == [T \in SUBSET DOMAIN s |->
                       IF T = {} THEN L ELSE Op(it[T \ {Max(T)}], s[Max(T)])]
           it == CHOOSE it : it = W(it)
<1>1. DOMAIN s = 1..n /\ \A i \in 1..n : s[i] = i
  OBVIOUS
<1>2. FoldLeftDomain(LAMBDA l, t : Disposition(l, t, head, now), L, threads) = it[DOMAIN s]
  BY DEF FoldLeftDomain, FoldLeft, MapThenFoldSet
<1>3. ASSUME NEW l \in C, NEW t \in 1..n PROVE Op(l, t) \in C
  BY DispositionAdds
<1>4. L \in C
  BY DEF Between
<1>5. PICK g \in [SUBSET (1..n) -> C] : \A T \in SUBSET (1..n) :
        g[T] = IF T = {} THEN L ELSE h[<<Max(T), g[T \ {Max(T)}]>>]
  <2>1. h \in [(1..n) \X C -> C]
    <3> HIDE DEF C, Op
    <3> QED
      BY <1>3
  <2> HIDE DEF h, C
  <2>2. Walks(n, C, L, h) # {}
    BY <1>4, <2>1, WalkExists
  <2> QED
    BY <2>2 DEF Walks
<1> HIDE DEF C
<1>6. g = W(g)
  <2>1. ASSUME NEW T \in SUBSET (1..n), T # {}
        PROVE  g[T] = Op(g[T \ {Max(T)}], s[Max(T)])
    <3>1. Max(T) \in 1..n /\ g[T \ {Max(T)}] \in C
      BY <2>1, LargestIndex
    <3> HIDE DEF Op
    <3>2. h[<<Max(T), g[T \ {Max(T)}]>>] = Op(g[T \ {Max(T)}], Max(T))
      BY <3>1
    <3> QED
      BY <1>1, <1>5, <2>1, <3>1, <3>2
  <2> HIDE DEF Op, h
  <2> QED
    BY <1>1, <1>5, <2>1
<1>7. it = W(it)
  <2> HIDE DEF W
  <2> QED
    BY <1>6
<1> HIDE DEF it
<1>8. ASSUME NEW T \in SUBSET (1..n), T # {}, it[T \ {Max(T)}] \in C
      PROVE  it[T] \in C
  <2>1. Max(T) \in 1..n
    BY <1>8, LargestIndex
  <2> HIDE DEF Op
  <2>2. it[T] = Op(it[T \ {Max(T)}], Max(T))
    BY <1>1, <1>7, <1>8, <2>1
  <2> QED
    BY <1>3, <1>8, <2>1, <2>2
<1>9. it[{}] = L
  BY <1>1, <1>7
<1>10. it[1..n] \in C
  BY <1>4, <1>8, <1>9, FoldStays
<1> QED
  BY <1>1, <1>2, <1>10 DEF C

-----------------------------------------------------------------------------
(* Comments.                                                               *)

IsComment(c) == /\ c = [marker |-> c.marker, poster |-> c.poster, body |-> c.body]
                /\ c.marker \in {Sticky, Log}

CommentsShape == IsSeq(comments) /\ \A i \in DOMAIN comments : IsComment(comments[i])

\* The newest of some comments is one of them.
LEMMA NewestIsOne ==
  ASSUME NEW n \in Nat, NEW S \in SUBSET (1..n)
  PROVE  /\ S # {} => Newest(S) \in S /\ \A k \in S : k <= Newest(S)
         /\ Newest(S) = 0 <=> S = {}
<1>1. CASE S # {}
  <2>1. Max(S) \in S /\ \A k \in S : k <= Max(S)
    BY <1>1, LargestIndex
  <2>2. Newest(S) \in S /\ \A k \in S : k <= Newest(S)
    BY <1>1, <2>1 DEF Newest
  <2>3. \A k \in S : k # 0
    OBVIOUS
  <2> QED
    BY <1>1, <2>2, <2>3
<1>2. CASE S = {}
  BY <1>2 DEF Newest
<1> QED
  BY <1>1, <1>2

\* What FindIssueComment and FindTrustedIssueComment find.
LEMMA Found ==
  ASSUME CommentsShape, NEW marker
  PROVE  /\ FindIssueComment(marker) # 0 =>
              /\ FindIssueComment(marker) \in DOMAIN comments
              /\ comments[FindIssueComment(marker)].marker = marker
         /\ FindTrustedIssueComment(marker) # 0 =>
              /\ FindTrustedIssueComment(marker) \in DOMAIN comments
              /\ comments[FindTrustedIssueComment(marker)].marker = marker
         /\ FindIssueComment(marker) = 0 => \A i \in DOMAIN comments : comments[i].marker # marker
         /\ \A i \in DOMAIN comments :
              comments[i].marker = marker => i <= FindIssueComment(marker)
<1>1. Len(comments) \in Nat /\ DOMAIN comments = 1..Len(comments)
  BY DEF CommentsShape, IsSeq
<1> DEFINE S == {i \in DOMAIN comments : comments[i].marker = marker}
           T == {i \in DOMAIN comments :
                  comments[i].marker = marker /\ comments[i].poster \in {Cite, "member"}}
<1>2. S \in SUBSET (1..Len(comments)) /\ T \in SUBSET (1..Len(comments))
  BY <1>1
<1>3. FindIssueComment(marker) = Newest(S) /\ FindTrustedIssueComment(marker) = Newest(T)
  BY DEF FindIssueComment, FindTrustedIssueComment
<1>4. /\ S # {} => Newest(S) \in S /\ \A k \in S : k <= Newest(S)
      /\ Newest(S) = 0 <=> S = {}
      /\ T # {} => Newest(T) \in T
      /\ Newest(T) = 0 <=> T = {}
  <2> HIDE DEF S, T
  <2> QED
    BY <1>1, <1>2, NewestIsOne
<1> QED
  BY <1>3, <1>4

\* Where a write goes: to the comment found, or to a new one.
Target(marker) ==
  IF FindIssueComment(marker) # 0 THEN FindIssueComment(marker) ELSE Len(comments) + 1

\* What it leaves behind, and that it is what is found from then on.
LEMMA Upserted ==
  ASSUME CommentsShape, NEW marker \in {Sticky, Log}, NEW body,
         comments' = Upsert(marker, body)
  PROVE  /\ CommentsShape'
         /\ DOMAIN comments' = DOMAIN comments \cup {Target(marker)}
         /\ comments'[Target(marker)].marker = marker
         /\ comments'[Target(marker)].body = body
         /\ \A i \in DOMAIN comments : i # Target(marker) => comments'[i] = comments[i]
         /\ \A i \in DOMAIN comments : /\ comments'[i].marker = comments[i].marker
                                       /\ comments'[i].poster = comments[i].poster
         /\ \A m \in {Sticky, Log} : m # marker => FindIssueComment(m)' = FindIssueComment(m)
         /\ FindIssueComment(marker)' = Target(marker)
<1> DEFINE k == Target(marker)
           c == IF FindIssueComment(marker) # 0 THEN [comments[k] EXCEPT !.body = body]
                ELSE [marker |-> marker, poster |-> Cite, body |-> body]
<1>0. Len(comments) \in Nat /\ DOMAIN comments = 1..Len(comments)
      /\ IsSeq(comments) /\ \A i \in DOMAIN comments : IsComment(comments[i])
  BY DEF CommentsShape, IsSeq
<1>1. IsComment(c) /\ c.marker = marker /\ c.body = body
  <2>1. CASE FindIssueComment(marker) # 0
    <3>1. k \in DOMAIN comments /\ comments[k].marker = marker /\ IsComment(comments[k])
      BY <1>0, <2>1, Found DEF Target
    <3>2. c = [comments[k] EXCEPT !.body = body]
      BY <2>1
    <3> HIDE DEF c, k
    <3>3. c = [marker |-> marker, poster |-> comments[k].poster, body |-> body]
      BY <3>1, <3>2 DEF IsComment
    <3> QED
      BY <3>3 DEF IsComment
  <2>2. CASE FindIssueComment(marker) = 0
    <3>1. c = [marker |-> marker, poster |-> Cite, body |-> body]
      BY <2>2
    <3> HIDE DEF c
    <3> QED
      BY <3>1 DEF IsComment
  <2> QED
    BY <2>1, <2>2
<1>2. /\ IsSeq(comments') /\ DOMAIN comments' = DOMAIN comments \cup {k}
      /\ comments'[k] = c
      /\ \A i \in DOMAIN comments : i # k => comments'[i] = comments[i]
      /\ k \notin DOMAIN comments => k = Len(comments) + 1
  <2>1. CASE FindIssueComment(marker) # 0
    <3>1. k \in DOMAIN comments /\ k = FindIssueComment(marker)
      BY <2>1, Found DEF Target
    <3>2. comments' = [comments EXCEPT ![k] = c]
      BY <2>1, <3>1 DEF Upsert
    <3> HIDE DEF k, c
    <3> DEFINE r == [comments EXCEPT ![k] = c]
    <3>3. /\ IsSeq(r) /\ DOMAIN r = DOMAIN comments /\ r[k] = c
          /\ \A i \in DOMAIN comments : i # k => r[i] = comments[i]
      BY <1>0, <3>1, Changed
    <3> HIDE DEF r
    <3> QED
      BY <3>1, <3>2, <3>3 DEF r
  <2>2. CASE FindIssueComment(marker) = 0
    <3>1. k = Len(comments) + 1 /\ comments' = Append(comments, c)
      BY <2>2 DEF Target, Upsert
    <3> HIDE DEF k, c
    <3> QED
      BY <1>0, <3>1, Appended
  <2> QED
    BY <2>1, <2>2
<1>8. k \in DOMAIN comments => c.marker = comments[k].marker /\ c.poster = comments[k].poster
  <2> SUFFICES ASSUME k \in DOMAIN comments
               PROVE  c.marker = comments[k].marker /\ c.poster = comments[k].poster
    OBVIOUS
  <2>1. FindIssueComment(marker) # 0
    BY <1>0 DEF Target
  <2>2. comments[k].marker = marker /\ IsComment(comments[k])
    BY <1>0, <2>1, Found DEF Target
  <2>3. c = [comments[k] EXCEPT !.body = body]
    BY <2>1
  <2> HIDE DEF c, k
  <2> QED
    BY <2>2, <2>3 DEF IsComment
<1> HIDE DEF c, k
<1>7. ASSUME NEW i \in DOMAIN comments
      PROVE  comments'[i].marker = comments[i].marker /\ comments'[i].poster = comments[i].poster
  BY <1>1, <1>2, <1>8, <1>7
<1>3. CommentsShape'
  BY <1>0, <1>1, <1>2 DEF CommentsShape
<1>4. \A i \in DOMAIN comments' : comments'[i].marker =
        IF i = k THEN marker ELSE comments[i].marker
  BY <1>1, <1>2
<1>5. ASSUME NEW m \in {Sticky, Log}, m # marker
      PROVE FindIssueComment(m)' = FindIssueComment(m)
  <2>1. k \in DOMAIN comments => comments[k].marker = marker
    BY <1>0, Found DEF k, Target
  <2>2. {i \in DOMAIN comments' : comments'[i].marker = m}
          = {i \in DOMAIN comments : comments[i].marker = m}
    BY <1>2, <1>4, <1>5, <2>1
  <2> QED
    BY <2>2 DEF FindIssueComment
<1>6. FindIssueComment(marker)' = k
  <2>1. k \in DOMAIN comments' /\ comments'[k].marker = marker /\ k \in Nat
        /\ \A i \in DOMAIN comments' : comments'[i].marker = marker => i <= k
    <3>1. k \in Nat
      BY <1>0, Found DEF k, Target
    <3>2. ASSUME NEW i \in DOMAIN comments, comments[i].marker = marker PROVE i <= k
      BY <1>0, <3>2, Found DEF k, Target
    <3> QED
      BY <1>0, <1>1, <1>2, <1>4, <3>1, <3>2
  <2> DEFINE S == {i \in DOMAIN comments' : comments'[i].marker = marker}
  <2>2. k \in S /\ S \in SUBSET Nat /\ \A i \in S : i <= k
    BY <1>0, <1>2, <2>1
  <2>3. FindIssueComment(marker)' = Newest(S)
    BY DEF FindIssueComment
  <2> HIDE DEF S
  <2>4. Newest(S) = CHOOSE i \in S : \A j \in S : j <= i
    BY <2>2 DEF Newest
  <2>5. Newest(S) \in S /\ \A j \in S : j <= Newest(S)
    BY <2>2, <2>4
  <2>6. k <= Newest(S) /\ Newest(S) <= k /\ Newest(S) \in Nat
    BY <2>2, <2>5
  <2> QED
    BY <2>1, <2>3, <2>6
<1> QED
  BY <1>1, <1>2, <1>3, <1>5, <1>6, <1>7 DEF k

-----------------------------------------------------------------------------
(* Jobs.                                                                   *)

Stages ==
  [signals |-> {"opened", "walked", "reread", "done"},
   review |-> {"opened", "reconciled", "published", "done"},
   bypass |-> {"verified", "concluded", "extending", "done"},
   re |-> {"opened", "filing", "swept", "done"}]

StagesOf(kind) == IF kind = "signals" THEN Stages.signals
                  ELSE IF kind = "review" THEN Stages.review
                  ELSE IF kind = "bypass" THEN Stages.bypass ELSE Stages.re

\* The fields of a job that are asked after or updated.
JobShape(b) ==
  /\ b.kind \in {"signals", "review", "bypass", "re-review"}
  /\ b.pc \in StagesOf(b.kind)
  /\ {"kind", "pc"} \subseteq DOMAIN b
  /\ "ledger" \in DOMAIN b <=> b.pc \in {"walked", "reread", "reconciled", "published"}
  /\ "cutoff" \in DOMAIN b <=> b.kind = "re-review" /\ b.pc # "done"
  /\ b.pc = "walked" => {"verdicts", "news"} \subseteq DOMAIN b
  /\ b.pc = "filing" => {"todo", "ok"} \subseteq DOMAIN b

JobsInv == /\ IsSeq(jobs) /\ Len(jobs) <= MaxJobs
           /\ \A j \in DOMAIN jobs : JobShape(jobs[j])

\* One job is at another point, the others are where they were.
Moved(j) == /\ IsSeq(jobs') /\ Len(jobs') = Len(jobs) /\ DOMAIN jobs' = DOMAIN jobs
            /\ \A i \in DOMAIN jobs : i # j => jobs'[i] = jobs[i]

\* A job more.
Started(job) ==
  /\ IsSeq(jobs') /\ Len(jobs) \in Nat /\ DOMAIN jobs = 1..Len(jobs)
  /\ Len(jobs') = Len(jobs) + 1 /\ DOMAIN jobs' = 1..(Len(jobs) + 1)
  /\ jobs'[Len(jobs) + 1] = job
  /\ \A i \in DOMAIN jobs : jobs'[i] = jobs[i]

\* A job goes to another point.
LEMMA GotoMoves ==
  ASSUME IsSeq(jobs), NEW j \in DOMAIN jobs, NEW job, Goto(j, job)
  PROVE  Moved(j) /\ jobs'[j] = job
<1> DEFINE r == [jobs EXCEPT ![j] = job]
<1>1. /\ IsSeq(r) /\ Len(r) = Len(jobs) /\ DOMAIN r = DOMAIN jobs /\ r[j] = job
      /\ \A i \in DOMAIN jobs : i # j => r[i] = jobs[i]
  BY Changed
<1>2. jobs' = r
  BY DEF Goto
<1> HIDE DEF r
<1> QED
  BY <1>1, <1>2 DEF Moved

\* A job ends.
LEMMA EndedMoves ==
  ASSUME IsSeq(jobs), NEW j \in DOMAIN jobs, Ended(j)
  PROVE  Moved(j) /\ jobs'[j] = [kind |-> jobs[j].kind, pc |-> "done"]
  BY GotoMoves DEF Ended

\* A job starts.
LEMMA StartStarts ==
  ASSUME IsSeq(jobs), NEW job, Start(job)
  PROVE  /\ Started(job) /\ Len(jobs) < MaxJobs
         /\ UNCHANGED <<file, threads, comments, label, merged, issues, clock,
                        recorded, uses>>
  BY Appended DEF Start, Started

\* What each step of a job makes of it.
LEMMA JobSteps ==
  ASSUME JobsInv, NEW j \in DOMAIN jobs, Step(j) \/ Die(j)
  PROVE  /\ Moved(j) /\ JobShape(jobs'[j]) /\ jobs'[j].kind = jobs[j].kind
         /\ jobs[j].pc # "done"
<1> USE DEF JobsInv, At
<1>0. IsSeq(jobs) /\ JobShape(jobs[j])
  OBVIOUS
<1>1. CASE Walk(j)
  <2>0. PICK s, l, r, v, g, w :
          Goto(j, [kind |-> "signals", pc |-> "walked", now |-> clock, saw |-> s,
                   listed |-> l, replies |-> r, verdicts |-> v, ledger |-> g, news |-> w])
    BY <1>1, Zenon DEF Walk
  <2>1. PICK job : Goto(j, job) /\ job.kind = "signals" /\ job.pc = "walked"
          /\ JobShape(job)
    BY <2>0 DEF JobShape, StagesOf, Stages
  <2> QED
    BY <1>0, <1>1, <2>1, GotoMoves DEF Walk, JobShape, StagesOf, Stages
<1>2. CASE Classify(j)
  <2>1. PICK v, n, l : Goto(j, [jobs[j] EXCEPT !.verdicts = v, !.news = n, !.ledger = l])
    BY <1>2 DEF Classify
  <2> DEFINE job == [jobs[j] EXCEPT !.verdicts = v, !.news = n, !.ledger = l]
  <2>2. Moved(j) /\ jobs'[j] = job
    BY <1>0, <2>1, GotoMoves
  <2>3. DOMAIN job = DOMAIN jobs[j] /\ job.kind = jobs[j].kind /\ job.pc = jobs[j].pc
    BY <1>0 DEF JobShape
  <2> HIDE DEF job
  <2> QED
    BY <1>0, <1>2, <2>2, <2>3 DEF Classify, JobShape
<1>3. CASE Reread(j)
  <2>1. jobs[j].kind = "signals" /\ jobs[j].pc = "walked"
    BY <1>0, <1>3 DEF Reread, JobShape, StagesOf, Stages
  <2>2. PICK job : /\ Goto(j, job) /\ job.kind = "signals" /\ job.pc \in {"reread", "done"}
                   /\ JobShape(job)
    <3>1. CASE jobs[j].news
      BY <1>3, <3>1 DEF Reread, JobShape, StagesOf, Stages
    <3>2. CASE ~jobs[j].news
      BY <1>3, <2>1, <3>2 DEF Reread, Ended, JobShape, StagesOf, Stages
    <3> QED
      BY <3>1, <3>2
  <2> QED
    BY <1>0, <2>1, <2>2, GotoMoves
<1>4. CASE ReviewAndReconcile(j)
  <2>1. PICK job : Goto(j, job) /\ job.kind = "review" /\ job.pc = "reconciled"
          /\ JobShape(job)
    BY <1>4 DEF ReviewAndReconcile, JobShape, StagesOf, Stages
  <2> QED
    BY <1>0, <1>4, <2>1, GotoMoves DEF ReviewAndReconcile, JobShape, StagesOf, Stages
<1>5. CASE PublishReview(j)
  <2>1. jobs[j].kind = "review" /\ jobs[j].pc = "reconciled"
    BY <1>0, <1>5 DEF PublishReview, JobShape, StagesOf, Stages
  <2>2. PICK job : Goto(j, job) /\ job.kind = "review" /\ job.pc = "published"
          /\ JobShape(job)
    <3>1. PICK s, g, r, h : Goto(j, [kind |-> "review", pc |-> "published", saw |-> s,
                                     ledger |-> g, reviewed |-> r, head |-> h])
      BY <1>5, Zenon DEF PublishReview
    <3> QED
      BY <3>1 DEF JobShape, StagesOf, Stages
  <2> QED
    BY <1>0, <2>1, <2>2, GotoMoves
<1>6. CASE Conclude(j)
  <2>1. jobs[j].kind = "bypass" /\ jobs[j].pc = "verified"
    BY <1>0, <1>6 DEF Conclude, JobShape, StagesOf, Stages
  <2>2. PICK job : Goto(j, job) /\ job.kind = "bypass" /\ job.pc = "concluded"
          /\ JobShape(job)
    BY <1>6 DEF Conclude, JobShape, StagesOf, Stages
  <2> QED
    BY <1>0, <2>1, <2>2, GotoMoves
<1>7. CASE ReadLog(j)
  <2>1. jobs[j].kind = "bypass" /\ jobs[j].pc = "concluded"
    BY <1>0, <1>7 DEF ReadLog, JobShape, StagesOf, Stages
  <2>2. PICK job : Goto(j, job) /\ job.kind = "bypass" /\ job.pc = "extending"
          /\ JobShape(job)
    BY <1>7 DEF ReadLog, JobShape, StagesOf, Stages
  <2> QED
    BY <1>0, <2>1, <2>2, GotoMoves
<1>8. CASE Sweep(j)
  <2>1. PICK job : Goto(j, job) /\ job.kind = "re-review" /\ job.pc \in {"swept", "filing"}
          /\ JobShape(job)
    <3>1. \/ \E c, r, o, d : Goto(j, [kind |-> "re-review", pc |-> "swept", cutoff |-> c,
                                    read |-> r, ok |-> o, did |-> d])
          \/ \E c, r, o, t : Goto(j, [kind |-> "re-review", pc |-> "filing", read |-> r,
                                    ok |-> o, cutoff |-> c, todo |-> t])
      BY <1>8, Zenon DEF Sweep, Swept
    <3>2. \A c, r, o, d : JobShape([kind |-> "re-review", pc |-> "swept", cutoff |-> c,
                                    read |-> r, ok |-> o, did |-> d])
      BY DEF JobShape, StagesOf, Stages
    <3>3. \A c, r, o, t : JobShape([kind |-> "re-review", pc |-> "filing", read |-> r,
                                    ok |-> o, cutoff |-> c, todo |-> t])
      BY DEF JobShape, StagesOf, Stages
    <3> QED
      BY <3>1, <3>2, <3>3
  <2> QED
    BY <1>0, <1>8, <2>1, GotoMoves DEF Sweep, JobShape, StagesOf, Stages
<1>9. CASE FileEscapedFinding(j)
  <2>1. jobs[j].kind = "re-review" /\ jobs[j].pc = "filing"
    BY <1>0, <1>9 DEF FileEscapedFinding, JobShape, StagesOf, Stages
  <2>2. PICK job : Goto(j, job) /\ job.kind = "re-review" /\ job.pc \in {"swept", "filing"}
          /\ JobShape(job)
    <3>1. CASE Swept(j, jobs[j].read, jobs[j].ok, TRUE)
      BY <3>1 DEF Swept, JobShape, StagesOf, Stages
    <3>2. ASSUME NEW t, NEW o, Goto(j, [jobs[j] EXCEPT !.todo = t, !.ok = o])
          PROVE  \E job : /\ Goto(j, job) /\ job.kind = "re-review" /\ job.pc = "filing"
                          /\ JobShape(job)
      <4> DEFINE job == [jobs[j] EXCEPT !.todo = t, !.ok = o]
      <4>1. DOMAIN job = DOMAIN jobs[j] /\ job.kind = jobs[j].kind /\ job.pc = jobs[j].pc
        BY <1>0 DEF JobShape
      <4> HIDE DEF job
      <4> QED
        BY <1>0, <2>1, <3>2, <4>1 DEF job, JobShape
    <3>3. \/ Swept(j, jobs[j].read, jobs[j].ok, TRUE)
          \/ \E t, o : Goto(j, [jobs[j] EXCEPT !.todo = t, !.ok = o])
      BY <1>9 DEF FileEscapedFinding
    <3> QED
      BY <3>1, <3>2, <3>3
  <2> QED
    BY <1>0, <2>1, <2>2, GotoMoves
<1>10. CASE Die(j) \/ WriteLedger(j) \/ WriteSticky(j) \/ WriteLog(j)
  <2>1. Ended(j) /\ jobs[j].pc # "done"
    BY <1>10 DEF Die, WriteLedger, WriteSticky, WriteLog
  <2>2. Moved(j) /\ jobs'[j] = [kind |-> jobs[j].kind, pc |-> "done"]
    BY <1>0, <2>1, EndedMoves
  <2> QED
    BY <1>0, <2>1, <2>2 DEF JobShape, StagesOf, Stages
<1> QED
  BY <1>1, <1>2, <1>3, <1>4, <1>5, <1>6, <1>7, <1>8, <1>9, <1>10 DEF Step

\* What people do moves no job.
Human == Downvote \/ ResolveByHand \/ Reply \/ Restate \/ Push \/ PutLabel \/ Merge \/ Tick

\* Every step leaves the jobs with the fields they are asked after.
LEMMA JobsStep == JobsInv /\ [Next]_vars => JobsInv'
<1> SUFFICES ASSUME JobsInv, [Next]_vars PROVE JobsInv'
  OBVIOUS
<1>0. IsSeq(jobs) /\ Len(jobs) <= MaxJobs /\ MaxJobs \in Nat
  BY ConversationAssumption DEF JobsInv
<1>1. CASE StartSignals \/ StartReview \/ StartBypass \/ StartReReview
  <2>1. PICK job : Start(job) /\ JobShape(job)
    BY <1>1 DEF StartSignals, StartReview, StartBypass, StartReReview, JobShape,
       StagesOf, Stages
  <2>2. Started(job) /\ Len(jobs) < MaxJobs
    BY <1>0, <2>1, StartStarts
  <2> QED
    BY <1>0, <2>1, <2>2 DEF JobsInv, Started
<1>2. CASE \E j \in DOMAIN jobs : Step(j) \/ Die(j)
  <2>1. PICK j \in DOMAIN jobs : Step(j) \/ Die(j)
    BY <1>2
  <2>2. Moved(j) /\ JobShape(jobs'[j])
    BY <2>1, JobSteps
  <2> QED
    BY <1>0, <2>2 DEF JobsInv, Moved
<1>3. CASE Human \/ UNCHANGED vars
  <2>1. UNCHANGED jobs
    BY <1>3 DEF Human, Downvote, ResolveByHand, Reply, Restate, RestateSticky,
       RestateLog, Push, PutLabel, Merge, Tick, vars
  <2> QED
    BY <2>1 DEF JobsInv
<1> QED
  BY <1>1, <1>2, <1>3 DEF Next, Human

-----------------------------------------------------------------------------
(* The bypass log.                                                         *)

\* Somebody else has commented, with a marker.
Says(marker, who, body) ==
  comments' = Append(comments, [marker |-> marker, poster |-> who, body |-> body])
SaysOne == \E marker \in {Sticky, Log} : \E who, body : Says(marker, who, body)

\* What people restate is one comment more.
LEMMA RestateAppends == Restate => SaysOne
<1>1. RestateSticky => \E who, body : Says(Sticky, who, body)
  BY DEF RestateSticky, Says
<1>2. RestateLog => \E body : Says(Log, "author", body)
  BY DEF RestateLog, Says
<1> QED
  BY <1>1, <1>2 DEF Restate, SaysOne

CommentsInv == CommentsShape /\ \E i \in DOMAIN comments : comments[i].marker = Sticky

\* A comment more leaves the others as they are.
LEMMA Restated ==
  ASSUME CommentsShape, NEW marker \in {Sticky, Log}, NEW who, NEW body,
         Says(marker, who, body)
  PROVE  /\ CommentsShape'
         /\ DOMAIN comments' = DOMAIN comments \cup {Len(comments) + 1}
         /\ comments'[Len(comments) + 1]
              = [marker |-> marker, poster |-> who, body |-> body]
         /\ \A i \in DOMAIN comments : comments'[i] = comments[i]
<1> DEFINE c == [marker |-> marker, poster |-> who, body |-> body]
<1>1. /\ IsSeq(comments') /\ Len(comments) \in Nat /\ DOMAIN comments = 1..Len(comments)
      /\ DOMAIN comments' = 1..(Len(comments) + 1) /\ comments'[Len(comments) + 1] = c
      /\ \A i \in DOMAIN comments : comments'[i] = comments[i]
  BY Appended DEF CommentsShape, Says
<1>2. DOMAIN comments' = DOMAIN comments \cup {Len(comments) + 1}
  BY <1>1
<1>3. CommentsShape'
  BY <1>1, <1>2 DEF CommentsShape, IsComment
<1> QED
  BY <1>1, <1>2, <1>3

\* Every comment is one of Cite's two, and there always is a sticky one.
LEMMA CommentsStep == CommentsInv /\ [Next]_vars => CommentsInv'
<1> SUFFICES ASSUME CommentsInv, [Next]_vars PROVE CommentsInv'
  OBVIOUS
<1>1. ASSUME NEW marker \in {Sticky, Log}, NEW body, comments' = Upsert(marker, body)
      PROVE  CommentsInv'
  <2>1. /\ CommentsShape' /\ comments'[Target(marker)].marker = marker
        /\ DOMAIN comments' = DOMAIN comments \cup {Target(marker)}
        /\ \A i \in DOMAIN comments : i # Target(marker) => comments'[i] = comments[i]
    BY <1>1, Upserted DEF CommentsInv
  <2>2. PICK i \in DOMAIN comments : comments[i].marker = Sticky
    BY DEF CommentsInv
  <2>3. i = Target(marker) => marker = Sticky
    <3>1. CASE FindIssueComment(marker) # 0
      BY <2>2, <3>1, Found DEF CommentsInv, Target
    <3>2. CASE FindIssueComment(marker) = 0
      <4>1. Target(marker) \notin DOMAIN comments
        BY <3>2, Appended DEF CommentsInv, CommentsShape, Target
      <4> QED
        BY <2>2, <4>1
    <3> QED
      BY <3>1, <3>2
  <2> QED
    BY <2>1, <2>2, <2>3 DEF CommentsInv
<1>2. CASE Restate
  <2>1. PICK marker \in {Sticky, Log} : \E who, body : Says(marker, who, body)
    BY <1>2, RestateAppends DEF SaysOne
  <2> QED
    BY <2>1, Restated DEF CommentsInv
<1>3. CASE UNCHANGED comments
  BY <1>3 DEF CommentsInv, CommentsShape
<1>4. ASSUME NEW j \in DOMAIN jobs, Step(j) \/ Die(j) PROVE CommentsInv'
  BY <1>1, <1>3, <1>4 DEF Step, Die, Walk, Classify, Reread, WriteLedger, ReviewAndReconcile,
     PublishReview, WriteSticky, Conclude, ReadLog, WriteLog, Sweep, FileEscapedFinding
<1> QED
  BY <1>2, <1>3, <1>4 DEF Next, StartSignals, StartReview, StartBypass, StartReReview, Start,
     Downvote, ResolveByHand, Reply, Push, PutLabel, Merge, Tick, vars

\* Lines of the log, each of a bypass that is over and done, but for those that
\* people have said (the comments cs).
GoodLines(L, J, u, cs) ==
  /\ IsSeq(L)
  /\ \A i \in DOMAIN L : \/ L[i].use = 0 /\ SaidByPeople(cs)
                         \/ /\ L[i].use # 0
                            /\ L[i].use \in DOMAIN u /\ u[L[i].use] = L[i].at
                            /\ L[i].use \in DOMAIN J /\ J[L[i].use].pc = "done"
  /\ \A i, k \in DOMAIN L : L[i].use # 0 /\ L[i].use = L[k].use => i = k

\* What a bypass holds of the log, and which use of the label it stands for.
LogJob(b, j, J, u, cs) ==
  /\ b.pc = "verified" => j \notin DOMAIN u
  /\ b.pc \in {"concluded", "extending"} =>
       b.line.use = j /\ j \in DOMAIN u /\ u[j] = b.line.at
  /\ b.pc = "extending" => GoodLines(b.saw, J, u, cs)

\* LinesAreUses is not inductive: a line is in a job's hands before it is in the
\* log, and what the job read of the log goes back there.  A job appends one
\* line, so lines that stand for jobs that are done never meet it twice.
LogInv ==
  /\ CommentsInv /\ JobsInv /\ DOMAIN uses \subseteq DOMAIN jobs
  /\ \A i \in DOMAIN comments :
       comments[i].marker = Log => GoodLines(comments[i].body, jobs, uses, comments)
  /\ \A j \in DOMAIN jobs : LogJob(jobs[j], j, jobs, uses, comments)

\* Lines stay good while jobs that are done and uses stay what they are.
LEMMA LinesKept ==
  ASSUME NEW L, NEW J, NEW K, NEW u, NEW v, NEW cs, NEW ds, GoodLines(L, J, u, cs),
         SaidByPeople(cs) => SaidByPeople(ds),
         \A k \in DOMAIN J : J[k].pc = "done" => k \in DOMAIN K /\ K[k] = J[k],
         \A k \in DOMAIN u : k \in DOMAIN v /\ v[k] = u[k]
  PROVE  GoodLines(L, K, v, ds)
  BY DEF GoodLines

\* What is read of the log is good.
LEMMA LogIsGood ==
  ASSUME LogInv PROVE GoodLines(LinesOf(FindIssueComment(Log)), jobs, uses, comments)
<1>1. CASE FindIssueComment(Log) = 0
  <2>1. LinesOf(FindIssueComment(Log)) = <<>>
    BY <1>1 DEF LinesOf
  <2>2. IsSeq(<<>>)
    BY DEF IsSeq, ToSet
  <2> QED
    BY <2>1, <2>2 DEF GoodLines
<1>2. CASE FindIssueComment(Log) # 0
  BY <1>2, Found DEF LogInv, CommentsInv, LinesOf
<1> QED
  BY <1>1, <1>2

\* One more line, for a use no line stands for yet.
LEMMA LineAdded ==
  ASSUME NEW L, NEW J, NEW u, NEW cs, NEW ds, GoodLines(L, J, u, cs), NEW line,
         SaidByPeople(cs) => SaidByPeople(ds), line.use # 0,
         line.use \in DOMAIN u, u[line.use] = line.at, line.use \in DOMAIN J,
         J[line.use].pc # "done", NEW K, K[line.use].pc = "done",
         DOMAIN K = DOMAIN J, \A k \in DOMAIN J : k # line.use => K[k] = J[k]
  PROVE  GoodLines(ExtendedLog(L, line), K, u, ds)
<1> DEFINE M == Append(L, line)
<1>1. /\ IsSeq(M) /\ Len(L) \in Nat /\ DOMAIN L = 1..Len(L) /\ DOMAIN M = 1..(Len(L) + 1)
      /\ M[Len(L) + 1] = line /\ \A i \in DOMAIN L : M[i] = L[i]
  BY Appended DEF GoodLines
<1>2. \A i \in DOMAIN L : L[i].use # line.use
  BY DEF GoodLines
<1>3. ExtendedLog(L, line) = M
  BY DEF ExtendedLog
<1> HIDE DEF M
<1>4. \A i \in DOMAIN M : i = Len(L) + 1 \/ i \in DOMAIN L
  BY <1>1
<1> QED
  BY <1>1, <1>2, <1>3, <1>4 DEF GoodLines

\* What people have said stays, with their name.
LEMMA PeopleStaySaid ==
  ASSUME CommentsInv, [Next]_vars
  PROVE  SaidByPeople(comments) => SaidByPeople(comments')
<1> DEFINE Kept == \A i \in DOMAIN comments :
                    /\ i \in DOMAIN comments' /\ comments'[i].marker = comments[i].marker
                    /\ comments'[i].poster = comments[i].poster
<1>1. CASE UNCHANGED comments
  BY <1>1
<1>2. ASSUME NEW marker \in {Sticky, Log}, NEW body, comments' = Upsert(marker, body)
      PROVE  Kept
  BY <1>2, Upserted DEF CommentsInv
<1>3. CASE Restate
  <2>1. PICK marker \in {Sticky, Log} : \E who, body : Says(marker, who, body)
    BY <1>3, RestateAppends DEF SaysOne
  <2>2. Kept
    BY <2>1, Restated DEF CommentsInv
  <2> QED
    BY <2>2 DEF SaidByPeople
<1>4. ASSUME NEW j \in DOMAIN jobs, Step(j) \/ Die(j) PROVE Kept
  <2> HIDE DEF Kept
  <2>1. UNCHANGED comments => Kept
    BY DEF Kept
  <2> QED
    BY <1>2, <1>4, <2>1 DEF Step, Die, Walk, Classify, Reread, WriteLedger, ReviewAndReconcile,
       PublishReview, WriteSticky, Conclude, ReadLog, WriteLog, Sweep, FileEscapedFinding
<1>5. Kept => (SaidByPeople(comments) => SaidByPeople(comments'))
  BY DEF SaidByPeople
<1> HIDE DEF Kept
<1> QED
  BY <1>1, <1>3, <1>4, <1>5 DEF Next, StartSignals, StartReview, StartBypass, StartReReview,
     Start, Downvote, ResolveByHand, Reply, Push, PutLabel, Merge, Tick, vars

\* No step forgets a bypass, and one that is over and done stays so.
LEMMA Remembered ==
  ASSUME LogInv, [Next]_vars
  PROVE  /\ \A k \in DOMAIN jobs : k \in DOMAIN jobs' /\ jobs'[k].kind = jobs[k].kind
         /\ \A k \in DOMAIN jobs : jobs[k].pc = "done" => jobs'[k] = jobs[k]
         /\ \A k \in DOMAIN uses : k \in DOMAIN uses' /\ uses'[k] = uses[k]
         /\ SaidByPeople(comments) => SaidByPeople(comments')
<1>0. IsSeq(jobs) /\ JobsInv
  BY DEF JobsInv, LogInv
<1>6. SaidByPeople(comments) => SaidByPeople(comments')
  BY PeopleStaySaid DEF LogInv
<1>1. ASSUME NEW job, Start(job)
      PROVE  Started(job) /\ UNCHANGED uses
  BY <1>0, <1>1, StartStarts
<1>2. ASSUME NEW j \in DOMAIN jobs, Step(j) \/ Die(j)
      PROVE  /\ Moved(j) /\ jobs'[j].kind = jobs[j].kind /\ jobs[j].pc # "done"
             /\ \A k \in DOMAIN uses : k \in DOMAIN uses' /\ uses'[k] = uses[k]
  <2>1. Moved(j) /\ jobs'[j].kind = jobs[j].kind /\ jobs[j].pc # "done"
    BY <1>0, <1>2, JobSteps
  <2>2. CASE Conclude(j)
    <3>1. j \notin DOMAIN uses
      BY <2>2 DEF Conclude, At, LogInv, LogJob
    <3> QED
      BY <2>1, <2>2, <3>1 DEF Conclude
  <2>3. CASE ~Conclude(j)
    BY <1>2, <2>1, <2>3 DEF Step, Die, Walk, Classify, Reread, WriteLedger, ReviewAndReconcile,
       PublishReview, WriteSticky, ReadLog, WriteLog, Sweep, FileEscapedFinding
  <2> QED
    BY <2>2, <2>3
<1>3. CASE \E j \in DOMAIN jobs : Step(j) \/ Die(j)
  <2>1. PICK j \in DOMAIN jobs : Step(j) \/ Die(j)
    BY <1>3
  <2> QED
    BY <1>2, <1>6, <2>1 DEF Moved
<1>4. CASE StartSignals \/ StartReview \/ StartBypass \/ StartReReview
  <2>1. PICK job : Start(job)
    BY <1>4 DEF StartSignals, StartReview, StartBypass, StartReReview
  <2> QED
    BY <1>1, <1>6, <2>1 DEF Started
<1>5. CASE Human \/ UNCHANGED vars
  <2>1. UNCHANGED <<jobs, uses>>
    BY <1>5 DEF Human, Downvote, ResolveByHand, Reply, Restate, RestateSticky,
       RestateLog, Push, PutLabel, Merge, Tick, vars
  <2> QED
    BY <1>6, <2>1
<1> QED
  BY <1>3, <1>4, <1>5, <1>6 DEF Next, Human

\* Where only good lines are written to the log, its lines stay good.
LEMMA LogUntouched ==
  ASSUME LogInv, [Next]_vars, CommentsShape',
         \A i \in DOMAIN comments' : comments'[i].marker = Log =>
           \/ i \in DOMAIN comments /\ comments'[i] = comments[i]
           \/ GoodLines(comments'[i].body, jobs', uses', comments')
  PROVE  \A i \in DOMAIN comments' :
           comments'[i].marker = Log => GoodLines(comments'[i].body, jobs', uses', comments')
<1> SUFFICES ASSUME NEW i \in DOMAIN comments', comments'[i].marker = Log,
                    i \in DOMAIN comments, comments'[i] = comments[i]
             PROVE  GoodLines(comments'[i].body, jobs', uses', comments')
  OBVIOUS
<1>1. GoodLines(comments[i].body, jobs, uses, comments)
  BY DEF LogInv
<1>2. /\ \A k \in DOMAIN jobs : jobs[k].pc = "done" => k \in DOMAIN jobs' /\ jobs'[k] = jobs[k]
      /\ \A k \in DOMAIN uses : k \in DOMAIN uses' /\ uses'[k] = uses[k]
      /\ SaidByPeople(comments) => SaidByPeople(comments')
  BY Remembered DEF LogInv
<1> QED
  BY <1>1, <1>2, LinesKept

\* A job that does not move holds what it held.
LEMMA LogJobKept ==
  ASSUME LogInv, [Next]_vars, NEW k \in DOMAIN jobs, k \in DOMAIN jobs', jobs'[k] = jobs[k],
         k \in DOMAIN uses' => k \in DOMAIN uses
  PROVE  LogJob(jobs'[k], k, jobs', uses', comments')
<1>1. LogJob(jobs[k], k, jobs, uses, comments)
  BY DEF LogInv
<1>2. /\ \A i \in DOMAIN jobs : jobs[i].pc = "done" => i \in DOMAIN jobs' /\ jobs'[i] = jobs[i]
      /\ \A i \in DOMAIN uses : i \in DOMAIN uses' /\ uses'[i] = uses[i]
      /\ SaidByPeople(comments) => SaidByPeople(comments')
  BY Remembered DEF LogInv
<1>3. jobs[k].pc = "extending" => GoodLines(jobs[k].saw, jobs', uses', comments')
  BY <1>1, <1>2, LinesKept DEF LogJob
<1> QED
  BY <1>1, <1>2, <1>3 DEF LogJob

\* A write of the sticky comment leaves the log alone.
LEMMA StickyIsNotTheLog ==
  ASSUME CommentsShape, NEW body, comments' = Upsert(Sticky, body)
  PROVE  \A i \in DOMAIN comments' : comments'[i].marker = Log =>
           i \in DOMAIN comments /\ comments'[i] = comments[i]
<1>1. Sticky \in {Sticky, Log} /\ Sticky # Log
  BY DEF Sticky, Log
<1> QED
  BY <1>1, Upserted

\* A comment of somebody's with the marker of the log holds lines that are good, now
\* that people have said something.
LEMMA SaidIsGood ==
  ASSUME LogInv, RestateLog
  PROVE  \E body :
           /\ comments' = Append(comments, [marker |-> Log, poster |-> "author", body |-> body])
           /\ GoodLines(body, jobs, uses, comments')
<1>0. CommentsShape /\ Log \in {Sticky, Log} /\ "author" # Cite
  BY DEF LogInv, CommentsInv, Cite
<1> DEFINE lines == LinesOf(FindIssueComment(Log))
           line(t) == [at |-> t, use |-> 0]
<1>1. PICK body :
        /\ comments' = Append(comments, [marker |-> Log, poster |-> "author", body |-> body])
        /\ body = <<>> \/ body = lines \/ \E t \in 0 .. clock + 1 : body = Append(lines, line(t))
  BY DEF RestateLog
<1>2. SaidByPeople(comments')
  <2> DEFINE n == Len(comments) + 1
  <2>1. n \in DOMAIN comments'
        /\ comments'[n] = [marker |-> Log, poster |-> "author", body |-> body]
    BY <1>0, <1>1, Restated DEF Says
  <2> HIDE DEF n
  <2>2. comments'[n].marker = Log /\ comments'[n].poster # Cite
    BY <1>0, <2>1
  <2> QED
    BY <2>1, <2>2 DEF SaidByPeople
<1>3. GoodLines(lines, jobs, uses, comments')
  BY <1>2, LogIsGood, LinesKept
<1>4. GoodLines(<<>>, jobs, uses, comments')
  <2>1. IsSeq(<<>>)
    BY DEF IsSeq, ToSet
  <2> QED
    BY <2>1 DEF GoodLines
<1> HIDE DEF lines
<1>5. ASSUME NEW t, body = Append(lines, line(t)) PROVE GoodLines(body, jobs, uses, comments')
  <2> DEFINE l == line(t)
  <2>1. l.use = 0
    OBVIOUS
  <2> HIDE DEF l
  <2>2. /\ IsSeq(body) /\ Len(lines) \in Nat /\ DOMAIN lines = 1..Len(lines)
        /\ DOMAIN body = 1..(Len(lines) + 1) /\ body[Len(lines) + 1] = l
        /\ \A i \in DOMAIN lines : body[i] = lines[i]
    BY <1>3, <1>5, Appended DEF GoodLines, l
  <2>3. \A i \in DOMAIN body : i \in DOMAIN lines \/ body[i] = l
    BY <2>2
  <2> QED
    BY <1>2, <1>3, <2>1, <2>2, <2>3 DEF GoodLines
<1> QED
  BY <1>1, <1>3, <1>4, <1>5

\* LogInv is inductive.
LEMMA LogStep == LogInv /\ [Next]_vars => LogInv'
<1> SUFFICES ASSUME LogInv, [Next]_vars PROVE LogInv'
  OBVIOUS
<1>0. /\ CommentsShape /\ JobsInv /\ IsSeq(jobs) /\ DOMAIN uses \subseteq DOMAIN jobs
      /\ CommentsInv' /\ CommentsShape' /\ JobsInv'
  BY CommentsStep, JobsStep DEF LogInv, CommentsInv, JobsInv
<1>1. CASE StartSignals \/ StartReview \/ StartBypass \/ StartReReview
  <2>1. PICK job : Start(job) /\ job.pc \in {"opened", "verified"}
    BY <1>1 DEF StartSignals, StartReview, StartBypass, StartReReview
  <2>2. Started(job) /\ UNCHANGED <<comments, uses>>
    BY <1>0, <2>1, StartStarts
  <2>3. ASSUME NEW k \in DOMAIN jobs' PROVE LogJob(jobs'[k], k, jobs', uses', comments')
    <3>1. CASE k \in DOMAIN jobs
      BY <2>2, <3>1, LogJobKept DEF Started
    <3>2. CASE k \notin DOMAIN jobs
      <4>1. k = Len(jobs) + 1 /\ jobs'[k] = job
        BY <2>2, <3>2 DEF Started
      <4> QED
        BY <1>0, <2>1, <2>2, <3>2, <4>1 DEF LogJob
    <3> QED
      BY <3>1, <3>2
  <2>4. \A i \in DOMAIN comments' :
          comments'[i].marker = Log => GoodLines(comments'[i].body, jobs', uses', comments')
    BY <1>0, <2>2, LogUntouched
  <2>5. DOMAIN uses' \subseteq DOMAIN jobs'
    BY <1>0, <2>2 DEF Started
  <2> QED
    BY <1>0, <2>3, <2>4, <2>5 DEF LogInv
<1>2. CASE \E j \in DOMAIN jobs : Step(j) \/ Die(j)
  <2>1. PICK j \in DOMAIN jobs : Step(j) \/ Die(j)
    BY <1>2
  <2>2. Moved(j) /\ JobShape(jobs'[j]) /\ jobs'[j].kind = jobs[j].kind /\ jobs[j].pc # "done"
    BY <1>0, <2>1, JobSteps
  <2>a. JobShape(jobs[j]) /\ LogJob(jobs[j], j, jobs, uses, comments)
    BY <1>0 DEF JobsInv, LogInv
  <2> DEFINE Rest == /\ DOMAIN uses' \subseteq DOMAIN jobs'
                     /\ \A k \in DOMAIN uses' : k # j => k \in DOMAIN uses
                     /\ LogJob(jobs'[j], j, jobs', uses', comments')
                     /\ \A i \in DOMAIN comments' :
                          comments'[i].marker = Log =>
                            GoodLines(comments'[i].body, jobs', uses', comments')
  <2>3. ASSUME jobs'[j].pc \notin {"verified", "concluded", "extending"}, UNCHANGED uses,
               \/ UNCHANGED comments
               \/ \E body : comments' = Upsert(Sticky, body)
        PROVE  Rest
    <3>1. LogJob(jobs'[j], j, jobs', uses', comments')
      BY <2>3 DEF LogJob
    <3>2. DOMAIN uses' \subseteq DOMAIN jobs'
      BY <1>0, <2>2, <2>3 DEF Moved
    <3>3. \A i \in DOMAIN comments' : comments'[i].marker = Log =>
            i \in DOMAIN comments /\ comments'[i] = comments[i]
      BY <1>0, <2>3, StickyIsNotTheLog
    <3> QED
      BY <1>0, <2>3, <3>1, <3>2, <3>3, LogUntouched
  <2>4. ASSUME Conclude(j) PROVE Rest
    <3>1. /\ jobs[j].pc = "verified" /\ UNCHANGED comments
          /\ uses' = [k \in DOMAIN uses \cup {j} |-> IF k = j THEN clock ELSE uses[k]]
          /\ jobs'[j] = [kind |-> "bypass", pc |-> "concluded",
               line |-> [at |-> clock, use |-> j]]
      BY <1>0, <2>4, GotoMoves DEF Conclude, At
    <3>2. j \notin DOMAIN uses
      BY <2>a, <3>1 DEF LogJob
    <3>3. DOMAIN uses' = DOMAIN uses \cup {j} /\ uses'[j] = clock
      BY <3>1, <3>2
    <3>4. LogJob(jobs'[j], j, jobs', uses', comments')
      BY <3>1, <3>3 DEF LogJob
    <3>5. \A i \in DOMAIN comments' :
            comments'[i].marker = Log => GoodLines(comments'[i].body, jobs', uses', comments')
      BY <1>0, <3>1, LogUntouched
    <3> QED
      BY <1>0, <2>2, <3>3, <3>4, <3>5 DEF Moved
  <2>5. ASSUME ReadLog(j) PROVE Rest
    <3>1. /\ jobs[j].pc = "concluded" /\ UNCHANGED <<comments, uses>>
          /\ jobs'[j] = [kind |-> "bypass", pc |-> "extending", line |-> jobs[j].line,
                         saw |-> LinesOf(FindIssueComment(Log))]
      BY <1>0, <2>5, GotoMoves DEF ReadLog, At
    <3>2. GoodLines(LinesOf(FindIssueComment(Log)), jobs', uses', comments')
      <4>1. /\ \A k \in DOMAIN jobs : jobs[k].pc = "done" =>
                 k \in DOMAIN jobs' /\ jobs'[k] = jobs[k]
            /\ \A k \in DOMAIN uses : k \in DOMAIN uses' /\ uses'[k] = uses[k]
            /\ SaidByPeople(comments) => SaidByPeople(comments')
        BY <1>0, Remembered
      <4> QED
        BY <4>1, LogIsGood, LinesKept
    <3>3. LogJob(jobs'[j], j, jobs', uses', comments')
      BY <2>a, <3>1, <3>2 DEF LogJob
    <3>4. \A i \in DOMAIN comments' :
            comments'[i].marker = Log => GoodLines(comments'[i].body, jobs', uses', comments')
      BY <1>0, <3>1, LogUntouched
    <3> QED
      BY <1>0, <2>2, <3>1, <3>3, <3>4 DEF Moved
  <2>6. ASSUME WriteLog(j) PROVE Rest
    <3>1. /\ jobs[j].pc = "extending" /\ UNCHANGED uses
          /\ comments' = Upsert(Log, ExtendedLog(jobs[j].saw, jobs[j].line))
          /\ jobs'[j] = [kind |-> jobs[j].kind, pc |-> "done"]
      BY <1>0, <2>6, EndedMoves DEF WriteLog, At
    <3>2. GoodLines(ExtendedLog(jobs[j].saw, jobs[j].line), jobs', uses', comments')
      <4>1. GoodLines(jobs[j].saw, jobs, uses, comments) /\ jobs[j].line.use = j
            /\ j \in DOMAIN uses /\ uses[j] = jobs[j].line.at
        BY <2>a, <3>1 DEF LogJob
      <4>2. DOMAIN jobs' = DOMAIN jobs /\ jobs'[j].pc = "done"
            /\ \A k \in DOMAIN jobs : k # j => jobs'[k] = jobs[k]
        BY <2>2, <3>1 DEF Moved
      <4>3. j # 0 /\ (SaidByPeople(comments) => SaidByPeople(comments'))
        BY <1>0, Remembered DEF IsSeq
      <4>4. GoodLines(ExtendedLog(jobs[j].saw, jobs[j].line), jobs', uses, comments')
        BY <2>2, <4>1, <4>2, <4>3, LineAdded
      <4> QED
        BY <3>1, <4>4
    <3>3. LogJob(jobs'[j], j, jobs', uses', comments')
      BY <3>1 DEF LogJob
    <3>4. ASSUME NEW i \in DOMAIN comments', comments'[i].marker = Log
          PROVE  GoodLines(comments'[i].body, jobs', uses', comments')
      <4>1. /\ DOMAIN comments' = DOMAIN comments \cup {Target(Log)}
            /\ comments'[Target(Log)].body = ExtendedLog(jobs[j].saw, jobs[j].line)
            /\ \A k \in DOMAIN comments : k # Target(Log) => comments'[k] = comments[k]
        BY <1>0, <3>1, Upserted
      <4>2. CASE i = Target(Log)
        BY <3>2, <4>1, <4>2
      <4>3. CASE i # Target(Log)
        <5>1. i \in DOMAIN comments /\ comments'[i] = comments[i]
              /\ GoodLines(comments[i].body, jobs, uses, comments)
          BY <3>4, <4>1, <4>3 DEF LogInv
        <5>2. /\ \A k \in DOMAIN jobs : jobs[k].pc = "done" =>
                   k \in DOMAIN jobs' /\ jobs'[k] = jobs[k]
              /\ \A k \in DOMAIN uses : k \in DOMAIN uses' /\ uses'[k] = uses[k]
              /\ SaidByPeople(comments) => SaidByPeople(comments')
          BY <1>0, Remembered
        <5> QED
          BY <5>1, <5>2, LinesKept
      <4> QED
        BY <4>2, <4>3
    <3> QED
      BY <1>0, <2>2, <3>1, <3>3, <3>4 DEF Moved
  <2>7. ASSUME Die(j) \/ WriteLedger(j) \/ WriteSticky(j) PROVE Rest
    <3>1. jobs'[j].pc = "done" /\ UNCHANGED uses
      <4>1. Ended(j) /\ UNCHANGED uses
        BY <2>7 DEF Die, WriteLedger, WriteSticky
      <4>2. jobs'[j] = [kind |-> jobs[j].kind, pc |-> "done"]
        BY <1>0, <4>1, EndedMoves
      <4> QED
        BY <4>1, <4>2
    <3>2. UNCHANGED comments \/ \E body : comments' = Upsert(Sticky, body)
      BY <2>7 DEF Die, WriteLedger, WriteSticky
    <3> QED
      BY <2>3, <3>1, <3>2
  <2>8. ASSUME \/ Walk(j) \/ Classify(j) \/ Reread(j) \/ ReviewAndReconcile(j)
               \/ PublishReview(j) \/ Sweep(j) \/ FileEscapedFinding(j)
        PROVE  Rest
    <3>1. UNCHANGED <<comments, uses>>
      BY <2>8 DEF Walk, Classify, Reread, ReviewAndReconcile, PublishReview, Sweep,
         FileEscapedFinding
    <3>2. jobs[j].kind # "bypass"
      BY <2>8, <2>a DEF Walk, Classify, Reread, ReviewAndReconcile, PublishReview, Sweep,
         FileEscapedFinding, At, JobShape, StagesOf, Stages
    <3>3. jobs'[j].pc \notin {"verified", "concluded", "extending"}
      BY <2>2, <3>2 DEF JobShape, StagesOf, Stages
    <3> QED
      BY <2>3, <3>1, <3>3
  <2>9. Rest
    <3> HIDE DEF Rest
    <3> QED
      BY <2>1, <2>4, <2>5, <2>6, <2>7, <2>8 DEF Step
  <2>10. ASSUME NEW k \in DOMAIN jobs' PROVE LogJob(jobs'[k], k, jobs', uses', comments')
    BY <2>2, <2>9, LogJobKept DEF Moved
  <2> QED
    BY <1>0, <2>9, <2>10 DEF LogInv
<1>3. CASE Human \/ UNCHANGED vars
  <2>1. UNCHANGED <<jobs, uses>> /\ (UNCHANGED comments \/ Restate)
    BY <1>3 DEF Human, Downvote, ResolveByHand, Reply, Restate, RestateSticky,
       RestateLog, Push, PutLabel, Merge, Tick, vars
  <2>2. \A i \in DOMAIN comments' : comments'[i].marker = Log =>
          \/ i \in DOMAIN comments /\ comments'[i] = comments[i]
          \/ GoodLines(comments'[i].body, jobs', uses', comments')
    <3>1. CASE UNCHANGED comments
      BY <3>1
    <3>2. CASE RestateSticky
      <4>1. PICK who, body :
              comments' = Append(comments, [marker |-> Sticky, poster |-> who, body |-> body])
        BY <3>2 DEF RestateSticky
      <4> QED
        BY <1>0, <4>1, Restated DEF Sticky, Log, Says
    <3>3. CASE RestateLog
      <4>1. PICK body :
              /\ comments' = Append(comments,
                              [marker |-> Log, poster |-> "author", body |-> body])
              /\ GoodLines(body, jobs, uses, comments')
        BY <3>3, SaidIsGood
      <4>2. /\ DOMAIN comments' = DOMAIN comments \cup {Len(comments) + 1}
            /\ comments'[Len(comments) + 1].body = body
            /\ \A i \in DOMAIN comments : comments'[i] = comments[i]
        BY <1>0, <4>1, Restated DEF Says
      <4> QED
        BY <2>1, <4>1, <4>2
    <3> QED
      BY <2>1, <3>1, <3>2, <3>3 DEF Restate
  <2>3. \A i \in DOMAIN comments' :
          comments'[i].marker = Log => GoodLines(comments'[i].body, jobs', uses', comments')
    BY <1>0, <2>2, LogUntouched
  <2>4. \A j \in DOMAIN jobs' : LogJob(jobs'[j], j, jobs', uses', comments')
    BY <2>1, LogJobKept
  <2> QED
    BY <1>0, <2>1, <2>3, <2>4 DEF LogInv
<1> QED
  BY <1>1, <1>2, <1>3 DEF Next, Human

\* It holds at first.
LEMMA LogInit == Init => LogInv
<1> SUFFICES ASSUME Init PROVE LogInv
  OBVIOUS
<1> DEFINE c == [marker |-> Sticky, poster |-> Cite, body |-> StickyBody(
                  [EmptyState EXCEPT !.safe = TRUE, !.shas = Path :> file])]
<1>1. comments = <<c>> /\ c.marker = Sticky /\ IsComment(c)
  BY DEF Init, IsComment
<1> HIDE DEF c
<1>2. CommentsInv
  <2>1. comments \in Seq({c}) /\ DOMAIN comments = {1} /\ comments[1] = c
    BY <1>1
  <2> QED
    BY <1>1, <2>1, SeqIsSeq DEF CommentsInv, CommentsShape
<1>3. jobs = <<>> /\ uses = <<>> /\ IsSeq(jobs) /\ Len(jobs) = 0 /\ DOMAIN jobs = {}
      /\ DOMAIN uses = {}
  BY DEF Init, IsSeq, ToSet
<1>4. JobsInv
  BY <1>3, ConversationAssumption DEF JobsInv
<1>5. Sticky # Log
  BY DEF Sticky, Log
<1> QED
  BY <1>1, <1>2, <1>3, <1>4, <1>5 DEF LogInv

\* LinesAreUses: however many break-glass jobs overlap or die, and whatever people
\* do, copying the log among it, each line of it that a job wrote is of a bypass of
\* its own that took effect when it says, and no bypass has two; any other line was
\* written by people under the marker of the log (bypass.go:120-170,
\* checks.go:444-465).
THEOREM LogIsTrue == Spec => []LinesAreUses
<1>1. LogInv => LinesAreUses
  BY LogIsGood DEF LinesAreUses, GoodLines
<1> QED
  BY <1>1, LogInit, LogStep, PTL DEF Spec

-----------------------------------------------------------------------------
(* The issues of a re-review.                                              *)

\* There is a reason to look at the merge again.
Justified(cutoff, m, u, cs) ==
  /\ m # None /\ m >= cutoff
  /\ (\E k \in DOMAIN u : u[k] >= cutoff) \/ SaidByPeople(cs)

\* IssuesTraceToTheLog is not inductive: a job must not have an issue to file
\* that it has filed, and must have had its reason before it files any.
IssueInv ==
  /\ IsSeq(issues)
  /\ \A i, k \in DOMAIN issues : issues[i] = issues[k] => i = k
  /\ \A i \in DOMAIN issues :
       /\ issues[i].job \in DOMAIN jobs
       /\ jobs[issues[i].job].kind = "re-review" /\ jobs[issues[i].job].pc # "opened"
       /\ jobs[issues[i].job].pc = "filing" => issues[i].fp \notin jobs[issues[i].job].todo
       /\ jobs[issues[i].job].pc # "done" =>
            Justified(jobs[issues[i].job].cutoff, merged, uses, comments)
  /\ \A j \in DOMAIN jobs :
       jobs[j].pc = "filing" => Justified(jobs[j].cutoff, merged, uses, comments)

\* A reason does not go away.
LEMMA JustifiedForGood ==
  LogInv /\ [Next]_vars => \A cutoff : Justified(cutoff, merged, uses, comments) =>
              Justified(cutoff, merged', uses', comments')
<1> SUFFICES ASSUME LogInv, [Next]_vars, NEW cutoff, Justified(cutoff, merged, uses, comments)
             PROVE  Justified(cutoff, merged', uses', comments')
  OBVIOUS
<1>1. /\ \A k \in DOMAIN uses : k \in DOMAIN uses' /\ uses'[k] = uses[k]
      /\ SaidByPeople(comments) => SaidByPeople(comments')
  BY Remembered
<1>2. merged # None => merged' = merged
  BY DEF Next, StartSignals, StartReview, StartBypass, StartReReview, Start, Step, Die, Walk,
     Classify, Reread, WriteLedger, ReviewAndReconcile, PublishReview, WriteSticky, Conclude,
     ReadLog, WriteLog, Sweep, FileEscapedFinding, Downvote, ResolveByHand, Reply, Restate,
     RestateSticky, RestateLog, Push, PutLabel, Merge, Tick, vars, world
<1> QED
  BY <1>1, <1>2 DEF Justified

\* A job with something to file has looked into the log.
LEMMA SweepIsJustified ==
  ASSUME LogInv, NEW j \in DOMAIN jobs, Sweep(j)
  PROVE  /\ jobs'[j].kind = "re-review" /\ jobs'[j].pc \in {"swept", "filing"}
         /\ jobs'[j].pc = "filing" => Justified(jobs'[j].cutoff, merged, uses, comments)
<1>0. IsSeq(jobs)
  BY DEF LogInv, JobsInv
<1> DEFINE lines == IF RecentlyMerged(jobs[j].cutoff)
                    THEN LinesOf(FindIssueComment(Log)) ELSE <<>>
           due   == parseBypassLog(lines, jobs[j].cutoff) # {}
<1>1. CASE \E r, o, d : Swept(j, r, o, d)
  BY <1>0, <1>1, GotoMoves DEF Swept
<1>2. CASE due /\ \E r, o, t :
             Goto(j, [kind |-> "re-review", pc |-> "filing", read |-> r,
                      ok |-> o, cutoff |-> jobs[j].cutoff, todo |-> t])
  <2>1. PICK i \in DOMAIN lines : lines[i].at >= jobs[j].cutoff
    BY <1>2 DEF parseBypassLog
  <2>2. RecentlyMerged(jobs[j].cutoff) /\ lines = LinesOf(FindIssueComment(Log))
    BY <2>1
  <2>3. \/ lines[i].use \in DOMAIN uses /\ uses[lines[i].use] = lines[i].at
        \/ SaidByPeople(comments)
    BY <2>1, <2>2, LogIsGood DEF GoodLines
  <2>4. Justified(jobs[j].cutoff, merged, uses, comments)
    BY <2>1, <2>2, <2>3 DEF Justified, RecentlyMerged
  <2>5. UNCHANGED <<merged, uses, comments>>
    BY DEF Sweep, world
  <2>6. jobs'[j].kind = "re-review" /\ jobs'[j].pc = "filing"
        /\ jobs'[j].cutoff = jobs[j].cutoff
    BY <1>0, <1>2, GotoMoves
  <2> QED
    BY <2>4, <2>5, <2>6 DEF Justified
<1> QED
  BY <1>1, <1>2, Zenon DEF Sweep

\* IssueInv is inductive, next to LogInv.
LEMMA IssueStep == LogInv /\ IssueInv /\ [Next]_vars => IssueInv'
<1> SUFFICES ASSUME LogInv, IssueInv, [Next]_vars PROVE IssueInv'
  OBVIOUS
<1>0. JobsInv /\ IsSeq(jobs)
      /\ \A cutoff : Justified(cutoff, merged, uses, comments) =>
                       Justified(cutoff, merged', uses', comments')
  BY JustifiedForGood DEF LogInv, JobsInv
\* The job behind an issue goes on filing, or is over.
<1> DEFINE Onwards(b, c) ==
             /\ c.kind = b.kind
             /\ c = b \/ c.pc = "done"
                \/ (b.pc = "filing" /\ c.pc \in {"filing", "swept"} /\ c.cutoff = b.cutoff
                     /\ (c.pc = "filing" => c.todo \subseteq b.todo))
<1>1. ASSUME UNCHANGED issues,
             \A k \in DOMAIN jobs : jobs[k].kind = "re-review" /\ jobs[k].pc # "opened" =>
               k \in DOMAIN jobs' /\ Onwards(jobs[k], jobs'[k]),
             \A k \in DOMAIN jobs' : jobs'[k].pc = "filing" =>
               Justified(jobs'[k].cutoff, merged', uses', comments')
      PROVE  IssueInv'
  <2>1. IsSeq(issues') /\ \A i, k \in DOMAIN issues' : issues'[i] = issues'[k] => i = k
    BY <1>1 DEF IssueInv
  <2>2. ASSUME NEW i \in DOMAIN issues'
        PROVE  /\ issues'[i].job \in DOMAIN jobs'
               /\ jobs'[issues'[i].job].kind = "re-review"
               /\ jobs'[issues'[i].job].pc # "opened"
               /\ jobs'[issues'[i].job].pc = "filing" =>
                    issues'[i].fp \notin jobs'[issues'[i].job].todo
               /\ jobs'[issues'[i].job].pc # "done" =>
                    Justified(jobs'[issues'[i].job].cutoff, merged', uses', comments')
    <3> DEFINE k == issues[i].job
    <3>1. /\ i \in DOMAIN issues /\ issues'[i] = issues[i] /\ k \in DOMAIN jobs
          /\ jobs[k].kind = "re-review" /\ jobs[k].pc # "opened"
          /\ jobs[k].pc = "filing" => issues[i].fp \notin jobs[k].todo
          /\ jobs[k].pc # "done" => Justified(jobs[k].cutoff, merged, uses, comments)
      BY <1>1 DEF IssueInv
    <3>2. k \in DOMAIN jobs' /\ Onwards(jobs[k], jobs'[k])
      BY <1>1, <3>1
    <3> HIDE DEF k
    <3>3. jobs'[k].kind = "re-review" /\ jobs'[k].pc # "opened"
          /\ (jobs'[k].pc = "filing" => issues[i].fp \notin jobs'[k].todo)
      BY <3>1, <3>2
    <3>4. jobs'[k].pc # "done" =>
            Justified(jobs[k].cutoff, merged', uses', comments') /\ jobs'[k].cutoff = jobs[k].cutoff
      BY <1>0, <3>1, <3>2
    <3> QED
      BY <3>1, <3>2, <3>3, <3>4 DEF k
  <2> QED
    BY <1>1, <2>1, <2>2 DEF IssueInv
<1>2. CASE StartSignals \/ StartReview \/ StartBypass \/ StartReReview
  <2>1. PICK job : Start(job) /\ job.pc \in {"opened", "verified"}
    BY <1>2 DEF StartSignals, StartReview, StartBypass, StartReReview
  <2>2. Started(job) /\ UNCHANGED issues
    BY <1>0, <2>1, StartStarts
  <2>3. ASSUME NEW k \in DOMAIN jobs', jobs'[k].pc = "filing"
      PROVE  Justified(jobs'[k].cutoff, merged', uses', comments')
    <3>1. k \in DOMAIN jobs /\ jobs'[k] = jobs[k]
      BY <2>1, <2>2, <2>3 DEF Started
    <3> QED
      BY <1>0, <2>3, <3>1 DEF IssueInv
  <2> QED
    BY <1>1, <2>2, <2>3 DEF Started
<1>3. CASE \E j \in DOMAIN jobs : Step(j) \/ Die(j)
  <2>1. PICK j \in DOMAIN jobs : Step(j) \/ Die(j)
    BY <1>3
  <2>2. Moved(j) /\ JobShape(jobs'[j]) /\ jobs'[j].kind = jobs[j].kind /\ jobs[j].pc # "done"
        /\ JobShape(jobs[j])
    BY <1>0, <2>1, JobSteps DEF JobsInv
  <2>3. ASSUME UNCHANGED issues,
               jobs[j].kind = "re-review" /\ jobs[j].pc # "opened" => Onwards(jobs[j], jobs'[j]),
               jobs'[j].pc = "filing" => Justified(jobs'[j].cutoff, merged', uses', comments')
        PROVE  IssueInv'
    <3>1. ASSUME NEW k \in DOMAIN jobs', jobs'[k].pc = "filing"
          PROVE  Justified(jobs'[k].cutoff, merged', uses', comments')
      <4>1. CASE k = j
        BY <2>3, <3>1, <4>1
      <4>2. CASE k # j
        BY <1>0, <2>2, <3>1, <4>2 DEF IssueInv, Moved
      <4> QED
        BY <4>1, <4>2
    <3>2. ASSUME NEW k \in DOMAIN jobs, jobs[k].kind = "re-review" /\ jobs[k].pc # "opened"
          PROVE  k \in DOMAIN jobs' /\ Onwards(jobs[k], jobs'[k])
      <4>1. CASE k = j
        BY <2>2, <2>3, <3>2, <4>1 DEF Moved
      <4>2. CASE k # j
        BY <2>2, <4>2 DEF Moved
      <4> QED
        BY <4>1, <4>2
    <3> HIDE DEF Onwards
    <3> QED
      BY <1>1, <2>3, <3>1, <3>2
  <2>4. CASE Sweep(j)
    <3>1. jobs[j].pc = "opened" /\ UNCHANGED issues
      BY <2>4 DEF Sweep, At
    <3>2. jobs'[j].pc = "filing" => Justified(jobs'[j].cutoff, merged, uses, comments)
      BY <2>4, SweepIsJustified
    <3>3. UNCHANGED <<merged, uses, comments>>
      BY <2>4 DEF Sweep, world
    <3>4. jobs'[j].pc = "filing" => Justified(jobs'[j].cutoff, merged', uses', comments')
      BY <3>2, <3>3 DEF Justified
    <3> QED
      BY <2>3, <3>1, <3>4
  <2>5. CASE FileEscapedFinding(j)
    <3>0. jobs[j].pc = "filing" /\ jobs[j].kind = "re-review"
          /\ {"kind", "pc", "todo", "ok", "cutoff"} \subseteq DOMAIN jobs[j]
          /\ Justified(jobs[j].cutoff, merged, uses, comments)
      BY <2>2, <2>5 DEF FileEscapedFinding, At, JobShape, StagesOf, Stages, IssueInv
    <3>1. CASE Swept(j, jobs[j].read, jobs[j].ok, TRUE) /\ UNCHANGED issues
      <4>1. jobs'[j].pc = "swept" /\ jobs'[j].cutoff = jobs[j].cutoff
        BY <1>0, <3>1, GotoMoves DEF Swept
      <4> QED
        BY <2>2, <2>3, <3>0, <3>1, <4>1
    <3>2. ASSUME NEW fp \in jobs[j].todo, NEW filed \in BOOLEAN,
                 Goto(j, [jobs[j] EXCEPT !.todo = @ \ {fp}, !.ok = @ /\ filed]),
                 issues' = IF filed THEN Append(issues, [fp |-> fp, job |-> j]) ELSE issues
          PROVE  IssueInv'
      <4> DEFINE ok == jobs[j].ok /\ filed
                 b == [jobs[j] EXCEPT !.todo = jobs[j].todo \ {fp}, !.ok = ok]
      <4>1. jobs'[j] = b
        <5>1. Goto(j, b)
          BY <3>2
        <5> HIDE DEF b
        <5> QED
          BY <1>0, <5>1, GotoMoves
      <4>2. /\ jobs'[j].pc = "filing" /\ jobs'[j].cutoff = jobs[j].cutoff
            /\ jobs'[j].todo = jobs[j].todo \ {fp}
        <5> HIDE DEF ok
        <5> QED
          BY <3>0, <4>1
      <4>3. Justified(jobs'[j].cutoff, merged', uses', comments')
        BY <1>0, <3>0, <4>2
      <4>4. CASE UNCHANGED issues
        BY <2>2, <2>3, <3>0, <4>2, <4>3, <4>4
      <4>5. CASE issues' = Append(issues, [fp |-> fp, job |-> j])
        <5> DEFINE e == [fp |-> fp, job |-> j]
                   n == Len(issues) + 1
        <5>1. /\ IsSeq(issues') /\ DOMAIN issues = 1..Len(issues) /\ Len(issues) \in Nat
              /\ DOMAIN issues' = 1..n /\ issues'[n] = e
              /\ \A i \in DOMAIN issues : issues'[i] = issues[i]
          BY <4>5, Appended DEF IssueInv
        <5>2. \A i \in DOMAIN issues : issues[i] # e
          BY <3>0 DEF IssueInv
        <5>3. \A i \in DOMAIN issues' : i = n \/ i \in DOMAIN issues
          BY <5>1
        <5>4. e.fp = fp /\ e.job = j
          OBVIOUS
        <5> HIDE DEF e, n
        <5>5. \A i, k \in DOMAIN issues' : issues'[i] = issues'[k] => i = k
          BY <5>1, <5>2, <5>3 DEF IssueInv
        <5>6. ASSUME NEW i \in DOMAIN issues'
              PROVE  /\ issues'[i].job \in DOMAIN jobs'
                     /\ jobs'[issues'[i].job].kind = "re-review"
                     /\ jobs'[issues'[i].job].pc # "opened"
                     /\ jobs'[issues'[i].job].pc = "filing" =>
                          issues'[i].fp \notin jobs'[issues'[i].job].todo
                     /\ jobs'[issues'[i].job].pc # "done" =>
                          Justified(jobs'[issues'[i].job].cutoff, merged', uses', comments')
          <6>1. CASE issues'[i] = e
            BY <2>2, <3>0, <4>2, <4>3, <5>4, <6>1 DEF Moved
          <6>2. CASE issues'[i] # e
            <7>1. i \in DOMAIN issues /\ issues'[i] = issues[i]
              BY <5>1, <5>3, <6>2
            <7> DEFINE k == issues[i].job
            <7>2. /\ k \in DOMAIN jobs /\ jobs[k].kind = "re-review" /\ jobs[k].pc # "opened"
                  /\ jobs[k].pc = "filing" => issues[i].fp \notin jobs[k].todo
                  /\ jobs[k].pc # "done" => Justified(jobs[k].cutoff, merged, uses, comments)
              BY <7>1 DEF IssueInv
            <7> HIDE DEF k
            <7>3. CASE k = j
              BY <2>2, <3>0, <4>2, <4>3, <7>1, <7>2, <7>3 DEF Moved, k
            <7>4. CASE k # j
              BY <1>0, <2>2, <7>1, <7>2, <7>4 DEF Moved, k
            <7> QED
              BY <7>3, <7>4
          <6> QED
            BY <6>1, <6>2
        <5>7. \A k \in DOMAIN jobs' : jobs'[k].pc = "filing" =>
                Justified(jobs'[k].cutoff, merged', uses', comments')
          BY <1>0, <2>2, <4>3 DEF IssueInv, Moved
        <5> QED
          BY <5>1, <5>5, <5>6, <5>7 DEF IssueInv
      <4> QED
        BY <3>2, <4>4, <4>5
    <3> QED
      BY <2>5, <3>1, <3>2 DEF FileEscapedFinding
  <2>6. CASE ~Sweep(j) /\ ~FileEscapedFinding(j) /\ ~Die(j)
    <3>1. UNCHANGED issues /\ jobs[j].pc \notin {"filing", "swept"}
          /\ (jobs[j].kind = "re-review" => jobs[j].pc \in {"opened", "filing", "swept", "done"})
      BY <2>1, <2>2, <2>6 DEF Step, Walk, Classify, Reread, WriteLedger,
         ReviewAndReconcile, PublishReview, WriteSticky, Conclude, ReadLog, WriteLog, world, At,
         JobShape, StagesOf, Stages
    <3>2. ~(jobs[j].kind = "re-review" /\ jobs[j].pc # "opened")
      BY <2>2, <3>1
    <3>3. jobs[j].kind # "re-review"
      BY <2>1, <2>2, <2>6 DEF Step, Walk, Classify, Reread, WriteLedger,
         ReviewAndReconcile, PublishReview, WriteSticky, Conclude, ReadLog, WriteLog, At,
         JobShape, StagesOf, Stages
    <3>4. jobs'[j].pc # "filing"
      BY <2>2, <3>3 DEF JobShape, StagesOf, Stages
    <3> QED
      BY <2>3, <3>1, <3>2, <3>4
  <2>7. CASE Die(j)
    <3>1. UNCHANGED issues /\ jobs'[j] = [kind |-> jobs[j].kind, pc |-> "done"]
      BY <1>0, <2>7, EndedMoves DEF Die
    <3> QED
      BY <2>2, <2>3, <3>1
  <2> QED
    BY <2>1, <2>4, <2>5, <2>6, <2>7
<1>4. CASE Human \/ UNCHANGED vars
  <2>1. UNCHANGED <<jobs, issues>>
    BY <1>4 DEF Human, Downvote, ResolveByHand, Reply, Restate, RestateSticky,
       RestateLog, Push, PutLabel, Merge, Tick, vars
  <2>2. \A k \in DOMAIN jobs' : jobs'[k].pc = "filing" =>
          Justified(jobs'[k].cutoff, merged', uses', comments')
    BY <1>0, <2>1 DEF IssueInv
  <2> QED
    BY <1>1, <2>1, <2>2
<1> QED
  BY <1>2, <1>3, <1>4 DEF Next, Human

\* IssuesTraceToTheLog: an issue is filed for a finding only once by a job, on a
\* pull request merged within its window, and for a bypass within that window unless
\* people have written under the marker of the log (rereview.go:60-140).
THEOREM IssuesAreJustified == Spec => []IssuesTraceToTheLog
<1>1. Init => IssueInv
  <2> SUFFICES ASSUME Init PROVE IssueInv
    OBVIOUS
  <2>1. issues = <<>> /\ jobs = <<>> /\ IsSeq(issues) /\ DOMAIN issues = {} /\ DOMAIN jobs = {}
    BY DEF Init, IsSeq, ToSet
  <2> QED
    BY <2>1 DEF IssueInv
<1>2. LogInv /\ IssueInv => IssuesTraceToTheLog
  <2> SUFFICES ASSUME LogInv, IssueInv PROVE IssuesTraceToTheLog
    OBVIOUS
  <2>1. IsInjective(issues)
    BY DEF IssueInv, IsInjective
  <2>2. ASSUME NEW i \in DOMAIN issues, "cutoff" \in DOMAIN jobs[issues[i].job]
        PROVE  Justified(jobs[issues[i].job].cutoff, merged, uses, comments)
    <3>1. issues[i].job \in DOMAIN jobs
      BY DEF IssueInv
    <3>2. jobs[issues[i].job].pc # "done"
      BY <2>2, <3>1 DEF LogInv, JobsInv, JobShape
    <3> QED
      BY <3>2 DEF IssueInv
  <2> QED
    BY <2>1, <2>2 DEF IssuesTraceToTheLog, Knows, Bypassed, Justified, RecentlyMerged
<1> QED
  BY <1>1, <1>2, IssueStep, LogInit, LogStep, PTL DEF Spec

-----------------------------------------------------------------------------
(* The sticky comment.                                                     *)

\* What the conversation says of threads.
Thread == [fp : Fps, by : {Nobody, Cite, "person"}, down : BOOLEAN, replies : Seq(People)]

\* Attested, by the threads th.
Attests(th, e) ==
  \E t \in DOMAIN th :
    /\ th[t].fp = e.fp
    /\ \/ e.kind = "published"
       \/ e.kind = "dismissal" /\ e.author = "reaction" /\ th[t].down
       \/ e.kind = "dismissal" /\ e.author = "thread-resolution" /\ th[t].by # Nobody
       \/ /\ e.kind = "dismissal" /\ e.author = "member"
          /\ \E k \in DOMAIN th[t].replies : th[t].replies[k] = "member"
       \/ e.kind \in {"resolved", "accepted-and-fixed"} /\ th[t].by # Nobody

\* Entries by the time c that the threads th attest.
GoodEntries(L, th, c) ==
  \A e \in L : /\ e.kind \in EntryKinds /\ e.fp \in Fps /\ e.at \in 0..c
               /\ e.kind = "resolved" => e.coarse = Coarse[e.fp]
               /\ Attests(th, e)

\* What can silence a review has been written by a signals job.
Known(L, R) == \A e \in L : e.kind \in {"dismissal", "resolved"} => e \in R

\* A state that a review may start from.
GoodState(s, th, R, c) ==
  /\ {"ledger", "replies"} \subseteq DOMAIN s
  /\ s.ledger # Corrupt => GoodEntries(s.ledger, th, c) /\ Known(s.ledger, R)

GoodBody(body, th, R, c) ==
  /\ Len(body) \in Nat /\ DOMAIN body = 1..Len(body)
  /\ \A k \in DOMAIN body :
       body[k].token = "<!-- cite-state=" => GoodState(body[k].state, th, R, c)

\* No entry that the job has read is missing from its ledger.
Covers(b) == b.saw.ledger # Corrupt => b.saw.ledger \subseteq b.ledger

Findable == {Finding(fp) : fp \in Fps}

\* What a job holds of the state, and of the threads it has read.
GoodJob(b, th, R, c) ==
  /\ b.kind = "signals" /\ b.pc \in {"walked", "reread"} =>
       GoodEntries(b.ledger, th, c) /\ Covers(b)
  /\ b.pc = "walked" =>
       /\ b.now \in 0..c
       /\ \A t \in DOMAIN b.replies :
            /\ t \in DOMAIN th
            /\ \A k \in DOMAIN b.replies[t] :
                 k \in DOMAIN th[t].replies /\ th[t].replies[k] = b.replies[t][k]
  /\ b.pc = "reread" => {"ledger", "replies"} \subseteq DOMAIN b.state
                        /\ b.state.ledger = b.ledger
  /\ b.kind = "review" /\ b.pc = "opened" =>
       b.head \in Contents /\ GoodState(b.saw, th, R, c)
  /\ b.pc \in {"reconciled", "published"} =>
       GoodEntries(b.ledger, th, c) /\ Known(b.ledger, R) /\ Covers(b)
  /\ b.pc = "reconciled" =>
       /\ b.plan.post \in Seq(Findable)
       /\ \A i \in b.plan.suppressed : \E e \in R :
            /\ b.now - e.at < LedgerExpiry
            /\ \/ e.kind = "dismissal" /\ e.fp = b.found[i].fp
               \/ /\ e.kind = "resolved" /\ e.blob = b.head
                  /\ Coarse[e.fp] = Coarse[b.found[i].fp]

WorldTypes ==
  /\ file \in Contents /\ threads \in Seq(Thread)
  /\ label \in BOOLEAN /\ clock \in Nat /\ merged \in 0..clock \cup {None}
  /\ events \in Nat /\ events <= MaxEvents

\* LedgerIsTrue and SuppressedForCause are not inductive: an entry is in a job's
\* hands before it is in the comment, and what is in a comment goes back into a
\* job's.  And a review is silent for what it holds, recorded before it held it.
MemoryInv ==
  /\ CommentsInv /\ JobsInv /\ WorldTypes
  /\ \A i \in DOMAIN comments : comments[i].marker = Sticky =>
       GoodBody(comments[i].body, threads, recorded, clock)
  /\ \A j \in DOMAIN jobs : GoodJob(jobs[j], threads, recorded, clock)

\* Threads gain reactions, resolutions and replies, and lose nothing.
Grown(th, uh) ==
  \A t \in DOMAIN th :
    /\ t \in DOMAIN uh /\ uh[t].fp = th[t].fp
    /\ th[t].down => uh[t].down
    /\ th[t].by # Nobody => uh[t].by # Nobody
    /\ \A k \in DOMAIN th[t].replies :
         k \in DOMAIN uh[t].replies /\ uh[t].replies[k] = th[t].replies[k]

\* What was true of a ledger stays true.
LEMMA EntriesKept ==
  ASSUME NEW th, NEW uh, Grown(th, uh), NEW c \in Nat, NEW d \in Nat, c <= d, NEW L,
         GoodEntries(L, th, c)
  PROVE  GoodEntries(L, uh, d)
<1> SUFFICES ASSUME NEW e \in L
             PROVE  /\ e.kind \in EntryKinds /\ e.fp \in Fps /\ e.at \in 0..d
                    /\ e.kind = "resolved" => e.coarse = Coarse[e.fp]
                    /\ Attests(uh, e)
  BY DEF GoodEntries
<1>1. /\ e.kind \in EntryKinds /\ e.fp \in Fps /\ e.at \in 0..c
      /\ e.kind = "resolved" => e.coarse = Coarse[e.fp]
      /\ Attests(th, e)
  BY DEF GoodEntries
<1>2. e.at \in 0..d
  BY <1>1
<1>3. Attests(uh, e)
  <2>1. PICK t \in DOMAIN th :
          /\ th[t].fp = e.fp
          /\ \/ e.kind = "published"
             \/ e.kind = "dismissal" /\ e.author = "reaction" /\ th[t].down
             \/ e.kind = "dismissal" /\ e.author = "thread-resolution" /\ th[t].by # Nobody
             \/ /\ e.kind = "dismissal" /\ e.author = "member"
                /\ \E k \in DOMAIN th[t].replies : th[t].replies[k] = "member"
             \/ e.kind \in {"resolved", "accepted-and-fixed"} /\ th[t].by # Nobody
    BY <1>1 DEF Attests
  <2>2. /\ t \in DOMAIN uh /\ uh[t].fp = th[t].fp
        /\ th[t].down => uh[t].down
        /\ th[t].by # Nobody => uh[t].by # Nobody
        /\ \A k \in DOMAIN th[t].replies :
             k \in DOMAIN uh[t].replies /\ uh[t].replies[k] = th[t].replies[k]
    BY DEF Grown
  <2> QED
    BY <2>1, <2>2 DEF Attests
<1> QED
  BY <1>1, <1>2, <1>3

\* So does what was true of a state, ...
LEMMA StateKept ==
  ASSUME NEW th, NEW uh, Grown(th, uh), NEW c \in Nat, NEW d \in Nat, c <= d,
         NEW R, NEW Q, R \subseteq Q, NEW s, GoodState(s, th, R, c)
  PROVE  GoodState(s, uh, Q, d)
  BY EntriesKept DEF GoodState, Known

\* ... of a comment's body, ...
LEMMA BodyKept ==
  ASSUME NEW th, NEW uh, Grown(th, uh), NEW c \in Nat, NEW d \in Nat, c <= d,
         NEW R, NEW Q, R \subseteq Q, NEW body, GoodBody(body, th, R, c)
  PROVE  GoodBody(body, uh, Q, d)
<1>1. \A s : GoodState(s, th, R, c) => GoodState(s, uh, Q, d)
  BY StateKept
<1> QED
  BY <1>1 DEF GoodBody

\* ... and of a job.
LEMMA JobKept ==
  ASSUME NEW th, NEW uh, Grown(th, uh), NEW c \in Nat, NEW d \in Nat, c <= d,
         NEW R, NEW Q, R \subseteq Q, NEW b, GoodJob(b, th, R, c)
  PROVE  GoodJob(b, uh, Q, d)
<1>1. \A L : GoodEntries(L, th, c) => GoodEntries(L, uh, d)
  BY EntriesKept
<1>2. \A s : GoodState(s, th, R, c) => GoodState(s, uh, Q, d)
  BY StateKept
<1>3. Known(b.ledger, R) => Known(b.ledger, Q)
  BY DEF Known
<1>4. b.now \in 0..c => b.now \in 0..d
  OBVIOUS
<1>5. b.pc = "walked" =>
       /\ b.now \in 0..d
       /\ \A t \in DOMAIN b.replies :
            /\ t \in DOMAIN uh
            /\ \A k \in DOMAIN b.replies[t] :
                 k \in DOMAIN uh[t].replies /\ uh[t].replies[k] = b.replies[t][k]
  BY <1>4 DEF GoodJob, Grown
<1>6. b.pc = "reconciled" =>
       /\ b.plan.post \in Seq(Findable)
       /\ \A i \in b.plan.suppressed : \E e \in Q :
            /\ b.now - e.at < LedgerExpiry
            /\ \/ e.kind = "dismissal" /\ e.fp = b.found[i].fp
               \/ /\ e.kind = "resolved" /\ e.blob = b.head
                  /\ Coarse[e.fp] = Coarse[b.found[i].fp]
  BY DEF GoodJob
<1> QED
  BY <1>1, <1>2, <1>3, <1>5, <1>6 DEF GoodJob

\* A run that finds no state starts from an empty one.
LEMMA EmptyIsGood ==
  ASSUME NEW th, NEW R, NEW c
  PROVE  GoodState(EmptyState, th, R, c)
  BY DEF EmptyState, GoodState, GoodEntries, Known

\* What is read of a body is a state in it, or the empty one.
LEMMA ReadIsGood ==
  ASSUME NEW th, NEW R, NEW c, NEW body, GoodBody(body, th, R, c)
  PROVE  GoodState(ReadSticky(body), th, R, c)
<1> DEFINE Test(t) == t.token = "<!-- cite-state="
           I == {k \in 1..Len(body) : Test(body[k])}
           i == SelectInSeq(body, Test)
<1>1. Len(body) \in Nat /\ DOMAIN body = 1..Len(body)
  BY DEF GoodBody
<1>2. i = IF I # {} THEN Min(I) ELSE 0
  BY DEF SelectInSeq
<1>3. CASE I # {}
  <2>1. \E n \in I : \A m \in I : n <= m
    <3>1. I \in SUBSET Nat
      <4>1. I \subseteq 1..Len(body)
        BY Zenon
      <4>2. 1..Len(body) \subseteq Nat
        <5> HIDE DEF I
        <5> QED
          BY <1>1
      <4> HIDE DEF I
      <4> QED
        BY <4>1, <4>2
    <3> HIDE DEF I
    <3> QED
      BY <1>3, <3>1, LeastElement
  <2>2. Min(I) \in I
    <3> HIDE DEF I
    <3> QED
      BY <2>1 DEF Min
  <2>3. i \in DOMAIN body /\ body[i].token = "<!-- cite-state="
    BY <1>1, <1>2, <1>3, <2>2
  <2>4. GoodState(body[i].state, th, R, c)
    BY <2>3 DEF GoodBody
  <2>5. ReadSticky(body) \in {EmptyState, body[i].state}
    <3> HIDE DEF I
    <3> QED
      BY DEF ReadSticky
  <2> QED
    BY <2>4, <2>5, EmptyIsGood
<1>4. CASE I = {}
  <2>1. i = 0
    BY <1>2, <1>4
  <2>2. ReadSticky(body) = EmptyState
    BY <2>1 DEF ReadSticky
  <2> QED
    BY <2>2, EmptyIsGood
<1> QED
  BY <1>3, <1>4

\* A body that is written holds its state, and no other.
LEMMA StickyHolds ==
  ASSUME NEW s
  PROVE  /\ Held(StickyBody(s)) = s
         /\ \A th, R, c : GoodState(s, th, R, c) => GoodBody(StickyBody(s), th, R, c)
<1> DEFINE body == StickyBody(s)
           I == {k \in 1..Len(body) : body[k].token = "<!-- cite-state="}
<1> DEFINE b1 == [token |-> "<!-- cite-sticky"]
           b3 == [token |-> "<!-- cite-state=", state |-> s]
           b4 == [token |-> "-->"]
<1>1. /\ Len(body) = 4 /\ DOMAIN body = 1..4
      /\ body[1].token = "<!-- cite-sticky" /\ body[2].token = "-->"
      /\ body[3].token = "<!-- cite-state=" /\ body[3].state = s /\ body[4].token = "-->"
  <2>1. body = <<b1, b4, b3, b4>>
    BY DEF StickyBody, Opening, Terminator
  <2>2. /\ b1.token = "<!-- cite-sticky" /\ b4.token = "-->"
        /\ b3.token = "<!-- cite-state=" /\ b3.state = s
    OBVIOUS
  <2> HIDE DEF body, b1, b3, b4
  <2>3. /\ Len(body) = 4 /\ DOMAIN body = 1..4
        /\ body[1] = b1 /\ body[2] = b4 /\ body[3] = b3 /\ body[4] = b4
    BY <2>1
  <2> QED
    BY <2>2, <2>3
<1>a. Len(body) = 4 /\ DOMAIN body = 1..4
  BY <1>1, Zenon
<1>2. I = {3}
  <2> HIDE DEF body
  <2>1. \A k \in 1..4 : k = 1 \/ k = 2 \/ k = 3 \/ k = 4
    OBVIOUS
  <2>2. \A k : k \in I <=> k \in 1..Len(body) /\ body[k].token = "<!-- cite-state="
    BY Zenon
  <2>3. \A k \in 1..Len(body) : body[k].token = "<!-- cite-state=" <=> k = 3
    <3> HIDE DEF I
    <3> QED
      BY <1>1, <2>1
  <2>4. 3 \in 1..Len(body)
    <3> HIDE DEF I, body
    <3> QED
      BY <1>a
  <2> HIDE DEF I
  <2>5. \A k : k \in I <=> k = 3
    BY <2>2, <2>3, <2>4, Zenon
  <2> QED
    BY <2>5
<1>3. SelectInSeq(body, LAMBDA t : t.token = "<!-- cite-state=") = Min(I)
  <2> HIDE DEF body
  <2> QED
    BY <1>2 DEF SelectInSeq
<1>4. Min(I) = 3
  <2> HIDE DEF I
  <2> QED
    BY <1>2 DEF Min
<1>5. Held(body) = s
  <2> HIDE DEF body, I
  <2> QED
    BY <1>1, <1>3, <1>4 DEF Held
<1>6. ASSUME NEW th, NEW R, NEW c, GoodState(s, th, R, c) PROVE GoodBody(body, th, R, c)
  <2> HIDE DEF body
  <2>1. \A k \in 1..4 : k = 1 \/ k = 2 \/ k = 3 \/ k = 4
    OBVIOUS
  <2> HIDE DEF I
  <2>2. \A k \in DOMAIN body : body[k].token = "<!-- cite-state=" => body[k].state = s
    BY <1>1, <2>1
  <2>3. \A k \in DOMAIN body :
          body[k].token = "<!-- cite-state=" => GoodState(body[k].state, th, R, c)
    BY <1>6, <2>2
  <2>4. Len(body) \in Nat /\ DOMAIN body = 1..Len(body)
    BY <1>a
  <2> QED
    BY <2>3, <2>4, Zenon DEF GoodBody
<1> QED
  BY <1>5, <1>6

\* So does one that somebody writes with the state first.
LEMMA StateFirstHolds ==
  ASSUME NEW s, NEW th, NEW R, NEW c, GoodState(s, th, R, c)
  PROVE  GoodBody(<<Opening(s), Terminator, [token |-> "<!-- cite-sticky"], Terminator>>,
                  th, R, c)
<1> DEFINE b1 == [token |-> "<!-- cite-sticky"]
           b3 == [token |-> "<!-- cite-state=", state |-> s]
           b4 == [token |-> "-->"]
           body == <<b3, b4, b1, b4>>
<1>1. /\ b1.token = "<!-- cite-sticky" /\ b4.token = "-->"
      /\ b3.token = "<!-- cite-state=" /\ b3.state = s
  OBVIOUS
<1>2. body = <<Opening(s), Terminator, [token |-> "<!-- cite-sticky"], Terminator>>
  BY DEF Opening, Terminator
<1> HIDE DEF b1, b3, b4
<1>3. /\ Len(body) \in Nat /\ DOMAIN body = 1..Len(body) /\ DOMAIN body = 1..4
      /\ body[1] = b3 /\ body[2] = b4 /\ body[3] = b1 /\ body[4] = b4
  OBVIOUS
<1> HIDE DEF body
<1>a. \A k \in DOMAIN body : k = 1 \/ k = 2 \/ k = 3 \/ k = 4
  <2>1. \A k \in 1..4 : k = 1 \/ k = 2 \/ k = 3 \/ k = 4
    OBVIOUS
  <2>2. DOMAIN body = 1..4
    BY <1>3, Zenon
  <2> QED
    BY <2>1, <2>2, Zenon
<1>4. ASSUME NEW k \in DOMAIN body, body[k].token = "<!-- cite-state=" PROVE body[k] = b3
  BY <1>1, <1>3, <1>4, <1>a
<1>5. \A k \in DOMAIN body :
        body[k].token = "<!-- cite-state=" => GoodState(body[k].state, th, R, c)
  BY <1>1, <1>4
<1>6. GoodBody(body, th, R, c)
  BY <1>3, <1>5, Zenon DEF GoodBody
<1> QED
  BY <1>2, <1>6

\* What a job reads of the conversation.
LEMMA ReadStickyIsGood ==
  ASSUME MemoryInv
  PROVE  GoodState(readSticky, threads, recorded, clock)
<1> DEFINE i == FindTrustedIssueComment(Sticky)
<1>1. CASE i = 0
  BY <1>1, EmptyIsGood DEF readSticky
<1>2. CASE i # 0
  <2>1. i \in DOMAIN comments /\ comments[i].marker = Sticky
    BY <1>2, Found DEF MemoryInv, CommentsInv
  <2>2. GoodBody(comments[i].body, threads, recorded, clock)
    BY <2>1 DEF MemoryInv
  <2>3. readSticky = ReadSticky(comments[i].body)
    BY <1>2 DEF readSticky
  <2> QED
    BY <2>2, <2>3, ReadIsGood
<1> QED
  BY <1>1, <1>2

-----------------------------------------------------------------------------
(* The threads.                                                            *)

\* The findings at some positions are findings.
LEMMA ThoseAreFindings ==
  ASSUME NEW F, NEW found \in Seq(F), NEW S
  PROVE  Those(found, S) \in Seq(F)
<1>1. Len(found) \in Nat /\ DOMAIN found = 1..Len(found) /\ \A i \in 1..Len(found) : found[i] \in F
  OBVIOUS
<1>2. Those(found, S) \in Seq({found[i] : i \in 1..Len(found)})
  BY <1>1, ThoseAre
<1>3. {found[i] : i \in 1..Len(found)} \subseteq F
  BY <1>1
<1> QED
  BY <1>2, <1>3

\* One thread gains something.
LEMMA ThreadGains ==
  ASSUME threads \in Seq(Thread), NEW t \in DOMAIN threads, NEW r \in Thread,
         threads' = [threads EXCEPT ![t] = r],
         r.fp = threads[t].fp, threads[t].down => r.down,
         threads[t].by # Nobody => r.by # Nobody,
         \A k \in DOMAIN threads[t].replies :
           k \in DOMAIN r.replies /\ r.replies[k] = threads[t].replies[k]
  PROVE  threads' \in Seq(Thread) /\ Grown(threads, threads')
<1>1. threads' \in Seq(Thread)
  <2> HIDE DEF Thread
  <2> QED
    OBVIOUS
<1>2. DOMAIN threads' = DOMAIN threads /\ threads'[t] = r
      /\ \A u \in DOMAIN threads : u # t => threads'[u] = threads[u]
  <2> HIDE DEF Thread
  <2> QED
    OBVIOUS
<1>3. ASSUME NEW u \in DOMAIN threads
      PROVE  /\ u \in DOMAIN threads' /\ threads'[u].fp = threads[u].fp
             /\ threads[u].down => threads'[u].down
             /\ threads[u].by # Nobody => threads'[u].by # Nobody
             /\ \A k \in DOMAIN threads[u].replies :
                  k \in DOMAIN threads'[u].replies
                  /\ threads'[u].replies[k] = threads[u].replies[k]
  <2>1. CASE u = t
    BY <1>2, <2>1
  <2>2. CASE u # t
    BY <1>2, <2>2
  <2> QED
    BY <2>1, <2>2
<1> QED
  BY <1>1, <1>3 DEF Grown

\* The threads a review posts come after those there are.
LEMMA PublishGrows ==
  ASSUME MemoryInv, NEW j \in DOMAIN jobs, PublishReview(j)
  PROVE  threads' \in Seq(Thread) /\ Grown(threads, threads')
<1> DEFINE plan == jobs[j].plan
           posted == [i \in DOMAIN plan.post |->
                       [fp |-> plan.post[i].fp, by |-> Nobody, down |-> FALSE,
                        replies |-> <<>>]]
<1>0. threads \in Seq(Thread) /\ Len(threads) \in Nat /\ DOMAIN threads = 1..Len(threads)
      /\ \A t \in DOMAIN threads : threads[t] \in Thread
  <2>1. threads \in Seq(Thread)
    BY DEF MemoryInv, WorldTypes
  <2> HIDE DEF Thread
  <2> QED
    BY <2>1
<1>1. plan.post \in Seq(Findable)
  BY DEF MemoryInv, GoodJob, PublishReview, At
<1>2. PICK closed : threads' = [t \in DOMAIN threads |->
                       IF t \in closed /\ threads[t].by = Nobody
                       THEN [threads[t] EXCEPT !.by = Cite] ELSE threads[t]] \o posted
  BY DEF PublishReview
<1> DEFINE kept == [t \in DOMAIN threads |->
                      IF t \in closed /\ threads[t].by = Nobody
                      THEN [threads[t] EXCEPT !.by = Cite] ELSE threads[t]]
<1>3. ASSUME NEW t \in DOMAIN threads
      PROVE  /\ kept[t] \in Thread /\ kept[t].fp = threads[t].fp
             /\ kept[t].down = threads[t].down /\ kept[t].replies = threads[t].replies
             /\ threads[t].by # Nobody => kept[t].by # Nobody
  <2>1. threads[t] \in Thread
    BY <1>0
  <2>2. kept[t] \in {threads[t], [threads[t] EXCEPT !.by = Cite]}
        /\ (threads[t].by # Nobody => kept[t] = threads[t])
    OBVIOUS
  <2> HIDE DEF kept
  <2> QED
    BY <2>1, <2>2 DEF Thread, Nobody, Cite
<1>4. kept \in Seq(Thread) /\ Len(kept) = Len(threads)
  <2>1. kept \in [1..Len(threads) -> Thread]
    <3>1. kept = [t \in 1..Len(threads) |-> kept[t]]
      BY <1>0
    <3> HIDE DEF kept, Thread
    <3> QED
      BY <1>0, <1>3, <3>1
  <2> HIDE DEF kept, Thread
  <2>2. kept \in Seq(Thread)
    BY <1>0, <2>1, SeqDef
  <2> QED
    BY <1>0, <2>1, <2>2
<1>5. posted \in Seq(Thread)
  <2>1. Len(plan.post) \in Nat /\ DOMAIN plan.post = 1..Len(plan.post)
        /\ \A i \in DOMAIN plan.post : plan.post[i] \in Findable
    BY <1>1
  <2>2. ASSUME NEW i \in DOMAIN plan.post PROVE posted[i] \in Thread
    <3>1. plan.post[i].fp \in Fps
      BY <2>1 DEF Findable, Finding
    <3>2. <<>> \in Seq(People)
      OBVIOUS
    <3>3. posted[i] = [fp |-> plan.post[i].fp, by |-> Nobody, down |-> FALSE, replies |-> <<>>]
      OBVIOUS
    <3> QED
      BY <3>1, <3>2, <3>3 DEF Thread
  <2>3. posted = [i \in 1..Len(plan.post) |-> posted[i]]
    BY <2>1
  <2> HIDE DEF posted, Thread, plan
  <2>4. posted \in [1..Len(plan.post) -> Thread]
    BY <2>1, <2>2, <2>3
  <2> QED
    BY <2>1, <2>4, SeqDef
<1>6. threads' = kept \o posted
  BY <1>2
<1>7. threads' \in Seq(Thread) /\ \A t \in DOMAIN threads : t \in DOMAIN threads'
                                                            /\ threads'[t] = kept[t]
  <2> HIDE DEF kept, posted, Thread
  <2> QED
    BY <1>0, <1>4, <1>5, <1>6
<1>8. Grown(threads, threads')
  <2> HIDE DEF kept, posted, Thread
  <2> QED
    BY <1>3, <1>7 DEF Grown
<1> QED
  BY <1>7, <1>8

\* No step takes anything back.
LEMMA WorldGrows ==
  MemoryInv /\ [Next]_vars =>
    WorldTypes' /\ Grown(threads, threads') /\ clock <= clock' /\ recorded \subseteq recorded'
<1> SUFFICES ASSUME MemoryInv, [Next]_vars
             PROVE  WorldTypes' /\ Grown(threads, threads') /\ clock <= clock'
                    /\ recorded \subseteq recorded'
  OBVIOUS
<1>0. WorldTypes /\ threads \in Seq(Thread) /\ clock \in Nat /\ events \in Nat
      /\ MaxEvents \in Nat /\ events <= MaxEvents
  BY ConversationAssumption DEF MemoryInv, WorldTypes
<1>a. \A t \in DOMAIN threads :
        threads[t] \in Thread /\ threads[t].replies \in Seq(People)
        /\ threads[t].by \in {Nobody, Cite, "person"} /\ threads[t].fp \in Fps
        /\ threads[t].down \in BOOLEAN
        /\ threads[t] = [fp |-> threads[t].fp, by |-> threads[t].by,
                         down |-> threads[t].down, replies |-> threads[t].replies]
  <2>1. \A t \in DOMAIN threads : threads[t] \in Thread
    <3> HIDE DEF Thread
    <3> QED
      BY <1>0
  <2> QED
    BY <2>1 DEF Thread
<1>b. UNCHANGED threads => threads' \in Seq(Thread) /\ Grown(threads, threads')
  BY <1>0 DEF Grown
<1>1. CASE StartSignals \/ StartReview \/ StartBypass \/ StartReReview
  <2>1. events < MaxEvents /\ events' = events + 1
        /\ UNCHANGED <<file, threads, label, merged, clock, recorded>>
    BY <1>1 DEF StartSignals, StartReview, StartBypass, StartReReview, Start
  <2> QED
    BY <1>0, <1>b, <2>1 DEF WorldTypes
<1>2. CASE \E j \in DOMAIN jobs : Step(j) \/ Die(j)
  <2>1. PICK j \in DOMAIN jobs : Step(j) \/ Die(j)
    BY <1>2
  <2>2. CASE PublishReview(j)
    <3>1. UNCHANGED <<file, label, merged, clock, events, recorded>>
      BY <2>2 DEF PublishReview
    <3> QED
      BY <1>0, <2>2, <3>1, PublishGrows DEF WorldTypes
  <2>3. CASE ~PublishReview(j)
    <3>1. UNCHANGED world /\ recorded \subseteq recorded'
      BY <2>1, <2>3 DEF Step, Die, Walk, Classify, Reread, WriteLedger, ReviewAndReconcile,
         WriteSticky, Conclude, ReadLog, WriteLog, Sweep, FileEscapedFinding
    <3> QED
      BY <1>0, <1>b, <3>1 DEF WorldTypes, world
  <2> QED
    BY <2>2, <2>3
<1>3. CASE Downvote \/ ResolveByHand \/ Reply
  <2>0. events < MaxEvents /\ events' = events + 1
        /\ UNCHANGED <<file, label, merged, clock, recorded>>
    BY <1>3 DEF Downvote, ResolveByHand, Reply, Event
  <2>1. threads' \in Seq(Thread) /\ Grown(threads, threads')
    <3>1. CASE Downvote
      <4>1. PICK t \in DOMAIN threads : threads' = [threads EXCEPT ![t].down = TRUE]
        BY <3>1 DEF Downvote
      <4> DEFINE r == [threads[t] EXCEPT !.down = TRUE]
      <4>2. r \in Thread /\ r.fp = threads[t].fp /\ r.down /\ r.by = threads[t].by
            /\ r.replies = threads[t].replies
        BY <1>a DEF Thread
      <4>3. threads' = [threads EXCEPT ![t] = r]
        BY <4>1
      <4> HIDE DEF r
      <4> QED
        BY <1>0, <4>2, <4>3, ThreadGains
    <3>2. CASE ResolveByHand
      <4>1. PICK t \in DOMAIN threads : threads' = [threads EXCEPT ![t].by = "person"]
        BY <3>2 DEF ResolveByHand
      <4> DEFINE r == [threads[t] EXCEPT !.by = "person"]
      <4>2. r \in Thread /\ r.fp = threads[t].fp /\ r.by = "person" /\ r.down = threads[t].down
            /\ r.replies = threads[t].replies
        BY <1>a DEF Thread
      <4>3. threads' = [threads EXCEPT ![t] = r]
        BY <4>1
      <4>4. r.by # Nobody
        BY <4>2 DEF Nobody
      <4> HIDE DEF r
      <4> QED
        BY <1>0, <4>2, <4>3, <4>4, ThreadGains
    <3>3. CASE Reply
      <4>1. PICK t \in DOMAIN threads, who \in People :
              threads' = [threads EXCEPT ![t].replies = Append(@, who)]
        BY <3>3 DEF Reply
      <4> DEFINE all == Append(threads[t].replies, who)
                 r == [threads[t] EXCEPT !.replies = all]
      <4>2. all \in Seq(People) /\ \A k \in DOMAIN threads[t].replies :
                                      k \in DOMAIN all /\ all[k] = threads[t].replies[k]
        <5>1. threads[t].replies \in Seq(People)
          BY <1>a
        <5> QED
          BY <5>1
      <4>3. threads' = [threads EXCEPT ![t] = r]
        BY <4>1
      <4> HIDE DEF all
      <4>4. r \in Thread /\ r.fp = threads[t].fp /\ r.by = threads[t].by
            /\ r.down = threads[t].down /\ r.replies = all
        BY <1>a, <4>2 DEF Thread
      <4> HIDE DEF r
      <4> QED
        BY <1>0, <4>2, <4>3, <4>4, ThreadGains
    <3> QED
      BY <1>3, <3>1, <3>2, <3>3
  <2> QED
    BY <1>0, <2>0, <2>1 DEF WorldTypes
<1>4. CASE Restate \/ Push \/ PutLabel \/ Merge \/ Tick
  <2>1. events < MaxEvents /\ events' = events + 1 /\ UNCHANGED <<threads, recorded>>
    BY <1>4 DEF Restate, RestateSticky, RestateLog, Push, PutLabel, Merge, Tick, Event
  <2>2. clock' \in Nat /\ clock <= clock' /\ label' \in BOOLEAN /\ file' \in Contents
        /\ merged' \in 0..clock' \cup {None}
    <3>0. label \in BOOLEAN /\ file \in Contents /\ merged \in 0..clock \cup {None}
      BY <1>0 DEF WorldTypes
    <3>1. CASE Push
      <4>1. file' \in Contents /\ UNCHANGED <<label, merged, clock>>
        BY <3>1 DEF Push
      <4> QED
        BY <1>0, <3>0, <4>1
    <3>5. CASE PutLabel
      <4>1. label' = TRUE /\ UNCHANGED <<file, merged, clock>>
        BY <3>5 DEF PutLabel
      <4> QED
        BY <1>0, <3>0, <4>1
    <3>4. CASE Restate
      <4>1. UNCHANGED <<file, label, merged, clock>>
        BY <3>4, Zenon DEF Restate, RestateSticky, RestateLog
      <4> QED
        BY <1>0, <3>0, <4>1
    <3>2. CASE Merge
      BY <1>0, <3>0, <3>2 DEF Merge
    <3>3. CASE Tick
      <4>1. clock' = clock + 1 /\ UNCHANGED <<file, label, merged>>
        BY <3>3 DEF Tick
      <4> QED
        BY <1>0, <3>0, <4>1
    <3> QED
      BY <1>4, <3>1, <3>2, <3>3, <3>4, <3>5
  <2> QED
    BY <1>0, <1>b, <2>1, <2>2 DEF WorldTypes
<1>5. CASE UNCHANGED vars
  BY <1>0, <1>b, <1>5 DEF vars, WorldTypes
<1> QED
  BY <1>1, <1>2, <1>3, <1>4, <1>5 DEF Next

-----------------------------------------------------------------------------
(* The steps of the jobs.                                                  *)

\* Ledgers that are good together.
LEMMA MoreEntries ==
  ASSUME NEW th, NEW c, NEW L, NEW more, GoodEntries(L, th, c), GoodEntries(more, th, c),
         NEW M \in Between(L, more)
  PROVE  GoodEntries(M, th, c) /\ L \subseteq M
<1>1. M \subseteq L \cup more /\ L \subseteq M
  BY DEF Between
<1> QED
  BY <1>1 DEF GoodEntries

\* What reactions and resolved threads add is about them.
LEMMA AddedIsGood ==
  ASSUME MemoryInv, NEW head
  PROVE  GoodEntries(Reactions(clock), threads, clock)
         /\ GoodEntries(Resolutions(head, clock), threads, clock)
<1>0. clock \in 0..clock /\ \A t \in DOMAIN threads : threads[t].fp \in Fps
  <2>1. clock \in Nat /\ threads \in Seq(Thread)
    BY DEF MemoryInv, WorldTypes
  <2>2. \A t \in DOMAIN threads : threads[t] \in Thread
    <3> HIDE DEF Thread
    <3> QED
      BY <2>1
  <2> QED
    BY <2>1, <2>2 DEF Thread
<1>1. ASSUME NEW e \in Reactions(clock)
      PROVE  /\ e.kind \in EntryKinds /\ e.fp \in Fps /\ e.at \in 0..clock
             /\ e.kind = "resolved" => e.coarse = Coarse[e.fp]
             /\ Attests(threads, e)
  <2>1. PICK t \in Downvoted : e = Entry("dismissal", threads[t].fp, "reaction", clock)
    BY <1>1 DEF Reactions
  <2>2. t \in DOMAIN threads /\ threads[t].down
    BY DEF Downvoted
  <2>3. e.kind = "dismissal" /\ e.fp = threads[t].fp /\ e.author = "reaction" /\ e.at = clock
    BY <2>1 DEF Entry
  <2>4. Attests(threads, e)
    BY <2>2, <2>3 DEF Attests
  <2> QED
    BY <1>0, <2>2, <2>3, <2>4 DEF EntryKinds
<1>2. ASSUME NEW e \in Resolutions(head, clock)
      PROVE  /\ e.kind \in EntryKinds /\ e.fp \in Fps /\ e.at \in 0..clock
             /\ e.kind = "resolved" => e.coarse = Coarse[e.fp]
             /\ Attests(threads, e)
  <2>1. PICK t \in DOMAIN threads :
          /\ threads[t].by # Nobody
          /\ e \in {[Entry("resolved", threads[t].fp, "", clock)
                       EXCEPT !.coarse = Coarse[threads[t].fp], !.blob = BlobOf(head)],
                    Entry("dismissal", threads[t].fp, "thread-resolution", clock),
                    Entry("accepted-and-fixed", threads[t].fp, "", clock)}
    BY <1>2 DEF Resolutions
  <2>2. /\ e.fp = threads[t].fp /\ e.at = clock
        /\ \/ e.kind = "resolved" /\ e.coarse = Coarse[threads[t].fp]
           \/ e.kind = "dismissal" /\ e.author = "thread-resolution"
           \/ e.kind = "accepted-and-fixed"
    <3>1. CASE e = [Entry("resolved", threads[t].fp, "", clock)
                       EXCEPT !.coarse = Coarse[threads[t].fp], !.blob = BlobOf(head)]
      BY <3>1 DEF Entry
    <3>2. CASE e = Entry("dismissal", threads[t].fp, "thread-resolution", clock)
      BY <3>2 DEF Entry
    <3>3. CASE e = Entry("accepted-and-fixed", threads[t].fp, "", clock)
      BY <3>3 DEF Entry
    <3> QED
      BY <2>1, <3>1, <3>2, <3>3
  <2>3. Attests(threads, e)
    BY <2>1, <2>2 DEF Attests
  <2>4. e.kind = "resolved" => e.coarse = Coarse[e.fp]
    BY <2>2
  <2>5. e.kind \in EntryKinds
    BY <2>2 DEF EntryKinds
  <2> QED
    BY <1>0, <2>2, <2>3, <2>4, <2>5
<1> QED
  BY <1>1, <1>2 DEF GoodEntries

\* The walk of a signals job gathers what the threads attest.
LEMMA WalkIsGood ==
  ASSUME MemoryInv, NEW j \in DOMAIN jobs, Walk(j)
  PROVE  GoodJob(jobs'[j], threads, recorded, clock)
<1> DEFINE state == readSticky
           start == AddReactions(LedgerOf(state), clock)
           head == jobs[j].head
           ledger == FoldLeftDomain(LAMBDA l, t : Disposition(l, t, head, clock), start, threads)
           replies == [t \in DOMAIN threads |-> threads[t].replies]
<1>0. IsSeq(jobs) /\ clock \in Nat /\ Len(threads) \in Nat /\ DOMAIN threads = 1..Len(threads)
  <2>1. threads \in Seq(Thread) /\ IsSeq(jobs) /\ clock \in Nat
    BY DEF MemoryInv, WorldTypes, JobsInv
  <2> HIDE DEF Thread
  <2> QED
    BY <2>1
<1>1. PICK l, v, w : Goto(j, [kind |-> "signals", pc |-> "walked", now |-> clock, saw |-> state,
                 listed |-> l, replies |-> replies,
                 verdicts |-> v, ledger |-> ledger, news |-> w])
  BY Zenon DEF Walk
<1>2. start \in Between(LedgerOf(state), Reactions(clock))
  BY <1>0, ReactionsAdd
<1>3. ledger \in Between(start, Resolutions(head, clock))
  <2> HIDE DEF start, head
  <2> QED
    BY <1>0, DispositionsAdd
<1>4. GoodEntries(LedgerOf(state), threads, clock)
      /\ (state.ledger # Corrupt => LedgerOf(state) = state.ledger)
  <2>1. GoodState(state, threads, recorded, clock)
    BY ReadStickyIsGood
  <2> HIDE DEF state
  <2> QED
    BY <2>1 DEF LedgerOf, GoodState, GoodEntries
<1>5. GoodEntries(ledger, threads, clock) /\ LedgerOf(state) \subseteq ledger
  <2> HIDE DEF state, start, ledger, head
  <2>1. GoodEntries(start, threads, clock) /\ LedgerOf(state) \subseteq start
    BY <1>2, <1>4, AddedIsGood, MoreEntries
  <2>2. GoodEntries(ledger, threads, clock) /\ start \subseteq ledger
    BY <1>3, <2>1, AddedIsGood, MoreEntries
  <2> QED
    BY <2>1, <2>2
<1>6. DOMAIN replies = DOMAIN threads /\ \A t \in DOMAIN threads : replies[t] = threads[t].replies
  OBVIOUS
<1> HIDE DEF state, start, ledger, head, replies
<1>7. /\ jobs'[j].kind = "signals" /\ jobs'[j].pc = "walked" /\ jobs'[j].now = clock
      /\ jobs'[j].saw = state /\ jobs'[j].replies = replies /\ jobs'[j].ledger = ledger
  BY <1>0, <1>1, GotoMoves
<1>8. Covers(jobs'[j])
  BY <1>4, <1>5, <1>7 DEF Covers
<1>9. clock \in 0..clock
  BY <1>0
<1> QED
  BY <1>5, <1>6, <1>7, <1>8, <1>9 DEF GoodJob

\* Only a reply of someone who may dismiss adds a dismissal.
LEMMA MemberDismisses ==
  ASSUME NEW job, NEW t, NEW k, job.replies[t][k] \in People,
         CanDismiss(AssociationOf(job, t, k), job.replies[t][k] = "author")
  PROVE  job.replies[t][k] = "member"
<1>1. job.replies[t][k] \in {"author", "member", "newcomer"}
  BY DEF People, Association
<1>2. Association["newcomer"] = "FIRST_TIME_CONTRIBUTOR"
  BY DEF Association
<1> QED
  BY <1>1, <1>2 DEF CanDismiss, AssociationOf

\* A classified reply adds a dismissal only if a member wrote it.
LEMMA ClassifyIsGood ==
  ASSUME MemoryInv, NEW j \in DOMAIN jobs, Classify(j)
  PROVE  GoodJob(jobs'[j], threads, recorded, clock)
<1> DEFINE b == jobs[j]
<1>0. /\ IsSeq(jobs) /\ JobShape(b) /\ GoodJob(b, threads, recorded, clock) /\ clock \in Nat
      /\ b.pc = "walked" /\ threads \in Seq(Thread)
  BY DEF MemoryInv, WorldTypes, JobsInv, Classify, At
<1>1. /\ {"kind", "pc", "verdicts", "news", "ledger"} \subseteq DOMAIN b
      /\ b.kind = "signals" /\ b.now \in 0..clock
      /\ GoodEntries(b.ledger, threads, clock) /\ Covers(b)
  BY <1>0 DEF JobShape, StagesOf, Stages, GoodJob
<1>2. PICK t, k, v, verdict :
        /\ t \in DOMAIN b.replies /\ k \in DOMAIN b.replies[t]
        /\ Goto(j, [b EXCEPT !.verdicts = v, !.news = TRUE,
              !.ledger = IF /\ verdict = "rejecting"
                            /\ CanDismiss(AssociationOf(b, t, k), b.replies[t][k] = "author")
                            /\ ~Active(b.ledger, threads[t].fp, b.now)
                         THEN Add(b.ledger, threads[t].fp, b.replies[t][k], b.now)
                         ELSE b.ledger])
  BY DEF Classify, Unclassified
<1>3. PICK ledger : /\ Goto(j, [b EXCEPT !.verdicts = v, !.news = TRUE, !.ledger = ledger])
                    /\ \/ ledger = b.ledger
                       \/ /\ CanDismiss(AssociationOf(b, t, k), b.replies[t][k] = "author")
                          /\ ledger = Add(b.ledger, threads[t].fp, b.replies[t][k], b.now)
  BY <1>2
<1>4. /\ t \in DOMAIN threads /\ k \in DOMAIN threads[t].replies
      /\ threads[t].replies[k] = b.replies[t][k]
  BY <1>0, <1>2 DEF GoodJob
<1>5. threads[t].fp \in Fps /\ threads[t].replies[k] \in People
  <2>1. threads[t] \in Thread
    <3> HIDE DEF Thread
    <3> QED
      BY <1>0, <1>4
  <2>2. threads[t].fp \in Fps /\ threads[t].replies \in Seq(People)
    BY <2>1 DEF Thread
  <2> QED
    BY <1>4, <2>2
<1>6. GoodEntries(ledger, threads, clock) /\ b.ledger \subseteq ledger
  <2>1. CASE ledger = b.ledger
    BY <1>1, <2>1
  <2>2. CASE /\ CanDismiss(AssociationOf(b, t, k), b.replies[t][k] = "author")
             /\ ledger = Add(b.ledger, threads[t].fp, b.replies[t][k], b.now)
    <3> DEFINE e == Entry("dismissal", threads[t].fp, b.replies[t][k], b.now)
    <3>1. b.replies[t][k] = "member"
      BY <1>4, <1>5, <2>2, MemberDismisses
    <3>2. e.kind = "dismissal" /\ e.fp = threads[t].fp /\ e.author = "member" /\ e.at = b.now
      BY <3>1 DEF Entry
    <3>3. ledger = b.ledger \cup {e}
      BY <2>2 DEF Add
    <3> HIDE DEF e
    <3>4. Attests(threads, e)
      BY <1>4, <3>1, <3>2 DEF Attests
    <3>5. GoodEntries({e}, threads, clock)
      BY <1>1, <1>5, <3>2, <3>4 DEF GoodEntries, EntryKinds
    <3> QED
      BY <1>1, <3>3, <3>5 DEF GoodEntries
  <2> QED
    BY <1>3, <2>1, <2>2
<1> DEFINE r == [b EXCEPT !.verdicts = v, !.news = TRUE, !.ledger = ledger]
<1>7. jobs'[j] = r
  <2> HIDE DEF r
  <2>1. Goto(j, r)
    BY <1>3 DEF r
  <2> QED
    BY <1>0, <2>1, GotoMoves
<1>8. /\ r.ledger = ledger /\ r.kind = b.kind /\ r.pc = b.pc /\ r.now = b.now
      /\ r.replies = b.replies /\ r.saw = b.saw
  <2> HIDE DEF b
  <2> QED
    BY <1>1
<1> HIDE DEF r
<1>9. Covers(r)
  BY <1>1, <1>6, <1>8 DEF Covers
<1>10. \A u \in DOMAIN b.replies :
            /\ u \in DOMAIN threads
            /\ \A i \in DOMAIN b.replies[u] :
                 i \in DOMAIN threads[u].replies /\ threads[u].replies[i] = b.replies[u][i]
  BY <1>0 DEF GoodJob
<1> HIDE DEF b
<1> QED
  BY <1>0, <1>1, <1>6, <1>7, <1>8, <1>9, <1>10 DEF GoodJob

\* The ledger replaces that of the state that is read again.
LEMMA RereadIsGood ==
  ASSUME MemoryInv, NEW j \in DOMAIN jobs, Reread(j)
  PROVE  GoodJob(jobs'[j], threads, recorded, clock)
<1> DEFINE b == jobs[j]
<1>0. /\ IsSeq(jobs) /\ JobShape(b) /\ GoodJob(b, threads, recorded, clock)
      /\ b.pc = "walked"
  BY DEF MemoryInv, JobsInv, Reread, At
<1>1. b.kind = "signals" /\ GoodEntries(b.ledger, threads, clock) /\ Covers(b)
  BY <1>0 DEF JobShape, StagesOf, Stages, GoodJob
<1>2. CASE b.news
  <2>1. PICK w : Goto(j, [kind |-> "signals", pc |-> "reread", saw |-> b.saw,
                   ledger |-> b.ledger,
                   state |-> [readSticky EXCEPT !.ledger = b.ledger, !.replies = w]])
    BY <1>2 DEF Reread
  <2> DEFINE state == [readSticky EXCEPT !.ledger = b.ledger, !.replies = w]
  <2>2. {"ledger", "replies"} \subseteq DOMAIN state /\ state.ledger = b.ledger
    <3>1. {"ledger", "replies"} \subseteq DOMAIN readSticky
      BY ReadStickyIsGood DEF GoodState
    <3> QED
      BY <3>1
  <2> HIDE DEF state
  <2>3. /\ jobs'[j].kind = "signals" /\ jobs'[j].pc = "reread" /\ jobs'[j].saw = b.saw
        /\ jobs'[j].ledger = b.ledger /\ jobs'[j].state = state
    <3> HIDE DEF b
    <3>1. Goto(j, [kind |-> "signals", pc |-> "reread", saw |-> b.saw,
                   ledger |-> b.ledger, state |-> state])
      BY <2>1 DEF state
    <3> QED
      BY <1>0, <3>1, GotoMoves
  <2>4. Covers(jobs'[j])
    BY <1>1, <2>3 DEF Covers
  <2> QED
    BY <1>1, <2>2, <2>3, <2>4 DEF GoodJob
<1>3. CASE ~b.news
  <2>1. jobs'[j] = [kind |-> jobs[j].kind, pc |-> "done"]
    BY <1>0, <1>3, EndedMoves DEF Reread
  <2> QED
    BY <2>1 DEF GoodJob
<1> QED
  BY <1>2, <1>3

\* A ledger that is rebuilt silences nothing.
LEMMA RebuiltIsGood ==
  ASSUME MemoryInv
  PROVE  GoodEntries(RebuildFromThreads(threads, clock), threads, clock)
         /\ Known(RebuildFromThreads(threads, clock), recorded)
<1>1. clock \in 0..clock /\ \A t \in DOMAIN threads : threads[t].fp \in Fps
  <2>1. clock \in Nat /\ threads \in Seq(Thread)
    BY DEF MemoryInv, WorldTypes
  <2>2. \A t \in DOMAIN threads : threads[t] \in Thread
    <3> HIDE DEF Thread
    <3> QED
      BY <2>1
  <2> QED
    BY <2>1, <2>2 DEF Thread
<1>2. ASSUME NEW e \in RebuildFromThreads(threads, clock)
      PROVE  /\ e.kind = "published" /\ e.fp \in Fps /\ e.at \in 0..clock
             /\ Attests(threads, e)
  <2>1. PICK t \in DOMAIN threads : e = Entry("published", threads[t].fp, "", clock)
    BY <1>2 DEF RebuildFromThreads
  <2>2. e.kind = "published" /\ e.fp = threads[t].fp /\ e.at = clock
    BY <2>1 DEF Entry
  <2> QED
    BY <1>1, <2>2 DEF Attests
<1>3. ASSUME NEW e \in RebuildFromThreads(threads, clock)
      PROVE  e.kind \in EntryKinds /\ e.kind # "dismissal" /\ e.kind # "resolved"
  BY <1>2 DEF EntryKinds
<1> QED
  BY <1>2, <1>3 DEF GoodEntries, Known

\* What is raised in a file, in any order.
LEMMA FoundAreFindings ==
  ASSUME NEW raised \in SUBSET Fps, NEW found \in SetToSeqs({Finding(fp) : fp \in raised})
  PROVE  found \in Seq(Findable)
<1> DEFINE S == {Finding(fp) : fp \in raised}
<1>1. IsFiniteSet(S)
  <2>1. IsFiniteSet(raised)
    BY FS_Subset, ConversationAssumption
  <2> DEFINE at == [fp \in raised |-> Finding(fp)]
  <2>2. at \in Surjection(raised, S)
    BY DEF Surjection
  <2> HIDE DEF at, S
  <2> QED
    BY <2>1, <2>2, FS_Surjection
<1>2. Cardinality(S) \in Nat /\ S \subseteq Findable
  BY <1>1, FS_CardinalityType DEF Findable
<1>3. found \in [1..Cardinality(S) -> S]
  BY DEF SetToSeqs
<1>4. found \in [1..Cardinality(S) -> Findable]
  <2> HIDE DEF S
  <2> QED
    BY <1>2, <1>3
<1> QED
  BY <1>2, <1>4, SeqDef

\* A review is silent for recorded reasons, and has findings to post.
LEMMA ReviewIsGood ==
  ASSUME MemoryInv, NEW j \in DOMAIN jobs, ReviewAndReconcile(j)
  PROVE  GoodJob(jobs'[j], threads, recorded, clock)
<1> DEFINE b == jobs[j]
           head == b.head
           ledger == ReviewLedger(b.saw)
           gone == {t \in DOMAIN threads : ~Stands(threads[t].fp, head)}
           dismissed == {fp \in Fps : Active(ledger, fp, clock)}
           handled == {fp \in Fps : ResolvedActive(ledger, fp, Coarse[fp], head, clock)}
           opts(reviewed) == [gone |-> gone, same |-> {}, fresh |-> reviewed,
                              dismissed |-> dismissed, handled |-> handled]
<1>0. /\ IsSeq(jobs) /\ GoodJob(b, threads, recorded, clock) /\ clock \in Nat
      /\ b.pc = "opened" /\ b.kind = "review"
  BY DEF MemoryInv, JobsInv, WorldTypes, ReviewAndReconcile, At
<1>1. head \in Contents /\ GoodState(b.saw, threads, recorded, clock)
  BY <1>0 DEF GoodJob
<1>2. /\ GoodEntries(ledger, threads, clock) /\ Known(ledger, recorded)
      /\ b.saw.ledger # Corrupt => b.saw.ledger \subseteq ledger
  <2>1. CASE b.saw.ledger = Corrupt
    BY <2>1, RebuiltIsGood DEF ReviewLedger
  <2>2. CASE b.saw.ledger # Corrupt
    BY <1>1, <2>2 DEF ReviewLedger, GoodState
  <2> QED
    BY <2>1, <2>2
<1>3. PICK reviewed, raised, found :
        /\ reviewed \in (IF head = None THEN {{}} ELSE {{}, {Path}})
        /\ raised \in (IF reviewed = {} THEN {{}} ELSE SUBSET head)
        /\ found \in SetToSeqs({Finding(fp) : fp \in raised})
        /\ Goto(j, [kind |-> "review", pc |-> "reconciled", head |-> head,
                       now |-> clock, saw |-> b.saw, ledger |-> ledger,
                       reviewed |-> reviewed, found |-> found,
                       plan |-> Plan(found, LiveThreads, opts(reviewed))])
  BY Zenon DEF ReviewAndReconcile
<1>4. raised \in SUBSET Fps
  BY <1>1, <1>3 DEF Contents
<1>5. found \in Seq(Findable)
  BY <1>3, <1>4, FoundAreFindings
<1> DEFINE plan == Plan(found, LiveThreads, opts(reviewed))
<1>6. /\ plan.post \in Seq(Findable)
      /\ \A i \in plan.suppressed : found[i].fp \in dismissed \cup handled
  <2> DEFINE o == opts(reviewed)
             match == Match(found, LiveThreads, o)
             new == {i \in DOMAIN found : match[i] = 0}
             quiet == {i \in new : found[i].fp \in o.dismissed \cup o.handled}
  <2>1. plan.post = Those(found, new \ quiet) /\ plan.suppressed = quiet
    <3> HIDE DEF o
    <3> QED
      BY DEF Plan, o
  <2>2. o.dismissed = dismissed /\ o.handled = handled
    <3> HIDE DEF gone, dismissed, handled
    <3> QED
      OBVIOUS
  <2> HIDE DEF plan, new, o, dismissed, handled
  <2>3. Those(found, new \ quiet) \in Seq(Findable)
    BY <1>5, ThoseAreFindings
  <2> QED
    BY <2>1, <2>2, <2>3
<1>7. ASSUME NEW i \in plan.suppressed
      PROVE  \E e \in recorded :
               /\ clock - e.at < LedgerExpiry
               /\ \/ e.kind = "dismissal" /\ e.fp = found[i].fp
                  \/ /\ e.kind = "resolved" /\ e.blob = head
                     /\ Coarse[e.fp] = Coarse[found[i].fp]
  <2> DEFINE fp == found[i].fp
  <2> HIDE DEF plan, ledger, head
  <2>1. PICK e \in ledger :
          /\ ~expired(e, clock)
          /\ \/ entryKind(e) = "dismissal" /\ e.fp = fp
             \/ /\ entryKind(e) = "resolved" /\ e.blob = head
                /\ e.fp = fp \/ e.coarse = Coarse[fp]
    BY <1>6 DEF Active, ResolvedActive
  <2>2. e.kind \in EntryKinds /\ e.at \in 0..clock
        /\ (e.kind = "resolved" => e.coarse = Coarse[e.fp])
        /\ (e.kind \in {"dismissal", "resolved"} => e \in recorded)
    BY <1>2 DEF GoodEntries, Known
  <2>3. entryKind(e) = e.kind
    BY <2>2 DEF EntryKinds, entryKind
  <2>4. clock - e.at < LedgerExpiry
    <3>1. LedgerExpiry \in Nat /\ ~(clock >= e.at + LedgerExpiry)
      BY <2>1, ExpiryAssumption DEF expired
    <3> QED
      BY <1>0, <2>2, <3>1
  <2> QED
    BY <2>1, <2>2, <2>3, <2>4
<1>8. /\ jobs'[j].kind = "review" /\ jobs'[j].pc = "reconciled" /\ jobs'[j].head = head
      /\ jobs'[j].now = clock /\ jobs'[j].saw = b.saw /\ jobs'[j].ledger = ledger
      /\ jobs'[j].found = found /\ jobs'[j].plan = plan
  <2> HIDE DEF plan, ledger, head, b
  <2>1. Goto(j, [kind |-> "review", pc |-> "reconciled", head |-> head,
                       now |-> clock, saw |-> b.saw, ledger |-> ledger,
                       reviewed |-> reviewed, found |-> found, plan |-> plan])
    BY <1>3 DEF plan
  <2> QED
    BY <1>0, <2>1, GotoMoves
<1> HIDE DEF plan, ledger, head, b
<1>9. Covers(jobs'[j])
  BY <1>2, <1>8 DEF Covers
<1> QED
  BY <1>2, <1>6, <1>7, <1>8, <1>9 DEF GoodJob

\* A review carries on with what it has.
LEMMA PublishIsGood ==
  ASSUME MemoryInv, NEW j \in DOMAIN jobs, PublishReview(j)
  PROVE  GoodJob(jobs'[j], threads', recorded', clock')
<1> DEFINE b == jobs[j]
<1>0. /\ IsSeq(jobs) /\ GoodJob(b, threads, recorded, clock) /\ b.pc = "reconciled"
      /\ UNCHANGED <<clock, recorded>> /\ clock \in Nat
  BY DEF MemoryInv, JobsInv, WorldTypes, PublishReview, At
<1>1. GoodEntries(b.ledger, threads, clock) /\ Known(b.ledger, recorded) /\ Covers(b)
  BY <1>0 DEF GoodJob
<1>2. GoodEntries(b.ledger, threads', clock)
  BY <1>0, <1>1, PublishGrows, EntriesKept
<1>3. PICK r, h : Goto(j, [kind |-> "review", pc |-> "published", saw |-> b.saw,
                           ledger |-> b.ledger, reviewed |-> r, head |-> h])
  BY Zenon DEF PublishReview
<1>4. /\ jobs'[j].kind = "review" /\ jobs'[j].pc = "published" /\ jobs'[j].saw = b.saw
      /\ jobs'[j].ledger = b.ledger
  <2> HIDE DEF b
  <2> QED
    BY <1>0, <1>3, GotoMoves
<1>5. Covers(jobs'[j])
  BY <1>1, <1>4 DEF Covers
<1> QED
  BY <1>0, <1>1, <1>2, <1>4, <1>5 DEF GoodJob

\* Neither the jobs about the log nor those that have just started or are over
\* hold anything of the state, but for a review and what it has read.
LEMMA OthersAreGood ==
  ASSUME NEW b, NEW th, NEW R, NEW c,
         b.kind \in {"signals", "review", "bypass", "re-review"}, b.pc \in StagesOf(b.kind),
         \/ b.kind \in {"bypass", "re-review"}
         \/ b.kind = "signals" /\ b.pc = "opened"
         \/ b.pc = "done"
  PROVE  GoodJob(b, th, R, c)
<1>1. b.pc \notin {"walked", "reread", "reconciled", "published"}
      /\ ~(b.kind = "review" /\ b.pc = "opened")
  BY DEF StagesOf, Stages
<1> QED
  BY <1>1 DEF GoodJob

\* A step of a job leaves it with good things only.
LEMMA StepIsGood ==
  ASSUME MemoryInv, [Next]_vars, NEW j \in DOMAIN jobs, Step(j) \/ Die(j)
  PROVE  GoodJob(jobs'[j], threads', recorded', clock')
<1>0. /\ JobsInv /\ IsSeq(jobs) /\ JobShape(jobs'[j]) /\ jobs'[j].kind = jobs[j].kind
      /\ JobShape(jobs[j])
  BY JobSteps DEF MemoryInv, JobsInv
<1>1. CASE Walk(j) \/ Classify(j) \/ Reread(j) \/ ReviewAndReconcile(j)
  <2>1. UNCHANGED <<threads, recorded, clock>>
    BY <1>1 DEF Walk, Classify, Reread, ReviewAndReconcile, world
  <2>2. GoodJob(jobs'[j], threads, recorded, clock)
    BY <1>1, WalkIsGood, ClassifyIsGood, RereadIsGood, ReviewIsGood
  <2> QED
    BY <2>1, <2>2
<1>2. CASE PublishReview(j)
  BY <1>2, PublishIsGood
<1>3. CASE Die(j) \/ WriteLedger(j) \/ WriteSticky(j) \/ WriteLog(j)
  <2>1. Ended(j)
    BY <1>3 DEF Die, WriteLedger, WriteSticky, WriteLog
  <2>2. jobs'[j] = [kind |-> jobs[j].kind, pc |-> "done"]
    BY <1>0, <2>1, EndedMoves
  <2>3. jobs'[j].pc = "done"
    BY <2>2
  <2> QED
    BY <1>0, <2>3, OthersAreGood DEF JobShape
<1>4. CASE Conclude(j) \/ ReadLog(j) \/ Sweep(j) \/ FileEscapedFinding(j)
  <2>1. jobs[j].kind \in {"bypass", "re-review"}
    BY <1>0, <1>4 DEF Conclude, ReadLog, Sweep, FileEscapedFinding, At, JobShape, StagesOf, Stages
  <2> QED
    BY <1>0, <2>1, OthersAreGood DEF JobShape
<1> QED
  BY <1>1, <1>2, <1>3, <1>4 DEF Step

\* A job starts with good things only.
LEMMA StartIsGood ==
  ASSUME MemoryInv, StartSignals \/ StartReview \/ StartBypass \/ StartReReview
  PROVE  \E job : Start(job) /\ GoodJob(job, threads, recorded, clock)
<1>1. CASE StartReview
  <2> DEFINE job == [kind |-> "review", pc |-> "opened", head |-> file, saw |-> readSticky]
  <2>1. Start(job) /\ job.kind = "review" /\ job.pc = "opened" /\ job.head = file
        /\ job.saw = readSticky
    BY <1>1 DEF StartReview
  <2>2. file \in Contents /\ GoodState(readSticky, threads, recorded, clock)
    BY ReadStickyIsGood DEF MemoryInv, WorldTypes
  <2> HIDE DEF job
  <2>3. GoodJob(job, threads, recorded, clock)
    BY <2>1, <2>2 DEF GoodJob
  <2> QED
    BY <2>1, <2>3
<1>2. CASE StartSignals \/ StartBypass \/ StartReReview
  <2>1. PICK job : /\ Start(job) /\ job.kind \in {"signals", "bypass", "re-review"}
                   /\ job.pc \in StagesOf(job.kind)
                   /\ job.kind = "signals" => job.pc = "opened"
    BY <1>2 DEF StartSignals, StartBypass, StartReReview, StagesOf, Stages
  <2> QED
    BY <2>1, OthersAreGood
<1> QED
  BY <1>1, <1>2

\* Good bodies stay good, and those that are written are.
LEMMA BodiesStep ==
  ASSUME MemoryInv, [Next]_vars
  PROVE  \A i \in DOMAIN comments' : comments'[i].marker = Sticky =>
           GoodBody(comments'[i].body, threads', recorded', clock')
<1>0. /\ CommentsShape /\ clock \in Nat /\ clock' \in Nat /\ clock <= clock'
      /\ Grown(threads, threads') /\ recorded \subseteq recorded' /\ JobsInv /\ IsSeq(jobs)
  BY WorldGrows DEF MemoryInv, WorldTypes, CommentsInv, JobsInv
<1>a. \A s : GoodState(s, threads, recorded, clock) =>
               GoodState(s, threads', recorded', clock')
  BY <1>0, StateKept
<1>b. \A i \in DOMAIN comments : comments[i].marker = Sticky =>
        /\ GoodBody(comments[i].body, threads, recorded, clock)
        /\ GoodBody(comments[i].body, threads', recorded', clock')
  BY <1>0, BodyKept DEF MemoryInv
<1>1. ASSUME NEW s, comments' = Upsert(Sticky, StickyBody(s)),
             GoodState(s, threads', recorded', clock'),
             NEW i \in DOMAIN comments', comments'[i].marker = Sticky
      PROVE  GoodBody(comments'[i].body, threads', recorded', clock')
  <2>1. /\ DOMAIN comments' = DOMAIN comments \cup {Target(Sticky)}
        /\ comments'[Target(Sticky)].body = StickyBody(s)
        /\ \A k \in DOMAIN comments : k # Target(Sticky) => comments'[k] = comments[k]
    BY <1>0, <1>1, Upserted
  <2>2. GoodBody(StickyBody(s), threads', recorded', clock')
    BY <1>1, StickyHolds
  <2> QED
    BY <1>b, <1>1, <2>1, <2>2
<1>2. CASE UNCHANGED comments
  BY <1>b, <1>2
<1>3. CASE RestateSticky
  <2>1. PICK who, body :
          /\ comments' = Append(comments, [marker |-> Sticky, poster |-> who, body |-> body])
          /\ GoodBody(body, threads, recorded, clock)
    <3> DEFINE i == FindIssueComment(Sticky)
               old == comments[i].body
               Post(who, body) == comments' = Append(comments,
                              [marker |-> Sticky, poster |-> who, body |-> body])
               StateFirst(state) == <<Opening(state), Terminator,
                                      [token |-> "<!-- cite-sticky"], Terminator>>
    <3>1. i # 0 /\ (\/ Post("author", old)
                    \/ \E k \in DOMAIN old :
                         /\ old[k].token = "<!-- cite-state="
                         /\ \/ Post("member", StateFirst(old[k].state))
                            \/ Post("member", StateFirst([old[k].state EXCEPT !.ledger = Corrupt])))
      BY <1>3, Zenon DEF RestateSticky
    <3>2. GoodBody(old, threads, recorded, clock)
      <4>1. i \in DOMAIN comments /\ comments[i].marker = Sticky
        BY <1>0, <3>1, Found
      <4> QED
        BY <1>b, <4>1
    <3> HIDE DEF i, old
    <3>3. CASE Post("author", old)
      BY <3>2, <3>3
    <3>4. CASE \E k \in DOMAIN old :
                 /\ old[k].token = "<!-- cite-state="
                 /\ \/ Post("member", StateFirst(old[k].state))
                    \/ Post("member", StateFirst([old[k].state EXCEPT !.ledger = Corrupt]))
      <4>1. PICK k \in DOMAIN old :
                 /\ old[k].token = "<!-- cite-state="
                 /\ \/ Post("member", StateFirst(old[k].state))
                    \/ Post("member", StateFirst([old[k].state EXCEPT !.ledger = Corrupt]))
        BY <3>4, Zenon
      <4>2. GoodState(old[k].state, threads, recorded, clock)
        BY <3>2, <4>1, Zenon DEF GoodBody
      <4>3. GoodState([old[k].state EXCEPT !.ledger = Corrupt], threads, recorded, clock)
        <5> DEFINE was == old[k].state
                   s == [was EXCEPT !.ledger = Corrupt]
        <5>1. {"ledger", "replies"} \subseteq DOMAIN was
          BY <4>2 DEF GoodState
        <5> HIDE DEF was
        <5>2. {"ledger", "replies"} \subseteq DOMAIN s /\ s.ledger = Corrupt
          BY <5>1
        <5> HIDE DEF s
        <5>3. GoodState(s, threads, recorded, clock)
          BY <5>2 DEF GoodState
        <5> QED
          BY <5>3 DEF s, was
      <4>4. ASSUME NEW s, GoodState(s, threads, recorded, clock)
            PROVE  GoodBody(StateFirst(s), threads, recorded, clock)
        BY <4>4, StateFirstHolds
      <4> QED
        BY <4>1, <4>2, <4>3, <4>4, Zenon
    <3> QED
      BY <3>1, <3>3, <3>4, Zenon
  <2>2. GoodBody(body, threads', recorded', clock')
    BY <1>0, <2>1, BodyKept
  <2>3. /\ DOMAIN comments' = DOMAIN comments \cup {Len(comments) + 1}
        /\ comments'[Len(comments) + 1]
             = [marker |-> Sticky, poster |-> who, body |-> body]
        /\ \A i \in DOMAIN comments : comments'[i] = comments[i]
    BY <1>0, <2>1, Restated DEF Says
  <2> QED
    BY <1>b, <2>2, <2>3
<1>8. CASE RestateLog
  <2>1. PICK body :
          comments' = Append(comments, [marker |-> Log, poster |-> "author", body |-> body])
    BY <1>8 DEF RestateLog
  <2>2. /\ DOMAIN comments' = DOMAIN comments \cup {Len(comments) + 1}
        /\ comments'[Len(comments) + 1].marker = Log
        /\ \A i \in DOMAIN comments : comments'[i] = comments[i]
    BY <1>0, <2>1, Restated DEF Says
  <2> QED
    BY <1>b, <2>2 DEF Sticky, Log
<1>4. ASSUME NEW j \in DOMAIN jobs, WriteLedger(j),
             NEW i \in DOMAIN comments', comments'[i].marker = Sticky
      PROVE  GoodBody(comments'[i].body, threads', recorded', clock')
  <2> DEFINE b == jobs[j]
  <2>1. /\ comments' = Upsert(Sticky, StickyBody(b.state))
        /\ recorded' = recorded \cup b.ledger /\ UNCHANGED <<threads, clock>>
        /\ b.pc = "reread"
    BY <1>4 DEF WriteLedger, At, world
  <2>2. /\ {"ledger", "replies"} \subseteq DOMAIN b.state /\ b.state.ledger = b.ledger
        /\ GoodEntries(b.ledger, threads, clock)
    <3>1. GoodJob(b, threads, recorded, clock) /\ b.kind = "signals"
      BY <1>0, <2>1 DEF MemoryInv, JobsInv, JobShape, StagesOf, Stages
    <3> QED
      BY <2>1, <3>1 DEF GoodJob
  <2>3. GoodState(b.state, threads', recorded', clock')
    BY <2>1, <2>2 DEF GoodState, Known
  <2> QED
    BY <1>1, <1>4, <2>1, <2>3
<1>5. ASSUME NEW j \in DOMAIN jobs, WriteSticky(j),
             NEW i \in DOMAIN comments', comments'[i].marker = Sticky
      PROVE  GoodBody(comments'[i].body, threads', recorded', clock')
  <2> DEFINE b == jobs[j]
             shas == IF b.reviewed = {} THEN <<>> ELSE Path :> b.head
             s == [EmptyState EXCEPT !.safe = TRUE, !.ledger = b.ledger, !.shas = shas]
  <2>1. comments' = Upsert(Sticky, StickyBody(s)) /\ b.pc = "published"
    BY <1>5 DEF WriteSticky, At
  <2>2. GoodEntries(b.ledger, threads, clock) /\ Known(b.ledger, recorded)
    BY <2>1 DEF MemoryInv, GoodJob
  <2>3. {"ledger", "replies"} \subseteq DOMAIN s /\ s.ledger = b.ledger
    <3> HIDE DEF shas, b
    <3> QED
      BY DEF EmptyState
  <2> HIDE DEF s
  <2>4. GoodState(s, threads', recorded', clock')
    BY <1>a, <2>2, <2>3 DEF GoodState
  <2> QED
    BY <1>1, <1>5, <2>1, <2>4
<1>6. ASSUME NEW j \in DOMAIN jobs, WriteLog(j),
             NEW i \in DOMAIN comments', comments'[i].marker = Sticky
      PROVE  GoodBody(comments'[i].body, threads', recorded', clock')
  <2>0. Sticky # Log
    BY DEF Sticky, Log
  <2>1. PICK body : comments' = Upsert(Log, body)
    BY <1>6 DEF WriteLog
  <2>2. /\ DOMAIN comments' = DOMAIN comments \cup {Target(Log)}
        /\ comments'[Target(Log)].marker = Log
        /\ \A k \in DOMAIN comments : k # Target(Log) => comments'[k] = comments[k]
    BY <1>0, <2>1, Upserted
  <2> QED
    BY <1>b, <1>6, <2>0, <2>2
<1>7. UNCHANGED comments \/ RestateSticky \/ RestateLog
      \/ \E j \in DOMAIN jobs : WriteLedger(j) \/ WriteSticky(j) \/ WriteLog(j)
  BY DEF Next, StartSignals, StartReview, StartBypass, StartReReview, Start, Step, Die, Walk,
     Classify, Reread, ReviewAndReconcile, PublishReview, Conclude, ReadLog, Sweep,
     FileEscapedFinding, Downvote, ResolveByHand, Reply, Restate, Push, PutLabel, Merge, Tick,
     vars
<1> QED
  BY <1>2, <1>3, <1>4, <1>5, <1>6, <1>7, <1>8

\* MemoryInv is inductive.
LEMMA MemoryStep == MemoryInv /\ [Next]_vars => MemoryInv'
<1> SUFFICES ASSUME MemoryInv, [Next]_vars PROVE MemoryInv'
  OBVIOUS
<1>0. /\ CommentsInv' /\ JobsInv' /\ WorldTypes' /\ JobsInv /\ IsSeq(jobs)
      /\ Grown(threads, threads') /\ clock <= clock' /\ clock \in Nat /\ clock' \in Nat
      /\ recorded \subseteq recorded'
  BY CommentsStep, JobsStep, WorldGrows DEF MemoryInv, WorldTypes, JobsInv
<1>a. \A b : GoodJob(b, threads, recorded, clock) => GoodJob(b, threads', recorded', clock')
  BY <1>0, JobKept
<1>b. \A k \in DOMAIN jobs : GoodJob(jobs[k], threads', recorded', clock')
  BY <1>a DEF MemoryInv
<1>1. ASSUME NEW k \in DOMAIN jobs' PROVE GoodJob(jobs'[k], threads', recorded', clock')
  <2>1. CASE StartSignals \/ StartReview \/ StartBypass \/ StartReReview
    <3>1. PICK job : Start(job) /\ GoodJob(job, threads, recorded, clock)
      BY <2>1, StartIsGood
    <3>2. Started(job)
      BY <1>0, <3>1, StartStarts
    <3>3. (k \in DOMAIN jobs /\ jobs'[k] = jobs[k]) \/ jobs'[k] = job
      BY <3>2 DEF Started
    <3> QED
      BY <1>a, <1>b, <3>1, <3>3
  <2>2. CASE \E j \in DOMAIN jobs : Step(j) \/ Die(j)
    <3>1. PICK j \in DOMAIN jobs : Step(j) \/ Die(j)
      BY <2>2
    <3>2. Moved(j) /\ GoodJob(jobs'[j], threads', recorded', clock')
      BY <1>0, <3>1, JobSteps, StepIsGood
    <3> QED
      BY <1>b, <3>2 DEF Moved
  <2>3. CASE Human \/ UNCHANGED vars
    <3>1. UNCHANGED jobs
      BY <2>3, Zenon DEF Human, Downvote, ResolveByHand, Reply, Restate, RestateSticky,
         RestateLog, Push, PutLabel, Merge, Tick, vars
    <3> QED
      BY <1>b, <3>1
  <2> QED
    BY <2>1, <2>2, <2>3 DEF Next, Human
<1> QED
  BY <1>0, <1>1, BodiesStep DEF MemoryInv

\* It holds at first.
LEMMA MemoryInit == Init => MemoryInv
<1> SUFFICES ASSUME Init PROVE MemoryInv
  OBVIOUS
<1> DEFINE shas == Path :> file
           s == [EmptyState EXCEPT !.safe = TRUE, !.shas = shas]
           c == [marker |-> Sticky, poster |-> Cite, body |-> StickyBody(s)]
<1>0. CommentsInv /\ JobsInv
  BY LogInit DEF LogInv
<1>1. comments = <<c>> /\ jobs = <<>> /\ file \in Contents /\ clock = 0 /\ events = 0
      /\ label = FALSE /\ merged = None
  BY DEF Init
<1>2. c.body = StickyBody(s)
  OBVIOUS
<1>3. GoodBody(StickyBody(s), threads, recorded, clock)
  <2> HIDE DEF shas
  <2>1. {"ledger", "replies"} \subseteq DOMAIN s /\ s.ledger = {}
    BY DEF EmptyState
  <2> HIDE DEF s
  <2>2. GoodState(s, threads, recorded, clock)
    BY <2>1 DEF GoodState, GoodEntries, Known
  <2> QED
    BY <2>2, StickyHolds
<1> HIDE DEF c, s
<1>4. \A i \in DOMAIN comments : GoodBody(comments[i].body, threads, recorded, clock)
  <2>1. DOMAIN comments = {1} /\ comments[1] = c
    BY <1>1
  <2> QED
    BY <1>2, <1>3, <2>1
<1>5. threads \in Seq(Thread)
  <2>1. PICK fp \in file :
          threads = <<[fp |-> fp, by |-> Nobody, down |-> FALSE, replies |-> <<>>]>>
    BY DEF Init
  <2>2. fp \in Fps
    BY <1>1 DEF Init, Contents
  <2>3. <<>> \in Seq(People)
    OBVIOUS
  <2> DEFINE t == [fp |-> fp, by |-> Nobody, down |-> FALSE, replies |-> <<>>]
  <2>4. t \in Thread
    BY <2>2, <2>3 DEF Thread
  <2> HIDE DEF t, Thread
  <2>5. threads = <<t>>
    BY <2>1 DEF t
  <2> QED
    BY <2>4, <2>5
<1>6. WorldTypes
  <2>1. clock \in Nat /\ events \in Nat /\ events <= MaxEvents
    <3>1. MaxEvents \in Nat /\ clock = 0 /\ events = 0
      BY <1>1, ConversationAssumption
    <3> QED
      BY <3>1
  <2>2. label \in BOOLEAN
    BY <1>1
  <2> QED
    BY <1>1, <1>5, <2>1, <2>2 DEF WorldTypes
<1>7. DOMAIN jobs = {}
  BY <1>1
<1> QED
  BY <1>0, <1>4, <1>6, <1>7 DEF MemoryInv

\* Whatever ledger there is that can be read, its entries are good.
LEMMA LedgersAreGood ==
  ASSUME MemoryInv, NEW L \in Ledgers \ {Corrupt}
  PROVE  GoodEntries(L, threads, clock)
<1>1. CASE \E i \in DOMAIN comments :
             comments[i].marker = Sticky /\ L = ReadSticky(comments[i].body).ledger
  <2>1. PICK i \in DOMAIN comments :
             comments[i].marker = Sticky /\ L = ReadSticky(comments[i].body).ledger
    BY <1>1
  <2>2. GoodState(ReadSticky(comments[i].body), threads, recorded, clock)
    BY <2>1, ReadIsGood DEF MemoryInv
  <2> QED
    BY <2>1, <2>2 DEF GoodState
<1>2. CASE \E j \in DOMAIN jobs : "ledger" \in DOMAIN jobs[j] /\ L = jobs[j].ledger
  <2>1. PICK j \in DOMAIN jobs : "ledger" \in DOMAIN jobs[j] /\ L = jobs[j].ledger
    BY <1>2
  <2>2. JobShape(jobs[j]) /\ GoodJob(jobs[j], threads, recorded, clock)
    BY DEF MemoryInv, JobsInv
  <2>3. /\ jobs[j].pc \in {"walked", "reread", "reconciled", "published"}
        /\ jobs[j].pc \in {"walked", "reread"} => jobs[j].kind = "signals"
    BY <2>1, <2>2 DEF JobShape, StagesOf, Stages
  <2> QED
    BY <2>1, <2>2, <2>3 DEF GoodJob
<1> QED
  BY <1>1, <1>2 DEF Ledgers

\* TypeOK: the variables have their values, and every entry of a ledger that can
\* be read is of a kind there is, of a fingerprint there is, and not of the future.
THEOREM MemoryIsTyped == Spec => []TypeOK
<1>1. MemoryInv => TypeOK
  <2> SUFFICES ASSUME MemoryInv PROVE TypeOK
    OBVIOUS
  <2>1. \A L \in Ledgers \ {Corrupt} : \A e \in L :
          e.kind \in EntryKinds /\ e.fp \in Fps /\ e.at \in 0..clock
    BY LedgersAreGood DEF GoodEntries
  <2>2. \A j \in DOMAIN jobs : jobs[j].kind \in {"signals", "review", "bypass", "re-review"}
    BY DEF MemoryInv, JobsInv, JobShape
  <2>3. Len(jobs) <= MaxJobs
    BY DEF MemoryInv, JobsInv
  <2>4. WorldTypes
    BY DEF MemoryInv
  <2> QED
    BY <2>1, <2>2, <2>3, <2>4 DEF TypeOK, WorldTypes, Thread
<1> QED
  BY <1>1, MemoryInit, MemoryStep, PTL DEF Spec

\* LedgerIsTrue: whichever jobs overlap, die, or are fed a state that is old,
\* quoted or broken, every entry of every ledger is about a reaction, a resolution
\* or a reply that there was, by someone whose word counts (signals.go, ledger.go).
THEOREM LedgerTellsTheTruth == Spec => []LedgerIsTrue
<1>1. MemoryInv => LedgerIsTrue
  BY LedgersAreGood DEF GoodEntries, LedgerIsTrue, Attests, Attested
<1> QED
  BY <1>1, MemoryInit, MemoryStep, PTL DEF Spec

\* SuppressedForCause: a review is silent about a finding only for a dismissal of
\* it or a resolution of its like on the very blob, which a signals job has
\* recorded within the expiry (reconcile.go, ledger.go).
THEOREM SilenceHasACause == Spec => []SuppressedForCause
<1>1. MemoryInv => SuppressedForCause
  BY DEF MemoryInv, GoodJob, SuppressedForCause, At
<1> QED
  BY <1>1, MemoryInit, MemoryStep, PTL DEF Spec

\* One line more goes after those there are.
LEMMA AppendKeeps ==
  ASSUME NEW s, IsSeq(s), NEW e
  PROVE  IsPrefix(s, Append(s, e))
<1> DEFINE r == Append(s, e)
           S == ToSet(s) \cup {e}
<1>1. /\ IsSeq(r) /\ Len(s) \in Nat /\ DOMAIN s = 1..Len(s) /\ Len(r) = Len(s) + 1
      /\ \A i \in DOMAIN s : r[i] = s[i]
  BY Appended
<1>2. s \in Seq(ToSet(s)) /\ r \in Seq(ToSet(r))
  BY <1>1 DEF IsSeq
<1> HIDE DEF r
<1>3. /\ SubSeq(s, 1, Len(s)) = [i \in 1..Len(s) |-> s[i]]
      /\ SubSeq(r, 1, Len(s)) = [i \in 1..Len(s) |-> r[i]]
  <2>1. SubSeq(s, 1, Len(s)) = [i \in 1..Len(s) |-> s[i]]
    BY <1>1, <1>2
  <2>2. SubSeq(r, 1, Len(s)) = [i \in 1..Len(s) |-> r[i]]
    BY <1>1, <1>2
  <2> QED
    BY <2>1, <2>2
<1>4. SubSeq(s, 1, Len(s)) = SubSeq(r, 1, Len(s))
  BY <1>1, <1>3
<1> QED
  BY <1>1, <1>4 DEF IsPrefix, r

\* Where a job is over that was not, it is the job that moved, and it wrote.
LEMMA WriterWrites ==
  ASSUME JobsInv, [Next]_vars, NEW j \in DOMAIN jobs, Writes(j), jobs[j].pc # "done"
  PROVE  WriteLedger(j) \/ WriteSticky(j) \/ WriteLog(j)
<1>0. IsSeq(jobs) /\ jobs'[j].pc = "done" /\ comments' # comments
  BY DEF JobsInv, Writes
<1>1. CASE StartSignals \/ StartReview \/ StartBypass \/ StartReReview
  BY <1>0, <1>1 DEF StartSignals, StartReview, StartBypass, StartReReview, Start
<1>2. CASE \E i \in DOMAIN jobs : Step(i) \/ Die(i)
  <2>1. PICK i \in DOMAIN jobs : Step(i) \/ Die(i)
    BY <1>2
  <2>2. i = j
    BY <1>0, <2>1, JobSteps DEF Moved
  <2> QED
    BY <1>0, <2>1, <2>2 DEF Step, Die, Walk, Classify, Reread, ReviewAndReconcile,
       PublishReview, Conclude, ReadLog, Sweep, FileEscapedFinding
<1>3. CASE Human \/ UNCHANGED vars
  <2>1. UNCHANGED jobs
    BY <1>3, Zenon DEF Human, Downvote, ResolveByHand, Reply, Restate, RestateSticky,
       RestateLog, Push, PutLabel, Merge, Tick, vars
  <2> QED
    BY <1>0, <2>1
<1> QED
  BY <1>1, <1>2, <1>3 DEF Next, Human

\* What a write to the sticky comment leaves there.
LEMMA LedgerIsKept ==
  ASSUME CommentsInv, NEW j \in DOMAIN jobs, NEW s, comments' = Upsert(Sticky, StickyBody(s)),
         s.ledger = jobs[j].ledger, Covers(jobs[j])
  PROVE  KeepsLedger(j)
<1>1. FindIssueComment(Sticky)' = Target(Sticky)
      /\ comments'[Target(Sticky)].body = StickyBody(s)
  BY Upserted DEF CommentsInv
<1>2. Overwritten(Sticky)' = StickyBody(s)
  BY <1>1 DEF Overwritten
<1>3. Held(StickyBody(s)) = s
  BY StickyHolds
<1>4. Held(Overwritten(Sticky)').ledger = jobs[j].ledger
  BY <1>2, <1>3
<1> QED
  BY <1>4 DEF KeepsLedger, Covers

\* KeepsWhatItRead: a write loses only what its job had not read.  Over a state or
\* a log that is what the job read, no entry and no line is dropped (sticky.go,
\* bypass.go).
THEOREM NothingReadIsLost == Spec => KeepsWhatItRead
<1>1. ASSUME MemoryInv, LogInv, [Next]_vars, NEW j \in DOMAIN jobs, Writes(j)
      PROVE  /\ At(j, "reread") \/ At(j, "published") => KeepsLedger(j)
             /\ At(j, "extending") => KeepsLog(j)
  <2>0. /\ CommentsInv /\ JobsInv /\ JobShape(jobs[j]) /\ LogJob(jobs[j], j, jobs, uses, comments)
        /\ GoodJob(jobs[j], threads, recorded, clock)
    BY <1>1 DEF MemoryInv, LogInv, JobsInv
  <2>1. CASE At(j, "reread")
    <3>1. WriteLedger(j)
      BY <1>1, <2>0, <2>1, WriterWrites DEF At, WriteSticky, WriteLog
    <3>2. jobs[j].kind = "signals"
      BY <2>0, <2>1 DEF At, JobShape, StagesOf, Stages
    <3>3. jobs[j].state.ledger = jobs[j].ledger /\ Covers(jobs[j])
      BY <2>0, <2>1, <3>2 DEF At, GoodJob
    <3>4. KeepsLedger(j)
      BY <2>0, <3>1, <3>3, LedgerIsKept DEF WriteLedger
    <3> QED
      BY <2>1, <3>4 DEF At
  <2>2. CASE At(j, "published")
    <3>1. WriteSticky(j)
      BY <1>1, <2>0, <2>2, WriterWrites DEF At, WriteLedger, WriteLog
    <3> DEFINE shas == IF jobs[j].reviewed = {} THEN <<>> ELSE Path :> jobs[j].head
               s == [EmptyState EXCEPT !.safe = TRUE, !.ledger = jobs[j].ledger, !.shas = shas]
    <3>2. comments' = Upsert(Sticky, StickyBody(s))
      BY <3>1 DEF WriteSticky
    <3>3. s.ledger = jobs[j].ledger
      <4> HIDE DEF shas
      <4> QED
        BY DEF EmptyState
    <3>4. Covers(jobs[j])
      BY <2>0, <2>2 DEF At, GoodJob
    <3> HIDE DEF s
    <3>5. KeepsLedger(j)
      BY <2>0, <3>2, <3>3, <3>4, LedgerIsKept
    <3> QED
      BY <2>2, <3>5 DEF At
  <2>3. CASE At(j, "extending")
    <3>1. WriteLog(j)
      BY <1>1, <2>0, <2>3, WriterWrites DEF At, WriteLedger, WriteSticky
    <3> DEFINE body == ExtendedLog(jobs[j].saw, jobs[j].line)
    <3>2. comments' = Upsert(Log, body)
      BY <3>1 DEF WriteLog
    <3>3. IsPrefix(jobs[j].saw, body)
      BY <2>0, <2>3, AppendKeeps DEF At, LogJob, GoodLines, ExtendedLog
    <3> HIDE DEF body
    <3>4. FindIssueComment(Log)' = Target(Log) /\ comments'[Target(Log)].body = body
      BY <2>0, <3>2, Upserted DEF CommentsInv
    <3>5. Overwritten(Log)' = body
      BY <3>4 DEF Overwritten
    <3>6. KeepsLog(j)
      BY <3>3, <3>5 DEF KeepsLog
    <3> QED
      BY <2>3, <3>6 DEF At
  <2> QED
    BY <2>1, <2>2, <2>3
<1>2. MemoryInv /\ LogInv /\ [Next]_vars =>
        \A j \in DOMAIN jobs :
          /\ (At(j, "reread") \/ At(j, "published")) /\ Writes(j) => KeepsLedger(j)
          /\ At(j, "extending") /\ Writes(j) => KeepsLog(j)
  BY <1>1
<1> QED
  BY <1>2, MemoryInit, MemoryStep, LogInit, LogStep, PTL DEF Spec, KeepsWhatItRead

-----------------------------------------------------------------------------
(***************************************************************************)
(* What the dismissal ledger promises for every ledger, expiry and time:   *)
(* dropping what has expired changes no answer it will ever give, a        *)
(* dismissal lasts exactly its expiry, and none of the writes of one job   *)
(* weakens an entry of another's.                                          *)
(***************************************************************************)

\* Every entry says when.
Timed(ledger) == \A e \in ledger : e.at \in Int

\* An entry that has expired is expired at any later time.
LEMMA ExpiredForGood ==
  ASSUME NEW e, e.at \in Int, NEW now \in Int, NEW later \in Int, now <= later,
         expired(e, now)
  PROVE  expired(e, later)
  BY ExpiryAssumption DEF expired

\* Pruning is invisible: whoever is asked, of whatever finding, at any time from
\* then on, a pruned ledger answers what the whole one would
\* (ledger.go:200-211, :145, :179).
THEOREM PruneKeepsAnswers ==
  ASSUME NEW ledger, Timed(ledger), NEW now \in Int, NEW later \in Int, now <= later,
         NEW fp, NEW coarse, NEW blob
  PROVE  /\ Active(Prune(ledger, now), fp, later) <=> Active(ledger, fp, later)
         /\ ResolvedActive(Prune(ledger, now), fp, coarse, blob, later)
              <=> ResolvedActive(ledger, fp, coarse, blob, later)
<1>1. Prune(ledger, now) \subseteq ledger
  BY DEF Prune
<1>2. ASSUME NEW e \in ledger, ~expired(e, later) PROVE e \in Prune(ledger, now)
  BY <1>2, ExpiredForGood DEF Prune, Timed
<1>3. Active(Prune(ledger, now), fp, later) <=> Active(ledger, fp, later)
  BY <1>1, <1>2 DEF Active
<1>4. ResolvedActive(Prune(ledger, now), fp, coarse, blob, later)
        <=> ResolvedActive(ledger, fp, coarse, blob, later)
  BY <1>1, <1>2 DEF ResolvedActive
<1> QED
  BY <1>3, <1>4

\* Pruning again, now or later, with a write in between or without, comes to the
\* same: what was dropped early would have been dropped late.
THEOREM PruneEarlyOrLate ==
  ASSUME NEW ledger, Timed(ledger), NEW more, NEW now \in Int, NEW later \in Int,
         now <= later
  PROVE  Prune(Prune(ledger, now) \cup more, later) = Prune(ledger \cup more, later)
<1>1. ASSUME NEW e \in ledger, ~(entryKind(e) \in {"dismissal", "resolved"} /\ expired(e, later))
      PROVE  e \in Prune(ledger, now)
  BY <1>1, ExpiredForGood DEF Prune, Timed
<1> QED
  BY <1>1 DEF Prune

\* A dismissal silences its fingerprint from when it is recorded until its expiry
\* and not a tick longer, and says nothing of any other finding (ledger.go:96, :145).
THEOREM DismissalLasts ==
  ASSUME NEW ledger, NEW dismissed, NEW author, NEW now \in Int, NEW fp, NEW later \in Int
  PROVE  Active(Add(ledger, dismissed, author, now), fp, later)
           <=> \/ Active(ledger, fp, later)
               \/ fp = dismissed /\ later < now + LedgerExpiry
<1> DEFINE e == Entry("dismissal", dismissed, author, now)
<1>1. entryKind(e) = "dismissal" /\ e.fp = dismissed /\ e.at = now
  BY DEF Entry, entryKind
<1>2. expired(e, later) <=> ~(later < now + LedgerExpiry)
  BY <1>1, ExpiryAssumption DEF expired
<1>3. Add(ledger, dismissed, author, now) = ledger \cup {e}
  BY DEF Add
<1> HIDE DEF e
<1> QED
  BY <1>1, <1>2, <1>3 DEF Active

\* A resolution silences nothing on any other blob than the one it was recorded
\* for, nor where one of the two is unknown (ledger.go:110-127, :166-194).
THEOREM ResolutionIsOfItsBlob ==
  ASSUME NEW ledger, NEW done, NEW like, NEW at, NEW now,
         NEW fp, NEW coarse, NEW blob, NEW later, at = None \/ blob # at
  PROVE  /\ ResolvedActive(AddResolved(ledger, done, like, at, now), fp, coarse, blob, later)
              <=> ResolvedActive(ledger, fp, coarse, blob, later)
         /\ Active(AddResolved(ledger, done, like, at, now), fp, later)
              <=> Active(ledger, fp, later)
<1> DEFINE e == [Entry("resolved", done, "", now) EXCEPT !.coarse = like, !.blob = at]
<1>1. entryKind(e) = "resolved" /\ e.blob = at
  BY DEF Entry, entryKind
<1> QED
  BY <1>1 DEF AddResolved, Active, ResolvedActive

\* Whatever a job adds to a ledger, every answer that was to keep quiet stays:
\* the writes only add (ledger.go:96-141).
THEOREM WritesOnlyAdd ==
  ASSUME NEW ledger, NEW more, ledger \subseteq more, NEW fp, NEW coarse, NEW blob, NEW now
  PROVE  /\ Active(ledger, fp, now) => Active(more, fp, now)
         /\ ResolvedActive(ledger, fp, coarse, blob, now)
              => ResolvedActive(more, fp, coarse, blob, now)
  BY DEF Active, ResolvedActive
=============================================================================
