------------------------- MODULE PullRequest_proofs -------------------------
(***************************************************************************)
(* The properties of PullRequest, proved for every set of reviewers, files *)
(* and findings, every similarity of their texts, and any number of runs,  *)
(* comments and threads.                                                   *)
(*                                                                         *)
(* What the reconciler computes comes first: each of its three passes is a *)
(* fold, and MatchMatches says of the three together what the rest needs   *)
(* (MatchFacts).  Then three inductive invariants.  RoundInv holds the     *)
(* places of the runs together with what justifies each resolution a plan  *)
(* lists; TypeOK and ResolvedForCause follow.  PeakInv counts the comments *)
(* that a plan has yet to post with the threads that are open, so that     *)
(* posting does not break NoDuplicate.  AgreeInv is what a run that        *)
(* nothing disturbed knows of the threads between its fetch and its last   *)
(* resolution; ThreadsAgree is its end.                                    *)
(***************************************************************************)
EXTENDS PullRequest, Induction_proofs, SequenceTheorems

-----------------------------------------------------------------------------
(* What a pass takes. *)

\* The lowest ID of a set of threads is one of them.
LEMMA LeastIsOne ==
  ASSUME NEW S \in SUBSET Nat, S # {}
  PROVE  Least(S) \in S
  BY LeastElement DEF Least

\* What is picked is one of the candidates; nothing is picked only when there
\* are none.
LEMMA PickIsOne ==
  ASSUME NEW sets, NEW k \in Nat, Len(sets) = k,
         \A i \in 1..k : sets[i] \in SUBSET Nat
  PROVE  \/ Pick(sets) = 0 /\ \A i \in 1..k : sets[i] = {}
         \/ \E i \in 1..k : Pick(sets) \in sets[i]
<1> DEFINE I == {i \in 1..k : sets[i] # {}}
           i == SelectInSeq(sets, LAMBDA S : S # {})
<1>1. i = IF I # {} THEN Min(I) ELSE 0
  BY DEF SelectInSeq
<1>2. CASE I = {}
  BY <1>1, <1>2 DEF Pick
<1>3. CASE I # {}
  <2>1. Min(I) \in I
    <3>1. I \in SUBSET Nat
      OBVIOUS
    <3> HIDE DEF I
    <3> QED
      BY <1>3, <3>1, LeastElement DEF Min
  <2>2. i \in 1..k /\ sets[i] # {} /\ i # 0
    <3>1. i \in I
      <4> HIDE DEF I
      <4> QED
        BY <1>1, <1>3, <2>1
    <3> HIDE DEF i
    <3> QED
      BY <3>1
  <2>3. Pick(sets) = Least(sets[i])
    <3>1. Pick(sets) = IF i = 0 THEN 0 ELSE Least(sets[i])
      BY DEF Pick
    <3> HIDE DEF i
    <3> QED
      BY <2>2, <3>1
  <2> HIDE DEF i
  <2> QED
    BY <2>2, <2>3, LeastIsOne
<1> QED
  BY <1>2, <1>3

-----------------------------------------------------------------------------
(* The matching. *)

\* What matches n findings to some of l threads.
Matchings(n, l) == [1..n -> 0..l]

\* Each thread answers for one finding.
Apart(match) == \A i, k \in DOMAIN match : match[i] = match[k] /\ match[i] # 0 => i = k

\* One more finding is matched, to a thread none is matched to.
LEMMA OneMore ==
  ASSUME NEW n \in Nat, NEW l \in Nat, NEW m \in Matchings(n, l), Apart(m),
         NEW i \in 1..n, m[i] = 0, NEW j,
         j = 0 \/ (j \in 1..l /\ j \notin {m[k] : k \in DOMAIN m})
  PROVE  /\ [m EXCEPT ![i] = j] \in Matchings(n, l)
         /\ Apart([m EXCEPT ![i] = j])
         /\ [m EXCEPT ![i] = j][i] = j
         /\ \A k \in 1..n : k # i => [m EXCEPT ![i] = j][k] = m[k]
  BY DEF Matchings, Apart

\* An exact match is an open thread of the finding's fingerprint, and there is
\* one whenever such a thread is free.
LEMMA TakeExactIs ==
  ASSUME NEW found, NEW live, NEW l \in Nat, DOMAIN live = 1..l, NEW m, NEW i
  PROVE  \/ /\ TakeExact(found, live, m, i) = 0
            /\ \A j \in Free(m, Open(live)) : live[j].fp # found[i].fp
         \/ /\ TakeExact(found, live, m, i) \in Free(m, Open(live))
            /\ live[TakeExact(found, live, m, i)].fp = found[i].fp
<1> DEFINE equal == {j \in Free(m, Open(live)) : live[j].fp = found[i].fp}
           here == {j \in equal : live[j].path = found[i].path}
           x == TakeExact(found, live, m, i)
<1>1. x = Pick(<<here, equal>>)
  BY DEF TakeExact
<1>2. here \in SUBSET Nat /\ equal \in SUBSET Nat /\ here \subseteq equal
  BY DEF Free, Open
<1> HIDE DEF here, x
<1>3. \/ Pick(<<here, equal>>) = 0 /\ equal = {}
      \/ Pick(<<here, equal>>) \in equal
  <2> HIDE DEF equal
  <2> DEFINE sets == <<here, equal>>
  <2>1. Len(sets) = 2 /\ sets[1] = here /\ sets[2] = equal /\ \A q \in 1..2 : q = 1 \/ q = 2
    OBVIOUS
  <2>0. 2 \in 1..2
    OBVIOUS
  <2> HIDE DEF sets
  <2>2. \A q \in 1..2 : sets[q] \in SUBSET Nat
    BY <1>2, <2>1
  <2>3. \/ Pick(sets) = 0 /\ \A q \in 1..2 : sets[q] = {}
        \/ \E q \in 1..2 : Pick(sets) \in sets[q]
    BY <2>1, <2>2, PickIsOne
  <2>4. \/ Pick(sets) = 0 /\ equal = {}
        \/ Pick(sets) \in equal
    BY <1>2, <2>0, <2>1, <2>3
  <2> QED
    BY <2>4 DEF sets
<1> QED
  BY <1>1, <1>3 DEF x

\* What is taken for the same claim is free, has the fingerprint or was called
\* the same claim, and if it is resolved its span stands.
Claimed(found, live, opts, i, j) ==
  /\ live[j].fp = found[i].fp \/ <<found[i].fp, live[j].fp>> \in opts.same
  /\ live[j].resolved => j \notin opts.gone

\* What TakeClaim takes is claimed.
LEMMA TakeClaimIs ==
  ASSUME NEW found, NEW live, NEW l \in Nat, DOMAIN live = 1..l, NEW m, NEW i, NEW opts
  PROVE  \/ TakeClaim(found, live, m, i, opts) = 0
         \/ /\ TakeClaim(found, live, m, i, opts) \in Free(m, 1..l)
            /\ Claimed(found, live, opts, i, TakeClaim(found, live, m, i, opts))
<1> DEFINE here     == {j \in Free(m, DOMAIN live) : live[j].path = found[i].path}
           standing == {j \in here : live[j].resolved /\ j \notin opts.gone}
           restates(j) == <<found[i].fp, live[j].fp>> \in opts.same
           s1 == {j \in here : ~live[j].resolved /\ restates(j)}
           s2 == {j \in standing : live[j].fp = found[i].fp}
           s3 == {j \in standing : restates(j)}
           sets == <<s1, s2, s3>>
           x == TakeClaim(found, live, m, i, opts)
<1>1. x = Pick(sets)
  BY DEF TakeClaim
<1>2. /\ \A j \in s1 : j \in here /\ ~live[j].resolved /\ restates(j)
      /\ \A j \in s2 \cup s3 : j \in here /\ j \notin opts.gone
      /\ \A j \in s2 : live[j].fp = found[i].fp
      /\ \A j \in s3 : restates(j)
  BY Zenon
<1>3. here \subseteq Free(m, 1..l) /\ Free(m, 1..l) \subseteq Nat
  BY DEF Free
<1>4. Len(sets) = 3 /\ sets[1] = s1 /\ sets[2] = s2 /\ sets[3] = s3
      /\ \A q \in 1..3 : q \in {1, 2, 3}
  <2> HIDE DEF s1, s2, s3
  <2> QED
    OBVIOUS
<1> HIDE DEF sets, s1, s2, s3, here, x, restates
<1>5. \A q \in 1..3 : sets[q] \in SUBSET Nat
  <2>1. s1 \subseteq here /\ s2 \subseteq here /\ s3 \subseteq here
    BY <1>2
  <2> QED
    BY <1>3, <1>4, <2>1
<1>6. \/ Pick(sets) = 0
      \/ \E q \in 1..3 : Pick(sets) \in sets[q]
  BY <1>4, <1>5, PickIsOne
<1>7. x = 0 \/ x \in s1 \/ x \in s2 \/ x \in s3
  BY <1>1, <1>4, <1>6
<1>8. ASSUME x \in s1 \cup s2 \cup s3
      PROVE  x \in Free(m, 1..l) /\ Claimed(found, live, opts, i, x)
  <2>1. x \in here
    BY <1>2, <1>8
  <2>2. Claimed(found, live, opts, i, x)
    BY <1>2, <1>8 DEF Claimed, restates
  <2> QED
    BY <1>3, <2>1, <2>2
<1> QED
  BY <1>7, <1>8 DEF x

-----------------------------------------------------------------------------
(* The exact pass. *)

\* A walk in which pass 1 can be seen at work.
ExactSteps(found, live, match, n, it) ==
  /\ it[{}] = match
  /\ it[1..n] = ExactPass(found, live, match)
  /\ \A T \in SUBSET (1..n) : T # {} =>
       LET m == it[T \ {Max(T)}]
       IN  it[T] = [m EXCEPT ![Max(T)] = TakeExact(found, live, m, Max(T))]

\* There is one.
LEMMA ExactWalk ==
  ASSUME NEW found, NEW n \in Nat, DOMAIN found = 1..n,
         NEW live, NEW l \in Nat, DOMAIN live = 1..l,
         NEW match \in Matchings(n, l)
  PROVE  \E it : ExactSteps(found, live, match, n, it)
<1> DEFINE C == Matchings(n, l)
           Op(m, i) == [m EXCEPT ![i] = TakeExact(found, live, m, i)]
           h == [e \in (1..n) \X C |-> Op(e[2], e[1])]
           s == [i \in DOMAIN found |-> i]
           W(it) == [T \in SUBSET DOMAIN s |->
                       IF T = {} THEN match ELSE Op(it[T \ {Max(T)}], s[Max(T)])]
           it == CHOOSE it : it = W(it)
<1>1. DOMAIN s = 1..n /\ \A i \in 1..n : s[i] = i
  OBVIOUS
<1>2. ExactPass(found, live, match) = it[DOMAIN s]
  BY DEF ExactPass, FoldLeftDomain, FoldLeft, MapThenFoldSet
<1>3. ASSUME NEW m \in C, NEW i \in 1..n PROVE Op(m, i) \in C
  <2>1. TakeExact(found, live, m, i) \in 0..l
    <3>1. Free(m, Open(live)) \subseteq 1..l
      BY DEF Free, Open
    <3> QED
      BY <3>1, TakeExactIs
  <2> HIDE DEF C
  <2>2. m \in [1..n -> 0..l]
    BY DEF C, Matchings
  <2> QED
    BY <2>1, <2>2 DEF C, Matchings
<1>4. match \in C
  OBVIOUS
<1>5. PICK g \in [SUBSET (1..n) -> C] : \A T \in SUBSET (1..n) :
        g[T] = IF T = {} THEN match ELSE h[<<Max(T), g[T \ {Max(T)}]>>]
  <2>1. h \in [(1..n) \X C -> C]
    <3> HIDE DEF C, Op
    <3> QED
      BY <1>3
  <2> HIDE DEF h, C
  <2>2. Walks(n, C, match, h) # {}
    BY <1>4, <2>1, WalkExists
  <2> QED
    BY <2>2 DEF Walks
<1> HIDE DEF C
<1>6. g = W(g)
  <2>1. ASSUME NEW T \in SUBSET (1..n), T # {}
        PROVE  g[T] = Op(g[T \ {Max(T)}], s[Max(T)])
    <3>1. Max(T) \in 1..n /\ g[T \ {Max(T)}] \in C
      BY <2>1, LargestIndex
    <3> HIDE DEF Op
    <3>2. h[<<Max(T), g[T \ {Max(T)}]>>] = Op(g[T \ {Max(T)}], Max(T))
      BY <3>1
    <3> QED
      BY <1>1, <1>5, <2>1, <3>1, <3>2
  <2> HIDE DEF Op, h
  <2> QED
    BY <1>1, <1>5, <2>1
<1>7. it = W(it)
  <2> HIDE DEF W
  <2> QED
    BY <1>6
<1> HIDE DEF it
<1>8. ASSUME NEW T \in SUBSET (1..n), T # {}
      PROVE  it[T] = Op(it[T \ {Max(T)}], Max(T))
  <2>1. Max(T) \in 1..n
    BY <1>8, LargestIndex
  <2> HIDE DEF Op
  <2> QED
    BY <1>1, <1>7, <1>8, <2>1
<1>9. it[{}] = match
  BY <1>1, <1>7
<1> QED
  BY <1>1, <1>2, <1>8, <1>9 DEF ExactSteps

\* Every finding is matched to an open thread of its fingerprint or to none, and
\* it is matched to none only when the open threads of its fingerprint are all
\* answered for.
ExactFacts(found, live, n, l, T, m) ==
  /\ m \in Matchings(n, l)
  /\ Apart(m)
  /\ \A i \in 1..n : m[i] # 0 => m[i] \in Open(live) /\ live[m[i]].fp = found[i].fp
  /\ \A i \in (1..n) \ T : m[i] = 0
  /\ \A i \in T : m[i] = 0 =>
       \A j \in Open(live) : live[j].fp = found[i].fp => j \in {m[k] : k \in 1..n}

\* What pass 1 computes: the induction follows its walk over the findings.
LEMMA ExactMatches ==
  ASSUME NEW found, NEW n \in Nat, DOMAIN found = 1..n,
         NEW live, NEW l \in Nat, DOMAIN live = 1..l
  PROVE  ExactFacts(found, live, n, l, 1..n,
                    ExactPass(found, live, [i \in DOMAIN found |-> 0]))
<1> DEFINE none == [i \in DOMAIN found |-> 0]
<1>1. none \in Matchings(n, l) /\ \A i \in 1..n : none[i] = 0
  BY DEF Matchings
<1> HIDE DEF none
<1>2. PICK it : ExactSteps(found, live, none, n, it)
  BY <1>1, ExactWalk
<1> DEFINE G == {T \in SUBSET (1..n) : ExactFacts(found, live, n, l, T, it[T])}
<1>3. {} \in G
  BY <1>1, <1>2 DEF ExactSteps, ExactFacts, Apart, Matchings
<1>4. ASSUME NEW T \in SUBSET (1..n), T # {}, T \ {Max(T)} \in G
      PROVE  T \in G
  <2> DEFINE i == Max(T)
             U == T \ {i}
             m == it[U]
             x == TakeExact(found, live, m, i)
  <2>1. ExactFacts(found, live, n, l, U, m)
    BY <1>4
  <2>2. i \in T /\ i \in 1..n /\ i \notin U
    BY <1>4, LargestIndex
  <2>3. it[T] = [m EXCEPT ![i] = x]
    BY <1>2, <1>4 DEF ExactSteps
  <2>4. \/ x = 0 /\ \A j \in Free(m, Open(live)) : live[j].fp # found[i].fp
        \/ x \in Free(m, Open(live)) /\ live[x].fp = found[i].fp
    <3> HIDE DEF i, m
    <3> QED
      BY TakeExactIs
  <2>5. Free(m, Open(live)) = Open(live) \ {m[k] : k \in 1..n} /\ Open(live) \subseteq 1..l
    BY <2>1 DEF Free, Open, ExactFacts, Matchings
  <2> HIDE DEF i, U, m, x
  <2>6. m[i] = 0
    BY <2>1, <2>2 DEF ExactFacts
  <2>7. DOMAIN m = 1..n
    BY <2>1 DEF ExactFacts, Matchings
  <2> DEFINE e == [m EXCEPT ![i] = x]
  <2>8. /\ e \in Matchings(n, l) /\ Apart(e) /\ e[i] = x
        /\ \A k \in 1..n : k # i => e[k] = m[k]
    <3>1. x = 0 \/ (x \in 1..l /\ x \notin {m[k] : k \in DOMAIN m})
      BY <2>4, <2>5, <2>7
    <3> QED
      BY <2>1, <2>2, <2>6, <3>1, OneMore DEF ExactFacts
  <2> HIDE DEF e
  <2>9. \A k \in 1..n : e[k] # 0 => e[k] \in Open(live) /\ live[e[k]].fp = found[k].fp
    BY <2>1, <2>4, <2>5, <2>8 DEF ExactFacts
  <2>10. \A k \in (1..n) \ T : e[k] = 0
    <3>1. \A k \in (1..n) \ T : k # i /\ k \in (1..n) \ U
      BY <2>2 DEF U
    <3> QED
      BY <2>1, <2>8, <3>1 DEF ExactFacts
  <2>11. ASSUME NEW k \in T, e[k] = 0, NEW j \in Open(live), live[j].fp = found[k].fp
         PROVE  j \in {e[q] : q \in 1..n}
    <3>1. j \in {m[q] : q \in 1..n}
      <4>1. CASE k = i
        BY <2>4, <2>5, <2>8, <2>11, <4>1
      <4>2. CASE k # i
        <5>1. k \in U /\ k \in 1..n
          BY <4>2 DEF U
        <5>2. m[k] = 0
          BY <2>8, <2>11, <4>2, <5>1
        <5> QED
          BY <2>1, <2>11, <5>1, <5>2 DEF ExactFacts
      <4> QED
        BY <4>1, <4>2
    <3>2. PICK q \in 1..n : m[q] = j
      BY <3>1
    <3>3. q # i
      <4>1. j # 0
        BY <2>5
      <4> QED
        BY <2>6, <3>2, <4>1
    <3> QED
      BY <2>8, <3>2, <3>3
  <2>12. ExactFacts(found, live, n, l, T, e)
    BY <2>8, <2>9, <2>10, <2>11 DEF ExactFacts
  <2> QED
    BY <2>3, <2>12 DEF e
<1>5. \A T \in SUBSET (1..n) : T \in G
  <2> HIDE DEF G
  <2> QED
    BY <1>3, <1>4, WalkInduction
<1> QED
  BY <1>2, <1>5 DEF ExactSteps, none

-----------------------------------------------------------------------------
(* The passes on what is left. *)

\* The matchings that come of match by matching more findings, each to a free
\* thread that R relates it to.
Further(n, l, match, R) ==
  {m \in Matchings(n, l) :
     /\ Apart(m)
     /\ \A i \in 1..n : m[i] = match[i] \/ (match[i] = 0 /\ <<i, m[i]>> \in R)}

\* One more.
LEMMA FurtherOn ==
  ASSUME NEW n \in Nat, NEW l \in Nat, NEW match, NEW R,
         NEW m \in Further(n, l, match, R), NEW i \in 1..n, m[i] = 0, NEW j,
         j = 0 \/ (j \in 1..l /\ j \notin {m[k] : k \in DOMAIN m} /\ <<i, j>> \in R)
  PROVE  [m EXCEPT ![i] = j] \in Further(n, l, match, R)
<1> DEFINE e == [m EXCEPT ![i] = j]
<1>1. m \in Matchings(n, l) /\ Apart(m)
  BY DEF Further
<1>2. \A k \in 1..n : m[k] = match[k] \/ (match[k] = 0 /\ <<k, m[k]>> \in R)
  BY DEF Further
<1>3. /\ e \in Matchings(n, l) /\ Apart(e) /\ e[i] = j
      /\ \A k \in 1..n : k # i => e[k] = m[k]
  BY <1>1, OneMore
<1> HIDE DEF e
<1>4. ASSUME NEW k \in 1..n
      PROVE  e[k] = match[k] \/ (match[k] = 0 /\ <<k, e[k]>> \in R)
  <2>1. CASE k # i
    BY <1>2, <1>3, <2>1
  <2>2. CASE k = i
    <3>1. match[i] = 0 \/ (<<i, 0>> \in R /\ match[i] = 0)
      BY <1>2
    <3> QED
      BY <1>3, <2>2, <3>1
  <2> QED
    BY <2>1, <2>2
<1>5. e \in Further(n, l, match, R)
  BY <1>3, <1>4 DEF Further
<1> QED
  BY <1>5 DEF e

\* Finding and open thread that are similar enough.
Likenesses(found, live) ==
  {p \in (DOMAIN found) \X Open(live) :
     Similarity[<<found[p[1]].fp, live[p[2]].fp>>] > FuzzyMatchThreshold}

\* Pass 2 keeps what pass 1 matched and adds only open threads that are similar.
LEMMA FuzzyMatches ==
  ASSUME NEW found, NEW n \in Nat, DOMAIN found = 1..n,
         NEW live, NEW l \in Nat, DOMAIN live = 1..l,
         NEW match \in Matchings(n, l), Apart(match)
  PROVE  FuzzyPass(found, live, match)
           \in Further(n, l, match, Likenesses(found, live))
<1> DEFINE R == Likenesses(found, live)
           C == Further(n, l, match, R)
           score(p) == Similarity[<<found[p[1]].fp, live[p[2]].fp>>]
           place(p) == PathOrder[live[p[2]].path]
           before(p, q) ==
             \/ score(p) > score(q)
             \/ score(p) = score(q) /\ place(p) < place(q)
             \/ score(p) = score(q) /\ place(p) = place(q) /\ p[2] < q[2]
             \/ score(p) = score(q) /\ p[2] = q[2] /\ p[1] < q[1]
           firsts(m) == {p \in Similar(found, live, m) :
                           \A q \in Similar(found, live, m) : q = p \/ before(p, q)}
           Op(m, i) == IF firsts(m) = {} THEN m
                       ELSE LET p == CHOOSE p \in firsts(m) : TRUE
                            IN  [m EXCEPT ![p[1]] = p[2]]
           h == [e \in (1..n) \X C |-> Op(e[2], e[1])]
           s == [i \in DOMAIN found |-> i]
           W(it) == [T \in SUBSET DOMAIN s |->
                       IF T = {} THEN match ELSE Op(it[T \ {Max(T)}], s[Max(T)])]
           it == CHOOSE it : it = W(it)
<1>1. DOMAIN s = 1..n /\ \A i \in 1..n : s[i] = i
  OBVIOUS
<1>2. FuzzyPass(found, live, match) = it[DOMAIN s]
  BY DEF FuzzyPass, FoldLeftDomain, FoldLeft, MapThenFoldSet
<1>3. ASSUME NEW m \in C, NEW i \in 1..n PROVE Op(m, i) \in C
  <2>1. CASE firsts(m) = {}
    BY <1>3, <2>1
  <2>2. CASE firsts(m) # {}
    <3> DEFINE p == CHOOSE p \in firsts(m) : TRUE
    <3>1. Op(m, i) = [m EXCEPT ![p[1]] = p[2]]
      BY <2>2
    <3>2. p \in firsts(m)
      <4> HIDE DEF firsts
      <4> QED
        BY <2>2
    <3>3. p \in Similar(found, live, m)
      <4> HIDE DEF p
      <4> QED
        BY <3>2
    <3> HIDE DEF p, C, Op
    <3>4. m \in [1..n -> 0..l] /\ DOMAIN m = 1..n
      BY DEF C, Further, Matchings
    <3>5. /\ p[1] \in 1..n /\ m[p[1]] = 0 /\ p[2] \in Free(m, Open(live))
          /\ Similarity[<<found[p[1]].fp, live[p[2]].fp>>] > FuzzyMatchThreshold
      BY <3>3, <3>4 DEF Similar
    <3>6. p[2] \in Open(live) /\ p[2] \in 1..l /\ p[2] \notin {m[k] : k \in DOMAIN m}
      BY <3>5 DEF Free, Open
    <3>7. <<p[1], p[2]>> \in R
      <4>1. <<p[1], p[2]>> \in (DOMAIN found) \X Open(live)
        BY <3>5, <3>6
      <4> QED
        BY <3>5, <4>1 DEF Likenesses
    <3> HIDE DEF R
    <3> QED
      <4> DEFINE a == p[1]
                 j == p[2]
      <4>1. /\ m \in Further(n, l, match, R) /\ a \in 1..n /\ m[a] = 0
            /\ j = 0 \/ (j \in 1..l /\ j \notin {m[k] : k \in DOMAIN m} /\ <<a, j>> \in R)
        BY <3>5, <3>6, <3>7 DEF C
      <4>2. Op(m, i) = [m EXCEPT ![a] = j]
        BY <3>1
      <4> HIDE DEF a, j
      <4>3. [m EXCEPT ![a] = j] \in Further(n, l, match, R)
        BY <4>1, FurtherOn
      <4> QED
        BY <4>2, <4>3 DEF C
  <2> QED
    BY <2>1, <2>2
<1>4. match \in C
  BY DEF Further, Matchings
<1> HIDE DEF Op
<1>5. PICK g \in [SUBSET (1..n) -> C] : \A T \in SUBSET (1..n) :
        g[T] = IF T = {} THEN match ELSE h[<<Max(T), g[T \ {Max(T)}]>>]
  <2>1. h \in [(1..n) \X C -> C]
    <3> HIDE DEF C
    <3> QED
      BY <1>3
  <2> HIDE DEF h, C
  <2>2. Walks(n, C, match, h) # {}
    BY <1>4, <2>1, WalkExists
  <2> QED
    BY <2>2 DEF Walks
<1> HIDE DEF C
<1>6. g = W(g)
  <2>1. ASSUME NEW T \in SUBSET (1..n), T # {}
        PROVE  g[T] = Op(g[T \ {Max(T)}], s[Max(T)])
    <3>1. Max(T) \in 1..n /\ g[T \ {Max(T)}] \in C
      BY <2>1, LargestIndex
    <3>2. h[<<Max(T), g[T \ {Max(T)}]>>] = Op(g[T \ {Max(T)}], Max(T))
      BY <3>1
    <3> QED
      BY <1>1, <1>5, <2>1, <3>1, <3>2
  <2> HIDE DEF h
  <2> QED
    BY <1>1, <1>5, <2>1
<1>7. it = W(it)
  <2> HIDE DEF W
  <2> QED
    BY <1>6
<1> HIDE DEF it
<1>8. ASSUME NEW T \in SUBSET (1..n), T # {}, it[T \ {Max(T)}] \in C
      PROVE  it[T] \in C
  <2>1. Max(T) \in 1..n
    BY <1>8, LargestIndex
  <2>2. it[T] = Op(it[T \ {Max(T)}], Max(T))
    BY <1>1, <1>7, <1>8, <2>1
  <2> QED
    BY <1>3, <1>8, <2>1, <2>2
<1>9. it[{}] = match
  BY <1>1, <1>7
<1>10. it[1..n] \in C
  BY <1>4, <1>8, <1>9, FoldStays
<1> QED
  BY <1>1, <1>2, <1>10 DEF C

\* Finding and thread that pass 3 may take for the same claim.
Restatements(found, live, opts) ==
  {p \in (DOMAIN found) \X (DOMAIN live) : Claimed(found, live, opts, p[1], p[2])}

\* Pass 3 keeps what is matched and adds only threads that state the same claim
\* and, if they are resolved, stand.
LEMMA ClaimMatches ==
  ASSUME NEW found, NEW n \in Nat, DOMAIN found = 1..n,
         NEW live, NEW l \in Nat, DOMAIN live = 1..l,
         NEW match \in Matchings(n, l), Apart(match), NEW opts
  PROVE  ClaimPass(found, live, match, opts)
           \in Further(n, l, match, Restatements(found, live, opts))
<1> DEFINE R == Restatements(found, live, opts)
           C == Further(n, l, match, R)
           Op(m, i) == IF m[i] # 0 THEN m ELSE
                         [m EXCEPT ![i] = TakeClaim(found, live, m, i, opts)]
           h == [e \in (1..n) \X C |-> Op(e[2], e[1])]
           s == [i \in DOMAIN found |-> i]
           W(it) == [T \in SUBSET DOMAIN s |->
                       IF T = {} THEN match ELSE Op(it[T \ {Max(T)}], s[Max(T)])]
           it == CHOOSE it : it = W(it)
<1>1. DOMAIN s = 1..n /\ \A i \in 1..n : s[i] = i
  OBVIOUS
<1>2. ClaimPass(found, live, match, opts) = it[DOMAIN s]
  BY DEF ClaimPass, FoldLeftDomain, FoldLeft, MapThenFoldSet
<1>3. ASSUME NEW m \in C, NEW i \in 1..n PROVE Op(m, i) \in C
  <2>1. CASE m[i] # 0
    BY <1>3, <2>1
  <2>2. CASE m[i] = 0
    <3> DEFINE x == TakeClaim(found, live, m, i, opts)
    <3>1. Op(m, i) = [m EXCEPT ![i] = x]
      BY <2>2
    <3>2. x = 0 \/ (x \in Free(m, 1..l) /\ Claimed(found, live, opts, i, x))
      BY TakeClaimIs
    <3> HIDE DEF x, C, Op
    <3>3. x # 0 => x \in 1..l /\ x \notin {m[k] : k \in DOMAIN m}
      BY <3>2 DEF Free
    <3>4. x # 0 => <<i, x>> \in R
      <4>1. x # 0 => <<i, x>> \in (DOMAIN found) \X (DOMAIN live)
        BY <3>3
      <4> QED
        BY <3>2, <4>1 DEF Restatements
    <3> HIDE DEF R
    <3> QED
      <4>1. /\ m \in Further(n, l, match, R) /\ m[i] = 0
            /\ x = 0 \/ (x \in 1..l /\ x \notin {m[k] : k \in DOMAIN m} /\ <<i, x>> \in R)
        BY <2>2, <3>3, <3>4 DEF C
      <4>2. [m EXCEPT ![i] = x] \in Further(n, l, match, R)
        BY <4>1, FurtherOn
      <4> QED
        BY <3>1, <4>2 DEF C
  <2> QED
    BY <2>1, <2>2
<1>4. match \in C
  BY DEF Further, Matchings
<1> HIDE DEF Op
<1>5. PICK g \in [SUBSET (1..n) -> C] : \A T \in SUBSET (1..n) :
        g[T] = IF T = {} THEN match ELSE h[<<Max(T), g[T \ {Max(T)}]>>]
  <2>1. h \in [(1..n) \X C -> C]
    <3> HIDE DEF C
    <3> QED
      BY <1>3
  <2> HIDE DEF h, C
  <2>2. Walks(n, C, match, h) # {}
    BY <1>4, <2>1, WalkExists
  <2> QED
    BY <2>2 DEF Walks
<1> HIDE DEF C
<1>6. g = W(g)
  <2>1. ASSUME NEW T \in SUBSET (1..n), T # {}
        PROVE  g[T] = Op(g[T \ {Max(T)}], s[Max(T)])
    <3>1. Max(T) \in 1..n /\ g[T \ {Max(T)}] \in C
      BY <2>1, LargestIndex
    <3>2. h[<<Max(T), g[T \ {Max(T)}]>>] = Op(g[T \ {Max(T)}], Max(T))
      BY <3>1
    <3> QED
      BY <1>1, <1>5, <2>1, <3>1, <3>2
  <2> HIDE DEF h
  <2> QED
    BY <1>1, <1>5, <2>1
<1>7. it = W(it)
  <2> HIDE DEF W
  <2> QED
    BY <1>6
<1> HIDE DEF it
<1>8. ASSUME NEW T \in SUBSET (1..n), T # {}, it[T \ {Max(T)}] \in C
      PROVE  it[T] \in C
  <2>1. Max(T) \in 1..n
    BY <1>8, LargestIndex
  <2>2. it[T] = Op(it[T \ {Max(T)}], Max(T))
    BY <1>1, <1>7, <1>8, <2>1
  <2> QED
    BY <1>3, <1>8, <2>1, <2>2
<1>9. it[{}] = match
  BY <1>1, <1>7
<1>10. it[1..n] \in C
  BY <1>4, <1>8, <1>9, FoldStays
<1> QED
  BY <1>1, <1>2, <1>10 DEF C

-----------------------------------------------------------------------------
(* What a matching tells. *)

\* A finding is matched to a thread that speaks for it, which is open or stands;
\* no two to the same one; and a finding is new only if each open thread of its
\* fingerprint is the match of a finding of that fingerprint.
MatchFacts(found, live, opts, n, l, m) ==
  /\ m \in Matchings(n, l)
  /\ Apart(m)
  /\ \A i \in 1..n : m[i] # 0 =>
       /\ \/ live[m[i]].fp = found[i].fp
          \/ Similarity[<<found[i].fp, live[m[i]].fp>>] > FuzzyMatchThreshold
          \/ <<found[i].fp, live[m[i]].fp>> \in opts.same
       /\ live[m[i]].resolved => m[i] \notin opts.gone
  /\ \A i \in 1..n : m[i] = 0 =>
       \A j \in Open(live) : live[j].fp = found[i].fp =>
         \E k \in 1..n : m[k] = j /\ found[k].fp = found[i].fp

\* The three passes together.
LEMMA MatchMatches ==
  ASSUME NEW found, NEW n \in Nat, DOMAIN found = 1..n,
         NEW live, NEW l \in Nat, DOMAIN live = 1..l, NEW opts
  PROVE  MatchFacts(found, live, opts, n, l, Match(found, live, opts))
<1> DEFINE a == ExactPass(found, live, [i \in DOMAIN found |-> 0])
           b == FuzzyPass(found, live, a)
           m == Match(found, live, opts)
<1>1. m = ClaimPass(found, live, b, opts)
  BY DEF Match, TextMatch
<1>2. ExactFacts(found, live, n, l, 1..n, a)
  BY ExactMatches
<1> HIDE DEF a
<1>3. a \in Matchings(n, l) /\ Apart(a)
  BY <1>2 DEF ExactFacts
<1>4. b \in Further(n, l, a, Likenesses(found, live))
  BY <1>3, FuzzyMatches
<1> HIDE DEF b
<1>5. b \in Matchings(n, l) /\ Apart(b)
  BY <1>4 DEF Further
<1>6. m \in Further(n, l, b, Restatements(found, live, opts))
  BY <1>1, <1>5, ClaimMatches
<1> HIDE DEF m
<1>7. m \in Matchings(n, l) /\ Apart(m)
  BY <1>6 DEF Further
<1>8. ASSUME NEW i \in 1..n
      PROVE  /\ \/ m[i] = b[i]
                \/ b[i] = 0 /\ i \in DOMAIN found /\ m[i] \in DOMAIN live
                   /\ Claimed(found, live, opts, i, m[i])
             /\ \/ b[i] = a[i]
                \/ a[i] = 0 /\ b[i] \in Open(live)
                   /\ Similarity[<<found[i].fp, live[b[i]].fp>>] > FuzzyMatchThreshold
  <2>1. m[i] = b[i] \/ (b[i] = 0 /\ <<i, m[i]>> \in Restatements(found, live, opts))
    BY <1>6 DEF Further
  <2>2. b[i] = a[i] \/ (a[i] = 0 /\ <<i, b[i]>> \in Likenesses(found, live))
    BY <1>4 DEF Further
  <2>3. <<i, m[i]>> \in Restatements(found, live, opts) =>
          i \in DOMAIN found /\ m[i] \in DOMAIN live /\ Claimed(found, live, opts, i, m[i])
    BY DEF Restatements
  <2>4. <<i, b[i]>> \in Likenesses(found, live) =>
          /\ b[i] \in Open(live)
          /\ Similarity[<<found[i].fp, live[b[i]].fp>>] > FuzzyMatchThreshold
    BY DEF Likenesses
  <2> QED
    BY <2>1, <2>2, <2>3, <2>4
<1>9. \A i \in 1..n : a[i] # 0 => a[i] \in Open(live) /\ live[a[i]].fp = found[i].fp
  BY <1>2 DEF ExactFacts
<1>10. ASSUME NEW i \in 1..n, m[i] # 0
       PROVE  /\ \/ live[m[i]].fp = found[i].fp
                 \/ Similarity[<<found[i].fp, live[m[i]].fp>>] > FuzzyMatchThreshold
                 \/ <<found[i].fp, live[m[i]].fp>> \in opts.same
              /\ live[m[i]].resolved => m[i] \notin opts.gone
  <2>1. CASE m[i] # b[i]
    BY <1>8, <2>1 DEF Claimed
  <2>2. CASE m[i] = b[i] /\ b[i] # a[i]
    BY <1>8, <2>2 DEF Open
  <2>3. CASE m[i] = b[i] /\ b[i] = a[i]
    BY <1>9, <1>10, <2>3 DEF Open
  <2> QED
    BY <2>1, <2>2, <2>3
<1>11. ASSUME NEW i \in 1..n, m[i] = 0, NEW j \in Open(live), live[j].fp = found[i].fp
       PROVE  \E k \in 1..n : m[k] = j /\ found[k].fp = found[i].fp
  <2>1. a[i] = 0
    <3>1. b[i] = 0
      <4>1. m[i] \in DOMAIN live => m[i] # 0
        OBVIOUS
      <4> QED
        BY <1>8, <1>11, <4>1
    <3>2. b[i] \in Open(live) => b[i] # 0
      BY DEF Open
    <3> QED
      BY <1>8, <3>1, <3>2
  <2>2. j \in {a[k] : k \in 1..n}
    BY <1>2, <1>11, <2>1 DEF ExactFacts
  <2>3. PICK k \in 1..n : a[k] = j
    BY <2>2
  <2>4. a[k] # 0
    BY <2>3 DEF Open
  <2>5. m[k] = j
    BY <1>8, <2>3, <2>4
  <2> QED
    BY <1>9, <1>11, <2>3, <2>4, <2>5
<1>12. MatchFacts(found, live, opts, n, l, m)
  BY <1>7, <1>10, <1>11 DEF MatchFacts
<1> QED
  BY <1>12 DEF m

-----------------------------------------------------------------------------
(* What a run may have found. *)

Finding == [fp : Fps, path : Paths, at : Paths \cup {Body}]

\* The findings a run may hold.
Founds == {fs \in Seq(Finding) : \A fp \in Fps : CountOf(fs, fp) <= MaxFindings}

\* No more findings than the bound are within it.
LEMMA FewAreFounds ==
  ASSUME NEW n \in 0..MaxFindings, NEW fs \in [1..n -> Finding]
  PROVE  fs \in Founds
<1>1. MaxFindings \in Nat /\ n \in Nat
  BY PullRequestAssumption
<1>2. fs \in Seq(Finding)
  BY <1>1, SeqDef
<1>3. ASSUME NEW fp \in Fps PROVE CountOf(fs, fp) <= MaxFindings
  <2>1. DOMAIN fs = 1..n /\ {i \in DOMAIN fs : fs[i].fp = fp} \in SUBSET (1..n)
    OBVIOUS
  <2>2. CountOf(fs, fp) \in Nat /\ CountOf(fs, fp) <= n
    BY <1>1, <2>1, Positions DEF CountOf
  <2> QED
    BY <1>1, <2>2
<1> QED
  BY <1>2, <1>3 DEF Founds

\* Whoever holds a finding can hold one.
LEMMA RoomForOne ==
  ASSUME NEW fs \in Founds, NEW i \in DOMAIN fs
  PROVE  MaxFindings >= 1
<1> DEFINE fp == fs[i].fp
           K == {k \in DOMAIN fs : fs[k].fp = fp}
<1>1. fs \in Seq(Finding) /\ MaxFindings \in Nat
  BY PullRequestAssumption DEF Founds
<1>2. fp \in Fps
  <2>1. fs[i] \in Finding
    BY <1>1
  <2> QED
    BY <2>1 DEF Finding
<1>3. IsFiniteSet(K) /\ Cardinality(K) \in Nat
  <2>1. Len(fs) \in Nat /\ DOMAIN fs = 1..Len(fs)
    BY <1>1
  <2> QED
    BY <2>1, Positions
<1>4. Cardinality(K) # 0
  <2>1. i \in K
    OBVIOUS
  <2> HIDE DEF K
  <2> QED
    BY <1>3, <2>1, FS_EmptySet
<1>5. Cardinality(K) <= MaxFindings
  BY <1>2 DEF Founds, CountOf
<1> QED
  BY <1>1, <1>3, <1>4, <1>5

\* One finding more, under a fingerprint of its own.
LEMMA OneMoreFound ==
  ASSUME NEW fs \in Founds, NEW f \in Finding, MaxFindings >= 1,
         ~\E i \in DOMAIN fs : fs[i].fp = f.fp
  PROVE  Append(fs, f) \in Founds
<1> DEFINE e == Append(fs, f)
           n == Len(fs)
<1>1. fs \in Seq(Finding)
  BY DEF Founds
<1>2. /\ e \in Seq(Finding) /\ n \in Nat /\ DOMAIN e = 1..(n + 1) /\ DOMAIN fs = 1..n
      /\ e[n + 1] = f /\ \A i \in 1..n : e[i] = fs[i]
  BY <1>1
<1> HIDE DEF e, n
<1>3. ASSUME NEW fp \in Fps PROVE CountOf(e, fp) <= MaxFindings
  <2> DEFINE K == {k \in DOMAIN e : e[k].fp = fp}
  <2>1. \A k \in 1..(n + 1) : k \in 1..n \/ k = n + 1
    BY <1>2
  <2>2. CASE fp = f.fp
    <3>1. K = {n + 1}
      BY <1>2, <2>1, <2>2
    <3>2. Cardinality(K) = 1
      BY <3>1, FS_Singleton
    <3> QED
      BY <3>2 DEF CountOf
  <2>3. CASE fp # f.fp
    <3>1. K = {k \in DOMAIN fs : fs[k].fp = fp}
      BY <1>2, <2>1, <2>3
    <3>2. CountOf(e, fp) = CountOf(fs, fp)
      BY <3>1 DEF CountOf
    <3> QED
      BY <3>2 DEF Founds
  <2> QED
    BY <2>2, <2>3
<1>4. e \in Founds
  BY <1>2, <1>3 DEF Founds
<1> QED
  BY <1>4 DEF e

\* What is carried over from the sticky comment stays within the bound.
LEMMA CarriedAreFounds ==
  ASSUME NEW found \in Founds, NEW prev, prev.findings \in Founds,
         NEW toReview, NEW manifest
  PROVE  CarryIntoRecord(found, prev, toReview, manifest) \in Founds
<1> DEFINE C == Founds
           s == prev.findings
           n == Len(s)
           Op(fs, f) == IF \/ f.path \in toReview
                           \/ f.path \notin manifest
                           \/ \E i \in DOMAIN fs : fs[i].fp = f.fp
                        THEN fs ELSE Append(fs, f)
           h == [e \in (1..n) \X C |-> Op(e[2], s[e[1]])]
           W(it) == [T \in SUBSET DOMAIN s |->
                       IF T = {} THEN found ELSE Op(it[T \ {Max(T)}], s[Max(T)])]
           it == CHOOSE it : it = W(it)
<1>1. s \in Seq(Finding)
  BY DEF Founds
<1>2. n \in Nat /\ DOMAIN s = 1..n /\ \A i \in 1..n : s[i] \in Finding
  BY <1>1
<1>3. CarryIntoRecord(found, prev, toReview, manifest) = it[DOMAIN s]
  BY DEF CarryIntoRecord, FoldLeft, MapThenFoldSet
<1> HIDE DEF n, s
<1>4. ASSUME NEW fs \in C, NEW i \in 1..n PROVE Op(fs, s[i]) \in C
  <2>1. s[i] \in Finding /\ MaxFindings >= 1
    BY <1>2, RoomForOne DEF s
  <2>2. (~\E k \in DOMAIN fs : fs[k].fp = s[i].fp) => Append(fs, s[i]) \in C
    BY <2>1, OneMoreFound
  <2> QED
    BY <2>2
<1> HIDE DEF Op, C
<1>5. PICK g \in [SUBSET (1..n) -> C] : \A T \in SUBSET (1..n) :
        g[T] = IF T = {} THEN found ELSE h[<<Max(T), g[T \ {Max(T)}]>>]
  <2>0. found \in C
    BY DEF C
  <2>1. h \in [(1..n) \X C -> C]
    BY <1>4
  <2> HIDE DEF h
  <2>2. Walks(n, C, found, h) # {}
    BY <1>2, <2>0, <2>1, WalkExists
  <2> QED
    BY <2>2 DEF Walks
<1>6. g = W(g)
  <2>1. ASSUME NEW T \in SUBSET (1..n), T # {}
        PROVE  g[T] = Op(g[T \ {Max(T)}], s[Max(T)])
    <3>1. Max(T) \in 1..n /\ g[T \ {Max(T)}] \in C
      BY <1>2, <2>1, LargestIndex
    <3>2. h[<<Max(T), g[T \ {Max(T)}]>>] = Op(g[T \ {Max(T)}], s[Max(T)])
      BY <3>1
    <3> QED
      BY <1>5, <2>1, <3>1, <3>2
  <2> HIDE DEF h
  <2> QED
    BY <1>2, <1>5, <2>1
<1>7. it = W(it)
  <2> HIDE DEF W
  <2> QED
    BY <1>6
<1> HIDE DEF it
<1>8. ASSUME NEW T \in SUBSET (1..n), T # {}, it[T \ {Max(T)}] \in C
      PROVE  it[T] \in C
  <2>1. Max(T) \in 1..n
    BY <1>2, <1>8, LargestIndex
  <2>2. it[T] = Op(it[T \ {Max(T)}], s[Max(T)])
    BY <1>2, <1>7, <1>8
  <2> QED
    BY <1>4, <1>8, <2>1, <2>2
<1>9. it[{}] = found
  BY <1>2, <1>7
<1>10. it[1..n] \in C
  <2>1. found \in C
    BY DEF C
  <2> QED
    BY <1>2, <2>1, <1>8, <1>9, FoldStays
<1> QED
  BY <1>2, <1>3, <1>10 DEF C

\* So does what is left standing.
LEMMA StandingAreFounds ==
  ASSUME NEW found \in Founds, NEW plan
  PROVE  StandingFindings(found, plan) \in Founds
<1> DEFINE C == Founds
           s == found
           n == Len(s)
           gone == {found[i].fp : i \in plan.suppressed \cup plan.absorbed}
           Op(fs, f) == IF f.fp \in gone \/ \E i \in DOMAIN fs : fs[i].fp = f.fp
                        THEN fs ELSE Append(fs, f)
           h == [e \in (1..n) \X C |-> Op(e[2], s[e[1]])]
           W(it) == [T \in SUBSET DOMAIN s |->
                       IF T = {} THEN <<>> ELSE Op(it[T \ {Max(T)}], s[Max(T)])]
           it == CHOOSE it : it = W(it)
<1>1. s \in Seq(Finding)
  BY DEF Founds
<1>2. n \in Nat /\ DOMAIN s = 1..n /\ \A i \in 1..n : s[i] \in Finding
  BY <1>1
<1>3. StandingFindings(found, plan) = it[DOMAIN s]
  BY DEF StandingFindings, FoldLeft, MapThenFoldSet
<1> HIDE DEF n, s, gone
<1>4. ASSUME NEW fs \in C, NEW i \in 1..n PROVE Op(fs, s[i]) \in C
  <2>1. s[i] \in Finding /\ MaxFindings >= 1
    BY <1>2, RoomForOne DEF s
  <2>2. (~\E k \in DOMAIN fs : fs[k].fp = s[i].fp) => Append(fs, s[i]) \in C
    BY <2>1, OneMoreFound
  <2> QED
    BY <2>2
<1>0. <<>> \in C
  <2>1. 0 \in 0..MaxFindings /\ <<>> \in [1..0 -> Finding]
    BY PullRequestAssumption
  <2> QED
    BY <2>1, FewAreFounds
<1> HIDE DEF Op, C
<1>5. PICK g \in [SUBSET (1..n) -> C] : \A T \in SUBSET (1..n) :
        g[T] = IF T = {} THEN <<>> ELSE h[<<Max(T), g[T \ {Max(T)}]>>]
  <2>1. h \in [(1..n) \X C -> C]
    BY <1>4
  <2> HIDE DEF h
  <2>2. Walks(n, C, <<>>, h) # {}
    BY <1>0, <1>2, <2>1, WalkExists
  <2> QED
    BY <2>2 DEF Walks
<1>6. g = W(g)
  <2>1. ASSUME NEW T \in SUBSET (1..n), T # {}
        PROVE  g[T] = Op(g[T \ {Max(T)}], s[Max(T)])
    <3>1. Max(T) \in 1..n /\ g[T \ {Max(T)}] \in C
      BY <1>2, <2>1, LargestIndex
    <3>2. h[<<Max(T), g[T \ {Max(T)}]>>] = Op(g[T \ {Max(T)}], s[Max(T)])
      BY <3>1
    <3> QED
      BY <1>5, <2>1, <3>1, <3>2
  <2> HIDE DEF h
  <2> QED
    BY <1>2, <1>5, <2>1
<1>7. it = W(it)
  <2> HIDE DEF W
  <2> QED
    BY <1>6
<1> HIDE DEF it
<1>8. ASSUME NEW T \in SUBSET (1..n), T # {}, it[T \ {Max(T)}] \in C
      PROVE  it[T] \in C
  <2>1. Max(T) \in 1..n
    BY <1>2, <1>8, LargestIndex
  <2>2. it[T] = Op(it[T \ {Max(T)}], s[Max(T)])
    BY <1>2, <1>7, <1>8
  <2> QED
    BY <1>4, <1>8, <2>1, <2>2
<1>9. it[{}] = <<>>
  BY <1>2, <1>7
<1>10. it[1..n] \in C
  BY <1>0, <1>2, <1>8, <1>9, FoldStays
<1> QED
  BY <1>2, <1>3, <1>10 DEF C

\* And so does it without its anchors.
LEMMA UnanchoredAreFounds ==
  ASSUME NEW found \in Founds
  PROVE  Unanchored(found) \in Founds
<1> DEFINE e == Unanchored(found)
           n == Len(found)
<1>1. found \in Seq(Finding)
  BY DEF Founds
<1>2. n \in Nat /\ DOMAIN found = 1..n /\ \A i \in 1..n : found[i] \in Finding
  BY <1>1
<1>3. DOMAIN e = 1..n /\ \A i \in 1..n : e[i] = [found[i] EXCEPT !.at = Body]
  BY <1>2 DEF Unanchored
<1>4. \A i \in 1..n : e[i] \in Finding /\ e[i].fp = found[i].fp
  BY <1>2, <1>3 DEF Finding
<1>5. e \in Seq(Finding)
  <2>1. e \in [1..n -> Finding]
    BY <1>2, <1>3, <1>4 DEF Unanchored
  <2> HIDE DEF e, n
  <2> QED
    BY <1>2, <2>1, SeqDef
<1> HIDE DEF e, n
<1>6. ASSUME NEW fp \in Fps PROVE CountOf(e, fp) <= MaxFindings
  <2>1. {i \in DOMAIN e : e[i].fp = fp} = {i \in DOMAIN found : found[i].fp = fp}
    BY <1>2, <1>3, <1>4
  <2> QED
    BY <2>1 DEF CountOf, Founds
<1>7. e \in Founds
  BY <1>5, <1>6 DEF Founds
<1> QED
  BY <1>7 DEF e

-----------------------------------------------------------------------------
(* What of a review lands. *)

\* At most as many comments land as there are.
LEMMA SomeLand ==
  ASSUME NEW n \in Nat
  PROVE  Landed(n) \subseteq 0..n
<1> DEFINE C == SUBSET (0..n)
           Half(k) == k - (IF k = 1 THEN 1 ELSE k \div 2)
           Value(f, k) == {k} \cup (IF k = 0 THEN {} ELSE f[Half(k)])
           kept == CHOOSE f : f = [k \in 0..n |-> Value(f, k)]
<1>1. Landed(n) = kept[n]
  BY DEF Landed
<1>2. ASSUME NEW k \in 1..n PROVE Half(k) \in 0..(k - 1)
  OBVIOUS
<1> DEFINE Upto(k, f) == \A i \in 0..k : f[i] = Value(f, i)
           N == {k \in 0..n : \E f \in [0..n -> C] : Upto(k, f)}
<1>3. 0 \in N
  <2> DEFINE f == [k \in 0..n |-> {0}]
  <2>1. f \in [0..n -> C]
    OBVIOUS
  <2>2. \A i \in 0..0 : f[i] = Value(f, i)
    OBVIOUS
  <2> HIDE DEF f, Value
  <2> QED
    BY <2>1, <2>2
<1>4. ASSUME NEW k \in 0..n, k < n, k \in N PROVE k + 1 \in N
  <2>1. PICK f \in [0..n -> C] : Upto(k, f)
    BY <1>4
  <2> DEFINE v == Value(f, k + 1)
             e == [f EXCEPT ![k + 1] = v]
  <2>2. k + 1 \in 1..n /\ k + 1 \in 0..n /\ Half(k + 1) \in 0..k
    <3>1. k + 1 \in 1..n
      BY <1>4
    <3>2. Half(k + 1) \in 0..((k + 1) - 1)
      BY <1>2, <3>1
    <3>3. (k + 1) - 1 = k
      OBVIOUS
    <3> HIDE DEF Half
    <3> QED
      BY <3>1, <3>2, <3>3
  <2> HIDE DEF Half
  <2>3. v \in C
    <3>1. f[Half(k + 1)] \in C
      <4>1. Half(k + 1) \in 0..n
        BY <1>4, <2>2
      <4> QED
        BY <4>1
    <3> QED
      BY <2>2, <3>1
  <2> HIDE DEF v
  <2>4. /\ e \in [0..n -> C] /\ e[k + 1] = v /\ \A i \in 0..k : e[i] = f[i]
    BY <2>2, <2>3
  <2> HIDE DEF e
  <2>5. ASSUME NEW i \in 0..(k + 1) PROVE e[i] = Value(e, i)
    <3>1. CASE i = k + 1
      BY <2>2, <2>4, <3>1 DEF v
    <3>2. CASE i # k + 1
      <4>1. i \in 0..k
        BY <3>2
      <4>2. i # 0 => Half(i) \in 0..k
        <5>1. i # 0 => i \in 1..n /\ (0..(i - 1)) \subseteq 0..k
          BY <4>1
        <5> QED
          BY <1>2, <5>1 DEF Half
      <4> QED
        BY <2>1, <2>4, <4>1, <4>2
    <3> QED
      BY <3>1, <3>2
  <2> HIDE DEF Value
  <2>6. Upto(k + 1, e)
    BY <2>5
  <2> HIDE DEF Upto
  <2> QED
    BY <2>2, <2>4, <2>6
<1> HIDE DEF Half
<1>5. n \in N
  <2>1. \A k \in 0..n : k \in N
    <3> HIDE DEF N
    <3> QED
      BY <1>3, <1>4, InductionUpTo
  <2> HIDE DEF N
  <2> QED
    BY <2>1
<1>6. PICK f \in [0..n -> C] : Upto(n, f)
  BY <1>5
<1> HIDE DEF Value
<1>7. f = [k \in 0..n |-> Value(f, k)]
  BY <1>6
<1>8. kept = [k \in 0..n |-> Value(kept, k)]
  BY <1>7
<1> HIDE DEF kept
<1> DEFINE M == {k \in 0..n : \A i \in 0..k : kept[i] \in C}
<1>9. 0 \in M
  <2>1. kept[0] = {0}
    BY <1>8 DEF Value
  <2>2. \A i \in 0..0 : i = 0
    OBVIOUS
  <2> QED
    BY <2>1, <2>2
<1>10. ASSUME NEW k \in 0..n, k < n, k \in M PROVE k + 1 \in M
  <2>1. k + 1 \in 1..n /\ k + 1 \in 0..n /\ (k + 1) - 1 = k
    BY <1>10
  <2>2. kept[Half(k + 1)] \in C
    <3>1. Half(k + 1) \in 0..k
      BY <1>2, <2>1 DEF Half
    <3> QED
      BY <1>10, <3>1
  <2>3. kept[k + 1] = {k + 1} \cup kept[Half(k + 1)]
    <3>1. kept[k + 1] = Value(kept, k + 1)
      BY <1>8, <2>1
    <3>2. k + 1 # 0
      BY <2>1
    <3> QED
      BY <3>1, <3>2 DEF Value
  <2>4. kept[k + 1] \in C
    BY <2>1, <2>2, <2>3
  <2>5. \A i \in 0..(k + 1) : i \in 0..k \/ i = k + 1
    OBVIOUS
  <2> QED
    BY <1>10, <2>1, <2>4, <2>5
<1>11. \A k \in 0..n : k \in M
  <2> HIDE DEF M
  <2> QED
    BY <1>9, <1>10, InductionUpTo
<1> QED
  BY <1>1, <1>11

-----------------------------------------------------------------------------
(* What the runs are. *)

Thread == [fp : Fps, path : Paths, about : Paths, by : {Nobody, Cite, Person},
           poster : Reviewers]

Pcs == {"idle", "opened", "listed", "read", "reviewed", "reconciled", "posted"}

\* A state the sticky comment may hold.
GoodState(state) == state.findings \in Founds /\ state.ledger = {}

\* A body the sticky comment may have.
GoodBody(body) ==
  /\ Len(body) \in Nat /\ DOMAIN body = 1..Len(body)
  /\ \A k \in DOMAIN body :
       body[k].token = "<!-- cite-state=" => GoodState(body[k].state)

RunFields == {"pc", "tip", "head", "listed", "base", "post", "prev", "unchanged",
              "reviewed", "found", "same", "plan", "calm"}
PlanFields == {"match", "absorbed", "suppressed", "post", "resolve"}

\* Why the run q may resolve the thread t, the j-th: its span is not in what was
\* read, or its file was reviewed; and no finding of its fingerprint is new, or
\* is answered by it.
Justified(q, t, j) ==
  /\ \/ t.about \notin q.post
     \/ t.fp \notin q.head[t.about]
     \/ t.path \in q.reviewed
  /\ \A i \in DOMAIN q.found : q.found[i].fp = t.fp => q.plan.match[i] \notin {0, j}

GoodPlan(q, th) ==
  /\ RunFields \subseteq DOMAIN q /\ PlanFields \subseteq DOMAIN q.plan
  /\ q.plan.post \in Seq(Finding)
  /\ q.plan.resolve \subseteq DOMAIN th
  /\ \A j \in q.plan.resolve : Justified(q, th[j], j)

\* A run at its place.
GoodRun(q, th) ==
  /\ q.pc \in Pcs
  /\ q.pc \in Pcs \ {"idle", "opened"} =>
       (FetchFails \/ q.post = DOMAIN q.listed \cap DOMAIN q.head)
  /\ q.pc \in Pcs \ {"idle", "opened", "listed"} => GoodState(q.prev)
  /\ q.pc \in {"reviewed", "reconciled", "posted"} => q.found \in Founds
  /\ q.pc \in {"reconciled", "posted"} => GoodPlan(q, th)

RoundInv ==
  /\ code \in Codes
  /\ tip \in 1..MaxCommits
  /\ threads \in Seq(Thread)
  /\ runs \in [Reviewers -> 0..MaxRuns]
  /\ peak \in [Fps -> 0..MaxFindings]
  /\ DOMAIN run = Reviewers /\ DOMAIN sticky = Reviewers
  /\ \A r \in Reviewers : GoodRun(run[r], threads) /\ GoodBody(sticky[r])

-----------------------------------------------------------------------------
(* What leaves a run good. *)

\* Threads are added and resolved, and otherwise stay what they are.
Grown(th, more) ==
  /\ DOMAIN th \subseteq DOMAIN more
  /\ \A j \in DOMAIN th :
       /\ more[j].fp = th[j].fp /\ more[j].path = th[j].path
       /\ more[j].about = th[j].about /\ more[j].poster = th[j].poster

\* A run is good whatever threads are added or resolved.
LEMMA GoodLasts ==
  ASSUME NEW q, NEW th, NEW more, GoodRun(q, th), Grown(th, more)
  PROVE  GoodRun(q, more)
<1>1. ASSUME GoodPlan(q, th) PROVE GoodPlan(q, more)
  <2>1. q.plan.resolve \subseteq DOMAIN th
    BY <1>1 DEF GoodPlan
  <2>2. \A j \in q.plan.resolve : Justified(q, more[j], j)
    BY <1>1, <2>1 DEF GoodPlan, Justified, Grown
  <2>3. DOMAIN th \subseteq DOMAIN more
    BY DEF Grown
  <2> HIDE DEF Justified, Grown
  <2> QED
    BY <1>1, <2>1, <2>2, <2>3 DEF GoodPlan
<1> HIDE DEF GoodPlan
<1> QED
  BY <1>1 DEF GoodRun

Stir(q) == IF q.pc \in {"reconciled", "posted"} THEN [q EXCEPT !.calm = FALSE] ELSE q

\* Other than that a run is no longer calm, stirring leaves it as it is.
LEMMA StirKeeps ==
  ASSUME NEW q, q.pc \in {"reconciled", "posted"} => RunFields \subseteq DOMAIN q
  PROVE  /\ DOMAIN Stir(q) = DOMAIN q
         /\ Stir(q).pc = q.pc
         /\ q.pc \notin {"reconciled", "posted"} => Stir(q) = q
         /\ q.pc \in {"reconciled", "posted"} =>
              /\ Stir(q).calm = FALSE
              /\ Stir(q).head = q.head /\ Stir(q).listed = q.listed
              /\ Stir(q).post = q.post /\ Stir(q).prev = q.prev
              /\ Stir(q).reviewed = q.reviewed /\ Stir(q).found = q.found
              /\ Stir(q).same = q.same /\ Stir(q).plan = q.plan
  BY DEF Stir, RunFields

\* A run that is stirred is good still.
LEMMA StirIsGood ==
  ASSUME NEW q, NEW th, GoodRun(q, th)
  PROVE  GoodRun(Stir(q), th)
<1>1. CASE q.pc \notin {"reconciled", "posted"}
  BY <1>1 DEF Stir
<1>2. CASE q.pc \in {"reconciled", "posted"}
  <2> DEFINE e == Stir(q)
  <2>1. GoodPlan(q, th)
    BY <1>2 DEF GoodRun
  <2>2. /\ DOMAIN e = DOMAIN q /\ e.pc = q.pc
        /\ e.head = q.head /\ e.listed = q.listed
        /\ e.post = q.post /\ e.prev = q.prev
        /\ e.reviewed = q.reviewed /\ e.found = q.found /\ e.plan = q.plan
    BY <1>2, <2>1, StirKeeps DEF GoodPlan
  <2> HIDE DEF e
  <2>3. GoodPlan(e, th)
    BY <2>1, <2>2 DEF GoodPlan, Justified
  <2>4. GoodRun(e, th)
    BY <2>2, <2>3 DEF GoodRun
  <2> QED
    BY <2>4 DEF e
<1> QED
  BY <1>1, <1>2

-----------------------------------------------------------------------------
(* The sticky comment. *)

\* A body that is written is good if its state is.
LEMMA StickyIsGood ==
  ASSUME NEW s, GoodState(s)
  PROVE  GoodBody(StickyBody(s))
<1> DEFINE body == StickyBody(s)
           b1 == [token |-> "<!-- cite-sticky"]
           b3 == [token |-> "<!-- cite-state=", state |-> s]
           b4 == [token |-> "-->"]
<1>1. /\ Len(body) = 4 /\ DOMAIN body = 1..4
      /\ body[1].token = "<!-- cite-sticky" /\ body[2].token = "-->"
      /\ body[3].token = "<!-- cite-state=" /\ body[3].state = s /\ body[4].token = "-->"
  <2>1. body = <<b1, b4, b3, b4>>
    BY DEF StickyBody, Opening, Terminator
  <2>2. /\ b1.token = "<!-- cite-sticky" /\ b4.token = "-->"
        /\ b3.token = "<!-- cite-state=" /\ b3.state = s
    OBVIOUS
  <2> HIDE DEF body, b1, b3, b4
  <2>3. /\ Len(body) = 4 /\ DOMAIN body = 1..4
        /\ body[1] = b1 /\ body[2] = b4 /\ body[3] = b3 /\ body[4] = b4
    BY <2>1
  <2> QED
    BY <2>2, <2>3
<1> HIDE DEF body
<1>2. Len(body) = 4 /\ DOMAIN body = 1..4
  BY <1>1, Zenon
<1>3. Len(body) \in Nat /\ DOMAIN body = 1..Len(body)
  BY <1>2
<1>4. \A k \in 1..4 : k = 1 \/ k = 2 \/ k = 3 \/ k = 4
  OBVIOUS
<1>5. \A k \in DOMAIN body : body[k].token = "<!-- cite-state=" => body[k].state = s
  BY <1>1, <1>4
<1>6. \A k \in DOMAIN body :
        body[k].token = "<!-- cite-state=" => GoodState(body[k].state)
  BY <1>5
<1>7. GoodBody(body)
  BY <1>3, <1>6, Zenon DEF GoodBody
<1> QED
  BY <1>7 DEF body

\* The state a run starts from when it finds none.
LEMMA EmptyIsGood == GoodState(EmptyState)
<1>1. 0 \in 0..MaxFindings /\ <<>> \in [1..0 -> Finding]
  BY PullRequestAssumption
<1>2. <<>> \in Founds
  BY <1>1, FewAreFounds
<1> QED
  BY <1>2 DEF GoodState, EmptyState

\* What is read of a good body is a good state.
LEMMA ReadIsGood ==
  ASSUME NEW body, GoodBody(body)
  PROVE  GoodState(ReadSticky(body))
<1> DEFINE Test(t) == t.token = "<!-- cite-state="
           I == {k \in 1..Len(body) : Test(body[k])}
           i == SelectInSeq(body, Test)
<1>1. Len(body) \in Nat /\ DOMAIN body = 1..Len(body)
  BY DEF GoodBody
<1>2. i = IF I # {} THEN Min(I) ELSE 0
  BY DEF SelectInSeq
<1>3. CASE I # {}
  <2>1. \E n \in I : \A m \in I : n <= m
    <3>1. I \in SUBSET Nat
      <4>1. I \subseteq 1..Len(body)
        BY Zenon
      <4>2. 1..Len(body) \subseteq Nat
        <5> HIDE DEF I
        <5> QED
          BY <1>1
      <4> HIDE DEF I
      <4> QED
        BY <4>1, <4>2
    <3> HIDE DEF I
    <3> QED
      BY <1>3, <3>1, LeastElement
  <2>2. Min(I) \in I
    <3> HIDE DEF I
    <3> QED
      BY <2>1 DEF Min
  <2>3. i \in DOMAIN body /\ body[i].token = "<!-- cite-state="
    BY <1>1, <1>2, <1>3, <2>2
  <2>4. GoodState(body[i].state)
    BY <2>3 DEF GoodBody
  <2>5. ReadSticky(body) \in {EmptyState, body[i].state}
    <3> HIDE DEF I
    <3> QED
      BY DEF ReadSticky
  <2> QED
    BY <2>4, <2>5, EmptyIsGood
<1>4. CASE I = {}
  <2>1. i = 0
    BY <1>2, <1>4
  <2>2. ReadSticky(body) = EmptyState
    BY <2>1 DEF ReadSticky
  <2> QED
    BY <2>2, EmptyIsGood
<1> QED
  BY <1>3, <1>4

-----------------------------------------------------------------------------
(* The plan and what is posted. *)

Comment == [fp : Fps, path : Paths, at : Paths]

\* The comments of a plan anchor on files.
LEMMA CommentsAre ==
  ASSUME NEW plan, plan.post \in Seq(Finding)
  PROVE  Comments(plan) \in Seq(Comment)
<1> DEFINE post == plan.post
           n == Len(post)
           S == {i \in DOMAIN post : post[i].at # Body}
           cs == Those(post, S)
<1>1. n \in Nat /\ DOMAIN post = 1..n /\ \A i \in 1..n : post[i] \in Finding
  OBVIOUS
<1>2. Comments(plan) = cs
  BY DEF Comments
<1>3. PICK at : Listing(post, S \cap 1..n, cs, at)
  BY <1>1, ThoseAre
<1>4. cs \in Seq({post[i] : i \in 1..n})
  BY <1>1, ThoseAre
<1> HIDE DEF post, n, cs
<1>5. Len(cs) \in Nat /\ cs = [k \in 1..Len(cs) |-> cs[k]]
  BY <1>4
<1>6. ASSUME NEW k \in 1..Len(cs) PROVE cs[k] \in Comment
  <2>1. at[k] \in S /\ cs[k] = post[at[k]]
    BY <1>3 DEF Listing
  <2>2. post[at[k]] \in Finding /\ post[at[k]].at # Body
    BY <1>1, <2>1
  <2> QED
    BY <2>1, <2>2 DEF Finding, Comment
<1>7. cs \in [1..Len(cs) -> Comment]
  BY <1>5, <1>6
<1> QED
  BY <1>2, <1>5, <1>7, SeqDef

\* What lands of them.
LEMMA TailIs ==
  ASSUME NEW C, NEW comments \in Seq(C), NEW n \in 0..Len(comments)
  PROVE  LET tail == SubSeq(comments, Len(comments) - n + 1, Len(comments))
         IN  /\ tail \in Seq(C) /\ Len(tail) = n
             /\ \A k \in 1..n : tail[k] = comments[Len(comments) - n + k]
             /\ n = Len(comments) => \A k \in 1..n : tail[k] = comments[k]
<1> DEFINE l == Len(comments)
           m == l - n + 1
           tail == SubSeq(comments, m, l)
<1>1. l \in Nat /\ m \in 1..(l + 1) /\ n \in Nat
  OBVIOUS
<1>2. tail \in Seq(C) /\ Len(tail) = n /\ \A k \in 1..n : tail[k] = comments[m + k - 1]
  <2>1. \A i \in m..l : i \in 1..l
    BY <1>1
  <2>2. Len(tail) = IF m <= l THEN l - m + 1 ELSE 0
    BY <1>1
  <2>3. tail \in Seq(C)
    BY <1>1
  <2>4. Len(tail) = n
    BY <1>1, <2>2
  <2>5. \A k \in 1..n : tail[k] = comments[m + k - 1]
    BY <1>1, <2>4
  <2> QED
    BY <2>3, <2>4, <2>5
<1>3. \A k \in 1..n : m + k - 1 = l - n + k
  BY <1>1
<1> HIDE DEF tail
<1>4. \A k \in 1..n : tail[k] = comments[l - n + k]
  BY <1>2, <1>3
<1>5. n = l => \A k \in 1..n : l - n + k = k
  BY <1>1
<1> QED
  BY <1>2, <1>4, <1>5 DEF tail

\* They become threads.
LEMMA PostedAre ==
  ASSUME NEW r \in Reviewers, NEW comments \in Seq(Comment)
  PROVE  /\ Posted(r, comments) \in Seq(Thread)
         /\ Len(Posted(r, comments)) = Len(comments)
         /\ \A k \in 1..Len(comments) :
              /\ Posted(r, comments)[k].fp = comments[k].fp
              /\ Posted(r, comments)[k].by = Nobody
              /\ Posted(r, comments)[k].poster = r
<1> DEFINE p == Posted(r, comments)
           n == Len(comments)
<1>1. n \in Nat /\ DOMAIN comments = 1..n /\ \A k \in 1..n : comments[k] \in Comment
  OBVIOUS
<1>2. DOMAIN p = 1..n
  BY <1>1 DEF Posted
<1>3. \A k \in 1..n : p[k] = [fp |-> comments[k].fp, path |-> comments[k].at,
                              about |-> comments[k].path, by |-> Nobody, poster |-> r]
  BY <1>1 DEF Posted
<1> HIDE DEF p, n
<1>4. ASSUME NEW k \in 1..n
      PROVE  /\ p[k] \in Thread
             /\ p[k].fp = comments[k].fp /\ p[k].by = Nobody /\ p[k].poster = r
  <2> DEFINE f == comments[k].fp
             a == comments[k].at
             b == comments[k].path
             t == [fp |-> f, path |-> a, about |-> b, by |-> Nobody, poster |-> r]
  <2>1. f \in Fps /\ a \in Paths /\ b \in Paths
    BY <1>1 DEF Comment
  <2>2. p[k] = t
    BY <1>3
  <2> HIDE DEF f, a, b
  <2>3. t \in Thread /\ t.fp = f /\ t.by = Nobody /\ t.poster = r
    BY <2>1 DEF Thread
  <2> HIDE DEF t
  <2> QED
    BY <2>2, <2>3 DEF f
<1>5. p \in [1..n -> Thread]
  BY <1>1, <1>4 DEF Posted, p
<1>6. p \in Seq(Thread)
  BY <1>1, <1>5, SeqDef
<1>7. Len(p) = n
  <2> HIDE DEF Thread
  <2> QED
    BY <1>1, <1>2, <1>6
<1> QED
  BY <1>4, <1>6, <1>7 DEF p, n

-----------------------------------------------------------------------------
(* The plan over the page of threads. *)

\* The page of threads that is fetched.
LEMMA LiveAre ==
  ASSUME threads \in Seq(Thread)
  PROVE  \E l \in 0..Len(threads) :
           /\ DOMAIN LiveThreads = 1..l
           /\ Len(threads) <= ThreadsPage => l = Len(threads)
           /\ \A j \in 1..l :
                /\ j \in DOMAIN threads
                /\ LiveThreads[j].fp = threads[j].fp
                /\ LiveThreads[j].path = threads[j].path
                /\ LiveThreads[j].about = threads[j].about
                /\ LiveThreads[j].resolved <=> threads[j].by # Nobody
<1> DEFINE l == IF Len(threads) < ThreadsPage THEN Len(threads) ELSE ThreadsPage
<1>1. Len(threads) \in Nat /\ DOMAIN threads = 1..Len(threads) /\ ThreadsPage \in Nat
  <2> HIDE DEF Thread
  <2> QED
    BY PullRequestAssumption
<1>2. l \in 0..Len(threads) /\ (Len(threads) <= ThreadsPage => l = Len(threads))
  <2> DEFINE n == Len(threads)
             c == IF n < ThreadsPage THEN n ELSE ThreadsPage
  <2>1. n \in Nat /\ ThreadsPage \in Nat
    BY <1>1
  <2> HIDE DEF n
  <2>2. c \in 0..n /\ (n <= ThreadsPage => c = n)
    BY <2>1
  <2> QED
    BY <2>2 DEF n
<1>3. LiveThreads = [j \in 1..l |->
        [fp |-> threads[j].fp, path |-> threads[j].path, about |-> threads[j].about,
         resolved |-> threads[j].by # Nobody]]
  BY DEF LiveThreads
<1> HIDE DEF l
<1>4. ASSUME NEW j \in 1..l
      PROVE  /\ LiveThreads[j].fp = threads[j].fp
             /\ LiveThreads[j].path = threads[j].path
             /\ LiveThreads[j].about = threads[j].about
             /\ LiveThreads[j].resolved <=> threads[j].by # Nobody
  BY <1>3, Zenon
<1>5. DOMAIN LiveThreads = 1..l
  BY <1>3
<1>6. \A j \in 1..l : j \in DOMAIN threads
  <2> DEFINE n == Len(threads)
  <2>1. n \in Nat /\ l \in 0..n
    BY <1>1, <1>2
  <2> HIDE DEF n
  <2>2. \A j \in 1..l : j \in 1..n
    BY <2>1
  <2> QED
    BY <1>1, <2>2 DEF n
<1> QED
  BY <1>2, <1>4, <1>5, <1>6

\* The findings of a run go by the plan's matching; the matching is one of the
\* page of threads there is.
LEMMA PlanMatches ==
  ASSUME threads \in Seq(Thread), NEW found \in Founds, NEW opts
  PROVE  \E l \in 0..Len(threads) :
           /\ DOMAIN LiveThreads = 1..l
           /\ MatchFacts(found, LiveThreads, opts, Len(found), l,
                         Plan(found, LiveThreads, opts).match)
<1>1. PICK l \in 0..Len(threads) : DOMAIN LiveThreads = 1..l
  BY LiveAre
<1>2. Len(found) \in Nat /\ DOMAIN found = 1..Len(found)
  BY DEF Founds
<1>3. Plan(found, LiveThreads, opts).match = Match(found, LiveThreads, opts)
  BY DEF Plan
<1>4. l \in Nat
  BY <1>1
<1>5. MatchFacts(found, LiveThreads, opts, Len(found), l, Match(found, LiveThreads, opts))
  BY <1>1, <1>2, <1>4, MatchMatches
<1> QED
  BY <1>1, <1>3, <1>5

\* Nothing is resolved without a cause.
LEMMA PlanIsJustified ==
  ASSUME threads \in Seq(Thread), NEW q, q.found \in Founds, NEW opts,
         opts.fresh = q.reviewed,
         \A j \in opts.gone : threads[j].about \in q.post =>
           threads[j].fp \notin q.head[threads[j].about],
         q.plan = Plan(q.found, LiveThreads, opts)
  PROVE  /\ q.plan.resolve \subseteq DOMAIN threads
         /\ \A j \in q.plan.resolve : Justified(q, threads[j], j)
<1> DEFINE live == LiveThreads
           m == q.plan.match
           n == Len(q.found)
<1>1. PICK l \in 0..Len(threads) : DOMAIN live = 1..l /\ MatchFacts(q.found, live, opts, n, l, m)
  BY PlanMatches
<1>2. \A j \in 1..l :
        /\ j \in DOMAIN threads
        /\ live[j].fp = threads[j].fp /\ live[j].path = threads[j].path
  <2>1. PICK k \in 0..Len(threads) :
          /\ DOMAIN live = 1..k
          /\ \A j \in 1..k : /\ j \in DOMAIN threads
                             /\ live[j].fp = threads[j].fp /\ live[j].path = threads[j].path
    <3> HIDE DEF Thread
    <3> QED
      BY LiveAre
  <2> HIDE DEF live
  <2>2. 1..k = 1..l
    BY <1>1, <2>1
  <2> QED
    BY <2>1, <2>2
<1>3. q.plan.resolve = Obsolete(live, m, opts)
  BY DEF Plan
<1> HIDE DEF live, m, n
<1>4. n \in Nat /\ DOMAIN q.found = 1..n
  BY DEF Founds, n
<1>5. DOMAIN m = 1..n
  BY <1>1 DEF MatchFacts, Matchings
<1>6. ASSUME NEW j \in q.plan.resolve
      PROVE  j \in DOMAIN threads /\ Justified(q, threads[j], j)
  <2>1. /\ j \in Open(live) /\ j \in 1..l /\ j # 0
        /\ \A i \in 1..n : m[i] # j
        /\ j \in opts.gone \/ live[j].path \in opts.fresh
    BY <1>1, <1>3, <1>5, <1>6 DEF Obsolete, Free, Open
  <2>2. j \in DOMAIN threads /\ live[j].fp = threads[j].fp /\ live[j].path = threads[j].path
    BY <1>2, <2>1
  <2>3. \/ threads[j].about \notin q.post
        \/ threads[j].fp \notin q.head[threads[j].about]
        \/ threads[j].path \in q.reviewed
    BY <2>1, <2>2
  <2>4. ASSUME NEW i \in 1..n, q.found[i].fp = threads[j].fp
        PROVE  m[i] # 0 /\ m[i] # j
    <3>1. m[i] # j
      BY <2>1
    <3>2. m[i] # 0
      <4>1. m[i] = 0 => \E k \in 1..n : m[k] = j
        BY <1>1, <2>1, <2>2, <2>4 DEF MatchFacts
      <4> QED
        BY <2>1, <4>1
    <3> QED
      BY <3>1, <3>2
  <2> QED
    BY <1>4, <2>2, <2>3, <2>4 DEF Justified, m
<1> QED
  BY <1>6

\* What is posted is of what was found.
LEMMA PostIsFound ==
  ASSUME NEW found \in Founds, NEW live, NEW opts
  PROVE  Plan(found, live, opts).post \in Seq(Finding)
<1> DEFINE m == Match(found, live, opts)
           new == {i \in DOMAIN found : m[i] = 0}
           quiet == {i \in new : found[i].fp \in opts.dismissed \cup opts.handled}
           post == Plan(found, live, opts).post
<1>1. post = Those(found, new \ quiet)
  BY DEF Plan
<1> HIDE DEF new, quiet, post
<1>2. found \in Seq(Finding)
  BY DEF Founds
<1>3. Len(found) \in Nat /\ DOMAIN found = 1..Len(found)
      /\ \A i \in 1..Len(found) : found[i] \in Finding
  BY <1>2
<1>4. post \in Seq({found[i] : i \in 1..Len(found)})
  BY <1>1, <1>3, ThoseAre
<1>5. {found[i] : i \in 1..Len(found)} \subseteq Finding
  BY <1>3
<1>6. post \in Seq(Finding)
  <2> DEFINE F == {found[i] : i \in 1..Len(found)}
  <2>1. post \in Seq(F) /\ F \subseteq Finding
    BY <1>4, <1>5
  <2> HIDE DEF F
  <2>2. Len(post) \in Nat /\ post \in [1..Len(post) -> F]
    BY <2>1
  <2>3. post \in [1..Len(post) -> Finding]
    BY <2>1, <2>2
  <2> QED
    BY <2>2, <2>3, SeqDef
<1> QED
  BY <1>6 DEF post

-----------------------------------------------------------------------------
(* The steps up to the plan. *)

RunsAreGood(rs, th) == DOMAIN rs = Reviewers /\ \A q \in Reviewers : GoodRun(rs[q], th)

\* A step of one run that leaves the threads and the other runs alone.
LEMMA OneMoves ==
  ASSUME NEW th, RunsAreGood(run, th), NEW r \in Reviewers, NEW e, GoodRun(e, th)
  PROVE  RunsAreGood([run EXCEPT ![r] = e], th)
  BY DEF RunsAreGood

\* GetPR leaves the runs good.
LEMMA GetPRIsGood ==
  ASSUME RoundInv, NEW r \in Reviewers, GetPR(r)
  PROVE  RunsAreGood(run', threads)
<1> DEFINE e == [pc |-> "opened", tip |-> tip, head |-> code]
<1>1. run' = [run EXCEPT ![r] = e]
  BY DEF GetPR
<1>2. GoodRun(e, threads)
  <2>1. e.pc = "opened"
    OBVIOUS
  <2> HIDE DEF e
  <2> QED
    BY <2>1 DEF GoodRun, Pcs
<1> HIDE DEF e
<1> QED
  BY <1>1, <1>2, OneMoves DEF RoundInv, RunsAreGood

\* So does ListFiles: what it reads of the head is all there is of it, unless a
\* fetch may fail.
LEMMA ListFilesIsGood ==
  ASSUME RoundInv, NEW r \in Reviewers, ListFiles(r)
  PROVE  RunsAreGood(run', threads)
<1> DEFINE there == DOMAIN code \cap DOMAIN run[r].head
<1>1. PICK base, post :
        /\ FetchFails \/ post = there
        /\ run' = [run EXCEPT ![r] =
             [pc |-> "listed", tip |-> @.tip, head |-> @.head, listed |-> code,
              base |-> base, post |-> post]]
  BY Zenon DEF ListFiles
<1> DEFINE e == [pc |-> "listed", tip |-> run[r].tip, head |-> run[r].head,
                 listed |-> code, base |-> base, post |-> post]
<1>2. run' = [run EXCEPT ![r] = e]
  BY <1>1
<1>3. GoodRun(e, threads)
  <2>1. e.pc = "listed" /\ e.post = post /\ e.listed = code /\ e.head = run[r].head
    OBVIOUS
  <2> HIDE DEF e
  <2> QED
    BY <1>1, <2>1 DEF GoodRun, Pcs
<1> HIDE DEF e
<1> QED
  BY <1>2, <1>3, OneMoves DEF RoundInv, RunsAreGood

\* So does ReadState: what it finds in the sticky comment is a good state.
LEMMA ReadStateIsGood ==
  ASSUME RoundInv, NEW r \in Reviewers, ReadState(r)
  PROVE  RunsAreGood(run', threads)
<1> DEFINE prev == ReadSticky(sticky[r])
<1>1. PICK delta, unchanged :
        run' = [run EXCEPT ![r] =
             [pc |-> "read", tip |-> @.tip, head |-> @.head, listed |-> @.listed,
              base |-> @.base, post |-> @.post, prev |-> prev,
              delta |-> delta, unchanged |-> unchanged]]
  BY Zenon DEF ReadState
<1> DEFINE q == run[r]
           e == [pc |-> "read", tip |-> q.tip, head |-> q.head, listed |-> q.listed,
                 base |-> q.base, post |-> q.post, prev |-> prev,
                 delta |-> delta, unchanged |-> unchanged]
<1>2. run' = [run EXCEPT ![r] = e]
  BY <1>1
<1>3. GoodRun(e, threads)
  <2>1. GoodState(prev)
    BY ReadIsGood DEF RoundInv
  <2>2. q.pc = "listed" /\ GoodRun(q, threads)
    BY DEF ReadState, RoundInv
  <2> HIDE DEF q, prev
  <2>3. /\ e.pc = "read" /\ e.post = q.post /\ e.listed = q.listed /\ e.head = q.head
        /\ e.prev = prev
    OBVIOUS
  <2> HIDE DEF e
  <2> QED
    BY <2>1, <2>2, <2>3 DEF GoodRun, Pcs
<1> HIDE DEF e
<1> QED
  BY <1>2, <1>3, OneMoves DEF RoundInv, RunsAreGood

\* So does RunReview: what it raises and what it carries over are within bounds.
LEMMA RunReviewIsGood ==
  ASSUME RoundInv, NEW r \in Reviewers, RunReview(r)
  PROVE  RunsAreGood(run', threads)
<1> DEFINE q == run[r]
<1>1. PICK reviewed, n, found :
        /\ n \in 0..MaxFindings
        /\ found \in [1..n -> Raisable(r, reviewed)]
        /\ run' = [run EXCEPT ![r] =
             [pc |-> "reviewed", tip |-> @.tip, head |-> @.head, listed |-> @.listed,
              base |-> @.base, post |-> @.post, prev |-> @.prev,
              unchanged |-> @.unchanged, reviewed |-> Finished(r, reviewed),
              found |-> IF @.delta
                        THEN CarryIntoRecord(found, @.prev,
                               FilesToReview(@.prev.shas, @.listed), DOMAIN @.listed)
                        ELSE found]]
  BY Zenon DEF RunReview
<1> DEFINE fs == IF q.delta
                 THEN CarryIntoRecord(found, q.prev,
                        FilesToReview(q.prev.shas, q.listed), DOMAIN q.listed)
                 ELSE found
           e == [pc |-> "reviewed", tip |-> q.tip, head |-> q.head, listed |-> q.listed,
                 base |-> q.base, post |-> q.post, prev |-> q.prev,
                 unchanged |-> q.unchanged, reviewed |-> Finished(r, reviewed),
                 found |-> fs]
<1>2. run' = [run EXCEPT ![r] = e]
  BY <1>1
<1>3. q.pc = "read" /\ GoodRun(q, threads)
  BY DEF RunReview, RoundInv
<1> HIDE DEF q
<1>4. fs \in Founds
  <2>1. Raisable(r, reviewed) \subseteq Finding
    BY PullRequestAssumption DEF Raisable, Finding
  <2>2. found \in [1..n -> Finding]
    BY <1>1, <2>1
  <2>3. found \in Founds
    BY <1>1, <2>2, FewAreFounds
  <2>4. q.prev.findings \in Founds
    BY <1>3 DEF GoodRun, GoodState, Pcs
  <2> QED
    BY <2>3, <2>4, CarriedAreFounds
<1> HIDE DEF fs
<1>5. GoodRun(e, threads)
  <2>1. /\ e.pc = "reviewed" /\ e.post = q.post /\ e.listed = q.listed /\ e.head = q.head
        /\ e.prev = q.prev /\ e.found = fs
    OBVIOUS
  <2> HIDE DEF e
  <2> QED
    BY <1>3, <1>4, <2>1 DEF GoodRun, Pcs
<1> HIDE DEF e
<1> QED
  BY <1>2, <1>5, OneMoves DEF RoundInv, RunsAreGood

\* The run that has matched the threads, and how.
Matched(q, same, plan) ==
  [pc |-> "reconciled", tip |-> q.tip, head |-> q.head,
   listed |-> q.listed, base |-> q.base, post |-> q.post,
   prev |-> q.prev, unchanged |-> q.unchanged,
   reviewed |-> q.reviewed, found |-> q.found, same |-> same,
   plan |-> plan, calm |-> TRUE]

OptsOf(r, same) ==
  [gone      |-> {j \in DOMAIN LiveThreads : SpanGone(r, LiveThreads[j])},
   fresh     |-> run[r].reviewed,
   same      |-> same,
   dismissed |-> {fp \in Fps : Active(run[r].prev.ledger, fp, 0)},
   handled   |-> {}]

\* ReconcileThreads matches the page of threads, whatever the model calls the same.
LEMMA ReconcileMatches ==
  ASSUME NEW r, ReconcileThreads(r)
  PROVE  \E same : run' = [run EXCEPT ![r] =
           Matched(run[r], same, Plan(run[r].found, LiveThreads, OptsOf(r, same)))]
<1> DEFINE plan(same) == Plan(run[r].found, LiveThreads, OptsOf(r, same))
<1>1. PICK same :
        run' = [run EXCEPT ![r] =
               [pc |-> "reconciled", tip |-> @.tip, head |-> @.head,
                listed |-> @.listed, base |-> @.base, post |-> @.post,
                prev |-> @.prev, unchanged |-> @.unchanged,
                reviewed |-> @.reviewed, found |-> @.found, same |-> same,
                plan |-> plan(same), calm |-> TRUE]]
  BY Zenon DEF ReconcileThreads, OptsOf
<1> HIDE DEF plan
<1>2. run' = [run EXCEPT ![r] = Matched(run[r], same, plan(same))]
  BY <1>1 DEF Matched
<1> QED
  BY <1>2 DEF plan

\* A run that has a plan is good: each resolution it lists is justified.
LEMMA MatchedIsGood ==
  ASSUME RoundInv, NEW r \in Reviewers, run[r].pc = "reviewed", NEW same
  PROVE  GoodRun(Matched(run[r], same, Plan(run[r].found, LiveThreads, OptsOf(r, same))),
                 threads)
<1> DEFINE q == run[r]
           opts == OptsOf(r, same)
           plan == Plan(q.found, LiveThreads, opts)
           e == Matched(q, same, plan)
<1>1. GoodRun(q, threads) /\ q.found \in Founds /\ threads \in Seq(Thread)
  BY DEF RoundInv, GoodRun
<1>2. opts.fresh = q.reviewed
  BY DEF OptsOf
<1>3. ASSUME NEW j \in opts.gone, threads[j].about \in q.post
      PROVE  threads[j].fp \notin q.head[threads[j].about]
  <2>1. j \in DOMAIN LiveThreads /\ SpanGone(r, LiveThreads[j])
    BY <1>3 DEF OptsOf
  <2>2. LiveThreads[j].about = threads[j].about /\ LiveThreads[j].fp = threads[j].fp
    BY <1>1, <2>1, LiveAre
  <2> QED
    BY <1>3, <2>1, <2>2 DEF SpanGone
<1>4. PlanFields \subseteq DOMAIN plan
  BY DEF Plan, PlanFields
<1>5. plan.post \in Seq(Finding)
  BY <1>1, PostIsFound
<1>6. q.pc = "reviewed"
  OBVIOUS
<1> HIDE DEF q, opts, plan
<1>7. /\ RunFields \subseteq DOMAIN e /\ e.pc = "reconciled"
      /\ e.head = q.head /\ e.listed = q.listed /\ e.post = q.post /\ e.prev = q.prev
      /\ e.reviewed = q.reviewed /\ e.found = q.found /\ e.plan = plan
  BY DEF Matched, RunFields
<1> HIDE DEF e
<1>8. e.plan = Plan(e.found, LiveThreads, opts)
  BY <1>7 DEF plan
<1>9. /\ e.plan.resolve \subseteq DOMAIN threads
      /\ \A j \in e.plan.resolve : Justified(e, threads[j], j)
  BY <1>1, <1>2, <1>3, <1>7, <1>8, PlanIsJustified
<1>10. GoodPlan(e, threads)
  BY <1>4, <1>5, <1>7, <1>9 DEF GoodPlan
<1>11. GoodRun(e, threads)
  BY <1>1, <1>6, <1>7, <1>10 DEF GoodRun, Pcs
<1> QED
  BY <1>11 DEF e, plan, opts, q

\* ReconcileThreads leaves the runs good.
LEMMA ReconcileIsGood ==
  ASSUME RoundInv, NEW r \in Reviewers, ReconcileThreads(r)
  PROVE  RunsAreGood(run', threads)
<1>1. PICK same : run' = [run EXCEPT ![r] =
           Matched(run[r], same, Plan(run[r].found, LiveThreads, OptsOf(r, same)))]
  BY ReconcileMatches
<1>2. run[r].pc = "reviewed"
  BY DEF ReconcileThreads
<1>3. GoodRun(Matched(run[r], same, Plan(run[r].found, LiveThreads, OptsOf(r, same))),
              threads)
  BY <1>2, MatchedIsGood
<1> QED
  BY <1>1, <1>3, OneMoves DEF RoundInv, RunsAreGood

-----------------------------------------------------------------------------
(* The steps that touch the threads. *)

\* Runs are stirred one by one.
LEMMA StirredIs ==
  ASSUME NEW q \in Reviewers
  PROVE  Stirred(run)[q] = Stir(run[q])
  BY DEF Stirred, Stir

\* The run whose review is posted, in full or not.
Posting(q, full) == [q EXCEPT !.pc = "posted", !.calm = @ /\ full]

\* Posting changes where a run is and whether it is calm.
LEMMA PostingKeeps ==
  ASSUME NEW q, RunFields \subseteq DOMAIN q, NEW full \in BOOLEAN
  PROVE  /\ DOMAIN Posting(q, full) = DOMAIN q
         /\ Posting(q, full).pc = "posted"
         /\ Posting(q, full).calm => q.calm /\ full
         /\ Posting(q, full).head = q.head /\ Posting(q, full).listed = q.listed
         /\ Posting(q, full).post = q.post /\ Posting(q, full).prev = q.prev
         /\ Posting(q, full).reviewed = q.reviewed /\ Posting(q, full).found = q.found
         /\ Posting(q, full).same = q.same /\ Posting(q, full).plan = q.plan
<1>1. Posting(q, full).calm = (q.calm /\ full)
  BY DEF Posting, RunFields
<1>2. Posting(q, full).calm => q.calm /\ full
  BY <1>1, Zenon
<1> QED
  BY <1>2 DEF Posting, RunFields

\* What CreateReview does: some comments, the last n, become threads.
LEMMA PublishPosts ==
  ASSUME RoundInv, NEW r \in Reviewers, PublishReview(r)
  PROVE  LET comments == Comments(run[r].plan)
         IN  \E n \in 0..Len(comments) :
               LET tail == SubSeq(comments, Len(comments) - n + 1, Len(comments))
               IN  /\ comments \in Seq(Comment)
                   /\ tail \in Seq(Comment) /\ Len(tail) = n
                   /\ n = Len(comments) => \A k \in 1..n : tail[k] = comments[k]
                   /\ \A k \in 1..n : tail[k] = comments[Len(comments) - n + k]
                   /\ threads' = threads \o Posted(r, tail)
                   /\ run' = [q \in Reviewers |->
                        IF q = r THEN Posting(run[r], n = Len(comments))
                        ELSE IF n > 0 THEN Stir(run[q]) ELSE run[q]]
<1> DEFINE comments == Comments(run[r].plan)
           tail(n) == SubSeq(comments, Len(comments) - n + 1, Len(comments))
<1>1. comments \in Seq(Comment)
  BY CommentsAre DEF RoundInv, GoodRun, GoodPlan, PublishReview
<1>2. PICK n : /\ n \in Landed(Len(comments))
               /\ threads' = threads \o Posted(r, tail(n))
               /\ run' = [q \in Reviewers |->
                    IF q = r THEN [run[r] EXCEPT !.pc = "posted",
                                                 !.calm = @ /\ n = Len(comments)]
                    ELSE IF n > 0 THEN Stirred(run)[q] ELSE run[q]]
  BY Zenon DEF PublishReview
<1>3. n \in 0..Len(comments)
  <2>1. Len(comments) \in Nat
    BY <1>1
  <2> QED
    BY <1>2, <2>1, SomeLand
<1>4. run' = [q \in Reviewers |->
                IF q = r THEN Posting(run[r], n = Len(comments))
                ELSE IF n > 0 THEN Stir(run[q]) ELSE run[q]]
  <2>1. \A q \in Reviewers : Stirred(run)[q] = Stir(run[q])
    BY StirredIs
  <2> HIDE DEF comments
  <2> QED
    BY <1>2, <2>1, Zenon DEF Posting
<1> HIDE DEF comments
<1>5. /\ tail(n) \in Seq(Comment) /\ Len(tail(n)) = n
      /\ \A k \in 1..n : tail(n)[k] = comments[Len(comments) - n + k]
      /\ n = Len(comments) => \A k \in 1..n : tail(n)[k] = comments[k]
  BY <1>1, <1>3, TailIs
<1>6. threads' = threads \o Posted(r, tail(n))
  BY <1>2
<1> HIDE DEF tail
<1>7. /\ n \in 0..Len(comments)
      /\ comments \in Seq(Comment)
      /\ tail(n) \in Seq(Comment) /\ Len(tail(n)) = n
      /\ n = Len(comments) => \A k \in 1..n : tail(n)[k] = comments[k]
      /\ \A k \in 1..n : tail(n)[k] = comments[Len(comments) - n + k]
      /\ threads' = threads \o Posted(r, tail(n))
      /\ run' = [q \in Reviewers |->
           IF q = r THEN Posting(run[r], n = Len(comments))
           ELSE IF n > 0 THEN Stir(run[q]) ELSE run[q]]
  BY <1>1, <1>3, <1>4, <1>5, <1>6
<1> QED
  BY <1>7, Zenon DEF tail, comments

\* The threads after new ones are appended.
LEMMA AppendGrows ==
  ASSUME NEW th \in Seq(Thread), NEW p \in Seq(Thread)
  PROVE  /\ th \o p \in Seq(Thread) /\ Grown(th, th \o p)
         /\ Len(th \o p) = Len(th) + Len(p)
         /\ \A j \in 1..Len(th) : (th \o p)[j] = th[j]
         /\ \A k \in 1..Len(p) : (th \o p)[Len(th) + k] = p[k]
         /\ DOMAIN (th \o p) = 1..(Len(th) + Len(p))
<1>1. Len(th) \in Nat /\ Len(p) \in Nat /\ DOMAIN th = 1..Len(th)
  <2> HIDE DEF Thread
  <2> QED
    OBVIOUS
<1>2. /\ th \o p \in Seq(Thread)
      /\ Len(th \o p) = Len(th) + Len(p)
      /\ \A i \in 1..(Len(th) + Len(p)) : (th \o p)[i] =
                     IF i <= Len(th) THEN th[i] ELSE p[i - Len(th)]
  BY ConcatProperties
<1>3. \A j \in 1..Len(th) : (th \o p)[j] = th[j]
  BY <1>1, <1>2
<1>4. \A k \in 1..Len(p) : (th \o p)[Len(th) + k] = p[k]
  <2> TAKE k \in 1..Len(p)
  <2>1. Len(th) + k \in 1..(Len(th) + Len(p)) /\ ~(Len(th) + k <= Len(th))
        /\ Len(th) + k - Len(th) = k
    BY <1>1
  <2> QED
    BY <1>2, <2>1
<1>5. DOMAIN (th \o p) = 1..(Len(th) + Len(p))
  BY <1>2
<1>6. Grown(th, th \o p)
  <2>1. DOMAIN th \subseteq DOMAIN (th \o p)
    BY <1>1, <1>5
  <2> QED
    BY <1>1, <1>3, <2>1 DEF Grown
<1> QED
  BY <1>2, <1>3, <1>4, <1>5, <1>6

\* PublishReview leaves the runs good, and the threads there were as they were.
LEMMA PublishIsGood ==
  ASSUME RoundInv, NEW r \in Reviewers, PublishReview(r)
  PROVE  /\ RunsAreGood(run', threads')
         /\ threads' \in Seq(Thread) /\ Grown(threads, threads')
         /\ \A j \in DOMAIN threads : threads'[j].by = threads[j].by
<1> DEFINE comments == Comments(run[r].plan)
           full(n) == n = Len(comments)
<1>1. PICK n, tail :
        /\ tail \in Seq(Comment)
        /\ threads' = threads \o Posted(r, tail)
        /\ run' = [q \in Reviewers |->
             IF q = r THEN Posting(run[r], full(n))
             ELSE IF n > 0 THEN Stir(run[q]) ELSE run[q]]
  BY PublishPosts, Zenon
<1>2. threads \in Seq(Thread) /\ \A q \in Reviewers : GoodRun(run[q], threads)
  BY DEF RoundInv
<1>3. Posted(r, tail) \in Seq(Thread)
  BY <1>1, PostedAre
<1>4. /\ threads' \in Seq(Thread) /\ Grown(threads, threads')
      /\ \A j \in DOMAIN threads : threads'[j] = threads[j]
  <2>1. DOMAIN threads = 1..Len(threads)
    BY <1>2
  <2> QED
    BY <1>1, <1>2, <1>3, <2>1, AppendGrows
<1>5. GoodRun(Posting(run[r], full(n)), threads)
  <2> DEFINE q == run[r]
             e == Posting(q, full(n))
  <2>1. GoodRun(q, threads) /\ q.pc = "reconciled"
    BY <1>2 DEF PublishReview
  <2>2. GoodPlan(q, threads)
    BY <2>1 DEF GoodRun
  <2>3. full(n) \in BOOLEAN
    OBVIOUS
  <2> HIDE DEF q, full
  <2>4. /\ DOMAIN e = DOMAIN q /\ e.pc = "posted"
        /\ e.head = q.head /\ e.listed = q.listed /\ e.post = q.post /\ e.prev = q.prev
        /\ e.reviewed = q.reviewed /\ e.found = q.found /\ e.plan = q.plan
    BY <2>2, <2>3, PostingKeeps DEF GoodPlan
  <2> HIDE DEF e
  <2>5. GoodPlan(e, threads)
    BY <2>2, <2>4 DEF GoodPlan, Justified
  <2>6. GoodRun(e, threads)
    BY <2>1, <2>4, <2>5 DEF GoodRun, Pcs
  <2> QED
    BY <2>6 DEF e, q
<1> HIDE DEF full
<1>6. ASSUME NEW q \in Reviewers PROVE GoodRun(run'[q], threads)
  <2>1. CASE q = r
    BY <1>1, <1>5, <2>1
  <2>2. CASE q # r
    <3>1. run'[q] = Stir(run[q]) \/ run'[q] = run[q]
      BY <1>1, <2>2
    <3>2. GoodRun(run[q], threads) /\ GoodRun(Stir(run[q]), threads)
      BY <1>2, StirIsGood
    <3> QED
      BY <3>1, <3>2
  <2> QED
    BY <2>1, <2>2
<1>7. \A q \in Reviewers : GoodRun(run'[q], threads')
  BY <1>4, <1>6, GoodLasts
<1>8. DOMAIN run' = Reviewers
  BY <1>1
<1> QED
  BY <1>4, <1>7, <1>8 DEF RunsAreGood

\* The run with one thread less to resolve.
Unresolve(q, j) == [q EXCEPT !.plan.resolve = @ \ {j}]

\* A thread struck off the list changes the list.
LEMMA UnresolveKeeps ==
  ASSUME NEW q, RunFields \subseteq DOMAIN q, PlanFields \subseteq DOMAIN q.plan, NEW j
  PROVE  /\ DOMAIN Unresolve(q, j) = DOMAIN q
         /\ DOMAIN Unresolve(q, j).plan = DOMAIN q.plan
         /\ Unresolve(q, j).pc = q.pc /\ Unresolve(q, j).calm = q.calm
         /\ Unresolve(q, j).head = q.head /\ Unresolve(q, j).listed = q.listed
         /\ Unresolve(q, j).post = q.post /\ Unresolve(q, j).prev = q.prev
         /\ Unresolve(q, j).reviewed = q.reviewed /\ Unresolve(q, j).found = q.found
         /\ Unresolve(q, j).same = q.same
         /\ Unresolve(q, j).plan.match = q.plan.match
         /\ Unresolve(q, j).plan.post = q.plan.post
         /\ Unresolve(q, j).plan.resolve = q.plan.resolve \ {j}
<1> DEFINE p == [q.plan EXCEPT !.resolve = @ \ {j}]
<1>1. /\ DOMAIN p = DOMAIN q.plan /\ p.match = q.plan.match /\ p.post = q.plan.post
      /\ p.resolve = q.plan.resolve \ {j}
  BY DEF PlanFields
<1>2. Unresolve(q, j) = [q EXCEPT !.plan = p]
  BY DEF Unresolve
<1> HIDE DEF p
<1> QED
  BY <1>1, <1>2 DEF RunFields

\* The run is good without it.
LEMMA UnresolveIsGood ==
  ASSUME NEW q, NEW th, GoodRun(q, th), q.pc = "posted", NEW j
  PROVE  GoodRun(Unresolve(q, j), th)
<1> DEFINE e == Unresolve(q, j)
<1>1. GoodPlan(q, th)
  BY DEF GoodRun
<1>2. /\ DOMAIN e = DOMAIN q /\ DOMAIN e.plan = DOMAIN q.plan /\ e.pc = q.pc
      /\ e.head = q.head /\ e.listed = q.listed /\ e.post = q.post /\ e.prev = q.prev
      /\ e.reviewed = q.reviewed /\ e.found = q.found /\ e.plan.match = q.plan.match
      /\ e.plan.post = q.plan.post /\ e.plan.resolve = q.plan.resolve \ {j}
  BY <1>1, UnresolveKeeps DEF GoodPlan
<1> HIDE DEF e
<1>3. GoodPlan(e, th)
  BY <1>1, <1>2 DEF GoodPlan, Justified
<1>4. GoodRun(e, th)
  BY <1>2, <1>3 DEF GoodRun
<1> QED
  BY <1>4 DEF e

\* A thread is resolved, or it was.
LEMMA ResolveGrows ==
  ASSUME NEW th \in Seq(Thread), NEW j \in DOMAIN th, NEW who \in {Cite, Person}
  PROVE  LET more == [th EXCEPT ![j].by = who]
         IN  /\ more \in Seq(Thread) /\ Grown(th, more)
             /\ DOMAIN more = DOMAIN th /\ Len(more) = Len(th)
             /\ more[j].by = who
             /\ \A i \in DOMAIN th : i # j => more[i] = th[i]
<1> DEFINE t == [th[j] EXCEPT !.by = who]
           more == [th EXCEPT ![j] = t]
<1>1. Len(th) \in Nat /\ DOMAIN th = 1..Len(th) /\ \A i \in 1..Len(th) : th[i] \in Thread
  OBVIOUS
<1>2. /\ t \in Thread /\ t.fp = th[j].fp /\ t.path = th[j].path /\ t.about = th[j].about
      /\ t.poster = th[j].poster /\ t.by = who
  <2>1. th[j] \in Thread
    BY <1>1
  <2> QED
    BY <2>1 DEF Thread
<1> HIDE DEF t
<1>3. /\ more \in Seq(Thread) /\ DOMAIN more = DOMAIN th /\ Len(more) = Len(th)
      /\ more[j] = t /\ \A i \in DOMAIN th : i # j => more[i] = th[i]
  <2>1. more \in [1..Len(th) -> Thread]
    BY <1>1, <1>2
  <2>2. more \in Seq(Thread)
    BY <1>1, <2>1, SeqDef
  <2>3. Len(more) = Len(th)
    BY <1>1, <2>1, <2>2
  <2> QED
    BY <1>1, <2>2, <2>3
<1>4. [th EXCEPT ![j].by = who] = more
  BY DEF t
<1> HIDE DEF more
<1>5. Grown(th, more)
  BY <1>2, <1>3 DEF Grown
<1> QED
  BY <1>2, <1>3, <1>4, <1>5

\* What resolving a thread does.
LEMMA ResolveResolves ==
  ASSUME RoundInv, NEW r \in Reviewers, ResolveThread(r)
  PROVE  \E j \in run[r].plan.resolve :
           /\ j \in DOMAIN threads
           /\ \/ /\ threads' = IF threads[j].by = Nobody
                               THEN [threads EXCEPT ![j].by = Cite] ELSE threads
                 /\ run' = [q \in Reviewers |->
                      IF q = r THEN Unresolve(run[r], j) ELSE Stir(run[q])]
              \/ /\ threads' = threads
                 /\ run' = [run EXCEPT ![r] = Stir(Unresolve(run[r], j))]
<1> DEFINE j == Least(run[r].plan.resolve)
           rest == [run EXCEPT ![r].plan.resolve = @ \ {j}]
<1>1. run[r].pc = "posted" /\ GoodRun(run[r], threads) /\ DOMAIN run = Reviewers
      /\ threads \in Seq(Thread) /\ run[r].plan.resolve # {}
  BY DEF ResolveThread, RoundInv
<1>2. GoodPlan(run[r], threads)
  BY <1>1 DEF GoodRun
<1>3. j \in run[r].plan.resolve /\ j \in DOMAIN threads
  <2>1. run[r].plan.resolve \in SUBSET Nat
    BY <1>1, <1>2 DEF GoodPlan
  <2> QED
    BY <1>1, <1>2, <2>1, LeastIsOne DEF GoodPlan
<1>4. \/ /\ threads' = IF threads[j].by = Nobody
                       THEN [threads EXCEPT ![j].by = Cite] ELSE threads
         /\ run' = [q \in Reviewers |-> IF q = r THEN rest[q] ELSE Stirred(run)[q]]
      \/ /\ run' = [rest EXCEPT ![r].calm = FALSE]
         /\ UNCHANGED threads
  BY Zenon DEF ResolveThread
<1> HIDE DEF j
<1>5. rest = [run EXCEPT ![r] = Unresolve(run[r], j)]
  BY DEF Unresolve
<1>6. rest[r] = Unresolve(run[r], j) /\ DOMAIN rest = Reviewers
  BY <1>1, <1>5
<1>7. Unresolve(run[r], j).pc = "posted"
  BY <1>1, <1>2, UnresolveKeeps DEF GoodPlan
<1> HIDE DEF rest
<1>8. CASE /\ threads' = IF threads[j].by = Nobody
                         THEN [threads EXCEPT ![j].by = Cite] ELSE threads
           /\ run' = [q \in Reviewers |-> IF q = r THEN rest[q] ELSE Stirred(run)[q]]
  <2>1. \A q \in Reviewers : Stirred(run)[q] = Stir(run[q])
    BY StirredIs
  <2>2. run' = [q \in Reviewers |-> IF q = r THEN Unresolve(run[r], j) ELSE Stir(run[q])]
    BY <1>6, <1>8, <2>1
  <2> QED
    BY <1>3, <1>8, <2>2
<1>9. CASE run' = [rest EXCEPT ![r].calm = FALSE] /\ UNCHANGED threads
  <2> DEFINE e == Unresolve(run[r], j)
  <2>1. Stir(e) = [e EXCEPT !.calm = FALSE]
    BY <1>7 DEF Stir
  <2> HIDE DEF e
  <2>2. run' = [rest EXCEPT ![r] = [rest[r] EXCEPT !.calm = FALSE]]
    BY <1>9
  <2>3. run' = [rest EXCEPT ![r] = Stir(e)]
    BY <1>6, <2>1, <2>2 DEF e
  <2>4. run' = [run EXCEPT ![r] = Stir(e)]
    BY <1>1, <1>5, <2>3
  <2> QED
    BY <1>3, <1>9, <2>4 DEF e
<1> QED
  BY <1>4, <1>8, <1>9

\* ResolveThread leaves the runs good.
LEMMA ResolveIsGood ==
  ASSUME RoundInv, NEW r \in Reviewers, ResolveThread(r)
  PROVE  /\ RunsAreGood(run', threads')
         /\ threads' \in Seq(Thread) /\ Grown(threads, threads')
<1>1. PICK j \in run[r].plan.resolve :
           /\ j \in DOMAIN threads
           /\ \/ /\ threads' = IF threads[j].by = Nobody
                               THEN [threads EXCEPT ![j].by = Cite] ELSE threads
                 /\ run' = [q \in Reviewers |->
                      IF q = r THEN Unresolve(run[r], j) ELSE Stir(run[q])]
              \/ /\ threads' = threads
                 /\ run' = [run EXCEPT ![r] = Stir(Unresolve(run[r], j))]
  BY ResolveResolves
<1>2. threads \in Seq(Thread) /\ DOMAIN run = Reviewers
      /\ \A q \in Reviewers : GoodRun(run[q], threads)
  BY DEF RoundInv
<1>3. threads' \in Seq(Thread) /\ Grown(threads, threads')
  <2>1. [threads EXCEPT ![j].by = Cite] \in Seq(Thread)
        /\ Grown(threads, [threads EXCEPT ![j].by = Cite])
    BY <1>1, <1>2, ResolveGrows
  <2>2. Grown(threads, threads)
    BY DEF Grown
  <2> QED
    BY <1>1, <1>2, <2>1, <2>2
<1>4. ASSUME NEW q \in Reviewers PROVE GoodRun(run'[q], threads)
  <2>1. GoodRun(run[q], threads) /\ GoodRun(Stir(run[q]), threads)
    BY <1>2, StirIsGood
  <2>2. /\ GoodRun(Unresolve(run[r], j), threads)
        /\ GoodRun(Stir(Unresolve(run[r], j)), threads)
    BY <1>2, UnresolveIsGood, StirIsGood DEF ResolveThread
  <2> QED
    BY <1>1, <1>2, <2>1, <2>2
<1>5. \A q \in Reviewers : GoodRun(run'[q], threads')
  BY <1>3, <1>4, GoodLasts
<1>6. DOMAIN run' = Reviewers
  BY <1>1, <1>2
<1> QED
  BY <1>3, <1>5, <1>6 DEF RunsAreGood

\* So does a person, who does not resolve for Cite.
LEMMA ByHandIsGood ==
  ASSUME RoundInv, ResolveByHand
  PROVE  /\ RunsAreGood(run', threads')
         /\ threads' \in Seq(Thread) /\ Grown(threads, threads')
         /\ \A j \in DOMAIN threads : threads'[j].by # Cite \/ threads[j].by = Cite
<1>1. PICK j \in DOMAIN threads : threads' = [threads EXCEPT ![j].by = Person]
  BY DEF ResolveByHand
<1>2. threads \in Seq(Thread) /\ DOMAIN run = Reviewers
      /\ \A q \in Reviewers : GoodRun(run[q], threads)
  BY DEF RoundInv
<1>3. /\ threads' \in Seq(Thread) /\ Grown(threads, threads')
      /\ threads'[j].by = Person /\ \A i \in DOMAIN threads : i # j => threads'[i] = threads[i]
  BY <1>1, <1>2, ResolveGrows
<1>4. run' = Stirred(run)
  BY DEF ResolveByHand
<1>5. \A q \in Reviewers : run'[q] = Stir(run[q])
  BY <1>4, StirredIs
<1>6. DOMAIN run' = Reviewers
  BY <1>4 DEF Stirred
<1>7. \A q \in Reviewers : GoodRun(run'[q], threads')
  BY <1>2, <1>3, <1>5, StirIsGood, GoodLasts
<1>8. Person # Cite
  BY DEF Person, Cite
<1> QED
  BY <1>3, <1>6, <1>7, <1>8 DEF RunsAreGood

-----------------------------------------------------------------------------
(* The invariant of the rounds. *)

\* The peak rises to what the run found, and stays within the bound.
LEMMA PeakStays ==
  ASSUME RoundInv, NEW r \in Reviewers, ReconcileThreads(r)
  PROVE  /\ peak' \in [Fps -> 0..MaxFindings]
         /\ \A fp \in Fps : peak'[fp] >= peak[fp] /\ peak'[fp] >= CountOf(run[r].found, fp)
<1>1. run[r].found \in Founds /\ peak \in [Fps -> 0..MaxFindings]
  BY DEF RoundInv, GoodRun, ReconcileThreads
<1>2. peak' = [fp \in Fps |-> LET n == CountOf(run[r].found, fp)
                             IN IF n > peak[fp] THEN n ELSE peak[fp]]
  BY Zenon DEF ReconcileThreads
<1>3. MaxFindings \in Nat
  BY PullRequestAssumption
<1> DEFINE found == run[r].found
<1> HIDE DEF found
<1>4. ASSUME NEW fp \in Fps
      PROVE  CountOf(found, fp) \in Nat /\ CountOf(found, fp) <= MaxFindings
  <2>1. found \in Seq(Finding) /\ CountOf(found, fp) <= MaxFindings
    BY <1>1 DEF Founds, found
  <2>2. Len(found) \in Nat /\ DOMAIN found = 1..Len(found)
    BY <2>1
  <2>3. {i \in DOMAIN found : found[i].fp = fp} \in SUBSET (1..Len(found))
    BY <2>2
  <2>4. CountOf(found, fp) \in Nat
    BY <2>2, <2>3, Positions DEF CountOf
  <2> QED
    BY <2>1, <2>4
<1>5. ASSUME NEW fp \in Fps
      PROVE  /\ peak'[fp] \in 0..MaxFindings
             /\ peak'[fp] >= peak[fp] /\ peak'[fp] >= CountOf(found, fp)
  <2> DEFINE n == CountOf(found, fp)
             p == peak[fp]
  <2>1. peak'[fp] = IF n > p THEN n ELSE p
    BY <1>2 DEF found
  <2>2. n \in Nat /\ n <= MaxFindings /\ p \in 0..MaxFindings
    BY <1>1, <1>4
  <2> HIDE DEF n, p
  <2>3. peak'[fp] \in 0..MaxFindings /\ peak'[fp] >= p /\ peak'[fp] >= n
    BY <1>3, <2>1, <2>2
  <2> QED
    BY <2>3 DEF n, p
<1>6. peak' \in [Fps -> 0..MaxFindings]
  BY <1>2, <1>5
<1> QED
  BY <1>5, <1>6 DEF found

\* WriteSticky leaves the runs and the sticky comments good.
LEMMA WriteIsGood ==
  ASSUME RoundInv, NEW r \in Reviewers, WriteSticky(r)
  PROVE  /\ RunsAreGood(run', threads)
         /\ DOMAIN sticky' = Reviewers /\ \A q \in Reviewers : GoodBody(sticky'[q])
<1>1. GoodRun(Idle, threads)
  <2>1. Idle.pc = "idle"
    BY DEF Idle
  <2> QED
    BY <2>1 DEF GoodRun, Pcs
<1>2. RunsAreGood(run', threads)
  BY <1>1, OneMoves DEF RoundInv, RunsAreGood, WriteSticky
<1>3. GoodBody(StickyBody(NextState(r)))
  <2>1. run[r].found \in Founds /\ run[r].prev.ledger = {}
    BY DEF RoundInv, GoodRun, GoodState, WriteSticky, Pcs
  <2>2. Unanchored(StandingFindings(run[r].found, run[r].plan)) \in Founds
    BY <2>1, StandingAreFounds, UnanchoredAreFounds
  <2>3. GoodState(NextState(r))
    BY <2>1, <2>2 DEF NextState, GoodState
  <2> QED
    BY <2>3, StickyIsGood
<1>4. sticky' = [sticky EXCEPT ![r] = StickyBody(NextState(r))] \/ sticky' = sticky
  BY DEF WriteSticky
<1>5. DOMAIN sticky = Reviewers /\ \A q \in Reviewers : GoodBody(sticky[q])
  BY DEF RoundInv
<1> QED
  BY <1>2, <1>3, <1>4, <1>5

\* A run that dies leaves the others good.
LEMMA DieIsGood ==
  ASSUME RoundInv, NEW r \in Reviewers, Die(r)
  PROVE  RunsAreGood(run', threads)
<1>1. GoodRun(Idle, threads)
  <2>1. Idle.pc = "idle"
    BY DEF Idle
  <2> QED
    BY <2>1 DEF GoodRun, Pcs
<1> QED
  BY <1>1, OneMoves DEF RoundInv, RunsAreGood, Die

\* Every step keeps it.
LEMMA RoundStep == RoundInv /\ [Next]_vars => RoundInv'
<1> SUFFICES ASSUME RoundInv, [Next]_vars PROVE RoundInv'
  OBVIOUS
<1> DEFINE World == /\ code' \in Codes /\ tip' \in 1..MaxCommits
           Counts == /\ runs' \in [Reviewers -> 0..MaxRuns]
                     /\ peak' \in [Fps -> 0..MaxFindings]
           Threads == threads' \in Seq(Thread)
           Runs == RunsAreGood(run', threads')
           Stickies == DOMAIN sticky' = Reviewers /\ \A q \in Reviewers : GoodBody(sticky'[q])
<1>a. /\ code \in Codes /\ tip \in 1..MaxCommits
      /\ runs \in [Reviewers -> 0..MaxRuns] /\ peak \in [Fps -> 0..MaxFindings]
      /\ threads \in Seq(Thread) /\ RunsAreGood(run, threads)
      /\ DOMAIN sticky = Reviewers /\ \A q \in Reviewers : GoodBody(sticky[q])
  BY DEF RoundInv, RunsAreGood
<1>b. World /\ Counts /\ Threads /\ Runs /\ Stickies => RoundInv'
  BY DEF RoundInv, RunsAreGood
<1>1. ASSUME NEW r \in Reviewers, GetPR(r) PROVE RoundInv'
  <2>1. RunsAreGood(run', threads) /\ threads' = threads
    BY <1>1, GetPRIsGood DEF GetPR
  <2>2. runs' \in [Reviewers -> 0..MaxRuns]
    <3>1. MaxRuns \in Nat /\ runs[r] < MaxRuns /\ runs' = [runs EXCEPT ![r] = @ + 1]
      BY <1>1, PullRequestAssumption DEF GetPR
    <3>2. runs[r] + 1 \in 0..MaxRuns
      BY <1>a, <3>1
    <3> QED
      BY <1>a, <3>1, <3>2
  <2>3. World /\ peak' = peak /\ Stickies
    BY <1>a, <1>1 DEF GetPR
  <2> QED
    BY <1>a, <1>b, <2>1, <2>2, <2>3
<1>2. ASSUME NEW r \in Reviewers, ListFiles(r) PROVE RoundInv'
  <2>1. RunsAreGood(run', threads)
    BY <1>2, ListFilesIsGood
  <2>2. World /\ Counts /\ Stickies /\ threads' = threads
    BY <1>a, <1>2 DEF ListFiles
  <2> QED
    BY <1>a, <1>b, <2>1, <2>2
<1>3. ASSUME NEW r \in Reviewers, ReadState(r) PROVE RoundInv'
  <2>1. RunsAreGood(run', threads)
    BY <1>3, ReadStateIsGood
  <2>2. World /\ Counts /\ Stickies /\ threads' = threads
    BY <1>a, <1>3 DEF ReadState
  <2> QED
    BY <1>a, <1>b, <2>1, <2>2
<1>4. ASSUME NEW r \in Reviewers, RunReview(r) PROVE RoundInv'
  <2>1. RunsAreGood(run', threads)
    BY <1>4, RunReviewIsGood
  <2>2. World /\ Counts /\ Stickies /\ threads' = threads
    BY <1>a, <1>4 DEF RunReview
  <2> QED
    BY <1>a, <1>b, <2>1, <2>2
<1>5. ASSUME NEW r \in Reviewers, ReconcileThreads(r) PROVE RoundInv'
  <2>1. RunsAreGood(run', threads) /\ peak' \in [Fps -> 0..MaxFindings]
    BY <1>5, ReconcileIsGood, PeakStays
  <2>2. World /\ runs' = runs /\ Stickies /\ threads' = threads
    BY <1>a, <1>5 DEF ReconcileThreads
  <2> QED
    BY <1>a, <1>b, <2>1, <2>2
<1>6. ASSUME NEW r \in Reviewers, PublishReview(r) PROVE RoundInv'
  <2>1. Runs /\ Threads
    BY <1>6, PublishIsGood
  <2>2. World /\ Counts /\ Stickies
    BY <1>a, <1>6 DEF PublishReview
  <2> QED
    BY <1>b, <2>1, <2>2
<1>7. ASSUME NEW r \in Reviewers, ResolveThread(r) PROVE RoundInv'
  <2>1. Runs /\ Threads
    BY <1>7, ResolveIsGood
  <2>2. World /\ Counts /\ Stickies
    BY <1>a, <1>7 DEF ResolveThread
  <2> QED
    BY <1>b, <2>1, <2>2
<1>8. ASSUME NEW r \in Reviewers, WriteSticky(r) PROVE RoundInv'
  <2>1. RunsAreGood(run', threads) /\ Stickies
    BY <1>8, WriteIsGood
  <2>2. World /\ Counts /\ threads' = threads
    BY <1>a, <1>8 DEF WriteSticky
  <2> QED
    BY <1>a, <1>b, <2>1, <2>2
<1>9. ASSUME NEW r \in Reviewers, Die(r) PROVE RoundInv'
  <2>1. RunsAreGood(run', threads)
    BY <1>9, DieIsGood
  <2>2. World /\ Counts /\ Stickies /\ threads' = threads
    BY <1>a, <1>9 DEF Die
  <2> QED
    BY <1>a, <1>b, <2>1, <2>2
<1>10. ASSUME ResolveByHand PROVE RoundInv'
  <2>1. Runs /\ Threads
    BY <1>10, ByHandIsGood
  <2>2. World /\ Counts /\ Stickies
    BY <1>a, <1>10 DEF ResolveByHand
  <2> QED
    BY <1>b, <2>1, <2>2
<1>11. ASSUME Push PROVE RoundInv'
  <2>1. World
    BY <1>a, <1>11, PullRequestAssumption DEF Push
  <2>2. Counts /\ Stickies /\ threads' = threads /\ run' = run
    BY <1>a, <1>11 DEF Push
  <2> QED
    BY <1>a, <1>b, <2>1, <2>2
<1>12. CASE UNCHANGED vars
  BY <1>12 DEF vars, RoundInv
<1> QED
  BY <1>1, <1>2, <1>3, <1>4, <1>5, <1>6, <1>7, <1>8, <1>9, <1>10, <1>11, <1>12
  DEF Next, Step

\* The invariant holds at the start.
LEMMA RoundInit == Init => RoundInv
<1> SUFFICES ASSUME Init PROVE RoundInv
  OBVIOUS
<1>1. code \in Codes /\ tip \in 1..MaxCommits
  BY PullRequestAssumption DEF Init
<1>2. threads \in Seq(Thread)
  <2>1. threads = <<>>
    BY DEF Init
  <2>2. <<>> \in Seq(Thread)
    OBVIOUS
  <2> QED
    BY <2>1, <2>2
<1>3. runs \in [Reviewers -> 0..MaxRuns] /\ peak \in [Fps -> 0..MaxFindings]
  BY PullRequestAssumption DEF Init
<1>4. ASSUME NEW r \in Reviewers PROVE GoodRun(run[r], threads)
  <2>1. run[r] = Idle /\ Idle.pc = "idle"
    BY DEF Init, Idle
  <2> QED
    BY <2>1 DEF GoodRun, Pcs
<1>5. ASSUME NEW r \in Reviewers PROVE GoodBody(sticky[r])
  <2>1. sticky[r] = <<>>
    BY DEF Init
  <2>2. Len(<<>>) \in Nat /\ DOMAIN <<>> = 1..Len(<<>>) /\ \A k : k \notin DOMAIN <<>>
    OBVIOUS
  <2>3. GoodBody(<<>>)
    BY <2>2, Zenon DEF GoodBody
  <2> QED
    BY <2>1, <2>3
<1>6. DOMAIN run = Reviewers /\ DOMAIN sticky = Reviewers
  BY DEF Init
<1> QED
  BY <1>1, <1>2, <1>3, <1>4, <1>5, <1>6 DEF RoundInv

\* It gives the values of the variables.
LEMMA RoundsAreTyped == RoundInv => TypeOK
<1> SUFFICES ASSUME RoundInv PROVE TypeOK
  OBVIOUS
<1>1. ASSUME NEW r \in Reviewers
      PROVE  /\ run[r].pc \in Pcs
             /\ run[r].pc \in {"reconciled", "posted"} =>
                  run[r].plan.resolve \subseteq DOMAIN threads
  BY DEF RoundInv, GoodRun, GoodPlan
<1> QED
  BY <1>1, Zenon DEF RoundInv, TypeOK, Pcs, Thread

\* It holds of every behaviour.
LEMMA Rounds == Spec => []RoundInv
  BY RoundInit, RoundStep, PTL DEF Spec

\* Every variable of the rounds has its values: in particular what is left of a
\* plan to resolve is threads there are (TypeOK).
THEOREM RoundsTyped == Spec => []TypeOK
  BY Rounds, RoundsAreTyped, PTL

\* A thread a step of Cite resolves had its cause.
LEMMA ResolveHasCause ==
  ASSUME RoundInv, ~FetchFails, NEW r \in Reviewers, ResolveThread(r),
         NEW i \in DOMAIN threads, threads[i].by = Nobody, threads'[i].by = Cite
  PROVE  run[r].pc = "posted" /\ Cause(r, i)
<1>1. PICK j \in run[r].plan.resolve :
        /\ j \in DOMAIN threads
        /\ \/ threads' = IF threads[j].by = Nobody
                         THEN [threads EXCEPT ![j].by = Cite] ELSE threads
           \/ threads' = threads
  BY ResolveResolves
<1>2. Nobody # Cite /\ threads \in Seq(Thread)
  BY DEF Nobody, Cite, RoundInv
<1>3. i = j
  <2>1. threads' # threads
    BY <1>2
  <2>2. threads' = [threads EXCEPT ![j].by = Cite]
    BY <1>1, <2>1
  <2>3. \A k \in DOMAIN threads : k # j => threads'[k] = threads[k]
    BY <1>1, <1>2, <2>2, ResolveGrows
  <2> QED
    BY <1>2, <2>3
<1>4. run[r].pc = "posted" /\ GoodRun(run[r], threads)
  BY DEF ResolveThread, RoundInv
<1>5. Justified(run[r], threads[i], i)
  BY <1>1, <1>3, <1>4 DEF GoodRun, GoodPlan
<1>6. run[r].post = DOMAIN run[r].listed \cap DOMAIN run[r].head
  BY <1>4 DEF GoodRun, Pcs
<1> QED
  BY <1>4, <1>5, <1>6 DEF Justified, Cause

\* Cite resolves a thread on a verified basis, and never the thread of a finding it
\* has just raised, as long as no fetch of a content fails (ResolvedForCause); when
\* one may fail, a file that could not be fetched counts as gone.
THEOREM NothingResolvedWithoutCause == ~FetchFails /\ Spec => ResolvedForCause
<1> DEFINE Caused == \A j \in DOMAIN threads :
                       threads[j].by = Nobody /\ threads'[j].by = Cite =>
                         \E r \in Reviewers : run[r].pc = "posted" /\ Cause(r, j)
<1> SUFFICES ASSUME ~FetchFails PROVE Spec => ResolvedForCause
  OBVIOUS
<1>1. ASSUME RoundInv, [Next]_vars
      PROVE  [Caused]_vars
  <2> SUFFICES ASSUME Next, NEW i \in DOMAIN threads,
                      threads[i].by = Nobody, threads'[i].by = Cite
               PROVE  \E r \in Reviewers : run[r].pc = "posted" /\ Cause(r, i)
    BY <1>1
  <2>1. Nobody # Cite
    BY DEF Nobody, Cite
  <2>2. threads' # threads
    BY <2>1
  <2>3. ASSUME NEW r \in Reviewers, PublishReview(r) PROVE FALSE
    BY <1>1, <2>1, <2>3, PublishIsGood
  <2>4. ASSUME ResolveByHand PROVE FALSE
    BY <1>1, <2>1, <2>4, ByHandIsGood
  <2>5. ASSUME NEW r \in Reviewers, ResolveThread(r)
        PROVE  run[r].pc = "posted" /\ Cause(r, i)
    BY <1>1, <2>5, ResolveHasCause
  <2>6. ASSUME NEW r \in Reviewers,
               \/ GetPR(r) \/ ListFiles(r) \/ ReadState(r) \/ RunReview(r)
               \/ ReconcileThreads(r) \/ WriteSticky(r) \/ Die(r) \/ Push
        PROVE  FALSE
    BY <2>2, <2>6 DEF GetPR, ListFiles, ReadState, RunReview, ReconcileThreads,
                      WriteSticky, Die, Push
  <2>7. Push => FALSE
    BY <2>2 DEF Push
  <2> QED
    BY <2>3, <2>4, <2>5, <2>6, <2>7 DEF Next, Step
<1> QED
  BY <1>1, Rounds, PTL DEF Spec, ResolvedForCause

-----------------------------------------------------------------------------
(* What is open and what is to come. *)

\* The open threads of r under fp, and the comments a plan has yet to post.
OpenIn(th, fp, r) ==
  {j \in DOMAIN th : th[j].fp = fp /\ th[j].by = Nobody /\ th[j].poster = r}
Left(q, fp) == IF q.pc = "reconciled" THEN CountOf(Comments(q.plan), fp) ELSE 0

\* Open threads and comments to come are no more than the peak.
WithinPeak(th, rs, pk) ==
  Len(th) <= ThreadsPage =>
    \A r \in Reviewers, fp \in Fps :
      Cardinality(OpenIn(th, fp, r)) + Left(rs[r], fp) <= pk[fp]

PeakInv == WithinPeak(threads, run, peak)

\* Both are numbers.
LEMMA OpenIsFinite ==
  ASSUME NEW th \in Seq(Thread), NEW fp, NEW r
  PROVE  IsFiniteSet(OpenIn(th, fp, r)) /\ Cardinality(OpenIn(th, fp, r)) \in Nat
<1>1. Len(th) \in Nat /\ DOMAIN th = 1..Len(th)
  OBVIOUS
<1>2. OpenIn(th, fp, r) \in SUBSET (1..Len(th))
  BY <1>1 DEF OpenIn
<1> QED
  BY <1>1, <1>2, Positions

\* So are the findings of a fingerprint in a list.
LEMMA CountIsNat ==
  ASSUME NEW C, NEW fs \in Seq(C), NEW fp
  PROVE  /\ CountOf(fs, fp) \in Nat
         /\ IsFiniteSet({i \in DOMAIN fs : fs[i].fp = fp})
<1>1. Len(fs) \in Nat /\ DOMAIN fs = 1..Len(fs)
  OBVIOUS
<1>2. {i \in DOMAIN fs : fs[i].fp = fp} \in SUBSET (1..Len(fs))
  BY <1>1
<1> QED
  BY <1>1, <1>2, Positions DEF CountOf

\* So are the comments to come.
LEMMA LeftIsNat ==
  ASSUME NEW q, NEW th, GoodRun(q, th), NEW fp
  PROVE  Left(q, fp) \in Nat
<1>1. CASE q.pc = "reconciled"
  <2>1. Comments(q.plan) \in Seq(Comment)
    BY <1>1, CommentsAre DEF GoodRun, GoodPlan
  <2> QED
    BY <1>1, <2>1, CountIsNat DEF Left
<1>2. CASE q.pc # "reconciled"
  BY <1>2 DEF Left
<1> QED
  BY <1>1, <1>2

\* A step that leaves less to come, and no more threads open.
LEMMA PeakHolds ==
  ASSUME NEW th \in Seq(Thread), NEW more \in Seq(Thread), NEW rs, NEW ss,
         NEW pk \in [Fps -> Nat],
         WithinPeak(th, rs, pk), Len(th) <= Len(more),
         \A r \in Reviewers, fp \in Fps :
           /\ OpenIn(more, fp, r) \subseteq OpenIn(th, fp, r)
           /\ Left(rs[r], fp) \in Nat /\ Left(ss[r], fp) \in Nat
           /\ Left(ss[r], fp) <= Left(rs[r], fp)
  PROVE  WithinPeak(more, ss, pk)
<1> SUFFICES ASSUME Len(more) <= ThreadsPage, NEW r \in Reviewers, NEW fp \in Fps
             PROVE  Cardinality(OpenIn(more, fp, r)) + Left(ss[r], fp) <= pk[fp]
  BY DEF WithinPeak
<1>1. Len(th) <= ThreadsPage
  <2>1. Len(th) \in Nat /\ Len(more) \in Nat /\ ThreadsPage \in Nat
    BY PullRequestAssumption
  <2> QED
    BY <2>1
<1>2. Cardinality(OpenIn(th, fp, r)) + Left(rs[r], fp) <= pk[fp]
  BY <1>1 DEF WithinPeak
<1>3. /\ Cardinality(OpenIn(th, fp, r)) \in Nat /\ Cardinality(OpenIn(more, fp, r)) \in Nat
      /\ Cardinality(OpenIn(more, fp, r)) <= Cardinality(OpenIn(th, fp, r))
  BY OpenIsFinite, FS_Subset
<1>4. Left(rs[r], fp) \in Nat /\ Left(ss[r], fp) \in Nat /\ Left(ss[r], fp) <= Left(rs[r], fp)
      /\ pk[fp] \in Nat
  OBVIOUS
<1> DEFINE a == Cardinality(OpenIn(more, fp, r))
           b == Cardinality(OpenIn(th, fp, r))
           c == Left(ss[r], fp)
           d == Left(rs[r], fp)
           p == pk[fp]
<1> HIDE DEF a, b, c, d, p
<1>5. a \in Nat /\ b \in Nat /\ c \in Nat /\ d \in Nat /\ p \in Nat
      /\ a <= b /\ c <= d /\ b + d <= p
  BY <1>2, <1>3, <1>4 DEF a, b, c, d, p
<1>6. a + c <= p
  BY <1>5
<1> QED
  BY <1>6 DEF a, c, p

\* The comments of a plan are among the findings that matched nothing.
LEMMA CommentsAreNew ==
  ASSUME NEW found \in Founds, NEW live, NEW opts, NEW fp
  PROVE  LET plan == Plan(found, live, opts)
             U == {i \in DOMAIN found : found[i].fp = fp /\ plan.match[i] = 0}
         IN  /\ IsFiniteSet(U)
             /\ CountOf(Comments(plan), fp) <= Cardinality(U)
<1> DEFINE plan == Plan(found, live, opts)
           post == plan.post
           U == {i \in DOMAIN found : found[i].fp = fp /\ plan.match[i] = 0}
           n == Len(found)
           P == {f \in Finding : f.fp = fp}
           m == Match(found, live, opts)
           new == {i \in DOMAIN found : m[i] = 0}
           quiet == {i \in new : found[i].fp \in opts.dismissed \cup opts.handled}
           S1 == new \ quiet
           S2 == {i \in DOMAIN post : post[i].at # Body}
           cs == Comments(plan)
<1>1. n \in Nat /\ DOMAIN found = 1..n /\ \A i \in 1..n : found[i] \in Finding
  BY DEF Founds
<1>2. post = Those(found, S1) /\ plan.match = m
  BY DEF Plan
<1>3. cs = Those(post, S2)
  BY DEF Comments
<1>4. post \in Seq(Finding)
  BY PostIsFound
<1>5. cs \in Seq(Comment)
  BY <1>4, CommentsAre
<1>6. S1 \subseteq {i \in DOMAIN found : m[i] = 0}
  OBVIOUS
<1> HIDE DEF S1, S2, plan, cs, m, n
<1>7. CountOf(cs, fp) = CountIn(cs, P)
  <2>1. \A k \in DOMAIN cs : cs[k] \in Comment
    BY <1>5
  <2>2. \A k \in DOMAIN cs : cs[k] \in P <=> cs[k].fp = fp
    BY <2>1 DEF Comment, Finding
  <2>3. {k \in DOMAIN cs : cs[k].fp = fp} = {k \in DOMAIN cs : cs[k] \in P}
    BY <2>2
  <2> QED
    BY <2>3 DEF CountOf, CountIn
<1>8. CountIn(cs, P) <= CountIn(post, P)
  <2> DEFINE l == Len(post)
             A == {k \in S2 \cap 1..l : post[k] \in P}
             B == {k \in DOMAIN post : post[k] \in P}
  <2>1. l \in Nat /\ DOMAIN post = 1..l
    BY <1>4
  <2> HIDE DEF l, P
  <2>2. CountIn(cs, P) = Cardinality(A)
    BY <1>3, <2>1, ThoseCount
  <2>3. A \subseteq B /\ B \in SUBSET (1..l)
    BY <2>1
  <2>4. IsFiniteSet(B)
    BY <2>1, <2>3, Positions
  <2>5. Cardinality(A) <= Cardinality(B)
    BY <2>3, <2>4, FS_Subset
  <2> QED
    BY <2>2, <2>5 DEF CountIn
<1>9. CountIn(post, P) = Cardinality({i \in S1 \cap 1..n : found[i] \in P})
  <2> HIDE DEF P
  <2> QED
    BY <1>1, <1>2, ThoseCount
<1>10. {i \in S1 \cap 1..n : found[i] \in P} \subseteq U
  BY <1>1, <1>2, <1>6
<1>11. IsFiniteSet(U)
  <2>1. U \in SUBSET (1..n)
    BY <1>1
  <2> QED
    BY <1>1, <2>1, Positions
<1>12. CountIn(post, P) <= Cardinality(U)
  <2> HIDE DEF U, P
  <2> QED
    BY <1>9, <1>10, <1>11, FS_Subset
<1>13. CountOf(cs, fp) \in Nat /\ CountIn(post, P) \in Nat /\ Cardinality(U) \in Nat
  <2>1. CountOf(cs, fp) \in Nat
    BY <1>5, CountIsNat
  <2>2. Cardinality(U) \in Nat
    BY <1>11, FS_CardinalityType
  <2>3. {k \in DOMAIN post : post[k] \in P} \in SUBSET (1..Len(post)) /\ Len(post) \in Nat
    BY <1>4
  <2>4. CountIn(post, P) \in Nat
    BY <2>3, Positions DEF CountIn
  <2> QED
    BY <2>1, <2>2, <2>4
<1>14. CountOf(cs, fp) <= Cardinality(U)
  BY <1>7, <1>8, <1>12, <1>13
<1> QED
  BY <1>11, <1>14 DEF cs, plan

-----------------------------------------------------------------------------
(* A plan within the peak. *)

\* With the threads on one page, what is open of a fingerprint and what a plan
\* adds are no more than what the run found of it, or nothing is added.
LEMMA PlanWithinFound ==
  ASSUME threads \in Seq(Thread), Len(threads) <= ThreadsPage,
         NEW found \in Founds, NEW opts, NEW fp \in Fps, NEW r
  PROVE  LET plan == Plan(found, LiveThreads, opts)
             o == Cardinality(OpenIn(threads, fp, r))
             c == CountOf(Comments(plan), fp)
         IN  c = 0 \/ o + c <= CountOf(found, fp)
<1> DEFINE plan == Plan(found, LiveThreads, opts)
           live == LiveThreads
           m == plan.match
           n == Len(found)
           O == OpenIn(threads, fp, r)
           K == {i \in DOMAIN found : found[i].fp = fp}
           U == {i \in DOMAIN found : found[i].fp = fp /\ m[i] = 0}
           c == CountOf(Comments(plan), fp)
<1>1. PICK l \in 0..Len(threads) :
        DOMAIN live = 1..l /\ MatchFacts(found, live, opts, n, l, m)
  BY PlanMatches
<1>2. PICK k \in 0..Len(threads) :
        /\ DOMAIN live = 1..k
        /\ Len(threads) <= ThreadsPage => k = Len(threads)
        /\ \A j \in 1..k : /\ live[j].fp = threads[j].fp
                           /\ live[j].resolved <=> threads[j].by # Nobody
  BY LiveAre
<1>3. DOMAIN live = DOMAIN threads
  BY <1>2
<1>4. \A j \in DOMAIN threads : /\ live[j].fp = threads[j].fp
                                /\ live[j].resolved <=> threads[j].by # Nobody
  BY <1>2, <1>3
<1>5. IsFiniteSet(U) /\ c <= Cardinality(U)
  BY CommentsAreNew
<1>6. c \in Nat
  <2>1. Comments(plan) \in Seq(Comment)
    BY PostIsFound, CommentsAre
  <2> HIDE DEF plan
  <2> QED
    BY <2>1, CountIsNat
<1>7. found \in Seq(Finding) /\ n \in Nat /\ DOMAIN found = 1..n
  BY DEF Founds
<1>8. IsFiniteSet(K)
  <2>1. K \in SUBSET (1..n)
    BY <1>7
  <2> QED
    BY <1>7, <2>1, Positions
<1>9. IsFiniteSet(O) /\ Cardinality(O) \in Nat
  BY OpenIsFinite
<1>10. U \subseteq K
  OBVIOUS
<1> HIDE DEF plan, live, m, n, c
<1>11. CASE U = {}
  <2>1. Cardinality(U) = 0
    BY <1>11, FS_EmptySet
  <2>2. c = 0
    BY <1>5, <1>6, <2>1
  <2> QED
    BY <2>2 DEF c, plan
<1>12. CASE U # {}
  <2> DEFINE f == [j \in O |-> CHOOSE i \in 1..n : m[i] = j /\ found[i].fp = fp]
  <2>1. ASSUME NEW j \in O
        PROVE  \E i \in 1..n : m[i] = j /\ found[i].fp = fp
    <3>1. PICK u \in 1..n : found[u].fp = fp /\ m[u] = 0
      BY <1>7, <1>12
    <3>2. j \in Open(live) /\ live[j].fp = fp
      BY <1>3, <1>4 DEF OpenIn, Open
    <3> QED
      BY <1>1, <3>1, <3>2 DEF MatchFacts
  <2>2. ASSUME NEW j \in O
        PROVE  f[j] \in 1..n /\ m[f[j]] = j /\ found[f[j]].fp = fp
    BY <2>1, <2>2
  <2>3. ASSUME NEW j \in O PROVE f[j] \in K \ U
    <3>1. j # 0
      <4>1. j \in DOMAIN live /\ DOMAIN live = 1..l
        BY <1>1, <1>3 DEF OpenIn
      <4> QED
        BY <1>1, <4>1
    <3> HIDE DEF f
    <3> QED
      BY <1>7, <2>2, <3>1
  <2>4. f \in Injection(O, K \ U)
    <3>1. f \in [O -> K \ U]
      BY <2>3
    <3>2. \A i, j \in O : f[i] = f[j] => i = j
      <4> HIDE DEF f
      <4> QED
        BY <2>2
    <3> HIDE DEF f, O, K, U
    <3> QED
      BY <3>1, <3>2 DEF Injection, IsInjective
  <2> HIDE DEF f, O, K, U
  <2>5. IsFiniteSet(K \ U) /\ Cardinality(K \ U) = Cardinality(K) - Cardinality(U)
    <3>1. K \cap U = U
      BY <1>10
    <3> QED
      BY <1>8, <3>1, FS_Difference
  <2>6. Cardinality(O) <= Cardinality(K \ U)
    BY <2>4, <2>5, FS_Injection
  <2>7. Cardinality(K) \in Nat /\ Cardinality(U) \in Nat
    BY <1>5, <1>8, FS_CardinalityType
  <2>8. Cardinality(O) + c <= Cardinality(K)
    BY <1>5, <1>6, <1>9, <2>5, <2>6, <2>7
  <2> QED
    BY <2>8 DEF O, K, c, CountOf, plan
<1> QED
  BY <1>11, <1>12

\* ReconcileThreads raises the peak by what it plans to post.
LEMMA ReconcileWithinPeak ==
  ASSUME RoundInv, PeakInv, NEW r \in Reviewers, ReconcileThreads(r)
  PROVE  WithinPeak(threads, run', peak')
<1>1. PICK same : run' = [run EXCEPT ![r] =
           Matched(run[r], same, Plan(run[r].found, LiveThreads, OptsOf(r, same)))]
  BY ReconcileMatches
<1> DEFINE plan == Plan(run[r].found, LiveThreads, OptsOf(r, same))
           e == Matched(run[r], same, plan)
<1>2. /\ threads \in Seq(Thread) /\ run[r].found \in Founds /\ DOMAIN run = Reviewers
      /\ peak \in [Fps -> 0..MaxFindings] /\ \A q \in Reviewers : GoodRun(run[q], threads)
  BY DEF RoundInv, GoodRun, ReconcileThreads
<1>3. run' = [run EXCEPT ![r] = e]
  BY <1>1
<1>4. e.pc = "reconciled" /\ e.plan = plan
  BY DEF Matched
<1> SUFFICES ASSUME Len(threads) <= ThreadsPage, NEW q \in Reviewers, NEW fp \in Fps
             PROVE  Cardinality(OpenIn(threads, fp, q)) + Left(run'[q], fp) <= peak'[fp]
  BY DEF WithinPeak
<1> DEFINE o == Cardinality(OpenIn(threads, fp, q))
<1>5. o + Left(run[q], fp) <= peak[fp] /\ o \in Nat /\ Left(run[q], fp) \in Nat
  BY <1>2, OpenIsFinite, LeftIsNat DEF PeakInv, WithinPeak
<1>6. /\ peak'[fp] >= peak[fp] /\ peak'[fp] >= CountOf(run[r].found, fp)
      /\ peak[fp] \in Int /\ peak'[fp] \in Int
  BY <1>2, PeakStays
<1>7. CASE q # r
  <2>1. run'[q] = run[q]
    BY <1>3, <1>7
  <2> HIDE DEF o
  <2>2. o + Left(run'[q], fp) <= peak'[fp]
    BY <1>5, <1>6, <2>1
  <2> QED
    BY <2>2 DEF o
<1>8. CASE q = r
  <2> DEFINE c == CountOf(Comments(plan), fp)
             k == CountOf(run[r].found, fp)
  <2>1. Left(run'[q], fp) = c
    <3>1. run'[q] = e
      BY <1>2, <1>3, <1>8
    <3> HIDE DEF e, plan
    <3> QED
      BY <1>4, <3>1 DEF Left
  <2>2. c = 0 \/ o + c <= k
    BY <1>2, PlanWithinFound
  <2>3. c \in Nat
    <3>1. Comments(plan) \in Seq(Comment)
      BY <1>2, PostIsFound, CommentsAre
    <3> HIDE DEF plan
    <3> QED
      BY <3>1, CountIsNat
  <2>4. k \in Nat
    BY <1>2, CountIsNat DEF Founds
  <2> HIDE DEF o, c, plan
  <2>5. o + c <= peak'[fp]
    <3>1. peak'[fp] >= k /\ o <= peak[fp]
      BY <1>5, <1>6
    <3> HIDE DEF k
    <3> QED
      BY <1>5, <1>6, <2>2, <2>3, <2>4, <3>1
  <2> QED
    BY <2>1, <2>5 DEF o
<1> QED
  BY <1>7, <1>8

-----------------------------------------------------------------------------
(* The threads within the peak. *)

\* What stirring leaves to come.
LEMMA StirLeaves ==
  ASSUME NEW q, NEW th, GoodRun(q, th), NEW fp
  PROVE  Left(Stir(q), fp) = Left(q, fp)
<1>1. q.pc \in {"reconciled", "posted"} => RunFields \subseteq DOMAIN q
  BY DEF GoodRun, GoodPlan
<1> QED
  BY <1>1, StirKeeps DEF Left

\* A step that neither posts nor plans.
LEMMA OneMovesWithin ==
  ASSUME RoundInv, PeakInv, NEW r \in Reviewers, NEW e, GoodRun(e, threads),
         e.pc # "reconciled", run' = [run EXCEPT ![r] = e]
  PROVE  WithinPeak(threads, run', peak)
<1>1. /\ threads \in Seq(Thread) /\ DOMAIN run = Reviewers /\ peak \in [Fps -> Nat]
      /\ \A q \in Reviewers : GoodRun(run[q], threads)
  BY PullRequestAssumption DEF RoundInv
<1>2. Len(threads) <= Len(threads)
  <2>1. Len(threads) \in Nat
    BY <1>1
  <2> QED
    BY <2>1
<1>3. ASSUME NEW q \in Reviewers, NEW fp \in Fps
      PROVE  /\ OpenIn(threads, fp, q) \subseteq OpenIn(threads, fp, q)
             /\ Left(run[q], fp) \in Nat /\ Left(run'[q], fp) \in Nat
             /\ Left(run'[q], fp) <= Left(run[q], fp)
  <2>1. Left(run[q], fp) \in Nat /\ Left(e, fp) = 0
    BY <1>1, LeftIsNat DEF Left
  <2>2. run'[q] = e \/ run'[q] = run[q]
    BY <1>1
  <2> QED
    BY <2>1, <2>2
<1>4. WithinPeak(threads, run, peak)
  BY DEF PeakInv
<1> QED
  BY <1>1, <1>2, <1>3, <1>4, PeakHolds

\* A step that resolves threads.
LEMMA ResolvingWithin ==
  ASSUME RoundInv, PeakInv, NEW more \in Seq(Thread), DOMAIN more = DOMAIN threads,
         Grown(threads, more),
         \A j \in DOMAIN threads : more[j].by = Nobody => threads[j].by = Nobody,
         NEW rs, \A q \in Reviewers, fp \in Fps : Left(rs[q], fp) = Left(run[q], fp)
  PROVE  WithinPeak(more, rs, peak)
<1>1. /\ threads \in Seq(Thread) /\ peak \in [Fps -> Nat]
      /\ \A q \in Reviewers : GoodRun(run[q], threads)
  BY PullRequestAssumption DEF RoundInv
<1>2. Len(threads) <= Len(more)
  <2>1. Len(threads) \in Nat /\ Len(more) \in Nat
        /\ DOMAIN threads = 1..Len(threads) /\ DOMAIN more = 1..Len(more)
    BY <1>1
  <2>2. 1..Len(threads) = 1..Len(more)
    BY <2>1
  <2>3. Len(threads) \in 1..Len(more) \/ Len(threads) = 0
    BY <2>1, <2>2
  <2> QED
    BY <2>1, <2>3
<1>3. ASSUME NEW q \in Reviewers, NEW fp \in Fps
      PROVE  /\ OpenIn(more, fp, q) \subseteq OpenIn(threads, fp, q)
             /\ Left(run[q], fp) \in Nat /\ Left(rs[q], fp) \in Nat
             /\ Left(rs[q], fp) <= Left(run[q], fp)
  <2>1. Left(run[q], fp) \in Nat /\ Left(rs[q], fp) = Left(run[q], fp)
    BY <1>1, LeftIsNat
  <2>2. OpenIn(more, fp, q) \subseteq OpenIn(threads, fp, q)
    BY DEF OpenIn, Grown
  <2>3. Left(rs[q], fp) <= Left(run[q], fp)
    BY <2>1
  <2> QED
    BY <2>1, <2>2, <2>3
<1>4. WithinPeak(threads, run, peak)
  BY DEF PeakInv
<1> QED
  BY <1>1, <1>2, <1>3, <1>4, PeakHolds

\* Posting opens no more threads than there were comments to come.
LEMMA PostingOpens ==
  ASSUME NEW th \in Seq(Thread), NEW r \in Reviewers, NEW comments \in Seq(Comment),
         NEW n \in 0..Len(comments), NEW tail \in Seq(Comment), Len(tail) = n,
         \A k \in 1..n : tail[k] = comments[Len(comments) - n + k],
         NEW fp, NEW q
  PROVE  LET more == th \o Posted(r, tail)
         IN  /\ q # r => OpenIn(more, fp, q) = OpenIn(th, fp, q)
             /\ Cardinality(OpenIn(more, fp, q))
                  <= Cardinality(OpenIn(th, fp, q)) + CountOf(comments, fp)
<1> DEFINE p == Posted(r, tail)
           more == th \o p
           l == Len(th)
           c == Len(comments)
           O == OpenIn(th, fp, q)
           M == OpenIn(more, fp, q)
           K == {i \in DOMAIN comments : comments[i].fp = fp}
           D == M \ O
           f == [x \in D |-> x - l + (c - n)]
<1>1. l \in Nat /\ c \in Nat /\ DOMAIN th = 1..l /\ DOMAIN comments = 1..c
      /\ n \in Nat /\ n <= c
  <2>1. l \in Nat /\ DOMAIN th = 1..l
    OBVIOUS
  <2>2. c \in Nat /\ DOMAIN comments = 1..c
    OBVIOUS
  <2> QED
    BY <2>1, <2>2
<1>2. /\ p \in Seq(Thread) /\ Len(p) = n
      /\ \A k \in 1..n : p[k].fp = tail[k].fp /\ p[k].poster = r
  BY PostedAre
<1>3. /\ more \in Seq(Thread) /\ DOMAIN more = 1..(l + n)
      /\ \A j \in 1..l : more[j] = th[j]
      /\ \A k \in 1..n : more[l + k] = p[k]
  BY <1>2, AppendGrows
<1> HIDE DEF p, more, l, c
<1>4. \A j \in 1..(l + n) : j \in 1..l \/ (j - l \in 1..n /\ j = l + (j - l) /\ j \notin 1..l)
  BY <1>1
<1>5. O \subseteq M
  <2>1. \A j \in 1..l : j \in 1..(l + n)
    BY <1>1
  <2> QED
    BY <1>1, <1>3, <2>1 DEF OpenIn
<1>6. ASSUME NEW x \in D
      PROVE  /\ x \in Int /\ x - l \in 1..n /\ more[x] = p[x - l]
             /\ comments[x - l + (c - n)].fp = fp /\ x - l + (c - n) \in 1..c /\ q = r
  <2>1. x \in 1..(l + n) /\ more[x].fp = fp /\ more[x].by = Nobody /\ more[x].poster = q
    BY <1>3 DEF OpenIn
  <2>2. x \notin 1..l
    <3>1. CASE x \in 1..l
      <4>1. more[x] = th[x]
        BY <1>3, <3>1
      <4>2. x \in O
        BY <1>1, <2>1, <3>1, <4>1 DEF OpenIn
      <4> QED
        BY <4>2
    <3> QED
      BY <3>1
  <2>3. x - l \in 1..n /\ x = l + (x - l)
    BY <1>4, <2>1, <2>2
  <2>4. more[x] = p[x - l]
    BY <1>3, <2>3
  <2>5. c - n + (x - l) = x - l + (c - n) /\ x - l + (c - n) \in 1..c
    BY <1>1, <2>1, <2>3
  <2>6. tail[x - l] = comments[x - l + (c - n)]
    <3>1. tail[x - l] = comments[c - n + (x - l)]
      BY <2>3 DEF c
    <3> QED
      BY <2>5, <3>1
  <2>7. more[x].fp = comments[x - l + (c - n)].fp /\ more[x].poster = r
    BY <1>2, <2>3, <2>4, <2>6
  <2>8. x \in Int
    BY <1>1, <2>1
  <2> QED
    BY <2>1, <2>3, <2>4, <2>5, <2>7, <2>8
<1>7. q # r => M = O
  BY <1>5, <1>6
<1>8. IsFiniteSet(K) /\ Cardinality(K) = CountOf(comments, fp)
  BY CountIsNat DEF CountOf
<1>9. f \in Injection(D, K)
  <2>1. f \in [D -> K]
    BY <1>1, <1>6
  <2>2. \A x, y \in D : f[x] = f[y] => x = y
    <3> SUFFICES ASSUME NEW x \in D, NEW y \in D, f[x] = f[y] PROVE x = y
      OBVIOUS
    <3>1. x \in Int /\ y \in Int
      BY <1>6
    <3>2. x - l + (c - n) = y - l + (c - n)
      OBVIOUS
    <3> HIDE DEF f, D
    <3> QED
      BY <1>1, <3>1, <3>2
  <2> HIDE DEF f, D, K
  <2> QED
    BY <2>1, <2>2 DEF Injection, IsInjective
<1>10. IsFiniteSet(O) /\ IsFiniteSet(M) /\ Cardinality(O) \in Nat /\ Cardinality(M) \in Nat
  BY <1>3, OpenIsFinite
<1>11. Cardinality(M) = Cardinality(O) + Cardinality(D)
  <2>1. Cardinality(D) = Cardinality(M) - Cardinality(M \cap O)
    <3> HIDE DEF M, O
    <3> QED
      BY <1>10, FS_Difference
  <2>2. M \cap O = O
    BY <1>5
  <2>3. Cardinality(D) = Cardinality(M) - Cardinality(O)
    BY <2>1, <2>2
  <2> HIDE DEF D, M, O
  <2> QED
    BY <1>10, <2>3
<1>12. Cardinality(D) <= Cardinality(K)
  <2> HIDE DEF D, K, f
  <2> QED
    BY <1>8, <1>9, FS_Injection
<1>13. Cardinality(D) \in Nat /\ Cardinality(K) \in Nat
  <2>1. IsFiniteSet(D)
    <3> HIDE DEF D, K, f
    <3> QED
      BY <1>8, <1>9, FS_Injection
  <2> HIDE DEF D, K
  <2> QED
    BY <1>8, <2>1, FS_CardinalityType
<1>14. Cardinality(M) <= Cardinality(O) + CountOf(comments, fp)
  <2> HIDE DEF D, K, M, O
  <2> QED
    BY <1>8, <1>10, <1>11, <1>12, <1>13
<1> QED
  BY <1>7, <1>14 DEF more, p

\* PublishReview posts what was to come.
LEMMA PublishWithinPeak ==
  ASSUME RoundInv, PeakInv, NEW r \in Reviewers, PublishReview(r)
  PROVE  WithinPeak(threads', run', peak)
<1> DEFINE comments == Comments(run[r].plan)
<1>1. PICK n \in 0..Len(comments), tail \in Seq(Comment) :
        /\ comments \in Seq(Comment)
        /\ tail \in Seq(Comment) /\ Len(tail) = n
        /\ \A k \in 1..n : tail[k] = comments[Len(comments) - n + k]
        /\ threads' = threads \o Posted(r, tail)
        /\ run' = [q \in Reviewers |->
             IF q = r THEN Posting(run[r], n = Len(comments))
             ELSE IF n > 0 THEN Stir(run[q]) ELSE run[q]]
  BY PublishPosts, Zenon
<1>2. /\ threads \in Seq(Thread) /\ peak \in [Fps -> Nat]
      /\ \A q \in Reviewers : GoodRun(run[q], threads)
  BY PullRequestAssumption DEF RoundInv
<1>3. run[r].pc = "reconciled" /\ RunFields \subseteq DOMAIN run[r]
  BY <1>2 DEF PublishReview, GoodRun, GoodPlan
<1> HIDE DEF comments
<1> SUFFICES ASSUME Len(threads') <= ThreadsPage, NEW q \in Reviewers, NEW fp \in Fps
             PROVE  Cardinality(OpenIn(threads', fp, q)) + Left(run'[q], fp) <= peak[fp]
  BY DEF WithinPeak
<1>4. Len(threads) <= ThreadsPage
  <2>1. Posted(r, tail) \in Seq(Thread) /\ Len(Posted(r, tail)) = n
    BY <1>1, PostedAre
  <2>2. Len(threads') = Len(threads) + n
    BY <1>1, <1>2, <2>1, AppendGrows
  <2>3. Len(threads) \in Nat /\ n \in Nat /\ ThreadsPage \in Nat
    <3>1. Len(threads) \in Nat
      BY <1>2
    <3> QED
      BY <1>1, <3>1, PullRequestAssumption
  <2> QED
    BY <2>2, <2>3
<1> DEFINE a == Cardinality(OpenIn(threads', fp, q))
           b == Cardinality(OpenIn(threads, fp, q))
           d == Left(run[q], fp)
           p == peak[fp]
<1>5. b + d <= p /\ b \in Nat /\ d \in Nat /\ p \in Nat
  <2>1. b + d <= p
    BY <1>4 DEF PeakInv, WithinPeak
  <2>2. b \in Nat /\ d \in Nat /\ p \in Nat
    BY <1>2, OpenIsFinite, LeftIsNat
  <2> QED
    BY <2>1, <2>2
<1>6. /\ q # r => OpenIn(threads', fp, q) = OpenIn(threads, fp, q)
      /\ a <= b + CountOf(comments, fp)
  <2> DEFINE more == threads \o Posted(r, tail)
  <2>1. /\ q # r => OpenIn(more, fp, q) = OpenIn(threads, fp, q)
        /\ Cardinality(OpenIn(more, fp, q)) <= b + CountOf(comments, fp)
    BY <1>1, <1>2, PostingOpens
  <2>2. threads' = more
    BY <1>1
  <2> HIDE DEF more
  <2> QED
    BY <2>1, <2>2
<1>7. CASE q = r
  <2>1. d = CountOf(comments, fp)
    BY <1>3, <1>7 DEF Left, comments
  <2>2. run'[q] = Posting(run[r], n = Len(comments))
    BY <1>1, <1>7
  <2>3. run'[q].pc = "posted"
    <3> DEFINE full == n = Len(comments)
    <3>1. full \in BOOLEAN
      OBVIOUS
    <3> HIDE DEF full
    <3>2. Posting(run[r], full).pc = "posted"
      BY <1>3, <3>1, PostingKeeps
    <3> QED
      BY <2>2, <3>2 DEF full
  <2>4. Left(run'[q], fp) = 0
    BY <2>3 DEF Left
  <2>5. a \in Nat
    <3>1. threads' \in Seq(Thread)
      BY PublishIsGood
    <3>2. Len(threads') \in Nat /\ OpenIn(threads', fp, q) \in SUBSET (1..Len(threads'))
      BY <3>1 DEF OpenIn
    <3> QED
      BY <3>2, Positions
  <2> HIDE DEF a, b, d, p
  <2>6. a + 0 <= p
    BY <1>5, <1>6, <2>1, <2>5
  <2> QED
    BY <2>4, <2>6 DEF a, p
<1>8. CASE q # r
  <2>1. run'[q] = Stir(run[q]) \/ run'[q] = run[q]
    BY <1>1, <1>8
  <2>2. Left(run'[q], fp) = d
    BY <1>2, <2>1, StirLeaves
  <2> HIDE DEF d
  <2> QED
    BY <1>5, <1>6, <1>8, <2>2 DEF d
<1> QED
  BY <1>7, <1>8

-----------------------------------------------------------------------------
(* Findings have identity. *)

\* The steps of a run that neither plan nor touch a thread.
Aside(r) == \/ GetPR(r) \/ ListFiles(r) \/ ReadState(r) \/ RunReview(r)
            \/ WriteSticky(r) \/ Die(r)

\* They move one run, to a place that is neither reconciled nor posted.
LEMMA AsideMoves ==
  ASSUME RoundInv, NEW r \in Reviewers, Aside(r)
  PROVE  /\ threads' = threads /\ peak' = peak
         /\ RunsAreGood(run', threads)
         /\ \E e : run' = [run EXCEPT ![r] = e] /\ e.pc \notin {"reconciled", "posted"}
<1>1. threads' = threads /\ peak' = peak
  BY Zenon DEF Aside, GetPR, ListFiles, ReadState, RunReview, WriteSticky, Die
<1>2. RunsAreGood(run', threads)
  BY GetPRIsGood, ListFilesIsGood, ReadStateIsGood, RunReviewIsGood, WriteIsGood, DieIsGood
  DEF Aside
<1> DEFINE Moves == \E e : run' = [run EXCEPT ![r] = e] /\ e.pc \notin {"reconciled", "posted"}
<1>3. ASSUME GetPR(r) PROVE Moves
  <2> DEFINE e == [pc |-> "opened", tip |-> tip, head |-> code]
  <2>1. e.pc = "opened"
    OBVIOUS
  <2>2. run' = [run EXCEPT ![r] = e]
    BY <1>3 DEF GetPR
  <2> HIDE DEF e
  <2> QED
    BY <2>1, <2>2
<1>4. ASSUME ListFiles(r) PROVE Moves
  <2> DEFINE q == run[r]
             e(base, post) == [pc |-> "listed", tip |-> q.tip, head |-> q.head,
                               listed |-> code, base |-> base, post |-> post]
  <2>1. \A base, post : e(base, post).pc = "listed"
    OBVIOUS
  <2>2. \E base, post : run' = [run EXCEPT ![r] = e(base, post)]
    BY <1>4, Zenon DEF ListFiles
  <2> HIDE DEF e
  <2> QED
    BY <2>1, <2>2
<1>5. ASSUME ReadState(r) PROVE Moves
  <2> DEFINE q == run[r]
             prev == ReadSticky(sticky[r])
             e(delta, unchanged) ==
               [pc |-> "read", tip |-> q.tip, head |-> q.head, listed |-> q.listed,
                base |-> q.base, post |-> q.post, prev |-> prev,
                delta |-> delta, unchanged |-> unchanged]
  <2>1. \A delta, unchanged : e(delta, unchanged).pc = "read"
    OBVIOUS
  <2>2. \E delta, unchanged : run' = [run EXCEPT ![r] = e(delta, unchanged)]
    BY <1>5, Zenon DEF ReadState
  <2> HIDE DEF e
  <2> QED
    BY <2>1, <2>2
<1>6. ASSUME RunReview(r) PROVE Moves
  <2> DEFINE q == run[r]
             e(reviewed, found) ==
               [pc |-> "reviewed", tip |-> q.tip, head |-> q.head, listed |-> q.listed,
                base |-> q.base, post |-> q.post, prev |-> q.prev,
                unchanged |-> q.unchanged, reviewed |-> reviewed, found |-> found]
  <2>1. \A reviewed, found : e(reviewed, found).pc = "reviewed"
    OBVIOUS
  <2>2. \E reviewed, found : run' = [run EXCEPT ![r] = e(reviewed, found)]
    BY <1>6, Zenon DEF RunReview
  <2> HIDE DEF e
  <2> QED
    BY <2>1, <2>2
<1>7. ASSUME WriteSticky(r) \/ Die(r) PROVE Moves
  <2>1. run' = [run EXCEPT ![r] = Idle]
    BY <1>7 DEF WriteSticky, Die
  <2>2. Idle.pc = "idle"
    BY DEF Idle
  <2> QED
    BY <2>1, <2>2
<1> HIDE DEF Moves
<1>8. Moves
  BY <1>3, <1>4, <1>5, <1>6, <1>7 DEF Aside
<1> QED
  BY <1>1, <1>2, <1>8 DEF Moves

\* At most what has been raised is open, from the start.
LEMMA PeakInit == Init => PeakInv
<1> SUFFICES ASSUME Init, NEW r \in Reviewers, NEW fp \in Fps
             PROVE  Cardinality(OpenIn(threads, fp, r)) + Left(run[r], fp) <= peak[fp]
  BY DEF PeakInv, WithinPeak
<1>1. threads = <<>> /\ run[r] = Idle /\ peak[fp] = 0
  BY DEF Init
<1>2. OpenIn(threads, fp, r) = {}
  BY <1>1 DEF OpenIn
<1>3. Left(run[r], fp) = 0
  BY <1>1 DEF Left, Idle
<1>4. Cardinality(OpenIn(threads, fp, r)) = 0
  BY <1>2, FS_EmptySet
<1> QED
  BY <1>1, <1>3, <1>4

\* Every step keeps it.
LEMMA PeakStep == RoundInv /\ PeakInv /\ [Next]_vars => PeakInv'
<1> SUFFICES ASSUME RoundInv, PeakInv, [Next]_vars PROVE WithinPeak(threads', run', peak')
  BY DEF PeakInv
<1>0. /\ threads \in Seq(Thread) /\ DOMAIN run = Reviewers
      /\ \A q \in Reviewers : GoodRun(run[q], threads)
  BY DEF RoundInv
<1> DEFINE Goal == WithinPeak(threads', run', peak')
<1>1. ASSUME NEW r \in Reviewers, Aside(r) PROVE Goal
  <2>1. /\ threads' = threads /\ peak' = peak /\ RunsAreGood(run', threads)
        /\ \E e : run' = [run EXCEPT ![r] = e] /\ e.pc \notin {"reconciled", "posted"}
    BY <1>1, AsideMoves
  <2>2. PICK e : run' = [run EXCEPT ![r] = e] /\ e.pc \notin {"reconciled", "posted"}
    BY <2>1
  <2>3. run'[r] = e
    BY <1>0, <2>2
  <2>4. GoodRun(e, threads)
    BY <2>1, <2>3 DEF RunsAreGood
  <2>5. WithinPeak(threads, run', peak)
    BY <2>2, <2>4, OneMovesWithin
  <2> QED
    BY <2>1, <2>5
<1>2. ASSUME NEW r \in Reviewers, ReconcileThreads(r) PROVE Goal
  <2>1. threads' = threads
    BY <1>2, Zenon DEF ReconcileThreads
  <2>2. WithinPeak(threads, run', peak')
    BY <1>2, ReconcileWithinPeak
  <2> QED
    BY <2>1, <2>2
<1>3. ASSUME NEW r \in Reviewers, PublishReview(r) PROVE Goal
  <2>1. peak' = peak
    BY <1>3, Zenon DEF PublishReview
  <2>2. WithinPeak(threads', run', peak)
    BY <1>3, PublishWithinPeak
  <2> QED
    BY <2>1, <2>2
<1>4. ASSUME NEW r \in Reviewers, ResolveThread(r) PROVE Goal
  <2>1. peak' = peak /\ run[r].pc = "posted"
    BY <1>4 DEF ResolveThread
  <2>2. PICK j \in run[r].plan.resolve :
           /\ j \in DOMAIN threads
           /\ \/ /\ threads' = IF threads[j].by = Nobody
                               THEN [threads EXCEPT ![j].by = Cite] ELSE threads
                 /\ run' = [q \in Reviewers |->
                      IF q = r THEN Unresolve(run[r], j) ELSE Stir(run[q])]
              \/ /\ threads' = threads
                 /\ run' = [run EXCEPT ![r] = Stir(Unresolve(run[r], j))]
    BY <1>4, ResolveResolves
  <2>3. threads' \in Seq(Thread) /\ Grown(threads, threads')
    BY <1>4, ResolveIsGood
  <2>4. /\ DOMAIN threads' = DOMAIN threads
        /\ \A i \in DOMAIN threads : threads'[i].by = Nobody => threads[i].by = Nobody
    <3> DEFINE more == [threads EXCEPT ![j].by = Cite]
    <3>1. /\ DOMAIN more = DOMAIN threads /\ more[j].by = Cite
          /\ \A i \in DOMAIN threads : i # j => more[i] = threads[i]
      BY <1>0, <2>2, ResolveGrows
    <3>2. Cite # Nobody
      BY DEF Cite, Nobody
    <3>3. threads' = more \/ threads' = threads
      BY <2>2
    <3> HIDE DEF more
    <3> QED
      BY <3>1, <3>2, <3>3
  <2>5. ASSUME NEW q \in Reviewers, NEW fp \in Fps
        PROVE  Left(run'[q], fp) = Left(run[q], fp)
    <3>1. Left(Stir(run[q]), fp) = Left(run[q], fp)
      BY <1>0, StirLeaves
    <3>2. Unresolve(run[r], j).pc = "posted"
      BY <1>0, <2>1, UnresolveKeeps DEF GoodRun, GoodPlan
    <3>3. Stir(Unresolve(run[r], j)).pc = "posted"
      <4>1. GoodRun(Unresolve(run[r], j), threads)
        BY <1>0, <2>1, UnresolveIsGood
      <4>2. RunFields \subseteq DOMAIN Unresolve(run[r], j)
        BY <3>2, <4>1 DEF GoodRun, GoodPlan
      <4> QED
        BY <3>2, <4>2, StirKeeps
    <3>4. \/ run'[q] = run[q] \/ run'[q] = Stir(run[q])
          \/ q = r /\ run'[q] = Unresolve(run[r], j)
          \/ q = r /\ run'[q] = Stir(Unresolve(run[r], j))
      BY <1>0, <2>2
    <3>5. q = r => Left(run[q], fp) = 0
      BY <2>1 DEF Left
    <3> QED
      BY <3>1, <3>2, <3>3, <3>4, <3>5 DEF Left
  <2>6. WithinPeak(threads', run', peak)
    BY <2>3, <2>4, <2>5, ResolvingWithin
  <2> QED
    BY <2>1, <2>6
<1>5. ASSUME ResolveByHand PROVE Goal
  <2>1. peak' = peak /\ run' = Stirred(run)
    BY <1>5 DEF ResolveByHand
  <2>2. PICK j \in DOMAIN threads : threads' = [threads EXCEPT ![j].by = Person]
    BY <1>5 DEF ResolveByHand
  <2>3. /\ threads' \in Seq(Thread) /\ Grown(threads, threads')
        /\ DOMAIN threads' = DOMAIN threads /\ threads'[j].by = Person
        /\ \A i \in DOMAIN threads : i # j => threads'[i] = threads[i]
    BY <1>0, <2>2, ResolveGrows
  <2>4. \A i \in DOMAIN threads : threads'[i].by = Nobody => threads[i].by = Nobody
    <3>1. Person # Nobody
      BY DEF Person, Nobody
    <3> QED
      BY <2>3, <3>1
  <2>5. \A q \in Reviewers, fp \in Fps : Left(run'[q], fp) = Left(run[q], fp)
    <3>1. \A q \in Reviewers : run'[q] = Stir(run[q])
      BY <2>1, StirredIs
    <3> QED
      BY <1>0, <3>1, StirLeaves
  <2>6. WithinPeak(threads', run', peak)
    BY <2>3, <2>4, <2>5, ResolvingWithin
  <2> QED
    BY <2>1, <2>6
<1>6. CASE Push \/ UNCHANGED vars
  <2>1. threads' = threads /\ run' = run /\ peak' = peak
    BY <1>6 DEF Push, vars
  <2> QED
    BY <2>1 DEF PeakInv
<1> QED
  BY <1>1, <1>2, <1>3, <1>4, <1>5, <1>6 DEF Next, Step, Aside

\* The open threads are within the peak, the comments to come not counted.
LEMMA PeakBounds == RoundInv /\ PeakInv => NoDuplicate
<1> SUFFICES ASSUME RoundInv, PeakInv, Len(threads) <= ThreadsPage,
                    NEW r \in Reviewers, NEW fp \in Fps
             PROVE  Cardinality(OpenThreads(fp, r)) <= peak[fp]
  BY DEF NoDuplicate
<1> DEFINE o == Cardinality(OpenIn(threads, fp, r))
           l == Left(run[r], fp)
           p == peak[fp]
<1>1. OpenThreads(fp, r) = OpenIn(threads, fp, r)
  BY DEF OpenThreads, OpenIn
<1>2. o + l <= p
  BY DEF PeakInv, WithinPeak
<1>3. o \in Nat /\ l \in Nat /\ p \in 0..MaxFindings
  BY OpenIsFinite, LeftIsNat DEF RoundInv
<1> HIDE DEF o, l, p
<1>4. o <= p
  BY <1>2, <1>3
<1> QED
  BY <1>1, <1>4 DEF o, p

\* Findings have identity: never more open threads of a reviewer under a
\* fingerprint than one round raised findings under it.
THEOREM ThreadsAreNotDuplicated == Spec => []NoDuplicate
<1>1. Init => RoundInv /\ PeakInv
  BY RoundInit, PeakInit
<1>2. RoundInv /\ PeakInv /\ [Next]_vars => (RoundInv /\ PeakInv)'
  BY RoundStep, PeakStep
<1>3. RoundInv /\ PeakInv => NoDuplicate
  BY PeakBounds
<1> QED
  BY <1>1, <1>2, <1>3, PTL DEF Spec

-----------------------------------------------------------------------------
(* Threads and findings in agreement. *)

\* The thread t speaks for the finding f of the run q; its span is gone from
\* what q read.
Speaks(q, t, f) ==
  \/ t.fp = f.fp
  \/ Similarity[<<f.fp, t.fp>>] > FuzzyMatchThreshold
  \/ <<f.fp, t.fp>> \in q.same
Gone(q, t) == t.about \in q.post => t.fp \notin q.head[t.about]

\* A finding that anchors is about to be posted, or has a thread that speaks for
\* it, stays as it is, and is open or stands.
Answered(q, th) ==
  \A i \in DOMAIN q.found : q.found[i].at # Body =>
    \/ q.pc = "reconciled"
       /\ \E k \in DOMAIN Comments(q.plan) : Comments(q.plan)[k].fp = q.found[i].fp
    \/ \E j \in (DOMAIN th) \ q.plan.resolve :
         Speaks(q, th[j], q.found[i]) /\ (th[j].by = Nobody \/ ~Gone(q, th[j]))

\* An open thread on a file that was reviewed speaks for a finding or is about to
\* be resolved.
Meant(q, th) ==
  \A j \in DOMAIN th : th[j].by = Nobody /\ th[j].path \in q.reviewed =>
    j \in q.plan.resolve \/ \E i \in DOMAIN q.found : Speaks(q, th[j], q.found[i])

\* What is about to be posted was found.
Backed(q) ==
  q.pc = "reconciled" =>
    \A k \in DOMAIN Comments(q.plan) :
      \E i \in DOMAIN q.found : Comments(q.plan)[k].fp = q.found[i].fp

Agrees(q, th) == Answered(q, th) /\ Meant(q, th) /\ Backed(q)

\* So it is of every run that counts on the threads it saw.
InAgreement(th, rs) ==
  Len(th) <= ThreadsPage =>
    \A r \in Reviewers :
      rs[r].pc \in {"reconciled", "posted"} /\ rs[r].calm => Agrees(rs[r], th)

AgreeInv == InAgreement(threads, run)

-----------------------------------------------------------------------------
(* The plan. *)

\* With nothing dismissed, the comments are the findings that anchor and matched
\* nothing.
LEMMA NewAreCommented ==
  ASSUME NEW found \in Founds, NEW live, NEW opts,
         opts.dismissed = {}, opts.handled = {}
  PROVE  LET plan == Plan(found, live, opts)
             cs == Comments(plan)
         IN  /\ \A i \in DOMAIN found :
                  plan.match[i] = 0 /\ found[i].at # Body =>
                    \E k \in DOMAIN cs : cs[k].fp = found[i].fp
             /\ \A k \in DOMAIN cs : \E i \in DOMAIN found : cs[k].fp = found[i].fp
<1> DEFINE plan == Plan(found, live, opts)
           post == plan.post
           n == Len(found)
           m == Match(found, live, opts)
           S1 == {i \in DOMAIN found : m[i] = 0}
           S2 == {i \in DOMAIN post : post[i].at # Body}
           cs == Comments(plan)
           l == Len(post)
<1>1. n \in Nat /\ DOMAIN found = 1..n
  BY DEF Founds
<1>2. post = Those(found, S1) /\ plan.match = m
  <2>1. opts.dismissed \cup opts.handled = {}
    OBVIOUS
  <2> DEFINE quiet == {i \in S1 : found[i].fp \in opts.dismissed \cup opts.handled}
  <2>2. quiet = {}
    BY <2>1
  <2>3. post = Those(found, S1 \ quiet)
    BY DEF Plan
  <2>4. S1 \ quiet = S1
    BY <2>2
  <2>5. plan.match = m
    BY DEF Plan
  <2> HIDE DEF plan, S1, quiet
  <2> QED
    BY <2>3, <2>4, <2>5
<1>3. cs = Those(post, S2)
  BY DEF Comments
<1>4. l \in Nat /\ DOMAIN post = 1..l
  <2>1. post \in Seq(Finding)
    BY PostIsFound
  <2> HIDE DEF post
  <2> QED
    BY <2>1
<1>5. S1 \cap 1..n = S1 /\ S2 \cap 1..l = S2
  BY <1>1, <1>4
<1> HIDE DEF plan, m, cs, S1, S2, post
<1>6. PICK at : Listing(found, S1 \cap 1..n, post, at)
  BY <1>1, <1>2, ThoseAre
<1>7. PICK to : Listing(post, S2 \cap 1..l, cs, to)
  BY <1>3, <1>4, ThoseAre
<1>8. DOMAIN cs = 1..Len(cs)
  <2>1. cs \in Seq({post[i] : i \in 1..l})
    BY <1>3, <1>4, ThoseAre
  <2> QED
    BY <2>1
<1>9. ASSUME NEW i \in DOMAIN found, plan.match[i] = 0, found[i].at # Body
      PROVE  \E k \in DOMAIN cs : cs[k].fp = found[i].fp
  <2>1. i \in S1
    BY <1>2, <1>9 DEF S1
  <2>2. PICK p \in 1..l : at[p] = i
    BY <1>5, <1>6, <2>1 DEF Listing
  <2>3. post[p] = found[i]
    BY <1>6, <2>2 DEF Listing
  <2>4. p \in S2
    BY <1>4, <1>9, <2>2, <2>3 DEF S2
  <2>5. PICK k \in 1..Len(cs) : to[k] = p
    BY <1>5, <1>7, <2>4 DEF Listing
  <2>6. cs[k] = found[i]
    BY <1>7, <2>3, <2>5 DEF Listing
  <2> QED
    BY <1>8, <2>5, <2>6
<1>10. ASSUME NEW k \in DOMAIN cs
       PROVE  \E i \in DOMAIN found : cs[k].fp = found[i].fp
  <2>1. to[k] \in S2 \cap 1..l /\ cs[k] = post[to[k]]
    BY <1>7, <1>8 DEF Listing
  <2>2. at[to[k]] \in S1 \cap 1..n /\ post[to[k]] = found[at[to[k]]]
    BY <1>6, <2>1 DEF Listing
  <2> QED
    BY <1>1, <2>1, <2>2
<1> QED
  BY <1>9, <1>10 DEF plan, cs

\* A run that has just matched the threads is in agreement with them.
LEMMA PlanAgrees ==
  ASSUME RoundInv, NEW r \in Reviewers, run[r].pc = "reviewed", NEW same,
         Len(threads) <= ThreadsPage
  PROVE  Agrees(Matched(run[r], same, Plan(run[r].found, LiveThreads, OptsOf(r, same))),
                threads)
<1> DEFINE q == run[r]
           opts == OptsOf(r, same)
           live == LiveThreads
           plan == Plan(q.found, live, opts)
           e == Matched(q, same, plan)
           m == plan.match
           n == Len(q.found)
<1>1. GoodRun(q, threads) /\ q.found \in Founds /\ threads \in Seq(Thread)
  BY DEF RoundInv, GoodRun
<1>2. /\ opts.fresh = q.reviewed /\ opts.same = same /\ opts.handled = {}
      /\ opts.gone = {j \in DOMAIN live : SpanGone(r, live[j])}
      /\ opts.dismissed = {fp \in Fps : Active(q.prev.ledger, fp, 0)}
  BY DEF OptsOf
<1>3. opts.dismissed = {}
  <2>1. q.prev.ledger = {}
    BY <1>1 DEF GoodRun, GoodState, Pcs
  <2>2. \A fp : ~Active({}, fp, 0)
    BY DEF Active
  <2> HIDE DEF opts, q
  <2> QED
    BY <1>2, <2>1, <2>2
<1>4. PICK l \in 0..Len(threads) :
        DOMAIN live = 1..l /\ MatchFacts(q.found, live, opts, n, l, m)
  BY <1>1, PlanMatches
<1>5. DOMAIN live = DOMAIN threads
      /\ \A j \in DOMAIN threads :
           /\ live[j].fp = threads[j].fp /\ live[j].path = threads[j].path
           /\ live[j].about = threads[j].about
           /\ live[j].resolved <=> threads[j].by # Nobody
  <2>1. PICK k \in 0..Len(threads) :
           /\ DOMAIN live = 1..k
           /\ Len(threads) <= ThreadsPage => k = Len(threads)
           /\ \A j \in 1..k :
                /\ live[j].fp = threads[j].fp
                /\ live[j].path = threads[j].path
                /\ live[j].about = threads[j].about
                /\ live[j].resolved <=> threads[j].by # Nobody
    BY <1>1, LiveAre
  <2>2. k = Len(threads)
    BY <2>1
  <2>3. DOMAIN threads = 1..Len(threads)
    BY <1>1
  <2> HIDE DEF live
  <2> QED
    BY <2>1, <2>2, <2>3
<1>6. n \in Nat /\ DOMAIN q.found = 1..n
  BY <1>1 DEF Founds
<1>7. plan.resolve = Obsolete(live, m, opts)
  BY DEF Plan
<1>8. /\ \A i \in DOMAIN q.found :
           m[i] = 0 /\ q.found[i].at # Body =>
             \E k \in DOMAIN Comments(plan) : Comments(plan)[k].fp = q.found[i].fp
      /\ \A k \in DOMAIN Comments(plan) :
           \E i \in DOMAIN q.found : Comments(plan)[k].fp = q.found[i].fp
  BY <1>1, <1>2, <1>3, NewAreCommented
<1>9. \A j \in DOMAIN live : SpanGone(r, live[j]) <=> Gone(q, threads[j])
  BY <1>5 DEF SpanGone, Gone
<1>10. /\ e.pc = "reconciled" /\ e.found = q.found /\ e.plan = plan /\ e.same = same
       /\ e.post = q.post /\ e.head = q.head /\ e.reviewed = q.reviewed
  BY DEF Matched
<1> HIDE DEF q, opts, live, plan, e, n
<1>11. DOMAIN m = 1..n /\ \A i \in 1..n : m[i] \in 0..l
  BY <1>4 DEF MatchFacts, Matchings
<1>12. ASSUME NEW i \in 1..n, m[i] # 0
       PROVE  /\ m[i] \in DOMAIN threads
              /\ Speaks(e, threads[m[i]], q.found[i])
  <2>1. m[i] \in 1..l
    BY <1>11, <1>12
  <2>2. /\ \/ live[m[i]].fp = q.found[i].fp
           \/ Similarity[<<q.found[i].fp, live[m[i]].fp>>] > FuzzyMatchThreshold
           \/ <<q.found[i].fp, live[m[i]].fp>> \in opts.same
    BY <1>4, <1>12 DEF MatchFacts
  <2>3. live[m[i]].fp = threads[m[i]].fp /\ m[i] \in DOMAIN threads
    BY <1>4, <1>5, <2>1
  <2> QED
    BY <1>2, <1>10, <2>2, <2>3 DEF Speaks
<1>13. Answered(e, threads)
  <2> SUFFICES ASSUME NEW i \in 1..n, q.found[i].at # Body, m[i] # 0
               PROVE  /\ m[i] \notin plan.resolve
                      /\ threads[m[i]].by = Nobody \/ ~Gone(e, threads[m[i]])
    BY <1>6, <1>8, <1>10, <1>12 DEF Answered
  <2>1. m[i] \notin plan.resolve
    BY <1>7, <1>11 DEF Obsolete, Free
  <2>2. live[m[i]].resolved => m[i] \notin opts.gone
    BY <1>4 DEF MatchFacts
  <2>3. m[i] \in DOMAIN threads
    BY <1>12
  <2>4. threads[m[i]].by # Nobody => ~Gone(q, threads[m[i]])
    BY <1>2, <1>5, <1>9, <2>2, <2>3
  <2> QED
    BY <1>10, <2>1, <2>4 DEF Gone
<1>14. Meant(e, threads)
  <2> SUFFICES ASSUME NEW j \in DOMAIN threads, threads[j].by = Nobody,
                      threads[j].path \in q.reviewed, j \notin plan.resolve
               PROVE  \E i \in 1..n : Speaks(e, threads[j], q.found[i])
    BY <1>6, <1>10 DEF Meant
  <2>1. j \in Open(live) /\ live[j].path \in opts.fresh
    BY <1>2, <1>5 DEF Open
  <2>2. j \notin Free(m, Open(live))
    BY <1>3, <1>7, <2>1 DEF Obsolete
  <2>3. PICK i \in 1..n : m[i] = j
    BY <1>11, <2>1, <2>2 DEF Free
  <2>4. m[i] # 0
    BY <1>4, <2>1, <2>3 DEF Open
  <2> QED
    BY <1>12, <2>3, <2>4
<1>15. Backed(e)
  BY <1>8, <1>10 DEF Backed
<1>16. Agrees(e, threads)
  BY <1>13, <1>14, <1>15 DEF Agrees
<1> QED
  BY <1>16 DEF e, plan, opts, live, q

-----------------------------------------------------------------------------
(* The agreement is kept. *)

\* A run agrees with threads that are the same.
LEMMA AgreesSame ==
  ASSUME NEW q, NEW th, NEW more, Agrees(q, th), DOMAIN more = DOMAIN th,
         \A j \in DOMAIN th : more[j] = th[j]
  PROVE  Agrees(q, more)
  BY DEF Agrees, Answered, Meant, Backed

\* What was posted in full agrees with the threads it has grown.
LEMMA PostingAgrees ==
  ASSUME NEW q, NEW th \in Seq(Thread), NEW r \in Reviewers, GoodRun(q, th),
         q.pc = "reconciled", Agrees(q, th),
         NEW tail \in Seq(Comment), Len(tail) = Len(Comments(q.plan)),
         \A k \in 1..Len(tail) : tail[k] = Comments(q.plan)[k],
         NEW full \in BOOLEAN
  PROVE  Agrees(Posting(q, full), th \o Posted(r, tail))
<1> DEFINE cs == Comments(q.plan)
           e == Posting(q, full)
           p == Posted(r, tail)
           more == th \o p
           l == Len(th)
           n == Len(tail)
<1>1. RunFields \subseteq DOMAIN q /\ q.plan.post \in Seq(Finding)
      /\ q.plan.resolve \subseteq DOMAIN th
  BY DEF GoodRun, GoodPlan
<1>2. /\ e.pc = "posted" /\ e.head = q.head /\ e.post = q.post
      /\ e.reviewed = q.reviewed /\ e.found = q.found /\ e.same = q.same /\ e.plan = q.plan
  BY <1>1, PostingKeeps
<1>3. n \in Nat /\ DOMAIN cs = 1..n
  <2>1. cs \in Seq(Comment)
    BY <1>1, CommentsAre
  <2>2. Len(cs) \in Nat /\ DOMAIN cs = 1..Len(cs)
    BY <2>1
  <2> QED
    BY <2>2
<1>4. p \in Seq(Thread) /\ Len(p) = n
      /\ \A k \in 1..n : p[k].fp = tail[k].fp /\ p[k].by = Nobody
  BY PostedAre
<1>5. /\ l \in Nat /\ DOMAIN th = 1..l /\ DOMAIN more = 1..(l + n)
      /\ \A j \in 1..l : more[j] = th[j]
      /\ \A k \in 1..n : more[l + k] = p[k]
  <2>1. l \in Nat /\ DOMAIN th = 1..l
    OBVIOUS
  <2> HIDE DEF p, n
  <2> QED
    BY <1>4, <2>1, AppendGrows
<1>6. \A k \in 1..n : tail[k] = cs[k]
  OBVIOUS
<1> HIDE DEF cs, e, p, more, l, n
<1>7. /\ \A j \in 1..l : j \in 1..(l + n)
      /\ \A k \in 1..n : l + k \in 1..(l + n) /\ l + k \notin 1..l
      /\ \A j \in 1..(l + n) : j \in 1..l \/ (j - l \in 1..n /\ j = l + (j - l))
  BY <1>3, <1>5
<1>8. \A k \in 1..n : more[l + k].fp = cs[k].fp /\ more[l + k].by = Nobody
  BY <1>4, <1>5, <1>6
<1>9. Answered(e, more)
  <2> SUFFICES ASSUME NEW i \in DOMAIN q.found, q.found[i].at # Body
               PROVE  \E j \in (DOMAIN more) \ q.plan.resolve :
                        /\ Speaks(e, more[j], q.found[i])
                        /\ more[j].by = Nobody \/ ~Gone(e, more[j])
    BY <1>2 DEF Answered
  <2>1. CASE \E k \in DOMAIN cs : cs[k].fp = q.found[i].fp
    <3>1. PICK k \in 1..n : cs[k].fp = q.found[i].fp
      BY <1>3, <2>1
    <3>2. l + k \in (DOMAIN more) \ q.plan.resolve
      BY <1>1, <1>5, <1>7
    <3>3. more[l + k].fp = q.found[i].fp /\ more[l + k].by = Nobody
      BY <1>8, <3>1
    <3> QED
      BY <3>2, <3>3 DEF Speaks
  <2>2. CASE \E j \in (DOMAIN th) \ q.plan.resolve :
               Speaks(q, th[j], q.found[i]) /\ (th[j].by = Nobody \/ ~Gone(q, th[j]))
    <3>1. PICK j \in (DOMAIN th) \ q.plan.resolve :
               Speaks(q, th[j], q.found[i]) /\ (th[j].by = Nobody \/ ~Gone(q, th[j]))
      BY <2>2
    <3>2. more[j] = th[j] /\ j \in DOMAIN more
      BY <1>5, <1>7, <3>1
    <3> QED
      BY <1>2, <3>1, <3>2 DEF Speaks, Gone
  <2> QED
    BY <2>1, <2>2 DEF Agrees, Answered, cs
<1>10. Meant(e, more)
  <2> SUFFICES ASSUME NEW j \in DOMAIN more, more[j].by = Nobody,
                      more[j].path \in q.reviewed, j \notin q.plan.resolve
               PROVE  \E i \in DOMAIN q.found : Speaks(e, more[j], q.found[i])
    BY <1>2 DEF Meant
  <2>1. CASE j \in 1..l
    <3>1. more[j] = th[j] /\ j \in DOMAIN th
      BY <1>5, <2>1
    <3>2. \E i \in DOMAIN q.found : Speaks(q, th[j], q.found[i])
      BY <3>1 DEF Agrees, Meant
    <3> QED
      BY <1>2, <3>1, <3>2 DEF Speaks
  <2>2. CASE j - l \in 1..n /\ j = l + (j - l)
    <3>1. more[j].fp = cs[j - l].fp
      BY <1>8, <2>2
    <3>2. \E i \in DOMAIN q.found : cs[j - l].fp = q.found[i].fp
      BY <1>3, <2>2 DEF Agrees, Backed, cs
    <3> QED
      BY <3>1, <3>2 DEF Speaks
  <2> QED
    BY <1>5, <1>7, <2>1, <2>2
<1>11. Backed(e)
  BY <1>2 DEF Backed
<1>12. Agrees(e, more)
  BY <1>9, <1>10, <1>11 DEF Agrees
<1> QED
  BY <1>12 DEF e, more, p

\* A run that has resolved what it was to resolve agrees with the threads still.
LEMMA ResolvingAgrees ==
  ASSUME NEW q, NEW th, GoodRun(q, th), q.pc = "posted", Agrees(q, th),
         NEW j \in q.plan.resolve, NEW more, DOMAIN more = DOMAIN th,
         more[j].by # Nobody, \A i \in DOMAIN th : i # j => more[i] = th[i]
  PROVE  Agrees(Unresolve(q, j), more)
<1> DEFINE e == Unresolve(q, j)
<1>1. RunFields \subseteq DOMAIN q /\ PlanFields \subseteq DOMAIN q.plan
  BY DEF GoodRun, GoodPlan
<1>2. /\ e.pc = "posted" /\ e.head = q.head /\ e.post = q.post
      /\ e.reviewed = q.reviewed /\ e.found = q.found /\ e.same = q.same
      /\ e.plan.resolve = q.plan.resolve \ {j}
  BY <1>1, UnresolveKeeps
<1> HIDE DEF e
<1>3. Answered(e, more)
  <2> SUFFICES ASSUME NEW i \in DOMAIN q.found, q.found[i].at # Body
               PROVE  \E k \in (DOMAIN more) \ e.plan.resolve :
                        /\ Speaks(e, more[k], q.found[i])
                        /\ more[k].by = Nobody \/ ~Gone(e, more[k])
    BY <1>2 DEF Answered
  <2>1. PICK k \in (DOMAIN th) \ q.plan.resolve :
               Speaks(q, th[k], q.found[i]) /\ (th[k].by = Nobody \/ ~Gone(q, th[k]))
    BY DEF Agrees, Answered
  <2>2. k # j /\ more[k] = th[k] /\ k \in (DOMAIN more) \ e.plan.resolve
    BY <1>2, <2>1
  <2> QED
    BY <1>2, <2>1, <2>2 DEF Speaks, Gone
<1>4. Meant(e, more)
  <2> SUFFICES ASSUME NEW k \in DOMAIN more, more[k].by = Nobody,
                      more[k].path \in q.reviewed, k \notin e.plan.resolve
               PROVE  \E i \in DOMAIN q.found : Speaks(e, more[k], q.found[i])
    BY <1>2 DEF Meant
  <2>1. k # j /\ more[k] = th[k] /\ k \in DOMAIN th /\ k \notin q.plan.resolve
    BY <1>2
  <2>2. \E i \in DOMAIN q.found : Speaks(q, th[k], q.found[i])
    BY <2>1 DEF Agrees, Meant
  <2> QED
    BY <1>2, <2>1, <2>2 DEF Speaks
<1>5. Backed(e)
  BY <1>2 DEF Backed
<1>6. Agrees(e, more)
  BY <1>3, <1>4, <1>5 DEF Agrees
<1> QED
  BY <1>6 DEF e

\* Posting in full keeps the agreement, and disturbs the others' unless nothing
\* was posted.
LEMMA PublishInAgreement ==
  ASSUME RoundInv, AgreeInv, NEW r \in Reviewers, PublishReview(r)
  PROVE  InAgreement(threads', run')
<1> DEFINE comments == Comments(run[r].plan)
           full(n) == n = Len(comments)
<1>1. PICK n, tail :
        /\ n \in 0..Len(comments)
        /\ comments \in Seq(Comment)
        /\ tail \in Seq(Comment) /\ Len(tail) = n
        /\ n = Len(comments) => \A k \in 1..n : tail[k] = comments[k]
        /\ threads' = threads \o Posted(r, tail)
        /\ run' = [q \in Reviewers |->
             IF q = r THEN Posting(run[r], full(n))
             ELSE IF n > 0 THEN Stir(run[q]) ELSE run[q]]
  BY PublishPosts, Zenon
<1>2. /\ threads \in Seq(Thread) /\ \A q \in Reviewers : GoodRun(run[q], threads)
      /\ run[r].pc = "reconciled"
  BY DEF RoundInv, PublishReview
<1>3. Posted(r, tail) \in Seq(Thread) /\ Len(Posted(r, tail)) = n
  BY <1>1, PostedAre
<1>4. /\ Len(threads') = Len(threads) + n
      /\ \A j \in 1..Len(threads) : threads'[j] = threads[j]
      /\ DOMAIN threads' = 1..(Len(threads) + n)
  BY <1>1, <1>2, <1>3, AppendGrows
<1>5. Len(threads) \in Nat /\ n \in Nat /\ ThreadsPage \in Nat
      /\ DOMAIN threads = 1..Len(threads)
  <2>1. Len(threads) \in Nat /\ DOMAIN threads = 1..Len(threads)
    BY <1>2
  <2>2. Len(comments) \in Nat
    BY <1>1
  <2> HIDE DEF comments
  <2> QED
    BY <1>1, <2>1, <2>2, PullRequestAssumption
<1> SUFFICES ASSUME Len(threads') <= ThreadsPage, NEW q \in Reviewers,
                    run'[q].pc \in {"reconciled", "posted"}, run'[q].calm
             PROVE  Agrees(run'[q], threads')
  BY DEF InAgreement
<1>6. Len(threads) <= ThreadsPage
  BY <1>4, <1>5
<1>7. CASE q = r
  <2> DEFINE f == full(n)
  <2>1. run'[q] = Posting(run[r], f) /\ f \in BOOLEAN
    BY <1>1, <1>7
  <2>2. f => n = Len(comments)
    OBVIOUS
  <2> HIDE DEF f
  <2>3. run[r].calm /\ f
    <3>1. RunFields \subseteq DOMAIN run[r]
      BY <1>2 DEF GoodRun, GoodPlan
    <3> QED
      BY <2>1, <3>1, PostingKeeps
  <2>4. Agrees(run[r], threads)
    BY <1>2, <1>6, <2>3 DEF AgreeInv, InAgreement
  <2>5. Len(tail) = Len(comments) /\ \A k \in 1..Len(tail) : tail[k] = comments[k]
    BY <1>1, <2>2, <2>3
  <2>6. Agrees(Posting(run[r], f), threads \o Posted(r, tail))
    BY <1>1, <1>2, <2>1, <2>4, <2>5, PostingAgrees
  <2> QED
    BY <1>1, <2>1, <2>6
<1>8. CASE q # r
  <2>1. GoodRun(run[q], threads)
    BY <1>2
  <2>2. run[q].pc \in {"reconciled", "posted"} => RunFields \subseteq DOMAIN run[q]
    BY <2>1 DEF GoodRun, GoodPlan
  <2>3. ~(n > 0)
    <3>1. CASE n > 0
      <4>1. run'[q] = Stir(run[q])
        BY <1>1, <1>8, <3>1
      <4> QED
        BY <2>2, <4>1, StirKeeps
    <3> QED
      BY <3>1
  <2>4. run'[q] = run[q]
    BY <1>1, <1>8, <2>3
  <2>5. n = 0
    BY <1>5, <2>3
  <2>6. DOMAIN threads' = DOMAIN threads /\ \A j \in DOMAIN threads : threads'[j] = threads[j]
    <3>1. Len(threads) + n = Len(threads)
      BY <1>5, <2>5
    <3> QED
      BY <1>4, <1>5, <3>1
  <2>7. Agrees(run[q], threads)
    BY <1>6, <2>4 DEF AgreeInv, InAgreement
  <2> QED
    BY <2>4, <2>6, <2>7, AgreesSame
<1> QED
  BY <1>7, <1>8

\* Resolving its own obsolete threads keeps a run's agreement.
LEMMA ResolveInAgreement ==
  ASSUME RoundInv, AgreeInv, NEW r \in Reviewers, ResolveThread(r)
  PROVE  InAgreement(threads', run')
<1>1. PICK j \in run[r].plan.resolve :
           /\ j \in DOMAIN threads
           /\ \/ /\ threads' = IF threads[j].by = Nobody
                               THEN [threads EXCEPT ![j].by = Cite] ELSE threads
                 /\ run' = [q \in Reviewers |->
                      IF q = r THEN Unresolve(run[r], j) ELSE Stir(run[q])]
              \/ /\ threads' = threads
                 /\ run' = [run EXCEPT ![r] = Stir(Unresolve(run[r], j))]
  BY ResolveResolves
<1>2. /\ threads \in Seq(Thread) /\ DOMAIN run = Reviewers
      /\ \A q \in Reviewers : GoodRun(run[q], threads)
      /\ run[r].pc = "posted"
  BY DEF RoundInv, ResolveThread
<1>3. \A q \in Reviewers :
        run[q].pc \in {"reconciled", "posted"} => RunFields \subseteq DOMAIN run[q]
  BY <1>2 DEF GoodRun, GoodPlan
<1>4. \A q \in Reviewers :
        ~(Stir(run[q]).pc \in {"reconciled", "posted"} /\ Stir(run[q]).calm)
  BY <1>3, StirKeeps
<1> DEFINE e == Unresolve(run[r], j)
<1>5. /\ e.pc = "posted" /\ e.calm = run[r].calm
      /\ RunFields \subseteq DOMAIN e
  BY <1>2, UnresolveKeeps DEF GoodRun, GoodPlan
<1>6. ~Stir(e).calm
  BY <1>5, StirKeeps
<1> HIDE DEF e
<1> SUFFICES ASSUME Len(threads') <= ThreadsPage, NEW q \in Reviewers,
                    run'[q].pc \in {"reconciled", "posted"}, run'[q].calm
             PROVE  Agrees(run'[q], threads')
  BY DEF InAgreement
<1>7. CASE /\ threads' = IF threads[j].by = Nobody
                         THEN [threads EXCEPT ![j].by = Cite] ELSE threads
           /\ run' = [p \in Reviewers |-> IF p = r THEN e ELSE Stir(run[p])]
  <2>1. q = r /\ run'[q] = e
    BY <1>4, <1>7
  <2>2. /\ DOMAIN threads' = DOMAIN threads /\ threads'[j].by # Nobody
        /\ \A i \in DOMAIN threads : i # j => threads'[i] = threads[i]
    <3> DEFINE more == [threads EXCEPT ![j].by = Cite]
    <3>1. /\ DOMAIN more = DOMAIN threads /\ more[j].by = Cite
          /\ \A i \in DOMAIN threads : i # j => more[i] = threads[i]
      BY <1>1, <1>2, ResolveGrows
    <3>2. Cite # Nobody
      BY DEF Cite, Nobody
    <3>3. \/ threads[j].by = Nobody /\ threads' = more
          \/ threads[j].by # Nobody /\ threads' = threads
      BY <1>7
    <3> HIDE DEF more
    <3> QED
      BY <3>1, <3>2, <3>3
  <2>3. Len(threads) <= ThreadsPage
    <3> DEFINE more == [threads EXCEPT ![j].by = Cite]
    <3>1. Len(more) = Len(threads)
      BY <1>1, <1>2, ResolveGrows
    <3>2. threads' = more \/ threads' = threads
      BY <1>7
    <3> HIDE DEF more
    <3> QED
      BY <3>1, <3>2
  <2>4. Agrees(run[r], threads)
    BY <1>2, <1>5, <2>1, <2>3 DEF AgreeInv, InAgreement
  <2>5. Agrees(Unresolve(run[r], j), threads')
    BY <1>1, <1>2, <2>2, <2>4, ResolvingAgrees
  <2> QED
    BY <2>1, <2>5 DEF e
<1>8. CASE threads' = threads /\ run' = [run EXCEPT ![r] = Stir(e)]
  <2>1. q # r
    BY <1>2, <1>6, <1>8
  <2>2. run'[q] = run[q]
    BY <1>8, <2>1
  <2> QED
    BY <1>8, <2>2 DEF AgreeInv, InAgreement
<1> QED
  BY <1>1, <1>7, <1>8 DEF e

-----------------------------------------------------------------------------

\* Nothing has been matched at the start.
LEMMA AgreeInit == Init => AgreeInv
<1> SUFFICES ASSUME Init PROVE AgreeInv
  OBVIOUS
<1>1. \A r \in Reviewers : run[r].pc = "idle"
  BY DEF Init, Idle
<1> QED
  BY <1>1 DEF AgreeInv, InAgreement

\* Every step keeps the agreement.
LEMMA AgreeStep == RoundInv /\ AgreeInv /\ [Next]_vars => AgreeInv'
<1> SUFFICES ASSUME RoundInv, AgreeInv, [Next]_vars PROVE InAgreement(threads', run')
  BY DEF AgreeInv
<1>0. DOMAIN run = Reviewers /\ \A q \in Reviewers : GoodRun(run[q], threads)
  BY DEF RoundInv
<1> DEFINE Goal == InAgreement(threads', run')
<1>1. ASSUME NEW r \in Reviewers, Aside(r) PROVE Goal
  <2>1. PICK e : run' = [run EXCEPT ![r] = e] /\ e.pc \notin {"reconciled", "posted"}
    BY <1>1, AsideMoves
  <2>2. threads' = threads
    BY <1>1, AsideMoves
  <2>3. \A q \in Reviewers : run'[q] = e \/ run'[q] = run[q]
    BY <1>0, <2>1
  <2> QED
    BY <2>1, <2>2, <2>3 DEF AgreeInv, InAgreement
<1>2. ASSUME NEW r \in Reviewers, ReconcileThreads(r) PROVE Goal
  <2>1. threads' = threads /\ run[r].pc = "reviewed"
    BY <1>2, Zenon DEF ReconcileThreads
  <2>2. PICK same : run' = [run EXCEPT ![r] =
           Matched(run[r], same, Plan(run[r].found, LiveThreads, OptsOf(r, same)))]
    BY <1>2, ReconcileMatches
  <2> DEFINE e == Matched(run[r], same, Plan(run[r].found, LiveThreads, OptsOf(r, same)))
  <2>3. Len(threads) <= ThreadsPage => Agrees(e, threads)
    BY <2>1, PlanAgrees
  <2>4. run' = [run EXCEPT ![r] = e]
    BY <2>2
  <2> HIDE DEF e
  <2>5. \A q \in Reviewers : run'[q] = e \/ run'[q] = run[q]
    BY <1>0, <2>4
  <2> QED
    BY <2>1, <2>3, <2>5 DEF AgreeInv, InAgreement
<1>3. ASSUME NEW r \in Reviewers, PublishReview(r) PROVE Goal
  BY <1>3, PublishInAgreement
<1>4. ASSUME NEW r \in Reviewers, ResolveThread(r) PROVE Goal
  BY <1>4, ResolveInAgreement
<1>5. ASSUME ResolveByHand PROVE Goal
  <2>1. \A q \in Reviewers : run'[q] = Stir(run[q])
    BY <1>5, StirredIs DEF ResolveByHand
  <2>2. \A q \in Reviewers :
          run[q].pc \in {"reconciled", "posted"} => RunFields \subseteq DOMAIN run[q]
    BY <1>0 DEF GoodRun, GoodPlan
  <2>3. \A q \in Reviewers :
          ~(Stir(run[q]).pc \in {"reconciled", "posted"} /\ Stir(run[q]).calm)
    BY <2>2, StirKeeps
  <2> QED
    BY <2>1, <2>3 DEF InAgreement
<1>6. CASE Push \/ UNCHANGED vars
  <2>1. threads' = threads /\ run' = run
    BY <1>6 DEF Push, vars
  <2> QED
    BY <2>1 DEF AgreeInv
<1> QED
  BY <1>1, <1>2, <1>3, <1>4, <1>5, <1>6 DEF Next, Step, Aside

\* At the end of its round a run in agreement is what the property asks.
LEMMA AgreementIsReached == AgreeInv => ThreadsAgree
<1> SUFFICES ASSUME AgreeInv, NEW r \in Reviewers, run[r].pc = "posted",
                    run[r].plan.resolve = {}, run[r].calm, Len(threads) <= ThreadsPage
             PROVE  /\ \A i \in DOMAIN run[r].found :
                         run[r].found[i].at # Body =>
                           \E j \in DOMAIN threads :
                             /\ SpeaksFor(r, threads[j], run[r].found[i])
                             /\ threads[j].by = Nobody \/ ~SpanGone(r, threads[j])
                    /\ \A j \in DOMAIN threads :
                         threads[j].by = Nobody /\ threads[j].path \in run[r].reviewed =>
                           \E i \in DOMAIN run[r].found :
                             SpeaksFor(r, threads[j], run[r].found[i])
  BY DEF ThreadsAgree
<1>1. Agrees(run[r], threads)
  BY DEF AgreeInv, InAgreement
<1>2. /\ \A t, f : Speaks(run[r], t, f) <=> SpeaksFor(r, t, f)
      /\ \A t : Gone(run[r], t) <=> SpanGone(r, t)
  BY DEF Speaks, SpeaksFor, Gone, SpanGone
<1> QED
  BY <1>1, <1>2 DEF Agrees, Answered, Meant

\* A round that nothing disturbed leaves the threads in agreement with its
\* findings.
THEOREM ThreadsTellTheFindings == Spec => []ThreadsAgree
<1>1. Init => RoundInv /\ AgreeInv
  BY RoundInit, AgreeInit
<1>2. RoundInv /\ AgreeInv /\ [Next]_vars => (RoundInv /\ AgreeInv)'
  BY RoundStep, AgreeStep
<1>3. AgreeInv => ThreadsAgree
  BY AgreementIsReached
<1> QED
  BY <1>1, <1>2, <1>3, PTL DEF Spec
=============================================================================
