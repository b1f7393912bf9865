-------------------------- MODULE Induction_proofs --------------------------
(***************************************************************************)
(* What the other proof modules need in order to reason about the folds of *)
(* the model (sums over files, walks over sequences).  The library states  *)
(* induction for an operator; here it is stated for sets and functions, so *)
(* that a fold over one particular operator can be reasoned about: the     *)
(* function the fold chooses exists (FoldExists), and what holds of it     *)
(* holds of every subset (SubsetInduction).                                *)
(***************************************************************************)
EXTENDS Selection, SequencesExt, FiniteSetTheorems, WellFoundedInduction, TLAPS

\* A set of naturals that is not empty has a least element.
LEMMA LeastElement ==
  ASSUME NEW N \in SUBSET Nat, N # {}
  PROVE  \E n \in N : \A m \in N : n <= m
<1>1. PICK n \in N : \A m \in N : ~(<<m, n>> \in OpToRel(<, Nat))
  BY Zenon, WFMin, NatLessThanWellFounded
<1>2. \A m \in N : ~(m < n)
  BY <1>1 DEF OpToRel
<1> QED
  BY <1>2

\* A set that holds 0 and, below b, the successor of what it holds, holds
\* every number up to b.
LEMMA InductionUpTo ==
  ASSUME NEW b \in Nat, NEW N, 0 \in N,
         \A n \in 0..b : n < b /\ n \in N => n + 1 \in N
  PROVE  \A n \in 0..b : n \in N
<1> DEFINE Out == {n \in 0..b : n \notin N}
<1>1. CASE Out # {}
  <2>1. PICK n \in Out : \A m \in Out : n <= m
    <3>1. Out \in SUBSET Nat
      OBVIOUS
    <3> HIDE DEF Out
    <3> QED
      BY <1>1, <3>1, LeastElement
  <2>2. n # 0 /\ n - 1 \in 0..b
    OBVIOUS
  <2>3. n - 1 \in N
    BY <2>1, <2>2
  <2> QED
    BY <2>2, <2>3
<1> QED
  BY <1>1

\* A set of subsets of S that holds {} and each T all of whose proper
\* subsets it holds, holds them all.
LEMMA SubsetInduction ==
  ASSUME NEW S, IsFiniteSet(S), NEW G,
         \A T \in SUBSET S : (\A U \in SUBSET T : U # T => U \in G) => T \in G
  PROVE  \A T \in SUBSET S : T \in G
<1> DEFINE Out == {T \in SUBSET S : T \notin G}
           Below == StrictSubsetOrdering(S)
<1>1. IsWellFoundedOn(Below, SUBSET S)
  BY FS_StrictSubsetOrderingWellFounded, FS_FiniteSubsetsOfFinite
<1>2. CASE Out # {}
  <2>1. Out \subseteq SUBSET S
    OBVIOUS
  <2>2. PICK T \in Out : \A U \in Out : ~(<<U, T>> \in Below)
    <3> HIDE DEF Out, Below
    <3> QED
      BY <1>1, <1>2, <2>1, WFMin
  <2>3. ASSUME NEW U \in SUBSET T, U # T PROVE U \in G
    <3>1. <<U, T>> \in Below
      BY <2>3 DEF StrictSubsetOrdering
    <3> QED
      BY <2>2, <3>1
  <2> QED
    BY <2>3
<1> QED
  BY <1>2

\* The functions that solve the equation a fold over the set S poses: a fold
\* that takes the elements of T in the order pick names.
FoldSolutions(S, C, base, pick, h) ==
  {g \in [SUBSET S -> C] : \A T \in SUBSET S :
     g[T] = IF T = {} THEN base ELSE h[<<pick[T], g[T \ {pick[T]}]>>]}

\* There is one whenever S is finite.
LEMMA FoldExists ==
  ASSUME NEW S, IsFiniteSet(S), NEW C, NEW base \in C,
         NEW pick, \A T \in SUBSET S : T # {} => pick[T] \in T,
         NEW h \in [S \X C -> C]
  PROVE  FoldSolutions(S, C, base, pick, h) # {}
<1> DEFINE Value(g, T)  == IF T = {} THEN base ELSE h[<<pick[T], g[T \ {pick[T]}]>>]
           Solves(g, n) == \A T \in SUBSET S : Cardinality(T) <= n => g[T] = Value(g, T)
           Open == {n \in Nat : \A g \in [SUBSET S -> C] : ~Solves(g, n)}
<1>0. ASSUME NEW T \in SUBSET S
      PROVE  /\ Cardinality(T) \in Nat /\ Cardinality(T) <= Cardinality(S)
             /\ Cardinality(T) = 0 <=> T = {}
             /\ T # {} => Cardinality(T \ {pick[T]}) = Cardinality(T) - 1
  <2>1. IsFiniteSet(T) /\ Cardinality(T) <= Cardinality(S)
    BY FS_Subset
  <2>2. Cardinality(T) \in Nat
    BY <2>1, FS_CardinalityType
  <2>3. Cardinality(T) = 0 <=> T = {}
    BY <2>1, FS_EmptySet
  <2>4. T # {} => Cardinality(T \ {pick[T]}) = Cardinality(T) - 1
    BY <2>1, FS_RemoveElement
  <2> QED
    BY <2>1, <2>2, <2>3, <2>4
<1>1. ASSUME NEW g \in [SUBSET S -> C], NEW T \in SUBSET S
      PROVE  Value(g, T) \in C
  <2>1. T # {} => pick[T] \in S /\ g[T \ {pick[T]}] \in C
    OBVIOUS
  <2> QED
    BY <2>1
<1>2. CASE Open # {}
  <2>1. PICK n \in Open : \A m \in Open : n <= m
    <3>1. Open \in SUBSET Nat
      OBVIOUS
    <3> HIDE DEF Open
    <3> QED
      BY <1>2, <3>1, LeastElement
  <2>2. n \in Nat /\ \A g \in [SUBSET S -> C] : ~Solves(g, n)
    BY <2>1
  <2>3. CASE n = 0
    <3> DEFINE g == [T \in SUBSET S |-> base]
    <3>1. ASSUME NEW T \in SUBSET S, Cardinality(T) <= 0
          PROVE  g[T] = Value(g, T)
      <4>1. Cardinality(T) = 0
        <5>1. Cardinality(T) \in Nat
          BY <1>0
        <5> QED
          BY <3>1, <5>1
      <4>2. T = {}
        <5> HIDE DEF Open
        <5> QED
          BY <1>0, <4>1
      <4> QED
        BY <4>2
    <3>2. g \in [SUBSET S -> C] /\ Solves(g, 0)
      BY <3>1
    <3> HIDE DEF g, Solves
    <3> QED
      BY <2>2, <2>3, <3>2
  <2>4. CASE n # 0
    <3>1. n - 1 \in Nat /\ n - 1 \notin Open
      <4> HIDE DEF Open
      <4>1. n \in Nat /\ n - 1 \in Nat /\ ~(n <= n - 1)
        BY <2>2, <2>4
      <4> QED
        BY <2>1, <4>1
    <3>2. PICK g \in [SUBSET S -> C] : Solves(g, n - 1)
      BY <3>1
    <3> DEFINE k == [T \in SUBSET S |->
                       IF Cardinality(T) <= n - 1 THEN g[T] ELSE Value(g, T)]
    <3>3. k \in [SUBSET S -> C]
      <4> HIDE DEF Value
      <4> QED
        BY <1>1
    <3>4. ASSUME NEW T \in SUBSET S, Cardinality(T) <= n
          PROVE  k[T] = Value(k, T)
      <4>1. k[T] = Value(g, T)
        BY <3>2
      <4>2. CASE T = {}
        BY <4>1, <4>2
      <4>3. CASE T # {}
        <5> DEFINE U == T \ {pick[T]}
        <5>1. /\ U \in SUBSET S /\ Cardinality(T) \in Nat
              /\ Cardinality(U) = Cardinality(T) - 1
          BY <1>0, <4>3
        <5>2. k[U] = g[U]
          BY <2>2, <3>4, <5>1
        <5> QED
          BY <4>1, <4>3, <5>2
      <4> QED
        BY <4>2, <4>3
    <3>5. Solves(k, n)
      BY <3>4
    <3> HIDE DEF k, Solves
    <3> QED
      BY <2>2, <3>3, <3>5
  <2> QED
    BY <2>3, <2>4
<1>3. CASE Open = {}
  <2>1. Cardinality(S) \in Nat
    BY FS_CardinalityType
  <2>2. \A n \in Nat : \E g \in [SUBSET S -> C] : Solves(g, n)
    <3> HIDE DEF Solves
    <3> QED
      BY <1>3
  <2>3. PICK g \in [SUBSET S -> C] : Solves(g, Cardinality(S))
    BY <2>1, <2>2
  <2>4. \A T \in SUBSET S : g[T] = Value(g, T)
    BY <1>0, <2>3
  <2> QED
    BY <2>4 DEF FoldSolutions
<1> QED
  BY <1>2, <1>3
-----------------------------------------------------------------------------
(* Sums.  MapThenSumSet takes the elements in the order CHOOSE names them. *)

\* The element CHOOSE names.
Chosen(T) == CHOOSE x \in T : TRUE

\* The sums of f over the subsets of S, one element at a time.
IsSumOf(it, f, S) ==
  /\ it \in [SUBSET S -> Int]
  /\ it[{}] = 0
  /\ \A T \in SUBSET S : T # {} =>
       Chosen(T) \in T /\ it[T] = f[Chosen(T)] + it[T \ {Chosen(T)}]

\* The sum of the function f over S.
SumOf(f, S) == MapThenSumSet(LAMBDA x : f[x], S)

\* The sum of f over S is what a function with the equations of a sum says.
LEMMA SumSolves ==
  ASSUME NEW S, IsFiniteSet(S), NEW f \in [S -> Int]
  PROVE  \E it : IsSumOf(it, f, S) /\ SumOf(f, S) = it[S]
<1> DEFINE Sum(s) == [T \in SUBSET S |-> IF T = {} THEN 0
                         ELSE f[CHOOSE x \in T : TRUE]
                                + s[T \ {CHOOSE x \in T : TRUE}]]
           pick == [T \in SUBSET S |-> Chosen(T)]
           h    == [e \in S \X Int |-> f[e[1]] + e[2]]
           it   == CHOOSE s : s = Sum(s)
<1>1. SumOf(f, S) = (CHOOSE s : s = Sum(s))[S]
  BY DEF SumOf, MapThenSumSet, MapThenFoldSet
<1>2. \A T \in SUBSET S : T # {} => Chosen(T) \in T /\ pick[T] = Chosen(T)
  BY DEF Chosen
<1>3. PICK g \in FoldSolutions(S, Int, 0, pick, h) : TRUE
  <2>1. 0 \in Int /\ h \in [S \X Int -> Int]
    OBVIOUS
  <2> HIDE DEF h, pick
  <2> QED
    BY <1>2, <2>1, FoldExists
<1>4. /\ g \in [SUBSET S -> Int]
      /\ \A T \in SUBSET S :
           g[T] = IF T = {} THEN 0 ELSE h[<<pick[T], g[T \ {pick[T]}]>>]
  <2> HIDE DEF h, pick
  <2> QED
    BY DEF FoldSolutions
<1>5. \A T \in SUBSET S :
        g[T] = IF T = {} THEN 0 ELSE f[Chosen(T)] + g[T \ {Chosen(T)}]
  <2> TAKE T \in SUBSET S
  <2>1. CASE T = {}
    BY <1>4, <2>1
  <2>2. CASE T # {}
    <3>1. Chosen(T) \in S /\ pick[T] = Chosen(T) /\ g[T \ {Chosen(T)}] \in Int
      BY <1>2, <1>4, <2>2
    <3> QED
      BY <1>4, <2>2, <3>1
  <2> QED
    BY <2>1, <2>2
<1>6. it = Sum(it)
  <2>1. g = Sum(g)
    BY <1>4, <1>5 DEF Chosen
  <2> HIDE DEF Sum
  <2> QED
    BY <2>1
<1>7. /\ it = [T \in SUBSET S |-> IF T = {} THEN 0 ELSE f[Chosen(T)] + it[T \ {Chosen(T)}]]
      /\ SumOf(f, S) = it[S]
  <2> HIDE DEF it
  <2> QED
    BY <1>1, <1>6 DEF Chosen, it
<1> HIDE DEF it
<1>8. /\ it[{}] = 0
      /\ \A T \in SUBSET S : T # {} => it[T] = f[Chosen(T)] + it[T \ {Chosen(T)}]
  BY <1>7
<1> DEFINE G == {T \in SUBSET S : it[T] \in Int}
<1>9. ASSUME NEW T \in SUBSET S, \A U \in SUBSET T : U # T => U \in G
      PROVE  T \in G
  <2>1. CASE T = {}
    BY <1>8, <2>1
  <2>2. CASE T # {}
    <3>1. Chosen(T) \in T
      BY <1>2, <2>2
    <3>2. T \ {Chosen(T)} \in G
      BY <1>9, <3>1
    <3>3. f[Chosen(T)] \in Int /\ it[T \ {Chosen(T)}] \in Int
      BY <3>1, <3>2
    <3>4. it[T] = f[Chosen(T)] + it[T \ {Chosen(T)}]
      BY <1>8, <2>2
    <3>5. it[T] \in Int
      BY <3>3, <3>4
    <3> QED
      BY <3>5
  <2> QED
    BY <2>1, <2>2
<1>10. \A T \in SUBSET S : it[T] \in Int
  <2>1. \A T \in SUBSET S : T \in G
    <3> HIDE DEF G
    <3> QED
      BY <1>9, SubsetInduction
  <2> QED
    BY <2>1
<1>11. IsSumOf(it, f, S)
  BY <1>2, <1>7, <1>8, <1>10 DEF IsSumOf
<1> QED
  BY <1>7, <1>11

\* A sum is an integer, and the sum of zeros is zero.
LEMMA SumOfZeros ==
  ASSUME NEW S, IsFiniteSet(S), NEW f \in [S -> Int]
  PROVE  /\ SumOf(f, S) \in Int
         /\ (\A x \in S : f[x] = 0) => SumOf(f, S) = 0
<1>1. PICK it : IsSumOf(it, f, S) /\ SumOf(f, S) = it[S]
  BY SumSolves
<1>2. it[S] \in Int
  BY <1>1 DEF IsSumOf
<1>3. ASSUME \A x \in S : f[x] = 0
      PROVE  it[S] = 0
  <2> DEFINE G == {T \in SUBSET S : it[T] = 0}
  <2>1. ASSUME NEW T \in SUBSET S, \A U \in SUBSET T : U # T => U \in G
        PROVE  T \in G
    <3>1. CASE T = {}
      BY <1>1, <3>1 DEF IsSumOf
    <3>2. CASE T # {}
      <4>1. Chosen(T) \in T /\ it[T] = f[Chosen(T)] + it[T \ {Chosen(T)}]
        BY <1>1, <3>2 DEF IsSumOf
      <4>2. it[T \ {Chosen(T)}] = 0 /\ f[Chosen(T)] = 0
        BY <1>3, <2>1, <4>1
      <4> QED
        BY <4>1, <4>2
    <3> QED
      BY <3>1, <3>2
  <2>2. S \in G
    <3> HIDE DEF G
    <3> QED
      BY <2>1, SubsetInduction
  <2> QED
    BY <2>2
<1> QED
  BY <1>1, <1>2, <1>3

\* A sum changes by what one of its terms changes by.
LEMMA SumChanges ==
  ASSUME NEW S, IsFiniteSet(S), NEW f \in [S -> Int], NEW k \in [S -> Int],
         NEW x \in S, \A y \in S : y # x => k[y] = f[y]
  PROVE  SumOf(k, S)
           = SumOf(f, S) + (k[x] - f[x])
<1>1. PICK it : IsSumOf(it, f, S) /\ SumOf(f, S) = it[S]
  BY SumSolves
<1>2. PICK jt : IsSumOf(jt, k, S) /\ SumOf(k, S) = jt[S]
  BY SumSolves
<1> DEFINE d == k[x] - f[x]
           G == {T \in SUBSET S : jt[T] = it[T] + (IF x \in T THEN d ELSE 0)}
<1>3. ASSUME NEW T \in SUBSET S, \A U \in SUBSET T : U # T => U \in G
      PROVE  T \in G
  <2>1. CASE T = {}
    BY <1>1, <1>2, <2>1 DEF IsSumOf
  <2>2. CASE T # {}
    <3> DEFINE a == Chosen(T)
               U == T \ {a}
    <3>1. /\ a \in T /\ U \in SUBSET S
          /\ it[T] = f[a] + it[U] /\ jt[T] = k[a] + jt[U]
          /\ it[U] \in Int /\ jt[U] \in Int /\ f[a] \in Int /\ k[a] \in Int
      BY <1>1, <1>2, <2>2 DEF IsSumOf
    <3>2. U \in G
      <4> HIDE DEF a, G
      <4> QED
        BY <1>3, <3>1
    <3>3. jt[U] = it[U] + (IF x \in U THEN d ELSE 0) /\ d \in Int
      BY <3>2
    <3> HIDE DEF a, U, d
    <3>4. CASE a = x
      <4>1. x \notin U /\ x \in T /\ k[a] = f[a] + d
        BY <3>1, <3>4 DEF U, d
      <4>2. jt[T] = it[T] + d
        BY <3>1, <3>3, <4>1
      <4> QED
        BY <4>1, <4>2
    <3>5. CASE a # x
      <4>1. k[a] = f[a] /\ (x \in U <=> x \in T)
        BY <3>1, <3>5 DEF U
      <4>2. jt[T] = it[T] + (IF x \in T THEN d ELSE 0)
        BY <3>1, <3>3, <4>1
      <4> QED
        BY <4>2
    <3> QED
      BY <3>4, <3>5
  <2> QED
    BY <2>1, <2>2
<1>4. S \in G
  <2> HIDE DEF G
  <2> QED
    BY <1>3, SubsetInduction
<1> QED
  BY <1>1, <1>2, <1>4

\* A sum of naturals is a natural.
LEMMA SumOfNaturals ==
  ASSUME NEW S, IsFiniteSet(S), NEW f \in [S -> Nat]
  PROVE  SumOf(f, S) \in Nat
<1>0. f \in [S -> Int]
  OBVIOUS
<1>1. PICK it : IsSumOf(it, f, S) /\ SumOf(f, S) = it[S]
  BY <1>0, SumSolves
<1> DEFINE G == {T \in SUBSET S : it[T] \in Nat}
<1>2. ASSUME NEW T \in SUBSET S, \A U \in SUBSET T : U # T => U \in G
      PROVE  T \in G
  <2>1. CASE T = {}
    BY <1>1, <2>1 DEF IsSumOf
  <2>2. CASE T # {}
    <3>1. Chosen(T) \in T /\ it[T] = f[Chosen(T)] + it[T \ {Chosen(T)}]
      BY <1>1, <2>2 DEF IsSumOf
    <3>2. it[T \ {Chosen(T)}] \in Nat /\ f[Chosen(T)] \in Nat
      BY <1>2, <3>1
    <3> QED
      BY <3>1, <3>2
  <2> QED
    BY <2>1, <2>2
<1>3. S \in G
  <2> HIDE DEF G
  <2> QED
    BY <1>2, SubsetInduction
<1> QED
  BY <1>1, <1>3
-----------------------------------------------------------------------------
(* Walks over a sequence.  FoldLeft takes the largest index left, last.    *)

\* A set of indices that is not empty has a largest one.
LEMMA LargestIndex ==
  ASSUME NEW n \in Nat, NEW T \in SUBSET (1..n), T # {}
  PROVE  Max(T) \in T /\ \A t \in T : t <= Max(T)
<1> DEFINE Back == {n - t : t \in T}
<1>1. Back \in SUBSET Nat /\ Back # {}
  <2>1. \A t \in T : t \in Int /\ n - t \in Nat
    OBVIOUS
  <2> QED
    BY <2>1
<1>2. PICK b \in Back : \A c \in Back : b <= c
  <2> HIDE DEF Back
  <2> QED
    BY <1>1, LeastElement
<1>3. PICK m \in T : b = n - m
  OBVIOUS
<1>4. \A t \in T : m >= t
  <2> TAKE t \in T
  <2>1. n - t \in Back /\ t \in Int /\ m \in Int
    OBVIOUS
  <2> QED
    BY <1>2, <1>3, <2>1
<1>5. Max(T) \in T /\ \A t \in T : Max(T) >= t
  BY <1>4 DEF Max
<1> QED
  BY <1>5

\* What a walk over n indices may compute: what h makes of the last index and
\* of the walk over the others.
Walks(n, C, base, h) ==
  {g \in [SUBSET (1..n) -> C] : \A T \in SUBSET (1..n) :
     g[T] = IF T = {} THEN base ELSE h[<<Max(T), g[T \ {Max(T)}]>>]}

\* There is a walk that never leaves C when h does not.
LEMMA WalkExists ==
  ASSUME NEW n \in Nat, NEW C, NEW base \in C, NEW h \in [(1..n) \X C -> C]
  PROVE  Walks(n, C, base, h) # {}
<1> DEFINE pick == [T \in SUBSET (1..n) |-> Max(T)]
<1>1. \A T \in SUBSET (1..n) : T # {} => pick[T] \in T /\ pick[T] = Max(T)
  BY LargestIndex
<1>2. IsFiniteSet(1..n)
  BY FS_Interval
<1>3. PICK g \in FoldSolutions(1..n, C, base, pick, h) : TRUE
  <2> HIDE DEF pick
  <2> QED
    BY <1>1, <1>2, FoldExists
<1> QED
  BY <1>1, <1>3 DEF FoldSolutions, Walks

\* What holds of the empty set of indices, and of each set with an element
\* more than one it holds of, holds of all of them.
LEMMA WalkInduction ==
  ASSUME NEW n \in Nat, NEW G, {} \in G,
         \A T \in SUBSET (1..n) : T # {} /\ T \ {Max(T)} \in G => T \in G
  PROVE  \A T \in SUBSET (1..n) : T \in G
<1> DEFINE S == 1..n
<1>1. ASSUME NEW T \in SUBSET S, \A U \in SUBSET T : U # T => U \in G
      PROVE  T \in G
  <2>1. CASE T # {}
    <3>1. Max(T) \in T
      BY <2>1, LargestIndex
    <3>2. T \ {Max(T)} \in G
      BY <1>1, <3>1
    <3> QED
      BY <2>1, <3>2
  <2> QED
    BY <2>1
<1>2. IsFiniteSet(S)
  BY FS_Interval
<1>3. \A T \in SUBSET S : T \in G
  <2> HIDE DEF S
  <2> QED
    BY <1>1, <1>2, SubsetInduction
<1> QED
  BY <1>3

\* A fold that stays in C.
LEMMA FoldStays ==
  ASSUME NEW n \in Nat, NEW C, NEW base \in C, NEW it,
         it[{}] = base,
         \A T \in SUBSET (1..n) : T # {} /\ it[T \ {Max(T)}] \in C => it[T] \in C
  PROVE  it[1..n] \in C
<1> DEFINE S == 1..n
           G == {T \in SUBSET S : it[T] \in C}
<1>1. {} \in G
  OBVIOUS
<1>2. ASSUME NEW T \in SUBSET S, T # {}, T \ {Max(T)} \in G PROVE T \in G
  BY <1>2
<1>3. S \in G
  <2> HIDE DEF G
  <2> QED
    BY <1>1, <1>2, WalkInduction
<1> QED
  BY <1>3

\* Sequences put one after another, as far as each of them.
Flattens(f, seqs, L) ==
  /\ f \in [0..Len(seqs) -> Seq(L)] /\ f[0] = <<>>
  /\ \A k \in 1..Len(seqs) : f[k] = f[k - 1] \o seqs[k]

\* FlattenSeq has such a walk, and ends where it does.
LEMMA FlattenWalk ==
  ASSUME NEW L, NEW seqs \in Seq(Seq(L))
  PROVE  \E f : Flattens(f, seqs, L) /\ FlattenSeq(seqs) = f[Len(seqs)]
<1> DEFINE n == Len(seqs)
           Value(f, i) == IF i = 1 THEN seqs[i] ELSE f[i - 1] \o seqs[i]
           flatten == CHOOSE f : f = [i \in 1..n |-> Value(f, i)]
<1>1. n \in Nat /\ \A i \in 1..n : seqs[i] \in Seq(L)
  OBVIOUS
<1>2. CASE n = 0
  <2>1. FlattenSeq(seqs) = seqs /\ seqs = <<>>
    BY <1>2 DEF FlattenSeq
  <2> DEFINE f == [k \in 0..n |-> <<>>]
  <2>2. Flattens(f, seqs, L) /\ f[n] = <<>>
    BY <1>2 DEF Flattens
  <2> QED
    BY <2>1, <2>2
<1>3. CASE n # 0
  <2>1. FlattenSeq(seqs) = flatten[n]
    BY <1>3 DEF FlattenSeq
  <2> DEFINE Upto(k, f) == \A i \in 1..k : f[i] = Value(f, i)
             N == {k \in 0..n : \E f \in [1..n -> Seq(L)] : Upto(k, f)}
  <2>2. 0 \in N
    <3>1. [i \in 1..n |-> <<>>] \in [1..n -> Seq(L)]
      OBVIOUS
    <3> QED
      BY <1>1, <3>1
  <2>3. ASSUME NEW k \in 0..n, k < n, k \in N PROVE k + 1 \in N
    <3>1. PICK f \in [1..n -> Seq(L)] : Upto(k, f)
      BY <2>3
    <3> DEFINE v == Value(f, k + 1)
               e == [f EXCEPT ![k + 1] = v]
    <3>2. k + 1 \in 1..n /\ v \in Seq(L)
      <4>1. k + 1 \in 1..n
        BY <2>3
      <4>2. seqs[k + 1] \in Seq(L)
        BY <1>1, <4>1
      <4>3. k + 1 # 1 => (k + 1) - 1 \in 1..n /\ f[(k + 1) - 1] \in Seq(L)
        <5>1. (k + 1) - 1 = k /\ (k + 1 # 1 => k \in 1..n)
          BY <1>1, <2>3
        <5>2. \A i \in 1..n : f[i] \in Seq(L)
          OBVIOUS
        <5> QED
          BY <5>1, <5>2
      <4> QED
        BY <4>1, <4>2, <4>3
    <3> HIDE DEF v
    <3>3. e \in [1..n -> Seq(L)]
      BY <3>2
    <3>4. ASSUME NEW i \in 1..(k + 1) PROVE e[i] = Value(e, i)
      <4>1. e[k + 1] = v /\ \A j \in 1..k : e[j] = f[j]
        BY <3>2
      <4>2. CASE i = k + 1
        BY <4>1, <4>2 DEF v
      <4>3. CASE i # k + 1
        <5>1. i \in 1..k /\ (i # 1 => i - 1 \in 1..k)
          BY <4>3
        <5> QED
          BY <3>1, <4>1, <5>1
      <4> QED
        BY <4>2, <4>3
    <3> HIDE DEF e, Value
    <3>5. Upto(k + 1, e) /\ k + 1 \in 0..n
      BY <1>1, <2>3, <3>4
    <3> HIDE DEF Upto
    <3> QED
      BY <3>3, <3>5
  <2>4. n \in N
    <3>1. \A k \in 0..n : k \in N
      <4> HIDE DEF N
      <4> QED
        BY <1>1, <2>2, <2>3, InductionUpTo
    <3>2. n \in 0..n
      BY <1>1
    <3> HIDE DEF N
    <3> QED
      BY <3>1, <3>2
  <2>5. PICK f \in [1..n -> Seq(L)] : Upto(n, f)
    BY <2>4
  <2>6. f = [i \in 1..n |-> Value(f, i)]
    BY <2>5
  <2>7. flatten = [i \in 1..n |-> Value(flatten, i)]
    <3> HIDE DEF Value
    <3> QED
      BY <2>6
  <2> HIDE DEF flatten
  <2> DEFINE M == {k \in 0..n : k # 0 => flatten[k] \in Seq(L)}
  <2>8. ASSUME NEW k \in 0..n, k < n, k \in M PROVE k + 1 \in M
    <3>1. k + 1 \in 1..n /\ seqs[k + 1] \in Seq(L)
      BY <1>1, <2>8
    <3>2. flatten[k + 1] = Value(flatten, k + 1)
      BY <2>7, <3>1
    <3>3. flatten[k + 1] \in Seq(L)
      BY <2>8, <3>1, <3>2
    <3> QED
      BY <3>1, <3>3
  <2>9. \A k \in 0..n : k \in M
    <3>1. 0 \in M
      BY <1>1
    <3> HIDE DEF M
    <3> QED
      BY <1>1, <2>8, <3>1, InductionUpTo
  <2> DEFINE it == [k \in 0..n |-> IF k = 0 THEN <<>> ELSE flatten[k]]
  <2>10. it \in [0..n -> Seq(L)]
    <3>1. \A k \in 0..n : (IF k = 0 THEN <<>> ELSE flatten[k]) \in Seq(L)
      <4>1. <<>> \in Seq(L)
        OBVIOUS
      <4> QED
        BY <2>9, <4>1
    <3> QED
      BY <3>1
  <2>11. ASSUME NEW k \in 1..n PROVE it[k] = it[k - 1] \o seqs[k]
    <3>1. k \in 0..n /\ k - 1 \in 0..n /\ k # 0 /\ it[k] = flatten[k]
      BY <1>1
    <3>2. flatten[k] = IF k = 1 THEN seqs[k] ELSE flatten[k - 1] \o seqs[k]
      BY <2>7
    <3>3. CASE k = 1
      <4>1. it[k - 1] = <<>> /\ seqs[k] \in Seq(L)
        BY <1>1, <3>3
      <4>2. <<>> \o seqs[k] = seqs[k]
        BY <4>1
      <4> QED
        BY <3>1, <3>2, <3>3, <4>1, <4>2
    <3>4. CASE k # 1
      <4>1. it[k - 1] = flatten[k - 1]
        BY <3>1, <3>4
      <4> QED
        BY <3>1, <3>2, <3>4, <4>1
    <3> QED
      BY <3>3, <3>4
  <2>12. it[0] = <<>> /\ it[n] = flatten[n]
    BY <1>1, <1>3
  <2> HIDE DEF it
  <2>13. Flattens(it, seqs, L)
    BY <2>10, <2>11, <2>12 DEF Flattens
  <2> QED
    BY <2>1, <2>12, <2>13
<1> QED
  BY <1>2, <1>3

\* Sequences of members of L, flattened, are a sequence of members of L.
LEMMA FlattenType ==
  ASSUME NEW L, NEW seqs \in Seq(Seq(L))
  PROVE  FlattenSeq(seqs) \in Seq(L)
<1>1. PICK f : Flattens(f, seqs, L) /\ FlattenSeq(seqs) = f[Len(seqs)]
  BY FlattenWalk
<1>2. Len(seqs) \in 0..Len(seqs)
  OBVIOUS
<1> QED
  BY <1>1, <1>2 DEF Flattens

\* Sequences that agree but for the last one are flattened alike up to there.
LEMMA FlattenLast ==
  ASSUME NEW L, NEW ss \in Seq(Seq(L)), NEW tt \in Seq(Seq(L)), Len(tt) # 0,
         Len(tt) <= Len(ss) + 1, \A k \in 1..(Len(tt) - 1) : tt[k] = ss[k],
         NEW f, Flattens(f, ss, L)
  PROVE  FlattenSeq(tt) = f[Len(tt) - 1] \o tt[Len(tt)]
<1> DEFINE m == Len(tt)
<1>0. m \in Nat /\ m # 0 /\ Len(ss) \in Nat /\ m - 1 \in 0..Len(ss)
  OBVIOUS
<1>1. PICK g : Flattens(g, tt, L) /\ FlattenSeq(tt) = g[m]
  BY FlattenWalk
<1> DEFINE N == {k \in 0..(m - 1) : g[k] = f[k]}
<1>2. 0 \in N
  BY <1>0, <1>1 DEF Flattens
<1>3. ASSUME NEW k \in 0..(m - 1), k < m - 1 /\ k \in N PROVE k + 1 \in N
  <2>1. k + 1 \in 1..(m - 1) /\ k + 1 \in 1..m /\ k + 1 \in 1..Len(ss) /\ (k + 1) - 1 = k
    <3>1. k \in 0..(m - 1) /\ k < m - 1
      BY <1>3
    <3> QED
      BY <1>0, <3>1
  <2>2. g[k + 1] = g[k] \o tt[k + 1] /\ f[k + 1] = f[k] \o ss[k + 1]
    BY <1>1, <2>1 DEF Flattens
  <2>3. tt[k + 1] = ss[k + 1] /\ g[k] = f[k]
    BY <1>3, <2>1
  <2>4. g[k + 1] = f[k + 1] /\ k + 1 \in 0..(m - 1)
    BY <1>0, <2>1, <2>2, <2>3
  <2> QED
    BY <2>4
<1>4. \A k \in 0..(m - 1) : k \in N
  <2>1. m - 1 \in Nat
    BY <1>0
  <2> HIDE DEF N, m
  <2> QED
    BY <1>2, <1>3, <2>1, InductionUpTo
<1>5. g[m - 1] = f[m - 1]
  BY <1>0, <1>4
<1>6. g[m] = g[m - 1] \o tt[m]
  <2>1. m \in 1..m
    BY <1>0
  <2> QED
    BY <1>1, <2>1 DEF Flattens
<1> QED
  BY <1>1, <1>5, <1>6

\* One sequence more.
LEMMA FlattenAppend ==
  ASSUME NEW L, NEW ss \in Seq(Seq(L)), NEW s \in Seq(L)
  PROVE  FlattenSeq(Append(ss, s)) = FlattenSeq(ss) \o s
<1> DEFINE tt == Append(ss, s)
<1>1. /\ tt \in Seq(Seq(L)) /\ Len(tt) = Len(ss) + 1 /\ tt[Len(tt)] = s
      /\ \A k \in 1..Len(ss) : tt[k] = ss[k]
      /\ Len(ss) \in Nat
  OBVIOUS
<1>2. PICK f : Flattens(f, ss, L) /\ FlattenSeq(ss) = f[Len(ss)]
  BY FlattenWalk
<1> HIDE DEF tt
<1>3. Len(tt) # 0 /\ Len(tt) <= Len(ss) + 1 /\ Len(tt) - 1 = Len(ss)
  BY <1>1
<1>4. FlattenSeq(tt) = f[Len(tt) - 1] \o tt[Len(tt)]
  BY <1>1, <1>2, <1>3, FlattenLast
<1> QED
  BY <1>1, <1>2, <1>3, <1>4 DEF tt

\* One element more in the last sequence.
LEMMA FlattenExtend ==
  ASSUME NEW L, NEW ss \in Seq(Seq(L)), NEW tt \in Seq(Seq(L)), NEW x \in L,
         Len(tt) = Len(ss), Len(tt) # 0, \A k \in 1..(Len(tt) - 1) : tt[k] = ss[k],
         tt[Len(tt)] = Append(ss[Len(tt)], x)
  PROVE  FlattenSeq(tt) = Append(FlattenSeq(ss), x)
<1> DEFINE m == Len(tt)
<1>1. PICK f : Flattens(f, ss, L) /\ FlattenSeq(ss) = f[m]
  BY FlattenWalk
<1>2. m \in Nat /\ m \in 1..Len(ss) /\ m - 1 \in 0..Len(ss) /\ m <= Len(ss) + 1
  OBVIOUS
<1>3. FlattenSeq(tt) = f[m - 1] \o tt[m]
  BY <1>1, <1>2, FlattenLast
<1>4. f[m - 1] \in Seq(L) /\ ss[m] \in Seq(L) /\ f[m] = f[m - 1] \o ss[m]
  <2>1. f[m - 1] \in Seq(L)
    BY <1>1, <1>2 DEF Flattens
  <2>2. f[m] = f[m - 1] \o ss[m]
    <3>1. \A k \in 1..Len(ss) : f[k] = f[k - 1] \o ss[k]
      BY <1>1 DEF Flattens
    <3>2. m \in 1..Len(ss)
      BY <1>2
    <3> HIDE DEF m
    <3> QED
      BY <3>1, <3>2
  <2>3. ss[m] \in Seq(L)
    BY <1>2
  <2> QED
    BY <2>1, <2>2, <2>3
<1>5. \A a, b \in Seq(L) : a \o Append(b, x) = Append(a \o b, x)
  OBVIOUS
<1> QED
  BY <1>1, <1>3, <1>4, <1>5

-----------------------------------------------------------------------------
(* Lists of some of the elements of a sequence.                             *)

\* The list fs is what found has at the positions of S: at says where each of
\* them is found.
Listing(found, S, fs, at) ==
  /\ at \in [1..Len(fs) -> S]
  /\ \A k, q \in 1..Len(fs) : at[k] = at[q] => k = q
  /\ \A i \in S : \E k \in 1..Len(fs) : at[k] = i
  /\ \A k \in 1..Len(fs) : fs[k] = found[at[k]]

\* The fold that Those is, walked along the positions.
Keeps(it, found, n, S) ==
  /\ it[{}] = <<>>
  /\ \A T \in SUBSET (1..n) : T # {} =>
       it[T] = IF Max(T) \in S THEN Append(it[T \ {Max(T)}], found[Max(T)])
               ELSE it[T \ {Max(T)}]

\* Those has such a walk, and ends where it does.
LEMMA ThoseWalk ==
  ASSUME NEW found, NEW n \in Nat, DOMAIN found = 1..n, NEW S
  PROVE  \E it : Keeps(it, found, n, S) /\ Those(found, S) = it[1..n]
<1> DEFINE F == {found[i] : i \in 1..n}
           C == Seq(F)
           Op(fs, i) == IF i \in S THEN Append(fs, found[i]) ELSE fs
           h == [e \in (1..n) \X C |-> Op(e[2], e[1])]
           s == [i \in DOMAIN found |-> i]
           W(it) == [T \in SUBSET DOMAIN s |->
                       IF T = {} THEN <<>> ELSE Op(it[T \ {Max(T)}], s[Max(T)])]
           it == CHOOSE it : it = W(it)
<1>0. \A i \in 1..n : found[i] \in F
  OBVIOUS
<1>1. DOMAIN s = 1..n /\ \A i \in 1..n : s[i] = i
  OBVIOUS
<1>2. Those(found, S) = it[DOMAIN s]
  BY DEF Those, FoldLeftDomain, FoldLeft, MapThenFoldSet
<1> HIDE DEF F
<1>3. ASSUME NEW fs \in C, NEW i \in 1..n PROVE Op(fs, i) \in C
  <2>1. Append(fs, found[i]) \in Seq(F)
    BY <1>0
  <2> QED
    BY <2>1
<1>4. <<>> \in C
  OBVIOUS
<1>5. PICK g \in [SUBSET (1..n) -> C] : \A T \in SUBSET (1..n) :
        g[T] = IF T = {} THEN <<>> ELSE h[<<Max(T), g[T \ {Max(T)}]>>]
  <2>1. h \in [(1..n) \X C -> C]
    <3> HIDE DEF C, Op
    <3> QED
      BY <1>3
  <2> HIDE DEF h, C
  <2>2. Walks(n, C, <<>>, h) # {}
    BY <1>4, <2>1, WalkExists
  <2> QED
    BY <2>2 DEF Walks
<1> HIDE DEF C
<1>6. g = W(g)
  <2>1. ASSUME NEW T \in SUBSET (1..n), T # {}
        PROVE  g[T] = Op(g[T \ {Max(T)}], s[Max(T)])
    <3>1. Max(T) \in 1..n /\ g[T \ {Max(T)}] \in C
      BY <2>1, LargestIndex
    <3> HIDE DEF Op
    <3>2. h[<<Max(T), g[T \ {Max(T)}]>>] = Op(g[T \ {Max(T)}], Max(T))
      BY <3>1
    <3> QED
      BY <1>1, <1>5, <2>1, <3>1, <3>2
  <2> HIDE DEF Op, h
  <2> QED
    BY <1>1, <1>5, <2>1
<1>7. it = W(it)
  <2> HIDE DEF W
  <2> QED
    BY <1>6
<1> HIDE DEF it
<1>8. it[{}] = <<>>
  BY <1>1, <1>7
<1>9. ASSUME NEW T \in SUBSET (1..n), T # {}
      PROVE  it[T] = Op(it[T \ {Max(T)}], Max(T))
  <2>1. Max(T) \in 1..n
    BY <1>9, LargestIndex
  <2> HIDE DEF Op
  <2> QED
    BY <1>1, <1>7, <1>9, <2>1
<1>10. Keeps(it, found, n, S)
  BY <1>8, <1>9 DEF Keeps
<1> QED
  BY <1>1, <1>2, <1>10

\* Those is such a list.
LEMMA ThoseAre ==
  ASSUME NEW found, NEW n \in Nat, DOMAIN found = 1..n, NEW S
  PROVE  /\ Those(found, S) \in Seq({found[i] : i \in 1..n})
         /\ \E at : Listing(found, S \cap 1..n, Those(found, S), at)
<1> DEFINE F == {found[i] : i \in 1..n}
           C == Seq(F)
           Op(fs, i) == IF i \in S THEN Append(fs, found[i]) ELSE fs
<1>0. \A i \in 1..n : found[i] \in F
  OBVIOUS
<1>1. PICK it : Keeps(it, found, n, S) /\ Those(found, S) = it[1..n]
  BY ThoseWalk
<1> HIDE DEF F
<1>3. ASSUME NEW fs \in C, NEW i \in 1..n PROVE Op(fs, i) \in C
  <2>1. Append(fs, found[i]) \in Seq(F)
    BY <1>0
  <2> QED
    BY <2>1
<1>4. <<>> \in C
  OBVIOUS
<1> HIDE DEF C
<1>8. it[{}] = <<>>
  BY <1>1 DEF Keeps
<1> DEFINE G == {T \in SUBSET (1..n) :
                   it[T] \in C /\ \E at : Listing(found, S \cap T, it[T], at)}
<1>9. {} \in G
  <2>1. Listing(found, S \cap {}, <<>>, <<>>)
    BY DEF Listing
  <2> QED
    BY <1>4, <1>8, <2>1
<1>10. ASSUME NEW T \in SUBSET (1..n), T # {}, T \ {Max(T)} \in G
       PROVE  T \in G
  <2> DEFINE i == Max(T)
             U == T \ {i}
             fs == it[U]
  <2>1. i \in T /\ i \in 1..n
    BY <1>10, LargestIndex
  <2>2. it[T] = Op(fs, i)
    BY <1>1, <1>10 DEF Keeps
  <2>3. fs \in C
    BY <1>10
  <2>4. PICK at : Listing(found, S \cap U, fs, at)
    BY <1>10
  <2> HIDE DEF i, fs
  <2>5. it[T] \in C
    BY <1>3, <2>1, <2>2, <2>3
  <2>6. CASE i \notin S
    <3>1. S \cap T = S \cap U /\ it[T] = fs
      BY <2>2, <2>6
    <3> QED
      BY <2>4, <2>5, <3>1
  <2>7. CASE i \in S
    <3> DEFINE new == Append(fs, found[i])
               len == Len(fs)
               to == [k \in 1..(len + 1) |-> IF k = len + 1 THEN i ELSE at[k]]
    <3>1. it[T] = new
      BY <2>2, <2>7
    <3>2. /\ len \in Nat /\ Len(new) = len + 1
          /\ new[len + 1] = found[i] /\ \A k \in 1..len : new[k] = fs[k]
      <4>1. fs \in Seq(F)
        BY <2>3 DEF C
      <4> QED
        BY <1>0, <2>1, <4>1
    <3> HIDE DEF new, len, U
    <3>3. /\ at \in [1..len -> S \cap U]
          /\ \A k, q \in 1..len : at[k] = at[q] => k = q
          /\ \A j \in S \cap U : \E k \in 1..len : at[k] = j
          /\ \A k \in 1..len : fs[k] = found[at[k]]
      BY <2>4 DEF Listing, len
    <3>4. S \cap T = (S \cap U) \cup {i} /\ i \notin U
      BY <2>1, <2>7 DEF U
    <3>5. to[len + 1] = i /\ \A k \in 1..len : to[k] = at[k]
      BY <3>2
    <3>6. to \in [1..(len + 1) -> S \cap T]
      BY <3>2, <3>3, <3>4
    <3> HIDE DEF to
    <3>7. \A k \in 1..(len + 1) : k = len + 1 \/ k \in 1..len
      BY <3>2
    <3>8. \A k \in 1..len : at[k] \in S \cap U
      BY <3>3
    <3>9. \A k, q \in 1..(len + 1) : to[k] = to[q] => k = q
      BY <3>3, <3>4, <3>5, <3>7, <3>8
    <3>10. \A j \in S \cap T : \E k \in 1..(len + 1) : to[k] = j
      <4>1. len + 1 \in 1..(len + 1) /\ \A k \in 1..len : k \in 1..(len + 1)
        BY <3>2
      <4> QED
        BY <3>3, <3>4, <3>5, <4>1
    <3>11. \A k \in 1..(len + 1) : new[k] = found[to[k]]
      BY <3>2, <3>3, <3>5, <3>7
    <3>12. Listing(found, S \cap T, new, to)
      BY <3>2, <3>6, <3>9, <3>10, <3>11 DEF Listing
    <3> QED
      BY <2>5, <3>1, <3>12
  <2> QED
    BY <2>6, <2>7
<1>11. \A T \in SUBSET (1..n) : T \in G
  <2> HIDE DEF G
  <2> QED
    BY <1>9, <1>10, WalkInduction
<1>12. it[1..n] \in C /\ \E at : Listing(found, S \cap 1..n, it[1..n], at)
  BY <1>11
<1> QED
  BY <1>1, <1>12 DEF C, F

\* How many of a list are in P.
CountIn(fs, P) == Cardinality({k \in DOMAIN fs : fs[k] \in P})

\* They are as many as there are at the positions it lists.
LEMMA ThoseCount ==
  ASSUME NEW found, NEW n \in Nat, DOMAIN found = 1..n, NEW S, NEW P
  PROVE  CountIn(Those(found, S), P) = Cardinality({i \in S \cap 1..n : found[i] \in P})
<1> DEFINE fs == Those(found, S)
           K == {k \in DOMAIN fs : fs[k] \in P}
           I == {i \in S \cap 1..n : found[i] \in P}
<1>1. fs \in Seq({found[i] : i \in 1..n})
  BY ThoseAre
<1>2. PICK at : Listing(found, S \cap 1..n, fs, at)
  BY ThoseAre
<1>3. DOMAIN fs = 1..Len(fs) /\ Len(fs) \in Nat
  BY <1>1
<1> HIDE DEF fs
<1> DEFINE f == [k \in K |-> at[k]]
<1>4. f \in Bijection(K, I)
  <2>1. \A k \in K : k \in 1..Len(fs) /\ at[k] \in S \cap 1..n /\ found[at[k]] \in P
    BY <1>2, <1>3 DEF Listing
  <2>2. f \in [K -> I]
    BY <2>1
  <2>3. \A k, q \in K : f[k] = f[q] => k = q
    BY <1>2, <2>1 DEF Listing
  <2>4. \A i \in I : \E k \in K : f[k] = i
    <3> TAKE i \in I
    <3>1. PICK k \in 1..Len(fs) : at[k] = i
      BY <1>2 DEF Listing
    <3>2. k \in K
      BY <1>2, <1>3, <3>1 DEF Listing
    <3> QED
      BY <3>1, <3>2
  <2> HIDE DEF f, K, I
  <2> QED
    BY <2>2, <2>3, <2>4 DEF Bijection, Injection, Surjection, IsInjective
<1>5. IsFiniteSet(K)
  <2>1. IsFiniteSet(1..Len(fs)) /\ K \subseteq 1..Len(fs)
    BY <1>3, FS_Interval
  <2> QED
    BY <2>1, FS_Subset
<1>6. Cardinality(K) = Cardinality(I)
  <2> HIDE DEF K, I, f
  <2> QED
    BY <1>4, <1>5, FS_Bijection DEF ExistsBijection
<1> QED
  BY <1>6 DEF CountIn, fs

\* The least of a set of indices.
LEMMA SelectsFirst ==
  ASSUME NEW I \in SUBSET Nat, NEW i \in I, \A j \in I : i <= j
  PROVE  Min(I) = i
<1>1. \A k \in I : (\A j \in I : k <= j) => k = i
  OBVIOUS
<1> QED
  BY <1>1 DEF Min

\* Positions of a list are finitely many.
LEMMA Positions ==
  ASSUME NEW n \in Nat, NEW K \in SUBSET (1..n)
  PROVE  IsFiniteSet(K) /\ Cardinality(K) \in Nat /\ Cardinality(K) <= n
<1>1. IsFiniteSet(1..n) /\ Cardinality(1..n) = n
  <2>1. n - 1 + 1 = n /\ (1 <= n \/ n = 0)
    OBVIOUS
  <2> QED
    BY <2>1, FS_Interval
<1> QED
  BY <1>1, FS_Subset, FS_CardinalityType

\* What a list of some elements of a sequence is made of, position by position.
Selects(p, found, n, S) ==
  /\ p[0] = <<>>
  /\ \A k \in 1..n : p[k] = IF k \in S THEN Append(p[k - 1], found[k]) ELSE p[k - 1]
  /\ \A m \in 0..n : Those(found, S \cap 1..m) = p[m]

\* Those, as a walk along the positions.
LEMMA ThoseUpTo ==
  ASSUME NEW found, NEW n \in Nat, DOMAIN found = 1..n, NEW S
  PROVE  \E p : Selects(p, found, n, S)
<1>1. PICK it : Keeps(it, found, n, S)
  BY ThoseWalk
<1> DEFINE p == [k \in 0..n |-> it[1..k]]
<1>2. ASSUME NEW k \in 1..n
      PROVE  /\ k \in 0..n /\ k - 1 \in 0..n /\ 1..k # {}
             /\ Max(1..k) = k /\ (1..k) \ {k} = 1..(k - 1)
  <2>1. 1..k \in SUBSET (1..n) /\ 1..k # {} /\ k \in 1..k
    <3>1. k \in 1..k
      OBVIOUS
    <3>2. \A t \in 1..k : t \in 1..n
      OBVIOUS
    <3> QED
      BY <3>1, <3>2
  <2>2. Max(1..k) \in 1..k /\ \A t \in 1..k : t <= Max(1..k)
    BY <2>1, LargestIndex
  <2>3. Max(1..k) = k
    BY <2>1, <2>2
  <2>4. (1..k) \ {k} = 1..(k - 1)
    OBVIOUS
  <2> QED
    BY <2>1, <2>3, <2>4
<1>3. ASSUME NEW R, NEW jt, Keeps(jt, found, n, R), NEW k \in 1..n
      PROVE  jt[1..k] = IF k \in R THEN Append(jt[1..(k - 1)], found[k]) ELSE jt[1..(k - 1)]
  <2>1. 1..k \in SUBSET (1..n)
    OBVIOUS
  <2> QED
    BY <1>2, <1>3, <2>1 DEF Keeps
<1>4. p[0] = <<>> /\ 1..0 = {}
  BY <1>1 DEF Keeps
<1>5. ASSUME NEW k \in 1..n
      PROVE  p[k] = IF k \in S THEN Append(p[k - 1], found[k]) ELSE p[k - 1]
  BY <1>1, <1>2, <1>3
<1>6. ASSUME NEW m \in 0..n PROVE Those(found, S \cap 1..m) = p[m]
  <2> DEFINE R == S \cap 1..m
  <2>1. PICK jt : Keeps(jt, found, n, R) /\ Those(found, R) = jt[1..n]
    BY ThoseWalk
  <2> DEFINE N == {k \in 0..n : jt[1..k] = p[IF k <= m THEN k ELSE m]}
  <2>2. 0 \in N
    BY <1>4, <2>1 DEF Keeps
  <2>3. ASSUME NEW k \in 0..n, k < n /\ k \in N PROVE k + 1 \in N
    <3>1. k + 1 \in 1..n /\ (k + 1) - 1 = k
      <4>1. k \in 0..n /\ k < n
        BY <2>3
      <4> QED
        BY <4>1
    <3>2. jt[1..(k + 1)] = IF k + 1 \in R THEN Append(jt[1..k], found[k + 1]) ELSE jt[1..k]
      BY <1>3, <2>1, <3>1
    <3>3. CASE k + 1 <= m
      <4>1. k + 1 \in R <=> k + 1 \in S
        BY <3>1, <3>3
      <4>2. jt[1..k] = p[k]
        BY <2>3, <3>3
      <4>3. jt[1..(k + 1)] = p[k + 1]
        BY <1>5, <3>1, <3>2, <4>1, <4>2
      <4> QED
        BY <3>1, <3>3, <4>3
    <3>4. CASE ~(k + 1 <= m)
      <4>1. k + 1 \notin R
        BY <3>4
      <4>2. jt[1..k] = p[m]
        <5>1. (IF k <= m THEN k ELSE m) = m
          BY <3>4
        <5> QED
          BY <2>3, <5>1
      <4> QED
        BY <3>1, <3>2, <3>4, <4>1, <4>2
    <3> QED
      BY <3>3, <3>4
  <2>4. \A k \in 0..n : k \in N
    <3> HIDE DEF N
    <3> QED
      BY <2>2, <2>3, InductionUpTo
  <2>5. n \in 0..n /\ (IF n <= m THEN n ELSE m) = m
    <3>1. n <= m => n = m
      OBVIOUS
    <3> QED
      BY <3>1
  <2> QED
    BY <2>1, <2>4, <2>5
<1> HIDE DEF p
<1>7. Selects(p, found, n, S)
  BY <1>4, <1>5, <1>6 DEF Selects
<1> QED
  BY <1>7

\* Whatever holds of nothing, and goes on from a sequence to one with an element
\* more, holds of every sequence.
LEMMA AppendInduction ==
  ASSUME NEW W, NEW G, <<>> \in G, \A s \in Seq(W) : \A w \in W : s \in G => Append(s, w) \in G
  PROVE  \A s \in Seq(W) : s \in G
<1> TAKE s \in Seq(W)
<1> DEFINE n == Len(s)
           N == {k \in 0..n : SubSeq(s, 1, k) \in G}
<1>1. n \in Nat /\ \A k \in 1..n : s[k] \in W
  OBVIOUS
<1>2. 0 \in N
  <2>1. SubSeq(s, 1, 0) = <<>>
    OBVIOUS
  <2>2. 0 \in 0..n
    BY <1>1
  <2> DEFINE nothing == SubSeq(s, 1, 0)
  <2> HIDE DEF nothing, n
  <2>3. nothing \in G
    BY <2>1 DEF nothing
  <2> QED
    BY <2>2, <2>3 DEF nothing
<1>3. ASSUME NEW k \in 0..n, k < n /\ k \in N PROVE k + 1 \in N
  <2>1. k \in Nat /\ k + 1 \in 1..n /\ k + 1 \in 0..n /\ k <= n
    <3>1. k \in 0..n /\ k < n
      BY <1>3
    <3> HIDE DEF N, n
    <3> QED
      BY <1>1, <3>1
  <2>2. SubSeq(s, 1, k) \in G
    BY <1>3
  <2>3. SubSeq(s, 1, k) \in Seq(W) /\ SubSeq(s, 1, k + 1) = Append(SubSeq(s, 1, k), s[k + 1])
    BY <2>1
  <2>4. SubSeq(s, 1, k + 1) \in G
    BY <1>1, <2>1, <2>2, <2>3
  <2> QED
    BY <2>1, <2>4
<1>4. \A k \in 0..n : k \in N
  <2> HIDE DEF N, n
  <2> QED
    BY <1>1, <1>2, <1>3, InductionUpTo
<1>5. n \in N
  BY <1>1, <1>4
<1>6. SubSeq(s, 1, n) = s
  BY <1>1
<1> QED
  BY <1>5, <1>6

\* The elements selected of a sequence with one more.
LEMMA ThoseAppend ==
  ASSUME NEW L, NEW s \in Seq(L), NEW w, NEW S, NEW R, \A i \in 1..Len(s) : i \in S <=> i \in R
  PROVE  /\ Those(<<>>, S) = <<>>
         /\ Those(Append(s, w), S) = IF Len(s) + 1 \in S THEN Append(Those(s, R), w) ELSE Those(s, R)
<1> DEFINE n == Len(s)
           t == Append(s, w)
<1>1. n \in Nat /\ DOMAIN s = 1..n /\ DOMAIN t = 1..(n + 1) /\ n + 1 \in Nat
      /\ t[n + 1] = w /\ \A i \in 1..n : t[i] = s[i]
  <2>1. s \in Seq(L \cup {w}) /\ w \in L \cup {w}
    OBVIOUS
  <2> QED
    BY <2>1
<1>2. \A i \in 1..n : i \in S <=> i \in R
  OBVIOUS
<1> HIDE DEF n, t
<1>3. PICK it : Keeps(it, t, n + 1, S) /\ Those(t, S) = it[1..(n + 1)]
  BY <1>1, ThoseWalk
<1>4. PICK jt : Keeps(jt, s, n, R) /\ Those(s, R) = jt[1..n]
  BY <1>1, ThoseWalk
<1> DEFINE G == {T \in SUBSET (1..n) : it[T] = jt[T]}
<1>5. {} \in G
  BY <1>3, <1>4 DEF Keeps
<1>6. ASSUME NEW T \in SUBSET (1..n), T # {} /\ T \ {Max(T)} \in G PROVE T \in G
  <2>1. Max(T) \in T /\ Max(T) \in 1..n /\ T \in SUBSET (1..(n + 1))
    <3>1. Max(T) \in T
      BY <1>1, <1>6, LargestIndex
    <3>2. \A i \in 1..n : i \in 1..(n + 1)
      BY <1>1
    <3> QED
      BY <3>1, <3>2
  <2> DEFINE m == Max(T)
             U == T \ {m}
  <2>2. it[U] = jt[U]
    BY <1>6
  <2>3. it[T] = IF m \in S THEN Append(it[U], t[m]) ELSE it[U]
    BY <1>3, <1>6, <2>1 DEF Keeps
  <2>4. jt[T] = IF m \in R THEN Append(jt[U], s[m]) ELSE jt[U]
    BY <1>4, <1>6 DEF Keeps
  <2>5. m \in 1..n
    BY <2>1
  <2> HIDE DEF m, U
  <2> QED
    BY <1>1, <1>2, <2>2, <2>3, <2>4, <2>5
<1>7. \A T \in SUBSET (1..n) : T \in G
  <2> HIDE DEF G
  <2> QED
    BY <1>1, <1>5, <1>6, WalkInduction
<1>8. it[1..n] = jt[1..n]
  BY <1>7
<1> DEFINE T == 1..(n + 1)
<1>9. T # {} /\ Max(T) = n + 1 /\ T \ {Max(T)} = 1..n
  <2>1. n + 1 \in T /\ \A i \in T : i <= n + 1
    BY <1>1
  <2>2. Max(T) \in T /\ \A i \in T : i <= Max(T)
    BY <1>1, <2>1, LargestIndex
  <2>3. Max(T) = n + 1
    BY <1>1, <2>1, <2>2
  <2>4. T \ {n + 1} = 1..n
    BY <1>1
  <2> QED
    BY <2>1, <2>3, <2>4
<1>10. it[T] = IF Max(T) \in S THEN Append(it[T \ {Max(T)}], t[Max(T)]) ELSE it[T \ {Max(T)}]
  BY <1>3, <1>9 DEF Keeps
<1>11. Those(t, S) = IF n + 1 \in S THEN Append(Those(s, R), w) ELSE Those(s, R)
  BY <1>1, <1>3, <1>4, <1>8, <1>9, <1>10
<1>12. Those(<<>>, S) = <<>>
  <2>1. DOMAIN <<>> = 1..0 /\ 0 \in Nat
    OBVIOUS
  <2>2. PICK kt : Keeps(kt, <<>>, 0, S) /\ Those(<<>>, S) = kt[1..0]
    BY <2>1, ThoseWalk
  <2>3. 1..0 = {}
    OBVIOUS
  <2> QED
    BY <2>2, <2>3 DEF Keeps
<1> QED
  BY <1>11, <1>12 DEF n, t

\* A sequence without the elements of P.
Without(s, P) == Those(s, {i \in DOMAIN s : s[i] \notin P})

\* Element by element.
LEMMA WithoutAppend ==
  ASSUME NEW L, NEW s \in Seq(L), NEW w, NEW P
  PROVE  /\ Without(<<>>, P) = <<>> /\ Without(s, P) \in Seq(L)
         /\ w \in P => Without(Append(s, w), P) = Without(s, P)
         /\ w \notin P => Without(Append(s, w), P) = Append(Without(s, P), w)
<1> DEFINE n == Len(s)
           t == Append(s, w)
           R == {i \in DOMAIN s : s[i] \notin P}
           S == {i \in DOMAIN t : t[i] \notin P}
           O == {i \in DOMAIN <<>> : <<>>[i] \notin P}
<1>1. n \in Nat /\ DOMAIN s = 1..n /\ DOMAIN t = 1..(n + 1)
      /\ t[n + 1] = w /\ \A i \in 1..n : t[i] = s[i] /\ s[i] \in L
  <2>1. s \in Seq(L \cup {w}) /\ w \in L \cup {w}
    OBVIOUS
  <2> QED
    BY <2>1
<1>2. Without(s, P) = Those(s, R) /\ Without(t, P) = Those(t, S) /\ Without(<<>>, P) = Those(<<>>, O)
  BY DEF Without
<1>4. \A i \in 1..n : i \in S <=> i \in R
  <2> HIDE DEF n, t
  <2>1. \A i \in 1..n : i \in 1..(n + 1)
    BY <1>1
  <2> QED
    BY <1>1, <2>1
<1>5. n + 1 \in S <=> w \notin P
  <2> HIDE DEF n, t
  <2>1. n + 1 \in 1..(n + 1)
    BY <1>1
  <2> QED
    BY <1>1, <2>1
<1> HIDE DEF O, S, R
<1>6. Those(t, S) = IF n + 1 \in S THEN Append(Those(s, R), w) ELSE Those(s, R)
  BY <1>4, ThoseAppend
<1>7. Those(<<>>, O) = <<>>
  <2>1. <<>> \in Seq({}) /\ \A i \in 1..Len(<<>>) : i \in O <=> i \in O
    OBVIOUS
  <2> QED
    BY <2>1, ThoseAppend
<1>8. Those(s, R) \in Seq(L)
  <2>1. Those(s, R) \in Seq({s[i] : i \in 1..n})
    <3> HIDE DEF n
    <3> QED
      BY <1>1, ThoseAre
  <2>2. {s[i] : i \in 1..n} \subseteq L
    BY <1>1
  <2> HIDE DEF n
  <2> DEFINE F == {s[i] : i \in 1..n}
  <2> HIDE DEF F
  <2>3. \A x \in Seq(F) : F \subseteq L => x \in Seq(L)
    OBVIOUS
  <2> QED
    BY <2>1, <2>2, <2>3 DEF F
<1> QED
  BY <1>2, <1>5, <1>6, <1>7, <1>8

\* A set of numbers has the least one that Min says.
LEMMA MinIs ==
  ASSUME NEW I \in SUBSET Nat, I # {}
  PROVE  Min(I) \in I /\ \A j \in I : Min(I) <= j
<1>1. PICK i \in I : \A j \in I : i <= j
  BY LeastElement
<1>2. Min(I) = i
  BY <1>1, SelectsFirst
<1> QED
  BY <1>1, <1>2

\* A sequence is one of a larger set.
LEMMA SeqOfMore ==
  ASSUME NEW A, NEW B, A \subseteq B, NEW x \in Seq(A)
  PROVE  x \in Seq(B)
OBVIOUS
=============================================================================
