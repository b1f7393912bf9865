-------------------------- MODULE Decisions_proofs --------------------------
(***************************************************************************)
(* What holds of every configuration, whatever files it is made of and     *)
(* however many, and however Cite is called: the nearest layer decides,    *)
(* what is overridden is told, what is accepted can be run.  The folds     *)
(* over a list of files are followed one file at a time (IsLoading); the   *)
(* facts about one more file come first.                                   *)
(***************************************************************************)
EXTENDS Decisions, Induction_proofs, SequenceTheorems, TLAPS

(***************************************************************************)
(* One more layer.                                                         *)
(***************************************************************************)
\* Every key is attributed to a file that says it, with the value it has.
Attributed(tree, sources) ==
  /\ DOMAIN sources = DOMAIN tree
  /\ \A key \in DOMAIN tree :
       /\ key \in DOMAIN FileAt[sources[key]].says
       /\ tree[key] = FileAt[sources[key]].says[key]

\* The file that --effective names says the value the run has: one more file
\* leaves every key attributed to a file that says it, as it says it
\* (LoadFiles, sourceOf).
THEOREM LayerKeepsAttribution ==
  ASSUME NEW tree, NEW sources, NEW path, Attributed(tree, sources)
  PROVE  Attributed(Conf!mergeTrees(tree, FileAt[path].says),
                    Conf!mergeTrees(sources, [key \in DOMAIN FileAt[path].says |-> path]))
<1> DEFINE says == FileAt[path].says
           from == [key \in DOMAIN says |-> path]
<1>1. DOMAIN from = DOMAIN says /\ \A key \in DOMAIN says : from[key] = path
  OBVIOUS
<1> HIDE DEF from
<1>2. DOMAIN Conf!mergeTrees(sources, from) = DOMAIN Conf!mergeTrees(tree, says)
  BY <1>1 DEF Attributed, Conf!mergeTrees
<1>3. ASSUME NEW key \in DOMAIN Conf!mergeTrees(tree, says)
      PROVE  LET s == Conf!mergeTrees(sources, from)[key]
             IN key \in DOMAIN FileAt[s].says
                /\ Conf!mergeTrees(tree, says)[key] = FileAt[s].says[key]
  <2>1. CASE key \in DOMAIN says
    <3>1. Conf!mergeTrees(sources, from)[key] = path
          /\ Conf!mergeTrees(tree, says)[key] = FileAt[path].says[key]
      BY <2>1, <1>1 DEF Conf!mergeTrees
    <3> QED
      BY <2>1, <3>1
  <2>2. CASE key \notin DOMAIN says
    <3>1. key \in DOMAIN tree /\ Conf!mergeTrees(sources, from)[key] = sources[key]
          /\ Conf!mergeTrees(tree, says)[key] = tree[key]
      BY <2>2, <1>1, <1>3 DEF Attributed, Conf!mergeTrees
    <3> QED
      BY <3>1 DEF Attributed
  <2> QED
    BY <2>1, <2>2
<1> QED
  BY <1>2, <1>3 DEF Attributed, from

\* The greater of two.
LEMMA MaxOfTwo ==
  ASSUME NEW a \in Int, NEW b \in Int
  PROVE  Conf!Max({a, b}) \in {a, b} /\ Conf!Max({a, b}) >= a /\ Conf!Max({a, b}) >= b
<1>1. \E x \in {a, b} : \A y \in {a, b} : x >= y
  OBVIOUS
<1> QED
  BY <1>1 DEF Conf!Max

\* A review whose deadline nobody pinned has the time to write all it may, at the
\* rate that is assumed, and never less than the default; and it always has a
\* cap (resolveRole, DerivedReviewTimeout).
THEOREM UnpinnedReviewHasTime ==
  ASSUME NEW c, c.Roles["review"].timeout = None,
         c.Roles["review"].max_output_tokens \in Int,
         NEW advertised \in Int,
         Conf!modelEntryMaxTokens(c, IF c.Roles["review"].model = None THEN c.model
                                ELSE c.Roles["review"].model) = advertised,
         ReviewTimeoutBase \in Nat, AssumedGenerationRate \in Nat \ {0},
         DefaultReviewTimeout \in Nat, DefaultReviewMaxOutputTokens \in Nat \ {0}
  PROVE  LET role == Conf!resolveRole(c, "review")
         IN /\ role.MaxOutputTokens > 0
            /\ role.Timeout >= DefaultReviewTimeout
            /\ role.Timeout >= ReviewTimeoutBase + role.MaxOutputTokens \div AssumedGenerationRate
<1> DEFINE role == Conf!resolveRole(c, "review")
           spec == c.Roles["review"]
           cap == IF spec.max_output_tokens > 0 THEN spec.max_output_tokens
                  ELSE IF advertised > 0 THEN advertised ELSE DefaultReviewMaxOutputTokens
<1>1. cap \in Nat \ {0}
  OBVIOUS
<1>2. role.MaxOutputTokens = cap /\ role.Timeout = Conf!DerivedReviewTimeout(cap)
  BY DEF Conf!resolveRole
<1> HIDE DEF cap, role
<1> DEFINE long == ReviewTimeoutBase + cap \div AssumedGenerationRate
<1>3. Conf!DerivedReviewTimeout(cap) = Conf!Max({long, DefaultReviewTimeout})
  BY <1>1 DEF Conf!DerivedReviewTimeout
<1>4. long \in Int /\ DefaultReviewTimeout \in Int
  BY <1>1
<1> HIDE DEF long
<1>5. Conf!Max({long, DefaultReviewTimeout}) >= DefaultReviewTimeout
      /\ Conf!Max({long, DefaultReviewTimeout}) >= long
  BY <1>4, MaxOfTwo
<1>6. role.Timeout >= DefaultReviewTimeout /\ role.Timeout >= long
  BY <1>2, <1>3, <1>5
<1> QED
  BY <1>1, <1>2, <1>6 DEF role, long

(***************************************************************************)
(* The walk over a list of files.                                          *)
(***************************************************************************)
\* The keys the files say, what they say of them, and partial maps.
Keys == UNION {DOMAIN FileAt[p].says : p \in Mappings}
Said(p) == {FileAt[p].says[key] : key \in DOMAIN FileAt[p].says}
Values == UNION {Said(p) : p \in Mappings}
Maps(K, V) == UNION {[D -> V] : D \in SUBSET K}

\* What a walk over a list of files may hold.
Loads ==
  [read : Seq(Files), tree : Maps(Keys, Values), probs : SUBSET (Keys \cup {<<>>}),
   overrides : SUBSET [key : Keys, file : Files], sources : Maps(Keys, Files),
   broken : BOOLEAN]

\* What a merge says.
LEMMA Merged ==
  ASSUME NEW a, NEW b
  PROVE  /\ DOMAIN Conf!mergeTrees(a, b) = DOMAIN a \cup DOMAIN b
         /\ \A key \in DOMAIN b : Conf!mergeTrees(a, b)[key] = b[key]
         /\ \A key \in DOMAIN a : key \notin DOMAIN b => Conf!mergeTrees(a, b)[key] = a[key]
BY DEF Conf!mergeTrees

\* A map is merged into a map.
LEMMA MergedMap ==
  ASSUME NEW K, NEW V, NEW a \in Maps(K, V), NEW b \in Maps(K, V)
  PROVE  Conf!mergeTrees(a, b) \in Maps(K, V)
<1>1. PICK D \in SUBSET K : a \in [D -> V]
  BY DEF Maps
<1>2. PICK E \in SUBSET K : b \in [E -> V]
  BY DEF Maps
<1> DEFINE m == [key \in D \cup E |-> IF key \in E THEN b[key] ELSE a[key]]
<1>3. Conf!mergeTrees(a, b) = m
  BY <1>1, <1>2 DEF Conf!mergeTrees
<1>4. m \in [D \cup E -> V] /\ D \cup E \in SUBSET K
  BY <1>1, <1>2
<1> QED
  BY <1>1, <1>2, <1>3, <1>4 DEF Maps

\* What a file says is a map.
LEMMA SaysMap ==
  ASSUME NEW p \in Mappings
  PROVE  /\ FileAt[p].says \in Maps(Keys, Values)
         /\ DOMAIN FileAt[p].says \subseteq Keys
         /\ [key \in DOMAIN FileAt[p].says |-> p] \in Maps(Keys, Files)
<1> DEFINE says == FileAt[p].says
           D == DOMAIN says
<1>1. says = [key \in D |-> says[key]] /\ p \in Files
  BY ConfigurationAssumption DEF Mappings
<1>2. D \in SUBSET Keys
  BY DEF Keys
<1>3. \A key \in D : says[key] \in Values
  BY DEF Values, Said
<1> HIDE DEF says
<1>4. says \in [D -> Values]
  BY <1>1, <1>3
<1>5. [key \in D |-> p] \in [D -> Files]
  BY <1>1
<1> HIDE DEF D
<1>6. says \in Maps(Keys, Values) /\ [key \in D |-> p] \in Maps(Keys, Files)
  BY <1>2, <1>4, <1>5 DEF Maps
<1> QED
  BY <1>2, <1>6 DEF D, says

\* The map of nothing.
LEMMA EmptyMap ==
  ASSUME NEW K, NEW V PROVE <<>> \in Maps(K, V)
<1>1. <<>> \in [{} -> V] /\ {} \in SUBSET K
  OBVIOUS
<1> QED
  BY <1>1 DEF Maps

\* Before the first file.
LEMMA UnreadType == Conf!Unread \in Loads
<1>1. <<>> \in Maps(Keys, Values) /\ <<>> \in Maps(Keys, Files)
  BY EmptyMap
<1> QED
  BY <1>1 DEF Conf!Unread, Loads

\* The five things one more file may be.
LEMMA OneFile ==
  ASSUME NEW acc, NEW p \in Files
  PROVE  \/ Conf!ReadFile(acc, p) = acc /\ (acc.broken \/ FileAt[p].state = "absent")
         \/ ~acc.broken /\ FileAt[p].state = "broken"
            /\ Conf!ReadFile(acc, p) = [acc EXCEPT !.broken = TRUE]
         \/ ~acc.broken /\ FileAt[p].state = "blank"
            /\ Conf!ReadFile(acc, p) = [acc EXCEPT !.read = Append(acc.read, p)]
         \/ ~acc.broken /\ FileAt[p].state = "list"
            /\ Conf!ReadFile(acc, p) = [acc EXCEPT !.read = Append(acc.read, p),
                                                   !.probs = @ \cup {<<>>}]
         \/ ~acc.broken /\ p \in Mappings
            /\ Conf!ReadFile(acc, p) =
                 [acc EXCEPT !.read = Append(acc.read, p),
                    !.probs = @ \cup Conf!schemaCheckFile(FileAt[p].says),
                    !.overrides = IF acc.read = <<>> THEN @
                                  ELSE @ \cup Conf!verdictOverrides(acc.tree, FileAt[p].says, p),
                    !.sources = Conf!mergeTrees(@, [key \in DOMAIN FileAt[p].says |-> p]),
                    !.tree = Conf!mergeTrees(@, FileAt[p].says)]
<1>1. FileAt[p].state \in {"absent", "broken", "blank", "list", "mapping"}
  BY ConfigurationAssumption
<1>2. CASE acc.broken \/ FileAt[p].state = "absent"
  BY <1>2 DEF Conf!ReadFile
<1>3. CASE ~acc.broken /\ FileAt[p].state = "broken"
  BY <1>3 DEF Conf!ReadFile
<1>4. CASE ~acc.broken /\ FileAt[p].state = "blank"
  BY <1>4 DEF Conf!ReadFile
<1>5. CASE ~acc.broken /\ FileAt[p].state = "list"
  BY <1>5 DEF Conf!ReadFile
<1>6. CASE ~acc.broken /\ FileAt[p].state = "mapping"
  BY <1>6 DEF Conf!ReadFile, Mappings
<1> QED
  BY <1>1, <1>2, <1>3, <1>4, <1>5, <1>6

\* One more file keeps the types.
LEMMA ReadFileType ==
  ASSUME NEW acc \in Loads, NEW p \in Files
  PROVE  Conf!ReadFile(acc, p) \in Loads
<1>1. /\ acc.read \in Seq(Files) /\ Append(acc.read, p) \in Seq(Files)
      /\ acc.tree \in Maps(Keys, Values) /\ acc.sources \in Maps(Keys, Files)
      /\ acc.probs \in SUBSET (Keys \cup {<<>>})
      /\ acc.overrides \in SUBSET [key : Keys, file : Files]
  BY DEF Loads
<1>2. CASE p \in Mappings /\ ~acc.broken
         /\ Conf!ReadFile(acc, p) =
                 [acc EXCEPT !.read = Append(acc.read, p),
                    !.probs = @ \cup Conf!schemaCheckFile(FileAt[p].says),
                    !.overrides = IF acc.read = <<>> THEN @
                                  ELSE @ \cup Conf!verdictOverrides(acc.tree, FileAt[p].says, p),
                    !.sources = Conf!mergeTrees(@, [key \in DOMAIN FileAt[p].says |-> p]),
                    !.tree = Conf!mergeTrees(@, FileAt[p].says)]
  <2> DEFINE says == FileAt[p].says
             from == [key \in DOMAIN says |-> p]
             tree == Conf!mergeTrees(acc.tree, says)
             sources == Conf!mergeTrees(acc.sources, from)
             probs == acc.probs \cup Conf!schemaCheckFile(says)
             overrides == IF acc.read = <<>> THEN acc.overrides
                          ELSE acc.overrides \cup Conf!verdictOverrides(acc.tree, says, p)
  <2>1. says \in Maps(Keys, Values) /\ DOMAIN says \subseteq Keys /\ from \in Maps(Keys, Files)
    BY <1>2, SaysMap
  <2>2. tree \in Maps(Keys, Values) /\ sources \in Maps(Keys, Files)
    <3> HIDE DEF says, from
    <3> QED
      BY <1>1, <2>1, MergedMap
  <2>3. probs \in SUBSET (Keys \cup {<<>>})
    BY <1>1, <2>1 DEF Conf!schemaCheckFile
  <2>4. overrides \in SUBSET [key : Keys, file : Files]
    <3>1. Conf!verdictOverrides(acc.tree, says, p) \in SUBSET [key : Keys, file : Files]
      BY <2>1 DEF Conf!verdictOverrides
    <3> HIDE DEF says
    <3> QED
      BY <1>1, <3>1
  <2>5. Conf!ReadFile(acc, p) =
          [acc EXCEPT !.read = Append(acc.read, p), !.probs = probs, !.overrides = overrides,
                      !.sources = sources, !.tree = tree]
    BY <1>2 DEF Loads
  <2> HIDE DEF tree, sources, probs, overrides
  <2> QED
    BY <1>1, <2>2, <2>3, <2>4, <2>5 DEF Loads
<1>3. CASE Conf!ReadFile(acc, p) = acc
  BY <1>3
<1>4. CASE Conf!ReadFile(acc, p) = [acc EXCEPT !.broken = TRUE]
  BY <1>4 DEF Loads
<1>5. CASE Conf!ReadFile(acc, p) = [acc EXCEPT !.read = Append(acc.read, p)]
  BY <1>1, <1>5 DEF Loads
<1>6. CASE Conf!ReadFile(acc, p) = [acc EXCEPT !.read = Append(acc.read, p),
                                               !.probs = @ \cup {<<>>}]
  BY <1>1, <1>6 DEF Loads
<1> QED
  BY <1>2, <1>3, <1>4, <1>5, <1>6, OneFile

\* The walk over a list of files, as a function of the places walked.
IsLoading(it, paths) ==
  /\ it \in [SUBSET (1..Len(paths)) -> Loads]
  /\ it[{}] = Conf!Unread
  /\ \A T \in SUBSET (1..Len(paths)) : T # {} =>
       /\ Max(T) \in T /\ \A t \in T : t <= Max(T)
       /\ it[T] = Conf!ReadFile(it[T \ {Max(T)}], paths[Max(T)])

\* There is such a walk, and the fold over the list is where it ends.
LEMMA LoadingExists ==
  ASSUME NEW paths \in Seq(Files)
  PROVE  \E it : /\ IsLoading(it, paths)
                 /\ FoldLeft(Conf!ReadFile, Conf!Unread, paths) = it[1..Len(paths)]
<1> DEFINE n == Len(paths)
           C == Loads
           h == [e \in (1..n) \X C |-> Conf!ReadFile(e[2], paths[e[1]])]
           Walk(s) == [T \in SUBSET DOMAIN paths |->
                         IF T = {} THEN Conf!Unread
                         ELSE Conf!ReadFile(s[T \ {Max(T)}], paths[Max(T)])]
           it == CHOOSE s : s = Walk(s)
<1>1. n \in Nat /\ DOMAIN paths = 1..n /\ \A i \in 1..n : paths[i] \in Files
  OBVIOUS
<1>2. FoldLeft(Conf!ReadFile, Conf!Unread, paths) = it[DOMAIN paths]
  BY DEF FoldLeft, MapThenFoldSet
<1>3. h \in [(1..n) \X C -> C]
  <2>1. \A e \in (1..n) \X C : Conf!ReadFile(e[2], paths[e[1]]) \in C
    <3> HIDE DEF C
    <3> SUFFICES ASSUME NEW i \in 1..n, NEW d \in C PROVE Conf!ReadFile(d, paths[i]) \in C
      OBVIOUS
    <3> QED
      BY <1>1, ReadFileType DEF C
  <2> QED
    BY <2>1
<1>4. PICK g \in [SUBSET (1..n) -> C] : \A T \in SUBSET (1..n) :
        g[T] = IF T = {} THEN Conf!Unread ELSE h[<<Max(T), g[T \ {Max(T)}]>>]
  <2>1. Conf!Unread \in C
    BY UnreadType
  <2> HIDE DEF h, C, n
  <2>2. Walks(n, C, Conf!Unread, h) # {}
    BY <1>1, <1>3, <2>1, WalkExists
  <2> QED
    BY <2>2 DEF Walks
<1>5. g = Walk(g)
  <2>1. ASSUME NEW T \in SUBSET (1..n), T # {}
        PROVE  g[T] = Conf!ReadFile(g[T \ {Max(T)}], paths[Max(T)])
    <3>1. Max(T) \in 1..n
      BY <1>1, <2>1, LargestIndex
    <3>2. g[T \ {Max(T)}] \in C
      BY <1>4
    <3> QED
      BY <1>4, <2>1, <3>1, <3>2
  <2> QED
    BY <1>1, <1>4, <2>1
<1>6. it = Walk(it)
  <2> HIDE DEF Walk
  <2> QED
    BY <1>5
<1>7. /\ it \in [SUBSET (1..n) -> Loads] /\ it[{}] = Conf!Unread
      /\ \A T \in SUBSET (1..n) : T # {} =>
           it[T] = Conf!ReadFile(it[T \ {Max(T)}], paths[Max(T)])
  <2>1. /\ DOMAIN it = SUBSET (1..n) /\ it = [T \in SUBSET (1..n) |-> it[T]]
        /\ it[{}] = Conf!Unread
        /\ \A T \in SUBSET (1..n) : T # {} =>
             it[T] = Conf!ReadFile(it[T \ {Max(T)}], paths[Max(T)])
    <3> HIDE DEF it
    <3> QED
      BY <1>1, <1>6
  <2> DEFINE G == {T \in SUBSET (1..n) : it[T] \in Loads}
  <2> HIDE DEF it, n
  <2>2. {} \in G
    BY <2>1, UnreadType
  <2>3. ASSUME NEW T \in SUBSET (1..n), T # {} /\ T \ {Max(T)} \in G PROVE T \in G
    <3>1. Max(T) \in 1..n
      BY <1>1, <2>3, LargestIndex
    <3>2. it[T \ {Max(T)}] \in Loads /\ paths[Max(T)] \in Files
      BY <1>1, <2>3, <3>1
    <3>3. Conf!ReadFile(it[T \ {Max(T)}], paths[Max(T)]) \in Loads
      BY <3>2, ReadFileType
    <3>4. it[T] = Conf!ReadFile(it[T \ {Max(T)}], paths[Max(T)])
      BY <2>1, <2>3
    <3> QED
      BY <2>3, <3>3, <3>4
  <2>4. \A T \in SUBSET (1..n) : T \in G
    <3> HIDE DEF G
    <3> QED
      BY <1>1, <2>2, <2>3, WalkInduction
  <2> QED
    BY <2>1, <2>4
<1> HIDE DEF it
<1>8. IsLoading(it, paths)
  BY <1>1, <1>7, LargestIndex DEF IsLoading
<1> QED
  BY <1>1, <1>2, <1>8

(***************************************************************************)
(* The last file that says a key.                                          *)
(***************************************************************************)
\* Which file a key of the merged tree is from: the last that says it, of those
\* walked.
FromLast(acc, paths, T) ==
  /\ DOMAIN acc.sources = DOMAIN acc.tree
  /\ ~acc.broken =>
       /\ \A i \in T :
            paths[i] \in Mappings => DOMAIN FileAt[paths[i]].says \subseteq DOMAIN acc.tree
       /\ \A key \in DOMAIN acc.tree : \E i \in T :
            /\ i \in Saying(paths, key)
            /\ \A j \in T : j \in Saying(paths, key) => j <= i
            /\ acc.tree[key] = FileAt[paths[i]].says[key] /\ acc.sources[key] = paths[i]

\* One more file leaves every key from the last file that says it.
LEMMA FromLastStep ==
  ASSUME NEW paths \in Seq(Files), NEW acc \in Loads, NEW T, NEW m \in DOMAIN paths,
         T \subseteq DOMAIN paths, m \notin T, \A t \in T : t <= m,
         FromLast(acc, paths, T)
  PROVE  FromLast(Conf!ReadFile(acc, paths[m]), paths, T \cup {m})
<1> DEFINE p == paths[m]
           new == Conf!ReadFile(acc, p)
           says == FileAt[p].says
           from == [key \in DOMAIN says |-> p]
           tree == Conf!mergeTrees(acc.tree, says)
           sources == Conf!mergeTrees(acc.sources, from)
<1>0. /\ p \in Files /\ DOMAIN paths = 1..Len(paths)
      /\ acc.tree \in Maps(Keys, Values) /\ acc.sources \in Maps(Keys, Files)
      /\ m \in Int /\ \A t \in T : t \in Int
  BY DEF Loads
<1>1. CASE ~acc.broken /\ p \in Mappings /\ new.tree = tree /\ new.sources = sources
  <2>1. /\ says \in Maps(Keys, Values) /\ from \in Maps(Keys, Files)
    BY <1>1, SaysMap
  <2>2. DOMAIN from = DOMAIN says /\ \A key \in DOMAIN says : from[key] = p
    OBVIOUS
  <2> HIDE DEF from
  <2>3. /\ DOMAIN tree = DOMAIN acc.tree \cup DOMAIN says
        /\ \A key \in DOMAIN says : tree[key] = says[key]
        /\ \A key \in DOMAIN acc.tree : key \notin DOMAIN says => tree[key] = acc.tree[key]
    <3> HIDE DEF says
    <3> QED
      BY Merged
  <2>4. /\ DOMAIN sources = DOMAIN acc.sources \cup DOMAIN says
        /\ \A key \in DOMAIN says : sources[key] = p
        /\ \A key \in DOMAIN acc.sources :
             key \notin DOMAIN says => sources[key] = acc.sources[key]
    <3>1. /\ DOMAIN sources = DOMAIN acc.sources \cup DOMAIN from
          /\ \A key \in DOMAIN from : sources[key] = from[key]
          /\ \A key \in DOMAIN acc.sources :
               key \notin DOMAIN from => sources[key] = acc.sources[key]
      BY Merged
    <3> HIDE DEF says, sources
    <3> QED
      BY <2>2, <3>1
  <2> HIDE DEF tree, sources
  <2>5. DOMAIN new.sources = DOMAIN new.tree
    BY <1>1, <2>3, <2>4 DEF FromLast
  <2>6. ASSUME NEW i \in T \cup {m}, paths[i] \in Mappings
        PROVE  DOMAIN FileAt[paths[i]].says \subseteq DOMAIN new.tree
    BY <1>1, <2>3, <2>6 DEF FromLast
  <2>7. ASSUME NEW key \in DOMAIN new.tree
        PROVE  \E i \in T \cup {m} :
                 /\ i \in Saying(paths, key)
                 /\ \A j \in T \cup {m} : j \in Saying(paths, key) => j <= i
                 /\ new.tree[key] = FileAt[paths[i]].says[key] /\ new.sources[key] = paths[i]
    <3>1. CASE key \in DOMAIN says
      <4>1. m \in Saying(paths, key)
        BY <1>1, <3>1 DEF Saying
      <4>2. \A j \in T \cup {m} : j <= m
        BY <1>0
      <4> QED
        BY <1>1, <2>3, <2>4, <3>1, <4>1, <4>2
    <3>2. CASE key \notin DOMAIN says
      <4>1. key \in DOMAIN acc.tree
        BY <1>1, <2>3, <3>2
      <4>2. PICK i \in T :
              /\ i \in Saying(paths, key)
              /\ \A j \in T : j \in Saying(paths, key) => j <= i
              /\ acc.tree[key] = FileAt[paths[i]].says[key] /\ acc.sources[key] = paths[i]
        BY <1>1, <4>1 DEF FromLast
      <4>3. m \notin Saying(paths, key)
        BY <3>2 DEF Saying
      <4>4. new.tree[key] = acc.tree[key] /\ new.sources[key] = acc.sources[key]
        BY <1>1, <2>3, <2>4, <3>2, <4>1 DEF FromLast
      <4> QED
        BY <4>2, <4>3, <4>4
    <3> QED
      BY <3>1, <3>2
  <2> QED
    BY <2>5, <2>6, <2>7 DEF FromLast
<1>2. CASE ~acc.broken /\ p \notin Mappings /\ new.tree = acc.tree /\ new.sources = acc.sources
           /\ new.broken \in BOOLEAN
  <2>1. \A key : m \notin Saying(paths, key)
    BY <1>2 DEF Saying
  <2> QED
    BY <1>2, <2>1 DEF FromLast
<1>3. CASE acc.broken /\ new = acc
  BY <1>3 DEF FromLast
<1>4. \/ ~acc.broken /\ p \in Mappings /\ new.tree = tree /\ new.sources = sources
      \/ ~acc.broken /\ p \notin Mappings /\ new.tree = acc.tree /\ new.sources = acc.sources
         /\ new.broken \in BOOLEAN
      \/ acc.broken /\ new = acc
  <2>0. acc.broken \in BOOLEAN
    BY DEF Loads
  <2>1. CASE acc.broken
    BY <2>1 DEF Conf!ReadFile
  <2>2. CASE ~acc.broken /\ p \in Mappings
    <3> DEFINE probs == acc.probs \cup Conf!schemaCheckFile(says)
               overrides == IF acc.read = <<>> THEN acc.overrides
                            ELSE acc.overrides \cup Conf!verdictOverrides(acc.tree, says, p)
    <3>0. FileAt[p].state = "mapping"
      BY <2>2 DEF Mappings
    <3>1. new.tree = tree /\ new.sources = sources
      <4>1. new = [acc EXCEPT !.read = Append(acc.read, p), !.probs = probs,
                     !.overrides = overrides, !.sources = sources, !.tree = tree]
        BY <2>2, <3>0 DEF Conf!ReadFile, Loads
      <4> HIDE DEF tree, sources, probs, overrides, new
      <4> QED
        BY <4>1 DEF Loads
    <3> QED
      BY <2>2, <3>1
  <2>3. CASE ~acc.broken /\ p \notin Mappings
    <3>1. new \in Loads
      BY <1>0, ReadFileType
    <3>2. new.tree = acc.tree /\ new.sources = acc.sources
      <4>1. FileAt[p].state \in {"absent", "broken", "blank", "list"}
        BY <1>0, <2>3, ConfigurationAssumption DEF Mappings
      <4>2. \/ new = acc \/ new = [acc EXCEPT !.broken = TRUE]
            \/ new = [acc EXCEPT !.read = Append(acc.read, p)]
            \/ new = [acc EXCEPT !.read = Append(acc.read, p), !.probs = @ \cup {<<>>}]
        BY <2>3, <4>1 DEF Conf!ReadFile
      <4> HIDE DEF new
      <4> QED
        BY <4>2 DEF Loads
    <3> QED
      BY <2>3, <3>1, <3>2 DEF Loads
  <2> QED
    BY <2>0, <2>1, <2>2, <2>3
<1> QED
  BY <1>1, <1>2, <1>3, <1>4

\* Of any list of files.
LEMMA LoadedFromLast ==
  ASSUME NEW paths \in Seq(Files)
  PROVE  LET all == FoldLeft(Conf!ReadFile, Conf!Unread, paths)
         IN all \in Loads /\ FromLast(all, paths, DOMAIN paths)
<1> DEFINE all == FoldLeft(Conf!ReadFile, Conf!Unread, paths)
           n == Len(paths)
<1>1. n \in Nat /\ DOMAIN paths = 1..n
  OBVIOUS
<1>2. PICK it : IsLoading(it, paths) /\ all = it[1..n]
  BY LoadingExists
<1> DEFINE G == {T \in SUBSET (1..n) : FromLast(it[T], paths, T)}
<1>3. {} \in G
  BY <1>2 DEF IsLoading, FromLast, Conf!Unread
<1>4. ASSUME NEW T \in SUBSET (1..n), T # {} /\ T \ {Max(T)} \in G PROVE T \in G
  <2>1. /\ Max(T) \in T /\ \A t \in T : t <= Max(T)
        /\ it[T \ {Max(T)}] \in Loads
        /\ it[T] = Conf!ReadFile(it[T \ {Max(T)}], paths[Max(T)])
    BY <1>2, <1>4 DEF IsLoading
  <2>2. FromLast(it[T], paths, (T \ {Max(T)}) \cup {Max(T)})
    <3> DEFINE m == Max(T)
               U == T \ {m}
               acc == it[U]
    <3>1. /\ m \in DOMAIN paths /\ U \subseteq DOMAIN paths /\ m \notin U
          /\ \A t \in U : t <= m
          /\ acc \in Loads /\ FromLast(acc, paths, U) /\ it[T] = Conf!ReadFile(acc, paths[m])
      BY <1>1, <1>4, <2>1
    <3> HIDE DEF m, U, acc
    <3>2. FromLast(it[T], paths, U \cup {m})
      BY <3>1, FromLastStep
    <3> QED
      BY <3>2 DEF m, U
  <2>3. (T \ {Max(T)}) \cup {Max(T)} = T
    BY <2>1
  <2> QED
    BY <2>2, <2>3
<1>5. 1..n \in G
  <2> HIDE DEF G, n
  <2> QED
    BY <1>1, <1>3, <1>4, WalkInduction
<1>6. all \in Loads
  BY <1>2 DEF IsLoading
<1> QED
  BY <1>1, <1>2, <1>5, <1>6

\* The files of a question are files.
QuestionInv ==
  /\ question.about = "files" => question.paths \in Seq(Files)
  /\ question.about = "call" => question.call \in Commands

\* The files asked about stay files, the call one of the calls.
LEMMA QuestionStays == Spec => []QuestionInv
<1>1. Init => QuestionInv
  <2>1. <<>> \in Seq(Files)
    OBVIOUS
  <2> SUFFICES ASSUME Init PROVE QuestionInv
    OBVIOUS
  <2>2. \/ question.about \notin {"files", "call"}
        \/ question.about = "files" /\ question.paths = <<>>
        \/ question.about = "call" /\ question.call \in Commands
    BY DEF Init
  <2> QED
    BY <2>1, <2>2 DEF QuestionInv
<1>2. QuestionInv /\ [Next]_question => QuestionInv'
  <2> SUFFICES ASSUME QuestionInv, [Next]_question PROVE QuestionInv'
    OBVIOUS
  <2>1. CASE Repeat
    BY <2>1 DEF QuestionInv, Repeat
  <2>2. CASE Find
    BY <2>2 DEF QuestionInv, Find
  <2>3. CASE Carry
    BY <2>3 DEF QuestionInv, Carry
  <2>4. CASE Layer
    BY <2>4 DEF QuestionInv, Layer
  <2>5. CASE UNCHANGED question
    BY <2>5 DEF QuestionInv
  <2> QED
    BY <2>1, <2>2, <2>3, <2>4, <2>5 DEF Next
<1> QED
  BY <1>1, <1>2, PTL DEF Spec

\* What LoadFiles makes of the walk.
LEMMA LoadedIs ==
  ASSUME NEW paths
  PROVE  LET all == FoldLeft(Conf!ReadFile, Conf!Unread, paths)
             loaded == Conf!LoadFiles(paths)
         IN /\ loaded.tree = all.tree /\ loaded.read = all.read
            /\ loaded.sources = all.sources /\ loaded.overrides = all.overrides
            /\ loaded.ok => /\ ~all.broken /\ all.probs = {}
                            /\ Conf!validate(Conf!buildConfig(all.tree)) = {}
<1> DEFINE all == FoldLeft(Conf!ReadFile, Conf!Unread, paths)
           probs == IF all.probs # {} THEN all.probs
                    ELSE Conf!validate(Conf!buildConfig(all.tree))
<1>1. Conf!LoadFiles(paths) =
        [ok |-> ~all.broken /\ probs = {}, probs |-> probs, read |-> all.read, tree |-> all.tree,
         sources |-> all.sources, overrides |-> all.overrides]
  <2>1. Conf!FoldLeft(Conf!ReadFile, Conf!Unread, paths) = all
    BY DEF Conf!FoldLeft, Conf!MapThenFoldSet, Conf!Max, FoldLeft, MapThenFoldSet, Max
  <2> HIDE DEF all
  <2> QED
    BY <2>1 DEF Conf!LoadFiles
<1> HIDE DEF all
<1>2. Conf!LoadFiles(paths).ok => ~all.broken /\ probs = {}
  <2>1. Conf!LoadFiles(paths).ok = (~all.broken /\ probs = {})
    BY <1>1
  <2> QED
    BY <2>1
<1>3. probs = {} => all.probs = {} /\ Conf!validate(Conf!buildConfig(all.tree)) = {}
  OBVIOUS
<1> HIDE DEF probs
<1> QED
  BY <1>1, <1>2, <1>3 DEF all

\* The last file that says a key decides it and is named for it.
LEMMA LastWins ==
  ASSUME NEW paths \in Seq(Files)
  PROVE  LastFileWins(paths, Conf!LoadFiles(paths))
<1> DEFINE all == FoldLeft(Conf!ReadFile, Conf!Unread, paths)
           loaded == Conf!LoadFiles(paths)
<1>1. all \in Loads /\ FromLast(all, paths, DOMAIN paths)
  BY LoadedFromLast
<1>2. /\ loaded.tree = all.tree /\ loaded.sources = all.sources
      /\ loaded.ok => ~all.broken
  BY LoadedIs
<1> HIDE DEF loaded, all
<1>3. ASSUME loaded.ok, NEW key
      PROVE  LET saying == Saying(paths, key)
                 last == paths[Max(saying)]
             IN IF saying = {}
                THEN key \notin DOMAIN loaded.tree
                     /\ Conf!sourceOf(loaded, key) = "built-in default"
                ELSE /\ key \in DOMAIN loaded.tree /\ loaded.tree[key] = FileAt[last].says[key]
                     /\ Conf!sourceOf(loaded, key) = last
  <2> DEFINE saying == Saying(paths, key)
  <2>1. /\ saying \subseteq DOMAIN paths /\ DOMAIN loaded.sources = DOMAIN loaded.tree
        /\ DOMAIN paths = 1..Len(paths) /\ Len(paths) \in Nat
    BY <1>1, <1>2 DEF Saying, FromLast
  <2>2. CASE saying = {}
    <3>1. key \notin DOMAIN loaded.tree
      BY <1>1, <1>2, <1>3, <2>2 DEF FromLast
    <3> QED
      BY <2>1, <2>2, <3>1 DEF Conf!sourceOf, Conf!Get
  <2>3. CASE saying # {}
    <3>1. Max(saying) \in saying /\ \A t \in saying : t <= Max(saying)
      <4> HIDE DEF saying
      <4> QED
        BY <2>1, <2>3, LargestIndex
    <3>2. key \in DOMAIN loaded.tree
      BY <1>1, <1>2, <1>3, <3>1 DEF FromLast, Saying
    <3>3. PICK i \in DOMAIN paths :
            /\ i \in saying /\ \A j \in DOMAIN paths : j \in saying => j <= i
            /\ all.tree[key] = FileAt[paths[i]].says[key] /\ all.sources[key] = paths[i]
      BY <1>1, <1>2, <1>3, <3>2 DEF FromLast
    <3>4. i = Max(saying)
      <4> HIDE DEF saying
      <4> QED
        BY <2>1, <3>1, <3>3
    <3> QED
      BY <1>2, <2>1, <2>3, <3>2, <3>3, <3>4 DEF Conf!sourceOf, Conf!Get
  <2> QED
    BY <2>2, <2>3
<1> QED
  BY <1>3 DEF LastFileWins, loaded

(***************************************************************************)
(* The strongest of the rungs.                                             *)
(***************************************************************************)
\* What a key of the merged tree holds, a file said.
LEMMA LoadedWasSaid ==
  ASSUME NEW paths \in Seq(Files), Conf!LoadFiles(paths).ok,
         NEW key \in DOMAIN Conf!LoadFiles(paths).tree
  PROVE  \E p \in Mappings : /\ key \in DOMAIN FileAt[p].says
                             /\ Conf!LoadFiles(paths).tree[key] = FileAt[p].says[key]
<1> DEFINE all == FoldLeft(Conf!ReadFile, Conf!Unread, paths)
           loaded == Conf!LoadFiles(paths)
<1>1. all \in Loads /\ FromLast(all, paths, DOMAIN paths)
  BY LoadedFromLast
<1>2. loaded.tree = all.tree /\ ~all.broken
  BY LoadedIs
<1> HIDE DEF loaded, all
<1>3. key \in DOMAIN all.tree
  BY <1>2 DEF loaded
<1>4. PICK i \in DOMAIN paths :
        i \in Saying(paths, key) /\ all.tree[key] = FileAt[paths[i]].says[key]
  BY <1>1, <1>2, <1>3 DEF FromLast
<1> QED
  BY <1>2, <1>4 DEF Saying, loaded

\* Of four rungs of which the last one speaks, the first that does.
LEMMA StrongestOfFour ==
  ASSUME NEW a, NEW b, NEW c, NEW d, d.says
  PROVE  Strongest(<<a, b, c, d>>) = IF a.says THEN a ELSE IF b.says THEN b
                                     ELSE IF c.says THEN c ELSE d
<1> DEFINE r == <<a, b, c, d>>
           I == {i \in 1..Len(r) : r[i].says}
<1>1. SelectInSeq(r, LAMBDA x : x.says) = IF I # {} THEN Min(I) ELSE 0
  BY DEF SelectInSeq
<1>2. Len(r) = 4 /\ r[1] = a /\ r[2] = b /\ r[3] = c /\ r[4] = d
  OBVIOUS
<1> HIDE DEF r
<1>3. I \in SUBSET Nat /\ 4 \in I
  BY <1>2
<1>4. ASSUME NEW i \in I, \A j \in I : i <= j PROVE Strongest(r) = r[i]
  <2> HIDE DEF I
  <2>1. Min(I) = i /\ I # {}
    BY <1>3, <1>4, SelectsFirst
  <2> QED
    BY <1>1, <2>1 DEF Strongest
<1>5. CASE a.says
  <2>1. 1 \in I /\ \A j \in I : 1 <= j
    BY <1>2, <1>5
  <2> QED
    BY <1>2, <1>4, <1>5, <2>1 DEF r
<1>6. CASE ~a.says /\ b.says
  <2>1. 2 \in I /\ \A j \in I : 2 <= j
    BY <1>2, <1>6
  <2> QED
    BY <1>2, <1>4, <1>6, <2>1 DEF r
<1>7. CASE ~a.says /\ ~b.says /\ c.says
  <2>1. 3 \in I /\ \A j \in I : 3 <= j
    BY <1>2, <1>7
  <2> QED
    BY <1>2, <1>4, <1>7, <2>1 DEF r
<1>8. CASE ~a.says /\ ~b.says /\ ~c.says
  <2>1. 4 \in I /\ \A j \in I : 4 <= j
    BY <1>2, <1>8
  <2> QED
    BY <1>2, <1>4, <1>8, <2>1 DEF r
<1> QED
  BY <1>5, <1>6, <1>7, <1>8

\* Not being a member is false.
LEMMA NoMember ==
  ASSUME NEW x, NEW S, x \notin S PROVE FALSE = (x \in S)
OBVIOUS

\* A value that is false, and a membership that does not hold, are one.
LEMMA FalseMember ==
  ASSUME NEW x, NEW S, x \notin S, NEW v, v = FALSE PROVE v = (x \in S)
BY NoMember

\* A boolean nobody gives by a flag or a variable, and that a file says or not.
LEMMA NobodyDecides ==
  ASSUME NEW env \in {"", " "}, NEW meant
  PROVE  Conf!triBool(None, None, env, meant, None, TRUE).value = TRUE
BY DEF Conf!triBool, Conf!Blank

\* What a file says of it, nobody else speaking, is what it is.
LEMMA FileDecides ==
  ASSUME NEW env \in {"", " "}, NEW meant, NEW file, file # None, NEW r,
         r = Conf!triBool(None, None, env, meant, file, TRUE)
  PROVE  r.value = file
BY DEF Conf!triBool, Conf!Blank

\* Of a flag, a variable, a file and the default, the first that speaks decides.
LEMMA RungWins ==
  ASSUME NEW c \in Commands
  PROVE  StrongestRungWins(c, Conf!resolveSettings(c))
<1> DEFINE s == Conf!resolveSettings(c)
           Said1(x, nothing, from) == [says |-> x \notin nothing, value |-> x, from |-> from]
           flag == c.flags.model_id
           env == c.env.model_id
           file == s.cfg.ModelID
           rungs == << Said1(flag, {None}, "flag"), Said1(env, {"", " "}, "env"),
                       Said1(file, {""}, "config"), Said1("", {}, "default") >>
           paths == Conf!configList(c.list)
           loaded == Conf!LoadFiles(paths)
           cfg == Conf!buildConfig(loaded.tree)
<1>0. /\ s.loaded = loaded /\ s.cfg = cfg
      /\ s.ModelID = Conf!stringFlag(flag, env, cfg.ModelID)
      /\ s.Verify = Conf!triBool(c.flags.verify, c.flags.no_verify, c.env.verify,
                                 c.env.verify \notin Conf!Off, cfg.Verify, TRUE)
      /\ s.RequireParams =
           (Conf!triBool(c.flags.require_parameters, None, c.env.require_parameters,
                         c.env.require_parameters = "1", None, FALSE).value
            \/ cfg.RequireParameters)
  <2> HIDE DEF cfg, loaded
  <2> QED
    BY DEF Conf!resolveSettings, cfg, loaded
<1>1. s.ModelID = [value |-> Strongest(rungs).value, from |-> Strongest(rungs).from]
  <2> DEFINE a == Said1(flag, {None}, "flag")
             b == Said1(env, {"", " "}, "env")
             d == Said1(file, {""}, "config")
             e == Said1("", {}, "default")
  <2>1. s.ModelID = IF flag # None THEN [value |-> flag, from |-> "flag"]
                    ELSE IF env \notin {"", " "} THEN [value |-> env, from |-> "env"]
                    ELSE IF file # "" THEN [value |-> file, from |-> "config"]
                    ELSE [value |-> "", from |-> "default"]
    BY <1>0 DEF Conf!stringFlag, Conf!Blank
  <2> HIDE DEF s, file
  <2>2. /\ a.says = (flag # None) /\ b.says = (env \notin {"", " "})
        /\ d.says = (file # "") /\ e.says = TRUE
        /\ a.value = flag /\ b.value = env /\ d.value = file /\ e.value = ""
        /\ a.from = "flag" /\ b.from = "env" /\ d.from = "config" /\ e.from = "default"
    OBVIOUS
  <2> HIDE DEF Said1
  <2> HIDE DEF a, b, d, e
  <2>3. Strongest(<<a, b, d, e>>) = IF a.says THEN a ELSE IF b.says THEN b
                                    ELSE IF d.says THEN d ELSE e
    <3>1. e.says
      BY <2>2
    <3> QED
      BY <3>1, StrongestOfFour
  <2>4. rungs = <<a, b, d, e>>
    BY DEF a, b, d, e
  <2> HIDE DEF rungs
  <2>5. Strongest(rungs) = IF flag # None THEN a ELSE IF env \notin {"", " "} THEN b
                           ELSE IF file # "" THEN d ELSE e
    BY <2>2, <2>3, <2>4
  <2> QED
    BY <2>1, <2>2, <2>5
<1>2. c.flags.verify # None => s.Verify.value = c.flags.verify
  BY <1>0 DEF Conf!triBool
<1>3. ASSUME loaded.ok, c.flags.verify = None, c.flags.no_verify = None,
             c.env.verify \in {"", " "}
      PROVE  s.Verify.value = (s.cfg.Verify \in {None, TRUE})
  <2> DEFINE meant == c.env.verify \notin Conf!Off
  <2>1. s.Verify = Conf!triBool(None, None, c.env.verify, meant, cfg.Verify, TRUE)
    BY <1>0, <1>3
  <2>2. cfg.Verify = None \/ cfg.Verify \in BOOLEAN
    <3>1. cfg.Verify = IF <<"verify">> \in DOMAIN loaded.tree
                       THEN loaded.tree[<<"verify">>] ELSE None
      BY DEF Conf!buildConfig, Conf!Get
    <3>2. ASSUME <<"verify">> \in DOMAIN loaded.tree
          PROVE  loaded.tree[<<"verify">>] \in BOOLEAN
      <4>1. paths \in Seq(Files)
        BY ConfigurationAssumption
      <4>2. PICK p \in Mappings : /\ <<"verify">> \in DOMAIN FileAt[p].says
                                  /\ loaded.tree[<<"verify">>] = FileAt[p].says[<<"verify">>]
        <5> HIDE DEF paths
        <5> QED
          BY <1>3, <3>2, <4>1, LoadedWasSaid
      <4>3. FileAt[p].says[<<"verify">>] \in BOOLEAN
        BY <4>2, ConfigurationAssumption DEF Mappings
      <4> QED
        BY <4>2, <4>3
    <3> HIDE DEF cfg, loaded
    <3> QED
      BY <3>1, <3>2
  <2>3. None \notin BOOLEAN
    BY ConfigurationAssumption
  <2> HIDE DEF cfg, loaded, s, meant
  <2>4. CASE cfg.Verify = None
    <3>1. s.Verify.value = TRUE
      BY <1>3, <2>1, <2>4, NobodyDecides
    <3> QED
      BY <1>0, <2>4, <3>1
  <2>5. CASE cfg.Verify = TRUE
    <3>1. s.Verify.value = TRUE
      <4>1. cfg.Verify # None
        BY <2>3, <2>5
      <4>2. s.Verify.value = cfg.Verify
        <5> DEFINE x == cfg.Verify
                   r == s.Verify
                   env1 == c.env.verify
        <5>1. env1 \in {"", " "} /\ x # None /\ r = Conf!triBool(None, None, env1, meant, x, TRUE)
          BY <1>3, <2>1, <4>1
        <5> HIDE DEF x, r, env1
        <5>2. r.value = x
          BY ONLY <5>1, FileDecides
        <5> QED
          BY <5>2 DEF x, r
      <4> QED
        BY <2>5, <4>2
    <3> QED
      BY <1>0, <2>5, <3>1
  <2>6. CASE cfg.Verify = FALSE
    <3>1. s.Verify.value = FALSE
      <4>1. cfg.Verify # None
        BY <2>3, <2>6
      <4>2. s.Verify.value = cfg.Verify
        <5> DEFINE x == cfg.Verify
                   r == s.Verify
                   env1 == c.env.verify
        <5>1. env1 \in {"", " "} /\ x # None /\ r = Conf!triBool(None, None, env1, meant, x, TRUE)
          BY <1>3, <2>1, <4>1
        <5> HIDE DEF x, r, env1
        <5>2. r.value = x
          BY ONLY <5>1, FileDecides
        <5> QED
          BY <5>2 DEF x, r
      <4> QED
        BY <2>6, <4>2
    <3>2. s.cfg.Verify \notin {None, TRUE}
      BY <1>0, <2>3, <2>6
    <3> QED
      BY ONLY <3>1, <3>2, FalseMember
  <2> QED
    BY <2>2, <2>4, <2>5, <2>6
<1>4. s.cfg.RequireParameters => s.RequireParams
  <2> HIDE DEF cfg, s
  <2> QED
    BY <1>0, Zenon
<1> HIDE DEF s, loaded
<1> QED
  BY <1>0, <1>1, <1>2, <1>3, <1>4 DEF StrongestRungWins, s

\* NearestWins: whatever the files of a list say and however Cite is called, the
\* last file that says a key decides it and is the one --effective names, and a
\* flag goes before a variable, a variable before a file (LoadFiles, resolve).
THEOREM NearestLayerWins == Spec => []NearestWins
<1>1. QuestionInv => NearestWins
  BY LastWins, RungWins DEF QuestionInv, NearestWins
<1> QED
  BY <1>1, QuestionStays, PTL

(***************************************************************************)
(* What is told.                                                           *)
(***************************************************************************)
\* The tree of a first file.
First(p) == Conf!ReadFile(Conf!Unread, p).tree

\* What a walk has told of the keys that decide the verdict.
Told(acc) ==
  /\ acc.read = <<>> => DOMAIN acc.tree = {}
  /\ acc.read # <<>> =>
       /\ DOMAIN First(Head(acc.read)) \subseteq DOMAIN acc.tree
       /\ \A key \in DOMAIN acc.tree :
            key[1] \in Conf!verdictRoots
              /\ Conf!Rendered(acc.tree, key) # Conf!Rendered(First(Head(acc.read)), key)
              => \E o \in acc.overrides : o.key = key

\* The parts of a walk after one more file.
LEMMA ReadFileParts ==
  ASSUME NEW acc \in Loads, NEW p \in Files
  PROVE  LET new == Conf!ReadFile(acc, p)
             says == FileAt[p].says
         IN \/ /\ new.read = acc.read /\ new.tree = acc.tree /\ new.overrides = acc.overrides
               /\ acc.broken \/ p \notin Mappings
               /\ ~new.broken => ~acc.broken /\ new.probs = acc.probs
            \/ /\ ~acc.broken /\ p \notin Mappings /\ new.read = Append(acc.read, p)
               /\ new.tree = acc.tree /\ new.overrides = acc.overrides
               /\ acc.probs \subseteq new.probs
            \/ /\ ~acc.broken /\ p \in Mappings /\ new.read = Append(acc.read, p)
               /\ new.tree = Conf!mergeTrees(acc.tree, says)
               /\ new.probs = acc.probs \cup Conf!schemaCheckFile(says)
               /\ new.overrides = IF acc.read = <<>> THEN acc.overrides
                                  ELSE acc.overrides \cup Conf!verdictOverrides(acc.tree, says, p)
<1> DEFINE new == Conf!ReadFile(acc, p)
           says == FileAt[p].says
           from == [key \in DOMAIN says |-> p]
           probs == acc.probs \cup Conf!schemaCheckFile(says)
           overrides == IF acc.read = <<>> THEN acc.overrides
                        ELSE acc.overrides \cup Conf!verdictOverrides(acc.tree, says, p)
           tree == Conf!mergeTrees(acc.tree, says)
           sources == Conf!mergeTrees(acc.sources, from)
<1>1. FileAt[p].state \in {"absent", "broken", "blank", "list", "mapping"}
      /\ (p \in Mappings <=> FileAt[p].state = "mapping") /\ acc.broken \in BOOLEAN
  BY ConfigurationAssumption DEF Mappings, Loads
<1>2. CASE acc.broken
  BY <1>2 DEF Conf!ReadFile
<1>3. CASE ~acc.broken /\ p \in Mappings
  <2>1. new = [acc EXCEPT !.read = Append(acc.read, p), !.probs = probs,
                 !.overrides = overrides, !.sources = sources, !.tree = tree]
    BY <1>1, <1>3 DEF Conf!ReadFile, Loads
  <2> HIDE DEF tree, sources, probs, overrides, new
  <2>2. new.read = Append(acc.read, p) /\ new.tree = tree /\ new.probs = probs
        /\ new.overrides = overrides
    BY <2>1 DEF Loads
  <2> QED
    BY <1>3, <2>2 DEF tree, probs, overrides, new
<1>4. CASE ~acc.broken /\ p \notin Mappings
  <2>1. \/ new = acc \/ new = [acc EXCEPT !.broken = TRUE]
        \/ new = [acc EXCEPT !.read = Append(acc.read, p)]
        \/ new = [acc EXCEPT !.read = Append(acc.read, p), !.probs = @ \cup {<<>>}]
    BY <1>1, <1>4 DEF Conf!ReadFile
  <2> HIDE DEF new
  <2>2. \/ /\ new.read = acc.read /\ new.tree = acc.tree /\ new.overrides = acc.overrides
           /\ ~new.broken => new.probs = acc.probs
        \/ /\ new.read = Append(acc.read, p)
           /\ new.tree = acc.tree /\ new.overrides = acc.overrides
           /\ acc.probs \subseteq new.probs
    BY <2>1 DEF Loads
  <2> QED
    BY <1>4, <2>2 DEF new
<1> QED
  BY <1>1, <1>2, <1>3, <1>4

\* One more file is told as the ones before it are.
LEMMA ToldStep ==
  ASSUME NEW acc \in Loads, NEW p \in Files, Told(acc)
  PROVE  Told(Conf!ReadFile(acc, p))
<1> DEFINE new == Conf!ReadFile(acc, p)
           says == FileAt[p].says
           tree == Conf!mergeTrees(acc.tree, says)
<1>0. acc.read \in Seq(Files)
  BY DEF Loads
<1>u. /\ Conf!Unread \in Loads /\ Conf!Unread.read = <<>> /\ DOMAIN Conf!Unread.tree = {}
      /\ ~Conf!Unread.broken
  BY UnreadType DEF Conf!Unread
<1>m. p \notin Mappings => DOMAIN First(p) = {}
  BY <1>u, ReadFileParts DEF First
<1>n. p \in Mappings => First(p) = Conf!mergeTrees(Conf!Unread.tree, says)
  BY <1>u, ReadFileParts DEF First
<1>1. CASE new.read = acc.read /\ new.tree = acc.tree /\ new.overrides = acc.overrides
  BY <1>1 DEF Told
<1>2. CASE /\ p \notin Mappings /\ new.read = Append(acc.read, p)
           /\ new.tree = acc.tree /\ new.overrides = acc.overrides
  <2>1. CASE acc.read = <<>>
    <3>1. Head(new.read) = p /\ new.read # <<>>
      BY <1>0, <1>2, <2>1
    <3>2. DOMAIN new.tree = {} /\ DOMAIN First(p) = {}
      BY <1>2, <1>m, <2>1 DEF Told
    <3> QED
      BY <3>1, <3>2 DEF Told
  <2>2. CASE acc.read # <<>>
    <3>1. Head(new.read) = Head(acc.read) /\ new.read # <<>>
      BY <1>0, <1>2, <2>2
    <3> QED
      BY <1>2, <2>2, <3>1 DEF Told
  <2> QED
    BY <2>1, <2>2
<1>3. CASE /\ p \in Mappings /\ new.read = Append(acc.read, p) /\ new.tree = tree
           /\ new.overrides = IF acc.read = <<>> THEN acc.overrides
                              ELSE acc.overrides \cup Conf!verdictOverrides(acc.tree, says, p)
  <2>t. /\ DOMAIN tree = DOMAIN acc.tree \cup DOMAIN says
        /\ \A key \in DOMAIN says : tree[key] = says[key]
        /\ \A key \in DOMAIN acc.tree : key \notin DOMAIN says => tree[key] = acc.tree[key]
    <3> HIDE DEF says
    <3> QED
      BY Merged
  <2> HIDE DEF tree
  <2>1. CASE acc.read = <<>>
    <3>1. Head(new.read) = p /\ new.read # <<>>
      BY <1>0, <1>3, <2>1
    <3>2. DOMAIN tree = DOMAIN says /\ \A key \in DOMAIN says : tree[key] = says[key]
      BY <2>1, <2>t DEF Told
    <3>3. DOMAIN First(p) = DOMAIN says /\ \A key \in DOMAIN says : First(p)[key] = says[key]
      <4>1. First(p) = Conf!mergeTrees(Conf!Unread.tree, says)
        BY <1>3, <1>n
      <4> DEFINE nothing == Conf!Unread.tree
      <4>2. DOMAIN nothing = {}
        BY <1>u
      <4> HIDE DEF says, nothing
      <4>3. /\ DOMAIN Conf!mergeTrees(nothing, says) = DOMAIN nothing \cup DOMAIN says
            /\ \A key \in DOMAIN says : Conf!mergeTrees(nothing, says)[key] = says[key]
        BY Merged
      <4>4. First(p) = Conf!mergeTrees(nothing, says)
        BY <4>1 DEF nothing
      <4> QED
        BY ONLY <4>2, <4>3, <4>4
    <3>4. \A key \in DOMAIN tree : Conf!Rendered(tree, key) = Conf!Rendered(First(p), key)
      BY <3>2, <3>3 DEF Conf!Rendered, Conf!Get
    <3> QED
      BY <1>3, <3>1, <3>2, <3>3, <3>4 DEF Told
  <2>2. CASE acc.read # <<>>
    <3> DEFINE h == Head(acc.read)
               told == Conf!verdictOverrides(acc.tree, says, p)
    <3>1. Head(new.read) = h /\ new.read # <<>>
      BY <1>0, <1>3, <2>2
    <3>2. DOMAIN First(h) \subseteq DOMAIN acc.tree
      BY <2>2 DEF Told
    <3>3. new.overrides = acc.overrides \cup told
      BY <1>3, <2>2
    <3>4. ASSUME NEW key \in DOMAIN tree, key[1] \in Conf!verdictRoots,
                 Conf!Rendered(tree, key) # Conf!Rendered(First(h), key)
          PROVE  \E o \in acc.overrides \cup told : o.key = key
      <4>1. CASE key \in DOMAIN says /\ Conf!Rendered(acc.tree, key) # Conf!renderValue(key, says[key])
        <5>1. [key |-> key, file |-> p] \in told
          BY <3>4, <4>1 DEF Conf!verdictOverrides
        <5> HIDE DEF told
        <5> QED
          BY <5>1
      <4>2. CASE ~(key \in DOMAIN says /\ Conf!Rendered(acc.tree, key) # Conf!renderValue(key, says[key]))
        <5>1. Conf!Rendered(tree, key) = Conf!Rendered(acc.tree, key)
          BY <2>t, <4>2 DEF Conf!Rendered, Conf!Get
        <5>2. key \in DOMAIN acc.tree
          <6>1. ASSUME key \notin DOMAIN acc.tree PROVE FALSE
            <7>1. Conf!Rendered(acc.tree, key) = Conf!Rendered(First(h), key)
              BY <3>2, <6>1 DEF Conf!Rendered, Conf!Get
            <7> QED
              BY <3>4, <5>1, <7>1
          <6> QED
            BY <6>1
        <5>3. \E o \in acc.overrides : o.key = key
          BY <2>2, <3>4, <5>1, <5>2 DEF Told
        <5> HIDE DEF told
        <5> QED
          BY <5>3
      <4> QED
        BY <4>1, <4>2
    <3> HIDE DEF told, h
    <3>5. DOMAIN First(h) \subseteq DOMAIN new.tree
      BY <1>3, <2>t, <3>2
    <3> QED
      BY <1>3, <3>1, <3>3, <3>4, <3>5 DEF Told
  <2> QED
    BY <2>1, <2>2
<1> QED
  BY <1>1, <1>2, <1>3, ReadFileParts

\* At the end of a list all that was overridden has been told.
LEMMA LoadedIsTold ==
  ASSUME NEW paths \in Seq(Files)
  PROVE  Told(FoldLeft(Conf!ReadFile, Conf!Unread, paths))
<1> DEFINE all == FoldLeft(Conf!ReadFile, Conf!Unread, paths)
           n == Len(paths)
<1>1. n \in Nat /\ DOMAIN paths = 1..n /\ \A i \in 1..n : paths[i] \in Files
  OBVIOUS
<1>2. PICK it : IsLoading(it, paths) /\ all = it[1..n]
  BY LoadingExists
<1> DEFINE G == {T \in SUBSET (1..n) : Told(it[T])}
<1>3. {} \in G
  BY <1>2 DEF IsLoading, Told, Conf!Unread
<1>4. ASSUME NEW T \in SUBSET (1..n), T # {} /\ T \ {Max(T)} \in G PROVE T \in G
  <2> DEFINE m == Max(T)
             acc == it[T \ {m}]
  <2>1. /\ m \in T /\ acc \in Loads /\ Told(acc) /\ it[T] = Conf!ReadFile(acc, paths[m])
    BY <1>2, <1>4 DEF IsLoading
  <2>2. paths[m] \in Files
    BY <1>1, <2>1
  <2> HIDE DEF m, acc
  <2>3. Told(it[T])
    BY <2>1, <2>2, ToldStep
  <2> QED
    BY <2>3
<1>5. 1..n \in G
  <2> HIDE DEF G, n
  <2> QED
    BY <1>1, <1>3, <1>4, WalkInduction
<1> QED
  BY <1>2, <1>5

\* A list of one file.
LEMMA AloneIs ==
  ASSUME NEW p \in Files
  PROVE  Conf!LoadFiles(<<p>>).tree = First(p)
<1> DEFINE s == <<p>>
           all == FoldLeft(Conf!ReadFile, Conf!Unread, s)
<1>1. s \in Seq(Files) /\ Len(s) = 1 /\ s[1] = p
  OBVIOUS
<1> HIDE DEF s
<1>2. PICK it : IsLoading(it, s) /\ all = it[1..1]
  BY <1>1, LoadingExists
<1>3. 1..1 = {1} /\ {1} \in SUBSET (1..1) /\ {1} # {}
  OBVIOUS
<1>4. Max({1}) \in {1} /\ it[{1}] = Conf!ReadFile(it[{1} \ {Max({1})}], s[Max({1})])
  BY <1>1, <1>2, <1>3 DEF IsLoading
<1>5. Max({1}) = 1 /\ {1} \ {1} = {}
  BY <1>4
<1>6. all = Conf!ReadFile(Conf!Unread, p)
  BY <1>1, <1>2, <1>3, <1>4, <1>5 DEF IsLoading
<1>7. Conf!LoadFiles(s).tree = all.tree
  BY LoadedIs
<1> QED
  BY <1>6, <1>7 DEF First, s

\* What differs from what the first file alone comes to has a line of the log.
LEMMA OverridesTold ==
  ASSUME NEW paths \in Seq(Files)
  PROVE  LET loaded == Conf!LoadFiles(paths)
             alone == Conf!LoadFiles(<<Head(loaded.read)>>)
         IN loaded.read # <<>> =>
              \A key \in DOMAIN loaded.tree :
                key[1] \in Conf!verdictRoots
                   /\ Conf!Rendered(loaded.tree, key) # Conf!Rendered(alone.tree, key)
                  => \E o \in loaded.overrides : o.key = key
<1> DEFINE loaded == Conf!LoadFiles(paths)
           alone == Conf!LoadFiles(<<Head(loaded.read)>>)
           all == FoldLeft(Conf!ReadFile, Conf!Unread, paths)
<1>1. all \in Loads /\ Told(all)
  BY LoadedFromLast, LoadedIsTold
<1>2. loaded.tree = all.tree /\ loaded.read = all.read /\ loaded.overrides = all.overrides
  BY LoadedIs
<1> HIDE DEF loaded, all
<1>3. ASSUME loaded.read # <<>> PROVE alone.tree = First(Head(all.read))
  <2>1. Head(loaded.read) \in Files
    BY <1>1, <1>2, <1>3 DEF Loads
  <2> QED
    BY <1>2, <2>1, AloneIs
<1> HIDE DEF alone
<1>4. ASSUME loaded.read # <<>>, NEW key \in DOMAIN loaded.tree, key[1] \in Conf!verdictRoots,
             Conf!Rendered(loaded.tree, key) # Conf!Rendered(alone.tree, key)
      PROVE  \E o \in loaded.overrides : o.key = key
  BY <1>1, <1>2, <1>3, <1>4 DEF Told
<1> QED
  BY <1>4 DEF loaded, alone

\* OverridesAreSaid: however many files are read, whatever the later ones make of
\* a key that decides the verdict, a line of the log names that key, if it is
\* written otherwise than before (layers.go, verdictOverrides).
THEOREM EveryOverrideIsSaid == Spec => []OverridesAreSaid
<1>1. QuestionInv => OverridesAreSaid
  <2> SUFFICES ASSUME question.paths \in Seq(Files)
               PROVE  question.about = "files" => OverridesAreSaid
    BY DEF QuestionInv, OverridesAreSaid
  <2> QED
    BY OverridesTold DEF OverridesAreSaid
<1> QED
  BY <1>1, QuestionStays, PTL

(***************************************************************************)
(* What is accepted.                                                       *)
(***************************************************************************)
\* A walk that went well holds what the schema says of every file.
Noted(acc, paths, T) ==
  ~acc.broken => \A i \in T : paths[i] \in Mappings =>
                   Conf!schemaCheckFile(FileAt[paths[i]].says) \subseteq acc.probs

\* At the end of a list the schema has been asked about every file.
LEMMA LoadedIsNoted ==
  ASSUME NEW paths \in Seq(Files)
  PROVE  Noted(FoldLeft(Conf!ReadFile, Conf!Unread, paths), paths, DOMAIN paths)
<1> DEFINE all == FoldLeft(Conf!ReadFile, Conf!Unread, paths)
           n == Len(paths)
<1>1. n \in Nat /\ DOMAIN paths = 1..n /\ \A i \in 1..n : paths[i] \in Files
  OBVIOUS
<1>2. PICK it : IsLoading(it, paths) /\ all = it[1..n]
  BY LoadingExists
<1> DEFINE G == {T \in SUBSET (1..n) : Noted(it[T], paths, T)}
<1>3. {} \in G
  BY DEF Noted
<1>4. ASSUME NEW T \in SUBSET (1..n), T # {} /\ T \ {Max(T)} \in G PROVE T \in G
  <2> DEFINE m == Max(T)
             U == T \ {m}
             acc == it[U]
             p == paths[m]
             said == Conf!schemaCheckFile(FileAt[p].says)
             new == Conf!ReadFile(acc, p)
  <2>1. m \in T /\ acc \in Loads /\ Noted(acc, paths, U) /\ it[T] = new
    BY <1>2, <1>4 DEF IsLoading
  <2>2. p \in Files /\ T = U \cup {m}
    BY <1>1, <2>1
  <2> HIDE DEF m, acc
  <2>3. \/ /\ acc.broken \/ p \notin Mappings
           /\ ~new.broken => ~acc.broken /\ new.probs = acc.probs
        \/ ~acc.broken /\ p \notin Mappings /\ acc.probs \subseteq new.probs
        \/ ~acc.broken /\ new.probs = acc.probs \cup said
    BY <2>1, <2>2, ReadFileParts
  <2> HIDE DEF U, said, new
  <2>4. Noted(new, paths, T)
    <3> SUFFICES ASSUME ~new.broken, NEW i \in T, paths[i] \in Mappings
                 PROVE  Conf!schemaCheckFile(FileAt[paths[i]].says) \subseteq new.probs
      BY DEF Noted
    <3>1. CASE i \in U
      BY <2>1, <2>3, <3>1 DEF Noted
    <3>2. CASE i = m
      BY <2>3, <3>2 DEF said
    <3> QED
      BY <2>2, <3>1, <3>2
  <2> QED
    BY <2>1, <2>4
<1>5. 1..n \in G
  <2> HIDE DEF G, n
  <2> QED
    BY <1>1, <1>3, <1>4, WalkInduction
<1> QED
  BY <1>1, <1>2, <1>5

\* What an accepted tree holds, the schema accepts and a file said.
LEMMA LoadedWasChecked ==
  ASSUME NEW paths \in Seq(Files), Conf!LoadFiles(paths).ok,
         NEW key \in DOMAIN Conf!LoadFiles(paths).tree
  PROVE  /\ Conf!checkNumeric(key, Conf!LoadFiles(paths).tree[key])
         /\ \E p \in Mappings : /\ key \in DOMAIN FileAt[p].says
                                /\ Conf!LoadFiles(paths).tree[key] = FileAt[p].says[key]
<1> DEFINE all == FoldLeft(Conf!ReadFile, Conf!Unread, paths)
           loaded == Conf!LoadFiles(paths)
<1>1. FromLast(all, paths, DOMAIN paths) /\ Noted(all, paths, DOMAIN paths)
  BY LoadedFromLast, LoadedIsNoted
<1>2. loaded.tree = all.tree /\ ~all.broken /\ all.probs = {}
  BY LoadedIs
<1> HIDE DEF loaded, all
<1>3. key \in DOMAIN all.tree
  BY <1>2 DEF loaded
<1>4. PICK i \in DOMAIN paths :
        i \in Saying(paths, key) /\ all.tree[key] = FileAt[paths[i]].says[key]
  BY <1>1, <1>2, <1>3 DEF FromLast
<1> DEFINE says == FileAt[paths[i]].says
<1>5. paths[i] \in Mappings /\ key \in DOMAIN says
  BY <1>4 DEF Saying
<1>6. Conf!schemaCheckFile(says) = {}
  BY <1>1, <1>2, <1>5 DEF Noted
<1>7. Conf!checkNumeric(key, says[key])
  BY <1>5, <1>6 DEF Conf!schemaCheckFile
<1> QED
  BY <1>2, <1>4, <1>5, <1>7 DEF loaded

\* An accepted number or list of models has its type.
LEMMA AcceptedValue ==
  ASSUME NEW paths \in Seq(Files), Conf!LoadFiles(paths).ok,
         NEW key \in DOMAIN Conf!LoadFiles(paths).tree
  PROVE  LET value == Conf!LoadFiles(paths).tree[key]
         IN /\ key = <<"max_comments">> => value \in 0 .. MaxCommentsCap
            /\ IsCount(key) => value \in Int
            /\ Len(key) = 3 /\ key[1] = "providers" /\ key[3] = "models" =>
                 /\ value \in Seq(ToSet(value))
                 /\ \A entry \in ToSet(value) : entry.max_tokens \in Int
<1> DEFINE value == Conf!LoadFiles(paths).tree[key]
<1>1. PICK p \in Mappings : key \in DOMAIN FileAt[p].says /\ value = FileAt[p].says[key]
  BY LoadedWasChecked
<1>2. Conf!checkNumeric(key, value)
  BY LoadedWasChecked
<1> HIDE DEF value
<1>3. ASSUME key = <<"max_comments">> PROVE value \in 0 .. MaxCommentsCap
  <2>1. Len(key) = 1 /\ key[1] = "max_comments"
    BY <1>3
  <2>2. key # <<"capture_max_bytes">> /\ key # <<"blocking_categories">>
    BY <2>1
  <2> QED
    BY <1>2, <1>3, <2>1, <2>2 DEF Conf!checkNumeric
<1>4. /\ IsCount(key) => value \in Int
      /\ Len(key) = 3 /\ key[1] = "providers" /\ key[3] = "models" =>
           value \in Seq(ToSet(value)) /\ \A entry \in ToSet(value) : entry.max_tokens \in Int
  BY <1>1, ConfigurationAssumption DEF Mappings
<1> QED
  BY <1>3, <1>4 DEF value

\* The tokens that an entry of a list of models advertises.
LEMMA AdvertisedIsNumber ==
  ASSUME NEW c, NEW ref, NEW S, \A entry \in S : entry.max_tokens \in Int,
         c.Providers[ref[1]].Models \in Seq(S)
  PROVE  Conf!modelEntryMaxTokens(c, ref) \in Int
<1> DEFINE models == c.Providers[ref[1]].Models
           I == {i \in 1..Len(models) : models[i].id = ref[2]}
           i == IF I # {} THEN Min(I) ELSE 0
           j == Conf!SelectInSeq(models, LAMBDA m : m.id = ref[2])
<1>0. j = i
  BY DEF Conf!SelectInSeq, Conf!Min, Min
<1>1. \/ Conf!modelEntryMaxTokens(c, ref) = 0
      \/ Conf!modelEntryMaxTokens(c, ref) = IF i = 0 THEN 0 ELSE models[i].max_tokens
  <2>1. \/ Conf!modelEntryMaxTokens(c, ref) = 0
        \/ Conf!modelEntryMaxTokens(c, ref) = IF j = 0 THEN 0 ELSE models[j].max_tokens
    BY DEF Conf!modelEntryMaxTokens
  <2> HIDE DEF i, j, models
  <2> QED
    BY <1>0, <2>1
<1>2. CASE I # {}
  <2>0. I \in SUBSET Nat
    OBVIOUS
  <2> HIDE DEF I
  <2>1. PICK x \in I : \A y \in I : x <= y
    BY <1>2, <2>0, LeastElement
  <2>2. Min(I) \in I
    BY <2>1 DEF Min
  <2>3. i \in 1..Len(models)
    BY <1>2, <2>2 DEF I
  <2>4. (IF i = 0 THEN 0 ELSE models[i].max_tokens) \in Int
    <3> HIDE DEF i, models
    <3>1. models[i] \in S
      BY <2>3 DEF models
    <3> QED
      BY <2>3, <3>1
  <2> HIDE DEF i, models
  <2> QED
    BY <1>1, <2>4
<1>3. CASE I = {}
  <2>1. i = 0
    BY <1>3
  <2> HIDE DEF i, models
  <2> QED
    BY <1>1, <2>1
<1> QED
  BY <1>2, <1>3

\* A deadline that is derived is enough for the tokens it is derived from.
LEMMA CapHasTime ==
  ASSUME NEW n \in Nat \ {0}
  PROVE  Conf!DerivedReviewTimeout(n) >= ReviewTimeoutBase + n \div AssumedGenerationRate
<1> DEFINE long == ReviewTimeoutBase + n \div AssumedGenerationRate
<1>1. /\ ReviewTimeoutBase \in Nat /\ AssumedGenerationRate \in Nat \ {0}
      /\ DefaultReviewTimeout \in Nat
  BY ConfigurationAssumption
<1>2. long \in Int
  BY <1>1
<1>3. Conf!DerivedReviewTimeout(n) = Conf!Max({long, DefaultReviewTimeout})
  <2>1. ~(n <= 0) /\ (IF n <= 0 THEN DefaultReviewMaxOutputTokens ELSE n) = n
    OBVIOUS
  <2> QED
    BY ONLY <2>1, Zenon DEF Conf!DerivedReviewTimeout
<1> HIDE DEF long
<1>4. \E x \in {long, DefaultReviewTimeout} : \A y \in {long, DefaultReviewTimeout} : x >= y
  BY <1>1, <1>2
<1>5. Conf!Max({long, DefaultReviewTimeout}) >= long
  BY <1>4 DEF Conf!Max
<1> QED
  BY <1>3, <1>5 DEF long

\* What the reviewing role of an accepted configuration comes to.
LEMMA ReviewIsSound ==
  ASSUME NEW paths \in Seq(Files), Conf!LoadFiles(paths).ok
  PROVE  LET c == Conf!buildConfig(Conf!LoadFiles(paths).tree)
             review == Conf!resolveRole(c, "review")
         IN /\ review.MaxOutputTokens > 0 /\ review.Concurrency > 0
            /\ c.Roles["review"].timeout = None =>
                 review.Timeout
                   >= ReviewTimeoutBase + review.MaxOutputTokens \div AssumedGenerationRate
<1> DEFINE tree == Conf!LoadFiles(paths).tree
           c == Conf!buildConfig(tree)
           spec == c.Roles["review"]
           ref == IF spec.model = None THEN c.model ELSE spec.model
           advertised == Conf!modelEntryMaxTokens(c, ref)
           review == Conf!resolveRole(c, "review")
<1>1. spec.max_output_tokens \in Int /\ spec.concurrency \in Int
  <2> DEFINE tokens == <<"roles", "review", "max_output_tokens">>
             workers == <<"roles", "review", "concurrency">>
  <2>1. spec.max_output_tokens = Conf!Get(tree, tokens, 0)
        /\ spec.concurrency = Conf!Get(tree, workers, 0)
    BY DEF Conf!buildConfig, Conf!Roles
  <2>2. IsCount(tokens) /\ IsCount(workers)
    BY DEF IsCount
  <2> HIDE DEF tokens, workers, spec
  <2>3. \A key \in DOMAIN tree : IsCount(key) => tree[key] \in Int
    BY AcceptedValue
  <2> HIDE DEF tree
  <2> QED
    BY <2>1, <2>2, <2>3 DEF Conf!Get
<1>2. advertised \in Int
  <2>1. CASE Len(ref) = 1 \/ ref[1] \notin DOMAIN c.Providers
    <3> HIDE DEF ref, c
    <3> QED
      BY <2>1 DEF Conf!modelEntryMaxTokens
  <2>2. CASE ~(Len(ref) = 1 \/ ref[1] \notin DOMAIN c.Providers)
    <3> DEFINE key == <<"providers", ref[1], "models">>
               models == c.Providers[ref[1]].Models
               i == Conf!SelectInSeq(models, LAMBDA m : m.id = ref[2])
    <3>1. models = Conf!Get(tree, key, <<>>)
      <4> HIDE DEF ref, tree
      <4> QED
        BY <2>2 DEF Conf!buildConfig
    <3>2. Len(key) = 3 /\ key[1] = "providers" /\ key[3] = "models"
      OBVIOUS
    <3> DEFINE S == IF key \in DOMAIN tree THEN ToSet(tree[key]) ELSE {}
    <3>3. models \in Seq(S) /\ \A entry \in S : entry.max_tokens \in Int
      <4> HIDE DEF models, key
      <4>1. CASE key \in DOMAIN tree
        <5>1. tree[key] \in Seq(ToSet(tree[key]))
              /\ \A entry \in ToSet(tree[key]) : entry.max_tokens \in Int
          BY <3>2, <4>1, AcceptedValue
        <5> QED
          BY <3>1, <4>1, <5>1 DEF Conf!Get
      <4>2. CASE key \notin DOMAIN tree
        <5>1. models = <<>> /\ S = {}
          BY <3>1, <4>2 DEF Conf!Get
        <5> QED
          BY <5>1
      <4> QED
        BY <4>1, <4>2
    <3> HIDE DEF S, c, ref
    <3> QED
      BY <3>3, AdvertisedIsNumber
  <2> QED
    BY <2>1, <2>2
<1> DEFINE cap == IF spec.max_output_tokens > 0 THEN spec.max_output_tokens
                  ELSE IF advertised > 0 THEN advertised ELSE DefaultReviewMaxOutputTokens
           long == ReviewTimeoutBase + cap \div AssumedGenerationRate
<1>3. /\ review.MaxOutputTokens = cap
      /\ review.Concurrency = IF spec.concurrency > 0 THEN spec.concurrency
                              ELSE DefaultReviewConcurrency
      /\ spec.timeout = None => review.Timeout = Conf!DerivedReviewTimeout(cap)
  <2> HIDE DEF c
  <2> QED
    BY DEF Conf!resolveRole
<1> HIDE DEF advertised, spec, review, c, tree
<1>4. /\ cap \in Nat \ {0} /\ ReviewTimeoutBase \in Nat /\ AssumedGenerationRate \in Nat \ {0}
      /\ DefaultReviewTimeout \in Nat /\ DefaultReviewConcurrency \in Nat \ {0}
  BY <1>1, <1>2, ConfigurationAssumption
<1> HIDE DEF cap
<1>5. Conf!DerivedReviewTimeout(cap) >= long
  BY <1>4, CapHasTime
<1> HIDE DEF long
<1> QED
  BY <1>1, <1>3, <1>4, <1>5 DEF c, review, spec, tree, long

\* What an accepted configuration refers to is declared, and what blocks may.
LEMMA AcceptedRefers ==
  ASSUME NEW paths \in Seq(Files), Conf!LoadFiles(paths).ok
  PROVE  LET loaded == Conf!LoadFiles(paths)
             c == Conf!buildConfig(loaded.tree)
             refs == ToSet(c.Fallback) \cup ({c.Roles[r].model : r \in Conf!Roles} \ {None})
             Declared(ref) == LET key == <<"providers", ref[1], "models">>
                              IN key \in DOMAIN loaded.tree
                                 /\ \E m \in ToSet(loaded.tree[key]) : m.id = ref[2]
         IN /\ \A ref \in refs : IF Len(ref) = 1 THEN DOMAIN c.Providers = {} ELSE Declared(ref)
            /\ ToSet(c.BlockingCategories) \subseteq MayBlock
            /\ c.MaxComments \in 0 .. MaxCommentsCap
<1> DEFINE tree == Conf!LoadFiles(paths).tree
           c == Conf!buildConfig(tree)
           refs == ToSet(c.Fallback) \cup ({c.Roles[r].model : r \in Conf!Roles} \ {None})
           Declared(ref) == LET key == <<"providers", ref[1], "models">>
                            IN key \in DOMAIN tree
                               /\ \E m \in ToSet(tree[key]) : m.id = ref[2]
<1>1. Conf!validate(c) = {}
  <2>1. LET all == FoldLeft(Conf!ReadFile, Conf!Unread, paths)
        IN tree = all.tree /\ Conf!validate(Conf!buildConfig(all.tree)) = {}
    BY LoadedIs
  <2> HIDE DEF tree
  <2> QED
    BY <2>1
<1>2. Conf!checkModelRefs(c) = {} /\ Conf!checkBlockingSet(c) = {}
  <2> HIDE DEF c
  <2> QED
    BY <1>1 DEF Conf!validate
<1>3. \A ref \in refs : Conf!Resolves(c, ref)
  <2> HIDE DEF c
  <2>1. ASSUME NEW ref \in ToSet(c.Fallback) PROVE Conf!Resolves(c, ref)
    <3>1. \A i \in DOMAIN c.Fallback : Conf!Resolves(c, c.Fallback[i])
      BY <1>2 DEF Conf!checkModelRefs
    <3> QED
      BY <3>1 DEF ToSet
  <2>2. ASSUME NEW r \in Conf!Roles, c.Roles[r].model # None
        PROVE  Conf!Resolves(c, c.Roles[r].model)
    <3>1. {<<"roles", x, "model">> : x \in {y \in Conf!Roles : c.Roles[y].model # None
             /\ ~Conf!Resolves(c, c.Roles[y].model)}} = {}
      BY <1>2 DEF Conf!checkModelRefs
    <3> QED
      BY <2>2, <3>1
  <2> QED
    BY <2>1, <2>2
<1>4. ASSUME NEW ref \in refs
      PROVE  IF Len(ref) = 1 THEN DOMAIN c.Providers = {} ELSE Declared(ref)
  <2>1. Conf!Resolves(c, ref)
    BY <1>3
  <2>2. CASE Len(ref) = 1
    <3> HIDE DEF c
    <3> QED
      BY <2>1, <2>2 DEF Conf!Resolves
  <2>3. CASE Len(ref) # 1
    <3> DEFINE key == <<"providers", ref[1], "models">>
               models == c.Providers[ref[1]].Models
    <3>1. ref[1] \in DOMAIN c.Providers /\ \E m \in ToSet(models) : m.id = ref[2]
      <4> HIDE DEF c
      <4> QED
        BY <2>1, <2>3 DEF Conf!Resolves, Conf!ToSet, ToSet
    <3>2. models = Conf!Get(tree, key, <<>>)
      <4> HIDE DEF tree
      <4> QED
        BY <3>1 DEF Conf!buildConfig
    <3> HIDE DEF models, tree, key
    <3>3. ToSet(<<>>) = {}
      BY DEF ToSet
    <3>4. key \in DOMAIN tree /\ models = tree[key]
      BY <3>1, <3>2, <3>3 DEF Conf!Get
    <3>5. Declared(ref)
      BY <3>1, <3>4 DEF key
    <3> QED
      BY <2>3, <3>5
  <2> QED
    BY <2>2, <2>3
<1>5. ToSet(c.BlockingCategories) \subseteq MayBlock
  <2> HIDE DEF c
  <2> QED
    BY <1>2 DEF Conf!checkBlockingSet, Conf!ToSet, ToSet
<1>6. c.MaxComments \in 0 .. MaxCommentsCap
  <2> DEFINE key == <<"max_comments">>
  <2>1. c.MaxComments = Conf!Get(tree, key, Conf!builtinDefaults["max_comments"])
    BY DEF Conf!buildConfig, Conf!Top
  <2>2. key \in DOMAIN tree => tree[key] \in 0 .. MaxCommentsCap
    <3> HIDE DEF key
    <3>1. \A k \in DOMAIN tree : k = <<"max_comments">> => tree[k] \in 0 .. MaxCommentsCap
      BY AcceptedValue
    <3> QED
      BY <3>1 DEF key
  <2>3. Conf!builtinDefaults["max_comments"] \in 0 .. MaxCommentsCap
    BY ConfigurationAssumption
  <2> HIDE DEF c, tree, key
  <2> QED
    BY <2>1, <2>2, <2>3 DEF Conf!Get
<1> QED
  BY <1>4, <1>5, <1>6

\* AcceptedIsSound: whatever files a list is made of and whatever they say, a
\* configuration that is accepted refers to what it declares, blocks by what may
\* block, and gives an unpinned review the time to write (validate, resolveRole).
THEOREM AcceptedCanRun == Spec => []AcceptedIsSound
<1>1. QuestionInv => AcceptedIsSound
  <2> SUFFICES ASSUME question.about = "files", question.paths \in Seq(Files),
                      Conf!LoadFiles(question.paths).ok
               PROVE  AcceptedIsSound
    BY DEF QuestionInv, AcceptedIsSound
  <2> QED
    BY ReviewIsSound, AcceptedRefers DEF AcceptedIsSound
<1> QED
  BY <1>1, QuestionStays, PTL
=============================================================================
