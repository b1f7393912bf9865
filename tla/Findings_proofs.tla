-------------------------- MODULE Findings_proofs --------------------------
(***************************************************************************)
(* What holds of every change, review and publication: the parser tells    *)
(* the change (ParserTellsTheChange), what blocks is proved and what is    *)
(* proved blocks (BlockedIsProved, ProvedIsBlocked), what is published     *)
(* stands (WhatIsPublishedStands), nothing that is published is lost and a *)
(* block is shown (NothingPublishedIsLost, BlockingIsShown).               *)
(*                                                                         *)
(* Each of the code's loops is a fold; a fold is followed step by step as  *)
(* a walk, and each property has a statement of its own about a walk that  *)
(* is not over: HasRead of the lines of a diff, Judges of the findings of  *)
(* an answer, BudgetChooses of the findings that are ranked.               *)
(***************************************************************************)
EXTENDS Decisions, Induction_proofs, SequenceTheorems, TLAPS

(***************************************************************************)
(* The parser, line by line.                                               *)
(***************************************************************************)
\* What the parser has made of the first lines of a text.
Parsed(text) == FoldLeft(ParseLine, NoDiff, text)

\* The walk of the parser along the lines of a text.
Parses(p, text) ==
  /\ p[0] = NoDiff
  /\ \A k \in 1..Len(text) : p[k] = ParseLine(p[k - 1], text[k])

\* The parser's fold has such a walk, and ends where it does.
LEMMA ParseWalk ==
  ASSUME NEW L, NEW text \in Seq(L)
  PROVE  \E p : Parses(p, text) /\ Parsed(text) = p[Len(text)]
<1> DEFINE n == Len(text)
           W(it, k) == [T \in SUBSET (1..k) |->
                          IF T = {} THEN NoDiff ELSE ParseLine(it[T \ {Max(T)}], text[Max(T)])]
           it == CHOOSE it : it = W(it, n)
           N == {k \in 0..n : \E jt : jt = W(jt, k)}
<1>1. n \in Nat /\ DOMAIN text = 1..n
  OBVIOUS
<1>2. Parsed(text) = it[1..n]
  <2>1. Parsed(text) = (CHOOSE jt : jt = [T \in SUBSET DOMAIN text |->
            IF T = {} THEN NoDiff ELSE ParseLine(jt[T \ {Max(T)}], text[Max(T)])])[DOMAIN text]
    BY DEF Parsed, FoldLeft, MapThenFoldSet
  <2> QED
    BY <1>1, <2>1
<1>3. ASSUME NEW T \in SUBSET (1..n), T # {}
      PROVE  Max(T) \in T /\ \A t \in T : t <= Max(T)
  BY <1>1, <1>3, LargestIndex
<1>4. 0 \in N
  <2> DEFINE jt == [T \in SUBSET (1..0) |-> NoDiff]
  <2>1. \A T \in SUBSET (1..0) : T = {}
    OBVIOUS
  <2>2. jt = W(jt, 0)
    BY <2>1
  <2> QED
    BY <1>1, <2>2
<1>5. ASSUME NEW k \in 0..n, k < n /\ k \in N PROVE k + 1 \in N
  <2>1. PICK jt : jt = W(jt, k)
    BY <1>5
  <2> DEFINE kt == W(jt, k + 1)
  <2>2. k \in Nat /\ k + 1 \in 0..n /\ k + 1 \in Nat
    <3>1. k \in 0..n /\ k < n
      BY <1>5
    <3> QED
      BY <1>1, <3>1
  <2>3. ASSUME NEW T \in SUBSET (1..(k + 1)), T # {}
        PROVE  T \ {Max(T)} \in SUBSET (1..k)
    <3>1. T \in SUBSET (1..n)
      BY <1>1, <2>2
    <3>2. Max(T) \in T /\ \A t \in T : t <= Max(T)
      BY <1>3, <2>3, <3>1
    <3>3. ASSUME NEW t \in T, t # Max(T) PROVE t \in 1..k
      <4>1. t \in 1..(k + 1) /\ Max(T) \in 1..(k + 1) /\ t <= Max(T)
        BY <3>2
      <4> HIDE DEF W
      <4> QED
        BY <2>2, <3>3, <4>1
    <3> QED
      BY <3>3
  <2>4. ASSUME NEW T \in SUBSET (1..k) PROVE kt[T] = jt[T]
    <3>1. T \in SUBSET (1..(k + 1))
      BY <2>2
    <3> QED
      BY <2>1, <3>1
  <2>5. kt = W(kt, k + 1)
    <3>1. ASSUME NEW T \in SUBSET (1..(k + 1)), T # {}
          PROVE  jt[T \ {Max(T)}] = kt[T \ {Max(T)}]
      BY <2>3, <2>4, <3>1
    <3> QED
      BY <3>1
  <2> HIDE DEF W
  <2> QED
    BY <2>2, <2>5
<1>6. n \in N
  <2>1. \A k \in 0..n : k \in N
    <3> HIDE DEF N, n
    <3> QED
      BY <1>1, <1>4, <1>5, InductionUpTo
  <2>2. n \in 0..n
    BY <1>1
  <2> QED
    BY <2>1, <2>2
<1>7. it = W(it, n)
  <2> HIDE DEF W
  <2> QED
    BY <1>6
<1> HIDE DEF it
<1> DEFINE p == [k \in 0..n |-> it[1..k]]
<1>8. p[0] = NoDiff
  <2>1. 1..0 = {} /\ {} \in SUBSET (1..n)
    OBVIOUS
  <2>2. it[{}] = NoDiff
    BY <1>7, <2>1
  <2> QED
    BY <1>1, <2>1, <2>2
<1>9. ASSUME NEW k \in 1..n PROVE p[k] = ParseLine(p[k - 1], text[k])
  <2>1. 1..k \in SUBSET (1..n) /\ 1..k # {} /\ (1..k) \ {k} = 1..(k - 1)
    <3>1. k \in 1..k
      OBVIOUS
    <3>2. \A t \in 1..k : t \in 1..n
      BY <1>1
    <3>3. (1..k) \ {k} = 1..(k - 1)
      OBVIOUS
    <3> QED
      BY <3>1, <3>2, <3>3
  <2>2. Max(1..k) = k
    <3>1. Max(1..k) \in 1..k /\ \A t \in 1..k : t <= Max(1..k)
      BY <1>3, <2>1
    <3>2. k \in 1..k
      OBVIOUS
    <3> QED
      BY <3>1, <3>2
  <2>3. it[1..k] = ParseLine(it[(1..k) \ {Max(1..k)}], text[Max(1..k)])
    BY <1>7, <2>1
  <2>4. k \in 0..n /\ k - 1 \in 0..n
    BY <1>1
  <2> QED
    BY <2>1, <2>2, <2>3, <2>4
<1>10. p[n] = it[1..n]
  BY <1>1
<1> HIDE DEF p
<1>11. Parses(p, text)
  BY <1>8, <1>9 DEF Parses
<1> QED
  BY <1>2, <1>10, <1>11

\* One line more.
LEMMA ParsedAppend ==
  ASSUME NEW L, NEW text \in Seq(L), NEW l \in L
  PROVE  Parsed(Append(text, l)) = ParseLine(Parsed(text), l)
<1> DEFINE more == Append(text, l)
           n == Len(text)
<1>1. /\ more \in Seq(L) /\ Len(more) = n + 1 /\ n \in Nat
      /\ more[n + 1] = l /\ \A k \in 1..n : more[k] = text[k]
  OBVIOUS
<1>2. PICK p : Parses(p, text) /\ Parsed(text) = p[n]
  BY ParseWalk
<1> HIDE DEF more
<1>3. PICK q : Parses(q, more) /\ Parsed(more) = q[n + 1]
  BY <1>1, ParseWalk
<1> DEFINE N == {k \in 0..n : p[k] = q[k]}
<1>4. 0 \in N
  BY <1>1, <1>2, <1>3 DEF Parses
<1>5. ASSUME NEW k \in 0..n, k < n /\ k \in N PROVE k + 1 \in N
  <2>1. k + 1 \in 1..n /\ k + 1 \in 1..(n + 1) /\ (k + 1) - 1 = k /\ k + 1 \in 0..n
    <3>1. k \in 0..n /\ k < n
      BY <1>5
    <3> QED
      BY <1>1, <3>1
  <2>2. p[k + 1] = ParseLine(p[k], text[k + 1])
    BY <1>2, <2>1 DEF Parses
  <2>3. q[k + 1] = ParseLine(q[k], more[k + 1])
    BY <1>1, <1>3, <2>1 DEF Parses
  <2>4. more[k + 1] = text[k + 1] /\ p[k] = q[k]
    BY <1>1, <1>5, <2>1
  <2> QED
    BY <2>1, <2>2, <2>3, <2>4
<1>6. p[n] = q[n]
  <2>1. \A k \in 0..n : k \in N
    <3> HIDE DEF N, n
    <3> QED
      BY <1>1, <1>4, <1>5, InductionUpTo
  <2> QED
    BY <1>1, <2>1
<1>7. q[n + 1] = ParseLine(q[n], l)
  <2>1. n + 1 \in 1..(n + 1) /\ (n + 1) - 1 = n
    BY <1>1
  <2> QED
    BY <1>1, <1>3, <2>1 DEF Parses
<1> QED
  BY <1>2, <1>3, <1>6, <1>7 DEF more

\* Nothing yet.
LEMMA ParsedNothing == Parsed(<<>>) = NoDiff
<1>1. PICK p : Parses(p, <<>>) /\ Parsed(<<>>) = p[Len(<<>>)]
  <2>1. <<>> \in Seq({})
    OBVIOUS
  <2> QED
    BY <2>1, ParseWalk
<1> QED
  BY <1>1 DEF Parses

-----------------------------------------------------------------------------
(* The header of a file.                                                   *)

\* The fields of the parser's state, and of a file.
StateFields == {"ok", "files", "open", "oldNo", "newNo", "move", "similarity"}
FileFields == {"path", "oldPath", "status", "similarity", "hunks"}

\* One file has begun, and no hunk of it.
HeaderState(s, path, oldPath, status, move) ==
  /\ DOMAIN s = StateFields /\ s.ok /\ ~s.open /\ s.move = move
  /\ \E f : /\ s.files = <<f>> /\ DOMAIN f = FileFields
            /\ f.path = path /\ f.oldPath = oldPath /\ f.status = status /\ f.hunks = <<>>

\* Setting the last file, the only one, leaves the rest of the state alone.
LEMMA SetFileIs ==
  ASSUME NEW s, DOMAIN s = StateFields, NEW f, s.files = <<f>>, NEW g
  PROVE  /\ DOMAIN SetFile(s, g) = StateFields /\ SetFile(s, g).files = <<g>>
         /\ SetFile(s, g).ok = s.ok /\ SetFile(s, g).open = s.open
         /\ SetFile(s, g).oldNo = s.oldNo /\ SetFile(s, g).newNo = s.newNo
         /\ SetFile(s, g).move = s.move /\ SetFile(s, g).similarity = s.similarity
  BY DEF SetFile, StateFields

\* The first line of a diff opens a file that is taken to be modified (diff.go:132).
LEMMA DiffHeader ==
  ASSUME NEW path, NEW oldPath
  PROVE  HeaderState(ParseLine(NoDiff, [mark |-> "diff", old |-> oldPath, new |-> path]),
                     path, oldPath, "M", "")
<1> DEFINE l == [mark |-> "diff", old |-> oldPath, new |-> path]
           f == [path |-> path, oldPath |-> oldPath, status |-> "M", similarity |-> 0,
                 hunks |-> <<>>]
           s == ParseLine(NoDiff, l)
<1>1. NoDiff.ok /\ l.mark = "diff" /\ Append(NoDiff.files, f) = <<f>>
      /\ DOMAIN NoDiff = StateFields
  BY DEF NoDiff, StateFields
<1>2. s = [NoDiff EXCEPT !.files = Append(@, [path |-> l.new, oldPath |-> l.old, status |-> "M",
                                              similarity |-> 0, hunks |-> <<>>]),
                         !.open = FALSE, !.move = "", !.similarity = 0]
  <2>1. ~IsOldHeader(l) /\ ~IsNewHeader(l)
    BY DEF IsOldHeader, IsNewHeader
  <2> HIDE DEF l, f
  <2> QED
    BY <1>1, <2>1 DEF ParseLine
<1>3. DOMAIN s = StateFields /\ s.ok /\ ~s.open /\ s.move = "" /\ s.files = <<f>>
  <2> HIDE DEF s
  <2> QED
    BY <1>1, <1>2 DEF StateFields
<1>4. /\ DOMAIN f = FileFields /\ f.path = path /\ f.oldPath = oldPath
      /\ f.status = "M" /\ f.hunks = <<>>
  BY DEF FileFields
<1> HIDE DEF s, f
<1>5. HeaderState(s, path, oldPath, "M", "")
  BY <1>3, <1>4 DEF HeaderState
<1> QED
  BY <1>5 DEF s

\* A file that is the only one is the last.
LEMMA OneFileIsLast ==
  ASSUME NEW f, NEW files, files = <<f>>
  PROVE  files # <<>> /\ Last(files) = f
<1>1. Len(files) = 1 /\ files[1] = f
  OBVIOUS
<1>2. files # <<>>
  BY <1>1
<1> QED
  BY <1>1, <1>2 DEF Last

\* A header line is read as one.
LEMMA HeaderLine ==
  ASSUME NEW s, s.ok, ~s.open, NEW f, s.files = <<f>>, NEW l,
         l.mark # "diff", l.mark # "@@", l.mark # "+", l.mark # "-"
  PROVE  ParseLine(s, l) = ParseHeader(s, f, l)
<1>1. s.files # <<>> /\ Last(s.files) = f
  BY OneFileIsLast
<1>2. ~IsOldHeader(l) /\ ~IsNewHeader(l)
  BY DEF IsOldHeader, IsNewHeader
<1> QED
  BY <1>1, <1>2 DEF ParseLine

\* A header line that only sets the file leaves the state a header's.
LEMMA HeaderSets ==
  ASSUME NEW s, DOMAIN s = StateFields, s.ok, ~s.open, NEW f, s.files = <<f>>,
         NEW g, DOMAIN g = FileFields, g.hunks = <<>>,
         NEW p, NEW o, NEW st, NEW mv, s.move = mv, g.path = p, g.oldPath = o, g.status = st
  PROVE  HeaderState(SetFile(s, g), p, o, st, mv)
<1> DEFINE u == SetFile(s, g)
<1>1. DOMAIN u = StateFields /\ u.files = <<g>> /\ u.ok = s.ok /\ u.open = s.open
      /\ u.move = s.move
  BY SetFileIs
<1> HIDE DEF u
<1>2. HeaderState(u, p, o, st, mv)
  BY <1>1 DEF HeaderState
<1> QED
  BY <1>2 DEF u

\* What each of the extended header lines says of the file (diff.go:143-168).
LEMMA NewFileLine ==
  ASSUME NEW s, NEW p, NEW o, NEW st, NEW mv, HeaderState(s, p, o, st, mv),
         NEW l, l.mark = "new file"
  PROVE  HeaderState(ParseLine(s, l), p, o, "A", mv)
<1>0. DOMAIN s = StateFields /\ s.ok /\ ~s.open /\ s.move = mv
  BY DEF HeaderState
<1>1. PICK f : /\ s.files = <<f>> /\ DOMAIN f = FileFields
               /\ f.path = p /\ f.oldPath = o /\ f.status = st /\ f.hunks = <<>>
  BY DEF HeaderState
<1> DEFINE g == [f EXCEPT !.status = "A"]
<1>2. ParseLine(s, l) = ParseHeader(s, f, l)
  BY <1>0, <1>1, HeaderLine
<1>3. ParseHeader(s, f, l) = SetFile(s, g)
  BY DEF ParseHeader
<1>4. DOMAIN g = FileFields /\ g.path = p /\ g.oldPath = o /\ g.status = "A" /\ g.hunks = <<>>
  BY <1>1 DEF FileFields
<1> HIDE DEF g
<1>5. HeaderState(SetFile(s, g), p, o, "A", mv)
  BY <1>0, <1>1, <1>4, HeaderSets
<1> QED
  BY <1>2, <1>3, <1>5

\* The same of a deleted file.
LEMMA DeletedFileLine ==
  ASSUME NEW s, NEW p, NEW o, NEW st, NEW mv, HeaderState(s, p, o, st, mv),
         NEW l, l.mark = "deleted file"
  PROVE  HeaderState(ParseLine(s, l), p, o, "D", mv)
<1>0. DOMAIN s = StateFields /\ s.ok /\ ~s.open /\ s.move = mv
  BY DEF HeaderState
<1>1. PICK f : /\ s.files = <<f>> /\ DOMAIN f = FileFields
               /\ f.path = p /\ f.oldPath = o /\ f.status = st /\ f.hunks = <<>>
  BY DEF HeaderState
<1> DEFINE g == [f EXCEPT !.status = "D"]
<1>2. ParseLine(s, l) = ParseHeader(s, f, l)
  BY <1>0, <1>1, HeaderLine
<1>3. ParseHeader(s, f, l) = SetFile(s, g)
  BY DEF ParseHeader
<1>4. DOMAIN g = FileFields /\ g.path = p /\ g.oldPath = o /\ g.status = "D" /\ g.hunks = <<>>
  BY <1>1 DEF FileFields
<1> HIDE DEF g
<1>5. HeaderState(SetFile(s, g), p, o, "D", mv)
  BY <1>0, <1>1, <1>4, HeaderSets
<1> QED
  BY <1>2, <1>3, <1>5

\* A similarity before the lines of the move changes neither name nor status.
LEMMA SimilarityLine ==
  ASSUME NEW s, NEW p, NEW o, NEW st, HeaderState(s, p, o, st, ""),
         NEW l, l.mark = "similarity", l.value \in 0..100
  PROVE  HeaderState(ParseLine(s, l), p, o, st, "")
<1>0. DOMAIN s = StateFields /\ s.ok /\ ~s.open /\ s.move = ""
  BY DEF HeaderState
<1>1. PICK f : /\ s.files = <<f>> /\ DOMAIN f = FileFields
               /\ f.path = p /\ f.oldPath = o /\ f.status = st /\ f.hunks = <<>>
  BY DEF HeaderState
<1> DEFINE r == [s EXCEPT !.similarity = l.value, !.ok = @ /\ l.value \in 0 .. 100]
<1>2. ParseLine(s, l) = ParseHeader(s, f, l)
  BY <1>0, <1>1, HeaderLine
<1>3. ParseHeader(s, f, l) = setMoveStatus(r, f)
  BY DEF ParseHeader
<1>4. DOMAIN r = StateFields /\ ~r.open /\ r.move = "" /\ r.files = <<f>>
  BY <1>0, <1>1 DEF StateFields
<1>5. r.ok
  BY <1>0 DEF StateFields
<1> HIDE DEF r
<1>6. setMoveStatus(r, f) = SetFile(r, f)
  BY <1>4 DEF setMoveStatus
<1>7. HeaderState(SetFile(r, f), p, o, st, "")
  BY <1>1, <1>4, <1>5, HeaderSets
<1> QED
  BY <1>2, <1>3, <1>6, <1>7

\* The first line of a move: the old name.
LEMMA MoveFromLine ==
  ASSUME NEW s, NEW p, NEW o, NEW st, NEW mv, HeaderState(s, p, o, st, mv),
         NEW l, l.mark = "move from", l.kind = "R"
  PROVE  HeaderState(ParseLine(s, l), p, l.path, "R", "R")
<1>0. DOMAIN s = StateFields /\ s.ok /\ ~s.open /\ s.move = mv
  BY DEF HeaderState
<1>1. PICK f : /\ s.files = <<f>> /\ DOMAIN f = FileFields
               /\ f.path = p /\ f.oldPath = o /\ f.status = st /\ f.hunks = <<>>
  BY DEF HeaderState
<1> DEFINE r == [s EXCEPT !.move = l.kind]
           g == [f EXCEPT !.oldPath = l.path]
           h == [g EXCEPT !.status = r.move, !.similarity = r.similarity]
<1>2. ParseLine(s, l) = ParseHeader(s, f, l)
  BY <1>0, <1>1, HeaderLine
<1>3. ParseHeader(s, f, l) = setMoveStatus(r, g)
  BY DEF ParseHeader
<1>4. DOMAIN r = StateFields /\ ~r.open /\ r.move = "R" /\ r.files = <<f>> /\ r.ok
  BY <1>0, <1>1 DEF StateFields
<1> HIDE DEF r
<1>5. /\ DOMAIN h = FileFields /\ h.path = p /\ h.oldPath = l.path /\ h.status = "R"
      /\ h.hunks = <<>>
  BY <1>1, <1>4 DEF FileFields
<1> HIDE DEF g
<1>6. setMoveStatus(r, g) = SetFile(r, h)
  BY <1>4 DEF setMoveStatus
<1> HIDE DEF h
<1>7. HeaderState(SetFile(r, h), p, l.path, "R", "R")
  BY <1>4, <1>5, HeaderSets
<1> QED
  BY <1>2, <1>3, <1>6, <1>7

\* The second line of a move: the new name.
LEMMA MoveToLine ==
  ASSUME NEW s, NEW p, NEW o, NEW st, NEW mv, HeaderState(s, p, o, st, mv),
         NEW l, l.mark = "move to", l.kind = "R"
  PROVE  HeaderState(ParseLine(s, l), l.path, o, "R", "R")
<1>0. DOMAIN s = StateFields /\ s.ok /\ ~s.open /\ s.move = mv
  BY DEF HeaderState
<1>1. PICK f : /\ s.files = <<f>> /\ DOMAIN f = FileFields
               /\ f.path = p /\ f.oldPath = o /\ f.status = st /\ f.hunks = <<>>
  BY DEF HeaderState
<1> DEFINE r == [s EXCEPT !.move = l.kind]
           g == [f EXCEPT !.path = l.path]
           h == [g EXCEPT !.status = r.move, !.similarity = r.similarity]
<1>2. ParseLine(s, l) = ParseHeader(s, f, l)
  BY <1>0, <1>1, HeaderLine
<1>3. ParseHeader(s, f, l) = setMoveStatus(r, g)
  BY DEF ParseHeader
<1>4. DOMAIN r = StateFields /\ ~r.open /\ r.move = "R" /\ r.files = <<f>> /\ r.ok
  BY <1>0, <1>1 DEF StateFields
<1> HIDE DEF r
<1>5. /\ DOMAIN h = FileFields /\ h.path = l.path /\ h.oldPath = o /\ h.status = "R"
      /\ h.hunks = <<>>
  BY <1>1, <1>4 DEF FileFields
<1> HIDE DEF g
<1>6. setMoveStatus(r, g) = SetFile(r, h)
  BY <1>4 DEF setMoveStatus
<1> HIDE DEF h
<1>7. HeaderState(SetFile(r, h), l.path, o, "R", "R")
  BY <1>4, <1>5, HeaderSets
<1> QED
  BY <1>2, <1>3, <1>6, <1>7

\* What is read of a path header.
LEMMA PathOf ==
  ASSUME NEW mark, NEW dashes, NEW prefix, NEW path, path # DevNull,
         NEW l, l = PathHeader(mark, dashes, prefix, path)
  PROVE  /\ l.mark = mark /\ l.words # <<>> /\ l.words[1] = dashes
         /\ parseDiffPath(Tail(l.words), prefix) = path
<1> DEFINE v == <<dashes, prefix, path>>
           u == <<prefix, path>>
<1>1. l.mark = mark /\ l.words = v
  BY DEF PathHeader
<1>2. Tail(v) = u /\ v[1] = dashes /\ v # <<>>
  OBVIOUS
<1>3. u # <<>> /\ u # <<DevNull>> /\ u[1] = prefix /\ u[2] = path
  OBVIOUS
<1> HIDE DEF u, v
<1>4. parseDiffPath(u, prefix) = path
  BY <1>3 DEF parseDiffPath
<1> QED
  BY <1>1, <1>2, <1>4

\* The --- or +++ line of a file that is not there has no prefix.
LEMMA NoPathOf ==
  ASSUME NEW mark, NEW dashes, NEW prefix,
         NEW l, l = PathHeader(mark, dashes, prefix, DevNull)
  PROVE  /\ l.mark = mark /\ l.words # <<>> /\ l.words[1] = dashes
         /\ Tail(l.words) = <<DevNull>>
<1> DEFINE v == <<dashes, DevNull>>
           u == <<DevNull>>
<1>1. l.mark = mark /\ l.words = v
  BY DEF PathHeader
<1>2. Tail(v) = u /\ v[1] = dashes /\ v # <<>>
  OBVIOUS
<1> QED
  BY <1>1, <1>2

\* And parses as no path.
LEMMA Nowhere ==
  ASSUME NEW prefix, prefix # DevNull, NEW u, u = <<DevNull>>
  PROVE  parseDiffPath(u, prefix) = ""
<1>1. u # <<>> /\ u[1] # prefix
  OBVIOUS
<1> QED
  BY <1>1 DEF parseDiffPath

\* The path of the old file is taken, when there is one.
LEMMA OldPathLine ==
  ASSUME NEW s, NEW p, NEW o, NEW st, NEW mv, HeaderState(s, p, o, st, mv),
         NEW l, l.mark = "-", l.words # <<>>, l.words[1] = "-- ",
         NEW path, parseDiffPath(Tail(l.words), "a/") = path
  PROVE  IF path # "" THEN HeaderState(ParseLine(s, l), p, path, st, mv)
         ELSE \E any : HeaderState(ParseLine(s, l), p, any, st, mv)
<1>0. DOMAIN s = StateFields /\ s.ok /\ ~s.open /\ s.move = mv
  BY DEF HeaderState
<1>1. PICK f : /\ s.files = <<f>> /\ DOMAIN f = FileFields
               /\ f.path = p /\ f.oldPath = o /\ f.status = st /\ f.hunks = <<>>
  BY DEF HeaderState
<1>2. s.files # <<>> /\ Last(s.files) = f
  BY <1>1, OneFileIsLast
<1>3. ParseLine(s, l) = ParseOldPath(s, f, l)
  <2>1. IsOldHeader(l) /\ ~IsNewHeader(l)
    BY DEF IsOldHeader, IsNewHeader
  <2> QED
    BY <1>0, <1>2, <2>1 DEF ParseLine
<1>4. ASSUME NEW any
      PROVE  HeaderState(SetFile(s, [f EXCEPT !.oldPath = any]), p, any, st, mv)
  <2> DEFINE g == [f EXCEPT !.oldPath = any]
  <2>1. DOMAIN g = FileFields /\ g.path = p /\ g.oldPath = any /\ g.status = st /\ g.hunks = <<>>
    BY <1>1 DEF FileFields
  <2> HIDE DEF g
  <2>2. HeaderState(SetFile(s, g), p, any, st, mv)
    BY <1>0, <1>1, <2>1, HeaderSets
  <2> QED
    BY <2>2 DEF g
<1>5. CASE path # ""
  <2>1. ParseOldPath(s, f, l) = SetFile(s, [f EXCEPT !.oldPath = path])
    BY <1>5 DEF ParseOldPath
  <2> QED
    BY <1>3, <1>4, <1>5, <2>1
<1>6. CASE path = ""
  <2>1. \/ ParseOldPath(s, f, l) = SetFile(s, [f EXCEPT !.oldPath = ""])
        \/ ParseOldPath(s, f, l) = s
    BY <1>6 DEF ParseOldPath
  <2> QED
    BY <1>3, <1>4, <1>6, <2>1
<1> QED
  BY <1>5, <1>6

\* And that of the new file.
LEMMA NewPathLine ==
  ASSUME NEW s, NEW p, NEW o, NEW st, NEW mv, HeaderState(s, p, o, st, mv),
         NEW l, l.mark = "+", l.words # <<>>, l.words[1] = "++ ",
         NEW path, parseDiffPath(Tail(l.words), "b/") = path
  PROVE  HeaderState(ParseLine(s, l), IF path = "" THEN p ELSE path, o, st, mv)
<1>0. DOMAIN s = StateFields /\ s.ok /\ ~s.open /\ s.move = mv
  BY DEF HeaderState
<1>1. PICK f : /\ s.files = <<f>> /\ DOMAIN f = FileFields
               /\ f.path = p /\ f.oldPath = o /\ f.status = st /\ f.hunks = <<>>
  BY DEF HeaderState
<1>2. s.files # <<>> /\ Last(s.files) = f
  BY <1>1, OneFileIsLast
<1>3. ParseLine(s, l) = ParseNewPath(s, f, l)
  <2>1. ~IsOldHeader(l) /\ IsNewHeader(l)
    BY DEF IsOldHeader, IsNewHeader
  <2> QED
    BY <1>0, <1>2, <2>1 DEF ParseLine
<1>4. CASE path # ""
  <2> DEFINE g == [f EXCEPT !.path = path]
  <2>2. DOMAIN g = FileFields /\ g.path = path /\ g.oldPath = o /\ g.status = st /\ g.hunks = <<>>
    BY <1>1 DEF FileFields
  <2>3. ParseNewPath(s, f, l) = SetFile(s, g)
    BY <1>4 DEF ParseNewPath
  <2> HIDE DEF g
  <2>4. HeaderState(SetFile(s, g), path, o, st, mv)
    BY <1>0, <1>1, <2>2, HeaderSets
  <2> QED
    BY <1>3, <1>4, <2>3, <2>4
<1>5. CASE path = ""
  <2>2. ParseNewPath(s, f, l) = s
    BY <1>5 DEF ParseNewPath
  <2> QED
    BY <1>3, <1>5, <2>2
<1> QED
  BY <1>4, <1>5

-----------------------------------------------------------------------------
(* The text of a header, as a whole.                                       *)

\* A sequence, of whatever elements.
IsText(text) == \E L : text \in Seq(L)

\* A line more is parsed from where the text before it left.
LEMMA TextAppend ==
  ASSUME NEW text, IsText(text), NEW l
  PROVE  /\ IsText(Append(text, l)) /\ Append(text, l) = text \o <<l>>
         /\ Parsed(Append(text, l)) = ParseLine(Parsed(text), l)
<1>1. PICK L : text \in Seq(L)
  BY DEF IsText
<1> DEFINE M == L \cup {l}
<1>2. text \in Seq(M) /\ l \in M
  BY <1>1
<1> HIDE DEF M
<1>3. Append(text, l) \in Seq(M) /\ Append(text, l) = text \o <<l>>
  BY <1>2
<1> QED
  BY <1>2, <1>3, ParsedAppend DEF IsText

\* Two texts make a text.
LEMMA TextConcat ==
  ASSUME NEW a, IsText(a), NEW b, IsText(b)
  PROVE  IsText(a \o b) /\ a \o <<>> = a
<1>1. PICK L : a \in Seq(L)
  BY DEF IsText
<1>2. PICK M : b \in Seq(M)
  BY DEF IsText
<1>3. a \o b \in Seq(L \cup M)
  <2>1. a \in Seq(L \cup M) /\ b \in Seq(L \cup M)
    BY <1>1, <1>2
  <2> QED
    BY <2>1
<1>5. a \o <<>> = a
  BY <1>1
<1> QED
  BY <1>3, <1>5 DEF IsText

\* In whatever order they are put together.
LEMMA TextAssociates ==
  ASSUME NEW a, IsText(a), NEW b, IsText(b), NEW d, IsText(d)
  PROVE  a \o (b \o d) = (a \o b) \o d
<1>1. PICK L : a \in Seq(L)
  BY DEF IsText
<1>2. PICK M : b \in Seq(M)
  BY DEF IsText
<1>3. PICK N : d \in Seq(N)
  BY DEF IsText
<1> DEFINE K == L \cup M \cup N
<1>4. a \in Seq(K) /\ b \in Seq(K) /\ d \in Seq(K)
  BY <1>1, <1>2, <1>3
<1> HIDE DEF K
<1> QED
  BY <1>4, ConcatAssociative

\* The header of a change, without and with the lines that name the two files.
Heading(c) ==
  << [mark |-> "diff", old |-> c.oldPath, new |-> c.path] >>
  \o (CASE c.status = "A" -> << [mark |-> "new file"] >>
        [] c.status = "D" -> << [mark |-> "deleted file"] >>
        [] c.status = "R" -> << [mark |-> "similarity", value |-> 50],
                                [mark |-> "move from", kind |-> "R", path |-> c.oldPath],
                                [mark |-> "move to", kind |-> "R", path |-> c.path] >>
        [] OTHER -> <<>>)
\* The --- and +++ lines of a change.
FileNames(c) ==
  << PathHeader("-", "-- ", "a/", IF c.status = "A" THEN DevNull ELSE c.oldPath),
     PathHeader("+", "++ ", "b/", IF c.status = "D" THEN DevNull ELSE c.path) >>

\* What a header says of a change has been read.
Headed(s, c) ==
  \E o, mv : HeaderState(s, c.path, o, c.status, mv) /\ (c.status = "R" => o = c.oldPath)

\* The extended header tells the names and the status of the change.
LEMMA HeadingParsed ==
  ASSUME NEW c, IsChange(c)
  PROVE  IsText(Heading(c)) /\ Headed(Parsed(Heading(c)), c)
<1> DEFINE d == [mark |-> "diff", old |-> c.oldPath, new |-> c.path]
           t == <<d>>
           s == Parsed(t)
<1>1. IsText(<<>>) /\ <<>> \o <<d>> = <<d>> /\ Append(<<>>, d) = <<d>>
  <2>1. <<>> \in Seq({})
    OBVIOUS
  <2> QED
    BY <2>1 DEF IsText
<1>2. IsText(t) /\ s = ParseLine(NoDiff, d)
  BY <1>1, ParsedNothing, TextAppend
<1>3. HeaderState(s, c.path, c.oldPath, "M", "")
  BY <1>2, DiffHeader
<1> HIDE DEF t, s
<1>4. ASSUME NEW l, NEW u, IsText(u) PROVE u \o <<l>> = Append(u, l)
  BY <1>4, TextAppend
<1>5. CASE c.status = "A"
  <2> DEFINE l == [mark |-> "new file"]
  <2>1. Heading(c) = Append(t, l)
    BY <1>2, <1>4, <1>5 DEF Heading, t
  <2>2. l.mark = "new file"
    OBVIOUS
  <2> HIDE DEF l
  <2>3. HeaderState(ParseLine(s, l), c.path, c.oldPath, "A", "")
    BY <1>3, <2>2, NewFileLine
  <2>4. IsText(Append(t, l)) /\ Parsed(Append(t, l)) = ParseLine(s, l)
    BY <1>2, TextAppend DEF s
  <2> QED
    BY <1>5, <2>1, <2>3, <2>4 DEF Headed
<1>6. CASE c.status = "D"
  <2> DEFINE l == [mark |-> "deleted file"]
  <2>1. Heading(c) = Append(t, l)
    BY <1>2, <1>4, <1>6 DEF Heading, t
  <2>2. l.mark = "deleted file"
    OBVIOUS
  <2> HIDE DEF l
  <2>3. HeaderState(ParseLine(s, l), c.path, c.oldPath, "D", "")
    BY <1>3, <2>2, DeletedFileLine
  <2>4. IsText(Append(t, l)) /\ Parsed(Append(t, l)) = ParseLine(s, l)
    BY <1>2, TextAppend DEF s
  <2> QED
    BY <1>6, <2>1, <2>3, <2>4 DEF Headed
<1>7. CASE c.status = "R"
  <2> DEFINE k == [mark |-> "similarity", value |-> 50]
             l == [mark |-> "move from", kind |-> "R", path |-> c.oldPath]
             m == [mark |-> "move to", kind |-> "R", path |-> c.path]
  <2>1. /\ k.mark = "similarity" /\ k.value \in 0..100
        /\ l.mark = "move from" /\ l.kind = "R" /\ l.path = c.oldPath
        /\ m.mark = "move to" /\ m.kind = "R" /\ m.path = c.path
    OBVIOUS
  <2>2. Heading(c) = t \o <<k, l, m>>
    BY <1>7 DEF Heading, t
  <2> HIDE DEF k, l, m
  <2> DEFINE t1 == Append(t, k)
             t2 == Append(t1, l)
             t3 == Append(t2, m)
  <2>3. IsText(t1) /\ Parsed(t1) = ParseLine(s, k)
    BY <1>2, TextAppend DEF s
  <2>4. IsText(t2) /\ Parsed(t2) = ParseLine(Parsed(t1), l)
    BY <2>3, TextAppend
  <2>5. IsText(t3) /\ Parsed(t3) = ParseLine(Parsed(t2), m)
    BY <2>4, TextAppend
  <2>6. Heading(c) = t3
    <3>1. t \o <<k, l, m>> = t3
      BY DEF t
    <3> QED
      BY <2>2, <3>1
  <2> HIDE DEF t1, t2, t3
  <2>7. HeaderState(Parsed(t1), c.path, c.oldPath, "M", "")
    BY <1>3, <2>1, <2>3, SimilarityLine
  <2>8. HeaderState(Parsed(t2), c.path, c.oldPath, "R", "R")
    BY <2>1, <2>4, <2>7, MoveFromLine
  <2>9. HeaderState(Parsed(t3), c.path, c.oldPath, "R", "R")
    BY <2>1, <2>5, <2>8, MoveToLine
  <2> QED
    BY <1>7, <2>5, <2>6, <2>9 DEF Headed
<1>8. CASE c.status = "M"
  <2>1. Heading(c) = t
    BY <1>2, <1>8 DEF Heading, t
  <2> QED
    BY <1>2, <1>3, <1>8, <2>1 DEF Headed, s
<1> QED
  BY <1>5, <1>6, <1>7, <1>8 DEF IsChange

\* So it does when the --- and +++ lines follow.
LEMMA NamesParsed ==
  ASSUME NEW c, IsChange(c)
  PROVE  IsText(Heading(c) \o FileNames(c)) /\ Headed(Parsed(Heading(c) \o FileNames(c)), c)
<1> DEFINE minus == "-- "
           plus == "++ "
           sideA == "a/"
           sideB == "b/"
           t == Heading(c)
           po == IF c.status = "A" THEN DevNull ELSE c.oldPath
           pn == IF c.status = "D" THEN DevNull ELSE c.path
           k == PathHeader("-", minus, sideA, po)
           l == PathHeader("+", plus, sideB, pn)
           t1 == Append(t, k)
           t2 == Append(t1, l)
<1>1. PICK o, mv : /\ HeaderState(Parsed(t), c.path, o, c.status, mv)
                   /\ c.status = "R" => o = c.oldPath
  BY HeadingParsed DEF Headed
<1>0. IsText(t)
  BY HeadingParsed
<1> DEFINE qo == IF c.status = "A" THEN "" ELSE c.oldPath
           qn == IF c.status = "D" THEN "" ELSE c.path
<1>4. FileNames(c) = <<k, l>>
  BY DEF FileNames
<1>20. sideA # DevNull /\ sideB # DevNull
  BY DEF DevNull
<1> HIDE DEF minus, plus, sideA, sideB
<1>2. k.mark = "-" /\ k.words # <<>> /\ k.words[1] = minus /\ parseDiffPath(Tail(k.words), sideA) = qo
  <2>1. CASE c.status = "A"
    <3>1. k = PathHeader("-", minus, sideA, DevNull)
      BY <2>1
    <3> HIDE DEF k
    <3>3. /\ k.mark = "-" /\ k.words # <<>> /\ k.words[1] = minus
          /\ Tail(k.words) = <<DevNull>>
      BY <3>1, NoPathOf
    <3>4. parseDiffPath(Tail(k.words), sideA) = ""
      BY <1>20, <3>3, Nowhere
    <3> QED
      BY <2>1, <3>3, <3>4
  <2>2. CASE c.status # "A"
    <3>1. k = PathHeader("-", minus, sideA, c.oldPath) /\ c.oldPath # DevNull
      BY <2>2 DEF IsChange
    <3> HIDE DEF k
    <3>3. /\ k.mark = "-" /\ k.words # <<>> /\ k.words[1] = minus
          /\ parseDiffPath(Tail(k.words), sideA) = c.oldPath
      BY <3>1, PathOf
    <3> QED
      BY <2>2, <3>3
  <2> QED
    BY <2>1, <2>2
<1>3. l.mark = "+" /\ l.words # <<>> /\ l.words[1] = plus /\ parseDiffPath(Tail(l.words), sideB) = qn
  <2>1. CASE c.status = "D"
    <3>1. l = PathHeader("+", plus, sideB, DevNull)
      BY <2>1
    <3> HIDE DEF l
    <3>3. /\ l.mark = "+" /\ l.words # <<>> /\ l.words[1] = plus
          /\ Tail(l.words) = <<DevNull>>
      BY <3>1, NoPathOf
    <3>4. parseDiffPath(Tail(l.words), sideB) = ""
      BY <1>20, <3>3, Nowhere
    <3> QED
      BY <2>1, <3>3, <3>4
  <2>2. CASE c.status # "D"
    <3>1. l = PathHeader("+", plus, sideB, c.path) /\ c.path # DevNull
      BY <2>2 DEF IsChange
    <3> HIDE DEF l
    <3>3. /\ l.mark = "+" /\ l.words # <<>> /\ l.words[1] = plus
          /\ parseDiffPath(Tail(l.words), sideB) = c.path
      BY <3>1, PathOf
    <3> QED
      BY <2>2, <3>3
  <2> QED
    BY <2>1, <2>2
<1> HIDE DEF k, l, t
<1>5. IsText(t1) /\ Parsed(t1) = ParseLine(Parsed(t), k)
  BY <1>0, TextAppend
<1>6. IsText(t2) /\ Parsed(t2) = ParseLine(Parsed(t1), l)
  BY <1>5, TextAppend
<1>7. t \o <<k, l>> = t2
  BY <1>0 DEF IsText
<1> HIDE DEF t1, t2
<1>8. \E p : HeaderState(Parsed(t1), c.path, p, c.status, mv) /\ (c.status = "R" => p = c.oldPath)
  <2>1. IF qo # "" THEN HeaderState(Parsed(t1), c.path, qo, c.status, mv)
        ELSE \E any : HeaderState(Parsed(t1), c.path, any, c.status, mv)
    BY <1>1, <1>2, <1>5, OldPathLine DEF minus, sideA
  <2>2. c.oldPath # "" /\ (c.status = "R" => qo = c.oldPath)
    BY DEF IsChange
  <2> QED
    BY <2>1, <2>2
<1>9. PICK p : HeaderState(Parsed(t1), c.path, p, c.status, mv) /\ (c.status = "R" => p = c.oldPath)
  BY <1>8
<1>10. HeaderState(Parsed(t2), IF qn = "" THEN c.path ELSE qn, p, c.status, mv)
  BY <1>3, <1>6, <1>9, NewPathLine DEF plus, sideB
<1>11. (IF qn = "" THEN c.path ELSE qn) = c.path
  OBVIOUS
<1>12. Headed(Parsed(t2), c)
  BY <1>9, <1>10, <1>11 DEF Headed
<1> QED
  BY <1>4, <1>6, <1>7, <1>12 DEF t

-----------------------------------------------------------------------------
(* The hunks of a file.                                                    *)

\* The lines that the parser is to find of a change: of each, its numbers.
AllLines(c) ==
  [i \in DOMAIN c.edits |->
     [kind |-> c.edits[i].op,
      oldNo |-> IF c.edits[i].op = "+" THEN 0 ELSE LinesUpTo(c, i, "-"),
      newNo |-> IF c.edits[i].op = "-" THEN 0 ELSE LinesUpTo(c, i, "+"),
      words |-> c.edits[i].words]]

\* A line of one of the files comes, at edit i or after it, in the same hunk.
Comes(c, i, op) ==
  \E j \in i..Len(c.edits) : i..j \subseteq Shown(c) /\ IsLineOf(c.edits[j], op)

\* Every line the parser could make of a change.
LinesOf(c) == {AllLines(c)[k] : k \in DOMAIN c.edits}

\* Hunks of some lines, and those whose lines are lines of the change.
HunksIn(hs, L) ==
  /\ IsText(hs)
  /\ \A h \in DOMAIN hs : /\ DOMAIN hs[h] = {"newStart", "lines"}
                          /\ hs[h].newStart \in Int /\ hs[h].lines \in Seq(L)
Hunks(hs, c) == HunksIn(hs, LinesOf(c))

\* The one file of the state is that of the change, with the lines found so far.
FileOf(s, c, f) ==
  /\ DOMAIN s = StateFields /\ s.ok /\ s.files = <<f>>
  /\ DOMAIN f = FileFields /\ f.path = c.path /\ f.status = c.status
  /\ c.status = "R" => f.oldPath = c.oldPath
  /\ Hunks(f.hunks, c)

\* The first m edits have been read: what of them is shown has been found.
HasRead(s, c, m) ==
  \E f : /\ FileOf(s, c, f) /\ (s.open => f.hunks # <<>>)
         /\ HunkLines(f) = Those(AllLines(c), Shown(c) \cap 1..m)

\* And a hunk is open, with the counters at the lines that come next.
InHunk(s, c, m) ==
  /\ s.open
  /\ Comes(c, m + 1, "-") => s.oldNo = LinesUpTo(c, m, "-") + 1
  /\ Comes(c, m + 1, "+") => s.newNo = LinesUpTo(c, m, "+") + 1
  /\ \E f : /\ FileOf(s, c, f) /\ f.hunks # <<>>
            /\ HunkLines(f) = Those(AllLines(c), Shown(c) \cap 1..m)

\* The edits of a change are a list.
LEMMA EditsType ==
  ASSUME NEW c, IsChange(c)
  PROVE  Len(c.edits) \in Nat /\ DOMAIN c.edits = 1..Len(c.edits)
<1>1. PICK L : c.edits \in Seq(L)
  BY DEF IsChange
<1> QED
  BY <1>1

\* The number of a line is that of the one before, or one more.
LEMMA LinesUpToStep ==
  ASSUME NEW c, NEW i \in Nat, NEW op
  PROVE  /\ LinesUpTo(c, i, op) \in Nat
         /\ i # 0 => LinesUpTo(c, i, op) =
              LinesUpTo(c, i - 1, op) + (IF IsLineOf(c.edits[i], op) THEN 1 ELSE 0)
<1> DEFINE S(k) == {j \in 1..k : IsLineOf(c.edits[j], op)}
<1>1. ASSUME NEW k \in Nat PROVE IsFiniteSet(S(k)) /\ Cardinality(S(k)) \in Nat
  <2>1. S(k) \in SUBSET (1..k)
    OBVIOUS
  <2> HIDE DEF S
  <2> QED
    BY <2>1, Positions
<1>2. LinesUpTo(c, i, op) = Cardinality(S(i)) /\ LinesUpTo(c, i - 1, op) = Cardinality(S(i - 1))
  BY DEF LinesUpTo
<1>3. CASE i # 0
  <2>1. i - 1 \in Nat /\ i \notin S(i - 1)
    BY <1>3
  <2>2. S(i) = IF IsLineOf(c.edits[i], op) THEN S(i - 1) \cup {i} ELSE S(i - 1)
    <3>1. \A j \in 1..i : j \in 1..(i - 1) \/ j = i
      BY <1>3
    <3>2. \A j \in 1..(i - 1) : j \in 1..i
      BY <1>3
    <3>3. i \in 1..i
      BY <1>3
    <3> QED
      BY <3>1, <3>2, <3>3
  <2> HIDE DEF S
  <2>3. IsFiniteSet(S(i - 1))
    BY <1>1, <2>1
  <2>4. Cardinality(S(i - 1) \cup {i}) = Cardinality(S(i - 1)) + 1
    BY <2>1, <2>3, FS_AddElement
  <2>5. Cardinality(S(i - 1)) \in Nat
    BY <1>1, <2>1
  <2> QED
    BY <1>1, <1>2, <1>3, <2>2, <2>4, <2>5
<1> QED
  BY <1>1, <1>2, <1>3

\* What the rest of a hunk has, from one edit to the next.
LEMMA ComesOn ==
  ASSUME NEW c, IsChange(c), NEW i \in DOMAIN c.edits, i \in Shown(c), NEW op
  PROVE  /\ IsLineOf(c.edits[i], op) => Comes(c, i, op)
         /\ Comes(c, i + 1, op) => Comes(c, i, op)
<1>1. Len(c.edits) \in Nat /\ DOMAIN c.edits = 1..Len(c.edits)
  BY EditsType
<1>2. ASSUME IsLineOf(c.edits[i], op) PROVE Comes(c, i, op)
  <2>1. i \in i..Len(c.edits) /\ i..i \subseteq Shown(c)
    BY <1>1
  <2> QED
    BY <1>2, <2>1 DEF Comes
<1>3. ASSUME Comes(c, i + 1, op) PROVE Comes(c, i, op)
  <2>1. PICK j \in (i + 1)..Len(c.edits) : (i + 1)..j \subseteq Shown(c) /\ IsLineOf(c.edits[j], op)
    BY <1>3 DEF Comes
  <2>2. j \in i..Len(c.edits)
    BY <1>1
  <2>3. ASSUME NEW k \in i..j PROVE k \in Shown(c)
    <3>1. k = i \/ k \in (i + 1)..j
      BY <1>1
    <3> QED
      BY <2>1, <3>1
  <2> QED
    BY <2>1, <2>2, <2>3 DEF Comes
<1> QED
  BY <1>2, <1>3

\* What Start counts is what comes.
LEMMA StartIs ==
  ASSUME NEW c, NEW i, NEW op
  PROVE  Comes(c, i, op) => Start(c, i, op) = LinesUpTo(c, i - 1, op) + 1
  BY DEF Start, Comes

\* A hunk begins with a number.
LEMMA StartType ==
  ASSUME NEW c, IsChange(c), NEW i \in DOMAIN c.edits, NEW op
  PROVE  Start(c, i, op) \in Int
<1> DEFINE before == LinesUpTo(c, i - 1, op)
           has == \E j \in i..Len(c.edits) : i..j \subseteq Shown(c) /\ IsLineOf(c.edits[j], op)
<1>1. before \in Nat
  <2>1. i - 1 \in Nat
    BY EditsType
  <2> QED
    BY <2>1, LinesUpToStep
<1>2. Start(c, i, op) = before + (IF has THEN 1 ELSE 0)
  BY DEF Start
<1> HIDE DEF before, has
<1> QED
  BY <1>1, <1>2

\* The lines of the hunks of a file, in a sequence of sequences.
LEMMA LinesOfHunks ==
  ASSUME NEW L, NEW n \in Nat, NEW hs, DOMAIN hs = 1..n, \A h \in 1..n : hs[h].lines \in Seq(L),
         NEW ls, ls = [h \in DOMAIN hs |-> hs[h].lines]
  PROVE  ls \in Seq(Seq(L)) /\ Len(ls) = n /\ \A h \in 1..n : ls[h] = hs[h].lines
  OBVIOUS

\* The lines found, with a hunk more.
LEMMA HunkOpens ==
  ASSUME NEW c, NEW f, Hunks(f.hunks, c), NEW g, NEW new,
         DOMAIN new = {"newStart", "lines"}, new.newStart \in Int, new.lines = <<>>,
         g.hunks = Append(f.hunks, new)
  PROVE  g.hunks # <<>> /\ Hunks(g.hunks, c) /\ HunkLines(g) = HunkLines(f)
<1> DEFINE L == LinesOf(c)
           n == Len(f.hunks)
           before == [h \in DOMAIN f.hunks |-> f.hunks[h].lines]
           after == [h \in DOMAIN g.hunks |-> g.hunks[h].lines]
<1>1. PICK H : f.hunks \in Seq(H)
  BY DEF Hunks, HunksIn, IsText
<1>2. \A h \in DOMAIN f.hunks :
        /\ DOMAIN f.hunks[h] = {"newStart", "lines"} /\ f.hunks[h].newStart \in Int
        /\ f.hunks[h].lines \in Seq(L)
  BY DEF Hunks, HunksIn
<1>3. <<>> \in Seq(L)
  OBVIOUS
<1> HIDE DEF L
<1>5. /\ g.hunks \in Seq(H \cup {new}) /\ g.hunks # <<>> /\ n \in Nat
      /\ Len(g.hunks) = n + 1 /\ g.hunks[n + 1] = new
      /\ \A h \in 1..n : g.hunks[h] = f.hunks[h]
      /\ DOMAIN g.hunks = 1..(n + 1) /\ DOMAIN f.hunks = 1..n
  <2>1. f.hunks \in Seq(H \cup {new}) /\ new \in H \cup {new}
    BY <1>1
  <2> QED
    BY <2>1
<1>6. \A h \in DOMAIN g.hunks :
        /\ DOMAIN g.hunks[h] = {"newStart", "lines"} /\ g.hunks[h].newStart \in Int
        /\ g.hunks[h].lines \in Seq(L)
  <2> TAKE h \in DOMAIN g.hunks
  <2>1. h \in 1..n \/ h = n + 1
    BY <1>5
  <2> QED
    BY <1>2, <1>3, <1>5, <2>1
<1> HIDE DEF n
<1>7. before \in Seq(Seq(L)) /\ Len(before) = n /\ \A h \in 1..n : before[h] = f.hunks[h].lines
  BY <1>2, <1>5, LinesOfHunks
<1>8. /\ after \in Seq(Seq(L)) /\ Len(after) = n + 1
      /\ \A h \in 1..(n + 1) : after[h] = g.hunks[h].lines
  <2>1. n + 1 \in Nat
    BY <1>5
  <2> QED
    BY <1>5, <1>6, <2>1, LinesOfHunks
<1>9. HunkLines(g) = FlattenSeq(after) /\ HunkLines(f) = FlattenSeq(before)
  BY DEF HunkLines
<1> HIDE DEF before, after
<1>10. after = Append(before, <<>>)
  <2>1. \A h \in 1..n : after[h] = before[h]
    <3> TAKE h \in 1..n
    <3>1. h \in 1..(n + 1)
      BY <1>5
    <3>2. g.hunks[h] = f.hunks[h]
      BY <1>5
    <3>3. after[h] = g.hunks[h].lines
      BY <1>8, <3>1
    <3>4. before[h] = f.hunks[h].lines
      BY <1>7
    <3> QED
      BY <3>2, <3>3, <3>4
  <2>2. after[n + 1] = <<>>
    <3>1. n + 1 \in 1..(n + 1)
      BY <1>5
    <3> QED
      BY <1>5, <1>8, <3>1
  <2> QED
    BY <1>3, <1>5, <1>7, <1>8, <2>1, <2>2
<1>11. FlattenSeq(after) = FlattenSeq(before) \o <<>> /\ FlattenSeq(before) \in Seq(L)
  BY <1>3, <1>7, <1>10, FlattenAppend, FlattenType
<1>12. FlattenSeq(after) = FlattenSeq(before)
  <2> DEFINE fb == FlattenSeq(before)
  <2> HIDE DEF fb
  <2>1. fb \in Seq(L) => fb \o <<>> = fb
    OBVIOUS
  <2> QED
    BY <1>11, <2>1 DEF fb
<1>13. Hunks(g.hunks, c)
  BY <1>5, <1>6 DEF Hunks, HunksIn, IsText, L
<1> QED
  BY <1>5, <1>9, <1>12, <1>13

\* The last of n hunks gets a line more.
Grows(f, g, n, line) ==
  /\ n \in Nat /\ n # 0 /\ DOMAIN f.hunks = 1..n
  /\ IsText(g.hunks) /\ g.hunks # <<>> /\ DOMAIN g.hunks = 1..n
  /\ \A h \in 1..n : h # n => g.hunks[h] = f.hunks[h]
  /\ DOMAIN g.hunks[n] = {"newStart", "lines"} /\ g.hunks[n].newStart = f.hunks[n].newStart
  /\ g.hunks[n].lines = Append(f.hunks[n].lines, line)

\* A line appended to the last hunk is appended to the lines of the file.
LEMMA HunkGrows ==
  ASSUME NEW L, NEW f, HunksIn(f.hunks, L), NEW line \in L, NEW n, NEW g, Grows(f, g, n, line)
  PROVE  HunksIn(g.hunks, L) /\ HunkLines(g) = Append(HunkLines(f), line)
<1>0. /\ n \in Nat /\ n # 0 /\ DOMAIN f.hunks = 1..n
      /\ IsText(g.hunks) /\ g.hunks # <<>> /\ DOMAIN g.hunks = 1..n
      /\ \A h \in 1..n : h # n => g.hunks[h] = f.hunks[h]
      /\ DOMAIN g.hunks[n] = {"newStart", "lines"} /\ g.hunks[n].newStart = f.hunks[n].newStart
      /\ g.hunks[n].lines = Append(f.hunks[n].lines, line)
  BY DEF Grows
<1> DEFINE before == [h \in DOMAIN f.hunks |-> f.hunks[h].lines]
           after == [h \in DOMAIN g.hunks |-> g.hunks[h].lines]
<1>2. \A h \in 1..n : /\ DOMAIN f.hunks[h] = {"newStart", "lines"} /\ f.hunks[h].newStart \in Int
                       /\ f.hunks[h].lines \in Seq(L)
  BY <1>0 DEF HunksIn
<1>3. n \in 1..n /\ line \in L
  BY <1>0
<1>5. g.hunks[n].lines \in Seq(L)
  <2>1. f.hunks[n].lines \in Seq(L)
    BY <1>2, <1>3
  <2> QED
    BY <1>0, <1>3, <2>1
<1>7. \A h \in 1..n : /\ DOMAIN g.hunks[h] = {"newStart", "lines"} /\ g.hunks[h].newStart \in Int
                       /\ g.hunks[h].lines \in Seq(L)
  <2> TAKE h \in 1..n
  <2>1. CASE h = n
    BY <1>0, <1>2, <1>3, <1>5, <2>1
  <2>2. CASE h # n
    BY <1>0, <1>2, <2>2
  <2> QED
    BY <2>1, <2>2
<1>8. before \in Seq(Seq(L)) /\ Len(before) = n /\ \A h \in 1..n : before[h] = f.hunks[h].lines
  BY <1>0, <1>2, LinesOfHunks
<1>9. after \in Seq(Seq(L)) /\ Len(after) = n /\ \A h \in 1..n : after[h] = g.hunks[h].lines
  BY <1>0, <1>7, LinesOfHunks
<1>10. HunkLines(g) = FlattenSeq(after) /\ HunkLines(f) = FlattenSeq(before)
  BY DEF HunkLines
<1> HIDE DEF before, after
<1>11. after[n] = Append(before[n], line)
  BY <1>0, <1>3, <1>8, <1>9
<1>12. \A k \in 1..(n - 1) : after[k] = before[k]
  <2> TAKE k \in 1..(n - 1)
  <2>1. k \in 1..n /\ k # n
    BY <1>0
  <2>2. g.hunks[k] = f.hunks[k]
    BY <1>0, <2>1
  <2> QED
    BY <1>8, <1>9, <2>1, <2>2
<1>13. /\ Len(after) = Len(before) /\ Len(after) # 0
       /\ \A k \in 1..(Len(after) - 1) : after[k] = before[k]
       /\ after[Len(after)] = Append(before[Len(after)], line)
  BY <1>0, <1>8, <1>9, <1>11, <1>12
<1>14. FlattenSeq(after) = Append(FlattenSeq(before), line)
  BY <1>3, <1>8, <1>9, <1>13, FlattenExtend
<1>15. HunksIn(g.hunks, L)
  BY <1>0, <1>7 DEF HunksIn
<1> QED
  BY <1>10, <1>14, <1>15

\* The lines to be found, with one edit more.
LEMMA ShownUpTo ==
  ASSUME NEW c, IsChange(c), NEW i \in DOMAIN c.edits
  PROVE  Those(AllLines(c), Shown(c) \cap 1..i) =
           IF i \in Shown(c) THEN Append(Those(AllLines(c), Shown(c) \cap 1..(i - 1)), AllLines(c)[i])
           ELSE Those(AllLines(c), Shown(c) \cap 1..(i - 1))
<1> DEFINE n == Len(c.edits)
           A == AllLines(c)
           S == Shown(c)
<1>1. n \in Nat /\ DOMAIN c.edits = 1..n /\ DOMAIN A = 1..n
  BY EditsType DEF AllLines
<1> HIDE DEF A, S, n
<1>2. PICK p : Selects(p, A, n, S)
  BY <1>1, ThoseUpTo, Zenon
<1>3. i \in 0..n /\ i - 1 \in 0..n /\ i \in 1..n
  BY <1>1
<1> QED
  BY <1>2, <1>3 DEF A, S, Selects

\* A hunk header sets both numbers right for the lines that follow (diff.go:186-200).
LEMMA HunkHeaderLine ==
  ASSUME NEW c, IsChange(c), NEW i \in DOMAIN c.edits, NEW s, HasRead(s, c, i - 1)
  PROVE  InHunk(ParseLine(s, HunkHeader(c, i)), c, i - 1)
<1> DEFINE l == HunkHeader(c, i)
<1>1. PICK f : FileOf(s, c, f) /\ HunkLines(f) = Those(AllLines(c), Shown(c) \cap 1..(i - 1))
  BY DEF HasRead
<1>2. l.mark = "@@" /\ l.old = Start(c, i, "-") /\ l.new = Start(c, i, "+")
  BY DEF HunkHeader
<1> HIDE DEF l
<1> DEFINE g == [f EXCEPT !.hunks = Append(@, [newStart |-> l.new, lines |-> <<>>])]
           r == SetFile(s, g)
           t == [r EXCEPT !.open = TRUE, !.oldNo = l.old, !.newNo = l.new]
<1>3. s.ok /\ s.files = <<f>> /\ DOMAIN s = StateFields
  BY <1>1 DEF FileOf
<1>4. s.files # <<>> /\ Last(s.files) = f
  BY <1>3, OneFileIsLast
<1>5. ParseLine(s, l) = t
  <2>1. ~IsOldHeader(l) /\ ~IsNewHeader(l)
    BY <1>2 DEF IsOldHeader, IsNewHeader
  <2> QED
    BY <1>2, <1>3, <1>4, <2>1 DEF ParseLine
<1> DEFINE new == [newStart |-> l.new, lines |-> <<>>]
<1>13. DOMAIN f = FileFields /\ Hunks(f.hunks, c)
  BY <1>1 DEF FileOf
<1>14. /\ DOMAIN g = FileFields /\ g.path = f.path /\ g.status = f.status
       /\ g.oldPath = f.oldPath /\ g.hunks = Append(f.hunks, new)
  BY <1>13 DEF FileFields
<1>15. DOMAIN new = {"newStart", "lines"} /\ new.newStart \in Int /\ new.lines = <<>>
  <2>1. Start(c, i, "+") \in Int
    BY StartType
  <2> QED
    BY <1>2, <2>1
<1> HIDE DEF g, new
<1>6. g.hunks # <<>> /\ Hunks(g.hunks, c) /\ HunkLines(g) = HunkLines(f)
  BY <1>13, <1>14, <1>15, HunkOpens
<1>7. DOMAIN r = StateFields /\ r.files = <<g>> /\ r.ok
  BY <1>3, SetFileIs
<1> HIDE DEF r
<1>8. /\ DOMAIN t = StateFields /\ t.files = <<g>> /\ t.ok /\ t.open
      /\ t.oldNo = l.old /\ t.newNo = l.new
  BY <1>7 DEF StateFields
<1> HIDE DEF t
<1>9. FileOf(t, c, g)
  BY <1>1, <1>6, <1>8, <1>14 DEF FileOf
<1>10. /\ Comes(c, i, "-") => t.oldNo = LinesUpTo(c, i - 1, "-") + 1
       /\ Comes(c, i, "+") => t.newNo = LinesUpTo(c, i - 1, "+") + 1
  BY <1>2, <1>8, StartIs
<1>11. (i - 1) + 1 = i
  BY EditsType
<1>12. InHunk(t, c, i - 1)
  BY <1>1, <1>6, <1>8, <1>9, <1>10, <1>11 DEF InHunk
<1> QED
  BY <1>5, <1>12 DEF l

\* A line that is added to a state with a file f: the states before and after, and
\* the file after.
Adds(s, f, l, line, t, g) ==
  /\ DOMAIN g = FileFields /\ g.path = f.path /\ g.status = f.status /\ g.oldPath = f.oldPath
  /\ g.hunks # <<>> /\ HunkLines(g) = Append(HunkLines(f), line)
  /\ DOMAIN t = StateFields /\ t.files = <<g>> /\ t.ok /\ t.open = s.open
  /\ t.oldNo = (IF l.mark = "+" THEN s.oldNo ELSE s.oldNo + 1)
  /\ t.newNo = (IF l.mark = "-" THEN s.newNo ELSE s.newNo + 1)

\* What a line of a hunk is read as.
LineRead(s, l) ==
  [kind |-> KindOf(l), oldNo |-> IF l.mark = "+" THEN 0 ELSE s.oldNo,
   newNo |-> IF l.mark = "-" THEN 0 ELSE s.newNo, words |-> l.words]

\* A state in which lines of some hunks are added.
Adding(s, f, L) ==
  /\ DOMAIN f = FileFields /\ HunksIn(f.hunks, L) /\ f.hunks # <<>>
  /\ DOMAIN s = StateFields /\ s.ok /\ s.files = <<f>>

\* The line goes to the end of the last hunk, and of the lines (diff.go:216-233).
LEMMA LineAdded ==
  ASSUME NEW L, NEW f, NEW s, Adding(s, f, L), NEW l, NEW line \in L, line = LineRead(s, l)
  PROVE  \E g : Adds(s, f, l, line, AddLine(s, f, l), g) /\ HunksIn(g.hunks, L)
<1> DEFINE h == Len(f.hunks)
           m == [kind |-> KindOf(l), oldNo |-> IF l.mark = "+" THEN 0 ELSE s.oldNo,
                 newNo |-> IF l.mark = "-" THEN 0 ELSE s.newNo, words |-> l.words]
           g == [f EXCEPT !.hunks[h].lines = Append(@, m)]
           r == SetFile(s, g)
           t == [r EXCEPT !.oldNo = IF l.mark = "+" THEN @ ELSE @ + 1,
                          !.newNo = IF l.mark = "-" THEN @ ELSE @ + 1]
<1>1. /\ DOMAIN f = FileFields /\ HunksIn(f.hunks, L) /\ f.hunks # <<>>
      /\ DOMAIN s = StateFields /\ s.ok /\ s.files = <<f>>
  BY DEF Adding
<1>12. AddLine(s, f, l) = t
  BY DEF AddLine
<1>13. m = line
  BY DEF LineRead
<1> HIDE DEF m
<1> DEFINE u == f.hunks[h]
           v == [u EXCEPT !.lines = Append(@, m)]
<1>23. /\ DOMAIN g = FileFields /\ g.path = f.path /\ g.status = f.status
       /\ g.oldPath = f.oldPath /\ g.hunks = [f.hunks EXCEPT ![h] = v]
  BY <1>1 DEF FileFields
<1>24. PICK H : f.hunks \in Seq(H)
  BY <1>1 DEF HunksIn, IsText
<1>25. h \in Nat /\ h # 0 /\ DOMAIN f.hunks = 1..h /\ h \in 1..h
  BY <1>1, <1>24
<1> HIDE DEF h
<1>26. /\ DOMAIN v = {"newStart", "lines"} /\ v.newStart = f.hunks[h].newStart
       /\ v.lines = Append(f.hunks[h].lines, line)
  <2>1. DOMAIN u = {"newStart", "lines"}
    BY <1>1, <1>25 DEF HunksIn
  <2> QED
    BY <1>13, <2>1
<1> HIDE DEF v
<1> DEFINE gh == [f.hunks EXCEPT ![h] = v]
<1>27. DOMAIN gh = 1..h /\ gh[h] = v /\ \A k \in 1..h : k # h => gh[k] = f.hunks[k]
  BY <1>25
<1>28. gh = [k \in 1..h |-> gh[k]] /\ g.hunks = gh
  BY <1>23, <1>27
<1> HIDE DEF g, gh
<1>29. IsText(gh) /\ gh # <<>>
  <2>1. \A k \in 1..h : gh[k] \in H \cup {v}
    <3>1. \A k \in 1..h : f.hunks[k] \in H
      BY <1>24, <1>25
    <3> QED
      BY <1>27, <3>1
  <2>2. gh \in [1..h -> H \cup {v}]
    BY <1>28, <2>1
  <2>3. gh \in Seq(H \cup {v})
    BY <1>25, <2>2
  <2> QED
    BY <1>25, <1>27, <2>3 DEF IsText
<1>31. /\ IsText(g.hunks) /\ g.hunks # <<>> /\ DOMAIN g.hunks = 1..h
       /\ \A k \in 1..h : k # h => g.hunks[k] = f.hunks[k]
       /\ DOMAIN g.hunks[h] = {"newStart", "lines"} /\ g.hunks[h].newStart = f.hunks[h].newStart
       /\ g.hunks[h].lines = Append(f.hunks[h].lines, line)
  BY <1>26, <1>27, <1>28, <1>29
<1>32. Grows(f, g, h, line)
  BY <1>25, <1>31 DEF Grows
<1>14. HunksIn(g.hunks, L) /\ HunkLines(g) = Append(HunkLines(f), line)
  <2>1. line \in L /\ HunksIn(f.hunks, L)
    BY <1>1
  <2> HIDE DEF r, t, u
  <2> QED
    BY <1>32, <2>1, HunkGrows
<1>15. DOMAIN r = StateFields /\ r.files = <<g>> /\ r.ok /\ r.open = s.open
       /\ r.oldNo = s.oldNo /\ r.newNo = s.newNo
  BY <1>1, SetFileIs
<1> HIDE DEF r
<1>16. /\ DOMAIN t = StateFields /\ t.files = <<g>> /\ t.ok /\ t.open = s.open
       /\ t.oldNo = (IF l.mark = "+" THEN s.oldNo ELSE s.oldNo + 1)
       /\ t.newNo = (IF l.mark = "-" THEN s.newNo ELSE s.newNo + 1)
  BY <1>15 DEF StateFields
<1> HIDE DEF t
<1>33. Adds(s, f, l, line, t, g)
  BY <1>14, <1>16, <1>23, <1>31 DEF Adds
<1> QED
  BY <1>12, <1>14, <1>33

\* A line of a hunk becomes a line of the file, under its numbers (diff.go:216-233).
LEMMA EditLineParsed ==
  ASSUME NEW c, IsChange(c), NoHeaderLike(c), NEW i \in DOMAIN c.edits, i \in Shown(c),
         NEW s, InHunk(s, c, i - 1)
  PROVE  InHunk(ParseLine(s, EditLine(c, i)), c, i)
<1> DEFINE l == EditLine(c, i)
           e == c.edits[i]
           line == AllLines(c)[i]
<1>0. i \in Nat /\ i # 0 /\ (i - 1) + 1 = i /\ i \in Int
  BY EditsType
<1>1. PICK f : /\ FileOf(s, c, f) /\ f.hunks # <<>>
               /\ HunkLines(f) = Those(AllLines(c), Shown(c) \cap 1..(i - 1))
  BY DEF InHunk
<1>2. l.mark = e.op /\ l.words = e.words
  BY DEF EditLine
<1>3. ~IsOldHeader(l) /\ ~IsNewHeader(l)
  BY DEF NoHeaderLike
<1>4. e.op = " " \/ e.op = "+" \/ e.op = "-"
  BY DEF IsChange
<1>5. line = [kind |-> e.op,
              oldNo |-> IF e.op = "+" THEN 0 ELSE LinesUpTo(c, i, "-"),
              newNo |-> IF e.op = "-" THEN 0 ELSE LinesUpTo(c, i, "+"),
              words |-> e.words]
  BY DEF AllLines
<1>6. /\ s.open
      /\ Comes(c, i, "-") => s.oldNo = LinesUpTo(c, i - 1, "-") + 1
      /\ Comes(c, i, "+") => s.newNo = LinesUpTo(c, i - 1, "+") + 1
  BY <1>0 DEF InHunk
<1>7. /\ e.op # "+" => IsLineOf(e, "-") /\ s.oldNo = LinesUpTo(c, i, "-")
      /\ e.op = "+" => ~IsLineOf(e, "-")
  <2>1. e.op # "+" => IsLineOf(e, "-")
    BY <1>4 DEF IsLineOf
  <2>2. IsLineOf(e, "-") => Comes(c, i, "-")
    BY ComesOn
  <2>3. IsLineOf(e, "-") => LinesUpTo(c, i, "-") = LinesUpTo(c, i - 1, "-") + 1
    BY <1>0, LinesUpToStep
  <2> QED
    BY <1>6, <2>1, <2>2, <2>3 DEF IsLineOf
<1>8. /\ e.op # "-" => IsLineOf(e, "+") /\ s.newNo = LinesUpTo(c, i, "+")
      /\ e.op = "-" => ~IsLineOf(e, "+")
  <2>1. e.op # "-" => IsLineOf(e, "+")
    BY <1>4 DEF IsLineOf
  <2>2. IsLineOf(e, "+") => Comes(c, i, "+")
    BY ComesOn
  <2>3. IsLineOf(e, "+") => LinesUpTo(c, i, "+") = LinesUpTo(c, i - 1, "+") + 1
    BY <1>0, LinesUpToStep
  <2> QED
    BY <1>6, <2>1, <2>2, <2>3 DEF IsLineOf
<1>9. s.ok /\ s.files = <<f>> /\ DOMAIN s = StateFields
  BY <1>1 DEF FileOf
<1>10. s.files # <<>> /\ Last(s.files) = f
  BY <1>9, OneFileIsLast
<1>11. ParseLine(s, l) = AddLine(s, f, l)
  <2>1. l.mark # "diff" /\ l.mark # "@@" /\ l.mark # "\\"
    BY <1>2, <1>4
  <2> HIDE DEF l
  <2> QED
    BY <1>3, <1>6, <1>9, <1>10, <2>1 DEF ParseLine
<1>22. DOMAIN f = FileFields /\ Hunks(f.hunks, c)
  BY <1>1 DEF FileOf
<1>13. line = LineRead(s, l)
  <2>1. KindOf(l) = e.op
    BY <1>2, <1>4 DEF KindOf
  <2> HIDE DEF l, line, e
  <2> QED
    BY <1>2, <1>5, <1>7, <1>8, <2>1 DEF LineRead
<1>30. line \in LinesOf(c)
  BY DEF LinesOf
<1> DEFINE t == AddLine(s, f, l)
<1> HIDE DEF l, e, line
<1>12. PICK g : Adds(s, f, l, line, t, g) /\ HunksIn(g.hunks, LinesOf(c))
  <2>1. Adding(s, f, LinesOf(c))
    BY <1>1, <1>9, <1>22 DEF Hunks, Adding
  <2> HIDE DEF t
  <2> QED
    BY <1>13, <1>30, <2>1, LineAdded DEF t
<1> HIDE DEF t
<1>14. g.hunks # <<>> /\ Hunks(g.hunks, c) /\ HunkLines(g) = Append(HunkLines(f), line)
  BY <1>12 DEF Adds, Hunks
<1>23. /\ DOMAIN g = FileFields /\ g.path = f.path /\ g.status = f.status
       /\ g.oldPath = f.oldPath
  BY <1>12 DEF Adds
<1>16. /\ DOMAIN t = StateFields /\ t.files = <<g>> /\ t.ok /\ t.open
       /\ t.oldNo = (IF l.mark = "+" THEN s.oldNo ELSE s.oldNo + 1)
       /\ t.newNo = (IF l.mark = "-" THEN s.newNo ELSE s.newNo + 1)
  BY <1>6, <1>12 DEF Adds
<1>17. FileOf(t, c, g)
  BY <1>1, <1>14, <1>16, <1>23 DEF FileOf
<1>18. HunkLines(g) = Those(AllLines(c), Shown(c) \cap 1..i)
  BY <1>1, <1>14, ShownUpTo DEF line
<1>19. Comes(c, i + 1, "-") => t.oldNo = LinesUpTo(c, i, "-") + 1
  <2>1. ASSUME Comes(c, i + 1, "-") PROVE t.oldNo = LinesUpTo(c, i, "-") + 1
    <3>1. s.oldNo = LinesUpTo(c, i - 1, "-") + 1
      BY <1>6, <2>1, ComesOn
    <3>2. e.op = "+" => LinesUpTo(c, i, "-") = LinesUpTo(c, i - 1, "-") + 0
      <4>1. LinesUpTo(c, i, "-") = LinesUpTo(c, i - 1, "-")
              + (IF IsLineOf(c.edits[i], "-") THEN 1 ELSE 0)
        BY <1>0, LinesUpToStep
      <4> QED
        BY <1>7, <4>1 DEF e
    <3>3. LinesUpTo(c, i - 1, "-") \in Nat
      BY <1>0, LinesUpToStep
    <3> QED
      BY <1>2, <1>7, <1>16, <3>1, <3>2, <3>3
  <2> QED
    BY <2>1
<1>20. Comes(c, i + 1, "+") => t.newNo = LinesUpTo(c, i, "+") + 1
  <2>1. ASSUME Comes(c, i + 1, "+") PROVE t.newNo = LinesUpTo(c, i, "+") + 1
    <3>1. s.newNo = LinesUpTo(c, i - 1, "+") + 1
      BY <1>6, <2>1, ComesOn
    <3>2. e.op = "-" => LinesUpTo(c, i, "+") = LinesUpTo(c, i - 1, "+") + 0
      <4>1. LinesUpTo(c, i, "+") = LinesUpTo(c, i - 1, "+")
              + (IF IsLineOf(c.edits[i], "+") THEN 1 ELSE 0)
        BY <1>0, LinesUpToStep
      <4> QED
        BY <1>8, <4>1 DEF e
    <3>3. LinesUpTo(c, i - 1, "+") \in Nat
      BY <1>0, LinesUpToStep
    <3> QED
      BY <1>2, <1>8, <1>16, <3>1, <3>2, <3>3
  <2> QED
    BY <2>1
<1>21. InHunk(t, c, i)
  BY <1>14, <1>16, <1>17, <1>18, <1>19, <1>20 DEF InHunk
<1> QED
  BY <1>11, <1>21 DEF l, t

\* The note that a file ends without a newline is passed over.
LEMMA NoNewlineLine ==
  ASSUME NEW c, NEW m, NEW s, InHunk(s, c, m)
  PROVE  ParseLine(s, NoNewline) = s
<1> DEFINE l == NoNewline
<1>1. l.mark = "\\"
  BY DEF NoNewline
<1>2. ~IsOldHeader(l) /\ ~IsNewHeader(l)
  BY <1>1 DEF IsOldHeader, IsNewHeader
<1>3. s.open /\ s.ok
  BY DEF InHunk, FileOf
<1> HIDE DEF l
<1>4. ParseLine(s, l) = s
  BY <1>1, <1>2, <1>3 DEF ParseLine
<1> QED
  BY <1>4 DEF l

\* What is written of one edit is read as it was.
LEMMA EditTextParsed ==
  ASSUME NEW c, IsChange(c), NoHeaderLike(c), NEW i \in DOMAIN c.edits,
         NEW text, IsText(text), HasRead(Parsed(text), c, i - 1),
         i - 1 \in Shown(c) => InHunk(Parsed(text), c, i - 1)
  PROVE  /\ HasRead(Parsed(text \o EditText(c, i)), c, i) /\ IsText(text \o EditText(c, i))
         /\ i \in Shown(c) => InHunk(Parsed(text \o EditText(c, i)), c, i)
<1> DEFINE l == EditLine(c, i)
<1>1. CASE i \notin Shown(c)
  <2>1. EditText(c, i) = <<>> /\ text \o <<>> = text
    BY <1>1, TextConcat DEF EditText, IsText
  <2>2. PICK f : /\ FileOf(Parsed(text), c, f) /\ (Parsed(text).open => f.hunks # <<>>)
                 /\ HunkLines(f) = Those(AllLines(c), Shown(c) \cap 1..(i - 1))
    BY DEF HasRead
  <2>3. HunkLines(f) = Those(AllLines(c), Shown(c) \cap 1..i)
    BY <1>1, <2>2, ShownUpTo
  <2> QED
    BY <1>1, <2>1, <2>2, <2>3 DEF HasRead
<1>2. CASE i \in Shown(c)
  <2> DEFINE head == IF i - 1 \in Shown(c) THEN <<>> ELSE <<HunkHeader(c, i)>>
             tail == IF i \in c.bare THEN <<NoNewline>> ELSE <<>>
             t1 == text \o head
             t2 == t1 \o <<l>>
             t3 == t2 \o tail
  <2>1. EditText(c, i) = (head \o <<l>>) \o tail
    BY <1>2 DEF EditText
  <2>2. IsText(head) /\ IsText(tail) /\ IsText(<<l>>) /\ IsText(<<>>)
    <3>1. \A x : <<x>> \in Seq({x}) /\ <<>> \in Seq({x})
      OBVIOUS
    <3>2. \A x : IsText(<<x>>) /\ IsText(<<>>)
      BY <3>1 DEF IsText
    <3> QED
      BY <3>2
  <2>3. IsText(t1) /\ InHunk(Parsed(t1), c, i - 1)
    <3>1. CASE i - 1 \in Shown(c)
      <4>1. head = <<>> /\ text \o <<>> = text
        BY <2>2, <3>1, TextConcat
      <4> QED
        BY <3>1, <4>1
    <3>2. CASE i - 1 \notin Shown(c)
      <4>1. head = <<HunkHeader(c, i)>>
        BY <3>2
      <4>2. /\ IsText(text \o <<HunkHeader(c, i)>>)
            /\ Parsed(text \o <<HunkHeader(c, i)>>) = ParseLine(Parsed(text), HunkHeader(c, i))
        BY TextAppend
      <4> QED
        BY <4>1, <4>2, HunkHeaderLine
    <3> QED
      BY <3>1, <3>2
  <2> HIDE DEF head, t1, l
  <2>4. IsText(t2) /\ Parsed(t2) = ParseLine(Parsed(t1), l)
    BY <2>3, TextAppend
  <2>5. InHunk(Parsed(t2), c, i)
    BY <1>2, <2>3, <2>4, EditLineParsed DEF l
  <2> HIDE DEF t2
  <2>6. IsText(t3) /\ InHunk(Parsed(t3), c, i)
    <3>1. CASE i \in c.bare
      <4>1. tail = <<NoNewline>>
        BY <3>1
      <4>2. IsText(t2 \o <<NoNewline>>) /\ Parsed(t2 \o <<NoNewline>>) = ParseLine(Parsed(t2), NoNewline)
        BY <2>4, TextAppend
      <4>3. ParseLine(Parsed(t2), NoNewline) = Parsed(t2)
        BY <2>5, NoNewlineLine
      <4> QED
        BY <2>5, <4>1, <4>2, <4>3
    <3>2. CASE i \notin c.bare
      <4>1. tail = <<>> /\ t2 \o <<>> = t2
        BY <2>2, <2>4, <3>2, TextConcat
      <4> QED
        BY <2>4, <2>5, <4>1
    <3> QED
      BY <3>1, <3>2
  <2> HIDE DEF tail, t3
  <2>7. text \o EditText(c, i) = t3
    <3>1. IsText(head \o <<l>>)
      BY <2>2, TextConcat
    <3>2. text \o ((head \o <<l>>) \o tail) = (text \o (head \o <<l>>)) \o tail
      BY <2>2, <3>1, TextAssociates
    <3>3. text \o (head \o <<l>>) = (text \o head) \o <<l>>
      BY <2>2, TextAssociates
    <3> QED
      BY <2>1, <3>2, <3>3 DEF t1, t2, t3
  <2>8. InHunk(Parsed(t3), c, i) => HasRead(Parsed(t3), c, i)
    BY DEF InHunk, HasRead
  <2> QED
    BY <2>6, <2>7, <2>8
<1> QED
  BY <1>1, <1>2

\* The patch, as far as edit m.
PatchUpTo(c, m) == FlattenSeq([k \in 1..m |-> EditText(c, k)])

\* A patch is written edit by edit.
LEMMA PatchStep ==
  ASSUME NEW c, IsChange(c), NEW m \in Nat
  PROVE  /\ IsText(PatchUpTo(c, m)) /\ PatchUpTo(c, 0) = <<>>
         /\ PatchUpTo(c, m + 1) = PatchUpTo(c, m) \o EditText(c, m + 1)
         /\ IsText(EditText(c, m + 1))
<1> DEFINE X == {HunkHeader(c, k) : k \in Nat} \cup {EditLine(c, k) : k \in Nat} \cup {NoNewline}
           ss(k) == [j \in 1..k |-> EditText(c, j)]
<1>1. ASSUME NEW k \in Nat PROVE EditText(c, k) \in Seq(X)
  <2>1. HunkHeader(c, k) \in X /\ EditLine(c, k) \in X /\ NoNewline \in X
    OBVIOUS
  <2> HIDE DEF X
  <2>2. <<>> \in Seq(X) /\ <<HunkHeader(c, k)>> \in Seq(X) /\ <<EditLine(c, k)>> \in Seq(X)
        /\ <<NoNewline>> \in Seq(X)
    BY <2>1
  <2> DEFINE a == IF k - 1 \in Shown(c) THEN <<>> ELSE <<HunkHeader(c, k)>>
             b == IF k \in c.bare THEN <<NoNewline>> ELSE <<>>
             e == <<EditLine(c, k)>>
  <2>3. a \in Seq(X) /\ b \in Seq(X) /\ e \in Seq(X)
    BY <2>2
  <2>4. EditText(c, k) = IF k \notin Shown(c) THEN <<>> ELSE (a \o e) \o b
    BY DEF EditText
  <2> HIDE DEF a, b, e
  <2>5. (a \o e) \o b \in Seq(X)
    BY <2>3
  <2> QED
    BY <2>2, <2>4, <2>5
<1> HIDE DEF X
<1>2. ASSUME NEW k \in Nat PROVE ss(k) \in Seq(Seq(X)) /\ Len(ss(k)) = k
  <2>1. \A j \in 1..k : EditText(c, j) \in Seq(X)
    BY <1>1
  <2> QED
    BY <2>1
<1>3. ss(m + 1) = Append(ss(m), EditText(c, m + 1))
  <2>1. EditText(c, m + 1) \in Seq(X) /\ ss(m) \in Seq(Seq(X)) /\ Len(ss(m)) = m
    BY <1>1, <1>2
  <2>2. Append(ss(m), EditText(c, m + 1)) = [j \in 1..(m + 1) |->
          IF j = m + 1 THEN EditText(c, m + 1) ELSE ss(m)[j]]
    BY <2>1
  <2>3. \A j \in 1..(m + 1) : (IF j = m + 1 THEN EditText(c, m + 1) ELSE ss(m)[j]) = EditText(c, j)
    OBVIOUS
  <2> QED
    BY <2>2, <2>3
<1>4. EditText(c, m + 1) \in Seq(X) /\ ss(m) \in Seq(Seq(X))
  BY <1>1, <1>2
<1>5. PatchUpTo(c, m) = FlattenSeq(ss(m)) /\ PatchUpTo(c, m + 1) = FlattenSeq(ss(m + 1))
      /\ PatchUpTo(c, 0) = FlattenSeq(ss(0))
  BY DEF PatchUpTo
<1>6. ss(0) = <<>>
  OBVIOUS
<1> HIDE DEF ss
<1>7. FlattenSeq(ss(m + 1)) = FlattenSeq(ss(m)) \o EditText(c, m + 1)
  BY <1>3, <1>4, FlattenAppend
<1>8. FlattenSeq(ss(m)) \in Seq(X)
  BY <1>4, FlattenType
<1>9. FlattenSeq(<<>>) = <<>>
  BY DEF FlattenSeq
<1> QED
  BY <1>4, <1>5, <1>6, <1>7, <1>8, <1>9 DEF IsText

\* The text of a change, as far as its last line: its header, and then its patch if
\* a line changed.
DiffBody(c) == IF Changed(c) = {} THEN Heading(c)
               ELSE (Heading(c) \o FileNames(c)) \o PatchUpTo(c, Len(c.edits))

\* And the end of the text.
LEMMA DiffTextIs ==
  ASSUME NEW c, IsChange(c)
  PROVE  IsText(DiffBody(c)) /\ DiffText(c) = DiffBody(c) \o <<EndOfText>>
<1> DEFINE n == Len(c.edits)
           patch == Patch(c)
           after == IF Changed(c) = {} THEN <<>> ELSE FileNames(c) \o patch
<1>1. n \in Nat /\ DOMAIN c.edits = 1..n
  BY EditsType
<1>2. patch = PatchUpTo(c, n)
  BY <1>1 DEF Patch, PatchUpTo
<1>3. DiffText(c) = (Heading(c) \o after) \o <<EndOfText>>
  BY DEF DiffText, Heading, FileNames
<1>4. IsText(patch)
  BY <1>1, <1>2, PatchStep
<1> HIDE DEF patch, n
<1>5. IsText(Heading(c)) /\ IsText(FileNames(c))
  <2>1. \A x, y : <<x, y>> \in Seq({x, y})
    OBVIOUS
  <2>2. IsText(FileNames(c))
    BY <2>1 DEF IsText, FileNames
  <2> QED
    BY <2>2, HeadingParsed
<1>6. /\ Heading(c) \o (FileNames(c) \o patch) = (Heading(c) \o FileNames(c)) \o patch
      /\ IsText((Heading(c) \o FileNames(c)) \o patch)
  <2>1. IsText(Heading(c) \o FileNames(c))
    BY <1>5, TextConcat
  <2> QED
    BY <1>4, <1>5, <2>1, TextAssociates, TextConcat
<1>7. Heading(c) \o <<>> = Heading(c)
  BY <1>5, TextConcat
<1>8. Heading(c) \o after = DiffBody(c) /\ IsText(DiffBody(c))
  BY <1>2, <1>5, <1>6, <1>7 DEF n, DiffBody
<1> HIDE DEF after
<1> QED
  BY <1>3, <1>8

\* Before the first edit, nothing is read.
LEMMA HeadedIsRead ==
  ASSUME NEW c, IsChange(c), NEW s, Headed(s, c)
  PROVE  HasRead(s, c, 0)
<1>1. PICK o, mv : HeaderState(s, c.path, o, c.status, mv) /\ (c.status = "R" => o = c.oldPath)
  BY DEF Headed
<1>2. DOMAIN s = StateFields /\ s.ok /\ ~s.open
  BY <1>1 DEF HeaderState
<1>3. PICK f : /\ s.files = <<f>> /\ DOMAIN f = FileFields
               /\ f.path = c.path /\ f.oldPath = o /\ f.status = c.status /\ f.hunks = <<>>
  BY <1>1 DEF HeaderState
<1>4. Hunks(f.hunks, c)
  <2>1. <<>> \in Seq({}) /\ DOMAIN <<>> = {}
    OBVIOUS
  <2> QED
    BY <1>3, <2>1 DEF Hunks, HunksIn, IsText
<1>5. FileOf(s, c, f)
  BY <1>1, <1>2, <1>3, <1>4 DEF FileOf
<1>6. HunkLines(f) = <<>>
  <2>1. [h \in DOMAIN f.hunks |-> f.hunks[h].lines] = <<>>
    BY <1>3
  <2>2. FlattenSeq(<<>>) = <<>>
    BY DEF FlattenSeq
  <2> QED
    BY <2>1, <2>2 DEF HunkLines
<1>7. Those(AllLines(c), Shown(c) \cap 1..0) = <<>>
  <2> DEFINE n == Len(c.edits)
             A == AllLines(c)
             S == Shown(c)
  <2>1. n \in Nat /\ DOMAIN A = 1..n
    BY EditsType DEF AllLines
  <2> HIDE DEF A, S, n
  <2>2. PICK p : Selects(p, A, n, S)
    BY <2>1, ThoseUpTo, Zenon
  <2>3. 0 \in 0..n
    BY <2>1
  <2> QED
    BY <2>2, <2>3 DEF A, S, Selects
<1> QED
  BY <1>2, <1>5, <1>6, <1>7 DEF HasRead

\* The patch is read edit by edit.
LEMMA PatchParsed ==
  ASSUME NEW c, IsChange(c), NoHeaderLike(c),
         NEW text, IsText(text), Headed(Parsed(text), c)
  PROVE  HasRead(Parsed(text \o PatchUpTo(c, Len(c.edits))), c, Len(c.edits))
<1> DEFINE n == Len(c.edits)
           t(m) == text \o PatchUpTo(c, m)
           Good(m) == /\ IsText(t(m)) /\ HasRead(Parsed(t(m)), c, m)
                      /\ m \in Shown(c) => InHunk(Parsed(t(m)), c, m)
           N == {m \in 0..n : Good(m)}
<1>1. n \in Nat /\ DOMAIN c.edits = 1..n
  BY EditsType
<1>2. Good(0)
  <2>1. t(0) = text
    <3>1. PatchUpTo(c, 0) = <<>>
      BY PatchStep
    <3>2. text \o <<>> = text
      BY TextConcat
    <3> QED
      BY <3>1, <3>2
  <2>2. 0 \notin Shown(c)
    BY <1>1 DEF Shown
  <2>3. HasRead(Parsed(text), c, 0)
    BY HeadedIsRead
  <2> HIDE DEF t
  <2> QED
    BY <2>1, <2>2, <2>3
<1>3. ASSUME NEW m \in 0..n, m < n /\ m \in N PROVE m + 1 \in N
  <2>1. m \in Nat /\ m + 1 \in 1..n /\ (m + 1) - 1 = m /\ m + 1 \in 0..n
    <3>1. m \in 0..n /\ m < n
      BY <1>3
    <3> QED
      BY <1>1, <3>1
  <2>2. Good(m)
    BY <1>3
  <2>3. IsText(PatchUpTo(c, m)) /\ IsText(EditText(c, m + 1))
        /\ PatchUpTo(c, m + 1) = PatchUpTo(c, m) \o EditText(c, m + 1)
    BY <2>1, PatchStep
  <2>4. t(m + 1) = t(m) \o EditText(c, m + 1)
    <3>1. text \o (PatchUpTo(c, m) \o EditText(c, m + 1))
            = (text \o PatchUpTo(c, m)) \o EditText(c, m + 1)
      BY <2>3, TextAssociates
    <3> QED
      BY <2>3, <3>1
  <2> HIDE DEF t
  <2> DEFINE k == m + 1
  <2>5. k \in DOMAIN c.edits /\ k - 1 = m
    BY <1>1, <2>1
  <2>6. t(k) = t(m) \o EditText(c, k)
    BY <2>4
  <2>7. IsText(t(m)) /\ HasRead(Parsed(t(m)), c, k - 1)
        /\ (k - 1 \in Shown(c) => InHunk(Parsed(t(m)), c, k - 1))
    BY <2>2, <2>5
  <2> HIDE DEF k
  <2>8. /\ HasRead(Parsed(t(m) \o EditText(c, k)), c, k) /\ IsText(t(m) \o EditText(c, k))
        /\ k \in Shown(c) => InHunk(Parsed(t(m) \o EditText(c, k)), c, k)
    BY <2>5, <2>7, EditTextParsed
  <2>9. Good(k)
    BY <2>6, <2>8
  <2> QED
    BY <2>1, <2>9 DEF k
<1>4. \A m \in 0..n : m \in N
  <2>1. 0 \in N
    BY <1>1, <1>2
  <2> HIDE DEF N, n
  <2> QED
    BY <1>1, <1>3, <2>1, InductionUpTo
<1> QED
  BY <1>1, <1>4

\* The lines that are told, and maybe a line of context more.
MaybeMore(lines, told) == lines = told \/ \E l : l.kind = " " /\ lines = Append(told, l)

\* The end of the text is a line of the hunk that is open, if one is (diff.go:118,
\* diff.go:227-233).
LEMMA EndOfTextLine ==
  ASSUME NEW c, NEW m, NEW s, HasRead(s, c, m)
  PROVE  /\ ParseLine(s, EndOfText).ok
         /\ \E g : /\ ParseLine(s, EndOfText).files = <<g>>
                   /\ g.path = c.path /\ g.status = c.status
                   /\ c.status = "R" => g.oldPath = c.oldPath
                   /\ MaybeMore(HunkLines(g), Those(AllLines(c), Shown(c) \cap 1..m))
<1> DEFINE l == EndOfText
           told == Those(AllLines(c), Shown(c) \cap 1..m)
<1>1. PICK f : FileOf(s, c, f) /\ (s.open => f.hunks # <<>>) /\ HunkLines(f) = told
  BY DEF HasRead
<1>2. /\ DOMAIN s = StateFields /\ s.ok /\ s.files = <<f>> /\ DOMAIN f = FileFields
      /\ f.path = c.path /\ f.status = c.status /\ (c.status = "R" => f.oldPath = c.oldPath)
      /\ HunksIn(f.hunks, LinesOf(c))
  BY <1>1 DEF FileOf, Hunks
<1>3. s.files # <<>> /\ Last(s.files) = f
  BY <1>2, OneFileIsLast
<1>4. l.mark = "" /\ ~IsOldHeader(l) /\ ~IsNewHeader(l) /\ KindOf(l) = " "
  BY DEF EndOfText, IsOldHeader, IsNewHeader, KindOf
<1> HIDE DEF l, told
<1>5. CASE ~s.open
  <2>1. ParseLine(s, l) = ParseHeader(s, f, l)
    BY <1>2, <1>3, <1>4, <1>5 DEF ParseLine
  <2>2. ParseHeader(s, f, l) = s
    BY <1>4 DEF ParseHeader
  <2>3. MaybeMore(HunkLines(f), told)
    BY <1>1 DEF MaybeMore
  <2> QED
    BY <1>2, <2>1, <2>2, <2>3 DEF l, told
<1>6. CASE s.open
  <2> DEFINE line == LineRead(s, l)
             L == LinesOf(c) \cup {line}
             t == AddLine(s, f, l)
  <2>1. ParseLine(s, l) = t
    BY <1>2, <1>3, <1>4, <1>6 DEF ParseLine
  <2>2. line.kind = " " /\ line \in L /\ LinesOf(c) \subseteq L
    BY <1>4 DEF LineRead
  <2> HIDE DEF L
  <2>3. HunksIn(f.hunks, L)
    BY <1>2, <2>2, SeqOfMore DEF HunksIn
  <2> HIDE DEF t
  <2>4. PICK g : Adds(s, f, l, line, t, g)
    <3>1. Adding(s, f, L)
      BY <1>1, <1>2, <1>6, <2>3 DEF Adding
    <3> HIDE DEF line
    <3> QED
      BY <2>2, <3>1, LineAdded DEF t, line
  <2> HIDE DEF line
  <2>5. t.ok /\ t.files = <<g>> /\ HunkLines(g) = Append(told, line)
    BY <1>1, <2>4 DEF Adds
  <2>6. g.path = c.path /\ g.status = c.status /\ (c.status = "R" => g.oldPath = c.oldPath)
    BY <1>2, <2>4 DEF Adds
  <2>7. MaybeMore(HunkLines(g), told)
    BY <2>2, <2>5 DEF MaybeMore
  <2> QED
    BY <2>1, <2>5, <2>6, <2>7 DEF l, told
<1> QED
  BY <1>5, <1>6

\* What the parser makes of a change: one file, with every line that is shown.
LEMMA DiffParsed ==
  ASSUME NEW c, IsChange(c), NoHeaderLike(c)
  PROVE  \E g : /\ ParseUnifiedDiff(DiffText(c)) = <<g>>
                /\ g.path = c.path /\ g.status = c.status /\ (c.status = "R" => g.oldPath = c.oldPath)
                /\ MaybeMore(HunkLines(g), Those(AllLines(c), Shown(c)))
<1> DEFINE s == Parsed(DiffBody(c))
           t == Parsed(DiffText(c))
           n == Len(c.edits)
<1>1. n \in Nat /\ DOMAIN c.edits = 1..n
  BY EditsType
<1>2. HasRead(s, c, n) \/ (HasRead(s, c, 0) /\ Shown(c) = {})
  <2>1. CASE Changed(c) = {}
    <3>1. s = Parsed(Heading(c))
      BY <2>1 DEF DiffBody
    <3>2. Headed(s, c)
      BY <3>1, HeadingParsed
    <3>3. Shown(c) = {}
      BY <2>1 DEF Shown
    <3> QED
      BY <3>2, <3>3, HeadedIsRead
  <2>2. CASE Changed(c) # {}
    <3>1. s = Parsed((Heading(c) \o FileNames(c)) \o PatchUpTo(c, n))
      BY <2>2 DEF DiffBody
    <3>2. IsText(Heading(c) \o FileNames(c)) /\ Headed(Parsed(Heading(c) \o FileNames(c)), c)
      BY NamesParsed
    <3> QED
      BY <3>1, <3>2, PatchParsed
  <2> QED
    BY <2>1, <2>2
<1>3. PICK m \in {0, n} : HasRead(s, c, m) /\ Shown(c) \cap 1..m = Shown(c)
  <2>1. Shown(c) \subseteq 1..n
    BY <1>1 DEF Shown
  <2> QED
    BY <1>2, <2>1
<1>4. t = ParseLine(s, EndOfText)
  BY DiffTextIs, TextAppend
<1> HIDE DEF s, t
<1>5. t.ok
  BY <1>3, <1>4, EndOfTextLine
<1>6. PICK g : /\ t.files = <<g>>
               /\ g.path = c.path /\ g.status = c.status /\ (c.status = "R" => g.oldPath = c.oldPath)
               /\ MaybeMore(HunkLines(g), Those(AllLines(c), Shown(c)))
  BY <1>3, <1>4, EndOfTextLine
<1>7. ParseUnifiedDiff(DiffText(c)) = <<g>>
  BY <1>5, <1>6 DEF ParseUnifiedDiff, Parsed, t
<1> QED
  BY <1>6, <1>7

\* As many as the positions they were taken from.
LEMMA ThoseLength ==
  ASSUME NEW found, NEW n \in Nat, DOMAIN found = 1..n, NEW S
  PROVE  Len(Those(found, S)) = Cardinality(S \cap 1..n)
<1> DEFINE fs == Those(found, S)
           P == {found[i] : i \in 1..n}
<1>1. fs \in Seq(P)
  BY ThoseAre
<1>2. CountIn(fs, P) = Cardinality({i \in S \cap 1..n : found[i] \in P})
  BY ThoseCount
<1>3. {i \in S \cap 1..n : found[i] \in P} = S \cap 1..n
  OBVIOUS
<1> HIDE DEF fs, P
<1>4. {k \in DOMAIN fs : fs[k] \in P} = 1..Len(fs) /\ Len(fs) \in Nat
  BY <1>1
<1>5. Cardinality(1..Len(fs)) = Len(fs)
  <2> DEFINE m == Len(fs)
  <2>1. m \in Nat
    BY <1>4
  <2> HIDE DEF m
  <2>2. m - 1 + 1 = m /\ (1 <= m \/ m = 0)
    BY <2>1
  <2>3. Cardinality(1..m) = m
    BY <2>1, <2>2, FS_Interval
  <2> QED
    BY <2>3 DEF m
<1> QED
  BY <1>2, <1>3, <1>4, <1>5 DEF CountIn, fs

\* A changed line is shown.
LEMMA ChangedIsShown ==
  ASSUME NEW c, IsChange(c)
  PROVE  Changed(c) \subseteq Shown(c)
<1>1. ASSUME NEW i \in Changed(c) PROVE i \in Shown(c)
  <2>0. i \in DOMAIN c.edits
    BY DEF Changed
  <2>1. i \in DOMAIN c.edits /\ i \in Int
    BY <2>0, EditsType
  <2>2. Around \in Nat
    BY ChangesAssumption
  <2>3. i - i \in -Around .. Around
    BY <2>1, <2>2
  <2> QED
    BY <2>1, <2>3 DEF Shown
<1> QED
  BY <1>1

\* The lines of a kind that the parser finds are as many as the change has.
LEMMA KindCounted ==
  ASSUME NEW c, IsChange(c), NEW op, op = "+" \/ op = "-"
  PROVE  Len(OfKind(Those(AllLines(c), Shown(c)), op)) =
           Cardinality({i \in DOMAIN c.edits : c.edits[i].op = op})
<1> DEFINE n == Len(c.edits)
           A == AllLines(c)
           S == Shown(c)
           ls == Those(A, S)
           P == {l \in LinesOf(c) : l.kind = op}
<1>1. n \in Nat /\ DOMAIN c.edits = 1..n /\ DOMAIN A = 1..n /\ S \subseteq 1..n
  BY EditsType DEF AllLines, Shown
<1>2. \A i \in 1..n : A[i].kind = c.edits[i].op /\ A[i] \in LinesOf(c)
  BY <1>1 DEF AllLines, LinesOf
<1>3. LinesOf(c) = {A[i] : i \in 1..n}
  BY <1>1 DEF LinesOf
<1> HIDE DEF A
<1>4. ls \in Seq(LinesOf(c))
  <2> HIDE DEF S, n, P
  <2>1. Those(A, S) \in Seq({A[i] : i \in 1..n})
    BY <1>1, ThoseAre
  <2> QED
    BY <1>3, <2>1
<1>9. CountIn(ls, P) = Cardinality({i \in S \cap 1..n : A[i] \in P})
  <2> HIDE DEF S, n, P
  <2> QED
    BY <1>1, ThoseCount
<1>5. {i \in S \cap 1..n : A[i] \in P} = {i \in DOMAIN c.edits : c.edits[i].op = op}
  <2>1. ASSUME NEW i \in DOMAIN c.edits, c.edits[i].op = op PROVE i \in S
    BY <2>1, ChangedIsShown DEF Changed
  <2> HIDE DEF S
  <2> QED
    BY <1>1, <1>2, <2>1
<1> HIDE DEF ls, S
<1> DEFINE K == {k \in DOMAIN ls : ls[k].kind = op}
<1>6. K = {k \in DOMAIN ls : ls[k] \in P}
  BY <1>4
<1>7. Len(OfKind(ls, op)) = Cardinality(K)
  <2> DEFINE m == Len(ls)
  <2>1. m \in Nat /\ DOMAIN ls = 1..m
    BY <1>4
  <2>2. K \cap 1..m = K
    BY <2>1
  <2> HIDE DEF m, K
  <2>3. Len(Those(ls, K)) = Cardinality(K \cap 1..m)
    BY <2>1, ThoseLength
  <2> QED
    BY <2>2, <2>3 DEF OfKind, K
<1>8. Cardinality(K) = Cardinality({i \in DOMAIN c.edits : c.edits[i].op = op})
  BY <1>5, <1>6, <1>9 DEF CountIn
<1> QED
  BY <1>7, <1>8 DEF ls, A, S

\* The lines found are a list.
LEMMA LinesAreList ==
  ASSUME NEW c, IsChange(c)
  PROVE  \E L : Those(AllLines(c), Shown(c)) \in Seq(L)
<1> DEFINE n == Len(c.edits)
           A == AllLines(c)
           S == Shown(c)
<1>1. n \in Nat /\ DOMAIN A = 1..n
  BY EditsType DEF AllLines
<1> HIDE DEF A, S, n
<1>2. Those(A, S) \in Seq({A[i] : i \in 1..n})
  BY <1>1, ThoseAre
<1> QED
  BY <1>2 DEF A, S

\* A line of context adds none of another kind.
LEMMA MoreOfContext ==
  ASSUME NEW L, NEW told \in Seq(L), NEW ls, MaybeMore(ls, told), NEW op, op = "+" \/ op = "-"
  PROVE  Len(OfKind(ls, op)) = Len(OfKind(told, op))
<1>1. CASE ls = told
  BY <1>1
<1>2. CASE \E l : l.kind = " " /\ ls = Append(told, l)
  <2>1. PICK l : l.kind = " " /\ ls = Append(told, l)
    BY <1>2
  <2> DEFINE n == Len(told)
             K == {k \in DOMAIN told : told[k].kind = op}
             M == {k \in DOMAIN ls : ls[k].kind = op}
  <2>2. /\ n \in Nat /\ DOMAIN told = 1..n
        /\ DOMAIN ls = 1..(n + 1) /\ ls[n + 1] = l /\ \A k \in 1..n : ls[k] = told[k]
    <3> DEFINE M1 == L \cup {l}
    <3>1. told \in Seq(M1) /\ l \in M1
      <4>1. L \subseteq M1 /\ l \in M1
        OBVIOUS
      <4> HIDE DEF M1
      <4> QED
        BY <4>1, SeqOfMore
    <3> HIDE DEF M1, K, M
    <3> SUFFICES /\ Len(told) \in Nat /\ DOMAIN told = 1..Len(told)
                 /\ DOMAIN ls = 1..(Len(told) + 1) /\ ls[Len(told) + 1] = l
                 /\ \A k \in 1..Len(told) : ls[k] = told[k]
      OBVIOUS
    <3>2. ls = Append(told, l)
      BY <2>1
    <3> QED
      BY <3>1, <3>2
  <2> HIDE DEF n
  <2>3. n + 1 \in Nat /\ n + 1 \in 1..(n + 1) /\ 1..n \subseteq 1..(n + 1)
        /\ \A k \in 1..(n + 1) : k \in 1..n \/ k = n + 1
    BY <2>2
  <2>4. M = K /\ K \cap 1..n = K /\ M \cap 1..(n + 1) = M
    BY <2>1, <2>2, <2>3
  <2>5. OfKind(ls, op) = Those(ls, M) /\ OfKind(told, op) = Those(told, K)
    BY DEF OfKind
  <2> HIDE DEF K, M
  <2>6. Len(Those(ls, M)) = Cardinality(M) /\ Len(Those(told, K)) = Cardinality(K)
    BY <2>2, <2>3, <2>4, ThoseLength
  <2> QED
    BY <2>4, <2>5, <2>6
<1> QED
  BY <1>1, <1>2 DEF MaybeMore

\* Each line found is numbered as in the files.
LEMMA FoundNumbered ==
  ASSUME NEW c, IsChange(c), NEW ls, ls = Those(AllLines(c), Shown(c)), NEW k \in DOMAIN ls
  PROVE  /\ ls[k].kind # "+" => Numbered(c, "-", ls[k].words, ls[k].oldNo)
         /\ ls[k].kind # "-" => Numbered(c, "+", ls[k].words, ls[k].newNo)
<1> DEFINE n == Len(c.edits)
           A == AllLines(c)
           S == Shown(c)
<1>1. n \in Nat /\ DOMAIN c.edits = 1..n /\ DOMAIN A = 1..n /\ S \subseteq 1..n
  BY EditsType DEF AllLines, Shown
<1> HIDE DEF A, S, n
<1>2. ls \in Seq({A[i] : i \in 1..n}) /\ ls = Those(A, S)
  <2>1. Those(A, S) \in Seq({A[i] : i \in 1..n})
    BY <1>1, ThoseAre
  <2> QED
    BY <2>1 DEF A, S
<1>3. PICK i \in 1..n : ls[k] = A[i]
  BY <1>2
<1>4. i \in DOMAIN c.edits /\ (c.edits[i].op = " " \/ c.edits[i].op = "+" \/ c.edits[i].op = "-")
  BY <1>1 DEF IsChange
<1>5. /\ A[i].kind = c.edits[i].op /\ A[i].words = c.edits[i].words
      /\ A[i].kind # "+" => A[i].oldNo = LinesUpTo(c, i, "-")
      /\ A[i].kind # "-" => A[i].newNo = LinesUpTo(c, i, "+")
  BY <1>4 DEF AllLines, A
<1>6. /\ A[i].kind # "+" => IsLineOf(c.edits[i], "-")
      /\ A[i].kind # "-" => IsLineOf(c.edits[i], "+")
  BY <1>4, <1>5 DEF IsLineOf
<1> QED
  BY <1>3, <1>4, <1>5, <1>6 DEF Numbered

\* Where nothing is written of any edit, nothing is written.
LEMMA EmptyPatch ==
  ASSUME NEW c, NEW n \in Nat, DOMAIN c.edits = 1..n, \A i \in DOMAIN c.edits : EditText(c, i) = <<>>
  PROVE  Patch(c) = <<>>
<1> DEFINE P(m) == FlattenSeq([k \in 1..m |-> <<>>])
           N == {m \in 0..n : P(m) = <<>>}
<1>1. 0 \in N
  <2>1. [k \in 1..0 |-> <<>>] = <<>>
    OBVIOUS
  <2>2. FlattenSeq(<<>>) = <<>>
    BY DEF FlattenSeq
  <2> QED
    BY <2>1, <2>2
<1>2. ASSUME NEW m \in 0..n, m < n /\ m \in N PROVE m + 1 \in N
  <2> DEFINE ss == [k \in 1..m |-> <<>>]
             tt == [k \in 1..(m + 1) |-> <<>>]
  <2>1. m \in Nat /\ m + 1 \in 0..n
    BY <1>2
  <2>2. ss \in Seq(Seq({})) /\ <<>> \in Seq({}) /\ tt = Append(ss, <<>>)
    BY <2>1
  <2>3. FlattenSeq(ss) = <<>>
    BY <1>2
  <2> HIDE DEF ss, tt
  <2>4. FlattenSeq(tt) = <<>> \o <<>>
    BY <2>2, <2>3, FlattenAppend
  <2> QED
    BY <2>1, <2>4 DEF tt
<1>3. n \in N
  <2> HIDE DEF N
  <2>1. \A m \in 0..n : m \in N
    BY <1>1, <1>2, InductionUpTo
  <2> QED
    BY <2>1
<1>4. [i \in DOMAIN c.edits |-> EditText(c, i)] = [k \in 1..n |-> <<>>]
  OBVIOUS
<1> QED
  BY <1>3, <1>4 DEF Patch

\* A patch has no line that is like the end of a text.
LEMMA PatchLines ==
  ASSUME NEW c, IsChange(c)
  PROVE  \E X : Patch(c) \in Seq(X) /\ \A l \in X : l # EndOfText
<1> DEFINE n == Len(c.edits)
           X == {HunkHeader(c, k) : k \in 1..n} \cup {EditLine(c, k) : k \in 1..n} \cup {NoNewline}
           ss == [k \in DOMAIN c.edits |-> EditText(c, k)]
<1>1. n \in Nat /\ DOMAIN c.edits = 1..n
  BY EditsType
<1>2. \A l \in X : l # EndOfText
  <2>1. \A k \in 1..n : EditLine(c, k).mark # ""
    BY <1>1 DEF IsChange, EditLine
  <2>2. \A k \in 1..n : HunkHeader(c, k).mark # ""
    BY DEF HunkHeader
  <2>3. NoNewline.mark # "" /\ EndOfText.mark = ""
    BY DEF NoNewline, EndOfText
  <2> QED
    BY <2>1, <2>2, <2>3
<1>3. \A k \in 1..n : EditText(c, k) \in Seq(X)
  <2> TAKE k \in 1..n
  <2> DEFINE h == HunkHeader(c, k)
             e == EditLine(c, k)
             a == IF k - 1 \in Shown(c) THEN <<>> ELSE <<h>>
             b == IF k \in c.bare THEN <<NoNewline>> ELSE <<>>
  <2>1. h \in X /\ e \in X /\ NoNewline \in X
    OBVIOUS
  <2>2. EditText(c, k) = IF k \notin Shown(c) THEN <<>> ELSE (a \o <<e>>) \o b
    BY DEF EditText
  <2> HIDE DEF X, h, e
  <2>3. a \in Seq(X) /\ b \in Seq(X) /\ <<e>> \in Seq(X) /\ <<>> \in Seq(X)
    BY <2>1
  <2> HIDE DEF a, b
  <2>4. (a \o <<e>>) \o b \in Seq(X)
    BY <2>3
  <2> QED
    BY <2>2, <2>3, <2>4
<1> HIDE DEF X
<1>4. ss \in Seq(Seq(X))
  BY <1>1, <1>3
<1>5. Patch(c) = FlattenSeq(ss)
  BY DEF Patch
<1> HIDE DEF ss
<1>6. Patch(c) \in Seq(X)
  BY <1>4, <1>5, FlattenType
<1> QED
  BY <1>2, <1>6

\* The newline that may end a patch is taken off, and no more (ghpatch.go:28).
LEMMA PatchTrimmed ==
  ASSUME NEW c, IsChange(c), NEW patch, patch = Patch(c) \/ patch = Patch(c) \o <<EndOfText>>
  PROVE  Trimmed(patch) = Patch(c)
<1> DEFINE t == Patch(c)
<1>1. PICK X : t \in Seq(X) /\ \A l \in X : l # EndOfText
  BY PatchLines
<1> HIDE DEF t
<1>2. t # <<>> => Last(t) \in X
  BY <1>1 DEF Last
<1>3. CASE patch = t
  BY <1>1, <1>2, <1>3 DEF Trimmed, t
<1>4. CASE patch = t \o <<EndOfText>>
  <2> DEFINE Y == X \cup {EndOfText}
             n == Len(t)
  <2>1. t \in Seq(Y) /\ EndOfText \in Y
    BY <1>1
  <2> HIDE DEF Y
  <2>2. /\ n \in Nat /\ patch \in Seq(Y) /\ Len(patch) = n + 1 /\ patch[n + 1] = EndOfText
        /\ \A k \in 1..n : patch[k] = t[k]
    BY <1>4, <2>1
  <2>3. Last(patch) = EndOfText /\ patch # <<>>
    BY <2>2 DEF Last
  <2>4. Front(patch) = t
    <3>1. Front(patch) = SubSeq(patch, 1, n)
      BY <2>2 DEF Front
    <3>2. SubSeq(patch, 1, n) = t
      BY <2>1, <2>2
    <3> QED
      BY <3>1, <3>2
  <2> QED
    BY <2>3, <2>4 DEF Trimmed, t
<1> QED
  BY <1>3, <1>4 DEF t

\* The headers that are made up tell the name of the file (ghpatch.go:20-27).
LEMMA MadeUpParsed ==
  ASSUME NEW c, IsChange(c), NEW path, path = c.path, NEW status
  PROVE  \E p : /\ IsText(MadeUp(path, status))
                /\ HeaderState(Parsed(MadeUp(path, status)), path, p, "M", "")
<1> DEFINE minus == "-- "
           plus == "++ "
           sideA == "a/"
           sideB == "b/"
           po == IF status = "A" THEN DevNull ELSE path
           h == [mark |-> "diff", old |-> path, new |-> path]
           k == [mark |-> "-", words |-> <<minus, sideA, po>>]
           l == PathHeader("+", plus, sideB, path)
           t0 == <<h>>
           t1 == Append(t0, k)
           t2 == Append(t1, l)
<1>1. MadeUp(path, status) = t2
  <2> DEFINE all == <<h, k, l>>
  <2>1. MadeUp(path, status) = all
    BY DEF MadeUp
  <2>2. all = t2
    <3> HIDE DEF h, k, l
    <3> QED
      OBVIOUS
  <2> QED
    BY <2>1, <2>2
<1>2. path # "" /\ path # DevNull /\ po # ""
  BY DEF IsChange, DevNull
<1> HIDE DEF minus, plus, sideA, sideB, po
<1>3. /\ k.mark = "-" /\ k.words # <<>> /\ k.words[1] = minus
      /\ parseDiffPath(Tail(k.words), sideA) = po
  <2> DEFINE v == <<minus, sideA, po>>
             u == <<sideA, po>>
  <2>1. k.mark = "-" /\ k.words = v
    OBVIOUS
  <2>2. Tail(v) = u /\ v[1] = minus /\ v # <<>>
    OBVIOUS
  <2>3. u # <<>> /\ u # <<DevNull>> /\ u[1] = sideA /\ u[2] = po
    OBVIOUS
  <2> HIDE DEF u, v, k
  <2>4. parseDiffPath(u, sideA) = po
    BY <2>3 DEF parseDiffPath
  <2> QED
    BY <2>1, <2>2, <2>4
<1>4. /\ l.mark = "+" /\ l.words # <<>> /\ l.words[1] = plus
      /\ parseDiffPath(Tail(l.words), sideB) = path
  <2>1. l = PathHeader("+", plus, sideB, path)
    OBVIOUS
  <2> HIDE DEF l
  <2> QED
    <3>1. path # DevNull
      BY <1>2
    <3> QED
      BY <2>1, <3>1, PathOf
<1>5. /\ IsText(t0) /\ Parsed(t0) = ParseLine(NoDiff, h)
      /\ HeaderState(ParseLine(NoDiff, h), path, path, "M", "")
  <2>1. IsText(<<>>) /\ Append(<<>>, h) = <<h>>
    <3>1. <<>> \in Seq({})
      OBVIOUS
    <3> QED
      BY <3>1 DEF IsText
  <2>2. IsText(t0) /\ Parsed(t0) = ParseLine(NoDiff, h)
    BY <2>1, ParsedNothing, TextAppend
  <2> QED
    BY <2>2, DiffHeader
<1> HIDE DEF h, k, l, t0
<1>10. HeaderState(Parsed(t0), path, path, "M", "")
  BY <1>5
<1>6. IsText(t1) /\ Parsed(t1) = ParseLine(Parsed(t0), k)
  BY <1>5, TextAppend
<1>7. IsText(t2) /\ Parsed(t2) = ParseLine(Parsed(t1), l)
  BY <1>6, TextAppend
<1> HIDE DEF t1, t2
<1>8. HeaderState(Parsed(t1), path, po, "M", "")
  <2> DEFINE s0 == Parsed(t0)
             st == "M"
             mv == ""
  <2>1. HeaderState(s0, path, path, st, mv)
    BY <1>10
  <2> HIDE DEF s0, st, mv
  <2>2. IF po # "" THEN HeaderState(ParseLine(s0, k), path, po, st, mv)
        ELSE \E any : HeaderState(ParseLine(s0, k), path, any, st, mv)
    BY <1>3, <2>1, OldPathLine DEF minus, sideA
  <2> QED
    BY <1>2, <1>6, <2>2 DEF s0, st, mv
<1>9. HeaderState(Parsed(t2), path, po, "M", "")
  <2>1. HeaderState(Parsed(t2), IF path = "" THEN path ELSE path, po, "M", "")
    BY <1>4, <1>7, <1>8, NewPathLine DEF plus, sideB
  <2> QED
    BY <2>1
<1> QED
  BY <1>1, <1>7, <1>9

\* What is made of a patch that GitHub gives: nothing, where nothing changed, or one
\* file with every line that is shown.
LEMMA FilePatchParsed ==
  ASSUME NEW c, IsChange(c), NoHeaderLike(c),
         NEW patch, patch = Patch(c) \/ patch = Patch(c) \o <<EndOfText>>
  PROVE  IF Changed(c) = {} THEN ParseFilePatch(c.path, c.status, patch) = <<>>
         ELSE \E g : /\ ParseFilePatch(c.path, c.status, patch) = <<g>>
                     /\ g.path = c.path /\ g.status = c.status
                     /\ Hunks(g.hunks, c) /\ HunkLines(g) = Those(AllLines(c), Shown(c))
<1> DEFINE n == Len(c.edits)
           d == [path |-> c.path, oldPath |-> c.path, status |-> "M",
                 edits |-> c.edits, bare |-> c.bare]
           up == MadeUp(c.path, c.status)
           s == Parsed(up)
           t == Parsed(up \o Patch(c))
           A == AllLines(c)
           S == Shown(c)
<1>1. n \in Nat /\ DOMAIN c.edits = 1..n /\ DOMAIN A = 1..n /\ S \subseteq 1..n
  BY EditsType DEF AllLines, Shown
<1>2. d.path = c.path /\ d.oldPath = c.path /\ d.status = "M" /\ d.edits = c.edits /\ d.bare = c.bare
  OBVIOUS
<1> HIDE DEF d
<1>3. IsChange(d) /\ NoHeaderLike(d)
  BY <1>2 DEF IsChange, NoHeaderLike, EditLine
<1>4. Changed(d) = Changed(c)
  BY <1>2 DEF Changed
<1>5. Shown(d) = Shown(c)
  BY <1>2, <1>4 DEF Shown
<1>6. \A i, op : LinesUpTo(d, i, op) = LinesUpTo(c, i, op)
  BY <1>2 DEF LinesUpTo
<1>7. AllLines(d) = AllLines(c)
  BY <1>2, <1>6 DEF AllLines
<1>8. \A hs : Hunks(hs, d) <=> Hunks(hs, c)
  BY <1>2, <1>7 DEF Hunks, LinesOf
<1>9. PatchUpTo(d, n) = Patch(c)
  <2>1. \A i, op : Start(d, i, op) = Start(c, i, op)
    BY <1>2, <1>5, <1>6 DEF Start
  <2>2. \A i : HunkHeader(d, i) = HunkHeader(c, i) /\ EditLine(d, i) = EditLine(c, i)
    BY <1>2, <2>1 DEF HunkHeader, EditLine
  <2>3. \A i : EditText(d, i) = EditText(c, i)
    BY <1>2, <1>5, <2>2 DEF EditText
  <2> QED
    BY <1>1, <2>3 DEF PatchUpTo, Patch
<1>10. Trimmed(patch) = Patch(c)
  BY PatchTrimmed
<1>11. IsText(up) /\ Headed(s, d)
  <2> DEFINE path == c.path
  <2>1. path = c.path
    OBVIOUS
  <2> HIDE DEF path
  <2>2. PICK p : /\ IsText(MadeUp(path, c.status))
                 /\ HeaderState(Parsed(MadeUp(path, c.status)), path, p, "M", "")
    BY <2>1, MadeUpParsed
  <2>3. d.path = path /\ d.status = "M"
    BY <1>2, <2>1
  <2> QED
    BY <2>1, <2>2, <2>3 DEF Headed
<1> HIDE DEF up
<1>12. HasRead(s, d, 0) /\ HasRead(t, d, n)
  <2>1. HasRead(s, d, 0)
    BY <1>3, <1>11, HeadedIsRead
  <2>2. HasRead(Parsed(up \o PatchUpTo(d, Len(d.edits))), d, Len(d.edits))
    BY <1>3, <1>11, PatchParsed
  <2> QED
    BY <1>2, <1>9, <2>1, <2>2
<1>13. PICK f : /\ s.files = <<f>>
                /\ HunkLines(f) = Those(A, S \cap 1..0)
  BY <1>5, <1>7, <1>12 DEF HasRead, FileOf
<1>14. PICK g : /\ t.files = <<g>> /\ t.ok /\ DOMAIN g = FileFields /\ g.path = c.path
                /\ Hunks(g.hunks, c) /\ HunkLines(g) = Those(A, S \cap 1..n)
  BY <1>2, <1>5, <1>7, <1>8, <1>12 DEF HasRead, FileOf
<1>15. S \cap 1..n = S /\ S \cap 1..0 = {}
  BY <1>1
<1>16. CASE Changed(c) = {}
  <2>1. S = {}
    BY <1>16 DEF Shown
  <2>2. \A i \in DOMAIN c.edits : EditText(c, i) = <<>>
    BY <2>1 DEF EditText
  <2>3. Patch(c) = <<>>
    BY <1>1, <2>2, EmptyPatch
  <2> QED
    BY <1>10, <1>16, <2>3 DEF ParseFilePatch
<1>17. CASE Changed(c) # {}
  <2>1. S # {}
    BY <1>17, ChangedIsShown
  <2>2. Patch(c) # <<>>
    <3>1. ASSUME Patch(c) = <<>> PROVE FALSE
      <4>1. up \o <<>> = up
        BY <1>11, TextConcat
      <4>2. t = s
        BY <3>1, <4>1
      <4>3. f = g
        BY <1>13, <1>14, <4>2, OneFileIsLast
      <4> HIDE DEF A, S, s, t
      <4>4. Those(A, {}) = Those(A, S)
        BY <1>13, <1>14, <1>15, <4>3
      <4>5. Cardinality({} \cap 1..n) = Cardinality(S \cap 1..n)
        BY <1>1, <4>4, ThoseLength
      <4>6. S \in SUBSET (1..n) /\ {} \cap 1..n = {}
        BY <1>1
      <4>7. IsFiniteSet(S) /\ Cardinality({}) = 0
        BY <1>1, <4>6, Positions, FS_EmptySet
      <4>8. Cardinality(S) = 0
        BY <1>15, <4>5, <4>6, <4>7
      <4> QED
        BY <2>1, <4>7, <4>8, FS_EmptySet
    <3> QED
      BY <3>1
  <2> HIDE DEF A, S
  <2>3. ParseUnifiedDiff(up \o Patch(c)) = <<g>>
    BY <1>14 DEF ParseUnifiedDiff, Parsed
  <2> DEFINE files == ParseUnifiedDiff(up \o Patch(c))
             r == [g EXCEPT !.status = c.status]
  <2>4. files # <<>> /\ files[1] = g
    BY <2>3
  <2>5. ParseFilePatch(c.path, c.status, patch) =
          IF Patch(c) = <<>> \/ files = <<>> THEN <<>>
          ELSE <<[files[1] EXCEPT !.status = c.status]>>
    BY <1>10 DEF ParseFilePatch, up
  <2> HIDE DEF files
  <2>6. ParseFilePatch(c.path, c.status, patch) = <<r>>
    BY <2>2, <2>4, <2>5
  <2>7. r.path = c.path /\ r.status = c.status /\ r.hunks = g.hunks
    BY <1>14 DEF FileFields
  <2> HIDE DEF r
  <2>8. HunkLines(r) = HunkLines(g)
    BY <2>7 DEF HunkLines
  <2> QED
    BY <1>14, <1>15, <1>17, <2>6, <2>7, <2>8 DEF A, S
<1> QED
  BY <1>16, <1>17

\* A sequence of one.
LEMMA OneOf ==
  ASSUME NEW x
  PROVE  DOMAIN <<x>> = 1..1 /\ (\A i \in 1..1 : <<x>>[i] = x) /\ [i \in 1..1 |-> x] = <<x>>
<1>1. DOMAIN <<x>> = 1..1 /\ \A i \in 1..1 : <<x>>[i] = x
  OBVIOUS
<1>2. [i \in 1..1 |-> x] = <<x>>
  OBVIOUS
<1> QED
  BY <1>1, <1>2

\* A manifest of one file.
LEMMA ManifestOfOne ==
  ASSUME NEW f
  PROVE  ManifestFromDiff(<<f>>) =
           << [status |-> f.status, path |-> f.path,
               oldPath |-> IF f.status \in {"R", "C"} THEN f.oldPath ELSE "",
               adds |-> Len(OfKind(HunkLines(f), "+")), dels |-> Len(OfKind(HunkLines(f), "-"))] >>
<1> DEFINE files == <<f>>
           row == [status |-> f.status, path |-> f.path,
                   oldPath |-> IF f.status \in {"R", "C"} THEN f.oldPath ELSE "",
                   adds |-> Len(OfKind(HunkLines(f), "+")),
                   dels |-> Len(RemovedLines(f))]
<1>1. DOMAIN files = 1..1 /\ \A i \in 1..1 : files[i] = f
  OBVIOUS
<1>2. ManifestFromDiff(files) = [i \in 1..1 |-> row]
  <2> HIDE DEF files
  <2> QED
    BY <1>1 DEF ManifestFromDiff
<1> HIDE DEF row
<1>3. [i \in 1..1 |-> row] = <<row>>
  OBVIOUS
<1> QED
  BY <1>2, <1>3 DEF row, RemovedLines

\* GitHub's list of one file.
LEMMA ListOfOne ==
  ASSUME NEW raw, raw.filename # "", NEW status, raw.status \in DOMAIN GitHubStatus,
         status = GitHubStatus[raw.status]
  PROVE  ParseGitHubFilesAPI(<<raw>>) =
           << [status |-> status, path |-> raw.filename,
               oldPath |-> IF status \in {"R", "C"} /\ raw.previous = ""
                           THEN raw.filename ELSE raw.previous,
               adds |-> raw.additions, dels |-> raw.deletions] >>
<1> DEFINE list == <<raw>>
           row == [status |-> status, path |-> raw.filename,
                   oldPath |-> IF status \in {"R", "C"} /\ raw.previous = ""
                               THEN raw.filename ELSE raw.previous,
                   adds |-> raw.additions, dels |-> raw.deletions]
<1>1. DOMAIN list = 1..1 /\ \A i \in 1..1 : list[i] = raw
  BY OneOf
<1>2. ParseGitHubFilesAPI(list) = [i \in 1..1 |-> row]
  <2>1. ~\E i \in DOMAIN list : list[i].filename = "" \/ list[i].status \notin DOMAIN GitHubStatus
    BY <1>1
  <2> HIDE DEF list
  <2>2. ParseGitHubFilesAPI(list) = [i \in DOMAIN list |->
          LET st == GitHubStatus[list[i].status]
          IN [status |-> st, path |-> list[i].filename,
              oldPath |-> IF st \in {"R", "C"} /\ list[i].previous = ""
                          THEN list[i].filename ELSE list[i].previous,
              adds |-> list[i].additions, dels |-> list[i].deletions]]
    BY <2>1 DEF ParseGitHubFilesAPI
  <2> QED
    BY <1>1, <2>2
<1> HIDE DEF row
<1>3. [i \in 1..1 |-> row] = <<row>>
  BY OneOf
<1> QED
  BY <1>2, <1>3 DEF row

\* The whole of it: the diff of a change that has no line like a header tells the change.
LEMMA ChangeTold ==
  ASSUME NEW c, IsChange(c), NoHeaderLike(c)
  PROVE  TellsTheChange(c)
<1> DEFINE Ops(op) == HowMany(c, op)
           told == Those(AllLines(c), Shown(c))
           names == [A |-> "added", D |-> "removed", M |-> "modified", R |-> "renamed"]
           previous == IF c.status = "R" THEN c.oldPath ELSE ""
           raw == [filename |-> c.path, previous |-> previous, status |-> names[c.status],
                   additions |-> Ops("+"), deletions |-> Ops("-")]
           files == ParseUnifiedDiff(DiffText(c))
<1>1. PICK f : /\ files = <<f>>
               /\ f.path = c.path /\ f.status = c.status /\ (c.status = "R" => f.oldPath = c.oldPath)
               /\ MaybeMore(HunkLines(f), told)
  BY DiffParsed
<1>2. files[1] = f /\ Len(files) = 1
  BY <1>1
<1>12. PICK L : told \in Seq(L)
  BY LinesAreList
<1>3. \A k \in 1 .. Len(HunkLines(f)) - 1 : AsInTheFiles(c, HunkLines(f)[k])
  <2>1. \A k \in DOMAIN told : AsInTheFiles(c, told[k])
    BY FoundNumbered DEF AsInTheFiles
  <2> HIDE DEF told
  <2> DEFINE ls == HunkLines(f)
  <2>2. CASE ls = told
    BY <1>12, <2>1, <2>2
  <2>3. CASE \E l : ls = Append(told, l)
    <3>1. PICK l : ls = Append(told, l)
      BY <2>3
    <3>2. Len(ls) - 1 = Len(told) /\ \A k \in 1..Len(told) : ls[k] = told[k]
      BY <1>12, <3>1
    <3> HIDE DEF ls
    <3> QED
      BY <1>12, <2>1, <3>2 DEF ls
  <2> QED
    BY <1>1, <2>2, <2>3 DEF MaybeMore
<1>4. Len(OfKind(HunkLines(f), "+")) = Ops("+") /\ Len(OfKind(HunkLines(f), "-")) = Ops("-")
  <2>1. \A op : op = "+" \/ op = "-" => Len(OfKind(HunkLines(f), op)) = Len(OfKind(told, op))
    BY <1>1, <1>12, MoreOfContext
  <2>2. Len(OfKind(told, "+")) = Ops("+") /\ Len(OfKind(told, "-")) = Ops("-")
    BY KindCounted DEF HowMany
  <2> QED
    BY <2>1, <2>2
<1> HIDE DEF Ops, files
<1>5. c.path # "" /\ c.oldPath # ""
      /\ (c.status = "A" \/ c.status = "D" \/ c.status = "M" \/ c.status = "R")
  BY DEF IsChange
<1>6. names[c.status] \in DOMAIN GitHubStatus /\ GitHubStatus[names[c.status]] = c.status
  <2>1. /\ DOMAIN GitHubStatus =
             {"added", "removed", "modified", "changed", "renamed", "copied"}
        /\ GitHubStatus.added = "A" /\ GitHubStatus.removed = "D"
        /\ GitHubStatus.modified = "M" /\ GitHubStatus.renamed = "R"
    BY DEF GitHubStatus
  <2>2. /\ names["A"] = "added" /\ names["D"] = "removed"
        /\ names["M"] = "modified" /\ names["R"] = "renamed"
    OBVIOUS
  <2> HIDE DEF names
  <2>3. CASE c.status = "A"
    BY <2>1, <2>2, <2>3
  <2>4. CASE c.status = "D"
    BY <2>1, <2>2, <2>4
  <2>5. CASE c.status = "M"
    BY <2>1, <2>2, <2>5
  <2>6. CASE c.status = "R"
    BY <2>1, <2>2, <2>6
  <2> QED
    BY <1>5, <2>3, <2>4, <2>5, <2>6
<1>7. /\ raw.filename = c.path /\ raw.status = names[c.status] /\ raw.previous = previous
      /\ raw.additions = Ops("+") /\ raw.deletions = Ops("-")
  OBVIOUS
<1> HIDE DEF names, raw, previous
<1>8. ParseGitHubFilesAPI(<<raw>>) =
        << [status |-> c.status, path |-> c.path,
            oldPath |-> IF c.status \in {"R", "C"} /\ previous = "" THEN c.path ELSE previous,
            adds |-> Ops("+"), dels |-> Ops("-")] >>
  <2>1. ParseGitHubFilesAPI(<<raw>>) =
           << [status |-> c.status, path |-> raw.filename,
               oldPath |-> IF c.status \in {"R", "C"} /\ raw.previous = ""
                           THEN raw.filename ELSE raw.previous,
               adds |-> raw.additions, dels |-> raw.deletions] >>
    BY <1>5, <1>6, <1>7, ListOfOne
  <2> QED
    BY <1>7, <2>1
<1>9. ManifestFromDiff(<<f>>) =
        << [status |-> c.status, path |-> c.path,
            oldPath |-> IF c.status \in {"R", "C"} THEN f.oldPath ELSE "",
            adds |-> Ops("+"), dels |-> Ops("-")] >>
  BY <1>1, <1>4, ManifestOfOne
<1>10. (IF c.status \in {"R", "C"} THEN f.oldPath ELSE "") =
         (IF c.status \in {"R", "C"} /\ previous = "" THEN c.path ELSE previous)
  BY <1>1, <1>5 DEF previous
<1>11. ManifestFromDiff(files) = ParseGitHubFilesAPI(<<raw>>)
  BY <1>1, <1>8, <1>9, <1>10
<1> QED
  BY <1>2, <1>3, <1>11 DEF TellsTheChange, Ops, files, raw, names, previous

(***************************************************************************)
(* What is asked.                                                          *)
(***************************************************************************)
\* A review comes back with the same finding, once or more.
AskedInv ==
  /\ question.about = "change" => question.change \in Changes
  /\ question.about = "review" =>
       \E r \in Reviews :
         /\ question.change = r.change
         /\ question.findings \in Seq({r.finding}) /\ question.answers \in Seq({r.answer})
         /\ Len(question.findings) = Len(question.answers) /\ Len(question.findings) # 0
         /\ DOMAIN question = {"about", "change", "findings", "answers"}

\* What is asked keeps its form (Repeat).
LEMMA AskedStays == Spec => []AskedInv
<1>1. Init => AskedInv
  <2> SUFFICES ASSUME Init PROVE AskedInv
    OBVIOUS
  <2>1. CASE \E c \in Changes : question = [about |-> "change", change |-> c]
    BY <2>1 DEF AskedInv
  <2>2. CASE \E r \in Reviews :
               question = [about |-> "review", change |-> r.change,
                           findings |-> <<r.finding>>, answers |-> <<r.answer>>]
    <3>1. PICK r \in Reviews :
               question = [about |-> "review", change |-> r.change,
                           findings |-> <<r.finding>>, answers |-> <<r.answer>>]
      BY <2>2
    <3>2. /\ question.about = "review" /\ question.change = r.change
          /\ question.findings = <<r.finding>> /\ question.answers = <<r.answer>>
          /\ DOMAIN question = {"about", "change", "findings", "answers"}
      BY <3>1
    <3>3. \A x : <<x>> \in Seq({x}) /\ Len(<<x>>) = 1
      OBVIOUS
    <3> QED
      BY <3>2, <3>3 DEF AskedInv
  <2>3. CASE question.about \notin {"change", "review"}
    BY <2>3 DEF AskedInv
  <2> QED
    BY <2>1, <2>2, <2>3 DEF Init
<1>2. AskedInv /\ [Next]_question => AskedInv'
  <2> SUFFICES ASSUME AskedInv, [Next]_question PROVE AskedInv'
    OBVIOUS
  <2>1. CASE Repeat
    <3>1. question.about = "review"
      BY <2>1 DEF Repeat
    <3>2. PICK r \in Reviews :
            /\ question.change = r.change
            /\ question.findings \in Seq({r.finding}) /\ question.answers \in Seq({r.answer})
            /\ Len(question.findings) = Len(question.answers) /\ Len(question.findings) # 0
            /\ DOMAIN question = {"about", "change", "findings", "answers"}
      BY <3>1 DEF AskedInv
    <3> DEFINE fs == question.findings
               as == question.answers
    <3>3. question' = [question EXCEPT !.findings = Append(fs, fs[1]), !.answers = Append(as, as[1])]
      BY <2>1 DEF Repeat
    <3>4. /\ Append(fs, fs[1]) \in Seq({r.finding}) /\ Append(as, as[1]) \in Seq({r.answer})
          /\ Len(Append(fs, fs[1])) = Len(Append(as, as[1])) /\ Len(Append(fs, fs[1])) # 0
      <4>1. fs[1] \in {r.finding} /\ as[1] \in {r.answer}
        BY <3>2
      <4> HIDE DEF fs, as
      <4> QED
        BY <3>2, <4>1 DEF fs, as
    <3> HIDE DEF fs, as
    <3>5. ~(question'.about = "change")
      BY <3>1, <3>3
    <3>6. /\ question'.change = r.change /\ question'.findings = Append(fs, fs[1])
          /\ question'.answers = Append(as, as[1])
          /\ DOMAIN question' = {"about", "change", "findings", "answers"}
      BY <3>2, <3>3
    <3>7. /\ question'.findings \in Seq({r.finding}) /\ question'.answers \in Seq({r.answer})
          /\ Len(question'.findings) = Len(question'.answers) /\ Len(question'.findings) # 0
      BY <3>4, <3>6
    <3> QED
      BY <3>5, <3>6, <3>7 DEF AskedInv
  <2>2. CASE Find
    BY <2>2 DEF AskedInv, Find
  <2>3. CASE Carry
    BY <2>3 DEF AskedInv, Carry
  <2>4. CASE Layer
    BY <2>4 DEF AskedInv, Layer
  <2>5. CASE UNCHANGED question
    BY <2>5 DEF AskedInv
  <2> QED
    BY <2>1, <2>2, <2>3, <2>4, <2>5 DEF Next
<1> QED
  BY <1>1, <1>2, PTL DEF Spec

(***************************************************************************)
(* The findings of a review, one by one.                                   *)
(***************************************************************************)
\* What is made of the i-th finding of the review q: the verifier's result, the
\* reason to drop it, and whether it blocks.
ResultOf(q, i) == VerifierResult(Context(q.change), q.findings[i], Related, q.answers[i])

\* The reason finding i is dropped for, if any.
ReasonOf(q, i) ==
  DropReason(Context(q.change), q.findings[i], i,
             EvidenceLevels(Context(q.change), q.findings[i]), ResultOf(q, i) = "unsupported")

\* Whether finding i, published, blocks.
BlocksAs(q, i) ==
  BlockingCandidate(Context(q.change), q.findings[i]) /\ ResultOf(q, i) \in {"", "supported"}

\* Where the walk over the findings starts.
Nothing == [out |-> <<>>, drops |-> <<>>]

\* One finding more is placed.
PlacedNext(q, acc, i) ==
  Place(acc, Context(q.change), q.findings[i], i, ResultOf(q, i), ReasonOf(q, i))

\* The walk of the validation along the findings.
Judges(p, q) ==
  /\ p[0] = Nothing
  /\ \A k \in 1..Len(q.findings) : p[k] = PlacedNext(q, p[k - 1], k)

\* The validation is such a walk (validateFindings).
LEMMA VerdictWalk ==
  ASSUME NEW q, NEW L, q.findings \in Seq(L)
  PROVE  \E p : Judges(p, q) /\ Verdict(q) = p[Len(q.findings)]
<1> DEFINE n == Len(q.findings)
           s == [i \in DOMAIN q.findings |-> i]
           W(it, k) == [T \in SUBSET (1..k) |->
                          IF T = {} THEN Nothing
                          ELSE PlacedNext(q, it[T \ {Max(T)}], Max(T))]
           V(it) == [T \in SUBSET DOMAIN s |->
                          IF T = {} THEN Nothing
                          ELSE PlacedNext(q, it[T \ {Max(T)}], s[Max(T)])]
           it == CHOOSE it : it = V(it)
           N == {k \in 0..n : \E jt : jt = W(jt, k)}
<1>1. n \in Nat /\ DOMAIN q.findings = 1..n
  OBVIOUS
<1>2. Verdict(q) = it[DOMAIN s]
  BY DEF Verdict, validateFindings, FoldLeftDomain, FoldLeft, MapThenFoldSet,
         PlacedNext, ResultOf, ReasonOf, Nothing
<1>s. DOMAIN s = 1..n /\ \A i \in 1..n : s[i] = i
  BY <1>1
<1> HIDE DEF s
<1>3. ASSUME NEW T \in SUBSET (1..n), T # {}
      PROVE  Max(T) \in T /\ \A t \in T : t <= Max(T)
  BY <1>1, <1>3, LargestIndex
<1>4. 0 \in N
  <2> DEFINE jt == [T \in SUBSET (1..0) |-> Nothing]
  <2>1. \A T \in SUBSET (1..0) : T = {}
    OBVIOUS
  <2>2. jt = W(jt, 0)
    BY <2>1
  <2> QED
    BY <1>1, <2>2
<1>5. ASSUME NEW k \in 0..n, k < n /\ k \in N PROVE k + 1 \in N
  <2>1. PICK jt : jt = W(jt, k)
    BY <1>5
  <2> DEFINE kt == W(jt, k + 1)
  <2>2. k \in Nat /\ k + 1 \in 0..n /\ k + 1 \in Nat
    <3>1. k \in 0..n /\ k < n
      BY <1>5
    <3> QED
      BY <1>1, <3>1
  <2>3. ASSUME NEW T \in SUBSET (1..(k + 1)), T # {}
        PROVE  T \ {Max(T)} \in SUBSET (1..k)
    <3>1. T \in SUBSET (1..n)
      BY <1>1, <2>2
    <3>2. Max(T) \in T /\ \A t \in T : t <= Max(T)
      BY <1>3, <2>3, <3>1
    <3>3. ASSUME NEW t \in T, t # Max(T) PROVE t \in 1..k
      <4>1. t \in 1..(k + 1) /\ Max(T) \in 1..(k + 1) /\ t <= Max(T)
        BY <3>2
      <4> HIDE DEF W
      <4> QED
        BY <2>2, <3>3, <4>1
    <3> QED
      BY <3>3
  <2>4. ASSUME NEW T \in SUBSET (1..k) PROVE kt[T] = jt[T]
    <3>1. T \in SUBSET (1..(k + 1))
      BY <2>2
    <3> QED
      BY <2>1, <3>1
  <2>5. kt = W(kt, k + 1)
    <3>1. ASSUME NEW T \in SUBSET (1..(k + 1)), T # {}
          PROVE  jt[T \ {Max(T)}] = kt[T \ {Max(T)}]
      BY <2>3, <2>4, <3>1
    <3> QED
      BY <3>1
  <2> HIDE DEF W
  <2> QED
    BY <2>2, <2>5
<1>6. n \in N
  <2>1. \A k \in 0..n : k \in N
    <3> HIDE DEF N, n
    <3> QED
      BY <1>1, <1>4, <1>5, InductionUpTo
  <2>2. n \in 0..n
    BY <1>1
  <2> QED
    BY <2>1, <2>2
<1>7. it = V(it)
  <2>1. PICK jt : jt = W(jt, n)
    BY <1>6
  <2>2. \A T \in SUBSET (1..n) : T # {} => Max(T) \in 1..n
    BY <1>3
  <2>3. jt = V(jt)
    BY <1>s, <2>1, <2>2
  <2> HIDE DEF V
  <2> QED
    BY <2>3
<1> HIDE DEF it
<1>8. it[{}] = Nothing
  BY <1>s, <1>7
<1>9. ASSUME NEW T \in SUBSET (1..n), T # {}
      PROVE  it[T] = PlacedNext(q, it[T \ {Max(T)}], Max(T))
  <2>1. Max(T) \in 1..n
    BY <1>3, <1>9
  <2> QED
    BY <1>s, <1>7, <1>9, <2>1
<1> DEFINE p == [k \in 0..n |-> it[1..k]]
<1>10. p[0] = Nothing
  <2>1. 1..0 = {}
    OBVIOUS
  <2> QED
    BY <1>1, <1>8, <2>1
<1>11. ASSUME NEW k \in 1..n PROVE p[k] = PlacedNext(q, p[k - 1], k)
  <2>1. 1..k \in SUBSET (1..n) /\ 1..k # {} /\ (1..k) \ {k} = 1..(k - 1)
    <3>1. k \in 1..k
      OBVIOUS
    <3>2. \A t \in 1..k : t \in 1..n
      BY <1>1
    <3>3. (1..k) \ {k} = 1..(k - 1)
      OBVIOUS
    <3> QED
      BY <3>1, <3>2, <3>3
  <2>2. Max(1..k) = k
    <3>1. Max(1..k) \in 1..k /\ \A t \in 1..k : t <= Max(1..k)
      BY <1>3, <2>1
    <3>2. k \in 1..k
      OBVIOUS
    <3> QED
      BY <3>1, <3>2
  <2>3. it[1..k] = PlacedNext(q, it[(1..k) \ {Max(1..k)}], Max(1..k))
    BY <1>9, <2>1
  <2>4. k \in 0..n /\ k - 1 \in 0..n
    BY <1>1
  <2> QED
    BY <2>1, <2>2, <2>3, <2>4
<1>12. p[n] = it[1..n]
  BY <1>1
<1> HIDE DEF p
<1>13. Judges(p, q)
  BY <1>10, <1>11 DEF Judges
<1> QED
  BY <1>2, <1>s, <1>12, <1>13

\* One that goes out is what was made of a finding there was no reason to drop.
IsMadeOf(v, q, i) ==
  /\ v.of = i /\ ReasonOf(q, i) = ""
  /\ v.posted = PostedAt(Context(q.change), q.findings[i])
  /\ v.blocks => BlocksAs(q, i)
  /\ BlocksAs(q, i) => v.blocks

\* Those of the first k findings that there is no reason to drop go out.
GoesOut(acc, q, k) ==
  /\ DOMAIN acc = {"out", "drops"} /\ IsText(acc.out)
  /\ \A j \in DOMAIN acc.out : \E i \in 1..k : IsMadeOf(acc.out[j], q, i)
  /\ \A i \in 1..k : ReasonOf(q, i) = "" => \E j \in DOMAIN acc.out : acc.out[j].of = i

\* Of one more finding (Place).
LEMMA OneMorePlaced ==
  ASSUME NEW acc, NEW q, NEW k \in Nat, GoesOut(acc, q, k)
  PROVE  GoesOut(PlacedNext(q, acc, k + 1), q, k + 1)
<1> DEFINE i == k + 1
           f == q.findings[i]
           fc == Context(q.change)
           reason == ReasonOf(q, i)
           new == PlacedNext(q, acc, i)
<1>0. /\ DOMAIN acc = {"out", "drops"} /\ IsText(acc.out)
      /\ i \in 1..i /\ \A j \in 1..k : j \in 1..i
      /\ \A j \in 1..i : j = i \/ j \in 1..k
  <2>1. DOMAIN acc = {"out", "drops"} /\ IsText(acc.out)
    BY DEF GoesOut
  <2>2. i \in 1..i /\ (\A j \in 1..k : j \in 1..i) /\ \A j \in 1..i : j = i \/ j \in 1..k
    OBVIOUS
  <2> QED
    BY <2>1, <2>2
<1>1. CASE reason # ""
  <2>1. new = [acc EXCEPT !.drops = @ \o [m \in 1 .. DropsOf(f, reason) |->
                                         [of |-> i, reason |-> reason]]]
    BY <1>1 DEF PlacedNext, Place
  <2>2. DOMAIN new = {"out", "drops"} /\ new.out = acc.out
    BY <1>0, <2>1
  <2> HIDE DEF new, i
  <2>3. \A j \in DOMAIN acc.out : \E m \in 1..i : IsMadeOf(acc.out[j], q, m)
    BY <1>0 DEF GoesOut
  <2>4. \A m \in 1..i : ReasonOf(q, m) = "" => \E j \in DOMAIN acc.out : acc.out[j].of = m
    BY <1>0, <1>1 DEF GoesOut
  <2>5. GoesOut(new, q, i)
    BY <1>0, <2>2, <2>3, <2>4 DEF GoesOut
  <2> QED
    BY <2>5 DEF new, i
<1>2. CASE reason = ""
  <2> DEFINE same == SelectSeq(acc.out, LAMBDA w : w.fp = FingerprintOf(f))
             v == [of |-> i, fp |-> FingerprintOf(f), occurrence |-> Len(same) + 1,
                   posted |-> PostedAt(fc, f), verifier |-> ResultOf(q, i), blocks |-> BlocksAs(q, i)]
  <2>1. new = [acc EXCEPT !.out = Append(@, v)]
    BY <1>2 DEF PlacedNext, Place, BlocksAs
  <2>2. v.of = i /\ v.blocks = BlocksAs(q, i) /\ v.posted = PostedAt(Context(q.change), q.findings[i])
    OBVIOUS
  <2>3. IsMadeOf(v, q, i)
    BY <1>2, <2>2 DEF IsMadeOf
  <2> HIDE DEF v
  <2>4. DOMAIN new = {"out", "drops"} /\ new.out = Append(acc.out, v)
    BY <1>0, <2>1
  <2> DEFINE out == acc.out
  <2>5. PICK L : out \in Seq(L)
    BY <1>0 DEF IsText
  <2>6. /\ IsText(Append(out, v)) /\ DOMAIN Append(out, v) = 1..(Len(out) + 1)
        /\ Append(out, v)[Len(out) + 1] = v /\ Len(out) \in Nat /\ DOMAIN out = 1..Len(out)
        /\ \A j \in 1..Len(out) : Append(out, v)[j] = out[j]
    <3>1. out \in Seq(L \cup {v}) /\ v \in L \cup {v}
      BY <2>5
    <3> DEFINE M == L \cup {v}
    <3> HIDE DEF M, out
    <3>2. Append(out, v) \in Seq(M)
      BY <3>1 DEF M
    <3> QED
      BY <3>1, <3>2 DEF IsText, M
  <2> HIDE DEF new, i, out
  <2>7. \A j \in DOMAIN out : \E m \in 1..i : IsMadeOf(out[j], q, m)
    BY <1>0 DEF GoesOut, out
  <2>8. \A j \in DOMAIN new.out : \E m \in 1..i : IsMadeOf(new.out[j], q, m)
    <3> TAKE j \in DOMAIN new.out
    <3>1. CASE j = Len(out) + 1
      BY <1>0, <2>3, <2>4, <2>6, <3>1 DEF out
    <3>2. CASE j # Len(out) + 1
      <4>1. j \in DOMAIN out /\ new.out[j] = out[j]
        BY <2>4, <2>6, <3>2 DEF out
      <4> QED
        BY <2>7, <4>1
    <3> QED
      BY <3>1, <3>2
  <2>9. \A m \in 1..i : ReasonOf(q, m) = "" => \E j \in DOMAIN new.out : new.out[j].of = m
    <3> TAKE m \in 1..i
    <3>1. CASE m = i
      <4>1. new.out[Len(out) + 1] = v /\ Len(out) + 1 \in DOMAIN new.out
        BY <2>4, <2>6 DEF out
      <4>2. v.of = i
        BY <2>3 DEF IsMadeOf
      <4> QED
        BY <3>1, <4>1, <4>2
    <3>2. CASE m # i
      <4>1. m \in 1..k
        BY <1>0, <3>2
      <4>2. ReasonOf(q, m) = "" => \E j \in DOMAIN out : out[j].of = m
        BY <4>1 DEF GoesOut, out
      <4>3. \A j \in DOMAIN out : j \in DOMAIN new.out /\ new.out[j] = out[j]
        BY <2>4, <2>6 DEF out
      <4> QED
        BY <4>2, <4>3
    <3> QED
      BY <3>1, <3>2
  <2>10. GoesOut(new, q, i)
    BY <2>4, <2>6, <2>8, <2>9 DEF GoesOut, out
  <2> QED
    BY <2>10 DEF new, i
<1> QED
  BY <1>1, <1>2

\* Those of a review that there is no reason to drop go out, and no others.
LEMMA VerdictIs ==
  ASSUME NEW q, NEW L, q.findings \in Seq(L)
  PROVE  GoesOut(Verdict(q), q, Len(q.findings))
<1> DEFINE n == Len(q.findings)
<1>1. PICK p : Judges(p, q) /\ Verdict(q) = p[n]
  BY VerdictWalk
<1> DEFINE N == {k \in 0..n : GoesOut(p[k], q, k)}
<1>2. n \in Nat
  OBVIOUS
<1>3. 0 \in N
  <2>1. /\ DOMAIN p[0] = {"out", "drops"} /\ p[0].out = <<>> /\ <<>> \in Seq({}) /\ DOMAIN <<>> = {}
    BY <1>1 DEF Judges, Nothing
  <2>2. GoesOut(p[0], q, 0)
    BY <2>1 DEF GoesOut, IsText
  <2> QED
    BY <1>2, <2>2
<1>4. ASSUME NEW k \in 0..n, k < n /\ k \in N PROVE k + 1 \in N
  <2>1. k \in Nat /\ k + 1 \in 1..n /\ k + 1 \in 0..n /\ k + 1 - 1 = k
    <3>1. k \in 0..n /\ k < n
      BY <1>4
    <3> QED
      BY <1>2, <3>1
  <2>2. p[k + 1] = PlacedNext(q, p[k], k + 1)
    BY <1>1, <2>1 DEF Judges
  <2>3. GoesOut(p[k], q, k)
    BY <1>4
  <2>4. GoesOut(p[k + 1], q, k + 1)
    BY <2>1, <2>2, <2>3, OneMorePlaced
  <2> QED
    BY <2>1, <2>4
<1>5. \A k \in 0..n : k \in N
  <2> HIDE DEF N, n
  <2> QED
    BY <1>2, <1>3, <1>4, InductionUpTo
<1>6. n \in 0..n
  BY <1>2
<1> QED
  BY <1>1, <1>5, <1>6

(***************************************************************************)
(* What the model is shown of a file.                                      *)
(***************************************************************************)
\* Each line of the new file is one of the change.
LEMMA NewFileIs ==
  ASSUME NEW c, IsChange(c)
  PROVE  /\ \E L : NewFile(c) \in Seq(L)
         /\ \A i \in DOMAIN NewFile(c) : \E k \in DOMAIN c.edits : NewFile(c)[i] = c.edits[k].words
<1> DEFINE n == Len(c.edits)
           S == {i \in DOMAIN c.edits : IsLineOf(c.edits[i], "+")}
           kept == Those(c.edits, S)
           E == {c.edits[i] : i \in 1..n}
           new == [i \in DOMAIN kept |-> kept[i].words]
           W == {e.words : e \in E}
<1>1. n \in Nat /\ DOMAIN c.edits = 1..n
  BY EditsType
<1>2. kept \in Seq(E)
  <2> HIDE DEF S, n
  <2> QED
    BY <1>1, ThoseAre
<1>3. NewFile(c) = new
  BY DEF NewFile, File
<1> HIDE DEF kept, E
<1>4. DOMAIN kept = 1..Len(kept) /\ Len(kept) \in Nat /\ \A i \in DOMAIN kept : kept[i] \in E
  BY <1>2
<1>5. new \in Seq(W)
  <2> DEFINE m == Len(kept)
  <2>1. new \in [1..m -> W] /\ m \in Nat
    BY <1>4
  <2> HIDE DEF new, m, W
  <2> QED
    BY <2>1
<1>6. \A i \in DOMAIN new : \E k \in DOMAIN c.edits : new[i] = c.edits[k].words
  BY <1>1, <1>4 DEF E
<1> QED
  BY <1>3, <1>5, <1>6

\* The file as it is shown: all of it, unless it is too long.
LEMMA ShownLines ==
  ASSUME NEW c, IsChange(c), MaxFileLines \in Nat
  PROVE  /\ \E L : Context(c).lines \in Seq(L)
         /\ Context(c).partial = (Len(NewFile(c)) > MaxFileLines)
         /\ ~(Len(NewFile(c)) > MaxFileLines) => Context(c).lines = NewFile(c)
         /\ Len(Context(c).lines) = Len(NewFile(c)) => ~(Len(NewFile(c)) > MaxFileLines)
         /\ Context(c).path = c.path
<1> DEFINE new == NewFile(c)
           n == Len(new)
           m == Min({n, MaxFileLines})
<1>1. PICK L : new \in Seq(L)
  BY NewFileIs
<1>2. n \in Nat
  BY <1>1
<1>3. /\ Context(c).lines = SubSeq(new, 1, m)
      /\ Context(c).partial = (Len(new) > MaxFileLines) /\ Context(c).path = c.path
  BY DEF Context, FileContext
<1> HIDE DEF new, n
<1>4. m = IF n <= MaxFileLines THEN n ELSE MaxFileLines
  <2> DEFINE I == {n, MaxFileLines}
  <2>1. I \in SUBSET Nat
    BY <1>2
  <2>2. CASE n <= MaxFileLines
    <3>1. n \in I /\ \A j \in I : n <= j
      BY <1>2, <2>2
    <3> HIDE DEF I
    <3>2. Min(I) = n
      BY <2>1, <3>1, SelectsFirst
    <3> QED
      BY <2>2, <3>2 DEF I
  <2>3. CASE ~(n <= MaxFileLines)
    <3>1. MaxFileLines \in I /\ \A j \in I : MaxFileLines <= j
      BY <1>2, <2>3
    <3> HIDE DEF I
    <3>2. Min(I) = MaxFileLines
      BY <2>1, <3>1, SelectsFirst
    <3> QED
      BY <2>3, <3>2 DEF I
  <2> QED
    BY <2>2, <2>3
<1> HIDE DEF m
<1>5. m \in Nat /\ m <= n /\ (m = n => ~(n > MaxFileLines)) /\ (~(n > MaxFileLines) => m = n)
  BY <1>2, <1>4
<1>6. SubSeq(new, 1, m) \in Seq(L) /\ Len(SubSeq(new, 1, m)) = m
  BY <1>1, <1>2, <1>5 DEF n
<1>7. n = Len(new) /\ SubSeq(new, 1, n) = new
  BY <1>1 DEF n
<1> QED
  BY <1>3, <1>5, <1>6, <1>7 DEF new

\* The diff of the file that is reviewed is that of the change, if there is one.
LEMMA DiffShown ==
  ASSUME NEW c, IsChange(c), NoHeaderLike(c)
  PROVE  IF Changed(c) = {} THEN FileDiff(c) = <<>> /\ Context(c).diff = None
         ELSE /\ FileDiff(c) = <<Context(c).diff>>
              /\ Hunks(Context(c).diff.hunks, c)
              /\ HunkLines(Context(c).diff) = Those(AllLines(c), Shown(c))
<1> DEFINE ds == Diffs(c)
           file == FileDiff(c)
<1>1. IF Changed(c) = {} THEN file = <<>>
      ELSE \E f : /\ file = <<f>>
                  /\ Hunks(f.hunks, c) /\ HunkLines(f) = Those(AllLines(c), Shown(c))
  BY FilePatchParsed DEF FileDiff
<1>2. Context(c).diff = IF c.path \in DOMAIN ds THEN ds[c.path] ELSE None
  BY DEF Context, FileContext
<1>3. ds = [p \in (DOMAIN Others \ {c.path}) \cup (IF file = <<>> THEN {} ELSE {c.path}) |->
              IF p = c.path THEN file[1] ELSE Others[p]]
  BY DEF Diffs
<1> HIDE DEF ds, file
<1>4. CASE Changed(c) = {}
  BY <1>1, <1>2, <1>3, <1>4 DEF file
<1>5. CASE Changed(c) # {}
  <2>1. PICK f : /\ file = <<f>>
                 /\ Hunks(f.hunks, c) /\ HunkLines(f) = Those(AllLines(c), Shown(c))
    BY <1>1, <1>5
  <2>2. file # <<>> /\ file[1] = f
    BY <2>1
  <2>3. Context(c).diff = f
    BY <1>2, <1>3, <2>2
  <2> QED
    BY <1>5, <2>1, <2>3 DEF file
<1> QED
  BY <1>4, <1>5

\* The lines a change adds, and those a comment may be put on, are those that
\* the parser finds (AddedLines, AnchorableLines).
LEMMA LinesFound ==
  ASSUME NEW c, IsChange(c), NEW f, HunkLines(f) = Those(AllLines(c), Shown(c)), NEW n
  PROVE  /\ n \in AddedLines(f) => \E i \in Changed(c) : c.edits[i].op = "+"
                                                         /\ LinesUpTo(c, i, "+") = n
         /\ \A i \in Changed(c) : c.edits[i].op = "+" /\ LinesUpTo(c, i, "+") = n
                                    => n \in AddedLines(f)
         /\ \A i \in Shown(c) : c.edits[i].op # "-" /\ LinesUpTo(c, i, "+") = n
                                    => n \in AnchorableLines(f)
         /\ n \in AnchorableLines(f) => \E i \in Shown(c) : c.edits[i].op # "-"
                                                           /\ LinesUpTo(c, i, "+") = n
<1> DEFINE m == Len(c.edits)
           A == AllLines(c)
           S == Shown(c)
           ls == HunkLines(f)
<1>1. m \in Nat /\ DOMAIN c.edits = 1..m /\ DOMAIN A = 1..m /\ S \subseteq 1..m
  BY EditsType DEF AllLines, Shown
<1>2. \A i \in 1..m : /\ A[i].kind = c.edits[i].op
                      /\ A[i].kind # "-" => A[i].newNo = LinesUpTo(c, i, "+")
  BY <1>1 DEF AllLines
<1>3. PICK at : Listing(A, S, ls, at)
  <2> HIDE DEF A, S, m
  <2>1. S \cap 1..m = S
    BY <1>1
  <2>2. ls = Those(A, S)
    BY DEF A, S
  <2>3. \E at : Listing(A, S \cap 1..m, Those(A, S), at)
    BY <1>1, ThoseAre
  <2> QED
    BY <2>1, <2>2, <2>3
<1>4. ls \in Seq({A[i] : i \in 1..m})
  <2> HIDE DEF A, S, m
  <2> QED
    BY <1>1, ThoseAre DEF A, S
<1> HIDE DEF ls
<1>5. DOMAIN ls = 1..Len(ls) /\ ToSet(ls) = {ls[k] : k \in 1..Len(ls)}
  BY <1>4 DEF ToSet
<1>6. \A i \in S : A[i] \in ToSet(ls)
  BY <1>3, <1>5 DEF Listing
<1>7. \A l \in ToSet(ls) : \E i \in S : l = A[i]
  BY <1>3, <1>5 DEF Listing
<1> HIDE DEF A, S, m
<1>8. ASSUME n \in AddedLines(f)
      PROVE  \E i \in Changed(c) : c.edits[i].op = "+" /\ LinesUpTo(c, i, "+") = n
  <2>1. PICK l \in ToSet(ls) : l.kind = "+" /\ l.newNo = n
    BY <1>8 DEF AddedLines, ls
  <2>2. PICK i \in S : l = A[i]
    BY <1>7, <2>1
  <2>3. c.edits[i].op = "+" /\ LinesUpTo(c, i, "+") = n /\ i \in DOMAIN c.edits
    BY <1>1, <1>2, <2>1, <2>2
  <2> QED
    BY <2>3 DEF Changed
<1>9. ASSUME NEW i \in S, c.edits[i].op # "-", LinesUpTo(c, i, "+") = n
      PROVE  /\ c.edits[i].op = "+" => n \in AddedLines(f)
             /\ n \in AnchorableLines(f)
  <2>1. A[i] \in ToSet(ls) /\ A[i].kind = c.edits[i].op /\ A[i].newNo = n
    BY <1>1, <1>2, <1>6, <1>9
  <2> QED
    BY <1>9, <2>1 DEF AddedLines, AnchorableLines, ls
<1>10. Changed(c) \subseteq S
  BY ChangedIsShown DEF S
<1>11. ASSUME n \in AnchorableLines(f)
       PROVE  \E i \in S : c.edits[i].op # "-" /\ LinesUpTo(c, i, "+") = n
  <2>1. PICK l \in ToSet(ls) : l.kind # "-" /\ l.newNo = n
    BY <1>11 DEF AnchorableLines, ls
  <2>2. PICK i \in S : l = A[i]
    BY <1>7, <2>1
  <2> QED
    BY <1>1, <1>2, <2>1, <2>2
<1> QED
  BY <1>8, <1>9, <1>10, <1>11 DEF S

\* A patch is parsed to the change (ParseFilePatch).
LEMMA PatchTold ==
  ASSUME NEW c, IsChange(c), NoHeaderLike(c),
         NEW patch, patch = Patch(c) \/ patch = Patch(c) \o <<EndOfText>>
  PROVE  PatchTells(c, patch)
<1> DEFINE files == ParseFilePatch(c.path, c.status, patch)
<1>1. CASE Changed(c) = {}
  <2>1. files = <<>>
    BY <1>1, FilePatchParsed
  <2> QED
    BY <1>1, <2>1 DEF PatchTells
<1>2. CASE Changed(c) # {}
  <2>1. PICK g : /\ files = <<g>> /\ g.path = c.path /\ g.status = c.status
                 /\ HunkLines(g) = Those(AllLines(c), Shown(c))
    BY <1>2, FilePatchParsed
  <2> DEFINE ls == HunkLines(g)
             A == AnchorableLines(g)
  <2>2. PatchTells(c, patch) <=>
          /\ Len(files) = 1 /\ files[1].path = c.path /\ files[1].status = c.status
          /\ \A l \in ToSet(HunkLines(files[1])) : AsInTheFiles(c, l)
          /\ Len(OfKind(HunkLines(files[1]), "+")) = HowMany(c, "+")
          /\ Len(OfKind(HunkLines(files[1]), "-")) = HowMany(c, "-")
          /\ AnchorableLines(files[1]) = OnShow(c)
    BY <1>2 DEF PatchTells
  <2> HIDE DEF files
  <2>3. Len(files) = 1 /\ files[1] = g
    BY <2>1
  <2>4. \A l \in ToSet(ls) : AsInTheFiles(c, l)
    <3> SUFFICES ASSUME NEW k \in DOMAIN ls PROVE AsInTheFiles(c, ls[k])
      BY DEF ToSet
    <3> QED
      BY <2>1, FoundNumbered DEF AsInTheFiles
  <2>5. Len(OfKind(ls, "+")) = HowMany(c, "+") /\ Len(OfKind(ls, "-")) = HowMany(c, "-")
    BY <2>1, KindCounted DEF HowMany
  <2>6. A = OnShow(c)
    <3>1. \A n : n \in A <=>
            \E i \in Shown(c) : c.edits[i].op # "-" /\ LinesUpTo(c, i, "+") = n
      BY <2>1, LinesFound
    <3>2. \A n : n \in OnShow(c) <=>
            \E i \in Shown(c) : c.edits[i].op # "-" /\ LinesUpTo(c, i, "+") = n
      BY DEF OnShow
    <3> HIDE DEF A
    <3> QED
      BY <3>1, <3>2
  <2> QED
    BY <2>1, <2>2, <2>3, <2>4, <2>5, <2>6
<1> QED
  BY <1>1, <1>2

\* DiffTellsTheChange: of every change, with any number of context lines, whose
\* content has no line that begins as a header does, the parser makes one file of
\* the text that git prints and a newline ends, with every changed line, each line
\* but the last, which is none of the files', numbered as in them, and the manifest
\* GitHub gives; and of GitHub's patch, whether or not a newline ends it, each shown
\* line under its numbers, and comments go on the lines that are shown
\* (ParseUnifiedDiff, ManifestFromDiff, ParseFilePatch, AnchorableLines).
THEOREM ParserTellsTheChange ==
  ASSUME \A c \in Changes : NoHeaderLike(c)
  PROVE  Spec => []DiffTellsTheChange
<1>1. AskedInv => DiffTellsTheChange
  <2>1. \A c \in Changes : IsChange(c)
    BY ChangesAssumption
  <2> SUFFICES ASSUME AskedInv, question.about = "change" PROVE DiffTellsTheChange
    BY DEF DiffTellsTheChange
  <2>2. IsChange(question.change) /\ NoHeaderLike(question.change)
    BY <2>1 DEF AskedInv
  <2>3. TellsTheChange(question.change)
    BY <2>2, ChangeTold
  <2>4. /\ PatchTells(question.change, Patch(question.change))
        /\ PatchTells(question.change, Patch(question.change) \o <<EndOfText>>)
    BY <2>2, PatchTold
  <2> QED
    BY <2>3, <2>4 DEF DiffTellsTheChange
<1> QED
  BY <1>1, AskedStays, PTL

(***************************************************************************)
(* What is asserted to be absent.                                          *)
(***************************************************************************)
\* What an absence claim is falsified by.
Falsifying(lines, c) == falsifyingOccurrence(lines, {}, absenceClaimSymbol(c), AbsenceShape[c.type])

\* The three types of absence claims.
LEMMA AbsenceTypes ==
  ASSUME NEW c, IsAbsenceClaim(c)
  PROVE  /\ c.type # "path_exists" /\ c.type # "symbol_exists"
         /\ \/ AbsenceShape[c.type] = "definition" \/ AbsenceShape[c.type] = "call"
            \/ AbsenceShape[c.type] = "occurrence"
BY DEF IsAbsenceClaim, AbsenceShape

\* Where names show in what lines do with them, what contradicts an absence claim
\* is found, and what is found contradicts it (falsifyingOccurrence).
LEMMA ContradictionIsFound ==
  ASSUME NEW c, IsAbsenceClaim(c), NEW lines, absenceClaimSymbol(c) \in Names
  PROVE  /\ (\A i \in DOMAIN lines : Shows(lines[i])) /\ Contradicted(lines, c)
              => Falsifying(lines, c)
         /\ (\A i \in DOMAIN lines : Does(lines[i])) /\ Falsifying(lines, c)
              => Contradicted(lines, c)
<1> DEFINE name == absenceClaimSymbol(c)
           shape == AbsenceShape[c.type]
<1>1. shape = "definition" \/ shape = "call" \/ shape = "occurrence"
  BY AbsenceTypes
<1>2. name \in Names
  OBVIOUS
<1>3. Contradicted(lines, c) <=> \E i \in DOMAIN lines : Contradicts(lines[i], shape, name)
  BY DEF Contradicted
<1>4. Falsifying(lines, c) <=> falsifyingOccurrence(lines, {}, name, shape)
  BY DEF Falsifying
<1> HIDE DEF name, shape
<1>5. DOMAIN lines \ {} = DOMAIN lines
  OBVIOUS
<1>6. CASE shape = "definition"
  <2>1. falsifyingOccurrence(lines, {}, name, shape) <=> \E i \in DOMAIN lines : Defines(lines[i], name)
    BY <1>6 DEF falsifyingOccurrence
  <2>2. \A i \in DOMAIN lines : Contradicts(lines[i], shape, name)
                                  <=> name \in Meaning(lines[i]).defines
    BY <1>6 DEF Contradicts
  <2> QED
    BY <1>2, <1>3, <1>4, <2>1, <2>2 DEF Shows, Does
<1>7. CASE shape = "call"
  <2>1. falsifyingOccurrence(lines, {}, name, shape) <=> \E i \in DOMAIN lines : Calls(lines[i], name)
    BY <1>5, <1>7 DEF falsifyingOccurrence
  <2>2. \A i \in DOMAIN lines : Contradicts(lines[i], shape, name)
                                  <=> name \in Meaning(lines[i]).calls
    BY <1>7 DEF Contradicts
  <2> QED
    BY <1>2, <1>3, <1>4, <2>1, <2>2 DEF Shows, Does
<1>8. CASE shape = "occurrence"
  <2>1. falsifyingOccurrence(lines, {}, name, shape) <=> \E i \in DOMAIN lines : Mentions(lines[i], name)
    BY <1>5, <1>8 DEF falsifyingOccurrence
  <2>2. \A i \in DOMAIN lines : Contradicts(lines[i], shape, name)
                                  <=> name \in Meaning(lines[i]).mentions
    BY <1>8 DEF Contradicts
  <2> QED
    BY <1>2, <1>3, <1>4, <2>1, <2>2 DEF Shows, Does
<1> QED
  BY <1>1, <1>6, <1>7, <1>8

\* What the check of a declared absence comes to (checkDeclaredAbsenceClaim).
LEMMA AbsenceChecked ==
  ASSUME NEW c, IsAbsenceClaim(c), NEW path, NEW lines, NEW partial,
         NEW came, came = checkDeclaredAbsenceClaim(c, path, lines, partial)
  PROVE  /\ came = "verified" \/ came = "falsified" \/ came = "note"
         /\ came = "verified" => Pertinent(c, path) /\ ~partial /\ ~Falsifying(lines, c)
         /\ came = "falsified" => Pertinent(c, path) /\ Falsifying(lines, c)
         /\ Pertinent(c, path) /\ ~Falsifying(lines, c) /\ ~partial => came = "verified"
<1>1. Pertinent(c, path) <=> Checkable(c, path)
  BY DEF Pertinent, Checkable, symbolSubject
<1>2. came = IF ~Checkable(c, path) THEN "note"
             ELSE IF Falsifying(lines, c) THEN "falsified"
             ELSE IF partial THEN "note" ELSE "verified"
  BY DEF checkDeclaredAbsenceClaim, Falsifying
<1> QED
  BY <1>1, <1>2

\* What the check of all of them comes to (checkAbsenceClaims).
LEMMA AbsencesChecked ==
  ASSUME NEW f, NEW path, NEW lines, NEW partial,
         NEW came, came = checkAbsenceClaims(f, path, lines, partial)
  PROVE  /\ came = "verified" =>
              \/ \E c \in ToSet(f.claims) : Pertinent(c, path)
              \/ ~AssertsAbsence(f)
         /\ came = "verified" => /\ checkProseAbsenceClaim(f, lines) # "falsified"
                                 /\ f.prose # None => ~partial
         /\ came = "falsified" /\ f.prose = None =>
              \E c \in ToSet(f.claims) :
                IsAbsenceClaim(c) /\ Pertinent(c, path) /\ Falsifying(lines, c)
         /\ /\ f.prose = None
            /\ AssertsAbsence(f) => \E c \in ToSet(f.claims) : IsAbsenceClaim(c)
            /\ \A c \in ToSet(f.claims) : IsAbsenceClaim(c) =>
                 checkDeclaredAbsenceClaim(c, path, lines, partial) = "verified"
            => came = "verified"
<1> DEFINE D == {checkDeclaredAbsenceClaim(c, path, lines, partial) : c \in declaredAbsenceClaims(f)}
           prose == checkProseAbsenceClaim(f, lines)
           K == declaredAbsenceClaims(f)
<1>1. came = IF "falsified" \in D \cup {prose} THEN "falsified"
             ELSE IF D # {} THEN IF "note" \in D THEN "note" ELSE "verified"
             ELSE IF declaresAbsence(f) THEN "note" ELSE prose
  BY DEF checkAbsenceClaims
<1>2. K = {c \in ToSet(f.claims) : IsAbsenceClaim(c)}
  BY DEF declaredAbsenceClaims
<1>3. (f.prose = None => prose = "verified")
      /\ (f.prose # None => prose = "falsified" \/ prose = "note")
  BY DEF checkProseAbsenceClaim
<1>4. \A d \in D : \E c \in K : d = checkDeclaredAbsenceClaim(c, path, lines, partial)
  OBVIOUS
<1>5. \A c \in K : checkDeclaredAbsenceClaim(c, path, lines, partial) \in D
  OBVIOUS
<1> HIDE DEF D, prose, K
<1>6. AssertsAbsence(f) <=> declaresAbsence(f) \/ f.prose # None
  BY DEF AssertsAbsence, declaresAbsence
<1>7. ASSUME came = "verified"
      PROVE  (\E c \in ToSet(f.claims) : Pertinent(c, path)) \/ ~AssertsAbsence(f)
  <2>1. CASE D # {}
    <3>1. PICK d \in D : d # "note" /\ d # "falsified"
      BY <1>1, <1>7, <2>1
    <3>2. PICK c \in K : d = checkDeclaredAbsenceClaim(c, path, lines, partial)
      BY <1>4, <3>1
    <3>3. c \in ToSet(f.claims) /\ IsAbsenceClaim(c)
      BY <1>2, <3>2
    <3>4. Pertinent(c, path)
      BY <3>1, <3>2, <3>3, AbsenceChecked
    <3> QED
      BY <3>3, <3>4
  <2>2. CASE D = {}
    BY <1>1, <1>3, <1>6, <1>7, <2>2
  <2> QED
    BY <2>1, <2>2
<1>10. ASSUME came = "verified"
       PROVE  prose # "falsified" /\ (f.prose # None => ~partial)
  <2>1. prose # "falsified"
    BY <1>1, <1>10
  <2>2. ASSUME f.prose # None PROVE ~partial
    <3>1. PICK d \in D : d # "note" /\ d # "falsified"
      BY <1>1, <1>3, <1>10, <2>2
    <3>2. PICK c \in K : d = checkDeclaredAbsenceClaim(c, path, lines, partial)
      BY <1>4, <3>1
    <3>3. c \in ToSet(f.claims) /\ IsAbsenceClaim(c)
      BY <1>2, <3>2
    <3> QED
      BY <3>1, <3>2, <3>3, AbsenceChecked
  <2> QED
    BY <2>1, <2>2
<1>8. ASSUME came = "falsified", f.prose = None
      PROVE  \E c \in ToSet(f.claims) :
               IsAbsenceClaim(c) /\ Pertinent(c, path) /\ Falsifying(lines, c)
  <2>1. "falsified" \in D
    BY <1>1, <1>3, <1>8
  <2>2. PICK c \in K : "falsified" = checkDeclaredAbsenceClaim(c, path, lines, partial)
    BY <1>4, <2>1
  <2>3. c \in ToSet(f.claims) /\ IsAbsenceClaim(c)
    BY <1>2, <2>2
  <2> QED
    BY <2>2, <2>3, AbsenceChecked
<1>9. ASSUME f.prose = None,
             AssertsAbsence(f) => \E c \in ToSet(f.claims) : IsAbsenceClaim(c),
             \A c \in ToSet(f.claims) : IsAbsenceClaim(c) =>
                 checkDeclaredAbsenceClaim(c, path, lines, partial) = "verified"
      PROVE  came = "verified"
  <2>1. \A d \in D : d = "verified"
    BY <1>2, <1>4, <1>9
  <2>2. CASE K # {}
    BY <1>1, <1>3, <1>5, <1>9, <2>1, <2>2
  <2>3. CASE K = {}
    BY <1>1, <1>2, <1>3, <1>4, <1>6, <1>9, <2>3
  <2> QED
    BY <2>2, <2>3
<1> QED
  BY <1>7, <1>8, <1>9, <1>10 DEF prose

\* Prose that some line contradicts is found out (checkProseAbsenceClaim).
LEMMA ProseIsFound ==
  ASSUME NEW f, f.prose # None, f.prose.names \subseteq Names,
         f.prose.shape \in {"definition", "call", "occurrence"},
         NEW lines, \A i \in DOMAIN lines : Shows(lines[i]), ProseIsContradicted(f, lines)
  PROVE  checkProseAbsenceClaim(f, lines) = "falsified"
<1> DEFINE shape == f.prose.shape
           excluded == IF shape = "occurrence" THEN Cited(f) ELSE {}
<1>1. PICK name \in f.prose.names, i \in DOMAIN lines :
        /\ shape = "occurrence" => i \notin Cited(f)
        /\ Contradicts(lines[i], shape, name)
  BY DEF ProseIsContradicted
<1>2. name \in Names /\ Shows(lines[i])
  OBVIOUS
<1>3. shape = "definition" \/ shape = "call" \/ shape = "occurrence"
  OBVIOUS
<1>4. i \in DOMAIN lines \ excluded
  BY <1>1
<1>5. checkProseAbsenceClaim(f, lines) =
        IF \E x \in f.prose.names : falsifyingOccurrence(lines, excluded, x, shape)
        THEN "falsified" ELSE "note"
  BY DEF checkProseAbsenceClaim
<1> HIDE DEF shape, excluded
<1>6. falsifyingOccurrence(lines, excluded, name, shape)
  <2>1. CASE shape = "definition"
    <3>1. Defines(lines[i], name)
      BY <1>1, <1>2, <2>1 DEF Contradicts, Shows
    <3> QED
      BY <2>1, <3>1 DEF falsifyingOccurrence
  <2>2. CASE shape = "call"
    <3>1. Calls(lines[i], name)
      BY <1>1, <1>2, <2>2 DEF Contradicts, Shows
    <3> QED
      BY <1>4, <2>2, <3>1 DEF falsifyingOccurrence
  <2>3. CASE shape = "occurrence"
    <3>1. Mentions(lines[i], name)
      BY <1>1, <1>2, <2>3 DEF Contradicts, Shows
    <3> QED
      BY <1>4, <2>3, <3>1 DEF falsifyingOccurrence
  <2> QED
    BY <1>3, <2>1, <2>2, <2>3
<1> QED
  BY <1>5, <1>6

(***************************************************************************)
(* Blocking.                                                               *)
(***************************************************************************)
\* What becomes of a claim (Disposition).
LEMMA ClaimDisposed ==
  ASSUME NEW c, NEW path
  PROVE  /\ Disposition(c) = "verified" => Sayable(c, path) /\ TrueAtHead(c) /\ ~IsAbsenceClaim(c)
         /\ Disposition(c) = "declared" => IsAbsenceClaim(c)
         /\ Sayable(c, path) /\ TrueAtHead(c) =>
              \/ Disposition(c) = "verified" /\ ~IsAbsenceClaim(c)
              \/ Disposition(c) = "declared" /\ Pertinent(c, path)
<1>0. IsAbsenceClaim(c) => c.type # "path_exists" /\ c.type # "symbol_exists"
  BY AbsenceTypes
<1>1. CASE c.type = "path_exists"
  <2>1. Disposition(c) = IF c.subject \in HeadPaths THEN "verified" ELSE "false"
    BY <1>0, <1>1 DEF Disposition
  <2> QED
    BY <1>0, <1>1, <2>1 DEF Sayable, TrueAtHead, Pertinent
<1>2. CASE c.type = "symbol_exists"
  <2>1. Disposition(c) = IF ~symbolSubject(c.subject) THEN "note"
                         ELSE IF c.subject \in HeadSymbols THEN "verified" ELSE "false"
    BY <1>0, <1>2 DEF Disposition
  <2> QED
    BY <1>0, <1>2, <2>1 DEF Sayable, TrueAtHead, Pertinent, symbolSubject
<1>3. CASE IsAbsenceClaim(c)
  <2>1. Disposition(c) = IF symbolSubject(absenceClaimSymbol(c)) THEN "declared" ELSE "note"
    BY <1>0, <1>3 DEF Disposition
  <2> QED
    BY <1>0, <1>3, <2>1 DEF Sayable, Pertinent, symbolSubject
<1>4. CASE c.type # "path_exists" /\ c.type # "symbol_exists" /\ ~IsAbsenceClaim(c)
  <2>1. Disposition(c) = "note"
    BY <1>4 DEF Disposition
  <2> QED
    BY <1>4, <2>1 DEF Sayable, Pertinent
<1> QED
  BY <1>1, <1>2, <1>3, <1>4

\* An anchor with an added line is one with a line that the change adds, and
\* the other way around where there is a diff.
LEMMA AnchorAdds ==
  ASSUME NEW c, IsChange(c), NoHeaderLike(c), NEW f
  PROVE  /\ anchorHasAddedLine(Context(c), f) =>
              \E i \in Changed(c) : c.edits[i].op = "+" /\ LinesUpTo(c, i, "+") \in Anchor(f)
         /\ Context(c).diff # None
              /\ (\E i \in Changed(c) : c.edits[i].op = "+" /\ LinesUpTo(c, i, "+") \in Anchor(f))
              => anchorHasAddedLine(Context(c), f)
<1> DEFINE d == Context(c).diff
<1>1. d # None => HunkLines(d) = Those(AllLines(c), Shown(c))
  BY DiffShown
<1>2. added(Context(c)) = IF d = None THEN {} ELSE AddedLines(d)
  BY DEF added
<1> HIDE DEF d
<1>3. ASSUME anchorHasAddedLine(Context(c), f)
      PROVE  \E i \in Changed(c) : c.edits[i].op = "+" /\ LinesUpTo(c, i, "+") \in Anchor(f)
  <2>1. PICK n \in Anchor(f) : n \in added(Context(c))
    BY <1>3 DEF anchorHasAddedLine
  <2>2. d # None /\ n \in AddedLines(d)
    BY <1>2, <2>1
  <2>3. PICK i \in Changed(c) : c.edits[i].op = "+" /\ LinesUpTo(c, i, "+") = n
    BY <1>1, <2>2, LinesFound
  <2> QED
    BY <2>1, <2>3
<1>4. ASSUME d # None, NEW i \in Changed(c), c.edits[i].op = "+", LinesUpTo(c, i, "+") \in Anchor(f)
      PROVE  anchorHasAddedLine(Context(c), f)
  <2> DEFINE n == LinesUpTo(c, i, "+")
  <2>1. n \in AddedLines(d)
    BY <1>1, <1>4, LinesFound
  <2> QED
    BY <1>2, <1>4, <2>1 DEF anchorHasAddedLine
<1> QED
  BY <1>3, <1>4 DEF d

\* With the verifier on, what blocks was supported.
LEMMA ResultIsSupported ==
  ASSUME NEW q, NEW i, Verifies, q.findings[i].category \in MayBlock, q.answers[i].verdict # ""
  PROVE  ResultOf(q, i) \in {"", "supported"} => q.answers[i].verdict = "supported"
<1> DEFINE v == q.answers[i].verdict
           fc == Context(q.change)
<1>1. q.findings[i].category # "convention"
  BY DEF MayBlock
<1>2. ResultOf(q, i) = Verify(fc, Related, q.answers[i])
  BY <1>1 DEF ResultOf, VerifierResult
<1>3. Verify(fc, Related, q.answers[i]) = "needs-context" \/ Verify(fc, Related, q.answers[i]) = v
  BY DEF Verify
<1> QED
  BY <1>2, <1>3

\* What blocks was shown (BlockingCandidate), once its quotes are found.
LEMMA BlockIsProved ==
  ASSUME NEW q, NEW c, q.change = c, IsChange(c), NoHeaderLike(c), MaxFileLines \in Nat, Verifies,
         \A k \in DOMAIN c.edits : Shows(c.edits[k].words),
         NEW i, q.answers[i].verdict # "", BlocksAs(q, i),
         \A k \in DOMAIN q.findings[i].evidence : Quoted(NewFile(c), q.findings[i].evidence[k].quote),
         q.findings[i].prose # None =>
           /\ q.findings[i].prose.names \subseteq Names
           /\ q.findings[i].prose.shape \in {"definition", "call", "occurrence"}
  PROVE  Proved(q.findings[i], c) /\ q.answers[i].verdict = "supported"
<1> DEFINE f == q.findings[i]
           fc == Context(c)
           lines == fc.lines
           new == NewFile(c)
<1>1. BlockingCandidate(fc, f) /\ ResultOf(q, i) \in {"", "supported"}
  BY DEF BlocksAs
<1>2. /\ f.category \in MayBlock \cap BlockingSet /\ anchorHasAddedLine(fc, f)
      /\ f.confidence = "certain" /\ ClaimsVerified(fc, f)
      /\ checkAbsenceClaims(f, fc.path, lines, fc.partial) = "verified"
  BY <1>1 DEF BlockingCandidate, BlocksOnEvidence
<1>3. q.answers[i].verdict = "supported"
  BY <1>1, <1>2, ResultIsSupported
<1>4. /\ fc.path = c.path
      /\ ~fc.partial => lines = new
  BY ShownLines
<1>5. \A k \in DOMAIN new : Shows(new[k])
  BY NewFileIs
<1>11. /\ \A k \in DOMAIN f.evidence : Quoted(new, f.evidence[k].quote)
       /\ f.prose # None => /\ f.prose.names \subseteq Names
                            /\ f.prose.shape \in {"definition", "call", "occurrence"}
  OBVIOUS
<1> HIDE DEF fc, lines, new, f
<1>6. \E k \in Changed(c) : c.edits[k].op = "+" /\ LinesUpTo(c, k, "+") \in Anchor(f)
  BY <1>2, AnchorAdds DEF fc
<1>7. ASSUME NEW x \in ToSet(f.claims)
      PROVE  /\ Sayable(x, c.path) /\ TrueAtHead(x)
             /\ Pertinent(x, c.path) => ~Contradicted(new, x)
  <2>1. CASE Disposition(x) = "verified"
    <3>1. Sayable(x, c.path) /\ TrueAtHead(x) /\ ~IsAbsenceClaim(x)
      BY <2>1, ClaimDisposed
    <3> QED
      BY <3>1 DEF Pertinent
  <2>2. CASE Disposition(x) # "verified"
    <3>1. /\ Disposition(x) = "declared"
          /\ checkDeclaredAbsenceClaim(x, fc.path, lines, fc.partial) = "verified"
      BY <1>2, <2>2 DEF ClaimsVerified, lines
    <3>2. IsAbsenceClaim(x)
      BY <3>1, ClaimDisposed
    <3>3. Pertinent(x, c.path) /\ ~fc.partial /\ ~Falsifying(lines, x)
      BY <1>4, <3>1, <3>2, AbsenceChecked
    <3>4. ~Falsifying(new, x)
      BY <1>4, <3>3
    <3>5. ~Contradicted(new, x)
      BY <1>5, <3>2, <3>3, <3>4, ContradictionIsFound DEF Pertinent
    <3>6. Sayable(x, c.path) /\ TrueAtHead(x)
      BY <3>2, <3>3, AbsenceTypes DEF Sayable, TrueAtHead
    <3> QED
      BY <3>5, <3>6
  <2> QED
    BY <2>1, <2>2
<1>8. AssertsAbsence(f) => \E x \in ToSet(f.claims) : Pertinent(x, c.path)
  BY <1>2, <1>4, AbsencesChecked
<1>10. ASSUME f.prose # None PROVE ~ProseIsContradicted(f, new)
  <2>1. checkProseAbsenceClaim(f, lines) # "falsified" /\ lines = new
    BY <1>2, <1>4, <1>10, AbsencesChecked
  <2>2. f.prose.names \subseteq Names /\ f.prose.shape \in {"definition", "call", "occurrence"}
    BY <1>10, <1>11
  <2> QED
    BY <1>5, <1>10, <2>1, <2>2, ProseIsFound
<1>9. Proved(f, c)
  BY <1>2, <1>6, <1>7, <1>8, <1>10, <1>11 DEF Proved, new
<1> QED
  BY <1>3, <1>9 DEF f

\* A quote that is on the line it names is matched exactly (matchCascade).
LEMMA ExactMatch ==
  ASSUME NEW e, NEW lines, NEW L, lines \in Seq(L), NEW n,
         Len(e.quote) \in Nat, MinQuote \in Nat,
         Len(e.quote) >= MinQuote, hasContentToken(e.quote),
         e.line \in DOMAIN lines, Includes(lines[e.line], e.quote)
  PROVE  matchCascade(e, lines, n) = "exact"
<1>1. e.line \in matchSites(lines, e.quote) /\ ~(e.line <= 0)
  BY DEF matchSites
<1> DEFINE sites == matchSites(lines, e.quote)
<1> HIDE DEF sites
<1>2. Rung(lines, e.quote, e.line) = "match"
  BY <1>1 DEF Rung, sites
<1>3. \A b, d : Level("match", b, d) = "exact"
  BY DEF Level
<1>4. ~(Len(e.quote) < MinQuote \/ ~hasContentToken(e.quote))
  OBVIOUS
<1> DEFINE segs == splitElision(e.quote)
           b == normalizedRung(lines, norm(n, e.quote), e.line, n)
           d == Len(segs) >= 2 /\ matchElided(segs, lines, n)
<1>5. matchCascade(e, lines, n) = Level(Rung(lines, e.quote, e.line), b, d)
  <2> HIDE DEF segs
  <2> QED
    BY <1>4 DEF matchCascade, segs
<1> HIDE DEF b, d
<1> QED
  BY <1>2, <1>3, <1>5

\* When every quote is matched exactly, none is bad.
LEMMA NoneIsBad ==
  ASSUME NEW fc, NEW f, NEW L, f.evidence \in Seq(L),
         \A i \in DOMAIN f.evidence :
           matchCascade(f.evidence[i], fc.lines, newNormalizer(fc.lines)) = "exact"
  PROVE  SelectInSeq(EvidenceLevels(fc, f), LAMBDA v : v \in {"failed", "ambiguous"}) = 0
<1> DEFINE levels == EvidenceLevels(fc, f)
           I == {i \in 1..Len(levels) : levels[i] \in {"failed", "ambiguous"}}
<1>1. levels = [i \in DOMAIN f.evidence |->
                  matchCascade(f.evidence[i], fc.lines, newNormalizer(fc.lines))]
  BY DEF EvidenceLevels
<1>2. levels = [i \in 1..Len(f.evidence) |-> "exact"]
  BY <1>1
<1>3. Len(levels) = Len(f.evidence) /\ \A i \in 1..Len(levels) : levels[i] = "exact"
  <2> DEFINE m == Len(f.evidence)
  <2>1. m \in Nat /\ levels = [i \in 1..m |-> "exact"]
    BY <1>2
  <2> HIDE DEF levels, m
  <2>2. levels \in Seq({"exact"}) /\ Len(levels) = m
    BY <2>1
  <2> QED
    BY <2>1, <2>2 DEF m
<1> HIDE DEF levels
<1>4. I = {}
  BY <1>3
<1>5. SelectInSeq(levels, LAMBDA v : v \in {"failed", "ambiguous"}) = IF I # {} THEN Min(I) ELSE 0
  BY DEF SelectInSeq
<1> QED
  BY <1>4, <1>5 DEF levels

\* Nothing speaks against a finding that is shown, plainly (DropReason).
LEMMA NothingAgainst ==
  ASSUME NEW fc, NEW f, NEW i \in Nat, MaxFindings \in Nat, i <= MaxFindings, NEW levels, NEW refuted,
         f.category \notin NitCategories, f.absent => ~fc.partial /\ f.missing,
         AnchorInFile(fc, f), PostedAt(fc, f) # None,
         SelectInSeq(levels, LAMBDA v : v \in {"failed", "ambiguous"}) = 0,
         \A c \in ToSet(f.claims) : Disposition(c) # "false",
         checkAbsenceClaims(f, fc.path, fc.lines, fc.partial) # "falsified",
         ~selfNegation(f), ~refuted
  PROVE  DropReason(fc, f, i, levels, refuted) = ""
<1> DEFINE bad == SelectInSeq(levels, LAMBDA v : v \in {"failed", "ambiguous"})
           wrong == \E c \in ToSet(f.claims) : Disposition(c) = "false"
<1>1. bad = 0 /\ ~wrong /\ ~(i > MaxFindings)
  OBVIOUS
<1>2. DropReason(fc, f, i, levels, refuted) =
       IF i > MaxFindings THEN "parse_failure"
     ELSE IF ~Nits /\ f.category \in NitCategories THEN "suppressed"
     ELSE IF f.absent /\ fc.partial THEN "absence_on_partial"
     ELSE IF f.absent /\ ~f.missing THEN "parse_failure"
     ELSE IF ~AnchorInFile(fc, f) THEN "anchor_out_of_range"
     ELSE IF PostedAt(fc, f) = None THEN "anchor_invalid"
     ELSE IF bad # 0 THEN IF levels[bad] = "ambiguous" THEN "ambiguous_quote" ELSE "evidence_mismatch"
     ELSE IF wrong THEN "claim_unverified"
     ELSE IF checkAbsenceClaims(f, fc.path, fc.lines, fc.partial) = "falsified"
          THEN "negative_claim_falsified"
     ELSE IF selfNegation(f) THEN "self_negating"
     ELSE IF refuted THEN "verifier_unsupported"
     ELSE ""
  BY DEF DropReason
<1> HIDE DEF bad, wrong
<1> QED
  BY <1>1, <1>2

\* What is shown, plainly, is not dropped, and blocks.
LEMMA ProvedIsBlock ==
  ASSUME NEW q, NEW c, q.change = c, IsChange(c), NoHeaderLike(c),
         MaxFileLines \in Nat, MaxFindings \in Nat, MinQuote \in Nat,
         \A k \in DOMAIN c.edits : Does(c.edits[k].words),
         NEW i \in Nat, i <= MaxFindings, q.answers[i].verdict = "supported",
         NEW f, f = q.findings[i],
         f.anchor[1] \in Int, f.anchor[2] \in Int, NEW E, f.evidence \in Seq(E),
         \A k \in DOMAIN f.evidence : Len(f.evidence[k].quote) \in Nat,
         None # Context(c).diff, None # Post(c.path, "RIGHT", f.anchor[2]),
         Proved(f, c), Plain(f, c)
  PROVE  ReasonOf(q, i) = "" /\ BlocksAs(q, i)
<1> DEFINE fc == Context(c)
           lines == fc.lines
           new == NewFile(c)
<1>1. /\ f.category \in MayBlock /\ f.category \in BlockingSet /\ f.confidence = "certain"
      /\ \E k \in Changed(c) : c.edits[k].op = "+" /\ LinesUpTo(c, k, "+") \in Anchor(f)
      /\ \A x \in ToSet(f.claims) :
           /\ Sayable(x, c.path) /\ TrueAtHead(x)
           /\ Pertinent(x, c.path) => ~Contradicted(new, x)
      /\ AssertsAbsence(f) => \E x \in ToSet(f.claims) : Pertinent(x, c.path)
  BY DEF Proved
<1>2. /\ f.impact = "harm" /\ f.title = "breaks" /\ f.prose = None
      /\ f.absent => f.missing
      /\ Anchor(f) # {} /\ Anchor(f) \subseteq DOMAIN lines
      /\ \A n \in Anchor(f) : InTheDiff(c, Post(c.path, "RIGHT", n))
      /\ \A k \in DOMAIN f.evidence :
           LET e == f.evidence[k]
           IN /\ Len(e.quote) >= MinQuote /\ hasContentToken(e.quote)
              /\ e.line \in DOMAIN lines /\ Includes(lines[e.line], e.quote)
      /\ Len(new) = Len(lines)
  BY DEF Plain
<1>3. PICK L : lines \in Seq(L)
  BY ShownLines
<1>4. fc.path = c.path /\ ~fc.partial /\ lines = new
  BY <1>2, ShownLines
<1>5. \A k \in DOMAIN new : Does(new[k])
  BY NewFileIs
<1> HIDE DEF new
<1>6. ASSUME NEW x \in ToSet(f.claims)
      PROVE  /\ Disposition(x) # "false"
             /\ \/ Disposition(x) = "verified" /\ ~IsAbsenceClaim(x)
                \/ /\ Disposition(x) = "declared" /\ IsAbsenceClaim(x) /\ Pertinent(x, c.path)
                   /\ checkDeclaredAbsenceClaim(x, fc.path, lines, fc.partial) = "verified"
  <2>1. \/ Disposition(x) = "verified" /\ ~IsAbsenceClaim(x)
        \/ Disposition(x) = "declared" /\ Pertinent(x, c.path)
    BY <1>1, ClaimDisposed
  <2>2. CASE Disposition(x) = "declared" /\ Pertinent(x, c.path)
    <3>1. IsAbsenceClaim(x) /\ absenceClaimSymbol(x) \in Names
      BY <2>2 DEF Pertinent
    <3>2. ~Contradicted(new, x)
      BY <1>1, <2>2
    <3>3. ~Falsifying(new, x)
      BY <1>5, <3>1, <3>2, ContradictionIsFound
    <3> HIDE DEF fc
    <3>4. checkDeclaredAbsenceClaim(x, fc.path, lines, fc.partial) = "verified"
      BY <1>4, <2>2, <3>1, <3>3, AbsenceChecked
    <3> QED
      BY <2>2, <3>1, <3>4
  <2> QED
    BY <2>1, <2>2
<1>7. checkAbsenceClaims(f, fc.path, lines, fc.partial) = "verified"
  <2>1. AssertsAbsence(f) => \E x \in ToSet(f.claims) : IsAbsenceClaim(x)
    BY <1>1 DEF Pertinent
  <2> HIDE DEF fc, lines
  <2> QED
    BY <1>2, <1>6, <2>1, AbsencesChecked
<1>8. ClaimsVerified(fc, f)
  <2> HIDE DEF fc
  <2> QED
    BY <1>6 DEF ClaimsVerified, lines
<1>9. anchorHasAddedLine(fc, f)
  BY <1>1, AnchorAdds
<1>10. BlockingCandidate(fc, f)
  <2> HIDE DEF fc
  <2> QED
    BY <1>1, <1>7, <1>8, <1>9 DEF BlockingCandidate, BlocksOnEvidence, lines
<1>11. ResultOf(q, i) = "" \/ ResultOf(q, i) = "supported"
  BY DEF ResultOf, VerifierResult, Verify
<1>12. BlocksAs(q, i)
  BY <1>10, <1>11 DEF BlocksAs
<1>13. AnchorInFile(fc, f)
  <2>1. f.anchor[1] \in Anchor(f) /\ f.anchor[2] \in Anchor(f) /\ f.anchor[1] <= f.anchor[2]
    BY <1>2 DEF Anchor
  <2>2. f.anchor[1] \in 1..Len(lines) /\ f.anchor[2] \in 1..Len(lines) /\ Len(lines) \in Nat
    BY <1>2, <1>3, <2>1
  <2> HIDE DEF fc
  <2> QED
    BY <2>1, <2>2 DEF AnchorInFile, lines
<1>14. PostedAt(fc, f) # None
  <2>1. Anchor(f) \subseteq AnchorableLines(fc.diff)
    <3> SUFFICES ASSUME NEW n \in Anchor(f) PROVE n \in AnchorableLines(fc.diff)
      OBVIOUS
    <3> DEFINE at == Post(c.path, "RIGHT", n)
    <3>1. at.path = c.path /\ at.side = "RIGHT" /\ at.line = n
      BY DEF Post
    <3>2. InTheDiff(c, at)
      BY <1>2
    <3> HIDE DEF at
    <3>3. PICK k \in Shown(c) : c.edits[k].op # "-" /\ LinesUpTo(c, k, "+") = n
      BY <3>1, <3>2 DEF InTheDiff
    <3>4. HunkLines(fc.diff) = Those(AllLines(c), Shown(c))
      BY DiffShown
    <3> HIDE DEF fc
    <3> QED
      BY <3>3, <3>4, LinesFound
  <2>2. anchorable(fc) = AnchorableLines(fc.diff)
    BY DEF anchorable
  <2>3. PostedAt(fc, f) = Post(fc.path, "RIGHT", f.anchor[2])
    <3> HIDE DEF fc
    <3> QED
      BY <2>1, <2>2 DEF PostedAt, anchorsInHunks
  <2> QED
    BY <1>4, <2>3
<1>15. SelectInSeq(EvidenceLevels(fc, f), LAMBDA v : v \in {"failed", "ambiguous"}) = 0
  <2> DEFINE norm0 == newNormalizer(lines)
  <2>1. ASSUME NEW k \in DOMAIN f.evidence PROVE matchCascade(f.evidence[k], lines, norm0) = "exact"
    <3> HIDE DEF fc, lines, norm0
    <3> QED
      BY <1>2, <1>3, ExactMatch
  <2> HIDE DEF fc
  <2> QED
    BY <2>1, NoneIsBad DEF lines
<1>16. f.category \notin NitCategories
  BY <1>1 DEF MayBlock, NitCategories
<1>17. ~selfNegation(f)
  BY <1>2 DEF selfNegation
<1>18. ReasonOf(q, i) = ""
  <2> DEFINE levels == EvidenceLevels(fc, f)
             refuted == ResultOf(q, i) = "unsupported"
  <2>1. ~refuted
    BY <1>11
  <2>2. ReasonOf(q, i) = DropReason(fc, f, i, levels, refuted)
    BY DEF ReasonOf
  <2>3. f.absent => ~fc.partial /\ f.missing
    BY <1>2, <1>4
  <2>4. SelectInSeq(levels, LAMBDA v : v \in {"failed", "ambiguous"}) = 0
    BY <1>15
  <2>5. checkAbsenceClaims(f, fc.path, fc.lines, fc.partial) # "falsified"
    BY <1>7
  <2> HIDE DEF fc, levels, refuted
  <2> QED
    BY <1>6, <1>13, <1>14, <1>16, <1>17, <2>1, <2>2, <2>3, <2>4, <2>5, NothingAgainst
<1> QED
  BY <1>12, <1>18

\* ProvedBlocks: of the findings of a review of any change whose lines do what they
\* show and do not begin as a header does, one that is shown, plainly, is neither
\* dropped nor made a note when the verifier supports it (validateFindings).
THEOREM ProvedIsBlocked ==
  ASSUME \A r \in Reviews : /\ NoHeaderLike(r.change)
                            /\ \A k \in DOMAIN r.change.edits : Does(r.change.edits[k].words)
  PROVE  Spec => []ProvedBlocks
<1>1. AskedInv => ProvedBlocks
  <2> SUFFICES ASSUME AskedInv, question.about = "review",
                      NEW i \in DOMAIN question.findings,
                      i <= MaxFindings, question.answers[i].verdict = "supported",
                      Proved(question.findings[i], question.change),
                      Plain(question.findings[i], question.change)
               PROVE  \E v \in ToSet(Verdict(question).out) : v.of = i /\ v.blocks
    BY DEF ProvedBlocks
  <2>1. PICK r \in Reviews :
         /\ question.change = r.change
         /\ question.findings \in Seq({r.finding}) /\ question.answers \in Seq({r.answer})
         /\ Len(question.findings) = Len(question.answers) /\ Len(question.findings) # 0
    BY DEF AskedInv
  <2> DEFINE out == Verdict(question).out
             n == Len(question.findings)
             f == r.finding
             c == r.change
  <2>2. GoesOut(Verdict(question), question, n)
    BY <2>1, VerdictIs
  <2>3. i \in 1..n /\ i \in Nat /\ question.findings[i] = f
    BY <2>1
  <2>4. MaxFileLines \in Nat /\ MaxFindings \in Nat /\ MinQuote \in Nat
    BY ReviewsAssumption
  <2>5. /\ f.anchor[1] \in Int /\ f.anchor[2] \in Int
        /\ f.evidence \in Seq(ToSet(f.evidence))
        /\ \A k \in DOMAIN f.evidence : f.evidence[k].quote \in Seq(ToSet(f.evidence[k].quote))
        /\ None # Post(c.path, "RIGHT", f.anchor[2])
    BY ReviewsAssumption
  <2>6. IsChange(c) /\ NoHeaderLike(c) /\ \A k \in DOMAIN c.edits : Does(c.edits[k].words)
    BY ChangesAssumption
  <2>8. \A k \in DOMAIN f.evidence : Len(f.evidence[k].quote) \in Nat
    <3> TAKE k \in DOMAIN f.evidence
    <3>1. f.evidence[k].quote \in Seq(ToSet(f.evidence[k].quote))
      BY <2>5
    <3> QED
      BY <3>1
  <2>9. question.change = c /\ Proved(f, c) /\ Plain(f, c)
    BY <2>1, <2>3
  <2>7. None # Context(c).diff
    <3> DEFINE d == Context(c).diff
    <3>1. Changed(c) # {}
      BY <2>9 DEF Proved
    <3>2. FileDiff(c) = <<d>>
      BY <2>6, <3>1, DiffShown
    <3>3. None \notin ToSet(FileDiff(c))
      BY ReviewsAssumption
    <3> HIDE DEF d, c
    <3>4. None # d
      BY <3>2, <3>3 DEF ToSet
    <3> QED
      BY <3>4 DEF d
  <2> HIDE DEF f, c
  <2>10. ReasonOf(question, i) = "" /\ BlocksAs(question, i)
    BY <2>3, <2>4, <2>5, <2>6, <2>7, <2>8, <2>9, ProvedIsBlock
  <2> HIDE DEF out, n
  <2>11. PICK j \in DOMAIN out : out[j].of = i
    BY <2>2, <2>3, <2>10 DEF GoesOut, out
  <2>12. PICK m \in 1..n : IsMadeOf(out[j], question, m)
    BY <2>2 DEF GoesOut, out
  <2>13. m = i /\ out[j].blocks
    BY <2>10, <2>11, <2>12 DEF IsMadeOf
  <2>14. out[j] \in ToSet(out)
    BY DEF ToSet
  <2> QED
    BY <2>11, <2>13, <2>14 DEF out
<1> QED
  BY <1>1, AskedStays, PTL

(***************************************************************************)
(* What is visible of a line.                                              *)
(***************************************************************************)
\* A sequence is what is in it up to a place, and what comes after.
LEMMA SplitAt ==
  ASSUME NEW L, NEW s \in Seq(L), NEW m \in Nat, m <= Len(s)
  PROVE  /\ SubSeq(s, 1, m) \in Seq(L) /\ SubSeq(s, m + 1, Len(s)) \in Seq(L)
         /\ s = SubSeq(s, 1, m) \o SubSeq(s, m + 1, Len(s))
<1> DEFINE n == Len(s)
<1>1. n \in Nat /\ 1 \in 1..(n + 1) /\ m \in (1 - 1)..n /\ n \in m..n
  <2>1. n \in Nat
    OBVIOUS
  <2> QED
    BY <2>1
<1>2. SubSeq(s, 1, m) \o SubSeq(s, m + 1, n) = SubSeq(s, 1, n)
  BY <1>1, ConcatAdjacentSubSeq
<1>3. SubSeq(s, 1, n) = s
  BY SubSeqFull
<1>4. SubSeq(s, 1, m) \in Seq(L) /\ SubSeq(s, m + 1, n) \in Seq(L)
  BY <1>1
<1> QED
  BY <1>2, <1>3, <1>4

\* Nothing is printed of it.
Unseen(w) == w \in White \cup {"zw"}

\* The visible words, word by word.
LEMMA VisibleAppend ==
  ASSUME NEW L, NEW s \in Seq(L), NEW w
  PROVE  /\ Visible(<<>>) = <<>> /\ Visible(s) \in Seq(L)
         /\ Unseen(w) => Visible(Append(s, w)) = Visible(s)
         /\ ~Unseen(w) => Visible(Append(s, w)) = Append(Visible(s), w)
<1> DEFINE P == White \cup {"zw"}
           t == Append(s, w)
<1>1. \A x : Visible(x) = Without(x, P)
  BY DEF Visible, Without
<1>2. Unseen(w) <=> w \in P
  BY DEF Unseen
<1> HIDE DEF P
<1>3. /\ Without(<<>>, P) = <<>> /\ Without(s, P) \in Seq(L)
      /\ w \in P => Without(t, P) = Without(s, P)
      /\ w \notin P => Without(t, P) = Append(Without(s, P), w)
  BY WithoutAppend
<1>4. Visible(<<>>) = Without(<<>>, P) /\ Visible(s) = Without(s, P) /\ Visible(t) = Without(t, P)
  BY <1>1
<1> HIDE DEF t
<1>5. /\ Visible(<<>>) = <<>> /\ Visible(s) \in Seq(L)
      /\ Unseen(w) => Visible(t) = Visible(s)
      /\ ~Unseen(w) => Visible(t) = Append(Visible(s), w)
  BY <1>2, <1>3, <1>4
<1> QED
  BY <1>5 DEF t

\* Of two texts together, what is visible of each.
LEMMA VisibleConcat ==
  ASSUME NEW L, NEW a \in Seq(L), NEW b \in Seq(L)
  PROVE  Visible(a \o b) = Visible(a) \o Visible(b)
<1> DEFINE G == {s \in Seq(L) : Visible(a \o s) = Visible(a) \o Visible(s)}
<1>1. <<>> \in G
  <2>1. Visible(<<>>) = <<>> /\ Visible(a) \in Seq(L)
    BY VisibleAppend
  <2>2. a \o <<>> = a /\ Visible(a) \o <<>> = Visible(a)
    BY <2>1
  <2> QED
    BY <2>1, <2>2
<1>2. ASSUME NEW s \in Seq(L), NEW w \in L, s \in G PROVE Append(s, w) \in G
  <2>1. Append(s, w) \in Seq(L) /\ a \o Append(s, w) = Append(a \o s, w) /\ a \o s \in Seq(L)
    OBVIOUS
  <2>2. Visible(a \o s) = Visible(a) \o Visible(s)
    BY <1>2
  <2>3. Visible(a) \in Seq(L) /\ Visible(s) \in Seq(L)
    BY VisibleAppend
  <2>4. Visible(a) \o Append(Visible(s), w) = Append(Visible(a) \o Visible(s), w)
    BY <2>3
  <2>5. CASE Unseen(w)
    <3>1. Visible(Append(a \o s, w)) = Visible(a \o s) /\ Visible(Append(s, w)) = Visible(s)
      BY <2>1, <2>5, VisibleAppend
    <3> QED
      BY <2>1, <2>2, <3>1
  <2>6. CASE ~Unseen(w)
    <3>1. /\ Visible(Append(a \o s, w)) = Append(Visible(a \o s), w)
          /\ Visible(Append(s, w)) = Append(Visible(s), w)
      BY <2>1, <2>6, VisibleAppend
    <3> QED
      BY <2>1, <2>2, <2>4, <3>1
  <2> QED
    BY <2>5, <2>6
<1> HIDE DEF G
<1>3. b \in G
  BY <1>1, <1>2, AppendInduction
<1> QED
  BY <1>3 DEF G

\* Where every word is unseen, nothing is visible.
LEMMA NothingVisible ==
  ASSUME NEW L, NEW s \in Seq(L), \A i \in 1..Len(s) : Unseen(s[i])
  PROVE  Visible(s) = <<>>
<1> DEFINE G == {x \in Seq(L) : (\A i \in 1..Len(x) : Unseen(x[i])) => Visible(x) = <<>>}
<1>1. <<>> \in G
  <2>1. Visible(<<>>) = <<>>
    BY VisibleAppend
  <2> QED
    BY <2>1
<1>2. ASSUME NEW x \in Seq(L), NEW w \in L, x \in G PROVE Append(x, w) \in G
  <2> DEFINE t == Append(x, w)
  <2>1. t \in Seq(L)
    OBVIOUS
  <2>2. ASSUME \A i \in 1..Len(t) : Unseen(t[i]) PROVE Visible(t) = <<>>
    <3>1. /\ Len(x) + 1 \in 1..Len(t) /\ t[Len(x) + 1] = w
          /\ \A i \in 1..Len(x) : i \in 1..Len(t) /\ t[i] = x[i]
      OBVIOUS
    <3>2. Unseen(w) /\ \A i \in 1..Len(x) : Unseen(x[i])
      BY <2>2, <3>1
    <3>3. Visible(x) = <<>>
      BY <1>2, <3>2
    <3> QED
      BY <3>2, <3>3, VisibleAppend
  <2> QED
    BY <2>1, <2>2
<1> HIDE DEF G
<1>3. s \in G
  BY <1>1, <1>2, AppendInduction
<1> QED
  BY <1>3 DEF G

\* What is in a line, visible or not, is in what is visible of it.
LEMMA IncludesVisible ==
  ASSUME NEW L, NEW line \in Seq(L), NEW quote \in Seq(L), Includes(line, quote)
  PROVE  Includes(Visible(line), Visible(quote))
<1>1. PICK i \in 0..(Len(line) - Len(quote)) : SubSeq(line, i + 1, i + Len(quote)) = quote
  BY DEF Includes
<1> DEFINE a == SubSeq(line, 1, i)
           b == SubSeq(line, i + Len(quote) + 1, Len(line))
<1>2. i \in Nat /\ i + Len(quote) <= Len(line) /\ Len(line) \in Nat /\ Len(quote) \in Nat
  <2>1. Len(line) \in Nat /\ Len(quote) \in Nat
    OBVIOUS
  <2> QED
    BY <2>1
<1>3. a \in Seq(L) /\ b \in Seq(L)
  BY <1>2
<1>4. line = (a \o quote) \o b
  <2>1. a \o quote = SubSeq(line, 1, i + Len(quote))
    BY <1>1, <1>2
  <2> DEFINE m == i + Len(quote)
  <2>2. m \in Nat /\ m <= Len(line) /\ a \o quote = SubSeq(line, 1, m)
        /\ b = SubSeq(line, m + 1, Len(line))
    BY <1>2, <2>1
  <2> HIDE DEF m, a, b
  <2>3. line = SubSeq(line, 1, m) \o SubSeq(line, m + 1, Len(line))
    BY <1>2, <2>2, SplitAt
  <2> QED
    BY <2>2, <2>3
<1> HIDE DEF a, b
<1>5. Visible(line) = (Visible(a) \o Visible(quote)) \o Visible(b)
  <2> DEFINE ab == a \o quote
  <2>1. ab \in Seq(L)
    BY <1>3
  <2>2. Visible(ab) = Visible(a) \o Visible(quote)
    BY <1>3, VisibleConcat
  <2>3. line = ab \o b
    BY <1>4
  <2> HIDE DEF ab
  <2>4. Visible(ab \o b) = Visible(ab) \o Visible(b)
    BY <1>3, <2>1, VisibleConcat
  <2> QED
    BY <2>2, <2>3, <2>4
<1> DEFINE va == Visible(a)
           vb == Visible(b)
           vq == Visible(quote)
           vl == Visible(line)
<1>6. va \in Seq(L) /\ vb \in Seq(L) /\ vq \in Seq(L)
  BY <1>3, VisibleAppend
<1>7. vl = (va \o vq) \o vb
  BY <1>5
<1> HIDE DEF va, vb, vq, vl
<1>8. Len(va) \in 0..(Len(vl) - Len(vq)) /\ SubSeq(vl, Len(va) + 1, Len(va) + Len(vq)) = vq
  BY <1>6, <1>7
<1>9. Includes(vl, vq)
  BY <1>8 DEF Includes
<1> QED
  BY <1>9 DEF vl, vq

(***************************************************************************)
(* The normaliser takes nothing away that is visible.                      *)
(***************************************************************************)
Blank == " "

\* One word more of a line whose tabs are spread out.
Widened(n, acc, w) ==
  IF w = "tab" THEN acc \o [i \in 1..(n.tabWidth - (Len(acc) % n.tabWidth)) |-> Blank]
  ELSE Append(acc, w)

\* The walk along the words of a line.
Expands(p, n, s) ==
  /\ p[0] = <<>>
  /\ \A k \in 1..Len(s) : p[k] = Widened(n, p[k - 1], s[k])

Widens(n) == n.tabWidth \in Nat \ {0}
IsNormalizer(n) == Widens(n) /\ n.dedent \in Nat

\* A line with a word more is one of words.
LEMMA WidenedType ==
  ASSUME NEW L, Blank \in L, NEW n, Widens(n), NEW acc \in Seq(L), NEW w \in L
  PROVE  /\ Widened(n, acc, w) \in Seq(L)
         /\ Visible(Widened(n, acc, w)) = Visible(Append(acc, w))
<1> DEFINE m == n.tabWidth - (Len(acc) % n.tabWidth)
           fill == [i \in 1..m |-> Blank]
<1>1. CASE w = "tab"
  <2>1. m \in Nat
    <3>1. n.tabWidth \in Nat \ {0} /\ Len(acc) \in Nat
      BY DEF Widens
    <3> QED
      BY <3>1
  <2>2. fill \in Seq(L) /\ Len(fill) = m /\ \A i \in 1..m : fill[i] = Blank
    <3> HIDE DEF m
    <3> QED
      BY <2>1
  <2>3. Unseen(Blank) /\ Unseen(w)
    BY <1>1 DEF Unseen, White, Blank
  <2> HIDE DEF fill, m
  <2>4. Visible(fill) = <<>>
    <3>1. \A i \in 1..Len(fill) : Unseen(fill[i])
      BY <2>2, <2>3
    <3> QED
      BY <2>2, <3>1, NothingVisible
  <2>5. Widened(n, acc, w) = acc \o fill
    BY <1>1 DEF Widened, fill, m
  <2>6. Visible(acc \o fill) = Visible(acc) \o Visible(fill) /\ acc \o fill \in Seq(L)
    BY <2>2, VisibleConcat
  <2>7. Visible(acc) \in Seq(L) /\ Visible(Append(acc, w)) = Visible(acc)
    BY <2>3, VisibleAppend
  <2>8. Visible(acc) \o <<>> = Visible(acc)
    BY <2>7
  <2> QED
    BY <2>4, <2>5, <2>6, <2>7, <2>8
<1>2. CASE w # "tab"
  BY <1>2 DEF Widened
<1> QED
  BY <1>1, <1>2

\* The last of the indices up to one.
LEMMA IndicesUpTo ==
  ASSUME NEW n \in Nat, NEW k \in 1..n
  PROVE  /\ 1..k \in SUBSET (1..n) /\ 1..k # {} /\ Max(1..k) = k
         /\ (1..k) \ {Max(1..k)} = 1..(k - 1)
<1>1. k \in 1..k /\ (1..k) \ {k} = 1..(k - 1)
  OBVIOUS
<1>2. 1..k \in SUBSET (1..n)
  <2>1. \A t \in 1..k : t \in 1..n
    OBVIOUS
  <2> QED
    BY <2>1
<1>3. Max(1..k) \in 1..k /\ \A t \in 1..k : t <= Max(1..k)
  BY <1>1, <1>2, LargestIndex
<1>4. Max(1..k) = k
  BY <1>1, <1>3
<1> QED
  BY <1>1, <1>2, <1>4

\* The fold that expand is has such a walk, and ends where it does.
LEMMA ExpandWalk ==
  ASSUME NEW L, Blank \in L, NEW n, Widens(n), NEW s \in Seq(L)
  PROVE  \E p : /\ Expands(p, n, s) /\ expand(n, s) = p[Len(s)]
                /\ \A k \in 0..Len(s) : p[k] \in Seq(L)
<1> DEFINE m == Len(s)
           C == Seq(L)
           Op(acc, i) == Widened(n, acc, s[i])
           h == [e \in (1..m) \X C |-> Op(e[2], e[1])]
           W(it) == [T \in SUBSET (1..m) |-> IF T = {} THEN <<>> ELSE Op(it[T \ {Max(T)}], Max(T))]
           it == CHOOSE it : it = W(it)
<1>1. m \in Nat /\ DOMAIN s = 1..m /\ \A i \in 1..m : s[i] \in L
  OBVIOUS
<1>2. expand(n, s) = it[1..m]
  <2>1. expand(n, s) = (CHOOSE jt : jt = [T \in SUBSET DOMAIN s |->
            IF T = {} THEN <<>> ELSE Widened(n, jt[T \ {Max(T)}], s[Max(T)])])[DOMAIN s]
    BY DEF expand, FoldLeft, MapThenFoldSet, Widened, Blank
  <2> QED
    BY <1>1, <2>1
<1>3. ASSUME NEW acc \in C, NEW i \in 1..m PROVE Op(acc, i) \in C
  BY <1>1, WidenedType
<1>4. <<>> \in C
  OBVIOUS
<1> HIDE DEF Op, C, m
<1>5. PICK g \in [SUBSET (1..m) -> C] : \A T \in SUBSET (1..m) :
        g[T] = IF T = {} THEN <<>> ELSE h[<<Max(T), g[T \ {Max(T)}]>>]
  <2>1. h \in [(1..m) \X C -> C]
    BY <1>3
  <2> HIDE DEF h
  <2>2. Walks(m, C, <<>>, h) # {}
    BY <1>1, <1>4, <2>1, WalkExists
  <2> QED
    BY <2>2 DEF Walks
<1>6. g = W(g)
  <2>1. ASSUME NEW T \in SUBSET (1..m), T # {}
        PROVE  g[T] = Op(g[T \ {Max(T)}], Max(T))
    <3>1. Max(T) \in 1..m /\ g[T \ {Max(T)}] \in C
      BY <1>1, <2>1, LargestIndex
    <3>2. h[<<Max(T), g[T \ {Max(T)}]>>] = Op(g[T \ {Max(T)}], Max(T))
      BY <3>1
    <3> QED
      BY <1>5, <2>1, <3>2
  <2> HIDE DEF h
  <2> QED
    BY <1>5, <2>1
<1>7. it = W(it)
  <2> HIDE DEF W
  <2> QED
    BY <1>6
<1> HIDE DEF it
<1> DEFINE p == [k \in 0..m |-> it[1..k]]
<1>8. p[0] = <<>>
  <2>1. 1..0 = {} /\ {} \in SUBSET (1..m)
    OBVIOUS
  <2>2. it[{}] = <<>>
    BY <1>7, <2>1
  <2> QED
    BY <1>1, <2>1, <2>2
<1>9. ASSUME NEW k \in 1..m PROVE p[k] = Op(p[k - 1], k)
  <2>1. /\ 1..k \in SUBSET (1..m) /\ 1..k # {} /\ Max(1..k) = k
        /\ (1..k) \ {Max(1..k)} = 1..(k - 1)
    BY <1>1, IndicesUpTo
  <2>2. it[1..k] = Op(it[(1..k) \ {Max(1..k)}], Max(1..k))
    BY <1>7, <2>1
  <2>3. k \in 0..m /\ k - 1 \in 0..m
    BY <1>1
  <2> QED
    BY <2>1, <2>2, <2>3
<1>10. p[m] = it[1..m]
  BY <1>1
<1> HIDE DEF p
<1>11. Expands(p, n, s)
  BY <1>8, <1>9 DEF Expands, Op, m
<1>12. \A k \in 0..m : p[k] \in C
  <2> DEFINE N == {k \in 0..m : p[k] \in C}
  <2>1. 0 \in N
    BY <1>1, <1>4, <1>8
  <2>2. ASSUME NEW k \in 0..m, k < m /\ k \in N PROVE k + 1 \in N
    <3>1. k \in 0..m /\ k < m /\ p[k] \in C
      BY <2>2
    <3>2. k + 1 \in 1..m /\ (k + 1) - 1 = k /\ k + 1 \in 0..m
      BY <1>1, <3>1
    <3>3. p[k + 1] = Op(p[(k + 1) - 1], k + 1)
      BY <1>9, <3>2
    <3> QED
      BY <1>3, <3>1, <3>2, <3>3
  <2> HIDE DEF N
  <2>3. \A k \in 0..m : k \in N
    BY <1>1, <2>1, <2>2, InductionUpTo
  <2> QED
    BY <2>3 DEF N
<1> QED
  BY <1>2, <1>10, <1>11, <1>12 DEF C, m

\* And is as visible as the line.
LEMMA ExpandKeeps ==
  ASSUME NEW L, Blank \in L, NEW n, Widens(n), NEW s \in Seq(L)
  PROVE  expand(n, s) \in Seq(L) /\ Visible(expand(n, s)) = Visible(s)
<1> DEFINE m == Len(s)
<1>1. m \in Nat /\ \A i \in 1..m : s[i] \in L
  OBVIOUS
<1>2. PICK p : /\ Expands(p, n, s) /\ expand(n, s) = p[m]
               /\ \A k \in 0..m : p[k] \in Seq(L)
  BY ExpandWalk
<1> DEFINE Up(k) == SubSeq(s, 1, k)
           N == {k \in 0..m : Visible(p[k]) = Visible(Up(k))}
<1>3. 0 \in N
  <2>1. Up(0) = <<>>
    OBVIOUS
  <2>2. p[0] = <<>> /\ 0 \in 0..m
    BY <1>1, <1>2 DEF Expands
  <2> HIDE DEF Up, m
  <2>3. Visible(p[0]) = Visible(Up(0))
    BY <2>1, <2>2
  <2> QED
    BY <2>2, <2>3
<1>4. ASSUME NEW k \in 0..m, k < m /\ k \in N PROVE k + 1 \in N
  <2>1. k \in 0..m /\ k < m /\ Visible(p[k]) = Visible(Up(k))
    BY <1>4
  <2> HIDE DEF N, m
  <2>2. k + 1 \in 1..m /\ (k + 1) - 1 = k /\ k + 1 \in 0..m /\ k \in Nat
    BY <1>1, <2>1
  <2> DEFINE w == s[k + 1]
             q == p[k]
             u == Up(k)
  <2>3. w \in L /\ q \in Seq(L) /\ u \in Seq(L) /\ Up(k + 1) = Append(u, w)
    <3>1. u \in Seq(L) /\ Up(k + 1) = Append(u, w)
      BY <1>1, <2>2 DEF m
    <3> QED
      BY <1>1, <1>2, <2>2, <3>1
  <2>4. p[k + 1] = Widened(n, q, w)
    <3>1. p[k + 1] = Widened(n, p[(k + 1) - 1], s[k + 1])
      BY <1>2, <2>2 DEF Expands, m
    <3> QED
      BY <2>2, <3>1
  <2> HIDE DEF w, q, u, Up
  <2>5. Visible(Widened(n, q, w)) = Visible(Append(q, w))
    BY <2>3, WidenedType
  <2>6. Visible(Append(q, w)) = Visible(Append(u, w))
    <3>1. Visible(q) = Visible(u)
      BY <2>1 DEF q, u
    <3>2. /\ Unseen(w) => Visible(Append(q, w)) = Visible(q)
          /\ ~Unseen(w) => Visible(Append(q, w)) = Append(Visible(q), w)
      BY <2>3, VisibleAppend
    <3>3. /\ Unseen(w) => Visible(Append(u, w)) = Visible(u)
          /\ ~Unseen(w) => Visible(Append(u, w)) = Append(Visible(u), w)
      BY <2>3, VisibleAppend
    <3> QED
      BY <3>1, <3>2, <3>3
  <2> QED
    BY <2>2, <2>3, <2>4, <2>5, <2>6 DEF N
<1>5. m \in N
  <2>1. \A k \in 0..m : k \in N
    <3> HIDE DEF N, m
    <3> QED
      BY <1>1, <1>3, <1>4, InductionUpTo
  <2> QED
    BY <1>1, <2>1
<1>6. SubSeq(s, 1, m) = s /\ m \in 0..m
  BY <1>1
<1> QED
  BY <1>2, <1>5, <1>6

\* Words that do not show.
AllUnseen(P) == \A w \in P : Unseen(w)

\* A line without some words that do not show.
LEMMA WithoutKeeps ==
  ASSUME NEW L, NEW s \in Seq(L), NEW P, AllUnseen(P)
  PROVE  Without(s, P) \in Seq(L) /\ Visible(Without(s, P)) = Visible(s)
<1> DEFINE G == {x \in Seq(L) : Visible(Without(x, P)) = Visible(x)}
<1>0. ASSUME NEW x \in Seq(L), NEW w
      PROVE  /\ Without(<<>>, P) = <<>> /\ Without(x, P) \in Seq(L)
             /\ w \in P => Without(Append(x, w), P) = Without(x, P)
             /\ w \notin P => Without(Append(x, w), P) = Append(Without(x, P), w)
  <2> HIDE DEF G
  <2> QED
    BY WithoutAppend
<1>1. <<>> \in G
  <2>1. Without(<<>>, P) = <<>>
    <3>1. <<>> \in Seq(L)
      OBVIOUS
    <3> QED
      BY <3>1, WithoutAppend
  <2> QED
    BY <2>1
<1>2. ASSUME NEW x \in Seq(L), NEW w \in L, x \in G PROVE Append(x, w) \in G
  <2> DEFINE t == Append(x, w)
             y == Without(x, P)
  <2>1. t \in Seq(L) /\ Visible(y) = Visible(x)
    BY <1>2
  <2> HIDE DEF G
  <2>2. /\ Unseen(w) => Visible(t) = Visible(x)
        /\ ~Unseen(w) => Visible(t) = Append(Visible(x), w)
    BY VisibleAppend
  <2>3. y \in Seq(L)
    BY WithoutAppend
  <2>4. /\ w \in P => Without(t, P) = y
        /\ w \notin P => Without(t, P) = Append(y, w)
    <3>1. /\ w \in P => Without(Append(x, w), P) = Without(x, P)
          /\ w \notin P => Without(Append(x, w), P) = Append(Without(x, P), w)
      BY <1>0
    <3> QED
      BY <3>1
  <2> HIDE DEF t, y
  <2>5. /\ Unseen(w) => Visible(Append(y, w)) = Visible(y)
        /\ ~Unseen(w) => Visible(Append(y, w)) = Append(Visible(y), w)
    BY <2>3, VisibleAppend
  <2>6. Visible(Without(t, P)) = Visible(t)
    <3>1. CASE w \in P
      BY <2>1, <2>2, <2>4, <3>1 DEF AllUnseen
    <3>2. CASE w \notin P
      BY <2>1, <2>2, <2>4, <2>5, <3>2
    <3> QED
      BY <3>1, <3>2
  <2> QED
    BY <2>1, <2>6 DEF t, G
<1> HIDE DEF G
<1>3. s \in G
  BY <1>1, <1>2, AppendInduction
<1>4. Without(s, P) \in Seq(L)
  BY WithoutAppend
<1> QED
  BY <1>3, <1>4 DEF G

\* A line with every word that is in P another one that does not show either.
Swapped(s, P, b) == [i \in DOMAIN s |-> IF s[i] \in P THEN b ELSE s[i]]

LEMMA SwappedKeeps ==
  ASSUME NEW L, NEW s \in Seq(L), NEW b \in L, Unseen(b), NEW P, AllUnseen(P)
  PROVE  Swapped(s, P, b) \in Seq(L) /\ Visible(Swapped(s, P, b)) = Visible(s)
<1> DEFINE G == {x \in Seq(L) : /\ Swapped(x, P, b) \in Seq(L)
                                /\ Visible(Swapped(x, P, b)) = Visible(x)}
<1>1. <<>> \in G
  <2>1. Swapped(<<>>, P, b) = <<>>
    BY DEF Swapped
  <2>2. <<>> \in Seq(L)
    OBVIOUS
  <2> DEFINE z == Swapped(<<>>, P, b)
  <2>3. z \in Seq(L) /\ Visible(z) = Visible(<<>>)
    <3> HIDE DEF z
    <3> QED
      BY <2>1, <2>2 DEF z
  <2> QED
    BY <2>2, <2>3
<1>2. ASSUME NEW x \in Seq(L), NEW w \in L, x \in G PROVE Append(x, w) \in G
  <2> DEFINE t == Append(x, w)
             y == Swapped(x, P, b)
             v == IF w \in P THEN b ELSE w
  <2>1. t \in Seq(L) /\ y \in Seq(L) /\ Visible(y) = Visible(x) /\ v \in L
    <3>1. y \in Seq(L) /\ Visible(y) = Visible(x)
      BY <1>2
    <3> QED
      BY <3>1
  <2> HIDE DEF G
  <2>2. Swapped(t, P, b) = Append(y, v)
    <3> DEFINE n == Len(x)
               z == Swapped(t, P, b)
    <3>1. /\ n \in Nat /\ DOMAIN t = 1..(n + 1) /\ DOMAIN x = 1..n
          /\ t[n + 1] = w /\ \A i \in 1..n : t[i] = x[i] /\ x[i] \in L
      OBVIOUS
    <3>2. /\ DOMAIN z = 1..(n + 1) /\ DOMAIN y = 1..n
          /\ \A i \in 1..(n + 1) : z[i] = IF t[i] \in P THEN b ELSE t[i]
          /\ \A i \in 1..n : y[i] = IF x[i] \in P THEN b ELSE x[i]
      <4> HIDE DEF n, t, v
      <4> QED
        BY <3>1 DEF Swapped
    <3>3. z = [i \in 1..(n + 1) |-> IF t[i] \in P THEN b ELSE t[i]]
      <4> HIDE DEF n, t, v, y
      <4> QED
        BY <3>1 DEF Swapped
    <3> HIDE DEF n, t, y, z
    <3>4. z \in Seq(L) /\ Len(z) = n + 1
      <4> DEFINE F(i) == IF t[i] \in P THEN b ELSE t[i]
      <4>1. \A i \in 1..(n + 1) : F(i) \in L
        BY <2>1, <3>1
      <4> HIDE DEF F
      <4> QED
        <5>1. z = [i \in 1..(n + 1) |-> F(i)]
          BY <3>3 DEF F
        <5> QED
          BY <3>1, <4>1, <5>1
    <3>5. Append(y, v) \in Seq(L) /\ Len(Append(y, v)) = n + 1
          /\ Append(y, v)[n + 1] = v /\ \A i \in 1..n : Append(y, v)[i] = y[i]
      <4>1. Len(y) = n
        BY <2>1, <3>1, <3>2
      <4> HIDE DEF v
      <4> QED
        BY <2>1, <4>1
    <3>6. \A i \in 1..(n + 1) : z[i] = Append(y, v)[i]
      <4> TAKE i \in 1..(n + 1)
      <4>1. CASE i = n + 1
        BY <3>1, <3>2, <3>5, <4>1
      <4>2. CASE i # n + 1
        <5>1. i \in 1..n
          BY <3>1, <4>2
        <5> QED
          BY <3>1, <3>2, <3>5, <5>1
      <4> QED
        BY <4>1, <4>2
    <3> QED
      <4> DEFINE a == Append(y, v)
      <4> HIDE DEF a
      <4>1. z = a
        BY <3>4, <3>5, <3>6 DEF a
      <4> QED
        BY <4>1 DEF a, z
  <2> HIDE DEF t, y, v
  <2>3. /\ Unseen(w) => Visible(t) = Visible(x)
        /\ ~Unseen(w) => Visible(t) = Append(Visible(x), w)
    BY VisibleAppend DEF t
  <2>4. /\ Unseen(v) => Visible(Append(y, v)) = Visible(y)
        /\ ~Unseen(v) => Visible(Append(y, v)) = Append(Visible(y), v)
    BY <2>1, VisibleAppend
  <2>5. (Unseen(v) /\ Unseen(w)) \/ v = w
    BY DEF v, AllUnseen
  <2>6. Visible(Append(y, v)) = Visible(t)
    BY <2>1, <2>3, <2>4, <2>5
  <2>7. Append(y, v) \in Seq(L)
    BY <2>1
  <2> QED
    BY <2>1, <2>2, <2>6, <2>7 DEF t, G
<1> HIDE DEF G
<1>3. s \in G
  BY <1>1, <1>2, AppendInduction
<1> QED
  BY <1>3 DEF G

\* A line up to a place after which nothing shows.
LEMMA CutRightKeeps ==
  ASSUME NEW L, NEW s \in Seq(L), NEW m \in Nat, m <= Len(s),
         \A i \in (m + 1)..Len(s) : Unseen(s[i])
  PROVE  SubSeq(s, 1, m) \in Seq(L) /\ Visible(SubSeq(s, 1, m)) = Visible(s)
<1> DEFINE a == SubSeq(s, 1, m)
           b == SubSeq(s, m + 1, Len(s))
<1>1. a \in Seq(L) /\ b \in Seq(L) /\ s = a \o b
  BY SplitAt
<1>2. \A i \in 1..Len(b) : Unseen(b[i])
  <2>1. Len(s) \in Nat
    OBVIOUS
  <2>2. Len(b) = Len(s) - m /\ \A i \in 1..(Len(s) - m) : b[i] = s[m + i]
    BY <2>1
  <2> HIDE DEF b
  <2>3. \A i \in 1..(Len(s) - m) : m + i \in (m + 1)..Len(s)
    BY <2>1
  <2> QED
    BY <2>2, <2>3
<1> HIDE DEF a, b
<1>3. Visible(b) = <<>>
  BY <1>1, <1>2, NothingVisible
<1>4. Visible(s) = Visible(a) \o Visible(b) /\ Visible(a) \in Seq(L)
  <2>1. Visible(a \o b) = Visible(a) \o Visible(b)
    BY <1>1, VisibleConcat
  <2> QED
    BY <1>1, <2>1, VisibleAppend
<1>5. Visible(a) \o <<>> = Visible(a)
  BY <1>4
<1>6. a \in Seq(L) /\ Visible(a) = Visible(s)
  BY <1>1, <1>3, <1>4, <1>5
<1> QED
  BY <1>6 DEF a

\* Or from a place before which nothing does.
LEMMA CutLeftKeeps ==
  ASSUME NEW L, NEW s \in Seq(L), NEW m \in Nat, m <= Len(s), \A i \in 1..m : Unseen(s[i])
  PROVE  SubSeq(s, m + 1, Len(s)) \in Seq(L) /\ Visible(SubSeq(s, m + 1, Len(s))) = Visible(s)
<1> DEFINE a == SubSeq(s, 1, m)
           b == SubSeq(s, m + 1, Len(s))
<1>1. a \in Seq(L) /\ b \in Seq(L) /\ s = a \o b
  BY SplitAt
<1>2. \A i \in 1..Len(a) : Unseen(a[i])
  <2>1. Len(s) \in Nat
    OBVIOUS
  <2>2. Len(a) = m /\ \A i \in 1..m : a[i] = s[i]
    BY <2>1
  <2> HIDE DEF a
  <2> QED
    BY <2>2
<1> HIDE DEF a, b
<1>3. Visible(a) = <<>>
  BY <1>1, <1>2, NothingVisible
<1>4. Visible(s) = Visible(a) \o Visible(b) /\ Visible(b) \in Seq(L)
  <2>1. Visible(a \o b) = Visible(a) \o Visible(b)
    BY <1>1, VisibleConcat
  <2> QED
    BY <1>1, <2>1, VisibleAppend
<1>5. <<>> \o Visible(b) = Visible(b)
  BY <1>4
<1>6. b \in Seq(L) /\ Visible(b) = Visible(s)
  BY <1>1, <1>3, <1>4, <1>5
<1> QED
  BY <1>6 DEF b

\* What trimming leaves ends before blanks only.
LEMMA TrimRightKeeps ==
  ASSUME NEW L, NEW s \in Seq(L)
  PROVE  TrimRight(s) \in Seq(L) /\ Visible(TrimRight(s)) = Visible(s)
<1> DEFINE n == Len(s)
           I == {i \in 1..n : s[i] # Blank}
           m == IF I # {} THEN Max(I) ELSE 0
<1>1. TrimRight(s) = SubSeq(s, 1, m)
  BY DEF TrimRight, SelectLastInSeq, Blank
<1>2. n \in Nat
  OBVIOUS
<1>3. m \in Nat /\ m <= n /\ \A i \in (m + 1)..n : i \in 1..n /\ i \notin I
  <2> HIDE DEF n
  <2>1. CASE I = {}
    BY <1>2, <2>1
  <2>2. CASE I # {}
    <3>1. I \in SUBSET (1..n)
      OBVIOUS
    <3> HIDE DEF I
    <3>2. Max(I) \in I /\ \A i \in I : i <= Max(I)
      BY <1>2, <2>2, <3>1, LargestIndex
    <3>3. m = Max(I) /\ m \in 1..n
      BY <2>2, <3>1, <3>2
    <3> HIDE DEF m
    <3>4. \A i \in I : i <= m
      BY <3>2, <3>3
    <3> QED
      BY <1>2, <3>3, <3>4
  <2> QED
    BY <2>1, <2>2
<1>4. \A i \in (m + 1)..n : Unseen(s[i])
  <2> HIDE DEF m
  <2>1. Unseen(Blank)
    BY DEF Unseen, White, Blank
  <2> HIDE DEF n
  <2> QED
    BY <1>3, <2>1
<1> HIDE DEF m
<1>5. SubSeq(s, 1, m) \in Seq(L) /\ Visible(SubSeq(s, 1, m)) = Visible(s)
  BY <1>3, <1>4, CutRightKeeps
<1> QED
  BY <1>1, <1>5

\* A line starts with as many blanks as its indent is.
LEMMA IndentIs ==
  ASSUME NEW L, NEW s \in Seq(L)
  PROVE  /\ Indent(s) \in Nat /\ Indent(s) <= Len(s)
         /\ \A i \in 1..Indent(s) : s[i] = Blank
<1> DEFINE n == Len(s)
           I == {i \in 1..n : s[i] # Blank}
           m == IF I # {} THEN Min(I) ELSE 0
<1>1. Indent(s) = IF m = 0 THEN n ELSE m - 1
  BY DEF Indent, SelectInSeq, Blank
<1>2. n \in Nat
  OBVIOUS
<1>3. CASE I = {}
  <2>1. m = 0 /\ \A i \in 1..n : s[i] = Blank
    BY <1>3
  <2> HIDE DEF m, n
  <2> QED
    BY <1>1, <1>2, <2>1 DEF n
<1>4. CASE I # {}
  <2>1. I \in SUBSET (1..n)
    OBVIOUS
  <2>2. \A i \in 1..n : i \notin I => s[i] = Blank
    OBVIOUS
  <2> HIDE DEF I
  <2>3. PICK i \in I : \A j \in I : i <= j
    <3>1. I \in SUBSET Nat
      BY <1>2, <2>1
    <3> QED
      BY <1>4, <3>1, LeastElement
  <2>4. Min(I) = i
    <3>1. I \in SUBSET Nat
      BY <1>2, <2>1
    <3> QED
      BY <2>3, <3>1, SelectsFirst
  <2>5. m = i /\ i \in 1..n /\ \A j \in I : i <= j
    BY <1>4, <2>1, <2>3, <2>4
  <2> HIDE DEF m, n
  <2>6. Indent(s) = i - 1
    BY <1>1, <2>5
  <2>7. \A j \in 1..(i - 1) : j \in 1..n /\ j \notin I
    BY <1>2, <2>5
  <2> QED
    BY <1>2, <2>2, <2>5, <2>6, <2>7 DEF n
<1> QED
  BY <1>3, <1>4

LEMMA DedentedKeeps ==
  ASSUME NEW L, NEW s \in Seq(L), NEW n, IsNormalizer(n)
  PROVE  Dedented(n, s) \in Seq(L) /\ Visible(Dedented(n, s)) = Visible(s)
<1>1. CASE s # <<>> /\ Indent(s) >= n.dedent
  <2> DEFINE m == n.dedent
  <2>1. m \in Nat /\ m <= Indent(s)
    <3>1. n.dedent \in Nat
      BY DEF IsNormalizer
    <3>2. Indent(s) \in Nat
      BY IndentIs
    <3> QED
      BY <1>1, <3>1, <3>2
  <2>2. /\ Indent(s) \in Nat /\ Indent(s) <= Len(s)
        /\ \A i \in 1..Indent(s) : s[i] = Blank
    BY IndentIs
  <2>3. Dedented(n, s) = SubSeq(s, m + 1, Len(s))
    BY <1>1 DEF Dedented
  <2>4. Unseen(Blank)
    BY DEF Unseen, White, Blank
  <2> HIDE DEF m
  <2>5. m <= Len(s) /\ \A i \in 1..m : Unseen(s[i])
    <3> DEFINE d == Indent(s)
               k == Len(s)
    <3>1. k \in Nat
      OBVIOUS
    <3>2. d \in Nat /\ d <= k /\ m \in Nat /\ m <= d /\ \A i \in 1..d : s[i] = Blank
      BY <2>1, <2>2
    <3> HIDE DEF d, k
    <3>3. m <= k /\ \A i \in 1..m : i \in 1..d
      BY <3>1, <3>2
    <3> QED
      BY <2>4, <3>2, <3>3 DEF k
  <2>6. SubSeq(s, m + 1, Len(s)) \in Seq(L) /\ Visible(SubSeq(s, m + 1, Len(s))) = Visible(s)
    BY <2>1, <2>5, CutLeftKeeps
  <2> QED
    BY <2>3, <2>6
<1>2. CASE ~(s # <<>> /\ Indent(s) >= n.dedent)
  <2>1. Dedented(n, s) = s
    BY <1>2 DEF Dedented
  <2> QED
    BY <2>1
<1> QED
  BY <1>1, <1>2

\* What is visible of a line is visible of it when it is normalised.
LEMMA NormKeeps ==
  ASSUME NEW L, Blank \in L, NEW n, IsNormalizer(n), NEW s \in Seq(L)
  PROVE  norm(n, s) \in Seq(L) /\ Visible(norm(n, s)) = Visible(s)
<1> DEFINE zw == {"zw"}
           nb == {"nbsp"}
           a == Without(s, zw)
           b == Swapped(a, nb, Blank)
           c == expand(n, b)
           d == TrimRight(c)
<1>1. norm(n, s) = Dedented(n, d)
  <2>1. Without(s, zw) = Those(s, {i \in DOMAIN s : s[i] # "zw"})
    <3>1. {i \in DOMAIN s : s[i] \notin zw} = {i \in DOMAIN s : s[i] # "zw"}
      OBVIOUS
    <3> HIDE DEF zw
    <3> QED
      BY <3>1 DEF Without
  <2>2. Swapped(a, nb, Blank) = [i \in DOMAIN a |-> IF a[i] = "nbsp" THEN " " ELSE a[i]]
    <3> HIDE DEF a
    <3> QED
      BY DEF Swapped, Blank
  <2> QED
    BY <2>1, <2>2 DEF norm
<1>2. AllUnseen(zw) /\ AllUnseen(nb) /\ Unseen(Blank)
  BY DEF AllUnseen, Unseen, White, Blank
<1> HIDE DEF zw, nb
<1>3. a \in Seq(L) /\ Visible(a) = Visible(s)
  BY <1>2, WithoutKeeps
<1> HIDE DEF a
<1>4. b \in Seq(L) /\ Visible(b) = Visible(a)
  BY <1>2, <1>3, SwappedKeeps
<1> HIDE DEF b
<1>5. c \in Seq(L) /\ Visible(c) = Visible(b)
  BY <1>4, ExpandKeeps DEF IsNormalizer
<1> HIDE DEF c
<1>6. d \in Seq(L) /\ Visible(d) = Visible(c)
  BY <1>5, TrimRightKeeps
<1> HIDE DEF d
<1>7. Dedented(n, d) \in Seq(L) /\ Visible(Dedented(n, d)) = Visible(d)
  BY <1>6, DedentedKeeps
<1> QED
  BY <1>1, <1>3, <1>4, <1>5, <1>6, <1>7

\* Tabs have a width, and what is taken off a line is a number of words.
LEMMA NormalizerIs ==
  ASSUME NEW L, Blank \in L, NEW lines \in Seq(Seq(L))
  PROVE  IsNormalizer(newNormalizer(lines))
<1> DEFINE n == Len(lines)
           indents == {Indent(lines[i]) : i \in DOMAIN lines} \ {0}
           Lines(k) == Cardinality({i \in DOMAIN lines : Indent(lines[i]) = k})
           commonest == {k \in indents : \A o \in indents : Lines(o) <= Lines(k)}
           width == IF indents = {} THEN 4 ELSE Min(commonest)
           N == [tabWidth |-> width]
           flat == [i \in DOMAIN lines |-> expand(N, lines[i])]
           common == {Indent(flat[i]) : i \in {j \in DOMAIN flat : Indent(flat[j]) < Len(flat[j])}}
           dedent == IF common = {} THEN 0 ELSE Min(common)
<1>1. newNormalizer(lines) = [tabWidth |-> width, dedent |-> dedent]
  BY DEF newNormalizer
<1>2. n \in Nat /\ DOMAIN lines = 1..n /\ \A i \in 1..n : lines[i] \in Seq(L)
  OBVIOUS
<1>3. \A i \in DOMAIN lines : Indent(lines[i]) \in Nat
  BY <1>2, IndentIs
<1>4. indents \in SUBSET (Nat \ {0})
  BY <1>3
<1>5. \A k : Lines(k) \in Nat /\ Lines(k) <= n
  <2> TAKE k
  <2> DEFINE K == {i \in DOMAIN lines : Indent(lines[i]) = k}
  <2>1. K \in SUBSET (1..n)
    BY <1>2
  <2> HIDE DEF K, n
  <2>2. Cardinality(K) \in Nat /\ Cardinality(K) <= n
    BY <1>2, <2>1, Positions
  <2> QED
    BY <2>2 DEF K
<1> HIDE DEF Lines, n
<1>6. width \in Nat \ {0}
  <2>1. CASE indents = {}
    BY <2>1
  <2>2. CASE indents # {}
    <3> HIDE DEF indents
    <3> DEFINE B == {n - Lines(k) : k \in indents}
    <3>1. B \in SUBSET Nat /\ B # {}
      <4>1. \A k \in indents : n - Lines(k) \in Nat
        BY <1>2, <1>5
      <4> QED
        BY <2>2, <4>1
    <3>2. PICK b \in B : \A c \in B : b <= c
      <4> HIDE DEF B
      <4> QED
        BY <3>1, LeastElement
    <3>3. PICK k \in indents : b = n - Lines(k)
      BY <3>2
    <3>4. \A o \in indents : Lines(o) <= Lines(k)
      <4> TAKE o \in indents
      <4>1. n - Lines(o) \in B
        OBVIOUS
      <4>2. n - Lines(k) <= n - Lines(o)
        BY <3>2, <3>3, <4>1
      <4> QED
        BY <1>2, <1>5, <4>2
    <3>5. commonest # {} /\ commonest \in SUBSET (Nat \ {0})
      BY <1>4, <3>4
    <3> HIDE DEF commonest
    <3>6. Min(commonest) \in commonest
      <4>1. commonest \in SUBSET Nat
        BY <3>5
      <4> QED
        BY <3>5, <4>1, MinIs
    <3> QED
      BY <2>2, <3>5, <3>6
  <2> QED
    BY <2>1, <2>2
<1> HIDE DEF width
<1>7. Widens(N)
  BY <1>6 DEF Widens
<1> HIDE DEF N
<1>8. \A i \in DOMAIN lines : expand(N, lines[i]) \in Seq(L)
  BY <1>2, <1>7, ExpandKeeps
<1>9. \A i \in DOMAIN flat : Indent(flat[i]) \in Nat
  BY <1>8, IndentIs
<1> HIDE DEF flat
<1>10. common \in SUBSET Nat
  BY <1>9
<1> HIDE DEF common
<1>11. dedent \in Nat
  <2>1. CASE common = {}
    BY <2>1
  <2>2. CASE common # {}
    BY <1>10, <2>2, MinIs
  <2> QED
    BY <2>1, <2>2
<1> HIDE DEF dedent
<1> QED
  BY <1>1, <1>6, <1>11 DEF IsNormalizer, Widens

(***************************************************************************)
(* What a quote that is accepted is found in.                              *)
(***************************************************************************)
\* What a normalised line includes is to be seen in the line.
LEMMA NormalizedIncludes ==
  ASSUME NEW L, Blank \in L, NEW n, IsNormalizer(n), NEW line \in Seq(L), NEW quote \in Seq(L),
         Includes(norm(n, line), norm(n, quote))
  PROVE  Includes(Visible(line), Visible(quote))
<1> DEFINE a == norm(n, line)
           b == norm(n, quote)
<1>1. a \in Seq(L) /\ b \in Seq(L) /\ Visible(a) = Visible(line) /\ Visible(b) = Visible(quote)
  BY NormKeeps
<1>2. Includes(a, b)
  OBVIOUS
<1> HIDE DEF a, b
<1>3. Includes(Visible(a), Visible(b))
  BY <1>1, <1>2, IncludesVisible
<1> QED
  BY <1>1, <1>3

\* A trimmed text is a part of it.
LEMMA TrimType ==
  ASSUME NEW L, NEW s \in Seq(L)
  PROVE  TrimSpace(s) \in Seq(L)
<1> DEFINE n == Len(s)
           I == {i \in 1..n : s[i] \notin White}
<1>1. n \in Nat /\ I \in SUBSET (1..n)
  OBVIOUS
<1>2. TrimSpace(s) = IF (IF I # {} THEN Min(I) ELSE 0) = 0 THEN <<>>
                     ELSE SubSeq(s, (IF I # {} THEN Min(I) ELSE 0), (IF I # {} THEN Max(I) ELSE 0))
  BY DEF TrimSpace, SelectInSeq, SelectLastInSeq
<1>3. CASE I = {}
  BY <1>2, <1>3
<1>4. CASE I # {}
  <2> HIDE DEF I, n
  <2>1. Max(I) \in I /\ Min(I) \in I
    <3>1. I \in SUBSET Nat
      BY <1>1
    <3> QED
      BY <1>1, <1>4, <3>1, LargestIndex, MinIs
  <2>2. Max(I) \in 1..n /\ Min(I) \in 1..n
    BY <1>1, <2>1
  <2>3. TrimSpace(s) = SubSeq(s, Min(I), Max(I))
    BY <1>1, <1>2, <1>4, <2>2
  <2> DEFINE a == Min(I)
             b == Max(I)
  <2> HIDE DEF a, b
  <2>4. SubSeq(s, a, b) \in Seq(L)
    BY <2>2 DEF a, b, n
  <2> QED
    BY <2>3, <2>4 DEF a, b
<1> QED
  BY <1>3, <1>4

\* The segments of a quote are sequences of words.
LEMMA SegmentsType ==
  ASSUME NEW L, NEW quote \in Seq(L)
  PROVE  splitElision(quote) \in Seq(Seq(L))
<1> DEFINE n == Len(quote)
           ids == [i \in DOMAIN quote |-> i]
           S == {i \in DOMAIN quote : quote[i] = "..."}
           mid == Those(ids, S)
           cuts == Cuts(quote)
           Between(k) == SubSeq(quote, cuts[k] + 1, cuts[k + 1] - 1)
           parts == [k \in 1..(Len(cuts) - 1) |-> TrimSpace(Between(k))]
           K == {k \in DOMAIN parts : parts[k] # <<>>}
<1>1. n \in Nat /\ DOMAIN quote = 1..n
  OBVIOUS
<1>2. mid \in Seq(0..(n + 1))
  <2>1. DOMAIN ids = 1..n /\ \A i \in 1..n : ids[i] = i
    BY <1>1
  <2> HIDE DEF ids, S
  <2> DEFINE F == {ids[i] : i \in 1..n}
  <2>2. mid \in Seq(F)
    BY <1>1, <2>1, ThoseAre
  <2>3. F \subseteq 0..(n + 1)
    BY <1>1, <2>1
  <2> DEFINE R == 0..(n + 1)
  <2> HIDE DEF F, mid, R
  <2>4. mid \in Seq(R)
    BY <2>2, <2>3, SeqOfMore DEF R
  <2> QED
    BY <2>4 DEF R
<1>3. cuts \in Seq(0..(n + 1))
  <2>1. cuts = <<0>> \o mid \o <<n + 1>>
    BY DEF Cuts
  <2> HIDE DEF mid, cuts, n
  <2>2. 0 \in 0..(n + 1) /\ n + 1 \in 0..(n + 1)
    BY <1>1
  <2> DEFINE R == 0..(n + 1)
  <2> HIDE DEF R
  <2>3. <<0>> \in Seq(R) /\ <<n + 1>> \in Seq(R) /\ mid \in Seq(R)
    BY <1>2, <2>2 DEF R
  <2>4. <<0>> \o mid \o <<n + 1>> \in Seq(R)
    BY <2>3
  <2> QED
    BY <2>1, <2>4 DEF R
<1>4. splitElision(quote) = Those(parts, K)
  BY DEF splitElision
<1> HIDE DEF cuts
<1>5. ASSUME NEW k \in 1..(Len(cuts) - 1) PROVE TrimSpace(Between(k)) \in Seq(L)
  <2>1. cuts[k] \in 0..(n + 1) /\ cuts[k + 1] \in 0..(n + 1)
    <3>1. Len(cuts) \in Nat
      BY <1>3
    <3>2. k \in 1..Len(cuts) /\ k + 1 \in 1..Len(cuts)
      BY <3>1
    <3> DEFINE R == 0..(n + 1)
    <3>3. cuts \in Seq(R)
      BY <1>3
    <3> HIDE DEF R
    <3>4. cuts[k] \in R /\ cuts[k + 1] \in R
      BY <3>2, <3>3
    <3> QED
      BY <3>4 DEF R
  <2>2. cuts[k] + 1 \in 1..(n + 2) /\ cuts[k + 1] - 1 \in Int /\ cuts[k + 1] - 1 <= n
    BY <1>1, <2>1
  <2> DEFINE a == cuts[k] + 1
             b == cuts[k + 1] - 1
  <2> HIDE DEF a, b
  <2>3. a \in Int /\ a >= 1 /\ b \in Int /\ b <= n
    BY <1>1, <2>2 DEF a, b
  <2>4. SubSeq(quote, a, b) \in Seq(L)
    <3>1. CASE a <= b
      <4>1. \A i \in a..b : i \in 1..n
        BY <1>1, <2>3
      <4> QED
        BY <1>1, <2>3, <3>1, <4>1
    <3>2. CASE ~(a <= b)
      <4>1. SubSeq(quote, a, b) = <<>>
        BY <1>1, <2>3, <3>2
      <4> QED
        BY <4>1
    <3> QED
      BY <3>1, <3>2
  <2>5. Between(k) \in Seq(L)
    BY <2>4 DEF a, b
  <2> HIDE DEF Between
  <2> QED
    BY <2>5, TrimType
<1> HIDE DEF Between
<1> DEFINE m == Len(cuts) - 1
<1>6. DOMAIN parts = 1..m /\ \A k \in 1..m : parts[k] \in Seq(L)
  BY <1>5
<1>7. \E j \in Nat : 1..m = 1..j
  <2>1. Len(cuts) \in Nat
    BY <1>3
  <2>2. m \in Nat \/ 1..m = 1..0
    BY <2>1
  <2> HIDE DEF m
  <2> QED
    BY <2>2
<1>8. PICK j \in Nat : 1..m = 1..j
  BY <1>7
<1> HIDE DEF parts, K, m
<1> DEFINE F == {parts[i] : i \in 1..j}
<1>9. Those(parts, K) \in Seq(F)
  BY <1>6, <1>8, ThoseAre
<1>10. F \subseteq Seq(L)
  BY <1>6, <1>8
<1> DEFINE T == Seq(L)
<1> HIDE DEF F, T
<1>11. Those(parts, K) \in Seq(T)
  BY <1>9, <1>10, SeqOfMore DEF T
<1> QED
  BY <1>4, <1>11 DEF T

\* The next segment of an elided quote.
ElideNext(at, segment, lines, n) ==
  LET normed == [i \in DOMAIN lines |-> norm(n, lines[i])]
      ns == norm(n, segment)
  IN Advance(at, IF ns = <<>> THEN {} ELSE nextSegment(ns, normed, at))

ElideStart == [ok |-> TRUE, cursor |-> 0, first |-> 0, last |-> 0]

\* The walk along the segments.
Elides(p, segs, lines, n) ==
  /\ p[0] = ElideStart
  /\ \A k \in 1..Len(segs) : p[k] = ElideNext(p[k - 1], segs[k], lines, n)

\* Where the next segment may be is on a later line.
LEMMA ElideSites ==
  ASSUME NEW L, NEW lines \in Seq(Seq(L)), NEW n, NEW at, NEW segment, at.cursor \in Nat
  PROVE  LET normed == [i \in DOMAIN lines |-> norm(n, lines[i])]
             ns == norm(n, segment)
             sites == IF ns = <<>> THEN {} ELSE nextSegment(ns, normed, at)
         IN /\ sites \in SUBSET (1..Len(lines))
            /\ \A i \in sites : i > at.cursor /\ Includes(norm(n, lines[i]), ns)
<1> DEFINE normed == [i \in DOMAIN lines |-> norm(n, lines[i])]
           ns == norm(n, segment)
           sites == IF ns = <<>> THEN {} ELSE nextSegment(ns, normed, at)
<1>1. DOMAIN normed = 1..Len(lines) /\ \A i \in 1..Len(lines) : normed[i] = norm(n, lines[i])
  OBVIOUS
<1> HIDE DEF normed, ns
<1>2. sites \in SUBSET (1..Len(lines))
  BY <1>1 DEF nextSegment, matchSites
<1>3. ASSUME NEW i \in sites PROVE i > at.cursor /\ Includes(norm(n, lines[i]), ns)
  BY <1>1, <1>3 DEF nextSegment, matchSites
<1> QED
  BY <1>2, <1>3 DEF normed, ns

\* What Advance makes of where a segment may be.
LEMMA AdvanceIs ==
  ASSUME NEW at, at \in [ok : BOOLEAN, cursor : Nat, first : Int, last : Int],
         NEW m \in Nat, NEW sites \in SUBSET (1..m)
  PROVE  /\ Advance(at, sites) \in [ok : BOOLEAN, cursor : Nat, first : Int, last : Int]
         /\ Advance(at, sites).ok => at.ok /\ Advance(at, sites).cursor \in sites
<1>1. CASE ~at.ok \/ sites = {}
  <2>1. Advance(at, sites) = [at EXCEPT !.ok = FALSE]
    BY <1>1 DEF Advance
  <2> QED
    BY <2>1
<1>2. CASE at.ok /\ sites # {}
  <2> DEFINE found == Min(sites)
  <2>1. found \in sites
    <3>1. sites \in SUBSET Nat
      OBVIOUS
    <3> QED
      BY <1>2, <3>1, MinIs
  <2>2. Advance(at, sites) = [ok |-> TRUE, cursor |-> found, last |-> found - 1,
                              first |-> IF at.first = 0 /\ at.last = 0 THEN found - 1 ELSE at.first]
    BY <1>2 DEF Advance
  <2> HIDE DEF found
  <2>3. found \in Nat
    BY <2>1
  <2> QED
    BY <1>2, <2>1, <2>2, <2>3
<1> QED
  BY <1>1, <1>2

\* The fold of matchElided has such a walk, and accepts only where it ends well.
LEMMA ElideWalk ==
  ASSUME NEW L, NEW lines \in Seq(Seq(L)), NEW n, NEW segs \in Seq(Seq(L)),
         matchElided(segs, lines, n)
  PROVE  \E p : Elides(p, segs, lines, n) /\ p[Len(segs)].ok
                /\ \A k \in 0..Len(segs) :
                     p[k] \in [ok : BOOLEAN, cursor : Nat, first : Int, last : Int]
<1> DEFINE m == Len(segs)
           C == [ok : BOOLEAN, cursor : Nat, first : Int, last : Int]
           Op(at, i) == ElideNext(at, segs[i], lines, n)
           h == [e \in (1..m) \X C |-> Op(e[2], e[1])]
           W(it) == [T \in SUBSET (1..m) |-> IF T = {} THEN ElideStart
                                             ELSE Op(it[T \ {Max(T)}], Max(T))]
           it == CHOOSE it : it = W(it)
<1>1. m \in Nat /\ DOMAIN segs = 1..m /\ Len(lines) \in Nat
  OBVIOUS
<1>2. SpanOK(it[1..m])
  <2>1. SpanOK((CHOOSE jt : jt = [T \in SUBSET DOMAIN segs |->
            IF T = {} THEN ElideStart
            ELSE ElideNext(jt[T \ {Max(T)}], segs[Max(T)], lines, n)])[DOMAIN segs])
    BY DEF matchElided, FoldLeft, MapThenFoldSet, ElideNext, ElideStart
  <2> QED
    BY <1>1, <2>1
<1>3. ASSUME NEW at \in C, NEW i \in 1..m PROVE Op(at, i) \in C
  <2> DEFINE normed == [j \in DOMAIN lines |-> norm(n, lines[j])]
             ns == norm(n, segs[i])
             sites == IF ns = <<>> THEN {} ELSE nextSegment(ns, normed, at)
  <2>1. sites \in SUBSET (1..Len(lines))
    <3>1. at.cursor \in Nat
      BY <1>3
    <3> QED
      BY <3>1, ElideSites
  <2>2. Op(at, i) = Advance(at, sites)
    BY DEF ElideNext
  <2> HIDE DEF sites, Op
  <2> QED
    BY <1>1, <1>3, <2>1, <2>2, AdvanceIs
<1>4. ElideStart \in C
  BY DEF ElideStart
<1> HIDE DEF Op, C, m
<1>5. PICK g \in [SUBSET (1..m) -> C] : \A T \in SUBSET (1..m) :
        g[T] = IF T = {} THEN ElideStart ELSE h[<<Max(T), g[T \ {Max(T)}]>>]
  <2>1. h \in [(1..m) \X C -> C]
    BY <1>3
  <2> HIDE DEF h
  <2>2. Walks(m, C, ElideStart, h) # {}
    BY <1>1, <1>4, <2>1, WalkExists
  <2> QED
    BY <2>2 DEF Walks
<1>6. g = W(g)
  <2>1. ASSUME NEW T \in SUBSET (1..m), T # {}
        PROVE  g[T] = Op(g[T \ {Max(T)}], Max(T))
    <3>1. Max(T) \in 1..m /\ g[T \ {Max(T)}] \in C
      BY <1>1, <2>1, LargestIndex
    <3>2. h[<<Max(T), g[T \ {Max(T)}]>>] = Op(g[T \ {Max(T)}], Max(T))
      BY <3>1
    <3> QED
      BY <1>5, <2>1, <3>2
  <2> HIDE DEF h
  <2> QED
    BY <1>5, <2>1
<1>7. it = W(it)
  <2> HIDE DEF W
  <2> QED
    BY <1>6
<1> HIDE DEF it
<1> DEFINE p == [k \in 0..m |-> it[1..k]]
<1>8. p[0] = ElideStart
  <2>1. 1..0 = {} /\ {} \in SUBSET (1..m)
    OBVIOUS
  <2>2. it[{}] = ElideStart
    BY <1>7, <2>1
  <2> QED
    BY <1>1, <2>1, <2>2
<1>9. ASSUME NEW k \in 1..m PROVE p[k] = Op(p[k - 1], k)
  <2>1. /\ 1..k \in SUBSET (1..m) /\ 1..k # {} /\ Max(1..k) = k
        /\ (1..k) \ {Max(1..k)} = 1..(k - 1)
    BY <1>1, IndicesUpTo
  <2>2. it[1..k] = Op(it[(1..k) \ {Max(1..k)}], Max(1..k))
    BY <1>7, <2>1
  <2>3. k \in 0..m /\ k - 1 \in 0..m
    BY <1>1
  <2> QED
    BY <2>1, <2>2, <2>3
<1>10. p[m] = it[1..m]
  BY <1>1
<1> HIDE DEF p
<1>11. Elides(p, segs, lines, n)
  BY <1>8, <1>9 DEF Elides, Op, m
<1>12. \A k \in 0..m : p[k] \in C
  <2> DEFINE N == {k \in 0..m : p[k] \in C}
  <2>1. 0 \in N
    BY <1>1, <1>4, <1>8
  <2>2. ASSUME NEW k \in 0..m, k < m /\ k \in N PROVE k + 1 \in N
    <3>1. k \in 0..m /\ k < m /\ p[k] \in C
      BY <2>2
    <3>2. k + 1 \in 1..m /\ (k + 1) - 1 = k /\ k + 1 \in 0..m
      BY <1>1, <3>1
    <3>3. p[k + 1] = Op(p[(k + 1) - 1], k + 1)
      BY <1>9, <3>2
    <3> QED
      BY <1>3, <3>1, <3>2, <3>3
  <2> HIDE DEF N
  <2>3. \A k \in 0..m : k \in N
    BY <1>1, <2>1, <2>2, InductionUpTo
  <2> QED
    BY <2>3 DEF N
<1>13. p[m].ok
  BY <1>2, <1>10 DEF SpanOK
<1> QED
  BY <1>11, <1>12, <1>13 DEF C, m

\* The first k segments are on lines in order, the last of them on line at[k].
InOrder(at, k, segs, lines) ==
  /\ at \in [1..k -> 1..Len(lines)]
  /\ \A i \in 1..k : /\ Includes(Visible(lines[at[i]]), Visible(segs[i]))
                     /\ i > 1 => at[i - 1] < at[i]

\* An elided quote is accepted only when its segments are.
LEMMA ElidedInOrder ==
  ASSUME NEW L, Blank \in L, NEW lines \in Seq(Seq(L)), NEW n, IsNormalizer(n),
         NEW segs \in Seq(Seq(L)), matchElided(segs, lines, n)
  PROVE  \E at : InOrder(at, Len(segs), segs, lines)
<1> DEFINE m == Len(segs)
           C == [ok : BOOLEAN, cursor : Nat, first : Int, last : Int]
<1>1. m \in Nat /\ Len(lines) \in Nat /\ \A i \in 1..m : segs[i] \in Seq(L)
  OBVIOUS
<1>2. PICK p : /\ Elides(p, segs, lines, n) /\ p[m].ok
               /\ \A k \in 0..m : p[k] \in C
  BY ElideWalk
<1> DEFINE Reaches(at, k) == /\ InOrder(at, k, segs, lines)
                             /\ p[k].cursor = IF k = 0 THEN 0 ELSE at[k]
           N == {k \in 0..m : p[k].ok => \E at : Reaches(at, k)}
<1>3. 0 \in N
  <2>1. p[0].cursor = 0
    BY <1>2 DEF Elides, ElideStart
  <2>2. InOrder(<<>>, 0, segs, lines)
    BY DEF InOrder
  <2> QED
    BY <1>1, <2>1, <2>2
<1> HIDE DEF C, m
<1>4. ASSUME NEW k \in 0..m, k < m /\ k \in N PROVE k + 1 \in N
  <2> DEFINE j == k + 1
             prev == p[k]
  <2>1. k < m /\ (p[k].ok => \E at : Reaches(at, k))
    BY <1>4
  <2> HIDE DEF N, Reaches
  <2>2. j \in 1..m /\ j \in 0..m /\ j - 1 = k /\ k \in Nat /\ j = k + 1 /\ j \in Nat /\ j # 0
    BY <1>1, <2>1
  <2>3. p[j] = ElideNext(prev, segs[j], lines, n) /\ prev \in C
    <3>1. p[j] = ElideNext(p[j - 1], segs[j], lines, n)
      BY <1>2, <2>2 DEF Elides, m
    <3> QED
      BY <1>2, <2>2, <3>1
  <2> HIDE DEF j, prev
  <2> SUFFICES ASSUME p[j].ok PROVE \E at : Reaches(at, j)
    BY <2>2 DEF N, j
  <2> DEFINE normed == [i \in DOMAIN lines |-> norm(n, lines[i])]
             seg == segs[j]
             ns == norm(n, seg)
             sites == IF ns = <<>> THEN {} ELSE nextSegment(ns, normed, prev)
             new == p[j].cursor
  <2>4. p[j] = Advance(prev, sites)
    BY <2>3 DEF ElideNext
  <2>5. prev.cursor \in Nat
    BY <2>3 DEF C
  <2>6. /\ sites \in SUBSET (1..Len(lines))
        /\ \A i \in sites : i > prev.cursor /\ Includes(norm(n, lines[i]), ns)
    BY <2>5, ElideSites
  <2> HIDE DEF sites, ns
  <2>7. Advance(prev, sites).ok => prev.ok /\ Advance(prev, sites).cursor \in sites
    BY <1>1, <2>3, <2>6, AdvanceIs DEF C
  <2>8. prev.ok /\ new \in sites
    BY <2>4, <2>7
  <2>9. new \in 1..Len(lines) /\ new > prev.cursor /\ Includes(norm(n, lines[new]), ns)
    <3> HIDE DEF new
    <3> QED
      BY <2>6, <2>8
  <2>10. PICK at : Reaches(at, k)
    BY <2>1, <2>8 DEF prev
  <2>11. Includes(Visible(lines[new]), Visible(seg))
    <3> HIDE DEF new, seg
    <3> DEFINE line == lines[new]
    <3>1. line \in Seq(L) /\ seg \in Seq(L)
      BY <1>1, <2>2, <2>9 DEF seg
    <3>2. Includes(norm(n, line), norm(n, seg))
      BY <2>9 DEF ns
    <3> HIDE DEF line
    <3>3. Includes(Visible(line), Visible(seg))
      BY <3>1, <3>2, NormalizedIncludes
    <3> QED
      BY <3>3 DEF line
  <2> HIDE DEF new, seg
  <2> DEFINE bt == [i \in 1..j |-> IF i = j THEN new ELSE at[i]]
  <2>12. /\ at \in [1..k -> 1..Len(lines)]
         /\ \A i \in 1..k : /\ Includes(Visible(lines[at[i]]), Visible(segs[i]))
                            /\ i > 1 => at[i - 1] < at[i]
         /\ prev.cursor = IF k = 0 THEN 0 ELSE at[k]
    BY <2>10 DEF Reaches, InOrder, prev
  <2>13. \A i \in 1..j : i = j \/ i \in 1..k
    BY <2>2
  <2>14. j \in 1..j /\ \A i \in 1..k : i \in 1..j /\ i # j
    BY <2>2
  <2>15. bt[j] = new /\ \A i \in 1..k : bt[i] = at[i]
    BY <2>14
  <2>16. bt \in [1..j -> 1..Len(lines)]
    BY <2>9, <2>12, <2>13
  <2> HIDE DEF bt
  <2>17. ASSUME NEW i \in 1..j
         PROVE  /\ Includes(Visible(lines[bt[i]]), Visible(segs[i]))
                /\ i > 1 => bt[i - 1] < bt[i]
    <3>1. CASE i = j
      <4>1. Includes(Visible(lines[bt[i]]), Visible(segs[i]))
        BY <2>11, <2>15, <3>1 DEF seg
      <4>2. ASSUME i > 1 PROVE bt[i - 1] < bt[i]
        <5>1. i - 1 = k /\ k \in 1..k /\ k # 0
          BY <2>2, <3>1, <4>2
        <5>2. bt[i - 1] = prev.cursor
          BY <2>12, <2>15, <5>1
        <5> QED
          BY <2>5, <2>9, <2>15, <3>1, <5>2
      <4> QED
        BY <4>1, <4>2
    <3>2. CASE i \in 1..k
      <4>1. i > 1 => i - 1 \in 1..k
        BY <2>2, <3>2
      <4> QED
        BY <2>12, <2>15, <3>2, <4>1
    <3> QED
      BY <2>13, <3>1, <3>2
  <2>18. InOrder(bt, j, segs, lines)
    BY <2>16, <2>17 DEF InOrder
  <2>19. Reaches(bt, j)
    BY <2>2, <2>15, <2>18 DEF Reaches, new
  <2> QED
    BY <2>19
<1>5. \A k \in 0..m : k \in N
  <2> HIDE DEF N
  <2> QED
    BY <1>1, <1>3, <1>4, InductionUpTo
<1>6. PICK at : Reaches(at, m)
  BY <1>1, <1>2, <1>5
<1> QED
  BY <1>6 DEF m

\* A rung is won on a line that has the quote.
LEMMA RungMatches ==
  ASSUME NEW lines, NEW quote, NEW line, Rung(lines, quote, line) = "match"
  PROVE  \E i \in DOMAIN lines : Includes(lines[i], quote)
<1> DEFINE sites == matchSites(lines, quote)
<1>1. sites # {}
  <2>1. line \in sites \/ Cardinality(sites) = 1
    <3> HIDE DEF sites
    <3> QED
      BY DEF Rung, sites
  <2>2. sites = {} => Cardinality(sites) = 0
    BY FS_EmptySet
  <2> HIDE DEF sites
  <2> QED
    BY <2>1, <2>2
<1> QED
  BY <1>1 DEF matchSites

\* A quote that is neither failed nor ambiguous is there to be seen.
LEMMA CascadeQuotes ==
  ASSUME NEW L, Blank \in L, NEW lines \in Seq(Seq(L)), NEW n, IsNormalizer(n),
         NEW e, e.quote \in Seq(L), matchCascade(e, lines, n) \notin {"failed", "ambiguous"}
  PROVE  Quoted(lines, e.quote)
<1> DEFINE quote == e.quote
           segs == splitElision(quote)
           normed == [i \in DOMAIN lines |-> norm(n, lines[i])]
           exact == Rung(lines, quote, e.line)
           normalized == normalizedRung(lines, norm(n, quote), e.line, n)
           elided == Len(segs) >= 2 /\ matchElided(segs, lines, n)
<1>1. Level(exact, normalized, elided) \notin {"failed", "ambiguous"}
  BY DEF matchCascade
<1>2. quote \in Seq(L) /\ DOMAIN lines = 1..Len(lines) /\ \A i \in DOMAIN lines : lines[i] \in Seq(L)
  OBVIOUS
<1> HIDE DEF quote, exact, normalized, elided
<1>3. exact = "match" \/ normalized = "match" \/ elided
  BY <1>1 DEF Level
<1>4. CASE exact = "match"
  <2>1. PICK i \in DOMAIN lines : Includes(lines[i], quote)
    BY <1>4, RungMatches DEF exact
  <2> DEFINE line == lines[i]
  <2>2. line \in Seq(L) /\ Includes(line, quote)
    BY <1>2, <2>1
  <2> HIDE DEF line
  <2>3. Includes(Visible(line), Visible(quote))
    BY <1>2, <2>2, IncludesVisible
  <2>4. \E j \in DOMAIN lines : Includes(Visible(lines[j]), Visible(quote))
    BY <2>3 DEF line
  <2> QED
    BY <2>4 DEF Quoted, quote
<1>5. CASE normalized = "match"
  <2>1. Rung(normed, norm(n, quote), e.line) = "match"
    BY <1>5 DEF normalized, normalizedRung
  <2>2. PICK i \in DOMAIN normed : Includes(normed[i], norm(n, quote))
    BY <2>1, RungMatches
  <2> DEFINE line == lines[i]
  <2>3. i \in DOMAIN lines /\ line \in Seq(L) /\ Includes(norm(n, line), norm(n, quote))
    BY <1>2, <2>2
  <2> HIDE DEF line, normed
  <2>4. Includes(Visible(line), Visible(quote))
    BY <1>2, <2>3, NormalizedIncludes
  <2>5. \E j \in DOMAIN lines : Includes(Visible(lines[j]), Visible(quote))
    BY <2>3, <2>4 DEF line
  <2> QED
    BY <2>5 DEF Quoted, quote
<1>6. CASE elided
  <2>1. segs \in Seq(Seq(L))
    BY <1>2, SegmentsType
  <2>2. matchElided(segs, lines, n)
    BY <1>6 DEF elided
  <2> HIDE DEF segs
  <2>3. PICK at : InOrder(at, Len(segs), segs, lines)
    BY <2>1, <2>2, ElidedInOrder
  <2>4. DOMAIN segs = 1..Len(segs)
    BY <2>1
  <2>5. /\ at \in [DOMAIN segs -> DOMAIN lines]
        /\ \A i \in DOMAIN segs : /\ Includes(Visible(lines[at[i]]), Visible(segs[i]))
                                  /\ i > 1 => at[i - 1] < at[i]
    BY <1>2, <2>3, <2>4 DEF InOrder
  <2> QED
    BY <2>5 DEF Quoted, quote, segs
<1> QED
  BY <1>3, <1>4, <1>5, <1>6

(***************************************************************************)
(* Where a finding is posted.                                              *)
(***************************************************************************)
\* Those of some lines that are of a kind are such lines.
LEMMA OfKindIs ==
  ASSUME NEW M, NEW ls \in Seq(M), NEW kind
  PROVE  OfKind(ls, kind) \in Seq({l \in ToSet(ls) : l.kind = kind})
<1> DEFINE n == Len(ls)
           K == {i \in DOMAIN ls : ls[i].kind = kind}
           ks == Those(ls, K)
           G == {l \in ToSet(ls) : l.kind = kind}
<1>1. n \in Nat /\ DOMAIN ls = 1..n
  OBVIOUS
<1>2. ks \in Seq({ls[i] : i \in 1..n}) /\ \E at : Listing(ls, K \cap 1..n, ks, at)
  <2> HIDE DEF K, n
  <2> QED
    BY <1>1, ThoseAre
<1> HIDE DEF ks, n
<1>3. PICK at : Listing(ls, K \cap 1..n, ks, at)
  BY <1>2
<1>4. \A k \in 1..Len(ks) : ks[k] \in G
  <2> TAKE k \in 1..Len(ks)
  <2>1. at[k] \in K \cap 1..n /\ ks[k] = ls[at[k]]
    BY <1>3 DEF Listing
  <2> DEFINE a == at[k]
  <2>2. a \in DOMAIN ls /\ ls[a].kind = kind /\ ks[k] = ls[a]
    BY <2>1
  <2> HIDE DEF a
  <2> QED
    BY <2>2 DEF ToSet
<1> HIDE DEF G
<1>5. ks \in Seq(G)
  BY <1>2, <1>4
<1> QED
  BY <1>5 DEF OfKind, ks, K, G

\* The line a declaration was removed from is a removed line.
LEMMA RemovedDefines ==
  ASSUME NEW diff, NEW M, HunkLines(diff) \in Seq(M), NEW idents, NEW W, idents \in Seq(W),
         definingRemovedLine(diff, idents) # 0
  PROVE  \E l \in ToSet(HunkLines(diff)) : l.kind = "-" /\ l.oldNo = definingRemovedLine(diff, idents)
<1> DEFINE ls == HunkLines(diff)
           removed == RemovedLines(diff)
           G == {l \in ToSet(ls) : l.kind = "-"}
           Declaring(i) == {k \in 1..Len(removed) : Declares(removed[k].words, idents[i])}
           Least(I) == IF I # {} THEN Min(I) ELSE 0
           n == Len(idents)
           lineOf == [i \in 1..n |-> Least(Declaring(i))]
           Has == {i \in 1..n : lineOf[i] # 0}
<1>1. n \in Nat /\ DOMAIN idents = 1..n
  OBVIOUS
<1>2. removed \in Seq(G)
  <2>1. OfKind(ls, "-") \in Seq(G)
    BY OfKindIs
  <2> QED
    BY <2>1 DEF RemovedLines
<1> HIDE DEF removed, G
<1> DEFINE it == [i \in DOMAIN idents |-> Least(Declaring(i))]
           which == Least({i \in 1..Len(it) : it[i] # 0})
<1>3. definingRemovedLine(diff, idents) = IF which = 0 THEN 0 ELSE removed[it[which]].oldNo
  BY DEF definingRemovedLine, SelectInSeq, removed
<1>4. it = lineOf /\ Len(lineOf) = n /\ DOMAIN lineOf = 1..n
  <2> HIDE DEF Declaring, Least, n
  <2> QED
    BY <1>1
<1>5. which = Least(Has)
  <2> HIDE DEF lineOf, n, it, Least
  <2> QED
    BY <1>4
<1>6. definingRemovedLine(diff, idents) =
        IF Least(Has) = 0 THEN 0 ELSE removed[lineOf[Least(Has)]].oldNo
  <2> HIDE DEF lineOf, Least, Has, it, which
  <2> QED
    BY <1>3, <1>4, <1>5
<1> HIDE DEF lineOf, n, it, which
<1>7. Has # {} /\ Has \in SUBSET Nat /\ Min(Has) \in Has
  <2>1. Has # {} /\ Has \in SUBSET Nat
    BY <1>1, <1>6
  <2> HIDE DEF Has
  <2> QED
    BY <2>1, MinIs
<1> DEFINE i == Min(Has)
<1>8. i \in 1..n /\ lineOf[i] # 0 /\ Least(Has) = i
  BY <1>7
<1> HIDE DEF Has, i
<1>9. definingRemovedLine(diff, idents) = removed[lineOf[i]].oldNo
  BY <1>6, <1>8
<1>10. lineOf[i] = Least(Declaring(i))
  BY <1>8 DEF lineOf
<1>11. lineOf[i] \in 1..Len(removed)
  <2>1. Declaring(i) \in SUBSET (1..Len(removed))
    OBVIOUS
  <2> DEFINE I == Declaring(i)
  <2> HIDE DEF Declaring, I
  <2>2. I # {} /\ I \in SUBSET Nat /\ I \in SUBSET (1..Len(removed))
    BY <1>8, <1>10, <2>1 DEF I
  <2>3. Min(I) \in I
    BY <2>2, MinIs
  <2> QED
    BY <1>10, <2>2, <2>3 DEF I
<1> DEFINE k == lineOf[i]
<1> HIDE DEF k
<1>12. removed[k] \in G
  BY <1>2, <1>11 DEF k
<1> QED
  BY <1>9, <1>12 DEF G, k

\* The nearest of some lines is one of them.
LEMMA NearestIs ==
  ASSUME NEW M, NEW s \in Seq([no : M, far : Nat]), s # <<>>
  PROVE  \E k \in 1..Len(s) : Nearest(s) = s[k].no
<1> DEFINE n == Len(s)
           Fars == {s[i].far : i \in 1..n}
           I == {k \in 1..n : \A i \in DOMAIN s : s[k].far <= s[i].far}
<1>1. n \in Nat /\ n # 0 /\ DOMAIN s = 1..n /\ \A i \in 1..n : s[i].far \in Nat
  <2> DEFINE R == [no : M, far : Nat]
  <2>1. \A x \in R : x.far \in Nat
    OBVIOUS
  <2> HIDE DEF R
  <2>2. s \in Seq(R)
    BY DEF R
  <2>3. n \in Nat /\ n # 0 /\ DOMAIN s = 1..n /\ \A i \in 1..n : s[i] \in R
    BY <2>2
  <2> QED
    BY <2>1, <2>3
<1>2. PICK far \in Fars : \A x \in Fars : far <= x
  <2>1. Fars \in SUBSET Nat /\ Fars # {}
    <3>1. 1 \in 1..n
      BY <1>1
    <3> QED
      BY <1>1, <3>1
  <2> HIDE DEF Fars
  <2> QED
    BY <2>1, LeastElement
<1>3. PICK k \in 1..n : far = s[k].far
  BY <1>2
<1>4. k \in I
  BY <1>1, <1>2, <1>3
<1>5. Min(I) \in I
  <2>1. I \in SUBSET Nat
    BY <1>1
  <2> HIDE DEF I
  <2> QED
    BY <1>4, <2>1, MinIs
<1>6. Nearest(s) = s[Min(I)].no
  <2>1. I # {}
    BY <1>4
  <2>2. SelectInSeq(s, LAMBDA l : \A i \in DOMAIN s : l.far <= s[i].far) = IF I # {} THEN Min(I) ELSE 0
    BY DEF SelectInSeq
  <2> HIDE DEF I
  <2> QED
    BY <2>1, <2>2 DEF Nearest
<1>7. Min(I) \in 1..n
  BY <1>5
<1> QED
  BY <1>6, <1>7

\* A line the parser could make of a change is numbered, and one that was
\* changed has a place in the diff.
LEMMA LineHasAPlace ==
  ASSUME NEW c, IsChange(c), NEW l \in LinesOf(c)
  PROVE  /\ l.newNo \in Int
         /\ l.kind = "-" => InTheDiff(c, Post(c.path, "LEFT", l.oldNo))
         /\ l.kind = "+" => InTheDiff(c, Post(c.path, "RIGHT", l.newNo))
<1>1. PICK i \in DOMAIN c.edits : l = AllLines(c)[i]
  BY DEF LinesOf
<1>2. /\ l.kind = c.edits[i].op
      /\ l.oldNo = IF c.edits[i].op = "+" THEN 0 ELSE LinesUpTo(c, i, "-")
      /\ l.newNo = IF c.edits[i].op = "-" THEN 0 ELSE LinesUpTo(c, i, "+")
  BY <1>1 DEF AllLines
<1>3. i \in Nat
  BY EditsType
<1>4. LinesUpTo(c, i, "+") \in Nat
  BY <1>3, LinesUpToStep
<1>5. l.kind # " " => i \in Shown(c)
  BY <1>2, ChangedIsShown DEF Changed
<1>6. \A side, no : /\ Post(c.path, side, no).path = c.path /\ Post(c.path, side, no).side = side
                    /\ Post(c.path, side, no).line = no
  BY DEF Post
<1>7. ASSUME l.kind = "-" PROVE InTheDiff(c, Post(c.path, "LEFT", l.oldNo))
  <2> DEFINE at == Post(c.path, "LEFT", l.oldNo)
  <2>1. at.path = c.path /\ at.side # "RIGHT" /\ at.line = LinesUpTo(c, i, "-")
    BY <1>2, <1>6, <1>7
  <2> HIDE DEF at
  <2>2. c.edits[i].op = "-" /\ i \in Shown(c)
    BY <1>2, <1>5, <1>7
  <2>3. InTheDiff(c, at)
    BY <2>1, <2>2 DEF InTheDiff
  <2> QED
    BY <2>3 DEF at
<1>8. ASSUME l.kind = "+" PROVE InTheDiff(c, Post(c.path, "RIGHT", l.newNo))
  <2> DEFINE at == Post(c.path, "RIGHT", l.newNo)
  <2>1. at.path = c.path /\ at.side = "RIGHT" /\ at.line = LinesUpTo(c, i, "+")
    BY <1>2, <1>6, <1>8
  <2> HIDE DEF at
  <2>2. c.edits[i].op # "-" /\ i \in Shown(c)
    BY <1>2, <1>5, <1>8
  <2>3. InTheDiff(c, at)
    BY <2>1, <2>2 DEF InTheDiff
  <2> QED
    BY <2>3 DEF at
<1> QED
  BY <1>2, <1>4, <1>7, <1>8

\* The lines of the diff are lines of the change.
LEMMA DiffLines ==
  ASSUME NEW c, IsChange(c), NEW ls, ls = Those(AllLines(c), Shown(c))
  PROVE  ls \in Seq(LinesOf(c))
<1> DEFINE n == Len(c.edits)
           A == AllLines(c)
           S == Shown(c)
<1>1. n \in Nat /\ DOMAIN A = 1..n
  BY EditsType DEF AllLines
<1>2. LinesOf(c) = {A[i] : i \in 1..n}
  BY EditsType DEF LinesOf
<1> HIDE DEF A, S, n
<1>3. Those(A, S) \in Seq({A[i] : i \in 1..n})
  BY <1>1, ThoseAre
<1> QED
  BY <1>2, <1>3 DEF A, S

\* A distance is a number.
LEMMA DistanceType ==
  ASSUME NEW a \in Int, NEW b \in Int
  PROVE  Abs(a - b) \in Nat
BY DEF Abs

\* The nearest change is a line that was changed.
LEMMA NearestHasAPlace ==
  ASSUME NEW c, IsChange(c), NEW fc, fc.path = c.path, Hunks(fc.diff.hunks, c),
         HunkLines(fc.diff) \in Seq(LinesOf(c)), NEW line \in Int, nearestChange(fc, line).line # 0
  PROVE  InTheDiff(c, nearestChange(fc, line))
<1> DEFINE d == fc.diff
           L == LinesOf(c)
           new == OfKind(HunkLines(d), "+")
           Gone(h) == OfKind(d.hunks[h].lines, "-")
           Far(h) == Abs(d.hunks[h].newStart - line)
           OldIn(h) == [i \in DOMAIN Gone(h) |-> [no |-> Gone(h)[i].oldNo, far |-> Far(h)]]
           olds == [h \in DOMAIN d.hunks |-> OldIn(h)]
           old == FlattenSeq(olds)
           news == [i \in DOMAIN new |-> [no |-> new[i].newNo, far |-> Abs(new[i].newNo - line)]]
           near == nearestChange(fc, line)
<1>1. near = IF new # <<>> THEN Post(fc.path, "RIGHT", Nearest(news))
                           ELSE Post(fc.path, "LEFT", Nearest(old))
  BY DEF nearestChange
<1>2. HunkLines(d) \in Seq(L)
  OBVIOUS
<1>3. Hunks(d.hunks, c)
  OBVIOUS
<1> HIDE DEF d
<1>4. new \in Seq({l \in L : l.kind = "+"})
  <2> DEFINE ls == HunkLines(d)
             G == {l \in ToSet(ls) : l.kind = "+"}
             P == {l \in L : l.kind = "+"}
  <2>1. G \subseteq P
    <3> HIDE DEF L
    <3>1. ToSet(ls) \subseteq L
      BY <1>2 DEF ToSet
    <3> QED
      BY <3>1
  <2>2. new \in Seq(G)
    BY <1>2, OfKindIs
  <2> HIDE DEF new, G, P
  <2>3. new \in Seq(P)
    BY <2>1, <2>2, SeqOfMore
  <2> QED
    BY <2>3 DEF P
<1>5. CASE new # <<>>
  <2> HIDE DEF new
  <2> DEFINE n == Len(new)
  <2>1. n \in Nat /\ DOMAIN new = 1..n /\ n # 0
    BY <1>4, <1>5
  <2>2. \A i \in 1..n : new[i] \in L /\ new[i].kind = "+"
    BY <1>4
  <2>3. \A i \in 1..n : new[i].newNo \in Int
    BY <2>2, LineHasAPlace
  <2> HIDE DEF n, L
  <2>4. \A i \in 1..n : Abs(new[i].newNo - line) \in Nat
    BY <2>3, DistanceType
  <2>5. news \in Seq([no : Int, far : Nat]) /\ news # <<>> /\ Len(news) = n
        /\ \A i \in 1..n : news[i].no = new[i].newNo
    <3> DEFINE R == [no : Int, far : Nat]
    <3>1. \A i \in 1..n : [no |-> new[i].newNo, far |-> Abs(new[i].newNo - line)] \in R
      BY <2>3, <2>4
    <3>2. \A i \in 1..n : news[i].no = new[i].newNo
      BY <2>1
    <3> HIDE DEF R
    <3>3. news \in [1..n -> R]
      BY <2>1, <3>1
    <3> HIDE DEF news
    <3>4. news \in Seq(R) /\ Len(news) = n
      BY <2>1, <3>3
    <3>5. news # <<>>
      BY <2>1, <3>4
    <3> QED
      BY <3>2, <3>4, <3>5 DEF R
  <2> HIDE DEF news
  <2>6. PICK k \in 1..Len(news) : Nearest(news) = news[k].no
    BY <2>5, NearestIs
  <2>7. k \in 1..n /\ Nearest(news) = new[k].newNo
    BY <2>5, <2>6
  <2>8. InTheDiff(c, Post(c.path, "RIGHT", new[k].newNo))
    BY <2>2, <2>7, LineHasAPlace DEF L
  <2> HIDE DEF near
  <2>9. near = Post(c.path, "RIGHT", new[k].newNo)
    BY <1>1, <1>5, <2>7
  <2> QED
    BY <2>8, <2>9 DEF near
<1>6. CASE new = <<>>
  <2> HIDE DEF new, news
  <2> DEFINE Nos == {l.oldNo : l \in {x \in L : x.kind = "-"}}
             R == [no : Nos, far : Nat]
             m == Len(d.hunks)
  <2>1. m \in Nat /\ DOMAIN d.hunks = 1..m
    <3>1. PICK T : d.hunks \in Seq(T)
      BY <1>3 DEF Hunks, HunksIn, IsText
    <3> QED
      BY <3>1
  <2>2. ASSUME NEW h \in 1..m PROVE OldIn(h) \in Seq(R)
    <3>1. d.hunks[h].newStart \in Int /\ d.hunks[h].lines \in Seq(L)
      BY <1>3, <2>1 DEF Hunks, HunksIn
    <3> DEFINE hl == d.hunks[h].lines
               far == Far(h)
               gone == Gone(h)
    <3>2. far \in Nat
      <4> DEFINE a == d.hunks[h].newStart
      <4>1. a \in Int
        BY <3>1
      <4> HIDE DEF a
      <4>2. Abs(a - line) \in Nat
        BY <4>1, DistanceType
      <4> QED
        BY <4>2 DEF a
    <3>3. gone \in Seq({l \in ToSet(hl) : l.kind = "-"}) /\ hl \in Seq(L)
      BY <3>1, OfKindIs
    <3> HIDE DEF hl, far, gone, L
    <3>4. \A i \in DOMAIN gone : gone[i].oldNo \in Nos
      <4>1. ToSet(hl) \subseteq L
        BY <3>3 DEF ToSet
      <4> DEFINE G == {l \in ToSet(hl) : l.kind = "-"}
      <4>2. \A x \in G : x.oldNo \in Nos
        BY <4>1
      <4> HIDE DEF G, Nos
      <4> QED
        BY <3>3, <4>2 DEF G
    <3> HIDE DEF Nos
    <3>5. OldIn(h) = [i \in DOMAIN gone |-> [no |-> gone[i].oldNo, far |-> far]]
      BY DEF gone, far
    <3>6. \A i \in DOMAIN gone : [no |-> gone[i].oldNo, far |-> far] \in R
      BY <3>2, <3>4
    <3> DEFINE n == Len(gone)
    <3>7. n \in Nat /\ DOMAIN gone = 1..n
      BY <3>3
    <3> HIDE DEF OldIn, R, n
    <3>8. OldIn(h) \in [1..n -> R]
      BY <3>5, <3>6, <3>7
    <3> QED
      BY <3>7, <3>8
  <2>3. olds \in Seq(Seq(R))
    <3> DEFINE T == Seq(R)
    <3> HIDE DEF OldIn, R, m, T
    <3>1. \A h \in 1..m : OldIn(h) \in T
      BY <2>2 DEF T
    <3>2. olds \in [1..m -> T]
      BY <2>1, <3>1
    <3> HIDE DEF olds
    <3>3. olds \in Seq(T)
      BY <2>1, <3>2
    <3> QED
      BY <3>3 DEF T
  <2> HIDE DEF olds
  <2>4. old \in Seq(R)
    <3> HIDE DEF R
    <3> QED
      BY <2>3, FlattenType
  <2> HIDE DEF old
  <2>5. near = Post(c.path, "LEFT", Nearest(old)) /\ near.line # 0
    BY <1>1, <1>6
  <2>6. Nearest(old) # 0
    BY <2>5 DEF Post
  <2>7. old # <<>>
    BY <2>6 DEF Nearest
  <2>8. PICK k \in 1..Len(old) : Nearest(old) = old[k].no
    <3> HIDE DEF Nos
    <3> QED
      BY <2>4, <2>7, NearestIs
  <2>9. Nearest(old) \in Nos
    <3>1. \A x \in R : x.no \in Nos
      OBVIOUS
    <3> HIDE DEF R, Nos
    <3>2. old[k] \in R
      BY <2>4
    <3> QED
      BY <2>8, <3>1, <3>2
  <2>10. PICK l \in L : l.kind = "-" /\ Nearest(old) = l.oldNo
    BY <2>9
  <2>11. InTheDiff(c, Post(c.path, "LEFT", l.oldNo))
    BY <2>10, LineHasAPlace
  <2> QED
    BY <2>5, <2>10, <2>11
<1> QED
  BY <1>5, <1>6

\* A line that mentions a name is one of the added lines.
LEMMA NamingIs ==
  ASSUME NEW diff, NEW M, HunkLines(diff) \in Seq(M), NEW idents, AddedNaming(diff, idents) # <<>>
  PROVE  \E l \in ToSet(HunkLines(diff)) : AddedNaming(diff, idents)[1].newNo = l.newNo
<1> DEFINE ls == HunkLines(diff)
           new == OfKind(ls, "+")
           G == {l \in ToSet(ls) : l.kind = "+"}
           n == Len(new)
           K == {k \in DOMAIN new : \E i \in DOMAIN idents : Mentions(new[k].words, idents[i])}
           ks == Those(new, K)
<1>1. AddedNaming(diff, idents) = ks
  BY DEF AddedNaming
<1>2. new \in Seq(G)
  BY OfKindIs
<1> HIDE DEF new, K, G
<1>3. n \in Nat /\ DOMAIN new = 1..n
  BY <1>2
<1>4. ks \in Seq({new[i] : i \in 1..n})
  BY <1>3, ThoseAre
<1> HIDE DEF ks
<1>5. ks # <<>>
  BY <1>1
<1>6. 1 \in 1..Len(ks)
  BY <1>4, <1>5
<1>7. ks[1] \in {new[i] : i \in 1..n}
  BY <1>4, <1>6
<1>8. PICK i \in 1..n : ks[1] = new[i]
  BY <1>7
<1>9. new[i] \in G
  BY <1>2, <1>3
<1> QED
  BY <1>1, <1>8, <1>9 DEF G

\* The first of some places is one of them.
LEMMA FirstOfThose ==
  ASSUME NEW M, NEW s \in Seq(M), NEW I, Those(s, I) # <<>>
  PROVE  \E k \in DOMAIN s : k \in I /\ Those(s, I)[1] = s[k]
<1> DEFINE n == Len(s)
           ks == Those(s, I)
<1>1. n \in Nat /\ DOMAIN s = 1..n
  OBVIOUS
<1> HIDE DEF n
<1>2. ks \in Seq({s[i] : i \in 1..n}) /\ \E at : Listing(s, I \cap 1..n, ks, at)
  BY <1>1, ThoseAre
<1>3. PICK at : Listing(s, I \cap 1..n, ks, at)
  BY <1>2
<1> HIDE DEF ks
<1>4. 1 \in 1..Len(ks)
  BY <1>2 DEF ks
<1>5. at[1] \in I \cap 1..n /\ ks[1] = s[at[1]]
  BY <1>3, <1>4 DEF Listing
<1> QED
  BY <1>1, <1>5 DEF ks

\* A place in another file is in the diff of that file.
LEMMA OtherHasAPlace ==
  ASSUME ReviewsAssumption, NEW c, NEW fc, fc.others = [p \in DOMAIN Diffs(c) \ {c.path} |-> Diffs(c)[p]],
         NEW f, f.idents \in Seq(ToSet(f.idents)), NEW M, NEW paths \in Seq(M),
         \A k \in DOMAIN paths : paths[k] \in DOMAIN fc.others,
         OtherFile(fc, f, paths) # None
  PROVE  InTheDiff(c, OtherFile(fc, f, paths))
<1> DEFINE G == {k \in DOMAIN paths : definingRemovedLine(fc.others[paths[k]], f.idents) # 0}
           N == {k \in DOMAIN paths : AddedNaming(fc.others[paths[k]], f.idents) # <<>>}
           gone == Those(paths, G)
           named == Those(paths, N)
<1>1. OtherFile(fc, f, paths) =
        IF gone # <<>> THEN Post(gone[1], "LEFT", definingRemovedLine(fc.others[gone[1]], f.idents))
        ELSE IF named # <<>>
        THEN Post(named[1], "RIGHT", AddedNaming(fc.others[named[1]], f.idents)[1].newNo)
        ELSE None
  BY DEF OtherFile
<1>2. ASSUME NEW k \in DOMAIN paths
      PROVE  /\ paths[k] # c.path /\ fc.others[paths[k]] = Others[paths[k]]
             /\ HunkLines(Others[paths[k]]) \in Seq(ToSet(HunkLines(Others[paths[k]])))
  <2>1. paths[k] \in DOMAIN Diffs(c) /\ paths[k] # c.path
    OBVIOUS
  <2>2. paths[k] \in DOMAIN Others /\ fc.others[paths[k]] = Others[paths[k]]
    BY <2>1 DEF Diffs
  <2> QED
    BY <2>1, <2>2 DEF ReviewsAssumption
<1>3. \A p, side, no : /\ Post(p, side, no).path = p /\ Post(p, side, no).side = side
                       /\ Post(p, side, no).line = no
  BY DEF Post
<1>4. CASE gone # <<>>
  <2>1. PICK k \in DOMAIN paths : k \in G /\ gone[1] = paths[k]
    <3> HIDE DEF G
    <3> QED
      BY <1>4, FirstOfThose
  <2> DEFINE p == paths[k]
             d == Others[p]
             no == definingRemovedLine(d, f.idents)
  <2>2. no # 0 /\ p # c.path /\ HunkLines(d) \in Seq(ToSet(HunkLines(d)))
        /\ OtherFile(fc, f, paths) = Post(p, "LEFT", no)
    BY <1>1, <1>2, <1>4, <2>1
  <2> HIDE DEF p, d
  <2>3. PICK l \in ToSet(HunkLines(d)) : l.oldNo = no
    BY <2>2, RemovedDefines
  <2> HIDE DEF no
  <2>4. InTheDiff(c, Post(p, "LEFT", no))
    <3> DEFINE at == Post(p, "LEFT", no)
    <3>1. at.path = p /\ at.side = "LEFT" /\ at.line = no
      BY <1>3
    <3> HIDE DEF at
    <3>2. InTheDiff(c, at)
      BY <2>2, <2>3, <3>1 DEF InTheDiff, d
    <3> QED
      BY <3>2 DEF at
  <2> QED
    BY <2>2, <2>4
<1>5. CASE gone = <<>>
  <2>1. named # <<>>
    BY <1>1, <1>5
  <2>2. PICK k \in DOMAIN paths : k \in N /\ named[1] = paths[k]
    <3> HIDE DEF N
    <3> QED
      BY <2>1, FirstOfThose
  <2> DEFINE p == paths[k]
             d == Others[p]
             no == AddedNaming(d, f.idents)[1].newNo
  <2>3. AddedNaming(d, f.idents) # <<>> /\ p # c.path /\ HunkLines(d) \in Seq(ToSet(HunkLines(d)))
        /\ OtherFile(fc, f, paths) = Post(p, "RIGHT", no)
    BY <1>1, <1>2, <1>5, <2>1, <2>2
  <2> HIDE DEF p, d
  <2>4. PICK l \in ToSet(HunkLines(d)) : l.newNo = no
    BY <2>3, NamingIs
  <2> HIDE DEF no
  <2>5. InTheDiff(c, Post(p, "RIGHT", no))
    <3> DEFINE at == Post(p, "RIGHT", no)
    <3>1. at.path = p /\ at.side = "RIGHT" /\ at.line = no
      BY <1>3
    <3> HIDE DEF at
    <3>2. InTheDiff(c, at)
      BY <2>3, <2>4, <3>1 DEF InTheDiff, d
    <3> QED
      BY <3>2 DEF at
  <2> QED
    BY <2>3, <2>5
<1> QED
  BY <1>4, <1>5

\* The words of a review: those of the change, of what is quoted and of the names
\* the finding mentions.
ChangeWords(c) == UNION {ToSet(c.edits[i].words) : i \in DOMAIN c.edits}
QuotedWords(f) == UNION {ToSet(f.evidence[i].quote) : i \in DOMAIN f.evidence}

WordsOf(r) ==
  {Blank} \cup ChangeWords(r.change) \cup QuotedWords(r.finding) \cup ToSet(r.finding.idents)

\* The lines that are shown are texts, and so are the quotes.
LEMMA ShownWords ==
  ASSUME ReviewsAssumption, ChangesAssumption, NEW r \in Reviews
  PROVE  /\ Blank \in WordsOf(r)
         /\ Context(r.change).lines \in Seq(Seq(WordsOf(r)))
         /\ \A i \in DOMAIN r.finding.evidence : r.finding.evidence[i].quote \in Seq(WordsOf(r))
         /\ r.finding.idents \in Seq(WordsOf(r))
         /\ \A i \in DOMAIN Context(r.change).lines :
              \E k \in DOMAIN r.change.edits : Context(r.change).lines[i] = r.change.edits[k].words
         /\ \A i \in DOMAIN Context(r.change).lines :
              i \in DOMAIN NewFile(r.change) /\ Context(r.change).lines[i] = NewFile(r.change)[i]
<1> DEFINE c == r.change
           f == r.finding
           W == WordsOf(r)
           new == NewFile(c)
           shown == Context(c).lines
<1>1. IsChange(c) /\ MaxFileLines \in Nat
  BY DEF ChangesAssumption, ReviewsAssumption
<1>2. /\ \A i \in DOMAIN c.edits : c.edits[i].words \in Seq(ToSet(c.edits[i].words))
      /\ \A i \in DOMAIN f.evidence : f.evidence[i].quote \in Seq(ToSet(f.evidence[i].quote))
      /\ f.idents \in Seq(ToSet(f.idents))
  BY DEF ReviewsAssumption
<1>3. /\ \A i \in DOMAIN c.edits : ToSet(c.edits[i].words) \subseteq W
      /\ \A i \in DOMAIN f.evidence : ToSet(f.evidence[i].quote) \subseteq W
      /\ ToSet(f.idents) \subseteq W /\ Blank \in W
  <2>1. W = {Blank} \cup ChangeWords(c) \cup QuotedWords(f) \cup ToSet(f.idents)
    BY DEF WordsOf
  <2> HIDE DEF W, c, f
  <2>2. \A i \in DOMAIN c.edits : ToSet(c.edits[i].words) \subseteq ChangeWords(c)
    BY DEF ChangeWords
  <2>3. \A i \in DOMAIN f.evidence : ToSet(f.evidence[i].quote) \subseteq QuotedWords(f)
    BY DEF QuotedWords
  <2> QED
    BY <2>1, <2>2, <2>3
<1> HIDE DEF W, c, f
<1>4. ASSUME NEW i \in DOMAIN c.edits PROVE c.edits[i].words \in Seq(W)
  <2> DEFINE T == ToSet(c.edits[i].words)
             x == c.edits[i].words
  <2>1. x \in Seq(T) /\ T \subseteq W
    BY <1>2, <1>3
  <2> HIDE DEF T, x
  <2>2. x \in Seq(W)
    BY <2>1, SeqOfMore
  <2> QED
    BY <2>2 DEF x
<1>5. ASSUME NEW i \in DOMAIN f.evidence PROVE f.evidence[i].quote \in Seq(W)
  <2> DEFINE T == ToSet(f.evidence[i].quote)
             x == f.evidence[i].quote
  <2>1. x \in Seq(T) /\ T \subseteq W
    BY <1>2, <1>3
  <2> HIDE DEF T, x
  <2>2. x \in Seq(W)
    BY <2>1, SeqOfMore
  <2> QED
    BY <2>2 DEF x
<1>6. f.idents \in Seq(W)
  <2> DEFINE T == ToSet(f.idents)
             x == f.idents
  <2>1. x \in Seq(T) /\ T \subseteq W
    BY <1>2, <1>3
  <2> HIDE DEF T, x
  <2>2. x \in Seq(W)
    BY <2>1, SeqOfMore
  <2> QED
    BY <2>2 DEF x
<1>7. PICK L : new \in Seq(L)
  BY <1>1, NewFileIs
<1>8. \A i \in DOMAIN new : \E k \in DOMAIN c.edits : new[i] = c.edits[k].words
  BY <1>1, NewFileIs
<1>9. shown = SubSeq(new, 1, Min({Len(new), MaxFileLines}))
  BY DEF Context, FileContext
<1> DEFINE m == Min({Len(new), MaxFileLines})
<1>10. Len(new) \in Nat /\ m \in Nat /\ m <= Len(new)
  <2>1. Len(new) \in Nat
    BY <1>7
  <2> DEFINE I == {Len(new), MaxFileLines}
             l == Len(new)
  <2>2. I \in SUBSET Nat /\ I # {} /\ l \in I
    BY <1>1, <2>1
  <2> HIDE DEF I
  <2>3. Min(I) \in I /\ Min(I) <= l
    BY <2>2, MinIs
  <2>4. Min(I) \in Nat
    BY <2>2, <2>3
  <2> QED
    BY <2>1, <2>3, <2>4 DEF I
<1> HIDE DEF new, m, shown
<1>11. shown \in Seq(L) /\ Len(shown) = m /\ \A i \in 1..m : shown[i] = new[i] /\ i \in DOMAIN new
  <2>1. shown = SubSeq(new, 1, m)
    BY <1>9 DEF m
  <2>2. new \in Seq(L) /\ m \in Nat /\ m <= Len(new)
    BY <1>7, <1>10
  <2>3. shown \in Seq(L) /\ Len(shown) = m
    BY <2>1, <2>2
  <2>4. \A i \in 1..m : shown[i] = new[i]
    BY <2>1, <2>2
  <2>5. \A i \in 1..m : i \in DOMAIN new
    BY <2>2
  <2> QED
    BY <2>3, <2>4, <2>5
<1>12. DOMAIN shown = 1..m
  BY <1>11
<1>13. \A i \in 1..m : \E k \in DOMAIN c.edits : shown[i] = c.edits[k].words
  BY <1>8, <1>11
<1>14. \A i \in 1..m : shown[i] \in Seq(W)
  BY <1>4, <1>13
<1>15. shown \in Seq(Seq(W))
  <2> DEFINE T == Seq(W)
  <2>1. \A i \in 1..m : shown[i] \in T
    BY <1>14
  <2> HIDE DEF T
  <2>2. shown \in Seq(T)
    BY <1>11, <1>12, <2>1
  <2> QED
    BY <2>2 DEF T
<1> QED
  BY <1>3, <1>5, <1>6, <1>11, <1>12, <1>13, <1>15 DEF shown, new, c, f, W

\* The names that a removed declaration is looked for by are a list.
LEMMA IdentifiersType ==
  ASSUME NEW L, NEW fc, fc.lines \in Seq(Seq(L)), NEW f, f.idents \in Seq(L),
         f.anchor[1] \in Int, f.anchor[2] \in Int, AnchorInFile(fc, f)
  PROVE  identifiers(fc, f) \in Seq(L)
<1> DEFINE lines == fc.lines
           a == f.anchor[1]
           b == f.anchor[2]
           part == SubSeq(lines, a, b)
           words == FlattenSeq(part)
           K == {k \in DOMAIN words : words[k] \in Names}
           ks == Those(words, K)
<1>1. lines \in Seq(Seq(L)) /\ a \in Int /\ b \in Int /\ 1 <= a /\ a <= b /\ b <= Len(lines)
  BY DEF AnchorInFile
<1>2. identifiers(fc, f) = ks \o f.idents
  BY DEF identifiers
<1> HIDE DEF lines, a, b
<1>3. part \in Seq(Seq(L))
  <2> DEFINE T == Seq(L)
  <2>1. lines \in Seq(T)
    BY <1>1
  <2> HIDE DEF T
  <2>2. SubSeq(lines, a, b) \in Seq(T)
    BY <1>1, <2>1
  <2> QED
    BY <2>2 DEF T
<1> HIDE DEF part
<1>4. words \in Seq(L)
  BY <1>3, FlattenType
<1> HIDE DEF words, K
<1>5. ks \in Seq(L)
  <2> DEFINE n == Len(words)
             G == {words[i] : i \in 1..n}
  <2>1. n \in Nat /\ DOMAIN words = 1..n /\ G \subseteq L
    BY <1>4
  <2> HIDE DEF n, ks
  <2>2. ks \in Seq(G)
    BY <2>1, ThoseAre DEF ks
  <2> HIDE DEF G
  <2> QED
    BY <2>1, <2>2, SeqOfMore
<1> HIDE DEF ks
<1> QED
  BY <1>2, <1>5

\* A finding is posted at a line of a diff of the change (anchorsInHunks, reanchor).
LEMMA PostedHasAPlace ==
  ASSUME ReviewsAssumption, ChangesAssumption, PublicationAssumption,
         NEW r \in Reviews, NoHeaderLike(r.change),
         AnchorInFile(Context(r.change), r.finding),
         PostedAt(Context(r.change), r.finding) # None
  PROVE  InTheDiff(r.change, PostedAt(Context(r.change), r.finding))
<1> DEFINE c == r.change
           f == r.finding
           fc == Context(c)
           d == fc.diff
           at == PostedAt(fc, f)
           W == WordsOf(r)
<1>1. /\ f.anchor[1] \in Int /\ f.anchor[2] \in Int /\ f.idents \in Seq(ToSet(f.idents))
      /\ MaxFileLines \in Nat
  BY DEF ReviewsAssumption
<1>2. IsChange(c) /\ NoHeaderLike(c)
  BY DEF ChangesAssumption
<1>3. d # None => Hunks(d.hunks, c) /\ HunkLines(d) = Those(AllLines(c), Shown(c))
  BY <1>1, <1>2, DiffShown
<1>4. fc.path = c.path
  BY <1>1, <1>2, ShownLines
<1>5. d # None => HunkLines(d) \in Seq(LinesOf(c))
  BY <1>2, <1>3, DiffLines
<1>6. fc.lines \in Seq(Seq(W)) /\ f.idents \in Seq(W)
  BY ShownWords
<1>7. fc.others = [p \in DOMAIN Diffs(c) \ {c.path} |-> Diffs(c)[p]]
  BY DEF Context, FileContext
<1>8. AnchorInFile(fc, f) /\ at # None
  OBVIOUS
<1>9. at = IF anchorsInHunks(fc, f) THEN Post(fc.path, "RIGHT", f.anchor[2]) ELSE reanchor(fc, f)
  BY DEF PostedAt
<1> SUFFICES InTheDiff(c, at)
  OBVIOUS
<1> HIDE DEF c, f, fc, d, W, at
<1>10. \A p, side, no : /\ Post(p, side, no).path = p /\ Post(p, side, no).side = side
                        /\ Post(p, side, no).line = no
  BY DEF Post
<1>11. CASE anchorsInHunks(fc, f)
  <2> DEFINE n == f.anchor[2]
  <2>1. n \in Anchor(f)
    BY <1>1, <1>8 DEF Anchor, AnchorInFile
  <2>2. d # None /\ n \in AnchorableLines(d)
    BY <1>11, <2>1 DEF anchorsInHunks, anchorable, d
  <2>3. PICK i \in Shown(c) : c.edits[i].op # "-" /\ LinesUpTo(c, i, "+") = n
    BY <1>2, <1>3, <2>2, LinesFound
  <2> HIDE DEF n
  <2>4. InTheDiff(c, Post(c.path, "RIGHT", n))
    <3> DEFINE to == Post(c.path, "RIGHT", n)
    <3>1. to.path = c.path /\ to.side = "RIGHT" /\ to.line = n
      BY <1>10
    <3> HIDE DEF to
    <3>2. InTheDiff(c, to)
      BY <2>3, <3>1 DEF InTheDiff
    <3> QED
      BY <3>2 DEF to
  <2>5. at = Post(c.path, "RIGHT", n)
    BY <1>4, <1>9, <1>11 DEF n
  <2> QED
    BY <2>4, <2>5
<1>12. CASE ~anchorsInHunks(fc, f) /\ d # None /\ d.hunks # <<>>
  <2> DEFINE idents == identifiers(fc, f)
             gone == definingRemovedLine(d, idents)
             near == nearestChange(fc, f.anchor[1])
  <2>1. at = IF gone # 0 THEN Post(fc.path, "LEFT", gone) ELSE IF near.line # 0 THEN near ELSE None
    BY <1>9, <1>12 DEF reanchor, d
  <2>2. CASE gone # 0
    <3>1. idents \in Seq(W)
      BY <1>1, <1>6, <1>8, IdentifiersType
    <3> HIDE DEF idents
    <3>2. PICK l \in ToSet(HunkLines(d)) : l.kind = "-" /\ l.oldNo = gone
      BY <1>5, <1>12, <2>2, <3>1, RemovedDefines
    <3>3. l \in LinesOf(c)
      <4> DEFINE ls == HunkLines(d)
                 L == LinesOf(c)
      <4>1. ls \in Seq(L) /\ l \in ToSet(ls)
        BY <1>5, <1>12
      <4> HIDE DEF ls, L
      <4>2. l \in L
        BY <4>1 DEF ToSet
      <4> QED
        BY <4>2 DEF L
    <3> HIDE DEF gone
    <3>4. InTheDiff(c, Post(c.path, "LEFT", gone))
      BY <1>2, <3>2, <3>3, LineHasAPlace
    <3> QED
      BY <1>4, <2>1, <2>2, <3>4
  <2>3. CASE gone = 0
    <3> HIDE DEF gone
    <3>1. near.line # 0 /\ at = near
      BY <1>8, <2>1, <2>3
    <3>2. InTheDiff(c, near)
      BY <1>1, <1>2, <1>3, <1>4, <1>5, <1>12, <3>1, NearestHasAPlace DEF d
    <3> QED
      BY <3>1, <3>2
  <2> QED
    BY <2>2, <2>3
<1>13. CASE ~anchorsInHunks(fc, f) /\ (d = None \/ d.hunks = <<>>)
  <2> DEFINE K == {k \in DOMAIN Paths : Paths[k] \in DOMAIN fc.others}
             paths == Those(Paths, K)
             n == Len(Paths)
             P == {Paths[i] : i \in 1..n}
  <2>1. at = OtherFile(fc, f, paths)
    BY <1>9, <1>13 DEF reanchor, d
  <2>2. n \in Nat /\ DOMAIN Paths = 1..n
    BY DEF PublicationAssumption
  <2> HIDE DEF K, n
  <2>3. paths \in Seq(P) /\ \E to : Listing(Paths, K \cap 1..n, paths, to)
    BY <2>2, ThoseAre
  <2> HIDE DEF P, paths
  <2>4. PICK to : Listing(Paths, K \cap 1..n, paths, to)
    BY <2>3
  <2>5. ASSUME NEW k \in DOMAIN paths PROVE paths[k] \in DOMAIN fc.others
    <3>1. k \in 1..Len(paths)
      BY <2>3
    <3>2. to[k] \in K \cap 1..n /\ paths[k] = Paths[to[k]]
      BY <2>4, <3>1 DEF Listing
    <3> QED
      BY <3>2 DEF K
  <2>6. InTheDiff(c, OtherFile(fc, f, paths))
    BY <1>1, <1>7, <1>8, <2>1, <2>3, <2>5, OtherHasAPlace
  <2> QED
    BY <2>1, <2>6
<1> QED
  BY <1>11, <1>12, <1>13

(***************************************************************************)
(* What reaches a person.                                                  *)
(***************************************************************************)
\* Places of a list are positive numbers.
LEMMA PlacesArePositive ==
  ASSUME NEW n \in Nat, NEW I, \A k \in I : k \in 1..n
  PROVE  I \in SUBSET Nat /\ 0 \notin I
OBVIOUS

\* What there is no reason to drop (DropReason).
LEMMA NothingSaidAgainst ==
  ASSUME NEW fc, NEW f, NEW i, NEW n \in Nat, NEW levels, DOMAIN levels = 1..n, Len(levels) = n,
         NEW refuted, DropReason(fc, f, i, levels, refuted) = ""
  PROVE  /\ AnchorInFile(fc, f) /\ PostedAt(fc, f) # None
         /\ \A k \in 1..n : levels[k] \notin {"failed", "ambiguous"}
         /\ \A c \in ToSet(f.claims) : Disposition(c) # "false"
         /\ checkAbsenceClaims(f, fc.path, fc.lines, fc.partial) # "falsified"
<1> DEFINE Bad(k) == levels[k] \in {"failed", "ambiguous"}
           I == {k \in 1..Len(levels) : Bad(k)}
           bad == IF I # {} THEN Min(I) ELSE 0
<1>1. SelectInSeq(levels, LAMBDA v : v \in {"failed", "ambiguous"}) = bad
  BY DEF SelectInSeq
<1> HIDE DEF bad
<1>2. /\ AnchorInFile(fc, f) /\ PostedAt(fc, f) # None /\ bad = 0
      /\ \A c \in ToSet(f.claims) : Disposition(c) # "false"
      /\ checkAbsenceClaims(f, fc.path, fc.lines, fc.partial) # "falsified"
  BY <1>1 DEF DropReason
<1>3. I = {}
  <2> SUFFICES ASSUME I # {} PROVE FALSE
    OBVIOUS
  <2>1. I \in SUBSET Nat /\ 0 \notin I
    <3>1. \A k \in I : k \in 1..n
      <4> HIDE DEF Bad
      <4> QED
        BY Zenon
    <3> HIDE DEF I
    <3> QED
      BY <3>1, PlacesArePositive
  <2> HIDE DEF I
  <2>2. Min(I) \in I
    BY <2>1, MinIs
  <2> QED
    BY <1>2, <2>1, <2>2 DEF bad
<1>4. \A k \in 1..n : ~Bad(k)
  <2> HIDE DEF Bad
  <2> QED
    BY <1>3
<1> QED
  BY <1>2, <1>4

\* An absence claim that the file contradicts is found out (checkAbsenceClaims).
LEMMA NoneIsFalsified ==
  ASSUME NEW f, NEW path, NEW lines, NEW partial,
         checkAbsenceClaims(f, path, lines, partial) # "falsified",
         NEW c \in ToSet(f.claims), Pertinent(c, path)
  PROVE  ~Falsifying(lines, c)
<1> DEFINE D == {checkDeclaredAbsenceClaim(x, path, lines, partial) : x \in declaredAbsenceClaims(f)}
           prose == checkProseAbsenceClaim(f, lines)
           came == checkDeclaredAbsenceClaim(c, path, lines, partial)
<1>1. checkAbsenceClaims(f, path, lines, partial) =
        IF "falsified" \in D \cup {prose} THEN "falsified"
        ELSE IF D # {} THEN IF "note" \in D THEN "note" ELSE "verified"
        ELSE IF declaresAbsence(f) THEN "note" ELSE prose
  BY DEF checkAbsenceClaims
<1>2. IsAbsenceClaim(c) /\ c \in declaredAbsenceClaims(f)
  BY DEF Pertinent, declaredAbsenceClaims
<1>3. came \in D
  BY <1>2
<1>4. Checkable(c, path)
  BY DEF Pertinent, Checkable, symbolSubject
<1>5. came = IF Falsifying(lines, c) THEN "falsified" ELSE IF partial THEN "note" ELSE "verified"
  BY <1>4 DEF checkDeclaredAbsenceClaim, Falsifying
<1> HIDE DEF D, prose, came
<1> QED
  BY <1>1, <1>3, <1>5

\* What was not found false at the head is not (Disposition).
LEMMA NotFalseAtHead ==
  ASSUME NEW c, Disposition(c) # "false"
  PROVE  TrueAtHead(c)
<1>0. IsAbsenceClaim(c) => c.type # "path_exists" /\ c.type # "symbol_exists"
  BY AbsenceTypes
<1>1. CASE c.type = "path_exists"
  <2>1. Disposition(c) = IF c.subject \in HeadPaths THEN "verified" ELSE "false"
    BY <1>0, <1>1 DEF Disposition
  <2> QED
    BY <1>1, <2>1 DEF TrueAtHead
<1>2. CASE c.type = "symbol_exists"
  <2>1. Disposition(c) = IF ~symbolSubject(c.subject) THEN "note"
                         ELSE IF c.subject \in HeadSymbols THEN "verified" ELSE "false"
    BY <1>0, <1>2 DEF Disposition
  <2> QED
    BY <1>2, <2>1 DEF TrueAtHead, symbolSubject
<1>3. CASE c.type # "path_exists" /\ c.type # "symbol_exists"
  BY <1>3 DEF TrueAtHead
<1> QED
  BY <1>1, <1>2, <1>3

\* A finding there is no reason to drop stands.
LEMMA KeptStands ==
  ASSUME ReviewsAssumption, ChangesAssumption, PublicationAssumption,
         NEW r \in Reviews, NoHeaderLike(r.change),
         \A k \in DOMAIN r.change.edits : Shows(r.change.edits[k].words),
         NEW q, q.change = r.change, NEW v, NEW i, q.findings[i] = r.finding, IsMadeOf(v, q, i)
  PROVE  Stands(q, v)
<1> DEFINE c == r.change
           f == r.finding
           fc == Context(c)
           shown == fc.lines
           W == WordsOf(r)
           levels == EvidenceLevels(fc, f)
           n == Len(f.evidence)
           normalizer == newNormalizer(shown)
<1>1. /\ v.of = i /\ v.posted = PostedAt(fc, f)
      /\ DropReason(fc, f, i, levels, ResultOf(q, i) = "unsupported") = ""
  BY DEF IsMadeOf, ReasonOf
<1>2. IsChange(c) /\ MaxFileLines \in Nat /\ f.evidence \in Seq(ToSet(f.evidence))
  BY DEF ChangesAssumption, ReviewsAssumption
<1>3. n \in Nat /\ DOMAIN f.evidence = 1..n
  BY <1>2
<1>4. /\ Blank \in W /\ shown \in Seq(Seq(W))
      /\ \A k \in DOMAIN f.evidence : f.evidence[k].quote \in Seq(W)
      /\ \A k \in DOMAIN shown : \E j \in DOMAIN c.edits : shown[k] = c.edits[j].words
  BY ShownWords
<1>5. fc.path = c.path
  BY <1>2, ShownLines
<1>6. levels = [k \in DOMAIN f.evidence |-> matchCascade(f.evidence[k], shown, normalizer)]
  BY DEF EvidenceLevels
<1>7. IsNormalizer(normalizer)
  <2> HIDE DEF W, shown
  <2> QED
    BY <1>4, NormalizerIs
<1>8. \A k \in DOMAIN shown : Shows(shown[k])
  BY <1>4
<1>9. AnchorInFile(fc, f) /\ PostedAt(fc, f) # None => InTheDiff(c, PostedAt(fc, f))
  BY PostedHasAPlace
<1>10. Stands(q, v) <=>
         /\ \A k \in DOMAIN f.evidence : Quoted(shown, f.evidence[k].quote)
         /\ \A x \in ToSet(f.claims) : /\ TrueAtHead(x)
                                       /\ Pertinent(x, c.path) => ~Contradicted(shown, x)
         /\ InTheDiff(c, v.posted)
  BY <1>1 DEF Stands
<1> HIDE DEF c, f, fc, shown, W, levels, n, normalizer
<1>11. DOMAIN levels = 1..n /\ Len(levels) = n
  BY <1>3, <1>6
<1>12. /\ AnchorInFile(fc, f) /\ PostedAt(fc, f) # None
       /\ \A k \in 1..n : levels[k] \notin {"failed", "ambiguous"}
       /\ \A x \in ToSet(f.claims) : Disposition(x) # "false"
       /\ checkAbsenceClaims(f, fc.path, fc.lines, fc.partial) # "falsified"
  <2> DEFINE refuted == ResultOf(q, i) = "unsupported"
  <2>1. DropReason(fc, f, i, levels, refuted) = ""
    BY <1>1
  <2> HIDE DEF refuted
  <2> QED
    BY <1>3, <1>11, <2>1, NothingSaidAgainst
<1>13. ASSUME NEW k \in DOMAIN f.evidence PROVE Quoted(shown, f.evidence[k].quote)
  <2> DEFINE e == f.evidence[k]
  <2>1. matchCascade(e, shown, normalizer) \notin {"failed", "ambiguous"}
    BY <1>3, <1>6, <1>12
  <2>2. e.quote \in Seq(W)
    BY <1>4
  <2> HIDE DEF e
  <2>3. Quoted(shown, e.quote)
    BY <1>4, <1>7, <2>1, <2>2, CascadeQuotes
  <2> QED
    BY <2>3 DEF e
<1>14. ASSUME NEW x \in ToSet(f.claims)
       PROVE  TrueAtHead(x) /\ (Pertinent(x, c.path) => ~Contradicted(shown, x))
  <2>1. TrueAtHead(x)
    BY <1>12, NotFalseAtHead
  <2>2. ASSUME Pertinent(x, c.path) PROVE ~Contradicted(shown, x)
    <3>1. ~Falsifying(shown, x)
      BY <1>5, <1>12, <2>2, NoneIsFalsified DEF shown
    <3>2. IsAbsenceClaim(x) /\ absenceClaimSymbol(x) \in Names
      BY <2>2 DEF Pertinent
    <3> QED
      BY <1>8, <3>1, <3>2, ContradictionIsFound
  <2> QED
    BY <2>1, <2>2
<1>15. InTheDiff(c, v.posted)
  BY <1>1, <1>9, <1>12
<1> QED
  BY <1>10, <1>13, <1>14, <1>15

\* PublishedStands: of the findings of a review of any change, whose lines show
\* what they do and do not begin as a header does, one reaches a person only when
\* its quotes are on the lines that are shown, its claims are contradicted neither
\* by the file nor by the repository, and its place is in the diff
\* (validateFindings).
THEOREM WhatIsPublishedStands ==
  ASSUME \A r \in Reviews : /\ NoHeaderLike(r.change)
                            /\ \A k \in DOMAIN r.change.edits : Shows(r.change.edits[k].words)
  PROVE  Spec => []PublishedStands
<1>1. AskedInv => PublishedStands
  <2> SUFFICES ASSUME AskedInv, question.about = "review", NEW v \in ToSet(Verdict(question).out)
               PROVE  Stands(question, v)
    BY DEF PublishedStands
  <2>1. PICK r \in Reviews :
         /\ question.change = r.change
         /\ question.findings \in Seq({r.finding}) /\ question.answers \in Seq({r.answer})
         /\ Len(question.findings) = Len(question.answers) /\ Len(question.findings) # 0
    BY DEF AskedInv
  <2> DEFINE out == Verdict(question).out
             n == Len(question.findings)
  <2>2. GoesOut(Verdict(question), question, n)
    BY <2>1, VerdictIs
  <2>3. PICK j \in DOMAIN out : v = out[j]
    BY DEF ToSet
  <2>4. PICK i \in 1..n : IsMadeOf(out[j], question, i)
    BY <2>2 DEF GoesOut
  <2> HIDE DEF out
  <2>5. question.findings[i] = r.finding
    BY <2>1
  <2> QED
    BY <2>1, <2>3, <2>4, <2>5, KeptStands, ReviewsAssumption, ChangesAssumption,
       PublicationAssumption
<1> QED
  BY <1>1, AskedStays, PTL

\* A quote of some lines is one of a file that begins with them.
LEMMA QuotedInMore ==
  ASSUME NEW lines, NEW new, NEW quote, Quoted(lines, quote),
         \A i \in DOMAIN lines : i \in DOMAIN new /\ lines[i] = new[i]
  PROVE  Quoted(new, quote)
<1> DEFINE segs == splitElision(quote)
           Lies(x, at) == \A i \in DOMAIN segs :
                            /\ Includes(Visible(x[at[i]]), Visible(segs[i]))
                            /\ i > 1 => at[i - 1] < at[i]
<1>1. CASE \E i \in DOMAIN lines : Includes(Visible(lines[i]), Visible(quote))
  BY <1>1 DEF Quoted
<1>2. CASE \E at \in [DOMAIN segs -> DOMAIN lines] : Lies(lines, at)
  <2>1. PICK at \in [DOMAIN segs -> DOMAIN lines] : Lies(lines, at)
    BY <1>2
  <2>2. at \in [DOMAIN segs -> DOMAIN new] /\ \A i \in DOMAIN segs : lines[at[i]] = new[at[i]]
    OBVIOUS
  <2>3. Lies(new, at)
    BY <2>1, <2>2
  <2>4. \E to \in [DOMAIN segs -> DOMAIN new] : Lies(new, to)
    BY <2>2, <2>3
  <2> QED
    BY <2>4 DEF Quoted
<1> QED
  BY <1>1, <1>2 DEF Quoted

\* BlocksOnlyWhenProved: with the verifier on, of the findings of a review of any
\* change, whose lines show what they do and do not begin as a header does, one
\* blocks only when it is on a line the change added, certain, its quotes are there,
\* its claims are true of the whole file, which does not contradict its prose, some
\* claim of an absence is declared when it asserts one, and the verifier supported
\* it (BlockingCandidate, validateFindings).
THEOREM BlockedIsProved ==
  ASSUME Verifies,
         \A r \in Reviews : /\ NoHeaderLike(r.change)
                            /\ \A k \in DOMAIN r.change.edits : Shows(r.change.edits[k].words)
  PROVE  Spec => []BlocksOnlyWhenProved
<1>1. AskedInv => BlocksOnlyWhenProved
  <2> SUFFICES ASSUME AskedInv, question.about = "review",
                      NEW v \in ToSet(Verdict(question).out), v.blocks
               PROVE  /\ Proved(question.findings[v.of], question.change)
                      /\ question.answers[v.of].verdict = "supported"
    BY DEF BlocksOnlyWhenProved
  <2>1. PICK r \in Reviews :
         /\ question.change = r.change
         /\ question.findings \in Seq({r.finding}) /\ question.answers \in Seq({r.answer})
         /\ Len(question.findings) = Len(question.answers) /\ Len(question.findings) # 0
    BY DEF AskedInv
  <2> DEFINE out == Verdict(question).out
             n == Len(question.findings)
  <2>2. GoesOut(Verdict(question), question, n)
    BY <2>1, VerdictIs
  <2>3. PICK j \in DOMAIN out : v = out[j]
    BY DEF ToSet
  <2>4. PICK i \in 1..n : IsMadeOf(out[j], question, i)
    BY <2>2 DEF GoesOut
  <2> HIDE DEF out
  <2>5. v.of = i /\ BlocksAs(question, i)
    BY <2>3, <2>4 DEF IsMadeOf
  <2>6. question.answers[i] = r.answer
    <3>1. i \in 1..Len(question.answers)
      BY <2>1
    <3> QED
      BY <2>1, <3>1
  <2>7. r.answer.verdict # "" /\ MaxFileLines \in Nat
    BY ReviewsAssumption
  <2>8. IsChange(r.change)
    BY ChangesAssumption
  <2>10. question.findings[i] = r.finding
    BY <2>1
  <2>11. Stands(question, v)
    BY <2>1, <2>3, <2>4, <2>10, KeptStands, ReviewsAssumption, ChangesAssumption,
       PublicationAssumption
  <2>12. \A k \in DOMAIN r.finding.evidence :
           Quoted(NewFile(r.change), r.finding.evidence[k].quote)
    <3> TAKE k \in DOMAIN r.finding.evidence
    <3> DEFINE lines == Context(r.change).lines
               new == NewFile(r.change)
               e == r.finding.evidence[k]
    <3>1. Quoted(lines, e.quote)
      BY <2>1, <2>5, <2>10, <2>11 DEF Stands
    <3>2. \A l \in DOMAIN lines : l \in DOMAIN new /\ lines[l] = new[l]
      BY ShownWords, ReviewsAssumption, ChangesAssumption
    <3> HIDE DEF lines, new, e
    <3>3. Quoted(new, e.quote)
      BY <3>1, <3>2, QuotedInMore
    <3> QED
      BY <3>3 DEF new, e
  <2>13. r.finding.prose # None =>
           /\ r.finding.prose.names \subseteq Names
           /\ r.finding.prose.shape \in {"definition", "call", "occurrence"}
    BY ProseAssumption
  <2> HIDE DEF n
  <2>9. Proved(question.findings[i], r.change) /\ question.answers[i].verdict = "supported"
    <3> DEFINE q == question
               f == q.findings[i]
               c == r.change
    <3>1. /\ \A k \in DOMAIN f.evidence : Quoted(NewFile(c), f.evidence[k].quote)
          /\ f.prose # None => /\ f.prose.names \subseteq Names
                               /\ f.prose.shape \in {"definition", "call", "occurrence"}
      BY <2>10, <2>12, <2>13
    <3>2. q.change = c /\ IsChange(c) /\ NoHeaderLike(c) /\ MaxFileLines \in Nat
      BY <2>1, <2>7, <2>8
    <3>4. \A k \in DOMAIN c.edits : Shows(c.edits[k].words)
      OBVIOUS
    <3>5. q.answers[i].verdict # "" /\ BlocksAs(q, i)
      BY <2>5, <2>6, <2>7
    <3> HIDE DEF q, c
    <3>3. Proved(q.findings[i], c) /\ q.answers[i].verdict = "supported"
      BY <3>1, <3>2, <3>4, <3>5, BlockIsProved
    <3> QED
      BY <3>3 DEF q, c
  <2> QED
    BY <2>1, <2>5, <2>9
<1> QED
  BY <1>1, AskedStays, PTL

-----------------------------------------------------------------------------
(* What is published: the findings in the order the budget takes them.      *)

\* A finding as a run has it.
IsFinding(f) ==
  /\ f.confidence \in {"certain", "likely", "question"}
  /\ f.anchor[1] \in Int /\ f.anchor[2] \in Int /\ f.says \in Seq(ToSet(f.says))

\* A place in the list of the paths, or 0.
PlaceAmong(path) == SelectInSeq(Paths, LAMBDA p : p = path)

\* Which is a number, for any path.
LEMMA PlaceInPaths ==
  ASSUME PublicationAssumption, NEW path
  PROVE  PlaceAmong(path) \in Int
<1> DEFINE I == {i \in 1..Len(Paths) : Paths[i] = path}
<1>1. Len(Paths) \in Nat
  BY DEF PublicationAssumption
<1>2. PlaceAmong(path) = IF I # {} THEN Min(I) ELSE 0
  BY DEF PlaceAmong, SelectInSeq
<1>3. CASE I # {}
  <2>1. I \in SUBSET Nat
    BY <1>1
  <2>2. PICK i \in I : \A j \in I : i <= j
    <3> HIDE DEF I
    <3> QED
      BY <1>3, <2>1, LeastElement
  <2>3. Min(I) = i
    <3> HIDE DEF I
    <3> QED
      BY <2>1, <2>2, SelectsFirst
  <2> HIDE DEF I
  <2> QED
    BY <1>2, <1>3, <2>1, <2>2, <2>3
<1> HIDE DEF I
<1> QED
  BY <1>2, <1>3

\* Four numbers, compared from the first on.
Keyed(a) == a[1] \in Int /\ a[2] \in Int /\ a[3] \in Int /\ a[4] \in Int

\* One key is before another in the order of its four numbers.
Less(a, b) ==
  \/ a[1] < b[1]
  \/ a[1] = b[1] /\ a[2] < b[2]
  \/ a[1] = b[1] /\ a[2] = b[2] /\ a[3] < b[3]
  \/ a[1] = b[1] /\ a[2] = b[2] /\ a[3] = b[3] /\ a[4] < b[4]

\* Two keys none of which is before the other.
Alike(a, b) == a[1] = b[1] /\ a[2] = b[2] /\ a[3] = b[3] /\ a[4] = b[4]

\* Keys are ordered, all of them.
LEMMA LessIsAnOrder ==
  ASSUME NEW a, NEW b, Keyed(a), Keyed(b)
  PROVE  /\ ~Less(a, a)
         /\ Less(a, b) \/ Less(b, a) \/ Alike(a, b)
         /\ ~(Less(a, b) /\ Less(b, a))
  BY DEF Keyed, Less, Alike

\* And the order is transitive.
LEMMA LessGoesOn ==
  ASSUME NEW a, NEW b, NEW c, Keyed(a), Keyed(b), Keyed(c)
  PROVE  /\ Less(a, b) /\ Less(b, c) => Less(a, c)
         /\ Less(a, b) /\ Alike(b, c) => Less(a, c)
         /\ Alike(a, b) /\ Less(b, c) => Less(a, c)
         /\ Alike(a, b) /\ Alike(b, c) => Alike(a, c)
  BY DEF Keyed, Less, Alike

\* A finding's key is such a one, and its first number says whether it blocks.
LEMMA KeyOf ==
  ASSUME PublicationAssumption, NEW f, IsFinding(f)
  PROVE  /\ Keyed(BudgetKey(f))
         /\ f.blocks => BudgetKey(f)[1] = 0
         /\ ~f.blocks => BudgetKey(f)[1] = 1
<1> DEFINE rank == [certain |-> 0, likely |-> 1, question |-> 2]
           place == PlaceAmong(f.path)
           block == IF f.blocks THEN 0 ELSE 1
           might == IF f.category \in MayBlock THEN 0 ELSE 1
<1>1. BudgetKey(f) = <<block, rank[f.confidence], might, place>>
  BY DEF BudgetKey, PlaceAmong
<1>2. place \in Int
  BY PlaceInPaths
<1>3. rank[f.confidence] \in Int
  BY DEF IsFinding
<1>4. block \in Int /\ (f.blocks => block = 0) /\ (~f.blocks => block = 1)
  OBVIOUS
<1>5. might \in Int
  OBVIOUS
<1> DEFINE sure == rank[f.confidence]
<1> HIDE DEF place, rank, block, might, sure
<1>6. BudgetKey(f) = <<block, sure, might, place>>
  BY <1>1 DEF sure
<1> QED
  BY <1>2, <1>3, <1>4, <1>5, <1>6 DEF Keyed, sure

\* A finding ranks before another when its key is before (review.go:918-937).
LEMMA RanksByKey ==
  ASSUME NEW f, NEW g
  PROVE  RanksBefore(f, g) <=> Less(BudgetKey(f), BudgetKey(g))
<1> DEFINE a == BudgetKey(f)
           b == BudgetKey(g)
           Here(k) == a[k] < b[k] /\ \A m \in 1 .. k - 1 : a[m] = b[m]
<1>1. RanksBefore(f, g) <=> \E k \in 1..4 : Here(k)
  BY DEF RanksBefore
<1> HIDE DEF a, b
<1>2. (\E k \in 1..4 : Here(k)) <=> Here(1) \/ Here(2) \/ Here(3) \/ Here(4)
  <2>1. \A k : k \in 1..4 <=> k \in {1, 2, 3, 4}
    OBVIOUS
  <2> HIDE DEF Here
  <2> QED
    BY <2>1
<1>3. /\ 1 .. (1 - 1) = {} /\ 1 .. (2 - 1) = {1} /\ 1 .. (3 - 1) = {1, 2}
      /\ 1 .. (4 - 1) = {1, 2, 3}
  OBVIOUS
<1>4. /\ Here(1) <=> a[1] < b[1]
      /\ Here(2) <=> a[1] = b[1] /\ a[2] < b[2]
      /\ Here(3) <=> a[1] = b[1] /\ a[2] = b[2] /\ a[3] < b[3]
      /\ Here(4) <=> a[1] = b[1] /\ a[2] = b[2] /\ a[3] = b[3] /\ a[4] < b[4]
  BY <1>3
<1> HIDE DEF Here
<1>5. (\E k \in 1..4 : Here(k)) <=> Less(a, b)
  BY <1>2, <1>4 DEF Less
<1> QED
  BY <1>1, <1>5 DEF a, b

\* Of two findings one comes before the other, and what comes before goes on.
Orders(fs) ==
  /\ \A i \in DOMAIN fs : ~ComesBefore(fs, i, i)
  /\ \A i, j \in DOMAIN fs : i # j => ComesBefore(fs, i, j) \/ ComesBefore(fs, j, i)
  /\ \A i, j, k \in DOMAIN fs :
       ComesBefore(fs, i, j) /\ ComesBefore(fs, j, k) => ComesBefore(fs, i, k)

\* Of a list of findings each comes before or after each other.
LEMMA FindingsAreOrdered ==
  ASSUME PublicationAssumption, NEW fs, NEW n \in Nat, DOMAIN fs = 1..n,
         \A i \in DOMAIN fs : IsFinding(fs[i])
  PROVE  Orders(fs)
<1> DEFINE key(i) == BudgetKey(fs[i])
           Goes(i, j) == Less(key(i), key(j)) \/ (Alike(key(i), key(j)) /\ i < j)
<1>1. \A i \in 1..n : Keyed(key(i))
  BY KeyOf
<1>2. ASSUME NEW i \in 1..n, NEW j \in 1..n PROVE ComesBefore(fs, i, j) <=> Goes(i, j)
  <2>1. ComesBefore(fs, i, j) <=> Less(key(i), key(j)) \/ (i < j /\ ~Less(key(j), key(i)))
    BY RanksByKey DEF ComesBefore
  <2> DEFINE a == key(i)
             b == key(j)
  <2>2. Keyed(a) /\ Keyed(b)
    BY <1>1
  <2> HIDE DEF a, b
  <2>3. /\ Less(a, b) \/ Less(b, a) \/ Alike(a, b)
        /\ ~(Less(a, b) /\ Less(b, a))
    BY <2>2, LessIsAnOrder
  <2>4. Alike(a, b) => ~Less(b, a)
    BY <2>2 DEF Alike, Less, Keyed
  <2> QED
    BY <2>1, <2>3, <2>4 DEF a, b
<1>3. ASSUME NEW i \in 1..n PROVE ~Goes(i, i)
  <2>1. ~Less(key(i), key(i)) /\ ~(i < i)
    BY <1>1, LessIsAnOrder
  <2> QED
    BY <2>1
<1>4. ASSUME NEW i \in 1..n, NEW j \in 1..n, i # j PROVE Goes(i, j) \/ Goes(j, i)
  <2> DEFINE a == key(i)
             b == key(j)
  <2>1. Keyed(a) /\ Keyed(b)
    BY <1>1
  <2> HIDE DEF a, b
  <2>2. Less(a, b) \/ Less(b, a) \/ Alike(a, b)
    BY <2>1, LessIsAnOrder
  <2>3. Alike(a, b) => Alike(b, a)
    BY DEF Alike
  <2>4. i < j \/ j < i
    BY <1>4
  <2> QED
    BY <2>2, <2>3, <2>4 DEF a, b
<1>5. ASSUME NEW i \in 1..n, NEW j \in 1..n, NEW k \in 1..n, Goes(i, j), Goes(j, k)
      PROVE  Goes(i, k)
  <2> DEFINE a == key(i)
             b == key(j)
             c == key(k)
  <2>1. Keyed(a) /\ Keyed(b) /\ Keyed(c)
    BY <1>1
  <2>2. Less(a, b) \/ (Alike(a, b) /\ i < j)
    BY <1>5
  <2>3. Less(b, c) \/ (Alike(b, c) /\ j < k)
    BY <1>5
  <2> HIDE DEF a, b, c
  <2>4. /\ Less(a, b) /\ Less(b, c) => Less(a, c)
        /\ Less(a, b) /\ Alike(b, c) => Less(a, c)
        /\ Alike(a, b) /\ Less(b, c) => Less(a, c)
        /\ Alike(a, b) /\ Alike(b, c) => Alike(a, c)
    BY <2>1, LessGoesOn
  <2>5. i < j /\ j < k => i < k
    OBVIOUS
  <2> QED
    BY <2>2, <2>3, <2>4, <2>5 DEF a, b, c
<1> HIDE DEF Goes
<1> QED
  BY <1>2, <1>3, <1>4, <1>5 DEF Orders

\* Where each has fewer before it than any it comes before, there is one at each
\* place.
Nested(B, n) ==
  /\ \A j \in 1..n : B[j] \in SUBSET (1..n) /\ j \notin B[j]
  /\ \A i, j \in 1..n : i # j => i \in B[j] \/ j \in B[i]
  /\ \A i, j \in 1..n : i \in B[j] => B[i] \subseteq B[j]

\* P gives each of n its place: one more than the number of those before it.
Places(P, B, n) == P = [j \in 1..n |-> Cardinality(B[j]) + 1]

\* P is a permutation of 1..n.
Taken(P, n) ==
  /\ P \in [1..n -> 1..n]
  /\ \A i, j \in 1..n : P[i] = P[j] => i = j
  /\ \A k \in 1..n : \E i \in 1..n : P[i] = k

\* In a total order every place is taken, and once.
LEMMA EachPlaceIsTaken ==
  ASSUME NEW n \in Nat, NEW B, NEW P, Nested(B, n), Places(P, B, n)
  PROVE  Taken(P, n)
<1>0. /\ \A j \in 1..n : B[j] \in SUBSET (1..n) /\ j \notin B[j]
      /\ \A i, j \in 1..n : i # j => i \in B[j] \/ j \in B[i]
      /\ \A i, j \in 1..n : i \in B[j] => B[i] \subseteq B[j]
      /\ P = [j \in 1..n |-> Cardinality(B[j]) + 1]
  BY DEF Nested, Places
<1>1. ASSUME NEW j \in 1..n
      PROVE  /\ IsFiniteSet(B[j]) /\ Cardinality(B[j]) \in Nat
             /\ Cardinality(B[j]) + 1 \in 1..n
  <2>1. B[j] \in SUBSET (1..n) /\ j \notin B[j]
    BY <1>0
  <2>2. IsFiniteSet(B[j]) /\ Cardinality(B[j]) \in Nat
    BY <2>1, Positions
  <2>3. Cardinality(B[j] \cup {j}) = Cardinality(B[j]) + 1
    BY <2>1, <2>2, FS_AddElement
  <2>4. B[j] \cup {j} \in SUBSET (1..n)
    BY <2>1
  <2>5. Cardinality(B[j] \cup {j}) <= n
    BY <2>4, Positions
  <2> QED
    BY <2>2, <2>3, <2>5
<1>2. P \in [1..n -> 1..n]
  BY <1>0, <1>1
<1>3. ASSUME NEW i \in 1..n, NEW j \in 1..n, i \in B[j] PROVE P[i] # P[j]
  <2>1. B[i] \cup {i} \subseteq B[j] /\ i \notin B[i]
    BY <1>0, <1>3
  <2>2. Cardinality(B[i] \cup {i}) = Cardinality(B[i]) + 1
    BY <1>1, <2>1, FS_AddElement
  <2>3. Cardinality(B[i] \cup {i}) <= Cardinality(B[j])
    BY <1>1, <2>1, FS_Subset
  <2>4. Cardinality(B[i]) \in Nat /\ Cardinality(B[j]) \in Nat
    BY <1>1
  <2> QED
    BY <1>0, <2>2, <2>3, <2>4
<1>4. \A i, j \in 1..n : P[i] = P[j] => i = j
  BY <1>0, <1>3
<1>5. \A k \in 1..n : \E i \in 1..n : P[i] = k
  <2> DEFINE R == {P[i] : i \in 1..n}
  <2>1. IsFiniteSet(1..n)
    BY FS_Interval
  <2>2. R \subseteq 1..n
    BY <1>2
  <2>3. P \in Bijection(1..n, R)
    BY <1>2, <1>4 DEF Bijection, Injection, Surjection, IsInjective
  <2>4. Cardinality(1..n) = Cardinality(R)
    <3> HIDE DEF R
    <3> QED
      BY <2>1, <2>3, FS_Bijection DEF ExistsBijection
  <2>5. R = 1..n
    <3> HIDE DEF R
    <3> QED
      BY <2>1, <2>2, <2>4, FS_Subset
  <2> QED
    BY <2>5
<1> QED
  BY <1>2, <1>4, <1>5 DEF Taken

\* The findings fs as the budget takes them: which, in what order.
Ranks(fs, n, which) ==
  /\ which \in [1..n -> 1..n]
  /\ \A i, j \in 1..n : which[i] = which[j] => i = j
  /\ \A i \in 1..n : \E k \in 1..n : which[k] = i
  /\ rankForBudget(fs) = [k \in 1..n |-> fs[which[k]]]
  /\ n > 0 => \A i \in 1..n : ~ComesBefore(fs, i, which[1])

\* rankForBudget sorts: it gives the same findings, the first of them before all.
LEMMA RankIsAnOrder ==
  ASSUME PublicationAssumption, NEW fs, NEW n \in Nat, DOMAIN fs = 1..n,
         \A i \in DOMAIN fs : IsFinding(fs[i])
  PROVE  \E which : Ranks(fs, n, which)
<1> DEFINE B == [j \in 1..n |-> {i \in 1..n : ComesBefore(fs, i, j)}]
           P == [j \in 1..n |-> Cardinality(B[j]) + 1]
           which == [k \in 1..n |-> CHOOSE i \in 1..n : PlaceOf(fs, i) = k]
<1>1. Orders(fs)
  BY FindingsAreOrdered
<1>2. \A j \in 1..n : B[j] \in SUBSET (1..n) /\ j \notin B[j]
  BY <1>1 DEF Orders
<1>3. \A i, j \in 1..n : i # j => i \in B[j] \/ j \in B[i]
  BY <1>1 DEF Orders
<1>4. \A i, j \in 1..n : i \in B[j] => B[i] \subseteq B[j]
  BY <1>1 DEF Orders
<1>5. \A j \in 1..n : PlaceOf(fs, j) = P[j]
  BY DEF PlaceOf
<1>6. \A j \in 1..n : B[j] = {i \in 1..n : ComesBefore(fs, i, j)}
  OBVIOUS
<1> HIDE DEF B
<1>7. /\ P \in [1..n -> 1..n]
      /\ \A i, j \in 1..n : P[i] = P[j] => i = j
      /\ \A k \in 1..n : \E i \in 1..n : P[i] = k
  <2>1. Nested(B, n)
    BY <1>2, <1>3, <1>4 DEF Nested
  <2>2. Places(P, B, n)
    BY DEF Places
  <2> HIDE DEF P
  <2>3. Taken(P, n)
    BY <2>1, <2>2, EachPlaceIsTaken
  <2> QED
    BY <2>3 DEF Taken
<1>8. \A j \in 1..n : P[j] = Cardinality(B[j]) + 1
  OBVIOUS
<1> HIDE DEF P
<1>9. \A k \in 1..n : which[k] \in 1..n /\ P[which[k]] = k
  <2> TAKE k \in 1..n
  <2>1. \E i \in 1..n : PlaceOf(fs, i) = k
    BY <1>5, <1>7
  <2>2. which[k] \in 1..n /\ PlaceOf(fs, which[k]) = k
    BY <2>1
  <2> QED
    BY <1>5, <2>2
<1>10. rankForBudget(fs) = [k \in 1..n |-> fs[which[k]]]
  BY DEF rankForBudget
<1>11. which \in [1..n -> 1..n]
  BY <1>9
<1> HIDE DEF which
<1>12. \A i, j \in 1..n : which[i] = which[j] => i = j
  BY <1>9
<1>13. \A i \in 1..n : \E k \in 1..n : which[k] = i
  <2> TAKE i \in 1..n
  <2> DEFINE k == P[i]
  <2>0. k \in 1..n
    BY <1>7
  <2> HIDE DEF k
  <2>1. which[k] \in 1..n /\ P[which[k]] = P[i]
    BY <1>9, <2>0 DEF k
  <2>2. which[k] = i
    BY <1>7, <2>1
  <2> QED
    BY <2>0, <2>2
<1>14. ASSUME n > 0 PROVE \A i \in 1..n : ~ComesBefore(fs, i, which[1])
  <2>1. 1 \in 1..n /\ which[1] \in 1..n /\ P[which[1]] = 1
    BY <1>9, <1>14
  <2>2. Cardinality(B[which[1]]) = 0 /\ IsFiniteSet(B[which[1]])
    <3>1. B[which[1]] \in SUBSET (1..n)
      BY <1>2, <2>1
    <3>2. IsFiniteSet(B[which[1]]) /\ Cardinality(B[which[1]]) \in Nat
      BY <3>1, Positions
    <3> QED
      BY <1>8, <2>1, <3>2
  <2>3. B[which[1]] = {}
    BY <2>2, FS_EmptySet
  <2> QED
    BY <1>6, <2>1, <2>3
<1> QED
  BY <1>10, <1>11, <1>12, <1>13, <1>14 DEF Ranks

\* When some of them block, the first does.
LEMMA BlockingComesFirst ==
  ASSUME PublicationAssumption, NEW fs, NEW n \in Nat, DOMAIN fs = 1..n,
         \A i \in DOMAIN fs : IsFinding(fs[i]), NEW which, Ranks(fs, n, which),
         NEW i \in 1..n, fs[i].blocks
  PROVE  n > 0 /\ which[1] \in 1..n /\ fs[which[1]].blocks
<1>1. n > 0 /\ 1 \in 1..n
  OBVIOUS
<1>2. which[1] \in 1..n /\ ~ComesBefore(fs, i, which[1])
  BY <1>1 DEF Ranks
<1>3. ~Less(BudgetKey(fs[i]), BudgetKey(fs[which[1]]))
  BY <1>2, RanksByKey DEF ComesBefore
<1>4. BudgetKey(fs[i])[1] = 0
  BY KeyOf
<1>5. ~fs[which[1]].blocks => BudgetKey(fs[which[1]])[1] = 1
  BY <1>2, KeyOf
<1>6. fs[which[1]].blocks
  BY <1>3, <1>4, <1>5 DEF Less
<1> QED
  BY <1>1, <1>2, <1>6

-----------------------------------------------------------------------------
(* What the budget lets through.                                            *)

\* One element more, from a position that was not listed.
LEMMA ListingAppend ==
  ASSUME NEW found, NEW S, NEW fs, NEW at, Listing(found, S, fs, at), IsText(fs),
         NEW i, i \notin S
  PROVE  \E to : Listing(found, S \cup {i}, Append(fs, found[i]), to)
<1> DEFINE new == Append(fs, found[i])
           len == Len(fs)
           U == S \cup {i}
           to == [k \in 1..(len + 1) |-> IF k = len + 1 THEN i ELSE at[k]]
<1>2. /\ len \in Nat /\ Len(new) = len + 1
      /\ new[len + 1] = found[i] /\ \A k \in 1..len : new[k] = fs[k]
  <2>1. PICK L : fs \in Seq(L)
    BY DEF IsText
  <2>2. fs \in Seq(L \cup {found[i]}) /\ found[i] \in L \cup {found[i]}
    BY <2>1
  <2> DEFINE M == L \cup {found[i]}
  <2> HIDE DEF M
  <2> QED
    BY <2>2 DEF M
<1> HIDE DEF new, len
<1>3. /\ at \in [1..len -> S]
      /\ \A k, q \in 1..len : at[k] = at[q] => k = q
      /\ \A j \in S : \E k \in 1..len : at[k] = j
      /\ \A k \in 1..len : fs[k] = found[at[k]]
  BY DEF Listing, len
<1>4. U = S \cup {i}
  OBVIOUS
<1>5. to[len + 1] = i /\ \A k \in 1..len : to[k] = at[k]
  BY <1>2
<1>6. to \in [1..(len + 1) -> U]
  BY <1>2, <1>3
<1> HIDE DEF to, U
<1>7. \A k \in 1..(len + 1) : k = len + 1 \/ k \in 1..len
  BY <1>2
<1>8. \A k \in 1..len : at[k] \in S
  BY <1>3
<1>9. \A k, q \in 1..(len + 1) : to[k] = to[q] => k = q
  BY <1>3, <1>5, <1>7, <1>8
<1>10. \A j \in U : \E k \in 1..(len + 1) : to[k] = j
  <2>1. len + 1 \in 1..(len + 1) /\ \A k \in 1..len : k \in 1..(len + 1)
    BY <1>2
  <2> QED
    BY <1>3, <1>4, <1>5, <2>1
<1>11. \A k \in 1..(len + 1) : new[k] = found[to[k]]
  BY <1>2, <1>3, <1>5, <1>7
<1>12. Listing(found, U, new, to)
  BY <1>2, <1>6, <1>9, <1>10, <1>11 DEF Listing
<1> QED
  BY <1>12 DEF U, new

\* A finding is cut, for a reason.
CutFor(acc, f, reason) ==
  [acc EXCEPT !.drops = Append(@, [fp |-> f.fp, path |-> f.path, reason |-> reason])]

\* The findings chosen so far on the path of f.
Here(acc, f) == {i \in DOMAIN acc.chosen : acc.chosen[i].path = f.path}

\* What the budget makes of one finding more.
AllocateNext(acc, f, total, perFile) ==
  IF Len(acc.chosen) >= total THEN CutFor(acc, f, "budget")
  ELSE IF perFile > 0 /\ Cardinality(Here(acc, f)) >= perFile
       THEN CutFor(acc, f, "per_file_budget")
  ELSE [acc EXCEPT !.chosen = Append(@, f)]

\* Where the walk over the ranked findings starts.
NoneTaken == [chosen |-> <<>>, drops |-> <<>>]

\* The walk of the budget along the ranked findings.
Allocates(p, ranked, n, total, perFile) ==
  /\ p[0] = NoneTaken
  /\ \A k \in 1..n : p[k] = AllocateNext(p[k - 1], ranked[k], total, perFile)

\* The fold of AllocateBudget has such a walk, and ends where it does.
LEMMA AllocateWalk ==
  ASSUME NEW ranked, NEW n \in Nat, DOMAIN ranked = 1..n, NEW total, NEW perFile
  PROVE  \E p : /\ Allocates(p, ranked, n, total, perFile)
                /\ AllocateBudget(ranked, total, perFile) = p[n]
<1> DEFINE Step(acc, k) == AllocateNext(acc, ranked[k], total, perFile)
           W(it, k) == [T \in SUBSET (1..k) |->
                          IF T = {} THEN NoneTaken ELSE Step(it[T \ {Max(T)}], Max(T))]
           V(it) == [T \in SUBSET DOMAIN ranked |->
                          IF T = {} THEN NoneTaken ELSE Step(it[T \ {Max(T)}], Max(T))]
           it == CHOOSE it : it = V(it)
           N == {k \in 0..n : \E jt : jt = W(jt, k)}
<1>2. AllocateBudget(ranked, total, perFile) = it[DOMAIN ranked]
  BY DEF AllocateBudget, AllocateNext, CutFor, Here, NoneTaken, FoldLeft, MapThenFoldSet
<1> HIDE DEF Step
<1>3. ASSUME NEW T \in SUBSET (1..n), T # {}
      PROVE  Max(T) \in T /\ \A t \in T : t <= Max(T)
  BY <1>3, LargestIndex
<1>4. 0 \in N
  <2> DEFINE jt == [T \in SUBSET (1..0) |-> NoneTaken]
  <2>1. \A T \in SUBSET (1..0) : T = {}
    OBVIOUS
  <2>2. jt = W(jt, 0)
    BY <2>1
  <2> QED
    BY <2>2
<1>5. ASSUME NEW k \in 0..n, k < n /\ k \in N PROVE k + 1 \in N
  <2>1. PICK jt : jt = W(jt, k)
    BY <1>5
  <2> DEFINE kt == W(jt, k + 1)
  <2>2. k \in Nat /\ k + 1 \in 0..n /\ k + 1 \in Nat
    <3>1. k \in 0..n /\ k < n
      BY <1>5
    <3> QED
      BY <3>1
  <2>3. ASSUME NEW T \in SUBSET (1..(k + 1)), T # {}
        PROVE  T \ {Max(T)} \in SUBSET (1..k)
    <3>1. T \in SUBSET (1..n)
      BY <2>2
    <3>2. Max(T) \in T /\ \A t \in T : t <= Max(T)
      BY <1>3, <2>3, <3>1
    <3>3. ASSUME NEW t \in T, t # Max(T) PROVE t \in 1..k
      <4>1. t \in 1..(k + 1) /\ Max(T) \in 1..(k + 1) /\ t <= Max(T)
        BY <3>2
      <4> HIDE DEF W
      <4> QED
        BY <2>2, <3>3, <4>1
    <3> QED
      BY <3>3
  <2>4. ASSUME NEW T \in SUBSET (1..k) PROVE kt[T] = jt[T]
    <3>1. T \in SUBSET (1..(k + 1))
      BY <2>2
    <3> QED
      BY <2>1, <3>1
  <2>5. kt = W(kt, k + 1)
    <3>1. ASSUME NEW T \in SUBSET (1..(k + 1)), T # {}
          PROVE  jt[T \ {Max(T)}] = kt[T \ {Max(T)}]
      BY <2>3, <2>4, <3>1
    <3> QED
      BY <3>1
  <2> HIDE DEF W
  <2> QED
    BY <2>2, <2>5
<1>6. n \in N
  <2>1. \A k \in 0..n : k \in N
    <3> HIDE DEF N
    <3> QED
      BY <1>4, <1>5, InductionUpTo
  <2>2. n \in 0..n
    OBVIOUS
  <2> QED
    BY <2>1, <2>2
<1>7. it = V(it)
  <2>1. PICK jt : jt = W(jt, n)
    BY <1>6
  <2>3. jt = V(jt)
    BY <2>1
  <2> HIDE DEF V
  <2> QED
    BY <2>3
<1> HIDE DEF it
<1>8. it[{}] = NoneTaken
  BY <1>7
<1>9. ASSUME NEW T \in SUBSET (1..n), T # {}
      PROVE  it[T] = Step(it[T \ {Max(T)}], Max(T))
  BY <1>7, <1>9
<1> DEFINE p == [k \in 0..n |-> it[1..k]]
<1>10. p[0] = NoneTaken
  <2>1. 1..0 = {}
    OBVIOUS
  <2> QED
    BY <1>8, <2>1
<1>11. ASSUME NEW k \in 1..n PROVE p[k] = Step(p[k - 1], k)
  <2>1. 1..k \in SUBSET (1..n) /\ 1..k # {} /\ (1..k) \ {k} = 1..(k - 1)
    <3>1. k \in 1..k
      OBVIOUS
    <3>2. \A t \in 1..k : t \in 1..n
      OBVIOUS
    <3>3. (1..k) \ {k} = 1..(k - 1)
      OBVIOUS
    <3> QED
      BY <3>1, <3>2, <3>3
  <2>2. Max(1..k) = k
    <3>1. Max(1..k) \in 1..k /\ \A t \in 1..k : t <= Max(1..k)
      BY <1>3, <2>1
    <3>2. k \in 1..k
      OBVIOUS
    <3> QED
      BY <3>1, <3>2
  <2>3. it[1..k] = Step(it[(1..k) \ {Max(1..k)}], Max(1..k))
    BY <1>9, <2>1
  <2>4. k \in 0..n /\ k - 1 \in 0..n
    OBVIOUS
  <2> QED
    BY <2>1, <2>2, <2>3, <2>4
<1>12. p[n] = it[1..n]
  OBVIOUS
<1> HIDE DEF p
<1>13. Allocates(p, ranked, n, total, perFile)
  BY <1>10, <1>11 DEF Allocates, Step
<1> QED
  BY <1>2, <1>12, <1>13

\* A drop of the budget.
IsCut(d) == d.reason = "budget" \/ d.reason = "per_file_budget"

\* Of the first k findings those at C are chosen, the first of all among them,
\* and the others are cut.
Chooses(acc, ranked, k, C, at) ==
  /\ DOMAIN acc = {"chosen", "drops"} /\ IsText(acc.chosen) /\ IsText(acc.drops)
  /\ C \in SUBSET (1..k) /\ Listing(ranked, C, acc.chosen, at)
  /\ \A d \in DOMAIN acc.drops : IsCut(acc.drops[d])
  /\ \A i \in (1..k) \ C : \E d \in DOMAIN acc.drops : acc.drops[d].fp = ranked[i].fp
  /\ k > 0 => 1 \in C

\* One drop more.
LEMMA OneMoreCut ==
  ASSUME NEW acc, NEW ranked, NEW k \in Nat, NEW C, NEW at, Chooses(acc, ranked, k, C, at),
         k > 0, NEW reason \in {"budget", "per_file_budget"}
  PROVE  Chooses(CutFor(acc, ranked[k + 1], reason), ranked, k + 1, C, at)
<1> DEFINE f == ranked[k + 1]
           d == [fp |-> f.fp, path |-> f.path, reason |-> reason]
           drops == acc.drops
           new == CutFor(acc, f, reason)
<1>1. d.fp = f.fp /\ IsCut(d)
  BY DEF IsCut
<1>2. new = [acc EXCEPT !.drops = Append(@, d)]
  BY DEF CutFor
<1> HIDE DEF d, new
<1>3. DOMAIN acc = {"chosen", "drops"}
  BY DEF Chooses
<1>4. DOMAIN new = {"chosen", "drops"} /\ new.chosen = acc.chosen /\ new.drops = Append(drops, d)
  BY <1>2, <1>3
<1> HIDE DEF drops
<1>5. /\ IsText(Append(drops, d)) /\ DOMAIN Append(drops, d) = 1..(Len(drops) + 1)
      /\ Append(drops, d)[Len(drops) + 1] = d /\ Len(drops) \in Nat
      /\ DOMAIN drops = 1..Len(drops)
      /\ \A j \in 1..Len(drops) : Append(drops, d)[j] = drops[j]
  <2>1. IsText(drops)
    BY DEF Chooses, drops
  <2>2. PICK L : drops \in Seq(L)
    BY <2>1 DEF IsText
  <2>3. drops \in Seq(L \cup {d}) /\ d \in L \cup {d}
    BY <2>2
  <2> DEFINE M == L \cup {d}
  <2> HIDE DEF M
  <2>4. Append(drops, d) \in Seq(M)
    BY <2>3 DEF M
  <2> QED
    BY <2>3, <2>4 DEF IsText, M
<1>6. \A j \in DOMAIN new.drops : IsCut(new.drops[j])
  <2> TAKE j \in DOMAIN new.drops
  <2>1. j = Len(drops) + 1 \/ j \in 1..Len(drops)
    BY <1>4, <1>5
  <2>2. \A m \in DOMAIN drops : IsCut(drops[m])
    BY DEF Chooses, drops
  <2> QED
    BY <1>1, <1>4, <1>5, <2>1, <2>2
<1>7. \A i \in (1..(k + 1)) \ C : \E m \in DOMAIN new.drops : new.drops[m].fp = ranked[i].fp
  <2> TAKE i \in (1..(k + 1)) \ C
  <2>1. CASE i = k + 1
    <3>1. Len(drops) + 1 \in DOMAIN new.drops /\ new.drops[Len(drops) + 1] = d
      BY <1>4, <1>5
    <3> QED
      BY <1>1, <2>1, <3>1
  <2>2. CASE i # k + 1
    <3>1. i \in (1..k) \ C
      BY <2>2
    <3>2. PICK m \in DOMAIN drops : drops[m].fp = ranked[i].fp
      BY <3>1 DEF Chooses, drops
    <3>3. m \in DOMAIN new.drops /\ new.drops[m] = drops[m]
      BY <1>4, <1>5, <3>2
    <3> QED
      BY <3>2, <3>3
  <2> QED
    BY <2>1, <2>2
<1>8. C \in SUBSET (1..(k + 1)) /\ 1 \in C
  <2>1. C \in SUBSET (1..k) /\ 1 \in C
    BY DEF Chooses
  <2>2. \A i \in 1..k : i \in 1..(k + 1)
    OBVIOUS
  <2> QED
    BY <2>1, <2>2
<1>9. IsText(new.chosen) /\ IsText(new.drops) /\ Listing(ranked, C, new.chosen, at)
  BY <1>4, <1>5 DEF Chooses
<1>10. Chooses(new, ranked, k + 1, C, at)
  BY <1>4, <1>6, <1>7, <1>8, <1>9 DEF Chooses
<1> QED
  BY <1>10 DEF new

\* One finding more.
LEMMA OneMoreChosen ==
  ASSUME NEW acc, NEW ranked, NEW k \in Nat, NEW C, NEW at, Chooses(acc, ranked, k, C, at)
  PROVE  \E to : Chooses([acc EXCEPT !.chosen = Append(@, ranked[k + 1])], ranked, k + 1,
                         C \cup {k + 1}, to)
<1> DEFINE f == ranked[k + 1]
           new == [acc EXCEPT !.chosen = Append(@, f)]
           chosen == acc.chosen
           D == C \cup {k + 1}
<1>1. DOMAIN acc = {"chosen", "drops"} /\ IsText(acc.chosen) /\ IsText(acc.drops)
  BY DEF Chooses
<1>2. DOMAIN new = {"chosen", "drops"} /\ new.chosen = Append(chosen, f) /\ new.drops = acc.drops
  BY <1>1
<1>3. C \in SUBSET (1..k) /\ Listing(ranked, C, chosen, at)
  BY DEF Chooses
<1>4. k + 1 \notin C
  BY <1>3
<1> HIDE DEF chosen
<1>5. PICK to : Listing(ranked, D, Append(chosen, f), to)
  <2>1. IsText(chosen)
    BY <1>1 DEF chosen
  <2>2. \E to : Listing(ranked, C \cup {k + 1}, Append(chosen, ranked[k + 1]), to)
    BY <1>3, <1>4, <2>1, ListingAppend
  <2> QED
    BY <2>2
<1>6. IsText(Append(chosen, f))
  <2>1. PICK L : chosen \in Seq(L)
    BY <1>1 DEF IsText, chosen
  <2>2. chosen \in Seq(L \cup {f}) /\ f \in L \cup {f}
    BY <2>1
  <2> DEFINE M == L \cup {f}
  <2> HIDE DEF M, f
  <2>3. Append(chosen, f) \in Seq(M)
    BY <2>2 DEF M
  <2> QED
    BY <2>3 DEF IsText
<1> HIDE DEF new, f
<1>7. D \in SUBSET (1..(k + 1)) /\ 1 \in D
  <2>1. \A i \in 1..k : i \in 1..(k + 1)
    OBVIOUS
  <2>2. k + 1 \in 1..(k + 1) /\ (k > 0 \/ k + 1 = 1)
    OBVIOUS
  <2>3. k > 0 => 1 \in C
    BY DEF Chooses
  <2> QED
    BY <1>3, <2>1, <2>2, <2>3
<1>8. \A i \in (1..(k + 1)) \ D : i \in (1..k) \ C
  OBVIOUS
<1> HIDE DEF D
<1>9. Chooses(new, ranked, k + 1, D, to)
  BY <1>1, <1>2, <1>5, <1>6, <1>7, <1>8 DEF Chooses
<1> QED
  BY <1>9 DEF new, f, D

\* The budget leaves room for one finding at least, so the first is chosen.
LEMMA BudgetChooses ==
  ASSUME NEW ranked, NEW n \in Nat, DOMAIN ranked = 1..n,
         NEW total \in Nat \ {0}, NEW perFile \in Nat \ {0}
  PROVE  \E C, at : Chooses(AllocateBudget(ranked, total, perFile), ranked, n, C, at)
<1>1. PICK p : /\ Allocates(p, ranked, n, total, perFile)
               /\ AllocateBudget(ranked, total, perFile) = p[n]
  BY AllocateWalk
<1> DEFINE N == {k \in 0..n : \E C, at : Chooses(p[k], ranked, k, C, at)}
<1>2. 0 \in N
  <2>1. p[0] = [chosen |-> <<>>, drops |-> <<>>]
    BY <1>1 DEF Allocates, NoneTaken
  <2>2. DOMAIN p[0] = {"chosen", "drops"} /\ p[0].chosen = <<>> /\ p[0].drops = <<>>
    BY <2>1
  <2>3. IsText(<<>>) /\ DOMAIN <<>> = {} /\ (1..0) = {}
    <3>1. <<>> \in Seq({})
      OBVIOUS
    <3> QED
      BY <3>1 DEF IsText
  <2>4. Listing(ranked, {}, <<>>, <<>>)
    BY DEF Listing
  <2>5. Chooses(p[0], ranked, 0, {}, <<>>)
    BY <2>2, <2>3, <2>4 DEF Chooses
  <2> QED
    BY <2>5
<1>3. ASSUME NEW k \in 0..n, k < n /\ k \in N PROVE k + 1 \in N
  <2>1. k \in Nat /\ k + 1 \in 1..n /\ k + 1 \in 0..n /\ k + 1 - 1 = k
    <3>1. k \in 0..n /\ k < n
      BY <1>3
    <3> QED
      BY <3>1
  <2>2. PICK C, at : Chooses(p[k], ranked, k, C, at)
    BY <1>3
  <2> DEFINE acc == p[k]
             f == ranked[k + 1]
  <2>3. p[k + 1] = AllocateNext(acc, f, total, perFile)
    BY <1>1, <2>1 DEF Allocates
  <2> HIDE DEF acc
  <2>4. Chooses(acc, ranked, k, C, at)
    BY <2>2 DEF acc
  <2>5. CASE k = 0
    <3>1. acc.chosen = <<>>
      BY <1>1, <2>5 DEF Allocates, NoneTaken, acc
    <3>2. Here(acc, f) = {}
      BY <3>1 DEF Here
    <3>3. Len(acc.chosen) = 0 /\ Cardinality(Here(acc, f)) = 0
      BY <3>1, <3>2, FS_EmptySet
    <3>4. p[k + 1] = [acc EXCEPT !.chosen = Append(@, f)]
      BY <2>3, <3>3 DEF AllocateNext
    <3>5. \E to : Chooses([acc EXCEPT !.chosen = Append(@, ranked[k + 1])], ranked, k + 1,
                         C \cup {k + 1}, to)
      BY <2>1, <2>4, OneMoreChosen
    <3> HIDE DEF N
    <3>6. \E D, to : Chooses(p[k + 1], ranked, k + 1, D, to)
      BY <3>4, <3>5
    <3> QED
      BY <2>1, <3>6 DEF N
  <2>6. CASE k > 0
    <3>1. CASE \/ p[k + 1] = CutFor(acc, f, "budget")
               \/ p[k + 1] = CutFor(acc, f, "per_file_budget")
      <4>1. PICK reason \in {"budget", "per_file_budget"} : p[k + 1] = CutFor(acc, f, reason)
        BY <3>1
      <4>2. Chooses(CutFor(acc, ranked[k + 1], reason), ranked, k + 1, C, at)
        BY <2>1, <2>4, <2>6, OneMoreCut
      <4> QED
        BY <2>1, <4>1, <4>2
    <3>2. CASE p[k + 1] = [acc EXCEPT !.chosen = Append(@, f)]
      <4>1. \E to : Chooses([acc EXCEPT !.chosen = Append(@, ranked[k + 1])], ranked, k + 1,
                           C \cup {k + 1}, to)
        BY <2>1, <2>4, OneMoreChosen
      <4> HIDE DEF N
      <4>2. \E D, to : Chooses(p[k + 1], ranked, k + 1, D, to)
        BY <3>2, <4>1
      <4> QED
        BY <2>1, <4>2 DEF N
    <3> QED
      BY <2>3, <3>1, <3>2 DEF AllocateNext
  <2> QED
    BY <2>1, <2>5, <2>6
<1>4. \A k \in 0..n : k \in N
  <2> HIDE DEF N
  <2> QED
    BY <1>2, <1>3, InductionUpTo
<1>5. n \in 0..n
  OBVIOUS
<1> QED
  BY <1>1, <1>4, <1>5

-----------------------------------------------------------------------------
(* The comments and the body made of what is published.                     *)

\* The markers of a comment are read as they were written: the first
\* fingerprint is the finding's, and so is the first evidence, when its text
\* has no marker of that kind (renderComment, parseCiteCommentBody).
LEMMA MarkersRead ==
  ASSUME NEW f, IsFinding(f), OwnsItsEvidence(f)
  PROVE  parseCiteCommentBody(Comment(f).text) = [fp |-> f.fp, data |-> f.fp]
<1> DEFINE text == renderComment(f)
           says == f.says
           n == Len(says)
           m1 == [kind |-> "fingerprint", of |-> f.fp]
           m2 == [kind |-> "evidence", of |-> f.fp]
           Of(kind) == {i \in 1..Len(text) : text[i].kind = kind}
           First(kind) == IF Of(kind) # {} THEN Min(Of(kind)) ELSE 0
<1>1. Comment(f).text = text
  BY DEF Comment
<1>2. parseCiteCommentBody(text) =
        IF First("fingerprint") = 0 THEN None
        ELSE [fp |-> text[First("fingerprint")].of,
              data |-> IF First("evidence") = 0 THEN None ELSE text[First("evidence")].of]
  BY DEF parseCiteCommentBody, SelectInSeq
<1>3. m1.kind = "fingerprint" /\ m1.of = f.fp /\ m2.kind = "evidence" /\ m2.of = f.fp
  OBVIOUS
<1>4. text = <<m1>> \o says \o <<m2>>
  BY DEF renderComment
<1>5. n \in Nat /\ DOMAIN says = 1..n /\ \A i \in 1..n : says[i].kind # "evidence"
  <2>1. says \in Seq(ToSet(says))
    BY DEF IsFinding
  <2> DEFINE M == ToSet(says)
  <2> HIDE DEF M, says
  <2>2. n \in Nat /\ DOMAIN says = 1..n
    BY <2>1
  <2> QED
    BY <2>2 DEF OwnsItsEvidence, says
<1> HIDE DEF m1, m2
<1>6. /\ Len(text) = n + 2 /\ text[1] = m1 /\ text[n + 2] = m2
      /\ \A i \in 2..(n + 1) : text[i] = says[i - 1] /\ i - 1 \in 1..n
  <2>1. says \in Seq(ToSet(says))
    BY DEF IsFinding
  <2> DEFINE M == ToSet(says) \cup {m1, m2}
  <2>2. says \in Seq(M) /\ m1 \in M /\ m2 \in M
    BY <2>1
  <2> HIDE DEF M, says
  <2> QED
    BY <1>4, <1>5, <2>2
<1> HIDE DEF text, n, says
<1>7. First("fingerprint") = 1
  <2> DEFINE I == Of("fingerprint")
  <2>1. I \in SUBSET Nat /\ 1 \in I /\ \A j \in I : 1 <= j
    BY <1>3, <1>5, <1>6
  <2> HIDE DEF I
  <2>2. Min(I) = 1 /\ I # {}
    BY <2>1, SelectsFirst
  <2> QED
    BY <2>2 DEF I
<1>8. First("evidence") = n + 2
  <2> DEFINE I == Of("evidence")
  <2>1. I \in SUBSET Nat /\ n + 2 \in I
    BY <1>3, <1>5, <1>6
  <2>2. \A j \in I : n + 2 <= j
    <3> TAKE j \in I
    <3>1. j \in 1..(n + 2) /\ text[j].kind = "evidence"
      BY <1>6
    <3>2. j # 1
      BY <1>3, <1>6, <3>1
    <3>3. j \notin 2..(n + 1)
      BY <1>5, <1>6, <3>1
    <3> QED
      BY <1>5, <3>1, <3>2, <3>3
  <2> HIDE DEF I
  <2>3. Min(I) = n + 2 /\ I # {}
    BY <2>1, <2>2, SelectsFirst
  <2> QED
    BY <2>3 DEF I
<1> HIDE DEF First
<1>9. ~(n + 2 = 0) /\ ~(1 = 0)
  BY <1>5
<1> QED
  BY <1>1, <1>2, <1>3, <1>6, <1>7, <1>8, <1>9

\* A text is a list.
LEMMA TextDomain ==
  ASSUME NEW text, IsText(text)
  PROVE  DOMAIN text = 1..Len(text) /\ Len(text) \in Nat
  BY DEF IsText

\* The findings that have a place in the diff, and those that have none.
Can(diffs, toPost) == Those(toPost, CanPost(diffs, toPost))
Cannot(diffs, toPost) == Those(toPost, DOMAIN toPost \ CanPost(diffs, toPost))

\* p is published of the findings toPost, with the drops all.
PaysFor(p, diffs, toPost, all) ==
  p = [payload |-> buildReviewPayload(diffs, toPost, all), drops |-> all]

\* Findings to be posted, none of them twice.
ToBePosted(toPost, n) ==
  /\ n \in Nat /\ DOMAIN toPost = 1..n
  /\ \A i \in 1..n : IsFinding(toPost[i]) /\ OwnsItsEvidence(toPost[i])
  /\ \A i, j \in 1..n : toPost[i].fp = toPost[j].fp => i = j

\* What is posted is split in two lists, in order, that have every finding between them.
LEMMA CanAndCannot ==
  ASSUME NEW diffs, NEW toPost, NEW n, ToBePosted(toPost, n)
  PROVE  /\ CanPost(diffs, toPost) \subseteq 1..n
         /\ \E at : Listing(toPost, CanPost(diffs, toPost), Can(diffs, toPost), at)
         /\ \E at : Listing(toPost, 1..n \ CanPost(diffs, toPost), Cannot(diffs, toPost), at)
         /\ IsText(Can(diffs, toPost)) /\ IsText(Cannot(diffs, toPost))
<1> DEFINE K == CanPost(diffs, toPost)
<1>1. n \in Nat /\ DOMAIN toPost = 1..n /\ K \subseteq 1..n
  BY DEF ToBePosted, CanPost
<1> HIDE DEF K
<1>2. K \cap 1..n = K /\ ((1..n) \ K) \cap 1..n = (1..n) \ K
  BY <1>1
<1>3. \A S : /\ IsText(Those(toPost, S))
             /\ \E at : Listing(toPost, S \cap 1..n, Those(toPost, S), at)
  BY <1>1, ThoseAre DEF IsText
<1> QED
  BY <1>1, <1>2, <1>3 DEF K, Can, Cannot

\* The comments for a finding are those with its fingerprint.
LEMMA CommentedAre ==
  ASSUME NEW p, NEW diffs, NEW toPost, NEW all, PaysFor(p, diffs, toPost, all),
         NEW n, ToBePosted(toPost, n), NEW f
  PROVE  LET can == Can(diffs, toPost)
         IN Commented(p, f) = {i \in DOMAIN can : can[i].fp = f.fp}
<1> DEFINE can == Can(diffs, toPost)
           K == CanPost(diffs, toPost)
           comments == p.payload.comments
<1>1. comments = [i \in DOMAIN can |-> Comment(can[i])]
  BY DEF PaysFor, buildReviewPayload, Can
<1>2. PICK at : Listing(toPost, K, can, at)
  BY CanAndCannot
<1>3. K \subseteq 1..n
  BY CanAndCannot
<1>4. DOMAIN can = 1..Len(can)
  <2>1. IsText(can)
    BY CanAndCannot
  <2> HIDE DEF can
  <2> QED
    BY <2>1, TextDomain
<1> HIDE DEF can, K, comments
<1>5. ASSUME NEW i \in DOMAIN can
      PROVE  parseCiteCommentBody(comments[i].text) = [fp |-> can[i].fp, data |-> can[i].fp]
  <2>1. at[i] \in 1..n /\ can[i] = toPost[at[i]]
    BY <1>2, <1>3, <1>4 DEF Listing
  <2>2. IsFinding(can[i]) /\ OwnsItsEvidence(can[i])
    BY <2>1 DEF ToBePosted
  <2>3. parseCiteCommentBody(Comment(can[i]).text) = [fp |-> can[i].fp, data |-> can[i].fp]
    BY <2>2, MarkersRead
  <2>4. comments[i] = Comment(can[i])
    BY <1>1
  <2> QED
    BY <2>3, <2>4
<1>6. \A a, b : [fp |-> a, data |-> a] = [fp |-> b, data |-> b] <=> a = b
  <2>1. \A a : [fp |-> a, data |-> a].fp = a
    OBVIOUS
  <2> QED
    BY <2>1
<1>7. DOMAIN comments = DOMAIN can
  BY <1>1
<1>8. Commented(p, f) = {i \in DOMAIN can : [fp |-> can[i].fp, data |-> can[i].fp]
                                              = [fp |-> f.fp, data |-> f.fp]}
  BY <1>5, <1>7 DEF Commented, comments
<1>9. Commented(p, f) = {i \in DOMAIN can : can[i].fp = f.fp}
  BY <1>6, <1>8
<1> QED
  BY <1>9 DEF can

\* The body is empty when there is nothing to say.
LEMMA BodyIs ==
  ASSUME NEW posted, NEW unanchorable, NEW drops
  PROVE  LET body == BuildReviewBody(posted, unanchorable, drops)
             shown == writeDropSummary(drops, NotableInBody).shown
         IN /\ body.empty <=> posted = <<>> /\ unanchorable = <<>> /\ shown = <<>>
            /\ body.notable = shown
            /\ body.more = writeDropSummary(drops, NotableInBody).more
            /\ body.omitted = drops
<1> DEFINE body == BuildReviewBody(posted, unanchorable, drops)
           notable == writeDropSummary(drops, NotableInBody)
           nothing == posted = <<>> /\ unanchorable = <<>> /\ notable.shown = <<>>
           count == Len(SelectSeq(posted, LAMBDA f : f.blocks))
           fps == [i \in DOMAIN unanchorable |-> unanchorable[i].fp]
<1>1. body = [empty |-> nothing, findings |-> Len(posted), blocking |-> count,
              unanchored |-> fps, notable |-> notable.shown, more |-> notable.more,
              dropped |-> Len(drops), omitted |-> drops]
  BY DEF BuildReviewBody
<1> HIDE DEF body, notable, nothing, count, fps
<1>2. /\ body.empty = nothing /\ body.notable = notable.shown /\ body.more = notable.more
      /\ body.omitted = drops
  BY <1>1
<1> QED
  BY <1>2 DEF body, notable, nothing

\* What the body lists is what has no place.
LEMMA ListedAre ==
  ASSUME NEW p, NEW diffs, NEW toPost, NEW all, PaysFor(p, diffs, toPost, all),
         NEW n, ToBePosted(toPost, n), NEW f
  PROVE  LET cannot == Cannot(diffs, toPost)
         IN Listed(p, f) <=> \E i \in DOMAIN cannot : cannot[i].fp = f.fp
<1> DEFINE can == Can(diffs, toPost)
           cannot == Cannot(diffs, toPost)
           body == p.payload.body
           fps == [i \in DOMAIN cannot |-> cannot[i].fp]
<1>1. body = BuildReviewBody(can, cannot, all)
  BY DEF PaysFor, buildReviewPayload, Can, Cannot
<1>2. body.unanchored = fps
  BY <1>1 DEF BuildReviewBody
<1>3. body.empty => cannot = <<>>
  BY <1>1, BodyIs
<1>4. DOMAIN <<>> = {}
  OBVIOUS
<1> HIDE DEF body, can, cannot
<1>5. f.fp \in ToSet(fps) <=> \E i \in DOMAIN cannot : cannot[i].fp = f.fp
  <2>1. DOMAIN cannot = 1..Len(cannot) /\ Len(cannot) \in Nat
    <3>1. IsText(cannot)
      BY CanAndCannot DEF cannot
    <3> QED
      BY <3>1, TextDomain
  <2>2. DOMAIN fps = DOMAIN cannot /\ \A i \in DOMAIN cannot : fps[i] = cannot[i].fp
    OBVIOUS
  <2> HIDE DEF fps
  <2>3. ToSet(fps) = {fps[i] : i \in DOMAIN fps}
    BY DEF ToSet
  <2> QED
    BY <2>2, <2>3
<1>6. Listed(p, f) <=> ~body.empty /\ f.fp \in ToSet(fps)
  BY <1>2 DEF Listed, body
<1> QED
  BY <1>3, <1>4, <1>5, <1>6 DEF cannot

\* A finding to be posted is one comment, or else it is listed.
LEMMA OnceOrListed ==
  ASSUME NEW p, NEW diffs, NEW toPost, NEW all, PaysFor(p, diffs, toPost, all),
         NEW n, ToBePosted(toPost, n), NEW f, NEW j \in 1..n, toPost[j].fp = f.fp
  PROVE  \/ Cardinality(Commented(p, f)) = 1 /\ ~Listed(p, f)
         \/ Commented(p, f) = {} /\ Listed(p, f)
<1> DEFINE can == Can(diffs, toPost)
           cannot == Cannot(diffs, toPost)
           K == CanPost(diffs, toPost)
<1>1. Commented(p, f) = {i \in DOMAIN can : can[i].fp = f.fp}
  BY CommentedAre
<1>2. Listed(p, f) <=> \E i \in DOMAIN cannot : cannot[i].fp = f.fp
  BY ListedAre
<1>3. PICK at : Listing(toPost, K, can, at)
  BY CanAndCannot
<1>4. PICK to : Listing(toPost, 1..n \ K, cannot, to)
  BY CanAndCannot
<1>0. IsText(can) /\ IsText(cannot) /\ K \subseteq 1..n
  BY CanAndCannot
<1> HIDE DEF can, cannot, K
<1>5. DOMAIN can = 1..Len(can) /\ DOMAIN cannot = 1..Len(cannot)
  BY <1>0, TextDomain
<1>p. /\ \A i \in DOMAIN can : at[i] \in K /\ at[i] \in 1..n /\ can[i] = toPost[at[i]]
      /\ \A i \in DOMAIN cannot : /\ to[i] \in (1..n) \ K /\ to[i] \in 1..n
                                   /\ cannot[i] = toPost[to[i]]
  BY <1>0, <1>3, <1>4, <1>5 DEF Listing
<1>6. \A i \in 1..n : toPost[i].fp = f.fp => i = j
  BY DEF ToBePosted
<1>7. \A i \in DOMAIN can : can[i].fp = f.fp <=> at[i] = j
  <2> TAKE i \in DOMAIN can
  <2>1. at[i] \in 1..n /\ can[i] = toPost[at[i]]
    BY <1>p
  <2> QED
    BY <1>6, <2>1
<1>8. \A i \in DOMAIN cannot : cannot[i].fp = f.fp <=> to[i] = j
  <2> TAKE i \in DOMAIN cannot
  <2>1. to[i] \in 1..n /\ cannot[i] = toPost[to[i]]
    BY <1>p
  <2> QED
    BY <1>6, <2>1
<1>9. CASE j \in K
  <2>1. PICK k \in DOMAIN can : at[k] = j
    BY <1>3, <1>5, <1>9 DEF Listing
  <2>2. \A i \in DOMAIN can : at[i] = j <=> i = k
    BY <1>3, <1>5, <2>1 DEF Listing
  <2>3. Commented(p, f) = {k}
    BY <1>1, <1>7, <2>1, <2>2
  <2>4. Cardinality({k}) = 1
    BY FS_Singleton
  <2>5. \A i \in DOMAIN cannot : to[i] # j
    BY <1>4, <1>5, <1>9 DEF Listing
  <2> QED
    BY <1>2, <1>8, <2>3, <2>4, <2>5
<1>10. CASE j \notin K
  <2>1. \E i \in DOMAIN cannot : to[i] = j
    BY <1>4, <1>5, <1>10 DEF Listing
  <2>2. \A i \in DOMAIN can : at[i] # j
    BY <1>3, <1>5, <1>10 DEF Listing
  <2> QED
    BY <1>1, <1>2, <1>7, <1>8, <2>1, <2>2
<1> QED
  BY <1>9, <1>10

\* One that is not to be posted is neither.
LEMMA NeitherOf ==
  ASSUME NEW p, NEW diffs, NEW toPost, NEW all, PaysFor(p, diffs, toPost, all),
         NEW n, ToBePosted(toPost, n), NEW f, \A j \in 1..n : toPost[j].fp # f.fp
  PROVE  Commented(p, f) = {} /\ ~Listed(p, f)
<1> DEFINE can == Can(diffs, toPost)
           cannot == Cannot(diffs, toPost)
           K == CanPost(diffs, toPost)
<1>1. Commented(p, f) = {i \in DOMAIN can : can[i].fp = f.fp}
  BY CommentedAre
<1>2. Listed(p, f) <=> \E i \in DOMAIN cannot : cannot[i].fp = f.fp
  BY ListedAre
<1>3. PICK at : Listing(toPost, K, can, at)
  BY CanAndCannot
<1>4. PICK to : Listing(toPost, 1..n \ K, cannot, to)
  BY CanAndCannot
<1>0. IsText(can) /\ IsText(cannot) /\ K \subseteq 1..n
  BY CanAndCannot
<1> HIDE DEF can, cannot, K
<1>5. DOMAIN can = 1..Len(can) /\ DOMAIN cannot = 1..Len(cannot)
  BY <1>0, TextDomain
<1>p. /\ \A i \in DOMAIN can : at[i] \in K /\ at[i] \in 1..n /\ can[i] = toPost[at[i]]
      /\ \A i \in DOMAIN cannot : /\ to[i] \in (1..n) \ K /\ to[i] \in 1..n
                                   /\ cannot[i] = toPost[to[i]]
  BY <1>0, <1>3, <1>4, <1>5 DEF Listing
<1>6. \A i \in DOMAIN can : can[i].fp # f.fp
  BY <1>p
<1>7. \A i \in DOMAIN cannot : cannot[i].fp # f.fp
  BY <1>p
<1> QED
  BY <1>1, <1>2, <1>6, <1>7

\* Each comment is at a line of the diff.
LEMMA CommentsArePlaced ==
  ASSUME NEW c, IsChange(c), NoHeaderLike(c),
         NEW p, NEW toPost, NEW all, PaysFor(p, Diffs(c), toPost, all),
         NEW n, ToBePosted(toPost, n), \A j \in 1..n : WellPlaced(toPost[j], c),
         NEW i \in DOMAIN p.payload.comments
  PROVE  InTheDiff(c, p.payload.comments[i].at)
<1> DEFINE can == Can(Diffs(c), toPost)
           K == CanPost(Diffs(c), toPost)
           comments == p.payload.comments
           f == can[i]
           at == Comment(f).at
<1>1. comments = [k \in DOMAIN can |-> Comment(can[k])]
  BY DEF PaysFor, buildReviewPayload, Can
<1>2. PICK of : Listing(toPost, K, can, of)
  BY CanAndCannot
<1>3. K \subseteq 1..n /\ DOMAIN can = 1..Len(can)
  <2>1. IsText(can) /\ K \subseteq 1..n
    BY CanAndCannot
  <2> HIDE DEF can, K
  <2> QED
    BY <2>1, TextDomain
<1>4. i \in DOMAIN can /\ comments[i] = Comment(can[i])
  BY <1>1
<1>5. \A k \in K : Postable(Diffs(c), toPost[k])
  BY DEF CanPost
<1> HIDE DEF can, K, comments
<1>6. of[i] \in K /\ f = toPost[of[i]]
  BY <1>2, <1>3, <1>4 DEF Listing
<1>7. Postable(Diffs(c), f) /\ WellPlaced(f, c) /\ IsFinding(f)
  BY <1>3, <1>5, <1>6 DEF ToBePosted
<1> HIDE DEF f
<1>8. InTheDiff(c, at)
  <2>1. CASE f.reanchor # None
    <3>1. at = [path |-> f.reanchor.path, start |-> 0, line |-> f.reanchor.line,
                side |-> f.reanchor.side]
      BY <2>1 DEF Comment
    <3>2. at.path = f.reanchor.path /\ at.line = f.reanchor.line /\ at.side = f.reanchor.side
      BY <3>1
    <3>3. InTheDiff(c, f.reanchor)
      BY <1>7, <2>1 DEF WellPlaced
    <3> HIDE DEF at
    <3> QED
      BY <3>2, <3>3 DEF InTheDiff
  <2>2. CASE f.reanchor = None
    <3>1. at.path = f.path /\ at.line = f.anchor[2] /\ at.side = "RIGHT"
      BY <2>2 DEF Comment
    <3> HIDE DEF at
    <3> DEFINE ds == Diffs(c)
               lines == AnchorableLines(ds[f.path])
    <3>2. f.path \in DOMAIN ds /\ (f.anchor[1] .. f.anchor[2]) \cap lines # {}
      BY <1>7, <2>2 DEF Postable
    <3>3. f.anchor[1] .. f.anchor[2] \subseteq lines
      BY <1>7, <2>2, <3>2 DEF WellPlaced, Anchor
    <3> HIDE DEF lines, ds
    <3>4. f.anchor[2] \in lines
      <4> DEFINE a == f.anchor[1]
                 b == f.anchor[2]
      <4>1. a \in Int /\ b \in Int
        BY <1>7 DEF IsFinding
      <4>2. a .. b # {} /\ a .. b \subseteq lines
        BY <3>2, <3>3
      <4> HIDE DEF a, b
      <4>3. b \in a .. b
        BY <4>1, <4>2
      <4> QED
        BY <4>2, <4>3 DEF b
    <3> DEFINE file == FileDiff(c)
               parsed == IF file = <<>> THEN {} ELSE {c.path}
    <3>5. ds = [q \in (DOMAIN Others \ {c.path}) \cup parsed |->
                  IF q = c.path THEN file[1] ELSE Others[q]]
      BY DEF Diffs, ds
    <3> HIDE DEF file
    <3>6. CASE f.path = c.path
      <4>0. file # <<>> /\ ds[f.path] = file[1]
        BY <3>2, <3>5, <3>6
      <4>1. PICK g : file = <<g>> /\ HunkLines(g) = Those(AllLines(c), Shown(c))
        BY <4>0, DiffShown DEF file
      <4>2. ds[f.path] = g
        BY <4>0, <4>1
      <4>3. f.anchor[2] \in AnchorableLines(g)
        BY <3>4, <4>2 DEF lines
      <4> DEFINE line == f.anchor[2]
      <4>4. \E k \in Shown(c) : c.edits[k].op # "-" /\ LinesUpTo(c, k, "+") = line
        <5>1. line \in AnchorableLines(g)
          BY <4>3
        <5> HIDE DEF line
        <5> QED
          BY <4>1, <5>1, LinesFound
      <4> QED
        BY <3>1, <3>6, <4>4 DEF InTheDiff
    <3>7. CASE f.path # c.path
      <4>0. ds[f.path] = Others[f.path]
        BY <3>2, <3>5, <3>7
      <4>1. f.anchor[2] \in AnchorableLines(Others[f.path])
        BY <3>4, <4>0 DEF lines
      <4>2. \E l \in ToSet(HunkLines(Others[f.path])) : f.anchor[2] = l.newNo
        BY <4>1 DEF AnchorableLines
      <4> QED
        BY <3>1, <3>7, <4>2 DEF InTheDiff
    <3> QED
      BY <3>6, <3>7
  <2> QED
    BY <2>1, <2>2
<1> QED
  BY <1>4, <1>8 DEF comments, f

-----------------------------------------------------------------------------
(* What is published, all of it.                                            *)

\* Lists joined.
LEMMA Joined ==
  ASSUME NEW a, IsText(a), NEW b, IsText(b)
  PROVE  /\ IsText(a \o b) /\ Len(a \o b) = Len(a) + Len(b)
         /\ \A i \in 1..Len(a) : (a \o b)[i] = a[i]
         /\ \A i \in 1..Len(b) : (a \o b)[Len(a) + i] = b[i]
         /\ ToSet(a \o b) = ToSet(a) \cup ToSet(b)
<1>1. PICK L : a \in Seq(L)
  BY DEF IsText
<1>2. PICK M : b \in Seq(M)
  BY DEF IsText
<1> DEFINE N == L \cup M
<1>3. a \in Seq(N) /\ b \in Seq(N)
  BY <1>1, <1>2
<1> HIDE DEF N
<1>4. a \o b \in Seq(N)
  BY <1>3
<1>5. /\ Len(a \o b) = Len(a) + Len(b) /\ Len(a) \in Nat /\ Len(b) \in Nat
      /\ DOMAIN a = 1..Len(a) /\ DOMAIN b = 1..Len(b) /\ DOMAIN (a \o b) = 1..Len(a \o b)
      /\ \A i \in 1..Len(a) : (a \o b)[i] = a[i]
  BY <1>3
<1>6. \A i \in 1..Len(b) : (a \o b)[Len(a) + i] = b[i]
  BY <1>3
<1>7. ToSet(a \o b) = ToSet(a) \cup ToSet(b)
  <2>1. ASSUME NEW x \in ToSet(a \o b) PROVE x \in ToSet(a) \cup ToSet(b)
    <3>1. PICK i \in 1..(Len(a) + Len(b)) : x = (a \o b)[i]
      BY <1>5 DEF ToSet
    <3>2. CASE i \in 1..Len(a)
      BY <1>5, <3>1, <3>2 DEF ToSet
    <3>3. CASE i \notin 1..Len(a)
      <4>1. i - Len(a) \in 1..Len(b) /\ Len(a) + (i - Len(a)) = i
        BY <1>5, <3>3
      <4>2. x = b[i - Len(a)]
        BY <1>6, <3>1, <4>1
      <4> QED
        BY <1>5, <4>1, <4>2 DEF ToSet
    <3> QED
      BY <3>2, <3>3
  <2>2. ASSUME NEW x \in ToSet(a) PROVE x \in ToSet(a \o b)
    <3>1. PICK i \in 1..Len(a) : x = a[i]
      BY <1>5 DEF ToSet
    <3>2. i \in 1..Len(a \o b) /\ x = (a \o b)[i]
      BY <1>5, <3>1
    <3> QED
      BY <1>5, <3>2 DEF ToSet
  <2>3. ASSUME NEW x \in ToSet(b) PROVE x \in ToSet(a \o b)
    <3>1. PICK i \in 1..Len(b) : x = b[i]
      BY <1>5 DEF ToSet
    <3>2. Len(a) + i \in 1..Len(a \o b) /\ x = (a \o b)[Len(a) + i]
      BY <1>5, <1>6, <3>1
    <3> QED
      BY <1>5, <3>2 DEF ToSet
  <2> QED
    BY <2>1, <2>2, <2>3
<1> QED
  BY <1>4, <1>5, <1>6, <1>7 DEF IsText

\* The drops that could not be placed are named in the body or counted there.
LEMMA NotableAreCounted ==
  ASSUME PublicationAssumption, NEW drops, IsText(drops), NEW cuts, IsText(cuts),
         \A i \in DOMAIN cuts : IsCut(cuts[i]),
         NEW p, NEW diffs, NEW toPost, PaysFor(p, diffs, toPost, drops \o cuts)
  PROVE  /\ \A d \in ToSet(drops) : IsNotable(d) => ~p.payload.body.empty
         /\ Len(p.payload.body.notable) + p.payload.body.more = Len(Notable(drops))
         /\ ToSet(drops) \subseteq ToSet(p.payload.body.omitted)
<1> DEFINE all == drops \o cuts
           n == Len(drops)
           m == Len(all)
           S == {i \in DOMAIN drops : IsNotable(drops[i])}
           notable == Notable(all)
           summary == writeDropSummary(all, NotableInBody)
           body == p.payload.body
           can == Can(diffs, toPost)
           cannot == Cannot(diffs, toPost)
<1>1. /\ n \in Nat /\ DOMAIN drops = 1..n /\ m \in Nat /\ DOMAIN all = 1..m
      /\ m = n + Len(cuts) /\ DOMAIN cuts = 1..Len(cuts) /\ Len(cuts) \in Nat
      /\ \A i \in 1..n : all[i] = drops[i]
      /\ \A i \in 1..Len(cuts) : all[n + i] = cuts[i]
      /\ ToSet(drops) \subseteq ToSet(all)
  <2>1. /\ IsText(all) /\ m = n + Len(cuts)
        /\ \A i \in 1..n : all[i] = drops[i]
        /\ \A i \in 1..Len(cuts) : all[n + i] = cuts[i]
        /\ ToSet(all) = ToSet(drops) \cup ToSet(cuts)
    BY Joined
  <2>2. n \in Nat /\ DOMAIN drops = 1..n
    BY TextDomain
  <2>3. Len(cuts) \in Nat /\ DOMAIN cuts = 1..Len(cuts)
    BY TextDomain
  <2> HIDE DEF all
  <2>4. m \in Nat /\ DOMAIN all = 1..m
    BY <2>1, TextDomain
  <2> QED
    BY <2>1, <2>2, <2>3, <2>4
<1>2. body = BuildReviewBody(can, cannot, all)
  BY DEF PaysFor, buildReviewPayload, Can, Cannot
<1>3. /\ body.empty => summary.shown = <<>>
      /\ body.notable = summary.shown /\ body.more = summary.more /\ body.omitted = all
  <2> HIDE DEF body, can, cannot, all
  <2> QED
    BY <1>2, BodyIs
<1> HIDE DEF body, can, cannot, all, m, n
<1>4. {i \in DOMAIN all : IsNotable(all[i])} = S
  <2>1. \A d : IsCut(d) => ~IsNotable(d)
    BY DEF IsCut, IsNotable
  <2>2. ASSUME NEW i \in 1..m, i \notin 1..n PROVE ~IsNotable(all[i])
    <3>1. i - n \in 1..Len(cuts) /\ n + (i - n) = i
      BY <1>1, <2>2
    <3>2. all[i] = cuts[i - n]
      BY <1>1, <3>1
    <3> QED
      BY <1>1, <2>1, <3>1, <3>2
  <2>3. \A i \in 1..n : i \in 1..m
    BY <1>1
  <2> QED
    BY <1>1, <2>2, <2>3
<1>5. notable = Those(all, S)
  BY <1>4 DEF Notable
<1>6. S \subseteq 1..n /\ S \cap 1..n = S /\ S \cap 1..m = S
  <2>1. S \subseteq 1..n /\ \A i \in 1..n : i \in 1..m
    BY <1>1
  <2> HIDE DEF S
  <2> QED
    BY <2>1
<1>7. Notable(drops) = Those(drops, S)
  BY DEF Notable
<1> HIDE DEF S, notable
<1>8. Len(Notable(drops)) = Cardinality(S) /\ Len(notable) = Cardinality(S) /\ IsText(notable)
  <2>1. Len(Those(drops, S)) = Cardinality(S \cap 1..n)
    BY <1>1, ThoseLength
  <2>2. Len(Those(all, S)) = Cardinality(S \cap 1..m)
    BY <1>1, ThoseLength
  <2>3. IsText(Those(all, S))
    <3>1. Those(all, S) \in Seq({all[i] : i \in 1..m})
      BY <1>1, ThoseAre
    <3> QED
      BY <3>1 DEF IsText
  <2> QED
    BY <1>5, <1>6, <1>7, <2>1, <2>2, <2>3
<1> DEFINE len == Len(notable)
           cap == NotableInBody
           shown == SubSeq(notable, 1, IF len < cap THEN len ELSE cap)
<1>9. summary.shown = shown /\ summary.more = len - Len(shown)
  BY DEF writeDropSummary, FirstOf, Least2, notable
<1>10. len \in Nat /\ cap \in Nat /\ cap >= 1
  <2>1. len \in Nat
    BY <1>8, TextDomain
  <2> QED
    BY <2>1 DEF PublicationAssumption
<1>11. Len(shown) = (IF len < cap THEN len ELSE cap)
  <2> DEFINE k == IF len < cap THEN len ELSE cap
  <2>1. k \in 0..len
    BY <1>10
  <2>2. PICK L : notable \in Seq(L)
    BY <1>8 DEF IsText
  <2> HIDE DEF k
  <2>3. Len(SubSeq(notable, 1, k)) = k
    BY <2>1, <2>2
  <2> QED
    BY <2>3 DEF k
<1>12. Len(body.notable) + body.more = len
  <2>1. Len(shown) \in Int
    BY <1>10, <1>11
  <2> HIDE DEF shown, summary, len
  <2> QED
    BY <1>3, <1>9, <1>10, <2>1
<1>13. ASSUME NEW d \in ToSet(drops), IsNotable(d) PROVE ~body.empty
  <2>1. PICK i \in 1..n : drops[i] = d
    BY <1>1 DEF ToSet
  <2>2. i \in S
    BY <1>1, <1>13, <2>1 DEF S
  <2>3. IsFiniteSet(S) /\ Cardinality(S) \in Nat
    BY <1>1, <1>6, Positions
  <2>4. Cardinality(S) # 0
    BY <2>2, <2>3, FS_EmptySet
  <2>5. len >= 1
    BY <1>8, <1>10, <2>3, <2>4
  <2>6. Len(shown) # 0
    BY <1>10, <1>11, <2>5
  <2>7. shown # <<>>
    BY <2>6
  <2> QED
    BY <1>3, <1>9, <2>7
<1>14. ToSet(drops) \subseteq ToSet(body.omitted)
  BY <1>1, <1>3
<1> QED
  BY <1>8, <1>12, <1>13, <1>14 DEF body

\* There is room for one comment at least.
LEMMA RoomForOne ==
  ASSUME PublicationAssumption, NEW lines \in Nat, NEW cfgMax \in Int
  PROVE  CommentBudget(lines, cfgMax) \in Nat \ {0}
<1>1. /\ MinCommentBudget \in Nat \ {0} /\ MaxCommentBudget \in Nat \ {0}
      /\ LinesPerComment \in Nat \ {0} /\ MaxConfiguredComments \in Nat \ {0}
  BY DEF PublicationAssumption
<1> DEFINE more == lines \div LinesPerComment
<1>2. more \in Nat
  BY <1>1
<1> HIDE DEF more
<1> DEFINE formula == IF MinCommentBudget + more < MaxCommentBudget
                      THEN MinCommentBudget + more ELSE MaxCommentBudget
           limit == IF cfgMax > 0 THEN (IF cfgMax < MaxConfiguredComments
                                        THEN cfgMax ELSE MaxConfiguredComments)
                    ELSE MaxConfiguredComments
<1>3. formula \in Nat \ {0} /\ limit \in Nat \ {0}
  BY <1>1, <1>2
<1>4. CommentBudget(lines, cfgMax) = IF formula < limit THEN formula ELSE limit
  BY DEF CommentBudget, Least2, more
<1> HIDE DEF formula, limit
<1> QED
  BY <1>3, <1>4

\* No two of them have the same fingerprint, nor one of either list that of one
\* of the other.
Apart(fs, gs) ==
  /\ \A i, j \in DOMAIN fs : fs[i].fp = fs[j].fp => i = j
  /\ \A i, j \in DOMAIN gs : gs[i].fp = gs[j].fp => i = j
  /\ \A i \in DOMAIN fs, j \in DOMAIN gs : fs[i].fp # gs[j].fp

\* What there is to publish.
IsRun(q) ==
  /\ q.run \in Runs /\ q.found \in Seq(Found) /\ q.carried \in Seq(Carried)
  /\ Apart(q.found, q.carried)
  /\ q.carried # <<>> => q.run.mode = "github"

\* The inductive invariant: what is published is a run, with no fingerprint twice.
PublicationInv ==
  question.about = "publication" =>
    DOMAIN question = {"about", "run", "found", "carried"} /\ IsRun(question)

\* One more that has a fingerprint of its own.
LEMMA ApartStill ==
  ASSUME NEW fs, IsText(fs), NEW gs, IsText(gs), Apart(fs, gs), NEW f,
         \A g \in ToSet(fs \o gs) : g.fp # f.fp
  PROVE  Apart(Append(fs, f), gs) /\ Apart(fs, Append(gs, f))
<1>1. /\ \A i \in DOMAIN fs : fs[i].fp # f.fp
      /\ \A i \in DOMAIN gs : gs[i].fp # f.fp
  <2>1. ToSet(fs \o gs) = ToSet(fs) \cup ToSet(gs)
    BY Joined
  <2>2. (\A i \in DOMAIN fs : fs[i] \in ToSet(fs)) /\ \A i \in DOMAIN gs : gs[i] \in ToSet(gs)
    BY DEF ToSet
  <2> QED
    BY <2>1, <2>2
<1>2. ASSUME NEW s, IsText(s)
      PROVE  /\ DOMAIN Append(s, f) = 1..(Len(s) + 1) /\ Append(s, f)[Len(s) + 1] = f
             /\ DOMAIN s = 1..Len(s) /\ Len(s) \in Nat
             /\ \A i \in 1..Len(s) : Append(s, f)[i] = s[i]
             /\ \A i \in 1..(Len(s) + 1) : i = Len(s) + 1 \/ i \in 1..Len(s)
  <2>1. PICK L : s \in Seq(L)
    BY <1>2 DEF IsText
  <2> DEFINE M == L \cup {f}
  <2>2. s \in Seq(M) /\ f \in M
    BY <2>1
  <2> HIDE DEF M
  <2> QED
    BY <2>2
<1>3. Apart(Append(fs, f), gs)
  <2> DEFINE new == Append(fs, f)
             n == Len(fs)
  <2>1. /\ DOMAIN new = 1..(n + 1) /\ new[n + 1] = f /\ DOMAIN fs = 1..n
        /\ \A i \in 1..n : new[i] = fs[i]
        /\ \A i \in 1..(n + 1) : i = n + 1 \/ i \in 1..n
    BY <1>2
  <2> HIDE DEF new, n
  <2>2. /\ \A i \in 1..n : fs[i].fp # f.fp
        /\ \A i, j \in 1..n : fs[i].fp = fs[j].fp => i = j
        /\ \A i \in 1..n, j \in DOMAIN gs : fs[i].fp # gs[j].fp
        /\ \A i, j \in DOMAIN gs : gs[i].fp = gs[j].fp => i = j
        /\ \A j \in DOMAIN gs : gs[j].fp # f.fp
    BY <1>1, <2>1 DEF Apart
  <2>3. ASSUME NEW i \in 1..(n + 1), NEW j \in 1..(n + 1), new[i].fp = new[j].fp
        PROVE  i = j
    <3>1. (i = n + 1 \/ i \in 1..n) /\ (j = n + 1 \/ j \in 1..n)
      BY <2>1
    <3>2. CASE i = n + 1 /\ j \in 1..n
      BY <2>1, <2>2, <2>3, <3>2
    <3>3. CASE j = n + 1 /\ i \in 1..n
      BY <2>1, <2>2, <2>3, <3>3
    <3>4. CASE i \in 1..n /\ j \in 1..n
      BY <2>1, <2>2, <2>3, <3>4
    <3> QED
      BY <3>1, <3>2, <3>3, <3>4
  <2>4. ASSUME NEW i \in 1..(n + 1), NEW j \in DOMAIN gs PROVE new[i].fp # gs[j].fp
    <3>1. i = n + 1 \/ i \in 1..n
      BY <2>1
    <3>2. CASE i = n + 1
      BY <2>1, <2>2, <3>2
    <3>3. CASE i \in 1..n
      BY <2>1, <2>2, <3>3
    <3> QED
      BY <3>1, <3>2, <3>3
  <2>5. Apart(new, gs)
    BY <2>1, <2>2, <2>3, <2>4 DEF Apart
  <2> QED
    BY <2>5 DEF new
<1>4. Apart(fs, Append(gs, f))
  <2> DEFINE new == Append(gs, f)
             n == Len(gs)
  <2>1. /\ DOMAIN new = 1..(n + 1) /\ new[n + 1] = f /\ DOMAIN gs = 1..n
        /\ \A i \in 1..n : new[i] = gs[i]
        /\ \A i \in 1..(n + 1) : i = n + 1 \/ i \in 1..n
    BY <1>2
  <2> HIDE DEF new, n
  <2>2. /\ \A i \in 1..n : gs[i].fp # f.fp
        /\ \A i, j \in 1..n : gs[i].fp = gs[j].fp => i = j
        /\ \A i \in 1..n, j \in DOMAIN fs : gs[i].fp # fs[j].fp
        /\ \A i, j \in DOMAIN fs : fs[i].fp = fs[j].fp => i = j
        /\ \A j \in DOMAIN fs : fs[j].fp # f.fp
    BY <1>1, <2>1 DEF Apart
  <2>3. ASSUME NEW i \in 1..(n + 1), NEW j \in 1..(n + 1), new[i].fp = new[j].fp
        PROVE  i = j
    <3>1. (i = n + 1 \/ i \in 1..n) /\ (j = n + 1 \/ j \in 1..n)
      BY <2>1
    <3>2. CASE i = n + 1 /\ j \in 1..n
      BY <2>1, <2>2, <2>3, <3>2
    <3>3. CASE j = n + 1 /\ i \in 1..n
      BY <2>1, <2>2, <2>3, <3>3
    <3>4. CASE i \in 1..n /\ j \in 1..n
      BY <2>1, <2>2, <2>3, <3>4
    <3> QED
      BY <3>1, <3>2, <3>3, <3>4
  <2>4. ASSUME NEW i \in 1..(n + 1), NEW j \in DOMAIN fs PROVE new[i].fp # fs[j].fp
    <3>1. i = n + 1 \/ i \in 1..n
      BY <2>1
    <3>2. CASE i = n + 1
      BY <2>1, <2>2, <3>2
    <3>3. CASE i \in 1..n
      BY <2>1, <2>2, <3>3
    <3> QED
      BY <3>1, <3>2, <3>3
  <2>5. Apart(fs, new)
    BY <2>1, <2>2, <2>3, <2>4 DEF Apart
  <2> QED
    BY <2>5 DEF new
<1> QED
  BY <1>3, <1>4

\* What there is to publish keeps its form (Find, Carry).
LEMMA PublicationStays == Spec => []PublicationInv
<1>1. Init => PublicationInv
  <2> SUFFICES ASSUME Init PROVE PublicationInv
    OBVIOUS
  <2>1. CASE \E r \in Runs :
               question = [about |-> "publication", run |-> r, found |-> <<>>, carried |-> <<>>]
    <3>1. PICK r \in Runs :
               question = [about |-> "publication", run |-> r, found |-> <<>>, carried |-> <<>>]
      BY <2>1
    <3>2. /\ question.run = r /\ question.found = <<>> /\ question.carried = <<>>
          /\ DOMAIN question = {"about", "run", "found", "carried"}
      BY <3>1
    <3>3. (\A L : <<>> \in Seq(L)) /\ DOMAIN <<>> = {}
      OBVIOUS
    <3>4. Apart(<<>>, <<>>)
      BY <3>3 DEF Apart
    <3> QED
      BY <3>2, <3>3, <3>4 DEF PublicationInv, IsRun
  <2>2. CASE question.about # "publication"
    BY <2>2 DEF PublicationInv
  <2> QED
    BY <2>1, <2>2 DEF Init
<1>2. PublicationInv /\ [Next]_question => PublicationInv'
  <2> SUFFICES ASSUME PublicationInv, [Next]_question PROVE PublicationInv'
    OBVIOUS
  <2> DEFINE fs == question.found
             gs == question.carried
  <2>0. ASSUME question.about = "publication"
        PROVE  /\ DOMAIN question = {"about", "run", "found", "carried"}
               /\ question.run \in Runs /\ fs \in Seq(Found) /\ gs \in Seq(Carried)
               /\ Apart(fs, gs) /\ (gs # <<>> => question.run.mode = "github")
               /\ IsText(fs) /\ IsText(gs)
    BY <2>0 DEF PublicationInv, IsRun, IsText
  <2>1. CASE Find
    <3>1. PICK f \in Found : /\ \A g \in ToSet(fs \o gs) : g.fp # f.fp
                             /\ question' = [question EXCEPT !.found = Append(fs, f)]
      BY <2>1 DEF Find
    <3>2. question.about = "publication"
      BY <2>1 DEF Find
    <3> HIDE DEF fs, gs
    <3>3. Append(fs, f) \in Seq(Found) /\ Apart(Append(fs, f), gs)
      BY <2>0, <3>1, <3>2, ApartStill
    <3>4. /\ DOMAIN question' = {"about", "run", "found", "carried"}
          /\ question'.run = question.run /\ question'.carried = gs
          /\ question'.found = Append(fs, f)
      BY <2>0, <3>1, <3>2 DEF gs
    <3>5. IsRun(question)'
      BY <2>0, <3>2, <3>3, <3>4 DEF IsRun
    <3> QED
      BY <3>4, <3>5 DEF PublicationInv
  <2>2. CASE Carry
    <3>1. PICK f \in Carried : /\ \A g \in ToSet(fs \o gs) : g.fp # f.fp
                               /\ question' = [question EXCEPT !.carried = Append(gs, f)]
      BY <2>2 DEF Carry
    <3>2. question.about = "publication" /\ question.run.mode = "github"
      BY <2>2 DEF Carry
    <3> HIDE DEF fs, gs
    <3>3. Append(gs, f) \in Seq(Carried) /\ Apart(fs, Append(gs, f))
      BY <2>0, <3>1, <3>2, ApartStill
    <3>4. /\ DOMAIN question' = {"about", "run", "found", "carried"}
          /\ question'.run = question.run /\ question'.found = fs
          /\ question'.carried = Append(gs, f)
      BY <2>0, <3>1, <3>2 DEF fs
    <3>5. IsRun(question)'
      BY <2>0, <3>2, <3>3, <3>4 DEF IsRun
    <3> QED
      BY <3>4, <3>5 DEF PublicationInv
  <2>3. CASE Repeat
    BY <2>3 DEF PublicationInv, Repeat
  <2>4. CASE Layer
    BY <2>4 DEF PublicationInv, Layer
  <2>5. CASE UNCHANGED question
    BY <2>5 DEF PublicationInv, IsRun
  <2> QED
    BY <2>1, <2>2, <2>3, <2>4, <2>5 DEF Next
<1> QED
  BY <1>1, <1>2, PTL DEF Spec

\* Of the run q, toPost is posted, and cuts are the drops of the budget.
Posts(q, toPost, n, cuts) ==
  /\ ToBePosted(toPost, n) /\ \A j \in 1..n : toPost[j] \in Found \cup Carried
  /\ PaysFor(PublishedOf(q), Diffs(q.run.change), toPost, q.run.drops \o cuts)
  /\ IsText(cuts) /\ \A d \in DOMAIN cuts : IsCut(cuts[d])

\* A finding that was cut: none of those posted has its fingerprint.
CutFrom(q, toPost, n, cuts, f) ==
  /\ q.run.mode = "report" /\ \A j \in 1..n : toPost[j].fp # f.fp
  /\ \E d \in DOMAIN cuts : cuts[d].fp = f.fp

\* On GitHub all the findings are posted; in a report those that the budget
\* chose, the first of which blocks if any does (CommentsToPost).
LEMMA WhatIsPosted ==
  ASSUME PublicationAssumption, NEW q, IsRun(q),
         \A f \in Found \cup Carried : OwnsItsEvidence(f)
  PROVE  \E toPost, n, cuts :
           /\ Posts(q, toPost, n, cuts)
           /\ \A f \in ToSet(q.found \o q.carried) :
                (\E j \in 1..n : toPost[j] = f) \/ CutFrom(q, toPost, n, cuts, f)
           /\ \A f \in ToSet(q.found \o q.carried) : f.blocks =>
                \E j \in 1..n : toPost[j] \in ToSet(q.found \o q.carried) /\ toPost[j].blocks
<1> DEFINE found == q.found
           carried == q.carried
           both == found \o carried
           m == Len(found)
           ranked == rankForBudget(found)
           allocated == AllocateBudget(ranked, BudgetOf(q), MaxPerFile)
           chosen == allocated.chosen
           cuts == allocated.drops
           toPost == CommentsToPost(q.run.mode, both, chosen)
<1>1. /\ IsText(found) /\ IsText(carried) /\ m \in Nat /\ DOMAIN found = 1..m
      /\ Len(carried) \in Nat /\ DOMAIN carried = 1..Len(carried)
      /\ \A i \in 1..m : found[i] \in Found
      /\ \A i \in 1..Len(carried) : carried[i] \in Carried
  BY DEF IsRun, IsText
<1>2. \A f \in Found \cup Carried : IsFinding(f) /\ OwnsItsEvidence(f)
  BY DEF PublicationAssumption, IsFinding
<1>3. /\ q.run \in Runs /\ Apart(found, carried) /\ (carried # <<>> => q.run.mode = "github")
      /\ q.run.mode = "github" \/ q.run.mode = "report"
      /\ BudgetOf(q) \in Nat \ {0} /\ MaxPerFile \in Nat \ {0}
  <2>1. q.run \in Runs
    BY DEF IsRun
  <2>2. /\ q.run.mode = "github" \/ q.run.mode = "report"
        /\ q.run.lines \in Nat /\ q.run.cfgMax \in Int /\ MaxPerFile \in Nat \ {0}
    BY <2>1 DEF PublicationAssumption
  <2>3. BudgetOf(q) \in Nat \ {0}
    BY <2>2, RoomForOne DEF BudgetOf
  <2> QED
    BY <2>1, <2>2, <2>3 DEF IsRun
<1>4. PublishedOf(q) = [payload |-> buildReviewPayload(Diffs(q.run.change), toPost,
                                                       q.run.drops \o cuts),
                        drops |-> q.run.drops \o cuts]
  BY DEF PublishedOf, Published
<1>5. toPost = IF q.run.mode = "report" THEN chosen ELSE both
  BY DEF CommentsToPost
<1> HIDE DEF found, carried, both, m
<1>6. PICK which : Ranks(found, m, which)
  BY <1>1, <1>2, RankIsAnOrder
<1>7. /\ ranked = [k \in 1..m |-> found[which[k]]]
      /\ \A k \in 1..m : which[k] \in 1..m
      /\ \A i, j \in 1..m : which[i] = which[j] => i = j
      /\ \A i \in 1..m : \E k \in 1..m : which[k] = i
  BY <1>6 DEF Ranks
<1> HIDE DEF ranked
<1>8. DOMAIN ranked = 1..m /\ \A k \in 1..m : ranked[k] = found[which[k]]
  BY <1>7
<1>9. PICK C, at : Chooses(allocated, ranked, m, C, at)
  BY <1>1, <1>3, <1>8, BudgetChooses
<1> HIDE DEF allocated
<1>10. /\ IsText(chosen) /\ IsText(cuts) /\ \A d \in DOMAIN cuts : IsCut(cuts[d])
       /\ C \in SUBSET (1..m) /\ Listing(ranked, C, chosen, at) /\ (m > 0 => 1 \in C)
       /\ \A i \in (1..m) \ C : \E d \in DOMAIN cuts : cuts[d].fp = ranked[i].fp
  BY <1>9 DEF Chooses
<1> HIDE DEF toPost, cuts, chosen
<1>11. PaysFor(PublishedOf(q), Diffs(q.run.change), toPost, q.run.drops \o cuts)
  BY <1>4 DEF PaysFor
<1>12. CASE q.run.mode = "report"
  <2> DEFINE n == Len(chosen)
             of == [k \in 1..n |-> which[at[k]]]
  <2>1. toPost = chosen /\ carried = <<>> /\ n \in Nat /\ DOMAIN chosen = 1..n
    BY <1>3, <1>5, <1>10, <1>12, TextDomain
  <2>2. /\ \A k \in 1..n : at[k] \in C /\ at[k] \in 1..m
        /\ \A j, k \in 1..n : at[j] = at[k] => j = k
        /\ \A r \in C : \E k \in 1..n : at[k] = r
        /\ \A k \in 1..n : chosen[k] = ranked[at[k]]
    BY <1>10 DEF Listing
  <2> HIDE DEF n
  <2>3. \A k \in 1..n : /\ of[k] = which[at[k]] /\ of[k] \in 1..m
                        /\ toPost[k] = found[of[k]] /\ toPost[k] \in Found
    <3> TAKE k \in 1..n
    <3> DEFINE a == at[k]
    <3>1. a \in 1..m /\ chosen[k] = ranked[a] /\ of[k] = which[a]
      BY <2>2
    <3> HIDE DEF a, of
    <3>2. which[a] \in 1..m /\ ranked[a] = found[which[a]] /\ found[which[a]] \in Found
      BY <1>1, <1>7, <1>8, <3>1
    <3> QED
      BY <2>1, <3>1, <3>2 DEF a
  <2> HIDE DEF of
  <2>4. \A i, j \in 1..m : found[i].fp = found[j].fp => i = j
    BY <1>1, <1>3 DEF Apart
  <2>5. ASSUME NEW i \in 1..n, NEW j \in 1..n, toPost[i].fp = toPost[j].fp PROVE i = j
    <3> DEFINE a == of[i]
               b == of[j]
               x == at[i]
               y == at[j]
    <3>0. /\ a \in 1..m /\ b \in 1..m /\ toPost[i] = found[a] /\ toPost[j] = found[b]
          /\ a = which[x] /\ b = which[y] /\ x \in 1..m /\ y \in 1..m
      BY <2>2, <2>3
    <3> HIDE DEF a, b
    <3>1. a = b
      BY <2>4, <2>5, <3>0
    <3> HIDE DEF x, y
    <3>3. x = y
      <4>1. which[x] = which[y] /\ x \in 1..m /\ y \in 1..m
        BY <3>0, <3>1
      <4>2. \A k, l \in 1..m : which[k] = which[l] => k = l
        BY <1>7
      <4> QED
        BY <4>1, <4>2
    <3>2. at[i] = at[j]
      BY <3>3 DEF x, y
    <3> QED
      BY <2>2, <3>2
  <2>6. ToBePosted(toPost, n)
    BY <1>2, <2>1, <2>3, <2>5 DEF ToBePosted
  <2>7. Posts(q, toPost, n, cuts)
    BY <1>10, <1>11, <2>3, <2>6 DEF Posts
  <2>8. \A f \in ToSet(both) : \E i \in 1..m : found[i] = f
    <3>1. ToSet(both) = ToSet(found) \cup ToSet(carried)
      BY <1>1, Joined DEF both
    <3>2. ToSet(carried) = {}
      BY <2>1 DEF ToSet
    <3>3. ToSet(found) = {found[i] : i \in 1..m}
      BY <1>1 DEF ToSet
    <3> QED
      BY <3>1, <3>2, <3>3
  <2>9. \A i \in 1..m : found[i] \in ToSet(both)
    <3>1. ToSet(both) = ToSet(found) \cup ToSet(carried)
      BY <1>1, Joined DEF both
    <3> QED
      BY <1>1, <3>1 DEF ToSet
  <2>10. ASSUME NEW f \in ToSet(both)
         PROVE  (\E j \in 1..n : toPost[j] = f) \/ CutFrom(q, toPost, n, cuts, f)
    <3>1. PICK i \in 1..m : found[i] = f
      BY <2>8
    <3>2. PICK r \in 1..m : which[r] = i
      BY <1>7
    <3>3. CASE r \in C
      <4>1. PICK k \in 1..n : at[k] = r
        BY <2>2, <3>3
      <4>2. toPost[k] = f
        BY <2>3, <3>1, <3>2, <4>1
      <4> QED
        BY <4>2
    <3>4. CASE r \notin C
      <4>1. ASSUME NEW j \in 1..n, toPost[j].fp = f.fp PROVE FALSE
        <5> DEFINE b == of[j]
        <5>0. b \in 1..m /\ found[b].fp = found[i].fp
          <6>1. b \in 1..m /\ toPost[j] = found[b]
            BY <2>3, <4>1
          <6> HIDE DEF b
          <6> QED
            BY <3>1, <4>1, <6>1
        <5> HIDE DEF b
        <5>1. of[j] = i
          BY <2>4, <5>0 DEF b
        <5> DEFINE x == at[j]
        <5>3. x \in 1..m /\ which[x] = i
          BY <2>2, <2>3, <5>1
        <5> HIDE DEF x
        <5>4. x = r
          BY <1>7, <3>2, <5>3
        <5>2. at[j] = r
          BY <5>4 DEF x
        <5> QED
          BY <2>2, <3>4, <5>2
      <4>2. \E d \in DOMAIN cuts : cuts[d].fp = f.fp
        <5>1. ranked[r] = f
          BY <1>8, <3>1, <3>2
        <5> QED
          BY <1>10, <3>4, <5>1
      <4> QED
        BY <1>12, <4>1, <4>2 DEF CutFrom
    <3> QED
      BY <3>3, <3>4
  <2>11. ASSUME NEW f \in ToSet(both), f.blocks
         PROVE  \E j \in 1..n : toPost[j] \in ToSet(both) /\ toPost[j].blocks
    <3>1. PICK i \in 1..m : found[i] = f
      BY <2>8
    <3>2. m > 0 /\ which[1] \in 1..m /\ found[which[1]].blocks
      <4>1. \A k \in DOMAIN found : IsFinding(found[k])
        BY <1>1, <1>2
      <4>2. found[i].blocks
        BY <2>11, <3>1
      <4> QED
        BY <1>1, <1>6, <4>1, <4>2, BlockingComesFirst
    <3>3. PICK k \in 1..n : at[k] = 1
      BY <1>10, <2>2, <3>2
    <3>4. toPost[k] = found[which[1]]
      BY <2>3, <3>3
    <3> QED
      BY <2>9, <3>2, <3>4
  <2> QED
    BY <2>7, <2>10, <2>11 DEF both, found, carried
<1>13. CASE q.run.mode # "report"
  <2> DEFINE k == Len(carried)
             n == m + k
  <2>1. /\ toPost = both /\ IsText(both) /\ Len(both) = n
        /\ \A i \in 1..m : both[i] = found[i]
        /\ \A i \in 1..k : both[m + i] = carried[i]
    BY <1>1, <1>5, <1>13, Joined DEF both, m
  <2> HIDE DEF k
  <2>2. n \in Nat /\ DOMAIN both = 1..n /\ k \in Nat /\ DOMAIN carried = 1..k
    BY <1>1, <2>1, TextDomain DEF k
  <2>3. ASSUME NEW i \in 1..n
        PROVE  (i \in 1..m /\ both[i] = found[i])
               \/ (i - m \in 1..k /\ i \notin 1..m /\ both[i] = carried[i - m])
    <3>1. CASE i \in 1..m
      BY <2>1, <3>1
    <3>2. CASE i \notin 1..m
      <4>1. i - m \in 1..k /\ m + (i - m) = i
        BY <1>1, <2>2, <3>2
      <4>2. both[m + (i - m)] = carried[i - m]
        BY <2>1, <4>1
      <4> QED
        BY <3>2, <4>1, <4>2
    <3> QED
      BY <3>1, <3>2
  <2> HIDE DEF n
  <2>4. ASSUME NEW i \in 1..n PROVE both[i] \in Found \cup Carried
    <3>1. CASE i \in 1..m /\ both[i] = found[i]
      BY <1>1, <3>1
    <3>2. CASE i - m \in 1..k /\ both[i] = carried[i - m]
      BY <1>1, <3>2 DEF k
    <3> QED
      BY <2>3, <3>1, <3>2
  <2>5. ASSUME NEW i \in 1..n, NEW j \in 1..n, both[i].fp = both[j].fp PROVE i = j
    <3>1. /\ \A a, b \in 1..m : found[a].fp = found[b].fp => a = b
          /\ \A a, b \in 1..k : carried[a].fp = carried[b].fp => a = b
          /\ \A a \in 1..m, b \in 1..k : found[a].fp # carried[b].fp
      BY <1>1, <1>3, <2>2 DEF Apart
    <3>2. CASE i \in 1..m
      <4>1. both[i] = found[i]
        BY <2>3, <3>2
      <4>2. CASE j \in 1..m
        BY <2>3, <2>5, <3>1, <3>2, <4>1, <4>2
      <4>3. CASE j \notin 1..m
        <5>1. j - m \in 1..k /\ both[j] = carried[j - m]
          BY <2>3, <4>3
        <5> QED
          BY <2>5, <3>1, <3>2, <4>1, <5>1
      <4> QED
        BY <4>2, <4>3
    <3>3. CASE i \notin 1..m
      <4>1. i - m \in 1..k /\ both[i] = carried[i - m]
        BY <2>3, <3>3
      <4>2. CASE j \in 1..m
        <5>1. both[j] = found[j]
          BY <2>3, <4>2
        <5> QED
          BY <2>5, <3>1, <4>1, <4>2, <5>1
      <4>3. CASE j \notin 1..m
        <5>1. j - m \in 1..k /\ both[j] = carried[j - m]
          BY <2>3, <4>3
        <5>2. i - m = j - m
          BY <2>5, <3>1, <4>1, <5>1
        <5> QED
          BY <1>1, <2>2, <5>2
      <4> QED
        BY <4>2, <4>3
    <3> QED
      BY <3>2, <3>3
  <2>6. ToBePosted(toPost, n)
    BY <1>2, <2>1, <2>2, <2>4, <2>5 DEF ToBePosted
  <2>7. Posts(q, toPost, n, cuts)
    BY <1>10, <1>11, <2>1, <2>4, <2>6 DEF Posts
  <2>8. \A f \in ToSet(both) : \E j \in 1..n : toPost[j] = f
    BY <2>1, <2>2 DEF ToSet
  <2>9. \A f \in ToSet(both) : f.blocks =>
          \E j \in 1..n : toPost[j] \in ToSet(both) /\ toPost[j].blocks
    BY <2>8
  <2> QED
    BY <2>7, <2>8, <2>9 DEF both, found, carried
<1> QED
  BY <1>12, <1>13

\* NothingIsLost: whatever a run finds and carries, in any number and any order,
\* whatever the budget, each finding is one comment at a place in the diff, or
\* is listed in the body, or, in a report, is among the drops; the drops that
\* could not be placed are named or counted (buildReviewPayload, AllocateBudget,
\* BuildReviewBody).
THEOREM NothingPublishedIsLost ==
  ASSUME \A f \in Found \cup Carried : OwnsItsEvidence(f),
         \A r \in Runs : /\ NoHeaderLike(r.change)
                         /\ \A f \in Found \cup Carried : WellPlaced(f, r.change)
  PROVE  Spec => []NothingIsLost
<1>1. PublicationInv => NothingIsLost
  <2> SUFFICES ASSUME PublicationInv, question.about = "publication"
               PROVE  Accounted(question, PublishedOf(question))
    BY DEF NothingIsLost
  <2> DEFINE q == question
             p == PublishedOf(question)
             c == q.run.change
  <2>1. IsRun(q)
    BY DEF PublicationInv
  <2> HIDE DEF q, p
  <2>2. PICK toPost, n, cuts :
          /\ Posts(q, toPost, n, cuts)
          /\ \A f \in ToSet(q.found \o q.carried) :
               (\E j \in 1..n : toPost[j] = f) \/ CutFrom(q, toPost, n, cuts, f)
    BY <2>1, PublicationAssumption, WhatIsPosted
  <2>3. p = PublishedOf(q)
    BY DEF p, q
  <2>4. /\ ToBePosted(toPost, n) /\ PaysFor(p, Diffs(c), toPost, q.run.drops \o cuts)
        /\ IsText(cuts) /\ \A d \in DOMAIN cuts : IsCut(cuts[d])
        /\ \A j \in 1..n : toPost[j] \in Found \cup Carried
    BY <2>2, <2>3 DEF Posts
  <2>5. /\ IsChange(c) /\ NoHeaderLike(c) /\ IsText(q.run.drops)
        /\ \A j \in 1..n : WellPlaced(toPost[j], c)
    <3>1. q.run \in Runs
      BY <2>1 DEF IsRun
    <3>2. IsChange(c) /\ q.run.drops \in Seq(ToSet(q.run.drops))
      BY <3>1, PublicationAssumption DEF PublicationAssumption
    <3> QED
      BY <2>4, <3>1, <3>2 DEF IsText
  <2> HIDE DEF c
  <2>6. ASSUME NEW f \in ToSet(q.found \o q.carried), NEW i \in Commented(p, f)
        PROVE  InTheDiff(c, p.payload.comments[i].at)
    <3>1. i \in DOMAIN p.payload.comments
      BY DEF Commented
    <3> QED
      BY <2>4, <2>5, <3>1, CommentsArePlaced
  <2>7. ASSUME NEW f \in ToSet(q.found \o q.carried)
        PROVE  \/ Cardinality(Commented(p, f)) = 1 /\ ~Listed(p, f)
               \/ Commented(p, f) = {} /\ Listed(p, f)
               \/ /\ Commented(p, f) = {} /\ ~Listed(p, f) /\ q.run.mode = "report"
                  /\ \E d \in ToSet(p.drops) :
                       d.fp = f.fp /\ d.reason \in {"budget", "per_file_budget"}
    <3>1. CASE \E j \in 1..n : toPost[j] = f
      <4>1. PICK j \in 1..n : toPost[j].fp = f.fp
        BY <3>1
      <4>2. \/ Cardinality(Commented(p, f)) = 1 /\ ~Listed(p, f)
            \/ Commented(p, f) = {} /\ Listed(p, f)
        BY <2>4, <4>1, OnceOrListed
      <4> QED
        BY <4>2
    <3>2. CASE CutFrom(q, toPost, n, cuts, f)
      <4>1. q.run.mode = "report" /\ \A j \in 1..n : toPost[j].fp # f.fp
        BY <3>2 DEF CutFrom
      <4>2. Commented(p, f) = {} /\ ~Listed(p, f)
        BY <2>4, <4>1, NeitherOf
      <4>3. PICK d \in DOMAIN cuts : cuts[d].fp = f.fp
        BY <3>2 DEF CutFrom
      <4>4. p.drops = q.run.drops \o cuts
        BY <2>4 DEF PaysFor
      <4>5. cuts[d] \in ToSet(p.drops)
        <5>1. ToSet(p.drops) = ToSet(q.run.drops) \cup ToSet(cuts)
          BY <2>4, <2>5, <4>4, Joined
        <5> QED
          BY <5>1 DEF ToSet
      <4>6. cuts[d].reason \in {"budget", "per_file_budget"}
        BY <2>4 DEF IsCut
      <4> QED
        BY <4>1, <4>2, <4>3, <4>5, <4>6
    <3> QED
      BY <2>2, <3>1, <3>2
  <2>8. /\ \A d \in ToSet(q.run.drops) : IsNotable(d) => ~p.payload.body.empty
        /\ Len(p.payload.body.notable) + p.payload.body.more = Len(Notable(q.run.drops))
        /\ ToSet(q.run.drops) \subseteq ToSet(p.payload.body.omitted)
    BY <2>4, <2>5, PublicationAssumption, NotableAreCounted
  <2>9. Accounted(q, p)
    BY <2>6, <2>7, <2>8 DEF Accounted, c
  <2> QED
    BY <2>9 DEF p, q
<1> QED
  BY <1>1, PublicationStays, PTL

\* HeldByWhatIsShown: whatever a run finds and carries, whatever the budget, when
\* findings block the merge one of them is a comment or is listed in the body
\* (rankForBudget, AllocateBudget).
THEOREM BlockingIsShown ==
  ASSUME \A f \in Found \cup Carried : OwnsItsEvidence(f)
  PROVE  Spec => []HeldByWhatIsShown
<1>1. PublicationInv => HeldByWhatIsShown
  <2> DEFINE q == question
             p == PublishedOf(question)
             blocking == {f \in ToSet(q.found \o q.carried) : f.blocks}
  <2> SUFFICES ASSUME PublicationInv, question.about = "publication", blocking # {}
               PROVE  \E f \in blocking : Commented(p, f) # {} \/ Listed(p, f)
    BY DEF HeldByWhatIsShown, BlockShown
  <2>1. IsRun(q)
    BY DEF PublicationInv
  <2>2. PICK g \in ToSet(q.found \o q.carried) : g.blocks
    OBVIOUS
  <2> HIDE DEF q, p
  <2>3. PICK toPost, n, cuts :
          /\ Posts(q, toPost, n, cuts)
          /\ \A f \in ToSet(q.found \o q.carried) : f.blocks =>
               \E j \in 1..n : toPost[j] \in ToSet(q.found \o q.carried) /\ toPost[j].blocks
    BY <2>1, PublicationAssumption, WhatIsPosted
  <2>4. PICK j \in 1..n : toPost[j] \in blocking
    BY <2>2, <2>3
  <2>5. ToBePosted(toPost, n) /\ PaysFor(p, Diffs(q.run.change), toPost, q.run.drops \o cuts)
    BY <2>3 DEF Posts, p, q
  <2> DEFINE f == toPost[j]
  <2>6. toPost[j].fp = f.fp
    OBVIOUS
  <2> HIDE DEF f
  <2>7. \/ Cardinality(Commented(p, f)) = 1 /\ ~Listed(p, f)
        \/ Commented(p, f) = {} /\ Listed(p, f)
    BY <2>5, <2>6, OnceOrListed
  <2>8. Cardinality(Commented(p, f)) = 1 => Commented(p, f) # {}
    BY FS_EmptySet
  <2>9. f \in blocking
    BY <2>4 DEF f
  <2> QED
    BY <2>7, <2>8, <2>9
<1> QED
  BY <1>1, PublicationStays, PTL
=============================================================================
