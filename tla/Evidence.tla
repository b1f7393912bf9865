------------------------------ MODULE Evidence ------------------------------
(***************************************************************************)
(* The evidence cascade of internal/reviewer: a quote is accepted exactly, *)
(* normalised, or in segments around an ellipsis, and is otherwise a drop. *)
(*                                                                         *)
(* A line and a quote are sequences of words.  Words stand for characters: *)
(* lengths, columns and spans are counted in them.  " ", "tab" and "nbsp"  *)
(* are white space, "zw" every invisible character, "..." both ellipses.   *)
(***************************************************************************)
EXTENDS Integers, Sequences, FiniteSets, SequencesExt, FiniteSetsExt, Selection

CONSTANTS
  MinQuote,    \* least length of a quote (minQuoteBytes)
  MaxSpan      \* lines an elided quote may span (maxElidedSpanLines)

White == {" ", "tab", "nbsp"}
Punctuation == {"(", ")", "{", "=", "==", "...", ";"}

Includes(line, quote) ==
  \E i \in 0 .. Len(line) - Len(quote) : SubSeq(line, i + 1, i + Len(quote)) = quote

hasContentToken(quote) == \E i \in DOMAIN quote : quote[i] \notin White \cup Punctuation

\* How many spaces a line starts with.
Indent(line) ==
  LET i == SelectInSeq(line, LAMBDA w : w # " ")
  IN IF i = 0 THEN Len(line) ELSE i - 1

TrimRight(s) == SubSeq(s, 1, SelectLastInSeq(s, LAMBDA w : w # " "))

TrimSpace(s) ==
  LET i == SelectInSeq(s, LAMBDA w : w \notin White)
  IN IF i = 0 THEN <<>> ELSE SubSeq(s, i, SelectLastInSeq(s, LAMBDA w : w \notin White))

expand(n, s) ==
  FoldLeft(LAMBDA acc, w :
             IF w = "tab"
             THEN acc \o [i \in 1 .. n.tabWidth - (Len(acc) % n.tabWidth) |-> " "]
             ELSE Append(acc, w),
           <<>>, s)

Dedented(n, flat) ==
  IF flat # <<>> /\ Indent(flat) >= n.dedent THEN SubSeq(flat, n.dedent + 1, Len(flat)) ELSE flat

norm(n, s) ==
  LET visible == Those(s, {i \in DOMAIN s : s[i] # "zw"})
      spaced  == [i \in DOMAIN visible |-> IF visible[i] = "nbsp" THEN " " ELSE visible[i]]
  IN Dedented(n, TrimRight(expand(n, spaced)))

\* A tab is as wide as the commonest indent (the smallest of them, or 4); the
\* indent all lines have is taken off.
newNormalizer(lines) ==
  LET indents == {Indent(lines[i]) : i \in DOMAIN lines} \ {0}
      Lines(k) == Cardinality({i \in DOMAIN lines : Indent(lines[i]) = k})
      commonest == {k \in indents : \A o \in indents : Lines(o) <= Lines(k)}
      width == IF indents = {} THEN 4 ELSE Min(commonest)
      flat == [i \in DOMAIN lines |-> expand([tabWidth |-> width], lines[i])]
      common == {Indent(flat[i]) : i \in {j \in DOMAIN flat : Indent(flat[j]) < Len(flat[j])}}
  IN [tabWidth |-> width, dedent |-> IF common = {} THEN 0 ELSE Min(common)]

matchSites(lines, quote) == {i \in DOMAIN lines : Includes(lines[i], quote)}

\* Where the ellipses of a quote are, and its two ends.
Cuts(quote) ==
  <<0>> \o Those([i \in DOMAIN quote |-> i], {i \in DOMAIN quote : quote[i] = "..."})
        \o <<Len(quote) + 1>>

splitElision(quote) ==
  LET cuts  == Cuts(quote)
      parts == [k \in 1 .. Len(cuts) - 1 |->
                  TrimSpace(SubSeq(quote, cuts[k] + 1, cuts[k + 1] - 1))]
  IN Those(parts, {k \in DOMAIN parts : parts[k] # <<>>})

\* A mutant of nextSegment: a segment is looked for from the top of the file.
nextSegmentAnywhere(segment, lines, at) == matchSites(lines, segment)

\* Where the next segment of an elided quote may be: on a later line.
nextSegment(segment, lines, at) ==
  {i \in matchSites(lines, segment) : i > at.cursor}

\* The segments are taken greedily.  Line numbers start at 0 here, as the
\* code's indices do: it knows by first = last = 0 that none is found yet.
Advance(at, sites) ==
  IF ~at.ok \/ sites = {} THEN [at EXCEPT !.ok = FALSE]
  ELSE LET found == Min(sites)
       IN [ok |-> TRUE, cursor |-> found, last |-> found - 1,
           first |-> IF at.first = 0 /\ at.last = 0 THEN found - 1 ELSE at.first]

SpanOK(end) == end.ok /\ end.last - end.first <= MaxSpan

matchElided(segs, lines, n) ==
  LET normed == [i \in DOMAIN lines |-> norm(n, lines[i])]
      Sites(at, ns) == IF ns = <<>> THEN {} ELSE nextSegment(ns, normed, at)
      Walk(at, segment) == Advance(at, Sites(at, norm(n, segment)))
  IN SpanOK(FoldLeft(Walk, [ok |-> TRUE, cursor |-> 0, first |-> 0, last |-> 0], segs))

\* One rung of the cascade: a quote with a hint must be on that line, one with
\* none on a single line.
Rung(lines, quote, line) ==
  LET sites == matchSites(lines, quote)
  IN CASE line \in sites                          -> "match"
       [] line <= 0 /\ Cardinality(sites) = 1     -> "match"
       [] line <= 0 /\ Cardinality(sites) > 1     -> "ambiguous"
       [] OTHER                                   -> "none"

normalizedRung(lines, quote, line, n) ==
  IF quote = <<>> THEN "none"
  ELSE Rung([i \in DOMAIN lines |-> norm(n, lines[i])], quote, line)

\* From the top.
Level(exact, normalized, elided) ==
  IF exact = "match" THEN "exact"
  ELSE IF exact = "ambiguous" THEN "ambiguous"
  ELSE IF normalized = "match" THEN "normalized"
  ELSE IF normalized = "ambiguous" THEN "ambiguous"
  ELSE IF elided THEN "elided"
  ELSE "failed"

matchCascade(e, lines, n) ==
  LET segs == splitElision(e.quote)
  IN IF Len(e.quote) < MinQuote \/ ~hasContentToken(e.quote) THEN "failed"
     ELSE Level(Rung(lines, e.quote, e.line),
                normalizedRung(lines, norm(n, e.quote), e.line, n),
                Len(segs) >= 2 /\ matchElided(segs, lines, n))
=============================================================================
