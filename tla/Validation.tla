----------------------------- MODULE Validation -----------------------------
(***************************************************************************)
(* What internal/reviewer makes of one finding of a file's review: a drop  *)
(* with its reason, or a finding that is published, where it is posted and *)
(* whether it blocks.                                                      *)
(*                                                                         *)
(* A file's context is [path, lines, partial, diff, others]: the lines the *)
(* model was shown, the parsed diff (None: it has none) and those of other *)
(* files.  A finding is [category, title, evidence, absent, missing,       *)
(* anchor, claims, prose, idents, impact, confidence]: the anchor is the   *)
(* first and the last line, idents the names its text mentions.            *)
(***************************************************************************)
EXTENDS Absence, Diff

CONSTANTS
  Paths,           \* the paths there are, sorted
  MaxFindings,     \* findings of one file (maxFindingsPerFile)
  MaxFileLines,    \* lines of a file that are shown
  Nits,            \* the configuration has nits on
  BlockingSet,     \* the categories that block here
  HeadPaths, HeadSymbols,  \* what there is at the head
  Verifies         \* the discriminative verifier is on

MayBlock == {"secret-exposure", "injection", "auth-bypass", "destructive-operation",
             "crash", "logic-inversion"}
NitCategories == {"convention", "error-swallow"}

FileContext(path, post, diffs) ==
  [path |-> path,
   lines |-> SubSeq(post, 1, Min({Len(post), MaxFileLines})),
   partial |-> Len(post) > MaxFileLines,
   diff |-> IF path \in DOMAIN diffs THEN diffs[path] ELSE None,
   others |-> [p \in DOMAIN diffs \ {path} |-> diffs[p]]]

(***************************************************************************)
(* Where a finding is posted.                                              *)
(***************************************************************************)
Anchor(f) == f.anchor[1] .. f.anchor[2]

AnchorInFile(fc, f) == 1 <= f.anchor[1] /\ f.anchor[1] <= f.anchor[2]
                       /\ f.anchor[2] <= Len(fc.lines)

added(fc) == IF fc.diff = None THEN {} ELSE AddedLines(fc.diff)
anchorable(fc) == IF fc.diff = None THEN {} ELSE AnchorableLines(fc.diff)

anchorsInHunks(fc, f) == Anchor(f) \subseteq anchorable(fc)

\* A mutant of anchorHasAddedLine: only the first line counts.
anchorStartsAdded(fc, f) == f.anchor[1] \in added(fc)

anchorHasAddedLine(fc, f) == Anchor(f) \cap added(fc) # {}

StatementWords == {"return"}

\* A line that declares a name: words before it, something it opens after.
Declares(line, name) ==
  LET c == Code(line)
  IN /\ c # <<>> /\ c[1] \notin StatementWords
     /\ \E i \in DOMAIN c :
          /\ c[i] = name
          /\ \A k \in 1 .. i - 1 : c[k] \notin Punctuation
          /\ i < Len(c)
          /\ c[i + 1] \in {"(", "=", "{"} \/ c[i + 1] \notin Punctuation

\* The first removed line that declares a name; the first name that has one.
definingRemovedLine(diff, idents) ==
  LET removed == RemovedLines(diff)
      lineOf == [i \in DOMAIN idents |->
                   SelectInSeq(removed, LAMBDA l : Declares(l.words, idents[i]))]
      i == SelectInSeq(lineOf, LAMBDA n : n # 0)
  IN IF i = 0 THEN 0 ELSE removed[lineOf[i]].oldNo

Abs(n) == IF n < 0 THEN -n ELSE n

\* The first of a sequence of [no, far] that is nearest.
Nearest(s) ==
  IF s = <<>> THEN 0
  ELSE s[SelectInSeq(s, LAMBDA l : \A i \in DOMAIN s : l.far <= s[i].far)].no

Post(path, side, line) == [path |-> path, side |-> side, line |-> line]

\* An added line on the right; in a file that has none, a removed one on the left,
\* as far away as its hunk.
nearestChange(fc, line) ==
  LET new == OfKind(HunkLines(fc.diff), "+")
      old == FlattenSeq([h \in DOMAIN fc.diff.hunks |->
               LET gone == OfKind(fc.diff.hunks[h].lines, "-")
               IN [i \in DOMAIN gone |-> [no |-> gone[i].oldNo,
                                          far |-> Abs(fc.diff.hunks[h].newStart - line)]]])
  IN IF new # <<>>
     THEN Post(fc.path, "RIGHT",
               Nearest([i \in DOMAIN new |-> [no |-> new[i].newNo,
                                              far |-> Abs(new[i].newNo - line)]]))
     ELSE Post(fc.path, "LEFT", Nearest(old))

\* Names in the lines of the anchor come before those of the finding's text.
identifiers(fc, f) ==
  LET words == FlattenSeq(SubSeq(fc.lines, f.anchor[1], f.anchor[2]))
  IN Those(words, {k \in DOMAIN words : words[k] \in Names}) \o f.idents

\* The added lines of a diff that mention one of some names.
AddedNaming(diff, idents) ==
  LET new == OfKind(HunkLines(diff), "+")
  IN Those(new, {k \in DOMAIN new : \E i \in DOMAIN idents : Mentions(new[k].words, idents[i])})

\* The first file, in the order of paths, that something is found in.
OtherFile(fc, f, paths) ==
  LET gone == Those(paths, {k \in DOMAIN paths :
                              definingRemovedLine(fc.others[paths[k]], f.idents) # 0})
      Named(p) == AddedNaming(fc.others[p], f.idents)
      named == Those(paths, {k \in DOMAIN paths : Named(paths[k]) # <<>>})
  IN IF gone # <<>> THEN Post(gone[1], "LEFT", definingRemovedLine(fc.others[gone[1]], f.idents))
     ELSE IF named # <<>> THEN Post(named[1], "RIGHT", Named(named[1])[1].newNo)
     ELSE None

reanchor(fc, f) ==
  IF fc.diff # None /\ fc.diff.hunks # <<>>
  THEN LET gone == definingRemovedLine(fc.diff, identifiers(fc, f))
           near == nearestChange(fc, f.anchor[1])
       IN IF gone # 0 THEN Post(fc.path, "LEFT", gone)
          ELSE IF near.line # 0 THEN near ELSE None
  ELSE OtherFile(fc, f, Those(Paths, {k \in DOMAIN Paths : Paths[k] \in DOMAIN fc.others}))

PostedAt(fc, f) ==
  IF anchorsInHunks(fc, f) THEN Post(fc.path, "RIGHT", f.anchor[2]) ELSE reanchor(fc, f)

(***************************************************************************)
(* Whether it says what can be shown.                                      *)
(***************************************************************************)
EvidenceLevels(fc, f) ==
  LET n == newNormalizer(fc.lines)
  IN [i \in DOMAIN f.evidence |-> matchCascade(f.evidence[i], fc.lines, n)]

\* What becomes of a claim about the repository ("declared": see Absence).
Disposition(c) ==
  CASE c.type = "path_exists"   -> IF c.subject \in HeadPaths THEN "verified" ELSE "false"
    [] c.type = "symbol_exists" -> IF ~symbolSubject(c.subject) THEN "note"
                                   ELSE IF c.subject \in HeadSymbols THEN "verified" ELSE "false"
    [] IsAbsenceClaim(c)        -> IF symbolSubject(absenceClaimSymbol(c)) THEN "declared" ELSE "note"
    [] OTHER                    -> "note"

\* The impact opens with a disclaimer that it does not go on to contradict, or
\* the title disclaims.
selfNegation(f) == f.impact = "none" \/ f.title = "is fine"

\* The first reason there is to drop the i-th finding; "" when there is none.
\* Levels are those of its quotes; refuted says that the verifier's answer is to
\* count as a refutation.
DropReason(fc, f, i, levels, refuted) ==
  LET bad == SelectInSeq(levels, LAMBDA v : v \in {"failed", "ambiguous"})
  IN IF i > MaxFindings THEN "parse_failure"
     ELSE IF ~Nits /\ f.category \in NitCategories THEN "suppressed"
     ELSE IF f.absent /\ fc.partial THEN "absence_on_partial"
     ELSE IF f.absent /\ ~f.missing THEN "parse_failure"
     ELSE IF ~AnchorInFile(fc, f) THEN "anchor_out_of_range"
     ELSE IF PostedAt(fc, f) = None THEN "anchor_invalid"
     ELSE IF bad # 0 THEN IF levels[bad] = "ambiguous" THEN "ambiguous_quote" ELSE "evidence_mismatch"
     ELSE IF \E c \in ToSet(f.claims) : Disposition(c) = "false" THEN "claim_unverified"
     ELSE IF checkAbsenceClaims(f, fc.path, fc.lines, fc.partial) = "falsified"
          THEN "negative_claim_falsified"
     ELSE IF selfNegation(f) THEN "self_negating"
     ELSE IF refuted THEN "verifier_unsupported"
     ELSE ""

(***************************************************************************)
(* The verifier.  Its answer is [verdict, path, line, quote]; a verdict of *)
(* "error" stands for a call that failed and for an answer that does not   *)
(* parse.  Excerpts of other files are [path, start, lines].               *)
(***************************************************************************)
quotes(line, quote) ==
  LET code == TrimSpace(line)
  IN Includes(code, TrimSpace(quote)) /\ 2 * Len(TrimSpace(quote)) >= Len(code)

refutationQuoted(fc, related, a) ==
  /\ TrimSpace(a.quote) # <<>> /\ a.line > 0
  /\ IF a.path \in {"", fc.path}
     THEN a.line <= Len(fc.lines) /\ quotes(fc.lines[a.line], a.quote)
     ELSE \E s \in related :
            /\ s.path = a.path
            /\ a.line - s.start + 1 \in DOMAIN s.lines
            /\ quotes(s.lines[a.line - s.start + 1], a.quote)

Verify(fc, related, a) ==
  IF a.verdict = "unsupported" /\ ~refutationQuoted(fc, related, a)
  THEN "needs-context" ELSE a.verdict

VerifierResult(fc, f, related, a) ==
  IF Verifies /\ f.category # "convention" THEN Verify(fc, related, a) ELSE ""

(***************************************************************************)
(* Whether it blocks.                                                      *)
(***************************************************************************)
ClaimsVerified(fc, f) ==
  \A c \in ToSet(f.claims) :
    \/ Disposition(c) = "verified"
    \/ /\ Disposition(c) = "declared"
       /\ checkDeclaredAbsenceClaim(c, fc.path, fc.lines, fc.partial) = "verified"

BlocksOnEvidence(fc, f) ==
  /\ f.category \in MayBlock \cap BlockingSet
  /\ anchorHasAddedLine(fc, f)
  /\ f.confidence = "certain"

\* A mutant of BlockingCandidate: an absence nobody could check does not matter.
BlockingUnchecked(fc, f) == BlocksOnEvidence(fc, f) /\ ClaimsVerified(fc, f)

BlockingCandidate(fc, f) ==
  /\ BlocksOnEvidence(fc, f)
  /\ ClaimsVerified(fc, f)
  /\ checkAbsenceClaims(f, fc.path, fc.lines, fc.partial) = "verified"

FingerprintOf(f) == <<f.category, [i \in DOMAIN f.evidence |-> f.evidence[i].quote], f.title>>

\* A finding has an entry in the drop log for each of its claims that is false.
DropsOf(f, reason) ==
  IF reason = "claim_unverified"
  THEN Len(SelectSeq(f.claims, LAMBDA c : Disposition(c) = "false")) ELSE 1

\* It is dropped for the reason there is, or it is one of those that go out.
Place(acc, fc, f, i, result, reason) ==
  LET same == SelectSeq(acc.out, LAMBDA v : v.fp = FingerprintOf(f))
  IN IF reason # ""
     THEN [acc EXCEPT !.drops = @ \o [k \in 1 .. DropsOf(f, reason) |->
                                         [of |-> i, reason |-> reason]]]
     ELSE [acc EXCEPT !.out = Append(@,
            [of |-> i, fp |-> FingerprintOf(f), occurrence |-> Len(same) + 1,
             posted |-> PostedAt(fc, f), verifier |-> result,
             blocks |-> BlockingCandidate(fc, f) /\ result \in {"", "supported"}])]

\* The findings of one review of a file, each with the verifier's answer to it.
validateFindings(fc, findings, related, answers) ==
  LET Step(acc, i) ==
        LET f == findings[i]
            result == VerifierResult(fc, f, related, answers[i])
        IN Place(acc, fc, f, i, result,
                 DropReason(fc, f, i, EvidenceLevels(fc, f), result = "unsupported"))
  IN FoldLeftDomain(Step, [out |-> <<>>, drops |-> <<>>], findings)
=============================================================================
