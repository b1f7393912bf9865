------------------------------ MODULE Findings ------------------------------
(***************************************************************************)
(* What a diff, a quote and a claim mean, apart from how the code goes     *)
(* about them, and what validation promises in these terms.  A review q is *)
(* [change, findings, answers]: a change, the findings the model came back *)
(* with, and the verifier's answer to each.                                *)
(***************************************************************************)
EXTENDS Validation

CONSTANTS
  MeansOf,     \* what a line of content defines, calls and mentions
  Others,      \* diffs of the other files of the pull request
  Related      \* excerpts of other files a verifier was shown

Meaning(words) == IF words \in DOMAIN MeansOf THEN MeansOf[words]
                  ELSE [defines |-> {}, calls |-> {}, mentions |-> {}]

\* What a line does with a name shows in its form, and what shows, it does.
Shows(words) ==
  \A name \in Names : /\ name \in Meaning(words).defines => Defines(words, name)
                      /\ name \in Meaning(words).calls => Calls(words, name)
                      /\ name \in Meaning(words).mentions => Mentions(words, name)
Does(words) ==
  \A name \in Names : /\ Defines(words, name) => name \in Meaning(words).defines
                      /\ Calls(words, name) => name \in Meaning(words).calls
                      /\ Mentions(words, name) => name \in Meaning(words).mentions

(***************************************************************************)
(* The diff.                                                               *)
(***************************************************************************)
Numbered(change, op, words, no) ==
  \E i \in DOMAIN change.edits : change.edits[i].words = words /\ IsLineOf(change.edits[i], op)
                                 /\ LinesUpTo(change, i, op) = no

\* A parsed line has the words and the numbers of a line of the files.
AsInTheFiles(change, l) ==
  /\ l.kind # "+" => Numbered(change, "-", l.words, l.oldNo)
  /\ l.kind # "-" => Numbered(change, "+", l.words, l.newNo)

HowMany(change, op) == Cardinality({i \in DOMAIN change.edits : change.edits[i].op = op})

\* The diff that git prints is parsed to the change: one file, with the name and
\* the status of the change, and each line but the last, which is the end of the
\* text, as in the files; a manifest made of it has the row GitHub's list has.
TellsTheChange(change) ==
  LET files == ParseUnifiedDiff(DiffText(change))
      lines == HunkLines(files[1])
      status == [A |-> "added", D |-> "removed", M |-> "modified", R |-> "renamed"]
  IN /\ Len(files) = 1
     /\ \A i \in 1 .. Len(lines) - 1 : AsInTheFiles(change, lines[i])
     /\ ManifestFromDiff(files) =
          ParseGitHubFilesAPI(<< [filename |-> change.path,
            previous |-> IF change.status = "R" THEN change.oldPath ELSE "",
            status |-> status[change.status],
            additions |-> HowMany(change, "+"), deletions |-> HowMany(change, "-")] >>)

\* The lines of the new file that a diff of the change shows.
OnShow(change) ==
  {LinesUpTo(change, i, "+") : i \in {j \in Shown(change) : change.edits[j].op # "-"}}

\* A patch of GitHub's is parsed to the change: its name and status, each line as
\* in the files, as many lines added and removed, and comments on what it shows.
PatchTells(change, patch) ==
  LET files == ParseFilePatch(change.path, change.status, patch)
      lines == HunkLines(files[1])
  IN IF Changed(change) = {} THEN files = <<>>
     ELSE /\ Len(files) = 1
          /\ files[1].path = change.path /\ files[1].status = change.status
          /\ \A l \in ToSet(lines) : AsInTheFiles(change, l)
          /\ Len(OfKind(lines, "+")) = HowMany(change, "+")
          /\ Len(OfKind(lines, "-")) = HowMany(change, "-")
          /\ AnchorableLines(files[1]) = OnShow(change)

(***************************************************************************)
(* The findings.                                                           *)
(***************************************************************************)
\* GitHub's list gives the file's patch, or none; the diffs are by their paths.
FileDiff(change) == ParseFilePatch(change.path, change.status, Patch(change))

Diffs(change) ==
  LET parsed == IF FileDiff(change) = <<>> THEN {} ELSE {change.path}
  IN [p \in (DOMAIN Others \ {change.path}) \cup parsed |->
        IF p = change.path THEN FileDiff(change)[1] ELSE Others[p]]

Context(change) == FileContext(change.path, NewFile(change), Diffs(change))
Verdict(q) == validateFindings(Context(q.change), q.findings, Related, q.answers)

Visible(words) == Those(words, {i \in DOMAIN words : words[i] \notin White \cup {"zw"}})

\* The words of a quote are on a line that is shown, an ellipsis of the line's own
\* included, or its segments are on lines in order.
Quoted(lines, quote) ==
  LET segs == splitElision(quote)
  IN \/ \E i \in DOMAIN lines : Includes(Visible(lines[i]), Visible(quote))
     \/ \E at \in [DOMAIN segs -> DOMAIN lines] :
          \A i \in DOMAIN segs : /\ Includes(Visible(lines[at[i]]), Visible(segs[i]))
                                 /\ i > 1 => at[i - 1] < at[i]

\* A claim that a name is absent is about this file, and about a name.
Pertinent(c, path) == /\ IsAbsenceClaim(c) /\ absenceClaimSymbol(c) \in Names
                      /\ c.path \in {"", path}
                      /\ c.type = "occurrence_count_zero" => c.count \in {None, 0}

Contradicts(words, shape, name) ==
  name \in CASE shape = "definition" -> Meaning(words).defines
             [] shape = "call"       -> Meaning(words).calls
             [] OTHER                -> Meaning(words).mentions

Contradicted(lines, c) ==
  \E i \in DOMAIN lines : Contradicts(lines[i], AbsenceShape[c.type], absenceClaimSymbol(c))

TrueAtHead(c) ==
  /\ c.type = "path_exists" => c.subject \in HeadPaths
  /\ c.type = "symbol_exists" => c.subject \in HeadSymbols \/ c.subject \notin Names

AssertsAbsence(f) == f.absent \/ f.missing \/ f.prose # None

\* The place is a line of a diff that GitHub takes comments on.
InTheDiff(change, at) ==
  IF at.path = change.path
  THEN \E i \in Shown(change) :
         IF at.side = "RIGHT" THEN change.edits[i].op # "-" /\ LinesUpTo(change, i, "+") = at.line
         ELSE change.edits[i].op = "-" /\ LinesUpTo(change, i, "-") = at.line
  ELSE \E l \in ToSet(HunkLines(Others[at.path])) :
         at.line = IF at.side = "RIGHT" THEN l.newNo ELSE l.oldNo

\* A finding that reaches a person quotes what is there, claims nothing the file
\* or the repository contradicts, and has a place in the diff.
Stands(q, v) ==
  LET f == q.findings[v.of]
      shown == Context(q.change).lines
  IN /\ \A i \in DOMAIN f.evidence : Quoted(shown, f.evidence[i].quote)
     /\ \A c \in ToSet(f.claims) :
          /\ TrueAtHead(c)
          /\ Pertinent(c, q.change.path) => ~Contradicted(shown, c)
     /\ InTheDiff(q.change, v.posted)

\* A finding that is shown to be true: on a line the change added, its quotes
\* there, with every claim true of the whole file, which does not contradict its
\* prose, and some claim declared of an asserted absence: not one of each, see
\* UndeclaredBlocksNothing.
Sayable(c, path) ==
  \/ c.type = "path_exists"
  \/ c.type = "symbol_exists" /\ c.subject \in Names
  \/ Pertinent(c, path)

\* A line that contradicts the prose, of those it does not quote when it is about
\* other occurrences.
ProseIsContradicted(f, lines) ==
  \E name \in f.prose.names, i \in DOMAIN lines :
    /\ f.prose.shape = "occurrence" => i \notin Cited(f)
    /\ Contradicts(lines[i], f.prose.shape, name)

Proved(f, change) ==
  /\ f.category \in MayBlock \cap BlockingSet /\ f.confidence = "certain"
  /\ \E i \in Changed(change) :
       change.edits[i].op = "+" /\ LinesUpTo(change, i, "+") \in Anchor(f)
  /\ \A i \in DOMAIN f.evidence : Quoted(NewFile(change), f.evidence[i].quote)
  /\ \A c \in ToSet(f.claims) :
       /\ Sayable(c, change.path) /\ TrueAtHead(c)
       /\ Pertinent(c, change.path) => ~Contradicted(NewFile(change), c)
  /\ f.prose # None => ~ProseIsContradicted(f, NewFile(change))
  /\ AssertsAbsence(f) => \E c \in ToSet(f.claims) : Pertinent(c, change.path)

\* And presented in a way that leaves no doubt.
Plain(f, change) ==
  LET lines == Context(change).lines
  IN /\ f.impact = "harm" /\ f.title = "breaks" /\ f.prose = None
     /\ f.absent => f.missing
     /\ Anchor(f) # {} /\ Anchor(f) \subseteq DOMAIN lines
     /\ \A n \in Anchor(f) : InTheDiff(change, Post(change.path, "RIGHT", n))
     /\ \A i \in DOMAIN f.evidence :
          LET e == f.evidence[i]
          IN /\ Len(e.quote) >= MinQuote /\ hasContentToken(e.quote)
             /\ e.line \in DOMAIN lines /\ Includes(lines[e.line], e.quote)
     /\ Len(NewFile(change)) = Len(lines)

\* The segments of an elided quote are found in so many lines at most.
WithinSpan(lines, quote) ==
  LET segs == splitElision(quote)
  IN \E at \in [DOMAIN segs -> DOMAIN lines] :
       /\ \A k \in DOMAIN segs : /\ Includes(Visible(lines[at[k]]), Visible(segs[k]))
                                 /\ k > 1 => at[k - 1] < at[k]
       /\ at[Len(segs)] - at[1] <= MaxSpan

\* Something in the file contradicts an absence the finding asserts.
IsContradicted(f, lines) ==
  \/ \E c \in ToSet(f.claims) : IsAbsenceClaim(c) /\ Contradicted(lines, c)
  \/ f.prose # None /\ \E i \in DOMAIN lines, name \in f.prose.names :
       Contradicts(lines[i], f.prose.shape, name)
=============================================================================
