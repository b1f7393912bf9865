-------------------------------- MODULE Diff --------------------------------
(***************************************************************************)
(* Unified diffs: what git writes for a change, the parser of              *)
(* internal/scope, the lines a comment may be put on, and the manifest.    *)
(*                                                                         *)
(* A change is [path, oldPath, status, edits, bare]: the edits are the     *)
(* lines of both files in order, each [op, words] with op " ", "+" or "-"; *)
(* bare are those that end a file without a newline.  A line of diff text  *)
(* is [mark, words]: inside a hunk the mark is the op, or "\\" for a note  *)
(* that there is no newline, or "" for the empty text that is left after   *)
(* the newline that ends the last line.  File content may begin with the   *)
(* words "-- " and "++ ": the text of a removed line that does is that of  *)
(* a header.                                                               *)
(*                                                                         *)
(* A parsed file is [path, oldPath, status, similarity, hunks], a hunk     *)
(* [newStart, lines], a line of it [kind, oldNo, newNo, words].  The code  *)
(* writes the status of a moved file with the similarity behind it (R050)  *)
(* and reads its letter; here they are two fields.                         *)
(***************************************************************************)
EXTENDS Integers, Sequences, FiniteSets, SequencesExt, FiniteSetsExt, Selection

CONSTANTS Around    \* context lines around a change in git's output

DevNull == "/dev/null"

(***************************************************************************)
(* What git writes.                                                        *)
(***************************************************************************)
\* An edit is a line of the old file (op "-"), or of the new file ("+").
IsLineOf(edit, op) == edit.op = " " \/ edit.op = op

File(change, op) ==
  LET kept == Those(change.edits, {i \in DOMAIN change.edits : IsLineOf(change.edits[i], op)})
  IN [i \in DOMAIN kept |-> kept[i].words]
OldFile(change) == File(change, "-")
NewFile(change) == File(change, "+")

\* A change that git writes: lines of three kinds, files that have names.
IsChange(change) ==
  /\ change.edits \in Seq(ToSet(change.edits))
  /\ \A i \in DOMAIN change.edits :
       LET op == change.edits[i].op IN op = " " \/ op = "+" \/ op = "-"
  /\ change.status = "A" \/ change.status = "D" \/ change.status = "M" \/ change.status = "R"
  /\ change.path \notin {"", DevNull} /\ change.oldPath \notin {"", DevNull}

\* The lines of the old, or the new, file up to edit i.
LinesUpTo(change, i, op) == Cardinality({j \in 1 .. i : IsLineOf(change.edits[j], op)})

Changed(change) == {i \in DOMAIN change.edits : change.edits[i].op # " "}

Shown(change) ==
  {i \in DOMAIN change.edits : \E j \in Changed(change) : j - i \in -Around .. Around}

\* The number a hunk starts with: one more than that of the line before it, when
\* the hunk that begins with edit i has a line of that file.
Start(change, i, op) ==
  LET has == \E j \in i .. Len(change.edits) :
               i .. j \subseteq Shown(change) /\ IsLineOf(change.edits[j], op)
  IN LinesUpTo(change, i - 1, op) + (IF has THEN 1 ELSE 0)

HunkHeader(change, i) ==
  [mark |-> "@@", old |-> Start(change, i, "-"), new |-> Start(change, i, "+")]
EditLine(change, i) == [mark |-> change.edits[i].op, words |-> change.edits[i].words]
NoNewline == [mark |-> "\\", words |-> <<>>]

\* What is written of edit i: the first of a hunk comes after a hunk header.
EditText(change, i) ==
  IF i \notin Shown(change) THEN <<>>
  ELSE (IF i - 1 \in Shown(change) THEN <<>> ELSE <<HunkHeader(change, i)>>)
       \o <<EditLine(change, i)>> \o (IF i \in change.bare THEN <<NoNewline>> ELSE <<>>)

Patch(change) == FlattenSeq([i \in DOMAIN change.edits |-> EditText(change, i)])

PathHeader(mark, dashes, prefix, path) ==
  [mark |-> mark, words |-> IF path = DevNull THEN <<dashes, path>> ELSE <<dashes, prefix, path>>]

\* What is left after the newline of the last line, when the text is split at them.
EndOfText == [mark |-> "", words |-> <<>>]

\* What git diff prints.
DiffText(change) ==
  << [mark |-> "diff", old |-> change.oldPath, new |-> change.path] >>
  \o (CASE change.status = "A" -> << [mark |-> "new file"] >>
        [] change.status = "D" -> << [mark |-> "deleted file"] >>
        [] change.status = "R" -> << [mark |-> "similarity", value |-> 50],
                                     [mark |-> "move from", kind |-> "R", path |-> change.oldPath],
                                     [mark |-> "move to", kind |-> "R", path |-> change.path] >>
        [] OTHER -> <<>>)
  \o (IF Changed(change) = {} THEN <<>>
      ELSE << PathHeader("-", "-- ", "a/", IF change.status = "A" THEN DevNull ELSE change.oldPath),
              PathHeader("+", "++ ", "b/", IF change.status = "D" THEN DevNull ELSE change.path) >>
           \o Patch(change))
  \o <<EndOfText>>

(***************************************************************************)
(* The parser.                                                             *)
(***************************************************************************)
NoDiff == [ok |-> TRUE, files |-> <<>>, open |-> FALSE, oldNo |-> 0, newNo |-> 0,
           move |-> "", similarity |-> 0]

SetFile(s, file) == [s EXCEPT !.files[Len(s.files)] = file]

setMoveStatus(s, file) ==
  SetFile(s, IF s.move = "" THEN file
             ELSE [file EXCEPT !.status = s.move, !.similarity = s.similarity])

parseDiffPath(words, prefix) ==
  CASE words = <<>> \/ words = <<DevNull>> -> ""
    [] words # <<>> /\ words[1] = prefix   -> words[2]
    [] OTHER                               -> words[1]

IsOldHeader(l) == l.mark = "-" /\ l.words # <<>> /\ l.words[1] = "-- "
IsNewHeader(l) == l.mark = "+" /\ l.words # <<>> /\ l.words[1] = "++ "

\* Content that begins as a header does is not in the change: the parser takes
\* a removed line of "-- " for one.
NoHeaderLike(change) ==
  \A i \in DOMAIN change.edits :
    ~IsOldHeader(EditLine(change, i)) /\ ~IsNewHeader(EditLine(change, i))

ParseHeader(s, file, l) ==
  CASE l.mark = "new file"     -> SetFile(s, [file EXCEPT !.status = "A"])
    [] l.mark = "deleted file" -> SetFile(s, [file EXCEPT !.status = "D"])
    [] l.mark = "similarity"   -> setMoveStatus([s EXCEPT !.similarity = l.value,
                                                          !.ok = @ /\ l.value \in 0 .. 100], file)
    [] l.mark = "move from"    -> setMoveStatus([s EXCEPT !.move = l.kind],
                                                [file EXCEPT !.oldPath = l.path])
    [] l.mark = "move to"      -> setMoveStatus([s EXCEPT !.move = l.kind],
                                                [file EXCEPT !.path = l.path])
    [] OTHER                   -> s

ParseOldPath(s, file, l) ==
  LET p == parseDiffPath(Tail(l.words), "a/")
  IN IF p # "" THEN SetFile(s, [file EXCEPT !.oldPath = p])
     ELSE IF file.path # "" /\ file.oldPath = file.path
          THEN SetFile(s, [file EXCEPT !.oldPath = ""])
     ELSE s

ParseNewPath(s, file, l) ==
  LET p == parseDiffPath(Tail(l.words), "b/")
  IN IF p = "" THEN s ELSE SetFile(s, [file EXCEPT !.path = p])

\* A line that begins with neither sign is context, whatever it begins with.
KindOf(l) == IF l.mark \in {"+", "-"} THEN l.mark ELSE " "

\* A mutant of AddLine: an added line is counted in the old file.
AddOnBothSides(s, file, l) ==
  LET h == Len(file.hunks)
      line == [kind |-> KindOf(l), oldNo |-> IF l.mark = "+" THEN 0 ELSE s.oldNo,
               newNo |-> IF l.mark = "-" THEN 0 ELSE s.newNo, words |-> l.words]
  IN [SetFile(s, [file EXCEPT !.hunks[h].lines = Append(@, line)]) EXCEPT
        !.oldNo = @ + 1,
        !.newNo = IF l.mark = "-" THEN @ ELSE @ + 1]

AddLine(s, file, l) ==
  LET h == Len(file.hunks)
      line == [kind |-> KindOf(l), oldNo |-> IF l.mark = "+" THEN 0 ELSE s.oldNo,
               newNo |-> IF l.mark = "-" THEN 0 ELSE s.newNo, words |-> l.words]
  IN [SetFile(s, [file EXCEPT !.hunks[h].lines = Append(@, line)]) EXCEPT
        !.oldNo = IF l.mark = "+" THEN @ ELSE @ + 1,
        !.newNo = IF l.mark = "-" THEN @ ELSE @ + 1]

ParseLine(s, l) ==
  LET file == Last(s.files)
      inFile == s.files # <<>>
  IN CASE ~s.ok -> s
       [] s.ok /\ l.mark = "diff" ->
            [s EXCEPT !.files = Append(@, [path |-> l.new, oldPath |-> l.old, status |-> "M",
                                           similarity |-> 0, hunks |-> <<>>]),
                      !.open = FALSE, !.move = "", !.similarity = 0]
       [] s.ok /\ l.mark = "@@" ->
            IF ~inFile THEN [s EXCEPT !.ok = FALSE]
            ELSE [SetFile(s, [file EXCEPT !.hunks = Append(@, [newStart |-> l.new, lines |-> <<>>])])
                    EXCEPT !.open = TRUE, !.oldNo = l.old, !.newNo = l.new]
       [] s.ok /\ IsOldHeader(l) -> IF inFile THEN ParseOldPath(s, file, l) ELSE s
       [] s.ok /\ IsNewHeader(l) -> IF inFile THEN ParseNewPath(s, file, l) ELSE s
       [] s.ok /\ ~s.open /\ ~IsOldHeader(l) /\ ~IsNewHeader(l) /\ l.mark \notin {"diff", "@@"} ->
            IF inFile THEN ParseHeader(s, file, l) ELSE s
       [] s.ok /\ s.open /\ l.mark = "\\" -> s
       [] OTHER -> AddLine(s, file, l)

\* None of the files when a header does not parse.
ParseUnifiedDiff(text) ==
  LET end == FoldLeft(ParseLine, NoDiff, text) IN IF end.ok THEN end.files ELSE <<>>

\* One file of GitHub's list comes as hunks only; the headers are made up.
MadeUp(path, status) ==
  << [mark |-> "diff", old |-> path, new |-> path],
     [mark |-> "-", words |-> <<"-- ", "a/", IF status = "A" THEN DevNull ELSE path>>],
     PathHeader("+", "++ ", "b/", path) >>

\* The patch without the newline that may end it.
Trimmed(patch) == IF patch # <<>> /\ Last(patch) = EndOfText THEN Front(patch) ELSE patch

ParseFilePatch(path, status, patch) ==
  LET hunks == Trimmed(patch)
      files == ParseUnifiedDiff(MadeUp(path, status) \o hunks)
  IN IF hunks = <<>> \/ files = <<>> THEN <<>> ELSE <<[files[1] EXCEPT !.status = status]>>

(***************************************************************************)
(* What the rest of the code asks of a parsed file.                        *)
(***************************************************************************)
HunkLines(file) == FlattenSeq([h \in DOMAIN file.hunks |-> file.hunks[h].lines])

AddedLines(file) ==
  {l.newNo : l \in {k \in ToSet(HunkLines(file)) : k.kind = "+"}}
AnchorableLines(file) ==
  {l.newNo : l \in {k \in ToSet(HunkLines(file)) : k.kind # "-"}}

\* Those of some lines that are of a kind.
OfKind(lines, kind) == Those(lines, {i \in DOMAIN lines : lines[i].kind = kind})
RemovedLines(file) == OfKind(HunkLines(file), "-")

ManifestFromDiff(files) ==
  [i \in DOMAIN files |->
     [status |-> files[i].status, path |-> files[i].path,
      oldPath |-> IF files[i].status \in {"R", "C"} THEN files[i].oldPath ELSE "",
      adds |-> Len(OfKind(HunkLines(files[i]), "+")),
      dels |-> Len(RemovedLines(files[i]))]]

GitHubStatus == [added |-> "A", removed |-> "D", modified |-> "M", changed |-> "M",
                 renamed |-> "R", copied |-> "C"]

\* The API's list is taken whole or refused.
ParseGitHubFilesAPI(raw) ==
  IF \E i \in DOMAIN raw : raw[i].filename = "" \/ raw[i].status \notin DOMAIN GitHubStatus
  THEN <<>>
  ELSE [i \in DOMAIN raw |->
          LET status == GitHubStatus[raw[i].status]
          IN [status |-> status, path |-> raw[i].filename,
              oldPath |-> IF status \in {"R", "C"} /\ raw[i].previous = ""
                          THEN raw[i].filename ELSE raw[i].previous,
              adds |-> raw[i].additions, dels |-> raw[i].deletions]]

ExistsAtHead(entry) == entry.status # "D"
=============================================================================
