------------------------------ MODULE Absence ------------------------------
(***************************************************************************)
(* The check of the absences a finding asserts against the file: claims it *)
(* declares, and phrases of its prose.                                     *)
(*                                                                         *)
(* A claim is [type, subject, symbol, path, count], "" for a field left    *)
(* out.  The prose of a finding is abstracted to what the phrase tables    *)
(* make of it: None, or the shape denied and the names it is about.        *)
(***************************************************************************)
EXTENDS Evidence

CONSTANTS None, Names    \* what a definition search can look for

DefinitionHeads == {"func", "class"}
Binders == {"var"}
AbsenceShape == [symbol_not_defined |-> "definition", symbol_not_called |-> "call",
                 occurrence_count_zero |-> "occurrence"]

IsAbsenceClaim(c) == c.type \in DOMAIN AbsenceShape

\* Decoration is stripped before; what is left of a name is a name.
symbolSubject(s) == s \in Names

absenceClaimSymbol(c) == IF c.symbol # "" THEN c.symbol ELSE c.subject

\* The words of a line but for white space.
Code(line) == SelectSeq(line, LAMBDA w : w \notin White)

At(line, i) == IF i \in DOMAIN line THEN line[i] ELSE ""

Defines(line, name) ==
  LET c == Code(line)
  IN \E i \in DOMAIN c :
       /\ c[i] = name
       /\ \/ At(c, i - 1) \in DefinitionHeads \cup Binders
          \/ At(c, i + 1) = "(" /\ At(c, i + 2) = ")" /\ At(c, i + 3) = "{"
          \/ At(c, i + 1) = "="

Calls(line, name) ==
  LET c == Code(line)
  IN \E i \in DOMAIN c : /\ c[i] = name /\ At(c, i + 1) = "("
                         /\ At(c, i - 1) \notin DefinitionHeads

Mentions(line, name) == \E i \in DOMAIN line : line[i] = name

falsifyingOccurrence(lines, excluded, name, shape) ==
  CASE shape = "definition" -> \E i \in DOMAIN lines : Defines(lines[i], name)
    [] shape = "occurrence" -> \E i \in DOMAIN lines \ excluded : Mentions(lines[i], name)
    [] shape = "call"       -> \E i \in DOMAIN lines \ excluded : Calls(lines[i], name)

declaredAbsenceClaims(f) == {c \in ToSet(f.claims) : IsAbsenceClaim(c)}

declaresAbsence(f) == f.absent \/ f.missing

Checkable(c, path) ==
  /\ symbolSubject(absenceClaimSymbol(c))
  /\ ~(c.type = "occurrence_count_zero" /\ c.count \notin {None, 0})
  /\ c.path \in {"", path}

\* No line is excluded: a count of zero has no occurrence to quote, and the
\* other shapes exclude none.
checkDeclaredAbsenceClaim(c, path, lines, partial) ==
  IF ~Checkable(c, path) THEN "note"
  ELSE IF falsifyingOccurrence(lines, {}, absenceClaimSymbol(c), AbsenceShape[c.type])
       THEN "falsified"
  ELSE IF partial THEN "note" ELSE "verified"

\* The lines a prose claim about other occurrences may quote.
Cited(f) == (f.anchor[1] .. f.anchor[2]) \cup {f.evidence[i].line : i \in DOMAIN f.evidence}

checkProseAbsenceClaim(f, lines) ==
  IF f.prose = None THEN "verified"
  ELSE IF \E name \in f.prose.names :
            falsifyingOccurrence(lines, IF f.prose.shape = "occurrence" THEN Cited(f) ELSE {},
                                 name, f.prose.shape)
       THEN "falsified"
  ELSE "note"

\* A declared claim is what can verify; prose only ever drops or demotes, and a
\* finding that asserts an absence in a field and declares none is a note.
checkAbsenceClaims(f, path, lines, partial) ==
  LET declared == {checkDeclaredAbsenceClaim(c, path, lines, partial) : c \in declaredAbsenceClaims(f)}
      prose == checkProseAbsenceClaim(f, lines)
  IN IF "falsified" \in declared \cup {prose} THEN "falsified"
     ELSE IF declared # {} THEN IF "note" \in declared THEN "note" ELSE "verified"
     ELSE IF declaresAbsence(f) THEN "note" ELSE prose
=============================================================================
