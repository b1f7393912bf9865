---------------------------- MODULE MCDecisions ----------------------------
(***************************************************************************)
(* Decisions with a file of seven lines, two names, and diffs of up to     *)
(* three lines.                                                            *)
(***************************************************************************)
EXTENDS Decisions, TLC

CONSTANTS
  Comments,    \* files have comments of the form "-- x"
  Shell        \* functions are those of a shell

DefF == <<"func", "f", "(">>
CallF == <<"tab", "x", "=", "f", "(">>
ShellF == <<"f", "(", ")", "{">>
SetG == <<"g", "=", "x">>
CallG == <<"g", "(", "x">>
UseG == <<" ", " ", "y", "g">>
Plain3 == <<"x", "y", "z">>

MCPaths == <<"o", "p">>

Means(d, c, m) == [defines |-> d, calls |-> c, mentions |-> m]
MCMeansOf ==
  DefF :> Means({"f"}, {}, {"f"}) @@ CallF :> Means({}, {"f"}, {"f"})
  @@ ShellF :> Means({"f"}, {}, {"f"}) @@ SetG :> Means({"g"}, {}, {"g"})
  @@ CallG :> Means({}, {"g"}, {"g"}) @@ UseG :> Means({}, {}, {"g"})

Edit(op, words) == [op |-> op, words |-> words]
Change(path, old, status, edits, bare) ==
  [path |-> path, oldPath |-> old, status |-> status, edits |-> edits, bare |-> bare]

\* Small changes of every kind.
Contents == {Plain3, SetG} \cup (IF Comments THEN {<<"-- ", "x">>} ELSE {})
EditLists(ops) == UNION {[1 .. n -> {Edit(op, w) : op \in ops, w \in Contents}] : n \in 1 .. 4}
MCChanges ==
  {Change("p", "p", "M", e, b) : e \in EditLists({" ", "+", "-"}), b \in {{}, {2}}}
  \cup {Change("p", "q", "R", e, {}) : e \in EditLists({" ", "+"})}
  \cup {Change("p", "p", "A", e, {}) : e \in EditLists({"+"})}
  \cup {Change("p", "p", "D", e, {}) : e \in EditLists({"-"})}

\* The file of the reviews: modified, with more lines than are shown, renamed as
\* it is, and with lines removed only.
Body7(def) ==
  << Edit(" ", def), Edit("+", CallF), Edit("-", SetG), Edit(" ", Plain3),
     Edit(" ", UseG), Edit(" ", Plain3) >>
Modified == Change("p", "p", "M", Body7(IF Shell THEN ShellF ELSE DefF), {})
TooLong == Change("p", "p", "M", Body7(DefF) \o << Edit(" ", CallG), Edit(" ", Plain3) >>, {})
Moved == Change("p", "q", "R", << Edit(" ", DefF), Edit(" ", UseG), Edit(" ", Plain3) >>, {})
Cut == Change("p", "p", "M", << Edit("-", SetG), Edit(" ", UseG), Edit(" ", Plain3),
                               Edit(" ", UseG), Edit("-", CallG) >>, {})
Uncalled == Change("p", "p", "M", << Edit("+", IF Shell THEN ShellF ELSE DefF), Edit("+", Plain3) >>, {})

MCOthers ==
  "o" :> [path |-> "o", oldPath |-> "o", status |-> "M", similarity |-> 0,
          hunks |-> << [newStart |-> 3, lines |->
            << [kind |-> "-", oldNo |-> 4, newNo |-> 0, words |-> DefF],
               [kind |-> "+", oldNo |-> 0, newNo |-> 3, words |-> UseG] >>] >>]
MCRelated == {[path |-> "o", start |-> 3, lines |-> <<UseG>>]}

(***************************************************************************)
(* Findings.                                                               *)
(***************************************************************************)
Claim(type, subject, symbol, path, count) ==
  [type |-> type, subject |-> subject, symbol |-> symbol, path |-> path, count |-> count]
Claims ==
  {Claim("path_exists", "p", "", "", None), Claim("path_exists", "gone", "", "", None),
   Claim("symbol_exists", "f", "", "", None), Claim("symbol_exists", "g", "", "", None),
   Claim("symbol_exists", "it holds", "", "", None), Claim("ci_behavior", "p", "", "", None)}
  \cup {Claim(t, "", s, p, None) : t \in DOMAIN AbsenceShape, s \in Names, p \in {"", "o"}}
  \cup {Claim("occurrence_count_zero", "f", "", "", n) : n \in {0, 1}}
  \cup {Claim("symbol_not_called", "it holds", "", "", None)}
ClaimLists ==
  {<<>>} \cup {<<c>> : c \in Claims}
  \cup {<<Claim("symbol_not_called", "g", "", "", None), c>> : c \in Claims}

Quote(line, words) == [line |-> line, quote |-> words]
Quotes ==
  {Quote(n, <<"x", "=", "f">>) : n \in {0, 2, 3, 9}}
  \cup {Quote(n, <<"x", "y", "z">>) : n \in {0, 3}}
  \cup {Quote(n, <<" ", " ", "x", "zw", "=", "f">>) : n \in {0, 2}}
  \cup {Quote(0, <<"x", "...", "y", "g">>), Quote(0, <<"y", "g", "...", "x", "=">>),
        Quote(0, <<"f", "(", "...", "x", "y">>), Quote(0, <<"x", "=", "...", "x", "y", "z">>),
        Quote(1, <<"f", "...", "y", "z">>), Quote(1, <<"func", "f", "...", "y", "g">>),
        Quote(1, <<"(">>), Quote(1, <<"(", ")", "{">>), Quote(1, <<"f", "(">>)}

Base == [category |-> "crash", title |-> "breaks", evidence |-> <<Quote(1, <<"f", "(">>)>>,
         absent |-> FALSE, missing |-> FALSE, anchor |-> <<2, 2>>, claims |-> <<>>, prose |-> None,
         idents |-> <<>>, impact |-> "harm", confidence |-> "certain"]
Proses == {None} \cup {[shape |-> s, names |-> n] : s \in {"definition", "call", "occurrence"},
                                                     n \in {{}, {"f"}, {"g"}}}
Answer(verdict, path, line, words) ==
  [verdict |-> verdict, path |-> path, line |-> line, quote |-> words]
Supported == Answer("supported", "", 0, <<>>)
Answers ==
  {Supported, Answer("needs-context", "", 0, <<>>), Answer("error", "", 0, <<>>),
   Answer("unsupported", "", 2, <<"x", "=", "f", "(">>), Answer("unsupported", "p", 2, <<"f">>),
   Answer("unsupported", "o", 3, <<"y", "g">>), Answer("unsupported", "o", 9, <<"y", "g">>)}

\* About what a finding claims.
Claiming ==
  {[Base EXCEPT !.claims = c, !.absent = a[1], !.missing = a[2], !.prose = p, !.anchor = at] :
     c \in ClaimLists, a \in BOOLEAN \X BOOLEAN, p \in Proses, at \in {<<1, 2>>, <<2, 2>>}}
\* About where it is and what it quotes.
Placed ==
  {[Base EXCEPT !.evidence = e, !.anchor = at, !.idents = i] :
     e \in {<<q>> : q \in Quotes}
          \cup {<<Quote(1, <<"f", "(">>), q>> : q \in Quotes},
     at \in {<<0, 1>>, <<1, 1>>, <<2, 1>>, <<2, 2>>, <<2, 3>>, <<3, 4>>, <<4, 5>>, <<5, 6>>},
     i \in {<<>>, <<"f">>, <<"g", "f">>}}
\* About what it is and what the verifier said.
Judged ==
  {[Base EXCEPT !.category = c, !.confidence = k, !.impact = m, !.title = t, !.claims = x] :
     c \in {"crash", "injection", "concurrency", "convention", "error-swallow"},
     k \in {"certain", "likely"}, m \in {"harm", "none", "none, but"}, t \in {"breaks", "is fine"},
     x \in {<<>>, <<Claim("symbol_not_called", "", "g", "", None)>>}}

(***************************************************************************)
(* Publication: findings in the hunks, elsewhere, blocking or not.         *)
(***************************************************************************)
Note(fp, path, category, confidence, blocks, anchor, at) ==
  [fp |-> fp, path |-> path, category |-> category, confidence |-> confidence, blocks |-> blocks,
   anchor |-> anchor, reanchor |-> at, says |-> <<[kind |-> "fingerprint", of |-> "other"]>>]
MCFound ==
  {Note("1", "p", "crash", "certain", TRUE, <<2, 2>>, None),
   Note("2", "p", "crash", "likely", TRUE, <<2, 3>>, None),
   Note("3", "p", "convention", "certain", FALSE, <<1, 2>>, None),
   Note("4", "p", "crash", "certain", FALSE, <<5, 6>>, Post("o", "LEFT", 4)),
   Note("5", "o", "concurrency", "question", FALSE, <<3, 3>>, None),
   Note("6", "o", "crash", "certain", FALSE, <<3, 3>>, None)}
MCCarried == {Note("7", "p", "crash", "likely", TRUE, <<0, 0>>, None),
              Note("8", "o", "convention", "likely", FALSE, <<0, 0>>, None)}
Dropped(fp, reason) == [fp |-> fp, path |-> "p", reason |-> reason]
MCRuns ==
  [mode : {"github", "report"}, change : {Modified}, lines : {0, 1, 9}, cfgMax : {0, 1, 3},
   drops : {<<>>, <<Dropped("x", "anchor_invalid"), Dropped("y", "evidence_mismatch"),
                    Dropped("z", "anchor_out_of_range")>>}]

(***************************************************************************)
(* Configuration files and calls.                                          *)
(***************************************************************************)
Mapping(says) == [state |-> "mapping", says |-> says]
Entry(id, max) == [id |-> id, max_tokens |-> max]
In(p, f) == <<"providers", p, f>>
Of(r, f) == <<"roles", r, f>>
MCFileAt ==
  "base" :> Mapping(In("g", "base_url") :> "u" @@ In("g", "api") :> "a"
      @@ In("g", "models") :> <<Entry("m", 4), Entry("n", 40)>>
      @@ Of("review", "model") :> <<"g", "m">> @@ <<"fallback">> :> << <<"g", "n">> >>)
  @@ "models" :> Mapping(In("g", "models") :> <<Entry("n", 0)>>)
  @@ "other" :> Mapping(In("h", "models") :> <<Entry("m", 9)>> @@ <<"fallback">> :> << <<"h", "m">> >>)
  @@ "complete" :> Mapping(In("h", "base_url") :> "u" @@ In("h", "api") :> "a")
  @@ "noise" :> Mapping(<<"nits">> :> TRUE @@ <<"max_comments">> :> 5 @@ <<"verify">> :> FALSE
      @@ <<"capture_max_bytes">> :> 3 @@ <<"model_id">> :> "c")
  @@ "quiet" :> Mapping(<<"nits">> :> FALSE @@ <<"max_comments">> :> 10
      @@ <<"blocking_categories">> :> <<"crash">> @@ <<"require_parameters">> :> TRUE)
  @@ "grow" :> Mapping(<<"blocking_categories">> :> <<"crash", "convention">>)
  @@ "typo" :> Mapping(<<"max_coments">> :> 3)
  @@ "many" :> Mapping(<<"max_comments">> :> 30)
  @@ "pin" :> Mapping(Of("review", "timeout") :> 5 @@ Of("review", "max_output_tokens") :> 99
      @@ Of("triage", "model") :> <<"bare">>)
  @@ "zero" :> Mapping(Of("triage", "timeout") :> 0)
  @@ "joined" :> Mapping(<<"paths_ignore">> :> << <<"*.a", "*.b">> >> @@ <<"gate">> :> "block"
      @@ <<"compat_profile">> :> "2026-08")
  @@ "apart" :> Mapping(<<"paths_ignore">> :> << <<"*.a">>, <<"*.b">> >> @@ <<"gate">> :> "comment"
      @@ <<"compat_profile">> :> "2027-01")
  @@ "absent" :> [state |-> "absent"] @@ "broken" :> [state |-> "broken"]
  @@ "blank" :> [state |-> "blank"] @@ "list" :> [state |-> "list"]
MCFiles == {"base", "models", "other", "noise", "quiet", "grow", "typo", "many", "pin", "zero",
            "absent", "broken", "blank", "list", "complete", "joined", "apart"}
MCNumbers == "7" :> 7 @@ "9" :> 9
MCCategories == {"crash", "injection", "convention", "concurrency"}

Lists == {[flag |-> f, arguments |-> a, env |-> e, default |-> <<"absent", "noise">>] :
            f \in {<<>>, <<"base">>}, a \in {<<>>, <<"quiet">>}, e \in {<<>>, <<"pin">>}}
NoFlags == [model_id |-> None, verify |-> None, no_verify |-> None, require_parameters |-> None,
            capture |-> None]
NoEnv == [model_id |-> "", verify |-> "", require_parameters |-> "", capture |-> ""]
Given(flags, env) == [list : Lists, flags : flags, env : env]
MCCommands ==
  Given({[NoFlags EXCEPT !.model_id = v] : v \in {None, "a", ""}},
        {[NoEnv EXCEPT !.model_id = v] : v \in {"", " ", "b"}})
  \cup Given({[NoFlags EXCEPT !.verify = v, !.no_verify = n] : v, n \in {None, TRUE, FALSE}},
             {[NoEnv EXCEPT !.verify = v] : v \in {"", " ", "off", "0", "yes"}})
  \cup Given({[NoFlags EXCEPT !.require_parameters = v] : v \in {None, TRUE, FALSE}},
             {[NoEnv EXCEPT !.require_parameters = v] : v \in {"", "1", "yes"}})
  \cup Given({[NoFlags EXCEPT !.capture = v] : v \in {None, "7", "x"}},
             {[NoEnv EXCEPT !.capture = v] : v \in {"", "9", "x"}})

MCReviews ==
  [change : IF Shell THEN {Uncalled} ELSE {Modified, TooLong, Moved, Cut, Uncalled},
   finding : Claiming \cup Placed, answer : {Supported}]
  \cup [change : {Modified, TooLong, Uncalled}, finding : Judged, answer : Answers]

\* What the theorems about changes, reviews and runs ask for is so here.
ASSUME Recognisable ==
  /\ ~Comments => \A c \in Changes : NoHeaderLike(c)
  /\ \A c \in {r.change : r \in Reviews} :
       /\ NoHeaderLike(c)
       /\ \A i \in DOMAIN c.edits : /\ Shows(c.edits[i].words)
                                    /\ Shell \/ Does(c.edits[i].words)
  /\ \A f \in Found \cup Carried : OwnsItsEvidence(f)
  /\ \A r \in Runs : /\ NoHeaderLike(r.change)
                     /\ \A f \in Found \cup Carried : WellPlaced(f, r.change)
=============================================================================
