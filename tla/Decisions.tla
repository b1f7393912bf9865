----------------------------- MODULE Decisions -----------------------------
(***************************************************************************)
(* The decisions Cite makes without talking to anyone, put as questions    *)
(* and checked against what the answers mean.                              *)
(***************************************************************************)
EXTENDS Findings, Publication, Functions

CONSTANTS
  Changes,     \* changes whose diff is parsed
  Reviews,     \* [change, finding, answer]: what a review came back with
  Runs,        \* [mode, change, drops, lines, cfgMax]: what there is to publish
  Found, Carried, MaxFound,  \* findings a run may have, and how many of them
  Files, MaxFiles,  \* configuration files, and how many are read
  Commands,    \* [list, flags, env]: how Cite may be called
  FileAt, Categories, MaxCommentsCap, Numbers, ReviewTimeoutBase, AssumedGenerationRate,
  DefaultReviewTimeout, DefaultReviewMaxOutputTokens, DefaultTimeout, DefaultReviewConcurrency

Conf == INSTANCE Configuration

\* What a configuration file is after parsing, and the numbers built in.
IsCount(key) ==
  Len(key) = 3 /\ key[1] = "roles" /\ key[3] \in {"timeout", "max_output_tokens", "concurrency"}

ASSUME ConfigurationAssumption ==
  /\ None \notin BOOLEAN
  /\ \A file \in Files :
       /\ FileAt[file].state \in {"absent", "broken", "blank", "list", "mapping"}
       /\ FileAt[file].state = "mapping" =>
            LET says == FileAt[file].says
            IN /\ says = [key \in DOMAIN says |-> says[key]]
               /\ \A key \in DOMAIN says :
                    /\ IsCount(key) => says[key] \in Int
                    /\ key = <<"verify">> => says[key] \in BOOLEAN
                    /\ Len(key) = 3 /\ key[1] = "providers" /\ key[3] = "models" =>
                         /\ says[key] \in Seq(ToSet(says[key]))
                         /\ \A entry \in ToSet(says[key]) : entry.max_tokens \in Int
  /\ \A c \in Commands : Conf!configList(c.list) \in Seq(Files)
  /\ Conf!builtinDefaults.max_comments \in 0..MaxCommentsCap
  /\ ReviewTimeoutBase \in Nat /\ AssumedGenerationRate \in Nat \ {0}
  /\ DefaultReviewTimeout \in Nat /\ DefaultReviewMaxOutputTokens \in Nat \ {0}
  /\ DefaultReviewConcurrency \in Nat \ {0}

\* What git is asked about.
ASSUME ChangesAssumption ==
  /\ Around \in Nat
  /\ \A c \in Changes \cup {r.change : r \in Reviews} : IsChange(c)

\* What a review is: lists, numbers and one of the verifier's answers.  None is
\* neither a diff nor a place.
ASSUME ReviewsAssumption ==
  /\ MaxFindings \in Nat /\ MaxFileLines \in Nat /\ MinQuote \in Nat
  /\ \A c \in {r.change : r \in Reviews} : None \notin ToSet(FileDiff(c))
  /\ \A r \in Reviews :
       LET f == r.finding
       IN /\ f.anchor[1] \in Int /\ f.anchor[2] \in Int
          /\ f.evidence \in Seq(ToSet(f.evidence)) /\ f.idents \in Seq(ToSet(f.idents))
          /\ \A i \in DOMAIN f.evidence :
               /\ f.evidence[i].line \in Int
               /\ f.evidence[i].quote \in Seq(ToSet(f.evidence[i].quote))
          /\ r.answer.verdict \in {"supported", "unsupported", "needs-context", "error"}
          /\ None # Post(r.change.path, "RIGHT", f.anchor[2])
          /\ \A i \in DOMAIN r.change.edits :
               r.change.edits[i].words \in Seq(ToSet(r.change.edits[i].words))
  /\ \A p \in DOMAIN Others : HunkLines(Others[p]) \in Seq(ToSet(HunkLines(Others[p])))

\* What the phrase tables make of prose.
ASSUME ProseAssumption ==
  \A r \in Reviews : LET prose == r.finding.prose
                     IN prose # None => /\ prose.names \subseteq Names
                                        /\ prose.shape \in {"definition", "call", "occurrence"}

\* What a run is, and limits that leave room for a comment.
ASSUME PublicationAssumption ==
  /\ {MinCommentBudget, MaxCommentBudget, LinesPerComment, MaxConfiguredComments,
      MaxPerFile, NotableInBody} \subseteq Nat \ {0}
  /\ Paths \in Seq(ToSet(Paths))
  /\ \A f \in Found \cup Carried :
       /\ f.confidence \in {"certain", "likely", "question"}
       /\ f.anchor[1] \in Int /\ f.anchor[2] \in Int /\ f.says \in Seq(ToSet(f.says))
  /\ \A r \in Runs : /\ r.mode \in {"github", "report"} /\ IsChange(r.change)
                     /\ r.lines \in Nat /\ r.cfgMax \in Int /\ r.drops \in Seq(ToSet(r.drops))

VARIABLES question

Init ==
  \/ \E c \in Changes : question = [about |-> "change", change |-> c]
  \/ \E r \in Reviews :
       question = [about |-> "review", change |-> r.change,
                   findings |-> <<r.finding>>, answers |-> <<r.answer>>]
  \/ \E r \in Runs : question = [about |-> "publication", run |-> r, found |-> <<>>, carried |-> <<>>]
  \/ question = [about |-> "files", paths |-> <<>>]
  \/ \E c \in Commands : question = [about |-> "call", call |-> c]

\* The model says the same thing again.
Repeat ==
  /\ question.about = "review"
  /\ Len(question.findings) <= MaxFindings
  /\ question.answers[1].verdict = "supported"
  /\ question' = [question EXCEPT !.findings = Append(@, @[1]), !.answers = Append(@, @[1])]

\* One finding more, of this run or of an earlier one.
Find ==
  /\ question.about = "publication" /\ Len(question.found \o question.carried) < MaxFound
  /\ \E f \in Found : /\ \A g \in ToSet(question.found \o question.carried) : g.fp # f.fp
                      /\ question' = [question EXCEPT !.found = Append(@, f)]

Carry ==
  /\ question.about = "publication" /\ Len(question.found \o question.carried) < MaxFound
  /\ question.run.mode = "github"
  /\ \E f \in Carried : /\ \A g \in ToSet(question.found \o question.carried) : g.fp # f.fp
                        /\ question' = [question EXCEPT !.carried = Append(@, f)]

\* One configuration file more.
Layer ==
  /\ question.about = "files" /\ Len(question.paths) < MaxFiles
  /\ \E file \in Files : question' = [question EXCEPT !.paths = Append(@, file)]

Next == Repeat \/ Find \/ Carry \/ Layer

Spec == Init /\ [][Next]_question

\* The line numbers that anchors and comments go by are those of the files: of a
\* diff that git writes, where the manifest is also the one GitHub gives, and of a
\* patch of GitHub's, whether or not a newline ends it, where a comment goes on the
\* lines that are shown (ParseUnifiedDiff, ManifestFromDiff, ParseGitHubFilesAPI;
\* ParseFilePatch, AnchorableLines).
DiffTellsTheChange ==
  question.about = "change" =>
    LET patch == Patch(question.change)
    IN /\ TellsTheChange(question.change)
       /\ PatchTells(question.change, patch) /\ PatchTells(question.change, patch \o <<EndOfText>>)

\* What reaches a person quotes what is there, claims nothing the file or the
\* repository contradicts, and has a place in the diff (validateFindings).
PublishedStands ==
  question.about = "review" => \A v \in ToSet(Verdict(question).out) : Stands(question, v)

\* A merge is blocked by what was shown and nobody refuted (BlockingCandidate).
BlocksOnlyWhenProved ==
  question.about = "review" =>
    \A v \in ToSet(Verdict(question).out) :
      v.blocks => /\ Proved(question.findings[v.of], question.change)
                  /\ question.answers[v.of].verdict = "supported"

\* What was shown, plainly, does block: it is neither dropped nor made a note.
ProvedBlocks ==
  question.about = "review" =>
    \A i \in DOMAIN question.findings :
      /\ i <= MaxFindings /\ question.answers[i].verdict = "supported"
      /\ Proved(question.findings[i], question.change)
      /\ Plain(question.findings[i], question.change)
      => \E v \in ToSet(Verdict(question).out) : v.of = i /\ v.blocks

(***************************************************************************)
(* What is published.                                                      *)
(***************************************************************************)
BudgetOf(q) == CommentBudget(q.run.lines, q.run.cfgMax)

PublishedOf(q) ==
  Published(q.run.mode, Diffs(q.run.change), q.found, q.carried, q.run.drops, BudgetOf(q))

Commented(p, f) ==
  {i \in DOMAIN p.payload.comments :
     parseCiteCommentBody(p.payload.comments[i].text) = [fp |-> f.fp, data |-> f.fp]}

Listed(p, f) == ~p.payload.body.empty /\ f.fp \in ToSet(p.payload.body.unanchored)

\* Of the question q, p was published.
Accounted(q, p) ==
  LET Cut(f) == \E d \in ToSet(p.drops) : d.fp = f.fp /\ d.reason \in {"budget", "per_file_budget"}
  IN /\ \A f \in ToSet(q.found \o q.carried) :
          /\ \A i \in Commented(p, f) : InTheDiff(q.run.change, p.payload.comments[i].at)
          /\ \/ Cardinality(Commented(p, f)) = 1 /\ ~Listed(p, f)
             \/ Commented(p, f) = {} /\ Listed(p, f)
             \/ Commented(p, f) = {} /\ ~Listed(p, f) /\ q.run.mode = "report" /\ Cut(f)
     /\ \A d \in ToSet(q.run.drops) : IsNotable(d) => ~p.payload.body.empty
     /\ ~p.payload.body.empty =>
          /\ Len(p.payload.body.notable) + p.payload.body.more
               = Len(Notable(q.run.drops))
          /\ ToSet(q.run.drops) \subseteq ToSet(p.payload.body.omitted)

\* A finding's place is in the diff of the change, and so are its lines, or none
\* of them.
WellPlaced(f, change) ==
  IF f.reanchor # None THEN InTheDiff(change, f.reanchor)
  ELSE f.path \in DOMAIN Diffs(change) =>
         LET lines == AnchorableLines(Diffs(change)[f.path])
         IN Anchor(f) \subseteq lines \/ Anchor(f) \cap lines = {}

\* Its text has no marker of the kind that holds the evidence.
OwnsItsEvidence(f) == \A i \in DOMAIN f.says : f.says[i].kind # "evidence"

\* One of those that block is a comment of p, or in its body.
BlockShown(blocking, p) ==
  blocking # {} => \E f \in blocking : Commented(p, f) # {} \/ Listed(p, f)

\* Each finding of a run is one comment at a place in the diff, or is listed in
\* the body, or, in a report, is among the drops; the drops that could not be
\* placed are named or counted (buildReviewPayload, BuildReviewBody).
NothingIsLost == question.about = "publication" => Accounted(question, PublishedOf(question))

\* When findings block the merge, a person is shown one of them: the cut never
\* takes the last of them in favour of a note (rankForBudget, AllocateBudget).
HeldByWhatIsShown ==
  question.about = "publication" =>
    BlockShown({f \in ToSet(question.found \o question.carried) : f.blocks}, PublishedOf(question))

(***************************************************************************)
(* What is configured.                                                     *)
(***************************************************************************)
\* The files that say something, and the places in a list of those that say a key.
Mappings == {p \in Files : FileAt[p].state = "mapping"}

Saying(paths, key) ==
  {i \in DOMAIN paths : paths[i] \in Mappings /\ key \in DOMAIN FileAt[paths[i]].says}

\* The first of the rungs, from the strongest, that says something.
Strongest(rungs) == rungs[SelectInSeq(rungs, LAMBDA r : r.says)]

\* Of the files paths, loaded was made.
LastFileWins(paths, loaded) ==
  loaded.ok =>
    \A key \in UNION {DOMAIN FileAt[p].says : p \in Mappings} :
      LET saying == Saying(paths, key)
          last == paths[Max(saying)]
      IN IF saying = {}
         THEN key \notin DOMAIN loaded.tree /\ Conf!sourceOf(loaded, key) = "built-in default"
         ELSE /\ key \in DOMAIN loaded.tree /\ loaded.tree[key] = FileAt[last].says[key]
              /\ Conf!sourceOf(loaded, key) = last

\* The call c came to the settings s.
StrongestRungWins(c, s) ==
  LET Said(x, nothing, from) == [says |-> x \notin nothing, value |-> x, from |-> from]
      model == Strongest(<< Said(c.flags.model_id, {None}, "flag"),
                            Said(c.env.model_id, {"", " "}, "env"),
                            Said(s.cfg.ModelID, {""}, "config"), Said("", {}, "default") >>)
  IN s.loaded.ok =>
       /\ s.ModelID = [value |-> model.value, from |-> model.from]
       /\ c.flags.verify # None => s.Verify.value = c.flags.verify
       /\ c.flags.verify = None /\ c.flags.no_verify = None /\ c.env.verify \in {"", " "}
            => s.Verify.value = (s.cfg.Verify \in {None, TRUE})
       /\ s.cfg.RequireParameters => s.RequireParams

\* A value is the one of the nearest layer that gives one, and so is the layer
\* that --effective names (LoadFiles, resolve).
NearestWins ==
  /\ question.about = "files" => LastFileWins(question.paths, Conf!LoadFiles(question.paths))
  /\ question.about = "call" => StrongestRungWins(question.call, Conf!resolveSettings(question.call))

\* Whatever the files after the first one make of a key that decides the
\* verdict, a line of the log names that key, provided it reads otherwise than
\* with the first file alone (verdictOverrides; ChangesAreSaid is without the
\* proviso).
OverridesAreSaid ==
  question.about = "files" =>
    LET loaded == Conf!LoadFiles(question.paths)
        alone == Conf!LoadFiles(<<Head(loaded.read)>>)
    IN loaded.ok /\ loaded.read # <<>> =>
         \A key \in DOMAIN loaded.tree :
           /\ key[1] \in Conf!verdictRoots
           /\ Conf!Rendered(loaded.tree, key) # Conf!Rendered(alone.tree, key)
           => \E o \in loaded.overrides : o.key = key

\* An accepted configuration can be run: what it refers to is declared in it,
\* however many files it took; what blocks is what may; and a review that no
\* one pinned has the time to write all it may (validate, resolveRole).
AcceptedIsSound ==
  question.about = "files" =>
    LET loaded == Conf!LoadFiles(question.paths)
        c == Conf!buildConfig(loaded.tree)
        review == Conf!resolveRole(c, "review")
        refs == ToSet(c.Fallback) \cup ({c.Roles[r].model : r \in Conf!Roles} \ {None})
        Declared(ref) == LET key == <<"providers", ref[1], "models">>
                         IN key \in DOMAIN loaded.tree
                            /\ \E m \in ToSet(loaded.tree[key]) : m.id = ref[2]
    IN loaded.ok =>
         /\ \A ref \in refs : IF Len(ref) = 1 THEN DOMAIN c.Providers = {} ELSE Declared(ref)
         /\ ToSet(c.BlockingCategories) \subseteq MayBlock /\ c.MaxComments \in 0 .. MaxCommentsCap
         /\ review.MaxOutputTokens > 0 /\ review.Concurrency > 0
         /\ c.Roles["review"].timeout = None =>
              review.Timeout >= ReviewTimeoutBase + review.MaxOutputTokens \div AssumedGenerationRate

(***************************************************************************)
(* What the comments say and the code does not do.                         *)
(***************************************************************************)
\* "AnchorableLines is the set of post-change line numbers present in the hunks
\* ... a line outside the hunks was neither seen nor touched by this change"
\* (internal/scope/diff.go).
AnchorableIsShown ==
  question.about = "change" =>
    AnchorableLines(ParseUnifiedDiff(DiffText(question.change))[1]) \subseteq OnShow(question.change)

\* "every segment matches at `normalized`, in order, spanning <= 40 lines"
\* (internal/reviewer/evidence.go).
ElidedSpanIsBounded ==
  question.about = "review" =>
    \A v \in ToSet(Verdict(question).out) :
      LET f == question.findings[v.of]
      IN \A i \in DOMAIN f.evidence :
           WithinSpan(Context(question.change).lines, f.evidence[i].quote)

\* Of a claim that nothing calls a name: "A definition does not falsify, or every
\* true 'defined but never called' finding would falsify itself"
\* (internal/reviewer/negative.go).
DefinitionIsNoCall ==
  question.about = "review" =>
    \A d \in ToSet(Verdict(question).drops) :
      d.reason = "negative_claim_falsified" =>
        IsContradicted(question.findings[d.of], Context(question.change).lines)

\* "An absence that was never declared cannot block, however it is phrased"
\* (internal/reviewer/negative.go).
UndeclaredBlocksNothing ==
  question.about = "review" =>
    \A v \in ToSet(Verdict(question).out) :
      LET f == question.findings[v.of]
          declared == {c \in ToSet(f.claims) : Pertinent(c, question.change.path)}
      IN v.blocks /\ f.prose # None =>
           \A name \in f.prose.names : \E c \in declared : absenceClaimSymbol(c) = name

\* "At most 10 comments per review, at most 2 per file" (README.md); "never more
\* than 10 under any configuration" (internal/publisher/budget.go).
BudgetIsKept ==
  question.about = "publication" =>
    LET at == [i \in DOMAIN PublishedOf(question).payload.comments |->
                 PublishedOf(question).payload.comments[i].at.path]
    IN /\ Len(at) <= BudgetOf(question)
       /\ \A p \in ToSet(at) : Len(SelectSeq(at, LAMBDA x : x = p)) <= MaxPerFile

\* "Reports every verdict key in next that differs from what the files merged so
\* far say" (internal/config/layers.go).
ChangesAreSaid ==
  question.about = "files" =>
    LET loaded == Conf!LoadFiles(question.paths)
        alone == Conf!LoadFiles(<<Head(loaded.read)>>)
        Value(tree, key) == Conf!Get(tree, key, Conf!DefaultOf(key))
    IN loaded.ok /\ loaded.read # <<>> =>
         \A key \in DOMAIN loaded.tree :
           key[1] \in Conf!verdictRoots /\ Value(loaded.tree, key) # Value(alone.tree, key)
             => \E o \in loaded.overrides : o.key = key

\* "Completeness belongs to the merged result, which schemaCheck checks"
\* (internal/config/schema.go).
AcceptedIsComplete ==
  question.about = "files" =>
    LET loaded == Conf!LoadFiles(question.paths)
    IN loaded.ok => Conf!Missing(loaded.tree) = {}
=============================================================================
