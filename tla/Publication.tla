---------------------------- MODULE Publication ----------------------------
(***************************************************************************)
(* From the findings of a run to the review a person reads: the comment    *)
(* budget of internal/publisher, the payload cmd/cite builds, and the      *)
(* labelled sections of the review body.                                   *)
(*                                                                         *)
(* A finding is [fp, path, category, confidence, blocks, anchor, reanchor, *)
(* says]; says has the markers its text happens to carry.  A drop is       *)
(* [fp, path, reason], a comment [path, start, line, side, text].          *)
(***************************************************************************)
EXTENDS Validation

CONSTANTS
  MinCommentBudget, MaxCommentBudget, LinesPerComment, MaxConfiguredComments,
  MaxPerFile,
  NotableInBody    \* maxUnanchoredDropsInBody

Least2(a, b) == IF a < b THEN a ELSE b

CommentBudget(changedLines, cfgMax) ==
  LET formula == Least2(MinCommentBudget + changedLines \div LinesPerComment, MaxCommentBudget)
      limit == IF cfgMax > 0 THEN Least2(cfgMax, MaxConfiguredComments) ELSE MaxConfiguredComments
  IN Least2(formula, limit)

\* A mutant of RanksBefore: certainty comes first.
RanksByConfidence(a, b) ==
  LET rank == [certain |-> 0, likely |-> 1, question |-> 2]
  IN rank[a.confidence] < rank[b.confidence]

\* What blocks comes first, then what is surer, then what could block.
BudgetKey(f) ==
  LET rank == [certain |-> 0, likely |-> 1, question |-> 2]
  IN << IF f.blocks THEN 0 ELSE 1, rank[f.confidence], IF f.category \in MayBlock THEN 0 ELSE 1,
        SelectInSeq(Paths, LAMBDA p : p = f.path) >>
RanksBefore(a, b) ==
  \E k \in 1 .. 4 : /\ BudgetKey(a)[k] < BudgetKey(b)[k]
                    /\ \A m \in 1 .. k - 1 : BudgetKey(a)[m] = BudgetKey(b)[m]

\* A stable sort: the place of each goes by how many come before it.
ComesBefore(fs, i, j) ==
  RanksBefore(fs[i], fs[j]) \/ (i < j /\ ~RanksBefore(fs[j], fs[i]))
PlaceOf(fs, i) == Cardinality({j \in DOMAIN fs : ComesBefore(fs, j, i)}) + 1
rankForBudget(fs) ==
  [k \in DOMAIN fs |-> fs[CHOOSE i \in DOMAIN fs : PlaceOf(fs, i) = k]]

AllocateBudget(ranked, total, perFile) ==
  LET Walk(acc, f) ==
        LET here == {i \in DOMAIN acc.chosen : acc.chosen[i].path = f.path}
            Cut(reason) == [acc EXCEPT !.drops =
                              Append(@, [fp |-> f.fp, path |-> f.path, reason |-> reason])]
        IN IF Len(acc.chosen) >= total THEN Cut("budget")
           ELSE IF perFile > 0 /\ Cardinality(here) >= perFile THEN Cut("per_file_budget")
           ELSE [acc EXCEPT !.chosen = Append(@, f)]
  IN FoldLeft(Walk, [chosen |-> <<>>, drops |-> <<>>], ranked)

\* A report is made of what the budget chose; on GitHub the reconciler is given
\* every finding of the run, and where there is no thread it posts them all.
CommentsToPost(mode, findings, chosen) == IF mode = "report" THEN chosen ELSE findings

Postable(diffs, f) ==
  \/ f.reanchor # None
  \/ f.path \in DOMAIN diffs /\ f.anchor[1] .. f.anchor[2] \cap AnchorableLines(diffs[f.path]) # {}

\* The markers of a comment, in their order: identity, what the text carries,
\* and the evidence data.
renderComment(f) ==
  << [kind |-> "fingerprint", of |-> f.fp] >> \o f.says \o << [kind |-> "evidence", of |-> f.fp] >>

\* The first marker of each kind is the one read.
parseCiteCommentBody(text) ==
  LET First(kind) == SelectInSeq(text, LAMBDA mark : mark.kind = kind)
  IN IF First("fingerprint") = 0 THEN None
     ELSE [fp |-> text[First("fingerprint")].of,
           data |-> IF First("evidence") = 0 THEN None ELSE text[First("evidence")].of]

Comment(f) ==
  LET start == IF f.anchor[1] < 0 THEN 0 ELSE f.anchor[1]
      at == IF f.reanchor = None
            THEN [path |-> f.path, start |-> start, line |-> f.anchor[2], side |-> "RIGHT"]
            ELSE [path |-> f.reanchor.path, start |-> 0, line |-> f.reanchor.line,
                  side |-> f.reanchor.side]
  IN [at |-> at, text |-> renderComment(f)]

IsNotable(d) == d.reason \in {"anchor_invalid", "anchor_out_of_range"}
FirstOf(s, n) == SubSeq(s, 1, Least2(Len(s), n))

Notable(drops) == Those(drops, {i \in DOMAIN drops : IsNotable(drops[i])})

\* The summary on the page of the workflow run.
writeDropSummary(drops, cap) ==
  LET notable == Notable(drops)
  IN [shown |-> FirstOf(notable, cap), more |-> Len(notable) - Len(FirstOf(notable, cap))]

\* It is empty when there is nothing to say.
BuildReviewBody(posted, unanchorable, drops) ==
  LET notable == writeDropSummary(drops, NotableInBody)
  IN [empty |-> posted = <<>> /\ unanchorable = <<>> /\ notable.shown = <<>>,
      findings |-> Len(posted),
      blocking |-> Len(SelectSeq(posted, LAMBDA f : f.blocks)),
      unanchored |-> [i \in DOMAIN unanchorable |-> unanchorable[i].fp],
      notable |-> notable.shown, more |-> notable.more,
      dropped |-> Len(drops), omitted |-> drops]

CanPost(diffs, toPost) == {i \in DOMAIN toPost : Postable(diffs, toPost[i])}

\* A mutant of buildReviewPayload: what will not anchor is left out.
payloadAnchoredOnly(diffs, toPost, drops) ==
  LET can == Those(toPost, CanPost(diffs, toPost))
  IN [comments |-> [i \in DOMAIN can |-> Comment(can[i])],
      body |-> BuildReviewBody(can, <<>>, drops)]

buildReviewPayload(diffs, toPost, drops) ==
  LET can == Those(toPost, CanPost(diffs, toPost))
      cannot == Those(toPost, DOMAIN toPost \ CanPost(diffs, toPost))
  IN [comments |-> [i \in DOMAIN can |-> Comment(can[i])],
      body |-> BuildReviewBody(can, cannot, drops)]

\* The end of a review: what is said, and what the record says was dropped.  The
\* findings carried from an earlier run come after the budget.
Published(mode, diffs, found, carried, drops, total) ==
  LET allocated == AllocateBudget(rankForBudget(found), total, MaxPerFile)
      all == drops \o allocated.drops
      toPost == CommentsToPost(mode, found \o carried, allocated.chosen)
  IN [payload |-> buildReviewPayload(diffs, toPost, all), drops |-> all]
=============================================================================
