------------------------------- MODULE Delta -------------------------------
(***************************************************************************)
(* Delta review: the state a run leaves in the sticky comment and what the *)
(* next run makes of it.                                                   *)
(*                                                                         *)
(* The blob SHA of a file is its content.  A state is                      *)
(*   safe, head, base   it may stand in for a review; the head and the     *)
(*                      merge base it was written for (None: not recorded) *)
(*   shas               path -> blob, for the files whose review completed *)
(*   findings           the findings that stand                            *)
(*   ledger             the dismissal ledger                               *)
(*   replies            fingerprint -> what a reply to it was taken for    *)
(***************************************************************************)
EXTENDS Ledger, Sequences, SequencesExt

EmptyState == [safe |-> FALSE, head |-> None, base |-> None, shas |-> <<>>,
               findings |-> <<>>, ledger |-> {}, replies |-> <<>>]

(***************************************************************************)
(* The comment's body, as the tokens its reader looks for: the marker is   *)
(* an HTML comment of its own, the state the next one.                     *)
(***************************************************************************)
Terminator == [token |-> "-->"]
Opening(state) == [token |-> "<!-- cite-state=", state |-> state]

StickyBody(state) ==
  <<[token |-> "<!-- cite-sticky"], Terminator, Opening(state), Terminator>>

\* readSticky: the state lies between the first opening and the first
\* terminator of the body; anything else reads as an empty state.
ReadSticky(body) ==
  LET i == SelectInSeq(body, LAMBDA t : t.token = "<!-- cite-state=")
      j == SelectInSeq(body, LAMBDA t : t = Terminator)
  IN IF i = 0 \/ j = 0 \/ j <= i THEN EmptyState ELSE body[i].state

Statuses == {"ahead", "identical", "behind", "diverged", "error"}

DeltaBasisHolds(prev, head, base, status) ==
  /\ prev.safe
  /\ prev.head # None
  /\ prev.base # None
  /\ prev.base = base
  /\ status \in {"ahead", "identical"}

UnchangedFiles(listed, prev) ==
  {p \in DOMAIN listed : p \in DOMAIN prev.shas /\ prev.shas[p] = listed[p]}

FilesToReview(prevShas, shas) ==
  {p \in DOMAIN shas : p \notin DOMAIN prevShas \/ prevShas[p] # shas[p]}

\* The earlier findings a run adds to its own: on files it did not review
\* again, that are still in the pull request, under fingerprints it has not.
CarryIntoRecord(found, prev, toReview, manifest) ==
  FoldLeft(LAMBDA fs, f :
             IF \/ f.path \in toReview
                \/ f.path \notin manifest
                \/ \E i \in DOMAIN fs : fs[i].fp = f.fp
             THEN fs ELSE Append(fs, f),
           found, prev.findings)

\* The blobs of the files a run is done with.
CompletedSHAs(done, listed) == [p \in done \cap DOMAIN listed |-> listed[p]]

\* The findings a run leaves standing, one for each fingerprint.
StandingFindings(found, plan) ==
  LET gone == {found[i].fp : i \in plan.suppressed \cup plan.absorbed}
  IN FoldLeft(LAMBDA fs, f :
                IF f.fp \in gone \/ \E i \in DOMAIN fs : fs[i].fp = f.fp
                THEN fs ELSE Append(fs, f),
              <<>>, found)
=============================================================================
