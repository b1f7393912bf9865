------------------------------- MODULE Ledger -------------------------------
(***************************************************************************)
(* The dismissal ledger of internal/publisher: what people made of the     *)
(* findings of one repository.                                             *)
(*                                                                         *)
(* A ledger is a set of entries                                            *)
(*   kind, fp       what is attested, of which fingerprint                 *)
(*   coarse, blob   of "resolved" only: the identity without the quote and *)
(*                  the file's blob; None when unknown                     *)
(*   author         who adjudicated; "" when nobody did                    *)
(*   at             when, in ticks of which LedgerExpiry is a number       *)
(* The code appends to a list; no query tells a list from a set.           *)
(***************************************************************************)
EXTENDS Integers, FiniteSets

CONSTANTS None, LedgerExpiry

ASSUME ExpiryAssumption == LedgerExpiry \in Nat

EntryKinds == {"dismissal", "published", "accepted-and-fixed", "resolved"}

\* Entries written before there were kinds have none.
entryKind(e) == IF e.kind = "" THEN "dismissal" ELSE e.kind

Entry(kind, fp, author, now) ==
  [kind |-> kind, fp |-> fp, coarse |-> None, blob |-> None,
   author |-> author, at |-> now]

\* A mutant of Add: the entry has no kind.
AddUntyped(ledger, fp, author, now) == ledger \cup {Entry("", fp, author, now)}

Add(ledger, fp, author, now) == ledger \cup {Entry("dismissal", fp, author, now)}

AddAcceptedFixed(ledger, fp, now) ==
  ledger \cup {Entry("accepted-and-fixed", fp, "", now)}

AddResolved(ledger, fp, coarse, blob, now) ==
  ledger \cup {[Entry("resolved", fp, "", now) EXCEPT !.coarse = coarse, !.blob = blob]}

\* A mutant of expired: an entry lasts for good.
neverExpired(e, now) == now < e.at

expired(e, now) == now >= e.at + LedgerExpiry

Active(ledger, fp, now) ==
  \E e \in ledger : entryKind(e) = "dismissal" /\ e.fp = fp /\ ~expired(e, now)

ResolvedActive(ledger, fp, coarse, blob, now) ==
  \E e \in ledger :
    /\ entryKind(e) = "resolved" /\ ~expired(e, now)
    /\ e.fp = fp \/ (coarse # None /\ e.coarse = coarse)
    /\ e.blob # None /\ blob # None /\ e.blob = blob

\* Expired dismissals and resolutions are dropped, the other kinds kept.
Prune(ledger, now) ==
  {e \in ledger : ~(entryKind(e) \in {"dismissal", "resolved"} /\ expired(e, now))}

\* What the live threads can tell of a ledger that cannot be read.
RebuildFromThreads(live, now) ==
  {Entry("published", live[j].fp, "", now) : j \in DOMAIN live}

\* A mutant of CanDismiss: anyone but the author of the pull request.
CanDismissUnlessAuthor(association, isPRAuthor) == ~isPRAuthor

\* Who may dismiss a finding, by what GitHub says of them.
CanDismiss(association, isPRAuthor) ==
  /\ ~isPRAuthor
  /\ association \in {"NONE", "COLLABORATOR", "CONTRIBUTOR", "MEMBER", "OWNER"}
=============================================================================
