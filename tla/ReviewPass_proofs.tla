-------------------------- MODULE ReviewPass_proofs --------------------------
(***************************************************************************)
(* Theorems about ReviewPass, for every manifest, budget, batch size,      *)
(* concurrency and cutoff.                                                 *)
(***************************************************************************)
EXTENDS ReviewPass, Induction_proofs, SequenceTheorems, TLAPS

USE FilesAssumption, BoundsAssumption, SwitchAssumption

\* A file has a call exactly while its review or its verification runs, and
\* a verification has a finding left to verify.  Without it the types are
\* not inductive: a count could go below zero.
UnitInv ==
  \A f \in Files :
    /\ call[f] # "none" <=> unit[f] \in {"review", "verify"}
    /\ unit[f] = "verify" => claims[f] > 0

TypeInv == TypeOK /\ UnitInv

\* Asking and hanging up keep the calls and their counters well typed.
LEMMA AskType ==
  ASSUME TypeOK, NEW c \in Callers, NEW p \in Purposes, Ask(c, p)
  PROVE  /\ call' \in [Callers -> {"none", "open", "doomed", "backoff"}]
         /\ issued' \in [Purposes -> Nat]
BY DEF TypeOK, Ask, NewCall

LEMMA HangupType ==
  ASSUME TypeOK, NEW c \in Callers, Hangup(c)
  PROVE  /\ call' \in [Callers -> {"none", "open", "doomed", "backoff"}]
         /\ issued' \in [Purposes -> Nat]
BY DEF TypeOK, Hangup

LEMMA TryRetryType ==
  ASSUME TypeOK, NEW u \in Units, TryRetry(u)
  PROVE  retryLeft' \in [Units -> 0..RetryBucket]
BY DEF TypeOK, TryRetry

\* Every outcome the code records is one of Outcomes.
LEMMA OutcomeType ==
  \A s \in States, r \in Reasons : Outcome(s, r) \in Outcomes
BY DEF Outcomes

LEMMA RecordType ==
  ASSUME TypeOK, NEW f \in Files, NEW s \in States, NEW r \in Reasons,
         RecordFile(f, s, r)
  PROVE  outcomes' \in [Files -> Seq(Outcomes)] /\ finalized' \subseteq Files
<1>1. Outcome(s, r) \in Outcomes
  BY OutcomeType
<1>2. Append(outcomes[f], Outcome(s, r)) \in Seq(Outcomes)
  BY <1>1 DEF TypeOK
<1> QED
  BY <1>2 DEF TypeOK, RecordFile

LEMMA ErrorReasonType ==
  ASSUME TypeOK, NEW e
  PROVE  ErrorReason(e) \in Reasons
BY DEF ErrorReason, Reasons, TypeOK

LEMMA StatesType == FileReviewed \in States /\ FileSkipped \in States /\ FileErrored \in States
BY DEF States

LEMMA ReasonsType ==
  {"", "paths_ignore", "missing_post_image", "unchanged_since_review",
   "risk_rank_cutoff", "canceled", "parse_failure"} \subseteq Reasons
BY DEF Reasons, SkipReasons

LEMMA ClassifiedType ==
  ASSUME NEW f \in Files
  PROVE  Classified(f) \in Seq(Outcomes)
<1>1. /\ Outcome(FileReviewed, "") \in Outcomes
      /\ Outcome(FileSkipped, "paths_ignore") \in Outcomes
      /\ Outcome(FileErrored, "missing_post_image") \in Outcomes
      /\ Outcome(FileSkipped, "unchanged_since_review") \in Outcomes
  BY OutcomeType, StatesType, ReasonsType
<1>2. \A o \in Outcomes : <<o>> \in Seq(Outcomes)
  OBVIOUS
<1>3. <<>> \in Seq(Outcomes)
  OBVIOUS
<1> QED
  BY <1>1, <1>2, <1>3 DEF Classified

\* The types hold at the start.
LEMMA InitType == Init => TypeInv
<1> SUFFICES ASSUME Init PROVE TypeInv
  OBVIOUS
<1>1. outcomes \in [Files -> Seq(Outcomes)]
  BY DEF Init
<1>2. class \in [Files -> Classes] /\ source \subseteq Files
  BY DEF Init
<1>3. left \in [Files -> Budgets] /\ claims \in [Files -> 0..MaxClaims]
  BY DEF Init, Budgets
<1>4. UnitInv
  BY DEF Init, UnitInv, Callers
<1>5. /\ call \in [Callers -> {"none", "open", "doomed", "backoff"}]
      /\ retryLeft \in [Units -> 0..RetryBucket]
      /\ issued \in [Purposes -> Nat]
      /\ unit \in [Files -> {"idle", "review", "verify", "settled"}]
      /\ answer \in [Files -> {"none", "reviewed", "not_reviewable"}]
  BY DEF Init
<1>6. /\ phase = "classify" /\ canceled = FALSE /\ followUps = 1
      /\ flagged = {} /\ usable = FALSE /\ lead = {} /\ rest = {} /\ batch = {}
      /\ primed = FALSE /\ blocked = {} /\ finalized = {} /\ runErr = FALSE
      /\ verdict = "none"
  BY DEF Init
<1>7. /\ canceled \in BOOLEAN /\ usable \in BOOLEAN
      /\ primed \in BOOLEAN /\ runErr \in BOOLEAN
  BY <1>6
<1>8. TypeOK
  BY <1>1, <1>2, <1>3, <1>5, <1>6, <1>7 DEF TypeOK
<1> QED
  BY <1>4, <1>8 DEF TypeInv

\* Every step keeps them.
LEMMA NextType == TypeInv /\ [Next]_vars => TypeOK'
<1> SUFFICES ASSUME TypeOK, UnitInv, [Next]_vars PROVE TypeOK'
  BY DEF TypeInv
<1> USE DEF Units, Purposes
<1>1. CASE Classify
  <2>1. outcomes' \in [Files -> Seq(Outcomes)] /\ finalized' \subseteq Files
    BY <1>1, ClassifiedType DEF Classify
  <2>2. Triage \in Callers /\ Ask(Triage, "triage")
    BY <1>1 DEF Classify, Callers
  <2> QED
    BY <1>1, <2>1, <2>2, AskType DEF Classify, TypeOK, input, triageVars, queue, work
<1>2. CASE TriageReask
  <2>1. Triage \in Callers /\ Ask(Triage, "triage") /\ TryRetry("triage")
    BY <1>2 DEF TriageReask, Callers
  <2>2. followUps' \in 0..1
    BY <1>2 DEF TriageReask, TypeOK
  <2> QED
    BY <1>2, <2>1, <2>2, AskType, TryRetryType
    DEF TriageReask, TypeOK, input, queue, work, record
<1>3. CASE TriageFlags
  <2>1. Triage \in Callers /\ Hangup(Triage)
    BY <1>3 DEF TriageFlags, Callers
  <2> QED
    BY <1>3, <2>1, HangupType DEF TriageFlags, TypeOK, input, queue, work, record
<1>4. CASE TriageFallback
  <2>1. Triage \in Callers /\ Hangup(Triage)
    BY <1>4 DEF TriageFallback, Callers
  <2> QED
    BY <1>4, <2>1, HangupType
    DEF TriageFallback, TypeOK, input, triageVars, queue, work, record
<1>5. CASE Enqueue
  BY <1>5 DEF Enqueue, TypeOK, input, triageVars, work, record, FlaggedEntries,
              Reviewable
<1>6. CASE RiskRank
  <2>1. PICK K \in Ranked :
          /\ lead' = K
          /\ rest' = Reviewable \ (K \cup flagged)
          /\ outcomes' = [f \in Files |->
               IF f \in FlaggedEntries \ K
               THEN Append(outcomes[f], Outcome(FileSkipped, "risk_rank_cutoff"))
               ELSE outcomes[f]]
          /\ finalized' = finalized \cup (FlaggedEntries \ K)
    BY <1>6 DEF RiskRank
  <2>2. Outcome(FileSkipped, "risk_rank_cutoff") \in Outcomes
    BY OutcomeType, StatesType, ReasonsType
  <2>3. outcomes' \in [Files -> Seq(Outcomes)]
    BY <2>1, <2>2 DEF TypeOK
  <2>4. lead' \subseteq Files /\ rest' \subseteq Files /\ finalized' \subseteq Files
    BY <2>1 DEF TypeOK, Ranked, FlaggedEntries, Reviewable
  <2> QED
    BY <1>6, <2>3, <2>4 DEF RiskRank, TypeOK, input, triageVars, work
<1>7. CASE Dispatch
  BY <1>7 DEF Dispatch, TypeOK, input, triageVars, work, record, Waiting
<1>8. CASE \E c \in Callers : Backoff(c) \/ Resume(c)
  <2>1. PICK c \in Callers : Backoff(c) \/ Resume(c)
    BY <1>8
  <2>2. c # Triage => c \in Files
    BY DEF Callers
  <2>3. CASE Backoff(c)
    <3>1. UnitOf(c) \in Units
      BY <2>2, <2>3 DEF Backoff, UnitOf, UnitInv
    <3>2. retryLeft' \in [Units -> 0..RetryBucket]
      BY <2>3, <3>1, TryRetryType DEF Backoff
    <3> QED
      BY <2>3, <3>2
      DEF Backoff, TypeOK, input, triageVars, queue, work, record
  <2>4. CASE Resume(c)
    <3>1. UnitOf(c) \in {"triage", "review", "verify"}
      BY <2>2, <2>4 DEF Resume, UnitOf, UnitInv
    <3>2. (IF UnitOf(c) = "review" THEN "retry" ELSE UnitOf(c)) \in Purposes
      BY <3>1
    <3>3. Ask(c, IF UnitOf(c) = "review" THEN "retry" ELSE UnitOf(c))
      BY <2>4 DEF Resume
    <3>4. /\ call' \in [Callers -> {"none", "open", "doomed", "backoff"}]
          /\ issued' \in [Purposes -> Nat]
      BY <3>2, <3>3, AskType
    <3> QED
      BY <2>4, <3>4 DEF Resume, TypeOK, input, triageVars, queue, work, record
  <2> QED
    BY <2>1, <2>3, <2>4
<1>9. ASSUME NEW f \in Files, Review(f) PROVE TypeOK'
  <2>0. f \in Callers
    BY DEF Callers
  <2>1. CASE Begin(f)
    BY <2>0, <2>1, AskType DEF Begin, TypeOK, input, triageVars, queue, record
  <2>2. CASE BeginCanceled(f)
    <3>1. RecordFile(f, FileErrored, "canceled")
      BY <2>2 DEF BeginCanceled
    <3>2. outcomes' \in [Files -> Seq(Outcomes)] /\ finalized' \subseteq Files
      BY <3>1, RecordType, StatesType, ReasonsType
    <3> QED
      BY <2>2, <3>2 DEF BeginCanceled, TypeOK, input, triageVars, queue
  <2>3. CASE ReaskRunaway(f)
    <3>1. Ask(f, "reask")
      BY <2>3 DEF ReaskRunaway
    <3>2. left[f] \in Budgets /\ left[f].runaway > 0
      BY <2>3 DEF ReaskRunaway, Recoverable, TypeOK
    <3>3. [left[f] EXCEPT !.runaway = @ - 1] \in Budgets
      BY <3>2 DEF Budgets
    <3>4. left' \in [Files -> Budgets]
      BY <2>3, <3>3 DEF ReaskRunaway, TypeOK
    <3> QED
      BY <2>0, <2>3, <3>1, <3>4, AskType
      DEF ReaskRunaway, TypeOK, input, triageVars, queue, record
  <2>9. CASE ReaskDeadline(f)
    <3>1. Ask(f, "reask")
      BY <2>9 DEF ReaskDeadline
    <3>2. left[f] \in Budgets /\ left[f].deadline > 0
      BY <2>9 DEF ReaskDeadline, Recoverable, TypeOK
    <3>3. [left[f] EXCEPT !.deadline = @ - 1] \in Budgets
      BY <3>2 DEF Budgets
    <3>4. left' \in [Files -> Budgets]
      BY <2>9, <3>3 DEF ReaskDeadline, TypeOK
    <3> QED
      BY <2>0, <2>9, <3>1, <3>4, AskType
      DEF ReaskDeadline, TypeOK, input, triageVars, queue, record
  <2>4. CASE GiveUp(f)
    <3>1. PICK e : RecordFile(f, FileErrored, ErrorReason(e))
      BY <2>4 DEF GiveUp
    <3>2. outcomes' \in [Files -> Seq(Outcomes)] /\ finalized' \subseteq Files
      BY <3>1, RecordType, StatesType, ErrorReasonType
    <3>3. runErr' \in BOOLEAN
      BY <2>4 DEF GiveUp, TypeOK
    <3>4. Hangup(f)
      BY <2>4 DEF GiveUp
    <3> QED
      BY <2>0, <2>4, <3>2, <3>3, <3>4, HangupType
      DEF GiveUp, TypeOK, input, triageVars, queue
  <2>5. CASE ReaskUnparsable(f)
    <3>1. Ask(f, "reask")
      BY <2>5 DEF ReaskUnparsable
    <3>2. left[f] \in Budgets /\ left[f].parse > 0
      BY <2>5 DEF ReaskUnparsable, TypeOK
    <3>3. [left[f] EXCEPT !.parse = @ - 1] \in Budgets
      BY <3>2 DEF Budgets
    <3>4. left' \in [Files -> Budgets]
      BY <2>5, <3>3 DEF ReaskUnparsable, TypeOK
    <3> QED
      BY <2>0, <2>5, <3>1, <3>4, AskType
      DEF ReaskUnparsable, TypeOK, input, triageVars, queue, record
  <2>6. CASE ParseFailure(f)
    <3>1. RecordFile(f, FileErrored, "parse_failure") /\ Hangup(f)
      BY <2>6 DEF ParseFailure
    <3>2. outcomes' \in [Files -> Seq(Outcomes)] /\ finalized' \subseteq Files
      BY <3>1, RecordType, StatesType, ReasonsType
    <3> QED
      BY <2>0, <2>6, <3>1, <3>2, HangupType
      DEF ParseFailure, TypeOK, input, triageVars, queue
  <2>7. CASE Parsed(f)
    <3>1. PICK o \in {"reviewed", "not_reviewable"}, n \in 0..MaxClaims :
            /\ answer' = [answer EXCEPT ![f] = o]
            /\ claims' = [claims EXCEPT ![f] = n]
            /\ IF n = 0
               THEN /\ unit' = [unit EXCEPT ![f] = "settled"]
                    /\ RecordFile(f, FileReviewed, "")
                    /\ Hangup(f)
               ELSE /\ unit' = [unit EXCEPT ![f] = "verify"]
                    /\ Ask(f, "verify")
                    /\ UNCHANGED <<outcomes, finalized>>
      BY <2>7 DEF Parsed
    <3>2. outcomes' \in [Files -> Seq(Outcomes)] /\ finalized' \subseteq Files
      <4>1. CASE n = 0
        BY <3>1, <4>1, RecordType, StatesType, ReasonsType
      <4>2. CASE n # 0
        BY <3>1, <4>2 DEF TypeOK
      <4> QED
        BY <4>1, <4>2
    <3>3. /\ call' \in [Callers -> {"none", "open", "doomed", "backoff"}]
          /\ issued' \in [Purposes -> Nat]
      BY <2>0, <3>1, AskType, HangupType
    <3>4. /\ answer' \in [Files -> {"none", "reviewed", "not_reviewable"}]
          /\ claims' \in [Files -> 0..MaxClaims]
          /\ unit' \in [Files -> {"idle", "review", "verify", "settled"}]
      BY <3>1 DEF TypeOK
    <3> QED
      BY <2>7, <3>2, <3>3, <3>4 DEF Parsed, TypeOK, input, triageVars, queue
  <2>8. CASE Verified(f)
    <3>0. claims[f] - 1 \in 0..MaxClaims
      <4>1. claims[f] \in 0..MaxClaims
        BY DEF TypeOK
      <4>2. claims[f] > 0
        BY <2>8 DEF Verified, UnitInv
      <4> QED
        BY <4>1, <4>2
    <3>1. claims' \in [Files -> 0..MaxClaims]
      BY <2>8, <3>0 DEF Verified, TypeOK
    <3>2. blocked' \subseteq Files
      BY <2>8 DEF Verified, TypeOK
    <3>3. CASE claims[f] = 1
      <4>1. RecordFile(f, FileReviewed, "") /\ Hangup(f)
        BY <2>8, <3>3 DEF Verified
      <4>2. outcomes' \in [Files -> Seq(Outcomes)] /\ finalized' \subseteq Files
        BY <4>1, RecordType, StatesType, ReasonsType
      <4> QED
        BY <2>0, <2>8, <3>1, <3>2, <3>3, <4>1, <4>2, HangupType
        DEF Verified, TypeOK, input, triageVars, queue
    <3>4. CASE claims[f] # 1
      <4>1. Ask(f, "verify")
        BY <2>8, <3>4 DEF Verified
      <4> QED
        BY <2>0, <2>8, <3>1, <3>2, <3>4, <4>1, AskType
        DEF Verified, TypeOK, input, triageVars, queue
    <3> QED
      BY <3>3, <3>4
  <2> QED
    BY <1>9, <2>1, <2>2, <2>3, <2>4, <2>5, <2>6, <2>7, <2>8, <2>9 DEF Review
<1>10. CASE Return
  <2>1. Outcome(FileErrored, "canceled") \in Outcomes
    BY OutcomeType, StatesType, ReasonsType
  <2>2. outcomes' \in [Files -> Seq(Outcomes)]
    BY <1>10, <2>1 DEF Return, FinalizeDefault, TypeOK
  <2> QED
    BY <1>10, <2>2 DEF Return, TypeOK, input, triageVars, queue, work
<1>11. CASE Judge
  <2>1. verdict' \in Verdicts
    BY <1>11 DEF Judge, Decide, Verdicts
  <2> QED
    BY <1>11, <2>1 DEF Judge, TypeOK, input, triageVars, queue, work, record
<1>12. CASE Cancel
  BY <1>12 DEF Cancel, TypeOK, input, triageVars, queue, work, record
<1>13. CASE UNCHANGED vars
  BY <1>13 DEF vars, TypeOK, input, triageVars, queue, work, record
<1> QED
  BY <1>1, <1>2, <1>3, <1>4, <1>5, <1>6, <1>7, <1>8, <1>9, <1>10, <1>11, <1>12,
     <1>13 DEF Next, Progress
-----------------------------------------------------------------------------
(* The inductive invariant.                                                *)

\* A file waits, runs or has run, and only a wave's files run.
QueueInv ==
  /\ phase \in {"classify", "triage", "order"} =>
       Waiting = {} /\ batch = {} /\ \A f \in Files : unit[f] = "idle"
  /\ \A f \in Waiting : unit[f] = "idle" /\ f \notin batch
  /\ \A f \in Files : unit[f] \in {"review", "verify"} => f \in batch
  /\ phase # "dispatch" => BatchDone

\* A file that has not settled has no outcome yet, or the one it was cut
\* with when there was no usable triage.
CutOnly(f) == Len(outcomes[f]) = 1 /\ Cut(f) /\ ~usable
Fresh(f)   == outcomes[f] = <<>> \/ CutOnly(f)
AtMostOne(f) ==
  \/ Len(outcomes[f]) \in {0, 1}
  \/ Len(outcomes[f]) = 2 /\ Cut(f) /\ ~usable

RecordInv ==
  /\ \A f \in Files : f \in finalized <=> outcomes[f] # <<>>
  /\ phase = "classify" => \A f \in Files : outcomes[f] = <<>>
  /\ phase \in {"triage", "order"} => \A f \in Files : outcomes[f] = Classified(f)
  /\ \A f \in Files : AtMostOne(f)
  /\ ~Ended => \A f \in Waiting \cup batch : unit[f] # "settled" => Fresh(f)
  /\ Ended => finalized = Files

HasState(f, state) == \E i \in DOMAIN outcomes[f] : outcomes[f][i].state = state

\* What a recorded state says of the file.
CoverInv ==
  /\ \A f \in Files :
       /\ HasState(f, FileReviewed) => class[f] = "deleted" \/ answer[f] # "none"
       /\ \A i \in DOMAIN outcomes[f] :
            outcomes[f][i].state = FileSkipped
              /\ IsApprovedSkipReason(outcomes[f][i].reason)
            => class[f] \in {"ignored", "unchanged"}
       /\ unit[f] \in {"idle", "review"} => answer[f] = "none"
       /\ unit[f] = "verify" => answer[f] # "none"
       /\ unit[f] = "settled" /\ answer[f] # "none" => HasState(f, FileReviewed)
       /\ class[f] = "deleted" /\ phase # "classify" => HasState(f, FileReviewed)
  /\ runErr => \E f \in Files : HasState(f, FileErrored)

VerdictInv ==
  /\ phase # "judged" => verdict = "none"
  /\ phase = "judged" => verdict = Decide(RunRecord)

IInv == TypeInv /\ QueueInv /\ RecordInv /\ CoverInv /\ VerdictInv
-----------------------------------------------------------------------------
(* End of the invariant.  Its parts, one at a time.                        *)

\* Calls follow units, in every step.
LEMMA UnitStep == TypeInv /\ [Next]_vars => UnitInv'
<1> SUFFICES ASSUME TypeOK, UnitInv, [Next]_vars PROVE UnitInv'
  BY DEF TypeInv
<1> USE DEF UnitInv
<1>0. Triage \in Callers /\ Files \subseteq Callers /\ Triage \notin Files
  BY DEF Callers
<1>1. CASE Classify \/ TriageReask \/ TriageFlags \/ TriageFallback
  BY <1>0, <1>1 DEF Classify, TriageReask, TriageFlags, TriageFallback, Ask,
     Hangup, TypeOK, work
<1>2. CASE Enqueue \/ RiskRank \/ Dispatch \/ Return \/ Judge \/ Cancel
  BY <1>2 DEF Enqueue, RiskRank, Dispatch, Return, Judge, Cancel, work
<1>3. CASE \E c \in Callers : Backoff(c) \/ Resume(c)
  BY <1>0, <1>3 DEF Backoff, Resume, Ask, NewCall, TypeOK, work
<1>4. ASSUME NEW g \in Files, Review(g) PROVE UnitInv'
  <2>1. CASE Begin(g)
    BY <1>0, <2>1 DEF Begin, Ask, NewCall, TypeOK
  <2>2. CASE BeginCanceled(g)
    BY <1>0, <2>2 DEF BeginCanceled, TypeOK
  <2>3. CASE ReaskRunaway(g) \/ ReaskDeadline(g) \/ ReaskUnparsable(g)
    BY <1>0, <2>3
    DEF ReaskRunaway, ReaskDeadline, ReaskUnparsable, Ask, NewCall, TypeOK
  <2>4. CASE GiveUp(g) \/ ParseFailure(g)
    BY <1>0, <2>4 DEF GiveUp, ParseFailure, Hangup, TypeOK
  <2>5. CASE Parsed(g)
    <3>1. PICK n \in 0..MaxClaims :
            /\ claims' = [claims EXCEPT ![g] = n]
            /\ IF n = 0
               THEN /\ unit' = [unit EXCEPT ![g] = "settled"]
                    /\ Hangup(g)
               ELSE /\ unit' = [unit EXCEPT ![g] = "verify"]
                    /\ Ask(g, "verify")
      BY <2>5 DEF Parsed
    <3> QED
      BY <1>0, <3>1 DEF Hangup, Ask, NewCall, TypeOK
  <2>6. CASE Verified(g)
    <3>0. unit[g] = "verify"
      BY <2>6 DEF Verified
    <3>1. claims[g] \in Nat /\ claims[g] > 0 /\ unit[g] = "verify"
      BY <3>0 DEF TypeOK
    <3>2. claims' = [claims EXCEPT ![g] = claims[g] - 1]
      BY <2>6 DEF Verified
    <3>3. CASE claims[g] = 1
      <4>1. unit' = [unit EXCEPT ![g] = "settled"] /\ Hangup(g)
        BY <2>6, <3>3 DEF Verified
      <4>2. call' = [call EXCEPT ![g] = "none"]
        BY <4>1 DEF Hangup
      <4> QED
        BY <1>0, <3>2, <4>1, <4>2 DEF TypeOK
    <3>4. CASE claims[g] # 1
      <4>1. claims[g] - 1 > 0
        BY <3>1, <3>4
      <4> QED
        BY <1>0, <2>6, <3>1, <3>2, <3>4, <4>1 DEF Verified, Ask, NewCall, TypeOK
    <3> QED
      BY <3>3, <3>4
  <2> QED
    BY <1>4, <2>1, <2>2, <2>3, <2>4, <2>5, <2>6 DEF Review
<1>5. CASE UNCHANGED vars
  BY <1>5 DEF vars, work
<1> QED
  BY <1>1, <1>2, <1>3, <1>4, <1>5 DEF Next, Progress

LEMMA TypeInvStep == TypeInv /\ [Next]_vars => TypeInv'
BY NextType, UnitStep DEF TypeInv

\* A unit moves forward only: every step of Review leaves its file neither
\* idle nor outside the wave it was in.
LEMMA ReviewFrame ==
  ASSUME TypeOK, UnitInv, QueueInv, NEW g \in Files, Review(g)
  PROVE  /\ g \in batch /\ phase = "dispatch"
         /\ UNCHANGED <<phase, lead, rest, batch, primed, class, source,
                        flagged, usable, verdict>>
         /\ unit' = [unit EXCEPT ![g] = unit'[g]]
         /\ unit[g] # "settled" /\ unit'[g] \in {"review", "verify", "settled"}
<1> USE DEF queue, input, triageVars
<1>0. unit[g] \in {"review", "verify"} => g \in batch /\ phase = "dispatch"
  BY DEF QueueInv, BatchDone
<1>1. CASE Begin(g) \/ BeginCanceled(g)
  BY <1>1 DEF Begin, BeginCanceled, TypeOK
<1>2. CASE ReaskRunaway(g) \/ ReaskDeadline(g) \/ ReaskUnparsable(g)
  BY <1>0, <1>2 DEF ReaskRunaway, ReaskDeadline, ReaskUnparsable, TypeOK
<1>3. CASE GiveUp(g) \/ ParseFailure(g)
  BY <1>0, <1>3 DEF GiveUp, ParseFailure, TypeOK
<1>4. CASE Parsed(g)
  BY <1>0, <1>4 DEF Parsed, TypeOK
<1>5. CASE Verified(g)
  BY <1>0, <1>5 DEF Verified, TypeOK
<1> QED
  BY <1>1, <1>2, <1>3, <1>4, <1>5 DEF Review

LEMMA QueueStep == TypeInv /\ QueueInv /\ [Next]_vars => QueueInv'
<1> SUFFICES ASSUME TypeOK, UnitInv, QueueInv, [Next]_vars PROVE QueueInv'
  BY DEF TypeInv
<1> USE DEF queue
<1>1. CASE Classify \/ TriageReask \/ TriageFlags \/ TriageFallback \/ Cancel
  BY <1>1 DEF Classify, TriageReask, TriageFlags, TriageFallback, Cancel, work,
     QueueInv, Waiting, BatchDone
<1>2. CASE Enqueue \/ RiskRank
  <2>1. /\ phase = "order" /\ phase' = "dispatch" /\ UNCHANGED <<batch, unit>>
        /\ Waiting' \subseteq Files
    BY <1>2 DEF Enqueue, RiskRank, Waiting, FlaggedEntries, Reviewable, Ranked, work
  <2>2. batch = {} /\ \A f \in Files : unit[f] = "idle"
    BY <2>1 DEF QueueInv
  <2> QED
    BY <2>1, <2>2 DEF QueueInv
<1>3. CASE Dispatch
  <2>1. PICK B \in SUBSET Waiting :
          batch' = B /\ lead' = lead \ B /\ rest' = rest \ B
    BY <1>3 DEF Dispatch
  <2>2. /\ phase = "dispatch" /\ phase' = phase /\ unit' = unit /\ BatchDone
    BY <1>3 DEF Dispatch, work
  <2>3. \A f \in Files : unit[f] \notin {"review", "verify"}
    BY <2>2 DEF QueueInv, BatchDone
  <2>4. Waiting' = Waiting \ B
    BY <2>1 DEF Waiting
  <2> QED
    BY <2>1, <2>2, <2>3, <2>4 DEF QueueInv
<1>4. CASE \E c \in Callers : Backoff(c) \/ Resume(c)
  BY <1>4 DEF Backoff, Resume, work, QueueInv, Waiting, BatchDone
<1>5. ASSUME NEW g \in Files, Review(g) PROVE QueueInv'
  <2>1. /\ g \in batch /\ phase = "dispatch" /\ phase' = "dispatch"
        /\ UNCHANGED <<lead, rest, batch>>
        /\ \A f \in Files : f # g => unit'[f] = unit[f]
        /\ unit'[g] \in {"review", "verify", "settled"}
    BY <1>5, ReviewFrame DEF TypeOK
  <2>2. g \notin Waiting
    BY <2>1 DEF QueueInv
  <2>3. Waiting' = Waiting /\ Waiting \subseteq Files
    BY <2>1 DEF Waiting, TypeOK
  <2> QED
    BY <2>1, <2>2, <2>3 DEF QueueInv
<1>6. CASE Return \/ Judge
  BY <1>6 DEF Return, Judge, work, QueueInv, Waiting, BatchDone
<1>7. CASE UNCHANGED vars
  BY <1>7 DEF vars, work, QueueInv, Waiting, BatchDone
<1> QED
  BY <1>1, <1>2, <1>3, <1>4, <1>5, <1>6, <1>7 DEF Next, Progress

\* What appending one outcome does to a file's outcomes.
LEMMA AppendFacts ==
  ASSUME NEW s \in Seq(Outcomes), NEW o \in Outcomes
  PROVE  /\ Append(s, o) \in Seq(Outcomes) /\ Append(s, o) # <<>>
         /\ Len(Append(s, o)) = Len(s) + 1
         /\ Append(s, o)[Len(s) + 1] = o
         /\ \A i \in 1..Len(s) : Append(s, o)[i] = s[i]
         /\ Len(s) \in Nat
OBVIOUS

LEMMA AppendEach ==
  ASSUME NEW s \in Seq(Outcomes), NEW o \in Outcomes, NEW i \in DOMAIN Append(s, o)
  PROVE  Append(s, o)[i] = o \/ (i \in DOMAIN s /\ Append(s, o)[i] = s[i])
<1>1. DOMAIN s = 1..Len(s) /\ DOMAIN Append(s, o) = 1..(Len(s) + 1) /\ Len(s) \in Nat
  BY AppendFacts
<1>2. i \in 1..Len(s) \/ i = Len(s) + 1
  BY <1>1
<1> QED
  BY <1>1, <1>2, AppendFacts

\* A step of Review records at most one outcome, of the file it is about.
LEMMA ReviewRecords ==
  ASSUME TypeOK, NEW g \in Files, Review(g)
  PROVE  \/ UNCHANGED <<outcomes, finalized>> /\ (unit'[g] # "settled" \/ unit[g] = "settled")
         \/ /\ unit' = [unit EXCEPT ![g] = "settled"]
            /\ \E s \in States, r \in Reasons :
                 /\ RecordFile(g, s, r)
                 /\ s = FileReviewed \/ s = FileErrored
<1> USE DEF record
<1>1. CASE Begin(g) \/ ReaskRunaway(g) \/ ReaskDeadline(g) \/ ReaskUnparsable(g)
  BY <1>1 DEF Begin, ReaskRunaway, ReaskDeadline, ReaskUnparsable, TypeOK
<1>2. CASE BeginCanceled(g) \/ ParseFailure(g)
  BY <1>2, StatesType, ReasonsType DEF BeginCanceled, ParseFailure
<1>3. CASE GiveUp(g)
  <2>1. PICK e : RecordFile(g, FileErrored, ErrorReason(e))
    BY <1>3 DEF GiveUp
  <2> QED
    BY <1>3, <2>1, StatesType, ErrorReasonType DEF GiveUp
<1>4. CASE Parsed(g)
  BY <1>4, StatesType, ReasonsType DEF Parsed, TypeOK
<1>5. CASE Verified(g)
  BY <1>5, StatesType, ReasonsType DEF Verified, TypeOK
<1> QED
  BY <1>1, <1>2, <1>3, <1>4, <1>5 DEF Review

LEMMA RecordStep == TypeInv /\ QueueInv /\ RecordInv /\ [Next]_vars => RecordInv'
<1> SUFFICES ASSUME TypeOK, UnitInv, QueueInv, RecordInv, [Next]_vars
             PROVE  RecordInv'
  BY DEF TypeInv
<1> USE DEF AtMostOne, Fresh, CutOnly, Cut
<1>0. TypeOK'
  BY NextType DEF TypeInv
<1>1. CASE Classify
  <2>1. /\ phase' = "triage" /\ Waiting' = {} /\ batch' = {}
        /\ outcomes' = [f \in Files |-> Classified(f)] /\ class' = class
        /\ finalized' = {f \in Files : Classified(f) # <<>>}
    BY <1>1 DEF Classify, queue, input, QueueInv, Waiting
  <2>2. \A f \in Files : Classified(f)' = Classified(f)
    BY <2>1 DEF Classified
  <2>3. \A f \in Files : Len(Classified(f)) \in {0, 1}
    BY DEF Classified
  <2> QED
    BY <2>1, <2>2, <2>3 DEF RecordInv, Ended
<1>2. CASE TriageReask \/ TriageFlags \/ TriageFallback
  <2>1. /\ phase = "triage" /\ phase' \in {"triage", "order"}
        /\ UNCHANGED <<class, outcomes, finalized, lead, rest, batch, unit>>
    BY <1>2 DEF TriageReask, TriageFlags, TriageFallback, queue, work, record, input
  <2>2. \A f \in Files : Classified(f)' = Classified(f) /\ outcomes[f] = Classified(f)
    BY <2>1 DEF Classified, RecordInv
  <2>3. \A f \in Files : Len(Classified(f)) \in {0, 1}
    BY DEF Classified
  <2>4. Waiting' = {} /\ batch' = {}
    BY <2>1 DEF QueueInv, Waiting
  <2> QED
    BY <2>1, <2>2, <2>3, <2>4 DEF RecordInv, Ended
<1>3. ASSUME phase = "order"
      PROVE  /\ \A f \in Reviewable : outcomes[f] = <<>>
             /\ \A f \in Files : Len(outcomes[f]) \in {0, 1}
  <2>1. \A f \in Files : outcomes[f] = Classified(f)
    BY <1>3 DEF RecordInv
  <2>2. \A f \in Files : Len(Classified(f)) \in {0, 1}
    BY DEF Classified
  <2> QED
    BY <2>1, <2>2 DEF Classified, Reviewable
<1>4. CASE Enqueue
  <2>1. /\ phase = "order" /\ phase' = "dispatch" /\ Waiting' \subseteq Reviewable
        /\ batch' = {} /\ UNCHANGED <<outcomes, finalized, unit, usable>>
    BY <1>4 DEF Enqueue, Waiting, FlaggedEntries, triageVars, work, record, QueueInv
  <2> QED
    BY <1>3, <2>1 DEF RecordInv, Ended
<1>5. CASE RiskRank
  <2>1. PICK K \in Ranked :
          /\ lead' = K
          /\ rest' = Reviewable \ (K \cup flagged)
          /\ outcomes' = [f \in Files |->
               IF f \in FlaggedEntries \ K
               THEN Append(outcomes[f], Outcome(FileSkipped, "risk_rank_cutoff"))
               ELSE outcomes[f]]
          /\ finalized' = finalized \cup (FlaggedEntries \ K)
    BY <1>5 DEF RiskRank
  <2> DEFINE cut == Outcome(FileSkipped, "risk_rank_cutoff")
  <2>2. cut \in Outcomes
    BY OutcomeType, StatesType, ReasonsType
  <2>3. /\ phase = "order" /\ phase' = "dispatch" /\ batch' = {}
        /\ UNCHANGED <<unit, usable, flagged>>
    BY <1>5 DEF RiskRank, triageVars, work, QueueInv
  <2>4. FlaggedEntries \subseteq Reviewable /\ Reviewable \subseteq Files
        /\ K \subseteq FlaggedEntries
    BY DEF FlaggedEntries, Reviewable, Ranked
  <2>5. \A f \in FlaggedEntries \ K :
          outcomes'[f] # <<>> /\ Len(outcomes'[f]) = 1 /\ outcomes'[f][1] = cut
    BY <1>3, <2>1, <2>2, <2>3, <2>4, AppendFacts
  <2>6. \A f \in Files : f \notin FlaggedEntries \ K => outcomes'[f] = outcomes[f]
    BY <2>1
  <2>7. \A f \in Waiting' : f \in FlaggedEntries \ K => ~usable
    BY <2>1, <2>4 DEF Waiting, FlaggedEntries
  <2>8. \A f \in Waiting' : f \in Reviewable
    BY <2>1, <2>4 DEF Waiting
  <2>9. \A f \in Files : AtMostOne(f)'
    BY <1>3, <2>3, <2>5, <2>6
  <2>10. \A f \in Waiting' : Fresh(f)'
    BY <1>3, <2>3, <2>4, <2>5, <2>6, <2>7, <2>8
  <2>11. \A f \in Files : f \in finalized' <=> outcomes'[f] # <<>>
    BY <2>1, <2>5, <2>6 DEF RecordInv
  <2> QED
    BY <2>3, <2>9, <2>10, <2>11 DEF RecordInv, Ended
<1>6. CASE Dispatch
  <2>1. /\ phase = "dispatch" /\ UNCHANGED <<phase, outcomes, finalized, unit, usable>>
        /\ Waiting' \cup batch' \subseteq Waiting
    BY <1>6 DEF Dispatch, Waiting, triageVars, work, record
  <2> QED
    BY <2>1 DEF RecordInv, Ended
<1>7. CASE Cancel \/ (\E c \in Callers : Backoff(c) \/ Resume(c))
  <2>1. UNCHANGED <<class, phase, outcomes, finalized, unit, usable, lead, rest, batch>>
    BY <1>7 DEF Cancel, Backoff, Resume, triageVars, work, record, queue, input
  <2> QED
    BY <2>1 DEF RecordInv, Ended, Classified, Waiting
<1>8. ASSUME NEW g \in Files, Review(g) PROVE RecordInv'
  <2>1. /\ g \in batch /\ phase = "dispatch" /\ unit[g] # "settled"
        /\ UNCHANGED <<phase, lead, rest, batch, class, usable>>
        /\ \A f \in Files : f # g => unit'[f] = unit[f]
        /\ unit' = [unit EXCEPT ![g] = unit'[g]]
    BY <1>8, ReviewFrame DEF TypeOK
  <2>2. Fresh(g)
    BY <2>1 DEF RecordInv, Ended
  <2>3. CASE UNCHANGED <<outcomes, finalized>>
    BY <2>1, <2>3 DEF RecordInv, Ended, Waiting, TypeOK
  <2>4. CASE unit' = [unit EXCEPT ![g] = "settled"]
             /\ \E s \in States, r \in Reasons : RecordFile(g, s, r)
    <3>1. PICK s \in States, r \in Reasons : RecordFile(g, s, r)
      BY <2>4
    <3> DEFINE o == Outcome(s, r)
    <3>2. o \in Outcomes /\ outcomes[g] \in Seq(Outcomes)
      BY OutcomeType DEF TypeOK
    <3>3. /\ outcomes'[g] = Append(outcomes[g], o)
          /\ \A f \in Files : f # g => outcomes'[f] = outcomes[f]
          /\ finalized' = finalized \cup {g}
      BY <3>1 DEF RecordFile, TypeOK
    <3>4. /\ outcomes'[g] # <<>> /\ Len(outcomes'[g]) = Len(outcomes[g]) + 1
          /\ Len(outcomes[g]) = 1 => outcomes'[g][1] = outcomes[g][1]
      BY <3>2, <3>3, AppendFacts
    <3>5. AtMostOne(g)'
      <4>1. CASE outcomes[g] = <<>>
        <5>1. Len(outcomes[g]) = 0
          BY <4>1
        <5>2. Len(outcomes'[g]) = 1
          BY <3>4, <5>1
        <5> QED
          BY <5>2
      <4>2. CASE CutOnly(g)
        BY <2>1, <3>4, <4>2
      <4> QED
        BY <2>2, <4>1, <4>2
    <3>6. unit'[g] = "settled"
      BY <2>4 DEF TypeOK
    <3>7. \A f \in Files : f # g => AtMostOne(f)'
      BY <2>1, <3>3 DEF RecordInv
    <3>8. \A f \in Waiting' \cup batch' : unit'[f] # "settled" => Fresh(f)'
      BY <2>1, <3>3, <3>6 DEF RecordInv, Ended, Waiting, TypeOK
    <3>9. \A f \in Files : f \in finalized' <=> outcomes'[f] # <<>>
      BY <3>3, <3>4 DEF RecordInv
    <3> QED
      BY <2>1, <3>5, <3>7, <3>8, <3>9 DEF RecordInv, Ended
  <2> QED
    BY <1>8, <2>3, <2>4, ReviewRecords
<1>9. CASE Return
  <2>1. /\ phase = "dispatch" /\ phase' = "returned" /\ finalized' = Files
        /\ outcomes' = [f \in Files |-> FinalizeDefault(f)] /\ usable' = usable
    BY <1>9 DEF Return, triageVars
  <2> DEFINE o == Outcome(FileErrored, "canceled")
  <2>2. o \in Outcomes
    BY OutcomeType, StatesType, ReasonsType
  <2>3. ASSUME NEW f \in Files
        PROVE  AtMostOne(f)' /\ outcomes'[f] # <<>>
    <3>1. CASE f \in finalized
      BY <2>1, <2>3, <3>1 DEF FinalizeDefault, RecordInv
    <3>2. CASE f \notin finalized
      <4>1. outcomes[f] = <<>> /\ outcomes'[f] = Append(outcomes[f], o)
        BY <2>1, <2>3, <3>2 DEF FinalizeDefault, RecordInv
      <4> QED
        BY <2>2, <4>1
    <3> QED
      BY <3>1, <3>2
  <2> QED
    BY <2>1, <2>3 DEF RecordInv, Ended
<1>10. CASE Judge \/ UNCHANGED vars
  <2>1. /\ UNCHANGED <<class, outcomes, finalized, unit, usable, lead, rest, batch>>
        /\ phase' = phase \/ (phase = "returned" /\ phase' = "judged")
    BY <1>10 DEF Judge, vars, triageVars, work, record, queue, input
  <2> QED
    BY <2>1 DEF RecordInv, Ended, Classified, Waiting
<1> QED
  BY <1>1, <1>2, <1>4, <1>5, <1>6, <1>7, <1>8, <1>9, <1>10 DEF Next, Progress

LEMMA QuietStep ==
  ASSUME [Next]_vars,
         ~Classify, ~RiskRank, ~Return, \A f \in Files : ~Review(f)
  PROVE  UNCHANGED <<outcomes, runErr, answer, unit, class, blocked>>
BY DEF Next, Progress, TriageReask, TriageFlags, TriageFallback, Enqueue,
   Dispatch, Backoff, Resume, Judge, Cancel, vars, work, record, input

\* A file's state, once recorded, stays recorded.
LEMMA StateKept ==
  ASSUME TypeOK, NEW f \in Files, NEW o \in Outcomes, NEW state,
         outcomes'[f] = outcomes[f] \/ outcomes'[f] = Append(outcomes[f], o)
  PROVE  HasState(f, state) => HasState(f, state)'
<1>1. outcomes[f] \in Seq(Outcomes)
  BY DEF TypeOK
<1>2. CASE outcomes'[f] = outcomes[f]
  BY <1>2 DEF HasState
<1>3. CASE outcomes'[f] = Append(outcomes[f], o)
  BY <1>1, <1>3 DEF HasState
<1> QED
  BY <1>2, <1>3

\* What a step of Review does to the outcome its answer declared.
LEMMA ReviewAnswers ==
  ASSUME TypeOK, UnitInv, NEW g \in Files, Review(g)
  PROVE  /\ \A f \in Files : f # g => answer'[f] = answer[f]
         /\ \/ UNCHANGED answer /\ unit[g] # "verify" /\ unit'[g] = "review"
               /\ UNCHANGED <<outcomes, runErr>>
            \/ UNCHANGED answer /\ unit[g] # "verify" /\ unit'[g] = "settled"
               /\ \E r \in Reasons : RecordFile(g, FileErrored, r)
            \/ (answer'[g] # "none" \/ (unit[g] = "verify" /\ UNCHANGED answer))
               /\ UNCHANGED runErr
               /\ \/ unit'[g] = "verify" /\ UNCHANGED outcomes
                  \/ unit'[g] = "settled" /\ RecordFile(g, FileReviewed, "")
<1> USE DEF record
<1>1. CASE Begin(g) \/ ReaskRunaway(g) \/ ReaskDeadline(g) \/ ReaskUnparsable(g)
  BY <1>1 DEF Begin, ReaskRunaway, ReaskDeadline, ReaskUnparsable, TypeOK
<1>2. CASE BeginCanceled(g) \/ ParseFailure(g)
  BY <1>2, ReasonsType DEF BeginCanceled, ParseFailure, TypeOK
<1>3. CASE GiveUp(g)
  <2>1. PICK e : RecordFile(g, FileErrored, ErrorReason(e))
    BY <1>3 DEF GiveUp
  <2> QED
    BY <1>3, <2>1, ErrorReasonType DEF GiveUp, TypeOK
<1>4. CASE Parsed(g)
  <2>1. PICK o \in {"reviewed", "not_reviewable"}, n \in 0..MaxClaims :
          /\ answer' = [answer EXCEPT ![g] = o]
          /\ IF n = 0
             THEN unit' = [unit EXCEPT ![g] = "settled"] /\ RecordFile(g, FileReviewed, "")
             ELSE unit' = [unit EXCEPT ![g] = "verify"] /\ UNCHANGED outcomes
    BY <1>4 DEF Parsed
  <2>2. UNCHANGED runErr
    BY <1>4 DEF Parsed
  <2>3. answer'[g] # "none" /\ \A f \in Files : f # g => answer'[f] = answer[f]
    BY <2>1 DEF TypeOK
  <2>4. \/ unit'[g] = "verify" /\ UNCHANGED outcomes
        \/ unit'[g] = "settled" /\ RecordFile(g, FileReviewed, "")
    BY <2>1 DEF TypeOK
  <2> QED
    BY <2>2, <2>3, <2>4
<1>5. CASE Verified(g)
  BY <1>5 DEF Verified, TypeOK
<1> QED
  BY <1>1, <1>2, <1>3, <1>4, <1>5 DEF Review

\* What CoverInv says of one file.
CoverOf(f) ==
  /\ HasState(f, FileReviewed) => class[f] = "deleted" \/ answer[f] # "none"
  /\ \A i \in DOMAIN outcomes[f] :
       outcomes[f][i].state = FileSkipped
         /\ IsApprovedSkipReason(outcomes[f][i].reason)
       => class[f] \in {"ignored", "unchanged"}
  /\ unit[f] \in {"idle", "review"} => answer[f] = "none"
  /\ unit[f] = "verify" => answer[f] # "none"
  /\ unit[f] = "settled" /\ answer[f] # "none" => HasState(f, FileReviewed)
  /\ class[f] = "deleted" /\ phase # "classify" => HasState(f, FileReviewed)

LEMMA StatesDiffer == FileReviewed # FileErrored /\ FileReviewed # FileSkipped
                      /\ FileSkipped # FileErrored
BY DEF FileReviewed, FileSkipped, FileErrored

\* A record of one error or of one review keeps what is said of its file.
LEMMA CoverRecorded ==
  ASSUME TypeOK, NEW g \in Files, CoverOf(g), NEW s \in States, NEW r \in Reasons,
         RecordFile(g, s, r), UNCHANGED class, phase = "dispatch", phase' = phase,
         unit'[g] = "settled",
         \/ s = FileErrored /\ unit[g] # "verify" /\ UNCHANGED answer
            /\ answer[g] = "none"
         \/ s = FileReviewed /\ answer'[g] # "none"
  PROVE  CoverOf(g)' /\ HasState(g, s)'
<1> DEFINE o == Outcome(s, r)
<1>1. o \in Outcomes /\ o.state = s /\ outcomes[g] \in Seq(Outcomes)
  BY OutcomeType DEF TypeOK, Outcome
<1>2. outcomes'[g] = Append(outcomes[g], o)
  BY DEF RecordFile, TypeOK
<1>3. HasState(g, s)'
  BY <1>1, <1>2, AppendFacts DEF HasState
<1>4. \A i \in DOMAIN outcomes'[g] :
        \/ outcomes'[g][i] = o
        \/ i \in DOMAIN outcomes[g] /\ outcomes'[g][i] = outcomes[g][i]
  BY <1>1, <1>2, AppendEach
<1>5. s # FileSkipped
  BY StatesDiffer
<1>6. \A i \in DOMAIN outcomes'[g] :
       outcomes'[g][i].state = FileSkipped
         /\ IsApprovedSkipReason(outcomes'[g][i].reason)
       => class[g] \in {"ignored", "unchanged"}
  BY <1>1, <1>4, <1>5 DEF CoverOf
<1>7. s = FileErrored => (HasState(g, FileReviewed)' => HasState(g, FileReviewed))
  BY <1>1, <1>4, StatesDiffer DEF HasState
<1>8. HasState(g, FileReviewed) => HasState(g, FileReviewed)'
  BY <1>1, <1>2, StateKept
<1> QED
  BY <1>3, <1>6, <1>7, <1>8 DEF CoverOf, IsApprovedSkipReason

LEMMA CoverStep == TypeInv /\ QueueInv /\ RecordInv /\ CoverInv /\ [Next]_vars => CoverInv'
<1> SUFFICES ASSUME TypeOK, UnitInv, QueueInv, RecordInv, CoverInv, [Next]_vars
             PROVE  CoverInv'
  BY DEF TypeInv
<1>0. /\ CoverInv <=> (\A f \in Files : CoverOf(f))
                       /\ (runErr => \E f \in Files : HasState(f, FileErrored))
      /\ CoverInv' <=> (\A f \in Files : CoverOf(f)')
                       /\ (runErr' => \E f \in Files : HasState(f, FileErrored)')
  BY DEF CoverInv, CoverOf, HasState
<1>1. CASE Classify
  <2>1. /\ phase = "classify" /\ phase' = "triage"
        /\ outcomes' = [f \in Files |-> Classified(f)]
        /\ UNCHANGED <<class, answer, unit, runErr>>
    BY <1>1 DEF Classify, work, input
  <2>2. \A f \in Files : outcomes[f] = <<>> /\ unit[f] = "idle"
    BY <2>1 DEF RecordInv, QueueInv
  <2>3. ~runErr
    BY <1>0, <2>2 DEF HasState
  <2>4. ASSUME NEW f \in Files PROVE CoverOf(f)'
    <3>1. outcomes'[f] = Classified(f) /\ answer'[f] = "none" /\ unit'[f] = "idle"
          /\ class'[f] = class[f]
      BY <1>0, <2>1, <2>2 DEF CoverOf
    <3>2. CASE class[f] = "deleted"
      <4>1. outcomes'[f] = <<Outcome(FileReviewed, "")>>
        BY <3>1, <3>2 DEF Classified
      <4> DEFINE o == Outcome(FileReviewed, "")
      <4>2. o.state = FileReviewed
        BY DEF Outcome
      <4>3. 1 \in DOMAIN outcomes'[f] /\ outcomes'[f][1] = o
        <5> HIDE DEF o
        <5>1. 1 \in DOMAIN <<o>> /\ <<o>>[1] = o
          OBVIOUS
        <5> QED
          BY <4>1, <5>1 DEF o
      <4>4. \A i \in DOMAIN outcomes'[f] : outcomes'[f][i] = o
        <5> HIDE DEF o
        <5>1. \A i \in DOMAIN <<o>> : <<o>>[i] = o
          OBVIOUS
        <5> QED
          BY <4>1, <5>1 DEF o
      <4> QED
        BY <3>1, <3>2, <4>2, <4>3, <4>4, StatesDiffer DEF CoverOf, HasState
    <3>3. CASE class[f] \in {"ignored", "unchanged"}
      <4>1. \E r : outcomes'[f] = <<Outcome(FileSkipped, r)>>
        BY <3>1, <3>3 DEF Classified
      <4> QED
        BY <3>1, <3>3, <4>1, StatesDiffer DEF CoverOf, HasState, Outcome
    <3>4. CASE class[f] = "missing"
      <4>1. outcomes'[f] = <<Outcome(FileErrored, "missing_post_image")>>
        BY <3>1, <3>4 DEF Classified
      <4> QED
        BY <3>1, <3>4, <4>1, StatesDiffer DEF CoverOf, HasState, Outcome
    <3>5. CASE class[f] \notin {"deleted", "ignored", "unchanged", "missing"}
      <4>1. outcomes'[f] = <<>>
        BY <3>1, <3>5 DEF Classified
      <4> QED
        BY <3>1, <3>5, <4>1 DEF CoverOf, HasState
    <3> QED
      BY <3>2, <3>3, <3>4, <3>5
  <2> QED
    BY <1>0, <2>1, <2>3, <2>4
<1>2. CASE RiskRank
  <2>1. /\ phase = "order" /\ phase' = "dispatch"
        /\ UNCHANGED <<class, answer, unit, runErr>>
    BY <1>2 DEF RiskRank, work, input
  <2> DEFINE cut == Outcome(FileSkipped, "risk_rank_cutoff")
  <2>2. cut \in Outcomes /\ cut.state = FileSkipped /\ ~IsApprovedSkipReason(cut.reason)
    BY OutcomeType, StatesType, ReasonsType
    DEF Outcome, IsApprovedSkipReason, ApprovedSkipReasons
  <2>3. \A f \in Files : outcomes'[f] = outcomes[f] \/ outcomes'[f] = Append(outcomes[f], cut)
    BY <1>2 DEF RiskRank
  <2>4. ASSUME NEW f \in Files
        PROVE  /\ CoverOf(f)'
               /\ HasState(f, FileErrored) => HasState(f, FileErrored)'
    <3>1. outcomes[f] \in Seq(Outcomes) /\ CoverOf(f)
      BY <1>0 DEF TypeOK
    <3>2. \A state : HasState(f, state) => HasState(f, state)'
      BY <2>2, <2>3, StateKept
    <3>3. \A i \in DOMAIN outcomes'[f] :
            \/ outcomes'[f][i] = cut
            \/ i \in DOMAIN outcomes[f] /\ outcomes'[f][i] = outcomes[f][i]
      BY <2>2, <2>3, <3>1, AppendEach
    <3>4. HasState(f, FileReviewed)' => HasState(f, FileReviewed)
      BY <2>2, <3>3, StatesDiffer DEF HasState
    <3>5. \A i \in DOMAIN outcomes'[f] :
            outcomes'[f][i].state = FileSkipped
              /\ IsApprovedSkipReason(outcomes'[f][i].reason)
            => class[f] \in {"ignored", "unchanged"}
      BY <2>2, <3>1, <3>3 DEF CoverOf
    <3> QED
      BY <2>1, <3>1, <3>2, <3>4, <3>5 DEF CoverOf, IsApprovedSkipReason
  <2> QED
    BY <1>0, <2>1, <2>4
<1>3. CASE Return
  <2>1. /\ phase = "dispatch" /\ phase' = "returned"
        /\ outcomes' = [f \in Files |-> FinalizeDefault(f)]
        /\ UNCHANGED <<class, answer, unit, runErr>>
    BY <1>3 DEF Return, work, input
  <2> DEFINE o == Outcome(FileErrored, "canceled")
  <2>2. o \in Outcomes /\ o.state = FileErrored
    BY OutcomeType, StatesType, ReasonsType DEF Outcome
  <2>3. \A f \in Files : outcomes'[f] = outcomes[f] \/ outcomes'[f] = Append(outcomes[f], o)
    BY <2>1 DEF FinalizeDefault
  <2>4. ASSUME NEW f \in Files
        PROVE  /\ CoverOf(f)'
               /\ HasState(f, FileErrored) => HasState(f, FileErrored)'
    <3>1. outcomes[f] \in Seq(Outcomes) /\ CoverOf(f)
      BY <1>0 DEF TypeOK
    <3>2. \A state : HasState(f, state) => HasState(f, state)'
      BY <2>2, <2>3, StateKept
    <3>3. \A i \in DOMAIN outcomes'[f] :
            \/ outcomes'[f][i] = o
            \/ i \in DOMAIN outcomes[f] /\ outcomes'[f][i] = outcomes[f][i]
      BY <2>2, <2>3, <3>1, AppendEach
    <3>4. HasState(f, FileReviewed)' => HasState(f, FileReviewed)
      BY <2>2, <3>3, StatesDiffer DEF HasState
    <3>5. \A i \in DOMAIN outcomes'[f] :
            outcomes'[f][i].state = FileSkipped
              /\ IsApprovedSkipReason(outcomes'[f][i].reason)
            => class[f] \in {"ignored", "unchanged"}
      BY <2>2, <3>1, <3>3, StatesDiffer DEF CoverOf
    <3> QED
      BY <2>1, <3>1, <3>2, <3>4, <3>5 DEF CoverOf, IsApprovedSkipReason
  <2> QED
    BY <1>0, <2>1, <2>4
<1>4. ASSUME NEW g \in Files, Review(g) PROVE CoverInv'
  <2>1. /\ phase = "dispatch" /\ UNCHANGED <<phase, class>> /\ unit[g] # "settled"
        /\ \A f \in Files : f # g => unit'[f] = unit[f]
    BY <1>4, ReviewFrame DEF TypeOK
  <2>2. CoverOf(g)
    BY <1>0
  <2>3. unit[g] # "verify" => answer[g] = "none"
    BY <2>1, <2>2 DEF CoverOf, TypeOK
  <2>4. unit[g] = "verify" => answer[g] # "none"
    BY <2>2 DEF CoverOf
  <2>5. \A f \in Files : f # g => outcomes'[f] = outcomes[f] /\ answer'[f] = answer[f]
    <3>1. UNCHANGED outcomes \/ \E st \in States, r \in Reasons : RecordFile(g, st, r)
      BY <1>4, ReviewRecords
    <3>2. \A f \in Files : f # g => outcomes'[f] = outcomes[f]
      BY <3>1 DEF RecordFile, TypeOK
    <3> QED
      BY <1>4, <3>2, ReviewAnswers
  <2>6. \A f \in Files : f # g => CoverOf(f)'
    BY <1>0, <2>1, <2>5 DEF CoverOf, HasState, IsApprovedSkipReason
  <2>7. CASE /\ UNCHANGED answer /\ unit[g] # "verify" /\ unit'[g] = "review"
             /\ UNCHANGED <<outcomes, runErr>>
    <3>1. CoverOf(g)'
      BY <2>1, <2>2, <2>3, <2>7 DEF CoverOf, HasState, IsApprovedSkipReason
    <3>2. \A f \in Files : HasState(f, FileErrored)' <=> HasState(f, FileErrored)
      BY <2>7 DEF HasState
    <3> QED
      BY <1>0, <2>6, <2>7, <3>1, <3>2
  <2>8. CASE /\ UNCHANGED answer /\ unit[g] # "verify" /\ unit'[g] = "settled"
             /\ \E r \in Reasons : RecordFile(g, FileErrored, r)
    <3>1. PICK r \in Reasons : RecordFile(g, FileErrored, r)
      BY <2>8
    <3>2. CoverOf(g)' /\ HasState(g, FileErrored)'
      BY <2>1, <2>2, <2>3, <2>8, <3>1, StatesType, CoverRecorded
    <3> QED
      BY <1>0, <2>6, <3>2
  <2>9. CASE /\ answer'[g] # "none" \/ (unit[g] = "verify" /\ UNCHANGED answer)
             /\ UNCHANGED runErr
             /\ \/ unit'[g] = "verify" /\ UNCHANGED outcomes
                \/ unit'[g] = "settled" /\ RecordFile(g, FileReviewed, "")
    <3>1. answer'[g] # "none"
      BY <2>4, <2>9
    <3>2. CASE unit'[g] = "verify" /\ UNCHANGED outcomes
      <4>1. CoverOf(g)'
        BY <2>1, <2>2, <3>1, <3>2 DEF CoverOf, HasState, IsApprovedSkipReason
      <4>2. \A f \in Files : HasState(f, FileErrored)' <=> HasState(f, FileErrored)
        BY <3>2 DEF HasState
      <4> QED
        BY <1>0, <2>6, <2>9, <4>1, <4>2
    <3>3. CASE unit'[g] = "settled" /\ RecordFile(g, FileReviewed, "")
      <4>1. CoverOf(g)'
        BY <2>1, <2>2, <3>1, <3>3, StatesType, ReasonsType, CoverRecorded
      <4>2. PICK o \in Outcomes : outcomes'[g] = Append(outcomes[g], o)
        BY <3>3, OutcomeType, StatesType, ReasonsType DEF RecordFile, TypeOK
      <4>3. HasState(g, FileErrored) => HasState(g, FileErrored)'
        BY <4>2, StateKept
      <4>4. \A f \in Files : HasState(f, FileErrored) => HasState(f, FileErrored)'
        BY <2>5, <4>3 DEF HasState
      <4> QED
        BY <1>0, <2>6, <2>9, <4>1, <4>4
    <3> QED
      BY <2>9, <3>2, <3>3
  <2> QED
    BY <1>4, <2>7, <2>8, <2>9, ReviewAnswers
<1>5. CASE ~Classify /\ ~RiskRank /\ ~Return /\ \A f \in Files : ~Review(f)
  <2>1. UNCHANGED <<outcomes, runErr, answer, unit, class>>
    BY <1>5, QuietStep
  <2>2. phase = "classify" => phase' = "classify"
    BY <1>5 DEF Next, Progress, TriageReask, TriageFlags, TriageFallback, Enqueue,
       Dispatch, Backoff, Resume, Judge, Cancel, vars
  <2> QED
    BY <1>0, <2>1, <2>2 DEF CoverOf, HasState, IsApprovedSkipReason
<1> QED
  BY <1>1, <1>2, <1>3, <1>4, <1>5

\* Nothing is recorded and nothing is found once the run has ended.
LEMMA EndedStep ==
  ASSUME TypeInv, QueueInv, [Next]_vars, Ended
  PROVE  UNCHANGED <<outcomes, blocked, class, answer>> /\ Ended'
<1>1. \A f \in Files : ~Review(f)
  BY ReviewFrame DEF TypeInv, Ended
<1>2. ~Classify /\ ~RiskRank /\ ~Return
  BY DEF Ended, Classify, RiskRank, Return
<1>3. UNCHANGED <<outcomes, blocked, class, answer>>
  BY <1>1, <1>2, QuietStep
<1>4. Ended'
  BY <1>1, <1>2 DEF Ended, Next, Progress, TriageReask, TriageFlags, TriageFallback,
     Enqueue, Dispatch, Backoff, Resume, Judge, Cancel, vars
<1> QED
  BY <1>3, <1>4

LEMMA VerdictStep ==
  TypeInv /\ QueueInv /\ VerdictInv /\ [Next]_vars => VerdictInv'
<1> SUFFICES ASSUME TypeInv, QueueInv, VerdictInv, [Next]_vars PROVE VerdictInv'
  OBVIOUS
<1>1. CASE Judge
  <2>1. RunRecord' = RunRecord
    BY <1>1 DEF Judge, work, record, RunRecord
  <2>2. phase' = "judged" /\ verdict' = Decide(RunRecord)
    BY <1>1 DEF Judge
  <2> QED
    BY <2>1, <2>2 DEF VerdictInv
<1>2. CASE phase = "judged" /\ ~Judge
  <2>1. UNCHANGED <<outcomes, blocked>>
    BY <1>2, EndedStep DEF Ended
  <2>2. RunRecord' = RunRecord
    BY <2>1 DEF RunRecord
  <2>3. UNCHANGED <<phase, verdict>>
    <3>1. \A f \in Files : ~Review(f)
      BY <1>2, ReviewFrame DEF TypeInv
    <3> QED
      BY <1>2, <3>1 DEF Next, Progress, Classify, TriageReask, TriageFlags,
         TriageFallback, Enqueue, RiskRank, Dispatch, Backoff, Resume, Return,
         Cancel, vars
  <2> QED
    BY <1>2, <2>2, <2>3 DEF VerdictInv
<1>3. CASE phase # "judged" /\ ~Judge
  <2>1. \A f \in Files : Review(f) => UNCHANGED <<phase, verdict>>
    BY ReviewFrame DEF TypeInv
  <2>2. phase' # "judged" /\ verdict' = verdict
    BY <1>3, <2>1 DEF Next, Progress, Classify, TriageReask, TriageFlags,
       TriageFallback, Enqueue, RiskRank, Dispatch, Backoff, Resume, Return,
       Cancel, vars
  <2> QED
    BY <1>3, <2>2 DEF VerdictInv
<1> QED
  BY <1>1, <1>2, <1>3

LEMMA InitInv == Init => IInv
<1> SUFFICES ASSUME Init PROVE IInv
  OBVIOUS
<1>1. TypeInv
  BY InitType
<1>2. QueueInv
  BY DEF Init, QueueInv, Waiting, BatchDone
<1>3. RecordInv
  BY DEF Init, RecordInv, Waiting, Ended, AtMostOne
<1>4. CoverInv
  BY DEF Init, CoverInv, HasState
<1>5. VerdictInv
  BY DEF Init, VerdictInv
<1> QED
  BY <1>1, <1>2, <1>3, <1>4, <1>5 DEF IInv

LEMMA NextInv == IInv /\ [Next]_vars => IInv'
BY TypeInvStep, QueueStep, RecordStep, CoverStep, VerdictStep DEF IInv

\* The inductive invariant holds of every run.
THEOREM Invariance == Spec => []IInv
BY InitInv, NextInv, PTL DEF Spec

\* TypeOK: every variable of a pass keeps its type.
THEOREM TypeCorrect == Spec => []TypeOK
<1>1. IInv => TypeOK
  BY DEF IInv, TypeInv
<1> QED
  BY <1>1, Invariance, PTL

LEMMA SettledOnceHolds == IInv => SettledOnce
<1> SUFFICES ASSUME IInv, Ended, NEW f \in Files
             PROVE  \/ Len(outcomes[f]) = 1
                    \/ Len(outcomes[f]) = 2 /\ Cut(f) /\ ~usable
  BY DEF SettledOnce
<1>1. outcomes[f] # <<>> /\ outcomes[f] \in Seq(Outcomes) /\ AtMostOne(f)
  BY DEF IInv, RecordInv, TypeInv, TypeOK
<1>2. Len(outcomes[f]) # 0
  BY <1>1
<1> QED
  BY <1>1, <1>2 DEF AtMostOne

\* SettledOnce: when a run ends, no file is without a terminal state and only
\* a file cut by rank with no usable triage has two, for any number of files.
THEOREM OneOutcomeEach == Spec => []SettledOnce
BY Invariance, SettledOnceHolds, PTL

\* A record is at least one outcome, of a known state.
LEMMA FirstOutcome ==
  ASSUME IInv, Ended, NEW f \in Files
  PROVE  1 \in DOMAIN outcomes[f] /\ outcomes[f][1] \in Outcomes
<1>1. outcomes[f] # <<>> /\ outcomes[f] \in Seq(Outcomes)
  BY DEF IInv, RecordInv, TypeInv, TypeOK
<1> QED
  BY <1>1

\* What gate.Decide asks of a record before it lets it pass.
LEMMA PassNeeds ==
  ASSUME NEW r, Decide(r) = "PASS"
  PROVE  /\ ~r.blocks
         /\ InState(r.outcomes, FileErrored) = {}
         /\ InState(r.outcomes, FileSkipped) = ApprovedSkips(r.outcomes)
BY DEF Decide, NotEvaluated

\* A passed record holds reviewed files and approved skips only.
LEMMA PassedStates ==
  ASSUME IInv, verdict = "PASS", NEW f \in Files, NEW i \in DOMAIN outcomes[f]
  PROVE  /\ outcomes[f][i].state # FileErrored
         /\ outcomes[f][i].state = FileSkipped
              => IsApprovedSkipReason(outcomes[f][i].reason)
<1>1. phase = "judged" /\ Decide(RunRecord) = "PASS"
  BY DEF IInv, VerdictInv
<1>2. RunRecord.outcomes = outcomes
  BY DEF RunRecord
<1>3. InState(outcomes, FileErrored) = {} /\ InState(outcomes, FileSkipped) = ApprovedSkips(outcomes)
  BY <1>1, <1>2, PassNeeds
<1>4. outcomes = [g \in Files |-> outcomes[g]]
  BY DEF IInv, TypeInv, TypeOK
<1>5. <<f, i>> \in Recorded(outcomes)
  BY <1>4 DEF Recorded
<1>6. <<f, i>>[1] = f /\ <<f, i>>[2] = i
  OBVIOUS
<1> QED
  BY <1>3, <1>5, <1>6 DEF InState, ApprovedSkips

LEMMA PassIsCoveredHolds == IInv => PassIsCovered
<1> SUFFICES ASSUME IInv, verdict = "PASS"
             PROVE  /\ ~runErr /\ blocked = {}
                    /\ \A f \in Files : class[f] \in {"deleted", "ignored", "unchanged"}
                                        \/ answer[f] # "none"
  BY DEF PassIsCovered
<1>1. Ended /\ Decide(RunRecord) = "PASS"
  BY DEF IInv, VerdictInv, Ended
<1>2. blocked = {}
  <2>1. ~RunRecord.blocks
    BY <1>1, PassNeeds
  <2>2. RunRecord.blocks = (blocked # {})
    BY Zenon DEF RunRecord
  <2> QED
    BY <2>1, <2>2
<1>3. ~runErr
  BY PassedStates DEF IInv, CoverInv, HasState
<1>4. ASSUME NEW f \in Files
      PROVE  class[f] \in {"deleted", "ignored", "unchanged"} \/ answer[f] # "none"
  <2>1. 1 \in DOMAIN outcomes[f] /\ outcomes[f][1].state \in States
    BY <1>1, FirstOutcome DEF Outcomes, Outcome
  <2>2. CASE outcomes[f][1].state = FileReviewed
    BY <2>1, <2>2 DEF IInv, CoverInv, HasState
  <2>3. CASE outcomes[f][1].state = FileSkipped
    BY <2>1, <2>3, PassedStates DEF IInv, CoverInv
  <2>4. CASE outcomes[f][1].state = FileErrored
    BY <2>1, <2>4, PassedStates
  <2> QED
    BY <2>1, <2>2, <2>3, <2>4 DEF States
<1> QED
  BY <1>2, <1>3, <1>4

\* PassIsCovered: the gate fails closed.  A pass means that every file was
\* deleted, skipped for an approved reason or answered for, and nothing blocks.
THEOREM FailsClosed == Spec => []PassIsCovered
BY Invariance, PassIsCoveredHolds, PTL

LEMMA AnswerIsRecordedHolds == IInv => AnswerIsRecorded
<1> SUFFICES ASSUME IInv, Ended, NEW f \in Files
             PROVE  (answer[f] # "none" \/ class[f] = "deleted")
                      <=> HasState(f, FileReviewed)
  BY DEF AnswerIsRecorded, HasState
<1>1. unit[f] \in {"idle", "settled"}
  BY DEF IInv, QueueInv, BatchDone, Ended, TypeInv, TypeOK
<1> QED
  BY <1>1 DEF IInv, CoverInv, Ended

\* AnswerIsRecorded: an answer that parsed is never lost, whatever fails or
\* is canceled after it, and no file is recorded as reviewed without one.
THEOREM AnswersRecorded == Spec => []AnswerIsRecorded
BY Invariance, AnswerIsRecordedHolds, PTL
-----------------------------------------------------------------------------
(* Budgets: what a recorded error says of the budget it names.             *)

\* The condition GivenUpOnlyWhenSpent attaches to a reason.
Justified(f, reason) ==
  /\ reason = "model_error"        => retryLeft["review"] = 0
  /\ reason = "parse_failure"      => left[f].parse = 0
  /\ reason = "deadline_exceeded"  => left[f].deadline = 0
  /\ reason = "runaway_generation" => left[f].runaway = 0 \/ EffortPinned
  /\ reason = "canceled"           => canceled

\* GivenUpOnlyWhenSpent alone is not inductive: a path is finalised as
\* canceled at the end of the run, which is true of it only because every
\* path not canceled has been read, cut or left by then.
SpentInv ==
  /\ GivenUpOnlyWhenSpent
  /\ runErr => canceled
  /\ \A f \in Files : unit[f] = "settled" => f \in finalized
  /\ phase = "dispatch" => Files \subseteq finalized \cup Waiting \cup batch

\* No budget is ever refilled and no cancellation taken back.
LEMMA BudgetsShrink ==
  ASSUME TypeOK, UnitInv, [Next]_vars
  PROVE  /\ \A f \in Files : /\ left'[f].parse <= left[f].parse
                             /\ left'[f].deadline <= left[f].deadline
                             /\ left'[f].runaway <= left[f].runaway
         /\ retryLeft'["review"] <= retryLeft["review"]
         /\ canceled => canceled'
<1>0. /\ \A f \in Files : left[f] \in Budgets
      /\ retryLeft["review"] \in Nat /\ retryLeft \in [Units -> 0..RetryBucket]
  BY DEF TypeOK, Units
<1>1. CASE \E c \in Callers : Backoff(c) \/ Resume(c)
  <2>1. PICK c \in Callers : Backoff(c) \/ Resume(c)
    BY <1>1
  <2>2. retryLeft' = retryLeft \/ \E u : TryRetry(u)
    BY <2>1 DEF Backoff, Resume
  <2>3. retryLeft'["review"] <= retryLeft["review"]
    BY <1>0, <2>2 DEF TryRetry, Units
  <2>4. UNCHANGED <<left, canceled>>
    BY <2>1 DEF Backoff, Resume, work
  <2> QED
    BY <1>0, <2>3, <2>4 DEF Budgets
<1>2. CASE TriageReask
  <2>1. retryLeft'["review"] <= retryLeft["review"]
    BY <1>0, <1>2 DEF TriageReask, TryRetry, Units
  <2> QED
    BY <1>0, <1>2, <2>1 DEF TriageReask, work, Budgets
<1>3. ASSUME NEW g \in Files, Review(g)
      PROVE  /\ \A f \in Files : /\ left'[f].parse <= left[f].parse
                                 /\ left'[f].deadline <= left[f].deadline
                                 /\ left'[f].runaway <= left[f].runaway
             /\ UNCHANGED <<retryLeft, canceled>>
  <2>0. UNCHANGED <<retryLeft, canceled>>
    BY <1>3 DEF Review, Begin, BeginCanceled, ReaskRunaway,
       ReaskDeadline, GiveUp, ReaskUnparsable, ParseFailure, Parsed, Verified
  <2>1. CASE UNCHANGED left
    BY <1>0, <2>0, <2>1 DEF Budgets
  <2>2. CASE ReaskRunaway(g)
    <3>1. left' = [left EXCEPT ![g].runaway = @ - 1]
      BY <2>2 DEF ReaskRunaway
    <3>2. \A f \in Files : f # g => left'[f] = left[f]
      BY <1>0, <3>1 DEF TypeOK
    <3>3. /\ left[g] \in Budgets /\ left \in [Files -> Budgets]
          /\ left'[g] = [left[g] EXCEPT !.runaway = @ - 1]
      BY <1>0, <3>1 DEF TypeOK
    <3>4. /\ left'[g].parse <= left[g].parse /\ left'[g].deadline <= left[g].deadline
          /\ left'[g].runaway <= left[g].runaway
      BY <3>3 DEF Budgets
    <3> QED
      BY <1>0, <2>0, <3>2, <3>4 DEF Budgets
  <2>3. CASE ReaskDeadline(g)
    <3>1. left' = [left EXCEPT ![g].deadline = @ - 1]
      BY <2>3 DEF ReaskDeadline
    <3>2. \A f \in Files : f # g => left'[f] = left[f]
      BY <1>0, <3>1 DEF TypeOK
    <3>3. /\ left[g] \in Budgets /\ left \in [Files -> Budgets]
          /\ left'[g] = [left[g] EXCEPT !.deadline = @ - 1]
      BY <1>0, <3>1 DEF TypeOK
    <3>4. /\ left'[g].parse <= left[g].parse /\ left'[g].deadline <= left[g].deadline
          /\ left'[g].runaway <= left[g].runaway
      BY <3>3 DEF Budgets
    <3> QED
      BY <1>0, <2>0, <3>2, <3>4 DEF Budgets
  <2>4. CASE ReaskUnparsable(g)
    <3>1. left' = [left EXCEPT ![g].parse = @ - 1]
      BY <2>4 DEF ReaskUnparsable
    <3>2. \A f \in Files : f # g => left'[f] = left[f]
      BY <1>0, <3>1 DEF TypeOK
    <3>3. /\ left[g] \in Budgets /\ left \in [Files -> Budgets]
          /\ left'[g] = [left[g] EXCEPT !.parse = @ - 1]
      BY <1>0, <3>1 DEF TypeOK
    <3>4. /\ left'[g].parse <= left[g].parse /\ left'[g].deadline <= left[g].deadline
          /\ left'[g].runaway <= left[g].runaway
      BY <3>3 DEF Budgets
    <3> QED
      BY <1>0, <2>0, <3>2, <3>4 DEF Budgets
  <2> QED
    BY <1>3, <2>1, <2>2, <2>3, <2>4 DEF Review, Begin, BeginCanceled, GiveUp,
       ParseFailure, Parsed, Verified
<1>4. CASE \/ Classify \/ TriageFlags \/ TriageFallback \/ Enqueue \/ RiskRank
           \/ Dispatch \/ Return \/ Judge \/ Cancel \/ UNCHANGED vars
  <2>1. UNCHANGED <<left, retryLeft>> /\ (canceled => canceled')
    BY <1>4 DEF Classify, TriageFlags, TriageFallback, Enqueue, RiskRank,
       Dispatch, Return, Judge, Cancel, vars, work
  <2> QED
    BY <1>0, <2>1 DEF Budgets
<1> QED
  BY <1>0, <1>1, <1>2, <1>3, <1>4 DEF Next, Progress

\* What justifies an error holds for good.
LEMMA JustifiedKept ==
  ASSUME TypeInv, [Next]_vars, NEW f \in Files, NEW reason, Justified(f, reason)
  PROVE  Justified(f, reason)'
<1>1. TypeOK /\ UnitInv /\ TypeOK'
  BY NextType DEF TypeInv
<1>2. /\ left[f] \in Budgets /\ left'[f] \in Budgets
      /\ retryLeft["review"] \in Nat /\ retryLeft'["review"] \in Nat
  BY <1>1 DEF TypeOK, Units
<1> QED
  BY <1>1, <1>2, BudgetsShrink DEF Justified, Budgets

\* The error of a review that is given up names a budget that is spent.
LEMMA GiveUpJustified ==
  ASSUME TypeOK, NEW f \in Files, GiveUp(f)
  PROVE  \E r \in Reasons : RecordFile(f, FileErrored, r) /\ Justified(f, r)
                            /\ (runErr' => runErr \/ canceled)
<1>1. PICK e \in Returns(f, "review") \ {"answer"} :
        ~Recoverable(f, e) /\ RecordFile(f, FileErrored, ErrorReason(e))
  BY DEF GiveUp
<1>2. e \in {"runaway", "deterministic", "deadline", "transient", "canceled"}
      /\ (e = "transient" => retryLeft["review"] = 0 /\ ~canceled)
      /\ (e = "canceled" => canceled)
  BY <1>1 DEF Returns
<1>3. left[f] \in Budgets
  BY DEF TypeOK
<1>4. Justified(f, ErrorReason(e))
  BY <1>1, <1>2, <1>3 DEF Justified, ErrorReason, Recoverable, Budgets
<1> QED
  BY <1>1, <1>4, ErrorReasonType DEF GiveUp

\* What a step of Review records is justified, and stays so.
LEMMA ReviewJustified ==
  ASSUME TypeInv, NEW g \in Files, Review(g)
  PROVE  /\ \/ UNCHANGED <<outcomes, finalized>> /\ unit'[g] # "settled"
            \/ \E s \in States, r \in Reasons : RecordFile(g, s, r) /\ Justified(g, r)
         /\ runErr' => runErr \/ canceled
<1>1. TypeOK /\ UnitInv
  BY DEF TypeInv
<1>2. CASE Begin(g) \/ ReaskRunaway(g) \/ ReaskDeadline(g) \/ ReaskUnparsable(g)
  BY <1>1, <1>2 DEF Begin, ReaskRunaway, ReaskDeadline, ReaskUnparsable, TypeOK, record
<1>3. CASE BeginCanceled(g)
  <2>1. Justified(g, "canceled") /\ RecordFile(g, FileErrored, "canceled")
    BY <1>3 DEF BeginCanceled, Justified
  <2> QED
    BY <1>3, <2>1, StatesType, ReasonsType DEF BeginCanceled
<1>4. CASE GiveUp(g)
  BY <1>1, <1>4, GiveUpJustified, StatesType
<1>5. CASE ParseFailure(g)
  <2>1. Justified(g, "parse_failure") /\ RecordFile(g, FileErrored, "parse_failure")
    BY <1>5 DEF ParseFailure, Justified
  <2> QED
    BY <1>5, <2>1, StatesType, ReasonsType DEF ParseFailure
<1>6. CASE Parsed(g) \/ Verified(g)
  <2>1. Justified(g, "")
    BY DEF Justified
  <2>2. UNCHANGED runErr
    BY <1>6 DEF Parsed, Verified
  <2>3. \/ UNCHANGED <<outcomes, finalized>> /\ unit'[g] # "settled"
        \/ RecordFile(g, FileReviewed, "")
    <3>1. CASE Parsed(g)
      BY <1>1, <3>1 DEF Parsed, TypeOK
    <3>2. CASE Verified(g)
      BY <1>1, <3>2 DEF Verified, TypeOK
    <3> QED
      BY <1>6, <3>1, <3>2
  <2> QED
    BY <2>1, <2>2, <2>3, StatesType, ReasonsType
<1> QED
  BY <1>2, <1>3, <1>4, <1>5, <1>6 DEF Review

\* A file's record gives r as a reason.
Given(f, r) == \E i \in DOMAIN outcomes[f] : outcomes[f][i].reason = r
AllJustified(f) == \A r \in Reasons : Given(f, r) => Justified(f, r)

\* The property, one file at a time.
LEMMA SpentIsJustified ==
  TypeOK => (GivenUpOnlyWhenSpent <=> \A f \in Files : AllJustified(f))
<1> SUFFICES ASSUME TypeOK
             PROVE  GivenUpOnlyWhenSpent <=> \A f \in Files : AllJustified(f)
  OBVIOUS
<1>1. ASSUME NEW f \in Files, NEW i \in DOMAIN outcomes[f]
      PROVE  outcomes[f][i].reason \in Reasons
  <2>1. outcomes[f] \in Seq(Outcomes)
    BY DEF TypeOK
  <2>2. outcomes[f][i] \in Outcomes
    BY <1>1, <2>1
  <2> QED
    BY <2>2 DEF Outcomes, Outcome
<1> QED
  BY <1>1 DEF GivenUpOnlyWhenSpent, AllJustified, Given, Justified

\* An outcome appended for a justified reason keeps a file's record true,
\* and so does no outcome.
LEMMA JustifiedStep ==
  ASSUME TypeInv, [Next]_vars, NEW f \in Files, AllJustified(f),
         \/ outcomes'[f] = outcomes[f]
         \/ \E s \in States, r \in Reasons :
              Justified(f, r) /\ outcomes'[f] = Append(outcomes[f], Outcome(s, r))
  PROVE  AllJustified(f)'
<1> SUFFICES ASSUME NEW q \in Reasons, Given(f, q)' PROVE Justified(f, q)'
  BY DEF AllJustified
<1>1. CASE outcomes'[f] = outcomes[f]
  <2>1. Given(f, q)
    BY <1>1 DEF Given
  <2> QED
    BY <2>1, JustifiedKept DEF AllJustified
<1>2. ASSUME NEW s \in States, NEW r \in Reasons, Justified(f, r),
             outcomes'[f] = Append(outcomes[f], Outcome(s, r))
      PROVE  Justified(f, q)'
  <2> DEFINE o == Outcome(s, r)
  <2>1. o \in Outcomes /\ o.reason = r /\ outcomes[f] \in Seq(Outcomes)
    BY OutcomeType DEF TypeInv, TypeOK, Outcome
  <2>2. q = r \/ Given(f, q)
    BY <1>2, <2>1, AppendEach DEF Given
  <2> QED
    BY <1>2, <2>2, JustifiedKept DEF AllJustified
<1> QED
  BY <1>1, <1>2

\* Every step keeps the errors recorded so far, and its own, justified.
LEMMA SpentStep == IInv /\ SpentInv /\ [Next]_vars => SpentInv'
<1> SUFFICES ASSUME IInv, SpentInv, [Next]_vars PROVE SpentInv'
  OBVIOUS
<1>0. /\ TypeInv /\ TypeOK /\ UnitInv /\ QueueInv /\ RecordInv
      /\ TypeOK' /\ \A f \in Files : AllJustified(f)
  BY NextType, SpentIsJustified DEF IInv, TypeInv, SpentInv
<1>a. ASSUME \A f \in Files :
               \/ outcomes'[f] = outcomes[f]
               \/ \E s \in States, r \in Reasons :
                    Justified(f, r) /\ outcomes'[f] = Append(outcomes[f], Outcome(s, r))
      PROVE  GivenUpOnlyWhenSpent'
  <2>1. \A f \in Files : AllJustified(f)'
    BY <1>0, <1>a, JustifiedStep
  <2>2. (TypeOK => (GivenUpOnlyWhenSpent <=> \A f \in Files : AllJustified(f)))'
    BY SpentIsJustified, PTL
  <2> QED
    BY <1>0, <2>1, <2>2
<1>1. CASE Classify
  <2>1. /\ phase = "classify" /\ phase' = "triage" /\ UNCHANGED <<unit, runErr, canceled, class>>
        /\ outcomes' = [f \in Files |-> Classified(f)]
    BY <1>1 DEF Classify, work, input
  <2>2. \A f \in Files : outcomes[f] = <<>> /\ unit[f] = "idle"
    BY <1>0, <2>1 DEF RecordInv, QueueInv
  <2>3. ASSUME NEW f \in Files
        PROVE  \/ outcomes'[f] = outcomes[f]
               \/ \E s \in States, r \in Reasons :
                    Justified(f, r) /\ outcomes'[f] = Append(outcomes[f], Outcome(s, r))
    <3>1. \A s, r : Append(outcomes[f], Outcome(s, r)) = <<Outcome(s, r)>>
      <4> TAKE s, r
      <4> DEFINE o == Outcome(s, r)
      <4>1. Append(<<>>, o) = <<o>>
        OBVIOUS
      <4> QED
        BY <2>2, <4>1
    <3>2. Justified(f, "") /\ Justified(f, "paths_ignore") /\ Justified(f, "missing_post_image")
          /\ Justified(f, "unchanged_since_review")
      BY DEF Justified
    <3>3. \/ outcomes'[f] = <<>>
          \/ outcomes'[f] = <<Outcome(FileReviewed, "")>>
          \/ outcomes'[f] = <<Outcome(FileSkipped, "paths_ignore")>>
          \/ outcomes'[f] = <<Outcome(FileErrored, "missing_post_image")>>
          \/ outcomes'[f] = <<Outcome(FileSkipped, "unchanged_since_review")>>
      BY <2>1 DEF Classified
    <3> QED
      BY <2>2, <3>1, <3>2, <3>3, StatesType, ReasonsType
  <2>4. GivenUpOnlyWhenSpent'
    BY <1>a, <2>3
  <2> QED
    BY <2>1, <2>2, <2>4 DEF SpentInv
<1>2. CASE TriageReask \/ TriageFlags \/ TriageFallback
  <2>1. UNCHANGED <<unit, outcomes, finalized, runErr, canceled>> /\ phase' # "dispatch"
    BY <1>2 DEF TriageReask, TriageFlags, TriageFallback, work, record
  <2>2. GivenUpOnlyWhenSpent'
    BY <1>a, <2>1
  <2> QED
    BY <2>1, <2>2 DEF SpentInv
<1>3. ASSUME phase = "order", NEW f \in Files, f \notin Reviewable
      PROVE  f \in finalized
  <2>1. class[f] \in FileClasses /\ class[f] # "reviewable" /\ outcomes[f] = Classified(f)
    BY <1>0, <1>3 DEF TypeOK, Reviewable, RecordInv
  <2>2. Classified(f) # <<>>
    BY <2>1 DEF Classified, FileClasses
  <2> QED
    BY <1>0, <2>1, <2>2 DEF RecordInv
<1>4. CASE Enqueue
  <2>1. /\ phase = "order" /\ Waiting' = Reviewable
        /\ UNCHANGED <<unit, outcomes, finalized, runErr, canceled, batch>>
    BY <1>4 DEF Enqueue, Waiting, FlaggedEntries, work, record
  <2>2. GivenUpOnlyWhenSpent'
    BY <1>a, <2>1
  <2> QED
    BY <1>3, <2>1, <2>2 DEF SpentInv
<1>5. CASE RiskRank
  <2>1. PICK K \in Ranked :
          /\ lead' = K
          /\ rest' = Reviewable \ (K \cup flagged)
          /\ outcomes' = [f \in Files |->
               IF f \in FlaggedEntries \ K
               THEN Append(outcomes[f], Outcome(FileSkipped, "risk_rank_cutoff"))
               ELSE outcomes[f]]
          /\ finalized' = finalized \cup (FlaggedEntries \ K)
    BY <1>5 DEF RiskRank
  <2>2. phase = "order" /\ UNCHANGED <<unit, runErr, canceled, batch>>
    BY <1>5 DEF RiskRank, work
  <2>3. \A f \in Files : Justified(f, "risk_rank_cutoff")
    BY DEF Justified
  <2>4. GivenUpOnlyWhenSpent'
    BY <1>a, <2>1, <2>3, StatesType, ReasonsType
  <2>5. \A f \in Reviewable : f \in Waiting' \/ f \in finalized'
    BY <2>1 DEF Waiting, FlaggedEntries
  <2> QED
    BY <1>3, <2>1, <2>2, <2>4, <2>5 DEF SpentInv
<1>6. CASE Dispatch
  <2>1. PICK B \in SUBSET Waiting : batch' = B /\ lead' = lead \ B /\ rest' = rest \ B
    BY <1>6 DEF Dispatch
  <2>2. /\ BatchDone /\ phase = "dispatch"
        /\ UNCHANGED <<unit, outcomes, finalized, runErr, canceled>>
    BY <1>6 DEF Dispatch, work, record
  <2>3. GivenUpOnlyWhenSpent'
    BY <1>a, <2>2
  <2>4. Files \subseteq finalized' \cup Waiting' \cup batch'
    BY <1>0, <2>1, <2>2 DEF SpentInv, BatchDone, Waiting, TypeOK
  <2> QED
    BY <2>2, <2>3, <2>4 DEF SpentInv
<1>7. CASE Cancel \/ (\E c \in Callers : Backoff(c) \/ Resume(c))
  <2>1. /\ UNCHANGED <<phase, unit, outcomes, finalized, runErr, lead, rest, batch>>
        /\ canceled => canceled'
    BY <1>7 DEF Cancel, Backoff, Resume, work, record, queue
  <2>2. GivenUpOnlyWhenSpent'
    BY <1>a, <2>1
  <2> QED
    BY <2>1, <2>2 DEF SpentInv, Waiting
<1>8. ASSUME NEW g \in Files, Review(g) PROVE SpentInv'
  <2>1. /\ phase = "dispatch" /\ UNCHANGED <<phase, lead, rest, batch>>
        /\ unit' = [unit EXCEPT ![g] = unit'[g]]
    BY <1>0, <1>8, ReviewFrame
  <2>2. canceled => canceled'
    BY <1>0, BudgetsShrink
  <2>3. runErr' => canceled'
    BY <1>0, <1>8, <2>2, ReviewJustified DEF SpentInv
  <2>4. CASE UNCHANGED <<outcomes, finalized>> /\ unit'[g] # "settled"
    <3>1. GivenUpOnlyWhenSpent'
      BY <1>a, <2>4
    <3> QED
      BY <1>0, <2>1, <2>3, <2>4, <3>1 DEF SpentInv, Waiting, TypeOK
  <2>5. ASSUME NEW s \in States, NEW r \in Reasons, RecordFile(g, s, r), Justified(g, r)
        PROVE  SpentInv'
    <3>1. /\ finalized' = finalized \cup {g}
          /\ outcomes'[g] = Append(outcomes[g], Outcome(s, r))
          /\ \A f \in Files : f # g => outcomes'[f] = outcomes[f]
      BY <1>0, <2>5 DEF RecordFile, TypeOK
    <3>2. GivenUpOnlyWhenSpent'
      BY <1>a, <2>5, <3>1
    <3> QED
      BY <1>0, <2>1, <2>3, <3>1, <3>2 DEF SpentInv, Waiting, TypeOK
  <2> QED
    BY <1>0, <1>8, <2>4, <2>5, ReviewJustified
<1>9. CASE Return
  <2>1. /\ phase = "dispatch" /\ BatchDone /\ (runErr \/ Waiting = {})
        /\ phase' = "returned" /\ finalized' = Files
        /\ outcomes' = [f \in Files |-> FinalizeDefault(f)]
        /\ UNCHANGED <<unit, runErr, canceled>>
    BY <1>9 DEF Return, work
  <2>2. ASSUME NEW f \in Files, f \notin finalized
        PROVE  Justified(f, "canceled")
    <3>1. canceled
      BY <2>1, <2>2 DEF SpentInv, BatchDone
    <3> QED
      BY <3>1 DEF Justified
  <2>3. GivenUpOnlyWhenSpent'
    BY <1>a, <2>1, <2>2, StatesType, ReasonsType DEF FinalizeDefault
  <2> QED
    BY <1>0, <2>1, <2>3 DEF SpentInv, TypeOK
<1>10. CASE Judge \/ UNCHANGED vars
  <2>1. /\ UNCHANGED <<unit, outcomes, finalized, runErr, canceled, lead, rest, batch>>
        /\ phase' = "dispatch" => phase = "dispatch"
    BY <1>10 DEF Judge, vars, work, record, queue
  <2>2. GivenUpOnlyWhenSpent'
    BY <1>a, <2>1
  <2> QED
    BY <2>1, <2>2 DEF SpentInv, Waiting
<1> QED
  BY <1>1, <1>2, <1>4, <1>5, <1>6, <1>7, <1>8, <1>9, <1>10 DEF Next, Progress

\* Nothing is recorded at first.
LEMMA SpentInit == Init => SpentInv
BY DEF Init, SpentInv, GivenUpOnlyWhenSpent

\* GivenUpOnlyWhenSpent: no file is given up early, for any number of files,
\* workers and retries and however cancellation meets them: each error names
\* a budget that is spent or a condition that holds.
THEOREM NotGivenUpEarly == Spec => []GivenUpOnlyWhenSpent
<1>1. Init => IInv /\ SpentInv
  BY InitInv, SpentInit
<1>2. IInv /\ SpentInv /\ [Next]_vars => IInv' /\ SpentInv'
  BY NextInv, SpentStep
<1>3. SpentInv => GivenUpOnlyWhenSpent
  BY DEF SpentInv
<1> QED
  BY <1>1, <1>2, <1>3, PTL DEF Spec
-----------------------------------------------------------------------------
(* Calls in flight.                                                        *)

\* What CallsInFlight rests on: only the first wave is of one file, a wave
\* is never empty once there has been one, and triage calls in its own phase.
FlightInv ==
  /\ Cardinality(Busy) <= Workers
  /\ primed => batch # {}
  /\ (\A f \in Files : unit[f] # "settled") => Cardinality(batch) <= 1
  /\ phase # "triage" => call[Triage] = "none"

\* Sets of files are finite.
LEMMA FilesFinite ==
  ASSUME NEW S \in SUBSET Files
  PROVE  IsFiniteSet(S) /\ Cardinality(S) \in Nat
BY FS_Subset, FS_CardinalityType

\* The least of two numbers is one of them and no more than either.
LEMMA MinOfTwo ==
  ASSUME NEW a \in Nat, NEW b \in Nat
  PROVE  Min({a, b}) \in {a, b} /\ Min({a, b}) <= a /\ Min({a, b}) <= b
<1>1. \E x \in {a, b} : \A y \in {a, b} : x <= y
  OBVIOUS
<1>2. Min({a, b}) = CHOOSE x \in {a, b} : \A y \in {a, b} : x <= y
  BY DEF Min
<1>3. Min({a, b}) \in {a, b} /\ \A y \in {a, b} : Min({a, b}) <= y
  BY <1>1, <1>2
<1> QED
  BY <1>3

\* A wave is not empty, and the first one is one file.
LEMMA WaveFacts ==
  ASSUME TypeOK, Waiting # {}, NEW B \in SUBSET Waiting, NextWave(B)
  PROVE  B # {} /\ (~primed => Cardinality(B) <= 1)
<1>1. Waiting \subseteq Files /\ B \in SUBSET Files
  BY DEF TypeOK, Waiting
<1>2. Cardinality(Waiting) \in Nat /\ Cardinality(Waiting) # 0 /\ Cardinality(B) \in Nat
  BY <1>1, FilesFinite, FS_EmptySet
<1>3. WaveSize \in Nat /\ WaveSize # 0 /\ (~primed => WaveSize = 1)
  BY DEF WaveSize, TypeOK
<1>4. /\ Cardinality(B) \in {WaveSize, Cardinality(Waiting)}
      /\ Cardinality(B) <= WaveSize
  BY <1>2, <1>3, MinOfTwo DEF NextWave
<1>5. Cardinality({}) = 0
  BY FS_EmptySet
<1> QED
  BY <1>2, <1>3, <1>4, <1>5

\* Every step keeps the calls bounded: a review begins only when a worker is
\* free, and a second wave only when a file of the first has settled.
LEMMA FlightStep == IInv /\ FlightInv /\ [Next]_vars => FlightInv'
<1> SUFFICES ASSUME IInv, FlightInv, [Next]_vars PROVE FlightInv'
  OBVIOUS
<1>0. /\ TypeOK /\ UnitInv /\ QueueInv /\ TypeOK' /\ UnitInv'
      /\ Triage \notin Files /\ Files \subseteq Callers /\ Triage \in Callers
  BY NextInv DEF IInv, TypeInv, Callers
<1>a. Workers \in Nat \ {0} /\ Workers' = Workers
  BY DEF Workers
<1>b. Busy \in SUBSET Files /\ Busy' \in SUBSET Files /\ batch \in SUBSET Files
  BY <1>0 DEF Busy, TypeOK
<1>1. CASE Classify \/ TriageReask \/ TriageFlags \/ TriageFallback
  <2>1. UNCHANGED <<unit, batch, primed>>
    BY <1>1 DEF Classify, TriageReask, TriageFlags, TriageFallback, work, queue
  <2>2. phase' # "triage" => call'[Triage] = "none"
    BY <1>0, <1>1 DEF Classify, TriageReask, TriageFlags, TriageFallback, Hangup, TypeOK
  <2> QED
    BY <1>a, <2>1, <2>2 DEF FlightInv, Busy
<1>2. CASE Enqueue \/ RiskRank \/ Return \/ Judge \/ Cancel \/ UNCHANGED vars
  <2>1. UNCHANGED <<unit, batch, primed, call>> /\ (phase = "triage" => phase' = "triage")
    BY <1>2 DEF Enqueue, RiskRank, Return, Judge, Cancel, work, queue, vars
  <2> QED
    BY <1>a, <2>1 DEF FlightInv, Busy
<1>3. CASE Dispatch
  <2>1. PICK B \in SUBSET Waiting : NextWave(B) /\ batch' = B
    BY <1>3 DEF Dispatch
  <2>2. /\ BatchDone /\ Waiting # {} /\ primed' = TRUE
        /\ UNCHANGED <<unit, call, phase>>
    BY <1>3 DEF Dispatch, work
  <2>3. B # {} /\ (~primed => Cardinality(B) <= 1)
    BY <1>0, <2>1, <2>2, WaveFacts
  <2>4. Busy' = {}
    BY <1>0, <2>1, <2>2 DEF Busy, QueueInv, Waiting, TypeOK
  <2>5. Cardinality(Busy') <= Workers
    BY <1>a, <2>4, FS_EmptySet
  <2>6. (\A f \in Files : unit[f] # "settled") => ~primed
    BY <1>b, <2>2 DEF FlightInv, BatchDone
  <2> QED
    BY <1>a, <2>1, <2>2, <2>3, <2>5, <2>6 DEF FlightInv
<1>4. CASE \E c \in Callers : Backoff(c) \/ Resume(c)
  <2>1. PICK c \in Callers : Backoff(c) \/ Resume(c)
    BY <1>4
  <2>2. UNCHANGED <<unit, batch, primed, phase>> /\ call[c] # "none"
    BY <2>1 DEF Backoff, Resume, work, queue
  <2>3. \A d \in Callers : d # c => call'[d] = call[d]
    BY <1>0, <2>1 DEF Backoff, Resume, Ask, TypeOK
  <2>4. phase' # "triage" => call'[Triage] = "none"
    BY <1>0, <2>2, <2>3 DEF FlightInv
  <2> QED
    BY <1>a, <2>2, <2>4 DEF FlightInv, Busy
<1>5. ASSUME NEW g \in Files, Review(g) PROVE FlightInv'
  <2>1. /\ g \in batch /\ phase = "dispatch" /\ UNCHANGED <<phase, batch, primed>>
        /\ unit' = [unit EXCEPT ![g] = unit'[g]]
        /\ unit[g] # "settled" /\ unit'[g] \in {"review", "verify", "settled"}
    BY <1>0, <1>5, ReviewFrame
  <2>2. call'[Triage] = call[Triage]
    BY <1>0, <1>5 DEF Review, Begin, BeginCanceled, ReaskRunaway, ReaskDeadline,
       GiveUp, ReaskUnparsable, ParseFailure, Parsed, Verified, Ask, Hangup, TypeOK
  <2>3. ASSUME unit[g] = "idle" PROVE Cardinality(Busy') <= Workers'
    <3>1. Cardinality(Busy) < Workers
      BY <1>5, <2>3 DEF Review, Begin, BeginCanceled, ReaskRunaway, ReaskDeadline,
         GiveUp, ReaskUnparsable, ParseFailure, Parsed, Verified
    <3>2. Busy' \subseteq Busy \cup {g}
      BY <1>0, <2>1 DEF Busy, TypeOK
    <3>3. Cardinality(Busy \cup {g}) <= Cardinality(Busy) + 1
          /\ IsFiniteSet(Busy \cup {g}) /\ Cardinality(Busy) \in Nat
          /\ Cardinality(Busy \cup {g}) \in Nat
      BY <1>b, FilesFinite, FS_AddElement, FS_CardinalityType
    <3>4. Cardinality(Busy') <= Cardinality(Busy \cup {g})
      BY <3>2, <3>3, FS_Subset
    <3> QED
      BY <1>a, <1>b, <3>1, <3>3, <3>4, FilesFinite
  <2>4. ASSUME unit[g] # "idle" PROVE Cardinality(Busy') <= Workers'
    <3>1. unit[g] \in {"review", "verify"}
      BY <1>0, <2>1, <2>4 DEF TypeOK
    <3>2. Busy' \subseteq Busy
      BY <1>0, <2>1, <3>1 DEF Busy, TypeOK
    <3>3. Cardinality(Busy') <= Cardinality(Busy)
      BY <1>b, <3>2, FilesFinite, FS_Subset
    <3> QED
      BY <1>a, <1>b, <3>3, FilesFinite DEF FlightInv
  <2>5. (\A f \in Files : unit'[f] # "settled") => (\A f \in Files : unit[f] # "settled")
    BY <1>0, <2>1 DEF TypeOK
  <2>6. Cardinality(Busy)' <= Workers'
    BY <2>3, <2>4
  <2> QED
    BY <2>1, <2>2, <2>5, <2>6 DEF FlightInv
<1> QED
  BY <1>1, <1>2, <1>3, <1>4, <1>5 DEF Next, Progress

\* No call is open at first.
LEMMA FlightInit == Init => FlightInv
<1> SUFFICES ASSUME Init PROVE FlightInv
  OBVIOUS
<1>1. Busy = {} /\ batch = {} /\ ~primed
  BY DEF Init, Busy
<1>2. Cardinality({}) = 0 /\ Workers \in Nat
  BY FS_EmptySet DEF Workers
<1>3. call[Triage] = "none"
  BY DEF Init, Callers
<1> QED
  BY <1>1, <1>2, <1>3 DEF FlightInv

\* The files with an open call are those under review or verification.
LEMMA CallsInFlightHolds == IInv /\ FlightInv => CallsInFlight
<1> SUFFICES ASSUME IInv, FlightInv PROVE CallsInFlight
  OBVIOUS
<1> DEFINE inFlight == {f \in Files : call[f] # "none"}
           settled  == {f \in Files : unit[f] = "settled"}
<1>0. TypeOK /\ UnitInv /\ QueueInv
  BY DEF IInv, TypeInv
<1>1. inFlight = Busy /\ {f \in Files : unit[f] \in {"review", "verify"}} = Busy
  BY <1>0 DEF UnitInv, QueueInv, Busy, TypeOK
<1>2. inFlight \subseteq batch /\ batch \in SUBSET Files
  BY <1>0, <1>1 DEF Busy, TypeOK
<1>3. Cardinality(inFlight) > 1 => settled # {}
  <2>1. Cardinality(Busy) \in Nat /\ Cardinality(Busy) <= Cardinality(batch)
        /\ Cardinality(batch) \in Nat
    BY <1>1, <1>2, FilesFinite, FS_Subset
  <2>2. CASE settled = {}
    <3>1. Cardinality(batch) <= 1
      BY <2>2 DEF FlightInv
    <3> QED
      BY <1>1, <2>1, <3>1
  <2> QED
    BY <2>2
<1>4. call[Triage] # "none" => inFlight = {}
  BY <1>0, <1>1 DEF FlightInv, QueueInv, Busy
<1> QED
  BY <1>1, <1>2, <1>3, <1>4 DEF CallsInFlight, FlightInv

\* CallsInFlight: whatever the batch size, the concurrency and the retries,
\* no more calls are open than there are workers, the first file is read
\* alone, and triage and reviews never overlap.
THEOREM BoundedConcurrency == Spec => []CallsInFlight
<1>1. Init => IInv /\ FlightInv
  BY InitInv, FlightInit
<1>2. IInv /\ FlightInv /\ [Next]_vars => IInv' /\ FlightInv'
  BY NextInv, FlightStep
<1>3. IInv /\ FlightInv => CallsInFlight
  BY CallsInFlightHolds
<1> QED
  BY <1>1, <1>2, <1>3, PTL DEF Spec
-----------------------------------------------------------------------------
(* Calls and the purses they are paid from.                                *)

\* The files of a unit that wait to ask again, and those begun.
Asleep(u) == {f \in Files : unit[f] = u /\ call[f] = "backoff"}
Started   == {f \in Files : unit[f] # "idle"}

\* How many verifications a file may still ask for without a retry.
Owed(f) ==
  IF unit[f] = "review" THEN MaxClaims
  ELSE IF unit[f] = "verify" THEN claims[f] - 1 ELSE 0

\* CallsAccounted with, for the purses it bounds, what is still in them: the
\* retry a sleeping caller has drawn and not yet used, and the verifications
\* the answers already given still owe.
AccountInv ==
  /\ issued["first"] <= Cardinality(Started)
  /\ issued["reask"] = MapThenSumSet(Spent, Files)
  /\ issued["retry"] + Cardinality(Asleep("review")) <= RetryBucket - retryLeft["review"]
  /\ ~canceled =>
       issued["retry"] + Cardinality(Asleep("review")) = RetryBucket - retryLeft["review"]
  /\ issued["triage"] + retryLeft["triage"] + (IF call[Triage] = "backoff" THEN 1 ELSE 0)
       <= RetryBucket + (IF phase = "classify" THEN 0 ELSE 1)
  /\ issued["verify"] + retryLeft["verify"] + Cardinality(Asleep("verify"))
       + MapThenSumSet(Owed, Files)
       <= issued["first"] * MaxClaims + RetryBucket

\* The sum over the files' spent budgets, as the sum of a function.
LEMMA SpentSum ==
  MapThenSumSet(Spent, Files)
    = SumOf([f \in Files |-> Spent(f)], Files)
<1> DEFINE s == [f \in Files |-> Spent(f)]
           A(it) == [T \in SUBSET Files |-> IF T = {} THEN 0
                       ELSE Spent(CHOOSE x \in T : TRUE) + it[T \ {CHOOSE x \in T : TRUE}]]
           B(it) == [T \in SUBSET Files |-> IF T = {} THEN 0
                       ELSE s[CHOOSE x \in T : TRUE] + it[T \ {CHOOSE x \in T : TRUE}]]
<1>1. /\ MapThenSumSet(Spent, Files) = (CHOOSE it : it = A(it))[Files]
      /\ SumOf([f \in Files |-> Spent(f)], Files)
           = (CHOOSE it : it = B(it))[Files]
  BY DEF SumOf, MapThenSumSet, MapThenFoldSet
<1>2. \A it : A(it) = B(it)
  OBVIOUS
<1>3. (CHOOSE it : it = A(it)) = (CHOOSE it : it = B(it))
  <2> HIDE DEF A, B
  <2> QED
    BY Zenon, <1>2
<1> QED
  BY <1>1, <1>3

\* The same sum after a step.
LEMMA SpentSumNext ==
  MapThenSumSet(Spent, Files)'
    = SumOf([f \in Files |-> Spent(f)'], Files)
<1> DEFINE s == [f \in Files |-> Spent(f)']
           A(it) == [T \in SUBSET Files |-> IF T = {} THEN 0
                       ELSE Spent(CHOOSE x \in T : TRUE)' + it[T \ {CHOOSE x \in T : TRUE}]]
           B(it) == [T \in SUBSET Files |-> IF T = {} THEN 0
                       ELSE s[CHOOSE x \in T : TRUE] + it[T \ {CHOOSE x \in T : TRUE}]]
<1>1. /\ MapThenSumSet(Spent, Files)' = (CHOOSE it : it = A(it))[Files]
      /\ SumOf([f \in Files |-> Spent(f)'], Files)
           = (CHOOSE it : it = B(it))[Files]
  BY DEF SumOf, MapThenSumSet, MapThenFoldSet
<1>2. \A it : A(it) = B(it)
  OBVIOUS
<1>3. (CHOOSE it : it = A(it)) = (CHOOSE it : it = B(it))
  <2> HIDE DEF A, B
  <2> QED
    BY Zenon, <1>2
<1> QED
  BY <1>1, <1>3

\* The other sum.
LEMMA OwedSum ==
  MapThenSumSet(Owed, Files)
    = SumOf([f \in Files |-> Owed(f)], Files)
<1> DEFINE s == [f \in Files |-> Owed(f)]
           A(it) == [T \in SUBSET Files |-> IF T = {} THEN 0
                       ELSE Owed(CHOOSE x \in T : TRUE) + it[T \ {CHOOSE x \in T : TRUE}]]
           B(it) == [T \in SUBSET Files |-> IF T = {} THEN 0
                       ELSE s[CHOOSE x \in T : TRUE] + it[T \ {CHOOSE x \in T : TRUE}]]
<1>1. /\ MapThenSumSet(Owed, Files) = (CHOOSE it : it = A(it))[Files]
      /\ SumOf([f \in Files |-> Owed(f)], Files)
           = (CHOOSE it : it = B(it))[Files]
  BY DEF SumOf, MapThenSumSet, MapThenFoldSet
<1>2. \A it : A(it) = B(it)
  OBVIOUS
<1>3. (CHOOSE it : it = A(it)) = (CHOOSE it : it = B(it))
  <2> HIDE DEF A, B
  <2> QED
    BY Zenon, <1>2
<1> QED
  BY <1>1, <1>3

\* And after a step.
LEMMA OwedSumNext ==
  MapThenSumSet(Owed, Files)'
    = SumOf([f \in Files |-> Owed(f)'], Files)
<1> DEFINE s == [f \in Files |-> Owed(f)']
           A(it) == [T \in SUBSET Files |-> IF T = {} THEN 0
                       ELSE Owed(CHOOSE x \in T : TRUE)' + it[T \ {CHOOSE x \in T : TRUE}]]
           B(it) == [T \in SUBSET Files |-> IF T = {} THEN 0
                       ELSE s[CHOOSE x \in T : TRUE] + it[T \ {CHOOSE x \in T : TRUE}]]
<1>1. /\ MapThenSumSet(Owed, Files)' = (CHOOSE it : it = A(it))[Files]
      /\ SumOf([f \in Files |-> Owed(f)'], Files)
           = (CHOOSE it : it = B(it))[Files]
  BY DEF SumOf, MapThenSumSet, MapThenFoldSet
<1>2. \A it : A(it) = B(it)
  OBVIOUS
<1>3. (CHOOSE it : it = A(it)) = (CHOOSE it : it = B(it))
  <2> HIDE DEF A, B
  <2> QED
    BY Zenon, <1>2
<1> QED
  BY <1>1, <1>3

\* What is summed are numbers.
LEMMA AmountsType ==
  TypeInv => \A f \in Files : Spent(f) \in Int /\ Owed(f) \in Nat
<1> SUFFICES ASSUME TypeInv, NEW f \in Files
             PROVE  Spent(f) \in Int /\ Owed(f) \in Nat
  OBVIOUS
<1>1. left[f] \in Budgets /\ claims[f] \in 0..MaxClaims
  BY DEF TypeInv, TypeOK
<1>2. unit[f] = "verify" => claims[f] > 0
  BY DEF TypeInv, UnitInv
<1> QED
  BY <1>1, <1>2 DEF Spent, Owed, Budgets

\* A sum changes by what the file a step is about changes by.
LEMMA SumsStep ==
  ASSUME TypeInv, TypeInv', NEW g \in Files,
         \A f \in Files : f # g => left'[f] = left[f] /\ unit'[f] = unit[f]
                                   /\ claims'[f] = claims[f]
  PROVE  /\ MapThenSumSet(Spent, Files)' = MapThenSumSet(Spent, Files) + (Spent(g)' - Spent(g))
         /\ MapThenSumSet(Owed, Files)' = MapThenSumSet(Owed, Files) + (Owed(g)' - Owed(g))
         /\ MapThenSumSet(Spent, Files) \in Int /\ MapThenSumSet(Owed, Files) \in Int
         /\ Spent(g) \in Int /\ Owed(g) \in Nat /\ Spent(g)' \in Int /\ Owed(g)' \in Nat
<1> DEFINE s == [f \in Files |-> Spent(f)]
           t == [f \in Files |-> Spent(f)']
           w == [f \in Files |-> Owed(f)]
           v == [f \in Files |-> Owed(f)']
<1>1. s \in [Files -> Int] /\ w \in [Files -> Int] /\ Spent(g) \in Int /\ Owed(g) \in Nat
  BY AmountsType
<1>2. (TypeInv => \A f \in Files : Spent(f) \in Int /\ Owed(f) \in Nat)'
  BY AmountsType, PTL
<1>3. t \in [Files -> Int] /\ v \in [Files -> Int] /\ Spent(g)' \in Int /\ Owed(g)' \in Nat
  BY <1>2
<1>4. \A f \in Files : f # g => t[f] = s[f] /\ v[f] = w[f]
  BY DEF Spent, Owed
<1>5. /\ s[g] = Spent(g) /\ t[g] = Spent(g)' /\ w[g] = Owed(g) /\ v[g] = Owed(g)'
      /\ MapThenSumSet(Spent, Files) = SumOf(s, Files)
      /\ MapThenSumSet(Spent, Files)' = SumOf(t, Files)
      /\ MapThenSumSet(Owed, Files) = SumOf(w, Files)
      /\ MapThenSumSet(Owed, Files)' = SumOf(v, Files)
  BY SpentSum, SpentSumNext, OwedSum, OwedSumNext
<1> HIDE DEF s, t, w, v
<1>6. SumOf(t, Files)
        = SumOf(s, Files) + (t[g] - s[g])
  BY <1>1, <1>3, <1>4, SumChanges
<1>7. SumOf(v, Files)
        = SumOf(w, Files) + (v[g] - w[g])
  BY <1>1, <1>3, <1>4, SumChanges
<1>8. /\ SumOf(s, Files) \in Int
      /\ SumOf(w, Files) \in Int
  BY <1>1, SumOfZeros
<1> QED
  BY <1>1, <1>3, <1>5, <1>6, <1>7, <1>8

\* A step of a file's review: what it asks for is what the file's own purse
\* pays, and what its answer owes the verifier is settled one by one.
LEMMA ReviewAccount ==
  ASSUME TypeInv, QueueInv, NEW g \in Files, Review(g)
  PROVE  /\ UNCHANGED <<retryLeft, canceled, phase>>
         /\ \A f \in Files : f # g => /\ left'[f] = left[f] /\ unit'[f] = unit[f]
                                      /\ claims'[f] = claims[f] /\ call'[f] = call[f]
         /\ call'[Triage] = call[Triage]
         /\ call'[g] # "backoff" /\ (~canceled => call[g] # "backoff")
         /\ unit'[g] # "idle" /\ unit[g] # "settled"
         /\ issued'["retry"] = issued["retry"] /\ issued'["triage"] = issued["triage"]
         /\ issued'["first"] = issued["first"]
              + (IF unit[g] = "idle" /\ unit'[g] = "review" THEN 1 ELSE 0)
         /\ issued'["reask"] = issued["reask"] + (Spent(g)' - Spent(g))
         /\ issued'["verify"] + Owed(g)' <= issued["verify"] + Owed(g)
              + (IF unit[g] = "idle" /\ unit'[g] = "review" THEN MaxClaims ELSE 0)
<1>0. /\ TypeOK /\ UnitInv /\ left[g] \in Budgets /\ claims[g] \in 0..MaxClaims
      /\ Triage \notin Files /\ issued \in [Purposes -> Nat]
      /\ MaxClaims \in Nat /\ ParseBudget \in Nat /\ DeadlineBudget \in Nat /\ RunawayBudget \in Nat
      /\ call \in [Callers -> {"none", "open", "doomed", "backoff"}]
      /\ Files \subseteq Callers /\ Triage \in Callers
      /\ unit \in [Files -> {"idle", "review", "verify", "settled"}]
      /\ left \in [Files -> Budgets] /\ claims \in [Files -> 0..MaxClaims]
  BY DEF TypeInv, TypeOK, Callers
<1>a. NewCall # "backoff"
  BY DEF NewCall
<1>b. "answer" \in Returns(g, "review") \/ "runaway" \in Returns(g, "review")
        => call[g] = "open"
  BY DEF Returns
<1>c. "deadline" \in Returns(g, "review") => call[g] # "backoff"
  BY DEF Returns
<1>d. ~canceled /\ (Returns(g, "review") # {} \/ Returns(g, "verify") # {})
        => call[g] # "backoff"
  BY DEF Returns
<1>1. CASE Begin(g)
  <2>1. call[g] = "none"
    BY <1>0, <1>1 DEF Begin, UnitInv
  <2> QED
    BY <1>0, <1>a, <1>1, <2>1 DEF Begin, Ask, Purposes, Spent, Owed, Budgets
<1>2. CASE BeginCanceled(g)
  <2>1. call[g] = "none"
    BY <1>0, <1>2 DEF BeginCanceled, UnitInv
  <2> QED
    BY <1>0, <1>2, <2>1 DEF BeginCanceled, Purposes, Spent, Owed, Budgets
<1>3. CASE ReaskRunaway(g)
  <2>1. /\ left' = [left EXCEPT ![g].runaway = @ - 1] /\ unit[g] = "review"
        /\ UNCHANGED <<retryLeft, canceled, phase, unit, claims>>
        /\ Ask(g, "reask") /\ call[g] = "open"
    BY <1>3, <1>b DEF ReaskRunaway
  <2>2. Spent(g)' - Spent(g) = 1
    BY <1>0, <2>1 DEF Spent, Budgets
  <2> QED
    BY <1>0, <1>a, <2>1, <2>2 DEF Ask, Purposes, Owed
<1>4. CASE ReaskDeadline(g)
  <2>1. /\ left' = [left EXCEPT ![g].deadline = @ - 1] /\ unit[g] = "review"
        /\ UNCHANGED <<retryLeft, canceled, phase, unit, claims>>
        /\ Ask(g, "reask") /\ call[g] # "backoff"
    BY <1>4, <1>c DEF ReaskDeadline
  <2>2. Spent(g)' - Spent(g) = 1
    BY <1>0, <2>1 DEF Spent, Budgets
  <2> QED
    BY <1>0, <1>a, <2>1, <2>2 DEF Ask, Purposes, Owed
<1>5. CASE ReaskUnparsable(g)
  <2>1. /\ left' = [left EXCEPT ![g].parse = @ - 1] /\ unit[g] = "review"
        /\ UNCHANGED <<retryLeft, canceled, phase, unit, claims>>
        /\ Ask(g, "reask") /\ call[g] = "open"
    BY <1>5, <1>b DEF ReaskUnparsable
  <2>2. Spent(g)' - Spent(g) = 1
    BY <1>0, <2>1 DEF Spent, Budgets
  <2> QED
    BY <1>0, <1>a, <2>1, <2>2 DEF Ask, Purposes, Owed
<1>6. CASE GiveUp(g) \/ ParseFailure(g)
  <2>1. /\ unit[g] = "review" /\ unit' = [unit EXCEPT ![g] = "settled"] /\ Hangup(g)
        /\ UNCHANGED <<retryLeft, canceled, phase, left, claims>>
        /\ Returns(g, "review") # {}
    BY <1>6 DEF GiveUp, ParseFailure
  <2> QED
    BY <1>0, <1>d, <2>1 DEF Hangup, Purposes, Owed, Spent, Budgets
<1>7. CASE Parsed(g)
  <2>1. PICK n \in 0..MaxClaims :
          /\ claims' = [claims EXCEPT ![g] = n]
          /\ IF n = 0
             THEN unit' = [unit EXCEPT ![g] = "settled"] /\ Hangup(g)
             ELSE unit' = [unit EXCEPT ![g] = "verify"] /\ Ask(g, "verify")
    BY <1>7 DEF Parsed
  <2>2. /\ unit[g] = "review" /\ UNCHANGED <<retryLeft, canceled, phase, left>>
        /\ call[g] = "open"
    BY <1>7, <1>b DEF Parsed
  <2>3. CASE n = 0
    BY <1>0, <2>1, <2>2, <2>3 DEF Hangup, Purposes, Owed, Spent, Budgets
  <2>4. CASE n # 0
    BY <1>0, <1>a, <2>1, <2>2, <2>4 DEF Ask, Purposes, Owed, Spent, Budgets
  <2> QED
    BY <2>3, <2>4
<1>8. CASE Verified(g)
  <2>1. /\ unit[g] = "verify" /\ UNCHANGED <<retryLeft, canceled, phase, left>>
        /\ claims' = [claims EXCEPT ![g] = @ - 1] /\ claims[g] > 0
        /\ Returns(g, "verify") # {}
    BY <1>0, <1>8 DEF Verified, UnitInv
  <2>2. CASE claims[g] = 1
    <3>1. unit' = [unit EXCEPT ![g] = "settled"] /\ Hangup(g)
      BY <1>8, <2>2 DEF Verified
    <3> QED
      BY <1>0, <1>d, <2>1, <2>2, <3>1 DEF Hangup, Purposes, Owed, Spent, Budgets
  <2>3. CASE claims[g] # 1
    <3>1. UNCHANGED unit /\ Ask(g, "verify")
      BY <1>8, <2>3 DEF Verified
    <3> QED
      BY <1>0, <1>a, <1>d, <2>1, <2>3, <3>1 DEF Ask, Purposes, Owed, Spent, Budgets
  <2> QED
    BY <2>2, <2>3
<1> QED
  BY <1>1, <1>2, <1>3, <1>4, <1>5, <1>6, <1>7, <1>8 DEF Review

\* The sums are over the work alone.
LEMMA SumsKept ==
  ASSUME UNCHANGED <<left, unit, claims>>
  PROVE  /\ MapThenSumSet(Spent, Files)' = MapThenSumSet(Spent, Files)
         /\ MapThenSumSet(Owed, Files)' = MapThenSumSet(Owed, Files)
<1>1. [f \in Files |-> Spent(f)'] = [f \in Files |-> Spent(f)]
  BY DEF Spent
<1>2. [f \in Files |-> Owed(f)'] = [f \in Files |-> Owed(f)]
  BY DEF Owed
<1> QED
  BY <1>1, <1>2, SpentSum, SpentSumNext, OwedSum, OwedSumNext

\* Everything AccountInv adds up is a number.
LEMMA AccountTypes ==
  ASSUME TypeInv
  PROVE  /\ MapThenSumSet(Spent, Files) \in Int /\ MapThenSumSet(Owed, Files) \in Nat
         /\ Cardinality(Started) \in Nat
         /\ \A u : Cardinality(Asleep(u)) \in Nat
         /\ \A p \in Purposes : issued[p] \in Nat
         /\ \A u \in Units : retryLeft[u] \in Nat
         /\ RetryBucket \in Nat /\ MaxClaims \in Nat
<1>1. /\ [f \in Files |-> Spent(f)] \in [Files -> Int]
      /\ [f \in Files |-> Owed(f)] \in [Files -> Nat]
  BY AmountsType
<1>2. MapThenSumSet(Spent, Files) \in Int /\ MapThenSumSet(Owed, Files) \in Nat
  <2> DEFINE s == [f \in Files |-> Spent(f)]
             w == [f \in Files |-> Owed(f)]
  <2>1. s \in [Files -> Int] /\ w \in [Files -> Nat]
    BY <1>1
  <2>2. MapThenSumSet(Spent, Files) = SumOf(s, Files) /\ MapThenSumSet(Owed, Files) = SumOf(w, Files)
    BY SpentSum, OwedSum
  <2> HIDE DEF s, w
  <2>3. SumOf(s, Files) \in Int /\ SumOf(w, Files) \in Nat
    BY <2>1, SumOfZeros, SumOfNaturals
  <2> QED
    BY <2>2, <2>3
<1>3. Started \in SUBSET Files /\ \A u : Asleep(u) \in SUBSET Files
  BY DEF Started, Asleep
<1> QED
  BY <1>2, <1>3, FilesFinite DEF TypeInv, TypeOK

\* AccountInv is kept by the review of a file: its answer turns the
\* verifications it may ask for into the ones it owes, and the others' purses
\* stay closed.
LEMMA AccountReview ==
  ASSUME TypeInv, TypeInv', QueueInv, AccountInv, NEW g \in Files, Review(g)
  PROVE  AccountInv'
<1> DEFINE b == IF unit[g] = "idle" /\ unit'[g] = "review" THEN 1 ELSE 0
<1>1. /\ UNCHANGED <<retryLeft, canceled, phase>>
      /\ \A f \in Files : f # g => /\ left'[f] = left[f] /\ unit'[f] = unit[f]
                                   /\ claims'[f] = claims[f] /\ call'[f] = call[f]
      /\ call'[Triage] = call[Triage]
      /\ call'[g] # "backoff" /\ (~canceled => call[g] # "backoff")
      /\ unit'[g] # "idle" /\ unit[g] # "settled"
      /\ issued'["retry"] = issued["retry"] /\ issued'["triage"] = issued["triage"]
      /\ issued'["first"] = issued["first"] + b
      /\ issued'["reask"] = issued["reask"] + (Spent(g)' - Spent(g))
      /\ issued'["verify"] + Owed(g)' <= issued["verify"] + Owed(g) + b * MaxClaims
  <2>1. b * MaxClaims = IF unit[g] = "idle" /\ unit'[g] = "review" THEN MaxClaims ELSE 0
    OBVIOUS
  <2> QED
    BY <2>1, ReviewAccount
<1>2. /\ MapThenSumSet(Spent, Files)' = MapThenSumSet(Spent, Files) + (Spent(g)' - Spent(g))
      /\ MapThenSumSet(Owed, Files)' = MapThenSumSet(Owed, Files) + (Owed(g)' - Owed(g))
      /\ Spent(g) \in Int /\ Owed(g) \in Nat /\ Spent(g)' \in Int /\ Owed(g)' \in Nat
  BY <1>1, SumsStep
<1>3. /\ MapThenSumSet(Spent, Files) \in Int /\ MapThenSumSet(Owed, Files) \in Nat
      /\ Cardinality(Started) \in Nat
      /\ \A u : Cardinality(Asleep(u)) \in Nat
      /\ \A p \in Purposes : issued[p] \in Nat
      /\ \A u \in Units : retryLeft[u] \in Nat
      /\ RetryBucket \in Nat /\ MaxClaims \in Nat
  BY AccountTypes
<1>4. ASSUME NEW u
      PROVE  /\ Cardinality(Asleep(u)') \in Nat
             /\ Cardinality(Asleep(u)') <= Cardinality(Asleep(u))
             /\ ~canceled => Cardinality(Asleep(u)') = Cardinality(Asleep(u))
  <2>1. Asleep(u)' = Asleep(u) \ {g} /\ Asleep(u) \in SUBSET Files
    BY <1>1 DEF Asleep
  <2>2. ~canceled => Asleep(u)' = Asleep(u)
    BY <1>1, <2>1 DEF Asleep
  <2> QED
    BY <2>1, <2>2, FilesFinite, FS_Subset
<1>5. /\ Cardinality(Started') \in Nat
      /\ Cardinality(Started') >= Cardinality(Started) + b
  <2>1. Started' = Started \cup {g} /\ Started \in SUBSET Files /\ (g \in Started <=> unit[g] # "idle")
    BY <1>1 DEF Started
  <2>2. Cardinality(Started \cup {g})
          = IF g \in Started THEN Cardinality(Started) ELSE Cardinality(Started) + 1
    BY <2>1, FilesFinite, FS_AddElement
  <2> QED
    BY <1>3, <2>1, <2>2
<1>6. issued'["first"] * MaxClaims = issued["first"] * MaxClaims + b * MaxClaims
      /\ issued["first"] * MaxClaims \in Nat /\ b * MaxClaims \in Nat /\ b \in Nat
      /\ issued'["first"] * MaxClaims \in Nat
  <2>1. issued["first"] \in Nat /\ MaxClaims \in Nat
    BY <1>3 DEF Purposes
  <2>2. CASE b = 1
    <3>1. issued["first"] * MaxClaims \in Nat /\ b * MaxClaims = MaxClaims
      BY <2>1, <2>2
    <3>2. (issued["first"] + 1) * MaxClaims = issued["first"] * MaxClaims + MaxClaims
      BY <2>1
    <3> QED
      BY <1>1, <2>1, <2>2, <3>1, <3>2
  <2>3. CASE b = 0
    <3>1. issued["first"] * MaxClaims \in Nat /\ b * MaxClaims = 0 /\ issued'["first"] = issued["first"]
      BY <1>1, <2>1, <2>3
    <3> QED
      BY <2>1, <2>3, <3>1
  <2> QED
    BY <2>2, <2>3
<1> HIDE DEF b
<1>7. /\ \A p \in Purposes : issued'[p] \in Nat
      /\ issued["first"] \in Nat /\ issued["verify"] \in Nat /\ issued["retry"] \in Nat
      /\ issued["reask"] \in Nat /\ issued["triage"] \in Nat
      /\ issued'["first"] \in Nat /\ issued'["verify"] \in Nat /\ issued'["retry"] \in Nat
      /\ issued'["reask"] \in Nat /\ issued'["triage"] \in Nat
      /\ retryLeft["review"] \in Nat /\ retryLeft["verify"] \in Nat /\ retryLeft["triage"] \in Nat
  BY <1>3 DEF TypeInv, TypeOK, Purposes, Units
<1>8. issued'["first"] <= Cardinality(Started')
  BY <1>1, <1>3, <1>5, <1>6, <1>7 DEF AccountInv
<1>9. issued'["reask"] = MapThenSumSet(Spent, Files)'
  BY <1>1, <1>2, <1>3, <1>7 DEF AccountInv
<1>10. /\ issued'["retry"] + Cardinality(Asleep("review")') <= RetryBucket - retryLeft'["review"]
       /\ ~canceled' => issued'["retry"] + Cardinality(Asleep("review")')
                          = RetryBucket - retryLeft'["review"]
  <2>1. /\ Cardinality(Asleep("review")') \in Nat /\ Cardinality(Asleep("review")) \in Nat
        /\ Cardinality(Asleep("review")') <= Cardinality(Asleep("review"))
        /\ ~canceled => Cardinality(Asleep("review")') = Cardinality(Asleep("review"))
    BY <1>3, <1>4
  <2> QED
    BY <1>1, <1>3, <1>7, <2>1 DEF AccountInv
<1>11. issued'["triage"] + retryLeft'["triage"] + (IF call'[Triage] = "backoff" THEN 1 ELSE 0)
         <= RetryBucket + (IF phase' = "classify" THEN 0 ELSE 1)
  BY <1>1 DEF AccountInv
<1>12. issued'["verify"] + retryLeft'["verify"] + Cardinality(Asleep("verify")')
         + MapThenSumSet(Owed, Files)'
       <= issued'["first"] * MaxClaims + RetryBucket
  <2>1. /\ Cardinality(Asleep("verify")') \in Nat /\ Cardinality(Asleep("verify")) \in Nat
        /\ Cardinality(Asleep("verify")') <= Cardinality(Asleep("verify"))
    BY <1>3, <1>4
  <2>2. issued["verify"] + retryLeft["verify"] + Cardinality(Asleep("verify"))
          + MapThenSumSet(Owed, Files) <= issued["first"] * MaxClaims + RetryBucket
    BY DEF AccountInv
  <2>3. retryLeft'["verify"] = retryLeft["verify"]
    BY <1>1
  <2> DEFINE m == issued["first"] * MaxClaims
             n == issued'["first"] * MaxClaims
             k == b * MaxClaims
             w == MapThenSumSet(Owed, Files)
             v == MapThenSumSet(Owed, Files)'
  <2>4. m \in Nat /\ n \in Nat /\ k \in Nat /\ n = m + k /\ w \in Nat
    BY <1>3, <1>6
  <2>5. v = w + (Owed(g)' - Owed(g)) /\ Owed(g) \in Nat /\ Owed(g)' \in Nat
    BY <1>2
  <2>6. issued'["verify"] + Owed(g)' <= issued["verify"] + Owed(g) + k
    BY <1>1
  <2>7. issued["verify"] + retryLeft["verify"] + Cardinality(Asleep("verify")) + w
          <= m + RetryBucket
    BY <2>2
  <2> HIDE DEF m, n, k, w, v
  <2>8. issued'["verify"] + retryLeft["verify"] + Cardinality(Asleep("verify")') + v
          <= n + RetryBucket
    BY <1>3, <1>7, <2>1, <2>4, <2>5, <2>6, <2>7
  <2> QED
    BY <2>3, <2>8 DEF n, v
<1> QED
  BY <1>8, <1>9, <1>10, <1>11, <1>12 DEF AccountInv

\* A caller that goes to sleep has drawn a retry; one that wakes uses it.
LEMMA AccountSleep ==
  ASSUME TypeInv, TypeInv', QueueInv, AccountInv, NEW c \in Callers,
         Backoff(c) \/ Resume(c)
  PROVE  AccountInv'
<1>1. /\ MapThenSumSet(Spent, Files) \in Int /\ MapThenSumSet(Owed, Files) \in Nat
      /\ Cardinality(Started) \in Nat
      /\ \A u : Cardinality(Asleep(u)) \in Nat
      /\ \A p \in Purposes : issued[p] \in Nat
      /\ \A u \in Units : retryLeft[u] \in Nat
      /\ RetryBucket \in Nat /\ MaxClaims \in Nat
  BY AccountTypes
<1>2. /\ issued["first"] \in Nat /\ issued["verify"] \in Nat /\ issued["retry"] \in Nat
      /\ issued["reask"] \in Nat /\ issued["triage"] \in Nat
      /\ retryLeft["review"] \in Nat /\ retryLeft["verify"] \in Nat /\ retryLeft["triage"] \in Nat
      /\ issued \in [Purposes -> Nat] /\ retryLeft \in [Units -> 0..RetryBucket]
      /\ call \in [Callers -> {"none", "open", "doomed", "backoff"}]
      /\ unit \in [Files -> {"idle", "review", "verify", "settled"}]
      /\ Triage \notin Files /\ Files \subseteq Callers /\ Triage \in Callers
      /\ c \in Files \/ c = Triage
  BY <1>1 DEF TypeInv, TypeOK, Purposes, Units, Callers
<1>3. UNCHANGED <<unit, left, claims, canceled, phase>>
  BY DEF Backoff, Resume, work
<1>4. /\ MapThenSumSet(Spent, Files)' = MapThenSumSet(Spent, Files)
      /\ MapThenSumSet(Owed, Files)' = MapThenSumSet(Owed, Files)
      /\ Started' = Started
  BY <1>3, SumsKept DEF Started
<1>5. issued["first"] * MaxClaims \in Nat
  BY <1>1, <1>2
<1>6. CASE c = Triage
  <2>1. \A u : Asleep(u)' = Asleep(u)
    BY <1>2, <1>3, <1>6 DEF Asleep, Backoff, Resume, Ask
  <2>2. CASE Backoff(c)
    <3>1. /\ call[Triage] = "open" /\ call'[Triage] = "backoff"
          /\ retryLeft' = [retryLeft EXCEPT !["triage"] = @ - 1] /\ UNCHANGED issued
      BY <1>2, <1>6, <2>2 DEF Backoff, TryRetry, UnitOf
    <3>2. /\ retryLeft'["triage"] = retryLeft["triage"] - 1
          /\ retryLeft'["review"] = retryLeft["review"]
          /\ retryLeft'["verify"] = retryLeft["verify"]
      BY <1>2, <3>1 DEF Units
    <3> QED
      BY <1>1, <1>2, <1>3, <1>4, <2>1, <3>1, <3>2 DEF AccountInv
  <2>3. CASE Resume(c)
    <3>1. /\ call[Triage] = "backoff" /\ call'[Triage] # "backoff"
          /\ issued' = [issued EXCEPT !["triage"] = @ + 1] /\ UNCHANGED retryLeft
      BY <1>2, <1>6, <2>3 DEF Resume, Ask, UnitOf, NewCall, Triage
    <3>2. /\ issued'["triage"] = issued["triage"] + 1 /\ issued'["first"] = issued["first"]
          /\ issued'["retry"] = issued["retry"] /\ issued'["reask"] = issued["reask"]
          /\ issued'["verify"] = issued["verify"]
      BY <1>2, <3>1 DEF Purposes
    <3> QED
      BY <1>1, <1>2, <1>3, <1>4, <2>1, <3>1, <3>2 DEF AccountInv
  <2> QED
    BY <2>2, <2>3
<1>7. CASE c \in Files
  <2>0. /\ unit[c] \in {"review", "verify"} /\ UnitOf(c) = unit[c]
        /\ call'[Triage] = call[Triage]
    BY <1>2, <1>7 DEF Backoff, Resume, Ask, UnitOf, TypeInv, UnitInv
  <2>1. CASE Backoff(c)
    <3>1. /\ call[c] = "open" /\ call' = [call EXCEPT ![c] = "backoff"]
          /\ retryLeft' = [retryLeft EXCEPT ![unit[c]] = @ - 1] /\ UNCHANGED issued
          /\ ~canceled
      BY <2>0, <2>1 DEF Backoff, TryRetry
    <3>2. ASSUME NEW u
          PROVE  Cardinality(Asleep(u)')
                   = Cardinality(Asleep(u)) + (IF u = unit[c] THEN 1 ELSE 0)
      <4>1. /\ Asleep(u)' = IF u = unit[c] THEN Asleep(u) \cup {c} ELSE Asleep(u)
            /\ c \notin Asleep(u) /\ Asleep(u) \in SUBSET Files
        BY <1>2, <1>3, <1>7, <3>1 DEF Asleep
      <4> QED
        BY <1>1, <4>1, FilesFinite, FS_AddElement
    <3>3. CASE unit[c] = "review"
      <4>1. /\ retryLeft'["review"] = retryLeft["review"] - 1
            /\ retryLeft'["verify"] = retryLeft["verify"]
            /\ retryLeft'["triage"] = retryLeft["triage"]
        BY <1>2, <3>1, <3>3 DEF Units
      <4>2. /\ Cardinality(Asleep("review")') = Cardinality(Asleep("review")) + 1
            /\ Cardinality(Asleep("verify")') = Cardinality(Asleep("verify"))
        BY <1>1, <3>2, <3>3
      <4>3. Cardinality(Asleep("review")) \in Nat
        BY <1>1
      <4> QED
        BY <1>1, <1>2, <1>3, <1>4, <2>0, <3>1, <4>1, <4>2, <4>3 DEF AccountInv
    <3>4. CASE unit[c] = "verify"
      <4>1. /\ retryLeft'["verify"] = retryLeft["verify"] - 1
            /\ retryLeft'["review"] = retryLeft["review"]
            /\ retryLeft'["triage"] = retryLeft["triage"]
        BY <1>2, <3>1, <3>4 DEF Units
      <4>2. /\ Cardinality(Asleep("verify")') = Cardinality(Asleep("verify")) + 1
            /\ Cardinality(Asleep("review")') = Cardinality(Asleep("review"))
        BY <1>1, <3>2, <3>4
      <4>3. Cardinality(Asleep("verify")) \in Nat
        BY <1>1
      <4> QED
        BY <1>1, <1>2, <1>3, <1>4, <1>5, <2>0, <3>1, <4>1, <4>2, <4>3 DEF AccountInv
    <3> QED
      BY <2>0, <3>3, <3>4
  <2>2. CASE Resume(c)
    <3>1. /\ call[c] = "backoff" /\ call' = [call EXCEPT ![c] = NewCall] /\ NewCall # "backoff"
          /\ issued' = [issued EXCEPT ![IF unit[c] = "review" THEN "retry" ELSE unit[c]] = @ + 1]
          /\ UNCHANGED retryLeft
      BY <2>0, <2>2 DEF Resume, Ask, NewCall
    <3>2. ASSUME NEW u
          PROVE  Cardinality(Asleep(u)')
                   = Cardinality(Asleep(u)) - (IF u = unit[c] THEN 1 ELSE 0)
      <4>1. /\ Asleep(u)' = IF u = unit[c] THEN Asleep(u) \ {c} ELSE Asleep(u)
            /\ u = unit[c] => c \in Asleep(u)
            /\ Asleep(u) \in SUBSET Files
        BY <1>2, <1>3, <1>7, <3>1 DEF Asleep
      <4> QED
        BY <1>1, <4>1, FilesFinite, FS_RemoveElement
    <3>3. CASE unit[c] = "review"
      <4>1. /\ issued'["retry"] = issued["retry"] + 1 /\ issued'["first"] = issued["first"]
            /\ issued'["triage"] = issued["triage"] /\ issued'["reask"] = issued["reask"]
            /\ issued'["verify"] = issued["verify"]
        BY <1>2, <3>1, <3>3 DEF Purposes
      <4>2. /\ Cardinality(Asleep("review")') = Cardinality(Asleep("review")) - 1
            /\ Cardinality(Asleep("verify")') = Cardinality(Asleep("verify"))
        BY <1>1, <3>2, <3>3
      <4>3. Cardinality(Asleep("review")) \in Nat
        BY <1>1
      <4> QED
        BY <1>1, <1>2, <1>3, <1>4, <2>0, <3>1, <4>1, <4>2, <4>3 DEF AccountInv
    <3>4. CASE unit[c] = "verify"
      <4>1. /\ issued'["verify"] = issued["verify"] + 1 /\ issued'["first"] = issued["first"]
            /\ issued'["triage"] = issued["triage"] /\ issued'["reask"] = issued["reask"]
            /\ issued'["retry"] = issued["retry"]
        BY <1>2, <3>1, <3>4 DEF Purposes
      <4>2. /\ Cardinality(Asleep("verify")') = Cardinality(Asleep("verify")) - 1
            /\ Cardinality(Asleep("review")') = Cardinality(Asleep("review"))
        BY <1>1, <3>2, <3>4
      <4>3. Cardinality(Asleep("verify")) \in Nat
        BY <1>1
      <4> QED
        BY <1>1, <1>2, <1>3, <1>4, <1>5, <2>0, <3>1, <4>1, <4>2, <4>3 DEF AccountInv
    <3> QED
      BY <2>0, <3>3, <3>4
  <2> QED
    BY <2>1, <2>2
<1> QED
  BY <1>2, <1>6, <1>7

\* Every step keeps the account.
LEMMA AccountStep == IInv /\ AccountInv /\ [Next]_vars => AccountInv'
<1> SUFFICES ASSUME IInv, AccountInv, [Next]_vars PROVE AccountInv'
  OBVIOUS
<1>0. TypeInv /\ QueueInv /\ TypeInv' /\ TypeOK
  BY NextInv DEF IInv, TypeInv
<1>1. /\ MapThenSumSet(Spent, Files) \in Int /\ MapThenSumSet(Owed, Files) \in Nat
      /\ \A p \in Purposes : issued[p] \in Nat
      /\ \A u \in Units : retryLeft[u] \in Nat
      /\ RetryBucket \in Nat
      /\ issued \in [Purposes -> Nat] /\ retryLeft \in [Units -> 0..RetryBucket]
      /\ call \in [Callers -> {"none", "open", "doomed", "backoff"}]
      /\ Triage \notin Files /\ Files \subseteq Callers /\ Triage \in Callers
      /\ issued["triage"] \in Nat /\ retryLeft["triage"] \in Nat
  BY <1>0, AccountTypes DEF TypeOK, Callers, Purposes, Units
<1>2. CASE Classify \/ TriageReask \/ TriageFlags \/ TriageFallback
  <2>1. UNCHANGED <<unit, left, claims, canceled>>
    BY <1>2 DEF Classify, TriageReask, TriageFlags, TriageFallback, work
  <2>2. /\ MapThenSumSet(Spent, Files)' = MapThenSumSet(Spent, Files)
        /\ MapThenSumSet(Owed, Files)' = MapThenSumSet(Owed, Files)
        /\ Started' = Started
    BY <2>1, SumsKept DEF Started
  <2>3. \A f \in Files : call'[f] = call[f]
    BY <1>1, <1>2 DEF Classify, TriageReask, TriageFlags, TriageFallback, Ask, Hangup
  <2>4. \A u : Asleep(u)' = Asleep(u)
    BY <2>1, <2>3 DEF Asleep
  <2>5. /\ issued'["first"] = issued["first"] /\ issued'["reask"] = issued["reask"]
        /\ issued'["retry"] = issued["retry"] /\ issued'["verify"] = issued["verify"]
        /\ retryLeft'["review"] = retryLeft["review"] /\ retryLeft'["verify"] = retryLeft["verify"]
    BY <1>1, <1>2 DEF Classify, TriageReask, TriageFlags, TriageFallback, Ask, Hangup,
       TryRetry, Purposes, Units
  <2>6. issued'["triage"] + retryLeft'["triage"] + (IF call'[Triage] = "backoff" THEN 1 ELSE 0)
          <= RetryBucket + (IF phase' = "classify" THEN 0 ELSE 1)
    <3>0. issued["triage"] + retryLeft["triage"] + (IF call[Triage] = "backoff" THEN 1 ELSE 0)
            <= RetryBucket + (IF phase = "classify" THEN 0 ELSE 1)
      BY DEF AccountInv
    <3>1. CASE Classify
      <4>1. /\ phase = "classify" /\ phase' = "triage" /\ UNCHANGED retryLeft
            /\ call'[Triage] # "backoff" /\ issued'["triage"] = issued["triage"] + 1
        BY <1>1, <3>1 DEF Classify, Ask, NewCall, Purposes
      <4> QED
        BY <1>1, <3>0, <4>1
    <3>2. CASE TriageReask
      <4>1. /\ phase = "triage" /\ phase' = "triage"
            /\ retryLeft'["triage"] = retryLeft["triage"] - 1
            /\ call'[Triage] # "backoff" /\ issued'["triage"] = issued["triage"] + 1
        BY <1>1, <3>2 DEF TriageReask, Ask, NewCall, TryRetry, Purposes, Units
      <4> QED
        BY <1>1, <3>0, <4>1
    <3>3. CASE TriageFlags \/ TriageFallback
      <4>1. /\ phase = "triage" /\ phase' = "order" /\ UNCHANGED <<retryLeft, issued>>
            /\ call'[Triage] = "none"
        BY <1>1, <3>3 DEF TriageFlags, TriageFallback, Hangup
      <4> QED
        BY <1>1, <3>0, <4>1
    <3> QED
      BY <1>2, <3>1, <3>2, <3>3
  <2> QED
    BY <2>1, <2>2, <2>4, <2>5, <2>6 DEF AccountInv
<1>3. CASE \/ Enqueue \/ RiskRank \/ Dispatch \/ Return \/ Judge \/ Cancel \/ UNCHANGED vars
  <2>1. /\ UNCHANGED <<unit, left, claims, call, issued, retryLeft>>
        /\ (canceled => canceled') /\ (phase' = "classify" => phase = "classify")
        /\ (phase = "classify" => phase' = "classify")
    BY <1>3 DEF Enqueue, RiskRank, Dispatch, Return, Judge, Cancel, work, vars
  <2>2. /\ MapThenSumSet(Spent, Files)' = MapThenSumSet(Spent, Files)
        /\ MapThenSumSet(Owed, Files)' = MapThenSumSet(Owed, Files)
        /\ Started' = Started /\ \A u : Asleep(u)' = Asleep(u)
    BY <2>1, SumsKept DEF Started, Asleep
  <2> QED
    BY <2>1, <2>2 DEF AccountInv
<1> QED
  BY <1>0, <1>2, <1>3, AccountSleep, AccountReview DEF Next, Progress

\* The purses are full and nothing has been asked for.
LEMMA AccountInit == Init => AccountInv
<1> SUFFICES ASSUME Init PROVE AccountInv
  OBVIOUS
<1>1. TypeInv
  BY InitType
<1> DEFINE s == [f \in Files |-> Spent(f)]
           w == [f \in Files |-> Owed(f)]
<1>2. /\ s \in [Files -> Int] /\ \A f \in Files : s[f] = 0
      /\ w \in [Files -> Int] /\ \A f \in Files : w[f] = 0
  BY <1>1, AmountsType DEF Init, Spent, Owed
<1>3. MapThenSumSet(Spent, Files) = SumOf(s, Files) /\ MapThenSumSet(Owed, Files) = SumOf(w, Files)
  BY SpentSum, OwedSum
<1>4. MapThenSumSet(Spent, Files) = 0 /\ MapThenSumSet(Owed, Files) = 0
  <2> HIDE DEF s, w
  <2> QED
    BY <1>2, <1>3, SumOfZeros
<1>5. Started = {} /\ Asleep("review") = {} /\ Asleep("verify") = {}
  BY DEF Init, Started, Asleep, Callers
<1>6. Cardinality({}) = 0
  BY FS_EmptySet
<1>7. /\ \A p \in Purposes : issued[p] = 0
      /\ \A u \in Units : retryLeft[u] = RetryBucket
      /\ call[Triage] = "none" /\ phase = "classify" /\ RetryBucket \in Nat /\ MaxClaims \in Nat
  BY DEF Init, Callers
<1>8. /\ issued["first"] = 0 /\ issued["verify"] = 0 /\ issued["retry"] = 0
      /\ issued["reask"] = 0 /\ issued["triage"] = 0
      /\ retryLeft["review"] = RetryBucket /\ retryLeft["verify"] = RetryBucket
      /\ retryLeft["triage"] = RetryBucket
  BY <1>7 DEF Purposes, Units
<1>9. 0 * MaxClaims = 0
  BY <1>7
<1> QED
  BY <1>4, <1>5, <1>6, <1>7, <1>8, <1>9 DEF AccountInv

\* The account bounds the calls, what is still in a purse left out.
LEMMA CallsAccountedHolds == IInv /\ AccountInv => CallsAccounted
<1> SUFFICES ASSUME IInv, AccountInv PROVE CallsAccounted
  OBVIOUS
<1>1. /\ MapThenSumSet(Owed, Files) \in Nat
      /\ Cardinality(Asleep("verify")) \in Nat
      /\ RetryBucket \in Nat /\ MaxClaims \in Nat
      /\ issued["first"] \in Nat /\ issued["verify"] \in Nat /\ issued["triage"] \in Nat
      /\ retryLeft["triage"] \in Nat /\ retryLeft["verify"] \in Nat
  BY AccountTypes DEF IInv, TypeInv, TypeOK, Purposes, Units
<1>2. issued["first"] * MaxClaims \in Nat
  BY <1>1
<1>3. issued["triage"] <= 1 + RetryBucket
  BY <1>1 DEF AccountInv
<1>4. issued["verify"] <= issued["first"] * MaxClaims + RetryBucket
  BY <1>1, <1>2 DEF AccountInv
<1> QED
  BY <1>3, <1>4 DEF AccountInv, CallsAccounted, Asleep, Started

\* CallsAccounted: every call is paid for once and from its own purse, so a
\* run makes at most one triage and one review per file, their re-asks, the
\* retries of three buckets and a verification per claim, whatever fails.
THEOREM CallsPaidFor == Spec => []CallsAccounted
<1>1. Init => IInv /\ AccountInv
  BY InitInv, AccountInit
<1>2. IInv /\ AccountInv /\ [Next]_vars => IInv' /\ AccountInv'
  BY NextInv, AccountStep
<1>3. IInv /\ AccountInv => CallsAccounted
  BY CallsAccountedHolds
<1> QED
  BY <1>1, <1>2, <1>3, PTL DEF Spec
-----------------------------------------------------------------------------
(* The pass implements FileOutcomes.                                       *)

\* The first outcome of a file stays what it is, in every step.
LEMMA FirstKept ==
  ASSUME IInv, [Next]_vars, NEW f \in Files, outcomes[f] # <<>>
  PROVE  outcomes'[f] # <<>> /\ outcomes'[f][1] = outcomes[f][1]
<1>0. TypeOK /\ UnitInv /\ QueueInv /\ RecordInv /\ outcomes[f] \in Seq(Outcomes)
  BY DEF IInv, TypeInv, TypeOK
<1>1. ASSUME NEW o \in Outcomes, outcomes'[f] = Append(outcomes[f], o)
      PROVE  outcomes'[f] # <<>> /\ outcomes'[f][1] = outcomes[f][1]
  <2>1. Len(outcomes[f]) \in Nat \ {0}
    BY <1>0
  <2> QED
    BY <1>0, <1>1, <2>1, AppendFacts
<1>2. CASE Classify
  BY <1>0, <1>2 DEF Classify, RecordInv
<1>3. CASE RiskRank
  <2>1. Outcome(FileSkipped, "risk_rank_cutoff") \in Outcomes
    BY OutcomeType, StatesType, ReasonsType
  <2> QED
    BY <1>1, <1>3, <2>1 DEF RiskRank
<1>4. CASE Return
  BY <1>0, <1>4 DEF Return, FinalizeDefault, RecordInv
<1>5. ASSUME NEW g \in Files, Review(g)
      PROVE  outcomes'[f] # <<>> /\ outcomes'[f][1] = outcomes[f][1]
  <2>1. CASE UNCHANGED outcomes
    BY <2>1
  <2>2. CASE \E s \in States, r \in Reasons : RecordFile(g, s, r)
    <3>1. PICK s \in States, r \in Reasons : RecordFile(g, s, r)
      BY <2>2
    <3>2. Outcome(s, r) \in Outcomes
      BY OutcomeType
    <3>3. f # g => outcomes'[f] = outcomes[f]
      BY <1>0, <3>1 DEF RecordFile, TypeOK
    <3>4. f = g => outcomes'[f] = Append(outcomes[f], Outcome(s, r))
      BY <1>0, <3>1 DEF RecordFile, TypeOK
    <3> QED
      BY <1>1, <3>2, <3>3, <3>4
  <2> QED
    BY <1>0, <1>5, <2>1, <2>2, ReviewRecords
<1>6. CASE ~Classify /\ ~RiskRank /\ ~Return /\ \A g \in Files : ~Review(g)
  BY <1>6, QuietStep
<1> QED
  BY <1>2, <1>3, <1>4, <1>5, <1>6

LEMMA BlockedKept ==
  ASSUME [Next]_vars PROVE blocked \subseteq blocked'
<1>1. \A g \in Files : Review(g) => blocked \subseteq blocked'
  BY DEF Review, Begin, BeginCanceled, ReaskRunaway, ReaskDeadline, GiveUp,
     ReaskUnparsable, ParseFailure, Parsed, Verified
<1> QED
  BY <1>1 DEF Next, Progress, Classify, TriageReask, TriageFlags, TriageFallback,
     Enqueue, RiskRank, Dispatch, Backoff, Resume, Return, Judge, Cancel, vars, work

LEMMA StatusType ==
  ASSUME NEW f PROVE StatusOf(f) \in {"pending", "covered", "uncovered"}
BY DEF StatusOf

\* Each step of the pass settles files, gives the verdict, or is unseen.
LEMMA StepKeepsPromise == IInv /\ [Next]_vars => [Promise!Next]_(Promise!vars)
<1> SUFFICES ASSUME IInv, [Next]_vars PROVE [Promise!Next]_(Promise!vars)
  OBVIOUS
<1> DEFINE status == [f \in Files |-> StatusOf(f)]
           found  == blocked # {}
<1>1. \A f \in Files : status[f] # "pending" => status'[f] = status[f]
  <2> SUFFICES ASSUME NEW f \in Files, StatusOf(f) # "pending"
               PROVE  StatusOf(f)' = StatusOf(f)
    OBVIOUS
  <2>1. outcomes[f] # <<>>
    BY DEF StatusOf
  <2> QED
    BY <2>1, FirstKept DEF StatusOf, IsApprovedSkipReason
<1>2. found => found'
  BY BlockedKept
<1>3. CASE Judge
  <2>1. /\ phase = "returned" /\ verdict' = Decide(RunRecord)
        /\ UNCHANGED <<outcomes, blocked>>
    BY <1>3 DEF Judge, work, record
  <2>2. verdict = "none" /\ Ended
    BY <2>1 DEF IInv, VerdictInv, Ended
  <2>3. \A f \in Files : status[f] # "pending"
    BY <2>2, FirstOutcome DEF StatusOf
  <2>4. status' = status /\ (found <=> found')
    BY <2>1 DEF StatusOf, IsApprovedSkipReason
  <2>5. verdict' \in {"PASS", "FOUND", "COULD_NOT_EVALUATE"}
    BY <2>1 DEF Decide
  <2>6. RunRecord.blocks = (blocked # {})
    BY Zenon DEF RunRecord
  <2>7. verdict' = "FOUND" <=> found
    <3>1. RunRecord.providerFailed = FALSE /\ RunRecord.budgetTripped = FALSE
      BY Zenon DEF RunRecord
    <3> QED
      BY <2>1, <2>6, <3>1 DEF Decide
  <2>8. IInv'
    BY NextInv
  <2>9. verdict' = "PASS" => \A f \in Files : status[f] = "covered"
    <3> SUFFICES ASSUME verdict' = "PASS", NEW f \in Files
                 PROVE  StatusOf(f) = "covered"
      OBVIOUS
    <3>1. RunRecord.outcomes = outcomes
      BY DEF RunRecord
    <3>2. /\ InState(outcomes, FileErrored) = {}
          /\ InState(outcomes, FileSkipped) = ApprovedSkips(outcomes)
      BY <2>1, <3>1, PassNeeds
    <3>3. 1 \in DOMAIN outcomes[f] /\ outcomes[f][1].state \in States /\ outcomes[f] # <<>>
      BY <2>2, FirstOutcome DEF Outcomes, Outcome
    <3>4. <<f, 1>> \in Recorded(outcomes) /\ <<f, 1>>[1] = f /\ <<f, 1>>[2] = 1
      <4>1. outcomes = [g \in Files |-> outcomes[g]]
        BY DEF IInv, TypeInv, TypeOK
      <4> QED
        BY <3>3, <4>1 DEF Recorded
    <3>5. /\ outcomes[f][1].state # FileErrored
          /\ outcomes[f][1].state = FileSkipped
               => IsApprovedSkipReason(outcomes[f][1].reason)
      BY <3>2, <3>4 DEF InState, ApprovedSkips
    <3> QED
      BY <3>3, <3>5 DEF StatusOf, States
  <2>10. verdict' = "PASS" => ~found
    BY <2>1, <2>6, PassNeeds
  <2>11. Promise!Conclude
    BY <2>2, <2>3, <2>4, <2>5, <2>7, <2>9, <2>10 DEF Promise!Conclude
  <2> QED
    BY <2>11 DEF Promise!Next
<1>4. CASE ~Judge
  <2>1. verdict' = verdict
    <3>1. \A f \in Files : Review(f) => UNCHANGED verdict
      BY ReviewFrame DEF IInv, TypeInv
    <3> QED
      BY <1>4, <3>1 DEF Next, Progress, Classify, TriageReask, TriageFlags,
         TriageFallback, Enqueue, RiskRank, Dispatch, Backoff, Resume, Return,
         Cancel, vars
  <2>2. CASE verdict = "none"
    <3>1. status' \in [Files -> {"pending", "covered", "uncovered"}]
      BY DEF StatusOf
    <3>2. Promise!Settle
      BY <1>1, <1>2, <2>1, <2>2, <3>1 DEF Promise!Settle
    <3> QED
      BY <3>2 DEF Promise!Next
  <2>3. CASE verdict # "none"
    <3>1. Ended
      BY <2>3 DEF IInv, VerdictInv, Ended
    <3>2. UNCHANGED <<outcomes, blocked>>
      BY <3>1, EndedStep DEF IInv
    <3>3. status' = status /\ (found <=> found')
      BY <3>2 DEF StatusOf, IsApprovedSkipReason
    <3> QED
      BY <2>1, <3>3 DEF Promise!vars
  <2> QED
    BY <2>2, <2>3
<1> QED
  BY <1>3, <1>4

LEMMA InitKeepsPromise == Init => Promise!Init
BY DEF Init, Promise!Init, StatusOf

\* KeepsPromise: every pass is a behaviour of FileOutcomes - outcomes settle
\* once, and one verdict comes last that passes covered files only.
THEOREM Refinement == Spec => KeepsPromise
<1>1. Init => Promise!Init
  BY InitKeepsPromise
<1>2. IInv /\ [Next]_vars => [Promise!Next]_(Promise!vars)
  BY StepKeepsPromise
<1> QED
  BY <1>1, <1>2, Invariance, PTL DEF Spec, KeepsPromise, Promise!Spec
=============================================================================
