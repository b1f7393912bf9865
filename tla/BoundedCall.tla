---------------------------- MODULE BoundedCall ----------------------------
(***************************************************************************)
(* What the review pass assumes of one completion (ReviewPass, Returns and *)
(* Backoff): a call made in a live run may be answered or fail for a       *)
(* reason, a call made in a dead run can only fail for want of a run, a    *)
(* transient error reaches the caller only when the run-wide bucket has no *)
(* retry left, each wait is paid with one retry, and every call ends.      *)
(***************************************************************************)
EXTENDS Naturals

CONSTANT Bucket   \* retries of the run-wide bucket

VARIABLES state, result, left, canceled
vars == <<state, result, left, canceled>>

NewCall == IF canceled THEN "doomed" ELSE "open"

Init ==
  /\ state = "open" /\ result = "none" /\ left = Bucket /\ canceled = FALSE

Returns(s, bucket, dead) ==
  (IF s = "open" THEN {"answer", "runaway", "deterministic"} ELSE {})
  \cup (IF s \in {"open", "doomed"} THEN {"deadline"} ELSE {})
  \cup (IF s = "open" /\ ~dead /\ bucket = 0 THEN {"transient"} ELSE {})
  \cup (IF dead THEN {"canceled"} ELSE {})

Return ==
  /\ state \in {"open", "doomed", "backoff"}
  /\ \E r \in Returns(state, left, canceled) : result' = r
  /\ state' = "over"
  /\ UNCHANGED <<left, canceled>>

Backoff ==
  /\ state = "open" /\ ~canceled /\ left > 0
  /\ state' = "backoff" /\ left' = left - 1
  /\ UNCHANGED <<result, canceled>>

Resume ==
  /\ state = "backoff"
  /\ state' = NewCall
  /\ UNCHANGED <<result, left, canceled>>

\* Another caller of the same kind draws on the bucket; the run is canceled.
Elsewhere == /\ left > 0 /\ left' = left - 1 /\ UNCHANGED <<state, result, canceled>>
Cancel == ~canceled /\ canceled' = TRUE /\ UNCHANGED <<state, result, left>>

Next == Return \/ Backoff \/ Resume \/ Elsewhere \/ Cancel

Spec == Init /\ [][Next]_vars /\ WF_vars(Return \/ Backoff \/ Resume)
=============================================================================
