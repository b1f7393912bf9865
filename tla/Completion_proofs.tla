------------------------- MODULE Completion_proofs -------------------------
(***************************************************************************)
(* What Completion promises for every chain, cap, bucket and Retry-After:  *)
(* the safety half of IsABoundedCall, that no call gives up before its     *)
(* chain and its bucket are spent, that the chain NewModelClient builds    *)
(* sends no credential where it may not go and asks no leg twice, that a   *)
(* wait is bounded from both sides, and what a call may be granted in all. *)
(* The first invariant follows an error from the reply it was read from to *)
(* the caller: which classes of error there are, which of them a dead      *)
(* context can still produce, and which a chain returns without having     *)
(* asked its last model.  The others are stated where they are used.       *)
(***************************************************************************)
EXTENDS Completion, Induction_proofs, SequenceTheorems, TLAPS

\* Every error Complete returns is of one class: only a typed one is terminal,
\* and a typed one that is not is worth another model.
PassingCodes ==
  {"malformed_response", "rate_limited", "provider_unavailable", "provider_error"}

Classified(e) ==
  /\ e.kind \in {"typed", "unreachable", "unread", "runaway", "overflow",
                 "deadline", "canceled"}
  /\ e.terminal \in BOOLEAN
  /\ e.terminal => e.kind = "typed"
  /\ e.kind = "typed" /\ ~e.terminal => e.code \in PassingCodes

StateInv ==
  /\ phase \in {"ask", "flight", "failed", "settle", "sleep", "done"}
  /\ run \in {"live", "canceled"} /\ ctx \in {"live", "expired", "canceled"}
  /\ left \in Nat /\ doomed \in BOOLEAN
  /\ phase # "sleep" /\ ctx = "canceled" => run = "canceled"
  /\ doomed => run = "canceled" /\ (phase \in {"ask", "flight", "failed", "settle"}
                                     => ctx # "live")

\* The error of a failed request or walk, and what it says of the contexts.
ErrorInv ==
  phase \in {"failed", "settle"} =>
    /\ Classified(err)
    /\ err.kind = "canceled" => run = "canceled"
    /\ doomed => err.kind \in {"deadline", "canceled"}

\* A chain returns early only for an error no other model is asked about.
ChainInv ==
  /\ phase \in {"flight", "failed", "settle"} => asked = CapOf(leg)
  /\ phase = "settle" => ctx # "live" \/ ~FailsOver(err) \/ leg = Len(chain)

Inv == StateInv /\ ErrorInv /\ ChainInv
-----------------------------------------------------------------------------
\* An error that is not typed is not terminal.
LEMMA ErrorFields ==
  ASSUME NEW kind
  PROVE  /\ Error(kind).kind = kind /\ Error(kind).code = ""
         /\ Error(kind).terminal = FALSE
  BY DEF Error

\* A reply that is an error is of one class, and no reply says that the
\* deadline is over or the run canceled.
LEMMA ReplyClass ==
  ASSUME NEW cap, NEW reply \in Failures(Afters) \cup Completions(cap),
         ErrorOf(reply, ToolsMode, cap) # NoError
  PROVE  /\ Classified(ErrorOf(reply, ToolsMode, cap))
         /\ ErrorOf(reply, ToolsMode, cap).kind \notin {"deadline", "canceled", "none"}
<1> DEFINE e == ErrorOf(reply, ToolsMode, cap)
<1>1. CASE reply \in [shape : {"status"}, status : Statuses, after : Afters]
  <2>1. e = Typed(StatusCode(reply.status), Terminal(reply.status), reply.after)
    BY <1>1 DEF ErrorOf
  <2>2. reply.status \in Statuses
    BY <1>1
  <2>3. ~Terminal(reply.status) => StatusCode(reply.status) \in PassingCodes
    BY <2>2 DEF Terminal, StatusCode, Statuses, PassingCodes
  <2>4. Terminal(reply.status) \in BOOLEAN
    BY DEF Terminal
  <2>5. e.kind = "typed" /\ e.terminal = Terminal(reply.status)
        /\ e.code = StatusCode(reply.status)
    BY <2>1 DEF Typed
  <2> QED
    BY <2>3, <2>4, <2>5 DEF Classified
<1>2. CASE reply \in [shape : {"unreachable", "cut", "junk", "hollow", "envelope"}]
  <2>1. e \in {Error("cut"), Error("unread"), Error("unreachable"),
               Typed("malformed_response", FALSE, 0), Typed("provider_error", TRUE, 0)}
    BY <1>2 DEF ErrorOf
  <2>2. /\ e.kind \in {"unread", "unreachable", "typed"} /\ e.terminal \in BOOLEAN
        /\ e.kind # "typed" => ~e.terminal
        /\ e.kind = "typed" => e.code \in PassingCodes
    BY <1>2 DEF ErrorOf, Error, Typed, PassingCodes
  <2> QED
    BY <2>2 DEF Classified
<1>3. CASE reply \in Completions(cap)
  <2>1. e \in {Error("runaway"), Error("overflow")}
    BY <1>3 DEF ErrorOf, Completions
  <2>2. e.kind \in {"runaway", "overflow"} /\ e.terminal = FALSE
    BY <2>1, ErrorFields
  <2> QED
    BY <2>2 DEF Classified
<1> QED
  BY <1>1, <1>2, <1>3 DEF Failures

\* The initial state satisfies the invariant.
LEMMA InitInv == Init => Inv
  BY BucketAssumption DEF Init, Inv, StateInv, ErrorInv, ChainInv

\* Every step of the call, of time and of its neighbours keeps it.
LEMMA NextInv == Inv /\ [Next]_vars => Inv'
<1> SUFFICES ASSUME Inv, [Next]_vars PROVE Inv'
  OBVIOUS
<1> USE DEF Inv, StateInv, ErrorInv, ChainInv, walk
<1>1. CASE Send
  BY <1>1 DEF Send, CapOf
<1>2. CASE Answered
  BY <1>2 DEF Answered
<1>3. CASE Refused
  <2>1. PICK reply \in Failures(Afters) \cup Completions(asked) :
           err' = ErrorOf(reply, ToolsMode, asked)
    BY <1>3 DEF Refused
  <2>2. Classified(err') /\ err'.kind \notin {"deadline", "canceled"}
    BY <1>3, <2>1, ReplyClass DEF Refused
  <2>3. ~doomed'
    BY <1>3 DEF Refused
  <2> QED
    BY <1>3, <2>2, <2>3 DEF Refused, CapOf, Classified
<1>4. CASE HungUp
  BY <1>4 DEF HungUp, Error, Classified, CapOf
<1>5. CASE FallOver
  BY <1>5 DEF FallOver
<1>6. CASE ChainFails
  BY <1>6 DEF ChainFails, CapOf, FailsOver, Deterministic, Classified
<1>7. CASE GiveUp
  BY <1>7 DEF GiveUp
<1>8. CASE Backoff
  BY <1>8 DEF Backoff, TryRetry
<1>9. CASE Wake
  BY <1>9 DEF Wake
<1>10. CASE SleepCut
  BY <1>10 DEF SleepCut
<1>11. CASE Expire
  BY <1>11 DEF Expire, CapOf, Classified
<1>12. CASE Cancel
  BY <1>12 DEF Cancel, CapOf, FailsOver, Deterministic, Classified
<1>13. CASE OthersDraw
  BY <1>13 DEF OthersDraw, CapOf, FailsOver, Deterministic, Classified
<1>14. CASE UNCHANGED vars
  BY <1>14 DEF vars, CapOf, FailsOver, Deterministic, Classified
<1> QED
  BY <1>1, <1>2, <1>3, <1>4, <1>5, <1>6, <1>7, <1>8, <1>9, <1>10, <1>11, <1>12,
     <1>13, <1>14 DEF Next, Progress

\* The invariant holds in every behaviour.
THEOREM CallInvariant == Spec => []Inv
  BY InitInv, NextInv, PTL DEF Spec
\* A call fails for a passing error only when no retry is left and the last
\* model of the chain has been asked, unless its deadline was over first.
LEMMA GiveUpLate == Inv /\ NotGivenUpEarly /\ [Next]_vars => NotGivenUpEarly'
<1> SUFFICES ASSUME Inv, NotGivenUpEarly, [Next]_vars,
                    phase' = "done", err'.kind \in {"typed", "unreachable"},
                    ~err'.terminal
             PROVE  left' = 0 /\ (ctx' = "live" => leg' = Len(chain'))
  BY DEF NotGivenUpEarly
<1> USE DEF Inv, StateInv, ErrorInv, ChainInv, walk, NotGivenUpEarly
<1>1. CASE phase # "done"
  <2>1. CASE GiveUp
    <3>1. run = "live" /\ left = 0 /\ err' = err
      BY <2>1, ErrorFields DEF GiveUp, Unretried, Deterministic
    <3>2. FailsOver(err)
      BY <2>1, <3>1 DEF GiveUp, Classified, FailsOver, Deterministic, PassingCodes
    <3> QED
      BY <2>1, <3>1, <3>2 DEF GiveUp
  <2>2. CASE Answered \/ SleepCut
    BY <2>2, ErrorFields DEF Answered, SleepCut, NoError
  <2> QED
    BY <1>1, <2>1, <2>2 DEF Next, Progress, Send, Refused, HungUp, FallOver, ChainFails,
       Backoff, Wake, Expire, Cancel, OthersDraw, vars
<1>2. CASE phase = "done"
  BY <1>2 DEF Next, Progress, Send, Answered, Refused, HungUp, FallOver, ChainFails,
     GiveUp, Backoff, Wake, SleepCut, Expire, Cancel, OthersDraw, vars
<1> QED
  BY <1>1, <1>2

\* Nothing is given up early, whatever the chain and the bucket
\* (failover.go:72, reviewer.go:582).
THEOREM SpentBeforeFailing == Spec => []NotGivenUpEarly
<1>1. Init => NotGivenUpEarly
  BY DEF Init, NotGivenUpEarly
<1> QED
  BY <1>1, GiveUpLate, CallInvariant, PTL DEF Spec

\* The smaller budget of the earlier legs costs no answer.
LEMMA OverflowStep ==
  Inv /\ OverflowHadTheFullBudget /\ [Next]_vars => OverflowHadTheFullBudget'
<1> SUFFICES ASSUME Inv, OverflowHadTheFullBudget, [Next]_vars,
                    phase' = "done", err'.kind = "overflow", ctx' = "live"
             PROVE  asked' = RequestCap'
  BY DEF OverflowHadTheFullBudget
<1> USE DEF Inv, StateInv, ErrorInv, ChainInv, walk, OverflowHadTheFullBudget
<1>1. CASE phase # "done"
  <2>1. CASE GiveUp
    <3>1. err' = err /\ ctx = "live" /\ asked' = asked
      BY <2>1, ErrorFields DEF GiveUp
    <3>2. leg = Len(chain) /\ asked = CapOf(leg)
      BY <2>1, <3>1 DEF GiveUp, FailsOver, Deterministic
    <3>3. ~(leg < leg) => CapOf(leg) = RequestCap
      BY <3>2 DEF CapOf
    <3> QED
      BY <3>1, <3>2, <3>3
  <2>2. CASE Answered \/ SleepCut
    BY <2>2, ErrorFields DEF Answered, SleepCut, NoError
  <2> QED
    BY <1>1, <2>1, <2>2 DEF Next, Progress, Send, Refused, HungUp, FallOver, ChainFails,
       Backoff, Wake, Expire, Cancel, OthersDraw, vars
<1>2. CASE phase = "done"
  BY <1>2 DEF Next, Progress, Send, Answered, Refused, HungUp, FallOver, ChainFails,
     GiveUp, Backoff, Wake, SleepCut, Expire, Cancel, OthersDraw, vars
<1> QED
  BY <1>1, <1>2

\* A call fails for an overflow only after a leg had the whole budget
\* (failover.go:27-30).
THEOREM FullBudgetBeforeOverflow == Spec => []OverflowHadTheFullBudget
<1>1. Init => OverflowHadTheFullBudget
  BY DEF Init, OverflowHadTheFullBudget
<1> QED
  BY <1>1, OverflowStep, CallInvariant, PTL DEF Spec
-----------------------------------------------------------------------------
(* A completion is a bounded call, liveness apart.                         *)

\* What the caller is given for an error of its class.
LEMMA ResultOfError ==
  ASSUME phase' = "done", Classified(err')
  PROVE  Result' = IF err'.kind = "overflow" \/ err'.terminal THEN "deterministic"
                   ELSE IF err'.kind \in {"runaway", "deadline", "canceled"}
                   THEN err'.kind ELSE "transient"
<1>1. err' # NoError
  BY ErrorFields DEF Classified, NoError
<1> QED
  BY <1>1 DEF Result, Deterministic, Classified

\* The same of an error of the client's own making.
LEMMA ResultOfCancel ==
  ASSUME phase' = "done", err' = Error("canceled") PROVE Result' = "canceled"
<1>1. Classified(err') /\ err'.kind = "canceled" /\ err'.terminal = FALSE
  BY ErrorFields DEF Classified
<1> QED
  BY <1>1, ResultOfError

\* Giving up is a return: the class of the error is one the call may fail
\* with, and only a spent bucket lets a passing error out.
LEMMA GiveUpReturns == Inv /\ GiveUp => Call!Return
<1> SUFFICES ASSUME Inv, GiveUp PROVE Call!Return
  OBVIOUS
<1> USE DEF GiveUp, walk, Inv, StateInv, ErrorInv
<1>1. State \in {"open", "doomed"} /\ (doomed <=> State = "doomed")
      /\ State' = "over" /\ UNCHANGED <<left, run>>
  BY DEF State
<1>2. CASE ~Unretried(err) /\ run # "live" /\ err' = Error("canceled")
  BY <1>1, <1>2, ResultOfCancel DEF Call!Return, Call!Returns
<1>3. CASE Unretried(err) /\ UNCHANGED err
  <2>1. Result' \in {"deterministic", "runaway", "deadline"}
        /\ (doomed => Result' = "deadline")
    BY <1>3, ResultOfError DEF Unretried, Deterministic, Classified
  <2> QED
    BY <1>1, <2>1 DEF Call!Return, Call!Returns
<1>4. CASE ~Unretried(err) /\ run = "live" /\ left = 0 /\ UNCHANGED err
  <2>1. Result' = "transient"
    BY <1>4, ResultOfError DEF Unretried, Deterministic, Classified
  <2>2. State = "open"
    BY <1>1, <1>4
  <2> QED
    BY <1>1, <1>4, <2>1, <2>2 DEF Call!Return, Call!Returns
<1> QED
  BY <1>2, <1>3, <1>4

\* Every step of a completion is a step of a bounded call or none.
LEMMA StepIsCallStep == Inv /\ [Next]_vars => [Call!Next]_(Call!vars)
<1> SUFFICES ASSUME Inv, [Next]_vars PROVE [Call!Next]_(Call!vars)
  OBVIOUS
<1> USE DEF Inv, StateInv, ErrorInv, walk
<1>1. CASE Answered
  <2>1. phase' = "done" /\ err' = NoError /\ ~Deterministic(err')
        /\ err'.kind = "none"
    BY <1>1, ErrorFields DEF Answered, NoError, Deterministic
  <2>3. Result' = "answer"
    BY <2>1 DEF Result
  <2>2. State = "open" /\ State' = "over" /\ UNCHANGED <<left, run>>
    BY <1>1 DEF Answered, State
  <2> QED
    BY <2>2, <2>3 DEF Call!Return, Call!Returns, Call!Next
<1>2. CASE GiveUp
  BY <1>2, GiveUpReturns DEF Call!Next
<1>3. CASE SleepCut
  <2>1. Result' = "canceled"
    BY <1>3, ResultOfCancel DEF SleepCut
  <2>2. State = "backoff" /\ State' = "over" /\ UNCHANGED <<left, run>>
        /\ run # "live"
    BY <1>3 DEF SleepCut, State
  <2> QED
    BY <2>1, <2>2 DEF Call!Return, Call!Returns, Call!Next
<1>4. CASE Backoff
  BY <1>4 DEF Backoff, TryRetry, State, Result, Call!Backoff, Call!Next
<1>5. CASE Wake
  BY <1>5 DEF Wake, State, Result, Call!Resume, Call!NewCall, Call!Next
<1>6. CASE OthersDraw
  BY <1>6 DEF OthersDraw, State, Result, Call!Elsewhere, Call!Next, Deterministic
<1>7. CASE Cancel
  BY <1>7 DEF Cancel, State, Result, Call!Cancel, Call!Next, Deterministic
<1>8. CASE Send \/ Refused \/ HungUp \/ FallOver \/ ChainFails \/ Expire
  BY <1>8 DEF Send, Refused, HungUp, FallOver, ChainFails, Expire, State, Result, Call!vars
<1>9. CASE UNCHANGED vars
  BY <1>9 DEF vars, State, Result, Deterministic, Call!vars
<1> QED
  BY <1>1, <1>2, <1>3, <1>4, <1>5, <1>6, <1>7, <1>8, <1>9 DEF Next, Progress

\* Whatever the chain and the replies, a completion returns only what the review
\* pass expects of it, when it may, and pays each wait with one retry of the
\* bucket: the safety half of IsABoundedCall (reviewer.go:538-605).
THEOREM CompletionIsBounded == Spec => Call!Init /\ [][Call!Next]_(Call!vars)
<1>1. Init => Call!Init
  BY DEF Init, Call!Init, State, Result
<1> QED
  BY <1>1, StepIsCallStep, CallInvariant, PTL DEF Spec
-----------------------------------------------------------------------------
(* The chain.                                                              *)

\* The chains of legs of L in which none repeats another's endpoint and model.
Distinct(L) ==
  {c \in Seq(L) :
     /\ c # <<>>
     /\ \A i \in DOMAIN c : \A j \in 1..(i - 1) :
          <<c[j].base, c[j].model>> # <<c[i].base, c[i].model>>}

\* Adding a leg keeps the legs distinct.
LEMMA AddLegKeeps ==
  ASSUME NEW L, NEW c \in Distinct(L), NEW leg0 \in L
  PROVE  AddLeg(c, leg0) \in Distinct(L)
<1>1. CASE AddLeg(c, leg0) = c
  BY <1>1
<1>2. CASE AddLeg(c, leg0) # c
  <2> DEFINE d == Append(c, leg0)
  <2>1. /\ AddLeg(c, leg0) = d
        /\ \A i \in DOMAIN c : ~(c[i].base = leg0.base /\ c[i].model = leg0.model)
    BY <1>2 DEF AddLeg
  <2>2. c \in Seq(L) /\ Len(c) \in Nat /\ DOMAIN c = 1..Len(c)
    BY DEF Distinct
  <2>3. /\ d \in Seq(L) /\ d # <<>> /\ DOMAIN d = 1..(Len(c) + 1)
        /\ d[Len(c) + 1] = leg0 /\ \A i \in 1..Len(c) : d[i] = c[i]
    BY <2>2
  <2> HIDE DEF d
  <2>4. ASSUME NEW i \in DOMAIN d, NEW j \in 1..(i - 1)
        PROVE  <<d[j].base, d[j].model>> # <<d[i].base, d[i].model>>
    <3>1. j \in 1..Len(c) /\ d[j] = c[j]
      BY <2>2, <2>3
    <3>2. CASE i = Len(c) + 1
      BY <2>1, <2>2, <2>3, <3>1, <3>2
    <3>3. CASE i # Len(c) + 1
      <4>1. i \in DOMAIN c /\ d[i] = c[i]
        BY <2>2, <2>3, <3>3
      <4> QED
        BY <3>1, <4>1 DEF Distinct
    <3> QED
      BY <3>2, <3>3
  <2> QED
    BY <2>1, <2>3, <2>4 DEF Distinct
<1> QED
  BY <1>1, <1>2

\* So does adding one leg after the other.
LEMMA AddLegsKeep ==
  ASSUME NEW L, NEW c \in Distinct(L), NEW s \in Seq(L)
  PROVE  FoldLeft(AddLeg, c, s) \in Distinct(L)
<1> DEFINE n == Len(s)
           C == Distinct(L)
           h == [e \in (1..n) \X C |-> AddLeg(e[2], s[e[1]])]
           Walk(it) == [T \in SUBSET DOMAIN s |->
                          IF T = {} THEN c ELSE AddLeg(it[T \ {Max(T)}], s[Max(T)])]
           it == CHOOSE it : it = Walk(it)
<1>1. n \in Nat /\ DOMAIN s = 1..n /\ \A i \in 1..n : s[i] \in L
  OBVIOUS
<1>2. FoldLeft(AddLeg, c, s) = it[DOMAIN s]
  BY DEF FoldLeft, MapThenFoldSet
<1>3. h \in [(1..n) \X C -> C]
  <2>1. \A e \in (1..n) \X C : AddLeg(e[2], s[e[1]]) \in C
    <3> HIDE DEF C
    <3> SUFFICES ASSUME NEW i \in 1..n, NEW d \in C PROVE AddLeg(d, s[i]) \in C
      OBVIOUS
    <3> QED
      BY <1>1, AddLegKeeps DEF C
  <2> QED
    BY <2>1
<1>4. PICK g \in [SUBSET (1..n) -> C] : \A T \in SUBSET (1..n) :
        g[T] = IF T = {} THEN c ELSE h[<<Max(T), g[T \ {Max(T)}]>>]
  <2>1. c \in C
    OBVIOUS
  <2> HIDE DEF h, C, n
  <2>2. Walks(n, C, c, h) # {}
    BY <1>1, <1>3, <2>1, WalkExists
  <2> QED
    BY <2>2 DEF Walks
<1>5. g = Walk(g)
  <2>1. ASSUME NEW T \in SUBSET (1..n), T # {}
        PROVE  g[T] = AddLeg(g[T \ {Max(T)}], s[Max(T)])
    <3>1. Max(T) \in 1..n
      BY <1>1, <2>1, LargestIndex
    <3>2. g[T \ {Max(T)}] \in C
      OBVIOUS
    <3> HIDE DEF C
    <3> QED
      BY <1>4, <2>1, <3>1, <3>2
  <2> QED
    BY <1>1, <1>4, <2>1
<1>6. it = Walk(it)
  <2> HIDE DEF Walk
  <2> QED
    BY <1>5
<1> HIDE DEF it
<1> DEFINE G == {T \in SUBSET (1..n) : it[T] \in C}
<1>7. {} \in G
  BY <1>1, <1>6
<1>8. ASSUME NEW T \in SUBSET (1..n), T # {} /\ T \ {Max(T)} \in G
      PROVE  T \in G
  <2>1. Max(T) \in 1..n
    BY <1>1, <1>8, LargestIndex
  <2>2. it[T] = AddLeg(it[T \ {Max(T)}], s[Max(T)])
    BY <1>1, <1>6, <1>8
  <2>3. it[T \ {Max(T)}] \in C /\ s[Max(T)] \in L
    BY <1>1, <1>8, <2>1
  <2>4. it[T] \in C
    <3> HIDE DEF G
    <3> QED
      BY <2>2, <2>3, AddLegKeeps
  <2> QED
    BY <2>4
<1>9. 1..n \in G
  <2> HIDE DEF G
  <2> QED
    BY <1>1, <1>7, <1>8, WalkInduction
<1> QED
  BY <1>1, <1>2, <1>9

\* The legs a chain may be built of: a key of the operator's, or the job's
\* token at GitHub Models.
Entitled(leg0) == leg0.key = AmbientToken => leg0.base = GitHubModels

\* What is inferred from an endpoint's settings, and its sibling models, may
\* hold the job's token only when it is GitHub Models.
LEMMA PrimaryEntitled ==
  ASSUME NEW ep \in Endpoints
  PROVE  LET primary == Infer(ep, AmbientToken)[1]
         IN  Entitled(primary) /\ \A m : Entitled([primary EXCEPT !.model = m])
<1> DEFINE primary == Infer(ep, AmbientToken)[1]
<1>0. ep.key # AmbientToken
  BY SettingsAssumption
<1>1. PICK b, k, m : primary = Client(b, k, m) /\ (k = AmbientToken => b = GitHubModels)
  <2>1. CASE ep.key # ""
    <3>1. \E m : primary = Client(Named(ep.base, OpenAI), ep.key, m)
      BY <2>1 DEF Infer
    <3> QED
      BY <1>0, <3>1
  <2>2. CASE ep.key = ""
    <3>1. AmbientToken # ""
      BY DEF AmbientToken
    <3> DEFINE base == Named(ep.base, GitHubModels)
               key  == IF base = GitHubModels THEN AmbientToken ELSE ep.key
    <3>2. \E m : primary = Client(base, key, m)
      BY <2>2, <3>1 DEF Infer
    <3> QED
      BY <1>0, <3>2
  <2> QED
    BY <2>1, <2>2
<1> HIDE DEF primary
<1>2. primary = [base |-> b, key |-> k, model |-> m]
  BY <1>1 DEF Client
<1>3. Entitled(primary) /\ \A x : Entitled([primary EXCEPT !.model = x])
  BY <1>1, <1>2 DEF Entitled
<1> QED
  BY <1>3 DEF primary

\* A fallback is asked with the operator's key or a provider's.
LEMMA FallbackEntitled ==
  ASSUME NEW ep \in Endpoints, NEW ref
  PROVE  LET r == Resolved(ref, ep, Providers)
         IN  r = <<>> \/ \E x : r = <<x>> /\ Entitled(x)
<1>1. CASE ref.provider = ""
  <2> DEFINE x == Client(Named(ep.base, OpenAI), ep.key, ref.model)
  <2>1. x.key = ep.key /\ LegFor(ref, ep, Providers) = <<x>>
    BY <1>1 DEF Client, LegFor
  <2> HIDE DEF x
  <2>2. Entitled(x)
    BY <2>1, SettingsAssumption DEF Entitled
  <2> QED
    BY <2>1, <2>2 DEF Resolved
<1>2. CASE ref.provider # "" /\ ref.provider \in DOMAIN Providers
  <2> DEFINE p == Providers[ref.provider]
             x == Client(p.base, p.key, ref.model)
  <2>1. x.key = p.key /\ LegFor(ref, ep, Providers) = <<x>>
    BY <1>2 DEF Client, LegFor
  <2> HIDE DEF x
  <2>2. Entitled(x)
    BY <1>2, <2>1, SettingsAssumption DEF Entitled
  <2> QED
    BY <2>1, <2>2 DEF Resolved
<1>3. CASE ref.provider # "" /\ ref.provider \notin DOMAIN Providers
  BY <1>3 DEF Resolved, LegFor
<1> QED
  BY <1>1, <1>2, <1>3

\* Every chain is of distinct, entitled legs.
LEMMA ChainsAreGood ==
  ASSUME NEW c \in Chains
  PROVE  \E L : c \in Distinct(L) /\ \A x \in L : Entitled(x)
<1>1. PICK ep \in Endpoints, ids \in IdLists, refs \in RefLists :
        c = NewModelClient(Infer(ep, AmbientToken)[1], ids, refs, ep, Providers)
  BY DEF Chains
<1> DEFINE primary == Infer(ep, AmbientToken)[1]
           named == [i \in DOMAIN ids |-> [primary EXCEPT !.model = ids[i]]]
           refd  == [i \in DOMAIN refs |-> Resolved(refs[i], ep, Providers)]
           L == {primary} \cup {named[i] : i \in DOMAIN ids}
                  \cup {refd[i][1] : i \in {j \in DOMAIN refs : refd[j] # <<>>}}
<1>2. ids \in Seq(Range(ids)) /\ refs \in Seq(Range(refs))
  BY SettingsAssumption
<1>3. named \in Seq(L)
  <2>1. Len(ids) \in Nat /\ DOMAIN ids = 1..Len(ids)
    BY <1>2
  <2>2. named = [i \in 1..Len(ids) |-> [primary EXCEPT !.model = ids[i]]]
        /\ \A i \in 1..Len(ids) : named[i] \in L
    BY <2>1
  <2> HIDE DEF L, named
  <2>3. named \in [1..Len(ids) -> L]
    BY <2>2
  <2> QED
    BY <2>1, <2>3, SeqDef
<1>4. ASSUME NEW i \in DOMAIN refs
      PROVE  refd[i] = <<>> \/ \E x : refd[i] = <<x>> /\ Entitled(x)
  BY FallbackEntitled
<1>5. refd \in Seq(Seq(L))
  <2>1. Len(refs) \in Nat /\ DOMAIN refs = 1..Len(refs)
    BY <1>2
  <2>2. ASSUME NEW i \in 1..Len(refs) PROVE refd[i] \in Seq(L)
    <3>1. CASE refd[i] = <<>>
      <4>1. <<>> \in Seq(L)
        OBVIOUS
      <4> QED
        BY <3>1, <4>1
    <3>2. CASE refd[i] # <<>>
      <4>1. PICK x : refd[i] = <<x>>
        <5> HIDE DEF refd
        <5> QED
          BY <1>4, <2>1, <3>2
      <4>2. refd[i][1] \in L
        <5> HIDE DEF refd
        <5> QED
          BY <2>1, <3>2
      <4> HIDE DEF refd, L
      <4>3. x \in L
        BY <4>1, <4>2
      <4> QED
        BY <4>1, <4>3
    <3> QED
      BY <3>1, <3>2
  <2>3. refd \in [1..Len(refs) -> Seq(L)]
    <3>1. refd = [i \in 1..Len(refs) |-> refd[i]]
      BY <2>1
    <3> HIDE DEF refd
    <3> QED
      BY <2>2, <3>1
  <2> HIDE DEF refd
  <2> QED
    BY <2>1, <2>3, SeqDef
<1>6. \A x \in L : Entitled(x)
  <2>1. Entitled(primary) /\ \A i \in DOMAIN ids : Entitled(named[i])
    BY PrimaryEntitled
  <2>2. \A i \in DOMAIN refs : refd[i] # <<>> => Entitled(refd[i][1])
    <3> HIDE DEF refd
    <3> QED
      BY <1>4
  <2> HIDE DEF primary, named, refd
  <2> QED
    BY <2>1, <2>2
<1>7. c \in Distinct(L)
  <2>1. c = FoldLeft(AddLeg, <<primary>>, named \o FlattenSeq(refd))
    BY <1>1 DEF NewModelClient, FallbackLegs
  <2>2. primary \in L
    OBVIOUS
  <2> HIDE DEF primary, named, refd, L
  <2>3. FlattenSeq(refd) \in Seq(L)
    BY <1>5, FlattenType
  <2>4. named \o FlattenSeq(refd) \in Seq(L)
    BY <1>3, <2>3
  <2>5. <<primary>> \in Distinct(L)
    BY <2>2 DEF Distinct
  <2> QED
    BY <2>1, <2>4, <2>5, AddLegsKeep
<1> HIDE DEF L
<1> QED
  BY <1>6, <1>7

\* So the credential of the job goes where it may, and no leg is asked twice.
LEMMA ChainCredentials ==
  chain \in Chains => CredentialFollowsEndpoint
<1> SUFFICES ASSUME chain \in Chains PROVE CredentialFollowsEndpoint
  OBVIOUS
<1>1. PICK L : chain \in Distinct(L) /\ \A x \in L : Entitled(x)
  BY ChainsAreGood
<1>2. chain \in Seq(L) /\ \A i \in DOMAIN chain : chain[i] \in L
  BY <1>1 DEF Distinct
<1> QED
  BY <1>1, <1>2 DEF Distinct, CredentialFollowsEndpoint, Entitled

\* CredentialFollowsEndpoint: for every endpoint, list of models, provider
\* and reference, the job's token goes to GitHub Models alone and no leg of a
\* chain is asked what an earlier one was.
THEOREM CredentialsStay == Spec => []CredentialFollowsEndpoint
<1>1. Init => chain \in Chains
  BY DEF Init
<1>2. chain \in Chains /\ [Next]_vars => (chain \in Chains)'
  BY DEF Next, Progress, Send, Answered, Refused, HungUp, FallOver, ChainFails,
     GiveUp, Backoff, Wake, SleepCut, Expire, Cancel, OthersDraw, vars, walk
<1> QED
  BY <1>1, <1>2, ChainCredentials, PTL DEF Spec
-----------------------------------------------------------------------------
(* Types.                                                                  *)

\* Nothing is sent before a leg is named, an error's Retry-After is a number,
\* and a wait is one a retry may be given.
ReplyInv ==
  /\ err.kind \in Kinds /\ err.after \in Nat
  /\ phase = "sleep" => attempt > 0 /\ wait \in RetryDelay(err, attempt - 1)

\* A chain is a sequence of one leg or more.
LEMMA ChainType ==
  ASSUME NEW c \in Chains
  PROVE  /\ c \in Seq(Legs) /\ Len(c) \in Nat \ {0} /\ DOMAIN c = 1..Len(c)
<1>1. PICK L : c \in Distinct(L)
  BY ChainsAreGood
<1>2. c \in Seq(L) /\ c # <<>>
  BY <1>1 DEF Distinct
<1>3. Len(c) \in Nat \ {0} /\ DOMAIN c = 1..Len(c) /\ c \in [1..Len(c) -> L]
  BY <1>2, LenProperties, EmptySeq
<1>4. \A i \in 1..Len(c) : c[i] \in Legs
  BY <1>3 DEF Legs
<1>5. c \in [1..Len(c) -> Legs]
  BY <1>3, <1>4
<1> QED
  BY <1>3, <1>5, SeqDef

\* What an error says of the wait it asks for.
LEMMA ReplyAfter ==
  ASSUME NEW cap, NEW reply \in Failures(Afters) \cup Completions(cap)
  PROVE  /\ ErrorOf(reply, ToolsMode, cap).after \in Nat
         /\ ErrorOf(reply, ToolsMode, cap).kind \in Kinds
<1> DEFINE e == ErrorOf(reply, ToolsMode, cap)
<1>0. \A k : Error(k).kind = k /\ Error(k).after = 0
  BY DEF Error
<1>1. CASE reply \in [shape : {"status"}, status : Statuses, after : Afters]
  <2>1. e = Typed(StatusCode(reply.status), Terminal(reply.status), reply.after)
        /\ reply.after \in Nat
    BY <1>1, BucketAssumption DEF ErrorOf
  <2>2. e.kind = "typed" /\ e.after = reply.after
    BY <2>1 DEF Typed
  <2> QED
    BY <2>1, <2>2 DEF Kinds
<1>2. CASE reply \in [shape : {"unreachable", "cut", "junk", "hollow", "envelope"}]
  <2>1. \/ e \in {Error("unread"), Error("unreachable")}
        \/ e = Typed("malformed_response", FALSE, 0) \/ e = Typed("provider_error", TRUE, 0)
    BY <1>2 DEF ErrorOf
  <2>2. e.kind \in {"unread", "unreachable", "typed"} /\ e.after = 0
    BY <1>0, <2>1 DEF Typed
  <2> QED
    BY <2>2 DEF Kinds
<1>3. CASE reply \in Completions(cap)
  <2>1. e \in {NoError, Error("runaway"), Error("overflow")}
    BY <1>3 DEF ErrorOf, Completions
  <2>2. e.kind \in {"none", "runaway", "overflow"} /\ e.after = 0
    BY <1>0, <2>1 DEF NoError
  <2> QED
    BY <2>2 DEF Kinds
<1> QED
  BY <1>1, <1>2, <1>3 DEF Failures

\* The powers of two a wait is made of.
LEMMA SmallPowers ==
  ASSUME NEW n \in Nat
  PROVE  Least(n, 4) \in 0..4 /\ 2 ^ Least(n, 4) \in {1, 2, 4, 8, 16}
<1> DEFINE k == Least(n, 4)
<1>1. k \in {0, 1, 2, 3, 4}
  BY DEF Least
<1>2. 2 ^ 0 = 1 /\ 2 ^ 1 = 2 /\ 2 ^ 2 = 4 /\ 2 ^ 3 = 8 /\ 2 ^ 4 = 16
  OBVIOUS
<1> HIDE DEF k
<1>3. k \in 0..4 /\ 2 ^ k \in {1, 2, 4, 8, 16}
  <2>1. CASE k = 0
    BY <1>2, <2>1
  <2>2. CASE k = 1
    BY <1>2, <2>2
  <2>3. CASE k = 2
    BY <1>2, <2>3
  <2>4. CASE k = 3
    BY <1>2, <2>4
  <2>5. CASE k = 4
    BY <1>2, <2>5
  <2> QED
    BY <1>1, <2>1, <2>2, <2>3, <2>4, <2>5
<1> QED
  BY <1>3 DEF k

\* A wait is of a second or more and of a minute or less; it is what the
\* provider asks for, up to that, and for a rate limit without a wish it is
\* five seconds, doubled at each attempt.
LEMMA WaitBounds ==
  ASSUME NEW e, e.after \in Nat, NEW n \in Nat, NEW w \in RetryDelay(e, n)
  PROVE  /\ w \in 1..MaxRetryDelay /\ w >= Least(e.after, MaxRetryDelay)
         /\ e.code = "rate_limited" /\ e.after = 0 =>
              w >= Least(5 * 2 ^ Least(n, 4), MaxRetryDelay)
<1> DEFINE base == IF e.code = "rate_limited" THEN 5 ELSE 2
           p == 2 ^ Least(n, 4)
           d == base * p
<1>1. p \in {1, 2, 4, 8, 16}
  BY SmallPowers
<1>2. CASE e.after > 0
  <2>1. w = Least(e.after, MaxRetryDelay)
    BY <1>2 DEF RetryDelay
  <2> QED
    BY <1>2, <2>1 DEF Least, MaxRetryDelay
<1>3. CASE e.after = 0
  <2>1. w = Least(d, MaxRetryDelay) \/ w = Least(d + d \div 5, MaxRetryDelay)
    BY <1>3 DEF RetryDelay
  <2> HIDE DEF p
  <2>2. base \in {2, 5} /\ d \in Nat /\ d >= 1 /\ d \div 5 \in Nat
    BY <1>1
  <2>3. e.code = "rate_limited" => d = 5 * p
    OBVIOUS
  <2> HIDE DEF d
  <2>4. w \in 1..MaxRetryDelay /\ w >= Least(d, MaxRetryDelay) /\ w >= 0
    BY <2>1, <2>2 DEF Least, MaxRetryDelay
  <2>5. Least(e.after, MaxRetryDelay) = 0
    BY <1>3 DEF Least, MaxRetryDelay
  <2> QED
    BY <2>3, <2>4, <2>5 DEF p
<1> QED
  BY <1>2, <1>3

\* A cap is a number the request may ask for.
LEMMA CapType ==
  ASSUME NEW i PROVE CapOf(i) \in 0..RequestCap
BY CapAssumption DEF CapOf, Least

\* TypeOK is not inductive: the types of a leg and of a wait come from the
\* chain being one NewModelClient builds, and from the error that is waited for.
Typing == TypeOK /\ ReplyInv /\ chain \in Chains

\* The first state has its types.
LEMMA TypingInit == Init => Typing
<1> SUFFICES ASSUME Init PROVE Typing
  OBVIOUS
<1>1. chain \in Chains /\ chain \in Seq(Legs) /\ 1 \in DOMAIN chain
  BY ChainType DEF Init
<1>2. err.kind \in Kinds /\ err.after = 0
  BY DEF Init, NoError, Error, Kinds
<1>3. TypeOK
  <2>1. left = Bucket /\ attempt = 0 /\ asked = 0 /\ wait = 0 /\ granted = 0 /\ leg = 1
    BY DEF Init
  <2>2. /\ phase = "ask" /\ run = "live" /\ ctx = "live" /\ doomed = FALSE /\ ranAway = {}
    BY DEF Init
  <2>3. /\ left \in 0..Bucket /\ attempt \in 0..(Bucket - left) /\ asked \in 0..RequestCap
        /\ wait \in Nat /\ granted \in Nat
    BY <2>1, BucketAssumption, CapAssumption
  <2> QED
    BY <1>1, <1>2, <2>1, <2>2, <2>3 DEF TypeOK
<1>4. ReplyInv
  BY <1>2 DEF Init, ReplyInv
<1> QED
  BY <1>1, <1>3, <1>4 DEF Typing

\* Every step of the call, of time and of its neighbours keeps them.
LEMMA TypingStep == Typing /\ [Next]_vars => Typing'
<1> SUFFICES ASSUME Typing, [Next]_vars PROVE Typing'
  OBVIOUS
<1>0. /\ TypeOK /\ err.kind \in Kinds /\ err.after \in Nat
      /\ phase = "sleep" => attempt > 0 /\ wait \in RetryDelay(err, attempt - 1)
      /\ chain \in Chains /\ chain \in Seq(Legs) /\ Len(chain) \in Nat \ {0}
      /\ DOMAIN chain = 1..Len(chain)
      /\ Bucket \in Nat /\ RequestCap \in Nat
  BY ChainType, BucketAssumption, CapAssumption DEF Typing, ReplyInv
<1>a. \A k \in Kinds : Error(k).kind = k /\ Error(k).after = 0
  BY DEF Error
<1> USE DEF Typing, TypeOK, ReplyInv, walk
<1>1. CASE Send
  <2>1. CapOf(leg) \in 0..RequestCap
    BY CapType
  <2> QED
    BY <1>0, <1>1, <2>1 DEF Send
<1>2. CASE Answered \/ HungUp \/ GiveUp \/ SleepCut
  <2>1. /\ phase' \in {"done", "failed"} /\ wait' \in Nat
        /\ UNCHANGED <<chain, leg, asked, run, ctx, attempt, left, doomed, granted, ranAway>>
    BY <1>0, <1>2 DEF Answered, HungUp, GiveUp, SleepCut
  <2>2. err' \in {err, NoError, Error("deadline"), Error("canceled")}
    BY <1>2 DEF Answered, HungUp, GiveUp, SleepCut
  <2>3. err'.kind \in Kinds /\ err'.after \in Nat
    BY <1>0, <1>a, <2>2 DEF NoError, Kinds
  <2> QED
    BY <1>0, <2>1, <2>3
<1>3. CASE Refused
  <2>1. PICK reply \in Failures(Afters) \cup Completions(asked) :
           err' = ErrorOf(reply, ToolsMode, asked)
    BY <1>3 DEF Refused
  <2>2. err'.after \in Nat /\ err'.kind \in Kinds
    BY <2>1, ReplyAfter
  <2> QED
    BY <1>0, <1>3, <2>2 DEF Refused
<1>4. CASE FallOver
  <2>1. leg' = leg + 1 /\ leg < Len(chain)
    BY <1>4 DEF FallOver
  <2>2. leg' \in DOMAIN chain
    BY <1>0, <2>1
  <2> QED
    BY <1>0, <1>4, <2>2 DEF FallOver
<1>5. CASE ChainFails \/ Expire \/ Cancel
  BY <1>0, <1>5 DEF ChainFails, Expire, Cancel
<1>6. CASE Backoff
  <2>1. /\ left > 0 /\ left' = left - 1 /\ attempt' = attempt + 1
        /\ wait' \in RetryDelay(err, attempt) /\ phase' = "sleep"
        /\ UNCHANGED <<chain, leg, asked, run, ctx, err, doomed, granted, ranAway>>
    BY <1>6 DEF Backoff, TryRetry
  <2>2. /\ attempt \in Nat /\ attempt' > 0 /\ attempt' - 1 = attempt
        /\ left' \in 0..Bucket /\ attempt' \in 0..(Bucket - left')
    BY <1>0, <2>1
  <2>3. wait' \in 1..MaxRetryDelay
    BY <1>0, <2>1, <2>2, WaitBounds
  <2>4. wait' \in Nat
    BY <2>3 DEF MaxRetryDelay
  <2> QED
    BY <1>0, <2>1, <2>2, <2>4
<1>7. CASE Wake
  <2>1. 1 \in DOMAIN chain
    BY <1>0
  <2> QED
    BY <1>0, <1>7, <2>1 DEF Wake
<1>8. CASE OthersDraw
  <2>1. left' \in 0..Bucket /\ attempt' \in 0..(Bucket - left')
    BY <1>0, <1>8 DEF OthersDraw
  <2> QED
    BY <1>0, <1>8, <2>1 DEF OthersDraw
<1>9. CASE UNCHANGED vars
  BY <1>0, <1>9 DEF vars
<1> QED
  BY <1>1, <1>2, <1>3, <1>4, <1>5, <1>6, <1>7, <1>8, <1>9 DEF Next, Progress

\* Types hold in every behaviour, for every chain, bucket and Retry-After.
THEOREM WellTyped == Spec => []TypeOK
<1>1. Typing => TypeOK
  BY DEF Typing
<1> QED
  BY <1>1, TypingInit, TypingStep, PTL DEF Spec

\* WaitsAreBounded: whatever a provider asks for and however often it is asked,
\* no wait exceeds a minute and none is shorter than it should be.
THEOREM BoundedWaits == Spec => []WaitsAreBounded
<1>1. Typing => WaitsAreBounded
  <2> SUFFICES ASSUME Typing, phase = "sleep"
               PROVE  /\ wait \in 1..MaxRetryDelay /\ wait >= Least(err.after, MaxRetryDelay)
                      /\ err.code = "rate_limited" /\ err.after = 0 =>
                           wait >= Least(5 * 2 ^ Least(attempt - 1, 4), MaxRetryDelay)
    BY DEF WaitsAreBounded
  <2>1. /\ attempt - 1 \in Nat /\ wait \in RetryDelay(err, attempt - 1) /\ err.after \in Nat
    BY DEF Typing, TypeOK, ReplyInv
  <2> QED
    BY <2>1, WaitBounds
<1> QED
  BY <1>1, TypingInit, TypingStep, PTL DEF Spec
-----------------------------------------------------------------------------
(* Spend.                                                                  *)

\* What a leg that has a sibling may ask for, and a whole walk of the chain.
EarlyCap == Least(RequestCap, LegCap)
WalkCost == (Len(chain) - 1) * EarlyCap + RequestCap

\* What the walk in progress may have been granted so far.
WalkSpent ==
  CASE phase = "ask" -> (leg - 1) * EarlyCap
    [] phase \in {"flight", "failed", "settle"} ->
         IF leg < Len(chain) THEN leg * EarlyCap ELSE WalkCost
    [] phase = "sleep" -> 0
    [] phase = "done" -> WalkCost

\* SpendBounded is not inductive: it counts the walks whole, and a step of a
\* walk needs to know how far the walk has come.
SpendInv == granted <= attempt * WalkCost + WalkSpent

\* Multiples of a cap.
LEMMA Multiples ==
  ASSUME NEW k \in Nat, NEW m \in Nat
  PROVE  /\ k * m \in Nat /\ (k + 1) * m = k * m + m
         /\ k > 0 => (k - 1) * m \in Nat /\ k * m = (k - 1) * m + m
OBVIOUS

\* What a walk may have spent at each point of it.
LEMMA WalkFacts ==
  ASSUME Typing
  PROVE  /\ EarlyCap \in Nat /\ WalkCost \in Nat /\ WalkSpent \in Nat
         /\ attempt * WalkCost \in Nat
         /\ (attempt + 1) * WalkCost = attempt * WalkCost + WalkCost
         /\ WalkSpent <= WalkCost
         /\ leg * EarlyCap = (leg - 1) * EarlyCap + EarlyCap
         /\ leg = Len(chain) => (leg - 1) * EarlyCap + RequestCap = WalkCost
<1> DEFINE n == Len(chain)
<1>1. n \in Nat \ {0} /\ leg \in 1..n /\ attempt \in Nat /\ RequestCap \in Nat
      /\ LegCap \in Nat
  BY ChainType, BucketAssumption, CapAssumption DEF Typing, TypeOK
<1>2. EarlyCap \in Nat
  BY <1>1 DEF EarlyCap, Least
<1>3. /\ leg * EarlyCap \in Nat /\ (leg - 1) * EarlyCap \in Nat /\ (n - 1) * EarlyCap \in Nat
      /\ leg * EarlyCap = (leg - 1) * EarlyCap + EarlyCap
  BY <1>1, <1>2, Multiples
<1>4. WalkCost \in Nat /\ (leg = n => (leg - 1) * EarlyCap + RequestCap = WalkCost)
  BY <1>1, <1>3 DEF WalkCost
<1>5. attempt * WalkCost \in Nat /\ (attempt + 1) * WalkCost = attempt * WalkCost + WalkCost
  BY <1>1, <1>4, Multiples
<1>6. (leg - 1) * EarlyCap <= WalkCost /\ (leg < n => leg * EarlyCap <= WalkCost)
  <2>1. \A a, b \in Nat : a <= b => a * EarlyCap <= b * EarlyCap
    <3> SUFFICES ASSUME NEW a \in Nat, NEW b \in Nat, a <= b
                 PROVE  a * EarlyCap <= b * EarlyCap
      OBVIOUS
    <3>1. b - a \in Nat /\ (b - a) * EarlyCap \in Nat
      BY <1>2, Multiples
    <3>2. b * EarlyCap = a * EarlyCap + (b - a) * EarlyCap
      BY <1>2
    <3> QED
      BY <1>2, <3>1, <3>2
  <2>2. (leg - 1) * EarlyCap <= (n - 1) * EarlyCap
    BY <1>1, <2>1
  <2>3. leg < n => leg * EarlyCap <= (n - 1) * EarlyCap
    BY <1>1, <2>1
  <2> QED
    BY <1>1, <1>3, <2>2, <2>3 DEF WalkCost
<1>7. WalkSpent \in Nat /\ WalkSpent <= WalkCost
  BY <1>3, <1>4, <1>6 DEF WalkSpent, Typing, TypeOK
<1> QED
  BY <1>2, <1>3, <1>4, <1>5, <1>7

\* Every request stays within what its walk may spend, and every retry starts
\* a walk of its own.
LEMMA SpendStep == Typing /\ SpendInv /\ [Next]_vars => SpendInv'
<1> SUFFICES ASSUME Typing, SpendInv, [Next]_vars PROVE SpendInv'
  OBVIOUS
<1>0. Typing' /\ granted \in Nat /\ leg \in Nat /\ attempt \in Nat
  BY TypingStep, ChainType DEF Typing, TypeOK
<1>1. /\ EarlyCap \in Nat /\ WalkCost \in Nat /\ WalkSpent \in Nat
      /\ attempt * WalkCost \in Nat
      /\ (attempt + 1) * WalkCost = attempt * WalkCost + WalkCost
      /\ WalkSpent <= WalkCost
      /\ leg * EarlyCap = (leg - 1) * EarlyCap + EarlyCap
      /\ leg = Len(chain) => (leg - 1) * EarlyCap + RequestCap = WalkCost
      /\ granted <= attempt * WalkCost + WalkSpent
  BY WalkFacts DEF SpendInv
<1>2. UNCHANGED chain /\ WalkCost' = WalkCost /\ EarlyCap' = EarlyCap
  <2>1. UNCHANGED chain
    BY DEF Next, Progress, Send, Answered, Refused, HungUp, FallOver, ChainFails,
       GiveUp, Backoff, Wake, SleepCut, Expire, Cancel, OthersDraw, vars, walk
  <2> QED
    BY <2>1 DEF WalkCost, EarlyCap
<1>3. CASE Send
  <2>1. /\ phase = "ask" /\ phase' = "flight" /\ granted' = granted + CapOf(leg)
        /\ UNCHANGED <<leg, attempt>>
    BY <1>3 DEF Send, walk
  <2>2. CASE leg < Len(chain)
    <3>1. WalkSpent = (leg - 1) * EarlyCap /\ WalkSpent' = leg * EarlyCap /\ CapOf(leg) = EarlyCap
      BY <1>2, <2>1, <2>2 DEF WalkSpent, CapOf, EarlyCap
    <3> QED
      BY <1>0, <1>1, <1>2, <2>1, <3>1 DEF SpendInv
  <2>3. CASE ~(leg < Len(chain))
    <3>1. WalkSpent = (leg - 1) * EarlyCap /\ WalkSpent' = WalkCost /\ CapOf(leg) = RequestCap
      BY <1>2, <2>1, <2>3 DEF WalkSpent, CapOf
    <3>2. leg = Len(chain)
      BY <2>3, ChainType DEF Typing, TypeOK
    <3>3. RequestCap \in Nat /\ (leg - 1) * EarlyCap \in Nat
      BY <1>0, <1>1, <3>1, CapAssumption
    <3> QED
      BY <1>0, <1>1, <1>2, <2>1, <3>1, <3>2, <3>3 DEF SpendInv
  <2> QED
    BY <2>2, <2>3
<1>4. CASE FallOver
  <2>1. /\ phase = "failed" /\ phase' = "ask" /\ leg' = leg + 1 /\ leg < Len(chain)
        /\ UNCHANGED <<granted, attempt>>
    BY <1>4 DEF FallOver, walk
  <2>2. WalkSpent = leg * EarlyCap /\ WalkSpent' = leg * EarlyCap
    BY <1>0, <1>2, <2>1 DEF WalkSpent
  <2> QED
    BY <1>1, <1>2, <2>1, <2>2 DEF SpendInv
<1>5. CASE Answered \/ GiveUp \/ SleepCut
  <2>1. phase' = "done" /\ UNCHANGED <<granted, attempt>>
    BY <1>5 DEF Answered, GiveUp, SleepCut, walk
  <2>2. WalkSpent' = WalkCost
    BY <1>2, <2>1 DEF WalkSpent
  <2> QED
    BY <1>0, <1>1, <1>2, <2>1, <2>2 DEF SpendInv
<1>6. CASE Refused \/ HungUp \/ ChainFails
  <2>1. /\ phase \in {"flight", "failed"} /\ phase' \in {"failed", "settle"}
        /\ UNCHANGED <<granted, attempt, leg>>
    BY <1>6 DEF Refused, HungUp, ChainFails, walk
  <2>2. WalkSpent' = WalkSpent
    BY <1>2, <2>1 DEF WalkSpent
  <2> QED
    BY <1>1, <1>2, <2>1, <2>2 DEF SpendInv
<1>7. CASE Backoff
  <2>1. phase' = "sleep" /\ attempt' = attempt + 1 /\ UNCHANGED granted
    BY <1>7 DEF Backoff
  <2>2. WalkSpent' = 0
    BY <2>1 DEF WalkSpent
  <2>3. attempt' * WalkCost' = attempt * WalkCost + WalkCost
    BY <1>1, <1>2, <2>1
  <2> QED
    BY <1>0, <1>1, <2>1, <2>2, <2>3 DEF SpendInv
<1>8. CASE Wake
  <2>1. phase = "sleep" /\ phase' = "ask" /\ leg' = 1 /\ UNCHANGED <<granted, attempt>>
    BY <1>8 DEF Wake
  <2>2. WalkSpent = 0 /\ WalkSpent' = 0
    BY <1>1, <1>2, <2>1 DEF WalkSpent
  <2> QED
    BY <1>1, <1>2, <2>1, <2>2 DEF SpendInv
<1>9. CASE Expire \/ Cancel \/ OthersDraw \/ UNCHANGED vars
  <2>1. UNCHANGED <<phase, leg, granted, attempt>>
    BY <1>9 DEF Expire, Cancel, OthersDraw, vars, walk
  <2>2. WalkSpent' = WalkSpent
    BY <1>2, <2>1 DEF WalkSpent
  <2> QED
    BY <1>1, <1>2, <2>1, <2>2 DEF SpendInv
<1> QED
  BY <1>3, <1>4, <1>5, <1>6, <1>7, <1>8, <1>9 DEF Next, Progress

\* SpendBounded: for every chain, cap and bucket, a call's requests are allowed
\* no more tokens than one walk of the chain per attempt.
THEOREM BoundedSpend == Spec => []SpendBounded
<1>1. Init => Typing /\ SpendInv
  <2> SUFFICES ASSUME Init PROVE SpendInv
    BY TypingInit
  <2>1. Typing /\ phase = "ask" /\ granted = 0
    BY TypingInit DEF Init
  <2> QED
    BY <2>1, WalkFacts DEF SpendInv
<1>2. Typing /\ SpendInv /\ [Next]_vars => Typing' /\ SpendInv'
  BY TypingStep, SpendStep
<1>3. Typing /\ SpendInv => SpendBounded
  <2> SUFFICES ASSUME Typing, SpendInv PROVE SpendBounded
    OBVIOUS
  <2>1. granted \in Nat
    BY DEF Typing, TypeOK
  <2>2. granted <= attempt * WalkCost + WalkSpent
    BY DEF SpendInv
  <2>3. granted <= (attempt + 1) * WalkCost
    BY <2>1, <2>2, WalkFacts
  <2> QED
    BY <2>3 DEF SpendBounded, WalkCost, EarlyCap
<1> QED
  BY <1>1, <1>2, <1>3, PTL DEF Spec
=============================================================================
