----------------------------- MODULE Completion -----------------------------
(***************************************************************************)
(* One completion of the reviewer, from the request to the answer or the   *)
(* error its caller sees: the retry loop (completeWithRetry), inside it    *)
(* the chain of models (FailoverClient.Complete), inside it one request to *)
(* one endpoint (OpenAICompatClient.Complete) that a provider answers,     *)
(* refuses, cuts short or leaves hanging until the per-call deadline.      *)
(*                                                                         *)
(* The deadline covers one walk of the chain and is renewed by a retry.    *)
(* The bucket of retries is shared with the other calls of the run.        *)
(***************************************************************************)
EXTENDS ModelClient

CONSTANTS
  Endpoints,    \* the settings' [key, base, model], each "" when not named
  IdLists,      \* what --fallback-models may name: sequences of model ids
  RefLists,     \* what the configuration's fallback may list
  Providers,    \* provider name -> [base, key]
  RequestCap,   \* max_output_tokens of the request
  LegCap,       \* DefaultLegCap: the cap of a leg that has one behind it
  Bucket,       \* defaultRetriesPerUnitType
  Afters,       \* Retry-After values a provider sends, in seconds; 0 for none
  ToolsMode     \* structured_output: tools

ASSUME CapAssumption == RequestCap \in Nat \ {0} /\ LegCap \in Nat \ {0}
ASSUME BucketAssumption == Bucket \in Nat /\ Afters \subseteq Nat
ASSUME ToolsAssumption == ToolsMode \in BOOLEAN
\* A key stands for where it came from: one that a setting or a provider
\* names is the operator's choice, whatever it holds, and never the token the
\* client helps itself to.  A list of models is a sequence.
ASSUME SettingsAssumption ==
  /\ \A ep \in Endpoints : ep.key # AmbientToken
  /\ \A name \in DOMAIN Providers : Providers[name].key # AmbientToken
  /\ \A ids \in IdLists : ids \in Seq(Range(ids))
  /\ \A refs \in RefLists : refs \in Seq(Range(refs))

VARIABLES
  chain,     \* the legs, the primary first
  phase,     \* ask, flight, failed, settle, sleep, done
  leg,       \* the leg being asked
  asked,     \* the output cap of the request in flight
  run,       \* the run's context: live or canceled
  ctx,       \* the context of this walk: live, expired or canceled
  attempt,   \* retries made so far
  left,      \* retries left in the bucket
  err,       \* the last error
  wait,      \* how long the current sleep is
  doomed,    \* the walk began in a dead run
  granted,   \* output tokens the requests of this call were allowed, summed
  ranAway    \* the legs whose failure would meet the same request again

vars == <<chain, phase, leg, asked, run, ctx, attempt, left, err, wait, doomed,
          granted, ranAway>>
walk == <<chain, run, attempt, left, wait, doomed>>

Chains ==
  {NewModelClient(Infer(ep, AmbientToken)[1], ids, refs, ep, Providers) :
     ep \in Endpoints, ids \in IdLists, refs \in RefLists}

Init ==
  /\ chain \in Chains
  /\ phase = "ask" /\ leg = 1 /\ asked = 0
  /\ run = "live" /\ ctx = "live"
  /\ attempt = 0 /\ left = Bucket
  /\ err = NoError /\ wait = 0 /\ doomed = FALSE
  /\ granted = 0 /\ ranAway = {}
-----------------------------------------------------------------------------
(* One walk of the chain.                                                  *)

\* A mutant of CapOf: every leg has the budget of the last.
CapOfUncapped(i) == RequestCap

\* Another: the last leg is capped as well.
CapOfEvery(i) == Least(RequestCap, LegCap)

CapOf(i) == IF i < Len(chain) THEN Least(RequestCap, LegCap) ELSE RequestCap

Send ==
  /\ phase = "ask"
  /\ phase' = "flight"
  /\ asked' = CapOf(leg) /\ granted' = granted + CapOf(leg)
  /\ UNCHANGED <<walk, leg, ctx, err, ranAway>>

Answered ==
  /\ phase = "flight" /\ ctx = "live"
  /\ \E reply \in Completions(asked) : ErrorOf(reply, ToolsMode, asked) = NoError
  /\ phase' = "done" /\ err' = NoError
  /\ UNCHANGED <<walk, leg, asked, ctx, granted, ranAway>>

\* The provider's reply is an error, or is read as one.
Refused ==
  /\ phase = "flight" /\ ctx = "live"
  /\ \E reply \in Failures(Afters) \cup Completions(asked) :
       err' = ErrorOf(reply, ToolsMode, asked)
  /\ err' # NoError
  /\ ranAway' = IF err'.kind = "runaway" \/ Deterministic(err')
                THEN ranAway \cup {leg} ELSE ranAway
  /\ phase' = "failed"
  /\ UNCHANGED <<walk, leg, asked, ctx, granted>>

\* The context is over: the request comes back with the reason.
HungUp ==
  /\ phase = "flight" /\ ctx # "live"
  /\ err' = Error(IF ctx = "expired" THEN "deadline" ELSE "canceled")
  /\ phase' = "failed"
  /\ UNCHANGED <<walk, leg, asked, ctx, granted, ranAway>>

FallOver ==
  /\ phase = "failed" /\ ctx = "live" /\ FailsOver(err) /\ leg < Len(chain)
  /\ leg' = leg + 1 /\ phase' = "ask"
  /\ UNCHANGED <<walk, asked, ctx, err, granted, ranAway>>

\* The chain returns the error it met last.
ChainFails ==
  /\ phase = "failed"
  /\ ctx # "live" \/ ~FailsOver(err) \/ leg = Len(chain)
  /\ phase' = "settle"
  /\ UNCHANGED <<walk, leg, asked, ctx, err, granted, ranAway>>
-----------------------------------------------------------------------------
(* The retry loop.                                                         *)

Unretried(e) == Deterministic(e) \/ e.kind \in {"runaway", "deadline"}

GiveUp ==
  /\ phase = "settle"
  /\ \/ Unretried(err) /\ UNCHANGED err
     \/ ~Unretried(err) /\ run # "live" /\ err' = Error("canceled")
     \/ ~Unretried(err) /\ run = "live" /\ left = 0 /\ UNCHANGED err
  /\ phase' = "done"
  /\ UNCHANGED <<walk, leg, asked, ctx, granted, ranAway>>

\* A mutant of TryRetry: the bucket is not drawn on.
TryRetryFree == left > 0 /\ UNCHANGED left

TryRetry == left > 0 /\ left' = left - 1

Backoff ==
  /\ phase = "settle" /\ ~Unretried(err) /\ run = "live"
  /\ TryRetry
  /\ wait' \in RetryDelay(err, attempt)
  /\ attempt' = attempt + 1
  /\ phase' = "sleep"
  /\ UNCHANGED <<chain, leg, asked, run, ctx, err, doomed, granted, ranAway>>

\* The same request again, from the primary, with a fresh deadline.
Wake ==
  /\ phase = "sleep"
  /\ phase' = "ask" /\ leg' = 1 /\ ctx' = run /\ wait' = 0
  /\ doomed' = (run # "live")
  /\ UNCHANGED <<chain, asked, run, attempt, left, err, granted, ranAway>>

SleepCut ==
  /\ phase = "sleep" /\ run # "live"
  /\ phase' = "done" /\ err' = Error("canceled") /\ wait' = 0
  /\ UNCHANGED <<chain, leg, asked, run, ctx, attempt, left, doomed, granted, ranAway>>
-----------------------------------------------------------------------------
(* Time, the run and the other calls.                                      *)

Expire ==
  /\ phase \in {"ask", "flight", "failed"} /\ ctx = "live"
  /\ ctx' = "expired"
  /\ UNCHANGED <<walk, phase, leg, asked, err, granted, ranAway>>

Cancel ==
  /\ run = "live"
  /\ run' = "canceled" /\ ctx' = IF ctx = "live" THEN "canceled" ELSE ctx
  /\ UNCHANGED <<chain, phase, leg, asked, attempt, left, err, wait, doomed,
                 granted, ranAway>>

OthersDraw ==
  /\ left > 0 /\ left' = left - 1
  /\ UNCHANGED <<chain, phase, leg, asked, run, ctx, attempt, err, wait, doomed,
                 granted, ranAway>>

Progress ==
  \/ Send \/ Answered \/ Refused \/ HungUp \/ FallOver \/ ChainFails
  \/ GiveUp \/ Backoff \/ Wake \/ SleepCut

Next == Progress \/ Expire \/ Cancel \/ OthersDraw

\* The client's own steps are always taken in the end, and a deadline passes:
\* every context is given one before the request.
Spec == Init /\ [][Next]_vars /\ WF_vars(Progress) /\ WF_vars(Expire)
-----------------------------------------------------------------------------
(* What holds of it.                                                       *)

Legs == UNION {{c[i] : i \in DOMAIN c} : c \in Chains}
Kinds == {"none", "typed", "unreachable", "unread", "runaway", "overflow",
          "deadline", "canceled"}

\* The shape of the state; the attempts are paid from the bucket.
TypeOK ==
  /\ chain \in Seq(Legs) /\ leg \in DOMAIN chain
  /\ phase \in {"ask", "flight", "failed", "settle", "sleep", "done"}
  /\ asked \in 0..RequestCap /\ granted \in Nat
  /\ run \in {"live", "canceled"} /\ ctx \in {"live", "expired", "canceled"}
  /\ left \in 0..Bucket /\ attempt \in 0..(Bucket - left)
  /\ err.kind \in Kinds /\ wait \in Nat /\ doomed \in BOOLEAN
  /\ ranAway \subseteq DOMAIN chain

\* The job's own token is sent to GitHub Models and to no other endpoint, in
\* no leg of any chain, and no leg is asked what an earlier one was asked
\* (client.go:567-575, fallback.go:25-33).
CredentialFollowsEndpoint ==
  \A i \in DOMAIN chain :
    /\ chain[i].key = AmbientToken => chain[i].base = GitHubModels
    /\ \A j \in 1..(i - 1) : <<chain[j].base, chain[j].model>> # <<chain[i].base, chain[i].model>>

\* A call fails for a passing error only when no retry is left and the last
\* model of the chain has been asked, unless its deadline was over first
\* (failover.go:72, reviewer.go:582).
NotGivenUpEarly ==
  phase = "done" /\ err.kind \in {"typed", "unreachable"} /\ ~err.terminal =>
    left = 0 /\ (ctx = "live" => leg = Len(chain))

\* The smaller budget of the earlier legs never costs an answer: a call fails
\* for an overflow only after a leg had the whole budget (failover.go:27-30).
OverflowHadTheFullBudget ==
  phase = "done" /\ err.kind = "overflow" /\ ctx = "live" => asked = RequestCap

\* What a call may make models write is bounded: per attempt, the leg cap for
\* each leg but the last and the request's cap once (failover.go:58).
SpendBounded ==
  granted <= (attempt + 1)
               * ((Len(chain) - 1) * Least(RequestCap, LegCap) + RequestCap)

\* No wait exceeds a minute, a provider's Retry-After is waited for up to
\* that, and a rate limit that names none waits longer at each attempt
\* (client.go:1223-1247).
WaitsAreBounded ==
  phase = "sleep" =>
    /\ wait \in 1..MaxRetryDelay /\ wait >= Least(err.after, MaxRetryDelay)
    /\ err.code = "rate_limited" /\ err.after = 0 =>
         wait >= Least(5 * 2 ^ Least(attempt - 1, 4), MaxRetryDelay)

\* The reviewer's picture of a completion is true of this client.
State ==
  IF phase = "done" THEN "over" ELSE IF phase = "sleep" THEN "backoff"
  ELSE IF doomed THEN "doomed" ELSE "open"
Result ==
  IF phase # "done" THEN "none"
  ELSE CASE err = NoError -> "answer" [] Deterministic(err) -> "deterministic"
         [] err.kind \in {"runaway", "deadline", "canceled"} -> err.kind
         [] OTHER -> "transient"
Call == INSTANCE BoundedCall
          WITH state <- State, result <- Result, canceled <- (run # "live")

\* Every completion is a bounded call: what it may return and when, what a
\* retry costs, and that it ends (the assumptions of ReviewPass).
IsABoundedCall == Call!Spec

\* "It unwraps to ErrDeterministic, so no retry bucket is spent on it"
\* (client.go:702-704), and a runaway "must NOT draw on the run-global
\* transient bucket" (reviewer.go:555-563).
TerminalSpendsNoBucket == [][phase = "settle" /\ phase' = "sleep" => ranAway = {}]_vars
=============================================================================
