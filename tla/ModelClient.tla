---------------------------- MODULE ModelClient ----------------------------
(***************************************************************************)
(* What a model client is built from and how it reads a provider's reply:  *)
(* the endpoint and the credential inferred from the settings, the chain   *)
(* of legs a call may fall over to, the class of every reply, the failures *)
(* another model may not share, and the wait before a retry.               *)
(*                                                                         *)
(* Pure operators of internal/model/client.go, failover.go and of          *)
(* cmd/cite/fallback.go.  Abstracted: prompts, headers, the wording of an  *)
(* error, usage counters other than the output tokens, the wire capture.   *)
(***************************************************************************)
EXTENDS Integers, Sequences, SequencesExt

GitHubModels == "github"   \* the one endpoint the job's own token opens
OpenAI       == "openai"   \* the endpoint of a key that names none
AmbientToken == "GITHUB_TOKEN"

Least(a, b) == IF a <= b THEN a ELSE b
-----------------------------------------------------------------------------
(* Endpoint and chain.  A setting that names nothing is "".                *)

Client(base, key, model) == [base |-> base, key |-> key, model |-> model]

Named(x, default) == IF x = "" THEN default ELSE x

\* A mutant of Infer: the job's token goes to whatever endpoint is named.
InferTokenEverywhere(ep, token) ==
  <<Client(Named(ep.base, GitHubModels), Named(ep.key, token), Named(ep.model, "gpt-5-mini"))>>

\* The client of endpoint ep, or nothing (as a sequence of at most one).  A
\* key of the operator's own wins; a named endpoint without one takes the
\* job's token only when it is GitHub Models; naming nothing infers that.
Infer(ep, token) ==
  LET own      == ep.key # ""
      base     == IF own THEN Named(ep.base, OpenAI) ELSE Named(ep.base, GitHubModels)
      ambient  == ~own /\ base = GitHubModels
      default  == IF ambient THEN "gpt-4o-mini" ELSE "gpt-5-mini"
  IN IF ~own /\ ep.base = "" /\ token = ""
     THEN <<>>
     ELSE <<Client(base, IF ambient THEN token ELSE ep.key, Named(ep.model, default))>>

\* The leg of a fallback reference.  A reference qualified by a provider takes
\* that provider's endpoint and key (a key that does not resolve is ""); a
\* bare one the configured endpoint and key, never the inferred ones.
LegFor(ref, ep, providers) ==
  IF ref.provider = "" THEN <<Client(Named(ep.base, OpenAI), ep.key, ref.model)>>
  ELSE IF ref.provider \in DOMAIN providers
       THEN LET p == providers[ref.provider] IN <<Client(p.base, p.key, ref.model)>>
       ELSE <<>>

AddLeg(legs, leg) ==
  IF \/ leg.model = ""
     \/ \E i \in DOMAIN legs : legs[i].base = leg.base /\ legs[i].model = leg.model
  THEN legs
  ELSE Append(legs, leg)

\* A fallback whose key does not resolve is left out.
Resolved(ref, ep, providers) ==
  LET leg == LegFor(ref, ep, providers)
  IN IF leg # <<>> /\ leg[1].key = "" THEN <<>> ELSE leg

FallbackLegs(refs, ep, providers) ==
  FlattenSeq([i \in DOMAIN refs |-> Resolved(refs[i], ep, providers)])

\* The chain: the primary, the models named on the command line at the
\* primary's own endpoint, the references of the configuration.
NewModelClient(primary, ids, refs, ep, providers) ==
  FoldLeft(AddLeg, <<primary>>,
           [i \in DOMAIN ids |-> [primary EXCEPT !.model = ids[i]]]
             \o FallbackLegs(refs, ep, providers))
-----------------------------------------------------------------------------
(* Replies and errors.                                                     *)

Statuses == {400, 401, 403, 404, 410, 418, 422, 429, 500, 503}

\* What may come back of a request that asked for at most cap output tokens
\* (0: no cap).  "hollow" is a completion without choices, "envelope" one
\* with an error in it instead; a choice ends by itself or at the token cap,
\* with or without a tool call, content and a reasoning trace, and reports
\* the output tokens spent or none.
Failures(afters) ==
  [shape : {"status"}, status : Statuses, after : afters]
    \cup [shape : {"unreachable", "cut", "junk", "hollow", "envelope"}]
Completions(cap) ==
  [shape : {"choice"}, finish : {"stop", "length"},
   tool : {"none", "offered", "blank", "other"},
   content : BOOLEAN, reasoning : BOOLEAN, reported : {0, cap}]

Error(kind) == [kind |-> kind, code |-> "", terminal |-> FALSE, after |-> 0]
NoError     == Error("none")
Typed(code, terminal, after) ==
  [kind |-> "typed", code |-> code, terminal |-> terminal, after |-> after]

Terminal(status) == status \in {400, 401, 403, 404, 410, 422}
StatusCode(status) ==
  CASE status = 429         -> "rate_limited"
    [] status \in {401, 403} -> "auth"
    [] status \in {404, 410} -> "model_unavailable"
    [] status \in {400, 422} -> "bad_request"
    [] status >= 500        -> "provider_unavailable"
    [] OTHER                -> "provider_error"

\* In tools mode the answer is the argument of the first call of the offered
\* tool, unless it is blank; otherwise it is the content.
HasAnswer(choice, tools) == (tools /\ choice.tool = "offered") \/ choice.content

RunawayGeneration(answer, reasoning, reported, cap) ==
  ~answer /\ (reasoning \/ (cap > 0 /\ reported >= cap))

\* What Complete returns for a reply read in time: NoError is a response.
ErrorOf(reply, tools, cap) ==
  CASE reply.shape = "status" ->
         Typed(StatusCode(reply.status), Terminal(reply.status), reply.after)
    [] reply.shape = "cut"         -> Error("unread")
    [] reply.shape = "unreachable" -> Error("unreachable")
    [] reply.shape \in {"junk", "hollow"} -> Typed("malformed_response", FALSE, 0)
    [] reply.shape = "envelope"    -> Typed("provider_error", TRUE, 0)
    [] OTHER ->
         IF reply.finish # "length" THEN NoError
         ELSE IF /\ reply.tool = "none"
                 /\ RunawayGeneration(HasAnswer(reply, tools), reply.reasoning,
                                      reply.reported, cap)
              THEN Error("runaway") ELSE Error("overflow")

\* errors.Is(err, ErrDeterministic): a truncated answer and a terminal status.
Deterministic(err) == err.kind = "overflow" \/ err.terminal

\* A mutant of FailsOver: a rate limit is not worth another model.
FailsOverUnlessLimited(err) ==
  err.kind \in {"runaway", "overflow", "unreachable"} \/ err.terminal

FailsOver(err) ==
  \/ err.kind \in {"runaway", "unreachable"} \/ Deterministic(err)
  \/ err.code \in {"malformed_response", "rate_limited", "provider_unavailable",
                   "provider_error"}
-----------------------------------------------------------------------------
(* Waits, in seconds.                                                      *)

MaxRetryDelay == 60

\* A mutant of RetryDelay: what the provider asks for is not bounded.
RetryDelayUnbounded(err, attempt) == IF err.after > 0 THEN {err.after} ELSE {2}

\* The waits RetryDelay may pick: the provider's own, or a base doubled per
\* attempt, with up to a fifth added (the two ends of that range).
RetryDelay(err, attempt) ==
  LET base == IF err.code = "rate_limited" THEN 5 ELSE 2
      d    == base * 2 ^ Least(attempt, 4)
  IN IF err.after > 0 THEN {Least(err.after, MaxRetryDelay)}
     ELSE {Least(w, MaxRetryDelay) : w \in {d, d + d \div 5}}
=============================================================================
