--------------------------- MODULE Configuration ---------------------------
(***************************************************************************)
(* The configuration of a run: an ordered list of files merged into one    *)
(* tree (internal/config), the roles resolved from it, and the flags and   *)
(* variables that go before it (cmd/cite/settings.go).                     *)
(*                                                                         *)
(* A key is the path to a value that is not a mapping, such as             *)
(* <<"roles", "review", "timeout">>; a tree is a function from keys.  A    *)
(* model reference is <<provider, id>>, or <<name>> for a bare one; a      *)
(* timeout is in seconds, and a number below 0 one that does not parse; a  *)
(* member of paths_ignore is the sequence of the pieces that the text      *)
(* ", " parts it into.                                                     *)
(***************************************************************************)
EXTENDS Integers, Sequences, FiniteSets, SequencesExt, FiniteSetsExt, Functions

CONSTANTS
  None,
  FileAt,        \* what is at each path: [state, says]
  MayBlock,      \* the categories that may ever block
  Categories,    \* the closed vocabulary
  MaxCommentsCap,
  Numbers,       \* the texts that are byte counts, and what they count
  ReviewTimeoutBase, AssumedGenerationRate, DefaultReviewTimeout,
  DefaultReviewMaxOutputTokens, DefaultTimeout, DefaultReviewConcurrency

Roles == {"review", "triage"}
RoleFields == {"model", "timeout", "max_output_tokens", "concurrency"}
ProviderFields == {"base_url", "api", "models"}
Known ==
  {<<k>> : k \in {"model", "max_comments", "nits", "blocking_categories", "fallback",
                  "model_id", "verify", "require_parameters", "capture_max_bytes",
                  "gate", "compat_profile", "paths_ignore"}}
  \cup {<<"roles", r, f>> : r \in Roles, f \in RoleFields}

IsKnown(key) ==
  \/ key \in Known
  \/ Len(key) = 3 /\ key[1] = "providers" /\ key[3] \in ProviderFields

\* What a configuration that says nothing has.
builtinDefaults ==
  [max_comments |-> 10, nits |-> FALSE, verify |-> TRUE, require_parameters |-> FALSE,
   blocking_categories |-> <<"crash", "injection">>, fallback |-> <<>>,
   gate |-> "", compat_profile |-> "2026-08", paths_ignore |-> <<>>,
   model |-> <<"openai", "gpt-5-mini">>]

ProviderNames(tree) == {key[2] : key \in {k \in DOMAIN tree : k[1] = "providers"}}

(***************************************************************************)
(* The schema.  A problem is the key it is about.                          *)
(***************************************************************************)
checkNumeric(key, value) ==
  CASE key = <<"max_comments">> -> value \in 0 .. MaxCommentsCap
    [] key = <<"capture_max_bytes">> \/ key[Len(key)] \in {"max_output_tokens", "concurrency"} ->
         value >= 1
    [] key[Len(key)] = "timeout" -> value >= 0
    [] key = <<"blocking_categories">> -> ToSet(value) \subseteq Categories
    [] key = <<"gate">> -> value \in {"comment", "block"}
    [] key = <<"compat_profile">> -> value # ""
    [] key = <<"paths_ignore">> -> \A glob \in ToSet(value) : glob # <<"">>
    [] OTHER -> TRUE

\* One file of a list: what it leaves out another may say.
schemaCheckFile(tree) == {key \in DOMAIN tree : ~IsKnown(key) \/ ~checkNumeric(key, tree[key])}

\* The required fields that a tree lacks.
Missing(tree) ==
  {<<"providers", p, f>> : p \in ProviderNames(tree), f \in {"base_url", "api"}} \ DOMAIN tree

(***************************************************************************)
(* The merged configuration.                                               *)
(***************************************************************************)
\* A mutant of mergeTrees: the earlier value stays.
mergeKeeping(dst, src) ==
  [key \in DOMAIN dst \cup DOMAIN src |-> IF key \in DOMAIN dst THEN dst[key] ELSE src[key]]

\* Mappings merge, so the keys do; scalars and sequences are replaced.
mergeTrees(dst, src) ==
  [key \in DOMAIN dst \cup DOMAIN src |-> IF key \in DOMAIN src THEN src[key] ELSE dst[key]]

Get(tree, key, default) == IF key \in DOMAIN tree THEN tree[key] ELSE default
Top(tree, name) == Get(tree, <<name>>, builtinDefaults[name])

buildConfig(tree) ==
  [model |-> Top(tree, "model"), MaxComments |-> Top(tree, "max_comments"),
   Nits |-> Top(tree, "nits"), BlockingCategories |-> Top(tree, "blocking_categories"),
   Fallback |-> Top(tree, "fallback"), RequireParameters |-> Top(tree, "require_parameters"),
   Gate |-> Top(tree, "gate"), CompatProfile |-> Top(tree, "compat_profile"),
   PathsIgnore |-> Top(tree, "paths_ignore"),
   ModelID |-> Get(tree, <<"model_id">>, ""), Verify |-> Get(tree, <<"verify">>, None),
   CaptureMaxBytes |-> Get(tree, <<"capture_max_bytes">>, 0),
   Providers |-> [p \in ProviderNames(tree) |->
     [base_url |-> Get(tree, <<"providers", p, "base_url">>, ""),
      api |-> Get(tree, <<"providers", p, "api">>, ""),
      Models |-> Get(tree, <<"providers", p, "models">>, <<>>)]],
   Roles |-> [r \in Roles |->
     [model |-> Get(tree, <<"roles", r, "model">>, None),
      timeout |-> Get(tree, <<"roles", r, "timeout">>, None),
      max_output_tokens |-> Get(tree, <<"roles", r, "max_output_tokens">>, 0),
      concurrency |-> Get(tree, <<"roles", r, "concurrency">>, 0)]]]

\* A mutant of Resolves: a provider that is declared is enough.
ResolvesToProvider(c, ref) ==
  IF Len(ref) = 1 THEN DOMAIN c.Providers = {} ELSE ref[1] \in DOMAIN c.Providers

\* A reference to a model: a bare name only where no provider is declared.
Resolves(c, ref) ==
  IF Len(ref) = 1 THEN DOMAIN c.Providers = {}
  ELSE ref[1] \in DOMAIN c.Providers
       /\ \E m \in ToSet(c.Providers[ref[1]].Models) : m.id = ref[2]

checkModelRefs(c) ==
  {<<"roles", r, "model">> : r \in {x \in Roles : c.Roles[x].model # None
                                                   /\ ~Resolves(c, c.Roles[x].model)}}
  \cup (IF \E i \in DOMAIN c.Fallback : ~Resolves(c, c.Fallback[i]) THEN {<<"fallback">>} ELSE {})

checkBlockingSet(c) ==
  IF IsInjective(c.BlockingCategories) /\ ToSet(c.BlockingCategories) \subseteq MayBlock THEN {}
  ELSE {<<"blocking_categories">>}

checkRoleSpecs(c) ==
  {<<"roles", r, "timeout">> : r \in {x \in Roles : c.Roles[x].timeout # None
                                                    /\ c.Roles[x].timeout <= 0}}

validate(c) == checkModelRefs(c) \cup checkBlockingSet(c) \cup checkRoleSpecs(c)

\* The keys that decide what a run concludes.
verdictRoots == {"blocking_categories", "compat_profile", "gate", "max_comments", "nits",
                 "paths_ignore", "roles"}

DefaultOf(key) ==
  IF Len(key) = 1 /\ key[1] \in DOMAIN builtinDefaults THEN builtinDefaults[key[1]] ELSE None

\* The text of a value: the members of a list are parted by ", ", whatever is in
\* them (a category has none).
renderValue(key, value) == IF key = <<"paths_ignore">> THEN FlattenSeq(value) ELSE value

\* What a tree makes of a key, as text.
Rendered(tree, key) == renderValue(key, Get(tree, key, DefaultOf(key)))

\* A mutant of verdictOverrides: the keys no earlier file says are not told.
verdictOverridesSaid(merged, next, file) ==
  {[key |-> key, file |-> file] : key \in
     {k \in DOMAIN next : /\ k[1] \in verdictRoots /\ k \in DOMAIN merged
                          /\ Rendered(merged, k) # renderValue(k, next[k])}}

verdictOverrides(merged, next, file) ==
  {[key |-> key, file |-> file] : key \in
     {k \in DOMAIN next : k[1] \in verdictRoots /\ Rendered(merged, k) # renderValue(k, next[k])}}

\* Before the first file of the list, and after one more.
Unread == [read |-> <<>>, tree |-> <<>>, probs |-> {}, overrides |-> {},
           sources |-> <<>>, broken |-> FALSE]

ReadFile(acc, path) ==
  LET file == FileAt[path]
      read == Append(acc.read, path)
  IN IF acc.broken THEN acc
     ELSE CASE file.state = "absent"  -> acc
            [] file.state = "broken"  -> [acc EXCEPT !.broken = TRUE]
            [] file.state = "blank"   -> [acc EXCEPT !.read = read]
            [] file.state = "list"    -> [acc EXCEPT !.read = read, !.probs = @ \cup {<<>>}]
            [] file.state = "mapping" ->
                 [acc EXCEPT !.read = read, !.probs = @ \cup schemaCheckFile(file.says),
                    !.overrides = IF acc.read = <<>> THEN @
                                  ELSE @ \cup verdictOverrides(acc.tree, file.says, path),
                    !.sources = mergeTrees(@, [key \in DOMAIN file.says |-> path]),
                    !.tree = mergeTrees(@, file.says)]

LoadFiles(paths) ==
  LET all == FoldLeft(ReadFile, Unread, paths)
      probs == IF all.probs # {} THEN all.probs ELSE validate(buildConfig(all.tree))
  IN [ok |-> ~all.broken /\ probs = {}, probs |-> probs, read |-> all.read, tree |-> all.tree,
      sources |-> all.sources, overrides |-> all.overrides]

\* The lines of --effective: where the value of a key comes from.
sourceOf(loaded, key) == Get(loaded.sources, key, "built-in default")

(***************************************************************************)
(* Roles.                                                                  *)
(***************************************************************************)
DerivedReviewTimeout(tokens) ==
  LET cap == IF tokens <= 0 THEN DefaultReviewMaxOutputTokens ELSE tokens
  IN Max({ReviewTimeoutBase + cap \div AssumedGenerationRate, DefaultReviewTimeout})

modelEntryMaxTokens(c, ref) ==
  IF Len(ref) = 1 \/ ref[1] \notin DOMAIN c.Providers THEN 0
  ELSE LET models == c.Providers[ref[1]].Models
           i == SelectInSeq(models, LAMBDA m : m.id = ref[2])
       IN IF i = 0 THEN 0 ELSE models[i].max_tokens

resolveRole(c, role) ==
  LET spec == c.Roles[role]
      ref == IF spec.model = None THEN c.model ELSE spec.model
      default == IF role = "review" THEN DefaultReviewMaxOutputTokens ELSE 0
      advertised == modelEntryMaxTokens(c, ref)
      cap == IF spec.max_output_tokens > 0 THEN spec.max_output_tokens
             ELSE IF advertised > 0 THEN advertised ELSE default
      pinned == spec.timeout # None /\ spec.timeout > 0
  IN [Model |-> ref, MaxOutputTokens |-> cap,
      Concurrency |-> IF spec.concurrency > 0 THEN spec.concurrency
                      ELSE IF role = "review" THEN DefaultReviewConcurrency ELSE 0,
      Timeout |-> IF pinned THEN spec.timeout
                  ELSE IF role = "review" THEN DerivedReviewTimeout(cap) ELSE DefaultTimeout]

(***************************************************************************)
(* Flags and variables.  A flag that is not given is None; a variable that *)
(* is not set is "", one of blanks is " ".                                 *)
(***************************************************************************)
Blank == {"", " "}
Off == {"0", "off"}

stringFlag(flag, env, file) ==
  IF flag # None THEN [value |-> flag, from |-> "flag"]
  ELSE IF env \notin Blank THEN [value |-> env, from |-> "env"]
  ELSE IF file # "" THEN [value |-> file, from |-> "config"]
  ELSE [value |-> "", from |-> "default"]

\* Two flags write a boolean, --x and --no-x; meant is what the variable means.
triBool(on, off, env, meant, file, default) ==
  IF on # None THEN [value |-> on, from |-> "flag"]
  ELSE IF off # None THEN [value |-> ~off, from |-> "flag"]
  ELSE IF env \notin Blank THEN [value |-> meant, from |-> "env"]
  ELSE IF file # None THEN [value |-> file, from |-> "config"]
  ELSE [value |-> default, from |-> "default"]

configList(c) ==
  IF c.flag \o c.arguments # <<>> THEN c.flag \o c.arguments
  ELSE IF c.env # <<>> THEN c.env ELSE c.default

\* A byte count that is none falls to the file.
captureMax(flag, env, file) ==
  LET raw == stringFlag(flag, env, "")
      good == raw.value \in DOMAIN Numbers
  IN IF good THEN [value |-> Numbers[raw.value], from |-> raw.from]
     ELSE IF file # 0 THEN [value |-> file, from |-> "config"]
     ELSE [value |-> 0, from |-> raw.from]

\* The run asked for by q: its list of files, its flags, its variables.
resolveSettings(q) ==
  LET loaded == LoadFiles(configList(q.list))
      c == buildConfig(loaded.tree)
  IN [loaded |-> loaded, cfg |-> c,
      ModelID |-> stringFlag(q.flags.model_id, q.env.model_id, c.ModelID),
      Verify |-> triBool(q.flags.verify, q.flags.no_verify, q.env.verify,
                         q.env.verify \notin Off, c.Verify, TRUE),
      RequireParams |-> triBool(q.flags.require_parameters, None, q.env.require_parameters,
                                q.env.require_parameters = "1", None, FALSE).value \/ c.RequireParameters,
      CaptureMaxBytes |-> captureMax(q.flags.capture, q.env.capture, c.CaptureMaxBytes)]
=============================================================================
