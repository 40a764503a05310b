--------------------------- MODULE EnvironmentLoader ---------------------------
(***************************************************************************)
(* An environment from its file to the requests that use it: the loader    *)
(* (src/env/loader.ts and the modules it calls), the strategy registry of  *)
(* the run built from what was loaded (src/auth/strategy-registry.ts), and *)
(* the credential an endpoint's request gets (applyAuthForCase in          *)
(* src/runner/execute/endpoint-executor.ts).                               *)
(*                                                                         *)
(* There are two secret registries: the loader's, and the run's, which     *)
(* starts empty.  Which fetched token is still good is TokenEndpoint's     *)
(* subject, and when the strategies are closed is Runner's: here a request *)
(* gets any token that was issued.                                         *)
(***************************************************************************)
EXTENDS AuthConfig

CONSTANTS
  Worlds,        \* the environments read: see Init
  BadNames,      \* keys that are no connection names
  Issued,        \* tokens a token endpoint may answer with
  MaxSent        \* requests of a run

VARIABLES
  world,         \* name_ok, dot and dir (the two files), penv, headers
  stage,         \* how far the loader and the run have come
  config,        \* the tree under resolution
  loaderSecrets, \* the loader's registry
  runSecrets,    \* the run's registry, in the order of registration
  specs,         \* the strategies of the run
  sent           \* requests under this run: strategy, mode, headers

vars == <<world, stage, config, loaderSecrets, runSecrets, specs, sent>>

\* A file is missing, unreadable, no YAML, tagged, blank, or yields a value.
File(state) == [state |-> state]
Yaml(v) == [state |-> "yaml", value |-> v]

-----------------------------------------------------------------------------
(* Reading.                                                                *)

ReadYamlFile(file) ==
  CASE file.state = "missing" -> "not_found"
    [] file.state = "unreadable" -> "unreadable"
    [] file.state \in {"broken", "tagged"} -> "malformed"
    [] file.state = "blank" -> "empty"
    [] file.state = "yaml" ->
         IF file.value = Null THEN "empty"
         ELSE IF Kind(file.value) = "obj" THEN "ok" ELSE "malformed"

\* Only a dot file that does not exist lets the directory file be read.
Located(w) == IF ReadYamlFile(w.dot) = "not_found" THEN w.dir ELSE w.dot

\* Variant: the override's top-level sections replace those of the base.
ShallowMerge(base, over) ==
  Map([k \in DOMAIN base[2] \union DOMAIN over[2] |->
         IF k \in DOMAIN over[2] THEN over[2][k] ELSE base[2][k]])

RECURSIVE DeepMerge(_, _)
DeepMerge(base, over) ==
  IF Kind(base) # "obj" \/ Kind(over) # "obj" THEN over
  ELSE Map([k \in DOMAIN base[2] \union DOMAIN over[2] |->
              IF k \notin DOMAIN over[2] THEN base[2][k]
              ELSE IF k \notin DOMAIN base[2] THEN over[2][k]
              ELSE DeepMerge(base[2][k], over[2][k])])

\* The section environments goes, whether or not it has this environment.
BaseOf(data) ==
  IF Kind(CoerceOptional(data, "environments")) # "obj" THEN data
  ELSE Map([k \in DOMAIN data[2] \ {"environments"} |-> data[2][k]])
OverrideOf(data, name) ==
  LET all == CoerceOptional(data, "environments")
  IN  IF Kind(all) = "obj" /\ Kind(CoerceOptional(all, name)) = "obj" THEN all[2][name]
      ELSE Map(Empty)

ApplyEnvironmentOverrides(data, name) == DeepMerge(BaseOf(data), OverrideOf(data, name))

-----------------------------------------------------------------------------
(* References.                                                             *)

\* What a value is inside a string; a list or a mapping is its JSON text.
RECURSIVE Stringify(_)
Stringify(v) ==
  CASE Kind(v) = "str" -> v[2]
    [] Kind(v) = "arr" ->
         <<Lit("[")>> \o FlattenSeq([i \in DOMAIN v[2] |-> Stringify(v[2][i])]) \o <<Lit("]")>>
    [] Kind(v) = "obj" ->
         LET keys == SetToSeq(DOMAIN v[2])
         IN  <<Lit("{")>> \o FlattenSeq([i \in DOMAIN keys |-> Stringify(v[2][keys[i]])])
               \o <<Lit("}")>>
    [] OTHER -> <<<<"json", v>>>>

\* A string that is one reference takes the value, type and all.  The values are
\* those of env as it is: what a reference brings in is not resolved again.
ResolveString(text, env) ==
  LET ValueAt(fragment) == LookupPath(env, Tail(fragment[2]))[2]
  IN  IF Len(text) = 1 /\ IsRef(text[1], "env") THEN ValueAt(text[1])
      ELSE Str(FlattenSeq([i \in DOMAIN text |->
             IF IsRef(text[i], "env") THEN Stringify(ValueAt(text[i])) ELSE <<text[i]>>]))

ResolveTemplates(tree, env) ==
  LET refs == UNION {RefsIn(text, "env") : text \in WalkStrings(tree)}
  IN  IF \E path \in refs : ~IsFound(LookupPath(env, path)) THEN Fault("unresolved reference")
      ELSE Ok(MapTree(tree, [text \in WalkStrings(tree) |-> ResolveString(text, env)]))

\* ${secret. and } around a name that a template put there are a reference now.
Retokenised(text) ==
  LET Whole(i) == /\ i \in DOMAIN text /\ i + 2 \in DOMAIN text
                  /\ text[i] = Open /\ text[i + 1][1] = "lit" /\ text[i + 2] = Close
  IN  FlattenSeq([i \in DOMAIN text |->
        IF Whole(i) THEN <<Ref(<<"secret", text[i + 1][2]>>)>>
        ELSE IF Whole(i - 1) \/ Whole(i - 2) THEN <<>> ELSE <<text[i]>>])

SecretNames(tree) ==
  {ref[1] : ref \in UNION {RefsIn(Retokenised(text), "secret") : text \in WalkStrings(tree)}}
MissingSecrets(tree, penv) ==
  {n \in SecretNames(tree) : n \notin DOMAIN penv \/ penv[n] = <<>>}

Substitute(text, penv) ==
  FlattenSeq([i \in DOMAIN text |->
    IF IsRef(text[i], "secret") THEN penv[text[i][2][2]] ELSE <<text[i]>>])

Redacted == <<Lit("[REDACTED]")>>

\* Variant: each value in the order it comes, the shorter one first.
RedactShortest(text, secrets) ==
  LET Step(acc, secret) == ReplaceEvery(acc, secret, Redacted)
  IN  FoldLeft(Step, text, SetToSortSeq(secrets, LAMBDA a, b : Len(a) < Len(b)))

\* The longest value first.
RedactSecrets(text, secrets) ==
  LET Step(acc, secret) == ReplaceEvery(acc, secret, Redacted)
  IN  FoldLeft(Step, text, SetToSortSeq(secrets, LAMBDA a, b : Len(a) > Len(b)))

-----------------------------------------------------------------------------
(* The schema and the names of connections.                                *)

Entries(env, section) ==
  LET v == CoerceOptional(env, section) IN IF Kind(v) = "obj" THEN v[2] ELSE Empty

\* A section that is null is not absent for the schema.
SectionValid(env, section, types) ==
  section \in DOMAIN env[2] =>
    /\ Kind(env[2][section]) = "obj"
    /\ \A e \in {env[2][section][2][k] : k \in DOMAIN env[2][section][2]} :
         Kind(e) = "obj" /\ "type" \in DOMAIN e[2] /\ e[2]["type"] \in {Text(t) : t \in types}

SchemaValid(env) ==
  /\ {"name", "base_url", "prod"} \subseteq DOMAIN env[2]
  /\ \A k \in {"name", "base_url"} : Kind(env[2][k]) = "str" /\ env[2][k][2] # <<>>
  /\ Kind(env[2]["prod"]) = "bool"
  /\ "default_sla_ms" \in DOMAIN env[2] =>
       LET v == env[2]["default_sla_ms"]
       IN  Kind(v) = "num" /\ v[2][2] = 1 /\ v[2][1] >= 0
  /\ SectionValid(env, "databases", {"postgres", "mysql", "mongodb", "neo4j"})
  /\ SectionValid(env, "auth_strategies", {"static_token", "token_endpoint"})

ConnectionNamesValid(env) ==
  LET dbs == DOMAIN Entries(env, "databases") auths == DOMAIN Entries(env, "auth_strategies")
  IN  (dbs \union auths) \intersect BadNames = {} /\ dbs \intersect auths = {}

-----------------------------------------------------------------------------
(* The load, one step of the pipeline at a time.                           *)

Init ==
  /\ world \in Worlds
  /\ stage = "start"
  /\ config = Map(Empty)
  /\ loaderSecrets = {} /\ runSecrets = <<>>
  /\ specs = Empty
  /\ sent = <<>>

Reach(next, tree) == stage' = next /\ config' = tree
RunUnchanged == UNCHANGED <<world, runSecrets, specs, sent>>

Locate ==
  /\ stage = "start"
  /\ LET file == Located(world)
     IN  IF world.name_ok /\ ReadYamlFile(file) = "ok" THEN Reach("located", file.value)
         ELSE Reach("failed", config)
  /\ UNCHANGED loaderSecrets /\ RunUnchanged

Merge ==
  /\ stage = "located"
  /\ Reach("merged", ApplyEnvironmentOverrides(config, world.name))
  /\ UNCHANGED loaderSecrets /\ RunUnchanged

Template ==
  /\ stage = "merged"
  /\ LET result == ResolveTemplates(config, config)
     IN  IF result.ok THEN Reach("templated", result.value) ELSE Reach("failed", config)
  /\ UNCHANGED loaderSecrets /\ RunUnchanged

\* One secret that is missing or empty, and none is registered.
ResolveSecrets ==
  /\ stage = "templated"
  /\ IF MissingSecrets(config, world.penv) # {}
     THEN Reach("failed", config) /\ UNCHANGED loaderSecrets
     ELSE /\ Reach("resolved",
                   MapTree(config, [text \in WalkStrings(config) |->
                                      Str(Substitute(Retokenised(text), world.penv))]))
          /\ loaderSecrets' = {world.penv[n] : n \in SecretNames(config)}
  /\ RunUnchanged

Validate ==
  /\ stage = "resolved"
  /\ Reach(IF SchemaValid(config) /\ ConnectionNamesValid(config) THEN "valid" ELSE "failed",
           config)
  /\ UNCHANGED loaderSecrets /\ RunUnchanged

-----------------------------------------------------------------------------
(* The run's strategies.  A name the registry does not know throws and     *)
(* sends nothing.                                                          *)

RegisterAll(secrets, more) ==
  LET Add(acc, s) == IF s \in ToSet(acc) THEN acc ELSE Append(acc, s)
  IN  FoldLeft(Add, secrets, more)

\* Every entry is parsed before any fault is reported, unless a parse throws.
\* The order of the entries is any.
OpenRegistry ==
  /\ stage = "valid"
  /\ LET entries == Entries(config, "auth_strategies")
         parsed  == [n \in DOMAIN entries |-> ParseAuthStrategyConfig(entries[n])]
         static  == {parsed[n].value.token :
                       n \in {m \in DOMAIN parsed : parsed[m].ok
                                /\ parsed[m].value.kind = "static_token"}}
     IN  IF \A n \in DOMAIN parsed : parsed[n].ok
         THEN /\ Reach("open", config)
              /\ specs' = [n \in DOMAIN parsed |-> parsed[n].value]
              /\ \E order \in SetToSeqs(static) : runSecrets' = RegisterAll(runSecrets, order)
         ELSE Reach("failed", config) /\ UNCHANGED <<specs, runSecrets>>
  /\ UNCHANGED <<world, loaderSecrets, sent>>

Authorized(name, token) ==
  AttachAuthHeader(world.headers, specs[name].header, specs[name].headerValue, token)

\* What the mode of the case makes of the headers, and the request it becomes.
Send(name, mode, token, secrets) ==
  sent' = Append(sent,
    [name |-> name, mode |-> mode, token |-> token,
     headers |->
       CASE mode = "apply" -> Authorized(name, token)
         [] mode = "garbage" ->
              GarbageTokenMangle(Authorized(name, token),
                                 Entries(config, "auth_strategies")[name], secrets)])

ApplyStatic ==
  /\ stage = "open" /\ Len(sent) < MaxSent
  /\ \E name \in DOMAIN specs, mode \in {"apply", "garbage"} :
       /\ specs[name].kind = "static_token"
       /\ runSecrets' = RegisterAll(runSecrets, <<specs[name].token>>)
       /\ Send(name, mode, specs[name].token, runSecrets')
  /\ UNCHANGED <<world, stage, config, loaderSecrets, specs>>

\* A token from the cache, or a new one, registered before it is used.
ApplyFetched ==
  /\ stage = "open" /\ Len(sent) < MaxSent
  /\ \E name \in DOMAIN specs, mode \in {"apply", "garbage"}, token \in Issued :
       /\ specs[name].kind = "token_endpoint"
       /\ runSecrets' = RegisterAll(runSecrets, <<token>>)
       /\ Send(name, mode, token, runSecrets')
  /\ UNCHANGED <<world, stage, config, loaderSecrets, specs>>

Next ==
  \/ Locate \/ Merge \/ Template \/ ResolveSecrets \/ Validate
  \/ OpenRegistry \/ ApplyStatic \/ ApplyFetched

Spec == Init /\ [][Next]_vars
-----------------------------------------------------------------------------
(* Properties.                                                             *)

RECURSIVE Leaves(_)
Leaves(v) ==
  IF Kind(v) # "obj" THEN {<< <<>>, v >>}
  ELSE UNION {{<< <<k>> \o leaf[1], leaf[2] >> : leaf \in Leaves(v[2][k])} : k \in DOMAIN v[2]}

\* What of a file stands for this environment once its overrides are laid over
\* it: every leaf of the overrides, and every leaf of the rest of the file that
\* the overrides leave room for.
LayeredLeaves(data, name) ==
  LET sectioned == "environments" \in DOMAIN data[2] /\ Kind(data[2]["environments"]) = "obj"
      here      == IF ~sectioned THEN NotFound ELSE LookupPath(data, <<"environments", name>>)
      over      == IF IsFound(here) /\ Kind(here[2]) = "obj" THEN here[2] ELSE Map(Empty)
      LeavesRoom(path) ==
        \A i \in 1 .. Len(path) :
          LET at == LookupPath(over, SubSeq(path, 1, i))
          IN  IsFound(at) => (i < Len(path) /\ Kind(at[2]) = "obj")
  IN  Leaves(over) \union
        {leaf \in Leaves(data) : LeavesRoom(leaf[1])
           /\ (sectioned => Head(leaf[1]) # "environments")}

\* The configuration that is resolved is the first of the two files that exists
\* with the environment's overrides laid over it leaf by leaf, and nothing of
\* another environment's (env/loader.ts locate, applyEnvironmentOverrides and
\* deepMerge).
ConfigIsLayered ==
  stage = "merged" =>
    LET file == IF world.dot.state = "missing" THEN world.dir ELSE world.dot
    IN  Leaves(config) = LayeredLeaves(file.value, world.name)

\* A reference to a value that holds references, or a secret that does.
Chained(tree) ==
  \/ \E text \in WalkStrings(tree) : \E path \in RefsIn(text, "env") :
       \E inner \in WalkStrings(LookupPath(tree, path)[2]) : RefsIn(inner, "env") # {}
  \/ \E n \in DOMAIN world.penv : \E i \in DOMAIN world.penv[n] : world.penv[n][i][1] = "ref"

\* When no reference leads to another, no ${env.*} and no ${secret.*} is left in
\* any string of a configuration that was resolved (keys are not visited,
\* tree-walk.ts:11): not in a list, not in a value
\* that another reference brought in, not where a template completed the name of
\* a secret (env/template-resolver.ts resolveTemplates and env/secrets.ts
\* resolveSecrets, in this order).
NothingLeftToResolve ==
  stage \in {"resolved", "valid", "open"}
    /\ ~Chained(ApplyEnvironmentOverrides(Located(world).value, world.name))
  => \A text \in WalkStrings(config) :
       RefsIn(Retokenised(text), "env") = {} /\ RefsIn(Retokenised(text), "secret") = {}

Material(text, kinds) == {i \in DOMAIN text : text[i][1] \in kinds}

\* Redaction with the values registered leaves nothing of a secret in a
\* configuration that holds it, valid or refused, and nothing of the token in a
\* request that authenticates, though one secret may be part of another
\* (env/redactor.ts redactSecrets; env/secrets.ts, auth/strategies).  The garbage
\* is put in by the order of registration: after it the rest of a longer token
\* may stand there.
SecretsStayRedacted ==
  /\ \A text \in WalkStrings(config) :
       Material(RedactSecrets(text, loaderSecrets), {"key"}) = {}
  /\ \A r \in {q \in ToSet(sent) : q.mode = "apply"} : \A h \in DOMAIN r.headers :
       Material(RedactSecrets(r.headers[h], ToSet(runSecrets)), {"tok"}) = {}

\* A request that authenticates has the credential in the one header of the
\* configured name, whatever the spelling of the author's own, and its other
\* headers as they were; the request of the garbage case has the garbage there
\* and not the credential (header-attacher.ts attachAuthHeader and
\* garbage-token-mangle.ts apply).
CredentialFitsCase ==
  \A r \in ToSet(sent) :
    LET spec   == specs[r.name]
        same   == {h \in DOMAIN r.headers : LowerCase[h] = LowerCase[spec.header]}
        value  == r.headers[spec.header]
        Holds(text) == OccursAt(text, value, DOMAIN value)
        templated == \E i \in DOMAIN spec.headerValue : spec.headerValue[i] = TokenRef
    IN  /\ same = {spec.header}
        /\ \A h \in DOMAIN r.headers \union DOMAIN world.headers :
             LowerCase[h] # LowerCase[spec.header] =>
               /\ h \in DOMAIN r.headers /\ h \in DOMAIN world.headers
               /\ r.mode = "apply" => r.headers[h] = world.headers[h]
        /\ templated => IF r.mode = "apply" THEN Holds(r.token) /\ ~Holds(Garbage)
                        ELSE Holds(Garbage) /\ ~Holds(r.token)
=============================================================================
