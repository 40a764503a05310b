----------------------------- MODULE RunCommand -----------------------------
(***************************************************************************)
(* `apiwright run', from its flags to its exit code: src/cli's entry, run  *)
(* command, settings and prod-safety gate; src/runner's discovery, plan    *)
(* and filters up to the run itself, which module Runner details; and the  *)
(* reports.  `apiwright validate' on the same files is an operator.        *)
(*                                                                         *)
(* A world is what one invocation finds:                                   *)
(*   tests   the tests directory [exists, readable, files], files in the   *)
(*           order of their paths; a path is a sequence of pieces          *)
(*   config  apiwright.config.json, merged with the defaults               *)
(*   flags   the command line, NoFlag where a flag is absent               *)
(*   env     the chosen environment: the names and strategies it declares, *)
(*           those any environment declares, and those that hold a secret  *)
(*   host    the CI and ALLOW_PROD_DESTRUCTIVE variables                   *)
(* No field of it changes while the command runs.  The catalog enters as    *)
(* constants; module CatalogRun puts TestCatalog in their place.           *)
(***************************************************************************)
EXTENDS Sharder, FiniteSets, SequencesExt

CONSTANTS
  Worlds,          \* the invocations considered
  Plan(_, _),      \* [cases, warnings] of a set of endpoints and the global skips
  CaseBefore(_, _),  \* the order the sharder sorts cases in
  NoFlag,          \* an absent flag
  NoExit           \* the exit code of a process that runs

ASSUME ShardsAssumption ==
  \A w \in Worlds : w.flags.shard # NoFlag => w.flags.shard \in Int \X Int
ASSUME NoExitAssumption == NoExit \notin {0, 1, 2, 3, 4, 70}

VARIABLES
  world,      \* the invocation
  phase,      \* how far execute() is
  exit,       \* the exit code of the process
  confirmed,  \* CONFIRM was typed at the prompt
  endpoints,  \* the loaded files
  plan,       \* [cases, warnings]
  mine,       \* the cases of this run, filtered and sharded
  registry,   \* the values the runner's SecretRegistry knows
  ran,        \* the endpoints have been executed
  results,    \* endpoint id -> its final status
  reports     \* the formats written so far

run == <<ran, results>>
vars == <<world, phase, exit, confirmed, endpoints, plan, mine, registry, run, reports>>

Phases == {"start", "configured", "resolved", "gated", "asking", "running",
           "discovered", "loaded", "parsed", "planned", "selected", "open",
           "executed", "reporting", "exited"}
Formats == {"json", "html", "junit_xml"}
Codes == {0, 1, 2, 3, 4, 70}

Exit(code) == phase' = "exited" /\ exit' = code
Go(next) == phase' = next /\ exit' = exit
-----------------------------------------------------------------------------
(* Settings                                                                *)

Markers == {"smoke", "regression", "e2e"}

\* parseMarkers: the tokens between the commas; "all" only alone.
MarkersParse(tokens) == tokens = <<"all">> \/ (tokens # << >> /\ ToSet(tokens) \subseteq Markers)

MarkersOf(w) ==
  CASE w.flags.markers = NoFlag    -> w.config.default_markers
    [] w.flags.markers = <<"all">> -> Markers
    [] OTHER                       -> ToSet(w.flags.markers)

\* resolveEffectiveSettings finds no error; numbers: --log, --workers, --retries.
SettingsOK(w) ==
  /\ w.flags.markers # NoFlag => MarkersParse(w.flags.markers)
  /\ w.flags.shard # NoFlag => ValidShard(w.flags.shard[1], w.flags.shard[2])
  /\ w.flags.numbers

NonSmoke(w) == MarkersOf(w) \ {"smoke"} # {}

\* Variant: either of the two permissions is enough.
CiAllowsEither(w) == w.flags.allow \/ w.host.variable = "true"

CiAllows(w) == w.flags.allow /\ w.host.variable = "true"
-----------------------------------------------------------------------------
(* Loading                                                                 *)

Files(w) == IF w.tests.exists /\ w.tests.readable THEN w.tests.files ELSE << >>

\* The map loadEndpointPlan returns: of two files that declare the same id the
\* later one wins.
Loaded(files) ==
  { files[i] : i \in { j \in DOMAIN files :
      \A k \in j + 1 .. Len(files) : files[k].endpoint.id # files[j].endpoint.id } }

\* Every file is read, is JSON and fits its schema.
Readable(w) == \A i \in DOMAIN Files(w) : Files(w)[i].state = "ok"

\* What the catalog makes of an invocation: a list, which the order ranks, with
\* or without ties.
PlanOf(w) == Plan({r.endpoint : r \in Loaded(Files(w))}, w.config.skip_globally)

ASSUME CatalogAssumption ==
  \A cases \in {PlanOf(w).cases : w \in {v \in Worlds : Readable(v)}} :
    /\ cases \in Seq(ToSet(cases))
    /\ \A c, d \in ToSet(cases) :
         CaseBefore(c, d) => /\ ~CaseBefore(d, c)
                             /\ \A e \in ToSet(cases) : CaseBefore(c, e) \/ CaseBefore(e, d)

AssertionsParse(e) == \A i \in DOMAIN e.assertions : e.assertions[i]

Record(id) == CHOOSE r \in endpoints : r.endpoint.id = id
-----------------------------------------------------------------------------
(* Selection                                                               *)

\* applyFilters, one case at a time.
Passes(c, record, w) ==
  /\ c.marker \in MarkersOf(w)
  /\ w.env.prod => c.prod_safe
  /\ IsPrefix(w.flags.path, record.path)
  /\ w.flags.tag # NoFlag => w.flags.tag \in record.endpoint.tags
  /\ w.flags.endpoint \in {0, c.endpoint}
  /\ record.endpoint.tags \intersect w.flags.exclude = {}

\* The positions, in the plan, of the cases that pass.
Selected ==
  {k \in DOMAIN plan.cases : Passes(plan.cases[k], Record(plan.cases[k].endpoint), world)}

\* sortDeterministic is stable: of two cases whose ids compare as equal the earlier
\* one of the plan is first.
Before(j, k) ==
  LET c == plan.cases[j]
      d == plan.cases[k]
  IN  CaseBefore(c, d) \/ (~CaseBefore(d, c) /\ j < k)

\* The i-th of the sorted cases is the one that i - 1 others come before.
Order ==
  LET all == Selected
      ranked == {<<Cardinality({j \in all : Before(j, k)}), k>> : k \in all}
  IN  [i \in 1 .. Cardinality(all) |-> (CHOOSE x \in ranked : x[1] = i - 1)[2]]

\* The job of a matrix that this run is; without --shard it is the only one.
Job == IF world.flags.shard = NoFlag THEN <<1, 1>> ELSE world.flags.shard

\* The positions, in the plan, of the cases that each of those jobs executes.
Jobs ==
  LET order == Order
  IN  [i \in 1 .. Job[2] |-> ShardCases(order, i, Job[2])]
-----------------------------------------------------------------------------
(* The run                                                                 *)

\* groupByEndpoint
Executed == { c.endpoint : c \in ToSet(mine) }

EndpointOf(c) == Record(c.endpoint).endpoint

\* No request can be built for c: the environment lacks a ${env.*} of its
\* endpoint, or the strategy that is to be applied.
Unsendable(c) ==
  \/ ~(EndpointOf(c).env_refs \subseteq world.env.keys)
  \/ /\ c.kind # "no_auth_returns_401"
     /\ EndpointOf(c).auth_strategy \notin world.env.strategies \union {"none"}

\* The values a request for c carries and the report repeats; the name of a
\* strategy stands for its token.
Carried(c) ==
  IF Unsendable(c) THEN {}
  ELSE EndpointOf(c).env_refs
         \union (IF c.kind = "no_auth_returns_401" THEN {} ELSE {EndpointOf(c).auth_strategy})

\* redactValue
Redact(values, known) == values \ known

Pending == world.config.report \ reports

\* emitRunReport: json, html, junit_xml, of those that are asked for.
Following(f) == CASE f = "json" -> {"html", "junit_xml"} [] f = "html" -> {"junit_xml"} [] OTHER -> {}
NextFormat(f) == f \in Pending /\ Pending \subseteq {f} \union Following(f)

Disclosed ==
  IF reports = {} THEN {}
  ELSE Redact(UNION { Carried(c) : c \in ToSet(mine) }, registry)
-----------------------------------------------------------------------------
Init ==
  /\ world \in Worlds
  /\ phase = "start" /\ exit = NoExit /\ confirmed = FALSE
  /\ endpoints = {} /\ plan = [cases |-> << >>, warnings |-> {}]
  /\ mine = << >> /\ registry = {}
  /\ ran = FALSE /\ results = << >> /\ reports = {}

\* ConfigLoader.load: no file means the defaults, a bad one is a usage error.
LoadConfig ==
  /\ phase = "start"
  /\ IF world.config.ok THEN Go("configured") ELSE Exit(2)
  /\ UNCHANGED <<world, confirmed, endpoints, plan, mine, registry, run, reports>>

Resolve ==
  /\ phase = "configured"
  /\ IF SettingsOK(world) THEN Go("resolved") ELSE Exit(2)
  /\ UNCHANGED <<world, confirmed, endpoints, plan, mine, registry, run, reports>>

\* EnvironmentLoader.load fills a registry of its own, which is dropped.
LoadEnvironment ==
  /\ phase = "resolved"
  /\ IF world.env.valid THEN Go("gated") ELSE Exit(2)
  /\ UNCHANGED <<world, confirmed, endpoints, plan, mine, registry, run, reports>>

\* ProdSafetyGate.evaluate, up to the prompt.
Gate ==
  /\ phase = "gated"
  /\ IF ~(world.env.prod /\ NonSmoke(world)) THEN Go("running")
     ELSE IF ~world.host.ci THEN Go("asking")
     ELSE IF CiAllows(world) THEN Go("running") ELSE Exit(4)
  /\ UNCHANGED <<world, confirmed, endpoints, plan, mine, registry, run, reports>>

Answer ==
  /\ phase = "asking"
  /\ confirmed' \in BOOLEAN
  /\ IF confirmed' THEN Go("running") ELSE Exit(4)
  /\ UNCHANGED <<world, endpoints, plan, mine, registry, run, reports>>

\* At the end of the input readline closes without calling back: the promise
\* stays pending, the event loop has nothing left and the process ends.
StdinCloses ==
  /\ phase = "asking"
  /\ Exit(0)
  /\ UNCHANGED <<world, confirmed, endpoints, plan, mine, registry, run, reports>>

\* RealTestRunner makes a registry; discoverEndpointFiles lets readdir throw.
Discover ==
  /\ phase = "running"
  /\ registry' = {}
  /\ IF ~(world.tests.exists /\ world.tests.readable) THEN Exit(70)
     ELSE IF Files(world) = << >> THEN Exit(2) ELSE Go("discovered")
  /\ UNCHANGED <<world, confirmed, endpoints, plan, mine, run, reports>>

LoadPlan ==
  /\ phase = "discovered"
  /\ IF Readable(world)
     THEN Go("loaded") /\ endpoints' = Loaded(Files(world))
     ELSE Exit(3) /\ endpoints' = endpoints
  /\ UNCHANGED <<world, confirmed, plan, mine, registry, run, reports>>

ParseAllAssertions ==
  /\ phase = "loaded"
  /\ IF \A r \in endpoints : AssertionsParse(r.endpoint) THEN Go("parsed") ELSE Exit(3)
  /\ UNCHANGED <<world, confirmed, endpoints, plan, mine, registry, run, reports>>

GenerateTestPlan ==
  /\ phase = "parsed"
  /\ Go("planned")
  /\ plan' = Plan({r.endpoint : r \in endpoints}, world.config.skip_globally)
  /\ UNCHANGED <<world, confirmed, endpoints, mine, registry, run, reports>>

\* applyFilters, then shardCases.
Select ==
  /\ phase = "planned"
  /\ Go("selected")
  /\ mine' = LET job == Jobs[Job[1]] IN [p \in DOMAIN job |-> plan.cases[job[p]]]
  /\ UNCHANGED <<world, confirmed, endpoints, plan, registry, run, reports>>

\* createAuthRegistry registers the static tokens of the environment, or throws
\* an AuthStrategyError, which has no exit code of its own.
OpenLifecycle ==
  /\ phase = "selected"
  /\ IF world.env.auth_ok
     THEN Go("open") /\ registry' = registry \union world.env.strategies
     ELSE Exit(70) /\ registry' = registry
  /\ UNCHANGED <<world, confirmed, endpoints, plan, mine, run, reports>>

\* Whatever Runner can end with; a case that cannot be sent fails its endpoint.
Execute ==
  /\ phase = "open"
  /\ Go("executed")
  /\ ran' = TRUE
  /\ results' \in { r \in [Executed -> {"pass", "fail", "flaky"}] :
                      \A c \in ToSet(mine) : Unsendable(c) => r[c.endpoint] = "fail" }
  /\ UNCHANGED <<world, confirmed, endpoints, plan, mine, registry, reports>>

\* mkdir, before any format.
MakeReportsDir ==
  /\ phase = "executed"
  /\ Go("reporting") \/ Exit(70)
  /\ UNCHANGED <<world, confirmed, endpoints, plan, mine, registry, run, reports>>

\* The formats in their order; a write that fails ends the command.
EmitNext ==
  /\ phase = "reporting"
  /\ \E f \in Pending :
       /\ NextFormat(f)
       /\ \/ Go("reporting") /\ reports' = reports \union {f}
          \/ Exit(70) /\ reports' = reports
  /\ UNCHANGED <<world, confirmed, endpoints, plan, mine, registry, run>>

\* Variant: one success is enough.
FailedUnlessPassed == \A id \in DOMAIN results : results[id] = "fail"

\* failIfAnyTestsFailed
Failed == \E id \in DOMAIN results : results[id] = "fail"

Finish ==
  /\ phase = "reporting" /\ Pending = {}
  /\ Exit(IF Failed THEN 1 ELSE 0)
  /\ UNCHANGED <<world, confirmed, endpoints, plan, mine, registry, run, reports>>

Exited == phase = "exited" /\ UNCHANGED vars

Next ==
  \/ LoadConfig \/ Resolve \/ LoadEnvironment \/ Gate \/ Answer \/ StdinCloses
  \/ Discover \/ LoadPlan \/ ParseAllAssertions \/ GenerateTestPlan \/ Select
  \/ OpenLifecycle \/ Execute \/ MakeReportsDir \/ EmitNext \/ Finish \/ Exited

Spec == Init /\ [][Next]_vars
-----------------------------------------------------------------------------
(* `apiwright validate' of the directory that holds tests and environment. *)

\* Variant: the assertions are not parsed.
FilePassesUnparsed(file, w) ==
  /\ file.state = "ok"
  /\ file.endpoint.auth_strategy \in w.env.strategies_anywhere \union {"none"}
  /\ file.endpoint.env_refs \subseteq w.env.keys_anywhere
  /\ ~file.endpoint.secret_refs

\* validateEndpointFile: schema, assertions, ${secret.*}, and the strategy and
\* ${env.*} names, against those that any of the environments declares.
FilePasses(file, w) ==
  /\ file.state = "ok"
  /\ AssertionsParse(file.endpoint)
  /\ file.endpoint.auth_strategy \in w.env.strategies_anywhere \union {"none"}
  /\ file.endpoint.env_refs \subseteq w.env.keys_anywhere
  /\ ~file.endpoint.secret_refs

\* Its walk skips symbolic links; env.valid is that all environments are.
ValidateExit(w) ==
  LET seen == {f \in ToSet(Files(w)) : ~f.link}
  IN  IF seen = {} THEN 2
      ELSE IF w.env.valid /\ \A f \in seen : FilePasses(f, w) THEN 0 ELSE 3
-----------------------------------------------------------------------------
(* Properties                                                              *)

\* The state is what each phase leaves; only a finished command has a code.
TypeOK ==
  /\ phase \in Phases /\ exit \in Codes \union {NoExit}
  /\ (phase = "exited") <=> (exit # NoExit)
  /\ confirmed \in BOOLEAN
  /\ ran \in BOOLEAN /\ (ran => DOMAIN results = Executed)
  /\ reports \subseteq world.config.report

\* No case beyond smoke is executed against production on fewer than the typed
\* word, or the flag and the variable together.
GateBeforeTraffic ==
  ran /\ world.env.prod /\ NonSmoke(world) =>
    \/ confirmed
    \/ world.host.ci /\ world.flags.allow /\ world.host.variable = "true"

\* A CI matrix loses no case and runs none twice: whichever job this one is, every
\* case of the plan that the filters pass is executed by exactly one of the jobs
\* that share it, once; nothing else is, and the jobs are of one size, give or
\* take a case.
ShardsCoverSelection ==
  phase = "selected" =>
    LET jobs == Jobs
    IN  /\ mine = [p \in DOMAIN jobs[Job[1]] |-> plan.cases[jobs[Job[1]][p]]]
        /\ \A k \in Selected : \E i \in DOMAIN jobs : \E p \in DOMAIN jobs[i] :
             /\ jobs[i][p] = k
             /\ \A j \in DOMAIN jobs : \A q \in DOMAIN jobs[j] :
                  jobs[j][q] = k => j = i /\ q = p
        /\ \A i \in DOMAIN jobs : ToSet(jobs[i]) \subseteq Selected
        /\ \A i, j \in DOMAIN jobs : Len(jobs[i]) - Len(jobs[j]) <= 1

\* The code tells what happened: 1 exactly after a failed endpoint, and then
\* with every report on disk; 2, 3 and 4 only when nothing was sent.
ExitCodeTruthful ==
  /\ exit = 1 => ran /\ (\E id \in DOMAIN results : results[id] = "fail")
  /\ exit = 0 /\ ran => \A id \in DOMAIN results : results[id] # "fail"
  /\ exit \in {0, 1} /\ ran => reports = world.config.report
  /\ exit \in {2, 3, 4} => ~ran /\ reports = {}

\* A project that run refuses as invalid is one that validate refuses, unless
\* the file is behind a symbolic link, which validate does not follow.
ValidateAgrees ==
  exit = 3 /\ (\A f \in ToSet(Files(world)) : ~f.link) => ValidateExit(world) = 3
-----------------------------------------------------------------------------
(* Properties the documentation states and the code does not have.         *)

\* docs/reports.md: every ${secret.*} value is redacted in a written report.
SecretsRedacted ==
  Disclosed \intersect world.env.secrets = {}
=============================================================================
