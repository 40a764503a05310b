# apiwright, specified

A TLA+ development beside the TypeScript sources of apiwright: the CLI that
reads endpoint files, generates test cases for them, sends the requests,
judges the answers and reports. TLC checks the models on small instances and
TLAPS proves the main results for every value of the constants.

Paths below are relative to the repository; `src/…` is its source tree.

## The system

apiwright is one Node process. Its concurrency is that of the event loop: code
between two `await`s is atomic, and everything hard happens at the awaits.

| part | state it keeps | operations | hard because |
|---|---|---|---|
| promise pool (`runner/execute/concurrency-limiter.ts`) | `active`, the queue of waiters | `limit(fn)` | a slot passes from a finishing call to a waiter through the job queue |
| token endpoint strategy (`auth/strategies/token-endpoint-strategy.ts`) | cached token, expiry, fetch in flight, fetch serial | `apply`, `close` | callers share one fetch; answers come late, after `close`, or not at all |
| connection registry (`db/pool/connection-registry.ts`) | one promise per database, the list to disconnect | `acquire`, `disposeAll` | `connect()` is under way when others acquire, fail or dispose |
| endpoint executor (`runner/execute/endpoint-executor.ts` and its neighbours) | the case, attempt and request under way, the tally | attempts, retries, `db_verify`, cleanup | a watchdog aborts between any two awaits; only `fetch` is told |
| run orchestration (`runner/runner.ts`) | results in plan order, attributed rejections, sidecar | open, dispatch, append, close, finalize, emit | endpoints finish in any order, reject late, and the process may die |
| request building and verdicts (`runner/execute/case-runners.ts`, `body-mutators.ts`, `verdicts.ts`) | none | mutate a base request, choose its credential, judge one or two responses | a verdict means something only if the request is wrong in the way its case says; workers write to one service between the two requests of a case |
| test catalog (`test-catalog/`) | none | eleven generators, skips, pairing, ids | many kinds, each with conditions of its own; drops must be reported |
| filter and sharder (`runner/filter/`) | none | select, sort, slice | each CI job sees only its own part |
| run command (`cli/`) | the settings, the exit code | config, gate, plan, run, report | a dozen ways out, one of them through a prompt |
| assertions (`assertions/`) | none | tokenize, parse, resolve targets, evaluate twenty operators | one character means two things; a tree passes through four parsers and five evaluators written apart |
| database checks (`db/templating/`, `db/connectors/`, `db/expect/`, `runner/execute/db-verify-runner.ts`) | the results of the blocks so far | extract references, resolve, bind for one of four engines, query, compare | a value travels by index through three representations; a step fails and the next ones still run |
| environments (`env/`) | the loader's secret registry | read, override, resolve `${env.*}`, resolve `${secret.*}`, validate, redact | references to what an override replaced; secrets inside secrets |
| auth strategies (`auth/`) | the run's secret registry | parse, construct, apply plain or mangled | a case without a good credential must not go out with one |
| importers (`importers/`) | the ids and files given out, the warnings | flatten, convert, name, write | names fall together, files fail half way, what one part writes another must read |
| validate command (`cli/commands/validate.ts`) | none | judge a project | must agree with what `run` will accept |

They interact by calls. The run command resolves its settings, passes the
production gate, builds the plan (catalog, filter, sharder) and hands it to the
run; the run submits one call per endpoint to the pool; inside its slot an
endpoint executes its cases, taking tokens from the strategies and connections
from the registry, checking the database and the assertions of the case; results flow back through the pool into the report and the
exit code. What is shared between concurrent endpoints is the pool, the token
strategies, the connection registry, the secret registry and the partial
sidecar; nothing else. The importers run before all this, as commands of their
own: they meet the rest in the endpoint files they write and in the keys they
tell the author to put into an environment.

## Modules

| module | models | state and actions |
|---|---|---|
| `BoundedPool` | what a pool promises: calls are taken in order, at most a fixed number at a time | abstract; implemented by `ConcurrencyLimiter` |
| `ConcurrencyLimiter` | `createPromisePool` | `active`, `queue` are the code's; `jobs` is the engine's job queue between `resolve()` and the resumption of the awaiting call; one action per piece of code between awaits |
| `TokenEndpoint` | `TokenEndpointStrategy` | `cache` is `#cachedToken`, `#expiresAt`, `#inFlight`, `#fetchSerial`; a fetch is named after the call that began it; `Close`, `Tick` |
| `ConnectionRegistry` | `ConnectionRegistry` and the life cycle its connectors share | `entries`, `acquired` are the code's maps; `opened`/`refused` is the gap between a settled `connect()` and its handler |
| `EndpointExecutor` | `executeEndpoint`, retry policy, `db_verify`, cleanup, watchdog | one action per stretch between awaits, including the second request of the pair kinds |
| `Runner` | `runOnce` from the opened lifecycle to the report | the pool's variables *are* those of `ConcurrencyLimiter`, used through `INSTANCE`; results, attribution, sidecars; `Crash` at any step |
| `Sharder` | `shardCases`, `validateShard` | operators |
| `TestCatalog` | every generator, skip tokens, pair resolution, warnings | operators on endpoint records; a case is `[endpoint, kind, ordinal, what, bound, marker, prod_safe]`. The schema walk is a function of the levels that are left: `NodesAt` gives the nodes of each depth, `Visit` their fields |
| `CaseRequests` | what each kind of case puts on the wire: `mutateRequest`, `body-mutators.ts`, auth modes, paired and conditional second requests | operators; a JSON body is a function from paths to values |
| `CaseVerdicts` | `computeVerdict`, `verdicts.ts`, status and header comparisons | operators on one or two responses |
| `CaseEvaluation` | endpoints of one URL, executed by several workers against a service that keeps state | `FirstRequest` and `SecondRequest` are the stretches of `runOneAttempt` around `httpClient.send`; a `trial` is the endpoints, the workers and the service, an `agenda` the cases of each endpoint in order; the service is external, and has at most one defect |
| `JsonValues` | JSON values, their equality and order as the code compares them, the walk along a path | operators; `DeepEqual` and `WalkFrom` are functions of the levels that are left |
| `PathSegments` | what assertions and queries share: segments of a path, results that may fail | operators |
| `AssertionSyntax` | tokenizer, parsers of assertions, operands, arithmetic and target paths | operators on pieces of text (words, numbers, strings, slashes, minus signs) |
| `AssertionEvaluation` | target and operand resolution, the operators in their five groups | operators on a tree and a context |
| `DbTemplates` | extraction and resolution of references, the binders and connectors of the four engines | operators; `Delivered` is what the external database runs |
| `DbExpectations` | `exists`, `not_exists`, `match`, `exact` | operators |
| `AttemptChecks` | what an attempt checks after its response: `db_verify`, then the assertion, then the cleanup | one action per block and outcome (bad reference, refused connection, failed query, answer); assertions are parsed first, as the run does. What an assertion says is left to two operator constants, `Parses` and `Evaluated` |
| `AssertionChecks` | `AttemptChecks` with the language of assertions in the place of these constants | properties of the operators and of arithmetic |
| `Texts` | strings as sequences of fragments: literals, references, secrets | operators, with the tree walk the code uses |
| `AuthConfig` | the parsing of `auth_strategies`, what a strategy puts on a request, mangled or not | operators |
| `EnvironmentLoader` | an environment from its file to the credentials of the run's requests | one action per step of the loader's pipeline, then `OpenRegistry` and one action per way a request is authorized |
| `SchemaConversion` | inference of a schema from an example, translation of one from a document, and what a schema accepts | operators |
| `ImportNames` | slugs, numbered names, paths | operators; the spelling of a slug is a constant |
| `ImportNaming` | environment keys, validity of an endpoint | operators |
| `PostmanImport`, `OpenApiImport` | what becomes of one request, of one operation | operators |
| `ImportRun` | an import from its file to the endpoint files, of either kind | load, convert one item, write one file, fail to write; `at` is the place in the loop, `usedIds`, `writable`, `files` are the code's sets. What flatteners, converters and assemblers return is left to operator constants (`ItemsOf`, `Assembled`, …) |
| `ProjectInputs` | an import, the author who defines the keys it names, the environment and the requests built from the imported files | `EnvironmentLoader` with `ImportRun` before it, `PostmanImport` and `OpenApiImport` in the place of its constants; `AuthorDefines` is the author |
| `RunCommand` | `apiwright run` from flags to exit code; the exit code of `apiwright validate` | one action per step of `execute()`; the catalog and the order of cases are constants; the sort puts a case at the place given by the number of cases before it |
| `CatalogRun` | `RunCommand` with `TestCatalog` in place | properties of what a whole invocation plans and sends |
| `CatalogProofs` | the theorems about `CatalogRun` and `CaseEvaluation`, on the lemmas about `TestCatalog` they share | |
| the other `*Proofs` | the theorems about the module they are named after | |
| `MC*` | the instances TLC runs | |

Composition: `Runner` contains the pool and abstracts an endpoint's execution
to its outcome (`EndpointExecutor` shows that an endpoint ends, which is the
fairness `Runner` assumes of it); `RunCommand` abstracts the run to "every
executed endpoint has a status", which is `Runner`'s `ReportComplete`;
`CatalogRun` puts the catalog, the sharder and the command together.
`CaseEvaluation` joins the catalog to what it is for: the cases it generates are
sent to a service, and the verdicts are compared with what the service really
does. `EndpointExecutor` leaves verdicts open and covers what `CaseEvaluation`
leaves out: retries, `db_verify` (and with it the `db_state` comparison of
`put_idempotency`), the watchdog. What it leaves open in turn, whether a
`db_verify` block or an assertion holds, is `AttemptChecks`. `ProjectInputs` puts
importer, environment and request building together, because the references one
of them writes are resolved by another.

A definition named `…` followed by a comment "Variant" is a plausible mistake
in the definition below it. It is not part of the model: it is what the checked
property is tested against.

## Runs

All passing runs finish in seconds to a minute.

| run | instance | shows |
|---|---|---|
| `limiter` | 5 calls, 2 slots, none of which need settle | calls start in submission order, no slot is lost or minted, the limiter implements `BoundedPool` (`StartsInSubmissionOrder`, `SlotsAccounted`, `PoolSpec`) |
| `token_endpoint` | 3 calls, 2 `close()`, 3 instants, tokens that expire at once, later, or never | one fetch at a time, the newest token is the cached one, tokens in use are registered for redaction, a failure is not handed to a later caller, every call ends (`SingleFlight`, `CacheIsNewest`, `TokensRedacted`, `RejectionNotMemoized`, `CallsSettle`) |
| `connections` | 3 calls, 2 names and an unknown one, 2 `disposeAll()` | one connector per name, every connected connector is on the list exactly once, no dead promise is cached, everything settles (`OneConnectorPerName`, `DisposeCoversConnected`, `CacheIsUsable`, `AllSettle`) |
| `endpoint` | 2 cases of 4 shapes, 2 `db_verify` blocks, all retry policies, 3 cleanups, the watchdog | the status is what the attempts add up to; attempts follow the policy; nothing passes after an abort; database gating; the cleanup is last; the endpoint ends (`AttemptsAddUp`, `NothingPassesAfterAbort`, `DatabaseStepsInOrder`, `EndpointEnds`) |
| `run` | 3 endpoints, 2 slots, one stuck, one that rejects late, with and without sidecars, crash anywhere | the pool's contract holds inside the run, registries are closed behind the last endpoint, no hole in the report, timely rejections with a reason become crash results, the sidecar holds what is finished, a stuck endpoint blocks no other (`NoUseAfterClose`, `ReportComplete`, `TimelyRejectionsReported`, `PartialHoldsFinished`, `LimiterSpec`, `OthersGetResults`) |
| `command` | 385 invocations: 16 projects, 3 configurations, filters, shards, bad flags, production with every permission | unique case ids, boundary values on their side of the constraint, no drop without warning, only reads in production's smoke set, permission before traffic, shards cover the selection, truthful exit codes, `validate` refuses what `run` refuses (`CatalogIsSound`, `GateBeforeTraffic`, `ShardsCoverSelection`, `ExitCodeTruthful`, `ValidateAgrees`) |
| `cases` | 188 trials: one or two endpoints of one URL, up to two workers, a service with no defect or one | a body case sends a body that is wrong in the field its title names, as it says, and nowhere else; against a sound service a case fails for the listed reasons only; every defect fails the case that is there to find it, whatever the other worker does in between (`RequestsBite`, `FailuresExplained`, `DefectsCaught`) |
| `checks` | 15,538 attempts: thirteen targets, twenty operators, 25 operands on two bodies; arithmetic of up to four numbers; queries and commands on four engines, up to two blocks, every reply of a small database | no two operators, and no two expectations, contradict each other, and what the parser lets through an evaluator takes; arithmetic is worth what it says; the database runs the query with each reference replaced by its own value; a case about the database passes only when all its queries were answered (`VerdictsCohere`, `ArithmeticMeansWhatIsWritten`, `BoundQueryCarriesReferences`, `UnansweredNeverPasses`) |
| `inputs` | 568 environments in two files, and 1,601 imports into one of them | an override changes the leaves it names and no others; all references in strings of a configuration, and of the requests built from an import, resolve once the author defines what the import names (one in a key of a body stays, and is named to the author too); nothing of a secret or a token survives redaction; a request has the credential its case asks for; every imported request has a file and an id of its own or a warning; a schema accepts what it was made from (`ConfigIsLayered`, `ReferencesResolve`, `SecretsStayRedacted`, `CredentialFitsCase`, `ImportAccountsForAll`, `ImportedSchemasAccept`) |

Three runs end in a violation on purpose. Each states what a document or comment
of the repository says and the code does not do:

| run | statement | what the code does |
|---|---|---|
| `secrets_redacted` | every `${secret.*}` value is redacted in reports | the registry that knows them is dropped before the run (`SecretsRedacted`) |
| `omission_omits` | an omission case lacks a required field | the field `tags[].key` of an array's items is looked for under the key `tags[]`: the complete body is sent, and 400 expected (`OmissionOmits`) |
| `placeholder_resolves` | a request never contains a literal `${env.*}` | the OpenAPI importer writes `${env.x-request-id}`, which the resolver does not take for a reference: it is sent as it is (`NoLiteralReferenceSent`) |

### Bounds, and why they are enough

- Pool: with 2 slots and 5 calls both ways of taking a slot, both ways of giving
  it back and queues of up to three occur; a third slot adds nothing to the order
  in which one is handed over. The proofs remove the bound.
- Token endpoint: an owner, a sharer and a late caller are all the roles there
  are; two `close()` calls put one before and one after a fetch; the clock
  needs an instant before, at and after an expiry.
- Connections: two callers of one name and a third that retries or uses another;
  two disposals catch a connector that one of them missed.
- Endpoint: two cases separate "this case" from "the next"; every retry policy
  of up to two retries; two `db_verify` blocks, so that one can fail after
  another succeeded.
- Run: three endpoints on two slots: one stuck, one executing, one waiting.
  Only the endpoints in `Late` reject after their result was read: nothing reads such a
  rejection, so one of them is enough; the proofs are for any.
- Command: an enum lacks one of the six values in `Row`, the ones tried where a value
  outside it is wanted; the code has the same first three and goes on counting.
  `MaxDepth` is 2 where the code's walker stops at 64: a schema that
  goes deeper, one that does not, and nothing else matters to it. Ordinals stay
  below 100 (`OrdinalKey` orders them as the decimal strings of the case ids are
  ordered). Strings are numbers where only their order or length counts.

- Cases: two endpoints of one URL are what it takes for one worker to write
  between the two requests of the other's case; one defect at a time, so that it
  is clear which case is to find it. There are no retries: a case that fails
  stays failed. Keys hold no dots. The service reads a body as JSON whatever its
  `Content-Type`, and checks what its schema says.
- Checks: a text is a sequence of pieces, so that what a piece is cut into is the
  tokenizer's decision and its letters are not spelled out. Four numbers are what
  it takes for three operators, two of one precedence around one of the other.
  `MaxArithDepth`, `WalkDepth` and `EqualDepth` are the code's limits (64, 256, 200)
  brought down to where the instance passes them. Five generated parameter names
  exhaust the ladder of the Neo4j binder. Two blocks are enough for one to follow
  a failed one and to share its id.
- Inputs: two secrets one of which begins the other; overrides that replace,
  extend and cut off; one file beside another. Three requests are what it takes
  for a numbered name to meet a name that looks numbered. Schemas are combined two
  levels deep, and judged by twelve sample values. The spelling of slugs is given
  for the names of the instance. Only one environment is combined with imports: an
  import does not see the environment. A run sends at most `MaxSent` requests.

### When a failed case shows no defect

`FailuresExplained` says that a case fails against a sound service only if

- the field of a body case is not reachable in `body_example` (inside an array, or
  under an object the example leaves out), its substitute is refused by the mutator (a
  segment like `constructor`) or is of a type the field does not have (a `maxLength`
  beside an `integer`), or the example itself is not valid;
- a boundary value inside one constraint breaks another of the same field;
- the method that should be refused is declared by another endpoint of the URL;
- a `no_auth` case keeps the credential of a static request header;
- `auth_happy_path` or a case of two requests belongs to an endpoint whose expected
  status is not 2xx;
- a content type is asked of a 204 or an OPTIONS, a schema also of a HEAD or of
  anything but a 2xx;
- the GET of a parity case wants a body, a credential the HEAD does not send, or
  answers with another status;
- a DELETE consumed the resource that later cases read or delete, or the status
  of a deleted resource is not the derived `second_delete_status`;
- another worker wrote between the two requests;
- a preflight endpoint answers with another status than 200 or 204, or it takes
  `Access-Control-Request-Method` as one method while all allowed ones are sent.

Each of these occurs in the instance, and without any one of them `FailuresExplained`
or `RequestsBite` fails.

### Fairness

`WF` is assumed of what the event loop does by itself (continuations, handlers,
timers that are due) and of outside parties only where a run says so. The token
endpoint, the databases and the service are assumed to answer in
`token_endpoint`, `connections` and (the service excepted) `endpoint`; no code
enforces it, and without it an endpoint may keep its slot behind its timeout. No
strong fairness is used. `run` exempts the endpoints in `Stuck`. The other runs
check no liveness: `limiter` because `run` asks it of the same pool in its place,
`command`, `cases`, `checks` and `inputs` because they are sequential up to an end.

## Proofs

Everything below is checked by TLAPS for all values of the constants, from the
assumptions the modules name (sets are disjoint from their sentinels, bounds are
natural numbers, `Workers` is an integer).

- `ConcurrencyLimiterProofs`. The invariant says what the variables are not told:
  the calls made are those started followed by those in line, the line (`jobs`
  then `queue`) holds each call once, and a call's state is what its place in it
  says. Without it "started is a prefix of submitted" is not inductive, because
  nothing would tie the head of the queue to the next submitted call. Type
  correctness, the cap, the accounting of slots, FIFO order and the refinement of
  `BoundedPool` follow.
- `TokenEndpointProofs`. Single flight is inductive only with: a fetch may still
  commit exactly when it is the one in flight, and what is pending of the present
  epoch is in flight.
- `ConnectionRegistryProofs`. The cache is indexed by name, and every live
  connector of the present epoch is in it.
- `RunnerProofs`. The run's every step is a step of the limiter or leaves it alone
  (`RunImplementsLimiter`), so the limiter's invariant holds inside the run; with
  it, an endpoint's place in the pool tells whether it has a result and a line.
- `EndpointExecutorProofs`. The report is a sequence that only grows, and its
  properties speak of all of it, so the invariant says of each case what the report
  holds of it: nothing of the cases to come, of the case under way its failed attempts
  up to the present one (`Underway`), and of each case behind it a run of attempts
  that ends in a pass or in the last retry (`Past`). The two flags are then the fold of
  what is settled (`Folded`), which is what makes the status at the end the one the
  attempts add up to (`ReportAddsUp`). That nothing passes after the abort rests on
  where the abort can be noticed (`Stopped`), the order of the database steps on what
  of them is done at each await (`Queried`). `RetriesAssumption` says that a retry block
  has a natural number and a truth value for the settings it has.
- `CatalogProofs`, the run command. First the sharder: for every length and every total, the floor
  arithmetic puts each position in exactly one shard, and sizes differ by at most one
  (`ShardsPartition`). For every set of invocations, every catalog and every order:
  the permission is held from the gate on, execution separates the phases, and
  the loaded files are files that were read. From these follow the gate, the
  truth of exit codes, and the agreement with `validate`. `ShardsCoverHolds` adds what a
  sort does: when no two cases tie, the number of cases before a case is a one-to-one
  map onto the places of the list, so that the slices `ShardsPartition` speaks of are
  slices of cases. It assumes that of a plan (`CatalogAssumption`), and that a shard
  was validated (`ShardsAssumption`).
- `CatalogProofs`, the catalog in its place. The real catalog is as the
  theorems above assume it, and what its plan promises holds for every project. `CatalogIsRanked` derives from the generators
  that no two cases of a plan tie, which is what `CatalogAssumption` asks. `CatalogSoundHolds`
  is the conjunction of four parts. Ids: each generator gives a run of cases of kinds of its
  own (`Group`), within a kind ordinals are places or, in the boundary battery, ten per
  field and two per constraint; filters and concatenation keep this. Boundaries: by the
  cases of `Bounds`, once the walk is known to give one field a path of its own (`Sound`,
  by induction on the levels left). Drops: each of the two filters leaves a warning of
  each case it takes out. Production: by what the run derived its selection from
  (`Derived`). It assumes what a file that fits its schema declares (`ProjectsAssumption`:
  limits are numbers, lists are lists, the properties of an object have different keys,
  an enum lacks one value of `Row`) and that the plan is the catalog's
  (`PlanAssumption`), both evaluated by TLC in the run `command`.
- `CatalogProofs`, what a case shows. `BodyCasesBite`, `SoundServicePasses` and
  `DefectiveServiceFails` state the three properties of `cases` for every set of
  endpoints of one URL, every example and schema, any number of workers and any
  defect. The inductive invariant has three parts, because a verdict on two responses is about
  a request that was answered before other workers wrote:
  - `Base`: the agenda does not change (`Steady`), a first answer is held only for a
    case that is under way (`Held`), and the last attempt was at a case of its
    endpoint's agenda, with the request such a case makes (`Attempted`).
  - `Memory`: what a first answer that is kept still shows (`FirstShows`): the store it was
    answered from, of which no later write lowers the number of posts, and the status,
    body and tag the verdict will compare (`Remembered`). Without it nothing ties the second verdict to the
    first request.
  - `Caught`: of each endpoint, the cases already behind it that are there to find the
    defect have failed. `DefectsCaught`, which speaks of endpoints that are done, is not
    inductive alone.

  The rest is about what one request meets. The place of a body that a case changes is
  what its title names, because a path of the walk leads through nodes that are each
  the only one of their key (`Chain`, `Leads`): so of the faults of the changed body, found per
  place and per schema node, only those at that place can be new
  (`BodyCasesBite`). Then each kind of case in turn: by what the service refuses
  first, what it serves, and what the verdict compares. `TrialsAssumption` says what a
  file that fits its schema declares, that no two endpoints share an id or a method,
  and that a body is a tree; TLC evaluates it in the run `cases`.
- `AttemptChecksProofs`. `BoundQueryCarriesReferencesHolds` says of all queries, scopes
  and blocks what `checks` shows of a few: whatever the engine, what the driver is sent
  runs as the query with each reference replaced by its own value. The inductive
  invariant (`Carrying`) is about the runs made so far; the work is in what one block
  goes through. Extraction first: the parts of a query that are references, in order, are
  found by their places (`PartsOfIs`), a reference written twice is known by the first of
  them (`FirstsHold`, `FirstsOfDistinct`), and the site left in its place has the index
  of its value (`PreparedIs`). Then each binder:
  - PostgreSQL numbers the values: placeholder *i* and value *i* meet (`PostgresCarries`).
  - MySQL has no numbers: the placeholders before a site must be as many as the values
    before its value, which is so exactly when no reference is written twice. The rank of
    a place among the places kept is what carries this (`RankGrows`, `MysqlCarries`).
  - Neo4j names its parameters: the prefix it settles on names no parameter
    the author wrote (`PrefixIsFree`), so that a driver never confuses the two (`Neo4jCarries`).
  - MongoDB takes a whole leaf or a part of one, and its driver sees text next to text:
    a leaf and its bound form are compared by what is not white space in them, which is
    a homomorphism on parts (`InkConcat`, `InkFlatten`, `LeafHasSameInk`).

  MySQL also needs that no resolved value is `undefined`, which its driver refuses
  (`Takes`, `ReferenceNamesJson`), and MongoDB that the text of a value is one. It holds because a walk along a path returns
  what is inside a JSON value (`WalkFindsJson`); that nothing inside is `undefined` is
  `ExchangesAssumption`, true of what `JSON.parse` and the YAML parser return, and it is what
  `core/path-walk.ts` promises of a value it finds. `AttemptsAssumption` says that an
  attempt is made of sequences of blocks of the four engines.
  `UnansweredNeverPassesHolds` is short: a step without an answer never passes, and a
  verdict is given after the last step (`Judged`).

- `ImportRunProofs`. A deduplicated name is a new one: among as many numbers as there are
  names taken, and one more, one is free (`SomeNumberFree`, by counting), and the code takes
  the first (`DedupeIsFree`); it is so of the files of a folder too, which are no more than
  all the files (`PathIsFree`). The invariant ties the loop to these lemmas: no more ids
  are taken than items are behind, what is to be written has ids of its own, and the
  files hold the first of it, each once (`ConvertInv`, `WritableInv`, `WriteInv`). From it
  follows `ImportAccountsHolds`, for any number of items and any names. `ImportsAssumption`
  says what the assembler of one item returns, an endpoint with the id it was given or
  a warning, and that a name followed by different numbers is different names. TLC
  evaluates it on the imports of `inputs`, with the assemblers of `PostmanImport` and
  `OpenApiImport`. Each step of `ProjectInputs` is one of `ImportRun` or leaves its variables alone.

The prover's library states induction with an operator as parameter, which no backend
can instantiate. Over natural numbers the development does without: a hypothesis that
is a *set* of numbers can be, and the least number outside it, from the library's
theorem on well-founded relations, is the contradiction (`NatSetInduction` in
`CatalogProofs`). The recursive functions of the walk are shown to exist the same way.
Induction over trees is out of reach, and so is every module that declares a recursive
operator.

Only model-checked:

- liveness everywhere (`CallsSettle`, `AllSettle`, `EndpointEnds`, `OthersGetResults`);
- `checks`, its two properties of `AssertionChecks`: tokenizer, parser and evaluation
  of arithmetic are recursive;
- `inputs`, all but the accounting of imports: merging, resolution, redaction and
  schemas walk trees of any shape.

## Observed on the way

Facts about the code that the models carry and that a reader of the
documentation may not expect:

- An endpoint's `markers` field has no influence on what is selected: only the
  marker of each case does (docs/markers-and-lifecycle.md:38-43 and
  docs/best-practices.md:84 say otherwise).
- When the input ends at the confirmation prompt, the promise never settles and
  the process exits 0 having run nothing (docs/cli.md:458-459 says 4).
- A preflight names all allowed methods in `Access-Control-Request-Method`
  (docs/test-catalog.md:585 says the first). `content_type_alignment` passes with
  any value of the header.
- A value outside one constraint that breaks another too is refused for the other
  reason: it does not show that the first is checked.
- `--endpoint` does not bypass the marker filter. `--path` is a prefix of the
  path string, not a directory: `tests/users` also selects `tests/users_v2`.
- A skip token `kind:field` on a kind without fields is accepted and never
  matches (docs/skip-cases.md:62-66).
- `auth_happy_path` is generated for endpoints without an `auth_strategy`.
- docs/performance-and-scale.md:65-70 speaks of consistent hashing; the shards are
  contiguous slices of the sorted list.
- Two files with the same endpoint id: the later path wins, silently. The ids
  `a_b` and `a-b` give the same case ids.
- The glossary (line 124) gives `prod_safe` a default of true; the code derives it
  from the method. Assertion cases ignore the endpoint's `prod_safe`.
- In production the filter drops every case that is not `prod_safe`, whatever was
  confirmed (docs/cli.md:471-473).
- A missing tests directory ends `run` with 70 and `validate` with 2; an empty
  selection ends `run` with 0. `run` follows symbolic links to files, `validate`
  does not.
- A negative `maxLength` makes the boundary generator throw, which the plan
  generator catches under the comment "provably-unreachable".
- A failed append to the sidecar rejects the whole run, with endpoints still
  executing and the registries left open. Between `finalize()` and the report no
  sidecar exists. The command itself never keeps a partial sidecar.
- A second `disposeAll()` while a connector is still connecting finds it later.

Endpoint, run and `validate`:

- The timeout aborts `httpClient.send` only: an endpoint awaiting a database or a
  token keeps its slot (timeout-watchdog.ts:8-12 says the slot is released).
- A rejection attributed after its endpoint's result was read is recorded and
  reported nowhere (rejection-attributor.ts:17-23). One whose reason is `undefined`
  never becomes a crash result (runner.ts:285-288), and it takes the place of an
  earlier one that had a reason (runner.ts:186).
- `validate` accepts a name that any environment declares; a run against another one
  throws for every request (case-runners.ts:83-86).
- A cleanup is prepared without request and response bodies, although
  docs/db-verify.md:276-281 shows one that uses `${request.body.email}`.

Assertions and databases:

- MySQL: a reference used twice in a query contributes its value once
  (mysql-connector.ts:56-69; mysql-binder.ts:10-12 says once per site), so the
  parameters no longer match. `BoundQueryCarriesReferences` excepts it.
- A reference inside a longer string of a MongoDB command takes the white space
  around it away. Keys of a command are never bound.
- docs/db-verify.md promises `${request.headers.*}` and `${secret.*}`, which the
  extractor rejects; its quoted `'${...}'` puts the placeholder into an SQL string
  literal; and its `db.<conn>.<qid>.<column>` must be `….rows[0].<column>`.
- `exact` compares records; the list form of `fields` that the docs show is not one.
  References nested in `fields` are not resolved.
- `matches "x"` matches with the quotes. A segment of digits is always an index.
- The operator registry allows arithmetic in `in_range`; the parser refuses it.
- An explicit `query_id: q1` and the second block without one share their place.
- A failed step leaves an empty result: `db.c.q count_equals 0` holds of it.

Environments and auth:

- References are resolved once: an `${env.x}` whose value holds another stays. But
  `${secret.${env.n}}` does resolve, and `${env.p}` can reach the text of a
  `${secret.X}` (docs/environment-config.md:158-159 and template-resolver.ts:3-5 say
  otherwise).
- `applyAuthForCase` passes the raw entry, so the mangler never knows the kind of the
  strategy. A `header_value` without `${token}` makes the garbage case send the
  unchanged credential. Secrets are replaced in the order of their registration: the
  rest of a longer token may stay behind the garbage.
- Keys are not visited (tree-walk.ts:11): `${env.x}` or `${secret.X}` in a key of the
  environment file stays as it is.
- Two secrets that overlap without containing each other may leave a fragment.
- `token_path: 5` throws a `TypeError` (config-parser.ts:318 says "Never throws").
- The registry that the loader fills is read by nobody.

Importers:

- The inferred schemas have `required`, which docs/postman-import.md:271-276 denies.
- An inferred `items: {oneOf: …}` rejects its own example when an element fits two of
  the schemas (`[1, 1.5]`, or `{a}` beside `{a, b}`).
- OpenAPI `oneOf: [{required: [a]}, {required: [b]}]` becomes `[{}, {}]`, which rejects
  everything, without a warning. A schema without known keywords becomes
  `{type: object}`. A boolean `exclusiveMinimum` is copied, and Ajv refuses it.
- Ids of OpenAPI operations are not the documented `<tag>.<operationId>`.
- After a write that failed the outcome is 0 files (docs/postman-import.md:329), and
  the keys needed by those already written are not named.
- `{{base-url}}` and `{{base_url}}`, or `{{a b}}` and `{{a-b}}` of two requests, share
  one key. `{{a}}` beside `{{a.b}}` makes `a` a mapping: a URL that is only `${env.a}`
  is then empty.
- A raw body is rewritten as one text: `{{v}}` in a key of a JSON object becomes
  `${env.v}` there, and the author is told to define `v`. The resolver visits no keys:
  the request is sent with the key `${env.v}`, although case-runners.ts:67-70 says that
  it "never contains literal `${env.*}` tokens". `KeyRefs` are these in the model;
  `ImportedRequestsResolve` excepts them from what resolves, and `NoLiteralReferenceSent`
  is not about them. Two keys may become one: `{{a_b}}` and `{{a b}}`.
- Warnings about query parameters are dropped. A JSON body that ends in `}}` is warned
  of as having unbalanced braces, and `servers` of a path item as a method.
- The auth and variables of folders and collections, and the base URL, are read and
  used by nothing. Ids are unique within one import only; a second import replaces the
  files of the first without a word. A `2XX` response is taken for status 200, with a
  warning.

## Plan

1. Done: pool, token endpoint, connections, endpoint, run, command with catalog,
   requests and verdicts; assertions, database templating and expectations;
   environments with auth strategies; the importers.
2. Done: the invariants of every state machine that reaches no recursive operator, the
   soundness of the catalog, whose walk was recast as a function, the checks of an
   attempt, set apart from the language of assertions for it, and the accounting of an
   import, set apart from what is made of one item.
   Also what a case shows, for every trial.
3. Proofs: the layers of a configuration (`ConfigIsLayered`), where the walk that stands in
   the way can be recast as a function of its levels.

## Not modelled

- The documentation generator, HTML, JUnit and console output, logging: layout and
  wording.
- `core/canonical-model.ts` is types. `core/schema-validator.ts` hands a fixed JSON
  schema to Ajv; whether a file is valid is a fact about the file in `RunCommand`.
- `cli/config/loader.ts` merges three levels of settings; the models take its result,
  valid or not, and the flags over it. The derivation of loader arguments from file
  names in `validate` is path arithmetic.
- The spelling of slugs, the recognition of formats (UUID, e-mail, URL, timestamps)
  and of patterns: constants of the models.
- The database drivers, the `$ref` resolver and the YAML parser: external.
