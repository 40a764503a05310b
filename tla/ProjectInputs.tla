----------------------------- MODULE ProjectInputs -----------------------------
(***************************************************************************)
(* What a project is run from: an import that writes endpoint files        *)
(* (postman-importer.ts and openapi-importer.ts of src/importers/), the    *)
(* environment its author then completes and the loader loads              *)
(* (EnvironmentLoader), and the requests that are built from both          *)
(* (buildBaseRequest in src/runner/execute/case-runners.ts).               *)
(***************************************************************************)
EXTENDS EnvironmentLoader, PostmanImport, OpenApiImport, ImportRun

CONSTANTS
  HomeWorld,     \* the environment that is completed after an import
  Samples        \* values a schema is asked about

VARIABLE built   \* the base requests

-----------------------------------------------------------------------------
(* What ImportRun is told of the two kinds of imports.                     *)

ImportedItems(s) == IF s.kind = "postman" THEN Flatten(s.items, <<>>) ELSE FlattenOperations(s)
IsRequest(item) == "request" \in DOMAIN item

ImportedSpec(s) ==
  [ok |-> LoadSpec(s).ok,
   warned |-> (IF LoadSpec(s).warned THEN {<<"circular", 0>>} ELSE {})
                \union {<<"unsupported", i>> : i \in
                          {j \in DOMAIN s.paths : UnsupportedAt(s.paths[j]) # {}}}]

ImportedKeys(item) ==
  IF IsRequest(item) THEN Rewrite(item.request).envKeys ELSE PlaceholdersFrom(item.params)

ImportedId(item) == ToIdSlug(IF IsRequest(item) THEN IdBase(item.request) ELSE OperationName(item))

ImportedEndpoint(item, s, id) ==
  IF IsRequest(item) THEN AssemblePostman(item.request, id) ELSE AssembleOpenApi(item, s, id)

-----------------------------------------------------------------------------
(* The environment and the requests.                                       *)

\* A tree with a value at the end of each path.
RECURSIVE Defining(_)
Defining(paths) ==
  LET inner == paths \ {<<>>}
  IN  IF inner = {} THEN Text("defined")
      ELSE Map([k \in {Head(p) : p \in inner} |-> Defining({Tail(p) : p \in {q \in inner : Head(q) = k}})])

\* Where in the environment the keys stand that the import named.
NamedPaths == {Tail(EnvPath(w[2])) : w \in {x \in warned : x[1] = "define"}}

\* The author puts the keys that were named into the environment's file, where they
\* are missing.
AuthorDefines ==
  /\ KeysDefined
  /\ world' = [world EXCEPT !.dot.value =
                  IF NamedPaths = {} THEN @ ELSE DeepMerge(Defining(NamedPaths), @)]
  /\ UNCHANGED <<built, stage, config, loaderSecrets, runSecrets, specs, sent>>

EnvironmentStep ==
  /\ phase \in {"none", "defined"}
  /\ Next
  /\ UNCHANGED importVars /\ UNCHANGED built

BuildBaseRequest(endpoint, env) ==
  LET headers == endpoint.request.headers
      result == ResolveTemplates(
        Map([url |-> Str(endpoint.url), headers |-> Map([h \in DOMAIN headers |-> Str(headers[h])]),
             body |-> endpoint.request.body]), env)
  IN  IF result.ok THEN Ok([result.value EXCEPT ![2]["url"] = IF Kind(@) = "str" THEN @ ELSE Str(<<>>)])
      ELSE result

BuildRequests ==
  /\ stage = "open" /\ built = Empty
  /\ files # Empty
  /\ built' = [p \in DOMAIN files |-> BuildBaseRequest(files[p].endpoint, config)]
  /\ UNCHANGED vars /\ UNCHANGED importVars

InputsInit ==
  /\ Init
  /\ \E s \in IF world = HomeWorld THEN Imports ELSE {NoImport} : ImportOf(s)
  /\ built = Empty

InputsNext ==
  \/ ImportStep /\ UNCHANGED vars /\ UNCHANGED built
  \/ AuthorDefines \/ EnvironmentStep \/ BuildRequests
InputsSpec == InputsInit /\ [][InputsNext]_<<vars, importVars, built>>
-----------------------------------------------------------------------------
(* Properties.                                                             *)

\* The strings of v; the keys of its objects, whose texts are those of TextOfKey, are
\* not among them.
Fragments(v) == UNION {ToSet(text) : text \in WalkStrings(v)}

\* The references in the keys of v.
RECURSIVE KeyRefs(_)
KeyRefs(v) ==
  CASE Kind(v) = "arr" -> UNION {KeyRefs(v[2][i]) : i \in DOMAIN v[2]}
    [] Kind(v) = "obj" -> UNION {RefsIn(TextOfKey(k), "env") \union KeyRefs(v[2][k]) : k \in DOMAIN v[2]}
    [] OTHER -> {}

\* Once the author has defined the keys an import names, every reference in the files
\* it wrote resolves, and none is left in the URL, in a header's value or in a string
\* of the body of a request (variable-templating.ts rewrite, #emitEnvSummary, and the
\* placeholders of #applyHeaders that are references).  In a key of the body one may
\* be left, though a {{variable}} there was rewritten and the author was told to
\* define it: the resolver does not visit keys (tree-walk.ts:11).
ImportedRequestsResolve ==
  ~WriteFailed =>
    \A p \in DOMAIN built :
      /\ built[p].ok
      /\ \A f \in Fragments(built[p].value) : ~IsRef(f, "env")
      /\ KeyRefs(built[p].value) \subseteq NamedPaths

\* Every reference resolves that was promised to: those of a configuration, and
\* those of the requests an import became.
ReferencesResolve == NothingLeftToResolve /\ ImportedRequestsResolve

\* A request is built without any ${env.*} in its URL, the values of its headers and
\* the strings of its body; buildBaseRequest says more, "never contains" any.
NoLiteralReferenceSent ==
  \A p \in DOMAIN built : built[p].ok =>
    \A f \in Fragments(built[p].value) : f[1] # "unreferable" /\ ~IsRef(f, "env")

\* The lists in v one element of which fits the schemas of two.
RECURSIVE Ambiguous(_)
Ambiguous(v) ==
  /\ Kind(v) \in {"arr", "obj"}
  /\ \/ \E k \in DOMAIN v[2] : Ambiguous(v[2][k])
     \/ /\ Kind(v) = "arr"
        /\ \E i, j \in DOMAIN v[2] :
             Infer(v[2][i]) # Infer(v[2][j]) /\ Accepts(Infer(v[2][i]), v[2][j])

AcceptsExample(schema, body) ==
  (body.json /\ ~Ambiguous(body.value)) => Accepts(schema, body.value)

RECURSIVE Parts(_)
Parts(v) ==
  {v} \union (IF Kind(v) \in {"arr", "obj"} THEN UNION {Parts(v[2][k]) : k \in DOMAIN v[2]} ELSE {})

\* A schema with a oneOf that loses a keyword without a warning.
LosesInOneOf(given) ==
  LET schemas == {s \in Parts(given) : Kind(s) = "obj"}
  IN  /\ \E s \in schemas : Has(s, "oneOf")
      /\ \E s \in schemas : Has(s, "not") \/ (Has(s, "required") /\ ~Has(s, "properties"))

Widens(given, made) ==
  LosesInOneOf(given) \/ \A v \in Samples : Accepts(given, v) => Accepts(made, v)

\* The schemas of an imported endpoint accept what they were made from: an inferred
\* one its example, a translated one, when nothing is warned of, all the values the
\* document's does.  Not so in two cases: a list whose elements fit the schemas of
\* one another, and a oneOf when a keyword is lost (schema-infer.ts infer,
\* schema-converter.ts convert).
ImportedSchemasAccept ==
  \A k \in DOMAIN writable :
    LET item == Items[writable[k].from]
        made == writable[k].endpoint
        Silent(what) == <<what, writable[k].from>> \notin warned
        body == NormalizeRequestBody(item.op, item.params, source.flavor)
    IN  CASE source.kind = "postman" ->
               /\ made.request.schema # Undefined =>
                    AcceptsExample(made.request.schema, RawJson(made.request.body))
               /\ AcceptsExample(made.response.schema, ChosenExample(item.request.responses).body)
          [] source.kind = "openapi" ->
               /\ (body # <<>> /\ Silent("body")) => Widens(body[1].schema, made.request.schema)
               /\ (item.op.responses # <<>> /\ Silent("response")) =>
                    Widens(SchemaOf(ChooseResponse(item.op.responses), source.flavor),
                           made.response.schema)
=============================================================================
