----------------------------- MODULE TestCatalog -----------------------------
(***************************************************************************)
(* The catalog of src/test-catalog: from the endpoints of a project to the *)
(* plan, a sequence of test cases.  Pure operators; RunCommand uses them.  *)
(*                                                                         *)
(* Endpoint ids are numbers in localeCompare order.  Within its endpoint a *)
(* case id is made of the kind and the ordinal; a field path is the        *)
(* sequence of its keys, "[]" for the items of an array.                   *)
(***************************************************************************)
EXTENDS Integers, Sequences, FiniteSets, SequencesExt

CONSTANT MaxDepth   \* the schema walker's maxDepth

ASSUME DepthAssumption == MaxDepth \in Nat

Methods == {"GET", "POST", "PUT", "PATCH", "DELETE", "HEAD", "OPTIONS"}
Reads == {"GET", "HEAD", "OPTIONS"}

\* The kinds in the localeCompare order of their ids.
KindOrder == <<"assertion", "auth_happy_path", "boundary_battery",
  "conditional_get_304", "content_type_alignment", "cors_preflight",
  "db_state_matches_expectation", "delete_idempotency",
  "garbage_token_returns_401", "get_idempotency", "head_get_parity",
  "malformed_json_returns_400", "method_not_allowed", "no_auth_returns_401",
  "pagination_boundary", "put_idempotency",
  "required_field_omission_returns_400", "response_schema_validation",
  "response_time_sla", "status_code_conformance", "type_violation_returns_400">>
Kinds == ToSet(KindOrder)

MarkerFor(kind) ==
  IF kind \in {"status_code_conformance", "content_type_alignment",
               "response_time_sla", "response_schema_validation",
               "auth_happy_path", "head_get_parity", "assertion",
               "cors_preflight"}
  THEN "smoke" ELSE "regression"

ClassifyProdSafe(kind, e, declared) ==
  MarkerFor(kind) = "smoke" /\ (e.method \in Reads \/ declared)

\* A case of endpoint e; `what' is the field or the probe it is about, `bound'
\* the constraint, the side of it and the value a boundary case sends.
CaseOf(e, kind, ordinal, what) ==
  [ endpoint |-> e.id, kind |-> kind, ordinal |-> ordinal, what |-> what,
    bound |-> << >>, marker |-> MarkerFor(kind),
    prod_safe |-> ClassifyProdSafe(kind, e, FALSE) ]

\* The generators that hand endpoint.prod_safe to the classifier.
Vouched(e, c) ==
  [c EXCEPT !.prod_safe = ClassifyProdSafe(c.kind, e, e.prod_safe)]

One(e, kind) == << CaseOf(e, kind, 0, << >>) >>
When(condition, seq) == IF condition THEN seq ELSE << >>

\* The members of seq that are in S, in their order.
Among(seq, S) == FlattenSeq([i \in DOMAIN seq |-> When(seq[i] \in S, <<seq[i]>>)])
-----------------------------------------------------------------------------
(* SchemaWalker.  A schema is a leaf, an object with properties or an      *)
(* array with items; limits maps the constraints it declares to values.    *)

Constraints == <<"minimum", "maximum", "minLength", "maxLength", "enum">>

Children(node) ==
  CASE node.shape = "object" -> {node.properties[i].node : i \in DOMAIN node.properties}
    [] node.shape = "array"  -> {node.items}
    [] OTHER                 -> {}

\* The nodes at each depth below the root, down to the first that is too deep.
NodesAt(schema) ==
  LET at[d \in 0 .. MaxDepth + 1] ==
        IF d = 0 THEN {schema} ELSE UNION {Children(node) : node \in at[d - 1]}
  IN  at

\* The walk leaves fields out, and warns.
TooDeep(schema) == NodesAt(schema)[MaxDepth + 1] # {}

Below(key, fields) == [i \in DOMAIN fields |-> [fields[i] EXCEPT !.path = <<key>> \o @]]

\* The descriptors of the fields below a node, in document order; more[child] are
\* those below its child.
Descriptors(node, more) ==
  CASE node.shape = "object" ->
         FlattenSeq([i \in DOMAIN node.properties |->
           LET p == node.properties[i]
           IN  << [path |-> <<p.key>>, type |-> p.node.type,
                   required |-> p.required, limits |-> p.node.limits] >>
               \o Below(p.key, more[p.node])])
    [] node.shape = "array" -> Below("[]", more[node.items])
    [] OTHER -> << >>

\* With k more levels to go, for every node there.
Visit(schema) ==
  LET visit[k \in 0 .. MaxDepth + 1] ==
        [node \in NodesAt(schema)[MaxDepth + 1 - k] |->
           IF k = 0 THEN << >> ELSE Descriptors(node, visit[k - 1])]
  IN  visit

Walk(schema) == Visit(schema)[MaxDepth + 1][schema]
-----------------------------------------------------------------------------
(* The generators, in their fixed order.                                   *)

HasSchema(e) == e.body_schema.shape # "none"
FieldsOf(e) == IF HasSchema(e) THEN Walk(e.body_schema) ELSE << >>

UniversalCases(e) ==
  LET own == One(e, "status_code_conformance") \o One(e, "content_type_alignment")
             \o When(e.response_schema = "schema", One(e, "response_schema_validation"))
             \o One(e, "auth_happy_path") \o One(e, "response_time_sla")
  IN  [i \in DOMAIN own |-> Vouched(e, own[i])]

AuthNegativeCases(e) ==
  When(e.auth_strategy # "none",
    One(e, "no_auth_returns_401") \o One(e, "garbage_token_returns_401")
      \o One(e, "method_not_allowed"))

BodyNegativeCases(e) ==
  LET fields == FieldsOf(e)
      about(kind, places) ==
        FlattenSeq([i \in DOMAIN fields |->
          When(i \in places, << CaseOf(e, kind, i - 1, fields[i].path) >>)])
  IN  When(HasSchema(e) \/ e.body_example,
        One(e, "malformed_json_returns_400")
          \o about("required_field_omission_returns_400",
                   {i \in DOMAIN fields : fields[i].required})
          \o about("type_violation_returns_400",
                   {i \in DOMAIN fields : fields[i].type # "unknown"}))

\* What is tried where a value outside an enum is wanted.  The code goes on counting;
\* here the row ends.
Row == <<"__apiwright_not_in_enum__", "0", "false", "1", "2", "3">>

\* The first of them that the enum lacks.
FirstAbsent(enum) ==
  Row[CHOOSE i \in DOMAIN Row :
        Row[i] \notin ToSet(enum) /\ \A k \in 1 .. i - 1 : Row[k] \in ToSet(enum)]

\* The values either side of a constraint; a string is its length.
Bounds(constraint, v) ==
  CASE constraint = "minimum"   -> << <<"inside", v>>, <<"outside", v - 1>> >>
    [] constraint = "maximum"   -> << <<"inside", v>>, <<"outside", v + 1>> >>
    [] constraint = "minLength" -> << <<"inside", v>> >>
                                     \o When(v > 0, << <<"outside", v - 1>> >>)
    [] constraint = "maxLength" -> << <<"inside", v>>, <<"outside", v + 1>> >>
    [] constraint = "enum"      -> When(v # << >>,
                                    << <<"inside", v[1]>>, <<"outside", FirstAbsent(v)>> >>)

\* On the side of the limit that it admits.
Satisfies(value, constraint, limit) ==
  CASE constraint \in {"minimum", "minLength"} -> value >= limit
    [] constraint \in {"maximum", "maxLength"} -> value <= limit
    [] OTHER -> value \in ToSet(limit)

\* Variant: one ordinal per constraint slot instead of two.
BoundaryOrdinalTight(field, slot, k) ==
  (field - 1) * Len(Constraints) + (slot - 1) + (k - 1)

BoundaryOrdinal(field, slot, k) ==
  (field - 1) * Len(Constraints) * 2 + (slot - 1) * 2 + (k - 1)

BoundaryCases(e) ==
  LET of(i, slot) ==
        LET f == FieldsOf(e)[i]
            c == Constraints[slot]
        IN  IF c \notin DOMAIN f.limits THEN << >>
            ELSE LET bounds == Bounds(c, f.limits[c])
                 IN  [k \in DOMAIN bounds |->
                       [CaseOf(e, "boundary_battery", BoundaryOrdinal(i, slot, k), f.path)
                          EXCEPT !.bound = <<c>> \o bounds[k]]]
  IN  FlattenSeq([i \in DOMAIN FieldsOf(e) |->
        FlattenSeq([slot \in DOMAIN Constraints |-> of(i, slot)])])

\* "a".repeat(n) throws on a negative length: the generator is lost, no other.
BoundaryThrows(e) ==
  \E i \in DOMAIN FieldsOf(e) : \E c \in {"minLength", "maxLength"} :
    LET limits == FieldsOf(e)[i].limits
    IN  c \in DOMAIN limits /\ limits[c] < 0

IdempotencyCases(e) ==
  CASE e.method = "GET"    -> One(e, "get_idempotency")
    [] e.method = "DELETE" -> One(e, "delete_idempotency")
    [] e.method = "PUT"    -> One(e, "put_idempotency")
    [] OTHER               -> << >>

HeadGetParityCases(e) ==
  When(e.method = "HEAD" /\ e.pair_with # 0, One(e, "head_get_parity"))

ConditionalGetCases(e) ==
  When(e.method = "GET" /\ e.etag_supported, One(e, "conditional_get_304"))

CorsDropped(e) ==
  /\ e.method = "OPTIONS" /\ e.cors.declared
  /\ e.cors.allow_origins = 0 \/ e.cors.allow_methods = 0

CorsPreflightCases(e) ==
  LET own == One(e, "cors_preflight")
  IN  When(e.method = "OPTIONS" /\ e.cors.declared /\ ~CorsDropped(e),
        [i \in DOMAIN own |-> Vouched(e, own[i])])

Paginated(e) == e.method = "GET" /\ e.pagination.style # "none"
PaginationDropped(e) ==
  Paginated(e) /\ e.pagination.max_size < e.pagination.default_size

Probes(pagination) ==
  CASE pagination.style = "cursor" -> <<"size_zero", "size_max">>
    [] pagination.style = "offset" -> <<"size_zero", "size_max", "size_max_plus_one">>
    [] OTHER -> <<"size_zero", "size_max", "size_max_plus_one">>
                  \o When(pagination.page_param, <<"page_negative">>)

PaginationCases(e) ==
  IF ~Paginated(e) \/ PaginationDropped(e) THEN << >>
  ELSE LET probes == Probes(e.pagination)
       IN  [i \in DOMAIN probes |->
             CaseOf(e, "pagination_boundary", i - 1, <<probes[i]>>)]

DbVerifyCases(e) ==
  [i \in 1 .. e.db_verify |-> CaseOf(e, "db_state_matches_expectation", i - 1, << >>)]

AssertionCases(e) ==
  [i \in DOMAIN e.assertions |-> CaseOf(e, "assertion", i - 1, << >>)]

RawCases(e) ==
  UniversalCases(e) \o AuthNegativeCases(e) \o BodyNegativeCases(e)
    \o When(HasSchema(e) /\ ~BoundaryThrows(e), BoundaryCases(e))
    \o IdempotencyCases(e) \o HeadGetParityCases(e) \o ConditionalGetCases(e)
    \o CorsPreflightCases(e) \o PaginationCases(e) \o DbVerifyCases(e)
    \o AssertionCases(e)

\* What the generators warn of: <<topic, endpoint, token>>.
NoToken == [shape |-> "none", kind |-> "none", field |-> << >>]
RawWarnings(e) ==
  { w \in {"no_schema", "depth", "generator", "cors", "pagination", "page_param",
           "put_body", "variants"} \X {e.id} \X {NoToken} :
      CASE w[1] = "no_schema"  -> e.response_schema # "schema"
        [] w[1] = "depth"      -> HasSchema(e) /\ TooDeep(e.body_schema)
        [] w[1] = "generator"  -> HasSchema(e) /\ BoundaryThrows(e)
        [] w[1] = "cors"       -> CorsDropped(e)
        [] w[1] = "pagination" -> PaginationDropped(e)
        [] w[1] = "page_param" -> Paginated(e) /\ ~PaginationDropped(e)
                                    /\ e.pagination.style = "page"
                                    /\ ~e.pagination.page_param
        [] w[1] = "put_body"   -> e.method = "PUT" /\ ~e.body_example
        [] w[1] = "variants"   -> e.idle_variants }
-----------------------------------------------------------------------------
(* SkipResolver.  A token is malformed, or names a kind and perhaps a      *)
(* field; the scope of the configuration's own tokens is 0.                *)

Recognized(token) == token.shape = "ok" /\ token.kind \in Kinds

MatchesToken(c, token) ==
  token.shape = "ok" /\ token.kind = c.kind /\ token.field \in {<< >>, c.what}

\* The first token that takes c out, its endpoint's before the global ones.
MatchSkip(c, tokens) ==
  LET hits == {i \in DOMAIN tokens : MatchesToken(c, tokens[i])}
  IN  IF hits = {} THEN NoToken
      ELSE tokens[CHOOSE i \in hits : \A j \in hits : i <= j]

InvalidTokens(scope, tokens) ==
  { <<"bad_token", scope, token>> : token \in {t \in ToSet(tokens) : ~Recognized(t)} }
UselessTokens(scope, tokens, hits) ==
  { <<"zero_match", scope, token>> :
      token \in {t \in ToSet(tokens) : Recognized(t) /\ t \notin hits} }

Hits(e, global) ==
  { MatchSkip(c, e.skip_cases \o global) : c \in ToSet(RawCases(e)) } \ {NoToken}

Kept(e, global) ==
  LET raw == RawCases(e)
  IN  Among(raw, {c \in ToSet(raw) : MatchSkip(c, e.skip_cases \o global) = NoToken})

SkipWarnings(e, global) ==
  InvalidTokens(e.id, e.skip_cases)
    \union { <<"skipped", e.id, token>> : token \in Hits(e, global) \intersect ToSet(e.skip_cases) }
    \union UselessTokens(e.id, e.skip_cases, Hits(e, global))

GlobalWarnings(endpoints, global) ==
  LET hits == UNION { Hits(e, global) \ ToSet(e.skip_cases) : e \in endpoints }
  IN  InvalidTokens(0, global) \union { <<"skipped", 0, token>> : token \in hits }
        \union UselessTokens(0, global, hits)
-----------------------------------------------------------------------------
(* TestPlanGenerator.  Endpoints have different ids: the loader saw to it. *)

\* Why a parity case of e cannot be run, if it cannot.
PairProblem(e, endpoints) ==
  LET found == {g \in endpoints : g.id = e.pair_with}
  IN  IF found = {} THEN "unresolved"
      ELSE IF \E g \in found : g.method # "GET" THEN "method"
      ELSE IF \E g \in found : g.url # e.url THEN "url" ELSE "none"

ById(endpoints, id) == CHOOSE e \in endpoints : e.id = id

\* Those with i - 1 smaller ids are the i-th.
InIdOrder(all) ==
  [i \in 1 .. Cardinality(all) |->
     CHOOSE e \in all : Cardinality({f \in all : f.id < e.id}) = i - 1]

\* The endpoints come by id; global is skip_globally.
Generate(all, global) ==
  LET byId == InIdOrder(all)
      kept == FlattenSeq([i \in DOMAIN byId |-> Kept(byId[i], global)])
      pairless(c) == c.kind = "head_get_parity"
                       /\ PairProblem(ById(all, c.endpoint), all) # "none"
  IN  [ cases |-> Among(kept, {c \in ToSet(kept) : ~pairless(c)}),
        warnings |->
          (UNION { RawWarnings(e) \union SkipWarnings(e, global) : e \in all })
            \union GlobalWarnings(all, global)
            \union { <<"pair", c.endpoint, NoToken>> :
                       c \in {k \in ToSet(kept) : pairless(k)} } ]
-----------------------------------------------------------------------------
\* The place of a decimal number below 100 in localeCompare order.
OrdinalKey(n) == IF n < 10 THEN n * 100 ELSE (n \div 10) * 100 + 1 + (n % 10)

KindKey(kind) == CHOOSE i \in DOMAIN KindOrder : KindOrder[i] = kind

\* Case ids in localeCompare order.
CaseIdBefore(c, d) ==
  \/ c.endpoint < d.endpoint
  \/ c.endpoint = d.endpoint /\ KindKey(c.kind) < KindKey(d.kind)
  \/ /\ c.endpoint = d.endpoint /\ c.kind = d.kind
     /\ OrdinalKey(c.ordinal) < OrdinalKey(d.ordinal)

\* The first of SUBSTITUTE_METHOD_PRECEDENCE that is not e's own method.
SubstituteMethod(e) == IF e.method = "POST" THEN "PUT" ELSE "POST"

\* The methods case c of e sends, second requests included.
Sends(e, c) ==
  CASE c.kind = "method_not_allowed" -> {SubstituteMethod(e)}
    [] c.kind = "head_get_parity"    -> {e.method, "GET"}
    [] OTHER                         -> {e.method}
-----------------------------------------------------------------------------
(* What a file that fits its schema declares.                              *)

IsSeq(s) == s \in Seq(ToSet(s))

\* Four constraints are numbers, and no enum holds every candidate of FirstAbsent.
LimitsOK(limits) ==
  /\ \A c \in DOMAIN limits \ {"enum"} : c \in ToSet(Constraints) => limits[c] \in Int
  /\ "enum" \in DOMAIN limits =>
       IsSeq(limits["enum"]) /\ ~(ToSet(Row) \subseteq ToSet(limits["enum"]))

\* The properties of an object have different keys.
WellFormed(node) ==
  node.shape = "object" =>
    /\ IsSeq(node.properties)
    /\ \A i, j \in DOMAIN node.properties :
         node.properties[i].key = node.properties[j].key => i = j
    /\ \A i \in DOMAIN node.properties : LimitsOK(node.properties[i].node.limits)

SchemaOK(schema) == \A d \in 0 .. MaxDepth : \A node \in NodesAt(schema)[d] : WellFormed(node)

EndpointOK(e) ==
  /\ e.id \in Int
  /\ HasSchema(e) => SchemaOK(e.body_schema)
  /\ IsSeq(e.skip_cases) /\ IsSeq(e.assertions) /\ e.db_verify \in Nat
=============================================================================
