----------------------------- MODULE OpenApiImport -----------------------------
(***************************************************************************)
(* What an import makes of the operations of an OpenAPI 3 or Swagger 2     *)
(* document: the loader, the flattener with its normalizers, the           *)
(* converter, the response seeder, the security mapper and the assembler   *)
(* of src/importers/openapi/.  The state machine that goes from operation  *)
(* to operation is ImportRun.                                              *)
(*                                                                         *)
(* Objects whose order counts are sequences, in the order their entries    *)
(* are enumerated.  The base URL is found and used by nothing, and so are  *)
(* the media types.                                                        *)
(***************************************************************************)
EXTENDS ImportNaming

CONSTANTS
  JsonTypes      \* media types with json in their names

At(v, k) == IF k \in DOMAIN v[2] THEN v[2][k] ELSE Undefined
ObjectOr(v, fallback) == IF Kind(v) = "obj" THEN v ELSE fallback

\* The reference resolver of the library takes the document, or only its bundle; the
\* version is 3.x or 2.x.
LoadSpec(source) ==
  [ok |-> /\ source.file = "ok"
          /\ source.refs \in {"resolved", "circular"}
          /\ source.flavor \in {"openapi-3", "swagger-2"},
   warned |-> source.refs = "circular"]

-----------------------------------------------------------------------------
(* Parameters.  A Swagger 2 parameter has its schema written into it.      *)

Lift2xInlineSchema(raw) ==
  IF Kind(At(raw, "type")) # "str" THEN ObjectOr(At(raw, "schema"), Undefined)
  ELSE Map([k \in {"type"} \union ({"format"} \intersect DOMAIN raw[2])
                    \union {k \in {"items"} : Kind(At(raw, k)) \in {"arr", "obj"}}
                    \union {k \in {"enum"} : Kind(At(raw, k)) = "arr"} |-> raw[2][k]])

Locations(flavor) ==
  {"path", "query", "header"} \union (IF flavor = "swagger-2" THEN {"body", "formData"} ELSE {})

NormalizeOneParam(p, flavor) ==
  [name |-> p.name, in |-> p.in,
   required |-> p.in = "path" \/ At(p.raw, "required") = Boolean(TRUE),
   schema |-> IF flavor = "swagger-2" /\ p.in # "body" THEN Lift2xInlineSchema(p.raw)
              ELSE ObjectOr(At(p.raw, "schema"), Undefined),
   example |-> CASE p.in = "body" -> At(p.raw, "x-example")
                 [] p.in = "formData" -> Undefined
                 [] OTHER -> At(p.raw, "example")]

NormalizeParameters(params, flavor) ==
  LET known == SelectSeq(params, LAMBDA p : p.in \in Locations(flavor))
  IN  [i \in DOMAIN known |-> NormalizeOneParam(known[i], flavor)]

\* An operation's parameter takes the place of the path's of that name and location.
MergeParameters(pathParams, opParams) ==
  LET Same(p, q) == p.name = q.name /\ p.in = q.in
      Put(merged, p) ==
        LET at == {i \in DOMAIN merged : Same(merged[i], p)}
        IN  IF at = {} THEN Append(merged, p)
            ELSE [merged EXCEPT ![CHOOSE i \in at : \A j \in at : i <= j] = p]
  IN  FoldLeft(Put, pathParams, opParams)

-----------------------------------------------------------------------------
(* Bodies, responses, security.  A content is a sequence of media types    *)
(* with their schema and example.                                          *)

PickJsonMediaType(content) ==
  LET json  == SelectSeq(content, LAMBDA m : m.type = "application/json")
      named == SelectSeq(content, LAMBDA m : m.type \in JsonTypes)
  IN  IF json # <<>> THEN Head(json) ELSE IF named # <<>> THEN Head(named) ELSE Head(content)

\* At most one: the schema, when there is one, and the example.
NormalizeRequestBody(op, params, flavor) ==
  LET body == SelectSeq(params, LAMBDA p : p.in = "body")
      form == SelectSeq(params, LAMBDA p : p.in = "formData")
      FieldAt(n) == form[SelectLastInSeq(form, LAMBDA p : p.name = n)].schema
      needed == SelectSeq(form, LAMBDA p : p.required)
      fields == Map([n \in {form[i].name : i \in DOMAIN form} |->
                       IF FieldAt(n) = Undefined THEN Typed("string") ELSE FieldAt(n)])
      picked == PickJsonMediaType(op.content)
  IN  CASE flavor = "openapi-3" /\ op.content # <<>> ->
             <<[schema |-> ObjectOr(picked.schema, Undefined), example |-> picked.example]>>
        [] flavor = "swagger-2" /\ body # <<>> ->
             <<[schema |-> Head(body).schema, example |-> Head(body).example]>>
        [] flavor = "swagger-2" /\ body = <<>> /\ form # <<>> ->
             <<[schema |-> Map([type |-> Text("object"), properties |-> fields]
                 @@ (IF needed = <<>> THEN Empty
                     ELSE [required |-> Arr([i \in DOMAIN needed |-> Text(needed[i].name)])])),
                example |-> Undefined]>>
        [] OTHER -> <<>>

\* A status is the number its key begins with, -1 without one, 0 for default.
DefaultKey == 0
SchemaOf(response, flavor) ==
  IF flavor = "openapi-3"
  THEN IF response.content = <<>> THEN Undefined
       ELSE ObjectOr(PickJsonMediaType(response.content).schema, Undefined)
  ELSE ObjectOr(response.schema, Undefined)

\* The lowest 2xx, otherwise the first that is no default, otherwise the default.
ChooseResponse(responses) ==
  LET ok == {i \in DOMAIN responses : responses[i].status \in 200 .. 299}
      named == SelectSeq(responses, LAMBDA r : r.status # DefaultKey)
  IN  IF ok # {}
      THEN responses[CHOOSE i \in ok : \A j \in ok :
             \/ responses[i].status < responses[j].status
             \/ responses[i].status = responses[j].status /\ i <= j]
      ELSE IF named # <<>> THEN Head(named) ELSE Head(responses)

ConvertOr(schema, fallback) ==
  IF schema = Undefined THEN [schema |-> fallback, warned |-> TRUE] ELSE Convert(schema)

SeedSpecResponse(op, flavor) ==
  IF op.responses = <<>> THEN [status |-> 200, schema |-> Permissive, warned |-> TRUE]
  ELSE LET chosen == ChooseResponse(op.responses)
           result == ConvertOr(SchemaOf(chosen, flavor), Permissive)
       IN  [status |-> IF chosen.status \in 100 .. 599 THEN chosen.status ELSE 200,
            schema |-> result.schema, warned |-> result.warned]

\* Requirements are alternatives; the names in one are needed together.
NormalizeSecurity(op, doc) == IF op.secured THEN op.security ELSE doc.security

MapScheme(scheme, flavor) ==
  CASE scheme = "bearer" /\ flavor = "openapi-3" -> "user_token"
    [] scheme = "basic" -> "basic_auth"
    [] scheme = "apiKey" -> "api_key"
    [] OTHER -> ""

MapSecurity(security, doc) ==
  LET names == IF security = <<>> THEN <<>> ELSE Head(security)
      mapped == IF Len(names) = 1 /\ Head(names) \in DOMAIN doc.schemes
                THEN MapScheme(doc.schemes[Head(names)], doc.flavor) ELSE ""
  IN  [strategy |-> mapped,
       warned |-> Len(security) > 1 \/ (names # <<>> /\ mapped = "")]

-----------------------------------------------------------------------------
(* Operations.                                                             *)

SpecMethods == {"get", "post", "put", "patch", "delete", "head", "options"}
NonOperationKeys == {"parameters", "$ref", "summary", "description"}

\* The entries of a path that are operations, and those that look like one: any key
\* of three to ten letters does.
OperationsAt(path) ==
  SelectSeq(path.entries, LAMBDA e : e.key \in SpecMethods /\ e.object)
UnsupportedAt(path) ==
  {e.key : e \in {x \in ToSet(path.entries) : x.key \notin SpecMethods \union NonOperationKeys}}

DefaultTag(path) ==
  LET named == SelectSeq(path.segments, LAMBDA s : ~s.param)
  IN  IF named = <<>> THEN "default" ELSE Head(named).name

MethodAndPath(method, path) ==
  FoldLeft(LAMBDA acc, s : acc \o "_" \o s.name, method, path.segments)

FlattenOperations(doc) ==
  FlattenSeq([i \in DOMAIN doc.paths |->
    LET path == doc.paths[i]
        shared == NormalizeParameters(path.params, doc.flavor)
        entries == OperationsAt(path)
    IN  [j \in DOMAIN entries |->
          LET op == entries[j].op
              own == NormalizeParameters(op.params, doc.flavor)
          IN  [op |-> op, method |-> entries[j].key, path |-> path,
               params |-> MergeParameters(shared, own),
               folders |-> <<IF op.tags = <<>> THEN DefaultTag(path) ELSE Head(op.tags)>>]]])

-----------------------------------------------------------------------------
(* The endpoint.                                                           *)

\* The one value a header can have, as far as the document says: at most one text.
ConstantValue(p) ==
  LET enum == IF p.schema = Undefined THEN Undefined ELSE At(p.schema, "enum")
      default == IF p.schema = Undefined THEN Undefined ELSE At(p.schema, "default")
  IN  CASE Kind(enum) = "arr" /\ Len(enum[2]) = 1 /\ Kind(enum[2][1]) = "str" -> <<enum[2][1][2]>>
        [] Kind(default) = "str" /\ ~(Kind(enum) = "arr" /\ Len(enum[2]) = 1
                                        /\ Kind(enum[2][1]) = "str") -> <<default[2]>>
        [] OTHER -> IF Kind(p.example) = "str" THEN <<p.example[2]>> ELSE <<>>

\* ${env.<slug>}, a reference only when the slug is a name a reference can have.
Placeholder(name) ==
  LET slug == ToIdSlug(name)
  IN  IF IsEnvName(slug) THEN <<Ref(EnvPath(slug))>> ELSE <<<<"unreferable", slug>>>>

RelevantHeaders(params) ==
  SelectSeq(params, LAMBDA p : /\ p.in = "header" /\ p.name # "content-type"
                               /\ p.required \/ p.example # Undefined)

HeadersFrom(params) ==
  LET headers == RelevantHeaders(params)
      ValueOf(p) == IF ConstantValue(p) = <<>> THEN Placeholder(p.name) ELSE ConstantValue(p)[1]
  IN  [n \in {headers[i].name : i \in DOMAIN headers} |->
         ValueOf(headers[SelectLastInSeq(headers, LAMBDA p : p.name = n)])]

PlaceholdersFrom(params) ==
  {ToIdSlug(p.name) : p \in {q \in ToSet(RelevantHeaders(params)) : ConstantValue(q) = <<>>}}

\* What is warned of a query parameter's schema is dropped.
QueryFrom(params) ==
  LET query == SelectSeq(params, LAMBDA p : p.in = "query")
  IN  [n \in {query[i].name : i \in DOMAIN query} |->
         LET schema == query[SelectLastInSeq(query, LAMBDA p : p.name = n)].schema
         IN  IF schema = Undefined THEN Typed("string") ELSE Convert(schema).schema]

OperationName(flat) ==
  IF flat.op.operationId # "" THEN flat.op.operationId ELSE MethodAndPath(flat.method, flat.path)

AssembleOpenApi(flat, doc, id) ==
  LET op   == flat.op
      base == MethodAndPath(flat.method, flat.path)
      body == NormalizeRequestBody(op, flat.params, doc.flavor)
      converted == [i \in DOMAIN body |-> ConvertOr(body[i].schema, Permissive)]
      response  == SeedSpecResponse(op, doc.flavor)
      auth      == MapSecurity(NormalizeSecurity(op, doc), doc)
      endpoint  == [id |-> id, name |-> IF op.summary # "" THEN op.summary ELSE base,
                    url |-> <<Lit(base)>>, auth |-> auth.strategy,
                    request |-> [headers |-> HeadersFrom(flat.params),
                                 query |-> QueryFrom(flat.params),
                                 body |-> IF body = <<>> THEN Undefined ELSE body[1].example,
                                 schema |-> IF body = <<>> THEN Undefined
                                            ELSE converted[1].schema],
                    response |-> [status |-> Num(response.status), schema |-> response.schema]]
  IN  [endpoint |-> IF ValidEndpoint(endpoint) THEN <<endpoint>> ELSE <<>>,
       warned |-> {w \in {"skipped", "auth", "response", "body"} :
                     \/ w = "skipped" /\ ~ValidEndpoint(endpoint)
                     \/ w = "auth" /\ auth.warned
                     \/ w = "response" /\ response.warned
                     \/ w = "body" /\ \E i \in DOMAIN converted : converted[i].warned}]
=============================================================================
