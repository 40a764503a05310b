--------------------------- MODULE CaseEvaluation ---------------------------
(***************************************************************************)
(* Endpoints of one URL are executed by several workers against a service  *)
(* that keeps its state from one request to the next.  A trial is the      *)
(* endpoints, the number of workers and the service: it does what the      *)
(* endpoint files say, except for at most one defect.                      *)
(*                                                                         *)
(* The question is what a verdict means: does a failed case show a defect, *)
(* and does every defect make a case fail.                                 *)
(***************************************************************************)
EXTENDS CaseVerdicts

CONSTANTS Trials, NoResponse, NoAttempt

VARIABLES
  trial,
  agenda,    \* the cases of each endpoint, in order
  store,     \* the service's
  at,        \* the place of each endpoint in its cases
  first,     \* the first response of a case that sends two requests
  last,      \* the last attempt
  failed     \* the cases that failed
caseVars == <<trial, agenda, store, at, first, last, failed>>

Endpoints == trial.endpoints
Defect == trial.defect
Declared(method) == {e \in Endpoints : e.method = method}

Numeric == {"minimum", "maximum", "minLength", "maxLength"}

\* A JSON document: what is in it is in something, and no key is "[]".
BodyOK(body) ==
  \/ body = NoBody
  \/ /\ body.kind = "json" /\ body = Json(body.at)
     /\ \A p \in DOMAIN body.at :
          /\ IsSeq(p) /\ "[]" \notin ToSet(p)
          /\ \A i \in 0 .. Len(p) : SubSeq(p, 1, i) \in DOMAIN body.at

\* Endpoints of one URL, each with its method; what the database and the
\* assertions decide is left out.
TrialOK(w) ==
  /\ \A e \in w.endpoints :
       /\ EndpointOK(e) /\ e.method \in Methods /\ BodyOK(e.example)
       /\ e.expected_status \in 200 .. 599
       /\ e.db_verify = 0 /\ e.assertions = << >>
       /\ e.cors.declared => /\ e.cors.allow_methods = Cardinality(e.cors.lists.methods)
                             /\ e.cors.lists.origins[1] # "elsewhere"
       /\ \A d \in w.endpoints : d.id = e.id \/ d.method = e.method => d = e
  /\ w.gone \in {204, 404}
  /\ IsSeq(w.defect) /\ Len(w.defect) \in 1 .. 3
  /\ Len(w.defect) = 3 => w.defect[2] \in Numeric /\ w.defect[3] = "off_by_one"

ASSUME TrialsAssumption == \A w \in Trials : TrialOK(w)
-----------------------------------------------------------------------------
(* The service.  Its store is one resource and the items posted to it.     *)

TypeFits(v, type) ==
  v.type = type \/ type = "unknown" \/ (type = "integer" /\ v.type = "number")

Breaks(constraint, limit, v) ==
  CASE constraint = "minimum"   -> v.type = "number" /\ v.n < limit
    [] constraint = "maximum"   -> v.type = "number" /\ v.n > limit
    [] constraint = "minLength" -> v.type = "string" /\ v.n < limit
    [] constraint = "maxLength" -> v.type = "string" /\ v.n > limit
    [] constraint = "enum"      -> v.s \notin ToSet(limit)
    [] constraint = "format"    -> v.s # "formatted"

\* Of the members of v, those that node, its schema, speaks of: properties are
\* an object's.
Properties(node, v) ==
  IF node.shape = "object" /\ v.type = "object" THEN ToSet(node.properties) ELSE {}

NodesUnder(node, v, key) ==
  {p.node : p \in {q \in Properties(node, v) : q.key = key}}
    \union IF node.shape = "array" /\ v.type = "array" THEN {node.items} ELSE {}

\* The values on the way down to a place of a body.
Above(values, path) == [d \in 1 .. Len(path) |-> values[SubSeq(path, 1, d - 1)]]

\* What the schema says of the value at that place.
NodesFor(schema, above, path) ==
  LET down[d \in 0 .. Len(path)] ==
        IF d = 0 THEN {schema}
        ELSE UNION {NodesUnder(node, above[d], path[d]) : node \in down[d - 1]}
  IN  down[Len(path)]

\* What is wrong with the value at that place: <<path, what>>.
FaultsOf(node, values, path) ==
  IF ~TypeFits(values[path], node.type) THEN {<<path, "type">>}
  ELSE { <<path, c>> : c \in {d \in DOMAIN node.limits : Breaks(d, node.limits[d], values[path])} }
       \union { <<Append(path, p.key), "required">> :
                  p \in {q \in Properties(node, values[path]) :
                           q.required /\ Append(path, q.key) \notin DOMAIN values} }

FaultsAt(schema, values, path) ==
  UNION {FaultsOf(node, values, path) : node \in NodesFor(schema, Above(values, path), path)}

Faults(schema, values) == UNION {FaultsAt(schema, values, path) : path \in DOMAIN values}

BodyFaults(e, body) ==
  IF ~HasSchema(e) THEN {}
  ELSE IF body.kind # "json" THEN {<< << >>, "type">>}
  ELSE Faults(e.body_schema, body.at)

\* A defective service may be blind to one fault.
NoticedFaults(e, body) == BodyFaults(e, body) \ {Defect}

\* It may take a value at its limit for one beyond it.
FalseAlarm(e, body) ==
  /\ Len(Defect) = 3 /\ Defect[3] = "off_by_one" /\ body.kind = "json"
  /\ Defect[1] \in DOMAIN body.at
  /\ \E i \in DOMAIN FieldsOf(e) :
       LET f == FieldsOf(e)[i]
           v == body.at[Defect[1]]
       IN  f.path = Defect[1] /\ Defect[2] \in DOMAIN f.limits /\ v.n = f.limits[Defect[2]]

Admits(credential) ==
  \/ credential \in {"token", "static"}
  \/ Defect = <<"open">>
  \/ credential = "garbage" /\ Defect = <<"any_token">>

EmptyBody == NoTag
Representation(s) == [base |-> s.base, posts |-> s.posts, empty |-> FALSE]
ErrorBody == [base |-> NoBody, posts |-> -1, empty |-> FALSE]

Headers(request, body) ==
  LET typed == ~body.empty /\ Defect # <<"untyped">>
      names == {"date", "vary"} \union (IF typed THEN {"content-type"} ELSE {})
  IN  [h \in names |->
        CASE h = "date" -> request.method
          [] h = "vary" -> IF request.method = "HEAD" /\ Defect = <<"head_varies">> THEN "x" ELSE "y"
          [] h = "content-type" -> "json"]

\* A HEAD is answered like a GET, without the body.
Reply(request, status, body) ==
  LET shown == IF request.method = "HEAD" /\ Defect # <<"head_body">> THEN EmptyBody ELSE body
  IN
  [ status |-> status, body |-> shown, headers |-> Headers(request, body),
    fits |-> ~shown.empty /\ status \in 200 .. 299 /\ Defect # <<"misshapen">>,
    in_time |-> Defect # <<"slow">>, methods |-> {}, allowed |-> {} ]

Tagged(response, tag) ==
  [response EXCEPT !.headers = [h \in DOMAIN @ \union {"etag"} |->
                                 IF h = "etag" THEN tag ELSE @[h]]]

Status(e) == IF Defect = <<"wrong_status">> THEN 203 ELSE e.expected_status
Shown(e, body) == IF Status(e) = 204 THEN EmptyBody ELSE body

\* The answer of a GET or a HEAD.
Fetch(s, e, request) ==
  LET tag == Representation(s)
      supported == \E g \in Declared("GET") : g.etag_supported
      plain == Reply(request, Status(e), Shown(e, tag))
  IN  IF ~s.exists THEN Reply(request, 404, ErrorBody)
      ELSE IF supported /\ request.if_none_match = tag /\ Defect # <<"never_304">>
      THEN Tagged(Reply(request, 304, IF Defect = <<"body_304">> THEN tag ELSE EmptyBody),
                  IF Defect = <<"tag_304">> THEN ErrorBody ELSE tag)
      ELSE IF supported THEN Tagged(plain, tag) ELSE plain

\* The answer of a preflight; one method at a time if the service is strict.
Preflight(e, request) ==
  LET lists == e.cors.lists
      plain == Reply(request, Status(e), EmptyBody)
      refused == trial.strict /\ Cardinality(request.preflight) # 1
  IN  IF request.preflight = {} \/ refused THEN plain
      ELSE [plain EXCEPT
        !.headers = [h \in DOMAIN @ \union {"access-control-allow-origin"} |->
                      IF h = "access-control-allow-origin"
                      THEN IF Defect = <<"origin">> THEN "elsewhere" ELSE lists.origins[1]
                      ELSE @[h]],
        !.methods = IF Defect = <<"methods">> THEN {} ELSE lists.methods,
        !.allowed = IF Defect = <<"headers">> THEN {} ELSE lists.headers]

BadProbe(request) ==
  \/ request.probe \notin {"none", "size_max"} /\ Defect # <<"unbounded">>
  \/ request.probe = "size_max" /\ Defect = <<"size_max">>

\* The status e refuses a request with, or 0.
Refusal(e, request) ==
  IF e.auth_strategy # "none" /\ ~Admits(request.credential) THEN 401
  ELSE IF request.body = Malformed THEN IF Defect = <<"malformed">> THEN 500 ELSE 400
  ELSE IF \/ BadProbe(request)
          \/ NoticedFaults(e, request.body) # {} \/ FalseAlarm(e, request.body)
       THEN 400 ELSE 0

\* What it does with any other.
Served(s, e, request) ==
  CASE request.method \in {"GET", "HEAD"} ->
         [ response |-> Fetch(s, e, request),
           store |-> IF Defect = <<"read_writes">> THEN [s EXCEPT !.posts = @ + 1] ELSE s ]
    [] request.method = "OPTIONS" -> [ response |-> Preflight(e, request), store |-> s ]
    [] request.method = "DELETE" ->
         [ response |->
             IF s.exists THEN Reply(request, Status(e), Shown(e, Representation(s)))
             ELSE Reply(request, IF Defect = <<"delete_fails">> THEN 500 ELSE trial.gone, ErrorBody),
           store |-> [s EXCEPT !.exists = FALSE] ]
    [] request.method \in {"POST", "PUT", "PATCH"} ->
         LET put == [ exists |-> TRUE, base |-> request.body,
                      posts |-> IF Defect = <<"put_adds">> THEN s.posts + 1 ELSE s.posts ]
             next == IF request.method = "PUT" THEN put ELSE [s EXCEPT !.posts = @ + 1]
         IN  [ response |-> Reply(request, Status(e), Shown(e, Representation(next))),
               store |-> next ]

\* What the service answers, and what it makes of its store s.
AnswerTo(s, request) ==
  IF Declared(request.method) = {}
  THEN [ response |-> Reply(request, IF Defect = <<"any_method">> THEN 200 ELSE 405, ErrorBody),
         store |-> s ]
  ELSE LET e == CHOOSE d \in Declared(request.method) : TRUE
           refusal == Refusal(e, request)
       IN  IF refusal # 0 THEN [response |-> Reply(request, refusal, ErrorBody), store |-> s]
           ELSE Served(s, e, request)
-----------------------------------------------------------------------------
(* The execution of the endpoints.                                         *)

Ids == {e.id : e \in Endpoints}
Current(e) == agenda[e.id][at[e.id]]
Done(e) == at[e.id] > Len(agenda[e.id])
Started(e) == at[e.id] > 1 \/ first[e.id] # NoResponse
UnderWay == {e \in Endpoints : Started(e) /\ ~Done(e)}

\* The pool: an endpoint starts behind those before it, when a worker is free.
MayStart(e) ==
  /\ \A d \in Endpoints : d.id < e.id => Started(d)
  /\ Cardinality(UnderWay) < trial.workers

\* `gone' and `disturbed' say what other requests made of the resource: it
\* was deleted before, or written between the two requests of the case.
Conclude(e, passed, request, gone, disturbed) ==
  /\ last' = [ endpoint |-> e, case |-> Current(e), passed |-> passed, request |-> request,
               gone |-> gone, disturbed |-> disturbed ]
  /\ failed' = IF passed THEN failed ELSE failed \union {Current(e)}
  /\ at' = [at EXCEPT ![e.id] = @ + 1]

FirstRequest(e) ==
  /\ ~Done(e) /\ first[e.id] = NoResponse
  /\ Started(e) \/ MayStart(e)
  /\ LET c == Current(e)
         request == FirstRequestOf(e, c)
         answer == AnswerTo(store, request)
     IN  /\ store' = answer.store
         /\ IF NeedsSecond(e, c, answer.response)
            THEN /\ first' = [first EXCEPT ![e.id] = answer]
                 /\ UNCHANGED <<at, last, failed>>
            ELSE /\ Conclude(e, SingleVerdict(e, c, answer.response), request, ~store.exists, FALSE)
                 /\ UNCHANGED first
  /\ UNCHANGED <<trial, agenda>>

SecondRequest(e) ==
  /\ first[e.id] # NoResponse
  /\ LET c == Current(e)
         before == first[e.id]
         request == SecondRequestOf(e, c, before.response)
         answer == AnswerTo(store, request)
     IN  /\ store' = answer.store
         /\ first' = [first EXCEPT ![e.id] = NoResponse]
         /\ Conclude(e, SecondVerdict(e, c, before.response, answer.response), request,
                     FALSE, before.store # store)
  /\ UNCHANGED <<trial, agenda>>

\* The cases of an endpoint by id: the i-th has i - 1 before it.
InOrder(all) ==
  LET ranked == {<<Cardinality({d \in all : CaseIdBefore(d, c)}), c>> : c \in all}
  IN  [i \in 1 .. Cardinality(all) |-> (CHOOSE x \in ranked : x[1] = i - 1)[2]]

Agendas == [e \in UNION {w.endpoints : w \in Trials} |-> InOrder(ToSet(RawCases(e)))]

CasesInit ==
  /\ trial \in Trials
  /\ agenda = [i \in Ids |-> Agendas[ById(Endpoints, i)]]
  /\ store = [exists |-> TRUE, base |-> NoBody, posts |-> 0]
  /\ at = [i \in Ids |-> 1]
  /\ first = [i \in Ids |-> NoResponse]
  /\ last = NoAttempt
  /\ failed = {}

Finished == (\A e \in Endpoints : Done(e)) /\ UNCHANGED caseVars

CasesNext == (\E e \in Endpoints : FirstRequest(e) \/ SecondRequest(e)) \/ Finished

CasesSpec == CasesInit /\ [][CasesNext]_caseVars
-----------------------------------------------------------------------------
(* Properties.                                                             *)

\* The endpoint's own example is a body its schema accepts.
ExampleValid(e) == BodyFaults(e, e.example) = {}

FieldOf(e, path) ==
  LET i == CHOOSE k \in DOMAIN FieldsOf(e) : FieldsOf(e)[k].path = path IN FieldsOf(e)[i]

BodyKinds == {"required_field_omission_returns_400", "type_violation_returns_400",
              "boundary_battery"}

\* The way down to the field leads through objects of the example, and the
\* substitute is one the mutator does not refuse and the type admits.
Feasible(e, c) ==
  /\ ExampleValid(e) /\ e.example.kind = "json"
  /\ \A i \in 0 .. Len(c.what) - 1 :
       LET above == SubSeq(c.what, 1, i)
       IN  above \in DOMAIN e.example.at /\ e.example.at[above].type = "object"
  /\ c.kind # "required_field_omission_returns_400" => ToSet(c.what) \intersect UnsafeSegments = {}
  /\ c.kind = "boundary_battery" =>
       TypeFits(BoundaryValue(c.bound), FieldOf(e, c.what).type)

\* The value a boundary case carries breaks some other constraint of its field.
Torn(e, c) ==
  LET limits == FieldOf(e, c.what).limits
  IN  \E d \in DOMAIN limits \ {c.bound[1]} : Breaks(d, limits[d], BoundaryValue(c.bound))

\* What a body case sends is wrong in the field its title names, in the way
\* it names, and in no other field: otherwise a 400 shows nothing
\* (mutateRequest, case-runners.ts).
RequestsBite ==
  last # NoAttempt =>
    LET e == last.endpoint
        c == last.case
        faults == BodyFaults(e, last.request.body)
        named == CASE c.kind = "required_field_omission_returns_400" -> "required"
                   [] c.kind = "type_violation_returns_400" -> "type"
                   [] c.kind = "boundary_battery" -> c.bound[1]
    IN  c.kind \in BodyKinds /\ Feasible(e, c) =>
          /\ \A f \in faults : f[1] = c.what
          /\ (c.kind = "boundary_battery" /\ c.bound[2] = "inside")
               # (<<c.what, named>> \in faults)

\* These are settled before the body and the resource are looked at.
EarlyKinds == {"no_auth_returns_401", "garbage_token_returns_401", "malformed_json_returns_400",
               "method_not_allowed"}

\* The GET of a parity case admits what the HEAD sends and answers alike.
Paired(e) ==
  \E g \in Declared("GET") :
    /\ g.expected_status = e.expected_status /\ ~HasSchema(g)
    /\ g.auth_strategy # "none" => e.auth_strategy # "none" \/ e.static_header

\* Why a case may fail although the service does what the files say.
Excused(e, a) ==
  LET c == a.case IN
  \/ a.disturbed
  \/ c.kind \notin EarlyKinds /\ (a.gone \/ ~ExampleValid(e))
  \/ c.kind \in BodyKinds /\ ~Feasible(e, c)
  \/ c.kind = "boundary_battery" /\ c.bound[2] = "inside" /\ Torn(e, c)
  \/ c.kind = "method_not_allowed" /\ Declared(SubstituteMethod(e)) # {}
  \/ c.kind = "no_auth_returns_401" /\ e.static_header
  \/ c.kind \in TwoRequestKinds \union {"auth_happy_path"} /\ ~Is2xx(e.expected_status)
  \/ c.kind = "content_type_alignment" /\ (e.expected_status = 204 \/ e.method = "OPTIONS")
  \/ c.kind = "response_schema_validation"
       /\ \/ e.expected_status = 204 \/ ~Is2xx(e.expected_status)
          \/ e.method \in {"HEAD", "OPTIONS"}
  \/ c.kind = "delete_idempotency" /\ trial.gone # SecondDeleteStatus(e)
  \/ c.kind = "head_get_parity" /\ ~Paired(e)
  \/ /\ c.kind = "cors_preflight"
     /\ \/ e.expected_status \notin {200, 204}
        \/ trial.strict /\ Cardinality(e.cors.lists.methods) # 1

\* No case fails against a service that does what the endpoint files say,
\* except for the reasons listed (computeVerdict and the two-request
\* verdicts, under any interleaving of the workers).
FailuresExplained ==
  last # NoAttempt /\ Defect = <<"none">> /\ ~last.passed => Excused(last.endpoint, last)

\* The case that is there to find the defect, where the status the endpoint
\* expects is not that of the defect.
Targets(e, c) ==
  LET expected == e.expected_status IN
  CASE Len(Defect) = 2 ->
         /\ c.what = Defect[1] /\ Feasible(e, c) /\ expected # 400
         /\ \/ Defect[2] = "required" /\ c.kind = "required_field_omission_returns_400"
            \/ Defect[2] = "type" /\ c.kind = "type_violation_returns_400"
            \/ /\ c.kind = "boundary_battery" /\ ~Torn(e, c)
               /\ c.bound[1] = Defect[2] /\ c.bound[2] = "outside"
    [] Len(Defect) = 3 ->
         /\ c.kind = "boundary_battery" /\ c.what = Defect[1] /\ Feasible(e, c)
         /\ c.bound[1] = Defect[2] /\ c.bound[2] = "inside" /\ expected # 400
    [] OTHER ->
         \/ Defect[1] = "open" /\ c.kind = "no_auth_returns_401" /\ expected # 401
         \/ /\ Defect[1] \in {"open", "any_token"} /\ c.kind = "garbage_token_returns_401"
            /\ expected # 401
         \/ /\ Defect[1] = "any_method" /\ c.kind = "method_not_allowed"
            /\ Declared(SubstituteMethod(e)) = {}
         \/ Defect[1] = "malformed" /\ c.kind = "malformed_json_returns_400"
         \/ /\ Defect[1] = "wrong_status" /\ c.kind = "status_code_conformance"
            /\ expected \notin {203, 400, 404} /\ (e.method = "DELETE" => expected # trial.gone)
         \/ Defect[1] = "untyped" /\ c.kind = "content_type_alignment"
         \/ Defect[1] = "slow" /\ c.kind = "response_time_sla"
         \/ Defect[1] = "misshapen" /\ c.kind = "response_schema_validation"
         \/ Defect[1] = "read_writes" /\ c.kind = "get_idempotency" /\ expected # 204
         \/ /\ Defect[1] = "delete_fails" /\ c.kind = "delete_idempotency"
            /\ Declared("PUT") = {}
         \/ Defect[1] = "put_adds" /\ c.kind = "put_idempotency" /\ expected # 204
         \/ Defect[1] = "head_body" /\ c.kind = "head_get_parity" /\ expected # 204
         \/ Defect[1] = "head_varies" /\ c.kind = "head_get_parity"
         \/ Defect[1] \in {"never_304", "body_304", "tag_304"} /\ c.kind = "conditional_get_304"
         \/ /\ Defect[1] = "unbounded" /\ c.kind = "pagination_boundary"
            /\ c.what # <<"size_max">> /\ expected # 400 /\ ExampleValid(e)
         \/ /\ Defect[1] = "size_max" /\ c.kind = "pagination_boundary"
            /\ c.what = <<"size_max">> /\ expected # 400
         \/ /\ Defect[1] \in {"origin", "methods", "headers"} /\ c.kind = "cors_preflight"
            /\ Defect[1] = "headers" => e.cors.lists.headers # {}

\* Whatever the other workers do, a defect makes the case fail that is there
\* to find it (mutateRequest, applyAuthForCase and the verdicts).
DefectsCaught ==
  \A e \in Endpoints : Done(e) =>
    \A c \in ToSet(agenda[e.id]) : Targets(e, c) => c \in failed

\* "Each omitting one field": the body of an omission case lacks a field its
\* schema requires (docs/test-catalog.md:183, test-case-params.ts:129).
OmissionOmits ==
  last # NoAttempt =>
    (last.case.kind = "required_field_omission_returns_400" /\ ExampleValid(last.endpoint)
       => BodyFaults(last.endpoint, last.request.body) # {})
=============================================================================
