---------------------------- MODULE MCProjectInputs ----------------------------
(* The environments of MCEnvironmentLoader, and small imports: names that    *)
(* fall together, variables of every shape, bodies and examples that lists,  *)
(* depth and syntax make hard, documents of both versions.                   *)
EXTENDS ProjectInputs, MCEnvironmentLoader

MCHome == World(TRUE, Yaml(With(Empty)), File("missing"), NoHeaders)
MCInputWorlds == MCWorlds \union {MCHome}

MCSlug == ("A" :> "a") @@ ("F" :> "f") @@ ("--" :> "") @@ ("X-Id" :> "x-id") @@ ("Tenant" :> "tenant")
MCSanitized ==
  ("a b" :> "a_b") @@ ("a-b" :> "a_b") @@ ("--" :> "") @@ ("x-id" :> "x_id")
MCDottedName == ("o.p" :> <<"o", "p">>)
\* Keys with a variable, and what these become: of two variables that are sanitized
\* to one name the second is numbered.
VariableKeys == {"{{v}}", "{{a b}}", "{{a-b}}", "{{a_b}}"}
MCKeyTexts ==
  ("{{v}}" :> <<<<"var", "v">>>>) @@ ("{{a b}}" :> <<<<"var", "a b">>>>)
  @@ ("{{a-b}}" :> <<<<"var", "a-b">>>>) @@ ("{{a_b}}" :> <<<<"var", "a_b">>>>)
  @@ ("${env.v}" :> <<<<"ref", <<"env", "v">>>>>>)
  @@ ("${env.a_b}" :> <<<<"ref", <<"env", "a_b">>>>>>)
  @@ ("${env.a_b_2}" :> <<<<"ref", <<"env", "a_b_2">>>>>>)
MCJsonTypes == {"application/json", "application/problem+json"}

-----------------------------------------------------------------------------
Request(name) ==
  [type |-> "request", name |-> name, id |-> "", method |-> "GET", url |-> <<Lit("u")>>,
   headers |-> <<>>, query |-> <<>>, body |-> NoBody, auth |-> "", script |-> "",
   responses |-> <<>>, disabled |-> FALSE]
Folder(name, items) == [type |-> "folder", name |-> name, items |-> items]
Note == [type |-> "note"]
Collection(items) == [kind |-> "postman", file |-> "ok", items |-> items]
Field(key, value) == [key |-> key, value |-> value, disabled |-> FALSE]

RequestNames == {"a", "A", "a_2", "", "--"}
Named ==
  UNION {{Collection([i \in 1 .. 3 |-> Request(n[i])]),
          Collection(<<Folder("F", <<Request(n[1])>>),
                       Folder("f", <<Note, Request(n[2]), Folder("", <<Request(n[3])>>)>>)>>)} :
           n \in [1 .. 3 -> RequestNames]}
  \union {Collection([i \in 1 .. 4 |-> Request("a")])}

Variables == {"v", "a b", "a-b", "a_b", "--", "", "o", "o.p"}
Templated ==
  {Collection(<<[Request("t") EXCEPT !.url = <<Var(n[1]), Lit("p")>>,
                   !.headers = <<Field("h", <<Var(n[2])>>), [Field("off", <<Var("v")>>) EXCEPT !.disabled = TRUE]>>,
                   !.body = b]>>) :
     n \in [1 .. 2 -> Variables],
     b \in {NoBody, RawText(<<Var("a-b"), Lit("x")>>), RawJson(Map([k |-> Str(<<Var("a b")>>)]))}}
  \union {Collection(<<[Request("t") EXCEPT !.url = <<Var(m)>>,
                       !.body = RawJson(Arr(<<Map((k :> Str(<<Var("a-b")>>)) @@ (l :> Num(1)))>>))]>>) :
            m \in {"v", "a b", "a_b"}, k, l \in VariableKeys}
  \union {Collection(<<[Request("t") EXCEPT !.url = <<Var(m)>>],
                       [Request("s") EXCEPT !.query = <<Field("q", <<Var(n)>>), Field("q", <<>>)>>]>>) :
            m, n \in Variables}

Numbers == {Num(1), Fraction(3, 2)}
Bodies ==
  {Null, Boolean(TRUE), Text("s"), Arr(<<>>), Map(Empty)} \union Numbers
    \union {Arr(<<x, y>>) : x, y \in Numbers \union {Null, Text("s")}}
    \union {Arr(<<Map([a |-> x]), Map([a |-> y, b |-> Null])>>) : x, y \in {Num(1), Text("s")}}
    \union {Arr(<<Map([a |-> Num(1)]), Map([b |-> Num(1)]), Map([b |-> Num(2)])>>),
            Map([a |-> Arr(<<Map([a |-> Arr(<<Null>>)])>>)])}
Answers(code, body) == <<[code |-> code, body |-> body]>>
Codes == {Num(0), Num(99), Num(200), Num(299), Num(300), Num(599), Num(600), Fraction(401, 2)}
Examples ==
  {Collection(<<[Request("b") EXCEPT !.body = RawJson(v)],
                [Request("r") EXCEPT !.responses = Answers(Num(201), RawJson(v))]>>) : v \in Bodies}
  \union {Collection(<<[Request("r") EXCEPT !.responses =
                          Answers(c, RawJson(Null)) \o Answers(d, b)]>>) :
            c, d \in Codes, b \in {NoBody, RawText(<<Lit("<")>>), RawJson(Num(1))}}

Kinds ==
  {Collection(<<[Request("k") EXCEPT !.method = m, !.auth = a, !.script = x, !.disabled = d,
                   !.url = <<>>], Request("k")>>) :
     m \in {"GET", "LINK"}, a \in {"", "bearer", "oauth2"}, x \in {"", "sets_token", "other"},
     d \in BOOLEAN}
  \union {[Collection(<<Request("a")>>) EXCEPT !.file = f] : f \in {"unreadable", "broken", "foreign"}}
  \union {Collection(<<>>)}

-----------------------------------------------------------------------------
Operation ==
  [operationId |-> "", summary |-> "", tags |-> <<>>, params |-> <<>>, content |-> <<>>,
   secured |-> FALSE, security |-> <<>>, responses |-> <<>>]
Entry(key, op) == [key |-> key, object |-> TRUE, op |-> op]
NoObject(key) == [key |-> key, object |-> FALSE, op |-> Operation]
Segment(n) == [name |-> n, param |-> FALSE]
PathParam(n) == [name |-> n, param |-> TRUE]
PathItem(segments, params, entries) == [segments |-> segments, params |-> params, entries |-> entries]
Document(flavor, paths) ==
  [kind |-> "openapi", file |-> "ok", refs |-> "resolved", flavor |-> flavor, paths |-> paths,
   security |-> <<>>, schemes |-> ("tok" :> "bearer") @@ ("key" :> "apiKey") @@ ("oa" :> "oauth2")]
Flavors == {"openapi-3", "swagger-2"}
Users == <<Segment("users")>>
OneOperation(flavor, op) == Document(flavor, <<PathItem(Users, <<>>, <<Entry("post", op)>>)>>)
Media(type, schema) == [type |-> type, schema |-> schema, example |-> Undefined]
Json(schema) == <<Media("application/json", schema)>>
Response(status, schema) == [status |-> status, content |-> Json(schema), schema |-> schema]

MCSamples ==
  {Null, Boolean(TRUE), Num(1), Num(7), Text("s"), Arr(<<>>), Arr(<<Num(1), Num(1)>>),
   Arr(<<Null, Text("s")>>), Map(Empty), Map([a |-> Null]), Map([a |-> Num(1)]),
   Map([a |-> Num(1), b |-> Text("s")])}
Nullable(t) == Map([type |-> Text(t), nullable |-> Boolean(TRUE)])
Simple ==
  {Typed("integer"), Nullable("string"), Map([enum |-> Arr(<<Null, Num(1)>>)]),
   Map([type |-> Arr(<<Text("null"), Text("string")>>)]), Map([const |-> Num(7)]),
   Map([minimum |-> Num(5)]), Map([required |-> Arr(<<Text("a")>>)]),
   Map([not |-> Typed("null"), type |-> Text("object")]), Map([description |-> Text("d")])}
SpecSchemas ==
  Simple
  \union {Map(k :> Arr(<<x, y>>)) : k \in Compositions, x, y \in Simple}
  \union {Map([type |-> Text("array"), items |-> x, uniqueItems |-> u]) :
            x \in Simple \union {Arr(<<Typed("null")>>)}, u \in {Boolean(b) : b \in BOOLEAN}}
  \union {Map([properties |-> Map([a |-> x]), additionalProperties |-> y,
               required |-> Arr(<<Text("a")>>)]) :
            x \in Simple, y \in Simple \union {Boolean(FALSE)}}
  \union {Map([properties |-> Null, required |-> Arr(<<Text("a")>>)]),
          Map([type |-> Text("array"), items |-> Map([items |-> Map([items |-> Typed("null")])])]),
          Arr(<<>>), Undefined}
Schemas ==
  {OneOperation("openapi-3", [Operation EXCEPT !.content = Json(s), !.responses = <<Response(200, s)>>]) :
     s \in SpecSchemas}

Statuses == {DefaultKey, -1, 2, 200, 204, 404, 600}
Answered ==
  {OneOperation(f, [Operation EXCEPT !.responses = <<Response(s, Typed("null")), Response(t, Undefined)>>]) :
     f \in Flavors, s, t \in Statuses}
  \union {OneOperation("openapi-3", [Operation EXCEPT !.content = c]) : c \in
            {<<>>, <<Media("text/plain", Undefined)>>,
             <<Media("text/plain", Typed("string")), Media("application/problem+json", Typed("null"))>>,
             <<Media("application/problem+json", Typed("null")), Media("application/json", Typed("object"))>>}}

Param(name, in, raw) == [name |-> name, in |-> in, raw |-> Map(raw)]
Required == [required |-> Boolean(TRUE)]
Given3 == {Empty, [schema |-> Map([enum |-> Arr(<<Text("e")>>)])],
           [schema |-> Map([default |-> Text("d"), type |-> Text("string")])],
           [example |-> Text("x")], [example |-> Num(1)],
           [type |-> Text("array"), items |-> Typed("string"), enum |-> Arr(<<Text("e")>>)]}
Parameterised ==
  {Document(f, <<PathItem(Users, <<Param(n, "header", Required), Param("q", "query", Empty)>>,
                          <<Entry("get", [Operation EXCEPT !.params =
                              <<Param(n, in, g @@ r), Param("c", "cookie", Empty)>>])>>)>>) :
     f \in Flavors, n \in {"Tenant", "X-Id", "content-type"}, in \in {"header", "query", "path"},
     g \in Given3, r \in {Empty, Required}}
  \union {Document(f, <<PathItem(Users, <<Param("b", x, Required)>>,
                          <<Entry("post", [Operation EXCEPT !.params =
                              <<Param("b", y, g), Param("d", y, Empty)>>])>>)>>) :
            f \in Flavors, x, y \in {"body", "formData"},
            g \in {Empty, [type |-> Text("integer")], [schema |-> Typed("object")] @@ Required}}

Secured ==
  {[OneOperation(f, [Operation EXCEPT !.secured = o, !.security = s]) EXCEPT !.security = <<<<"key">>>>] :
     f \in Flavors, o \in BOOLEAN,
     s \in {<<>>, <<<<>>>>, <<<<"tok">>>>, <<<<"oa">>, <<"tok">>>>, <<<<"tok", "key">>>>, <<<<"gone">>>>}}

Ids == {"", "A", "get_users_id"}
Clashing ==
  {Document("openapi-3",
     <<PathItem(<<Segment("users"), PathParam("id")>>, <<>>,
                <<Entry("get", [Operation EXCEPT !.operationId = i, !.summary = s]),
                  Entry("trace", Operation), NoObject("put"), NoObject("summary")>>),
       PathItem(<<Segment("users"), Segment("id")>>, <<>>,
                <<Entry("get", [Operation EXCEPT !.operationId = j, !.tags = t])>>),
       PathItem(<<PathParam("id")>>, <<>>, <<Entry("get", [Operation EXCEPT !.operationId = i])>>)>>) :
     i, j \in Ids, s \in {"", "A"}, t \in {<<>>, <<"F", "users">>}}
  \union {[Document(f, <<>>) EXCEPT !.refs = r, !.file = x] :
            f \in Flavors \union {"none"}, r \in {"resolved", "circular", "broken"},
            x \in {"ok", "missing"}}

MCImports ==
  Named \union Templated \union Examples \union Kinds \union Schemas \union Answered
    \union Parameterised \union Secured \union Clashing
=============================================================================
