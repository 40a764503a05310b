-------------------------- MODULE MCCaseEvaluation --------------------------
(* Services of one or two endpoints, each with every defect its cases are   *)
(* there to find, and with none.                                            *)
EXTENDS CaseEvaluation

Leaf(type, limits) == [shape |-> "leaf", type |-> type, limits |-> limits]
NoLimits == [c \in {} |-> 0]
Only(c, v) == [x \in {c} |-> v]
Prop(key, required, node) == [key |-> key, required |-> required, node |-> node]
Object(properties) ==
  [shape |-> "object", type |-> "object", limits |-> NoLimits, properties |-> properties]
Array(items) == [shape |-> "array", type |-> "array", limits |-> NoLimits, items |-> items]

Base(id, method) ==
  [ id |-> id, method |-> method, url |-> "/users", auth_strategy |-> "none",
    body_schema |-> [shape |-> "none"], body_example |-> FALSE, example |-> NoBody,
    response_schema |-> "schema", expected_status |-> 200, static_header |-> FALSE,
    pair_with |-> 0, etag_supported |-> FALSE,
    cors |-> [declared |-> FALSE, allow_origins |-> 0, allow_methods |-> 0],
    pagination |-> [style |-> "none", page_param |-> FALSE, max_size |-> 0, default_size |-> 0],
    db_verify |-> 0, assertions |-> << >>, prod_safe |-> FALSE, skip_cases |-> << >> ]

Root == Value("object", 0, "object")
User == Object(<<
  Prop("name", TRUE, Leaf("string", ("minLength" :> 1) @@ ("maxLength" :> 3))),
  Prop("age", FALSE, Leaf("integer", ("minimum" :> 0) @@ ("maximum" :> 9))),
  Prop("role", TRUE, Leaf("string", Only("enum", <<"admin", "guest">>))),
  Prop("home", FALSE, Object(<<Prop("city", TRUE, Leaf("string", Only("minLength", 2)))>>)) >>)
UserExample == Json(
  (<< >> :> Root) @@ (<<"name">> :> Value("string", 2, "Al")) @@ (<<"age">> :> Number(5))
    @@ (<<"role">> :> Word("guest")))
WithHome == Json(
  UserExample.at @@ (<<"home">> :> Root) @@ (<<"home", "city">> :> Value("string", 4, "Rome")))
TaggedUser == Object(<<
  Prop("mail", TRUE, Leaf("string", ("minLength" :> 3) @@ ("format" :> TRUE))),
  Prop("tags", TRUE, Array(Object(<<Prop("key", TRUE, Leaf("string", NoLimits))>>))) >>)
TaggedExample == Json(
  (<< >> :> Root) @@ (<<"mail">> :> Value("string", 9, "formatted"))
    @@ (<<"tags">> :> Value("array", 0, "array")) @@ (<<"tags", "0">> :> Root)
    @@ (<<"tags", "0", "key">> :> Value("string", 1, "k")))

\* A field the mutator refuses, a limit of another type, a list where the schema
\* has properties and no type.
Odd == Object(<<
  Prop("constructor", FALSE, Leaf("string", Only("maxLength", 3))),
  Prop("count", TRUE, Leaf("integer", Only("maxLength", 2))),
  Prop("rows", FALSE, [Object(<<Prop("key", TRUE, Leaf("string", NoLimits))>>)
                         EXCEPT !.type = "unknown"]) >>)
OddExample == Json(
  (<< >> :> Root) @@ (<<"constructor">> :> Value("string", 2, "Al")) @@ (<<"count">> :> Number(5))
    @@ (<<"rows">> :> Value("array", 0, "array")) @@ (<<"rows", "0">> :> Word("k")))

With(e, schema, example) ==
  [e EXCEPT !.body_schema = schema, !.example = example,
            !.body_example = (example # NoBody)]
Guarded(e) == [e EXCEPT !.auth_strategy = "token"]

Get == Guarded([Base(1, "GET") EXCEPT !.etag_supported = TRUE, !.pagination =
         [style |-> "page", page_param |-> TRUE, max_size |-> 50, default_size |-> 10]])
HeadGet == Guarded([Base(2, "HEAD") EXCEPT !.pair_with = 1])
Put == Guarded(With(Base(3, "PUT"), User, WithHome))
Put204 == [With(Base(3, "PUT"), User, UserExample) EXCEPT !.expected_status = 204]
Post == With([Base(4, "POST") EXCEPT !.expected_status = 201], TaggedUser, TaggedExample)
PostBlank == With(Base(4, "POST"), User, NoBody)
Delete == Guarded([Base(5, "DELETE") EXCEPT !.response_schema = "none"])
Delete204 == [Delete EXCEPT !.expected_status = 204]
Options(methods) ==
  [Base(6, "OPTIONS") EXCEPT !.expected_status = 204, !.response_schema = "none", !.cors =
     [declared |-> TRUE, allow_origins |-> 1, allow_methods |-> Cardinality(methods),
      lists |-> [origins |-> <<"here">>, methods |-> methods, headers |-> {"x-a"}]]]
OptionsAt(status) ==
  [Options({"GET"}) EXCEPT !.expected_status = status, !.response_schema = "schema"]
Patch == With(Base(7, "PATCH"), Odd, OddExample)
GetWithBody == With(Get, User, NoBody)
Get204 == [Get EXCEPT !.expected_status = 204]
HeadOpen == [HeadGet EXCEPT !.auth_strategy = "none"]
StaticGet == [Get EXCEPT !.static_header = TRUE]
Redirect == [Base(1, "GET") EXCEPT !.expected_status = 301]

Trial(endpoints, workers, defect) ==
  [endpoints |-> endpoints, workers |-> workers, defect |-> defect, gone |-> 404, strict |-> FALSE]

UserPaths == {<<"name">>, <<"age">>, <<"role">>, <<"home">>, <<"home", "city">>}
TaggedPaths == {<<"mail">>, <<"tags">>}
OddPaths == {<<"constructor">>, <<"count">>, <<"rows">>, <<"rows", "key">>}
BodyDefects(paths) ==
  paths \X {"required", "type", "minimum", "maximum", "minLength", "maxLength", "enum"}
    \union paths \X {"minimum", "maximum", "minLength", "maxLength"} \X {"off_by_one"}

Sound == <<"none">>
MCTrials ==
  { Trial({Get, HeadGet}, 2, <<d>>) : d \in {"none", "open", "any_token", "any_method",
      "wrong_status", "untyped", "slow", "misshapen", "read_writes", "head_body",
      "head_varies", "never_304", "body_304", "tag_304", "unbounded", "size_max"} }
  \union { Trial({Get, Put}, 2, <<d>>) : d \in {"none", "put_adds", "malformed"} }
  \union { Trial({Put}, 1, d) : d \in BodyDefects(UserPaths) }
  \union { Trial({Post}, 1, d) : d \in BodyDefects(TaggedPaths) \union {Sound} }
  \union { Trial({Get, Delete}, 2, <<d>>) : d \in {"none", "delete_fails", "open"} }
  \union { [Trial({Get, d}, 2, Sound) EXCEPT !.gone = g] : d \in {Delete, Delete204}, g \in {204, 404} }
  \union { Trial(es, w, Sound) : w \in {1, 2},
             es \in {{Put204, Post}, {Get, Post}, {StaticGet}, {Redirect, Post}, {PostBlank, Get},
                     {Get, HeadOpen}, {Get204, HeadGet}, {GetWithBody, HeadGet},
                     {Patch, GetWithBody}, {OptionsAt(200)}, {OptionsAt(201)}} }
  \union { Trial({Patch}, 1, d) : d \in BodyDefects(OddPaths) }
  \union { Trial({Get204, HeadGet}, 2, <<d>>) : d \in {"read_writes", "head_body", "never_304"} }
  \union { [Trial({Options(ms)}, 1, <<d>>) EXCEPT !.strict = s] :
             ms \in {{"GET"}, {"GET", "POST"}}, s \in BOOLEAN,
             d \in {"none", "origin", "methods", "headers"} }
=============================================================================
