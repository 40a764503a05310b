---------------------------- MODULE MCCatalogRun ----------------------------
(* Projects, command lines and environments for CatalogRun.  Between them   *)
(* the endpoints draw on every generator, every schema constraint, every    *)
(* reason to drop a case and every reason to refuse a project.              *)
EXTENDS CatalogRun

Leaf(type, limits) == [shape |-> "leaf", type |-> type, limits |-> limits]
NoLimits == [c \in {} |-> 0]
Only(c, v) == [x \in {c} |-> v]
Prop(key, required, node) == [key |-> key, required |-> required, node |-> node]
Object(properties) ==
  [shape |-> "object", type |-> "object", limits |-> NoLimits, properties |-> properties]
Array(items) == [shape |-> "array", type |-> "array", limits |-> NoLimits, items |-> items]
NoSchema == [shape |-> "none"]

Token(kind, field) == [shape |-> "ok", kind |-> kind, field |-> field]
BadToken == [shape |-> "malformed", kind |-> "none", field |-> << >>]

Base(id, method) ==
  [ id |-> id, method |-> method, url |-> "/users", auth_strategy |-> "none",
    body_schema |-> NoSchema, body_example |-> FALSE, response_schema |-> "schema",
    pair_with |-> 0, etag_supported |-> FALSE,
    cors |-> [declared |-> FALSE, allow_origins |-> 0, allow_methods |-> 0],
    pagination |-> [style |-> "none", page_param |-> FALSE, max_size |-> 0, default_size |-> 0],
    db_verify |-> 0, assertions |-> << >>, prod_safe |-> FALSE, skip_cases |-> << >>,
    idle_variants |-> FALSE, tags |-> {},
    env_refs |-> {}, secret_refs |-> FALSE ]

Paged(style, page_param, max_size) ==
  [style |-> style, page_param |-> page_param, max_size |-> max_size, default_size |-> 10]

List == [Base(1, "GET") EXCEPT !.auth_strategy = "token", !.etag_supported = TRUE,
           !.pagination = Paged("page", TRUE, 50), !.assertions = <<TRUE, TRUE>>,
           !.tags = {"users"}]
Create == [Base(2, "POST") EXCEPT !.body_example = TRUE, !.db_verify = 2,
             !.tags = {"users", "write"},
             !.env_refs = {"base_url", "api_key"},
             !.body_schema = Object(<<
               Prop("name", TRUE, Leaf("string", ("minLength" :> 0) @@ ("maxLength" :> 2))),
               Prop("age", FALSE, Leaf("integer", ("minimum" :> 0) @@ ("maximum" :> 9))),
               Prop("role", TRUE, Leaf("string", Only("enum", <<"a", "b">>))),
               Prop("tags", FALSE, Array(Object(<<
                 Prop("key", TRUE, Leaf("string", Only("minLength", 1))) >>))) >>)]
Replace == [Base(3, "PUT") EXCEPT !.prod_safe = TRUE, !.auth_strategy = "token",
              !.body_schema = Object(<<Prop("n", TRUE, Leaf("number", Only("minimum", 1)))>>),
              !.skip_cases = << Token("boundary_battery", <<"n">>),
                                Token("boundary_battery", <<"m">>), BadToken >>]
Ping == [Base(4, "HEAD") EXCEPT !.pair_with = 1]
PingOfPost == [Base(4, "HEAD") EXCEPT !.pair_with = 2]
PingElsewhere == [Base(4, "HEAD") EXCEPT !.pair_with = 1, !.url = "/orders"]
PingOfNone == [Base(4, "HEAD") EXCEPT !.pair_with = 9]
Preflight == [Base(5, "OPTIONS") EXCEPT !.cors =
                [declared |-> TRUE, allow_origins |-> 1, allow_methods |-> 2]]
Delete == [Base(6, "DELETE") EXCEPT !.tags = {"write"}, !.response_schema = "none",
             !.env_refs = {"staging_only"}]
Odd == [Base(7, "GET") EXCEPT !.pagination = Paged("offset", FALSE, 5),
          !.auth_strategy = "elsewhere"]
Cursor == [Base(8, "GET") EXCEPT !.pagination = Paged("cursor", FALSE, 20)]
Deep == [Base(9, "PATCH") EXCEPT !.body_schema = Object(<<
           Prop("a", FALSE, Object(<<Prop("b", TRUE, Object(<<Prop("c", TRUE,
             Leaf("string", NoLimits))>>))>>)),
           Prop("s", FALSE, Leaf("string", Only("maxLength", -1)))>>),
         !.idle_variants = TRUE]
BadCors == [Base(5, "OPTIONS") EXCEPT !.cors =
              [declared |-> TRUE, allow_origins |-> 0, allow_methods |-> 2]]
Unparsable == [Base(1, "GET") EXCEPT !.assertions = <<TRUE, FALSE>>]

File(path, e) == [path |-> path, link |-> FALSE, state |-> "ok", endpoint |-> e]
Broken(path, state) == [File(path, List) EXCEPT !.state = state]
Users == <<"tests", "users">>
UsersV2 == <<"tests", "users", "_v2">>
Orders == <<"tests", "orders">>
Dir(files) == [exists |-> TRUE, readable |-> TRUE, files |-> files]

Main == Dir(<< File(Orders, Create), File(Users, List), File(UsersV2, Ping) >>)
Good == { Main,
  Dir(<< File(Orders, Replace), File(Users, Preflight), File(Users, Delete) >>),
  Dir(<< File(Orders, Create), File(Users, PingOfPost), File(Users, List) >>),
  Dir(<< File(Users, List), File(Users, PingElsewhere), File(Users, Cursor) >>),
  Dir(<< File(Orders, Odd), File(Users, PingOfNone) >>),
  Dir(<< File(Users, Deep), File(Users, BadCors) >>),
  Dir(<< File(Orders, [Create EXCEPT !.id = 1]), File(Users, List) >>),
  Dir(<< [File(Orders, Preflight) EXCEPT !.link = TRUE], File(Users, List) >>) }
Refused == {
  [Main EXCEPT !.exists = FALSE], [Main EXCEPT !.readable = FALSE], Dir(<< >>),
  Dir(<< File(Orders, Preflight), Broken(Users, "unreadable") >>),
  Dir(<< File(Orders, Preflight), Broken(Users, "malformed") >>),
  Dir(<< File(Orders, Preflight), [Broken(Users, "invalid") EXCEPT !.link = TRUE] >>),
  Dir(<< File(Orders, Preflight), File(Users, Unparsable) >>),
  Dir(<< File(Orders, Unparsable), File(Users, List) >>) }

Config == [ok |-> TRUE, default_markers |-> {"smoke"}, skip_globally |-> << >>,
           report |-> {"json", "html"}]
Configs == { Config,
  [Config EXCEPT !.skip_globally = << Token("put_idempotency", << >>), BadToken,
     Token("required_field_omission_returns_400", <<"name">>),
     Token("response_time_sla", << >>) >>,
     !.report = {"json", "html", "junit_xml"}],
  [Config EXCEPT !.default_markers = {"regression"}, !.report = {}] }

Flags == [markers |-> NoFlag, shard |-> NoFlag, numbers |-> TRUE, endpoint |-> 0,
          tag |-> NoFlag, exclude |-> {}, path |-> << >>, allow |-> FALSE]
Everything == [Flags EXCEPT !.markers = <<"all">>]
Shards == {<<1, 2>>, <<2, 2>>, <<2, 3>>, <<3, 3>>}
CommandLines == {Flags, Everything}
  \union { [Everything EXCEPT !.shard = s] : s \in Shards }
  \union { [Everything EXCEPT !.path = Users], [Everything EXCEPT !.endpoint = 1],
           [Everything EXCEPT !.tag = "users"], [Everything EXCEPT !.exclude = {"write"}] }
BadLines == { [Flags EXCEPT !.numbers = FALSE], [Flags EXCEPT !.shard = <<3, 2>>],
              [Flags EXCEPT !.shard = <<0, 1>>], [Flags EXCEPT !.shard = <<1, 0>>],
              [Flags EXCEPT !.markers = <<"smoke", "all">>], [Flags EXCEPT !.markers = << >>] }

Env == [valid |-> TRUE, prod |-> FALSE, auth_ok |-> TRUE, keys |-> {"base_url", "api_key"},
        keys_anywhere |-> {"base_url", "api_key", "staging_only"},
        strategies |-> {"token"}, strategies_anywhere |-> {"token", "elsewhere"},
        secrets |-> {"api_key", "token"}]
Prod == [Env EXCEPT !.prod = TRUE]
Host == [ci |-> FALSE, variable |-> "unset"]
Hosts == {Host} \union [ci : {TRUE}, variable : {"unset", "1", "true"}]

World(tests, config, flags, env, host) ==
  [tests |-> tests, config |-> config, flags |-> flags, env |-> env, host |-> host]

MCWorlds ==
  { World(t, c, f, Env, Host) : t \in Good, c \in Configs, f \in CommandLines }
    \union { World(t, Config, f, Prod, h) :
               t \in Good, h \in Hosts,
               f \in { Flags, Everything, [Everything EXCEPT !.allow = TRUE],
                       [Flags EXCEPT !.markers = <<"regression", "smoke">>] } }
    \union { World(t, Config, Everything, Env, Host) : t \in Refused }
    \union { World(Main, Config, f, Env, Host) : f \in BadLines }
    \union { World(Main, [Config EXCEPT !.ok = FALSE], Flags, Env, Host),
             World(Main, Config, Flags, [Env EXCEPT !.valid = FALSE], Host),
             World(Main, Config, Flags, [Env EXCEPT !.auth_ok = FALSE], Host) }
=============================================================================
