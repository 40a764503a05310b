-------------------------- MODULE MCEnvironmentLoader --------------------------
(* Small environments for EnvironmentLoader: two files, overrides that      *)
(* replace, extend and cut off what stands below them, references of every  *)
(* shape, secrets that are part of one another, and strategies of both      *)
(* kinds, well-formed and not.                                              *)
EXTENDS EnvironmentLoader, TLC

MCIndexOf == ("0" :> 0) @@ ("1" :> 1)
MCLowerCase ==
  ("Authorization" :> "authorization") @@ ("authorization" :> "authorization")
  @@ ("X-Key" :> "x-key") @@ ("x-key" :> "x-key") @@ ("Accept" :> "accept")

Raw(fragments) == Str(fragments)
EnvRef(path) == Ref(<<"env">> \o path)
SecretRef(n) == Ref(<<"secret", n>>)

\* Short and Long share their beginning; Blank is set and empty.
Penv ==
  ("Short" :> <<<<"key", "a">>>>) @@ ("Long" :> <<<<"key", "a">>, <<"key", "b">>>>)
  @@ ("Blank" :> <<>>)
MCIssued == {<<<<"tok", "x">>>>, <<<<"tok", "x">>, <<"tok", "y">>>>}

Core == [name |-> Text("dev"), base_url |-> Text("http"), prod |-> Boolean(FALSE)]
With(f) == Map(f @@ Core)
World(ok, dot, dir, headers) ==
  [name_ok |-> ok, name |-> "dev", dot |-> dot, dir |-> dir, penv |-> Penv, headers |-> headers]
NoHeaders == [h \in {} |-> <<>>]
Reads(v) == World(TRUE, Yaml(v), File("missing"), NoHeaders)

\* Which file is read.
FileStates ==
  {File(x) : x \in {"missing", "unreadable", "broken", "tagged", "blank"}}
    \union {Yaml(v) : v \in {Null, Arr(<<>>), With(Empty)}}
Files == {World(ok, dot, dir, NoHeaders) : ok \in BOOLEAN, dot \in FileStates, dir \in FileStates}

\* What the overrides do to the rest of the file.
Pool(v)  == Map([type |-> Text("postgres"), opts |-> v])
Values   == {Num(1), Null, Arr(<<Num(1), Num(2)>>), Map([a |-> Num(1)]),
             Map([a |-> Num(2), b |-> Arr(<<Num(3)>>)]), Map([b |-> Map([c |-> Num(4)])]),
             Map(Empty)}
Sections == {Null, Text("dev"), Map([test |-> Map([name |-> Text("test")])]),
             Map([dev |-> Num(1)]),
             Map([dev |-> Map([name |-> Text("dev2")]), test |-> Map(Empty)])}
            \union {Map([dev |-> Map([databases |-> Map([main |-> Map([opts |-> v])])])]) : v \in Values}
            \union {Map([dev |-> Map([databases |-> v])]) : v \in Values}
            \union {Map([dev |-> Map([default_sla_ms |-> v])]) : v \in Values}
Layered ==
  {Reads(With([databases |-> Map([main |-> Pool(v)]), environments |-> s])) :
     v \in Values, s \in Sections}

\* References of every shape, in strings, lists and mappings.
Shapes == {
  <<EnvRef(<<"host">>)>>, <<Lit("to"), EnvRef(<<"host">>)>>, <<EnvRef(<<"list">>)>>,
  <<Lit("of"), EnvRef(<<"list">>)>>, <<EnvRef(<<"list", "1">>)>>, <<EnvRef(<<"list", "2">>)>>,
  <<EnvRef(<<"list", "length">>), EnvRef(<<"tree", "leaf">>)>>, <<EnvRef(<<"tree">>), Lit("s")>>,
  <<EnvRef(<<"gone">>)>>, <<EnvRef(<<"host", "deep">>)>>, <<EnvRef(<<"chain">>)>>,
  <<SecretRef("Short")>>, <<Lit("k"), SecretRef("Long"), SecretRef("Short")>>,
  <<SecretRef("Blank")>>, <<SecretRef("Unset")>>, <<EnvRef(<<"key">>)>>,
  <<Lit("u"), EnvRef(<<"key">>), EnvRef(<<"host">>)>>,
  <<Open, EnvRef(<<"host">>), Close>>, <<Open, EnvRef(<<"secret_name">>), Close>>,
  <<Open, EnvRef(<<"list">>), Close>>, <<Ref(<<"token">>)>>, <<Ref(<<"secret", "a", "b">>)>> }
Sources ==
  [host |-> Text("local"), list |-> Arr(<<Text("p"), Num(2)>>), nil |-> Null,
   tree |-> Map([leaf |-> Boolean(TRUE)]), secret_name |-> Text("Short"),
   key |-> Raw(<<SecretRef("Long")>>), chain |-> Raw(<<EnvRef(<<"host">>)>>)]
Resolving ==
  {Reads(Map([place |-> place] @@ Sources @@ Core)) :
     place \in UNION {{Raw(t), Arr(<<Num(0), Raw(t)>>), Map([in |-> Arr(<<Raw(t)>>)])} : t \in Shapes}}

\* The schema and the names.
Faulty ==
  {Reads(Map(f)) : f \in {
     [k \in DOMAIN Core \ {"prod"} |-> Core[k]], [Core EXCEPT !.name = Num(1)],
     [Core EXCEPT !.base_url = Raw(<<>>)], [Core EXCEPT !.prod = Text("yes")]}}
  \union {Reads(With(f)) : f \in {
     [default_sla_ms |-> Num(-1)], [default_sla_ms |-> Fraction(1, 2)],
     [default_sla_ms |-> Num(0)], [databases |-> Null],
     [databases |-> Map([main |-> Map([type |-> Text("oracle")])])],
     [databases |-> Map(("a b" :> Pool(Null)))],
     [databases |-> Map([main |-> Pool(Null)]),
      auth_strategies |-> Map([main |-> Map([type |-> Text("static_token")])])] }}

\* Strategies.
Static(f) == Map(f @@ [type |-> Text("static_token")])
Fetched(f) ==
  Map(f @@ [type |-> Text("token_endpoint"), url |-> Text("http"),
            credentials |-> Map([username |-> Text("u"), password |-> Raw(<<SecretRef("Short")>>)]),
            token_path |-> Raw(<<Lit("$"), Lit("."), Lit("t")>>)])
Tokens == {Text("plain"), Raw(<<SecretRef("Short")>>), Raw(<<SecretRef("Long")>>)}
Looks == {Empty, [header |-> Text("X-Key")], [header_value |-> Raw(<<TokenRef>>)],
          [header |-> Text("x-key"), header_value |-> Raw(<<Lit("k"), TokenRef, TokenRef>>)],
          [header_value |-> Text("fixed")],
          [header |-> Text("X-Key"), headerValue |-> Raw(<<Lit("v"), TokenRef>>)]}
Wrong == {[grant_type |-> Text("g")], [header |-> Raw(<<>>)], [header |-> Raw(<<Space, Lit("h")>>)],
          [header_value |-> Raw(<<Ref(<<"user">>)>>)], [header_value |-> Num(1)],
          [refresh_buffer_seconds |-> Num(1)], [refresh_buffer_seconds |-> Num(-1)],
          [expires_in_path |-> Num(1)], [url |-> Num(3)], [url |-> Null], [token |-> Raw(<<>>)],
          [credentials |-> Map([username |-> Text("u")])],
          [type |-> Text("token_endpoint"), token |-> Text("plain")]}
Paths == {Num(5), Null, Raw(<<>>), Raw(<<Lit("t")>>), Raw(<<Lit("$")>>),
          Raw(<<Lit("$"), Lit("["), Lit("1"), Lit("]"), Lit("."), Lit("t")>>),
          Raw(<<Lit("$"), Lit("["), Lit("-"), Lit("]")>>), Raw(<<Lit("$"), Lit("."), Lit("*")>>)}
Strategies ==
  {Static([token |-> t] @@ l) : t \in Tokens, l \in Looks} \union {Fetched(l) : l \in Looks}
Rejects ==
  {Static(w @@ [token |-> Text("plain")]) : w \in Wrong} \union {Fetched(w) : w \in Wrong}
    \union {Fetched([token_path |-> e]) : e \in Paths}
Headers == {NoHeaders, ("authorization" :> <<Lit("mine")>>) @@ ("Accept" :> <<Lit("any")>>),
            ("x-key" :> <<Lit("plain")>>) @@ ("Authorization" :> <<Lit("other")>>)}
Authenticating ==
  {World(TRUE, File("missing"), Yaml(With([auth_strategies |-> Map([one |-> s])])), h) :
     s \in Strategies, h \in Headers}
  \union {Reads(With([auth_strategies |-> Map([one |-> s])])) : s \in Rejects}
  \union {World(TRUE, Yaml(With([auth_strategies |-> Map([one |-> Static([token |-> t]), two |-> s])])),
                File("missing"), CHOOSE h \in Headers : Cardinality(DOMAIN h) = 2) :
            t \in Tokens, s \in Strategies \union {Static([token |-> Num(1)])}}

MCWorlds == Files \union Layered \union Resolving \union Faulty \union Authenticating
=============================================================================
