---------------------------- MODULE MCAttemptChecks ----------------------------
(* Small attempts for AssertionChecks: every operator with every kind of      *)
(* operand over targets that are there, absent and malformed; arithmetic of   *)
(* up to four numbers; and up to two db_verify blocks on each engine.         *)
EXTENDS AssertionChecks

\* Text.
Word(segs)  == <<"word", <<<<"text", segs>>>>>>
Name(w)     == Word(<<w>>)
Path(p)     == Word(<<"response", "body">> \o p)
Number(n)   == <<"num", n>>
Text(s)     == <<"string", s>>
Slash(w)    == <<"slash", w>>
Minus       == <<"minus", TRUE>>
Sign        == <<"minus", FALSE>>
Sym(c)      == <<"sym", c>>
Open  == Sym("(")
Close == Sym(")")
ListAt(i) == <<"word", <<<<"text", <<"response", "body", "list">>>>, <<"bracket", i>>>>>>

MCHeaderNames == <<"X-A", "X-B", "x-a">>
MCLowerCase == ("X-A" :> "x-a") @@ ("x-a" :> "x-a") @@ ("X-B" :> "x-b") @@ ("x-b" :> "x-b")
MCFormats ==
  [op \in {"is_uuid_v4", "is_email", "is_url", "is_iso_timestamp"} |->
     IF op = "is_iso_timestamp" THEN {<<"old">>, <<"then">>} ELSE {<<op>>}]
MCTimeOf == (<<"old">> :> 0) @@ (<<"then">> :> 8)

Deep == Arr(<<Arr(<<Arr(<<Num(1)>>)>>)>>)
Body(n, list, s) ==
  Obj([k \in {"n", "m", "list", "s", "nil", "ok", "id", "deep"} |->
         CASE k = "n" -> n [] k = "m" -> Num(2) [] k = "list" -> Arr(list) [] k = "s" -> s
           [] k = "nil" -> Null [] k = "ok" -> Boolean(TRUE) [] k = "id" -> Num(7)
           [] k = "deep" -> Deep])
Roots(body) ==
  (<<"request", "headers">> :> Obj([h \in {"X-A", "x-a"} |-> Str(<<h>>)]))
  @@ (<<"request", "body">> :> Obj([k \in {"email"} |-> Str(<<"a", "@">>)]))
  @@ (<<"request", "url">> :> Obj([k \in {"path"} |-> Str(<<"users">>)]))
  @@ (<<"response", "status">> :> Num(200))
  @@ (<<"response", "headers">> :> Obj([h \in {"X-B"} |-> Str(<<"b">>)]))
  @@ (<<"response", "body">> :> body)
  @@ (<<"response", "time_ms">> :> Num(3))

Plain == Body(Num(1), <<Num(1), Str(<<"a">>)>>, Str(<<"a", "b">>))
Other == Body(Str(<<"1">>), <<>>, Str(<<"then">>))
Given(body) ==
  [env |-> Obj([k \in {"table"} |-> Str(<<"users">>)]), roots |-> Roots(body)]
MCExchanges == [x \in {"plain", "other"} |-> Given(IF x = "plain" THEN Plain ELSE Other)]

Attempt(gate, text, steps, cleanup, exchange) ==
  [gate |-> gate, assertion |-> text, steps |-> steps, cleanup |-> cleanup,
   exchange |-> exchange]
Asserts(text, exchange) == Attempt("assertion", text, <<>>, <<>>, exchange)

\* Assertions of every shape.
Targets == {Path(<<"n">>), Path(<<"s">>), Path(<<"list">>), Path(<<"nil">>), Path(<<"deep">>),
            Path(<<"gone">>), ListAt("1"), Word(<<"response", "status">>),
            Word(<<"request", "headers", "x-A">>), Word(<<"request", "url", "path">>),
            Word(<<"response", "status", "n">>), Path(<<"">>), Name("true")}
Operands ==
  { <<>>, <<Number(1)>>, <<Sign, Number(1)>>, <<Minus, Number(1)>>, <<Name("null")>>,
    <<Name("true")>>, <<Text(<<"a">>)>>, <<Text(<<"b">>)>>, <<Text(<<>>)>>,
    <<Path(<<"n">>)>>, <<Path(<<"gone">>)>>, <<Path(<<"deep">>)>>, <<Name("word")>>, <<ListAt("0")>>,
    <<Number(1), Sym(".."), Number(2)>>, <<Number(2), Sym(".."), Number(1)>>,
    <<Number(1), Sym(".."), Path(<<"m">>)>>, <<Open, Number(1), Sym("+"), Number(2), Close>>,
    <<Slash(<<"a">>), Slash(<<>>)>>, <<Slash(<<"a">>), Slash(<<"i", "i">>)>>,
    <<Slash(<<>>), Sym("*"), Slash(<<"i">>)>>, <<Slash(<<"a">>)>>, <<Number(1), Number(1)>>,
    <<Open>>, <<Sym("?")>> }
Shapes ==
  { Asserts(<<t, Name(op)>> \o o, b) :
      t \in Targets, op \in DOMAIN OperatorShape, o \in Operands, b \in DOMAIN MCExchanges }
  \union { Asserts(text, "plain") :
             text \in {<<>>, <<Path(<<"n">>)>>, <<Path(<<"n">>), Name("equal")>>,
                       <<Text(<<"a">>), Name("exists")>>} }

\* Arithmetic: operands, operators and parentheses in every order of writing.
Atoms == {<<Number(1)>>, <<Number(2)>>, <<Sign, Number(2)>>, <<Path(<<"m">>)>>}
Few   == {<<Number(2)>>, <<Sign, Number(1)>>}
Signs == {<<Sym("+")>>, <<Sym("*")>>, <<Slash(<<>>)>>, <<Minus>>, <<Sign>>}
In(e) == <<Open>> \o e \o <<Close>>
Arithmetic ==
  { In(a \o o \o b) : a, b \in Atoms \union {<<Number(0)>>, <<Path(<<"s">>)>>, <<Name("word")>>},
                      o \in Signs }
  \union { In(a \o o \o b \o p \o c) : a, b, c \in Atoms, o, p \in Signs }
  \union { In(a \o o \o In(b \o p \o c)) : a, b, c \in Few, o, p \in Signs }
  \union { In(a \o o \o b) \o p \o c : a, b, c \in Few, o, p \in Signs }
  \union { In(<<Number(1)>> \o o \o <<Number(2)>> \o p \o <<Number(1)>> \o q \o <<Number(2)>>) :
             o, p, q \in Signs }
  \union { In(e) : e \in {<<>>, <<Sym("+")>>, In(<<Number(1)>>), In(In(<<Number(1)>>)),
                          <<Number(1), Number(2)>>, <<Open, Number(1)>>, <<Number(1), Sym("*")>>} }
Sums == { Asserts(<<Path(<<"n">>), Name("equals")>> \o e, "plain") : e \in Arithmetic }

\* db_verify.
Ref(root, name) == <<"ref", <<root, "body", name>>>>
EnvRef == <<"ref", <<"env", "table">>>>
Where == <<"text", "where">>
Gap   == <<"space", 0>>
Leaf(quoted, parts) == [quoted |-> quoted, parts |-> parts]
Queries ==
  { <<Leaf(TRUE, parts)>> :
      parts \in { <<Where>>, <<Ref("response", "id")>>, <<Gap, Ref("response", "s"), Gap>>,
                  <<Where, Gap, Ref("response", "id"), Gap, Ref("request", "email")>>,
                  <<Ref("request", "email"), EnvRef, Where, Ref("response", "nil")>>,
                  <<Ref("response", "id"), Where, Ref("response", "id")>>,
                  <<EnvRef, Where, Ref("response", "id"), Where, EnvRef>>,
                  <<Where, Ref("response", "gone")>>, <<Where, <<"ref", <<"secret", "key">>>>>>,
                  <<Where, <<"param", <<"p", 1>>>>, Ref("response", "id")>>,
                  <<<<"param", <<"_p", 2>>>>, <<"param", <<"p", 1>>>>, EnvRef,
                    Ref("response", "id")>>,
                  [i \in 1 .. 5 |-> <<"param", <<PrefixLadder[i], 1>>>>] \o <<EnvRef>> } }
Commands ==
  Queries \union
  { <<Leaf(TRUE, <<EnvRef>>), Leaf(TRUE, <<Where, Gap, Ref("response", "id")>>),
      Leaf(FALSE, <<Where>>)>>,
    <<Leaf(FALSE, <<Ref("response", "id")>>)>> }

Engines == {"postgres", "mysql", "neo4j", "mongodb"}
Block(engine, qid, query, expect, fields) ==
  [conn |-> "main", engine |-> engine, qid |-> qid, query |-> query, expect |-> expect,
   fields |-> fields]
Fields ==
  { NoFields, "a" :> Num(1), ("a" :> Num(1)) @@ ("b" :> Null),
    "a" :> <<"ref", <<"response", "body", "id">>>>,
    "a" :> <<"ref", <<"response", "body", "gone">>>> }
Lookup(engine) ==
  Block(engine, "", <<Leaf(TRUE, <<Where, Ref("response", "id")>>)>>, "exists", NoFields)
Count == Word(<<"db", "main", "q0", "rowCount">>)
About(gate, steps, cleanup) ==
  Attempt(gate, <<Count, Name("greater_than"), Number(0)>>, steps, cleanup, "plain")

DbAttempts ==
  { About("db_state", <<Block(e, "", q, "not_exists", NoFields)>>, <<>>) :
      e \in Engines \ {"mongodb"}, q \in Queries }
  \union { About("db_state", <<Block("mongodb", "", q, "not_exists", NoFields)>>, <<>>) :
             q \in Commands }
  \union { About("db_state", <<Block(e, "", <<Leaf(TRUE, <<Where>>)>>, x, f)>>, <<>>) :
             e \in Engines, x \in {"match", "exact"}, f \in Fields }
  \union { About(g, <<Lookup(e), Block(e, id, <<Leaf(TRUE, <<Where>>)>>, x, NoFields)>>,
                 IF g = "db_state" THEN <<>> ELSE <<Block(e, "", q, "exists", NoFields)>>) :
             g \in {"db_state", "assertion"}, e \in Engines, id \in {"", "q0"},
             x \in {"exists", "not_exists"},
             q \in {<<Leaf(TRUE, <<Where, EnvRef>>)>>} }
  \union { Attempt("assertion", <<Word(<<"db", "main", "q0">> \o path), Name(op), Number(1)>>,
                   <<Lookup(e)>>, <<>>, "plain") :
             path \in {<<>>, <<"rows">>, <<"rows", "0", "a">>}, e \in Engines,
             op \in {"count_equals", "count_greater_than", "equals"} }

MCAttempts == Shapes \union Sums \union DbAttempts

Rows == { <<>>, <<"a" :> Num(1)>>, <<"a" :> Num(7), ("a" :> Num(1)) @@ ("b" :> Null)>>,
          <<"b" :> Null>> }
NoCounts == [n \in {} |-> 0]
Reply(rows, counts) == [rows |-> rows, counts |-> counts]
MCReplies ==
  [e \in Engines |->
     { Reply(rows, NoCounts) : rows \in Rows }
     \union CASE e = "postgres" -> {Reply(<<>>, "rowCount" :> 2)}
              [] e = "mysql"    -> {Reply(<<>>, "affectedRows" :> 1)}
              [] e = "neo4j"    -> {Reply(<<>>, ("created" :> 1) @@ ("deleted" :> -1))}
              [] e = "mongodb"  -> {Reply(<<>>, ("n" :> 2) @@ ("nModified" :> 1))}]
=============================================================================
