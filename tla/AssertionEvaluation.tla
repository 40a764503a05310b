-------------------------- MODULE AssertionEvaluation --------------------------
(***************************************************************************)
(* The value of a syntax tree in the context of one attempt: what its      *)
(* target names, what its operand is worth, and the five groups of         *)
(* operators (src/assertions/evaluator.ts and what it calls).              *)
(*                                                                         *)
(* A context is a record of                                                *)
(*   roots   the value of every root but db, by root                       *)
(*   db      a function from <<connection, query id>> to a query's result  *)
(*   now     the clock                                                     *)
(***************************************************************************)
EXTENDS AssertionSyntax

CONSTANTS
  HeaderNames,     \* header names in the order sort() gives them
  LowerCase,       \* a function: the lower-case form of each
  Formats,         \* for each format operator, the strings its validator takes
  TimeOf,          \* the instant a valid timestamp names
  RecentWindow     \* distance from now that is recent (300000 ms)

Pass == [pass |-> TRUE, code |-> "", unexpected |-> FALSE]
Fail(code) == [pass |-> FALSE, code |-> code, unexpected |-> FALSE]
\* The branches for operands that the parser never lets through.
Unexpected == [pass |-> FALSE, code |-> "TYPE_MISMATCH", unexpected |-> TRUE]
Verdict(holds, code) == IF holds THEN Pass ELSE Fail(code)

-----------------------------------------------------------------------------
\* Names of headers in any case; of two that differ in case only the first in
\* order is taken.
ResolveHeaders(headers, path) ==
  LET hits == {i \in DOMAIN HeaderNames :
                 /\ HeaderNames[i] \in DOMAIN headers[2]
                 /\ LowerCase[HeaderNames[i]] = LowerCase[path[1][2]]}
      first == CHOOSE i \in hits : \A j \in hits : i <= j
  IN  CASE path = <<>> -> Found(headers)
        [] path # <<>> /\ path[1][1] = "key" /\ path[1][2] \in DOMAIN LowerCase /\ hits # {} ->
             WalkPath(headers[2][HeaderNames[first]], Tail(path))
        [] OTHER -> NotFound

ResolveTarget(ref, ctx) ==
  CASE ref.root = <<"db">> ->
         IF <<ref.connection, ref.queryId>> \in DOMAIN ctx.db
         THEN WalkPath(ctx.db[<<ref.connection, ref.queryId>>], ref.path) ELSE NotFound
    [] ref.root[Len(ref.root)] = "headers" -> ResolveHeaders(ctx.roots[ref.root], ref.path)
    [] OTHER -> WalkPath(ctx.roots[ref.root], ref.path)

ApplyOp(op, x, y) ==
  LET a == x[2] b == y[2]
  IN  CASE op = "+" -> Fraction((a[1] * b[2]) + (b[1] * a[2]), a[2] * b[2])
        [] op = "-" -> Fraction((a[1] * b[2]) - (b[1] * a[2]), a[2] * b[2])
        [] op = "*" -> Fraction(a[1] * b[1], a[2] * b[2])
        [] op = "/" -> Fraction(a[1] * b[2], a[2] * b[1])

\* <<"ok", number>>, or <<"fail", code>> of the first operand that has none.
RECURSIVE EvalNode(_, _)
EvalNode(expr, ctx) ==
  CASE expr[1] = "number" -> Ok(Num(expr[2]))
    [] expr[1] = "target" ->
         LET named == ResolveTarget(expr[2], ctx)
         IN  IF ~IsFound(named) THEN <<"fail", "TARGET_NOT_FOUND">>
             ELSE IF Kind(named[2]) = "num" THEN Ok(named[2]) ELSE <<"fail", "TYPE_MISMATCH">>
    [] expr[1] = "binary" ->
         LET l == EvalNode(expr[3], ctx)
             r == EvalNode(expr[4], ctx)
         IN  CASE ~IsOk(l) -> l
               [] IsOk(l) /\ ~IsOk(r) -> r
               [] IsOk(l) /\ IsOk(r) ->
                    IF expr[2] = "/" /\ r[2] = Num(0) THEN <<"fail", "ARITHMETIC_ERROR">>
                    ELSE Ok(ApplyOp(expr[2], l[2], r[2]))

\* A literal or what a target names.
ResolveValue(operand, ctx) ==
  LET target == ResolveTarget(operand[2], ctx)
  IN  CASE operand[1] = "literal" -> <<"value", operand[2]>>
        [] operand[1] = "target" ->
             IF IsFound(target) THEN <<"value", target[2]>> ELSE <<"fail", "TARGET_NOT_FOUND">>
        [] OTHER -> <<"unexpected">>

ResolveComparand(operand, ctx) ==
  LET number == EvalNode(operand[2], ctx)
  IN  IF operand[1] # "arithmetic" THEN ResolveValue(operand, ctx)
      ELSE IF IsOk(number) THEN <<"value", number[2]>> ELSE number

\* <<kind, ...>> of the operand with targets and arithmetic worked out.
ResolveRhs(op, operand, ctx) ==
  LET shape == OperatorShape[op]
      kind == operand[1]
  IN  CASE shape = "none" -> <<"none">>
        [] shape = "range" -> IF kind = "range" THEN operand ELSE <<"unexpected">>
        [] shape = "regex" -> IF kind = "regex" THEN operand ELSE <<"unexpected">>
        [] shape \in {"value", "numeric"} -> ResolveValue(operand, ctx)
        [] shape = "comparand" -> ResolveComparand(operand, ctx)

-----------------------------------------------------------------------------
\* The five groups; v is the value of the target, rhs that of the operand.

\* Variant: the bounds do not belong to the range.
InRangeInside(v, lo, hi) == LessThan(lo, v) /\ LessThan(v, hi)

InRange(v, lo, hi) == ~LessThan(v, lo) /\ ~LessThan(hi, v)

EvalComparison(op, v, rhs) ==
  LET w == rhs[2]
      numbers == Kind(v) = "num" /\ Kind(w) = "num"
  IN  CASE op = "equals"     -> Verdict(DeepEqual(v, w), "COMPARISON_FAILED")
        [] op = "not_equals" -> Verdict(~DeepEqual(v, w), "COMPARISON_FAILED")
        [] op \in {"greater_than", "less_than", "in_range"} /\ ~numbers -> Fail("TYPE_MISMATCH")
        [] op = "greater_than" /\ numbers -> Verdict(LessThan(w, v), "COMPARISON_FAILED")
        [] op = "less_than" /\ numbers -> Verdict(LessThan(v, w), "COMPARISON_FAILED")
        [] op = "in_range" /\ numbers ->
             Verdict(InRange(v, w, rhs[3]), "COMPARISON_FAILED")

EvalExistence(op, v) ==
  CASE op = "exists"      -> Pass
    [] op = "not_exists"  -> Fail("COMPARISON_FAILED")
    [] op = "is_null"     -> Verdict(v = Null, "COMPARISON_FAILED")
    [] op = "is_not_null" -> Verdict(v # Null, "COMPARISON_FAILED")

\* A pattern of plain text matches where it occurs.
EvalPattern(op, v, rhs) ==
  LET text == v[2]
      w == rhs[2]
      Occurs(s, places) == Verdict(OccursAt(s, text, places), "REGEX_NO_MATCH")
      anywhere == 1 .. Len(text) + 1
      strings == Kind(v) = "str" /\ (op # "matches" => Kind(w) = "str")
  IN  CASE op = "contains" /\ Kind(v) = "arr" ->
             Verdict(\E i \in DOMAIN text : DeepEqual(text[i], w), "REGEX_NO_MATCH")
        [] ~(op = "contains" /\ Kind(v) = "arr") /\ ~strings -> Fail("TYPE_MISMATCH")
        [] op = "matches" /\ strings     -> Occurs(w.source, anywhere)
        [] op = "contains" /\ strings    -> Occurs(w[2], anywhere)
        [] op = "starts_with" /\ strings -> Occurs(w[2], {1})
        [] op = "ends_with" /\ strings   ->
             Verdict(Len(w[2]) <= Len(text) /\ OccursAt(w[2], text, {Len(text) - Len(w[2]) + 1}),
                     "REGEX_NO_MATCH")

EvalFormat(op, v, now) ==
  LET format == IF op = "is_recent_timestamp" THEN "is_iso_timestamp" ELSE op
      distance == IF TimeOf[v[2]] < now THEN now - TimeOf[v[2]] ELSE TimeOf[v[2]] - now
  IN  CASE Kind(v) # "str" -> Fail("TYPE_MISMATCH")
        [] Kind(v) = "str" /\ v[2] \notin Formats[format] -> Fail("FORMAT_INVALID")
        [] OTHER -> Verdict(op = "is_recent_timestamp" => distance <= RecentWindow,
                            "FORMAT_INVALID")

IsNormalizedResult(v) ==
  /\ Kind(v) = "obj" /\ {"rows", "rowCount"} \subseteq DOMAIN v[2]
  /\ Kind(v[2]["rows"]) = "arr"
  /\ Kind(v[2]["rowCount"]) = "num" /\ v[2]["rowCount"][2][2] = 1

\* The count of an array is its length, that of a query's result its rowCount.
DeriveCount(v) ==
  CASE Kind(v) = "arr" -> Found(Num(Len(v[2])))
    [] Kind(v) # "arr" /\ IsNormalizedResult(v) -> Found(v[2]["rowCount"])
    [] OTHER -> NotFound

EvalAggregate(op, v, rhs) ==
  LET count == DeriveCount(v)
      w == rhs[2]
      valid == Kind(w) = "num" /\ w[2][2] = 1 /\ w[2][1] >= 0
  IN  CASE ~IsFound(count) -> Fail("AGGREGATE_MISMATCH")
        [] IsFound(count) /\ ~valid -> Fail("TYPE_MISMATCH")
        [] OTHER -> Verdict(IF op = "count_equals" THEN count[2] = w ELSE LessThan(w, count[2]),
                            "AGGREGATE_MISMATCH")

\* The operand is resolved before the target is looked at; without a target
\* nothing holds but not_exists.
EvaluateAssertion(ast, ctx) ==
  LET op  == ast.operator
      lhs == ResolveTarget(ast.target, ctx)
      rhs == ResolveRhs(op, ast.operand, ctx)
      v   == lhs[2]
  IN  CASE rhs[1] = "unexpected" -> Unexpected
        [] rhs[1] = "fail" -> Fail(rhs[2])
        [] rhs[1] \notin {"unexpected", "fail"} /\ ~IsFound(lhs) ->
             Verdict(op = "not_exists", "TARGET_NOT_FOUND")
        [] rhs[1] \notin {"unexpected", "fail"} /\ IsFound(lhs) ->
             CASE op \in {"equals", "not_equals", "greater_than", "less_than", "in_range"} ->
                    EvalComparison(op, v, rhs)
               [] op \in {"exists", "not_exists", "is_null", "is_not_null"} ->
                    EvalExistence(op, v)
               [] op \in {"matches", "contains", "starts_with", "ends_with"} ->
                    EvalPattern(op, v, rhs)
               [] op \in {"count_equals", "count_greater_than"} -> EvalAggregate(op, v, rhs)
               [] OTHER -> EvalFormat(op, v, ctx.now)

\* The verdicts on some assertions, whose order only shows in the report: those
\* without a tree have none.
ParseAndEvaluate(texts, ctx) ==
  LET parsed == {result \in {ParseAssertion(text) : text \in texts} : IsOk(result)}
  IN  {EvaluateAssertion(tree, ctx) : tree \in {result[2] : result \in parsed}}
=============================================================================
