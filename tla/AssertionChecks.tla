---------------------------- MODULE AssertionChecks ----------------------------
(***************************************************************************)
(* The attempts of AttemptChecks with the language of assertions in them,  *)
(* and what the twenty operators and the four expectations promise.        *)
(***************************************************************************)
EXTENDS AttemptChecks, AssertionEvaluation

\* What AttemptChecks knows of assertions: Parses, and Evaluated is
\* ParseAndEvaluate.
AssertionParses(text) == IsOk(ParseAssertion(text))

-----------------------------------------------------------------------------
Tree == ParseAssertion(attempt.assertion)

\* Whether an operator holds of the target of a tree, with one operand or another.
Holding(tree, operands, ctx) ==
  [op \in DOMAIN OperatorShape, operand \in operands |->
     EvaluateAssertion([tree EXCEPT !.operator = op, !.operand = operand], ctx).pass]

\* The twenty operators, each evaluated by code of its own group, agree on what
\* they say of one target: a negation holds exactly when its operator fails, a
\* stronger operator implies the weaker ones, and of an absent target nothing
\* holds but not_exists (evaluator.ts:93-220 and the five evaluators).
OperatorsAgree(tree, ctx) ==
  LET none == <<"none">>
      null == <<"literal", Null>>
      given == tree.operand
      shape == OperatorShape[tree.operator]
      Low == <<"literal", given[2]>>
      High == <<"literal", given[3]>>
      bounds == IF shape = "range" THEN {Low, High} ELSE {}
  IN  \A holds \in {Holding(tree, {none, null, given} \union bounds, ctx)},
         found \in {IsFound(ResolveTarget(tree.target, ctx))},
         worth \in {ResolveRhs(tree.operator, given, ctx)[1]} :
        /\ holds["exists", none] = found
        /\ holds["not_exists", none] = ~found
        /\ ~found => \A op \in DOMAIN OperatorShape \ {"not_exists"} :
                       OperatorShape[op] = shape => ~holds[op, given]
        /\ found => holds["is_null", none] # holds["is_not_null", none]
        /\ holds["is_null", none] = holds["equals", null]
        /\ holds["is_recent_timestamp", none] => holds["is_iso_timestamp", none]
        /\ (shape = "comparand" /\ found /\ worth = "value") =>
             (holds["equals", given] # holds["not_equals", given])
        /\ (shape = "comparand" /\ holds["greater_than", given]) =>
             (holds["not_equals", given] /\ ~holds["less_than", given])
        /\ (shape = "comparand" /\ holds["less_than", given]) => holds["not_equals", given]
        /\ shape = "range" =>
             holds["in_range", given] = (/\ holds["equals", Low] \/ holds["greater_than", Low]
                                         /\ holds["equals", High] \/ holds["less_than", High])
        /\ (shape = "value" /\ (holds["starts_with", given] \/ holds["ends_with", given])) =>
             holds["contains", given]
        /\ shape = "numeric" =>
             ~(holds["count_equals", given] /\ holds["count_greater_than", given])

\* The parser lets through exactly what the evaluators can take: no assertion is
\* judged without a tree (no tree has no result, and no result is a pass), and no
\* tree reaches a branch for operands that should not be there.
Dispatchable(tree, ctx) == ~EvaluateAssertion(tree, ctx).unexpected

-----------------------------------------------------------------------------
\* The value of arithmetic as it is written, without tokens or trees: what
\* stands on both sides of the last operator outside parentheses that binds
\* least.
Malformed == <<"malformed">>

RECURSIVE Meaning(_)
Meaning(pieces) ==
  LET n == Len(pieces)
      Count(c, i) == Cardinality({j \in 1 .. i : pieces[j] = <<"sym", c>>})
      Open(i) == Count("(", i) - Count(")", i)
      EndsOperand(i) == i > 0 /\ (pieces[i][1] \in {"num", "word"} \/ pieces[i] = <<"sym", ")">>)
      Sign(i) == /\ pieces[i] = <<"minus", FALSE>> /\ ~EndsOperand(i - 1)
                 /\ i < n /\ pieces[i + 1][1] = "num"
      Op(i) == CASE pieces[i][1] = "minus" -> IF Sign(i) THEN "" ELSE "-"
                 [] pieces[i][1] = "slash" -> "/"
                 [] pieces[i][1] = "sym"   -> pieces[i][2]
                 [] OTHER -> ""
      Places(ops) == {i \in 1 .. n : Op(i) \in ops /\ Open(i) = 0}
      Combine(i) ==
        LET l == Meaning(SubSeq(pieces, 1, i - 1))
            r == Meaning(SubSeq(pieces, i + 1, n))
        IN  CASE Malformed \in {l, r} -> Malformed
              [] Malformed \notin {l, r} /\ ~(IsOk(l) /\ IsOk(r)) -> Failed
              [] OTHER -> IF Op(i) = "/" /\ r[2] = Num(0) THEN Failed
                          ELSE Ok(ApplyOp(Op(i), l[2], r[2]))
      Split(ops) == Combine(CHOOSE i \in Places(ops) : \A j \in Places(ops) : j <= i)
      ref == ParseTarget(SplitDotAndBracketSegments(pieces[1][2]))
      named == ResolveTarget(ref[2], Context)
  IN  CASE n = 0 -> Malformed
        [] n > 0 /\ Places({"+", "-"}) # {} -> Split({"+", "-"})
        [] n > 0 /\ Places({"+", "-"}) = {} /\ Places({"*", "/"}) # {} -> Split({"*", "/"})
        [] OTHER ->
             CASE n = 1 /\ pieces[1][1] = "num" -> Ok(Num(pieces[1][2]))
               [] n = 2 /\ Sign(1) -> Ok(Num(-pieces[2][2]))
               [] n = 1 /\ pieces[1][1] = "word" ->
                    IF ~IsOk(ref) THEN Malformed
                    ELSE IF IsFound(named) /\ Kind(named[2]) = "num" THEN Ok(named[2])
                         ELSE Failed
               [] n > 2 /\ Op(1) = "(" /\ Op(n) = ")" /\ \A i \in 1 .. n - 1 : Open(i) > 0 ->
                    Meaning(SubSeq(pieces, 2, n - 1))
               [] OTHER -> Malformed

\* A parenthesised operand is worth what it says: the tokenizer's guesses at "-"
\* and "/", the precedence of the parser and its chains to the left give the value
\* of the text, division by zero and targets that are no numbers included, and
\* what is no arithmetic or nested too deeply is refused.
ArithmeticMeansWhatIsWritten ==
  \A text \in {attempt.assertion} : \A region \in {SubSeq(text, 3, Len(text))} :
    LET Operator(name) == <<"word", <<<<"text", <<name>>>>>>>>
        Letters(i) == region[i][1] \in {"num", "word", "minus"} \/ region[i] = <<"slash", <<>>>>
                      \/ region[i] \in {<<"sym", c>> : c \in {"(", ")", "+", "*"}}
        Nesting(i) == Cardinality({j \in 1 .. i : region[j] = <<"sym", "(">>})
                      - Cardinality({j \in 1 .. i : region[j] = <<"sym", ")">>})
        shallow == \A i \in DOMAIN region : Nesting(i) <= MaxArithDepth
    IN  (/\ phase \in {"refused", "judged"}
         /\ Len(text) > 2 /\ text[2] = Operator("equals")
         /\ IsOk(ParseAssertion(<<text[1], Operator("exists")>>))
         /\ region[1] = <<"sym", "(">>
         /\ \A i \in DOMAIN region : Letters(i))
        => \A meaning \in {Meaning(region)}, tree \in {Tree} :
             /\ IsOk(tree) = (meaning # Malformed /\ shallow)
             /\ IsOk(tree) =>
                  \A number \in {EvalNode(tree[2].operand[2], Context)} :
                    /\ IsOk(number) = IsOk(meaning)
                    /\ IsOk(number) => number = meaning

-----------------------------------------------------------------------------
\* The four expectations agree on one result: exact is stronger than match and
\* match than exists, and a result satisfies either exists or not_exists.
ExpectationsCohere ==
  \A k \in DOMAIN results :
    LET fields == ResolveFieldRefs(attempt.steps[k].fields, Scope)
        Satisfies(expect) == Evaluate(results[k].result.rows, expect, fields)
    IN  /\ Satisfies("exact") => Satisfies("match")
        /\ Satisfies("match") => Satisfies("exists")
        /\ Satisfies("exists") # Satisfies("not_exists")

\* The vocabulary an endpoint file may use, twenty operators and four
\* expectations, means one thing throughout: what the parser lets through an
\* evaluator takes, and no two verdicts on one target or one result contradict
\* each other.
VerdictsCohere ==
  /\ phase = "judged" =>
       /\ IsOk(Tree)
       /\ \A tree \in {Tree[2]}, ctx \in {Context} :
            Dispatchable(tree, ctx) /\ OperatorsAgree(tree, ctx)
  /\ ExpectationsCohere
=============================================================================
