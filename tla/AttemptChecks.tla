----------------------------- MODULE AttemptChecks -----------------------------
(***************************************************************************)
(* What one attempt checks once its response is there                      *)
(* (src/runner/execute/db-verify-runner.ts, endpoint-executor.ts,          *)
(* src/assertions/assertion-engine.ts): the db_verify blocks one after the *)
(* other, then the assertion in the context they leave, then the cleanup   *)
(* of the endpoint.  Assertions have been parsed before the run            *)
(* (runner/discovery/assertion-binder-wiring.ts).  Requests, retries and   *)
(* timeouts are EndpointExecutor's.                                        *)
(***************************************************************************)
EXTENDS DbExpectations

CONSTANTS
  Attempts,     \* what an attempt may be about: records of
                \*   gate      "assertion" or "db_state", the kind of the case
                \*   assertion the text of the assertion
                \*   steps     the db_verify blocks
                \*   cleanup   a sequence of at most one block
                \*   exchange  the request and response it is about
  Parses(_),        \* whether the text of an assertion parses
  Evaluated(_, _),  \* the verdicts on some texts in a context
  Exchanges,    \* by name, the environment and the roots of targets but db
  Replies,      \* the replies a database may give
  Now           \* the clock when assertions are evaluated

IsSeq(s) == s \in Seq(ToSet(s))

\* Parts as they are written, and a query of one text but for MongoDB.
IsPart(part) ==
  /\ part = <<part[1], part[2]>>
  /\ part[1] \in {"text", "space", "ref", "param"}
  /\ part[1] = "ref" => IsSeq(part[2])
IsLeaf(leaf) ==
  /\ leaf = [quoted |-> leaf.quoted, parts |-> leaf.parts]
  /\ IsSeq(leaf.parts) /\ \A i \in DOMAIN leaf.parts : IsPart(leaf.parts[i])
IsBlock(block) ==
  /\ block.engine \in {"postgres", "mysql", "neo4j", "mongodb"}
  /\ IsSeq(block.query) /\ \A k \in DOMAIN block.query : IsLeaf(block.query[k])
  /\ block.engine # "mongodb" => Len(block.query) = 1

\* What a walk finds inside a value is JSON: never undefined, and the fragments of
\* a string in a sequence.
IsJson(v) == v # Undefined /\ (Kind(v) = "str" => IsSeq(v[2]))
Held(vals) == UNION {{v[2][k] : k \in DOMAIN v[2]} : v \in {w \in vals : IsContainer(w)}}
JsonInside(v) ==
  LET within[d \in 0 .. WalkDepth] == IF d = 0 THEN {v} ELSE Held(within[d - 1])
  IN  \A d \in 1 .. WalkDepth : \A w \in within[d] : IsJson(w)

ASSUME AttemptsAssumption ==
  \A a \in Attempts :
    /\ IsSeq(a.steps) /\ \A k \in DOMAIN a.steps : IsBlock(a.steps[k])
    /\ IsSeq(a.cleanup) /\ \A k \in DOMAIN a.cleanup : IsBlock(a.cleanup[k])
    /\ a.exchange \in DOMAIN Exchanges

ASSUME ExchangesAssumption ==
  \A x \in DOMAIN Exchanges :
    /\ JsonInside(Exchanges[x].env)
    /\ \A root \in {<<"request", "body">>, <<"response", "body">>} :
         JsonInside(Exchanges[x].roots[root])

VARIABLES
  attempt,      \* the attempt at hand
  phase,        \* "parse", "verify", "judged", "clean"; or "refused", "failed"
  results,      \* dbResult.steps: [pass, answered, result]
  dbContext,    \* dbResult.dbContext, by connection and query id
  runs,         \* history: what each connector was given and has bound
  verdict       \* the verdict of the case, or "none"

vars == <<attempt, phase, results, dbContext, runs, verdict>>

Init ==
  /\ attempt \in Attempts
  /\ phase = "parse"
  /\ results = <<>>
  /\ dbContext = [k \in {} |-> Null]
  /\ runs = <<>>
  /\ verdict = "none"

\* One assertion that does not parse refuses the whole run.
ParseAllAssertions ==
  /\ phase = "parse"
  /\ phase' = IF Parses(attempt.assertion) THEN "verify" ELSE "refused"
  /\ UNCHANGED <<attempt, results, dbContext, runs, verdict>>

-----------------------------------------------------------------------------
\* db_verify.

\* What references may name.
Exchange == Exchanges[attempt.exchange]
Scope == [env |-> Exchange.env, request |-> Exchange.roots[<<"request", "body">>],
          response |-> Exchange.roots[<<"response", "body">>]]

Due == phase = "verify" /\ Len(results) < Len(attempt.steps)
Step == attempt.steps[Len(results) + 1]

\* Blocks without a query id are named by their place, from q0 on.
Synthesized == <<"q0", "q1", "q2">>
QueryId == IF Step.qid = "" THEN Synthesized[Len(results) + 1] ELSE Step.qid

Prepare(block, scope) ==
  LET extracted == ExtractRefs(block.query)
      resolved == ResolveRefs(extracted[2].refs, scope)
  IN  IF IsOk(extracted) /\ IsOk(resolved)
      THEN Ok([leaves |-> extracted[2].leaves, values |-> resolved[2]]) ELSE Failed

\* What assertions see of a result.
ResultValue(result) ==
  Obj([k \in {"rows", "rowCount"} |->
         IF k = "rowCount" THEN Num(result.rowCount)
         ELSE Arr([i \in DOMAIN result.rows |-> Obj(result.rows[i])])])

Empty == [rows |-> <<>>, rowCount |-> 0]

Record(pass, answered, result) ==
  /\ results' = Append(results, [pass |-> pass, answered |-> answered, result |-> result])
  /\ dbContext' = (<<Step.conn, QueryId>> :> ResultValue(result)) @@ dbContext
  /\ UNCHANGED <<attempt, phase, verdict>>

\* Variant: the empty result is compared with what is expected.
FailEmpty == Record(Step.expect = "not_exists", FALSE, Empty)

FailRecord == Record(FALSE, FALSE, Empty)

Run(block, bound) == Append(runs, [block |-> block, bound |-> bound])

\* References that are malformed or that name nothing.
RejectStep ==
  /\ Due
  /\ ~IsOk(Prepare(Step, Scope))
  /\ FailRecord
  /\ UNCHANGED runs

\* acquire is outside the try of runOne: its error ends the attempt.
AcquireFails ==
  /\ Due
  /\ IsOk(Prepare(Step, Scope))
  /\ phase' = "failed"
  /\ verdict' = "fail"
  /\ UNCHANGED <<attempt, results, dbContext, runs>>

\* The binder refuses, the driver refuses the values, or the database fails.
StepErrors ==
  /\ Due
  /\ LET prepared == Prepare(Step, Scope)
         bound == Bind(Step.engine, prepared[2].leaves, prepared[2].values)
     IN  /\ IsOk(prepared)
         /\ runs' = IF IsOk(bound) THEN Run(Step, bound[2]) ELSE runs
  /\ FailRecord

StepAnswered ==
  /\ Due
  /\ LET prepared == Prepare(Step, Scope)
         bound == Bind(Step.engine, prepared[2].leaves, prepared[2].values)
         fields == ResolveFieldRefs(Step.fields, Scope)
     IN  /\ IsOk(prepared)
         /\ IsOk(bound)
         /\ Takes(Step.engine, bound[2])
         /\ runs' = Run(Step, bound[2])
         /\ \E reply \in Replies[Step.engine] :
              LET result == Normalize(Step.engine, reply)
              IN  Record(Evaluate(result.rows, Step.expect, fields), TRUE, result)

-----------------------------------------------------------------------------
Context == [roots |-> Exchange.roots, db |-> dbContext, now |-> Now]

\* Only a case of kind assertion has its assertion evaluated, and no result is a
\* pass.
RunAssertions(ctx) ==
  IF attempt.gate = "assertion" THEN Evaluated({attempt.assertion}, ctx) ELSE {}

AssertionOk == \A ctx \in {Context} : \A result \in RunAssertions(ctx) : result.pass

DbVerifyOk == \A i \in DOMAIN results : results[i].pass

Judge ==
  /\ phase = "verify"
  /\ Len(results) = Len(attempt.steps)
  /\ phase' = "judged"
  /\ verdict' = IF IF attempt.gate = "db_state" THEN DbVerifyOk ELSE AssertionOk
                THEN "pass" ELSE "fail"
  /\ UNCHANGED <<attempt, results, dbContext, runs>>

\* The cleanup is given neither body, whatever its references ask for.
CleanupScope == [Scope EXCEPT !.request = Undefined, !.response = Undefined]

\* Its failure shows in the report only.
RunCleanup ==
  /\ phase \in {"judged", "failed"}
  /\ phase' = "clean"
  /\ LET block == attempt.cleanup[1]
         prepared == Prepare(block, CleanupScope)
         bound == Bind(block.engine, prepared[2].leaves, prepared[2].values)
     IN  IF attempt.cleanup # <<>> /\ IsOk(prepared) /\ IsOk(bound)
         THEN runs' \in {runs, Run(block, bound[2])} ELSE UNCHANGED runs
  /\ UNCHANGED <<attempt, results, dbContext, verdict>>

Next ==
  \/ ParseAllAssertions
  \/ RejectStep \/ AcquireFails \/ StepErrors \/ StepAnswered
  \/ Judge \/ RunCleanup

Spec == Init /\ [][Next]_vars

-----------------------------------------------------------------------------
(* What the checks of an attempt promise; what verdicts promise is in      *)
(* AssertionChecks.                                                        *)

\* The query with the values of a scope where its references are written.
Inlined(block, scope) ==
  LET Value(part) == ResolveRef(part[2], scope)[2]
      Put(part) == IF part[1] = "ref" THEN <<"value", Value(part)>> ELSE part
      Splice(part) == CASE part[1] = "ref"   -> TextOf(Value(part))
                        [] part[1] = "space" -> <<>>
                        [] OTHER -> <<part>>
      Spliced(parts) ==
        IF \E i \in Ink(parts) : Ink(parts) = {i} /\ parts[i][1] = "ref"
        THEN LET i == CHOOSE i \in Ink(parts) : TRUE IN <<Put(parts[i])>>
        ELSE FlattenSeq([i \in DOMAIN parts |-> Splice(parts[i])])
  IN  IF block.engine # "mongodb" THEN MapParts(block.query, Put)
      ELSE [k \in DOMAIN block.query |->
              [block.query[k] EXCEPT !.parts = Spliced(block.query[k].parts)]]

WithoutSpaces(leaves) ==
  [k \in DOMAIN leaves |->
     [leaves[k] EXCEPT !.parts = Keep(leaves[k].parts, Ink(leaves[k].parts))]]

Repeats(block) ==
  LET refs == PartsOf(block.query, "ref") IN \E i, j \in DOMAIN refs : i # j /\ refs[i] = refs[j]

\* Whatever the engine, the database runs the query with every reference replaced
\* by its own value and nothing else touched: sentinels, numbered and positional
\* placeholders and parameter names, which the extractor, the connector and the
\* binder of an engine pass along by index, meet again.  MySQL queries that repeat
\* a reference are the exception.
BoundQueryCarriesReferences ==
  \A k \in DOMAIN runs :
    LET block == runs[k].block
        bound == runs[k].bound
    IN  (block.engine = "mysql" => ~Repeats(block))
        => /\ Takes(block.engine, bound)
           /\ WithoutSpaces(Delivered(block.engine, bound)) = WithoutSpaces(Inlined(block, Scope))

\* A step whose query never came back leaves an empty result behind, which would
\* satisfy not_exists: a case about the database passes only when every one of its
\* queries was answered.
UnansweredNeverPasses ==
  attempt.gate = "db_state" /\ verdict = "pass" =>
    /\ Len(results) = Len(attempt.steps)
    /\ \A k \in DOMAIN results : results[k].answered
=============================================================================
