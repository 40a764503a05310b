---------------------------- MODULE DbExpectations ----------------------------
(***************************************************************************)
(* What a db_verify block expects of the rows of its query                 *)
(* (src/db/expect) and the references in its fields                        *)
(* (src/runner/execute/db-verify-runner.ts).  A row is a function from     *)
(* column names to values; so are the declared fields, whose strings may   *)
(* be <<"ref", segs>> instead, a field that is one reference and nothing   *)
(* else.                                                                   *)
(***************************************************************************)
EXTENDS DbTemplates

NoFields == [f \in {} |-> Null]

\* A field that cannot be resolved keeps the text of its reference.
ResolvePureRef(field, scope) ==
  LET segs == field[2]
      named == ResolveRef(segs, scope)
  IN  CASE field[1] # "ref" -> field
        [] field[1] = "ref" /\ ClassifyInner(segs) /\ IsFound(named) -> named[2]
        [] OTHER -> Str(<<"${">> \o Dotted(segs) \o <<"}">>)

ResolveFieldRefs(fields, scope) == [k \in DOMAIN fields |-> ResolvePureRef(fields[k], scope)]

RowSatisfiesMatch(row, fields) ==
  \A k \in DOMAIN fields : k \in DOMAIN row /\ DeepEqual(row[k], fields[k])

RowSatisfiesExact(row, fields) ==
  /\ Cardinality(DOMAIN row) = Cardinality(DOMAIN fields)
  /\ \A k \in DOMAIN fields : k \in DOMAIN row /\ DeepEqual(row[k], fields[k])

EvaluateExists(rows) == rows # <<>>
EvaluateNotExists(rows) == rows = <<>>
EvaluateMatch(rows, fields) == \E i \in DOMAIN rows : RowSatisfiesMatch(rows[i], fields)
EvaluateExact(rows, fields) == \E i \in DOMAIN rows : RowSatisfiesExact(rows[i], fields)

\* Without fields nothing can match: an error of the author's.
Evaluate(rows, expect, fields) ==
  CASE expect = "exists"     -> EvaluateExists(rows)
    [] expect = "not_exists" -> EvaluateNotExists(rows)
    [] expect = "match"      -> DOMAIN fields # {} /\ EvaluateMatch(rows, fields)
    [] expect = "exact"      -> DOMAIN fields # {} /\ EvaluateExact(rows, fields)
=============================================================================
