------------------------------ MODULE DbTemplates ------------------------------
(***************************************************************************)
(* Queries with references: their extraction and resolution                *)
(* (src/db/templating) and what the connector of each engine makes of them *)
(* (src/db/connectors).                                                    *)
(*                                                                         *)
(* A query is a sequence of leaves: one for SQL and Cypher, one per value  *)
(* of the command for MongoDB.  A leaf tells whether it is quoted and has  *)
(* parts: <<"text", t>>, <<"space", 0>>, <<"ref", segs>> for ${...}, and   *)
(* <<"param", name>> for a parameter of the author's own.  In a neutral    *)
(* query <<"site", i>> stands where the i-th distinct reference stood;     *)
(* indices start at 1.                                                     *)
(***************************************************************************)
EXTENDS PathSegments

MapParts(leaves, F(_)) ==
  [k \in DOMAIN leaves |->
     [leaves[k] EXCEPT !.parts = [i \in DOMAIN leaves[k].parts |-> F(leaves[k].parts[i])]]]

\* The members of a sequence at some of its places.
Keep(seq, places) ==
  FlattenSeq([i \in DOMAIN seq |-> IF i \in places THEN <<seq[i]>> ELSE <<>>])

\* Of equal members only the first.
Firsts(seq) == Keep(seq, {i \in DOMAIN seq : \A j \in 1 .. i - 1 : seq[j] # seq[i]})

OfKind(parts, kind) == {i \in DOMAIN parts : parts[i][1] = kind}
KeepKind(parts, kind) == Keep(parts, OfKind(parts, kind))
PartsOf(leaves, kind) == KeepKind(FlattenSeq([k \in DOMAIN leaves |-> leaves[k].parts]), kind)

-----------------------------------------------------------------------------
\* env.<path>, request.body.<path> and response.body.<path>, no other.
ClassifyInner(segs) ==
  /\ \A i \in DOMAIN segs : segs[i] # ""
  /\ \/ Len(segs) > 1 /\ segs[1] = "env"
     \/ Len(segs) > 2 /\ segs[1] \in {"request", "response"} /\ segs[2] = "body"

Named(parts) == [i \in DOMAIN parts |-> parts[i][2]]

\* The same reference written twice is one, with the index of its first place.
ExtractRefs(query) ==
  LET refs == Named(Firsts(PartsOf(query, "ref")))
      Site(part) ==
        IF part[1] = "ref" THEN <<"site", CHOOSE i \in DOMAIN refs : refs[i] = part[2]>> ELSE part
  IN  IF \A i \in DOMAIN refs : ClassifyInner(refs[i])
      THEN Ok([refs |-> refs, leaves |-> MapParts(query, Site)]) ELSE Failed

\* scope has the values of env, of the request's body and of the response's.
ResolveRef(segs, scope) ==
  IF segs[1] = "env" THEN WalkPath(scope.env, ClassifyPath(Tail(segs)))
  ELSE WalkPath(scope[segs[1]], ClassifyPath(SubSeq(segs, 3, Len(segs))))

ResolveRefs(refs, scope) ==
  IF \A i \in DOMAIN refs : IsFound(ResolveRef(refs[i], scope))
  THEN Ok([i \in DOMAIN refs |-> ResolveRef(refs[i], scope)[2]]) ELSE Failed

-----------------------------------------------------------------------------
\* The binders.

ReplaceSentinels(leaves, tokens) ==
  LET Place(part) == IF part[1] = "site" THEN tokens[part[2]] ELSE part
  IN  MapParts(leaves, Place)

\* $1, $2 ...: one number for each reference, wherever it stands.
BindPg(neutral) ==
  LET tokens == [i \in DOMAIN neutral.values |-> <<"placeholder", i>>]
  IN  Ok([text |-> ReplaceSentinels(neutral.leaves, tokens), values |-> neutral.values])

\* ? at every place, and its value taken from the list of occurrences.
BindMySql(neutral) ==
  LET tokens == [i \in DOMAIN neutral.values |-> <<"placeholder", 0>>]
      Value(k) == IF k \in DOMAIN neutral.occurrences
                  THEN neutral.values[neutral.occurrences[k]] ELSE Undefined
  IN  Ok([text   |-> ReplaceSentinels(neutral.leaves, tokens),
          values |-> [k \in DOMAIN PartsOf(neutral.leaves, "site") |-> Value(k)]])

PrefixLadder == <<"p", "_p", "__p", "___p", "apiwright_p">>

\* Variant: the author's parameters are not looked at.
FirstPrefix(leaves, count) == Ok(PrefixLadder[1])

\* Names of a prefix and the index; the first prefix whose names the author has
\* not used, and none when all are used.
ChoosePrefix(leaves, count) ==
  LET used == ToSet(PartsOf(leaves, "param"))
      free == {k \in DOMAIN PrefixLadder :
                 \A i \in 1 .. count : <<"param", <<PrefixLadder[k], i>>>> \notin used}
  IN  IF free = {} THEN Failed
      ELSE Ok(PrefixLadder[CHOOSE k \in free : \A j \in free : k <= j])

BindNeo4j(neutral) ==
  LET prefix == ChoosePrefix(neutral.leaves, Len(neutral.values))
      tokens == [i \in DOMAIN neutral.values |-> <<"param", <<prefix[2], i>>>>]
  IN  IF ~IsOk(prefix) THEN Failed
      ELSE Ok([text   |-> ReplaceSentinels(neutral.leaves, tokens),
               values |-> [name \in {<<prefix[2], i>> : i \in DOMAIN neutral.values} |->
                             neutral.values[name[2]]]])

\* The text a value leaves inside a longer string.
TextOf(v) ==
  CASE Kind(v) = "str" -> [i \in DOMAIN v[2] |-> <<"text", v[2][i]>>]
    [] Kind(v) \in {"null", "undefined"} -> <<>>
    [] OTHER -> <<<<"text", ToString(v)>>>>

\* The places of a leaf that are not blank.
Ink(parts) == {i \in DOMAIN parts : parts[i][1] # "space"}

\* A leaf that is one reference gets the value itself; in a longer one its text
\* takes the place of the reference and of the spaces around it.
MapLeaf(leaf, values) ==
  LET parts == leaf.parts
      ink == Ink(parts)
      Beside(i) == \E j \in DOMAIN parts : /\ parts[j][1] = "site"
                                           /\ \A k \in (i .. j) \union (j .. i) :
                                                k = j \/ parts[k][1] = "space"
      Put(i) == CASE parts[i][1] = "site"  -> TextOf(values[parts[i][2]])
                  [] parts[i][1] = "space" -> IF Beside(i) THEN <<>> ELSE <<parts[i]>>
                  [] OTHER -> <<parts[i]>>
  IN  IF \E i \in ink : ink = {i} /\ parts[i][1] = "site"
      THEN LET i == CHOOSE i \in ink : TRUE IN <<<<"value", values[parts[i][2]]>>>>
      ELSE FlattenSeq([i \in DOMAIN parts |-> Put(i)])

BindMongo(neutral) ==
  Ok([text   |-> [k \in DOMAIN neutral.leaves |->
                    [neutral.leaves[k] EXCEPT !.parts = MapLeaf(neutral.leaves[k], neutral.values)]],
      values |-> <<>>])

-----------------------------------------------------------------------------
\* The connectors.  Each gets the neutral query and the values by index and makes
\* up the list of occurrences again: one for every value.
BuildNeutral(leaves, values) ==
  [leaves |-> leaves, values |-> values, occurrences |-> [i \in DOMAIN values |-> i]]

PostgresExecute(leaves, values) == BindPg(BuildNeutral(leaves, values))
MysqlExecute(leaves, values)    == BindMySql(BuildNeutral(leaves, values))
Neo4jExecute(leaves, values)    == BindNeo4j(BuildNeutral(leaves, values))

\* The command has to be JSON when it arrives, which a bare reference is not.
MongodbExecute(leaves, values) ==
  LET Text(k) == \A i \in DOMAIN leaves[k].parts : leaves[k].parts[i][1] = "text"
  IN  IF \A k \in DOMAIN leaves : leaves[k].quoted \/ Text(k)
      THEN BindMongo(BuildNeutral(leaves, values)) ELSE Failed

Bind(engine, leaves, values) ==
  CASE engine = "postgres" -> PostgresExecute(leaves, values)
    [] engine = "mysql"    -> MysqlExecute(leaves, values)
    [] engine = "neo4j"    -> Neo4jExecute(leaves, values)
    [] engine = "mongodb"  -> MongodbExecute(leaves, values)

-----------------------------------------------------------------------------
\* What the driver of the engine runs: the parts of every leaf with the values in
\* the places of the placeholders.  mysql2 takes no undefined value.

Takes(engine, bound) ==
  engine = "mysql" => \A i \in DOMAIN bound.values : bound.values[i] # Undefined

Delivered(engine, bound) ==
  LET AtNumber(part) ==
        IF part[1] = "placeholder" THEN <<"value", bound.values[part[2]]>> ELSE part
      AtName(part) ==
        IF part[1] = "param" /\ part[2] \in DOMAIN bound.values
        THEN <<"value", bound.values[part[2]]>> ELSE part
      text == bound.text
      NthPlace(i) == Cardinality({j \in 1 .. i : text[1].parts[j][1] = "placeholder"})
      InOrder == [i \in DOMAIN text[1].parts |->
                    IF text[1].parts[i][1] = "placeholder"
                    THEN <<"value", bound.values[NthPlace(i)]>> ELSE text[1].parts[i]]
  IN  CASE engine = "postgres" -> MapParts(text, AtNumber)
        [] engine = "neo4j"    -> MapParts(text, AtName)
        [] engine = "mysql"    -> [text EXCEPT ![1].parts = InOrder]
        [] engine = "mongodb"  -> text

-----------------------------------------------------------------------------
\* Replies: rows, and the counts an engine sends with them or instead.  The seam of
\* the driver makes rows and perhaps one count of them.

\* undefined and null are the absence of the count.
MapPgResult(reply) ==
  [rows |-> reply.rows,
   rowCount |-> IF "rowCount" \in DOMAIN reply.counts THEN reply.counts.rowCount
                ELSE Len(reply.rows)]

\* Rows, or the header of a statement that returns none.
MysqlReply(reply) ==
  IF "affectedRows" \in DOMAIN reply.counts
  THEN [kind |-> "ok", affectedRows |-> reply.counts.affectedRows]
  ELSE [kind |-> "rows", rows |-> reply.rows]

MapMysqlResult(my) ==
  IF my.kind = "rows" THEN [rows |-> my.rows, rowCount |-> Len(my.rows)]
  ELSE [rows |-> <<>>, rowCount |-> my.affectedRows]

\* Negative counters do not count.
SumCounters(counts) ==
  LET Positive(name) == IF counts[name] > 0 THEN counts[name] ELSE 0
      Add(sum, name) == sum + Positive(name)
  IN  FoldLeft(Add, 0, SetToSeq(DOMAIN counts))

Neo4jReply(reply) == [records |-> reply.rows, countersTotal |-> SumCounters(reply.counts)]

MapNeo4jResult(n) ==
  [rows |-> n.records,
   rowCount |-> IF n.records # <<>> THEN Len(n.records) ELSE n.countersTotal]

\* The first of these counts the command's reply has.
MongoCounts == <<"nModified", "nInserted", "nDeleted", "n">>
ReadMongoAffectedCount(counts) ==
  LET present == {i \in DOMAIN MongoCounts : MongoCounts[i] \in DOMAIN counts}
  IN  IF present = {} THEN 0
      ELSE counts[MongoCounts[CHOOSE i \in present : \A j \in present : i <= j]]

NormalizeMongoCommandResult(reply) ==
  [documents |-> reply.rows,
   affected  |-> IF reply.rows # <<>> THEN 0 ELSE ReadMongoAffectedCount(reply.counts)]

MapMongoResult(m) ==
  [rows |-> m.documents,
   rowCount |-> IF m.documents # <<>> THEN Len(m.documents) ELSE m.affected]

Normalize(engine, reply) ==
  CASE engine = "postgres" -> MapPgResult(reply)
    [] engine = "mysql"    -> MapMysqlResult(MysqlReply(reply))
    [] engine = "neo4j"    -> MapNeo4jResult(Neo4jReply(reply))
    [] engine = "mongodb"  -> MapMongoResult(NormalizeMongoCommandResult(reply))
=============================================================================
