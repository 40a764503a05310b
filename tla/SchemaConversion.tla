--------------------------- MODULE SchemaConversion ---------------------------
(***************************************************************************)
(* The JSON Schemas the importers write: inferred from an example          *)
(* (src/importers/postman/schema-infer.ts) or translated from the schema   *)
(* of a specification (src/importers/openapi/schema-converter.ts and       *)
(* schema-keyword-applier.ts).  Of the keywords that are copied as they    *)
(* are, minimum and uniqueItems stand for the rest.                        *)
(***************************************************************************)
EXTENDS Texts

CONSTANTS
  InferDepth,    \* levels an example may nest (MAX_DEPTH, 512)
  SchemaDepth    \* levels of a schema that are converted (SCHEMA_MAX_DEPTH, 256)

Has(raw, k) == k \in DOMAIN raw[2]
IsNumber(v) == Kind(v) = "num"
IsWhole(v) == IsNumber(v) /\ v[2][2] = 1
Typed(t) == Map([type |-> Text(t)])
Permissive == Typed("object")
PendingReview == Map([_pending_review |-> Boolean(TRUE)])

-----------------------------------------------------------------------------
(* A schema from an example.                                               *)

\* Some value of v stands below the given number of levels: infer() throws.
RECURSIVE NestsDeeper(_, _)
NestsDeeper(v, levels) ==
  \/ levels < 0
  \/ Kind(v) \in {"arr", "obj"} /\ \E k \in DOMAIN v[2] : NestsDeeper(v[2][k], levels - 1)

\* The members of s, each where it stands first.
Distinct(s) == SelectSeq([i \in DOMAIN s |-> <<i, s[i]>>],
                         LAMBDA p : \A j \in 1 .. (p[1] - 1) : s[j] # p[2])

\* Schemas are compared by their text: objects that have the same keys in another
\* order would count as different ones.
RECURSIVE Infer(_)
Infer(v) ==
  LET items == Distinct([i \in DOMAIN v[2] |-> Infer(v[2][i])])
      each  == [i \in DOMAIN items |-> items[i][2]]
  IN CASE v = Undefined -> Map(Empty)
       [] Kind(v) = "null" -> Typed("null")
       [] Kind(v) = "bool" -> Typed("boolean")
       [] Kind(v) = "num"  -> Typed(IF IsWhole(v) THEN "integer" ELSE "number")
       [] Kind(v) = "str"  -> Typed("string")
       [] Kind(v) = "arr"  ->
            Map([type |-> Text("array"),
                 items |-> IF each = <<>> THEN Map(Empty)
                           ELSE IF Len(each) = 1 THEN each[1]
                           ELSE Map([oneOf |-> Arr(each)])])
       [] Kind(v) = "obj"  ->
            Map([type |-> Text("object"),
                 properties |-> Map([k \in DOMAIN v[2] |-> Infer(v[2][k])]),
                 required |-> Arr(SetToSeq({Text(k) : k \in DOMAIN v[2]}))])

-----------------------------------------------------------------------------
(* A schema from a schema.                                                 *)

Compositions == {"allOf", "oneOf", "anyOf"}
Copied == {"minimum", "uniqueItems"}
Recognized == {"type", "format", "enum", "const", "properties", "required", "items",
               "additionalProperties"} \union Compositions \union Copied

\* The keywords of a schema that get into its translation.
Applies(raw, k) ==
  CASE k \in {"type", "format", "const"} \union Copied -> TRUE
    [] k \in {"enum"} \union Compositions -> Kind(raw[2][k]) = "arr"
    [] k = "properties" -> Kind(raw[2][k]) = "obj"
    [] k = "required" ->
         Kind(raw[2][k]) = "arr" /\ Has(raw, "properties") /\ Kind(raw[2]["properties"]) = "obj"
    [] k = "items" -> Kind(raw[2][k]) \in {"arr", "obj"}
    [] k = "additionalProperties" -> Kind(raw[2][k]) \in {"bool", "obj"}

\* Variant: nullable is left out.
PlainType(raw) == raw[2]["type"]

ApplyType(raw) ==
  IF Has(raw, "nullable") /\ raw[2]["nullable"] = Boolean(TRUE) /\ Kind(raw[2]["type"]) = "str"
  THEN Arr(<<raw[2]["type"], Text("null")>>) ELSE raw[2]["type"]

\* The translation, and whether a warning was given on the way.
RECURSIVE ConvertAt(_, _)
ConvertAt(node, depth) ==
  IF depth > SchemaDepth \/ Kind(node) # "obj" THEN [schema |-> Permissive, warned |-> TRUE]
  ELSE IF DOMAIN node[2] \intersect Recognized = {}
       THEN [schema |-> Permissive, warned |-> TRUE]
  ELSE LET kept == {k \in DOMAIN node[2] \intersect Recognized : Applies(node, k)}
           Sub(v) == ConvertAt(v, depth + 1)
           Below(k) ==
             CASE k \in Compositions \union {"properties"} \/ (k = "items" /\ Kind(node[2][k]) = "arr") ->
                    [i \in DOMAIN node[2][k][2] |-> Sub(node[2][k][2][i])]
               [] k \in {"items", "additionalProperties"} /\ Kind(node[2][k]) = "obj" ->
                    [i \in {1} |-> Sub(node[2][k])]
               [] OTHER -> <<>>
           Applied(k) ==
             CASE k = "type" -> ApplyType(node)
               [] k \in Compositions \union {"properties"} \/ (k = "items" /\ Kind(node[2][k]) = "arr") ->
                    <<Kind(node[2][k]), [i \in DOMAIN Below(k) |-> Below(k)[i].schema]>>
               [] k \in {"items", "additionalProperties"} /\ Kind(node[2][k]) = "obj" ->
                    Below(k)[1].schema
               [] OTHER -> node[2][k]
       IN  [schema |-> Map([k \in kept |-> Applied(k)]),
            warned |-> \/ Has(node, "properties") /\ "properties" \notin kept
                       \/ \E k \in kept : \E i \in DOMAIN Below(k) : Below(k)[i].warned]

Convert(specSchema) == ConvertAt(specSchema, 0)

-----------------------------------------------------------------------------
(* What a schema accepts: JSON Schema, with nullable as OpenAPI has it.    *)

HasType(v, t) ==
  CASE t = Text("integer") -> IsWhole(v)
    [] t = Text("number")  -> IsNumber(v)
    [] t = Text("string")  -> Kind(v) = "str"
    [] t = Text("boolean") -> Kind(v) = "bool"
    [] t = Text("null")    -> v = Null
    [] t = Text("array")   -> Kind(v) = "arr"
    [] t = Text("object")  -> Kind(v) = "obj"

RECURSIVE Accepts(_, _)
Accepts(s, v) ==
  IF Kind(s) = "bool" THEN s[2]
  ELSE LET Val(k) == s[2][k][2]
           Matching(k) == {i \in DOMAIN Val(k) : Accepts(Val(k)[i], v)}
           named == IF Has(s, "properties") THEN DOMAIN Val("properties") ELSE {}
       IN  /\ Has(s, "type") =>
                \/ \E t \in (IF Kind(s[2]["type"]) = "arr" THEN ToSet(Val("type"))
                             ELSE {s[2]["type"]}) : HasType(v, t)
                \/ v = Null /\ Has(s, "nullable") /\ Val("nullable")
           /\ Has(s, "enum") => v \in ToSet(Val("enum"))
           /\ Has(s, "const") => v = s[2]["const"]
           /\ Has(s, "allOf") => Matching("allOf") = DOMAIN Val("allOf")
           /\ Has(s, "anyOf") => Matching("anyOf") # {}
           /\ Has(s, "oneOf") => Cardinality(Matching("oneOf")) = 1
           /\ Has(s, "not") => ~Accepts(s[2]["not"], v)
           /\ (Has(s, "minimum") /\ IsNumber(v)) => ~LessThan(v, s[2]["minimum"])
           /\ Kind(v) = "arr" =>
                /\ (Has(s, "items") /\ Kind(s[2]["items"]) # "arr") =>
                     \A i \in DOMAIN v[2] : Accepts(s[2]["items"], v[2][i])
                /\ (Has(s, "uniqueItems") /\ Val("uniqueItems")) =>
                     Cardinality(ToSet(v[2])) = Len(v[2])
           /\ Kind(v) = "obj" =>
                /\ \A k \in named \intersect DOMAIN v[2] : Accepts(Val("properties")[k], v[2][k])
                /\ Has(s, "required") =>
                     \A t \in ToSet(Val("required")) : Head(t[2])[2] \in DOMAIN v[2]
                /\ Has(s, "additionalProperties") =>
                     \A k \in DOMAIN v[2] \ named : Accepts(s[2]["additionalProperties"], v[2][k])
=============================================================================
