--------------------------------- MODULE Texts ---------------------------------
(***************************************************************************)
(* Strings of the configuration, of imported documents and of requests,    *)
(* and the trees they stand in (src/env/tree-walk.ts,                      *)
(* src/env/template-resolver.ts).                                          *)
(*                                                                         *)
(* A text is a sequence of fragments: <<"lit", x>> stands for itself,      *)
(* <<"key", x>> for material of a secret, <<"tok", x>> for material of a   *)
(* token; <<"ref", path>> is ${path}, Open and Close the two ends of one   *)
(* that is written around another; <<"var", n>> is {{n}}; Space is white   *)
(* space.                                                                  *)
(***************************************************************************)
EXTENDS JsonValues

CONSTANT
  IndexOf        \* the array indices as written, to their numbers

Lit(x) == <<"lit", x>>
Ref(path) == <<"ref", path>>
Var(n) == <<"var", n>>
Space == <<"space", " ">>
Open  == <<"open", "${">>
Close == <<"close", "}">>
Text(x) == Str(<<Lit(x)>>)
Map(f) == Obj(f)
Empty == [k \in {} |-> Null]

Ok(v) == [ok |-> TRUE, value |-> v]
Fault(code) == [ok |-> FALSE, code |-> code]

\* text with every occurrence of pattern, from the left, replaced.
RECURSIVE ReplaceEvery(_, _, _)
ReplaceEvery(text, pattern, by) ==
  IF Len(pattern) > Len(text) THEN text
  ELSE IF SubSeq(text, 1, Len(pattern)) = pattern
       THEN by \o ReplaceEvery(SubSeq(text, Len(pattern) + 1, Len(text)), pattern, by)
       ELSE <<Head(text)>> \o ReplaceEvery(Tail(text), pattern, by)

RECURSIVE WalkStrings(_)
WalkStrings(v) ==
  CASE Kind(v) = "str" -> {v[2]}
    [] Kind(v) \in {"arr", "obj"} -> UNION {WalkStrings(v[2][k]) : k \in DOMAIN v[2]}
    [] OTHER -> {}

\* Variant: the strings of a list are left alone.
RECURSIVE MapObjects(_, _)
MapObjects(v, by) ==
  CASE Kind(v) = "str" -> by[v[2]]
    [] Kind(v) = "obj" -> <<"obj", [k \in DOMAIN v[2] |-> MapObjects(v[2][k], by)]>>
    [] OTHER -> v

\* Keys are left as they are.
RECURSIVE MapTree(_, _)
MapTree(v, by) ==
  CASE Kind(v) = "str" -> by[v[2]]
    [] Kind(v) \in {"arr", "obj"} -> <<Kind(v), [k \in DOMAIN v[2] |-> MapTree(v[2][k], by)]>>
    [] OTHER -> v

RefsIn(text, namespace) ==
  {Tail(text[i][2]) : i \in {j \in DOMAIN text :
     /\ text[j][1] = "ref" /\ Len(text[j][2]) > 1 /\ Head(text[j][2]) = namespace
     /\ (namespace = "secret" => Len(text[j][2]) = 2)}}
IsRef(fragment, namespace) == RefsIn(<<fragment>>, namespace) # {}

RECURSIVE LookupPath(_, _)
LookupPath(v, path) ==
  IF path = <<>> THEN Found(v)
  ELSE CASE Kind(v) = "obj" /\ Head(path) \in DOMAIN v[2] -> LookupPath(v[2][Head(path)], Tail(path))
         [] Kind(v) = "arr" /\ Head(path) = "length" -> LookupPath(Num(Len(v[2])), Tail(path))
         [] Kind(v) = "arr" /\ Head(path) \in DOMAIN IndexOf /\ IndexOf[Head(path)] < Len(v[2]) ->
              LookupPath(v[2][IndexOf[Head(path)] + 1], Tail(path))
         [] OTHER -> NotFound
=============================================================================
