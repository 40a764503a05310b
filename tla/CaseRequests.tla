---------------------------- MODULE CaseRequests ----------------------------
(***************************************************************************)
(* The requests of src/runner/execute/case-runners.ts, body-mutators.ts    *)
(* and src/auth/markers: what a case of the catalog puts on the wire.      *)
(*                                                                         *)
(* A JSON body is the function of its paths to its values.  A path of the  *)
(* catalog is the same sequence of keys; the "tags[]" that splitting       *)
(* "tags[].key" at its dots yields is a key of no body, and no more is     *)
(* "[]".  A string value is its length n and its content s.                *)
(***************************************************************************)
EXTENDS TestCatalog

Value(type, n, s) == [type |-> type, n |-> n, s |-> s]
Number(n) == Value("number", n, "number")
Repeated(n) == Value("string", n, "a...")     \* "a".repeat(n)
Word(s) == Value("string", 5, s)

NoBody == [kind |-> "none", at |-> << >>]
Malformed == [kind |-> "text", at |-> << >>]
Json(at) == [kind |-> "json", at |-> at]

IsContainer(v) == v.type \in {"object", "array"}

\* The walk to the parent of path does not give up.
Reaches(body, path) ==
  /\ body.kind = "json"
  /\ \A i \in 0 .. Len(path) - 1 :
       LET above == SubSeq(path, 1, i)
       IN  above \in DOMAIN body.at /\ IsContainer(body.at[above])

Outside(body, path) == { p \in DOMAIN body.at : ~IsPrefix(path, p) }

\* Variant: the parent goes with the field.
OmitParent(body, path) ==
  IF Reaches(body, path) /\ Len(path) > 1
  THEN Json(Restrict(body.at, Outside(body, Front(path)))) ELSE body

OmitAtPath(body, path) ==
  IF Reaches(body, path) THEN Json(Restrict(body.at, Outside(body, path))) ELSE body

UnsafeSegments == {"__proto__", "constructor", "prototype"}

SubstituteAtPath(body, path, value) ==
  IF Reaches(body, path) /\ ToSet(path) \intersect UnsafeSegments = {}
  THEN Json([p \in Outside(body, path) \union {path} |->
              IF p = path THEN value ELSE body.at[p]])
  ELSE body

WrongType(type) == IF type = "string" THEN "number" ELSE "string"

WrongTypeValue(wrong) ==
  IF wrong = "number" THEN Number(-1) ELSE Value("string", 21, "wrong-type-substitute")

\* The value a boundary case carries.
BoundaryValue(bound) ==
  CASE bound[1] \in {"minimum", "maximum"}     -> Number(bound[3])
    [] bound[1] \in {"minLength", "maxLength"} -> Repeated(bound[3])
    [] bound[1] = "enum"                       -> Word(bound[3])
-----------------------------------------------------------------------------
NoTag == [base |-> NoBody, posts |-> 0, empty |-> TRUE]   \* no entity tag

BuildBaseRequest(e) ==
  [ method |-> e.method, body |-> e.example, probe |-> "none", preflight |-> {},
    credential |-> IF e.static_header THEN "static" ELSE "none",
    if_none_match |-> NoTag ]

FieldType(e, c) == FieldsOf(e)[c.ordinal + 1].type

ApplyPaginationProbe(request, probe) == [request EXCEPT !.probe = probe]

\* All allowed methods are asked for at once.
ApplyCorsPreflightHeaders(e, request) ==
  [request EXCEPT !.preflight = e.cors.lists.methods]

MutateRequest(e, base, c) ==
  CASE c.kind = "method_not_allowed" -> [base EXCEPT !.method = SubstituteMethod(e)]
    [] c.kind = "malformed_json_returns_400" -> [base EXCEPT !.body = Malformed]
    [] c.kind = "required_field_omission_returns_400" ->
         [base EXCEPT !.body = OmitAtPath(@, c.what)]
    [] c.kind = "type_violation_returns_400" ->
         [base EXCEPT !.body =
            SubstituteAtPath(@, c.what, WrongTypeValue(WrongType(FieldType(e, c))))]
    [] c.kind = "boundary_battery" ->
         [base EXCEPT !.body = SubstituteAtPath(@, c.what, BoundaryValue(c.bound))]
    [] c.kind = "pagination_boundary" -> ApplyPaginationProbe(base, c.what[1])
    [] c.kind = "cors_preflight" -> ApplyCorsPreflightHeaders(e, base)
    [] OTHER -> base

AuthModeFor(e, c) ==
  IF c.kind = "no_auth_returns_401" THEN "skip"
  ELSE IF c.kind = "garbage_token_returns_401" THEN "garbage"
  ELSE IF e.auth_strategy = "none" THEN "none" ELSE "apply"

\* The strategy's header replaces one of the same name.
AttachAuthHeader(request) == [request EXCEPT !.credential = "token"]

\* Every token in use is registered; what is registered becomes garbage.
GarbageTokenMangle(request) == [AttachAuthHeader(request) EXCEPT !.credential = "garbage"]

ApplyAuthForCase(e, c, request) ==
  CASE AuthModeFor(e, c) \in {"none", "skip"} -> request
    [] AuthModeFor(e, c) = "apply"   -> AttachAuthHeader(request)
    [] AuthModeFor(e, c) = "garbage" -> GarbageTokenMangle(request)

MutatedRequest(e, c) == MutateRequest(e, BuildBaseRequest(e), c)
FirstRequestOf(e, c) == ApplyAuthForCase(e, c, MutatedRequest(e, c))

\* The GET of the pair: its URL, no body, and the headers and auth of the HEAD.
PairedGet(request) == [request EXCEPT !.method = "GET", !.body = NoBody]

Conditional(request, first) == [request EXCEPT !.if_none_match = first.headers["etag"]]

SecondRequestOf(e, c, first) ==
  LET mutated == MutatedRequest(e, c)
      again == CASE c.kind = "head_get_parity"     -> PairedGet(mutated)
                 [] c.kind = "conditional_get_304" -> Conditional(mutated, first)
                 [] OTHER                          -> mutated
  IN  ApplyAuthForCase(e, c, again)
=============================================================================
