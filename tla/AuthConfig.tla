------------------------------ MODULE AuthConfig ------------------------------
(***************************************************************************)
(* Which auth_strategies entries are accepted (src/auth/config-parser.ts,  *)
(* config-parser-helpers.ts, jsonpath-subset.ts), and what an accepted one *)
(* puts on a request, plain or mangled (src/auth/strategies, markers).     *)
(*                                                                         *)
(* Texts are those of module Texts.                                        *)
(***************************************************************************)
EXTENDS Texts

CONSTANTS
  LowerCase,     \* header names to their lower-case spelling
  MaxPath        \* longest path expression (MAX_JSONPATH_EXPRESSION_LENGTH)

TokenRef == Ref(<<"token">>)

-----------------------------------------------------------------------------
(* The fields of an entry.                                                 *)

\* A field that is null counts as absent.
CoerceOptional(raw, field) ==
  IF field \in DOMAIN raw[2] /\ raw[2][field] # Null THEN raw[2][field] ELSE Undefined
Given(raw, field) == CoerceOptional(raw, field) # Undefined

NonEmptyString(v) ==
  Kind(v) = "str" /\ v[2] # <<>> /\ Head(v[2]) # Space /\ Last(v[2]) # Space

Demand(holds) == IF holds THEN "ok" ELSE "AUTH_CONFIG_INVALID"

\* Only ${token} may stand in a header_value.
ForeignPlaceholder(text) ==
  \E i \in DOMAIN text : text[i] = Open \/ (text[i][1] = "ref" /\ text[i] # TokenRef)

ResolveHeader(raw) ==
  IF Given(raw, "header") THEN CoerceOptional(raw, "header") ELSE Text("Authorization")
ResolveHeaderValue(raw) ==
  IF Given(raw, "header_value") THEN CoerceOptional(raw, "header_value")
  ELSE Str(<<Lit("Bearer"), Space, TokenRef>>)

HeaderCheck(raw) == Demand(NonEmptyString(ResolveHeader(raw)))
HeaderValueCheck(raw) ==
  LET v == ResolveHeaderValue(raw)
  IN  IF ~NonEmptyString(v) THEN "AUTH_CONFIG_INVALID"
      ELSE IF ForeignPlaceholder(v[2]) THEN "AUTH_HEADER_TEMPLATE_INVALID" ELSE "ok"

ValidateCredentials(raw) ==
  LET creds == CoerceOptional(raw, "credentials")
  IN  Demand(/\ Kind(creds) = "obj"
             /\ DOMAIN creds[2] = {"username", "password"}
             /\ \A k \in DOMAIN creds[2] : NonEmptyString(creds[2][k]))

ValidateRefreshBuffer(raw) ==
  LET v == CoerceOptional(raw, "refresh_buffer_seconds")
  IN  Demand(v # Undefined => Kind(v) = "num" /\ ~LessThan(v, Num(0)))

-----------------------------------------------------------------------------
(* $ followed by .name and [index] segments.                               *)

IsIdentifier(f) == f[1] = "lit" /\ f[2] \notin {".", "[", "]", "*", "-"}

RECURSIVE SegmentsFrom(_)
SegmentsFrom(e) ==
  LET key   == Len(e) >= 2 /\ e[1] = Lit(".") /\ IsIdentifier(e[2])
      index == Len(e) >= 3 /\ e[1] = Lit("[") /\ e[3] = Lit("]")
                 /\ e[2][1] = "lit" /\ e[2][2] \in DOMAIN IndexOf
      rest  == SegmentsFrom(SubSeq(e, IF key THEN 3 ELSE 4, Len(e)))
      first == IF key THEN <<"key", e[2][2]>> ELSE <<"index", IndexOf[e[2][2]]>>
  IN  IF e = <<>> THEN Ok(<<>>)
      ELSE IF (key \/ index) /\ rest.ok THEN Ok(<<first>> \o rest.value)
      ELSE Fault("AUTH_CONFIG_INVALID")

ParseJsonPath(text) ==
  IF text = <<>> \/ Len(text) > MaxPath \/ Head(text) # Lit("$")
  THEN Fault("AUTH_CONFIG_INVALID") ELSE SegmentsFrom(Tail(text))

\* A required path that is no string passes the test for emptiness; parseJsonPath
\* then calls startsWith on it, which throws.
RequiredPathCheck(raw) ==
  LET v == CoerceOptional(raw, "token_path")
  IN  CASE v = Undefined -> "AUTH_CONFIG_INVALID"
        [] v # Undefined /\ Kind(v) # "str" -> "TypeError"
        [] Kind(v) = "str" -> Demand(ParseJsonPath(v[2]).ok)
OptionalPathCheck(raw) ==
  LET v == CoerceOptional(raw, "expires_in_path")
  IN  Demand(v # Undefined => Kind(v) = "str" /\ ParseJsonPath(v[2]).ok)

-----------------------------------------------------------------------------
(* The two kinds of strategy: the first check that fails decides.          *)

FirstFault(checks) ==
  LET bad == {i \in DOMAIN checks : checks[i] # "ok"}
  IN  IF bad = {} THEN "ok" ELSE checks[CHOOSE i \in bad : \A j \in bad : i <= j]

RejectD15Fields(raw) == Demand(~Given(raw, "grant_type") /\ ~Given(raw, "pkce"))
RejectStaticForeignKeys(raw) ==
  Demand(\A k \in {"url", "credentials", "token_path", "expires_in_path",
                   "refresh_buffer_seconds"} : ~Given(raw, k))

ValidateStaticToken(raw) ==
  LET fault == FirstFault(<<RejectD15Fields(raw), RejectStaticForeignKeys(raw),
                            Demand(NonEmptyString(CoerceOptional(raw, "token"))),
                            HeaderCheck(raw), HeaderValueCheck(raw)>>)
  IN  IF fault # "ok" THEN Fault(fault)
      ELSE Ok([kind |-> "static_token", token |-> raw[2]["token"][2],
               header |-> Head(ResolveHeader(raw)[2])[2],
               headerValue |-> ResolveHeaderValue(raw)[2]])

ValidateTokenEndpoint(raw) ==
  LET fault == FirstFault(<<RejectD15Fields(raw), Demand(~Given(raw, "token")),
                            Demand(NonEmptyString(CoerceOptional(raw, "url"))),
                            ValidateCredentials(raw), RequiredPathCheck(raw),
                            OptionalPathCheck(raw), ValidateRefreshBuffer(raw),
                            HeaderCheck(raw), HeaderValueCheck(raw)>>)
  IN  IF fault # "ok" THEN Fault(fault)
      ELSE Ok([kind |-> "token_endpoint",
               tokenPath |-> ParseJsonPath(raw[2]["token_path"][2]).value,
               header |-> Head(ResolveHeader(raw)[2])[2],
               headerValue |-> ResolveHeaderValue(raw)[2]])

ParseAuthStrategyConfig(raw) ==
  LET type == CoerceOptional(raw, "type")
  IN  CASE type = Text("static_token") -> ValidateStaticToken(raw)
        [] type = Text("token_endpoint") -> ValidateTokenEndpoint(raw)
        [] OTHER -> Fault("AUTH_CONFIG_INVALID")

-----------------------------------------------------------------------------
(* What a strategy does to the headers of a request.                       *)

\* The header is set in the configured spelling; any other spelling of it goes.
AttachAuthHeader(headers, name, template, token) ==
  LET kept == {h \in DOMAIN headers : LowerCase[h] # LowerCase[name]}
  IN  [h \in kept \union {name} |->
         IF h = name THEN ReplaceEvery(template, <<TokenRef>>, token) ELSE headers[h]]

Garbage == <<Lit("garbage_token_value")>>

\* Variant: the first occurrence of each value only.
ReplaceFirstWithGarbage(text, secrets) ==
  LET At(acc, s) == {i \in 1 .. (Len(acc) - Len(s) + 1) : SubSeq(acc, i, i + Len(s) - 1) = s}
      Step(acc, s) ==
        IF At(acc, s) = {} THEN acc
        ELSE LET i == CHOOSE k \in At(acc, s) : \A l \in At(acc, s) : k <= l
             IN  SubSeq(acc, 1, i - 1) \o Garbage \o SubSeq(acc, i + Len(s), Len(acc))
  IN  FoldLeft(Step, text, secrets)

\* Registered values in the order of their registration.
ReplaceSecretsWithGarbage(text, secrets) ==
  LET Step(acc, secret) == ReplaceEvery(acc, secret, Garbage)
  IN  FoldLeft(Step, text, secrets)

\* The executor hands over the entry as the environment has it, where the
\* template is called header_value: headerValue is there only if someone wrote
\* a key of that name.
GarbageTokenMangle(headers, raw, secrets) ==
  IF Given(raw, "header") /\ Given(raw, "headerValue")
  THEN AttachAuthHeader(headers, Head(raw[2]["header"][2])[2], raw[2]["headerValue"][2], Garbage)
  ELSE [h \in DOMAIN headers |-> ReplaceSecretsWithGarbage(headers[h], secrets)]
=============================================================================
