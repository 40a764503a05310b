----------------------------- MODULE ImportNaming -----------------------------
(***************************************************************************)
(* The environment keys an import gives, and what makes an endpoint a      *)
(* valid one (src/importers/postman/variable-templating.ts and             *)
(* src/core/schema-validator.ts).                                          *)
(***************************************************************************)
EXTENDS SchemaConversion, ImportNames

CONSTANTS
  Sanitized,     \* the names that no ${env.*} can have, to what is left of them
  DottedName,    \* the names with dots, to their segments
  KeyTexts       \* the keys of objects that are not one literal, to their texts

EnvPath(name) ==
  <<"env">> \o (IF name \in DOMAIN DottedName THEN DottedName[name] ELSE <<name>>)
IsEnvName(name) == name \notin DOMAIN Sanitized /\ name # ""

TextOfKey(k) == (KeyTexts @@ (k :> <<Lit(k)>>))[k]

-----------------------------------------------------------------------------
(* The endpoint both importers make.                                       *)

InRange(n, lo, hi) == ~LessThan(n, Num(lo)) /\ ~LessThan(Num(hi), n)

\* What of the schema of an endpoint file an import could miss: ids are slugs, and
\* the rest has its type by the way it is built.
ValidEndpoint(endpoint) ==
  /\ endpoint.name # "" /\ endpoint.url # <<>>
  /\ IsWhole(endpoint.response.status) /\ InRange(endpoint.response.status, 100, 599)
=============================================================================
