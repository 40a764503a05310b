---------------------------- MODULE CaseVerdicts ----------------------------
(***************************************************************************)
(* The verdicts of src/runner/execute/case-runners.ts and verdicts.ts:     *)
(* TRUE is a pass.  A response has a status, headers (a function from      *)
(* names in lower case), a body, whether that body fits the response       *)
(* schema of its endpoint, and whether it came within the SLA.             *)
(***************************************************************************)
EXTENDS CaseRequests

Is2xx(status) == status \in 200 .. 299

StatusEqKinds == {"status_code_conformance", "no_auth_returns_401",
  "garbage_token_returns_401", "method_not_allowed", "malformed_json_returns_400",
  "required_field_omission_returns_400", "type_violation_returns_400",
  "boundary_battery", "pagination_boundary"}

ExpectedStatus(e, c) ==
  CASE c.kind = "status_code_conformance" -> e.expected_status
    [] c.kind \in {"no_auth_returns_401", "garbage_token_returns_401"} -> 401
    [] c.kind = "method_not_allowed" -> 405
    [] c.kind = "boundary_battery" /\ c.bound[2] = "inside" -> e.expected_status
    [] c.kind = "pagination_boundary" /\ c.what[1] = "size_max" -> e.expected_status
    [] OTHER -> 400

\* A declared variant of the response changes the reason, never the verdict.
StatusEqDispatch(actual, expected) == actual = expected

ContentTypeOk(response) == "content-type" \in DOMAIN response.headers

\* Origin and method and header lists as sets; a missing list is empty.
CorsPreflightVerdict(e, response) ==
  LET lists == e.cors.lists
      sent == lists.origins[1]
  IN  /\ response.status \in {200, 204}
      /\ "access-control-allow-origin" \in DOMAIN response.headers
      /\ response.headers["access-control-allow-origin"]
           \in IF lists.origins = <<"*">> THEN {"*", sent} ELSE {sent}
      /\ lists.methods \subseteq response.methods
      /\ lists.headers # {} => lists.headers \subseteq response.allowed

TwoRequestKinds == {"get_idempotency", "delete_idempotency", "put_idempotency",
                    "head_get_parity", "conditional_get_304"}

\* The verdict of the first response; what the database and the assertions
\* decide is EndpointExecutor's.
ComputeVerdict(e, c, response) ==
  IF c.kind \in StatusEqKinds
  THEN StatusEqDispatch(response.status, ExpectedStatus(e, c))
  ELSE CASE c.kind = "content_type_alignment"     -> ContentTypeOk(response)
         [] c.kind = "response_time_sla"          -> response.in_time
         [] c.kind = "response_schema_validation" -> response.fits
         [] c.kind = "cors_preflight"             -> CorsPreflightVerdict(e, response)
         [] c.kind \in TwoRequestKinds \union {"auth_happy_path"} -> Is2xx(response.status)
-----------------------------------------------------------------------------
\* A second request follows; without an ETag there is nothing to send.
NeedsSecond(e, c, first) ==
  /\ c.kind \in TwoRequestKinds
  /\ ComputeVerdict(e, c, first)
  /\ c.kind = "conditional_get_304" => "etag" \in DOMAIN first.headers

SecondDeleteStatus(e) ==
  IF e.expected_status \in {204, 404} THEN e.expected_status ELSE 404

GetIdempotencyVerdict(first, second) ==
  Is2xx(second.status) /\ first.body = second.body

DeleteIdempotencyVerdict(second, expected) == second.status = expected

\* The comparison of bodies; that of the database is EndpointExecutor's.
PutIdempotencyVerdict(first, second) ==
  Is2xx(second.status) /\ first.body = second.body

\* Variant: the dates of the two responses are compared.
IgnoredButDate == {"set-cookie", "content-length", "transfer-encoding", "connection",
                   "keep-alive", "x-request-id", "x-trace-id", "etag"}

IgnoredParityHeaders == {"date", "set-cookie", "content-length", "transfer-encoding",
                         "connection", "keep-alive", "x-request-id", "x-trace-id", "etag"}

Compared(headers) == Restrict(headers, DOMAIN headers \ IgnoredParityHeaders)

HeadGetParityVerdict(head, get) ==
  /\ head.status = get.status
  /\ head.body.empty
  /\ Compared(head.headers) = Compared(get.headers)

\* Variant: the entity tag of the second response is not compared.
ConditionalGetAnyTag(first, second) ==
  /\ second.status = 304
  /\ "etag" \in DOMAIN second.headers
  /\ second.body.empty

ConditionalGet304Verdict(first, second) ==
  /\ second.status = 304
  /\ "etag" \in DOMAIN second.headers
  /\ second.headers["etag"] = first.headers["etag"]
  /\ second.body.empty

SecondVerdict(e, c, first, second) ==
  CASE c.kind = "get_idempotency"     -> GetIdempotencyVerdict(first, second)
    [] c.kind = "delete_idempotency"  -> DeleteIdempotencyVerdict(second, SecondDeleteStatus(e))
    [] c.kind = "put_idempotency"     -> PutIdempotencyVerdict(first, second)
    [] c.kind = "head_get_parity"     -> HeadGetParityVerdict(first, second)
    [] c.kind = "conditional_get_304" -> ConditionalGet304Verdict(first, second)

\* The verdict of a case that sends no second request.
SingleVerdict(e, c, first) ==
  ComputeVerdict(e, c, first) /\ c.kind # "conditional_get_304"
=============================================================================
