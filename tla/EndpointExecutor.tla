-------------------------- MODULE EndpointExecutor --------------------------
(***************************************************************************)
(* One endpoint's turn in a pool slot: executeEndpoint under the watchdog  *)
(* (src/runner/execute/endpoint-executor.ts, retry-policy.ts,              *)
(* db-verify-runner.ts, http-client.ts, timeout-watchdog.ts).              *)
(*                                                                         *)
(* Its planned cases run one after the other.  An attempt prepares and     *)
(* authorizes a request, sends it, runs the db_verify queries, judges, and *)
(* for some kinds of case goes round a second time with a second request.  *)
(* A failed attempt is retried after a sleep; the cleanup query comes      *)
(* last.  Every action is the code between two awaits.  The watchdog's     *)
(* timer may fire in between; it aborts a signal that only send() is given.*)
(***************************************************************************)
EXTENDS Naturals, Sequences, FiniteSets, SequencesExt

CONSTANTS
  MaxCases,       \* bound on the cases planned for the endpoint
  Kinds,          \* "single": one request, judged by its response;
                  \* "db_state": by the database; "pair": two requests compared;
                  \* "put_db_state": two requests, the database after the second
  DbSteps,        \* the number of db_verify blocks of the endpoint
  GlobalRetries,  \* `retry' blocks of the config file, as partial functions
  OwnRetries,     \* `retry' blocks of the endpoint
  CliRetries,     \* <<>> or the --retry flag
  Cleanups        \* the endpoint's cleanup: "none", or what its refs name

ASSUME KindsAssumption ==
  Kinds \subseteq {"single", "db_state", "pair", "put_db_state"}
ASSUME CleanupsAssumption == Cleanups \subseteq {"none", "env", "request"}
\* The config schema takes a count of 0 to 5 and a strict that is a boolean.
IsRetryBlock(block) ==
  /\ DOMAIN block \subseteq {"count", "strict"}
  /\ "count" \in DOMAIN block => block["count"] \in Nat
  /\ "strict" \in DOMAIN block => block["strict"] \in BOOLEAN
ASSUME RetriesAssumption ==
  \A block \in GlobalRetries \union OwnRetries \union CliRetries : IsRetryBlock(block)
ASSUME BoundsAssumption == MaxCases \in Nat \ {0} /\ DbSteps \in Nat

VARIABLES
  plan,      \* the kinds of the planned cases, in order
  policy,    \* the resolved retry policy
  cleanup,   \* which cleanup the endpoint declares
  caseNo,    \* the case under way
  attempt,   \* its attempt number
  request,   \* 1, or 2 during the second request of the attempt
  phase,     \* what the executor awaits
  steps,     \* dbResult.steps of the latest response
  aborted,   \* signal.aborted
  late,      \* history: the attempt under way began after the abort
  log,       \* the attempts recorded so far
  anyFail,
  anyFlaky,
  cleaned,   \* the cleanup outcome: "undefined", "ok", "failed" or
             \* "unresolved"
  status     \* the EndpointResult's status, or "running"

config == <<plan, policy, cleanup>>
tally == <<log, anyFail, anyFlaky>>
place == <<caseNo, attempt, request, phase>>
vars == <<config, tally, place, steps, aborted, late, cleaned, status>>

TwoRequests == {"pair", "put_db_state"}

\* resolveRetryPolicy: the flag over the endpoint over the config file.
Over(f, g) == [x \in DOMAIN f \union DOMAIN g |->
                 IF x \in DOMAIN f THEN f[x] ELSE g[x]]
DefaultRetryPolicy == [count |-> 2, strict |-> FALSE]
ResolveRetryPolicy(global, own, cli) ==
  Over(cli, Over(own, Over(global, DefaultRetryPolicy)))

Init ==
  /\ plan \in UNION {[1 .. n -> Kinds] : n \in 1 .. MaxCases}
  /\ \E g \in GlobalRetries, o \in OwnRetries, c \in CliRetries :
       policy = ResolveRetryPolicy(g, o, c)
  /\ cleanup \in Cleanups
  /\ caseNo = 1 /\ attempt = 1 /\ request = 1 /\ phase = "begin"
  /\ steps = <<>>
  /\ aborted = FALSE /\ late = FALSE
  /\ log = <<>> /\ anyFail = FALSE /\ anyFlaky = FALSE
  /\ cleaned = "undefined" /\ status = "running"

Kind == plan[caseNo]

\* What executeWithRetry's finish() makes of a case whose last attempt ended so.
CaseStatus(pass) ==
  CASE ~pass -> "fail"
    [] pass /\ attempt = 1 -> "pass"
    [] pass /\ attempt > 1 /\ policy.strict -> "fail"
    [] OTHER -> "flaky"

\* Variant: a retry short.
SpentOneShort == attempt >= policy.count

\* The policy allows no further attempt.
Spent == attempt > policy.count

\* An attempt returns its record: stop on a pass, else retry while the policy
\* allows, else go on to the next case.
Record(pass) ==
  /\ log' = Append(log, [caseNo |-> caseNo, attempt |-> attempt,
                         pass |-> pass, late |-> late])
  /\ request' = 1
  /\ steps' = <<>>
  /\ IF pass \/ Spent
       THEN /\ anyFail' = (anyFail \/ CaseStatus(pass) = "fail")
            /\ anyFlaky' = (anyFlaky \/ CaseStatus(pass) = "flaky")
            /\ caseNo' = caseNo + 1
            /\ attempt' = 1
            /\ phase' = IF caseNo = Len(plan) THEN "cleanup" ELSE "begin"
       ELSE /\ phase' = "sleep"
            /\ UNCHANGED <<anyFail, anyFlaky, caseNo, attempt>>
  /\ UNCHANGED <<config, aborted, late, cleaned, status>>

\* An attempt starts; `sleep' is the retry delay, which ignores the signal.
Begin ==
  /\ phase \in {"begin", "sleep"}
  /\ attempt' = IF phase = "sleep" THEN attempt + 1 ELSE attempt
  /\ phase' = "prepare"
  /\ late' = aborted
  /\ UNCHANGED <<config, tally, caseNo, request, steps, aborted, cleaned, status>>

\* buildBaseRequest, mutateRequest and applyAuthForCase succeed, or throw.
Prepared ==
  /\ phase = "prepare"
  /\ phase' = "send"
  /\ UNCHANGED <<config, tally, caseNo, attempt, request, steps, aborted, late,
                 cleaned, status>>

PrepareThrows == phase = "prepare" /\ Record(FALSE)

\* Variants: the signal is not given to fetch; the earlier queries still count.
RespondedAnyway ==
  /\ phase = "send"
  /\ phase' = "judge"
  /\ steps' = <<>>
  /\ UNCHANGED <<config, tally, caseNo, attempt, request, aborted, late,
                 cleaned, status>>

RespondedKeepsSteps ==
  /\ phase = "send"
  /\ ~aborted
  /\ phase' = "judge"
  /\ UNCHANGED <<config, tally, caseNo, attempt, request, steps, aborted, late,
                 cleaned, status>>

\* send(): a response, whose body has been read.  An aborted signal makes both
\* fetch and the body read reject.
Responded ==
  /\ phase = "send"
  /\ ~aborted
  /\ phase' = "judge"
  /\ steps' = <<>>
  /\ UNCHANGED <<config, tally, caseNo, attempt, request, aborted, late,
                 cleaned, status>>

SendThrows == phase = "send" /\ Record(FALSE)

\* The queries due after this response: every db_verify block after a first
\* request, and after the second of put_idempotency comparing db_state.
Due == IF request = 1 \/ Kind = "put_db_state" THEN DbSteps ELSE 0
QueriesLeft == phase = "judge" /\ Len(steps) < Due

\* runDbVerifications: one query after the other; a mismatch, a bad reference
\* or a failed query is recorded and the rest still run.
Verified ==
  /\ QueriesLeft
  /\ \E ok \in BOOLEAN :
       steps' = Append(steps, [ok |-> ok, request |-> request])
  /\ UNCHANGED <<config, tally, place, aborted, late, cleaned, status>>

\* acquire() sits outside runOne's try: a refused connection ends the attempt.
VerifyThrows == QueriesLeft /\ Record(FALSE)

DbVerifyOk == \A i \in DOMAIN steps : steps[i].ok

\* May the response in hand pass?  (computeVerdict for the first; the
\* two-request verdicts for the second.)
MayPass ==
  Kind = "db_state" \/ (Kind = "put_db_state" /\ request = 2) => DbVerifyOk
MayFail == Kind = "db_state" => ~DbVerifyOk

\* The attempt is decided by this response.
Judge ==
  /\ phase = "judge" /\ ~QueriesLeft
  /\ \/ /\ MayPass
        /\ request = 2 \/ Kind \notin TwoRequests
        /\ Record(TRUE)
     \/ MayFail /\ Record(FALSE)

\* The first response passes its gate: prepare the second request.
GoRound ==
  /\ phase = "judge" /\ ~QueriesLeft
  /\ request = 1 /\ Kind \in TwoRequests
  /\ request' = 2
  /\ phase' = "prepare"
  /\ UNCHANGED <<config, tally, caseNo, attempt, steps, aborted, late, cleaned,
                 status>>

\* executeEndpoint returns, and withEndpointTimeout clears its timer.
Return ==
  /\ status' = IF anyFail THEN "fail" ELSE IF anyFlaky THEN "flaky" ELSE "pass"
  /\ phase' = "done"
  /\ UNCHANGED <<config, tally, caseNo, attempt, request, steps, aborted, late>>

\* runCleanup is called without request and response bodies, so only refs to
\* the environment resolve; it never throws.
NoCleanup == phase = "cleanup" /\ cleanup = "none" /\ Return /\ UNCHANGED cleaned

CleanupUnresolved ==
  phase = "cleanup" /\ cleanup = "request" /\ Return /\ cleaned' = "unresolved"

CleanupQuery ==
  /\ phase = "cleanup" /\ cleanup = "env"
  /\ Return
  /\ cleaned' \in {"ok", "failed"}

\* Variant: the deadline is looked at between attempts only.
TimeoutBetween ==
  /\ phase \in {"begin", "sleep"} /\ ~aborted
  /\ aborted' = TRUE
  /\ UNCHANGED <<config, tally, place, steps, late, cleaned, status>>

\* The watchdog's timer.
Timeout ==
  /\ phase # "done" /\ ~aborted
  /\ aborted' = TRUE
  /\ UNCHANGED <<config, tally, place, steps, late, cleaned, status>>

Finished == phase = "done" /\ UNCHANGED vars

Authorizing == Prepared \/ PrepareThrows
Sending == Responded \/ SendThrows
Querying == Verified \/ VerifyThrows
Judging == Judge \/ GoRound
Cleaning == NoCleanup \/ CleanupUnresolved \/ CleanupQuery

Next ==
  Begin \/ Authorizing \/ Sending \/ Querying \/ Judging \/ Cleaning
        \/ Timeout \/ Finished

Spec == Init /\ [][Next]_vars

\* The engine runs every continuation; an aborted send settles.
EngineFair ==
  /\ WF_vars(Begin) /\ WF_vars(Judging) /\ WF_vars(aborted /\ Sending)
  /\ WF_vars(NoCleanup \/ CleanupUnresolved) /\ WF_vars(Timeout)

\* The databases and the token endpoint answer as well.
FairSpec ==
  Spec /\ EngineFair /\ WF_vars(Authorizing) /\ WF_vars(Querying)
       /\ WF_vars(Cleaning)

-----------------------------------------------------------------------------
Attempts == [caseNo : 1 .. MaxCases, attempt : Nat, pass : BOOLEAN, late : BOOLEAN]

TypeOK ==
  /\ plan \in Seq(Kinds) /\ Len(plan) \in 1 .. MaxCases
  /\ DOMAIN policy = {"count", "strict"} /\ policy.count \in Nat /\ policy.strict \in BOOLEAN
  /\ cleanup \in Cleanups
  /\ caseNo \in 1 .. Len(plan) + 1
  /\ attempt \in 1 .. policy.count + 1
  /\ request \in {1, 2}
  /\ phase \in {"begin", "sleep", "prepare", "send", "judge", "cleanup", "done"}
  /\ steps \in Seq([ok : BOOLEAN, request : {1, 2}])
  /\ aborted \in BOOLEAN /\ late \in BOOLEAN
  /\ anyFail \in BOOLEAN /\ anyFlaky \in BOOLEAN
  /\ log \in Seq(Attempts)
  /\ cleaned \in {"undefined", "ok", "failed", "unresolved"}
  /\ status \in {"running", "pass", "fail", "flaky"}

\* What happened to case c, read off the report: the attempts that name it.
Of(c) == {i \in DOMAIN log : log[i].caseNo = c}
Passed(c) == \E i \in Of(c) : log[i].pass
PassedFirst(c) == \E i \in Of(c) : log[i].pass /\ \A j \in Of(c) : i <= j

\* The status the endpoint reports is the one its attempts add up to, although
\* the code folds it case by case: a failed or (strict mode) retried case
\* fails the endpoint however the later cases fare, a flaky one is not masked
\* by a passing one.
StatusAddsUp ==
  status # "running" =>
    LET clean(c) == PassedFirst(c)
        good(c) == IF policy.strict THEN clean(c) ELSE Passed(c)
    IN  status = CASE \E c \in DOMAIN plan : ~good(c) -> "fail"
                   [] \A c \in DOMAIN plan : clean(c) -> "pass"
                   [] OTHER -> "flaky"

\* The report's attempts run in order: a run of attempts 1, 2, ... for each case in plan order: a
\* pass ends a case, a case is given up only when its retries are spent, and
\* an abort neither skips a case nor grants it more attempts.
AttemptsInOrder ==
  \A i \in DOMAIN log :
    LET a == log[i]
        next == [caseNo |-> a.caseNo + 1, attempt |-> 1]
        again == [caseNo |-> a.caseNo, attempt |-> a.attempt + 1]
        here == [caseNo |-> IF i = Len(log) THEN caseNo ELSE log[i + 1].caseNo,
                 attempt |-> IF i < Len(log) THEN log[i + 1].attempt
                             ELSE IF phase = "sleep" THEN attempt + 1 ELSE attempt]
    IN  here = IF a.pass \/ a.attempt = policy.count + 1 THEN next ELSE again

\* The report of an endpoint holds together: its attempts follow the plan and the
\* retry policy, and its status is what they add up to.
AttemptsAddUp == AttemptsInOrder /\ StatusAddsUp

\* After the timeout nothing gets through to the service: however many cases
\* and retries are left, an attempt that begins after the abort cannot pass.
NothingPassesAfterAbort == \A i \in DOMAIN log : log[i].late => ~log[i].pass

\* db_verify gates what it should: a case about the database passes only when
\* every query of the endpoint ran, after the last request of the attempt and
\* not an earlier one, and matched.
DbGate ==
  [][Len(log') > Len(log) /\ Last(log').pass
       /\ Kind \in {"db_state", "put_db_state"}
     => /\ Len(steps) = DbSteps /\ DbVerifyOk
        /\ \A i \in DOMAIN steps :
             steps[i].request = IF Kind = "put_db_state" THEN 2 ELSE 1]_vars

\* Verify-then-cleanup (db-verify-runner.ts:266-268): the cleanup comes after the
\* last attempt of the last case, and nothing is sent or queried after it.
CleanupIsLast ==
  cleaned # "undefined" =>
    /\ phase = "done"
    /\ \A c \in DOMAIN plan :
         Passed(c) \/ Cardinality(Of(c)) = policy.count + 1

\* What an attempt asks of the database comes in its order: the queries of a case
\* behind the request they verify and before its verdict, the cleanup behind all.
DatabaseStepsInOrder == DbGate /\ []CleanupIsLast

\* The endpoint ends, provided databases and token endpoints answer.
EndpointEnds == <>(status # "running")
=============================================================================
