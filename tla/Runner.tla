------------------------------- MODULE Runner -------------------------------
(***************************************************************************)
(* The run of src/runner/runner.ts from the opened lifecycle on: the       *)
(* promise pool (ConcurrencyLimiter) dispatching endpoints, the rejection  *)
(* attributor, the partial sidecar, the lifecycle close and the final      *)
(* report.  One member of Tasks is one endpoint; what happens inside its   *)
(* turn is EndpointExecutor's subject and here one step, Executed.         *)
(*                                                                         *)
(* The process may die at any step.  `partial', `lines' and `report' are   *)
(* on disk, the rest is memory.                                            *)
(***************************************************************************)
EXTENDS Integers, Sequences, FiniteSets

CONSTANTS
  N,        \* the number of endpoints left by filters and shard
  Workers,  \* --workers
  Skips,    \* the values of skipBuiltInEmit considered
  Stuck,    \* the endpoints whose execution may never settle
  Late      \* the endpoints that may still reject when their result has been read

ASSUME NAssumption == N \in Nat
ASSUME WorkersAssumption == Workers \in Int
ASSUME SkipsAssumption == Skips \subseteq BOOLEAN

Tasks == 1 .. N
Slots == IF Workers < 1 THEN 1 ELSE Workers

VARIABLES
  active, queue, jobs, pc, submitted, started,  \* the pool's
  skip,        \* skipBuiltInEmit
  phase,       \* where runOnce stands
  results,     \* endpoints[idx]
  attributed,  \* attributedCrashes: the reason of each endpoint's last rejection
  listening,   \* the unhandledRejection listener is installed
  closed,      \* both registries have been closed
  partial,     \* the partial sidecar exists
  lines,       \* the endpoints whose line is in it
  report,      \* the full sidecar has been written
  timely       \* history: endpoints whose last rejection before their result was
               \* read had a reason

pool == <<active, queue, jobs, pc, submitted, started>>
sidecars == <<partial, lines, report>>
rejections == <<attributed, listening, timely>>
vars == <<pool, skip, phase, results, rejections, closed, sidecars>>

Limiter == INSTANCE ConcurrencyLimiter WITH MaxConcurrent <- Slots

\* "crash" is synthesizeCrashResult's failure.
Results == {"pass", "flaky", "fail", "crash"}
\* No rejection, one with a reason, or one with undefined for a reason.
Attributions == {"none", "given", "undefined"}
Phases == {"opening", "executing", "closing", "finalizing", "emitting",
           "resolved", "rejected", "crashed"}
Over == {"resolved", "rejected", "crashed"}

Init ==
  /\ Limiter!Init
  /\ skip \in Skips
  /\ phase = "opening"
  /\ results = [i \in Tasks |-> "none"]
  /\ attributed = [i \in Tasks |-> "none"] /\ timely = {}
  /\ listening = TRUE
  /\ closed = FALSE
  /\ partial = FALSE /\ lines = {} /\ report = FALSE

\* createPartialEmitter, unless the caller reports by itself.
Open ==
  /\ phase = "opening"
  /\ phase' = "executing"
  /\ partial' = ~skip
  /\ UNCHANGED <<pool, skip, results, rejections, closed, lines, report>>

\* mkdir or open fails, outside the try: the listener stays installed.
OpenFails ==
  /\ phase = "opening" /\ ~skip
  /\ phase' = "rejected"
  /\ UNCHANGED <<pool, skip, results, rejections, closed, sidecars>>

\* ordered.map(limit(...)) makes its calls in order and without a pause: no other
\* action of the run is enabled until all are submitted.
Submitted == Len(submitted) >= N
Submit ==
  /\ phase = "executing" /\ ~Submitted
  /\ LET i == Len(submitted) + 1
     IN  Limiter!AcquireFree(i) \/ Limiter!AcquireBlocked(i)
  /\ UNCHANGED <<skip, phase, results, rejections, closed, sidecars>>

\* The pool works on after runOnce has rejected.
Working == phase \in {"executing", "rejected"} /\ Submitted

Start ==
  /\ Working
  /\ Limiter!Resume
  /\ UNCHANGED <<skip, phase, results, rejections, closed, sidecars>>

Executing(i) == pc[i] = "running" /\ results[i] = "none"
Appending(i) == pc[i] = "running" /\ results[i] # "none"

\* Variant: attributed crashes are not looked up.
ExecutedBlindly(i) ==
  /\ Working /\ Executing(i)
  /\ \E r \in Results : results' = [results EXCEPT ![i] = r]
  /\ IF skip THEN Limiter!Settle(i) /\ pc'[i] = "returned"
             ELSE UNCHANGED pool
  /\ UNCHANGED <<skip, phase, rejections, closed, sidecars>>

\* dispatchEndpoint after its first await: the executor's own result (it never
\* rejects), unless a crash has been attributed to the endpoint meanwhile.  The
\* entry is compared with undefined: one that holds undefined is none.
Executed(i) ==
  /\ Working /\ Executing(i)
  /\ \E r \in Results :
       results' = [results EXCEPT ![i] = IF attributed[i] = "given" THEN "crash" ELSE r]
  /\ IF skip THEN Limiter!Settle(i) /\ pc'[i] = "returned"
             ELSE UNCHANGED pool
  /\ UNCHANGED <<skip, phase, rejections, closed, sidecars>>

\* partial.append has written and synced the line.
Appended(i) ==
  /\ Working /\ Appending(i)
  /\ Limiter!Settle(i) /\ pc'[i] = "returned"
  /\ lines' = lines \union {i}
  /\ UNCHANGED <<skip, phase, results, rejections, closed, partial, report>>

\* Variant: a failed append goes unnoticed.
AppendFailsSilently(i) ==
  /\ Working /\ Appending(i)
  /\ Limiter!Settle(i) /\ pc'[i] = "returned"
  /\ UNCHANGED <<skip, phase, results, rejections, closed, sidecars>>

\* The write or the sync failed.
AppendFails(i) ==
  /\ Working /\ Appending(i)
  /\ Limiter!Settle(i) /\ pc'[i] = "threw"
  /\ lines' \in {lines, lines \union {i}}
  /\ UNCHANGED <<skip, phase, results, rejections, closed, partial, report>>

\* Variants: the slot is freed only after a success; it is not freed.
FreeOnSuccess(i) ==
  /\ Working /\ pc[i] = "returned"
  /\ Limiter!Release(i)
  /\ UNCHANGED <<skip, phase, results, rejections, closed, sidecars>>

FreeNothing(i) ==
  /\ Working /\ pc[i] \in {"returned", "threw"}
  /\ pc' = [pc EXCEPT ![i] = Limiter!Outcome(i)]
  /\ UNCHANGED <<active, queue, jobs, submitted, started, skip, phase, results,
                 rejections, closed, sidecars>>

Free(i) ==
  /\ Working
  /\ Limiter!Release(i)
  /\ UNCHANGED <<skip, phase, results, rejections, closed, sidecars>>

\* A promise started by endpoint i, off its await chain, rejects unhandled;
\* that may be long after the endpoint itself is done.  A later one replaces an
\* earlier one.
Reject(i) ==
  /\ listening /\ phase = "executing"
  /\ pc[i] \in {"running", "returned", "threw", "resolved", "rejected"}
  /\ Executing(i) \/ i \in Late
  /\ \E reason \in Attributions \ {"none"} :
       /\ attributed' = [attributed EXCEPT ![i] = reason]
       /\ timely' = CASE ~Executing(i) -> timely
                      [] Executing(i) /\ reason = "given" -> timely \union {i}
                      [] Executing(i) /\ reason = "undefined" -> timely \ {i}
  /\ UNCHANGED <<pool, skip, phase, results, listening, closed, sidecars>>

\* Variant: the first endpoint to finish ends the run.
AnyDone ==
  /\ phase = "executing" /\ Submitted
  /\ \E i \in Tasks : pc[i] = "resolved"
  /\ listening' = FALSE
  /\ closed' = TRUE
  /\ phase' = "closing"
  /\ UNCHANGED <<pool, skip, results, attributed, timely, sidecars>>

\* Promise.all resolves: the listener goes, closeLifecycle closes the auth
\* strategies and starts disposing of the connections.
AllDone ==
  /\ phase = "executing" /\ Submitted
  /\ \A i \in Tasks : pc[i] = "resolved"
  /\ listening' = FALSE
  /\ closed' = TRUE
  /\ phase' = "closing"
  /\ UNCHANGED <<pool, skip, results, attributed, timely, sidecars>>

\* Variant: the lifecycle is closed in the finally block.
OneFailedCloses ==
  /\ phase = "executing" /\ Submitted
  /\ \E i \in Tasks : pc[i] = "rejected"
  /\ listening' = FALSE
  /\ closed' = TRUE
  /\ phase' = "rejected"
  /\ UNCHANGED <<pool, skip, results, attributed, timely, sidecars>>

\* Promise.all rejects: the finally block runs, and nothing else.
OneFailed ==
  /\ phase = "executing" /\ Submitted
  /\ \E i \in Tasks : pc[i] = "rejected"
  /\ listening' = FALSE
  /\ phase' = "rejected"
  /\ UNCHANGED <<pool, skip, results, attributed, timely, closed, sidecars>>

\* Every disconnect has settled.
Disposed ==
  /\ phase = "closing"
  /\ phase' = IF skip THEN "resolved" ELSE "finalizing"
  /\ UNCHANGED <<pool, skip, results, rejections, closed, sidecars>>

Finalize ==
  /\ phase = "finalizing"
  /\ phase' = "emitting"
  /\ partial' = FALSE /\ lines' = {}
  /\ UNCHANGED <<pool, skip, results, rejections, closed, report>>

FinalizeFails ==
  /\ phase = "finalizing"
  /\ phase' = "rejected"
  /\ UNCHANGED <<pool, skip, results, rejections, closed, sidecars>>

Emit ==
  /\ phase = "emitting"
  /\ phase' = "resolved"
  /\ report' = TRUE
  /\ UNCHANGED <<pool, skip, results, rejections, closed, partial, lines>>

EmitFails ==
  /\ phase = "emitting"
  /\ phase' = "rejected"
  /\ UNCHANGED <<pool, skip, results, rejections, closed, sidecars>>

\* Out of memory, a native crash, SIGKILL.
Crash ==
  /\ phase \notin {"resolved", "rejected", "crashed"}
  /\ phase' = "crashed"
  /\ UNCHANGED <<pool, skip, results, rejections, closed, sidecars>>

Finished ==
  /\ \/ phase \in {"resolved", "crashed"}
     \/ phase = "rejected" /\ Submitted
          /\ \A i \in Tasks : pc[i] \in {"resolved", "rejected"}
     \/ phase = "rejected" /\ ~Submitted
  /\ UNCHANGED vars

Opening == Open \/ OpenFails
AppendSettles(i) == Appended(i) \/ AppendFails(i)
Ending == AllDone \/ OneFailed \/ Disposed \/ Finalize \/ FinalizeFails
            \/ Emit \/ EmitFails

Next ==
  \/ Opening \/ Submit \/ Start
  \/ \E i \in Tasks : Executed(i) \/ AppendSettles(i) \/ Free(i) \/ Reject(i)
  \/ Ending \/ Crash \/ Finished

Spec == Init /\ [][Next]_vars

\* The engine runs its jobs, the file system answers, disconnects settle, and
\* an endpoint outside Stuck ends (EndpointExecutor's EndpointEnds).
FairSpec ==
  /\ Spec
  /\ WF_vars(Opening) /\ WF_vars(Submit) /\ WF_vars(Start) /\ WF_vars(Ending)
  /\ \A i \in Tasks : WF_vars(AppendSettles(i)) /\ WF_vars(Free(i))
  /\ \A i \in Tasks \ Stuck : WF_vars(Executed(i))
-----------------------------------------------------------------------------
TypeOK ==
  /\ Limiter!TypeOK
  /\ skip \in Skips
  /\ phase \in Phases
  /\ results \in [Tasks -> Results \union {"none"}]
  /\ attributed \in [Tasks -> Attributions] /\ timely \in SUBSET Tasks
  /\ listening \in BOOLEAN /\ closed \in BOOLEAN
  /\ partial \in BOOLEAN /\ lines \in SUBSET Tasks /\ report \in BOOLEAN

\* The pool in its surroundings still keeps the limiter's contract, crash,
\* rejection and append failures included.
LimiterSpec == Limiter!Spec

\* "Bounded by --workers=N" (runner.ts:10-11): at most that many endpoints are
\* under way, and one even for --workers 0.
WorkersRespected ==
  Cardinality({i \in Tasks : Executing(i) \/ Appending(i)})
    <= (IF Workers > 1 THEN Workers ELSE 1)

\* The registries are not closed under an endpoint that may still acquire a
\* connection or a token, not even when another endpoint makes the run fail.
NoUseAfterClose == closed => \A i \in Tasks : ~Executing(i) /\ pc[i] # "granted"

\* A run that gets to its report has a result for every planned endpoint: the
\* preallocated array has no hole left when it is summarized.
ReportComplete ==
  phase \in {"closing", "finalizing", "emitting", "resolved"} =>
    \A i \in Tasks : results[i] # "none"

\* A rejection that is unhandled while its endpoint executes turns up as that
\* endpoint's crash, whatever the executor says (rejection-attributor.ts:17-21),
\* unless the last such rejection has undefined for a reason.
TimelyRejectionsReported ==
  \A i \in timely : results[i] \in {"none", "crash"}

\* While the partial sidecar exists it holds every endpoint whose turn ended
\* well, so a crash at that moment loses only what was under way.
PartialHoldsFinished ==
  partial => \A i \in Tasks : pc[i] = "resolved" => i \in lines

\* The inductive strengthening: where each endpoint stands in the pool tells
\* whether it has a result and a line, and the run ends only behind all of them.
IInv ==
  /\ TypeOK
  /\ Limiter!IInv
  /\ TimelyRejectionsReported
  /\ \A i \in timely : results[i] = "none" => attributed[i] = "given"
  /\ partial => ~skip
  /\ \A i \in Tasks : pc[i] \in {"returned", "threw", "resolved", "rejected"} =>
       results[i] # "none"
  /\ \A i \in Tasks : pc[i] \in {"returned", "resolved"} => (partial => i \in lines)
  /\ phase = "opening" => \A i \in Tasks : pc[i] = "new"
  /\ closed \/ phase \in {"closing", "finalizing", "emitting", "resolved"} =>
       \A i \in Tasks : pc[i] = "resolved"

\* If fewer endpoints are stuck than there are slots, each other endpoint gets
\* its turn and its result: "one stuck endpoint cannot wedge the pool"
\* (runner.ts:14-15).
OthersGetResults ==
  Cardinality(Stuck) < Slots =>
    phase = "executing" ~>
      \/ \A i \in Tasks \ Stuck : results[i] # "none"
      \/ phase = "crashed"
=============================================================================
