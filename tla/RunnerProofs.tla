---------------------------- MODULE RunnerProofs ----------------------------
(***************************************************************************)
(* What holds of every run, whatever the number of endpoints and workers.  *)
(* The pool inside the run is a ConcurrencyLimiter, so the facts proved of *)
(* the limiter are facts about the run.                                    *)
(***************************************************************************)
EXTENDS Runner, FiniteSetTheorems, TLAPS

LP == INSTANCE ConcurrencyLimiterProofs WITH MaxConcurrent <- Slots

LEMMA LimiterAssumptions ==
  /\ Slots \in Nat \ {0} /\ IsFiniteSet(Tasks)
  /\ LP!MaxConcurrentAssumption /\ LP!TasksAssumption
<1>1. Slots \in Nat \ {0} /\ IsFiniteSet(Tasks)
  BY NAssumption, WorkersAssumption, FS_Interval DEF Slots, Tasks
<1>2. LP!IsFiniteSet(Tasks)
  BY <1>1 DEF IsFiniteSet, LP!IsFiniteSet
<1> QED
  BY <1>1, <1>2 DEF LP!MaxConcurrentAssumption, LP!TasksAssumption

\* The two instances of the limiter, with and without its proofs, are one.
LEMMA SameLimiter ==
  /\ Limiter!Init <=> LP!Init
  /\ [Limiter!Next]_pool <=> [LP!Next]_(LP!vars)
  /\ Limiter!IInv <=> LP!IInv
<1> USE DEF pool, Limiter!vars, LP!vars
<1>1. Limiter!Init <=> LP!Init
  BY DEF Limiter!Init, LP!Init
<1>2. ASSUME NEW t
      PROVE  /\ Limiter!AcquireFree(t) <=> LP!AcquireFree(t)
             /\ Limiter!AcquireBlocked(t) <=> LP!AcquireBlocked(t)
             /\ Limiter!Settle(t) <=> LP!Settle(t)
             /\ Limiter!Release(t) <=> LP!Release(t)
  BY DEF Limiter!AcquireFree, LP!AcquireFree, Limiter!AcquireBlocked,
         LP!AcquireBlocked, Limiter!Settle, LP!Settle, Limiter!Release,
         LP!Release, Limiter!ReleaseIdle, LP!ReleaseIdle, Limiter!ReleaseNext,
         LP!ReleaseNext, Limiter!Outcome, LP!Outcome
<1>3. /\ Limiter!Resume <=> LP!Resume
      /\ Limiter!Finished <=> LP!Finished
  BY DEF Limiter!Resume, LP!Resume, Limiter!Finished, LP!Finished
<1>4. Limiter!Next <=> LP!Next
  BY <1>2, <1>3, Zenon DEF Limiter!Next, LP!Next
<1>5. Limiter!Cardinality(Limiter!Holders) = LP!Cardinality(LP!Holders)
  BY DEF Limiter!Cardinality, LP!Cardinality, Limiter!Holders, LP!Holders,
         Limiter!Holding, LP!Holding
<1>6. ASSUME NEW q, NEW state
      PROVE  Limiter!InLine(q, state) <=> LP!InLine(q, state)
  BY DEF Limiter!InLine, LP!InLine, Limiter!IsInjective, LP!IsInjective
<1>7. /\ Limiter!TypeOK <=> LP!TypeOK
      /\ Limiter!Line = LP!Line
  BY DEF Limiter!TypeOK, LP!TypeOK, Limiter!States, LP!States, Limiter!Line,
         LP!Line
<1>8. Limiter!IInv <=> LP!IInv
  BY <1>5, <1>6, <1>7, Zenon DEF Limiter!IInv, LP!IInv, Limiter!SlotsAccounted,
         LP!SlotsAccounted
<1> QED
  BY <1>1, <1>4, <1>8

\* Each step of the run is a step of the pool or leaves it alone.
LEMMA PoolStep == TypeOK /\ [Next]_vars => [Limiter!Next]_pool
<1> SUFFICES ASSUME TypeOK, Next PROVE [Limiter!Next]_pool
  BY DEF vars, pool
<1>1. CASE Submit
  <2>1. Len(submitted) + 1 \in Tasks
    BY <1>1, NAssumption DEF Submit, Submitted, Tasks, TypeOK, Limiter!TypeOK
  <2> QED
    BY <1>1, <2>1 DEF Submit, Limiter!Next
<1>2. CASE Start
  BY <1>2 DEF Start, Limiter!Next
<1>3. ASSUME NEW i \in Tasks, Executed(i) \/ AppendSettles(i)
      PROVE  [Limiter!Next]_pool
  BY <1>3 DEF Executed, AppendSettles, Appended, AppendFails, Limiter!Next
<1>4. ASSUME NEW i \in Tasks, Free(i) PROVE [Limiter!Next]_pool
  BY <1>4 DEF Free, Limiter!Next
<1>5. ASSUME NEW i \in Tasks, Reject(i) PROVE [Limiter!Next]_pool
  BY <1>5 DEF Reject
<1>6. CASE Opening \/ Ending \/ Crash \/ Finished
  BY <1>6 DEF Opening, Open, OpenFails, Ending, AllDone, OneFailed, Disposed,
              Finalize, FinalizeFails, Emit, EmitFails, Crash, Finished, vars,
              pool
<1> QED
  BY <1>1, <1>2, <1>3, <1>4, <1>5, <1>6 DEF Next

LEMMA PoolInv == IInv /\ [Next]_vars => Limiter!IInv'
<1>1. (Limiter!IInv <=> LP!IInv)'
  BY SameLimiter, PTL
<1> QED
  BY <1>1, PoolStep, SameLimiter, LimiterAssumptions, LP!IInvStep DEF IInv

\* At the head of the job queue is a call that has been granted its slot.
LEMMA HeadGranted ==
  IInv /\ Limiter!Resume => Head(jobs) \in Tasks /\ pc[Head(jobs)] = "granted"
<1> SUFFICES ASSUME IInv, Limiter!Resume
             PROVE  Head(jobs) \in Tasks /\ pc[Head(jobs)] = "granted"
  OBVIOUS
<1>1. jobs \in Seq(Tasks) /\ jobs # <<>>
  BY DEF IInv, TypeOK, Limiter!TypeOK, Limiter!Resume
<1>2. Head(jobs) = jobs[1] /\ 1 \in 1 .. Len(jobs) /\ Head(jobs) \in Tasks
  BY <1>1
<1> QED
  BY <1>2 DEF IInv, Limiter!IInv, Limiter!InLine

LEMMA InitIInv == Init => IInv
<1> SUFFICES ASSUME Init PROVE IInv
  OBVIOUS
<1>1. Limiter!IInv
  BY SameLimiter, LimiterAssumptions, LP!InitIInv DEF Init
<1> QED
  BY <1>1 DEF Init, IInv, TypeOK, Phases, Attributions, Limiter!IInv, TimelyRejectionsReported,
              Limiter!Init

LEMMA IInvStep == IInv /\ [Next]_vars => IInv'
<1> SUFFICES ASSUME IInv, [Next]_vars PROVE IInv'
  OBVIOUS
<1>0. Limiter!IInv' /\ Limiter!TypeOK'
  BY PoolInv DEF Limiter!IInv
<1>t. pc \in [Tasks -> Limiter!States] /\ results \in [Tasks -> Results \union {"none"}]
  BY DEF IInv, TypeOK, Limiter!TypeOK
<1> USE DEF TypeOK, Phases, TimelyRejectionsReported, Results, Attributions
<1>1. CASE Opening
  <2>1. CASE Open
    BY <1>0, <2>1 DEF IInv, Open, pool, rejections
  <2>2. CASE OpenFails
    BY <1>0, <2>2 DEF IInv, OpenFails, pool, sidecars, rejections
  <2> QED
    BY <1>1, <2>1, <2>2 DEF Opening
<1>2. CASE Submit
  BY <1>0, <1>2, <1>t DEF IInv, Submit, Limiter!AcquireFree,
    Limiter!AcquireBlocked, sidecars, rejections
<1>3. CASE Start
  BY <1>0, <1>3, <1>t, HeadGranted DEF IInv, Start, Limiter!Resume, sidecars,
    rejections
<1>4. ASSUME NEW i \in Tasks, Executed(i) PROVE IInv'
  BY <1>0, <1>4, <1>t DEF IInv, Executed, Executing, Limiter!Settle, pool,
    sidecars, rejections
<1>5. ASSUME NEW i \in Tasks, AppendSettles(i) PROVE IInv'
  BY <1>0, <1>5, <1>t DEF IInv, AppendSettles, Appended, AppendFails, Appending,
    Limiter!Settle, rejections
<1>6. ASSUME NEW i \in Tasks, Free(i) PROVE IInv'
  BY <1>0, <1>6, <1>t DEF IInv, Free, Limiter!Release, Limiter!ReleaseIdle,
    Limiter!ReleaseNext, Limiter!Outcome, sidecars, rejections
<1>7. ASSUME NEW i \in Tasks, Reject(i) PROVE IInv'
  <2>1. PICK reason \in Attributions \ {"none"} :
          /\ attributed' = [attributed EXCEPT ![i] = reason]
          /\ timely' = CASE ~Executing(i) -> timely
                         [] Executing(i) /\ reason = "given" -> timely \union {i}
                         [] Executing(i) /\ reason = "undefined" -> timely \ {i}
    BY <1>7 DEF Reject
  <2>2. UNCHANGED <<pool, skip, phase, results, listening, closed, sidecars>>
    BY <1>7 DEF Reject
  <2>3. timely' \subseteq timely \union {i}
    BY <2>1
  <2>4. TypeOK'
    BY <1>0, <2>1, <2>2, <2>3 DEF IInv, pool, sidecars
  <2>5. \A j \in timely' : /\ results'[j] = "none" => attributed'[j] = "given"
                           /\ results'[j] \in {"none", "crash"}
    <3>1. CASE ~Executing(i)
      <4>1. results[i] # "none"
        BY <1>7, <3>1 DEF Reject, IInv, Executing
      <4> QED
        BY <2>1, <2>2, <3>1, <4>1 DEF IInv
    <3>2. CASE Executing(i)
      BY <2>1, <2>2, <3>2 DEF IInv, Executing
    <3> QED
      BY <3>1, <3>2
  <2>6. /\ TimelyRejectionsReported'
        /\ (\A j \in timely : results[j] = "none" => attributed[j] = "given")'
    BY <2>5
  <2>7. /\ (partial => ~skip)'
        /\ (\A j \in Tasks : pc[j] \in {"returned", "threw", "resolved", "rejected"} =>
              results[j] # "none")'
        /\ (\A j \in Tasks : pc[j] \in {"returned", "resolved"} => (partial => j \in lines))'
        /\ (phase = "opening" => \A j \in Tasks : pc[j] = "new")'
        /\ (closed \/ phase \in {"closing", "finalizing", "emitting", "resolved"} =>
              \A j \in Tasks : pc[j] = "resolved")'
    BY <2>2 DEF IInv, pool, sidecars
  <2> HIDE DEF TypeOK, TimelyRejectionsReported
  <2> QED
    BY <1>0, <2>4, <2>6, <2>7, Zenon DEF IInv
<1>8. CASE Ending
  <2>1. CASE AllDone
    BY <1>0, <2>1 DEF IInv, AllDone, pool, sidecars
  <2>2. CASE OneFailed
    BY <1>0, <2>2 DEF IInv, OneFailed, pool, sidecars
  <2>3. CASE Disposed \/ FinalizeFails \/ EmitFails
    BY <1>0, <2>3 DEF IInv, Disposed, FinalizeFails, EmitFails, pool, sidecars,
      rejections
  <2>4. CASE Finalize
    BY <1>0, <2>4 DEF IInv, Finalize, pool, rejections
  <2>5. CASE Emit
    BY <1>0, <2>5 DEF IInv, Emit, pool, rejections
  <2> QED
    BY <1>8, <2>1, <2>2, <2>3, <2>4, <2>5 DEF Ending
<1>9. CASE Crash \/ Finished \/ UNCHANGED vars
  BY <1>0, <1>9 DEF IInv, Crash, Finished, vars, pool, sidecars, rejections
<1> QED
  BY <1>1, <1>2, <1>3, <1>4, <1>5, <1>6, <1>7, <1>8, <1>9 DEF Next

LEMMA Invariance == Spec => []IInv
<1> QED
  BY InitIInv, IInvStep, PTL DEF Spec

\* The run drives its pool the way the limiter's specification allows, so
\* everything proved of the limiter (order, transparency, the abstract pool)
\* holds inside the run.
THEOREM RunImplementsLimiter == Spec => LimiterSpec
<1>1. Init => Limiter!Init
  BY DEF Init
<1>2. IInv => TypeOK
  BY DEF IInv
<1>3. Limiter!vars = pool
  BY DEF Limiter!vars, pool
<1> QED
  BY <1>1, <1>2, <1>3, PoolStep, Invariance, PTL
     DEF Spec, LimiterSpec, Limiter!Spec, Limiter!vars, pool

\* Every variable of the run stays in its type.
THEOREM TypeCorrect == Spec => []TypeOK
<1>1. IInv => TypeOK
  BY DEF IInv
<1> QED
  BY <1>1, Invariance, PTL

\* No more endpoints are under way than there are workers.
THEOREM WorkersRespectedHolds == Spec => []WorkersRespected
<1>1. IInv => WorkersRespected
  <2> SUFFICES ASSUME IInv PROVE WorkersRespected
    OBVIOUS
  <2> DEFINE Busy == {i \in Tasks : Executing(i) \/ Appending(i)}
  <2>1. Busy \subseteq LP!Holders /\ LP!Holders \subseteq Tasks
    BY DEF Executing, Appending, LP!Holders, LP!Holding
  <2>2. IsFiniteSet(LP!Holders) /\ IsFiniteSet(Busy)
    BY <2>1, LimiterAssumptions, FS_Subset
  <2>3. Cardinality(Busy) <= Cardinality(LP!Holders)
    BY <2>1, <2>2, FS_Subset
  <2>4. LP!IInv
    BY SameLimiter DEF IInv
  <2>5. LP!Cardinality(LP!Holders) = Cardinality(LP!Holders)
    BY DEF LP!Cardinality, Cardinality
  <2>6. Cardinality(LP!Holders) <= Slots
    BY <2>4, <2>5 DEF LP!IInv, LP!SlotsAccounted
  <2>7. Cardinality(Busy) \in Nat /\ Cardinality(LP!Holders) \in Nat
    BY <2>2, FS_CardinalityType
  <2> QED
    BY <2>3, <2>6, <2>7, WorkersAssumption DEF WorkersRespected, Slots
<1> QED
  BY <1>1, Invariance, PTL

\* The registries are closed only behind the last endpoint.
THEOREM NoUseAfterCloseHolds == Spec => []NoUseAfterClose
<1>1. IInv => NoUseAfterClose
  BY DEF IInv, NoUseAfterClose, Executing
<1> QED
  BY <1>1, Invariance, PTL

\* A run that reaches its report has no endpoint without a result.
THEOREM ReportCompleteHolds == Spec => []ReportComplete
<1>1. IInv => ReportComplete
  BY DEF IInv, ReportComplete
<1> QED
  BY <1>1, Invariance, PTL

\* A timely unhandled rejection becomes its endpoint's crash result, unless the last
\* one was without a reason.
THEOREM TimelyRejectionsHold == Spec => []TimelyRejectionsReported
<1>1. IInv => TimelyRejectionsReported
  BY DEF IInv
<1> QED
  BY <1>1, Invariance, PTL

\* The partial sidecar holds every endpoint whose turn ended well.
THEOREM PartialHolds == Spec => []PartialHoldsFinished
<1>1. IInv => PartialHoldsFinished
  BY DEF IInv, PartialHoldsFinished
<1> QED
  BY <1>1, Invariance, PTL
=============================================================================
