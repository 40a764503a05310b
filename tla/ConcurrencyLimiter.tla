------------------------- MODULE ConcurrencyLimiter -------------------------
(***************************************************************************)
(* The promise pool of src/runner/execute/concurrency-limiter.ts.          *)
(*                                                                         *)
(* One call limit(fn) is one member of Tasks.  JavaScript runs one         *)
(* callback at a time, so an action is what happens between two awaits:    *)
(* acquire() up to its await, the continuation that calls fn, fn settling, *)
(* and the finally block.  A promise that settles schedules its            *)
(* continuation on the engine's FIFO job queue; `jobs' is the part of that *)
(* queue that belongs to acquire().                                        *)
(***************************************************************************)
EXTENDS Naturals, Sequences, FiniteSets, Functions

CONSTANTS
  Tasks,          \* the calls limit(fn) of a run
  MaxConcurrent   \* createLimit's argument

ASSUME MaxConcurrentAssumption == MaxConcurrent \in Nat \ {0}
ASSUME TasksAssumption == IsFiniteSet(Tasks)

VARIABLES
  active,     \* slots taken
  queue,      \* callers blocked in acquire(), oldest first
  jobs,       \* callers whose acquire() has resolved but that have not resumed
  pc,         \* where each call stands
  submitted,  \* history: the calls in the order they were made
  started     \* history: the calls in the order fn was invoked

vars == <<active, queue, jobs, pc, submitted, started>>

\* "returned" and "threw" are fn settled with the finally block still to run.
States == {"new", "queued", "granted", "running", "returned", "threw",
           "resolved", "rejected"}

Holding == {"granted", "running", "returned", "threw"}
InFlight == {"running", "returned", "threw"}

\* The calls that hold a slot, and those whose fn has been invoked.
Holders == {t \in Tasks : pc[t] \in Holding}
Flying == {t \in Tasks : pc[t] \in InFlight}

Init ==
  /\ active = 0
  /\ queue = <<>>
  /\ jobs = <<>>
  /\ pc = [t \in Tasks |-> "new"]
  /\ submitted = <<>>
  /\ started = <<>>

\* limit(fn): acquire() takes a free slot at once.
AcquireFree(t) ==
  /\ pc[t] = "new"
  /\ active < MaxConcurrent
  /\ active' = active + 1
  /\ jobs' = Append(jobs, t)
  /\ pc' = [pc EXCEPT ![t] = "granted"]
  /\ submitted' = Append(submitted, t)
  /\ UNCHANGED <<queue, started>>

\* Variant: the newest caller goes to the front of the queue.
AcquireInFront(t) ==
  /\ pc[t] = "new"
  /\ active >= MaxConcurrent
  /\ queue' = <<t>> \o queue
  /\ pc' = [pc EXCEPT ![t] = "queued"]
  /\ submitted' = Append(submitted, t)
  /\ UNCHANGED <<active, jobs, started>>

\* limit(fn): acquire() blocks, the pool is saturated.
AcquireBlocked(t) ==
  /\ pc[t] = "new"
  /\ active >= MaxConcurrent
  /\ queue' = Append(queue, t)
  /\ pc' = [pc EXCEPT ![t] = "queued"]
  /\ submitted' = Append(submitted, t)
  /\ UNCHANGED <<active, jobs, started>>

\* The engine resumes the oldest caller whose acquire() resolved: it calls fn.
Resume ==
  /\ jobs # <<>>
  /\ jobs' = Tail(jobs)
  /\ pc' = [pc EXCEPT ![Head(jobs)] = "running"]
  /\ started' = Append(started, Head(jobs))
  /\ UNCHANGED <<active, queue, submitted>>

\* The promise fn returned settles.
Settle(t) ==
  /\ pc[t] = "running"
  /\ \E outcome \in {"returned", "threw"} : pc' = [pc EXCEPT ![t] = outcome]
  /\ UNCHANGED <<active, queue, jobs, submitted, started>>

\* The outcome the limited promise settles with: fn's own.
Outcome(t) == IF pc[t] = "returned" THEN "resolved" ELSE "rejected"

\* finally { release() } with nobody waiting.
ReleaseIdle(t) ==
  /\ pc[t] \in {"returned", "threw"}
  /\ queue = <<>>
  /\ active' = active - 1
  /\ pc' = [pc EXCEPT ![t] = Outcome(t)]
  /\ UNCHANGED <<queue, jobs, submitted, started>>

\* Variants of the handover: the slot is given up and handed over; it goes to
\* the newest waiter.
ReleaseCountsTwice(t) ==
  /\ pc[t] \in {"returned", "threw"}
  /\ queue # <<>>
  /\ active' = active + 1
  /\ queue' = Tail(queue)
  /\ jobs' = Append(jobs, Head(queue))
  /\ pc' = [pc EXCEPT ![t] = Outcome(t), ![Head(queue)] = "granted"]
  /\ UNCHANGED <<submitted, started>>

ReleaseNewest(t) ==
  /\ pc[t] \in {"returned", "threw"}
  /\ queue # <<>>
  /\ queue' = SubSeq(queue, 1, Len(queue) - 1)
  /\ jobs' = Append(jobs, queue[Len(queue)])
  /\ pc' = [pc EXCEPT ![t] = Outcome(t), ![queue[Len(queue)]] = "granted"]
  /\ UNCHANGED <<active, submitted, started>>

\* finally { release() }: the slot goes to the oldest waiter in the same step.
ReleaseNext(t) ==
  /\ pc[t] \in {"returned", "threw"}
  /\ queue # <<>>
  /\ active' = (active - 1) + 1
  /\ queue' = Tail(queue)
  /\ jobs' = Append(jobs, Head(queue))
  /\ pc' = [pc EXCEPT ![t] = Outcome(t), ![Head(queue)] = "granted"]
  /\ UNCHANGED <<submitted, started>>

Release(t) == ReleaseIdle(t) \/ ReleaseNext(t)

\* Every call has settled: the program has nothing left to do here.
Finished ==
  /\ \A t \in Tasks : pc[t] \in {"resolved", "rejected"}
  /\ UNCHANGED vars

Next ==
  \/ \E t \in Tasks :
       AcquireFree(t) \/ AcquireBlocked(t) \/ Settle(t) \/ Release(t)
  \/ Resume
  \/ Finished

Spec == Init /\ [][Next]_vars

-----------------------------------------------------------------------------
TypeOK ==
  /\ active \in Nat
  /\ queue \in Seq(Tasks)
  /\ jobs \in Seq(Tasks)
  /\ pc \in [Tasks -> States]
  /\ submitted \in Seq(Tasks)
  /\ started \in Seq(Tasks)

\* Semantics 1 of the module comment: at most MaxConcurrent tasks in flight,
\* counting the fns really running and not the variable that is meant to
\* count them.
ConcurrencyCap == Cardinality(Flying) <= MaxConcurrent

\* Semantics 2: fns are invoked in exactly the order limit() was called, with
\* no call overtaking another whether it found a free slot or was queued.
StartsInSubmissionOrder ==
  /\ Len(started) <= Len(submitted)
  /\ started = SubSeq(submitted, 1, Len(started))

\* No slot is lost or minted: `active' counts the calls that hold one,
\* and a caller waits only while every slot is taken.
SlotsAccounted ==
  /\ active = Cardinality(Holders)
  /\ queue # <<>> => active = MaxConcurrent

\* The inductive strengthening.  The calls made are those invoked followed by
\* those in line, so the prefix property is a consequence; the line itself
\* holds each call once, and in the state its position says.
Line == jobs \o queue

InLine(q, state) ==
  /\ \A i \in 1 .. Len(q) : pc[q[i]] = state
  /\ IsInjective(q)

IInv ==
  /\ TypeOK
  /\ SlotsAccounted
  /\ active <= MaxConcurrent
  /\ submitted = started \o Line
  /\ InLine(jobs, "granted")
  /\ InLine(queue, "queued")

-----------------------------------------------------------------------------
\* What the pool promises its callers, with its own bookkeeping hidden.
Pool == INSTANCE BoundedPool WITH
          waiting <- Line,
          busy <- Flying,
          settled <- [t \in Tasks |->
                        IF pc[t] \in {"resolved", "rejected"}
                          THEN pc[t] ELSE "pending"]
PoolSpec == Pool!Spec
=============================================================================
