---------------------- MODULE ConcurrencyLimiterProofs ----------------------
(***************************************************************************)
(* Theorems about ConcurrencyLimiter, for every finite set of calls and    *)
(* every positive number of slots.                                         *)
(***************************************************************************)
EXTENDS ConcurrencyLimiter, SequenceTheorems, FiniteSetTheorems, TLAPS

(***************************************************************************)
(* Three facts about a line of calls that is held as two sequences.        *)
(***************************************************************************)

\* Joining the second part is joining the whole line.
LEMMA AppendToSecond ==
  ASSUME NEW S, NEW a \in Seq(S), NEW b \in Seq(S), NEW x \in S
  PROVE  a \o Append(b, x) = Append(a \o b, x)
<1>1. <<x>> \in Seq(S)
  OBVIOUS
<1>2. a \o b \in Seq(S)
  BY ConcatProperties
<1>3. Append(b, x) = b \o <<x>> /\ Append(a \o b, x) = (a \o b) \o <<x>>
  BY <1>2, AppendIsConcat
<1> QED
  BY <1>1, <1>3, ConcatAssociative

\* Moving the head of the second part to the end of the first changes nothing.
LEMMA MoveAcross ==
  ASSUME NEW S, NEW a \in Seq(S), NEW b \in Seq(S), b # <<>>
  PROVE  Append(a, Head(b)) \o Tail(b) = a \o b
<1>1. Head(b) \in S /\ Tail(b) \in Seq(S) /\ <<Head(b)>> \in Seq(S)
  BY HeadTailProperties
<1>2. Append(a, Head(b)) = a \o <<Head(b)>>
  BY <1>1, AppendIsConcat
<1>3. <<Head(b)>> \o Tail(b) = b
  <2> DEFINE c == <<Head(b)>> \o Tail(b)
  <2>1. c \in Seq(S) /\ Len(c) = 1 + Len(Tail(b))
        /\ \A i \in 1 .. 1 + Len(Tail(b)) :
             c[i] = IF i <= 1 THEN <<Head(b)>>[i] ELSE Tail(b)[i - 1]
    BY <1>1, ConcatProperties
  <2>2. Len(b) \in Nat \ {0} /\ Len(Tail(b)) = Len(b) - 1
        /\ \A i \in 1 .. Len(Tail(b)) : Tail(b)[i] = b[i + 1]
    BY HeadTailProperties, EmptySeq
  <2>3. Head(b) = b[1]
    BY <2>2
  <2>4. \A i \in 1 .. Len(c) : c[i] = b[i]
    BY <2>1, <2>2, <2>3
  <2> QED
    BY <2>1, <2>2, <2>4, SeqEqual
<1> QED
  BY <1>1, <1>2, <1>3, ConcatAssociative

\* The head of the first part is the head of the line.
LEMMA HeadOfFirst ==
  ASSUME NEW S, NEW a \in Seq(S), NEW b \in Seq(S), a # <<>>
  PROVE  /\ a \o b # <<>>
         /\ Head(a \o b) = Head(a)
         /\ Tail(a \o b) = Tail(a) \o b
<1>1. a \o b \in Seq(S) /\ Len(a \o b) = Len(a) + Len(b)
      /\ \A i \in 1 .. Len(a) + Len(b) :
           (a \o b)[i] = IF i <= Len(a) THEN a[i] ELSE b[i - Len(a)]
  BY ConcatProperties
<1>2. Len(a) \in Nat \ {0} /\ Len(b) \in Nat
  BY EmptySeq, LenProperties
<1>3. a \o b # <<>>
  BY <1>1, <1>2
<1>4. Head(a \o b) = Head(a)
  BY <1>1, <1>2, <1>3
<1>5. Tail(a) \in Seq(S) /\ Len(Tail(a)) = Len(a) - 1
      /\ \A i \in 1 .. Len(Tail(a)) : Tail(a)[i] = a[i + 1]
  BY HeadTailProperties
<1>6. Tail(a \o b) \in Seq(S) /\ Len(Tail(a \o b)) = Len(a) + Len(b) - 1
      /\ \A i \in 1 .. Len(Tail(a \o b)) : Tail(a \o b)[i] = (a \o b)[i + 1]
  BY <1>1, <1>3, HeadTailProperties
<1>7. Tail(a) \o b \in Seq(S) /\ Len(Tail(a) \o b) = Len(a) - 1 + Len(b)
      /\ \A i \in 1 .. Len(a) - 1 + Len(b) :
           (Tail(a) \o b)[i] =
              IF i <= Len(a) - 1 THEN Tail(a)[i] ELSE b[i - (Len(a) - 1)]
  BY <1>5, ConcatProperties
<1>8. \A i \in 1 .. Len(Tail(a \o b)) : Tail(a \o b)[i] = (Tail(a) \o b)[i]
  BY <1>1, <1>2, <1>5, <1>6, <1>7
<1>9. Len(Tail(a \o b)) = Len(Tail(a) \o b)
  BY <1>2, <1>6, <1>7
<1>10. Tail(a \o b) = Tail(a) \o b
  BY <1>6, <1>7, <1>8, <1>9, SeqEqual
<1> QED
  BY <1>3, <1>4, <1>10

\* A line without repetitions stays so when its head leaves ...
LEMMA TailInjective ==
  ASSUME NEW S, NEW q \in Seq(S), q # <<>>, IsInjective(q)
  PROVE  /\ IsInjective(Tail(q))
         /\ \A i \in 1 .. Len(Tail(q)) : Tail(q)[i] # Head(q)
<1>1. /\ Len(q) \in Nat \ {0} /\ DOMAIN q = 1 .. Len(q)
      /\ Tail(q) \in Seq(S) /\ Head(q) = q[1]
      /\ Len(Tail(q)) = Len(q) - 1
      /\ \A i \in 1 .. Len(Tail(q)) : Tail(q)[i] = q[i + 1]
  BY HeadTailProperties, EmptySeq, LenProperties
<1>2. DOMAIN Tail(q) = 1 .. Len(q) - 1
  BY <1>1, LenProperties
<1>3. ASSUME NEW i \in 1 .. Len(q) - 1, NEW j \in 1 .. Len(q) - 1,
             Tail(q)[i] = Tail(q)[j]
      PROVE  i = j
  <2>1. q[i + 1] = q[j + 1] /\ i + 1 \in DOMAIN q /\ j + 1 \in DOMAIN q
    BY <1>1, <1>3
  <2>2. i + 1 = j + 1
    BY <2>1 DEF IsInjective
  <2> QED
    BY <2>2
<1>4. ASSUME NEW i \in 1 .. Len(Tail(q)), Tail(q)[i] = Head(q) PROVE FALSE
  <2>1. q[i + 1] = q[1] /\ i + 1 \in DOMAIN q /\ 1 \in DOMAIN q
    BY <1>1, <1>4
  <2>2. i + 1 = 1
    BY <2>1 DEF IsInjective
  <2> QED
    BY <2>2
<1> QED
  BY <1>2, <1>3, <1>4 DEF IsInjective

\* ... and when a newcomer joins.
LEMMA AppendIsInjective ==
  ASSUME NEW S, NEW q \in Seq(S), NEW x \in S, IsInjective(q),
         \A i \in 1 .. Len(q) : q[i] # x
  PROVE  IsInjective(Append(q, x))
<1>1. /\ Len(q) \in Nat /\ DOMAIN q = 1 .. Len(q)
      /\ Append(q, x) \in Seq(S)
      /\ Len(Append(q, x)) = Len(q) + 1
      /\ \A i \in 1 .. Len(q) : Append(q, x)[i] = q[i]
      /\ Append(q, x)[Len(q) + 1] = x
  BY AppendProperties, LenProperties
<1>2. DOMAIN Append(q, x) = 1 .. Len(q) + 1
  BY <1>1, LenProperties
<1>3. ASSUME NEW i \in 1 .. Len(q) + 1, NEW j \in 1 .. Len(q) + 1,
             Append(q, x)[i] = Append(q, x)[j]
      PROVE  i = j
  <2>1. CASE i \in 1 .. Len(q) /\ j \in 1 .. Len(q)
    <3>1. q[i] = q[j]
      BY <1>1, <1>3, <2>1
    <3> QED
      BY <1>1, <2>1, <3>1 DEF IsInjective
  <2>2. CASE i = Len(q) + 1 /\ j \in 1 .. Len(q)
    BY <1>1, <1>3, <2>2
  <2>3. CASE j = Len(q) + 1 /\ i \in 1 .. Len(q)
    BY <1>1, <1>3, <2>3
  <2> QED
    BY <1>1, <2>1, <2>2, <2>3
<1> QED
  BY <1>2, <1>3 DEF IsInjective

-----------------------------------------------------------------------------
(***************************************************************************)
(* What each action does to the line of calls that wait.                   *)
(***************************************************************************)

LEMMA JoinLine ==
  ASSUME IInv, NEW t \in Tasks, AcquireFree(t) \/ AcquireBlocked(t)
  PROVE  Line' = Append(Line, t)
<1>1. CASE AcquireFree(t)
  <2>1. queue = <<>>
    BY <1>1 DEF IInv, TypeOK, SlotsAccounted, AcquireFree
  <2>2. Line = jobs /\ Line' = Append(jobs, t)
    BY <1>1, <2>1, ConcatEmptySeq, AppendProperties
    DEF Line, IInv, TypeOK, AcquireFree
  <2> QED
    BY <2>2
<1>2. CASE AcquireBlocked(t)
  <2>1. jobs \in Seq(Tasks) /\ queue \in Seq(Tasks)
    BY DEF IInv, TypeOK
  <2>2. jobs' = jobs /\ queue' = Append(queue, t)
    BY <1>2 DEF AcquireBlocked
  <2> QED
    BY <2>1, <2>2, AppendToSecond DEF Line
<1> QED
  BY <1>1, <1>2

LEMMA LeaveLine ==
  ASSUME IInv, Resume
  PROVE  /\ Line # <<>>
         /\ Line' = Tail(Line)
         /\ Head(jobs) = Head(Line)
<1>1. jobs \in Seq(Tasks) /\ queue \in Seq(Tasks)
  BY DEF IInv, TypeOK
<1>2. jobs # <<>> /\ jobs' = Tail(jobs) /\ queue' = queue
  BY DEF Resume
<1> QED
  BY <1>1, <1>2, HeadOfFirst DEF Line

LEMMA KeepLine ==
  ASSUME IInv, NEW t \in Tasks, Release(t)
  PROVE  Line' = Line
<1>1. CASE ReleaseIdle(t)
  BY <1>1 DEF ReleaseIdle, Line
<1>2. CASE ReleaseNext(t)
  <2>1. jobs \in Seq(Tasks) /\ queue \in Seq(Tasks)
    BY DEF IInv, TypeOK
  <2>2. /\ queue # <<>> /\ queue' = Tail(queue)
        /\ jobs' = Append(jobs, Head(queue))
    BY <1>2 DEF ReleaseNext
  <2> QED
    BY <2>1, <2>2, MoveAcross DEF Line
<1> QED
  BY <1>1, <1>2 DEF Release

LEMMA LineType == IInv => Line \in Seq(Tasks)
BY ConcatProperties DEF IInv, TypeOK, Line

(***************************************************************************)
(* The parts of the inductive invariant.                                   *)
(***************************************************************************)

LEMMA InitIInv == Init => IInv
<1> SUFFICES ASSUME Init PROVE IInv
  OBVIOUS
<1>1. TypeOK
  BY EmptySeq DEF Init, TypeOK, States
<1>2. Holders = {}
  BY DEF Init, Holders, Holding
<1>3. SlotsAccounted
  BY <1>2, FS_EmptySet DEF Init, SlotsAccounted
<1>4. submitted = started \o Line
  BY EmptySeq, ConcatEmptySeq DEF Init, Line
<1>5. active <= MaxConcurrent
  BY MaxConcurrentAssumption DEF Init
<1>6. Len(<<>>) = 0 /\ DOMAIN <<>> = {}
  BY EmptySeq
<1>7. InLine(jobs, "granted") /\ InLine(queue, "queued")
  BY <1>6 DEF Init, InLine, IsInjective
<1> QED
  BY <1>1, <1>3, <1>4, <1>5, <1>7 DEF IInv

LEMMA TypeStep == IInv /\ [Next]_vars => TypeOK'
<1> SUFFICES ASSUME IInv, [Next]_vars PROVE TypeOK'
  OBVIOUS
<1> USE DEF IInv, TypeOK, States
<1>1. ASSUME NEW t \in Tasks, AcquireFree(t) PROVE TypeOK'
  BY <1>1, AppendProperties DEF AcquireFree
<1>2. ASSUME NEW t \in Tasks, AcquireBlocked(t) PROVE TypeOK'
  BY <1>2, AppendProperties DEF AcquireBlocked
<1>3. CASE Resume
  BY <1>3, AppendProperties, HeadTailProperties DEF Resume
<1>4. ASSUME NEW t \in Tasks, Settle(t) PROVE TypeOK'
  BY <1>4 DEF Settle
<1>5. ASSUME NEW t \in Tasks, ReleaseIdle(t) PROVE TypeOK'
  <2>1. t \in Holders
    BY <1>5 DEF ReleaseIdle, Holders, Holding
  <2>2. IsFiniteSet(Holders)
    BY TasksAssumption, FS_Subset DEF Holders
  <2>3. active # 0
    BY <2>1, <2>2, FS_EmptySet DEF SlotsAccounted
  <2> QED
    BY <1>5, <2>3 DEF ReleaseIdle, Outcome
<1>6. ASSUME NEW t \in Tasks, ReleaseNext(t) PROVE TypeOK'
  <2>1. active' \in Nat /\ submitted' \in Seq(Tasks) /\ started' \in Seq(Tasks)
    BY <1>6 DEF ReleaseNext
  <2>2. queue' \in Seq(Tasks) /\ Head(queue) \in Tasks
    BY <1>6, HeadTailProperties DEF ReleaseNext
  <2>3. jobs' \in Seq(Tasks)
    BY <1>6, <2>2, AppendProperties DEF ReleaseNext
  <2>4. pc' \in [Tasks -> States]
    BY <1>6, <2>2 DEF ReleaseNext, Outcome
  <2> QED
    BY <2>1, <2>2, <2>3, <2>4
<1>7. CASE UNCHANGED vars
  BY <1>7 DEF vars
<1> QED
  BY <1>1, <1>2, <1>3, <1>4, <1>5, <1>6, <1>7 DEF Next, Release, Finished

LEMMA HistoryStep ==
  IInv /\ [Next]_vars => submitted' = started' \o Line'
<1> SUFFICES ASSUME IInv, [Next]_vars PROVE submitted' = started' \o Line'
  OBVIOUS
<1>0. started \in Seq(Tasks) /\ Line \in Seq(Tasks) /\ submitted = started \o Line
  BY LineType DEF IInv, TypeOK
<1>1. ASSUME NEW t \in Tasks, AcquireFree(t) \/ AcquireBlocked(t)
      PROVE  submitted' = started' \o Line'
  <2>1. submitted' = Append(started \o Line, t) /\ started' = started
    BY <1>0, <1>1 DEF AcquireFree, AcquireBlocked
  <2>2. Line' = Append(Line, t)
    BY <1>1, JoinLine
  <2>3. started \o Append(Line, t) = Append(started \o Line, t)
    BY <1>0, AppendToSecond
  <2> QED
    BY <2>1, <2>2, <2>3
<1>2. CASE Resume
  <2>1. started' = Append(started, Head(Line)) /\ submitted' = submitted
    BY <1>2, LeaveLine DEF Resume
  <2>2. Line # <<>> /\ Line' = Tail(Line)
    BY <1>2, LeaveLine
  <2> QED
    BY <1>0, <2>1, <2>2, MoveAcross
<1>3. ASSUME NEW t \in Tasks, Release(t) PROVE submitted' = started' \o Line'
  BY <1>0, <1>3, KeepLine DEF Release, ReleaseIdle, ReleaseNext
<1>4. ASSUME NEW t \in Tasks, Settle(t) PROVE submitted' = started' \o Line'
  BY <1>0, <1>4 DEF Settle, Line
<1>5. CASE UNCHANGED vars
  BY <1>0, <1>5 DEF vars, Line
<1> QED
  BY <1>1, <1>2, <1>3, <1>4, <1>5 DEF Next, Finished

\* A call's place in line and its state go together.
LEMMA JobsStep == IInv /\ [Next]_vars => InLine(jobs, "granted")'
<1> SUFFICES ASSUME IInv, [Next]_vars PROVE InLine(jobs, "granted")'
  OBVIOUS
<1>0. /\ jobs \in Seq(Tasks) /\ queue \in Seq(Tasks)
      /\ pc \in [Tasks -> States]
      /\ Len(jobs) \in Nat /\ Len(queue) \in Nat
      /\ \A i \in 1 .. Len(jobs) : jobs[i] \in Tasks
      /\ \A i \in 1 .. Len(queue) : queue[i] \in Tasks
  BY ElementOfSeq, LenProperties DEF IInv, TypeOK
<1> USE DEF InLine
<1>1. ASSUME NEW t \in Tasks, AcquireFree(t) PROVE InLine(jobs, "granted")'
  <2>1. /\ jobs' = Append(jobs, t) /\ Len(jobs') = Len(jobs) + 1
        /\ \A i \in 1 .. Len(jobs) : jobs'[i] = jobs[i]
        /\ jobs'[Len(jobs) + 1] = t
    BY <1>0, <1>1, AppendProperties DEF AcquireFree
  <2>2. \A i \in 1 .. Len(jobs) : jobs[i] # t
    BY <1>1 DEF AcquireFree, IInv
  <2>3. IsInjective(jobs')
    BY <1>0, <2>1, <2>2, AppendIsInjective DEF IInv
  <2> QED
    BY <1>0, <1>1, <2>1, <2>2, <2>3 DEF AcquireFree, IInv
<1>2. ASSUME NEW t \in Tasks, AcquireBlocked(t) PROVE InLine(jobs, "granted")'
  BY <1>0, <1>2 DEF AcquireBlocked, IInv
<1>3. CASE Resume
  <2>1. /\ Len(jobs) # 0 /\ Head(jobs) = jobs[1]
        /\ Len(jobs') = Len(jobs) - 1
        /\ \A i \in 1 .. Len(jobs') : jobs'[i] = jobs[i + 1]
    BY <1>0, <1>3, HeadTailProperties, EmptySeq DEF Resume
  <2>2. IsInjective(jobs') /\ \A i \in 1 .. Len(jobs') : jobs'[i] # jobs[1]
    <3>1. jobs' = Tail(jobs) /\ jobs # <<>>
      BY <1>3 DEF Resume
    <3>2. IsInjective(jobs)
      BY DEF IInv
    <3> QED
      BY <1>0, <2>1, <3>1, <3>2, TailInjective
  <2>3. ASSUME NEW i \in 1 .. Len(jobs') PROVE pc'[jobs'[i]] = "granted"
    <3>1. pc[jobs'[i]] = "granted" /\ jobs'[i] \in Tasks /\ jobs'[i] # jobs[1]
      BY <1>0, <2>1, <2>2, <2>3 DEF IInv
    <3> QED
      BY <1>0, <1>3, <2>1, <3>1 DEF Resume
  <2> QED
    BY <2>2, <2>3
<1>4. ASSUME NEW t \in Tasks, Settle(t) PROVE InLine(jobs, "granted")'
  BY <1>0, <1>4 DEF Settle, IInv
<1>5. ASSUME NEW t \in Tasks, ReleaseIdle(t) PROVE InLine(jobs, "granted")'
  BY <1>0, <1>5 DEF ReleaseIdle, IInv
<1>6. ASSUME NEW t \in Tasks, ReleaseNext(t) PROVE InLine(jobs, "granted")'
  <2> DEFINE h == Head(queue)
  <2>1. h \in Tasks /\ pc[h] = "queued" /\ h # t
    BY <1>0, <1>6, EmptySeq DEF ReleaseNext, IInv
  <2>2. /\ jobs' = Append(jobs, h) /\ Len(jobs') = Len(jobs) + 1
        /\ \A i \in 1 .. Len(jobs) : jobs'[i] = jobs[i]
        /\ jobs'[Len(jobs) + 1] = h
    BY <1>0, <1>6, <2>1, AppendProperties DEF ReleaseNext
  <2>3. \A i \in 1 .. Len(jobs) : jobs[i] # h /\ jobs[i] # t
    BY <1>6, <2>1 DEF ReleaseNext, IInv
  <2>4. pc' = [pc EXCEPT ![t] = Outcome(t), ![h] = "granted"]
    BY <1>6 DEF ReleaseNext
  <2> HIDE DEF h
  <2>5. \A i \in 1 .. Len(jobs') : pc'[jobs'[i]] = "granted"
    <3>1. ASSUME NEW i \in 1 .. Len(jobs) PROVE pc'[jobs'[i]] = "granted"
      <4>1. pc[jobs[i]] = "granted" /\ jobs[i] \in Tasks
        BY <1>0 DEF IInv
      <4> QED
        BY <1>0, <2>2, <2>3, <2>4, <4>1
    <3>2. pc'[h] = "granted"
      BY <1>0, <2>1, <2>4
    <3> QED
      BY <1>0, <2>2, <3>1, <3>2
  <2>6. IsInjective(jobs')
    BY <1>0, <2>1, <2>2, <2>3, AppendIsInjective DEF IInv
  <2> QED
    BY <2>5, <2>6
<1>7. CASE UNCHANGED vars
  BY <1>7 DEF vars, IInv
<1> QED
  BY <1>1, <1>2, <1>3, <1>4, <1>5, <1>6, <1>7 DEF Next, Release, Finished

LEMMA QueueStep == IInv /\ [Next]_vars => InLine(queue, "queued")'
<1> SUFFICES ASSUME IInv, [Next]_vars PROVE InLine(queue, "queued")'
  OBVIOUS
<1>0. /\ jobs \in Seq(Tasks) /\ queue \in Seq(Tasks)
      /\ pc \in [Tasks -> States]
      /\ Len(jobs) \in Nat /\ Len(queue) \in Nat
      /\ \A i \in 1 .. Len(jobs) : jobs[i] \in Tasks
      /\ \A i \in 1 .. Len(queue) : queue[i] \in Tasks
  BY ElementOfSeq, LenProperties DEF IInv, TypeOK
<1> USE DEF InLine
<1>1. ASSUME NEW t \in Tasks, AcquireFree(t) PROVE InLine(queue, "queued")'
  BY <1>0, <1>1 DEF AcquireFree, IInv
<1>2. ASSUME NEW t \in Tasks, AcquireBlocked(t) PROVE InLine(queue, "queued")'
  <2>1. /\ queue' = Append(queue, t) /\ Len(queue') = Len(queue) + 1
        /\ \A i \in 1 .. Len(queue) : queue'[i] = queue[i]
        /\ queue'[Len(queue) + 1] = t
    BY <1>0, <1>2, AppendProperties DEF AcquireBlocked
  <2>2. \A i \in 1 .. Len(queue) : queue[i] # t
    BY <1>2 DEF AcquireBlocked, IInv
  <2>3. IsInjective(queue')
    BY <1>0, <2>1, <2>2, AppendIsInjective DEF IInv
  <2> QED
    BY <1>0, <1>2, <2>1, <2>2, <2>3 DEF AcquireBlocked, IInv
<1>3. CASE Resume
  <2>1. Head(jobs) \in Tasks /\ pc[Head(jobs)] = "granted"
    BY <1>0, <1>3, EmptySeq DEF Resume, IInv
  <2> QED
    BY <1>0, <1>3, <2>1 DEF Resume, IInv
<1>4. ASSUME NEW t \in Tasks, Settle(t) PROVE InLine(queue, "queued")'
  BY <1>0, <1>4 DEF Settle, IInv
<1>5. ASSUME NEW t \in Tasks, ReleaseIdle(t) PROVE InLine(queue, "queued")'
  BY <1>0, <1>5, EmptySeq DEF ReleaseIdle, IInv
<1>6. ASSUME NEW t \in Tasks, ReleaseNext(t) PROVE InLine(queue, "queued")'
  <2>1. /\ Len(queue) # 0 /\ Head(queue) = queue[1]
        /\ Len(queue') = Len(queue) - 1
        /\ \A i \in 1 .. Len(queue') : queue'[i] = queue[i + 1]
    BY <1>0, <1>6, HeadTailProperties, EmptySeq DEF ReleaseNext
  <2>2. /\ IsInjective(queue')
        /\ \A i \in 1 .. Len(queue') : queue'[i] # queue[1] /\ queue'[i] # t
    BY <1>0, <1>6, <2>1, TailInjective DEF ReleaseNext, IInv
  <2>3. \A i \in 1 .. Len(queue') : pc'[queue'[i]] = "queued"
    BY <1>0, <1>6, <2>1, <2>2 DEF ReleaseNext, IInv
  <2> QED
    BY <2>2, <2>3
<1>7. CASE UNCHANGED vars
  BY <1>7 DEF vars, IInv
<1> QED
  BY <1>1, <1>2, <1>3, <1>4, <1>5, <1>6, <1>7 DEF Next, Release, Finished

\* A step takes a slot, gives one back, hands one over, or leaves them alone.
LEMMA SlotsStep ==
  IInv /\ [Next]_vars => (SlotsAccounted /\ active <= MaxConcurrent)'
<1> SUFFICES ASSUME IInv, [Next]_vars
             PROVE  (SlotsAccounted /\ active <= MaxConcurrent)'
  OBVIOUS
<1>0. /\ IsFiniteSet(Holders) /\ Cardinality(Holders) \in Nat
      /\ active = Cardinality(Holders) /\ active <= MaxConcurrent
      /\ queue # <<>> => active = MaxConcurrent
      /\ active \in Nat /\ MaxConcurrent \in Nat \ {0}
      /\ pc \in [Tasks -> States]
      /\ jobs \in Seq(Tasks) /\ queue \in Seq(Tasks)
  BY TasksAssumption, MaxConcurrentAssumption, FS_Subset, FS_CardinalityType
  DEF Holders, IInv, TypeOK, SlotsAccounted
<1>1. ASSUME NEW t \in Tasks, AcquireFree(t)
      PROVE  (SlotsAccounted /\ active <= MaxConcurrent)'
  <2>1. Holders' = Holders \union {t} /\ t \notin Holders
    BY <1>0, <1>1 DEF AcquireFree, Holders, Holding
  <2>2. Cardinality(Holders') = Cardinality(Holders) + 1
    BY <1>0, <2>1, FS_AddElement
  <2>3. active' = active + 1 /\ active < MaxConcurrent /\ queue' = queue
    BY <1>1 DEF AcquireFree
  <2> QED
    BY <1>0, <2>2, <2>3 DEF SlotsAccounted
<1>2. ASSUME NEW t \in Tasks, AcquireBlocked(t)
      PROVE  (SlotsAccounted /\ active <= MaxConcurrent)'
  <2>1. Holders' = Holders
    BY <1>0, <1>2 DEF AcquireBlocked, Holders, Holding
  <2>2. active' = active /\ active >= MaxConcurrent
    BY <1>2 DEF AcquireBlocked
  <2> QED
    BY <1>0, <2>1, <2>2 DEF SlotsAccounted
<1>3. CASE Resume
  <2>1. Head(jobs) \in Tasks /\ pc[Head(jobs)] = "granted"
    BY <1>0, <1>3, EmptySeq DEF Resume, IInv, InLine
  <2>2. Holders' = Holders
    BY <1>0, <1>3, <2>1 DEF Resume, Holders, Holding
  <2> QED
    BY <1>0, <1>3, <2>2 DEF Resume, SlotsAccounted
<1>4. ASSUME NEW t \in Tasks, Settle(t)
      PROVE  (SlotsAccounted /\ active <= MaxConcurrent)'
  <2>1. Holders' = Holders
    BY <1>0, <1>4 DEF Settle, Holders, Holding
  <2> QED
    BY <1>0, <1>4, <2>1 DEF Settle, SlotsAccounted
<1>5. ASSUME NEW t \in Tasks, ReleaseIdle(t)
      PROVE  (SlotsAccounted /\ active <= MaxConcurrent)'
  <2>1. Holders' = Holders \ {t} /\ t \in Holders
    BY <1>0, <1>5 DEF ReleaseIdle, Outcome, Holders, Holding
  <2>2. Cardinality(Holders') = Cardinality(Holders) - 1
    BY <1>0, <2>1, FS_RemoveElement
  <2> QED
    BY <1>0, <1>5, <2>2 DEF ReleaseIdle, SlotsAccounted
<1>6. ASSUME NEW t \in Tasks, ReleaseNext(t)
      PROVE  (SlotsAccounted /\ active <= MaxConcurrent)'
  <2> DEFINE h == Head(queue)
  <2>1. h \in Tasks /\ pc[h] = "queued" /\ h # t
    BY <1>0, <1>6, EmptySeq DEF ReleaseNext, IInv, InLine
  <2>2. pc' = [pc EXCEPT ![t] = Outcome(t), ![h] = "granted"]
    BY <1>6 DEF ReleaseNext
  <2>3. pc[t] \in {"returned", "threw"}
    BY <1>6 DEF ReleaseNext
  <2> HIDE DEF h
  <2>4. /\ Holders' = (Holders \ {t}) \union {h}
        /\ t \in Holders /\ h \notin Holders
    BY <1>0, <2>1, <2>2, <2>3 DEF Outcome, Holders, Holding
  <2>5. /\ IsFiniteSet(Holders \ {t})
        /\ Cardinality(Holders \ {t}) = Cardinality(Holders) - 1
    BY <1>0, <2>4, FS_RemoveElement
  <2>6. Cardinality(Holders') = Cardinality(Holders)
    <3>1. Cardinality((Holders \ {t}) \union {h}) = Cardinality(Holders \ {t}) + 1
      BY <2>4, <2>5, FS_AddElement
    <3> QED
      BY <1>0, <2>4, <2>5, <3>1
  <2>7. queue # <<>> /\ active' = (active - 1) + 1
    BY <1>6 DEF ReleaseNext
  <2> QED
    BY <1>0, <2>6, <2>7 DEF SlotsAccounted
<1>7. CASE UNCHANGED vars
  BY <1>0, <1>7 DEF vars, SlotsAccounted, Holders
<1> QED
  BY <1>1, <1>2, <1>3, <1>4, <1>5, <1>6, <1>7 DEF Next, Release, Finished

LEMMA IInvStep == IInv /\ [Next]_vars => IInv'
BY TypeStep, HistoryStep, JobsStep, QueueStep, SlotsStep DEF IInv

LEMMA Invariance == Spec => []IInv
<1>1. Init => IInv
  BY InitIInv
<1>2. IInv /\ [Next]_vars => IInv'
  BY IInvStep
<1> QED
  BY <1>1, <1>2, PTL DEF Spec

-----------------------------------------------------------------------------
\* Every variable of the pool keeps its type: in particular the slot counter
\* never goes negative.
THEOREM TypeCorrect == Spec => []TypeOK
<1>1. IInv => TypeOK
  BY DEF IInv
<1> QED
  BY <1>1, Invariance, PTL

\* The slot counter of createLimit is exact, and no call waits beside a free
\* slot, for any number of calls and slots.
THEOREM SlotsAreAccounted == Spec => []SlotsAccounted
<1>1. IInv => SlotsAccounted
  BY DEF IInv
<1> QED
  BY <1>1, Invariance, PTL

\* At most MaxConcurrent fns run at once.
THEOREM CapHolds == Spec => []ConcurrencyCap
<1>1. IInv => ConcurrencyCap
  <2> SUFFICES ASSUME IInv PROVE ConcurrencyCap
    OBVIOUS
  <2>1. Flying \subseteq Holders /\ IsFiniteSet(Holders)
    BY TasksAssumption, FS_Subset
    DEF Flying, Holders, InFlight, Holding
  <2>2. Cardinality(Flying) <= Cardinality(Holders)
    BY <2>1, FS_Subset
  <2>3. Cardinality(Flying) \in Nat /\ Cardinality(Holders) \in Nat
    BY <2>1, FS_Subset, FS_CardinalityType
  <2>4. Cardinality(Holders) <= MaxConcurrent
    BY DEF IInv, SlotsAccounted
  <2> QED
    BY <2>2, <2>3, <2>4, MaxConcurrentAssumption DEF ConcurrencyCap
<1> QED
  BY <1>1, Invariance, PTL

\* Calls start in the order they were made, whatever settles when.
THEOREM FifoHolds == Spec => []StartsInSubmissionOrder
<1>1. IInv => StartsInSubmissionOrder
  <2> SUFFICES ASSUME IInv PROVE StartsInSubmissionOrder
    OBVIOUS
  <2>1. started \in Seq(Tasks) /\ Line \in Seq(Tasks) /\ submitted \in Seq(Tasks)
    BY LineType DEF IInv, TypeOK
  <2>2. /\ Len(submitted) = Len(started) + Len(Line)
        /\ \A i \in 1 .. Len(started) + Len(Line) :
             submitted[i] = IF i <= Len(started) THEN started[i]
                                                 ELSE Line[i - Len(started)]
    BY <2>1, ConcatProperties DEF IInv
  <2>3. Len(started) \in Nat /\ Len(Line) \in Nat
    BY <2>1, LenProperties
  <2> DEFINE p == SubSeq(submitted, 1, Len(started))
  <2>4. \A i \in 1 .. Len(started) : submitted[i] \in Tasks
    BY <2>1, <2>2, <2>3, ElementOfSeq
  <2>5. p \in Seq(Tasks) /\ Len(p) = Len(started)
        /\ \A i \in 1 .. Len(started) : p[i] = submitted[i]
    <3>1. \A i \in 1 .. Len(started) - 1 + 1 : p[i] = submitted[1 + i - 1]
      BY <2>3, <2>4, SubSeqProperties
    <3> QED
      BY <2>3, <2>4, <3>1, SubSeqProperties
  <2>6. \A i \in 1 .. Len(started) : p[i] = started[i]
    BY <2>2, <2>3, <2>5
  <2>7. p = started
    BY <2>1, <2>5, <2>6, SeqEqual
  <2> QED
    BY <2>2, <2>3, <2>7 DEF StartsInSubmissionOrder
<1> QED
  BY <1>1, Invariance, PTL

-----------------------------------------------------------------------------
\* The counter, the queue of resolvers and the job queue together implement
\* the contract: one line, first come first served, bounded by the slots.
THEOREM ImplementsPool == Spec => PoolSpec
<1> USE DEF Pool!vars
<1>1. Init => Pool!Init
  <2> SUFFICES ASSUME Init PROVE Pool!Init
    OBVIOUS
  <2>1. Line = <<>>
    BY EmptySeq, ConcatEmptySeq DEF Init, Line
  <2> QED
    BY <2>1 DEF Init, Pool!Init, Flying, InFlight
<1>2. IInv /\ IInv' /\ [Next]_vars => [Pool!Next]_(Pool!vars)
  <2> SUFFICES ASSUME IInv, IInv', [Next]_vars
               PROVE  [Pool!Next]_(Pool!vars)
    OBVIOUS
  <2> DEFINE how(t) == IF pc[t] \in {"resolved", "rejected"}
                         THEN pc[t] ELSE "pending"
             view == [t \in Tasks |-> how(t)]
  <2>0. /\ pc \in [Tasks -> States] /\ jobs \in Seq(Tasks)
        /\ Line \in Seq(Tasks)
    BY LineType DEF IInv, TypeOK
  <2>1. ASSUME NEW t \in Tasks, AcquireFree(t) \/ AcquireBlocked(t)
        PROVE  Pool!Join(t)
    <3>1. pc[t] = "new" /\ (pc' = [pc EXCEPT ![t] = "granted"]
                             \/ pc' = [pc EXCEPT ![t] = "queued"])
      BY <2>1 DEF AcquireFree, AcquireBlocked
    <3>2. Flying' = Flying /\ view' = view /\ t \notin Flying
          /\ view[t] = "pending"
      BY <2>0, <3>1 DEF Flying, InFlight
    <3>3. Line' = Append(Line, t)
      BY <2>1, JoinLine
    <3>4. \A i \in DOMAIN Line : Line[i] # t
      <4>1. \A i \in 1 .. Len(Line) : pc[Line[i]] \in {"granted", "queued"}
        BY ConcatProperties, LenProperties DEF IInv, TypeOK, InLine, Line
      <4>2. DOMAIN Line = 1 .. Len(Line)
        BY <2>0, LenProperties
      <4> QED
        BY <3>1, <4>1, <4>2
    <3> QED
      BY <3>2, <3>3, <3>4 DEF Pool!Join
  <2>2. CASE Resume
    <3> DEFINE h == Head(jobs)
    <3>1. h \in Tasks /\ pc[h] = "granted"
      BY <2>0, <2>2, EmptySeq DEF Resume, IInv, InLine
    <3>2. Line # <<>> /\ Line' = Tail(Line) /\ h = Head(Line)
      BY <2>2, LeaveLine
    <3>3. pc' = [pc EXCEPT ![h] = "running"]
      BY <2>2 DEF Resume
    <3> HIDE DEF h
    <3>4. Flying' = Flying \union {h} /\ view' = view
      BY <2>0, <3>1, <3>3 DEF Flying, InFlight
    <3>5. Cardinality(Flying) < MaxConcurrent
      <4>1. /\ IsFiniteSet(Holders) /\ Flying \subseteq Holders
            /\ h \in Holders \ Flying
        BY <3>1, TasksAssumption, FS_Subset
        DEF Flying, Holders, InFlight, Holding
      <4>2. /\ Cardinality(Flying) <= Cardinality(Holders)
            /\ Cardinality(Flying) # Cardinality(Holders)
            /\ Cardinality(Flying) \in Nat /\ Cardinality(Holders) \in Nat
        BY <4>1, FS_Subset, FS_CardinalityType
      <4>3. Cardinality(Holders) <= MaxConcurrent
        BY DEF IInv, SlotsAccounted
      <4> QED
        BY <4>2, <4>3, MaxConcurrentAssumption
    <3>6. Pool!Begin
      BY <3>2, <3>4, <3>5 DEF Pool!Begin, Pool!Cardinality, Cardinality
    <3> QED
      BY <3>6 DEF Pool!Next
  <2>3. ASSUME NEW t \in Tasks, Settle(t)
        PROVE  Line' = Line /\ Flying' = Flying /\ view' = view
    BY <2>0, <2>3 DEF Settle, Line, Flying, InFlight
  <2>4. ASSUME NEW t \in Tasks, Release(t)
        PROVE  Pool!End(t)
    <3>1. Line' = Line
      BY <2>4, KeepLine
    <3>2. pc[t] \in {"returned", "threw"} /\ t \in Flying
      BY <2>4 DEF Release, ReleaseIdle, ReleaseNext, Flying, InFlight
    <3>3. CASE ReleaseIdle(t)
      <4>1. pc' = [pc EXCEPT ![t] = Outcome(t)]
        BY <3>3 DEF ReleaseIdle
      <4>2. Flying' = Flying \ {t} /\ view' = [view EXCEPT ![t] = Outcome(t)]
        BY <2>0, <3>2, <4>1 DEF Flying, InFlight, Outcome, States
      <4> QED
        BY <3>1, <3>2, <4>2 DEF Pool!End, Outcome
    <3>4. CASE ReleaseNext(t)
      <4> DEFINE h == Head(queue)
      <4>1. h \in Tasks /\ pc[h] = "queued" /\ h # t
        BY <3>2, <3>4, EmptySeq DEF ReleaseNext, IInv, TypeOK, InLine
      <4>2. pc' = [pc EXCEPT ![t] = Outcome(t), ![h] = "granted"]
        BY <3>4 DEF ReleaseNext
      <4> HIDE DEF h
      <4>3. Flying' = Flying \ {t} /\ view' = [view EXCEPT ![t] = Outcome(t)]
        BY <2>0, <3>2, <4>1, <4>2 DEF Flying, InFlight, Outcome, States
      <4> QED
        BY <3>1, <3>2, <4>3 DEF Pool!End, Outcome
    <3> QED
      BY <2>4, <3>3, <3>4 DEF Release
  <2>5. CASE UNCHANGED vars
    BY <2>5 DEF vars, Line, Flying
  <2> QED
    BY <2>1, <2>2, <2>3, <2>4, <2>5 DEF Next, Finished, Pool!Next
<1> QED
  BY <1>1, <1>2, Invariance, PTL DEF Spec, PoolSpec, Pool!Spec
=============================================================================
