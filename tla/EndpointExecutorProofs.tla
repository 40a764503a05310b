----------------------- MODULE EndpointExecutorProofs -----------------------
(***************************************************************************)
(* What the report of an endpoint says holds for any plan, any retry       *)
(* policy and any number of db_verify blocks.  The status is folded case   *)
(* by case while the properties read it off the whole report, so the       *)
(* invariant carries the place of every case in the report: the attempts   *)
(* at the case under way are its last entries (Underway), those at a case  *)
(* that is settled are consecutive entries (Past), and the two flags are   *)
(* what the settled cases amount to (Folded).                              *)
(***************************************************************************)
EXTENDS EndpointExecutor, SequenceTheorems, FiniteSetTheorems, TLAPS

\* The attempts at the case under way that the report holds.
Tried == IF phase = "sleep" THEN attempt ELSE attempt - 1

Underway ==
  /\ Tried <= Len(log)
  /\ Of(caseNo) = (Len(log) - Tried + 1) .. Len(log)
  /\ \A i \in Of(caseNo) : ~log[i].pass
  /\ \A i \in DOMAIN log : log[i].caseNo \in 1 .. caseNo

\* Case c is settled: failed attempts, then one that passed or was the last allowed.
Settled(c) ==
  \E a, z \in DOMAIN log :
    /\ a <= z /\ Of(c) = a .. z
    /\ \A i \in a .. (z - 1) : ~log[i].pass
    /\ log[z].pass \/ z - a = policy.count

Past == \A c \in 1 .. (caseNo - 1) : Settled(c)

Good(c) == IF policy.strict THEN PassedFirst(c) ELSE Passed(c)

Folded ==
  /\ anyFail <=> \E c \in 1 .. (caseNo - 1) : ~Good(c)
  /\ anyFlaky <=> \E c \in 1 .. (caseNo - 1) : Good(c) /\ ~PassedFirst(c)

\* Where the executor is between two awaits.
Placed ==
  /\ caseNo = Len(plan) + 1 <=> phase \in {"cleanup", "done"}
  /\ caseNo = Len(plan) + 1 => attempt = 1
  /\ phase = "sleep" => attempt <= policy.count
  /\ request = 2 => phase \in {"prepare", "send", "judge"} /\ Kind \in TwoRequests
  /\ status = "running" <=> phase # "done"
  /\ status # "running" =>
       status = IF anyFail THEN "fail" ELSE IF anyFlaky THEN "flaky" ELSE "pass"
  /\ cleaned # "undefined" => phase = "done"

Stopped == late => aborted /\ phase # "judge"

Queried ==
  phase = "judge" =>
    /\ Len(steps) <= Due
    /\ \A i \in DOMAIN steps : steps[i].request = request

IInv ==
  /\ TypeOK /\ Placed /\ Underway /\ Past /\ Folded
  /\ AttemptsInOrder /\ Stopped /\ NothingPassesAfterAbort /\ Queried
-----------------------------------------------------------------------------
(* The report. *)

\* A resolved policy has both settings, whichever blocks are given.
LEMMA PolicyType ==
  ASSUME NEW g, NEW o, NEW c, IsRetryBlock(g), IsRetryBlock(o), IsRetryBlock(c),
         NEW p, p = ResolveRetryPolicy(g, o, c)
  PROVE  DOMAIN p = {"count", "strict"} /\ p.count \in Nat /\ p.strict \in BOOLEAN
<1> DEFINE d == DefaultRetryPolicy
           e == Over(g, d)
           f == Over(o, e)
<1>1. DOMAIN d = {"count", "strict"} /\ d["count"] \in Nat /\ d["strict"] \in BOOLEAN
  BY DEF DefaultRetryPolicy
<1>2. ASSUME NEW x, NEW y, IsRetryBlock(x),
             DOMAIN y = {"count", "strict"}, y["count"] \in Nat, y["strict"] \in BOOLEAN
      PROVE  /\ DOMAIN Over(x, y) = {"count", "strict"}
             /\ Over(x, y)["count"] \in Nat /\ Over(x, y)["strict"] \in BOOLEAN
  BY <1>2 DEF Over, IsRetryBlock
<1> HIDE DEF d
<1>3. DOMAIN e = {"count", "strict"} /\ e["count"] \in Nat /\ e["strict"] \in BOOLEAN
  BY <1>1, <1>2
<1> HIDE DEF e
<1>4. DOMAIN f = {"count", "strict"} /\ f["count"] \in Nat /\ f["strict"] \in BOOLEAN
  BY <1>3, <1>2
<1> HIDE DEF f
<1>5. p = Over(c, f)
  BY DEF ResolveRetryPolicy, d, e, f
<1> QED
  BY <1>2, <1>4, <1>5

LEMMA InitIInv == Init => IInv
<1> SUFFICES ASSUME Init PROVE IInv
  OBVIOUS
<1>1. plan \in Seq(Kinds) /\ Len(plan) \in 1 .. MaxCases
  BY BoundsAssumption DEF Init
<1>2. DOMAIN policy = {"count", "strict"} /\ policy.count \in Nat /\ policy.strict \in BOOLEAN
  BY PolicyType, RetriesAssumption DEF Init
<1>3. TypeOK
  <2>1. attempt \in 1 .. policy.count + 1 /\ caseNo \in 1 .. Len(plan) + 1
    BY <1>1, <1>2 DEF Init
  <2>2. steps \in Seq([ok : BOOLEAN, request : {1, 2}]) /\ log \in Seq(Attempts)
    BY EmptySeq DEF Init
  <2> QED
    BY <1>1, <1>2, <2>1, <2>2 DEF Init, TypeOK
<1>4. Placed /\ Stopped /\ Queried
  BY <1>1, BoundsAssumption DEF Init, Placed, Stopped, Queried
<1>5. Underway /\ Past /\ Folded
  BY DEF Init, Underway, Tried, Of, Past, Folded
<1>6. AttemptsInOrder /\ NothingPassesAfterAbort
  BY DEF Init, AttemptsInOrder, NothingPassesAfterAbort
<1> QED
  BY <1>3, <1>4, <1>5, <1>6 DEF IInv

\* An attempt is under way.
Trying == phase \in {"prepare", "send", "judge"}

\* What a new entry does to the places of the report.
LEMMA RecordedPlaces ==
  ASSUME IInv, Trying, NEW pass \in BOOLEAN, Record(pass), NEW now, now = caseNo
  PROVE  /\ Len(log') = Len(log) + 1 /\ DOMAIN log' = 1 .. (Len(log) + 1)
         /\ \A i \in DOMAIN log : log'[i] = log[i]
         /\ log'[Len(log) + 1] = [caseNo |-> caseNo, attempt |-> attempt,
                                  pass |-> pass, late |-> late]
         /\ Len(log) \in Nat /\ DOMAIN log = 1 .. Len(log)
         /\ \A c \in Nat : c # now => Of(c)' = Of(c)
         /\ Of(now) = (Len(log) - attempt + 2) .. Len(log)
         /\ Of(now)' = (Len(log) - attempt + 2) .. (Len(log) + 1)
         /\ attempt - 1 <= Len(log)
         /\ caseNo \in 1 .. Len(plan) /\ Len(plan) \in Nat
         /\ attempt \in 1 .. policy.count + 1 /\ policy.count \in Nat
<1> DEFINE entry == [caseNo |-> caseNo, attempt |-> attempt, pass |-> pass, late |-> late]
<1>1. log \in Seq(Attempts) /\ log' = Append(log, entry)
  BY DEF IInv, TypeOK, Record
<1>2. /\ caseNo \in 1 .. Len(plan) /\ Len(plan) \in Nat
      /\ attempt \in 1 .. policy.count + 1 /\ policy.count \in Nat
  BY DEF IInv, TypeOK, Placed, Trying
<1>3. /\ Len(log') = Len(log) + 1 /\ DOMAIN log' = 1 .. (Len(log) + 1)
      /\ \A i \in DOMAIN log : log'[i] = log[i]
      /\ log'[Len(log) + 1] = entry
      /\ Len(log) \in Nat /\ DOMAIN log = 1 .. Len(log)
  BY <1>1
<1>4. entry.caseNo = caseNo
  OBVIOUS
<1> HIDE DEF entry
<1>5. \A c \in Nat : c # now => Of(c)' = Of(c)
  BY <1>3, <1>4 DEF Of
<1>6. Of(now) = (Len(log) - attempt + 2) .. Len(log) /\ attempt - 1 <= Len(log)
  BY <1>2, <1>3 DEF IInv, Underway, Tried, Trying
<1>7. Of(now)' = Of(now) \union {Len(log) + 1}
  BY <1>3, <1>4 DEF Of
<1>8. (Len(log) - attempt + 2) .. Len(log) \union {Len(log) + 1}
        = (Len(log) - attempt + 2) .. (Len(log) + 1)
  BY <1>2, <1>3, <1>6
<1> QED
  BY <1>2, <1>3, <1>5, <1>6, <1>7, <1>8 DEF entry

\* A case that is settled is unaffected by later entries.
LEMMA SettledStays ==
  ASSUME IInv, Trying, NEW pass \in BOOLEAN, Record(pass), NEW c \in 1 .. (caseNo - 1)
  PROVE  /\ Settled(c)'
         /\ Passed(c)' <=> Passed(c)
         /\ PassedFirst(c)' <=> PassedFirst(c)
         /\ Good(c)' <=> Good(c)
<1>1. /\ DOMAIN log' = 1 .. (Len(log) + 1) /\ \A i \in DOMAIN log : log'[i] = log[i]
      /\ Len(log) \in Nat /\ DOMAIN log = 1 .. Len(log)
      /\ \A d \in Nat : d # caseNo => Of(d)' = Of(d)
      /\ caseNo \in 1 .. Len(plan) /\ Len(plan) \in Nat
  BY RecordedPlaces
<1>2. Of(c)' = Of(c) /\ Of(c) \subseteq DOMAIN log
  BY <1>1 DEF Of
<1>3. policy' = policy /\ policy.count \in Nat
  BY DEF Record, config, IInv, TypeOK
<1>4. Settled(c)
  BY DEF IInv, Past
<1>5. Settled(c)'
  <2>1. PICK a \in DOMAIN log, z \in DOMAIN log :
          /\ a <= z /\ Of(c) = a .. z
          /\ \A i \in a .. (z - 1) : ~log[i].pass
          /\ log[z].pass \/ z - a = policy.count
    BY <1>4 DEF Settled
  <2>2. a \in DOMAIN log' /\ z \in DOMAIN log' /\ log'[z] = log[z]
    BY <1>1, <2>1
  <2>3. \A i \in a .. (z - 1) : ~log'[i].pass
    BY <1>1, <2>1
  <2> QED
    BY <1>2, <1>3, <2>1, <2>2, <2>3 DEF Settled
<1>6. (Passed(c)' <=> Passed(c)) /\ (PassedFirst(c)' <=> PassedFirst(c))
  BY <1>1, <1>2 DEF Passed, PassedFirst
<1> QED
  BY <1>3, <1>5, <1>6 DEF Good

\* The case under way is settled by an attempt that passes or is the last.
LEMMA SettlesCase ==
  ASSUME IInv, Trying, NEW pass \in BOOLEAN, Record(pass), pass \/ Spent,
         NEW now, now = caseNo
  PROVE  /\ Settled(now)'
         /\ Good(now)' <=> CaseStatus(pass) # "fail"
         /\ PassedFirst(now)' <=> CaseStatus(pass) = "pass"
<1> DEFINE n == Len(log)
<1>1. /\ DOMAIN log' = 1 .. (n + 1) /\ \A i \in DOMAIN log : log'[i] = log[i]
      /\ log'[n + 1].pass = pass
      /\ n \in Nat /\ DOMAIN log = 1 .. n
      /\ Of(now) = (n - attempt + 2) .. n
      /\ Of(now)' = (n - attempt + 2) .. (n + 1)
      /\ attempt - 1 <= n
      /\ attempt \in 1 .. policy.count + 1 /\ policy.count \in Nat
  <2>1. log'[n + 1] = [caseNo |-> caseNo, attempt |-> attempt, pass |-> pass, late |-> late]
    BY RecordedPlaces
  <2>2. log'[n + 1].pass = pass
    BY <2>1
  <2> QED
    BY <2>2, RecordedPlaces
<1>2. \A i \in Of(now) : ~log[i].pass
  BY DEF IInv, Underway
<1>3. policy' = policy /\ policy.strict \in BOOLEAN
  BY DEF Record, config, IInv, TypeOK
<1> HIDE DEF n
<1>4. \A i \in (n - attempt + 2) .. n : ~log'[i].pass
  BY <1>1, <1>2
<1>5. Settled(now)'
  <2>1. pass \/ attempt = policy.count + 1
    BY <1>1 DEF Spent
  <2>2. n - attempt + 2 \in DOMAIN log' /\ n + 1 \in DOMAIN log' /\ n - attempt + 2 <= n + 1
    BY <1>1
  <2>3. log'[n + 1].pass \/ (n + 1) - (n - attempt + 2) = policy'.count
    BY <1>1, <1>3, <2>1
  <2>4. \A i \in (n - attempt + 2) .. ((n + 1) - 1) : ~log'[i].pass
    BY <1>1, <1>4
  <2> QED
    BY <1>1, <2>2, <2>3, <2>4 DEF Settled
<1>6. Passed(now)' <=> pass
  BY <1>1, <1>4 DEF Passed
<1>7. PassedFirst(now)' <=> pass /\ attempt = 1
  <2>1. ASSUME pass, attempt = 1 PROVE PassedFirst(now)'
    <3>1. Of(now)' = {n + 1} /\ log'[n + 1].pass
      BY <1>1, <2>1
    <3> QED
      BY <1>1, <3>1 DEF PassedFirst
  <2>2. ASSUME PassedFirst(now)' PROVE pass /\ attempt = 1
    BY <1>1, <1>4, <2>2 DEF PassedFirst
  <2> QED
    BY <2>1, <2>2
<1> QED
  BY <1>1, <1>3, <1>5, <1>6, <1>7 DEF Good, CaseStatus

\* What a recorded attempt leaves of the rest of the state.
LEMMA RecordedState ==
  ASSUME IInv, Trying, NEW pass \in BOOLEAN, Record(pass)
  PROVE  TypeOK' /\ Placed' /\ Stopped' /\ Queried'
<1>1. /\ caseNo \in 1 .. Len(plan) /\ Len(plan) \in Nat
      /\ attempt \in 1 .. policy.count + 1 /\ policy.count \in Nat
  BY DEF IInv, TypeOK, Placed, Trying
<1>2. UNCHANGED <<plan, policy, cleanup, aborted, late, cleaned, status>>
      /\ request' = 1 /\ steps' = <<>>
  BY DEF Record, config
<1>3. \/ /\ pass \/ Spent
         /\ caseNo' = caseNo + 1 /\ attempt' = 1
         /\ phase' = IF caseNo = Len(plan) THEN "cleanup" ELSE "begin"
         /\ anyFail' \in BOOLEAN /\ anyFlaky' \in BOOLEAN
      \/ /\ ~Spent
         /\ caseNo' = caseNo /\ attempt' = attempt /\ phase' = "sleep"
         /\ anyFail' = anyFail /\ anyFlaky' = anyFlaky
  BY DEF Record, IInv, TypeOK
<1>4. TypeOK'
  <2>1. [caseNo |-> caseNo, attempt |-> attempt, pass |-> pass, late |-> late] \in Attempts
    BY <1>1, BoundsAssumption DEF Attempts, IInv, TypeOK
  <2>2. log' \in Seq(Attempts)
    BY <2>1, AppendProperties DEF Record, IInv, TypeOK
  <2>3. caseNo' \in 1 .. Len(plan') + 1 /\ attempt' \in 1 .. policy'.count + 1
    BY <1>1, <1>2, <1>3
  <2>4. phase' \in {"begin", "sleep", "cleanup"} /\ anyFail' \in BOOLEAN /\ anyFlaky' \in BOOLEAN
    BY <1>3 DEF IInv, TypeOK
  <2>5. steps' \in Seq([ok : BOOLEAN, request : {1, 2}])
    BY <1>2, EmptySeq
  <2> QED
    BY <1>2, <2>2, <2>3, <2>4, <2>5 DEF IInv, TypeOK
<1>5. Placed'
  <2>1. status = "running" /\ cleaned = "undefined"
    BY DEF IInv, Placed, Trying
  <2> QED
    BY <1>1, <1>2, <1>3, <2>1 DEF Placed, Spent
<1>6. Stopped' /\ Queried'
  BY <1>2, <1>3 DEF IInv, Stopped, Queried
<1> QED
  BY <1>4, <1>5, <1>6

\* The new entry follows the last one, and what comes next follows the new one.
LEMMA RecordedOrder ==
  ASSUME IInv, Trying, NEW pass \in BOOLEAN, Record(pass)
  PROVE  AttemptsInOrder'
<1> DEFINE n == Len(log)
           next(a) == [caseNo |-> a.caseNo + 1, attempt |-> 1]
           again(a) == [caseNo |-> a.caseNo, attempt |-> a.attempt + 1]
           after(a) == IF a.pass \/ a.attempt = policy.count + 1 THEN next(a) ELSE again(a)
           entry == [caseNo |-> caseNo, attempt |-> attempt, pass |-> pass, late |-> late]
<1>1. /\ Len(log') = n + 1 /\ DOMAIN log' = 1 .. (n + 1)
      /\ \A i \in DOMAIN log : log'[i] = log[i]
      /\ log'[n + 1] = entry
      /\ n \in Nat /\ DOMAIN log = 1 .. n
      /\ attempt \in 1 .. policy.count + 1 /\ policy.count \in Nat
  BY RecordedPlaces
<1>2. policy' = policy
  BY DEF Record, config
<1>3. \A i \in DOMAIN log :
        after(log[i]) = IF i < n THEN [caseNo |-> log[i + 1].caseNo, attempt |-> log[i + 1].attempt]
                        ELSE [caseNo |-> caseNo, attempt |-> attempt]
  <2>1. phase # "sleep"
    BY DEF Trying
  <2>2. AttemptsInOrder
    BY DEF IInv
  <2> SUFFICES ASSUME NEW i \in DOMAIN log
               PROVE  after(log[i]) =
                        IF i < n THEN [caseNo |-> log[i + 1].caseNo, attempt |-> log[i + 1].attempt]
                        ELSE [caseNo |-> caseNo, attempt |-> attempt]
    OBVIOUS
  <2>3. i \in 1 .. n
    BY <1>1
  <2>4. CASE i < n
    BY <2>2, <2>3, <2>4 DEF AttemptsInOrder
  <2>5. CASE i = n
    BY <2>1, <2>2, <2>5 DEF AttemptsInOrder
  <2> QED
    BY <1>1, <2>3, <2>4, <2>5
<1>4. after(entry) = [caseNo |-> caseNo',
                      attempt |-> IF phase' = "sleep" THEN attempt' + 1 ELSE attempt']
  <2>1. entry.pass = pass /\ entry.caseNo = caseNo /\ entry.attempt = attempt
    OBVIOUS
  <2>2. pass \/ Spent <=> pass \/ attempt = policy.count + 1
    BY <1>1 DEF Spent
  <2>3. CASE pass \/ Spent
    BY <2>1, <2>2, <2>3 DEF Record
  <2>4. CASE ~(pass \/ Spent)
    BY <2>1, <2>2, <2>4 DEF Record
  <2> QED
    BY <2>3, <2>4
<1>5. entry.caseNo = caseNo /\ entry.attempt = attempt
  OBVIOUS
<1> HIDE DEF n, entry
<1>6. ASSUME NEW i \in 1 .. (n + 1)
      PROVE  after(log'[i]) =
               [caseNo |-> IF i = n + 1 THEN caseNo' ELSE log'[i + 1].caseNo,
                attempt |-> IF i < n + 1 THEN log'[i + 1].attempt
                            ELSE IF phase' = "sleep" THEN attempt' + 1 ELSE attempt']
  <2>1. CASE i < n
    BY <1>1, <1>3, <2>1
  <2>2. CASE i = n
    <3>1. i \in DOMAIN log /\ log'[i] = log[i] /\ log'[i + 1] = entry /\ ~(i < n) /\ i # n + 1
      BY <1>1, <2>2
    <3>2. after(log[i]) = [caseNo |-> caseNo, attempt |-> attempt]
      BY <1>3, <3>1
    <3> QED
      BY <1>1, <1>5, <2>2, <3>1, <3>2
  <2>3. CASE i = n + 1
    BY <1>1, <1>4, <2>3
  <2> QED
    BY <1>1, <2>1, <2>2, <2>3
<1> QED
  BY <1>1, <1>2, <1>6 DEF AttemptsInOrder

\* The report stays the one the invariant describes.
LEMMA RecordKeeps ==
  ASSUME IInv, Trying, NEW pass \in BOOLEAN, Record(pass), late => ~pass
  PROVE  IInv'
<1> DEFINE n == Len(log)
<1>1. /\ Len(log') = n + 1 /\ DOMAIN log' = 1 .. (n + 1)
      /\ \A i \in DOMAIN log : log'[i] = log[i]
      /\ log'[n + 1] = [caseNo |-> caseNo, attempt |-> attempt, pass |-> pass, late |-> late]
      /\ n \in Nat /\ DOMAIN log = 1 .. n
      /\ attempt - 1 <= n
      /\ caseNo \in 1 .. Len(plan) /\ Len(plan) \in Nat
      /\ attempt \in 1 .. policy.count + 1 /\ policy.count \in Nat
  BY RecordedPlaces
<1>2. \A i \in DOMAIN log : log[i].caseNo \in 1 .. caseNo
  BY DEF IInv, Underway
<1>3. TypeOK' /\ Placed' /\ Stopped' /\ Queried'
  BY RecordedState
<1>4. policy' = policy
  BY DEF Record, config
<1>5. NothingPassesAfterAbort'
  <2>1. log'[n + 1].late => ~log'[n + 1].pass
    BY <1>1
  <2> QED
    BY <1>1, <2>1 DEF IInv, NothingPassesAfterAbort
<1>6. CASE pass \/ Spent
  <2>1. /\ caseNo' = caseNo + 1 /\ attempt' = 1
        /\ phase' \in {"cleanup", "begin"}
        /\ anyFail' = (anyFail \/ CaseStatus(pass) = "fail")
        /\ anyFlaky' = (anyFlaky \/ CaseStatus(pass) = "flaky")
    BY <1>6 DEF Record
  <2>2. Underway'
    <3>1. \A i \in DOMAIN log' : log'[i].caseNo \in 1 .. caseNo
      BY <1>1, <1>2
    <3>2. Of(caseNo)' = {}
      BY <1>1, <2>1, <3>1 DEF Of
    <3>3. Tried' = 0
      BY <2>1 DEF Tried
    <3>4. \A i \in DOMAIN log' : log'[i].caseNo \in 1 .. caseNo'
      BY <1>1, <2>1, <3>1
    <3> QED
      BY <1>1, <3>2, <3>3, <3>4 DEF Underway
  <2>3. Past'
    <3>1. ASSUME NEW c \in 1 .. (caseNo' - 1) PROVE Settled(c)'
      <4>1. CASE c = caseNo
        BY <1>6, <4>1, SettlesCase
      <4>2. CASE c # caseNo
        BY <1>1, <2>1, <4>2, SettledStays
      <4> QED
        BY <4>1, <4>2
    <3> QED
      BY <3>1 DEF Past
  <2>4. Folded'
    <3>1. \A c \in 1 .. (caseNo - 1) : /\ Good(c)' <=> Good(c)
                                       /\ PassedFirst(c)' <=> PassedFirst(c)
      BY SettledStays
    <3>2. ASSUME NEW c, c = caseNo
          PROVE  /\ Good(c)' <=> CaseStatus(pass) # "fail"
                 /\ PassedFirst(c)' <=> CaseStatus(pass) = "pass"
      BY <1>6, <3>2, SettlesCase
    <3>3. CaseStatus(pass) \in {"pass", "fail", "flaky"}
      BY DEF CaseStatus
    <3>4. 1 .. (caseNo' - 1) = 1 .. (caseNo - 1) \union {caseNo}
      BY <1>1, <2>1
    <3>5. anyFail' <=> \E c \in 1 .. (caseNo' - 1) : ~Good(c)'
      BY <2>1, <3>1, <3>2, <3>4 DEF IInv, Folded
    <3>6. anyFlaky' <=> \E c \in 1 .. (caseNo' - 1) : Good(c)' /\ ~PassedFirst(c)'
      BY <2>1, <3>1, <3>2, <3>3, <3>4 DEF IInv, Folded
    <3> QED
      BY <3>5, <3>6 DEF Folded
  <2> QED
    BY <1>3, <1>5, <2>2, <2>3, <2>4, RecordedOrder DEF IInv
<1>7. CASE ~(pass \/ Spent)
  <2>1. /\ caseNo' = caseNo /\ attempt' = attempt /\ phase' = "sleep"
        /\ anyFail' = anyFail /\ anyFlaky' = anyFlaky
    BY <1>7 DEF Record
  <2>2. Underway'
    <3>1. \A i \in DOMAIN log' : log'[i].caseNo \in 1 .. caseNo
      BY <1>1, <1>2
    <3>2. ASSUME NEW now, now = caseNo
          PROVE  /\ Of(now) = (n - attempt + 2) .. n
                 /\ Of(now)' = (n - attempt + 2) .. (n + 1)
      BY <3>2, RecordedPlaces
    <3>3. Of(caseNo)' = (n - attempt + 2) .. (n + 1)
      BY <2>1, <3>2 DEF Of
    <3>4. \A i \in (n - attempt + 2) .. n : ~log[i].pass
      BY <3>2 DEF IInv, Underway
    <3>5. \A i \in (n - attempt + 2) .. n : i \in DOMAIN log
      BY <1>1
    <3>6. ~log'[n + 1].pass
      BY <1>1, <1>7
    <3>7. ASSUME NEW i \in Of(caseNo)' PROVE ~log'[i].pass
      <4>1. i = n + 1 \/ i \in (n - attempt + 2) .. n
        BY <1>1, <3>3
      <4>2. CASE i \in (n - attempt + 2) .. n
        <5>1. log'[i] = log[i]
          BY <1>1, <3>5, <4>2
        <5> QED
          BY <3>4, <4>2, <5>1
      <4> QED
        BY <3>6, <4>1, <4>2
    <3>8. Tried' = attempt
      BY <2>1 DEF Tried
    <3>9. Of(caseNo)' = (Len(log') - Tried' + 1) .. Len(log') /\ Tried' <= Len(log')
      <4>1. n - attempt + 2 = (n + 1) - attempt + 1 /\ attempt <= n + 1
        BY <1>1
      <4> QED
        BY <1>1, <3>3, <3>8, <4>1
    <3>10. \A i \in DOMAIN log' : log'[i].caseNo \in 1 .. caseNo'
      BY <2>1, <3>1
    <3> QED
      BY <3>7, <3>9, <3>10 DEF Underway
  <2>3. Past'
    BY <2>1, SettledStays DEF Past
  <2>4. Folded'
    BY <2>1, SettledStays DEF IInv, Folded
  <2> QED
    BY <1>3, <1>5, <2>2, <2>3, <2>4, RecordedOrder DEF IInv
<1> QED
  BY <1>6, <1>7

-----------------------------------------------------------------------------
(* The steps that record nothing. *)

\* What is reported stays true of a step that reports nothing.
LEMMA ReportStays ==
  ASSUME IInv, UNCHANGED <<log, caseNo, anyFail, anyFlaky, policy>>, Tried' = Tried,
         attempt' \in Nat
  PROVE  Underway' /\ Past' /\ Folded' /\ AttemptsInOrder' /\ NothingPassesAfterAbort'
<1>1. attempt \in Nat
  BY DEF IInv, TypeOK
<1>2. Underway'
  BY DEF IInv, Underway, Of
<1>3. Past'
  BY DEF IInv, Past, Settled, Of
<1>4. Folded'
  BY DEF IInv, Folded, Good, Passed, PassedFirst, Of
<1>5. (IF phase' = "sleep" THEN attempt' + 1 ELSE attempt')
        = (IF phase = "sleep" THEN attempt + 1 ELSE attempt)
  <2>1. (IF phase = "sleep" THEN attempt + 1 ELSE attempt) = Tried + 1
    BY <1>1 DEF Tried
  <2>2. \A x \in Nat : (x - 1) + 1 = x
    OBVIOUS
  <2>3. (IF phase' = "sleep" THEN attempt' + 1 ELSE attempt') = Tried' + 1
    <3>1. CASE phase' = "sleep"
      BY <3>1 DEF Tried
    <3>2. CASE phase' # "sleep"
      BY <2>2, <3>2 DEF Tried
    <3> QED
      BY <3>1, <3>2
  <2> QED
    BY <2>1, <2>3
<1>6. AttemptsInOrder'
  BY <1>5 DEF IInv, AttemptsInOrder
<1>7. NothingPassesAfterAbort'
  BY DEF IInv, NothingPassesAfterAbort
<1> QED
  BY <1>2, <1>3, <1>4, <1>6, <1>7

\* Begin keeps the invariant: a retry is an attempt the policy still allows.
LEMMA BeginKeeps == ASSUME IInv, Begin PROVE IInv'
<1>1. /\ policy.count \in Nat /\ attempt \in 1 .. policy.count + 1
      /\ phase = "sleep" => attempt <= policy.count
  BY DEF IInv, TypeOK, Placed
<1>2. TypeOK'
  <2>1. attempt' \in 1 .. policy'.count + 1
    BY <1>1 DEF Begin, config
  <2> QED
    BY <2>1 DEF IInv, TypeOK, Begin, config, tally
<1>3. Placed'
  BY DEF IInv, Placed, TypeOK, Begin, config, tally, Kind
<1>4. Stopped' /\ Queried'
  BY DEF Begin, Stopped, Queried
<1>5. Tried' = Tried /\ attempt' \in Nat
  BY <1>1 DEF Begin, Tried
<1>6. UNCHANGED <<log, caseNo, anyFail, anyFlaky, policy>>
  BY DEF Begin, config, tally
<1> QED
  BY <1>2, <1>3, <1>4, <1>5, <1>6, ReportStays DEF IInv

\* What the steps within an attempt share: they leave the report and the attempt alone.
Within ==
  /\ Trying /\ phase' \in {"prepare", "send", "judge"} /\ request' \in {1, 2}
  /\ request' = 2 => Kind \in TwoRequests
  /\ UNCHANGED <<config, tally, caseNo, attempt, aborted, late, cleaned, status>>

LEMMA WithinKeeps ==
  ASSUME IInv, Within, steps' \in Seq([ok : BOOLEAN, request : {1, 2}]),
         Queried', late => phase' # "judge"
  PROVE  IInv'
<1>1. TypeOK'
  BY DEF IInv, TypeOK, Within, config, tally
<1>2. Placed'
  BY DEF IInv, Placed, Within, Trying, config, tally, Kind
<1>3. Stopped'
  BY DEF IInv, Stopped, Within
<1>4. Tried' = Tried /\ attempt' \in Nat
  BY DEF IInv, TypeOK, Within, Trying, Tried
<1>5. UNCHANGED <<log, caseNo, anyFail, anyFlaky, policy>>
  BY DEF Within, config, tally
<1> QED
  BY <1>1, <1>2, <1>3, <1>4, <1>5, ReportStays DEF IInv

LEMMA PreparedKeeps == ASSUME IInv, Prepared PROVE IInv'
<1>1. Within
  BY DEF IInv, TypeOK, Placed, Prepared, Within, Trying
<1>2. Queried' /\ steps' \in Seq([ok : BOOLEAN, request : {1, 2}]) /\ phase' # "judge"
  BY DEF IInv, TypeOK, Prepared, Queried
<1> QED
  BY <1>1, <1>2, WithinKeeps

LEMMA RespondedKeeps == ASSUME IInv, Responded PROVE IInv'
<1>1. Within
  BY DEF IInv, TypeOK, Placed, Responded, Within, Trying
<1>2. steps' \in Seq([ok : BOOLEAN, request : {1, 2}])
  BY EmptySeq DEF Responded
<1>3. Queried'
  <2>1. Due' \in Nat
    BY BoundsAssumption DEF Due
  <2> QED
    BY <2>1 DEF Responded, Queried
<1>4. ~late
  BY DEF IInv, Stopped, Responded
<1> QED
  BY <1>1, <1>2, <1>3, <1>4, WithinKeeps

LEMMA VerifiedKeeps == ASSUME IInv, Verified PROVE IInv'
<1>1. /\ phase = "judge" /\ Len(steps) < Due
      /\ UNCHANGED <<config, tally, place, aborted, late, cleaned, status>>
  BY DEF Verified, QueriesLeft
<1>2. /\ request \in {1, 2} /\ steps \in Seq([ok : BOOLEAN, request : {1, 2}])
      /\ \A i \in DOMAIN steps : steps[i].request = request
      /\ Due \in Nat
  BY <1>1, BoundsAssumption DEF IInv, TypeOK, Queried, Due
<1>3. PICK ok \in BOOLEAN : steps' = Append(steps, [ok |-> ok, request |-> request])
  BY DEF Verified
<1> DEFINE step == [ok |-> ok, request |-> request]
<1>4. step \in [ok : BOOLEAN, request : {1, 2}] /\ step.request = request
  BY <1>2
<1>5. steps' = Append(steps, step)
  BY <1>3
<1> HIDE DEF step
<1>6. /\ steps' \in Seq([ok : BOOLEAN, request : {1, 2}])
      /\ Len(steps') = Len(steps) + 1
      /\ \A i \in DOMAIN steps' : steps'[i].request = request
  <2>1. /\ steps' \in Seq([ok : BOOLEAN, request : {1, 2}])
        /\ Len(steps') = Len(steps) + 1 /\ DOMAIN steps' = 1 .. (Len(steps) + 1)
        /\ steps'[Len(steps) + 1] = step
        /\ \A i \in 1 .. Len(steps) : steps'[i] = steps[i]
    BY <1>2, <1>4, <1>5, AppendProperties
  <2>2. DOMAIN steps = 1 .. Len(steps) /\ Len(steps) \in Nat
    BY <1>2
  <2> QED
    BY <1>2, <1>4, <2>1, <2>2
<1>7. Queried'
  <2>1. Due' = Due /\ request' = request
    BY <1>1 DEF Due, Kind, config, place
  <2>2. Len(steps) \in Nat
    BY <1>2
  <2> QED
    BY <1>1, <1>2, <1>6, <2>1, <2>2 DEF Queried
<1>8. Within
  BY <1>1, <1>2 DEF IInv, Placed, Within, Trying, place
<1>9. ~late
  BY <1>1 DEF IInv, Stopped
<1> QED
  BY <1>6, <1>7, <1>8, <1>9, WithinKeeps

LEMMA GoRoundKeeps == ASSUME IInv, GoRound PROVE IInv'
<1>1. Within
  BY DEF GoRound, Within, Trying
<1>2. Queried' /\ steps' \in Seq([ok : BOOLEAN, request : {1, 2}]) /\ phase' # "judge"
  BY DEF IInv, TypeOK, GoRound, Queried
<1> QED
  BY <1>1, <1>2, WithinKeeps

\* A pass is recorded only from a response in hand, which a late attempt has not.
LEMMA JudgeKeeps == ASSUME IInv, Judge PROVE IInv'
<1>1. phase = "judge" /\ \E pass \in BOOLEAN : Record(pass)
  BY DEF Judge
<1>2. ~late
  BY <1>1 DEF IInv, Stopped
<1> QED
  BY <1>1, <1>2, RecordKeeps DEF Trying

LEMMA ThrowKeeps == ASSUME IInv, PrepareThrows \/ SendThrows \/ VerifyThrows PROVE IInv'
<1>1. Trying /\ Record(FALSE)
  BY DEF PrepareThrows, SendThrows, VerifyThrows, QueriesLeft, Trying
<1> QED
  BY <1>1, RecordKeeps

LEMMA ReturnKeeps ==
  ASSUME IInv, phase = "cleanup", Return,
         cleaned' \in {"undefined", "ok", "failed", "unresolved"}
  PROVE  IInv'
<1>1. TypeOK'
  BY DEF IInv, TypeOK, Return, config, tally
<1>2. Placed'
  BY DEF IInv, Placed, Return, config, tally, Kind
<1>3. Stopped' /\ Queried'
  BY DEF IInv, Stopped, Queried, Return
<1>4. Tried' = Tried /\ attempt' \in Nat
  BY DEF IInv, TypeOK, Return, Tried
<1>5. UNCHANGED <<log, caseNo, anyFail, anyFlaky, policy>>
  BY DEF Return, config, tally
<1> QED
  BY <1>1, <1>2, <1>3, <1>4, <1>5, ReportStays DEF IInv

LEMMA CleaningKeeps == ASSUME IInv, Cleaning PROVE IInv'
<1>1. cleaned \in {"undefined", "ok", "failed", "unresolved"}
  BY DEF IInv, TypeOK
<1>2. /\ phase = "cleanup" /\ Return
      /\ cleaned' \in {"undefined", "ok", "failed", "unresolved"}
  BY <1>1 DEF Cleaning, NoCleanup, CleanupUnresolved, CleanupQuery
<1> QED
  BY <1>2, ReturnKeeps

\* The timer fires: an attempt under way began before it.
LEMMA TimeoutKeeps == ASSUME IInv, Timeout PROVE IInv'
<1>1. /\ ~aborted /\ aborted' = TRUE
      /\ UNCHANGED <<config, tally, place, steps, late, cleaned, status>>
  BY DEF Timeout
<1>2. TypeOK'
  BY <1>1 DEF IInv, TypeOK, config, tally, place
<1>3. Placed' /\ Queried'
  BY <1>1 DEF IInv, Placed, Queried, Due, config, tally, place, Kind
<1>4. Stopped'
  BY <1>1 DEF IInv, Stopped
<1>5. Tried' = Tried /\ attempt' \in Nat
  BY <1>1 DEF IInv, TypeOK, Tried, place
<1>6. UNCHANGED <<log, caseNo, anyFail, anyFlaky, policy>>
  BY <1>1 DEF config, tally, place
<1> QED
  BY <1>2, <1>3, <1>4, <1>5, <1>6, ReportStays DEF IInv

LEMMA StutterKeeps == ASSUME IInv, UNCHANGED vars PROVE IInv'
<1>1. UNCHANGED <<config, tally, place, steps, aborted, late, cleaned, status>>
  BY DEF vars
<1>2. TypeOK'
  BY <1>1 DEF IInv, TypeOK, config, tally, place
<1>3. Placed' /\ Queried' /\ Stopped'
  BY <1>1 DEF IInv, Placed, Queried, Stopped, Due, config, tally, place, Kind
<1>4. Tried' = Tried /\ attempt' \in Nat
  BY <1>1 DEF IInv, TypeOK, Tried, place
<1>5. UNCHANGED <<log, caseNo, anyFail, anyFlaky, policy>>
  BY <1>1 DEF config, tally, place
<1> QED
  BY <1>2, <1>3, <1>4, <1>5, ReportStays DEF IInv

LEMMA NextIInv == IInv /\ [Next]_vars => IInv'
<1> SUFFICES ASSUME IInv, [Next]_vars PROVE IInv'
  OBVIOUS
<1>1. CASE Begin
  BY <1>1, BeginKeeps
<1>2. CASE Authorizing
  BY <1>2, PreparedKeeps, ThrowKeeps DEF Authorizing
<1>3. CASE Sending
  BY <1>3, RespondedKeeps, ThrowKeeps DEF Sending
<1>4. CASE Querying
  BY <1>4, VerifiedKeeps, ThrowKeeps DEF Querying
<1>5. CASE Judging
  BY <1>5, JudgeKeeps, GoRoundKeeps DEF Judging
<1>6. CASE Cleaning
  BY <1>6, CleaningKeeps
<1>7. CASE Timeout
  BY <1>7, TimeoutKeeps
<1>8. CASE Finished \/ UNCHANGED vars
  BY <1>8, StutterKeeps DEF Finished
<1> QED
  BY <1>1, <1>2, <1>3, <1>4, <1>5, <1>6, <1>7, <1>8 DEF Next

LEMMA AlwaysIInv == Spec => []IInv
<1> QED
  BY InitIInv, NextIInv, PTL DEF Spec
-----------------------------------------------------------------------------
(* The theorems. *)

\* Type correctness of an endpoint's turn.
THEOREM TypeCorrect == Spec => []TypeOK
<1>1. IInv => TypeOK
  BY DEF IInv
<1> QED
  BY <1>1, AlwaysIInv, PTL

\* The flags folded case by case amount to the status the whole report shows.
LEMMA FoldedAddsUp == IInv => StatusAddsUp
<1> SUFFICES ASSUME IInv, status # "running" PROVE StatusAddsUp
  BY DEF StatusAddsUp
<1>1. plan \in Seq(Kinds) /\ policy.strict \in BOOLEAN /\ anyFail \in BOOLEAN /\ anyFlaky \in BOOLEAN
  BY DEF IInv, TypeOK
<1>2. caseNo = Len(plan) + 1 /\ phase = "done"
  BY DEF IInv, TypeOK, Placed
<1>3. 1 .. (caseNo - 1) = DOMAIN plan
  BY <1>1, <1>2
<1>4. /\ anyFail <=> \E c \in DOMAIN plan : ~Good(c)
      /\ anyFlaky <=> \E c \in DOMAIN plan : Good(c) /\ ~PassedFirst(c)
  BY <1>3 DEF IInv, Folded
<1>5. \A c \in DOMAIN plan : PassedFirst(c) => Good(c)
  BY DEF Good, Passed, PassedFirst
<1>6. status = IF anyFail THEN "fail" ELSE IF anyFlaky THEN "flaky" ELSE "pass"
  BY DEF IInv, Placed
<1>7. CASE anyFail
  <2>1. \E c \in DOMAIN plan : ~(IF policy.strict THEN PassedFirst(c) ELSE Passed(c))
    BY <1>4, <1>7 DEF Good
  <2>2. status = "fail"
    BY <1>6, <1>7
  <2>3. (CASE \E c \in DOMAIN plan : ~(IF policy.strict THEN PassedFirst(c) ELSE Passed(c)) -> "fail"
           [] \A c \in DOMAIN plan : PassedFirst(c) -> "pass"
           [] OTHER -> "flaky") = "fail"
    <3>1. ~ \A c \in DOMAIN plan : PassedFirst(c)
      BY <1>5, <2>1 DEF Good
    <3> QED
      BY <2>1, <3>1
  <2> QED
    BY <2>2, <2>3 DEF StatusAddsUp
<1>8. CASE ~anyFail /\ anyFlaky
  BY <1>4, <1>6, <1>8 DEF StatusAddsUp, Good
<1>9. CASE ~anyFail /\ ~anyFlaky
  BY <1>4, <1>5, <1>6, <1>9 DEF StatusAddsUp, Good
<1> QED
  BY <1>7, <1>8, <1>9

\* The report of an endpoint holds together (endpoint-executor.ts:166-200 and
\* executeWithRetry): its attempts follow the plan and the retry policy, and its
\* status is what they add up to.
THEOREM ReportAddsUp == Spec => []AttemptsAddUp
<1>1. IInv => AttemptsAddUp
  BY FoldedAddsUp DEF IInv, AttemptsAddUp
<1> QED
  BY <1>1, AlwaysIInv, PTL

\* An attempt that begins after the watchdog's abort cannot pass, however many
\* cases and retries are left.
THEOREM AbortStopsPasses == Spec => []NothingPassesAfterAbort
<1>1. IInv => NothingPassesAfterAbort
  BY DEF IInv
<1> QED
  BY <1>1, AlwaysIInv, PTL

\* A settled case has passed or used up its attempts.
LEMMA SettledCase ==
  ASSUME log \in Seq(Attempts), policy.count \in Nat, NEW c, Settled(c)
  PROVE  Passed(c) \/ Cardinality(Of(c)) = policy.count + 1
<1>1. PICK a \in DOMAIN log, z \in DOMAIN log :
        /\ a <= z /\ Of(c) = a .. z
        /\ log[z].pass \/ z - a = policy.count
  BY DEF Settled
<1>2. a \in Int /\ z \in Int
  BY <1>1
<1>3. CASE log[z].pass
  BY <1>1, <1>2, <1>3 DEF Passed
<1>4. CASE z - a = policy.count
  <2>1. Cardinality(a .. z) = z - a + 1
    BY <1>1, <1>2, FS_Interval
  <2> QED
    BY <1>1, <1>4, <2>1
<1> QED
  BY <1>1, <1>3, <1>4

\* The cleanup comes after the last attempt of the last case.
LEMMA CleanedLast == IInv => CleanupIsLast
<1> SUFFICES ASSUME IInv, cleaned # "undefined" PROVE CleanupIsLast
  BY DEF CleanupIsLast
<1>1. phase = "done" /\ caseNo = Len(plan) + 1
  BY DEF IInv, Placed
<1>2. plan \in Seq(Kinds) /\ log \in Seq(Attempts) /\ policy.count \in Nat
  BY DEF IInv, TypeOK
<1>3. \A c \in DOMAIN plan : Settled(c)
  BY <1>1, <1>2 DEF IInv, Past
<1> QED
  BY <1>1, <1>2, <1>3, SettledCase DEF CleanupIsLast

\* A pass of a case about the database is recorded behind all its queries.
LEMMA PassIsGated ==
  ASSUME IInv, [Next]_vars, Len(log') > Len(log), Last(log').pass,
         Kind \in {"db_state", "put_db_state"}
  PROVE  /\ Len(steps) = DbSteps /\ DbVerifyOk
         /\ \A i \in DOMAIN steps :
              steps[i].request = IF Kind = "put_db_state" THEN 2 ELSE 1
<1>1. log \in Seq(Attempts) /\ request \in {1, 2}
      /\ steps \in Seq([ok : BOOLEAN, request : {1, 2}])
  BY DEF IInv, TypeOK
<1>2. log' # log
  BY <1>1
<1>3. \/ Record(FALSE)
      \/ /\ phase = "judge" /\ ~QueriesLeft /\ MayPass
         /\ request = 2 \/ Kind \notin TwoRequests
  BY <1>2 DEF Next, Begin, Authorizing, Prepared, PrepareThrows, Sending, Responded,
              SendThrows, Querying, Verified, VerifyThrows, Judging, Judge, GoRound,
              Cleaning, NoCleanup, CleanupUnresolved, CleanupQuery, Return, Timeout,
              Finished, vars, tally
<1>4. ~Record(FALSE)
  <2> SUFFICES ASSUME Record(FALSE) PROVE FALSE
    OBVIOUS
  <2> DEFINE entry == [caseNo |-> caseNo, attempt |-> attempt, pass |-> FALSE, late |-> late]
  <2>1. log' = Append(log, entry)
    BY DEF Record
  <2>2. ~entry.pass
    OBVIOUS
  <2> HIDE DEF entry
  <2>3. Last(log') = entry
    BY <1>1, <2>1 DEF Last
  <2> QED
    BY <2>2, <2>3
<1>5. /\ phase = "judge" /\ ~(Len(steps) < Due) /\ MayPass
      /\ request = 2 \/ Kind \notin TwoRequests
  BY <1>3, <1>4 DEF QueriesLeft
<1>6. /\ Len(steps) <= Due
      /\ \A i \in DOMAIN steps : steps[i].request = request
      /\ request = 2 => Kind \in TwoRequests
  BY <1>5 DEF IInv, Queried, Placed
<1>7. request = IF Kind = "put_db_state" THEN 2 ELSE 1
  BY <1>1, <1>5, <1>6 DEF TwoRequests
<1>8. Due = DbSteps
  BY <1>1, <1>7 DEF Due
<1>9. Len(steps) = DbSteps
  BY <1>1, <1>5, <1>6, <1>8, BoundsAssumption
<1>10. DbVerifyOk
  BY <1>5, <1>7 DEF MayPass
<1> QED
  BY <1>6, <1>7, <1>9, <1>10

\* Verify, then clean up (db-verify-runner.ts:266-268): a case about the database
\* passes behind all its queries only, the cleanup comes behind all attempts.
THEOREM DatabaseOrder == Spec => DatabaseStepsInOrder
<1> DEFINE Gated == Len(log') > Len(log) /\ Last(log').pass
                      /\ Kind \in {"db_state", "put_db_state"}
                    => /\ Len(steps) = DbSteps /\ DbVerifyOk
                       /\ \A i \in DOMAIN steps :
                            steps[i].request = IF Kind = "put_db_state" THEN 2 ELSE 1
<1>1. IInv /\ [Next]_vars => [Gated]_vars
  BY PassIsGated
<1>2. Spec => [][Gated]_vars
  BY <1>1, AlwaysIInv, PTL DEF Spec
<1>3. Spec => []CleanupIsLast
  BY CleanedLast, AlwaysIInv, PTL
<1> QED
  BY <1>2, <1>3, PTL DEF DatabaseStepsInOrder, DbGate
=============================================================================
