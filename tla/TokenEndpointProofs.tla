------------------------ MODULE TokenEndpointProofs -------------------------
(***************************************************************************)
(* Theorems about TokenEndpoint: any number of calls, any clock, any       *)
(* lifetimes, any number of close() calls.                                 *)
(***************************************************************************)
EXTENDS TokenEndpoint, TLAPS

LEMMA InitIInv == Init => IInv
BY SentinelsAssumption, BoundsAssumption
DEF Init, IInv, TypeOK, SingleFlight, CacheIsNewest, TokensRedacted,
    InFlightIsLive, Begun

LEMMA TypeStep == TypeOK /\ [Next]_vars => TypeOK'
<1> SUFFICES ASSUME TypeOK, [Next]_vars PROVE TypeOK'
  OBVIOUS
<1> USE SentinelsAssumption, BoundsAssumption, LifetimesAssumption DEF TypeOK
<1>1. ASSUME NEW c \in Calls, Apply(c) PROVE TypeOK'
  BY <1>1 DEF Apply, ApplyHit, ApplyJoin, ApplyFetch, Fresh,
              cache, fetches
<1>2. ASSUME NEW f \in Calls, Respond(f) PROVE TypeOK'
  BY <1>2 DEF Respond, Fetched, FetchFailed, calls, cache
<1>3. ASSUME NEW c \in Calls, Continue(c) PROVE TypeOK'
  BY <1>3 DEF Continue, OwnerGets, OwnerFails, SharerResumes, cache, fetches
<1>4. CASE Close
  BY <1>4 DEF Close, fetches, calls
<1>5. CASE Tick
  BY <1>5 DEF Tick, cache, fetches, calls
<1>6. CASE UNCHANGED vars
  BY <1>6 DEF vars, cache, fetches, calls
<1> QED
  BY <1>1, <1>2, <1>3, <1>4, <1>5, <1>6 DEF Next, Finished

\* One case per action: what a step may not disturb.
LEMMA IInvStep == IInv /\ [Next]_vars => IInv'
<1> SUFFICES ASSUME IInv, [Next]_vars PROVE IInv'
  OBVIOUS
<1>0. TypeOK'
  BY TypeStep DEF IInv
<1> USE <1>0, SentinelsAssumption
    DEF IInv, TypeOK, SingleFlight, CacheIsNewest, TokensRedacted,
        InFlightIsLive, Begun
<1>1. ASSUME NEW c \in Calls, ApplyHit(c) PROVE IInv'
  BY <1>1 DEF ApplyHit, Fresh, cache, fetches
<1>2. ASSUME NEW c \in Calls, ApplyJoin(c) PROVE IInv'
  BY <1>2 DEF ApplyJoin, cache, fetches
<1>3. ASSUME NEW c \in Calls, ApplyFetch(c) PROVE IInv'
  BY <1>3 DEF ApplyFetch
<1>4. ASSUME NEW f \in Calls, Fetched(f) PROVE IInv'
  BY <1>4 DEF Fetched, calls
<1>5. ASSUME NEW f \in Calls, FetchFailed(f) PROVE IInv'
  BY <1>5 DEF FetchFailed, calls, cache
<1>6. ASSUME NEW c \in Calls, OwnerGets(c) PROVE IInv'
  BY <1>6 DEF OwnerGets, cache, fetches
<1>7. ASSUME NEW c \in Calls, OwnerFails(c) PROVE IInv'
  BY <1>7 DEF OwnerFails, fetches
<1>8. ASSUME NEW c \in Calls, SharerResumes(c) PROVE IInv'
  <2>1. /\ awaits[c] \in Calls /\ pc[c] = "waiting" /\ awaits[c] # c
        /\ pc[awaits[c]] # "waiting"
        /\ pc' = [pc EXCEPT ![c] = IF fetch[awaits[c]] = "resolved"
                                     THEN "authorized" ELSE "failed"]
        /\ UNCHANGED <<now, cache, fetches, awaits, secrets, closes>>
    BY <1>8 DEF SharerResumes
  <2>2. inFlight # c
    BY <2>1
  <2> QED
    BY <2>1, <2>2 DEF cache, fetches
<1>9. CASE Close
  BY <1>9 DEF Close, fetches, calls
<1>10. CASE Tick
  BY <1>10 DEF Tick, cache, fetches, calls
<1>11. CASE UNCHANGED vars
  BY <1>11 DEF vars, cache, fetches, calls
<1> QED
  BY <1>1, <1>2, <1>3, <1>4, <1>5, <1>6, <1>7, <1>8, <1>9, <1>10, <1>11
  DEF Next, Apply, Respond, Continue, Finished

LEMMA Invariance == Spec => []IInv
<1>1. Init => IInv
  BY InitIInv
<1>2. IInv /\ [Next]_vars => IInv'
  BY IInvStep
<1> QED
  BY <1>1, <1>2, PTL DEF Spec

\* The cache, the fetches and the calls keep their types.
THEOREM TypeCorrect == Spec => []TypeOK
<1>1. IInv => TypeOK
  BY DEF IInv
<1> QED
  BY <1>1, Invariance, PTL

\* However many calls arrive, and whatever fails or is closed under them, one
\* POST at a time is outstanding between two close() calls.
THEOREM SingleFlightHolds == Spec => []SingleFlight
<1>1. IInv => SingleFlight
  BY DEF IInv
<1> QED
  BY <1>1, Invariance, PTL

\* The serial is a sufficient commit guard: the cache never holds the token of
\* a fetch that close() or a later fetch has superseded.
THEOREM CacheIsNewestHolds == Spec => []CacheIsNewest
<1>1. IInv => CacheIsNewest
  BY DEF IInv
<1> QED
  BY <1>1, Invariance, PTL

\* Every token that authorizes a request was registered for redaction first.
THEOREM TokensRedactedHolds == Spec => []TokensRedacted
<1>1. IInv => TokensRedacted
  BY DEF IInv
<1> QED
  BY <1>1, Invariance, PTL

\* The owner's catch block is enough to keep a rejection from being memoized.
THEOREM RejectionNotMemoizedHolds == Spec => RejectionNotMemoized
<1> DEFINE Step == \A c \in Calls :
                     pc[c] = "idle" /\ pc'[c] = "waiting"
                       => pc[awaits'[c]] # "failed"
<1>1. IInv /\ [Next]_vars => [Step]_vars
  <2> SUFFICES ASSUME IInv, [Next]_vars, NEW c \in Calls,
                      pc[c] = "idle", pc'[c] = "waiting"
               PROVE  pc[awaits'[c]] # "failed"
    OBVIOUS
  <2> USE DEF IInv, TypeOK, InFlightIsLive
  <2>1. ApplyJoin(c) \/ ApplyFetch(c)
    BY DEF Next, Apply, ApplyHit, ApplyJoin, ApplyFetch, Respond, Fetched,
           FetchFailed, Continue, OwnerGets, OwnerFails, SharerResumes,
           Close, Tick, Finished, vars, calls
  <2>2. CASE ApplyJoin(c)
    <3>1. awaits'[c] = inFlight /\ inFlight # None
      BY <2>2 DEF ApplyJoin
    <3> QED
      BY <3>1
  <2>3. CASE ApplyFetch(c)
    <3>1. awaits'[c] = c
      BY <2>3 DEF ApplyFetch
    <3> QED
      BY <3>1
  <2> QED
    BY <2>1, <2>2, <2>3
<1> QED
  BY <1>1, Invariance, PTL DEF Spec, RejectionNotMemoized
=============================================================================
