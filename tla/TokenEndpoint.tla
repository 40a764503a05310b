--------------------------- MODULE TokenEndpoint ----------------------------
(***************************************************************************)
(* The token cache of src/auth/strategies/token-endpoint-strategy.ts.      *)
(*                                                                         *)
(* One member of Calls is one apply(request, context).  A call that finds  *)
(* neither a fresh token nor a fetch to share starts a fetch of its own,   *)
(* so a fetch, and the token it yields, is named after the call that       *)
(* started it.  An action is what runs between two awaits: the synchronous *)
(* prefix of apply(), the continuation of the POST, the catch block of the *)
(* call that owns the fetch, the resumption of a call that shares it.      *)
(***************************************************************************)
EXTENDS Integers

CONSTANTS
  Calls,      \* the apply() calls of a run
  Lifetimes,  \* expires_in - refreshBufferSeconds, in clock ticks
  MaxTime,    \* bound on the clock
  MaxCloses,  \* bound on the number of close() calls
  None,       \* no token, no fetch
  Never       \* the expiresAt of a token whose spec has no expiresInPath

ASSUME LifetimesAssumption == Lifetimes \subseteq Int
ASSUME BoundsAssumption == MaxTime \in Nat /\ MaxCloses \in Nat
ASSUME SentinelsAssumption == None \notin Calls /\ Never \notin Int

VARIABLES
  now,          \* the clock
  cachedToken,  \* #cachedToken: the fetch it came from, or None
  expiresAt,    \* #expiresAt
  inFlight,     \* #inFlight: the fetch whose promise it is, or None
  fetchSerial,  \* #fetchSerial
  fetch,        \* what became of the fetch each call started
  serial,       \* mySerial of each fetch
  fetchTime,    \* fetchTime of each fetch
  pc,           \* where each call stands
  awaits,       \* the fetch a call awaits, or whose token it was given
  secrets,      \* the tokens registered for redaction
  closes,       \* how often close() ran
  epoch         \* history: how often close() had run when a fetch started

cache == <<cachedToken, expiresAt, inFlight, fetchSerial>>
fetches == <<fetch, serial, fetchTime, epoch>>
calls == <<pc, awaits>>
vars == <<now, cache, fetches, calls, secrets, closes>>

Init ==
  /\ now = 0
  /\ cachedToken = None /\ expiresAt = Never /\ inFlight = None
  /\ fetchSerial = 0
  /\ fetch = [c \in Calls |-> "none"]
  /\ serial = [c \in Calls |-> 0]
  /\ fetchTime = [c \in Calls |-> 0]
  /\ epoch = [c \in Calls |-> 0]
  /\ pc = [c \in Calls |-> "idle"]
  /\ awaits = [c \in Calls |-> None]
  /\ secrets = {}
  /\ closes = 0

\* The cached token may still be served.
Fresh == cachedToken # None /\ (expiresAt # Never => now < expiresAt)

\* (a) Cache hit: apply() has its token without awaiting anything.
ApplyHit(c) ==
  /\ pc[c] = "idle"
  /\ Fresh
  /\ pc' = [pc EXCEPT ![c] = "authorized"]
  /\ awaits' = [awaits EXCEPT ![c] = cachedToken]
  /\ UNCHANGED <<now, cache, fetches, secrets, closes>>

\* (b) Coalesce: share the fetch in flight.
ApplyJoin(c) ==
  /\ pc[c] = "idle"
  /\ ~Fresh
  /\ inFlight # None
  /\ pc' = [pc EXCEPT ![c] = "waiting"]
  /\ awaits' = [awaits EXCEPT ![c] = inFlight]
  /\ UNCHANGED <<now, cache, fetches, secrets, closes>>

\* Variant: no coalescing.
ApplyFetchAlways(c) ==
  /\ pc[c] = "idle"
  /\ ~Fresh
  /\ fetchSerial' = fetchSerial + 1
  /\ fetch' = [fetch EXCEPT ![c] = "pending"]
  /\ serial' = [serial EXCEPT ![c] = fetchSerial + 1]
  /\ fetchTime' = [fetchTime EXCEPT ![c] = now]
  /\ epoch' = [epoch EXCEPT ![c] = closes]
  /\ inFlight' = c
  /\ pc' = [pc EXCEPT ![c] = "waiting"]
  /\ awaits' = [awaits EXCEPT ![c] = c]
  /\ UNCHANGED <<now, cachedToken, expiresAt, secrets, closes>>

\* (c) Cold start or refresh: #startFetch, up to its POST.
ApplyFetch(c) ==
  /\ pc[c] = "idle"
  /\ ~Fresh
  /\ inFlight = None
  /\ fetchSerial' = fetchSerial + 1
  /\ fetch' = [fetch EXCEPT ![c] = "pending"]
  /\ serial' = [serial EXCEPT ![c] = fetchSerial + 1]
  /\ fetchTime' = [fetchTime EXCEPT ![c] = now]
  /\ epoch' = [epoch EXCEPT ![c] = closes]
  /\ inFlight' = c
  /\ pc' = [pc EXCEPT ![c] = "waiting"]
  /\ awaits' = [awaits EXCEPT ![c] = c]
  /\ UNCHANGED <<now, cachedToken, expiresAt, secrets, closes>>

\* Variant: the token is cached without being registered.
FetchedUnregistered(f) ==
  /\ fetch[f] = "pending"
  /\ fetch' = [fetch EXCEPT ![f] = "resolved"]
  /\ IF fetchSerial = serial[f]
       THEN cachedToken' = f /\ expiresAt' = Never /\ inFlight' = None
       ELSE UNCHANGED <<cachedToken, expiresAt, inFlight>>
  /\ UNCHANGED <<now, fetchSerial, serial, fetchTime, epoch, calls, secrets,
                 closes>>

\* The POST answered with a token: register it, install it unless close() or a
\* later fetch has moved the serial on, resolve the promise.
Fetched(f) ==
  /\ fetch[f] = "pending"
  /\ fetch' = [fetch EXCEPT ![f] = "resolved"]
  /\ secrets' = secrets \union {f}
  /\ IF fetchSerial = serial[f]
       THEN /\ cachedToken' = f
            /\ \E life \in Lifetimes \union {Never} :
                 expiresAt' = IF life = Never THEN Never ELSE fetchTime[f] + life
            /\ inFlight' = None
       ELSE UNCHANGED <<cachedToken, expiresAt, inFlight>>
  /\ UNCHANGED <<now, fetchSerial, serial, fetchTime, epoch, calls, closes>>

\* The POST failed, or its body held no usable token or expires_in.
FetchFailed(f) ==
  /\ fetch[f] = "pending"
  /\ fetch' = [fetch EXCEPT ![f] = "rejected"]
  /\ UNCHANGED <<now, cache, serial, fetchTime, epoch, calls, secrets, closes>>

\* The owner of a fetch resumes with the token.
OwnerGets(c) ==
  /\ pc[c] = "waiting" /\ awaits[c] = c
  /\ fetch[c] = "resolved"
  /\ pc' = [pc EXCEPT ![c] = "authorized"]
  /\ UNCHANGED <<now, cache, fetches, awaits, secrets, closes>>

\* Variant: the rejected promise stays memoized.
OwnerFailsQuietly(c) ==
  /\ pc[c] = "waiting" /\ awaits[c] = c
  /\ fetch[c] = "rejected"
  /\ pc' = [pc EXCEPT ![c] = "failed"]
  /\ UNCHANGED <<now, cache, fetches, awaits, secrets, closes>>

\* The owner's catch block: evict the rejected promise if it is still there.
OwnerFails(c) ==
  /\ pc[c] = "waiting" /\ awaits[c] = c
  /\ fetch[c] = "rejected"
  /\ inFlight' = IF inFlight = c THEN None ELSE inFlight
  /\ pc' = [pc EXCEPT ![c] = "failed"]
  /\ UNCHANGED <<now, cachedToken, expiresAt, fetchSerial, fetches, awaits,
                 secrets, closes>>

\* Variant: a sharer awaits a rejected promise again and again.
SharerRetries(c) ==
  LET f == awaits[c] IN
  /\ pc[c] = "waiting" /\ f # c
  /\ fetch[f] \in {"resolved", "rejected"}
  /\ pc[f] # "waiting"
  /\ pc' = [pc EXCEPT ![c] = IF fetch[f] = "resolved" THEN "authorized" ELSE @]
  /\ UNCHANGED <<now, cache, fetches, awaits, secrets, closes>>

\* A sharer resumes.  The owner awaited the promise first, so its continuation
\* runs first.
SharerResumes(c) ==
  LET f == awaits[c] IN
  /\ pc[c] = "waiting" /\ f # c
  /\ fetch[f] \in {"resolved", "rejected"}
  /\ pc[f] # "waiting"
  /\ pc' = [pc EXCEPT ![c] = IF fetch[f] = "resolved" THEN "authorized"
                                                      ELSE "failed"]
  /\ UNCHANGED <<now, cache, fetches, awaits, secrets, closes>>

\* Variant: close() does not invalidate the fetch in flight.
CloseKeepsSerial ==
  /\ closes < MaxCloses
  /\ closes' = closes + 1
  /\ cachedToken' = None /\ expiresAt' = Never /\ inFlight' = None
  /\ UNCHANGED <<now, fetchSerial, fetches, calls, secrets>>

\* close(): drop everything and invalidate the commit of a fetch in flight.
Close ==
  /\ closes < MaxCloses
  /\ closes' = closes + 1
  /\ cachedToken' = None /\ expiresAt' = Never /\ inFlight' = None
  /\ fetchSerial' = fetchSerial + 1
  /\ UNCHANGED <<now, fetches, calls, secrets>>

Tick ==
  /\ now < MaxTime
  /\ now' = now + 1
  /\ UNCHANGED <<cache, fetches, calls, secrets, closes>>

Finished ==
  /\ \A c \in Calls : pc[c] \in {"authorized", "failed"}
  /\ UNCHANGED vars

Respond(f) == Fetched(f) \/ FetchFailed(f)
Continue(c) == OwnerGets(c) \/ OwnerFails(c) \/ SharerResumes(c)
Apply(c) == ApplyHit(c) \/ ApplyJoin(c) \/ ApplyFetch(c)

Next ==
  \/ \E c \in Calls : Apply(c) \/ Respond(c) \/ Continue(c)
  \/ Close
  \/ Tick
  \/ Finished

Spec == Init /\ [][Next]_vars

\* The engine runs every continuation, and fetch answers or fails every
\* request (the platform's own timeouts; the seam adds none).
FairSpec ==
  /\ Spec
  /\ \A c \in Calls : WF_vars(Respond(c)) /\ WF_vars(Continue(c))
-----------------------------------------------------------------------------
TypeOK ==
  /\ now \in 0 .. MaxTime
  /\ cachedToken \in Calls \union {None}
  /\ expiresAt \in Int \union {Never}
  /\ inFlight \in Calls \union {None}
  /\ fetchSerial \in Nat
  /\ fetch \in [Calls -> {"none", "pending", "resolved", "rejected"}]
  /\ serial \in [Calls -> Nat]
  /\ fetchTime \in [Calls -> 0 .. MaxTime]
  /\ epoch \in [Calls -> 0 .. MaxCloses]
  /\ pc \in [Calls -> {"idle", "waiting", "authorized", "failed"}]
  /\ awaits \in [Calls -> Calls \union {None}]
  /\ secrets \in SUBSET Calls
  /\ closes \in 0 .. MaxCloses

\* Single flight: between two close() calls at most one POST is outstanding,
\* however many calls arrive while it is (lines 202-208).
SingleFlight ==
  \A f, g \in Calls :
    fetch[f] = "pending" /\ fetch[g] = "pending" /\ epoch[f] = epoch[g]
      => f = g

\* A fetch that close() overtook never fills the cache, and a fetch that
\* answers late never replaces the token of a later one: what is cached comes
\* from the newest fetch since the last close() that yielded a token
\* (lines 239-246).
CacheIsNewest ==
  cachedToken # None =>
    /\ epoch[cachedToken] = closes
    /\ \A f \in Calls :
         fetch[f] = "resolved" /\ epoch[f] = closes
           => serial[f] <= serial[cachedToken]

\* No request is authorized with a token the redactor does not know.
TokensRedacted ==
  \A c \in Calls : pc[c] = "authorized" => awaits[c] \in secrets

\* A rejection is not memoized: once the call that owns a failed fetch has been
\* told, no new call is given that failure (lines 213-216).
RejectionNotMemoized ==
  [][\A c \in Calls :
       pc[c] = "idle" /\ pc'[c] = "waiting" => pc[awaits'[c]] # "failed"]_vars

\* #inFlight names a promise somebody still has to act on: a pending fetch, or
\* one whose rejection its owner is about to evict.  Otherwise apply() would
\* wait on it, and hand out its outcome, for ever.
InFlightIsLive ==
  inFlight # None =>
    /\ fetch[inFlight] \in {"pending", "rejected"}
    /\ pc[inFlight] = "waiting"

\* The inductive strengthening: a fetch may still commit exactly when it is the
\* one in flight, and nothing else that is pending belongs to this epoch.
Begun == {f \in Calls : fetch[f] # "none"}

IInv ==
  /\ TypeOK
  /\ SingleFlight
  /\ CacheIsNewest
  /\ TokensRedacted
  /\ InFlightIsLive
  /\ \A f \in Begun : serial[f] <= fetchSerial /\ epoch[f] <= closes
  /\ \A f \in Begun : serial[f] = fetchSerial => epoch[f] = closes
  /\ \A f \in Begun : awaits[f] = f
  /\ \A f \in Calls : fetch[f] = "pending" /\ epoch[f] = closes => inFlight = f
  /\ inFlight # None => serial[inFlight] = fetchSerial
  /\ \A f \in Calls : fetch[f] = "resolved" => f \in secrets
  /\ cachedToken # None => fetch[cachedToken] = "resolved"
  /\ \A c \in Calls : pc[c] \in {"waiting", "authorized"} => awaits[c] # None
  /\ \A c \in Calls : pc[c] = "idle" => fetch[c] = "none"

\* Every apply() that has begun ends, with a token or an error.
CallsSettle ==
  \A c \in Calls : pc[c] = "waiting" ~> pc[c] \in {"authorized", "failed"}
=============================================================================
