------------------------- MODULE ConnectionRegistry -------------------------
(***************************************************************************)
(* The run-scoped pool of src/db/pool/connection-registry.ts together with *)
(* the connectors it constructs.  All four engines' connectors share one   *)
(* life cycle, so the engine is not modelled; an unknown name is.          *)
(*                                                                         *)
(* One member of Acquires is one acquire(name).  The call that misses the  *)
(* cache constructs a connector and a promise, both named after it.  The   *)
(* .then/.catch handlers run one job after connect() settles, so there is  *)
(* a gap in which a connector is open and nobody has recorded it.          *)
(***************************************************************************)
EXTENDS Naturals, Sequences, FiniteSets, Functions

CONSTANTS
  Acquires,     \* the acquire() calls of a run
  Names,        \* the keys of the `databases' map
  Unknown,      \* a name that is not configured
  MaxDisposes,  \* bound on the number of disposeAll() calls
  None          \* no connector

ASSUME SentinelsAssumption == None \notin Acquires /\ Unknown \notin Names
ASSUME BoundAssumption == MaxDisposes \in Nat

VARIABLES
  entries,   \* #entries: the promise cached for each name, or None
  acquired,  \* #acquired: the connectors recorded for disposeAll, oldest first
  conn,      \* the connector each call constructed
  name,      \* the name each call asked for
  pc,        \* where each call stands
  holds,     \* the promise a call awaits, then the connector it was given
  disposes,  \* how often disposeAll() ran
  epoch      \* history: `disposes' when a connector was constructed

registry == <<entries, acquired>>
calls == <<pc, holds, name>>
history == <<disposes, epoch>>
vars == <<registry, conn, calls, history>>

\* none, then: connecting -> opened -> connected -> closing -> closed
\*                        -> refused -> failed
ConnStates == {"none", "connecting", "opened", "refused", "connected",
               "failed", "closing", "closed"}

Init ==
  /\ entries = [n \in Names |-> None]
  /\ acquired = <<>>
  /\ conn = [c \in Acquires |-> "none"]
  /\ name = [c \in Acquires |-> Unknown]
  /\ pc = [c \in Acquires |-> "idle"]
  /\ holds = [c \in Acquires |-> None]
  /\ disposes = 0
  /\ epoch = [c \in Acquires |-> 0]

Begin(c, n, how) ==
  /\ pc[c] = "idle"
  /\ pc' = [pc EXCEPT ![c] = how]
  /\ name' = [name EXCEPT ![c] = n]

\* Step 1: somebody's promise for this name is cached.
AcquireHit(c, n) ==
  /\ Begin(c, n, "waiting")
  /\ entries[n] # None
  /\ holds' = [holds EXCEPT ![c] = entries[n]]
  /\ UNCHANGED <<registry, conn, disposes, epoch>>

\* Step 2: the name is not configured.
AcquireUnknown(c) ==
  /\ Begin(c, Unknown, "rejected")
  /\ UNCHANGED <<registry, conn, holds, disposes, epoch>>

\* Step 3: construct, start connecting, cache the promise, all synchronously.
AcquireMiss(c, n) ==
  /\ Begin(c, n, "waiting")
  /\ entries[n] = None
  /\ conn' = [conn EXCEPT ![c] = "connecting"]
  /\ entries' = [entries EXCEPT ![n] = c]
  /\ holds' = [holds EXCEPT ![c] = c]
  /\ epoch' = [epoch EXCEPT ![c] = disposes]
  /\ UNCHANGED <<acquired, disposes>>

\* The connector's connect() settles: it has a handle, or it threw.
ConnectSettles(x) ==
  /\ conn[x] = "connecting"
  /\ \E outcome \in {"opened", "refused"} : conn' = [conn EXCEPT ![x] = outcome]
  /\ UNCHANGED <<registry, calls, history>>

\* Variant: only a connector that is still cached is recorded.
RecordIfCached(x) ==
  /\ conn[x] = "opened"
  /\ conn' = [conn EXCEPT ![x] = "connected"]
  /\ acquired' = IF entries[name[x]] = x THEN Append(acquired, x) ELSE acquired
  /\ UNCHANGED <<entries, calls, history>>

\* .then: record the connector for disposeAll and resolve the promise.
Record(x) ==
  /\ conn[x] = "opened"
  /\ conn' = [conn EXCEPT ![x] = "connected"]
  /\ acquired' = Append(acquired, x)
  /\ UNCHANGED <<entries, calls, history>>

\* Variant: whatever is cached under the name is evicted.
EvictAnything(x) ==
  /\ conn[x] = "refused"
  /\ conn' = [conn EXCEPT ![x] = "failed"]
  /\ entries' = [entries EXCEPT ![name[x]] = None]
  /\ UNCHANGED <<acquired, calls, history>>

\* .catch: forget the promise if it is still the cached one, and reject it.
Evict(x) ==
  /\ conn[x] = "refused"
  /\ conn' = [conn EXCEPT ![x] = "failed"]
  /\ entries' = [n \in Names |-> IF n = name[x] /\ entries[n] = x
                                   THEN None ELSE entries[n]]
  /\ UNCHANGED <<acquired, calls, history>>

\* A caller resumes with the connector or the error.
Resume(c) ==
  /\ pc[c] = "waiting"
  /\ conn[holds[c]] \notin {"connecting", "opened", "refused"}
  /\ pc' = [pc EXCEPT ![c] = IF conn[holds[c]] = "failed" THEN "rejected"
                                                          ELSE "given"]
  /\ UNCHANGED <<registry, conn, holds, name, history>>

\* Variant: the promises stay cached.
DisposeKeepsEntries ==
  /\ disposes < MaxDisposes
  /\ disposes' = disposes + 1
  /\ acquired' = <<>>
  /\ conn' = [x \in Acquires |-> IF x \in Range(acquired) THEN "closing"
                                                          ELSE conn[x]]
  /\ UNCHANGED <<entries, calls, epoch>>

\* disposeAll(): forget everything, start every disconnect.
DisposeAll ==
  /\ disposes < MaxDisposes
  /\ disposes' = disposes + 1
  /\ acquired' = <<>>
  /\ entries' = [n \in Names |-> None]
  /\ conn' = [x \in Acquires |-> IF x \in Range(acquired) THEN "closing"
                                                          ELSE conn[x]]
  /\ UNCHANGED <<calls, epoch>>

\* Variant: no finally block, and the driver's close throws.
DisconnectThrows(x) == conn[x] = "closing" /\ UNCHANGED vars

\* A disconnect() settles; the finally block drops the handle whether the
\* driver closed cleanly or threw.
Disconnected(x) ==
  /\ conn[x] = "closing"
  /\ conn' = [conn EXCEPT ![x] = "closed"]
  /\ UNCHANGED <<registry, calls, history>>

Finished ==
  /\ \A c \in Acquires : pc[c] \in {"given", "rejected"}
  /\ \A x \in Acquires : conn[x] \in {"none", "connected", "failed", "closed"}
  /\ UNCHANGED vars

Acquire(c) ==
  AcquireUnknown(c) \/ \E n \in Names : AcquireHit(c, n) \/ AcquireMiss(c, n)

Work(x) == ConnectSettles(x) \/ Record(x) \/ Evict(x) \/ Disconnected(x)

Next ==
  \/ \E c \in Acquires : Acquire(c) \/ Work(c) \/ Resume(c)
  \/ DisposeAll
  \/ Finished

Spec == Init /\ [][Next]_vars

\* Drivers answer, and the engine runs every handler.
FairSpec ==
  /\ Spec
  /\ \A c \in Acquires : WF_vars(Work(c)) /\ WF_vars(Resume(c))
-----------------------------------------------------------------------------
TypeOK ==
  /\ entries \in [Names -> Acquires \union {None}]
  /\ acquired \in Seq(Acquires)
  /\ conn \in [Acquires -> ConnStates]
  /\ name \in [Acquires -> Names \union {Unknown}]
  /\ pc \in [Acquires -> {"idle", "waiting", "given", "rejected"}]
  /\ holds \in [Acquires -> Acquires \union {None}]
  /\ disposes \in 0 .. MaxDisposes
  /\ epoch \in [Acquires -> 0 .. MaxDisposes]

Live == {"connecting", "opened", "connected"}

\* Exactly one connector per name (lines 80-87): between two disposeAll()
\* calls no name ever has two connectors connecting or connected, and the one
\* it has is the one the next acquire() will be given.
OneConnectorPerName ==
  \A x \in Acquires :
    conn[x] \in Live /\ epoch[x] = disposes => entries[name[x]] = x

\* No leak and no double disconnect: what disposeAll() will disconnect is
\* exactly what is connected, each once, whatever was in flight when an
\* earlier disposeAll() ran.
DisposeCoversConnected ==
  /\ Range(acquired) = {x \in Acquires : conn[x] = "connected"}
  /\ IsInjective(acquired)

\* The cache never holds a promise that has settled badly or a connector that
\* disposeAll() has taken: a later acquire() retries fresh.
CacheIsUsable ==
  \A n \in Names :
    entries[n] # None =>
      conn[entries[n]] \in {"connecting", "opened", "refused", "connected"}

\* The inductive strengthening: the cache is indexed by name, the connectors of
\* this epoch are all in it, and connectors have been constructed by calls.
IInv ==
  /\ TypeOK
  /\ DisposeCoversConnected
  /\ CacheIsUsable
  /\ \A x \in Acquires :
       /\ conn[x] # "none" => name[x] \in Names /\ pc[x] # "idle"
       /\ epoch[x] <= disposes
       /\ conn[x] \in Live \union {"refused"} /\ epoch[x] = disposes
            => entries[name[x]] = x
  /\ \A n \in Names : entries[n] # None => name[entries[n]] = n

\* Every acquire() settles and every disconnect completes.
AllSettle ==
  \A c \in Acquires :
    /\ pc[c] = "waiting" ~> pc[c] \in {"given", "rejected"}
    /\ conn[c] = "closing" ~> conn[c] = "closed"
=============================================================================
