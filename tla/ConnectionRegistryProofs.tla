---------------------- MODULE ConnectionRegistryProofs ----------------------
(***************************************************************************)
(* Theorems about ConnectionRegistry: any calls, any names, any number of  *)
(* disposeAll() calls landing anywhere.                                    *)
(***************************************************************************)
EXTENDS ConnectionRegistry, SequenceTheorems, TLAPS

\* What recording one more connector does to the list disposeAll() works from.
LEMMA RecordOne ==
  ASSUME NEW S, NEW q \in Seq(S), NEW x \in S, IsInjective(q), x \notin Range(q)
  PROVE  /\ Append(q, x) \in Seq(S)
         /\ Range(Append(q, x)) = Range(q) \union {x}
         /\ IsInjective(Append(q, x))
<1>1. /\ Len(q) \in Nat /\ DOMAIN q = 1 .. Len(q)
      /\ Append(q, x) \in Seq(S)
      /\ Len(Append(q, x)) = Len(q) + 1
      /\ \A i \in 1 .. Len(q) : Append(q, x)[i] = q[i]
      /\ Append(q, x)[Len(q) + 1] = x
  BY AppendProperties, LenProperties
<1>2. DOMAIN Append(q, x) = 1 .. Len(q) + 1
  BY <1>1, LenProperties
<1>3. Range(Append(q, x)) = Range(q) \union {x}
  <2>1. ASSUME NEW i \in 1 .. Len(q) + 1
        PROVE  Append(q, x)[i] \in Range(q) \union {x}
    <3>1. CASE i \in 1 .. Len(q)
      BY <1>1, <3>1 DEF Range
    <3>2. CASE i = Len(q) + 1
      BY <1>1, <3>2
    <3> QED
      BY <1>1, <3>1, <3>2
  <2>2. ASSUME NEW i \in 1 .. Len(q)
        PROVE  q[i] \in Range(Append(q, x))
    <3>1. i \in DOMAIN Append(q, x) /\ Append(q, x)[i] = q[i]
      BY <1>1, <1>2
    <3> QED
      BY <3>1 DEF Range
  <2>3. x \in Range(Append(q, x))
    <3>1. Len(q) + 1 \in DOMAIN Append(q, x)
      BY <1>1, <1>2
    <3> QED
      BY <1>1, <3>1 DEF Range
  <2> QED
    BY <1>1, <1>2, <2>1, <2>2, <2>3 DEF Range
<1>4. ASSUME NEW i \in 1 .. Len(q) + 1, NEW j \in 1 .. Len(q) + 1,
             Append(q, x)[i] = Append(q, x)[j]
      PROVE  i = j
  <2>1. \A k \in 1 .. Len(q) : q[k] # x
    BY <1>1 DEF Range
  <2>2. CASE i \in 1 .. Len(q) /\ j \in 1 .. Len(q)
    <3>1. q[i] = q[j]
      BY <1>1, <1>4, <2>2
    <3> QED
      BY <1>1, <2>2, <3>1 DEF IsInjective
  <2>3. CASE i = Len(q) + 1 /\ j \in 1 .. Len(q)
    BY <1>1, <1>4, <2>1, <2>3
  <2>4. CASE j = Len(q) + 1 /\ i \in 1 .. Len(q)
    BY <1>1, <1>4, <2>1, <2>4
  <2> QED
    BY <1>1, <2>2, <2>3, <2>4
<1>5. IsInjective(Append(q, x))
  BY <1>2, <1>4 DEF IsInjective
<1> QED
  BY <1>1, <1>3, <1>5

LEMMA EmptyList == Range(<<>>) = {} /\ IsInjective(<<>>)
<1>1. DOMAIN <<>> = {}
  BY EmptySeq
<1> QED
  BY <1>1 DEF Range, IsInjective

LEMMA InitIInv == Init => IInv
<1> SUFFICES ASSUME Init PROVE IInv
  OBVIOUS
<1>1. TypeOK
  <2>1. acquired \in Seq(Acquires)
    BY EmptySeq DEF Init
  <2>3. disposes \in 0 .. MaxDisposes
    BY BoundAssumption DEF Init
  <2>2. /\ entries \in [Names -> Acquires \union {None}]
        /\ conn \in [Acquires -> ConnStates]
        /\ name \in [Acquires -> Names \union {Unknown}]
        /\ pc \in [Acquires -> {"idle", "waiting", "given", "rejected"}]
        /\ holds \in [Acquires -> Acquires \union {None}]
        /\ epoch \in [Acquires -> 0 .. MaxDisposes]
    BY BoundAssumption DEF Init, ConnStates
  <2> QED
    BY <2>1, <2>2, <2>3 DEF TypeOK
<1>2. DisposeCoversConnected
  BY EmptyList DEF Init, DisposeCoversConnected
<1>3. CacheIsUsable
  BY DEF Init, CacheIsUsable
<1> QED
  BY <1>1, <1>2, <1>3 DEF Init, IInv, Live

LEMMA IInvStep == IInv /\ [Next]_vars => IInv'
<1> SUFFICES ASSUME IInv, [Next]_vars PROVE IInv'
  OBVIOUS
<1> USE SentinelsAssumption, BoundAssumption
    DEF IInv, TypeOK, ConnStates, CacheIsUsable, DisposeCoversConnected, Live
<1>1. ASSUME NEW c \in Acquires, NEW n \in Names, AcquireHit(c, n) PROVE IInv'
  BY <1>1 DEF AcquireHit, Begin, registry
<1>2. ASSUME NEW c \in Acquires, AcquireUnknown(c) PROVE IInv'
  BY <1>2 DEF AcquireUnknown, Begin, registry
<1>3. ASSUME NEW c \in Acquires, NEW n \in Names, AcquireMiss(c, n) PROVE IInv'
  <2>1. /\ entries[n] = None /\ conn[c] = "none" /\ disposes' = disposes
        /\ acquired' = acquired
        /\ entries' = [entries EXCEPT ![n] = c]
        /\ conn' = [conn EXCEPT ![c] = "connecting"]
        /\ name' = [name EXCEPT ![c] = n]
        /\ pc' = [pc EXCEPT ![c] = "waiting"]
        /\ holds' = [holds EXCEPT ![c] = c]
        /\ epoch' = [epoch EXCEPT ![c] = disposes]
    BY <1>3 DEF AcquireMiss, Begin
  <2>2. TypeOK'
    BY <2>1
  <2>3. DisposeCoversConnected'
    BY <2>1
  <2>4. \A x \in Acquires :
          conn[x] \in Live \union {"refused"} /\ epoch[x] = disposes => name[x] # n
    BY <2>1
  <2>5. \A x \in Acquires :
          /\ conn'[x] # "none" => name'[x] \in Names /\ pc'[x] # "idle"
          /\ epoch'[x] <= disposes'
          /\ conn'[x] \in Live \union {"refused"} /\ epoch'[x] = disposes'
               => entries'[name'[x]] = x
    BY <2>1, <2>4
  <2>6. ASSUME NEW m \in Names, entries'[m] # None
        PROVE  /\ conn'[entries'[m]] \in Live \union {"refused"}
               /\ name'[entries'[m]] = m
    <3>1. CASE m = n
      <4>1. entries'[m] = c
        BY <2>1, <3>1
      <4> QED
        BY <2>1, <3>1, <4>1
    <3>2. CASE m # n
      <4>1. entries'[m] = entries[m] /\ entries[m] \in Acquires
        BY <2>1, <2>6, <3>2
      <4>2. conn[entries[m]] \in Live \union {"refused"} /\ name[entries[m]] = m
        BY <2>6, <4>1
      <4>3. entries[m] # c
        BY <2>1, <4>2
      <4> QED
        BY <2>1, <4>1, <4>2, <4>3
    <3> QED
      BY <3>1, <3>2
  <2>7. CacheIsUsable' /\ \A m \in Names : entries'[m] # None => name'[entries'[m]] = m
    BY <2>6
  <2> QED
    BY <2>2, <2>3, <2>5, <2>7
<1>4. ASSUME NEW x \in Acquires, ConnectSettles(x) PROVE IInv'
  BY <1>4 DEF ConnectSettles, registry, calls, history
<1>5. ASSUME NEW x \in Acquires, Record(x) PROVE IInv'
  <2>1. x \notin Range(acquired)
    BY <1>5 DEF Record
  <2>2. /\ acquired' \in Seq(Acquires)
        /\ Range(acquired') = Range(acquired) \union {x}
        /\ IsInjective(acquired')
    BY <1>5, <2>1, RecordOne DEF Record
  <2>3. Range(acquired') = {y \in Acquires : conn'[y] = "connected"}
    BY <1>5, <2>2 DEF Record
  <2> QED
    BY <1>5, <2>2, <2>3 DEF Record, calls, history
<1>6. ASSUME NEW x \in Acquires, Evict(x) PROVE IInv'
  BY <1>6 DEF Evict, calls, history
<1>7. ASSUME NEW c \in Acquires, Resume(c) PROVE IInv'
  BY <1>7 DEF Resume, registry, history
<1>8. CASE DisposeAll
  <2>1. acquired' = <<>> /\ acquired' \in Seq(Acquires)
    BY <1>8, EmptySeq DEF DisposeAll
  <2>2. \A x \in Acquires : conn'[x] # "connected"
    BY <1>8 DEF DisposeAll
  <2>3. Range(acquired') = {x \in Acquires : conn'[x] = "connected"}
        /\ IsInjective(acquired')
    BY <2>1, <2>2, EmptyList
  <2> QED
    BY <1>8, <2>1, <2>2, <2>3 DEF DisposeAll, calls
<1>9. ASSUME NEW x \in Acquires, Disconnected(x) PROVE IInv'
  BY <1>9 DEF Disconnected, registry, calls, history
<1>10. CASE UNCHANGED vars
  BY <1>10 DEF vars, registry, calls, history
<1> QED
  BY <1>1, <1>2, <1>3, <1>4, <1>5, <1>6, <1>7, <1>8, <1>9, <1>10
  DEF Next, Acquire, Work, Finished

LEMMA Invariance == Spec => []IInv
<1>1. Init => IInv
  BY InitIInv
<1>2. IInv /\ [Next]_vars => IInv'
  BY IInvStep
<1> QED
  BY <1>1, <1>2, PTL DEF Spec

\* The registry, its connectors and its callers keep their types.
THEOREM TypeCorrect == Spec => []TypeOK
<1>1. IInv => TypeOK
  BY DEF IInv
<1> QED
  BY <1>1, Invariance, PTL

\* Single flight per name, for any interleaving of acquires, failed connects
\* and disposals: a name never has two live connectors of one epoch.
THEOREM OneConnectorHolds == Spec => []OneConnectorPerName
<1>1. IInv => OneConnectorPerName
  BY DEF IInv, OneConnectorPerName
<1> QED
  BY <1>1, Invariance, PTL

\* disposeAll() always has exactly the connected connectors to disconnect.
THEOREM DisposeCoversHolds == Spec => []DisposeCoversConnected
<1>1. IInv => DisposeCoversConnected
  BY DEF IInv
<1> QED
  BY <1>1, Invariance, PTL

\* The cache never serves a failed or disposed connector.
THEOREM CacheIsUsableHolds == Spec => []CacheIsUsable
<1>1. IInv => CacheIsUsable
  BY DEF IInv
<1> QED
  BY <1>1, Invariance, PTL
=============================================================================
