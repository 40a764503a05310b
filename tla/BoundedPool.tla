---------------------------- MODULE BoundedPool -----------------------------
(***************************************************************************)
(* The contract of createLimit (concurrency-limiter.ts:9-17), without its  *)
(* counter and its job queue: calls wait in one line, at most              *)
(* MaxConcurrent are busy, the one at the head goes first.                 *)
(***************************************************************************)
EXTENDS Naturals, Sequences, FiniteSets

CONSTANTS Tasks, MaxConcurrent

VARIABLES
  waiting,  \* the line of calls whose fn has not been invoked
  busy,     \* the calls in flight
  settled   \* how each call's promise stands

vars == <<waiting, busy, settled>>

Init ==
  /\ waiting = <<>>
  /\ busy = {}
  /\ settled = [t \in Tasks |-> "pending"]

Join(t) ==
  /\ settled[t] = "pending" /\ t \notin busy
  /\ \A i \in DOMAIN waiting : waiting[i] # t
  /\ waiting' = Append(waiting, t)
  /\ UNCHANGED <<busy, settled>>

Begin ==
  /\ waiting # <<>>
  /\ Cardinality(busy) < MaxConcurrent
  /\ waiting' = Tail(waiting)
  /\ busy' = busy \union {Head(waiting)}
  /\ UNCHANGED settled

End(t) ==
  /\ t \in busy
  /\ busy' = busy \ {t}
  /\ \E outcome \in {"resolved", "rejected"} :
       settled' = [settled EXCEPT ![t] = outcome]
  /\ UNCHANGED waiting

Next == Begin \/ \E t \in Tasks : Join(t) \/ End(t)

Spec == Init /\ [][Next]_vars
=============================================================================
