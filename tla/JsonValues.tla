------------------------------ MODULE JsonValues ------------------------------
(***************************************************************************)
(* Values as the checks of a response see them, their comparison           *)
(* (src/core/deep-equal.ts) and the walk along a path                      *)
(* (src/core/path-walk.ts).  A value is a pair of its kind and its         *)
(* payload: a string is a sequence of fragments, a number a reduced        *)
(* fraction, an object a function of its keys.                             *)
(***************************************************************************)
EXTENDS Integers, Sequences, FiniteSets, SequencesExt

CONSTANTS
  EqualDepth,    \* levels deepEqual descends (200)
  WalkDepth      \* longest path walkPath follows (256)

ASSUME DepthsAssumption == EqualDepth \in Nat /\ WalkDepth \in Nat

Null      == <<"null", 0>>
Undefined == <<"undefined", 0>>
Str(s)    == <<"str", s>>
Boolean(b) == <<"bool", b>>
Arr(s)    == <<"arr", s>>
Obj(f)    == <<"obj", f>>
Kind(v)   == v[1]

\* A fraction with a positive denominator, in lowest terms.
Fraction(n, d) ==
  LET Abs(x) == IF x < 0 THEN -x ELSE x
      sign == IF d < 0 THEN -1 ELSE 1
      Divides(k) == n % k = 0 /\ d % k = 0
      k == CHOOSE k \in 1 .. Abs(d) :
             Divides(k) /\ \A j \in (k + 1) .. Abs(d) : ~Divides(j)
  IN  <<"num", <<(sign * n) \div k, Abs(d) \div k>>>>
Num(n) == <<"num", <<n, 1>>>>
LessThan(x, y) == x[2][1] * y[2][2] < y[2][1] * x[2][2]

\* The sequence of the strings of segs with "." between them.
Dotted(segs) ==
  [i \in 1 .. ((2 * Len(segs)) - 1) |-> IF i % 2 = 1 THEN segs[(i + 1) \div 2] ELSE "."]

\* s occurs in t as consecutive fragments from one of the given places.
OccursAt(s, t, places) ==
  \E i \in places : i + Len(s) - 1 <= Len(t) /\ SubSeq(t, i, i + Len(s) - 1) = s

-----------------------------------------------------------------------------
IsContainer(v) == Kind(v) \in {"arr", "obj"}

\* Of one kind, and the same but for what containers hold.
Alike(x, y) ==
  Kind(x) = Kind(y) /\ IF IsContainer(x) THEN DOMAIN x[2] = DOMAIN y[2] ELSE x = y

\* What two containers of each pair hold in the same place.
PairsBelow(pairs) ==
  UNION {{<<p[1][2][k], p[2][2][k]>> : k \in DOMAIN p[1][2]} :
           p \in {q \in pairs : IsContainer(q[1]) /\ Alike(q[1], q[2])}}

\* A container deeper than the limit equals nothing, itself included.
DeepEqual(x, y) ==
  LET level[d \in 0 .. EqualDepth] == IF d = 0 THEN {<<x, y>>} ELSE PairsBelow(level[d - 1])
  IN  \A d \in 0 .. EqualDepth : \A p \in level[d] :
        Alike(p[1], p[2]) /\ (IsContainer(p[1]) => d < EqualDepth)

NotFound == <<"absent">>
Found(v) == <<"found", v>>
IsFound(r) == r[1] = "found"

\* A segment is <<"key", k>> or <<"index", n>>: arrays have no keys and
\* objects no indices.
StepSegment(v, seg) ==
  CASE seg[1] = "key" /\ Kind(v) = "obj" /\ seg[2] \in DOMAIN v[2] -> Found(v[2][seg[2]])
    [] seg[1] = "index" /\ Kind(v) = "arr" /\ seg[2] + 1 \in DOMAIN v[2] ->
         Found(v[2][seg[2] + 1])
    [] OTHER -> NotFound

Descend(r, seg) == IF IsFound(r) THEN StepSegment(r[2], seg) ELSE NotFound

WalkFrom(v, path) ==
  LET reached[d \in 0 .. Len(path)] ==
        IF d = 0 THEN Found(v) ELSE Descend(reached[d - 1], path[d])
  IN  reached[Len(path)]

\* A null on the way has no segments either, so walkPath's test for it changes
\* nothing.
WalkPath(root, path) ==
  IF Len(path) > WalkDepth \/ (path = <<>> /\ root = Undefined)
  THEN NotFound ELSE WalkFrom(root, path)
=============================================================================
