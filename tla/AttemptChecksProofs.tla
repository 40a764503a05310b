-------------------------- MODULE AttemptChecksProofs --------------------------
(***************************************************************************)
(* What holds of every attempt, on every engine, for every query and every *)
(* exchange: the database runs the query with each reference replaced by   *)
(* its own value, and a case about the database does not pass on queries   *)
(* that were never answered.                                               *)
(***************************************************************************)
EXTENDS AttemptChecks, SequenceTheorems, FiniteSetTheorems, WellFoundedInduction, TLAPS

LEMMA Least ==
  ASSUME NEW T, T \subseteq Nat, T # {}
  PROVE  \E m \in T : \A n \in T : m <= n
<1>1. IsWellFoundedOn(OpToRel(<,Nat), Nat)
  BY NatLessThanWellFounded
<1>2. PICK x \in T : \A y \in T : ~(<<y, x>> \in OpToRel(<, Nat))
  BY <1>1, WFMin
<1>3. \A y \in T : ~(y < x)
  BY <1>2 DEF OpToRel
<1> QED
  BY <1>3

\* Induction, for a set.
LEMMA NatSetInduction ==
  ASSUME NEW S, 0 \in S, \A n \in Nat : n \in S => n + 1 \in S
  PROVE  Nat \subseteq S
<1> SUFFICES ASSUME Nat \ S # {} PROVE FALSE
  OBVIOUS
<1>1. PICK m \in Nat \ S : \A n \in Nat \ S : m <= n
  BY Least
<1>2. m # 0 /\ m - 1 \in Nat
  BY <1>1
<1>3. m - 1 \in S
  BY <1>1, <1>2
<1> QED
  BY <1>1, <1>2, <1>3

\* Sequences as functions.
LEMMA SeqIsSeq ==
  ASSUME NEW s
  PROVE  /\ IsSeq(s) <=> \E n \in Nat : s = [i \in 1 .. n |-> s[i]]
         /\ IsSeq(s) => Len(s) \in Nat /\ DOMAIN s = 1 .. Len(s)
BY DEF IsSeq, ToSet

LEMMA SeqOfFunction ==
  ASSUME NEW n \in Nat, NEW s, s = [i \in 1 .. n |-> s[i]]
  PROVE  IsSeq(s) /\ Len(s) = n
BY DEF IsSeq, ToSet

\* The concatenations of the first sequences, as FlattenSeq computes them.
Gathers(seqs, n, f) ==
  /\ f = [i \in 1 .. n |-> f[i]]
  /\ \A i \in 1 .. n : f[i] = IF i = 1 THEN seqs[i] ELSE f[i - 1] \o seqs[i]

\* There is such a sequence of concatenations, and FlattenSeq takes its last.
LEMMA GathererExists ==
  ASSUME NEW seqs, NEW n \in Nat
  PROVE  \E f : Gathers(seqs, n, f)
<1> DEFINE T == {k \in Nat : \E f : Gathers(seqs, k, f)}
<1>1. 0 \in T
  <2>1. Gathers(seqs, 0, [i \in 1 .. 0 |-> i])
    BY DEF Gathers
  <2> QED
    BY <2>1
<1>2. ASSUME NEW k \in Nat, k \in T PROVE k + 1 \in T
  <2>1. PICK f : Gathers(seqs, k, f)
    BY <1>2
  <2> DEFINE g == [i \in 1 .. (k + 1) |->
                     IF i <= k THEN f[i]
                     ELSE IF k = 0 THEN seqs[1] ELSE f[k] \o seqs[k + 1]]
  <2>2. ASSUME NEW i \in 1 .. (k + 1)
         PROVE g[i] = IF i = 1 THEN seqs[i] ELSE g[i - 1] \o seqs[i]
    <3>1. CASE i <= k
      <4>0. i \in 1 .. k
        BY <3>1
      <4>1. f[i] = IF i = 1 THEN seqs[i] ELSE f[i - 1] \o seqs[i]
        BY <2>1, <4>0, Zenon DEF Gathers
      <4>2. i # 1 => g[i - 1] = f[i - 1]
        BY <3>1
      <4> QED
        BY <3>1, <4>1, <4>2
    <3>2. CASE i = k + 1 /\ k = 0
      BY <3>2
    <3>3. CASE i = k + 1 /\ k # 0
      <4>1. g[i - 1] = f[k]
        BY <3>3
      <4> QED
        BY <3>3, <4>1
    <3> QED
      BY <3>1, <3>2, <3>3
  <2>3. g = [i \in 1 .. (k + 1) |-> g[i]]
    OBVIOUS
  <2> HIDE DEF g
  <2>4. Gathers(seqs, k + 1, g)
    BY <2>2, <2>3 DEF Gathers
  <2> QED
    BY <2>4
<1> HIDE DEF T
<1>3. n \in T
  BY <1>1, <1>2, NatSetInduction
<1> QED
  BY <1>3 DEF T

LEMMA GathererIsIt ==
  ASSUME NEW seqs, IsSeq(seqs), Len(seqs) # 0
  PROVE  \E f : Gathers(seqs, Len(seqs), f) /\ FlattenSeq(seqs) = f[Len(seqs)]
<1> DEFINE N == Len(seqs)
           flatten == CHOOSE f : f = [i \in 1 .. N |->
                        IF i = 1 THEN seqs[i] ELSE f[i - 1] \o seqs[i]]
<1>1. N \in Nat
  BY DEF IsSeq
<1>2. FlattenSeq(seqs) = flatten[N]
  BY DEF FlattenSeq
<1>3. PICK f : Gathers(seqs, N, f)
  BY <1>1, GathererExists
<1>4. f = [i \in 1 .. N |-> IF i = 1 THEN seqs[i] ELSE f[i - 1] \o seqs[i]]
  BY <1>3, Zenon DEF Gathers
<1>5. flatten = [i \in 1 .. N |-> IF i = 1 THEN seqs[i] ELSE flatten[i - 1] \o seqs[i]]
  BY <1>4, Zenon
<1> HIDE DEF flatten
<1>6. Gathers(seqs, N, flatten)
  BY <1>5, Zenon DEF Gathers
<1> QED
  BY <1>2, <1>6

LEMMA InSeqIsSeq ==
  ASSUME NEW X, NEW u \in Seq(X)
  PROVE  IsSeq(u) /\ Len(u) \in Nat /\ DOMAIN u = 1 .. Len(u)
<1>1. Len(u) \in Nat /\ u = [i \in 1 .. Len(u) |-> u[i]]
  OBVIOUS
<1> QED
  BY <1>1, SeqOfFunction

\* u has the members of s and then those of t.
Joins(u, s, t) ==
  /\ IsSeq(u)
  /\ Len(u) = Len(s) + Len(t)
  /\ \A i \in 1 .. Len(s) + Len(t) : u[i] = IF i <= Len(s) THEN s[i] ELSE t[i - Len(s)]

LEMMA ConcatIsSeq ==
  ASSUME NEW s, NEW t, IsSeq(s), IsSeq(t), NEW u, u = s \o t
  PROVE  Joins(u, s, t) /\ IsSeq(u)
<1>1. /\ s \in Seq(ToSet(s) \union ToSet(t)) /\ t \in Seq(ToSet(s) \union ToSet(t))
  BY SeqMonotonic DEF IsSeq
<1>2. /\ u \in Seq(ToSet(s) \union ToSet(t))
      /\ Len(u) = Len(s) + Len(t)
      /\ \A i \in 1 .. Len(s) + Len(t) :
           u[i] = IF i <= Len(s) THEN s[i] ELSE t[i - Len(s)]
  BY <1>1, ConcatProperties
<1>3. IsSeq(u)
  BY <1>2, InSeqIsSeq
<1> QED
  BY <1>2, <1>3 DEF Joins

\* Sequences are equal when their members are.
LEMMA SameSeq ==
  ASSUME NEW s, NEW t, IsSeq(s), IsSeq(t), Len(s) = Len(t),
         \A i \in 1 .. Len(s) : s[i] = t[i]
  PROVE  s = t
<1>1. s = [i \in 1 .. Len(s) |-> s[i]] /\ t = [i \in 1 .. Len(t) |-> t[i]]
  BY SeqIsSeq
<1> QED
  BY <1>1

LEMMA ConcatIsAssociative ==
  ASSUME NEW s, NEW t, NEW u, IsSeq(s), IsSeq(t), IsSeq(u)
  PROVE  (s \o t) \o u = s \o (t \o u)
<1> DEFINE m == Len(s)
           n == Len(t)
           k == Len(u)
<1>1. m \in Nat /\ n \in Nat /\ k \in Nat
  BY SeqIsSeq
<1>2. PICK a : a = s \o t /\ IsSeq(a) /\ Joins(a, s, t)
  BY ConcatIsSeq, Zenon
<1>3. PICK b : b = t \o u /\ IsSeq(b) /\ Joins(b, t, u)
  BY ConcatIsSeq, Zenon
<1>4. PICK l : l = a \o u /\ Joins(l, a, u)
  BY <1>2, ConcatIsSeq, Zenon
<1>5. PICK r : r = s \o b /\ Joins(r, s, b)
  BY <1>3, ConcatIsSeq, Zenon
<1>6. /\ IsSeq(l) /\ Len(l) = (m + n) + k
      /\ \A i \in 1 .. (m + n) + k :
           l[i] = IF i <= m + n THEN a[i] ELSE u[i - (m + n)]
  BY <1>1, <1>2, <1>4 DEF Joins
<1>7. /\ IsSeq(r) /\ Len(r) = m + (n + k)
      /\ \A i \in 1 .. m + (n + k) : r[i] = IF i <= m THEN s[i] ELSE b[i - m]
  BY <1>1, <1>3, <1>5 DEF Joins
<1>8. /\ \A i \in 1 .. m + n : a[i] = IF i <= m THEN s[i] ELSE t[i - m]
      /\ \A i \in 1 .. n + k : b[i] = IF i <= n THEN t[i] ELSE u[i - n]
  BY <1>2, <1>3 DEF Joins
<1> HIDE DEF m, n, k
<1>9. ASSUME NEW i \in 1 .. (m + n) + k PROVE l[i] = r[i]
  <2>1. CASE i <= m
    BY <1>1, <1>8, <1>6, <1>7, <2>1
  <2>2. CASE ~(i <= m) /\ i <= m + n
    <3>1. l[i] = t[i - m]
      BY <1>1, <1>8, <1>6, <2>2
    <3>2. i - m \in 1 .. n + k /\ i - m <= n /\ r[i] = b[i - m]
      BY <1>1, <1>7, <2>2
    <3> QED
      BY <1>8, <3>1, <3>2
  <2>3. CASE ~(i <= m + n)
    <3>1. l[i] = u[i - (m + n)]
      BY <1>1, <1>6, <2>3
    <3>2. /\ i - m \in 1 .. n + k /\ ~(i - m <= n) /\ r[i] = b[i - m]
          /\ (i - m) - n = i - (m + n)
      BY <1>1, <1>7, <2>3
    <3> QED
      BY <1>8, <3>1, <3>2
  <2> QED
    BY <2>1, <2>2, <2>3
<1>10. Len(l) = Len(r)
  BY <1>1, <1>6, <1>7
<1>11. l = r
  BY <1>6, <1>7, <1>9, <1>10, SameSeq
<1> QED
  BY <1>2, <1>3, <1>4, <1>5, <1>11, Zenon

LEMMA EmptyIsSeq ==
  /\ IsSeq(<< >>) /\ Len(<< >>) = 0
  /\ \A s : IsSeq(s) => s \o << >> = s /\ << >> \o s = s /\ (Len(s) = 0 => s = << >>)
<1>1. IsSeq(<< >>) /\ Len(<< >>) = 0
  BY DEF IsSeq, ToSet
<1>2. ASSUME NEW s, IsSeq(s) PROVE s \o << >> = s /\ << >> \o s = s /\ (Len(s) = 0 => s = << >>)
  BY <1>2, ConcatEmptySeq, EmptySeq DEF IsSeq
<1> QED
  BY <1>1, <1>2

LEMMA OneIsSeq ==
  ASSUME NEW x
  PROVE  IsSeq(<<x>>) /\ Len(<<x>>) = 1 /\ <<x>>[1] = x
BY DEF IsSeq, ToSet

-----------------------------------------------------------------------------
(* Concatenations of sequences, step by step.                              *)

Steps(seqs, f) ==
  /\ f[0] = << >>
  /\ \A n \in 0 .. Len(seqs) : IsSeq(f[n])
  /\ \A n \in 1 .. Len(seqs) : f[n] = f[n - 1] \o seqs[n]

AllSeqs(seqs) == IsSeq(seqs) /\ \A i \in DOMAIN seqs : IsSeq(seqs[i])

LEMMA Gathering ==
  ASSUME NEW seqs, AllSeqs(seqs)
  PROVE  \E f : Steps(seqs, f) /\ FlattenSeq(seqs) = f[Len(seqs)]
<1> DEFINE N == Len(seqs)
<1>1. N \in Nat /\ DOMAIN seqs = 1 .. N /\ IsSeq(seqs)
  BY SeqIsSeq DEF AllSeqs
<1>2. CASE N = 0
  <2> DEFINE f == [n \in 0 .. 0 |-> << >>]
  <2>1. seqs = << >> /\ FlattenSeq(seqs) = << >>
    BY <1>1, <1>2, EmptyIsSeq DEF FlattenSeq
  <2>2. Steps(seqs, f) /\ f[N] = << >>
    BY <1>2, EmptyIsSeq DEF Steps
  <2> QED
    BY <2>1, <2>2
<1>3. CASE N # 0
  <2>1. PICK g : Gathers(seqs, N, g) /\ FlattenSeq(seqs) = g[N]
    BY <1>1, <1>3, GathererIsIt
  <2> DEFINE f == [n \in 0 .. N |-> IF n = 0 THEN << >> ELSE g[n]]
             T == {n \in Nat : n \in 0 .. N => IsSeq(f[n])}
  <2>2. ASSUME NEW n \in 1 .. N PROVE f[n] = f[n - 1] \o seqs[n]
    <3>1. g[n] = IF n = 1 THEN seqs[n] ELSE g[n - 1] \o seqs[n]
      BY <2>1, Zenon DEF Gathers
    <3>2. IsSeq(seqs[n])
      BY <1>1 DEF AllSeqs
    <3>3. n = 1 => f[n - 1] \o seqs[n] = seqs[n]
      BY <3>2, EmptyIsSeq
    <3> QED
      BY <1>1, <3>1, <3>3
  <2>3. 0 \in T
    BY <1>1, EmptyIsSeq
  <2>4. ASSUME NEW n \in Nat, n \in T PROVE n + 1 \in T
    <3> SUFFICES ASSUME n + 1 \in 0 .. N PROVE IsSeq(f[n + 1])
      OBVIOUS
    <3>1. IsSeq(f[n])
      BY <1>1, <2>4
    <3>2. f[n + 1] = f[n] \o seqs[n + 1]
      <4>1. n + 1 \in 1 .. N /\ (n + 1) - 1 = n
        BY <1>1
      <4> HIDE DEF f
      <4> QED
        BY <2>2, <4>1
    <3>3. IsSeq(seqs[n + 1])
      BY <1>1 DEF AllSeqs
    <3> HIDE DEF f
    <3> QED
      BY <3>1, <3>2, <3>3, ConcatIsSeq
  <2>5. f[0] = << >> /\ f[N] = g[N]
    BY <1>1, <1>3
  <2> HIDE DEF T, f
  <2>6. Nat \subseteq T
    BY <2>3, <2>4, NatSetInduction
  <2>7. Steps(seqs, f)
    BY <1>1, <2>2, <2>5, <2>6 DEF Steps, T
  <2> QED
    BY <2>1, <2>5, <2>7
<1> QED
  BY <1>2, <1>3

\* A sequence followed by a sequence.
LEMMA FlattenConcat ==
  ASSUME NEW s, NEW t, AllSeqs(s), AllSeqs(t)
  PROVE  FlattenSeq(s \o t) = FlattenSeq(s) \o FlattenSeq(t)
<1> DEFINE M == Len(s)
           N == Len(t)
           both == s \o t
<1>1. /\ IsSeq(s) /\ IsSeq(t) /\ M \in Nat /\ N \in Nat /\ DOMAIN s = 1 .. M /\ DOMAIN t = 1 .. N
      /\ IsSeq(both) /\ Len(both) = M + N /\ DOMAIN both = 1 .. (M + N)
      /\ \A i \in 1 .. M + N : both[i] = IF i <= M THEN s[i] ELSE t[i - M]
  <2>1. IsSeq(s) /\ IsSeq(t)
    BY DEF AllSeqs
  <2>2. Joins(both, s, t)
    BY <2>1, ConcatIsSeq, Zenon
  <2> HIDE DEF both
  <2> QED
    BY <2>1, <2>2, SeqIsSeq DEF Joins
<1> HIDE DEF M, N, both
<1>2. AllSeqs(both)
  BY <1>1 DEF AllSeqs
<1>3. PICK f : Steps(s, f) /\ FlattenSeq(s) = f[M]
  BY Gathering DEF M
<1>4. PICK g : Steps(t, g) /\ FlattenSeq(t) = g[N]
  BY Gathering DEF N
<1>5. PICK h : Steps(both, h) /\ FlattenSeq(both) = h[M + N]
  BY <1>1, <1>2, Gathering
<1> DEFINE S == {n \in Nat : n \in 0 .. M => h[n] = f[n]}
           Joined(n) == h[M + n] = f[M] \o g[n]
           T == {n \in Nat : n \in 0 .. N => Joined(n)}
<1>6. 0 \in S
  BY <1>3, <1>5 DEF Steps
<1>7. ASSUME NEW n \in Nat, n \in S PROVE n + 1 \in S
  <2> SUFFICES ASSUME n + 1 \in 0 .. M PROVE h[n + 1] = f[n + 1]
    OBVIOUS
  <2>1. h[n] = f[n]
    BY <1>1, <1>7
  <2>2. n + 1 \in 1 .. M /\ n + 1 \in 1 .. Len(both) /\ (n + 1) - 1 = n
    BY <1>1
  <2>3. h[n + 1] = h[n] \o both[n + 1]
    BY <1>5, <2>2 DEF Steps
  <2>4. f[n + 1] = f[n] \o s[n + 1]
    BY <1>3, <2>2 DEF Steps, M
  <2>5. both[n + 1] = s[n + 1]
    BY <1>1, <2>2
  <2> QED
    BY <2>1, <2>3, <2>4, <2>5
<1> HIDE DEF S
<1>8. Nat \subseteq S
  BY <1>6, <1>7, NatSetInduction
<1>9. 0 \in T
  <2>1. h[M] = f[M] /\ IsSeq(f[M])
    BY <1>1, <1>3, <1>8 DEF S, Steps, M
  <2>2. f[M] \o g[0] = f[M]
    BY <1>4, <2>1, EmptyIsSeq DEF Steps
  <2>3. Joined(0)
    BY <1>1, <2>1, <2>2
  <2> HIDE DEF Joined
  <2> QED
    BY <2>3
<1>10. ASSUME NEW n \in Nat, n \in T PROVE n + 1 \in T
  <2> HIDE DEF Joined
  <2> SUFFICES ASSUME n + 1 \in 0 .. N PROVE Joined(n + 1)
    OBVIOUS
  <2>1. Joined(n)
    BY <1>1, <1>10
  <2>2. M + (n + 1) \in 1 .. Len(both) /\ (M + (n + 1)) - 1 = M + n /\ n \in 0 .. N
    BY <1>1
  <2>3. h[M + (n + 1)] = h[M + n] \o both[M + (n + 1)]
    BY <1>5, <2>2 DEF Steps
  <2>4. n + 1 \in 1 .. N /\ (n + 1) - 1 = n
    BY <1>1
  <2>5. g[n + 1] = g[n] \o t[n + 1]
    BY <1>4, <2>4 DEF Steps, N
  <2>6. both[M + (n + 1)] = t[n + 1]
    <3>1. M + (n + 1) \in 1 .. M + N /\ ~(M + (n + 1) <= M) /\ (M + (n + 1)) - M = n + 1
      BY <1>1, <2>4
    <3> QED
      BY <1>1, <3>1
  <2>7. IsSeq(f[M]) /\ IsSeq(g[n]) /\ IsSeq(t[n + 1])
    <3>1. M \in 0 .. Len(s) /\ n \in 0 .. Len(t) /\ n + 1 \in DOMAIN t
      BY <1>1, <2>2, <2>4 DEF M, N
    <3> QED
      BY <1>3, <1>4, <3>1 DEF Steps, AllSeqs
  <2>8. h[M + (n + 1)] = (f[M] \o g[n]) \o t[n + 1]
    <3>1. h[M + (n + 1)] = h[M + n] \o t[n + 1]
      BY <2>3, <2>6, Zenon
    <3>2. h[M + n] = f[M] \o g[n]
      BY <2>1, Zenon DEF Joined
    <3> QED
      BY <3>1, <3>2, Zenon
  <2>9. f[M] \o g[n + 1] = f[M] \o (g[n] \o t[n + 1])
    BY <2>5, Zenon
  <2>10. (f[M] \o g[n]) \o t[n + 1] = f[M] \o (g[n] \o t[n + 1])
    <3> DEFINE x == f[M]
               y == g[n]
               z == t[n + 1]
    <3>1. IsSeq(x) /\ IsSeq(y) /\ IsSeq(z)
      BY <2>7
    <3> HIDE DEF x, y, z
    <3>2. (x \o y) \o z = x \o (y \o z)
      BY <3>1, ConcatIsAssociative
    <3> QED
      BY <3>2 DEF x, y, z
  <2> QED
    BY <2>8, <2>9, <2>10, Zenon DEF Joined
<1> HIDE DEF T, Joined
<1>11. Nat \subseteq T
  BY <1>9, <1>10, NatSetInduction
<1>12. Joined(N)
  BY <1>1, <1>11 DEF T
<1> QED
  BY <1>3, <1>4, <1>5, <1>12, Zenon DEF both, Joined

\* What a concatenation of sequences holds.
LEMMA FlattenIs ==
  ASSUME NEW seqs, AllSeqs(seqs)
  PROVE  /\ IsSeq(FlattenSeq(seqs))
         /\ \A p \in DOMAIN FlattenSeq(seqs) :
              \E k \in DOMAIN seqs : \E i \in DOMAIN seqs[k] : FlattenSeq(seqs)[p] = seqs[k][i]
         /\ \A k \in DOMAIN seqs : \A i \in DOMAIN seqs[k] :
              \E p \in DOMAIN FlattenSeq(seqs) : FlattenSeq(seqs)[p] = seqs[k][i]
<1> DEFINE N == Len(seqs)
<1>1. N \in Nat /\ DOMAIN seqs = 1 .. N
  BY SeqIsSeq DEF AllSeqs
<1>2. PICK f : Steps(seqs, f) /\ FlattenSeq(seqs) = f[N]
  BY Gathering
<1> DEFINE From(n) == \A p \in DOMAIN f[n] :
                        \E k \in 1 .. n : \E i \in DOMAIN seqs[k] : f[n][p] = seqs[k][i]
           All(n)  == \A k \in 1 .. n : \A i \in DOMAIN seqs[k] :
                        \E p \in DOMAIN f[n] : f[n][p] = seqs[k][i]
           T == {n \in Nat : n \in 0 .. N => From(n) /\ All(n)}
<1>3. 0 \in T
  <2>1. DOMAIN f[0] = {}
    BY <1>2 DEF Steps
  <2> QED
    BY <2>1
<1>4. ASSUME NEW n \in Nat, n \in T PROVE n + 1 \in T
  <2> SUFFICES ASSUME n + 1 \in 0 .. N PROVE From(n + 1) /\ All(n + 1)
    OBVIOUS
  <2>0. n \in 0 .. N /\ n + 1 \in 1 .. N /\ (n + 1) - 1 = n
    BY <1>1
  <2>1. From(n) /\ All(n)
    BY <1>4, <2>0
  <2>2. IsSeq(f[n]) /\ IsSeq(seqs[n + 1]) /\ f[n + 1] = f[n] \o seqs[n + 1]
    BY <1>1, <1>2, <2>0 DEF Steps, AllSeqs
  <2>3. Joins(f[n + 1], f[n], seqs[n + 1])
    BY <2>2, ConcatIsSeq, Zenon
  <2> DEFINE a == f[n]
             b == seqs[n + 1]
             c == f[n + 1]
             l == Len(a)
             m == Len(b)
  <2>4. /\ l \in Nat /\ m \in Nat /\ DOMAIN a = 1 .. l /\ DOMAIN b = 1 .. m
        /\ DOMAIN c = 1 .. l + m
        /\ \A p \in 1 .. l + m : c[p] = IF p <= l THEN a[p] ELSE b[p - l]
    BY <2>2, <2>3, SeqIsSeq DEF Joins
  <2>5. From(n + 1)
    <3> HIDE DEF a, b, c, l, m
    <3> SUFFICES ASSUME NEW p \in 1 .. l + m
                 PROVE  \E k \in 1 .. n + 1 : \E i \in DOMAIN seqs[k] : c[p] = seqs[k][i]
      BY <2>4 DEF c
    <3>1. CASE p <= l
      <4>1. p \in DOMAIN a /\ c[p] = a[p]
        BY <2>4, <3>1
      <4>2. PICK k \in 1 .. n : \E i \in DOMAIN seqs[k] : a[p] = seqs[k][i]
        BY <2>1, <4>1 DEF a
      <4> QED
        BY <4>1, <4>2
    <3>2. CASE ~(p <= l)
      <4>1. p - l \in DOMAIN b /\ c[p] = b[p - l]
        BY <2>4, <3>2
      <4> QED
        BY <4>1 DEF b
    <3> QED
      BY <3>1, <3>2
  <2>6. All(n + 1)
    <3> HIDE DEF a, b, c, l, m
    <3> SUFFICES ASSUME NEW k \in 1 .. n + 1, NEW i \in DOMAIN seqs[k]
                 PROVE  \E p \in DOMAIN c : c[p] = seqs[k][i]
      BY DEF c
    <3>1. CASE k <= n
      <4>1. k \in 1 .. n
        BY <3>1
      <4>2. PICK p \in DOMAIN a : a[p] = seqs[k][i]
        BY <2>1, <4>1 DEF a
      <4>3. p \in DOMAIN c /\ c[p] = a[p]
        BY <2>4
      <4> QED
        BY <4>2, <4>3
    <3>2. CASE k = n + 1
      <4>1. i \in 1 .. m
        BY <2>4, <3>2 DEF b
      <4>2. l + i \in 1 .. l + m /\ ~(l + i <= l) /\ (l + i) - l = i
        BY <2>4, <4>1
      <4>3. c[l + i] = b[i]
        BY <2>4, <4>2
      <4> QED
        BY <2>4, <3>2, <4>2, <4>3 DEF b
    <3> QED
      BY <3>1, <3>2
  <2> QED
    BY <2>5, <2>6
<1> HIDE DEF T
<1>5. Nat \subseteq T
  BY <1>3, <1>4, NatSetInduction
<1>6. From(N) /\ All(N)
  <2> HIDE DEF From, All
  <2> QED
    BY <1>1, <1>5 DEF T
<1>7. IsSeq(f[N])
  BY <1>1, <1>2 DEF Steps
<1> QED
  BY <1>1, <1>2, <1>6, <1>7


-----------------------------------------------------------------------------
(* Selections.                                                             *)

Chosen(seq, places) == [i \in DOMAIN seq |-> IF i \in places THEN <<seq[i]>> ELSE << >>]

LEMMA ChosenIs ==
  ASSUME NEW seq, IsSeq(seq), NEW places
  PROVE  /\ AllSeqs(Chosen(seq, places))
         /\ Len(Chosen(seq, places)) = Len(seq)
         /\ Keep(seq, places) = FlattenSeq(Chosen(seq, places))
         /\ \A i \in 1 .. Len(seq) :
              Chosen(seq, places)[i] = IF i \in places THEN <<seq[i]>> ELSE << >>
<1> DEFINE c == Chosen(seq, places)
<1>1. Len(seq) \in Nat /\ DOMAIN seq = 1 .. Len(seq)
  BY SeqIsSeq
<1>2. c = [i \in 1 .. Len(seq) |-> c[i]]
  BY <1>1 DEF Chosen
<1>3. \A i \in 1 .. Len(seq) : c[i] = IF i \in places THEN <<seq[i]>> ELSE << >>
  BY <1>1 DEF Chosen
<1>4. Keep(seq, places) = FlattenSeq(c)
  BY DEF Keep, Chosen
<1> HIDE DEF c
<1>5. IsSeq(c) /\ Len(c) = Len(seq) /\ DOMAIN c = 1 .. Len(seq)
  <2>1. IsSeq(c) /\ Len(c) = Len(seq)
    BY <1>1, <1>2, SeqOfFunction
  <2> QED
    BY <2>1, SeqIsSeq
<1>6. \A i \in 1 .. Len(seq) : IsSeq(c[i])
  BY <1>3, OneIsSeq, EmptyIsSeq
<1> QED
  BY <1>3, <1>4, <1>5, <1>6 DEF AllSeqs, c

\* How many of the first i places are chosen.
Rank(places, i) == Cardinality({j \in 1 .. i : j \in places})

LEMMA RankGrows ==
  ASSUME NEW places, NEW n \in Nat
  PROVE  /\ Rank(places, 0) = 0
         /\ Rank(places, n) \in Nat
         /\ Rank(places, n + 1) = Rank(places, n) + IF n + 1 \in places THEN 1 ELSE 0
<1> DEFINE S(i) == {j \in 1 .. i : j \in places}
<1>1. S(0) = {}
  OBVIOUS
<1>2. IsFiniteSet(S(n))
  <2>1. IsFiniteSet(1 .. n) /\ S(n) \subseteq 1 .. n
    BY FS_Interval
  <2> QED
    BY <2>1, FS_Subset
<1>3. n + 1 \notin S(n) /\ S(n + 1) = IF n + 1 \in places THEN S(n) \union {n + 1} ELSE S(n)
  OBVIOUS
<1> HIDE DEF S
<1>4. Cardinality(S(n)) \in Nat /\ Cardinality(S(0)) = 0
  BY <1>1, <1>2, FS_CardinalityType, FS_EmptySet
<1>5. Cardinality(S(n) \union {n + 1}) = Cardinality(S(n)) + 1
  BY <1>2, <1>3, FS_AddElement
<1>6. Cardinality(S(n + 1)) = Cardinality(S(n)) + IF n + 1 \in places THEN 1 ELSE 0
  BY <1>3, <1>4, <1>5
<1> QED
  BY <1>4, <1>6 DEF S, Rank

\* A selection holds the chosen members, each at its rank.
LEMMA KeepIs ==
  ASSUME NEW seq, IsSeq(seq), NEW places
  PROVE  /\ IsSeq(Keep(seq, places))
         /\ Len(Keep(seq, places)) = Rank(places, Len(seq))
         /\ \A i \in DOMAIN seq : i \in places =>
              /\ Rank(places, i) \in DOMAIN Keep(seq, places)
              /\ Keep(seq, places)[Rank(places, i)] = seq[i]
         /\ \A p \in DOMAIN Keep(seq, places) :
              \E i \in DOMAIN seq : i \in places /\ Keep(seq, places)[p] = seq[i]
<1> DEFINE N == Len(seq)
           c == Chosen(seq, places)
<1>1. N \in Nat /\ DOMAIN seq = 1 .. N
  BY SeqIsSeq
<1>2. /\ AllSeqs(c) /\ Len(c) = N /\ Keep(seq, places) = FlattenSeq(c)
      /\ \A i \in 1 .. N : c[i] = IF i \in places THEN <<seq[i]>> ELSE << >>
  BY ChosenIs
<1> HIDE DEF c
<1>3. PICK f : Steps(c, f) /\ FlattenSeq(c) = f[N]
  BY <1>2, Gathering
<1> DEFINE Good(n) == /\ Len(f[n]) = Rank(places, n)
                      /\ \A i \in 1 .. n : i \in places =>
                           Rank(places, i) \in DOMAIN f[n] /\ f[n][Rank(places, i)] = seq[i]
                      /\ \A p \in DOMAIN f[n] :
                           \E i \in 1 .. n : i \in places /\ f[n][p] = seq[i]
           T == {n \in Nat : n \in 0 .. N => Good(n)}
<1>4. 0 \in T
  <2>1. f[0] = << >> /\ Len(f[0]) = 0 /\ DOMAIN f[0] = {}
    BY <1>3, EmptyIsSeq DEF Steps
  <2>2. Rank(places, 0) = 0
    BY RankGrows
  <2> QED
    BY <2>1, <2>2
<1>5. ASSUME NEW n \in Nat, n \in T PROVE n + 1 \in T
  <2> SUFFICES ASSUME n + 1 \in 0 .. N PROVE Good(n + 1)
    OBVIOUS
  <2>1. n \in 0 .. N /\ n + 1 \in 1 .. N /\ (n + 1) - 1 = n
    BY <1>1
  <2>2. Good(n)
    BY <1>5, <2>1
  <2>3. IsSeq(f[n]) /\ f[n + 1] = f[n] \o c[n + 1]
    BY <1>2, <1>3, <2>1 DEF Steps
  <2>4. /\ Rank(places, n) \in Nat
        /\ Rank(places, n + 1) = Rank(places, n) + IF n + 1 \in places THEN 1 ELSE 0
    BY RankGrows
  <2>5. CASE n + 1 \notin places
    <3>1. f[n + 1] = f[n]
      <4>1. c[n + 1] = << >>
        BY <1>2, <2>1, <2>5
      <4>2. f[n] \o << >> = f[n]
        BY <2>3, EmptyIsSeq
      <4> QED
        BY <2>3, <4>1, <4>2, Zenon
    <3> QED
      BY <2>2, <2>4, <2>5, <3>1
  <2>6. CASE n + 1 \in places
    <3> DEFINE a == f[n]
               b == f[n + 1]
               l == Rank(places, n)
    <3>1. c[n + 1] = <<seq[n + 1]>>
      BY <1>2, <2>1, <2>6
    <3>2. Joins(b, a, <<seq[n + 1]>>) /\ Len(a) = l
      <4>1. IsSeq(<<seq[n + 1]>>)
        BY OneIsSeq
      <4>2. IsSeq(a) /\ b = a \o <<seq[n + 1]>>
        BY <2>3, <3>1, Zenon
      <4>3. Joins(b, a, <<seq[n + 1]>>)
        BY <4>1, <4>2, ConcatIsSeq, Zenon
      <4> QED
        BY <2>2, <4>3
    <3>3. /\ IsSeq(b) /\ Len(b) = l + 1
          /\ \A i \in 1 .. l + 1 : b[i] = IF i <= l THEN a[i] ELSE <<seq[n + 1]>>[i - l]
      BY <3>2, OneIsSeq DEF Joins
    <3> HIDE DEF l
    <3>4. l \in Nat /\ Rank(places, n + 1) = l + 1 /\ DOMAIN a = 1 .. l /\ DOMAIN b = 1 .. l + 1
      BY <2>3, <2>4, <2>6, <3>2, <3>3, SeqIsSeq DEF l
    <3>5. (\A i \in 1 .. l : b[i] = a[i]) /\ b[l + 1] = seq[n + 1]
      <4>1. l + 1 \in 1 .. l + 1 /\ ~(l + 1 <= l) /\ (l + 1) - l = 1
        BY <3>4
      <4>2. b[l + 1] = <<seq[n + 1]>>[1]
        BY <3>3, <4>1
      <4> QED
        BY <3>3, <3>4, <4>2
    <3>6. /\ \A i \in 1 .. n : i \in places =>
               Rank(places, i) \in 1 .. l /\ a[Rank(places, i)] = seq[i]
          /\ \A p \in 1 .. l : \E i \in 1 .. n : i \in places /\ a[p] = seq[i]
      BY <2>2, <3>4
    <3> HIDE DEF a, b
    <3>7. ASSUME NEW i \in 1 .. n + 1, i \in places
          PROVE  Rank(places, i) \in 1 .. l + 1 /\ b[Rank(places, i)] = seq[i]
      <4>1. CASE i = n + 1
        BY <3>4, <3>5, <4>1
      <4>2. CASE i # n + 1
        <5>1. i \in 1 .. n
          BY <4>2
        <5>2. Rank(places, i) \in 1 .. l /\ a[Rank(places, i)] = seq[i]
          BY <3>6, <3>7, <5>1
        <5> QED
          BY <3>4, <3>5, <5>2
      <4> QED
        BY <4>1, <4>2
    <3>8. ASSUME NEW p \in 1 .. l + 1
          PROVE  \E i \in 1 .. n + 1 : i \in places /\ b[p] = seq[i]
      <4>1. CASE p = l + 1
        BY <2>6, <3>5, <4>1
      <4>2. CASE p # l + 1
        <5>1. p \in 1 .. l
          BY <3>4, <4>2
        <5> QED
          BY <3>5, <3>6, <5>1
      <4> QED
        BY <4>1, <4>2
    <3> QED
      BY <3>3, <3>4, <3>7, <3>8 DEF b
  <2> QED
    BY <2>5, <2>6
<1> HIDE DEF T
<1>6. Nat \subseteq T
  BY <1>4, <1>5, NatSetInduction
<1>7. Good(N) /\ IsSeq(f[N])
  BY <1>1, <1>2, <1>3, <1>6 DEF T, Steps
<1> HIDE DEF Good
<1> QED
  BY <1>1, <1>2, <1>3, <1>7 DEF Good

-----------------------------------------------------------------------------
(* References.                                                             *)

Query(leaves) == IsSeq(leaves) /\ \A k \in DOMAIN leaves : IsSeq(leaves[k].parts)

HoldsParts(seq, leaves, kind) ==
  \A k \in DOMAIN leaves : \A i \in DOMAIN leaves[k].parts :
    leaves[k].parts[i][1] = kind => \E p \in DOMAIN seq : seq[p] = leaves[k].parts[i]

\* The parts of a kind are all of them, and in order when there is one leaf.
LEMMA PartsOfIs ==
  ASSUME NEW leaves, Query(leaves), NEW kind
  PROVE  /\ IsSeq(PartsOf(leaves, kind))
         /\ \A p \in DOMAIN PartsOf(leaves, kind) :
              \E k \in DOMAIN leaves : \E i \in DOMAIN leaves[k].parts :
                PartsOf(leaves, kind)[p] = leaves[k].parts[i] /\ leaves[k].parts[i][1] = kind
         /\ HoldsParts(PartsOf(leaves, kind), leaves, kind)
         /\ Len(leaves) = 1 =>
              PartsOf(leaves, kind) = Keep(leaves[1].parts, OfKind(leaves[1].parts, kind))
<1> DEFINE seqs == [k \in DOMAIN leaves |-> leaves[k].parts]
           all == FlattenSeq(seqs)
           places == {i \in DOMAIN all : all[i][1] = kind}
           kept == Keep(all, places)
<1>1. Len(leaves) \in Nat /\ DOMAIN leaves = 1 .. Len(leaves)
  BY SeqIsSeq DEF Query
<1>2. /\ AllSeqs(seqs) /\ Len(seqs) = Len(leaves) /\ DOMAIN seqs = DOMAIN leaves
      /\ \A k \in DOMAIN leaves : seqs[k] = leaves[k].parts
  <2>1. seqs = [k \in 1 .. Len(leaves) |-> seqs[k]]
    BY <1>1
  <2>2. DOMAIN seqs = DOMAIN leaves /\ \A k \in DOMAIN leaves : seqs[k] = leaves[k].parts
    OBVIOUS
  <2> HIDE DEF seqs
  <2>3. IsSeq(seqs) /\ Len(seqs) = Len(leaves)
    BY <1>1, <2>1, SeqOfFunction
  <2> QED
    BY <2>2, <2>3 DEF AllSeqs, Query
<1>3. PartsOf(leaves, kind) = kept
  BY DEF PartsOf, KeepKind, OfKind
<1> HIDE DEF seqs
<1>4. /\ IsSeq(all)
      /\ \A p \in DOMAIN all : \E k \in DOMAIN leaves : \E i \in DOMAIN leaves[k].parts :
           all[p] = leaves[k].parts[i]
      /\ \A k \in DOMAIN leaves : \A i \in DOMAIN leaves[k].parts :
           \E p \in DOMAIN all : all[p] = leaves[k].parts[i]
  BY <1>2, FlattenIs
<1>5. Len(leaves) = 1 => all = leaves[1].parts
  <2> SUFFICES ASSUME Len(leaves) = 1 PROVE all = leaves[1].parts
    OBVIOUS
  <2>1. PICK f : Steps(seqs, f) /\ all = f[1]
    BY <1>2, Gathering
  <2>2. f[1] = f[0] \o seqs[1] /\ f[0] = << >>
    <3>1. 1 \in 1 .. Len(seqs) /\ 1 - 1 = 0
      BY <1>2
    <3>2. f[1] = f[1 - 1] \o seqs[1] /\ f[0] = << >>
      BY <2>1, <3>1, Zenon DEF Steps
    <3> QED
      BY <3>1, <3>2
  <2>3. IsSeq(seqs[1]) /\ seqs[1] = leaves[1].parts
    BY <1>1, <1>2 DEF AllSeqs
  <2> QED
    BY <2>1, <2>2, <2>3, EmptyIsSeq
<1>6. Len(leaves) = 1 => kept = Keep(leaves[1].parts, OfKind(leaves[1].parts, kind))
  BY <1>5 DEF OfKind
<1> HIDE DEF all, places
<1>7. /\ IsSeq(kept)
      /\ \A i \in DOMAIN all : i \in places => \E p \in DOMAIN kept : kept[p] = all[i]
      /\ \A p \in DOMAIN kept : \E i \in DOMAIN all : i \in places /\ kept[p] = all[i]
  <2>1. /\ IsSeq(kept)
        /\ \A i \in DOMAIN all : i \in places =>
             Rank(places, i) \in DOMAIN kept /\ kept[Rank(places, i)] = all[i]
        /\ \A p \in DOMAIN kept : \E i \in DOMAIN all : i \in places /\ kept[p] = all[i]
    <3>1. IsSeq(all)
      BY <1>4
    <3> QED
      BY <3>1, KeepIs
  <2> HIDE DEF kept
  <2> QED
    BY <2>1
<1> HIDE DEF kept
<1>8. ASSUME NEW p \in DOMAIN kept
      PROVE  \E k \in DOMAIN leaves : \E i \in DOMAIN leaves[k].parts :
               kept[p] = leaves[k].parts[i] /\ leaves[k].parts[i][1] = kind
  BY <1>4, <1>7 DEF places
<1>9. ASSUME NEW k \in DOMAIN leaves, NEW i \in DOMAIN leaves[k].parts,
             leaves[k].parts[i][1] = kind
      PROVE  \E p \in DOMAIN kept : kept[p] = leaves[k].parts[i]
  BY <1>4, <1>7, <1>9 DEF places
<1> QED
  BY <1>3, <1>6, <1>7, <1>8, <1>9 DEF HoldsParts

RefsOf(query) == Named(Firsts(PartsOf(query, "ref")))

\* No member is lost.
LEMMA FirstsHold ==
  ASSUME NEW w, IsSeq(w)
  PROVE  /\ IsSeq(Firsts(w))
         /\ \A i \in DOMAIN w : \E p \in DOMAIN Firsts(w) : Firsts(w)[p] = w[i]
         /\ \A p \in DOMAIN Firsts(w) : \E i \in DOMAIN w : Firsts(w)[p] = w[i]
<1> DEFINE places == {i \in DOMAIN w : \A j \in 1 .. i - 1 : w[j] # w[i]}
<1>1. Len(w) \in Nat /\ DOMAIN w = 1 .. Len(w)
  BY SeqIsSeq
<1>2. ASSUME NEW i \in DOMAIN w PROVE \E m \in DOMAIN w : m \in places /\ w[m] = w[i]
  <2> DEFINE same == {j \in DOMAIN w : w[j] = w[i]}
  <2>1. same \subseteq Nat /\ same # {}
    BY <1>1
  <2>2. PICK m \in same : \A j \in same : m <= j
    BY <2>1, Least
  <2>3. \A j \in 1 .. m - 1 : j \in DOMAIN w /\ ~(m <= j)
    BY <1>1, <2>2
  <2> QED
    BY <2>2, <2>3
<1> HIDE DEF places
<1>3. /\ IsSeq(Keep(w, places))
      /\ \A i \in DOMAIN w : i \in places => \E p \in DOMAIN Keep(w, places) : Keep(w, places)[p] = w[i]
      /\ \A p \in DOMAIN Keep(w, places) : \E i \in DOMAIN w : Keep(w, places)[p] = w[i]
  BY KeepIs
<1> DEFINE kept == Keep(w, places)
<1>4. Firsts(w) = kept
  BY DEF Firsts, places
<1> HIDE DEF kept
<1>5. ASSUME NEW i \in DOMAIN w PROVE \E p \in DOMAIN kept : kept[p] = w[i]
  BY <1>2, <1>3 DEF kept
<1> QED
  BY <1>3, <1>4, <1>5 DEF kept

\* When no two members are equal, all of them in order.
LEMMA FirstsOfDistinct ==
  ASSUME NEW w, IsSeq(w), \A i, j \in DOMAIN w : i # j => w[i] # w[j]
  PROVE  Firsts(w) = w
<1> DEFINE places == {i \in DOMAIN w : \A j \in 1 .. i - 1 : w[j] # w[i]}
           kept == Keep(w, places)
           N == Len(w)
<1>1. N \in Nat /\ DOMAIN w = 1 .. N
  BY SeqIsSeq
<1>2. places = 1 .. N
  BY <1>1
<1> HIDE DEF places
<1>3. ASSUME NEW i \in 0 .. N PROVE Rank(places, i) = i
  <2>1. {j \in 1 .. i : j \in places} = 1 .. i
    BY <1>1, <1>2
  <2> QED
    <3>1. i \in Int /\ Cardinality(1 .. i) = i
      BY <1>1, FS_Interval
    <3> QED
      BY <2>1, <3>1 DEF Rank
<1>4. /\ IsSeq(kept) /\ Len(kept) = Rank(places, N)
      /\ \A i \in DOMAIN w : i \in places => kept[Rank(places, i)] = w[i]
  BY KeepIs
<1> HIDE DEF kept
<1>5. Len(kept) = N /\ \A i \in 1 .. N : kept[i] = w[i]
  BY <1>1, <1>2, <1>3, <1>4
<1>6. kept = w
  BY <1>4, <1>5, SameSeq
<1> QED
  BY <1>6 DEF Firsts, kept, places

-----------------------------------------------------------------------------
(* Walks.                                                                  *)

\* What is reached after each segment of a path.
Reaches(v, path, n, r) ==
  /\ r = [d \in 0 .. n |-> r[d]]
  /\ \A d \in 0 .. n : r[d] = IF d = 0 THEN Found(v) ELSE Descend(r[d - 1], path[d])

LEMMA ReacherExists ==
  ASSUME NEW v, NEW path, NEW n \in Nat
  PROVE  \E r : Reaches(v, path, n, r)
<1> DEFINE T == {k \in Nat : \E r : Reaches(v, path, k, r)}
<1>1. 0 \in T
  <2>1. Reaches(v, path, 0, [d \in 0 .. 0 |-> Found(v)])
    BY DEF Reaches
  <2> QED
    BY <2>1
<1>2. ASSUME NEW k \in Nat, k \in T PROVE k + 1 \in T
  <2>1. PICK r : Reaches(v, path, k, r)
    BY <1>2
  <2> DEFINE g == [d \in 0 .. (k + 1) |-> IF d <= k THEN r[d] ELSE Descend(r[k], path[k + 1])]
  <2>2. ASSUME NEW d \in 0 .. (k + 1)
         PROVE g[d] = IF d = 0 THEN Found(v) ELSE Descend(g[d - 1], path[d])
    <3>1. CASE d <= k
      <4>1. r[d] = IF d = 0 THEN Found(v) ELSE Descend(r[d - 1], path[d])
        <5>1. d \in 0 .. k
          BY <3>1
        <5> QED
          BY <2>1, <5>1, Zenon DEF Reaches
      <4>2. g[d] = r[d] /\ (d # 0 => g[d - 1] = r[d - 1])
        BY <3>1
      <4> QED
        BY <4>1, <4>2
    <3>2. CASE d = k + 1
      <4>1. g[d - 1] = r[k] /\ d # 0 /\ g[d] = Descend(r[k], path[k + 1])
        BY <3>2
      <4> QED
        BY <3>2, <4>1
    <3> QED
      BY <3>1, <3>2
  <2>3. g = [d \in 0 .. (k + 1) |-> g[d]]
    OBVIOUS
  <2> HIDE DEF g
  <2>4. Reaches(v, path, k + 1, g)
    BY <2>2, <2>3, Zenon DEF Reaches
  <2> QED
    BY <2>4
<1> HIDE DEF T
<1>3. n \in T
  BY <1>1, <1>2, NatSetInduction
<1> QED
  BY <1>3 DEF T

LEMMA WalkFromIs ==
  ASSUME NEW v, NEW path, Len(path) \in Nat
  PROVE  \E r : Reaches(v, path, Len(path), r) /\ WalkFrom(v, path) = r[Len(path)]
<1> DEFINE N == Len(path)
           reached == CHOOSE r : r = [d \in 0 .. N |->
                        IF d = 0 THEN Found(v) ELSE Descend(r[d - 1], path[d])]
<1>1. WalkFrom(v, path) = reached[N]
  BY DEF WalkFrom
<1>2. PICK r : Reaches(v, path, N, r)
  BY ReacherExists
<1>3. r = [d \in 0 .. N |-> IF d = 0 THEN Found(v) ELSE Descend(r[d - 1], path[d])]
  BY <1>2, Zenon DEF Reaches
<1>4. reached = [d \in 0 .. N |-> IF d = 0 THEN Found(v) ELSE Descend(reached[d - 1], path[d])]
  BY <1>3, Zenon
<1> HIDE DEF reached
<1>5. Reaches(v, path, N, reached)
  BY <1>4, Zenon DEF Reaches
<1> QED
  BY <1>1, <1>5

\* The values at each depth of a value.
Inside(v, n, w) ==
  /\ w = [d \in 0 .. n |-> w[d]]
  /\ \A d \in 0 .. n : w[d] = IF d = 0 THEN {v} ELSE Held(w[d - 1])

LEMMA InsideExists ==
  ASSUME NEW v, NEW n \in Nat
  PROVE  \E w : Inside(v, n, w)
<1> DEFINE T == {k \in Nat : \E w : Inside(v, k, w)}
<1>1. 0 \in T
  <2>1. Inside(v, 0, [d \in 0 .. 0 |-> {v}])
    BY DEF Inside
  <2> QED
    BY <2>1
<1>2. ASSUME NEW k \in Nat, k \in T PROVE k + 1 \in T
  <2>1. PICK w : Inside(v, k, w)
    BY <1>2
  <2> DEFINE g == [d \in 0 .. (k + 1) |-> IF d <= k THEN w[d] ELSE Held(w[k])]
  <2>2. ASSUME NEW d \in 0 .. (k + 1)
         PROVE g[d] = IF d = 0 THEN {v} ELSE Held(g[d - 1])
    <3>1. CASE d <= k
      <4>1. w[d] = IF d = 0 THEN {v} ELSE Held(w[d - 1])
        <5>1. d \in 0 .. k
          BY <3>1
        <5> QED
          BY <2>1, <5>1, Zenon DEF Inside
      <4>2. g[d] = w[d] /\ (d # 0 => g[d - 1] = w[d - 1])
        BY <3>1
      <4> QED
        BY <4>1, <4>2
    <3>2. CASE d = k + 1
      <4>1. g[d - 1] = w[k] /\ d # 0 /\ g[d] = Held(w[k])
        BY <3>2
      <4> QED
        BY <3>2, <4>1
    <3> QED
      BY <3>1, <3>2
  <2>3. g = [d \in 0 .. (k + 1) |-> g[d]]
    OBVIOUS
  <2> HIDE DEF g
  <2>4. Inside(v, k + 1, g)
    BY <2>2, <2>3, Zenon DEF Inside
  <2> QED
    BY <2>4
<1> HIDE DEF T
<1>3. n \in T
  BY <1>1, <1>2, NatSetInduction
<1> QED
  BY <1>3 DEF T

LEMMA JsonInsideIs ==
  ASSUME NEW v, JsonInside(v)
  PROVE  \E w : Inside(v, WalkDepth, w) /\ \A d \in 1 .. WalkDepth : \A x \in w[d] : IsJson(x)
<1> DEFINE within == CHOOSE w : w = [d \in 0 .. WalkDepth |->
                       IF d = 0 THEN {v} ELSE Held(w[d - 1])]
<1>1. \A d \in 1 .. WalkDepth : \A x \in within[d] : IsJson(x)
  BY DEF JsonInside
<1>2. PICK w : Inside(v, WalkDepth, w)
  BY InsideExists, DepthsAssumption
<1>3. w = [d \in 0 .. WalkDepth |-> IF d = 0 THEN {v} ELSE Held(w[d - 1])]
  BY <1>2, Zenon DEF Inside
<1>4. within = [d \in 0 .. WalkDepth |-> IF d = 0 THEN {v} ELSE Held(within[d - 1])]
  BY <1>3, Zenon
<1> HIDE DEF within
<1>5. Inside(v, WalkDepth, within)
  BY <1>4, Zenon DEF Inside
<1> QED
  BY <1>1, <1>5

\* A segment is taken into what a container holds.
LEMMA StepsInto ==
  ASSUME NEW v, NEW seg, NEW vals, v \in vals, IsFound(StepSegment(v, seg))
  PROVE  IsContainer(v) /\ StepSegment(v, seg)[2] \in Held(vals)
<1>1. ~IsFound(NotFound)
  BY DEF IsFound, NotFound
<1>2. PICK k \in DOMAIN v[2] : IsContainer(v) /\ StepSegment(v, seg) = Found(v[2][k])
  BY <1>1 DEF StepSegment, IsContainer
<1>3. StepSegment(v, seg)[2] = v[2][k]
  BY <1>2 DEF Found
<1> QED
  BY <1>2, <1>3 DEF Held

\* A path of some length finds nothing in undefined, and JSON in a value.
LEMMA WalkFindsJson ==
  ASSUME NEW v, NEW path, Len(path) \in Nat, Len(path) # 0, IsFound(WalkPath(v, path))
  PROVE  /\ v # Undefined
         /\ JsonInside(v) => IsJson(WalkPath(v, path)[2])
<1> DEFINE N == Len(path)
<1>1. ~IsFound(NotFound)
  BY DEF IsFound, NotFound
<1>2. N <= WalkDepth /\ WalkPath(v, path) = WalkFrom(v, path)
  BY <1>1, DepthsAssumption DEF WalkPath
<1>3. PICK r : Reaches(v, path, N, r) /\ WalkFrom(v, path) = r[N]
  BY WalkFromIs
<1>4. ASSUME NEW d \in 1 .. N PROVE r[d] = Descend(r[d - 1], path[d])
  <2>1. d \in 0 .. N /\ d # 0
    OBVIOUS
  <2>2. r[d] = IF d = 0 THEN Found(v) ELSE Descend(r[d - 1], path[d])
    BY <1>3, <2>1, Zenon DEF Reaches
  <2> QED
    BY <2>1, <2>2
<1>5. r[0] = Found(v)
  <2>1. 0 \in 0 .. N
    OBVIOUS
  <2> QED
    BY <1>3, <2>1, Zenon DEF Reaches
\* What is found at the end was found all the way.
<1> DEFINE T == {k \in Nat : k \in 0 .. N => IsFound(r[N - k])}
<1>6. 0 \in T
  BY <1>2, <1>3
<1>7. ASSUME NEW k \in Nat, k \in T PROVE k + 1 \in T
  <2> SUFFICES ASSUME k + 1 \in 0 .. N PROVE IsFound(r[N - (k + 1)])
    OBVIOUS
  <2>1. IsFound(r[N - k]) /\ N - k \in 1 .. N /\ N - (k + 1) = (N - k) - 1
    BY <1>7
  <2>2. r[N - k] = Descend(r[(N - k) - 1], path[N - k])
    BY <1>4, <2>1
  <2>3. IsFound(r[(N - k) - 1])
    BY <1>1, <2>1, <2>2 DEF Descend
  <2> QED
    BY <2>1, <2>3
<1> HIDE DEF T
<1>8. Nat \subseteq T
  BY <1>6, <1>7, NatSetInduction
<1>9. ASSUME NEW d \in 0 .. N PROVE IsFound(r[d])
  <2>1. N - d \in T /\ N - d \in 0 .. N /\ N - (N - d) = d
    BY <1>8
  <2> QED
    BY <2>1 DEF T
<1>10. ASSUME NEW d \in 1 .. N
       PROVE  IsFound(r[d]) /\ r[d] = StepSegment(r[d - 1][2], path[d])
  <2>1. IsFound(r[d]) /\ IsFound(r[d - 1])
    BY <1>9
  <2> QED
    BY <1>4, <2>1 DEF Descend
<1>11. v # Undefined
  <2>1. 1 \in 1 .. N /\ r[1 - 1][2] = v
    BY <1>5 DEF Found
  <2>2. IsFound(StepSegment(v, path[1]))
    BY <1>10, <2>1
  <2>3. IsContainer(v)
    BY <2>2, StepsInto
  <2> QED
    BY <2>3 DEF IsContainer, Kind, Undefined
<1>12. ASSUME JsonInside(v) PROVE IsJson(r[N][2])
  <2>1. PICK w : /\ Inside(v, WalkDepth, w)
                 /\ \A d \in 1 .. WalkDepth : \A x \in w[d] : IsJson(x)
    BY <1>12, JsonInsideIs
  <2> DEFINE S == {d \in Nat : d \in 0 .. N => r[d][2] \in w[d]}
  <2>2. 0 \in S
    <3>1. w[0] = {v} /\ r[0][2] = v
      <4>1. 0 \in 0 .. WalkDepth
        BY DepthsAssumption
      <4>2. w[0] = {v}
        BY <2>1, <4>1, Zenon DEF Inside
      <4>3. r[0][2] = v
        BY <1>5 DEF Found
      <4> QED
        BY <4>2, <4>3
    <3> QED
      BY <3>1
  <2>3. ASSUME NEW d \in Nat, d \in S PROVE d + 1 \in S
    <3> SUFFICES ASSUME d + 1 \in 0 .. N PROVE r[d + 1][2] \in w[d + 1]
      OBVIOUS
    <3>1. r[d][2] \in w[d] /\ d + 1 \in 1 .. N /\ (d + 1) - 1 = d
      BY <2>3
    <3>2. IsFound(r[d + 1]) /\ r[d + 1] = StepSegment(r[d][2], path[d + 1])
      BY <1>10, <3>1
    <3>3. r[d + 1][2] \in Held(w[d])
      BY <3>1, <3>2, StepsInto
    <3>4. w[d + 1] = Held(w[d])
      <4>1. d + 1 \in 0 .. WalkDepth /\ d + 1 # 0
        BY <1>2, <3>1, DepthsAssumption
      <4>2. w[d + 1] = IF d + 1 = 0 THEN {v} ELSE Held(w[(d + 1) - 1])
        BY <2>1, <4>1, Zenon DEF Inside
      <4> QED
        BY <3>1, <4>1, <4>2
    <3> QED
      BY <3>3, <3>4
  <2> HIDE DEF S
  <2>4. N \in S
    BY <2>2, <2>3, NatSetInduction
  <2>5. r[N][2] \in w[N] /\ N \in 1 .. WalkDepth
    BY <1>2, <2>4, DepthsAssumption DEF S
  <2> QED
    BY <2>1, <2>5
<1> QED
  BY <1>2, <1>3, <1>11, <1>12

-----------------------------------------------------------------------------
(* What references name.                                                   *)

LEMMA SegmentsAreAPath ==
  ASSUME NEW segs, IsSeq(segs)
  PROVE  Len(ClassifyPath(segs)) = Len(segs) /\ Len(segs) \in Nat
<1>1. Len(segs) \in Nat /\ DOMAIN segs = 1 .. Len(segs)
  BY SeqIsSeq
<1>2. ClassifyPath(segs) = [i \in 1 .. Len(segs) |-> ClassifyPath(segs)[i]]
  BY <1>1 DEF ClassifyPath
<1> QED
  BY <1>1, <1>2, SeqOfFunction

\* A reference that names something names a JSON value, the same in a cleanup.
LEMMA ReferenceNamesJson ==
  ASSUME attempt.exchange \in DOMAIN Exchanges,
         NEW segs, IsSeq(segs), ClassifyInner(segs),
         NEW scope, scope \in {Scope, CleanupScope},
         IsFound(ResolveRef(segs, scope))
  PROVE  /\ ResolveRef(segs, scope) = ResolveRef(segs, Scope)
         /\ IsJson(ResolveRef(segs, Scope)[2])
<1>1. /\ JsonInside(Scope.env) /\ JsonInside(Scope["request"]) /\ JsonInside(Scope["response"])
  BY ExchangesAssumption DEF Scope, Exchange
<1>2. /\ scope.env = Scope.env
      /\ scope["request"] = Scope["request"] \/ scope["request"] = Undefined
      /\ scope["response"] = Scope["response"] \/ scope["response"] = Undefined
  BY DEF Scope, CleanupScope
<1>3. Len(segs) \in Nat /\ segs \in Seq(ToSet(segs))
  BY SeqIsSeq DEF IsSeq
<1> HIDE DEF Scope, CleanupScope
<1>4. CASE segs[1] = "env"
  <2> DEFINE path == ClassifyPath(Tail(segs))
  <2>1. Len(segs) > 1
    BY <1>4 DEF ClassifyInner
  <2>2. Len(path) \in Nat /\ Len(path) # 0
    <3>1. Tail(segs) \in Seq(ToSet(segs)) /\ Len(Tail(segs)) = Len(segs) - 1
      BY <1>3, <2>1
    <3>2. IsSeq(Tail(segs))
      BY <3>1, InSeqIsSeq
    <3>3. Len(path) = Len(Tail(segs))
      BY <3>2, SegmentsAreAPath
    <3> QED
      BY <1>3, <2>1, <3>1, <3>3
  <2>3. /\ ResolveRef(segs, scope) = WalkPath(scope.env, path)
        /\ ResolveRef(segs, Scope) = WalkPath(Scope.env, path)
    BY <1>4 DEF ResolveRef
  <2> HIDE DEF path
  <2>4. ResolveRef(segs, scope) = ResolveRef(segs, Scope)
    BY <1>2, <2>3
  <2> QED
    BY <1>1, <2>2, <2>3, <2>4, WalkFindsJson
<1>5. CASE segs[1] # "env"
  <2> DEFINE path == ClassifyPath(SubSeq(segs, 3, Len(segs)))
             body == segs[1]
  <2>1. Len(segs) > 2 /\ body \in {"request", "response"}
    BY <1>5 DEF ClassifyInner
  <2>2. Len(path) \in Nat /\ Len(path) # 0
    <3> DEFINE u == SubSeq(segs, 3, Len(segs))
    <3>1. u \in Seq(ToSet(segs)) /\ Len(u) = Len(segs) - 2
      BY <1>3, <2>1, SubSeqProperties
    <3> HIDE DEF u
    <3>2. IsSeq(u)
      BY <3>1, InSeqIsSeq
    <3>3. Len(ClassifyPath(u)) = Len(u)
      BY <3>2, SegmentsAreAPath
    <3> QED
      BY <1>3, <2>1, <3>1, <3>3 DEF u
  <2>3. /\ ResolveRef(segs, scope) = WalkPath(scope[body], path)
        /\ ResolveRef(segs, Scope) = WalkPath(Scope[body], path)
    BY <1>5 DEF ResolveRef
  <2> HIDE DEF path
  <2>4. scope[body] # Undefined
    BY <2>2, <2>3, WalkFindsJson
  <2>5. scope[body] = Scope[body] /\ JsonInside(Scope[body])
    BY <1>1, <1>2, <2>1, <2>4
  <2>6. ResolveRef(segs, scope) = ResolveRef(segs, Scope)
    BY <2>3, <2>5
  <2> QED
    BY <2>2, <2>3, <2>5, <2>6, WalkFindsJson
<1> QED
  BY <1>4, <1>5

\* A query after its extraction.
Sited(query, part) ==
  IF part[1] = "ref"
  THEN <<"site", CHOOSE j \in DOMAIN RefsOf(query) : RefsOf(query)[j] = part[2]>> ELSE part

\* A query of the same leaves, but for the parts.
Shaped(new, old) ==
  /\ DOMAIN new = DOMAIN old
  /\ new = [k \in DOMAIN old |-> [quoted |-> old[k].quoted, parts |-> new[k].parts]]
  /\ \A k \in DOMAIN old :
       /\ DOMAIN new[k].parts = DOMAIN old[k].parts
       /\ new[k].parts = [i \in DOMAIN old[k].parts |-> new[k].parts[i]]

Leaves(query) == IsSeq(query) /\ \A k \in DOMAIN query : IsLeaf(query[k])

LEMMA LeavesAreQuery ==
  ASSUME NEW query, Leaves(query)
  PROVE  Query(query)
BY DEF Leaves, Query, IsLeaf

LEMMA ExtractIs ==
  ASSUME NEW query, Leaves(query), IsOk(ExtractRefs(query))
  PROVE  LET R == RefsOf(query)
             leaves == ExtractRefs(query)[2].leaves
         IN  /\ ExtractRefs(query)[2].refs = R
             /\ IsSeq(R)
             /\ \A j \in DOMAIN R : IsSeq(R[j]) /\ ClassifyInner(R[j])
             /\ Shaped(leaves, query)
             /\ \A k \in DOMAIN query : \A i \in DOMAIN query[k].parts :
                  leaves[k].parts[i] = Sited(query, query[k].parts[i])
<1> DEFINE R == RefsOf(query)
           w == PartsOf(query, "ref")
           first == Firsts(w)
           leaves == ExtractRefs(query)[2].leaves
<1>1. IsSeq(w) /\ \A p \in DOMAIN w : IsPart(w[p]) /\ w[p][1] = "ref"
  <2>1. /\ IsSeq(w)
        /\ \A p \in DOMAIN w : \E k \in DOMAIN query : \E i \in DOMAIN query[k].parts :
             w[p] = query[k].parts[i] /\ query[k].parts[i][1] = "ref"
    BY LeavesAreQuery, PartsOfIs
  <2>2. \A k \in DOMAIN query : \A i \in DOMAIN query[k].parts : IsPart(query[k].parts[i])
    BY DEF Leaves, IsLeaf
  <2> HIDE DEF w
  <2> QED
    BY <2>1, <2>2
<1> HIDE DEF w
<1>2. /\ IsSeq(first) /\ \A p \in DOMAIN first : \E i \in DOMAIN w : first[p] = w[i]
  BY <1>1, FirstsHold
<1>3. R = [i \in DOMAIN first |-> first[i][2]]
  BY DEF RefsOf, Named, w
<1> HIDE DEF first, R
<1>4. IsSeq(R) /\ DOMAIN R = DOMAIN first
  <2>1. Len(first) \in Nat /\ DOMAIN first = 1 .. Len(first)
    BY <1>2, SeqIsSeq
  <2>2. R = [i \in 1 .. Len(first) |-> R[i]] /\ DOMAIN R = DOMAIN first
    BY <1>3, <2>1
  <2> QED
    BY <2>1, <2>2, SeqOfFunction
<1>5. ASSUME NEW j \in DOMAIN R PROVE IsSeq(R[j])
  <2>1. PICK i \in DOMAIN w : first[j] = w[i]
    BY <1>2, <1>4
  <2> QED
    BY <1>1, <1>3, <1>4, <2>1 DEF IsPart
<1>6. ExtractRefs(query) =
        IF \A j \in DOMAIN R : ClassifyInner(R[j])
        THEN Ok([refs |-> R,
                 leaves |-> [k \in DOMAIN query |->
                   [query[k] EXCEPT !.parts =
                      [i \in DOMAIN query[k].parts |-> Sited(query, query[k].parts[i])]]]])
        ELSE Failed
  BY Zenon DEF ExtractRefs, MapParts, Sited, R, RefsOf
<1>7. /\ \A j \in DOMAIN R : ClassifyInner(R[j])
      /\ ExtractRefs(query)[2].refs = R
      /\ leaves = [k \in DOMAIN query |->
                     [query[k] EXCEPT !.parts =
                        [i \in DOMAIN query[k].parts |-> Sited(query, query[k].parts[i])]]]
  BY <1>6 DEF IsOk, Ok, Failed
<1> HIDE DEF leaves
<1>8. /\ DOMAIN leaves = DOMAIN query
      /\ \A k \in DOMAIN query :
           leaves[k] = [quoted |-> query[k].quoted,
                        parts |-> [i \in DOMAIN query[k].parts |-> Sited(query, query[k].parts[i])]]
  BY <1>7 DEF Leaves, IsLeaf
<1>9. leaves = [k \in DOMAIN query |-> leaves[k]]
  BY <1>7
<1>10. Shaped(leaves, query)
  BY <1>8, <1>9 DEF Shaped
<1>11. \A k \in DOMAIN query : \A i \in DOMAIN query[k].parts :
         leaves[k].parts[i] = Sited(query, query[k].parts[i])
  BY <1>8
<1> QED
  BY <1>4, <1>5, <1>7, <1>10, <1>11 DEF R, leaves

\* A reference has the index of the first that is written alike.
LEMMA SitedIs ==
  ASSUME NEW query, Leaves(query),
         NEW k \in DOMAIN query, NEW i \in DOMAIN query[k].parts, query[k].parts[i][1] = "ref"
  PROVE  \E j \in DOMAIN RefsOf(query) :
           /\ RefsOf(query)[j] = query[k].parts[i][2]
           /\ Sited(query, query[k].parts[i]) = <<"site", j>>
<1> DEFINE R == RefsOf(query)
           w == PartsOf(query, "ref")
           first == Firsts(w)
           part == query[k].parts[i]
<1>1. IsSeq(w) /\ \E p \in DOMAIN w : w[p] = part
  <2>1. Query(query)
    BY LeavesAreQuery
  <2>2. IsSeq(w) /\ HoldsParts(w, query, "ref")
    BY <2>1, PartsOfIs
  <2> HIDE DEF w
  <2> QED
    BY <2>2 DEF HoldsParts
<1>2. R = [p \in DOMAIN first |-> first[p][2]]
  BY DEF RefsOf, Named
<1> HIDE DEF w, first
<1>3. \E p \in DOMAIN first : first[p] = part
  <2>1. \A p \in DOMAIN w : \E q \in DOMAIN first : first[q] = w[p]
    BY <1>1, FirstsHold DEF first
  <2> QED
    BY <1>1, <2>1
<1>4. \E j \in DOMAIN R : R[j] = part[2]
  BY <1>2, <1>3
<1> DEFINE j == CHOOSE j \in DOMAIN R : R[j] = part[2]
<1>5. j \in DOMAIN R /\ R[j] = part[2]
  BY <1>4, Zenon
<1>6. Sited(query, part) = <<"site", j>>
  BY DEF Sited
<1> HIDE DEF j
<1> QED
  BY <1>5, <1>6

ValueOf(segs) == ResolveRef(segs, Scope)[2]

\* What connectors are given: sites for the references, and the value of each site.
Neutral(query, leaves, values) ==
  /\ Shaped(leaves, query)
  /\ \A k \in DOMAIN query : \A i \in DOMAIN query[k].parts :
       IF query[k].parts[i][1] = "ref"
       THEN \E j \in DOMAIN values :
              /\ leaves[k].parts[i] = <<"site", j>>
              /\ values[j] = ValueOf(query[k].parts[i][2])
       ELSE leaves[k].parts[i] = query[k].parts[i]
  /\ IsSeq(values)
  /\ \A j \in DOMAIN values : IsJson(values[j])

LEMMA PreparedIs ==
  ASSUME attempt.exchange \in DOMAIN Exchanges,
         NEW block, IsBlock(block),
         NEW scope, scope \in {Scope, CleanupScope},
         IsOk(Prepare(block, scope))
  PROVE  LET prepared == Prepare(block, scope)[2]
             R == RefsOf(block.query)
         IN  /\ Neutral(block.query, prepared.leaves, prepared.values)
             /\ IsSeq(R) /\ DOMAIN prepared.values = DOMAIN R
             /\ \A j \in DOMAIN R : prepared.values[j] = ValueOf(R[j])
<1> DEFINE query == block.query
           R == RefsOf(query)
           extracted == ExtractRefs(query)
           resolved == ResolveRefs(extracted[2].refs, scope)
           leaves == extracted[2].leaves
           values == resolved[2]
<1>1. Leaves(query)
  BY DEF IsBlock, Leaves
<1>2. IsOk(extracted) /\ IsOk(resolved) /\ Prepare(block, scope) = Ok([leaves |-> leaves, values |-> values])
  BY DEF Prepare, IsOk, Failed
<1>3. Prepare(block, scope)[2].leaves = leaves /\ Prepare(block, scope)[2].values = values
  BY <1>2 DEF Ok
<1> HIDE DEF query
<1>4. /\ extracted[2].refs = R
      /\ IsSeq(R)
      /\ \A j \in DOMAIN R : IsSeq(R[j]) /\ ClassifyInner(R[j])
      /\ Shaped(leaves, query)
      /\ \A k \in DOMAIN query : \A i \in DOMAIN query[k].parts :
           leaves[k].parts[i] = Sited(query, query[k].parts[i])
  BY <1>1, <1>2, ExtractIs
<1>5. resolved = IF \A j \in DOMAIN R : IsFound(ResolveRef(R[j], scope))
                 THEN Ok([j \in DOMAIN R |-> ResolveRef(R[j], scope)[2]]) ELSE Failed
  BY <1>4 DEF ResolveRefs
<1> HIDE DEF extracted, resolved, leaves
<1>6. /\ \A j \in DOMAIN R : IsFound(ResolveRef(R[j], scope))
      /\ values = [j \in DOMAIN R |-> ResolveRef(R[j], scope)[2]]
  BY <1>2, <1>5 DEF IsOk, Ok, Failed
<1>7. ASSUME NEW j \in DOMAIN R
      PROVE  values[j] = ValueOf(R[j]) /\ IsJson(values[j])
  <2>1. IsSeq(R[j]) /\ ClassifyInner(R[j]) /\ IsFound(ResolveRef(R[j], scope))
    BY <1>4, <1>6
  <2>2. ResolveRef(R[j], scope) = ResolveRef(R[j], Scope) /\ IsJson(ResolveRef(R[j], Scope)[2])
    BY <2>1, ReferenceNamesJson
  <2>3. values[j] = ResolveRef(R[j], scope)[2]
    BY <1>6
  <2> QED
    BY <2>2, <2>3 DEF ValueOf
<1>8. DOMAIN values = DOMAIN R /\ IsSeq(values)
  <2>1. Len(R) \in Nat /\ DOMAIN R = 1 .. Len(R)
    BY <1>4, SeqIsSeq
  <2>2. values = [j \in 1 .. Len(R) |-> values[j]] /\ DOMAIN values = DOMAIN R
    BY <1>6, <2>1
  <2> QED
    BY <2>1, <2>2, SeqOfFunction
<1> HIDE DEF values
<1>9. ASSUME NEW k \in DOMAIN query, NEW i \in DOMAIN query[k].parts
      PROVE  IF query[k].parts[i][1] = "ref"
             THEN \E j \in DOMAIN values :
                    /\ leaves[k].parts[i] = <<"site", j>>
                    /\ values[j] = ValueOf(query[k].parts[i][2])
             ELSE leaves[k].parts[i] = query[k].parts[i]
  <2>1. leaves[k].parts[i] = Sited(query, query[k].parts[i])
    BY <1>4
  <2>2. CASE query[k].parts[i][1] = "ref"
    <3>1. PICK j \in DOMAIN R : /\ R[j] = query[k].parts[i][2]
                                /\ Sited(query, query[k].parts[i]) = <<"site", j>>
      BY <1>1, <2>2, SitedIs
    <3>2. values[j] = ValueOf(query[k].parts[i][2])
      BY <1>7, <3>1
    <3> HIDE DEF R
    <3> QED
      BY <1>8, <2>1, <2>2, <3>1, <3>2
  <2>3. CASE query[k].parts[i][1] # "ref"
    BY <2>1, <2>3 DEF Sited
  <2> QED
    BY <2>2, <2>3
<1>10. Neutral(query, leaves, values)
  BY <1>4, <1>7, <1>8, <1>9 DEF Neutral
<1> QED
  BY <1>3, <1>4, <1>7, <1>8, <1>10 DEF query

-----------------------------------------------------------------------------
(* What each engine runs.                                                  *)

\* The query with the values written into it.
Inlaid(part) == IF part[1] = "ref" THEN <<"value", ValueOf(part[2])>> ELSE part
Written(new, query) ==
  /\ Shaped(new, query)
  /\ \A k \in DOMAIN query : \A i \in DOMAIN query[k].parts :
       new[k].parts[i] = Inlaid(query[k].parts[i])

LEMMA SameShape ==
  ASSUME NEW a, NEW b, NEW query, Shaped(a, query), Shaped(b, query),
         \A k \in DOMAIN query : \A i \in DOMAIN query[k].parts : a[k].parts[i] = b[k].parts[i]
  PROVE  a = b
<1>1. ASSUME NEW k \in DOMAIN query PROVE a[k].parts = b[k].parts
  <2> DEFINE p == a[k].parts
             q == b[k].parts
             D == DOMAIN query[k].parts
  <2>1. p = [i \in D |-> p[i]] /\ q = [i \in D |-> q[i]]
    BY Zenon DEF Shaped
  <2>2. \A i \in D : p[i] = q[i]
    OBVIOUS
  <2> HIDE DEF p, q, D
  <2>3. p = q
    BY <2>1, <2>2
  <2> QED
    BY <2>3 DEF p, q
<1>2. /\ a = [k \in DOMAIN query |-> [quoted |-> query[k].quoted, parts |-> a[k].parts]]
      /\ b = [k \in DOMAIN query |-> [quoted |-> query[k].quoted, parts |-> b[k].parts]]
  BY Zenon DEF Shaped
<1>3. a = [k \in DOMAIN query |-> [quoted |-> query[k].quoted, parts |-> b[k].parts]]
  <2>1. \A k \in DOMAIN query : [quoted |-> query[k].quoted, parts |-> a[k].parts]
                              = [quoted |-> query[k].quoted, parts |-> b[k].parts]
    BY <1>1
  <2> QED
    BY <1>2, <2>1
<1> QED
  BY <1>2, <1>3, Zenon

LEMMA WrittenOnce ==
  ASSUME NEW a, NEW b, NEW query, Written(a, query), Written(b, query)
  PROVE  a = b
<1>1. /\ Shaped(a, query) /\ Shaped(b, query)
      /\ \A k \in DOMAIN query : \A i \in DOMAIN query[k].parts : a[k].parts[i] = b[k].parts[i]
  BY DEF Written
<1> QED
  BY <1>1, SameShape

LEMMA InlinedIs ==
  ASSUME NEW block, IsBlock(block), block.engine # "mongodb"
  PROVE  Written(Inlined(block, Scope), block.query)
<1> DEFINE query == block.query
           new == Inlined(block, Scope)
<1>1. new = [k \in DOMAIN query |->
               [query[k] EXCEPT !.parts = [i \in DOMAIN query[k].parts |-> Inlaid(query[k].parts[i])]]]
  BY Zenon DEF Inlined, MapParts, ValueOf, Inlaid
<1>2. \A k \in DOMAIN query :
        query[k] = [quoted |-> query[k].quoted, parts |-> query[k].parts]
  BY DEF IsBlock, IsLeaf
<1> HIDE DEF new, query
<1>3. /\ DOMAIN new = DOMAIN query
      /\ new = [k \in DOMAIN query |-> new[k]]
      /\ \A k \in DOMAIN query :
           new[k] = [quoted |-> query[k].quoted,
                     parts |-> [i \in DOMAIN query[k].parts |-> Inlaid(query[k].parts[i])]]
  BY <1>1, <1>2
<1>4. Shaped(new, query)
  BY <1>3 DEF Shaped
<1>5. \A k \in DOMAIN query : \A i \in DOMAIN query[k].parts :
        new[k].parts[i] = Inlaid(query[k].parts[i])
  BY <1>3
<1> QED
  BY <1>4, <1>5 DEF Written, new, query

\* Tokens stand where the sites stood.
LEMMA ReplaceIs ==
  ASSUME NEW query, NEW leaves, Shaped(leaves, query), NEW tokens
  PROVE  LET text == ReplaceSentinels(leaves, tokens)
         IN  /\ Shaped(text, query)
             /\ \A k \in DOMAIN query : \A i \in DOMAIN query[k].parts :
                  text[k].parts[i] = IF leaves[k].parts[i][1] = "site"
                                     THEN tokens[leaves[k].parts[i][2]] ELSE leaves[k].parts[i]
<1> DEFINE Place(part) == IF part[1] = "site" THEN tokens[part[2]] ELSE part
           text == ReplaceSentinels(leaves, tokens)
<1>1. text = [k \in DOMAIN leaves |->
                [leaves[k] EXCEPT !.parts =
                   [i \in DOMAIN leaves[k].parts |-> Place(leaves[k].parts[i])]]]
  BY Zenon DEF ReplaceSentinels, MapParts
<1>2. /\ DOMAIN leaves = DOMAIN query
      /\ \A k \in DOMAIN query :
           /\ leaves[k] = [quoted |-> query[k].quoted, parts |-> leaves[k].parts]
           /\ DOMAIN leaves[k].parts = DOMAIN query[k].parts
  BY DEF Shaped
<1> HIDE DEF text
<1>3. /\ DOMAIN text = DOMAIN query
      /\ text = [k \in DOMAIN query |-> text[k]]
      /\ \A k \in DOMAIN query :
           text[k] = [quoted |-> query[k].quoted,
                      parts |-> [i \in DOMAIN query[k].parts |-> Place(leaves[k].parts[i])]]
  <2> HIDE DEF Place
  <2> QED
    BY <1>1, <1>2
<1>4. Shaped(text, query)
  <2> HIDE DEF Place
  <2> QED
    BY <1>3 DEF Shaped
<1>5. \A k \in DOMAIN query : \A i \in DOMAIN query[k].parts :
        text[k].parts[i] = Place(leaves[k].parts[i])
  <2> HIDE DEF Place
  <2> QED
    BY <1>3
<1> QED
  BY <1>4, <1>5 DEF text

\* What every engine's query is checked against.
Carried(block, bound) ==
  /\ Takes(block.engine, bound)
  /\ Delivered(block.engine, bound) = Inlined(block, Scope)

\* Postgres: the number of a placeholder is the index of its value.
LEMMA PostgresCarries ==
  ASSUME NEW block, IsBlock(block), block.engine = "postgres",
         NEW leaves, NEW values, Neutral(block.query, leaves, values)
  PROVE  Carried(block, Bind("postgres", leaves, values)[2])
<1> DEFINE query == block.query
           tokens == [j \in DOMAIN values |-> <<"placeholder", j>>]
           text == ReplaceSentinels(leaves, tokens)
           bound == Bind("postgres", leaves, values)[2]
           AtNumber(part) ==
             IF part[1] = "placeholder" THEN <<"value", bound.values[part[2]]>> ELSE part
           new == Delivered("postgres", bound)
<1>1. bound = [text |-> text, values |-> values]
  BY DEF Bind, PostgresExecute, BindPg, BuildNeutral, Ok
<1>2. \A k \in DOMAIN query : \A i \in DOMAIN query[k].parts :
        query[k].parts[i][1] \in {"text", "space", "ref", "param"}
  BY DEF IsBlock, IsLeaf, IsPart
<1> HIDE DEF query, bound
<1>3. /\ Shaped(text, query)
      /\ \A k \in DOMAIN query : \A i \in DOMAIN query[k].parts :
           text[k].parts[i] = IF leaves[k].parts[i][1] = "site"
                              THEN tokens[leaves[k].parts[i][2]] ELSE leaves[k].parts[i]
  <2>1. Shaped(leaves, query)
    BY DEF Neutral, query
  <2> HIDE DEF tokens
  <2> QED
    BY <2>1, ReplaceIs
<1> HIDE DEF text
<1>4. ASSUME NEW k \in DOMAIN query, NEW i \in DOMAIN query[k].parts
      PROVE  AtNumber(text[k].parts[i]) = Inlaid(query[k].parts[i])
  <2>1. text[k].parts[i] = IF leaves[k].parts[i][1] = "site"
                           THEN tokens[leaves[k].parts[i][2]] ELSE leaves[k].parts[i]
    BY <1>3
  <2>2. CASE query[k].parts[i][1] = "ref"
    <3>1. PICK j \in DOMAIN values : /\ leaves[k].parts[i] = <<"site", j>>
                                     /\ values[j] = ValueOf(query[k].parts[i][2])
      BY <2>2 DEF Neutral, query
    <3>2. text[k].parts[i] = <<"placeholder", j>>
      BY <2>1, <3>1
    <3> QED
      BY <1>1, <2>2, <3>1, <3>2 DEF Inlaid
  <2>3. CASE query[k].parts[i][1] # "ref"
    <3>1. leaves[k].parts[i] = query[k].parts[i]
      BY <2>3 DEF Neutral, query
    <3> QED
      BY <1>2, <2>1, <2>3, <3>1 DEF Inlaid
  <2> QED
    BY <2>2, <2>3
<1>5. new = [k \in DOMAIN text |->
               [text[k] EXCEPT !.parts = [i \in DOMAIN text[k].parts |-> AtNumber(text[k].parts[i])]]]
  <2>1. bound.text = text
    BY <1>1
  <2> QED
    BY <2>1 DEF Delivered, MapParts
<1>6. /\ DOMAIN text = DOMAIN query
      /\ \A k \in DOMAIN query :
           /\ text[k] = [quoted |-> query[k].quoted, parts |-> text[k].parts]
           /\ DOMAIN text[k].parts = DOMAIN query[k].parts
  BY <1>3 DEF Shaped
<1> HIDE DEF new
<1>7. /\ DOMAIN new = DOMAIN query
      /\ new = [k \in DOMAIN query |-> new[k]]
      /\ \A k \in DOMAIN query :
           new[k] = [quoted |-> query[k].quoted,
                     parts |-> [i \in DOMAIN query[k].parts |-> AtNumber(text[k].parts[i])]]
  <2> HIDE DEF AtNumber
  <2> QED
    BY <1>5, <1>6
<1>8. Shaped(new, query)
  <2> HIDE DEF AtNumber
  <2> QED
    BY <1>7 DEF Shaped
<1>9. \A k \in DOMAIN query : \A i \in DOMAIN query[k].parts :
        new[k].parts[i] = AtNumber(text[k].parts[i])
  <2> HIDE DEF AtNumber
  <2> QED
    BY <1>7
<1>10. Written(new, query)
  <2> HIDE DEF AtNumber
  <2> QED
    BY <1>4, <1>8, <1>9 DEF Written
<1>11. new = Inlined(block, Scope)
  <2>1. Written(Inlined(block, Scope), query)
    BY InlinedIs DEF query
  <2> QED
    BY <1>10, <2>1, WrittenOnce
<1>12. Takes("postgres", bound)
  BY DEF Takes
<1> QED
  BY <1>11, <1>12 DEF Carried, new, bound

\* Neo4j: the names of a prefix that the author has not used name the values.
LEMMA PrefixIsFree ==
  ASSUME NEW query, Leaves(query),
         NEW leaves, Shaped(leaves, query), NEW count \in Nat,
         IsOk(ChoosePrefix(leaves, count)),
         NEW k \in DOMAIN query, NEW i \in DOMAIN query[k].parts, NEW j \in 1 .. count,
         leaves[k].parts[i][1] = "param"
  PROVE  leaves[k].parts[i] # <<"param", <<ChoosePrefix(leaves, count)[2], j>>>>
<1> DEFINE written == PartsOf(leaves, "param")
           used == ToSet(written)
           free == {n \in DOMAIN PrefixLadder :
                      \A m \in 1 .. count : <<"param", <<PrefixLadder[n], m>>>> \notin used}
           n == CHOOSE n \in free : \A m \in free : n <= m
           part == leaves[k].parts[i]
<1>1. part \in used
  <2>1. Query(leaves)
    <3>1. /\ DOMAIN leaves = DOMAIN query
          /\ leaves = [kk \in DOMAIN query |-> leaves[kk]]
      BY DEF Shaped
    <3>2. IsSeq(leaves)
      <4>1. Len(query) \in Nat /\ DOMAIN query = 1 .. Len(query)
        BY SeqIsSeq DEF Leaves
      <4>2. leaves = [kk \in 1 .. Len(query) |-> leaves[kk]]
        BY <3>1, <4>1
      <4> QED
        BY <4>1, <4>2, SeqOfFunction
    <3>3. ASSUME NEW kk \in DOMAIN query PROVE IsSeq(leaves[kk].parts)
      <4> DEFINE q == query[kk].parts
                 p == leaves[kk].parts
      <4>1. IsSeq(q)
        BY DEF Leaves, IsLeaf
      <4>2. p = [ii \in DOMAIN q |-> p[ii]]
        BY Zenon DEF Shaped
      <4> HIDE DEF p, q
      <4>3. Len(q) \in Nat /\ DOMAIN q = 1 .. Len(q)
        BY <4>1, SeqIsSeq
      <4>4. IsSeq(p)
        BY <4>2, <4>3, SeqOfFunction
      <4> QED
        BY <4>4 DEF p
    <3> QED
      BY <3>1, <3>2, <3>3 DEF Query
  <2>2. HoldsParts(written, leaves, "param")
    BY <2>1, PartsOfIs
  <2>3. k \in DOMAIN leaves /\ i \in DOMAIN leaves[k].parts
    BY DEF Shaped
  <2> HIDE DEF written
  <2>4. \E p \in DOMAIN written : written[p] = part
    BY <2>2, <2>3 DEF HoldsParts
  <2> QED
    BY <2>4 DEF ToSet
<1> HIDE DEF used
<1>2. ChoosePrefix(leaves, count) = IF free = {} THEN Failed ELSE Ok(PrefixLadder[n])
  BY Zenon DEF ChoosePrefix, used, written
<1>3. free # {} /\ ChoosePrefix(leaves, count)[2] = PrefixLadder[n]
  BY <1>2 DEF IsOk, Failed, Ok
<1>4. n \in free
  <2>1. free \subseteq Nat
    BY DEF PrefixLadder
  <2> HIDE DEF free
  <2>2. \E m \in free : \A l \in free : m <= l
    BY <1>3, <2>1, Least
  <2> QED
    BY <2>2, Zenon
<1> HIDE DEF n
<1>5. <<"param", <<PrefixLadder[n], j>>>> \notin used
  BY <1>4
<1> QED
  BY <1>1, <1>3, <1>5

LEMMA Neo4jCarries ==
  ASSUME NEW block, IsBlock(block), block.engine = "neo4j",
         NEW leaves, NEW values, Neutral(block.query, leaves, values),
         IsOk(Bind("neo4j", leaves, values))
  PROVE  Carried(block, Bind("neo4j", leaves, values)[2])
<1> DEFINE query == block.query
           chosen == ChoosePrefix(leaves, Len(values))
           prefix == chosen[2]
           names == {<<prefix, j>> : j \in DOMAIN values}
           byName == [name \in names |-> values[name[2]]]
           tokens == [j \in DOMAIN values |-> <<"param", <<prefix, j>>>>]
           text == ReplaceSentinels(leaves, tokens)
           bound == Bind("neo4j", leaves, values)[2]
           AtName(part) ==
             IF part[1] = "param" /\ part[2] \in DOMAIN bound.values
             THEN <<"value", bound.values[part[2]]>> ELSE part
           new == Delivered("neo4j", bound)
<1>1. Len(values) \in Nat /\ DOMAIN values = 1 .. Len(values)
  BY SeqIsSeq DEF Neutral
<1>2. IsOk(chosen) /\ bound = [text |-> text, values |-> byName]
  <2>1. Bind("neo4j", leaves, values) =
          IF ~IsOk(chosen) THEN Failed ELSE Ok([text |-> text, values |-> byName])
    <3>1. Bind("neo4j", leaves, values) = BindNeo4j(BuildNeutral(leaves, values))
      BY DEF Bind, Neo4jExecute
    <3> QED
      BY <3>1 DEF BindNeo4j, BuildNeutral
  <2> HIDE DEF chosen, text, byName
  <2> QED
    BY <2>1 DEF IsOk, Failed, Ok
<1> HIDE DEF chosen
<1>3. Leaves(query) /\ \A k \in DOMAIN query : \A i \in DOMAIN query[k].parts :
        query[k].parts[i][1] \in {"text", "space", "ref", "param"}
  BY DEF Leaves, IsBlock, IsLeaf, IsPart
<1>4. /\ bound.text = text
      /\ DOMAIN bound.values = names
      /\ \A j \in DOMAIN values : <<prefix, j>> \in names /\ bound.values[<<prefix, j>>] = values[j]
  <2> HIDE DEF prefix, text, bound
  <2> QED
    BY <1>2
<1> HIDE DEF query, bound
<1>5. /\ Shaped(text, query)
      /\ \A k \in DOMAIN query : \A i \in DOMAIN query[k].parts :
           text[k].parts[i] = IF leaves[k].parts[i][1] = "site"
                              THEN tokens[leaves[k].parts[i][2]] ELSE leaves[k].parts[i]
  <2>1. Shaped(leaves, query)
    BY DEF Neutral, query
  <2> HIDE DEF tokens
  <2> QED
    BY <2>1, ReplaceIs
<1> HIDE DEF text, prefix
<1>6. ASSUME NEW k \in DOMAIN query, NEW i \in DOMAIN query[k].parts
      PROVE  AtName(text[k].parts[i]) = Inlaid(query[k].parts[i])
  <2>1. text[k].parts[i] = IF leaves[k].parts[i][1] = "site"
                           THEN tokens[leaves[k].parts[i][2]] ELSE leaves[k].parts[i]
    BY <1>5
  <2>2. CASE query[k].parts[i][1] = "ref"
    <3>1. PICK j \in DOMAIN values : /\ leaves[k].parts[i] = <<"site", j>>
                                     /\ values[j] = ValueOf(query[k].parts[i][2])
      BY <2>2 DEF Neutral, query
    <3>2. text[k].parts[i] = <<"param", <<prefix, j>>>>
      BY <2>1, <3>1
    <3>3. AtName(<<"param", <<prefix, j>>>>) = <<"value", values[j]>>
      <4> HIDE DEF names
      <4> QED
        BY <1>4
    <3> HIDE DEF AtName
    <3>4. AtName(text[k].parts[i]) = <<"value", ValueOf(query[k].parts[i][2])>>
      BY <3>1, <3>2, <3>3
    <3> QED
      BY <2>2, <3>4 DEF Inlaid
  <2>3. CASE query[k].parts[i][1] # "ref"
    <3>1. leaves[k].parts[i] = query[k].parts[i]
      BY <2>3 DEF Neutral, query
    <3>2. text[k].parts[i] = query[k].parts[i]
      BY <1>3, <2>1, <3>1
    <3> DEFINE part == query[k].parts[i]
    <3>3. part[1] = "param" => part[2] \notin names
      <4> SUFFICES ASSUME part[1] = "param", NEW j \in DOMAIN values, part[2] = <<prefix, j>>
                   PROVE  FALSE
        OBVIOUS
      <4>1. part = <<part[1], part[2]>>
        BY <1>3 DEF Leaves, IsLeaf, IsPart
      <4>2. part = <<"param", <<prefix, j>>>>
        BY <4>1
      <4>3. Shaped(leaves, query)
        BY DEF Neutral, query
      <4> HIDE DEF names, tokens
      <4>4. leaves[k].parts[i] # <<"param", <<chosen[2], j>>>>
        <5>1. leaves[k].parts[i][1] = "param" /\ j \in 1 .. Len(values)
          BY <1>1, <3>1
        <5> QED
          BY <1>1, <1>2, <1>3, <4>3, <5>1, PrefixIsFree DEF chosen
      <4> QED
        BY <3>1, <4>2, <4>4 DEF prefix
    <3> HIDE DEF names
    <3>4. AtName(part) = part
      BY <1>4, <3>3
    <3>5. Inlaid(part) = part
      BY <2>3 DEF Inlaid
    <3> QED
      BY <3>2, <3>4, <3>5
  <2> QED
    BY <2>2, <2>3
<1> HIDE DEF names, tokens
<1>7. new = [k \in DOMAIN text |->
               [text[k] EXCEPT !.parts = [i \in DOMAIN text[k].parts |-> AtName(text[k].parts[i])]]]
  BY <1>4 DEF Delivered, MapParts
<1>8. /\ DOMAIN text = DOMAIN query
      /\ \A k \in DOMAIN query :
           /\ text[k] = [quoted |-> query[k].quoted, parts |-> text[k].parts]
           /\ DOMAIN text[k].parts = DOMAIN query[k].parts
  BY <1>5 DEF Shaped
<1> HIDE DEF new, AtName
<1>9. /\ DOMAIN new = DOMAIN query
      /\ new = [k \in DOMAIN query |-> new[k]]
      /\ \A k \in DOMAIN query :
           new[k] = [quoted |-> query[k].quoted,
                     parts |-> [i \in DOMAIN query[k].parts |-> AtName(text[k].parts[i])]]
  BY <1>7, <1>8
<1>10. Shaped(new, query)
  BY <1>9 DEF Shaped
<1>11. \A k \in DOMAIN query : \A i \in DOMAIN query[k].parts :
         new[k].parts[i] = AtName(text[k].parts[i])
  BY <1>9
<1>12. Written(new, query)
  BY <1>6, <1>10, <1>11 DEF Written
<1>13. new = Inlined(block, Scope)
  <2>1. Written(Inlined(block, Scope), query)
    BY InlinedIs DEF query
  <2> QED
    BY <1>12, <2>1, WrittenOnce
<1>14. Takes("neo4j", bound)
  BY DEF Takes
<1> QED
  BY <1>13, <1>14 DEF Carried, new, bound

\* MySQL: the rank of a placeholder is the index of its value, when no reference is
\* written twice.
LEMMA MysqlCarries ==
  ASSUME NEW block, IsBlock(block), block.engine = "mysql", ~Repeats(block),
         NEW leaves, NEW values, Neutral(block.query, leaves, values),
         DOMAIN values = DOMAIN RefsOf(block.query),
         \A j \in DOMAIN values : values[j] = ValueOf(RefsOf(block.query)[j])
  PROVE  Carried(block, Bind("mysql", leaves, values)[2])
<1> DEFINE query == block.query
           parts == query[1].parts
           P == OfKind(parts, "ref")
           w == PartsOf(query, "ref")
           R == RefsOf(query)
           sites == PartsOf(leaves, "site")
           tokens == [j \in DOMAIN values |-> <<"placeholder", 0>>]
           text == ReplaceSentinels(leaves, tokens)
           bound == Bind("mysql", leaves, values)[2]
           new == Delivered("mysql", bound)
\* The query is one leaf.
<1>1. /\ Leaves(query) /\ Query(query) /\ Len(query) = 1 /\ DOMAIN query = 1 .. 1
      /\ IsSeq(parts) /\ Len(parts) \in Nat /\ DOMAIN parts = 1 .. Len(parts)
      /\ \A i \in DOMAIN parts : parts[i][1] \in {"text", "space", "ref", "param"}
  <2>1. Leaves(query) /\ Len(query) = 1
    BY DEF IsBlock, Leaves
  <2>2. Query(query)
    BY <2>1, LeavesAreQuery
  <2>3. DOMAIN query = 1 .. 1
    BY <2>1, SeqIsSeq DEF Leaves
  <2>4. IsLeaf(query[1])
    BY <2>1, <2>3 DEF Leaves
  <2>5. IsSeq(parts) /\ \A i \in DOMAIN parts : parts[i][1] \in {"text", "space", "ref", "param"}
    BY <2>4 DEF IsLeaf, IsPart
  <2> QED
    BY <2>1, <2>2, <2>3, <2>5, SeqIsSeq
<1>2. Shaped(leaves, query) /\ IsSeq(values) /\ \A j \in DOMAIN values : IsJson(values[j])
  BY Zenon DEF Neutral
\* Its references are distinct, so that each has its rank for an index.
<1>3. /\ IsSeq(w) /\ w = Keep(parts, P) /\ \A i, j \in DOMAIN w : i # j => w[i] # w[j]
  <2>1. IsSeq(w) /\ w = Keep(parts, P)
    BY <1>1, PartsOfIs
  <2>2. \A i, j \in DOMAIN w : i # j => w[i] # w[j]
    BY Zenon DEF Repeats
  <2> QED
    BY <2>1, <2>2
<1>4. R = [i \in DOMAIN w |-> w[i][2]]
  <2>1. Firsts(w) = w
    <3> HIDE DEF w
    <3> QED
      BY <1>3, FirstsOfDistinct
  <2> QED
    BY <2>1 DEF RefsOf, Named
<1>5. /\ Len(w) = Rank(P, Len(parts))
      /\ \A i \in DOMAIN parts : i \in P => Rank(P, i) \in DOMAIN w /\ w[Rank(P, i)] = parts[i]
  BY <1>1, <1>3, KeepIs
<1> HIDE DEF w, R
<1>6. ASSUME NEW i \in DOMAIN parts, i \in P
      PROVE  Rank(P, i) \in DOMAIN values /\ values[Rank(P, i)] = ValueOf(parts[i][2])
  <2>1. Rank(P, i) \in DOMAIN w /\ w[Rank(P, i)] = parts[i]
    BY <1>5, <1>6
  <2>2. Rank(P, i) \in DOMAIN R /\ R[Rank(P, i)] = parts[i][2]
    BY <1>4, <2>1
  <2> QED
    BY <2>2 DEF R
\* The sites stand where the references stood.
<1>7. /\ DOMAIN leaves = 1 .. 1 /\ DOMAIN leaves[1].parts = DOMAIN parts
      /\ leaves[1].parts = [i \in DOMAIN parts |-> leaves[1].parts[i]]
  <2>1. 1 \in DOMAIN query
    BY <1>1
  <2> QED
    BY <1>1, <1>2, <2>1, Zenon DEF Shaped
<1>8. \A i \in DOMAIN parts :
        IF i \in P THEN \E j \in DOMAIN values : leaves[1].parts[i] = <<"site", j>>
        ELSE leaves[1].parts[i] = parts[i]
  <2>1. 1 \in DOMAIN query
    BY <1>1
  <2> QED
    BY <2>1 DEF Neutral, OfKind
<1>9. DOMAIN sites = DOMAIN values
  <2>1. OfKind(leaves[1].parts, "site") = P
    <3>1. \A i \in DOMAIN parts : leaves[1].parts[i][1] = "site" <=> i \in P
      BY <1>1, <1>8
    <3>2. P \subseteq DOMAIN parts
      BY DEF OfKind
    <3> HIDE DEF P
    <3> QED
      BY <1>7, <3>1, <3>2 DEF OfKind
  <2> HIDE DEF P
  <2>2. IsSeq(leaves[1].parts) /\ Len(leaves[1].parts) = Len(parts)
    BY <1>1, <1>7, SeqOfFunction
  <2>3. Query(leaves) /\ Len(leaves) = 1
    <3>1. leaves = [k \in 1 .. 1 |-> leaves[k]]
      BY <1>1, <1>2 DEF Shaped
    <3>2. IsSeq(leaves) /\ Len(leaves) = 1
      BY <3>1, SeqOfFunction
    <3> QED
      BY <1>7, <2>2, <3>2 DEF Query
  <2>4. IsSeq(sites) /\ sites = Keep(leaves[1].parts, P)
    BY <2>1, <2>3, PartsOfIs
  <2>5. Len(sites) = Rank(P, Len(parts))
    BY <2>2, <2>4, KeepIs
  <2> HIDE DEF sites
  <2>6. Len(sites) = Len(w) /\ DOMAIN sites = 1 .. Len(sites) /\ DOMAIN w = 1 .. Len(w)
    BY <1>3, <1>5, <2>4, <2>5, SeqIsSeq
  <2> QED
    BY <1>4, <2>6 DEF R
<1>10. bound.text = text /\ bound.values = values
  <2> DEFINE occurrences == [j \in DOMAIN values |-> j]
             Value(k) == IF k \in DOMAIN occurrences THEN values[occurrences[k]] ELSE Undefined
  <2>1. bound = [text |-> text, values |-> [k \in DOMAIN sites |-> Value(k)]]
    BY DEF Bind, MysqlExecute, BindMySql, BuildNeutral, Ok
  <2>2. values = [k \in DOMAIN values |-> values[k]]
    BY <1>2, SeqIsSeq
  <2>3. \A k \in DOMAIN values : Value(k) = values[k]
    OBVIOUS
  <2> HIDE DEF Value, bound, text, sites
  <2>4. [k \in DOMAIN sites |-> Value(k)] = values
    BY <1>9, <2>2, <2>3
  <2> QED
    BY <2>1, <2>4
<1> HIDE DEF bound, sites
<1>11. /\ Shaped(text, query)
       /\ \A i \in DOMAIN parts :
            text[1].parts[i] = IF leaves[1].parts[i][1] = "site"
                               THEN tokens[leaves[1].parts[i][2]] ELSE leaves[1].parts[i]
  <2> HIDE DEF tokens
  <2>1. /\ Shaped(text, query)
        /\ \A k \in DOMAIN query : \A i \in DOMAIN query[k].parts :
             text[k].parts[i] = IF leaves[k].parts[i][1] = "site"
                                THEN tokens[leaves[k].parts[i][2]] ELSE leaves[k].parts[i]
    BY <1>2, ReplaceIs
  <2>2. 1 \in DOMAIN query
    BY <1>1
  <2> QED
    BY <2>1, <2>2
<1> HIDE DEF text
<1>12. ASSUME NEW i \in DOMAIN parts
       PROVE  text[1].parts[i] = IF i \in P THEN <<"placeholder", 0>> ELSE parts[i]
  <2>1. CASE i \in P
    <3>1. PICK j \in DOMAIN values : leaves[1].parts[i] = <<"site", j>>
      BY <1>8, <2>1
    <3> QED
      BY <1>11, <2>1, <3>1
  <2>2. CASE i \notin P
    BY <1>1, <1>8, <1>11, <2>2
  <2> QED
    BY <2>1, <2>2
<1> HIDE DEF tokens
<1>13. ASSUME NEW i \in DOMAIN parts
       PROVE  text[1].parts[i][1] = "placeholder" <=> i \in P
  BY <1>1, <1>12
<1>14. ASSUME NEW i \in DOMAIN parts
       PROVE  {j \in 1 .. i : text[1].parts[j][1] = "placeholder"} = {j \in 1 .. i : j \in P}
  <2>1. \A j \in 1 .. i : j \in DOMAIN parts
    BY <1>1
  <2> HIDE DEF P, parts
  <2> QED
    BY <1>13, <2>1
\* Each placeholder takes the value of its rank.
<1> DEFINE NthPlace(i) == Cardinality({j \in 1 .. i : text[1].parts[j][1] = "placeholder"})
           Taken(i) == IF text[1].parts[i][1] = "placeholder"
                       THEN <<"value", values[NthPlace(i)]>> ELSE text[1].parts[i]
<1>15. ASSUME NEW i \in DOMAIN parts PROVE Taken(i) = Inlaid(parts[i])
  <2>1. NthPlace(i) = Rank(P, i)
    BY <1>14 DEF Rank
  <2> HIDE DEF NthPlace
  <2>2. CASE i \in P
    <3>1. Taken(i) = <<"value", values[Rank(P, i)]>>
      BY <1>13, <2>1, <2>2
    <3>2. parts[i][1] = "ref"
      BY <2>2 DEF OfKind
    <3>3. values[Rank(P, i)] = ValueOf(parts[i][2])
      BY <1>6, <2>2
    <3> HIDE DEF Taken, P
    <3> QED
      BY <3>1, <3>2, <3>3 DEF Inlaid
  <2>3. CASE i \notin P
    <3>1. Taken(i) = parts[i]
      BY <1>12, <1>13, <2>3
    <3>2. parts[i][1] # "ref"
      BY <2>3 DEF OfKind
    <3> HIDE DEF Taken, P
    <3> QED
      BY <3>1, <3>2 DEF Inlaid
  <2> QED
    BY <2>2, <2>3
<1>16. new = [text EXCEPT ![1].parts = [i \in DOMAIN text[1].parts |-> Taken(i)]]
  BY <1>10 DEF Delivered
<1>17. /\ DOMAIN text = 1 .. 1 /\ text = [k \in 1 .. 1 |-> text[k]]
       /\ text[1] = [quoted |-> query[1].quoted, parts |-> text[1].parts]
       /\ DOMAIN text[1].parts = DOMAIN parts
  <2>1. 1 \in DOMAIN query
    BY <1>1
  <2> QED
    BY <1>1, <1>11, <2>1 DEF Shaped
<1> HIDE DEF new, Taken, P
<1>18. /\ DOMAIN new = 1 .. 1 /\ new = [k \in 1 .. 1 |-> new[k]]
       /\ new[1] = [quoted |-> query[1].quoted, parts |-> [i \in DOMAIN parts |-> Taken(i)]]
  <2> DEFINE taken == [i \in DOMAIN parts |-> Taken(i)]
  <2>1. new = [text EXCEPT ![1].parts = taken]
    BY <1>16, <1>17
  <2> HIDE DEF taken
  <2>2. new = [text EXCEPT ![1] = [text[1] EXCEPT !.parts = taken]]
    BY <2>1
  <2>3. [text[1] EXCEPT !.parts = taken] = [quoted |-> query[1].quoted, parts |-> taken]
    BY <1>17
  <2>4. DOMAIN new = 1 .. 1 /\ new[1] = [quoted |-> query[1].quoted, parts |-> taken]
    BY <1>17, <2>2, <2>3
  <2>5. new = [k \in DOMAIN text |-> new[k]]
    BY <2>2
  <2> QED
    BY <1>17, <2>4, <2>5 DEF taken
<1>19. Shaped(new, query)
  BY <1>1, <1>18 DEF Shaped
<1>20. \A i \in DOMAIN parts : new[1].parts[i] = Taken(i)
  BY <1>18
<1>21. Written(new, query)
  BY <1>1, <1>15, <1>19, <1>20 DEF Written
<1>22. new = Inlined(block, Scope)
  <2>1. Written(Inlined(block, Scope), query)
    BY InlinedIs
  <2> QED
    BY <1>21, <2>1, WrittenOnce
<1>23. Takes("mysql", bound)
  BY <1>2, <1>10 DEF Takes, IsJson
<1> QED
  BY <1>22, <1>23 DEF Carried, new, bound

\* MongoDB: what is not blank.
Inked(parts) == Keep(parts, Ink(parts))

LEMMA InkConcat ==
  ASSUME NEW a, NEW b, IsSeq(a), IsSeq(b)
  PROVE  Inked(a \o b) = Inked(a) \o Inked(b)
<1> DEFINE m == Len(a)
           n == Len(b)
           c == a \o b
           x == Chosen(a, Ink(a))
           y == Chosen(b, Ink(b))
           z == Chosen(c, Ink(c))
           xy == x \o y
<1>1. m \in Nat /\ n \in Nat /\ DOMAIN a = 1 .. m /\ DOMAIN b = 1 .. n
  BY SeqIsSeq
<1>2. /\ IsSeq(c) /\ Len(c) = m + n /\ DOMAIN c = 1 .. m + n
      /\ \A i \in 1 .. m + n : c[i] = IF i <= m THEN a[i] ELSE b[i - m]
  <2>1. Joins(c, a, b) /\ IsSeq(c)
    BY ConcatIsSeq, Zenon
  <2> HIDE DEF c
  <2> QED
    BY <2>1, SeqIsSeq DEF Joins
<1> HIDE DEF m, n, c
<1>3. /\ AllSeqs(x) /\ Len(x) = m /\ Inked(a) = FlattenSeq(x)
      /\ \A i \in 1 .. m : x[i] = IF i \in Ink(a) THEN <<a[i]>> ELSE << >>
  BY ChosenIs DEF Inked, m
<1>4. /\ AllSeqs(y) /\ Len(y) = n /\ Inked(b) = FlattenSeq(y)
      /\ \A i \in 1 .. n : y[i] = IF i \in Ink(b) THEN <<b[i]>> ELSE << >>
  BY ChosenIs DEF Inked, n
<1>5. /\ AllSeqs(z) /\ Len(z) = m + n /\ Inked(c) = FlattenSeq(z)
      /\ \A i \in 1 .. m + n : z[i] = IF i \in Ink(c) THEN <<c[i]>> ELSE << >>
  BY <1>2, ChosenIs DEF Inked
<1> HIDE DEF x, y, z
<1>6. /\ IsSeq(xy) /\ Len(xy) = m + n
      /\ \A i \in 1 .. m + n : xy[i] = IF i <= m THEN x[i] ELSE y[i - m]
  <2>1. IsSeq(x) /\ IsSeq(y)
    BY <1>3, <1>4 DEF AllSeqs
  <2>2. Joins(xy, x, y)
    BY <2>1, ConcatIsSeq, Zenon
  <2> HIDE DEF xy
  <2> QED
    BY <1>3, <1>4, <2>2 DEF Joins
<1>7. ASSUME NEW i \in 1 .. m + n PROVE z[i] = xy[i]
  <2>1. CASE i <= m
    <3>1. i \in 1 .. m
      BY <1>1, <2>1
    <3>2. i \in Ink(c) <=> i \in Ink(a)
      BY <1>1, <1>2, <2>1, <3>1 DEF Ink
    <3>3. c[i] = a[i] /\ xy[i] = x[i]
      BY <1>2, <1>6, <2>1
    <3> HIDE DEF xy
    <3> QED
      BY <1>3, <1>5, <3>1, <3>2, <3>3
  <2>2. CASE ~(i <= m)
    <3>1. i - m \in 1 .. n
      BY <1>1, <2>2
    <3>2. c[i] = b[i - m] /\ xy[i] = y[i - m]
      BY <1>2, <1>6, <2>2
    <3>3. i \in Ink(c) <=> i - m \in Ink(b)
      BY <1>1, <1>2, <3>1, <3>2 DEF Ink
    <3> HIDE DEF xy
    <3> QED
      BY <1>4, <1>5, <3>1, <3>2, <3>3
  <2> QED
    BY <2>1, <2>2
<1>8. z = xy
  <2> HIDE DEF xy
  <2>1. IsSeq(z)
    BY <1>5 DEF AllSeqs
  <2> QED
    BY <1>5, <1>6, <1>7, <2>1, SameSeq
<1>9. FlattenSeq(xy) = FlattenSeq(x) \o FlattenSeq(y)
  BY <1>3, <1>4, FlattenConcat
<1> QED
  BY <1>3, <1>4, <1>5, <1>8, <1>9, Zenon DEF c

LEMMA InkFlatten ==
  ASSUME NEW s, NEW t, AllSeqs(s), AllSeqs(t), Len(s) = Len(t),
         \A i \in 1 .. Len(s) : Inked(s[i]) = Inked(t[i])
  PROVE  Inked(FlattenSeq(s)) = Inked(FlattenSeq(t))
<1> DEFINE N == Len(s)
<1>1. N \in Nat /\ DOMAIN s = 1 .. N /\ DOMAIN t = 1 .. N /\ Len(t) = N
  BY SeqIsSeq DEF AllSeqs
<1>2. PICK f : Steps(s, f) /\ FlattenSeq(s) = f[N]
  BY Gathering
<1>3. PICK g : Steps(t, g) /\ FlattenSeq(t) = g[N]
  BY <1>1, Gathering
<1> DEFINE Same(n) == Inked(f[n]) = Inked(g[n])
           T == {n \in Nat : n \in 0 .. N => Same(n)}
<1> HIDE DEF N
<1>4. 0 \in T
  <2>1. f[0] = << >> /\ g[0] = << >>
    BY <1>2, <1>3, Zenon DEF Steps
  <2>2. Same(0)
    BY <2>1
  <2> HIDE DEF Same
  <2> QED
    BY <2>2
<1>5. ASSUME NEW n \in Nat, n \in T PROVE n + 1 \in T
  <2> HIDE DEF Same
  <2> SUFFICES ASSUME n + 1 \in 0 .. N PROVE Same(n + 1)
    OBVIOUS
  <2>1. Same(n) /\ n \in 0 .. N /\ n + 1 \in 1 .. N /\ (n + 1) - 1 = n
    BY <1>1, <1>5
  <2> DEFINE a == f[n]
             b == s[n + 1]
             c == g[n]
             d == t[n + 1]
  <2>2. IsSeq(a) /\ IsSeq(b) /\ IsSeq(c) /\ IsSeq(d)
    BY <1>1, <1>2, <1>3, <2>1 DEF Steps, AllSeqs, N
  <2>3. f[n + 1] = a \o b
    BY <1>2, <2>1 DEF Steps, N
  <2>4. g[n + 1] = c \o d
    BY <1>1, <1>3, <2>1 DEF Steps
  <2>5. Inked(a) = Inked(c) /\ Inked(b) = Inked(d)
    BY <2>1 DEF Same, N
  <2> HIDE DEF a, b, c, d
  <2>6. Inked(a \o b) = Inked(a) \o Inked(b) /\ Inked(c \o d) = Inked(c) \o Inked(d)
    BY <2>2, InkConcat
  <2>7. Inked(a \o b) = Inked(c \o d)
    BY <2>5, <2>6, Zenon
  <2>8. Inked(f[n + 1]) = Inked(g[n + 1])
    BY <2>3, <2>4, <2>7, Zenon
  <2> QED
    BY <2>8 DEF Same
<1> HIDE DEF T
<1>6. Nat \subseteq T
  BY <1>4, <1>5, NatSetInduction
<1>7. Same(N)
  <2> HIDE DEF Same
  <2> QED
    BY <1>1, <1>6 DEF T
<1> QED
  BY <1>2, <1>3, <1>7, Zenon

\* A blank leaves no ink.
LEMMA BlankHasNoInk ==
  ASSUME NEW part, part[1] = "space"
  PROVE  Inked(<<part>>) = Inked(<< >>)
<1> DEFINE one == <<part>>
           none == << >>
<1>1. IsSeq(one) /\ Len(one) = 1 /\ one[1] = part /\ IsSeq(none) /\ Len(none) = 0
  BY OneIsSeq, EmptyIsSeq
<1>2. DOMAIN one = 1 .. 1 /\ DOMAIN none = 1 .. 0
  BY <1>1, SeqIsSeq
<1> HIDE DEF one, none
<1>3. Ink(one) = {} /\ Ink(none) = {}
  BY <1>1, <1>2 DEF Ink
<1>4. Rank({}, 1) = 0 /\ Rank({}, 0) = 0
  <2>1. Rank({}, 0) = 0 /\ Rank({}, 0 + 1) = Rank({}, 0) + 0
    BY RankGrows
  <2> QED
    BY <2>1
<1>5. IsSeq(Inked(one)) /\ Len(Inked(one)) = 0 /\ IsSeq(Inked(none)) /\ Len(Inked(none)) = 0
  BY <1>1, <1>3, <1>4, KeepIs DEF Inked
<1>6. Inked(one) = << >> /\ Inked(none) = << >>
  BY <1>5, EmptyIsSeq
<1> QED
  BY <1>6 DEF one, none

LEMMA TextIsSeq ==
  ASSUME NEW v, IsJson(v)
  PROVE  IsSeq(TextOf(v))
<1>1. CASE Kind(v) = "str"
  <2>1. Len(v[2]) \in Nat /\ DOMAIN v[2] = 1 .. Len(v[2])
    BY <1>1, SeqIsSeq DEF IsJson
  <2>2. TextOf(v) = [i \in DOMAIN v[2] |-> <<"text", v[2][i]>>]
    BY <1>1 DEF TextOf
  <2>3. TextOf(v) = [i \in 1 .. Len(v[2]) |-> TextOf(v)[i]]
    BY <2>1, <2>2
  <2> QED
    BY <2>1, <2>3, SeqOfFunction
<1>2. CASE Kind(v) \in {"null", "undefined"}
  BY <1>2, EmptyIsSeq DEF TextOf
<1>3. CASE Kind(v) \notin {"str", "null", "undefined"}
  <2>1. TextOf(v) = <<<<"text", ToString(v)>>>>
    BY <1>3 DEF TextOf
  <2> QED
    BY <2>1, OneIsSeq
<1> QED
  BY <1>1, <1>2, <1>3

\* What the binder of MongoDB and the property put in the place of a part.
PutAt(parts, values, i) ==
  LET Beside(n) == \E j \in DOMAIN parts : /\ parts[j][1] = "site"
                                           /\ \A k \in (n .. j) \union (j .. n) :
                                                k = j \/ parts[k][1] = "space"
  IN  CASE parts[i][1] = "site"  -> TextOf(values[parts[i][2]])
        [] parts[i][1] = "space" -> IF Beside(i) THEN << >> ELSE <<parts[i]>>
        [] OTHER -> <<parts[i]>>
Spliced(part) == CASE part[1] = "ref"   -> TextOf(ValueOf(part[2]))
                   [] part[1] = "space" -> << >>
                   [] OTHER -> <<part>>
Alone(parts, kind) == \E i \in Ink(parts) : Ink(parts) = {i} /\ parts[i][1] = kind
SplicedParts(parts) ==
  IF Alone(parts, "ref")
  THEN LET i == CHOOSE i \in Ink(parts) : TRUE IN <<Inlaid(parts[i])>>
  ELSE FlattenSeq([i \in DOMAIN parts |-> Spliced(parts[i])])

LEMMA MapLeafIs ==
  ASSUME NEW leaf, NEW values
  PROVE  MapLeaf(leaf, values) =
           IF Alone(leaf.parts, "site")
           THEN LET i == CHOOSE i \in Ink(leaf.parts) : TRUE
                IN  <<<<"value", values[leaf.parts[i][2]]>>>>
           ELSE FlattenSeq([i \in DOMAIN leaf.parts |-> PutAt(leaf.parts, values, i)])
BY Zenon DEF MapLeaf, Alone, PutAt

\* Part for part, the same ink.
LEMMA PartsHaveSameInk ==
  ASSUME NEW query, Leaves(query), NEW leaves, NEW values, Neutral(query, leaves, values),
         NEW k \in DOMAIN query, NEW i \in DOMAIN query[k].parts
  PROVE  /\ IsSeq(PutAt(leaves[k].parts, values, i)) /\ IsSeq(Spliced(query[k].parts[i]))
         /\ Inked(PutAt(leaves[k].parts, values, i)) = Inked(Spliced(query[k].parts[i]))
<1> DEFINE part == query[k].parts[i]
           placed == leaves[k].parts[i]
           a == PutAt(leaves[k].parts, values, i)
           b == Spliced(part)
<1>1. part[1] \in {"text", "space", "ref", "param"}
  BY DEF Leaves, IsLeaf, IsPart
<1>2. CASE part[1] = "ref"
  <2>1. PICK j \in DOMAIN values : placed = <<"site", j>> /\ values[j] = ValueOf(part[2])
    BY <1>2 DEF Neutral
  <2>2. a = TextOf(values[j])
    <3>1. placed[1] = "site" /\ placed[2] = j
      BY <2>1
    <3> QED
      BY <3>1 DEF PutAt
  <2>3. b = TextOf(values[j])
    BY <1>2, <2>1 DEF Spliced
  <2>4. IsSeq(TextOf(values[j]))
    <3>1. IsJson(values[j])
      BY DEF Neutral
    <3> QED
      BY <3>1, TextIsSeq
  <2> QED
    BY <2>2, <2>3, <2>4
<1>3. CASE part[1] # "ref"
  <2>1. placed = part
    BY <1>3 DEF Neutral
  <2>2. CASE part[1] = "space"
    <3>1. a = << >> \/ a = <<part>>
      BY <2>1, <2>2 DEF PutAt
    <3>2. b = << >>
      BY <2>2 DEF Spliced
    <3>3. Inked(<<part>>) = Inked(<< >>)
      BY <2>2, BlankHasNoInk
    <3>4. IsSeq(<< >>) /\ IsSeq(<<part>>)
      BY EmptyIsSeq, OneIsSeq
    <3> HIDE DEF a, b, part
    <3>5. Inked(a) = Inked(b)
      BY <3>1, <3>2, <3>3, Zenon
    <3>6. IsSeq(a) /\ IsSeq(b)
      BY <3>1, <3>2, <3>4, Zenon
    <3> QED
      BY <3>5, <3>6 DEF a, b, part
  <2>3. CASE part[1] # "space"
    <3>1. a = <<part>>
      BY <1>1, <1>3, <2>1, <2>3 DEF PutAt
    <3>2. b = <<part>>
      BY <1>3, <2>3 DEF Spliced
    <3> QED
      BY <3>1, <3>2, OneIsSeq
  <2> QED
    BY <2>2, <2>3
<1> QED
  BY <1>2, <1>3

LEMMA LeafHasSameInk ==
  ASSUME NEW query, Leaves(query), NEW leaves, NEW values, Neutral(query, leaves, values),
         NEW k \in DOMAIN query
  PROVE  Inked(MapLeaf(leaves[k], values)) = Inked(SplicedParts(query[k].parts))
<1> DEFINE parts == query[k].parts
           placed == leaves[k].parts
           s == [i \in DOMAIN placed |-> PutAt(placed, values, i)]
           t == [i \in DOMAIN parts |-> Spliced(parts[i])]
<1>1. IsSeq(parts) /\ \A i \in DOMAIN parts : parts[i][1] \in {"text", "space", "ref", "param"}
  BY DEF Leaves, IsLeaf, IsPart
<1>2. DOMAIN placed = DOMAIN parts
  BY DEF Neutral, Shaped
<1>3. \A i \in DOMAIN parts :
        IF parts[i][1] = "ref"
        THEN \E j \in DOMAIN values : placed[i] = <<"site", j>> /\ values[j] = ValueOf(parts[i][2])
        ELSE placed[i] = parts[i]
  BY DEF Neutral
<1>4. \A i \in DOMAIN parts :
        /\ IsSeq(PutAt(placed, values, i)) /\ IsSeq(Spliced(parts[i]))
        /\ Inked(PutAt(placed, values, i)) = Inked(Spliced(parts[i]))
  BY PartsHaveSameInk
<1>5. MapLeaf(leaves[k], values) =
        IF Alone(placed, "site")
        THEN LET i == CHOOSE i \in Ink(placed) : TRUE IN <<<<"value", values[placed[i][2]]>>>>
        ELSE FlattenSeq(s)
  BY MapLeafIs
<1> HIDE DEF parts, placed
<1>6. \A i \in DOMAIN parts : /\ placed[i][1] = "space" <=> parts[i][1] = "space"
                              /\ placed[i][1] = "site" <=> parts[i][1] = "ref"
  BY <1>1, <1>3
<1>7. Ink(placed) = Ink(parts) /\ Ink(parts) \subseteq DOMAIN parts
  BY <1>2, <1>6 DEF Ink
<1>8. CASE Alone(parts, "ref")
  <2> DEFINE c == CHOOSE i \in Ink(parts) : TRUE
  <2>1. c \in Ink(parts) /\ Ink(parts) = {c} /\ parts[c][1] = "ref"
    <3>1. PICK i : Ink(parts) = {i} /\ parts[i][1] = "ref"
      BY <1>8 DEF Alone
    <3>2. c = i
      BY <3>1
    <3> QED
      BY <3>1, <3>2
  <2>2. c = CHOOSE i \in Ink(placed) : TRUE
    BY <1>7, Zenon
  <2>3. SplicedParts(parts) = <<Inlaid(parts[c])>>
    BY <1>8 DEF SplicedParts
  <2>4. Alone(placed, "site")
    BY <1>6, <1>7, <2>1 DEF Alone
  <2>5. MapLeaf(leaves[k], values) = <<<<"value", values[placed[c][2]]>>>>
    BY <1>5, <2>2, <2>4, Zenon
  <2> HIDE DEF c
  <2>6. PICK j \in DOMAIN values : placed[c] = <<"site", j>> /\ values[j] = ValueOf(parts[c][2])
    BY <1>3, <1>7, <2>1
  <2>7. Inlaid(parts[c]) = <<"value", values[placed[c][2]]>>
    BY <2>1, <2>6 DEF Inlaid
  <2>8. MapLeaf(leaves[k], values) = SplicedParts(parts)
    BY <2>3, <2>5, <2>7, Zenon
  <2> QED
    BY <2>8, Zenon DEF parts
<1>9. CASE ~Alone(parts, "ref")
  <2>1. SplicedParts(parts) = FlattenSeq(t)
    BY <1>9, Zenon DEF SplicedParts
  <2>2. ~Alone(placed, "site")
    BY <1>6, <1>7, <1>9 DEF Alone
  <2>3. MapLeaf(leaves[k], values) = FlattenSeq(s)
    BY <1>5, <2>2, Zenon
  <2>4. Len(parts) \in Nat /\ DOMAIN parts = 1 .. Len(parts)
    BY <1>1, SeqIsSeq
  <2>5. /\ s = [i \in 1 .. Len(parts) |-> s[i]] /\ t = [i \in 1 .. Len(parts) |-> t[i]]
        /\ \A i \in 1 .. Len(parts) : s[i] = PutAt(placed, values, i) /\ t[i] = Spliced(parts[i])
    BY <1>2, <2>4
  <2> HIDE DEF s, t
  <2>6. IsSeq(s) /\ IsSeq(t) /\ Len(s) = Len(parts) /\ Len(t) = Len(parts)
    BY <2>4, <2>5, SeqOfFunction
  <2>7. AllSeqs(s) /\ AllSeqs(t)
    <3>1. DOMAIN s = 1 .. Len(parts) /\ DOMAIN t = 1 .. Len(parts)
      BY <2>6, SeqIsSeq
    <3> QED
      BY <1>4, <2>4, <2>5, <2>6, <3>1 DEF AllSeqs
  <2>8. \A i \in 1 .. Len(s) : Inked(s[i]) = Inked(t[i])
    BY <1>4, <2>4, <2>5, <2>6
  <2>9. Inked(FlattenSeq(s)) = Inked(FlattenSeq(t))
    <3>1. Len(s) = Len(t)
      BY <2>6
    <3> QED
      BY <2>7, <2>8, <3>1, InkFlatten
  <2> QED
    BY <2>1, <2>3, <2>9, Zenon DEF parts
<1> QED
  BY <1>8, <1>9

LEMMA MongodbCarries ==
  ASSUME NEW block, IsBlock(block), block.engine = "mongodb",
         NEW leaves, NEW values, Neutral(block.query, leaves, values),
         IsOk(Bind("mongodb", leaves, values))
  PROVE  LET bound == Bind("mongodb", leaves, values)[2]
         IN  /\ Takes("mongodb", bound)
             /\ WithoutSpaces(Delivered("mongodb", bound)) = WithoutSpaces(Inlined(block, Scope))
<1> DEFINE query == block.query
           bound == Bind("mongodb", leaves, values)[2]
           text == [k \in DOMAIN leaves |->
                      [leaves[k] EXCEPT !.parts = MapLeaf(leaves[k], values)]]
           inlined == [k \in DOMAIN query |->
                         [query[k] EXCEPT !.parts = SplicedParts(query[k].parts)]]
<1>1. bound = [text |-> text, values |-> << >>]
  <2> HIDE DEF text
  <2>1. BindMongo(BuildNeutral(leaves, values)) = Ok([text |-> text, values |-> << >>])
    BY DEF BindMongo, BuildNeutral, text
  <2>2. \/ Bind("mongodb", leaves, values) = Failed
        \/ Bind("mongodb", leaves, values) = BindMongo(BuildNeutral(leaves, values))
    BY DEF Bind, MongodbExecute
  <2>3. ~IsOk(Failed)
    BY DEF IsOk, Failed
  <2>4. Bind("mongodb", leaves, values) = Ok([text |-> text, values |-> << >>])
    BY <2>1, <2>2, <2>3, Zenon
  <2> QED
    BY <2>4 DEF Ok
<1>2. Delivered("mongodb", bound) = text
  <2> HIDE DEF text, bound
  <2> QED
    BY <1>1 DEF Delivered
<1>3. Inlined(block, Scope) = inlined
  BY Zenon DEF Inlined, SplicedParts, Spliced, Alone, Inlaid, ValueOf
<1>4. Leaves(query)
  BY DEF IsBlock, Leaves
<1> HIDE DEF query
<1>5. \A k \in DOMAIN query : query[k] = [quoted |-> query[k].quoted, parts |-> query[k].parts]
  BY <1>4 DEF Leaves, IsLeaf
<1>6. /\ DOMAIN leaves = DOMAIN query
      /\ \A k \in DOMAIN query : leaves[k] = [quoted |-> query[k].quoted, parts |-> leaves[k].parts]
  BY DEF Neutral, Shaped, query
<1>7. \A k \in DOMAIN query :
        /\ text[k] = [quoted |-> query[k].quoted, parts |-> MapLeaf(leaves[k], values)]
        /\ inlined[k] = [quoted |-> query[k].quoted, parts |-> SplicedParts(query[k].parts)]
  BY <1>5, <1>6
<1>8. DOMAIN text = DOMAIN query /\ DOMAIN inlined = DOMAIN query
  BY <1>6
<1> HIDE DEF text, inlined
<1>9. \A k \in DOMAIN query : Inked(MapLeaf(leaves[k], values)) = Inked(SplicedParts(query[k].parts))
  BY <1>4, LeafHasSameInk DEF query
<1> DEFINE Dry(leaf) == [leaf EXCEPT !.parts = Inked(leaf.parts)]
<1>10. ASSUME NEW k \in DOMAIN query PROVE Dry(text[k]) = Dry(inlined[k])
  <2> DEFINE a == MapLeaf(leaves[k], values)
             b == SplicedParts(query[k].parts)
             q == query[k].quoted
  <2>1. text[k] = [quoted |-> q, parts |-> a] /\ inlined[k] = [quoted |-> q, parts |-> b]
    BY <1>7
  <2>2. Inked(a) = Inked(b)
    BY <1>9
  <2> HIDE DEF a, b, q
  <2>3. Dry([quoted |-> q, parts |-> a]) = [quoted |-> q, parts |-> Inked(a)]
    OBVIOUS
  <2>4. Dry([quoted |-> q, parts |-> b]) = [quoted |-> q, parts |-> Inked(b)]
    OBVIOUS
  <2> HIDE DEF Dry
  <2> QED
    BY <2>1, <2>2, <2>3, <2>4, Zenon
<1>11. /\ WithoutSpaces(text) = [k \in DOMAIN query |-> Dry(text[k])]
       /\ WithoutSpaces(inlined) = [k \in DOMAIN query |-> Dry(inlined[k])]
  BY <1>8, Zenon DEF WithoutSpaces, Inked
<1> HIDE DEF Dry
<1>12. WithoutSpaces(text) = WithoutSpaces(inlined)
  BY <1>10, <1>11
<1>13. Takes("mongodb", bound)
  BY DEF Takes
<1> QED
  BY <1>2, <1>3, <1>12, <1>13

-----------------------------------------------------------------------------
(* Every run of every attempt.                                             *)

Carries(scope, block, bound) ==
  (block.engine = "mysql" => ~Repeats(block))
  => /\ Takes(block.engine, bound)
     /\ WithoutSpaces(Delivered(block.engine, bound)) = WithoutSpaces(Inlined(block, scope))

LEMMA RunCarries ==
  ASSUME attempt.exchange \in DOMAIN Exchanges,
         NEW block, IsBlock(block),
         NEW scope, scope \in {Scope, CleanupScope},
         IsOk(Prepare(block, scope)),
         NEW bound,
         bound = Bind(block.engine, Prepare(block, scope)[2].leaves, Prepare(block, scope)[2].values),
         IsOk(bound)
  PROVE  Carries(Scope, block, bound[2])
<1> DEFINE leaves == Prepare(block, scope)[2].leaves
           values == Prepare(block, scope)[2].values
           R == RefsOf(block.query)
<1>1. /\ Neutral(block.query, leaves, values)
      /\ DOMAIN values = DOMAIN R
      /\ \A j \in DOMAIN R : values[j] = ValueOf(R[j])
  BY PreparedIs
<1> HIDE DEF leaves, values
<1>2. Carried(block, bound[2]) => Carries(Scope, block, bound[2])
  BY Zenon DEF Carried, Carries
<1>3. block.engine \in {"postgres", "mysql", "neo4j", "mongodb"}
  BY DEF IsBlock
<1>4. CASE block.engine = "postgres"
  <2>1. Carried(block, Bind("postgres", leaves, values)[2])
    BY <1>1, <1>4, PostgresCarries
  <2> QED
    BY <1>2, <1>4, <2>1 DEF leaves, values
<1>5. CASE block.engine = "neo4j"
  <2>0. bound = Bind("neo4j", leaves, values)
    BY <1>5 DEF leaves, values
  <2>1. IsOk(Bind("neo4j", leaves, values))
    BY <2>0, Zenon
  <2>2. Carried(block, Bind("neo4j", leaves, values)[2])
    BY <1>1, <1>5, <2>1, Neo4jCarries
  <2> QED
    BY <1>2, <2>0, <2>2
<1>6. CASE block.engine = "mysql"
  <2> SUFFICES ASSUME ~Repeats(block) PROVE Carries(Scope, block, bound[2])
    BY <1>6 DEF Carries
  <2>1. bound = Bind("mysql", leaves, values)
    BY <1>6 DEF leaves, values
  <2>2. \A j \in DOMAIN values : values[j] = ValueOf(R[j])
    BY <1>1
  <2>3. Carried(block, Bind("mysql", leaves, values)[2])
    BY <1>1, <1>6, <2>2, MysqlCarries
  <2> QED
    BY <1>2, <2>1, <2>3
<1>7. CASE block.engine = "mongodb"
  <2>0. bound = Bind("mongodb", leaves, values)
    BY <1>7 DEF leaves, values
  <2>1. IsOk(Bind("mongodb", leaves, values))
    BY <2>0, Zenon
  <2> DEFINE b == bound[2]
  <2>2. b = Bind("mongodb", leaves, values)[2]
    BY <2>0, Zenon
  <2> HIDE DEF b
  <2>3. /\ Takes("mongodb", b)
        /\ WithoutSpaces(Delivered("mongodb", b)) = WithoutSpaces(Inlined(block, Scope))
    BY <1>1, <1>7, <2>1, <2>2, MongodbCarries
  <2>4. Carries(Scope, block, b)
    BY <1>7, <2>3 DEF Carries
  <2> QED
    BY <2>4 DEF b
<1> QED
  BY <1>3, <1>4, <1>5, <1>6, <1>7

Extends(t, s, x) ==
  IsSeq(t) /\ \A k \in DOMAIN t : t[k] = x \/ (k \in DOMAIN s /\ t[k] = s[k])

LEMMA AppendIs ==
  ASSUME NEW s, IsSeq(s), NEW x
  PROVE  Extends(Append(s, x), s, x)
<1> DEFINE S == ToSet(s) \union {x}
           t == Append(s, x)
<1>1. s \in Seq(S)
  BY SeqMonotonic DEF IsSeq
<1>2. x \in S
  OBVIOUS
<1> HIDE DEF S
<1>3. /\ t \in Seq(S) /\ Len(t) = Len(s) + 1
      /\ \A i \in 1 .. Len(s) : t[i] = s[i]
      /\ t[Len(s) + 1] = x
  BY <1>1, <1>2, AppendProperties
<1> HIDE DEF t
<1>4. Len(s) \in Nat /\ DOMAIN s = 1 .. Len(s) /\ IsSeq(t) /\ DOMAIN t = 1 .. Len(t)
  BY <1>1, <1>3, InSeqIsSeq
<1>5. Extends(t, s, x)
  BY <1>3, <1>4 DEF Extends
<1> QED
  BY <1>5 DEF t

\* A block of an attempt, and the exchange it is about.
LEMMA BlocksOfAttempts ==
  ASSUME attempt \in Attempts
  PROVE  /\ attempt.exchange \in DOMAIN Exchanges
         /\ IsSeq(results) /\ Due => IsBlock(Step)
         /\ attempt.cleanup # << >> => IsBlock(attempt.cleanup[1])
<1>1. /\ IsSeq(attempt.steps) /\ \A k \in DOMAIN attempt.steps : IsBlock(attempt.steps[k])
      /\ IsSeq(attempt.cleanup) /\ \A k \in DOMAIN attempt.cleanup : IsBlock(attempt.cleanup[k])
      /\ attempt.exchange \in DOMAIN Exchanges
  BY AttemptsAssumption
<1>2. /\ Len(attempt.steps) \in Nat /\ DOMAIN attempt.steps = 1 .. Len(attempt.steps)
      /\ Len(attempt.cleanup) \in Nat /\ DOMAIN attempt.cleanup = 1 .. Len(attempt.cleanup)
      /\ (Len(attempt.cleanup) = 0 => attempt.cleanup = << >>)
  BY <1>1, SeqIsSeq, EmptyIsSeq
<1>3. ASSUME IsSeq(results), Due PROVE IsBlock(Step)
  <2>1. Len(results) \in Nat
    BY <1>3, SeqIsSeq
  <2>2. Len(results) + 1 \in DOMAIN attempt.steps
    BY <1>2, <1>3, <2>1 DEF Due
  <2> QED
    BY <1>1, <2>2 DEF Step
<1>4. ASSUME attempt.cleanup # << >> PROVE IsBlock(attempt.cleanup[1])
  <2>1. 1 \in DOMAIN attempt.cleanup
    BY <1>2, <1>4
  <2> QED
    BY <1>1, <2>1
<1> QED
  BY <1>1, <1>3, <1>4

AllCarry(scope, seq) ==
  IsSeq(seq) /\ \A k \in DOMAIN seq : Carries(scope, seq[k].block, seq[k].bound)

LEMMA AppendCarries ==
  ASSUME NEW scope, NEW seq, AllCarry(scope, seq),
         NEW block, NEW bound, Carries(scope, block, bound)
  PROVE  AllCarry(scope, Append(seq, [block |-> block, bound |-> bound]))
<1> DEFINE run == [block |-> block, bound |-> bound]
           longer == Append(seq, run)
<1>1. run.block = block /\ run.bound = bound /\ IsSeq(seq)
  BY DEF AllCarry
<1> HIDE DEF run
<1>2. Extends(longer, seq, run)
  BY <1>1, AppendIs, Zenon
<1> HIDE DEF longer
<1>3. AllCarry(scope, longer)
  BY <1>1, <1>2 DEF AllCarry, Extends
<1> QED
  BY <1>3 DEF longer, run

\* Every run carries its references; the rest is what blocks are found by.
Carrying ==
  /\ attempt \in Attempts
  /\ IsSeq(results)
  /\ AllCarry(Scope, runs)

\* The scope does not change while the attempt lasts.
LEMMA ScopeStays ==
  ASSUME UNCHANGED attempt
  PROVE  Scope' = Scope
BY DEF Scope, Exchange

LEMMA RecordKeepsSeq ==
  ASSUME IsSeq(results), NEW pass, NEW answered, NEW result, Record(pass, answered, result)
  PROVE  IsSeq(results)' /\ UNCHANGED <<attempt, phase, verdict>>
<1> DEFINE step == [pass |-> pass, answered |-> answered, result |-> result]
<1>1. results' = Append(results, step) /\ UNCHANGED <<attempt, phase, verdict>>
  BY DEF Record
<1> HIDE DEF step
<1>2. IsSeq(Append(results, step))
  BY AppendIs, Zenon DEF Extends
<1> QED
  BY <1>1, <1>2

\* Runs are added when both the references and the binder have succeeded.
LEMMA RunKeepsCarrying ==
  ASSUME attempt \in Attempts, AllCarry(Scope, runs),
         NEW block, IsBlock(block),
         NEW scope, scope \in {Scope, CleanupScope},
         IsOk(Prepare(block, scope)),
         NEW bound,
         bound = Bind(block.engine, Prepare(block, scope)[2].leaves, Prepare(block, scope)[2].values),
         IsOk(bound)
  PROVE  AllCarry(Scope, Run(block, bound[2]))
<1>1. Carries(Scope, block, bound[2])
  BY BlocksOfAttempts, RunCarries
<1>2. Run(block, bound[2]) = Append(runs, [block |-> block, bound |-> bound[2]])
  BY DEF Run
<1>3. AllCarry(Scope, Append(runs, [block |-> block, bound |-> bound[2]]))
  BY <1>1, AppendCarries
<1> QED
  BY <1>2, <1>3

LEMMA CarryingInit == Init => Carrying
<1> SUFFICES ASSUME Init PROVE Carrying
  OBVIOUS
<1>1. attempt \in Attempts /\ results = << >> /\ runs = << >>
  BY DEF Init
<1>2. IsSeq(<< >>) /\ Len(<< >>) = 0
  BY EmptyIsSeq
<1>3. AllCarry(Scope, << >>)
  BY <1>2 DEF AllCarry
<1> QED
  BY <1>1, <1>2, <1>3 DEF Carrying

LEMMA CarryingNext == Carrying /\ [Next]_vars => Carrying'
<1> SUFFICES ASSUME Carrying, [Next]_vars PROVE Carrying'
  OBVIOUS
<1>0. attempt \in Attempts /\ IsSeq(results) /\ AllCarry(Scope, runs)
  BY DEF Carrying
<1>1. ASSUME attempt' = attempt, runs' = runs, IsSeq(results)' PROVE Carrying'
  BY <1>0, <1>1, ScopeStays DEF Carrying
<1>2. ASSUME attempt' = attempt, AllCarry(Scope, runs'), IsSeq(results)' PROVE Carrying'
  BY <1>0, <1>2, ScopeStays DEF Carrying
<1>3. CASE ParseAllAssertions
  BY <1>0, <1>1, <1>3 DEF ParseAllAssertions
<1>4. CASE RejectStep
  <2>1. Record(FALSE, FALSE, Empty) /\ runs' = runs
    BY <1>4 DEF RejectStep, FailRecord
  <2>2. attempt' = attempt /\ IsSeq(results)'
    BY <1>0, <2>1, RecordKeepsSeq
  <2> QED
    BY <1>1, <2>1, <2>2
<1>5. CASE AcquireFails
  BY <1>0, <1>1, <1>5 DEF AcquireFails
<1>6. CASE StepErrors
  <2> DEFINE bound == Bind(Step.engine, Prepare(Step, Scope)[2].leaves, Prepare(Step, Scope)[2].values)
  <2>1. /\ Due /\ IsOk(Prepare(Step, Scope)) /\ Record(FALSE, FALSE, Empty)
        /\ runs' = IF IsOk(bound) THEN Run(Step, bound[2]) ELSE runs
    BY <1>6 DEF StepErrors, FailRecord
  <2>2. attempt' = attempt /\ IsSeq(results)'
    BY <1>0, <2>1, RecordKeepsSeq
  <2>3. IsBlock(Step)
    BY <1>0, <2>1, BlocksOfAttempts
  <2>4. CASE IsOk(bound)
    <3>1. AllCarry(Scope, Run(Step, bound[2]))
      BY <1>0, <2>1, <2>3, <2>4, RunKeepsCarrying
    <3> QED
      BY <1>2, <2>1, <2>2, <2>4, <3>1
  <2>5. CASE ~IsOk(bound)
    BY <1>1, <2>1, <2>2, <2>5
  <2> QED
    BY <2>4, <2>5
<1>7. CASE StepAnswered
  <2> DEFINE bound == Bind(Step.engine, Prepare(Step, Scope)[2].leaves, Prepare(Step, Scope)[2].values)
             fields == ResolveFieldRefs(Step.fields, Scope)
  <2>1. /\ Due /\ IsOk(Prepare(Step, Scope)) /\ IsOk(bound) /\ runs' = Run(Step, bound[2])
        /\ \E reply \in Replies[Step.engine] :
             Record(Evaluate(Normalize(Step.engine, reply).rows, Step.expect, fields), TRUE,
                    Normalize(Step.engine, reply))
    BY <1>7 DEF StepAnswered
  <2>2. attempt' = attempt /\ IsSeq(results)'
    BY <1>0, <2>1, RecordKeepsSeq
  <2>3. IsBlock(Step)
    BY <1>0, <2>1, BlocksOfAttempts
  <2>4. AllCarry(Scope, Run(Step, bound[2]))
    BY <1>0, <2>1, <2>3, RunKeepsCarrying
  <2> QED
    BY <1>2, <2>1, <2>2, <2>4
<1>8. CASE Judge
  BY <1>0, <1>1, <1>8 DEF Judge
<1>9. CASE RunCleanup
  <2> DEFINE block == attempt.cleanup[1]
             bound == Bind(block.engine, Prepare(block, CleanupScope)[2].leaves,
                           Prepare(block, CleanupScope)[2].values)
  <2>1. /\ attempt' = attempt /\ results' = results
        /\ \/ runs' = runs
           \/ /\ attempt.cleanup # << >> /\ IsOk(Prepare(block, CleanupScope)) /\ IsOk(bound)
              /\ runs' = Run(block, bound[2])
    BY <1>9 DEF RunCleanup
  <2>2. CASE runs' = runs
    BY <1>0, <1>1, <2>1, <2>2
  <2>3. CASE runs' # runs
    <3>1. IsBlock(block)
      BY <1>0, <2>1, <2>3, BlocksOfAttempts
    <3>2. AllCarry(Scope, Run(block, bound[2]))
      BY <1>0, <2>1, <2>3, <3>1, RunKeepsCarrying
    <3> QED
      BY <1>0, <1>2, <2>1, <2>3, <3>2
  <2> QED
    BY <2>2, <2>3
<1>10. CASE UNCHANGED vars
  BY <1>0, <1>1, <1>10 DEF vars
<1> QED
  BY <1>3, <1>4, <1>5, <1>6, <1>7, <1>8, <1>9, <1>10 DEF Next

\* On every engine, whatever the query, the exchange and the kinds of its parts, the
\* database runs the query with each reference replaced by its own value and nothing
\* else touched.
THEOREM BoundQueryCarriesReferencesHolds == Spec => []BoundQueryCarriesReferences
<1>1. Carrying => BoundQueryCarriesReferences
  BY DEF Carrying, AllCarry, Carries, BoundQueryCarriesReferences
<1> QED
  BY <1>1, CarryingInit, CarryingNext, PTL DEF Spec

-----------------------------------------------------------------------------
(* Verdicts about the database.                                            *)

\* Steps without an answer do not pass, nothing is judged before every step has its
\* result, and a pass is a pass of every step.
Judged ==
  /\ IsSeq(results)
  /\ \A k \in DOMAIN results : results[k].answered \/ ~results[k].pass
  /\ phase \in {"parse", "verify"} => verdict = "none"
  /\ attempt.gate = "db_state" /\ verdict = "pass" =>
       Len(results) = Len(attempt.steps) /\ DbVerifyOk

LEMMA JudgedInit == Init => Judged
<1> SUFFICES ASSUME Init PROVE Judged
  OBVIOUS
<1>1. results = << >> /\ verdict = "none"
  BY DEF Init
<1>2. IsSeq(<< >>) /\ DOMAIN << >> = {}
  BY EmptyIsSeq
<1> QED
  BY <1>1, <1>2 DEF Judged

\* A step's result, while nothing has been judged.
LEMMA RecordKeepsJudged ==
  ASSUME Judged, Due, NEW pass, NEW answered, NEW result, answered \/ ~pass,
         Record(pass, answered, result)
  PROVE  Judged'
<1> DEFINE step == [pass |-> pass, answered |-> answered, result |-> result]
<1>1. step.answered \/ ~step.pass
  OBVIOUS
<1>2. /\ results' = Append(results, step) /\ IsSeq(results)
      /\ \A k \in DOMAIN results : results[k].answered \/ ~results[k].pass
      /\ phase' = phase /\ verdict' = verdict /\ verdict = "none"
  BY DEF Record, Judged, Due
<1> HIDE DEF step
<1>3. /\ IsSeq(results')
      /\ \A k \in DOMAIN results' :
           results'[k] = step \/ (k \in DOMAIN results /\ results'[k] = results[k])
  <2>1. Extends(Append(results, step), results, step)
    BY <1>2, AppendIs
  <2> QED
    BY <1>2, <2>1, Zenon DEF Extends
<1>4. \A k \in DOMAIN results' : results'[k].answered \/ ~results'[k].pass
  BY <1>1, <1>2, <1>3
<1> QED
  BY <1>2, <1>3, <1>4 DEF Judged

LEMMA JudgedNext == Judged /\ [Next]_vars => Judged'
<1> SUFFICES ASSUME Judged, [Next]_vars PROVE Judged'
  OBVIOUS
<1>1. CASE ParseAllAssertions
  BY <1>1 DEF ParseAllAssertions, Judged, DbVerifyOk
<1>2. CASE RejectStep
  BY <1>2, RecordKeepsJudged DEF RejectStep, FailRecord
<1>3. CASE AcquireFails
  BY <1>3 DEF AcquireFails, Judged, DbVerifyOk
<1>4. CASE StepErrors
  <2>1. Due /\ Record(FALSE, FALSE, Empty)
    BY <1>4 DEF StepErrors, FailRecord
  <2> QED
    BY <2>1, RecordKeepsJudged
<1>5. CASE StepAnswered
  <2>1. Due /\ \E pass, result : Record(pass, TRUE, result)
    BY <1>5, Zenon DEF StepAnswered
  <2> QED
    BY <2>1, RecordKeepsJudged
<1>6. CASE Judge
  <2>1. /\ results' = results /\ attempt' = attempt /\ phase' = "judged"
        /\ Len(results) = Len(attempt.steps)
        /\ attempt.gate = "db_state" /\ verdict' = "pass" => DbVerifyOk
    BY <1>6 DEF Judge
  <2> QED
    BY <2>1 DEF Judged, DbVerifyOk
<1>7. CASE RunCleanup
  BY <1>7 DEF RunCleanup, Judged, DbVerifyOk
<1>8. CASE UNCHANGED vars
  BY <1>8 DEF vars, Judged, DbVerifyOk
<1> QED
  BY <1>1, <1>2, <1>3, <1>4, <1>5, <1>6, <1>7, <1>8 DEF Next

\* A case about the database passes only when each of its queries was answered,
\* whatever its steps expect: an empty result does not pass for an answer.
THEOREM UnansweredNeverPassesHolds == Spec => []UnansweredNeverPasses
<1>1. Judged => UnansweredNeverPasses
  BY DEF Judged, DbVerifyOk, UnansweredNeverPasses
<1> QED
  BY <1>1, JudgedInit, JudgedNext, PTL DEF Spec
=============================================================================
