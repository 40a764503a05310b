---------------------------- MODULE CatalogProofs ----------------------------
(***************************************************************************)
(* Of the catalog, for every schema and endpoint: what walking a schema    *)
(* finds, which cases the generators make and that their ids, and so their *)
(* places in the order, are their own.                                     *)
(*                                                                         *)
(* Of the run command, for every set of invocations, every project and     *)
(* every order of the cases: no traffic reaches production without         *)
(* permission, the exit code tells what happened, run refuses as invalid   *)
(* only what validate refuses, and the jobs of a CI matrix deal out the    *)
(* selected cases, none lost and none run twice.  With the catalog in its  *)
(* place, the plan is sound too: CatalogIsSound.                           *)
(*                                                                         *)
(* Of what a case shows, for every trial: that a body case breaks what it  *)
(* names and nothing else, that no case fails without a reason, and that a *)
(* defect fails the case that is there to find it.                         *)
(***************************************************************************)
EXTENDS CatalogRun, CaseEvaluation, FiniteSetTheorems, SequenceTheorems, WellFoundedInduction, TLAPS

-----------------------------------------------------------------------------
(* Orders and sequences.                                                   *)

\* R, a set of pairs, is a strict total order of S.
StrictlyOrders(R, S) ==
  /\ \A j, k \in S : <<j, k>> \in R => <<k, j>> \notin R
  /\ \A j, k \in S : j # k => <<j, k>> \in R \/ <<k, j>> \in R
  /\ \A i, j, k \in S : <<i, j>> \in R /\ <<j, k>> \in R => <<i, k>> \in R

\* How many members of S come before each.
Rank(R, S) == [k \in S |-> Cardinality({j \in S : <<j, k>> \in R})]

\* The ranks in a finite set are 0, 1, ... and each belongs to one member.
LEMMA RanksAreOneToOne ==
  ASSUME NEW S, IsFiniteSet(S), NEW R, StrictlyOrders(R, S)
  PROVE  /\ Cardinality(S) \in Nat
         /\ \A k \in S : Rank(R, S)[k] \in 0 .. (Cardinality(S) - 1)
         /\ \A j, k \in S : Rank(R, S)[j] = Rank(R, S)[k] => j = k
         /\ \A r \in 0 .. (Cardinality(S) - 1) : \E k \in S : Rank(R, S)[k] = r
<1> USE DEF StrictlyOrders
<1> DEFINE rank == Rank(R, S)
           n == Cardinality(S)
           earlier == [k \in S |-> {j \in S : <<j, k>> \in R}]
<1>1. n \in Nat
  BY FS_CardinalityType
<1>2. \A k \in S : /\ earlier[k] = {j \in S : <<j, k>> \in R}
                   /\ rank[k] = Cardinality(earlier[k])
  BY DEF Rank
<1>0. rank = [k \in S |-> rank[k]]
  BY DEF Rank
<1> HIDE DEF n, earlier, rank
<1>3. ASSUME NEW k \in S
      PROVE  IsFiniteSet(earlier[k]) /\ rank[k] \in 0 .. (n - 1)
  <2> DEFINE E == earlier[k]
             D == S \ {k}
  <2>1. <<k, k>> \notin R
    OBVIOUS
  <2>2. E \in SUBSET D
    <3>1. \A j \in E : j \in S /\ <<j, k>> \in R
      BY <1>2
    <3> QED
      BY <2>1, <3>1
  <2>3. IsFiniteSet(D) /\ Cardinality(D) = n - 1
    BY FS_RemoveElement DEF n
  <2>4. rank[k] = Cardinality(E)
    BY <1>2
  <2> HIDE DEF D, E
  <2>5. IsFiniteSet(E) /\ Cardinality(E) <= Cardinality(D)
    BY <2>2, <2>3, FS_Subset
  <2>6. Cardinality(E) \in Nat
    BY <2>5, FS_CardinalityType
  <2>7. rank[k] \in 0 .. (n - 1)
    BY <1>1, <2>3, <2>4, <2>5, <2>6
  <2> QED
    BY <2>5, <2>7 DEF E
<1>4. ASSUME NEW j \in S, NEW k \in S, <<j, k>> \in R
      PROVE  rank[j] < rank[k]
  <2> DEFINE E == earlier[j]
             F == earlier[k]
             D == F \ {j}
  <2>1. E \in SUBSET D
    <3>1. \A i \in E : i \in S /\ <<i, j>> \in R
      BY <1>2
    <3>2. \A i \in E : i # j
      BY <3>1
    <3>3. \A i \in E : <<i, k>> \in R
      BY <1>4, <3>1
    <3>4. \A i \in E : i \in earlier[k]
      BY <1>2, <3>1, <3>3
    <3> QED
      BY <3>2, <3>4
  <2>2. IsFiniteSet(D) /\ Cardinality(D) = rank[k] - 1
    <3>1. j \in F /\ IsFiniteSet(F) /\ rank[k] = Cardinality(F)
      BY <1>2, <1>3, <1>4
    <3> HIDE DEF F
    <3> QED
      BY <3>1, FS_RemoveElement
  <2>3. rank[j] = Cardinality(E) /\ rank[j] \in Int /\ rank[k] \in Int
    BY <1>2, <1>3
  <2> HIDE DEF D, E
  <2>4. Cardinality(E) <= Cardinality(D)
    BY <2>1, <2>2, FS_Subset
  <2> QED
    BY <2>2, <2>3, <2>4
<1>5. \A j, k \in S : rank[j] = rank[k] => j = k
  <2> SUFFICES ASSUME NEW j \in S, NEW k \in S, rank[j] = rank[k], j # k PROVE FALSE
    OBVIOUS
  <2>1. rank[j] < rank[k] \/ rank[k] < rank[j]
    BY <1>4
  <2>2. rank[j] \in Int /\ rank[k] \in Int
    BY <1>3
  <2> QED
    BY <2>1, <2>2
<1>6. rank \in Injection(S, 0 .. (n - 1))
  <2>1. rank \in [S -> 0 .. (n - 1)]
    <3>1. \A k \in S : rank[k] \in 0 .. (n - 1)
      BY <1>3
    <3> QED
      BY <1>0, <3>1
  <2> QED
    BY <1>5, <2>1 DEF Injection, IsInjective
<1>7. IsFiniteSet(0 .. (n - 1)) /\ Cardinality(0 .. (n - 1)) = n
  <2>1. 0 \in Int /\ n - 1 \in Int
    BY <1>1
  <2> QED
    BY <1>1, <2>1, FS_Interval
<1>8. rank \in Surjection(S, 0 .. (n - 1))
  BY <1>6, <1>7, FS_Injection DEF n
<1>9. \A r \in 0 .. (n - 1) : \E k \in S : rank[k] = r
  BY <1>8 DEF Surjection
<1> QED
  BY <1>1, <1>3, <1>5, <1>9 DEF n, rank

\* id tells the places of s apart.
OneToOne(s, id) == \A i, j \in DOMAIN s : id[s[i]] = id[s[j]] => i = j

LEMMA Least ==
  ASSUME NEW T, T \subseteq Nat, T # {}
  PROVE  \E m \in T : \A n \in T : m <= n
<1>1. IsWellFoundedOn(OpToRel(<,Nat), Nat)
  BY NatLessThanWellFounded
<1>2. PICK x \in T : \A y \in T : ~(<<y, x>> \in OpToRel(<, Nat))
  BY <1>1, WFMin
<1>3. \A y \in T : ~(y < x)
  BY <1>2 DEF OpToRel
<1> QED
  BY <1>3

\* Induction, for a set.
LEMMA NatSetInduction ==
  ASSUME NEW S, 0 \in S, \A n \in Nat : n \in S => n + 1 \in S
  PROVE  Nat \subseteq S
<1> SUFFICES ASSUME Nat \ S # {} PROVE FALSE
  OBVIOUS
<1>1. PICK m \in Nat \ S : \A n \in Nat \ S : m <= n
  BY Least
<1>2. m # 0 /\ m - 1 \in Nat
  BY <1>1
<1>3. m - 1 \in S
  BY <1>1, <1>2
<1> QED
  BY <1>1, <1>2, <1>3

\* Sequences as functions.
LEMMA SeqIsSeq ==
  ASSUME NEW s
  PROVE  /\ IsSeq(s) <=> \E n \in Nat : s = [i \in 1 .. n |-> s[i]]
         /\ IsSeq(s) => Len(s) \in Nat /\ DOMAIN s = 1 .. Len(s)
BY DEF IsSeq, ToSet

LEMMA MemberOfSeq ==
  ASSUME NEW S, NEW s \in Seq(S), NEW i \in DOMAIN s
  PROVE  s[i] \in S
OBVIOUS

LEMMA SeqOfFunction ==
  ASSUME NEW n \in Nat, NEW s, s = [i \in 1 .. n |-> s[i]]
  PROVE  IsSeq(s) /\ Len(s) = n
BY DEF IsSeq, ToSet

\* What a concatenation is, holds and tells apart.
LEMMA Concatenation ==
  ASSUME NEW s, NEW t, IsSeq(s), IsSeq(t)
  PROVE  /\ IsSeq(s \o t)
         /\ ToSet(s \o t) = ToSet(s) \union ToSet(t)
         /\ \A id : /\ OneToOne(s, id) /\ OneToOne(t, id)
                    /\ \A x \in ToSet(s), y \in ToSet(t) : id[x] # id[y]
                    => OneToOne(s \o t, id)
<1> DEFINE m == Len(s)
           n == Len(t)
<1>1. m \in Nat /\ n \in Nat /\ DOMAIN s = 1 .. m /\ DOMAIN t = 1 .. n
  BY DEF IsSeq
<1>2. s \in Seq(ToSet(s) \union ToSet(t)) /\ t \in Seq(ToSet(s) \union ToSet(t))
  BY SeqMonotonic DEF IsSeq
<1>3. /\ s \o t \in Seq(ToSet(s) \union ToSet(t))
      /\ DOMAIN (s \o t) = 1 .. (m + n)
      /\ \A i \in 1 .. (m + n) : (s \o t)[i] = IF i <= m THEN s[i] ELSE t[i - m]
  BY <1>2, ConcatProperties
<1> HIDE DEF m, n
<1>4. ToSet(s \o t) = ToSet(s) \union ToSet(t)
  <2>1. ASSUME NEW x \in ToSet(s) PROVE x \in ToSet(s \o t)
    <3>1. PICK i \in 1 .. m : x = s[i]
      BY <1>1 DEF ToSet
    <3>2. i \in 1 .. (m + n) /\ (s \o t)[i] = x
      BY <1>1, <1>3, <3>1
    <3> QED
      BY <1>3, <3>2 DEF ToSet
  <2>2. ASSUME NEW x \in ToSet(t) PROVE x \in ToSet(s \o t)
    <3>1. PICK i \in 1 .. n : x = t[i]
      BY <1>1 DEF ToSet
    <3>2. m + i \in 1 .. (m + n) /\ ~(m + i <= m) /\ (m + i) - m = i
      BY <1>1
    <3>3. (s \o t)[m + i] = x
      BY <1>3, <3>1, <3>2
    <3> QED
      BY <1>3, <3>2, <3>3 DEF ToSet
  <2>3. ASSUME NEW i \in 1 .. (m + n) PROVE (s \o t)[i] \in ToSet(s) \union ToSet(t)
    BY <1>3, MemberOfSeq
  <2>4. ToSet(s \o t) \subseteq ToSet(s) \union ToSet(t)
    BY <1>3, <2>3 DEF ToSet
  <2> QED
    BY <2>1, <2>2, <2>4
<1>5. IsSeq(s \o t)
  BY <1>3, <1>4 DEF IsSeq
<1>6. ASSUME NEW id, OneToOne(s, id), OneToOne(t, id),
             \A x \in ToSet(s), y \in ToSet(t) : id[x] # id[y]
      PROVE  OneToOne(s \o t, id)
  <2> SUFFICES ASSUME NEW i \in 1 .. (m + n), NEW j \in 1 .. (m + n),
                      id[(s \o t)[i]] = id[(s \o t)[j]]
               PROVE  i = j
    BY <1>3 DEF OneToOne
  <2>1. CASE i <= m /\ j <= m
    <3>1. i \in DOMAIN s /\ j \in DOMAIN s /\ id[s[i]] = id[s[j]]
      BY <1>1, <1>3, <2>1
    <3> QED
      BY <1>6, <3>1 DEF OneToOne
  <2>2. CASE ~(i <= m) /\ ~(j <= m)
    <3>1. i - m \in DOMAIN t /\ j - m \in DOMAIN t /\ id[t[i - m]] = id[t[j - m]]
      BY <1>1, <1>3, <2>2
    <3>2. i - m = j - m
      BY <1>6, <3>1 DEF OneToOne
    <3> QED
      BY <1>1, <3>2
  <2>3. CASE i <= m /\ ~(j <= m)
    <3>1. i \in DOMAIN s /\ j - m \in DOMAIN t /\ id[s[i]] = id[t[j - m]]
      BY <1>1, <1>3, <2>3
    <3>2. s[i] \in ToSet(s) /\ t[j - m] \in ToSet(t)
      BY <3>1 DEF ToSet
    <3> QED
      BY <1>6, <3>1, <3>2
  <2>4. CASE ~(i <= m) /\ j <= m
    <3>1. j \in DOMAIN s /\ i - m \in DOMAIN t /\ id[s[j]] = id[t[i - m]]
      BY <1>1, <1>3, <2>4
    <3>2. s[j] \in ToSet(s) /\ t[i - m] \in ToSet(t)
      BY <3>1 DEF ToSet
    <3> QED
      BY <1>6, <3>1, <3>2
  <2> QED
    BY <2>1, <2>2, <2>3, <2>4
<1> QED
  BY <1>4, <1>5, <1>6

\* The concatenations of the first sequences, as FlattenSeq computes them.
Gathers(seqs, n, f) ==
  /\ f = [i \in 1 .. n |-> f[i]]
  /\ \A i \in 1 .. n : f[i] = IF i = 1 THEN seqs[i] ELSE f[i - 1] \o seqs[i]

\* There is such a sequence of concatenations, and FlattenSeq takes its last.
LEMMA GathererExists ==
  ASSUME NEW seqs, NEW n \in Nat
  PROVE  \E f : Gathers(seqs, n, f)
<1> DEFINE T == {k \in Nat : \E f : Gathers(seqs, k, f)}
<1>1. 0 \in T
  <2>1. Gathers(seqs, 0, [i \in 1 .. 0 |-> i])
    BY DEF Gathers
  <2> QED
    BY <2>1
<1>2. ASSUME NEW k \in Nat, k \in T PROVE k + 1 \in T
  <2>1. PICK f : Gathers(seqs, k, f)
    BY <1>2
  <2> DEFINE g == [i \in 1 .. (k + 1) |->
                     IF i <= k THEN f[i]
                     ELSE IF k = 0 THEN seqs[1] ELSE f[k] \o seqs[k + 1]]
  <2>2. ASSUME NEW i \in 1 .. (k + 1)
         PROVE g[i] = IF i = 1 THEN seqs[i] ELSE g[i - 1] \o seqs[i]
    <3>1. CASE i <= k
      <4>0. i \in 1 .. k
        BY <3>1
      <4>1. f[i] = IF i = 1 THEN seqs[i] ELSE f[i - 1] \o seqs[i]
        BY <2>1, <4>0, Zenon DEF Gathers
      <4>2. i # 1 => g[i - 1] = f[i - 1]
        BY <3>1
      <4> QED
        BY <3>1, <4>1, <4>2
    <3>2. CASE i = k + 1 /\ k = 0
      BY <3>2
    <3>3. CASE i = k + 1 /\ k # 0
      <4>1. g[i - 1] = f[k]
        BY <3>3
      <4> QED
        BY <3>3, <4>1
    <3> QED
      BY <3>1, <3>2, <3>3
  <2>3. g = [i \in 1 .. (k + 1) |-> g[i]]
    OBVIOUS
  <2> HIDE DEF g
  <2>4. Gathers(seqs, k + 1, g)
    BY <2>2, <2>3 DEF Gathers
  <2> QED
    BY <2>4
<1> HIDE DEF T
<1>3. n \in T
  BY <1>1, <1>2, NatSetInduction
<1> QED
  BY <1>3 DEF T

LEMMA GathererIsIt ==
  ASSUME NEW seqs, IsSeq(seqs), Len(seqs) # 0
  PROVE  \E f : Gathers(seqs, Len(seqs), f) /\ FlattenSeq(seqs) = f[Len(seqs)]
<1> DEFINE N == Len(seqs)
           flatten == CHOOSE f : f = [i \in 1 .. N |->
                        IF i = 1 THEN seqs[i] ELSE f[i - 1] \o seqs[i]]
<1>1. N \in Nat
  BY DEF IsSeq
<1>2. FlattenSeq(seqs) = flatten[N]
  BY DEF FlattenSeq
<1>3. PICK f : Gathers(seqs, N, f)
  BY <1>1, GathererExists
<1>4. f = [i \in 1 .. N |-> IF i = 1 THEN seqs[i] ELSE f[i - 1] \o seqs[i]]
  BY <1>3, Zenon DEF Gathers
<1>5. flatten = [i \in 1 .. N |-> IF i = 1 THEN seqs[i] ELSE flatten[i - 1] \o seqs[i]]
  BY <1>4, Zenon
<1> HIDE DEF flatten
<1>6. Gathers(seqs, N, flatten)
  BY <1>5, Zenon DEF Gathers
<1> QED
  BY <1>2, <1>6

\* No two members, of one sequence or of two, have the same id.
Apart(seqs, id) ==
  /\ \A i \in DOMAIN seqs : OneToOne(seqs[i], id)
  /\ \A i, j \in DOMAIN seqs : i # j =>
       \A x \in ToSet(seqs[i]), y \in ToSet(seqs[j]) : id[x] # id[y]

\* The same of the concatenation of a sequence of sequences.
LEMMA Flatten ==
  ASSUME NEW seqs, IsSeq(seqs), \A i \in DOMAIN seqs : IsSeq(seqs[i])
  PROVE  /\ IsSeq(FlattenSeq(seqs))
         /\ ToSet(FlattenSeq(seqs)) = UNION {ToSet(seqs[i]) : i \in DOMAIN seqs}
         /\ \A id : Apart(seqs, id) => OneToOne(FlattenSeq(seqs), id)
<1> DEFINE N == Len(seqs)
<1>1. N \in Nat /\ DOMAIN seqs = 1 .. N
  BY DEF IsSeq
<1>2. CASE N = 0
  <2>1. seqs = << >> /\ FlattenSeq(seqs) = << >>
    BY <1>1, <1>2 DEF IsSeq, FlattenSeq
  <2>2. IsSeq(<< >>) /\ ToSet(<< >>) = {} /\ DOMAIN << >> = {}
    BY DEF IsSeq, ToSet
  <2>3. \A id : OneToOne(<< >>, id)
    BY <2>2 DEF OneToOne
  <2> QED
    BY <2>1, <2>2, <2>3
<1>3. CASE N # 0
  <2>1. PICK f : Gathers(seqs, N, f) /\ FlattenSeq(seqs) = f[N]
    BY <1>3, GathererIsIt
  <2> DEFINE Covered(n) == UNION {ToSet(seqs[i]) : i \in 1 .. n}
             Good(n) == n \in 1 .. N => /\ IsSeq(f[n]) /\ ToSet(f[n]) = Covered(n)
                                       /\ \A id : Apart(seqs, id) => OneToOne(f[n], id)
             T == {n \in Nat : Good(n)}
  <2>2. 0 \in T
    OBVIOUS
  <2>3. ASSUME NEW n \in Nat, n \in T PROVE n + 1 \in T
    <3> SUFFICES ASSUME n + 1 \in 1 .. N PROVE Good(n + 1)
      OBVIOUS
    <3>1. f[n + 1] = IF n = 0 THEN seqs[n + 1] ELSE f[(n + 1) - 1] \o seqs[n + 1]
      <4>1. n + 1 = 1 <=> n = 0
        OBVIOUS
      <4> QED
        BY <2>1, <4>1, Zenon DEF Gathers
    <3>2. (n + 1) - 1 = n
      OBVIOUS
    <3>3. IsSeq(seqs[n + 1]) /\ \A id : Apart(seqs, id) => OneToOne(seqs[n + 1], id)
      BY <1>1 DEF Apart
    <3>4. Covered(n + 1) = Covered(n) \union ToSet(seqs[n + 1])
      <4>1. 1 .. (n + 1) = (1 .. n) \union {n + 1}
        OBVIOUS
      <4> QED
        BY <4>1
    <3>5. CASE n = 0
      <4>1. Covered(n) = {}
        BY <3>5
      <4> QED
        BY <3>1, <3>3, <3>4, <3>5, <4>1
    <3>6. CASE n # 0
      <4>1. n \in 1 .. N
        BY <3>6
      <4>2. /\ IsSeq(f[n]) /\ ToSet(f[n]) = Covered(n)
            /\ \A id : Apart(seqs, id) => OneToOne(f[n], id)
        BY <2>3, <4>1
      <4>3. f[n + 1] = f[n] \o seqs[n + 1]
        BY <3>1, <3>2, <3>6
      <4>4. ASSUME NEW id, Apart(seqs, id) PROVE OneToOne(f[n + 1], id)
        <5>1. \A x \in ToSet(f[n]), y \in ToSet(seqs[n + 1]) : id[x] # id[y]
          <6> SUFFICES ASSUME NEW x \in Covered(n), NEW y \in ToSet(seqs[n + 1])
                       PROVE  id[x] # id[y]
            BY <4>2
          <6>1. PICK i \in 1 .. n : x \in ToSet(seqs[i])
            OBVIOUS
          <6>2. i \in DOMAIN seqs /\ n + 1 \in DOMAIN seqs /\ i # n + 1
            BY <1>1
          <6> QED
            BY <4>4, <6>1, <6>2 DEF Apart
        <5>2. OneToOne(f[n], id) /\ OneToOne(seqs[n + 1], id)
          BY <3>3, <4>2, <4>4
        <5> QED
          BY <3>3, <4>2, <4>3, <5>1, <5>2, Concatenation
      <4>5. IsSeq(f[n + 1]) /\ ToSet(f[n + 1]) = Covered(n + 1)
        <5> HIDE DEF Covered
        <5> QED
          BY <3>3, <3>4, <4>2, <4>3, Concatenation
      <4> QED
        BY <4>4, <4>5
    <3> QED
      BY <3>5, <3>6
  <2> HIDE DEF T
  <2>4. N \in T
    BY <1>1, <2>2, <2>3, NatSetInduction
  <2> QED
    BY <1>1, <1>3, <2>1, <2>4 DEF T
<1> QED
  BY <1>2, <1>3

\* A selection of a sequence keeps what holds of the sequence.
LEMMA AmongIs ==
  ASSUME NEW seq, IsSeq(seq), NEW S
  PROVE  /\ IsSeq(Among(seq, S))
         /\ ToSet(Among(seq, S)) = ToSet(seq) \intersect S
         /\ \A id : OneToOne(seq, id) => OneToOne(Among(seq, S), id)
<1> DEFINE seqs == [i \in DOMAIN seq |-> When(seq[i] \in S, <<seq[i]>>)]
<1>1. DOMAIN seq = 1 .. Len(seq) /\ Len(seq) \in Nat
  BY DEF IsSeq
<1>2. IsSeq(seqs) /\ DOMAIN seqs = DOMAIN seq
  BY <1>1, SeqOfFunction
<1>3. \A i \in DOMAIN seq : /\ IsSeq(seqs[i])
                           /\ ToSet(seqs[i]) = {seq[i]} \intersect S
                           /\ \A id : OneToOne(seqs[i], id)
  <2>1. ASSUME NEW x PROVE IsSeq(<<x>>) /\ ToSet(<<x>>) = {x} /\ \A id : OneToOne(<<x>>, id)
    BY DEF IsSeq, ToSet, OneToOne
  <2>2. IsSeq(<< >>) /\ ToSet(<< >>) = {} /\ \A id : OneToOne(<< >>, id)
    BY DEF IsSeq, ToSet, OneToOne
  <2> QED
    BY <2>1, <2>2 DEF When
<1>4. Among(seq, S) = FlattenSeq(seqs)
  BY DEF Among
<1> HIDE DEF seqs
<1>5. ASSUME NEW id, OneToOne(seq, id) PROVE Apart(seqs, id)
  BY <1>2, <1>3, <1>5 DEF Apart, OneToOne
<1>6. ToSet(seq) \intersect S = UNION {ToSet(seqs[i]) : i \in DOMAIN seqs}
  BY <1>2, <1>3 DEF ToSet
<1> QED
  BY <1>2, <1>3, <1>4, <1>5, <1>6, Flatten
-----------------------------------------------------------------------------
FieldOK(f) ==
  /\ f = [path |-> f.path, type |-> f.type, required |-> f.required, limits |-> f.limits]
  /\ IsSeq(f.path) /\ f.path # << >>
  /\ LimitsOK(f.limits)

Sound(fields) ==
  /\ IsSeq(fields)
  /\ \A f \in ToSet(fields) : FieldOK(f)
  /\ \A i, j \in DOMAIN fields : fields[i].path = fields[j].path => i = j

Path(S) == [f \in S |-> f.path]

\* Paths below different keys are different.
LEMMA Prefixed ==
  ASSUME NEW p, IsSeq(p), p # << >>, NEW q, IsSeq(q), NEW key
  PROVE  /\ IsSeq(<<key>> \o p) /\ <<key>> \o p # << >> /\ <<key>> \o p # <<key>>
         /\ Head(<<key>> \o p) = key
         /\ <<key>> \o p = <<key>> \o q => p = q
<1> DEFINE S == ToSet(p) \union ToSet(q) \union {key}
<1>1. p \in Seq(S) /\ q \in Seq(S) /\ <<key>> \in Seq(S)
  BY SeqMonotonic DEF IsSeq
<1> HIDE DEF S
<1>2. Len(p) \in Nat /\ Len(p) # 0
  BY <1>1
<1>3. /\ Len(<<key>> \o p) = 1 + Len(p) /\ (<<key>> \o p)[1] = key
      /\ <<key>> \o p \in Seq(S)
  BY <1>1
<1>4. IsSeq(<<key>> \o p)
  <2>1. IsSeq(<<key>>)
    BY DEF IsSeq, ToSet
  <2> QED
    BY <2>1, Concatenation
<1>5. <<key>> \o p = <<key>> \o q => p = q
  <2> SUFFICES ASSUME <<key>> \o p = <<key>> \o q PROVE p = q
    OBVIOUS
  <2>1. Len(p) = Len(q)
    <3>1. Len(<<key>> \o q) = 1 + Len(q) /\ Len(q) \in Nat
      BY <1>1
    <3> QED
      BY <1>2, <1>3, <3>1
  <2>2. ASSUME NEW i \in 1 .. Len(p) PROVE p[i] = q[i]
    <3>1. (<<key>> \o p)[i + 1] = p[i] /\ (<<key>> \o q)[i + 1] = q[i]
      BY <1>1, <1>2, <2>1
    <3> QED
      BY <3>1
  <2> QED
    BY <1>1, <2>1, <2>2, SeqEqual
<1> DEFINE c == <<key>> \o p
<1>6. Len(c) = 1 + Len(p) /\ c[1] = key /\ IsSeq(c)
  BY <1>3, <1>4
<1> HIDE DEF c
<1>7. c # << >> /\ c # <<key>> /\ Head(c) = key
  BY <1>2, <1>6
<1> QED
  BY <1>4, <1>5, <1>7 DEF c

\* What holds of the fields below a node holds of them seen from above it.
LEMMA BelowSound ==
  ASSUME NEW fields, Sound(fields), NEW key
  PROVE  /\ Sound(Below(key, fields))
         /\ \A f \in ToSet(Below(key, fields)) : f.path # <<key>> /\ Head(f.path) = key
<1> DEFINE b == Below(key, fields)
<1>1. Len(fields) \in Nat /\ DOMAIN fields = 1 .. Len(fields)
  BY DEF Sound, IsSeq
<1>2. b = [i \in 1 .. Len(fields) |-> [fields[i] EXCEPT !.path = <<key>> \o @]]
  BY <1>1 DEF Below
<1> HIDE DEF b
<1>3. IsSeq(b) /\ DOMAIN b = DOMAIN fields
  BY <1>1, <1>2, SeqOfFunction
<1>4. ASSUME NEW i \in DOMAIN fields
      PROVE  /\ b[i].path = <<key>> \o fields[i].path
             /\ FieldOK(b[i]) /\ b[i].path # <<key>> /\ Head(b[i].path) = key
             /\ IsSeq(fields[i].path) /\ fields[i].path # << >>
  <2> DEFINE f == fields[i]
  <2>1. FieldOK(f)
    BY DEF Sound, ToSet
  <2>2. f = [path |-> f.path, type |-> f.type, required |-> f.required, limits |-> f.limits]
        /\ IsSeq(f.path) /\ f.path # << >> /\ LimitsOK(f.limits)
    BY <2>1 DEF FieldOK
  <2>3. b[i] = [f EXCEPT !.path = <<key>> \o @]
    BY <1>1, <1>2
  <2> HIDE DEF f
  <2>4. b[i] = [path |-> <<key>> \o f.path, type |-> f.type, required |-> f.required,
                limits |-> f.limits]
    BY <2>2, <2>3
  <2>5. /\ IsSeq(<<key>> \o f.path) /\ <<key>> \o f.path # << >>
        /\ <<key>> \o f.path # <<key>> /\ Head(<<key>> \o f.path) = key
    BY <2>2, Prefixed
  <2>6. FieldOK(b[i]) /\ b[i].path = <<key>> \o f.path
    BY <2>2, <2>4, <2>5 DEF FieldOK
  <2> QED
    BY <2>2, <2>5, <2>6 DEF f
<1>5. ASSUME NEW i \in DOMAIN fields, NEW j \in DOMAIN fields, b[i].path = b[j].path
      PROVE  i = j
  <2> DEFINE p == fields[i].path
             q == fields[j].path
  <2>1. IsSeq(p) /\ p # << >> /\ IsSeq(q) /\ <<key>> \o p = <<key>> \o q
    BY <1>4, <1>5
  <2> HIDE DEF p, q
  <2>2. p = q
    BY <2>1, Prefixed
  <2> QED
    BY <2>2 DEF Sound, p, q
<1>6. Sound(b)
  BY <1>3, <1>4, <1>5 DEF Sound, ToSet
<1>7. \A f \in ToSet(b) : f.path # <<key>> /\ Head(f.path) = key
  BY <1>3, <1>4 DEF ToSet
<1> QED
  BY <1>6, <1>7 DEF b

\* Different paths, as a case of OneToOne.
LEMMA SoundIsOneToOne ==
  ASSUME NEW fields, NEW S, ToSet(fields) \subseteq S
  PROVE  OneToOne(fields, Path(S)) <=>
           \A i, j \in DOMAIN fields : fields[i].path = fields[j].path => i = j
BY DEF OneToOne, Path, ToSet

\* One level of the walk (schema-walker.ts:84-112).
LEMMA DescriptorsSound ==
  ASSUME NEW node, WellFormed(node),
         NEW more, \A child \in Children(node) : Sound(more[child])
  PROVE  Sound(Descriptors(node, more))
<1>1. CASE node.shape = "object"
  <2> DEFINE props == node.properties
             own(i) == [path |-> <<props[i].key>>, type |-> props[i].node.type,
                        required |-> props[i].required, limits |-> props[i].node.limits]
             below(i) == Below(props[i].key, more[props[i].node])
             seqs == [i \in DOMAIN props |-> <<own(i)>> \o below(i)]
             flat == FlattenSeq(seqs)
  <2>1. Descriptors(node, more) = flat
    BY <1>1 DEF Descriptors
  <2>2. /\ IsSeq(props) /\ \A i, j \in DOMAIN props : props[i].key = props[j].key => i = j
        /\ \A i \in DOMAIN props : LimitsOK(props[i].node.limits)
    BY <1>1 DEF WellFormed
  <2>3. \A i \in DOMAIN props : props[i].node \in Children(node)
    BY <1>1 DEF Children
  <2> HIDE DEF props
  <2>4. ASSUME NEW i \in DOMAIN props
         PROVE  /\ Sound(<<own(i)>> \o below(i))
                /\ \A f \in ToSet(<<own(i)>> \o below(i)) : Head(f.path) = props[i].key
    <3> DEFINE key == props[i].key
               S == ToSet(<<own(i)>> \o below(i))
    <3>1. /\ Sound(below(i))
          /\ \A f \in ToSet(below(i)) : f.path # <<key>> /\ Head(f.path) = key
      BY <2>3, BelowSound
    <3>2. FieldOK(own(i)) /\ own(i).path = <<key>> /\ Head(<<key>>) = key
      <4>1. IsSeq(<<key>>) /\ <<key>> # << >>
        BY DEF IsSeq, ToSet
      <4> QED
        BY <2>2, <4>1 DEF FieldOK
    <3> DEFINE o == own(i)
               b == below(i)
    <3> HIDE DEF o, b
    <3>3. IsSeq(<<o>>) /\ ToSet(<<o>>) = {o} /\ DOMAIN <<o>> = {1}
      BY DEF IsSeq, ToSet
    <3>4. IsSeq(b) /\ \A f \in ToSet(b) : FieldOK(f)
      BY <3>1 DEF Sound, b
    <3>5. IsSeq(<<o>> \o b) /\ ToSet(<<o>> \o b) = {o} \union ToSet(b)
      BY <3>3, <3>4, Concatenation
    <3> DEFINE id == Path(ToSet(<<o>> \o b))
    <3>6. OneToOne(<<o>>, id)
      BY <3>3 DEF OneToOne
    <3>7. OneToOne(b, id)
      BY <3>1, <3>5, SoundIsOneToOne DEF Sound, b
    <3>8. \A x \in ToSet(<<o>>), y \in ToSet(b) : id[x] # id[y]
      BY <3>1, <3>2, <3>3, <3>5 DEF Path, o, b
    <3>9. OneToOne(<<o>> \o b, id)
      BY <3>3, <3>4, <3>6, <3>7, <3>8, Concatenation
    <3>10. Sound(<<o>> \o b)
      BY <3>2, <3>4, <3>5, <3>9, SoundIsOneToOne DEF Sound, o
    <3>11. \A f \in ToSet(<<o>> \o b) : Head(f.path) = key
      BY <3>1, <3>2, <3>5 DEF o, b
    <3> QED
      BY <3>10, <3>11 DEF o, b
  <2>5. IsSeq(seqs) /\ DOMAIN seqs = DOMAIN props
    BY <2>2, SeqOfFunction, SeqIsSeq
  <2>6. \A i \in DOMAIN seqs : /\ Sound(seqs[i])
                              /\ \A f \in ToSet(seqs[i]) : Head(f.path) = props[i].key
    BY <2>4, <2>5
  <2> HIDE DEF seqs
  <2>7. IsSeq(flat) /\ ToSet(flat) = UNION {ToSet(seqs[i]) : i \in DOMAIN seqs}
    BY <2>5, <2>6, Flatten DEF Sound
  <2> DEFINE id == Path(ToSet(flat))
  <2>8. Apart(seqs, id)
    <3>1. ASSUME NEW i \in DOMAIN seqs PROVE OneToOne(seqs[i], id)
      BY <2>6, <2>7, SoundIsOneToOne DEF Sound
    <3>2. ASSUME NEW i \in DOMAIN seqs, NEW j \in DOMAIN seqs, i # j,
                 NEW x \in ToSet(seqs[i]), NEW y \in ToSet(seqs[j])
          PROVE  id[x] # id[y]
      <4>1. Head(x.path) # Head(y.path)
        BY <2>2, <2>5, <2>6, <3>2
      <4>2. id[x] = x.path /\ id[y] = y.path
        BY <2>7 DEF Path
      <4> QED
        BY <4>1, <4>2
    <3> QED
      BY <3>1, <3>2 DEF Apart
  <2>9. OneToOne(flat, id)
    BY <2>5, <2>6, <2>8, Flatten DEF Sound
  <2>10. \A f \in ToSet(flat) : FieldOK(f)
    BY <2>6, <2>7 DEF Sound
  <2> QED
    BY <2>1, <2>7, <2>9, <2>10, SoundIsOneToOne DEF Sound
<1>2. CASE node.shape = "array"
  <2>1. Descriptors(node, more) = Below("[]", more[node.items]) /\ node.items \in Children(node)
    BY <1>2 DEF Descriptors, Children
  <2> QED
    BY <2>1, BelowSound
<1>3. CASE node.shape \notin {"object", "array"}
  <2>1. Descriptors(node, more) = << >>
    BY <1>3 DEF Descriptors
  <2> QED
    BY <2>1 DEF Sound, IsSeq, ToSet
<1> QED
  BY <1>1, <1>2, <1>3
-----------------------------------------------------------------------------
\* The first levels below schema, and the walks of as many levels.
Levels(schema, n, f) ==
  /\ f = [d \in 0 .. n |-> f[d]]
  /\ \A d \in 0 .. n :
       f[d] = IF d = 0 THEN {schema} ELSE UNION {Children(node) : node \in f[d - 1]}

Walks(schema, n, f) ==
  /\ f = [k \in 0 .. n |-> f[k]]
  /\ \A k \in 0 .. n :
       f[k] = [node \in NodesAt(schema)[MaxDepth + 1 - k] |->
                 IF k = 0 THEN << >> ELSE Descriptors(node, f[k - 1])]

\* Both recursive functions of the walk are what their equations say.
LEMMA LevelsExist ==
  ASSUME NEW schema, NEW n \in Nat
  PROVE  \E f : Levels(schema, n, f)
<1> DEFINE T == {k \in Nat : \E f : Levels(schema, k, f)}
<1>1. 0 \in T
  <2> DEFINE g == [d \in 0 .. 0 |-> {schema}]
  <2>1. g = [d \in 0 .. 0 |-> g[d]] /\ g[0] = {schema}
    OBVIOUS
  <2> HIDE DEF g
  <2>2. Levels(schema, 0, g)
    BY <2>1 DEF Levels
  <2> QED
    BY <2>2
<1>2. ASSUME NEW k \in Nat, k \in T PROVE k + 1 \in T
  <2>1. PICK f : Levels(schema, k, f)
    BY <1>2
  <2> DEFINE next == UNION {Children(node) : node \in f[k]}
             g == [d \in 0 .. (k + 1) |-> IF d <= k THEN f[d] ELSE next]
  <2>2. ASSUME NEW d \in 0 .. (k + 1)
         PROVE g[d] = IF d = 0 THEN {schema} ELSE UNION {Children(node) : node \in g[d - 1]}
    <3>1. CASE d <= k
      <4>0. d \in 0 .. k
        BY <3>1
      <4>1. f[d] = IF d = 0 THEN {schema} ELSE UNION {Children(node) : node \in f[d - 1]}
        BY <2>1, <4>0, Zenon DEF Levels
      <4>2. d # 0 => g[d - 1] = f[d - 1]
        BY <3>1
      <4>3. g[d] = f[d]
        BY <3>1
      <4> HIDE DEF g
      <4> QED
        BY <4>1, <4>2, <4>3
    <3>2. CASE d = k + 1
      <4>1. d # 0 /\ g[d - 1] = f[k] /\ g[d] = next
        BY <3>2
      <4> HIDE DEF g
      <4> QED
        BY <4>1
    <3> QED
      BY <3>1, <3>2
  <2>3. g = [d \in 0 .. (k + 1) |-> g[d]]
    OBVIOUS
  <2> HIDE DEF g
  <2>4. Levels(schema, k + 1, g)
    BY <2>2, <2>3 DEF Levels
  <2> QED
    BY <2>4
<1> HIDE DEF T
<1>3. n \in T
  BY <1>1, <1>2, NatSetInduction
<1> QED
  BY <1>3 DEF T

LEMMA NodesAtIs ==
  ASSUME NEW schema
  PROVE  /\ schema \in NodesAt(schema)[0]
         /\ \A d \in 0 .. MaxDepth : \A node \in NodesAt(schema)[d] :
              Children(node) \subseteq NodesAt(schema)[d + 1]
<1> DEFINE N == MaxDepth + 1
           level == CHOOSE f : f = [d \in 0 .. N |-> IF d = 0 THEN {schema}
                                 ELSE UNION {Children(node) : node \in f[d - 1]}]
<1>1. N \in Nat
  BY DepthAssumption
<1>2. NodesAt(schema) = level
  BY DEF NodesAt
<1>3. PICK f : Levels(schema, N, f)
  BY <1>1, LevelsExist
<1>4. f = [d \in 0 .. N |-> IF d = 0 THEN {schema}
                            ELSE UNION {Children(node) : node \in f[d - 1]}]
  BY <1>3, Zenon DEF Levels
<1>5. level = [d \in 0 .. N |-> IF d = 0 THEN {schema}
                             ELSE UNION {Children(node) : node \in level[d - 1]}]
  BY <1>4, Zenon
<1> HIDE DEF level
<1>6. level[0] = {schema}
  BY <1>1, <1>5
<1>7. ASSUME NEW d \in 0 .. MaxDepth
       PROVE level[d + 1] = UNION {Children(node) : node \in level[d]}
  <2>1. d + 1 \in 0 .. N /\ d + 1 # 0 /\ (d + 1) - 1 = d
    BY DepthAssumption
  <2> QED
    BY <1>5, <2>1
<1> QED
  BY <1>2, <1>6, <1>7

LEMMA WalksExist ==
  ASSUME NEW schema, NEW n \in Nat
  PROVE  \E f : Walks(schema, n, f)
<1> DEFINE level(k) == NodesAt(schema)[MaxDepth + 1 - k]
           T == {k \in Nat : \E f : Walks(schema, k, f)}
<1>1. 0 \in T
  <2> DEFINE g == [k \in 0 .. 0 |-> [node \in level(0) |-> << >>]]
  <2>1. g = [k \in 0 .. 0 |-> g[k]] /\ g[0] = [node \in level(0) |-> << >>]
    OBVIOUS
  <2> HIDE DEF g
  <2>2. Walks(schema, 0, g)
    BY <2>1 DEF Walks
  <2> QED
    BY <2>2
<1>2. ASSUME NEW k \in Nat, k \in T PROVE k + 1 \in T
  <2>1. PICK f : Walks(schema, k, f)
    BY <1>2
  <2> DEFINE next == [node \in level(k + 1) |-> Descriptors(node, f[k])]
             g == [d \in 0 .. (k + 1) |-> IF d <= k THEN f[d] ELSE next]
  <2>2. ASSUME NEW d \in 0 .. (k + 1)
         PROVE g[d] = [node \in level(d) |-> IF d = 0 THEN << >> ELSE Descriptors(node, g[d - 1])]
    <3>1. CASE d <= k
      <4>0. d \in 0 .. k
        BY <3>1
      <4>1. f[d] = [node \in level(d) |-> IF d = 0 THEN << >> ELSE Descriptors(node, f[d - 1])]
        BY <2>1, <4>0, Zenon DEF Walks
      <4>2. d # 0 => g[d - 1] = f[d - 1]
        BY <3>1
      <4>3. g[d] = f[d]
        BY <3>1
      <4> HIDE DEF g, level
      <4> QED
        BY <4>1, <4>2, <4>3
    <3>2. CASE d = k + 1
      <4>1. d # 0 /\ g[d - 1] = f[k] /\ g[d] = next
        BY <3>2
      <4> HIDE DEF g
      <4> QED
        BY <3>2, <4>1
    <3> QED
      BY <3>1, <3>2
  <2>3. g = [d \in 0 .. (k + 1) |-> g[d]]
    OBVIOUS
  <2> HIDE DEF g
  <2>4. Walks(schema, k + 1, g)
    BY <2>2, <2>3 DEF Walks
  <2> QED
    BY <2>4
<1> HIDE DEF T
<1>3. n \in T
  BY <1>1, <1>2, NatSetInduction
<1> QED
  BY <1>3 DEF T

LEMMA VisitIs ==
  ASSUME NEW schema, NEW k \in 0 .. MaxDepth + 1, NEW node \in NodesAt(schema)[MaxDepth + 1 - k]
  PROVE  Visit(schema)[k][node] =
           IF k = 0 THEN << >> ELSE Descriptors(node, Visit(schema)[k - 1])
<1> DEFINE N == MaxDepth + 1
           visit == CHOOSE f : f = [i \in 0 .. N |->
                      [m \in NodesAt(schema)[MaxDepth + 1 - i] |->
                         IF i = 0 THEN << >> ELSE Descriptors(m, f[i - 1])]]
<1>1. N \in Nat
  BY DepthAssumption
<1>2. Visit(schema) = visit
  BY DEF Visit
<1>3. PICK f : Walks(schema, N, f)
  BY <1>1, WalksExist
<1>4. f = [i \in 0 .. N |-> [m \in NodesAt(schema)[MaxDepth + 1 - i] |->
                               IF i = 0 THEN << >> ELSE Descriptors(m, f[i - 1])]]
  BY <1>3, Zenon DEF Walks
<1>5. visit = [i \in 0 .. N |-> [m \in NodesAt(schema)[MaxDepth + 1 - i] |->
                                   IF i = 0 THEN << >> ELSE Descriptors(m, visit[i - 1])]]
  BY <1>4, Zenon
<1> HIDE DEF visit
<1>6. visit[k] = [m \in NodesAt(schema)[MaxDepth + 1 - k] |->
                    IF k = 0 THEN << >> ELSE Descriptors(m, visit[k - 1])]
  BY <1>5, Zenon
<1>7. visit[k][node] = IF k = 0 THEN << >> ELSE Descriptors(node, visit[k - 1])
  BY <1>6, Zenon
<1> QED
  BY <1>2, <1>7

\* The walker gives every field a path of its own, whatever the schema.
LEMMA WalkSound ==
  ASSUME NEW schema, SchemaOK(schema)
  PROVE  Sound(Walk(schema))
<1> DEFINE level(k) == NodesAt(schema)[MaxDepth + 1 - k]
           Good(k) == k <= MaxDepth + 1 => \A node \in level(k) : Sound(Visit(schema)[k][node])
           T == {k \in Nat : Good(k)}
<1>1. 0 \in T
  <2>0. 0 \in 0 .. MaxDepth + 1
    BY DepthAssumption
  <2>1. ASSUME NEW node \in level(0) PROVE Visit(schema)[0][node] = << >>
    BY <2>0, VisitIs
  <2>2. Sound(<< >>)
    BY DEF Sound, IsSeq, ToSet
  <2> QED
    BY <2>1, <2>2
<1>2. ASSUME NEW k \in Nat, k \in T PROVE k + 1 \in T
  <2> SUFFICES ASSUME k + 1 <= MaxDepth + 1, NEW node \in level(k + 1)
               PROVE  Sound(Visit(schema)[k + 1][node])
    OBVIOUS
  <2>1. /\ k + 1 \in 0 .. MaxDepth + 1 /\ (k + 1) - 1 = k /\ k + 1 # 0
        /\ MaxDepth + 1 - (k + 1) \in 0 .. MaxDepth
        /\ (MaxDepth + 1 - (k + 1)) + 1 = MaxDepth + 1 - k
    BY DepthAssumption
  <2>2. Visit(schema)[k + 1][node] = Descriptors(node, Visit(schema)[k])
    BY <2>1, VisitIs
  <2>3. WellFormed(node) /\ Children(node) \subseteq level(k)
    BY <2>1, NodesAtIs DEF SchemaOK
  <2>4. \A child \in Children(node) : Sound(Visit(schema)[k][child])
    BY <1>2, <2>1, <2>3, DepthAssumption
  <2> QED
    BY <2>2, <2>3, <2>4, DescriptorsSound
<1> HIDE DEF T
<1>3. MaxDepth + 1 \in T
  BY <1>1, <1>2, NatSetInduction, DepthAssumption
<1>4. schema \in level(MaxDepth + 1)
  BY NodesAtIs, DepthAssumption
<1> QED
  BY <1>3, <1>4, DepthAssumption DEF T, Walk
-----------------------------------------------------------------------------
CaseIds(S) == [c \in S |-> <<c.endpoint, c.kind, c.ordinal>>]

\* What every case of endpoint e is.
CaseOK(e, c) ==
  /\ c.endpoint = e.id
  /\ c.ordinal \in Nat
  /\ c.prod_safe => MarkerFor(c.kind) = "smoke" /\ (e.method \in Reads \/ e.prod_safe)

\* A run of cases of e with kinds from K and different ids.
Group(e, s, K) ==
  /\ IsSeq(s)
  /\ \A c \in ToSet(s) : CaseOK(e, c) /\ c.kind \in K
  /\ OneToOne(s, CaseIds(ToSet(s)))

\* In any larger set the ids are the same.
LEMMA IdsOfMore ==
  ASSUME NEW s, NEW S, ToSet(s) \subseteq S
  PROVE  /\ OneToOne(s, CaseIds(S)) <=> OneToOne(s, CaseIds(ToSet(s)))
         /\ \A x \in ToSet(s) : CaseIds(S)[x] = <<x.endpoint, x.kind, x.ordinal>>
<1>1. \A x \in ToSet(s) : CaseIds(S)[x] = <<x.endpoint, x.kind, x.ordinal>>
  BY DEF CaseIds
<1>2. \A x \in ToSet(s) : CaseIds(ToSet(s))[x] = CaseIds(S)[x]
  BY <1>1 DEF CaseIds
<1>3. \A i \in DOMAIN s : s[i] \in ToSet(s)
  BY DEF ToSet
<1> QED
  BY <1>1, <1>2, <1>3 DEF OneToOne

\* Groups with different kinds make a group.
LEMMA GroupConcat ==
  ASSUME NEW e, NEW s, NEW t, NEW K, NEW L, Group(e, s, K), Group(e, t, L), K \intersect L = {}
  PROVE  Group(e, s \o t, K \union L)
<1> DEFINE S == ToSet(s) \union ToSet(t)
           id == CaseIds(S)
<1>1. /\ IsSeq(s \o t) /\ ToSet(s \o t) = S
      /\ OneToOne(s, id) /\ OneToOne(t, id)
           /\ (\A x \in ToSet(s), y \in ToSet(t) : id[x] # id[y])
         => OneToOne(s \o t, id)
  BY Concatenation DEF Group
<1>2. OneToOne(s, id) /\ OneToOne(t, id)
  BY IdsOfMore DEF Group
<1>3. ASSUME NEW x \in ToSet(s), NEW y \in ToSet(t) PROVE id[x] # id[y]
  <2>1. x.kind # y.kind
    BY DEF Group
  <2> QED
    BY <2>1 DEF CaseIds
<1>4. \A c \in S : CaseOK(e, c) /\ c.kind \in K \union L
  BY DEF Group
<1> QED
  BY <1>1, <1>2, <1>3, <1>4 DEF Group

\* A group that is there or not.
LEMMA GroupWhen ==
  ASSUME NEW e, NEW s, NEW K, NEW b, b => Group(e, s, K)
  PROVE  Group(e, When(b, s), K)
<1>1. Group(e, << >>, K)
  BY DEF Group, IsSeq, ToSet, OneToOne
<1> QED
  BY <1>1 DEF When

\* What the constructors of cases make.
LEMMA CaseIsOK ==
  ASSUME NEW e, NEW kind, NEW n \in Nat, NEW what
  PROVE  LET c == CaseOf(e, kind, n, what)
         IN  /\ CaseOK(e, c)
             /\ c.endpoint = e.id /\ c.kind = kind /\ c.ordinal = n /\ c.what = what
BY DEF CaseOf, CaseOK, ClassifyProdSafe

LEMMA VouchedIsOK ==
  ASSUME NEW e, NEW kind, NEW n \in Nat, NEW what
  PROVE  LET c == Vouched(e, CaseOf(e, kind, n, what))
         IN  /\ CaseOK(e, c)
             /\ c.endpoint = e.id /\ c.kind = kind /\ c.ordinal = n /\ c.what = what
<1> DEFINE p == ClassifyProdSafe(kind, e, FALSE)
           q == ClassifyProdSafe(kind, e, e.prod_safe)
           m == MarkerFor(kind)
           d == [endpoint |-> e.id, kind |-> kind, ordinal |-> n, what |-> what,
                 bound |-> << >>, marker |-> m, prod_safe |-> p]
           c == Vouched(e, CaseOf(e, kind, n, what))
<1>1. CaseOf(e, kind, n, what) = d /\ d.kind = kind
  BY DEF CaseOf
<1>2. c = [d EXCEPT !.prod_safe = q]
  BY <1>1, Zenon DEF Vouched
<1>3. q => m = "smoke" /\ (e.method \in Reads \/ e.prod_safe)
  BY DEF ClassifyProdSafe
<1> HIDE DEF p, q, c
<1>4. c = [endpoint |-> e.id, kind |-> kind, ordinal |-> n, what |-> what,
           bound |-> << >>, marker |-> m, prod_safe |-> q]
  BY <1>2
<1> QED
  BY <1>3, <1>4 DEF CaseOK, c

\* One case, or one per item of a list, numbered by its place.
LEMMA GroupOne ==
  ASSUME NEW e, NEW kind
  PROVE  Group(e, One(e, kind), {kind})
<1> DEFINE c == CaseOf(e, kind, 0, << >>)
<1>1. CaseOK(e, c) /\ c.kind = kind
  BY CaseIsOK
<1>2. One(e, kind) = <<c>>
  BY DEF One
<1> HIDE DEF c
<1> QED
  BY <1>1, <1>2 DEF Group, IsSeq, ToSet, OneToOne

\* One per item of a list, numbered by its place.
LEMMA GroupNumbered ==
  ASSUME NEW e, NEW kind, NEW n \in Nat, NEW s, s = [i \in 1 .. n |-> s[i]],
         \A i \in 1 .. n : CaseOK(e, s[i]) /\ s[i].kind = kind /\ s[i].ordinal = i - 1
  PROVE  Group(e, s, {kind})
<1>1. IsSeq(s) /\ DOMAIN s = 1 .. n
  BY SeqOfFunction
<1>2. \A c \in ToSet(s) : CaseOK(e, c) /\ c.kind \in {kind}
  BY <1>1 DEF ToSet
<1>3. ASSUME NEW i \in 1 .. n, NEW j \in 1 .. n, CaseIds(ToSet(s))[s[i]] = CaseIds(ToSet(s))[s[j]]
       PROVE  i = j
  <2>1. s[i] \in ToSet(s) /\ s[j] \in ToSet(s)
    BY <1>1 DEF ToSet
  <2>2. s[i].ordinal = s[j].ordinal
    BY <1>3, <2>1 DEF CaseIds
  <2> QED
    BY <2>2
<1> QED
  BY <1>1, <1>2, <1>3 DEF Group, OneToOne

\* The generators, one by one.
LEMMA UniversalGroup ==
  ASSUME NEW e
  PROVE  Group(e, UniversalCases(e), {"status_code_conformance", "content_type_alignment",
           "response_schema_validation", "auth_happy_path", "response_time_sla"})
<1> DEFINE a == One(e, "status_code_conformance")
           b == One(e, "content_type_alignment")
           c == When(e.response_schema = "schema", One(e, "response_schema_validation"))
           d == One(e, "auth_happy_path")
           f == One(e, "response_time_sla")
           K == {"status_code_conformance", "content_type_alignment",
                 "response_schema_validation", "auth_happy_path", "response_time_sla"}
           own == a \o b \o c \o d \o f
           s == UniversalCases(e)
<1>1. /\ Group(e, a, {"status_code_conformance"})
      /\ Group(e, b, {"content_type_alignment"})
      /\ Group(e, c, {"response_schema_validation"})
      /\ Group(e, d, {"auth_happy_path"})
      /\ Group(e, f, {"response_time_sla"})
  BY GroupOne, GroupWhen
<1>2. s = [i \in DOMAIN own |-> Vouched(e, own[i])]
  BY DEF UniversalCases
<1>0. \A x \in ToSet(own) : x \in {CaseOf(e, kind, 0, << >>) : kind \in K}
  <2>1. \A kind : IsSeq(One(e, kind)) /\ ToSet(One(e, kind)) = {CaseOf(e, kind, 0, << >>)}
    BY DEF One, IsSeq, ToSet
  <2>2. IsSeq(c) /\ ToSet(c) \subseteq {CaseOf(e, "response_schema_validation", 0, << >>)}
    <3>1. IsSeq(<< >>) /\ ToSet(<< >>) = {}
      BY DEF IsSeq, ToSet
    <3> QED
      BY <2>1, <3>1 DEF When
  <2>3. IsSeq(a) /\ IsSeq(b) /\ IsSeq(d) /\ IsSeq(f)
    BY <2>1
  <2> DEFINE A == ToSet(a) \union ToSet(b) \union ToSet(c) \union ToSet(d) \union ToSet(f)
  <2>4. ToSet(own) = A
    <3> HIDE DEF a, b, c, d, f
    <3>1. IsSeq(a \o b) /\ ToSet(a \o b) = ToSet(a) \union ToSet(b)
      BY <2>3, Concatenation
    <3>2. IsSeq(a \o b \o c) /\ ToSet(a \o b \o c) = ToSet(a \o b) \union ToSet(c)
      BY <2>2, <3>1, Concatenation
    <3>3. IsSeq(a \o b \o c \o d) /\ ToSet(a \o b \o c \o d) = ToSet(a \o b \o c) \union ToSet(d)
      BY <2>3, <3>2, Concatenation
    <3>4. ToSet(own) = ToSet(a \o b \o c \o d) \union ToSet(f)
      BY <2>3, <3>3, Concatenation
    <3> QED
      BY <3>1, <3>2, <3>3, <3>4
  <2> QED
    BY <2>1, <2>2, <2>4
<1> HIDE DEF a, b, c, d, f
<1>3. Group(e, a \o b, {"status_code_conformance", "content_type_alignment"})
  <2>1. {"status_code_conformance"} \union {"content_type_alignment"}
          = {"status_code_conformance", "content_type_alignment"}
    OBVIOUS
  <2> QED
    BY <1>1, <2>1, GroupConcat
<1>4. Group(e, own, K)
  <2>1. Group(e, a \o b \o c, {"status_code_conformance"} \union {"content_type_alignment"}
                                \union {"response_schema_validation"})
    BY <1>1, <1>3, GroupConcat
  <2>2. Group(e, a \o b \o c \o d,
              ({"status_code_conformance"} \union {"content_type_alignment"}
                 \union {"response_schema_validation"}) \union {"auth_happy_path"})
    BY <1>1, <2>1, GroupConcat
  <2>3. Group(e, own, (({"status_code_conformance"} \union {"content_type_alignment"}
                 \union {"response_schema_validation"}) \union {"auth_happy_path"})
                 \union {"response_time_sla"})
    BY <1>1, <2>2, GroupConcat
  <2>4. (({"status_code_conformance"} \union {"content_type_alignment"}
                 \union {"response_schema_validation"}) \union {"auth_happy_path"})
                 \union {"response_time_sla"} = K
    OBVIOUS
  <2> QED
    BY <2>3, <2>4
<1> HIDE DEF own
<1>5. \A i \in DOMAIN own : /\ CaseOK(e, s[i]) /\ s[i].kind = own[i].kind
                           /\ s[i].kind \in K /\ s[i].ordinal = 0 /\ own[i].ordinal = 0
                           /\ own[i].endpoint = e.id /\ s[i].endpoint = e.id
  <2> TAKE i \in DOMAIN own
  <2>1. PICK kind \in K : own[i] = CaseOf(e, kind, 0, << >>)
    BY <1>0 DEF ToSet
  <2>2. s[i] = Vouched(e, CaseOf(e, kind, 0, << >>))
    BY <1>2, <2>1
  <2> QED
    BY <2>1, <2>2, CaseIsOK, VouchedIsOK
<1>6. IsSeq(own) /\ DOMAIN own = 1 .. Len(own) /\ Len(own) \in Nat
  BY <1>4 DEF Group, IsSeq
<1>7. IsSeq(s) /\ DOMAIN s = DOMAIN own
  BY <1>2, <1>6, SeqOfFunction
<1>8. ASSUME NEW i \in DOMAIN s, NEW j \in DOMAIN s, CaseIds(ToSet(s))[s[i]] = CaseIds(ToSet(s))[s[j]]
       PROVE  i = j
  <2>1. s[i].kind = s[j].kind
    BY <1>8 DEF CaseIds, ToSet
  <2>2. CaseIds(ToSet(own))[own[i]] = CaseIds(ToSet(own))[own[j]]
    BY <1>5, <1>7, <2>1 DEF CaseIds, ToSet
  <2> QED
    BY <1>4, <1>7, <2>2 DEF Group, OneToOne
<1>9. \A c1 \in ToSet(s) : CaseOK(e, c1) /\ c1.kind \in K
  BY <1>5, <1>7 DEF ToSet
<1> HIDE DEF s, K
<1> QED
  BY <1>7, <1>8, <1>9 DEF Group, OneToOne, s, K

LEMMA AuthGroup ==
  ASSUME NEW e
  PROVE  Group(e, AuthNegativeCases(e),
               {"no_auth_returns_401", "garbage_token_returns_401", "method_not_allowed"})
<1> DEFINE a == One(e, "no_auth_returns_401")
           b == One(e, "garbage_token_returns_401")
           c == One(e, "method_not_allowed")
<1>1. /\ Group(e, a, {"no_auth_returns_401"}) /\ Group(e, b, {"garbage_token_returns_401"})
      /\ Group(e, c, {"method_not_allowed"})
  BY GroupOne
<1>2. AuthNegativeCases(e) = When(e.auth_strategy # "none", a \o b \o c)
  BY DEF AuthNegativeCases
<1> HIDE DEF a, b, c
<1>3. Group(e, a \o b, {"no_auth_returns_401"} \union {"garbage_token_returns_401"})
  BY <1>1, GroupConcat
<1>4. Group(e, a \o b \o c, ({"no_auth_returns_401"} \union {"garbage_token_returns_401"})
                              \union {"method_not_allowed"})
  BY <1>1, <1>3, GroupConcat
<1>5. ({"no_auth_returns_401"} \union {"garbage_token_returns_401"}) \union {"method_not_allowed"}
        = {"no_auth_returns_401", "garbage_token_returns_401", "method_not_allowed"}
  OBVIOUS
<1> QED
  BY <1>2, <1>4, <1>5, GroupWhen
-----------------------------------------------------------------------------
\* A boundary case sends what it says of a field of its endpoint: a value on that
\* side of a limit, the limit itself if it is a number.
Sided(constraint, limit, side, value) ==
  /\ side \in {"inside", "outside"}
  /\ Satisfies(value, constraint, limit) <=> side = "inside"
  /\ constraint # "enum" => value \in Int /\ (side = "inside" => value = limit)

Straddles(e, c) ==
  \E f \in ToSet(FieldsOf(e)) :
    /\ c.what = f.path
    /\ c.bound[1] \in DOMAIN f.limits /\ c.bound[1] \in ToSet(Constraints)
    /\ Sided(c.bound[1], f.limits[c.bound[1]], c.bound[2], c.bound[3])

\* Cases of one kind with different ordinals make a group.
LEMMA GroupFlatten ==
  ASSUME NEW e, NEW kind, NEW seqs, IsSeq(seqs),
         \A i \in DOMAIN seqs : Group(e, seqs[i], {kind}),
         \A i, j \in DOMAIN seqs : i # j =>
           \A x \in ToSet(seqs[i]), y \in ToSet(seqs[j]) : x.ordinal # y.ordinal
  PROVE  /\ Group(e, FlattenSeq(seqs), {kind})
         /\ ToSet(FlattenSeq(seqs)) = UNION {ToSet(seqs[i]) : i \in DOMAIN seqs}
<1> DEFINE flat == FlattenSeq(seqs)
           id == CaseIds(ToSet(flat))
<1>1. /\ IsSeq(flat) /\ ToSet(flat) = UNION {ToSet(seqs[i]) : i \in DOMAIN seqs}
      /\ Apart(seqs, id) => OneToOne(flat, id)
  BY Flatten DEF Group
<1>2. \A i \in DOMAIN seqs : ToSet(seqs[i]) \subseteq ToSet(flat)
  BY <1>1
<1> HIDE DEF flat
<1>3. \A i \in DOMAIN seqs : OneToOne(seqs[i], id)
  BY <1>2, IdsOfMore DEF Group
<1>4. ASSUME NEW i \in DOMAIN seqs, NEW j \in DOMAIN seqs, i # j,
             NEW x \in ToSet(seqs[i]), NEW y \in ToSet(seqs[j])
      PROVE  id[x] # id[y]
  <2>1. x.ordinal # y.ordinal /\ x \in ToSet(flat) /\ y \in ToSet(flat)
    BY <1>2, <1>4
  <2> QED
    BY <2>1 DEF CaseIds
<1>5. Apart(seqs, id)
  BY <1>3, <1>4 DEF Apart
<1>6. \A c \in ToSet(flat) : CaseOK(e, c) /\ c.kind \in {kind}
  BY <1>1 DEF Group
<1> QED
  BY <1>1, <1>5, <1>6 DEF Group, flat

\* The fields of an endpoint.
LEMMA FieldsSound ==
  ASSUME NEW e, EndpointOK(e)
  PROVE  Sound(FieldsOf(e))
<1>1. Sound(<< >>)
  BY DEF Sound, IsSeq, ToSet
<1> QED
  BY <1>1, WalkSound DEF FieldsOf, EndpointOK

\* A case about a field.
AboutField(e, c) ==
  \E i \in DOMAIN FieldsOf(e) :
    /\ c.ordinal = i - 1 /\ c.what = FieldsOf(e)[i].path
    /\ c.kind = "required_field_omission_returns_400" => FieldsOf(e)[i].required
    /\ c.kind = "type_violation_returns_400" => FieldsOf(e)[i].type # "unknown"

\* The cases of one kind about the fields at some places.
AboutCases(e, kind, places) ==
  LET fields == FieldsOf(e)
  IN  FlattenSeq([i \in DOMAIN fields |->
        When(i \in places, << CaseOf(e, kind, i - 1, fields[i].path) >>)])

AboutPlace(e, c, kind, places) ==
  \E i \in DOMAIN FieldsOf(e) \intersect places :
    c.kind = kind /\ c.ordinal = i - 1 /\ c.what = FieldsOf(e)[i].path

LEMMA AboutGroup ==
  ASSUME NEW e, EndpointOK(e), NEW kind, NEW places
  PROVE  /\ Group(e, AboutCases(e, kind, places), {kind})
         /\ \A c \in ToSet(AboutCases(e, kind, places)) : AboutPlace(e, c, kind, places)
<1> DEFINE fields == FieldsOf(e)
           seqs == [i \in DOMAIN fields |->
                      When(i \in places, << CaseOf(e, kind, i - 1, fields[i].path) >>)]
<1>1. IsSeq(fields) /\ Len(fields) \in Nat /\ DOMAIN fields = 1 .. Len(fields)
  BY FieldsSound DEF Sound, IsSeq
<1>2. IsSeq(seqs) /\ DOMAIN seqs = DOMAIN fields
  BY <1>1, SeqOfFunction
<1>3. ASSUME NEW i \in DOMAIN fields
       PROVE  /\ Group(e, seqs[i], {kind})
              /\ \A x \in ToSet(seqs[i]) : /\ x.ordinal = i - 1 /\ i \in places
                                             /\ x.what = fields[i].path /\ x.kind = kind
  <2> DEFINE c == CaseOf(e, kind, i - 1, fields[i].path)
  <2>1. CaseOK(e, c) /\ c.kind = kind /\ c.ordinal = i - 1 /\ c.what = fields[i].path
    <3>1. i - 1 \in Nat
      BY <1>1
    <3> QED
      BY <3>1, CaseIsOK
  <2>2. seqs[i] = When(i \in places, <<c>>)
    OBVIOUS
  <2> HIDE DEF c, seqs
  <2>3. Group(e, <<c>>, {kind}) /\ ToSet(<<c>>) = {c}
    BY <2>1 DEF Group, IsSeq, ToSet, OneToOne
  <2>4. Group(e, seqs[i], {kind})
    BY <2>2, <2>3, GroupWhen
  <2>5. ToSet(seqs[i]) \subseteq {c} /\ (i \notin places => ToSet(seqs[i]) = {})
    BY <2>2, <2>3 DEF When, ToSet
  <2> QED
    BY <2>1, <2>4, <2>5
<1> HIDE DEF seqs
<1>4. ASSUME NEW i \in DOMAIN seqs, NEW j \in DOMAIN seqs, i # j,
             NEW x \in ToSet(seqs[i]), NEW y \in ToSet(seqs[j])
      PROVE  x.ordinal # y.ordinal
  <2>1. x.ordinal = i - 1 /\ y.ordinal = j - 1 /\ i \in Int /\ j \in Int
    BY <1>1, <1>2, <1>3
  <2> QED
    BY <1>4, <2>1
<1>5. /\ Group(e, FlattenSeq(seqs), {kind})
      /\ ToSet(FlattenSeq(seqs)) = UNION {ToSet(seqs[i]) : i \in DOMAIN seqs}
  <2>1. \A i \in DOMAIN seqs : Group(e, seqs[i], {kind})
    BY <1>2, <1>3
  <2> QED
    BY <1>2, <1>4, <2>1, GroupFlatten
<1>6. \A c \in ToSet(FlattenSeq(seqs)) : \E i \in DOMAIN fields \intersect places :
        c.kind = kind /\ c.ordinal = i - 1 /\ c.what = fields[i].path
  BY <1>2, <1>3, <1>5
<1> QED
  BY <1>5, <1>6 DEF AboutCases, AboutPlace, seqs

\* One malformed body, and the fields by kind.
LEMMA BodyGroup ==
  ASSUME NEW e, EndpointOK(e)
  PROVE  /\ Group(e, BodyNegativeCases(e), {"malformed_json_returns_400",
              "required_field_omission_returns_400", "type_violation_returns_400"})
         /\ \A x \in ToSet(BodyNegativeCases(e)) :
              x.kind # "malformed_json_returns_400" => AboutField(e, x)
<1> DEFINE fields == FieldsOf(e)
           required == {i \in DOMAIN fields : fields[i].required}
           typed == {i \in DOMAIN fields : fields[i].type # "unknown"}
           a == One(e, "malformed_json_returns_400")
           b == AboutCases(e, "required_field_omission_returns_400", required)
           c == AboutCases(e, "type_violation_returns_400", typed)
<1>1. /\ Group(e, a, {"malformed_json_returns_400"})
      /\ Group(e, b, {"required_field_omission_returns_400"})
      /\ Group(e, c, {"type_violation_returns_400"})
  BY GroupOne, AboutGroup
<1>6. \A x \in ToSet(b) \union ToSet(c) : AboutField(e, x)
  <2>1. ASSUME NEW x \in ToSet(b) PROVE AboutField(e, x)
    <3>1. PICK i \in DOMAIN fields \intersect required :
            /\ x.kind = "required_field_omission_returns_400"
            /\ x.ordinal = i - 1 /\ x.what = fields[i].path
      <4>1. AboutPlace(e, x, "required_field_omission_returns_400", required)
        BY AboutGroup
      <4> QED
        BY <4>1 DEF AboutPlace
    <3> QED
      BY <3>1 DEF AboutField
  <2>2. ASSUME NEW x \in ToSet(c) PROVE AboutField(e, x)
    <3>1. PICK i \in DOMAIN fields \intersect typed :
            /\ x.kind = "type_violation_returns_400"
            /\ x.ordinal = i - 1 /\ x.what = fields[i].path
      <4>1. AboutPlace(e, x, "type_violation_returns_400", typed)
        BY AboutGroup
      <4> QED
        BY <4>1 DEF AboutPlace
    <3> QED
      BY <3>1 DEF AboutField
  <2> QED
    BY <2>1, <2>2
<1>2. BodyNegativeCases(e) = When(HasSchema(e) \/ e.body_example, a \o b \o c)
  BY DEF BodyNegativeCases, AboutCases
<1> HIDE DEF a, b, c
<1>3. Group(e, a \o b, {"malformed_json_returns_400"} \union {"required_field_omission_returns_400"})
  BY <1>1, GroupConcat
<1>4. Group(e, a \o b \o c, ({"malformed_json_returns_400"}
              \union {"required_field_omission_returns_400"}) \union {"type_violation_returns_400"})
  BY <1>1, <1>3, GroupConcat
<1>5. ({"malformed_json_returns_400"} \union {"required_field_omission_returns_400"})
         \union {"type_violation_returns_400"}
       = {"malformed_json_returns_400", "required_field_omission_returns_400",
          "type_violation_returns_400"}
  OBVIOUS
<1>7. ToSet(a \o b \o c) = ToSet(a) \union ToSet(b) \union ToSet(c)
  BY <1>1, <1>3, Concatenation DEF Group
<1>8. \A x \in ToSet(a) : x.kind = "malformed_json_returns_400"
  BY <1>1 DEF Group
<1>9. \A x \in ToSet(BodyNegativeCases(e)) : x \in ToSet(a \o b \o c)
  BY <1>2 DEF When, ToSet
<1> QED
  BY <1>2, <1>4, <1>5, <1>6, <1>7, <1>8, <1>9, GroupWhen
-----------------------------------------------------------------------------
\* Two sequences of one.
LEMMA PairIs ==
  ASSUME NEW x, NEW y
  PROVE  <<x>> \o <<y>> = <<x, y>>
<1> DEFINE S == {x, y}
<1>1. <<x>> \in Seq(S) /\ <<y>> \in Seq(S) /\ <<x, y>> \in Seq(S)
  OBVIOUS
<1> HIDE DEF S
<1>2. Len(<<x>>) = 1 /\ Len(<<y>>) = 1 /\ Len(<<x, y>>) = 2 /\ <<x, y>>[1] = x /\ <<x, y>>[2] = y
  OBVIOUS
<1>3. /\ <<x>> \o <<y>> \in Seq(S) /\ Len(<<x>> \o <<y>>) = 2
      /\ (<<x>> \o <<y>>)[1] = x /\ (<<x>> \o <<y>>)[2] = y
  BY <1>1, <1>2, ConcatProperties
<1>4. \A i \in 1 .. 2 : (<<x>> \o <<y>>)[i] = <<x, y>>[i]
  BY <1>2, <1>3
<1> QED
  BY <1>1, <1>2, <1>3, <1>4, SeqEqual

\* The value outside an enum is outside it.
LEMMA FirstAbsentIs ==
  ASSUME NEW enum, ~(ToSet(Row) \subseteq ToSet(enum))
  PROVE  FirstAbsent(enum) \notin ToSet(enum)
<1> DEFINE T == {i \in DOMAIN Row : Row[i] \notin ToSet(enum)}
<1>1. DOMAIN Row = 1 .. 6
  BY DEF Row
<1>2. T # {} /\ T \subseteq Nat
  BY <1>1 DEF ToSet
<1> HIDE DEF T
<1>3. PICK m \in T : \A n \in T : m <= n
  BY <1>2, Least
<1>4. m \in DOMAIN Row /\ Row[m] \notin ToSet(enum) /\ m \in 1 .. 6
  BY <1>1, <1>3 DEF T
<1>5. ASSUME NEW k \in 1 .. m - 1 PROVE Row[k] \in ToSet(enum)
  <2>1. k \in DOMAIN Row /\ ~(m <= k)
    BY <1>1, <1>4
  <2> QED
    BY <1>3, <2>1 DEF T
<1> QED
  BY <1>4, <1>5 DEF FirstAbsent

\* Of each constraint there is a value on either side, or one inside only.
LEMMA BoundsStraddle ==
  ASSUME NEW limits, LimitsOK(limits), NEW c \in DOMAIN limits, c \in ToSet(Constraints),
         c \in {"minLength", "maxLength"} => limits[c] >= 0
  PROVE  LET s == Bounds(c, limits[c])
         IN  /\ \E n \in {0, 1, 2} : s = [k \in 1 .. n |-> s[k]] /\ DOMAIN s = 1 .. n
             /\ \A k \in DOMAIN s : /\ s[k] = <<s[k][1], s[k][2]>>
                                    /\ Sided(c, limits[c], s[k][1], s[k][2])
<1> DEFINE v == limits[c]
           s == Bounds(c, v)
           in(x) == <<"inside", x>>
           out(x) == <<"outside", x>>
<1> SUFFICES /\ \E n \in {0, 1, 2} : s = [k \in 1 .. n |-> s[k]] /\ DOMAIN s = 1 .. n
             /\ \A k \in DOMAIN s : /\ s[k] = <<s[k][1], s[k][2]>>
                                    /\ Sided(c, v, s[k][1], s[k][2])
  OBVIOUS
<1>1. \A x, y : /\ <<in(x), out(y)>> = [k \in 1 .. 2 |-> <<in(x), out(y)>>[k]]
                /\ DOMAIN <<in(x), out(y)>> = 1 .. 2
                /\ <<in(x), out(y)>>[1] = in(x) /\ <<in(x), out(y)>>[2] = out(y)
  OBVIOUS
<1>6. c # "enum" => v \in Int
  BY DEF LimitsOK
<1>2. ASSUME NEW x, NEW y, s = <<in(x), out(y)>>, Satisfies(x, c, v), ~Satisfies(y, c, v),
             c # "enum" => x = v /\ y \in Int
       PROVE  /\ \E n \in {0, 1, 2} : s = [k \in 1 .. n |-> s[k]] /\ DOMAIN s = 1 .. n
              /\ \A k \in DOMAIN s : /\ s[k] = <<s[k][1], s[k][2]>>
                                     /\ Sided(c, v, s[k][1], s[k][2])
  <2>1. s = [k \in 1 .. 2 |-> s[k]] /\ DOMAIN s = 1 .. 2 /\ s[1] = in(x) /\ s[2] = out(y)
    BY <1>1, <1>2
  <2> HIDE DEF s
  <2>2. ASSUME NEW k \in 1 .. 2
         PROVE  s[k] = <<s[k][1], s[k][2]>> /\ Sided(c, v, s[k][1], s[k][2])
    <3>1. CASE k = 1
      BY <1>2, <1>6, <2>1, <3>1 DEF Sided
    <3>2. CASE k = 2
      BY <1>2, <1>6, <2>1, <3>2 DEF Sided
    <3> QED
      BY <3>1, <3>2
  <2> QED
    BY <2>1, <2>2
<1>3. \A x : /\ <<in(x)>> = [k \in 1 .. 1 |-> <<in(x)>>[k]] /\ DOMAIN <<in(x)>> = 1 .. 1
             /\ <<in(x)>>[1] = in(x)
  OBVIOUS
<1>4. ASSUME NEW x, s = <<in(x)>>, Satisfies(x, c, v), c # "enum" => x = v
       PROVE  /\ \E n \in {0, 1, 2} : s = [k \in 1 .. n |-> s[k]] /\ DOMAIN s = 1 .. n
              /\ \A k \in DOMAIN s : /\ s[k] = <<s[k][1], s[k][2]>>
                                     /\ Sided(c, v, s[k][1], s[k][2])
  <2>1. s = [k \in 1 .. 1 |-> s[k]] /\ DOMAIN s = 1 .. 1 /\ s[1] = in(x)
    BY <1>3, <1>4
  <2> HIDE DEF s
  <2>2. ASSUME NEW k \in 1 .. 1
         PROVE  s[k] = <<s[k][1], s[k][2]>> /\ Sided(c, v, s[k][1], s[k][2])
    <3>1. k = 1
      OBVIOUS
    <3> QED
      BY <1>4, <1>6, <2>1, <3>1 DEF Sided
  <2> QED
    BY <2>1, <2>2
<1>5. c \in {"minimum", "maximum", "minLength", "maxLength", "enum"}
  BY DEF ToSet, Constraints
<1>7. CASE c = "minimum"
  <2>1. s = <<in(v), out(v - 1)>>
    BY <1>7 DEF Bounds
  <2>2. Satisfies(v, c, v) /\ ~Satisfies(v - 1, c, v)
    BY <1>6, <1>7 DEF Satisfies
  <2> QED
    BY <1>2, <1>6, <2>1, <2>2
<1>8. CASE c = "maximum"
  <2>1. s = <<in(v), out(v + 1)>>
    BY <1>8 DEF Bounds
  <2>2. Satisfies(v, c, v) /\ ~Satisfies(v + 1, c, v)
    BY <1>6, <1>8 DEF Satisfies
  <2> QED
    BY <1>2, <1>6, <2>1, <2>2
<1>9. CASE c = "maxLength"
  <2>1. s = <<in(v), out(v + 1)>>
    BY <1>9 DEF Bounds
  <2>2. Satisfies(v, c, v) /\ ~Satisfies(v + 1, c, v)
    BY <1>6, <1>9 DEF Satisfies
  <2> QED
    BY <1>2, <1>6, <2>1, <2>2
<1>10. CASE c = "minLength"
  <2>1. s = <<in(v)>> \o When(v > 0, <<out(v - 1)>>)
    BY <1>10 DEF Bounds
  <2>2. Satisfies(v, c, v) /\ ~Satisfies(v - 1, c, v)
    BY <1>6, <1>10 DEF Satisfies
  <2>3. CASE v > 0
    <3>1. s = <<in(v), out(v - 1)>>
      <4>1. s = <<in(v)>> \o <<out(v - 1)>>
        BY <2>1, <2>3 DEF When
      <4> HIDE DEF s, in, out
      <4> QED
        BY <4>1, PairIs
    <3> QED
      BY <1>2, <1>6, <2>2, <3>1
  <2>4. CASE ~(v > 0)
    <3>1. s = <<in(v)>>
      BY <2>1, <2>4 DEF When
    <3> QED
      BY <1>4, <2>2, <3>1
  <2> QED
    BY <2>3, <2>4
<1>11. CASE c = "enum"
  <2>1. IsSeq(v) /\ ~(ToSet(Row) \subseteq ToSet(v))
    BY <1>11 DEF LimitsOK
  <2>2. s = When(v # << >>, <<in(v[1]), out(FirstAbsent(v))>>)
    BY <1>11 DEF Bounds
  <2>3. CASE v = << >>
    <3>1. s = << >>
      BY <2>2, <2>3 DEF When
    <3>2. s = [k \in 1 .. 0 |-> s[k]] /\ DOMAIN s = 1 .. 0
      BY <3>1
    <3> HIDE DEF s
    <3> QED
      BY <3>2
  <2>4. CASE v # << >>
    <3>1. s = <<in(v[1]), out(FirstAbsent(v))>>
      BY <2>2, <2>4 DEF When
    <3>2. v[1] \in ToSet(v)
      BY <2>1, <2>4 DEF IsSeq, ToSet
    <3>3. FirstAbsent(v) \notin ToSet(v)
      BY <2>1, FirstAbsentIs
    <3>4. Satisfies(v[1], c, v) /\ ~Satisfies(FirstAbsent(v), c, v)
      BY <1>11, <3>2, <3>3 DEF Satisfies
    <3> QED
      BY <1>2, <1>11, <3>1, <3>4
  <2> QED
    BY <2>3, <2>4
<1> QED
  BY <1>5, <1>7, <1>8, <1>9, <1>10, <1>11
-----------------------------------------------------------------------------
\* The boundary cases of one constraint of one field, and of one field.
SlotCases(e, i, slot) ==
  LET f == FieldsOf(e)[i]
      c == Constraints[slot]
  IN  IF c \notin DOMAIN f.limits THEN << >>
      ELSE LET bounds == Bounds(c, f.limits[c])
           IN  [k \in DOMAIN bounds |->
                 [CaseOf(e, "boundary_battery", BoundaryOrdinal(i, slot, k), f.path)
                    EXCEPT !.bound = <<c>> \o bounds[k]]]

FieldCases(e, i) == FlattenSeq([slot \in DOMAIN Constraints |-> SlotCases(e, i, slot)])

\* A boundary case.
LEMMA BoundedIs ==
  ASSUME NEW e, NEW n \in Nat, NEW what, NEW c, NEW side, NEW v
  PROVE  LET d == [CaseOf(e, "boundary_battery", n, what) EXCEPT !.bound = <<c>> \o <<side, v>>]
         IN  /\ CaseOK(e, d) /\ d.kind = "boundary_battery" /\ d.ordinal = n /\ d.what = what
             /\ d.bound[1] = c /\ d.bound[2] = side /\ d.bound[3] = v
<1> DEFINE kind == "boundary_battery"
           p == ClassifyProdSafe(kind, e, FALSE)
           m == MarkerFor(kind)
           b == <<c>> \o <<side, v>>
           r == [endpoint |-> e.id, kind |-> kind, ordinal |-> n, what |-> what,
                 bound |-> << >>, marker |-> m, prod_safe |-> p]
           d == [CaseOf(e, kind, n, what) EXCEPT !.bound = b]
<1>1. CaseOf(e, kind, n, what) = r
  BY DEF CaseOf
<1>2. d = [r EXCEPT !.bound = b]
  BY <1>1, Zenon
<1>3. p => m = "smoke" /\ (e.method \in Reads \/ e.prod_safe)
  BY DEF ClassifyProdSafe
<1>4. b[1] = c /\ b[2] = side /\ b[3] = v
  <2> DEFINE S == {c, side, v}
  <2>1. <<c>> \in Seq(S) /\ <<side, v>> \in Seq(S) /\ Len(<<c>>) = 1 /\ Len(<<side, v>>) = 2
    OBVIOUS
  <2> HIDE DEF S
  <2>2. b[1] = <<c>>[1] /\ b[2] = <<side, v>>[1] /\ b[3] = <<side, v>>[2]
    BY <2>1, ConcatProperties
  <2> QED
    BY <2>2
<1> HIDE DEF p, m, b, d
<1>5. d = [endpoint |-> e.id, kind |-> kind, ordinal |-> n, what |-> what,
           bound |-> b, marker |-> m, prod_safe |-> p]
  BY <1>2
<1>6. CaseOK(e, d) /\ d.kind = kind /\ d.ordinal = n /\ d.what = what /\ d.bound = b
  BY <1>3, <1>5 DEF CaseOK, m
<1> QED
  BY <1>4, <1>6 DEF d, b

\* Ten ordinals per field, two per constraint (boundary-battery-generator.ts:58-98).
LEMMA OrdinalIs ==
  ASSUME NEW i \in Nat \ {0}, NEW slot \in 1 .. 5, NEW k \in 1 .. 2
  PROVE  /\ BoundaryOrdinal(i, slot, k) = 10 * (i - 1) + 2 * (slot - 1) + (k - 1)
         /\ BoundaryOrdinal(i, slot, k) \in Nat
<1>1. Len(Constraints) = 5
  BY DEF Constraints
<1>2. BoundaryOrdinal(i, slot, k) = (i - 1) * 5 * 2 + (slot - 1) * 2 + (k - 1)
  BY <1>1 DEF BoundaryOrdinal
<1> QED
  BY <1>2

\* The cases of a constraint, of a field and of an endpoint have different ordinals
\* and lie on the side they say.
LEMMA SlotGroup ==
  ASSUME NEW e, EndpointOK(e), ~BoundaryThrows(e),
         NEW i \in DOMAIN FieldsOf(e), NEW slot \in 1 .. 5
  PROVE  /\ Group(e, SlotCases(e, i, slot), {"boundary_battery"})
         /\ \A c \in ToSet(SlotCases(e, i, slot)) :
              /\ Straddles(e, c)
              /\ c.ordinal - (10 * (i - 1) + 2 * (slot - 1)) \in {0, 1}
<1> DEFINE f == FieldsOf(e)[i]
           c == Constraints[slot]
           s == SlotCases(e, i, slot)
           bounds == Bounds(c, f.limits[c])
           base == 10 * (i - 1) + 2 * (slot - 1)
<1>1. IsSeq(FieldsOf(e)) /\ f \in ToSet(FieldsOf(e)) /\ LimitsOK(f.limits) /\ i \in Nat \ {0}
  <2> DEFINE fields == FieldsOf(e)
  <2>1. Sound(fields)
    BY FieldsSound
  <2> HIDE DEF fields
  <2>2. fields[i] \in ToSet(fields) /\ IsSeq(fields) /\ i \in Nat \ {0}
    BY <2>1 DEF Sound, IsSeq, ToSet, fields
  <2>3. LimitsOK(fields[i].limits)
    BY <2>1, <2>2 DEF Sound, FieldOK
  <2> QED
    BY <2>2, <2>3 DEF fields
<1>0. c \in ToSet(Constraints)
  <2>1. DOMAIN Constraints = 1 .. 5
    BY DEF Constraints
  <2> QED
    BY <2>1 DEF ToSet
<1>2. CASE c \notin DOMAIN f.limits
  <2>1. s = << >>
    BY <1>2 DEF SlotCases
  <2> QED
    BY <2>1 DEF Group, IsSeq, ToSet, OneToOne
<1>3. CASE c \in DOMAIN f.limits
  <2>1. c \in {"minLength", "maxLength"} => f.limits[c] >= 0
    <3>1. c \in {"minLength", "maxLength"} => f.limits[c] \in Int /\ ~(f.limits[c] < 0)
      BY <1>0, <1>1, <1>3 DEF BoundaryThrows, LimitsOK
    <3> QED
      BY <3>1
  <2>2. /\ \E n \in {0, 1, 2} : bounds = [k \in 1 .. n |-> bounds[k]] /\ DOMAIN bounds = 1 .. n
        /\ \A k \in DOMAIN bounds :
             /\ bounds[k] = <<bounds[k][1], bounds[k][2]>>
             /\ Sided(c, f.limits[c], bounds[k][1], bounds[k][2])
    BY <1>0, <1>1, <1>3, <2>1, BoundsStraddle
  <2>3. s = [k \in DOMAIN bounds |->
              [CaseOf(e, "boundary_battery", BoundaryOrdinal(i, slot, k), f.path)
                 EXCEPT !.bound = <<c>> \o bounds[k]]]
    BY <1>3 DEF SlotCases
  <2> HIDE DEF f, c, s, bounds
  <2>4. PICK n \in {0, 1, 2} : DOMAIN bounds = 1 .. n
    BY <2>2
  <2>5. DOMAIN s = 1 .. n /\ s = [k \in 1 .. n |-> s[k]]
    BY <2>3, <2>4
  <2>6. ASSUME NEW k \in 1 .. n
         PROVE  /\ CaseOK(e, s[k]) /\ s[k].kind = "boundary_battery"
                /\ s[k].ordinal = base + (k - 1) /\ Straddles(e, s[k])
    <3>1. k \in 1 .. 2
      BY <2>4
    <3>2. BoundaryOrdinal(i, slot, k) = base + (k - 1) /\ BoundaryOrdinal(i, slot, k) \in Nat
      BY <1>1, <3>1, OrdinalIs
    <3> DEFINE o == BoundaryOrdinal(i, slot, k)
               side == bounds[k][1]
               v == bounds[k][2]
               d == [CaseOf(e, "boundary_battery", o, f.path) EXCEPT !.bound = <<c>> \o <<side, v>>]
    <3>3. bounds[k] = <<side, v>> /\ Sided(c, f.limits[c], side, v)
      BY <2>2, <2>4
    <3>4. s[k] = d
      BY <2>3, <2>4, <3>3, Zenon
    <3> HIDE DEF o, side, v
    <3>5. /\ CaseOK(e, d) /\ d.kind = "boundary_battery" /\ d.ordinal = o /\ d.what = f.path
          /\ d.bound[1] = c /\ d.bound[2] = side /\ d.bound[3] = v
      BY <3>2, BoundedIs DEF o
    <3> HIDE DEF d
    <3>6. Straddles(e, d)
      BY <1>0, <1>1, <1>3, <3>3, <3>5 DEF Straddles
    <3> QED
      BY <3>2, <3>4, <3>5, <3>6 DEF o
  <2>7. IsSeq(s)
    BY <2>4, <2>5, SeqOfFunction
  <2>8. \A x \in ToSet(s) : \E k \in 1 .. n : x = s[k]
    BY <2>5 DEF ToSet
  <2>9. ASSUME NEW x \in ToSet(s) PROVE Straddles(e, x) /\ x.ordinal - base \in {0, 1}
    <3>1. PICK k \in 1 .. n : x = s[k]
      BY <2>8
    <3>2. x.ordinal = base + (k - 1) /\ Straddles(e, x)
      BY <2>6, <3>1
    <3>3. base \in Int /\ k \in {1, 2}
      BY <1>1, <2>4
    <3> HIDE DEF base
    <3> QED
      BY <3>2, <3>3
  <2>10. ASSUME NEW j \in 1 .. n, NEW k \in 1 .. n, CaseIds(ToSet(s))[s[j]] = CaseIds(ToSet(s))[s[k]]
         PROVE  j = k
    <3>1. s[j] \in ToSet(s) /\ s[k] \in ToSet(s)
      BY <2>5 DEF ToSet
    <3>2. s[j].ordinal = s[k].ordinal
      BY <2>10, <3>1 DEF CaseIds
    <3>3. base + (j - 1) = base + (k - 1) /\ base \in Int
      BY <1>1, <2>6, <3>2
    <3> HIDE DEF base
    <3> QED
      BY <2>4, <3>3
  <2>11. Group(e, s, {"boundary_battery"})
    BY <2>5, <2>6, <2>7, <2>8, <2>10 DEF Group, OneToOne
  <2> QED
    BY <2>9, <2>11 DEF s
<1> QED
  BY <1>2, <1>3

LEMMA FieldGroup ==
  ASSUME NEW e, EndpointOK(e), ~BoundaryThrows(e), NEW i \in DOMAIN FieldsOf(e)
  PROVE  /\ Group(e, FieldCases(e, i), {"boundary_battery"})
         /\ \A c \in ToSet(FieldCases(e, i)) :
              Straddles(e, c) /\ c.ordinal - 10 * (i - 1) \in 0 .. 9
<1> DEFINE seqs == [slot \in DOMAIN Constraints |-> SlotCases(e, i, slot)]
<1>1. DOMAIN Constraints = 1 .. 5
  BY DEF Constraints
<1>2. IsSeq(seqs) /\ DOMAIN seqs = 1 .. 5
  BY <1>1, SeqOfFunction
<1>3. \A slot \in 1 .. 5 : seqs[slot] = SlotCases(e, i, slot)
  BY <1>1
<1>4. FieldCases(e, i) = FlattenSeq(seqs)
  BY DEF FieldCases
<1> HIDE DEF seqs
<1>5. i \in Nat \ {0}
  BY FieldsSound DEF Sound, IsSeq
<1>6. ASSUME NEW slot \in 1 .. 5
       PROVE  /\ Group(e, seqs[slot], {"boundary_battery"})
              /\ \A c \in ToSet(seqs[slot]) :
                   /\ Straddles(e, c) /\ c.ordinal \in Nat
                   /\ c.ordinal - (10 * (i - 1) + 2 * (slot - 1)) \in {0, 1}
  <2>1. slot \in DOMAIN Constraints
    BY <1>1
  <2>2. /\ Group(e, SlotCases(e, i, slot), {"boundary_battery"})
        /\ \A c \in ToSet(SlotCases(e, i, slot)) :
             Straddles(e, c) /\ c.ordinal - (10 * (i - 1) + 2 * (slot - 1)) \in {0, 1}
    BY <2>1, SlotGroup
  <2>3. \A c \in ToSet(SlotCases(e, i, slot)) : c.ordinal \in Nat
    BY <2>2 DEF Group, CaseOK
  <2>4. seqs[slot] = SlotCases(e, i, slot)
    BY <1>3
  <2> QED
    BY <2>2, <2>3, <2>4, Zenon
<1>7. ASSUME NEW a \in 1 .. 5, NEW b \in 1 .. 5, a # b,
             NEW x \in ToSet(seqs[a]), NEW y \in ToSet(seqs[b])
      PROVE  x.ordinal # y.ordinal
  <2>1. /\ x.ordinal \in Nat /\ x.ordinal - (10 * (i - 1) + 2 * (a - 1)) \in {0, 1}
        /\ y.ordinal \in Nat /\ y.ordinal - (10 * (i - 1) + 2 * (b - 1)) \in {0, 1}
    BY <1>6
  <2> QED
    BY <1>5, <1>7, <2>1
<1>8. /\ Group(e, FlattenSeq(seqs), {"boundary_battery"})
      /\ ToSet(FlattenSeq(seqs)) = UNION {ToSet(seqs[slot]) : slot \in 1 .. 5}
  BY <1>2, <1>6, <1>7, GroupFlatten
<1>9. ASSUME NEW slot \in 1 .. 5, NEW c \in ToSet(seqs[slot])
       PROVE  Straddles(e, c) /\ c.ordinal - 10 * (i - 1) \in 0 .. 9
  <2>1. /\ Straddles(e, c) /\ c.ordinal \in Nat
        /\ c.ordinal - (10 * (i - 1) + 2 * (slot - 1)) \in {0, 1}
    BY <1>6
  <2> QED
    BY <1>5, <2>1
<1> QED
  BY <1>4, <1>8, <1>9

LEMMA BoundaryGroup ==
  ASSUME NEW e, EndpointOK(e), ~BoundaryThrows(e)
  PROVE  /\ Group(e, BoundaryCases(e), {"boundary_battery"})
         /\ \A c \in ToSet(BoundaryCases(e)) : Straddles(e, c)
<1> DEFINE seqs == [i \in DOMAIN FieldsOf(e) |-> FieldCases(e, i)]
           n == Len(FieldsOf(e))
<1>1. DOMAIN FieldsOf(e) = 1 .. n /\ n \in Nat
  BY FieldsSound DEF Sound, IsSeq
<1>2. IsSeq(seqs) /\ DOMAIN seqs = 1 .. n
  BY <1>1, SeqOfFunction
<1>3. \A i \in 1 .. n : seqs[i] = FieldCases(e, i)
  BY <1>1
<1>4. BoundaryCases(e) = FlattenSeq(seqs)
  BY DEF BoundaryCases, FieldCases, SlotCases
<1> HIDE DEF seqs, n
<1>5. ASSUME NEW i \in 1 .. n
       PROVE  /\ Group(e, seqs[i], {"boundary_battery"})
              /\ \A c \in ToSet(seqs[i]) :
                   Straddles(e, c) /\ c.ordinal \in Nat /\ c.ordinal - 10 * (i - 1) \in 0 .. 9
  <2>1. i \in DOMAIN FieldsOf(e)
    BY <1>1
  <2>2. /\ Group(e, FieldCases(e, i), {"boundary_battery"})
        /\ \A c \in ToSet(FieldCases(e, i)) :
             Straddles(e, c) /\ c.ordinal - 10 * (i - 1) \in 0 .. 9
    BY <2>1, FieldGroup
  <2>3. \A c \in ToSet(FieldCases(e, i)) : c.ordinal \in Nat
    BY <2>2 DEF Group, CaseOK
  <2>4. seqs[i] = FieldCases(e, i)
    BY <1>3
  <2> QED
    BY <2>2, <2>3, <2>4, Zenon
<1>6. ASSUME NEW a \in 1 .. n, NEW b \in 1 .. n, a # b,
             NEW x \in ToSet(seqs[a]), NEW y \in ToSet(seqs[b])
      PROVE  x.ordinal # y.ordinal
  <2>1. /\ x.ordinal \in Nat /\ x.ordinal - 10 * (a - 1) \in 0 .. 9
        /\ y.ordinal \in Nat /\ y.ordinal - 10 * (b - 1) \in 0 .. 9
    BY <1>5
  <2>2. a \in Int /\ b \in Int
    BY <1>1
  <2>3. \A u, v \in Nat : u - 10 * (a - 1) \in 0 .. 9 /\ v - 10 * (b - 1) \in 0 .. 9 => u # v
    BY <1>6, <2>2
  <2> QED
    BY <2>1, <2>3
<1>7. /\ Group(e, FlattenSeq(seqs), {"boundary_battery"})
      /\ ToSet(FlattenSeq(seqs)) = UNION {ToSet(seqs[i]) : i \in 1 .. n}
  BY <1>2, <1>5, <1>6, GroupFlatten
<1> QED
  BY <1>4, <1>5, <1>7
-----------------------------------------------------------------------------
\* Cases of more kinds, or no cases.
LEMMA GroupMore ==
  ASSUME NEW e, NEW s, NEW K, NEW L, Group(e, s, K), K \subseteq L
  PROVE  Group(e, s, L)
BY DEF Group

LEMMA NoGroup ==
  ASSUME NEW e, NEW K
  PROVE  Group(e, << >>, K)
BY DEF Group, IsSeq, ToSet, OneToOne

IdempotencyKinds == {"get_idempotency", "delete_idempotency", "put_idempotency"}

LEMMA IdempotencyGroup ==
  ASSUME NEW e
  PROVE  Group(e, IdempotencyCases(e), IdempotencyKinds)
<1>1. ASSUME NEW kind \in IdempotencyKinds PROVE Group(e, One(e, kind), IdempotencyKinds)
  <2>1. Group(e, One(e, kind), {kind}) /\ {kind} \subseteq IdempotencyKinds
    BY GroupOne
  <2> QED
    BY <2>1, GroupMore
<1>2. Group(e, << >>, IdempotencyKinds)
  BY NoGroup
<1>3. IdempotencyCases(e) \in {<< >>} \union {One(e, kind) : kind \in IdempotencyKinds}
  <2>1. IdempotencyCases(e) \in {<< >>, One(e, "get_idempotency"),
                                 One(e, "delete_idempotency"), One(e, "put_idempotency")}
    BY DEF IdempotencyCases
  <2> QED
    BY <2>1 DEF IdempotencyKinds
<1> QED
  BY <1>1, <1>2, <1>3

LEMMA CorsGroup ==
  ASSUME NEW e
  PROVE  Group(e, CorsPreflightCases(e), {"cors_preflight"})
<1> DEFINE own == One(e, "cors_preflight")
           s == [i \in DOMAIN own |-> Vouched(e, own[i])]
           c == Vouched(e, CaseOf(e, "cors_preflight", 0, << >>))
<1>1. own = <<CaseOf(e, "cors_preflight", 0, << >>)>>
  BY DEF One
<1>2. DOMAIN own = 1 .. 1 /\ \A i \in 1 .. 1 : s[i] = c
  BY <1>1
<1>3. CaseOK(e, c) /\ c.kind = "cors_preflight" /\ c.ordinal = 0
  BY VouchedIsOK
<1>4. s = [i \in 1 .. 1 |-> s[i]]
  BY <1>2
<1>5. CorsPreflightCases(e) =
        When(e.method = "OPTIONS" /\ e.cors.declared /\ ~CorsDropped(e), s)
  BY DEF CorsPreflightCases
<1> HIDE DEF s, c
<1>6. \A i \in 1 .. 1 : CaseOK(e, s[i]) /\ s[i].kind = "cors_preflight" /\ s[i].ordinal = i - 1
  BY <1>2, <1>3
<1>7. Group(e, s, {"cors_preflight"})
  BY <1>4, <1>6, GroupNumbered
<1> QED
  BY <1>5, <1>7, GroupWhen

LEMMA ProbesAre ==
  ASSUME NEW pagination
  PROVE  IsSeq(Probes(pagination))
<1>1. /\ IsSeq(<<"size_zero", "size_max">>)
      /\ IsSeq(<<"size_zero", "size_max", "size_max_plus_one">>)
      /\ IsSeq(<<"page_negative">>) /\ IsSeq(<< >>)
  BY DEF IsSeq, ToSet
<1>2. IsSeq(When(pagination.page_param, <<"page_negative">>))
  BY <1>1 DEF When
<1>3. IsSeq(<<"size_zero", "size_max", "size_max_plus_one">>
              \o When(pagination.page_param, <<"page_negative">>))
  BY <1>1, <1>2, Concatenation
<1> QED
  BY <1>1, <1>3 DEF Probes

LEMMA PaginationGroup ==
  ASSUME NEW e
  PROVE  Group(e, PaginationCases(e), {"pagination_boundary"})
<1> DEFINE probes == Probes(e.pagination)
           n == Len(probes)
           s == [i \in DOMAIN probes |-> CaseOf(e, "pagination_boundary", i - 1, <<probes[i]>>)]
<1>1. n \in Nat /\ DOMAIN probes = 1 .. n
  BY ProbesAre DEF IsSeq
<1>2. PaginationCases(e) = << >> \/ PaginationCases(e) = s
  BY DEF PaginationCases
<1>3. s = [i \in 1 .. n |-> s[i]]
  BY <1>1
<1> HIDE DEF n
<1>4. ASSUME NEW i \in 1 .. n
       PROVE  CaseOK(e, s[i]) /\ s[i].kind = "pagination_boundary" /\ s[i].ordinal = i - 1
  <2>1. i - 1 \in Nat
    BY <1>1
  <2>2. s[i] = CaseOf(e, "pagination_boundary", i - 1, <<probes[i]>>)
    BY <1>1
  <2> QED
    BY <2>1, <2>2, CaseIsOK
<1> HIDE DEF s
<1>5. Group(e, s, {"pagination_boundary"})
  BY <1>1, <1>3, <1>4, GroupNumbered
<1> QED
  BY <1>2, <1>5, NoGroup

LEMMA CountedGroups ==
  ASSUME NEW e, EndpointOK(e)
  PROVE  /\ Group(e, DbVerifyCases(e), {"db_state_matches_expectation"})
         /\ Group(e, AssertionCases(e), {"assertion"})
<1>1. ASSUME NEW kind, NEW n \in Nat
       PROVE  Group(e, [i \in 1 .. n |-> CaseOf(e, kind, i - 1, << >>)], {kind})
  <2> DEFINE s == [i \in 1 .. n |-> CaseOf(e, kind, i - 1, << >>)]
  <2>1. s = [i \in 1 .. n |-> s[i]]
    OBVIOUS
  <2>2. ASSUME NEW i \in 1 .. n
         PROVE  CaseOK(e, s[i]) /\ s[i].kind = kind /\ s[i].ordinal = i - 1
    <3>1. i - 1 \in Nat /\ s[i] = CaseOf(e, kind, i - 1, << >>)
      OBVIOUS
    <3> QED
      BY <3>1, CaseIsOK
  <2> HIDE DEF s
  <2>3. Group(e, s, {kind})
    BY <2>1, <2>2, GroupNumbered
  <2> QED
    BY <2>3 DEF s
<1>2. e.db_verify \in Nat /\ Len(e.assertions) \in Nat
        /\ DOMAIN e.assertions = 1 .. Len(e.assertions)
  BY DEF EndpointOK, IsSeq
<1> QED
  BY <1>1, <1>2 DEF DbVerifyCases, AssertionCases
-----------------------------------------------------------------------------
UniversalKinds == {"status_code_conformance", "content_type_alignment",
                   "response_schema_validation", "auth_happy_path", "response_time_sla"}
AuthKinds == {"no_auth_returns_401", "garbage_token_returns_401", "method_not_allowed"}
BodyNegativeKinds == {"malformed_json_returns_400", "required_field_omission_returns_400",
              "type_violation_returns_400"}

Disjoint(K, L) == K \intersect L = {}
Both(K, L) == K \union L

\* GroupConcat again, with names for the sets and so without extensionality.
LEMMA GroupGrows ==
  ASSUME NEW e, NEW s, NEW t, NEW K, NEW L, Group(e, s, K), Group(e, t, L), Disjoint(K, L)
  PROVE  Group(e, s \o t, Both(K, L)) /\ ToSet(s \o t) = Both(ToSet(s), ToSet(t))
<1>1. K \intersect L = {}
  BY DEF Disjoint
<1>2. Group(e, s \o t, K \union L)
  BY <1>1, GroupConcat, Zenon
<1>3. ToSet(s \o t) = ToSet(s) \union ToSet(t)
  BY Concatenation DEF Group
<1> QED
  BY <1>2, <1>3 DEF Both

\* The kinds of the generators are those the ids are ordered by.
LEMMA KindsListed ==
  UniversalKinds \union AuthKinds \union BodyNegativeKinds \union {"boundary_battery"}
    \union IdempotencyKinds \union {"head_get_parity"} \union {"conditional_get_304"}
    \union {"cors_preflight"} \union {"pagination_boundary"}
    \union {"db_state_matches_expectation"} \union {"assertion"} \subseteq Kinds
<1>1. /\ DOMAIN KindOrder = 1 .. 21
      /\ KindOrder[1] = "assertion" /\ KindOrder[2] = "auth_happy_path"
      /\ KindOrder[3] = "boundary_battery" /\ KindOrder[4] = "conditional_get_304"
      /\ KindOrder[5] = "content_type_alignment" /\ KindOrder[6] = "cors_preflight"
      /\ KindOrder[7] = "db_state_matches_expectation" /\ KindOrder[8] = "delete_idempotency"
      /\ KindOrder[9] = "garbage_token_returns_401" /\ KindOrder[10] = "get_idempotency"
      /\ KindOrder[11] = "head_get_parity" /\ KindOrder[12] = "malformed_json_returns_400"
      /\ KindOrder[13] = "method_not_allowed" /\ KindOrder[14] = "no_auth_returns_401"
      /\ KindOrder[15] = "pagination_boundary" /\ KindOrder[16] = "put_idempotency"
      /\ KindOrder[17] = "required_field_omission_returns_400"
      /\ KindOrder[18] = "response_schema_validation" /\ KindOrder[19] = "response_time_sla"
      /\ KindOrder[20] = "status_code_conformance"
      /\ KindOrder[21] = "type_violation_returns_400"
  BY DEF KindOrder
<1>2. \A i \in 1 .. 21 : KindOrder[i] \in Kinds
  BY <1>1 DEF Kinds, ToSet
<1>3. 1 .. 21 = {1, 2, 3, 4, 5, 6, 7, 8, 9, 10, 11, 12, 13, 14, 15, 16, 17, 18, 19, 20, 21}
  OBVIOUS
<1>4. {"assertion", "auth_happy_path", "boundary_battery", "conditional_get_304",
       "content_type_alignment", "cors_preflight", "db_state_matches_expectation",
       "delete_idempotency", "garbage_token_returns_401", "get_idempotency",
       "head_get_parity", "malformed_json_returns_400", "method_not_allowed",
       "no_auth_returns_401", "pagination_boundary", "put_idempotency",
       "required_field_omission_returns_400", "response_schema_validation",
       "response_time_sla", "status_code_conformance", "type_violation_returns_400"}
      \subseteq Kinds
  BY <1>1, <1>2, <1>3
<1> QED
  BY <1>4 DEF UniversalKinds, AuthKinds, BodyNegativeKinds, IdempotencyKinds

\* All cases of an endpoint have different ids, and its boundary cases straddle.
LEMMA RawGroup ==
  ASSUME NEW e, EndpointOK(e)
  PROVE  /\ \E K : Group(e, RawCases(e), K) /\ K \subseteq Kinds
         /\ \A c \in ToSet(RawCases(e)) : c.kind = "boundary_battery" => Straddles(e, c)
         /\ \A c \in ToSet(RawCases(e)) :
              c \in UNION { ToSet(s) : s \in
                {UniversalCases(e), AuthNegativeCases(e), BodyNegativeCases(e),
                 When(HasSchema(e) /\ ~BoundaryThrows(e), BoundaryCases(e)),
                 IdempotencyCases(e), HeadGetParityCases(e), ConditionalGetCases(e),
                 CorsPreflightCases(e), PaginationCases(e), DbVerifyCases(e),
                 AssertionCases(e)} }
<1> DEFINE s1 == UniversalCases(e)
           s2 == AuthNegativeCases(e)
           s3 == BodyNegativeCases(e)
           s4 == When(HasSchema(e) /\ ~BoundaryThrows(e), BoundaryCases(e))
           s5 == IdempotencyCases(e)
           s6 == HeadGetParityCases(e)
           s7 == ConditionalGetCases(e)
           s8 == CorsPreflightCases(e)
           s9 == PaginationCases(e)
           s10 == DbVerifyCases(e)
           s11 == AssertionCases(e)
           boundary == {"boundary_battery"}
           parity == {"head_get_parity"}
           conditional == {"conditional_get_304"}
           cors == {"cors_preflight"}
           pages == {"pagination_boundary"}
           db == {"db_state_matches_expectation"}
           assertion == {"assertion"}
           K2 == UniversalKinds \union AuthKinds
           K3 == K2 \union BodyNegativeKinds
           K4 == K3 \union boundary
           K5 == K4 \union IdempotencyKinds
           K6 == K5 \union parity
           K7 == K6 \union conditional
           K8 == K7 \union cors
           K9 == K8 \union pages
           K10 == K9 \union db
           K11 == K10 \union assertion
<1>1. RawCases(e) = s1 \o s2 \o s3 \o s4 \o s5 \o s6 \o s7 \o s8 \o s9 \o s10 \o s11
  BY DEF RawCases
<1>2. Group(e, s1, UniversalKinds) /\ Group(e, s2, AuthKinds) /\ Group(e, s3, BodyNegativeKinds)
  BY UniversalGroup, AuthGroup, BodyGroup DEF UniversalKinds, AuthKinds, BodyNegativeKinds
<1>3. Group(e, s4, boundary) /\ \A c \in ToSet(s4) : Straddles(e, c)
  <2>1. ~BoundaryThrows(e) => /\ Group(e, BoundaryCases(e), boundary)
                              /\ \A c \in ToSet(BoundaryCases(e)) : Straddles(e, c)
    BY BoundaryGroup
  <2>2. Group(e, s4, boundary)
    BY <2>1, GroupWhen
  <2>3. ToSet(<< >>) = {}
    BY DEF ToSet
  <2> QED
    BY <2>1, <2>2, <2>3 DEF When
<1>4. Group(e, s5, IdempotencyKinds)
  BY IdempotencyGroup
<1>5. Group(e, s6, parity) /\ Group(e, s7, conditional)
  BY GroupOne, GroupWhen DEF HeadGetParityCases, ConditionalGetCases
<1>6. Group(e, s8, cors) /\ Group(e, s9, pages)
  BY CorsGroup, PaginationGroup
<1>7. Group(e, s10, db) /\ Group(e, s11, assertion)
  BY CountedGroups
<1>a. Disjoint(UniversalKinds, AuthKinds)
  BY DEF Disjoint, UniversalKinds, AuthKinds
<1>b. Disjoint(K2, BodyNegativeKinds)
  BY DEF Disjoint, UniversalKinds, AuthKinds, BodyNegativeKinds
<1>c. Disjoint(K3, boundary)
  BY DEF Disjoint, UniversalKinds, AuthKinds, BodyNegativeKinds
<1>d. Disjoint(K4, IdempotencyKinds)
  BY DEF Disjoint, UniversalKinds, AuthKinds, BodyNegativeKinds, IdempotencyKinds
<1>e. Disjoint(K5, parity)
  BY DEF Disjoint, UniversalKinds, AuthKinds, BodyNegativeKinds, IdempotencyKinds
<1>f. Disjoint(K6, conditional)
  BY DEF Disjoint, UniversalKinds, AuthKinds, BodyNegativeKinds, IdempotencyKinds
<1>g. Disjoint(K7, cors)
  BY DEF Disjoint, UniversalKinds, AuthKinds, BodyNegativeKinds, IdempotencyKinds
<1>h. Disjoint(K8, pages)
  BY DEF Disjoint, UniversalKinds, AuthKinds, BodyNegativeKinds, IdempotencyKinds
<1>i. Disjoint(K9, db)
  BY DEF Disjoint, UniversalKinds, AuthKinds, BodyNegativeKinds, IdempotencyKinds
<1>j. Disjoint(K10, assertion)
  BY DEF Disjoint, UniversalKinds, AuthKinds, BodyNegativeKinds, IdempotencyKinds
<1>9. "boundary_battery" \notin UniversalKinds \union AuthKinds \union BodyNegativeKinds
        \union IdempotencyKinds \union parity \union conditional \union cors \union pages
        \union db \union assertion
  BY DEF UniversalKinds, AuthKinds, BodyNegativeKinds, IdempotencyKinds
<1> HIDE DEF s1, s2, s3, s4, s5, s6, s7, s8, s9, s10, s11, K2, K3, K4, K5, K6, K7, K8, K9, K10, K11,
             boundary, parity, conditional, cors, pages, db, assertion
<1> DEFINE t2 == s1 \o s2
           t3 == t2 \o s3
           t4 == t3 \o s4
           t5 == t4 \o s5
           t6 == t5 \o s6
           t7 == t6 \o s7
           t8 == t7 \o s8
           t9 == t8 \o s9
           t10 == t9 \o s10
           t11 == t10 \o s11
<1> HIDE DEF t2, t3, t4, t5, t6, t7, t8, t9, t10, t11
<1>10. Group(e, t2, K2) /\ ToSet(t2) = Both(ToSet(s1), ToSet(s2))
  <2>1. t2 = s1 \o s2 /\ K2 = Both(UniversalKinds, AuthKinds)
    BY DEF t2, K2, Both
  <2> QED
    BY <1>2, <1>a, <2>1, GroupGrows
<1>11. Group(e, t3, K3) /\ ToSet(t3) = Both(ToSet(t2), ToSet(s3))
  <2>1. t3 = t2 \o s3 /\ K3 = Both(K2, BodyNegativeKinds)
    BY DEF t3, K3, Both
  <2> QED
    BY <1>2, <1>b, <1>10, <2>1, GroupGrows
<1>12. Group(e, t4, K4) /\ ToSet(t4) = Both(ToSet(t3), ToSet(s4))
  <2>1. t4 = t3 \o s4 /\ K4 = Both(K3, boundary)
    BY DEF t4, K4, Both
  <2> QED
    BY <1>3, <1>c, <1>11, <2>1, GroupGrows
<1>13. Group(e, t5, K5) /\ ToSet(t5) = Both(ToSet(t4), ToSet(s5))
  <2>1. t5 = t4 \o s5 /\ K5 = Both(K4, IdempotencyKinds)
    BY DEF t5, K5, Both
  <2> QED
    BY <1>4, <1>d, <1>12, <2>1, GroupGrows
<1>14. Group(e, t6, K6) /\ ToSet(t6) = Both(ToSet(t5), ToSet(s6))
  <2>1. t6 = t5 \o s6 /\ K6 = Both(K5, parity)
    BY DEF t6, K6, Both
  <2> QED
    BY <1>5, <1>e, <1>13, <2>1, GroupGrows
<1>15. Group(e, t7, K7) /\ ToSet(t7) = Both(ToSet(t6), ToSet(s7))
  <2>1. t7 = t6 \o s7 /\ K7 = Both(K6, conditional)
    BY DEF t7, K7, Both
  <2> QED
    BY <1>5, <1>f, <1>14, <2>1, GroupGrows
<1>16. Group(e, t8, K8) /\ ToSet(t8) = Both(ToSet(t7), ToSet(s8))
  <2>1. t8 = t7 \o s8 /\ K8 = Both(K7, cors)
    BY DEF t8, K8, Both
  <2> QED
    BY <1>6, <1>g, <1>15, <2>1, GroupGrows
<1>17. Group(e, t9, K9) /\ ToSet(t9) = Both(ToSet(t8), ToSet(s9))
  <2>1. t9 = t8 \o s9 /\ K9 = Both(K8, pages)
    BY DEF t9, K9, Both
  <2> QED
    BY <1>6, <1>h, <1>16, <2>1, GroupGrows
<1>18. Group(e, t10, K10) /\ ToSet(t10) = Both(ToSet(t9), ToSet(s10))
  <2>1. t10 = t9 \o s10 /\ K10 = Both(K9, db)
    BY DEF t10, K10, Both
  <2> QED
    BY <1>7, <1>i, <1>17, <2>1, GroupGrows
<1>19. Group(e, t11, K11) /\ ToSet(t11) = Both(ToSet(t10), ToSet(s11))
  <2>1. t11 = t10 \o s11 /\ K11 = Both(K10, assertion)
    BY DEF t11, K11, Both
  <2> QED
    BY <1>7, <1>j, <1>18, <2>1, GroupGrows
<1>20. RawCases(e) = t11
  BY <1>1 DEF t2, t3, t4, t5, t6, t7, t8, t9, t10, t11
<1>21. ASSUME NEW c \in ToSet(t11), c.kind = "boundary_battery"
        PROVE  c \in ToSet(s4)
  <2>1. c \notin ToSet(s1) /\ c \notin ToSet(s2) /\ c \notin ToSet(s3)
    BY <1>2, <1>9, <1>21 DEF Group
  <2>2. c \notin ToSet(s5) /\ c \notin ToSet(s6) /\ c \notin ToSet(s7)
    BY <1>4, <1>5, <1>9, <1>21 DEF Group
  <2>3. c \notin ToSet(s8) /\ c \notin ToSet(s9) /\ c \notin ToSet(s10) /\ c \notin ToSet(s11)
    BY <1>6, <1>7, <1>9, <1>21 DEF Group
  <2>4. c \in ToSet(t5)
    BY <1>14, <1>15, <1>16, <1>17, <1>18, <1>19, <2>2, <2>3 DEF Both
  <2> QED
    BY <1>10, <1>11, <1>12, <1>13, <2>1, <2>2, <2>4 DEF Both
<1>22. K11 \subseteq Kinds
  BY KindsListed DEF Both, K2, K3, K4, K5, K6, K7, K8, K9, K10, K11, boundary, parity,
     conditional, cors, pages, db, assertion
<1>23. \A c \in ToSet(t11) :
         c \in UNION {ToSet(s) : s \in {s1, s2, s3, s4, s5, s6, s7, s8, s9, s10, s11}}
  BY <1>10, <1>11, <1>12, <1>13, <1>14, <1>15, <1>16, <1>17, <1>18, <1>19 DEF Both
<1> QED
  BY <1>3, <1>19, <1>20, <1>21, <1>22, <1>23
     DEF s1, s2, s3, s4, s5, s6, s7, s8, s9, s10, s11
-----------------------------------------------------------------------------
\* What a raw case of an endpoint says of it.
RawCase(e, c) ==
  /\ c.endpoint = e.id /\ c.kind \in Kinds /\ c.ordinal \in Nat
  /\ c.kind \in AuthKinds => e.auth_strategy # "none"
  /\ c.kind \in {"required_field_omission_returns_400", "type_violation_returns_400"} =>
       AboutField(e, c)
  /\ c.kind = "boundary_battery" => Straddles(e, c)
  /\ c.kind = "get_idempotency" => e.method = "GET"
  /\ c.kind = "delete_idempotency" => e.method = "DELETE"
  /\ c.kind = "put_idempotency" => e.method = "PUT"
  /\ c.kind = "head_get_parity" => e.method = "HEAD"
  /\ c.kind = "conditional_get_304" => e.method = "GET" /\ e.etag_supported
  /\ c.kind = "cors_preflight" => e.method = "OPTIONS" /\ e.cors.declared /\ ~CorsDropped(e)
  /\ c.kind = "pagination_boundary" =>
       /\ e.method = "GET"
       /\ c.what \in {<<"size_zero">>, <<"size_max">>, <<"size_max_plus_one">>, <<"page_negative">>}
  /\ c.kind = "db_state_matches_expectation" => e.db_verify # 0
  /\ c.kind = "assertion" => e.assertions # << >>

\* A conditional group has members only on its condition.
LEMMA WhenHas ==
  ASSUME NEW b, NEW s, NEW c \in ToSet(When(b, s))
  PROVE  b /\ c \in ToSet(s)
BY DEF When, ToSet

LEMMA OneHas ==
  ASSUME NEW e, NEW kind, NEW c \in ToSet(One(e, kind))
  PROVE  c.kind = kind
BY GroupOne DEF Group

LEMMA ProbeIs ==
  ASSUME NEW pagination, NEW p \in ToSet(Probes(pagination))
  PROVE  p \in {"size_zero", "size_max", "size_max_plus_one", "page_negative"}
<1> DEFINE three == <<"size_zero", "size_max", "size_max_plus_one">>
           page == When(pagination.page_param, <<"page_negative">>)
<1>1. IsSeq(three) /\ ToSet(three) = {"size_zero", "size_max", "size_max_plus_one"}
  BY DEF IsSeq, ToSet
<1>2. IsSeq(page) /\ ToSet(page) \subseteq {"page_negative"}
  <2>1. IsSeq(<<"page_negative">>) /\ ToSet(<<"page_negative">>) = {"page_negative"}
    BY DEF IsSeq, ToSet
  <2>2. IsSeq(<< >>) /\ ToSet(<< >>) = {}
    BY DEF IsSeq, ToSet
  <2> QED
    BY <2>1, <2>2 DEF When
<1> HIDE DEF three, page
<1>3. ToSet(three \o page) = ToSet(three) \union ToSet(page)
  BY <1>1, <1>2, Concatenation
<1>4. ToSet(<<"size_zero", "size_max">>) = {"size_zero", "size_max"}
  BY DEF ToSet
<1>5. Probes(pagination) \in {<<"size_zero", "size_max">>, three, three \o page}
  <2>1. CASE pagination.style = "cursor"
    BY <2>1 DEF Probes
  <2>2. CASE pagination.style = "offset"
    BY <2>2 DEF Probes, three
  <2>3. CASE pagination.style \notin {"cursor", "offset"}
    BY <2>3 DEF Probes, three, page
  <2> QED
    BY <2>1, <2>2, <2>3
<1> QED
  BY <1>1, <1>2, <1>3, <1>4, <1>5

LEMMA RawCaseIs ==
  ASSUME NEW e, EndpointOK(e), NEW c \in ToSet(RawCases(e))
  PROVE  RawCase(e, c)
<1>1. c.endpoint = e.id /\ c.kind \in Kinds /\ c.ordinal \in Nat
  BY RawGroup DEF Group, CaseOK
<1>2. c.kind = "boundary_battery" => Straddles(e, c)
  BY RawGroup
<1>3. c \in UNION { ToSet(s) : s \in
              {UniversalCases(e), AuthNegativeCases(e), BodyNegativeCases(e),
               When(HasSchema(e) /\ ~BoundaryThrows(e), BoundaryCases(e)),
               IdempotencyCases(e), HeadGetParityCases(e), ConditionalGetCases(e),
               CorsPreflightCases(e), PaginationCases(e), DbVerifyCases(e),
               AssertionCases(e)} }
  BY RawGroup
<1>4. CASE c \in ToSet(UniversalCases(e))
  <2>1. c.kind \in UniversalKinds
    BY <1>4, UniversalGroup DEF Group, UniversalKinds
  <2> QED
    BY <1>1, <2>1 DEF RawCase, UniversalKinds, AuthKinds
<1>5. CASE c \in ToSet(AuthNegativeCases(e))
  <2>1. c.kind \in AuthKinds
    BY <1>5, AuthGroup DEF Group, AuthKinds
  <2>2. e.auth_strategy # "none"
    BY <1>5, WhenHas DEF AuthNegativeCases
  <2> QED
    BY <1>1, <2>1, <2>2 DEF RawCase, AuthKinds
<1>6. CASE c \in ToSet(BodyNegativeCases(e))
  <2>1. c.kind \in BodyNegativeKinds /\ (c.kind # "malformed_json_returns_400" => AboutField(e, c))
    BY <1>6, BodyGroup DEF Group, BodyNegativeKinds
  <2> QED
    BY <1>1, <2>1 DEF RawCase, AuthKinds, BodyNegativeKinds
<1>7. CASE c \in ToSet(When(HasSchema(e) /\ ~BoundaryThrows(e), BoundaryCases(e)))
  <2>1. c.kind = "boundary_battery"
    BY <1>7, WhenHas, BoundaryGroup DEF Group
  <2> QED
    BY <1>1, <1>2, <2>1 DEF RawCase, AuthKinds
<1>8. CASE c \in ToSet(IdempotencyCases(e))
  <2>1. c.kind \in IdempotencyKinds
    BY <1>8, IdempotencyGroup DEF Group
  <2>2. \/ e.method = "GET" /\ IdempotencyCases(e) = One(e, "get_idempotency")
        \/ e.method = "DELETE" /\ IdempotencyCases(e) = One(e, "delete_idempotency")
        \/ e.method = "PUT" /\ IdempotencyCases(e) = One(e, "put_idempotency")
        \/ IdempotencyCases(e) = << >>
    BY DEF IdempotencyCases
  <2>3. ToSet(<< >>) = {}
    BY DEF ToSet
  <2>4. \/ e.method = "GET" /\ c.kind = "get_idempotency"
        \/ e.method = "DELETE" /\ c.kind = "delete_idempotency"
        \/ e.method = "PUT" /\ c.kind = "put_idempotency"
    BY <1>8, <2>2, <2>3, OneHas
  <2> QED
    BY <1>1, <2>4 DEF RawCase, AuthKinds
<1>9. CASE c \in ToSet(HeadGetParityCases(e))
  <2>1. c.kind = "head_get_parity" /\ e.method = "HEAD"
    BY <1>9, WhenHas, OneHas DEF HeadGetParityCases
  <2> QED
    BY <1>1, <2>1 DEF RawCase, AuthKinds
<1>10. CASE c \in ToSet(ConditionalGetCases(e))
  <2>1. c.kind = "conditional_get_304" /\ e.method = "GET" /\ e.etag_supported
    BY <1>10, WhenHas, OneHas DEF ConditionalGetCases
  <2> QED
    BY <1>1, <2>1 DEF RawCase, AuthKinds
<1>11. CASE c \in ToSet(CorsPreflightCases(e))
  <2>1. c.kind = "cors_preflight"
    BY <1>11, CorsGroup DEF Group
  <2>2. e.method = "OPTIONS" /\ e.cors.declared /\ ~CorsDropped(e)
    BY <1>11, WhenHas DEF CorsPreflightCases
  <2> QED
    BY <1>1, <2>1, <2>2 DEF RawCase, AuthKinds
<1>12. CASE c \in ToSet(PaginationCases(e))
  <2>1. c.kind = "pagination_boundary"
    BY <1>12, PaginationGroup DEF Group
  <2> DEFINE probes == Probes(e.pagination)
             s == [i \in DOMAIN probes |-> CaseOf(e, "pagination_boundary", i - 1, <<probes[i]>>)]
  <2>2. Paginated(e) /\ PaginationCases(e) = s
    <3>1. ToSet(<< >>) = {}
      BY DEF ToSet
    <3> QED
      BY <1>12, <3>1 DEF PaginationCases
  <2>3. \E i \in DOMAIN probes : c = CaseOf(e, "pagination_boundary", i - 1, <<probes[i]>>)
    BY <1>12, <2>2 DEF ToSet
  <2>4. PICK i \in DOMAIN probes : c = CaseOf(e, "pagination_boundary", i - 1, <<probes[i]>>)
    BY <2>3
  <2>5. c.what = <<probes[i]>> /\ probes[i] \in ToSet(probes)
    BY <2>4 DEF CaseOf, ToSet
  <2>6. probes[i] \in {"size_zero", "size_max", "size_max_plus_one", "page_negative"}
    BY <2>5, ProbeIs
  <2>7. e.method = "GET"
    BY <2>2 DEF Paginated
  <2> QED
    BY <1>1, <2>1, <2>5, <2>6, <2>7 DEF RawCase, AuthKinds
<1>13. CASE c \in ToSet(DbVerifyCases(e))
  <2>1. c.kind = "db_state_matches_expectation"
    BY <1>13, CountedGroups DEF Group
  <2>2. e.db_verify # 0
    <3>1. DOMAIN DbVerifyCases(e) # {}
      BY <1>13 DEF ToSet
    <3> QED
      BY <3>1 DEF DbVerifyCases
  <2> QED
    BY <1>1, <2>1, <2>2 DEF RawCase, AuthKinds
<1>14. CASE c \in ToSet(AssertionCases(e))
  <2>1. c.kind = "assertion"
    BY <1>14, CountedGroups DEF Group
  <2>2. e.assertions # << >>
    <3>1. DOMAIN AssertionCases(e) # {} /\ DOMAIN AssertionCases(e) = DOMAIN e.assertions
      BY <1>14 DEF ToSet, AssertionCases
    <3> QED
      BY <3>1
  <2> QED
    BY <1>1, <2>1, <2>2 DEF RawCase, AuthKinds
<1> QED
  BY <1>3, <1>4, <1>5, <1>6, <1>7, <1>8, <1>9, <1>10, <1>11, <1>12, <1>13, <1>14

\* Kinds have places of their own in the order, and ordinals have places.
LEMMA KindKeyIs ==
  ASSUME NEW kind \in Kinds, NEW other \in Kinds
  PROVE  KindKey(kind) \in Int /\ (KindKey(kind) = KindKey(other) => kind = other)
<1>1. ASSUME NEW k \in Kinds PROVE KindKey(k) \in Int /\ KindOrder[KindKey(k)] = k
  <2>1. \E i \in DOMAIN KindOrder : KindOrder[i] = k
    BY DEF Kinds, ToSet
  <2>2. KindKey(k) \in DOMAIN KindOrder /\ KindOrder[KindKey(k)] = k
    BY <2>1 DEF KindKey
  <2>3. DOMAIN KindOrder \subseteq Int
    BY DEF KindOrder
  <2> QED
    BY <2>2, <2>3
<1> QED
  BY <1>1

LEMMA OrdinalKeyIs ==
  ASSUME NEW n \in Nat
  PROVE  OrdinalKey(n) \in Int
BY DEF OrdinalKey

-----------------------------------------------------------------------------
(* The shards of --shard=1/t .. t/t partition the plan, for every length   *)
(* and every number of shards.  All of it rests on one fact: end(i) >= k   *)
(* iff i * n >= k * total, so that position k is in the shard i that has   *)
(* (i - 1) * n < k * total <= i * n, and only there.                       *)

\* Division rounds down.
LEMMA DivBounds ==
  ASSUME NEW a \in Nat, NEW t \in Nat \ {0}
  PROVE  /\ (a \div t) \in Nat
         /\ t * (a \div t) <= a
         /\ a < t * (a \div t) + t
  BY SMT

\* Multiplication by a natural number is monotone.
LEMMA TimesMonotone ==
  ASSUME NEW t \in Nat, NEW x \in Int, NEW y \in Int, x <= y
  PROVE  t * x <= t * y
  BY SMT

\* Products of naturals are naturals.
LEMMA TimesNat ==
  ASSUME NEW x \in Nat, NEW y \in Nat
  PROVE  x * y \in Nat /\ x * y = y * x
  BY SMT

\* A quotient reaches k iff the dividend reaches k * t.
LEMMA DivReaches ==
  ASSUME NEW a \in Nat, NEW t \in Nat \ {0}, NEW k \in Nat
  PROVE  a \div t >= k <=> a >= t * k
<1> DEFINE q == a \div t
<1>1. q \in Nat /\ t * q <= a /\ a < t * q + t
  BY DivBounds
<1>2. t * q \in Nat /\ t * k \in Nat
  BY <1>1, TimesNat
<1>3. CASE q >= k
  <2>1. t * k <= t * q
    BY <1>1, <1>3, TimesMonotone
  <2> QED BY <2>1, <1>1, <1>2, <1>3
<1>4. CASE q < k
  <2>1. t * (q + 1) <= t * k
    BY <1>1, <1>4, TimesMonotone
  <2>2. t * (q + 1) = t * q + t
    BY <1>1
  <2> HIDE DEF q
  <2> QED BY <2>1, <2>2, <1>1, <1>2, <1>4
<1> QED BY <1>1, <1>3, <1>4

\* Where a position stands in terms of products alone.
LEMMA InShard ==
  ASSUME NEW n \in Nat, NEW total \in Nat \ {0}, NEW i \in 1 .. total,
         NEW k \in Nat
  PROVE  k \in Shard(n, i, total) <=>
           (i - 1) * n < total * k /\ total * k <= i * n
<1>1. i * n \in Nat /\ (i - 1) * n \in Nat /\ total * k \in Nat
  BY TimesNat
<1>2. ShardEnd(n, i, total) >= k <=> i * n >= total * k
  BY <1>1, DivReaches DEF ShardEnd
<1>3. ShardStart(n, i, total) >= k <=> (i - 1) * n >= total * k
  BY <1>1, DivReaches DEF ShardStart
<1>4. ShardStart(n, i, total) \in Nat /\ ShardEnd(n, i, total) \in Nat
  BY <1>1, DivBounds DEF ShardStart, ShardEnd
<1> QED BY <1>1, <1>2, <1>3, <1>4 DEF Shard

\* Each position is in a shard: the one numbered k * total / n, rounded up.
LEMMA ShardExists ==
  ASSUME NEW n \in Nat, NEW total \in Nat \ {0}, NEW k \in 1 .. n
  PROVE  \E i \in 1 .. total : k \in Shard(n, i, total)
<1> DEFINE a == total * k - 1
           p == a \div n
           i == p + 1
<1>1. n \in Nat \ {0} /\ k \in Nat /\ total * k \in Nat
  BY TimesNat
<1>2. total * 1 <= total * k
  BY TimesMonotone
<1>3. a \in Nat
  BY <1>1, <1>2
<1>4. p \in Nat /\ n * p <= a /\ a < n * p + n
  BY <1>1, <1>3, DivBounds
<1>5. n * p \in Nat
  BY <1>4, TimesNat
<1>6. p < total
  <2>1. SUFFICES ASSUME total <= p PROVE FALSE
    BY <1>4
  <2>2. n * total <= n * p
    BY <2>1, <1>4, TimesMonotone
  <2>3. total * k <= total * n
    BY TimesMonotone
  <2>4. total * n = n * total /\ n * total \in Nat
    BY TimesNat
  <2> HIDE DEF p
  <2> QED BY <1>1, <1>4, <1>5, <2>2, <2>3, <2>4
<1>7. (i - 1) * n < total * k /\ total * k <= i * n
  <2>1. i - 1 = p /\ p * n = n * p
    BY <1>4, TimesNat
  <2>2. i * n = n * p + n
    BY <1>1, <1>4
  <2> HIDE DEF p, i
  <2> QED BY <1>1, <1>4, <1>5, <2>1, <2>2
<1>8. i \in 1 .. total
  BY <1>4, <1>6
<1> HIDE DEF i
<1>9. k \in Shard(n, i, total)
  BY <1>1, <1>7, <1>8, InShard
<1> QED BY <1>8, <1>9

\* No position is in two shards.
LEMMA ShardUnique ==
  ASSUME NEW n \in Nat, NEW total \in Nat \ {0}, NEW k \in 1 .. n,
         NEW i \in 1 .. total, NEW j \in 1 .. total,
         k \in Shard(n, i, total), k \in Shard(n, j, total)
  PROVE  j = i
<1>1. /\ (i - 1) * n < total * k /\ total * k <= i * n
      /\ (j - 1) * n < total * k /\ total * k <= j * n
  BY InShard
<1>2. /\ i * n = n * i /\ j * n = n * j
      /\ (i - 1) * n = n * (i - 1) /\ (j - 1) * n = n * (j - 1)
  BY TimesNat
<1>3. /\ i * n \in Nat /\ j * n \in Nat /\ total * k \in Nat
      /\ (i - 1) * n \in Nat /\ (j - 1) * n \in Nat
  BY TimesNat
<1>4. CASE i < j
  <2>1. n * i <= n * (j - 1)
    BY <1>4, TimesMonotone
  <2> QED BY <1>1, <1>2, <1>3, <2>1
<1>5. CASE j < i
  <2>1. n * j <= n * (i - 1)
    BY <1>5, TimesMonotone
  <2> QED BY <1>1, <1>2, <1>3, <2>1
<1> QED BY <1>4, <1>5

\* A shard is a slice of the plan, and its size n / total up to rounding.
LEMMA ShardBalanced ==
  ASSUME NEW n \in Nat, NEW total \in Nat \ {0}, NEW i \in 1 .. total
  PROVE  LET s == ShardStart(n, i, total)
             e == ShardEnd(n, i, total)
         IN  s >= 0 /\ e \in s .. n
               /\ (e - s) * total \in (n - total + 1) .. (n + total - 1)
<1> DEFINE s == ShardStart(n, i, total)
           e == ShardEnd(n, i, total)
           a == i * n
           b == (i - 1) * n
<1>1. a \in Nat /\ b \in Nat /\ a = b + n
  <2>1. a \in Nat /\ b \in Nat
    BY TimesNat
  <2>2. a = b + n
    BY SMT
  <2> QED BY <2>1, <2>2
<1> HIDE DEF a, b
<1>2. s \in Nat /\ total * s <= b /\ b < total * s + total
  BY <1>1, DivBounds DEF b, ShardStart
<1>3. e \in Nat /\ total * e <= a /\ a < total * e + total
  BY <1>1, DivBounds DEF a, ShardEnd
<1>4. s <= e
  <2>1. total * s \in Nat /\ a >= total * s
    BY <1>1, <1>2, TimesNat
  <2>2. a \div total >= s
    <3> HIDE DEF s
    <3> QED BY <1>1, <1>2, <2>1, DivReaches
  <2> QED BY <2>2 DEF a, ShardEnd
<1>5. e <= n
  <2>1. SUFFICES ASSUME n + 1 <= e PROVE FALSE
    BY <1>3
  <2>2. total * (n + 1) <= total * e
    BY <2>1, <1>3, TimesMonotone
  <2>3. n * i <= n * total
    BY TimesMonotone
  <2>4. total * (n + 1) = n * total + total /\ n * i = a /\ n * total \in Nat
    BY TimesNat DEF a
  <2> HIDE DEF e
  <2> QED BY <1>1, <1>3, <2>2, <2>3, <2>4
<1>6. (e - s) * total = total * e - total * s
  BY <1>2, <1>3
<1>7. total * e \in Nat /\ total * s \in Nat
  BY <1>2, <1>3, TimesNat
<1> HIDE DEF s, e
<1>8. (e - s) * total \in (n - total + 1) .. (n + total - 1)
  BY <1>1, <1>2, <1>3, <1>6, <1>7
<1> QED BY <1>2, <1>3, <1>4, <1>5, <1>8 DEF s, e

\* The runs of a CI matrix, one per index, together execute every case of the
\* plan once, whatever its length and the number of jobs (sharder.ts:35-46).
THEOREM ShardsPartition ==
  ASSUME NEW n \in Nat, NEW total \in Nat \ {0}
  PROVE  Partitioned(n, total)
<1>1. ASSUME NEW k \in 1 .. n
      PROVE  \E i \in 1 .. total :
               k \in Shard(n, i, total)
                 /\ \A j \in 1 .. total : k \in Shard(n, j, total) => j = i
  <2>1. PICK i \in 1 .. total : k \in Shard(n, i, total)
    BY ShardExists
  <2>2. \A j \in 1 .. total : k \in Shard(n, j, total) => j = i
    BY <2>1, ShardUnique
  <2> QED BY <2>1, <2>2
<1>2. ASSUME NEW i \in 1 .. total
      PROVE  /\ ShardStart(n, i, total) >= 0
             /\ ShardEnd(n, i, total) \in ShardStart(n, i, total) .. n
             /\ (ShardEnd(n, i, total) - ShardStart(n, i, total)) * total
                  \in (n - total + 1) .. (n + total - 1)
  BY ShardBalanced
<1> QED BY <1>1, <1>2 DEF Partitioned

-----------------------------------------------------------------------------
(* The invariants of the run command.                                      *)

\* The phases behind the gate, before and after the endpoints are executed.
Idle == {"running", "discovered", "loaded", "parsed", "planned", "selected", "open"}
Busy == {"executed", "reporting"}

Permitted ==
  world.env.prod /\ NonSmoke(world) =>
    \/ confirmed
    \/ world.host.ci /\ world.flags.allow /\ world.host.variable = "true"

NoLinks == \A f \in ToSet(Files(world)) : ~f.link

\* Execution is what separates the phases: before it nothing is sent and nothing
\* written, and the reports start empty behind it.
Progress ==
  /\ phase \notin Busy \union {"exited"} => ~ran /\ reports = {}
  /\ phase \in Busy => ran
  /\ phase = "executed" => reports = {}

\* The permission is held from the gate on, not only where it is used.
Guarded == (phase \in Idle \union Busy \/ ran) => Permitted

\* ParseAllAssertions can blame only a file that was read.
FromFiles == endpoints \subseteq ToSet(Files(world))

IInv ==
  /\ TypeOK
  /\ Progress
  /\ Guarded
  /\ FromFiles
  /\ ExitCodeTruthful
  /\ ValidateAgrees
-----------------------------------------------------------------------------
(* One file that does not pass is enough for validate to answer 3.         *)
LEMMA OneBadFile ==
  ASSUME NoLinks,
         NEW f \in ToSet(Files(world)), ~FilePasses(f, world)
  PROVE  ValidateExit(world) = 3
<1> DEFINE seen == {g \in ToSet(Files(world)) : ~g.link}
<1>1. f \in seen
  BY DEF NoLinks
<1>2. seen # {}
  BY <1>1
<1>3. ~(\A g \in seen : FilePasses(g, world))
  BY <1>1
<1>4. ValidateExit(world) = IF seen = {} THEN 2
                            ELSE IF world.env.valid /\ \A g \in seen : FilePasses(g, world)
                                 THEN 0 ELSE 3
  BY DEF ValidateExit
<1> HIDE DEF seen
<1> QED
  BY <1>2, <1>3, <1>4

\* What is loaded was read.
LEMMA LoadedAreFiles ==
  ASSUME NEW files
  PROVE  Loaded(files) \subseteq ToSet(files)
BY DEF Loaded, ToSet

\* The invariant of an action that leaves the outcome of the run alone: each of
\* them ends the process or goes on to another phase before the execution.
LEMMA QuietStep ==
  ASSUME IInv,
         phase \notin Busy \union {"exited"},
         NEW next \in Phases \ (Busy \union {"exited"}), NEW code \in Codes,
         code \notin {1},
         Go(next) \/ Exit(code),
         UNCHANGED <<world, run, reports>>,
         confirmed' \in BOOLEAN,
         phase' \in Idle => Permitted',
         FromFiles',
         exit' = 3 => ValidateAgrees'
  PROVE  IInv'
<1>1. ~ran /\ reports = {} /\ phase \in Phases /\ exit = NoExit
  BY DEF IInv, TypeOK, Progress, Phases, Busy
<1>2. ~ran' /\ reports' = {} /\ world' = world
  BY <1>1 DEF run
<1>3. \/ phase' = next /\ exit' = NoExit
      \/ phase' = "exited" /\ exit' = code
  BY <1>1 DEF Go, Exit
<1>4. TypeOK'
  <2>1. ran' \in BOOLEAN
    BY <1>1 DEF run, IInv, TypeOK
  <2>2. phase' \in Phases /\ exit' \in Codes \union {NoExit}
    BY <1>3 DEF Phases
  <2>3. (phase' = "exited") <=> (exit' # NoExit)
    BY <1>3, NoExitAssumption DEF Codes
  <2> QED
    BY <1>2, <2>1, <2>2, <2>3 DEF TypeOK
<1>5. Progress'
  BY <1>2, <1>3 DEF Progress, Busy
<1>6. Guarded'
  BY <1>2, <1>3 DEF Guarded, Busy, Idle
<1>7. ExitCodeTruthful'
  BY <1>2, <1>3, NoExitAssumption DEF ExitCodeTruthful, Codes
<1>8. ValidateAgrees'
  BY DEF ValidateAgrees
<1> QED
  BY <1>4, <1>5, <1>6, <1>7, <1>8 DEF IInv

\* Behind the gate the permission stays: neither the invocation nor the answer
\* changes.
LEMMA PermissionKept ==
  ASSUME IInv, phase \in Idle, UNCHANGED <<world, confirmed>>
  PROVE  Permitted'
<1>1. Permitted
  BY DEF IInv, Guarded
<1> QED
  BY <1>1 DEF Permitted, NonSmoke, MarkersOf
-----------------------------------------------------------------------------
(* The invariant is inductive.                                             *)
LEMMA InitIInv == Init => IInv
<1> SUFFICES ASSUME Init PROVE IInv
  OBVIOUS
<1>1. TypeOK
  BY NoExitAssumption DEF Init, TypeOK, Phases, Codes
<1>2. Progress /\ Guarded /\ FromFiles
  BY DEF Init, Progress, Guarded, FromFiles, Busy, Idle
<1>3. ExitCodeTruthful /\ ValidateAgrees
  BY NoExitAssumption DEF Init, ExitCodeTruthful, ValidateAgrees
<1> QED
  BY <1>1, <1>2, <1>3 DEF IInv

LEMMA NextIInv == IInv /\ [Next]_vars => IInv'
<1> SUFFICES ASSUME IInv, [Next]_vars PROVE IInv'
  OBVIOUS
<1> USE DEF Phases, Codes
<1>1. CASE LoadConfig
  <2>1. phase = "start" /\ (Go("configured") \/ Exit(2)) /\ UNCHANGED <<world, run, reports>>
        /\ confirmed' = confirmed /\ endpoints' = endpoints
    BY <1>1 DEF LoadConfig
  <2>2. FromFiles' /\ confirmed' \in BOOLEAN
    BY <2>1 DEF IInv, TypeOK, FromFiles, Files
  <2>3. phase' \notin Idle /\ exit' # 3
    BY <2>1, NoExitAssumption DEF Go, Exit, Idle, IInv, TypeOK
  <2> QED
    BY <2>1, <2>2, <2>3, QuietStep DEF Busy
<1>2. CASE Resolve
  <2>1. phase = "configured" /\ (Go("resolved") \/ Exit(2)) /\ UNCHANGED <<world, run, reports>>
        /\ confirmed' = confirmed /\ endpoints' = endpoints
    BY <1>2 DEF Resolve
  <2>2. FromFiles' /\ confirmed' \in BOOLEAN
    BY <2>1 DEF IInv, TypeOK, FromFiles, Files
  <2>3. phase' \notin Idle /\ exit' # 3
    BY <2>1, NoExitAssumption DEF Go, Exit, Idle, IInv, TypeOK
  <2> QED
    BY <2>1, <2>2, <2>3, QuietStep DEF Busy
<1>3. CASE LoadEnvironment
  <2>1. phase = "resolved" /\ (Go("gated") \/ Exit(2)) /\ UNCHANGED <<world, run, reports>>
        /\ confirmed' = confirmed /\ endpoints' = endpoints
    BY <1>3 DEF LoadEnvironment
  <2>2. FromFiles' /\ confirmed' \in BOOLEAN
    BY <2>1 DEF IInv, TypeOK, FromFiles, Files
  <2>3. phase' \notin Idle /\ exit' # 3
    BY <2>1, NoExitAssumption DEF Go, Exit, Idle, IInv, TypeOK
  <2> QED
    BY <2>1, <2>2, <2>3, QuietStep DEF Busy
<1>4. CASE Gate
  <2>1. phase = "gated" /\ UNCHANGED <<world, run, reports>>
        /\ confirmed' = confirmed /\ endpoints' = endpoints
    BY <1>4 DEF Gate
  <2>2. FromFiles' /\ confirmed' \in BOOLEAN
    BY <2>1 DEF IInv, TypeOK, FromFiles, Files
  <2>3. exit = NoExit
    BY <2>1 DEF IInv, TypeOK
  <2>4. CASE ~(world.env.prod /\ NonSmoke(world))
    <3>1. Go("running") /\ Permitted'
      BY <1>4, <2>1, <2>4 DEF Gate, Permitted, NonSmoke, MarkersOf
    <3>2. exit' # 3
      BY <2>3, <3>1, NoExitAssumption DEF Go
    <3> QED
      BY <2>1, <2>2, <3>1, <3>2, QuietStep DEF Busy
  <2>5. CASE world.env.prod /\ NonSmoke(world) /\ ~world.host.ci
    <3>1. Go("asking") /\ phase' \notin Idle
      BY <1>4, <2>5 DEF Gate, Go, Idle
    <3>2. exit' # 3
      BY <2>3, <3>1, NoExitAssumption DEF Go
    <3> QED
      BY <2>1, <2>2, <3>1, <3>2, QuietStep DEF Busy
  <2>6. CASE world.env.prod /\ NonSmoke(world) /\ world.host.ci /\ CiAllows(world)
    <3>1. Go("running") /\ Permitted'
      BY <1>4, <2>1, <2>6 DEF Gate, Permitted, NonSmoke, MarkersOf, CiAllows
    <3>2. exit' # 3
      BY <2>3, <3>1, NoExitAssumption DEF Go
    <3> QED
      BY <2>1, <2>2, <3>1, <3>2, QuietStep DEF Busy
  <2>7. CASE world.env.prod /\ NonSmoke(world) /\ world.host.ci /\ ~CiAllows(world)
    <3>1. Exit(4) /\ phase' \notin Idle /\ exit' # 3
      BY <1>4, <2>7 DEF Gate, Exit, Idle
    <3> QED
      BY <2>1, <2>2, <3>1, QuietStep DEF Busy
  <2> QED
    BY <2>4, <2>5, <2>6, <2>7
<1>5. CASE Answer
  <2>1. phase = "asking" /\ (Go("running") \/ Exit(4)) /\ UNCHANGED <<world, run, reports>>
        /\ confirmed' \in BOOLEAN /\ endpoints' = endpoints
    BY <1>5 DEF Answer
  <2>2. FromFiles'
    BY <2>1 DEF IInv, FromFiles, Files
  <2>3. exit' # 3
    BY <2>1, NoExitAssumption DEF Go, Exit, IInv, TypeOK
  <2>4. phase' \in Idle => confirmed'
    BY <1>5 DEF Answer, Go, Exit, Idle
  <2>5. phase' \in Idle => Permitted'
    BY <2>4 DEF Permitted
  <2> QED
    BY <2>1, <2>2, <2>3, <2>5, QuietStep DEF Busy
<1>6. CASE StdinCloses
  <2>1. phase = "asking" /\ Exit(0) /\ UNCHANGED <<world, run, reports>>
        /\ confirmed' = confirmed /\ endpoints' = endpoints
    BY <1>6 DEF StdinCloses
  <2>2. FromFiles' /\ confirmed' \in BOOLEAN
    BY <2>1 DEF IInv, TypeOK, FromFiles, Files
  <2>3. phase' \notin Idle /\ exit' # 3
    BY <2>1 DEF Exit, Idle
  <2> QED
    BY <2>1, <2>2, <2>3, QuietStep DEF Busy
<1>7. CASE Discover
  <2>1. phase = "running" /\ (Exit(70) \/ Exit(2) \/ Go("discovered"))
        /\ UNCHANGED <<world, run, reports, confirmed, endpoints>>
    BY <1>7 DEF Discover
  <2>2. FromFiles' /\ confirmed' \in BOOLEAN /\ Permitted'
    BY <2>1, PermissionKept DEF IInv, TypeOK, FromFiles, Files, Idle
  <2>3. exit' # 3
    BY <2>1, NoExitAssumption DEF Go, Exit, IInv, TypeOK
  <2> QED
    BY <2>1, <2>2, <2>3, QuietStep DEF Busy
<1>8. CASE LoadPlan
  <2>1. phase = "discovered" /\ (Exit(3) \/ Go("loaded"))
        /\ UNCHANGED <<world, run, reports, confirmed>>
    BY <1>8 DEF LoadPlan
  <2>2. confirmed' \in BOOLEAN /\ Permitted'
    BY <2>1, PermissionKept DEF IInv, TypeOK, Idle
  <2>3. FromFiles'
    <3>1. endpoints' = endpoints \/ endpoints' = Loaded(Files(world))
      BY <1>8 DEF LoadPlan
    <3>2. endpoints' \subseteq ToSet(Files(world))
      BY <3>1, LoadedAreFiles DEF IInv, FromFiles
    <3> QED
      BY <2>1, <3>2 DEF FromFiles, Files
  <2>4. ASSUME exit' = 3 PROVE ValidateAgrees'
    <3>1. ~(\A i \in DOMAIN Files(world) : Files(world)[i].state = "ok")
      BY <1>8, <2>1, <2>4, NoExitAssumption DEF LoadPlan, Readable, Go, IInv, TypeOK
    <3>2. PICK f \in ToSet(Files(world)) : f.state # "ok"
      BY <3>1 DEF ToSet
    <3>3. ~FilePasses(f, world)
      BY <3>2 DEF FilePasses
    <3>4. NoLinks => ValidateExit(world) = 3
      BY <3>3, OneBadFile
    <3> QED
      BY <2>1, <3>4 DEF ValidateAgrees, NoLinks, ValidateExit, Files, FilePasses, AssertionsParse
  <2> QED
    BY <2>1, <2>2, <2>3, <2>4, QuietStep DEF Busy
<1>9. CASE ParseAllAssertions
  <2>1. phase = "loaded" /\ (Exit(3) \/ Go("parsed"))
        /\ UNCHANGED <<world, run, reports, confirmed, endpoints>>
    BY <1>9 DEF ParseAllAssertions
  <2>2. FromFiles' /\ confirmed' \in BOOLEAN /\ Permitted'
    BY <2>1, PermissionKept DEF IInv, TypeOK, FromFiles, Files, Idle
  <2>3. ASSUME exit' = 3 PROVE ValidateAgrees'
    <3>1. ~(\A r \in endpoints : AssertionsParse(r.endpoint))
      BY <1>9, <2>1, <2>3, NoExitAssumption DEF ParseAllAssertions, Go, IInv, TypeOK
    <3>2. PICK f \in endpoints : ~AssertionsParse(f.endpoint)
      BY <3>1
    <3>3. f \in ToSet(Files(world)) /\ ~FilePasses(f, world)
      BY <3>2 DEF FilePasses, IInv, FromFiles
    <3>4. NoLinks => ValidateExit(world) = 3
      BY <3>3, OneBadFile
    <3> QED
      BY <2>1, <3>4 DEF ValidateAgrees, NoLinks, ValidateExit, Files, FilePasses, AssertionsParse
  <2> QED
    BY <2>1, <2>2, <2>3, QuietStep DEF Busy
<1>10. CASE GenerateTestPlan
  <2>1. phase = "parsed" /\ Go("planned") /\ UNCHANGED <<world, run, reports, confirmed, endpoints>>
    BY <1>10 DEF GenerateTestPlan
  <2>2. FromFiles' /\ confirmed' \in BOOLEAN /\ Permitted'
    BY <2>1, PermissionKept DEF IInv, TypeOK, FromFiles, Files, Idle
  <2>3. exit' # 3
    BY <2>1, NoExitAssumption DEF Go, IInv, TypeOK
  <2> QED
    BY <2>1, <2>2, <2>3, QuietStep DEF Busy
<1>11. CASE Select
  <2>1. phase = "planned" /\ Go("selected") /\ UNCHANGED <<world, run, reports, confirmed, endpoints>>
    BY <1>11 DEF Select
  <2>2. FromFiles' /\ confirmed' \in BOOLEAN /\ Permitted'
    BY <2>1, PermissionKept DEF IInv, TypeOK, FromFiles, Files, Idle
  <2>3. exit' # 3
    BY <2>1, NoExitAssumption DEF Go, IInv, TypeOK
  <2> QED
    BY <2>1, <2>2, <2>3, QuietStep DEF Busy
<1>12. CASE OpenLifecycle
  <2>1. phase = "selected" /\ (Go("open") \/ Exit(70))
        /\ UNCHANGED <<world, run, reports, confirmed, endpoints>>
    BY <1>12 DEF OpenLifecycle
  <2>2. FromFiles' /\ confirmed' \in BOOLEAN /\ Permitted'
    BY <2>1, PermissionKept DEF IInv, TypeOK, FromFiles, Files, Idle
  <2>3. exit' # 3
    BY <2>1, NoExitAssumption DEF Go, Exit, IInv, TypeOK
  <2> QED
    BY <2>1, <2>2, <2>3, QuietStep DEF Busy
<1>13. CASE Execute
  <2>1. phase = "open" /\ phase' = "executed" /\ exit' = exit /\ exit = NoExit /\ reports = {}
    BY <1>13 DEF Execute, Go, IInv, TypeOK, Progress, Busy
  <2>2. world' = world /\ confirmed' = confirmed /\ endpoints' = endpoints /\ mine' = mine
        /\ reports' = reports /\ ran' = TRUE
    BY <1>13 DEF Execute
  <2>3. DOMAIN results' = Executed'
    BY <1>13, <2>2 DEF Execute, Executed
  <2>4. TypeOK'
    BY <2>1, <2>2, <2>3 DEF IInv, TypeOK
  <2>5. Progress'
    BY <2>1, <2>2 DEF Progress, Busy
  <2>6. Guarded'
    BY <2>1, <2>2, PermissionKept DEF Guarded, Idle
  <2>7. FromFiles'
    BY <2>2 DEF IInv, FromFiles, Files
  <2>8. ExitCodeTruthful' /\ ValidateAgrees'
    BY <2>1, NoExitAssumption DEF ExitCodeTruthful, ValidateAgrees
  <2> QED
    BY <2>4, <2>5, <2>6, <2>7, <2>8 DEF IInv
<1>14. CASE MakeReportsDir
  <2>1. phase = "executed" /\ exit = NoExit /\ ran /\ reports = {}
    BY <1>14 DEF MakeReportsDir, IInv, TypeOK, Progress, Busy
  <2>2. \/ phase' = "reporting" /\ exit' = NoExit
        \/ phase' = "exited" /\ exit' = 70
    BY <1>14, <2>1 DEF MakeReportsDir, Go, Exit
  <2>3. UNCHANGED <<world, confirmed, endpoints, mine, ran, results, reports>>
    BY <1>14 DEF MakeReportsDir, run
  <2>4. TypeOK'
    BY <2>1, <2>2, <2>3, NoExitAssumption DEF IInv, TypeOK, Executed
  <2>5. Progress'
    BY <2>1, <2>2, <2>3 DEF Progress, Busy
  <2>6. Guarded'
    BY <2>1, <2>3 DEF IInv, Guarded, Busy, Permitted, NonSmoke, MarkersOf
  <2>7. FromFiles'
    BY <2>3 DEF IInv, FromFiles, Files
  <2>8. ExitCodeTruthful' /\ ValidateAgrees'
    BY <2>2, NoExitAssumption DEF ExitCodeTruthful, ValidateAgrees
  <2> QED
    BY <2>4, <2>5, <2>6, <2>7, <2>8 DEF IInv
<1>15. CASE EmitNext
  <2>1. phase = "reporting" /\ exit = NoExit /\ ran
    BY <1>15 DEF EmitNext, IInv, TypeOK, Progress, Busy
  <2>2. \/ phase' = "reporting" /\ exit' = NoExit
        \/ phase' = "exited" /\ exit' = 70
    BY <1>15, <2>1 DEF EmitNext, Go, Exit
  <2>3. UNCHANGED <<world, confirmed, endpoints, mine, ran, results>>
    BY <1>15 DEF EmitNext, run
  <2>4. reports' \subseteq world.config.report
    BY <1>15 DEF EmitNext, Pending, IInv, TypeOK
  <2>5. TypeOK'
    BY <2>1, <2>2, <2>3, <2>4, NoExitAssumption DEF IInv, TypeOK, Executed
  <2>6. Progress'
    BY <2>1, <2>2, <2>3 DEF Progress, Busy
  <2>7. Guarded'
    BY <2>1, <2>3 DEF IInv, Guarded, Busy, Permitted, NonSmoke, MarkersOf
  <2>8. FromFiles'
    BY <2>3 DEF IInv, FromFiles, Files
  <2>9. ExitCodeTruthful' /\ ValidateAgrees'
    BY <2>2, NoExitAssumption DEF ExitCodeTruthful, ValidateAgrees
  <2> QED
    BY <2>5, <2>6, <2>7, <2>8, <2>9 DEF IInv
<1>16. CASE Finish
  <2>1. phase = "reporting" /\ exit = NoExit /\ ran /\ reports = world.config.report
    BY <1>16 DEF Finish, Pending, IInv, TypeOK, Progress, Busy
  <2>2. phase' = "exited" /\ exit' = IF Failed THEN 1 ELSE 0
    BY <1>16 DEF Finish, Exit
  <2>3. UNCHANGED <<world, confirmed, endpoints, mine, ran, results, reports>>
    BY <1>16 DEF Finish, run
  <2>4. TypeOK'
    BY <2>1, <2>2, <2>3, NoExitAssumption DEF IInv, TypeOK, Executed
  <2>5. Progress'
    BY <2>2 DEF Progress, Busy
  <2>6. Guarded'
    BY <2>1, <2>3 DEF IInv, Guarded, Busy, Permitted, NonSmoke, MarkersOf
  <2>7. FromFiles'
    BY <2>3 DEF IInv, FromFiles, Files
  <2>8. ExitCodeTruthful'
    <3>1. CASE Failed
      BY <2>1, <2>2, <2>3, <3>1 DEF ExitCodeTruthful, Failed
    <3>2. CASE ~Failed
      BY <2>1, <2>2, <2>3, <3>2 DEF ExitCodeTruthful, Failed
    <3> QED
      BY <3>1, <3>2
  <2>9. ValidateAgrees'
    BY <2>2 DEF ValidateAgrees
  <2> QED
    BY <2>4, <2>5, <2>6, <2>7, <2>8, <2>9 DEF IInv
<1>17. CASE UNCHANGED vars
  <2>1. TypeOK' /\ Progress' /\ FromFiles' /\ ExitCodeTruthful'
    BY <1>17 DEF vars, run, IInv, TypeOK, Executed, Progress, FromFiles, Files, ExitCodeTruthful
  <2>2. Guarded'
    BY <1>17 DEF vars, run, IInv, Guarded, Permitted, NonSmoke, MarkersOf
  <2>3. ValidateAgrees'
    BY <1>17 DEF vars, IInv, ValidateAgrees, ValidateExit, Files, FilePasses, AssertionsParse
  <2> QED
    BY <2>1, <2>2, <2>3 DEF IInv
<1>18. CASE Exited
  BY <1>17, <1>18 DEF Exited
<1> QED
  BY <1>1, <1>2, <1>3, <1>4, <1>5, <1>6, <1>7, <1>8, <1>9, <1>10, <1>11, <1>12, <1>13,
     <1>14, <1>15, <1>16, <1>17, <1>18 DEF Next

LEMMA AlwaysIInv == Spec => []IInv
BY InitIInv, NextIInv, PTL DEF Spec
-----------------------------------------------------------------------------
(* The selection, sorted and dealt out.                                    *)

\* What the assumption on the catalog says of a plan.
Ranked(cases) ==
  /\ cases \in Seq(ToSet(cases))
  /\ \A c, d \in ToSet(cases) :
       CaseBefore(c, d) => /\ ~CaseBefore(d, c)
                           /\ \A e \in ToSet(cases) : CaseBefore(c, e) \/ CaseBefore(e, d)

\* The order of the sort is a strict total order of the positions.
LEMMA BeforeIsStrict ==
  ASSUME Ranked(plan.cases)
  PROVE  /\ \A j, k \in DOMAIN plan.cases : Before(j, k) => ~Before(k, j)
         /\ \A j, k \in DOMAIN plan.cases : j # k => Before(j, k) \/ Before(k, j)
         /\ \A i, j, k \in DOMAIN plan.cases : Before(i, j) /\ Before(j, k) => Before(i, k)
<1> DEFINE cases == plan.cases
           places == DOMAIN cases
           before(j, k) == CaseBefore(cases[j], cases[k])
<1>1. places \subseteq Int /\ \A k \in places : cases[k] \in ToSet(cases)
  BY DEF Ranked, ToSet
<1>2. \A j, k \in places :
        before(j, k) => /\ ~before(k, j)
                        /\ \A i \in places : before(j, i) \/ before(i, k)
  BY <1>1 DEF Ranked
<1>3. \A j, k \in places : Before(j, k) <=> before(j, k) \/ (~before(k, j) /\ j < k)
  BY DEF Before
<1> HIDE DEF cases, places, before
<1>4. \A j, k \in places : Before(j, k) => ~Before(k, j)
  BY <1>1, <1>2, <1>3
<1>5. \A j, k \in places : j # k => Before(j, k) \/ Before(k, j)
  BY <1>1, <1>2, <1>3
<1>6. \A i, j, k \in places : Before(i, j) /\ Before(j, k) => Before(i, k)
  BY <1>1, <1>2, <1>3
<1> QED
  BY <1>4, <1>5, <1>6 DEF places, cases

\* The sort loses nothing and repeats nothing: each position it is given has one
\* place in the order.
LEMMA OrderCovers ==
  ASSUME Ranked(plan.cases)
  PROVE  /\ Order \in Seq(Selected)
         /\ \A k \in Selected : \E p \in 1 .. Len(Order) :
              /\ Order[p] = k
              /\ \A q \in 1 .. Len(Order) : Order[q] = k => q = p
<1> DEFINE S == Selected
           n == Cardinality(S)
           R == {jk \in S \X S : Before(jk[1], jk[2])}
           rank == Rank(R, S)
           ranked == {<<Cardinality({j \in S : Before(j, k)}), k>> : k \in S}
<1>1. S \subseteq DOMAIN plan.cases
  BY DEF Selected
<1>2. IsFiniteSet(S)
  <2>1. DOMAIN plan.cases = 1 .. Len(plan.cases) /\ Len(plan.cases) \in Nat
    BY DEF Ranked
  <2>2. IsFiniteSet(DOMAIN plan.cases)
    BY <2>1, FS_Interval
  <2>3. S \in SUBSET DOMAIN plan.cases
    BY <1>1
  <2> HIDE DEF S
  <2> QED
    BY <2>2, <2>3, FS_Subset
<1>3. \A k \in S : {j \in S : <<j, k>> \in R} = {j \in S : Before(j, k)}
  OBVIOUS
<1>4. \A k \in S : rank[k] = Cardinality({j \in S : Before(j, k)})
  BY <1>3 DEF Rank
<1>5. ranked = {<<rank[k], k>> : k \in S}
  BY <1>4
<1>6. Order = [i \in 1 .. n |-> (CHOOSE x \in ranked : x[1] = i - 1)[2]]
  BY DEF Order
<1> HIDE DEF ranked
<1>7. StrictlyOrders(R, S)
  <2>1. \A j, k \in S : <<j, k>> \in R <=> Before(j, k)
    OBVIOUS
  <2> HIDE DEF R, S
  <2> QED
    BY <1>1, <2>1, BeforeIsStrict DEF StrictlyOrders
<1> HIDE DEF S, R
<1>8. /\ n \in Nat
      /\ \A k \in S : rank[k] \in 0 .. (n - 1)
      /\ \A j, k \in S : rank[j] = rank[k] => j = k
      /\ \A r \in 0 .. (n - 1) : \E k \in S : rank[k] = r
  BY <1>2, <1>7, RanksAreOneToOne
<1> HIDE DEF n, rank
<1>9. ASSUME NEW i \in 1 .. n
       PROVE  Order[i] \in S /\ rank[Order[i]] = i - 1
  <2>1. i - 1 \in 0 .. (n - 1)
    BY <1>8
  <2>2. PICK k \in S : rank[k] = i - 1
    BY <1>8, <2>1
  <2>3. <<rank[k], k>> \in ranked /\ <<rank[k], k>>[1] = i - 1
    BY <1>5, <2>2
  <2> DEFINE x == CHOOSE y \in ranked : y[1] = i - 1
  <2>4. x \in ranked /\ x[1] = i - 1
    BY <2>3
  <2>5. Order[i] = x[2]
    BY <1>6
  <2> HIDE DEF x
  <2>6. PICK m \in S : x = <<rank[m], m>>
    BY <1>5, <2>4
  <2> QED
    BY <2>4, <2>5, <2>6
<1>10. Order \in Seq(S) /\ Len(Order) = n
  <2>1. DOMAIN Order = 1 .. n /\ Order = [i \in 1 .. n |-> Order[i]]
    BY <1>6
  <2> QED
    BY <1>8, <1>9, <2>1
<1>11. ASSUME NEW k \in S
       PROVE  \E p \in 1 .. n : Order[p] = k /\ \A q \in 1 .. n : Order[q] = k => q = p
  <2> DEFINE p == rank[k] + 1
  <2>1. p \in 1 .. n /\ p - 1 = rank[k]
    BY <1>8
  <2> HIDE DEF p
  <2>2. Order[p] \in S /\ rank[Order[p]] = rank[k]
    BY <1>9, <2>1
  <2>3. Order[p] = k
    BY <1>8, <2>2
  <2>4. ASSUME NEW q \in 1 .. n, Order[q] = k PROVE q = p
    <3>1. rank[k] = q - 1
      BY <1>9, <2>4
    <3> QED
      BY <1>8, <2>1, <3>1
  <2> QED
    BY <2>1, <2>3, <2>4
<1> QED
  BY <1>10, <1>11 DEF S

\* A job executes the positions of its shard, in their order.
LEMMA JobIsSlice ==
  ASSUME NEW S, NEW order \in Seq(S), NEW total \in Nat \ {0}, NEW i \in 1 .. total
  PROVE  LET n == Len(order)
             s == ShardStart(n, i, total)
             e == ShardEnd(n, i, total)
             job == ShardCases(order, i, total)
         IN  /\ s \in Nat /\ e \in s .. n /\ Shard(n, i, total) = (s + 1) .. e
             /\ (e - s) * total \in (n - total + 1) .. (n + total - 1)
             /\ Len(job) = e - s /\ DOMAIN job = 1 .. (e - s)
             /\ \A p \in 1 .. (e - s) : job[p] = order[s + p]
<1> DEFINE n == Len(order)
           s == ShardStart(n, i, total)
           e == ShardEnd(n, i, total)
           job == ShardCases(order, i, total)
<1>1. n \in Nat
  OBVIOUS
<1>2. s \in Nat
  <2>1. (i - 1) * n \in Nat
    BY <1>1, TimesNat
  <2> QED
    BY <2>1, DivBounds DEF ShardStart
<1>3. e \in s .. n /\ (e - s) * total \in (n - total + 1) .. (n + total - 1)
  BY <1>1, ShardBalanced
<1>4. Shard(n, i, total) = (s + 1) .. e
  BY DEF Shard
<1>5. job = SubSeq(order, s + 1, e)
  BY DEF ShardCases
<1> HIDE DEF n, s, e
<1>6. \A q \in (s + 1) .. e : order[q] \in S
  BY <1>1, <1>2, <1>3 DEF n
<1>7. s + 1 \in Int /\ e \in Int
  BY <1>1, <1>2, <1>3
<1>8. /\ SubSeq(order, s + 1, e) \in Seq(S)
      /\ Len(SubSeq(order, s + 1, e)) = IF s + 1 <= e THEN e - (s + 1) + 1 ELSE 0
      /\ \A p \in 1 .. e - (s + 1) + 1 : SubSeq(order, s + 1, e)[p] = order[(s + 1) + p - 1]
  BY <1>6, <1>7, SubSeqProperties
<1>9. Len(job) = e - s /\ DOMAIN job = 1 .. (e - s)
  <2>1. Len(job) = e - s /\ job \in Seq(S)
    BY <1>1, <1>2, <1>3, <1>5, <1>8
  <2> HIDE DEF job
  <2> QED
    BY <2>1
<1>10. \A p \in 1 .. (e - s) : job[p] = order[s + p]
  <2>1. e - (s + 1) + 1 = e - s
    BY <1>2, <1>7
  <2>2. \A p \in 1 .. (e - s) : (s + 1) + p - 1 = s + p
    BY <1>2, <1>7
  <2> QED
    BY <1>5, <1>8, <2>1, <2>2
<1> QED
  BY <1>2, <1>3, <1>4, <1>9, <1>10 DEF n, s, e

\* Two shards differ by one case at most.
LEMMA ShardsOfOneSize ==
  ASSUME NEW n \in Nat, NEW total \in Nat \ {0}, NEW a \in Int, NEW b \in Int,
         a * total \in (n - total + 1) .. (n + total - 1),
         b * total \in (n - total + 1) .. (n + total - 1)
  PROVE  a - b <= 1
<1> SUFFICES ASSUME a - b >= 2 PROVE FALSE
  OBVIOUS
<1>1. total * 2 <= total * (a - b)
  BY TimesMonotone
<1>2. total * (a - b) = a * total - b * total
  OBVIOUS
<1> QED
  BY <1>1, <1>2

\* The jobs deal out the selection: every position goes to one of them.
LEMMA JobsCover ==
  ASSUME Ranked(plan.cases), Job[2] \in Nat \ {0}
  PROVE  LET jobs == Jobs
         IN  /\ DOMAIN jobs = 1 .. Job[2]
             /\ \A k \in Selected : \E i \in DOMAIN jobs : \E p \in DOMAIN jobs[i] :
                  /\ jobs[i][p] = k
                  /\ \A j \in DOMAIN jobs : \A q \in DOMAIN jobs[j] :
                       jobs[j][q] = k => j = i /\ q = p
             /\ \A i \in DOMAIN jobs : ToSet(jobs[i]) \subseteq Selected
             /\ \A i, j \in DOMAIN jobs : Len(jobs[i]) - Len(jobs[j]) <= 1
<1> DEFINE order == Order
           total == Job[2]
           n == Len(order)
           jobs == Jobs
           s(i) == ShardStart(n, i, total)
           e(i) == ShardEnd(n, i, total)
<1>1. /\ order \in Seq(Selected)
      /\ \A k \in Selected : \E p \in 1 .. n :
           order[p] = k /\ \A q \in 1 .. n : order[q] = k => q = p
  BY OrderCovers
<1>2. DOMAIN jobs = 1 .. total /\ \A i \in 1 .. total : jobs[i] = ShardCases(order, i, total)
  BY DEF Jobs
<1> HIDE DEF order, total, jobs
<1>3. n \in Nat /\ total \in Nat \ {0}
  BY <1>1 DEF total
<1>4. ASSUME NEW i \in 1 .. total
      PROVE  /\ s(i) \in Nat /\ e(i) \in s(i) .. n /\ Shard(n, i, total) = (s(i) + 1) .. e(i)
             /\ (e(i) - s(i)) * total \in (n - total + 1) .. (n + total - 1)
             /\ Len(jobs[i]) = e(i) - s(i) /\ DOMAIN jobs[i] = 1 .. (e(i) - s(i))
             /\ \A p \in 1 .. (e(i) - s(i)) : jobs[i][p] = order[s(i) + p]
  <2>1. jobs[i] = ShardCases(order, i, total)
    BY <1>2
  <2> QED
    BY <1>1, <1>3, <2>1, JobIsSlice
<1>5. \A p \in 1 .. n : \E i \in 1 .. total :
        p \in Shard(n, i, total) /\ \A j \in 1 .. total : p \in Shard(n, j, total) => j = i
  BY <1>3, ShardsPartition DEF Partitioned
<1> HIDE DEF n, s, e
<1>6. ASSUME NEW k \in Selected
      PROVE  \E i \in 1 .. total : \E p \in DOMAIN jobs[i] :
               /\ jobs[i][p] = k
               /\ \A j \in 1 .. total : \A q \in DOMAIN jobs[j] :
                    jobs[j][q] = k => j = i /\ q = p
  <2>1. PICK place \in 1 .. n : order[place] = k /\ \A q \in 1 .. n : order[q] = k => q = place
    BY <1>1
  <2>2. PICK i \in 1 .. total :
          place \in Shard(n, i, total) /\ \A j \in 1 .. total : place \in Shard(n, j, total) => j = i
    BY <1>5
  <2> DEFINE p == place - s(i)
  <2>3. place \in (s(i) + 1) .. e(i) /\ s(i) \in Nat /\ e(i) \in s(i) .. n
    BY <1>4, <2>2
  <2>4. p \in 1 .. (e(i) - s(i)) /\ s(i) + p = place
    BY <1>3, <2>3
  <2> HIDE DEF p
  <2>5. p \in DOMAIN jobs[i] /\ jobs[i][p] = k
    BY <1>4, <2>1, <2>4
  <2>6. ASSUME NEW j \in 1 .. total, NEW q \in DOMAIN jobs[j], jobs[j][q] = k
        PROVE  j = i /\ q = p
    <3>1. /\ s(j) \in Nat /\ e(j) \in s(j) .. n /\ Shard(n, j, total) = (s(j) + 1) .. e(j)
          /\ q \in 1 .. (e(j) - s(j)) /\ order[s(j) + q] = k
      BY <1>4, <2>6
    <3>2. s(j) + q \in 1 .. n /\ s(j) + q \in (s(j) + 1) .. e(j)
      BY <1>3, <3>1
    <3>3. s(j) + q = place
      BY <2>1, <3>1, <3>2
    <3>4. j = i
      BY <2>2, <3>1, <3>2, <3>3
    <3>5. s(i) + q = s(i) + p
      BY <2>4, <3>3, <3>4
    <3> QED
      BY <2>3, <2>4, <3>1, <3>4, <3>5
  <2> QED
    BY <2>5, <2>6
<1>7. ASSUME NEW i \in 1 .. total
      PROVE  ToSet(jobs[i]) \subseteq Selected
  <2>1. ASSUME NEW p \in DOMAIN jobs[i] PROVE jobs[i][p] \in Selected
    <3>1. /\ p \in 1 .. (e(i) - s(i)) /\ jobs[i][p] = order[s(i) + p]
          /\ s(i) \in Nat /\ e(i) \in s(i) .. n
      BY <1>4
    <3>2. s(i) + p \in 1 .. n
      BY <1>3, <3>1
    <3> QED
      BY <1>1, <3>1, <3>2 DEF n
  <2> QED
    BY <2>1 DEF ToSet
<1>8. ASSUME NEW i \in 1 .. total, NEW j \in 1 .. total
      PROVE  Len(jobs[i]) - Len(jobs[j]) <= 1
  <2> DEFINE a == e(i) - s(i)
             b == e(j) - s(j)
  <2>1. a \in Int /\ b \in Int
    <3>1. s(i) \in Nat /\ e(i) \in s(i) .. n /\ s(j) \in Nat /\ e(j) \in s(j) .. n
      BY <1>4
    <3> QED
      BY <1>3, <3>1
  <2>2. /\ a * total \in (n - total + 1) .. (n + total - 1)
        /\ b * total \in (n - total + 1) .. (n + total - 1)
        /\ Len(jobs[i]) = a /\ Len(jobs[j]) = b
    BY <1>4
  <2> HIDE DEF a, b
  <2> QED
    BY <1>3, <2>1, <2>2, ShardsOfOneSize
<1>9. \A i \in 1 .. total : ToSet(jobs[i]) \subseteq Selected
  BY <1>7
<1>10. \A i, j \in 1 .. total : Len(jobs[i]) - Len(jobs[j]) <= 1
  BY <1>8
<1>11. DOMAIN jobs = 1 .. total
  BY <1>2
<1>12. \A k \in Selected : \E i \in DOMAIN jobs : \E p \in DOMAIN jobs[i] :
         /\ jobs[i][p] = k
         /\ \A j \in DOMAIN jobs : \A q \in DOMAIN jobs[j] :
              jobs[j][q] = k => j = i /\ q = p
  BY <1>6, <1>11
<1> QED
  BY <1>9, <1>10, <1>11, <1>12 DEF jobs, total

-----------------------------------------------------------------------------
(* What the selection is made from.                                        *)

\* The cases that fall to this job.
Mine == LET job == Jobs[Job[1]] IN [p \in DOMAIN job |-> plan.cases[job[p]]]

\* From loading to execution the files, the plan and the cases stay those of the
\* invocation.
Derived ==
  /\ world \in Worlds
  /\ phase \notin {"start", "configured", "exited"} => SettingsOK(world)
  /\ phase \in {"loaded", "parsed", "planned", "selected", "open"} =>
       Readable(world) /\ endpoints = Loaded(Files(world))
  /\ phase \in {"planned", "selected", "open"} => plan = PlanOf(world)
  /\ phase \in {"selected", "open"} => mine = Mine

LEMMA MineStays ==
  ASSUME UNCHANGED <<world, plan, endpoints>>
  PROVE  Mine' = Mine
BY DEF Mine, Jobs, Job, Order, Selected, Before, Passes, Record, MarkersOf

LEMMA InitDerived == Init => Derived
BY DEF Init, Derived

LEMMA NextDerived == Derived /\ [Next]_vars => Derived'
<1> SUFFICES ASSUME Derived, [Next]_vars PROVE Derived'
  OBVIOUS
<1>1. world' = world
  BY DEF Next, vars, run, LoadConfig, Resolve, LoadEnvironment, Gate, Answer, StdinCloses,
         Discover, LoadPlan, ParseAllAssertions, GenerateTestPlan, Select, OpenLifecycle,
         Execute, MakeReportsDir, EmitNext, Finish, Exited
<1>2. /\ world' \in Worlds /\ SettingsOK(world)' = SettingsOK(world)
      /\ Readable(world)' = Readable(world) /\ Loaded(Files(world))' = Loaded(Files(world))
      /\ PlanOf(world)' = PlanOf(world)
  BY <1>1 DEF Derived, SettingsOK, Readable, Loaded, Files, PlanOf, MarkersOf
<1>3. CASE LoadConfig \/ Resolve
  BY <1>2, <1>3 DEF Derived, LoadConfig, Resolve, Go, Exit
<1>4. CASE LoadEnvironment \/ Gate \/ Answer \/ StdinCloses \/ Discover
  BY <1>2, <1>4 DEF Derived, LoadEnvironment, Gate, Answer, StdinCloses, Discover, Go, Exit
<1>5. CASE LoadPlan
  BY <1>2, <1>5 DEF Derived, LoadPlan, Go, Exit
<1>6. CASE ParseAllAssertions
  BY <1>2, <1>6 DEF Derived, ParseAllAssertions, Go, Exit
<1>7. CASE GenerateTestPlan
  <2>1. endpoints' = endpoints /\ phase = "parsed" /\ phase' = "planned"
    BY <1>7 DEF GenerateTestPlan, Go
  <2>2. plan' = PlanOf(world)
    BY <1>7, <2>1 DEF Derived, GenerateTestPlan, PlanOf
  <2> QED
    BY <1>2, <2>1, <2>2 DEF Derived
<1>8. CASE Select
  <2>1. /\ UNCHANGED <<world, plan, endpoints>> /\ mine' = Mine
        /\ phase = "planned" /\ phase' = "selected"
    BY <1>8 DEF Select, Go, Mine
  <2>2. mine' = Mine'
    BY <2>1, MineStays
  <2> QED
    BY <1>2, <2>1, <2>2 DEF Derived
<1>9. CASE Execute \/ MakeReportsDir \/ EmitNext \/ Finish \/ Exited
  <2>1. /\ phase \notin {"start", "configured"} /\ (phase = "exited" => phase' = "exited")
        /\ phase' \in {"executed", "reporting", "exited"}
    BY <1>9 DEF Execute, MakeReportsDir, EmitNext, Finish, Exited, vars, Go, Exit
  <2> QED
    BY <1>2, <2>1 DEF Derived
<1>11. CASE OpenLifecycle
  <2>1. /\ UNCHANGED <<world, plan, endpoints>> /\ mine' = mine
        /\ phase = "selected" /\ phase' \in {"open", "exited"}
    BY <1>11 DEF OpenLifecycle, Go, Exit
  <2> QED
    BY <1>2, <2>1, MineStays DEF Derived
<1>10. CASE UNCHANGED vars
  <2>1. UNCHANGED <<world, plan, endpoints>> /\ mine' = mine /\ phase' = phase
    BY <1>10 DEF vars
  <2> QED
    BY <1>2, <2>1, MineStays DEF Derived
<1> QED
  BY <1>3, <1>4, <1>5, <1>6, <1>7, <1>8, <1>9, <1>10, <1>11 DEF Next

LEMMA AlwaysDerived == Spec => []Derived
BY InitDerived, NextDerived, PTL DEF Spec

\* The plan can be ranked, and the run is one of the jobs of its matrix.
LEMMA DerivedRanks ==
  ASSUME Derived, phase \in {"selected", "open"}
  PROVE  Ranked(plan.cases) /\ Job[2] \in Nat \ {0} /\ Job[1] \in 1 .. Job[2]
<1>1. world \in Worlds /\ SettingsOK(world) /\ Readable(world) /\ plan = PlanOf(world)
  BY DEF Derived
<1>2. Ranked(plan.cases)
  <2>1. PlanOf(world).cases \in {PlanOf(w).cases : w \in {v \in Worlds : Readable(v)}}
    BY <1>1
  <2> QED
    BY <1>1, <2>1, CatalogAssumption DEF Ranked
<1>3. Job[2] \in Nat \ {0} /\ Job[1] \in 1 .. Job[2]
  <2>1. CASE world.flags.shard = NoFlag
    BY <2>1 DEF Job
  <2>2. CASE world.flags.shard # NoFlag
    <3>1. world.flags.shard \in Int \X Int
      BY <1>1, <2>2, ShardsAssumption
    <3>2. ValidShard(world.flags.shard[1], world.flags.shard[2])
      BY <1>1, <2>2 DEF SettingsOK
    <3> QED
      BY <2>2, <3>1, <3>2 DEF Job, ValidShard
  <2> QED
    BY <2>1, <2>2
<1> QED
  BY <1>2, <1>3

LEMMA DerivedCovers == Derived => ShardsCoverSelection
<1> SUFFICES ASSUME Derived, phase = "selected" PROVE ShardsCoverSelection
  BY DEF ShardsCoverSelection
<1>1. mine = Mine
  BY DEF Derived
<1> QED
  BY <1>1, DerivedRanks, JobsCover DEF ShardsCoverSelection, Mine
-----------------------------------------------------------------------------
(* Theorems                                                                *)

\* The state is what each phase leaves.
THEOREM TypeCorrect == Spec => []TypeOK
<1>1. IInv => TypeOK
  BY DEF IInv
<1> QED
  BY <1>1, AlwaysIInv, PTL

\* Whatever the flags, the configuration and the host: nothing beyond smoke is
\* executed against production unpermitted.
THEOREM GateHolds == Spec => []GateBeforeTraffic
<1>1. IInv => GateBeforeTraffic
  BY DEF IInv, Guarded, Permitted, GateBeforeTraffic
<1> QED
  BY <1>1, AlwaysIInv, PTL

\* The exit code tells what happened, whatever was planned and however it ended.
THEOREM ExitCodeHolds == Spec => []ExitCodeTruthful
<1>1. IInv => ExitCodeTruthful
  BY DEF IInv
<1> QED
  BY <1>1, AlwaysIInv, PTL

\* What run refuses as invalid, validate refuses.
THEOREM ValidateAgreesHolds == Spec => []ValidateAgrees
<1>1. IInv => ValidateAgrees
  BY DEF IInv
<1> QED
  BY <1>1, AlwaysIInv, PTL

\* Whatever the filters, the order of the ids and the number of jobs: each selected
\* case is executed by exactly one job of a matrix, once (sharder.ts:35-60).
THEOREM ShardsCoverHolds == Spec => []ShardsCoverSelection
BY AlwaysDerived, DerivedCovers, PTL
-----------------------------------------------------------------------------
(* What the plan of every project promises: CatalogIsSound, whatever the   *)
(* endpoints, their schemas, the skip tokens and the order of the files.   *)

-----------------------------------------------------------------------------
(* The plan of a set of endpoints with different ids.                      *)

Distinct(all) ==
  /\ IsFiniteSet(all)
  /\ \A e \in all : EndpointOK(e)
  /\ \A e, f \in all : e.id = f.id => e = f

\* The endpoints in the order of their ids are all of them, once each.
LEMMA InIdOrderIs ==
  ASSUME NEW all, Distinct(all)
  PROVE  LET byId == InIdOrder(all)
         IN  /\ IsSeq(byId) /\ ToSet(byId) = all
             /\ \A i, j \in DOMAIN byId : byId[i] = byId[j] => i = j
<1> DEFINE n == Cardinality(all)
           R == {x \in all \X all : x[1].id < x[2].id}
           rank == Rank(R, all)
           byId == InIdOrder(all)
<1>1. StrictlyOrders(R, all)
  <2>1. \A e, f \in all : <<e, f>> \in R <=> e.id < f.id
    OBVIOUS
  <2>2. \A e \in all : e.id \in Int
    BY DEF Distinct, EndpointOK
  <2> HIDE DEF R
  <2> QED
    BY <2>1, <2>2 DEF StrictlyOrders, Distinct
<1>2. \A e \in all : rank[e] = Cardinality({f \in all : f.id < e.id})
  <2> TAKE e \in all
  <2>1. {f \in all : <<f, e>> \in R} = {f \in all : f.id < e.id}
    OBVIOUS
  <2> QED
    BY <2>1 DEF Rank
<1>3. byId = [i \in 1 .. n |-> CHOOSE e \in all : Cardinality({f \in all : f.id < e.id}) = i - 1]
  BY DEF InIdOrder
<1> HIDE DEF R, byId
<1>4. /\ n \in Nat
      /\ \A e \in all : rank[e] \in 0 .. (n - 1)
      /\ \A e, f \in all : rank[e] = rank[f] => e = f
      /\ \A r \in 0 .. (n - 1) : \E e \in all : rank[e] = r
  BY <1>1, RanksAreOneToOne DEF Distinct
<1> HIDE DEF n, rank
<1>5. ASSUME NEW i \in 1 .. n PROVE byId[i] \in all /\ rank[byId[i]] = i - 1
  <2>1. i - 1 \in 0 .. (n - 1)
    BY <1>4
  <2>2. \E e \in all : Cardinality({f \in all : f.id < e.id}) = i - 1
    BY <1>2, <1>4, <2>1
  <2>3. byId[i] \in all /\ Cardinality({f \in all : f.id < byId[i].id}) = i - 1
    BY <1>3, <2>2
  <2> QED
    BY <1>2, <2>3
<1>6. IsSeq(byId) /\ DOMAIN byId = 1 .. n
  BY <1>3, <1>4, SeqOfFunction
<1>7. ASSUME NEW e \in all PROVE e \in ToSet(byId)
  <2>1. rank[e] + 1 \in 1 .. n /\ (rank[e] + 1) - 1 = rank[e]
    BY <1>4
  <2>2. byId[rank[e] + 1] = e
    BY <1>4, <1>5, <2>1
  <2> QED
    BY <1>6, <2>1, <2>2 DEF ToSet
<1>8. ToSet(byId) \subseteq all
  BY <1>5, <1>6 DEF ToSet
<1>9. ASSUME NEW i \in 1 .. n, NEW j \in 1 .. n, byId[i] = byId[j] PROVE i = j
  <2>1. i - 1 = j - 1
    BY <1>5, <1>9
  <2> QED
    BY <1>4, <2>1
<1> QED
  BY <1>6, <1>7, <1>8, <1>9 DEF byId

\* A case that is not kept was matched by a token of its endpoint or a global one.
LEMMA MatchIs ==
  ASSUME NEW c, NEW own, NEW global, IsSeq(own), IsSeq(global),
         MatchSkip(c, own \o global) # NoToken
  PROVE  LET t == MatchSkip(c, own \o global)
         IN  t \in ToSet(own) \union ToSet(global) /\ MatchesToken(c, t)
<1> DEFINE tokens == own \o global
           hits == {i \in DOMAIN tokens : MatchesToken(c, tokens[i])}
           t == MatchSkip(c, tokens)
<1>1. IsSeq(tokens) /\ ToSet(tokens) = ToSet(own) \union ToSet(global)
  BY Concatenation
<1>2. t = IF hits = {} THEN NoToken ELSE tokens[CHOOSE i \in hits : \A j \in hits : i <= j]
  BY DEF MatchSkip
<1> HIDE DEF tokens
<1>3. hits \subseteq Nat /\ hits # {}
  BY <1>1, <1>2 DEF IsSeq, tokens
<1>4. \E i \in hits : \A j \in hits : i <= j
  <2> HIDE DEF hits
  <2> QED
    BY <1>3, Least
<1>5. \E i \in hits : t = tokens[i]
  BY <1>2, <1>3, <1>4
<1>6. t \in ToSet(tokens) /\ MatchesToken(c, t)
  BY <1>5 DEF ToSet
<1> QED
  BY <1>1, <1>6 DEF tokens

\* What the skip tokens leave of the cases of an endpoint.
LEMMA KeptIs ==
  ASSUME NEW e, EndpointOK(e), NEW global, IsSeq(global)
  PROVE  /\ IsSeq(Kept(e, global))
         /\ OneToOne(Kept(e, global), CaseIds(ToSet(Kept(e, global))))
         /\ ToSet(Kept(e, global)) \subseteq ToSet(RawCases(e))
         /\ \A c \in ToSet(Kept(e, global)) : c.endpoint = e.id
         /\ \A c \in ToSet(RawCases(e)) \ ToSet(Kept(e, global)) :
              MatchSkip(c, e.skip_cases \o global) # NoToken
<1> DEFINE raw == RawCases(e)
           S == {c \in ToSet(raw) : MatchSkip(c, e.skip_cases \o global) = NoToken}
           kept == Kept(e, global)
<1>1. kept = Among(raw, S)
  BY DEF Kept
<1>2. PICK K : Group(e, raw, K)
  BY RawGroup
<1> HIDE DEF raw, kept
<1>3. /\ IsSeq(kept) /\ ToSet(kept) = ToSet(raw) \intersect S
      /\ OneToOne(raw, CaseIds(ToSet(raw))) => OneToOne(kept, CaseIds(ToSet(raw)))
  <2> HIDE DEF S
  <2> QED
    BY <1>1, <1>2, AmongIs DEF Group
<1>4. OneToOne(kept, CaseIds(ToSet(kept)))
  BY <1>2, <1>3, IdsOfMore DEF Group
<1>5. \A c \in ToSet(raw) : c.endpoint = e.id
  BY <1>2 DEF Group, CaseOK
<1> QED
  BY <1>3, <1>4, <1>5 DEF raw, kept

\* Of one endpoint's raw cases the skipped ones are warned of.
LEMMA SkipsWarn ==
  ASSUME NEW e, EndpointOK(e), NEW global, IsSeq(global), NEW all, e \in all,
         NEW c \in ToSet(RawCases(e)) \ ToSet(Kept(e, global))
  PROVE  \E w \in SkipWarnings(e, global) \union GlobalWarnings(all, global) :
           w[1] = "skipped" /\ w[2] \in {0, c.endpoint} /\ MatchesToken(c, w[3])
<1> DEFINE t == MatchSkip(c, e.skip_cases \o global)
<1>1. t # NoToken
  BY KeptIs
<1>2. t \in ToSet(e.skip_cases) \union ToSet(global) /\ MatchesToken(c, t)
  BY <1>1, MatchIs DEF EndpointOK
<1>3. t \in Hits(e, global)
  BY <1>1 DEF Hits
<1>4. c.endpoint = e.id
  <2>1. PICK K : Group(e, RawCases(e), K)
    BY RawGroup
  <2> QED
    BY <2>1 DEF Group, CaseOK
<1> HIDE DEF t
<1>5. CASE t \in ToSet(e.skip_cases)
  <2> DEFINE w == <<"skipped", e.id, t>>
  <2>1. w \in SkipWarnings(e, global)
    BY <1>3, <1>5 DEF SkipWarnings
  <2>2. w[1] = "skipped" /\ w[2] = e.id /\ w[3] = t
    OBVIOUS
  <2> HIDE DEF w
  <2> QED
    BY <1>2, <1>4, <2>1, <2>2
<1>6. CASE t \notin ToSet(e.skip_cases)
  <2> DEFINE w == <<"skipped", 0, t>>
  <2>1. w \in GlobalWarnings(all, global)
    BY <1>3, <1>6 DEF GlobalWarnings
  <2>2. w[1] = "skipped" /\ w[2] = 0 /\ w[3] = t
    OBVIOUS
  <2> HIDE DEF w
  <2> QED
    BY <1>2, <2>1, <2>2
<1> QED
  BY <1>5, <1>6

\* The plan: different ids, nothing but raw cases, and a warning for what it lacks.
LEMMA GenerateIs ==
  ASSUME NEW all, Distinct(all), NEW global, IsSeq(global)
  PROVE  LET g == Generate(all, global)
         IN  /\ IsSeq(g.cases)
             /\ OneToOne(g.cases, CaseIds(ToSet(g.cases)))
             /\ \A c \in ToSet(g.cases) : \E e \in all : c \in ToSet(RawCases(e))
             /\ \A e \in all : \A c \in ToSet(RawCases(e)) \ ToSet(g.cases) :
                  \E w \in g.warnings :
                    \/ w[1] = "skipped" /\ w[2] \in {0, c.endpoint} /\ MatchesToken(c, w[3])
                    \/ w[1] = "pair" /\ w[2] = c.endpoint /\ c.kind = "head_get_parity"
<1> DEFINE byId == InIdOrder(all)
           seqs == [i \in DOMAIN byId |-> Kept(byId[i], global)]
           kept == FlattenSeq(seqs)
           pairless(c) == c.kind = "head_get_parity"
                            /\ PairProblem(ById(all, c.endpoint), all) # "none"
           S == {c \in ToSet(kept) : ~pairless(c)}
           cases == Among(kept, S)
           skips == UNION { RawWarnings(e) \union SkipWarnings(e, global) : e \in all }
           pairs == { <<"pair", c.endpoint, NoToken>> : c \in {k \in ToSet(kept) : pairless(k)} }
           g == Generate(all, global)
<1>1. g = [cases |-> cases,
           warnings |-> skips \union GlobalWarnings(all, global) \union pairs]
  BY DEF Generate
<1>2. g.cases = cases /\ g.warnings = skips \union GlobalWarnings(all, global) \union pairs
  BY <1>1
<1>3. /\ IsSeq(byId) /\ ToSet(byId) = all
      /\ \A i, j \in DOMAIN byId : byId[i] = byId[j] => i = j
  BY InIdOrderIs
<1> HIDE DEF byId, g
<1>4. IsSeq(seqs) /\ DOMAIN seqs = DOMAIN byId
  BY <1>3, SeqOfFunction, SeqIsSeq
<1>5. \A i \in DOMAIN seqs : /\ seqs[i] = Kept(byId[i], global)
                            /\ byId[i] \in all /\ EndpointOK(byId[i])
  BY <1>3, <1>4 DEF ToSet, Distinct
<1> HIDE DEF seqs
<1>6. \A i \in DOMAIN seqs :
        /\ IsSeq(seqs[i]) /\ OneToOne(seqs[i], CaseIds(ToSet(seqs[i])))
        /\ ToSet(seqs[i]) \subseteq ToSet(RawCases(byId[i]))
        /\ \A c \in ToSet(seqs[i]) : c.endpoint = byId[i].id
  BY <1>5, KeptIs
<1> DEFINE id == CaseIds(ToSet(kept))
<1>7. /\ IsSeq(kept) /\ ToSet(kept) = UNION {ToSet(seqs[i]) : i \in DOMAIN seqs}
      /\ Apart(seqs, id) => OneToOne(kept, id)
  <2>1. \A i \in DOMAIN seqs : IsSeq(seqs[i])
    BY <1>6
  <2> QED
    BY <1>4, <2>1, Flatten
<1> HIDE DEF kept
<1>8. Apart(seqs, id)
  <2>1. \A i \in DOMAIN seqs : ToSet(seqs[i]) \subseteq ToSet(kept)
    BY <1>7
  <2>2. \A i \in DOMAIN seqs : OneToOne(seqs[i], id)
    BY <1>6, <2>1, IdsOfMore
  <2>3. ASSUME NEW i \in DOMAIN seqs, NEW j \in DOMAIN seqs, i # j,
               NEW x \in ToSet(seqs[i]), NEW y \in ToSet(seqs[j])
        PROVE  id[x] # id[y]
    <3>1. x.endpoint = byId[i].id /\ y.endpoint = byId[j].id
      BY <1>6
    <3>2. byId[i].id # byId[j].id
      BY <1>3, <1>4, <1>5, <2>3 DEF Distinct
    <3>3. id[x] = <<x.endpoint, x.kind, x.ordinal>> /\ id[y] = <<y.endpoint, y.kind, y.ordinal>>
      BY <2>1 DEF CaseIds
    <3> QED
      BY <3>1, <3>2, <3>3
  <2> QED
    BY <2>2, <2>3 DEF Apart
<1> HIDE DEF S
<1>9. /\ IsSeq(cases) /\ ToSet(cases) = ToSet(kept) \intersect S
      /\ OneToOne(kept, id) => OneToOne(cases, id)
  BY <1>7, AmongIs
<1> HIDE DEF cases
<1>10. OneToOne(cases, CaseIds(ToSet(cases)))
  BY <1>7, <1>8, <1>9, IdsOfMore
<1>11. \A c \in ToSet(kept) : \E e \in all : c \in ToSet(RawCases(e))
  BY <1>5, <1>6, <1>7
<1>12. ASSUME NEW e \in all PROVE ToSet(Kept(e, global)) \subseteq ToSet(kept)
  <2>1. PICK i \in DOMAIN seqs : byId[i] = e
    BY <1>3, <1>4 DEF ToSet
  <2> QED
    BY <1>5, <1>7, <2>1
<1>13. ASSUME NEW e \in all, NEW c \in ToSet(RawCases(e)) \ ToSet(cases)
       PROVE  \E w \in g.warnings :
                \/ w[1] = "skipped" /\ w[2] \in {0, c.endpoint} /\ MatchesToken(c, w[3])
                \/ w[1] = "pair" /\ w[2] = c.endpoint /\ c.kind = "head_get_parity"
  <2>1. CASE c \notin ToSet(Kept(e, global))
    <3>1. \E w \in SkipWarnings(e, global) \union GlobalWarnings(all, global) :
            w[1] = "skipped" /\ w[2] \in {0, c.endpoint} /\ MatchesToken(c, w[3])
      BY <2>1, SkipsWarn DEF Distinct
    <3>2. SkipWarnings(e, global) \union GlobalWarnings(all, global) \subseteq g.warnings
      BY <1>2
    <3> QED
      BY <3>1, <3>2
  <2>2. CASE c \in ToSet(Kept(e, global))
    <3>1. c \in ToSet(kept) /\ c \notin S
      BY <1>9, <1>12, <2>2
    <3>2. pairless(c)
      BY <3>1 DEF S
    <3> DEFINE w == <<"pair", c.endpoint, NoToken>>
    <3>3. w \in g.warnings
      BY <1>2, <3>1, <3>2
    <3>4. w[1] = "pair" /\ w[2] = c.endpoint /\ c.kind = "head_get_parity"
      BY <3>2
    <3> HIDE DEF w
    <3> QED
      BY <3>3, <3>4
  <2> QED
    BY <2>1, <2>2
<1> QED
  BY <1>2, <1>9, <1>10, <1>11, <1>13 DEF g
-----------------------------------------------------------------------------
(* What is loaded, and the four parts of CatalogIsSound.                   *)

All == {r.endpoint : r \in Loaded(Files(world))}

\* The values of a function on a finite set.
LEMMA FiniteImage ==
  ASSUME NEW S, IsFiniteSet(S), NEW f
  PROVE  IsFiniteSet({f[x] : x \in S})
<1> DEFINE g == [x \in S |-> f[x]]
           T == {f[x] : x \in S}
<1>1. g \in Surjection(S, T)
  BY DEF Surjection
<1> HIDE DEF g, T
<1>2. IsFiniteSet(T)
  BY <1>1, FS_Surjection
<1> QED
  BY <1>2 DEF T

\* Of the files the last with each id is loaded.
LEMMA LoadedOnce ==
  ASSUME NEW files, IsSeq(files)
  PROVE  /\ IsFiniteSet(Loaded(files))
         /\ \A r, s \in Loaded(files) : r.endpoint.id = s.endpoint.id => r = s
         /\ \A r \in Loaded(files) : \E i \in DOMAIN files : r = files[i]
<1> DEFINE latest == { j \in DOMAIN files :
                      \A k \in j + 1 .. Len(files) : files[k].endpoint.id # files[j].endpoint.id }
<1>1. DOMAIN files = 1 .. Len(files) /\ Len(files) \in Nat
  BY DEF IsSeq
<1>2. Loaded(files) = {files[i] : i \in latest}
  BY DEF Loaded
<1>3. IsFiniteSet(latest)
  <2>1. IsFiniteSet(1 .. Len(files))
    BY <1>1, FS_Interval
  <2>2. latest \subseteq 1 .. Len(files)
    BY <1>1
  <2> HIDE DEF latest
  <2> DEFINE all == 1 .. Len(files)
  <2> HIDE DEF all
  <2> QED
    BY <2>1, <2>2, FS_Subset DEF all
<1>4. ASSUME NEW i \in latest, NEW j \in latest, files[i].endpoint.id = files[j].endpoint.id
       PROVE  i = j
  <2>1. i \in 1 .. Len(files) /\ j \in 1 .. Len(files)
    BY <1>1
  <2>2. ~(i < j)
    <3>1. \A k \in i + 1 .. Len(files) : files[k].endpoint.id # files[i].endpoint.id
      OBVIOUS
    <3> QED
      BY <1>1, <1>4, <2>1, <3>1
  <2>3. ~(j < i)
    <3>1. \A k \in j + 1 .. Len(files) : files[k].endpoint.id # files[j].endpoint.id
      OBVIOUS
    <3> QED
      BY <1>1, <1>4, <2>1, <3>1
  <2> QED
    BY <1>1, <2>1, <2>2, <2>3
<1> HIDE DEF latest
<1>5. IsFiniteSet({files[i] : i \in latest})
  BY <1>3, FiniteImage
<1>6. latest \subseteq DOMAIN files
  BY DEF latest
<1> QED
  BY <1>2, <1>4, <1>5, <1>6

\* From planning to execution the plan is what the catalog makes of the loaded files.
LEMMA Planned ==
  ASSUME Derived, phase \in {"planned", "selected", "open"}
  PROVE  /\ Distinct(All)
         /\ \A e \in All : Record(e.id).endpoint = e
         /\ \A r \in endpoints : r.endpoint \in All
         /\ IsSeq(world.config.skip_globally)
         /\ plan = Generate(All, world.config.skip_globally)
<1>1. /\ world \in {v \in Worlds : Readable(v)} /\ endpoints = Loaded(Files(world))
      /\ plan = PlanOf(world)
  BY DEF Derived
<1>2. /\ IsSeq(world.config.skip_globally) /\ IsSeq(Files(world))
      /\ \A i \in DOMAIN Files(world) : EndpointOK(Files(world)[i].endpoint)
      /\ plan = Generate(All, world.config.skip_globally)
  BY <1>1, ProjectsAssumption, PlanAssumption DEF All
<1>3. /\ IsFiniteSet(Loaded(Files(world)))
      /\ \A r, s \in Loaded(Files(world)) : r.endpoint.id = s.endpoint.id => r = s
      /\ \A r \in Loaded(Files(world)) : EndpointOK(r.endpoint)
  BY <1>2, LoadedOnce
<1>4. IsFiniteSet(All)
  <2> DEFINE S == Loaded(Files(world))
  <2>1. IsFiniteSet(S)
    BY <1>3
  <2> HIDE DEF S
  <2> DEFINE f == [r \in S |-> r.endpoint]
  <2>2. {f[r] : r \in S} = {r.endpoint : r \in S}
    OBVIOUS
  <2> HIDE DEF f
  <2>3. IsFiniteSet({r.endpoint : r \in S})
    BY <2>1, <2>2, FiniteImage
  <2> QED
    BY <2>3 DEF All, S
<1>5. Distinct(All)
  BY <1>3, <1>4 DEF Distinct, All
<1>6. ASSUME NEW e \in All PROVE Record(e.id).endpoint = e
  <2>1. PICK r \in endpoints : r.endpoint = e
    BY <1>1 DEF All
  <2>2. Record(e.id) \in endpoints /\ Record(e.id).endpoint.id = e.id
    BY <2>1 DEF Record
  <2>3. Record(e.id) = r
    BY <1>1, <1>3, <2>1, <2>2
  <2> QED
    BY <2>1, <2>3
<1>7. \A r \in endpoints : r.endpoint \in All
  BY <1>1 DEF All
<1> QED
  BY <1>2, <1>5, <1>6, <1>7

\* Every case of the plan is one of the raw cases of its endpoint.
LEMMA PlannedCases ==
  ASSUME Derived, phase \in {"planned", "selected", "open"}, NEW c \in ToSet(plan.cases)
  PROVE  /\ EndpointOK(EndpointOf(c)) /\ c \in ToSet(RawCases(EndpointOf(c)))
         /\ CaseOK(EndpointOf(c), c)
         /\ c.kind = "boundary_battery" => Straddles(EndpointOf(c), c)
<1>1. PICK e \in All : c \in ToSet(RawCases(e))
  BY Planned, GenerateIs
<1>2. EndpointOK(e) /\ Record(e.id).endpoint = e
  BY Planned DEF Distinct
<1>3. /\ CaseOK(e, c)
      /\ c.kind = "boundary_battery" => Straddles(e, c)
  <2>1. PICK K : Group(e, RawCases(e), K)
    BY <1>2, RawGroup
  <2>2. CaseOK(e, c)
    BY <1>1, <2>1 DEF Group
  <2> QED
    BY <1>1, <1>2, <2>2, RawGroup
<1>4. EndpointOf(c) = e
  BY <1>2, <1>3 DEF EndpointOf, CaseOK
<1> QED
  BY <1>1, <1>2, <1>3, <1>4

\* The four parts.
LEMMA PlanHasUniqueIds == Derived => CaseIdsUnique
<1> SUFFICES ASSUME Derived, phase = "planned" PROVE CaseIdsUnique
  BY DEF CaseIdsUnique
<1> DEFINE cases == plan.cases
           n == Len(cases)
           id(c) == <<c.endpoint, c.kind, c.ordinal>>
           ids == {id(c) : c \in ToSet(cases)}
           f == [i \in 1 .. n |-> id(cases[i])]
<1>1. IsSeq(cases) /\ OneToOne(cases, CaseIds(ToSet(cases)))
  BY Planned, GenerateIs
<1>2. n \in Nat /\ DOMAIN cases = 1 .. n
  BY <1>1 DEF IsSeq
<1> HIDE DEF cases, n
<1>3. \A i \in 1 .. n : cases[i] \in ToSet(cases)
  BY <1>2 DEF ToSet
<1>4. ids = {f[i] : i \in 1 .. n}
  BY <1>2 DEF ToSet
<1>5. \A i, j \in 1 .. n : f[i] = f[j] => i = j
  BY <1>1, <1>2, <1>3 DEF OneToOne, CaseIds
<1>6. f \in Bijection(1 .. n, ids)
  <2> HIDE DEF ids
  <2>1. f \in [1 .. n -> ids]
    BY <1>4
  <2> QED
    BY <1>4, <1>5, <2>1 DEF Bijection, Injection, Surjection, IsInjective
<1>7. Cardinality(ids) = n
  <2> HIDE DEF f, ids
  <2>1. ExistsBijection(1 .. n, ids)
    BY <1>6 DEF ExistsBijection
  <2>2. IsFiniteSet(1 .. n) /\ Cardinality(1 .. n) = n
    BY <1>2, FS_Interval
  <2> QED
    BY <2>1, <2>2, FS_Bijection
<1> QED
  BY <1>7 DEF CaseIdsUnique, cases, n

LEMMA PlanStraddles == Derived => BoundariesStraddle
<1> SUFFICES ASSUME Derived, phase = "planned", NEW c \in ToSet(plan.cases),
                    c.kind = "boundary_battery"
             PROVE  LET e == EndpointOf(c)
                        g == CHOOSE f \in ToSet(FieldsOf(e)) : f.path = c.what
                    IN  Satisfies(c.bound[3], c.bound[1], g.limits[c.bound[1]])
                          <=> c.bound[2] = "inside"
  BY DEF BoundariesStraddle
<1> DEFINE e == EndpointOf(c)
           g == CHOOSE f \in ToSet(FieldsOf(e)) : f.path = c.what
<1>1. EndpointOK(e) /\ Straddles(e, c)
  BY PlannedCases
<1>2. PICK f \in ToSet(FieldsOf(e)) :
        /\ c.what = f.path
        /\ Satisfies(c.bound[3], c.bound[1], f.limits[c.bound[1]]) <=> c.bound[2] = "inside"
  BY <1>1 DEF Straddles, Sided
<1>3. g \in ToSet(FieldsOf(e)) /\ g.path = c.what
  BY <1>2
<1>4. \A x, y \in ToSet(FieldsOf(e)) : x.path = y.path => x = y
  BY <1>1, FieldsSound DEF Sound, ToSet
<1> HIDE DEF e, g
<1>5. g = f
  BY <1>2, <1>3, <1>4
<1> QED
  BY <1>2, <1>5 DEF e, g

LEMMA PlanWarns == Derived => DropsAreWarned
<1> SUFFICES ASSUME Derived, phase = "planned" PROVE DropsAreWarned
  BY DEF DropsAreWarned
<1> QED
  BY Planned, GenerateIs DEF DropsAreWarned

LEMMA SelectionReads == Derived => ProdSendsOnlyReads
<1> SUFFICES ASSUME Derived, phase = "open", world.env.prod, NEW c \in ToSet(mine)
             PROVE  Sends(EndpointOf(c), c) \subseteq Reads \/ EndpointOf(c).prod_safe
  BY DEF ProdSendsOnlyReads
<1> DEFINE job == Jobs[Job[1]]
           e == EndpointOf(c)
<1>1. PICK k \in Selected : c = plan.cases[k]
  <2>1. mine = [p \in DOMAIN job |-> plan.cases[job[p]]]
    BY DEF Derived, Mine
  <2>2. ToSet(job) \subseteq Selected
    BY DerivedRanks, JobsCover
  <2> HIDE DEF job
  <2> QED
    BY <2>1, <2>2 DEF ToSet
<1>2. c \in ToSet(plan.cases) /\ c.prod_safe
  BY <1>1 DEF Selected, Passes, ToSet
<1>3. MarkerFor(c.kind) = "smoke" /\ (e.method \in Reads \/ e.prod_safe)
  BY <1>2, PlannedCases DEF CaseOK
<1>4. c.kind # "method_not_allowed"
  BY <1>3 DEF MarkerFor
<1>5. Sends(e, c) \subseteq {e.method, "GET"}
  BY <1>4 DEF Sends
<1> QED
  BY <1>3, <1>5 DEF Reads
-----------------------------------------------------------------------------
(* Theorems                                                                *)

\* Whatever a project declares, its plan means what its reader takes it to mean:
\* ids name one case, boundary values lie on the side their case says, nothing is
\* dropped silently and what production is sent only reads
\* (test-plan-generator.ts:148-222).
THEOREM CatalogSoundHolds == Spec => []CatalogIsSound
<1>1. Derived => CatalogIsSound
  BY PlanHasUniqueIds, PlanStraddles, PlanWarns, SelectionReads DEF CatalogIsSound
<1> QED
  BY <1>1, AlwaysDerived, PTL

\* Of every set of endpoints the plan is one that localeCompare of the case ids ranks,
\* ties included: what RunCommand assumes of a catalog (sharder.ts:35-60), the real
\* catalog has.
THEOREM CatalogIsRanked ==
  ASSUME NEW all, Distinct(all), NEW global, IsSeq(global)
  PROVE  LET cases == Generate(all, global).cases
         IN  /\ IsSeq(cases)
             /\ \A c, d \in ToSet(cases) :
                  CaseIdBefore(c, d) =>
                    /\ ~CaseIdBefore(d, c)
                    /\ \A e \in ToSet(cases) : CaseIdBefore(c, e) \/ CaseIdBefore(e, d)
<1> DEFINE cases == Generate(all, global).cases
<1>1. IsSeq(cases) /\ \A c \in ToSet(cases) : \E e \in all : c \in ToSet(RawCases(e))
  BY GenerateIs
<1> HIDE DEF cases
<1>2. ASSUME NEW c \in ToSet(cases)
       PROVE  /\ c.endpoint \in Int /\ c.kind \in Kinds
              /\ KindKey(c.kind) \in Int /\ OrdinalKey(c.ordinal) \in Int
  <2>1. PICK e \in all : c \in ToSet(RawCases(e))
    BY <1>1
  <2>2. EndpointOK(e)
    BY DEF Distinct
  <2>3. PICK K : Group(e, RawCases(e), K) /\ K \subseteq Kinds
    BY <2>2, RawGroup
  <2>4. CaseOK(e, c) /\ c.kind \in Kinds
    BY <2>1, <2>3 DEF Group
  <2> QED
    BY <2>2, <2>4, KindKeyIs, OrdinalKeyIs DEF CaseOK, EndpointOK
<1>3. \A c, d \in ToSet(cases) : KindKey(c.kind) = KindKey(d.kind) => c.kind = d.kind
  BY <1>2, KindKeyIs
<1>4. ASSUME NEW c \in ToSet(cases), NEW d \in ToSet(cases), CaseIdBefore(c, d)
       PROVE  ~CaseIdBefore(d, c)
  BY <1>2, <1>3, <1>4 DEF CaseIdBefore
<1>5. ASSUME NEW c \in ToSet(cases), NEW d \in ToSet(cases), CaseIdBefore(c, d),
             NEW e \in ToSet(cases)
       PROVE  CaseIdBefore(c, e) \/ CaseIdBefore(e, d)
  BY <1>2, <1>3, <1>5 DEF CaseIdBefore
<1> QED
  BY <1>1, <1>4, <1>5 DEF cases

-----------------------------------------------------------------------------
(* Paths.                                                                  *)

\* The front of a path, key by key.
LEMMA FrontIs ==
  ASSUME NEW p, IsSeq(p), NEW n \in 0 .. Len(p)
  PROVE  /\ IsSeq(SubSeq(p, 1, n)) /\ Len(SubSeq(p, 1, n)) = n
         /\ \A i \in 1 .. n : SubSeq(p, 1, n)[i] = p[i]
<1> DEFINE s == SubSeq(p, 1, n)
<1>1. p \in Seq(ToSet(p)) /\ Len(p) \in Nat /\ DOMAIN p = 1 .. Len(p)
  BY DEF IsSeq
<1>2. \A i \in 1 .. n : p[i] \in ToSet(p)
  BY <1>1 DEF ToSet
<1>3. /\ s \in Seq(ToSet(p)) /\ Len(s) = IF 1 <= n THEN n - 1 + 1 ELSE 0
      /\ \A i \in 1 .. n - 1 + 1 : s[i] = p[1 + i - 1]
  BY <1>1, <1>2, SubSeqProperties
<1> HIDE DEF s
<1>4. Len(s) = n
  BY <1>1, <1>3
<1>5. s = [i \in 1 .. n |-> s[i]]
  BY <1>3, <1>4
<1>6. IsSeq(s)
  BY <1>5, SeqOfFunction
<1>7. \A i \in 1 .. n : s[i] = p[i]
  BY <1>3
<1> QED
  BY <1>4, <1>6, <1>7 DEF s

\* Equal key by key.
LEMMA SeqsEqual ==
  ASSUME NEW p, IsSeq(p), NEW q, IsSeq(q), Len(p) = Len(q), \A i \in 1 .. Len(p) : p[i] = q[i]
  PROVE  p = q
<1>1. /\ p = [i \in 1 .. Len(p) |-> p[i]] /\ q = [i \in 1 .. Len(q) |-> q[i]]
  BY DEF IsSeq
<1> QED
  BY <1>1

LEMMA PrefixIs ==
  ASSUME NEW p, IsSeq(p), NEW q, IsSeq(q)
  PROVE  IsPrefix(p, q) <=> Len(p) <= Len(q) /\ \A i \in 1 .. Len(p) : p[i] = q[i]
<1>1. Len(p) \in Nat /\ Len(q) \in Nat
  BY SeqIsSeq
<1>2. CASE ~(Len(p) <= Len(q))
  BY <1>2 DEF IsPrefix
<1>3. CASE Len(p) <= Len(q)
  <2> DEFINE s == SubSeq(p, 1, Len(p))
             t == SubSeq(q, 1, Len(p))
  <2>1. /\ IsSeq(s) /\ Len(s) = Len(p) /\ \A i \in 1 .. Len(p) : s[i] = p[i]
        /\ IsSeq(t) /\ Len(t) = Len(p) /\ \A i \in 1 .. Len(p) : t[i] = q[i]
    BY <1>1, <1>3, FrontIs
  <2>2. IsPrefix(p, q) <=> s = t
    BY <1>3 DEF IsPrefix
  <2> HIDE DEF s, t
  <2>3. s = t => \A i \in 1 .. Len(p) : p[i] = q[i]
    BY <2>1
  <2>4. (\A i \in 1 .. Len(p) : p[i] = q[i]) => s = t
    BY <2>1, SeqsEqual
  <2> QED
    BY <1>3, <2>2, <2>3, <2>4
<1> QED
  BY <1>2, <1>3

\* What is above a place that is not below path is not below it either.
LEMMA OutsideAbove ==
  ASSUME NEW path, IsSeq(path), NEW p, IsSeq(p), ~IsPrefix(path, p), NEW n \in 0 .. Len(p)
  PROVE  ~IsPrefix(path, SubSeq(p, 1, n))
<1> DEFINE s == SubSeq(p, 1, n)
<1>1. IsSeq(s) /\ Len(s) = n /\ \A i \in 1 .. n : s[i] = p[i]
  BY FrontIs
<1>2. Len(p) \in Nat /\ Len(path) \in Nat
  BY SeqIsSeq
<1> HIDE DEF s
<1>3. IsPrefix(path, s) <=> Len(path) <= Len(s) /\ \A i \in 1 .. Len(path) : path[i] = s[i]
  BY <1>1, PrefixIs
<1>4. IsPrefix(path, p) <=> Len(path) <= Len(p) /\ \A i \in 1 .. Len(path) : path[i] = p[i]
  BY PrefixIs
<1>5. ~IsPrefix(path, s)
  BY <1>1, <1>2, <1>3, <1>4
<1> QED
  BY <1>5 DEF s

\* Only path itself is below path and at once beneath a place that is not.
LEMMA AppendIs ==
  ASSUME NEW p, IsSeq(p), NEW key
  PROVE  /\ IsSeq(Append(p, key)) /\ Len(Append(p, key)) = Len(p) + 1
         /\ Append(p, key)[Len(p) + 1] = key
         /\ \A i \in 1 .. Len(p) : Append(p, key)[i] = p[i]
<1> DEFINE S == ToSet(p) \union {key}
           a == Append(p, key)
<1>1. p \in Seq(S) /\ key \in S /\ Len(p) \in Nat
  BY SeqMonotonic DEF IsSeq
<1> HIDE DEF S
<1>2. /\ a \in Seq(S) /\ Len(a) = Len(p) + 1 /\ a[Len(p) + 1] = key
      /\ \A i \in 1 .. Len(p) : a[i] = p[i]
  BY <1>1, AppendProperties
<1> HIDE DEF a
<1>3. a = [i \in 1 .. (Len(p) + 1) |-> a[i]] /\ Len(p) + 1 \in Nat
  BY <1>1, <1>2
<1>4. IsSeq(a)
  BY <1>3, SeqOfFunction
<1> QED
  BY <1>2, <1>4 DEF a

LEMMA OnlyPath ==
  ASSUME NEW path, IsSeq(path), NEW p, IsSeq(p), ~IsPrefix(path, p), NEW key,
         IsPrefix(path, Append(p, key))
  PROVE  Append(p, key) = path
<1> DEFINE a == Append(p, key)
<1>1. /\ IsSeq(a) /\ Len(a) = Len(p) + 1 /\ \A i \in 1 .. Len(p) : a[i] = p[i]
      /\ Len(p) \in Nat /\ Len(path) \in Nat
  BY AppendIs, SeqIsSeq
<1> HIDE DEF a
<1>2. Len(path) <= Len(a) /\ \A i \in 1 .. Len(path) : path[i] = a[i]
  BY <1>1, PrefixIs DEF a
<1>3. ~(Len(path) <= Len(p))
  <2> SUFFICES ASSUME Len(path) <= Len(p) PROVE FALSE
    OBVIOUS
  <2>1. \A i \in 1 .. Len(path) : path[i] = p[i]
    BY <1>1, <1>2
  <2> QED
    BY <2>1, PrefixIs
<1>4. Len(path) = Len(a)
  BY <1>1, <1>2, <1>3
<1> QED
  BY <1>1, <1>2, <1>4, SeqsEqual DEF a

\* A place is below itself, and above path nothing is below it.
LEMMA NotAbove ==
  ASSUME NEW path, IsSeq(path)
  PROVE  /\ IsPrefix(path, path)
         /\ \A n \in 0 .. Len(path) - 1 : ~IsPrefix(path, SubSeq(path, 1, n))
         /\ path # << >> =>
              /\ Len(path) >= 1
              /\ Append(SubSeq(path, 1, Len(path) - 1), path[Len(path)]) = path
<1>1. Len(path) \in Nat
  BY SeqIsSeq
<1>2. IsPrefix(path, path)
  BY <1>1, PrefixIs
<1>3. ASSUME NEW n \in 0 .. Len(path) - 1 PROVE ~IsPrefix(path, SubSeq(path, 1, n))
  <2>1. n \in 0 .. Len(path) /\ ~(Len(path) <= n)
    BY <1>1
  <2>2. IsSeq(SubSeq(path, 1, n)) /\ Len(SubSeq(path, 1, n)) = n
    BY <2>1, FrontIs
  <2> QED
    BY <2>1, <2>2, PrefixIs
<1>4. ASSUME path # << >>
      PROVE  /\ Len(path) >= 1
             /\ Append(SubSeq(path, 1, Len(path) - 1), path[Len(path)]) = path
  <2>1. Len(path) # 0
    BY <1>4 DEF IsSeq
  <2> DEFINE n == Len(path) - 1
             s == SubSeq(path, 1, n)
             a == Append(s, path[Len(path)])
  <2>2. n \in 0 .. Len(path)
    BY <1>1, <2>1
  <2>3. IsSeq(s) /\ Len(s) = n /\ \A i \in 1 .. n : s[i] = path[i]
    BY <2>2, FrontIs
  <2> HIDE DEF s
  <2>4. /\ IsSeq(a) /\ Len(a) = n + 1 /\ a[n + 1] = path[Len(path)]
        /\ \A i \in 1 .. n : a[i] = s[i]
    BY <2>3, AppendIs
  <2> HIDE DEF a
  <2>5. Len(a) = Len(path) /\ \A i \in 1 .. Len(a) : a[i] = path[i]
    BY <1>1, <2>3, <2>4
  <2>6. a = path
    BY <2>4, <2>5, SeqsEqual
  <2> QED
    BY <1>1, <2>1, <2>6 DEF a, s
<1> QED
  BY <1>2, <1>3, <1>4
-----------------------------------------------------------------------------
(* From the root of a schema down to a field of its walk.                  *)

Leads(node, key, child) ==
  \/ /\ node.shape = "object"
     /\ \E i \in DOMAIN node.properties :
          node.properties[i].key = key /\ node.properties[i].node = child
  \/ node.shape = "array" /\ key = "[]" /\ node.items = child

\* A property of node is described by f.
OwnField(node, f, child) ==
  /\ node.shape = "object"
  /\ \E i \in DOMAIN node.properties :
       /\ node.properties[i].key = f.path[Len(f.path)] /\ node.properties[i].node = child
       /\ node.properties[i].required = f.required
  /\ f.type = child.type /\ f.limits = child.limits

\* down[d] is the node d levels below node, on the way to f.
Chain(node, f, down) ==
  /\ down[0] = node
  /\ \A d \in 1 .. Len(f.path) :
       Leads(down[d - 1], f.path[d], down[d]) /\ WellFormed(down[d - 1])
  /\ OwnField(down[Len(f.path) - 1], f, down[Len(f.path)])

LEMMA OwnLeads ==
  ASSUME NEW node, node.shape = "object", WellFormed(node), NEW i \in DOMAIN node.properties
  PROVE  LET p == node.properties[i]
         IN  \E down : Chain(node, [path |-> <<p.key>>, type |-> p.node.type,
                                    required |-> p.required, limits |-> p.node.limits], down)
<1> DEFINE p == node.properties[i]
           f == [path |-> <<p.key>>, type |-> p.node.type,
                 required |-> p.required, limits |-> p.node.limits]
           down == [d \in 0 .. 1 |-> IF d = 0 THEN node ELSE p.node]
<1>1. down[0] = node /\ down[1] = p.node
  OBVIOUS
<1>2. /\ Len(f.path) = 1 /\ f.path[1] = p.key /\ f.type = p.node.type
      /\ f.required = p.required /\ f.limits = p.node.limits
  OBVIOUS
<1> HIDE DEF down, f
<1>3. Leads(node, p.key, p.node)
  BY DEF Leads
<1>4. OwnField(node, f, p.node)
  BY <1>2 DEF OwnField
<1>5. Chain(node, f, down)
  BY <1>1, <1>2, <1>3, <1>4 DEF Chain
<1> QED
  BY <1>5 DEF f

LEMMA BelowLeads ==
  ASSUME NEW node, WellFormed(node), NEW key, NEW child, Leads(node, key, child),
         NEW g, FieldOK(g), NEW below, Chain(child, g, below)
  PROVE  \E down : Chain(node, [g EXCEPT !.path = <<key>> \o @], down)
<1> DEFINE f == [g EXCEPT !.path = <<key>> \o @]
           n == Len(g.path)
           down == [d \in 0 .. (n + 1) |-> IF d = 0 THEN node ELSE below[d - 1]]
<1>1. /\ g = [path |-> g.path, type |-> g.type, required |-> g.required, limits |-> g.limits]
      /\ IsSeq(g.path) /\ g.path # << >>
  BY DEF FieldOK
<1>2. n \in Nat /\ n >= 1
  BY <1>1, NotAbove, SeqIsSeq
<1>3. /\ f.path = <<key>> \o g.path /\ f.type = g.type /\ f.required = g.required
      /\ f.limits = g.limits
  BY <1>1
<1>4. Len(f.path) = n + 1 /\ f.path[1] = key /\ \A d \in 1 .. n : f.path[d + 1] = g.path[d]
  <2> DEFINE S == ToSet(g.path) \union {key}
             q == g.path
  <2>1. q \in Seq(S) /\ <<key>> \in Seq(S) /\ Len(<<key>>) = 1 /\ <<key>>[1] = key
    BY <1>1, SeqMonotonic DEF IsSeq
  <2> HIDE DEF S, q
  <2>2. /\ Len(<<key>> \o q) = 1 + Len(q)
        /\ \A d \in 1 .. 1 + Len(q) : (<<key>> \o q)[d] = IF d <= 1 THEN <<key>>[d] ELSE q[d - 1]
    BY <2>1, ConcatProperties
  <2>3. Len(q) = n /\ f.path = <<key>> \o q
    BY <1>3 DEF q
  <2> HIDE DEF f, n
  <2>4. Len(f.path) = n + 1 /\ f.path[1] = key
    BY <1>2, <2>1, <2>2, <2>3
  <2>5. ASSUME NEW d \in 1 .. n PROVE f.path[d + 1] = q[d]
    <3>1. d + 1 \in 1 .. 1 + Len(q) /\ ~(d + 1 <= 1) /\ (d + 1) - 1 = d
      BY <1>2, <2>3
    <3> QED
      BY <2>2, <2>3, <3>1
  <2> QED
    BY <2>4, <2>5 DEF q
<1>5. down[0] = node /\ \A d \in 0 .. n : down[d + 1] = below[d]
  <2>1. ASSUME NEW d \in 0 .. n PROVE d + 1 \in 0 .. (n + 1) /\ d + 1 # 0 /\ (d + 1) - 1 = d
    BY <1>2
  <2>2. 0 \in 0 .. (n + 1)
    BY <1>2
  <2> QED
    BY <2>1, <2>2
<1> HIDE DEF f, down, n
<1>6. below[0] = child /\ OwnField(below[n - 1], g, below[n])
        /\ \A d \in 1 .. n : Leads(below[d - 1], g.path[d], below[d]) /\ WellFormed(below[d - 1])
  BY DEF Chain, n
<1>7. ASSUME NEW d \in 1 .. Len(f.path)
      PROVE  Leads(down[d - 1], f.path[d], down[d]) /\ WellFormed(down[d - 1])
  <2>1. CASE d = 1
    <3>1. down[0 + 1] = below[0] /\ 0 + 1 = 1 /\ 1 - 1 = 0
      BY <1>2, <1>5
    <3>2. down[d - 1] = node /\ down[d] = child /\ f.path[d] = key
      BY <1>4, <1>5, <1>6, <2>1, <3>1
    <3> QED
      BY <3>2
  <2>2. CASE d # 1
    <3> DEFINE k == d - 1
    <3>1. k \in 1 .. n /\ k \in 0 .. n /\ k - 1 \in 0 .. n /\ d = k + 1 /\ d - 1 = (k - 1) + 1
      BY <1>2, <1>4, <2>2
    <3> HIDE DEF k
    <3>2. down[k + 1] = below[k] /\ down[(k - 1) + 1] = below[k - 1] /\ f.path[k + 1] = g.path[k]
      BY <1>4, <1>5, <3>1
    <3>3. Leads(below[k - 1], g.path[k], below[k]) /\ WellFormed(below[k - 1])
      BY <1>6, <3>1
    <3> QED
      BY <3>1, <3>2, <3>3
  <2> QED
    BY <2>1, <2>2
<1>8. OwnField(down[Len(f.path) - 1], f, down[Len(f.path)])
  <2>1. /\ n \in 0 .. n /\ n - 1 \in 0 .. n /\ n \in 1 .. n
        /\ Len(f.path) - 1 = (n - 1) + 1 /\ Len(f.path) = n + 1
    BY <1>2, <1>4
  <2>2. /\ down[Len(f.path) - 1] = below[n - 1] /\ down[Len(f.path)] = below[n]
        /\ f.path[Len(f.path)] = g.path[n]
    BY <1>4, <1>5, <2>1
  <2> QED
    BY <1>3, <1>6, <2>2 DEF OwnField, n
<1>9. Chain(node, f, down)
  BY <1>5, <1>7, <1>8 DEF Chain
<1> QED
  BY <1>9 DEF f

LEMMA DescriptorsLead ==
  ASSUME NEW node, WellFormed(node), NEW more,
         \A child \in Children(node) :
           Sound(more[child]) /\ \A g \in ToSet(more[child]) : \E below : Chain(child, g, below),
         NEW f \in ToSet(Descriptors(node, more))
  PROVE  \E down : Chain(node, f, down)
<1>1. ASSUME NEW key, NEW child \in Children(node), Leads(node, key, child),
             NEW h \in ToSet(Below(key, more[child]))
      PROVE  \E down : Chain(node, h, down)
  <2> DEFINE fields == more[child]
  <2>1. PICK i \in DOMAIN Below(key, fields) : h = Below(key, fields)[i]
    BY DEF ToSet
  <2>2. i \in DOMAIN fields /\ h = [fields[i] EXCEPT !.path = <<key>> \o @]
    BY <2>1 DEF Below
  <2> DEFINE g == fields[i]
  <2>3. g \in ToSet(fields)
    BY <2>2 DEF ToSet
  <2>4. FieldOK(g) /\ \E below : Chain(child, g, below)
    BY <2>3 DEF Sound
  <2> HIDE DEF g
  <2>5. PICK below : Chain(child, g, below)
    BY <2>4
  <2>6. \E down : Chain(node, [g EXCEPT !.path = <<key>> \o @], down)
    BY <1>1, <2>4, <2>5, BelowLeads
  <2> QED
    BY <2>2, <2>6 DEF g
<1>2. CASE node.shape = "object"
  <2> DEFINE props == node.properties
             own(i) == [path |-> <<props[i].key>>, type |-> props[i].node.type,
                        required |-> props[i].required, limits |-> props[i].node.limits]
             below(i) == Below(props[i].key, more[props[i].node])
             seqs == [i \in DOMAIN props |-> <<own(i)>> \o below(i)]
             flat == FlattenSeq(seqs)
  <2>1. Descriptors(node, more) = flat
    BY <1>2 DEF Descriptors
  <2>2. IsSeq(props)
    BY <1>2 DEF WellFormed
  <2>3. \A i \in DOMAIN props : /\ props[i].node \in Children(node)
                                 /\ Leads(node, props[i].key, props[i].node)
    BY <1>2 DEF Children, Leads
  <2>4. \A i \in DOMAIN props : \E down : Chain(node, own(i), down)
    BY <1>2, OwnLeads
  <2> HIDE DEF props
  <2>5. ASSUME NEW i \in DOMAIN props
         PROVE  /\ IsSeq(<<own(i)>> \o below(i))
                /\ \A h \in ToSet(<<own(i)>> \o below(i)) : \E down : Chain(node, h, down)
    <3> DEFINE o == own(i)
               b == below(i)
    <3>1. IsSeq(b)
      BY <2>3, BelowSound DEF Sound
    <3>2. \A h \in ToSet(b) : \E down : Chain(node, h, down)
      BY <1>1, <2>3
    <3>3. \E down : Chain(node, o, down)
      BY <2>4
    <3> HIDE DEF o, b
    <3>4. IsSeq(<<o>>) /\ ToSet(<<o>>) = {o}
      BY DEF IsSeq, ToSet
    <3>5. IsSeq(<<o>> \o b) /\ ToSet(<<o>> \o b) = {o} \union ToSet(b)
      BY <3>1, <3>4, Concatenation
    <3>6. \A h \in ToSet(<<o>> \o b) : \E down : Chain(node, h, down)
      BY <3>2, <3>3, <3>5
    <3> QED
      BY <3>5, <3>6 DEF o, b
  <2>6. IsSeq(seqs) /\ DOMAIN seqs = DOMAIN props
    BY <2>2, SeqOfFunction, SeqIsSeq
  <2>7. \A i \in DOMAIN seqs : /\ IsSeq(seqs[i])
                                /\ \A h \in ToSet(seqs[i]) : \E down : Chain(node, h, down)
    BY <2>5, <2>6
  <2> HIDE DEF seqs
  <2>8. ToSet(flat) = UNION {ToSet(seqs[i]) : i \in DOMAIN seqs}
    BY <2>6, <2>7, Flatten
  <2> QED
    BY <2>1, <2>7, <2>8
<1>3. CASE node.shape = "array"
  <2>1. /\ Descriptors(node, more) = Below("[]", more[node.items]) /\ node.items \in Children(node)
        /\ Leads(node, "[]", node.items)
    BY <1>3 DEF Descriptors, Children, Leads
  <2> QED
    BY <1>1, <2>1
<1>4. CASE node.shape \notin {"object", "array"}
  <2>1. Descriptors(node, more) = << >>
    BY <1>4 DEF Descriptors
  <2> QED
    BY <2>1 DEF ToSet
<1> QED
  BY <1>2, <1>3, <1>4

\* Every field the walk finds is led to.
LEMMA WalkLeads ==
  ASSUME NEW schema, SchemaOK(schema), NEW f \in ToSet(Walk(schema))
  PROVE  \E down : Chain(schema, f, down)
<1> DEFINE nodes(k) == NodesAt(schema)[MaxDepth + 1 - k]
           Good(k) == k <= MaxDepth + 1 =>
             \A node \in nodes(k) : /\ Sound(Visit(schema)[k][node])
                                    /\ \A g \in ToSet(Visit(schema)[k][node]) :
                                         \E down : Chain(node, g, down)
           T == {k \in Nat : Good(k)}
<1>1. 0 \in T
  <2>0. 0 \in 0 .. MaxDepth + 1
    BY DepthAssumption
  <2>1. ASSUME NEW node \in nodes(0) PROVE Visit(schema)[0][node] = << >>
    BY <2>0, VisitIs
  <2>2. Sound(<< >>) /\ ToSet(<< >>) = {}
    BY DEF Sound, IsSeq, ToSet
  <2> QED
    BY <2>1, <2>2
<1>2. ASSUME NEW k \in Nat, k \in T PROVE k + 1 \in T
  <2> SUFFICES ASSUME k + 1 <= MaxDepth + 1, NEW node \in nodes(k + 1)
               PROVE  /\ Sound(Visit(schema)[k + 1][node])
                      /\ \A g \in ToSet(Visit(schema)[k + 1][node]) :
                           \E down : Chain(node, g, down)
    OBVIOUS
  <2>1. /\ k + 1 \in 0 .. MaxDepth + 1 /\ (k + 1) - 1 = k /\ k + 1 # 0
        /\ MaxDepth + 1 - (k + 1) \in 0 .. MaxDepth
        /\ (MaxDepth + 1 - (k + 1)) + 1 = MaxDepth + 1 - k
    BY DepthAssumption
  <2>2. Visit(schema)[k + 1][node] = Descriptors(node, Visit(schema)[k])
    BY <2>1, VisitIs
  <2>3. WellFormed(node) /\ Children(node) \subseteq nodes(k)
    BY <2>1, NodesAtIs DEF SchemaOK
  <2>4. \A child \in Children(node) :
          /\ Sound(Visit(schema)[k][child])
          /\ \A g \in ToSet(Visit(schema)[k][child]) : \E below : Chain(child, g, below)
    BY <1>2, <2>1, <2>3, DepthAssumption
  <2> DEFINE more == Visit(schema)[k]
  <2> HIDE DEF more
  <2>5. \A child \in Children(node) :
          Sound(more[child]) /\ \A g \in ToSet(more[child]) : \E below : Chain(child, g, below)
    BY <2>4 DEF more
  <2>6. Sound(Descriptors(node, more))
    BY <2>3, <2>5, DescriptorsSound
  <2>7. \A g \in ToSet(Descriptors(node, more)) : \E down : Chain(node, g, down)
    BY <2>3, <2>5, DescriptorsLead
  <2> QED
    BY <2>2, <2>6, <2>7 DEF more
<1> HIDE DEF T
<1>3. MaxDepth + 1 \in T
  BY <1>1, <1>2, NatSetInduction, DepthAssumption
<1>4. schema \in nodes(MaxDepth + 1)
  BY NodesAtIs, DepthAssumption
<1> HIDE DEF nodes
<1>5. \A node \in nodes(MaxDepth + 1) : \A g \in ToSet(Visit(schema)[MaxDepth + 1][node]) :
        \E down : Chain(node, g, down)
  BY <1>3, DepthAssumption DEF T
<1> QED
  BY <1>4, <1>5, Zenon DEF Walk
-----------------------------------------------------------------------------
(* What a schema says of a body of which one place was changed.            *)

\* A way down that does not fork.
Unforked(schema, above, path, down) ==
  /\ down[0] = schema
  /\ \A d \in 1 .. Len(path) : NodesUnder(down[d - 1], above[d], path[d]) = {down[d]}

Sole(S, x) == S = {x}

\* The recursive function of NodesFor.
LEMMA NodesForIs ==
  ASSUME NEW schema, NEW above, NEW path, IsSeq(path), NEW down,
         Unforked(schema, above, path, down)
  PROVE  Sole(NodesFor(schema, above, path), down[Len(path)])
<1> DEFINE n == Len(path)
           chosen == CHOOSE f : f = [d \in 0 .. n |->
                       IF d = 0 THEN {schema}
                       ELSE UNION {NodesUnder(node, above[d], path[d]) : node \in f[d - 1]}]
           g == [d \in 0 .. n |-> {down[d]}]
           T == {d \in Nat : d <= n => chosen[d] = {down[d]}}
<1>1. n \in Nat
  BY SeqIsSeq
<1>0. /\ down[0] = schema
      /\ \A d \in 1 .. n : NodesUnder(down[d - 1], above[d], path[d]) = {down[d]}
  BY DEF Unforked
<1>2. NodesFor(schema, above, path) = chosen[n]
  BY DEF NodesFor
<1>3. ASSUME NEW d \in 0 .. n
      PROVE  g[d] = IF d = 0 THEN {schema}
                    ELSE UNION {NodesUnder(node, above[d], path[d]) : node \in g[d - 1]}
  <2>1. CASE d = 0
    BY <1>0, <2>1
  <2>2. CASE d # 0
    <3>1. d \in 1 .. n /\ d - 1 \in 0 .. n
      BY <1>1, <2>2
    <3>2. g[d - 1] = {down[d - 1]} /\ g[d] = {down[d]}
      BY <3>1
    <3> HIDE DEF g
    <3>3. NodesUnder(down[d - 1], above[d], path[d]) = {down[d]}
      BY <1>0, <3>1
    <3> QED
      BY <2>2, <3>2, <3>3
  <2> QED
    BY <2>1, <2>2
<1>4. g = [d \in 0 .. n |-> IF d = 0 THEN {schema}
             ELSE UNION {NodesUnder(node, above[d], path[d]) : node \in g[d - 1]}]
  <2>1. g = [d \in 0 .. n |-> g[d]]
    OBVIOUS
  <2> HIDE DEF g
  <2> QED
    BY <1>3, <2>1
<1>5. chosen = [d \in 0 .. n |-> IF d = 0 THEN {schema}
                  ELSE UNION {NodesUnder(node, above[d], path[d]) : node \in chosen[d - 1]}]
  BY <1>4, Zenon
<1> HIDE DEF chosen, g
<1>6. 0 \in T
  BY <1>0, <1>1, <1>5
<1>7. ASSUME NEW d \in Nat, d \in T PROVE d + 1 \in T
  <2> SUFFICES ASSUME d + 1 <= n PROVE chosen[d + 1] = {down[d + 1]}
    OBVIOUS
  <2>1. d + 1 \in 0 .. n /\ d + 1 \in 1 .. n /\ (d + 1) - 1 = d /\ d + 1 # 0
    BY <1>1
  <2>2. chosen[d] = {down[d]}
    BY <1>1, <1>7
  <2>3. chosen[d + 1] = UNION {NodesUnder(node, above[d + 1], path[d + 1]) : node \in chosen[d]}
    BY <1>5, <2>1
  <2>4. NodesUnder(down[d], above[d + 1], path[d + 1]) = {down[d + 1]}
    BY <1>0, <2>1
  <2> QED
    BY <2>2, <2>3, <2>4
<1> HIDE DEF T
<1>8. n \in T
  BY <1>1, <1>6, <1>7, NatSetInduction
<1> QED
  BY <1>2, <1>8 DEF T, Sole

\* Of an object, a key has one node.
LEMMA UnderIs ==
  ASSUME NEW node, node.shape = "object", WellFormed(node), NEW i \in DOMAIN node.properties,
         NEW v, v.type = "object"
  PROVE  NodesUnder(node, v, node.properties[i].key) = {node.properties[i].node}
<1> DEFINE props == node.properties
           key == props[i].key
<1>1. \A j \in DOMAIN props : props[j].key = key => j = i
  BY DEF WellFormed
<1>2. Properties(node, v) = {props[j] : j \in DOMAIN props}
  BY DEF Properties, ToSet
<1>3. {q \in Properties(node, v) : q.key = key} = {props[i]}
  BY <1>1, <1>2
<1>4. NodesUnder(node, v, key) = {p.node : p \in {q \in Properties(node, v) : q.key = key}}
  BY DEF NodesUnder
<1> HIDE DEF props, key
<1>5. {p.node : p \in {props[i]}} = {props[i].node}
  OBVIOUS
<1> QED
  BY <1>3, <1>4, <1>5 DEF props, key

\* A document: what is in it is in something, and no key is "[]".
Document(values) ==
  \A p \in DOMAIN values :
    /\ IsSeq(p) /\ "[]" \notin ToSet(p)
    /\ \A i \in 0 .. Len(p) : SubSeq(p, 1, i) \in DOMAIN values

\* The way down to path is through objects, none of them an item.
Through(values, path) ==
  \A i \in 0 .. Len(path) - 1 :
    LET above == SubSeq(path, 1, i)
    IN  above \in DOMAIN values /\ values[above].type = "object" /\ "[]" \notin ToSet(above)

LEMMA ChainNodes ==
  ASSUME NEW schema, NEW f, FieldOK(f), NEW down, Chain(schema, f, down),
         NEW values, Through(values, f.path), NEW n \in 0 .. Len(f.path),
         NEW p, p = SubSeq(f.path, 1, n)
  PROVE  Sole(NodesFor(schema, Above(values, p), p), down[n])
<1> DEFINE path == f.path
           above == Above(values, p)
<1>1. IsSeq(path) /\ Len(path) \in Nat
  BY SeqIsSeq DEF FieldOK
<1>2. IsSeq(p) /\ Len(p) = n /\ \A i \in 1 .. n : p[i] = path[i]
  BY <1>1, FrontIs
<1>3. ASSUME NEW d \in 1 .. n
      PROVE  NodesUnder(down[d - 1], above[d], p[d]) = {down[d]}
  <2> DEFINE q == SubSeq(path, 1, d - 1)
  <2>1. d - 1 \in 0 .. n /\ d - 1 \in 0 .. Len(path) /\ d - 1 \in 0 .. Len(path) - 1
        /\ d \in 1 .. Len(path) /\ d \in 0 .. Len(path)
    BY <1>1
  <2>2. SubSeq(p, 1, d - 1) = q
    <3> DEFINE r == SubSeq(p, 1, d - 1)
    <3>1. IsSeq(r) /\ Len(r) = d - 1 /\ \A i \in 1 .. d - 1 : r[i] = p[i]
      BY <1>2, <2>1, FrontIs
    <3>2. IsSeq(q) /\ Len(q) = d - 1 /\ \A i \in 1 .. d - 1 : q[i] = path[i]
      BY <1>1, <2>1, FrontIs
    <3> HIDE DEF r, q
    <3>3. \A i \in 1 .. Len(r) : r[i] = q[i]
      BY <1>2, <3>1, <3>2
    <3>4. r = q
      BY <3>1, <3>2, <3>3, SeqsEqual
    <3> QED
      BY <3>4 DEF r
  <2>3. above[d] = values[q]
    BY <1>2, <2>2 DEF Above
  <2>4. q \in DOMAIN values /\ values[q].type = "object"
    BY <2>1 DEF Through
  <2>5. Leads(down[d - 1], path[d], down[d]) /\ WellFormed(down[d - 1])
    BY <2>1 DEF Chain
  <2>6. down[d - 1].shape = "object"
    <3>1. CASE d = Len(path)
      BY <3>1 DEF Chain, OwnField
    <3>2. CASE d # Len(path)
      <4> SUFFICES ASSUME down[d - 1].shape = "array", path[d] = "[]" PROVE FALSE
        BY <2>5 DEF Leads
      <4>1. d \in 0 .. Len(path) - 1
        BY <2>1, <3>2
      <4>2. "[]" \notin ToSet(SubSeq(path, 1, d))
        BY <4>1 DEF Through
      <4>3. IsSeq(SubSeq(path, 1, d)) /\ Len(SubSeq(path, 1, d)) = d /\ SubSeq(path, 1, d)[d] = path[d]
        BY <1>1, <2>1, FrontIs
      <4>4. path[d] \in ToSet(SubSeq(path, 1, d))
        BY <4>3, SeqIsSeq DEF ToSet
      <4> QED
        BY <4>2, <4>4
    <3> QED
      BY <3>1, <3>2
  <2>7. PICK i \in DOMAIN down[d - 1].properties :
          /\ down[d - 1].properties[i].key = path[d]
          /\ down[d - 1].properties[i].node = down[d]
    BY <2>5, <2>6 DEF Leads
  <2>8. NodesUnder(down[d - 1], values[q], path[d]) = {down[d]}
    <3> DEFINE node == down[d - 1]
               v == values[q]
    <3>1. /\ node.shape = "object" /\ WellFormed(node) /\ v.type = "object"
          /\ i \in DOMAIN node.properties /\ node.properties[i].key = path[d]
          /\ node.properties[i].node = down[d]
      BY <2>4, <2>5, <2>6, <2>7
    <3> HIDE DEF node, v
    <3>2. NodesUnder(node, v, node.properties[i].key) = {node.properties[i].node}
      BY <3>1, UnderIs
    <3> QED
      BY <3>1, <3>2 DEF node, v
  <2> QED
    BY <1>2, <2>3, <2>8
<1>4. down[0] = schema
  BY DEF Chain
<1> HIDE DEF above
<1>5. Sole(NodesFor(schema, above, p), down[Len(p)])
  <2>1. Unforked(schema, above, p, down)
    BY <1>2, <1>3, <1>4 DEF Unforked
  <2> QED
    BY <1>2, <2>1, NodesForIs
<1> QED
  BY <1>2, <1>5 DEF above

\* The limits of node that v breaks, and the properties that are not there.
Broken(node, v) == {c \in DOMAIN node.limits : Breaks(c, node.limits[c], v)}
Lost(node, values, p) ==
  {q \in Properties(node, values[p]) : q.required /\ Append(p, q.key) \notin DOMAIN values}

\* What a fault is, and what none is.
LEMMA Mistyped ==
  ASSUME NEW node, NEW values, NEW p, ~TypeFits(values[p], node.type)
  PROVE  Sole(FaultsOf(node, values, p), <<p, "type">>)
BY DEF FaultsOf, Sole

LEMMA FaultIs ==
  ASSUME NEW node, NEW values, NEW p, TypeFits(values[p], node.type), NEW x
  PROVE  x \in FaultsOf(node, values, p) <=>
           \/ \E c \in Broken(node, values[p]) : x = <<p, c>>
           \/ \E q \in Lost(node, values, p) : x = <<Append(p, q.key), "required">>
BY DEF FaultsOf, Broken, Lost

LEMMA NoFaults ==
  ASSUME NEW node, NEW values, NEW p, FaultsOf(node, values, p) = {}
  PROVE  TypeFits(values[p], node.type) /\ Broken(node, values[p]) = {} /\ Lost(node, values, p) = {}
<1>1. TypeFits(values[p], node.type)
  BY Mistyped DEF Sole
<1> QED
  BY <1>1, FaultIs

\* edited is values but for what is at path or below it.
Edited(values, edited, path) ==
  /\ \A p \in DOMAIN edited : p = path \/ (p \in DOMAIN values /\ ~IsPrefix(path, p))
  /\ \A p \in DOMAIN values : ~IsPrefix(path, p) => p \in DOMAIN edited /\ edited[p] = values[p]

LEMMA ElsewhereSame ==
  ASSUME NEW schema, NEW values, Document(values), Faults(schema, values) = {},
         NEW path, IsSeq(path), NEW edited, Edited(values, edited, path),
         NEW p \in DOMAIN edited, p # path, NEW x \in FaultsAt(schema, edited, p)
  PROVE  x = <<path, "required">> /\ path \notin DOMAIN edited
<1>1. p \in DOMAIN values /\ ~IsPrefix(path, p) /\ edited[p] = values[p] /\ IsSeq(p)
  BY DEF Edited, Document
<1>2. Above(edited, p) = Above(values, p)
  <2>1. ASSUME NEW d \in 1 .. Len(p) PROVE edited[SubSeq(p, 1, d - 1)] = values[SubSeq(p, 1, d - 1)]
    <3>1. d - 1 \in 0 .. Len(p)
      BY <1>1, SeqIsSeq
    <3>2. SubSeq(p, 1, d - 1) \in DOMAIN values
      BY <1>1, <3>1 DEF Document
    <3>3. ~IsPrefix(path, SubSeq(p, 1, d - 1))
      BY <1>1, <3>1, OutsideAbove
    <3> QED
      BY <3>2, <3>3 DEF Edited
  <2> QED
    BY <2>1 DEF Above
<1>3. PICK node \in NodesFor(schema, Above(edited, p), p) : x \in FaultsOf(node, edited, p)
  BY DEF FaultsAt
<1>4. FaultsOf(node, values, p) = {}
  <2>1. FaultsOf(node, values, p) \subseteq FaultsAt(schema, values, p)
    BY <1>2, <1>3 DEF FaultsAt
  <2>2. FaultsAt(schema, values, p) \subseteq Faults(schema, values)
    BY <1>1 DEF Faults
  <2> QED
    BY <2>1, <2>2
<1>5. TypeFits(edited[p], node.type) /\ Broken(node, edited[p]) = {} /\ Lost(node, values, p) = {}
  BY <1>1, <1>4, NoFaults
<1>6. PICK q \in Lost(node, edited, p) : x = <<Append(p, q.key), "required">>
  BY <1>3, <1>5, FaultIs
<1>7. q \in Properties(node, values[p]) /\ q.required /\ Append(p, q.key) \notin DOMAIN edited
  BY <1>1 DEF Lost
<1>8. Append(p, q.key) \in DOMAIN values
  BY <1>5, <1>7 DEF Lost
<1>9. IsPrefix(path, Append(p, q.key))
  BY <1>7, <1>8 DEF Edited
<1>10. Append(p, q.key) = path
  BY <1>1, <1>9, OnlyPath
<1> QED
  BY <1>6, <1>7, <1>10

\* The nodes above path, and path's own.
LEMMA ThroughEdited ==
  ASSUME NEW values, NEW path, IsSeq(path), Through(values, path), NEW edited,
         Edited(values, edited, path)
  PROVE  Through(edited, path)
<1> SUFFICES ASSUME NEW i \in 0 .. Len(path) - 1
             PROVE  /\ SubSeq(path, 1, i) \in DOMAIN edited
                    /\ edited[SubSeq(path, 1, i)].type = "object"
                    /\ "[]" \notin ToSet(SubSeq(path, 1, i))
  BY DEF Through
<1>1. ~IsPrefix(path, SubSeq(path, 1, i))
  BY NotAbove
<1> QED
  BY <1>1 DEF Through, Edited

\* A body without a field that is required lacks that field.
LEMMA OmissionFaults ==
  ASSUME NEW schema, NEW f, FieldOK(f), f.required, NEW down, Chain(schema, f, down),
         NEW values, Document(values), Faults(schema, values) = {}, Through(values, f.path),
         NEW edited, Edited(values, edited, f.path), f.path \notin DOMAIN edited
  PROVE  Faults(schema, edited) = {<<f.path, "required">>}
<1> DEFINE path == f.path
           n == Len(path)
           p == SubSeq(path, 1, n - 1)
           node == down[n - 1]
<1>1. IsSeq(path) /\ path # << >> /\ n \in Nat /\ n >= 1 /\ Append(p, path[n]) = path
  BY SeqIsSeq, NotAbove DEF FieldOK
<1>2. ASSUME NEW x \in Faults(schema, edited) PROVE x = <<path, "required">>
  <2>1. PICK q \in DOMAIN edited : x \in FaultsAt(schema, edited, q)
    BY DEF Faults
  <2>2. q # path
    BY <2>1
  <2> QED
    BY <1>1, <2>1, <2>2, ElsewhereSame
<1>3. <<path, "required">> \in Faults(schema, edited)
  <2>0. n - 1 \in 0 .. n /\ n - 1 \in 0 .. n - 1
    BY <1>1
  <2>1. Through(edited, path)
    BY <1>1, ThroughEdited
  <2>2. p \in DOMAIN edited /\ edited[p].type = "object" /\ p \in DOMAIN values
    BY <2>0, <2>1 DEF Through
  <2>3. /\ NodesFor(schema, Above(edited, p), p) = {node}
        /\ NodesFor(schema, Above(values, p), p) = {node}
    <3>1. Sole(NodesFor(schema, Above(edited, p), p), node)
      BY <2>0, <2>1, ChainNodes
    <3>2. Sole(NodesFor(schema, Above(values, p), p), node)
      BY <2>0, ChainNodes
    <3> QED
      BY <3>1, <3>2 DEF Sole
  <2>4. edited[p] = values[p]
    <3>1. ~IsPrefix(path, p)
      BY <1>1, <2>0, NotAbove
    <3> QED
      BY <2>2, <3>1 DEF Edited
  <2>5. FaultsOf(node, values, p) = {}
    <3>1. FaultsOf(node, values, p) \subseteq FaultsAt(schema, values, p)
      BY <2>3 DEF FaultsAt
    <3>2. FaultsAt(schema, values, p) \subseteq Faults(schema, values)
      BY <2>2 DEF Faults
    <3> QED
      BY <3>1, <3>2
  <2>6. TypeFits(edited[p], node.type)
    BY <2>4, <2>5, NoFaults
  <2>7. PICK i \in DOMAIN node.properties :
          node.properties[i].key = path[n] /\ node.properties[i].required
    BY DEF Chain, OwnField
  <2> DEFINE r == node.properties[i]
  <2>8. r \in Properties(node, edited[p]) /\ r.key = path[n] /\ r.required
    BY <2>2, <2>7 DEF Properties, ToSet, Chain, OwnField
  <2> HIDE DEF r, node, p
  <2>9. <<Append(p, r.key), "required">> \in FaultsOf(node, edited, p)
    <3>1. Append(p, r.key) = path
      BY <1>1, <2>8 DEF p
    <3>2. r \in Lost(node, edited, p)
      BY <2>8, <3>1 DEF Lost
    <3> QED
      BY <2>6, <3>2, FaultIs
  <2>10. FaultsOf(node, edited, p) \subseteq FaultsAt(schema, edited, p)
    BY <2>3 DEF FaultsAt
  <2>11. FaultsAt(schema, edited, p) \subseteq Faults(schema, edited)
    BY <2>2 DEF Faults
  <2> QED
    BY <1>1, <2>8, <2>9, <2>10, <2>11
<1> QED
  BY <1>2, <1>3

\* A body with another value in a field has that field's faults.
LEMMA SubstitutionFaults ==
  ASSUME NEW schema, NEW f, FieldOK(f), NEW down, Chain(schema, f, down),
         NEW values, Document(values), Faults(schema, values) = {}, Through(values, f.path),
         NEW edited, Edited(values, edited, f.path), f.path \in DOMAIN edited,
         edited[f.path].type # "object"
  PROVE  LET v == edited[f.path]
         IN  /\ ~TypeFits(v, f.type) => Faults(schema, edited) = {<<f.path, "type">>}
             /\ TypeFits(v, f.type) =>
                  Faults(schema, edited) =
                    {<<f.path, c>> : c \in {d \in DOMAIN f.limits : Breaks(d, f.limits[d], v)}}
<1> DEFINE path == f.path
           n == Len(path)
           node == down[n]
           v == edited[path]
<1>1. IsSeq(path) /\ n \in Nat /\ n \in 0 .. n
  BY SeqIsSeq DEF FieldOK
<1>2. SubSeq(path, 1, n) = path
  <2> DEFINE s == SubSeq(path, 1, n)
  <2>1. IsSeq(s) /\ Len(s) = n /\ \A i \in 1 .. n : s[i] = path[i]
    BY <1>1, FrontIs
  <2> HIDE DEF s
  <2>2. s = path
    BY <1>1, <2>1, SeqsEqual
  <2> QED
    BY <2>2 DEF s
<1>3. Through(edited, path)
  BY <1>1, ThroughEdited
<1>4. NodesFor(schema, Above(edited, path), path) = {node}
  <2>1. Sole(NodesFor(schema, Above(edited, path), path), node)
    BY <1>1, <1>2, <1>3, ChainNodes
  <2> QED
    BY <2>1 DEF Sole
<1>5. FaultsAt(schema, edited, path) = FaultsOf(node, edited, path)
  BY <1>4 DEF FaultsAt
<1>6. ASSUME NEW p \in DOMAIN edited, p # path PROVE FaultsAt(schema, edited, p) = {}
  <2>1. ASSUME NEW x \in FaultsAt(schema, edited, p) PROVE FALSE
    BY <1>1, <1>6, <2>1, ElsewhereSame
  <2> QED
    BY <2>1
<1>7. Faults(schema, edited) = FaultsOf(node, edited, path)
  BY <1>5, <1>6 DEF Faults
<1>8. Lost(node, edited, path) = {}
  BY DEF Lost, Properties
<1>9. node.type = f.type /\ node.limits = f.limits
  BY DEF Chain, OwnField
<1> HIDE DEF node
<1>10. CASE ~TypeFits(v, f.type)
  BY <1>7, <1>9, <1>10, Mistyped DEF Sole
<1>11. CASE TypeFits(v, f.type)
  <2>1. \A x : x \in FaultsOf(node, edited, path) <=> \E c \in Broken(node, v) : x = <<path, c>>
    BY <1>8, <1>9, <1>11, FaultIs
  <2>2. Broken(node, v) = {d \in DOMAIN f.limits : Breaks(d, f.limits[d], v)}
    BY <1>9 DEF Broken
  <2>3. Faults(schema, edited) = {<<path, c>> : c \in Broken(node, v)}
    BY <1>7, <2>1
  <2> QED
    BY <1>11, <2>2, <2>3
<1> QED
  BY <1>10, <1>11
-----------------------------------------------------------------------------
(* The bodies of the cases.                                                *)

\* f is the field that body case c of e is about.
CaseField(e, c, f) ==
  /\ HasSchema(e) /\ FieldOK(f) /\ \E down : Chain(e.body_schema, f, down)
  /\ c.what = f.path /\ FieldOf(e, c.what) = f /\ f \in ToSet(FieldsOf(e))
  /\ c.kind = "required_field_omission_returns_400" => f.required
  /\ c.kind = "type_violation_returns_400" => f.type # "unknown" /\ FieldType(e, c) = f.type
  /\ c.kind = "boundary_battery" =>
       /\ c.bound[1] \in DOMAIN f.limits /\ c.bound[1] \in ToSet(Constraints)
       /\ Sided(c.bound[1], f.limits[c.bound[1]], c.bound[2], c.bound[3])

LEMMA FieldOfIs ==
  ASSUME NEW e, EndpointOK(e), NEW i \in DOMAIN FieldsOf(e)
  PROVE  LET f == FieldsOf(e)[i]
         IN  /\ HasSchema(e) /\ FieldOK(f) /\ \E down : Chain(e.body_schema, f, down)
             /\ FieldOf(e, f.path) = f /\ f \in ToSet(FieldsOf(e))
<1> DEFINE fields == FieldsOf(e)
           f == fields[i]
<1>1. Sound(fields)
  BY FieldsSound
<1>2. f \in ToSet(fields)
  BY DEF ToSet
<1>3. FieldOK(f)
  BY <1>1, <1>2 DEF Sound
<1>4. \A k \in DOMAIN fields : fields[k].path = f.path => k = i
  BY <1>1 DEF Sound
<1> HIDE DEF fields, f
<1>5. FieldOf(e, f.path) = f
  <2>1. FieldOf(e, f.path) = fields[CHOOSE k \in DOMAIN fields : fields[k].path = f.path]
    BY DEF FieldOf, fields
  <2>2. i \in DOMAIN fields /\ fields[i].path = f.path /\ f = fields[i]
    BY DEF f, fields
  <2>3. (CHOOSE k \in DOMAIN fields : fields[k].path = f.path) = i
    BY <1>4, <2>2
  <2> QED
    BY <2>1, <2>2, <2>3
<1>6. HasSchema(e) /\ fields = Walk(e.body_schema) /\ SchemaOK(e.body_schema)
  <2>1. HasSchema(e)
    BY DEF fields, FieldsOf
  <2> QED
    BY <2>1 DEF fields, FieldsOf, EndpointOK
<1>7. \E down : Chain(e.body_schema, f, down)
  BY <1>2, <1>6, WalkLeads
<1> QED
  BY <1>2, <1>3, <1>5, <1>6, <1>7 DEF f, fields

LEMMA CaseFieldIs ==
  ASSUME NEW e, EndpointOK(e), NEW c \in ToSet(RawCases(e)), c.kind \in BodyKinds
  PROVE  \E f : CaseField(e, c, f)
<1>1. RawCase(e, c)
  BY RawCaseIs
<1>2. CASE c.kind = "boundary_battery"
  <2>1. PICK f \in ToSet(FieldsOf(e)) :
          /\ c.what = f.path /\ c.bound[1] \in DOMAIN f.limits
          /\ c.bound[1] \in ToSet(Constraints)
          /\ Sided(c.bound[1], f.limits[c.bound[1]], c.bound[2], c.bound[3])
    BY <1>1, <1>2 DEF RawCase, Straddles
  <2>2. PICK i \in DOMAIN FieldsOf(e) : f = FieldsOf(e)[i]
    BY DEF ToSet
  <2>3. /\ HasSchema(e) /\ FieldOK(f) /\ \E down : Chain(e.body_schema, f, down)
        /\ FieldOf(e, f.path) = f /\ f \in ToSet(FieldsOf(e))
    BY <2>2, FieldOfIs
  <2>4. CaseField(e, c, f)
    BY <1>2, <2>1, <2>3 DEF CaseField
  <2> QED
    BY <2>4
<1>3. CASE c.kind # "boundary_battery"
  <2>1. AboutField(e, c)
    BY <1>1, <1>3 DEF RawCase, BodyKinds
  <2>2. PICK i \in DOMAIN FieldsOf(e) :
          /\ c.ordinal = i - 1 /\ c.what = FieldsOf(e)[i].path
          /\ c.kind = "required_field_omission_returns_400" => FieldsOf(e)[i].required
          /\ c.kind = "type_violation_returns_400" => FieldsOf(e)[i].type # "unknown"
    BY <2>1 DEF AboutField
  <2> DEFINE f == FieldsOf(e)[i]
  <2>3. /\ HasSchema(e) /\ FieldOK(f) /\ \E down : Chain(e.body_schema, f, down)
        /\ FieldOf(e, f.path) = f /\ f \in ToSet(FieldsOf(e))
    BY FieldOfIs
  <2>4. i \in Int
    BY FieldsSound DEF Sound, IsSeq
  <2>5. c.ordinal + 1 = i
    BY <2>2, <2>4
  <2>6. CaseField(e, c, f)
    BY <1>3, <2>2, <2>3, <2>5 DEF CaseField, FieldType
  <2> QED
    BY <2>6
<1> QED
  BY <1>2, <1>3

\* What a feasible case says of the example.
LEMMA FeasibleIs ==
  ASSUME NEW e, BodyOK(e.example), NEW c, Feasible(e, c), NEW f, CaseField(e, c, f)
  PROVE  /\ e.example.kind = "json" /\ e.example = Json(e.example.at)
         /\ Document(e.example.at) /\ Through(e.example.at, f.path)
         /\ Faults(e.body_schema, e.example.at) = {}
         /\ Reaches(e.example, f.path)
<1> DEFINE values == e.example.at
           path == f.path
<1>1. e.example.kind = "json" /\ c.what = path /\ HasSchema(e)
  BY DEF Feasible, CaseField
<1>2. e.example # NoBody
  BY <1>1 DEF NoBody
<1>3. e.example = Json(values) /\ Document(values)
  BY <1>2 DEF BodyOK, Document
<1>4. Faults(e.body_schema, values) = {}
  BY <1>1 DEF Feasible, ExampleValid, BodyFaults
<1>5. ASSUME NEW i \in 0 .. Len(path) - 1
      PROVE  SubSeq(path, 1, i) \in DOMAIN values /\ values[SubSeq(path, 1, i)].type = "object"
  BY <1>1 DEF Feasible
<1>6. Through(values, path)
  BY <1>3, <1>5 DEF Through, Document
<1>7. Reaches(e.example, path)
  BY <1>1, <1>5 DEF Reaches, IsContainer
<1> QED
  BY <1>1, <1>3, <1>4, <1>6, <1>7

\* What a body case sends.
LEMMA Mutated ==
  ASSUME NEW e, NEW c
  PROVE  LET body == MutatedRequest(e, c).body
         IN  /\ c.kind = "required_field_omission_returns_400" =>
                  body = OmitAtPath(e.example, c.what)
             /\ c.kind = "type_violation_returns_400" =>
                  body = SubstituteAtPath(e.example, c.what,
                                          WrongTypeValue(WrongType(FieldType(e, c))))
             /\ c.kind = "boundary_battery" =>
                  body = SubstituteAtPath(e.example, c.what, BoundaryValue(c.bound))
<1>1. CASE c.kind = "required_field_omission_returns_400"
  BY <1>1 DEF MutatedRequest, MutateRequest, BuildBaseRequest
<1>2. CASE c.kind = "type_violation_returns_400"
  BY <1>2 DEF MutatedRequest, MutateRequest, BuildBaseRequest
<1>3. CASE c.kind = "boundary_battery"
  BY <1>3 DEF MutatedRequest, MutateRequest, BuildBaseRequest
<1> QED
  BY <1>1, <1>2, <1>3

\* The schema's faults in a body with a substitute.
LEMMA SubstituteBites ==
  ASSUME NEW e, BodyOK(e.example), NEW c, Feasible(e, c), NEW f, CaseField(e, c, f),
         c.kind # "required_field_omission_returns_400", NEW v, v.type # "object"
  PROVE  LET body == SubstituteAtPath(e.example, c.what, v)
             faults == BodyFaults(e, body)
         IN  /\ body.kind = "json" /\ f.path \in DOMAIN body.at /\ body.at[f.path] = v
             /\ ~TypeFits(v, f.type) => faults = {<<f.path, "type">>}
             /\ TypeFits(v, f.type) => faults = {<<f.path, d>> : d \in Broken(f, v)}
<1> DEFINE values == e.example.at
           path == f.path
           S == Outside(e.example, path)
           edited == [p \in S \union {path} |-> IF p = path THEN v ELSE values[p]]
<1>1. /\ e.example.kind = "json" /\ Document(values) /\ Through(values, path)
      /\ Faults(e.body_schema, values) = {} /\ Reaches(e.example, path)
  BY FeasibleIs
<1>2. ToSet(path) \intersect UnsafeSegments = {} /\ c.what = path /\ FieldOK(f) /\ HasSchema(e)
  BY DEF Feasible, CaseField
<1>3. SubstituteAtPath(e.example, c.what, v) = Json(edited)
  BY <1>1, <1>2 DEF SubstituteAtPath
<1>4. Json(edited).at = edited /\ Json(edited).kind = "json"
  BY DEF Json
<1>5. S = {p \in DOMAIN values : ~IsPrefix(path, p)} /\ path \notin S
  <2>1. IsPrefix(path, path)
    BY <1>2, NotAbove DEF FieldOK
  <2> QED
    BY <2>1 DEF Outside
<1>6. Edited(values, edited, path) /\ path \in DOMAIN edited /\ edited[path] = v
  BY <1>5 DEF Edited
<1>7. BodyFaults(e, Json(edited)) = Faults(e.body_schema, edited)
  BY <1>2, <1>4 DEF BodyFaults
<1> HIDE DEF edited, S
<1>8. PICK down : Chain(e.body_schema, f, down)
  BY DEF CaseField
<1>9. /\ ~TypeFits(v, f.type) => Faults(e.body_schema, edited) = {<<path, "type">>}
      /\ TypeFits(v, f.type) =>
           Faults(e.body_schema, edited) =
             {<<path, d>> : d \in {x \in DOMAIN f.limits : Breaks(x, f.limits[x], v)}}
  BY <1>1, <1>2, <1>6, <1>8, SubstitutionFaults
<1>10. Broken(f, v) = {x \in DOMAIN f.limits : Breaks(x, f.limits[x], v)}
  BY DEF Broken
<1> QED
  BY <1>3, <1>4, <1>6, <1>7, <1>9, <1>10

\* A boundary value breaks its own limit from outside.
LEMMA BoundaryBreaks ==
  ASSUME NEW limit, NEW bound, bound[1] \in ToSet(Constraints), bound[1] # "enum" => limit \in Int,
         Sided(bound[1], limit, bound[2], bound[3])
  PROVE  /\ Breaks(bound[1], limit, BoundaryValue(bound)) <=> bound[2] # "inside"
         /\ BoundaryValue(bound).type \in {"number", "string"}
<1>1. bound[1] \in {"minimum", "maximum", "minLength", "maxLength", "enum"}
  BY DEF ToSet, Constraints
<1> DEFINE v == BoundaryValue(bound)
<1>2. CASE bound[1] \in {"minimum", "maximum"}
  <2>1. v = Number(bound[3])
    BY <1>2 DEF BoundaryValue
  <2>2. v.type = "number" /\ v.n = bound[3]
    BY <2>1 DEF Number, Value
  <2>3. limit \in Int /\ bound[3] \in Int /\ (Satisfies(bound[3], bound[1], limit) <=> bound[2] = "inside")
    BY <1>2 DEF Sided
  <2>4. CASE bound[1] = "minimum"
    <3>1. bound[3] >= limit <=> bound[2] = "inside"
      BY <2>3, <2>4 DEF Satisfies
    <3>2. Breaks(bound[1], limit, v) <=> v.n < limit
      BY <2>2, <2>4 DEF Breaks
    <3> QED
      BY <2>2, <2>3, <3>1, <3>2
  <2>5. CASE bound[1] = "maximum"
    <3>1. bound[3] <= limit <=> bound[2] = "inside"
      BY <2>3, <2>5 DEF Satisfies
    <3>2. Breaks(bound[1], limit, v) <=> v.n > limit
      BY <2>2, <2>5 DEF Breaks
    <3> QED
      BY <2>2, <2>3, <3>1, <3>2
  <2> QED
    BY <1>2, <2>4, <2>5
<1>3. CASE bound[1] \in {"minLength", "maxLength"}
  <2>1. v = Repeated(bound[3])
    BY <1>3 DEF BoundaryValue
  <2>2. v.type = "string" /\ v.n = bound[3]
    BY <2>1 DEF Repeated, Value
  <2>3. limit \in Int /\ bound[3] \in Int /\ (Satisfies(bound[3], bound[1], limit) <=> bound[2] = "inside")
    BY <1>3 DEF Sided
  <2>4. CASE bound[1] = "minLength"
    <3>1. bound[3] >= limit <=> bound[2] = "inside"
      BY <2>3, <2>4 DEF Satisfies
    <3>2. Breaks(bound[1], limit, v) <=> v.n < limit
      BY <2>2, <2>4 DEF Breaks
    <3> QED
      BY <2>2, <2>3, <3>1, <3>2
  <2>5. CASE bound[1] = "maxLength"
    <3>1. bound[3] <= limit <=> bound[2] = "inside"
      BY <2>3, <2>5 DEF Satisfies
    <3>2. Breaks(bound[1], limit, v) <=> v.n > limit
      BY <2>2, <2>5 DEF Breaks
    <3> QED
      BY <2>2, <2>3, <3>1, <3>2
  <2> QED
    BY <1>3, <2>4, <2>5
<1>4. CASE bound[1] = "enum"
  <2>1. v = Word(bound[3])
    BY <1>4 DEF BoundaryValue
  <2>2. v.type = "string" /\ v.s = bound[3]
    BY <2>1 DEF Word, Value
  <2>3. bound[3] \in ToSet(limit) <=> bound[2] = "inside"
    BY <1>4 DEF Sided, Satisfies
  <2>4. Breaks(bound[1], limit, v) <=> v.s \notin ToSet(limit)
    BY <1>4 DEF Breaks
  <2> QED
    BY <2>2, <2>3, <2>4
<1> QED
  BY <1>1, <1>2, <1>3, <1>4

\* What is wrong with the body of a feasible case.
Bitten(e, c, f) ==
  LET faults == BodyFaults(e, MutatedRequest(e, c).body)
      v == BoundaryValue(c.bound)
  IN  /\ c.kind = "required_field_omission_returns_400" => faults = {<<c.what, "required">>}
      /\ c.kind = "type_violation_returns_400" => faults = {<<c.what, "type">>}
      /\ c.kind = "boundary_battery" =>
           /\ faults = {<<c.what, d>> : d \in Broken(f, v)}
           /\ c.bound[1] \in Broken(f, v) <=> c.bound[2] # "inside"

LEMMA CaseBites ==
  ASSUME NEW e, BodyOK(e.example), NEW c, c.kind \in BodyKinds, Feasible(e, c),
         NEW f, CaseField(e, c, f)
  PROVE  Bitten(e, c, f)
<1> DEFINE body == MutatedRequest(e, c).body
           values == e.example.at
           path == f.path
<1>1. c.what = path /\ FieldOK(f) /\ HasSchema(e)
  BY DEF CaseField
<1>2. CASE c.kind = "required_field_omission_returns_400"
  <2>1. body = OmitAtPath(e.example, path)
    BY <1>1, <1>2, Mutated
  <2>2. /\ Document(values) /\ Through(values, path)
        /\ Faults(e.body_schema, values) = {} /\ Reaches(e.example, path)
    BY FeasibleIs
  <2> DEFINE edited == Restrict(values, Outside(e.example, path))
  <2>3. body = Json(edited)
    BY <2>1, <2>2 DEF OmitAtPath
  <2>4. body.at = edited /\ body.kind = "json"
    BY <2>3 DEF Json
  <2>5. BodyFaults(e, body) = Faults(e.body_schema, edited)
    BY <1>1, <2>4 DEF BodyFaults
  <2>6. IsPrefix(path, path)
    BY <1>1, NotAbove DEF FieldOK
  <2>7. Edited(values, edited, path) /\ path \notin DOMAIN edited
    BY <2>6 DEF Edited, Restrict, Outside
  <2> HIDE DEF edited, body
  <2>8. PICK down : Chain(e.body_schema, f, down)
    BY DEF CaseField
  <2>9. f.required
    BY <1>2 DEF CaseField
  <2>10. Faults(e.body_schema, edited) = {<<path, "required">>}
    BY <1>1, <2>2, <2>7, <2>8, <2>9, OmissionFaults
  <2> QED
    BY <1>1, <1>2, <2>5, <2>10 DEF Bitten, body
<1>3. CASE c.kind = "type_violation_returns_400"
  <2> DEFINE v == WrongTypeValue(WrongType(FieldType(e, c)))
  <2>1. body = SubstituteAtPath(e.example, c.what, v)
    BY <1>3, Mutated
  <2>2. FieldType(e, c) = f.type /\ f.type # "unknown"
    BY <1>3 DEF CaseField
  <2>3. v.type \in {"number", "string"} /\ ~TypeFits(v, f.type)
    <3>1. CASE f.type = "string"
      <4>1. v = Number(-1)
        BY <2>2, <3>1 DEF WrongType, WrongTypeValue
      <4> QED
        BY <2>2, <3>1, <4>1 DEF Number, Value, TypeFits
    <3>2. CASE f.type # "string"
      <4>1. v = Value("string", 21, "wrong-type-substitute")
        BY <2>2, <3>2 DEF WrongType, WrongTypeValue
      <4> QED
        BY <2>2, <3>2, <4>1 DEF Value, TypeFits
    <3> QED
      BY <3>1, <3>2
  <2> HIDE DEF v
  <2>4. BodyFaults(e, SubstituteAtPath(e.example, c.what, v)) = {<<path, "type">>}
    BY <1>3, <2>3, SubstituteBites
  <2> QED
    BY <1>1, <1>3, <2>1, <2>4 DEF Bitten
<1>4. CASE c.kind = "boundary_battery"
  <2> DEFINE v == BoundaryValue(c.bound)
             limit == f.limits[c.bound[1]]
  <2>1. body = SubstituteAtPath(e.example, c.what, v)
    BY <1>4, Mutated
  <2>2. /\ c.bound[1] \in DOMAIN f.limits /\ c.bound[1] \in ToSet(Constraints)
        /\ Sided(c.bound[1], limit, c.bound[2], c.bound[3])
    BY <1>4 DEF CaseField
  <2>3. c.bound[1] # "enum" => limit \in Int
    BY <1>1, <2>2 DEF FieldOK, LimitsOK
  <2>4. /\ Breaks(c.bound[1], limit, v) <=> c.bound[2] # "inside"
        /\ v.type \in {"number", "string"}
    BY <2>2, <2>3, BoundaryBreaks
  <2>5. TypeFits(v, f.type)
    BY <1>4 DEF Feasible, CaseField
  <2> HIDE DEF v
  <2>6. BodyFaults(e, SubstituteAtPath(e.example, c.what, v)) = {<<path, d>> : d \in Broken(f, v)}
    BY <1>4, <2>4, <2>5, SubstituteBites
  <2>7. c.bound[1] \in Broken(f, v) <=> c.bound[2] # "inside"
    BY <2>2, <2>4 DEF Broken
  <2> QED
    BY <1>1, <1>4, <2>1, <2>6, <2>7 DEF Bitten, v
<1> QED
  BY <1>2, <1>3, <1>4 DEF BodyKinds
-----------------------------------------------------------------------------
(* The agenda of an endpoint.                                              *)

\* Different ordinals have different places.
LEMMA OrdinalsApart ==
  ASSUME NEW m \in Nat, NEW n \in Nat, OrdinalKey(m) = OrdinalKey(n)
  PROVE  m = n
<1>1. \A k \in Nat : /\ k = 10 * (k \div 10) + (k % 10)
                      /\ k \div 10 \in Int /\ k % 10 \in 0 .. 9
  OBVIOUS
<1> DEFINE qm == m \div 10
           rm == m % 10
           qn == n \div 10
           rn == n % 10
<1>2. /\ m = 10 * qm + rm /\ qm \in Int /\ rm \in 0 .. 9
      /\ n = 10 * qn + rn /\ qn \in Int /\ rn \in 0 .. 9
  BY <1>1
<1>3. /\ OrdinalKey(m) = IF m < 10 THEN m * 100 ELSE qm * 100 + 1 + rm
      /\ OrdinalKey(n) = IF n < 10 THEN n * 100 ELSE qn * 100 + 1 + rn
  BY DEF OrdinalKey
<1> HIDE DEF qm, rm, qn, rn
<1>4. CASE m < 10 /\ n < 10
  <2>1. m * 100 = n * 100
    BY <1>3, <1>4
  <2> QED
    BY <2>1
<1>5. CASE ~(m < 10) /\ ~(n < 10)
  BY <1>2, <1>3, <1>5
<1>6. CASE m < 10 /\ ~(n < 10)
  BY <1>2, <1>3, <1>6
<1>7. CASE ~(m < 10) /\ n < 10
  BY <1>2, <1>3, <1>7
<1> QED
  BY <1>4, <1>5, <1>6, <1>7

\* The ids order the cases of an endpoint.
LEMMA IdsOrder ==
  ASSUME NEW e, EndpointOK(e), NEW S, S = ToSet(RawCases(e))
  PROVE  /\ IsFiniteSet(S)
         /\ StrictlyOrders({x \in S \X S : CaseIdBefore(x[1], x[2])}, S)
<1> DEFINE raw == RawCases(e)
           R == {x \in S \X S : CaseIdBefore(x[1], x[2])}
<1>1. PICK K : Group(e, raw, K) /\ K \subseteq Kinds
  BY RawGroup
<1>2. IsSeq(raw) /\ OneToOne(raw, CaseIds(S)) /\ \A c \in S : CaseOK(e, c) /\ c.kind \in Kinds
  BY <1>1 DEF Group
<1> HIDE DEF raw
<1>3. IsFiniteSet(S)
  <2>1. DOMAIN raw = 1 .. Len(raw) /\ Len(raw) \in Nat
    BY <1>2, SeqIsSeq
  <2>2. IsFiniteSet(DOMAIN raw)
    BY <2>1, FS_Interval
  <2> DEFINE place == [i \in DOMAIN raw |-> raw[i]]
  <2>3. S = {raw[i] : i \in DOMAIN raw}
    BY DEF ToSet, raw
  <2>4. place \in Surjection(DOMAIN raw, S)
    BY <2>3 DEF Surjection
  <2> QED
    BY <2>2, <2>4, FS_Surjection
<1>4. ASSUME NEW c \in S, NEW d \in S
      PROVE  /\ c.endpoint = d.endpoint /\ c.ordinal \in Nat /\ c.kind \in Kinds
             /\ KindKey(c.kind) \in Int /\ OrdinalKey(c.ordinal) \in Int /\ e.id \in Int
             /\ c.endpoint = e.id
  BY <1>2, KindKeyIs, OrdinalKeyIs DEF CaseOK, EndpointOK
<1>5. ASSUME NEW c \in S, NEW d \in S, c # d
      PROVE  c.kind # d.kind \/ c.ordinal # d.ordinal
  <2> SUFFICES ASSUME c.kind = d.kind, c.ordinal = d.ordinal PROVE FALSE
    OBVIOUS
  <2>1. PICK i \in DOMAIN raw, j \in DOMAIN raw : c = raw[i] /\ d = raw[j]
    BY DEF ToSet, raw
  <2>2. CaseIds(S)[c] = CaseIds(S)[d]
    BY <1>4 DEF CaseIds
  <2>3. i = j
    BY <1>2, <2>1, <2>2 DEF OneToOne
  <2> QED
    BY <1>5, <2>1, <2>3
<1>6. ASSUME NEW c \in S, NEW d \in S
      PROVE  CaseIdBefore(c, d) <=>
               \/ KindKey(c.kind) < KindKey(d.kind)
               \/ c.kind = d.kind /\ OrdinalKey(c.ordinal) < OrdinalKey(d.ordinal)
  BY <1>4 DEF CaseIdBefore
<1>7. \A c, d \in S : <<c, d>> \in R <=> CaseIdBefore(c, d)
  OBVIOUS
<1> HIDE DEF R
<1>8. \A c, d \in S : CaseIdBefore(c, d) => ~CaseIdBefore(d, c)
  BY <1>4, <1>6
<1>9. ASSUME NEW c \in S, NEW d \in S, c # d
      PROVE  CaseIdBefore(c, d) \/ CaseIdBefore(d, c)
  <2>1. CASE c.kind # d.kind
    <3>1. KindKey(c.kind) # KindKey(d.kind)
      BY <1>4, <2>1, KindKeyIs
    <3> QED
      BY <1>4, <1>6, <3>1
  <2>2. CASE c.kind = d.kind
    <3>1. OrdinalKey(c.ordinal) # OrdinalKey(d.ordinal)
      BY <1>4, <1>5, <1>9, <2>2, OrdinalsApart
    <3> QED
      BY <1>4, <1>6, <2>2, <3>1
  <2> QED
    BY <2>1, <2>2
<1>10. ASSUME NEW b \in S, NEW c \in S, NEW d \in S, CaseIdBefore(b, c), CaseIdBefore(c, d)
       PROVE  CaseIdBefore(b, d)
  BY <1>4, <1>6, <1>10
<1>11. StrictlyOrders(R, S)
  BY <1>7, <1>8, <1>9, <1>10 DEF StrictlyOrders
<1> QED
  BY <1>3, <1>11 DEF R

\* Every place of an ordered agenda holds a case.
LEMMA InOrderIs ==
  ASSUME NEW e, EndpointOK(e)
  PROVE  LET s == InOrder(ToSet(RawCases(e)))
         IN  IsSeq(s) /\ \A i \in DOMAIN s : s[i] \in ToSet(RawCases(e))
<1> DEFINE S == ToSet(RawCases(e))
           R == {x \in S \X S : CaseIdBefore(x[1], x[2])}
           rank == Rank(R, S)
           n == Cardinality(S)
           ranked == {<<Cardinality({d \in S : CaseIdBefore(d, c)}), c>> : c \in S}
           s == InOrder(S)
<1>1. IsFiniteSet(S) /\ StrictlyOrders(R, S)
  BY IdsOrder
<1>2. s = [i \in 1 .. n |-> (CHOOSE x \in ranked : x[1] = i - 1)[2]]
  BY DEF InOrder
<1>3. \A c \in S : rank[c] = Cardinality({d \in S : CaseIdBefore(d, c)})
  <2> TAKE c \in S
  <2>1. {d \in S : <<d, c>> \in R} = {d \in S : CaseIdBefore(d, c)}
    OBVIOUS
  <2> QED
    BY <2>1 DEF Rank
<1>4. ranked = {<<rank[c], c>> : c \in S}
  BY <1>3
<1> HIDE DEF S, R, ranked
<1>5. /\ n \in Nat
      /\ \A r \in 0 .. (n - 1) : \E c \in S : rank[c] = r
  BY <1>1, RanksAreOneToOne
<1> HIDE DEF n, rank, s
<1>6. ASSUME NEW i \in 1 .. n PROVE s[i] \in S
  <2>1. i - 1 \in 0 .. (n - 1)
    BY <1>5
  <2>2. PICK c \in S : rank[c] = i - 1
    BY <1>5, <2>1
  <2>3. <<rank[c], c>> \in ranked /\ <<rank[c], c>>[1] = i - 1
    BY <1>4, <2>2
  <2> DEFINE x == CHOOSE y \in ranked : y[1] = i - 1
  <2>4. x \in ranked
    BY <2>3
  <2>5. s[i] = x[2]
    BY <1>2
  <2> HIDE DEF x
  <2> QED
    BY <1>4, <2>4, <2>5
<1>7. s = [i \in 1 .. n |-> s[i]]
  BY <1>2
<1>8. IsSeq(s) /\ DOMAIN s = 1 .. n
  BY <1>5, <1>7, SeqOfFunction
<1> QED
  BY <1>6, <1>8 DEF s, S
-----------------------------------------------------------------------------
(* The execution.                                                          *)

AgendaOf(e) == InOrder(ToSet(RawCases(e)))

\* What an endpoint of a trial and its agenda are.
LEMMA PlansAre ==
  ASSUME NEW w \in Trials, NEW e \in w.endpoints
  PROVE  /\ EndpointOK(e) /\ BodyOK(e.example)
         /\ Agendas[ById(w.endpoints, e.id)] = AgendaOf(e)
         /\ IsSeq(AgendaOf(e))
         /\ \A i \in DOMAIN AgendaOf(e) : AgendaOf(e)[i] \in ToSet(RawCases(e))
<1>1. TrialOK(w)
  BY TrialsAssumption
<1>2. EndpointOK(e) /\ BodyOK(e.example)
  BY <1>1 DEF TrialOK
<1>3. ById(w.endpoints, e.id) = e
  <2>1. \A d \in w.endpoints : d.id = e.id => d = e
    BY <1>1 DEF TrialOK
  <2> QED
    BY <2>1 DEF ById
<1>4. Agendas[e] = AgendaOf(e)
  BY DEF Agendas, AgendaOf
<1> QED
  BY <1>2, <1>3, <1>4, InOrderIs DEF AgendaOf

\* The authentication of a case leaves the body as it is.
LEMMA AuthKeepsBody ==
  ASSUME NEW e, NEW c
  PROVE  FirstRequestOf(e, c).body = MutatedRequest(e, c).body
<1> DEFINE request == MutatedRequest(e, c)
<1>1. AttachAuthHeader(request).body = request.body
  BY DEF AttachAuthHeader
<1>2. GarbageTokenMangle(request).body = request.body
  BY <1>1 DEF GarbageTokenMangle
<1>3. AuthModeFor(e, c) \in {"none", "skip", "apply", "garbage"}
  BY DEF AuthModeFor
<1> HIDE DEF request
<1>4. ApplyAuthForCase(e, c, request).body = request.body
  BY <1>1, <1>2, <1>3 DEF ApplyAuthForCase
<1> QED
  BY <1>4 DEF FirstRequestOf, request

\* The trial and the agenda of a run do not change.
Steady ==
  /\ trial \in Trials
  /\ agenda = [i \in Ids |-> Agendas[ById(Endpoints, i)]]

\* A response is kept for a case that sends two requests.
Held ==
  /\ at \in [Ids -> Nat \ {0}]
  /\ first = [i \in Ids |-> first[i]]
  /\ \A e \in Endpoints : first[e.id] # NoResponse =>
       ~Done(e) /\ Current(e).kind \in TwoRequestKinds

\* The last attempt was at a case of its endpoint's agenda.
Attempted ==
  last # NoAttempt =>
    /\ last.endpoint \in Endpoints
    /\ last.case \in ToSet(RawCases(last.endpoint))
    /\ last.case.kind \in BodyKinds =>
         last.request.body = MutatedRequest(last.endpoint, last.case).body

Base == Steady /\ Held /\ Attempted

LEMMA PlanIs ==
  ASSUME Steady, NEW e \in Endpoints
  PROVE  /\ EndpointOK(e) /\ BodyOK(e.example) /\ e.id \in Ids
         /\ agenda[e.id] = AgendaOf(e)
         /\ IsSeq(agenda[e.id])
         /\ \A i \in DOMAIN agenda[e.id] : agenda[e.id][i] \in ToSet(RawCases(e))
<1>1. e.id \in Ids
  BY DEF Ids
<1> QED
  BY <1>1, PlansAre DEF Steady, Endpoints

LEMMA CurrentIs ==
  ASSUME Steady, at \in [Ids -> Nat \ {0}], NEW e \in Endpoints, ~Done(e)
  PROVE  Current(e) \in ToSet(RawCases(e)) /\ at[e.id] \in DOMAIN agenda[e.id]
<1>1. /\ e.id \in Ids /\ IsSeq(agenda[e.id])
      /\ \A i \in DOMAIN agenda[e.id] : agenda[e.id][i] \in ToSet(RawCases(e))
  BY PlanIs
<1>2. DOMAIN agenda[e.id] = 1 .. Len(agenda[e.id]) /\ Len(agenda[e.id]) \in Nat
  BY <1>1, SeqIsSeq
<1>3. at[e.id] \in DOMAIN agenda[e.id]
  BY <1>1, <1>2 DEF Done
<1> QED
  BY <1>1, <1>3 DEF Current

LEMMA BaseInit ==
  CasesInit => Base
<1> SUFFICES ASSUME CasesInit PROVE Base
  OBVIOUS
<1> USE DEF CasesInit
<1>1. Steady
  BY DEF Steady
<1>2. Held
  <2>1. \A e \in Endpoints : e.id \in Ids
    BY DEF Ids
  <2>2. \A e \in Endpoints : first[e.id] = NoResponse
    BY <2>1
  <2> QED
    BY <2>2 DEF Held
<1>3. Attempted
  BY DEF Attempted
<1> QED
  BY <1>1, <1>2, <1>3 DEF Base

LEMMA BaseStep ==
  Base /\ [CasesNext]_caseVars => Base'
<1> SUFFICES ASSUME Base, [CasesNext]_caseVars PROVE Base'
  OBVIOUS
<1> USE DEF Base
<1>1. CASE UNCHANGED caseVars
  BY <1>1 DEF caseVars, Steady, Held, Attempted, Ids, Endpoints, Done, Current
<1>2. ASSUME trial' = trial, agenda' = agenda
      PROVE  Steady' /\ Endpoints' = Endpoints /\ Ids' = Ids
  BY <1>2 DEF Steady, Ids, Endpoints
<1>3. ASSUME NEW e \in Endpoints, NEW d \in Endpoints, d.id = e.id
      PROVE  d = e
  <2>1. TrialOK(trial)
    BY TrialsAssumption DEF Steady
  <2> QED
    BY <1>3, <2>1 DEF TrialOK, Endpoints
<1>4. ASSUME NEW e \in Endpoints, FirstRequest(e) PROVE Base'
  <2> DEFINE c == Current(e)
             request == FirstRequestOf(e, c)
             answer == AnswerTo(store, request)
  <2>1. Steady' /\ Endpoints' = Endpoints /\ Ids' = Ids
    BY <1>2, <1>4 DEF FirstRequest
  <2>2. ~Done(e) /\ first[e.id] = NoResponse /\ e.id \in Ids
    BY <1>4 DEF FirstRequest, Ids
  <2>3. c \in ToSet(RawCases(e))
    BY <2>2, CurrentIs DEF Held
  <2>4. CASE NeedsSecond(e, c, answer.response)
    <3>1. first' = [first EXCEPT ![e.id] = answer] /\ UNCHANGED <<at, last, failed, agenda>>
      BY <1>4, <2>4 DEF FirstRequest
    <3>2. c.kind \in TwoRequestKinds
      BY <2>4 DEF NeedsSecond
    <3> HIDE DEF answer
    <3>3. Held'
      <4>1. at' \in [Ids' -> Nat \ {0}] /\ first' = [i \in Ids' |-> first'[i]]
        BY <2>1, <2>2, <3>1 DEF Held
      <4>2. ASSUME NEW d \in Endpoints, first'[d.id] # NoResponse
            PROVE  ~Done(d)' /\ (Current(d).kind \in TwoRequestKinds)'
        <5>1. CASE d = e
          BY <2>2, <3>1, <3>2, <5>1 DEF Done, Current
        <5>2. CASE d # e
          <6>1. d.id # e.id /\ d.id \in Ids
            BY <1>3, <5>2 DEF Ids
          <6>2. first[d.id] # NoResponse
            BY <3>1, <4>2, <6>1 DEF Held
          <6> QED
            BY <3>1, <6>2 DEF Held, Done, Current
        <5> QED
          BY <5>1, <5>2
      <4> QED
        BY <2>1, <4>1, <4>2 DEF Held
    <3>4. Attempted'
      BY <2>1, <3>1 DEF Attempted
    <3> QED
      BY <2>1, <3>3, <3>4
  <2>5. CASE ~NeedsSecond(e, c, answer.response)
    <3>1. /\ last'.endpoint = e /\ last'.case = c /\ last'.request = request
          /\ at' = [at EXCEPT ![e.id] = @ + 1] /\ UNCHANGED <<first, agenda>>
      BY <1>4, <2>5 DEF FirstRequest, Conclude
    <3> HIDE DEF answer
    <3>2. Held'
      <4>1. at' \in [Ids' -> Nat \ {0}] /\ first' = [i \in Ids' |-> first'[i]]
        BY <2>1, <2>2, <3>1 DEF Held
      <4>2. ASSUME NEW d \in Endpoints, first'[d.id] # NoResponse
            PROVE  ~Done(d)' /\ (Current(d).kind \in TwoRequestKinds)'
        <5>1. d # e
          BY <2>2, <3>1, <4>2
        <5>2. d.id # e.id /\ d.id \in Ids
          BY <1>3, <5>1 DEF Ids
        <5>3. at'[d.id] = at[d.id]
          BY <3>1, <5>2 DEF Held
        <5> QED
          BY <3>1, <4>2, <5>3 DEF Held, Done, Current
      <4> QED
        BY <2>1, <4>1, <4>2 DEF Held
    <3>3. Attempted'
      BY <2>1, <2>3, <3>1, AuthKeepsBody DEF Attempted
    <3> QED
      BY <2>1, <3>2, <3>3
  <2> QED
    BY <2>4, <2>5
<1>5. ASSUME NEW e \in Endpoints, SecondRequest(e) PROVE Base'
  <2> DEFINE c == Current(e)
  <2>1. Steady' /\ Endpoints' = Endpoints /\ Ids' = Ids
    BY <1>2, <1>5 DEF SecondRequest
  <2>2. first[e.id] # NoResponse /\ e.id \in Ids
    BY <1>5 DEF SecondRequest, Ids
  <2>3. ~Done(e) /\ c.kind \in TwoRequestKinds
    BY <2>2 DEF Held
  <2>4. c \in ToSet(RawCases(e))
    BY <2>3, CurrentIs DEF Held
  <2>5. /\ last'.endpoint = e /\ last'.case = c
        /\ at' = [at EXCEPT ![e.id] = @ + 1] /\ UNCHANGED agenda
        /\ first' = [first EXCEPT ![e.id] = NoResponse]
    BY <1>5 DEF SecondRequest, Conclude
  <2>6. Held'
    <3>1. at' \in [Ids' -> Nat \ {0}] /\ first' = [i \in Ids' |-> first'[i]]
      BY <2>1, <2>2, <2>5 DEF Held
    <3>2. ASSUME NEW d \in Endpoints, first'[d.id] # NoResponse
          PROVE  ~Done(d)' /\ (Current(d).kind \in TwoRequestKinds)'
      <4>1. d # e
        BY <2>2, <2>5, <3>2 DEF Held
      <4>2. d.id # e.id /\ d.id \in Ids
        BY <1>3, <4>1 DEF Ids
      <4>3. at'[d.id] = at[d.id] /\ first'[d.id] = first[d.id]
        BY <2>5, <4>2 DEF Held
      <4> QED
        BY <2>5, <3>2, <4>3 DEF Held, Done, Current
    <3> QED
      BY <2>1, <3>1, <3>2 DEF Held
  <2>7. Attempted'
    <3>1. c.kind \notin BodyKinds
      BY <2>3 DEF TwoRequestKinds, BodyKinds
    <3> QED
      BY <2>1, <2>4, <2>5, <3>1 DEF Attempted
  <2> QED
    BY <2>1, <2>6, <2>7
<1> QED
  BY <1>1, <1>4, <1>5 DEF CasesNext, Finished

LEMMA BaseHolds ==
  CasesSpec => []Base
<1> QED
  BY BaseInit, BaseStep, PTL DEF CasesSpec

LEMMA BaseBites ==
  Base => RequestsBite
<1> SUFFICES ASSUME Base, last # NoAttempt,
                    last.case.kind \in BodyKinds, Feasible(last.endpoint, last.case)
             PROVE  LET e == last.endpoint
                        c == last.case
                        faults == BodyFaults(e, last.request.body)
                        named == CASE c.kind = "required_field_omission_returns_400" -> "required"
                                   [] c.kind = "type_violation_returns_400" -> "type"
                                   [] c.kind = "boundary_battery" -> c.bound[1]
                    IN  /\ \A f \in faults : f[1] = c.what
                        /\ (c.kind = "boundary_battery" /\ c.bound[2] = "inside")
                             # (<<c.what, named>> \in faults)
  BY DEF RequestsBite
<1> DEFINE e == last.endpoint
           c == last.case
           faults == BodyFaults(e, last.request.body)
<1>1. e \in Endpoints /\ c \in ToSet(RawCases(e))
      /\ last.request.body = MutatedRequest(e, c).body
  BY DEF Base, Attempted
<1>2. EndpointOK(e) /\ BodyOK(e.example)
  BY <1>1, PlanIs DEF Base
<1>3. PICK f : CaseField(e, c, f)
  BY <1>1, <1>2, CaseFieldIs
<1>4. Bitten(e, c, f)
  BY <1>2, <1>3, CaseBites
<1>5. faults = BodyFaults(e, MutatedRequest(e, c).body)
  BY <1>1
<1> HIDE DEF faults, e, c
<1>6. CASE c.kind = "required_field_omission_returns_400"
  <2>1. faults = {<<c.what, "required">>}
    BY <1>4, <1>5, <1>6 DEF Bitten
  <2> QED
    BY <1>6, <2>1 DEF faults, e, c
<1>7. CASE c.kind = "type_violation_returns_400"
  <2>1. faults = {<<c.what, "type">>}
    BY <1>4, <1>5, <1>7 DEF Bitten
  <2> QED
    BY <1>7, <2>1 DEF faults, e, c
<1>8. CASE c.kind = "boundary_battery"
  <2>1. /\ faults = {<<c.what, d>> : d \in Broken(f, BoundaryValue(c.bound))}
        /\ c.bound[1] \in Broken(f, BoundaryValue(c.bound)) <=> c.bound[2] # "inside"
    BY <1>4, <1>5, <1>8 DEF Bitten
  <2>2. \A x \in faults : x[1] = c.what
    BY <2>1
  <2>3. <<c.what, c.bound[1]>> \in faults <=> c.bound[2] # "inside"
    BY <2>1
  <2> QED
    BY <1>8, <2>2, <2>3 DEF faults, e, c
<1> QED
  BY <1>6, <1>7, <1>8 DEF BodyKinds, e, c

\* What a body case sends is wrong in the field its title names, in the way
\* it names, and in no other field (mutateRequest, case-runners.ts).
THEOREM BodyCasesBite == CasesSpec => []RequestsBite
<1> QED
  BY BaseHolds, BaseBites, PTL
-----------------------------------------------------------------------------
(* What a case sends.                                                      *)

\* The request r carries what the endpoint e, not guarded or not, asks for.
Authorised(e, r) == e.auth_strategy = "none" \/ r.credential = "token"

\* A request is its six fields.
Shaped(m) ==
  m = [ method |-> m.method, body |-> m.body, probe |-> m.probe, preflight |-> m.preflight,
        credential |-> m.credential, if_none_match |-> m.if_none_match ]

\* The request r is m, authenticated for case c of e.
Authenticated(e, c, m, r) ==
  /\ r.method = m.method /\ r.body = m.body /\ r.probe = m.probe
  /\ r.preflight = m.preflight /\ r.if_none_match = m.if_none_match
  /\ c.kind = "no_auth_returns_401" => r.credential = m.credential
  /\ c.kind = "garbage_token_returns_401" => r.credential = "garbage"
  /\ c.kind \notin {"no_auth_returns_401", "garbage_token_returns_401"} =>
       /\ Authorised(e, r)
       /\ r.credential \in {m.credential, "token"}

LEMMA AuthOnlyCredential ==
  ASSUME NEW e, NEW c, NEW m, Shaped(m)
  PROVE  Authenticated(e, c, m, ApplyAuthForCase(e, c, m))
<1> DEFINE r == ApplyAuthForCase(e, c, m)
           attached == AttachAuthHeader(m)
           mangled == GarbageTokenMangle(m)
<1>1. /\ attached = [m EXCEPT !.credential = "token"]
      /\ mangled = [attached EXCEPT !.credential = "garbage"]
      /\ Shaped(m)
  BY DEF AttachAuthHeader, GarbageTokenMangle
<1> HIDE DEF attached, mangled
<1>2. CASE c.kind = "no_auth_returns_401"
  <2>1. r = m
    BY <1>2 DEF ApplyAuthForCase, AuthModeFor
  <2> HIDE DEF r
  <2> QED
    BY <1>2, <2>1 DEF r, Authenticated
<1>3. CASE c.kind = "garbage_token_returns_401"
  <2>1. r = mangled
    BY <1>3 DEF ApplyAuthForCase, AuthModeFor, mangled
  <2>2. /\ mangled.method = m.method /\ mangled.body = m.body /\ mangled.probe = m.probe
        /\ mangled.preflight = m.preflight /\ mangled.if_none_match = m.if_none_match
        /\ mangled.credential = "garbage"
    BY <1>1 DEF Shaped
  <2> QED
    BY <1>3, <2>1, <2>2 DEF Authenticated
<1>4. CASE c.kind \notin {"no_auth_returns_401", "garbage_token_returns_401"}
  <2>1. CASE e.auth_strategy = "none"
    <3>1. r = m
      BY <1>4, <2>1 DEF ApplyAuthForCase, AuthModeFor
    <3> QED
      BY <1>4, <2>1, <3>1 DEF Authenticated, Authorised
  <2>2. CASE e.auth_strategy # "none"
    <3>1. r = attached
      BY <1>4, <2>2 DEF ApplyAuthForCase, AuthModeFor, attached
    <3>2. /\ r.method = m.method /\ r.body = m.body /\ r.probe = m.probe
          /\ r.preflight = m.preflight /\ r.if_none_match = m.if_none_match
          /\ r.credential = "token"
      BY <1>1, <3>1 DEF Shaped
    <3> HIDE DEF r
    <3> QED
      BY <1>4, <3>2 DEF Authenticated, Authorised, r
  <2> QED
    BY <2>1, <2>2
<1> QED
  BY <1>2, <1>3, <1>4

\* The request m is case c's before it is authenticated.
Mutation(e, c, m) ==
  /\ Shaped(m)
  /\ m.credential = (IF e.static_header THEN "static" ELSE "none")
  /\ m.if_none_match = NoTag
  /\ m.method = (IF c.kind = "method_not_allowed" THEN SubstituteMethod(e) ELSE e.method)
  /\ c.kind = "malformed_json_returns_400" => m.body = Malformed
  /\ c.kind \notin BodyKinds \union {"malformed_json_returns_400"} => m.body = e.example
  /\ m.probe = (IF c.kind = "pagination_boundary" THEN c.what[1] ELSE "none")
  /\ m.preflight = (IF c.kind = "cors_preflight" THEN e.cors.lists.methods ELSE {})

LEMMA MutatedIs ==
  ASSUME NEW e, NEW c
  PROVE  Mutation(e, c, MutatedRequest(e, c))
<1> DEFINE base == BuildBaseRequest(e)
           m == MutatedRequest(e, c)
<1>1. m = MutateRequest(e, base, c)
  BY DEF MutatedRequest
<1>2. base = [ method |-> e.method, body |-> e.example, probe |-> "none", preflight |-> {},
               credential |-> IF e.static_header THEN "static" ELSE "none",
               if_none_match |-> NoTag ]
  BY DEF BuildBaseRequest
<1> HIDE DEF base, m
<1>3. CASE c.kind = "method_not_allowed"
  <2>1. m = [base EXCEPT !.method = SubstituteMethod(e)]
    BY <1>1, <1>3 DEF MutateRequest
  <2> QED
    BY <1>2, <1>3, <2>1 DEF m, BodyKinds, Mutation, Shaped
<1>4. CASE c.kind = "malformed_json_returns_400"
  <2>1. m = [base EXCEPT !.body = Malformed]
    BY <1>1, <1>4 DEF MutateRequest
  <2> QED
    BY <1>2, <1>4, <2>1 DEF m, BodyKinds, Mutation, Shaped
<1>5. CASE c.kind \in BodyKinds
  <2>1. PICK body : m = [base EXCEPT !.body = body]
    BY <1>1, <1>5 DEF MutateRequest, BodyKinds
  <2> QED
    BY <1>2, <1>5, <2>1 DEF m, BodyKinds, Mutation, Shaped
<1>6. CASE c.kind = "pagination_boundary"
  <2>1. m = [base EXCEPT !.probe = c.what[1]]
    BY <1>1, <1>6 DEF MutateRequest, ApplyPaginationProbe
  <2> QED
    BY <1>2, <1>6, <2>1 DEF m, BodyKinds, Mutation, Shaped
<1>7. CASE c.kind = "cors_preflight"
  <2>1. m = [base EXCEPT !.preflight = e.cors.lists.methods]
    BY <1>1, <1>7 DEF MutateRequest, ApplyCorsPreflightHeaders
  <2> QED
    BY <1>2, <1>7, <2>1 DEF m, BodyKinds, Mutation, Shaped
<1>8. CASE c.kind \notin BodyKinds \union {"method_not_allowed", "malformed_json_returns_400",
                                           "pagination_boundary", "cors_preflight"}
  <2>1. m = base
    BY <1>1, <1>8 DEF MutateRequest, BodyKinds
  <2> QED
    BY <1>2, <1>8, <2>1 DEF m, Mutation, Shaped
<1> QED
  BY <1>3, <1>4, <1>5, <1>6, <1>7, <1>8

\* The first request of a case.
LEMMA FirstIs ==
  ASSUME NEW e, NEW c
  PROVE  LET r == FirstRequestOf(e, c)
         IN  /\ r.if_none_match = NoTag
             /\ r.method = (IF c.kind = "method_not_allowed" THEN SubstituteMethod(e) ELSE e.method)
             /\ r.body = MutatedRequest(e, c).body
             /\ c.kind = "malformed_json_returns_400" => r.body = Malformed
             /\ c.kind \notin BodyKinds \union {"malformed_json_returns_400"} => r.body = e.example
             /\ r.probe = (IF c.kind = "pagination_boundary" THEN c.what[1] ELSE "none")
             /\ r.preflight = (IF c.kind = "cors_preflight" THEN e.cors.lists.methods ELSE {})
             /\ c.kind = "no_auth_returns_401" =>
                  r.credential = (IF e.static_header THEN "static" ELSE "none")
             /\ c.kind = "garbage_token_returns_401" => r.credential = "garbage"
             /\ c.kind \notin {"no_auth_returns_401", "garbage_token_returns_401"} =>
                  Authorised(e, r)
<1> DEFINE m == MutatedRequest(e, c)
           r == FirstRequestOf(e, c)
<1>1. r = ApplyAuthForCase(e, c, m)
  BY DEF FirstRequestOf
<1>2. Mutation(e, c, m)
  BY MutatedIs
<1> HIDE DEF m
<1>3. Authenticated(e, c, m, r)
  BY <1>1, <1>2, AuthOnlyCredential DEF Mutation
<1>5. /\ r.method = m.method /\ r.body = m.body /\ r.probe = m.probe
      /\ r.preflight = m.preflight /\ r.if_none_match = m.if_none_match
      /\ c.kind = "no_auth_returns_401" => r.credential = m.credential
      /\ c.kind = "garbage_token_returns_401" => r.credential = "garbage"
      /\ c.kind \notin {"no_auth_returns_401", "garbage_token_returns_401"} => Authorised(e, r)
  BY <1>3 DEF Authenticated
<1> HIDE DEF r
<1> QED
  BY <1>2, <1>5 DEF m, r, Mutation

\* The second request of a case.
SecondOf(e, c, response, r) ==
  LET parity == c.kind = "head_get_parity" IN
  /\ r.method = (IF parity THEN "GET" ELSE e.method)
  /\ r.body = (IF parity THEN NoBody ELSE e.example)
  /\ r.probe = "none" /\ r.preflight = {}
  /\ r.if_none_match = (IF c.kind = "conditional_get_304" THEN response.headers["etag"] ELSE NoTag)
  /\ Authorised(e, r)
  /\ e.static_header => r.credential \in {"static", "token"}

LEMMA SecondIs ==
  ASSUME NEW e, NEW c, c.kind \in TwoRequestKinds, NEW response
  PROVE  SecondOf(e, c, response, SecondRequestOf(e, c, response))
<1> DEFINE m == MutatedRequest(e, c)
           r == SecondRequestOf(e, c, response)
           parity == c.kind = "head_get_parity"
           n == [ method |-> IF parity THEN "GET" ELSE e.method,
                  body |-> IF parity THEN NoBody ELSE e.example,
                  probe |-> "none", preflight |-> {},
                  credential |-> IF e.static_header THEN "static" ELSE "none",
                  if_none_match |-> IF c.kind = "conditional_get_304"
                                    THEN response.headers["etag"] ELSE NoTag ]
<1>1. c.kind \in {"get_idempotency", "delete_idempotency", "put_idempotency",
                  "head_get_parity", "conditional_get_304"}
  BY DEF TwoRequestKinds
<1>2. m = [ method |-> e.method, body |-> e.example, probe |-> "none", preflight |-> {},
            credential |-> IF e.static_header THEN "static" ELSE "none",
            if_none_match |-> NoTag ]
  BY <1>1 DEF MutatedRequest, MutateRequest, BuildBaseRequest
<1>3. r = ApplyAuthForCase(e, c, n)
  <2>1. CASE c.kind = "head_get_parity"
    <3>1. PairedGet(m) = [m EXCEPT !.method = "GET", !.body = NoBody]
      BY DEF PairedGet
    <3> HIDE DEF m
    <3>2. PairedGet(m) = n
      BY <1>2, <2>1, <3>1
    <3> QED
      BY <2>1, <3>2 DEF SecondRequestOf, m
  <2>2. CASE c.kind = "conditional_get_304"
    <3>1. Conditional(m, response) = n
      BY <1>2, <2>2 DEF Conditional
    <3> QED
      BY <2>2, <3>1 DEF SecondRequestOf
  <2>3. CASE c.kind \notin {"head_get_parity", "conditional_get_304"}
    <3>1. m = n
      BY <1>2, <2>3
    <3> QED
      BY <2>3, <3>1 DEF SecondRequestOf
  <2> QED
    BY <2>1, <2>2, <2>3
<1>4. /\ n.method = (IF parity THEN "GET" ELSE e.method)
      /\ n.body = (IF parity THEN NoBody ELSE e.example)
      /\ n.probe = "none" /\ n.preflight = {}
      /\ n.credential = (IF e.static_header THEN "static" ELSE "none")
      /\ n.if_none_match = (IF c.kind = "conditional_get_304"
                            THEN response.headers["etag"] ELSE NoTag)
      /\ Shaped(n)
  BY DEF Shaped
<1> HIDE DEF n
<1>6. Authenticated(e, c, n, r)
  BY <1>3, <1>4, AuthOnlyCredential
<1>7. /\ r.method = n.method /\ r.body = n.body /\ r.probe = n.probe
      /\ r.preflight = n.preflight /\ r.if_none_match = n.if_none_match
      /\ Authorised(e, r) /\ r.credential \in {n.credential, "token"}
  BY <1>1, <1>6 DEF Authenticated
<1> HIDE DEF r
<1>8. e.static_header => r.credential \in {"static", "token"}
  BY <1>4, <1>7
<1> QED
  BY <1>4, <1>7, <1>8 DEF r, SecondOf
-----------------------------------------------------------------------------
(* What the service answers.                                               *)

\* What is assumed of an endpoint of a trial.
LEMMA EndpointIs ==
  ASSUME trial \in Trials, NEW e \in Endpoints
  PROVE  /\ EndpointOK(e) /\ BodyOK(e.example)
         /\ e.method \in Methods /\ e.expected_status \in 200 .. 599
         /\ e.db_verify = 0 /\ e.assertions = << >>
         /\ e.cors.declared => /\ e.cors.allow_methods = Cardinality(e.cors.lists.methods)
                               /\ e.cors.lists.origins[1] # "elsewhere"
         /\ trial.gone \in {204, 404}
         /\ Len(Defect) \in 1 .. 3
         /\ Len(Defect) = 3 => Defect[2] \in Numeric /\ Defect[3] = "off_by_one"
         /\ \A d \in Endpoints : d.id = e.id \/ d.method = e.method => d = e
BY TrialsAssumption DEF TrialOK, Endpoints, Defect

LEMMA DeclaredIs ==
  ASSUME trial \in Trials, NEW e \in Endpoints
  PROVE  Declared(e.method) = {e}
<1>1. \A d \in Endpoints : d.method = e.method => d = e
  BY EndpointIs
<1> QED
  BY <1>1 DEF Declared

LEMMA AnswerOf ==
  ASSUME trial \in Trials, NEW e \in Endpoints, NEW s, NEW r, r.method = e.method
  PROVE  /\ Refusal(e, r) # 0 =>
              AnswerTo(s, r) = [response |-> Reply(r, Refusal(e, r), ErrorBody), store |-> s]
         /\ Refusal(e, r) = 0 => AnswerTo(s, r) = Served(s, e, r)
<1>1. Declared(r.method) = {e}
  BY DeclaredIs
<1>2. Declared(r.method) # {} /\ (CHOOSE d \in Declared(r.method) : TRUE) = e
  BY <1>1
<1> QED
  BY <1>2 DEF AnswerTo

LEMMA RefusalIs ==
  ASSUME NEW e, NEW r
  PROVE  /\ Refusal(e, r) \in {0, 400, 401, 500}
         /\ Refusal(e, r) = 500 => Defect = <<"malformed">> /\ r.body = Malformed
         /\ Refusal(e, r) = 401 <=> e.auth_strategy # "none" /\ ~Admits(r.credential)
BY DEF Refusal

\* The headers h of an answer to r with that body.
HeadersOf(r, body, h) ==
  /\ DOMAIN h = {"date", "vary"} \union (IF ~body.empty /\ Defect # <<"untyped">>
                                         THEN {"content-type"} ELSE {})
  /\ h["vary"] = (IF r.method = "HEAD" /\ Defect = <<"head_varies">> THEN "x" ELSE "y")
  /\ "content-type" \in DOMAIN h => h["content-type"] = "json"

LEMMA HeadersIs ==
  ASSUME NEW r, NEW body
  PROVE  HeadersOf(r, body, Headers(r, body))
<1> DEFINE names == {"date", "vary"} \union (IF ~body.empty /\ Defect # <<"untyped">>
                                            THEN {"content-type"} ELSE {})
<1>1. Headers(r, body) =
        [x \in names |->
          CASE x = "date" -> r.method
            [] x = "vary" -> IF r.method = "HEAD" /\ Defect = <<"head_varies">> THEN "x" ELSE "y"
            [] x = "content-type" -> "json"]
  BY DEF Headers
<1>2. "vary" \in names
  OBVIOUS
<1> QED
  BY <1>1, <1>2 DEF HeadersOf

\* The answer a is p but for an entity tag.
Like(a, p) ==
  /\ a.status = p.status /\ a.body = p.body /\ a.fits = p.fits /\ a.in_time = p.in_time
  /\ a.methods = p.methods /\ a.allowed = p.allowed
  /\ DOMAIN a.headers \ {"etag"} = DOMAIN p.headers
  /\ \A h \in DOMAIN p.headers : a.headers[h] = p.headers[h]

LEMMA ReplyIs ==
  ASSUME NEW r, NEW status, NEW body
  PROVE  LET p == Reply(r, status, body)
         IN  /\ p.status = status /\ p.headers = Headers(r, body)
             /\ p.body = (IF r.method = "HEAD" /\ Defect # <<"head_body">> THEN EmptyBody ELSE body)
             /\ p.fits = (~p.body.empty /\ status \in 200 .. 299 /\ Defect # <<"misshapen">>)
             /\ p.in_time = (Defect # <<"slow">>) /\ p.methods = {} /\ p.allowed = {}
             /\ Like(p, p)
<1> DEFINE p == Reply(r, status, body)
           shown == IF r.method = "HEAD" /\ Defect # <<"head_body">> THEN EmptyBody ELSE body
<1>1. p = [ status |-> status, body |-> shown, headers |-> Headers(r, body),
            fits |-> ~shown.empty /\ status \in 200 .. 299 /\ Defect # <<"misshapen">>,
            in_time |-> Defect # <<"slow">>, methods |-> {}, allowed |-> {} ]
  BY DEF Reply
<1> HIDE DEF p
<1>2. /\ p.status = status /\ p.headers = Headers(r, body) /\ p.body = shown
      /\ p.fits = (~shown.empty /\ status \in 200 .. 299 /\ Defect # <<"misshapen">>)
      /\ p.in_time = (Defect # <<"slow">>) /\ p.methods = {} /\ p.allowed = {}
  BY <1>1
<1>3. "etag" \notin DOMAIN p.headers
  <2>1. DOMAIN Headers(r, body) \subseteq {"date", "vary", "content-type"}
    BY HeadersIs DEF HeadersOf
  <2> QED
    BY <1>2, <2>1
<1>4. Like(p, p)
  BY <1>3 DEF Like
<1> QED
  BY <1>2, <1>4 DEF p

\* A tag is added to an answer that has none.
LEMMA TaggedIs ==
  ASSUME NEW r, NEW status, NEW body, NEW tag
  PROVE  LET p == Reply(r, status, body)
             a == Tagged(p, tag)
         IN  Like(a, p) /\ "etag" \in DOMAIN a.headers /\ a.headers["etag"] = tag
<1> DEFINE p == Reply(r, status, body)
           headers == [h \in DOMAIN p.headers \union {"etag"} |->
                        IF h = "etag" THEN tag ELSE p.headers[h]]
           a == Tagged(p, tag)
<1>1. a = [p EXCEPT !.headers = headers]
  BY DEF Tagged
<1>2. "etag" \notin DOMAIN p.headers
  BY ReplyIs DEF Like
<1>3. a = [ status |-> p.status, body |-> p.body, headers |-> headers, fits |-> p.fits,
            in_time |-> p.in_time, methods |-> p.methods, allowed |-> p.allowed ]
  <2>1. DOMAIN p = {"status", "body", "headers", "fits", "in_time", "methods", "allowed"}
    BY DEF Reply
  <2> HIDE DEF p, headers, a
  <2> QED
    BY <1>1, <2>1
<1> HIDE DEF p, a
<1>4. a.headers = headers
  BY <1>3
<1>5. /\ DOMAIN a.headers = DOMAIN p.headers \union {"etag"}
      /\ \A h \in DOMAIN p.headers : h # "etag" /\ a.headers[h] = p.headers[h]
      /\ a.headers["etag"] = tag
  BY <1>2, <1>4
<1>6. /\ a.status = p.status /\ a.body = p.body /\ a.fits = p.fits /\ a.in_time = p.in_time
      /\ a.methods = p.methods /\ a.allowed = p.allowed
  BY <1>3
<1>7. Like(a, p)
  BY <1>2, <1>5, <1>6 DEF Like
<1> QED
  BY <1>5, <1>7 DEF p, a

\* The answers to a GET or a HEAD.
LEMMA FetchIs ==
  ASSUME NEW s, NEW e, NEW r
  PROVE  LET a == Fetch(s, e, r)
             tag == Representation(s)
             supported == \E g \in Declared("GET") : g.etag_supported
         IN  /\ ~s.exists => a = Reply(r, 404, ErrorBody)
             /\ s.exists /\ ~(supported /\ r.if_none_match = tag /\ Defect # <<"never_304">>) =>
                  /\ Like(a, Reply(r, Status(e), Shown(e, tag)))
                  /\ supported => "etag" \in DOMAIN a.headers /\ a.headers["etag"] = tag
             /\ s.exists /\ supported /\ r.if_none_match = tag /\ Defect # <<"never_304">> =>
                  /\ Like(a, Reply(r, 304, IF Defect = <<"body_304">> THEN tag ELSE EmptyBody))
                  /\ "etag" \in DOMAIN a.headers
                  /\ a.headers["etag"] = (IF Defect = <<"tag_304">> THEN ErrorBody ELSE tag)
<1> DEFINE a == Fetch(s, e, r)
           tag == Representation(s)
           supported == \E g \in Declared("GET") : g.etag_supported
           plain == Reply(r, Status(e), Shown(e, tag))
           unchanged == Reply(r, 304, IF Defect = <<"body_304">> THEN tag ELSE EmptyBody)
           mark == IF Defect = <<"tag_304">> THEN ErrorBody ELSE tag
<1>1. a = IF ~s.exists THEN Reply(r, 404, ErrorBody)
          ELSE IF supported /\ r.if_none_match = tag /\ Defect # <<"never_304">>
          THEN Tagged(unchanged, mark)
          ELSE IF supported THEN Tagged(plain, tag) ELSE plain
  BY DEF Fetch
<1>2. /\ Like(Tagged(unchanged, mark), unchanged)
      /\ "etag" \in DOMAIN Tagged(unchanged, mark).headers
      /\ Tagged(unchanged, mark).headers["etag"] = mark
  BY TaggedIs
<1>3. /\ Like(Tagged(plain, tag), plain)
      /\ "etag" \in DOMAIN Tagged(plain, tag).headers
      /\ Tagged(plain, tag).headers["etag"] = tag
  BY TaggedIs
<1>4. Like(plain, plain)
  BY ReplyIs
<1> HIDE DEF a, plain, unchanged, mark, supported, tag
<1>5. CASE ~s.exists
  BY <1>1, <1>5 DEF a, supported, tag
<1>6. CASE s.exists /\ supported /\ r.if_none_match = tag /\ Defect # <<"never_304">>
  <2>1. a = Tagged(unchanged, mark)
    BY <1>1, <1>6
  <2>2. Like(a, unchanged) /\ "etag" \in DOMAIN a.headers /\ a.headers["etag"] = mark
    BY <1>2, <2>1
  <2> QED
    BY <1>6, <2>2 DEF a, supported, tag, unchanged, mark
<1>7. CASE s.exists /\ ~(supported /\ r.if_none_match = tag /\ Defect # <<"never_304">>)
  <2>1. a = IF supported THEN Tagged(plain, tag) ELSE plain
    BY <1>1, <1>7
  <2>2. Like(a, plain) /\ (supported => "etag" \in DOMAIN a.headers /\ a.headers["etag"] = tag)
    BY <1>3, <1>4, <2>1
  <2> QED
    BY <1>7, <2>2 DEF a, supported, tag, plain
<1> QED
  BY <1>5, <1>6, <1>7

\* The answers to a preflight.
LEMMA PreflightIs ==
  ASSUME NEW e, NEW r
  PROVE  LET a == Preflight(e, r)
             plain == Reply(r, Status(e), EmptyBody)
             lists == e.cors.lists
             origin == "access-control-allow-origin"
             refused == r.preflight = {} \/ (trial.strict /\ Cardinality(r.preflight) # 1)
         IN  /\ refused => a = plain
             /\ ~refused =>
                  /\ a.status = plain.status /\ a.body = plain.body
                  /\ a.fits = plain.fits /\ a.in_time = plain.in_time
                  /\ a.methods = (IF Defect = <<"methods">> THEN {} ELSE lists.methods)
                  /\ a.allowed = (IF Defect = <<"headers">> THEN {} ELSE lists.headers)
                  /\ DOMAIN a.headers = DOMAIN plain.headers \union {origin}
                  /\ a.headers[origin] = (IF Defect = <<"origin">> THEN "elsewhere" ELSE lists.origins[1])
                  /\ \A h \in DOMAIN plain.headers \ {origin} : a.headers[h] = plain.headers[h]
<1> DEFINE a == Preflight(e, r)
           plain == Reply(r, Status(e), EmptyBody)
           lists == e.cors.lists
           origin == "access-control-allow-origin"
           refused == r.preflight = {} \/ (trial.strict /\ Cardinality(r.preflight) # 1)
           sent == IF Defect = <<"origin">> THEN "elsewhere" ELSE lists.origins[1]
           headers == [h \in DOMAIN plain.headers \union {origin} |->
                        IF h = origin THEN sent ELSE plain.headers[h]]
           methods == IF Defect = <<"methods">> THEN {} ELSE lists.methods
           allowed == IF Defect = <<"headers">> THEN {} ELSE lists.headers
<1>1. /\ refused => a = plain
      /\ ~refused => a = [plain EXCEPT !.headers = headers, !.methods = methods, !.allowed = allowed]
  BY DEF Preflight
<1>2. plain = [ status |-> plain.status, body |-> plain.body, headers |-> plain.headers,
                fits |-> plain.fits, in_time |-> plain.in_time, methods |-> plain.methods,
                allowed |-> plain.allowed ]
  BY DEF Reply
<1> HIDE DEF a, plain, refused, methods, allowed, sent
<1>3. CASE refused
  BY <1>1, <1>3 DEF a, plain, refused
<1>4. CASE ~refused
  <2>1. a = [ status |-> plain.status, body |-> plain.body, headers |-> headers,
              fits |-> plain.fits, in_time |-> plain.in_time, methods |-> methods,
              allowed |-> allowed ]
    <3> HIDE DEF headers
    <3>1. a = [plain EXCEPT !.headers = headers, !.methods = methods, !.allowed = allowed]
      BY <1>1, <1>4
    <3> QED
      BY <1>2, <3>1
  <2>2. /\ a.status = plain.status /\ a.body = plain.body
        /\ a.fits = plain.fits /\ a.in_time = plain.in_time
        /\ a.methods = methods /\ a.allowed = allowed /\ a.headers = headers
    BY <2>1
  <2>3. /\ DOMAIN a.headers = DOMAIN plain.headers \union {origin}
        /\ a.headers[origin] = sent
        /\ \A h \in DOMAIN plain.headers \ {origin} : a.headers[h] = plain.headers[h]
    BY <2>2
  <2> QED
    BY <1>4, <2>2, <2>3 DEF a, plain, refused, methods, allowed, sent
<1> QED
  BY <1>3, <1>4

\* What every answer a to r shows of the defect.
Stamped(r, a) ==
  /\ a.in_time = (Defect # <<"slow">>)
  /\ Defect = <<"misshapen">> => ~a.fits
  /\ Defect = <<"untyped">> => "content-type" \notin DOMAIN a.headers
  /\ Defect = <<"methods">> => a.methods = {}
  /\ Defect = <<"headers">> => a.allowed = {}
  /\ "vary" \in DOMAIN a.headers
  /\ a.headers["vary"] = (IF r.method = "HEAD" /\ Defect = <<"head_varies">> THEN "x" ELSE "y")

LEMMA ReplyStamped ==
  ASSUME NEW r, NEW status, NEW body, NEW a, Like(a, Reply(r, status, body))
  PROVE  Stamped(r, a)
<1> DEFINE p == Reply(r, status, body)
<1>1. /\ p.headers = Headers(r, body)
      /\ p.fits = (~p.body.empty /\ status \in 200 .. 299 /\ Defect # <<"misshapen">>)
      /\ p.in_time = (Defect # <<"slow">>) /\ p.methods = {} /\ p.allowed = {}
  BY ReplyIs
<1>2. /\ Defect = <<"untyped">> => "content-type" \notin DOMAIN p.headers
      /\ "vary" \in DOMAIN p.headers
      /\ p.headers["vary"] = (IF r.method = "HEAD" /\ Defect = <<"head_varies">> THEN "x" ELSE "y")
  <2>1. HeadersOf(r, body, p.headers)
    BY <1>1, HeadersIs
  <2> HIDE DEF p
  <2> QED
    BY <2>1 DEF HeadersOf
<1> HIDE DEF p
<1>3. Like(a, p)
  BY DEF p
<1> QED
  BY <1>1, <1>2, <1>3 DEF Like, Stamped

LEMMA PreflightStamped ==
  ASSUME NEW e, NEW r
  PROVE  Stamped(r, Preflight(e, r))
<1> DEFINE a == Preflight(e, r)
           plain == Reply(r, Status(e), EmptyBody)
           origin == "access-control-allow-origin"
           refused == r.preflight = {} \/ (trial.strict /\ Cardinality(r.preflight) # 1)
<1>1. Stamped(r, plain)
  BY ReplyIs, ReplyStamped
<1>2. /\ refused => a = plain
      /\ ~refused =>
           /\ a.fits = plain.fits /\ a.in_time = plain.in_time
           /\ a.methods = (IF Defect = <<"methods">> THEN {} ELSE e.cors.lists.methods)
           /\ a.allowed = (IF Defect = <<"headers">> THEN {} ELSE e.cors.lists.headers)
           /\ DOMAIN a.headers = DOMAIN plain.headers \union {origin}
           /\ \A h \in DOMAIN plain.headers \ {origin} : a.headers[h] = plain.headers[h]
  BY PreflightIs
<1> HIDE DEF a, plain, refused
<1>3. CASE refused
  BY <1>1, <1>2, <1>3 DEF a
<1>4. CASE ~refused
  <2>1. "vary" \in DOMAIN plain.headers \ {origin}
    BY <1>1 DEF Stamped
  <2> QED
    BY <1>1, <1>2, <1>4, <2>1 DEF Stamped, a
<1> QED
  BY <1>3, <1>4

\* What is served of the resource.
Posted(s) == [s EXCEPT !.posts = @ + 1]
Gone(s) == [s EXCEPT !.exists = FALSE]
Written(s, r) ==
  [ exists |-> TRUE, base |-> r.body,
    posts |-> IF Defect = <<"put_adds">> THEN s.posts + 1 ELSE s.posts ]

\* The endpoint e answers r with a and makes t of the store s.
ServedAs(e, s, r, a, t) ==
  /\ e.method \in {"GET", "HEAD"} =>
       a = Fetch(s, e, r) /\ t = IF Defect = <<"read_writes">> THEN Posted(s) ELSE s
  /\ e.method = "OPTIONS" => a = Preflight(e, r) /\ t = s
  /\ e.method = "DELETE" =>
       /\ s.exists => a = Reply(r, Status(e), Shown(e, Representation(s)))
       /\ ~s.exists => a = Reply(r, IF Defect = <<"delete_fails">> THEN 500 ELSE trial.gone, ErrorBody)
       /\ t = Gone(s)
  /\ e.method \in {"POST", "PUT", "PATCH"} =>
       /\ a = Reply(r, Status(e), Shown(e, Representation(t)))
       /\ t = IF e.method = "PUT" THEN Written(s, r) ELSE Posted(s)

LEMMA ServedIs ==
  ASSUME trial \in Trials, NEW e \in Endpoints, NEW s, NEW r, r.method = e.method
  PROVE  ServedAs(e, s, r, Served(s, e, r).response, Served(s, e, r).store)
<1> USE DEF ServedAs, Posted, Gone, Written
<1>1. e.method \in Methods
  BY EndpointIs
<1>2. CASE e.method \in {"GET", "HEAD"}
  BY <1>2 DEF Served
<1>3. CASE e.method = "OPTIONS"
  BY <1>3 DEF Served
<1>4. CASE e.method = "DELETE"
  BY <1>4 DEF Served
<1>5. CASE e.method \in {"POST", "PUT", "PATCH"}
  BY <1>5 DEF Served
<1> QED
  BY <1>1, <1>2, <1>3, <1>4, <1>5 DEF Methods

LEMMA AnswerStamped ==
  ASSUME trial \in Trials, NEW s, NEW r
  PROVE  Stamped(r, AnswerTo(s, r).response)
<1> DEFINE a == AnswerTo(s, r).response
<1>1. ASSUME NEW status, NEW body PROVE Stamped(r, Reply(r, status, body))
  BY ReplyIs, ReplyStamped
<1>2. CASE Declared(r.method) = {}
  <2>1. a = Reply(r, IF Defect = <<"any_method">> THEN 200 ELSE 405, ErrorBody)
    BY <1>2 DEF AnswerTo
  <2> HIDE DEF a
  <2> QED
    BY <1>1, <2>1 DEF a
<1>3. CASE Declared(r.method) # {}
  <2>1. PICK e \in Endpoints : r.method = e.method
    BY <1>3 DEF Declared
  <2>2. CASE Refusal(e, r) # 0
    <3>1. a = Reply(r, Refusal(e, r), ErrorBody)
      BY <2>1, <2>2, AnswerOf
    <3> HIDE DEF a
    <3> QED
      BY <1>1, <3>1 DEF a
  <2>3. CASE Refusal(e, r) = 0
    <3>1. a = Served(s, e, r).response
      BY <2>1, <2>3, AnswerOf
    <3>2. ServedAs(e, s, r, Served(s, e, r).response, Served(s, e, r).store)
      BY <2>1, ServedIs
    <3> HIDE DEF a
    <3>7. CASE e.method \in {"GET", "HEAD"}
      <4>1. a = Fetch(s, e, r)
        BY <3>1, <3>2, <3>7 DEF ServedAs
      <4>2. \E status, body : Like(Fetch(s, e, r), Reply(r, status, body))
        BY FetchIs, ReplyIs
      <4> QED
        BY <4>1, <4>2, ReplyStamped DEF a
    <3>3. CASE e.method = "OPTIONS"
      <4>1. a = Preflight(e, r)
        BY <3>1, <3>2, <3>3 DEF ServedAs
      <4> QED
        BY <4>1, PreflightStamped DEF a
    <3>4. CASE e.method = "DELETE"
      <4>1. PICK status, body : a = Reply(r, status, body)
        BY <3>1, <3>2, <3>4 DEF ServedAs
      <4> QED
        BY <1>1, <4>1 DEF a
    <3>5. CASE e.method \in {"POST", "PUT", "PATCH"}
      <4>1. PICK status, body : a = Reply(r, status, body)
        BY <3>1, <3>2, <3>5 DEF ServedAs
      <4> QED
        BY <1>1, <4>1 DEF a
    <3>6. e.method \in Methods
      BY EndpointIs
    <3> QED
      BY <3>3, <3>4, <3>5, <3>6, <3>7 DEF Methods
  <2> QED
    BY <2>2, <2>3
<1> QED
  BY <1>2, <1>3

StoreOK(s) ==
  /\ DOMAIN s = {"exists", "base", "posts"}
  /\ s.exists \in BOOLEAN /\ s.posts \in Nat

\* The posts grow, and only a PUT makes the resource.
LEMMA AnswerKeeps ==
  ASSUME trial \in Trials, NEW s, StoreOK(s), NEW r
  PROVE  LET t == AnswerTo(s, r).store
         IN  /\ StoreOK(t) /\ s.posts <= t.posts
             /\ Declared("PUT") = {} /\ ~s.exists => ~t.exists
<1> DEFINE t == AnswerTo(s, r).store
<1>1. CASE Declared(r.method) = {}
  <2>1. t = s
    BY <1>1 DEF AnswerTo
  <2> HIDE DEF t
  <2> QED
    BY <2>1 DEF StoreOK, t
<1>2. CASE Declared(r.method) # {}
  <2>1. PICK e \in Endpoints : r.method = e.method
    BY <1>2 DEF Declared
  <2>2. CASE Refusal(e, r) # 0
    <3>1. t = s
      BY <2>1, <2>2, AnswerOf
    <3> HIDE DEF t
    <3> QED
      BY <3>1 DEF StoreOK, t
  <2>3. CASE Refusal(e, r) = 0
    <3>1. t = Served(s, e, r).store
      BY <2>1, <2>3, AnswerOf
    <3>2. ServedAs(e, s, r, Served(s, e, r).response, Served(s, e, r).store)
      BY <2>1, ServedIs
    <3> HIDE DEF t
    <3>3. (e.method = "PUT" /\ t = Written(s, r)) \/ t \in {s, Posted(s), Gone(s)}
      <4>1. e.method \in Methods
        BY EndpointIs
      <4> QED
        BY <3>1, <3>2, <4>1 DEF ServedAs, Methods
    <3>4. StoreOK(Written(s, r)) /\ s.posts <= Written(s, r).posts
      BY DEF StoreOK, Written
    <3>5. StoreOK(Posted(s)) /\ s.posts <= Posted(s).posts /\ Posted(s).exists = s.exists
      BY DEF StoreOK, Posted
    <3>6. StoreOK(Gone(s)) /\ s.posts <= Gone(s).posts /\ ~Gone(s).exists
      BY DEF StoreOK, Gone
    <3>7. e.method = "PUT" => Declared("PUT") # {}
      BY DEF Declared
    <3>8. s.posts <= s.posts
      BY DEF StoreOK
    <3> QED
      BY <3>3, <3>4, <3>5, <3>6, <3>7, <3>8 DEF t
  <2> QED
    BY <2>2, <2>3
<1> QED
  BY <1>1, <1>2
-----------------------------------------------------------------------------
(* What becomes of a request to an endpoint.                               *)

\* A fault is a place and what is wrong there.
LEMMA FaultsArePairs ==
  ASSUME NEW e, NEW body, NEW x \in BodyFaults(e, body)
  PROVE  Len(x) = 2
<1>1. CASE x \in Faults(e.body_schema, body.at)
  <2>1. PICK path \in DOMAIN body.at : x \in FaultsAt(e.body_schema, body.at, path)
    BY <1>1 DEF Faults
  <2>2. PICK node : x \in FaultsOf(node, body.at, path)
    BY <2>1 DEF FaultsAt
  <2>3. \E p, d : x = <<p, d>>
    BY <2>2 DEF FaultsOf
  <2> QED
    BY <2>3
<1>2. CASE x \notin Faults(e.body_schema, body.at)
  <2>1. x = <<<< >>, "type">>
    BY <1>2 DEF BodyFaults
  <2> QED
    BY <2>1
<1> QED
  BY <1>1, <1>2

LEMMA NoticedIs ==
  ASSUME NEW e, NEW body, Len(Defect) # 2
  PROVE  NoticedFaults(e, body) = BodyFaults(e, body)
<1>1. \A x \in BodyFaults(e, body) : x # Defect
  BY FaultsArePairs
<1> QED
  BY <1>1 DEF NoticedFaults

\* A request that carries what is asked for is refused for what is in it.
LEMMA AuthorisedIs ==
  ASSUME NEW e, NEW r, Authorised(e, r) \/ e.auth_strategy = "none" \/ Admits(r.credential)
  PROVE  /\ r.body = Malformed =>
              Refusal(e, r) = (IF Defect = <<"malformed">> THEN 500 ELSE 400)
         /\ r.body # Malformed =>
              /\ Refusal(e, r) \in {0, 400}
              /\ Refusal(e, r) = 400 <=>
                   \/ BadProbe(r) \/ NoticedFaults(e, r.body) # {} \/ FalseAlarm(e, r.body)
<1>1. Admits("token")
  BY DEF Admits
<1>2. e.auth_strategy = "none" \/ Admits(r.credential)
  BY <1>1 DEF Authorised
<1> QED
  BY <1>2 DEF Refusal

\* The answer a to r, and the store t after it, where the store was s and r was
\* not refused.
Outcome(e, s, r, a, t) ==
  /\ s.exists \/ e.method \notin {"GET", "HEAD", "DELETE"} => a.status = Status(e)
  /\ ~s.exists /\ e.method \in {"GET", "HEAD"} => a.status = 404
  /\ ~s.exists /\ e.method = "DELETE" =>
       a.status = (IF Defect = <<"delete_fails">> THEN 500 ELSE trial.gone)
  /\ s.exists /\ e.method \in {"GET", "HEAD", "DELETE"} =>
       Like(a, Reply(r, Status(e), Shown(e, Representation(s))))
  /\ s.exists /\ e.method = "GET" /\ e.etag_supported =>
       "etag" \in DOMAIN a.headers /\ a.headers["etag"] = Representation(s)
  /\ e.method \in {"POST", "PUT", "PATCH"} =>
       Like(a, Reply(r, Status(e), Shown(e, Representation(t))))
  /\ e.method = "OPTIONS" => a = Preflight(e, r)
  /\ e.method \in {"GET", "HEAD"} => t = IF Defect = <<"read_writes">> THEN Posted(s) ELSE s
  /\ e.method = "DELETE" => t = Gone(s)
  /\ e.method = "PUT" => t = Written(s, r)

LEMMA OutcomeIs ==
  ASSUME trial \in Trials, NEW e \in Endpoints, NEW s, NEW r, r.method = e.method,
         r.if_none_match = NoTag, Refusal(e, r) = 0
  PROVE  Outcome(e, s, r, AnswerTo(s, r).response, AnswerTo(s, r).store)
<1> DEFINE a == AnswerTo(s, r).response
           t == AnswerTo(s, r).store
<1>1. e.method \in Methods
  BY EndpointIs
<1>2. AnswerTo(s, r) = Served(s, e, r)
  BY AnswerOf
<1>3. ServedAs(e, s, r, Served(s, e, r).response, Served(s, e, r).store)
  BY ServedIs
<1>4. ServedAs(e, s, r, a, t)
  BY <1>2, <1>3
<1> HIDE DEF a, t
<1>5. NoTag # Representation(s)
  <2>1. NoTag.empty = TRUE /\ Representation(s).empty = FALSE
    BY DEF NoTag, Representation
  <2> QED
    BY <2>1
<1>6. ASSUME NEW status, NEW body, Like(a, Reply(r, status, body))
      PROVE  a.status = status
  BY <1>6, ReplyIs DEF Like
<1>7. CASE e.method \in {"GET", "HEAD"}
  <2>1. a = Fetch(s, e, r) /\ t = IF Defect = <<"read_writes">> THEN Posted(s) ELSE s
    BY <1>4, <1>7 DEF ServedAs
  <2>2. ~s.exists => a.status = 404
    BY <2>1, FetchIs, ReplyIs
  <2>3. s.exists => Like(a, Reply(r, Status(e), Shown(e, Representation(s))))
    BY <1>5, <2>1, FetchIs
  <2>4. ASSUME s.exists, e.method = "GET", e.etag_supported
        PROVE  "etag" \in DOMAIN a.headers /\ a.headers["etag"] = Representation(s)
    <3>1. \E g \in Declared("GET") : g.etag_supported
      BY <2>4 DEF Declared
    <3> QED
      BY <1>5, <2>1, <2>4, <3>1, FetchIs
  <2> QED
    BY <1>6, <1>7, <2>1, <2>2, <2>3, <2>4 DEF Outcome, a, t
<1>8. CASE e.method = "OPTIONS"
  <2>1. a = Preflight(e, r)
    BY <1>4, <1>8 DEF ServedAs
  <2>2. Preflight(e, r).status = Reply(r, Status(e), EmptyBody).status
    BY PreflightIs
  <2>3. a.status = Status(e)
    BY <2>1, <2>2, ReplyIs
  <2> QED
    BY <1>8, <2>1, <2>3 DEF Outcome, a, t
<1>9. CASE e.method = "DELETE"
  <2>1. /\ s.exists => a = Reply(r, Status(e), Shown(e, Representation(s)))
        /\ ~s.exists => a = Reply(r, IF Defect = <<"delete_fails">> THEN 500 ELSE trial.gone, ErrorBody)
        /\ t = Gone(s)
    BY <1>4, <1>9 DEF ServedAs
  <2>2. ~s.exists => a.status = (IF Defect = <<"delete_fails">> THEN 500 ELSE trial.gone)
    BY <2>1, ReplyIs
  <2>3. s.exists => Like(a, Reply(r, Status(e), Shown(e, Representation(s))))
    BY <2>1, ReplyIs
  <2> QED
    BY <1>6, <1>9, <2>1, <2>2, <2>3 DEF Outcome, a, t
<1>10. CASE e.method \in {"POST", "PUT", "PATCH"}
  <2>1. /\ a = Reply(r, Status(e), Shown(e, Representation(t)))
        /\ t = IF e.method = "PUT" THEN Written(s, r) ELSE Posted(s)
    BY <1>4, <1>10 DEF ServedAs
  <2>2. Like(a, Reply(r, Status(e), Shown(e, Representation(t))))
    BY <2>1, ReplyIs
  <2> QED
    BY <1>6, <1>10, <2>1, <2>2 DEF Outcome, a, t
<1> QED
  BY <1>1, <1>7, <1>8, <1>9, <1>10 DEF Methods

\* What a body case sends is JSON, and at its boundary the value.
LEMMA BittenJson ==
  ASSUME NEW e, BodyOK(e.example), NEW c, c.kind \in BodyKinds, Feasible(e, c),
         NEW f, CaseField(e, c, f)
  PROVE  LET body == MutatedRequest(e, c).body
         IN  /\ body.kind = "json" /\ body # Malformed
             /\ c.kind = "boundary_battery" =>
                  f.path \in DOMAIN body.at /\ body.at[f.path] = BoundaryValue(c.bound)
<1> DEFINE body == MutatedRequest(e, c).body
<1>1. c.what = f.path /\ FieldOK(f)
  BY DEF CaseField
<1>2. CASE c.kind = "required_field_omission_returns_400"
  <2>1. body = OmitAtPath(e.example, f.path)
    BY <1>1, <1>2, Mutated
  <2>2. Reaches(e.example, f.path)
    BY FeasibleIs
  <2>3. body.kind = "json"
    BY <2>1, <2>2 DEF OmitAtPath, Json
  <2> HIDE DEF body
  <2> QED
    BY <1>2, <2>3 DEF Malformed, body
<1>3. ASSUME c.kind # "required_field_omission_returns_400", NEW v, v.type # "object",
             body = SubstituteAtPath(e.example, c.what, v)
      PROVE  /\ body.kind = "json" /\ body # Malformed
             /\ f.path \in DOMAIN body.at /\ body.at[f.path] = v
  <2>1. /\ body.kind = "json" /\ f.path \in DOMAIN body.at /\ body.at[f.path] = v
    BY <1>3, SubstituteBites
  <2> HIDE DEF body
  <2> QED
    BY <2>1 DEF Malformed
<1>4. CASE c.kind = "type_violation_returns_400"
  <2> DEFINE v == WrongTypeValue(WrongType(FieldType(e, c)))
  <2>1. v.type # "object"
    BY DEF WrongTypeValue, WrongType, Number, Value
  <2>2. body = SubstituteAtPath(e.example, c.what, v)
    BY <1>4, Mutated
  <2> HIDE DEF v
  <2> QED
    BY <1>3, <1>4, <2>1, <2>2
<1>5. CASE c.kind = "boundary_battery"
  <2> DEFINE v == BoundaryValue(c.bound)
  <2>1. /\ c.bound[1] \in DOMAIN f.limits /\ c.bound[1] \in ToSet(Constraints)
        /\ Sided(c.bound[1], f.limits[c.bound[1]], c.bound[2], c.bound[3])
    BY <1>5 DEF CaseField
  <2>2. c.bound[1] # "enum" => f.limits[c.bound[1]] \in Int
    BY <1>1, <2>1 DEF FieldOK, LimitsOK
  <2>3. v.type \in {"number", "string"}
    BY <2>1, <2>2, BoundaryBreaks
  <2>4. body = SubstituteAtPath(e.example, c.what, v)
    BY <1>5, Mutated
  <2> HIDE DEF v
  <2>5. /\ body.kind = "json" /\ body # Malformed
        /\ f.path \in DOMAIN body.at /\ body.at[f.path] = v
    BY <1>3, <1>5, <2>3, <2>4
  <2> QED
    BY <2>5 DEF v
<1> QED
  BY <1>2, <1>4, <1>5 DEF BodyKinds
-----------------------------------------------------------------------------
(* The verdicts on a service that does what the files say.                 *)

LEMMA KindIs ==
  ASSUME NEW kind \in Kinds
  PROVE  kind \in StatusEqKinds \union TwoRequestKinds \union
                  {"content_type_alignment", "response_time_sla", "response_schema_validation",
                   "cors_preflight", "auth_happy_path", "db_state_matches_expectation", "assertion"}
<1>1. PICK i \in DOMAIN KindOrder : kind = KindOrder[i]
  BY DEF Kinds, ToSet
<1>2. /\ DOMAIN KindOrder = 1 .. 21
      /\ KindOrder[1] = "assertion" /\ KindOrder[2] = "auth_happy_path"
      /\ KindOrder[3] = "boundary_battery" /\ KindOrder[4] = "conditional_get_304"
      /\ KindOrder[5] = "content_type_alignment" /\ KindOrder[6] = "cors_preflight"
      /\ KindOrder[7] = "db_state_matches_expectation" /\ KindOrder[8] = "delete_idempotency"
      /\ KindOrder[9] = "garbage_token_returns_401" /\ KindOrder[10] = "get_idempotency"
      /\ KindOrder[11] = "head_get_parity" /\ KindOrder[12] = "malformed_json_returns_400"
      /\ KindOrder[13] = "method_not_allowed" /\ KindOrder[14] = "no_auth_returns_401"
      /\ KindOrder[15] = "pagination_boundary" /\ KindOrder[16] = "put_idempotency"
      /\ KindOrder[17] = "required_field_omission_returns_400"
      /\ KindOrder[18] = "response_schema_validation" /\ KindOrder[19] = "response_time_sla"
      /\ KindOrder[20] = "status_code_conformance"
      /\ KindOrder[21] = "type_violation_returns_400"
  BY DEF KindOrder
<1> QED
  BY <1>1, <1>2 DEF StatusEqKinds, TwoRequestKinds

\* An answer that shows the store x.
LEMMA ShownIs ==
  ASSUME NEW e, NEW r, NEW a, NEW x, Like(a, Reply(r, Status(e), Shown(e, Representation(x))))
  PROVE  /\ Status(e) # 204 /\ Defect # <<"untyped">> => "content-type" \in DOMAIN a.headers
         /\ a.body = (IF (r.method = "HEAD" /\ Defect # <<"head_body">>) \/ Status(e) = 204
                      THEN EmptyBody ELSE Representation(x))
         /\ Status(e) # 204 /\ Is2xx(Status(e)) /\ r.method # "HEAD" /\ Defect # <<"misshapen">> =>
              a.fits
<1> DEFINE body == Shown(e, Representation(x))
           p == Reply(r, Status(e), body)
<1>1. /\ p.headers = Headers(r, body)
      /\ p.body = (IF r.method = "HEAD" /\ Defect # <<"head_body">> THEN EmptyBody ELSE body)
      /\ p.fits = (~p.body.empty /\ Status(e) \in 200 .. 299 /\ Defect # <<"misshapen">>)
  BY ReplyIs
<1>2. HeadersOf(r, body, p.headers)
  BY <1>1, HeadersIs
<1>3. body = (IF Status(e) = 204 THEN EmptyBody ELSE Representation(x))
  BY DEF Shown
<1>4. ~Representation(x).empty
  BY DEF Representation
<1> HIDE DEF p, body
<1>5. Status(e) # 204 /\ Defect # <<"untyped">> => "content-type" \in DOMAIN p.headers
  BY <1>2, <1>3, <1>4 DEF HeadersOf
<1>6. a.body = p.body /\ DOMAIN p.headers \subseteq DOMAIN a.headers /\ a.fits = p.fits
  BY DEF p, body, Like
<1>7. Status(e) # 204 /\ Defect # <<"untyped">> => "content-type" \in DOMAIN a.headers
  BY <1>5, <1>6
<1>8. a.body = (IF (r.method = "HEAD" /\ Defect # <<"head_body">>) \/ Status(e) = 204
                THEN EmptyBody ELSE Representation(x))
  BY <1>1, <1>3, <1>6
<1>9. Status(e) # 204 /\ Is2xx(Status(e)) /\ r.method # "HEAD" /\ Defect # <<"misshapen">> => a.fits
  BY <1>1, <1>3, <1>4, <1>6 DEF Is2xx
<1> QED
  BY <1>7, <1>8, <1>9

\* The case c of e, sent to the store s, is refused by nothing.
LEMMA SoundServed ==
  ASSUME trial \in Trials, Defect = <<"none">>, NEW e \in Endpoints,
         NEW c \in ToSet(RawCases(e)), NEW s, s.exists, ExampleValid(e),
         c.kind \notin EarlyKinds, c.kind \notin BodyKinds,
         c.kind = "pagination_boundary" => c.what[1] = "size_max"
  PROVE  LET r == FirstRequestOf(e, c)
         IN  /\ Outcome(e, s, r, AnswerTo(s, r).response, AnswerTo(s, r).store)
             /\ AnswerTo(s, r).response.status = e.expected_status
<1> DEFINE r == FirstRequestOf(e, c)
<1>1. /\ r.if_none_match = NoTag /\ r.method = e.method /\ r.body = e.example
      /\ r.probe \in {"none", "size_max"} /\ Authorised(e, r)
  BY FirstIs DEF EarlyKinds
<1>2. r.body # Malformed
  <2>1. e.example = NoBody \/ e.example.kind = "json"
    BY EndpointIs DEF BodyOK
  <2> QED
    BY <1>1, <2>1 DEF NoBody, Malformed
<1> HIDE DEF r
<1>3. ~BadProbe(r) /\ NoticedFaults(e, r.body) = {} /\ ~FalseAlarm(e, r.body)
  <2>1. Len(Defect) = 1 /\ Defect # <<"size_max">>
    OBVIOUS
  <2> QED
    BY <1>1, <2>1, NoticedIs DEF BadProbe, FalseAlarm, ExampleValid
<1>4. Refusal(e, r) = 0
  BY <1>1, <1>2, <1>3, AuthorisedIs
<1>5. Outcome(e, s, r, AnswerTo(s, r).response, AnswerTo(s, r).store)
  BY <1>1, <1>4, OutcomeIs
<1>6. Status(e) = e.expected_status
  BY DEF Status
<1> QED
  BY <1>5, <1>6 DEF Outcome, r

\* The case is early, about the body or a probe.
LEMMA SoundRefused ==
  ASSUME trial \in Trials, Defect = <<"none">>, NEW e \in Endpoints,
         NEW c \in ToSet(RawCases(e)), NEW s
  PROVE  LET r == FirstRequestOf(e, c)
             status == AnswerTo(s, r).response.status
         IN  /\ c.kind = "no_auth_returns_401" /\ ~e.static_header => status = 401
             /\ c.kind = "garbage_token_returns_401" => status = 401
             /\ c.kind = "malformed_json_returns_400" => status = 400
             /\ c.kind = "method_not_allowed" /\ Declared(SubstituteMethod(e)) = {} => status = 405
             /\ c.kind = "pagination_boundary" /\ c.what[1] # "size_max" => status = 400
             /\ c.kind \in BodyKinds /\ Feasible(e, c) /\ BodyFaults(e, r.body) # {} => status = 400
<1> DEFINE r == FirstRequestOf(e, c)
           status == AnswerTo(s, r).response.status
<1>1. RawCase(e, c) /\ EndpointOK(e) /\ BodyOK(e.example)
  BY EndpointIs, RawCaseIs
<1>2. /\ c.kind # "method_not_allowed" => r.method = e.method
      /\ c.kind = "method_not_allowed" => r.method = SubstituteMethod(e)
      /\ r.body = MutatedRequest(e, c).body
      /\ c.kind = "malformed_json_returns_400" => r.body = Malformed
      /\ r.probe = (IF c.kind = "pagination_boundary" THEN c.what[1] ELSE "none")
      /\ c.kind = "no_auth_returns_401" /\ ~e.static_header => r.credential = "none"
      /\ c.kind = "garbage_token_returns_401" => r.credential = "garbage"
      /\ c.kind \notin {"no_auth_returns_401", "garbage_token_returns_401"} => Authorised(e, r)
  BY FirstIs
<1> HIDE DEF r, status
<1>3. ASSUME r.method = e.method, Refusal(e, r) # 0
      PROVE  status = Refusal(e, r)
  BY <1>3, AnswerOf, ReplyIs DEF status
<1>4. ASSUME c.kind \in AuthKinds, ~Admits(r.credential), r.method = e.method
      PROVE  status = 401
  <2>1. e.auth_strategy # "none"
    BY <1>1, <1>4 DEF RawCase
  <2>2. Refusal(e, r) = 401
    BY <1>4, <2>1, RefusalIs
  <2> QED
    BY <1>3, <1>4, <2>2
<1>5. ~Admits("none") /\ ~Admits("garbage")
  BY DEF Admits
<1>6. c.kind = "no_auth_returns_401" /\ ~e.static_header => status = 401
  BY <1>2, <1>4, <1>5 DEF AuthKinds
<1>7. c.kind = "garbage_token_returns_401" => status = 401
  BY <1>2, <1>4, <1>5 DEF AuthKinds
<1>8. c.kind = "malformed_json_returns_400" => status = 400
  BY <1>2, <1>3, AuthorisedIs
<1>9. c.kind = "method_not_allowed" /\ Declared(SubstituteMethod(e)) = {} => status = 405
  BY <1>2, ReplyIs DEF AnswerTo, status
<1>10. ASSUME Authorised(e, r), r.method = e.method, r.body # Malformed,
              BadProbe(r) \/ NoticedFaults(e, r.body) # {}
       PROVE  status = 400
  <2>1. Refusal(e, r) = 400
    BY <1>10, AuthorisedIs
  <2> QED
    BY <1>3, <1>10, <2>1
<1>11. ASSUME c.kind = "pagination_boundary", c.what[1] # "size_max"
       PROVE  status = 400
  <2>1. BadProbe(r)
    BY <1>1, <1>2, <1>11 DEF RawCase, BadProbe
  <2>2. CASE r.body = Malformed
    BY <1>2, <1>3, <1>11, <2>2, AuthorisedIs
  <2>3. CASE r.body # Malformed
    BY <1>2, <1>10, <1>11, <2>1, <2>3
  <2> QED
    BY <2>2, <2>3
<1>12. ASSUME c.kind \in BodyKinds, Feasible(e, c), BodyFaults(e, r.body) # {}
       PROVE  status = 400
  <2>1. PICK f : CaseField(e, c, f)
    BY <1>1, <1>12, CaseFieldIs
  <2>2. r.body # Malformed
    BY <1>1, <1>2, <1>12, <2>1, BittenJson
  <2>3. NoticedFaults(e, r.body) # {}
    BY <1>12, NoticedIs
  <2> QED
    BY <1>2, <1>10, <1>12, <2>2, <2>3 DEF BodyKinds
<1> QED
  BY <1>6, <1>7, <1>8, <1>9, <1>11, <1>12 DEF r, status

\* A value at its limit is taken.
LEMMA SoundInside ==
  ASSUME trial \in Trials, Defect = <<"none">>, NEW e \in Endpoints,
         NEW c \in ToSet(RawCases(e)), NEW s, s.exists, Feasible(e, c),
         c.kind = "boundary_battery", c.bound[2] = "inside", ~Torn(e, c)
  PROVE  AnswerTo(s, FirstRequestOf(e, c)).response.status = e.expected_status
<1> DEFINE r == FirstRequestOf(e, c)
           v == BoundaryValue(c.bound)
<1>1. EndpointOK(e) /\ BodyOK(e.example) /\ c.kind \in BodyKinds
  BY EndpointIs DEF BodyKinds
<1>2. /\ r.if_none_match = NoTag /\ r.method = e.method /\ r.body = MutatedRequest(e, c).body
      /\ r.probe = "none" /\ Authorised(e, r)
  BY FirstIs
<1>3. PICK f : CaseField(e, c, f)
  BY <1>1, CaseFieldIs
<1>4. Bitten(e, c, f) /\ r.body # Malformed
  BY <1>1, <1>2, <1>3, CaseBites, BittenJson
<1>5. Broken(f, v) = {}
  <2>1. c.bound[1] \notin Broken(f, v)
    BY <1>4 DEF Bitten
  <2>2. FieldOf(e, c.what) = f
    BY <1>3 DEF CaseField
  <2>3. \A d \in Broken(f, v) : d \in DOMAIN f.limits /\ Breaks(d, f.limits[d], v)
    BY DEF Broken
  <2> HIDE DEF v
  <2>4. \A d \in DOMAIN f.limits \ {c.bound[1]} : ~Breaks(d, f.limits[d], v)
    BY <2>2 DEF Torn, v
  <2> QED
    BY <2>1, <2>3, <2>4
<1>6. BodyFaults(e, r.body) = {}
  BY <1>2, <1>4, <1>5 DEF Bitten
<1> HIDE DEF r, v
<1>7. ~BadProbe(r) /\ NoticedFaults(e, r.body) = {} /\ ~FalseAlarm(e, r.body)
  <2>1. Len(Defect) = 1 /\ Defect # <<"size_max">>
    OBVIOUS
  <2> QED
    BY <1>2, <1>6, <2>1, NoticedIs DEF BadProbe, FalseAlarm
<1>8. Refusal(e, r) = 0
  BY <1>2, <1>4, <1>7, AuthorisedIs
<1>9. Outcome(e, s, r, AnswerTo(s, r).response, AnswerTo(s, r).store)
  BY <1>2, <1>8, OutcomeIs
<1>10. Status(e) = e.expected_status
  BY DEF Status
<1> QED
  BY <1>9, <1>10 DEF Outcome, r

\* A preflight for one method, or for several to a service that takes them.
LEMMA SoundPreflight ==
  ASSUME trial \in Trials, Defect = <<"none">>, NEW e \in Endpoints,
         NEW c \in ToSet(RawCases(e)), NEW s, s.exists, ExampleValid(e),
         c.kind = "cors_preflight", e.expected_status \in {200, 204},
         ~(trial.strict /\ Cardinality(e.cors.lists.methods) # 1)
  PROVE  CorsPreflightVerdict(e, AnswerTo(s, FirstRequestOf(e, c)).response)
<1> DEFINE r == FirstRequestOf(e, c)
           a == AnswerTo(s, r).response
           plain == Reply(r, Status(e), EmptyBody)
           origin == "access-control-allow-origin"
           refused == r.preflight = {} \/ (trial.strict /\ Cardinality(r.preflight) # 1)
<1>1. e.method = "OPTIONS" /\ e.cors.declared /\ ~CorsDropped(e)
  BY EndpointIs, RawCaseIs DEF RawCase
<1>2. Outcome(e, s, r, a, AnswerTo(s, r).store) /\ a.status = e.expected_status
  BY SoundServed DEF EarlyKinds, BodyKinds
<1>3. a = Preflight(e, r)
  BY <1>1, <1>2 DEF Outcome
<1>4. r.preflight = e.cors.lists.methods
  BY FirstIs
<1>5. e.cors.lists.methods # {}
  <2>1. Cardinality(e.cors.lists.methods) # 0
    BY <1>1, EndpointIs DEF CorsDropped
  <2> QED
    BY <2>1, FS_EmptySet
<1>6. ~refused
  BY <1>4, <1>5
<1>7. /\ Preflight(e, r).methods = (IF Defect = <<"methods">> THEN {} ELSE e.cors.lists.methods)
      /\ Preflight(e, r).allowed = (IF Defect = <<"headers">> THEN {} ELSE e.cors.lists.headers)
      /\ DOMAIN Preflight(e, r).headers = DOMAIN plain.headers \union {origin}
      /\ Preflight(e, r).headers[origin] =
           (IF Defect = <<"origin">> THEN "elsewhere" ELSE e.cors.lists.origins[1])
  BY <1>6, PreflightIs
<1> HIDE DEF r, a, plain, refused
<1>8. /\ a.methods = e.cors.lists.methods /\ a.allowed = e.cors.lists.headers
      /\ "access-control-allow-origin" \in DOMAIN a.headers
      /\ a.headers["access-control-allow-origin"] = e.cors.lists.origins[1]
  BY <1>3, <1>7
<1> QED
  BY <1>2, <1>8 DEF CorsPreflightVerdict, a, r

\* The verdict of a case of one request.
LEMMA VerdictIs ==
  ASSUME NEW e, NEW c, NEW a
  PROVE  /\ c.kind \in StatusEqKinds =>
              (SingleVerdict(e, c, a) <=> a.status = ExpectedStatus(e, c))
         /\ c.kind = "content_type_alignment" =>
              (SingleVerdict(e, c, a) <=> "content-type" \in DOMAIN a.headers)
         /\ c.kind = "response_time_sla" => (SingleVerdict(e, c, a) <=> a.in_time)
         /\ c.kind = "response_schema_validation" => (SingleVerdict(e, c, a) <=> a.fits)
         /\ c.kind = "cors_preflight" => (SingleVerdict(e, c, a) <=> CorsPreflightVerdict(e, a))
         /\ c.kind = "auth_happy_path" => (SingleVerdict(e, c, a) <=> Is2xx(a.status))
         /\ c.kind \in TwoRequestKinds => (ComputeVerdict(e, c, a) <=> Is2xx(a.status))
<1>1. CASE c.kind \in StatusEqKinds
  <2>1. SingleVerdict(e, c, a) <=> a.status = ExpectedStatus(e, c)
    BY <1>1 DEF SingleVerdict, ComputeVerdict, StatusEqDispatch, StatusEqKinds
  <2> QED
    BY <1>1, <2>1 DEF StatusEqKinds, TwoRequestKinds
<1>2. CASE c.kind = "content_type_alignment"
  <2>1. ComputeVerdict(e, c, a) <=> ContentTypeOk(a)
    BY <1>2 DEF ComputeVerdict, StatusEqKinds, TwoRequestKinds
  <2> QED
    BY <1>2, <2>1 DEF SingleVerdict, ContentTypeOk, StatusEqKinds, TwoRequestKinds
<1>3. CASE c.kind = "response_time_sla"
  <2>1. ComputeVerdict(e, c, a) <=> a.in_time
    BY <1>3 DEF ComputeVerdict, StatusEqKinds, TwoRequestKinds
  <2> QED
    BY <1>3, <2>1 DEF SingleVerdict, StatusEqKinds, TwoRequestKinds
<1>4. CASE c.kind = "response_schema_validation"
  <2>1. ComputeVerdict(e, c, a) <=> a.fits
    BY <1>4 DEF ComputeVerdict, StatusEqKinds, TwoRequestKinds
  <2> QED
    BY <1>4, <2>1 DEF SingleVerdict, StatusEqKinds, TwoRequestKinds
<1>5. CASE c.kind = "cors_preflight"
  <2>1. ComputeVerdict(e, c, a) <=> CorsPreflightVerdict(e, a)
    BY <1>5 DEF ComputeVerdict, StatusEqKinds, TwoRequestKinds
  <2> QED
    BY <1>5, <2>1 DEF SingleVerdict, StatusEqKinds, TwoRequestKinds
<1>6. CASE c.kind \in TwoRequestKinds \union {"auth_happy_path"}
  <2>1. ComputeVerdict(e, c, a) <=> Is2xx(a.status)
    BY <1>6 DEF ComputeVerdict, StatusEqKinds, TwoRequestKinds
  <2> QED
    BY <1>6, <2>1 DEF SingleVerdict, StatusEqKinds, TwoRequestKinds
<1> QED
  BY <1>1, <1>2, <1>3, <1>4, <1>5, <1>6

\* The case c of e asks too much, or of a resource that others changed.
LEMMA SoundSingle ==
  ASSUME trial \in Trials, Defect = <<"none">>, NEW e \in Endpoints,
         NEW c \in ToSet(RawCases(e)), NEW s,
         ~NeedsSecond(e, c, AnswerTo(s, FirstRequestOf(e, c)).response),
         ~SingleVerdict(e, c, AnswerTo(s, FirstRequestOf(e, c)).response),
         NEW x, x.case = c, x.gone <=> ~s.exists
  PROVE  Excused(e, x)
<1> DEFINE r == FirstRequestOf(e, c)
           a == AnswerTo(s, r).response
           t == AnswerTo(s, r).store
<1> SUFFICES ASSUME ~Excused(e, x) PROVE FALSE
  OBVIOUS
<1>1. /\ c.kind \notin EarlyKinds => s.exists /\ ExampleValid(e)
      /\ c.kind \in BodyKinds => Feasible(e, c)
      /\ c.kind = "boundary_battery" /\ c.bound[2] = "inside" => ~Torn(e, c)
      /\ c.kind = "method_not_allowed" => Declared(SubstituteMethod(e)) = {}
      /\ c.kind = "no_auth_returns_401" => ~e.static_header
      /\ c.kind \in TwoRequestKinds \union {"auth_happy_path"} => Is2xx(e.expected_status)
      /\ c.kind = "content_type_alignment" => e.expected_status # 204 /\ e.method # "OPTIONS"
      /\ c.kind = "response_schema_validation" =>
           /\ e.expected_status # 204 /\ Is2xx(e.expected_status)
           /\ e.method \notin {"HEAD", "OPTIONS"}
      /\ c.kind = "cors_preflight" =>
           /\ e.expected_status \in {200, 204}
           /\ ~(trial.strict /\ Cardinality(e.cors.lists.methods) # 1)
  BY DEF Excused
<1>2. RawCase(e, c) /\ EndpointOK(e) /\ BodyOK(e.example) /\ e.method \in Methods
      /\ e.db_verify = 0 /\ e.assertions = << >>
  BY EndpointIs, RawCaseIs
<1>3. Status(e) = e.expected_status /\ Defect # <<"untyped">> /\ Defect # <<"misshapen">>
      /\ Defect # <<"slow">>
  BY DEF Status
<1>4. ~SingleVerdict(e, c, a) /\ ~NeedsSecond(e, c, a)
  OBVIOUS
<1>5. c.kind \notin {"db_state_matches_expectation", "assertion"}
  BY <1>2 DEF RawCase
<1>6. ASSUME c.kind \notin EarlyKinds \union BodyKinds,
             c.kind = "pagination_boundary" => c.what[1] = "size_max"
      PROVE  Outcome(e, s, r, a, t) /\ a.status = e.expected_status
  BY <1>1, <1>6, SoundServed
<1>7. r.method = e.method \/ c.kind = "method_not_allowed"
  BY FirstIs
<1>8. ASSUME c.kind \in StatusEqKinds PROVE a.status # ExpectedStatus(e, c)
  BY <1>4, <1>8, VerdictIs
<1>9. CASE c.kind = "status_code_conformance"
  <2>1. a.status = e.expected_status
    BY <1>6, <1>9 DEF EarlyKinds, BodyKinds
  <2> QED
    BY <1>8, <1>9, <2>1 DEF StatusEqKinds, ExpectedStatus
<1>10. CASE c.kind \in {"no_auth_returns_401", "garbage_token_returns_401"}
  <2>1. a.status = 401
    BY <1>1, <1>10, SoundRefused
  <2> QED
    BY <1>8, <1>10, <2>1 DEF StatusEqKinds, ExpectedStatus
<1>11. CASE c.kind = "method_not_allowed"
  <2>1. a.status = 405
    BY <1>1, <1>11, SoundRefused
  <2> QED
    BY <1>8, <1>11, <2>1 DEF StatusEqKinds, ExpectedStatus
<1>12. CASE c.kind = "malformed_json_returns_400"
  <2>1. a.status = 400
    BY <1>12, SoundRefused
  <2> QED
    BY <1>8, <1>12, <2>1 DEF StatusEqKinds, ExpectedStatus
<1>13. CASE c.kind = "pagination_boundary"
  <2>1. CASE c.what[1] = "size_max"
    <3>1. a.status = e.expected_status
      BY <1>6, <1>13, <2>1 DEF EarlyKinds, BodyKinds
    <3> QED
      BY <1>8, <1>13, <2>1, <3>1 DEF StatusEqKinds, ExpectedStatus
  <2>2. CASE c.what[1] # "size_max"
    <3>1. a.status = 400
      BY <1>13, <2>2, SoundRefused
    <3> QED
      BY <1>8, <1>13, <2>2, <3>1 DEF StatusEqKinds, ExpectedStatus
  <2> QED
    BY <2>1, <2>2
<1>14. CASE c.kind \in BodyKinds
  <2>1. PICK f : CaseField(e, c, f)
    BY <1>2, <1>14, CaseFieldIs
  <2>2. Feasible(e, c) /\ Bitten(e, c, f) /\ r.body = MutatedRequest(e, c).body
    BY <1>1, <1>2, <1>14, <2>1, CaseBites, FirstIs
  <2>3. CASE c.kind = "boundary_battery" /\ c.bound[2] = "inside"
    <3>1. a.status = e.expected_status
      BY <1>1, <1>14, <2>2, <2>3, SoundInside DEF EarlyKinds
    <3> QED
      BY <1>8, <2>3, <3>1 DEF StatusEqKinds, ExpectedStatus
  <2>4. CASE ~(c.kind = "boundary_battery" /\ c.bound[2] = "inside")
    <3>1. BodyFaults(e, r.body) # {}
      BY <1>14, <2>2, <2>4 DEF Bitten, BodyKinds
    <3>2. a.status = 400
      BY <1>14, <2>2, <3>1, SoundRefused
    <3> QED
      BY <1>8, <1>14, <2>4, <3>2 DEF StatusEqKinds, ExpectedStatus, BodyKinds
  <2> QED
    BY <2>3, <2>4
<1>15. CASE c.kind = "content_type_alignment"
  <2>1. Outcome(e, s, r, a, t) /\ e.expected_status # 204 /\ e.method # "OPTIONS" /\ s.exists
    BY <1>1, <1>6, <1>15 DEF EarlyKinds, BodyKinds
  <2>2. PICK y : Like(a, Reply(r, Status(e), Shown(e, Representation(y))))
    BY <1>2, <2>1 DEF Outcome, Methods
  <2>3. Status(e) # 204 /\ Defect # <<"untyped">>
    BY <1>3, <2>1
  <2>4. "content-type" \in DOMAIN a.headers
    BY <2>2, <2>3, ShownIs
  <2> QED
    BY <1>4, <1>15, <2>4, VerdictIs
<1>16. CASE c.kind = "response_time_sla"
  <2>1. a.in_time
    BY <1>3, AnswerStamped DEF Stamped
  <2> QED
    BY <1>4, <1>16, <2>1, VerdictIs
<1>17. CASE c.kind = "response_schema_validation"
  <2>1. /\ Outcome(e, s, r, a, t) /\ e.expected_status # 204 /\ Is2xx(e.expected_status)
        /\ e.method \notin {"HEAD", "OPTIONS"} /\ s.exists /\ r.method = e.method
    BY <1>1, <1>6, <1>7, <1>17 DEF EarlyKinds, BodyKinds
  <2>2. PICK y : Like(a, Reply(r, Status(e), Shown(e, Representation(y))))
    BY <1>2, <2>1 DEF Outcome, Methods
  <2>3. a.fits
    BY <1>3, <2>1, <2>2, ShownIs
  <2> QED
    BY <1>4, <1>17, <2>3, VerdictIs
<1>18. CASE c.kind = "cors_preflight"
  <2>1. CorsPreflightVerdict(e, a)
    BY <1>1, <1>18, SoundPreflight DEF EarlyKinds
  <2> QED
    BY <1>4, <1>18, <2>1, VerdictIs
<1>19. CASE c.kind \in TwoRequestKinds \union {"auth_happy_path"}
  <2>1. Outcome(e, s, r, a, t) /\ a.status = e.expected_status /\ s.exists
    BY <1>1, <1>6, <1>19 DEF EarlyKinds, BodyKinds, TwoRequestKinds
  <2>2. ComputeVerdict(e, c, a)
    BY <1>1, <1>19, <2>1 DEF ComputeVerdict, StatusEqKinds, TwoRequestKinds, Is2xx
  <2>3. c.kind = "conditional_get_304" => "etag" \in DOMAIN a.headers
    BY <1>2, <2>1 DEF RawCase, Outcome
  <2> QED
    BY <1>4, <1>19, <2>2, <2>3 DEF SingleVerdict, NeedsSecond, TwoRequestKinds
<1> QED
  <2>1. c.kind \in Kinds
    BY <1>2 DEF RawCase
  <2>2. c.kind \in StatusEqKinds \union TwoRequestKinds \union
                     {"content_type_alignment", "response_time_sla", "response_schema_validation",
                      "cors_preflight", "auth_happy_path", "db_state_matches_expectation", "assertion"}
    BY <2>1, KindIs
  <2> QED
    BY <1>5, <1>9, <1>10, <1>11, <1>12, <1>13, <1>14, <1>15, <1>16, <1>17, <1>18, <1>19, <2>2
       DEF StatusEqKinds, BodyKinds
-----------------------------------------------------------------------------
(* The two requests of a case.                                             *)

\* The body of an answer that shows the store s, and the headers compared.
Usual(e, s) == IF e.expected_status = 204 THEN EmptyBody ELSE Representation(s)
UsualHeaders(e) ==
  [h \in {"vary"} \union (IF e.expected_status = 204 THEN {} ELSE {"content-type"}) |->
     IF h = "vary" THEN "y" ELSE "json"]

\* What the first answer b of case c of e, kept for the second, shows of the store
\* it left and of the defect.
Remembered(defect, e, c, b) ==
  LET a == b.response
      s == b.store
  IN
  /\ c.kind = "get_idempotency" =>
       /\ defect = <<"none">> => s.exists /\ a.body = Usual(e, s)
       /\ defect = <<"read_writes">> /\ e.expected_status # 204 =>
            a.body.posts \in Nat /\ a.body.posts < s.posts
  /\ c.kind = "delete_idempotency" => ~s.exists
  /\ c.kind = "put_idempotency" =>
       /\ defect = <<"none">> => s.exists /\ s.base = e.example /\ a.body = Usual(e, s)
       /\ defect = <<"put_adds">> /\ e.expected_status # 204 => a.body.posts = s.posts
  /\ c.kind = "head_get_parity" =>
       /\ defect = <<"none">> => /\ s.exists /\ a.status = e.expected_status /\ a.body.empty
                                 /\ Compared(a.headers) = UsualHeaders(e)
       /\ defect = <<"head_body">> /\ e.expected_status # 204 => ~a.body.empty
       /\ defect = <<"head_varies">> => "vary" \in DOMAIN a.headers /\ a.headers["vary"] = "x"
  /\ c.kind = "conditional_get_304" =>
       /\ defect = <<"none">> => s.exists /\ a.headers["etag"] = Representation(s)
       /\ defect # <<"wrong_status">> => Is2xx(e.expected_status)
       /\ a.headers["etag"].posts \in Nat

\* The headers that are compared are the same for a GET and a HEAD.
LEMMA ComparedIs ==
  ASSUME Defect = <<"none">>, NEW e, NEW r, NEW a, NEW x,
         Like(a, Reply(r, Status(e), Shown(e, Representation(x))))
  PROVE  Compared(a.headers) = UsualHeaders(e)
<1> DEFINE body == Shown(e, Representation(x))
           p == Reply(r, Status(e), body)
           typed == IF e.expected_status = 204 THEN {} ELSE {"content-type"}
           names == DOMAIN a.headers \ IgnoredParityHeaders
<1>1. p.headers = Headers(r, body)
  BY ReplyIs
<1>2. HeadersOf(r, body, p.headers)
  BY <1>1, HeadersIs
<1>3. body.empty <=> e.expected_status = 204
  <2>1. Status(e) = e.expected_status
    BY DEF Status
  <2>2. EmptyBody.empty = TRUE /\ Representation(x).empty = FALSE
    BY DEF EmptyBody, NoTag, Representation
  <2> QED
    BY <2>1, <2>2 DEF Shown
<1>4. Like(a, p)
  OBVIOUS
<1> HIDE DEF p, body
<1>5. /\ DOMAIN p.headers = {"date", "vary"} \union typed
      /\ p.headers["vary"] = "y"
      /\ "content-type" \in DOMAIN p.headers => p.headers["content-type"] = "json"
  BY <1>2, <1>3 DEF HeadersOf
<1>6. names = {"vary"} \union typed
  <2>1. DOMAIN a.headers \ {"etag"} = {"date", "vary"} \union typed
    BY <1>4, <1>5 DEF Like
  <2>2. "vary" \notin IgnoredParityHeaders /\ "content-type" \notin IgnoredParityHeaders
        /\ "date" \in IgnoredParityHeaders /\ "etag" \in IgnoredParityHeaders
    BY DEF IgnoredParityHeaders
  <2>3. typed \subseteq {"content-type"}
    OBVIOUS
  <2> HIDE DEF typed
  <2>4. ASSUME NEW h PROVE h \in names <=> h \in {"vary"} \union typed
    BY <2>1, <2>2, <2>3
  <2> QED
    BY <2>4
<1>7. \A h \in {"vary"} \union typed : a.headers[h] = IF h = "vary" THEN "y" ELSE "json"
  BY <1>4, <1>5 DEF Like
<1>8. Compared(a.headers) = [h \in names |-> a.headers[h]]
  BY DEF Compared, Restrict
<1> HIDE DEF names
<1> QED
  BY <1>6, <1>7, <1>8 DEF UsualHeaders

LEMMA FirstRemembered ==
  ASSUME trial \in Trials, NEW e \in Endpoints, NEW c \in ToSet(RawCases(e)),
         NEW s, StoreOK(s),
         NeedsSecond(e, c, AnswerTo(s, FirstRequestOf(e, c)).response)
  PROVE  Remembered(Defect, e, c, AnswerTo(s, FirstRequestOf(e, c)))
<1> DEFINE r == FirstRequestOf(e, c)
           b == AnswerTo(s, r)
           a == b.response
           t == b.store
<1>1. c.kind \in TwoRequestKinds /\ Is2xx(a.status)
  BY VerdictIs DEF NeedsSecond
<1>2. /\ r.if_none_match = NoTag /\ r.method = e.method /\ r.body = e.example
  BY <1>1, FirstIs DEF TwoRequestKinds, BodyKinds
<1>3. RawCase(e, c)
  BY EndpointIs, RawCaseIs
<1>4. c.kind \in {"get_idempotency", "delete_idempotency", "put_idempotency",
                  "head_get_parity", "conditional_get_304"}
  BY <1>1 DEF TwoRequestKinds
<1>5. Refusal(e, r) = 0
  <2> SUFFICES ASSUME Refusal(e, r) # 0 PROVE FALSE
    OBVIOUS
  <2>1. a = Reply(r, Refusal(e, r), ErrorBody)
    BY <1>2, AnswerOf
  <2>2. a.status = Refusal(e, r)
    BY <2>1, ReplyIs
  <2> QED
    BY <1>1, <2>2, RefusalIs DEF Is2xx
<1>6. Outcome(e, s, r, a, t)
  BY <1>2, <1>5, OutcomeIs
<1>7. Stamped(r, a)
  BY AnswerStamped
<1>8. StoreOK(t)
  BY AnswerKeeps
<1> HIDE DEF b, r
<1>9. Defect # <<"wrong_status">> => Status(e) = e.expected_status
  BY DEF Status
<1>10. \A x : /\ Representation(x).posts = x.posts /\ ~Representation(x).empty
  BY DEF Representation
<1>11. /\ Defect = <<"none">> => /\ Defect # <<"read_writes">> /\ Defect # <<"wrong_status">>
                                 /\ Defect # <<"head_body">> /\ Defect # <<"put_adds">>
       /\ Defect \in {<<"read_writes">>, <<"put_adds">>, <<"head_body">>} =>
            Defect # <<"wrong_status">>
  OBVIOUS
<1>12. ASSUME e.method \in {"GET", "HEAD"}
       PROVE  /\ s.exists /\ a.status = Status(e)
              /\ Like(a, Reply(r, Status(e), Shown(e, Representation(s))))
              /\ t = IF Defect = <<"read_writes">> THEN Posted(s) ELSE s
  <2>1. s.exists
    BY <1>1, <1>6, <1>12 DEF Outcome, Is2xx
  <2> QED
    BY <1>6, <1>12, <2>1 DEF Outcome
<1>13. CASE c.kind = "get_idempotency"
  <2>1. e.method = "GET"
    BY <1>3, <1>13 DEF RawCase
  <2>2. a.body = (IF Status(e) = 204 THEN EmptyBody ELSE Representation(s))
    BY <1>2, <1>12, <2>1, ShownIs
  <2>3. ASSUME Defect = <<"none">> PROVE t.exists /\ a.body = Usual(e, t)
    BY <1>9, <1>11, <1>12, <2>1, <2>2, <2>3 DEF Usual
  <2>4. ASSUME Defect = <<"read_writes">>, e.expected_status # 204
        PROVE  a.body.posts \in Nat /\ a.body.posts < t.posts
    <3>1. a.body.posts = s.posts
      BY <1>9, <1>10, <1>11, <2>2, <2>4
    <3>2. t.posts = s.posts + 1
      BY <1>12, <2>1, <2>4 DEF Posted, StoreOK
    <3> QED
      BY <3>1, <3>2 DEF StoreOK
  <2> QED
    BY <1>13, <2>3, <2>4 DEF Remembered, b, r
<1>14. CASE c.kind = "delete_idempotency"
  <2>1. t = Gone(s)
    BY <1>3, <1>6, <1>14 DEF RawCase, Outcome
  <2>2. ~t.exists
    BY <2>1 DEF Gone, StoreOK
  <2> QED
    BY <1>14, <2>2 DEF Remembered, b, r
<1>15. CASE c.kind = "put_idempotency"
  <2>1. e.method = "PUT"
    BY <1>3, <1>15 DEF RawCase
  <2>2. t = Written(s, r) /\ Like(a, Reply(r, Status(e), Shown(e, Representation(t))))
    BY <1>6, <2>1 DEF Outcome
  <2>3. t.exists /\ t.base = e.example
    BY <1>2, <2>2 DEF Written
  <2>4. a.body = (IF Status(e) = 204 THEN EmptyBody ELSE Representation(t))
    BY <1>2, <2>1, <2>2, ShownIs
  <2>5. ASSUME Defect = <<"none">> PROVE a.body = Usual(e, t)
    BY <1>9, <1>11, <2>4, <2>5 DEF Usual
  <2>6. ASSUME Defect = <<"put_adds">>, e.expected_status # 204 PROVE a.body.posts = t.posts
    BY <1>9, <1>10, <1>11, <2>4, <2>6
  <2> QED
    BY <1>15, <2>3, <2>5, <2>6 DEF Remembered, b, r
<1>16. CASE c.kind = "head_get_parity"
  <2>1. e.method = "HEAD"
    BY <1>3, <1>16 DEF RawCase
  <2>2. a.body = (IF (r.method = "HEAD" /\ Defect # <<"head_body">>) \/ Status(e) = 204
                  THEN EmptyBody ELSE Representation(s))
    BY <1>12, <2>1, ShownIs
  <2>3. ASSUME Defect = <<"none">>
        PROVE  /\ t.exists /\ a.status = e.expected_status /\ a.body.empty
               /\ Compared(a.headers) = UsualHeaders(e)
    <3>1. a.body = EmptyBody
      BY <1>2, <1>11, <2>1, <2>2, <2>3
    <3>2. EmptyBody.empty
      BY DEF EmptyBody, NoTag
    <3>3. Compared(a.headers) = UsualHeaders(e)
      BY <1>12, <2>1, <2>3, ComparedIs
    <3> QED
      BY <1>9, <1>11, <1>12, <2>1, <2>3, <3>1, <3>2, <3>3
  <2>4. ASSUME Defect = <<"head_body">>, e.expected_status # 204 PROVE ~a.body.empty
    BY <1>9, <1>10, <1>11, <2>2, <2>4
  <2>5. ASSUME Defect = <<"head_varies">>
        PROVE  "vary" \in DOMAIN a.headers /\ a.headers["vary"] = "x"
    BY <1>2, <1>7, <2>1, <2>5 DEF Stamped
  <2> QED
    BY <1>16, <2>3, <2>4, <2>5 DEF Remembered, b, r
<1>17. CASE c.kind = "conditional_get_304"
  <2>1. e.method = "GET" /\ e.etag_supported
    BY <1>3, <1>17 DEF RawCase
  <2>2. a.headers["etag"] = Representation(s)
    BY <1>6, <1>12, <2>1 DEF Outcome
  <2>3. a.headers["etag"].posts \in Nat
    BY <1>10, <2>2 DEF StoreOK
  <2>4. Defect = <<"none">> => t.exists /\ a.headers["etag"] = Representation(t)
    BY <1>11, <1>12, <2>1, <2>2
  <2>5. Defect # <<"wrong_status">> => Is2xx(e.expected_status)
    BY <1>1, <1>9, <1>12, <2>1
  <2> QED
    BY <1>17, <2>3, <2>4, <2>5 DEF Remembered, b, r
<1> QED
  BY <1>4, <1>13, <1>14, <1>15, <1>16, <1>17

LEMMA SecondVerdictIs ==
  ASSUME NEW e, NEW c, NEW a, NEW z
  PROVE  /\ c.kind = "get_idempotency" =>
              (SecondVerdict(e, c, a, z) <=> Is2xx(z.status) /\ a.body = z.body)
         /\ c.kind = "delete_idempotency" =>
              (SecondVerdict(e, c, a, z) <=> z.status = SecondDeleteStatus(e))
         /\ c.kind = "put_idempotency" =>
              (SecondVerdict(e, c, a, z) <=> Is2xx(z.status) /\ a.body = z.body)
         /\ c.kind = "head_get_parity" =>
              (SecondVerdict(e, c, a, z) <=> HeadGetParityVerdict(a, z))
         /\ c.kind = "conditional_get_304" =>
              (SecondVerdict(e, c, a, z) <=> ConditionalGet304Verdict(a, z))
<1>1. CASE c.kind = "get_idempotency"
  BY <1>1 DEF SecondVerdict, GetIdempotencyVerdict
<1>2. CASE c.kind = "delete_idempotency"
  BY <1>2 DEF SecondVerdict, DeleteIdempotencyVerdict
<1>3. CASE c.kind = "put_idempotency"
  BY <1>3 DEF SecondVerdict, PutIdempotencyVerdict
<1>4. CASE c.kind = "head_get_parity"
  BY <1>4 DEF SecondVerdict
<1>5. CASE c.kind = "conditional_get_304"
  BY <1>5 DEF SecondVerdict
<1> QED
  BY <1>1, <1>2, <1>3, <1>4, <1>5

\* A sound service refuses no request without a fault.
LEMMA SoundRefusal ==
  ASSUME Defect = <<"none">>, NEW e, NEW r, e.auth_strategy # "none" => Admits(r.credential),
         r.body # Malformed, r.probe = "none", BodyFaults(e, r.body) = {}
  PROVE  Refusal(e, r) = 0
<1>1. Len(Defect) = 1 /\ Defect # <<"size_max">>
  OBVIOUS
<1>2. ~BadProbe(r) /\ NoticedFaults(e, r.body) = {} /\ ~FalseAlarm(e, r.body)
  BY <1>1, NoticedIs DEF BadProbe, FalseAlarm
<1> QED
  BY <1>2 DEF Refusal

\* The GET of a pair is served what the HEAD was.
LEMMA SoundParity ==
  ASSUME trial \in Trials, Defect = <<"none">>, NEW e \in Endpoints, Paired(e),
         NEW s, s.exists, NEW r, r.method = "GET", r.body = NoBody, r.probe = "none",
         r.if_none_match = NoTag, Authorised(e, r), e.static_header => r.credential \in {"static", "token"}
  PROVE  LET z == AnswerTo(s, r).response
         IN  z.status = e.expected_status /\ Compared(z.headers) = UsualHeaders(e)
<1> DEFINE z == AnswerTo(s, r).response
<1>1. PICK g \in Endpoints :
        /\ g.method = "GET" /\ g.expected_status = e.expected_status /\ ~HasSchema(g)
        /\ g.auth_strategy # "none" => e.auth_strategy # "none" \/ e.static_header
  BY DEF Paired, Declared
<1>2. Admits("token") /\ Admits("static")
  BY DEF Admits
<1>3. g.auth_strategy # "none" => Admits(r.credential)
  BY <1>1, <1>2 DEF Authorised
<1>4. BodyFaults(g, r.body) = {}
  BY <1>1 DEF BodyFaults
<1>5. Refusal(g, r) = 0
  BY <1>3, <1>4, SoundRefusal DEF NoBody, Malformed
<1>6. Outcome(g, s, r, z, AnswerTo(s, r).store)
  BY <1>1, <1>5, OutcomeIs
<1>7. z.status = Status(g) /\ Like(z, Reply(r, Status(g), Shown(g, Representation(s))))
  BY <1>1, <1>6 DEF Outcome
<1>8. Status(g) = e.expected_status
  BY <1>1 DEF Status
<1>9. Compared(z.headers) = UsualHeaders(g)
  BY <1>7, ComparedIs
<1>10. UsualHeaders(g) = UsualHeaders(e)
  BY <1>1 DEF UsualHeaders
<1> QED
  BY <1>7, <1>8, <1>9, <1>10

\* A request that names the tag of the store is answered with 304.
LEMMA SoundConditional ==
  ASSUME trial \in Trials, Defect = <<"none">>, NEW e \in Endpoints, e.method = "GET",
         e.etag_supported, ExampleValid(e), NEW s, s.exists,
         NEW r, r.method = "GET", r.body = e.example, r.probe = "none",
         r.if_none_match = Representation(s), Authorised(e, r)
  PROVE  LET z == AnswerTo(s, r).response
         IN  /\ z.status = 304 /\ z.body.empty
             /\ "etag" \in DOMAIN z.headers /\ z.headers["etag"] = Representation(s)
<1> DEFINE z == AnswerTo(s, r).response
           p == Reply(r, 304, EmptyBody)
<1>1. r.body # Malformed
  <2>1. e.example = NoBody \/ e.example.kind = "json"
    BY EndpointIs DEF BodyOK
  <2> QED
    BY <2>1 DEF NoBody, Malformed
<1>2. e.auth_strategy # "none" => Admits(r.credential)
  BY DEF Authorised, Admits
<1>3. Refusal(e, r) = 0
  BY <1>1, <1>2, SoundRefusal DEF ExampleValid
<1>4. AnswerTo(s, r) = Served(s, e, r)
  BY <1>3, AnswerOf
<1>5. ServedAs(e, s, r, Served(s, e, r).response, Served(s, e, r).store)
  BY ServedIs
<1>6. z = Fetch(s, e, r)
  BY <1>4, <1>5 DEF ServedAs
<1>7. \E g \in Declared("GET") : g.etag_supported
  BY DEF Declared
<1>8. /\ Like(z, p) /\ "etag" \in DOMAIN z.headers /\ z.headers["etag"] = Representation(s)
  BY <1>6, <1>7, FetchIs
<1>9. p.status = 304 /\ p.body = EmptyBody
  BY ReplyIs
<1>10. EmptyBody.empty
  BY DEF EmptyBody, NoTag
<1> HIDE DEF z, p
<1>11. z.status = 304 /\ z.body = EmptyBody
  BY <1>8, <1>9 DEF Like
<1> QED
  BY <1>8, <1>10, <1>11 DEF z

LEMMA SoundSecond ==
  ASSUME trial \in Trials, Defect = <<"none">>, NEW e \in Endpoints,
         NEW c \in ToSet(RawCases(e)), NEW s, StoreOK(s), NEW b,
         NeedsSecond(e, c, b.response), Remembered(Defect, e, c, b),
         ~SecondVerdict(e, c, b.response,
                        AnswerTo(s, SecondRequestOf(e, c, b.response)).response),
         NEW x, x.case = c, x.gone = FALSE, x.disturbed <=> b.store # s
  PROVE  Excused(e, x)
<1> DEFINE a == b.response
           r == SecondRequestOf(e, c, a)
           z == AnswerTo(s, r).response
           t == AnswerTo(s, r).store
<1> SUFFICES ASSUME ~Excused(e, x) PROVE FALSE
  OBVIOUS
<1>1. c.kind \in TwoRequestKinds
  BY DEF NeedsSecond
<1>2. /\ b.store = s /\ ExampleValid(e) /\ Is2xx(e.expected_status)
      /\ c.kind = "delete_idempotency" => trial.gone = SecondDeleteStatus(e)
      /\ c.kind = "head_get_parity" => Paired(e)
  BY <1>1 DEF Excused, EarlyKinds, TwoRequestKinds
<1>3. RawCase(e, c)
  BY EndpointIs, RawCaseIs
<1>4. /\ r.method = (IF c.kind = "head_get_parity" THEN "GET" ELSE e.method)
      /\ r.body = (IF c.kind = "head_get_parity" THEN NoBody ELSE e.example)
      /\ r.probe = "none"
      /\ r.if_none_match = (IF c.kind = "conditional_get_304" THEN a.headers["etag"] ELSE NoTag)
      /\ Authorised(e, r)
      /\ e.static_header => r.credential \in {"static", "token"}
  <2>1. SecondOf(e, c, a, r)
    BY <1>1, SecondIs
  <2> HIDE DEF r, a
  <2> QED
    BY <2>1 DEF SecondOf
<1>5. ~SecondVerdict(e, c, a, z) /\ Remembered(<<"none">>, e, c, b)
  OBVIOUS
<1> HIDE DEF r, z, t, a
<1>6. ASSUME c.kind \in {"get_idempotency", "delete_idempotency", "put_idempotency"}
      PROVE  Outcome(e, s, r, z, t)
  <2>1. r.method = e.method /\ r.body = e.example /\ r.if_none_match = NoTag
    BY <1>4, <1>6
  <2>2. r.body # Malformed
    <3>1. e.example = NoBody \/ e.example.kind = "json"
      BY EndpointIs DEF BodyOK
    <3> QED
      BY <2>1, <3>1 DEF NoBody, Malformed
  <2>3. e.auth_strategy # "none" => Admits(r.credential)
    BY <1>4 DEF Authorised, Admits
  <2>4. Refusal(e, r) = 0
    BY <1>2, <1>4, <2>1, <2>2, <2>3, SoundRefusal DEF ExampleValid
  <2> QED
    BY <2>1, <2>4, OutcomeIs DEF z, t
<1>7. Status(e) = e.expected_status
  BY DEF Status
<1>8. CASE c.kind = "get_idempotency"
  <2>1. e.method = "GET" /\ s.exists /\ a.body = Usual(e, s)
    BY <1>2, <1>3, <1>5, <1>8 DEF RawCase, Remembered, a
  <2>2. z.status = Status(e) /\ Like(z, Reply(r, Status(e), Shown(e, Representation(s))))
    BY <1>6, <1>8, <2>1 DEF Outcome
  <2>3. z.body = (IF (r.method = "HEAD" /\ Defect # <<"head_body">>) \/ Status(e) = 204
                  THEN EmptyBody ELSE Representation(s))
    BY <2>2, ShownIs
  <2>4. z.body = a.body
    BY <1>4, <1>7, <1>8, <2>1, <2>3 DEF Usual
  <2> QED
    BY <1>2, <1>5, <1>7, <1>8, <2>2, <2>4, SecondVerdictIs
<1>9. CASE c.kind = "delete_idempotency"
  <2>1. e.method = "DELETE" /\ ~s.exists
    BY <1>2, <1>3, <1>5, <1>9 DEF RawCase, Remembered
  <2>2. z.status = trial.gone
    BY <1>6, <1>9, <2>1 DEF Outcome
  <2> QED
    BY <1>2, <1>5, <1>9, <2>2, SecondVerdictIs
<1>10. CASE c.kind = "put_idempotency"
  <2>1. /\ e.method = "PUT" /\ a.body = Usual(e, s) /\ s.base = e.example
    BY <1>2, <1>3, <1>5, <1>10 DEF RawCase, Remembered, a
  <2>2. /\ z.status = Status(e) /\ t = Written(s, r)
        /\ Like(z, Reply(r, Status(e), Shown(e, Representation(t))))
    BY <1>6, <1>10, <2>1 DEF Outcome
  <2>3. Representation(t) = Representation(s)
    <3>1. t.base = s.base /\ t.posts = s.posts
      BY <1>4, <1>10, <2>1, <2>2 DEF Written
    <3> QED
      BY <3>1 DEF Representation
  <2>4. z.body = (IF (r.method = "HEAD" /\ Defect # <<"head_body">>) \/ Status(e) = 204
                  THEN EmptyBody ELSE Representation(t))
    BY <2>2, ShownIs
  <2>5. z.body = a.body
    BY <1>4, <1>7, <1>10, <2>1, <2>3, <2>4 DEF Usual
  <2> QED
    BY <1>2, <1>5, <1>7, <1>10, <2>2, <2>5, SecondVerdictIs
<1>11. CASE c.kind = "head_get_parity"
  <2>1. /\ s.exists /\ a.status = e.expected_status /\ a.body.empty
        /\ Compared(a.headers) = UsualHeaders(e)
    BY <1>2, <1>5, <1>11 DEF Remembered, a
  <2>2. z.status = e.expected_status /\ Compared(z.headers) = UsualHeaders(e)
    BY <1>2, <1>4, <1>11, <2>1, SoundParity DEF z
  <2>3. HeadGetParityVerdict(a, z)
    BY <2>1, <2>2 DEF HeadGetParityVerdict
  <2> QED
    BY <1>5, <1>11, <2>3, SecondVerdictIs
<1>12. CASE c.kind = "conditional_get_304"
  <2>1. /\ e.method = "GET" /\ e.etag_supported /\ s.exists
        /\ a.headers["etag"] = Representation(s)
    BY <1>2, <1>3, <1>5, <1>12 DEF RawCase, Remembered, a
  <2>2. /\ z.status = 304 /\ z.body.empty
        /\ "etag" \in DOMAIN z.headers /\ z.headers["etag"] = Representation(s)
    BY <1>2, <1>4, <1>12, <2>1, SoundConditional DEF z
  <2>3. ConditionalGet304Verdict(a, z)
    BY <2>1, <2>2 DEF ConditionalGet304Verdict
  <2> QED
    BY <1>5, <1>12, <2>3, SecondVerdictIs
<1> QED
  BY <1>1, <1>8, <1>9, <1>10, <1>11, <1>12 DEF TwoRequestKinds
-----------------------------------------------------------------------------
(* What is remembered between the two requests.                            *)

\* The first answer b of case c of e is good for a second request, whatever was made
\* of the store since.
FirstShows(defect, puts, e, c, b, s) ==
  /\ NeedsSecond(e, c, b.response)
  /\ StoreOK(b.store) /\ b.store.posts <= s.posts
  /\ puts = {} /\ ~b.store.exists => ~s.exists
  /\ Remembered(defect, e, c, b)

Memory ==
  /\ StoreOK(store)
  /\ \A e \in Endpoints : first[e.id] # NoResponse =>
       FirstShows(Defect, Declared("PUT"), e, Current(e), first[e.id], store)

LEMMA KeptOn ==
  ASSUME NEW defect, NEW puts, NEW e, NEW c, NEW b, NEW s, NEW t,
         FirstShows(defect, puts, e, c, b, s), StoreOK(s), StoreOK(t), s.posts <= t.posts,
         puts = {} /\ ~s.exists => ~t.exists
  PROVE  FirstShows(defect, puts, e, c, b, t)
<1>1. b.store.posts <= t.posts
  BY DEF FirstShows, StoreOK
<1> QED
  BY <1>1 DEF FirstShows

LEMMA KeptFirst ==
  ASSUME trial \in Trials, NEW e \in Endpoints, NEW c \in ToSet(RawCases(e)),
         NEW s, StoreOK(s), NEW b, b = AnswerTo(s, FirstRequestOf(e, c)),
         NeedsSecond(e, c, b.response)
  PROVE  FirstShows(Defect, Declared("PUT"), e, c, b, b.store)
<1>1. StoreOK(b.store)
  BY AnswerKeeps
<1>2. Remembered(Defect, e, c, b)
  BY FirstRemembered
<1>3. b.store.posts <= b.store.posts
  BY <1>1 DEF StoreOK
<1> QED
  BY <1>1, <1>2, <1>3 DEF FirstShows

\* What a step leaves alone.
LEMMA Unmoved ==
  ASSUME UNCHANGED <<trial, agenda>>
  PROVE  /\ Endpoints' = Endpoints /\ Ids' = Ids /\ Defect' = Defect
         /\ Declared("PUT")' = Declared("PUT")
BY DEF Endpoints, Ids, Defect, Declared

\* Each request is an answer's, and each other endpoint stays where it is.
LEMMA MemoryStep ==
  Base /\ Memory /\ [CasesNext]_caseVars => Memory'
<1> SUFFICES ASSUME Base, Memory, [CasesNext]_caseVars PROVE Memory'
  OBVIOUS
<1>1. CASE UNCHANGED caseVars
  BY <1>1 DEF caseVars, Memory, Endpoints, Defect, Declared, Current
<1>2. trial \in Trials /\ StoreOK(store)
  BY DEF Base, Steady, Memory
<1>3. ASSUME NEW e \in Endpoints, NEW d \in Endpoints, d # e
      PROVE  d.id # e.id /\ d.id \in Ids /\ e.id \in Ids
  BY <1>2, <1>3, EndpointIs DEF Ids
<1>4. ASSUME NEW e \in Endpoints, NEW r, UNCHANGED <<trial, agenda>>,
             store' = AnswerTo(store, r).store,
             \A d \in Endpoints : d # e => first'[d.id] = first[d.id] /\ at'[d.id] = at[d.id],
             first'[e.id] # NoResponse =>
               FirstShows(Defect, Declared("PUT"), e, Current(e)', first'[e.id], store')
      PROVE  Memory'
  <2>1. /\ Endpoints' = Endpoints /\ Ids' = Ids /\ Defect' = Defect
        /\ Declared("PUT")' = Declared("PUT")
    BY <1>4, Unmoved
  <2>2. PICK t : t = store'
    OBVIOUS
  <2>3. /\ StoreOK(t) /\ store.posts <= t.posts
        /\ Declared("PUT") = {} /\ ~store.exists => ~t.exists
    BY <1>2, <1>4, <2>2, AnswerKeeps
  <2>4. ASSUME NEW d \in Endpoints, first'[d.id] # NoResponse
        PROVE  FirstShows(Defect, Declared("PUT"), d, Current(d)', first'[d.id], t)
    <3>1. CASE d = e
      BY <1>4, <2>2, <2>4, <3>1
    <3>2. CASE d # e
      <4>1. first'[d.id] = first[d.id] /\ at'[d.id] = at[d.id]
        BY <1>4, <3>2
      <4>2. Current(d)' = Current(d)
        BY <1>4, <4>1 DEF Current
      <4>3. FirstShows(Defect, Declared("PUT"), d, Current(d), first[d.id], store)
        BY <2>4, <4>1 DEF Memory
      <4>4. PICK b, c : b = first[d.id] /\ c = Current(d)
        OBVIOUS
      <4>5. FirstShows(Defect, Declared("PUT"), d, c, b, t)
        BY <1>2, <2>3, <4>3, <4>4, KeptOn
      <4> QED
        BY <4>1, <4>2, <4>4, <4>5
    <3> QED
      BY <3>1, <3>2
  <2> QED
    BY <2>1, <2>2, <2>3, <2>4 DEF Memory
<1>5. ASSUME NEW e \in Endpoints, FirstRequest(e) PROVE Memory'
  <2> DEFINE c == Current(e)
             r == FirstRequestOf(e, c)
             b == AnswerTo(store, r)
  <2>1. /\ store' = b.store /\ UNCHANGED <<trial, agenda>>
        /\ ~Done(e) /\ first[e.id] = NoResponse
    BY <1>5 DEF FirstRequest
  <2>2. c \in ToSet(RawCases(e)) /\ e.id \in Ids
    BY <2>1, CurrentIs DEF Base, Held, Ids
  <2>3. /\ first = [i \in Ids |-> first[i]] /\ at \in [Ids -> Nat \ {0}]
    BY DEF Base, Held
  <2>4. CASE NeedsSecond(e, c, b.response)
    <3>1. first' = [first EXCEPT ![e.id] = b] /\ UNCHANGED at
      BY <1>5, <2>4 DEF FirstRequest
    <3>2. PICK k, q : k = c /\ q = b
      OBVIOUS
    <3>3. FirstShows(Defect, Declared("PUT"), e, k, q, q.store)
      BY <1>2, <2>2, <2>4, <3>2, KeptFirst
    <3> HIDE DEF b, r
    <3>4. first'[e.id] = b
      BY <2>2, <2>3, <3>1
    <3>5. Current(e)' = c
      BY <2>1, <3>1 DEF Current
    <3>6. \A d \in Endpoints : d # e => first'[d.id] = first[d.id] /\ at'[d.id] = at[d.id]
      BY <1>3, <2>3, <3>1
    <3> HIDE DEF c
    <3>7. FirstShows(Defect, Declared("PUT"), e, Current(e)', first'[e.id], store')
      BY <2>1, <3>2, <3>3, <3>4, <3>5
    <3>8. store' = AnswerTo(store, r).store
      BY <2>1 DEF b
    <3> QED
      BY <1>4, <2>1, <3>6, <3>7, <3>8
  <2>5. CASE ~NeedsSecond(e, c, b.response)
    <3>1. at' = [at EXCEPT ![e.id] = @ + 1] /\ UNCHANGED first
      BY <1>5, <2>5 DEF FirstRequest, Conclude
    <3>2. \A d \in Endpoints : d # e => first'[d.id] = first[d.id] /\ at'[d.id] = at[d.id]
      BY <1>3, <2>3, <3>1
    <3>3. first'[e.id] = NoResponse
      BY <2>1, <3>1
    <3> HIDE DEF c, r
    <3> QED
      BY <1>4, <2>1, <3>2, <3>3
  <2> QED
    BY <2>4, <2>5
<1>6. ASSUME NEW e \in Endpoints, SecondRequest(e) PROVE Memory'
  <2> DEFINE r == SecondRequestOf(e, Current(e), first[e.id].response)
  <2>1. /\ store' = AnswerTo(store, r).store /\ UNCHANGED <<trial, agenda>>
        /\ first' = [first EXCEPT ![e.id] = NoResponse]
        /\ at' = [at EXCEPT ![e.id] = @ + 1]
    BY <1>6 DEF SecondRequest, Conclude
  <2>2. /\ first = [i \in Ids |-> first[i]] /\ at \in [Ids -> Nat \ {0}] /\ e.id \in Ids
    BY DEF Base, Held, Ids
  <2> HIDE DEF r
  <2>3. \A d \in Endpoints : d # e => first'[d.id] = first[d.id] /\ at'[d.id] = at[d.id]
    BY <1>3, <2>1, <2>2
  <2>4. first'[e.id] = NoResponse
    BY <2>1, <2>2
  <2> QED
    BY <1>4, <2>1, <2>3, <2>4
<1> QED
  BY <1>1, <1>5, <1>6 DEF CasesNext, Finished

LEMMA MemoryInit ==
  CasesInit => Memory
<1> SUFFICES ASSUME CasesInit PROVE Memory
  OBVIOUS
<1>1. StoreOK(store)
  BY DEF CasesInit, StoreOK
<1>2. \A e \in Endpoints : first[e.id] = NoResponse
  BY DEF CasesInit, Ids
<1> QED
  BY <1>1, <1>2 DEF Memory

\* No case fails without a reason.
LEMMA ExplainedStep ==
  Base /\ Memory /\ FailuresExplained /\ [CasesNext]_caseVars => FailuresExplained'
<1> SUFFICES ASSUME Base, Memory, FailuresExplained, [CasesNext]_caseVars PROVE FailuresExplained'
  OBVIOUS
<1>1. CASE UNCHANGED caseVars
  BY <1>1 DEF caseVars, FailuresExplained, Excused, Declared, Paired, Endpoints, Defect
<1>2. trial \in Trials /\ StoreOK(store)
  BY DEF Base, Steady, Memory
<1>3. ASSUME NEW x, last' = x, trial' = trial, Excused(x.endpoint, x)
      PROVE  FailuresExplained'
  BY <1>3 DEF FailuresExplained, Excused, Declared, Paired, Endpoints, Defect
<1>4. ASSUME trial' = trial, Defect # <<"none">> \/ last'.passed
      PROVE  FailuresExplained'
  BY <1>4 DEF FailuresExplained, Defect
<1>5. ASSUME trial' = trial, last' = last
      PROVE  FailuresExplained'
  BY <1>5 DEF FailuresExplained, Excused, Declared, Paired, Endpoints, Defect
<1>6. ASSUME NEW e \in Endpoints, FirstRequest(e) PROVE FailuresExplained'
  <2> DEFINE c == Current(e)
             r == FirstRequestOf(e, c)
             b == AnswerTo(store, r)
  <2>1. trial' = trial /\ ~Done(e)
    BY <1>6 DEF FirstRequest
  <2>2. c \in ToSet(RawCases(e))
    BY <2>1, CurrentIs DEF Base, Held
  <2>3. CASE NeedsSecond(e, c, b.response)
    <3>1. last' = last
      BY <1>6, <2>3 DEF FirstRequest
    <3> QED
      BY <1>5, <2>1, <3>1
  <2>4. CASE ~NeedsSecond(e, c, b.response)
    <3>1. last' = [ endpoint |-> e, case |-> c, passed |-> SingleVerdict(e, c, b.response),
                    request |-> r, gone |-> ~store.exists, disturbed |-> FALSE ]
      BY <1>6, <2>4 DEF FirstRequest, Conclude
    <3>2. PICK x, k : x = last' /\ k = c
      OBVIOUS
    <3> HIDE DEF b, r, c
    <3>3. /\ x.endpoint = e /\ x.case = k /\ x.passed = SingleVerdict(e, c, b.response)
          /\ x.gone = ~store.exists
      BY <3>1, <3>2
    <3>4. CASE Defect # <<"none">> \/ SingleVerdict(e, c, b.response)
      BY <1>4, <2>1, <3>2, <3>3, <3>4
    <3>5. CASE Defect = <<"none">> /\ ~SingleVerdict(e, c, b.response)
      <4>1. Excused(e, x)
        BY <1>2, <2>2, <2>4, <3>2, <3>3, <3>5, SoundSingle DEF b, r
      <4> QED
        BY <1>3, <2>1, <3>2, <3>3, <4>1
    <3> QED
      BY <3>4, <3>5
  <2> QED
    BY <2>3, <2>4
<1>7. ASSUME NEW e \in Endpoints, SecondRequest(e) PROVE FailuresExplained'
  <2> DEFINE c == Current(e)
             b == first[e.id]
             r == SecondRequestOf(e, c, b.response)
             z == AnswerTo(store, r)
  <2>1. trial' = trial /\ b # NoResponse
    BY <1>7 DEF SecondRequest
  <2>2. c \in ToSet(RawCases(e))
    BY <2>1, CurrentIs DEF Base, Held
  <2>3. FirstShows(Defect, Declared("PUT"), e, c, b, store)
    BY <2>1 DEF Memory
  <2>4. last' = [ endpoint |-> e, case |-> c,
                  passed |-> SecondVerdict(e, c, b.response, z.response),
                  request |-> r, gone |-> FALSE, disturbed |-> b.store # store ]
    BY <1>7 DEF SecondRequest, Conclude
  <2>5. PICK x, k, q : x = last' /\ k = c /\ q = b
    OBVIOUS
  <2> HIDE DEF b, r, c, z
  <2>6. /\ x.endpoint = e /\ x.case = k /\ x.passed = SecondVerdict(e, c, b.response, z.response)
        /\ x.gone = FALSE /\ x.disturbed = (b.store # store)
    BY <2>4, <2>5
  <2>7. CASE Defect # <<"none">> \/ SecondVerdict(e, c, b.response, z.response)
    BY <1>4, <2>1, <2>5, <2>6, <2>7
  <2>8. CASE Defect = <<"none">> /\ ~SecondVerdict(e, c, b.response, z.response)
    <3>1. NeedsSecond(e, k, q.response) /\ Remembered(Defect, e, k, q)
      BY <2>3, <2>5 DEF FirstShows
    <3>2. ~SecondVerdict(e, k, q.response, AnswerTo(store, SecondRequestOf(e, k, q.response)).response)
      BY <2>5, <2>8 DEF z, r
    <3>3. /\ k \in ToSet(RawCases(e)) /\ x.case = k /\ x.gone = FALSE
          /\ x.disturbed <=> q.store # store
      BY <2>2, <2>5, <2>6
    <3>4. Defect = <<"none">>
      BY <2>8
    <3>5. Excused(e, x)
      BY <1>2, <3>1, <3>2, <3>3, <3>4, SoundSecond, Zenon
    <3>6. last' = x /\ x.endpoint = e
      BY <2>5, <2>6
    <3>7. Excused(x.endpoint, x)
      BY <3>5, <3>6
    <3> QED
      BY <1>3, <2>1, <3>6, <3>7
  <2> QED
    BY <2>7, <2>8
<1> QED
  BY <1>1, <1>6, <1>7 DEF CasesNext, Finished

LEMMA MemoryHolds ==
  CasesSpec => [](Base /\ Memory)
<1> QED
  BY BaseInit, BaseStep, MemoryInit, MemoryStep, PTL DEF CasesSpec

\* No case fails against a service that does what the endpoint files say,
\* except for the reasons listed (computeVerdict and the two-request
\* verdicts, under any interleaving of the workers).
THEOREM SoundServicePasses == CasesSpec => []FailuresExplained
<1>1. CasesInit => FailuresExplained
  BY DEF CasesInit, FailuresExplained
<1> QED
  BY <1>1, MemoryHolds, ExplainedStep, PTL DEF CasesSpec
-----------------------------------------------------------------------------
(* The cases that are there to find a defect.                              *)

BodyTarget(e, c) ==
  /\ c.what = Defect[1] /\ Feasible(e, c) /\ e.expected_status # 400
  /\ \/ Defect[2] = "required" /\ c.kind = "required_field_omission_returns_400"
     \/ Defect[2] = "type" /\ c.kind = "type_violation_returns_400"
     \/ /\ c.kind = "boundary_battery" /\ ~Torn(e, c)
        /\ c.bound[1] = Defect[2] /\ c.bound[2] = "outside"

LimitTarget(e, c) ==
  /\ c.kind = "boundary_battery" /\ c.what = Defect[1] /\ Feasible(e, c)
  /\ c.bound[1] = Defect[2] /\ c.bound[2] = "inside" /\ e.expected_status # 400

\* The cases of one request against the defects without a place.
SingleTarget(e, c) ==
  LET expected == e.expected_status IN
  \/ Defect = <<"open">> /\ c.kind = "no_auth_returns_401" /\ expected # 401
  \/ Defect \in {<<"open">>, <<"any_token">>} /\ c.kind = "garbage_token_returns_401"
       /\ expected # 401
  \/ Defect = <<"any_method">> /\ c.kind = "method_not_allowed"
       /\ Declared(SubstituteMethod(e)) = {}
  \/ Defect = <<"malformed">> /\ c.kind = "malformed_json_returns_400"
  \/ Defect = <<"wrong_status">> /\ c.kind = "status_code_conformance"
       /\ expected \notin {203, 400, 404} /\ (e.method = "DELETE" => expected # trial.gone)
  \/ Defect = <<"untyped">> /\ c.kind = "content_type_alignment"
  \/ Defect = <<"slow">> /\ c.kind = "response_time_sla"
  \/ Defect = <<"misshapen">> /\ c.kind = "response_schema_validation"
  \/ Defect = <<"unbounded">> /\ c.kind = "pagination_boundary"
       /\ c.what # <<"size_max">> /\ expected # 400 /\ ExampleValid(e)
  \/ Defect = <<"size_max">> /\ c.kind = "pagination_boundary"
       /\ c.what = <<"size_max">> /\ expected # 400
  \/ /\ Defect \in {<<"origin">>, <<"methods">>, <<"headers">>} /\ c.kind = "cors_preflight"
     /\ Defect = <<"headers">> => e.cors.lists.headers # {}

\* Those of two.
DoubleTarget(e, c) ==
  LET expected == e.expected_status IN
  \/ Defect = <<"read_writes">> /\ c.kind = "get_idempotency" /\ expected # 204
  \/ Defect = <<"delete_fails">> /\ c.kind = "delete_idempotency" /\ Declared("PUT") = {}
  \/ Defect = <<"put_adds">> /\ c.kind = "put_idempotency" /\ expected # 204
  \/ Defect = <<"head_body">> /\ c.kind = "head_get_parity" /\ expected # 204
  \/ Defect = <<"head_varies">> /\ c.kind = "head_get_parity"
  \/ Defect \in {<<"never_304">>, <<"body_304">>, <<"tag_304">>} /\ c.kind = "conditional_get_304"

LEMMA DefectIs ==
  ASSUME trial \in Trials
  PROVE  /\ Len(Defect) \in 1 .. 3
         /\ Len(Defect) = 1 => Defect = <<Defect[1]>>
         /\ Len(Defect) = 2 => Defect = <<Defect[1], Defect[2]>>
         /\ Len(Defect) = 3 => Defect[2] \in Numeric /\ Defect[3] = "off_by_one"
<1>1. IsSeq(Defect) /\ Len(Defect) \in 1 .. 3
      /\ (Len(Defect) = 3 => Defect[2] \in Numeric /\ Defect[3] = "off_by_one")
  BY TrialsAssumption DEF TrialOK, Defect
<1>2. Defect \in Seq(ToSet(Defect))
  BY <1>1 DEF IsSeq
<1> QED
  BY <1>1, <1>2

LEMMA TargetsIs ==
  ASSUME trial \in Trials, NEW e, NEW c, Targets(e, c)
  PROVE  \/ Len(Defect) = 2 /\ BodyTarget(e, c)
         \/ Len(Defect) = 3 /\ LimitTarget(e, c)
         \/ Len(Defect) = 1 /\ (SingleTarget(e, c) \/ DoubleTarget(e, c))
<1>1. Len(Defect) \in 1 .. 3 /\ (Len(Defect) = 1 => Defect = <<Defect[1]>>)
  BY DefectIs
<1>2. CASE Len(Defect) = 2
  BY <1>2 DEF Targets, BodyTarget
<1>3. CASE Len(Defect) = 3
  BY <1>3 DEF Targets, LimitTarget
<1>4. CASE Len(Defect) = 1
  <2>1. PICK d : d = Defect[1] /\ Defect = <<d>>
    BY <1>1, <1>4
  <2>2. Len(Defect) # 2 /\ Len(Defect) # 3
    BY <1>4
  <2> QED
    BY <1>4, <2>1, <2>2 DEF Targets, SingleTarget, DoubleTarget
<1> QED
  BY <1>1, <1>2, <1>3, <1>4

\* The status of what is not refused.
LEMMA OutcomeStatus ==
  ASSUME NEW e, NEW s, NEW r, NEW a, NEW t, Outcome(e, s, r, a, t)
  PROVE  \/ a.status = Status(e)
         \/ a.status = 404 /\ e.method \in {"GET", "HEAD"}
         \/ a.status = trial.gone /\ e.method = "DELETE"
         \/ a.status = 500 /\ Defect = <<"delete_fails">>
BY DEF Outcome

\* The schema's one fault, unnoticed.
LEMMA CaughtBody ==
  ASSUME trial \in Trials, NEW e \in Endpoints, NEW c \in ToSet(RawCases(e)), NEW s,
         Len(Defect) = 2, BodyTarget(e, c)
  PROVE  ~SingleVerdict(e, c, AnswerTo(s, FirstRequestOf(e, c)).response)
<1> DEFINE r == FirstRequestOf(e, c)
           a == AnswerTo(s, r).response
           t == AnswerTo(s, r).store
           v == BoundaryValue(c.bound)
<1>1. /\ EndpointOK(e) /\ BodyOK(e.example) /\ trial.gone \in {204, 404}
      /\ Defect = <<Defect[1], Defect[2]>>
  BY EndpointIs, DefectIs
<1>2. c.kind \in BodyKinds /\ Feasible(e, c) /\ e.expected_status # 400
  BY DEF BodyTarget, BodyKinds
<1>3. /\ r.if_none_match = NoTag /\ r.method = e.method /\ r.body = MutatedRequest(e, c).body
      /\ r.probe = "none" /\ Authorised(e, r)
  BY <1>2, FirstIs DEF BodyKinds
<1>4. PICK f : CaseField(e, c, f)
  BY <1>1, <1>2, CaseFieldIs
<1>5. Bitten(e, c, f) /\ r.body # Malformed
  BY <1>1, <1>2, <1>3, <1>4, CaseBites, BittenJson
<1>6. BodyFaults(e, r.body) = {<<Defect[1], Defect[2]>>}
  <2>1. CASE c.kind = "required_field_omission_returns_400"
    BY <1>3, <1>5, <2>1 DEF Bitten, BodyTarget
  <2>2. CASE c.kind = "type_violation_returns_400"
    BY <1>3, <1>5, <2>2 DEF Bitten, BodyTarget
  <2>3. CASE c.kind = "boundary_battery"
    <3>1. ~Torn(e, c) /\ c.bound[1] = Defect[2] /\ c.bound[2] = "outside" /\ c.what = Defect[1]
      BY <2>3 DEF BodyTarget
    <3>2. c.bound[1] \in Broken(f, v)
      BY <1>5, <2>3, <3>1 DEF Bitten
    <3>3. FieldOf(e, c.what) = f
      BY <1>4 DEF CaseField
    <3>4. \A d \in Broken(f, v) : d \in DOMAIN f.limits /\ Breaks(d, f.limits[d], v)
      BY DEF Broken
    <3> HIDE DEF v
    <3>5. \A d \in DOMAIN f.limits \ {c.bound[1]} : ~Breaks(d, f.limits[d], v)
      BY <3>1, <3>3 DEF Torn, v
    <3>6. Broken(f, v) = {c.bound[1]}
      BY <3>2, <3>4, <3>5
    <3>7. BodyFaults(e, r.body) = {<<c.what, d>> : d \in Broken(f, v)}
      BY <1>3, <1>5, <2>3 DEF Bitten, v
    <3> QED
      BY <3>1, <3>6, <3>7
  <2> QED
    BY <1>2, <2>1, <2>2, <2>3 DEF BodyKinds
<1> HIDE DEF r, v, t, a
<1>7. NoticedFaults(e, r.body) = {}
  BY <1>1, <1>6 DEF NoticedFaults
<1>8. ~BadProbe(r) /\ ~FalseAlarm(e, r.body)
  BY <1>3 DEF BadProbe, FalseAlarm
<1>9. Refusal(e, r) = 0
  BY <1>3, <1>5, <1>7, <1>8, AuthorisedIs
<1>10. Outcome(e, s, r, a, t)
  BY <1>3, <1>9, OutcomeIs DEF a, t
<1>11. Defect # <<"wrong_status">> /\ Defect # <<"delete_fails">>
  OBVIOUS
<1>12. a.status # 400
  BY <1>1, <1>2, <1>10, <1>11, OutcomeStatus DEF Status
<1>13. c.kind \in StatusEqKinds /\ ExpectedStatus(e, c) = 400
  BY <1>2 DEF BodyTarget, BodyKinds, StatusEqKinds, ExpectedStatus
<1> QED
  BY <1>12, <1>13, VerdictIs DEF a, r

\* A value at its limit, taken for one beyond it.
LEMMA CaughtLimit ==
  ASSUME trial \in Trials, NEW e \in Endpoints, NEW c \in ToSet(RawCases(e)), NEW s,
         Len(Defect) = 3, LimitTarget(e, c)
  PROVE  ~SingleVerdict(e, c, AnswerTo(s, FirstRequestOf(e, c)).response)
<1> DEFINE r == FirstRequestOf(e, c)
           a == AnswerTo(s, r).response
           v == BoundaryValue(c.bound)
<1>1. /\ EndpointOK(e) /\ BodyOK(e.example)
      /\ Defect[2] \in Numeric /\ Defect[3] = "off_by_one"
  BY EndpointIs, DefectIs
<1>2. /\ c.kind = "boundary_battery" /\ c.what = Defect[1] /\ Feasible(e, c)
      /\ c.bound[1] = Defect[2] /\ c.bound[2] = "inside" /\ e.expected_status # 400
  BY DEF LimitTarget
<1>3. c.kind \in BodyKinds
  BY <1>2 DEF BodyKinds
<1>4. /\ r.method = e.method /\ r.body = MutatedRequest(e, c).body /\ Authorised(e, r)
  BY <1>2, FirstIs
<1>5. PICK f : CaseField(e, c, f)
  BY <1>1, <1>3, CaseFieldIs
<1>6. /\ r.body.kind = "json" /\ r.body # Malformed
      /\ f.path \in DOMAIN r.body.at /\ r.body.at[f.path] = v
  BY <1>1, <1>2, <1>3, <1>4, <1>5, BittenJson
<1>7. /\ c.what = f.path /\ f \in ToSet(FieldsOf(e)) /\ c.bound[1] \in DOMAIN f.limits
      /\ Sided(c.bound[1], f.limits[c.bound[1]], c.bound[2], c.bound[3])
  BY <1>2, <1>5 DEF CaseField
<1>8. v.n = f.limits[Defect[2]]
  <2>1. c.bound[1] \in {"minimum", "maximum", "minLength", "maxLength"}
    BY <1>1, <1>2 DEF Numeric
  <2>2. c.bound[3] = f.limits[c.bound[1]]
    BY <1>2, <1>7, <2>1 DEF Sided
  <2>3. v.n = c.bound[3]
    BY <2>1 DEF BoundaryValue, Number, Repeated, Value
  <2> QED
    BY <1>2, <2>2, <2>3
<1>9. PICK i \in DOMAIN FieldsOf(e) : FieldsOf(e)[i] = f
  BY <1>7 DEF ToSet
<1> HIDE DEF r, v
<1>10. FalseAlarm(e, r.body)
  BY <1>1, <1>2, <1>6, <1>7, <1>8, <1>9 DEF FalseAlarm
<1>11. Refusal(e, r) = 400
  BY <1>4, <1>6, <1>10, AuthorisedIs
<1>12. a.status = 400
  BY <1>4, <1>11, AnswerOf, ReplyIs
<1>13. c.kind \in StatusEqKinds /\ ExpectedStatus(e, c) = e.expected_status
  BY <1>2 DEF StatusEqKinds, ExpectedStatus
<1> HIDE DEF a
<1> QED
  BY <1>2, <1>12, <1>13, VerdictIs DEF a, r

\* A service that answers a preflight with another origin, or none.
LEMMA OriginLost ==
  ASSUME trial \in Trials, Defect = <<"origin">>, NEW e \in Endpoints, e.method = "OPTIONS",
         NEW s, NEW r, r.method = "OPTIONS", r.if_none_match = NoTag
  PROVE  LET headers == AnswerTo(s, r).response.headers
             origin == "access-control-allow-origin"
         IN  origin \in DOMAIN headers => headers[origin] = "elsewhere"
<1> DEFINE a == AnswerTo(s, r).response
           origin == "access-control-allow-origin"
           refused == r.preflight = {} \/ (trial.strict /\ Cardinality(r.preflight) # 1)
           plain == Reply(r, Status(e), EmptyBody)
<1>1. ASSUME NEW status, NEW body PROVE origin \notin DOMAIN Reply(r, status, body).headers
  <2>1. HeadersOf(r, body, Reply(r, status, body).headers)
    BY ReplyIs, HeadersIs
  <2> QED
    BY <2>1 DEF HeadersOf
<1>2. CASE Refusal(e, r) # 0
  <2>1. a = Reply(r, Refusal(e, r), ErrorBody)
    BY <1>2, AnswerOf
  <2> HIDE DEF a
  <2> QED
    BY <1>1, <2>1 DEF a
<1>3. CASE Refusal(e, r) = 0
  <2>1. a = Preflight(e, r)
    BY <1>3, OutcomeIs DEF Outcome
  <2>2. /\ refused => Preflight(e, r) = plain
        /\ ~refused =>
             Preflight(e, r).headers[origin] =
               (IF Defect = <<"origin">> THEN "elsewhere" ELSE e.cors.lists.origins[1])
    BY PreflightIs
  <2>3. origin \notin DOMAIN plain.headers
    BY <1>1
  <2> HIDE DEF a, plain, refused
  <2> QED
    BY <2>1, <2>2, <2>3 DEF a
<1> QED
  BY <1>2, <1>3

\* One request is enough.
LEMMA CaughtSingle ==
  ASSUME trial \in Trials, NEW e \in Endpoints, NEW c \in ToSet(RawCases(e)), NEW s,
         SingleTarget(e, c)
  PROVE  ~SingleVerdict(e, c, AnswerTo(s, FirstRequestOf(e, c)).response)
<1> DEFINE r == FirstRequestOf(e, c)
           a == AnswerTo(s, r).response
           t == AnswerTo(s, r).store
<1>1. RawCase(e, c) /\ EndpointOK(e) /\ BodyOK(e.example) /\ trial.gone \in {204, 404}
      /\ (e.cors.declared => /\ e.cors.allow_methods = Cardinality(e.cors.lists.methods)
                             /\ e.cors.lists.origins[1] # "elsewhere")
  BY EndpointIs, RawCaseIs
<1>2. /\ r.if_none_match = NoTag
      /\ r.method = (IF c.kind = "method_not_allowed" THEN SubstituteMethod(e) ELSE e.method)
      /\ c.kind = "malformed_json_returns_400" => r.body = Malformed
      /\ c.kind \notin BodyKinds \union {"malformed_json_returns_400"} => r.body = e.example
      /\ r.probe = (IF c.kind = "pagination_boundary" THEN c.what[1] ELSE "none")
      /\ c.kind = "garbage_token_returns_401" => r.credential = "garbage"
      /\ c.kind \notin {"no_auth_returns_401", "garbage_token_returns_401"} => Authorised(e, r)
  BY FirstIs
<1>3. e.example # Malformed
  <2>1. e.example = NoBody \/ e.example.kind = "json"
    BY <1>1 DEF BodyOK
  <2> QED
    BY <2>1 DEF NoBody, Malformed
<1>4. Stamped(r, a)
  BY AnswerStamped
<1>5. /\ c.kind \in StatusEqKinds =>
           (SingleVerdict(e, c, a) <=> a.status = ExpectedStatus(e, c))
      /\ c.kind = "content_type_alignment" =>
           (SingleVerdict(e, c, a) <=> "content-type" \in DOMAIN a.headers)
      /\ c.kind = "response_time_sla" => (SingleVerdict(e, c, a) <=> a.in_time)
      /\ c.kind = "response_schema_validation" => (SingleVerdict(e, c, a) <=> a.fits)
      /\ c.kind = "cors_preflight" => (SingleVerdict(e, c, a) <=> CorsPreflightVerdict(e, a))
  BY VerdictIs
<1>6. ASSUME r.method = e.method, Refusal(e, r) # 0 PROVE a.status = Refusal(e, r)
  <2>1. a = Reply(r, Refusal(e, r), ErrorBody)
    BY <1>6, AnswerOf
  <2> QED
    BY <2>1, ReplyIs
<1>7. ASSUME r.method = e.method, Refusal(e, r) = 0
      PROVE  \/ a.status = Status(e)
             \/ a.status = 404 /\ e.method \in {"GET", "HEAD"}
             \/ a.status = trial.gone /\ e.method = "DELETE"
             \/ a.status = 500 /\ Defect = <<"delete_fails">>
  <2>1. Outcome(e, s, r, a, t)
    BY <1>2, <1>7, OutcomeIs
  <2> HIDE DEF r, a, t
  <2> QED
    BY <2>1, OutcomeStatus
<1>8. ASSUME c.kind \in {"no_auth_returns_401", "garbage_token_returns_401"}
      PROVE  SingleVerdict(e, c, a) <=> a.status = 401
  BY <1>5, <1>8 DEF StatusEqKinds, ExpectedStatus
<1>9. ~SingleVerdict(e, c, a) <=> ~SingleVerdict(e, c, AnswerTo(s, FirstRequestOf(e, c)).response)
  OBVIOUS
<1>10. ASSUME Defect = <<"any_method">>, c.kind = "method_not_allowed",
              Declared(SubstituteMethod(e)) = {}
       PROVE  a.status = 200
  <2>1. a = Reply(r, 200, ErrorBody)
    BY <1>2, <1>10 DEF AnswerTo
  <2> QED
    BY <2>1, ReplyIs
<1>11. Defect = <<"origin">> /\ c.kind = "cors_preflight" =>
         ("access-control-allow-origin" \in DOMAIN a.headers =>
            a.headers["access-control-allow-origin"] = "elsewhere")
  BY <1>1, <1>2, OriginLost DEF RawCase
<1> HIDE DEF r, a, t
<1>12. ASSUME c.kind \in {"no_auth_returns_401", "garbage_token_returns_401"},
              Admits(r.credential), e.expected_status # 401,
              Defect \in {<<"open">>, <<"any_token">>}
       PROVE  ~SingleVerdict(e, c, a)
  <2>1. Refusal(e, r) \in {0, 400, 500}
    BY <1>12, RefusalIs
  <2>2. Status(e) # 401 /\ r.method = e.method
    BY <1>2, <1>12 DEF Status
  <2>3. a.status # 401
    BY <1>1, <1>6, <1>7, <1>12, <2>1, <2>2
  <2> QED
    BY <1>8, <1>12, <2>3
<1>13. CASE Defect = <<"open">> /\ c.kind = "no_auth_returns_401" /\ e.expected_status # 401
  BY <1>9, <1>12, <1>13 DEF Admits
<1>14. CASE Defect \in {<<"open">>, <<"any_token">>} /\ c.kind = "garbage_token_returns_401"
              /\ e.expected_status # 401
  BY <1>2, <1>9, <1>12, <1>14 DEF Admits
<1>15. CASE Defect = <<"any_method">> /\ c.kind = "method_not_allowed"
              /\ Declared(SubstituteMethod(e)) = {}
  <2>1. c.kind \in StatusEqKinds /\ ExpectedStatus(e, c) = 405
    BY <1>15 DEF StatusEqKinds, ExpectedStatus
  <2> QED
    BY <1>5, <1>9, <1>10, <1>15, <2>1
<1>16. CASE Defect = <<"malformed">> /\ c.kind = "malformed_json_returns_400"
  <2>1. Refusal(e, r) = 500
    BY <1>2, <1>16, AuthorisedIs
  <2>2. a.status = 500
    BY <1>2, <1>6, <1>16, <2>1
  <2>3. c.kind \in StatusEqKinds /\ ExpectedStatus(e, c) = 400
    BY <1>16 DEF StatusEqKinds, ExpectedStatus
  <2> QED
    BY <1>5, <1>9, <2>2, <2>3
<1>17. CASE Defect = <<"wrong_status">> /\ c.kind = "status_code_conformance"
              /\ e.expected_status \notin {203, 400, 404}
              /\ (e.method = "DELETE" => e.expected_status # trial.gone)
  <2>1. /\ r.method = e.method /\ r.body # Malformed /\ Authorised(e, r)
    BY <1>2, <1>3, <1>17 DEF BodyKinds
  <2>2. Refusal(e, r) \in {0, 400}
    BY <2>1, AuthorisedIs
  <2>3. Status(e) = 203 /\ Defect # <<"delete_fails">>
    BY <1>17 DEF Status
  <2>4. a.status # e.expected_status
    BY <1>6, <1>7, <1>17, <2>1, <2>2, <2>3
  <2>5. c.kind \in StatusEqKinds /\ ExpectedStatus(e, c) = e.expected_status
    BY <1>17 DEF StatusEqKinds, ExpectedStatus
  <2> QED
    BY <1>5, <1>9, <2>4, <2>5
<1>18. CASE Defect = <<"untyped">> /\ c.kind = "content_type_alignment"
  BY <1>4, <1>5, <1>9, <1>18 DEF Stamped
<1>19. CASE Defect = <<"slow">> /\ c.kind = "response_time_sla"
  BY <1>4, <1>5, <1>9, <1>19 DEF Stamped
<1>20. CASE Defect = <<"misshapen">> /\ c.kind = "response_schema_validation"
  BY <1>4, <1>5, <1>9, <1>20 DEF Stamped
<1>21. CASE Defect = <<"unbounded">> /\ c.kind = "pagination_boundary"
              /\ c.what # <<"size_max">> /\ e.expected_status # 400 /\ ExampleValid(e)
  <2>1. /\ r.method = e.method /\ r.body = e.example /\ Authorised(e, r) /\ e.method = "GET"
        /\ r.probe = c.what[1] /\ c.what[1] # "size_max"
    BY <1>1, <1>2, <1>21 DEF BodyKinds, RawCase
  <2>2. Len(Defect) = 1 /\ Defect # <<"size_max">> /\ Defect # <<"delete_fails">>
        /\ Defect # <<"wrong_status">>
    BY <1>21
  <2>3. ~BadProbe(r) /\ NoticedFaults(e, r.body) = {} /\ ~FalseAlarm(e, r.body)
    BY <1>21, <2>1, <2>2, NoticedIs DEF BadProbe, FalseAlarm, ExampleValid
  <2>4. Refusal(e, r) = 0
    BY <1>3, <2>1, <2>3, AuthorisedIs
  <2>5. a.status # 400
    BY <1>7, <1>21, <2>1, <2>2, <2>4 DEF Status
  <2>6. c.kind \in StatusEqKinds /\ ExpectedStatus(e, c) = 400
    BY <1>21, <2>1 DEF StatusEqKinds, ExpectedStatus
  <2> QED
    BY <1>5, <1>9, <2>5, <2>6
<1>22. CASE Defect = <<"size_max">> /\ c.kind = "pagination_boundary"
              /\ c.what = <<"size_max">> /\ e.expected_status # 400
  <2>1. /\ r.method = e.method /\ r.body # Malformed /\ Authorised(e, r)
        /\ r.probe = "size_max" /\ c.what[1] = "size_max"
    BY <1>2, <1>3, <1>22 DEF BodyKinds
  <2>2. Refusal(e, r) = 400
    BY <1>22, <2>1, AuthorisedIs DEF BadProbe
  <2>3. a.status = 400
    BY <1>6, <2>1, <2>2
  <2>4. c.kind \in StatusEqKinds /\ ExpectedStatus(e, c) = e.expected_status
    BY <1>22, <2>1 DEF StatusEqKinds, ExpectedStatus
  <2> QED
    BY <1>5, <1>9, <1>22, <2>3, <2>4
<1>23. CASE /\ Defect \in {<<"origin">>, <<"methods">>, <<"headers">>} /\ c.kind = "cors_preflight"
            /\ Defect = <<"headers">> => e.cors.lists.headers # {}
  <2>1. e.method = "OPTIONS" /\ e.cors.declared /\ ~CorsDropped(e)
    BY <1>1, <1>23 DEF RawCase
  <2>2. e.cors.lists.methods # {}
    <3>1. Cardinality(e.cors.lists.methods) # 0
      BY <1>1, <2>1 DEF CorsDropped
    <3> QED
      BY <3>1, FS_EmptySet
  <2>3. ~CorsPreflightVerdict(e, a)
    <3>1. CASE Defect = <<"origin">>
      BY <1>1, <1>11, <1>23, <2>1, <3>1 DEF CorsPreflightVerdict
    <3>2. CASE Defect = <<"methods">>
      BY <1>4, <2>2, <3>2 DEF CorsPreflightVerdict, Stamped
    <3>3. CASE Defect = <<"headers">>
      BY <1>4, <1>23, <3>3 DEF CorsPreflightVerdict, Stamped
    <3> QED
      BY <1>23, <3>1, <3>2, <3>3
  <2> QED
    BY <1>5, <1>9, <1>23, <2>3
<1> QED
  BY <1>13, <1>14, <1>15, <1>16, <1>17, <1>18, <1>19, <1>20, <1>21, <1>22, <1>23
     DEF SingleTarget

\* The second request, whatever was made of the store between the two.
LEMMA CaughtSecond ==
  ASSUME trial \in Trials, NEW e \in Endpoints, NEW c \in ToSet(RawCases(e)),
         NEW s, StoreOK(s), NEW b, FirstShows(Defect, Declared("PUT"), e, c, b, s),
         DoubleTarget(e, c)
  PROVE  ~SecondVerdict(e, c, b.response,
                        AnswerTo(s, SecondRequestOf(e, c, b.response)).response)
<1> DEFINE a == b.response
           r == SecondRequestOf(e, c, a)
           z == AnswerTo(s, r).response
           t == AnswerTo(s, r).store
<1>1. RawCase(e, c)
  BY EndpointIs, RawCaseIs
<1>2. /\ c.kind \in TwoRequestKinds /\ Remembered(Defect, e, c, b)
      /\ StoreOK(b.store) /\ b.store.posts <= s.posts
      /\ Declared("PUT") = {} /\ ~b.store.exists => ~s.exists
  BY DEF FirstShows, NeedsSecond
<1>3. /\ r.method = (IF c.kind = "head_get_parity" THEN "GET" ELSE e.method)
      /\ r.if_none_match = (IF c.kind = "conditional_get_304" THEN a.headers["etag"] ELSE NoTag)
  <2>1. SecondOf(e, c, a, r)
    BY <1>2, SecondIs
  <2> HIDE DEF r, a
  <2> QED
    BY <2>1 DEF SecondOf
<1>4. Stamped(r, z)
  BY AnswerStamped
<1>5. ASSUME r.method = e.method, Refusal(e, r) # 0
      PROVE  z.status \in {400, 401, 500}
  <2>1. z = Reply(r, Refusal(e, r), ErrorBody)
    BY <1>5, AnswerOf
  <2>2. z.status = Refusal(e, r)
    BY <2>1, ReplyIs
  <2> QED
    BY <1>5, <2>2, RefusalIs
<1>6. ASSUME r.method = e.method, r.if_none_match = NoTag, Refusal(e, r) = 0
      PROVE  Outcome(e, s, r, z, t)
  BY <1>6, OutcomeIs
<1>7. ASSUME r.method = e.method, e.method = "GET", Refusal(e, r) = 0
      PROVE  z = Fetch(s, e, r)
  <2>1. AnswerTo(s, r) = Served(s, e, r)
    BY <1>7, AnswerOf
  <2>2. ServedAs(e, s, r, Served(s, e, r).response, Served(s, e, r).store)
    BY <1>7, ServedIs
  <2> QED
    BY <1>7, <2>1, <2>2 DEF ServedAs
<1>8. /\ c.kind = "get_idempotency" => (SecondVerdict(e, c, a, z) => Is2xx(z.status) /\ a.body = z.body)
      /\ c.kind = "delete_idempotency" => (SecondVerdict(e, c, a, z) => z.status = SecondDeleteStatus(e))
      /\ c.kind = "put_idempotency" => (SecondVerdict(e, c, a, z) => Is2xx(z.status) /\ a.body = z.body)
      /\ c.kind = "head_get_parity" => (SecondVerdict(e, c, a, z) => HeadGetParityVerdict(a, z))
      /\ c.kind = "conditional_get_304" => (SecondVerdict(e, c, a, z) => ConditionalGet304Verdict(a, z))
  BY SecondVerdictIs
<1> SUFFICES ASSUME SecondVerdict(e, c, a, z) PROVE FALSE
  OBVIOUS
<1> HIDE DEF a, r, z, t
<1>9. ASSUME NEW x, Like(z, Reply(r, Status(e), Shown(e, Representation(x)))),
             r.method # "HEAD", Status(e) # 204
      PROVE  z.body.posts = x.posts
  <2>1. z.body = Representation(x)
    BY <1>9, ShownIs
  <2> QED
    BY <2>1 DEF Representation
<1>10. CASE Defect = <<"read_writes">> /\ c.kind = "get_idempotency" /\ e.expected_status # 204
  <2>1. /\ e.method = "GET" /\ r.method = "GET" /\ r.if_none_match = NoTag /\ Status(e) # 204
    BY <1>1, <1>3, <1>10 DEF RawCase, Status
  <2>2. a.body.posts \in Nat /\ a.body.posts < b.store.posts
    BY <1>2, <1>10 DEF Remembered, a
  <2>3. Is2xx(z.status) /\ a.body = z.body
    BY <1>8, <1>10
  <2>4. Outcome(e, s, r, z, t)
    BY <1>5, <1>6, <2>1, <2>3 DEF Is2xx
  <2>5. s.exists
    BY <2>1, <2>3, <2>4 DEF Outcome, Is2xx
  <2>6. z.body.posts = s.posts
    BY <1>9, <2>1, <2>4, <2>5 DEF Outcome
  <2> QED
    BY <1>2, <2>2, <2>3, <2>6 DEF StoreOK
<1>11. CASE Defect = <<"delete_fails">> /\ c.kind = "delete_idempotency" /\ Declared("PUT") = {}
  <2>1. e.method = "DELETE" /\ r.method = "DELETE" /\ r.if_none_match = NoTag
    BY <1>1, <1>3, <1>11 DEF RawCase
  <2>2. ~s.exists
    BY <1>2, <1>11 DEF Remembered
  <2>3. z.status \in {204, 404}
    BY <1>8, <1>11 DEF SecondDeleteStatus
  <2>4. Outcome(e, s, r, z, t)
    BY <1>5, <1>6, <2>1, <2>3
  <2>5. z.status = 500
    BY <1>11, <2>1, <2>2, <2>4 DEF Outcome
  <2> QED
    BY <2>3, <2>5
<1>12. CASE Defect = <<"put_adds">> /\ c.kind = "put_idempotency" /\ e.expected_status # 204
  <2>1. e.method = "PUT" /\ r.method = "PUT" /\ r.if_none_match = NoTag /\ Status(e) # 204
    BY <1>1, <1>3, <1>12 DEF RawCase, Status
  <2>2. a.body.posts = b.store.posts
    BY <1>2, <1>12 DEF Remembered, a
  <2>3. Is2xx(z.status) /\ a.body = z.body
    BY <1>8, <1>12
  <2>4. Outcome(e, s, r, z, t)
    BY <1>5, <1>6, <2>1, <2>3 DEF Is2xx
  <2>5. t = Written(s, r) /\ Like(z, Reply(r, Status(e), Shown(e, Representation(t))))
    BY <2>1, <2>4 DEF Outcome
  <2>6. z.body.posts = t.posts
    BY <1>9, <2>1, <2>5
  <2>7. t.posts = s.posts + 1
    BY <1>12, <2>5 DEF Written
  <2> QED
    BY <1>2, <2>2, <2>3, <2>6, <2>7 DEF StoreOK
<1>13. CASE Defect = <<"head_body">> /\ c.kind = "head_get_parity" /\ e.expected_status # 204
  <2>1. ~a.body.empty
    BY <1>2, <1>13 DEF Remembered, a
  <2> QED
    BY <1>8, <1>13, <2>1 DEF HeadGetParityVerdict
<1>14. CASE Defect = <<"head_varies">> /\ c.kind = "head_get_parity"
  <2>1. "vary" \in DOMAIN a.headers /\ a.headers["vary"] = "x"
    BY <1>2, <1>14 DEF Remembered, a
  <2>2. "vary" \in DOMAIN z.headers /\ z.headers["vary"] = "y"
    BY <1>3, <1>4, <1>14 DEF Stamped
  <2>3. "vary" \notin IgnoredParityHeaders
    BY DEF IgnoredParityHeaders
  <2>4. Compared(a.headers)["vary"] = "x" /\ Compared(z.headers)["vary"] = "y"
    BY <2>1, <2>2, <2>3 DEF Compared, Restrict
  <2>5. Compared(a.headers) = Compared(z.headers)
    BY <1>8, <1>14 DEF HeadGetParityVerdict
  <2> QED
    BY <2>4, <2>5
<1>15. CASE /\ Defect \in {<<"never_304">>, <<"body_304">>, <<"tag_304">>}
            /\ c.kind = "conditional_get_304"
  <2> DEFINE tag == Representation(s)
             usual == Reply(r, Status(e), Shown(e, tag))
             same == Reply(r, 304, IF Defect = <<"body_304">> THEN tag ELSE EmptyBody)
             supported == \E g \in Declared("GET") : g.etag_supported
  <2>1. e.method = "GET" /\ e.etag_supported /\ r.method = "GET"
    BY <1>1, <1>3, <1>15 DEF RawCase
  <2>2. a.headers["etag"].posts \in Nat /\ Status(e) # 304
    <3>1. Is2xx(e.expected_status) /\ a.headers["etag"].posts \in Nat
      BY <1>2, <1>15 DEF Remembered, a
    <3> QED
      BY <1>15, <3>1 DEF Is2xx, Status
  <2>3. /\ z.status = 304 /\ "etag" \in DOMAIN z.headers
        /\ z.headers["etag"] = a.headers["etag"] /\ z.body.empty
    BY <1>8, <1>15 DEF ConditionalGet304Verdict
  <2>4. z = Fetch(s, e, r)
    BY <1>5, <1>7, <2>1, <2>3
  <2>5. supported
    BY <2>1 DEF Declared
  <2>6. /\ ~s.exists => Fetch(s, e, r) = Reply(r, 404, ErrorBody)
        /\ s.exists /\ ~(supported /\ r.if_none_match = tag /\ Defect # <<"never_304">>) =>
             Like(Fetch(s, e, r), usual)
        /\ s.exists /\ supported /\ r.if_none_match = tag /\ Defect # <<"never_304">> =>
             /\ Like(Fetch(s, e, r), same)
             /\ Fetch(s, e, r).headers["etag"] = (IF Defect = <<"tag_304">> THEN ErrorBody ELSE tag)
    BY FetchIs
  <2>7. Reply(r, 404, ErrorBody).status = 404 /\ usual.status = Status(e)
    BY ReplyIs
  <2>8. Defect = <<"body_304">> => same.body = tag
    BY <2>1, ReplyIs
  <2>9. ~tag.empty /\ ErrorBody.posts = -1
    BY DEF Representation, ErrorBody
  <2> HIDE DEF tag, usual, same, supported
  <2>10. s.exists
    BY <2>3, <2>4, <2>6, <2>7
  <2>11. ~Like(z, usual)
    BY <2>2, <2>3, <2>7 DEF Like
  <2>12. /\ Defect # <<"never_304">> /\ Like(z, same)
         /\ z.headers["etag"] = (IF Defect = <<"tag_304">> THEN ErrorBody ELSE tag)
    BY <2>4, <2>5, <2>6, <2>10, <2>11
  <2>13. CASE Defect = <<"body_304">>
    BY <2>3, <2>8, <2>9, <2>12, <2>13 DEF Like
  <2>14. CASE Defect = <<"tag_304">>
    BY <2>2, <2>3, <2>9, <2>12, <2>14
  <2> QED
    BY <1>15, <2>12, <2>13, <2>14
<1> QED
  BY <1>10, <1>11, <1>12, <1>13, <1>14, <1>15 DEF DoubleTarget

\* A target that no second request follows fails.
LEMMA CaughtFirst ==
  ASSUME trial \in Trials, NEW e \in Endpoints, NEW c \in ToSet(RawCases(e)), NEW s,
         Targets(e, c), ~NeedsSecond(e, c, AnswerTo(s, FirstRequestOf(e, c)).response)
  PROVE  ~SingleVerdict(e, c, AnswerTo(s, FirstRequestOf(e, c)).response)
<1> DEFINE a == AnswerTo(s, FirstRequestOf(e, c)).response
<1>1. CASE Len(Defect) = 2 /\ BodyTarget(e, c)
  BY <1>1, CaughtBody
<1>2. CASE Len(Defect) = 3 /\ LimitTarget(e, c)
  BY <1>2, CaughtLimit
<1>3. CASE SingleTarget(e, c)
  BY <1>3, CaughtSingle
<1>4. CASE DoubleTarget(e, c)
  <2>1. ~NeedsSecond(e, c, a)
    OBVIOUS
  <2>2. c.kind \in TwoRequestKinds
    BY <1>4 DEF DoubleTarget, TwoRequestKinds
  <2> HIDE DEF a
  <2>3. ~SingleVerdict(e, c, a)
    BY <2>1, <2>2 DEF NeedsSecond, SingleVerdict
  <2> QED
    BY <2>3 DEF a
<1> QED
  BY <1>1, <1>2, <1>3, <1>4, TargetsIs

\* And so does one that a second request follows.
LEMMA CaughtLast ==
  ASSUME trial \in Trials, NEW e \in Endpoints, NEW c \in ToSet(RawCases(e)),
         NEW s, StoreOK(s), NEW b, FirstShows(Defect, Declared("PUT"), e, c, b, s),
         Targets(e, c)
  PROVE  ~SecondVerdict(e, c, b.response,
                        AnswerTo(s, SecondRequestOf(e, c, b.response)).response)
<1>1. c.kind \in TwoRequestKinds
  BY DEF FirstShows, NeedsSecond
<1>2. ~BodyTarget(e, c) /\ ~LimitTarget(e, c) /\ ~SingleTarget(e, c)
  BY <1>1 DEF TwoRequestKinds, BodyTarget, LimitTarget, SingleTarget
<1>3. DoubleTarget(e, c)
  BY <1>2, TargetsIs
<1> QED
  BY <1>3, CaughtSecond
-----------------------------------------------------------------------------
(* Every such case that was run failed.                                    *)

Sought(e) == {c \in ToSet(agenda[e.id]) : Targets(e, c)}

Caught ==
  \A e \in Endpoints : \A i \in DOMAIN agenda[e.id] :
    i < at[e.id] /\ agenda[e.id][i] \in Sought(e) => agenda[e.id][i] \in failed

LEMMA SoughtUnmoved ==
  ASSUME NEW e, UNCHANGED <<trial, agenda>>
  PROVE  Sought(e)' = Sought(e)
BY DEF Sought, Targets, Declared, Defect, Endpoints

LEMMA CaughtStep ==
  Base /\ Memory /\ Caught /\ [CasesNext]_caseVars => Caught'
<1> SUFFICES ASSUME Base, Memory, Caught, [CasesNext]_caseVars PROVE Caught'
  OBVIOUS
<1>1. trial \in Trials /\ StoreOK(store)
  BY DEF Base, Steady, Memory
<1>2. ASSUME UNCHANGED <<trial, agenda, at, failed>>
      PROVE  Caught'
  <2>1. Endpoints' = Endpoints /\ (\A e : Sought(e)' = Sought(e))
    BY <1>2, SoughtUnmoved DEF Endpoints
  <2> QED
    BY <1>2, <2>1 DEF Caught
<1>3. ASSUME NEW e \in Endpoints, ~Done(e), UNCHANGED <<trial, agenda>>,
             at' = [at EXCEPT ![e.id] = @ + 1], failed \subseteq failed',
             Targets(e, Current(e)) => Current(e) \in failed'
      PROVE  Caught'
  <2>1. Endpoints' = Endpoints /\ (\A d : Sought(d)' = Sought(d))
    BY <1>3, SoughtUnmoved DEF Endpoints
  <2>2. at \in [Ids -> Nat \ {0}] /\ e.id \in Ids
    BY DEF Base, Held, Ids
  <2>3. ASSUME NEW d \in Endpoints, NEW i \in DOMAIN agenda[d.id], i < at'[d.id],
               agenda[d.id][i] \in Sought(d)
        PROVE  agenda[d.id][i] \in failed'
    <3>1. CASE i < at[d.id]
      BY <1>3, <2>3, <3>1 DEF Caught
    <3>2. CASE ~(i < at[d.id])
      <4>1. d.id \in Ids /\ i \in Nat
        <5>1. DOMAIN agenda[d.id] = 1 .. Len(agenda[d.id]) /\ Len(agenda[d.id]) \in Nat
          BY PlanIs, SeqIsSeq DEF Base
        <5> QED
          BY <5>1 DEF Ids
      <4>2. d = e /\ i = at[e.id]
        <5>1. d.id = e.id
          BY <1>3, <2>2, <2>3, <3>2, <4>1
        <5>2. d = e
          BY <1>1, <5>1, EndpointIs
        <5>3. at'[e.id] = at[e.id] + 1
          BY <1>3, <2>2
        <5> QED
          BY <2>2, <2>3, <3>2, <4>1, <5>2, <5>3
      <4> QED
        BY <1>3, <2>3, <4>2 DEF Current, Sought
    <3> QED
      BY <3>1, <3>2
  <2> QED
    BY <1>3, <2>1, <2>3 DEF Caught
<1>4. ASSUME NEW e \in Endpoints, FirstRequest(e) PROVE Caught'
  <2> DEFINE c == Current(e)
             a == AnswerTo(store, FirstRequestOf(e, c)).response
  <2>1. UNCHANGED <<trial, agenda>> /\ ~Done(e)
    BY <1>4 DEF FirstRequest
  <2>2. c \in ToSet(RawCases(e))
    BY <2>1, CurrentIs DEF Base, Held
  <2>3. CASE NeedsSecond(e, c, a)
    <3>1. UNCHANGED <<at, failed>>
      BY <1>4, <2>3 DEF FirstRequest
    <3> QED
      BY <1>2, <2>1, <3>1
  <2>4. CASE ~NeedsSecond(e, c, a)
    <3>1. /\ at' = [at EXCEPT ![e.id] = @ + 1]
          /\ failed' = IF SingleVerdict(e, c, a) THEN failed ELSE failed \union {c}
      BY <1>4, <2>4 DEF FirstRequest, Conclude
    <3>2. Targets(e, c) => ~SingleVerdict(e, c, a)
      BY <1>1, <2>2, <2>4, CaughtFirst
    <3> HIDE DEF a
    <3> QED
      BY <1>3, <2>1, <3>1, <3>2
  <2> QED
    BY <2>3, <2>4
<1>5. ASSUME NEW e \in Endpoints, SecondRequest(e) PROVE Caught'
  <2> DEFINE c == Current(e)
             b == first[e.id]
             z == AnswerTo(store, SecondRequestOf(e, c, b.response)).response
  <2>1. UNCHANGED <<trial, agenda>> /\ b # NoResponse
    BY <1>5 DEF SecondRequest
  <2>2. ~Done(e)
    BY <2>1 DEF Base, Held
  <2>3. c \in ToSet(RawCases(e))
    BY <2>2, CurrentIs DEF Base, Held
  <2>4. FirstShows(Defect, Declared("PUT"), e, c, b, store)
    BY <2>1 DEF Memory
  <2>5. /\ at' = [at EXCEPT ![e.id] = @ + 1]
        /\ failed' = IF SecondVerdict(e, c, b.response, z) THEN failed ELSE failed \union {c}
    BY <1>5 DEF SecondRequest, Conclude
  <2>6. Targets(e, c) => ~SecondVerdict(e, c, b.response, z)
    BY <1>1, <2>3, <2>4, CaughtLast
  <2> HIDE DEF z, b
  <2> QED
    BY <1>3, <2>1, <2>2, <2>5, <2>6
<1> QED
  <2>1. CASE UNCHANGED caseVars
    BY <1>2, <2>1 DEF caseVars
  <2> QED
    BY <1>4, <1>5, <2>1 DEF CasesNext, Finished

LEMMA CaughtAll ==
  Base /\ Caught => DefectsCaught
<1> SUFFICES ASSUME Base, Caught, NEW e \in Endpoints, Done(e),
                    NEW c \in ToSet(agenda[e.id]), Targets(e, c)
             PROVE  c \in failed
  BY DEF DefectsCaught
<1>1. PICK i \in DOMAIN agenda[e.id] : c = agenda[e.id][i]
  BY DEF ToSet
<1>2. DOMAIN agenda[e.id] = 1 .. Len(agenda[e.id]) /\ Len(agenda[e.id]) \in Nat
  BY PlanIs, SeqIsSeq DEF Base
<1>3. at[e.id] \in Nat
  BY DEF Base, Held, Ids
<1>4. i < at[e.id]
  BY <1>2, <1>3 DEF Done
<1> QED
  BY <1>1, <1>4 DEF Caught, Sought

\* Whatever the other workers do, a defect makes the case fail that is there
\* to find it (mutateRequest, applyAuthForCase and the verdicts).
THEOREM DefectiveServiceFails == CasesSpec => []DefectsCaught
<1>1. CasesInit => Caught
  <2> SUFFICES ASSUME CasesInit PROVE Caught
    OBVIOUS
  <2>1. Base
    BY BaseInit
  <2>2. ASSUME NEW e \in Endpoints PROVE at[e.id] = 1 /\ DOMAIN agenda[e.id] = 1 .. Len(agenda[e.id])
    BY <2>1, PlanIs, SeqIsSeq DEF Base, CasesInit, Ids
  <2>3. ASSUME NEW e \in Endpoints, NEW i \in DOMAIN agenda[e.id] PROVE ~(i < at[e.id])
    BY <2>2
  <2> QED
    BY <2>3 DEF Caught
<1> QED
  BY <1>1, MemoryHolds, CaughtStep, CaughtAll, PTL DEF CasesSpec
=============================================================================
