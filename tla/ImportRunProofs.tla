---------------------------- MODULE ImportRunProofs ----------------------------
(***************************************************************************)
(* What holds of every import, however many items it has and however their *)
(* names fall together: each item ends in a file of its own, with an id no *)
(* other has, or a warning says it was skipped.                            *)
(***************************************************************************)
EXTENDS ImportRun, FiniteSetTheorems, WellFoundedInduction, TLAPS

N == Len(Items)

IsSeq(s) == s \in Seq({s[k] : k \in DOMAIN s})

\* The items up to n are accounted for.
Accounted(n) ==
  \A i \in 1 .. n :
    (\E k \in DOMAIN writable : writable[k].from = i) \/ <<"skipped", i>> \in warned

Phases == {"none", "start", "convert", "write", "done", "defined"}

SourceInv ==
  /\ phase \in Phases
  /\ phase # "none" => source \in Imports

Untouched ==
  /\ at = 1
  /\ usedIds = {} /\ warned = {} /\ writable = <<>>
  /\ DOMAIN files = {} /\ written = 0

\* What is to be written: ids of its own, and a name to be numbered.
WritableInv ==
  /\ IsSeq(writable)
  /\ \A k \in DOMAIN writable :
       /\ writable[k].endpoint.id \in usedIds
       /\ phase \notin {"none", "start"} =>
            NamesApart(ToPathSegment(writable[k].endpoint.name), N)
  /\ \A j, k \in DOMAIN writable : writable[j].endpoint.id = writable[k].endpoint.id => j = k

ConvertInv ==
  /\ at \in Nat \ {0} /\ at <= N + 1
  /\ IsFiniteSet(usedIds) /\ Cardinality(usedIds) < at
  /\ Len(writable) < at
  /\ Accounted(at - 1)
  /\ DOMAIN files = {} /\ written = 0

\* The files hold the first of what is to be written, each of it once.
FilesInv ==
  /\ IsFiniteSet(DOMAIN files) /\ Cardinality(DOMAIN files) = at - 1
  /\ \A p \in DOMAIN files : \E k \in 1 .. (at - 1) : files[p] = writable[k]
  /\ \A k \in 1 .. (at - 1) : \E p \in DOMAIN files : files[p] = writable[k]

WriteInv ==
  /\ at \in Nat \ {0} /\ at <= Len(writable) + 1
  /\ Len(writable) <= N
  /\ Accounted(N)
  /\ FilesInv

OwnFiles ==
  \A p, q \in DOMAIN files : files[p].endpoint.id = files[q].endpoint.id => p = q

AccountInv ==
  ~WriteFailed =>
    /\ written = Cardinality(DOMAIN files)
    /\ <<"load", 0>> \notin warned =>
         \A i \in DOMAIN Items :
           (\E p \in DOMAIN files : files[p].from = i) \/ <<"skipped", i>> \in warned

ImportInv ==
  /\ SourceInv
  /\ phase \in {"none", "start"} => Untouched
  /\ WritableInv
  /\ phase = "convert" => ConvertInv
  /\ phase = "write" => WriteInv
  /\ OwnFiles
  /\ phase \in {"done", "defined"} => AccountInv
-----------------------------------------------------------------------------
(* A deduplicated name is a new one.                                       *)

LEMMA Least ==
  ASSUME NEW T, T \subseteq Nat, T # {}
  PROVE  \E m \in T : \A n \in T : m <= n
<1>1. IsWellFoundedOn(OpToRel(<,Nat), Nat)
  BY NatLessThanWellFounded
<1>2. PICK x \in T : \A y \in T : ~(<<y, x>> \in OpToRel(<, Nat))
  BY <1>1, WFMin
<1>3. \A y \in T : ~(y < x)
  BY <1>2 DEF OpToRel
<1> QED
  BY <1>3

\* One name of a list that is longer than the set is not in the set.
LEMMA SomeNumberFree ==
  ASSUME NEW candidate, NEW used, IsFiniteSet(used),
         NamesApart(candidate, Cardinality(used) + 1)
  PROVE  \E n \in 2 .. (Cardinality(used) + 2) : NumberedName(candidate, n) \notin used
<1> DEFINE D == 2 .. (Cardinality(used) + 2)
           f == [n \in D |-> NumberedName(candidate, n)]
<1>1. Cardinality(used) \in Nat
  BY FS_CardinalityType
<1> SUFFICES ASSUME \A n \in D : NumberedName(candidate, n) \in used PROVE FALSE
  OBVIOUS
<1>2. f \in [D -> used]
  OBVIOUS
<1>3. \A i, j \in D : NumberedName(candidate, i) = NumberedName(candidate, j) => i = j
  BY <1>1 DEF NamesApart
<1>4. f \in Injection(D, used)
  BY <1>2, <1>3 DEF Injection, IsInjective
<1> HIDE DEF f
<1>5. Cardinality(D) <= Cardinality(used)
  BY <1>4, FS_Injection
<1>6. Cardinality(D) = Cardinality(used) + 1
  <2>1. 2 \in Int /\ Cardinality(used) + 2 \in Int
    BY <1>1
  <2> QED
    BY <1>1, <2>1, FS_Interval
<1> QED
  BY <1>1, <1>5, <1>6

LEMMA DedupeIsFree ==
  ASSUME NEW candidate, NEW used, IsFiniteSet(used),
         NamesApart(candidate, Cardinality(used) + 1)
  PROVE  /\ Dedupe(candidate, used) \notin used
         /\ \/ Dedupe(candidate, used) = candidate
            \/ \E n \in 2 .. (Cardinality(used) + 2) :
                 Dedupe(candidate, used) = NumberedName(candidate, n)
<1> DEFINE D == 2 .. (Cardinality(used) + 2)
           Free == {n \in D : NumberedName(candidate, n) \notin used}
           IsFirst(n) == /\ NumberedName(candidate, n) \notin used
                         /\ \A k \in 2 .. (n - 1) : NumberedName(candidate, k) \in used
           first == CHOOSE n \in D : IsFirst(n)
<1>1. Cardinality(used) \in Nat
  BY FS_CardinalityType
<1>2. Free # {} /\ Free \subseteq Nat
  BY <1>1, SomeNumberFree
<1>3. PICK n \in Free : \A k \in Free : n <= k
  BY <1>2, Least
<1>4. \A k \in 2 .. (n - 1) : k \in D /\ ~(n <= k)
  BY <1>1, <1>3
<1>5. n \in D /\ IsFirst(n)
  BY <1>3, <1>4
<1>6. first \in D /\ IsFirst(first)
  BY <1>5
<1>7. Dedupe(candidate, used)
        = IF candidate \notin used THEN candidate ELSE NumberedName(candidate, first)
  BY DEF Dedupe
<1> HIDE DEF first
<1> QED
  BY <1>6, <1>7

LEMMA FewerApart ==
  ASSUME NEW candidate, NEW m \in Nat, NEW n \in Nat, m <= n, NamesApart(candidate, n)
  PROVE  NamesApart(candidate, m)
<1>1. 2 .. (m + 1) \subseteq 2 .. (n + 1)
  OBVIOUS
<1> QED
  BY <1>1 DEF NamesApart

LEMMA PathIsFree ==
  ASSUME NEW folders, NEW name, NEW used, IsFiniteSet(used),
         NamesApart(ToPathSegment(name), Cardinality(used) + 1)
  PROVE  PathFor(folders, name, used) \notin used
<1> DEFINE dir == [i \in DOMAIN folders |-> ToPathSegment(folders[i])]
           there == {q \in used : q[1] = dir}
           stems == {p[2] : p \in there}
           stemOf == [p \in there |-> p[2]]
           stem == Dedupe(ToPathSegment(name), stems)
<1>1. IsFiniteSet(there) /\ Cardinality(there) <= Cardinality(used)
  <2>1. there \in SUBSET used
    OBVIOUS
  <2> HIDE DEF there
  <2> QED
    BY <2>1, FS_Subset
<1>2. stemOf \in Surjection(there, stems)
  BY DEF Surjection
<1> HIDE DEF stemOf
<1>3. IsFiniteSet(stems) /\ Cardinality(stems) <= Cardinality(there)
  <2> HIDE DEF stems, there
  <2> QED
    BY <1>1, <1>2, FS_Surjection
<1>4. NamesApart(ToPathSegment(name), Cardinality(stems) + 1)
  <2>1. /\ Cardinality(stems) \in Nat /\ Cardinality(there) \in Nat
        /\ Cardinality(used) \in Nat
    BY <1>1, <1>3, FS_CardinalityType
  <2>2. /\ Cardinality(stems) + 1 \in Nat /\ Cardinality(used) + 1 \in Nat
        /\ Cardinality(stems) + 1 <= Cardinality(used) + 1
    BY <1>1, <1>3, <2>1
  <2> QED
    BY <2>2, FewerApart
<1>5. stem \notin stems
  <2> HIDE DEF stems
  <2> QED
    BY <1>3, <1>4, DedupeIsFree
<1>6. PathFor(folders, name, used) = <<dir, stem>>
  BY DEF PathFor
<1> HIDE DEF stem, dir
<1>7. <<dir, stem>> \in used => stem \in stems
  OBVIOUS
<1> QED
  BY <1>5, <1>6, <1>7

-----------------------------------------------------------------------------
(* What one item becomes.                                                  *)

\* What the assembler makes of an item with the id it gets.
Taking(item, id, result) ==
  /\ id = Dedupe(IdCandidate(item), usedIds)
  /\ result = Assembled(item, source, id)

LEMMA ItemsLength ==
  ASSUME source \in Imports
  PROVE  N \in Nat /\ DOMAIN Items = 1 .. N
  BY ImportsAssumption DEF N, Items

\* The id is a new one, and so is the name of the endpoint among the others.
LEMMA TakenItem ==
  ASSUME source \in Imports, phase = "convert", ConvertInv, at <= N,
         NEW id, NEW result, Taking(Items[at], id, result)
  PROVE  /\ id \notin usedIds
         /\ \/ result.endpoint = <<>> /\ "skipped" \in result.warned
            \/ \E e : /\ result.endpoint = <<e>> /\ e.id = id
                     /\ NamesApart(ToPathSegment(e.name), N)
<1> DEFINE item == Items[at]
<1>1. N \in Nat /\ at \in DOMAIN Items
  BY ItemsLength DEF ConvertInv
<1>2. Assembles(item, source, N)
  BY <1>1, ImportsAssumption DEF Items, N
<1>3. IsFiniteSet(usedIds) /\ Cardinality(usedIds) \in Nat /\ Cardinality(usedIds) + 1 <= N
  BY <1>1, FS_CardinalityType DEF ConvertInv
<1> HIDE DEF item
<1>4. NamesApart(IdCandidate(item), Cardinality(usedIds) + 1)
  BY <1>1, <1>2, <1>3, FewerApart DEF Assembles
<1>5. /\ id \notin usedIds
      /\ id = IdCandidate(item) \/ \E n \in 2 .. (Cardinality(usedIds) + 2) :
                                   id = NumberedName(IdCandidate(item), n)
  BY <1>3, <1>4, DedupeIsFree DEF Taking, item
<1>6. id \in IdsOf(item, N)
  BY <1>1, <1>3, <1>5 DEF IdsOf
<1>7. result = Assembled(item, source, id)
  BY DEF Taking, item
<1> QED
  BY <1>2, <1>5, <1>6, <1>7 DEF Assembles

LEMMA SeqShape ==
  ASSUME NEW s, IsSeq(s)
  PROVE  Len(s) \in Nat /\ DOMAIN s = 1 .. Len(s)
  BY DEF IsSeq

LEMMA AppendOne ==
  ASSUME NEW s, IsSeq(s), NEW x
  PROVE  LET t == s \o <<x>>
         IN  /\ IsSeq(t) /\ Len(t) = Len(s) + 1
             /\ \A k \in DOMAIN s : t[k] = s[k]
             /\ t[Len(s) + 1] = x
<1> DEFINE S == {s[k] : k \in DOMAIN s} \union {x}
           t == s \o <<x>>
<1>1. s \in Seq(S)
  <2>1. s \in [1 .. Len(s) -> S] /\ Len(s) \in Nat
    BY DEF IsSeq
  <2> HIDE DEF S
  <2> QED
    BY <2>1
<1>2. x \in S
  OBVIOUS
<1> HIDE DEF S
<1>3. /\ t \in Seq(S) /\ Len(t) = Len(s) + 1 /\ Len(s) \in Nat
      /\ \A k \in 1 .. Len(s) : t[k] = s[k]
      /\ t[Len(s) + 1] = x
  BY <1>1, <1>2
<1> HIDE DEF t
<1>4. DOMAIN s = 1 .. Len(s) /\ DOMAIN t = 1 .. Len(t)
  BY <1>1, <1>3
<1>5. IsSeq(t)
  <2>1. t \in [1 .. Len(t) -> {t[k] : k \in DOMAIN t}] /\ Len(t) \in Nat
    BY <1>3, <1>4
  <2> QED
    BY <2>1 DEF IsSeq
<1> QED
  BY <1>3, <1>4, <1>5 DEF t

-----------------------------------------------------------------------------
(* The invariant.                                                          *)

THEOREM InitImport == ImportInit => ImportInv
<1> SUFFICES ASSUME NEW s \in Imports \union {NoImport}, ImportOf(s) PROVE ImportInv
  BY DEF ImportInit
<1> USE DEF ImportOf
<1>1. SourceInv
  BY DEF SourceInv, Phases
<1>2. Untouched
  BY DEF Untouched
<1>3. WritableInv
  <2>1. IsSeq(writable)
    BY DEF IsSeq
  <2> QED
    BY <2>1 DEF WritableInv
<1>4. OwnFiles
  BY DEF OwnFiles
<1> QED
  BY <1>1, <1>2, <1>3, <1>4 DEF ImportInv

\* An item is converted, with whatever further warnings.
LEMMA ConvertItem ==
  ASSUME ImportInv, phase = "convert", at <= Len(Items),
         NEW id, NEW result, Taking(Items[at], id, result),
         Take(Items[at], id, result),
         NEW more, warned' = warned \union {<<w, at>> : w \in result.warned} \union more,
         at' = at + 1,
         UNCHANGED <<source, phase, files, written>>
  PROVE  ImportInv'
<1>1. /\ SourceInv /\ WritableInv /\ ConvertInv /\ OwnFiles
      /\ source \in Imports /\ at <= N
  BY DEF ImportInv, SourceInv, N
<1>2. N' = N
  BY DEF N, Items
<1>3. N \in Nat
  BY <1>1, ItemsLength
<1>4. /\ id \notin usedIds
      /\ \/ result.endpoint = <<>> /\ "skipped" \in result.warned
         \/ \E e : /\ result.endpoint = <<e>> /\ e.id = id
                  /\ NamesApart(ToPathSegment(e.name), N)
  BY <1>1, TakenItem
<1>5. usedIds' = usedIds \union {id}
  BY DEF Take
<1>6. \/ result.endpoint = <<>> /\ writable' = writable /\ <<"skipped", at>> \in warned'
      \/ \E w : /\ writable' = writable \o <<w>>
               /\ w.from = at /\ w.endpoint.id = id
               /\ NamesApart(ToPathSegment(w.endpoint.name), N)
  <2>1. IsSeq(writable)
    BY <1>1 DEF WritableInv
  <2>2. result.endpoint = <<>> \/ \E e : result.endpoint = <<e>>
    BY <1>4
  <2>3. \/ result.endpoint = <<>> /\ writable' = writable
        \/ \E w : /\ result.endpoint = <<w.endpoint>> /\ w.from = at
                 /\ writable' = writable \o <<w>>
    <3> DEFINE folders == Items[at].folders
               Entry(e) == [from |-> at, folders |-> folders, endpoint |-> e]
               entries == [i \in DOMAIN result.endpoint |-> Entry(result.endpoint[i])]
    <3>1. writable' = writable \o entries
      BY DEF Take
    <3> HIDE DEF folders
    <3>2. CASE result.endpoint = <<>>
      <4>1. entries = <<>>
        BY <3>2
      <4>2. writable \o <<>> = writable
        BY <2>1 DEF IsSeq
      <4> QED
        BY <3>1, <3>2, <4>1, <4>2
    <3>3. CASE \E e : result.endpoint = <<e>>
      <4>1. PICK e : result.endpoint = <<e>>
        BY <3>3
      <4>2. entries = <<Entry(e)>>
        BY <4>1
      <4>3. Entry(e).endpoint = e /\ Entry(e).from = at
        OBVIOUS
      <4> QED
        BY <3>1, <4>1, <4>2, <4>3
    <3> QED
      BY <2>2, <3>2, <3>3
  <2>4. \A x, y : <<x>> = <<y>> => x = y
    <3> SUFFICES ASSUME NEW x, NEW y, <<x>> = <<y>> PROVE x = y
      OBVIOUS
    <3>1. <<x>>[1] = x /\ <<y>>[1] = y
      OBVIOUS
    <3> QED
      BY <3>1
  <2>5. \A x : <<>> # <<x>>
    <3> SUFFICES ASSUME NEW x, <<>> = <<x>> PROVE FALSE
      OBVIOUS
    <3>1. Len(<<>>) = 0 /\ Len(<<x>>) = 1
      OBVIOUS
    <3> QED
      BY <3>1
  <2>6. CASE result.endpoint = <<>>
    <3>1. "skipped" \in result.warned
      BY <1>4, <2>5, <2>6
    <3> QED
      BY <2>3, <2>5, <2>6, <3>1
  <2>7. CASE result.endpoint # <<>>
    <3>1. PICK w : /\ result.endpoint = <<w.endpoint>> /\ w.from = at
                   /\ writable' = writable \o <<w>>
      BY <2>3, <2>7
    <3>2. w.endpoint.id = id /\ NamesApart(ToPathSegment(w.endpoint.name), N)
      BY <1>4, <2>4, <2>7, <3>1
    <3> QED
      BY <3>1, <3>2
  <2> QED
    BY <2>6, <2>7
<1>7. /\ WritableInv'
      /\ Len(writable') <= Len(writable) + 1
      /\ \A k \in DOMAIN writable : k \in DOMAIN writable' /\ writable'[k] = writable[k]
      /\ (\E k \in DOMAIN writable' : writable'[k].from = at) \/ <<"skipped", at>> \in warned'
  <2>1. /\ IsSeq(writable) /\ Len(writable) \in Nat /\ DOMAIN writable = 1 .. Len(writable)
    BY <1>1, SeqShape DEF WritableInv
  <2>2. CASE writable' = writable /\ <<"skipped", at>> \in warned'
    BY <1>1, <1>2, <1>5, <2>1, <2>2 DEF WritableInv
  <2>3. ASSUME NEW w, writable' = writable \o <<w>>, w.from = at, w.endpoint.id = id,
               NamesApart(ToPathSegment(w.endpoint.name), N)
        PROVE  <1>7!:
    <3>1. /\ IsSeq(writable') /\ Len(writable') = Len(writable) + 1
          /\ \A k \in DOMAIN writable : writable'[k] = writable[k]
          /\ writable'[Len(writable) + 1] = w
      BY <2>1, <2>3, AppendOne
    <3>2. DOMAIN writable' = 1 .. (Len(writable) + 1)
      BY <3>1, SeqShape
    <3>3. \A k \in DOMAIN writable' : k \in DOMAIN writable \/ k = Len(writable) + 1
      BY <2>1, <3>2
    <3>4. WritableInv'
      <4>1. \A k \in DOMAIN writable' :
              /\ writable'[k].endpoint.id \in usedIds'
              /\ NamesApart(ToPathSegment(writable'[k].endpoint.name), N')
        BY <1>1, <1>2, <1>5, <2>3, <3>1, <3>3 DEF WritableInv
      <4>2. \A j, k \in DOMAIN writable' :
              writable'[j].endpoint.id = writable'[k].endpoint.id => j = k
        BY <1>1, <1>4, <2>3, <3>1, <3>3 DEF WritableInv
      <4> QED
        BY <3>1, <4>1, <4>2 DEF WritableInv
    <3> QED
      BY <2>1, <2>3, <3>1, <3>2, <3>4
  <2> QED
    BY <1>6, <2>2, <2>3
<1>8. ConvertInv'
  <2>1. /\ IsFiniteSet(usedIds) /\ Cardinality(usedIds) < at /\ at \in Nat \ {0}
        /\ Len(writable) < at /\ Accounted(at - 1)
        /\ DOMAIN files = {} /\ written = 0
    BY <1>1 DEF ConvertInv
  <2>2. IsFiniteSet(usedIds') /\ Cardinality(usedIds') = Cardinality(usedIds) + 1
    BY <1>4, <1>5, <2>1, FS_AddElement
  <2>3. Cardinality(usedIds) \in Nat
    BY <2>1, FS_CardinalityType
  <2>4. Len(writable) \in Nat /\ Len(writable') \in Nat
    BY <1>1, <1>7, SeqShape DEF WritableInv
  <2>5. \A i \in 1 .. at : i \in 1 .. (at - 1) \/ i = at
    BY <2>1
  <2>6. Accounted(at - 1)'
    <3>1. at' - 1 = at
      BY <2>1
    <3>2. \A i \in 1 .. at :
            (\E k \in DOMAIN writable' : writable'[k].from = i) \/ <<"skipped", i>> \in warned'
      BY <1>7, <2>1, <2>5 DEF Accounted
    <3> QED
      BY <3>1, <3>2 DEF Accounted
  <2> QED
    BY <1>1, <1>2, <1>3, <1>7, <2>1, <2>2, <2>3, <2>4, <2>6 DEF ConvertInv
<1>9. OwnFiles' /\ SourceInv'
  BY <1>1 DEF OwnFiles, SourceInv
<1> QED
  BY <1>7, <1>8, <1>9 DEF ImportInv

LEMMA LoadKeeps ==
  ASSUME ImportInv, LoadCollection \/ LoadDocument
  PROVE  ImportInv'
<1>1. /\ phase = "start" /\ SourceInv /\ Untouched /\ WritableInv /\ OwnFiles
      /\ source \in Imports
  BY DEF ImportInv, SourceInv, LoadCollection, LoadDocument
<1>2. /\ UNCHANGED <<source, at, usedIds, writable, envKeys, files, written>>
      /\ \/ phase' = "convert"
         \/ phase' = "done" /\ warned' = {<<"load", 0>>}
  BY DEF LoadCollection, LoadDocument
<1>3. N \in Nat /\ N' = N
  BY <1>1, <1>2, ItemsLength DEF N, Items
<1>4. SourceInv' /\ WritableInv' /\ OwnFiles'
  <2>1. DOMAIN writable = {}
    BY <1>1 DEF Untouched
  <2> QED
    BY <1>1, <1>2, <2>1 DEF SourceInv, Phases, WritableInv, OwnFiles
<1>5. IsFiniteSet({}) /\ Cardinality({}) = 0
  BY FS_EmptySet
<1>6. ASSUME phase' = "convert" PROVE ConvertInv'
  <2>1. Accounted(at - 1)'
    BY <1>1, <1>2 DEF Accounted, Untouched
  <2>2. Len(writable) = 0
    BY <1>1 DEF Untouched
  <2> QED
    BY <1>1, <1>2, <1>3, <1>5, <2>1, <2>2 DEF ConvertInv, Untouched
<1>7. ASSUME phase' = "done", warned' = {<<"load", 0>>} PROVE AccountInv'
  BY <1>1, <1>2, <1>5, <1>7 DEF AccountInv, Untouched
<1> QED
  BY <1>2, <1>4, <1>6, <1>7 DEF ImportInv

LEMMA SkipKeeps ==
  ASSUME ImportInv, SkipDisabled
  PROVE  ImportInv'
<1> USE DEF SkipDisabled
<1>1. /\ SourceInv /\ WritableInv /\ ConvertInv /\ OwnFiles
      /\ source \in Imports /\ at <= N
  BY DEF ImportInv, SourceInv, N
<1>2. N \in Nat /\ N' = N
  BY <1>1, ItemsLength DEF N, Items
<1>3. SourceInv' /\ WritableInv' /\ OwnFiles'
  BY <1>1, <1>2 DEF SourceInv, WritableInv, OwnFiles
<1>4. ConvertInv'
  <2>1. at \in Nat \ {0} /\ Accounted(at - 1)
    BY <1>1 DEF ConvertInv
  <2>2. \A i \in 1 .. at : i \in 1 .. (at - 1) \/ i = at
    BY <2>1
  <2>3. at' - 1 = at
    BY <2>1
  <2>4. Accounted(at - 1)'
    BY <2>1, <2>2, <2>3 DEF Accounted
  <2>5. Len(writable) \in Nat /\ Cardinality(usedIds) \in Nat
    BY <1>1, SeqShape, FS_CardinalityType DEF WritableInv, ConvertInv
  <2> QED
    BY <1>1, <1>2, <2>4, <2>5 DEF ConvertInv
<1> QED
  BY <1>3, <1>4 DEF ImportInv

LEMMA ConvertKeeps ==
  ASSUME ImportInv, ConvertRequest \/ ConvertOperation
  PROVE  ImportInv'
<1> DEFINE id == Dedupe(IdCandidate(Items[at]), usedIds)
           result == Assembled(Items[at], source, id)
<1>1. Taking(Items[at], id, result)
  BY DEF Taking
<1>2. CASE ConvertRequest
  <2>1. warned' = warned \union {<<w, at>> : w \in result.warned} \union {}
    BY <1>2 DEF ConvertRequest
  <2>2. /\ phase = "convert" /\ at <= Len(Items) /\ Take(Items[at], id, result)
        /\ at' = at + 1 /\ UNCHANGED <<source, phase, files, written>>
    BY <1>2 DEF ConvertRequest
  <2> HIDE DEF id, result
  <2> QED
    BY <1>1, <2>1, <2>2, ConvertItem
<1>3. CASE ConvertOperation
  <2>1. warned' = warned \union {<<w, at>> : w \in result.warned}
                    \union {<<"define", k>> : k \in KeysOf(Items[at])}
    BY <1>3 DEF ConvertOperation
  <2>2. /\ phase = "convert" /\ at <= Len(Items) /\ Take(Items[at], id, result)
        /\ at' = at + 1 /\ UNCHANGED <<source, phase, files, written>>
    BY <1>3 DEF ConvertOperation
  <2> HIDE DEF id, result
  <2> QED
    BY <1>1, <2>1, <2>2, ConvertItem
<1> QED
  BY <1>2, <1>3

LEMMA BeginKeeps ==
  ASSUME ImportInv, BeginWriting
  PROVE  ImportInv'
<1> USE DEF BeginWriting
<1>1. /\ SourceInv /\ WritableInv /\ ConvertInv /\ OwnFiles
      /\ source \in Imports /\ at > N
  BY DEF ImportInv, SourceInv, N
<1>2. N \in Nat /\ N' = N
  BY <1>1, ItemsLength DEF N, Items
<1>3. SourceInv' /\ WritableInv' /\ OwnFiles'
  BY <1>1, <1>2 DEF SourceInv, Phases, WritableInv, OwnFiles
<1>4. at - 1 = N /\ Len(writable) \in Nat
  BY <1>1, <1>2, SeqShape DEF ConvertInv, WritableInv
<1>5. FilesInv'
  BY <1>1, FS_EmptySet DEF FilesInv, ConvertInv
<1>6. Accounted(N)'
  BY <1>1, <1>2, <1>4 DEF Accounted, ConvertInv
<1>7. WriteInv'
  BY <1>1, <1>2, <1>4, <1>5, <1>6 DEF WriteInv, ConvertInv
<1> QED
  BY <1>3, <1>7 DEF ImportInv

LEMMA WriteKeeps ==
  ASSUME ImportInv, WriteNext
  PROVE  ImportInv'
<1> DEFINE item == writable[at]
           path == PathFor(item.folders, item.endpoint.name, DOMAIN files)
<1> USE DEF WriteNext
<1>1. /\ SourceInv /\ WritableInv /\ WriteInv /\ FilesInv /\ OwnFiles
      /\ source \in Imports /\ at <= Len(writable)
  BY DEF ImportInv, SourceInv, WriteInv
<1>2. N \in Nat /\ N' = N
  BY <1>1, ItemsLength DEF N, Items
<1>3. /\ Len(writable) \in Nat /\ at \in DOMAIN writable /\ at \in Nat \ {0}
      /\ DOMAIN writable = 1 .. Len(writable)
  BY <1>1, SeqShape DEF WritableInv, WriteInv
<1>4. path \notin DOMAIN files
  <2>1. IsFiniteSet(DOMAIN files) /\ Cardinality(DOMAIN files) + 1 = at /\ at <= N
    BY <1>1, <1>2, <1>3 DEF FilesInv, WriteInv
  <2>2. NamesApart(ToPathSegment(item.endpoint.name), N)
    BY <1>1, <1>3 DEF WritableInv
  <2>3. NamesApart(ToPathSegment(item.endpoint.name), Cardinality(DOMAIN files) + 1)
    BY <1>2, <1>3, <2>1, <2>2, FewerApart
  <2> QED
    BY <2>1, <2>3, PathIsFree
<1>5. /\ DOMAIN files' = DOMAIN files \union {path}
      /\ files'[path] = item
      /\ \A p \in DOMAIN files : files'[p] = files[p]
  <2>1. files' = [p \in DOMAIN files \union {path} |-> IF p = path THEN item ELSE files[p]]
    OBVIOUS
  <2> HIDE DEF path, item
  <2> QED
    BY <1>4, <2>1
<1> HIDE DEF path
<1>6. SourceInv' /\ WritableInv'
  BY <1>1, <1>2 DEF SourceInv, WritableInv
<1>7. \A k \in 1 .. (at' - 1) : k \in 1 .. (at - 1) \/ k = at
  BY <1>3
<1>8. OwnFiles'
  <2>1. ASSUME NEW p \in DOMAIN files PROVE files[p].endpoint.id # item.endpoint.id
    <3>1. PICK k \in 1 .. (at - 1) : files[p] = writable[k]
      BY <1>1 DEF FilesInv
    <3>2. k \in DOMAIN writable /\ k # at
      BY <1>1, <1>3
    <3> QED
      BY <1>1, <1>3, <3>1, <3>2 DEF WritableInv
  <2> QED
    BY <1>1, <1>5, <2>1 DEF OwnFiles
<1>9. FilesInv'
  <2>1. IsFiniteSet(DOMAIN files') /\ Cardinality(DOMAIN files') = at' - 1
    <3>1. IsFiniteSet(DOMAIN files) /\ Cardinality(DOMAIN files) = at - 1
      BY <1>1 DEF FilesInv
    <3>2. at' = at + 1 /\ at - 1 + 1 = at' - 1
      BY <1>3
    <3> QED
      BY <1>4, <1>5, <3>1, <3>2, FS_AddElement
  <2>2. \A p \in DOMAIN files' : \E k \in 1 .. (at' - 1) : files'[p] = writable'[k]
    <3>1. at \in 1 .. (at' - 1) /\ 1 .. (at - 1) \subseteq 1 .. (at' - 1)
      BY <1>3
    <3> QED
      BY <1>1, <1>5, <3>1 DEF FilesInv
  <2>3. \A k \in 1 .. (at' - 1) : \E p \in DOMAIN files' : files'[p] = writable'[k]
    BY <1>1, <1>5, <1>7 DEF FilesInv
  <2> QED
    BY <2>1, <2>2, <2>3 DEF FilesInv
<1>10. Accounted(N)'
  BY <1>1, <1>2 DEF Accounted, WriteInv
<1>11. WriteInv'
  BY <1>1, <1>2, <1>3, <1>9, <1>10 DEF WriteInv
<1> QED
  BY <1>6, <1>8, <1>11 DEF ImportInv

LEMMA FinishKeeps ==
  ASSUME ImportInv, WriteFails \/ FinishImport
  PROVE  ImportInv'
<1>1. phase = "write" /\ phase' = "done" /\ UNCHANGED <<source, usedIds, writable, files>>
  BY DEF WriteFails, FinishImport
<1>2. /\ SourceInv /\ WritableInv /\ WriteInv /\ FilesInv /\ OwnFiles
      /\ source \in Imports
  BY <1>1 DEF ImportInv, SourceInv, WriteInv
<1>3. N \in Nat /\ N' = N /\ Items' = Items /\ DOMAIN Items = 1 .. N
  BY <1>1, <1>2, ItemsLength DEF N, Items
<1>4. SourceInv' /\ WritableInv' /\ OwnFiles'
  BY <1>1, <1>2, <1>3 DEF SourceInv, Phases, WritableInv, OwnFiles
<1>5. AccountInv'
  <2>1. CASE WriteFails
    <3>1. <<"write", at>> \in warned' /\ <<"write", at>>[1] = "write"
      BY <2>1 DEF WriteFails
    <3> QED
      BY <3>1 DEF AccountInv, WriteFailed
  <2>2. CASE FinishImport
    <3>1. at - 1 = Len(writable) /\ DOMAIN writable = 1 .. Len(writable)
      BY <1>2, <2>2, SeqShape DEF WriteInv, WritableInv, FinishImport
    <3>2. written' = Cardinality(DOMAIN files')
      BY <1>1, <1>2, <2>2, <3>1 DEF FilesInv, FinishImport
    <3>3. warned \subseteq warned'
      BY <2>2 DEF FinishImport
    <3>4. \A i \in DOMAIN Items' :
            (\E p \in DOMAIN files' : files'[p].from = i) \/ <<"skipped", i>> \in warned'
      <4>1. SUFFICES ASSUME NEW i \in 1 .. N, <<"skipped", i>> \notin warned'
                     PROVE  \E p \in DOMAIN files : files[p].from = i
        BY <1>1, <1>3
      <4>2. PICK k \in DOMAIN writable : writable[k].from = i
        BY <1>2, <3>3, <4>1 DEF WriteInv, Accounted
      <4>3. PICK p \in DOMAIN files : files[p] = writable[k]
        BY <1>2, <3>1 DEF FilesInv
      <4> QED
        BY <4>2, <4>3
    <3> QED
      BY <3>2, <3>4 DEF AccountInv
  <2> QED
    BY <2>1, <2>2
<1> QED
  BY <1>1, <1>4, <1>5 DEF ImportInv

LEMMA DefineKeeps ==
  ASSUME ImportInv, KeysDefined
  PROVE  ImportInv'
<1> USE DEF KeysDefined
<1>1. SourceInv /\ WritableInv /\ OwnFiles /\ AccountInv
  BY DEF ImportInv
<1>2. N' = N /\ Items' = Items
  BY DEF N, Items
<1>3. SourceInv' /\ WritableInv' /\ OwnFiles'
  BY <1>1, <1>2 DEF SourceInv, Phases, WritableInv, OwnFiles
<1>4. AccountInv'
  BY <1>1, <1>2 DEF AccountInv, WriteFailed
<1> QED
  BY <1>3, <1>4 DEF ImportInv

LEMMA StutterKeeps ==
  ASSUME ImportInv, UNCHANGED importVars
  PROVE  ImportInv'
<1> USE DEF importVars
<1>1. N' = N /\ Items' = Items
  BY DEF N, Items
<1> QED
  BY <1>1 DEF ImportInv, SourceInv, Untouched, WritableInv, ConvertInv, Accounted,
              WriteInv, FilesInv, OwnFiles, AccountInv, WriteFailed

\* The invariant holds of every import.
THEOREM ImportInvHolds == ImportSpec => []ImportInv
<1>1. ImportInv /\ [ImportNext]_importVars => ImportInv'
  <2> SUFFICES ASSUME ImportInv, [ImportNext]_importVars PROVE ImportInv'
    OBVIOUS
  <2>1. CASE ImportStep
    BY <2>1, LoadKeeps, SkipKeeps, ConvertKeeps, BeginKeeps, WriteKeeps, FinishKeeps
       DEF ImportStep
  <2>2. CASE KeysDefined
    BY <2>2, DefineKeeps
  <2>3. CASE UNCHANGED importVars
    BY <2>3, StutterKeeps
  <2> QED
    BY <2>1, <2>2, <2>3 DEF ImportNext
<1> QED
  BY <1>1, InitImport, PTL DEF ImportSpec

\* Each request or operation of an import ends in a file of its own, with an id no
\* other has, or a warning says it was skipped; unless a write failed, the outcome
\* counts the files (path-naming.ts dedupe, the output writers, #run).
THEOREM ImportAccountsHolds == ImportSpec => []ImportAccountsForAll
<1>1. ImportInv => ImportAccountsForAll
  BY DEF ImportInv, OwnFiles, AccountInv, ImportAccountsForAll
<1> QED
  BY <1>1, ImportInvHolds, PTL
=============================================================================
