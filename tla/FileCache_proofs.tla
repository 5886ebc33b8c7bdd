-------------------------- MODULE FileCache_proofs --------------------------
(***************************************************************************)
(* Proofs about FileCache, for any number of readers and files, any file   *)
(* length, refill unit, water marks and shortages of the disk: what is     *)
(* read is the source, the space is accounted for, and nobody holds an     *)
(* erased entry.                                                           *)
(*                                                                         *)
(* A reader that is not idle keeps its store open, so eviction neither     *)
(* unlinks its file nor, while the reader holds rw_lock_, truncates it.    *)
(***************************************************************************)
EXTENDS FileCache, FiniteSetTheorems, TLAPS

Positions == {range \in Int \X Int : Span(range) \subseteq Pages}
Request == [file : Files \cup {NoOne}, asked : Positions, got : SUBSET Pages,
            result : {"none", "ok", "error"}]
Labels == {"idle", "try", "again", "pread", "source", "refill", "wait", "fetch",
           "store", "pwrite", "evict", "done"}
SizeMap == [Files -> 0..Length]

PoolTypes ==
    /\ index \subseteq Files /\ stuck \subseteq Files
    /\ open \subseteq Files /\ sized \subseteq Files
    /\ size \in SizeMap /\ totalUsed \in Nat /\ isFull \in BOOLEAN
    /\ lru \in Seq(Files)
    /\ cached \in [Files -> SUBSET Pages]
    /\ extended \subseteq Files /\ stored \subseteq Files
EvictTypes ==
    /\ evictor \in Readers \cup {"timer", NoOne} /\ amount \in Int
    /\ victim \in Files \cup {NoOne} /\ captured \in 0..Length
ReaderTypes ==
    /\ pc \in [Readers -> Labels]
    /\ req \in [Readers -> Request]
    /\ rest \in [Readers -> Positions]
    /\ refill \in [Readers -> Positions]

\* A list that holds each entry once.
Once(list) == \A i, j \in 1..Len(list) : list[i] = list[j] => i = j

\* The list holds entries only, each once, and all of them but those whose
\* truncate or unlink was put off.
Listed == Range(lru) \subseteq index /\ Once(lru) /\ index \ Range(lru) \subseteq stuck

\* The entries are media files, finitely many, those of open stores and of
\* the file eviction waits for among them; their sizes are pages of their
\* media files, and only entries have any.
PoolInv ==
    /\ open \subseteq index /\ index \subseteq stored
    /\ victim # NoOne => victim \in index
    /\ IsFiniteSet(stored) /\ IsFiniteSet(index) /\ Listed
    /\ \A f \in Files : size[f] <= Cardinality(cached[f])
    /\ \A f \in Files \ stored : cached[f] = {}
    /\ \A f \in Files \ index : size[f] = 0
    /\ totalUsed = SumOf(size, index)

\* A reader that runs the eviction is inside it.
EvictorInv == evictor \in Readers => pc[evictor] = "evict"

\* A reader has what it asked for but for what it still has to read, of a
\* file whose store is open.
Reading(r) ==
    /\ req[r].file \in open
    /\ req[r].result = "none"
    /\ req[r].got \cup Span(rest[r]) = Span(req[r].asked)

ReaderOK(r) ==
    /\ pc[r] = "idle" => req[r].result = "none"
    /\ pc[r] = "done" => /\ req[r].file \in open
                         /\ req[r].result = "ok" => req[r].got = Span(req[r].asked)
    /\ pc[r] \notin {"idle", "done"} => Reading(r)
    /\ pc[r] = "pread" => Span(rest[r]) \subseteq cached[req[r].file]

IInv ==
    /\ PoolTypes /\ EvictTypes /\ ReaderTypes
    /\ PoolInv /\ EvictorInv
    /\ \A r \in Readers : ReaderOK(r)

-----------------------------------------------------------------------------
(* Least and greatest elements                                             *)

\* A non-empty set of natural numbers has a least element.
LEMMA MinOfNats ==
    ASSUME NEW S, S \subseteq Nat, S # {}
    PROVE  Min(S) \in S /\ \A y \in S : Min(S) <= y
<1>1. \E x \in S : \A y \in S : ~(<<y, x>> \in OpToRel(<, Nat))
  BY NatLessThanWellFounded, WFMin
<1>2. PICK x \in S : \A y \in S : ~(<<y, x>> \in OpToRel(<, Nat))
  BY <1>1
<1>3. ASSUME NEW y \in S PROVE x <= y
  <2>1. x \in Nat /\ y \in Nat
    OBVIOUS
  <2>2. ~(y < x)
    BY <1>2, <2>1 DEF OpToRel
  <2> QED
    BY <2>1, <2>2
<1>4. \E z \in S : \A y \in S : z <= y
  BY <1>3
<1> QED
  BY <1>4 DEF Min

\* A non-empty set of pages has a last one.
LEMMA MaxOfPages ==
    ASSUME NEW S, S \subseteq Pages, S # {}
    PROVE  Max(S) \in S /\ \A y \in S : y <= Max(S)
<1>1. Length \in Nat /\ Length # 0 /\ \A x \in S : x \in Nat /\ x < Length
  BY CacheAssumption DEF Pages
<1> DEFINE T == {Length - x : x \in S}
<1>2. T \subseteq Nat /\ T # {}
  BY <1>1
<1>3. Min(T) \in T /\ \A y \in T : Min(T) <= y
  <2> HIDE DEF T
  <2> QED
    BY <1>2, MinOfNats
<1>4. PICK x \in S : Min(T) = Length - x
  BY <1>3
<1>5. ASSUME NEW y \in S PROVE x >= y
  <2>1. Length - y \in T
    OBVIOUS
  <2>2. Length - x <= Length - y
    BY <1>3, <1>4, <2>1
  <2> QED
    BY <1>1, <2>2
<1>6. \E z \in S : \A y \in S : z >= y
  BY <1>5
<1>7. Max(S) \in S /\ \A y \in S : Max(S) >= y
  BY <1>6 DEF Max
<1> QED
  BY <1>1, <1>7

\* The smaller and the larger of two numbers.
LEMMA OfTwo ==
    ASSUME NEW a \in Int, NEW b \in Int
    PROVE  /\ Min({a, b}) = IF a <= b THEN a ELSE b
           /\ Max({a, b}) = IF a >= b THEN a ELSE b
<1>1. \E x \in {a, b} : \A y \in {a, b} : x <= y
  OBVIOUS
<1>2. \E x \in {a, b} : \A y \in {a, b} : x >= y
  OBVIOUS
<1>3. Min({a, b}) \in {a, b} /\ \A y \in {a, b} : Min({a, b}) <= y
  BY <1>1 DEF Min
<1>4. Max({a, b}) \in {a, b} /\ \A y \in {a, b} : Max({a, b}) >= y
  BY <1>2 DEF Max
<1>5. Min({a, b}) = IF a <= b THEN a ELSE b
  BY <1>3
<1>6. Max({a, b}) = IF a >= b THEN a ELSE b
  BY <1>4
<1> QED
  BY <1>5, <1>6

-----------------------------------------------------------------------------
(* The LRU list                                                            *)

\* The elements of a list.
LEMMA RangeFact ==
    ASSUME NEW s \in Seq(Files)
    PROVE  /\ \A i \in 1..Len(s) : s[i] \in Range(s)
           /\ \A g \in Range(s) : \E i \in 1..Len(s) : s[i] = g
           /\ Range(s) \subseteq Files
<1>1. DOMAIN s = 1..Len(s) /\ \A i \in 1..Len(s) : s[i] \in Files
  OBVIOUS
<1> QED
  BY <1>1 DEF Range

\* Removing the entry at one place of a list that holds each entry once.
LEMMA RemoveAtFact ==
    ASSUME NEW s \in Seq(Files), Once(s), NEW n \in 1..Len(s)
    PROVE  /\ RemoveAt(s, n) \in Seq(Files)
           /\ Once(RemoveAt(s, n))
           /\ Range(RemoveAt(s, n)) = Range(s) \ {s[n]}
<1> DEFINE t == RemoveAt(s, n)
           back(i) == IF i < n THEN i ELSE i + 1
<1>1. /\ t \in Seq(Files) /\ Len(t) = Len(s) - 1
      /\ \A i \in 1..(Len(s) - 1) : t[i] = s[back(i)]
  <2>1. SubSeq(s, 1, n - 1) \in Seq(Files) /\ Len(SubSeq(s, 1, n - 1)) = n - 1
        /\ \A i \in 1..(n - 1) : SubSeq(s, 1, n - 1)[i] = s[i]
    OBVIOUS
  <2>2. SubSeq(s, n + 1, Len(s)) \in Seq(Files)
        /\ Len(SubSeq(s, n + 1, Len(s))) = Len(s) - n
        /\ \A i \in 1..(Len(s) - n) : SubSeq(s, n + 1, Len(s))[i] = s[n + i]
    OBVIOUS
  <2>3. t = SubSeq(s, 1, n - 1) \o SubSeq(s, n + 1, Len(s))
    BY DEF RemoveAt
  <2>4. PICK u \in Seq(Files), v \in Seq(Files) :
          /\ u = SubSeq(s, 1, n - 1) /\ v = SubSeq(s, n + 1, Len(s))
    BY <2>1, <2>2
  <2>5. /\ t = u \o v /\ Len(u) = n - 1 /\ Len(v) = Len(s) - n
        /\ \A i \in 1..(n - 1) : u[i] = s[i]
        /\ \A i \in 1..(Len(s) - n) : v[i] = s[n + i]
    BY <2>1, <2>2, <2>3, <2>4
  <2>6. t \in Seq(Files) /\ Len(t) = Len(s) - 1
    <3> HIDE DEF t
    <3> QED
      BY <2>5
  <2>7. ASSUME NEW i \in 1..(Len(s) - 1) PROVE t[i] = s[back(i)]
    <3> HIDE DEF t
    <3>1. CASE i < n
      BY <2>5, <3>1
    <3>2. CASE i >= n
      <4>1. i - (n - 1) \in 1..(Len(s) - n) /\ n + (i - (n - 1)) = i + 1
        BY <3>2
      <4>2. t[i] = v[i - (n - 1)]
        <5>1. i \in 1..(Len(u) + Len(v)) /\ i > Len(u)
          BY <2>5, <3>2
        <5>2. (u \o v)[i] = v[i - Len(u)]
          BY <5>1
        <5> QED
          BY <2>5, <5>2
      <4> QED
        BY <2>5, <3>2, <4>1, <4>2
    <3> QED
      BY <3>1, <3>2
  <2> QED
    BY <2>6, <2>7
<1>2. \A i \in 1..(Len(s) - 1) : back(i) \in 1..Len(s) /\ back(i) # n
  OBVIOUS
<1>3. \A i, j \in 1..(Len(s) - 1) : back(i) = back(j) => i = j
  OBVIOUS
<1> HIDE DEF t, back
<1>4. Once(t)
  BY <1>1, <1>2, <1>3 DEF Once
<1>5. \A g \in Range(t) : g \in Range(s) /\ g # s[n]
  <2> SUFFICES ASSUME NEW g \in Range(t) PROVE g \in Range(s) /\ g # s[n]
    OBVIOUS
  <2>1. PICK i \in 1..(Len(s) - 1) : t[i] = g
    BY <1>1, RangeFact
  <2>2. g = s[back(i)] /\ back(i) \in 1..Len(s) /\ back(i) # n
    BY <1>1, <1>2, <2>1
  <2> QED
    BY <2>2, RangeFact DEF Once
<1>6. \A g \in Range(s) : g # s[n] => g \in Range(t)
  <2> SUFFICES ASSUME NEW g \in Range(s), g # s[n] PROVE g \in Range(t)
    OBVIOUS
  <2>1. PICK i \in 1..Len(s) : s[i] = g
    BY RangeFact
  <2>2. i # n
    BY <2>1
  <2>3. PICK k \in 1..(Len(s) - 1) : back(k) = i
    <3>1. CASE i < n
      BY <3>1 DEF back
    <3>2. CASE i > n
      <4>1. i - 1 \in 1..(Len(s) - 1) /\ back(i - 1) = i
        BY <3>2 DEF back
      <4> QED
        BY <4>1
    <3> QED
      BY <2>2, <3>1, <3>2
  <2>4. t[k] = g
    BY <1>1, <2>1, <2>3
  <2> QED
    BY <1>1, <2>4, RangeFact
<1>7. Range(t) = Range(s) \ {s[n]}
  BY <1>5, <1>6
<1> QED
  BY <1>1, <1>4, <1>7 DEF t

\* Removing an entry.
LEMMA DropFact ==
    ASSUME NEW s \in Seq(Files), Once(s), NEW f
    PROVE  /\ Drop(s, f) \in Seq(Files)
           /\ Once(Drop(s, f))
           /\ Range(Drop(s, f)) = Range(s) \ {f}
<1>1. CASE f \in Range(s)
  <2>1. PICK n \in 1..Len(s) : s[n] = f
    BY <1>1, RangeFact
  <2>2. {i \in 1..Len(s) : s[i] = f} = {n}
    BY <2>1 DEF Once
  <2>3. Min({n}) = n
    BY DEF Min
  <2>4. Drop(s, f) = RemoveAt(s, n)
    BY <2>1, <2>2, <2>3 DEF Drop, RemoveFirst, SelectInSeq
  <2> QED
    BY <2>1, <2>4, RemoveAtFact
<1>2. CASE f \notin Range(s)
  <2>1. \A i \in 1..Len(s) : s[i] # f
    BY <1>2, RangeFact
  <2>2. Drop(s, f) = s
    BY <2>1 DEF Drop, RemoveFirst
  <2> QED
    BY <1>2, <2>2
<1> QED
  BY <1>1, <1>2

\* Putting an entry first.
LEMMA PushFact ==
    ASSUME NEW s \in Seq(Files), Once(s), NEW f \in Files
    PROVE  /\ PushFront(s, f) \in Seq(Files)
           /\ Once(PushFront(s, f))
           /\ Range(PushFront(s, f)) = Range(s) \cup {f}
<1> DEFINE t == Drop(s, f)
           a == <<f>> \o t
<1>1. t \in Seq(Files) /\ Once(t) /\ Range(t) = Range(s) \ {f}
  BY DropFact
<1>2. PushFront(s, f) = a
  BY DEF PushFront, Drop
<1> HIDE DEF t
<1>3. /\ a \in Seq(Files) /\ Len(a) = Len(t) + 1 /\ Len(t) \in Nat
      /\ a[1] = f /\ \A i \in 1..Len(t) : a[i + 1] = t[i]
  BY <1>1
<1>4. \A i \in 1..Len(t) : t[i] # f
  BY <1>1, RangeFact
<1> HIDE DEF a
<1>5. ASSUME NEW i \in 1..Len(a), NEW j \in 1..Len(a), a[i] = a[j] PROVE i = j
  <2>1. \A k \in 1..Len(a) : k = 1 \/ (k - 1 \in 1..Len(t) /\ a[k] = t[k - 1])
    <3> SUFFICES ASSUME NEW k \in 1..Len(a), k # 1
                 PROVE  k - 1 \in 1..Len(t) /\ a[k] = t[k - 1]
      OBVIOUS
    <3>1. k - 1 \in 1..Len(t) /\ (k - 1) + 1 = k
      BY <1>3
    <3> QED
      BY <1>3, <3>1
  <2>2. CASE i = 1 /\ j = 1
    BY <2>2
  <2>3. CASE i = 1 /\ j # 1
    BY <1>3, <1>4, <1>5, <2>1, <2>3
  <2>4. CASE i # 1 /\ j = 1
    BY <1>3, <1>4, <1>5, <2>1, <2>4
  <2>5. CASE i # 1 /\ j # 1
    <3>1. t[i - 1] = t[j - 1] /\ i - 1 \in 1..Len(t) /\ j - 1 \in 1..Len(t)
      BY <1>5, <2>1, <2>5
    <3>2. i - 1 = j - 1
      BY <1>1, <3>1 DEF Once
    <3> QED
      BY <1>3, <3>2
  <2> QED
    BY <2>2, <2>3, <2>4, <2>5
<1>6. Range(a) = Range(t) \cup {f}
  <2>1. \A g \in Range(a) : g \in Range(t) \cup {f}
    <3> SUFFICES ASSUME NEW g \in Range(a), g # f PROVE g \in Range(t)
      OBVIOUS
    <3>1. PICK i \in 1..Len(a) : a[i] = g
      BY <1>3, RangeFact
    <3>2. i # 1 /\ i - 1 \in 1..Len(t) /\ (i - 1) + 1 = i
      BY <1>3, <3>1
    <3>3. t[i - 1] = g
      BY <1>3, <3>1, <3>2
    <3> QED
      BY <1>1, <3>2, <3>3, RangeFact
  <2>2. \A g \in Range(t) : g \in Range(a)
    <3> SUFFICES ASSUME NEW g \in Range(t) PROVE g \in Range(a)
      OBVIOUS
    <3>1. PICK i \in 1..Len(t) : t[i] = g
      BY <1>1, RangeFact
    <3>2. i + 1 \in 1..Len(a) /\ a[i + 1] = g
      BY <1>3, <3>1
    <3> QED
      BY <1>3, <3>2, RangeFact
  <2>3. f \in Range(a)
    <3>1. 1 \in 1..Len(a) /\ a[1] = f
      BY <1>3
    <3> QED
      BY <1>3, <3>1, RangeFact
  <2> QED
    BY <2>1, <2>2, <2>3
<1>7. Once(a)
  BY <1>5 DEF Once
<1>8. f \in Range(a) /\ Range(a) = Range(s) \cup {f}
  BY <1>1, <1>6
<1> QED
  BY <1>2, <1>3, <1>7, <1>8

\* Using an entry loses no other, and keeps the list one of entries.
LEMMA AccessFact ==
    ASSUME lru \in Seq(Files), Listed, NEW f \in Files, f \in index
    PROVE  /\ Access(lru, f) \in Seq(Files)
           /\ Once(Access(lru, f))
           /\ Range(lru) \subseteq Range(Access(lru, f))
           /\ Range(Access(lru, f)) \subseteq index
<1>1. /\ PushFront(lru, f) \in Seq(Files) /\ Once(PushFront(lru, f))
      /\ Range(PushFront(lru, f)) = Range(lru) \cup {f}
  BY PushFact DEF Listed
<1> QED
  BY <1>1 DEF Access, Listed

\* A list that holds each entry once has as many places as entries.
LEMMA ListLength ==
    ASSUME NEW s \in Seq(Files), Once(s)
    PROVE  IsFiniteSet(Range(s)) /\ Len(s) = Cardinality(Range(s))
<1>1. Len(s) \in Nat /\ s \in [1..Len(s) -> Range(s)]
  BY RangeFact
<1>2. s \in Bijection(1..Len(s), Range(s))
  BY <1>1, RangeFact DEF Once, Bijection, Injection, Surjection, IsInjective
<1>3. IsFiniteSet(1..Len(s)) /\ Cardinality(1..Len(s)) = Len(s)
  BY <1>1, FS_Interval
<1>4. ExistsBijection(1..Len(s), Range(s))
  BY <1>2 DEF ExistsBijection
<1> QED
  BY <1>3, <1>4, FS_Bijection

\* The order of the walk through the media files is a list of all of them.
LEMMA WalkFact ==
    ASSUME NEW S, S \subseteq Files, IsFiniteSet(S), NEW s \in SetToSeqs(S)
    PROVE  s \in Seq(Files) /\ Once(s) /\ Range(s) = S
<1>1. PICK n \in Nat : n = Cardinality(S)
  BY FS_CardinalityType
<1>2. s \in [1..n -> S] /\ \A i, j \in 1..n : i # j => s[i] # s[j]
  BY <1>1 DEF SetToSeqs
<1>3. s \in Seq(Files) /\ Len(s) = n /\ DOMAIN s = 1..n
  BY <1>1, <1>2
<1>4. Once(s)
  BY <1>2, <1>3 DEF Once
<1>5. s \in Injection(1..n, S)
  BY <1>2 DEF Injection, IsInjective
<1>6. IsFiniteSet(1..n) /\ Cardinality(1..n) = n
  BY <1>1, FS_Interval
<1>7. s \in Surjection(1..n, S)
  BY <1>1, <1>5, <1>6, FS_Injection
<1>8. Range(s) = S
  BY <1>2, <1>3, <1>7 DEF Surjection, Range
<1> QED
  BY <1>3, <1>4, <1>8

-----------------------------------------------------------------------------
(* Sizes                                                                   *)

\* A set of pages of one file.
LEMMA PagesFact ==
    ASSUME NEW S, S \subseteq Pages
    PROVE  IsFiniteSet(S) /\ Cardinality(S) \in 0..Length
<1>1. IsFiniteSet(Pages) /\ Cardinality(Pages) = Length
  BY CacheAssumption, FS_Interval DEF Pages
<1> QED
  BY <1>1, FS_Subset, FS_CardinalityType

Counted(sizes, files) == {p \in files \X (1..Length) : p[2] <= sizes[p[1]]}

\* The pages counted are finitely many.
LEMMA CountedFinite ==
    ASSUME NEW files, IsFiniteSet(files), NEW sizes
    PROVE  /\ IsFiniteSet(Counted(sizes, files))
           /\ SumOf(sizes, files) = Cardinality(Counted(sizes, files))
           /\ SumOf(sizes, files) \in Nat
<1>0. IsFiniteSet(1..Length)
  BY CacheAssumption, FS_Interval
<1>1. IsFiniteSet(files \X (1..Length))
  BY <1>0, FS_Product
<1>2. IsFiniteSet(Counted(sizes, files))
  BY <1>1, FS_Subset DEF Counted
<1> QED
  BY <1>2, FS_CardinalityType DEF Counted, SumOf

\* The pages of one entry are as many as its size.
LEMMA CountedOne ==
    ASSUME NEW f \in Files, NEW n \in 0..Length
    PROVE  IsFiniteSet({f} \X (1..n)) /\ Cardinality({f} \X (1..n)) = n
<1>1. IsFiniteSet({f}) /\ Cardinality({f}) = 1
  BY FS_Singleton
<1>2. IsFiniteSet(1..n) /\ Cardinality(1..n) = n
  BY CacheAssumption, FS_Interval
<1>3. /\ IsFiniteSet({f} \X (1..n))
      /\ Cardinality({f} \X (1..n)) = Cardinality({f}) * Cardinality(1..n)
  BY <1>1, <1>2, FS_Product
<1>4. Cardinality({f}) * Cardinality(1..n) = n
  BY <1>1, <1>2, CacheAssumption
<1> QED
  BY <1>3, <1>4

\* One entry's share of the sum.
LEMMA SumSplit ==
    ASSUME NEW files, files \subseteq Files, IsFiniteSet(files), NEW f \in files,
           NEW sizes \in SizeMap
    PROVE  SumOf(sizes, files) = SumOf(sizes, files \ {f}) + sizes[f]
<1>1. sizes[f] \in 0..Length
  BY DEF SizeMap
<1> DEFINE A == Counted(sizes, files \ {f})
           B == {f} \X (1..sizes[f])
<1>2. IsFiniteSet(files \ {f})
  BY FS_Difference
<1>3. IsFiniteSet(A) /\ SumOf(sizes, files \ {f}) = Cardinality(A) /\ Cardinality(A) \in Nat
  BY <1>2, CountedFinite
<1>4. IsFiniteSet(B) /\ Cardinality(B) = sizes[f]
  BY <1>1, CountedOne
<1>5. A \cap B = {}
  BY DEF Counted
<1>6. Counted(sizes, files) = A \cup B
  <2>1. ASSUME NEW p \in Counted(sizes, files) PROVE p \in A \cup B
    <3>1. p \in files \X (1..Length) /\ p[2] <= sizes[p[1]]
      BY DEF Counted
    <3>2. CASE p[1] = f
      BY <1>1, <3>1, <3>2, CacheAssumption
    <3>3. CASE p[1] # f
      BY <3>1, <3>3 DEF Counted
    <3> QED
      BY <3>2, <3>3
  <2>2. ASSUME NEW p \in A PROVE p \in Counted(sizes, files)
    BY DEF Counted
  <2>3. ASSUME NEW p \in B PROVE p \in Counted(sizes, files)
    BY <1>1, CacheAssumption DEF Counted
  <2> QED
    BY <2>1, <2>2, <2>3
<1>7. SumOf(sizes, files) = Cardinality(A \cup B)
  BY <1>6, CountedFinite
<1> HIDE DEF A, B
<1>8. Cardinality(A \cup B) = Cardinality(A) + Cardinality(B) - Cardinality(A \cap B)
  BY <1>3, <1>4, FS_Union
<1>9. Cardinality(A \cap B) = 0
  BY <1>5, FS_EmptySet
<1> QED
  BY <1>1, <1>3, <1>4, <1>7, <1>8, <1>9

\* The sum only depends on the sizes of the entries.
LEMMA SumSame ==
    ASSUME NEW files, NEW s1, NEW s2, \A g \in files : s1[g] = s2[g]
    PROVE  SumOf(s1, files) = SumOf(s2, files)
<1>1. {p \in files \X (1..Length) : p[2] <= s1[p[1]]}
      = {p \in files \X (1..Length) : p[2] <= s2[p[1]]}
  OBVIOUS
<1> QED
  BY <1>1 DEF SumOf

\* An entry gets another size.
LEMMA SumUpdate ==
    ASSUME NEW files, files \subseteq Files, IsFiniteSet(files), NEW f \in files,
           NEW sizes \in SizeMap, NEW new \in SizeMap,
           \A g \in files \ {f} : new[g] = sizes[g]
    PROVE  /\ SumOf(new, files) = SumOf(sizes, files) - sizes[f] + new[f]
           /\ sizes[f] <= SumOf(sizes, files)
           /\ SumOf(sizes, files) \in Nat
<1>1. IsFiniteSet(files \ {f})
  BY FS_Difference
<1>2. SumOf(sizes, files \ {f}) \in Nat /\ SumOf(sizes, files) \in Nat
  BY <1>1, CountedFinite
<1>3. sizes[f] \in Nat /\ new[f] \in Nat
  BY CacheAssumption DEF SizeMap
<1>4. SumOf(new, files \ {f}) = SumOf(sizes, files \ {f})
  BY SumSame
<1>5. SumOf(new, files) = SumOf(new, files \ {f}) + new[f]
  BY SumSplit
<1>6. SumOf(sizes, files) = SumOf(sizes, files \ {f}) + sizes[f]
  BY SumSplit
<1> QED
  BY <1>2, <1>3, <1>4, <1>5, <1>6

\* An empty entry does not count.
LEMMA SumEmpty ==
    ASSUME NEW files, files \subseteq Files, IsFiniteSet(files), NEW f \in Files,
           NEW sizes \in SizeMap, sizes[f] = 0
    PROVE  /\ SumOf(sizes, files \cup {f}) = SumOf(sizes, files)
           /\ SumOf(sizes, files \ {f}) = SumOf(sizes, files)
<1>1. ASSUME NEW S, S \subseteq Files, IsFiniteSet(S), f \in S
      PROVE  SumOf(sizes, S) = SumOf(sizes, S \ {f})
  <2>1. SumOf(sizes, S) = SumOf(sizes, S \ {f}) + sizes[f]
    BY <1>1, SumSplit
  <2>2. SumOf(sizes, S \ {f}) \in Nat
    <3>1. IsFiniteSet(S \ {f})
      BY <1>1, FS_Difference
    <3> QED
      BY <3>1, CountedFinite
  <2> QED
    BY <2>1, <2>2
<1>2. IsFiniteSet(files \cup {f})
  BY FS_AddElement
<1>3. CASE f \in files
  <2>1. files \cup {f} = files
    BY <1>3
  <2> QED
    BY <1>1, <1>3, <2>1
<1>4. CASE f \notin files
  <2>1. files \ {f} = files /\ (files \cup {f}) \ {f} = files
    BY <1>4
  <2>2. files \cup {f} \subseteq Files /\ f \in files \cup {f}
    OBVIOUS
  <2> QED
    BY <1>1, <1>2, <2>1, <2>2
<1> QED
  BY <1>3, <1>4

-----------------------------------------------------------------------------
(* Steps of readers                                                        *)

\* The other readers keep their requests; those that wait may be woken.
Others(r) ==
    \A q \in Readers \ {r} :
        /\ req'[q] = req[q] /\ rest'[q] = rest[q]
        /\ pc'[q] = pc[q] \/ (pc[q] = "wait" /\ pc'[q] = "try")

\* The step of one reader leaves the others as they should be.
LEMMA OthersOK ==
    ASSUME IInv, NEW r \in Readers, Others(r), ReaderOK(r)', open' = open,
           \A f \in Files : cached[f] \subseteq cached'[f]
    PROVE  \A q \in Readers : ReaderOK(q)'
<1> SUFFICES ASSUME NEW q \in Readers, q # r PROVE ReaderOK(q)'
  OBVIOUS
<1>1. ReaderOK(q) /\ req'[q] = req[q] /\ rest'[q] = rest[q]
  BY DEF IInv, Others
<1>2. pc[q] \notin {"idle", "done"} => Reading(q) /\ Reading(q)' /\ req[q].file \in Files
  BY <1>1 DEF ReaderOK, Reading, IInv, PoolTypes
<1>3. CASE pc'[q] = pc[q]
  BY <1>1, <1>2, <1>3 DEF ReaderOK
<1>4. CASE pc[q] = "wait" /\ pc'[q] = "try"
  BY <1>1, <1>2, <1>4 DEF ReaderOK
<1> QED
  BY <1>3, <1>4 DEF Others

\* A step of a reader that changes nothing of the pool but the order of its
\* list and the lengths of media files.
LEMMA ReaderActs ==
    ASSUME IInv, NEW r \in Readers,
           UNCHANGED <<index, stuck, open, size, totalUsed, isFull, cached, stored, evict>>,
           sized' \subseteq Files, extended' \subseteq Files,
           \/ lru' = lru
           \/ req[r].file \in open /\ lru' = Access(lru, req[r].file),
           ReaderTypes', Others(r), pc[r] # "evict", ReaderOK(r)'
    PROVE  IInv'
<1>1. lru' \in Seq(Files) /\ Listed'
  <2>1. CASE lru' = lru
    BY <2>1 DEF IInv, PoolTypes, PoolInv, Listed
  <2>2. CASE req[r].file \in open /\ lru' = Access(lru, req[r].file)
    <3>1. lru \in Seq(Files) /\ Listed /\ req[r].file \in Files /\ req[r].file \in index
      BY <2>2 DEF IInv, PoolTypes, PoolInv
    <3>2. /\ lru' \in Seq(Files) /\ Once(lru')
          /\ Range(lru) \subseteq Range(lru') /\ Range(lru') \subseteq index
      <4>1. PICK g \in Files : g = req[r].file
        BY <3>1
      <4> QED
        BY <2>2, <3>1, <4>1, AccessFact
    <3> QED
      BY <3>1, <3>2 DEF Listed
  <2> QED
    BY <2>1, <2>2
<1>2. PoolTypes' /\ EvictTypes'
  BY <1>1 DEF IInv, PoolTypes, EvictTypes, evict
<1>3. PoolInv'
  BY <1>1 DEF IInv, PoolInv, evict
<1>4. EvictorInv'
  <2> SUFFICES ASSUME evictor \in Readers PROVE pc'[evictor] = "evict"
    BY DEF EvictorInv, evict
  <2>1. pc[evictor] = "evict" /\ evictor # r
    BY DEF IInv, EvictorInv
  <2> QED
    BY <2>1 DEF Others
<1>5. \A q \in Readers : ReaderOK(q)'
  BY OthersOK
<1> QED
  BY <1>2, <1>3, <1>4, <1>5 DEF IInv

\* Where a reader goes.
LEMMA GoFact ==
    ASSUME ReaderTypes, NEW r \in Readers, NEW label \in Labels, Go(r, label)
    PROVE  /\ pc' \in [Readers -> Labels] /\ pc'[r] = label
           /\ \A q \in Readers \ {r} : pc'[q] = pc[q]
  BY DEF ReaderTypes, Go

\* Where a reader that leaves the range lock goes, and those it wakes.
LEMMA UnlockFact ==
    ASSUME ReaderTypes, NEW r \in Readers, NEW label \in Labels, Unlock(r, label)
    PROVE  /\ pc' \in [Readers -> Labels] /\ pc'[r] = label
           /\ \A q \in Readers \ {r} : \/ pc'[q] = pc[q]
                                       \/ pc[q] = "wait" /\ pc'[q] = "try"
<1>1. "try" \in Labels /\ \A q \in Readers : pc[q] \in Labels
  BY DEF ReaderTypes, Labels
<1> QED
  BY <1>1 DEF Unlock

\* What is known of a reader in the middle of a read.
LEMMA ReadingFact ==
    ASSUME IInv, NEW r \in Readers, pc[r] \notin {"idle", "done"}
    PROVE  /\ Reading(r) /\ req[r].file \in Files /\ req[r].file \in index
           /\ req[r] \in Request /\ rest[r] \in Positions /\ refill[r] \in Positions
  BY DEF IInv, ReaderOK, Reading, PoolTypes, PoolInv, ReaderTypes

\* The end of a refill.
LEMMA AfterRefillFact ==
    ASSUME ReaderTypes, NEW r \in Readers, Reading(r), AfterRefill(r), open' = open,
           UNCHANGED <<rest, refill>>
    PROVE  ReaderTypes' /\ Others(r) /\ ReaderOK(r)'
<1>1. CASE rest[r] = NoRange
  <2>1. Unlock(r, "done") /\ req' = [req EXCEPT ![r].result = "ok"]
    BY <1>1 DEF AfterRefill
  <2>2. /\ pc' \in [Readers -> Labels] /\ pc'[r] = "done"
        /\ \A q \in Readers \ {r} : \/ pc'[q] = pc[q]
                                    \/ pc[q] = "wait" /\ pc'[q] = "try"
    BY <2>1, UnlockFact DEF Labels
  <2>3. /\ req' \in [Readers -> Request] /\ req'[r].file = req[r].file
        /\ req'[r].asked = req[r].asked /\ req'[r].got = req[r].got
        /\ \A q \in Readers \ {r} : req'[q] = req[q]
    BY <2>1 DEF ReaderTypes, Request
  <2>4. Span(rest[r]) = {}
    BY <1>1 DEF NoRange, Span
  <2>5. ReaderOK(r)'
    BY <2>2, <2>3, <2>4 DEF ReaderOK, Reading
  <2> QED
    BY <2>2, <2>3, <2>5 DEF ReaderTypes, Others
<1>2. CASE rest[r] # NoRange
  <2>1. Unlock(r, "again") /\ req' = req
    BY <1>2 DEF AfterRefill
  <2>2. /\ pc' \in [Readers -> Labels] /\ pc'[r] = "again"
        /\ \A q \in Readers \ {r} : \/ pc'[q] = pc[q]
                                    \/ pc[q] = "wait" /\ pc'[q] = "try"
    BY <2>1, UnlockFact DEF Labels
  <2>3. ReaderOK(r)'
    BY <2>1, <2>2 DEF ReaderOK, Reading
  <2> QED
    BY <2>1, <2>2, <2>3 DEF ReaderTypes, Others
<1> QED
  BY <1>1, <1>2

\* A reader begins.
LEMMA BeginStep ==
    ASSUME IInv, NEW r \in Readers, NEW q \in Requests, Begin(r, q[1], <<q[2], q[3]>>)
    PROVE  IInv'
<1> DEFINE range == <<q[2], q[3]>>
<1>1. q[1] \in Files /\ range \in Positions
  <2>1. q \in Files \X (0..Length - 1) \X (0..Length - 1)
    BY CacheAssumption
  <2>2. q[1] \in Files /\ q[2] \in 0..Length - 1 /\ q[3] \in 0..Length - 1
    BY <2>1
  <2> QED
    BY <2>2, CacheAssumption DEF Positions, Span, Pages
<1> HIDE DEF range
<1>2. /\ pc[r] = "idle" /\ q[1] \in open /\ Go(r, "try")
      /\ req' = [req EXCEPT ![r] = [file |-> q[1], asked |-> range, got |-> {},
                                    result |-> "none"]]
      /\ rest' = [rest EXCEPT ![r] = range]
      /\ UNCHANGED <<pool, media, evict, refill>>
  BY DEF Begin, range
<1>3. pc' \in [Readers -> Labels] /\ pc'[r] = "try"
      /\ \A p \in Readers \ {r} : pc'[p] = pc[p]
  BY <1>2, GoFact DEF IInv, Labels
<1>4. /\ req' \in [Readers -> Request] /\ rest' \in [Readers -> Positions]
      /\ req'[r].file = q[1] /\ req'[r].asked = range /\ req'[r].got = {}
      /\ req'[r].result = "none" /\ rest'[r] = range
      /\ \A p \in Readers \ {r} : req'[p] = req[p] /\ rest'[p] = rest[p]
  BY <1>1, <1>2 DEF IInv, ReaderTypes, Request
<1>5. ReaderOK(r)'
  BY <1>2, <1>3, <1>4 DEF ReaderOK, Reading, pool
<1>6. ReaderTypes' /\ Others(r)
  BY <1>2, <1>3, <1>4 DEF IInv, ReaderTypes, Others
<1> QED
  BY <1>2, <1>5, <1>6, ReaderActs DEF IInv, PoolTypes, pool, media

\* The range to refill is within the file.
LEMMA RefillRangeFact ==
    ASSUME NEW f, NEW range \in Positions, Missing(f, range) # {}
    PROVE  RefillRange(f, range) \in Positions
<1> DEFINE S == Missing(f, range)
<1>1. S \subseteq Pages /\ S \subseteq Nat
  BY CacheAssumption DEF Missing, Positions, Pages
<1> HIDE DEF S
<1>2. Min(S) \in Nat /\ Max(S) \in Nat
  BY <1>1, MinOfNats, MaxOfPages DEF S
<1>3. RefillUnit \in Nat \ {0} /\ Length \in Nat
  BY CacheAssumption
<1>4. PICK lo \in Nat : lo = (Min(S) \div RefillUnit) * RefillUnit
  <2>1. Min(S) \div RefillUnit \in Nat
    BY <1>2, <1>3
  <2> QED
    BY <1>3, <2>1
<1>5. PICK top \in Nat : top = (Max(S) \div RefillUnit + 1) * RefillUnit
  <2>1. Max(S) \div RefillUnit + 1 \in Nat
    BY <1>2, <1>3
  <2> QED
    BY <1>3, <2>1
<1>6. PICK hi \in Int : hi = Min({top, Length}) - 1 /\ hi <= Length - 1
  BY <1>3, OfTwo
<1>7. RefillRange(f, range) = <<lo, hi>>
  BY <1>4, <1>5, <1>6 DEF RefillRange, S
<1>8. lo..hi \subseteq Pages
  BY <1>3, <1>6 DEF Pages
<1> QED
  BY <1>7, <1>8 DEF Positions, Span

\* A reader finds its pages cached, or what to refill.
LEMMA TryStep ==
    ASSUME IInv, NEW r \in Readers, Try(r)
    PROVE  IInv'
<1> DEFINE f == req[r].file
<1>1. /\ pc[r] \in {"try", "again"} /\ Reading(r) /\ f \in Files /\ f \in open
      /\ rest[r] \in Positions /\ ReaderTypes
  BY ReadingFact DEF Try, IInv, Reading
<1>2. UNCHANGED <<index, stuck, open, size, sized, totalUsed, isFull, media, evict, req,
                  rest>>
  BY DEF Try
<1>3. CASE Missing(f, rest[r]) = {}
  <2>1. Go(r, "pread") /\ lru' = Access(lru, f) /\ refill' = refill
    BY <1>3 DEF Try
  <2>2. Span(rest[r]) \subseteq cached[f]
    BY <1>3 DEF Missing
  <2>3. /\ pc' \in [Readers -> Labels] /\ pc'[r] = "pread"
        /\ \A q \in Readers \ {r} : pc'[q] = pc[q]
    BY <1>1, <2>1, GoFact DEF Labels
  <2>4. ReaderOK(r)' /\ ReaderTypes' /\ Others(r)
    BY <1>1, <1>2, <2>1, <2>2, <2>3 DEF ReaderOK, Reading, ReaderTypes, Others, media
  <2> QED
    BY <1>1, <1>2, <2>1, <2>4, ReaderActs DEF IInv, PoolTypes, media
<1>4. CASE Missing(f, rest[r]) # {} /\ pc[r] = "again"
  <2>1. Go(r, "source") /\ UNCHANGED <<lru, refill>>
    BY <1>4 DEF Try
  <2>2. /\ pc' \in [Readers -> Labels] /\ pc'[r] = "source"
        /\ \A q \in Readers \ {r} : pc'[q] = pc[q]
    BY <1>1, <2>1, GoFact DEF Labels
  <2>3. ReaderOK(r)' /\ ReaderTypes' /\ Others(r)
    BY <1>1, <1>2, <2>1, <2>2 DEF ReaderOK, Reading, ReaderTypes, Others
  <2> QED
    BY <1>1, <1>2, <2>1, <2>3, ReaderActs DEF IInv, PoolTypes, media
<1>5. CASE Missing(f, rest[r]) # {} /\ pc[r] # "again"
  <2>1. /\ Go(r, "refill") /\ lru' = lru
        /\ refill' = [refill EXCEPT ![r] = RefillRange(f, rest[r])]
    BY <1>5 DEF Try
  <2>2. /\ pc' \in [Readers -> Labels] /\ pc'[r] = "refill"
        /\ \A q \in Readers \ {r} : pc'[q] = pc[q]
    BY <1>1, <2>1, GoFact DEF Labels
  <2>3. refill' \in [Readers -> Positions]
    BY <1>1, <1>5, <2>1, RefillRangeFact DEF ReaderTypes
  <2>4. ReaderOK(r)' /\ ReaderTypes' /\ Others(r)
    BY <1>1, <1>2, <2>2, <2>3 DEF ReaderOK, Reading, ReaderTypes, Others
  <2> QED
    BY <1>1, <1>2, <2>1, <2>4, ReaderActs DEF IInv, PoolTypes, media
<1> QED
  BY <1>3, <1>4, <1>5

\* A reader in the middle of a read that only changes its label.
LEMMA MoveOn ==
    ASSUME IInv, NEW r \in Readers, pc[r] \notin {"idle", "done", "evict"},
           NEW label \in Labels \ {"idle", "done", "pread"}, Go(r, label),
           UNCHANGED <<index, stuck, open, size, totalUsed, isFull, cached, stored, evict,
                       lru>>,
           sized' \subseteq Files, extended' \subseteq Files,
           UNCHANGED <<req, rest, refill>>
    PROVE  IInv'
<1>1. Reading(r) /\ ReaderTypes
  BY ReadingFact DEF IInv
<1>2. /\ pc' \in [Readers -> Labels] /\ pc'[r] = label
      /\ \A q \in Readers \ {r} : pc'[q] = pc[q]
  BY <1>1, GoFact
<1>3. ReaderOK(r)' /\ ReaderTypes' /\ Others(r)
  BY <1>1, <1>2 DEF ReaderOK, Reading, ReaderTypes, Others
<1> QED
  BY <1>3, ReaderActs

\* A query or a read of the media file fails.
LEMMA FailingStep ==
    ASSUME IInv, NEW r \in Readers, QueryFails(r) \/ PReadFails(r)
    PROVE  IInv'
<1>1. /\ pc[r] \in {"try", "again", "pread"} /\ Go(r, "source")
      /\ UNCHANGED <<pool, media, evict, req, rest, refill>>
  BY DEF QueryFails, PReadFails
<1> QED
  BY <1>1, MoveOn DEF IInv, PoolTypes, Labels, pool, media

\* A reader takes the range or waits for it.
LEMMA LockRangeStep ==
    ASSUME IInv, NEW r \in Readers, LockRange(r)
    PROVE  IInv'
<1>1. PICK label \in {"fetch", "wait"} : Go(r, label)
  BY DEF LockRange
<1>2. pc[r] = "refill" /\ UNCHANGED <<pool, media, evict, req, rest, refill>>
  BY DEF LockRange
<1> QED
  BY <1>1, <1>2, MoveOn DEF IInv, PoolTypes, Labels, pool, media

\* A reader gives the media file its length.
LEMMA StoreStep ==
    ASSUME IInv, NEW r \in Readers, Store(r)
    PROVE  IInv'
<1>1. /\ pc[r] = "store" /\ Go(r, "pwrite")
      /\ UNCHANGED <<index, stuck, open, size, lru, totalUsed, isFull, cached, stored,
                     evict, req, rest, refill>>
  BY DEF Store
<1>2. req[r].file \in Files
  BY <1>1, ReadingFact
<1>3. sized' \subseteq Files /\ extended' \subseteq Files
  BY <1>2 DEF Store, IInv, PoolTypes
<1> QED
  BY <1>1, <1>3, MoveOn DEF Labels

\* A read ends, with an answer that is right if it is a success.
LEMMA Finishes ==
    ASSUME IInv, NEW r \in Readers, pc[r] \notin {"idle", "done", "evict"},
           pc' \in [Readers -> Labels], pc'[r] = "done",
           \A q \in Readers \ {r} : pc'[q] = pc[q] \/ (pc[q] = "wait" /\ pc'[q] = "try"),
           NEW got \in SUBSET Pages, NEW result \in {"ok", "error"},
           req' = [req EXCEPT ![r].got = got, ![r].result = result],
           result = "ok" => got = Span(req[r].asked),
           UNCHANGED <<pool, media, evict, rest, refill>>
    PROVE  IInv'
<1>1. Reading(r) /\ ReaderTypes
  BY ReadingFact DEF IInv
<1>2. /\ req' \in [Readers -> Request] /\ req'[r].file = req[r].file
      /\ req'[r].asked = req[r].asked /\ req'[r].got = got /\ req'[r].result = result
      /\ \A q \in Readers \ {r} : req'[q] = req[q]
  BY <1>1 DEF ReaderTypes, Request
<1>3. ReaderOK(r)' /\ ReaderTypes' /\ Others(r)
  BY <1>1, <1>2 DEF ReaderOK, Reading, ReaderTypes, Others, pool
<1> QED
  BY <1>3, ReaderActs DEF IInv, PoolTypes, pool, media

\* The media file or the source is read.
LEMMA ReadStep ==
    ASSUME IInv, NEW r \in Readers, PRead(r) \/ Source(r)
    PROVE  IInv'
<1>1. /\ pc[r] \in {"pread", "source"} /\ Reading(r) /\ ReaderTypes
      /\ req[r] \in Request /\ rest[r] \in Positions /\ req[r].file \in Files
  BY ReadingFact DEF PRead, Source, IInv
<1>2. UNCHANGED <<pool, media, evict, rest, refill>>
  BY DEF PRead, Source
<1>3. CASE PRead(r) /\ req[r].file \notin extended
  BY <1>1, <1>2, <1>3, MoveOn DEF PRead, IInv, PoolTypes, Labels, pool, media
<1>4. CASE ~(PRead(r) /\ req[r].file \notin extended)
  <2>1. PICK X : /\ X = IF PRead(r) THEN Span(rest[r]) \cap cached[req[r].file]
                         ELSE Span(rest[r])
    OBVIOUS
  <2>2. /\ Go(r, "done")
        /\ req' = [req EXCEPT ![r].got = req[r].got \cup X, ![r].result = "ok"]
    <3>1. CASE PRead(r)
      BY <1>4, <2>1, <3>1 DEF PRead
    <3>2. CASE ~PRead(r)
      BY <2>1, <3>2 DEF Source
    <3> QED
      BY <3>1, <3>2
  <2>3. X = Span(rest[r])
    <3>1. PRead(r) => Span(rest[r]) \subseteq cached[req[r].file]
      BY DEF PRead, IInv, ReaderOK
    <3> QED
      BY <2>1, <3>1
  <2>4. /\ req[r].got \cup X \in SUBSET Pages
        /\ req[r].got \cup X = Span(req[r].asked)
    BY <1>1, <2>3 DEF Reading, Request, Positions
  <2>5. /\ pc' \in [Readers -> Labels] /\ pc'[r] = "done"
        /\ \A q \in Readers \ {r} : pc'[q] = pc[q]
    BY <1>1, <2>2, GoFact DEF Labels
  <2> QED
    BY <1>1, <1>2, <2>2, <2>4, <2>5, Finishes
<1> QED
  BY <1>3, <1>4

\* The source cannot be read.
LEMMA SourceFailsStep ==
    ASSUME IInv, NEW r \in Readers, SourceFails(r) \/ FetchFails(r)
    PROVE  IInv'
<1>1. /\ pc[r] \in {"source", "fetch"} /\ ReaderTypes /\ req[r] \in Request
      /\ UNCHANGED <<pool, media, evict, rest, refill>>
      /\ req' = [req EXCEPT ![r].result = "error"]
      /\ Go(r, "done") \/ Unlock(r, "done")
  BY ReadingFact DEF SourceFails, FetchFails, IInv
<1>2. /\ pc' \in [Readers -> Labels] /\ pc'[r] = "done"
      /\ \A q \in Readers \ {r} : pc'[q] = pc[q] \/ (pc[q] = "wait" /\ pc'[q] = "try")
  <2>1. CASE Go(r, "done")
    BY <1>1, <2>1, GoFact DEF Labels
  <2>2. CASE Unlock(r, "done")
    BY <1>1, <2>2, UnlockFact DEF Labels
  <2> QED
    BY <1>1, <2>1, <2>2
<1>3. req' = [req EXCEPT ![r].got = req[r].got, ![r].result = "error"]
  BY <1>1 DEF ReaderTypes, Request
<1>4. req[r].got \in SUBSET Pages
  BY <1>1 DEF Request
<1> QED
  BY <1>1, <1>2, <1>3, <1>4, Finishes

\* preadv2 returns.
LEMMA ReturnStep ==
    ASSUME IInv, NEW r \in Readers, Return(r)
    PROVE  IInv'
<1>1. /\ pc[r] = "done" /\ Go(r, "idle") /\ ReaderTypes
      /\ req' = [req EXCEPT ![r] = Idle] /\ rest' = [rest EXCEPT ![r] = NoRange]
      /\ refill' = [refill EXCEPT ![r] = NoRange] /\ UNCHANGED <<pool, media, evict>>
  BY DEF Return, IInv
<1>2. NoRange \in Positions /\ Idle \in Request /\ Idle.result = "none"
  BY DEF NoRange, Idle, Positions, Request, Span
<1>3. /\ pc' \in [Readers -> Labels] /\ pc'[r] = "idle"
      /\ \A q \in Readers \ {r} : pc'[q] = pc[q]
  BY <1>1, GoFact DEF Labels
<1>4. /\ req' \in [Readers -> Request] /\ rest' \in [Readers -> Positions]
      /\ refill' \in [Readers -> Positions] /\ req'[r] = Idle
      /\ \A q \in Readers \ {r} : req'[q] = req[q] /\ rest'[q] = rest[q]
  BY <1>1, <1>2 DEF ReaderTypes
<1>5. ReaderOK(r)' /\ ReaderTypes' /\ Others(r)
  BY <1>2, <1>3, <1>4 DEF ReaderOK, ReaderTypes, Others
<1> QED
  BY <1>1, <1>5, ReaderActs DEF IInv, PoolTypes, pool, media

\* What a refill copies is wanted, and with what then remains it is all
\* that was wanted.
LEMMA CopiedFact ==
    ASSUME NEW r \in Readers, rest[r] \in Positions, refill[r] \in Positions
    PROVE  /\ Remainder(r) \in Positions /\ Copied(r) \subseteq Pages
           /\ Copied(r) \cup Span(Remainder(r)) = Span(rest[r])
<1>1. PICK a \in Int, b \in Int : rest[r] = <<a, b>> /\ a..b \subseteq Pages
  BY DEF Positions, Span
<1>2. PICK c \in Int, d \in Int : refill[r] = <<c, d>>
  BY DEF Positions
<1>3. Span(rest[r]) = a..b
  BY <1>1 DEF Span
<1>4. Copied(r) \subseteq a..b
  <2>1. CASE c <= a
    <3>1. Copied(r) = a..Min({b, d})
      BY <1>1, <1>2, <2>1 DEF Copied, Span
    <3>2. Min({b, d}) \in Int /\ Min({b, d}) <= b
      BY OfTwo
    <3> QED
      BY <3>1, <3>2
  <2>2. CASE c > a /\ d >= b
    <3>1. Copied(r) = c..b
      BY <1>1, <1>2, <2>2 DEF Copied, Span
    <3> QED
      BY <2>2, <3>1
  <2>3. CASE c > a /\ ~(d >= b)
    BY <1>1, <1>2, <2>3 DEF Copied
  <2> QED
    BY <2>1, <2>2, <2>3
<1> DEFINE left == Span(rest[r]) \ Copied(r)
<1>5. CASE left = {}
  <2>1. Remainder(r) = NoRange
    BY <1>5 DEF Remainder
  <2>2. Span(NoRange) = {} /\ NoRange \in Positions
    BY DEF NoRange, Span, Positions
  <2> QED
    BY <1>1, <1>3, <1>4, <1>5, <2>1, <2>2
<1>6. CASE left # {}
  <2>1. Remainder(r) = <<Min(left), Max(left)>>
    BY <1>6 DEF Remainder
  <2>2. left \subseteq Pages /\ left \subseteq Nat /\ left \subseteq a..b
    <3>1. left \subseteq a..b
      BY <1>3
    <3>2. Pages \subseteq Nat
      BY CacheAssumption DEF Pages
    <3> QED
      BY <1>1, <3>1, <3>2
  <2>3. /\ Min(left) \in left /\ Max(left) \in left
        /\ \A y \in left : Min(left) <= y /\ y <= Max(left)
    <3> HIDE DEF left
    <3> QED
      BY <1>6, <2>2, MinOfNats, MaxOfPages
  <2>4. PICK lo \in a..b, hi \in a..b :
          /\ Remainder(r) = <<lo, hi>> /\ \A y \in left : lo <= y /\ y <= hi
    BY <2>1, <2>2, <2>3
  <2>5. Span(Remainder(r)) = lo..hi /\ lo..hi \subseteq a..b
    BY <2>4 DEF Span
  <2>6. left \subseteq lo..hi
    BY <2>2, <2>4
  <2>7. Remainder(r) \in Positions
    BY <1>1, <2>4, <2>5 DEF Positions
  <2> QED
    BY <1>1, <1>3, <1>4, <2>5, <2>6, <2>7
<1> QED
  BY <1>5, <1>6

\* The range is fetched from the source.
LEMMA FetchStep ==
    ASSUME IInv, NEW r \in Readers, Fetch(r)
    PROVE  IInv'
<1>1. /\ pc[r] = "fetch" /\ Reading(r) /\ ReaderTypes /\ req[r] \in Request
      /\ rest[r] \in Positions /\ refill[r] \in Positions
      /\ Go(r, "store") /\ UNCHANGED <<pool, media, evict, refill>>
  BY ReadingFact DEF Fetch, IInv
<1>2. PICK X \in SUBSET Pages, left \in Positions :
        /\ X = Copied(r) /\ left = Remainder(r) /\ X \cup Span(left) = Span(rest[r])
  BY <1>1, CopiedFact
<1>3. /\ req' = [req EXCEPT ![r].got = req[r].got \cup X]
      /\ rest' = [rest EXCEPT ![r] = left]
  BY <1>2 DEF Fetch
<1>4. req[r].got \cup X \in SUBSET Pages
  BY <1>1 DEF Request
<1>5. /\ req' \in [Readers -> Request] /\ req'[r].file = req[r].file
      /\ req'[r].asked = req[r].asked /\ req'[r].got = req[r].got \cup X
      /\ req'[r].result = req[r].result
      /\ \A q \in Readers \ {r} : req'[q] = req[q]
  BY <1>1, <1>3, <1>4 DEF ReaderTypes, Request
<1>6. /\ rest' \in [Readers -> Positions] /\ rest'[r] = left
      /\ \A q \in Readers \ {r} : rest'[q] = rest[q]
  BY <1>1, <1>3 DEF ReaderTypes
<1>7. /\ pc' \in [Readers -> Labels] /\ pc'[r] = "store"
      /\ \A q \in Readers \ {r} : pc'[q] = pc[q]
  BY <1>1, GoFact DEF Labels
<1>8. Reading(r)'
  BY <1>1, <1>2, <1>5, <1>6 DEF Reading, pool
<1>9. ReaderOK(r)' /\ ReaderTypes' /\ Others(r)
  BY <1>1, <1>5, <1>6, <1>7, <1>8 DEF ReaderOK, ReaderTypes, Others
<1> QED
  BY <1>1, <1>9, ReaderActs DEF IInv, PoolTypes, pool, media

\* The cache is full: the data is not kept.
LEMMA SkipStoreStep ==
    ASSUME IInv, NEW r \in Readers, SkipStore(r)
    PROVE  IInv'
<1>1. /\ pc[r] = "store" /\ Reading(r) /\ ReaderTypes /\ AfterRefill(r)
      /\ UNCHANGED <<pool, media, evict, rest, refill>>
  BY ReadingFact DEF SkipStore, IInv
<1>2. ReaderOK(r)' /\ ReaderTypes' /\ Others(r)
  BY <1>1, AfterRefillFact DEF pool
<1> QED
  BY <1>1, <1>2, ReaderActs DEF IInv, PoolTypes, pool, media

-----------------------------------------------------------------------------
(* Writes to the media file                                                *)

\* How much is to be evicted.
LEMMA ToEvictFact ==
    ASSUME NEW total \in Nat, NEW shortage \in Nat
    PROVE  ToEvict(total, shortage) \in Nat
<1>1. WaterMark \in Nat
  BY CacheAssumption
<1>2. PICK n \in Nat : n = IF total >= WaterMark THEN total - WaterMark ELSE 0
  <2>1. CASE total >= WaterMark
    BY <1>1, <2>1
  <2>2. CASE ~(total >= WaterMark)
    BY <2>2
  <2> QED
    BY <2>1, <2>2
<1>3. Max({shortage, n}) \in Nat
  <2>1. shortage \in Int /\ n \in Int
    OBVIOUS
  <2>2. Max({shortage, n}) = IF shortage >= n THEN shortage ELSE n
    BY <2>1, OfTwo
  <2> QED
    BY <2>2
<1> QED
  BY <1>2, <1>3 DEF ToEvict

\* Starting an eviction changes nothing but who evicts how much.
LEMMA RecycleFact ==
    ASSUME EvictTypes, NEW who \in Readers \cup {"timer"}, NEW total \in Nat,
           NEW s \in Shortages, Recycle(who, total, s)
    PROVE  /\ EvictTypes' /\ isFull' \in BOOLEAN /\ victim' = victim
           /\ evictor' \in {who, NoOne}
<1>1. ToEvict(total, s) \in Nat
  BY ToEvictFact, CacheAssumption
<1>2. isFull' \in BOOLEAN
  BY DEF Recycle
<1>3. evictor' \in {who, NoOne} /\ amount' \in Int /\ UNCHANGED <<victim, captured>>
  BY <1>1 DEF Recycle
<1> QED
  BY <1>2, <1>3 DEF EvictTypes

\* The total after a change of one entry's size.
LEMMA SizeChange ==
    ASSUME index \subseteq Files, IsFiniteSet(index), NEW f, f \in index,
           size \in SizeMap, size' \in SizeMap,
           \A g \in index \ {f} : size'[g] = size[g]
    PROVE  /\ SumOf(size', index) = SumOf(size, index) - size[f] + size'[f]
           /\ size[f] <= SumOf(size, index) /\ SumOf(size, index) \in Nat
  BY SumUpdate

\* The pool after a write: more pages, their number as the entry's size, and
\* the difference in the total.
LEMMA WrotePool ==
    ASSUME IInv, NEW f \in open, NEW written \in SUBSET Pages,
           cached' = [cached EXCEPT ![f] = cached[f] \cup written],
           size' = [size EXCEPT ![f] = Cardinality(cached[f] \cup written)],
           totalUsed' = totalUsed +
             IF Cardinality(cached[f] \cup written) > size[f]
             THEN Cardinality(cached[f] \cup written) - size[f] ELSE 0,
           lru' = Access(lru, f), isFull' \in BOOLEAN, victim' = victim,
           UNCHANGED <<index, stuck, open, sized, extended, stored>>
    PROVE  PoolTypes' /\ PoolInv'
<1>1. /\ f \in Files /\ f \in index /\ index \subseteq Files /\ IsFiniteSet(index)
      /\ size \in SizeMap /\ lru \in Seq(Files) /\ Listed /\ index \subseteq stored
      /\ cached[f] \subseteq Pages /\ cached \in [Files -> SUBSET Pages]
      /\ totalUsed = SumOf(size, index) /\ size[f] <= Cardinality(cached[f])
  BY DEF IInv, PoolTypes, PoolInv
<1>2. PICK n \in 0..Length : n = Cardinality(cached[f] \cup written)
  <2>1. cached[f] \cup written \subseteq Pages
    BY <1>1
  <2> QED
    BY <2>1, PagesFact
<1>3. size[f] \in 0..Length /\ Cardinality(cached[f]) \in 0..Length /\ Cardinality(cached[f]) <= n
  <2>1. IsFiniteSet(cached[f] \cup written) /\ cached[f] \in SUBSET (cached[f] \cup written)
    BY <1>1, PagesFact
  <2>2. Cardinality(cached[f]) <= n
    BY <1>2, <2>1, FS_Subset
  <2> QED
    BY <1>1, <2>2, PagesFact DEF SizeMap
<1>4. totalUsed' = totalUsed - size[f] + n /\ totalUsed \in Nat /\ totalUsed' \in Nat
  <2>1. totalUsed \in Nat /\ size[f] <= n /\ n \in Nat /\ size[f] \in Nat
    BY <1>1, <1>2, <1>3, CacheAssumption DEF IInv, PoolTypes
  <2> QED
    BY <1>2, <2>1
<1>5. size' \in SizeMap /\ totalUsed' = SumOf(size', index)
  <2>1. size' \in SizeMap /\ size'[f] = n /\ \A g \in index \ {f} : size'[g] = size[g]
    BY <1>1, <1>2 DEF SizeMap
  <2>2. SumOf(size', index) = SumOf(size, index) - size[f] + size'[f]
    <3>1. /\ index \subseteq Files /\ IsFiniteSet(index) /\ f \in index
          /\ size \in SizeMap
      BY <1>1
    <3> QED
      BY <2>1, <3>1, SizeChange
  <2> QED
    BY <1>1, <1>4, <2>1, <2>2
<1>6. lru' \in Seq(Files) /\ Listed'
  <2>1. /\ lru' \in Seq(Files) /\ Once(lru')
        /\ Range(lru) \subseteq Range(lru') /\ Range(lru') \subseteq index
    BY <1>1, AccessFact
  <2> QED
    BY <1>1, <2>1 DEF Listed
<1>7. /\ cached' \in [Files -> SUBSET Pages] /\ cached'[f] = cached[f] \cup written
      /\ \A g \in Files \ {f} : cached'[g] = cached[g] /\ size'[g] = size[g]
      /\ size'[f] = n
  <2>1. cached[f] \cup written \in SUBSET Pages
    BY <1>1
  <2> QED
    BY <1>1, <1>2, <2>1 DEF SizeMap
<1>9. PoolTypes'
  BY <1>1, <1>4, <1>5, <1>6, <1>7 DEF IInv, PoolTypes
<1>10. \A g \in Files : size'[g] <= Cardinality(cached'[g])
  <2> SUFFICES ASSUME NEW g \in Files PROVE size'[g] <= Cardinality(cached'[g])
    OBVIOUS
  <2>1. CASE g = f
    <3>1. size'[g] = n /\ Cardinality(cached'[g]) = n /\ n \in Nat
      BY <1>2, <1>7, <2>1, CacheAssumption
    <3> QED
      BY <3>1
  <2>2. CASE g # f
    BY <1>7, <2>2 DEF IInv, PoolInv
  <2> QED
    BY <2>1, <2>2
<1>11. /\ \A g \in Files \ stored : cached'[g] = {}
       /\ \A g \in Files \ index : size'[g] = 0
  BY <1>1, <1>7 DEF IInv, PoolInv
<1>12. PoolInv'
  BY <1>1, <1>5, <1>6, <1>10, <1>11 DEF IInv, PoolInv
<1> QED
  BY <1>9, <1>12

\* A write of the media file is done, or stopped by a full disk.
LEMMA WroteStep ==
    ASSUME IInv, NEW r \in Readers, NEW written \in SUBSET Pages, Wrote(r, written)
    PROVE  IInv'
<1> DEFINE f == req[r].file
           pages == cached[f] \cup written
           used == totalUsed + IF Cardinality(pages) > size[f]
                               THEN Cardinality(pages) - size[f] ELSE 0
           now == IF written = {} THEN totalUsed ELSE used
<1>1. /\ pc[r] = "pwrite" /\ Reading(r) /\ ReaderTypes /\ EvictTypes
      /\ f \in Files /\ f \in open /\ cached \in [Files -> SUBSET Pages]
      /\ cached[f] \subseteq Pages
  BY ReadingFact DEF Wrote, IInv, Reading, PoolTypes
<1>2. /\ cached' = [cached EXCEPT ![f] = pages]
      /\ UNCHANGED <<index, stuck, open, sized, extended, stored, rest, refill>>
  BY DEF Wrote
<1>3. /\ Cardinality(pages) \in Nat /\ size[f] \in Nat /\ totalUsed \in Nat
      /\ used \in Nat /\ now \in Nat
  <2>1. pages \subseteq Pages
    BY <1>1
  <2>2. Cardinality(pages) \in Nat /\ size[f] \in Nat /\ totalUsed \in Nat
    BY <1>1, <2>1, PagesFact, CacheAssumption DEF IInv, PoolTypes, SizeMap
  <2> QED
    BY <2>2
<1>4. /\ EvictTypes' /\ isFull' \in BOOLEAN /\ victim' = victim /\ EvictorInv'
      /\ ReaderTypes' /\ Others(r) /\ ReaderOK(r)'
  <2> DEFINE alone == (written = {} \/ used >= RiskMark) /\ evictor = NoOne
  <2>1. evictor # r
    BY <1>1 DEF IInv, EvictorInv
  <2>2. CASE alone
    <3>1. PICK s \in Shortages :
            /\ Recycle(r, now, s)
            /\ IF evictor' = r THEN Go(r, "evict") /\ UNCHANGED req ELSE AfterRefill(r)
      BY <2>2 DEF Wrote
    <3>2. /\ EvictTypes' /\ isFull' \in BOOLEAN /\ victim' = victim
          /\ evictor' \in {r, NoOne}
      <4> HIDE DEF now
      <4> QED
        BY <1>1, <1>3, <3>1, RecycleFact
    <3>3. CASE evictor' = r
      <4>1. /\ pc' \in [Readers -> Labels] /\ pc'[r] = "evict" /\ req' = req
            /\ \A q \in Readers \ {r} : pc'[q] = pc[q]
        BY <1>1, <3>1, <3>3, GoFact DEF Labels
      <4>2. ReaderTypes' /\ Others(r) /\ ReaderOK(r)'
        BY <1>1, <1>2, <4>1 DEF ReaderTypes, Others, ReaderOK, Reading
      <4> QED
        BY <3>2, <3>3, <4>1, <4>2 DEF EvictorInv
    <3>4. CASE evictor' # r
      <4>1. ReaderTypes' /\ Others(r) /\ ReaderOK(r)'
        BY <1>1, <1>2, <3>1, <3>4, AfterRefillFact
      <4>2. evictor' \notin Readers
        BY <3>2, <3>4, CacheAssumption
      <4> QED
        BY <3>2, <4>1, <4>2 DEF EvictorInv
    <3> QED
      BY <3>3, <3>4
  <2>3. CASE ~alone
    <3>1. /\ isFull' = (isFull \/ (written # {} /\ used >= RiskMark))
          /\ AfterRefill(r) /\ UNCHANGED evict
      BY <2>3 DEF Wrote
    <3>2. isFull' \in BOOLEAN
      BY <3>1
    <3>3. ReaderTypes' /\ Others(r) /\ ReaderOK(r)'
      BY <1>1, <1>2, <3>1, AfterRefillFact
    <3>4. EvictTypes' /\ victim' = victim /\ evictor' = evictor
      BY <1>1, <3>1 DEF EvictTypes, evict
    <3>5. EvictorInv'
      BY <2>1, <3>3, <3>4 DEF IInv, EvictorInv, Others
    <3> QED
      BY <3>2, <3>3, <3>4, <3>5
  <2> QED
    BY <2>2, <2>3
<1>5. PoolTypes' /\ PoolInv'
  <2>1. CASE written = {}
    <3>1. UNCHANGED <<size, totalUsed, lru>>
      BY <2>1 DEF Wrote
    <3>2. cached' = cached
      BY <1>1, <1>2, <2>1
    <3> QED
      BY <1>2, <1>4, <3>1, <3>2 DEF IInv, PoolTypes, PoolInv, Listed
  <2>2. CASE written # {}
    <3>1. /\ size' = [size EXCEPT ![f] = Cardinality(pages)]
          /\ totalUsed' = used /\ lru' = Access(lru, f)
      BY <2>2 DEF Wrote
    <3>2. PICK g \in open : g = f
      BY <1>1
    <3> QED
      BY <1>2, <1>4, <3>1, <3>2, WrotePool
  <2> QED
    BY <2>1, <2>2
<1>6. \A g \in Files : cached[g] \subseteq cached'[g]
  BY <1>1, <1>2
<1>7. \A q \in Readers : ReaderOK(q)'
  BY <1>2, <1>4, <1>6, OthersOK
<1> QED
  BY <1>4, <1>5, <1>7 DEF IInv

\* The write puts pages of the file in the cache.
LEMMA PWriteStep ==
    ASSUME IInv, NEW r \in Readers, PWrite(r) \/ PWriteShort(r)
    PROVE  IInv'
<1>1. pc[r] = "pwrite"
  BY DEF PWrite, PWriteShort, Wrote
<1>2. refill[r] \in Positions
  BY <1>1, ReadingFact
<1>3. PICK a \in Int, b \in Int : refill[r] = <<a, b>> /\ a..b \subseteq Pages
  BY <1>2 DEF Positions, Span
<1>4. CASE PWrite(r)
  <2>1. Span(refill[r]) \in SUBSET Pages /\ Wrote(r, Span(refill[r]))
    BY <1>3, <1>4 DEF PWrite, Span
  <2> QED
    BY <2>1, WroteStep
<1>5. CASE PWriteShort(r)
  <2>1. PICK last \in (a - 1)..(b - 1) : Wrote(r, Span(<<a, last>>))
    BY <1>3, <1>5 DEF PWriteShort
  <2>2. Span(<<a, last>>) \in SUBSET Pages
    BY <1>3 DEF Span
  <2> QED
    BY <2>1, <2>2, WroteStep
<1> QED
  BY <1>4, <1>5

-----------------------------------------------------------------------------
(* Stores, eviction and restart                                            *)

\* A step that leaves the readers alone.
LEMMA ReadersStay ==
    ASSUME IInv, UNCHANGED <<pc, req, rest, refill>>, open \subseteq open',
           \A r \in Readers : pc[r] = "pread" => cached[req[r].file] \subseteq cached'[req[r].file]
    PROVE  ReaderTypes' /\ \A r \in Readers : ReaderOK(r)'
<1>1. ReaderTypes'
  BY DEF IInv, ReaderTypes
<1> SUFFICES ASSUME NEW r \in Readers PROVE ReaderOK(r)'
  BY <1>1
<1>2. ReaderOK(r)
  BY DEF IInv
<1>3. Reading(r) => Reading(r)'
  BY DEF Reading
<1> QED
  BY <1>2, <1>3 DEF ReaderOK

\* do_open.
LEMMA OpenStep ==
    ASSUME IInv, NEW f \in Files, Open(f)
    PROVE  IInv'
<1>1. /\ open' = open \cup {f} /\ index' = index \cup {f} /\ stored' = stored \cup {f}
      /\ lru' = IF f \in index THEN Access(lru, f) ELSE PushFront(lru, f)
      /\ UNCHANGED <<stuck, size, sized, totalUsed, isFull, cached, extended, evict, readers>>
  BY DEF Open
<1>2. /\ index \subseteq Files /\ IsFiniteSet(index) /\ size \in SizeMap
      /\ lru \in Seq(Files) /\ Listed /\ IsFiniteSet(stored)
      /\ totalUsed = SumOf(size, index)
  BY DEF IInv, PoolTypes, PoolInv
<1>3. lru' \in Seq(Files) /\ Listed'
  <2>1. CASE f \in index
    <3>1. /\ lru' \in Seq(Files) /\ Once(lru') /\ index' = index
          /\ Range(lru) \subseteq Range(lru') /\ Range(lru') \subseteq index
      BY <1>1, <1>2, <2>1, AccessFact
    <3> QED
      BY <1>1, <1>2, <3>1 DEF Listed
  <2>2. CASE f \notin index
    <3>1. lru' \in Seq(Files) /\ Once(lru') /\ Range(lru') = Range(lru) \cup {f}
      BY <1>1, <1>2, <2>2, PushFact DEF Listed
    <3> QED
      BY <1>1, <1>2, <3>1 DEF Listed
  <2> QED
    BY <2>1, <2>2
<1>4. IsFiniteSet(index') /\ IsFiniteSet(stored')
  BY <1>1, <1>2, FS_AddElement
<1>5. totalUsed' = SumOf(size', index')
  <2>1. CASE f \in index
    <3>1. index' = index
      BY <1>1, <2>1
    <3> QED
      BY <1>1, <1>2, <3>1
  <2>2. CASE f \notin index
    <3>2. size[f] = 0
      BY <2>2 DEF IInv, PoolInv
    <3>3. SumOf(size, index \cup {f}) = SumOf(size, index)
      BY <1>2, <3>2, SumEmpty
    <3> QED
      BY <1>1, <1>2, <3>3
  <2> QED
    BY <2>1, <2>2
<1>6. PoolTypes' /\ EvictTypes'
  BY <1>1, <1>3 DEF IInv, PoolTypes, EvictTypes, evict
<1>7. PoolInv'
  BY <1>1, <1>3, <1>4, <1>5 DEF IInv, PoolInv, evict
<1>8. EvictorInv'
  BY <1>1 DEF IInv, EvictorInv, evict, readers
<1>9. ReaderTypes' /\ \A r \in Readers : ReaderOK(r)'
  BY <1>1, ReadersStay DEF readers
<1> QED
  BY <1>6, <1>7, <1>8, <1>9 DEF IInv

\* The store of a file nobody reads expires.
LEMMA CloseStep ==
    ASSUME IInv, NEW f \in Files, Close(f)
    PROVE  IInv'
<1>1. /\ open' = open \ {f} /\ \A r \in Readers : pc[r] = "idle" \/ req[r].file # f
      /\ UNCHANGED <<index, stuck, size, sized, lru, totalUsed, isFull, media, evict, readers>>
  BY DEF Close
<1>2. PoolTypes' /\ EvictTypes' /\ PoolInv' /\ EvictorInv' /\ ReaderTypes'
  BY <1>1
  DEF IInv, PoolTypes, EvictTypes, PoolInv, Listed, EvictorInv, ReaderTypes, evict, media,
      readers
<1>3. ASSUME NEW r \in Readers PROVE ReaderOK(r)'
  <2>1. ReaderOK(r) /\ UNCHANGED <<pc, req, rest, cached>>
    BY <1>1 DEF IInv, readers, media
  <2>2. pc[r] # "idle" => (req[r].file \in open => req[r].file \in open')
    BY <1>1
  <2> QED
    BY <2>1, <2>2 DEF ReaderOK, Reading
<1> QED
  BY <1>2, <1>3 DEF IInv

\* The timer starts an eviction.
LEMMA TimerStep ==
    ASSUME IInv, Timer
    PROVE  IInv'
<1>1. PICK s \in Shortages : Recycle("timer", totalUsed, s)
  BY DEF Timer
<1>2. totalUsed \in Nat /\ EvictTypes
  BY DEF IInv, PoolTypes
<1>3. /\ EvictTypes' /\ isFull' \in BOOLEAN /\ victim' = victim
      /\ evictor' \in {"timer", NoOne}
  BY <1>1, <1>2, RecycleFact
<1>4. UNCHANGED <<index, stuck, open, size, sized, lru, totalUsed, media, readers>>
  BY DEF Timer
<1>5. PoolTypes' /\ PoolInv'
  BY <1>3, <1>4 DEF IInv, PoolTypes, PoolInv, Listed, media
<1>6. EvictorInv'
  BY <1>3, CacheAssumption DEF EvictorInv
<1>7. ReaderTypes' /\ \A r \in Readers : ReaderOK(r)'
  BY <1>4, ReadersStay DEF readers, media
<1> QED
  BY <1>3, <1>5, <1>6, <1>7 DEF IInv

\* The pool after afterFtrucate, which forgets a file nobody has open unless
\* it is busy.
LEMMA TruncatedPool ==
    ASSUME IInv, NEW f, f \in index, NEW emptied \in BOOLEAN, NEW unlinked \in Endings,
           AfterFtruncate(f, emptied, unlinked),
           lru' \in Seq(Files), Listed', sized' \subseteq Files, victim' = NoOne
    PROVE  PoolTypes' /\ PoolInv'
<1> DEFINE gone   == f \notin open /\ unlinked # "again"
           erased == f \notin open /\ unlinked = "ok"
<1>1. /\ f \in Files /\ index \subseteq Files /\ IsFiniteSet(index) /\ size \in SizeMap
      /\ totalUsed = SumOf(size, index) /\ cached \in [Files -> SUBSET Pages]
      /\ stored \subseteq Files /\ IsFiniteSet(stored)
  BY DEF IInv, PoolTypes, PoolInv
<1>2. /\ index' = IF gone THEN index \ {f} ELSE index
      /\ stored' = IF erased THEN stored \ {f} ELSE stored
      /\ erased => gone
  BY DEF AfterFtruncate
<1>3. /\ size' \in SizeMap /\ size'[f] = 0 /\ \A g \in Files \ {f} : size'[g] = size[g]
  <2>1. size' = [size EXCEPT ![f] = 0] /\ 0 \in 0..Length
    BY CacheAssumption DEF AfterFtruncate
  <2> QED
    BY <1>1, <2>1 DEF SizeMap
<1>4. /\ cached' \in [Files -> SUBSET Pages] /\ \A g \in Files \ {f} : cached'[g] = cached[g]
      /\ erased => cached'[f] = {}
  BY <1>1 DEF AfterFtruncate
<1>6. totalUsed' = SumOf(size', index) /\ totalUsed' \in Nat
  <2>1. /\ SumOf(size', index) = SumOf(size, index) - size[f] + size'[f]
        /\ size[f] <= SumOf(size, index) /\ SumOf(size, index) \in Nat
    BY <1>1, <1>3, SizeChange
  <2>2. size[f] \in Nat
    BY <1>1, CacheAssumption DEF SizeMap
  <2>3. totalUsed' = Max({totalUsed - size[f], 0})
    BY DEF AfterFtruncate
  <2>4. totalUsed - size[f] \in Int /\ totalUsed - size[f] >= 0
    BY <1>1, <2>1, <2>2
  <2>5. totalUsed' = totalUsed - size[f]
    <3>1. PICK m \in Int : m = totalUsed - size[f] /\ m >= 0
      BY <2>4
    <3>2. Max({m, 0}) = m
      <4>1. PICK z \in Int : z = 0
        OBVIOUS
      <4>2. Max({m, z}) = IF m >= z THEN m ELSE z
        BY OfTwo
      <4> QED
        BY <3>1, <4>1, <4>2
    <3> QED
      BY <2>3, <3>1, <3>2
  <2> QED
    BY <1>1, <1>3, <2>1, <2>2, <2>5
<1> HIDE DEF gone, erased
<1>7. /\ SumOf(size', index') = SumOf(size', index)
      /\ IsFiniteSet(index') /\ IsFiniteSet(stored')
  <2>1. SumOf(size', index \ {f}) = SumOf(size', index)
    BY <1>1, <1>3, SumEmpty
  <2>2. IsFiniteSet(index \ {f}) /\ IsFiniteSet(stored \ {f})
    BY <1>1, FS_Difference
  <2> QED
    BY <1>1, <1>2, <2>1, <2>2
<1>8. /\ open' = open /\ isFull' = isFull /\ extended' \subseteq Files
      /\ stuck' \subseteq Files
  BY <1>1 DEF AfterFtruncate, IInv, PoolTypes
<1>9. PoolTypes'
  BY <1>1, <1>2, <1>3, <1>4, <1>6, <1>8 DEF IInv, PoolTypes
<1>10. \A g \in Files : size'[g] <= Cardinality(cached'[g])
  <2> SUFFICES ASSUME NEW g \in Files PROVE size'[g] <= Cardinality(cached'[g])
    OBVIOUS
  <2>1. CASE g = f
    <3>1. Cardinality(cached'[g]) \in Nat
      BY <1>4, PagesFact, CacheAssumption
    <3> QED
      BY <1>3, <2>1, <3>1
  <2>2. CASE g # f
    BY <1>3, <1>4, <2>2 DEF IInv, PoolInv
  <2> QED
    BY <2>1, <2>2
<1>11. /\ \A g \in Files \ stored' : cached'[g] = {}
       /\ \A g \in Files \ index' : size'[g] = 0
  BY <1>1, <1>2, <1>3, <1>4 DEF IInv, PoolInv
<1>12. open' \subseteq index' /\ index' \subseteq stored'
  BY <1>2, <1>8 DEF IInv, PoolInv, gone
<1> QED
  BY <1>6, <1>7, <1>9, <1>10, <1>11, <1>12 DEF PoolInv

\* Nobody reads the file that is truncated.
LEMMA TruncatedReaders ==
    ASSUME IInv, NEW f, f \in index, open' = open, ReadLocked(f) = {}, UNCHANGED readers,
           \A g \in Files \ {f} : cached'[g] = cached[g]
    PROVE  ReaderTypes' /\ \A r \in Readers : ReaderOK(r)'
<1>2. ASSUME NEW r \in Readers, pc[r] = "pread"
      PROVE  cached[req[r].file] \subseteq cached'[req[r].file]
  <2>1. req[r].file \in Files
    BY <1>2, ReadingFact
  <2>2. req[r].file # f
    BY <1>2 DEF ReadLocked
  <2> QED
    BY <2>1, <2>2
<1> QED
  BY <1>2, ReadersStay DEF readers

\* What afterFtrucate leaves of a list that may have lost the file already.
LEMMA TruncatedList ==
    ASSUME IInv, NEW f, f \in index, NEW emptied \in BOOLEAN, NEW unlinked \in Endings,
           AfterFtruncate(f, emptied, unlinked), Once(lru'),
           Range(lru) \ {f} \subseteq Range(lru'), Range(lru') \subseteq index,
           f \in open => Range(lru) \subseteq Range(lru'),
           f \notin index' => f \notin Range(lru')
    PROVE  Listed'
<1>1. Range(lru) \subseteq index /\ index \ Range(lru) \subseteq stuck /\ open \subseteq index
  BY DEF IInv, PoolInv, Listed
<1>2. CASE f \in open
  <2>1. index' = index /\ stuck' = stuck
    BY <1>2 DEF AfterFtruncate
  <2> QED
    BY <1>1, <1>2, <2>1 DEF Listed
<1>3. CASE f \notin open /\ unlinked # "again"
  <2>1. index' = index \ {f} /\ stuck' = stuck \ {f}
    BY <1>3 DEF AfterFtruncate
  <2> QED
    BY <1>1, <2>1 DEF Listed
<1>4. CASE f \notin open /\ unlinked = "again"
  <2>1. index' = index /\ stuck' = stuck \cup {f}
    BY <1>4 DEF AfterFtruncate
  <2> QED
    BY <1>1, <2>1 DEF Listed
<1> QED
  BY <1>2, <1>3, <1>4

\* A truncate by the eviction that holds the file's lock.
LEMMA TruncateStep ==
    ASSUME IInv, NEW f, f \in index, NEW taken \in Int, Truncate(f, taken),
           lru' \in Seq(Files), Once(lru'),
           Range(lru) \ {f} \subseteq Range(lru'), Range(lru') \subseteq index,
           f \in open => Range(lru) \subseteq Range(lru'),
           f \notin index' => f \notin Range(lru'),
           ReadLocked(f) = {}, victim' = NoOne, captured' \in 0..Length,
           evictor' = evictor, UNCHANGED readers
    PROVE  IInv'
<1>1. PICK truncated \in Endings, unlinked \in Endings :
        /\ sized' = sized \ {f}
        /\ IF truncated = "again"
             THEN /\ stuck' = IF f \in open THEN stuck ELSE stuck \cup {f}
                  /\ UNCHANGED <<index, open, size, totalUsed, isFull, media, amount>>
             ELSE /\ AfterFtruncate(f, truncated = "ok", unlinked)
                  /\ amount' = amount - taken
  BY DEF Truncate
<1>2. sized' \subseteq Files /\ index \subseteq Files /\ f \in Files /\ amount \in Int
  BY <1>1 DEF IInv, PoolTypes, EvictTypes
<1>3. EvictorInv'
  BY DEF IInv, EvictorInv, readers
<1>4. EvictTypes'
  <2>1. amount' \in Int
    BY <1>1, <1>2
  <2> QED
    BY <2>1 DEF IInv, EvictTypes
<1>5. CASE truncated = "again"
  <2>1. /\ stuck' = IF f \in open THEN stuck ELSE stuck \cup {f}
        /\ UNCHANGED <<index, open, size, totalUsed, isFull, media, amount>>
    BY <1>1, <1>5
  <2>2. Listed'
    BY <2>1 DEF IInv, PoolInv, Listed
  <2>3. PoolTypes' /\ PoolInv'
    BY <1>2, <2>1, <2>2 DEF IInv, PoolTypes, PoolInv, media
  <2>4. ReaderTypes' /\ \A r \in Readers : ReaderOK(r)'
    BY <2>1, TruncatedReaders DEF media
  <2> QED
    BY <1>3, <1>4, <2>3, <2>4 DEF IInv
<1>6. CASE truncated # "again"
  <2>1. PICK emptied \in BOOLEAN : AfterFtruncate(f, emptied, unlinked)
    BY <1>1, <1>6
  <2>2. Listed'
    BY <2>1, TruncatedList
  <2>3. PoolTypes' /\ PoolInv'
    BY <1>2, <2>1, <2>2, TruncatedPool
  <2>4. open' = open /\ \A g \in Files \ {f} : cached'[g] = cached[g]
    BY <2>1 DEF AfterFtruncate, IInv, PoolTypes
  <2>5. ReaderTypes' /\ \A r \in Readers : ReaderOK(r)'
    BY <2>4, TruncatedReaders
  <2> QED
    BY <1>3, <1>4, <2>3, <2>5 DEF IInv
<1> QED
  BY <1>5, <1>6

\* The least recent entry is truncated, waited for, or put first.
LEMMA EvictNextStep ==
    ASSUME IInv, EvictNext
    PROVE  IInv'
<1> DEFINE f == Last(lru)
<1>1. /\ evictor' = evictor /\ victim = NoOne /\ lru # << >>
      /\ lru' = IF f \in open THEN Access(lru, f) ELSE Drop(lru, f)
      /\ UNCHANGED readers
  BY DEF EvictNext
<1>2. /\ lru \in Seq(Files) /\ Listed /\ index \subseteq Files
      /\ size \in SizeMap /\ amount \in Int /\ open \subseteq index
      /\ captured \in 0..Length
  BY DEF IInv, PoolTypes, PoolInv, EvictTypes
<1>3. f \in index /\ f \in Files
  <2>1. Len(lru) \in 1..Len(lru)
    BY <1>1, <1>2
  <2> QED
    BY <1>2, <2>1, RangeFact DEF Last, Listed
<1> HIDE DEF f
<1>4. /\ lru' \in Seq(Files) /\ Once(lru') /\ Range(lru') \subseteq index
      /\ f \in open => Range(lru) \subseteq Range(lru')
      /\ f \notin open => Range(lru') = Range(lru) \ {f}
  <2>1. CASE f \in open
    BY <1>1, <1>2, <1>3, <2>1, AccessFact
  <2>2. CASE f \notin open
    <3>1. lru' \in Seq(Files) /\ Once(lru') /\ Range(lru') = Range(lru) \ {f}
      BY <1>1, <1>2, <2>2, DropFact DEF Listed
    <3> QED
      BY <1>2, <2>2, <3>1 DEF Listed
  <2> QED
    BY <2>1, <2>2
<1>5. ReadLocked(f) # {} => f \in open
  BY ReadingFact DEF ReadLocked, Reading
<1>6. size[f] \in 0..Length /\ size[f] \in Int
  BY <1>2, <1>3, CacheAssumption DEF SizeMap
<1>7. EvictorInv'
  BY <1>1 DEF IInv, EvictorInv, readers
<1>8. CASE /\ size[f] > 0 /\ ReadLocked(f) # {}
           /\ victim' = f /\ captured' = size[f]
           /\ UNCHANGED <<index, stuck, open, size, sized, totalUsed, isFull, media, amount>>
  <2>2. Listed'
    BY <1>2, <1>4, <1>5, <1>8 DEF Listed
  <2>3. PoolTypes' /\ EvictTypes'
    BY <1>1, <1>3, <1>4, <1>6, <1>8 DEF IInv, PoolTypes, EvictTypes, media
  <2>4. PoolInv'
    BY <1>3, <1>8, <2>2 DEF IInv, PoolInv, media
  <2>5. ReaderTypes' /\ \A r \in Readers : ReaderOK(r)'
    BY <1>1, <1>8, ReadersStay DEF readers, media
  <2> QED
    BY <1>7, <2>3, <2>4, <2>5 DEF IInv
<1>9. CASE /\ size[f] > 0 /\ ReadLocked(f) = {}
           /\ Truncate(f, size[f]) /\ UNCHANGED <<victim, captured>>
  <2>1. f \notin index' => f \notin open
    <3>1. \A emptied, unlinked : AfterFtruncate(f, emptied, unlinked) /\ f \in open
                                   => index' = index
      BY DEF AfterFtruncate
    <3> QED
      BY <1>3, <1>9, <3>1 DEF Truncate
  <2> QED
    BY <1>1, <1>2, <1>3, <1>4, <1>6, <1>9, <2>1, TruncateStep
<1>10. CASE size[f] = 0 /\ TurnOver(f) /\ UNCHANGED <<amount, victim, captured>>
  <2>1. EvictTypes'
    BY <1>1, <1>10 DEF IInv, EvictTypes
  <2>2. CASE f \in open
    <3>1. UNCHANGED <<index, stuck, open, size, sized, totalUsed, isFull, media>>
      BY <1>10, <2>2 DEF TurnOver
    <3>2. PoolTypes'
      BY <1>4, <3>1 DEF IInv, PoolTypes, media
    <3>3. Listed'
      BY <1>2, <1>4, <2>2, <3>1 DEF Listed
    <3>4. PoolInv'
      BY <1>10, <3>1, <3>3 DEF IInv, PoolInv, media
    <3>5. ReaderTypes' /\ \A r \in Readers : ReaderOK(r)'
      BY <1>1, <3>1, ReadersStay DEF readers, media
    <3> QED
      BY <1>7, <2>1, <3>2, <3>4, <3>5 DEF IInv
  <2>3. CASE f \notin open
    <3>1. PICK unlinked \in Endings :
            /\ AfterFtruncate(f, FALSE, unlinked)
            /\ sized' = IF unlinked = "again" THEN sized ELSE sized \ {f}
      BY <1>10, <2>3 DEF TurnOver
    <3>2. ReadLocked(f) = {} /\ victim' = NoOne /\ sized' \subseteq Files
      BY <1>1, <1>5, <1>10, <2>3, <3>1 DEF IInv, PoolTypes
    <3>3. PICK emptied \in BOOLEAN : AfterFtruncate(f, emptied, unlinked)
      BY <3>1
    <3>4. Listed'
      BY <1>3, <1>4, <2>3, <3>3, TruncatedList
    <3>5. PoolTypes' /\ PoolInv'
      BY <1>3, <1>4, <3>2, <3>3, <3>4, TruncatedPool
    <3>6. open' = open /\ \A g \in Files \ {f} : cached'[g] = cached[g]
      BY <3>3 DEF AfterFtruncate, IInv, PoolTypes
    <3>7. ReaderTypes' /\ \A r \in Readers : ReaderOK(r)'
      BY <1>1, <1>3, <3>2, <3>6, TruncatedReaders
    <3> QED
      BY <1>7, <2>1, <3>5, <3>7 DEF IInv
  <2> QED
    BY <2>2, <2>3
<1> QED
  BY <1>8, <1>9, <1>10 DEF EvictNext, f

\* The file that was waited for is truncated.
LEMMA EvictVictimStep ==
    ASSUME IInv, EvictVictim
    PROVE  IInv'
<1>1. PICK f : f = victim
  OBVIOUS
<1>2. /\ ReadLocked(f) = {} /\ f \in index /\ Truncate(f, captured)
      /\ lru' = IF f \in index' THEN lru ELSE Drop(lru, f)
      /\ victim' = NoOne /\ captured' = 0
      /\ evictor' = evictor /\ UNCHANGED readers
  BY <1>1 DEF EvictVictim, IInv, PoolInv
<1>3. lru \in Seq(Files) /\ Listed /\ captured \in Int /\ 0 \in 0..Length
  BY CacheAssumption DEF IInv, PoolTypes, PoolInv, EvictTypes
<1>4. /\ Drop(lru, f) \in Seq(Files) /\ Once(Drop(lru, f))
      /\ Range(Drop(lru, f)) = Range(lru) \ {f}
  BY <1>3, DropFact DEF Listed
<1>5. /\ lru' \in Seq(Files) /\ Once(lru') /\ Range(lru') \subseteq index
      /\ Range(lru) \ {f} \subseteq Range(lru') /\ (f \notin index' => f \notin Range(lru'))
  BY <1>2, <1>3, <1>4 DEF Listed
<1>6. f \in open => Range(lru) \subseteq Range(lru')
  <2>1. \A emptied, unlinked : AfterFtruncate(f, emptied, unlinked) /\ f \in open
                                 => index' = index
    BY DEF AfterFtruncate
  <2>2. f \in open => f \in index'
    BY <1>2, <2>1 DEF Truncate
  <2> QED
    BY <1>2, <2>2
<1> QED
  BY <1>2, <1>3, <1>5, <1>6, TruncateStep

\* An eviction ends.
LEMMA EvictEndStep ==
    ASSUME IInv, EvictEnd
    PROVE  IInv'
<1>1. /\ isFull' = FALSE /\ evictor' = NoOne /\ amount' = 0
      /\ UNCHANGED <<index, stuck, open, size, sized, lru, totalUsed, media, victim, captured,
                     rest, refill>>
      /\ IF evictor \in Readers THEN AfterRefill(evictor) ELSE UNCHANGED <<pc, req>>
  BY DEF EvictEnd
<1>2. PoolTypes' /\ EvictTypes' /\ PoolInv'
  <2>1. PoolTypes'
    BY <1>1 DEF IInv, PoolTypes, media
  <2>2. EvictTypes'
    BY <1>1 DEF IInv, EvictTypes
  <2>3. PoolInv'
    BY <1>1 DEF IInv, PoolInv, Listed, media
  <2> QED
    BY <2>1, <2>2, <2>3
<1>3. EvictorInv'
  BY <1>1, CacheAssumption DEF EvictorInv
<1>4. ReaderTypes' /\ \A r \in Readers : ReaderOK(r)'
  <2>1. CASE evictor \in Readers
    <3>1. PICK r \in Readers : r = evictor
      BY <2>1
    <3>2. pc[r] = "evict" /\ AfterRefill(r)
      BY <1>1, <2>1, <3>1 DEF IInv, EvictorInv
    <3>3. Reading(r) /\ ReaderTypes
      BY <3>2, ReadingFact DEF IInv
    <3>4. ReaderTypes' /\ Others(r) /\ ReaderOK(r)'
      BY <1>1, <3>2, <3>3, AfterRefillFact
    <3>5. \A q \in Readers : ReaderOK(q)'
      BY <1>1, <3>4, OthersOK DEF media
    <3> QED
      BY <3>4, <3>5
  <2>2. CASE evictor \notin Readers
    BY <1>1, <2>2, ReadersStay DEF media
  <2> QED
    BY <2>1, <2>2
<1> QED
  BY <1>2, <1>3, <1>4 DEF IInv

\* The service is restarted.
LEMMA RestartStep ==
    ASSUME IInv, Restart
    PROVE  IInv'
<1>1. /\ open' = {} /\ sized' = {} /\ isFull' = FALSE
      /\ size' = [f \in Files |-> Cardinality(cached[f])]
      /\ totalUsed' = SumOf(size', stored) /\ lru' \in SetToSeqs(stored)
      /\ index' = stored /\ stuck' = {}
      /\ evictor' = NoOne /\ amount' = 0 /\ victim' = NoOne /\ captured' = 0
      /\ pc' = [r \in Readers |-> "idle"] /\ req' = [r \in Readers |-> Idle]
      /\ rest' = [r \in Readers |-> NoRange] /\ refill' = [r \in Readers |-> NoRange]
      /\ UNCHANGED media
  BY DEF Restart
<1>2. stored \subseteq Files /\ IsFiniteSet(stored) /\ cached \in [Files -> SUBSET Pages]
  BY DEF IInv, PoolTypes, PoolInv
<1>3. \A f \in Files : Cardinality(cached[f]) \in 0..Length
  BY <1>2, PagesFact
<1>4. /\ size' \in SizeMap /\ \A f \in Files : size'[f] = Cardinality(cached[f])
  BY <1>1, <1>3 DEF SizeMap
<1>5. SumOf(size', stored) \in Nat
  BY <1>2, CountedFinite
<1>6. lru' \in Seq(Files) /\ Listed'
  <2>1. lru' \in Seq(Files) /\ Once(lru') /\ Range(lru') = stored
    BY <1>1, <1>2, WalkFact
  <2> QED
    BY <1>1, <2>1 DEF Listed
<1>7. PoolTypes'
  BY <1>1, <1>2, <1>4, <1>5, <1>6 DEF IInv, PoolTypes, media
<1>8. \A f \in Files : size'[f] <= Cardinality(cached'[f])
  BY <1>1, <1>3, <1>4, CacheAssumption DEF media
<1>13. \A f \in Files \ stored : cached[f] = {} /\ size'[f] = 0
  BY <1>4, FS_EmptySet DEF IInv, PoolInv
<1>9. PoolInv'
  BY <1>1, <1>2, <1>6, <1>8, <1>13 DEF PoolInv, media
<1>10. NoRange \in Positions /\ Idle \in Request /\ Idle.result = "none"
  BY DEF NoRange, Idle, Positions, Request, Span
<1>11. ReaderTypes' /\ \A r \in Readers : ReaderOK(r)'
  BY <1>1, <1>10 DEF ReaderTypes, ReaderOK, Labels
<1>12. EvictTypes' /\ EvictorInv'
  BY <1>1, CacheAssumption DEF EvictTypes, EvictorInv
<1> QED
  BY <1>7, <1>9, <1>11, <1>12 DEF IInv

-----------------------------------------------------------------------------
(* The inductive invariant and what follows from it                        *)

\* The empty cache satisfies the invariant.
LEMMA InitInv ==
    ASSUME Init
    PROVE  IInv
<1>1. 0 \in 0..Length /\ Cardinality({}) = 0 /\ IsFiniteSet({})
  BY CacheAssumption, FS_EmptySet
<1>2. SumOf(size, {}) = 0
  <2>1. {p \in {} \X (1..Length) : p[2] <= size[p[1]]} = {}
    OBVIOUS
  <2> QED
    BY <1>1, <2>1 DEF SumOf
<1>3. NoRange \in Positions /\ Idle \in Request /\ Idle.result = "none"
  BY DEF NoRange, Idle, Positions, Request, Span
<1>4. << >> \in Seq(Files) /\ Range(<< >>) = {} /\ Once(<< >>)
  BY DEF Range, Once
<1>5. PoolTypes /\ EvictTypes
  <2>1. size \in SizeMap /\ cached \in [Files -> SUBSET Pages]
    BY <1>1 DEF Init, SizeMap
  <2>2. PoolTypes
    BY <1>4, <2>1 DEF Init, PoolTypes
  <2>3. EvictTypes
    BY <1>1 DEF Init, EvictTypes
  <2> QED
    BY <2>2, <2>3
<1>6. PoolInv
  BY <1>1, <1>2, <1>4 DEF Init, PoolInv, Listed
<1>7. ReaderTypes /\ EvictorInv /\ \A r \in Readers : ReaderOK(r)
  BY <1>3, CacheAssumption DEF Init, ReaderTypes, EvictorInv, ReaderOK, Labels
<1> QED
  BY <1>5, <1>6, <1>7 DEF IInv

\* Every step keeps the invariant.
LEMMA NextInv ==
    ASSUME IInv, [Next]_vars
    PROVE  IInv'
<1>1. ASSUME NEW f \in Files, Open(f) \/ Close(f) PROVE IInv'
  BY <1>1, OpenStep, CloseStep
<1>2. ASSUME NEW r \in Readers, NEW q \in Requests, Begin(r, q[1], <<q[2], q[3]>>)
      PROVE  IInv'
  BY <1>2, BeginStep
<1>3. ASSUME NEW r \in Readers, Step(r) PROVE IInv'
  BY <1>3, TryStep, ReadStep, ReturnStep, LockRangeStep, FetchStep, SkipStoreStep, StoreStep,
     PWriteStep
  DEF Step
<1>4. ASSUME NEW r \in Readers, Fails(r) PROVE IInv'
  BY <1>4, FailingStep, SourceFailsStep, PWriteStep DEF Fails
<1>5. CASE Timer \/ Eviction \/ Restart
  BY <1>5, TimerStep, EvictNextStep, EvictVictimStep, EvictEndStep, RestartStep DEF Eviction
<1>6. CASE UNCHANGED vars
  <2>1. PoolTypes' /\ EvictTypes' /\ PoolInv' /\ EvictorInv'
    BY <1>6
    DEF IInv, PoolTypes, EvictTypes, PoolInv, Listed, EvictorInv, vars, pool, media, evict,
        readers
  <2>2. ReaderTypes' /\ \A r \in Readers : ReaderOK(r)'
    BY <1>6, ReadersStay DEF vars, pool, media, readers
  <2> QED
    BY <2>1, <2>2 DEF IInv
<1> QED
  BY <1>1, <1>2, <1>3, <1>4, <1>5, <1>6 DEF Next

\* Every behaviour of the cache satisfies the inductive invariant.
THEOREM Invariance == Spec => []IInv
  BY InitInv, NextInv, PTL DEF Spec

\* The variables keep their types: no entry is larger than its file, and the
\* total never drops below zero.
THEOREM TypeCorrect == Spec => []TypeOK
<1>1. IInv => TypeOK
  BY DEF IInv, PoolTypes, EvictTypes, ReaderTypes, TypeOK, SizeMap, Labels
<1> QED
  BY <1>1, Invariance, PTL

\* A read that succeeds returned the source's data on every page: queries,
\* refills and reads of the media file hold rw_lock_ or the range lock where
\* it matters, whatever eviction, full disks and restarts do in between.
THEOREM ReadsTheSource == Spec => []ReadsAreSource
<1>1. IInv => ReadsAreSource
  <2> SUFFICES ASSUME IInv, NEW r \in Readers, req[r].result = "ok"
               PROVE  req[r].got = Span(req[r].asked)
    BY DEF ReadsAreSource
  <2>1. ReaderOK(r)
    BY DEF IInv
  <2> QED
    BY <2>1 DEF ReaderOK, Reading
<1> QED
  BY <1>1, Invariance, PTL

\* totalUsed_ is the sum of the entries' sizes after any interleaving of
\* writes with an eviction that waits for a file's lock.
THEOREM SpaceAccounted == Spec => []Accounting
<1>1. IInv => Accounting
  BY DEF IInv, PoolInv, Accounting
<1> QED
  BY <1>1, Invariance, PTL

\* Nobody holds an erased iterator: open stores and the victim of the running
\* eviction have their entries, and each entry is on the LRU list once but for
\* those an interrupted truncate or a busy unlink left off it.
THEOREM NobodyDangles == Spec => []NoDangling
<1>1. IInv => NoDangling
  <2> SUFFICES ASSUME IInv PROVE NoDangling
    OBVIOUS
  <2>1. lru \in Seq(Files) /\ Listed
    BY DEF IInv, PoolTypes, PoolInv
  <2>2. Len(lru) = Cardinality(Range(lru))
    BY <2>1, ListLength DEF Listed
  <2> QED
    BY <2>1, <2>2 DEF IInv, PoolInv, NoDangling, Listed
<1> QED
  BY <1>1, Invariance, PTL
=============================================================================
