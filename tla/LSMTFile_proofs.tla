-------------------------- MODULE LSMTFile_proofs --------------------------
(***************************************************************************)
(* Proofs about LSMTFile and the operations of Index0, for any number of   *)
(* threads, any size of the disk and logs of any length: a file that was   *)
(* closed or whose server died can be opened, and then nothing that was    *)
(* acknowledged is lost; reads that take no lock return what the sectors   *)
(* held while they ran; the group buffer is not overrun; and an insert,    *)
(* a lookup and the replay of a log do to the index what they should.      *)
(***************************************************************************)
EXTENDS LSMTFile, FiniteSetTheorems, SequenceTheorems, TLAPS

-----------------------------------------------------------------------------
(* Index0::insert() *)

Positive(ms) == \A x \in ms : x.length > 0
Fields == [offset : Nat, length : Nat, moffset : Nat, zeroed : BOOLEAN, tag : Nat]

\* A piece of p: it covers only sectors of p, at the same places.
PieceOf(x, p) ==
  /\ x \in Fields /\ x.length > 0 /\ p.offset <= x.offset /\ End(x) <= End(p)
  /\ x.zeroed = p.zeroed /\ x.tag = p.tag
  /\ x.moffset = IF p.zeroed THEN p.moffset ELSE p.moffset + (x.offset - p.offset)

LEMMA Trims ==
  ASSUME NEW p \in Fields, NEW x \in Nat, p.offset < x, x < End(p)
  PROVE  /\ PieceOf(BackwardEndTo(p, x), p) /\ End(BackwardEndTo(p, x)) = x
         /\ BackwardEndTo(p, x).offset = p.offset
         /\ PieceOf(ForwardOffsetTo(p, x), p) /\ ForwardOffsetTo(p, x).offset = x
         /\ End(ForwardOffsetTo(p, x)) = End(p)
<1> DEFINE b == BackwardEndTo(p, x)
           f == ForwardOffsetTo(p, x)
<1>0. p.offset \in Nat /\ p.length \in Nat /\ p.moffset \in Nat
  BY DEF Fields
<1>1. /\ b \in Fields /\ b.offset = p.offset /\ b.length = x - p.offset
      /\ b.moffset = p.moffset /\ b.zeroed = p.zeroed /\ b.tag = p.tag
  BY <1>0 DEF BackwardEndTo, Fields, End
<1> DEFINE len == p.length - (x - p.offset)
           mof == IF p.zeroed THEN p.moffset ELSE p.moffset + (x - p.offset)
<1>a. len \in Nat /\ mof \in Nat
  BY <1>0 DEF End
<1>b. f = [p EXCEPT !.offset = x, !.length = len, !.moffset = mof]
  BY DEF ForwardOffsetTo
<1>c. mof = (IF p.zeroed THEN p.moffset ELSE p.moffset + (x - p.offset)) /\ len > 0
      /\ len = p.length - (x - p.offset)
  BY <1>0 DEF End
<1> HIDE DEF len, mof, f
<1>2. /\ f \in Fields /\ f.offset = x /\ f.length = len /\ f.moffset = mof
      /\ f.zeroed = p.zeroed /\ f.tag = p.tag
  BY <1>a, <1>b DEF Fields
<1> HIDE DEF b
<1>4. PieceOf(b, p) /\ End(b) = x
  BY <1>0, <1>1 DEF PieceOf, End
<1>5. PieceOf(f, p) /\ End(f) = End(p)
  BY <1>0, <1>2, <1>c DEF PieceOf, End
<1> QED
  BY <1>1, <1>2, <1>4, <1>5 DEF b, f

\* What insert() leaves of a mapping p of the index.
EdgeOf(ms, m) == FirstOf(NotBefore(ms, m)) \union LastOf(ms, m)
LeftOf(ms, m, p) ==
  IF p \in EdgeOf(ms, m) THEN PartialOverlap(p, m)
  ELSE IF p \in Middle(ms, m) THEN {} ELSE {p}

\* insert() puts the new mapping beside what it leaves of each old one.
LEMMA InsertIsLeft ==
  ASSUME NEW ms, NEW m, m.length # 0
  PROVE  Insert(ms, m) = (UNION {LeftOf(ms, m, p) : p \in ms}) \union {m}
<1> DEFINE edge == EdgeOf(ms, m)
           mid == Middle(ms, m)
           cut(p) == PartialOverlap(p, m)
<1>1. Insert(ms, m) = (ms \ (edge \union mid)) \union (UNION {cut(p) : p \in edge}) \union {m}
  <2>1. Insert(ms, m) = IF m.length = 0 THEN ms
                        ELSE (ms \ (EdgeOf(ms, m) \union Middle(ms, m)))
                               \union (UNION {PartialOverlap(p, m) : p \in EdgeOf(ms, m)})
                               \union {m}
    BY DEF Insert, EdgeOf
  <2> QED
    BY <2>1
<1>2. edge \subseteq ms /\ mid \subseteq ms
  BY DEF EdgeOf, FirstOf, LastOf, Middle, NotBefore
<1>3. \A p : LeftOf(ms, m, p) = IF p \in edge THEN cut(p) ELSE IF p \in mid THEN {} ELSE {p}
  BY DEF LeftOf
<1> HIDE DEF edge, mid, cut
<1>4. ASSUME NEW x
      PROVE  x \in UNION {LeftOf(ms, m, p) : p \in ms} <=>
               x \in (ms \ (edge \union mid)) \union (UNION {cut(p) : p \in edge})
  <2>1. x \in UNION {LeftOf(ms, m, p) : p \in ms} <=> \E p \in ms : x \in LeftOf(ms, m, p)
    OBVIOUS
  <2>2. x \in UNION {cut(p) : p \in edge} <=> \E p \in edge : x \in cut(p)
    OBVIOUS
  <2>3. ASSUME NEW p \in ms, x \in LeftOf(ms, m, p)
        PROVE  x \in ms \ (edge \union mid) \/ \E q \in edge : x \in cut(q)
    BY <2>3, <1>3
  <2>4. ASSUME x \in ms \ (edge \union mid)
        PROVE  x \in LeftOf(ms, m, x)
    BY <2>4, <1>3
  <2>5. ASSUME NEW p \in edge, x \in cut(p)
        PROVE  p \in ms /\ x \in LeftOf(ms, m, p)
    BY <2>5, <1>2, <1>3
  <2> QED
    BY <2>1, <2>2, <2>3, <2>4, <2>5
<1> QED
  BY <1>1, <1>4

\* remove_partial_overlap() on a mapping that ends behind the begin of the new one.
LEMMA Cut ==
  ASSUME NEW p \in Fields, NEW m \in Fields, p.length > 0, m.length > 0, End(p) > m.offset
  PROVE  /\ \A x \in PartialOverlap(p, m) : PieceOf(x, p) /\ ~Overlap(x, m)
         /\ \A x, y \in PartialOverlap(p, m) : x = y \/ ~Overlap(x, y)
         /\ \A s \in Nat : (Covers(p, s) /\ ~Covers(m, s)) =>
                             \E x \in PartialOverlap(p, m) : Covers(x, s)
<1> DEFINE b == BackwardEndTo(p, m.offset)
           f == ForwardOffsetTo(p, End(m))
<1>0. /\ p.offset \in Nat /\ p.length \in Nat /\ m.offset \in Nat /\ m.length \in Nat
      /\ End(m) \in Nat /\ End(m) > m.offset /\ End(p) \in Nat /\ p.offset < End(p)
  BY DEF Fields, End
<1>a. p.moffset \in Nat
  BY DEF Fields
<1>1. ASSUME p.offset < m.offset
      PROVE  PieceOf(b, p) /\ End(b) = m.offset /\ b.offset = p.offset
  BY <1>0, <1>1, Trims
<1>2. ASSUME p.offset < End(m), End(m) < End(p)
      PROVE  PieceOf(f, p) /\ f.offset = End(m) /\ End(f) = End(p)
  BY <1>0, <1>2, Trims
<1>3. PieceOf(p, p)
  BY <1>0, <1>a DEF PieceOf
<1>4. PartialOverlap(p, m) =
        IF p.offset < m.offset THEN IF End(p) <= End(m) THEN {b} ELSE {b, f}
        ELSE IF p.offset >= End(m) THEN {p}
        ELSE IF End(p) <= End(m) THEN {} ELSE {f}
  BY DEF PartialOverlap
<1> HIDE DEF b, f
<1>5. CASE p.offset < m.offset /\ End(p) <= End(m)
  <2>1. PartialOverlap(p, m) = {b} /\ b.offset = p.offset /\ End(b) = m.offset /\ PieceOf(b, p)
    BY <1>4, <1>5, <1>1
  <2> QED
    BY <2>1, <1>0, <1>5 DEF Overlap, Covers
<1>6. CASE p.offset < m.offset /\ End(p) > End(m)
  <2>1. PartialOverlap(p, m) = {b, f}
    BY <1>4, <1>6, <1>0
  <2>2. b.offset = p.offset /\ End(b) = m.offset /\ PieceOf(b, p)
    BY <1>6, <1>1
  <2>3. f.offset = End(m) /\ End(f) = End(p) /\ PieceOf(f, p)
    BY <1>6, <1>2, <1>0
  <2> QED
    BY <2>1, <2>2, <2>3, <1>0, <1>6 DEF Overlap, Covers
<1>7. CASE p.offset >= m.offset /\ p.offset >= End(m)
  <2>1. PartialOverlap(p, m) = {p}
    BY <1>4, <1>7, <1>0
  <2> QED
    BY <2>1, <1>3, <1>0, <1>7 DEF Overlap, Covers
<1>8. CASE p.offset >= m.offset /\ p.offset < End(m) /\ End(p) <= End(m)
  <2>1. PartialOverlap(p, m) = {}
    BY <1>4, <1>8, <1>0
  <2> QED
    BY <2>1, <1>0, <1>8 DEF Overlap, Covers
<1>9. CASE p.offset >= m.offset /\ p.offset < End(m) /\ End(p) > End(m)
  <2>1. PartialOverlap(p, m) = {f}
    BY <1>4, <1>9, <1>0
  <2>2. f.offset = End(m) /\ End(f) = End(p) /\ PieceOf(f, p)
    BY <1>9, <1>2, <1>0
  <2> QED
    BY <2>1, <2>2, <1>0, <1>9 DEF Overlap, Covers
<1> QED
  BY <1>5, <1>6, <1>7, <1>8, <1>9, <1>0

\* Of each mapping insert() leaves pieces beside the new one, and all its sectors
\* that the new one does not cover.
LEMMA LeftBeside ==
  ASSUME NEW ms \in SUBSET Fields, NEW m \in Fields, m.length > 0, Positive(ms), Disjoint(ms),
         NEW p \in ms
  PROVE  /\ \A x \in LeftOf(ms, m, p) : PieceOf(x, p) /\ ~Overlap(x, m)
         /\ \A x, y \in LeftOf(ms, m, p) : x = y \/ ~Overlap(x, y)
         /\ \A s \in Nat : (Covers(p, s) /\ ~Covers(m, s)) =>
                             \E x \in LeftOf(ms, m, p) : Covers(x, s)
<1> DEFINE near == NotBefore(ms, m)
<1>0. /\ p \in Fields /\ p.length > 0 /\ p.offset \in Nat /\ p.length \in Nat /\ p.moffset \in Nat
      /\ m.offset \in Nat /\ m.length \in Nat /\ End(p) \in Nat /\ End(m) \in Nat
      /\ End(p) = p.offset + p.length /\ End(m) = m.offset + m.length
  BY DEF Positive, Fields, End
<1>1. CASE p \in EdgeOf(ms, m)
  <2>1. End(p) > m.offset
    BY <1>1 DEF EdgeOf, FirstOf, LastOf, NotBefore
  <2>2. LeftOf(ms, m, p) = PartialOverlap(p, m)
    BY <1>1 DEF LeftOf
  <2> QED
    BY <2>1, <2>2, <1>0, Cut
<1>2. CASE p \notin EdgeOf(ms, m) /\ p \in Middle(ms, m)
  <2>1. LeftOf(ms, m, p) = {}
    BY <1>2 DEF LeftOf
  <2>2. p \in near /\ p \notin FirstOf(near) /\ End(p) <= End(m)
    BY <1>2 DEF Middle
  <2>3. PICK q \in near : ~(p.offset <= q.offset)
    BY <2>2 DEF FirstOf
  <2>4. q \in ms /\ End(q) > m.offset /\ q \in Fields /\ q.length > 0
    BY <2>3 DEF NotBefore, Positive
  <2>5. q.offset \in Nat /\ q.length \in Nat /\ End(q) = q.offset + q.length
    BY <2>4 DEF Fields, End
  <2>6. ~Overlap(p, q)
    BY <2>3, <2>4, <2>5, <1>0 DEF Disjoint
  <2>7. p.offset > m.offset
    BY <2>3, <2>4, <2>5, <2>6, <1>0 DEF Overlap
  <2> QED
    BY <2>1, <2>2, <2>7, <1>0 DEF Covers
<1>3. CASE p \notin EdgeOf(ms, m) /\ p \notin Middle(ms, m)
  <2>1. LeftOf(ms, m, p) = {p}
    BY <1>3 DEF LeftOf
  <2>2. PieceOf(p, p)
    BY <1>0 DEF PieceOf
  <2>3. ~Overlap(p, m)
    <3>1. CASE p \notin near
      BY <3>1, <1>0 DEF NotBefore, Overlap
    <3>2. CASE p \in near
      <4>1. p \notin FirstOf(near) /\ ~(End(p) <= End(m)) /\ ~(p.offset < End(m) /\ End(p) > End(m))
        BY <1>3, <3>2 DEF EdgeOf, LastOf, Middle
      <4> QED
        BY <4>1, <1>0 DEF Overlap
    <3> QED
      BY <3>1, <3>2
  <2> QED
    BY <2>1, <2>2, <2>3
<1> QED
  BY <1>1, <1>2, <1>3

\* Index0::insert() keeps the mappings of the index disjoint and non-empty: the
\* order of its std::set stays that of the disk.
THEOREM InsertDisjoint ==
  ASSUME NEW ms \in SUBSET Fields, NEW m \in Fields, m.length > 0, Positive(ms), Disjoint(ms)
  PROVE  Insert(ms, m) \in SUBSET Fields /\ Positive(Insert(ms, m)) /\ Disjoint(Insert(ms, m))
<1>1. \A x \in Insert(ms, m) : x = m \/ \E p \in ms : x \in LeftOf(ms, m, p)
  BY InsertIsLeft
<1>2. \A p \in ms : \A x \in LeftOf(ms, m, p) : PieceOf(x, p) /\ ~Overlap(x, m)
  BY LeftBeside
<1>3. \A x \in Insert(ms, m) : x \in Fields /\ x.length > 0
  BY <1>1, <1>2 DEF PieceOf
<1>4. ASSUME NEW x \in Insert(ms, m), NEW y \in Insert(ms, m), x # y
      PROVE  ~Overlap(x, y)
  <2>1. CASE x = m
    <3>1. \E p \in ms : y \in LeftOf(ms, m, p)
      BY <1>1, <1>4, <2>1
    <3> QED
      BY <3>1, <1>2, <2>1 DEF Overlap
  <2>2. CASE y = m
    <3>1. \E p \in ms : x \in LeftOf(ms, m, p)
      BY <1>1, <1>4, <2>2
    <3> QED
      BY <3>1, <1>2, <2>2 DEF Overlap
  <2>3. CASE x # m /\ y # m
    <3>1. PICK p \in ms : x \in LeftOf(ms, m, p)
      BY <1>1, <2>3
    <3>2. PICK q \in ms : y \in LeftOf(ms, m, q)
      BY <1>1, <2>3
    <3>3. CASE p = q
      BY <3>1, <3>2, <3>3, <1>4, LeftBeside
    <3>4. CASE p # q
      <4>1. PieceOf(x, p) /\ PieceOf(y, q)
        BY <3>1, <3>2, <1>2
      <4>2. ~Overlap(p, q)
        BY <3>4 DEF Disjoint
      <4>3. /\ p.offset \in Nat /\ p.length \in Nat /\ q.offset \in Nat /\ q.length \in Nat
            /\ x.offset \in Nat /\ x.length \in Nat /\ y.offset \in Nat /\ y.length \in Nat
        BY <1>3 DEF Fields
      <4> QED
        BY <4>1, <4>2, <4>3 DEF PieceOf, Overlap, End
    <3> QED
      BY <3>3, <3>4
  <2> QED
    BY <2>1, <2>2, <2>3
<1> QED
  BY <1>3, <1>4 DEF Positive, Disjoint

\* Where a sector is read from, by each mapping that covers it.
Place(x, s) == <<x.zeroed, x.tag, IF x.zeroed THEN 0 ELSE x.moffset + (s - x.offset)>>
Places(ms, s) == {Place(x, s) : x \in {y \in ms : Covers(y, s)}}

\* A piece reads its sectors where the whole mapping did.
LEMMA SamePlace ==
  ASSUME NEW p \in Fields, NEW x, PieceOf(x, p), NEW s \in Nat, Covers(x, s)
  PROVE  Covers(p, s) /\ Place(x, s) = Place(p, s)
<1>1. /\ p.offset \in Nat /\ p.length \in Nat /\ p.moffset \in Nat
      /\ x.offset \in Nat /\ x.length \in Nat /\ x.moffset \in Nat
  BY DEF PieceOf, Fields
<1>2. Covers(p, s)
  BY <1>1 DEF PieceOf, Covers, End
<1>3. x.zeroed = p.zeroed /\ x.tag = p.tag
  BY DEF PieceOf
<1>4. ASSUME ~p.zeroed
      PROVE  x.moffset + (s - x.offset) = p.moffset + (s - p.offset)
  BY <1>1, <1>4 DEF PieceOf
<1> QED
  BY <1>2, <1>3, <1>4 DEF Place

\* After Index0::insert() a sector of the new mapping is read where that one says,
\* and every other sector is read where it was before.
THEOREM InsertReads ==
  ASSUME NEW ms \in SUBSET Fields, NEW m \in Fields, m.length > 0, Positive(ms), Disjoint(ms),
         NEW s \in Nat
  PROVE  Places(Insert(ms, m), s) =
           IF Covers(m, s) THEN {Place(m, s)} ELSE Places(ms, s)
<1>0. /\ m \in Insert(ms, m)
      /\ \A x \in Insert(ms, m) : x = m \/ \E p \in ms : x \in LeftOf(ms, m, p)
      /\ \A p \in ms : LeftOf(ms, m, p) \subseteq Insert(ms, m)
  BY InsertIsLeft
<1>1. CASE Covers(m, s)
  <2>1. ASSUME NEW x \in Insert(ms, m), Covers(x, s)
        PROVE  x = m
    <3>1. x \in Fields
      BY InsertDisjoint
    <3>2. Overlap(x, m)
      <4>1. x.offset \in Nat /\ x.length \in Nat /\ m.offset \in Nat /\ m.length \in Nat
        BY <3>1 DEF Fields
      <4> QED
        BY <4>1, <1>1, <2>1 DEF Covers, Overlap, End
    <3> QED
      BY <3>2, <1>0, InsertDisjoint DEF Disjoint
  <2>2. {y \in Insert(ms, m) : Covers(y, s)} = {m}
    BY <2>1, <1>1, <1>0
  <2> QED
    BY <2>2, <1>1 DEF Places
<1>2. CASE ~Covers(m, s)
  <2>1. ASSUME NEW x \in Insert(ms, m), Covers(x, s)
        PROVE  \E p \in ms : Covers(p, s) /\ Place(x, s) = Place(p, s)
    <3>1. PICK p \in ms : x \in LeftOf(ms, m, p)
      BY <1>0, <1>2, <2>1
    <3>2. PieceOf(x, p) /\ p \in Fields
      BY <3>1, LeftBeside
    <3> QED
      BY <3>2, <2>1, SamePlace
  <2>2. ASSUME NEW p \in ms, Covers(p, s)
        PROVE  \E x \in Insert(ms, m) : Covers(x, s) /\ Place(x, s) = Place(p, s)
    <3>1. PICK x \in LeftOf(ms, m, p) : Covers(x, s)
      BY <2>2, <1>2, LeftBeside
    <3>2. PieceOf(x, p) /\ p \in Fields /\ x \in Insert(ms, m)
      BY <3>1, <1>0, LeftBeside
    <3> QED
      BY <3>1, <3>2, SamePlace
  <2>3. ASSUME NEW v
        PROVE  v \in Places(Insert(ms, m), s) <=> v \in Places(ms, s)
    BY <2>1, <2>2 DEF Places
  <2> QED
    BY <2>3, <1>2
<1> QED
  BY <1>1, <1>2

-----------------------------------------------------------------------------
(* The invariant *)

\* Mappings a request may have, and what the log may hold.
Requests == {x \in Fields : x.length > 0 /\ End(x) <= NSectors}
Logged == Requests \union {Invalid}
Cells == Nat \X Nat

InIndex == {"index", "log", "flush"}
Changing == {"append"} \union InIndex

\* What the state of a thread says of its request.
OpOK(r) ==
  \/ r = Idle
  \/ /\ r.step \in Changing /\ {"step", "m", "id"} \subseteq DOMAIN r
     /\ r.m \in Requests /\ r.id \in Nat
  \/ r.step = "regroup" /\ r.size \in GroupSizes
  \/ r.step \in {"fsync", "fsync_data", "fsync_index"} /\ "step" \in DOMAIN r
  \/ r.step = "read" /\ {"step", "got", "batch", "left"} \subseteq DOMAIN r
  \/ r.step = "misread" /\ "step" \in DOMAIN r

Shapes == DOMAIN op = Threads /\ \A t \in Threads : OpOK(op[t])

Types ==
  /\ data \in Seq(Cells) /\ findex \in Seq(Logged) /\ stacked \in Seq(Logged)
  /\ queue \in Seq(Threads)
  /\ nops \in Nat /\ group \in Nat /\ data_synced \in Nat /\ findex_synced \in Nat

\* A file that is not open has nothing in memory.
Quiet ==
  state # "open" =>
    /\ \A t \in Threads : op[t] = Idle
    /\ stacked = << >> /\ group = 0 /\ queue = << >>

\* The data of a mapping lies in a data file of n sectors.
Backed(x, n) == x # Invalid => Within(x, HeaderSectors, HeaderSectors + n)

\* The data of every mapping on its way to the log is in the data file.
DataFirst ==
  state \in {"open", "down"} =>
    /\ \A i \in 1..Len(findex) : Backed(findex[i], Len(data))
    /\ \A i \in 1..Len(stacked) : Backed(stacked[i], Len(data))
    /\ \A t \in Threads : op[t].step \in InIndex => Backed(op[t].m, Len(data))

\* A thread that writes to the log holds the mutex.
Holding == {"log", "flush"}
Holder == \A t \in Threads : op[t].step \in Holding => Locked(t)

IInv == Shapes /\ Types /\ Quiet /\ DataFirst /\ Holder

\* A new file satisfies the invariant.
LEMMA InitOK == Init => IInv
<1> SUFFICES ASSUME Init PROVE IInv
  OBVIOUS
<1>1. Shapes
  BY DEF Init, Shapes, OpOK
<1>2. Types
  BY DEF Init, Types
<1>3. Quiet
  BY DEF Init, Quiet
<1>4. DataFirst
  BY DEF Init, DataFirst, Idle, InIndex
<1>5. Holder
  BY DEF Init, Holder, Idle, Holding
<1> QED
  BY <1>1, <1>2, <1>3, <1>4, <1>5 DEF IInv

-----------------------------------------------------------------------------
(* What an action does to the state *)

\* Only thread t moved.
Others(t) == DOMAIN op' = Threads /\ \A u \in Threads \ {t} : op'[u] = op[u]

\* The mappings an action of t may put into the buffer or the log.
Known(t, x) ==
  \/ x = Invalid
  \/ \E j \in 1..Len(findex) : x = findex[j]
  \/ \E j \in 1..Len(stacked) : x = stacked[j]
  \/ op[t].step \in InIndex /\ x = op[t].m

\* What an action of t may do to m_rw_mtx.
MutexStep(t) ==
  \/ /\ queue' = queue \/ queue' = Append(queue, t)
     /\ op'[t].step \in Holding => Locked(t)
  \/ Locked(t) /\ queue' = Tail(queue) /\ op'[t].step \notin Holding

Moves(t) ==
  /\ state = "open" /\ state' = "open" /\ Others(t) /\ OpOK(op'[t])
  /\ findex' \in Seq(Logged) /\ \A i \in 1..Len(findex') : Known(t, findex'[i])
  /\ stacked' \in Seq(Logged) /\ \A i \in 1..Len(stacked') : Known(t, stacked'[i])
  /\ data' \in Seq(Cells) /\ Len(data) <= Len(data')
  /\ op'[t].step \in InIndex =>
       \/ op[t].step \in InIndex /\ op'[t].m = op[t].m
       \/ Backed(op'[t].m, Len(data'))
  /\ MutexStep(t) /\ nops' \in Nat /\ group' \in Nat
  /\ data_synced' \in Nat /\ findex_synced' \in Nat

\* The data of a mapping stays in a data file that grows.
LEMMA BackedMore ==
  ASSUME NEW x \in Logged, NEW n \in Nat, NEW k \in Nat, n <= k, Backed(x, n)
  PROVE  Backed(x, k)
<1>1. CASE x = Invalid
  BY <1>1 DEF Backed
<1>2. CASE x \in Requests
  <2>1. x.moffset \in Nat /\ x.length \in Nat
    BY <1>2 DEF Requests, Fields
  <2> QED
    BY <2>1 DEF Backed, Within, Mend, HeaderSectors
<1> QED
  BY <1>1, <1>2 DEF Logged

\* A thread whose step is a Moves step keeps the invariant.
LEMMA MovesOK ==
  ASSUME IInv, NEW t \in Threads, Moves(t)
  PROVE  IInv'
<1>1. Shapes'
  BY DEF IInv, Shapes, Moves, Others
<1>q. queue' \in Seq(Threads)
  <2>1. queue \in Seq(Threads)
    BY DEF IInv, Types
  <2>2. CASE queue' = queue \/ queue' = Append(queue, t)
    BY <2>1, <2>2
  <2>3. CASE queue # << >> /\ queue' = Tail(queue)
    BY <2>1, <2>3
  <2> QED
    BY <2>2, <2>3 DEF Moves, MutexStep, Locked
<1>2. Types'
  BY <1>q DEF Types, Moves
<1>3. Quiet'
  BY DEF Quiet, Moves
<1>4. DataFirst'
  <2> DEFINE n == Len(data)
             k == Len(data')
  <2>0. n \in Nat /\ k \in Nat /\ n <= k
    BY DEF IInv, Types, Moves
  <2>1. /\ \A i \in 1..Len(findex) : findex[i] \in Logged /\ Backed(findex[i], n)
        /\ \A i \in 1..Len(stacked) : stacked[i] \in Logged /\ Backed(stacked[i], n)
    BY DEF IInv, Types, DataFirst, Moves
  <2>2. ASSUME NEW u \in Threads, op[u].step \in InIndex
        PROVE  op[u].m \in Logged /\ Backed(op[u].m, n)
    <3>1. OpOK(op[u]) /\ Backed(op[u].m, n)
      BY <2>2 DEF IInv, Shapes, DataFirst, Moves
    <3>2. op[u].m \in Requests
      BY <3>1, <2>2 DEF OpOK, Idle, InIndex, Changing
    <3> QED
      BY <3>1, <3>2 DEF Logged
  <2> HIDE DEF n, k
  <2>3. ASSUME NEW x, Known(t, x)
        PROVE  Backed(x, k)
    <3>1. CASE x = Invalid
      BY <3>1 DEF Backed
    <3>2. CASE x # Invalid
      <4>1. x \in Logged /\ Backed(x, n)
        BY <3>2, <2>1, <2>2, <2>3 DEF Known
      <4> QED
        BY <4>1, <2>0, BackedMore
    <3> QED
      BY <3>1, <3>2
  <2>4. \A i \in 1..Len(findex') : Backed(findex'[i], k)
    BY <2>3 DEF Moves
  <2>5. \A i \in 1..Len(stacked') : Backed(stacked'[i], k)
    BY <2>3 DEF Moves
  <2>6. ASSUME NEW u \in Threads, op'[u].step \in InIndex
        PROVE  Backed(op'[u].m, k)
    <3>1. CASE u # t
      <4>1. op'[u] = op[u]
        BY <3>1 DEF Moves, Others
      <4> QED
        BY <4>1, <2>6, <2>2, <2>0, BackedMore
    <3>2. CASE u = t
      <4>1. \/ op[t].step \in InIndex /\ op'[t].m = op[t].m
            \/ Backed(op'[t].m, k)
        BY <3>2, <2>6 DEF Moves, k
      <4> QED
        BY <4>1, <3>2, <2>2, <2>0, BackedMore
    <3> QED
      BY <3>1, <3>2
  <2> QED
    BY <2>4, <2>5, <2>6 DEF DataFirst, k
<1>5. Holder'
  <2>1. SUFFICES ASSUME NEW u \in Threads, op'[u].step \in Holding
                 PROVE  Locked(u)'
    BY DEF Holder
  <2>2. queue \in Seq(Threads) /\ MutexStep(t)
    BY DEF IInv, Types, Moves
  <2>3. ASSUME Locked(u), queue' = queue \/ queue' = Append(queue, t)
        PROVE  Locked(u)'
    <3>1. queue # << >> /\ Head(queue) = u
      BY <2>3 DEF Locked
    <3>2. queue' # << >> /\ Head(queue') = u
      BY <3>1, <2>2, <2>3
    <3> QED
      BY <3>2 DEF Locked
  <2>4. CASE u = t
    BY <2>1, <2>2, <2>3, <2>4 DEF MutexStep
  <2>5. CASE u # t
    <3>1. op'[u] = op[u]
      BY <2>5 DEF Moves, Others
    <3>2. Locked(u)
      BY <3>1, <2>1 DEF IInv, Holder
    <3>3. ~Locked(t)
      BY <3>2, <2>5 DEF Locked
    <3> QED
      BY <3>2, <3>3, <2>2, <2>3 DEF MutexStep
  <2> QED
    BY <2>4, <2>5
<1> QED
  BY <1>1, <1>2, <1>3, <1>4, <1>5 DEF IInv

\* What is unchanged is known.
LEMMA KnownOld ==
  ASSUME IInv, NEW t
  PROVE  /\ findex \in Seq(Logged) /\ \A i \in 1..Len(findex) : Known(t, findex[i])
         /\ stacked \in Seq(Logged) /\ \A i \in 1..Len(stacked) : Known(t, stacked[i])
         /\ data \in Seq(Cells) /\ Len(data) \in Nat /\ Len(data) <= Len(data)
         /\ queue \in Seq(Threads) /\ nops \in Nat /\ group \in Nat
         /\ data_synced \in Nat /\ findex_synced \in Nat
<1>1. /\ findex \in Seq(Logged) /\ stacked \in Seq(Logged)
      /\ data \in Seq(Cells) /\ Len(data) \in Nat
      /\ queue \in Seq(Threads) /\ nops \in Nat /\ group \in Nat
      /\ data_synced \in Nat /\ findex_synced \in Nat
  BY DEF IInv, Types
<1> QED
  BY <1>1 DEF Known

\* The steps by which a thread takes another state.
LEMMA SetOp ==
  ASSUME IInv, NEW t \in Threads, NEW r, op' = [op EXCEPT ![t] = r]
  PROVE  Others(t) /\ op'[t] = r
BY DEF IInv, Shapes, Others

\* A thread that goes on keeps its request.
LEMMA Stepping ==
  ASSUME IInv, NEW t \in Threads, NEW s, "step" \in DOMAIN op[t], Goto(t, s)
  PROVE  Others(t) /\ op'[t] = [op[t] EXCEPT !.step = s]
<1>1. op' = [op EXCEPT ![t] = [op[t] EXCEPT !.step = s]]
  BY DEF Goto
<1> HIDE DEF Goto
<1> QED
  BY <1>1, SetOp

\* A thread whose request returns is idle.
LEMMA Returning ==
  ASSUME IInv, NEW t \in Threads, Return(t)
  PROVE  /\ Others(t) /\ op'[t] = Idle /\ OpOK(op'[t]) /\ op'[t].step \notin InIndex
         /\ op'[t].step = "idle"
<1>1. Others(t) /\ op'[t] = Idle
  BY SetOp DEF Return
<1> QED
  BY <1>1 DEF OpOK, Idle, InIndex

\* A request under way has its mapping.
LEMMA ChangingHas ==
  ASSUME IInv, NEW t \in Threads, op[t].step \in Changing
  PROVE  /\ {"step", "m", "id"} \subseteq DOMAIN op[t]
         /\ op[t].m \in Requests /\ op[t].id \in Nat
BY DEF IInv, Shapes, OpOK, Idle, Changing, InIndex

\* Padding of any length, none if the buffer is over-full, is a sequence.
LEMMA PaddedOK ==
  ASSUME IInv, NEW t
  PROVE  /\ Padded \in Seq(Logged) /\ \A i \in 1..Len(Padded) : Known(t, Padded[i])
         /\ \A i \in 1..Len(Padded) :
              Padded[i] = Invalid \/ \E j \in 1..Len(stacked) : Padded[i] = stacked[j]
<1> DEFINE k == group - Len(stacked)
           n == IF k > 0 THEN k ELSE 0
           pad == [i \in 1..n |-> Invalid]
<1>1. stacked \in Seq(Logged) /\ Len(stacked) \in Nat /\ group \in Nat
  BY DEF IInv, Types
<1>2. k \in Int /\ n \in Nat /\ 1..k = 1..n
  BY <1>1
<1>3. Padded = stacked \o pad
  BY <1>2 DEF Padded
<1>4. Invalid \in Logged
  BY DEF Logged
<1> HIDE DEF k, n
<1>5. pad \in Seq(Logged) /\ Len(pad) = n /\ \A i \in 1..n : pad[i] = Invalid
  BY <1>2, <1>4
<1> HIDE DEF pad
<1>6. /\ Padded \in Seq(Logged) /\ Len(Padded) = Len(stacked) + n
      /\ \A i \in 1..Len(Padded) : Padded[i] = IF i <= Len(stacked) THEN stacked[i]
                                              ELSE pad[i - Len(stacked)]
  BY <1>1, <1>2, <1>3, <1>5
<1>7. ASSUME NEW i \in 1..Len(Padded)
      PROVE  Padded[i] = Invalid \/ \E j \in 1..Len(stacked) : Padded[i] = stacked[j]
  <2>1. CASE i <= Len(stacked)
    BY <2>1, <1>1, <1>6
  <2>2. CASE i > Len(stacked)
    <3>1. i - Len(stacked) \in 1..n
      BY <2>2, <1>1, <1>2, <1>6
    <3> QED
      BY <3>1, <2>2, <1>1, <1>5, <1>6
  <2> QED
    BY <2>1, <2>2, <1>1, <1>6
<1> QED
  BY <1>6, <1>7 DEF Known

\* Appending known mappings to the log or the buffer.
LEMMA KnownConcat ==
  ASSUME NEW t, NEW a \in Seq(Logged), NEW b \in Seq(Logged),
         \A i \in 1..Len(a) : Known(t, a[i]), \A i \in 1..Len(b) : Known(t, b[i])
  PROVE  a \o b \in Seq(Logged) /\ \A i \in 1..Len(a \o b) : Known(t, (a \o b)[i])
<1>1. /\ a \o b \in Seq(Logged) /\ Len(a \o b) = Len(a) + Len(b)
      /\ \A i \in 1..Len(a \o b) : (a \o b)[i] = IF i <= Len(a) THEN a[i] ELSE b[i - Len(a)]
  OBVIOUS
<1>2. ASSUME NEW i \in 1..Len(a \o b)
      PROVE  Known(t, (a \o b)[i])
  <2>1. CASE i <= Len(a)
    BY <2>1, <1>1
  <2>2. CASE i > Len(a)
    <3>1. i - Len(a) \in 1..Len(b)
      BY <2>2, <1>1
    <3> QED
      BY <3>1, <2>2, <1>1
  <2> QED
    BY <2>1, <2>2, <1>1
<1> QED
  BY <1>1, <1>2

\* Appending one known mapping.
LEMMA KnownAppend ==
  ASSUME NEW t, NEW a \in Seq(Logged), NEW x \in Logged,
         \A i \in 1..Len(a) : Known(t, a[i]), Known(t, x)
  PROVE  Append(a, x) \in Seq(Logged) /\ \A i \in 1..Len(Append(a, x)) : Known(t, Append(a, x)[i])
<1>1. /\ Append(a, x) \in Seq(Logged) /\ Len(Append(a, x)) = Len(a) + 1 /\ Len(a) \in Nat
      /\ \A i \in 1..Len(a) : Append(a, x)[i] = a[i]
      /\ Append(a, x)[Len(a) + 1] = x
  OBVIOUS
<1> QED
  BY <1>1

\* do_group_commit_mappings() only moves mappings of the buffer.
LEMMA CommitKnown ==
  ASSUME IInv, NEW t, NEW size, CommitGroup \/ CommitGroupFails(size)
  PROVE  /\ findex' \in Seq(Logged) /\ \A i \in 1..Len(findex') : Known(t, findex'[i])
         /\ stacked' \in Seq(Logged) /\ \A i \in 1..Len(stacked') : Known(t, stacked'[i])
<1>1. CASE CommitGroup
  <2>1. stacked' = << >> /\ (findex' = findex \/ findex' = findex \o Padded)
    BY <1>1 DEF CommitGroup
  <2>2. findex \o Padded \in Seq(Logged)
        /\ \A i \in 1..Len(findex \o Padded) : Known(t, (findex \o Padded)[i])
    BY KnownOld, PaddedOK, KnownConcat
  <2>3. stacked' \in Seq(Logged) /\ Len(stacked') = 0
    BY <2>1
  <2>4. findex' \in Seq(Logged) /\ \A i \in 1..Len(findex') : Known(t, findex'[i])
    BY <2>1, <2>2, KnownOld
  <2> QED
    BY <2>3, <2>4
<1>2. CASE CommitGroupFails(size)
  BY <1>2, KnownOld, PaddedOK DEF CommitGroupFails
<1> QED
  BY <1>1, <1>2

-----------------------------------------------------------------------------
(* The actions *)

\* The mapping of a request lies on the disk.
LEMMA NewRequest ==
  ASSUME NEW offset \in Sectors, NEW length \in 1..NSectors, offset + length <= NSectors,
         NEW moffset \in Nat, NEW zeroed \in BOOLEAN
  PROVE  /\ Mapping(offset, length, moffset, zeroed, 0) \in Requests
         /\ Mapping(offset, length, moffset, zeroed, 0).moffset = moffset
         /\ Mapping(offset, length, moffset, zeroed, 0).zeroed = zeroed
<1>1. NSectors \in Nat /\ offset \in Nat /\ length \in Nat /\ length > 0
  BY FileAssumption DEF Sectors
<1> QED
  BY <1>1 DEF Mapping, Requests, Fields, End

\* pwrite() up to the mutex.
LEMMA PwriteCallMoves ==
  ASSUME IInv, NEW t \in Threads, NEW offset \in Sectors, NEW length \in 1..NSectors,
         PwriteCall(t, offset, length)
  PROVE  Moves(t) /\ op'[t].step \notin Holding
<1> DEFINE r == [step |-> "append", m |-> Mapping(offset, length, 0, FALSE, 0), id |-> nops + 1,
                 version |-> [s \in Sectors |-> 0]]
<1>1. /\ state = "open" /\ offset + length <= NSectors /\ queue' = Append(queue, t)
      /\ op' = [op EXCEPT ![t] = r] /\ nops' = nops + 1
      /\ UNCHANGED <<state, stacked, group, diskVars>>
  BY DEF PwriteCall, At, MayChange, Lock
<1>2. /\ r.m \in Requests /\ r.id \in Nat /\ r.step = "append"
      /\ {"step", "m", "id"} \subseteq DOMAIN r
  <2>1. Mapping(offset, length, 0, FALSE, 0) \in Requests
    BY <1>1, NewRequest
  <2>2. nops + 1 \in Nat
    BY DEF IInv, Types
  <2> QED
    BY <2>1, <2>2
<1> HIDE DEF r
<1>3. Others(t) /\ op'[t] = r
  BY <1>1, SetOp
<1>4. OpOK(op'[t]) /\ op'[t].step \notin InIndex /\ op'[t].step \notin Holding
  BY <1>2, <1>3 DEF OpOK, Changing, InIndex, Holding
<1>5. nops' \in Nat
  BY <1>1 DEF IInv, Types
<1> QED
  BY <1>1, <1>3, <1>4, <1>5, KnownOld DEF Moves, MutexStep, diskVars

\* A discard's mapping points at the end of the data file as it is now.
LEMMA DiscardCallMoves ==
  ASSUME IInv, NEW t \in Threads, NEW offset \in Sectors, NEW length \in 1..NSectors,
         DiscardCall(t, offset, length)
  PROVE  Moves(t) /\ op'[t].step \notin Holding
<1> DEFINE m == Mapping(offset, length, DataEnd, TRUE, 0)
           r == [step |-> "index", m |-> m, id |-> nops + 1,
                 version |-> [s \in Sectors |-> Len(versions'[s])]]
<1>1. /\ state = "open" /\ offset + length <= NSectors /\ queue' = Append(queue, t)
      /\ op' = [op EXCEPT ![t] = r] /\ nops' = nops + 1
      /\ UNCHANGED <<state, stacked, group, diskVars>>
  BY DEF DiscardCall, At, MayChange, Lock
<1>2. DataEnd \in Nat /\ DataEnd = HeaderSectors + Len(data) /\ HeaderSectors \in Nat
  BY KnownOld DEF DataEnd, HeaderSectors
<1>3. m \in Requests /\ m.moffset = DataEnd /\ m.zeroed = TRUE
  BY <1>1, <1>2, NewRequest
<1>4. r.m = m /\ r.id \in Nat /\ r.step = "index" /\ {"step", "m", "id"} \subseteq DOMAIN r
  BY KnownOld
<1> HIDE DEF m, r
<1>5. Others(t) /\ op'[t] = r
  BY <1>1, SetOp
<1>6. Backed(m, Len(data))
  BY <1>2, <1>3, KnownOld DEF Backed, Within
<1>7. OpOK(op'[t]) /\ op'[t].step \notin Holding
  BY <1>3, <1>4, <1>5 DEF OpOK, Changing, InIndex, Holding
<1>8. data' = data /\ op'[t].m = m
  BY <1>1, <1>4, <1>5 DEF diskVars
<1>9. nops' \in Nat
  BY <1>1 DEF IInv, Types
<1> QED
  BY <1>1, <1>5, <1>6, <1>7, <1>8, <1>9, KnownOld DEF Moves, MutexStep, diskVars

\* pread() changes nothing but its own state.
LEMMA PreadCallMoves ==
  ASSUME IInv, NEW t \in Threads, NEW offset \in Sectors, NEW length \in 1..NSectors,
         PreadCall(t, offset, length)
  PROVE  Moves(t) /\ op'[t].step \notin Holding
<1> DEFINE r == [step |-> "read", from |-> offset, to |-> offset + length, got |-> << >>,
                 batch |-> Lookup0(mapping, offset, offset + length, NLookup),
                 left |-> NLookup, since |-> [s \in Sectors |-> Len(versions[s])]]
<1>1. /\ state = "open" /\ op' = [op EXCEPT ![t] = r] /\ nops' = nops
      /\ UNCHANGED <<state, memVars, diskVars>>
  BY DEF PreadCall, At, CountCall
<1>2. r.step = "read" /\ {"step", "got", "batch", "left"} \subseteq DOMAIN r
  OBVIOUS
<1> HIDE DEF r
<1>3. Others(t) /\ op'[t] = r
  BY <1>1, SetOp
<1>4. OpOK(op'[t]) /\ op'[t].step \notin InIndex /\ op'[t].step \notin Holding
  BY <1>2, <1>3 DEF OpOK, InIndex, Holding
<1> QED
  BY <1>1, <1>3, <1>4, KnownOld DEF Moves, MutexStep, diskVars, memVars

\* What a read under way keeps.
LEMMA ReadMoves ==
  ASSUME IInv, NEW t \in Threads,
         PreadSegment(t) \/ PreadSegmentFails(t) \/ PreadMore(t) \/ PreadReturn(t)
  PROVE  Moves(t) /\ op'[t].step \notin Holding
<1>1. state = "open" /\ UNCHANGED <<state, memVars, diskVars, nops>>
  BY DEF PreadSegment, PreadSegmentFails, PreadMore, PreadReturn, At, boundVars
<1>2. op[t].step = "read" => {"step", "got", "batch", "left"} \subseteq DOMAIN op[t]
  BY <1>1 DEF IInv, Shapes, OpOK, Idle, Changing, InIndex
<1>3. Others(t) /\ OpOK(op'[t]) /\ op'[t].step \notin InIndex /\ op'[t].step \notin Holding
  <2>1. CASE PreadSegment(t)
    <3> DEFINE got == ReadUpto(t, Head(op[t].batch))
               batch == Tail(op[t].batch)
               left == op[t].left - 1
    <3>0. op[t].step = "read"
      BY <2>1 DEF PreadSegment, At
    <3>1. op' = [op EXCEPT ![t] = [op[t] EXCEPT !.got = got, !.batch = batch, !.left = left]]
      BY <2>1 DEF PreadSegment
    <3> HIDE DEF got, batch, left
    <3> DEFINE r == [op[t] EXCEPT !.got = got, !.batch = batch, !.left = left]
    <3>2. r.step = "read" /\ {"step", "got", "batch", "left"} \subseteq DOMAIN r
      BY <3>0, <1>2
    <3> HIDE DEF r
    <3>3. Others(t) /\ op'[t] = r
      BY <3>1, SetOp DEF r
    <3> QED
      BY <3>2, <3>3 DEF OpOK, InIndex, Holding
  <2>2. CASE PreadMore(t)
    <3> DEFINE batch == Lookup0(mapping, op[t].from + Len(op[t].got), op[t].to, NLookup)
    <3>0. op[t].step = "read"
      BY <2>2 DEF PreadMore, At
    <3>1. op' = [op EXCEPT ![t] = [op[t] EXCEPT !.left = NLookup, !.batch = batch]]
      BY <2>2 DEF PreadMore
    <3> HIDE DEF batch
    <3> DEFINE r == [op[t] EXCEPT !.left = NLookup, !.batch = batch]
    <3>2. r.step = "read" /\ {"step", "got", "batch", "left"} \subseteq DOMAIN r
      BY <3>0, <1>2
    <3> HIDE DEF r
    <3>3. Others(t) /\ op'[t] = r
      BY <3>1, SetOp DEF r
    <3> QED
      BY <3>2, <3>3 DEF OpOK, InIndex, Holding
  <2>3. CASE PreadReturn(t)
    BY <2>3, Returning DEF PreadReturn, Idle, Holding
  <2>4. CASE PreadSegmentFails(t)
    <3>1. op[t].step = "read" /\ (Return(t) \/ Goto(t, "misread"))
      BY <2>4 DEF PreadSegmentFails, At
    <3>2. CASE Return(t)
      BY <3>2, Returning DEF Holding
    <3>3. CASE Goto(t, "misread")
      <4>1. Others(t) /\ op'[t] = [op[t] EXCEPT !.step = "misread"]
        BY <3>1, <3>3, <1>2, Stepping
      <4>2. op'[t].step = "misread" /\ "step" \in DOMAIN op'[t]
        BY <4>1, <3>1, <1>2
      <4> QED
        BY <4>1, <4>2 DEF OpOK, InIndex, Holding
    <3> QED
      BY <3>1, <3>2, <3>3
  <2> QED
    BY <2>1, <2>2, <2>3, <2>4
<1> QED
  BY <1>1, <1>3, KnownOld DEF Moves, MutexStep, diskVars, memVars

\* The first n sectors of the data of t's request.
DataOf(t, n) ==
  [i \in 1..n |-> [s \in Sectors |-> <<op[t].id, s>>][op[t].m.offset + i - 1]]

\* append() of n sectors to the data file.
LEMMA DataAppend ==
  ASSUME IInv, NEW t \in Threads, op[t].step \in Changing, NEW n \in 0..op[t].m.length,
         data' = data \o DataOf(t, n)
  PROVE  data' \in Seq(Cells) /\ Len(data') = Len(data) + n
<1> DEFINE content == [s \in Sectors |-> <<op[t].id, s>>]
           from == op[t].m.offset
<1>1. op[t].m \in Requests /\ op[t].id \in Nat
  BY ChangingHas
<1>2. /\ from \in Nat /\ op[t].m.length \in Nat /\ NSectors \in Nat
      /\ from + op[t].m.length <= NSectors
  BY <1>1, FileAssumption DEF Requests, Fields, End
<1>3. n \in Nat /\ n <= op[t].m.length
  BY <1>2
<1>a. DataOf(t, n) = [i \in 1..n |-> content[from + i - 1]]
  BY DEF DataOf
<1> HIDE DEF from
<1>4. ASSUME NEW i \in 1..n
      PROVE  content[from + i - 1] \in Cells
  <2>1. from + i - 1 \in Sectors /\ from + i - 1 \in Nat
    BY <1>2, <1>3 DEF Sectors
  <2> QED
    BY <2>1, <1>1 DEF Cells
<1> HIDE DEF content
<1>5. DataOf(t, n) \in Seq(Cells) /\ Len(DataOf(t, n)) = n
  BY <1>a, <1>3, <1>4
<1>6. data \in Seq(Cells)
  BY DEF IInv, Types
<1> QED
  BY <1>5, <1>6

\* The mapping of a write enters the index with its data in the file.
LEMMA PwriteAppendMoves ==
  ASSUME IInv, NEW t \in Threads, PwriteAppend(t)
  PROVE  Moves(t) /\ op'[t].step \notin Holding
<1> DEFINE m == [op[t].m EXCEPT !.moffset = DataEnd]
           content == [s \in Sectors |-> <<op[t].id, s>>]
           len == op[t].m.length
<1>1. /\ state = "open" /\ op[t].step = "append" /\ Locked(t) /\ op[t].step \in Changing
      /\ UNCHANGED <<state, stacked, group, data_synced, findex, findex_synced, nops>>
  BY DEF PwriteAppend, At, boundVars, Changing
<1>2. op[t].m \in Requests /\ op[t].id \in Nat /\ {"step", "m", "id"} \subseteq DOMAIN op[t]
  BY <1>1, ChangingHas
<1>3. /\ DataEnd \in Nat /\ DataEnd = HeaderSectors + Len(data) /\ HeaderSectors = 8
      /\ Len(data) \in Nat
  BY KnownOld DEF DataEnd, HeaderSectors
<1>4. /\ m \in Requests /\ m.length = len /\ m.offset = op[t].m.offset /\ m.moffset = DataEnd
      /\ len \in Nat /\ len > 0
  <2>1. /\ m \in Fields /\ m.length = len /\ m.offset = op[t].m.offset /\ m.moffset = DataEnd
        /\ op[t].m.offset \in Nat /\ len \in Nat /\ len > 0
    BY <1>2, <1>3 DEF Requests, Fields
  <2> QED
    BY <2>1, <1>2 DEF Requests, End
<1>5. CASE /\ data' = data \o [i \in 1..m.length |-> content[m.offset + i - 1]]
           /\ op' = [op EXCEPT ![t].step = "index", ![t].m = m,
                               ![t].version = [s \in Sectors |-> Len(versions'[s])]]
           /\ UNCHANGED queue
  <2> DEFINE v == [s \in Sectors |-> Len(versions'[s])]
             r == [op[t] EXCEPT !.step = "index", !.m = m, !.version = v]
  <2>1. op' = [op EXCEPT ![t] = r]
    BY <1>5
  <2> HIDE DEF m, v
  <2>2. r.step = "index" /\ r.m = m /\ r.id = op[t].id /\ {"step", "m", "id"} \subseteq DOMAIN r
    BY <1>2
  <2> HIDE DEF r
  <2>3. Others(t) /\ op'[t] = r
    BY <2>1, SetOp
  <2>4. OpOK(op'[t]) /\ op'[t].step \notin Holding /\ op'[t].m = m
    BY <2>2, <2>3, <1>2, <1>4 DEF OpOK, Changing, InIndex, Holding
  <2> HIDE DEF content
  <2>5. data' \in Seq(Cells) /\ Len(data') = Len(data) + len
    <3>1. data' = data \o DataOf(t, len)
      BY <1>5, <1>4 DEF DataOf, content
    <3> HIDE DEF len
    <3>2. len \in 0..op[t].m.length
      BY <1>4 DEF len
    <3> QED
      BY <3>1, <3>2, <1>1, DataAppend
  <2>6. Backed(m, Len(data'))
    <3>1. /\ m.moffset = 8 + Len(data) /\ Len(data') = Len(data) + m.length
          /\ m.length \in Nat /\ m.length > 0 /\ Len(data) \in Nat
      BY <2>5, <1>3, <1>4
    <3>2. Within(m, 8, 8 + Len(data'))
      BY <3>1 DEF Within, Mend
    <3> QED
      BY <3>2 DEF Backed, HeaderSectors
  <2>7. Len(data) <= Len(data')
    BY <2>5, <1>3, <1>4
  <2> QED
    BY <1>1, <1>5, <2>3, <2>4, <2>5, <2>6, <2>7, KnownOld DEF Moves, MutexStep
<1>6. CASE /\ \E n \in 0..(m.length - 1) :
                data' = data \o [i \in 1..n |-> content[m.offset + i - 1]]
           /\ Return(t) /\ Unlock
  <2>1. PICK n \in 0..(m.length - 1) :
           data' = data \o [i \in 1..n |-> content[m.offset + i - 1]]
    BY <1>6
  <2> HIDE DEF m, content
  <2>2. n \in 0..op[t].m.length /\ n \in Nat
    BY <1>4
  <2>3. data' \in Seq(Cells) /\ Len(data') = Len(data) + n
    <3>1. data' = data \o DataOf(t, n)
      BY <2>1, <1>4 DEF DataOf, content
    <3> QED
      BY <3>1, <2>2, <1>1, DataAppend
  <2>4. Len(data) <= Len(data')
    BY <2>3, <2>2, <1>3
  <2>5. Others(t) /\ OpOK(op'[t]) /\ op'[t].step \notin InIndex /\ op'[t].step \notin Holding
    BY <1>6, Returning DEF Holding
  <2> QED
    BY <1>1, <1>6, <2>3, <2>4, <2>5, KnownOld DEF Moves, MutexStep, Unlock
<1> QED
  BY <1>5, <1>6 DEF PwriteAppend, InsertMapping

\* append_index() passes on the mapping of its request.
LEMMA AppendIndexMoves ==
  ASSUME IInv, NEW t \in Threads, AppendIndex(t)
  PROVE  Moves(t)
<1>1. /\ state = "open" /\ op[t].step = "index" /\ Locked(t)
      /\ op[t].step \in Changing /\ op[t].step \in InIndex
      /\ UNCHANGED <<state, group, diskVars, nops>>
  BY DEF AppendIndex, At, boundVars, Changing, InIndex
<1>2. op[t].m \in Requests /\ op[t].id \in Nat /\ {"step", "m", "id"} \subseteq DOMAIN op[t]
  BY <1>1, ChangingHas
<1>3. /\ stacked \in Seq(Logged) /\ \A i \in 1..Len(stacked) : Known(t, stacked[i])
  BY KnownOld
<1>4. ASSUME stacked' = Append(stacked, op[t].m)
      PROVE  stacked' \in Seq(Logged) /\ \A i \in 1..Len(stacked') : Known(t, stacked'[i])
  <2>1. op[t].m \in Logged /\ Known(t, op[t].m)
    BY <1>1, <1>2 DEF Logged, Known
  <2> QED
    BY <2>1, <1>3, <1>4, KnownAppend
<1>5. ASSUME NEW s \in Holding, Goto(t, s)
      PROVE  Others(t) /\ OpOK(op'[t]) /\ op'[t].m = op[t].m
  <2>1. Others(t) /\ op'[t] = [op[t] EXCEPT !.step = s]
    BY <1>2, <1>5, Stepping
  <2>2. /\ op'[t].step = s /\ op'[t].m = op[t].m /\ op'[t].id = op[t].id
        /\ {"step", "m", "id"} \subseteq DOMAIN op'[t]
    BY <2>1, <1>2
  <2> QED
    BY <2>1, <2>2, <1>2 DEF OpOK, Changing, InIndex, Holding
<1>6. CASE Goto(t, "log") /\ UNCHANGED <<stacked, queue>>
  <2>1. Others(t) /\ OpOK(op'[t]) /\ op'[t].m = op[t].m
    BY <1>5, <1>6 DEF Holding
  <2> QED
    BY <2>1, <1>1, <1>6, KnownOld DEF Moves, MutexStep, diskVars
<1>7. CASE stacked' = Append(stacked, op[t].m) /\ Goto(t, "flush") /\ UNCHANGED queue
  <2>1. Others(t) /\ OpOK(op'[t]) /\ op'[t].m = op[t].m
    BY <1>5, <1>7 DEF Holding
  <2> QED
    BY <2>1, <1>1, <1>4, <1>7, KnownOld DEF Moves, MutexStep, diskVars
<1>8. CASE stacked' = Append(stacked, op[t].m) /\ Return(t) /\ Unlock
  <2>1. Others(t) /\ OpOK(op'[t]) /\ op'[t].step \notin InIndex /\ op'[t].step \notin Holding
    BY <1>8, Returning DEF Holding
  <2> QED
    BY <2>1, <1>1, <1>4, <1>8, KnownOld DEF Moves, MutexStep, Unlock, diskVars
<1> QED
  BY <1>6, <1>7, <1>8 DEF AppendIndex

\* The mapping of a request reaches the log.
LEMMA LogMappingMoves ==
  ASSUME IInv, NEW t \in Threads, LogMapping(t)
  PROVE  Moves(t)
<1>1. /\ state = "open" /\ op[t].step = "log" /\ Return(t) /\ queue' = Tail(queue)
      /\ op[t].step \in Changing /\ op[t].step \in InIndex
      /\ findex' = Append(findex, op[t].m) \/ findex' = findex
      /\ UNCHANGED <<state, stacked, group, data, data_synced, findex_synced, nops>>
  BY DEF LogMapping, At, boundVars, Changing, InIndex, Unlock
<1>2. Locked(t)
  BY <1>1 DEF IInv, Holder, Holding
<1>3. op[t].m \in Logged /\ Known(t, op[t].m)
  BY <1>1, ChangingHas DEF Logged, Known
<1>4. findex' \in Seq(Logged) /\ \A i \in 1..Len(findex') : Known(t, findex'[i])
  BY <1>1, <1>3, KnownOld, KnownAppend
<1>5. Others(t) /\ OpOK(op'[t]) /\ op'[t].step \notin InIndex /\ op'[t].step \notin Holding
  BY <1>1, Returning DEF Holding
<1> QED
  BY <1>1, <1>2, <1>4, <1>5, KnownOld DEF Moves, MutexStep

\* A full group reaches the log.
LEMMA FlushGroupMoves ==
  ASSUME IInv, NEW t \in Threads, FlushGroup(t)
  PROVE  Moves(t)
<1>1. /\ state = "open" /\ op[t].step = "flush" /\ Return(t) /\ queue' = Tail(queue)
      /\ \/ findex' = findex \o stacked /\ stacked' = << >>
         \/ findex' = findex /\ stacked' = stacked
      /\ UNCHANGED <<state, group, data, data_synced, findex_synced, nops>>
  BY DEF FlushGroup, At, boundVars, Unlock
<1>2. Locked(t)
  BY <1>1 DEF IInv, Holder, Holding
<1>3. findex' \in Seq(Logged) /\ \A i \in 1..Len(findex') : Known(t, findex'[i])
  BY <1>1, KnownOld, KnownConcat
<1>4. stacked' \in Seq(Logged) /\ \A i \in 1..Len(stacked') : Known(t, stacked'[i])
  <2>1. CASE stacked' = << >>
    BY <2>1
  <2>2. CASE stacked' = stacked
    BY <2>2, KnownOld
  <2> QED
    BY <1>1, <2>1, <2>2
<1>5. Others(t) /\ OpOK(op'[t]) /\ op'[t].step \notin InIndex /\ op'[t].step \notin Holding
  BY <1>1, Returning DEF Holding
<1> QED
  BY <1>1, <1>2, <1>3, <1>4, <1>5, KnownOld DEF Moves, MutexStep

\* A thread that is not changing the disk goes on to another such step.
LEMMA FsyncGoes ==
  ASSUME IInv, NEW t \in Threads, op[t].step \in {"fsync", "fsync_data", "fsync_index"},
         NEW s \in {"fsync_data", "fsync_index"}, Goto(t, s)
  PROVE  Others(t) /\ OpOK(op'[t]) /\ op'[t].step \notin InIndex /\ op'[t].step \notin Holding
<1>1. "step" \in DOMAIN op[t]
  BY DEF IInv, Shapes, OpOK, Idle, Changing, InIndex
<1>2. Others(t) /\ op'[t] = [op[t] EXCEPT !.step = s]
  BY <1>1, Stepping
<1>3. op'[t].step = s /\ "step" \in DOMAIN op'[t]
  BY <1>1, <1>2
<1> QED
  BY <1>2, <1>3 DEF OpOK, InIndex, Holding

\* fsync() writes the buffer to the log, and changes nothing else there.
LEMMA FsyncMoves ==
  ASSUME IInv, NEW t \in Threads, FsyncCall(t) \/ FsyncFlush(t) \/ FsyncData(t) \/ FsyncIndex(t)
  PROVE  Moves(t) /\ op'[t].step \notin Holding
<1>1. CASE FsyncCall(t)
  <2> DEFINE r == [step |-> "fsync", mark |-> done]
  <2>1. /\ state = "open" /\ op' = [op EXCEPT ![t] = r] /\ queue' = Append(queue, t)
        /\ UNCHANGED <<state, stacked, group, diskVars, nops>>
    BY <1>1 DEF FsyncCall, At, CountCall, Lock
  <2>2. r.step = "fsync" /\ "step" \in DOMAIN r
    OBVIOUS
  <2> HIDE DEF r
  <2>3. Others(t) /\ op'[t] = r
    BY <2>1, SetOp
  <2>4. OpOK(op'[t]) /\ op'[t].step \notin InIndex /\ op'[t].step \notin Holding
    BY <2>2, <2>3 DEF OpOK, InIndex, Holding
  <2> QED
    BY <2>1, <2>3, <2>4, KnownOld DEF Moves, MutexStep, diskVars
<1>2. CASE FsyncFlush(t)
  <2>1. /\ state = "open" /\ op[t].step = "fsync" /\ Locked(t) /\ queue' = Tail(queue)
        /\ CommitGroup \/ CommitGroupFails(group)
        /\ Goto(t, "fsync_data") \/ Return(t)
        /\ UNCHANGED <<state, group, data, data_synced, findex_synced, nops>>
    BY <1>2 DEF FsyncFlush, At, Unlock, boundVars
  <2>2. Others(t) /\ OpOK(op'[t]) /\ op'[t].step \notin InIndex /\ op'[t].step \notin Holding
    BY <2>1, FsyncGoes, Returning DEF Holding
  <2> QED
    BY <2>1, <2>2, KnownOld, CommitKnown DEF Moves, MutexStep
<1>3. CASE FsyncData(t)
  <2>1. /\ state = "open" /\ op[t].step = "fsync_data" /\ Goto(t, "fsync_index")
        /\ data_synced' = Len(data) \/ data_synced' = data_synced
        /\ UNCHANGED <<state, memVars, data, findex, findex_synced, nops>>
    BY <1>3 DEF FsyncData, At, boundVars
  <2>2. Others(t) /\ OpOK(op'[t]) /\ op'[t].step \notin InIndex /\ op'[t].step \notin Holding
    BY <2>1, FsyncGoes
  <2>3. data_synced' \in Nat
    BY <2>1 DEF IInv, Types
  <2> QED
    BY <2>1, <2>2, <2>3, KnownOld DEF Moves, MutexStep, memVars
<1>4. CASE FsyncIndex(t)
  <2>1. /\ state = "open" /\ Return(t)
        /\ findex_synced' = Len(findex) \/ findex_synced' = findex_synced
        /\ UNCHANGED <<state, memVars, data, data_synced, findex, nops>>
    BY <1>4 DEF FsyncIndex, At, boundVars
  <2>2. Others(t) /\ OpOK(op'[t]) /\ op'[t].step \notin InIndex /\ op'[t].step \notin Holding
    BY <2>1, Returning DEF Holding
  <2>3. findex_synced' \in Nat
    BY <2>1 DEF IInv, Types
  <2> QED
    BY <2>1, <2>2, <2>3, KnownOld DEF Moves, MutexStep, memVars
<1> QED
  BY <1>1, <1>2, <1>3, <1>4

\* set_index_group_commit() before the mutex.
LEMMA GroupCallMoves ==
  ASSUME IInv, NEW t \in Threads, NEW size \in GroupSizes, GroupCall(t, size)
  PROVE  Moves(t) /\ op'[t].step \notin Holding
<1>1. state = "open" /\ op[t].step = "idle" /\ UNCHANGED <<state, stacked, diskVars, nops>>
  BY DEF GroupCall, At, CountCall
<1>2. size \in Nat
  BY FileAssumption
<1>3. CASE /\ Lock(t) /\ op' = [op EXCEPT ![t] = [step |-> "regroup", size |-> size]]
           /\ UNCHANGED group
  <2> DEFINE r == [step |-> "regroup", size |-> size]
  <2>1. r.step = "regroup" /\ r.size \in GroupSizes
    OBVIOUS
  <2> HIDE DEF r
  <2>2. Others(t) /\ op'[t] = r
    BY <1>3, SetOp DEF r
  <2>3. OpOK(op'[t]) /\ op'[t].step \notin InIndex /\ op'[t].step \notin Holding
    BY <2>1, <2>2 DEF OpOK, InIndex, Holding
  <2> QED
    BY <2>2, <2>3, <1>1, <1>3, KnownOld DEF Moves, MutexStep, diskVars, Lock
<1>4. CASE group' = size /\ UNCHANGED <<queue, op>>
  <2>1. Others(t) /\ OpOK(op'[t]) /\ op'[t].step \notin InIndex /\ op'[t].step \notin Holding
    BY <1>1, <1>4 DEF IInv, Shapes, Others, InIndex, Holding
  <2> QED
    BY <2>1, <1>1, <1>2, <1>4, KnownOld DEF Moves, MutexStep, diskVars
<1> QED
  BY <1>3, <1>4 DEF GroupCall

\* ... and with it.
LEMMA GroupFlushMoves ==
  ASSUME IInv, NEW t \in Threads, GroupFlush(t)
  PROVE  Moves(t) /\ op[t].size \in GroupSizes
<1>1. /\ state = "open" /\ op[t].step = "regroup" /\ Locked(t) /\ queue' = Tail(queue)
      /\ CommitGroup \/ CommitGroupFails(op[t].size)
      /\ group' = op[t].size /\ Return(t)
      /\ UNCHANGED <<state, data, data_synced, findex_synced, nops>>
  BY DEF GroupFlush, At, Unlock, boundVars
<1>2. op[t].size \in GroupSizes /\ op[t].size \in Nat
  <2>1. OpOK(op[t]) /\ op[t].step = "regroup"
    BY <1>1 DEF IInv, Shapes
  <2>2. op[t].size \in GroupSizes
    BY <2>1 DEF OpOK, Idle, Changing, InIndex
  <2> QED
    BY <2>2, FileAssumption
<1>3. Others(t) /\ OpOK(op'[t]) /\ op'[t].step \notin InIndex /\ op'[t].step \notin Holding
  BY <1>1, Returning DEF Holding
<1> QED
  BY <1>1, <1>2, <1>3, KnownOld, CommitKnown DEF Moves, MutexStep

\* An action of a thread, whatever it is.
ThreadStep(t) ==
  \/ \E offset \in Sectors, length \in 1..NSectors :
       \/ PwriteCall(t, offset, length) \/ DiscardCall(t, offset, length)
       \/ PreadCall(t, offset, length)
  \/ PwriteAppend(t) \/ AppendIndex(t) \/ LogMapping(t) \/ FlushGroup(t)
  \/ FsyncCall(t) \/ FsyncFlush(t) \/ FsyncData(t) \/ FsyncIndex(t)
  \/ \E size \in GroupSizes : GroupCall(t, size)
  \/ GroupFlush(t)
  \/ PreadSegment(t) \/ PreadSegmentFails(t) \/ PreadMore(t) \/ PreadReturn(t)

\* Every action of a thread is a Moves step.
LEMMA ThreadMoves ==
  ASSUME IInv, NEW t \in Threads, ThreadStep(t)
  PROVE  Moves(t)
BY PwriteCallMoves, DiscardCallMoves, PreadCallMoves, ReadMoves, PwriteAppendMoves,
   AppendIndexMoves, LogMappingMoves, FlushGroupMoves, FsyncMoves, GroupCallMoves, GroupFlushMoves
   DEF ThreadStep

\* The group buffer is used beyond its end.
Overruns == \E t \in Threads : StoreOverruns(t) \/ ResizeOverruns(t)

\* The next-state relation, by who acts.
LEMMA NextSplit ==
  ASSUME Next
  PROVE  (\E t \in Threads : ThreadStep(t)) \/ Overruns \/ Close \/ Crash \/ LosePower \/ Reopen
BY DEF Next, ThreadStep, Overruns

\* What close() and a crash do to the memory.
LEMMA Forgetting ==
  ASSUME Forget, state' # "open"
  PROVE  /\ Shapes' /\ Quiet' /\ Holder' /\ stacked' = << >> /\ queue' = << >> /\ group' = 0
<1>1. /\ op' = [t \in Threads |-> Idle] /\ stacked' = << >> /\ queue' = << >> /\ group' = 0
  BY DEF Forget
<1>2. DOMAIN op' = Threads /\ \A t \in Threads : op'[t] = Idle
  BY <1>1
<1> QED
  BY <1>1, <1>2 DEF Shapes, OpOK, Quiet, Holder, Idle, Holding

\* After a close or a crash of the process the log holds what was in it and
\* perhaps what was in the buffer.
LEMMA ForgetsOK ==
  ASSUME IInv, state = "open", state' # "open", Forget,
         findex' = findex \/ findex' = findex \o Padded,
         UNCHANGED <<data, data_synced, findex_synced, nops>>
  PROVE  IInv'
<1>1. /\ Shapes' /\ Quiet' /\ Holder' /\ stacked' = << >> /\ queue' = << >> /\ group' = 0
  BY Forgetting
<1>2. /\ findex \in Seq(Logged) /\ \A i \in 1..Len(findex) : Backed(findex[i], Len(data))
      /\ \A i \in 1..Len(stacked) : Backed(stacked[i], Len(data))
  BY DEF IInv, Types, DataFirst
<1>3. Padded \in Seq(Logged) /\ \A i \in 1..Len(Padded) : Backed(Padded[i], Len(data))
  <2>1. /\ Padded \in Seq(Logged)
        /\ \A i \in 1..Len(Padded) :
             Padded[i] = Invalid \/ \E j \in 1..Len(stacked) : Padded[i] = stacked[j]
    BY PaddedOK
  <2>2. Backed(Invalid, Len(data))
    BY DEF Backed
  <2> QED
    BY <2>1, <2>2, <1>2
<1>4. findex' \in Seq(Logged) /\ \A i \in 1..Len(findex') : Backed(findex'[i], Len(data))
  <2>1. CASE findex' = findex
    BY <2>1, <1>2
  <2>2. CASE findex' = findex \o Padded
    <3>1. /\ findex' \in Seq(Logged) /\ Len(findex') = Len(findex) + Len(Padded)
          /\ Len(findex) \in Nat /\ Len(Padded) \in Nat
          /\ \A i \in 1..Len(findex') :
               findex'[i] = IF i <= Len(findex) THEN findex[i] ELSE Padded[i - Len(findex)]
      BY <2>2, <1>2, <1>3
    <3>2. ASSUME NEW i \in 1..Len(findex')
          PROVE  Backed(findex'[i], Len(data))
      <4>1. CASE i <= Len(findex)
        BY <4>1, <3>1, <1>2
      <4>2. CASE i > Len(findex)
        <5>1. i - Len(findex) \in 1..Len(Padded)
          BY <4>2, <3>1
        <5> QED
          BY <5>1, <4>2, <3>1, <1>3
      <4> QED
        BY <4>1, <4>2, <3>1
    <3> QED
      BY <3>1, <3>2
  <2> QED
    BY <2>1, <2>2
<1>5. Types'
  BY <1>1, <1>4 DEF IInv, Types
<1>6. \A u \in Threads : op'[u].step \notin InIndex
  BY DEF Forget, Idle, InIndex
<1>7. DataFirst'
  BY <1>1, <1>4, <1>6 DEF DataFirst
<1> QED
  BY <1>1, <1>5, <1>7 DEF IInv

\* After a power loss nothing is claimed of the log.
LEMMA LosePowerOK ==
  ASSUME IInv, LosePower
  PROVE  IInv'
<1>1. state' = "lost" /\ Forget /\ UNCHANGED <<data_synced, findex_synced, nops>>
  BY DEF LosePower, Down
<1>2. /\ Shapes' /\ Quiet' /\ Holder' /\ stacked' = << >> /\ queue' = << >> /\ group' = 0
  BY <1>1, Forgetting
<1>3. /\ data \in Seq(Cells) /\ findex \in Seq(Logged)
      /\ data_synced \in Nat /\ findex_synced \in Nat
  BY DEF IInv, Types
<1>4. data' \in Seq(Cells)
  <2>1. PICK n \in data_synced..Len(data) : data' = SubSeq(data, 1, n)
    BY DEF LosePower
  <2>2. n \in Nat /\ n <= Len(data) /\ Len(data) \in Nat
    BY <1>3
  <2> QED
    BY <2>1, <2>2, <1>3
<1>5. findex' \in Seq(Logged)
  <2>1. PICK n \in findex_synced..Len(findex) : findex' = SubSeq(findex, 1, n)
    BY DEF LosePower
  <2>2. n \in Nat /\ n <= Len(findex) /\ Len(findex) \in Nat
    BY <1>3
  <2> QED
    BY <2>1, <2>2, <1>3
<1>6. Types'
  BY <1>1, <1>2, <1>4, <1>5 DEF IInv, Types
<1>7. DataFirst'
  BY <1>1 DEF DataFirst
<1> QED
  BY <1>2, <1>6, <1>7 DEF IInv

\* open_file_rw(): a file that opens has a log that can be loaded.
LEMMA ReopenOK ==
  ASSUME IInv, Reopen
  PROVE  IInv'
<1>1. /\ state \in {"down", "lost"} /\ UNCHANGED <<stacked, group, queue, diskVars, op, nops>>
      /\ (Loadable /\ state' = "open") \/ state' = "broken"
  BY DEF Reopen, boundVars
<1>2. Shapes' /\ Types' /\ Holder'
  BY <1>1 DEF IInv, Shapes, Types, Holder, Locked, diskVars
<1>3. /\ \A t \in Threads : op[t] = Idle
      /\ stacked = << >> /\ group = 0 /\ queue = << >>
  BY <1>1 DEF IInv, Quiet
<1>4. Quiet'
  BY <1>1, <1>3 DEF Quiet
<1>5. DataFirst'
  <2>1. CASE Loadable
    <3>1. \A i \in 1..Len(findex) : Backed(findex[i], Len(data))
      BY <2>1 DEF Loadable, Backed, DataEnd
    <3> QED
      BY <3>1, <1>1, <1>3 DEF DataFirst, diskVars, Idle, InIndex
  <2>2. CASE state' = "broken"
    BY <2>2 DEF DataFirst
  <2> QED
    BY <2>1, <2>2, <1>1
<1> QED
  BY <1>2, <1>4, <1>5 DEF IInv

\* Every step keeps the invariant.
LEMMA NextOK == IInv /\ [Next]_vars => IInv'
<1> SUFFICES ASSUME IInv, [Next]_vars PROVE IInv'
  OBVIOUS
<1>1. CASE UNCHANGED vars
  BY <1>1 DEF vars, memVars, diskVars, boundVars, IInv, Shapes, Types, Quiet, DataFirst, Holder,
              Locked
<1>2. ASSUME NEW t \in Threads, ThreadStep(t) PROVE IInv'
  BY <1>2, ThreadMoves, MovesOK
<1>3. CASE Close
  <2>1. /\ state = "open" /\ state' = "down" /\ Forget
        /\ findex' = findex \/ findex' = findex \o Padded
        /\ UNCHANGED <<data, data_synced, findex_synced, nops>>
    BY <1>3 DEF Close, Down
  <2> QED
    BY <2>1, ForgetsOK
<1>4. CASE Crash
  BY <1>4, ForgetsOK DEF Crash, Down, diskVars
<1>5. CASE Overruns
  <2>1. /\ state = "open" /\ state' = "overrun" /\ Forget
        /\ UNCHANGED <<findex, data, data_synced, findex_synced, nops>>
    BY <1>5 DEF Overruns, StoreOverruns, ResizeOverruns, At, diskVars, boundVars
  <2> QED
    BY <2>1, ForgetsOK
<1> QED
  BY <1>1, <1>2, <1>3, <1>4, <1>5, LosePowerOK, ReopenOK, NextSplit

-----------------------------------------------------------------------------
(* Theorems *)

\* The inductive invariant of LSMTFile: its requests, files, buffer and mutex.
THEOREM Invariance == Spec => []IInv
BY InitOK, NextOK, PTL DEF Spec

\* LSMTFile can be opened again after close() or the death of its server: the
\* data of every mapping in the log is in the data file, whatever writes,
\* discards, group commits and failed appends came before.
THEOREM OpensAgain == Spec => []Reopenable
<1>1. IInv => Reopenable
  BY DEF IInv, DataFirst, Reopenable, Loadable, Backed, DataEnd
<1> QED
  BY <1>1, Invariance, PTL

-----------------------------------------------------------------------------
(* The group buffer *)

Flushing == \E t \in Threads : op[t].step = "flush"

\* The buffer is full only while it is being written, or jammed.
Filled ==
  /\ Len(stacked) <= group
  /\ (stacked # << >> /\ Len(stacked) = group) => jammed \/ Flushing
  /\ state = "overrun" => jammed

\* The buffer of a new file is empty.
LEMMA FilledInit == Init => Filled
BY DEF Init, Filled

\* A thread that takes the mutex finds nobody flushing.
LEMMA AloneInside ==
  ASSUME IInv, NEW t \in Threads, Locked(t), NEW u \in Threads, u # t
  PROVE  op[u].step # "flush"
BY DEF IInv, Holder, Holding, Locked

\* An action of t that leaves the buffer alone and does not end a flush.
LEMMA SameGroup ==
  ASSUME IInv, Filled, NEW t \in Threads, Others(t), op[t].step # "flush",
         UNCHANGED <<state, stacked, group, jammed>>
  PROVE  Filled'
<1>1. Flushing => Flushing'
  BY DEF Others, Flushing
<1> QED
  BY <1>1 DEF Filled

\* A step that says exactly whether it leaves the buffer full.
LEMMA JamsExactly ==
  ASSUME state' # "overrun", Len(stacked') <= group', Jam(stacked', group')
  PROVE  Filled'
BY DEF Filled, Jam

\* An empty buffer fits.
LEMMA EmptyBuffer ==
  ASSUME state' # "overrun", stacked' = << >>, group' \in Nat
  PROVE  Filled'
BY DEF Filled

\* A padded buffer is full.
LEMMA PaddedLength ==
  ASSUME IInv, Len(stacked) <= group
  PROVE  Len(Padded) = group
<1> DEFINE k == group - Len(stacked)
           pad == [i \in 1..k |-> Invalid]
<1>1. stacked \in Seq(Logged) /\ Len(stacked) \in Nat /\ group \in Nat /\ k \in Nat
  BY DEF IInv, Types
<1>2. Padded = stacked \o pad
  BY DEF Padded
<1>3. group = Len(stacked) + k
  BY <1>1
<1> HIDE DEF k
<1>4. pad \in Seq(Logged) /\ Len(pad) = k
  BY <1>1 DEF Logged
<1> HIDE DEF pad
<1> QED
  BY <1>1, <1>2, <1>3, <1>4

\* Every step of a thread keeps the buffer within its size.
LEMMA FilledThread ==
  ASSUME IInv, Filled, NEW t \in Threads, ThreadStep(t)
  PROVE  Filled'
<1>0. /\ group \in Nat /\ stacked \in Seq(Logged) /\ Len(stacked) \in Nat
      /\ Len(stacked) <= group
  BY DEF IInv, Types, Filled
<1>m. Moves(t) /\ Others(t) /\ state = "open" /\ state' = "open" /\ group' \in Nat
  BY ThreadMoves DEF Moves
<1>1. ASSUME NEW offset \in Sectors, NEW length \in 1..NSectors,
             \/ PwriteCall(t, offset, length) \/ DiscardCall(t, offset, length)
             \/ PreadCall(t, offset, length)
      PROVE  Filled'
  <2>1. UNCHANGED <<stacked, group, jammed>> /\ op[t].step = "idle"
    BY <1>1 DEF PwriteCall, DiscardCall, PreadCall, At, memVars, histVars
  <2> QED
    BY <2>1, <1>m, SameGroup
<1>2. CASE PreadSegment(t) \/ PreadSegmentFails(t) \/ PreadMore(t) \/ PreadReturn(t)
  <2>1. UNCHANGED <<stacked, group, jammed>> /\ op[t].step \in {"read", "misread"}
    BY <1>2 DEF PreadSegment, PreadSegmentFails, PreadMore, PreadReturn, At, memVars, histVars
  <2> QED
    BY <2>1, <1>m, SameGroup
<1>3. CASE PwriteAppend(t) \/ LogMapping(t)
  <2>1. UNCHANGED <<stacked, group, jammed>> /\ op[t].step \in {"append", "log"}
    BY <1>3 DEF PwriteAppend, LogMapping, At
  <2> QED
    BY <2>1, <1>m, SameGroup
<1>4. CASE AppendIndex(t)
  <2>1. op[t].step = "index" /\ group' = group /\ "step" \in DOMAIN op[t]
    BY <1>4, ChangingHas DEF AppendIndex, At, Changing, InIndex
  <2>2. CASE UNCHANGED <<stacked, histVars>>
    BY <2>1, <2>2, <1>m, SameGroup DEF histVars
  <2>3. CASE /\ Len(stacked) + 1 = group
             /\ stacked' = Append(stacked, op[t].m) /\ Goto(t, "flush")
    <3>1. op'[t] = [op[t] EXCEPT !.step = "flush"]
      BY <2>1, <2>3, Stepping
    <3>2. Flushing'
      BY <3>1, <2>1 DEF Flushing
    <3>3. Len(stacked') = Len(stacked) + 1
      BY <2>3, <1>0
    <3> QED
      BY <3>2, <3>3, <2>1, <2>3, <1>m, <1>0 DEF Filled
  <2>4. CASE /\ Len(stacked) + 1 < group
             /\ stacked' = Append(stacked, op[t].m)
    <3>1. Len(stacked') = Len(stacked) + 1
      BY <2>4, <1>0
    <3> QED
      BY <3>1, <2>1, <2>4, <1>m, <1>0 DEF Filled
  <2> QED
    BY <1>4, <2>2, <2>3, <2>4 DEF AppendIndex
<1>5. CASE FlushGroup(t)
  <2>1. group' = group /\ (stacked' = << >> \/ (stacked' = stacked /\ Jam(stacked, group)))
    BY <1>5 DEF FlushGroup
  <2>2. CASE stacked' = << >>
    BY <2>2, <1>m, EmptyBuffer
  <2>3. CASE stacked' = stacked /\ Jam(stacked, group)
    <3>1. Jam(stacked', group')
      BY <2>1, <2>3
    <3> QED
      BY <3>1, <2>1, <2>3, <1>0, <1>m, JamsExactly
  <2> QED
    BY <2>1, <2>2, <2>3
<1>6. CASE FsyncCall(t) \/ FsyncData(t) \/ FsyncIndex(t)
  <2>1. /\ UNCHANGED <<stacked, group, jammed>>
        /\ op[t].step \in {"idle", "fsync_data", "fsync_index"}
    BY <1>6 DEF FsyncCall, FsyncData, FsyncIndex, At, memVars, histVars
  <2> QED
    BY <2>1, <1>m, SameGroup
<1>7. CASE FsyncFlush(t)
  <2>1. group' = group /\ (CommitGroup \/ CommitGroupFails(group))
    BY <1>7 DEF FsyncFlush
  <2>2. CASE CommitGroup
    BY <2>2, <1>m, EmptyBuffer DEF CommitGroup
  <2>3. CASE CommitGroupFails(group)
    <3>1. stacked' = Padded /\ Jam(stacked', group')
      BY <2>1, <2>3 DEF CommitGroupFails
    <3>2. Len(stacked') <= group'
      BY <3>1, <2>1, <1>0, PaddedLength
    <3> QED
      BY <3>1, <3>2, <1>m, JamsExactly
  <2> QED
    BY <2>1, <2>2, <2>3
<1>8. ASSUME NEW size \in GroupSizes, GroupCall(t, size)
      PROVE  Filled'
  <2>1. op[t].step = "idle" /\ stacked' = stacked
    BY <1>8 DEF GroupCall, At
  <2>2. CASE UNCHANGED <<group, jammed>>
    BY <2>1, <2>2, <1>m, SameGroup
  <2>3. CASE size >= Len(stacked) /\ group' = size /\ Jam(stacked, size)
    <3>1. Jam(stacked', group') /\ Len(stacked') <= group'
      BY <2>1, <2>3, <1>0, <1>m
    <3> QED
      BY <3>1, <1>m, JamsExactly
  <2> QED
    BY <1>8, <2>2, <2>3 DEF GroupCall
<1>9. CASE GroupFlush(t)
  <2>1. /\ group' = op[t].size
        /\ CommitGroup \/ (CommitGroupFails(op[t].size) /\ Len(Padded) <= op[t].size)
    BY <1>9 DEF GroupFlush
  <2>2. CASE CommitGroup
    BY <2>2, <1>m, EmptyBuffer DEF CommitGroup
  <2>3. CASE CommitGroupFails(op[t].size) /\ Len(Padded) <= op[t].size
    <3>1. stacked' = Padded /\ Jam(stacked', group') /\ Len(stacked') <= group'
      BY <2>1, <2>3 DEF CommitGroupFails
    <3> QED
      BY <3>1, <1>m, JamsExactly
  <2> QED
    BY <2>1, <2>2, <2>3
<1> QED
  BY <1>1, <1>2, <1>3, <1>4, <1>5, <1>6, <1>7, <1>8, <1>9 DEF ThreadStep

\* Every step keeps the buffer within its size, but for the two that overrun it.
LEMMA FilledNext ==
  ASSUME IInv, Filled, [Next]_vars
  PROVE  Filled'
<1>1. CASE UNCHANGED vars
  BY <1>1 DEF vars, memVars, histVars, Filled, Flushing
<1>2. ASSUME NEW t \in Threads, ThreadStep(t)
      PROVE  Filled'
  BY <1>2, FilledThread
<1>3. CASE Close \/ Crash \/ LosePower
  <2>1. Forget /\ state' # "overrun"
    BY <1>3 DEF Close, Crash, LosePower, Down
  <2> QED
    BY <2>1, EmptyBuffer DEF Forget
<1>4. CASE Reopen
  <2>1. state' # "overrun" /\ stacked = << >> /\ UNCHANGED <<stacked, group>> /\ group \in Nat
    BY <1>4 DEF Reopen, IInv, Quiet, Types
  <2> QED
    BY <2>1, EmptyBuffer
<1>5. ASSUME NEW t \in Threads, StoreOverruns(t)
      PROVE  Filled'
  <2>1. /\ op[t].step = "index" /\ Locked(t) /\ group > 0 /\ Len(stacked) >= group
        /\ stacked' = << >> /\ group' = 0 /\ jammed' = jammed
    BY <1>5 DEF StoreOverruns, At, Forget, histVars
  <2>2. ~Flushing
    BY <2>1, AloneInside DEF Flushing
  <2>3. stacked # << >> /\ Len(stacked) = group
    BY <2>1 DEF IInv, Types, Filled
  <2> QED
    BY <2>1, <2>2, <2>3 DEF Filled
<1>6. ASSUME NEW t \in Threads, ResizeOverruns(t)
      PROVE  Filled'
  BY <1>6 DEF ResizeOverruns, Forget, Filled
<1> QED
  BY <1>1, <1>2, <1>3, <1>4, <1>5, <1>6, NextSplit DEF Overruns

\* m_stacked_mappings is overrun only where set_index_group_commit() made it as
\* small as what it held, or where a flush of the buffer had failed and left it
\* full: whatever the sizes it is set to, and whichever appends fail.
THEOREM BufferFits == Spec => []GroupFits
<1>1. IInv /\ Filled /\ [Next]_vars => Filled'
  BY FilledNext
<1>2. Filled => GroupFits
  BY DEF Filled, GroupFits
<1> QED
  BY <1>1, <1>2, FilledInit, Invariance, NextOK, PTL DEF Spec
-----------------------------------------------------------------------------
(* Replaying a log *)

\* A non-empty set of numbers has a least one.
LEMMA Least ==
  ASSUME NEW S, S \subseteq Nat, S # {}
  PROVE  \E x \in S : \A y \in S : x <= y
<1>1. PICK x \in S : \A y \in S : ~(<<y, x>> \in OpToRel(<, Nat))
  BY NatLessThanWellFounded, WFMin
<1>2. ASSUME NEW y \in S PROVE x <= y
  <2>1. x \in Nat /\ y \in Nat
    OBVIOUS
  <2>2. ~(y < x)
    BY <1>1, <2>1 DEF OpToRel
  <2> QED
    BY <2>1, <2>2
<1> QED
  BY <1>2

\* One turn of the loop that replays a log.
Turn(log, f, i) ==
  IF i = 0 THEN {}
  ELSE IF log[i] = Invalid THEN f[i - 1] ELSE Insert(f[i - 1], log[i])
Replays(log, n, f) == f = [i \in 0..n |-> Turn(log, f, i)]

\* The loop runs to its end, however long the log is.
LEMMA LoopRuns ==
  ASSUME NEW log, NEW n \in Nat
  PROVE  \E f : Replays(log, n, f)
<1> DEFINE bad == {k \in Nat : ~\E f : Replays(log, k, f)}
<1>1. SUFFICES ASSUME bad # {} PROVE FALSE
  OBVIOUS
<1>2. PICK k \in bad : \A y \in bad : k <= y
  BY <1>1, Least
<1>3. k \in Nat /\ ~\E f : Replays(log, k, f)
  OBVIOUS
<1>4. CASE k = 0
  <2> DEFINE f == [i \in 0..0 |-> {}]
  <2>1. f = [i \in 0..0 |-> Turn(log, f, i)]
    BY DEF Turn
  <2> QED
    BY <2>1, <1>3, <1>4 DEF Replays
<1>5. CASE k > 0
  <2>1. k - 1 \in Nat /\ k - 1 \notin bad
    BY <1>2, <1>3, <1>5
  <2>2. PICK h : Replays(log, k - 1, h)
    BY <2>1
  <2> DEFINE f == [i \in 0..k |-> IF i < k THEN h[i] ELSE Turn(log, h, k)]
  <2>3. \A i \in 0..(k - 1) : h[i] = Turn(log, h, i)
    BY <2>2 DEF Replays
  <2>4. ASSUME NEW i \in 0..k
        PROVE  f[i] = Turn(log, f, i)
    <3>1. i # 0 => f[i - 1] = h[i - 1]
      BY <1>3, <1>5
    <3>2. Turn(log, f, i) = Turn(log, h, i)
      BY <3>1 DEF Turn
    <3>3. f[i] = Turn(log, h, i)
      BY <2>3, <1>3
    <3> QED
      BY <3>2, <3>3
  <2>5. f = [i \in 0..k |-> f[i]]
    OBVIOUS
  <2> HIDE DEF f
  <2>6. Replays(log, k, f)
    BY <2>4, <2>5 DEF Replays
  <2> QED
    BY <2>6, <1>3
<1> QED
  BY <1>3, <1>4, <1>5

\* What Replay() computes, as the loop's invariant sees it.
LEMMA ReplayLoop ==
  ASSUME NEW log, Len(log) \in Nat
  PROVE  \E f : Replays(log, Len(log), f) /\ Replay(log) = f[Len(log)]
<1> DEFINE f == CHOOSE f : Replays(log, Len(log), f)
<1>1. Replays(log, Len(log), f)
  BY LoopRuns
<1>2. Replay(log) = f[Len(log)]
  BY DEF Replay, Replays, Turn
<1> QED
  BY <1>1, <1>2
-----------------------------------------------------------------------------
(* What sectors read *)

\* What a mapping reads for a sector, and a set of mappings, in a data file d.
ValueIn(d, x, s) == IF x.zeroed THEN Zeros ELSE d[(x.moffset + (s - x.offset)) - 7]
ContentIn(d, ms, s) ==
  LET hits == {m \in ms : Covers(m, s) /\ ~m.zeroed}
      at(m) == m.moffset + (s - m.offset) - HeaderSectors + 1
  IN IF hits = {} THEN Zeros
     ELSE LET m == CHOOSE m \in hits : TRUE
          IN IF at(m) \in DOMAIN d THEN d[at(m)] ELSE Zeros

\* An index whose mappings lie on the disk and have their data in a file of n
\* sectors.
IndexOK(ms, n) ==
  /\ IsFiniteSet(ms) /\ ms \subseteq Requests /\ Disjoint(ms)
  /\ \A x \in ms : Backed(x, n)

\* The fields of a request's mapping.
LEMMA RequestFields ==
  ASSUME NEW x \in Requests
  PROVE  /\ x \in Fields /\ x # Invalid /\ x.offset \in Nat /\ x.length \in Nat /\ x.length > 0
         /\ x.moffset \in Nat /\ x.zeroed \in BOOLEAN /\ End(x) = x.offset + x.length
         /\ End(x) \in Nat /\ End(x) <= NSectors
<1>1. x \in Fields /\ x.length > 0 /\ End(x) <= NSectors
  BY DEF Requests
<1>2. x.offset \in Nat /\ x.length \in Nat /\ x.moffset \in Nat /\ x.zeroed \in BOOLEAN
  BY <1>1 DEF Fields
<1>3. x # Invalid
  BY <1>2 DEF Invalid, Mapping
<1> QED
  BY <1>1, <1>2, <1>3 DEF End

\* Where such mappings in a sequence begin and end.
LEMMA RequestBounds ==
  ASSUME NEW b \in Seq(Requests), NEW i \in 1..Len(b)
  PROVE  b[i].offset \in Nat /\ End(b[i]) \in Nat /\ b[i].offset < End(b[i])
<1>1. PICK x \in Requests : x = b[i]
  OBVIOUS
<1>2. /\ x.offset \in Nat /\ x.length \in Nat /\ x.length > 0 /\ End(x) = x.offset + x.length
  BY RequestFields
<1>3. End(x) \in Nat /\ x.offset < End(x)
  BY <1>2
<1> QED
  BY <1>1, <1>2, <1>3

\* The data of a sector that a mapping covers is in the data file.
LEMMA InFile ==
  ASSUME NEW x \in Requests, NEW n \in Nat, Backed(x, n), NEW s \in Sectors, Covers(x, s),
         ~x.zeroed
  PROVE  (x.moffset + (s - x.offset)) - 7 \in 1..n
<1>1. /\ x # Invalid /\ x.offset \in Nat /\ x.length \in Nat /\ x.moffset \in Nat
      /\ End(x) = x.offset + x.length
  BY RequestFields
<1>2. Within(x, 8, 8 + n)
  BY <1>1 DEF Backed, HeaderSectors
<1>3. 8 <= x.moffset /\ x.moffset + x.length <= 8 + n
  BY <1>2 DEF Within, Mend
<1>4. s \in Int /\ x.offset <= s /\ s < x.offset + x.length
  BY <1>1, FileAssumption DEF Covers, Sectors
<1> QED
  BY <1>1, <1>3, <1>4

\* A sector reads what the mapping that covers it says.
LEMMA ContentCovered ==
  ASSUME NEW d \in Seq(Cells), NEW ms, IndexOK(ms, Len(d)), NEW x \in ms, NEW s \in Sectors,
         Covers(x, s)
  PROVE  ContentIn(d, ms, s) = ValueIn(d, x, s)
<1> DEFINE hits == {m \in ms : Covers(m, s) /\ ~m.zeroed}
<1>1. x \in Requests /\ Backed(x, Len(d)) /\ Len(d) \in Nat
  BY DEF IndexOK
<1>2. ASSUME NEW y \in ms, Covers(y, s)
      PROVE  y = x
  <2>1. y \in Requests
    BY DEF IndexOK
  <2>2. /\ x.offset \in Nat /\ End(x) \in Nat /\ y.offset \in Nat /\ End(y) \in Nat /\ s \in Int
    BY <1>1, <2>1, RequestFields, FileAssumption DEF Sectors
  <2>3. Overlap(x, y)
    BY <2>2, <1>2 DEF Overlap, Covers
  <2> QED
    BY <2>3 DEF IndexOK, Disjoint
<1>3. CASE x.zeroed
  <2>1. hits = {}
    BY <1>2, <1>3
  <2> QED
    BY <2>1, <1>3 DEF ContentIn, ValueIn
<1>4. CASE ~x.zeroed
  <2>1. hits = {x}
    BY <1>2, <1>4
  <2>2. (CHOOSE m \in hits : TRUE) = x
    BY <2>1
  <2> DEFINE a == x.moffset + (s - x.offset) - HeaderSectors + 1
             b == (x.moffset + (s - x.offset)) - 7
  <2>3. b \in 1..Len(d)
    BY <1>1, <1>4, InFile
  <2>4. a = b
    <3>1. x.moffset \in Nat /\ x.offset \in Nat /\ s \in Int
      BY <1>1, RequestFields, FileAssumption DEF Sectors
    <3> QED
      BY <3>1 DEF HeaderSectors
  <2>5. DOMAIN d = 1..Len(d)
    OBVIOUS
  <2>6. ContentIn(d, ms, s) = IF a \in DOMAIN d THEN d[a] ELSE Zeros
    BY <2>1, <2>2 DEF ContentIn
  <2> HIDE DEF a, b
  <2>7. ContentIn(d, ms, s) = d[b]
    BY <2>3, <2>4, <2>5, <2>6
  <2> QED
    BY <2>7, <1>4 DEF ValueIn, b
<1> QED
  BY <1>3, <1>4

\* A sector that no mapping covers reads as zeros.
LEMMA ContentHole ==
  ASSUME NEW d, NEW ms, NEW s, \A x \in ms : ~Covers(x, s)
  PROVE  ContentIn(d, ms, s) = Zeros
BY DEF ContentIn

\* A file that grows keeps what it had.
Extends(a, b) == Len(a) <= Len(b) /\ \A i \in 1..Len(a) : b[i] = a[i]

\* A mapping reads the same in a data file that has grown.
LEMMA ValueKept ==
  ASSUME NEW d \in Seq(Cells), NEW e \in Seq(Cells), Extends(d, e), NEW x \in Requests,
         Backed(x, Len(d)), NEW s \in Sectors, Covers(x, s)
  PROVE  Backed(x, Len(e)) /\ ValueIn(e, x, s) = ValueIn(d, x, s)
<1>1. Len(d) \in Nat /\ Len(e) \in Nat /\ x \in Logged
  BY DEF Logged
<1>2. Backed(x, Len(e))
  BY <1>1, BackedMore DEF Extends
<1>3. ASSUME ~x.zeroed
      PROVE  e[(x.moffset + (s - x.offset)) - 7] = d[(x.moffset + (s - x.offset)) - 7]
  BY <1>1, <1>3, InFile DEF Extends
<1> QED
  BY <1>2, <1>3 DEF ValueIn

\* ... and so does an index.
LEMMA ContentKept ==
  ASSUME NEW d \in Seq(Cells), NEW e \in Seq(Cells), Extends(d, e), NEW ms, IndexOK(ms, Len(d)),
         NEW s \in Sectors
  PROVE  IndexOK(ms, Len(e)) /\ ContentIn(e, ms, s) = ContentIn(d, ms, s)
<1>1. Len(d) \in Nat /\ Len(e) \in Nat /\ Len(d) <= Len(e)
  BY DEF Extends
<1>2. \A x \in ms : x \in Requests /\ x \in Logged /\ Backed(x, Len(d))
  BY DEF IndexOK, Logged
<1>3. IndexOK(ms, Len(e))
  BY <1>1, <1>2, BackedMore DEF IndexOK
<1>4. CASE \E x \in ms : Covers(x, s)
  <2>1. PICK x \in ms : Covers(x, s)
    BY <1>4
  <2>2. ValueIn(e, x, s) = ValueIn(d, x, s)
    BY <2>1, <1>2, ValueKept
  <2> QED
    BY <2>1, <2>2, <1>3, ContentCovered
<1>5. CASE ~\E x \in ms : Covers(x, s)
  BY <1>5, <1>3, ContentHole
<1> QED
  BY <1>4, <1>5
\* A piece of a mapping lies on the disk, with its data in the file.
LEMMA PieceOK ==
  ASSUME NEW n \in Nat, NEW p \in Requests, Backed(p, n), NEW x, PieceOf(x, p)
  PROVE  x \in Requests /\ Backed(x, n)
<1>1. /\ p # Invalid /\ p.offset \in Nat /\ p.length \in Nat /\ p.moffset \in Nat
      /\ End(p) = p.offset + p.length /\ End(p) <= NSectors
  BY RequestFields
<1>2. /\ x \in Fields /\ x.length > 0 /\ p.offset <= x.offset /\ End(x) <= End(p)
      /\ x.zeroed = p.zeroed
      /\ x.moffset = IF p.zeroed THEN p.moffset ELSE p.moffset + (x.offset - p.offset)
  BY DEF PieceOf
<1>3. x.offset \in Nat /\ x.length \in Nat /\ x.moffset \in Nat /\ End(x) = x.offset + x.length
  BY <1>2 DEF Fields, End
<1>4. NSectors \in Nat
  BY FileAssumption
<1>5. x \in Requests
  BY <1>1, <1>2, <1>3, <1>4 DEF Requests
<1>6. Within(p, 8, 8 + n)
  BY <1>1 DEF Backed, HeaderSectors
<1>7. Within(x, 8, 8 + n)
  <2>1. CASE p.zeroed
    BY <2>1, <1>2, <1>6 DEF Within
  <2>2. CASE ~p.zeroed
    <3>1. 8 <= p.moffset /\ p.moffset + p.length <= 8 + n
      BY <2>2, <1>6 DEF Within, Mend
    <3>2. x.moffset = p.moffset + (x.offset - p.offset) /\ ~x.zeroed
      BY <2>2, <1>2
    <3>3. /\ 8 <= x.moffset /\ x.moffset < 8 + n /\ 8 < x.moffset + x.length
          /\ x.moffset + x.length <= 8 + n
      BY <3>1, <3>2, <1>1, <1>2, <1>3
    <3> QED
      BY <3>2, <3>3 DEF Within, Mend
  <2> QED
    BY <2>1, <2>2
<1> QED
  BY <1>5, <1>7 DEF Backed, HeaderSectors

\* insert() keeps the index on the disk, with its data in the file.
LEMMA InsertOK ==
  ASSUME NEW n \in Nat, NEW ms, IndexOK(ms, n), NEW m \in Requests, Backed(m, n)
  PROVE  IndexOK(Insert(ms, m), n)
<1>1. ms \in SUBSET Fields /\ Positive(ms) /\ m \in Fields /\ m.length > 0 /\ Disjoint(ms)
  BY DEF IndexOK, Requests, Positive
<1>2. /\ Insert(ms, m) \in SUBSET Fields /\ Positive(Insert(ms, m)) /\ Disjoint(Insert(ms, m))
  BY <1>1, InsertDisjoint
<1>3. Insert(ms, m) = (UNION {LeftOf(ms, m, p) : p \in ms}) \union {m}
  BY <1>1, InsertIsLeft
<1>4. ASSUME NEW x \in Insert(ms, m)
      PROVE  x \in Requests /\ Backed(x, n)
  <2>1. CASE x = m
    BY <2>1
  <2>2. CASE \E p \in ms : x \in LeftOf(ms, m, p)
    <3>1. PICK p \in ms : x \in LeftOf(ms, m, p)
      BY <2>2
    <3>2. PieceOf(x, p)
      BY <3>1, <1>1, LeftBeside
    <3>3. p \in Requests /\ Backed(p, n)
      BY DEF IndexOK
    <3> QED
      BY <3>2, <3>3, PieceOK
  <2> QED
    BY <2>1, <2>2, <1>3
<1>5. IsFiniteSet(Insert(ms, m))
  <2>1. ASSUME NEW p \in ms
        PROVE  IsFiniteSet(LeftOf(ms, m, p))
    <3> DEFINE b == BackwardEndTo(p, m.offset)
               f == ForwardOffsetTo(p, End(m))
    <3>1. LeftOf(ms, m, p) \subseteq {b, f, p}
      BY DEF LeftOf, PartialOverlap
    <3> HIDE DEF b, f
    <3>2. IsFiniteSet({b, f, p})
      <4>1. IsFiniteSet({})
        BY FS_EmptySet
      <4>2. IsFiniteSet({} \union {b})
        BY <4>1, FS_AddElement
      <4>3. IsFiniteSet(({} \union {b}) \union {f})
        BY <4>2, FS_AddElement
      <4>4. IsFiniteSet((({} \union {b}) \union {f}) \union {p})
        BY <4>3, FS_AddElement
      <4>5. {b, f, p} = (({} \union {b}) \union {f}) \union {p}
        OBVIOUS
      <4> QED
        BY <4>4, <4>5
    <3> QED
      BY <3>1, <3>2, FS_Subset
  <2> DEFINE T == {LeftOf(ms, m, p) : p \in ms}
  <2>2. IsFiniteSet(ms)
    BY DEF IndexOK
  <2>3. IsFiniteSet(T)
    <3> DEFINE g == [p \in ms |-> LeftOf(ms, m, p)]
    <3>1. g \in [ms -> T] /\ \A A \in T : \E p \in ms : g[p] = A
      OBVIOUS
    <3> HIDE DEF g, T
    <3>2. g \in Surjection(ms, T)
      BY <3>1 DEF Surjection
    <3> QED
      BY <3>2, <2>2, FS_Surjection
  <2>4. \A A \in T : IsFiniteSet(A)
    BY <2>1
  <2> HIDE DEF T
  <2>5. IsFiniteSet(UNION T)
    BY <2>3, <2>4, FS_UNION
  <2>6. IsFiniteSet((UNION T) \union {m})
    BY <2>5, FS_AddElement
  <2> QED
    BY <2>6, <1>3 DEF T
<1> QED
  BY <1>2, <1>4, <1>5 DEF IndexOK

\* A sector reads what is at its place.
LEMMA ContentOfPlace ==
  ASSUME NEW d \in Seq(Cells), NEW ms, IndexOK(ms, Len(d)), NEW x \in Requests,
         NEW s \in Sectors, Covers(x, s), Place(x, s) \in Places(ms, s)
  PROVE  ContentIn(d, ms, s) = ValueIn(d, x, s)
<1>1. PICK y \in ms : Covers(y, s) /\ Place(x, s) = Place(y, s)
  BY DEF Places
<1>2. ContentIn(d, ms, s) = ValueIn(d, y, s)
  BY <1>1, ContentCovered
<1>3. y \in Requests
  BY DEF IndexOK
<1>4. /\ x.zeroed = y.zeroed
      /\ (IF x.zeroed THEN 0 ELSE x.moffset + (s - x.offset)) =
         (IF y.zeroed THEN 0 ELSE y.moffset + (s - y.offset))
  BY <1>1 DEF Place
<1>5. CASE x.zeroed
  BY <1>2, <1>4, <1>5 DEF ValueIn
<1>6. CASE ~x.zeroed
  <2>b. x.moffset + (s - x.offset) = y.moffset + (s - y.offset)
    BY <1>4, <1>6
  <2> DEFINE px == x.moffset + (s - x.offset)
             py == y.moffset + (s - y.offset)
  <2>c. px = py
    BY <2>b
  <2>d. ValueIn(d, x, s) = d[px - 7] /\ ValueIn(d, y, s) = d[py - 7]
    BY <1>4, <1>6 DEF ValueIn
  <2> HIDE DEF px, py
  <2> QED
    BY <2>c, <2>d, <1>2
<1> QED
  BY <1>5, <1>6

\* What insert() changes is what the sectors of the new mapping read.
LEMMA InsertContent ==
  ASSUME NEW d \in Seq(Cells), NEW ms, IndexOK(ms, Len(d)), NEW m \in Requests,
         Backed(m, Len(d)), NEW s \in Sectors
  PROVE  ContentIn(d, Insert(ms, m), s) =
           IF Covers(m, s) THEN ValueIn(d, m, s) ELSE ContentIn(d, ms, s)
<1>0. Len(d) \in Nat /\ s \in Nat
  BY FileAssumption DEF Sectors
<1>1. ms \in SUBSET Fields /\ Positive(ms) /\ m \in Fields /\ m.length > 0 /\ Disjoint(ms)
  BY DEF IndexOK, Requests, Positive
<1>2. IndexOK(Insert(ms, m), Len(d))
  BY <1>0, InsertOK
<1>3. Places(Insert(ms, m), s) = IF Covers(m, s) THEN {Place(m, s)} ELSE Places(ms, s)
  BY <1>0, <1>1, InsertReads
<1>4. CASE Covers(m, s)
  BY <1>2, <1>3, <1>4, ContentOfPlace
<1>5. CASE ~Covers(m, s) /\ \E x \in ms : Covers(x, s)
  <2>1. PICK x \in ms : Covers(x, s)
    BY <1>5
  <2>2. x \in Requests /\ Place(x, s) \in Places(Insert(ms, m), s)
    BY <2>1, <1>3, <1>5 DEF Places, IndexOK
  <2>3. ContentIn(d, Insert(ms, m), s) = ValueIn(d, x, s)
    BY <2>1, <2>2, <1>2, ContentOfPlace
  <2> QED
    BY <2>1, <2>3, <1>5, ContentCovered
<1>6. CASE ~Covers(m, s) /\ ~\E x \in ms : Covers(x, s)
  <2>1. Places(Insert(ms, m), s) = {}
    BY <1>3, <1>6 DEF Places
  <2>2. \A x \in Insert(ms, m) : ~Covers(x, s)
    BY <2>1 DEF Places
  <2> QED
    BY <2>2, <1>6, ContentHole
<1> QED
  BY <1>4, <1>5, <1>6
\* How many of the first n mappings of a log cover a sector.
CoverSet(log, n, s) == {j \in 1..n : Covers(log[j], s)}
Cover(log, n, s) == Cardinality(CoverSet(log, n, s))

\* The count is a number.
LEMMA CoverNat ==
  ASSUME NEW log, NEW n \in Nat, NEW s
  PROVE  IsFiniteSet(CoverSet(log, n, s)) /\ Cover(log, n, s) \in Nat
<1>1. IsFiniteSet(1..n)
  BY FS_Interval
<1>2. CoverSet(log, n, s) \in SUBSET (1..n)
  BY DEF CoverSet
<1>3. IsFiniteSet(CoverSet(log, n, s))
  BY <1>1, <1>2, FS_Subset
<1> QED
  BY <1>3, FS_CardinalityType DEF Cover

\* It depends on the first n mappings only.
LEMMA CoverSame ==
  ASSUME NEW log, NEW other, NEW n \in Nat, NEW s, \A j \in 1..n : log[j] = other[j]
  PROVE  Cover(log, n, s) = Cover(other, n, s)
<1>1. CoverSet(log, n, s) = CoverSet(other, n, s)
  BY DEF CoverSet
<1> QED
  BY <1>1 DEF Cover

\* It grows by at most one with each.
LEMMA CoverNext ==
  ASSUME NEW log, NEW n \in Nat, NEW s
  PROVE  Cover(log, n + 1, s) =
           IF Covers(log[n + 1], s) THEN Cover(log, n, s) + 1 ELSE Cover(log, n, s)
<1>1. IsFiniteSet(CoverSet(log, n, s)) /\ n + 1 \notin CoverSet(log, n, s)
  BY CoverNat DEF CoverSet
<1>2. CASE Covers(log[n + 1], s)
  <2>1. CoverSet(log, n + 1, s) = CoverSet(log, n, s) \union {n + 1}
    BY <1>2 DEF CoverSet
  <2> QED
    BY <2>1, <1>1, <1>2, FS_AddElement DEF Cover
<1>3. CASE ~Covers(log[n + 1], s)
  <2>1. CoverSet(log, n + 1, s) = CoverSet(log, n, s)
    BY <1>3 DEF CoverSet
  <2> QED
    BY <2>1, <1>3 DEF Cover
<1> QED
  BY <1>2, <1>3

\* It never falls, and stays where nothing covers the sector.
LEMMA CoverMore ==
  ASSUME NEW log, NEW n \in Nat, NEW k \in Nat, n <= k, NEW s
  PROVE  /\ Cover(log, n, s) <= Cover(log, k, s)
         /\ (\A j \in (n + 1)..k : ~Covers(log[j], s)) => Cover(log, n, s) = Cover(log, k, s)
         /\ (\E j \in (n + 1)..k : Covers(log[j], s)) => Cover(log, n, s) < Cover(log, k, s)
<1>1. IsFiniteSet(CoverSet(log, k, s)) /\ IsFiniteSet(CoverSet(log, n, s))
  BY CoverNat
<1>2. CoverSet(log, n, s) \in SUBSET CoverSet(log, k, s)
  BY DEF CoverSet
<1>3. /\ Cardinality(CoverSet(log, n, s)) <= Cardinality(CoverSet(log, k, s))
      /\ Cardinality(CoverSet(log, k, s)) = Cardinality(CoverSet(log, n, s)) =>
           CoverSet(log, k, s) = CoverSet(log, n, s)
  BY <1>1, <1>2, FS_Subset
<1>4. ASSUME \A j \in (n + 1)..k : ~Covers(log[j], s)
      PROVE  CoverSet(log, n, s) = CoverSet(log, k, s)
  BY <1>4 DEF CoverSet
<1>5. ASSUME \E j \in (n + 1)..k : Covers(log[j], s)
      PROVE  CoverSet(log, n, s) # CoverSet(log, k, s)
  BY <1>5 DEF CoverSet
<1>6. Cover(log, n, s) \in Nat /\ Cover(log, k, s) \in Nat
  BY CoverNat
<1> QED
  BY <1>3, <1>4, <1>5, <1>6 DEF Cover

\* A log that covers nothing counts nothing.
LEMMA CoverNone ==
  ASSUME NEW log, NEW s
  PROVE  Cover(log, 0, s) = 0
<1>1. CoverSet(log, 0, s) = {}
  BY DEF CoverSet
<1> QED
  BY <1>1, FS_EmptySet DEF Cover

\* The index a prefix of a log builds reads each sector where the last mapping of
\* the prefix that covers it says.
Shown(log, i, ms, s) ==
  \/ Places(ms, s) = {} /\ \A j \in 1..i : ~Covers(log[j], s)
  \/ \E j \in 1..i : /\ Covers(log[j], s) /\ Places(ms, s) = {Place(log[j], s)}
                     /\ \A k \in (j + 1)..i : ~Covers(log[k], s)

\* One turn of the loop.
LEMMA TurnShows ==
  ASSUME NEW n \in Nat, NEW log \in Seq(Logged), NEW i \in 1..Len(log), Backed(log[i], n),
         NEW ms, IndexOK(ms, n), \A s \in Sectors : Shown(log, i - 1, ms, s),
         NEW new, new = IF log[i] = Invalid THEN ms ELSE Insert(ms, log[i])
  PROVE  IndexOK(new, n) /\ \A s \in Sectors : Shown(log, i, new, s)
<1>0. /\ i \in Nat /\ i - 1 \in Nat /\ log[i] \in Logged /\ i - 1 + 1 = i
      /\ \A s \in Sectors : s \in Nat
  BY FileAssumption DEF Sectors
<1>1. CASE log[i] = Invalid
  <2>1. \A s \in Sectors : ~Covers(log[i], s)
    BY <1>1, FileAssumption DEF Invalid, Mapping, Covers, End, Sectors
  <2>2. ASSUME NEW s \in Sectors PROVE Shown(log, i, ms, s)
    BY <2>1, <1>0 DEF Shown
  <2> QED
    BY <2>2, <1>1
<1>2. CASE log[i] # Invalid
  <2>1. log[i] \in Requests /\ new = Insert(ms, log[i])
    BY <1>0, <1>2 DEF Logged
  <2>2. IndexOK(new, n)
    BY <2>1, InsertOK
  <2>3. /\ ms \in SUBSET Fields /\ Positive(ms) /\ log[i] \in Fields /\ log[i].length > 0
        /\ Disjoint(ms)
    BY <2>1 DEF IndexOK, Requests, Positive
  <2>4. ASSUME NEW s \in Sectors PROVE Shown(log, i, new, s)
    <3>1. Places(new, s) = IF Covers(log[i], s) THEN {Place(log[i], s)} ELSE Places(ms, s)
      BY <2>1, <2>3, <1>0, InsertReads
    <3>2. CASE Covers(log[i], s)
      <4>1. \A k \in (i + 1)..i : ~Covers(log[k], s)
        BY <1>0
      <4>2. i \in 1..i
        BY <1>0
      <4>3. Places(new, s) = {Place(log[i], s)}
        BY <3>1, <3>2
      <4> QED
        BY <3>2, <4>1, <4>2, <4>3 DEF Shown
    <3>3. CASE ~Covers(log[i], s)
      <4>1. Places(new, s) = Places(ms, s) /\ Shown(log, i - 1, ms, s)
        BY <3>1, <3>3
      <4> QED
        BY <4>1, <3>3, <1>0 DEF Shown
    <3> QED
      BY <3>2, <3>3
  <2> QED
    BY <2>2, <2>4
<1> QED
  BY <1>1, <1>2

\* The index that Index0's constructor rebuilds from a log of any length reads each
\* sector where the last mapping of the log that covers it says, padding apart.
THEOREM ReplayShows ==
  ASSUME NEW n \in Nat, NEW log \in Seq(Logged), \A i \in 1..Len(log) : Backed(log[i], n)
  PROVE  IndexOK(Replay(log), n) /\ \A s \in Sectors : Shown(log, Len(log), Replay(log), s)
<1>0. Len(log) \in Nat
  OBVIOUS
<1>1. PICK f : Replays(log, Len(log), f) /\ Replay(log) = f[Len(log)]
  BY <1>0, ReplayLoop
<1>2. \A i \in 0..Len(log) : f[i] = Turn(log, f, i)
  BY <1>1 DEF Replays
<1> DEFINE Good(i) == IndexOK(f[i], n) /\ \A s \in Sectors : Shown(log, i, f[i], s)
           bad == {i \in 0..Len(log) : ~Good(i)}
<1>3. Good(0)
  <2>1. f[0] = {}
    BY <1>0, <1>2 DEF Turn
  <2>2. IndexOK({}, n)
    BY FS_EmptySet DEF IndexOK, Disjoint
  <2>3. \A s \in Sectors : Shown(log, 0, {}, s)
    BY DEF Shown, Places
  <2> QED
    BY <2>1, <2>2, <2>3
<1>4. ASSUME NEW i \in 1..Len(log), Good(i - 1)
      PROVE  Good(i)
  <2>1. f[i] = IF log[i] = Invalid THEN f[i - 1] ELSE Insert(f[i - 1], log[i])
    BY <1>0, <1>2 DEF Turn
  <2>2. /\ Backed(log[i], n) /\ IndexOK(f[i - 1], n)
        /\ \A s \in Sectors : Shown(log, i - 1, f[i - 1], s)
    BY <1>4
  <2> QED
    BY <2>1, <2>2, TurnShows
<1> HIDE DEF Good
<1>5. bad = {}
  <2>1. SUFFICES ASSUME bad # {} PROVE FALSE
    OBVIOUS
  <2>2. bad \subseteq Nat
    BY <1>0
  <2>3. PICK k \in bad : \A y \in bad : k <= y
    BY <2>1, <2>2, Least
  <2>4. k \in 0..Len(log) /\ ~Good(k)
    OBVIOUS
  <2>5. k \in 1..Len(log) /\ k - 1 \in 0..Len(log) /\ ~(k <= k - 1)
    BY <2>4, <1>3, <1>0
  <2>6. Good(k - 1)
    BY <2>3, <2>5
  <2> QED
    BY <2>4, <2>5, <2>6, <1>4
<1>6. Good(Len(log))
  BY <1>5, <1>0
<1> QED
  BY <1>1, <1>6 DEF Good
-----------------------------------------------------------------------------
(* Index0::lookup() *)

\* Mappings that lie on the disk and do not overlap.
Apart(ms) == IsFiniteSet(ms) /\ ms \subseteq Requests /\ Disjoint(ms)
BeforeOf(ms, m) == {x \in ms : x.offset < m.offset}

\* Of two of them one lies before the other.
LEMMA ApartOrder ==
  ASSUME NEW ms, Apart(ms), NEW x \in ms, NEW y \in ms, x # y
  PROVE  (x.offset < y.offset /\ End(x) <= y.offset) \/ (y.offset < x.offset /\ End(y) <= x.offset)
<1>1. x \in Requests /\ y \in Requests /\ ~Overlap(x, y)
  BY DEF Apart, Disjoint
<1>2. /\ x.offset \in Nat /\ x.length \in Nat /\ x.length > 0 /\ End(x) = x.offset + x.length
      /\ y.offset \in Nat /\ y.length \in Nat /\ y.length > 0 /\ End(y) = y.offset + y.length
  BY <1>1, RequestFields
<1> QED
  BY <1>1, <1>2 DEF Overlap

\* The place of a mapping in the order of the set.
LEMMA Ranks ==
  ASSUME NEW ms, Apart(ms), NEW m \in ms
  PROVE  Rank(ms, m) + 1 \in 1..Cardinality(ms) /\ Rank(ms, m) \in Nat
<1>1. IsFiniteSet(ms) /\ Cardinality(ms) \in Nat
  BY FS_CardinalityType DEF Apart
<1>2. IsFiniteSet(ms \ {m}) /\ Cardinality(ms \ {m}) = Cardinality(ms) - 1
  BY <1>1, FS_RemoveElement
<1>3. m.offset \in Nat
  BY RequestFields DEF Apart
<1>4. BeforeOf(ms, m) \in SUBSET (ms \ {m})
  BY <1>3 DEF BeforeOf
<1>5. IsFiniteSet(BeforeOf(ms, m)) /\ Cardinality(BeforeOf(ms, m)) <= Cardinality(ms \ {m})
  BY <1>2, <1>4, FS_Subset
<1>6. Cardinality(BeforeOf(ms, m)) \in Nat
  BY <1>5, FS_CardinalityType
<1>7. Rank(ms, m) = Cardinality(BeforeOf(ms, m))
  BY DEF Rank, BeforeOf
<1> QED
  BY <1>1, <1>2, <1>5, <1>6, <1>7

\* A mapping that begins earlier has the lower rank.
LEMMA RankOrder ==
  ASSUME NEW ms, Apart(ms), NEW x \in ms, NEW y \in ms, x.offset < y.offset
  PROVE  Rank(ms, x) < Rank(ms, y)
<1>1. x.offset \in Nat /\ y.offset \in Nat /\ \A z \in ms : z.offset \in Nat
  BY RequestFields DEF Apart
<1>2. IsFiniteSet(ms) /\ BeforeOf(ms, x) \in SUBSET ms /\ BeforeOf(ms, y) \in SUBSET ms
  BY DEF Apart, BeforeOf
<1>3. IsFiniteSet(BeforeOf(ms, x)) /\ IsFiniteSet(BeforeOf(ms, y))
  BY <1>2, FS_Subset
<1>4. x \notin BeforeOf(ms, x) /\ BeforeOf(ms, x) \union {x} \in SUBSET BeforeOf(ms, y)
  BY <1>1 DEF BeforeOf
<1>5. Cardinality(BeforeOf(ms, x) \union {x}) = Cardinality(BeforeOf(ms, x)) + 1
  BY <1>3, <1>4, FS_AddElement
<1>6. Cardinality(BeforeOf(ms, x) \union {x}) <= Cardinality(BeforeOf(ms, y))
  BY <1>3, <1>4, FS_Subset
<1>7. Cardinality(BeforeOf(ms, x)) \in Nat /\ Cardinality(BeforeOf(ms, y)) \in Nat
  BY <1>3, FS_CardinalityType
<1>8. Rank(ms, x) = Cardinality(BeforeOf(ms, x)) /\ Rank(ms, y) = Cardinality(BeforeOf(ms, y))
  BY DEF Rank, BeforeOf
<1> QED
  BY <1>5, <1>6, <1>7, <1>8

\* dump() has every mapping of the set, in the order of the disk.
LEMMA Dumped ==
  ASSUME NEW ms, Apart(ms)
  PROVE  /\ Dump(ms) \in Seq(Requests) /\ Len(Dump(ms)) = Cardinality(ms)
         /\ Cardinality(ms) \in Nat
         /\ \A i \in 1..Cardinality(ms) : Dump(ms)[i] \in ms
         /\ \A m \in ms : \E i \in 1..Cardinality(ms) : Dump(ms)[i] = m
         /\ \A i, j \in 1..Cardinality(ms) : i < j => End(Dump(ms)[i]) <= Dump(ms)[j].offset
<1> DEFINE n == Cardinality(ms)
           g == [m \in ms |-> Rank(ms, m) + 1]
           d == Dump(ms)
<1>0. n \in Nat /\ IsFiniteSet(ms) /\ ms \subseteq Requests
  BY FS_CardinalityType DEF Apart
<1>1. ASSUME NEW x \in ms, NEW y \in ms, Rank(ms, x) = Rank(ms, y)
      PROVE  x = y
  <2>1. CASE x # y
    <3>1. x.offset < y.offset \/ y.offset < x.offset
      BY <2>1, ApartOrder
    <3>2. Rank(ms, x) \in Nat /\ Rank(ms, y) \in Nat
      BY Ranks
    <3> QED
      BY <3>1, <3>2, <1>1, RankOrder
  <2> QED
    BY <2>1
<1>2. \A i \in 1..n : \E m \in ms : Rank(ms, m) = i - 1
  <2>1. g \in [ms -> 1..n]
    BY Ranks
  <2>2. \A x, y \in ms : g[x] = g[y] => x = y
    <3>1. \A m \in ms : Rank(ms, m) \in Nat
      BY Ranks
    <3> QED
      BY <3>1, <1>1
  <2>3. g \in Injection(ms, 1..n)
    BY <2>1, <2>2 DEF Injection, IsInjective
  <2>4. IsFiniteSet(1..n) /\ Cardinality(1..n) = n
    BY <1>0, FS_Interval
  <2>5. g \in Surjection(ms, 1..n)
    BY <2>3, <2>4, FS_Injection
  <2>6. \A i \in 1..n : \E m \in ms : g[m] = i
    BY <2>5 DEF Surjection
  <2>7. ASSUME NEW i \in 1..n PROVE \E m \in ms : Rank(ms, m) = i - 1
    <3>1. PICK m \in ms : g[m] = i
      BY <2>6
    <3>2. Rank(ms, m) \in Nat
      BY Ranks
    <3> QED
      BY <3>1, <3>2
  <2> QED
    BY <2>7
<1>3. d = [i \in 1..n |-> CHOOSE m \in ms : Rank(ms, m) = i - 1]
  BY DEF Dump
<1> HIDE DEF n, d, g
<1>4. \A i \in 1..n : d[i] \in ms /\ Rank(ms, d[i]) = i - 1
  BY <1>2, <1>3
<1>5. d \in Seq(Requests) /\ Len(d) = n
  <2>1. \A i \in 1..n : d[i] \in Requests
    BY <1>0, <1>4
  <2>2. DOMAIN d = 1..n /\ d = [i \in 1..n |-> d[i]]
    BY <1>3
  <2> QED
    BY <2>1, <2>2, <1>0
<1>6. ASSUME NEW m \in ms PROVE \E i \in 1..n : d[i] = m
  <2> DEFINE i == Rank(ms, m) + 1
  <2>1. i \in 1..n /\ Rank(ms, m) \in Nat
    BY Ranks DEF n
  <2>2. d[i] \in ms /\ Rank(ms, d[i]) = Rank(ms, m)
    BY <2>1, <1>4
  <2> QED
    BY <2>1, <2>2, <1>1
<1>7. ASSUME NEW i \in 1..n, NEW j \in 1..n, i < j
      PROVE  End(d[i]) <= d[j].offset
  <2>1. d[i] \in ms /\ d[j] \in ms /\ Rank(ms, d[i]) = i - 1 /\ Rank(ms, d[j]) = j - 1
    BY <1>4
  <2>2. Rank(ms, d[i]) < Rank(ms, d[j]) /\ d[i] # d[j]
    BY <2>1, <1>7
  <2>3. ~(d[j].offset < d[i].offset)
    <3>1. SUFFICES ASSUME d[j].offset < d[i].offset PROVE FALSE
      OBVIOUS
    <3>2. Rank(ms, d[j]) < Rank(ms, d[i])
      BY <3>1, <2>1, RankOrder
    <3> QED
      BY <3>2, <2>1, <1>7
  <2> QED
    BY <2>1, <2>2, <2>3, ApartOrder
<1> QED
  BY <1>0, <1>4, <1>5, <1>6, <1>7 DEF d, n
\* What a lookup of [begin, end) in the index ms may return: pieces of its
\* mappings inside the range, in order, and all there are up to the last one, or up
\* to the end when fewer than n came back.
Found(ms, pm, begin, end, n) ==
  /\ pm \in Seq(Requests) /\ Len(pm) <= n
  /\ \A i \in 1..Len(pm) : begin <= pm[i].offset /\ End(pm[i]) <= end
  /\ \A i \in 1..Len(pm) : \E p \in ms : PieceOf(pm[i], p)
  /\ \A i, j \in 1..Len(pm) : i < j => End(pm[i]) <= pm[j].offset
  /\ \A s \in begin..(end - 1) :
       (Len(pm) < n \/ \E i \in 1..Len(pm) : s < pm[i].offset) =>
         \/ \E i \in 1..Len(pm) : Covers(pm[i], s)
         \/ \A p \in ms : ~Covers(p, s)

\* A mapping cut to a range it meets.
TrimFront(m, begin) == IF m.offset < begin THEN ForwardOffsetTo(m, begin) ELSE m
TrimBack(m, end) == IF End(m) > end THEN BackwardEndTo(m, end) ELSE m

\* trim_edge_mappings() of one mapping.
LEMMA Trimmed ==
  ASSUME NEW m \in Requests, NEW begin \in Nat, NEW end \in Nat, begin < end, end <= NSectors,
         begin < End(m), m.offset < end,
         NEW x, x = TrimBack(TrimFront(m, begin), end)
  PROVE  /\ x \in Requests /\ PieceOf(x, m) /\ begin <= x.offset /\ End(x) <= end
         /\ x.offset = (IF m.offset < begin THEN begin ELSE m.offset)
         /\ End(x) = (IF End(m) > end THEN end ELSE End(m))
<1>1. /\ m \in Fields /\ m.offset \in Nat /\ m.length \in Nat /\ m.length > 0 /\ m.moffset \in Nat
      /\ End(m) = m.offset + m.length /\ End(m) <= NSectors /\ NSectors \in Nat
  BY RequestFields, FileAssumption
<1> DEFINE f == TrimFront(m, begin)
<1>2. /\ PieceOf(f, m) /\ f.offset = (IF m.offset < begin THEN begin ELSE m.offset)
      /\ End(f) = End(m)
  <2>1. CASE m.offset < begin
    <3>1. f = ForwardOffsetTo(m, begin)
      BY <2>1 DEF TrimFront
    <3> QED
      BY <3>1, <2>1, <1>1, Trims
  <2>2. CASE ~(m.offset < begin)
    <3>1. f = m
      BY <2>2 DEF TrimFront
    <3> HIDE DEF f
    <3>2. PieceOf(m, m)
      BY <1>1 DEF PieceOf
    <3> QED
      BY <3>1, <3>2, <2>2
  <2> QED
    BY <2>1, <2>2
<1>3. f \in Fields /\ f.offset \in Nat /\ f.length \in Nat /\ f.moffset \in Nat
      /\ End(f) = f.offset + f.length /\ f.offset < end
  <2>1. f \in Fields
    BY <1>2 DEF PieceOf
  <2>2. f.offset \in Nat /\ f.length \in Nat /\ f.moffset \in Nat /\ End(f) = f.offset + f.length
    BY <2>1 DEF Fields, End
  <2> QED
    BY <2>1, <2>2, <1>1, <1>2
<1>4. x = TrimBack(f, end)
  OBVIOUS
<1> HIDE DEF f
<1>5. /\ PieceOf(x, f) /\ x.offset = f.offset /\ End(x) = (IF End(f) > end THEN end ELSE End(f))
  <2>1. CASE End(f) > end
    <3>1. x = BackwardEndTo(f, end)
      BY <2>1, <1>4 DEF TrimBack
    <3> QED
      BY <3>1, <2>1, <1>3, Trims
  <2>2. CASE ~(End(f) > end)
    <3>1. x = f
      BY <2>2, <1>4 DEF TrimBack
    <3>2. f.length > 0
      BY <1>2 DEF PieceOf
    <3>3. PieceOf(f, f)
      BY <1>3, <3>2 DEF PieceOf
    <3> QED
      BY <3>1, <3>3, <2>2
  <2> QED
    BY <2>1, <2>2
<1>6. x \in Fields /\ x.offset \in Nat /\ x.length \in Nat /\ End(x) = x.offset + x.length
  <2>1. x \in Fields
    BY <1>5 DEF PieceOf
  <2> QED
    BY <2>1 DEF Fields, End
<1>7. PieceOf(x, m)
  <2>1. /\ x.length > 0 /\ f.offset <= x.offset /\ End(x) <= End(f) /\ x.zeroed = f.zeroed
        /\ x.tag = f.tag
        /\ x.moffset = IF f.zeroed THEN f.moffset ELSE f.moffset + (x.offset - f.offset)
    BY <1>5 DEF PieceOf
  <2>2. /\ m.offset <= f.offset /\ End(f) <= End(m) /\ f.zeroed = m.zeroed /\ f.tag = m.tag
        /\ f.moffset = IF m.zeroed THEN m.moffset ELSE m.moffset + (f.offset - m.offset)
    BY <1>2 DEF PieceOf
  <2>3. End(x) <= End(m) /\ m.offset <= x.offset
    BY <2>1, <2>2, <1>1, <1>3, <1>6
  <2>4. x.moffset = IF m.zeroed THEN m.moffset ELSE m.moffset + (x.offset - m.offset)
    <3>1. CASE m.zeroed
      BY <3>1, <2>1, <2>2
    <3>2. CASE ~m.zeroed
      <4>1. /\ f.moffset = m.moffset + (f.offset - m.offset)
            /\ x.moffset = f.moffset + (x.offset - f.offset)
        BY <3>2, <2>1, <2>2
      <4>2. x.moffset = m.moffset + (x.offset - m.offset)
        BY <4>1, <1>1, <1>3, <1>6
      <4> QED
        BY <4>2, <3>2
    <3> QED
      BY <3>1, <3>2
  <2> QED
    BY <2>1, <2>2, <2>3, <2>4, <1>6 DEF PieceOf
<1>8. /\ x.offset = (IF m.offset < begin THEN begin ELSE m.offset)
      /\ End(x) = (IF End(m) > end THEN end ELSE End(m))
  BY <1>2, <1>5
<1>9. begin <= x.offset /\ End(x) <= end /\ End(x) <= NSectors
  BY <1>8, <1>1, <1>6
<1>10. x \in Requests
  <2>1. x.length > 0
    BY <1>7 DEF PieceOf
  <2> QED
    BY <2>1, <1>6, <1>9 DEF Requests
<1> QED
  BY <1>7, <1>8, <1>9, <1>10

\* Index0::lookup() of a segment into an array of any size returns, in order, pieces of
\* the index's mappings inside the segment, and leaves out none up to the last it returns
\* (or up to the segment's end, when the array was not filled).
THEOREM LookupFinds ==
  ASSUME NEW ms, Apart(ms), NEW begin \in Nat, NEW end \in Nat, begin <= end, end <= NSectors,
         NEW n \in Nat \ {0}
  PROVE  Found(ms, Lookup0(ms, begin, end, n), begin, end, n)
<1> DEFINE pm == Lookup0(ms, begin, end, n)
           hits == {m \in ms : End(m) > begin /\ m.offset < end}
           d == Dump(hits)
           k == IF n < Len(d) THEN n ELSE Len(d)
           F == SubSeq(d, 1, k)
<1>1. CASE begin >= end
  <2>1. pm = << >>
    BY <1>1 DEF Lookup0
  <2> HIDE DEF pm
  <2>2. pm \in Seq(Requests) /\ Len(pm) = 0 /\ begin..(end - 1) = {}
    BY <2>1, <1>1
  <2> QED
    BY <2>2 DEF Found, pm
<1>2. CASE begin < end
  <2>1. Apart(hits)
    BY FS_Subset DEF Apart, Disjoint
  <2>2. pm = TrimEdges(F, begin, end)
    BY <1>2 DEF Lookup0, FirstN
  <2>3. \A m \in hits : m \in ms /\ End(m) > begin /\ m.offset < end /\ m \in Requests
    BY DEF Apart
  <2>4. \A m \in ms : End(m) > begin /\ m.offset < end => m \in hits
    OBVIOUS
  <2> HIDE DEF hits, pm
  <2>5. /\ d \in Seq(Requests) /\ Len(d) \in Nat
        /\ \A i \in 1..Len(d) : d[i] \in hits
        /\ \A m \in hits : \E i \in 1..Len(d) : d[i] = m
        /\ \A i, j \in 1..Len(d) : i < j => End(d[i]) <= d[j].offset
    BY <2>1, Dumped
  <2> HIDE DEF d
  <2>6. k \in Nat /\ k <= n /\ k <= Len(d) /\ (k < n => k = Len(d))
    BY <2>5
  <2> HIDE DEF k
  <2>7. F \in Seq(Requests) /\ Len(F) = k /\ \A i \in 1..k : F[i] = d[i] /\ i \in 1..Len(d)
    BY <2>5, <2>6
  <2> HIDE DEF F
  <2>8. /\ \A i \in 1..k : d[i] \in Requests /\ End(d[i]) > begin /\ d[i].offset < end
        /\ \A i \in 1..k : d[i].offset \in Nat /\ End(d[i]) \in Nat
    BY <2>3, <2>5, <2>7, RequestFields
  <2>9. pm = [i \in 1..k |-> TrimBack(TrimFront(d[i], begin), end)]
    <3>1. ASSUME NEW i \in 1..k
          PROVE  (LET f == IF i = 1 THEN TrimFront(F[i], begin) ELSE F[i]
                  IN IF i = k THEN TrimBack(f, end) ELSE f)
                 = TrimBack(TrimFront(d[i], begin), end)
      <4>1. i # 1 => TrimFront(d[i], begin) = d[i]
        <5>1. SUFFICES ASSUME i # 1 PROVE ~(d[i].offset < begin)
          BY DEF TrimFront
        <5>2. 1 \in 1..k /\ 1 < i
          BY <5>1, <2>6
        <5>3. End(d[1]) <= d[i].offset
          BY <5>2, <2>5, <2>7
        <5> QED
          BY <5>2, <5>3, <2>8
      <4>2. i # k => TrimBack(TrimFront(d[i], begin), end) = TrimFront(d[i], begin)
        <5>1. SUFFICES ASSUME i # k PROVE ~(End(TrimFront(d[i], begin)) > end)
          BY DEF TrimBack
        <5>2. i + 1 \in 1..k /\ i < i + 1
          BY <5>1, <2>6
        <5>3. End(d[i]) <= d[i + 1].offset
          BY <5>2, <2>5, <2>7
        <5>4. End(d[i]) <= end
          BY <5>2, <5>3, <2>8
        <5>5. End(TrimFront(d[i], begin)) = End(d[i])
          <6>1. CASE d[i].offset < begin
            <7>1. TrimFront(d[i], begin) = ForwardOffsetTo(d[i], begin)
              BY <6>1 DEF TrimFront
            <7>2. d[i] \in Fields
              BY <2>8 DEF Requests
            <7> QED
              BY <7>1, <7>2, <6>1, <2>8, Trims
          <6>2. CASE ~(d[i].offset < begin)
            BY <6>2 DEF TrimFront
          <6> QED
            BY <6>1, <6>2
        <5> QED
          BY <5>4, <5>5, <2>8
      <4> QED
        BY <4>1, <4>2, <2>7
    <3>2. pm = [i \in 1..k |-> LET f == IF i = 1 THEN TrimFront(F[i], begin) ELSE F[i]
                               IN IF i = k THEN TrimBack(f, end) ELSE f]
      BY <2>2, <2>7 DEF TrimEdges, TrimFront, TrimBack
    <3> QED
      BY <3>1, <3>2
  <2>10. ASSUME NEW i \in 1..k
         PROVE  /\ pm[i] \in Requests /\ PieceOf(pm[i], d[i])
                /\ begin <= pm[i].offset /\ End(pm[i]) <= end
                /\ pm[i].offset = (IF d[i].offset < begin THEN begin ELSE d[i].offset)
                /\ End(pm[i]) = (IF End(d[i]) > end THEN end ELSE End(d[i]))
    <3>1. pm[i] = TrimBack(TrimFront(d[i], begin), end)
      BY <2>9
    <3> QED
      BY <3>1, <2>8, <1>2, Trimmed
  <2>11. pm \in Seq(Requests) /\ Len(pm) = k
    <3>1. DOMAIN pm = 1..k /\ pm = [i \in 1..k |-> pm[i]]
      BY <2>9
    <3> QED
      BY <3>1, <2>6, <2>10
  <2>12. ASSUME NEW i \in 1..k, NEW j \in 1..k, i < j
         PROVE  End(pm[i]) <= pm[j].offset
    <3>1. End(d[i]) <= d[j].offset
      BY <2>12, <2>5, <2>7
    <3>2. pm[i].offset \in Nat /\ End(pm[i]) \in Nat /\ pm[j].offset \in Nat
      BY <2>10, RequestFields
    <3>3. End(pm[i]) <= End(d[i])
      BY <2>10, <2>8
    <3>4. d[j].offset <= pm[j].offset
      BY <2>10, <2>8
    <3> QED
      BY <3>1, <3>2, <3>3, <3>4, <2>8
  <2>13. ASSUME NEW s \in begin..(end - 1), k < n \/ \E i \in 1..k : s < pm[i].offset,
                NEW p \in ms, Covers(p, s)
         PROVE  \E i \in 1..k : Covers(pm[i], s)
    <3>0. s \in Nat /\ begin <= s /\ s < end
      OBVIOUS
    <3>1. p.offset \in Nat /\ End(p) \in Nat
      BY RequestFields DEF Apart
    <3>2. p.offset <= s /\ s < End(p)
      BY <2>13 DEF Covers
    <3>3. p \in hits
      BY <3>0, <3>1, <3>2, <2>4
    <3>4. PICK j \in 1..Len(d) : d[j] = p
      BY <3>3, <2>5
    <3>5. CASE j <= k
      <4>1. j \in 1..k
        BY <3>5, <2>5, <2>6
      <4>2. pm[j].offset <= s /\ s < End(pm[j])
        BY <4>1, <2>10, <3>0, <3>1, <3>2, <3>4
      <4> QED
        BY <4>1, <4>2 DEF Covers
    <3>6. CASE j > k
      <4>1. PICK i \in 1..k : s < pm[i].offset
        BY <3>6, <2>5, <2>6, <2>13
      <4>2. s < d[i].offset
        BY <4>1, <2>10, <2>8, <3>0
      <4>3. i < j /\ i \in 1..Len(d)
        BY <3>6, <2>5, <2>6
      <4>4. End(d[i]) <= d[j].offset
        BY <4>3, <2>5
      <4>5. d[i].offset < End(d[i])
        BY <2>8, RequestFields
      <4> QED
        BY <4>2, <4>4, <4>5, <3>0, <3>1, <3>2, <3>4, <2>8
    <3> QED
      BY <3>5, <3>6, <2>5, <2>6
  <2>14. \A i \in 1..k : \E p \in ms : PieceOf(pm[i], p)
    BY <2>10, <2>3, <2>5, <2>7
  <2> QED
    BY <2>6, <2>10, <2>11, <2>12, <2>13, <2>14 DEF Found, pm
<1> QED
  BY <1>1, <1>2
-----------------------------------------------------------------------------
(* Reads *)

\* What a sector held since a read began, v being the history of the sectors.
SeenIn(v, since, s) == {v[s][k] : k \in since[s]..Len(v[s])}

\* A read under way.
Readings == [step : {"read"}, from : Nat, to : Nat, got : Seq(Cells), batch : Seq(Requests),
             left : Nat, since : [Sectors -> Nat]]
History(v) == v \in [Sectors -> Seq(Cells)] /\ \A s \in Sectors : Len(v[s]) > 0

\* What the mappings copied out of the index say of the sectors from `pos' to `to'
\* is what these held at some time of the read.
BatchOK(b, pos, to, left, since, d, v) ==
  /\ Len(b) <= left
  /\ \A i \in 1..Len(b) : pos <= b[i].offset /\ End(b[i]) <= to /\ Backed(b[i], Len(d))
  /\ \A i, j \in 1..Len(b) : i < j => End(b[i]) <= b[j].offset
  /\ \A i \in 1..Len(b) : \A s \in Sectors :
       Covers(b[i], s) => ValueIn(d, b[i], s) \in SeenIn(v, since, s)
  /\ \A s \in pos..(to - 1) :
       (Len(b) < left \/ \E i \in 1..Len(b) : s < b[i].offset) =>
         (\E i \in 1..Len(b) : Covers(b[i], s)) \/ Zeros \in SeenIn(v, since, s)

GotOK(r, v) == \A i \in 1..Len(r.got) : r.got[i] \in SeenIn(v, r.since, r.from + i - 1)

ReadOK(r, d, v) ==
  /\ r \in Readings /\ r.from + Len(r.got) <= r.to /\ r.to <= NSectors
  /\ \A s \in Sectors : 1 <= r.since[s] /\ r.since[s] <= Len(v[s])
  /\ GotOK(r, v)
  /\ BatchOK(r.batch, r.from + Len(r.got), r.to, r.left, r.since, d, v)

\* A history that goes on: what was seen stays seen.
LEMMA SeenMore ==
  ASSUME NEW v, History(v), NEW w, History(w), NEW s \in Sectors, Extends(v[s], w[s]),
         NEW since \in [Sectors -> Nat], since[s] >= 1
  PROVE  SeenIn(v, since, s) \subseteq SeenIn(w, since, s)
<1>1. since[s] \in Nat /\ Len(v[s]) \in Nat /\ Len(w[s]) \in Nat /\ Len(v[s]) <= Len(w[s])
  BY DEF History, Extends
<1>2. ASSUME NEW k \in since[s]..Len(v[s])
      PROVE  k \in since[s]..Len(w[s]) /\ w[s][k] = v[s][k]
  BY <1>1 DEF Extends
<1> QED
  BY <1>2 DEF SeenIn

\* The sectors of a read lie on the disk.
LEMMA ReadSector ==
  ASSUME NEW r \in Readings, r.from + Len(r.got) <= r.to, r.to <= NSectors
  PROVE  /\ \A i \in 1..Len(r.got) : r.from + i - 1 \in Sectors
         /\ \A s \in (r.from + Len(r.got))..(r.to - 1) : s \in Sectors
         /\ r.from \in Nat /\ r.to \in Nat /\ r.left \in Nat /\ Len(r.got) \in Nat
         /\ r.got \in Seq(Cells) /\ r.batch \in Seq(Requests) /\ r.since \in [Sectors -> Nat]
         /\ r.step = "read" /\ Len(r.batch) \in Nat
<1>1. /\ r.from \in Nat /\ r.to \in Nat /\ r.got \in Seq(Cells) /\ r.left \in Nat
      /\ r.batch \in Seq(Requests) /\ r.since \in [Sectors -> Nat] /\ r.step = "read"
  BY DEF Readings
<1>2. Len(r.got) \in Nat /\ NSectors \in Nat /\ Len(r.batch) \in Nat
  BY <1>1, FileAssumption
<1> DEFINE f == r.from
           g == Len(r.got)
           e == r.to
<1>3. f \in Nat /\ g \in Nat /\ e \in Nat /\ f + g <= e /\ e <= NSectors
  BY <1>1, <1>2
<1> HIDE DEF f, g, e
<1>4. /\ \A i \in 1..g : f + i - 1 \in Sectors
      /\ \A s \in (f + g)..(e - 1) : s \in Sectors
  BY <1>2, <1>3 DEF Sectors
<1> QED
  BY <1>1, <1>2, <1>4 DEF f, g, e

\* A read goes on undisturbed while the data file and the history grow.
LEMMA ReadKept ==
  ASSUME NEW d \in Seq(Cells), NEW e \in Seq(Cells), Extends(d, e),
         NEW v, History(v), NEW w, History(w), \A s \in Sectors : Extends(v[s], w[s]),
         NEW r, ReadOK(r, d, v)
  PROVE  ReadOK(r, e, w)
<1> DEFINE pos == r.from + Len(r.got)
           b == r.batch
<1>1. r \in Readings /\ pos <= r.to /\ r.to <= NSectors
  BY DEF ReadOK
<1>2. /\ \A i \in 1..Len(r.got) : r.from + i - 1 \in Sectors
      /\ \A s \in pos..(r.to - 1) : s \in Sectors
      /\ r.since \in [Sectors -> Nat] /\ b \in Seq(Requests)
  BY <1>1, ReadSector
<1>3. \A s \in Sectors : r.since[s] \in Nat /\ 1 <= r.since[s] /\ r.since[s] <= Len(v[s])
  BY <1>2 DEF ReadOK
<1>4. \A s \in Sectors : SeenIn(v, r.since, s) \subseteq SeenIn(w, r.since, s)
  BY <1>2, <1>3, SeenMore
<1>5. \A s \in Sectors : 1 <= r.since[s] /\ r.since[s] <= Len(w[s])
  <2>1. ASSUME NEW s \in Sectors PROVE r.since[s] <= Len(w[s])
    <3>1. Len(v[s]) \in Nat /\ Len(w[s]) \in Nat /\ Len(v[s]) <= Len(w[s])
      BY DEF History, Extends
    <3> QED
      BY <3>1, <1>3
  <2> QED
    BY <2>1, <1>3
<1>6. GotOK(r, w)
  BY <1>2, <1>4 DEF ReadOK, GotOK
<1>7. BatchOK(b, pos, r.to, r.left, r.since, d, v)
  BY DEF ReadOK
<1> HIDE DEF pos, b
<1>8. ASSUME NEW i \in 1..Len(b)
      PROVE  /\ Backed(b[i], Len(e))
             /\ \A s \in Sectors : Covers(b[i], s) => ValueIn(e, b[i], s) \in SeenIn(w, r.since, s)
  <2>1. b[i] \in Requests /\ Backed(b[i], Len(d)) /\ b[i] \in Logged
    BY <1>2, <1>7 DEF BatchOK, Logged
  <2>2. Backed(b[i], Len(e))
    <3>1. Len(d) \in Nat /\ Len(e) \in Nat /\ Len(d) <= Len(e)
      BY DEF Extends
    <3> QED
      BY <3>1, <2>1, BackedMore
  <2>3. ASSUME NEW s \in Sectors, Covers(b[i], s)
        PROVE  ValueIn(e, b[i], s) \in SeenIn(w, r.since, s)
    <3>1. ValueIn(e, b[i], s) = ValueIn(d, b[i], s)
      BY <2>1, <2>3, ValueKept
    <3>2. ValueIn(d, b[i], s) \in SeenIn(v, r.since, s)
      BY <2>3, <1>7 DEF BatchOK
    <3> QED
      BY <3>1, <3>2, <1>4
  <2> QED
    BY <2>2, <2>3
<1>9. BatchOK(b, pos, r.to, r.left, r.since, e, w)
  BY <1>2, <1>4, <1>7, <1>8 DEF BatchOK
<1> QED
  BY <1>1, <1>5, <1>6, <1>9 DEF ReadOK, pos, b

\* An index that shows the present contents of every sector.
Shows(ms, d, v) ==
  IndexOK(ms, Len(d)) /\ \A s \in Sectors : ContentIn(d, ms, s) = v[s][Len(v[s])]

\* What a lookup brings back.
LEMMA FoundBatch ==
  ASSUME NEW d \in Seq(Cells), NEW v, History(v), NEW ms, Shows(ms, d, v),
         NEW pos \in Nat, NEW to \in Nat, to <= NSectors, NEW n \in Nat,
         NEW since \in [Sectors -> Nat],
         \A s \in Sectors : 1 <= since[s] /\ since[s] <= Len(v[s]),
         NEW b, Found(ms, b, pos, to, n)
  PROVE  BatchOK(b, pos, to, n, since, d, v)
<1>1. \A s \in Sectors : v[s][Len(v[s])] \in SeenIn(v, since, s)
  <2>1. ASSUME NEW s \in Sectors
        PROVE  Len(v[s]) \in since[s]..Len(v[s])
    <3>1. Len(v[s]) \in Nat /\ since[s] \in Nat /\ since[s] <= Len(v[s])
      BY DEF History
    <3> QED
      BY <3>1
  <2> QED
    BY <2>1 DEF SeenIn
<1>2. IndexOK(ms, Len(d)) /\ Len(d) \in Nat
  BY DEF Shows
<1>3. ASSUME NEW i \in 1..Len(b)
      PROVE  /\ Backed(b[i], Len(d))
             /\ \A s \in Sectors : Covers(b[i], s) => ValueIn(d, b[i], s) \in SeenIn(v, since, s)
  <2>1. PICK p \in ms : PieceOf(b[i], p)
    BY DEF Found
  <2>2. p \in Requests /\ Backed(p, Len(d)) /\ p \in Fields
    BY <1>2 DEF IndexOK, Requests
  <2>3. b[i] \in Requests /\ Backed(b[i], Len(d))
    BY <2>1, <2>2, <1>2, PieceOK
  <2>4. ASSUME NEW s \in Sectors, Covers(b[i], s)
        PROVE  ValueIn(d, b[i], s) \in SeenIn(v, since, s)
    <3>1. s \in Nat
      BY FileAssumption DEF Sectors
    <3>2. Covers(p, s) /\ Place(b[i], s) = Place(p, s)
      BY <3>1, <2>1, <2>2, <2>4, SamePlace
    <3>3. Place(b[i], s) \in Places(ms, s)
      BY <3>2 DEF Places
    <3>4. ContentIn(d, ms, s) = ValueIn(d, b[i], s)
      BY <3>3, <2>3, <2>4, <1>2, ContentOfPlace
    <3> QED
      BY <3>4, <1>1 DEF Shows
  <2> QED
    BY <2>3, <2>4
<1>4. ASSUME NEW s \in pos..(to - 1), Len(b) < n \/ \E i \in 1..Len(b) : s < b[i].offset,
             ~\E i \in 1..Len(b) : Covers(b[i], s)
      PROVE  Zeros \in SeenIn(v, since, s)
  <2>1. \A p \in ms : ~Covers(p, s)
    BY <1>4 DEF Found
  <2>2. ContentIn(d, ms, s) = Zeros
    BY <2>1, ContentHole
  <2>3. s \in Sectors
    BY FileAssumption DEF Sectors
  <2> QED
    BY <2>2, <2>3, <1>1 DEF Shows
<1> QED
  BY <1>3, <1>4 DEF BatchOK, Found
\* What was seen are contents.
LEMMA SeenCell ==
  ASSUME NEW v, History(v), NEW s \in Sectors, NEW since \in [Sectors -> Nat], since[s] >= 1
  PROVE  SeenIn(v, since, s) \subseteq Cells
<1>1. v[s] \in Seq(Cells) /\ since[s] \in Nat
  BY DEF History
<1>2. \A k \in since[s]..Len(v[s]) : v[s][k] \in Cells
  BY <1>1
<1> QED
  BY <1>2 DEF SeenIn

\* The rest of a batch is one behind the mapping that was read.
LEMMA BatchTail ==
  ASSUME NEW b \in Seq(Requests), b # << >>, NEW pos \in Nat, NEW to \in Nat, NEW left \in Nat,
         NEW since, NEW d \in Seq(Cells), NEW v, BatchOK(b, pos, to, left, since, d, v)
  PROVE  BatchOK(Tail(b), End(b[1]), to, left - 1, since, d, v) /\ left - 1 \in Nat
<1> DEFINE c == Tail(b)
<1>1. /\ Len(b) \in Nat /\ Len(b) >= 1 /\ 1 \in 1..Len(b)
      /\ c \in Seq(Requests) /\ Len(c) = Len(b) - 1
      /\ \A i \in 1..Len(c) : c[i] = b[i + 1] /\ i + 1 \in 1..Len(b)
  <2>1. Len(b) \in Nat /\ Len(b) >= 1
    BY EmptySeq
  <2> QED
    BY <2>1
<1>2. /\ Len(b) <= left
      /\ \A i \in 1..Len(b) : pos <= b[i].offset /\ End(b[i]) <= to /\ Backed(b[i], Len(d))
      /\ \A i, j \in 1..Len(b) : i < j => End(b[i]) <= b[j].offset
      /\ \A i \in 1..Len(b) : \A s \in Sectors :
           Covers(b[i], s) => ValueIn(d, b[i], s) \in SeenIn(v, since, s)
  BY DEF BatchOK
<1> HIDE DEF c
<1>3. ASSUME NEW i \in 1..Len(b)
      PROVE  b[i].offset \in Nat /\ End(b[i]) \in Nat /\ b[i].offset < End(b[i])
  BY RequestBounds
<1>4. ASSUME NEW i \in 1..Len(c)
      PROVE  End(b[1]) <= c[i].offset /\ End(c[i]) <= to /\ Backed(c[i], Len(d))
  <2>1. c[i] = b[i + 1] /\ i + 1 \in 1..Len(b) /\ 1 < i + 1
    BY <1>1
  <2> QED
    BY <2>1, <1>1, <1>2
<1>5. ASSUME NEW i \in 1..Len(c), NEW j \in 1..Len(c), i < j
      PROVE  End(c[i]) <= c[j].offset
  <2>1. /\ c[i] = b[i + 1] /\ i + 1 \in 1..Len(b) /\ c[j] = b[j + 1] /\ j + 1 \in 1..Len(b)
        /\ i + 1 < j + 1
    BY <1>1, <1>5
  <2> QED
    BY <2>1, <1>2
<1>6. ASSUME NEW i \in 1..Len(c), NEW s \in Sectors, Covers(c[i], s)
      PROVE  ValueIn(d, c[i], s) \in SeenIn(v, since, s)
  BY <1>1, <1>2, <1>6
<1>7. ASSUME NEW s \in End(b[1])..(to - 1),
             Len(c) < left - 1 \/ \E i \in 1..Len(c) : s < c[i].offset
      PROVE  (\E i \in 1..Len(c) : Covers(c[i], s)) \/ Zeros \in SeenIn(v, since, s)
  <2>1. s \in pos..(to - 1) /\ End(b[1]) <= s /\ s \in Int
    BY <1>1, <1>2, <1>3
  <2>2. Len(b) < left \/ \E i \in 1..Len(b) : s < b[i].offset
    <3>1. CASE Len(c) < left - 1
      BY <3>1, <1>1
    <3>2. CASE \E i \in 1..Len(c) : s < c[i].offset
      <4>1. PICK i \in 1..Len(c) : s < c[i].offset
        BY <3>2
      <4>2. s < b[i + 1].offset /\ i + 1 \in 1..Len(b)
        BY <4>1, <1>1
      <4> QED
        BY <4>2
    <3> QED
      BY <3>1, <3>2, <1>7
  <2>3. CASE \E i \in 1..Len(b) : Covers(b[i], s)
    <3>1. PICK i \in 1..Len(b) : Covers(b[i], s)
      BY <2>3
    <3>2. i # 1
      BY <3>1, <2>1, <1>1, <1>3 DEF Covers
    <3>3. i - 1 \in 1..Len(c) /\ (i - 1) + 1 = i
      BY <3>2, <1>1
    <3>4. c[i - 1] = b[i]
      BY <3>3, <1>1
    <3> QED
      BY <3>1, <3>3, <3>4
  <2> QED
    BY <2>1, <2>2, <2>3 DEF BatchOK
<1>8. Len(c) <= left - 1 /\ left - 1 \in Nat
  BY <1>1, <1>2
<1> QED
  BY <1>4, <1>5, <1>6, <1>7, <1>8 DEF BatchOK, c

\* The sectors up to the end of the first mapping of a batch read what they held at
\* some time of the read.
LEMMA PartSeen ==
  ASSUME NEW d \in Seq(Cells), NEW b \in Seq(Requests), b # << >>, NEW pos \in Nat,
         NEW to \in Nat, to <= NSectors, NEW left, NEW since, NEW v,
         BatchOK(b, pos, to, left, since, d, v), NEW s \in pos..(End(b[1]) - 1)
  PROVE  s \in Sectors /\ ContentIn(d, {b[1]}, s) \in SeenIn(v, since, s)
<1>1. Len(b) \in Nat /\ Len(b) >= 1 /\ 1 \in 1..Len(b)
  BY EmptySeq
<1>2. b[1] \in Requests /\ Backed(b[1], Len(d)) /\ pos <= b[1].offset /\ End(b[1]) <= to
  BY <1>1 DEF BatchOK
<1>3. ASSUME NEW i \in 1..Len(b)
      PROVE  b[i].offset \in Nat /\ End(b[i]) \in Nat /\ b[i].offset < End(b[i])
  BY RequestBounds
<1>4. s \in Nat /\ pos <= s /\ s < End(b[1]) /\ s \in pos..(to - 1) /\ s \in Sectors
  BY <1>1, <1>2, <1>3, FileAssumption DEF Sectors
<1>5. CASE b[1].offset <= s
  <2>1. Covers(b[1], s)
    BY <1>4, <1>5 DEF Covers
  <2>2. IndexOK({b[1]}, Len(d))
    BY <1>2, FS_Singleton DEF IndexOK, Disjoint
  <2>3. ContentIn(d, {b[1]}, s) = ValueIn(d, b[1], s)
    BY <2>1, <2>2, <1>4, ContentCovered
  <2>4. ValueIn(d, b[1], s) \in SeenIn(v, since, s)
    BY <2>1, <1>1, <1>4 DEF BatchOK
  <2> QED
    BY <2>3, <2>4, <1>4
<1>6. CASE s < b[1].offset
  <2>1. ASSUME NEW i \in 1..Len(b) PROVE ~Covers(b[i], s)
    <3>1. CASE i = 1
      BY <3>1, <1>6, <1>3, <1>4 DEF Covers
    <3>2. CASE i # 1
      <4>1. End(b[1]) <= b[i].offset
        BY <3>2, <1>1 DEF BatchOK
      <4> QED
        BY <4>1, <1>1, <1>3, <1>4 DEF Covers
    <3> QED
      BY <3>1, <3>2
  <2>2. ContentIn(d, {b[1]}, s) = Zeros
    BY <2>1, <1>1, ContentHole
  <2>3. Zeros \in SeenIn(v, since, s)
    BY <2>1, <1>1, <1>4, <1>6 DEF BatchOK
  <2> QED
    BY <2>2, <2>3, <1>4
<1> QED
  BY <1>5, <1>6, <1>1, <1>3, <1>4

\* How far the callback for a mapping fills the buffer.
LEMMA SegmentLength ==
  ASSUME NEW pos \in Nat, NEW o \in Nat, NEW e \in Nat, pos <= o, o < e
  PROVE  /\ e - pos \in Nat /\ pos + (e - pos) = e
         /\ \A i \in 1..(e - pos) : pos + i - 1 \in pos..(e - 1)
OBVIOUS

\* What it fills it with.
LEMMA SegmentPart ==
  ASSUME NEW d \in Seq(Cells), NEW v, History(v),
         NEW to \in Nat, to <= NSectors, NEW left, NEW since \in [Sectors -> Nat],
         \A s \in Sectors : 1 <= since[s],
         NEW b \in Seq(Requests), b # << >>,
         NEW pos \in Nat, BatchOK(b, pos, to, left, since, d, v)
  PROVE  /\ End(b[1]) \in Nat /\ End(b[1]) <= to
         /\ End(b[1]) - pos \in Nat /\ pos + (End(b[1]) - pos) = End(b[1])
         /\ \A i \in 1..(End(b[1]) - pos) :
              /\ ContentIn(d, {b[1]}, pos + i - 1) \in SeenIn(v, since, pos + i - 1)
              /\ ContentIn(d, {b[1]}, pos + i - 1) \in Cells
<1>2. b[1] \in Requests /\ pos <= b[1].offset /\ End(b[1]) <= to
  <2>1. 1 \in 1..Len(b)
    BY EmptySeq
  <2> QED
    BY <2>1 DEF BatchOK
<1>3. b[1].offset \in Nat /\ End(b[1]) \in Nat /\ b[1].offset < End(b[1])
  BY <1>2, RequestFields
<1>4. /\ End(b[1]) - pos \in Nat /\ pos + (End(b[1]) - pos) = End(b[1])
      /\ \A i \in 1..(End(b[1]) - pos) : pos + i - 1 \in pos..(End(b[1]) - 1)
  BY <1>2, <1>3, SegmentLength
<1>5. ASSUME NEW s \in pos..(End(b[1]) - 1)
      PROVE  ContentIn(d, {b[1]}, s) \in SeenIn(v, since, s) /\ ContentIn(d, {b[1]}, s) \in Cells
  <2>2. s \in Sectors /\ ContentIn(d, {b[1]}, s) \in SeenIn(v, since, s)
    BY PartSeen
  <2>3. SeenIn(v, since, s) \subseteq Cells
    <3>1. since[s] >= 1
      BY <2>2
    <3> QED
      BY <3>1, <2>2, SeenCell
  <2> QED
    BY <2>2, <2>3
<1> QED
  BY <1>2, <1>3, <1>4, <1>5

\* A function on 1..k is a sequence.
LEMMA FunctionSeq ==
  ASSUME NEW S, NEW k \in Nat, NEW f \in [1..k -> S]
  PROVE  f \in Seq(S) /\ Len(f) = k
OBVIOUS

\* The buffer with it.
LEMMA SegmentGot ==
  ASSUME NEW v, NEW since, NEW from \in Nat, NEW g \in Seq(Cells), NEW k \in Nat,
         NEW pos \in Nat, pos = from + Len(g), NEW part \in Seq(Cells), Len(part) = k,
         \A i \in 1..k : part[i] \in SeenIn(v, since, pos + i - 1),
         \A i \in 1..Len(g) : g[i] \in SeenIn(v, since, from + i - 1)
  PROVE  /\ g \o part \in Seq(Cells) /\ from + Len(g \o part) = pos + k
         /\ \A i \in 1..Len(g \o part) : (g \o part)[i] \in SeenIn(v, since, from + i - 1)
<1> DEFINE n == Len(g)
           got == g \o part
<1>1. n \in Nat
  OBVIOUS
<1>2. /\ got \in Seq(Cells) /\ Len(got) = n + k
      /\ \A i \in 1..n : got[i] = g[i]
      /\ \A i \in (n + 1)..(n + k) : got[i] = part[i - n]
  <2>1. got \in Seq(Cells)
    BY ConcatProperties
  <2>2. Len(got) = n + k
    BY ConcatProperties
  <2>3. \A i \in 1..(n + k) : got[i] = IF i <= n THEN g[i] ELSE part[i - n]
    BY ConcatProperties
  <2> HIDE DEF n, got
  <2>4. ASSUME NEW i \in 1..n PROVE got[i] = g[i]
    <3>1. i \in 1..(n + k) /\ i <= n
      BY <1>1
    <3> QED
      BY <3>1, <2>3
  <2>5. ASSUME NEW i \in (n + 1)..(n + k) PROVE got[i] = part[i - n]
    <3>1. i \in 1..(n + k) /\ ~(i <= n)
      BY <1>1
    <3> QED
      BY <3>1, <2>3
  <2> QED
    BY <2>1, <2>2, <2>4, <2>5
<1> HIDE DEF got
<1>3. ASSUME NEW i \in 1..Len(got) PROVE got[i] \in SeenIn(v, since, from + i - 1)
  <2>1. CASE i \in 1..n
    BY <2>1, <1>2
  <2>2. CASE i \in (n + 1)..(n + k)
    <3>1. i - n \in 1..k /\ pos + (i - n) - 1 = from + i - 1
      BY <2>2, <1>1
    <3> QED
      BY <2>2, <3>1, <1>2
  <2> QED
    BY <2>1, <2>2, <1>1, <1>2
<1>4. from + Len(got) = pos + k
  BY <1>1, <1>2
<1> QED
  BY <1>2, <1>3, <1>4 DEF got

\* The callback for one mapping puts contents of the read's time in the buffer.
LEMMA SegmentRead ==
  ASSUME NEW d \in Seq(Cells), NEW v, History(v), NEW r, ReadOK(r, d, v), r.batch # << >>,
         NEW batch, batch = Tail(r.batch), NEW left, left = r.left - 1
  PROVE  ReadOK([r EXCEPT
            !.got = r.got \o [i \in 1..(End(Head(r.batch)) - (r.from + Len(r.got))) |->
                                ContentIn(d, {Head(r.batch)}, r.from + Len(r.got) + i - 1)],
            !.batch = batch, !.left = left], d, v)
<1> DEFINE part == [i \in 1..(End(Head(r.batch)) - (r.from + Len(r.got))) |->
                      ContentIn(d, {Head(r.batch)}, r.from + Len(r.got) + i - 1)]
<1>1. r \in Readings /\ r.from + Len(r.got) <= r.to /\ r.to <= NSectors
  BY DEF ReadOK
<1>2. /\ r.from \in Nat /\ r.to \in Nat /\ r.left \in Nat /\ Len(r.got) \in Nat
      /\ r.got \in Seq(Cells) /\ r.batch \in Seq(Requests) /\ r.since \in [Sectors -> Nat]
  BY <1>1, ReadSector
<1>3. PICK b \in Seq(Requests) : b = r.batch /\ b # << >>
  BY <1>2
<1>4. PICK pos \in Nat : pos = r.from + Len(r.got)
  BY <1>2
<1>5. /\ BatchOK(b, pos, r.to, r.left, r.since, d, v)
      /\ \A i \in 1..Len(r.got) : r.got[i] \in SeenIn(v, r.since, r.from + i - 1)
      /\ \A s \in Sectors : 1 <= r.since[s] /\ r.since[s] <= Len(v[s])
  BY <1>3, <1>4 DEF ReadOK, GotOK
<1>6. Head(b) = b[1]
  BY <1>3
<1>7. BatchOK(Tail(b), End(b[1]), r.to, r.left - 1, r.since, d, v) /\ r.left - 1 \in Nat
  BY <1>2, <1>3, <1>4, <1>5, BatchTail
<1>8. /\ End(b[1]) \in Nat /\ End(b[1]) <= r.to
      /\ End(b[1]) - pos \in Nat /\ pos + (End(b[1]) - pos) = End(b[1])
      /\ \A i \in 1..(End(b[1]) - pos) :
           /\ ContentIn(d, {b[1]}, pos + i - 1) \in SeenIn(v, r.since, pos + i - 1)
           /\ ContentIn(d, {b[1]}, pos + i - 1) \in Cells
  <2>1. \A s \in Sectors : 1 <= r.since[s]
    BY <1>5
  <2> QED
    <3>1. PICK since \in [Sectors -> Nat] : since = r.since
      BY <1>2
    <3>2. PICK to \in Nat : to = r.to
      BY <1>2
    <3>3. /\ \A s \in Sectors : 1 <= since[s]
          /\ to <= NSectors /\ BatchOK(b, pos, to, r.left, since, d, v) /\ b # << >>
      BY <2>1, <3>1, <3>2, <1>1, <1>3, <1>5
    <3>4. /\ End(b[1]) \in Nat /\ End(b[1]) <= to
          /\ End(b[1]) - pos \in Nat /\ pos + (End(b[1]) - pos) = End(b[1])
          /\ \A i \in 1..(End(b[1]) - pos) :
               /\ ContentIn(d, {b[1]}, pos + i - 1) \in SeenIn(v, since, pos + i - 1)
               /\ ContentIn(d, {b[1]}, pos + i - 1) \in Cells
      BY <3>3, SegmentPart
    <3> QED
      BY <3>1, <3>2, <3>4
<1>9. PICK k \in Nat : k = End(b[1]) - pos
  BY <1>8
<1>10. part = [i \in 1..k |-> ContentIn(d, {b[1]}, pos + i - 1)]
  BY <1>3, <1>4, <1>6, <1>9
<1> HIDE DEF part
<1>11. /\ part \in Seq(Cells) /\ Len(part) = k
       /\ \A i \in 1..k : part[i] \in SeenIn(v, r.since, pos + i - 1)
  <2>1. \A i \in 1..k : /\ ContentIn(d, {b[1]}, pos + i - 1) \in SeenIn(v, r.since, pos + i - 1)
                        /\ ContentIn(d, {b[1]}, pos + i - 1) \in Cells
    BY <1>8, <1>9
  <2>2. part \in [1..k -> Cells] /\ \A i \in 1..k : part[i] = ContentIn(d, {b[1]}, pos + i - 1)
    BY <2>1, <1>10
  <2>3. part \in Seq(Cells) /\ Len(part) = k
    BY <2>2, FunctionSeq
  <2> QED
    BY <2>1, <2>2, <2>3
<1>12. PICK got : got = r.got \o part
  OBVIOUS
<1>13. /\ got \in Seq(Cells) /\ r.from + Len(got) = pos + k
       /\ \A i \in 1..Len(got) : got[i] \in SeenIn(v, r.since, r.from + i - 1)
  <2>1. \A i \in 1..Len(r.got) : r.got[i] \in SeenIn(v, r.since, r.from + i - 1)
    BY <1>5
  <2>2. pos \in Nat /\ k \in Nat /\ pos = r.from + Len(r.got)
    BY <1>4, <1>9
  <2>3. /\ r.got \o part \in Seq(Cells) /\ r.from + Len(r.got \o part) = pos + k
        /\ \A i \in 1..Len(r.got \o part) :
             (r.got \o part)[i] \in SeenIn(v, r.since, r.from + i - 1)
    <3>1. PICK g \in Seq(Cells) : g = r.got
      BY <1>2
    <3>2. PICK from \in Nat : from = r.from
      BY <1>2
    <3>3. PICK since : since = r.since
      OBVIOUS
    <3>4. PICK p \in Seq(Cells) : p = part
      BY <1>11
    <3>5. /\ \A i \in 1..Len(g) : g[i] \in SeenIn(v, since, from + i - 1)
          /\ pos = from + Len(g) /\ Len(p) = k
          /\ \A i \in 1..k : p[i] \in SeenIn(v, since, pos + i - 1)
      BY <2>1, <2>2, <1>11, <3>1, <3>2, <3>3, <3>4
    <3>6. /\ g \o p \in Seq(Cells) /\ from + Len(g \o p) = pos + k
          /\ \A i \in 1..Len(g \o p) : (g \o p)[i] \in SeenIn(v, since, from + i - 1)
      BY <3>5, <1>4, <1>9, SegmentGot
    <3> QED
      BY <3>1, <3>2, <3>3, <3>4, <3>6
  <2> QED
    BY <2>3, <1>12
<1>14. r.from + Len(got) = End(b[1])
  BY <1>8, <1>9, <1>13
<1> DEFINE q == [r EXCEPT !.got = got, !.batch = batch, !.left = left]
<1>15. /\ q \in Readings /\ q.from = r.from /\ q.to = r.to /\ q.since = r.since
       /\ q.got = got /\ q.batch = Tail(b) /\ q.left = r.left - 1
  <2>1. Tail(b) \in Seq(Requests)
    BY <1>3
  <2> QED
    BY <2>1, <1>1, <1>3, <1>7, <1>13 DEF Readings
<1> HIDE DEF q
<1>16. GotOK(q, v)
  BY <1>13, <1>15 DEF GotOK
<1>17. BatchOK(q.batch, q.from + Len(q.got), q.to, q.left, q.since, d, v)
  BY <1>7, <1>14, <1>15
<1>18. q.from + Len(q.got) <= q.to /\ q.to <= NSectors
  BY <1>1, <1>8, <1>14, <1>15
<1>19. ReadOK(q, d, v)
  BY <1>5, <1>15, <1>16, <1>17, <1>18 DEF ReadOK
<1> QED
  BY <1>12, <1>19 DEF q, part
\* What an index reads are contents.
LEMMA ContentCell ==
  ASSUME NEW d \in Seq(Cells), NEW ms, IndexOK(ms, Len(d)), NEW s \in Sectors
  PROVE  ContentIn(d, ms, s) \in Cells
<1>1. Zeros \in Cells
  BY DEF Zeros, Cells
<1>2. ASSUME NEW x \in ms, Covers(x, s) PROVE ContentIn(d, ms, s) \in Cells
  <2>1. x \in Requests /\ Backed(x, Len(d)) /\ Len(d) \in Nat
    BY DEF IndexOK
  <2>2. ContentIn(d, ms, s) = ValueIn(d, x, s)
    BY <1>2, ContentCovered
  <2>3. CASE ~x.zeroed
    <3>1. (x.moffset + (s - x.offset)) - 7 \in 1..Len(d)
      BY <2>1, <2>3, <1>2, InFile
    <3> QED
      BY <3>1, <2>2, <2>3 DEF ValueIn
  <2> QED
    BY <2>2, <2>3, <1>1 DEF ValueIn
<1> QED
  BY <1>1, <1>2, ContentHole

\* Nothing changed.
LEMMA ExtendsSame ==
  ASSUME NEW a, Len(a) \in Nat
  PROVE  Extends(a, a)
BY DEF Extends

\* A history with the contents a mapping brings.
Grown(v, m, content) ==
  [s \in Sectors |-> IF Covers(m, s) THEN Append(v[s], content[s]) ELSE v[s]]

\* m_index->insert() with the history it makes: the data is in the file before.
LEMMA Inserted ==
  ASSUME NEW d \in Seq(Cells), NEW e \in Seq(Cells), Extends(d, e), NEW v, History(v),
         NEW ms, Shows(ms, d, v), NEW m \in Requests, Backed(m, Len(e)), NEW content,
         \A s \in Sectors : Covers(m, s) => content[s] = ValueIn(e, m, s) /\ content[s] \in Cells,
         NEW w, w = Grown(v, m, content)
  PROVE  History(w) /\ Shows(Insert(ms, m), e, w) /\ \A s \in Sectors : Extends(v[s], w[s])
<1>1. IndexOK(ms, Len(d)) /\ Len(e) \in Nat
  BY DEF Shows
<1>2. \A s \in Sectors : v[s] \in Seq(Cells) /\ Len(v[s]) \in Nat /\ Len(v[s]) > 0
  BY DEF History
<1>3. IndexOK(ms, Len(e)) /\ \A s \in Sectors : ContentIn(e, ms, s) = ContentIn(d, ms, s)
  <2>1. \E s : s \in Sectors
    <3>1. 0 \in Sectors
      BY FileAssumption DEF Sectors
    <3> QED
      BY <3>1
  <2> QED
    BY <2>1, <1>1, ContentKept
<1>4. IndexOK(Insert(ms, m), Len(e))
  BY <1>1, <1>3, InsertOK
<1>5. ASSUME NEW s \in Sectors
      PROVE  /\ w[s] \in Seq(Cells) /\ Len(w[s]) > 0 /\ Extends(v[s], w[s])
             /\ ContentIn(e, Insert(ms, m), s) = w[s][Len(w[s])]
  <2>1. ContentIn(e, Insert(ms, m), s) =
          IF Covers(m, s) THEN ValueIn(e, m, s) ELSE ContentIn(e, ms, s)
    BY <1>3, InsertContent
  <2>2. CASE Covers(m, s)
    <3>1. w[s] = Append(v[s], content[s]) /\ content[s] = ValueIn(e, m, s) /\ content[s] \in Cells
      BY <2>2 DEF Grown
    <3>2. /\ w[s] \in Seq(Cells) /\ Len(w[s]) = Len(v[s]) + 1 /\ w[s][Len(v[s]) + 1] = content[s]
          /\ \A i \in 1..Len(v[s]) : w[s][i] = v[s][i]
      BY <3>1, <1>2
    <3>3. Len(w[s]) > 0 /\ Extends(v[s], w[s])
      BY <3>2, <1>2 DEF Extends
    <3> QED
      BY <3>1, <3>2, <3>3, <2>1, <2>2
  <2>3. CASE ~Covers(m, s)
    <3>1. w[s] = v[s]
      BY <2>3 DEF Grown
    <3>2. ContentIn(d, ms, s) = v[s][Len(v[s])]
      BY DEF Shows
    <3> QED
      BY <3>1, <3>2, <2>1, <2>3, <1>2, <1>3, ExtendsSame
  <2> QED
    BY <2>2, <2>3
<1>6. w \in [Sectors -> Seq(Cells)]
  <2>1. w = [s \in Sectors |-> w[s]]
    BY DEF Grown
  <2> QED
    BY <2>1, <1>5
<1> QED
  BY <1>4, <1>5, <1>6 DEF History, Shows

-----------------------------------------------------------------------------
(* The invariant of reads *)

\* The history has a last entry for every sector; the index of an open file shows
\* it; the mapping of a write is no discard's; a read has what it may have.
HistoryOK == History(versions) /\ (state = "open" => Shows(mapping, data, versions))
ThreadOK(r, d, v) ==
  /\ r.step = "append" => r.m.zeroed = FALSE
  /\ r.step = "read" => ReadOK(r, d, v)
RInv == HistoryOK /\ \A t \in Threads : ThreadOK(op[t], data, versions)

\* What an action of t does to the data file, the index and the history.
Records(t) ==
  /\ Extends(data, data')
  /\ History(versions') /\ \A s \in Sectors : Extends(versions[s], versions'[s])
  /\ Shows(mapping', data', versions')
  /\ ThreadOK(op'[t], data', versions')

\* The reads of the other threads go on undisturbed.
LEMMA RecordsOK ==
  ASSUME IInv, RInv, NEW t \in Threads, Moves(t), Records(t)
  PROVE  RInv'
<1>1. data \in Seq(Cells) /\ data' \in Seq(Cells) /\ \A u \in Threads \ {t} : op'[u] = op[u]
  BY DEF IInv, Types, Moves, Others
<1>2. HistoryOK'
  BY DEF Records, HistoryOK
<1>3. ASSUME NEW u \in Threads PROVE ThreadOK(op'[u], data', versions')
  <2>1. CASE u = t
    BY <2>1 DEF Records
  <2>2. CASE u # t
    <3>1. op'[u] = op[u] /\ ThreadOK(op[u], data, versions)
      BY <2>2, <1>1 DEF RInv
    <3>2. ASSUME op[u].step = "read" PROVE ReadOK(op[u], data', versions')
      <4>1. ReadOK(op[u], data, versions)
        BY <3>1, <3>2 DEF ThreadOK
      <4>2. History(versions) /\ History(versions') /\ Extends(data, data')
        BY DEF RInv, HistoryOK, Records
      <4>3. \A s \in Sectors : Extends(versions[s], versions'[s])
        BY DEF Records
      <4> QED
        BY <4>1, <4>2, <4>3, <1>1, ReadKept
    <3> QED
      BY <3>1, <3>2 DEF ThreadOK
  <2> QED
    BY <2>1, <2>2
<1> QED
  BY <1>2, <1>3 DEF RInv

\* An action that touches neither.
LEMMA RecordsNothing ==
  ASSUME IInv, RInv, NEW t \in Threads, state = "open", UNCHANGED <<data, mapping, versions>>,
         ThreadOK(op'[t], data, versions)
  PROVE  Records(t)
<1>1. Len(data) \in Nat
  BY KnownOld
<1>2. History(versions) /\ Shows(mapping, data, versions)
  BY DEF RInv, HistoryOK
<1>3. \A s \in Sectors : Len(versions[s]) \in Nat
  BY <1>2 DEF History
<1> QED
  BY <1>1, <1>2, <1>3, ExtendsSame DEF Records

\* ... and neither writes data nor reads.
LEMMA RecordsElse ==
  ASSUME IInv, RInv, NEW t \in Threads, state = "open", UNCHANGED <<data, mapping, versions>>,
         op'[t].step \notin {"append", "read"}
  PROVE  Records(t)
BY RecordsNothing DEF ThreadOK
-----------------------------------------------------------------------------
(* Reads: the actions *)

\* The steps of threads that neither write data nor read.
LEMMA OtherRecords ==
  ASSUME IInv, RInv, NEW t \in Threads,
         \/ AppendIndex(t) \/ LogMapping(t) \/ FlushGroup(t)
         \/ FsyncCall(t) \/ FsyncFlush(t) \/ FsyncData(t) \/ FsyncIndex(t)
         \/ \E size \in GroupSizes : GroupCall(t, size)
         \/ GroupFlush(t) \/ PreadSegmentFails(t) \/ PreadReturn(t)
  PROVE  Records(t)
<1>1. state = "open" /\ UNCHANGED <<data, mapping, versions>>
  <2>1. state = "open"
    BY DEF AppendIndex, LogMapping, FlushGroup, FsyncCall, FsyncFlush, FsyncData, FsyncIndex,
           GroupCall, GroupFlush, PreadSegmentFails, PreadReturn, At
  <2>2. CASE AppendIndex(t)
    <3>1. UNCHANGED <<mapping, diskVars>> /\ (UNCHANGED histVars \/ Acknowledge(t, TRUE))
      BY <2>2 DEF AppendIndex
    <3> QED
      BY <2>1, <3>1 DEF Acknowledge, diskVars, histVars
  <2>3. CASE LogMapping(t) \/ FlushGroup(t)
    <3>1. UNCHANGED <<mapping, data>> /\ (Acknowledge(t, TRUE) \/ Acknowledge(t, FALSE))
      BY <2>3 DEF LogMapping, FlushGroup
    <3> QED
      BY <2>1, <3>1 DEF Acknowledge
  <2>4. CASE FsyncCall(t) \/ FsyncFlush(t)
    <3>1. UNCHANGED <<mapping, data>> /\ (UNCHANGED histVars \/ UNCHANGED versions)
      BY <2>4 DEF FsyncCall, FsyncFlush, diskVars
    <3> QED
      BY <2>1, <3>1 DEF histVars
  <2>5. CASE FsyncData(t) \/ FsyncIndex(t)
    <3>1. UNCHANGED <<memVars, data>> /\ (UNCHANGED histVars \/ UNCHANGED versions)
      BY <2>5 DEF FsyncData, FsyncIndex
    <3> QED
      BY <2>1, <3>1 DEF histVars, memVars
  <2>6. CASE \E size \in GroupSizes : GroupCall(t, size)
    <3>1. UNCHANGED <<mapping, diskVars, versions>>
      BY <2>6 DEF GroupCall
    <3> QED
      BY <2>1, <3>1 DEF diskVars
  <2>7. CASE GroupFlush(t)
    BY <2>1, <2>7 DEF GroupFlush
  <2>8. CASE PreadSegmentFails(t) \/ PreadReturn(t)
    BY <2>1, <2>8 DEF PreadSegmentFails, PreadReturn, diskVars, histVars, memVars
  <2> QED
    BY <2>1, <2>2, <2>3, <2>4, <2>5, <2>6, <2>7, <2>8
<1>2. op'[t].step \notin {"append", "read"}
  <2>1. ASSUME Return(t) PROVE op'[t].step = "idle"
    BY <2>1, Returning
  <2>2. ASSUME NEW s, "step" \in DOMAIN op[t], Goto(t, s) PROVE op'[t].step = s
    <3>1. op'[t] = [op[t] EXCEPT !.step = s]
      BY <2>2, Stepping
    <3> QED
      BY <3>1, <2>2
  <2>3. CASE AppendIndex(t)
    <3>1. op[t].step = "index" /\ (Goto(t, "log") \/ Goto(t, "flush") \/ Return(t))
      BY <2>3 DEF AppendIndex, At
    <3>2. "step" \in DOMAIN op[t]
      BY <3>1, ChangingHas DEF Changing, InIndex
    <3> QED
      BY <3>1, <3>2, <2>1, <2>2
  <2>4. CASE LogMapping(t) \/ FlushGroup(t) \/ FsyncIndex(t) \/ GroupFlush(t) \/ PreadReturn(t)
    BY <2>4, <2>1 DEF LogMapping, FlushGroup, FsyncIndex, GroupFlush, PreadReturn
  <2>5. CASE FsyncCall(t)
    <3>1. op' = [op EXCEPT ![t] = [step |-> "fsync", mark |-> done]]
      BY <2>5 DEF FsyncCall
    <3>2. op'[t] = [step |-> "fsync", mark |-> done]
      BY <3>1, SetOp
    <3> QED
      BY <3>2
  <2>6. CASE FsyncFlush(t) \/ FsyncData(t)
    <3>1. /\ op[t].step \in {"fsync", "fsync_data"}
          /\ Goto(t, "fsync_data") \/ Goto(t, "fsync_index") \/ Return(t)
      BY <2>6 DEF FsyncFlush, FsyncData, At
    <3>2. "step" \in DOMAIN op[t]
      BY <3>1 DEF IInv, Shapes, OpOK, Idle, Changing, InIndex
    <3> QED
      BY <3>1, <3>2, <2>1, <2>2
  <2>7. ASSUME NEW size \in GroupSizes, GroupCall(t, size)
        PROVE  op'[t].step \notin {"append", "read"}
    <3>1. CASE op' = [op EXCEPT ![t] = [step |-> "regroup", size |-> size]]
      <4>1. op'[t] = [step |-> "regroup", size |-> size]
        BY <3>1, SetOp
      <4> QED
        BY <4>1
    <3>2. CASE op' = op
      BY <2>7, <3>2 DEF GroupCall, At
    <3> QED
      BY <2>7, <3>1, <3>2 DEF GroupCall
  <2>8. CASE PreadSegmentFails(t)
    <3>1. op[t].step = "read" /\ (Return(t) \/ Goto(t, "misread"))
      BY <2>8 DEF PreadSegmentFails, At
    <3>2. "step" \in DOMAIN op[t]
      BY <3>1 DEF IInv, Shapes, OpOK, Idle, Changing, InIndex
    <3> QED
      BY <3>1, <3>2, <2>1, <2>2
  <2> QED
    BY <2>3, <2>4, <2>5, <2>6, <2>7, <2>8
<1> QED
  BY <1>1, <1>2, RecordsElse

\* pwrite() up to the mutex.
LEMMA PwriteCallRecords ==
  ASSUME IInv, RInv, NEW t \in Threads, NEW offset \in Sectors, NEW length \in 1..NSectors,
         PwriteCall(t, offset, length)
  PROVE  Records(t)
<1> DEFINE m == Mapping(offset, length, 0, FALSE, 0)
           r == [step |-> "append", m |-> m, id |-> nops + 1, version |-> [s \in Sectors |-> 0]]
<1>1. state = "open" /\ op' = [op EXCEPT ![t] = r] /\ UNCHANGED <<data, mapping, versions>>
  BY DEF PwriteCall, At, diskVars, histVars
<1>2. op'[t] = r
  BY <1>1, SetOp
<1>3. m.zeroed = FALSE
  BY DEF Mapping
<1> HIDE DEF m
<1>4. r.step = "append" /\ r.m = m
  OBVIOUS
<1>5. ThreadOK(op'[t], data, versions)
  BY <1>2, <1>3, <1>4 DEF ThreadOK
<1> QED
  BY <1>1, <1>5, RecordsNothing

\* A discard reads as zeros from when its mapping is in the index.
LEMMA DiscardCallRecords ==
  ASSUME IInv, RInv, NEW t \in Threads, NEW offset \in Sectors, NEW length \in 1..NSectors,
         DiscardCall(t, offset, length)
  PROVE  Records(t)
<1> DEFINE m == Mapping(offset, length, DataEnd, TRUE, 0)
           r == [step |-> "index", m |-> m, id |-> nops + 1,
                 version |-> [s \in Sectors |-> Len(versions'[s])]]
           content == [s \in Sectors |-> Zeros]
<1>1. /\ state = "open" /\ offset + length <= NSectors /\ op' = [op EXCEPT ![t] = r]
      /\ data' = data /\ mapping' = Insert(mapping, m)
      /\ versions' = [s \in Sectors |-> IF Covers(m, s) THEN Append(versions[s], content[s])
                                        ELSE versions[s]]
  BY DEF DiscardCall, At, MayChange, diskVars, InsertMapping
<1>2. DataEnd \in Nat /\ DataEnd = HeaderSectors + Len(data) /\ HeaderSectors \in Nat
  BY KnownOld DEF DataEnd, HeaderSectors
<1>3. m \in Requests /\ m.moffset = DataEnd /\ m.zeroed = TRUE
  BY <1>1, <1>2, NewRequest
<1> HIDE DEF m
<1>4. op'[t].step = "index"
  <2>1. r.step = "index"
    OBVIOUS
  <2> HIDE DEF r
  <2> QED
    BY <2>1, <1>1, SetOp
<1> HIDE DEF r
<1>5. Backed(m, Len(data))
  BY <1>2, <1>3, KnownOld DEF Backed, Within
<1>6. data \in Seq(Cells) /\ Extends(data, data)
  BY KnownOld, ExtendsSame
<1>7. History(versions) /\ Shows(mapping, data, versions)
  BY <1>1 DEF RInv, HistoryOK
<1>8. \A s \in Sectors : content[s] = ValueIn(data, m, s) /\ content[s] \in Cells
  BY <1>3 DEF ValueIn, Zeros, Cells
<1> HIDE DEF content
<1>9. /\ History(versions') /\ Shows(mapping', data, versions')
      /\ \A s \in Sectors : Extends(versions[s], versions'[s])
  <2>1. PICK w : w = versions'
    OBVIOUS
  <2>2. /\ w = Grown(versions, m, content)
        /\ \A s \in Sectors :
             Covers(m, s) => content[s] = ValueIn(data, m, s) /\ content[s] \in Cells
    BY <2>1, <1>1, <1>8 DEF Grown
  <2>3. /\ History(w) /\ Shows(Insert(mapping, m), data, w)
        /\ \A s \in Sectors : Extends(versions[s], w[s])
    BY <2>2, <1>3, <1>5, <1>6, <1>7, Inserted
  <2> QED
    BY <2>1, <2>3, <1>1
<1> QED
  BY <1>1, <1>4, <1>6, <1>9 DEF Records, ThreadOK

\* The data appended to the file.
LEMMA AppendedData ==
  ASSUME IInv, NEW t \in Threads, op[t].step \in Changing, NEW n \in 0..op[t].m.length,
         data' = data \o DataOf(t, n)
  PROVE  /\ data' \in Seq(Cells) /\ Len(data') = Len(data) + n /\ Extends(data, data')
         /\ \A i \in 1..n : data'[Len(data) + i] = <<op[t].id, op[t].m.offset + i - 1>>
<1> DEFINE from == op[t].m.offset
           id == op[t].id
<1>1. op[t].m \in Requests /\ id \in Nat
  BY ChangingHas
<1>2. /\ from \in Nat /\ op[t].m.length \in Nat /\ NSectors \in Nat
      /\ from + op[t].m.length <= NSectors
  BY <1>1, FileAssumption DEF Requests, Fields, End
<1>3. n \in Nat /\ n <= op[t].m.length
  BY <1>2
<1>4. DataOf(t, n) = [i \in 1..n |-> [s \in Sectors |-> <<id, s>>][from + i - 1]]
  BY DEF DataOf
<1> HIDE DEF from, id
<1>5. ASSUME NEW i \in 1..n
      PROVE  DataOf(t, n)[i] = <<id, from + i - 1>> /\ DataOf(t, n)[i] \in Cells
  <2>1. from + i - 1 \in Sectors /\ from + i - 1 \in Nat
    BY <1>2, <1>3 DEF Sectors, from
  <2> QED
    BY <2>1, <1>1, <1>4 DEF Cells
<1>6. DataOf(t, n) \in [1..n -> Cells]
  BY <1>4, <1>5
<1>7. DataOf(t, n) \in Seq(Cells) /\ Len(DataOf(t, n)) = n
  BY <1>3, <1>6
<1>8. data \in Seq(Cells) /\ Len(data) \in Nat
  BY KnownOld
<1>9. /\ data' \in Seq(Cells) /\ Len(data') = Len(data) + n
      /\ \A i \in 1..(Len(data) + n) :
           data'[i] = IF i <= Len(data) THEN data[i] ELSE DataOf(t, n)[i - Len(data)]
  BY <1>7, <1>8, ConcatProperties
<1>10. Extends(data, data')
  BY <1>3, <1>8, <1>9 DEF Extends
<1>11. ASSUME NEW i \in 1..n PROVE data'[Len(data) + i] = <<id, from + i - 1>>
  <2>1. /\ Len(data) + i \in 1..(Len(data) + n) /\ ~(Len(data) + i <= Len(data))
        /\ Len(data) + i - Len(data) = i
    BY <1>3, <1>8
  <2> QED
    BY <2>1, <1>5, <1>9
<1> QED
  BY <1>9, <1>10, <1>11 DEF from, id

\* A write reads back from when its data is in the file and its mapping in the index.
LEMMA PwriteAppendRecords ==
  ASSUME IInv, RInv, NEW t \in Threads, PwriteAppend(t)
  PROVE  Records(t)
<1> DEFINE m == [op[t].m EXCEPT !.moffset = DataEnd]
           content == [s \in Sectors |-> <<op[t].id, s>>]
           len == op[t].m.length
<1>1. /\ state = "open" /\ op[t].step = "append" /\ op[t].step \in Changing
  BY DEF PwriteAppend, At, Changing
<1>2. op[t].m \in Requests /\ op[t].id \in Nat /\ {"step", "m", "id"} \subseteq DOMAIN op[t]
  BY <1>1, ChangingHas
<1>3. /\ DataEnd \in Nat /\ DataEnd = 8 + Len(data) /\ Len(data) \in Nat /\ data \in Seq(Cells)
  BY KnownOld DEF DataEnd, HeaderSectors
<1>4. op[t].m.zeroed = FALSE
  BY <1>1 DEF RInv, ThreadOK
<1>5. /\ m \in Requests /\ m.length = len /\ m.offset = op[t].m.offset /\ m.moffset = DataEnd
      /\ len \in Nat /\ len > 0 /\ m.zeroed = FALSE /\ m.offset \in Nat
  <2>1. /\ m \in Fields /\ m.length = len /\ m.offset = op[t].m.offset /\ m.moffset = DataEnd
        /\ op[t].m.offset \in Nat /\ len \in Nat /\ len > 0 /\ m.zeroed = FALSE
    BY <1>2, <1>3, <1>4 DEF Requests, Fields
  <2> QED
    BY <2>1, <1>2 DEF Requests, End
<1>6. History(versions) /\ Shows(mapping, data, versions)
  BY <1>1 DEF RInv, HistoryOK
<1>7. CASE /\ data' = data \o [i \in 1..m.length |-> content[m.offset + i - 1]]
           /\ InsertMapping(m, content)
           /\ op' = [op EXCEPT ![t].step = "index", ![t].m = m,
                               ![t].version = [s \in Sectors |-> Len(versions'[s])]]
  <2> DEFINE v == [s \in Sectors |-> Len(versions'[s])]
             r == [op[t] EXCEPT !.step = "index", !.m = m, !.version = v]
  <2>1. op' = [op EXCEPT ![t] = r]
    BY <1>7
  <2>0. /\ mapping' = Insert(mapping, m)
        /\ versions' = [s \in Sectors |-> IF Covers(m, s) THEN Append(versions[s], content[s])
                                          ELSE versions[s]]
    BY <1>7 DEF InsertMapping
  <2> HIDE DEF m, v
  <2>2. op'[t] = r
    BY <2>1, SetOp
  <2>3. op'[t].step = "index"
    BY <2>2, <1>2
  <2> HIDE DEF r, content
  <2>4. data' = data \o DataOf(t, len)
    BY <1>5, <1>7 DEF DataOf, content
  <2> HIDE DEF len
  <2>5. /\ data' \in Seq(Cells) /\ Len(data') = Len(data) + len /\ Extends(data, data')
        /\ \A i \in 1..len : data'[Len(data) + i] = <<op[t].id, op[t].m.offset + i - 1>>
    <3>1. len \in 0..op[t].m.length
      BY <1>5 DEF len
    <3> QED
      BY <3>1, <2>4, <1>1, AppendedData
  <2>6. Backed(m, Len(data'))
    <3>1. /\ m.moffset = 8 + Len(data) /\ Len(data') = Len(data) + m.length
          /\ m.length \in Nat /\ m.length > 0 /\ Len(data) \in Nat
      BY <2>5, <1>3, <1>5
    <3>2. Within(m, 8, 8 + Len(data'))
      BY <3>1 DEF Within, Mend
    <3> QED
      BY <3>2 DEF Backed, HeaderSectors
  <2>7. ASSUME NEW s \in Sectors, Covers(m, s)
        PROVE  content[s] = ValueIn(data', m, s) /\ content[s] \in Cells
    <3>1. s \in Nat
      BY FileAssumption DEF Sectors
    <3>2. m.offset <= s /\ s < m.offset + m.length
      BY <2>7 DEF Covers, End
    <3>3. PICK i \in 1..len : i = s - m.offset + 1
      BY <3>1, <3>2, <1>5
    <3>4. (m.moffset + (s - m.offset)) - 7 = Len(data) + i /\ m.offset + i - 1 = s
      <4>1. PICK o \in Nat : o = m.offset
        BY <1>5
      <4>2. PICK k \in Nat : k = Len(data)
        BY <1>3
      <4>3. m.moffset = 8 + k /\ i = s - o + 1
        BY <4>1, <4>2, <3>3, <1>3, <1>5
      <4>4. ((8 + k) + (s - o)) - 7 = k + i /\ o + i - 1 = s
        BY <4>3, <3>1
      <4> QED
        BY <4>1, <4>2, <4>3, <4>4
    <3>5. data'[Len(data) + i] = <<op[t].id, s>>
      BY <3>4, <2>5, <1>5
    <3>6. ValueIn(data', m, s) = <<op[t].id, s>>
      BY <3>4, <3>5, <1>5 DEF ValueIn
    <3> QED
      BY <3>1, <3>6, <1>2 DEF content, Cells
  <2>8. /\ History(versions') /\ Shows(mapping', data', versions')
        /\ \A s \in Sectors : Extends(versions[s], versions'[s])
    <3>1. PICK w : w = versions'
      OBVIOUS
    <3>2. PICK e \in Seq(Cells) : e = data'
      BY <2>5
    <3>3. /\ w = Grown(versions, m, content)
          /\ \A s \in Sectors :
               Covers(m, s) => content[s] = ValueIn(e, m, s) /\ content[s] \in Cells
          /\ Extends(data, e) /\ Backed(m, Len(e))
      BY <3>1, <3>2, <2>0, <2>5, <2>6, <2>7 DEF Grown
    <3>4. /\ History(w) /\ Shows(Insert(mapping, m), e, w)
          /\ \A s \in Sectors : Extends(versions[s], w[s])
      BY <3>3, <1>3, <1>5, <1>6, Inserted
    <3> QED
      BY <3>1, <3>2, <3>4, <2>0
  <2> QED
    BY <2>3, <2>5, <2>8 DEF Records, ThreadOK
<1>8. CASE /\ \E n \in 0..(m.length - 1) :
                data' = data \o [i \in 1..n |-> content[m.offset + i - 1]]
           /\ Return(t) /\ UNCHANGED <<mapping, versions>>
  <2>1. PICK n \in 0..(m.length - 1) :
           data' = data \o [i \in 1..n |-> content[m.offset + i - 1]]
    BY <1>8
  <2> HIDE DEF m, content
  <2>2. n \in 0..op[t].m.length
    BY <1>5
  <2>3. data' \in Seq(Cells) /\ Extends(data, data')
    <3>1. data' = data \o DataOf(t, n)
      BY <2>1, <1>5 DEF DataOf, content
    <3> QED
      BY <3>1, <2>2, <1>1, AppendedData
  <2>4. op'[t].step = "idle"
    BY <1>8, Returning
  <2>5. Shows(mapping, data', versions)
    <3>1. IndexOK(mapping, Len(data))
      BY <1>6 DEF Shows
    <3>2. 0 \in Sectors
      BY FileAssumption DEF Sectors
    <3>3. /\ IndexOK(mapping, Len(data'))
          /\ \A s \in Sectors : ContentIn(data', mapping, s) = ContentIn(data, mapping, s)
      BY <3>1, <3>2, <2>3, <1>3, ContentKept
    <3> QED
      BY <3>3, <1>6 DEF Shows
  <2>6. \A s \in Sectors : Len(versions[s]) \in Nat
    BY <1>6 DEF History
  <2>7. \A s \in Sectors : Extends(versions[s], versions'[s])
    BY <2>6, <1>8, ExtendsSame
  <2> QED
    BY <2>3, <2>4, <2>5, <2>7, <1>6, <1>8 DEF Records, ThreadOK
<1> QED
  BY <1>7, <1>8 DEF PwriteAppend
\* A lookup in the index of an open file.
LEMMA LookedUp ==
  ASSUME IInv, RInv, state = "open", NEW pos \in Nat, NEW to \in Nat, pos <= to, to <= NSectors,
         NEW since \in [Sectors -> Nat],
         \A s \in Sectors : 1 <= since[s] /\ since[s] <= Len(versions[s]),
         NEW b, b = Lookup0(mapping, pos, to, NLookup)
  PROVE  b \in Seq(Requests) /\ BatchOK(b, pos, to, NLookup, since, data, versions)
<1>1. /\ History(versions) /\ Shows(mapping, data, versions) /\ data \in Seq(Cells)
      /\ NLookup \in Nat \ {0} /\ NLookup \in Nat
  BY FileAssumption, KnownOld DEF RInv, HistoryOK
<1>2. Apart(mapping)
  BY <1>1 DEF Shows, IndexOK, Apart
<1>3. Found(mapping, b, pos, to, NLookup)
  BY <1>1, <1>2, LookupFinds
<1>4. b \in Seq(Requests)
  BY <1>3 DEF Found
<1> QED
  BY <1>1, <1>3, <1>4, FoundBatch

\* pread() up to its first callback.
LEMMA PreadCallRecords ==
  ASSUME IInv, RInv, NEW t \in Threads, NEW offset \in Sectors, NEW length \in 1..NSectors,
         PreadCall(t, offset, length)
  PROVE  Records(t)
<1> DEFINE b == Lookup0(mapping, offset, offset + length, NLookup)
           since == [s \in Sectors |-> Len(versions[s])]
           r == [step |-> "read", from |-> offset, to |-> offset + length, got |-> << >>,
                 batch |-> b, left |-> NLookup, since |-> since]
<1>1. /\ state = "open" /\ offset + length <= NSectors /\ op' = [op EXCEPT ![t] = r]
      /\ UNCHANGED <<data, mapping, versions>>
  BY DEF PreadCall, At, memVars, diskVars, histVars
<1>2. PICK pos \in Nat : pos = offset
  BY FileAssumption DEF Sectors
<1>3. PICK to \in Nat : to = offset + length
  BY <1>2, FileAssumption
<1>4. pos <= to /\ to <= NSectors /\ NLookup \in Nat
  BY <1>1, <1>2, <1>3, FileAssumption
<1>5. /\ since \in [Sectors -> Nat]
      /\ \A s \in Sectors : 1 <= since[s] /\ since[s] <= Len(versions[s])
  <2>1. \A s \in Sectors : Len(versions[s]) \in Nat /\ Len(versions[s]) >= 1
    BY DEF RInv, HistoryOK, History
  <2> QED
    BY <2>1
<1>6. b = Lookup0(mapping, pos, to, NLookup)
  BY <1>2, <1>3
<1> HIDE DEF b, since
<1>7. b \in Seq(Requests) /\ BatchOK(b, pos, to, NLookup, since, data, versions)
  BY <1>1, <1>4, <1>5, <1>6, LookedUp
<1>8. /\ r \in Readings /\ r.from = pos /\ r.to = to /\ r.got = << >> /\ r.batch = b
      /\ r.left = NLookup /\ r.since = since /\ r.step = "read"
  <2>1. << >> \in Seq(Cells)
    OBVIOUS
  <2> QED
    BY <2>1, <1>2, <1>3, <1>4, <1>5, <1>7 DEF Readings
<1> HIDE DEF r
<1>9. Len(r.got) = 0 /\ r.from + Len(r.got) = pos
  BY <1>2, <1>8
<1>10. GotOK(r, versions)
  BY <1>9 DEF GotOK
<1>11. ReadOK(r, data, versions)
  BY <1>4, <1>5, <1>7, <1>8, <1>9, <1>10 DEF ReadOK
<1>12. op'[t] = r
  BY <1>1, SetOp
<1>13. ThreadOK(op'[t], data, versions)
  BY <1>8, <1>11, <1>12 DEF ThreadOK
<1> QED
  BY <1>1, <1>13, RecordsNothing

\* The callback for one mapping.
LEMMA PreadSegmentRecords ==
  ASSUME IInv, RInv, NEW t \in Threads, PreadSegment(t)
  PROVE  Records(t)
<1> DEFINE got == ReadUpto(t, Head(op[t].batch))
           batch == Tail(op[t].batch)
           left == op[t].left - 1
           r == [op[t] EXCEPT !.got = got, !.batch = batch, !.left = left]
<1>1. /\ state = "open" /\ op[t].step = "read" /\ op[t].batch # << >>
      /\ op' = [op EXCEPT ![t] = r] /\ UNCHANGED <<data, mapping, versions>>
  BY DEF PreadSegment, At, memVars, diskVars, histVars
<1>2. ReadOK(op[t], data, versions) /\ History(versions) /\ data \in Seq(Cells)
  BY <1>1, KnownOld DEF RInv, HistoryOK, ThreadOK
<1>3. got = op[t].got \o [i \in 1..(End(Head(op[t].batch)) - (op[t].from + Len(op[t].got))) |->
                            ContentIn(data, {Head(op[t].batch)},
                                      op[t].from + Len(op[t].got) + i - 1)]
  BY DEF ReadUpto, Content, ContentIn
<1> HIDE DEF got
<1>4. ReadOK(r, data, versions)
  BY <1>1, <1>2, <1>3, SegmentRead
<1>5. r.step = "read"
  BY <1>4 DEF ReadOK, Readings
<1> HIDE DEF r
<1>6. op'[t] = r
  BY <1>1, SetOp
<1>7. ThreadOK(op'[t], data, versions)
  BY <1>4, <1>5, <1>6 DEF ThreadOK
<1> QED
  BY <1>1, <1>7, RecordsNothing

\* The next lookup of a long read.
LEMMA PreadMoreRecords ==
  ASSUME IInv, RInv, NEW t \in Threads, PreadMore(t)
  PROVE  Records(t)
<1> DEFINE b == Lookup0(mapping, op[t].from + Len(op[t].got), op[t].to, NLookup)
           r == [op[t] EXCEPT !.left = NLookup, !.batch = b]
<1>1. /\ state = "open" /\ op[t].step = "read"
      /\ op' = [op EXCEPT ![t] = r] /\ UNCHANGED <<data, mapping, versions>>
  BY DEF PreadMore, At, memVars, diskVars, histVars
<1>2. ReadOK(op[t], data, versions) /\ op[t] \in Readings
  BY <1>1 DEF RInv, ThreadOK, ReadOK
<1>3. /\ op[t].from + Len(op[t].got) <= op[t].to /\ op[t].to <= NSectors
      /\ \A s \in Sectors : 1 <= op[t].since[s] /\ op[t].since[s] <= Len(versions[s])
      /\ GotOK(op[t], versions)
  BY <1>2 DEF ReadOK
<1>4. /\ op[t].from \in Nat /\ op[t].to \in Nat /\ Len(op[t].got) \in Nat
      /\ op[t].since \in [Sectors -> Nat]
  BY <1>2, <1>3, ReadSector
<1>5. PICK pos \in Nat : pos = op[t].from + Len(op[t].got)
  BY <1>4
<1>6. b = Lookup0(mapping, pos, op[t].to, NLookup)
  BY <1>5
<1> HIDE DEF b
<1>7. /\ b \in Seq(Requests)
      /\ BatchOK(b, pos, op[t].to, NLookup, op[t].since, data, versions)
  BY <1>1, <1>3, <1>4, <1>5, <1>6, LookedUp
<1>8. /\ r \in Readings /\ r.from = op[t].from /\ r.to = op[t].to /\ r.got = op[t].got
      /\ r.batch = b /\ r.left = NLookup /\ r.since = op[t].since /\ r.step = "read"
  <2>1. NLookup \in Nat
    BY FileAssumption
  <2> QED
    BY <2>1, <1>2, <1>7 DEF Readings
<1> HIDE DEF r
<1>9. GotOK(r, versions)
  BY <1>3, <1>8 DEF GotOK
<1>10. ReadOK(r, data, versions)
  BY <1>3, <1>5, <1>7, <1>8, <1>9 DEF ReadOK
<1>11. op'[t] = r
  BY <1>1, SetOp
<1>12. ThreadOK(op'[t], data, versions)
  BY <1>8, <1>10, <1>11 DEF ThreadOK
<1> QED
  BY <1>1, <1>12, RecordsNothing

\* Every action of a thread.
LEMMA ThreadRecords ==
  ASSUME IInv, RInv, NEW t \in Threads, ThreadStep(t)
  PROVE  Records(t)
BY OtherRecords, PwriteCallRecords, DiscardCallRecords, PwriteAppendRecords, PreadCallRecords,
   PreadSegmentRecords, PreadMoreRecords DEF ThreadStep

\* A close, a crash or a power loss ends every request.
LEMMA ForgetRecords ==
  ASSUME RInv, Forget, state' # "open", versions' = versions
  PROVE  RInv'
<1>1. \A t \in Threads : op'[t].step = "idle"
  BY DEF Forget, Idle
<1>2. \A t \in Threads : ThreadOK(op'[t], data', versions')
  BY <1>1 DEF ThreadOK
<1>3. HistoryOK'
  BY DEF RInv, HistoryOK
<1> QED
  BY <1>2, <1>3 DEF RInv

\* The first entries of a sector's history, with what it reads now.
Restarted(v, n, c) == Append(FirstN(v, n), c)

\* Such a history is one, and goes on where it was cut.
LEMMA RestartedOK ==
  ASSUME NEW v \in Seq(Cells), NEW n \in Nat, NEW c \in Cells
  PROVE  \E w \in Seq(Cells) :
           /\ w = Restarted(v, n, c) /\ Len(w) \in Nat /\ Len(w) > 0 /\ w[Len(w)] = c
           /\ n <= Len(v) => Len(w) = n + 1 /\ \A i \in 1..n : w[i] = v[i]
<1> DEFINE k == IF n < Len(v) THEN n ELSE Len(v)
           f == SubSeq(v, 1, k)
           w == Restarted(v, n, c)
<1>1. k \in Nat /\ k <= Len(v) /\ (n <= Len(v) => k = n)
  OBVIOUS
<1> HIDE DEF k
<1>2. f \in Seq(Cells) /\ Len(f) = k /\ \A i \in 1..k : f[i] = v[i]
  BY <1>1
<1> HIDE DEF f
<1>3. w = Append(f, c)
  BY DEF Restarted, FirstN, f, k
<1> HIDE DEF w
<1>4. /\ w \in Seq(Cells) /\ Len(w) = k + 1 /\ w[k + 1] = c /\ \A i \in 1..k : w[i] = f[i]
  BY <1>2, <1>3
<1>5. /\ Len(w) \in Nat /\ Len(w) > 0 /\ w[Len(w)] = c
      /\ n <= Len(v) => Len(w) = n + 1 /\ \A i \in 1..n : w[i] = v[i]
  BY <1>1, <1>2, <1>4
<1> QED
  BY <1>4, <1>5 DEF w

\* The mappings of a log that cover a sector are counted.
LEMMA LogsCover ==
  ASSUME NEW log, NEW s
  PROVE  Logs(log, s) = Cover(log, Len(log), s)
BY DEF Logs, Cover, CoverSet

\* What a file that opens reads in every sector.
LEMMA Reopened ==
  ASSUME IInv, Loadable
  PROVE  /\ \A i \in 1..Len(findex) : Backed(findex[i], Len(data))
         /\ IndexOK(Replay(findex), Len(data))
         /\ \A s \in Sectors : Shown(findex, Len(findex), Replay(findex), s)
<1>1. \A i \in 1..Len(findex) : Backed(findex[i], Len(data))
  BY DEF Loadable, Backed, DataEnd
<1>2. findex \in Seq(Logged) /\ Len(data) \in Nat
  BY KnownOld
<1> QED
  BY <1>1, <1>2, ReplayShows

\* open_file_rw() begins a history that the index shows.
LEMMA ReopenRecords ==
  ASSUME IInv, RInv, Reopen
  PROVE  RInv'
<1>1. state \in {"down", "lost"} /\ UNCHANGED <<diskVars, op>>
  BY DEF Reopen
<1>2. \A t \in Threads : op'[t].step = "idle"
  BY <1>1 DEF IInv, Quiet, Idle
<1>3. \A t \in Threads : ThreadOK(op'[t], data', versions')
  BY <1>2 DEF ThreadOK
<1>4. CASE /\ Loadable /\ mapping' = Replay(findex)
           /\ versions' = [s \in Sectors |-> Append(FirstN(versions[s], Logs(findex, s)),
                                                   Content(mapping', s))]
  <2>1. data' = data /\ data \in Seq(Cells)
    BY <1>1, KnownOld DEF diskVars
  <2>2. IndexOK(Replay(findex), Len(data))
    BY <1>4, Reopened
  <2>3. ASSUME NEW s \in Sectors
        PROVE  /\ versions'[s] \in Seq(Cells) /\ Len(versions'[s]) > 0
               /\ versions'[s][Len(versions'[s])] = ContentIn(data, mapping', s)
    <3>1. versions'[s] = Append(FirstN(versions[s], Logs(findex, s)), ContentIn(data, mapping', s))
      BY <1>4 DEF Content, ContentIn
    <3>2. ContentIn(data, mapping', s) \in Cells
      BY <2>1, <2>2, <1>4, ContentCell
    <3>3. Logs(findex, s) \in Nat
      <4>1. Len(findex) \in Nat
        BY KnownOld
      <4> QED
        BY <4>1, LogsCover, CoverNat
    <3>4. versions[s] \in Seq(Cells)
      BY DEF RInv, HistoryOK, History
    <3> QED
      <4>1. PICK c \in Cells : c = ContentIn(data, mapping', s)
        BY <3>2
      <4>2. PICK n \in Nat : n = Logs(findex, s)
        BY <3>3
      <4>3. PICK v \in Seq(Cells) : v = versions[s]
        BY <3>4
      <4>4. PICK w \in Seq(Cells) : w = Restarted(v, n, c) /\ Len(w) > 0 /\ w[Len(w)] = c
        BY RestartedOK
      <4> QED
        BY <4>1, <4>2, <4>3, <4>4, <3>1 DEF Restarted
  <2>4. versions' \in [Sectors -> Seq(Cells)]
    <3>1. versions' = [s \in Sectors |-> versions'[s]]
      BY <1>4
    <3> QED
      BY <3>1, <2>3
  <2>5. History(versions') /\ Shows(mapping', data', versions')
    BY <2>1, <2>2, <2>3, <2>4, <1>4 DEF History, Shows
  <2> QED
    BY <2>5, <1>3 DEF RInv, HistoryOK
<1>5. CASE state' = "broken" /\ UNCHANGED histVars
  BY <1>3, <1>5 DEF RInv, HistoryOK, histVars
<1> QED
  BY <1>4, <1>5 DEF Reopen

\* A new file has no history but zeros.
LEMMA RecordsInit == Init => RInv
<1> SUFFICES ASSUME Init PROVE RInv
  OBVIOUS
<1>1. \A s \in Sectors : versions[s] = <<Zeros>>
  BY DEF Init
<1>2. Zeros \in Cells
  BY DEF Zeros, Cells
<1>3. \A s \in Sectors : /\ versions[s] \in Seq(Cells) /\ Len(versions[s]) = 1
                         /\ versions[s][1] = Zeros
  <2>1. ASSUME NEW z \in Cells
        PROVE  <<z>> \in Seq(Cells) /\ Len(<<z>>) = 1 /\ <<z>>[1] = z
    OBVIOUS
  <2> QED
    BY <2>1, <1>1, <1>2
<1>4. History(versions)
  <2>1. versions \in [Sectors -> Seq(Cells)]
    BY <1>2 DEF Init
  <2> QED
    BY <2>1, <1>3 DEF History
<1>5. Shows(mapping, data, versions)
  <2>1. mapping = {}
    BY DEF Init
  <2>2. IndexOK({}, Len(data))
    BY FS_EmptySet DEF IndexOK, Disjoint
  <2>3. \A s \in Sectors : ContentIn(data, {}, s) = Zeros
    BY ContentHole
  <2> QED
    BY <2>1, <2>2, <2>3, <1>3 DEF Shows
<1>6. \A t \in Threads : op[t].step = "idle"
  BY DEF Init, Idle
<1> QED
  BY <1>4, <1>5, <1>6 DEF RInv, HistoryOK, ThreadOK

\* Every step keeps the invariant of reads.
LEMMA RecordsNext == IInv /\ RInv /\ [Next]_vars => RInv'
<1> SUFFICES ASSUME IInv, RInv, [Next]_vars PROVE RInv'
  OBVIOUS
<1>1. CASE UNCHANGED vars
  BY <1>1 DEF vars, memVars, diskVars, histVars, RInv, HistoryOK
<1>2. ASSUME NEW t \in Threads, ThreadStep(t) PROVE RInv'
  BY <1>2, ThreadMoves, ThreadRecords, RecordsOK
<1>3. CASE Overruns \/ Close \/ Crash \/ LosePower
  <2>1. Forget /\ state' # "open" /\ versions' = versions
    BY <1>3 DEF Overruns, StoreOverruns, ResizeOverruns, Close, Crash, LosePower, Down, histVars
  <2> QED
    BY <2>1, ForgetRecords
<1> QED
  BY <1>1, <1>2, <1>3, ReopenRecords, NextSplit

\* What the invariant says of a read under way.
LEMMA RecordsRegular == RInv => ReadsAreRegular
<1> SUFFICES ASSUME RInv, NEW t \in Threads, op[t].step = "read"
             PROVE  /\ \A i \in 1..Len(op[t].got) :
                         op[t].got[i] \in SeenIn(versions, op[t].since, op[t].from + i - 1)
                    /\ (op[t].batch = << >> /\ op[t].left > 0) =>
                         \A s \in (op[t].from + Len(op[t].got))..(op[t].to - 1) :
                           Zeros \in SeenIn(versions, op[t].since, s)
  BY DEF ReadsAreRegular, SeenIn
<1>1. ReadOK(op[t], data, versions)
  BY DEF RInv, ThreadOK
<1>2. GotOK(op[t], versions)
  BY <1>1 DEF ReadOK
<1>3. BatchOK(op[t].batch, op[t].from + Len(op[t].got), op[t].to, op[t].left, op[t].since, data,
              versions)
  BY <1>1 DEF ReadOK
<1>4. ASSUME op[t].batch = << >>, op[t].left > 0,
             NEW s \in (op[t].from + Len(op[t].got))..(op[t].to - 1)
      PROVE  Zeros \in SeenIn(versions, op[t].since, s)
  <2>1. Len(op[t].batch) = 0 /\ Len(op[t].batch) < op[t].left
    BY <1>4
  <2> QED
    BY <2>1, <1>3, <1>4 DEF BatchOK
<1> QED
  BY <1>2, <1>4 DEF GotOK

\* pread() takes no lock, and yet returns for every sector what that held at some
\* time since the read began, whatever the other threads do and however the file
\* was closed, lost its server or its power, and was opened before.
THEOREM ReadsRegular == Spec => []ReadsAreRegular
<1>1. Init => IInv /\ RInv
  BY InitOK, RecordsInit
<1>2. IInv /\ RInv /\ [Next]_vars => (IInv /\ RInv)'
  BY NextOK, RecordsNext
<1>3. IInv /\ RInv => ReadsAreRegular
  BY RecordsRegular
<1> QED
  BY <1>1, <1>2, <1>3, PTL DEF Spec
-----------------------------------------------------------------------------
(* The mutex *)

FsyncSteps == {"fsync", "fsync_data", "fsync_index"}

\* The threads that have asked for m_rw_mtx are in its queue, each once.
NeedsMutex == {"append", "index", "log", "flush", "fsync", "regroup"}
Queued ==
  /\ \A i, j \in 1..Len(queue) : queue[i] = queue[j] => i = j
  /\ \A t \in Threads : op[t].step \in NeedsMutex <=> \E i \in 1..Len(queue) : queue[i] = t

\* What an action of t does to the queue, and to t.
QueueStep(t) ==
  \/ queue' = queue /\ (op[t].step \in NeedsMutex <=> op'[t].step \in NeedsMutex)
  \/ queue' = Append(queue, t) /\ op[t].step \notin NeedsMutex /\ op'[t].step \in NeedsMutex
  \/ /\ Locked(t) /\ queue' = Tail(queue)
     /\ op[t].step \in NeedsMutex /\ op'[t].step \notin NeedsMutex

\* Joining the queue, or leaving it from its head, keeps it that way.
LEMMA QueueStepOK ==
  ASSUME IInv, Queued, NEW t \in Threads, Others(t), QueueStep(t)
  PROVE  Queued'
<1>1. queue \in Seq(Threads) /\ Len(queue) \in Nat /\ \A u \in Threads \ {t} : op'[u] = op[u]
  BY KnownOld DEF Others
<1>2. CASE queue' = queue /\ (op[t].step \in NeedsMutex <=> op'[t].step \in NeedsMutex)
  <2>1. ASSUME NEW u \in Threads
        PROVE  op'[u].step \in NeedsMutex <=> \E i \in 1..Len(queue) : queue[i] = u
    BY <1>1, <1>2 DEF Queued
  <2> QED
    BY <2>1, <1>2 DEF Queued
<1>3. CASE queue' = Append(queue, t) /\ op[t].step \notin NeedsMutex /\ op'[t].step \in NeedsMutex
  <2>1. /\ Len(queue') = Len(queue) + 1 /\ queue'[Len(queue) + 1] = t
        /\ \A i \in 1..Len(queue) : queue'[i] = queue[i]
    BY <1>1, <1>3
  <2>2. \A i \in 1..Len(queue) : queue[i] # t
    BY <1>3 DEF Queued
  <2>3. ASSUME NEW i \in 1..Len(queue'), NEW j \in 1..Len(queue'), queue'[i] = queue'[j]
        PROVE  i = j
    <3>1. i \in 1..Len(queue) \/ i = Len(queue) + 1
      BY <2>1, <1>1
    <3>2. j \in 1..Len(queue) \/ j = Len(queue) + 1
      BY <2>1, <1>1
    <3> QED
      BY <2>1, <2>2, <2>3, <3>1, <3>2 DEF Queued
  <2>4. ASSUME NEW u \in Threads
        PROVE  op'[u].step \in NeedsMutex <=> \E i \in 1..Len(queue') : queue'[i] = u
    <3>1. CASE u = t
      <4>1. Len(queue) + 1 \in 1..Len(queue')
        BY <2>1, <1>1
      <4> QED
        BY <4>1, <3>1, <2>1, <1>3
    <3>2. CASE u # t
      <4>1. op'[u] = op[u]
        BY <3>2, <1>1
      <4>2. (\E i \in 1..Len(queue') : queue'[i] = u) <=> (\E i \in 1..Len(queue) : queue[i] = u)
        <5>1. ASSUME NEW i \in 1..Len(queue'), queue'[i] = u
              PROVE  i \in 1..Len(queue) /\ queue[i] = u
          <6>1. i \in 1..Len(queue)
            BY <5>1, <3>2, <2>1, <1>1
          <6> QED
            BY <6>1, <5>1, <2>1
        <5>2. ASSUME NEW i \in 1..Len(queue), queue[i] = u
              PROVE  i \in 1..Len(queue') /\ queue'[i] = u
          BY <5>2, <2>1, <1>1
        <5> QED
          BY <5>1, <5>2
      <4> QED
        BY <4>1, <4>2 DEF Queued
    <3> QED
      BY <3>1, <3>2
  <2> QED
    BY <2>3, <2>4 DEF Queued
<1>4. CASE /\ Locked(t) /\ queue' = Tail(queue)
           /\ op[t].step \in NeedsMutex /\ op'[t].step \notin NeedsMutex
  <2>1. queue # << >> /\ queue[1] = t /\ 1 \in 1..Len(queue)
    BY <1>1, <1>4 DEF Locked
  <2>2. /\ Len(queue') = Len(queue) - 1
        /\ \A i \in 1..Len(queue') :
             queue'[i] = queue[i + 1] /\ i + 1 \in 1..Len(queue) /\ i + 1 # 1
        /\ \A i \in 1..Len(queue) : i # 1 => i - 1 \in 1..Len(queue') /\ queue'[i - 1] = queue[i]
    <3>1. Len(queue') = Len(queue) - 1 /\ \A i \in 1..Len(queue') : queue'[i] = queue[i + 1]
      BY <2>1, <1>1, <1>4
    <3>2. ASSUME NEW i \in 1..Len(queue')
          PROVE  queue'[i] = queue[i + 1] /\ i + 1 \in 1..Len(queue) /\ i + 1 # 1
      BY <3>1, <1>1
    <3>3. ASSUME NEW i \in 1..Len(queue), i # 1
          PROVE  i - 1 \in 1..Len(queue') /\ queue'[i - 1] = queue[i]
      <4>1. i - 1 \in 1..Len(queue') /\ (i - 1) + 1 = i
        BY <3>1, <3>3, <1>1
      <4> QED
        BY <4>1, <3>1
    <3> QED
      BY <3>1, <3>2, <3>3
  <2>3. ASSUME NEW i \in 1..Len(queue'), NEW j \in 1..Len(queue'), queue'[i] = queue'[j]
        PROVE  i = j
    <3>1. i + 1 = j + 1
      BY <2>2, <2>3 DEF Queued
    <3> QED
      BY <3>1
  <2>4. ASSUME NEW u \in Threads
        PROVE  op'[u].step \in NeedsMutex <=> \E i \in 1..Len(queue') : queue'[i] = u
    <3>1. CASE u = t
      <4>1. ASSUME NEW i \in 1..Len(queue') PROVE queue'[i] # t
        <5>1. queue'[i] = queue[i + 1] /\ i + 1 \in 1..Len(queue) /\ i + 1 # 1
          BY <2>2
        <5> QED
          BY <5>1, <2>1 DEF Queued
      <4> QED
        BY <4>1, <3>1, <1>4
    <3>2. CASE u # t
      <4>1. op'[u] = op[u]
        BY <3>2, <1>1
      <4>2. (\E i \in 1..Len(queue') : queue'[i] = u) <=> (\E i \in 1..Len(queue) : queue[i] = u)
        <5>1. ASSUME NEW i \in 1..Len(queue'), queue'[i] = u
              PROVE  \E j \in 1..Len(queue) : queue[j] = u
          BY <5>1, <2>2
        <5>2. ASSUME NEW i \in 1..Len(queue), queue[i] = u
              PROVE  \E j \in 1..Len(queue') : queue'[j] = u
          <6>1. i # 1
            BY <5>2, <3>2, <2>1
          <6> QED
            BY <6>1, <5>2, <2>2
        <5> QED
          BY <5>1, <5>2
      <4> QED
        BY <4>1, <4>2 DEF Queued
    <3> QED
      BY <3>1, <3>2
  <2> QED
    BY <2>3, <2>4 DEF Queued
<1> QED
  BY <1>2, <1>3, <1>4 DEF QueueStep

\* The calls that ask for the mutex, and those that do not.
LEMMA CallsQueue ==
  ASSUME IInv, NEW t \in Threads, NEW offset \in Sectors, NEW length \in 1..NSectors,
         \/ PwriteCall(t, offset, length) \/ DiscardCall(t, offset, length)
         \/ PreadCall(t, offset, length)
  PROVE  QueueStep(t) /\ op'[t].step \notin FsyncSteps
<1>1. CASE PwriteCall(t, offset, length)
  <2> DEFINE r == [step |-> "append", m |-> Mapping(offset, length, 0, FALSE, 0), id |-> nops + 1,
                   version |-> [s \in Sectors |-> 0]]
  <2>1. /\ op' = [op EXCEPT ![t] = r] /\ r.step = "append" /\ op[t].step = "idle"
        /\ queue' = Append(queue, t)
    BY <1>1 DEF PwriteCall, At, Lock
  <2> HIDE DEF r
  <2>2. op'[t].step = "append"
    BY <2>1, SetOp
  <2> QED
    BY <2>1, <2>2 DEF QueueStep, FsyncSteps, NeedsMutex
<1>2. CASE DiscardCall(t, offset, length)
  <2> DEFINE m == Mapping(offset, length, DataEnd, TRUE, 0)
             r == [step |-> "index", m |-> m, id |-> nops + 1,
                   version |-> [s \in Sectors |-> Len(versions'[s])]]
  <2>1. /\ op' = [op EXCEPT ![t] = r] /\ r.step = "index" /\ op[t].step = "idle"
        /\ queue' = Append(queue, t)
    BY <1>2 DEF DiscardCall, At, Lock
  <2> HIDE DEF r
  <2>2. op'[t].step = "index"
    BY <2>1, SetOp
  <2> QED
    BY <2>1, <2>2 DEF QueueStep, FsyncSteps, NeedsMutex
<1>3. CASE PreadCall(t, offset, length)
  <2> DEFINE r == [step |-> "read", from |-> offset, to |-> offset + length, got |-> << >>,
                   batch |-> Lookup0(mapping, offset, offset + length, NLookup),
                   left |-> NLookup, since |-> [s \in Sectors |-> Len(versions[s])]]
  <2>1. /\ op' = [op EXCEPT ![t] = r] /\ r.step = "read" /\ op[t].step = "idle" /\ queue' = queue
    BY <1>3 DEF PreadCall, At, memVars
  <2> HIDE DEF r
  <2>2. op'[t].step = "read"
    BY <2>1, SetOp
  <2> QED
    BY <2>1, <2>2 DEF QueueStep, FsyncSteps, NeedsMutex
<1> QED
  BY <1>1, <1>2, <1>3

\* The steps of a write or discard that has been called.
LEMMA ChangesQueue ==
  ASSUME IInv, NEW t \in Threads,
         PwriteAppend(t) \/ AppendIndex(t) \/ LogMapping(t) \/ FlushGroup(t)
  PROVE  QueueStep(t) /\ op'[t].step \notin FsyncSteps
<1>1. op[t].step \in Changing /\ op[t].step \in NeedsMutex /\ "step" \in DOMAIN op[t]
  <2>1. op[t].step \in Changing /\ op[t].step \in NeedsMutex
    BY DEF PwriteAppend, AppendIndex, LogMapping, FlushGroup, At, Changing, InIndex, NeedsMutex
  <2> QED
    BY <2>1, ChangingHas
<1>2. Locked(t)
  <2>1. CASE op[t].step \in Holding
    BY <2>1 DEF IInv, Holder
  <2>2. CASE PwriteAppend(t) \/ AppendIndex(t)
    BY <2>2 DEF PwriteAppend, AppendIndex
  <2> QED
    BY <2>1, <2>2 DEF LogMapping, FlushGroup, At, Holding
<1>3. CASE Return(t) /\ Unlock
  BY <1>1, <1>2, <1>3, Returning DEF QueueStep, FsyncSteps, Unlock, NeedsMutex
<1>4. ASSUME NEW s \in {"log", "flush"}, Goto(t, s), UNCHANGED queue
      PROVE  QueueStep(t) /\ op'[t].step \notin FsyncSteps
  <2>1. op'[t] = [op[t] EXCEPT !.step = s]
    BY <1>1, <1>4, Stepping
  <2>2. op'[t].step = s
    BY <2>1, <1>1
  <2> QED
    BY <2>2, <1>1, <1>4 DEF QueueStep, FsyncSteps, NeedsMutex
<1>5. ASSUME NEW m, NEW v, UNCHANGED queue,
             op' = [op EXCEPT ![t].step = "index", ![t].m = m, ![t].version = v]
      PROVE  QueueStep(t) /\ op'[t].step \notin FsyncSteps
  <2> DEFINE r == [op[t] EXCEPT !.step = "index", !.m = m, !.version = v]
  <2>1. op' = [op EXCEPT ![t] = r]
    BY <1>5
  <2>2. r.step = "index"
    BY <1>1
  <2> HIDE DEF r
  <2>3. op'[t].step = "index"
    BY <2>1, <2>2, SetOp
  <2> QED
    BY <2>3, <1>1, <1>5 DEF QueueStep, FsyncSteps, NeedsMutex
<1>6. CASE PwriteAppend(t)
  <2> DEFINE m == [op[t].m EXCEPT !.moffset = DataEnd]
             v == [s \in Sectors |-> Len(versions'[s])]
  <2>1. \/ Return(t) /\ Unlock
        \/ /\ UNCHANGED queue
           /\ op' = [op EXCEPT ![t].step = "index", ![t].m = m, ![t].version = v]
    BY <1>6 DEF PwriteAppend
  <2> HIDE DEF m, v
  <2> QED
    BY <2>1, <1>3, <1>5
<1>7. CASE AppendIndex(t)
  <2>1. \/ Return(t) /\ Unlock
        \/ \E s \in {"log", "flush"} : Goto(t, s) /\ UNCHANGED queue
    BY <1>7 DEF AppendIndex
  <2> QED
    BY <2>1, <1>3, <1>4
<1> QED
  BY <1>3, <1>6, <1>7 DEF LogMapping, FlushGroup

\* fsync()
LEMMA FsyncQueue ==
  ASSUME IInv, NEW t \in Threads, FsyncCall(t) \/ FsyncFlush(t) \/ FsyncData(t) \/ FsyncIndex(t)
  PROVE  QueueStep(t)
<1>1. ASSUME op[t].step \in FsyncSteps PROVE "step" \in DOMAIN op[t]
  BY <1>1 DEF FsyncSteps, IInv, Shapes, OpOK, Idle, Changing, InIndex
<1>2. ASSUME NEW s, op[t].step \in FsyncSteps, Goto(t, s) PROVE op'[t].step = s
  <2>1. "step" \in DOMAIN op[t]
    BY <1>1, <1>2
  <2>2. op'[t] = [op[t] EXCEPT !.step = s]
    BY <2>1, <1>2, Stepping
  <2> QED
    BY <2>1, <2>2
<1>3. CASE FsyncCall(t)
  <2> DEFINE r == [step |-> "fsync", mark |-> done]
  <2>1. /\ op' = [op EXCEPT ![t] = r] /\ r.step = "fsync" /\ op[t].step = "idle"
        /\ queue' = Append(queue, t)
    BY <1>3 DEF FsyncCall, At, Lock
  <2> HIDE DEF r
  <2>2. op'[t].step = "fsync"
    BY <2>1, SetOp
  <2> QED
    BY <2>1, <2>2 DEF QueueStep, NeedsMutex
<1>4. CASE FsyncFlush(t)
  <2>1. /\ op[t].step = "fsync" /\ Locked(t) /\ queue' = Tail(queue)
        /\ Goto(t, "fsync_data") \/ Return(t)
    BY <1>4 DEF FsyncFlush, At, Unlock
  <2>2. op'[t].step \in {"fsync_data", "idle"}
    BY <2>1, <1>2, Returning DEF FsyncSteps
  <2> QED
    BY <2>1, <2>2 DEF QueueStep, NeedsMutex
<1>5. CASE FsyncData(t)
  <2>1. op[t].step = "fsync_data" /\ queue' = queue /\ Goto(t, "fsync_index")
    BY <1>5 DEF FsyncData, At, memVars
  <2>2. op'[t].step = "fsync_index"
    BY <2>1, <1>2 DEF FsyncSteps
  <2> QED
    BY <2>1, <2>2 DEF QueueStep, NeedsMutex
<1>6. CASE FsyncIndex(t)
  <2>1. op[t].step = "fsync_index" /\ queue' = queue /\ op'[t].step = "idle"
    BY <1>6, Returning DEF FsyncIndex, At, memVars
  <2> QED
    BY <2>1 DEF QueueStep, NeedsMutex
<1> QED
  BY <1>3, <1>4, <1>5, <1>6

\* set_index_group_commit(), and reads.
LEMMA OthersQueue ==
  ASSUME IInv, NEW t \in Threads,
         \/ \E size \in GroupSizes : GroupCall(t, size)
         \/ GroupFlush(t) \/ PreadSegment(t) \/ PreadSegmentFails(t) \/ PreadMore(t)
         \/ PreadReturn(t)
  PROVE  QueueStep(t) /\ op'[t].step \notin FsyncSteps
<1>1. ASSUME NEW size \in GroupSizes, GroupCall(t, size)
      PROVE  QueueStep(t) /\ op'[t].step \notin FsyncSteps
  <2> DEFINE r == [step |-> "regroup", size |-> size]
  <2>1. /\ op[t].step = "idle" /\ r.step = "regroup"
        /\ \/ op' = [op EXCEPT ![t] = r] /\ queue' = Append(queue, t)
           \/ UNCHANGED <<queue, op>>
    BY <1>1 DEF GroupCall, At, Lock
  <2> HIDE DEF r
  <2>2. CASE op' = [op EXCEPT ![t] = r] /\ queue' = Append(queue, t)
    <3>1. op'[t].step = "regroup"
      BY <2>1, <2>2, SetOp
    <3> QED
      BY <3>1, <2>1, <2>2 DEF QueueStep, FsyncSteps, NeedsMutex
  <2>3. CASE UNCHANGED <<queue, op>>
    BY <2>1, <2>3 DEF QueueStep, FsyncSteps
  <2> QED
    BY <2>1, <2>2, <2>3
<1>2. CASE GroupFlush(t)
  <2>1. op[t].step = "regroup" /\ Locked(t) /\ queue' = Tail(queue) /\ op'[t].step = "idle"
    BY <1>2, Returning DEF GroupFlush, At, Unlock
  <2> QED
    BY <2>1 DEF QueueStep, FsyncSteps, NeedsMutex
<1>3. CASE PreadReturn(t)
  <2>1. op[t].step \in {"read", "misread"} /\ queue' = queue /\ op'[t].step = "idle"
    BY <1>3, Returning DEF PreadReturn, At, memVars
  <2> QED
    BY <2>1 DEF QueueStep, FsyncSteps, NeedsMutex
<1>4. ASSUME op[t].step = "read", queue' = queue, op'[t].step = "read"
      PROVE  QueueStep(t) /\ op'[t].step \notin FsyncSteps
  BY <1>4 DEF QueueStep, FsyncSteps
<1>6. CASE PreadSegmentFails(t)
  <2>1. op[t].step = "read" /\ queue' = queue /\ (Return(t) \/ Goto(t, "misread"))
    BY <1>6 DEF PreadSegmentFails, At, memVars
  <2>2. "step" \in DOMAIN op[t]
    BY <2>1 DEF IInv, Shapes, OpOK, Idle, Changing, InIndex
  <2>3. op'[t].step \in {"idle", "misread"}
    <3>1. CASE Return(t)
      BY <3>1, Returning
    <3>2. CASE Goto(t, "misread")
      <4>1. op'[t] = [op[t] EXCEPT !.step = "misread"]
        BY <3>2, <2>2, Stepping
      <4> QED
        BY <4>1, <2>2
    <3> QED
      BY <3>1, <3>2, <2>1
  <2> QED
    BY <2>1, <2>3 DEF QueueStep, FsyncSteps, NeedsMutex
<1>5. CASE PreadSegment(t) \/ PreadMore(t)
  <2>1. /\ op[t].step = "read" /\ queue' = queue
        /\ {"step", "got", "batch", "left"} \subseteq DOMAIN op[t]
    BY <1>5 DEF PreadSegment, PreadMore, At, memVars, IInv, Shapes, OpOK, Idle, Changing, InIndex
  <2>2. CASE PreadSegment(t)
    <3> DEFINE got == ReadUpto(t, Head(op[t].batch))
               batch == Tail(op[t].batch)
               left == op[t].left - 1
               r == [op[t] EXCEPT !.got = got, !.batch = batch, !.left = left]
    <3>1. op' = [op EXCEPT ![t] = r]
      BY <2>2 DEF PreadSegment
    <3> HIDE DEF got, batch, left
    <3>2. r.step = "read"
      BY <2>1
    <3> HIDE DEF r
    <3> QED
      BY <3>1, <3>2, <2>1, <1>4, SetOp
  <2>3. CASE PreadMore(t)
    <3> DEFINE batch == Lookup0(mapping, op[t].from + Len(op[t].got), op[t].to, NLookup)
               r == [op[t] EXCEPT !.left = NLookup, !.batch = batch]
    <3>1. op' = [op EXCEPT ![t] = r]
      BY <2>3 DEF PreadMore
    <3> HIDE DEF batch
    <3>2. r.step = "read"
      BY <2>1
    <3> HIDE DEF r
    <3> QED
      BY <3>1, <3>2, <2>1, <1>4, SetOp
  <2> QED
    BY <1>5, <2>2, <2>3
<1> QED
  BY <1>1, <1>2, <1>3, <1>5, <1>6

\* Every action of a thread.
LEMMA ThreadQueue ==
  ASSUME IInv, NEW t \in Threads, ThreadStep(t)
  PROVE  QueueStep(t)
BY CallsQueue, ChangesQueue, FsyncQueue, OthersQueue DEF ThreadStep

\* Nobody waits at first.
LEMMA QueuedInit == Init => Queued
BY DEF Init, Queued, Idle, NeedsMutex

\* Every step keeps the queue.
LEMMA QueuedNext == IInv /\ Queued /\ [Next]_vars => Queued'
<1> SUFFICES ASSUME IInv, Queued, [Next]_vars PROVE Queued'
  OBVIOUS
<1>1. CASE UNCHANGED vars
  BY <1>1 DEF vars, memVars, Queued
<1>2. ASSUME NEW t \in Threads, ThreadStep(t) PROVE Queued'
  <2>1. Others(t)
    BY <1>2, ThreadMoves DEF Moves
  <2>2. QueueStep(t)
    BY <1>2, ThreadQueue
  <2> QED
    BY <2>1, <2>2, QueueStepOK
<1>3. CASE Overruns \/ Close \/ Crash \/ LosePower
  <2>1. queue' = << >> /\ \A t \in Threads : op'[t].step = "idle"
    BY <1>3 DEF Overruns, StoreOverruns, ResizeOverruns, Close, Crash, LosePower, Down, Forget, Idle
  <2> QED
    BY <2>1 DEF Queued, NeedsMutex
<1>4. CASE Reopen
  BY <1>4 DEF Reopen, Queued
<1> QED
  BY <1>1, <1>2, <1>3, <1>4, NextSplit

\* m_rw_mtx: the threads that wait for it or hold it are those at a step that needs it,
\* each of them once, so whoever is at its head can go on.
THEOREM MutexQueued == Spec => []Queued
<1>1. Init => IInv /\ Queued
  BY InitOK, QueuedInit
<1>2. IInv /\ Queued /\ [Next]_vars => (IInv /\ Queued)'
  BY NextOK, QueuedNext
<1> QED
  BY <1>1, <1>2, PTL DEF Spec

\* u comes before w in a queue.
Before(q, u, w) == \E i, j \in 1..Len(q) : i < j /\ q[i] = u /\ q[j] = w

\* Nobody is put before another but who joins at the end.
LEMMA QueueOrder ==
  ASSUME IInv, Queued, NEW t \in Threads, QueueStep(t), NEW u \in Threads, NEW w \in Threads,
         Before(queue', u, w)
  PROVE  \/ Before(queue, u, w)
         \/ w = t /\ u # t /\ op[t].step \notin NeedsMutex /\ queue' = Append(queue, t)
<1>1. queue \in Seq(Threads) /\ Len(queue) \in Nat
  BY KnownOld
<1>2. PICK i \in 1..Len(queue'), j \in 1..Len(queue') : i < j /\ queue'[i] = u /\ queue'[j] = w
  BY DEF Before
<1>3. CASE queue' = queue
  BY <1>3
<1>4. CASE queue' = Append(queue, t) /\ op[t].step \notin NeedsMutex
  <2>1. /\ Len(queue') = Len(queue) + 1 /\ queue'[Len(queue) + 1] = t
        /\ \A k \in 1..Len(queue) : queue'[k] = queue[k]
    BY <1>1, <1>4
  <2>2. i \in 1..Len(queue) /\ (j \in 1..Len(queue) \/ j = Len(queue) + 1)
    BY <2>1, <1>1, <1>2
  <2>3. CASE j \in 1..Len(queue)
    BY <2>1, <2>2, <2>3, <1>2 DEF Before
  <2>4. CASE j = Len(queue) + 1
    <3>1. w = t /\ queue[i] = u
      BY <2>1, <2>2, <2>4, <1>2
    <3>2. u # t
      BY <3>1, <2>2, <1>4 DEF Queued
    <3> QED
      BY <3>1, <3>2, <1>4
  <2> QED
    BY <2>2, <2>3, <2>4
<1>5. CASE Locked(t) /\ queue' = Tail(queue)
  <2>1. Len(queue') = Len(queue) - 1 /\ \A k \in 1..Len(queue') : queue'[k] = queue[k + 1]
    BY <1>1, <1>5 DEF Locked
  <2>2. i + 1 \in 1..Len(queue) /\ j + 1 \in 1..Len(queue) /\ i + 1 < j + 1
    BY <2>1, <1>1, <1>2
  <2>3. queue[i + 1] = u /\ queue[j + 1] = w
    BY <2>1, <1>2
  <2> QED
    BY <2>2, <2>3 DEF Before
<1> QED
  BY <1>3, <1>4, <1>5 DEF QueueStep

\* The holder comes before all who wait; nobody comes before it.
LEMMA HeadFirst ==
  ASSUME IInv, Queued, NEW t \in Threads, Locked(t), NEW u \in Threads
  PROVE  /\ u # t /\ op[u].step \in NeedsMutex => Before(queue, t, u)
         /\ ~Before(queue, u, t)
<1>1. queue \in Seq(Threads) /\ Len(queue) \in Nat /\ queue # << >> /\ queue[1] = t
  BY KnownOld DEF Locked
<1>2. 1 \in 1..Len(queue)
  BY <1>1
<1>3. ASSUME u # t, op[u].step \in NeedsMutex PROVE Before(queue, t, u)
  <2>1. PICK i \in 1..Len(queue) : queue[i] = u
    BY <1>3 DEF Queued
  <2>2. 1 < i
    BY <2>1, <1>1, <1>3
  <2> QED
    BY <2>1, <2>2, <1>1, <1>2 DEF Before
<1>4. ASSUME Before(queue, u, t) PROVE FALSE
  <2>1. PICK i \in 1..Len(queue), j \in 1..Len(queue) : i < j /\ queue[i] = u /\ queue[j] = t
    BY <1>4 DEF Before
  <2>2. j = 1
    BY <2>1, <1>1, <1>2 DEF Queued
  <2> QED
    BY <2>1, <2>2, <1>1
<1> QED
  BY <1>3, <1>4

\* Only who has asked for the mutex comes before anyone, or after.
LEMMA BothQueued ==
  ASSUME Queued, NEW u \in Threads, NEW w \in Threads, Before(queue, u, w)
  PROVE  op[u].step \in NeedsMutex /\ op[w].step \in NeedsMutex
BY DEF Before, Queued
-----------------------------------------------------------------------------
(* The log and the history *)

Total(log, s) == Cover(log, Len(log), s)

\* Each mapping of a log is an entry of the history of the sectors it covers: the
\* k-th that covers a sector is entry k + 1, behind the zeros of a new file.  S is
\* where this is claimed.
LogOK(S, log, d, v) ==
  \A s \in S :
    /\ v[s][1] = Zeros
    /\ \A i \in 1..Len(log) : Covers(log[i], s) /\ Backed(log[i], Len(d)) =>
         1 + Cover(log, i, s) <= Len(v[s]) /\ v[s][1 + Cover(log, i, s)] = ValueIn(d, log[i], s)

\* A log with padding, and with one more mapping.
SameLog(log, new) ==
  Extends(log, new) /\ \A i \in (Len(log) + 1)..Len(new) : \A s \in Sectors : ~Covers(new[i], s)
NextLog(log, new, m) ==
  Extends(log, new) /\ Len(new) = Len(log) + 1 /\ new[Len(log) + 1] = m

\* Padding covers nothing.
LEMMA CoversRequest ==
  ASSUME NEW x \in Logged, NEW s \in Sectors, Covers(x, s)
  PROVE  x \in Requests
<1>1. s \in Nat
  BY FileAssumption DEF Sectors
<1>2. ~Covers(Invalid, s)
  BY <1>1 DEF Covers, Invalid, Mapping, End
<1> QED
  BY <1>2 DEF Logged

\* What counts in a log still counts when it has grown.
LEMMA LogGrows ==
  ASSUME NEW log \in Seq(Logged), NEW new \in Seq(Logged), Extends(log, new), NEW s \in Sectors
  PROVE  /\ Len(log) \in Nat /\ Len(new) \in Nat /\ Total(log, s) \in Nat /\ Total(new, s) \in Nat
         /\ \A i \in 0..Len(log) : Cover(new, i, s) = Cover(log, i, s)
         /\ Total(log, s) <= Total(new, s)
         /\ SameLog(log, new) => Total(new, s) = Total(log, s)
         /\ \A m : NextLog(log, new, m) =>
              Total(new, s) = IF Covers(m, s) THEN Total(log, s) + 1 ELSE Total(log, s)
<1>1. Len(log) \in Nat /\ Len(new) \in Nat /\ Len(log) <= Len(new)
  BY DEF Extends
<1>2. Total(log, s) \in Nat /\ Total(new, s) \in Nat
  BY <1>1, CoverNat DEF Total
<1>3. ASSUME NEW i \in 0..Len(log) PROVE Cover(new, i, s) = Cover(log, i, s)
  <2>1. i \in Nat /\ \A j \in 1..i : new[j] = log[j]
    BY <1>1 DEF Extends
  <2> QED
    BY <2>1, CoverSame
<1>4. Cover(new, Len(log), s) = Total(log, s)
  BY <1>1, <1>3 DEF Total
<1>5. Total(log, s) <= Total(new, s)
  BY <1>1, <1>4, CoverMore DEF Total
<1>6. ASSUME SameLog(log, new) PROVE Total(new, s) = Total(log, s)
  <2>1. \A i \in (Len(log) + 1)..Len(new) : ~Covers(new[i], s)
    BY <1>6 DEF SameLog
  <2> QED
    BY <2>1, <1>1, <1>4, CoverMore DEF Total
<1>7. ASSUME NEW m, NextLog(log, new, m)
      PROVE  Total(new, s) = IF Covers(m, s) THEN Total(log, s) + 1 ELSE Total(log, s)
  <2>1. Len(new) = Len(log) + 1 /\ new[Len(log) + 1] = m
    BY <1>7 DEF NextLog
  <2>2. Cover(new, Len(log) + 1, s) =
          IF Covers(m, s) THEN Cover(new, Len(log), s) + 1 ELSE Cover(new, Len(log), s)
    BY <2>1, <1>1, CoverNext
  <2> QED
    BY <2>1, <2>2, <1>4 DEF Total
<1> QED
  BY <1>1, <1>2, <1>3, <1>5, <1>6, <1>7

\* What is claimed of some sectors.
LEMMA LogFewer ==
  ASSUME NEW S, NEW T, T \subseteq S, NEW log, NEW d, NEW v, LogOK(S, log, d, v)
  PROVE  LogOK(T, log, d, v)
BY DEF LogOK

\* Padding, more data and more history keep the log and the history together.
LEMMA LogKept ==
  ASSUME NEW S \in SUBSET Sectors,
         NEW log \in Seq(Logged), NEW new \in Seq(Logged), SameLog(log, new),
         NEW d \in Seq(Cells), NEW e \in Seq(Cells), Extends(d, e),
         NEW v, History(v), NEW w, History(w), \A s \in Sectors : Extends(v[s], w[s]),
         \A i \in 1..Len(log) : Backed(log[i], Len(d)), LogOK(S, log, d, v)
  PROVE  LogOK(S, new, e, w)
<1>1. Extends(log, new) /\ Len(log) \in Nat /\ Len(new) \in Nat
  BY DEF SameLog
<1>2. ASSUME NEW s \in Sectors
      PROVE  /\ Len(v[s]) \in Nat /\ Len(w[s]) \in Nat /\ Len(v[s]) > 0 /\ Len(v[s]) <= Len(w[s])
             /\ \A k \in 1..Len(v[s]) : w[s][k] = v[s][k]
  BY DEF History, Extends
<1>3. ASSUME NEW s \in S PROVE w[s][1] = Zeros
  <2>1. v[s][1] = Zeros
    BY DEF LogOK
  <2>2. 1 \in 1..Len(v[s])
    BY <1>2
  <2>3. w[s][1] = v[s][1]
    BY <2>2, <1>2
  <2> QED
    BY <2>1, <2>3
<1>4. ASSUME NEW s \in S, NEW i \in 1..Len(new), Covers(new[i], s)
      PROVE  /\ 1 + Cover(new, i, s) <= Len(w[s])
             /\ w[s][1 + Cover(new, i, s)] = ValueIn(e, new[i], s)
  <2>1. i \in 1..Len(log)
    BY <1>1, <1>4 DEF SameLog
  <2>2. new[i] = log[i] /\ log[i] \in Requests /\ Backed(log[i], Len(d)) /\ Covers(log[i], s)
    BY <2>1, <1>1, <1>4, CoversRequest DEF Extends
  <2>3. Cover(new, i, s) = Cover(log, i, s) /\ Cover(log, i, s) \in Nat
    BY <2>1, <1>1, LogGrows, CoverNat
  <2>4. 1 + Cover(log, i, s) <= Len(v[s]) /\ v[s][1 + Cover(log, i, s)] = ValueIn(d, log[i], s)
    BY <2>1, <2>2 DEF LogOK
  <2>5. ValueIn(e, log[i], s) = ValueIn(d, log[i], s)
    BY <2>2, ValueKept
  <2>6. 1 + Cover(log, i, s) \in 1..Len(v[s]) /\ 1 + Cover(log, i, s) <= Len(w[s])
    BY <2>3, <2>4, <1>2
  <2> QED
    BY <2>2, <2>3, <2>4, <2>5, <2>6, <1>2
<1> QED
  BY <1>3, <1>4 DEF LogOK

\* A mapping whose contents are the next of the history enters the log.
LEMMA LogAppended ==
  ASSUME NEW S \in SUBSET Sectors,
         NEW log \in Seq(Logged), NEW new \in Seq(Logged), NEW m \in Requests,
         NextLog(log, new, m), NEW d \in Seq(Cells), NEW v, History(v), LogOK(S, log, d, v),
         \A s \in S : Covers(m, s) =>
           2 + Total(log, s) <= Len(v[s]) /\ v[s][2 + Total(log, s)] = ValueIn(d, m, s)
  PROVE  LogOK(S, new, d, v)
<1>1. /\ Extends(log, new) /\ Len(log) \in Nat /\ Len(new) = Len(log) + 1
      /\ new[Len(log) + 1] = m
  BY DEF NextLog
<1>2. ASSUME NEW s \in S, NEW i \in 1..Len(new), Covers(new[i], s),
             Backed(new[i], Len(d))
      PROVE  /\ 1 + Cover(new, i, s) <= Len(v[s])
             /\ v[s][1 + Cover(new, i, s)] = ValueIn(d, new[i], s)
  <2>1. CASE i \in 1..Len(log)
    <3>1. new[i] = log[i]
      BY <2>1, <1>1 DEF Extends
    <3>2. Cover(new, i, s) = Cover(log, i, s)
      BY <2>1, <1>1, LogGrows
    <3> QED
      BY <3>1, <3>2, <2>1, <1>2 DEF LogOK
  <2>2. CASE i = Len(log) + 1
    <3>1. new[i] = m /\ Covers(m, s)
      BY <2>2, <1>1, <1>2
    <3>2. Cover(new, i, s) = Total(new, s)
      BY <2>2, <1>1 DEF Total
    <3>3. Total(new, s) = Total(log, s) + 1 /\ Total(log, s) \in Nat
      BY <3>1, <1>1, LogGrows
    <3>4. 2 + Total(log, s) <= Len(v[s]) /\ v[s][2 + Total(log, s)] = ValueIn(d, m, s)
      BY <3>1
    <3>5. 1 + Cover(new, i, s) = 2 + Total(log, s)
      BY <3>2, <3>3
    <3> QED
      BY <3>1, <3>4, <3>5
  <2> QED
    BY <2>1, <2>2, <1>1
<1>3. \A s \in S : v[s][1] = Zeros
  BY DEF LogOK
<1> QED
  BY <1>2, <1>3 DEF LogOK

\* What is left of the log is still in the history when the tails of the log and
\* of the data file are gone.
LEMMA LogCut ==
  ASSUME NEW S \in SUBSET Sectors,
         NEW log \in Seq(Logged), NEW old \in Seq(Logged), Extends(old, log),
         NEW d \in Seq(Cells), NEW e \in Seq(Cells), Extends(e, d), NEW v,
         LogOK(S, log, d, v)
  PROVE  LogOK(S, old, e, v)
<1>1. Len(log) \in Nat /\ Len(old) \in Nat /\ Len(d) \in Nat /\ Len(e) \in Nat
  OBVIOUS
<1>2. ASSUME NEW s \in S, NEW i \in 1..Len(old), Covers(old[i], s),
             Backed(old[i], Len(e))
      PROVE  /\ 1 + Cover(old, i, s) <= Len(v[s])
             /\ v[s][1 + Cover(old, i, s)] = ValueIn(e, old[i], s)
  <2>1. log[i] = old[i] /\ i \in 1..Len(log) /\ old[i] \in Requests
    BY <1>1, <1>2, CoversRequest DEF Extends
  <2>2. Backed(old[i], Len(d)) /\ ValueIn(d, old[i], s) = ValueIn(e, old[i], s)
    BY <2>1, <1>2, ValueKept
  <2>3. Cover(log, i, s) = Cover(old, i, s)
    BY <1>1, LogGrows
  <2> QED
    BY <2>1, <2>2, <2>3, <1>2 DEF LogOK
<1>3. \A s \in S : v[s][1] = Zeros
  BY DEF LogOK
<1> QED
  BY <1>2, <1>3 DEF LogOK

\* The buffer behind the log file.
LEMMA JoinedOK ==
  ASSUME NEW f \in Seq(Logged), NEW g \in Seq(Logged)
  PROVE  /\ f \o g \in Seq(Logged) /\ Len(f) \in Nat /\ Len(g) \in Nat
         /\ Len(f \o g) = Len(f) + Len(g) /\ Extends(f, f \o g)
         /\ \A i \in 1..Len(f) : (f \o g)[i] = f[i]
         /\ \A i \in 1..Len(g) : (f \o g)[Len(f) + i] = g[i]
         /\ \A i \in (Len(f) + 1)..Len(f \o g) : i - Len(f) \in 1..Len(g)
                                               /\ (f \o g)[i] = g[i - Len(f)]
<1>1. Len(f) \in Nat /\ Len(g) \in Nat
  OBVIOUS
<1>2. /\ f \o g \in Seq(Logged) /\ Len(f \o g) = Len(f) + Len(g)
      /\ \A i \in 1..(Len(f) + Len(g)) :
           (f \o g)[i] = IF i <= Len(f) THEN f[i] ELSE g[i - Len(f)]
  BY ConcatProperties
<1> DEFINE h == f \o g
<1> HIDE DEF h
<1>3. \A i \in 1..Len(f) : h[i] = f[i]
  BY <1>1, <1>2 DEF h
<1>4. ASSUME NEW i \in 1..Len(g) PROVE h[Len(f) + i] = g[i]
  <2>1. /\ Len(f) + i \in 1..(Len(f) + Len(g)) /\ ~(Len(f) + i <= Len(f))
        /\ (Len(f) + i) - Len(f) = i
    BY <1>1
  <2> QED
    BY <2>1, <1>2 DEF h
<1>5. ASSUME NEW i \in (Len(f) + 1)..Len(h) PROVE i - Len(f) \in 1..Len(g) /\ h[i] = g[i - Len(f)]
  <2>1. Len(h) = Len(f) + Len(g)
    BY <1>2 DEF h
  <2>2. i \in 1..(Len(f) + Len(g)) /\ ~(i <= Len(f)) /\ i - Len(f) \in 1..Len(g)
    BY <2>1, <1>1
  <2> QED
    BY <2>2, <1>2 DEF h
<1>6. Len(h) = Len(f) + Len(g) /\ h \in Seq(Logged)
  BY <1>2 DEF h
<1>7. Extends(f, h)
  BY <1>1, <1>3, <1>6 DEF Extends
<1> QED
  BY <1>1, <1>3, <1>4, <1>5, <1>6, <1>7 DEF h
-----------------------------------------------------------------------------
(* The invariant of lost writes *)

\* What is logged, in the file or still in the buffer.
Log == findex \o stacked

\* A request whose mapping is in the index and not yet in the log.
Pending == {"index", "log"}
PendingOn(r, s) == r.step \in Pending /\ Covers(r.m, s)

\* The sectors whose log is in step with their history.
Sound == Sectors \ spoiled

\* The history of a sector of an open file is what is logged and then what is about to
\* be, in the order of the queue: a request that will enter the index has none behind
\* it that is there already.
Settled ==
  state = "open" => \A s \in Sound :
    /\ 1 + Total(Log, s) <= Len(versions[s])
    /\ \A t \in Threads : PendingOn(op[t], s) =>
         /\ 1 + Total(Log, s) < op[t].version[s] /\ op[t].version[s] <= Len(versions[s])
         /\ versions[s][op[t].version[s]] = ValueIn(data, op[t].m, s)
    /\ \A k \in (2 + Total(Log, s))..Len(versions[s]) :
         \E t \in Threads : PendingOn(op[t], s) /\ op[t].version[s] = k
    /\ \A u, w \in Threads : Before(queue, u, w) /\ PendingOn(op[w], s) =>
         /\ PendingOn(op[u], s) => op[u].version[s] < op[w].version[s]
         /\ ~(op[u].step = "append" /\ Covers(op[u].m, s))

\* The types of the history's counts, and of the copies requests have of them.
Stamped(r) ==
  /\ r.step \in Changing => "version" \in DOMAIN r /\ r.version \in [Sectors -> Nat]
  /\ r.step \in FsyncSteps => "mark" \in DOMAIN r /\ r.mark \in [Sectors -> Nat]
Counts ==
  /\ done \in [Sectors -> Nat] /\ floor \in [Sectors -> Nat] /\ synced \in [Sectors -> Nat]
  /\ \A t \in Threads : Stamped(op[t])

\* Without group commit nothing is in the buffer.
Grouped ==
  /\ group = 0 => stacked = << >>
  /\ \A t \in Threads : op[t].step = "log" => stacked = << >>

\* What a request will claim is logged: a full group's in the log, fsync()'s in the
\* file once the buffer is flushed.
Claims(r, file, log, S) ==
  \A s \in S :
    /\ r.step = "flush" /\ Covers(r.m, s) => r.version[s] <= 1 + Total(log, s)
    /\ r.step = "fsync" => r.mark[s] <= 1 + Total(log, s)
    /\ r.step \in {"fsync_data", "fsync_index"} => r.mark[s] <= 1 + Total(file, s)

\* What was acknowledged is logged; what a file opened again must show is in its log;
\* what must survive a power loss is in the part that is on disk.
Acked ==
  /\ findex_synced <= Len(findex)
  /\ \A s \in Sound : /\ floor[s] <= 1 + Total(findex, s)
                      /\ synced[s] <= 1 + Cover(findex, findex_synced, s)
                      /\ state = "open" => done[s] <= 1 + Total(Log, s)
  /\ \A t \in Threads : Claims(op[t], findex, Log, Sound)

\* The history of a closed file has what its log has.
Kept == state # "open" => \A s \in Sound : 1 + Total(findex, s) <= Len(versions[s])

HInv ==
  LogOK(Sound, Log, data, versions) /\ Settled /\ Counts /\ Grouped /\ Acked /\ Kept

\* What an action of t may do to the log: nothing but padding; the mapping of its
\* request enters; or the mapping enters the index, and the history.
Pads(t) ==
  /\ SameLog(Log, Log') /\ versions' = versions
  /\ \A s \in Sound' : PendingOn(op'[t], s) <=> PendingOn(op[t], s)
  /\ op'[t].step \in Pending => op'[t].m = op[t].m /\ op'[t].version = op[t].version
  /\ op'[t].step = "append" => op[t].step \notin NeedsMutex
Enters(t) ==
  /\ NextLog(Log, Log', op[t].m) /\ UNCHANGED <<data, versions>> /\ Locked(t)
  /\ op[t].step \in Pending /\ op'[t].step \notin Pending \union {"append"}
Indexes(t) ==
  /\ Log' = Log /\ op[t].step \notin Pending /\ op'[t].step = "index"
  /\ op'[t].m \in mapping'
  /\ \A s \in Sectors :
       /\ Covers(op'[t].m, s) => Len(versions'[s]) = Len(versions[s]) + 1
       /\ ~Covers(op'[t].m, s) => Len(versions'[s]) = Len(versions[s])
       /\ op'[t].version[s] = Len(versions'[s])
  /\ \A s \in Sound', u \in Threads \ {t} : Covers(op'[t].m, s) =>
       /\ PendingOn(op[u], s) => ~Before(queue', t, u)
       /\ op[u].step = "append" /\ Covers(op[u].m, s) => ~Before(queue', u, t)

\* The log of an open file.
LEMMA LogTypes ==
  ASSUME IInv
  PROVE  /\ Log \in Seq(Logged) /\ Len(Log) = Len(findex) + Len(stacked) /\ Extends(findex, Log)
         /\ findex \in Seq(Logged) /\ stacked \in Seq(Logged)
         /\ Len(findex) \in Nat /\ Len(stacked) \in Nat
         /\ state = "open" => \A i \in 1..Len(Log) : Backed(Log[i], Len(data))
<1>1. findex \in Seq(Logged) /\ stacked \in Seq(Logged)
  BY DEF IInv, Types
<1>2. /\ findex \o stacked \in Seq(Logged) /\ Len(findex) \in Nat /\ Len(stacked) \in Nat
      /\ Len(findex \o stacked) = Len(findex) + Len(stacked)
      /\ Extends(findex, findex \o stacked)
      /\ \A i \in 1..Len(findex) : (findex \o stacked)[i] = findex[i]
      /\ \A i \in (Len(findex) + 1)..Len(findex \o stacked) :
           /\ i - Len(findex) \in 1..Len(stacked)
           /\ (findex \o stacked)[i] = stacked[i - Len(findex)]
  BY <1>1, JoinedOK
<1>3. ASSUME state = "open", NEW i \in 1..Len(Log) PROVE Backed(Log[i], Len(data))
  <2>1. /\ \A j \in 1..Len(findex) : Backed(findex[j], Len(data))
        /\ \A j \in 1..Len(stacked) : Backed(stacked[j], Len(data))
    BY <1>3 DEF IInv, DataFirst
  <2>2. i \in 1..Len(findex) \/ i \in (Len(findex) + 1)..Len(findex \o stacked)
    BY <1>2 DEF Log
  <2> QED
    BY <2>1, <2>2, <1>2 DEF Log
<1> QED
  BY <1>1, <1>2, <1>3 DEF Log

\* What the invariant says of a sound sector of an open file.
LEMMA SettledAt ==
  ASSUME IInv, RInv, HInv, state = "open", NEW s \in Sound
  PROVE  /\ s \in Sectors /\ Total(Log, s) \in Nat /\ Len(versions[s]) \in Nat
         /\ 1 + Total(Log, s) <= Len(versions[s])
         /\ \A k \in (2 + Total(Log, s))..Len(versions[s]) :
              \E t \in Threads : PendingOn(op[t], s) /\ op[t].version[s] = k
         /\ \A u, w \in Threads : Before(queue, u, w) /\ PendingOn(op[w], s) =>
              /\ PendingOn(op[u], s) => op[u].version[s] < op[w].version[s]
              /\ ~(op[u].step = "append" /\ Covers(op[u].m, s))
<1>1. s \in Sectors
  BY DEF Sound
<1>2. Total(Log, s) \in Nat
  <2>1. Len(Log) \in Nat
    BY LogTypes
  <2> QED
    BY <2>1, CoverNat DEF Total
<1>3. Len(versions[s]) \in Nat
  BY <1>1 DEF RInv, HistoryOK, History
<1> QED
  BY <1>1, <1>2, <1>3 DEF HInv, Settled

\* ... and of a request that is about to be logged there.
LEMMA PendingAt ==
  ASSUME IInv, RInv, HInv, state = "open", NEW s \in Sound, NEW t \in Threads,
         PendingOn(op[t], s)
  PROVE  /\ 1 + Total(Log, s) < op[t].version[s] /\ op[t].version[s] <= Len(versions[s])
         /\ op[t].version[s] \in Nat
         /\ versions[s][op[t].version[s]] = ValueIn(data, op[t].m, s)
         /\ op[t].m \in Requests /\ Backed(op[t].m, Len(data)) /\ Covers(op[t].m, s)
         /\ op[t].step \in NeedsMutex
<1>1. /\ 1 + Total(Log, s) < op[t].version[s] /\ op[t].version[s] <= Len(versions[s])
      /\ versions[s][op[t].version[s]] = ValueIn(data, op[t].m, s)
  BY DEF HInv, Settled
<1>2. /\ op[t].step \in Changing /\ op[t].step \in InIndex /\ op[t].step \in NeedsMutex
      /\ Covers(op[t].m, s)
  BY DEF PendingOn, Pending, Changing, InIndex, NeedsMutex
<1>3. op[t].m \in Requests /\ Backed(op[t].m, Len(data))
  BY <1>2, ChangingHas DEF IInv, DataFirst
<1>4. op[t].version[s] \in Nat
  BY <1>2 DEF HInv, Counts, Stamped, Sound
<1> QED
  BY <1>1, <1>2, <1>3, <1>4

\* A sector that is sound was so before.
LEMMA StillSound ==
  ASSUME spoiled \subseteq spoiled'
  PROVE  Sound' \subseteq Sound /\ Sound \in SUBSET Sectors /\ Sound' \in SUBSET Sectors
BY DEF Sound

\* An action that adds nothing to the log but padding.
LEMMA PadsSettled ==
  ASSUME IInv, RInv, HInv, IInv', Queued, NEW t \in Threads, Moves(t), Records(t), QueueStep(t),
         spoiled \subseteq spoiled', Pads(t)
  PROVE  LogOK(Sound', Log', data', versions') /\ Settled'
<1>1. /\ Log \in Seq(Logged) /\ \A i \in 1..Len(Log) : Backed(Log[i], Len(data))
      /\ state = "open" /\ data \in Seq(Cells) /\ data' \in Seq(Cells)
      /\ \A u \in Threads \ {t} : op'[u] = op[u]
  BY LogTypes, KnownOld DEF Moves, Others
<1>2. Log' \in Seq(Logged)
  <2>1. findex' \in Seq(Logged) /\ stacked' \in Seq(Logged)
    BY DEF Moves
  <2> QED
    BY <2>1, JoinedOK DEF Log
<1>3. /\ Extends(data, data') /\ History(versions) /\ History(versions')
      /\ \A s \in Sectors : Extends(versions[s], versions'[s])
  BY DEF Records, RInv, HistoryOK
<1>s. Sound' \subseteq Sound /\ Sound' \in SUBSET Sectors
  BY StillSound
<1>4. LogOK(Sound', Log', data', versions')
  <2>1. LogOK(Sound', Log, data, versions)
    BY <1>s, LogFewer DEF HInv
  <2> QED
    BY <2>1, <1>1, <1>2, <1>3, <1>s, LogKept DEF Pads
<1>5. ASSUME NEW s \in Sound' PROVE Total(Log', s) = Total(Log, s)
  <2>1. s \in Sectors
    BY <1>s
  <2> QED
    BY <2>1, <1>1, <1>2, LogGrows DEF Pads, SameLog
<1>6. ASSUME NEW s \in Sound', NEW u \in Threads
      PROVE  /\ PendingOn(op'[u], s) <=> PendingOn(op[u], s)
             /\ PendingOn(op'[u], s) => op'[u].m = op[u].m /\ op'[u].version = op[u].version
  BY <1>1 DEF Pads, PendingOn
<1>7. ASSUME NEW s \in Sound', NEW u \in Threads, PendingOn(op'[u], s)
      PROVE  /\ 1 + Total(Log, s) < op'[u].version[s] /\ op'[u].version[s] <= Len(versions[s])
             /\ versions[s][op'[u].version[s]] = ValueIn(data', op'[u].m, s)
  <2>1. /\ PendingOn(op[u], s) /\ op'[u].m = op[u].m /\ op'[u].version = op[u].version
        /\ s \in Sound /\ s \in Sectors
    BY <1>6, <1>7, <1>s
  <2>2. /\ 1 + Total(Log, s) < op[u].version[s] /\ op[u].version[s] <= Len(versions[s])
        /\ versions[s][op[u].version[s]] = ValueIn(data, op[u].m, s)
        /\ op[u].m \in Requests /\ Backed(op[u].m, Len(data)) /\ Covers(op[u].m, s)
    BY <2>1, <1>1, PendingAt
  <2>3. ValueIn(data', op[u].m, s) = ValueIn(data, op[u].m, s)
    BY <2>1, <2>2, <1>1, <1>3, ValueKept
  <2> QED
    BY <2>1, <2>2, <2>3
<1>8. ASSUME NEW s \in Sound', NEW k \in (2 + Total(Log, s))..Len(versions[s])
      PROVE  \E u \in Threads : PendingOn(op'[u], s) /\ op'[u].version[s] = k
  <2>1. PICK u \in Threads : PendingOn(op[u], s) /\ op[u].version[s] = k
    BY <1>1, <1>8, <1>s, SettledAt
  <2> QED
    BY <2>1, <1>6, <1>8
<1>9. ASSUME NEW s \in Sound', NEW u \in Threads, NEW w \in Threads, Before(queue', u, w),
             PendingOn(op'[w], s)
      PROVE  /\ PendingOn(op'[u], s) => op'[u].version[s] < op'[w].version[s]
             /\ ~(op'[u].step = "append" /\ Covers(op'[u].m, s))
  <2>1. PendingOn(op[w], s) /\ op'[w].version = op[w].version /\ s \in Sound
    BY <1>6, <1>9, <1>s
  <2>2. op[w].step \in NeedsMutex
    BY <2>1 DEF PendingOn, Pending, NeedsMutex
  <2>3. Before(queue, u, w)
    BY <2>2, <1>9, QueueOrder
  <2>4. /\ PendingOn(op[u], s) => op[u].version[s] < op[w].version[s]
        /\ ~(op[u].step = "append" /\ Covers(op[u].m, s))
    BY <2>1, <2>3, <1>1, SettledAt
  <2>5. PendingOn(op'[u], s) => op'[u].version[s] < op'[w].version[s]
    BY <2>1, <2>4, <1>6
  <2>6. ASSUME op'[u].step = "append", Covers(op'[u].m, s) PROVE FALSE
    <3>1. CASE u = t
      <4>1. op[t].step \notin NeedsMutex
        BY <3>1, <2>6 DEF Pads
      <4> QED
        BY <4>1, <3>1, <2>3, BothQueued
    <3>2. CASE u # t
      BY <3>2, <2>4, <2>6, <1>1
    <3> QED
      BY <3>1, <3>2
  <2> QED
    BY <2>5, <2>6
<1>10. \A s \in Sound' : 1 + Total(Log, s) <= Len(versions[s])
  BY <1>1, <1>s, SettledAt
<1>11. Settled'
  <2>1. versions' = versions
    BY DEF Pads
  <2> QED
    BY <2>1, <1>5, <1>7, <1>8, <1>9, <1>10 DEF Settled
<1> QED
  BY <1>4, <1>11

\* Whoever holds the mutex has the next entry of the history to log.
LEMMA NextEntry ==
  ASSUME IInv, RInv, HInv, Queued, state = "open", NEW t \in Threads, Locked(t), NEW s \in Sound,
         PendingOn(op[t], s)
  PROVE  op[t].version[s] = 2 + Total(Log, s)
<1>1. /\ 1 + Total(Log, s) < op[t].version[s] /\ op[t].version[s] <= Len(versions[s])
      /\ op[t].version[s] \in Nat
  BY PendingAt
<1>2. Total(Log, s) \in Nat /\ Len(versions[s]) \in Nat
  BY SettledAt
<1>3. 2 + Total(Log, s) \in (2 + Total(Log, s))..Len(versions[s])
  BY <1>1, <1>2
<1>4. PICK u \in Threads : PendingOn(op[u], s) /\ op[u].version[s] = 2 + Total(Log, s)
  BY <1>3, SettledAt
<1>5. CASE u = t
  BY <1>4, <1>5
<1>6. CASE u # t
  <2>1. Before(queue, t, u)
    BY <1>4, <1>6, PendingAt, HeadFirst
  <2>2. op[t].version[s] < op[u].version[s]
    BY <2>1, <1>4, SettledAt
  <2> QED
    BY <2>2, <1>1, <1>2, <1>4
<1> QED
  BY <1>5, <1>6

\* The mapping of a request reaches the log.
LEMMA EntersSettled ==
  ASSUME IInv, RInv, HInv, Queued, NEW t \in Threads, Moves(t), QueueStep(t),
         spoiled \subseteq spoiled', Enters(t)
  PROVE  LogOK(Sound', Log', data', versions') /\ Settled'
<1>1. /\ Log \in Seq(Logged) /\ state = "open" /\ data \in Seq(Cells) /\ History(versions)
      /\ \A u \in Threads \ {t} : op'[u] = op[u]
  BY LogTypes, KnownOld DEF Moves, Others, RInv, HistoryOK
<1>2. Log' \in Seq(Logged)
  <2>1. findex' \in Seq(Logged) /\ stacked' \in Seq(Logged)
    BY DEF Moves
  <2> QED
    BY <2>1, JoinedOK DEF Log
<1>3. /\ NextLog(Log, Log', op[t].m) /\ data' = data /\ versions' = versions /\ Locked(t)
      /\ op[t].step \in Pending /\ op'[t].step \notin Pending /\ op'[t].step # "append"
      /\ Extends(Log, Log') /\ op[t].step \in NeedsMutex
  BY DEF Enters, NextLog, Pending, NeedsMutex
<1>s. Sound' \subseteq Sound /\ Sound' \in SUBSET Sectors
  BY StillSound
<1>4. op[t].m \in Requests
  <2>1. op[t].step \in Changing
    BY <1>3 DEF Pending, Changing, InIndex
  <2> QED
    BY <2>1, ChangingHas
<1>5. ASSUME NEW s \in Sound', Covers(op[t].m, s)
      PROVE  /\ op[t].version[s] = 2 + Total(Log, s) /\ 2 + Total(Log, s) <= Len(versions[s])
             /\ versions[s][2 + Total(Log, s)] = ValueIn(data, op[t].m, s)
  <2>1. PendingOn(op[t], s) /\ s \in Sound
    BY <1>3, <1>5, <1>s DEF PendingOn
  <2>2. op[t].version[s] = 2 + Total(Log, s)
    BY <2>1, <1>1, <1>3, NextEntry
  <2> QED
    BY <2>1, <2>2, <1>1, PendingAt
<1>6. LogOK(Sound', Log', data, versions)
  <2>1. LogOK(Sound', Log, data, versions)
    BY <1>s, LogFewer DEF HInv
  <2> QED
    BY <2>1, <1>1, <1>2, <1>3, <1>4, <1>5, <1>s, LogAppended
<1>7. ASSUME NEW s \in Sound'
      PROVE  /\ s \in Sound /\ Total(Log, s) \in Nat /\ Len(versions[s]) \in Nat
             /\ Total(Log', s) = IF Covers(op[t].m, s) THEN Total(Log, s) + 1 ELSE Total(Log, s)
  <2>1. s \in Sectors /\ s \in Sound
    BY <1>s
  <2> QED
    BY <2>1, <1>1, <1>2, <1>3, LogGrows, SettledAt
<1>8. ASSUME NEW s \in Sound', NEW u \in Threads, PendingOn(op'[u], s)
      PROVE  /\ u # t /\ PendingOn(op[u], s) /\ op'[u] = op[u]
             /\ 1 + Total(Log', s) < op[u].version[s] /\ op[u].version[s] <= Len(versions[s])
             /\ versions[s][op[u].version[s]] = ValueIn(data, op[u].m, s)
  <2>1. u # t
    BY <1>3, <1>8 DEF PendingOn
  <2>2. op'[u] = op[u] /\ PendingOn(op[u], s)
    BY <2>1, <1>1, <1>8
  <2>3. /\ 1 + Total(Log, s) < op[u].version[s] /\ op[u].version[s] <= Len(versions[s])
        /\ op[u].version[s] \in Nat
        /\ versions[s][op[u].version[s]] = ValueIn(data, op[u].m, s)
        /\ op[u].step \in NeedsMutex
    BY <2>2, <1>1, <1>7, PendingAt
  <2>4. ASSUME Covers(op[t].m, s) PROVE 2 + Total(Log, s) < op[u].version[s]
    <3>1. Before(queue, t, u)
      BY <2>1, <2>3, <1>3, HeadFirst
    <3>2. PendingOn(op[t], s)
      BY <2>4, <1>3 DEF PendingOn
    <3>3. op[t].version[s] < op[u].version[s]
      BY <3>1, <3>2, <2>2, <1>1, <1>7, SettledAt
    <3> QED
      BY <3>3, <2>4, <1>5
  <2>5. 1 + Total(Log', s) < op[u].version[s]
    BY <2>3, <2>4, <1>7
  <2> QED
    BY <2>1, <2>2, <2>3, <2>5
<1>9. ASSUME NEW s \in Sound', NEW k \in (2 + Total(Log', s))..Len(versions[s])
      PROVE  \E u \in Threads : PendingOn(op'[u], s) /\ op'[u].version[s] = k
  <2>1. k \in (2 + Total(Log, s))..Len(versions[s])
    BY <1>7, <1>9
  <2>2. PICK u \in Threads : PendingOn(op[u], s) /\ op[u].version[s] = k
    BY <2>1, <1>1, <1>7, SettledAt
  <2>3. u # t
    <3>1. ASSUME u = t PROVE FALSE
      <4>1. Covers(op[t].m, s)
        BY <3>1, <2>2 DEF PendingOn
      <4>2. k = 2 + Total(Log, s) /\ Total(Log', s) = Total(Log, s) + 1
        BY <4>1, <3>1, <2>2, <1>5, <1>7
      <4> QED
        BY <4>2, <1>7, <1>9
    <3> QED
      BY <3>1
  <2> QED
    BY <2>2, <2>3, <1>1
<1>10. ASSUME NEW s \in Sound', NEW u \in Threads, NEW w \in Threads, Before(queue', u, w),
              PendingOn(op'[w], s)
       PROVE  /\ PendingOn(op'[u], s) => op'[u].version[s] < op'[w].version[s]
              /\ ~(op'[u].step = "append" /\ Covers(op'[u].m, s))
  <2>1. w # t /\ PendingOn(op[w], s) /\ op'[w] = op[w] /\ s \in Sound
    BY <1>7, <1>8, <1>10
  <2>2. Before(queue, u, w)
    BY <2>1, <1>10, QueueOrder
  <2>3. /\ PendingOn(op[u], s) => op[u].version[s] < op[w].version[s]
        /\ ~(op[u].step = "append" /\ Covers(op[u].m, s))
    BY <2>1, <2>2, <1>1, SettledAt
  <2>4. CASE u = t
    BY <2>4, <1>3 DEF PendingOn
  <2>5. CASE u # t
    BY <2>1, <2>3, <2>5, <1>1
  <2> QED
    BY <2>4, <2>5
<1>11. ASSUME NEW s \in Sound' PROVE 1 + Total(Log', s) <= Len(versions[s])
  BY <1>1, <1>5, <1>7, SettledAt
<1>12. Settled'
  BY <1>3, <1>8, <1>9, <1>10, <1>11 DEF Settled
<1> QED
  BY <1>3, <1>6, <1>12

\* A mapping enters the index, and the history.
LEMMA IndexesSettled ==
  ASSUME IInv, RInv, HInv, IInv', Queued, NEW t \in Threads, Moves(t), Records(t), QueueStep(t),
         spoiled \subseteq spoiled', Indexes(t)
  PROVE  LogOK(Sound', Log', data', versions') /\ Settled'
<1> DEFINE m == op'[t].m
<1>1. /\ Log \in Seq(Logged) /\ \A i \in 1..Len(Log) : Backed(Log[i], Len(data))
      /\ state = "open" /\ data \in Seq(Cells) /\ data' \in Seq(Cells)
      /\ \A u \in Threads \ {t} : op'[u] = op[u]
  BY LogTypes, KnownOld DEF Moves, Others
<1>2. /\ Log' = Log /\ op[t].step \notin Pending /\ op'[t].step = "index" /\ m \in mapping'
  BY DEF Indexes
<1>3. /\ Extends(data, data') /\ History(versions) /\ History(versions')
      /\ \A s \in Sectors : Extends(versions[s], versions'[s])
      /\ Shows(mapping', data', versions')
  BY DEF Records, RInv, HistoryOK
<1>s. Sound' \subseteq Sound /\ Sound' \in SUBSET Sectors
  BY StillSound
<1>4. SameLog(Log, Log)
  BY <1>1 DEF SameLog, Extends
<1>5. LogOK(Sound', Log', data', versions')
  <2>1. LogOK(Sound', Log, data, versions)
    BY <1>s, LogFewer DEF HInv
  <2> QED
    BY <2>1, <1>1, <1>2, <1>3, <1>4, <1>s, LogKept
<1>6. m \in Requests
  BY <1>2, <1>3 DEF Shows, IndexOK
<1>7. ASSUME NEW s \in Sound', NEW u \in Threads \ {t}, Covers(m, s)
      PROVE  /\ PendingOn(op[u], s) => ~Before(queue', t, u)
             /\ op[u].step = "append" /\ Covers(op[u].m, s) => ~Before(queue', u, t)
  BY <1>7 DEF Indexes
<1> HIDE DEF m
<1>8. ASSUME NEW s \in Sound'
      PROVE  /\ s \in Sound /\ s \in Sectors
             /\ Covers(m, s) => Len(versions'[s]) = Len(versions[s]) + 1
             /\ ~Covers(m, s) => Len(versions'[s]) = Len(versions[s])
             /\ op'[t].version[s] = Len(versions'[s])
             /\ Len(versions[s]) \in Nat /\ Total(Log, s) \in Nat
             /\ 1 + Total(Log, s) <= Len(versions[s])
             /\ \A i \in 1..Len(versions[s]) : versions'[s][i] = versions[s][i]
  <2>1. s \in Sound /\ s \in Sectors
    BY <1>s
  <2>2. /\ Total(Log, s) \in Nat /\ Len(versions[s]) \in Nat
        /\ 1 + Total(Log, s) <= Len(versions[s])
    BY <2>1, <1>1, SettledAt
  <2>3. \A i \in 1..Len(versions[s]) : versions'[s][i] = versions[s][i]
    BY <2>1, <1>3 DEF Extends
  <2>4. /\ Covers(m, s) => Len(versions'[s]) = Len(versions[s]) + 1
        /\ ~Covers(m, s) => Len(versions'[s]) = Len(versions[s])
        /\ op'[t].version[s] = Len(versions'[s])
    BY <2>1 DEF Indexes, m
  <2> QED
    BY <2>1, <2>2, <2>3, <2>4
<1>9. ASSUME NEW s \in Sound', Covers(m, s)
      PROVE  versions'[s][Len(versions'[s])] = ValueIn(data', m, s)
  <2>1. s \in Sectors
    BY <1>8
  <2>2. ContentIn(data', mapping', s) = ValueIn(data', m, s)
    BY <2>1, <1>1, <1>2, <1>3, <1>9, ContentCovered DEF Shows, m
  <2> QED
    BY <2>1, <2>2, <1>3 DEF Shows
<1>10. ASSUME NEW s \in Sound', NEW u \in Threads, PendingOn(op'[u], s), u # t
       PROVE  /\ op'[u] = op[u] /\ PendingOn(op[u], s) /\ op[u].version[s] \in Nat
              /\ 1 + Total(Log, s) < op[u].version[s] /\ op[u].version[s] <= Len(versions[s])
              /\ versions[s][op[u].version[s]] = ValueIn(data, op[u].m, s)
              /\ op[u].m \in Requests /\ Backed(op[u].m, Len(data)) /\ Covers(op[u].m, s)
  <2>1. op'[u] = op[u] /\ PendingOn(op[u], s)
    BY <1>1, <1>10
  <2> QED
    BY <2>1, <1>1, <1>8, PendingAt
<1>11. ASSUME NEW s \in Sound', NEW u \in Threads, PendingOn(op'[u], s)
       PROVE  /\ 1 + Total(Log, s) < op'[u].version[s] /\ op'[u].version[s] <= Len(versions'[s])
              /\ versions'[s][op'[u].version[s]] = ValueIn(data', op'[u].m, s)
  <2>1. CASE u = t
    <3>1. Covers(m, s) /\ op'[u].m = m
      BY <2>1, <1>11 DEF PendingOn, m
    <3> QED
      BY <3>1, <2>1, <1>8, <1>9
  <2>2. CASE u # t
    <3>1. /\ op'[u] = op[u] /\ op[u].version[s] \in Nat
          /\ 1 + Total(Log, s) < op[u].version[s] /\ op[u].version[s] <= Len(versions[s])
          /\ versions[s][op[u].version[s]] = ValueIn(data, op[u].m, s)
          /\ op[u].m \in Requests /\ Backed(op[u].m, Len(data)) /\ Covers(op[u].m, s)
      BY <2>2, <1>10, <1>11
    <3>2. op[u].version[s] \in 1..Len(versions[s]) /\ op[u].version[s] <= Len(versions'[s])
      BY <3>1, <1>8
    <3>3. ValueIn(data', op[u].m, s) = ValueIn(data, op[u].m, s)
      BY <3>1, <1>1, <1>3, <1>8, ValueKept
    <3> QED
      BY <3>1, <3>2, <3>3, <1>8
  <2> QED
    BY <2>1, <2>2
<1>12. ASSUME NEW s \in Sound', NEW k \in (2 + Total(Log, s))..Len(versions'[s])
       PROVE  \E u \in Threads : PendingOn(op'[u], s) /\ op'[u].version[s] = k
  <2>1. CASE k \in (2 + Total(Log, s))..Len(versions[s])
    <3>1. PICK u \in Threads : PendingOn(op[u], s) /\ op[u].version[s] = k
      BY <2>1, <1>1, <1>8, SettledAt
    <3>2. u # t
      BY <3>1, <1>2 DEF PendingOn
    <3> QED
      BY <3>1, <3>2, <1>1
  <2>2. CASE k \notin (2 + Total(Log, s))..Len(versions[s])
    <3>1. Covers(m, s) /\ k = Len(versions'[s])
      BY <2>2, <1>8, <1>12
    <3>2. PendingOn(op'[t], s) /\ op'[t].version[s] = k
      BY <3>1, <1>2, <1>8 DEF PendingOn, Pending, m
    <3> QED
      BY <3>2
  <2> QED
    BY <2>1, <2>2
<1>13. ASSUME NEW s \in Sound', NEW u \in Threads, NEW w \in Threads, Before(queue', u, w),
              PendingOn(op'[w], s)
       PROVE  /\ PendingOn(op'[u], s) => op'[u].version[s] < op'[w].version[s]
              /\ ~(op'[u].step = "append" /\ Covers(op'[u].m, s))
  <2>1. CASE w = t
    <3>1. Covers(m, s) /\ Len(versions'[s]) = Len(versions[s]) + 1
          /\ op'[w].version[s] = Len(versions'[s])
      BY <2>1, <1>8, <1>13 DEF PendingOn, m
    <3>2. u # t
      <4>1. PICK i \in 1..Len(queue'), j \in 1..Len(queue') :
              i < j /\ queue'[i] = u /\ queue'[j] = w
        BY <1>13 DEF Before
      <4>2. Queued'
        BY QueueStepOK DEF Moves
      <4>3. u # w
        BY <4>1, <4>2 DEF Queued
      <4> QED
        BY <4>3, <2>1
    <3>3. op'[u] = op[u]
      BY <3>2, <1>1
    <3>4. ASSUME PendingOn(op'[u], s) PROVE op'[u].version[s] < op'[w].version[s]
      BY <3>1, <3>2, <3>4, <1>8, <1>10
    <3>5. ~(op'[u].step = "append" /\ Covers(op'[u].m, s))
      BY <3>1, <3>2, <3>3, <2>1, <1>7, <1>13
    <3> QED
      BY <3>4, <3>5
  <2>2. CASE w # t
    <3>1. op'[w] = op[w] /\ PendingOn(op[w], s) /\ s \in Sound
      BY <2>2, <1>8, <1>10, <1>13
    <3>2. Before(queue, u, w)
      BY <2>2, <1>13, QueueOrder
    <3>3. /\ PendingOn(op[u], s) => op[u].version[s] < op[w].version[s]
          /\ ~(op[u].step = "append" /\ Covers(op[u].m, s))
      BY <3>1, <3>2, <1>1, SettledAt
    <3>4. CASE u = t
      <4>1. ~Covers(m, s)
        BY <3>1, <3>4, <2>2, <1>7, <1>13
      <4> QED
        BY <4>1, <3>4, <1>2 DEF PendingOn, m
    <3>5. CASE u # t
      BY <3>1, <3>3, <3>5, <1>1
    <3> QED
      BY <3>4, <3>5
  <2> QED
    BY <2>1, <2>2
<1>14. ASSUME NEW s \in Sound' PROVE 1 + Total(Log, s) <= Len(versions'[s])
  BY <1>8
<1>15. Settled'
  BY <1>2, <1>11, <1>12, <1>13, <1>14 DEF Settled
<1> QED
  BY <1>5, <1>15

\* What an action of t does to the counts ...
Acks ==
  /\ done' \in [Sectors -> Nat] /\ floor' \in [Sectors -> Nat] /\ synced' \in [Sectors -> Nat]
  /\ findex_synced' <= Len(findex')
  /\ \A s \in Sound' : /\ floor'[s] <= 1 + Total(findex', s)
                       /\ synced'[s] <= 1 + Cover(findex', findex_synced', s)
                       /\ done'[s] <= 1 + Total(Log', s)

\* ... and to all of this.
LogStep(t) ==
  /\ Extends(findex, findex') /\ (Pads(t) \/ Enters(t) \/ Indexes(t))
  /\ spoiled \subseteq spoiled'
  /\ Acks /\ Stamped(op'[t]) /\ Claims(op'[t], findex', Log', Sound')
  /\ Grouped'

\* The log file and the log as they grow.
LEMMA LogsGrow ==
  ASSUME IInv, NEW t \in Threads, Moves(t), Extends(findex, findex'),
         Pads(t) \/ Enters(t) \/ Indexes(t)
  PROVE  /\ findex' \in Seq(Logged) /\ Log' \in Seq(Logged) /\ Extends(Log, Log')
         /\ \A s \in Sectors :
              /\ Total(findex, s) \in Nat /\ Total(findex', s) \in Nat
              /\ Total(Log, s) \in Nat /\ Total(Log', s) \in Nat
              /\ Total(findex, s) <= Total(findex', s) /\ Total(Log, s) <= Total(Log', s)
              /\ Total(findex', s) <= Total(Log', s)
<1>1. /\ Log \in Seq(Logged) /\ findex \in Seq(Logged) /\ findex' \in Seq(Logged)
      /\ stacked' \in Seq(Logged) /\ Len(Log) \in Nat
  BY LogTypes DEF Moves
<1>2. Log' \in Seq(Logged) /\ Extends(findex', Log')
  BY <1>1, JoinedOK DEF Log
<1>3. Extends(Log, Log')
  BY <1>1, ExtendsSame DEF Pads, Enters, Indexes, SameLog, NextLog
<1> QED
  BY <1>1, <1>2, <1>3, LogGrows

\* A LogStep keeps the invariant.
LEMMA LogStepOK ==
  ASSUME IInv, RInv, HInv, IInv', Queued, NEW t \in Threads, Moves(t), Records(t), QueueStep(t),
         LogStep(t)
  PROVE  HInv'
<1>1. /\ state = "open" /\ state' = "open" /\ \A u \in Threads \ {t} : op'[u] = op[u]
  BY DEF Moves, Others
<1>2. LogOK(Sound', Log', data', versions') /\ Settled'
  BY PadsSettled, EntersSettled, IndexesSettled DEF LogStep
<1>3. Sound' \subseteq Sound /\ Sound' \in SUBSET Sectors
  BY StillSound DEF LogStep
<1>4. Counts'
  <2>1. \A u \in Threads : Stamped(op'[u])
    BY <1>1 DEF LogStep, HInv, Counts
  <2> QED
    BY <2>1 DEF LogStep, Acks, Counts
<1>5. Acked'
  <2>1. \A s \in Sectors :
          /\ Total(findex, s) \in Nat /\ Total(findex', s) \in Nat
          /\ Total(Log, s) \in Nat /\ Total(Log', s) \in Nat
          /\ Total(findex, s) <= Total(findex', s) /\ Total(Log, s) <= Total(Log', s)
    BY LogsGrow DEF LogStep
  <2>2. ASSUME NEW u \in Threads PROVE Claims(op'[u], findex', Log', Sound')
    <3>1. CASE u = t
      BY <3>1 DEF LogStep
    <3>2. CASE u # t
      <4>1. op'[u] = op[u] /\ Claims(op[u], findex, Log, Sound) /\ Stamped(op[u])
        BY <3>2, <1>1 DEF HInv, Acked, Counts
      <4>2. ASSUME NEW s \in Sound', op[u].step = "flush", Covers(op[u].m, s)
            PROVE  op[u].version[s] <= 1 + Total(Log', s)
        <5>1. op[u].version[s] \in Nat /\ op[u].version[s] <= 1 + Total(Log, s)
          BY <4>1, <4>2, <1>3 DEF Claims, Stamped, Changing, InIndex
        <5> QED
          BY <5>1, <2>1, <1>3
      <4>3. ASSUME NEW s \in Sound', op[u].step = "fsync"
            PROVE  op[u].mark[s] <= 1 + Total(Log', s)
        <5>1. op[u].mark[s] \in Nat /\ op[u].mark[s] <= 1 + Total(Log, s)
          BY <4>1, <4>3, <1>3 DEF Claims, Stamped, FsyncSteps
        <5> QED
          BY <5>1, <2>1, <1>3
      <4>4. ASSUME NEW s \in Sound', op[u].step \in {"fsync_data", "fsync_index"}
            PROVE  op[u].mark[s] <= 1 + Total(findex', s)
        <5>1. op[u].mark[s] \in Nat /\ op[u].mark[s] <= 1 + Total(findex, s)
          BY <4>1, <4>4, <1>3 DEF Claims, Stamped, FsyncSteps
        <5> QED
          BY <5>1, <2>1, <1>3
      <4> QED
        BY <4>1, <4>2, <4>3, <4>4 DEF Claims
    <3> QED
      BY <3>1, <3>2
  <2> QED
    BY <2>2, <1>1 DEF LogStep, Acks, Acked
<1>6. Kept'
  BY <1>1 DEF Kept
<1>7. Grouped'
  BY DEF LogStep
<1> QED
  BY <1>2, <1>4, <1>5, <1>6, <1>7 DEF HInv

\* Counts that stay bound a log that grows.
LEMMA AcksMore ==
  ASSUME IInv, HInv, NEW t \in Threads, Moves(t), Extends(findex, findex'),
         Pads(t) \/ Enters(t) \/ Indexes(t), spoiled \subseteq spoiled'
  PROVE  /\ findex_synced <= Len(findex')
         /\ \A s \in Sectors : floor[s] \in Nat /\ synced[s] \in Nat /\ done[s] \in Nat
         /\ \A s \in Sound' : /\ s \in Sectors /\ floor[s] <= 1 + Total(findex', s)
                              /\ synced[s] <= 1 + Cover(findex', findex_synced, s)
                              /\ done[s] <= 1 + Total(Log', s)
<1>1. /\ Len(findex) \in Nat /\ Len(findex') \in Nat /\ findex_synced \in Nat
      /\ findex \in Seq(Logged) /\ findex' \in Seq(Logged) /\ state = "open"
  <2>1. /\ Len(findex) \in Nat /\ findex_synced \in Nat /\ findex \in Seq(Logged)
        /\ findex' \in Seq(Logged) /\ state = "open"
    BY LogTypes, KnownOld DEF Moves
  <2> QED
    BY <2>1
<1>2. findex_synced <= Len(findex) /\ Len(findex) <= Len(findex')
  BY DEF HInv, Acked, Extends
<1>3. ASSUME NEW s \in Sound'
      PROVE  /\ s \in Sectors /\ floor[s] <= 1 + Total(findex', s)
             /\ synced[s] <= 1 + Cover(findex', findex_synced, s)
             /\ done[s] <= 1 + Total(Log', s)
  <2>0. s \in Sectors /\ s \in Sound
    BY StillSound
  <2>1. /\ Total(findex, s) \in Nat /\ Total(findex', s) \in Nat
        /\ Total(Log, s) \in Nat /\ Total(Log', s) \in Nat
        /\ Total(findex, s) <= Total(findex', s) /\ Total(Log, s) <= Total(Log', s)
    BY <2>0, LogsGrow
  <2>2. Cover(findex', findex_synced, s) = Cover(findex, findex_synced, s)
    <3>1. findex_synced \in 0..Len(findex)
      BY <1>1, <1>2
    <3> QED
      BY <3>1, <2>0, <1>1, LogGrows
  <2>3. floor[s] \in Nat /\ synced[s] \in Nat /\ done[s] \in Nat
    BY <2>0 DEF HInv, Counts
  <2>4. /\ floor[s] <= 1 + Total(findex, s) /\ synced[s] <= 1 + Cover(findex, findex_synced, s)
        /\ done[s] <= 1 + Total(Log, s)
    BY <2>0, <1>1 DEF HInv, Acked
  <2> QED
    BY <2>0, <2>1, <2>2, <2>3, <2>4
<1>4. \A s \in Sectors : floor[s] \in Nat /\ synced[s] \in Nat /\ done[s] \in Nat
  BY DEF HInv, Counts
<1> QED
  BY <1>1, <1>2, <1>3, <1>4

\* Nothing is acknowledged.
LEMMA AcksNothing ==
  ASSUME IInv, HInv, NEW t \in Threads, Moves(t), Extends(findex, findex'),
         Pads(t) \/ Enters(t) \/ Indexes(t), spoiled \subseteq spoiled',
         UNCHANGED <<done, floor, synced, findex_synced>>
  PROVE  Acks
BY AcksMore DEF Acks, HInv, Counts

\* A request returns: what it claims is logged, and with `file' in the file.
LEMMA AcksRequest ==
  ASSUME IInv, HInv, NEW t \in Threads, Moves(t), Extends(findex, findex'),
         Pads(t) \/ Enters(t) \/ Indexes(t), spoiled \subseteq spoiled', op[t].step \in Changing,
         NEW grouped \in BOOLEAN, Acknowledge(t, grouped), findex_synced' = findex_synced,
         \A s \in Sound' : Covers(op[t].m, s) => op[t].version[s] <= 1 + Total(Log', s),
         ~grouped => \A s \in Sectors : Total(Log', s) = Total(findex', s)
  PROVE  Acks /\ versions' = versions
<1> DEFINE latest(s) == IF Covers(op[t].m, s) /\ op[t].version[s] > done[s]
                        THEN op[t].version[s] ELSE done[s]
           low(s) == IF Covers(op[t].m, s) /\ ~grouped /\ latest(s) > floor[s]
                     THEN latest(s) ELSE floor[s]
<1>1. /\ done' = [s \in Sectors |-> latest(s)] /\ floor' = [s \in Sectors |-> low(s)]
      /\ versions' = versions /\ synced' = synced
  BY DEF Acknowledge
<1>2. /\ findex_synced <= Len(findex')
      /\ \A s \in Sectors : floor[s] \in Nat /\ synced[s] \in Nat /\ done[s] \in Nat
      /\ \A s \in Sound' : /\ s \in Sectors /\ floor[s] <= 1 + Total(findex', s)
                           /\ synced[s] <= 1 + Cover(findex', findex_synced, s)
                           /\ done[s] <= 1 + Total(Log', s)
  BY AcksMore
<1>3. ASSUME NEW s \in Sectors
      PROVE  latest(s) \in Nat /\ (s \in Sound' => latest(s) <= 1 + Total(Log', s))
  <2>1. op[t].version[s] \in Nat
    BY DEF HInv, Counts, Stamped
  <2> QED
    BY <2>1, <1>2
<1> HIDE DEF latest
<1>4. ASSUME NEW s \in Sectors
      PROVE  low(s) \in Nat /\ (s \in Sound' => low(s) <= 1 + Total(findex', s))
  <2>1. CASE ~grouped
    <3>1. Total(Log', s) = Total(findex', s)
      BY <2>1
    <3> QED
      BY <3>1, <1>2, <1>3
  <2>2. CASE grouped
    BY <2>2, <1>2
  <2> QED
    BY <2>1, <2>2
<1> HIDE DEF low
<1>5. done' \in [Sectors -> Nat] /\ floor' \in [Sectors -> Nat] /\ synced' \in [Sectors -> Nat]
  BY <1>1, <1>3, <1>4 DEF HInv, Counts
<1>6. \A s \in Sectors : done'[s] = latest(s) /\ floor'[s] = low(s)
  BY <1>1
<1> QED
  BY <1>1, <1>2, <1>3, <1>4, <1>5, <1>6 DEF Acks
-----------------------------------------------------------------------------
(* Lost writes: what actions do to the log *)

\* The buffer, padded to the size of the group.
LEMMA PaddedExtends ==
  ASSUME IInv
  PROVE  /\ Padded \in Seq(Logged) /\ Extends(stacked, Padded)
         /\ \A i \in (Len(stacked) + 1)..Len(Padded) : Padded[i] = Invalid
<1> DEFINE k == group - Len(stacked)
           n == IF k > 0 THEN k ELSE 0
           pad == [i \in 1..n |-> Invalid]
<1>1. stacked \in Seq(Logged) /\ Len(stacked) \in Nat /\ group \in Nat
  BY DEF IInv, Types
<1>2. k \in Int /\ n \in Nat /\ 1..k = 1..n
  BY <1>1
<1>3. Padded = stacked \o pad
  BY <1>2 DEF Padded
<1>4. Invalid \in Logged
  BY DEF Logged
<1> HIDE DEF k, n
<1>5. pad \in Seq(Logged) /\ Len(pad) = n /\ \A i \in 1..n : pad[i] = Invalid
  BY <1>2, <1>4
<1> HIDE DEF pad
<1>6. /\ stacked \o pad \in Seq(Logged) /\ Extends(stacked, stacked \o pad)
      /\ \A i \in (Len(stacked) + 1)..Len(stacked \o pad) :
           /\ i - Len(stacked) \in 1..Len(pad)
           /\ (stacked \o pad)[i] = pad[i - Len(stacked)]
  BY <1>1, <1>5, JoinedOK
<1> QED
  BY <1>3, <1>5, <1>6

\* A log whose buffer is padded.
LEMMA PaddedLog ==
  ASSUME NEW f \in Seq(Logged), NEW g \in Seq(Logged), NEW p \in Seq(Logged), Extends(g, p),
         \A i \in (Len(g) + 1)..Len(p) : p[i] = Invalid
  PROVE  SameLog(f \o g, f \o p)
<1>1. /\ Len(f) \in Nat /\ Len(g) \in Nat /\ Len(p) \in Nat /\ Len(g) <= Len(p)
      /\ \A i \in 1..Len(g) : p[i] = g[i]
  BY DEF Extends
<1> DEFINE a == f \o g
           b == f \o p
<1>2. /\ Len(a) = Len(f) + Len(g)
      /\ \A i \in 1..Len(f) : a[i] = f[i]
      /\ \A i \in (Len(f) + 1)..Len(a) : i - Len(f) \in 1..Len(g) /\ a[i] = g[i - Len(f)]
  BY JoinedOK
<1>3. /\ Len(b) = Len(f) + Len(p)
      /\ \A i \in 1..Len(f) : b[i] = f[i]
      /\ \A i \in (Len(f) + 1)..Len(b) : i - Len(f) \in 1..Len(p) /\ b[i] = p[i - Len(f)]
  BY JoinedOK
<1> HIDE DEF a, b
<1>4. ASSUME NEW i \in 1..Len(a) PROVE b[i] = a[i]
  <2>1. CASE i \in 1..Len(f)
    BY <2>1, <1>2, <1>3
  <2>2. CASE i \in (Len(f) + 1)..Len(a)
    <3>1. i \in (Len(f) + 1)..Len(b)
      BY <2>2, <1>1, <1>2, <1>3
    <3> QED
      BY <3>1, <2>2, <1>1, <1>2, <1>3
  <2> QED
    BY <2>1, <2>2, <1>1, <1>2
<1>5. ASSUME NEW i \in (Len(a) + 1)..Len(b), NEW s \in Sectors PROVE ~Covers(b[i], s)
  <2>1. i \in (Len(f) + 1)..Len(b) /\ i - Len(f) \in (Len(g) + 1)..Len(p)
    BY <1>1, <1>2, <1>3
  <2>2. b[i] = Invalid
    BY <2>1, <1>3
  <2>3. s \in Nat
    BY FileAssumption DEF Sectors
  <2> QED
    BY <2>2, <2>3 DEF Covers, Invalid, Mapping, End
<1>6. Len(a) <= Len(b)
  BY <1>1, <1>2, <1>3
<1>7. SameLog(a, b)
  BY <1>4, <1>5, <1>6 DEF SameLog, Extends
<1> QED
  BY <1>7 DEF a, b

\* A log whose buffer has one more mapping.
LEMMA BufferedLog ==
  ASSUME NEW f \in Seq(Logged), NEW g \in Seq(Logged), NEW m \in Logged
  PROVE  NextLog(f \o g, f \o Append(g, m), m)
<1> DEFINE p == Append(g, m)
           a == f \o g
           b == f \o p
<1>1. /\ Len(f) \in Nat /\ Len(g) \in Nat /\ p \in Seq(Logged) /\ Len(p) = Len(g) + 1
      /\ p[Len(g) + 1] = m /\ \A i \in 1..Len(g) : p[i] = g[i]
  OBVIOUS
<1> HIDE DEF p
<1>2. /\ Len(a) = Len(f) + Len(g)
      /\ \A i \in 1..Len(f) : a[i] = f[i]
      /\ \A i \in (Len(f) + 1)..Len(a) : i - Len(f) \in 1..Len(g) /\ a[i] = g[i - Len(f)]
  BY JoinedOK
<1>3. /\ Len(b) = Len(f) + Len(p)
      /\ \A i \in 1..Len(f) : b[i] = f[i]
      /\ \A i \in (Len(f) + 1)..Len(b) : i - Len(f) \in 1..Len(p) /\ b[i] = p[i - Len(f)]
  BY <1>1, JoinedOK
<1> HIDE DEF a, b
<1>4. ASSUME NEW i \in 1..Len(a) PROVE b[i] = a[i]
  <2>1. CASE i \in 1..Len(f)
    BY <2>1, <1>2, <1>3
  <2>2. CASE i \in (Len(f) + 1)..Len(a)
    <3>1. i \in (Len(f) + 1)..Len(b)
      BY <2>2, <1>1, <1>2, <1>3
    <3> QED
      BY <3>1, <2>2, <1>1, <1>2, <1>3
  <2> QED
    BY <2>1, <2>2, <1>1, <1>2
<1>5. Len(b) = Len(a) + 1 /\ Len(a) \in Nat
  BY <1>1, <1>2, <1>3
<1>6. b[Len(a) + 1] = m
  <2>1. /\ Len(a) + 1 \in (Len(f) + 1)..Len(b) /\ (Len(a) + 1) - Len(f) = Len(g) + 1
    BY <1>1, <1>2, <1>3
  <2> QED
    BY <2>1, <1>1, <1>3
<1>7. NextLog(a, b, m)
  BY <1>4, <1>5, <1>6 DEF NextLog, Extends
<1> QED
  BY <1>7 DEF a, b, p

\* The log file without a buffer is the log.
LEMMA NoBuffer ==
  ASSUME NEW f \in Seq(Logged)
  PROVE  f \o << >> = f /\ \A s : Total(f \o << >>, s) = Total(f, s)
<1>1. f \o << >> = f
  BY ConcatEmptySeq
<1> QED
  BY <1>1

\* An action that leaves the log alone, of a thread that has nothing to log.
LEMMA StillPads ==
  ASSUME IInv, NEW t \in Threads, UNCHANGED <<findex, stacked, versions>>,
         op[t].step \notin Pending, op'[t].step \notin Pending,
         op'[t].step = "append" => op[t].step \notin NeedsMutex
  PROVE  Pads(t) /\ Extends(findex, findex')
<1>1. Log' = Log
  BY DEF Log
<1>2. Len(findex) \in Nat /\ Len(Log) \in Nat
  BY LogTypes
<1>3. SameLog(Log, Log')
  BY <1>1, <1>2 DEF SameLog, Extends
<1> QED
  BY <1>2, <1>3, ExtendsSame DEF Pads, PendingOn

\* do_group_commit_mappings() puts the whole log into the file.
LEMMA CommitLog ==
  ASSUME IInv, stacked' = << >>, findex' = IF stacked = << >> THEN findex ELSE findex \o Padded
  PROVE  /\ findex' \in Seq(Logged) /\ SameLog(Log, findex') /\ Extends(findex, findex')
         /\ Log' = findex' /\ \A s \in Sectors : Total(findex', s) = Total(Log, s)
<1>1. /\ findex \in Seq(Logged) /\ stacked \in Seq(Logged) /\ Len(findex) \in Nat
      /\ Log \in Seq(Logged)
  BY LogTypes
<1>2. /\ findex' \in Seq(Logged) /\ SameLog(Log, findex') /\ Extends(findex, findex')
  <2>1. CASE stacked = << >>
    <3>1. findex' = findex /\ Log = findex
      BY <2>1, <1>1, NoBuffer DEF Log
    <3>2. SameLog(findex, findex) /\ Extends(findex, findex)
      BY <1>1 DEF SameLog, Extends
    <3> QED
      BY <3>1, <3>2, <1>1
  <2>2. CASE stacked # << >>
    <3>1. findex' = findex \o Padded
      BY <2>2
    <3>2. /\ Padded \in Seq(Logged) /\ Extends(stacked, Padded)
          /\ \A i \in (Len(stacked) + 1)..Len(Padded) : Padded[i] = Invalid
      BY PaddedExtends
    <3>3. SameLog(findex \o stacked, findex \o Padded)
      BY <3>2, <1>1, PaddedLog
    <3>4. findex \o Padded \in Seq(Logged) /\ Extends(findex, findex \o Padded)
      BY <3>2, <1>1, JoinedOK
    <3> QED
      BY <3>1, <3>3, <3>4 DEF Log
  <2> QED
    BY <2>1, <2>2
<1>3. Log' = findex'
  BY <1>2, NoBuffer DEF Log
<1>4. \A s \in Sectors : Total(findex', s) = Total(Log, s)
  BY <1>1, <1>2, LogGrows DEF SameLog
<1> QED
  BY <1>2, <1>3, <1>4

\* A step of the thread that holds the mutex, without another in append_index().
LEMMA NoOtherLogs ==
  ASSUME IInv, NEW t \in Threads, Locked(t), Others(t), op'[t].step # "log"
  PROVE  \A u \in Threads : op'[u].step # "log"
<1> SUFFICES ASSUME NEW u \in Threads, op'[u].step = "log" PROVE FALSE
  OBVIOUS
<1>1. u # t /\ op[u].step = "log"
  BY DEF Others
<1>2. Locked(u)
  BY <1>1 DEF IInv, Holder, Holding
<1> QED
  BY <1>1, <1>2 DEF Locked

\* A thread that calls it, with nothing else to log.
LEMMA CommitPads ==
  ASSUME IInv, NEW t \in Threads, CommitGroup, versions' = versions,
         op[t].step \notin Pending, op'[t].step \notin Pending, op'[t].step # "append"
  PROVE  /\ Pads(t) /\ Extends(findex, findex') /\ stacked' = << >>
         /\ \A s \in Sectors : Total(findex', s) = Total(Log', s) /\ Total(Log', s) = Total(Log, s)
<1>1. stacked' = << >> /\ findex' = IF stacked = << >> THEN findex ELSE findex \o Padded
  BY DEF CommitGroup
<1>2. /\ SameLog(Log, findex') /\ Extends(findex, findex') /\ Log' = findex'
      /\ \A s \in Sectors : Total(findex', s) = Total(Log, s)
  BY <1>1, CommitLog
<1>3. Pads(t)
  BY <1>2 DEF Pads, PendingOn
<1> QED
  BY <1>1, <1>2, <1>3

\* ... when it fails: the buffer stays, padded.
LEMMA FailPads ==
  ASSUME IInv, HInv, NEW t \in Threads, NEW size, CommitGroupFails(size), versions' = versions,
         op[t].step \notin Pending, op'[t].step \notin Pending, op'[t].step # "append",
         Others(t), Locked(t), op'[t].step # "log", group' # 0
  PROVE  Pads(t) /\ Extends(findex, findex') /\ Grouped'
<1>1. stacked' = Padded /\ findex' = findex
  BY DEF CommitGroupFails
<1>2. findex \in Seq(Logged) /\ stacked \in Seq(Logged) /\ Len(findex) \in Nat
  BY LogTypes
<1>3. SameLog(Log, Log')
  <2>1. /\ Padded \in Seq(Logged) /\ Extends(stacked, Padded)
        /\ \A i \in (Len(stacked) + 1)..Len(Padded) : Padded[i] = Invalid
    BY PaddedExtends
  <2>2. SameLog(findex \o stacked, findex \o Padded)
    BY <2>1, <1>2, PaddedLog
  <2> QED
    BY <2>2, <1>1 DEF Log
<1>4. Pads(t)
  BY <1>3 DEF Pads, PendingOn
<1>5. \A u \in Threads : op'[u].step # "log"
  BY NoOtherLogs
<1> QED
  BY <1>1, <1>2, <1>4, <1>5, ExtendsSame DEF Grouped

\* The buffer's part of the invariant where the buffer stays.
LEMMA GroupedSame ==
  ASSUME Grouped, NEW t \in Threads, Others(t), UNCHANGED <<stacked, group>>, op'[t].step # "log"
  PROVE  Grouped'
BY DEF Grouped, Others

\* An action that leaves the log and the counts alone.
LEMMA StillLogs ==
  ASSUME IInv, HInv, NEW t \in Threads, Moves(t),
         UNCHANGED <<findex, stacked, versions, done, floor, synced, findex_synced, spoiled>>,
         op[t].step \notin Pending, op'[t].step \notin Pending,
         op'[t].step = "append" => op[t].step \notin NeedsMutex,
         Stamped(op'[t]), Claims(op'[t], findex, Log, Sound), Grouped'
  PROVE  LogStep(t)
<1>1. Pads(t) /\ Extends(findex, findex')
  BY StillPads
<1>2. Acks
  BY <1>1, AcksNothing
<1>3. Log' = Log /\ Sound' = Sound
  BY DEF Log, Sound
<1> QED
  BY <1>1, <1>2, <1>3 DEF LogStep

\* ... and whose thread makes no claims.
LEMMA ElseLogs ==
  ASSUME IInv, HInv, NEW t \in Threads, Moves(t),
         UNCHANGED <<findex, stacked, versions, done, floor, synced, findex_synced, spoiled>>,
         Grouped', op[t].step \notin Pending, op'[t].step \notin Changing \union FsyncSteps
  PROVE  LogStep(t)
<1>1. /\ op'[t].step \notin Pending /\ op'[t].step \notin Changing /\ op'[t].step \notin FsyncSteps
      /\ op'[t].step # "flush" /\ op'[t].step # "append"
  BY DEF Pending, Changing, InIndex
<1>2. Stamped(op'[t]) /\ Claims(op'[t], findex, Log, Sound)
  BY <1>1 DEF Stamped, Claims, FsyncSteps
<1> QED
  BY <1>1, <1>2, StillLogs

\* pread()
LEMMA PreadLogs ==
  ASSUME IInv, HInv, NEW t \in Threads, Moves(t),
         \/ \E offset \in Sectors, length \in 1..NSectors : PreadCall(t, offset, length)
         \/ PreadSegment(t) \/ PreadSegmentFails(t) \/ PreadMore(t) \/ PreadReturn(t)
  PROVE  LogStep(t)
<1>1. /\ UNCHANGED <<findex, stacked, versions, done, floor, synced, findex_synced, group>>
      /\ UNCHANGED spoiled /\ op[t].step \in {"idle", "read", "misread"}
  <2>1. UNCHANGED <<memVars, diskVars, histVars>> /\ op[t].step \in {"idle", "read", "misread"}
    BY DEF PreadCall, PreadSegment, PreadSegmentFails, PreadMore, PreadReturn, At
  <2> QED
    BY <2>1 DEF memVars, diskVars, histVars
<1>2. op'[t].step \in {"idle", "read", "misread"}
  <2>1. ASSUME NEW offset \in Sectors, NEW length \in 1..NSectors, PreadCall(t, offset, length)
        PROVE  op'[t].step = "read"
    <3> DEFINE r == [step |-> "read", from |-> offset, to |-> offset + length, got |-> << >>,
                     batch |-> Lookup0(mapping, offset, offset + length, NLookup),
                     left |-> NLookup, since |-> [s \in Sectors |-> Len(versions[s])]]
    <3>1. op' = [op EXCEPT ![t] = r] /\ r.step = "read"
      BY <2>1 DEF PreadCall
    <3> HIDE DEF r
    <3> QED
      BY <3>1, SetOp
  <2>2. CASE PreadSegment(t) \/ PreadMore(t)
    <3>0. op[t].step = "read" /\ {"step", "got", "batch", "left"} \subseteq DOMAIN op[t]
      BY <2>2 DEF PreadSegment, PreadMore, At, IInv, Shapes, OpOK, Idle, Changing, InIndex
    <3>1. CASE PreadSegment(t)
      <4> DEFINE got == ReadUpto(t, Head(op[t].batch))
                 batch == Tail(op[t].batch)
                 left == op[t].left - 1
                 r == [op[t] EXCEPT !.got = got, !.batch = batch, !.left = left]
      <4>1. op' = [op EXCEPT ![t] = r]
        BY <3>1 DEF PreadSegment
      <4> HIDE DEF got, batch, left
      <4>2. r.step = "read"
        BY <3>0
      <4> HIDE DEF r
      <4> QED
        BY <4>1, <4>2, SetOp
    <3>2. CASE PreadMore(t)
      <4> DEFINE batch == Lookup0(mapping, op[t].from + Len(op[t].got), op[t].to, NLookup)
                 r == [op[t] EXCEPT !.left = NLookup, !.batch = batch]
      <4>1. op' = [op EXCEPT ![t] = r]
        BY <3>2 DEF PreadMore
      <4> HIDE DEF batch
      <4>2. r.step = "read"
        BY <3>0
      <4> HIDE DEF r
      <4> QED
        BY <4>1, <4>2, SetOp
    <3> QED
      BY <2>2, <3>1, <3>2
  <2>3. CASE PreadReturn(t)
    BY <2>3, Returning DEF PreadReturn
  <2>4. CASE PreadSegmentFails(t)
    <3>1. op[t].step = "read" /\ (Return(t) \/ Goto(t, "misread"))
      BY <2>4 DEF PreadSegmentFails, At
    <3>2. "step" \in DOMAIN op[t]
      BY <3>1 DEF IInv, Shapes, OpOK, Idle, Changing, InIndex
    <3>3. ASSUME Goto(t, "misread") PROVE op'[t].step = "misread"
      <4>1. op'[t] = [op[t] EXCEPT !.step = "misread"]
        BY <3>2, <3>3, Stepping
      <4> QED
        BY <4>1, <3>2
    <3> QED
      BY <3>1, <3>3, Returning
  <2> QED
    BY <2>1, <2>2, <2>3, <2>4
<1>3. Grouped'
  BY <1>1, <1>2, GroupedSame DEF HInv, Moves
<1> QED
  BY <1>1, <1>2, <1>3, ElseLogs DEF Pending, Changing, InIndex, FsyncSteps

\* pwrite() up to the mutex.
LEMMA PwriteCallLogs ==
  ASSUME IInv, HInv, NEW t \in Threads, Moves(t),
         NEW offset \in Sectors, NEW length \in 1..NSectors, PwriteCall(t, offset, length)
  PROVE  LogStep(t)
<1> DEFINE m == Mapping(offset, length, 0, FALSE, 0)
           version == [s \in Sectors |-> 0]
           r == [step |-> "append", m |-> m, id |-> nops + 1, version |-> version]
<1>1. /\ op' = [op EXCEPT ![t] = r] /\ op[t].step = "idle"
      /\ UNCHANGED <<findex, stacked, versions, done, floor, synced, findex_synced, group>>
      /\ UNCHANGED spoiled
  BY DEF PwriteCall, At, diskVars, histVars
<1>3. version \in [Sectors -> Nat]
  OBVIOUS
<1> HIDE DEF m, version
<1>4. r.step = "append" /\ r.m = m /\ "version" \in DOMAIN r /\ r.version = version
  OBVIOUS
<1> HIDE DEF r
<1>5. op'[t] = r
  BY <1>1, SetOp
<1>6. Stamped(op'[t]) /\ Claims(op'[t], findex, Log, Sound)
  BY <1>3, <1>4, <1>5 DEF Stamped, Claims, FsyncSteps
<1>8. Grouped'
  BY <1>1, <1>4, <1>5, GroupedSame DEF HInv, Moves
<1> QED
  BY <1>1, <1>4, <1>5, <1>6, <1>8, StillLogs DEF Pending, NeedsMutex

\* What entering the index does to the log: nothing.
LEMMA IndexedLogs ==
  ASSUME IInv, RInv, HInv, NEW t \in Threads, Moves(t), Records(t),
         UNCHANGED <<findex, stacked, done, floor, synced, findex_synced, group>>,
         op[t].step \notin Pending, op'[t].step = "index", NEW m \in Requests, op'[t].m = m,
         mapping' = Insert(mapping, m), NEW content, versions' = Grown(versions, m, content),
         "version" \in DOMAIN op'[t], op'[t].version = [s \in Sectors |-> Len(versions'[s])],
         spoiled \subseteq spoiled',
         \A s \in Sound', u \in Threads \ {t} : Covers(m, s) =>
           /\ PendingOn(op[u], s) => ~Before(queue', t, u)
           /\ op[u].step = "append" /\ Covers(op[u].m, s) => ~Before(queue', u, t)
  PROVE  LogStep(t)
<1>1. Log' = Log /\ Len(findex) \in Nat
  BY LogTypes DEF Log
<1>2. m \in mapping'
  <2>1. m.length # 0
    BY RequestFields
  <2> QED
    BY <2>1 DEF Insert
<1>3. ASSUME NEW s \in Sectors
      PROVE  /\ Covers(m, s) => Len(versions'[s]) = Len(versions[s]) + 1
             /\ ~Covers(m, s) => Len(versions'[s]) = Len(versions[s])
             /\ Len(versions'[s]) \in Nat /\ op'[t].version[s] = Len(versions'[s])
  <2>1. versions[s] \in Seq(Cells) /\ versions'[s] \in Seq(Cells)
    BY DEF RInv, HistoryOK, Records, History
  <2>2. versions'[s] = IF Covers(m, s) THEN Append(versions[s], content[s]) ELSE versions[s]
    BY DEF Grown
  <2>3. op'[t].version[s] = Len(versions'[s]) /\ Len(versions'[s]) \in Nat
    BY <2>1
  <2>4. Len(Append(versions[s], content[s])) = Len(versions[s]) + 1
    BY <2>1
  <2> QED
    BY <2>2, <2>3, <2>4
<1>4. Indexes(t)
  BY <1>1, <1>2, <1>3 DEF Indexes
<1>5. Acks /\ Extends(findex, findex')
  BY <1>1, <1>4, AcksNothing, ExtendsSame
<1>6. Stamped(op'[t]) /\ Claims(op'[t], findex', Log', Sound')
  <2>1. op'[t].version \in [Sectors -> Nat]
    BY <1>3
  <2> QED
    BY <2>1 DEF Stamped, Claims, FsyncSteps
<1>7. Grouped'
  BY GroupedSame DEF HInv, Moves
<1> QED
  BY <1>4, <1>5, <1>6, <1>7 DEF LogStep

\* A discard.
LEMMA DiscardCallLogs ==
  ASSUME IInv, RInv, HInv, Queued, NEW t \in Threads, Moves(t), Records(t),
         NEW offset \in Sectors, NEW length \in 1..NSectors, DiscardCall(t, offset, length)
  PROVE  LogStep(t)
<1> DEFINE m == Mapping(offset, length, DataEnd, TRUE, 0)
           version == [s \in Sectors |-> Len(versions'[s])]
           content == [s \in Sectors |-> Zeros]
           r == [step |-> "index", m |-> m, id |-> nops + 1, version |-> version]
<1>1. /\ op' = [op EXCEPT ![t] = r] /\ MayChange(offset, length) /\ op[t].step = "idle"
      /\ UNCHANGED <<findex, stacked, done, floor, synced, findex_synced, group>>
      /\ mapping' = Insert(mapping, m) /\ versions' = Grown(versions, m, content)
      /\ queue' = Append(queue, t)
      /\ spoiled' = spoiled \union {s \in Sectors : Covers(m, s) /\ \E u \in Threads :
                                      op[u].step = "append" /\ Covers(op[u].m, s)}
  BY DEF DiscardCall, At, diskVars, InsertMapping, Grown, Lock
<1>2. m \in Requests
  <2>1. DataEnd \in Nat
    BY KnownOld DEF DataEnd, HeaderSectors
  <2> QED
    BY <2>1, <1>1, NewRequest DEF MayChange
<1>3. version = [s \in Sectors |-> Len(versions'[s])]
  OBVIOUS
<1> HIDE DEF m, version, content
<1>4. r.step = "index" /\ r.m = m /\ "version" \in DOMAIN r /\ r.version = version
  OBVIOUS
<1> HIDE DEF r
<1>5. op'[t] = r
  BY <1>1, SetOp
<1>6. op[t].step \notin NeedsMutex /\ op'[t].step \in NeedsMutex
  BY <1>1, <1>4, <1>5 DEF NeedsMutex
<1>7. QueueStep(t)
  BY <1>1, <1>6 DEF QueueStep
<1>8. ASSUME NEW s \in Sound', NEW u \in Threads \ {t}, Covers(m, s)
      PROVE  /\ ~Before(queue', t, u) /\ ~(op[u].step = "append" /\ Covers(op[u].m, s))
  <2>1. ~Before(queue', t, u)
    <3>1. ASSUME Before(queue', t, u) PROVE FALSE
      <4>1. Before(queue, t, u)
        BY <3>1, <1>7, QueueOrder
      <4> QED
        BY <4>1, <1>6, BothQueued
    <3> QED
      BY <3>1
  <2>2. s \in Sectors /\ s \notin spoiled'
    BY DEF Sound
  <2> QED
    BY <2>1, <2>2, <1>1, <1>8
<1>9. spoiled \subseteq spoiled'
  BY <1>1
<1> QED
  BY <1>1, <1>2, <1>3, <1>4, <1>5, <1>8, <1>9, IndexedLogs DEF Pending

\* append() of a write's data, and its mapping into the index.
LEMMA PwriteAppendLogs ==
  ASSUME IInv, RInv, HInv, Queued, NEW t \in Threads, Moves(t), Records(t), PwriteAppend(t)
  PROVE  LogStep(t)
<1> DEFINE m == [op[t].m EXCEPT !.moffset = DataEnd]
           content == [s \in Sectors |-> <<op[t].id, s>>]
<1>1. /\ op[t].step = "append" /\ op[t].step \in Changing /\ op[t].step \notin Pending
      /\ UNCHANGED <<findex, stacked, done, floor, synced, findex_synced, group, spoiled>>
      /\ state = "open" /\ Locked(t)
  BY DEF PwriteAppend, At, Changing, Pending
<1>2. /\ op[t].m \in Requests /\ {"step", "m", "id"} \subseteq DOMAIN op[t]
      /\ "version" \in DOMAIN op[t]
  BY <1>1, ChangingHas DEF HInv, Counts, Stamped
<1>3. m \in Requests /\ \A s \in Sectors : Covers(m, s) => Covers(op[t].m, s)
  <2>1. DataEnd \in Nat
    BY KnownOld DEF DataEnd, HeaderSectors
  <2>2. m \in Fields /\ m.length = op[t].m.length /\ m.offset = op[t].m.offset
    BY <2>1, <1>2 DEF Requests, Fields
  <2> QED
    BY <2>2, <1>2 DEF Requests, Covers, End
<1>4. CASE /\ InsertMapping(m, content) /\ UNCHANGED queue
           /\ op' = [op EXCEPT ![t].step = "index", ![t].m = m,
                               ![t].version = [s \in Sectors |-> Len(versions'[s])]]
  <2> DEFINE v == [s \in Sectors |-> Len(versions'[s])]
             r == [op[t] EXCEPT !.step = "index", !.m = m, !.version = v]
  <2>1. op' = [op EXCEPT ![t] = r]
    BY <1>4
  <2>2. mapping' = Insert(mapping, m) /\ versions' = Grown(versions, m, content)
    BY <1>4 DEF InsertMapping, Grown
  <2>3. v = [s \in Sectors |-> Len(versions'[s])]
    OBVIOUS
  <2> HIDE DEF m, v, content
  <2>4. r.step = "index" /\ r.m = m /\ "version" \in DOMAIN r /\ r.version = v
    BY <1>2
  <2> HIDE DEF r
  <2>5. op'[t] = r
    BY <2>1, SetOp
  <2>6. ASSUME NEW s \in Sound', NEW u \in Threads \ {t}, Covers(m, s)
        PROVE  ~PendingOn(op[u], s) /\ ~Before(queue', u, t)
    <3>1. s \in Sound /\ s \in Sectors /\ Covers(op[t].m, s)
      BY <2>6, <1>1, <1>3 DEF Sound
    <3>2. ASSUME PendingOn(op[u], s) PROVE FALSE
      <4>1. op[u].step \in NeedsMutex
        BY <3>2 DEF PendingOn, Pending, NeedsMutex
      <4>2. Before(queue, t, u)
        BY <4>1, <1>1, HeadFirst
      <4> QED
        BY <4>2, <3>1, <3>2, <1>1, SettledAt
    <3>3. ~Before(queue, u, t)
      BY <1>1, HeadFirst
    <3> QED
      BY <3>2, <3>3, <1>4
  <2> QED
    BY <2>2, <2>3, <2>4, <2>5, <2>6, <1>1, <1>3, IndexedLogs
<1>5. CASE Return(t) /\ UNCHANGED <<mapping, versions>>
  <2>1. op'[t].step = "idle"
    BY <1>5, Returning
  <2>2. Grouped'
    BY <2>1, <1>1, GroupedSame DEF HInv, Moves
  <2> QED
    BY <2>1, <2>2, <1>1, <1>5, ElseLogs DEF Changing, InIndex, FsyncSteps
<1> QED
  BY <1>4, <1>5 DEF PwriteAppend

\* What a request with a mapping to log has.
LEMMA PendingHas ==
  ASSUME IInv, HInv, NEW t \in Threads, op[t].step \in Pending
  PROVE  /\ op[t].step \in Changing /\ op[t].m \in Requests /\ op[t].m \in Logged
         /\ {"step", "m", "id", "version"} \subseteq DOMAIN op[t]
         /\ op[t].version \in [Sectors -> Nat]
<1>1. op[t].step \in Changing
  BY DEF Pending, Changing, InIndex
<1>2. op[t].m \in Requests /\ {"step", "m", "id"} \subseteq DOMAIN op[t]
  BY <1>1, ChangingHas
<1> QED
  BY <1>1, <1>2 DEF HInv, Counts, Stamped, Logged

\* A thread that logs claims what it logs.
LEMMA EntersClaims ==
  ASSUME IInv, RInv, HInv, Queued, NEW t \in Threads, Moves(t), Enters(t), spoiled \subseteq spoiled'
  PROVE  \A s \in Sound' : Covers(op[t].m, s) => op[t].version[s] <= 1 + Total(Log', s)
<1>1. /\ op[t].step \in Pending /\ NextLog(Log, Log', op[t].m) /\ state = "open"
      /\ Extends(Log, Log') /\ Locked(t)
  BY DEF Enters, NextLog, Moves
<1>2. Log \in Seq(Logged) /\ Log' \in Seq(Logged)
  <2>1. findex' \in Seq(Logged) /\ stacked' \in Seq(Logged)
    BY DEF Moves
  <2> QED
    BY <2>1, LogTypes, JoinedOK DEF Log
<1>3. ASSUME NEW s \in Sound', Covers(op[t].m, s)
      PROVE  op[t].version[s] <= 1 + Total(Log', s)
  <2>0. s \in Sound /\ s \in Sectors /\ PendingOn(op[t], s)
    BY <1>1, <1>3, StillSound DEF PendingOn
  <2>1. op[t].version[s] = 2 + Total(Log, s)
    BY <2>0, <1>1, NextEntry
  <2>2. Total(Log', s) = Total(Log, s) + 1 /\ Total(Log, s) \in Nat
    BY <2>0, <1>1, <1>2, <1>3, LogGrows
  <2> QED
    BY <2>1, <2>2
<1> QED
  BY <1>3

\* The mapping of t goes into the buffer.
LEMMA BufferEnters ==
  ASSUME IInv, HInv, NEW t \in Threads, op[t].step = "index", stacked' = Append(stacked, op[t].m),
         UNCHANGED <<findex, data, versions>>, Locked(t), op'[t].step \notin Pending \union {"append"}
  PROVE  Enters(t) /\ Extends(findex, findex')
<1>1. op[t].step \in Pending
  BY DEF Pending
<1>2. op[t].m \in Logged /\ findex \in Seq(Logged) /\ stacked \in Seq(Logged) /\ Len(findex) \in Nat
  BY <1>1, PendingHas, LogTypes
<1>3. NextLog(findex \o stacked, findex \o Append(stacked, op[t].m), op[t].m)
  BY <1>2, BufferedLog
<1> QED
  BY <1>1, <1>2, <1>3, ExtendsSame DEF Enters, Log

\* append_index() without a group.
LEMMA AppendIndexAlone ==
  ASSUME IInv, HInv, NEW t \in Threads, Moves(t), op[t].step = "index", group = 0, Goto(t, "log"),
         UNCHANGED <<stacked, group, versions, done, floor, synced, findex, findex_synced, spoiled>>
  PROVE  LogStep(t)
<1>1. /\ op[t].step \in Changing /\ {"step", "m", "id", "version"} \subseteq DOMAIN op[t]
      /\ op[t].version \in [Sectors -> Nat]
  BY PendingHas DEF Pending
<1>2. /\ op'[t].step = "log" /\ op'[t].m = op[t].m /\ op'[t].version = op[t].version
      /\ "version" \in DOMAIN op'[t]
  <2>1. op'[t] = [op[t] EXCEPT !.step = "log"]
    BY <1>1, Stepping
  <2> QED
    BY <2>1, <1>1
<1>3. Log' = Log /\ Len(Log) \in Nat /\ Len(findex) \in Nat
  BY LogTypes DEF Log
<1>4. Pads(t) /\ Extends(findex, findex')
  <2>1. SameLog(Log, Log')
    BY <1>3 DEF SameLog, Extends
  <2> QED
    BY <2>1, <1>2, <1>3, ExtendsSame DEF Pads, PendingOn, Pending
<1>5. Acks
  BY <1>4, AcksNothing
<1>6. Stamped(op'[t]) /\ Claims(op'[t], findex', Log', Sound')
  BY <1>1, <1>2 DEF Stamped, Claims, FsyncSteps
<1>8. Grouped'
  BY DEF HInv, Grouped
<1> QED
  BY <1>4, <1>5, <1>6, <1>8 DEF LogStep

\* append_index() that fills the buffer.
LEMMA AppendIndexFills ==
  ASSUME IInv, RInv, HInv, Queued, NEW t \in Threads, Moves(t), op[t].step = "index", Locked(t),
         group > 0, stacked' = Append(stacked, op[t].m), Goto(t, "flush"),
         UNCHANGED <<group, data, versions, done, floor, synced, findex, findex_synced, spoiled>>
  PROVE  LogStep(t)
<1>1. /\ op[t].step \in Changing /\ {"step", "m", "id", "version"} \subseteq DOMAIN op[t]
      /\ op[t].version \in [Sectors -> Nat]
  BY PendingHas DEF Pending
<1>2. /\ op'[t].step = "flush" /\ op'[t].m = op[t].m /\ op'[t].version = op[t].version
      /\ "version" \in DOMAIN op'[t]
  <2>1. op'[t] = [op[t] EXCEPT !.step = "flush"]
    BY <1>1, Stepping
  <2> QED
    BY <2>1, <1>1
<1>3. Enters(t) /\ Extends(findex, findex')
  BY <1>2, BufferEnters DEF Pending
<1>4. Acks
  BY <1>3, AcksNothing
<1>5. Stamped(op'[t])
  BY <1>1, <1>2 DEF Stamped, FsyncSteps
<1>6. Claims(op'[t], findex', Log', Sound')
  BY <1>2, <1>3, EntersClaims DEF Claims
<1>8. Grouped'
  <2>1. \A u \in Threads : op'[u].step # "log"
    BY <1>2, NoOtherLogs DEF Moves
  <2>2. group' # 0
    BY KnownOld
  <2> QED
    BY <2>1, <2>2 DEF Grouped
<1> QED
  BY <1>3, <1>4, <1>5, <1>6, <1>8 DEF LogStep

\* A request that returns claims nothing more.
LEMMA ReturnLogs ==
  ASSUME IInv, NEW t \in Threads, Return(t), Extends(findex, findex'),
         Pads(t) \/ Enters(t) \/ Indexes(t), spoiled \subseteq spoiled', Acks, Grouped'
  PROVE  LogStep(t)
<1>1. op'[t].step = "idle"
  BY Returning
<1> QED
  BY <1>1 DEF LogStep, Stamped, Claims, Changing, InIndex, FsyncSteps

\* append_index() that leaves room in the buffer.
LEMMA AppendIndexReturns ==
  ASSUME IInv, RInv, HInv, Queued, NEW t \in Threads, Moves(t), op[t].step = "index", Locked(t),
         group > 0, stacked' = Append(stacked, op[t].m), Return(t), Acknowledge(t, TRUE),
         UNCHANGED <<group, data, findex, findex_synced, spoiled>>
  PROVE  LogStep(t)
<1>1. op'[t].step = "idle" /\ op[t].step \in Changing
  BY Returning DEF Changing, InIndex
<1>2. versions' = versions
  BY DEF Acknowledge
<1>3. Enters(t) /\ Extends(findex, findex')
  BY <1>1, <1>2, BufferEnters DEF Pending
<1>4. Acks
  <2>1. \A s \in Sound' : Covers(op[t].m, s) => op[t].version[s] <= 1 + Total(Log', s)
    BY <1>3, EntersClaims
  <2> QED
    BY <2>1, <1>1, <1>3, AcksRequest
<1>5. Grouped'
  <2>1. \A u \in Threads : op'[u].step # "log"
    BY <1>1, NoOtherLogs DEF Moves
  <2>2. group' # 0
    BY KnownOld
  <2> QED
    BY <2>1, <2>2 DEF Grouped
<1> QED
  BY <1>3, <1>4, <1>5, ReturnLogs

\* append_index() up to its I/O.
LEMMA AppendIndexLogs ==
  ASSUME IInv, RInv, HInv, Queued, NEW t \in Threads, Moves(t), AppendIndex(t)
  PROVE  LogStep(t)
<1>1. /\ op[t].step = "index" /\ Locked(t)
      /\ UNCHANGED <<group, data, findex, findex_synced>>
  BY DEF AppendIndex, At, diskVars
<1>2. CASE group = 0 /\ Goto(t, "log") /\ UNCHANGED <<stacked, queue, histVars>>
  BY <1>1, <1>2, AppendIndexAlone DEF histVars
<1>3. CASE /\ group > 0 /\ stacked' = Append(stacked, op[t].m) /\ Goto(t, "flush")
           /\ UNCHANGED <<queue, histVars>>
  BY <1>1, <1>3, AppendIndexFills DEF histVars
<1>4. CASE /\ group > 0 /\ stacked' = Append(stacked, op[t].m) /\ Return(t)
           /\ Acknowledge(t, TRUE) /\ UNCHANGED spoiled
  BY <1>1, <1>4, AppendIndexReturns
<1> QED
  BY <1>2, <1>3, <1>4 DEF AppendIndex

\* The mapping is in the file when the request returns, or its sectors are given up.
LEMMA LogMappingLogs ==
  ASSUME IInv, RInv, HInv, Queued, NEW t \in Threads, Moves(t), LogMapping(t)
  PROVE  LogStep(t)
<1>1. /\ op[t].step = "log" /\ Return(t) /\ Acknowledge(t, FALSE)
      /\ UNCHANGED <<stacked, group, data, findex_synced>>
  BY DEF LogMapping, At
<1>2. /\ op[t].m \in Logged /\ op[t].step \in Changing /\ op[t].step \in Pending
      /\ op'[t].step = "idle"
  BY <1>1, PendingHas, Returning DEF Pending
<1>3. findex \in Seq(Logged) /\ Len(findex) \in Nat /\ stacked = << >> /\ Locked(t)
  BY <1>1, LogTypes DEF HInv, Grouped, IInv, Holder, Holding
<1>4. findex' \in Seq(Logged) /\ Log' = findex' /\ Log = findex
  BY <1>1, <1>3, NoBuffer DEF Log, Moves
<1>5. versions' = versions
  BY <1>1 DEF Acknowledge
<1>6. Grouped'
  BY <1>1, <1>3 DEF Grouped
<1>7. CASE findex' = Append(findex, op[t].m) /\ UNCHANGED spoiled
  <2>1. NextLog(findex, findex', op[t].m)
    BY <1>2, <1>3, <1>7 DEF NextLog, Extends
  <2>2. Enters(t) /\ Extends(findex, findex')
    BY <2>1, <1>1, <1>2, <1>3, <1>4, <1>5 DEF Enters, NextLog, Pending
  <2>3. \A s \in Sound' : Covers(op[t].m, s) => op[t].version[s] <= 1 + Total(Log', s)
    BY <2>2, <1>7, EntersClaims
  <2>4. Acks
    BY <2>2, <2>3, <1>1, <1>2, <1>4, <1>7, AcksRequest
  <2> QED
    BY <2>2, <2>4, <1>1, <1>6, <1>7, ReturnLogs
<1>8. CASE UNCHANGED findex /\ Spoil({op[t].m})
  <2>1. spoiled \subseteq spoiled' /\ \A s \in Sectors : Covers(op[t].m, s) => s \in spoiled'
    BY <1>8 DEF Spoil
  <2>2. \A s \in Sound' : ~Covers(op[t].m, s)
    BY <2>1 DEF Sound
  <2>3. SameLog(Log, Log') /\ Extends(findex, findex')
    BY <1>3, <1>4, <1>8 DEF SameLog, Extends
  <2>4. Pads(t)
    BY <2>2, <2>3, <1>2, <1>5 DEF Pads, PendingOn, Pending
  <2>5. Acks
    BY <2>1, <2>2, <2>3, <2>4, <1>1, <1>2, <1>4, AcksRequest
  <2> QED
    BY <2>1, <2>3, <2>4, <2>5, <1>1, <1>6, ReturnLogs
<1> QED
  BY <1>7, <1>8 DEF LogMapping

\* The group is in the file, or still in the buffer.
LEMMA FlushGroupLogs ==
  ASSUME IInv, HInv, NEW t \in Threads, Moves(t), FlushGroup(t)
  PROVE  LogStep(t)
<1>1. /\ op[t].step = "flush" /\ Return(t) /\ Acknowledge(t, TRUE)
      /\ UNCHANGED <<group, data, findex_synced, spoiled>>
      /\ \/ findex' = findex \o stacked /\ stacked' = << >>
         \/ UNCHANGED <<findex, stacked>>
  BY DEF FlushGroup, At
<1>2. op[t].step \in Changing /\ op[t].step \notin Pending /\ op'[t].step = "idle"
  BY <1>1, Returning DEF Changing, InIndex, Pending
<1>3. Log \in Seq(Logged) /\ Len(Log) \in Nat /\ Extends(findex, Log) /\ Len(findex) \in Nat
  BY LogTypes
<1>4. Log' = Log /\ Extends(findex, findex') /\ Sound' = Sound
  <2>1. CASE findex' = findex \o stacked /\ stacked' = << >>
    <3>1. findex' = Log /\ Log' = Log
      BY <2>1, <1>3, NoBuffer DEF Log
    <3> QED
      BY <3>1, <1>1, <1>3 DEF Sound
  <2>2. CASE UNCHANGED <<findex, stacked>>
    BY <2>2, <1>1, <1>3, ExtendsSame DEF Log, Sound
  <2> QED
    BY <2>1, <2>2, <1>1
<1>5. SameLog(Log, Log')
  BY <1>3, <1>4 DEF SameLog, Extends
<1>6. versions' = versions
  BY <1>1 DEF Acknowledge
<1>7. Pads(t)
  BY <1>2, <1>5, <1>6 DEF Pads, PendingOn, Pending
<1>8. Acks
  <2>1. \A s \in Sound' : Covers(op[t].m, s) => op[t].version[s] <= 1 + Total(Log', s)
    BY <1>1, <1>4 DEF HInv, Acked, Claims
  <2> QED
    BY <2>1, <1>1, <1>2, <1>4, <1>7, AcksRequest
<1>9. Grouped'
  <2>1. Locked(t)
    BY <1>1 DEF IInv, Holder, Holding
  <2>2. \A u \in Threads : op'[u].step # "log"
    BY <2>1, <1>2, NoOtherLogs DEF Moves
  <2> QED
    BY <2>2, <1>1 DEF Grouped, HInv
<1> QED
  BY <1>1, <1>4, <1>7, <1>8, <1>9, ReturnLogs

\* What a thread in fsync() has.
LEMMA FsyncHas ==
  ASSUME IInv, HInv, NEW t \in Threads, op[t].step \in FsyncSteps
  PROVE  /\ {"step", "mark"} \subseteq DOMAIN op[t] /\ op[t].mark \in [Sectors -> Nat]
         /\ op[t].step \notin Pending /\ op[t].step \notin Changing
<1>1. "step" \in DOMAIN op[t]
  BY DEF FsyncSteps, IInv, Shapes, OpOK, Idle, Changing, InIndex
<1>2. "mark" \in DOMAIN op[t] /\ op[t].mark \in [Sectors -> Nat]
  BY DEF HInv, Counts, Stamped
<1> QED
  BY <1>1, <1>2 DEF FsyncSteps, Pending, Changing, InIndex

\* fsync() notes what has returned.
LEMMA FsyncCallLogs ==
  ASSUME IInv, HInv, NEW t \in Threads, Moves(t), FsyncCall(t)
  PROVE  LogStep(t)
<1> DEFINE r == [step |-> "fsync", mark |-> done]
<1>1. /\ op' = [op EXCEPT ![t] = r] /\ op[t].step = "idle" /\ state = "open"
      /\ UNCHANGED <<findex, stacked, versions, done, floor, synced, findex_synced, group>>
      /\ UNCHANGED spoiled
  BY DEF FsyncCall, At, diskVars, histVars
<1>2. r.step = "fsync" /\ r.mark = done /\ "mark" \in DOMAIN r
  OBVIOUS
<1> HIDE DEF r
<1>3. op'[t] = r
  BY <1>1, SetOp
<1>4. done \in [Sectors -> Nat] /\ \A s \in Sound : done[s] <= 1 + Total(Log, s)
  BY <1>1 DEF HInv, Counts, Acked
<1>5. Stamped(op'[t]) /\ Claims(op'[t], findex, Log, Sound)
  BY <1>2, <1>3, <1>4 DEF Stamped, Claims, Changing, InIndex
<1>6. Grouped'
  BY <1>1, <1>2, <1>3, GroupedSame DEF HInv, Moves
<1> QED
  BY <1>1, <1>2, <1>3, <1>5, <1>6, StillLogs DEF Pending, Changing, InIndex

\* fsync() writes the whole log to the file, or fails.
LEMMA FsyncFlushLogs ==
  ASSUME IInv, HInv, NEW t \in Threads, Moves(t), FsyncFlush(t)
  PROVE  LogStep(t)
<1>1. /\ op[t].step = "fsync" /\ Locked(t)
      /\ UNCHANGED <<versions, done, floor, synced, findex_synced, group, spoiled>>
  BY DEF FsyncFlush, At
<1>2. /\ {"step", "mark"} \subseteq DOMAIN op[t] /\ op[t].mark \in [Sectors -> Nat]
      /\ op[t].step \notin Pending
  BY <1>1, FsyncHas DEF FsyncSteps
<1>3. CASE CommitGroup /\ Goto(t, "fsync_data")
  <2>1. op'[t].step = "fsync_data" /\ op'[t].mark = op[t].mark /\ "mark" \in DOMAIN op'[t]
    <3>1. op'[t] = [op[t] EXCEPT !.step = "fsync_data"]
      BY <1>2, <1>3, Stepping
    <3> QED
      BY <3>1, <1>2
  <2>2. /\ Pads(t) /\ Extends(findex, findex') /\ stacked' = << >>
        /\ \A s \in Sectors : Total(findex', s) = Total(Log', s) /\ Total(Log', s) = Total(Log, s)
    BY <2>1, <1>1, <1>2, <1>3, CommitPads DEF Pending
  <2>3. Acks
    BY <2>2, <1>1, AcksNothing
  <2>4. \A s \in Sound' : op[t].mark[s] <= 1 + Total(findex', s)
    BY <2>2, <1>1 DEF HInv, Acked, Claims, Sound
  <2>5. Stamped(op'[t]) /\ Claims(op'[t], findex', Log', Sound')
    BY <2>1, <2>4, <1>2 DEF Stamped, Claims, Changing, InIndex
  <2>6. Grouped'
    BY <2>2 DEF Grouped
  <2> QED
    BY <2>2, <2>3, <2>5, <2>6, <1>1 DEF LogStep
<1>4. CASE CommitGroupFails(group) /\ Return(t)
  <2>1. op'[t].step = "idle"
    BY <1>4, Returning
  <2>2. group' # 0
    BY <1>1, <1>4 DEF HInv, Grouped, CommitGroupFails
  <2>3. Pads(t) /\ Extends(findex, findex') /\ Grouped'
    BY <2>1, <2>2, <1>1, <1>2, <1>4, FailPads DEF Pending, Moves
  <2>4. Acks
    BY <2>3, <1>1, AcksNothing
  <2> QED
    BY <2>3, <2>4, <1>1, <1>4, ReturnLogs
<1> QED
  BY <1>3, <1>4 DEF FsyncFlush

\* fsync() of the data file.
LEMMA FsyncDataLogs ==
  ASSUME IInv, HInv, NEW t \in Threads, Moves(t), FsyncData(t)
  PROVE  LogStep(t)
<1>1. /\ Goto(t, "fsync_index") /\ op[t].step = "fsync_data"
      /\ UNCHANGED <<findex, stacked, versions, done, floor, synced, findex_synced, group>>
      /\ UNCHANGED spoiled
  BY DEF FsyncData, At, memVars, histVars
<1>2. /\ {"step", "mark"} \subseteq DOMAIN op[t] /\ op[t].mark \in [Sectors -> Nat]
      /\ op[t].step \notin Pending
  BY <1>1, FsyncHas DEF FsyncSteps
<1>3. op'[t].step = "fsync_index" /\ op'[t].mark = op[t].mark /\ "mark" \in DOMAIN op'[t]
  <2>1. op'[t] = [op[t] EXCEPT !.step = "fsync_index"]
    BY <1>1, <1>2, Stepping
  <2> QED
    BY <2>1, <1>2
<1>4. \A s \in Sound : op[t].mark[s] <= 1 + Total(findex, s)
  BY <1>1 DEF HInv, Acked, Claims
<1>5. Stamped(op'[t]) /\ Claims(op'[t], findex, Log, Sound)
  BY <1>2, <1>3, <1>4 DEF Stamped, Claims, Changing, InIndex
<1>6. Grouped'
  BY <1>1, <1>3, GroupedSame DEF HInv, Moves
<1> QED
  BY <1>1, <1>2, <1>3, <1>5, <1>6, StillLogs DEF Pending, Changing, InIndex

\* fsync() of the index file, and its return.
LEMMA FsyncIndexLogs ==
  ASSUME IInv, HInv, NEW t \in Threads, Moves(t), FsyncIndex(t)
  PROVE  LogStep(t)
<1> DEFINE low(s) == Later(op[t].mark[s], floor[s])
           sure(s) == Later(op[t].mark[s], synced[s])
<1>1. /\ Return(t) /\ op[t].step = "fsync_index" /\ state = "open"
      /\ floor' = [s \in Sectors |-> low(s)]
      /\ \/ findex_synced' = Len(findex) /\ synced' = [s \in Sectors |-> sure(s)]
         \/ UNCHANGED <<findex_synced, synced>>
      /\ UNCHANGED <<findex, stacked, versions, done, group, spoiled>>
  BY DEF FsyncIndex, At, memVars
<1>2. /\ op[t].mark \in [Sectors -> Nat] /\ op[t].step \notin Pending
  BY <1>1, FsyncHas DEF FsyncSteps
<1>3. op'[t].step = "idle"
  BY <1>1, Returning
<1>4. Pads(t) /\ Extends(findex, findex')
  BY <1>1, <1>2, <1>3, StillPads DEF Pending
<1>5. findex \in Seq(Logged) /\ Len(findex) \in Nat /\ findex_synced \in Nat
  BY LogTypes, KnownOld
<1>6. ASSUME NEW s \in Sectors
      PROVE  low(s) \in Nat /\ sure(s) \in Nat
  <2>1. op[t].mark[s] \in Nat /\ floor[s] \in Nat /\ synced[s] \in Nat
    BY <1>2 DEF HInv, Counts
  <2> QED
    BY <2>1 DEF Later
<1>7. /\ findex_synced <= Len(findex)
      /\ \A s \in Sound : /\ floor[s] <= 1 + Total(findex, s) /\ done[s] <= 1 + Total(Log, s)
                          /\ synced[s] <= 1 + Cover(findex, findex_synced, s)
                          /\ op[t].mark[s] <= 1 + Total(findex, s)
  BY <1>1 DEF HInv, Acked, Claims
<1>8. ASSUME NEW s \in Sound
      PROVE  low(s) <= 1 + Total(findex, s) /\ sure(s) <= 1 + Total(findex, s)
  <2>1. s \in Sectors
    BY DEF Sound
  <2>2. op[t].mark[s] \in Nat /\ floor[s] \in Nat /\ synced[s] \in Nat
    BY <2>1, <1>2 DEF HInv, Counts
  <2>3. /\ Cover(findex, findex_synced, s) \in Nat /\ Total(findex, s) \in Nat
        /\ Cover(findex, findex_synced, s) <= Total(findex, s)
    BY <1>5, <1>7, CoverNat, CoverMore DEF Total
  <2> QED
    BY <2>2, <2>3, <1>7 DEF Later
<1> HIDE DEF low, sure
<1>9. Log' = Log /\ Sound' = Sound
  BY <1>1 DEF Log, Sound
<1>10. /\ floor' \in [Sectors -> Nat] /\ synced' \in [Sectors -> Nat] /\ done' \in [Sectors -> Nat]
  <2>1. floor' \in [Sectors -> Nat]
    BY <1>1, <1>6
  <2>2. synced' \in [Sectors -> Nat]
    BY <1>1, <1>6 DEF HInv, Counts
  <2> QED
    BY <2>1, <2>2, <1>1 DEF HInv, Counts
<1>11. Acks
  <2>1. findex_synced' <= Len(findex')
    BY <1>1, <1>5, <1>7
  <2>2. ASSUME NEW s \in Sound
        PROVE  /\ floor'[s] <= 1 + Total(findex', s) /\ done'[s] <= 1 + Total(Log', s)
               /\ synced'[s] <= 1 + Cover(findex', findex_synced', s)
    <3>1. s \in Sectors /\ floor'[s] = low(s)
      BY <1>1 DEF Sound
    <3>2. CASE findex_synced' = Len(findex) /\ synced' = [z \in Sectors |-> sure(z)]
      <4>1. synced'[s] = sure(s)
        BY <3>1, <3>2
      <4> QED
        BY <4>1, <3>1, <3>2, <1>1, <1>7, <1>8, <1>9 DEF Total
    <3>3. CASE UNCHANGED <<findex_synced, synced>>
      BY <3>1, <3>3, <1>1, <1>7, <1>8, <1>9
    <3> QED
      BY <3>2, <3>3, <1>1
  <2> QED
    BY <2>1, <2>2, <1>9, <1>10 DEF Acks
<1>12. Grouped'
  BY <1>1, <1>3, GroupedSame DEF HInv, Moves
<1> QED
  BY <1>1, <1>4, <1>11, <1>12, ReturnLogs

\* set_index_group_commit() before the mutex.
LEMMA GroupCallLogs ==
  ASSUME IInv, HInv, NEW t \in Threads, Moves(t), NEW size \in GroupSizes, GroupCall(t, size)
  PROVE  LogStep(t)
<1>1. /\ op[t].step = "idle"
      /\ UNCHANGED <<findex, stacked, versions, done, floor, synced, findex_synced, spoiled>>
  BY DEF GroupCall, At, diskVars, histVars
<1>2. CASE UNCHANGED group /\ op' = [op EXCEPT ![t] = [step |-> "regroup", size |-> size]]
  <2>1. op'[t].step = "regroup"
    <3> DEFINE r == [step |-> "regroup", size |-> size]
    <3>1. op' = [op EXCEPT ![t] = r] /\ r.step = "regroup"
      BY <1>2
    <3> HIDE DEF r
    <3> QED
      BY <3>1, SetOp
  <2>2. Grouped'
    BY <2>1, <1>1, <1>2, GroupedSame DEF HInv, Moves
  <2> QED
    BY <2>1, <2>2, <1>1, ElseLogs DEF Pending, Changing, InIndex, FsyncSteps
<1>3. CASE size >= Len(stacked) /\ group' = size /\ UNCHANGED op
  <2>1. group' = 0 => stacked = << >>
    <3>1. stacked \in Seq(Logged) /\ Len(stacked) \in Nat
      BY LogTypes
    <3> QED
      BY <3>1, <1>3
  <2>2. Grouped'
    BY <2>1, <1>1, <1>3 DEF HInv, Grouped
  <2> QED
    BY <2>2, <1>1, <1>3, ElseLogs DEF Pending, Changing, InIndex, FsyncSteps
<1> QED
  BY <1>2, <1>3 DEF GroupCall

\* ... and with it.
LEMMA GroupFlushLogs ==
  ASSUME IInv, HInv, NEW t \in Threads, Moves(t), GroupFlush(t)
  PROVE  LogStep(t)
<1>1. /\ Return(t) /\ op[t].step = "regroup" /\ Locked(t) /\ group' = op[t].size
      /\ UNCHANGED <<versions, done, floor, synced, findex_synced, spoiled>>
  BY DEF GroupFlush, At
<1>2. op'[t].step = "idle"
  BY <1>1, Returning
<1>3. Pads(t) /\ Extends(findex, findex') /\ Grouped'
  <2>1. CASE CommitGroup
    <3>1. Pads(t) /\ Extends(findex, findex') /\ stacked' = << >>
      BY <2>1, <1>1, <1>2, CommitPads DEF Pending
    <3> QED
      BY <3>1 DEF Grouped
  <2>2. CASE CommitGroupFails(op[t].size) /\ Len(Padded) <= op[t].size
    <3>1. group' # 0
      <4>1. /\ stacked \in Seq(Logged) /\ stacked # << >> /\ Len(stacked) \in Nat
            /\ Padded \in Seq(Logged) /\ Len(stacked) <= Len(Padded) /\ Len(Padded) \in Nat
        BY <2>2, LogTypes, PaddedExtends DEF CommitGroupFails, Extends
      <4>2. Len(stacked) > 0
        BY <4>1
      <4> QED
        BY <4>1, <4>2, <2>2, <1>1 DEF Moves
    <3> QED
      BY <3>1, <2>2, <1>1, <1>2, FailPads DEF Pending, Moves
  <2> QED
    BY <2>1, <2>2 DEF GroupFlush
<1>4. Acks
  BY <1>1, <1>3, AcksNothing
<1> QED
  BY <1>1, <1>3, <1>4, ReturnLogs

\* Every action of a thread.
LEMMA ThreadLogs ==
  ASSUME IInv, RInv, HInv, Queued, NEW t \in Threads, Moves(t), Records(t), ThreadStep(t)
  PROVE  LogStep(t)
<1>1. CASE \E offset \in Sectors, length \in 1..NSectors : PwriteCall(t, offset, length)
  BY <1>1, PwriteCallLogs
<1>2. CASE \E offset \in Sectors, length \in 1..NSectors : DiscardCall(t, offset, length)
  BY <1>2, DiscardCallLogs
<1>3. CASE \/ \E offset \in Sectors, length \in 1..NSectors : PreadCall(t, offset, length)
           \/ PreadSegment(t) \/ PreadSegmentFails(t) \/ PreadMore(t) \/ PreadReturn(t)
  BY <1>3, PreadLogs
<1>4. CASE PwriteAppend(t) \/ AppendIndex(t) \/ LogMapping(t) \/ FlushGroup(t)
  BY <1>4, PwriteAppendLogs, AppendIndexLogs, LogMappingLogs, FlushGroupLogs
<1>5. CASE FsyncCall(t) \/ FsyncFlush(t) \/ FsyncData(t) \/ FsyncIndex(t)
  BY <1>5, FsyncCallLogs, FsyncFlushLogs, FsyncDataLogs, FsyncIndexLogs
<1>6. CASE (\E size \in GroupSizes : GroupCall(t, size)) \/ GroupFlush(t)
  BY <1>6, GroupCallLogs, GroupFlushLogs
<1> QED
  BY <1>1, <1>2, <1>3, <1>4, <1>5, <1>6 DEF ThreadStep

\* The contents a log shows are the history's as far as the log goes.
LEMMA ReopenedContent ==
  ASSUME IInv, LogOK(Sound, findex, data, versions), History(versions), Loadable, NEW s \in Sound,
         1 + Total(findex, s) <= Len(versions[s])
  PROVE  ContentIn(data, Replay(findex), s) = versions[s][1 + Total(findex, s)]
<1>1. findex \in Seq(Logged) /\ Len(findex) \in Nat /\ data \in Seq(Cells) /\ s \in Sectors
  BY LogTypes, KnownOld DEF Sound
<1>2. /\ \A i \in 1..Len(findex) : Backed(findex[i], Len(data))
      /\ IndexOK(Replay(findex), Len(data)) /\ Shown(findex, Len(findex), Replay(findex), s)
  BY <1>1, Reopened
<1>3. CASE /\ Places(Replay(findex), s) = {}
           /\ \A j \in 1..Len(findex) : ~Covers(findex[j], s)
  <2>1. ContentIn(data, Replay(findex), s) = Zeros
    <3>1. \A x \in Replay(findex) : ~Covers(x, s)
      BY <1>3 DEF Places
    <3> QED
      BY <3>1, <1>1, ContentHole
  <2>2. Total(findex, s) = 0
    <3>1. Cover(findex, 0, s) = 0
      BY CoverNone
    <3>2. \A j \in (0 + 1)..Len(findex) : ~Covers(findex[j], s)
      BY <1>3
    <3>3. Cover(findex, 0, s) = Cover(findex, Len(findex), s)
      BY <3>2, <1>1, CoverMore
    <3> QED
      BY <3>1, <3>3 DEF Total
  <2>3. versions[s][1] = Zeros
    BY DEF LogOK
  <2> QED
    BY <2>1, <2>2, <2>3
<1>4. ASSUME NEW j \in 1..Len(findex), Covers(findex[j], s),
             Places(Replay(findex), s) = {Place(findex[j], s)},
             \A k \in (j + 1)..Len(findex) : ~Covers(findex[k], s)
      PROVE  ContentIn(data, Replay(findex), s) = versions[s][1 + Total(findex, s)]
  <2>1. findex[j] \in Requests
    BY <1>1, <1>4, CoversRequest
  <2>2. Place(findex[j], s) \in Places(Replay(findex), s)
    BY <1>4
  <2>3. ContentIn(data, Replay(findex), s) = ValueIn(data, findex[j], s)
    BY <2>1, <2>2, <1>1, <1>2, <1>4, ContentOfPlace
  <2>4. Cover(findex, j, s) = Total(findex, s)
    BY <1>1, <1>4, CoverMore DEF Total
  <2>5. versions[s][1 + Cover(findex, j, s)] = ValueIn(data, findex[j], s)
    BY <1>2, <1>4 DEF LogOK
  <2> QED
    BY <2>3, <2>4, <2>5
<1> QED
  BY <1>2, <1>3, <1>4 DEF Shown

\* The log of a file that is not open is what is in the log file.
LEMMA QuietLog ==
  ASSUME IInv, state # "open"
  PROVE  Log = findex /\ \A t \in Threads : op[t].step = "idle"
<1>1. stacked = << >> /\ findex \in Seq(Logged) /\ \A t \in Threads : op[t] = Idle
  BY LogTypes DEF IInv, Quiet
<1> QED
  BY <1>1, NoBuffer DEF Log, Idle

\* The history of an open file has all that is logged.
LEMMA HistoryHasLog ==
  ASSUME IInv, RInv, HInv, state = "open", NEW s \in Sound
  PROVE  /\ Total(findex, s) \in Nat /\ Total(Log, s) \in Nat /\ Len(versions[s]) \in Nat
         /\ Total(findex, s) <= Total(Log, s) /\ 1 + Total(Log, s) <= Len(versions[s])
<1>1. /\ s \in Sectors /\ Total(Log, s) \in Nat /\ Len(versions[s]) \in Nat
      /\ 1 + Total(Log, s) <= Len(versions[s])
  BY SettledAt
<1> QED
  BY <1>1, LogTypes, LogGrows

\* A file that is closed, crashed or loses power, with what its log must have.
LEMMA DownLogs ==
  ASSUME Forget, state' # "open", IInv', LogOK(Sound', findex', data', versions'),
         /\ done' \in [Sectors -> Nat] /\ floor' \in [Sectors -> Nat]
         /\ synced' \in [Sectors -> Nat],
         findex_synced' <= Len(findex'),
         \A s \in Sound' : /\ floor'[s] <= 1 + Total(findex', s)
                           /\ synced'[s] <= 1 + Cover(findex', findex_synced', s)
                           /\ 1 + Total(findex', s) <= Len(versions'[s])
  PROVE  HInv'
<1>1. stacked' = << >> /\ \A t \in Threads : op'[t].step = "idle"
  BY DEF Forget, Idle
<1>2. Log' = findex'
  <2>1. findex' \in Seq(Logged)
    BY DEF IInv, Types
  <2> QED
    BY <2>1, <1>1, NoBuffer DEF Log
<1>3. Settled' /\ Kept'
  BY DEF Settled, Kept
<1>4. Counts' /\ Grouped'
  BY <1>1 DEF Counts, Grouped, Stamped, Changing, InIndex, FsyncSteps
<1>5. Acked'
  BY <1>1 DEF Acked, Claims
<1> QED
  BY <1>2, <1>3, <1>4, <1>5 DEF HInv

\* close()
LEMMA CloseLogs ==
  ASSUME IInv, RInv, HInv, IInv', Close
  PROVE  HInv'
<1>1. /\ state = "open" /\ state' = "down" /\ Forget /\ floor' = done
      /\ UNCHANGED <<data, findex_synced, versions, done, synced>> /\ stacked' = << >>
  BY DEF Close, Down, Forget
<1>3. /\ Log \in Seq(Logged) /\ \A i \in 1..Len(Log) : Backed(Log[i], Len(data))
      /\ findex \in Seq(Logged) /\ Len(findex) \in Nat /\ data \in Seq(Cells) /\ Len(data) \in Nat
      /\ findex_synced \in Nat /\ Extends(findex, Log)
  BY <1>1, LogTypes, KnownOld
<1>4. History(versions) /\ \A s \in Sectors : Extends(versions[s], versions[s])
  <2>1. History(versions)
    BY DEF RInv, HistoryOK
  <2> QED
    BY <2>1, ExtendsSame DEF History
<1>2. /\ findex' \in Seq(Logged) /\ Extends(findex, findex') /\ spoiled \subseteq spoiled'
      /\ \A s \in Sound' : Total(findex', s) = Total(Log, s)
      /\ LogOK(Sound', findex', data, versions)
  <2>1. CASE findex' = (IF stacked = << >> THEN findex ELSE findex \o Padded) /\ UNCHANGED spoiled
    <3>1. /\ findex' \in Seq(Logged) /\ SameLog(Log, findex') /\ Extends(findex, findex')
          /\ \A s \in Sectors : Total(findex', s) = Total(Log, s)
      BY <2>1, <1>1, CommitLog
    <3>2. Sound' = Sound /\ Sound \in SUBSET Sectors
      BY <2>1 DEF Sound
    <3>3. LogOK(Sound, findex', data, versions)
      BY <3>1, <3>2, <1>3, <1>4, ExtendsSame, LogKept DEF HInv
    <3> QED
      BY <3>1, <3>2, <3>3, <2>1
  <2>2. CASE UNCHANGED findex /\ Spoil({stacked[i] : i \in 1..Len(stacked)})
    <3>1. /\ spoiled \subseteq spoiled'
          /\ \A s \in Sectors, i \in 1..Len(stacked) : Covers(stacked[i], s) => s \in spoiled'
      BY <2>2 DEF Spoil
    <3>2. Sound' \subseteq Sound /\ Sound \in SUBSET Sectors /\ Sound' \in SUBSET Sectors
      BY <3>1, StillSound
    <3>3. ASSUME NEW s \in Sound' PROVE Total(findex, s) = Total(Log, s)
      <4>1. s \in Sectors /\ \A i \in 1..Len(stacked) : ~Covers(stacked[i], s)
        BY <3>1 DEF Sound
      <4>2. /\ Len(Log) \in Nat /\ Len(findex) <= Len(Log)
            /\ \A i \in 1..Len(findex) : Log[i] = findex[i]
        BY <1>3 DEF Extends
      <4>3. ASSUME NEW i \in (Len(findex) + 1)..Len(Log) PROVE ~Covers(Log[i], s)
        <5>1. i - Len(findex) \in 1..Len(stacked) /\ Log[i] = stacked[i - Len(findex)]
          BY LogTypes, JoinedOK DEF Log
        <5> QED
          BY <5>1, <4>1
      <4>4. SameLog(findex, Log) => Total(Log, s) = Total(findex, s)
        BY <4>1, <1>3, LogGrows
      <4>5. Cover(Log, Len(findex), s) = Cover(findex, Len(findex), s)
        BY <4>1, <1>3, LogGrows
      <4>6. Cover(Log, Len(findex), s) = Cover(Log, Len(Log), s)
        BY <4>2, <4>3, <1>3, CoverMore
      <4> QED
        BY <4>5, <4>6 DEF Total
    <3>4. LogOK(Sound', findex, data, versions)
      <4>1. LogOK(Sound, findex, data, versions)
        BY <3>2, <1>3, ExtendsSame, LogCut DEF HInv
      <4> QED
        BY <4>1, <3>2, LogFewer
    <3> QED
      BY <3>1, <3>3, <3>4, <2>2, <1>3, ExtendsSame
  <2> QED
    BY <2>1, <2>2 DEF Close
<1>6. findex_synced <= Len(findex) /\ Len(findex) <= Len(findex') /\ Len(findex') \in Nat
  BY <1>2 DEF HInv, Acked, Extends
<1>7. ASSUME NEW s \in Sound'
      PROVE  /\ done[s] <= 1 + Total(findex', s)
             /\ synced[s] <= 1 + Cover(findex', findex_synced, s)
             /\ 1 + Total(findex', s) <= Len(versions[s])
  <2>0. s \in Sound /\ s \in Sectors
    BY <1>2, StillSound
  <2>1. Total(findex', s) = Total(Log, s)
    BY <1>2
  <2>2. done[s] <= 1 + Total(Log, s) /\ synced[s] <= 1 + Cover(findex, findex_synced, s)
    BY <2>0, <1>1 DEF HInv, Acked
  <2>3. Cover(findex', findex_synced, s) = Cover(findex, findex_synced, s)
    BY <2>0, <1>2, <1>3, <1>6, LogGrows
  <2>4. 1 + Total(Log, s) <= Len(versions[s])
    BY <2>0, <1>1, HistoryHasLog
  <2> QED
    BY <2>1, <2>2, <2>3, <2>4
<1>8. done \in [Sectors -> Nat] /\ synced \in [Sectors -> Nat] /\ findex_synced <= Len(findex')
  BY <1>3, <1>6 DEF HInv, Counts
<1> QED
  BY <1>1, <1>2, <1>7, <1>8, DownLogs

\* The server dies, or is lost in its buffer.
LEMMA CrashLogs ==
  ASSUME IInv, RInv, HInv, IInv', Crash \/ Overruns
  PROVE  HInv'
<1>1. /\ state = "open" /\ state' # "open" /\ Forget
      /\ UNCHANGED <<data, findex, findex_synced, versions, done, floor, synced, spoiled>>
  BY DEF Crash, Overruns, StoreOverruns, ResizeOverruns, At, Down, diskVars, histVars
<1>2. /\ Log \in Seq(Logged) /\ findex \in Seq(Logged) /\ Extends(findex, Log)
      /\ data \in Seq(Cells) /\ Len(data) \in Nat
  BY LogTypes, KnownOld
<1>s. Sound' = Sound /\ Sound \in SUBSET Sectors
  BY <1>1 DEF Sound
<1>3. LogOK(Sound, findex, data, versions)
  BY <1>2, <1>s, ExtendsSame, LogCut DEF HInv
<1>4. ASSUME NEW s \in Sound
      PROVE  /\ floor[s] <= 1 + Total(findex, s)
             /\ synced[s] <= 1 + Cover(findex, findex_synced, s)
             /\ 1 + Total(findex, s) <= Len(versions[s])
  <2>1. floor[s] <= 1 + Total(findex, s) /\ synced[s] <= 1 + Cover(findex, findex_synced, s)
    BY DEF HInv, Acked
  <2>2. 1 + Total(findex, s) <= Len(versions[s])
    BY <1>1, HistoryHasLog
  <2> QED
    BY <2>1, <2>2
<1>5. /\ done \in [Sectors -> Nat] /\ floor \in [Sectors -> Nat] /\ synced \in [Sectors -> Nat]
      /\ findex_synced <= Len(findex)
  BY DEF HInv, Counts, Acked
<1> QED
  BY <1>1, <1>s, <1>3, <1>4, <1>5, DownLogs

\* The first part of a sequence.
LEMMA Prefix ==
  ASSUME NEW S, NEW a \in Seq(S), NEW n \in Nat, n <= Len(a)
  PROVE  /\ SubSeq(a, 1, n) \in Seq(S) /\ Len(SubSeq(a, 1, n)) = n
         /\ Extends(SubSeq(a, 1, n), a)
<1> DEFINE b == SubSeq(a, 1, n)
<1>1. b \in Seq(S) /\ Len(b) = n /\ \A i \in 1..n : b[i] = a[i]
  OBVIOUS
<1> HIDE DEF b
<1>2. Extends(b, a)
  BY <1>1 DEF Extends
<1> QED
  BY <1>1, <1>2 DEF b

\* Power is lost.
LEMMA LosePowerLogs ==
  ASSUME IInv, RInv, HInv, IInv', LosePower
  PROVE  HInv'
<1>1. /\ state = "open" /\ state' = "lost" /\ Forget /\ floor' = synced
      /\ UNCHANGED <<findex_synced, versions, done, synced, spoiled>>
  BY DEF LosePower, Down
<1>s. Sound' = Sound /\ Sound \in SUBSET Sectors
  BY <1>1 DEF Sound
<1>2. /\ Log \in Seq(Logged) /\ findex \in Seq(Logged) /\ Extends(findex, Log)
      /\ data \in Seq(Cells) /\ Len(data) \in Nat /\ Len(findex) \in Nat /\ Len(Log) \in Nat
      /\ data_synced \in Nat /\ findex_synced \in Nat
  BY LogTypes, KnownOld
<1>3. data' \in Seq(Cells) /\ Extends(data', data)
  <2>1. PICK n \in data_synced..Len(data) : data' = SubSeq(data, 1, n)
    BY DEF LosePower
  <2>2. n \in Nat /\ n <= Len(data)
    BY <1>2
  <2> QED
    BY <2>1, <2>2, <1>2, Prefix
<1>4. /\ findex' \in Seq(Logged) /\ Extends(findex', findex) /\ findex_synced <= Len(findex')
      /\ Len(findex') \in Nat
  <2>1. PICK n \in findex_synced..Len(findex) : findex' = SubSeq(findex, 1, n)
    BY DEF LosePower
  <2>2. n \in Nat /\ n <= Len(findex) /\ findex_synced <= n
    BY <1>2
  <2> QED
    BY <2>1, <2>2, <1>2, Prefix
<1>5. Extends(findex', Log)
  <2>1. Len(findex') <= Len(findex) /\ Len(findex) <= Len(Log)
    BY <1>2, <1>4 DEF Extends
  <2>2. ASSUME NEW i \in 1..Len(findex') PROVE Log[i] = findex'[i]
    <3>1. i \in 1..Len(findex)
      BY <2>1, <1>2, <1>4
    <3> QED
      BY <3>1, <1>2, <1>4 DEF Extends
  <2> QED
    BY <2>1, <2>2, <1>2, <1>4 DEF Extends
<1>6. LogOK(Sound, findex', data', versions)
  BY <1>2, <1>3, <1>4, <1>5, <1>s, LogCut DEF HInv
<1>7. ASSUME NEW s \in Sound
      PROVE  /\ synced[s] <= 1 + Total(findex', s)
             /\ synced[s] <= 1 + Cover(findex', findex_synced, s)
             /\ 1 + Total(findex', s) <= Len(versions[s])
  <2>0. s \in Sectors
    BY <1>s
  <2>1. synced[s] \in Nat /\ synced[s] <= 1 + Cover(findex, findex_synced, s)
    BY <2>0 DEF HInv, Acked, Counts
  <2>2. Cover(findex, findex_synced, s) = Cover(findex', findex_synced, s)
    BY <2>0, <1>2, <1>4, LogGrows
  <2>3. /\ Cover(findex', findex_synced, s) \in Nat /\ Total(findex', s) \in Nat
        /\ Cover(findex', findex_synced, s) <= Total(findex', s)
    BY <1>2, <1>4, CoverNat, CoverMore DEF Total
  <2>4. Total(findex', s) <= Total(findex, s) /\ Total(findex, s) \in Nat
    BY <2>0, <1>2, <1>4, LogGrows
  <2>5. 1 + Total(findex, s) <= Len(versions[s]) /\ Len(versions[s]) \in Nat
    BY <1>1, HistoryHasLog
  <2> QED
    BY <2>1, <2>2, <2>3, <2>4, <2>5
<1>8. done \in [Sectors -> Nat] /\ synced \in [Sectors -> Nat]
  BY DEF HInv, Counts
<1> QED
  BY <1>1, <1>s, <1>4, <1>6, <1>7, <1>8, DownLogs

\* The history of a file that opens: what its log has.
LEMMA ReopenHistory ==
  ASSUME IInv, RInv, HInv, state \in {"down", "lost"}, Loadable,
         mapping' = Replay(findex), data' = data,
         versions' = [s \in Sectors |-> Append(FirstN(versions[s], Logs(findex, s)),
                                              Content(mapping', s))]
  PROVE  \A s \in Sound :
           /\ Total(findex, s) \in Nat /\ Len(versions'[s]) = 1 + Total(findex, s)
           /\ \A i \in 1..(1 + Total(findex, s)) : versions'[s][i] = versions[s][i]
<1> SUFFICES ASSUME NEW s \in Sound
             PROVE  /\ Total(findex, s) \in Nat /\ Len(versions'[s]) = 1 + Total(findex, s)
                    /\ \A i \in 1..(1 + Total(findex, s)) : versions'[s][i] = versions[s][i]
  OBVIOUS
<1>0. s \in Sectors
  BY DEF Sound
<1>1. /\ findex \in Seq(Logged) /\ Len(findex) \in Nat /\ data \in Seq(Cells) /\ Log = findex
      /\ versions[s] \in Seq(Cells) /\ History(versions)
  BY <1>0, LogTypes, KnownOld, QuietLog DEF RInv, HistoryOK, History
<1>2. 1 + Total(findex, s) <= Len(versions[s])
  BY DEF HInv, Kept
<1>3. PICK n \in Nat : n = Total(findex, s)
  BY <1>1, CoverNat DEF Total
<1>4. PICK c \in Cells : c = ContentIn(data, Replay(findex), s)
  <2>1. IndexOK(Replay(findex), Len(data))
    BY Reopened
  <2> QED
    BY <2>1, <1>0, <1>1, ContentCell
<1>5. c = versions[s][1 + n]
  BY <1>1, <1>2, <1>3, <1>4, ReopenedContent DEF HInv
<1>6. versions'[s] = Restarted(versions[s], n, c)
  <2>1. Logs(findex, s) = n
    BY <1>3, LogsCover DEF Total
  <2>2. Content(Replay(findex), s) = c
    BY <1>4 DEF Content, ContentIn
  <2>3. Content(mapping', s) = Content(Replay(findex), s)
    OBVIOUS
  <2>4. versions'[s] = Append(FirstN(versions[s], Logs(findex, s)), Content(mapping', s))
    BY <1>0
  <2> QED
    BY <2>1, <2>2, <2>3, <2>4 DEF Restarted
<1>7. PICK v \in Seq(Cells) : v = versions[s]
  BY <1>1
<1>8. PICK w \in Seq(Cells) :
        /\ w = Restarted(v, n, c) /\ Len(w) \in Nat /\ Len(w) > 0 /\ w[Len(w)] = c
        /\ n <= Len(v) => Len(w) = n + 1 /\ \A i \in 1..n : w[i] = v[i]
  BY RestartedOK, Zenon
<1>9. n <= Len(v) /\ Len(v) \in Nat
  BY <1>2, <1>3, <1>7
<1>10. /\ w = versions'[s] /\ Len(w) = n + 1 /\ w[n + 1] = v[1 + n]
       /\ \A i \in 1..n : w[i] = v[i]
  BY <1>5, <1>6, <1>7, <1>8, <1>9
<1>11. \A i \in 1..(1 + n) : w[i] = v[i]
  <2> SUFFICES ASSUME NEW i \in 1..(1 + n)
               PROVE  w[i] = v[i]
    OBVIOUS
  <2>1. i \in 1..n \/ (i = n + 1 /\ i = 1 + n)
    OBVIOUS
  <2>2. CASE i \in 1..n
    BY <2>2, <1>10, Zenon
  <2>3. CASE i = n + 1 /\ i = 1 + n
    BY <2>3, <1>10, Zenon
  <2> QED
    BY <2>1, <2>2, <2>3
<1>12. Len(w) = 1 + n
  BY <1>10
<1> QED
  BY <1>3, <1>7, <1>10, <1>11, <1>12, Zenon

\* open_file_rw()
LEMMA ReopenLogs ==
  ASSUME IInv, RInv, HInv, IInv', RInv', Reopen
  PROVE  HInv'
<1>1. /\ state \in {"down", "lost"} /\ UNCHANGED <<stacked, group, op, data, findex, findex_synced>>
      /\ Log = findex /\ Log' = findex /\ \A t \in Threads : op'[t].step = "idle"
      /\ Sound' = Sound
  <2>1. /\ state \in {"down", "lost"} /\ UNCHANGED <<stacked, group, op, data, findex, findex_synced>>
        /\ UNCHANGED spoiled
    BY DEF Reopen, diskVars, histVars
  <2>2. Log = findex /\ \A t \in Threads : op[t].step = "idle"
    BY <2>1, QuietLog
  <2> QED
    BY <2>1, <2>2 DEF Log, Sound
<1>2. Grouped' /\ \A t \in Threads : Stamped(op'[t]) /\ Claims(op'[t], findex', Log', Sound')
  BY <1>1 DEF HInv, Grouped, Stamped, Claims, Changing, InIndex, FsyncSteps
<1>3. CASE /\ Loadable /\ state' = "open" /\ mapping' = Replay(findex)
           /\ versions' = [s \in Sectors |-> Append(FirstN(versions[s], Logs(findex, s)),
                                                   Content(mapping', s))]
           /\ done' = [s \in Sectors |-> Len(versions'[s])] /\ floor' = done'
           /\ UNCHANGED synced
  <2>1. ASSUME NEW s \in Sound
        PROVE  /\ Total(findex, s) \in Nat /\ Len(versions'[s]) = 1 + Total(findex, s)
               /\ \A i \in 1..(1 + Total(findex, s)) : versions'[s][i] = versions[s][i]
    BY <1>1, <1>3, ReopenHistory
  <2>2. findex \in Seq(Logged) /\ Len(findex) \in Nat
    BY LogTypes
  <2>3. LogOK(Sound, findex, data, versions')
    <3>1. ASSUME NEW s \in Sound PROVE versions'[s][1] = Zeros
      <4>1. versions[s][1] = Zeros
        BY DEF HInv, LogOK
      <4>2. 1 \in 1..(1 + Total(findex, s))
        BY <2>1
      <4> QED
        BY <4>1, <4>2, <2>1
    <3>2. ASSUME NEW s \in Sound, NEW i \in 1..Len(findex), Covers(findex[i], s),
                 Backed(findex[i], Len(data))
          PROVE  /\ 1 + Cover(findex, i, s) <= Len(versions'[s])
                 /\ versions'[s][1 + Cover(findex, i, s)] = ValueIn(data, findex[i], s)
      <4>1. versions[s][1 + Cover(findex, i, s)] = ValueIn(data, findex[i], s)
        BY <3>2, <1>1 DEF HInv, LogOK
      <4>2. Cover(findex, i, s) \in Nat /\ Cover(findex, i, s) <= Total(findex, s)
        BY <2>2, CoverNat, CoverMore DEF Total
      <4>3. 1 + Cover(findex, i, s) \in 1..(1 + Total(findex, s))
        BY <4>2, <2>1
      <4> QED
        BY <4>1, <4>2, <4>3, <2>1
    <3> QED
      BY <3>1, <3>2 DEF LogOK
  <2>4. Settled'
    <3>1. ASSUME NEW s \in Sound, NEW k \in (2 + Total(findex, s))..Len(versions'[s]) PROVE FALSE
      BY <3>1, <2>1
    <3>2. \A s \in Sound : 1 + Total(findex, s) <= Len(versions'[s])
      BY <2>1
    <3> QED
      BY <3>1, <3>2, <1>1 DEF Settled, PendingOn, Pending
  <2>5. ASSUME NEW s \in Sound
        PROVE  /\ done'[s] = 1 + Total(findex, s)
               /\ synced[s] <= 1 + Cover(findex, findex_synced, s)
    <3>1. s \in Sectors
      BY DEF Sound
    <3> QED
      BY <3>1, <2>1, <1>3 DEF HInv, Acked
  <2>6. done' \in [Sectors -> Nat]
    <3>1. \A s \in Sectors : Len(versions'[s]) \in Nat
      BY DEF RInv, HistoryOK, History
    <3> QED
      BY <3>1, <1>3
  <2>7. Counts'
    BY <2>6, <1>2, <1>3 DEF HInv, Counts
  <2>8. Acked'
    <3>1. findex_synced <= Len(findex)
      BY DEF HInv, Acked
    <3>2. \A s \in Sound : done'[s] <= 1 + Total(findex, s)
      BY <2>1, <2>5
    <3> QED
      BY <3>1, <3>2, <2>5, <1>1, <1>2, <1>3 DEF Acked
  <2>9. Kept'
    BY <1>3 DEF Kept
  <2> QED
    BY <2>3, <2>4, <2>7, <2>8, <2>9, <1>1, <1>2 DEF HInv
<1>4. CASE state' = "broken" /\ UNCHANGED histVars
  <2>1. UNCHANGED <<versions, done, floor, synced>>
    BY <1>4 DEF histVars
  <2>2. LogOK(Sound', Log', data', versions') /\ Settled'
    BY <2>1, <1>1, <1>4 DEF HInv, Settled
  <2>3. Counts' /\ Acked'
    BY <2>1, <1>1, <1>2, <1>4 DEF HInv, Counts, Acked
  <2>4. Kept'
    BY <2>1, <1>1, <1>4 DEF HInv, Kept
  <2> QED
    BY <2>2, <2>3, <2>4, <1>2 DEF HInv
<1> QED
  BY <1>3, <1>4 DEF Reopen

\* A new file has nothing logged, and nothing but zeros.
LEMMA LogsInit == Init => HInv
<1> SUFFICES ASSUME Init PROVE HInv
  OBVIOUS
<1>1. /\ findex = << >> /\ stacked = << >> /\ findex_synced = 0 /\ state = "open"
      /\ \A t \in Threads : op[t].step = "idle"
  BY DEF Init, Idle
<1>2. Log = << >> /\ Len(Log) = 0
  <2>1. << >> \in Seq(Logged)
    OBVIOUS
  <2> QED
    BY <2>1, <1>1, NoBuffer DEF Log
<1>3. \A s \in Sectors : Total(findex, s) = 0 /\ Total(Log, s) = 0 /\ Cover(findex, 0, s) = 0
  BY <1>1, <1>2, CoverNone DEF Total
<1>4. ASSUME NEW s \in Sectors
      PROVE  /\ Len(versions[s]) = 1 /\ versions[s][1] = Zeros
             /\ done[s] = 1 /\ floor[s] = 1 /\ synced[s] = 1
  <2>1. versions[s] = <<Zeros>> /\ done[s] = 1 /\ floor[s] = 1 /\ synced[s] = 1
    BY DEF Init
  <2> QED
    BY <2>1
<1>5. done \in [Sectors -> Nat] /\ floor \in [Sectors -> Nat] /\ synced \in [Sectors -> Nat]
  BY DEF Init
<1>s. Sound \in SUBSET Sectors
  BY DEF Sound
<1>6. LogOK(Sound, Log, data, versions)
  BY <1>2, <1>4, <1>s DEF LogOK
<1>7. Settled
  <2>1. ASSUME NEW s \in Sound
        PROVE  /\ 1 + Total(Log, s) <= Len(versions[s])
               /\ (2 + Total(Log, s))..Len(versions[s]) = {}
    <3>1. Total(Log, s) = 0 /\ Len(versions[s]) = 1
      BY <1>3, <1>4, <1>s
    <3> QED
      BY <3>1
  <2> QED
    BY <2>1, <1>1 DEF Settled, PendingOn, Pending
<1>8. Counts /\ Grouped /\ Kept
  BY <1>1, <1>5 DEF Counts, Grouped, Kept, Stamped, Changing, InIndex, FsyncSteps
<1>9. Acked
  BY <1>1, <1>3, <1>4, <1>s DEF Acked, Claims
<1> QED
  BY <1>6, <1>7, <1>8, <1>9 DEF HInv

\* Every step keeps the invariant of lost writes.
LEMMA LogsNext == IInv /\ RInv /\ HInv /\ Queued /\ [Next]_vars => HInv'
<1> SUFFICES ASSUME IInv, RInv, HInv, Queued, [Next]_vars PROVE HInv'
  OBVIOUS
<1>1. IInv' /\ RInv'
  BY NextOK, RecordsNext
<1>2. CASE UNCHANGED vars
  <2>1. /\ UNCHANGED <<state, stacked, group, op, data, findex, findex_synced>>
        /\ UNCHANGED <<versions, done, floor, synced, queue>> /\ Log' = Log /\ Sound' = Sound
    BY <1>2 DEF vars, memVars, diskVars, histVars, Log, Sound
  <2>2. LogOK(Sound', Log', data', versions') /\ Settled'
    BY <2>1 DEF HInv, Settled
  <2>3. Counts' /\ Grouped' /\ Acked' /\ Kept'
    BY <2>1 DEF HInv, Counts, Grouped, Acked, Kept
  <2> QED
    BY <2>2, <2>3 DEF HInv
<1>3. ASSUME NEW t \in Threads, ThreadStep(t) PROVE HInv'
  <2>1. Moves(t) /\ Records(t) /\ QueueStep(t)
    BY <1>3, ThreadMoves, ThreadRecords, ThreadQueue
  <2> QED
    BY <2>1, <1>1, <1>3, ThreadLogs, LogStepOK
<1> QED
  BY <1>1, <1>2, <1>3, CloseLogs, CrashLogs, LosePowerLogs, ReopenLogs, NextSplit

\* What the invariant says of a file that can be opened.
LEMMA LogsKeep == IInv /\ RInv /\ HInv => NoLostWrite
<1> SUFFICES ASSUME IInv, RInv, HInv, state \in {"down", "lost"}, Loadable, NEW s \in Sound
             PROVE  \E k \in floor[s]..Len(versions[s]) :
                      Content(Replay(findex), s) = versions[s][k]
  BY DEF NoLostWrite, Sound
<1>0. s \in Sectors
  BY DEF Sound
<1>1. Log = findex /\ Len(findex) \in Nat /\ History(versions)
  BY QuietLog, LogTypes DEF RInv, HistoryOK
<1>2. /\ Total(findex, s) \in Nat /\ floor[s] \in Nat /\ Len(versions[s]) \in Nat
      /\ floor[s] <= 1 + Total(findex, s) /\ 1 + Total(findex, s) <= Len(versions[s])
  <2>1. Total(findex, s) \in Nat
    BY <1>1, CoverNat DEF Total
  <2> QED
    BY <2>1, <1>0, <1>1 DEF HInv, Counts, Acked, Kept, History
<1>3. ContentIn(data, Replay(findex), s) = versions[s][1 + Total(findex, s)]
  BY <1>1, <1>2, ReopenedContent DEF HInv
<1>4. Content(Replay(findex), s) = ContentIn(data, Replay(findex), s)
  BY DEF Content, ContentIn
<1>5. 1 + Total(findex, s) \in floor[s]..Len(versions[s])
  BY <1>2
<1> QED
  BY <1>3, <1>4, <1>5

\* No acknowledged write or discard is lost, and no older contents come back, when the
\* file was closed or its server died, and after a power loss none that fsync()
\* followed; whatever the size of the groups, and when it changes, however requests
\* overlap, and which I/O fails, and how often: but for the sectors of a mapping that
\* append_index() or close() could not write, and said nothing, and of a discard that
\* overtook a write.
THEOREM NothingLost == Spec => []NoLostWrite
<1> DEFINE Inv == IInv /\ RInv /\ HInv /\ Queued
<1>1. Init => Inv
  BY InitOK, RecordsInit, LogsInit, QueuedInit
<1>2. Inv /\ [Next]_vars => Inv'
  BY NextOK, RecordsNext, LogsNext, QueuedNext
<1>3. Inv => NoLostWrite
  BY LogsKeep
<1> QED
  BY <1>1, <1>2, <1>3, PTL DEF Spec

-----------------------------------------------------------------------------
(* The counts *)

\* What is on disk is older than what a file opened again must show, that older than
\* what was acknowledged, and that in the history; fsync() claims what was acknowledged.
Order ==
  /\ \A s \in Sound :
       /\ 1 <= synced[s] /\ synced[s] <= floor[s] /\ floor[s] <= done[s]
       /\ done[s] <= Len(versions[s])
  /\ \A t \in Threads : op[t].step \in FsyncSteps => \A s \in Sound : op[t].mark[s] <= done[s]

\* What an action of t does to the order of the counts.
OrderStep(t) ==
  /\ \A s \in Sound : /\ 1 <= synced'[s] /\ synced'[s] <= floor'[s] /\ floor'[s] <= done'[s]
                      /\ done[s] <= done'[s]
  /\ op'[t].step \in FsyncSteps => \A s \in Sound : op'[t].mark[s] <= done'[s]

\* A step of a thread keeps the order: what it acknowledges is in the history.
LEMMA OrderStepOK ==
  ASSUME IInv, HInv, RInv', HInv', Order, NEW t \in Threads, Moves(t), LogStep(t), OrderStep(t)
  PROVE  Order'
<1>1. state' = "open" /\ \A u \in Threads \ {t} : op'[u] = op[u]
  BY DEF Moves, Others
<1>s. Sound' \subseteq Sound /\ Sound \in SUBSET Sectors /\ Sound' \in SUBSET Sectors
  BY StillSound DEF LogStep
<1>2. ASSUME NEW s \in Sound' PROVE done'[s] <= Len(versions'[s])
  <2>0. s \in Sectors
    BY <1>s
  <2>1. done'[s] \in Nat /\ done'[s] <= 1 + Total(Log', s) /\ Total(Log', s) \in Nat
    BY <2>0, LogsGrow DEF LogStep, Acks
  <2>2. 1 + Total(Log', s) <= Len(versions'[s])
    BY <1>1 DEF HInv, Settled
  <2>3. Len(versions'[s]) \in Nat
    BY <2>0 DEF RInv, HistoryOK, History
  <2> QED
    BY <2>1, <2>2, <2>3
<1>3. ASSUME NEW u \in Threads, op'[u].step \in FsyncSteps, NEW s \in Sound'
      PROVE  op'[u].mark[s] <= done'[s]
  <2>0. s \in Sound /\ s \in Sectors
    BY <1>s
  <2>1. CASE u = t
    BY <2>0, <2>1, <1>3 DEF OrderStep
  <2>2. CASE u # t
    <3>1. op'[u] = op[u] /\ op[u].mark[s] <= done[s] /\ op[u].mark[s] \in Nat
      BY <2>0, <2>2, <1>1, <1>3, FsyncHas DEF Order
    <3>2. done[s] \in Nat /\ done'[s] \in Nat /\ done[s] <= done'[s]
      BY <2>0 DEF HInv, Counts, LogStep, Acks, OrderStep
    <3> QED
      BY <3>1, <3>2
  <2> QED
    BY <2>1, <2>2
<1>4. ASSUME NEW s \in Sound'
      PROVE  1 <= synced'[s] /\ synced'[s] <= floor'[s] /\ floor'[s] <= done'[s]
  BY <1>s DEF OrderStep
<1> QED
  BY <1>2, <1>3, <1>4 DEF Order

\* Counts that stay.
LEMMA SameOrder ==
  ASSUME HInv, Order, NEW t \in Threads, UNCHANGED <<done, floor, synced>>,
         op'[t].step \in FsyncSteps => \A s \in Sound : op'[t].mark[s] <= done[s]
  PROVE  OrderStep(t)
<1>1. \A s \in Sound : done[s] <= done[s]
  BY DEF HInv, Counts, Sound
<1> QED
  BY <1>1 DEF Order, OrderStep

\* A request that is acknowledged.
LEMMA AcknowledgeOrder ==
  ASSUME IInv, HInv, Order, NEW t \in Threads, op[t].step \in Changing, NEW grouped \in BOOLEAN,
         Acknowledge(t, grouped), op'[t].step \notin FsyncSteps
  PROVE  OrderStep(t)
<1> DEFINE latest(s) == IF Covers(op[t].m, s) /\ op[t].version[s] > done[s]
                        THEN op[t].version[s] ELSE done[s]
           low(s) == IF Covers(op[t].m, s) /\ ~grouped /\ latest(s) > floor[s]
                     THEN latest(s) ELSE floor[s]
<1>1. /\ done' = [s \in Sectors |-> latest(s)] /\ floor' = [s \in Sectors |-> low(s)]
      /\ synced' = synced
  BY DEF Acknowledge
<1>2. ASSUME NEW s \in Sound
      PROVE  /\ floor[s] \in Nat /\ synced[s] \in Nat /\ done[s] \in Nat
             /\ op[t].version[s] \in Nat
             /\ 1 <= synced[s] /\ synced[s] <= floor[s] /\ floor[s] <= done[s]
  BY DEF HInv, Counts, Stamped, Order, Sound
<1>3. ASSUME NEW s \in Sound
      PROVE  latest(s) \in Nat /\ done[s] <= latest(s)
  BY <1>2
<1> HIDE DEF latest
<1>4. ASSUME NEW s \in Sound
      PROVE  /\ low(s) \in Nat /\ floor[s] <= low(s) /\ low(s) <= latest(s)
  BY <1>2, <1>3
<1> HIDE DEF low
<1>5. ASSUME NEW s \in Sound PROVE done'[s] = latest(s) /\ floor'[s] = low(s)
  BY <1>1 DEF Sound
<1>6. ASSUME NEW s \in Sound
      PROVE  /\ 1 <= synced[s] /\ synced[s] <= low(s) /\ low(s) <= latest(s)
             /\ done[s] <= latest(s)
  BY <1>2, <1>3, <1>4
<1> QED
  BY <1>1, <1>5, <1>6 DEF OrderStep

\* fsync()
LEMMA FsyncOrder ==
  ASSUME IInv, HInv, Order, NEW t \in Threads,
         FsyncCall(t) \/ FsyncFlush(t) \/ FsyncData(t) \/ FsyncIndex(t)
  PROVE  OrderStep(t)
<1>0. \A s \in Sound : done[s] \in Nat
  BY DEF HInv, Counts, Sound
<1>1. CASE FsyncCall(t)
  <2> DEFINE r == [step |-> "fsync", mark |-> done]
  <2>1. op' = [op EXCEPT ![t] = r] /\ r.mark = done /\ UNCHANGED <<done, floor, synced>>
    BY <1>1 DEF FsyncCall, histVars
  <2> HIDE DEF r
  <2>2. op'[t].mark = done
    BY <2>1, SetOp
  <2> QED
    BY <2>1, <2>2, <1>0, SameOrder
<1>2. CASE FsyncFlush(t) \/ FsyncData(t)
  <2>1. /\ op[t].step \in FsyncSteps /\ UNCHANGED <<done, floor, synced>>
        /\ Return(t) \/ Goto(t, "fsync_data") \/ Goto(t, "fsync_index")
    BY <1>2 DEF FsyncFlush, FsyncData, At, FsyncSteps, histVars
  <2>2. CASE Return(t)
    BY <2>1, <2>2, Returning, SameOrder DEF FsyncSteps
  <2>3. ASSUME NEW g, Goto(t, g) PROVE OrderStep(t)
    <3>1. {"step", "mark"} \subseteq DOMAIN op[t] /\ op'[t] = [op[t] EXCEPT !.step = g]
      BY <2>1, <2>3, FsyncHas, Stepping
    <3>2. op'[t].mark = op[t].mark
      BY <3>1
    <3>3. \A s \in Sound : op[t].mark[s] <= done[s]
      BY <2>1 DEF Order
    <3> QED
      BY <3>2, <3>3, <2>1, SameOrder
  <2> QED
    BY <2>1, <2>2, <2>3
<1>3. CASE FsyncIndex(t)
  <2> DEFINE low(s) == Later(op[t].mark[s], floor[s])
             sure(s) == Later(op[t].mark[s], synced[s])
  <2>1. /\ op[t].step \in FsyncSteps /\ Return(t) /\ done' = done
        /\ floor' = [s \in Sectors |-> low(s)]
        /\ synced' = [s \in Sectors |-> sure(s)] \/ synced' = synced
    BY <1>3 DEF FsyncIndex, At, FsyncSteps
  <2>2. ASSUME NEW s \in Sound
        PROVE  /\ 1 <= sure(s) /\ sure(s) <= low(s) /\ low(s) <= done[s] /\ done[s] <= done[s]
               /\ 1 <= synced[s] /\ synced[s] <= low(s)
    <3>1. /\ op[t].mark[s] \in Nat /\ op[t].mark[s] <= done[s]
          /\ floor[s] \in Nat /\ synced[s] \in Nat /\ done[s] \in Nat
          /\ 1 <= synced[s] /\ synced[s] <= floor[s] /\ floor[s] <= done[s]
      BY <2>1, FsyncHas DEF HInv, Counts, Order, Sound
    <3> QED
      BY <3>1 DEF Later
  <2> HIDE DEF low, sure
  <2>3. ASSUME NEW s \in Sound PROVE floor'[s] = low(s) /\ synced'[s] \in {sure(s), synced[s]}
    BY <2>1 DEF Sound
  <2>4. op'[t].step \notin FsyncSteps
    BY <2>1, Returning DEF FsyncSteps
  <2> QED
    BY <2>1, <2>2, <2>3, <2>4 DEF OrderStep
<1> QED
  BY <1>1, <1>2, <1>3

\* Every action of a thread.
LEMMA ThreadOrder ==
  ASSUME IInv, HInv, Order, NEW t \in Threads, ThreadStep(t)
  PROVE  OrderStep(t)
<1>1. CASE FsyncCall(t) \/ FsyncFlush(t) \/ FsyncData(t) \/ FsyncIndex(t)
  BY <1>1, FsyncOrder
<1>2. CASE ~(FsyncCall(t) \/ FsyncFlush(t) \/ FsyncData(t) \/ FsyncIndex(t))
  <2>1. op'[t].step \notin FsyncSteps
    BY <1>2, CallsQueue, ChangesQueue, OthersQueue DEF ThreadStep
  <2>2. CASE UNCHANGED <<done, floor, synced>>
    BY <2>1, <2>2, SameOrder
  <2>3. ASSUME op[t].step \in Changing, Acknowledge(t, TRUE) \/ Acknowledge(t, FALSE)
        PROVE  OrderStep(t)
    BY <2>1, <2>3, AcknowledgeOrder
  <2>4. ASSUME \/ \E offset \in Sectors, length \in 1..NSectors :
                    \/ PwriteCall(t, offset, length) \/ DiscardCall(t, offset, length)
                    \/ PreadCall(t, offset, length)
               \/ PwriteAppend(t) \/ PreadSegment(t) \/ PreadSegmentFails(t) \/ PreadMore(t)
               \/ PreadReturn(t)
               \/ (\E size \in GroupSizes : GroupCall(t, size)) \/ GroupFlush(t)
        PROVE  UNCHANGED <<done, floor, synced>>
    BY <2>4 DEF PwriteCall, DiscardCall, PreadCall, PwriteAppend, PreadSegment,
                PreadSegmentFails, PreadMore, PreadReturn, GroupCall, GroupFlush, histVars
  <2>5. CASE AppendIndex(t)
    <3>1. op[t].step \in Changing
      BY <2>5 DEF AppendIndex, At, Changing, InIndex
    <3>2. UNCHANGED histVars \/ Acknowledge(t, TRUE)
      BY <2>5 DEF AppendIndex
    <3> QED
      BY <3>1, <3>2, <2>2, <2>3 DEF histVars
  <2>6. CASE LogMapping(t) \/ FlushGroup(t)
    <3>1. op[t].step \in Changing /\ (Acknowledge(t, TRUE) \/ Acknowledge(t, FALSE))
      BY <2>6 DEF LogMapping, FlushGroup, At, Changing, InIndex
    <3> QED
      BY <3>1, <2>3
  <2> QED
    BY <1>2, <2>2, <2>4, <2>5, <2>6 DEF ThreadStep
<1> QED
  BY <1>1, <1>2

\* Every step keeps the order.
LEMMA OrderNext == IInv /\ RInv /\ HInv /\ Queued /\ Order /\ [Next]_vars => Order'
<1> SUFFICES ASSUME IInv, RInv, HInv, Queued, Order, [Next]_vars PROVE Order'
  OBVIOUS
<1>1. RInv' /\ HInv'
  BY RecordsNext, LogsNext
<1>2. ASSUME NEW s \in Sound
      PROVE  /\ floor[s] \in Nat /\ synced[s] \in Nat /\ done[s] \in Nat
             /\ Len(versions[s]) \in Nat
             /\ 1 <= synced[s] /\ synced[s] <= floor[s] /\ floor[s] <= done[s]
             /\ done[s] <= Len(versions[s])
  BY DEF HInv, Counts, Order, RInv, HistoryOK, History, Sound
<1>3. CASE UNCHANGED vars
  BY <1>3 DEF vars, histVars, Order, Sound
<1>4. ASSUME NEW t \in Threads, ThreadStep(t) PROVE Order'
  <2>1. Moves(t) /\ Records(t)
    BY <1>4, ThreadMoves, ThreadRecords
  <2>2. LogStep(t) /\ OrderStep(t)
    BY <2>1, <1>4, ThreadLogs, ThreadOrder
  <2> QED
    BY <2>1, <2>2, <1>1, OrderStepOK
<1>5. CASE Overruns \/ Close \/ Crash \/ LosePower
  <2>1. /\ UNCHANGED <<versions, done, synced>> /\ floor' \in {done, floor, synced}
        /\ \A t \in Threads : op'[t].step = "idle"
        /\ Sound' \subseteq Sound
    BY <1>5 DEF Overruns, StoreOverruns, ResizeOverruns, Close, Crash, LosePower, Down, Forget, Idle,
                histVars, Spoil, Sound
  <2>2. ASSUME NEW s \in Sound'
        PROVE  /\ 1 <= synced[s] /\ synced[s] <= floor'[s] /\ floor'[s] <= done[s]
               /\ done[s] <= Len(versions[s])
    <3>1. floor'[s] \in {done[s], floor[s], synced[s]} /\ s \in Sound
      BY <2>1
    <3> QED
      BY <3>1, <1>2
  <2> QED
    BY <2>1, <2>2 DEF Order, FsyncSteps
<1>6. CASE Reopen
  <2>1. state \in {"down", "lost"} /\ op' = op /\ data' = data
    BY <1>6 DEF Reopen, diskVars
  <2>2. \A t \in Threads : op'[t].step = "idle"
    BY <2>1, QuietLog
  <2>3. CASE /\ Loadable /\ mapping' = Replay(findex)
             /\ versions' = [s \in Sectors |-> Append(FirstN(versions[s], Logs(findex, s)),
                                                     Content(mapping', s))]
             /\ done' = [s \in Sectors |-> Len(versions'[s])] /\ floor' = done'
             /\ UNCHANGED <<synced, spoiled>>
    <3>0. Sound' = Sound /\ Sound \subseteq Sectors
      BY <2>3 DEF Sound
    <3>1. ASSUME NEW s \in Sound
          PROVE  /\ Total(findex, s) \in Nat /\ Len(versions'[s]) = 1 + Total(findex, s)
      BY <2>1, <2>3, ReopenHistory
    <3>2. ASSUME NEW s \in Sound PROVE synced[s] <= 1 + Total(findex, s)
      <4>1. findex_synced \in Nat /\ Len(findex) \in Nat /\ findex_synced <= Len(findex)
        BY KnownOld, LogTypes DEF HInv, Acked
      <4>2. /\ Cover(findex, findex_synced, s) \in Nat
            /\ Cover(findex, findex_synced, s) <= Total(findex, s)
        BY <4>1, CoverNat, CoverMore DEF Total
      <4>3. synced[s] <= 1 + Cover(findex, findex_synced, s)
        BY DEF HInv, Acked
      <4> QED
        BY <4>2, <4>3, <3>1, <1>2
    <3>3. ASSUME NEW s \in Sound
          PROVE  /\ 1 <= synced'[s] /\ synced'[s] <= floor'[s] /\ floor'[s] <= done'[s]
                 /\ done'[s] <= Len(versions'[s])
      <4>1. done'[s] = 1 + Total(findex, s) /\ floor'[s] = done'[s] /\ synced'[s] = synced[s]
        BY <2>3, <3>0, <3>1
      <4> QED
        BY <4>1, <3>1, <3>2, <1>2
    <3> QED
      BY <3>0, <3>3, <2>2 DEF Order, FsyncSteps
  <2>4. CASE UNCHANGED histVars
    BY <2>2, <2>4 DEF Order, histVars, FsyncSteps, Sound
  <2> QED
    BY <1>6, <2>3, <2>4 DEF Reopen
<1> QED
  BY <1>3, <1>4, <1>5, <1>6, NextSplit

\* The state of the file, and the sectors and the buffer the exceptions name.
Marked ==
  /\ state \in {"open", "down", "lost", "broken", "overrun"}
  /\ spoiled \subseteq Sectors /\ jammed \in BOOLEAN

\* An action of a thread marks sectors only.
LEMMA ThreadMarked ==
  ASSUME IInv, Marked, NEW t \in Threads, ThreadStep(t)
  PROVE  Marked'
<1>1. state' = "open"
  BY ThreadMoves DEF Moves
<1>2. CASE UNCHANGED <<spoiled, jammed>>
  BY <1>1, <1>2 DEF Marked
<1>3. CASE \/ \E offset \in Sectors, length \in 1..NSectors :
                PwriteCall(t, offset, length) \/ PreadCall(t, offset, length)
           \/ PwriteAppend(t) \/ AppendIndex(t) \/ FsyncCall(t) \/ FsyncData(t) \/ FsyncIndex(t)
           \/ PreadSegment(t) \/ PreadSegmentFails(t) \/ PreadMore(t) \/ PreadReturn(t)
  <2>1. UNCHANGED <<spoiled, jammed>>
    BY <1>3 DEF PwriteCall, PreadCall, PwriteAppend, AppendIndex, FsyncCall, FsyncData, FsyncIndex,
                PreadSegment, PreadSegmentFails, PreadMore, PreadReturn, histVars
  <2> QED
    BY <2>1, <1>2
<1>4. CASE \/ \E offset \in Sectors, length \in 1..NSectors : DiscardCall(t, offset, length)
           \/ LogMapping(t)
  <2>1. spoiled' \subseteq Sectors /\ jammed' = jammed
    BY <1>4 DEF DiscardCall, LogMapping, Spoil, Marked
  <2> QED
    BY <2>1, <1>1 DEF Marked
<1>5. CASE \/ FlushGroup(t) \/ FsyncFlush(t) \/ GroupFlush(t)
           \/ \E size \in GroupSizes : GroupCall(t, size)
  <2>1. spoiled' = spoiled /\ (jammed' = jammed \/ jammed' \in BOOLEAN)
    BY <1>5 DEF FlushGroup, FsyncFlush, GroupFlush, GroupCall, CommitGroup, CommitGroupFails, Jam
  <2> QED
    BY <2>1, <1>1 DEF Marked
<1> QED
  BY <1>3, <1>4, <1>5 DEF ThreadStep

\* What the invariants say of types, the mutex and the counts.
LEMMA AllTyped == IInv /\ Queued /\ Order /\ Marked => TypeOK
<1> SUFFICES ASSUME IInv, Queued, Order, Marked PROVE TypeOK
  OBVIOUS
<1>1. queue \in Seq(Threads) /\ Len(queue) \in Nat
  BY KnownOld
<1>2. ASSUME NEW t \in Threads
      PROVE  Cardinality({i \in 1..Len(queue) : queue[i] = t}) =
               IF op[t].step \in NeedsMutex THEN 1 ELSE 0
  <2> DEFINE at == {i \in 1..Len(queue) : queue[i] = t}
  <2>1. CASE op[t].step \in NeedsMutex
    <3>1. PICK i \in 1..Len(queue) : queue[i] = t
      BY <2>1 DEF Queued
    <3>2. at = {i}
      BY <3>1 DEF Queued
    <3> QED
      BY <3>2, <2>1, FS_Singleton
  <2>2. CASE op[t].step \notin NeedsMutex
    <3>1. at = {}
      BY <2>2 DEF Queued
    <3> QED
      BY <3>1, <2>2, FS_EmptySet
  <2> QED
    BY <2>1, <2>2
<1>3. data_synced \in Nat /\ findex_synced \in Nat /\ group \in Nat
  BY KnownOld
<1> QED
  BY <1>2, <1>3 DEF TypeOK, Order, NeedsMutex, Marked, Sound

\* The state keeps its types, the mutex its queue, and the history its order: nothing
\* must survive a power loss that need not survive a crash, nothing need survive that
\* was not acknowledged, and nothing is acknowledged that did not happen.  Of the
\* sectors that spoiled names the order is not claimed.
THEOREM Typed == Spec => []TypeOK
<1> DEFINE Inv == IInv /\ RInv /\ HInv /\ Queued /\ Order /\ Marked
<1>1. Init => Inv
  <2> SUFFICES ASSUME Init PROVE Inv
    OBVIOUS
  <2>1. IInv /\ RInv /\ HInv /\ Queued
    BY InitOK, RecordsInit, LogsInit, QueuedInit
  <2>2. Marked
    BY DEF Init, Marked
  <2>3. Order
    <3>1. ASSUME NEW s \in Sectors
          PROVE  synced[s] = 1 /\ floor[s] = 1 /\ done[s] = 1 /\ Len(versions[s]) = 1
      <4>1. synced[s] = 1 /\ floor[s] = 1 /\ done[s] = 1 /\ versions[s] = <<Zeros>>
        BY DEF Init
      <4> QED
        BY <4>1
    <3>2. \A t \in Threads : op[t].step = "idle"
      BY DEF Init, Idle
    <3> QED
      BY <3>1, <3>2 DEF Order, FsyncSteps, Sound
  <2> QED
    BY <2>1, <2>2, <2>3
<1>2. Inv /\ [Next]_vars => Inv'
  <2> SUFFICES ASSUME Inv, [Next]_vars PROVE Inv'
    OBVIOUS
  <2>1. IInv' /\ RInv' /\ HInv' /\ Queued' /\ Order'
    BY NextOK, RecordsNext, LogsNext, QueuedNext, OrderNext
  <2>2. Marked'
    <3>1. CASE UNCHANGED vars
      BY <3>1 DEF vars, histVars, Marked
    <3>2. ASSUME NEW t \in Threads, ThreadStep(t) PROVE Marked'
      BY <3>2, ThreadMarked
    <3>3. CASE Overruns \/ Close \/ Crash \/ LosePower \/ Reopen
      BY <3>3 DEF Overruns, StoreOverruns, ResizeOverruns, Close, Crash, LosePower, Down, Spoil,
                  Reopen, histVars, Marked
    <3> QED
      BY <3>1, <3>2, <3>3, NextSplit
  <2> QED
    BY <2>1, <2>2
<1>3. Inv => TypeOK
  BY AllTyped
<1> QED
  BY <1>1, <1>2, <1>3, PTL DEF Spec
=============================================================================
