------------------------------- MODULE Segments -------------------------------
(***************************************************************************)
(* Segment mappings and the memory indexes made of them, as operators:     *)
(* overlaybd/src/overlaybd/lsmt/index.h and index.cpp.  Offsets and        *)
(* lengths count sectors of ALIGNMENT (512) bytes.                         *)
(*                                                                         *)
(* Index0, the writable index, is a std::set of mappings that never        *)
(* overlap, here a set; Index, the read-only one, is a sorted array, here  *)
(* a sequence.                                                             *)
(***************************************************************************)
EXTENDS Integers, Sequences, FiniteSets, SequencesExt, FiniteSetsExt

\* A SegmentMapping: [offset, offset + length) of the virtual disk lives at
\* moffset of file number tag, or reads as zeros.
Mapping(offset, length, moffset, zeroed, tag) ==
  [offset |-> offset, length |-> length, moffset |-> moffset, zeroed |-> zeroed, tag |-> tag]

End(m) == m.offset + m.length
Mend(m) == IF m.zeroed THEN m.moffset ELSE m.moffset + m.length

ForwardOffsetTo(m, x) ==
  [m EXCEPT !.offset = x, !.length = @ - (x - m.offset),
            !.moffset = IF m.zeroed THEN @ ELSE @ + (x - m.offset)]
BackwardEndTo(m, x) == [m EXCEPT !.length = x - m.offset]

Covers(m, s) == m.offset <= s /\ s < End(m)
Overlap(x, y) == x.offset < End(y) /\ y.offset < End(x)
Disjoint(ms) == \A x, y \in ms : x = y \/ ~Overlap(x, y)

-----------------------------------------------------------------------------
(* Index0 *)

\* block_usage: what a mapping adds to the count of allocated blocks.
Usage(m) == IF m.zeroed THEN 0 ELSE m.length
UsageOf(ms) == MapThenSumSet(Usage, ms)

\* Mutant: the part behind the new mapping keeps its old position in the file.
PartialOverlapNoShift(p, m) ==
  LET rest == [p EXCEPT !.offset = End(m), !.length = End(p) - End(m)]
  IN IF p.offset < m.offset
     THEN IF End(p) <= End(m) THEN {BackwardEndTo(p, m.offset)}
          ELSE {BackwardEndTo(p, m.offset), rest}
     ELSE IF p.offset >= End(m) THEN {p}
     ELSE IF End(p) <= End(m) THEN {} ELSE {rest}

\* remove_partial_overlap(): what is left of p, which ends behind m.offset,
\* once m is inserted.
PartialOverlap(p, m) ==
  IF p.offset < m.offset
  THEN IF End(p) <= End(m) THEN {BackwardEndTo(p, m.offset)}
       ELSE {BackwardEndTo(p, m.offset), ForwardOffsetTo(p, End(m))}
  ELSE IF p.offset >= End(m) THEN {p}
  ELSE IF End(p) <= End(m) THEN {} ELSE {ForwardOffsetTo(p, End(m))}

\* The mappings insert() looks at: lower_bound(m), the first that does not end
\* before m; those behind it that m covers; one that begins in m and ends later.
NotBefore(ms, m) == {x \in ms : End(x) > m.offset}
FirstOf(ms) == {x \in ms : \A y \in ms : x.offset <= y.offset}
Middle(ms, m) ==
  {x \in NotBefore(ms, m) \ FirstOf(NotBefore(ms, m)) : End(x) <= End(m)}
LastOf(ms, m) ==
  {x \in NotBefore(ms, m) \ FirstOf(NotBefore(ms, m)) : x.offset < End(m) /\ End(x) > End(m)}

\* Mutant: insert() leaves the mappings it covers in the set.
InsertKeepsMiddle(ms, m) ==
  IF m.length = 0 THEN ms
  ELSE LET edge == FirstOf(NotBefore(ms, m)) \union LastOf(ms, m)
       IN (ms \ edge) \union (UNION {PartialOverlap(p, m) : p \in edge}) \union {m}

\* Index0::insert()
Insert(ms, m) ==
  IF m.length = 0 THEN ms
  ELSE LET edge == FirstOf(NotBefore(ms, m)) \union LastOf(ms, m)
       IN (ms \ (edge \union Middle(ms, m)))
            \union (UNION {PartialOverlap(p, m) : p \in edge})
            \union {m}

\* Mutant: mappings that m covers stay counted.
AllocAfterInsertKeepsMiddle(alloc, ms, m) ==
  IF m.length = 0 THEN alloc
  ELSE LET edge == FirstOf(NotBefore(ms, m)) \union LastOf(ms, m)
       IN alloc + Usage(m) - UsageOf(edge) + UsageOf(UNION {PartialOverlap(p, m) : p \in edge})

\* alloc_blk after insert().  It is a uint64_t; a negative value here stands
\* for one that wrapped around.
AllocAfterInsert(alloc, ms, m) ==
  IF m.length = 0 THEN alloc
  ELSE LET edge == FirstOf(NotBefore(ms, m)) \union LastOf(ms, m)
       IN alloc + Usage(m) - UsageOf(edge \union Middle(ms, m))
            + UsageOf(UNION {PartialOverlap(p, m) : p \in edge})

\* dump(): the set in the order of its iterator, the i-th behind i - 1 others.
Rank(ms, m) == Cardinality({x \in ms : x.offset < m.offset})
Dump(ms) == [i \in 1..Cardinality(ms) |-> CHOOSE m \in ms : Rank(ms, m) = i - 1]

-----------------------------------------------------------------------------
(* Lookup *)

\* trim_edge_mappings()
TrimEdges(pm, begin, end) ==
  LET front(m) == IF m.offset < begin THEN ForwardOffsetTo(m, begin) ELSE m
      back(m) == IF End(m) > end THEN BackwardEndTo(m, end) ELSE m
  IN [i \in 1..Len(pm) |->
        LET f == IF i = 1 THEN front(pm[i]) ELSE pm[i]
        IN IF i = Len(pm) THEN back(f) ELSE f]

FirstN(pm, n) == SubSeq(pm, 1, IF n < Len(pm) THEN n ELSE Len(pm))

\* Index0::lookup(): lower_bound in the set, then copy_n up to n mappings that
\* begin before the end of the segment.
Lookup0(ms, begin, end, n) ==
  IF begin >= end THEN << >>
  ELSE TrimEdges(FirstN(Dump({m \in ms : End(m) > begin /\ m.offset < end}), n), begin, end)

\* Index::lookup(), the same on an array.
Lookup(index, begin, end, n) ==
  IF begin >= end THEN << >>
  ELSE TrimEdges(FirstN(SelectSeq(index, LAMBDA m : End(m) > begin /\ m.offset < end), n),
                 begin, end)

\* ComboIndex::lookup(): the mappings of index0, with the gaps between them
\* looked up in the backing index, at most n in all.
ComboLookup(index0, backing, begin, end, n) ==
  LET upper == SelectSeq(index0, LAMBDA m : End(m) > begin /\ m.offset < end)
      gap(acc, stop) ==
        Lookup(backing, acc.soffset, stop, n - Len(acc.pm))
      step(acc, m) ==
        IF Len(acc.pm) = n THEN acc
        ELSE LET pm1 == IF m.offset > acc.soffset THEN acc.pm \o gap(acc, m.offset) ELSE acc.pm
             IN IF Len(pm1) = n THEN [acc EXCEPT !.pm = pm1]
                ELSE [pm |-> Append(pm1, m), soffset |-> End(m)]
      loop == FoldLeft(step, [pm |-> << >>, soffset |-> begin], upper)
      all == IF Len(loop.pm) < n /\ loop.soffset < end
             THEN loop.pm \o gap(loop, end) ELSE loop.pm
  IN IF begin >= end THEN << >> ELSE TrimEdges(all, begin, end)

-----------------------------------------------------------------------------
(* Arrays of mappings *)

\* verify_mapping_order() and verify_mapping_moffset()
Ordered(index) == \A i \in 1..(Len(index) - 1) : End(index[i]) <= index[i + 1].offset
Within(m, begin, end) ==
  IF m.zeroed THEN begin <= m.moffset /\ m.moffset <= end
  ELSE begin <= m.moffset /\ m.moffset < end /\ begin < Mend(m) /\ Mend(m) <= end

\* Mutant: neighbours are joined without a look at where they are mapped to.
JoinableAnywhere(x, y, maxLength) ==
  /\ End(x) = y.offset /\ x.zeroed = y.zeroed /\ x.tag = y.tag
  /\ x.length + y.length < maxLength

\* Mutant: the length of the joint mapping is not looked at.
JoinableAnyLength(x, y, maxLength) ==
  End(x) = y.offset /\ Mend(x) = y.moffset /\ x.zeroed = y.zeroed /\ x.tag = y.tag

\* May compress_raw_index() make one mapping of x and its successor y?
Joinable(x, y, maxLength) ==
  /\ End(x) = y.offset /\ Mend(x) = y.moffset /\ x.zeroed = y.zeroed /\ x.tag = y.tag
  /\ x.length + y.length < maxLength

CompressRawIndex(index, maxLength) ==
  LET join(acc, m) ==
        IF acc # << >> /\ Joinable(acc[Len(acc)], m, maxLength)
        THEN [acc EXCEPT ![Len(acc)].length = @ + m.length] ELSE Append(acc, m)
  IN FoldLeft(join, << >>, index)
==============================================================================
