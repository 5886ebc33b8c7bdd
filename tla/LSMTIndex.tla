------------------------------- MODULE LSMTIndex -------------------------------
(***************************************************************************)
(* How the memory indexes of the layers of a device are built and combined *)
(* (lsmt/index.cpp, and stack_files(), load_merge_index(), close_seal() of *)
(* lsmt/file.cpp): a writable layer takes inserts, is sealed and joins the *)
(* read-only layers; the indexes of these are merged, and the index of the *)
(* next writable layer is stacked on the merged one.                       *)
(*                                                                         *)
(* Every state is compared with `written`, which keeps of every file, by   *)
(* number of creation, what was last written to each sector.               *)
(***************************************************************************)
EXTENDS Segments

CONSTANTS NSectors,     \* size of the device
          MaxInserts,   \* bound on the writes and discards of a behaviour
          MaxLayers,    \* bound on the read-only layers
          MaxLength,    \* Segment::MAX_LENGTH (2^14 - 1)
          LookupSizes   \* the sizes n of a caller's array of mappings

ASSUME IndexAssumption ==
  /\ NSectors \in Nat \ {0} /\ MaxInserts \in Nat /\ MaxLayers \in Nat
  /\ MaxLength \in Nat /\ LookupSizes \subseteq Nat \ {0}

VARIABLES
  layers,     \* m_files and indexes of the read-only layers, top first
  mapping,    \* Index0::mapping of the writable layer
  alloc_blk,
  stacked,    \* is the writable index a ComboIndex over the merged layers?
  backing,    \* ComboIndex::m_backing_index
  data_end,   \* m_data_offset: where the writable file ends
  inserts,    \* inserts so far
  written     \* history: per file and sector a place in the file, Zero or Hole

vars == <<layers, mapping, alloc_blk, stacked, backing, data_end, inserts, written>>

Sectors == 0..(NSectors - 1)
HeaderSectors == 8
Hole == -1
Zero == -2
Blank == [s \in Sectors |-> Hole]

\* m_rw_tag, and the number of the file behind m_files[tag]: in a stack the
\* read-only files come first, the top one in front.
RwTag == IF stacked THEN Len(layers) ELSE 0
FileNo(tag) == IF tag = RwTag THEN Len(layers) + 1 ELSE layers[tag + 1].file

Init ==
  /\ layers = << >> /\ mapping = {} /\ alloc_blk = 0 /\ stacked = FALSE /\ backing = << >>
  /\ data_end = HeaderSectors
  /\ inserts = 0
  /\ written = <<Blank>>

\* A write appends its data and inserts the mapping; a discard only inserts.
\* Both are cut into pieces of at most MAX_LENGTH sectors.
Write(offset, length, zeroed) ==
  LET m == Mapping(offset, length, data_end, zeroed, RwTag)
  IN /\ inserts < MaxInserts
     /\ offset + length <= NSectors /\ length <= MaxLength
     /\ inserts' = inserts + 1
     /\ data_end' = Mend(m)
     /\ mapping' = Insert(mapping, m)
     /\ alloc_blk' = AllocAfterInsert(alloc_blk, mapping, m)
     /\ written' = [written EXCEPT ![Len(written)] =
                      [s \in Sectors |-> IF ~Covers(m, s) THEN @[s]
                                         ELSE IF zeroed THEN Zero ELSE m.moffset + (s - offset)]]
     /\ UNCHANGED <<layers, stacked, backing>>

\* close_seal() dumps the index into the file; loading it sets the tags to 0.
Seal ==
  /\ Len(layers) < MaxLayers
  /\ mapping # {}
  /\ layers' = <<[file |-> Len(layers) + 1,
                 index |-> Dump({[m EXCEPT !.tag = 0] : m \in mapping})]>> \o layers
  /\ mapping' = {} /\ alloc_blk' = 0 /\ stacked' = FALSE /\ backing' = << >>
  /\ data_end' = HeaderSectors
  /\ written' = Append(written, Blank)
  /\ UNCHANGED inserts

-----------------------------------------------------------------------------
(* Merging *)

\* The mappings merge_indexes() pushes for [begin, end): those of the first
\* index, and in the gaps what the indexes below have.  With change_tag the
\* tag of a mapping becomes its level, and n counts the indexes left; without
\* it the tags stay and max_level counts them.
RECURSIVE MergeIndexes(_, _, _, _, _)
MergeIndexes(level, indexes, begin, end, change_tag) ==
  IF indexes = << >> \/ begin >= end THEN << >>
  ELSE LET own == SelectSeq(Head(indexes), LAMBDA m : End(m) > begin /\ m.offset < end)
           below(from, to) == MergeIndexes(level + 1, Tail(indexes), from, to, change_tag)
           step(acc, m) ==
             [pm |-> Append(IF m.offset > acc.begin THEN acc.pm \o below(acc.begin, m.offset)
                            ELSE acc.pm,
                            IF change_tag THEN [m EXCEPT !.tag = level] ELSE m),
              begin |-> End(m)]
           loop == FoldLeft(step, [pm |-> << >>, begin |-> begin], own)
       IN TrimEdges(IF loop.begin < end THEN loop.pm \o below(loop.begin, end) ELSE loop.pm,
                    begin, end)

\* Mutant: the layers are merged from the bottom up, without the reversal of
\* load_merge_index().
MergeUnreversed ==
  MergeIndexes(0, Reverse([k \in 1..Len(layers) |-> layers[k].index]), 0, NSectors, TRUE)

\* load_merge_index() and merge_memory_indexes()
MergedLayers ==
  MergeIndexes(0, [k \in 1..Len(layers) |-> layers[k].index], 0, NSectors, TRUE)

\* stack_files(): ComboIndex copies the set and raises its tags; its own
\* alloc_blk starts at 0.
Stack ==
  /\ ~stacked
  /\ layers # << >>
  /\ stacked' = TRUE
  /\ backing' = MergedLayers
  /\ mapping' = {[m EXCEPT !.tag = @ + Len(layers)] : m \in mapping}
  /\ alloc_blk' = 0
  /\ UNCHANGED <<layers, data_end, inserts, written>>

\* ComboIndex::make_read_only_index(), used by flatten().
ReadOnlyIndex ==
  IF stacked THEN MergeIndexes(0, <<Dump(mapping), backing>>, 0, NSectors, FALSE)
  ELSE Dump(mapping)

Next ==
  \/ \E offset \in Sectors, length \in 1..NSectors, zeroed \in BOOLEAN :
       Write(offset, length, zeroed)
  \/ Seal
  \/ Stack

Spec == Init /\ [][Next]_vars
-----------------------------------------------------------------------------
(* Properties *)

\* The file and place a sector is read from according to a list of mappings.
ReadThrough(pm, s) ==
  LET hits == {i \in 1..Len(pm) : Covers(pm[i], s)}
  IN IF hits = {} THEN <<0, Hole>>
     ELSE LET m == pm[CHOOSE i \in hits : TRUE]
          IN <<FileNo(m.tag), IF m.zeroed THEN Zero ELSE m.moffset + (s - m.offset)>>

\* Where it was last written: in the writable layer, or the topmost of the stack.
LastWritten(s) ==
  LET files == {f \in (IF stacked THEN 1 ELSE Len(written))..Len(written) : written[f][s] # Hole}
  IN IF files = {} THEN <<0, Hole>> ELSE <<Max(files), written[Max(files)][s]>>

\* The fields of every mapping stay in range; tags name an existing file.
TypeOK ==
  /\ \A m \in mapping :
       /\ m.offset \in Sectors /\ m.length \in 1..NSectors /\ End(m) <= NSectors
       /\ m.moffset \in Nat /\ m.zeroed \in BOOLEAN /\ m.tag = RwTag
  /\ alloc_blk \in Int /\ data_end \in Nat /\ stacked \in BOOLEAN /\ inserts \in 0..MaxInserts

\* However inserts split, trim and cover one another, no two mappings of an
\* index overlap, which std::set's order and every lookup rely on.
MappingsDisjoint == Disjoint(mapping) /\ Ordered(Dump(mapping)) /\ Ordered(backing)

\* lookup() of any segment into an array of any size returns ordered mappings
\* inside the segment which say of each sector, up to the last one returned if
\* the array was too small, what was written there last through all layers.
LookupFindsLatest ==
  \A begin, end \in 0..NSectors, n \in LookupSizes : begin < end =>
    LET pm == IF stacked THEN ComboLookup(Dump(mapping), backing, begin, end, n)
              ELSE Lookup0(mapping, begin, end, n)
        upto == IF Len(pm) < n THEN end ELSE End(pm[n])
    IN /\ Len(pm) <= n
       /\ Ordered(pm)
       /\ \A i \in 1..Len(pm) : begin <= pm[i].offset /\ pm[i].length > 0 /\ End(pm[i]) <= end
       /\ \A s \in begin..(upto - 1) : ReadThrough(pm, s) = LastWritten(s)

\* Flattening and compressing an index change what no sector reads, and
\* compression never lengthens the index nor makes a mapping longer than the 14
\* bits of its length field can say.
CompactKeepsView ==
  LET compact == CompressRawIndex(ReadOnlyIndex, MaxLength)
  IN /\ Len(compact) <= Len(ReadOnlyIndex)
     /\ Ordered(compact)
     /\ \A i \in 1..Len(compact) : compact[i].length <= MaxLength
     /\ \A s \in Sectors : ReadThrough(compact, s) = LastWritten(s)

\* block_count() of a writable index that is not stacked counts exactly the
\* sectors that hold data.
Index0CountsBlocks ==
  ~stacked => alloc_blk = Cardinality({s \in Sectors : \E m \in mapping : ~m.zeroed /\ Covers(m, s)})
==============================================================================
