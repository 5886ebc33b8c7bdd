------------------------------ MODULE ZFileRead -------------------------------
(***************************************************************************)
(* Reading a ZFile (zfile.cpp: JumpTable, BlockReader,                     *)
(* CompressionFile::pread, load_jump_table, zfile_open_ro).  The file was  *)
(* made by zfile_compress(); a byte range of the source is read by finding *)
(* the blocks it overlaps, loading as many as fit into a buffer at a time, *)
(* and checking, decompressing and copying each.                           *)
(*                                                                         *)
(* The layers below may hand out corrupted bytes: for good (rotten blocks) *)
(* or until the cache is trimmed and the block read again.                 *)
(***************************************************************************)
EXTENDS ZFileCompress, Bitwise

CONSTANTS UIntMaxes,    \* values of JumpTable::uinttype_max, counted in bytes of which
                        \* a block has BlockSize
          BufSize,      \* MAX_READ_SIZE
          MaxRotten,    \* bound on the blocks that are corrupted for good
          MaxFaults,    \* bound on transient corruptions and failed reads
          InBlock,      \* may a read begin inside a block of a fixed-size file?
          NoTable, Junk \* no jump table yet; a byte that was not in the source

\* The tools allow blocks of at most 64K, which is MAX_READ_SIZE, and blocks
\* that do not compress must still fit into the buffer.
ASSUME ReadAssumption ==
  /\ {MaxRotten, MaxFaults} \subseteq Nat /\ InBlock \in BOOLEAN
  /\ UIntMaxes \subseteq Nat /\ \A max \in UIntMaxes : BlockSize <= max + 1
  /\ BlockSize <= BufSize
  /\ \A len \in Lens : len + CrcSize <= BufSize

VARIABLES
  step,     \* "closed", "load", "idle", "begin", "block", "next" or "refused"
  evict,    \* the argument verify of zfile_open_ro()
  uint_max, \* uinttype_max, in the bytes of this file
  table,    \* m_jump_table
  req,      \* kind, offset and cnt of the pread() at work, or of the last one
  br,       \* BlockReader: m_begin_idx, m_original_begin_idx, m_idx, m_end_idx
  window,   \* the part of the file in m_buf
  bad,      \* blocks of it that are corrupted
  retry, got, out,  \* tries left, bytes got so far and, for a read, which
  ret,      \* what the last pread() returned
  rotten, faults,
  failed    \* has a read of the file failed since it was opened?

readVars == <<step, evict, uint_max, table, req, br, window, bad, retry, got, out, ret, rotten,
              faults, failed>>
vars == <<compressVars, readVars>>

ReadInit ==
  /\ step = "closed" /\ evict = FALSE /\ uint_max = 0 /\ table = NoTable
  /\ req = [kind |-> "none", offset |-> 0, cnt |-> 0]
  /\ br = [begin_idx |-> 0, first |-> 0, idx |-> 0, end_idx |-> 0]
  /\ window = [from |-> 0, to |-> 0] /\ bad = {}
  /\ retry = 0 /\ got = 0 /\ out = << >> /\ ret = 0
  /\ rotten = {} /\ faults = 0 /\ failed = FALSE
Init == CompressInit /\ ReadInit

Blocks == 0..(Len(file.blocks) - 1)
HeaderSpace == 512
\* Where block idx really begins, in the file and in the source.
FileStart(idx) == HeaderSpace + Total(SubSeq(file.len, 1, idx))
RawStart(idx) == Total(SubSeq(file.raw, 1, idx))

-----------------------------------------------------------------------------
(* JumpTable *)

GroupSize == (uint_max + 1) \div BlockSize
MinBlkSize == IF file.verify THEN CrcSize ELSE 0

\* Mutant: the sum inside a group starts anew one block late.
AddBlockLate(jt, len) ==
  LET i == Len(jt.deltas)
  IN IF ~jt.ok \/ len <= MinBlkSize THEN [jt EXCEPT !.ok = FALSE]
     ELSE IF (i - 1) % GroupSize = 0 /\ i > 1
     THEN [jt EXCEPT !.end = @ + len, !.partial = Append(@, jt.end + len), !.deltas = Append(@, 0)]
     ELSE [jt EXCEPT !.end = @ + len, !.deltas = Append(@, Last(@) + len)]

\* One block of build(): the offset of the block behind it is stored whole at
\* the start of a group, and as a 16-bit distance from there otherwise.
AddBlock(jt, len) ==
  LET i == Len(jt.deltas)
  IN IF ~jt.ok \/ len <= MinBlkSize THEN [jt EXCEPT !.ok = FALSE]
     ELSE IF i % GroupSize = 0
     THEN [jt EXCEPT !.end = @ + len, !.partial = Append(@, jt.end + len), !.deltas = Append(@, 0)]
     ELSE IF Last(jt.deltas) + len >= uint_max THEN [jt EXCEPT !.ok = FALSE]
     ELSE [jt EXCEPT !.end = @ + len, !.deltas = Append(@, Last(@) + len)]
Build == FoldLeft(AddBlock, [ok |-> TRUE, end |-> HeaderSpace, partial |-> <<HeaderSpace>>,
                             deltas |-> <<0>>], file.len)

\* A block of fixed size is a power of two, and so is the number of them in a
\* group.  The largest chunk of FastCDC is any size.
GroupSizeOK(max) == file.fastcdc \/ (max + 1) \div BlockSize \in {1, 2, 4, 8, 16}

\* operator[]: the bits of idx below the group size, a remainder or not.
JumpTo(jt, idx) ==
  jt.partial[idx \div GroupSize + 1]
    + IF (idx & (GroupSize - 1)) # 0 THEN jt.deltas[idx + 1] ELSE 0

-----------------------------------------------------------------------------
(* zfile_open_ro() *)

ReadVarsOfPread == <<req, br, window, bad, got, out, ret>>

\* A file that was compressed, completely or not, may be opened, whatever
\* zfile_compress() returned.
Open ==
  /\ step = "closed" /\ at \in {"ok", "failed"}
  /\ at' = "over"
  /\ evict' \in BOOLEAN
  /\ uint_max' \in {max \in UIntMaxes : GroupSizeOK(max)}
  /\ rotten' \in {r \in SUBSET Blocks : Len(SetToSeq(r)) <= MaxRotten}
  /\ retry' = 2
  /\ step' = "load"
  /\ UNCHANGED <<file, source, infile_size, readn, offset, batch_start, chunks>>
  /\ UNCHANGED <<table, ReadVarsOfPread, faults, failed>>

\* Header and trailer are there and what they should be.
Sealed == file.sealed

Load ==
  /\ step = "load" /\ Sealed /\ Build.ok
  /\ table' = Build
  /\ step' = "idle"
  /\ evict' = FALSE /\ retry' = 0
  /\ UNCHANGED <<compressVars, uint_max, ReadVarsOfPread, rotten, faults, failed>>

\* Header, trailer or index are not what they should be or cannot be read: when
\* the source can be evicted, twice more.  The raw sizes are read only once.
LoadFails ==
  /\ step = "load"
  /\ \/ ~(Sealed /\ Build.ok) /\ UNCHANGED faults
     \/ faults < MaxFaults /\ faults' = faults + 1
  /\ \/ evict /\ retry > 0 /\ retry' = retry - 1 /\ UNCHANGED step
     \/ (~evict \/ retry = 0 \/ faults' > faults) /\ step' = "refused" /\ UNCHANGED retry
  /\ UNCHANGED <<compressVars, evict, uint_max, table, ReadVarsOfPread, rotten, failed>>

-----------------------------------------------------------------------------
(* BlockReader *)

\* A difference of offsets is a size_t: below zero it is larger than any buffer.
SizeT(n) == IF n < 0 THEN BufSize + 1 ELSE n
BlocksLength(begin, end) == SizeT(JumpTo(table, end) - JumpTo(table, begin))

\* The block that holds a byte of the source, as m_begin_idx and m_end_idx
\* are computed: by adding up the raw sizes, or by division.
BlockOf(byte) ==
  IF file.fastcdc
  THEN CHOOSE i \in Blocks : RawStart(i) <= byte /\ byte < RawStart(i + 1)
  ELSE byte \div BlockSize

\* m_original_begin_idx is set for FastCDC only.
FirstBlock(offset_) == IF file.fastcdc THEN BlockOf(offset_) ELSE 0

InBlockOffset(byte, idx) == IF file.fastcdc THEN byte - RawStart(idx) ELSE byte % BlockSize
BlockLength(idx) == IF file.fastcdc THEN file.raw[idx + 1] ELSE BlockSize

BufOffset == BlocksLength(br.begin_idx, br.idx)
CompressedSize == SizeT(BlocksLength(br.idx, br.idx + 1) - MinBlkSize)
\* get_current_block() gives up with ERANGE.
OutOfBuffer == BufOffset >= BufSize \/ BufOffset + CompressedSize > BufSize

CpBegin == IF br.idx = br.first THEN InBlockOffset(req.offset, br.idx) ELSE 0
CpLen ==
  (IF br.idx = br.end_idx - 1 THEN InBlockOffset(req.offset + req.cnt - 1, br.idx) + 1
   ELSE BlockLength(br.idx)) - CpBegin

\* Are the bytes at m_buf_offset those of block m_idx, unharmed?
Intact ==
  /\ window.from + BufOffset = FileStart(br.idx)
  /\ FileStart(br.idx + 1) <= window.to
  /\ CompressedSize = file.len[br.idx + 1] - MinBlkSize
  /\ br.idx \notin bad

\* The bytes read from the file are bad where it is rotten, and may be once more.
Corrupts(blocks) ==
  \/ bad' = rotten \intersect blocks /\ UNCHANGED faults
  \/ /\ faults < MaxFaults /\ faults' = faults + 1
     /\ \E b \in blocks : bad' = (rotten \intersect blocks) \union {b}
ReadFails == faults < MaxFaults /\ faults' = faults + 1 /\ failed' = TRUE

\* read_blocks(begin, m_end_idx)
ReadBlocks(begin) ==
  /\ LET start == JumpTo(table, begin)
     IN window' = [from |-> start,
                   to |-> start + Least(BufSize, BlocksLength(begin, br.end_idx))]
  /\ Corrupts(begin..(br.end_idx - 1))
  /\ UNCHANGED failed

-----------------------------------------------------------------------------
(* pread() *)

Return(r) == ret' = r /\ step' = "idle"

\* A read, a prefetch (no buffer) or a check of the checksums only.  Calls
\* share nothing but the file: a behaviour has one.
Pread(kind, offset_, count) ==
  /\ step = "idle" /\ req.kind = "none"
  /\ offset_ <= file.original_file_size
  /\ kind = "check" => file.verify
  /\ InBlock \/ file.fastcdc \/ offset_ < BlockSize \/ offset_ % BlockSize = 0
  /\ LET cnt == Least(count, file.original_file_size - offset_)
     IN /\ req' = [kind |-> kind, offset |-> offset_, cnt |-> cnt]
        /\ IF cnt <= 0 THEN Return(0) /\ UNCHANGED br
           ELSE /\ br' = [begin_idx |-> BlockOf(offset_), first |-> FirstBlock(offset_),
                          idx |-> BlockOf(offset_), end_idx |-> BlockOf(offset_ + cnt - 1) + 1]
                /\ step' = "begin"
                /\ UNCHANGED ret
  /\ got' = 0 /\ out' = << >> /\ failed' = FALSE
  /\ UNCHANGED <<compressVars, evict, uint_max, table, window, bad, retry, rotten, faults>>

Retries == 3

\* begin(): the first blocks are loaded.
Begin ==
  /\ step = "begin"
  /\ \/ ReadBlocks(br.idx) /\ step' = "block" /\ UNCHANGED ret
     \/ ReadFails /\ Return(-1) /\ UNCHANGED <<window, bad>>
  /\ retry' = Retries
  /\ UNCHANGED <<compressVars, evict, uint_max, table, req, br, got, out, rotten>>

\* operator++ with the next block outside the window: load from there on.
Refill ==
  /\ step = "next" /\ br.idx + 1 # br.end_idx
  /\ BlocksLength(br.begin_idx, br.idx + 2) > BufSize
  /\ \/ /\ ReadBlocks(br.idx + 1)
        /\ br' = [br EXCEPT !.idx = @ + 1, !.begin_idx = br.idx + 1]
        /\ step' = "block" /\ UNCHANGED ret
     \/ ReadFails /\ Return(-1) /\ UNCHANGED <<window, bad, br>>
  /\ retry' = Retries
  /\ UNCHANGED <<compressVars, evict, uint_max, table, req, got, out, rotten>>

\* operator++ inside the window.
Advance ==
  /\ step = "next" /\ br.idx + 1 # br.end_idx
  /\ BlocksLength(br.begin_idx, br.idx + 2) <= BufSize
  /\ br' = [br EXCEPT !.idx = @ + 1]
  /\ step' = "block" /\ retry' = Retries
  /\ UNCHANGED <<compressVars, evict, uint_max, table, req, window, bad, got, out, ret, rotten,
                 faults, failed>>

Wanted == step = "block" /\ ~OutOfBuffer /\ (req.kind = "prefetch" \/ got < req.cnt)

\* The end of the range, enough bytes, or a block that is not in the buffer.
Done ==
  /\ \/ step = "next" /\ br.idx + 1 = br.end_idx /\ Return(Least(got, req.cnt))
     \/ step = "block" /\ ~OutOfBuffer /\ ~Wanted /\ Return(Least(got, req.cnt))
     \/ step = "block" /\ OutOfBuffer /\ Return(-1)
  /\ UNCHANGED <<compressVars, evict, uint_max, table, req, br, window, bad, retry, got, out,
                 rotten, faults, failed>>

BlockVars == <<compressVars, evict, uint_max, table, req, br, window, rotten>>

\* Mutant: validation skips the checksum as it skips decompression.
ChecksumOKSkipped == req.kind = "check" \/ ~file.verify \/ Intact
ChecksumOK == ~file.verify \/ Intact

\* A prefetch, and a check with a good checksum, only count.
Count ==
  /\ Wanted
  /\ req.kind = "prefetch" \/ (req.kind = "check" /\ ChecksumOK)
  /\ got' = got + CpLen
  /\ step' = "next"
  /\ UNCHANGED <<BlockVars, bad, retry, out, ret, faults, failed>>

BytesToCopy == Least(CpLen, req.cnt - got)
\* A whole block goes straight into the caller's buffer.
CopyFrom == IF CpLen = BlockSize /\ BytesToCopy = CpLen THEN 0 ELSE CpBegin

\* The block is decompressed and its part of the range copied.  Without
\* checksums a corrupted block may decompress into anything.
Decompress ==
  /\ Wanted /\ req.kind = "read" /\ ChecksumOK
  /\ LET block == file.blocks[br.idx + 1]
     IN out' = out \o [i \in 1..BytesToCopy |->
                         IF Intact /\ CopyFrom + i <= block.size
                         THEN block.from + CopyFrom + i - 1 ELSE Junk]
  /\ got' = got + BytesToCopy
  /\ step' = "next"
  /\ UNCHANGED <<BlockVars, bad, retry, ret, faults, failed>>

\* Mutant: the cache is not trimmed, and has the same bytes again.
RereadUntrimmed == UNCHANGED <<bad, faults>>

\* reload(): the block is trimmed from the cache and read once more.
Reread ==
  \/ bad' = (bad \ {br.idx}) \union (rotten \intersect {br.idx}) /\ UNCHANGED faults
  \/ faults < MaxFaults /\ faults' = faults + 1 /\ bad' = bad \union {br.idx}

\* The checksum or the decompression fails: reload the block and start over,
\* at most Retries times; a validation gives up at once.
Reload ==
  /\ Wanted /\ req.kind # "prefetch" /\ ~Intact
  /\ file.verify \/ req.kind = "read"
  /\ ~(req.kind = "check" /\ ChecksumOK)
  /\ \/ /\ req.kind = "read" /\ retry > 0
        /\ retry' = retry - 1
        /\ \/ Reread /\ UNCHANGED <<step, ret, failed>>
           \/ ReadFails /\ Return(-1) /\ UNCHANGED bad
     \/ /\ req.kind = "check" \/ retry = 0
        /\ Return(-1)
        /\ UNCHANGED <<retry, bad, faults, failed>>
  /\ UNCHANGED <<BlockVars, got, out>>

-----------------------------------------------------------------------------
ReadNext ==
  \/ Open \/ Load \/ LoadFails
  \/ \E kind \in {"read", "prefetch", "check"},
        offset_ \in 0..file.original_file_size, count \in 1..(file.original_file_size + 1) :
       Pread(kind, offset_, count)
  \/ Begin \/ Refill \/ Advance \/ Done
  \/ Count \/ Decompress \/ Reload

Next == (CompressNext /\ UNCHANGED readVars) \/ ReadNext
Spec == Init /\ [][Next]_vars
-----------------------------------------------------------------------------
(* Properties *)

\* The state keeps its types; no block index leaves the file.
TypeOK ==
  /\ step \in {"closed", "load", "idle", "begin", "block", "next", "refused"}
  /\ retry \in 0..Retries /\ got \in Nat /\ ret \in -1..file.original_file_size
  /\ (step \in {"begin", "block", "next"} =>
        /\ br.idx \in br.begin_idx..(br.end_idx - 1)
        /\ br.end_idx - 1 \in Blocks)

\* Where & is not %: operator[] takes a block inside a group for its first.
Misplaced(idx) == idx % GroupSize # 0 /\ (idx & (GroupSize - 1)) = 0

\* Blocks of the request, and the end of the last, that the table misplaces.
MisplacedInRange ==
  /\ req.cnt > 0
  /\ \E idx \in BlockOf(req.offset)..(BlockOf(req.offset + req.cnt - 1) + 1) : Misplaced(idx)

\* A file can be opened only if zfile_compress() finished it, and its jump
\* table then gives every block, and the end of the last, its true offset: all of
\* them when a group has 2^n blocks, as with blocks of fixed size and the default
\* of FastCDC, and those that operator[] does not misplace when it has not.
JumpTableSums ==
  table # NoTable =>
    /\ file.sealed /\ file.original_file_size = source
    /\ \A idx \in 0..Len(file.len) : JumpTo(table, idx) = FileStart(idx) \/ Misplaced(idx)

\* What pread() gets from a file is what zfile_compress() was given, whatever
\* the chunk boundaries, the batches, the range and the buffer; with checksums
\* also when the layers below return garbage or the jump table is wrong: then it is
\* right or it fails.
ReadsSource ==
  (/\ step = "idle" /\ req.kind = "read" /\ ret >= 0
   /\ file.verify \/ (faults = 0 /\ rotten = {} /\ ~MisplacedInRange)) =>
    /\ ret = req.cnt
    /\ out = [i \in 1..req.cnt |-> req.offset + i - 1]

\* A read fails only when the file cannot be read, is rotten or has its blocks
\* misplaced by the jump table: corruption that goes away when the cache is trimmed
\* is survived.
SurvivesCorruption ==
  (step = "idle" /\ req.kind = "read" /\ ret = -1) =>
    \/ failed \/ MisplacedInRange
    \/ \E b \in rotten : b \in BlockOf(req.offset)..BlockOf(req.offset + req.cnt - 1)

\* Validation passes a range only if none of its blocks is rotten, and a
\* prefetch reports the whole range.
CheckFindsRot ==
  (step = "idle" /\ req.cnt > 0 /\ req.kind \in {"check", "prefetch"} /\ ret >= 0) =>
    /\ ret = req.cnt
    /\ req.kind = "check" =>
         rotten \intersect (BlockOf(req.offset)..BlockOf(req.offset + req.cnt - 1)) = {}

==============================================================================
