---------------------------- MODULE ZFileCompress -----------------------------
(***************************************************************************)
(* zfile_compress() of overlaybd/src/overlaybd/zfile/zfile.cpp: a source   *)
(* file is read in pieces, each piece cut into blocks, of one size or at   *)
(* the boundaries FastCDC finds in the contents, the blocks are compressed *)
(* in batches and appended, and an index of their lengths follows.         *)
(*                                                                         *)
(* A byte of the source is identified by its position; a block is the      *)
(* interval of the source it was made from and its length in the file.     *)
(***************************************************************************)
EXTENDS Integers, Sequences, SequencesExt

CONSTANTS BlockSize,    \* opt.block_size; with FastCDC fastcdc_max_size
          MinChunk,     \* fastcdc_min_size
          NBatch,       \* compressor->nbatch()
          Sizes,        \* lengths a source file may have
          FastCDC,      \* values CompressArgs::use_fastcdc may have
          Verify,       \* values CompressOptions::verify may have
          CrcSize,      \* sizeof(uint32_t)
          Lens,         \* lengths the compressor may produce
          MayFail       \* may reads, compression and writes fail?

ASSUME CompressAssumption ==
  /\ {BlockSize, NBatch, CrcSize} \subseteq Nat \ {0} /\ MinChunk \in 1..BlockSize
  /\ Sizes \subseteq Nat /\ Lens \subseteq Nat \ {0}
  /\ FastCDC \subseteq BOOLEAN /\ Verify \subseteq BOOLEAN /\ MayFail \in BOOLEAN

VARIABLES
  file,         \* what is in the ZFile: its options, blocks, index and trailer
  source,       \* size of the source file
  at,           \* where zfile_compress() is
  infile_size,  \* bytes read from the source
  readn,        \* bytes in raw_data
  offset,       \* those cut into chunks
  batch_start,  \* where the chunks not yet compressed begin
  chunks        \* their lengths, raw_chunk_len

compressVars == <<file, source, at, infile_size, readn, offset, batch_start, chunks>>

Total(s) == LET sum[i \in 0..Len(s)] == IF i = 0 THEN 0 ELSE sum[i - 1] + s[i] IN sum[Len(s)]
Least(a, b) == IF a < b THEN a ELSE b

\* The header has been written.
CompressInit ==
  /\ \E cdc \in FastCDC, verify \in Verify :
       file = [fastcdc |-> cdc, verify |-> verify, blocks |-> << >>, len |-> << >>, raw |-> << >>,
               original_file_size |-> 0, sealed |-> FALSE]
  /\ source \in Sizes
  /\ at = "read" /\ infile_size = 0 /\ readn = 0
  /\ offset = 0 /\ batch_start = 0 /\ chunks = << >>

\* A piece of the source, NBatch blocks long except at its end.
ReadSource ==
  /\ at = "read"
  /\ LET n == Least(BlockSize * NBatch, source - infile_size)
     IN /\ readn' = n
        /\ infile_size' = infile_size + n
        /\ at' = IF n = 0 THEN "index" ELSE "chunk"
  /\ offset' = 0 /\ batch_start' = 0 /\ chunks' = << >>
  /\ UNCHANGED <<file, source>>

\* next_chunk() finds a boundary anywhere between the smallest and the largest
\* chunk, or takes what is left when that is less.
ChunkSizes(left) ==
  IF ~file.fastcdc THEN {Least(BlockSize, left)}
  ELSE IF left <= MinChunk THEN {left}
  ELSE MinChunk..Least(BlockSize, left)

\* One chunk is cut off; a full batch is compressed before the next.
NextChunk ==
  /\ at = "chunk" /\ offset < readn /\ Len(chunks) < NBatch
  /\ \E c \in ChunkSizes(readn - offset) :
       /\ chunks' = Append(chunks, c)
       /\ offset' = offset + c
  /\ UNCHANGED <<file, source, at, infile_size, readn, batch_start>>

\* Mutant: every batch is taken from the start of the buffer.
CompressBatchFromStart ==
  /\ at = "chunk" /\ chunks # << >> /\ (Len(chunks) = NBatch \/ offset = readn)
  /\ \E len \in [1..Len(chunks) -> Lens] :
       file' = [file EXCEPT
         !.blocks = @ \o [j \in 1..Len(chunks) |->
                            [from |-> infile_size - readn + Total(SubSeq(chunks, 1, j - 1)),
                             size |-> chunks[j]]],
         !.len = @ \o [j \in 1..Len(chunks) |-> len[j] + IF file.verify THEN CrcSize ELSE 0],
         !.raw = @ \o chunks]
  /\ batch_start' = offset
  /\ chunks' = << >>
  /\ UNCHANGED <<source, at, infile_size, readn, offset>>

\* compress_batch() of the chunks from batch_start on, which lie one behind
\* the other in raw_data; each is written with its checksum.
CompressBatch ==
  /\ at = "chunk" /\ chunks # << >> /\ (Len(chunks) = NBatch \/ offset = readn)
  /\ \E len \in [1..Len(chunks) -> Lens] :
       file' = [file EXCEPT
         !.blocks = @ \o [j \in 1..Len(chunks) |->
                            [from |-> infile_size - readn + batch_start
                                        + Total(SubSeq(chunks, 1, j - 1)),
                             size |-> chunks[j]]],
         !.len = @ \o [j \in 1..Len(chunks) |-> len[j] + IF file.verify THEN CrcSize ELSE 0],
         !.raw = @ \o chunks]
  /\ batch_start' = offset
  /\ chunks' = << >>
  /\ UNCHANGED <<source, at, infile_size, readn, offset>>

\* The piece is used up.
PieceDone ==
  /\ at = "chunk" /\ offset = readn /\ chunks = << >>
  /\ at' = "read"
  /\ UNCHANGED <<file, source, infile_size, readn, offset, batch_start, chunks>>

\* Index, raw sizes and trailer, without which no reader takes the file; then
\* the header may be written over, or that may fail.  A short write of the trailer
\* is taken for success.
WriteIndex ==
  /\ at = "index"
  /\ \/ /\ file' = [file EXCEPT !.original_file_size = infile_size, !.sealed = TRUE]
        /\ at' \in IF MayFail THEN {"ok", "failed"} ELSE {"ok"}
     \/ MayFail /\ at' = "ok" /\ UNCHANGED file
  /\ UNCHANGED <<source, infile_size, readn, offset, batch_start, chunks>>

\* zfile_compress() returns -1 wherever a call fails.
CompressFails ==
  /\ MayFail /\ at \in {"read", "chunk", "index"}
  /\ at' = "failed"
  /\ UNCHANGED <<file, source, infile_size, readn, offset, batch_start, chunks>>

CompressNext ==
  ReadSource \/ NextChunk \/ CompressBatch \/ PieceDone \/ WriteIndex \/ CompressFails
==============================================================================
