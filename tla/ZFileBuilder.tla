----------------------------- MODULE ZFileBuilder -----------------------------
(***************************************************************************)
(* ZFileBuilder of overlaybd/src/overlaybd/zfile/zfile.cpp: the stream     *)
(* builder with one thread.  write() completes the block kept back from    *)
(* earlier calls, compresses whole blocks straight from the caller's       *)
(* buffer and keeps the rest in reserved_buf; close() writes that rest,    *)
(* the index and the trailer.                                              *)
(*                                                                         *)
(* A caller may go on after a failed write(), as overlaybd-commit does     *)
(* when it calls close() whatever commit() returned.                       *)
(***************************************************************************)
EXTENDS Integers, Sequences

CONSTANTS BlockSize,      \* CompressOptions::block_size
          WriteSizes,     \* the counts a caller may pass to one write()
          MaxBytes,       \* bound on the length of the raw stream
          MayFail,        \* may compression and file writes fail?
          OverwriteHeader,\* CompressArgs::overwrite_header
          CompressedSizes,\* lengths compress_data may return, crc included
          Junk,           \* content of a buffer byte nobody wrote
          NoRecord,       \* an index, trailer or header not written yet
          Torn            \* a header or trailer of which a part was written

ASSUME StreamAssumption ==
  /\ BlockSize \in Nat \ {0} /\ WriteSizes \subseteq Nat /\ MaxBytes \in Nat
  /\ CompressedSizes \subseteq Nat \ {0}
  /\ MayFail \in BOOLEAN /\ OverwriteHeader \in BOOLEAN

VARIABLES
  pc,             \* where the caller is in write() or close()
  count,          \* bytes of the current write() not yet consumed
  raw_data_size, reserved_size, reserved_buf, moffset, m_block_len,
  dest,           \* whole blocks in m_dest, each with its file offset
  start,          \* where init() left the end of the file
  end,            \* where the next append to m_dest lands
  index, trailer, header,
  reported        \* has some write() returned -1?

bufVars == <<count, raw_data_size, reserved_size, reserved_buf>>
blockVars == <<moffset, m_block_len, dest, start, end>>
recordVars == <<index, trailer, header>>
vars == <<pc, bufVars, blockVars, recordVars, reported>>

HeaderSpace == 512

\* init() takes a short write of the first header for success.
Init ==
  /\ pc = "open" /\ count = 0 /\ raw_data_size = 0 /\ reserved_size = 0
  /\ reserved_buf = [i \in 0..(BlockSize - 1) |-> Junk]
  /\ moffset = HeaderSpace /\ m_block_len = << >> /\ dest = << >>
  /\ start \in IF MayFail THEN {HeaderSpace, HeaderSpace - 1} ELSE {HeaderSpace}
  /\ end = start
  /\ index = NoRecord /\ trailer = NoRecord /\ header = NoRecord
  /\ reported = FALSE

-----------------------------------------------------------------------------
(* write_buffer() *)

\* The block goes to the file, then into the index.
WroteBlock(data) ==
  \E n \in CompressedSizes :
    /\ dest' = Append(dest, [at |-> end, len |-> n, data |-> data])
    /\ end' = end + n
    /\ m_block_len' = Append(m_block_len, n)
    /\ moffset' = moffset + n
    /\ UNCHANGED start

\* Compression failed, or m_dest took none or only a part of the block.
LostBlock ==
  /\ MayFail
  /\ end' \in {end, end + 1}
  /\ UNCHANGED <<moffset, m_block_len, dest, start>>

\* len bytes of the stream, the first of them at position from.
Span(from, len) == [i \in 0..(len - 1) |-> from + i]

\* The position in the stream of the next byte of the pending write().
Here == raw_data_size - count

\* reserved_buf after memcpy of len pending bytes behind the reserved ones.
Filled(len) ==
  [i \in 0..(BlockSize - 1) |->
     IF i >= reserved_size /\ i < reserved_size + len
     THEN Here + (i - reserved_size) ELSE reserved_buf[i]]

-----------------------------------------------------------------------------
(* write() *)

Write(n) ==
  /\ pc = "open"
  /\ raw_data_size + n <= MaxBytes
  /\ raw_data_size' = raw_data_size + n
  /\ count' = n
  /\ pc' = "write"
  /\ UNCHANGED <<reserved_size, reserved_buf, blockVars, recordVars, reported>>

\* Too little for a block: keep it for later and return.
Reserve ==
  /\ pc = "write"
  /\ reserved_size + count < BlockSize
  /\ reserved_buf' = Filled(count)
  /\ reserved_size' = reserved_size + count
  /\ count' = 0
  /\ pc' = "open"
  /\ UNCHANGED <<raw_data_size, blockVars, recordVars, reported>>

\* A failing write_buffer() makes write() return -1 with the rest of the
\* caller's bytes dropped and reserved_size as it was.
WriteFails ==
  /\ LostBlock
  /\ reported' = TRUE
  /\ count' = 0
  /\ pc' = "open"
  /\ UNCHANGED reserved_size

\* The pending bytes complete the reserved block.
CompleteBlock ==
  /\ pc = "write"
  /\ reserved_size > 0 /\ reserved_size + count >= BlockSize
  /\ reserved_buf' = Filled(BlockSize - reserved_size)
  /\ \/ /\ WroteBlock(Filled(BlockSize - reserved_size))
        /\ count' = count - (BlockSize - reserved_size)
        /\ reserved_size' = 0
        /\ UNCHANGED <<pc, reported>>
     \/ WriteFails
  /\ UNCHANGED <<raw_data_size, recordVars>>

\* A whole block straight from the caller's buffer.
DirectBlock ==
  /\ pc = "write"
  /\ reserved_size = 0 /\ count >= BlockSize
  /\ \/ /\ WroteBlock(Span(Here, BlockSize))
        /\ count' = count - BlockSize
        /\ UNCHANGED <<pc, reserved_size, reported>>
     \/ WriteFails
  /\ UNCHANGED <<raw_data_size, reserved_buf, recordVars>>

-----------------------------------------------------------------------------
(* close() and fini() *)

Close ==
  /\ pc = "open"
  /\ pc' = "fini"
  /\ UNCHANGED <<bufVars, blockVars, recordVars, reported>>

\* Mutant: fini() ignores what write_buffer() returned for the last block.
FiniReservedUnchecked ==
  /\ pc = "fini"
  /\ IF reserved_size = 0 THEN UNCHANGED blockVars
     ELSE WroteBlock([i \in 0..(reserved_size - 1) |-> reserved_buf[i]]) \/ LostBlock
  /\ pc' = "index"
  /\ UNCHANGED <<bufVars, recordVars, reported>>

\* Mutant: the reserved bytes are taken for a whole block.
FiniReservedWhole ==
  /\ pc = "fini"
  /\ IF reserved_size = 0 THEN UNCHANGED blockVars ELSE WroteBlock(reserved_buf)
  /\ pc' = "index"
  /\ UNCHANGED <<bufVars, recordVars, reported>>

FiniReserved ==
  /\ pc = "fini"
  /\ \/ reserved_size = 0 /\ pc' = "index" /\ UNCHANGED blockVars
     \/ /\ reserved_size > 0
        /\ WroteBlock([i \in 0..(reserved_size - 1) |-> reserved_buf[i]])
        /\ pc' = "index"
     \/ reserved_size > 0 /\ LostBlock /\ pc' = "failed"
  /\ UNCHANGED <<bufVars, recordVars, reported>>

FiniIndex ==
  /\ pc = "index"
  /\ \/ index' = [at |-> end, lens |-> m_block_len] /\ pc' = "trailer"
     \/ MayFail /\ pc' = "failed" /\ UNCHANGED index
  /\ UNCHANGED <<bufVars, blockVars, trailer, header, reported>>

\* What fini() has put into m_ht.
HeaderTrailer == [index_offset |-> moffset, index_size |-> Len(m_block_len),
                  original_file_size |-> raw_data_size]

\* write_header_trailer() returns what write() returned, and only a negative
\* result is an error: a short write counts as success.
Stored(record) == {record} \union (IF MayFail THEN {Torn} ELSE {})

FiniTrailer ==
  /\ pc = "trailer"
  /\ \/ /\ trailer' \in Stored(HeaderTrailer)
        /\ pc' = IF OverwriteHeader THEN "header" ELSE "ok"
     \/ MayFail /\ pc' = "failed" /\ UNCHANGED trailer
  /\ UNCHANGED <<bufVars, blockVars, index, header, reported>>

FiniHeader ==
  /\ pc = "header"
  /\ \/ header' \in Stored(HeaderTrailer) /\ pc' = "ok"
     \/ MayFail /\ pc' = "failed" /\ UNCHANGED header
  /\ UNCHANGED <<bufVars, blockVars, index, trailer, reported>>

Next ==
  \/ \E n \in WriteSizes : Write(n)
  \/ Reserve
  \/ CompleteBlock
  \/ DirectBlock
  \/ Close
  \/ FiniReserved
  \/ FiniIndex
  \/ FiniTrailer
  \/ FiniHeader

Spec == Init /\ [][Next]_vars
-----------------------------------------------------------------------------
(* Properties *)

\* What the builder does is one way to build a ZFileStream; a write() that
\* returned -1 ends what it promises.
AbstractPhase ==
  CASE reported \/ pc = "failed" -> "failed"
    [] ~reported /\ pc = "ok" -> "ok"
    [] ~reported /\ pc \in {"open", "write"} -> "open"
    [] OTHER -> "closing"
FileBlocks == [k \in 1..Len(dest) |-> dest[k].data]
Stream == INSTANCE ZFileStream WITH
            raw <- raw_data_size, phase <- AbstractPhase, blocks <- FileBlocks
ImplementsStream == Stream!Spec

\* The counters of the builder keep their types; a reserved block is never a
\* whole one.
TypeOK ==
  /\ pc \in {"open", "write", "fini", "index", "trailer", "header", "ok", "failed"}
  /\ count \in Nat /\ raw_data_size \in Nat /\ reserved_size \in 0..(BlockSize - 1)
  /\ moffset \in Nat /\ end \in Nat /\ m_block_len \in Seq(Nat) /\ reported \in BOOLEAN

\* When every write() succeeded and close() returns 0, the file has every byte
\* of the stream in order, the index gives each block its true offset and
\* length, and the trailer (and header) point at the index; except that a header
\* or trailer of which only a part was written passes for written.
CloseOkComplete ==
  (pc = "ok" /\ ~reported) =>
    /\ \A p \in 0..(raw_data_size - 1) :
         LET k == p \div BlockSize + 1
         IN k <= Len(dest) /\ dest[k].data[p % BlockSize] = p
    /\ m_block_len = [k \in 1..Len(dest) |-> dest[k].len]
    /\ index.lens = m_block_len
    /\ start = HeaderSpace =>
         LET right == [index_offset |-> index.at, index_size |-> Len(dest),
                       original_file_size |-> raw_data_size]
         IN trailer \in {right, Torn} /\ (OverwriteHeader => header \in {right, Torn})
==============================================================================
