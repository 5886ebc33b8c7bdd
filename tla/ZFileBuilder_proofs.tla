-------------------------- MODULE ZFileBuilder_proofs --------------------------
(***************************************************************************)
(* Proofs that ZFileBuilder, for any block size and any sequence of        *)
(* write() calls, whatever fails or is written in part: close() returns 0  *)
(* only for a complete file, and the builder implements ZFileStream.       *)
(*                                                                         *)
(* As long as no call has failed, the bytes taken so far are Len(dest)     *)
(* whole blocks and the reserved ones.                                     *)
(***************************************************************************)
EXTENDS ZFileBuilder, TLAPS

BlockSet == UNION {[0..(n - 1) -> Nat \union {Junk}] : n \in Nat}
DestRecord == [at : Nat, len : Nat, data : BlockSet]

DataTypes ==
  /\ TypeOK
  /\ count <= raw_data_size
  /\ reserved_buf \in [0..(BlockSize - 1) -> Nat \union {Junk}]
  /\ dest \in Seq(DestRecord)
  /\ start \in Nat

Open == pc \in {"open", "write", "fini"}
Finished == pc \in {"index", "trailer", "header", "ok"}

\* Block k of the file is whole.
Whole(k) == dest[k].data = Span((k - 1) * BlockSize, BlockSize)

\* What the builder holds back follows what it has written.
Buffered ==
  /\ Here = Len(dest) * BlockSize + reserved_size
  /\ \A i \in 0..(reserved_size - 1) : reserved_buf[i] = Len(dest) * BlockSize + i
  /\ \A k \in 1..Len(dest) : Whole(k)

\* Everything is written, the last block being what is left.
Written ==
  /\ raw_data_size <= Len(dest) * BlockSize
  /\ \A k \in 1..Len(dest) :
       /\ k * BlockSize <= raw_data_size => Whole(k)
       /\ k * BlockSize > raw_data_size =>
            dest[k].data = Span((k - 1) * BlockSize, raw_data_size - (k - 1) * BlockSize)

\* The index in memory describes the file.
Indexed ==
  /\ Len(m_block_len) = Len(dest)
  /\ \A k \in 1..Len(dest) : m_block_len[k] = dest[k].len
  /\ moffset - HeaderSpace = end - start

Records ==
  /\ pc \in {"trailer", "header", "ok"} => index = [at |-> end, lens |-> m_block_len]
  /\ pc \in {"header", "ok"} =>
       trailer \in {HeaderTrailer, Torn}
  /\ pc = "ok" /\ OverwriteHeader => header \in {HeaderTrailer, Torn}

Promise ==
  /\ pc # "write" => count = 0
  /\ Open => Buffered
  /\ Finished => Written
  /\ Indexed
  /\ Records

IInv == DataTypes /\ (~reported /\ pc # "failed" => Promise)

-----------------------------------------------------------------------------
(* Operators *)

\* Multiples of BlockSize grow by BlockSize and are monotonic.
LEMMA Multiples ==
  /\ 0 * BlockSize = 0
  /\ \A a \in Nat : a * BlockSize \in Nat /\ (a + 1) * BlockSize = a * BlockSize + BlockSize
  /\ \A a, b \in Nat : a <= b => a * BlockSize <= b * BlockSize
  BY StreamAssumption

\* A byte lies in the block its position says.
LEMMA Division ==
  ASSUME NEW p \in Nat
  PROVE  /\ p \div BlockSize \in Nat /\ p % BlockSize \in 0..(BlockSize - 1)
         /\ p = (p \div BlockSize) * BlockSize + (p % BlockSize)
  BY StreamAssumption

\* Pieces of the stream are contents of a block.
LEMMA SpanType ==
  ASSUME NEW from \in Nat, NEW len \in Nat
  PROVE  Span(from, len) \in BlockSet
<1>1. Span(from, len) \in [0..(len - 1) -> Nat \union {Junk}]
  BY DEF Span
<1> QED
  BY <1>1 DEF BlockSet

\* What memcpy() leaves in reserved_buf.
LEMMA FilledType ==
  ASSUME DataTypes, NEW len \in Nat
  PROVE  /\ Here \in Nat
         /\ Filled(len) \in [0..(BlockSize - 1) -> Nat \union {Junk}]
         /\ Filled(len) \in BlockSet
<1>1. Here \in Nat
  BY DEF Here, DataTypes, TypeOK
<1>2. ASSUME NEW i \in 0..(BlockSize - 1)
      PROVE  (IF i >= reserved_size /\ i < reserved_size + len
              THEN Here + (i - reserved_size) ELSE reserved_buf[i]) \in Nat \union {Junk}
  BY <1>1, StreamAssumption DEF DataTypes, TypeOK
<1>3. Filled(len) \in [0..(BlockSize - 1) -> Nat \union {Junk}]
  BY <1>2 DEF Filled
<1> QED
  BY <1>1, <1>3, StreamAssumption DEF BlockSet

\* The reserved bytes are contents of a block.
LEMMA ReservedType ==
  ASSUME DataTypes
  PROVE  [i \in 0..(reserved_size - 1) |-> reserved_buf[i]] \in BlockSet
<1>1. [i \in 0..(reserved_size - 1) |-> reserved_buf[i]]
        \in [0..(reserved_size - 1) -> Nat \union {Junk}]
  BY StreamAssumption DEF DataTypes, TypeOK
<1>2. reserved_size \in Nat
  BY StreamAssumption DEF DataTypes, TypeOK
<1> QED
  BY <1>1, <1>2 DEF BlockSet

\* A block that is written goes behind the others, in the file and the index.
LEMMA WroteFacts ==
  ASSUME DataTypes, NEW data \in BlockSet, WroteBlock(data)
  PROVE  /\ dest' \in Seq(DestRecord) /\ Len(dest) \in Nat /\ Len(dest') = Len(dest) + 1
         /\ dest'[Len(dest) + 1].data = data
         /\ \A k \in 1..Len(dest) : dest'[k] = dest[k]
         /\ end' \in Nat /\ moffset' \in Nat /\ m_block_len' \in Seq(Nat) /\ start' = start
         /\ Indexed => Indexed'
<1>1. PICK n \in CompressedSizes :
        /\ dest' = Append(dest, [at |-> end, len |-> n, data |-> data])
        /\ end' = end + n
        /\ m_block_len' = Append(m_block_len, n)
        /\ moffset' = moffset + n
        /\ start' = start
  BY DEF WroteBlock
<1>2. n \in Nat /\ end \in Nat /\ moffset \in Nat /\ m_block_len \in Seq(Nat)
      /\ dest \in Seq(DestRecord) /\ start \in Nat
  BY StreamAssumption DEF DataTypes, TypeOK
<1>3. [at |-> end, len |-> n, data |-> data] \in DestRecord
  BY <1>2 DEF DestRecord
<1>4. /\ dest' \in Seq(DestRecord) /\ Len(dest) \in Nat /\ Len(dest') = Len(dest) + 1
      /\ dest'[Len(dest) + 1] = [at |-> end, len |-> n, data |-> data]
      /\ \A k \in 1..Len(dest) : dest'[k] = dest[k]
  BY <1>1, <1>2, <1>3
<1>5. end' \in Nat /\ moffset' \in Nat /\ m_block_len' \in Seq(Nat) /\ start' = start
  BY <1>1, <1>2
<1>6. ASSUME Indexed PROVE Indexed'
  <2>1. Len(m_block_len') = Len(dest') /\ moffset' - HeaderSpace = end' - start'
    BY <1>1, <1>2, <1>4, <1>6 DEF Indexed, HeaderSpace
  <2>2. ASSUME NEW k \in 1..Len(dest') PROVE m_block_len'[k] = dest'[k].len
    <3>1. CASE k = Len(dest) + 1
      BY <1>1, <1>2, <1>4, <1>6, <3>1 DEF Indexed
    <3>2. CASE k \in 1..Len(dest)
      BY <1>1, <1>2, <1>4, <1>6, <3>2 DEF Indexed
    <3> QED
      BY <1>4, <2>2, <3>1, <3>2
  <2> QED
    BY <2>1, <2>2 DEF Indexed
<1> QED
  BY <1>4, <1>5, <1>6

-----------------------------------------------------------------------------
(* Types *)

LEMMA TypeStep ==
  ASSUME DataTypes, [Next]_vars
  PROVE  DataTypes'
<1> USE DEF bufVars, blockVars, recordVars
<1>0. /\ BlockSize \in Nat \ {0} /\ reserved_size \in Nat /\ reserved_size < BlockSize
      /\ count \in Nat /\ raw_data_size \in Nat /\ count <= raw_data_size
  BY StreamAssumption DEF DataTypes, TypeOK
<1>1. ASSUME NEW n \in WriteSizes, Write(n) PROVE DataTypes'
  BY <1>1, StreamAssumption DEF Write, DataTypes, TypeOK
<1>2. CASE Reserve
  <2>1. reserved_buf' \in [0..(BlockSize - 1) -> Nat \union {Junk}]
    BY <1>0, <1>2, FilledType DEF Reserve
  <2>2. reserved_size' \in 0..(BlockSize - 1)
    BY <1>0, <1>2 DEF Reserve
  <2> QED
    BY <1>0, <1>2, <2>1, <2>2 DEF Reserve, DataTypes, TypeOK
<1>3. CASE CompleteBlock
  <2>1. /\ BlockSize - reserved_size \in Nat
        /\ Filled(BlockSize - reserved_size) \in [0..(BlockSize - 1) -> Nat \union {Junk}]
        /\ Filled(BlockSize - reserved_size) \in BlockSet
    BY <1>0, FilledType
  <2>2. CASE /\ WroteBlock(Filled(BlockSize - reserved_size))
             /\ count' = count - (BlockSize - reserved_size)
             /\ reserved_size' = 0
             /\ UNCHANGED <<pc, reported>>
    <3>1. count' \in Nat /\ count' <= raw_data_size /\ reserved_size' \in 0..(BlockSize - 1)
      BY <1>0, <1>3, <2>2 DEF CompleteBlock
    <3>2. /\ dest' \in Seq(DestRecord)
          /\ end' \in Nat /\ moffset' \in Nat /\ m_block_len' \in Seq(Nat) /\ start' = start
      BY <2>1, <2>2, WroteFacts
    <3> QED
      BY <1>3, <2>1, <2>2, <3>1, <3>2 DEF CompleteBlock, DataTypes, TypeOK
  <2>3. CASE WriteFails
    BY <1>0, <1>3, <2>1, <2>3 DEF CompleteBlock, WriteFails, LostBlock, DataTypes, TypeOK
  <2> QED
    BY <1>3, <2>2, <2>3 DEF CompleteBlock
<1>4. CASE DirectBlock
  <2>1. Here \in Nat /\ Span(Here, BlockSize) \in BlockSet
    BY <1>0, FilledType, SpanType
  <2>2. CASE /\ WroteBlock(Span(Here, BlockSize))
             /\ count' = count - BlockSize
             /\ UNCHANGED <<pc, reserved_size, reported>>
    <3>1. count' \in Nat /\ count' <= raw_data_size
      BY <1>0, <1>4, <2>2 DEF DirectBlock
    <3>2. /\ dest' \in Seq(DestRecord)
          /\ end' \in Nat /\ moffset' \in Nat /\ m_block_len' \in Seq(Nat) /\ start' = start
      BY <2>1, <2>2, WroteFacts
    <3> QED
      BY <1>4, <2>2, <3>1, <3>2 DEF DirectBlock, DataTypes, TypeOK
  <2>3. CASE WriteFails
    BY <1>0, <1>4, <2>3 DEF DirectBlock, WriteFails, LostBlock, DataTypes, TypeOK
  <2> QED
    BY <1>4, <2>2, <2>3 DEF DirectBlock
<1>5. CASE Close
  BY <1>5 DEF Close, DataTypes, TypeOK
<1>6. CASE FiniReserved
  <2>1. CASE WroteBlock([i \in 0..(reserved_size - 1) |-> reserved_buf[i]]) /\ pc' = "index"
    <3>1. /\ dest' \in Seq(DestRecord)
          /\ end' \in Nat /\ moffset' \in Nat /\ m_block_len' \in Seq(Nat) /\ start' = start
      BY <2>1, ReservedType, WroteFacts
    <3> QED
      BY <1>6, <2>1, <3>1 DEF FiniReserved, DataTypes, TypeOK
  <2>2. CASE LostBlock /\ pc' = "failed"
    BY <1>6, <2>2 DEF FiniReserved, LostBlock, DataTypes, TypeOK
  <2>3. CASE pc' = "index" /\ UNCHANGED blockVars
    BY <1>6, <2>3 DEF FiniReserved, DataTypes, TypeOK
  <2> QED
    BY <1>6, <2>1, <2>2, <2>3 DEF FiniReserved
<1>7. CASE FiniIndex
  BY <1>7 DEF FiniIndex, DataTypes, TypeOK
<1>8. CASE FiniTrailer
  BY <1>8 DEF FiniTrailer, DataTypes, TypeOK
<1>9. CASE FiniHeader
  BY <1>9 DEF FiniHeader, DataTypes, TypeOK
<1>10. CASE UNCHANGED vars
  BY <1>10 DEF vars, DataTypes, TypeOK
<1> QED
  BY <1>1, <1>2, <1>3, <1>4, <1>5, <1>6, <1>7, <1>8, <1>9, <1>10 DEF Next

-----------------------------------------------------------------------------
(* The promise *)

\* A whole block that continues the stream keeps the file in order.
LEMMA WholeBlock ==
  ASSUME DataTypes, Buffered, NEW data \in BlockSet, WroteBlock(data),
         data = Span(Len(dest) * BlockSize, BlockSize)
  PROVE  \A k \in 1..Len(dest') : Whole(k)'
<1>1. /\ Len(dest) \in Nat /\ Len(dest') = Len(dest) + 1
      /\ dest'[Len(dest) + 1].data = data
      /\ \A k \in 1..Len(dest) : dest'[k] = dest[k]
  BY WroteFacts
<1>2. ASSUME NEW k \in 1..Len(dest) PROVE Whole(k)'
  <2>1. dest'[k] = dest[k] /\ dest[k].data = Span((k - 1) * BlockSize, BlockSize)
    BY <1>1 DEF Buffered, Whole
  <2> QED
    BY <2>1 DEF Whole, Span
<1>3. ASSUME NEW k \in 1..Len(dest'), k = Len(dest) + 1 PROVE Whole(k)'
  <2>1. k - 1 = Len(dest)
    BY <1>1, <1>3
  <2>2. dest'[k].data = Span((k - 1) * BlockSize, BlockSize)
    BY <1>1, <1>3, <2>1
  <2> QED
    BY <2>2 DEF Whole, Span
<1> QED
  BY <1>1, <1>2, <1>3

\* The bytes of an incomplete block are reserved.
LEMMA ReserveStep ==
  ASSUME DataTypes, Promise, Reserve
  PROVE  Promise'
<1> USE DEF bufVars, blockVars, recordVars
<1>0. /\ BlockSize \in Nat \ {0} /\ reserved_size \in Nat /\ reserved_size < BlockSize
      /\ count \in Nat /\ raw_data_size \in Nat /\ count <= raw_data_size
      /\ Len(dest) \in Nat /\ Len(dest) * BlockSize \in Nat
  BY StreamAssumption, Multiples DEF DataTypes, TypeOK
<1>1. /\ reserved_size + count < BlockSize /\ reserved_buf' = Filled(count)
      /\ reserved_size' = reserved_size + count /\ count' = 0 /\ pc' = "open" /\ pc = "write"
      /\ UNCHANGED <<raw_data_size, blockVars, recordVars, reported>>
  BY DEF Reserve
<1>2. Buffered
  BY <1>1 DEF Promise, Open
<1>3. Here' = Len(dest) * BlockSize + reserved_size'
  BY <1>0, <1>1, <1>2 DEF Buffered, Here
<1>4. ASSUME NEW i \in 0..(reserved_size' - 1)
      PROVE  reserved_buf'[i] = Len(dest) * BlockSize + i
  <2>1. i \in 0..(BlockSize - 1)
    BY <1>0, <1>1
  <2>2. reserved_buf'[i] = IF i >= reserved_size /\ i < reserved_size + count
                           THEN Here + (i - reserved_size) ELSE reserved_buf[i]
    BY <1>1, <2>1 DEF Filled
  <2>3. CASE i < reserved_size
    BY <1>0, <1>2, <2>2, <2>3 DEF Buffered
  <2>4. CASE i >= reserved_size
    <3>1. i < reserved_size + count
      BY <1>0, <1>1
    <3>2. Here = Len(dest) * BlockSize + reserved_size
      BY <1>2 DEF Buffered
    <3> QED
      BY <1>0, <2>2, <2>4, <3>1, <3>2
  <2> QED
    BY <1>0, <2>3, <2>4
<1>5. Buffered'
  BY <1>1, <1>2, <1>3, <1>4 DEF Buffered, Whole
<1> QED
  BY <1>1, <1>5 DEF Promise, Open, Finished, Indexed, Records

\* The block completed in reserved_buf.
LEMMA CompleteStep ==
  ASSUME DataTypes, Promise, CompleteBlock, ~reported'
  PROVE  /\ Promise' /\ WroteBlock(Span(Len(dest) * BlockSize, BlockSize))
         /\ (Len(dest) + 1) * BlockSize <= raw_data_size
         /\ pc = "write" /\ pc' = "write"
<1> USE DEF bufVars, blockVars, recordVars
<1>0. /\ BlockSize \in Nat \ {0} /\ reserved_size \in Nat /\ reserved_size < BlockSize
      /\ count \in Nat /\ raw_data_size \in Nat /\ count <= raw_data_size
      /\ Len(dest) \in Nat /\ Len(dest) * BlockSize \in Nat
      /\ (Len(dest) + 1) * BlockSize = Len(dest) * BlockSize + BlockSize
  BY StreamAssumption, Multiples DEF DataTypes, TypeOK
<1>1. /\ reserved_size + count >= BlockSize /\ pc = "write"
      /\ WroteBlock(Filled(BlockSize - reserved_size))
      /\ count' = count - (BlockSize - reserved_size) /\ reserved_size' = 0
      /\ UNCHANGED <<pc, reported, raw_data_size, recordVars>>
  BY DEF CompleteBlock, WriteFails
<1>2. Buffered
  BY <1>1 DEF Promise, Open
<1>3. Here = Len(dest) * BlockSize + reserved_size
  BY <1>2 DEF Buffered
<1>4. ASSUME NEW i \in 0..(BlockSize - 1)
      PROVE  (IF i >= reserved_size /\ i < reserved_size + (BlockSize - reserved_size)
              THEN Here + (i - reserved_size) ELSE reserved_buf[i]) = Len(dest) * BlockSize + i
  <2>1. CASE i < reserved_size
    BY <1>0, <1>2, <2>1 DEF Buffered
  <2>2. CASE i >= reserved_size
    BY <1>0, <1>3, <2>2
  <2> QED
    BY <1>0, <2>1, <2>2
<1>5. Filled(BlockSize - reserved_size) = Span(Len(dest) * BlockSize, BlockSize)
  BY <1>4 DEF Filled, Span
<1>6. Filled(BlockSize - reserved_size) \in BlockSet
  BY <1>0, FilledType
<1>7. \A k \in 1..Len(dest') : Whole(k)'
  BY <1>1, <1>2, <1>5, <1>6, WholeBlock
<1>8. Len(dest') = Len(dest) + 1 /\ (Indexed => Indexed')
  BY <1>1, <1>6, WroteFacts
<1>9. Here' = Len(dest') * BlockSize + reserved_size'
  BY <1>0, <1>1, <1>3, <1>8 DEF Here
<1>10. Buffered'
  BY <1>1, <1>7, <1>9 DEF Buffered
<1>11. (Len(dest) + 1) * BlockSize <= raw_data_size
  BY <1>0, <1>1, <1>3 DEF Here
<1> QED
  BY <1>1, <1>5, <1>8, <1>10, <1>11 DEF Promise, Open, Finished, Records

\* A block straight from the caller's buffer.
LEMMA DirectStep ==
  ASSUME DataTypes, Promise, DirectBlock, ~reported'
  PROVE  /\ Promise' /\ WroteBlock(Span(Len(dest) * BlockSize, BlockSize))
         /\ (Len(dest) + 1) * BlockSize <= raw_data_size
         /\ pc = "write" /\ pc' = "write"
<1> USE DEF bufVars, blockVars, recordVars
<1>0. /\ BlockSize \in Nat \ {0}
      /\ count \in Nat /\ raw_data_size \in Nat /\ count <= raw_data_size
      /\ Len(dest) \in Nat /\ Len(dest) * BlockSize \in Nat
      /\ (Len(dest) + 1) * BlockSize = Len(dest) * BlockSize + BlockSize
  BY StreamAssumption, Multiples DEF DataTypes, TypeOK
<1>1. /\ reserved_size = 0 /\ reserved_size' = 0 /\ count >= BlockSize /\ pc = "write"
      /\ WroteBlock(Span(Here, BlockSize)) /\ count' = count - BlockSize
      /\ UNCHANGED <<pc, reported, raw_data_size, recordVars>>
  BY DEF DirectBlock, WriteFails
<1>2. Buffered
  BY <1>1 DEF Promise, Open
<1>3. Here = Len(dest) * BlockSize
  BY <1>0, <1>1, <1>2 DEF Buffered
<1>4. Span(Here, BlockSize) \in BlockSet
  BY <1>0, <1>3, SpanType
<1>5. \A k \in 1..Len(dest') : Whole(k)'
  BY <1>1, <1>2, <1>3, <1>4, WholeBlock
<1>6. Len(dest') = Len(dest) + 1 /\ (Indexed => Indexed')
  BY <1>1, <1>4, WroteFacts
<1>7. Here' = Len(dest') * BlockSize + reserved_size'
  BY <1>0, <1>1, <1>3, <1>6 DEF Here
<1>8. Buffered'
  BY <1>1, <1>5, <1>7 DEF Buffered
<1>9. (Len(dest) + 1) * BlockSize <= raw_data_size
  BY <1>0, <1>1, <1>3 DEF Here
<1> QED
  BY <1>1, <1>3, <1>6, <1>8, <1>9 DEF Promise, Open, Finished, Records

\* The last block, if any, is what was reserved.
LEMMA FiniStep ==
  ASSUME DataTypes, Promise, FiniReserved, pc' # "failed"
  PROVE  /\ Promise' /\ pc = "fini" /\ pc' = "index"
         /\ raw_data_size = Len(dest) * BlockSize + reserved_size
         /\ \/ reserved_size = 0 /\ UNCHANGED blockVars
            \/ /\ reserved_size > 0
               /\ WroteBlock(Span(Len(dest) * BlockSize, reserved_size))
<1> USE DEF bufVars, blockVars, recordVars
<1>0. /\ BlockSize \in Nat \ {0} /\ reserved_size \in Nat /\ reserved_size < BlockSize
      /\ count \in Nat /\ raw_data_size \in Nat /\ count <= raw_data_size
      /\ Len(dest) \in Nat /\ Len(dest) * BlockSize \in Nat
      /\ (Len(dest) + 1) * BlockSize = Len(dest) * BlockSize + BlockSize
  BY StreamAssumption, Multiples DEF DataTypes, TypeOK
<1>1. pc = "fini" /\ pc' = "index" /\ UNCHANGED <<bufVars, recordVars, reported>>
  BY DEF FiniReserved
<1>2. Buffered /\ count = 0
  BY <1>1 DEF Promise, Open
<1>3. raw_data_size = Len(dest) * BlockSize + reserved_size
  BY <1>0, <1>2 DEF Buffered, Here
<1>4. ASSUME NEW k \in 1..Len(dest)
      PROVE  k * BlockSize <= raw_data_size /\ dest[k].data = Span((k - 1) * BlockSize, BlockSize)
  <2>1. k * BlockSize <= Len(dest) * BlockSize /\ k * BlockSize \in Nat
    BY <1>0, Multiples
  <2> QED
    BY <1>0, <1>2, <1>3, <2>1 DEF Buffered, Whole
<1>5. CASE reserved_size = 0 /\ UNCHANGED blockVars
  <2>1. Written'
    <3>1. raw_data_size' <= Len(dest') * BlockSize
      BY <1>0, <1>1, <1>3, <1>5
    <3>2. ASSUME NEW k \in 1..Len(dest')
          PROVE  k * BlockSize <= raw_data_size' /\ Whole(k)'
      BY <1>1, <1>4, <1>5 DEF Whole, Span
    <3>3. ASSUME NEW k \in 1..Len(dest') PROVE ~(k * BlockSize > raw_data_size')
      <4>1. k * BlockSize \in Nat
        BY <1>0, Multiples
      <4> QED
        BY <1>0, <1>1, <3>2, <4>1
    <3> QED
      BY <3>1, <3>2, <3>3 DEF Written
  <2> QED
    BY <1>1, <1>2, <1>3, <1>5, <2>1 DEF Promise, Open, Finished, Indexed, Records
<1>6. CASE /\ reserved_size > 0
           /\ WroteBlock([i \in 0..(reserved_size - 1) |-> reserved_buf[i]])
  <2>1. [i \in 0..(reserved_size - 1) |-> reserved_buf[i]]
          = Span(Len(dest) * BlockSize, reserved_size)
    BY <1>2 DEF Buffered, Span
  <2>2. Span(Len(dest) * BlockSize, reserved_size) \in BlockSet
    BY <1>0, SpanType
  <2>3. WroteBlock(Span(Len(dest) * BlockSize, reserved_size))
    BY <1>6, <2>1
  <2>4. /\ Len(dest') = Len(dest) + 1
        /\ dest'[Len(dest) + 1].data = Span(Len(dest) * BlockSize, reserved_size)
        /\ \A k \in 1..Len(dest) : dest'[k] = dest[k]
        /\ Indexed => Indexed'
    BY <2>2, <2>3, WroteFacts
  <2>5. Written'
    <3>1. raw_data_size' <= Len(dest') * BlockSize
      BY <1>0, <1>1, <1>3, <2>4
    <3>2. ASSUME NEW k \in 1..Len(dest')
          PROVE  /\ k * BlockSize <= raw_data_size' => Whole(k)'
                 /\ k * BlockSize > raw_data_size' =>
                      dest'[k].data = Span((k - 1) * BlockSize,
                                           raw_data_size' - (k - 1) * BlockSize)
      <4>1. CASE k \in 1..Len(dest)
        <5>1. k * BlockSize <= raw_data_size' /\ k * BlockSize \in Nat
          BY <1>0, <1>1, <1>4, <4>1, Multiples
        <5>2. Whole(k)'
          BY <1>4, <2>4, <4>1 DEF Whole, Span
        <5> QED
          BY <1>0, <1>1, <5>1, <5>2
      <4>2. CASE k = Len(dest) + 1
        <5>1. k * BlockSize > raw_data_size'
          BY <1>0, <1>1, <1>3, <4>2
        <5>2. (k - 1) * BlockSize = Len(dest) * BlockSize
          BY <1>0, <4>2
        <5>3. raw_data_size' - (k - 1) * BlockSize = reserved_size
          BY <1>0, <1>1, <1>3, <5>2
        <5>4. k * BlockSize \in Nat
          BY <1>0, <4>2
        <5> QED
          BY <1>0, <1>1, <2>4, <4>2, <5>1, <5>2, <5>3, <5>4
      <4> QED
        BY <1>0, <2>4, <4>1, <4>2
    <3>3. ASSUME NEW k \in 1..Len(dest'), k * BlockSize > raw_data_size'
          PROVE  (dest[k].data = Span((k - 1) * BlockSize,
                                      raw_data_size - (k - 1) * BlockSize))'
      BY <3>2, <3>3 DEF Span
    <3> QED
      BY <3>1, <3>2, <3>3 DEF Written
  <2> QED
    BY <1>1, <1>2, <1>3, <1>6, <2>3, <2>4, <2>5 DEF Promise, Open, Finished, Records
<1> QED
  BY <1>5, <1>6 DEF FiniReserved

\* Every step keeps the promise as long as nothing has failed.
LEMMA PromiseStep ==
  ASSUME DataTypes, ~reported /\ pc # "failed" => Promise, [Next]_vars, ~reported',
         pc' # "failed"
  PROVE  Promise /\ Promise'
<1> USE DEF bufVars, blockVars, recordVars
<1>0. ~reported /\ pc # "failed"
  BY DEF Next, Write, Reserve, CompleteBlock, DirectBlock, WriteFails, Close, FiniReserved,
         FiniIndex, FiniTrailer, FiniHeader, vars
<1>p. Promise
  BY <1>0
<1>1. ASSUME NEW n \in WriteSizes, Write(n) PROVE Promise'
  <2>1. /\ Buffered /\ count = 0 /\ pc' = "write" /\ raw_data_size' = raw_data_size + n
        /\ count' = n
    BY <1>p, <1>1 DEF Promise, Open, Write
  <2>2. Here' = Here
    BY <2>1, StreamAssumption DEF Here, DataTypes, TypeOK
  <2>3. Buffered'
    BY <1>1, <2>1, <2>2 DEF Write, Buffered, Whole
  <2> QED
    BY <1>p, <1>1, <2>1, <2>3 DEF Write, Promise, Open, Finished, Indexed, Records
<1>2. CASE Reserve
  BY <1>p, <1>2, ReserveStep
<1>3. CASE CompleteBlock
  BY <1>p, <1>3, CompleteStep
<1>4. CASE DirectBlock
  BY <1>p, <1>4, DirectStep
<1>5. CASE Close
  BY <1>p, <1>5 DEF Close, Promise, Open, Finished, Buffered, Whole, Here, Indexed, Records
<1>6. CASE FiniReserved
  BY <1>p, <1>6, FiniStep
<1>7. CASE FiniIndex
  BY <1>p, <1>7 DEF FiniIndex, Promise, Open, Finished, Written, Whole, Indexed, Records
<1>8. CASE FiniTrailer
  BY <1>p, <1>8 DEF FiniTrailer, Stored, HeaderTrailer, Promise, Open, Finished, Written, Whole,
                     Indexed, Records
<1>9. CASE FiniHeader
  BY <1>p, <1>9 DEF FiniHeader, Stored, HeaderTrailer, Promise, Open, Finished, Written, Whole,
                     Indexed, Records
<1>10. CASE UNCHANGED vars
  BY <1>p, <1>10 DEF vars, Promise, Open, Finished, Buffered, Here, Written, Whole, Indexed,
                     Records, HeaderTrailer
<1> QED
  BY <1>p, <1>1, <1>2, <1>3, <1>4, <1>5, <1>6, <1>7, <1>8, <1>9, <1>10 DEF Next

LEMMA InitInv == Init => IInv
<1> SUFFICES ASSUME Init PROVE IInv
  OBVIOUS
<1>1. DataTypes
  BY StreamAssumption DEF Init, HeaderSpace, DataTypes, TypeOK
<1>2. Promise
  BY Multiples, StreamAssumption
  DEF Init, HeaderSpace, Promise, Open, Finished, Buffered, Here, Indexed, Records
<1> QED
  BY <1>1, <1>2 DEF IInv

LEMMA NextInv == IInv /\ [Next]_vars => IInv'
  BY TypeStep, PromiseStep DEF IInv

\* The inductive invariant holds in every reachable state.
THEOREM Invariance == Spec => []IInv
  BY InitInv, NextInv, PTL DEF Spec

\* Every variable of the builder keeps its type, and a reserved block is never
\* a whole one.
THEOREM TypeCorrect == Spec => []TypeOK
<1>1. IInv => TypeOK
  BY DEF IInv, DataTypes
<1> QED
  BY <1>1, Invariance, PTL

\* When no write() failed and close() returns 0 the file has every byte of the
\* stream in its block, the index describes that file, and trailer and header point
\* at it unless their own write was short, for any block size and any sequence of
\* write() calls.
THEOREM CompleteOnSuccess == Spec => []CloseOkComplete
<1>1. IInv => CloseOkComplete
  <2> SUFFICES ASSUME IInv, pc = "ok", ~reported PROVE CloseOkComplete
    BY DEF CloseOkComplete
  <2>1. Written /\ Indexed /\ Records /\ DataTypes
    BY DEF IInv, Promise, Finished
  <2>2. ASSUME NEW p \in 0..(raw_data_size - 1)
        PROVE  /\ p \div BlockSize + 1 <= Len(dest)
               /\ dest[p \div BlockSize + 1].data[p % BlockSize] = p
    <3> DEFINE q == p \div BlockSize
               r == p % BlockSize
    <3>1. /\ raw_data_size \in Nat /\ p \in Nat /\ p < raw_data_size
          /\ Len(dest) \in Nat /\ BlockSize \in Nat \ {0}
      BY <2>1, StreamAssumption DEF DataTypes, TypeOK
    <3>2. q \in Nat /\ r \in 0..(BlockSize - 1) /\ p = q * BlockSize + r
      BY <3>1, Division
    <3> HIDE DEF q, r
    <3>3. /\ q * BlockSize \in Nat /\ (q + 1) * BlockSize = q * BlockSize + BlockSize
          /\ Len(dest) * BlockSize \in Nat
      BY <3>1, <3>2, Multiples
    <3>4. q + 1 <= Len(dest)
      <4>1. Len(dest) <= q => Len(dest) * BlockSize <= q * BlockSize
        BY <3>1, <3>2, Multiples
      <4>2. raw_data_size <= Len(dest) * BlockSize
        BY <2>1 DEF Written
      <4> QED
        BY <3>1, <3>2, <3>3, <4>1, <4>2
    <3>5. q + 1 \in 1..Len(dest) /\ (q + 1) - 1 = q
      BY <3>1, <3>2, <3>4
    <3>6. CASE (q + 1) * BlockSize <= raw_data_size
      <4>1. dest[q + 1].data = Span(q * BlockSize, BlockSize)
        BY <2>1, <3>5, <3>6 DEF Written, Whole
      <4> QED
        BY <3>2, <3>4, <4>1 DEF Span, q, r
    <3>7. CASE (q + 1) * BlockSize > raw_data_size
      <4>1. dest[q + 1].data = Span(q * BlockSize, raw_data_size - q * BlockSize)
        BY <2>1, <3>5, <3>7 DEF Written
      <4>2. r \in 0..((raw_data_size - q * BlockSize) - 1)
        BY <3>1, <3>2, <3>3
      <4> QED
        BY <3>2, <3>4, <4>1, <4>2 DEF Span, q, r
    <3> QED
      BY <3>1, <3>3, <3>6, <3>7
  <2>3. m_block_len = [k \in 1..Len(dest) |-> dest[k].len]
    BY <2>1 DEF Indexed, DataTypes, TypeOK
  <2>4. index.lens = m_block_len /\ index.at = end
    BY <2>1 DEF Records
  <2>5. ASSUME start = HeaderSpace
        PROVE  HeaderTrailer = [index_offset |-> index.at, index_size |-> Len(dest),
                                original_file_size |-> raw_data_size]
    <3>1. moffset = end
      BY <2>1, <2>5 DEF Indexed, DataTypes, TypeOK, HeaderSpace
    <3> QED
      BY <2>1, <2>4, <3>1 DEF HeaderTrailer, Indexed
  <2>6. /\ trailer \in {HeaderTrailer, Torn}
        /\ OverwriteHeader => header \in {HeaderTrailer, Torn}
    BY <2>1 DEF Records
  <2> QED
    BY <2>2, <2>3, <2>4, <2>5, <2>6 DEF CloseOkComplete
<1> QED
  BY <1>1, Invariance, PTL

-----------------------------------------------------------------------------
(* Refinement *)

\* The phases of the abstract builder.
LEMMA PhaseFacts ==
  ASSUME DataTypes
  PROVE  /\ reported \/ pc = "failed" => AbstractPhase = "failed"
         /\ ~reported /\ pc = "ok" => AbstractPhase = "ok"
         /\ ~reported /\ pc \in {"open", "write"} => AbstractPhase = "open"
         /\ ~reported /\ pc \in {"fini", "index", "trailer", "header"} =>
              AbstractPhase = "closing"
  BY DEF AbstractPhase, DataTypes, TypeOK

\* The contents of a sequence of file records.
LEMMA DataOf ==
  ASSUME NEW s \in Seq(DestRecord)
  PROVE  /\ [k \in 1..Len(s) |-> s[k].data] \in Seq(BlockSet)
         /\ Len([k \in 1..Len(s) |-> s[k].data]) = Len(s)
         /\ \A k \in 1..Len(s) : [j \in 1..Len(s) |-> s[j].data][k] = s[k].data
<1> DEFINE f == [k \in 1..Len(s) |-> s[k].data]
<1>1. Len(s) \in Nat /\ \A k \in 1..Len(s) : s[k] \in DestRecord
  OBVIOUS
<1>2. \A k \in 1..Len(s) : s[k].data \in BlockSet
  BY <1>1 DEF DestRecord
<1>3. f \in [1..Len(s) -> BlockSet]
  BY <1>2
<1>4. f \in Seq(BlockSet) /\ Len(f) = Len(s)
  <2> HIDE DEF f
  <2> QED
    BY <1>1, <1>3
<1> QED
  BY <1>4

\* A block more in the file is a block more of the abstract stream.
LEMMA AppendedBlock ==
  ASSUME DataTypes, NEW data \in BlockSet, WroteBlock(data)
  PROVE  FileBlocks' = Append(FileBlocks, data) /\ Len(FileBlocks) = Len(dest)
<1>1. PICK n \in Nat :
        /\ n = Len(dest) /\ dest' \in Seq(DestRecord) /\ Len(dest') = n + 1
        /\ dest'[n + 1].data = data
        /\ \A k \in 1..n : dest'[k] = dest[k]
  BY WroteFacts
<1>2. /\ FileBlocks \in Seq(BlockSet) /\ Len(FileBlocks) = n
      /\ \A k \in 1..n : FileBlocks[k] = dest[k].data
  <2>1. dest \in Seq(DestRecord)
    BY DEF DataTypes
  <2> QED
    BY <1>1, <2>1, DataOf DEF FileBlocks
<1>3. /\ FileBlocks' \in Seq(BlockSet) /\ Len(FileBlocks') = n + 1
      /\ \A k \in 1..(n + 1) : FileBlocks'[k] = dest'[k].data
  BY <1>1, DataOf DEF FileBlocks
<1>4. /\ Append(FileBlocks, data) \in Seq(BlockSet)
      /\ Len(Append(FileBlocks, data)) = n + 1
      /\ Append(FileBlocks, data)[n + 1] = data
      /\ \A k \in 1..n : Append(FileBlocks, data)[k] = FileBlocks[k]
  BY <1>1, <1>2
<1>5. ASSUME NEW k \in 1..(n + 1)
      PROVE  FileBlocks'[k] = Append(FileBlocks, data)[k]
  <2>1. CASE k \in 1..n
    BY <1>1, <1>2, <1>3, <1>4, <2>1
  <2>2. CASE k = n + 1
    BY <1>1, <1>3, <1>4, <2>2
  <2>3. k \in 1..n \/ k = n + 1
    BY <1>1
  <2> QED
    BY <2>1, <2>2, <2>3
<1>6. FileBlocks' = Append(FileBlocks, data)
  BY <1>3, <1>4, <1>5
<1> QED
  BY <1>1, <1>2, <1>6

\* A whole block in the file is EmitFull.
LEMMA EmitsFull ==
  ASSUME DataTypes, WroteBlock(Span(Len(dest) * BlockSize, BlockSize)),
         (Len(dest) + 1) * BlockSize <= raw_data_size, raw_data_size' = raw_data_size,
         AbstractPhase = "open", AbstractPhase' = "open"
  PROVE  Stream!Next
<1>1. Len(dest) \in Nat /\ Len(dest) * BlockSize \in Nat /\ BlockSize \in Nat
  BY StreamAssumption, Multiples DEF DataTypes
<1>2. /\ FileBlocks' = Append(FileBlocks, Span(Len(dest) * BlockSize, BlockSize))
      /\ Len(FileBlocks) = Len(dest)
  BY <1>1, SpanType, AppendedBlock
<1>3. Stream!BlockAt(Len(dest), BlockSize) = Span(Len(dest) * BlockSize, BlockSize)
  BY DEF Stream!BlockAt, Span
<1>4. Stream!EmitFull
  BY <1>2, <1>3 DEF Stream!EmitFull
<1> QED
  BY <1>4 DEF Stream!Next

\* Every step of the builder is a step of the abstract builder or none.
LEMMA StreamStep ==
  ASSUME IInv, IInv', [Next]_vars
  PROVE  [Stream!Next]_(Stream!vars)
<1> USE DEF bufVars, blockVars, recordVars
<1>0. DataTypes /\ DataTypes'
  BY DEF IInv
<1>f. CASE reported' \/ pc' = "failed"
  <2>1. AbstractPhase' = "failed"
    <3>1. (reported \/ pc = "failed" => AbstractPhase = "failed")'
      BY <1>0, PhaseFacts, PTL
    <3> QED
      BY <1>f, <3>1
  <2>2. CASE reported \/ pc = "failed"
    BY <1>0, <2>1, <2>2, PhaseFacts DEF Stream!Next, Stream!Broken
  <2>3. CASE ~reported /\ pc # "failed"
    <3>1. pc \in {"open", "write", "fini", "index", "trailer", "header"}
          /\ UNCHANGED <<raw_data_size, dest>>
      BY <1>f, <2>3
      DEF Next, Write, Reserve, CompleteBlock, DirectBlock, WriteFails, LostBlock, Close,
          FiniReserved, WroteBlock, FiniIndex, FiniTrailer, FiniHeader, vars
    <3>2. AbstractPhase \in {"open", "closing"}
      BY <1>0, <2>3, <3>1, PhaseFacts
    <3>3. FileBlocks' = FileBlocks
      BY <3>1 DEF FileBlocks
    <3> QED
      BY <2>1, <3>1, <3>2, <3>3 DEF Stream!Next, Stream!Fail
  <2> QED
    BY <2>2, <2>3
<1>g. CASE ~reported' /\ pc' # "failed"
  <2>0. Promise /\ Promise'
    BY <1>g, PromiseStep DEF IInv
  <2>1. ~reported /\ pc # "failed"
    BY <1>g
    DEF Next, Write, Reserve, CompleteBlock, DirectBlock, WriteFails, Close, FiniReserved,
        FiniIndex, FiniTrailer, FiniHeader, vars
  <2>2. /\ pc = "ok" => AbstractPhase = "ok"
        /\ pc \in {"open", "write"} => AbstractPhase = "open"
        /\ pc \in {"fini", "index", "trailer", "header"} => AbstractPhase = "closing"
    BY <1>0, <2>1, PhaseFacts
  <2>3. /\ pc' = "ok" => AbstractPhase' = "ok"
        /\ pc' \in {"open", "write"} => AbstractPhase' = "open"
        /\ pc' \in {"fini", "index", "trailer", "header"} => AbstractPhase' = "closing"
    <3>1. (/\ ~reported /\ pc = "ok" => AbstractPhase = "ok"
           /\ ~reported /\ pc \in {"open", "write"} => AbstractPhase = "open"
           /\ ~reported /\ pc \in {"fini", "index", "trailer", "header"} =>
                AbstractPhase = "closing")'
      BY <1>0, PhaseFacts, PTL
    <3> QED
      BY <1>g, <3>1
  <2>4. dest' = dest => FileBlocks' = FileBlocks
    BY DEF FileBlocks
  <2>5. ASSUME NEW n \in WriteSizes, Write(n) PROVE Stream!Next
    BY <2>2, <2>3, <2>4, <2>5 DEF Write, Stream!Next, Stream!Accept
  <2>6. CASE Reserve
    BY <2>2, <2>3, <2>4, <2>6 DEF Reserve, Stream!vars
  <2>7. CASE CompleteBlock
    <3>1. raw_data_size' = raw_data_size
      BY <2>7 DEF CompleteBlock
    <3> QED
      BY <1>0, <1>g, <2>0, <2>2, <2>3, <2>7, <3>1, CompleteStep, EmitsFull
  <2>8. CASE DirectBlock
    <3>1. raw_data_size' = raw_data_size
      BY <2>8 DEF DirectBlock
    <3> QED
      BY <1>0, <1>g, <2>0, <2>2, <2>3, <2>8, <3>1, DirectStep, EmitsFull
  <2>9. CASE Close
    BY <2>2, <2>3, <2>4, <2>9 DEF Close, Stream!Next, Stream!BeginClose
  <2>10. CASE FiniReserved
    <3>1. /\ pc = "fini" /\ pc' = "index"
          /\ raw_data_size = Len(dest) * BlockSize + reserved_size
          /\ \/ reserved_size = 0 /\ UNCHANGED blockVars
             \/ /\ reserved_size > 0
                /\ WroteBlock(Span(Len(dest) * BlockSize, reserved_size))
      BY <1>0, <1>g, <2>0, <2>10, FiniStep
    <3>2. raw_data_size' = raw_data_size /\ AbstractPhase = "closing"
          /\ AbstractPhase' = "closing"
      BY <2>2, <2>3, <2>10, <3>1 DEF FiniReserved
    <3>3. CASE UNCHANGED blockVars
      BY <2>4, <3>2, <3>3 DEF Stream!vars
    <3>4. CASE reserved_size > 0 /\ WroteBlock(Span(Len(dest) * BlockSize, reserved_size))
      <4>1. /\ Len(dest) \in Nat /\ Len(dest) * BlockSize \in Nat
            /\ reserved_size \in Nat /\ reserved_size < BlockSize /\ BlockSize \in Nat
            /\ (Len(dest) + 1) * BlockSize = Len(dest) * BlockSize + BlockSize
        BY <1>0, StreamAssumption, Multiples DEF DataTypes, TypeOK
      <4>2. /\ FileBlocks' = Append(FileBlocks, Span(Len(dest) * BlockSize, reserved_size))
            /\ Len(FileBlocks) = Len(dest)
        BY <1>0, <3>4, <4>1, SpanType, AppendedBlock
      <4>3. raw_data_size - Len(dest) * BlockSize = reserved_size
        BY <3>1, <4>1
      <4>4. Stream!BlockAt(Len(dest), reserved_size) = Span(Len(dest) * BlockSize, reserved_size)
        BY DEF Stream!BlockAt, Span
      <4>5. /\ Len(dest) * BlockSize < raw_data_size
            /\ raw_data_size < (Len(dest) + 1) * BlockSize
        BY <3>1, <3>4, <4>1
      <4>6. Stream!EmitLast
        BY <3>2, <4>2, <4>3, <4>4, <4>5 DEF Stream!EmitLast
      <4> QED
        BY <4>6 DEF Stream!Next
    <3> QED
      BY <3>1, <3>3, <3>4
  <2>11. CASE FiniIndex
    BY <1>g, <2>2, <2>3, <2>4, <2>11 DEF FiniIndex, Stream!vars
  <2>12. ASSUME pc \in {"trailer", "header"}, pc' = "ok", UNCHANGED <<raw_data_size, dest>>
         PROVE  Stream!Next
    <3>1. raw_data_size <= Len(dest) * BlockSize
      BY <2>0, <2>12 DEF Promise, Finished, Written
    <3>2. Len(FileBlocks) = Len(dest)
      BY <1>0 DEF FileBlocks, DataTypes
    <3> QED
      BY <2>2, <2>3, <2>4, <2>12, <3>1, <3>2 DEF Stream!Next, Stream!CloseOk
  <2>13. CASE FiniTrailer
    BY <1>g, <2>2, <2>3, <2>4, <2>12, <2>13 DEF FiniTrailer, Stream!vars
  <2>14. CASE FiniHeader
    BY <1>g, <2>12, <2>14 DEF FiniHeader
  <2>15. CASE UNCHANGED vars
    BY <2>15 DEF vars, Stream!vars, AbstractPhase, FileBlocks
  <2> QED
    BY <2>5, <2>6, <2>7, <2>8, <2>9, <2>10, <2>11, <2>13, <2>14, <2>15 DEF Next
<1> QED
  BY <1>f, <1>g

\* What write() and close() of ZFileBuilder do to the file is what a
\* ZFileStream does: blocks appear in stream order, only whole ones before
\* close(), and close() returns 0 only when all are there.
THEOREM Refinement == Spec => ImplementsStream
<1>1. Init => Stream!Init
  <2> SUFFICES ASSUME Init PROVE Stream!Init
    OBVIOUS
  <2>1. AbstractPhase = "open"
    BY DEF Init, AbstractPhase
  <2>2. FileBlocks = << >>
    BY DEF Init, FileBlocks
  <2> QED
    BY <2>1, <2>2 DEF Init, Stream!Init
<1>2. IInv /\ IInv' /\ [Next]_vars => [Stream!Next]_(Stream!vars)
  BY StreamStep
<1> QED
  BY <1>1, <1>2, Invariance, PTL DEF Spec, ImplementsStream, Stream!Spec
==============================================================================
