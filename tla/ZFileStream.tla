----------------------------- MODULE ZFileStream -----------------------------
(***************************************************************************)
(* What a ZFile stream builder promises its caller, whichever class builds *)
(* it: the bytes handed to write() are cut into blocks of BlockSize bytes, *)
(* in stream order, the last one possibly shorter, and close() returns 0   *)
(* only for a file that holds every block.  ZFileBuilder (one thread) and  *)
(* ZFileBuilderMP (a ring of worker threads) are two implementations.      *)
(*                                                                         *)
(* A byte of the raw stream is identified by its position, so a block is   *)
(* the function from its own offsets to the stream positions it holds.     *)
(***************************************************************************)
EXTENDS Naturals, Sequences

CONSTANTS BlockSize,     \* CompressOptions::block_size
          WriteSizes,    \* the counts a caller may pass to one write()
          MaxBytes       \* bound on the length of the raw stream

VARIABLES raw,      \* bytes accepted from the caller
          blocks,   \* blocks in the file, in file order
          phase     \* "open", "closing", "ok" or "failed"

vars == <<raw, blocks, phase>>

\* The len bytes of the stream that start at block number k.
BlockAt(k, len) == [i \in 0..(len - 1) |-> k * BlockSize + i]

Init == raw = 0 /\ blocks = << >> /\ phase = "open"

Accept(n) ==
  /\ phase = "open"
  /\ raw + n <= MaxBytes
  /\ raw' = raw + n
  /\ UNCHANGED <<blocks, phase>>

EmitFull ==
  /\ phase \in {"open", "closing"}
  /\ (Len(blocks) + 1) * BlockSize <= raw
  /\ blocks' = Append(blocks, BlockAt(Len(blocks), BlockSize))
  /\ UNCHANGED <<raw, phase>>

EmitLast ==
  /\ phase = "closing"
  /\ Len(blocks) * BlockSize < raw
  /\ raw < (Len(blocks) + 1) * BlockSize
  /\ blocks' = Append(blocks, BlockAt(Len(blocks), raw - Len(blocks) * BlockSize))
  /\ UNCHANGED <<raw, phase>>

BeginClose ==
  /\ phase = "open"
  /\ phase' = "closing"
  /\ UNCHANGED <<raw, blocks>>

CloseOk ==
  /\ phase = "closing"
  /\ raw <= Len(blocks) * BlockSize
  /\ phase' = "ok"
  /\ UNCHANGED <<raw, blocks>>

Fail ==
  /\ phase \in {"open", "closing"}
  /\ phase' = "failed"
  /\ UNCHANGED <<raw, blocks>>

\* Once a call has failed nothing more is promised but that the file is never
\* reported complete.
Broken == phase = "failed" /\ phase' = "failed"

Next ==
  \/ \E n \in WriteSizes : Accept(n)
  \/ EmitFull
  \/ EmitLast
  \/ BeginClose
  \/ CloseOk
  \/ Fail
  \/ Broken

Spec == Init /\ [][Next]_vars
==============================================================================
