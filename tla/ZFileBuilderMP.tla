--------------------------- MODULE ZFileBuilderMP ----------------------------
(***************************************************************************)
(* ZFileBuilderMP of overlaybd/src/overlaybd/zfile/zfile.cpp: the caller's *)
(* thread deals blocks of the raw stream round robin to m_workers OS       *)
(* threads, each compresses its block, and a token handed along the ring   *)
(* (write_sem) makes them append their results to the file in turn.        *)
(*                                                                         *)
(* Each worker has one input buffer.  writable_sem gives it to the caller, *)
(* compress_sem gives it to the worker, write_sem is the turn to write.    *)
(***************************************************************************)
EXTENDS Integers, Sequences

CONSTANTS NWorkers,       \* CompressArgs::workers
          BlockSize,      \* CompressOptions::block_size
          WriteSizes,     \* the counts a caller may pass to one write()
          MaxBytes,       \* bound on the length of the raw stream
          UninitSizes,    \* what the never-initialised WorkerCtx::size may hold
          MayFail,        \* may compression and file writes fail?
          OverwriteHeader,\* CompressArgs::overwrite_header
          CompressedSizes,\* lengths compress_data may return, crc included
          Junk,           \* content of a buffer byte nobody wrote
          NoRecord,       \* an index, trailer or header not written yet
          Torn            \* a header or trailer of which a part was written

ASSUME NWorkersAssumption == NWorkers \in Nat \ {0}
ASSUME BlockSizeAssumption == BlockSize \in Nat \ {0}
ASSUME BytesAssumption == WriteSizes \subseteq Nat /\ MaxBytes \in Nat
ASSUME UninitAssumption == UninitSizes \subseteq Nat
ASSUME CompressedAssumption == CompressedSizes \subseteq Nat \ {0}
ASSUME FlagsAssumption == MayFail \in BOOLEAN /\ OverwriteHeader \in BOOLEAN
ASSUME JunkAssumption == Junk \notin Nat

VARIABLES
  \* the caller's thread
  pc,             \* where it is in write() or close()
  count,          \* bytes of the current write() not yet copied
  raw_data_size,
  reserved_size,  \* bytes of an incomplete block in the current buffer
  cur_id,
  m_stop_flag,
  signalled,      \* loop counter of the stop signals in fini()
  \* the worker contexts
  writable,       \* the contexts whose writable flag is set
  writable_sem, compress_sem, write_sem, size, ibuf, obuf, result,
  compressed_size,\* local to each worker's loop, like its position in it:
  wpc,
  \* the file
  moffset, m_block_len,
  start,          \* where init() left the end of the file
  dest,           \* blocks appended to m_dest, each with its file offset
  index, trailer, header

callerVars == <<pc, count, raw_data_size, reserved_size, cur_id, m_stop_flag, signalled>>
ctxVars == <<writable, writable_sem, compress_sem, write_sem, size, ibuf, obuf,
             compressed_size, result, wpc>>
fileVars == <<moffset, m_block_len, start, dest, index, trailer, header>>
vars == <<callerVars, ctxVars, fileVars>>

Workers == 0..(NWorkers - 1)
\* Mutant: the ring index does not wrap around.
NextWorkerNoWrap(w) == w + 1
NextWorker(w) == (w + 1) % NWorkers

HeaderSpace == 512

\* What compressing the first n bytes of a buffer stores.
Contents(b, n) == [i \in 0..(n - 1) |-> IF i < BlockSize THEN b[i] ELSE Junk]

\* Where the next append to m_dest lands.
DestEnd ==
  IF dest = << >> THEN start
  ELSE dest[Len(dest)].at + dest[Len(dest)].len

\* init() takes a short write of the first header for success.
Init ==
  /\ pc = "open" /\ count = 0 /\ raw_data_size = 0 /\ reserved_size = 0
  /\ cur_id = 0 /\ m_stop_flag = FALSE /\ signalled = 0
  /\ writable = {}
  /\ writable_sem = [w \in Workers |-> 1]
  /\ compress_sem = [w \in Workers |-> 0]
  /\ write_sem = [w \in Workers |-> IF w = 0 THEN 1 ELSE 0]
  /\ size \in [Workers -> UninitSizes]
  /\ ibuf = [w \in Workers |-> [i \in 0..(BlockSize - 1) |-> Junk]]
  /\ obuf = [w \in Workers |-> Contents(ibuf[w], 0)]
  /\ compressed_size = [w \in Workers |-> 0]
  /\ result = [w \in Workers |-> 0]
  /\ wpc = [w \in Workers |-> "create"]
  /\ moffset = HeaderSpace /\ m_block_len = << >> /\ dest = << >>
  /\ start \in IF MayFail THEN {HeaderSpace, HeaderSpace - 1} ELSE {HeaderSpace}
  /\ index = NoRecord /\ trailer = NoRecord /\ header = NoRecord

-----------------------------------------------------------------------------
(* The caller: write() *)

Write(n) ==
  /\ pc = "open"
  /\ raw_data_size + n <= MaxBytes
  /\ raw_data_size' = raw_data_size + n
  /\ count' = n
  /\ pc' = IF n = 0 THEN "open" ELSE "copy"
  /\ UNCHANGED <<reserved_size, cur_id, m_stop_flag, signalled, ctxVars, fileVars>>

\* How much of the pending write fits into the current block.
CopyLen == IF reserved_size + count < BlockSize THEN count ELSE BlockSize - reserved_size

\* copy(): waits for the buffer unless it is already ours, then memcpy at
\* offset reserved_size.  Both branches of write() are this step: the loop
\* body is the branch with reserved_size = 0.
Copy ==
  /\ pc = "copy"
  /\ cur_id \in writable \/ writable_sem[cur_id] > 0
  /\ writable' = writable \union {cur_id}
  /\ writable_sem' = IF cur_id \in writable THEN writable_sem
                     ELSE [writable_sem EXCEPT ![cur_id] = @ - 1]
  /\ ibuf' = [ibuf EXCEPT ![cur_id] =
                [i \in 0..(BlockSize - 1) |->
                   IF i >= reserved_size /\ i < reserved_size + CopyLen
                   THEN raw_data_size - count + (i - reserved_size) ELSE @[i]]]
  /\ reserved_size' = reserved_size + CopyLen
  /\ count' = count - CopyLen
  /\ pc' = IF reserved_size + CopyLen = BlockSize THEN "start" ELSE "open"
  /\ UNCHANGED <<raw_data_size, cur_id, m_stop_flag, signalled, compress_sem, write_sem,
                 size, obuf, compressed_size, result, wpc,
                 fileVars>>

\* Mutant: the caller keeps its claim on the buffer it hands over.
StartCompressKeepsBuffer(w, isize) ==
  /\ size' = [size EXCEPT ![w] = isize]
  /\ compress_sem' = [compress_sem EXCEPT ![w] = @ + 1]
  /\ UNCHANGED writable

\* WorkerCtx::start_compress(isize)
StartCompress(w, isize) ==
  /\ writable' = writable \ {w}
  /\ size' = [size EXCEPT ![w] = isize]
  /\ compress_sem' = [compress_sem EXCEPT ![w] = @ + 1]

\* A block is complete: hand it over, move on to the next worker.
Dispatch ==
  /\ pc = "start"
  /\ StartCompress(cur_id, reserved_size)
  /\ cur_id' = NextWorker(cur_id)
  /\ reserved_size' = 0
  /\ pc' = IF count > 0 THEN "copy" ELSE "open"
  /\ UNCHANGED <<count, raw_data_size, m_stop_flag, signalled, writable_sem, write_sem,
                 ibuf, obuf, compressed_size, result, wpc,
                 fileVars>>

-----------------------------------------------------------------------------
(* The caller: close() and fini() *)

\* Mutant: close() forgets the incomplete last block.
FiniDropsReserved ==
  /\ pc = "open"
  /\ pc' = "stop"
  /\ UNCHANGED <<count, raw_data_size, reserved_size, cur_id, m_stop_flag, signalled,
                 ctxVars, fileVars>>

FiniReserved ==
  /\ pc = "open"
  /\ IF reserved_size > 0 THEN StartCompress(cur_id, reserved_size)
     ELSE UNCHANGED <<writable, size, compress_sem>>
  /\ pc' = "stop"
  /\ UNCHANGED <<count, raw_data_size, reserved_size, cur_id, m_stop_flag, signalled,
                 writable_sem, write_sem, ibuf, obuf, compressed_size, result, wpc,
                 fileVars>>

FiniStop ==
  /\ pc = "stop"
  /\ m_stop_flag' = TRUE
  /\ pc' = "signal"
  /\ UNCHANGED <<count, raw_data_size, reserved_size, cur_id, signalled, ctxVars, fileVars>>

FiniSignal ==
  /\ pc = "signal"
  /\ compress_sem' = [compress_sem EXCEPT ![signalled] = @ + 1]
  /\ signalled' = signalled + 1
  /\ pc' = IF signalled + 1 = NWorkers THEN "join" ELSE "signal"
  /\ UNCHANGED <<count, raw_data_size, reserved_size, cur_id, m_stop_flag, writable,
                 writable_sem, write_sem, size, ibuf, obuf, compressed_size, result, wpc,
                 fileVars>>

\* Mutant: the results of the workers are not looked at.
FiniJoinIgnoresResults ==
  /\ pc = "join"
  /\ \A w \in Workers : wpc[w] = "exit"
  /\ pc' = "index"
  /\ UNCHANGED <<count, raw_data_size, reserved_size, cur_id, m_stop_flag, signalled,
                 ctxVars, fileVars>>

\* th.join() on every thread, then the check of their results.
FiniJoin ==
  /\ pc = "join"
  /\ \A w \in Workers : wpc[w] = "exit"
  /\ pc' = IF \E w \in Workers : result[w] < 0 THEN "failed" ELSE "index"
  /\ UNCHANGED <<count, raw_data_size, reserved_size, cur_id, m_stop_flag, signalled,
                 ctxVars, fileVars>>

FiniIndex ==
  /\ pc = "index"
  /\ \/ index' = [at |-> DestEnd, lens |-> m_block_len] /\ pc' = "trailer"
     \/ MayFail /\ index' = NoRecord /\ pc' = "failed"
  /\ UNCHANGED <<count, raw_data_size, reserved_size, cur_id, m_stop_flag, signalled,
                 ctxVars, moffset, m_block_len, start, dest, trailer, header>>

\* What fini() has put into m_ht.
HeaderTrailer == [index_offset |-> moffset, index_size |-> Len(m_block_len),
                  original_file_size |-> raw_data_size]

\* write_header_trailer() returns what write() returned, and only a negative
\* result is an error: a short write counts as success.
Stored(record) == {record} \union (IF MayFail THEN {Torn} ELSE {})

FiniTrailer ==
  /\ pc = "trailer"
  /\ \/ /\ trailer' \in Stored(HeaderTrailer)
        /\ pc' = IF OverwriteHeader THEN "header" ELSE "ok"
     \/ MayFail /\ trailer' = NoRecord /\ pc' = "failed"
  /\ UNCHANGED <<count, raw_data_size, reserved_size, cur_id, m_stop_flag, signalled,
                 ctxVars, moffset, m_block_len, start, dest, index, header>>

FiniHeader ==
  /\ pc = "header"
  /\ \/ header' \in Stored(HeaderTrailer) /\ pc' = "ok"
     \/ MayFail /\ header' = NoRecord /\ pc' = "failed"
  /\ UNCHANGED <<count, raw_data_size, reserved_size, cur_id, m_stop_flag, signalled,
                 ctxVars, moffset, m_block_len, start, dest, index, trailer>>

-----------------------------------------------------------------------------
(* A worker thread *)

Goto(w, label) == wpc' = [wpc EXCEPT ![w] = label]
FailWorker(w) == MayFail /\ result' = [result EXCEPT ![w] = -1] /\ Goto(w, "exit")

CreateCompressor(w) ==
  /\ wpc[w] = "create"
  /\ \/ Goto(w, "wait") /\ UNCHANGED result
     \/ FailWorker(w)
  /\ UNCHANGED <<callerVars, writable, writable_sem, compress_sem, write_sem, size, ibuf,
                 obuf, compressed_size, fileVars>>

WaitCompress(w) ==
  /\ wpc[w] = "wait"
  /\ compress_sem[w] > 0
  /\ compress_sem' = [compress_sem EXCEPT ![w] = @ - 1]
  /\ Goto(w, IF m_stop_flag /\ size[w] = 0 THEN "exit" ELSE "compress")
  /\ UNCHANGED <<callerVars, writable, writable_sem, write_sem, size, ibuf, obuf,
                 compressed_size, result, fileVars>>

\* compress_data() reads ibuf up to this step; a failing worker returns at
\* once, without signalling writable_sem or passing the turn on.
Compress(w) ==
  /\ wpc[w] = "compress"
  /\ \/ /\ obuf' = [obuf EXCEPT ![w] = Contents(ibuf[w], size[w])]
        /\ \E n \in CompressedSizes : compressed_size' = [compressed_size EXCEPT ![w] = n]
        /\ size' = [size EXCEPT ![w] = 0]
        /\ writable_sem' = [writable_sem EXCEPT ![w] = @ + 1]
        /\ Goto(w, "turn")
        /\ UNCHANGED result
     \/ FailWorker(w) /\ UNCHANGED <<obuf, compressed_size, size, writable_sem>>
  /\ UNCHANGED <<callerVars, writable, compress_sem, write_sem, ibuf, fileVars>>

\* Mutant: the turn is looked at and not taken.
WaitTurnNotTaken(w) ==
  /\ wpc[w] = "turn"
  /\ write_sem[w] > 0
  /\ Goto(w, "write")
  /\ UNCHANGED <<callerVars, writable, writable_sem, compress_sem, write_sem, size, ibuf,
                 obuf, compressed_size, result, fileVars>>

\* Mutant: one semaphore for all workers, a mutex in place of a ring.
WaitTurnAnyOrder(w) ==
  /\ wpc[w] = "turn"
  /\ \E v \in Workers : write_sem[v] > 0 /\ write_sem' = [write_sem EXCEPT ![v] = @ - 1]
  /\ Goto(w, "write")
  /\ UNCHANGED <<callerVars, writable, writable_sem, compress_sem, size, ibuf, obuf,
                 compressed_size, result, fileVars>>

WaitTurn(w) ==
  /\ wpc[w] = "turn"
  /\ write_sem[w] > 0
  /\ write_sem' = [write_sem EXCEPT ![w] = @ - 1]
  /\ Goto(w, "write")
  /\ UNCHANGED <<callerVars, writable, writable_sem, compress_sem, size, ibuf, obuf,
                 compressed_size, result, fileVars>>

WriteBlock(w) ==
  /\ wpc[w] = "write"
  /\ moffset' = moffset + compressed_size[w]
  /\ m_block_len' = Append(m_block_len, compressed_size[w])
  /\ \/ /\ dest' = Append(dest, [at |-> DestEnd, len |-> compressed_size[w],
                              data |-> obuf[w]])
        /\ Goto(w, "pass")
        /\ UNCHANGED result
     \/ FailWorker(w) /\ UNCHANGED dest
  /\ UNCHANGED <<callerVars, writable, writable_sem, compress_sem, write_sem, size, ibuf,
                 obuf, compressed_size, start, index, trailer, header>>

\* Mutant: the worker passes the turn to itself.
PassTurnToSelf(w) ==
  /\ wpc[w] = "pass"
  /\ write_sem' = [write_sem EXCEPT ![w] = @ + 1]
  /\ Goto(w, "wait")
  /\ UNCHANGED <<callerVars, writable, writable_sem, compress_sem, size, ibuf, obuf,
                 compressed_size, result, fileVars>>

PassTurn(w) ==
  /\ wpc[w] = "pass"
  /\ write_sem' = [write_sem EXCEPT ![NextWorker(w)] = @ + 1]
  /\ Goto(w, "wait")
  /\ UNCHANGED <<callerVars, writable, writable_sem, compress_sem, size, ibuf, obuf,
                 compressed_size, result, fileVars>>

-----------------------------------------------------------------------------
Worker(w) ==
  \/ CreateCompressor(w)
  \/ WaitCompress(w)
  \/ Compress(w)
  \/ WaitTurn(w)
  \/ WriteBlock(w)
  \/ PassTurn(w)

CallerContinues ==
  \/ Copy
  \/ Dispatch
  \/ FiniStop
  \/ FiniSignal
  \/ FiniJoin
  \/ FiniIndex
  \/ FiniTrailer
  \/ FiniHeader

Next ==
  \/ \E n \in WriteSizes : Write(n)
  \/ FiniReserved
  \/ CallerContinues
  \/ \E w \in Workers : Worker(w)

Spec == Init /\ [][Next]_vars

\* Threads run: a worker, and a caller inside write() or close(), never stops
\* at a step it can take.  Whether the caller calls again is its own choice.
FairSpec == Spec /\ WF_vars(CallerContinues) /\ \A w \in Workers : WF_vars(Worker(w))
-----------------------------------------------------------------------------
(* Properties *)

\* The k-th block (from 0) of a stream of n bytes, and whether m blocks are
\* exactly the blocks of such a stream.
StreamBlock(n, k) ==
  [i \in 0..((IF n - k * BlockSize < BlockSize THEN n - k * BlockSize ELSE BlockSize) - 1)
     |-> k * BlockSize + i]
AllBlocks(n, m) == n <= m * BlockSize /\ (m = 0 \/ (m - 1) * BlockSize < n)

CallerTypes ==
  /\ pc \in {"open", "copy", "start", "stop", "signal", "join", "index", "trailer",
            "header", "ok", "failed"}
  /\ count \in Nat /\ raw_data_size \in Nat /\ reserved_size \in 0..BlockSize
  /\ cur_id \in Workers /\ m_stop_flag \in BOOLEAN /\ signalled \in 0..NWorkers
ContextTypes ==
  /\ writable \subseteq Workers
  /\ writable_sem \in [Workers -> Nat]
  /\ compress_sem \in [Workers -> Nat]
  /\ write_sem \in [Workers -> Nat]
  /\ size \in [Workers -> Nat]
  /\ ibuf \in [Workers -> [0..(BlockSize - 1) -> Nat \union {Junk}]]
  /\ compressed_size \in [Workers -> Nat]
  /\ result \in [Workers -> {0, -1}]
  /\ wpc \in [Workers -> {"create", "wait", "compress", "turn", "write", "pass", "exit"}]
FileTypes == moffset \in Nat /\ m_block_len \in Seq(Nat)

\* Every variable keeps its type; in particular no semaphore count and no
\* index into the worker ring leaves its range.
TypeOK == CallerTypes /\ ContextTypes /\ FileTypes

\* Whatever order the workers finish compressing in, the k-th block appended
\* to the file is the k-th block of the stream, whole and unmixed.
BlocksInOrder ==
  \A k \in 1..Len(dest) :
    (k - 1) * BlockSize < raw_data_size => dest[k].data = StreamBlock(raw_data_size, k - 1)

\* moffset, m_block_len and m_dest are shared without a lock: at most one
\* worker is between taking and passing the turn to write.
ExclusiveWriter ==
  \A v, w \in Workers : wpc[v] \in {"write", "pass"} /\ wpc[w] \in {"write", "pass"} => v = w

\* The caller's memcpy and the worker's compress_data never use one ibuf at
\* the same time, and never both believe they own it.
BufferOwnership ==
  pc \in {"open", "copy", "start"} =>
    \A w \in Workers : wpc[w] = "compress" => w \notin writable /\ writable_sem[w] = 0

\* close() returns 0 only for a complete file: every block of the stream, an
\* index that gives each block its compressed length, a trailer (and a header)
\* that points at the index, whatever failed and whatever WorkerCtx::size held.
\* The exceptions are in the code: a trailer or header of which only a part was
\* written passes for written, and when that happened to init()'s header every
\* offset recorded later is off.
CloseOkComplete ==
  pc = "ok" =>
    /\ AllBlocks(raw_data_size, Len(dest))
    /\ \A k \in 1..Len(dest) : /\ dest[k].data = StreamBlock(raw_data_size, k - 1)
                              /\ index.lens[k] = dest[k].len
    /\ Len(index.lens) = Len(dest)
    /\ start = HeaderSpace =>
         LET right == [index_offset |-> index.at, index_size |-> Len(dest),
                       original_file_size |-> raw_data_size]
         IN trailer \in {right, Torn} /\ (OverwriteHeader => header \in {right, Torn})

\* Nobody waits on everybody: every write() and every close() returns.
CallReturns == (pc # "open") ~> (pc \in {"open", "ok", "failed"})

\* A worker that was never given a block has a WorkerCtx::size other than 0, and
\* is told to stop: it takes the signal for a block.
Misled ==
  /\ m_stop_flag
  /\ \E w \in Workers : ibuf[w][0] = Junk /\ (size[w] # 0 \/ DOMAIN obuf[w] # {})

\* Semaphores and the stop flag make nobody wait for ever: while no worker has
\* failed every write() returns, and every close() too, except one that stops a
\* worker misled by a size nobody has set.
ReturnsUnlessWorkerFails ==
  (pc # "open") ~> \/ pc \in {"open", "ok", "failed"}
                   \/ \E w \in Workers : result[w] = -1
                   \/ Misled

\* The builder is one way to build a ZFileStream; a close() that stops a misled
\* worker is one that failed, whether it returns or waits for ever.
AbstractPhase ==
  CASE pc = "ok" -> "ok"
    [] pc = "failed" \/ (pc # "ok" /\ Misled) -> "failed"
    [] pc \in {"open", "copy", "start"} /\ ~Misled -> "open"
    [] OTHER -> "closing"
FileBlocks == [k \in 1..Len(dest) |-> dest[k].data]
Stream == INSTANCE ZFileStream WITH
            raw <- raw_data_size, phase <- AbstractPhase, blocks <- FileBlocks
ImplementsStream == Stream!Spec
==============================================================================
