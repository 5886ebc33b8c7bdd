------------------------ MODULE ZFileBuilderMP_proofs ------------------------
(***************************************************************************)
(* Proofs that ZFileBuilderMP, for any number of workers, any block size   *)
(* and any sequence of write() calls, keeps its types, never lets two      *)
(* workers write at once, never shares an input buffer, and appends the    *)
(* blocks of the stream in order, so that close() returns 0 only for a     *)
(* complete file.                                                          *)
(*                                                                         *)
(* The argument counts blocks.  F blocks have been handed to the workers,  *)
(* Len(dest) have been written, and it is the turn of worker t.  The next  *)
(* block worker w writes is number NextToWrite(w, t), the next block it    *)
(* will be given is number F + Dist(NextToDeal, w), and the difference is  *)
(* NWorkers for each of the (at most two) blocks it is holding.            *)
(***************************************************************************)
EXTENDS ZFileBuilderMP, TLAPS

Open == pc \in {"open", "copy", "start"}
Finished == pc \in {"index", "trailer", "header", "ok"}

\* Steps along the ring from worker a to worker b.
Dist(a, b) == IF a <= b THEN b - a ELSE b - a + NWorkers

\* The worker that gets the next block.
NextToDeal == IF Open \/ reserved_size = 0 THEN cur_id ELSE NextWorker(cur_id)
NextToWrite(w, t) == Len(dest) + Dist(t, w)

\* One stop signal has been added to compress_sem[w].
Stops(w) == IF w < signalled THEN 1 ELSE 0
\* A worker that took its stop signal for a block, misled by a size nobody
\* had initialised.
Stale(w) == w < signalled /\ compress_sem[w] = 0 /\ wpc[w] # "exit"
\* A compressed block in obuf, and a block waiting or being read in ibuf.
Out(w) == IF wpc[w] \in {"turn", "write"} THEN NWorkers ELSE 0
In(w) == IF wpc[w] = "compress" \/ compress_sem[w] > Stops(w) THEN NWorkers ELSE 0

BlockSet == UNION {[0..(n - 1) -> Nat \union {Junk}] : n \in Nat}
DestRecord == [at : Nat, len : Nat, data : BlockSet]

DataTypes == obuf \in [Workers -> BlockSet] /\ dest \in Seq(DestRecord) /\ start \in Nat

CallerInv(F) ==
  /\ Open => F * BlockSize + reserved_size = raw_data_size - count
  /\ pc = "open" => count = 0 /\ reserved_size < BlockSize
  /\ pc = "copy" => count > 0 /\ reserved_size < BlockSize
  /\ pc = "start" => reserved_size = BlockSize
  /\ ~Open => /\ count = 0 /\ reserved_size < BlockSize
              /\ reserved_size = 0 => raw_data_size = F * BlockSize
              /\ reserved_size > 0 => /\ F >= 1
                                      /\ raw_data_size = (F - 1) * BlockSize + reserved_size
  /\ Open \/ pc = "stop" => signalled = 0
  /\ pc = "signal" => signalled < NWorkers

FillingInv(F) ==
  Open => /\ \A w \in Workers : w \in writable <=> (w = cur_id /\ reserved_size > 0)
          /\ \A i \in 0..(reserved_size - 1) : ibuf[cur_id][i] = F * BlockSize + i

BufferInv ==
  Open => \A w \in Workers :
            /\ writable_sem[w] <= 1 /\ compress_sem[w] <= 1
            /\ writable_sem[w] > 0 => w \notin writable /\ compress_sem[w] = 0
            /\ compress_sem[w] > 0 => w \notin writable
            /\ wpc[w] = "compress" => /\ w \notin writable /\ compress_sem[w] = 0
                                     /\ writable_sem[w] = 0

\* What a worker that has not failed holds.
Holds(w, F, t) ==
  /\ NextToWrite(w, t) + Out(w) + In(w) = F + Dist(NextToDeal, w)
  /\ compress_sem[w] <= Stops(w) + 1
  /\ wpc[w] = "compress" => compress_sem[w] <= Stops(w)
  /\ wpc[w] = "exit" => compress_sem[w] = 0 /\ w < signalled
  /\ Out(w) > 0 => obuf[w] = StreamBlock(raw_data_size, NextToWrite(w, t))
  /\ In(w) > 0 => /\ size[w] > 0
                  /\ Contents(ibuf[w], size[w]) =
                       StreamBlock(raw_data_size, NextToWrite(w, t) + Out(w))

WorkerOK(w, F, t) ==
  result[w] = 0 => IF Stale(w) THEN NextToWrite(w, t) >= F ELSE Holds(w, F, t)
WorkerInv(F, t) == \A w \in Workers : WorkerOK(w, F, t)

TurnInv(t) ==
  \A w \in Workers :
    /\ wpc[w] = "write" => w = t
    /\ wpc[w] = "pass" => t = NextWorker(w) /\ \A v \in Workers : wpc[v] # "write"
    /\ write_sem[w] > 0 => /\ w = t /\ write_sem[w] = 1
                           /\ \A v \in Workers : wpc[v] \notin {"write", "pass"}

DestInv(F) ==
  /\ Open => Len(dest) <= F
  /\ \A k \in 1..Len(dest) : k <= F => dest[k].data = StreamBlock(raw_data_size, k - 1)

FailInv == \A w \in Workers : result[w] # 0 => wpc[w] = "exit"

FileInv ==
  (\A w \in Workers : result[w] = 0) =>
    /\ Len(m_block_len) = Len(dest)
    /\ \A k \in 1..Len(dest) : m_block_len[k] = dest[k].len
    /\ moffset - HeaderSpace = DestEnd - start

EndInv ==
  /\ Finished \/ pc = "failed" => \A w \in Workers : wpc[w] = "exit"
  /\ Finished => \A w \in Workers : result[w] = 0
  /\ pc \in {"trailer", "header", "ok"} => index = [at |-> DestEnd, lens |-> m_block_len]
  /\ pc \in {"header", "ok"} => trailer \in {HeaderTrailer, Torn}
  /\ pc = "ok" /\ OverwriteHeader => header \in {HeaderTrailer, Torn}
  /\ index # NoRecord => pc \in {"trailer", "header", "ok", "failed"}

Inv(F, t) ==
  /\ CallerInv(F) /\ FillingInv(F) /\ BufferInv /\ WorkerInv(F, t) /\ TurnInv(t)
  /\ DestInv(F) /\ FailInv /\ FileInv /\ EndInv
  
IInv == TypeOK /\ DataTypes /\ \E F \in Nat, t \in Workers : Inv(F, t)
-----------------------------------------------------------------------------
(* Arithmetic of the ring and of block numbers *)

\* The next worker on the ring, without the modulus.
LEMMA NextWorkerFact ==
  ASSUME NEW w \in Workers
  PROVE  /\ NextWorker(w) \in Workers
         /\ NextWorker(w) = IF w = NWorkers - 1 THEN 0 ELSE w + 1
  BY NWorkersAssumption DEF NextWorker, Workers

\* Multiples of BlockSize grow by BlockSize and are monotonic.
LEMMA Multiples ==
  /\ 0 * BlockSize = 0
  /\ \A a \in Nat : a * BlockSize \in Nat /\ (a + 1) * BlockSize = a * BlockSize + BlockSize
  /\ \A a, b \in Nat : a <= b => a * BlockSize <= b * BlockSize
  BY BlockSizeAssumption

\* A block that is already complete is not changed by more data.
LEMMA CompleteBlock ==
  ASSUME NEW n \in Nat, NEW m \in Nat, NEW k \in Nat, (k + 1) * BlockSize <= n, n <= m
  PROVE  StreamBlock(m, k) = StreamBlock(n, k)
  <1>1. n - k * BlockSize >= BlockSize /\ m - k * BlockSize >= BlockSize
    BY Multiples, BlockSizeAssumption
  <1>. QED BY <1>1, Multiples, BlockSizeAssumption DEF StreamBlock

-----------------------------------------------------------------------------
(* Steps of a worker thread *)

\* Worker v is not touched.
Same(v) ==
  /\ wpc'[v] = wpc[v] /\ compress_sem'[v] = compress_sem[v] /\ size'[v] = size[v]
  /\ ibuf'[v] = ibuf[v] /\ obuf'[v] = obuf[v] /\ result'[v] = result[v]

\* Distances on the ring are smaller than the ring.
LEMMA DistFact ==
  ASSUME NEW a \in Workers, NEW b \in Workers
  PROVE  Dist(a, b) \in 0..(NWorkers - 1)
  BY NWorkersAssumption DEF Dist, Workers

\* The worker the caller deals to next is a worker of the ring.
LEMMA NextToDealFact ==
  ASSUME TypeOK
  PROVE  NextToDeal \in Workers
  BY NextWorkerFact DEF TypeOK, CallerTypes, NextToDeal

\* What worker v holds only depends on its own context, on the bytes of the
\* stream and on the block numbers it writes and is dealt next.
LEMMA WorkerFrame ==
  ASSUME NEW F, NEW F2, NEW t, NEW t2, NEW v \in Workers, WorkerOK(v, F, t), Same(v),
         raw_data_size' = raw_data_size, v < signalled' <=> v < signalled,
         NextToWrite(v, t2)' = NextToWrite(v, t),
         F2 + Dist(NextToDeal', v) = F + Dist(NextToDeal, v), F2 = F \/ ~Stale(v)
  PROVE  WorkerOK(v, F2, t2)'
  BY DEF WorkerOK, Same, Stale, Holds, Stops, In, Out, Dist

\* A step of worker w that leaves the caller and the file alone.
LEMMA QuietStep ==
  ASSUME NEW F \in Nat, NEW t \in Workers, Inv(F, t), NEW w \in Workers,
         UNCHANGED <<callerVars, fileVars, writable, ibuf>>,
         \A v \in Workers : v # w => Same(v),
         wpc[w] # "exit", \/ result'[w] = result[w]
                          \/ result'[w] = -1 /\ wpc'[w] = "exit",
         WorkerOK(w, F, t)'
  PROVE  /\ CallerInv(F)' /\ FillingInv(F)' /\ WorkerInv(F, t)' /\ DestInv(F)'
         /\ FailInv' /\ FileInv' /\ EndInv'
  <1>1. CallerInv(F)' /\ FillingInv(F)'
    BY DEF Inv, CallerInv, FillingInv, Open, callerVars
  <1>2. WorkerInv(F, t)'
    <2>1. NextToDeal' = NextToDeal
      BY DEF NextToDeal, Open, callerVars
    <2>2. SUFFICES ASSUME NEW v \in Workers PROVE WorkerOK(v, F, t)'
      BY DEF WorkerInv
    <2>3. CASE v # w
      <3>1. NextToWrite(v, t)' = NextToWrite(v, t)
        BY DEF NextToWrite, fileVars
      <3>. QED BY <2>1, <2>3, <3>1, WorkerFrame DEF Inv, WorkerInv, callerVars
    <2>. QED BY <2>3
  <1>3. DestInv(F)'
    BY DEF Inv, DestInv, Open, callerVars, fileVars
  <1>4. FailInv'
    BY DEF Inv, FailInv, Same
  <1>5. FileInv'
    BY DEF Inv, FailInv, FileInv, DestEnd, fileVars, Same
  <1>6. EndInv'
    BY DEF Inv, EndInv, Finished, DestEnd, callerVars, fileVars, Same
  <1>. QED BY <1>1, <1>2, <1>3, <1>4, <1>5, <1>6

\* A worker that creates its compressor, or fails to, keeps the invariant.
LEMMA CreateCompressorStep ==
  ASSUME TypeOK, DataTypes, NEW F \in Nat, NEW t \in Workers, Inv(F, t),
         NEW w \in Workers, CreateCompressor(w)
  PROVE  TypeOK' /\ DataTypes' /\ Inv(F, t)'
  <1>1. /\ wpc[w] = "create"
        /\ \/ wpc' = [wpc EXCEPT ![w] = "wait"] /\ result' = result
           \/ wpc' = [wpc EXCEPT ![w] = "exit"] /\ result' = [result EXCEPT ![w] = -1]
        /\ UNCHANGED <<callerVars, fileVars, writable, writable_sem, compress_sem, write_sem,
                       size, ibuf, obuf, compressed_size>>
    BY DEF CreateCompressor, FailWorker, Goto
  <1>2. \A v \in Workers : v # w => Same(v)
    BY <1>1 DEF TypeOK, ContextTypes, Same
  <1>3. \/ wpc'[w] = "wait" /\ result'[w] = result[w]
        \/ wpc'[w] = "exit" /\ result'[w] = -1
    BY <1>1 DEF TypeOK, ContextTypes
  <1>4. TypeOK' /\ DataTypes'
    BY <1>1 DEF TypeOK, CallerTypes, ContextTypes, FileTypes, DataTypes, callerVars, fileVars
  <1>5. BufferInv'
    BY <1>1, <1>2, <1>3 DEF Inv, BufferInv, Open, callerVars, Same
  <1>6. WorkerOK(w, F, t)'
    BY <1>1, <1>3
    DEF Inv, WorkerInv, WorkerOK, Stale, Holds, Stops, In, Out, NextToWrite, NextToDeal, Open,
        callerVars, fileVars
  <1>7. TurnInv(t)'
    BY <1>1, <1>2, <1>3 DEF Inv, TurnInv, Same
  <1>. QED BY <1>1, <1>2, <1>3, <1>4, <1>5, <1>6, <1>7, QuietStep DEF Inv

\* A worker that takes a compress_sem, and stops or goes on, keeps the invariant.
LEMMA WaitCompressStep ==
  ASSUME TypeOK, DataTypes, NEW F \in Nat, NEW t \in Workers, Inv(F, t),
         NEW w \in Workers, WaitCompress(w)
  PROVE  TypeOK' /\ DataTypes' /\ Inv(F, t)'
  <1>1. /\ wpc[w] = "wait" /\ compress_sem[w] > 0
        /\ compress_sem' = [compress_sem EXCEPT ![w] = compress_sem[w] - 1]
        /\ UNCHANGED <<callerVars, fileVars, writable, writable_sem, write_sem, size, ibuf, obuf,
                       compressed_size, result>>
    BY DEF WaitCompress
  <1>2. \A v \in Workers : v # w => Same(v)
    BY <1>1 DEF TypeOK, ContextTypes, Same, WaitCompress, Goto
  <1>3. /\ compress_sem[w] \in Nat /\ compress_sem'[w] = compress_sem[w] - 1
        /\ \/ wpc'[w] = "exit" /\ size[w] = 0
           \/ wpc'[w] = "compress"
    BY <1>1 DEF TypeOK, ContextTypes, WaitCompress, Goto
  <1>4. TypeOK' /\ DataTypes'
    <2>1. compress_sem' \in [Workers -> Nat]
      BY <1>1, <1>3 DEF TypeOK, ContextTypes
    <2>2. wpc' \in [Workers -> {"create", "wait", "compress", "turn", "write", "pass", "exit"}]
      BY DEF TypeOK, ContextTypes, WaitCompress, Goto
    <2>. QED BY <1>1, <2>1, <2>2
      DEF TypeOK, CallerTypes, ContextTypes, FileTypes, DataTypes, callerVars, fileVars
  <1>5. BufferInv'
    BY <1>1, <1>2, <1>3 DEF TypeOK, ContextTypes, Inv, BufferInv, Open, callerVars, Same
  <1>6. WorkerOK(w, F, t)'
    <2>1. SUFFICES ASSUME result[w] = 0
                   PROVE  IF Stale(w)' THEN NextToWrite(w, t)' >= F ELSE Holds(w, F, t)'
      BY <1>1 DEF WorkerOK
    <2>2. Holds(w, F, t)
      BY <1>1, <2>1 DEF Inv, WorkerInv, WorkerOK, Stale
    <2>3. /\ NextToWrite(w, t)' = NextToWrite(w, t) /\ Stops(w)' = Stops(w)
          /\ NextToDeal' = NextToDeal /\ raw_data_size' = raw_data_size
      BY <1>1 DEF NextToWrite, NextToDeal, Stops, Open, callerVars, fileVars
    <2>4. Out(w) = 0 /\ Out(w)' = 0
      BY <1>1, <1>3 DEF Out
    <2>5. CASE compress_sem[w] > Stops(w)
      <3>1. In(w) = NWorkers /\ wpc'[w] = "compress"
        BY <1>1, <1>3, <2>2, <2>5, NWorkersAssumption DEF In, Holds, Stops
      <3>2. In(w)' = NWorkers
        BY <3>1 DEF In
      <3>3. compress_sem'[w] = Stops(w) /\ ~Stale(w)'
        BY <1>1, <1>3, <2>2, <2>3, <2>5 DEF Holds, Stale, Stops, callerVars
      <3>4. Stops(w) \in Nat
        BY DEF Stops
      <3>. QED BY <1>1, <2>2, <2>3, <2>4, <3>1, <3>2, <3>3, <3>4, NWorkersAssumption
        DEF Holds
    <2>6. CASE ~(compress_sem[w] > Stops(w))
      <3>1. compress_sem[w] = 1 /\ Stops(w) = 1 /\ w < signalled /\ In(w) = 0
        BY <1>1, <1>3, <2>6 DEF Stops, In
      <3>2. NextToWrite(w, t) = F + Dist(NextToDeal, w) /\ NextToWrite(w, t) \in Nat
        BY <2>2, <2>4, <3>1, NextToDealFact, DistFact DEF Holds, NextToWrite, DataTypes
      <3>3. CASE wpc'[w] = "compress"
        BY <1>1, <1>3, <2>3, <3>1, <3>2, <3>3, NextToDealFact, DistFact
        DEF Stale, callerVars
      <3>4. CASE wpc'[w] = "exit"
        <4>1. In(w)' = 0 /\ ~Stale(w)'
          BY <1>1, <1>3, <2>3, <3>1, <3>4 DEF In, Stale, callerVars
        <4>. QED BY <1>1, <1>3, <2>2, <2>3, <2>4, <3>1, <3>4, <4>1, NWorkersAssumption
          DEF Holds, callerVars
      <3>. QED BY <1>3, <3>3, <3>4
    <2>. QED BY <2>5, <2>6
  <1>7. TurnInv(t)'
    BY <1>1, <1>2, <1>3 DEF Inv, TurnInv, Same
  <1>. QED BY <1>1, <1>2, <1>3, <1>4, <1>5, <1>6, <1>7, QuietStep DEF Inv

\* Compressing a block fixes its contents; a failure marks the worker failed.
LEMMA CompressStep ==
  ASSUME TypeOK, DataTypes, NEW F \in Nat, NEW t \in Workers, Inv(F, t),
         NEW w \in Workers, Compress(w)
  PROVE  TypeOK' /\ DataTypes' /\ Inv(F, t)'
  <1>1. /\ wpc[w] = "compress"
        /\ UNCHANGED <<callerVars, fileVars, writable, compress_sem, write_sem, ibuf>>
    BY DEF Compress
  <1>2. \A v \in Workers : v # w => Same(v) /\ writable_sem'[v] = writable_sem[v]
    BY DEF TypeOK, ContextTypes, DataTypes, Same, Compress, FailWorker, Goto
  <1>3. \/ /\ wpc'[w] = "turn" /\ result'[w] = result[w] /\ writable_sem'[w] = writable_sem[w] + 1
           /\ obuf'[w] = Contents(ibuf[w], size[w])
        \/ wpc'[w] = "exit" /\ result'[w] = -1 /\ writable_sem'[w] = writable_sem[w]
    BY DEF TypeOK, ContextTypes, DataTypes, Compress, FailWorker, Goto
  <1>4. TypeOK'
    <2>1. CASE UNCHANGED <<obuf, compressed_size, size, writable_sem>> /\ FailWorker(w)
      BY <1>1, <2>1
      DEF TypeOK, CallerTypes, ContextTypes, FileTypes, FailWorker, Goto, callerVars, fileVars
    <2>2. CASE /\ \E n \in CompressedSizes : compressed_size' = [compressed_size EXCEPT ![w] = n]
               /\ size' = [size EXCEPT ![w] = 0]
               /\ writable_sem' = [writable_sem EXCEPT ![w] = writable_sem[w] + 1]
               /\ Goto(w, "turn") /\ result' = result
      <3>1. writable_sem' \in [Workers -> Nat] /\ size' \in [Workers -> Nat]
        BY <2>2 DEF TypeOK, ContextTypes
      <3>2. compressed_size' \in [Workers -> Nat]
        BY <2>2, CompressedAssumption DEF TypeOK, ContextTypes
      <3>3. wpc' \in [Workers -> {"create", "wait", "compress", "turn", "write", "pass", "exit"}]
        BY <2>2 DEF TypeOK, ContextTypes, Goto
      <3>. QED BY <1>1, <2>2, <3>1, <3>2, <3>3
        DEF TypeOK, CallerTypes, ContextTypes, FileTypes, callerVars, fileVars
    <2>. QED BY <2>1, <2>2 DEF Compress
  <1>5. DataTypes'
    <2>1. Contents(ibuf[w], size[w]) \in BlockSet
      <3>1. /\ ibuf[w] \in [0..(BlockSize - 1) -> Nat \union {Junk}]
            /\ size[w] \in Nat
        BY DEF TypeOK, ContextTypes
      <3>2. Contents(ibuf[w], size[w]) \in [0..(size[w] - 1) -> Nat \union {Junk}]
        BY <3>1, BlockSizeAssumption DEF Contents
      <3>. QED BY <3>1, <3>2 DEF BlockSet
    <2>2. obuf' = obuf \/ obuf' = [obuf EXCEPT ![w] = Contents(ibuf[w], size[w])]
      BY DEF Compress
    <2>. QED BY <1>1, <2>1, <2>2 DEF DataTypes, fileVars
  <1>6. BufferInv'
    <2>1. writable' = writable /\ compress_sem' = compress_sem /\ (Open' <=> Open)
      BY <1>1 DEF Open, callerVars
    <2>2. /\ \A v \in Workers : v # w => writable_sem'[v] = writable_sem[v] /\ wpc'[v] = wpc[v]
          /\ writable_sem'[w] \in {writable_sem[w], writable_sem[w] + 1} /\ wpc'[w] # "compress"
      BY <1>2, <1>3 DEF Same
    <2>3. wpc[w] = "compress" /\ writable_sem[w] \in Nat
      BY <1>1 DEF TypeOK, ContextTypes
    <2>4. BufferInv
      BY DEF Inv
    <2>5. Open => writable_sem[w] = 0 /\ compress_sem[w] = 0 /\ w \notin writable
      BY <2>3, <2>4 DEF BufferInv
    <2>. QED BY <2>1, <2>2, <2>4, <2>5 DEF BufferInv
  <1>7. WorkerOK(w, F, t)'
    <2>1. SUFFICES ASSUME result'[w] = 0
                   PROVE  IF Stale(w)' THEN NextToWrite(w, t)' >= F ELSE Holds(w, F, t)'
      BY DEF WorkerOK
    <2>2. result[w] = 0 /\ wpc'[w] = "turn" /\ obuf'[w] = Contents(ibuf[w], size[w])
      BY <1>3, <2>1
    <2>3. /\ NextToWrite(w, t)' = NextToWrite(w, t) /\ Stops(w)' = Stops(w)
          /\ NextToDeal' = NextToDeal /\ raw_data_size' = raw_data_size
      BY <1>1 DEF NextToWrite, NextToDeal, Stops, Open, callerVars, fileVars
    <2>4. Stale(w)' <=> Stale(w)
      BY <1>1, <2>2 DEF Stale, callerVars
    <2>5. CASE Stale(w)
      BY <2>2, <2>3, <2>4, <2>5 DEF Inv, WorkerInv, WorkerOK
    <2>6. CASE ~Stale(w)
      <3>1. Holds(w, F, t) /\ compress_sem[w] <= Stops(w)
        BY <1>1, <2>2, <2>6 DEF Inv, WorkerInv, WorkerOK, Holds
      <3>2. compress_sem[w] \in Nat /\ Stops(w) \in Nat
        BY DEF TypeOK, ContextTypes, Stops
      <3>3. Out(w) = 0 /\ In(w) = NWorkers /\ Out(w)' = NWorkers /\ In(w)' = 0
        BY <1>1, <2>2, <2>3, <3>1, <3>2 DEF In, Out
      <3>4. NextToWrite(w, t) \in Nat
        BY DistFact DEF NextToWrite, DataTypes
      <3>. QED BY <1>1, <2>2, <2>3, <2>4, <2>6, <3>1, <3>2, <3>3, <3>4, NWorkersAssumption
        DEF Holds
    <2>. QED BY <2>5, <2>6
  <1>8. TurnInv(t)'
    BY <1>1, <1>2, <1>3 DEF Inv, TurnInv, Same
  <1>. QED BY <1>1, <1>2, <1>3, <1>4, <1>5, <1>6, <1>7, <1>8, QuietStep DEF Inv

\* Taking the turn: the worker that gets write_sem is the only one to hold it.
LEMMA WaitTurnStep ==
  ASSUME TypeOK, DataTypes, NEW F \in Nat, NEW t \in Workers, Inv(F, t),
         NEW w \in Workers, WaitTurn(w)
  PROVE  TypeOK' /\ DataTypes' /\ Inv(F, t)'
  <1>1. /\ wpc[w] = "turn" /\ write_sem[w] > 0
        /\ write_sem' = [write_sem EXCEPT ![w] = write_sem[w] - 1]
        /\ wpc' = [wpc EXCEPT ![w] = "write"]
        /\ UNCHANGED <<callerVars, fileVars, writable, writable_sem, compress_sem, size, ibuf,
                       obuf, compressed_size, result>>
    BY DEF WaitTurn, Goto
  <1>2. \A v \in Workers : v # w => Same(v) /\ write_sem'[v] = write_sem[v]
    BY <1>1 DEF TypeOK, ContextTypes, Same
  <1>3. wpc'[w] = "write" /\ write_sem[w] \in Nat /\ write_sem'[w] = write_sem[w] - 1
    BY <1>1 DEF TypeOK, ContextTypes
  <1>4. TypeOK' /\ DataTypes'
    <2>1. write_sem' \in [Workers -> Nat]
      BY <1>1, <1>3 DEF TypeOK, ContextTypes
    <2>. QED BY <1>1, <2>1
      DEF TypeOK, CallerTypes, ContextTypes, FileTypes, DataTypes, callerVars, fileVars
  <1>5. BufferInv'
    BY <1>1, <1>2, <1>3 DEF Inv, BufferInv, Open, callerVars, Same
  <1>6. WorkerOK(w, F, t)'
    BY <1>1, <1>3
    DEF Inv, WorkerInv, WorkerOK, Stale, Holds, Stops, In, Out, NextToWrite, NextToDeal, Open,
        callerVars, fileVars
  <1>7. TurnInv(t)'
    BY <1>1, <1>2, <1>3 DEF Inv, TurnInv, Same
  <1>. QED BY <1>1, <1>2, <1>3, <1>4, <1>5, <1>6, <1>7, QuietStep DEF Inv

\* Passing the turn on and giving the input buffer back keeps the invariant.
LEMMA PassTurnStep ==
  ASSUME TypeOK, DataTypes, NEW F \in Nat, NEW t \in Workers, Inv(F, t),
         NEW w \in Workers, PassTurn(w)
  PROVE  TypeOK' /\ DataTypes' /\ Inv(F, t)'
  <1>1. /\ wpc[w] = "pass"
        /\ write_sem' = [write_sem EXCEPT ![NextWorker(w)] = write_sem[NextWorker(w)] + 1]
        /\ wpc' = [wpc EXCEPT ![w] = "wait"]
        /\ UNCHANGED <<callerVars, fileVars, writable, writable_sem, compress_sem, size, ibuf,
                       obuf, compressed_size, result>>
    BY DEF PassTurn, Goto
  <1>2. \A v \in Workers : v # w => Same(v)
    BY <1>1 DEF TypeOK, ContextTypes, Same
  <1>3. NextWorker(w) \in Workers /\ NextWorker(w) = t /\ wpc'[w] = "wait"
    BY <1>1, NextWorkerFact DEF TypeOK, ContextTypes, Inv, TurnInv
  <1>4. TypeOK' /\ DataTypes'
    <2>1. write_sem' \in [Workers -> Nat]
      BY <1>1, <1>3 DEF TypeOK, ContextTypes
    <2>. QED BY <1>1, <2>1
      DEF TypeOK, CallerTypes, ContextTypes, FileTypes, DataTypes, callerVars, fileVars
  <1>5. BufferInv'
    BY <1>1, <1>2, <1>3 DEF Inv, BufferInv, Open, callerVars, Same
  <1>6. WorkerOK(w, F, t)'
    BY <1>1, <1>3
    DEF Inv, WorkerInv, WorkerOK, Stale, Holds, Stops, In, Out, NextToWrite, NextToDeal, Open,
        callerVars, fileVars
  <1>7. TurnInv(t)'
    <2>1. \A v \in Workers : wpc[v] = "pass" => v = w
      BY <1>1, <1>3, NextWorkerFact, NWorkersAssumption DEF Inv, TurnInv, Workers
    <2>2. \A v \in Workers : write_sem[v] = 0
      <3>1. \A v \in Workers : write_sem[v] \in Nat /\ ~(write_sem[v] > 0)
        BY <1>1 DEF TypeOK, ContextTypes, Inv, TurnInv
      <3>. QED BY <3>1
    <2>3. \A v \in Workers : write_sem'[v] = IF v = t THEN 1 ELSE 0
      BY <1>1, <1>3, <2>2 DEF TypeOK, ContextTypes
    <2>. QED BY <1>1, <1>2, <1>3, <2>1, <2>3 DEF Inv, TurnInv, Same
  <1>. QED BY <1>1, <1>2, <1>3, <1>4, <1>5, <1>6, <1>7, QuietStep DEF Inv

\* The turn moves one step along the ring when a block is appended.
LEMMA TurnMoves ==
  ASSUME NEW t \in Workers, NEW v \in Workers
  PROVE  1 + Dist(NextWorker(t), v) = IF v = t THEN NWorkers ELSE Dist(t, v)
  BY NextWorkerFact, NWorkersAssumption DEF Dist, Workers

\* A worker whose write fails keeps the turn for ever; the file is as it was.
LEMMA WriteBlockFails ==
  ASSUME TypeOK, DataTypes, NEW F \in Nat, NEW t \in Workers, Inv(F, t),
         NEW w \in Workers, WriteBlock(w), dest' = dest, FailWorker(w)
  PROVE  TypeOK' /\ DataTypes' /\ Inv(F, t)'
  <1>1. /\ wpc[w] = "write" /\ wpc' = [wpc EXCEPT ![w] = "exit"]
        /\ result' = [result EXCEPT ![w] = -1]
        /\ moffset' = moffset + compressed_size[w]
        /\ m_block_len' = Append(m_block_len, compressed_size[w])
        /\ UNCHANGED <<callerVars, writable, writable_sem, compress_sem, write_sem, size, ibuf,
                       obuf, compressed_size, start, index, trailer, header>>
    BY DEF WriteBlock, FailWorker, Goto
  <1>2. \A v \in Workers : v # w => Same(v)
    BY <1>1 DEF TypeOK, ContextTypes, Same
  <1>3. wpc'[w] = "exit" /\ result'[w] = -1
    BY <1>1 DEF TypeOK, ContextTypes
  <1>4. TypeOK' /\ DataTypes'
    <2>2. compressed_size[w] \in Nat /\ moffset \in Nat /\ m_block_len \in Seq(Nat)
      BY DEF TypeOK, ContextTypes, FileTypes
    <2>1. moffset' \in Nat /\ m_block_len' \in Seq(Nat)
      BY <1>1, <2>2
    <2>. QED BY <1>1, <2>1 DEF TypeOK, CallerTypes, ContextTypes, FileTypes, DataTypes, callerVars
  <1>5. CallerInv(F)' /\ FillingInv(F)'
    BY <1>1 DEF Inv, CallerInv, FillingInv, Open, callerVars
  <1>6. BufferInv'
    BY <1>1, <1>2, <1>3 DEF Inv, BufferInv, Open, callerVars, Same
  <1>7. WorkerInv(F, t)'
    <2>1. NextToDeal' = NextToDeal
      BY <1>1 DEF NextToDeal, Open, callerVars
    <2>2. SUFFICES ASSUME NEW v \in Workers PROVE WorkerOK(v, F, t)'
      BY DEF WorkerInv
    <2>3. CASE v # w
      <3>1. NextToWrite(v, t)' = NextToWrite(v, t)
        BY DEF NextToWrite
      <3>. QED BY <1>1, <1>2, <2>1, <2>3, <3>1, WorkerFrame DEF Inv, WorkerInv, callerVars
    <2>4. CASE v = w
      BY <1>3, <2>4 DEF WorkerOK
    <2>. QED BY <2>3, <2>4
  <1>8. TurnInv(t)' /\ FailInv'
    BY <1>1, <1>2, <1>3 DEF Inv, TurnInv, FailInv, Same
  <1>9. DestInv(F)'
    BY <1>1 DEF Inv, DestInv, Open, callerVars
  <1>10. FileInv'
    BY <1>3 DEF FileInv
  <1>11. EndInv'
    BY <1>1 DEF Inv, EndInv, Finished, callerVars
  <1>. QED BY <1>4, <1>5, <1>6, <1>7, <1>8, <1>9, <1>10, <1>11 DEF Inv

\* The block a worker appends is the next block of the stream.
LEMMA WriteBlockSucceeds ==
  ASSUME TypeOK, DataTypes, NEW F \in Nat, NEW t \in Workers, Inv(F, t),
         NEW w \in Workers, WriteBlock(w),
         dest' = Append(dest, [at |-> DestEnd, len |-> compressed_size[w], data |-> obuf[w]]),
         Goto(w, "pass"), result' = result
  PROVE  TypeOK' /\ DataTypes' /\ Inv(F, NextWorker(t))'
  <1> DEFINE rec == [at |-> DestEnd, len |-> compressed_size[w], data |-> obuf[w]]
             t2 == NextWorker(t)
  <1>1. /\ wpc[w] = "write" /\ wpc' = [wpc EXCEPT ![w] = "pass"]
        /\ moffset' = moffset + compressed_size[w]
        /\ m_block_len' = Append(m_block_len, compressed_size[w])
        /\ UNCHANGED <<callerVars, writable, writable_sem, compress_sem, write_sem, size, ibuf,
                       obuf, compressed_size, start, index, trailer, header>>
    BY DEF WriteBlock, Goto
  <1>2. \A v \in Workers : v # w => Same(v)
    BY <1>1 DEF TypeOK, ContextTypes, Same
  <1>3. wpc'[w] = "pass" /\ w = t /\ result[w] = 0 /\ t2 \in Workers
    BY <1>1, NextWorkerFact DEF TypeOK, ContextTypes, Inv, TurnInv, FailInv
  <1>4. rec \in DestRecord /\ compressed_size[w] \in Nat
    <2>1. DestEnd \in Nat
      <3>1. dest # << >> => dest[Len(dest)] \in DestRecord
        BY DEF DataTypes
      <3>. QED BY <3>1 DEF DestEnd, DestRecord, DataTypes
    <2>. QED BY <2>1 DEF TypeOK, ContextTypes, DataTypes, DestRecord
  <1>5. /\ dest' \in Seq(DestRecord) /\ Len(dest') = Len(dest) + 1
        /\ \A k \in 1..Len(dest) : dest'[k] = dest[k]
        /\ dest'[Len(dest) + 1] = rec /\ Len(dest) \in Nat
    BY <1>4 DEF DataTypes
  <1>6. TypeOK' /\ DataTypes'
    <2>1. moffset' \in Nat /\ m_block_len' \in Seq(Nat)
      BY <1>1, <1>4 DEF TypeOK, FileTypes
    <2>. QED BY <1>1, <1>5, <2>1
      DEF TypeOK, CallerTypes, ContextTypes, FileTypes, DataTypes, callerVars
  <1>7. CallerInv(F)' /\ FillingInv(F)'
    BY <1>1 DEF Inv, CallerInv, FillingInv, Open, callerVars
  <1>8. BufferInv'
    BY <1>1, <1>2, <1>3 DEF Inv, BufferInv, Open, callerVars, Same
  <1>9. /\ \A v \in Workers : v # w => NextToWrite(v, t2)' = NextToWrite(v, t)
        /\ NextToWrite(w, t2)' = NextToWrite(w, t) + NWorkers
        /\ NextToWrite(w, t) = Len(dest)
    <2>1. Dist(t, t) = 0
      BY NWorkersAssumption DEF Dist, Workers
    <2>2. \A v \in Workers : Dist(t, v) \in Nat /\ Dist(t2, v) \in Nat
      BY <1>3, DistFact
    <2>3. \A v \in Workers : /\ NextToWrite(v, t) = Len(dest) + Dist(t, v)
                            /\ NextToWrite(v, t2)' = Len(dest) + 1 + Dist(t2, v)
      BY <1>5 DEF NextToWrite, Dist
    <2>4. \A v \in Workers : 1 + Dist(t2, v) = IF v = t THEN NWorkers ELSE Dist(t, v)
      BY TurnMoves
    <2>5. \A v \in Workers : v # w => NextToWrite(v, t2)' = NextToWrite(v, t)
      BY <1>3, <1>5, <2>2, <2>3, <2>4
    <2>6. Dist(t, w) = 0 /\ 1 + Dist(t2, w) = NWorkers /\ Dist(t2, w) \in Nat
      BY <1>3, <2>1, <2>2, <2>4
    <2>7. /\ NextToWrite(w, t) = Len(dest) + Dist(t, w)
          /\ NextToWrite(w, t2)' = Len(dest) + 1 + Dist(t2, w)
      BY <2>3
    <2>. QED BY <1>5, <2>5, <2>6, <2>7, NWorkersAssumption
  <1>10. WorkerInv(F, t2)'
    <2>1. NextToDeal' = NextToDeal
      BY <1>1 DEF NextToDeal, Open, callerVars
    <2>2. SUFFICES ASSUME NEW v \in Workers PROVE WorkerOK(v, F, t2)'
      BY DEF WorkerInv
    <2>3. CASE v # w
      BY <1>1, <1>2, <1>9, <2>1, <2>3, WorkerFrame DEF Inv, WorkerInv, callerVars
    <2>4. CASE v = w
      <3>1. Stale(w)' <=> Stale(w)
        BY <1>1, <1>3 DEF Stale, callerVars
      <3>2. CASE Stale(w)
        BY <1>3, <1>5, <1>9, <2>4, <3>1, <3>2, NWorkersAssumption DEF Inv, WorkerInv, WorkerOK
      <3>3. CASE ~Stale(w)
        <4>1. Holds(w, F, t)
          BY <1>3, <3>3 DEF Inv, WorkerInv, WorkerOK
        <4>2. Stops(w)' = Stops(w) /\ In(w)' = In(w) /\ Out(w)' = 0 /\ Out(w) = NWorkers
          BY <1>1, <1>3 DEF Stops, In, Out, callerVars
        <4>3. In(w) \in Nat
          BY NWorkersAssumption DEF In
        <4>. QED BY <1>1, <1>3, <1>5, <1>9, <2>1, <2>4, <3>1, <3>3, <4>1, <4>2, <4>3,
                    NWorkersAssumption
          DEF WorkerOK, Holds, callerVars
      <3>. QED BY <3>2, <3>3
    <2>. QED BY <2>3, <2>4
  <1>11. TurnInv(t2)'
    <2>1. \A v \in Workers : ~(write_sem[v] > 0) /\ wpc[v] # "pass" /\ (wpc[v] = "write" => v = w)
      BY <1>1, <1>3 DEF Inv, TurnInv
    <2>. QED BY <1>1, <1>2, <1>3, <2>1 DEF TurnInv, Same
  <1>12. DestInv(F)'
    <2>1. Open => Len(dest) + 1 <= F
      <3>1. SUFFICES ASSUME Open PROVE Len(dest) + 1 <= F
        OBVIOUS
      <3>2. ~Stale(w) /\ NextToDeal \in Workers
        BY <3>1, NextToDealFact DEF Inv, CallerInv, Stale, Workers
      <3>3. NextToWrite(w, t) + Out(w) + In(w) = F + Dist(NextToDeal, w) /\ Out(w) = NWorkers
        BY <1>1, <1>3, <3>2 DEF Inv, WorkerInv, WorkerOK, Holds, Out
      <3>4. In(w) \in Nat /\ Dist(NextToDeal, w) \in 0..(NWorkers - 1)
        BY <3>2, NWorkersAssumption, DistFact DEF In
      <3>. QED BY <1>5, <1>9, <3>3, <3>4, NWorkersAssumption
    <2>2. Len(dest) + 1 <= F => obuf[w] = StreamBlock(raw_data_size, Len(dest))
      <3>1. Out(w) > 0
        BY <1>1, NWorkersAssumption DEF Out
      <3>. QED BY <1>3, <1>5, <1>9, <3>1 DEF Inv, WorkerInv, WorkerOK, Holds
    <2>3. Open' <=> Open
      BY <1>1 DEF Open, callerVars
    <2>4. ASSUME NEW k \in 1..Len(dest'), k <= F
          PROVE  dest'[k].data = StreamBlock(raw_data_size, k - 1)
      <3>1. CASE k = Len(dest) + 1
        BY <1>5, <2>2, <2>4, <3>1
      <3>2. CASE k # Len(dest) + 1
        BY <1>5, <2>4, <3>2 DEF Inv, DestInv
      <3>. QED BY <3>1, <3>2
    <2>. QED BY <1>1, <1>5, <2>1, <2>3, <2>4 DEF DestInv, callerVars
  <1>13. FailInv'
    BY <1>2, <1>3 DEF Inv, FailInv, Same
  <1>14. FileInv'
    <2>1. SUFFICES ASSUME \A v \in Workers : result[v] = 0
                   PROVE  /\ Len(m_block_len') = Len(dest')
                          /\ \A k \in 1..Len(dest') : m_block_len'[k] = dest'[k].len
                          /\ moffset' - HeaderSpace = DestEnd' - start'
      BY DEF FileInv
    <2>2. /\ Len(m_block_len) = Len(dest) /\ moffset - HeaderSpace = DestEnd - start
          /\ \A k \in 1..Len(dest) : m_block_len[k] = dest[k].len
      BY <2>1 DEF Inv, FileInv
    <2>3. DestEnd' = DestEnd + compressed_size[w]
      BY <1>5 DEF DestEnd
    <2>4. /\ Len(m_block_len') = Len(m_block_len) + 1
          /\ \A k \in 1..Len(m_block_len) : m_block_len'[k] = m_block_len[k]
          /\ m_block_len'[Len(m_block_len) + 1] = compressed_size[w]
      BY <1>1, <1>4 DEF TypeOK, FileTypes
    <2>5. DestEnd \in Nat /\ start \in Nat /\ moffset \in Nat /\ start' = start
      BY <1>1, <1>4 DEF TypeOK, FileTypes, DataTypes, DestRecord
    <2>6. moffset' - HeaderSpace = DestEnd' - start'
      BY <1>1, <1>4, <2>2, <2>3, <2>5 DEF HeaderSpace
    <2>7. rec.len = compressed_size[w]
      OBVIOUS
    <2>. QED BY <1>5, <2>2, <2>4, <2>6, <2>7
  <1>15. EndInv'
    BY <1>1 DEF Inv, EndInv, Finished, callerVars
  <1>. QED BY <1>6, <1>7, <1>8, <1>10, <1>11, <1>12, <1>13, <1>14, <1>15 DEF Inv

-----------------------------------------------------------------------------
(* Steps of the caller *)

\* A step of the caller inside close() that touches no worker.
LEMMA ClosingStep ==
  ASSUME NEW F \in Nat, NEW t \in Workers, Inv(F, t), ~Open, ~Open',
         UNCHANGED <<count, raw_data_size, reserved_size, cur_id, signalled, ctxVars, moffset,
                     m_block_len, start, dest>>,
         pc' \notin {"stop", "signal"} \/ (pc = "stop" /\ pc' = "signal")
  PROVE  /\ CallerInv(F)' /\ FillingInv(F)' /\ BufferInv' /\ WorkerInv(F, t)' /\ TurnInv(t)'
         /\ DestInv(F)' /\ FailInv' /\ FileInv'
  <1>1. CallerInv(F)' /\ FillingInv(F)' /\ BufferInv'
    BY NWorkersAssumption DEF Inv, CallerInv, FillingInv, BufferInv, Open
  <1>2. WorkerInv(F, t)'
    <2>1. NextToDeal' = NextToDeal
      BY DEF NextToDeal
    <2>2. SUFFICES ASSUME NEW v \in Workers PROVE WorkerOK(v, F, t)'
      BY DEF WorkerInv
    <2>3. NextToWrite(v, t)' = NextToWrite(v, t) /\ Same(v)
      BY DEF NextToWrite, Same, ctxVars
    <2>. QED BY <2>1, <2>3, WorkerFrame DEF Inv, WorkerInv
  <1>3. TurnInv(t)' /\ FailInv'
    BY DEF Inv, TurnInv, FailInv, ctxVars
  <1>4. DestInv(F)' /\ FileInv'
    BY DEF Inv, DestInv, FileInv, DestEnd, ctxVars
  <1>. QED BY <1>1, <1>2, <1>3, <1>4

\* Setting m_stop_flag keeps the invariant.
LEMMA FiniStopStep ==
  ASSUME TypeOK, DataTypes, NEW F \in Nat, NEW t \in Workers, Inv(F, t), FiniStop
  PROVE  TypeOK' /\ DataTypes' /\ Inv(F, t)'
  <1>1. TypeOK' /\ DataTypes'
    BY DEF TypeOK, CallerTypes, ContextTypes, FileTypes, DataTypes, FiniStop, ctxVars, fileVars
  <1>2. EndInv'
    BY DEF Inv, EndInv, Finished, FiniStop, fileVars
  <1>. QED BY <1>1, <1>2, ClosingStep DEF Inv, Open, FiniStop, fileVars

\* Joining the workers and looking at their results keeps the invariant.
LEMMA FiniJoinStep ==
  ASSUME TypeOK, DataTypes, NEW F \in Nat, NEW t \in Workers, Inv(F, t), FiniJoin
  PROVE  TypeOK' /\ DataTypes' /\ Inv(F, t)'
  <1>1. TypeOK' /\ DataTypes'
    BY DEF TypeOK, CallerTypes, ContextTypes, FileTypes, DataTypes, FiniJoin, ctxVars, fileVars
  <1>2. EndInv'
    BY DEF TypeOK, ContextTypes, Inv, EndInv, Finished, FiniJoin, ctxVars, fileVars
  <1>. QED BY <1>1, <1>2, ClosingStep DEF Inv, Open, FiniJoin, fileVars

\* Writing the index keeps the invariant.
LEMMA FiniIndexStep ==
  ASSUME TypeOK, DataTypes, NEW F \in Nat, NEW t \in Workers, Inv(F, t), FiniIndex
  PROVE  TypeOK' /\ DataTypes' /\ Inv(F, t)'
  <1>1. TypeOK' /\ DataTypes'
    BY DEF TypeOK, CallerTypes, ContextTypes, FileTypes, DataTypes, FiniIndex, ctxVars
  <1>2. EndInv'
    BY DEF Inv, EndInv, Finished, DestEnd, FiniIndex, ctxVars
  <1>. QED BY <1>1, <1>2, ClosingStep DEF Inv, Open, FiniIndex

\* Writing the trailer keeps the invariant.
LEMMA FiniTrailerStep ==
  ASSUME TypeOK, DataTypes, NEW F \in Nat, NEW t \in Workers, Inv(F, t), FiniTrailer
  PROVE  TypeOK' /\ DataTypes' /\ Inv(F, t)'
  <1>1. TypeOK' /\ DataTypes'
    BY DEF TypeOK, CallerTypes, ContextTypes, FileTypes, DataTypes, FiniTrailer, ctxVars
  <1>2. EndInv'
    BY DEF Inv, EndInv, Finished, DestEnd, FiniTrailer, Stored, HeaderTrailer, ctxVars
  <1>. QED BY <1>1, <1>2, ClosingStep DEF Inv, Open, FiniTrailer

\* Writing the header and returning from close() keeps the invariant.
LEMMA FiniHeaderStep ==
  ASSUME TypeOK, DataTypes, NEW F \in Nat, NEW t \in Workers, Inv(F, t), FiniHeader
  PROVE  TypeOK' /\ DataTypes' /\ Inv(F, t)'
  <1>1. TypeOK' /\ DataTypes'
    BY DEF TypeOK, CallerTypes, ContextTypes, FileTypes, DataTypes, FiniHeader, ctxVars
  <1>2. EndInv'
    BY DEF Inv, EndInv, Finished, DestEnd, FiniHeader, Stored, HeaderTrailer, ctxVars
  <1>. QED BY <1>1, <1>2, ClosingStep DEF Inv, Open, FiniHeader

\* Waking a worker to stop gives it at most one signal beyond its blocks.
LEMMA FiniSignalStep ==
  ASSUME TypeOK, DataTypes, NEW F \in Nat, NEW t \in Workers, Inv(F, t), FiniSignal
  PROVE  TypeOK' /\ DataTypes' /\ Inv(F, t)'
  <1>0. signalled \in Workers
    BY NWorkersAssumption
    DEF TypeOK, CallerTypes, Inv, CallerInv, FiniSignal, Workers
  <1>w. PICK w \in Workers : w = signalled
    BY <1>0
  <1>1. w \in Workers /\ w = signalled /\ ~Open /\ ~Open' /\ signalled' = signalled + 1
    BY <1>w DEF Open, FiniSignal
  <1>2. /\ compress_sem' = [compress_sem EXCEPT ![w] = compress_sem[w] + 1]
        /\ UNCHANGED <<count, raw_data_size, reserved_size, cur_id, m_stop_flag, writable,
                       writable_sem, write_sem, size, ibuf, obuf, compressed_size, result, wpc,
                       fileVars>>
    BY <1>w DEF FiniSignal
  <1>3. TypeOK' /\ DataTypes'
    <2>1. compress_sem' \in [Workers -> Nat]
      BY <1>1, <1>2 DEF TypeOK, ContextTypes
    <2>2. CallerTypes'
      BY <1>1, <1>2, NWorkersAssumption
      DEF TypeOK, CallerTypes, Inv, CallerInv, FiniSignal, Workers
    <2>. QED BY <1>2, <2>1, <2>2 DEF TypeOK, ContextTypes, FileTypes, DataTypes, fileVars
  <1>4. CallerInv(F)' /\ FillingInv(F)' /\ BufferInv'
    BY <1>1, <1>2, NWorkersAssumption
    DEF TypeOK, CallerTypes, Inv, CallerInv, FillingInv, BufferInv, Open, FiniSignal
  <1>5. WorkerInv(F, t)'
    <2>1. NextToDeal' = NextToDeal
      BY <1>1, <1>2 DEF NextToDeal
    <2>2. SUFFICES ASSUME NEW v \in Workers PROVE WorkerOK(v, F, t)'
      BY DEF WorkerInv
    <2>3. NextToWrite(v, t)' = NextToWrite(v, t)
      BY <1>2 DEF NextToWrite, fileVars
    <2>4. CASE v # w
      <3>1. v < signalled' <=> v < signalled
        BY <1>1, <2>4 DEF Workers
      <3>2. Same(v)
        BY <1>2, <2>4 DEF TypeOK, ContextTypes, Same
      <3>. QED BY <1>2, <2>1, <2>3, <3>1, <3>2, WorkerFrame DEF Inv, WorkerInv
    <2>5. CASE v = w
      <3>1. SUFFICES ASSUME result[w] = 0
                     PROVE  IF Stale(w)' THEN NextToWrite(w, t)' >= F ELSE Holds(w, F, t)'
        BY <1>2, <2>5 DEF WorkerOK
      <3>2. Holds(w, F, t) /\ ~(w < signalled)
        BY <1>1, <2>5, <3>1 DEF Inv, WorkerInv, WorkerOK, Stale, Workers
      <3>3. /\ compress_sem[w] \in Nat /\ compress_sem'[w] = compress_sem[w] + 1
            /\ Stops(w) = 0 /\ Stops(v)' = 1
        BY <1>1, <1>2, <2>5, <3>2 DEF TypeOK, ContextTypes, Stops, Workers
      <3>4. ~Stale(v)' /\ Out(v)' = Out(v) /\ In(v)' = In(v)
        BY <1>1, <1>2, <2>5, <3>3 DEF Stale, Out, In
      <3>. QED BY <1>1, <1>2, <2>1, <2>3, <2>5, <3>2, <3>3, <3>4 DEF Holds, WorkerOK
    <2>. QED BY <2>4, <2>5
  <1>6. TurnInv(t)' /\ FailInv'
    BY <1>2 DEF Inv, TurnInv, FailInv
  <1>7. DestInv(F)' /\ FileInv'
    BY <1>1, <1>2 DEF Inv, DestInv, FileInv, DestEnd, fileVars
  <1>8. EndInv'
    BY <1>2 DEF Inv, EndInv, Finished, FiniSignal, fileVars
  <1>. QED BY <1>3, <1>4, <1>5, <1>6, <1>7, <1>8 DEF Inv

\* Entering write() keeps the invariant.
LEMMA WriteStep ==
  ASSUME TypeOK, DataTypes, NEW F \in Nat, NEW t \in Workers, Inv(F, t),
         NEW n \in WriteSizes, Write(n)
  PROVE  TypeOK' /\ DataTypes' /\ Inv(F, t)'
  <1>1. /\ Open /\ Open' /\ pc = "open" /\ count = 0 /\ signalled = 0
        /\ raw_data_size \in Nat /\ raw_data_size' = raw_data_size + n /\ n \in Nat
        /\ F * BlockSize \in Nat /\ F * BlockSize <= raw_data_size
    <2>1. n \in Nat
      BY BytesAssumption
    <2>2. reserved_size \in Nat /\ raw_data_size \in Nat /\ F * BlockSize \in Nat
      BY Multiples, BlockSizeAssumption DEF TypeOK, CallerTypes
    <2>3. pc = "open" /\ Open /\ Open' /\ raw_data_size' = raw_data_size + n
      BY DEF Open, Write
    <2>4. count = 0 /\ signalled = 0 /\ F * BlockSize + reserved_size = raw_data_size - count
      BY <2>3 DEF Inv, CallerInv
    <2>. QED BY <2>1, <2>2, <2>3, <2>4
  <1>2. TypeOK' /\ DataTypes'
    <2>1. raw_data_size' \in Nat /\ count' \in Nat
      BY <1>1 DEF Write
    <2>. QED BY <2>1
      DEF TypeOK, CallerTypes, ContextTypes, FileTypes, DataTypes, Write, ctxVars, fileVars
  <1>3. \A k \in Nat : k < F => StreamBlock(raw_data_size', k) = StreamBlock(raw_data_size, k)
    <2>1. SUFFICES ASSUME NEW k \in Nat, k < F
                   PROVE  StreamBlock(raw_data_size', k) = StreamBlock(raw_data_size, k)
      OBVIOUS
    <2>2. (k + 1) * BlockSize <= raw_data_size
      <3>1. k + 1 \in Nat /\ k + 1 <= F /\ (k + 1) * BlockSize \in Nat
        BY <2>1, BlockSizeAssumption
      <3>2. (k + 1) * BlockSize <= F * BlockSize
        BY <3>1, Multiples
      <3>. QED BY <1>1, <3>1, <3>2
    <2>3. raw_data_size' \in Nat /\ raw_data_size <= raw_data_size'
      BY <1>1
    <2>. QED BY <1>1, <2>2, <2>3, CompleteBlock
  <1>4. CallerInv(F)' /\ FillingInv(F)' /\ BufferInv'
    BY <1>1 DEF TypeOK, CallerTypes, Inv, CallerInv, FillingInv, BufferInv, Open, Write, ctxVars
  <1>5. WorkerInv(F, t)'
    <2>1. NextToDeal' = NextToDeal /\ NextToDeal \in Workers
      BY <1>1, NextToDealFact DEF NextToDeal, Write
    <2>2. SUFFICES ASSUME NEW v \in Workers, result[v] = 0
                   PROVE  IF Stale(v)' THEN NextToWrite(v, t)' >= F ELSE Holds(v, F, t)'
      BY DEF WorkerInv, WorkerOK, Write, ctxVars
    <2>3. ~Stale(v) /\ ~Stale(v)'
      BY <1>1 DEF Stale, Write, Workers
    <2>4. Holds(v, F, t)
      BY <2>2, <2>3 DEF Inv, WorkerInv, WorkerOK
    <2>5. /\ NextToWrite(v, t)' = NextToWrite(v, t) /\ Stops(v)' = Stops(v)
          /\ In(v)' = In(v) /\ Out(v)' = Out(v)
      BY DEF NextToWrite, Stops, In, Out, Write, ctxVars, fileVars
    <2>6. /\ NextToWrite(v, t) \in Nat /\ Dist(NextToDeal, v) \in 0..(NWorkers - 1)
          /\ In(v) \in {0, NWorkers} /\ Out(v) \in {0, NWorkers}
      BY <2>1, DistFact DEF NextToWrite, DataTypes, In, Out
    <2>7. Out(v) > 0 => NextToWrite(v, t) < F
      BY <2>4, <2>6, NWorkersAssumption DEF Holds
    <2>8. In(v) > 0 => NextToWrite(v, t) + Out(v) < F /\ NextToWrite(v, t) + Out(v) \in Nat
      BY <2>4, <2>6, NWorkersAssumption DEF Holds
    <2>. QED BY <1>3, <2>1, <2>3, <2>4, <2>5, <2>6, <2>7, <2>8 DEF Holds, Write, ctxVars
  <1>6. TurnInv(t)' /\ FailInv' /\ FileInv'
    BY DEF Inv, TurnInv, FailInv, FileInv, DestEnd, Write, ctxVars, fileVars
  <1>7. DestInv(F)'
    <2>1. \A k \in 1..Len(dest) : k <= F => k - 1 \in Nat /\ k - 1 < F
      BY DEF DataTypes
    <2>. QED BY <1>1, <1>3, <2>1 DEF Inv, DestInv, Write, fileVars
  <1>8. EndInv'
    BY <1>1 DEF Inv, EndInv, Finished, Open, Write, fileVars
  <1>. QED BY <1>2, <1>4, <1>5, <1>6, <1>7, <1>8 DEF Inv

\* Copying into the buffer the caller claimed disturbs no block under way.
LEMMA CopyStep ==
  ASSUME TypeOK, DataTypes, NEW F \in Nat, NEW t \in Workers, Inv(F, t), Copy
  PROVE  TypeOK' /\ DataTypes' /\ Inv(F, t)'
  <1> DEFINE w == cur_id
  <1>1. /\ w \in Workers /\ Open /\ Open' /\ reserved_size \in Nat /\ count \in Nat
        /\ raw_data_size \in Nat /\ CopyLen \in Nat /\ 0 < CopyLen /\ CopyLen <= count
        /\ reserved_size + CopyLen <= BlockSize
        /\ reserved_size + CopyLen < BlockSize => CopyLen = count
        /\ F * BlockSize + reserved_size = raw_data_size - count /\ F * BlockSize \in Nat
        /\ signalled = 0 /\ cur_id' = cur_id
    BY BlockSizeAssumption, Multiples
    DEF TypeOK, CallerTypes, Inv, CallerInv, Open, Copy, CopyLen
  <1>2. /\ \A v \in Workers : v # w => ibuf'[v] = ibuf[v] /\ writable_sem'[v] = writable_sem[v]
        /\ \A i \in 0..(BlockSize - 1) :
             ibuf'[w][i] = IF i >= reserved_size /\ i < reserved_size + CopyLen
                           THEN raw_data_size - count + (i - reserved_size) ELSE ibuf[w][i]
        /\ w \notin writable => writable_sem[w] > 0 /\ writable_sem'[w] = writable_sem[w] - 1
        /\ w \in writable => writable_sem'[w] = writable_sem[w]
        /\ writable_sem[w] \in Nat
    <2>1. /\ writable_sem \in [Workers -> Nat]
          /\ ibuf \in [Workers -> [0..(BlockSize - 1) -> Nat \union {Junk}]]
      BY DEF TypeOK, ContextTypes
    <2>2. \/ w \in writable /\ writable_sem' = writable_sem
          \/ /\ w \notin writable /\ writable_sem[w] > 0
             /\ writable_sem' = [writable_sem EXCEPT ![w] = writable_sem[w] - 1]
      BY DEF Copy
    <2>3. ibuf' = [ibuf EXCEPT ![w] =
            [i \in 0..(BlockSize - 1) |->
               IF i >= reserved_size /\ i < reserved_size + CopyLen
               THEN raw_data_size - count + (i - reserved_size) ELSE ibuf[w][i]]]
      BY DEF Copy
    <2>4. /\ \A v \in Workers : v # w => ibuf'[v] = ibuf[v]
          /\ \A i \in 0..(BlockSize - 1) :
               ibuf'[w][i] = IF i >= reserved_size /\ i < reserved_size + CopyLen
                             THEN raw_data_size - count + (i - reserved_size) ELSE ibuf[w][i]
      BY <1>1, <2>1, <2>3
    <2>5. /\ \A v \in Workers : v # w => writable_sem'[v] = writable_sem[v]
          /\ w \notin writable => writable_sem[w] > 0 /\ writable_sem'[w] = writable_sem[w] - 1
          /\ w \in writable => writable_sem'[w] = writable_sem[w]
          /\ writable_sem[w] \in Nat
      BY <1>1, <2>1, <2>2
    <2>. QED BY <2>4, <2>5
  <1>3. compress_sem[w] = 0 /\ wpc[w] # "compress"
    <2>1. w \in writable \/ writable_sem[w] > 0
      BY <1>2
    <2>2. compress_sem[w] \in Nat
      BY <1>1 DEF TypeOK, ContextTypes
    <2>3. BufferInv
      BY DEF Inv
    <2>. QED BY <1>1, <2>1, <2>2, <2>3 DEF BufferInv
  <1>4. TypeOK' /\ DataTypes'
    <2>1. writable_sem' \in [Workers -> Nat]
      <3>1. writable_sem' = writable_sem
            \/ (writable_sem[w] > 0 /\ writable_sem' = [writable_sem EXCEPT ![w] = writable_sem[w] - 1])
        BY DEF Copy
      <3>2. writable_sem \in [Workers -> Nat]
        BY DEF TypeOK, ContextTypes
      <3>3. writable_sem[w] > 0 => writable_sem[w] - 1 \in Nat
        BY <1>2
      <3>. QED BY <1>1, <3>1, <3>2, <3>3
    <2>2. ibuf' \in [Workers -> [0..(BlockSize - 1) -> Nat \union {Junk}]]
      <3> DEFINE b == [i \in 0..(BlockSize - 1) |->
                         IF i >= reserved_size /\ i < reserved_size + CopyLen
                         THEN raw_data_size - count + (i - reserved_size) ELSE ibuf[w][i]]
      <3>1. b \in [0..(BlockSize - 1) -> Nat \union {Junk}]
        <4>1. \A i \in 0..(BlockSize - 1) : i >= reserved_size =>
                raw_data_size - count + (i - reserved_size) \in Nat
          BY <1>1, BlockSizeAssumption
        <4>2. \A i \in 0..(BlockSize - 1) : ibuf[w][i] \in Nat \union {Junk}
          BY <1>1 DEF TypeOK, ContextTypes
        <4>. QED BY <4>1, <4>2
      <3>2. ibuf' = [ibuf EXCEPT ![w] = b]
        BY DEF Copy
      <3>. QED BY <1>1, <3>1, <3>2 DEF TypeOK, ContextTypes
    <2>3. CallerTypes'
      BY <1>1, BlockSizeAssumption DEF TypeOK, CallerTypes, Copy
    <2>. QED BY <1>1, <2>1, <2>2, <2>3
      DEF TypeOK, ContextTypes, FileTypes, DataTypes, Copy, fileVars
  <1>5. CallerInv(F)'
    <2>1. /\ reserved_size' = reserved_size + CopyLen /\ count' = count - CopyLen
          /\ raw_data_size' = raw_data_size /\ signalled' = 0
          /\ pc' = IF reserved_size + CopyLen = BlockSize THEN "start" ELSE "open"
      BY <1>1 DEF Copy
    <2>2. /\ F * BlockSize + reserved_size' = raw_data_size' - count'
          /\ pc' = "open" => count' = 0 /\ reserved_size' < BlockSize
          /\ pc' = "start" => reserved_size' = BlockSize
      BY <1>1, <2>1, BlockSizeAssumption
    <2>. QED BY <1>1, <2>1, <2>2 DEF CallerInv, Open
  <1>6. FillingInv(F)'
    <2>1. \A v \in Workers : v \in writable' <=> (v = cur_id' /\ reserved_size' > 0)
      BY <1>1 DEF Inv, FillingInv, Copy
    <2>2. ASSUME NEW i \in 0..(reserved_size' - 1)
          PROVE  ibuf'[cur_id'][i] = F * BlockSize + i
      <3>1. i \in 0..(BlockSize - 1) /\ i < reserved_size + CopyLen
        <4>1. reserved_size' = reserved_size + CopyLen
          BY DEF Copy
        <4>. QED BY <1>1, <4>1, BlockSizeAssumption
      <3>2. CASE i < reserved_size
        BY <1>1, <1>2, <3>1, <3>2 DEF Inv, FillingInv
      <3>3. CASE ~(i < reserved_size)
        BY <1>1, <1>2, <3>1, <3>3
      <3>. QED BY <3>2, <3>3
    <2>. QED BY <2>1, <2>2 DEF FillingInv
  <1>7. BufferInv'
    <2>1. SUFFICES ASSUME NEW v \in Workers
                   PROVE  /\ writable_sem'[v] <= 1 /\ compress_sem'[v] <= 1
                          /\ writable_sem'[v] > 0 => v \notin writable' /\ compress_sem'[v] = 0
                          /\ compress_sem'[v] > 0 => v \notin writable'
                          /\ wpc'[v] = "compress" => /\ v \notin writable' /\ compress_sem'[v] = 0
                                                    /\ writable_sem'[v] = 0
      BY DEF BufferInv
    <2>2. /\ writable' = writable \union {w} /\ compress_sem' = compress_sem /\ wpc' = wpc
          /\ writable_sem[v] \in Nat
      BY DEF TypeOK, ContextTypes, Copy
    <2>3. CASE v # w
      BY <1>1, <1>2, <2>2, <2>3 DEF Inv, BufferInv
    <2>4. CASE v = w
      <3>1. writable_sem[w] <= 1 /\ (w \in writable => ~(writable_sem[w] > 0))
        BY <1>1 DEF Inv, BufferInv
      <3>. QED BY <1>2, <1>3, <2>2, <2>4, <3>1
    <2>. QED BY <2>3, <2>4
  <1>8. WorkerInv(F, t)'
    <2>1. NextToDeal' = NextToDeal
      BY <1>1 DEF NextToDeal
    <2>2. SUFFICES ASSUME NEW v \in Workers PROVE WorkerOK(v, F, t)'
      BY DEF WorkerInv
    <2>3. NextToWrite(v, t)' = NextToWrite(v, t)
      BY DEF NextToWrite, Copy, fileVars
    <2>4. CASE v # w
      <3>1. Same(v)
        BY <1>2, <2>4 DEF Same, Copy
      <3>. QED BY <2>1, <2>3, <3>1, WorkerFrame DEF Inv, WorkerInv, Copy
    <2>5. CASE v = w
      <3>1. In(v) = 0 /\ In(v)' = 0 /\ Out(v)' = Out(v) /\ Stops(v)' = Stops(v)
        BY <1>1, <1>3, <2>5 DEF In, Out, Stops, Copy
      <3>. QED BY <2>1, <2>3, <3>1
        DEF Inv, WorkerInv, WorkerOK, Stale, Holds, Copy
    <2>. QED BY <2>4, <2>5
  <1>9. TurnInv(t)' /\ FailInv' /\ FileInv'
    BY DEF Inv, TurnInv, FailInv, FileInv, DestEnd, Copy, fileVars
  <1>10. DestInv(F)'
    BY <1>1 DEF Inv, DestInv, Copy, fileVars
  <1>11. EndInv'
    BY <1>1 DEF Inv, EndInv, Finished, Open, Copy, fileVars
  <1>. QED BY <1>4, <1>5, <1>6, <1>7, <1>8, <1>9, <1>10, <1>11 DEF Inv

\* Handing the buffer that has just been filled to its worker.
LEMMA Deal ==
  ASSUME TypeOK, DataTypes, NEW F \in Nat, NEW t \in Workers, Inv(F, t), Open,
         reserved_size > 0, reserved_size <= BlockSize,
         F * BlockSize + reserved_size <= raw_data_size,
         reserved_size = BlockSize \/ raw_data_size = F * BlockSize + reserved_size,
         StartCompress(cur_id, reserved_size), NextToDeal' = NextWorker(cur_id),
         UNCHANGED <<raw_data_size, signalled, ibuf, obuf, result, wpc, dest>>
  PROVE  WorkerInv(F + 1, t)'
  <1>w. PICK w \in Workers : w = cur_id
    BY DEF TypeOK, CallerTypes
  <1>1. /\ w \in writable /\ compress_sem[w] = 0 /\ wpc[w] # "compress" /\ signalled = 0
        /\ reserved_size \in Nat /\ raw_data_size \in Nat
    BY <1>w DEF TypeOK, CallerTypes, ContextTypes, Inv, CallerInv, FillingInv, BufferInv
  <1>2. /\ compress_sem'[w] = 1 /\ size'[w] = reserved_size
        /\ \A v \in Workers : v # w => Same(v)
    BY <1>w, <1>1 DEF TypeOK, ContextTypes, StartCompress, Same
  <1>3. NextToDeal = w /\ NextToDeal' = NextWorker(w)
    BY <1>w DEF NextToDeal
  <1>4. SUFFICES ASSUME NEW v \in Workers PROVE WorkerOK(v, F + 1, t)'
    BY DEF WorkerInv
  <1>5. NextToWrite(v, t)' = NextToWrite(v, t) /\ ~Stale(v) /\ ~Stale(v)'
    BY <1>1 DEF NextToWrite, Stale, Workers
  <1>6. 1 + Dist(NextWorker(w), v) = IF v = w THEN NWorkers ELSE Dist(w, v)
    BY TurnMoves
  <1>7. CASE v # w
    <2>1. F + 1 + Dist(NextToDeal', v) = F + Dist(NextToDeal, v)
      <3>1. Dist(NextWorker(w), v) \in Nat /\ Dist(w, v) \in Nat
        BY DistFact, NextWorkerFact
      <3>. QED BY <1>3, <1>6, <1>7, <3>1
    <2>. QED BY <1>1, <1>2, <1>5, <1>7, <2>1, WorkerFrame DEF Inv, WorkerInv
  <1>8. CASE v = w
    <2>1. SUFFICES ASSUME result[w] = 0 PROVE Holds(w, F + 1, t)'
      BY <1>5, <1>8 DEF WorkerOK
    <2>2. Holds(w, F, t)
      BY <1>5, <1>8, <2>1 DEF Inv, WorkerInv, WorkerOK
    <2>3. /\ In(w) = 0 /\ In(w)' = NWorkers /\ Out(w)' = Out(w)
          /\ Stops(w) = 0 /\ Stops(w)' = 0
      BY <1>1, <1>2 DEF In, Out, Stops, Workers
    <2>4. Dist(w, w) = 0 /\ Dist(NextWorker(w), w) = NWorkers - 1
      <3>1. Dist(NextWorker(w), w) \in Nat
        BY DistFact, NextWorkerFact
      <3>. QED BY <1>6, <1>8, <3>1, NWorkersAssumption DEF Dist, Workers
    <2>5. /\ NextToWrite(w, t) \in Nat /\ Out(w) \in Nat
      BY DistFact, NWorkersAssumption DEF NextToWrite, DataTypes, Out
    <2>6. NextToWrite(w, t) + Out(w) = F
      BY <1>3, <2>2, <2>3, <2>4, <2>5 DEF Holds
    <2>7. Contents(ibuf[w], reserved_size) = StreamBlock(raw_data_size, F)
      <3>1. \A i \in 0..(reserved_size - 1) : ibuf[w][i] = F * BlockSize + i /\ i < BlockSize
        BY <1>w, <1>1, BlockSizeAssumption DEF Inv, FillingInv
      <3>2. F * BlockSize \in Nat
        BY Multiples
      <3>3. (IF raw_data_size - F * BlockSize < BlockSize THEN raw_data_size - F * BlockSize
             ELSE BlockSize) = reserved_size
        BY <1>1, <3>2, BlockSizeAssumption
      <3>. QED BY <3>1, <3>3 DEF Contents, StreamBlock
    <2>8. NextToWrite(w, t)' + Out(w)' + In(w)' = F + 1 + Dist(NextToDeal', w)
      BY <1>3, <1>5, <1>8, <2>3, <2>4, <2>5, <2>6, NWorkersAssumption
    <2>9. wpc'[w] # "exit"
      BY <1>1, <2>2 DEF Holds, Workers
    <2>. QED BY <1>1, <1>2, <1>5, <1>8, <2>2, <2>3, <2>5, <2>6, <2>7, <2>8, <2>9 DEF Holds
  <1>. QED BY <1>7, <1>8

\* Handing a full buffer to its worker keeps the invariant.
LEMMA DispatchStep ==
  ASSUME TypeOK, DataTypes, NEW F \in Nat, NEW t \in Workers, Inv(F, t), Dispatch
  PROVE  TypeOK' /\ DataTypes' /\ Inv(F + 1, t)'
  <1>w. PICK w \in Workers : w = cur_id
    BY DEF TypeOK, CallerTypes
  <1>1. /\ Open /\ Open' /\ reserved_size = BlockSize /\ signalled = 0
        /\ F * BlockSize + BlockSize = raw_data_size - count
        /\ raw_data_size \in Nat /\ count \in Nat /\ F * BlockSize \in Nat
    BY Multiples DEF TypeOK, CallerTypes, Inv, CallerInv, Open, Dispatch
  <1>2. /\ w \in writable /\ compress_sem[w] = 0 /\ wpc[w] # "compress" /\ writable_sem[w] = 0
        /\ \A v \in Workers : v # w => v \notin writable
    BY <1>w, <1>1, BlockSizeAssumption
    DEF TypeOK, ContextTypes, Inv, FillingInv, BufferInv
  <1>3. NextWorker(w) \in Workers
    BY NextWorkerFact
  <1>4. /\ compress_sem' = [compress_sem EXCEPT ![w] = compress_sem[w] + 1]
        /\ compress_sem'[w] = 1 /\ \A v \in Workers : v # w => compress_sem'[v] = compress_sem[v]
        /\ writable' = writable \ {w} /\ writable_sem' = writable_sem /\ wpc' = wpc
    BY <1>w, <1>2 DEF TypeOK, ContextTypes, Dispatch, StartCompress
  <1>5. TypeOK' /\ DataTypes'
    <2>1. size' \in [Workers -> Nat] /\ compress_sem' \in [Workers -> Nat]
      BY <1>1, <1>4, BlockSizeAssumption DEF TypeOK, ContextTypes, Dispatch, StartCompress
    <2>2. CallerTypes'
      BY <1>w, <1>3, BlockSizeAssumption DEF TypeOK, CallerTypes, Dispatch
    <2>3. writable' \subseteq Workers
      BY <1>4 DEF TypeOK, ContextTypes
    <2>. QED BY <2>1, <2>2, <2>3 DEF TypeOK, ContextTypes, FileTypes, DataTypes, Dispatch, fileVars
  <1>6. CallerInv(F + 1)'
    <2>1. /\ reserved_size' = 0 /\ count' = count /\ raw_data_size' = raw_data_size
          /\ signalled' = 0 /\ pc' = IF count > 0 THEN "copy" ELSE "open"
      BY <1>1 DEF Dispatch
    <2>2. (F + 1) * BlockSize = F * BlockSize + BlockSize
      BY Multiples
    <2>. QED BY <1>1, <2>1, <2>2, BlockSizeAssumption DEF CallerInv, Open
  <1>7. FillingInv(F + 1)'
    BY <1>2, <1>4 DEF FillingInv, Dispatch
  <1>8. BufferInv'
    <2>1. SUFFICES ASSUME NEW v \in Workers
                   PROVE  /\ writable_sem'[v] <= 1 /\ compress_sem'[v] <= 1
                          /\ writable_sem'[v] > 0 => v \notin writable' /\ compress_sem'[v] = 0
                          /\ compress_sem'[v] > 0 => v \notin writable'
                          /\ wpc'[v] = "compress" => /\ v \notin writable' /\ compress_sem'[v] = 0
                                                    /\ writable_sem'[v] = 0
      BY DEF BufferInv
    <2>. QED BY <1>1, <1>2, <1>4 DEF Inv, BufferInv
  <1>9. WorkerInv(F + 1, t)'
    <2>1. NextToDeal' = NextWorker(cur_id)
      BY <1>1 DEF NextToDeal, Dispatch
    <2>. QED BY <1>1, <2>1, Deal, BlockSizeAssumption DEF Dispatch, fileVars
  <1>10. TurnInv(t)' /\ FailInv' /\ FileInv'
    BY DEF Inv, TurnInv, FailInv, FileInv, DestEnd, Dispatch, fileVars
  <1>11. DestInv(F + 1)'
    <2>1. Len(dest) <= F /\ Len(dest) \in Nat
      BY <1>1 DEF Inv, DestInv, DataTypes
    <2>. QED BY <2>1 DEF Inv, DestInv, Dispatch, fileVars
  <1>12. EndInv'
    BY <1>1 DEF Inv, EndInv, Finished, Open, Dispatch, fileVars
  <1>. QED BY <1>5, <1>6, <1>7, <1>8, <1>9, <1>10, <1>11, <1>12 DEF Inv

\* Handing the last, shorter block to its worker keeps the invariant.
LEMMA FiniReservedStep ==
  ASSUME TypeOK, DataTypes, NEW F \in Nat, NEW t \in Workers, Inv(F, t), FiniReserved
  PROVE  TypeOK' /\ DataTypes' /\ \E F2 \in Nat : Inv(F2, t)'
  <1>1. /\ Open /\ ~Open' /\ signalled = 0 /\ count = 0 /\ reserved_size < BlockSize
        /\ reserved_size \in Nat /\ F * BlockSize + reserved_size = raw_data_size
        /\ raw_data_size \in Nat /\ F * BlockSize \in Nat
    BY Multiples, BlockSizeAssumption DEF TypeOK, CallerTypes, Inv, CallerInv, Open, FiniReserved
  <1>2. /\ pc' = "stop"
        /\ UNCHANGED <<count, raw_data_size, reserved_size, cur_id, m_stop_flag, signalled,
                       writable_sem, write_sem, ibuf, obuf, compressed_size, result, wpc, fileVars>>
    BY DEF FiniReserved
  <1>3. TypeOK' /\ DataTypes'
    <2>3. /\ size \in [Workers -> Nat] /\ compress_sem \in [Workers -> Nat]
          /\ writable \subseteq Workers /\ cur_id \in Workers /\ reserved_size \in Nat
      BY DEF TypeOK, ContextTypes, CallerTypes
    <2>4. \/ UNCHANGED <<writable, size, compress_sem>>
          \/ /\ writable' = writable \ {cur_id}
             /\ size' = [size EXCEPT ![cur_id] = reserved_size]
             /\ compress_sem' = [compress_sem EXCEPT ![cur_id] = compress_sem[cur_id] + 1]
      BY DEF FiniReserved, StartCompress
    <2>1. size' \in [Workers -> Nat]
      BY <2>3, <2>4
    <2>2. compress_sem' \in [Workers -> Nat] /\ writable' \subseteq Workers
      <3>1. compress_sem[cur_id] + 1 \in Nat
        BY <2>3
      <3>. QED BY <2>3, <2>4, <3>1
    <2>. QED BY <1>2, <2>1, <2>2
      DEF TypeOK, CallerTypes, ContextTypes, FileTypes, DataTypes, fileVars
  <1>4. \A G \in Nat : FillingInv(G)' /\ BufferInv'
    BY <1>1 DEF FillingInv, BufferInv
  <1>5. TurnInv(t)' /\ FailInv' /\ FileInv'
    BY <1>2 DEF Inv, TurnInv, FailInv, FileInv, DestEnd, fileVars
  <1>6. EndInv'
    BY <1>1, <1>2 DEF Inv, EndInv, Finished, Open, fileVars
  <1>7. DestInv(F)' /\ DestInv(F + 1)'
    <2>1. Len(dest) <= F /\ Len(dest) \in Nat
      BY <1>1 DEF Inv, DestInv, DataTypes
    <2>. QED BY <1>1, <1>2, <2>1 DEF Inv, DestInv, fileVars
  <1>8. CASE reserved_size > 0
    <2>1. NextToDeal' = NextWorker(cur_id)
      BY <1>1, <1>2, <1>8 DEF NextToDeal
    <2>2. WorkerInv(F + 1, t)'
      <3>1. /\ reserved_size <= BlockSize /\ F * BlockSize + reserved_size <= raw_data_size
            /\ raw_data_size = F * BlockSize + reserved_size
        BY <1>1, BlockSizeAssumption
      <3>2. StartCompress(cur_id, reserved_size) /\ dest' = dest
        BY <1>8 DEF FiniReserved, fileVars
      <3>. QED BY <1>1, <1>2, <1>8, <2>1, <3>1, <3>2, Deal
    <2>3. CallerInv(F + 1)'
      <3>1. F + 1 \in Nat /\ (F + 1) - 1 = F /\ F + 1 >= 1
        OBVIOUS
      <3>. QED BY <1>1, <1>2, <1>8, <3>1 DEF CallerInv, Open
    <2>4. F + 1 \in Nat /\ Inv(F + 1, t)'
      BY <1>4, <1>5, <1>6, <1>7, <2>2, <2>3 DEF Inv
    <2>. QED BY <1>3, <2>4
  <1>9. CASE ~(reserved_size > 0)
    <2>1. reserved_size = 0 /\ writable' = writable /\ size' = size /\ compress_sem' = compress_sem
      BY <1>1, <1>9 DEF FiniReserved
    <2>2. NextToDeal' = NextToDeal
      BY <1>1, <1>2, <2>1 DEF NextToDeal
    <2>3. WorkerInv(F, t)'
      <3>1. SUFFICES ASSUME NEW v \in Workers PROVE WorkerOK(v, F, t)'
        BY DEF WorkerInv
      <3>2. NextToWrite(v, t)' = NextToWrite(v, t) /\ Same(v)
        BY <1>2, <2>1 DEF NextToWrite, Same, fileVars
      <3>. QED BY <1>2, <2>2, <3>2, WorkerFrame DEF Inv, WorkerInv
    <2>4. CallerInv(F)'
      BY <1>1, <1>2, <2>1 DEF CallerInv, Open
    <2>5. Inv(F, t)'
      BY <1>4, <1>5, <1>6, <1>7, <2>3, <2>4 DEF Inv
    <2>. QED BY <1>3, <2>5
  <1>. QED BY <1>8, <1>9

-----------------------------------------------------------------------------
(* The inductive invariant and what follows from it *)

\* Once close() has begun, the blocks dealt are the blocks of the stream.
LEMMA AllDealt ==
  ASSUME TypeOK, NEW F \in Nat, NEW t \in Workers, Inv(F, t), ~Open
  PROVE  AllBlocks(raw_data_size, F)
  <1>1. raw_data_size \in Nat /\ reserved_size \in Nat /\ reserved_size < BlockSize
    BY BlockSizeAssumption DEF TypeOK, CallerTypes, Inv, CallerInv
  <1>2. F # 0 => /\ F * BlockSize = (F - 1) * BlockSize + BlockSize
                 /\ (F - 1) * BlockSize \in Nat /\ F * BlockSize \in Nat
    <2>1. SUFFICES ASSUME F # 0
                   PROVE  /\ F * BlockSize = (F - 1) * BlockSize + BlockSize
                          /\ (F - 1) * BlockSize \in Nat /\ F * BlockSize \in Nat
      OBVIOUS
    <2>2. F - 1 \in Nat /\ (F - 1) + 1 = F
      BY <2>1
    <2>. QED BY <2>2, Multiples
  <1>3. CASE reserved_size = 0
    <2>1. raw_data_size = F * BlockSize
      BY <1>3 DEF Inv, CallerInv
    <2>. QED BY <1>1, <1>2, <2>1, Multiples, BlockSizeAssumption DEF AllBlocks
  <1>4. CASE reserved_size # 0
    <2>1. F # 0 /\ raw_data_size = (F - 1) * BlockSize + reserved_size
      BY <1>1, <1>4 DEF Inv, CallerInv
    <2>. QED BY <1>1, <1>2, <1>4, <2>1, BlockSizeAssumption DEF AllBlocks
  <1>. QED BY <1>3, <1>4

\* The invariant holds when the builder has been set up.
LEMMA InitInv ==
  ASSUME Init
  PROVE  IInv
  <1>1. 0 \in Workers
    BY NWorkersAssumption DEF Workers
  <1>2. TypeOK
    <2>1. CallerTypes /\ FileTypes
      BY <1>1, NWorkersAssumption, BlockSizeAssumption DEF Init, CallerTypes, FileTypes, HeaderSpace
    <2>2. size \in [Workers -> Nat]
      BY UninitAssumption DEF Init
    <2>3. ibuf \in [Workers -> [0..(BlockSize - 1) -> Nat \union {Junk}]]
      BY DEF Init
    <2>4. write_sem \in [Workers -> Nat] /\ writable_sem \in [Workers -> Nat]
          /\ compress_sem \in [Workers -> Nat] /\ compressed_size \in [Workers -> Nat]
      BY DEF Init
    <2>. QED BY <2>1, <2>2, <2>3, <2>4 DEF Init, TypeOK, ContextTypes
  <1>3. DataTypes
    <2>1. \A w \in Workers : Contents(ibuf[w], 0) \in [0..(0 - 1) -> Nat \union {Junk}]
      BY DEF Contents
    <2>2. \A w \in Workers : Contents(ibuf[w], 0) \in BlockSet
      BY <2>1 DEF BlockSet
    <2>3. obuf = [w \in Workers |-> Contents(ibuf[w], 0)]
      BY DEF Init
    <2>4. obuf \in [Workers -> BlockSet]
      BY <2>2, <2>3
    <2>5. dest = << >> /\ << >> \in Seq(DestRecord)
      BY DEF Init
    <2>6. start \in Nat
      BY DEF Init, HeaderSpace
    <2>. QED BY <2>4, <2>5, <2>6 DEF DataTypes
  <1>4. CallerInv(0) /\ FillingInv(0) /\ BufferInv
    BY Multiples, BlockSizeAssumption DEF Init, CallerInv, FillingInv, BufferInv, Open
  <1>5. WorkerInv(0, 0)
    <2>1. SUFFICES ASSUME NEW w \in Workers PROVE WorkerOK(w, 0, 0)
      BY DEF WorkerInv
    <2>2. ~Stale(w) /\ Out(w) = 0 /\ In(w) = 0 /\ Stops(w) = 0
      BY DEF Init, Stale, Out, In, Stops, Workers
    <2>3. NextToWrite(w, 0) = 0 + Dist(NextToDeal, w) /\ Dist(0, w) \in Nat
      BY <1>1, DistFact DEF Init, NextToWrite, NextToDeal
    <2>. QED BY <2>2, <2>3 DEF Init, WorkerOK, Holds, NextToWrite
  <1>6. TurnInv(0) /\ DestInv(0) /\ FailInv /\ EndInv
    BY <1>1 DEF Init, TurnInv, DestInv, FailInv, EndInv, Finished
  <1>7. FileInv
    BY <1>3 DEF Init, FileInv, DestEnd, HeaderSpace, DataTypes
  <1>. QED BY <1>1, <1>2, <1>3, <1>4, <1>5, <1>6, <1>7 DEF IInv, Inv

\* Every step of the caller and of the workers keeps the invariant.
LEMMA NextInv ==
  ASSUME IInv, [Next]_vars
  PROVE  IInv'
  <1>1. TypeOK /\ DataTypes
    BY DEF IInv
  <1>2. PICK F \in Nat, t \in Workers : Inv(F, t)
    BY DEF IInv
  <1>. USE <1>1, <1>2
  <1>3. ASSUME NEW w \in Workers, Worker(w) PROVE IInv'
    <2>1. CASE CreateCompressor(w)
      BY <2>1, CreateCompressorStep DEF IInv
    <2>2. CASE WaitCompress(w)
      BY <2>2, WaitCompressStep DEF IInv
    <2>3. CASE Compress(w)
      BY <2>3, CompressStep DEF IInv
    <2>4. CASE WaitTurn(w)
      BY <2>4, WaitTurnStep DEF IInv
    <2>5. CASE WriteBlock(w)
      <3>1. CASE dest' = dest /\ FailWorker(w)
        BY <2>5, <3>1, WriteBlockFails DEF IInv
      <3>2. CASE ~(dest' = dest /\ FailWorker(w))
        <4>1. /\ dest' = Append(dest, [at |-> DestEnd, len |-> compressed_size[w],
                                       data |-> obuf[w]])
              /\ Goto(w, "pass") /\ result' = result
          BY <2>5, <3>2 DEF WriteBlock
        <4>. QED BY <2>5, <4>1, WriteBlockSucceeds, NextWorkerFact DEF IInv
      <3>. QED BY <3>1, <3>2
    <2>6. CASE PassTurn(w)
      BY <2>6, PassTurnStep DEF IInv
    <2>. QED BY <1>3, <2>1, <2>2, <2>3, <2>4, <2>5, <2>6 DEF Worker
  <1>4. ASSUME NEW n \in WriteSizes, Write(n) PROVE IInv'
    BY <1>4, WriteStep DEF IInv
  <1>5. CASE FiniReserved
    BY <1>5, FiniReservedStep DEF IInv
  <1>6. CASE CallerContinues
    <2>1. CASE Copy
      BY <2>1, CopyStep DEF IInv
    <2>2. CASE Dispatch
      <3>1. F + 1 \in Nat
        OBVIOUS
      <3>. QED BY <2>2, <3>1, DispatchStep DEF IInv
    <2>3. CASE FiniStop
      BY <2>3, FiniStopStep DEF IInv
    <2>4. CASE FiniSignal
      BY <2>4, FiniSignalStep DEF IInv
    <2>5. CASE FiniJoin
      BY <2>5, FiniJoinStep DEF IInv
    <2>6. CASE FiniIndex
      BY <2>6, FiniIndexStep DEF IInv
    <2>7. CASE FiniTrailer
      BY <2>7, FiniTrailerStep DEF IInv
    <2>8. CASE FiniHeader
      BY <2>8, FiniHeaderStep DEF IInv
    <2>. QED BY <1>6, <2>1, <2>2, <2>3, <2>4, <2>5, <2>6, <2>7, <2>8 DEF CallerContinues
  <1>7. CASE UNCHANGED vars
    <2>1. TypeOK' /\ DataTypes'
      BY <1>7 DEF TypeOK, CallerTypes, ContextTypes, FileTypes, DataTypes, vars, callerVars,
                  ctxVars, fileVars
    <2>2. NextToDeal' = NextToDeal /\ Open' = Open
      BY <1>7 DEF NextToDeal, Open, vars, callerVars
    <2>3. WorkerInv(F, t)'
      <3>1. SUFFICES ASSUME NEW v \in Workers PROVE WorkerOK(v, F, t)'
        BY DEF WorkerInv
      <3>2. NextToWrite(v, t)' = NextToWrite(v, t) /\ Same(v)
        BY <1>7 DEF NextToWrite, Same, vars, ctxVars, fileVars
      <3>. QED BY <1>7, <2>2, <3>2, WorkerFrame DEF Inv, WorkerInv, vars, callerVars
    <2>4. Inv(F, t)'
      BY <1>7, <2>2, <2>3
      DEF Inv, CallerInv, FillingInv, BufferInv, TurnInv, DestInv, FailInv, FileInv, EndInv,
          Finished, DestEnd, HeaderTrailer, vars, callerVars, ctxVars, fileVars
    <2>. QED BY <2>1, <2>4 DEF IInv
  <1>. QED BY <1>3, <1>4, <1>5, <1>6, <1>7 DEF Next

\* Every behaviour of the builder satisfies the inductive invariant.
THEOREM Invariance == Spec => []IInv
  BY InitInv, NextInv, PTL DEF Spec

\* The variables of the caller, the workers and the file keep their types:
\* no semaphore count drops below zero and no index leaves the ring.
THEOREM TypeCorrect == Spec => []TypeOK
  <1>1. IInv => TypeOK
    BY DEF IInv
  <1>. QED BY <1>1, Invariance, PTL

\* The turn is never held by two workers: moffset, m_block_len and the file
\* are updated without a lock by one thread at a time.
THEOREM OneWriter == Spec => []ExclusiveWriter
  <1>1. IInv => ExclusiveWriter
    <2>1. SUFFICES ASSUME IInv, NEW v \in Workers, NEW w \in Workers,
                          wpc[v] \in {"write", "pass"}, wpc[w] \in {"write", "pass"}
                   PROVE  v = w
      BY DEF ExclusiveWriter
    <2>2. PICK F \in Nat, t \in Workers : Inv(F, t)
      BY <2>1 DEF IInv
    <2>. QED BY <2>1, <2>2, NextWorkerFact, NWorkersAssumption DEF Inv, TurnInv, Workers
  <1>. QED BY <1>1, Invariance, PTL

\* The caller never touches an input buffer its worker is compressing.
THEOREM Ownership == Spec => []BufferOwnership
  <1>1. IInv => BufferOwnership
    BY DEF IInv, Inv, BufferInv, BufferOwnership, Open
  <1>. QED BY <1>1, Invariance, PTL

\* The k-th block of the file is the k-th block of the stream.
THEOREM InOrder == Spec => []BlocksInOrder
  <1>1. IInv => BlocksInOrder
    <2>1. SUFFICES ASSUME IInv, NEW k \in 1..Len(dest), (k - 1) * BlockSize < raw_data_size
                   PROVE  dest[k].data = StreamBlock(raw_data_size, k - 1)
      BY DEF BlocksInOrder
    <2>2. PICK F \in Nat, t \in Workers : Inv(F, t)
      BY <2>1 DEF IInv
    <2>3. Len(dest) \in Nat /\ raw_data_size \in Nat /\ reserved_size \in Nat
      BY <2>1, BlockSizeAssumption DEF IInv, TypeOK, CallerTypes, DataTypes
    <2>4. CASE k <= F
      BY <2>2, <2>4 DEF Inv, DestInv
    <2>5. CASE ~(k <= F)
      <3>1. k - 1 \in Nat /\ F <= k - 1
        BY <2>3, <2>5
      <3>2. F * BlockSize <= (k - 1) * BlockSize /\ F * BlockSize \in Nat
            /\ (k - 1) * BlockSize \in Nat
        BY <3>1, Multiples
      <3>3. ~Open
        BY <2>2, <2>3, <2>5 DEF Inv, DestInv
      <3>4. raw_data_size <= F * BlockSize
        BY <2>1, <2>2, <3>3, AllDealt DEF IInv, AllBlocks
      <3>. QED BY <2>1, <2>3, <3>2, <3>4
    <2>. QED BY <2>4, <2>5
  <1>. QED BY <1>1, Invariance, PTL

\* When every worker has ended without an error, the blocks dealt are written.
LEMMA AllWritten ==
  ASSUME IInv, NEW F \in Nat, NEW t \in Workers, Inv(F, t), Finished
  PROVE  Len(dest) = F /\ AllBlocks(raw_data_size, Len(dest))
  <1>1. ~Open /\ \A w \in Workers : wpc[w] = "exit" /\ result[w] = 0
    BY DEF Inv, EndInv, Finished, Open
  <1>2. TypeOK /\ DataTypes /\ NextToDeal \in Workers /\ Len(dest) \in Nat
    BY NextToDealFact DEF IInv, DataTypes
  <1>3. ASSUME NEW w \in Workers
        PROVE  Len(dest) + Dist(t, w) = F + Dist(NextToDeal, w)
    <2>1. Holds(w, F, t)
      BY <1>1 DEF Inv, WorkerInv, WorkerOK, Stale
    <2>2. compress_sem[w] = 0 /\ Stops(w) \in Nat
      BY <1>1, <2>1 DEF Holds, Stops
    <2>3. Out(w) = 0 /\ In(w) = 0
      BY <1>1, <2>2 DEF Out, In
    <2>4. Dist(t, w) \in Nat
      BY DistFact
    <2>. QED BY <1>2, <2>1, <2>3, <2>4 DEF Holds, NextToWrite
  <1>4. Len(dest) = F
    <2>1. Dist(t, t) = 0 /\ Dist(NextToDeal, NextToDeal) = 0
      BY <1>2 DEF Dist, Workers
    <2>2. Dist(t, NextToDeal) \in Nat /\ Dist(NextToDeal, t) \in Nat
      BY <1>2, DistFact
    <2>3. Len(dest) + Dist(t, t) = F + Dist(NextToDeal, t)
      BY <1>3
    <2>4. Len(dest) + Dist(t, NextToDeal) = F + Dist(NextToDeal, NextToDeal)
      BY <1>2, <1>3
    <2>. QED BY <1>2, <2>1, <2>2, <2>3, <2>4
  <1>. QED BY <1>1, <1>2, <1>4, AllDealt

\* close() returns 0 only for a file with every block of the stream, in
\* order, and an index that gives each its length; when the file began as long
\* as init() thinks, the trailer and the header describe exactly those blocks,
\* unless a short write tore them.
THEOREM CompleteOnSuccess == Spec => []CloseOkComplete
  <1>1. IInv => CloseOkComplete
    <2>1. SUFFICES ASSUME IInv, pc = "ok" PROVE CloseOkComplete
      BY DEF CloseOkComplete
    <2>2. PICK F \in Nat, t \in Workers : Inv(F, t)
      BY <2>1 DEF IInv
    <2>3. \A w \in Workers : result[w] = 0
      BY <2>1, <2>2 DEF Inv, EndInv, Finished
    <2>4. Len(dest) = F /\ AllBlocks(raw_data_size, Len(dest))
      BY <2>1, <2>2, AllWritten DEF Finished
    <2>5. /\ index = [at |-> DestEnd, lens |-> m_block_len]
          /\ trailer \in {HeaderTrailer, Torn}
          /\ OverwriteHeader => header \in {HeaderTrailer, Torn}
          /\ moffset - HeaderSpace = DestEnd - start /\ Len(m_block_len) = Len(dest)
          /\ \A k \in 1..Len(dest) : m_block_len[k] = dest[k].len
      BY <2>1, <2>2, <2>3 DEF Inv, EndInv, FileInv
    <2>7. start = HeaderSpace =>
            HeaderTrailer = [index_offset |-> index.at, index_size |-> Len(dest),
                             original_file_size |-> raw_data_size]
      <3>1. DestEnd \in Nat /\ moffset \in Nat
        <4>1. DataTypes /\ moffset \in Nat
          BY <2>1 DEF IInv, TypeOK, FileTypes
        <4>2. dest # << >> => dest[Len(dest)] \in DestRecord
          BY <4>1 DEF DataTypes
        <4>. QED BY <4>1, <4>2 DEF DataTypes, DestEnd, DestRecord
      <3>2. start = HeaderSpace => moffset = DestEnd
        BY <2>5, <3>1 DEF HeaderSpace
      <3>. QED BY <2>5, <3>2 DEF HeaderTrailer
    <2>6. \A k \in 1..Len(dest) : dest[k].data = StreamBlock(raw_data_size, k - 1)
      BY <2>2, <2>4 DEF Inv, DestInv
    <2>. QED BY <2>4, <2>5, <2>6, <2>7 DEF CloseOkComplete
  <1>. QED BY <1>1, Invariance, PTL

-----------------------------------------------------------------------------
(* Refinement: what a WorkerCtx::size that was left to chance can do *)

\* The worker has not been given a block and has, or had, a size all the same.
Unset(w) == ibuf[w][0] = Junk /\ (size[w] # 0 \/ DOMAIN obuf[w] # {})

\* Only such a worker takes its stop signal for a block.
SizedWorker(w) ==
  result[w] = 0 =>
    /\ Stale(w) => Unset(w)
    /\ In(w) = 0 /\ size[w] # 0 =>
         ibuf[w][0] = Junk \/ (Open /\ w = cur_id /\ reserved_size > 0)
    /\ ibuf[w][0] = Junk /\ DOMAIN obuf[w] # {} => Stale(w)
    /\ wpc[w] = "exit" => size[w] = 0
    /\ wpc[w] = "compress" => size[w] > 0

StopInv ==
  /\ pc = "signal" \/ signalled > 0 => m_stop_flag
  /\ m_stop_flag => ~Open /\ pc # "stop"

Sized == StopInv /\ \A w \in Workers : SizedWorker(w)

\* A worker whose context does not change stays as it was.
LEMMA SizedFrame ==
  ASSUME NEW v \in Workers, SizedWorker(v), Same(v), v < signalled' <=> v < signalled,
         Open /\ v = cur_id /\ reserved_size > 0 =>
           (Open /\ v = cur_id /\ reserved_size > 0)' \/ size[v] = 0
  PROVE  SizedWorker(v)'
  BY DEF SizedWorker, Same, Stale, Unset, In, Stops

\* A buffer that holds a block of the stream has no byte nobody wrote.
LEMMA NotJunk ==
  ASSUME TypeOK, DataTypes, NEW F \in Nat, NEW t \in Workers, Inv(F, t), NEW w \in Workers,
         Holds(w, F, t), In(w) > 0
  PROVE  ibuf[w][0] # Junk /\ size[w] > 0
  <1>1. /\ NextToWrite(w, t) + Out(w) \in Nat /\ raw_data_size \in Nat /\ size[w] \in Nat
        /\ size[w] > 0
    <2>1. NextToWrite(w, t) \in Nat /\ Out(w) \in Nat
      BY DistFact, NWorkersAssumption DEF NextToWrite, Out, DataTypes
    <2>2. raw_data_size \in Nat /\ size[w] \in Nat
      BY DEF TypeOK, CallerTypes, ContextTypes
    <2>3. size[w] > 0
      BY DEF Holds
    <2>. QED BY <2>1, <2>2, <2>3
  <1>2. PICK k \in Nat : Contents(ibuf[w], size[w]) = StreamBlock(raw_data_size, k)
    BY <1>1 DEF Holds
  <1>3. 0 \in 0..(size[w] - 1) /\ k * BlockSize \in Nat
    BY <1>1, Multiples
  <1>4. /\ Contents(ibuf[w], size[w])[0] = ibuf[w][0]
        /\ DOMAIN Contents(ibuf[w], size[w]) = 0..(size[w] - 1)
    BY <1>3, BlockSizeAssumption DEF Contents
  <1>5. 0 \in DOMAIN StreamBlock(raw_data_size, k)
    BY <1>2, <1>3, <1>4
  <1>6. StreamBlock(raw_data_size, k)[0] = k * BlockSize + 0
    BY <1>5 DEF StreamBlock
  <1>. QED BY <1>1, <1>2, <1>3, <1>4, <1>6, JunkAssumption

\* A step of one worker.
LEMMA SizedWorkerStep ==
  ASSUME TypeOK, DataTypes, NEW F \in Nat, NEW t \in Workers, Inv(F, t), Sized,
         NEW w \in Workers, Worker(w)
  PROVE  /\ UNCHANGED <<pc, cur_id, reserved_size, signalled, m_stop_flag, ibuf>>
         /\ \A v \in Workers : v # w => Same(v)
         /\ SizedWorker(w)' /\ (Unset(w)' <=> Unset(w))
  <1>0. UNCHANGED <<pc, cur_id, reserved_size, signalled, m_stop_flag, ibuf>>
    BY DEF Worker, CreateCompressor, WaitCompress, Compress, WaitTurn, WriteBlock, PassTurn,
           callerVars
  <1>s. SizedWorker(w) /\ (signalled > 0 => m_stop_flag) /\ (m_stop_flag => ~Open)
    BY DEF Sized, StopInv
  <1>f. ASSUME UNCHANGED <<compress_sem, size, obuf>>, wpc[w] \notin {"exit", "compress"},
               wpc'[w] \notin {"exit", "compress"}, result'[w] = result[w]
        PROVE  SizedWorker(w)' /\ (Unset(w)' <=> Unset(w))
    BY <1>0, <1>s, <1>f DEF SizedWorker, Stale, Unset, In, Stops, Open
  <1>g. ASSUME UNCHANGED <<compress_sem, size, obuf>>, result'[w] = -1
        PROVE  SizedWorker(w)' /\ (Unset(w)' <=> Unset(w))
    BY <1>0, <1>g DEF SizedWorker, Unset
  <1>1. CASE CreateCompressor(w)
    <2>1. /\ wpc[w] = "create" /\ UNCHANGED <<compress_sem, size, obuf>>
          /\ \/ wpc'[w] = "wait" /\ result'[w] = result[w]
             \/ result'[w] = -1
          /\ \A v \in Workers : v # w => Same(v)
      BY <1>1 DEF CreateCompressor, FailWorker, Goto, TypeOK, ContextTypes, Same
    <2>. QED BY <1>0, <1>f, <1>g, <2>1
  <1>2. CASE WaitCompress(w)
    <2>1. \A v \in Workers : v # w => Same(v)
      BY <1>2 DEF WaitCompress, Goto, TypeOK, ContextTypes, Same
    <2>2. /\ wpc[w] = "wait" /\ compress_sem[w] > 0 /\ compress_sem[w] \in Nat
          /\ compress_sem'[w] = compress_sem[w] - 1
          /\ size' = size /\ result' = result /\ obuf' = obuf /\ size[w] \in Nat
          /\ wpc'[w] = IF m_stop_flag /\ size[w] = 0 THEN "exit" ELSE "compress"
      BY <1>2 DEF WaitCompress, Goto, TypeOK, ContextTypes
    <2>3. Unset(w)' <=> Unset(w)
      BY <1>0, <2>2 DEF Unset
    <2>4. ASSUME result[w] = 0 PROVE SizedWorker(w)'
      <3>0. ~Stale(w)
        BY <2>2 DEF Stale
      <3>1. CASE In(w) > 0
        <4>1. ibuf[w][0] # Junk /\ size[w] > 0
          <5>1. Holds(w, F, t)
            BY <2>4, <3>0 DEF Inv, WorkerInv, WorkerOK
          <5>. QED BY <3>1, <5>1, NotJunk
        <4>2. wpc'[w] = "compress" /\ In(w)' # 0
          BY <2>2, <4>1, NWorkersAssumption DEF In
        <4>3. ~Stale(w)'
          <5>1. Holds(w, F, t) /\ compress_sem[w] > Stops(w)
            BY <2>2, <2>4, <3>0, <3>1 DEF Inv, WorkerInv, WorkerOK, In
          <5>. QED BY <1>0, <2>2, <5>1 DEF Stale, Stops
        <4>. QED BY <1>0, <2>2, <4>1, <4>2, <4>3 DEF SizedWorker
      <3>2. CASE ~(In(w) > 0)
        <4>1. In(w) = 0 /\ Stops(w) = 1 /\ w < signalled /\ compress_sem[w] = 1
          BY <2>2, <3>2, NWorkersAssumption DEF In, Stops
        <4>2. m_stop_flag /\ ~Open
          BY <1>s, <4>1 DEF TypeOK, CallerTypes, Workers
        <4>3. CASE size[w] = 0
          <5>1. wpc'[w] = "exit" /\ In(w)' = 0
            BY <1>0, <2>2, <4>1, <4>2, <4>3 DEF In, Stops
          <5>2. ~(ibuf[w][0] = Junk /\ DOMAIN obuf[w] # {})
            BY <1>s, <2>4, <3>0 DEF SizedWorker
          <5>. QED BY <1>0, <2>2, <4>3, <5>1, <5>2 DEF SizedWorker, Stale
        <4>4. CASE size[w] # 0
          <5>1. wpc'[w] = "compress" /\ ibuf[w][0] = Junk /\ size[w] > 0
            BY <1>s, <2>2, <2>4, <4>1, <4>2, <4>4 DEF SizedWorker
          <5>2. Stale(w)' /\ Unset(w)' /\ In(w)' # 0
            BY <1>0, <2>2, <4>1, <5>1, NWorkersAssumption DEF Stale, Unset, In
          <5>. QED BY <1>0, <2>2, <5>1, <5>2 DEF SizedWorker
        <4>. QED BY <4>3, <4>4
      <3>. QED BY <3>1, <3>2
    <2>5. ASSUME result[w] # 0 PROVE SizedWorker(w)'
      <3>1. result'[w] # 0
        BY <2>2, <2>5
      <3>. QED BY <3>1 DEF SizedWorker
    <2>. QED BY <1>0, <2>1, <2>3, <2>4, <2>5
  <1>3. CASE Compress(w)
    <2>1. wpc[w] = "compress" /\ compress_sem' = compress_sem /\ result[w] = 0
      BY <1>3 DEF Compress, Inv, FailInv, TypeOK, ContextTypes
    <2>2. ASSUME NEW v \in Workers, v # w PROVE Same(v)
      <3>1. wpc'[v] = wpc[v] /\ result'[v] = result[v]
        BY <1>3, <2>2 DEF Compress, FailWorker, Goto, TypeOK, ContextTypes
      <3>2. size'[v] = size[v] /\ obuf'[v] = obuf[v]
        BY <1>3, <2>2 DEF Compress, TypeOK, ContextTypes, DataTypes
      <3>. QED BY <1>0, <2>1, <3>1, <3>2 DEF Same
    <2>3. CASE FailWorker(w)
      <3>1. result'[w] = -1
        BY <2>3 DEF FailWorker, TypeOK, ContextTypes
      <3>2. CASE UNCHANGED <<obuf, size>>
        BY <1>0, <1>g, <2>1, <2>2, <3>1, <3>2
      <3>3. CASE result' = result
        BY <2>1, <3>1, <3>3
      <3>. QED BY <1>3, <3>2, <3>3 DEF Compress
    <2>4. CASE ~FailWorker(w)
      <3>1. /\ size' = [size EXCEPT ![w] = 0] /\ Goto(w, "turn") /\ result' = result
            /\ obuf' = [obuf EXCEPT ![w] = Contents(ibuf[w], size[w])]
        BY <1>3, <2>4 DEF Compress
      <3>2. size'[w] = 0 /\ wpc'[w] = "turn" /\ obuf'[w] = Contents(ibuf[w], size[w])
        BY <3>1 DEF Goto, TypeOK, ContextTypes, DataTypes
      <3>3. size[w] \in Nat /\ size[w] > 0
        BY <1>s, <2>1 DEF SizedWorker, TypeOK, ContextTypes
      <3>4. DOMAIN obuf'[w] # {}
        <4>1. DOMAIN Contents(ibuf[w], size[w]) = 0..(size[w] - 1)
          BY DEF Contents
        <4>2. 0 \in 0..(size[w] - 1)
          BY <3>3
        <4>. QED BY <3>2, <4>1, <4>2
      <3>5. Unset(w)' <=> Unset(w)
        BY <1>0, <3>2, <3>3, <3>4 DEF Unset
      <3>6. Stale(w)' <=> Stale(w)
        BY <1>0, <2>1, <3>2 DEF Stale
      <3>7. ibuf[w][0] = Junk => Stale(w)
        <4>1. SUFFICES ASSUME ~Stale(w) PROVE ibuf[w][0] # Junk
          OBVIOUS
        <4>2. Holds(w, F, t) /\ In(w) > 0
          BY <2>1, <4>1, NWorkersAssumption DEF Inv, WorkerInv, WorkerOK, In
        <4>. QED BY <4>2, NotJunk
      <3>8. SizedWorker(w)'
        BY <1>0, <1>s, <2>1, <3>2, <3>5, <3>6, <3>7 DEF SizedWorker
      <3>. QED BY <1>0, <2>2, <3>5, <3>8
    <2>. QED BY <2>3, <2>4
  <1>4. CASE WaitTurn(w)
    <2>1. /\ wpc[w] = "turn" /\ wpc'[w] = "write" /\ result'[w] = result[w]
          /\ UNCHANGED <<compress_sem, size, obuf>> /\ \A v \in Workers : v # w => Same(v)
      BY <1>4 DEF WaitTurn, Goto, TypeOK, ContextTypes, Same
    <2>. QED BY <1>0, <1>f, <2>1
  <1>5. CASE WriteBlock(w)
    <2>1. /\ wpc[w] = "write" /\ UNCHANGED <<compress_sem, size, obuf>>
          /\ \/ wpc'[w] = "pass" /\ result'[w] = result[w]
             \/ result'[w] = -1
          /\ \A v \in Workers : v # w => Same(v)
      BY <1>5 DEF WriteBlock, FailWorker, Goto, TypeOK, ContextTypes, Same
    <2>. QED BY <1>0, <1>f, <1>g, <2>1
  <1>6. CASE PassTurn(w)
    <2>1. /\ wpc[w] = "pass" /\ wpc'[w] = "wait" /\ result'[w] = result[w]
          /\ UNCHANGED <<compress_sem, size, obuf>> /\ \A v \in Workers : v # w => Same(v)
      BY <1>6 DEF PassTurn, Goto, TypeOK, ContextTypes, Same
    <2>. QED BY <1>0, <1>f, <2>1
  <1>. QED BY <1>1, <1>2, <1>3, <1>4, <1>5, <1>6 DEF Worker

\* A worker takes a stop signal for a block only when it has never been given one.
LEMMA SizedStep ==
  ASSUME IInv, Sized, [Next]_vars
  PROVE  Sized'
  <1>1. TypeOK /\ DataTypes
    BY DEF IInv
  <1>2. PICK F \in Nat, t \in Workers : Inv(F, t)
    BY DEF IInv
  <1>3. ASSUME NEW w \in Workers, Worker(w) PROVE Sized'
    <2>1. /\ UNCHANGED <<pc, cur_id, reserved_size, signalled, m_stop_flag, ibuf>>
          /\ \A v \in Workers : v # w => Same(v)
          /\ SizedWorker(w)'
      BY <1>1, <1>2, <1>3, SizedWorkerStep
    <2>2. StopInv'
      BY <2>1 DEF Sized, StopInv, Open
    <2>3. ASSUME NEW v \in Workers PROVE SizedWorker(v)'
      <3>1. (Open /\ v = cur_id /\ reserved_size > 0)' <=> (Open /\ v = cur_id /\ reserved_size > 0)
        BY <2>1 DEF Open
      <3>. QED BY <2>1, <3>1, SizedFrame DEF Sized
    <2>. QED BY <2>2, <2>3 DEF Sized
  <1>4. ASSUME UNCHANGED <<signalled, compress_sem, size, result, wpc, ibuf, obuf, cur_id,
                           reserved_size>>,
               Open => Open', StopInv'
        PROVE  Sized'
    <2>1. ASSUME NEW v \in Workers PROVE SizedWorker(v)'
      <3>1. Same(v)
        BY <1>4 DEF Same
      <3>2. Open /\ v = cur_id /\ reserved_size > 0 =>
              (Open /\ v = cur_id /\ reserved_size > 0)' \/ size[v] = 0
        BY <1>4
      <3>. QED BY <1>4, <3>1, <3>2, SizedFrame DEF Sized
    <2>. QED BY <1>4, <2>1 DEF Sized
  <1>5. ASSUME NEW n \in WriteSizes, Write(n) PROVE Sized'
    <2>1. StopInv' /\ Open' /\ Open
      BY <1>5 DEF Write, Sized, StopInv, Open
    <2>. QED BY <1>4, <1>5, <2>1 DEF Write, ctxVars
  <1>6. ASSUME StartCompress(cur_id, reserved_size), Open, reserved_size > 0, StopInv',
               UNCHANGED <<signalled, result, wpc, ibuf, obuf>>
        PROVE  Sized'
    <2>0. PICK w \in Workers : w = cur_id
      BY <1>1 DEF TypeOK, CallerTypes
    <2>1. signalled = 0 /\ reserved_size \in Nat /\ ~m_stop_flag
      BY <1>1, <1>2, <1>6, BlockSizeAssumption
      DEF TypeOK, CallerTypes, Inv, CallerInv, Sized, StopInv
    <2>2. /\ compress_sem[w] \in Nat /\ compress_sem'[w] = compress_sem[w] + 1
          /\ size'[w] = reserved_size
          /\ \A v \in Workers : v # w => /\ compress_sem'[v] = compress_sem[v]
                                        /\ size'[v] = size[v]
      BY <1>1, <1>6, <2>0 DEF StartCompress, TypeOK, ContextTypes
    <2>3. SizedWorker(w)'
      <3>1. ASSUME result[w] = 0
            PROVE  In(w)' # 0 /\ ~Stale(w)' /\ ~Stale(w) /\ wpc[w] # "exit"
        <4>1. Stops(w)' = 0 /\ ~Stale(w)' /\ ~Stale(w)
          BY <1>6, <2>0, <2>1 DEF Stops, Stale, Workers
        <4>2. In(w)' # 0
          BY <2>2, <4>1, NWorkersAssumption DEF In
        <4>3. wpc[w] # "exit"
          BY <1>2, <2>0, <2>1, <3>1, <4>1 DEF Inv, WorkerInv, WorkerOK, Holds, Workers
        <4>. QED BY <4>1, <4>2, <4>3
      <3>2. SizedWorker(w)
        BY <2>0 DEF Sized
      <3>. QED BY <1>6, <2>1, <2>2, <3>1, <3>2 DEF SizedWorker
    <2>4. ASSUME NEW v \in Workers, v # w PROVE SizedWorker(v)'
      <3>1. Same(v)
        BY <1>6, <2>2, <2>4 DEF Same
      <3>. QED BY <1>6, <2>0, <2>4, <3>1, SizedFrame DEF Sized
    <2>. QED BY <1>6, <2>3, <2>4 DEF Sized
  <1>7. CASE FiniReserved
    <2>0. Open /\ ~Open' /\ StopInv'
      BY <1>7 DEF FiniReserved, Open, Sized, StopInv
    <2>1. CASE reserved_size > 0
      BY <1>6, <1>7, <2>0, <2>1 DEF FiniReserved
    <2>2. CASE ~(reserved_size > 0)
      <3>1. ASSUME NEW v \in Workers PROVE SizedWorker(v)'
        <4>1. Same(v) /\ signalled' = signalled
          BY <1>7, <2>2 DEF FiniReserved, Same
        <4>. QED BY <2>2, <4>1, SizedFrame DEF Sized
      <3>. QED BY <2>0, <3>1 DEF Sized
    <2>. QED BY <2>1, <2>2
  <1>8. CASE Copy
    <2>0. PICK w \in Workers : w = cur_id
      BY <1>1 DEF TypeOK, CallerTypes
    <2>1. /\ count \in Nat /\ count > 0 /\ reserved_size \in Nat /\ reserved_size < BlockSize
          /\ raw_data_size \in Nat /\ count <= raw_data_size
          /\ CopyLen \in Nat /\ CopyLen > 0 /\ Open /\ Open' /\ StopInv'
      <3>1. /\ count \in Nat /\ count > 0 /\ reserved_size \in Nat /\ reserved_size < BlockSize
            /\ raw_data_size \in Nat
            /\ F * BlockSize + reserved_size = raw_data_size - count /\ F * BlockSize \in Nat
        BY <1>1, <1>2, <1>8, BlockSizeAssumption, Multiples
        DEF Copy, TypeOK, CallerTypes, Inv, CallerInv, Open
      <3>2. CopyLen \in Nat /\ CopyLen > 0
        BY <3>1, BlockSizeAssumption DEF CopyLen
      <3>3. Open /\ Open' /\ StopInv'
        BY <1>8 DEF Copy, Open, Sized, StopInv
      <3>4. count <= raw_data_size
        BY <3>1
      <3>. QED BY <3>1, <3>2, <3>3, <3>4
    <2>2. /\ reserved_size' = reserved_size + CopyLen /\ cur_id' = cur_id
          /\ UNCHANGED <<signalled, compress_sem, size, result, wpc, obuf>>
          /\ ibuf' = [ibuf EXCEPT ![cur_id] =
                [i \in 0..(BlockSize - 1) |->
                   IF i >= reserved_size /\ i < reserved_size + CopyLen
                   THEN raw_data_size - count + (i - reserved_size) ELSE ibuf[cur_id][i]]]
      BY <1>8 DEF Copy
    <2>3. \A v \in Workers : v # w => Same(v)
      BY <1>1, <2>0, <2>2 DEF Same, TypeOK, ContextTypes
    <2>4. ibuf'[w][0] = IF reserved_size = 0 THEN raw_data_size - count ELSE ibuf[w][0]
      <3>1. ibuf'[w] = [i \in 0..(BlockSize - 1) |->
                   IF i >= reserved_size /\ i < reserved_size + CopyLen
                   THEN raw_data_size - count + (i - reserved_size) ELSE ibuf[w][i]]
        BY <1>1, <2>0, <2>2 DEF TypeOK, ContextTypes
      <3>2. 0 \in 0..(BlockSize - 1)
        BY BlockSizeAssumption
      <3>3. ibuf'[w][0] = IF 0 >= reserved_size /\ 0 < reserved_size + CopyLen
                          THEN raw_data_size - count + (0 - reserved_size) ELSE ibuf[w][0]
        BY <3>1, <3>2
      <3>. QED BY <2>1, <3>3
    <2>5. ibuf'[w][0] = Junk => ibuf[w][0] = Junk /\ ibuf'[w][0] = ibuf[w][0]
      BY <2>1, <2>4, JunkAssumption
    <2>6. SizedWorker(w)'
      <3>1. ~Stale(w) /\ ~Stale(w)'
        BY <1>2, <2>0, <2>1, <2>2 DEF Stale, Inv, CallerInv, Workers
      <3>2. reserved_size' > 0 /\ w = cur_id'
        BY <2>0, <2>1, <2>2
      <3>. QED BY <2>0, <2>1, <2>2, <2>5, <3>1, <3>2 DEF Sized, SizedWorker
    <2>7. ASSUME NEW v \in Workers, v # w PROVE SizedWorker(v)'
      BY <2>0, <2>2, <2>3, <2>7, SizedFrame DEF Sized
    <2>. QED BY <2>1, <2>6, <2>7 DEF Sized
  <1>9. CASE Dispatch
    <2>1. Open /\ Open' /\ StopInv' /\ reserved_size > 0
      BY <1>2, <1>9, BlockSizeAssumption DEF Dispatch, Open, Sized, StopInv, Inv, CallerInv
    <2>. QED BY <1>6, <1>9, <2>1 DEF Dispatch
  <1>10. CASE FiniStop
    <2>1. StopInv' /\ ~Open /\ ~Open'
      BY <1>10 DEF FiniStop, Sized, StopInv, Open
    <2>. QED BY <1>4, <1>10, <2>1 DEF FiniStop, ctxVars
  <1>11. CASE FiniSignal
    <2>0. PICK w \in Workers : w = signalled
      <3>1. signalled \in Workers
        BY <1>1, <1>2, <1>11, NWorkersAssumption
        DEF FiniSignal, TypeOK, CallerTypes, Inv, CallerInv, Workers
      <3>. QED BY <3>1
    <2>1. m_stop_flag /\ ~Open /\ ~Open' /\ StopInv'
      BY <1>11 DEF FiniSignal, Sized, StopInv, Open
    <2>2. /\ compress_sem[w] \in Nat /\ compress_sem'[w] = compress_sem[w] + 1
          /\ signalled' = signalled + 1
          /\ \A v \in Workers : v # w => compress_sem'[v] = compress_sem[v]
          /\ UNCHANGED <<size, result, wpc, ibuf, obuf>>
      BY <1>1, <1>11, <2>0 DEF FiniSignal, TypeOK, ContextTypes
    <2>3. SizedWorker(w)'
      <3>1. ~Stale(w)' /\ ~Stale(w) /\ Stops(w) = 0 /\ Stops(w)' = 1
        BY <2>0, <2>2 DEF Stale, Stops, Workers
      <3>2. In(w)' = In(w)
        BY <2>2, <3>1 DEF In
      <3>. QED BY <2>1, <2>2, <3>1, <3>2 DEF Sized, SizedWorker
    <2>4. ASSUME NEW v \in Workers, v # w PROVE SizedWorker(v)'
      <3>1. Same(v)
        BY <2>2, <2>4 DEF Same
      <3>2. v < signalled' <=> v < signalled
        BY <2>0, <2>2, <2>4 DEF Workers
      <3>. QED BY <2>1, <3>1, <3>2, SizedFrame DEF Sized
    <2>. QED BY <2>1, <2>3, <2>4 DEF Sized
  <1>12. CASE FiniJoin \/ FiniIndex \/ FiniTrailer \/ FiniHeader
    <2>1. StopInv' /\ ~Open /\ ~Open'
      BY <1>12 DEF FiniJoin, FiniIndex, FiniTrailer, FiniHeader, Sized, StopInv, Open
    <2>. QED BY <1>4, <1>12, <2>1 DEF FiniJoin, FiniIndex, FiniTrailer, FiniHeader, ctxVars
  <1>13. CASE UNCHANGED vars
    <2>1. StopInv' /\ (Open' <=> Open)
      BY <1>13 DEF vars, callerVars, Sized, StopInv, Open
    <2>. QED BY <1>4, <1>13, <2>1 DEF vars, callerVars, ctxVars
  <1>. QED BY <1>3, <1>5, <1>7, <1>8, <1>9, <1>10, <1>11, <1>12, <1>13
       DEF Next, CallerContinues

\* Once close() has set m_stop_flag, no worker becomes misled and none stops
\* being it.
LEMMA MisledStays ==
  ASSUME IInv, Sized, m_stop_flag, [Next]_vars
  PROVE  m_stop_flag' /\ (Misled' <=> Misled)
  <1>1. TypeOK /\ DataTypes /\ ~Open /\ pc # "stop"
    BY DEF IInv, Sized, StopInv
  <1>2. PICK F \in Nat, t \in Workers : Inv(F, t)
    BY DEF IInv
  <1>3. Misled <=> \E w \in Workers : Unset(w)
    BY DEF Misled, Unset
  <1>4. m_stop_flag' => (Misled' <=> \E w \in Workers : Unset(w)')
    BY DEF Misled, Unset
  <1>5. ASSUME NEW w \in Workers, Worker(w) PROVE m_stop_flag' /\ (Misled' <=> Misled)
    <2>1. /\ m_stop_flag' /\ (Unset(w)' <=> Unset(w))
          /\ \A v \in Workers : v # w => Same(v)
      BY <1>1, <1>2, <1>5, SizedWorkerStep
    <2>2. \A v \in Workers : Unset(v)' <=> Unset(v)
      BY <2>1 DEF Same, Unset
    <2>. QED BY <1>3, <1>4, <2>1, <2>2
  <1>6. CASE m_stop_flag' /\ UNCHANGED <<ibuf, size, obuf>>
    BY <1>6 DEF Misled
  <1>7. CASE FiniSignal \/ FiniJoin \/ FiniIndex \/ FiniTrailer \/ FiniHeader
    BY <1>6, <1>7 DEF FiniSignal, FiniJoin, FiniIndex, FiniTrailer, FiniHeader, ctxVars
  <1>8. CASE UNCHANGED vars
    BY <1>6, <1>8 DEF vars, callerVars, ctxVars
  <1>9. ~(\E n \in WriteSizes : Write(n)) /\ ~FiniReserved /\ ~Copy /\ ~Dispatch /\ ~FiniStop
    BY <1>1 DEF Write, FiniReserved, Copy, Dispatch, FiniStop, Open
  <1>. QED BY <1>5, <1>7, <1>8, <1>9 DEF Next, CallerContinues

\* close() gets past the join only when no worker was misled.
LEMMA FinishedNotMisled ==
  ASSUME IInv, Sized, Finished
  PROVE  ~Misled
  <1>1. PICK F \in Nat, t \in Workers : Inv(F, t)
    BY DEF IInv
  <1>2. ASSUME NEW w \in Workers PROVE ~Unset(w)
    <2>1. wpc[w] = "exit" /\ result[w] = 0
      BY <1>1 DEF Inv, EndInv
    <2>. QED BY <2>1 DEF Sized, SizedWorker, Unset, Stale
  <1>. QED BY <1>2 DEF Misled, Unset

\* The contents of a sequence of file records.
LEMMA DataOf ==
  ASSUME NEW s \in Seq(DestRecord)
  PROVE  /\ [k \in 1..Len(s) |-> s[k].data] \in Seq(BlockSet)
         /\ Len([k \in 1..Len(s) |-> s[k].data]) = Len(s)
         /\ \A k \in 1..Len(s) : [j \in 1..Len(s) |-> s[j].data][k] = s[k].data
<1> DEFINE f == [k \in 1..Len(s) |-> s[k].data]
<1>1. Len(s) \in Nat /\ \A k \in 1..Len(s) : s[k] \in DestRecord
  OBVIOUS
<1>2. \A k \in 1..Len(s) : s[k].data \in BlockSet
  BY <1>1 DEF DestRecord
<1>3. f \in [1..Len(s) -> BlockSet]
  BY <1>2
<1>4. f \in Seq(BlockSet) /\ Len(f) = Len(s)
  <2> HIDE DEF f
  <2> QED
    BY <1>1, <1>3
<1> QED
  BY <1>4

\* A block more in the file is a block more of the abstract stream.
LEMMA AppendedBlock ==
  ASSUME DataTypes, NEW rec \in DestRecord, dest' = Append(dest, rec)
  PROVE  FileBlocks' = Append(FileBlocks, rec.data) /\ Len(FileBlocks) = Len(dest)
  <1>1. PICK n \in Nat :
          /\ n = Len(dest) /\ dest' \in Seq(DestRecord) /\ Len(dest') = n + 1
          /\ dest'[n + 1] = rec
          /\ \A k \in 1..n : dest'[k] = dest[k]
    BY DEF DataTypes
  <1>2. /\ FileBlocks \in Seq(BlockSet) /\ Len(FileBlocks) = n
        /\ \A k \in 1..n : FileBlocks[k] = dest[k].data
    <2>1. dest \in Seq(DestRecord)
      BY DEF DataTypes
    <2>. QED BY <1>1, <2>1, DataOf DEF FileBlocks
  <1>3. /\ FileBlocks' \in Seq(BlockSet) /\ Len(FileBlocks') = n + 1
        /\ \A k \in 1..(n + 1) : FileBlocks'[k] = dest'[k].data
    BY <1>1, DataOf DEF FileBlocks
  <1>4. /\ rec.data \in BlockSet /\ Append(FileBlocks, rec.data) \in Seq(BlockSet)
        /\ Len(Append(FileBlocks, rec.data)) = n + 1
        /\ Append(FileBlocks, rec.data)[n + 1] = rec.data
        /\ \A k \in 1..n : Append(FileBlocks, rec.data)[k] = FileBlocks[k]
    <2>1. rec.data \in BlockSet
      BY DEF DestRecord
    <2>. QED BY <1>1, <1>2, <2>1
  <1>5. ASSUME NEW k \in 1..(n + 1)
        PROVE  FileBlocks'[k] = Append(FileBlocks, rec.data)[k]
    <2>1. CASE k \in 1..n
      BY <1>1, <1>2, <1>3, <1>4, <2>1
    <2>2. CASE k = n + 1
      BY <1>1, <1>3, <1>4, <2>2
    <2>3. k \in 1..n \/ k = n + 1
      BY <1>1
    <2>. QED BY <2>1, <2>2, <2>3
  <1>6. FileBlocks' = Append(FileBlocks, rec.data)
    BY <1>3, <1>4, <1>5
  <1>. QED BY <1>1, <1>2, <1>6

\* A block is written only when it has been dealt, and it is the next one.
LEMMA WritesNext ==
  ASSUME TypeOK, DataTypes, NEW F \in Nat, NEW t \in Workers, Inv(F, t), Sized, ~Misled,
         NEW w \in Workers, wpc[w] = "write"
  PROVE  Len(dest) \in Nat /\ Len(dest) < F
         /\ obuf[w] = StreamBlock(raw_data_size, Len(dest))
  <1>1. w = t /\ result[w] = 0 /\ Len(dest) \in Nat
    BY DEF Inv, TurnInv, FailInv, TypeOK, ContextTypes, DataTypes
  <1>2. Holds(w, F, t)
    <2>1. ~Stale(w)
      <3>1. SUFFICES ASSUME Stale(w) PROVE FALSE
        OBVIOUS
      <3>2. signalled > 0 /\ Unset(w)
        BY <1>1, <3>1 DEF Sized, SizedWorker, Stale, TypeOK, CallerTypes, Workers
      <3>. QED BY <3>2 DEF Sized, StopInv, Misled, Unset
    <2>. QED BY <1>1, <2>1 DEF Inv, WorkerInv, WorkerOK
  <1>3. NextToWrite(w, t) = Len(dest)
    BY <1>1, NWorkersAssumption DEF NextToWrite, Dist, Workers
  <1>4. Out(w) = NWorkers /\ In(w) \in Nat
    BY NWorkersAssumption DEF Out, In
  <1>5. Len(dest) + NWorkers + In(w) = F + Dist(NextToDeal, w)
    BY <1>2, <1>3, <1>4 DEF Holds
  <1>6. Dist(NextToDeal, w) \in 0..(NWorkers - 1)
    BY NextToDealFact, DistFact
  <1>7. obuf[w] = StreamBlock(raw_data_size, Len(dest))
    BY <1>2, <1>3, <1>4, NWorkersAssumption DEF Holds
  <1>. QED BY <1>1, <1>4, <1>5, <1>6, <1>7, NWorkersAssumption

\* How much of the stream a dealt block holds.
LEMMA DealtBlock ==
  ASSUME TypeOK, NEW F \in Nat, NEW t \in Workers, Inv(F, t), NEW k \in Nat, k < F
  PROVE  \/ (k + 1) * BlockSize <= raw_data_size
         \/ ~Open /\ k * BlockSize < raw_data_size /\ raw_data_size < (k + 1) * BlockSize
  <1>1. /\ raw_data_size \in Nat /\ count \in Nat /\ reserved_size \in Nat
        /\ BlockSize \in Nat
    BY BlockSizeAssumption DEF TypeOK, CallerTypes
  <1>2. /\ F * BlockSize \in Nat /\ (k + 1) * BlockSize <= F * BlockSize
        /\ k * BlockSize \in Nat /\ (k + 1) * BlockSize = k * BlockSize + BlockSize
    <2>1. k + 1 \in Nat /\ k + 1 <= F
      OBVIOUS
    <2>. QED BY <2>1, Multiples
  <1>3. CASE Open
    <2>1. F * BlockSize + reserved_size = raw_data_size - count
      BY <1>3 DEF Inv, CallerInv
    <2>. QED BY <1>1, <1>2, <2>1
  <1>4. CASE ~Open /\ reserved_size = 0
    BY <1>1, <1>2, <1>4 DEF Inv, CallerInv
  <1>5. CASE ~Open /\ reserved_size > 0
    <2>1. raw_data_size = (F - 1) * BlockSize + reserved_size /\ reserved_size < BlockSize
      BY <1>5 DEF Inv, CallerInv
    <2>2. CASE k = F - 1
      BY <1>1, <1>2, <1>5, <2>1, <2>2
    <2>3. CASE k # F - 1
      <3>1. k + 1 \in Nat /\ F - 1 \in Nat /\ k + 1 <= F - 1
        BY <2>3
      <3>2. (k + 1) * BlockSize <= (F - 1) * BlockSize /\ (F - 1) * BlockSize \in Nat
        BY <3>1, Multiples
      <3>. QED BY <1>1, <1>2, <2>1, <3>2
    <2>. QED BY <2>2, <2>3
  <1>. QED BY <1>1, <1>3, <1>4, <1>5

\* A worker that appends its block emits the next block of the stream.
LEMMA WriteEmits ==
  ASSUME TypeOK, DataTypes, NEW F \in Nat, NEW t \in Workers, Inv(F, t), Sized, ~Misled, ~Misled',
         NEW w \in Workers, WriteBlock(w),
         dest' = Append(dest, [at |-> DestEnd, len |-> compressed_size[w], data |-> obuf[w]])
  PROVE  Stream!Next
  <1> DEFINE rec == [at |-> DestEnd, len |-> compressed_size[w], data |-> obuf[w]]
             k == Len(dest)
  <1>1. wpc[w] = "write" /\ UNCHANGED callerVars
    BY DEF WriteBlock
  <1>2. k \in Nat /\ k < F /\ obuf[w] = StreamBlock(raw_data_size, k)
    BY <1>1, WritesNext
  <1>3. rec \in DestRecord /\ rec.data = obuf[w]
    <2>1. DestEnd \in Nat
      <3>1. dest # << >> => dest[Len(dest)] \in DestRecord
        BY DEF DataTypes
      <3>. QED BY <3>1 DEF DestEnd, DestRecord, DataTypes
    <2>. QED BY <2>1 DEF TypeOK, ContextTypes, DataTypes, DestRecord
  <1>4. FileBlocks' = Append(FileBlocks, StreamBlock(raw_data_size, k)) /\ Len(FileBlocks) = k
    BY <1>2, <1>3, AppendedBlock
  <1>5. /\ UNCHANGED <<raw_data_size, AbstractPhase>>
        /\ AbstractPhase = IF Open THEN "open" ELSE "closing"
    <2>1. pc \notin {"ok", "failed"}
      BY <1>1 DEF Inv, EndInv, Finished
    <2>. QED BY <1>1, <2>1 DEF AbstractPhase, Open, callerVars
  <1>6. /\ raw_data_size \in Nat /\ BlockSize \in Nat /\ k * BlockSize \in Nat
        /\ (k + 1) * BlockSize = k * BlockSize + BlockSize
    BY <1>2, BlockSizeAssumption, Multiples DEF TypeOK, CallerTypes
  <1>7. CASE (k + 1) * BlockSize <= raw_data_size
    <2>1. StreamBlock(raw_data_size, k) = Stream!BlockAt(k, BlockSize)
      <3>1. ~(raw_data_size - k * BlockSize < BlockSize)
        BY <1>6, <1>7
      <3>. QED BY <3>1 DEF StreamBlock, Stream!BlockAt
    <2>2. Stream!EmitFull
      BY <1>4, <1>5, <1>7, <2>1 DEF Stream!EmitFull
    <2>. QED BY <2>2 DEF Stream!Next
  <1>8. CASE ~Open /\ k * BlockSize < raw_data_size /\ raw_data_size < (k + 1) * BlockSize
    <2>1. StreamBlock(raw_data_size, k) = Stream!BlockAt(k, raw_data_size - k * BlockSize)
      <3>1. raw_data_size - k * BlockSize < BlockSize
        BY <1>6, <1>8
      <3>. QED BY <3>1 DEF StreamBlock, Stream!BlockAt
    <2>2. Stream!EmitLast
      BY <1>4, <1>5, <1>8, <2>1 DEF Stream!EmitLast
    <2>. QED BY <2>2 DEF Stream!Next
  <1>. QED BY <1>2, <1>7, <1>8, DealtBlock

\* Every step of the caller and of the workers is a step of the abstract
\* builder or none.
LEMMA StreamStep ==
  ASSUME IInv, Sized, Sized', [Next]_vars
  PROVE  [Stream!Next]_(Stream!vars)
  <1>1. TypeOK /\ DataTypes
    BY DEF IInv
  <1>2. PICK F \in Nat, t \in Workers : Inv(F, t)
    BY DEF IInv
  <1>3. dest' = dest => FileBlocks' = FileBlocks
    BY DEF FileBlocks
  <1>o. (pc \in {"open", "copy", "start", "stop"} => ~Misled)
        /\ (pc' \in {"open", "copy", "start", "stop"} => ~Misled')
    BY DEF Sized, StopInv, Open, Misled
  <1>m. CASE Misled
    <2>1. Misled' /\ pc # "ok" /\ pc # "open"
      BY <1>m, <1>o, MisledStays, FinishedNotMisled DEF Misled, Finished
    <2>2. pc' # "ok"
      <3>1. pc' = "ok" => Finished
        BY <2>1 DEF Finished, Next, Worker, CallerContinues, CreateCompressor, WaitCompress,
           Compress, WaitTurn, WriteBlock, PassTurn, Write, FiniReserved, Copy, Dispatch,
           FiniStop, FiniSignal, FiniJoin, FiniIndex, FiniTrailer, FiniHeader, vars, callerVars
      <3>. QED BY <1>m, <3>1, FinishedNotMisled
    <2>3. AbstractPhase = "failed" /\ AbstractPhase' = "failed"
      BY <1>m, <2>1, <2>2 DEF AbstractPhase
    <2>. QED BY <2>3 DEF Stream!Next, Stream!Broken
  <1>n. CASE ~Misled
    <2>s. CASE FiniStop
      <3>1. /\ AbstractPhase = "closing" /\ AbstractPhase' \in {"closing", "failed"}
            /\ UNCHANGED <<raw_data_size, FileBlocks>>
        BY <1>3, <1>n, <2>s DEF FiniStop, AbstractPhase, fileVars
      <3>. QED BY <3>1 DEF Stream!Next, Stream!Fail, Stream!vars
    <2>c. CASE ~FiniStop
      <3>0. ~Misled'
        <4>1. CASE m_stop_flag
          BY <1>n, <4>1, MisledStays
        <4>2. CASE ~m_stop_flag
          <5>1. m_stop_flag' = m_stop_flag
            BY <2>c
            DEF Next, Worker, CallerContinues, CreateCompressor, WaitCompress, Compress,
                WaitTurn, WriteBlock, PassTurn, Write, FiniReserved, Copy, Dispatch, FiniSignal,
                FiniJoin, FiniIndex, FiniTrailer, FiniHeader, vars, callerVars
          <5>. QED BY <4>2, <5>1 DEF Misled
        <4>. QED BY <4>1, <4>2
      <3>4. ASSUME UNCHANGED <<pc, raw_data_size, dest>> PROVE UNCHANGED Stream!vars
        BY <1>3, <1>n, <3>0, <3>4 DEF Stream!vars, AbstractPhase
      <3>5. ASSUME NEW w \in Workers, Worker(w) PROVE [Stream!Next]_(Stream!vars)
        <4>1. CASE WriteBlock(w) /\ dest' # dest
          <5>1. dest' = Append(dest, [at |-> DestEnd, len |-> compressed_size[w],
                                      data |-> obuf[w]])
            BY <4>1 DEF WriteBlock
          <5>. QED BY <1>1, <1>2, <1>n, <3>0, <4>1, <5>1, WriteEmits
        <4>2. CASE ~(WriteBlock(w) /\ dest' # dest)
          BY <3>4, <3>5, <4>2
          DEF Worker, CreateCompressor, WaitCompress, Compress, WaitTurn, WriteBlock, PassTurn,
              callerVars, fileVars
        <4>. QED BY <4>1, <4>2
      <3>6. ASSUME NEW n \in WriteSizes, Write(n) PROVE Stream!Next
        <4>1. AbstractPhase = "open" /\ AbstractPhase' = "open"
          BY <1>n, <3>0, <3>6 DEF Write, AbstractPhase
        <4>. QED BY <1>3, <3>6, <4>1 DEF Write, fileVars, Stream!Next, Stream!Accept
      <3>7. CASE Copy \/ Dispatch
        <4>1. AbstractPhase = "open" /\ AbstractPhase' = "open"
          BY <1>n, <3>0, <3>7 DEF Copy, Dispatch, AbstractPhase
        <4>. QED BY <1>3, <3>7, <4>1 DEF Copy, Dispatch, fileVars, Stream!vars
      <3>8. CASE FiniReserved
        <4>1. AbstractPhase = "open" /\ AbstractPhase' = "closing"
          BY <1>n, <3>0, <3>8 DEF FiniReserved, AbstractPhase
        <4>. QED BY <1>3, <3>8, <4>1 DEF FiniReserved, fileVars, Stream!Next, Stream!BeginClose
      <3>9. ASSUME pc \in {"signal", "join", "index", "trailer", "header"},
                   pc' \in {"signal", "join", "index", "trailer", "header", "failed"},
                   UNCHANGED <<raw_data_size, dest>>
            PROVE  [Stream!Next]_(Stream!vars)
        <4>1. AbstractPhase = "closing"
              /\ AbstractPhase' = IF pc' = "failed" THEN "failed" ELSE "closing"
          BY <1>n, <3>0, <3>9 DEF AbstractPhase
        <4>. QED BY <1>3, <3>9, <4>1 DEF Stream!vars, Stream!Next, Stream!Fail
      <3>10. ASSUME pc \in {"trailer", "header"}, pc' = "ok", UNCHANGED <<raw_data_size, dest>>
             PROVE  Stream!Next
        <4>1. AbstractPhase = "closing" /\ AbstractPhase' = "ok"
          BY <1>n, <3>0, <3>10 DEF AbstractPhase
        <4>2. raw_data_size <= Len(dest) * BlockSize
          BY <1>2, <3>10, AllWritten DEF Finished, AllBlocks
        <4>3. Len(FileBlocks) = Len(dest)
          BY <1>1, DataOf DEF DataTypes, FileBlocks
        <4>. QED BY <1>3, <3>10, <4>1, <4>2, <4>3 DEF Stream!Next, Stream!CloseOk
      <3>11. CASE FiniSignal \/ FiniJoin
        BY <3>9, <3>11 DEF FiniSignal, FiniJoin, fileVars
      <3>12. CASE FiniIndex
        BY <3>9, <3>12 DEF FiniIndex
      <3>13. CASE FiniTrailer
        BY <3>9, <3>10, <3>13 DEF FiniTrailer
      <3>14. CASE FiniHeader
        BY <3>9, <3>10, <3>14 DEF FiniHeader
      <3>15. CASE UNCHANGED vars
        BY <3>4, <3>15 DEF vars, callerVars, fileVars
      <3>. QED BY <2>c, <3>5, <3>6, <3>7, <3>8, <3>11, <3>12, <3>13, <3>14, <3>15
           DEF Next, CallerContinues
    <2>. QED BY <2>s, <2>c
  <1>. QED BY <1>m, <1>n

\* What the caller and the ring of workers do to the file is what a ZFileStream
\* does, whatever WorkerCtx::size holds before it is set: whatever order the
\* workers finish in, blocks appear in stream order, only whole ones before
\* close(), and close() returns 0 only when all are there; a close() that
\* stops a worker misled by its size counts as failed.
THEOREM Refinement == Spec => ImplementsStream
  <1>1. Init => Stream!Init /\ Sized
    <2>1. SUFFICES ASSUME Init PROVE Stream!Init /\ Sized
      OBVIOUS
    <2>2. ~Misled
      BY <2>1 DEF Init, Misled
    <2>3. AbstractPhase = "open" /\ FileBlocks = << >>
      BY <2>1, <2>2 DEF Init, AbstractPhase, FileBlocks
    <2>4. Stream!Init
      BY <2>1, <2>3 DEF Init, Stream!Init
    <2>5. StopInv
      BY <2>1 DEF Init, StopInv
    <2>6. ASSUME NEW w \in Workers PROVE SizedWorker(w)
      <3>1. ibuf[w][0] = Junk /\ ~Stale(w)
        BY <2>1, BlockSizeAssumption DEF Init, Stale, Workers
      <3>2. DOMAIN obuf[w] = {}
        <4>1. obuf[w] = Contents(ibuf[w], 0)
          BY <2>1 DEF Init
        <4>2. DOMAIN Contents(ibuf[w], 0) = 0..(0 - 1) /\ 0..(0 - 1) = {}
          BY DEF Contents
        <4>. QED BY <4>1, <4>2
      <3>. QED BY <2>1, <3>1, <3>2 DEF Init, SizedWorker
    <2>. QED BY <2>4, <2>5, <2>6 DEF Sized
  <1>2. IInv /\ Sized /\ [Next]_vars => Sized'
    BY SizedStep
  <1>3. IInv /\ Sized /\ Sized' /\ [Next]_vars => [Stream!Next]_(Stream!vars)
    BY StreamStep
  <1>. QED BY <1>1, <1>2, <1>3, Invariance, PTL DEF Spec, ImplementsStream, Stream!Spec
==============================================================================
