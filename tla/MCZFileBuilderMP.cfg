\* Three workers that may fail, WorkerCtx::size holds whatever the heap held; more
\* blocks than workers, so that every buffer is used again.
SPECIFICATION FairSpec
CONSTANTS
  NWorkers = 3
  BlockSize = 2
  WriteSizes = {1, 3, 8}
  MaxBytes = 11
  UninitSizes = {0, 1}
  MayFail = TRUE
  OverwriteHeader = TRUE
  CompressedSizes = {1, 2}
  Junk = Junk
  NoRecord = NoRecord
  Torn = Torn
INVARIANTS BlocksInOrder ExclusiveWriter BufferOwnership CloseOkComplete
PROPERTIES ReturnsUnlessWorkerFails ImplementsStream
CHECK_DEADLOCK FALSE
