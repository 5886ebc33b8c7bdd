\* Nothing fails; WorkerCtx::size starts with whatever the heap held.
SPECIFICATION FairSpec
CONSTANTS
  NWorkers = 2
  BlockSize = 2
  WriteSizes = {1, 3}
  MaxBytes = 6
  UninitSizes = {0, 1}
  MayFail = FALSE
  OverwriteHeader = FALSE
  CompressedSizes = {1}
  Junk = Junk
  NoRecord = NoRecord
  Torn = Torn
PROPERTY CallReturns
CHECK_DEADLOCK FALSE
