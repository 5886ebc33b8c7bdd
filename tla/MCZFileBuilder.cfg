\* Writes below, at and above one and two blocks; any call may fail.
SPECIFICATION Spec
CONSTANTS
  BlockSize = 3
  WriteSizes = {0, 1, 2, 3, 7}
  MaxBytes = 11
  MayFail = TRUE
  OverwriteHeader = TRUE
  CompressedSizes = {1, 2}
  Junk = Junk
  NoRecord = NoRecord
  Torn = Torn
INVARIANT CloseOkComplete
PROPERTY ImplementsStream
CHECK_DEADLOCK FALSE
