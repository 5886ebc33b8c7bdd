\* Reads of a file with fixed-size blocks begin at any byte; nothing fails.
SPECIFICATION Spec
CONSTANTS
  BlockSize = 3
  MinChunk = 2
  NBatch = 2
  Sizes = {0, 7}
  FastCDC = {FALSE}
  Verify = {TRUE, FALSE}
  CrcSize = 1
  Lens = {1, 3}
  MayFail = FALSE
  UIntMaxes = {5}
  BufSize = 6
  MaxRotten = 0
  MaxFaults = 0
  InBlock = TRUE
  NoTable = NoTable
  Junk = Junk
INVARIANT ReadsSource
CHECK_DEADLOCK FALSE
