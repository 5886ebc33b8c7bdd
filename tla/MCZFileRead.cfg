\* Both kinds of file; two batches, groups of two and, with FastCDC, of three
\* blocks, a buffer of one to three blocks.
SPECIFICATION Spec
CONSTANTS
  BlockSize = 3
  MinChunk = 2
  NBatch = 2
  Sizes = {0, 7}
  FastCDC = {TRUE, FALSE}
  Verify = {TRUE, FALSE}
  CrcSize = 1
  Lens = {1, 3}
  MayFail = TRUE
  UIntMaxes = {5, 9}
  BufSize = 6
  MaxRotten = 1
  MaxFaults = 1
  InBlock = FALSE
  NoTable = NoTable
  Junk = Junk
INVARIANTS JumpTableSums ReadsSource SurvivesCorruption CheckFindsRot
CHECK_DEADLOCK FALSE
