\* A lower and an upper layer; everything may fail, the caller may cancel.
\* Build() ends.
SPECIFICATION FairSpec
CONSTANTS
  N = 2
  Recorded <- BothRecorded
  Present <- LowerPresent
  Elsewhere <- UpperElsewhere
  Leftovers <- UpperLeft
  noUpload = FALSE
INVARIANTS ImageComplete ErrorsContained NoStrayCommit
PROPERTY BuildReturns
CHECK_DEADLOCK FALSE
