\* Writes, discards, reads, fsync and group commit by two threads, on the same
\* sectors too; I/O on both files may fail; twice a close, a crash or a power loss,
\* and what comes after it.
SPECIFICATION Spec
CONSTANTS
  Threads = {t1, t2}
  NSectors = 2
  MaxOps = 3
  MaxCalls = 2
  MaxRequests = 4
  MaxCrashes = 2
  GroupSizes = {0, 1, 2}
  DataMayFail = TRUE
  IndexMayFail = TRUE
  PowerLoss = TRUE
  NLookup = 1
SYMMETRY ThreadSymmetry
INVARIANTS Reopenable NoLostWrite ReadsAreRegular GroupFits
CHECK_DEADLOCK FALSE
