\* One layer, nothing to deduplicate; anything may fail.
SPECIFICATION Spec
CONSTANTS
  N = 1
  Recorded <- Unrecorded
  Present <- Nowhere
  Elsewhere <- Nowhere
  Leftovers <- Empty
  noUpload = FALSE
INVARIANT EntriesGood
CHECK_DEADLOCK FALSE
