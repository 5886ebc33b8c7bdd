\* A nested index; two conversions at a time.
\* Build() ends.
SPECIFICATION FairSpec
CONSTANTS
  Nodes <- NestedNodes
  Root = "index"
  Parent <- NestedParent
  MediaTypes <- NestedTypes
  ConcurrencyLimit = 2
INVARIANTS OkMeansConverted IncompleteOnlyOnError
PROPERTY BuildReturns
CHECK_DEADLOCK FALSE
