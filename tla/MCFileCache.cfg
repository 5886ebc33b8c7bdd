SPECIFICATION FairSpec
CONSTANTS
    f1 = f1
    f2 = f2
    Files = {f1, f2}
    Readers = {r1, r2}
    Length = 3
    RefillUnit = 1
    WaterMark = 1
    RiskMark = 3
    Requests <- SomeRequests
    Shortages = {0, 1}
    MaxReads = 3
    MaxOpens = 2
    MaxFaults = 1
    NoOne = NoOne
INVARIANTS ReadsAreSource Accounting NoDangling
PROPERTY ReadReturns
CHECK_DEADLOCK FALSE
