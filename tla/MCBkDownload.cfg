\* Two devices share a layer: reads of the registry fail or return bad data,
\* local calls work always or only now and then, devices are removed, even
\* while others download what they wait for, and opened again, the process
\* crashes.
SPECIFICATION FairSpec
CONSTANTS
  Devices = {d1, d2}
  Dirs = {r1}
  NBlocks = 2
  PartialTail = TRUE
  TryCnt = 2
  MaxFaults = 1
  MayFail = {TRUE, FALSE}
  MaxReopens = 1
  MaxCrashes = 1
  Absent = Absent
  NoItem = NoItem
INVARIANTS OneDownloader CommitVerified
PROPERTIES ListDone EventuallyLocal
CHECK_DEADLOCK FALSE
