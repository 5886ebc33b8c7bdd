\* A layer, a container and a view on it; the default configuration, and both
\* options.  One fault: a step that fails, a crash or a reboot,
\* and one Prepare whose directory cannot be removed when it has failed.
SPECIFICATION FairSpec
CONSTANTS
  Layers = {"layer"}
  Rootfs = {"box", "view"}
  Views = {"view"}
  Parent <- OneLayer
  Confs <- DefaultAndBoth
  MaxId = 3
  MaxFaults = 1
  MaxUndos = 1
INVARIANTS LiveDirSafe NothingLeft LowerAlive
PROPERTIES EventuallyClean PrepareRetried
