\* Two containers on one layer; nothing fails.
SPECIFICATION FairSpec
CONSTANTS
  Layers = {"layer"}
  Rootfs = {"a", "b"}
  Views = {}
  Parent <- OneLayer
  Confs <- AutoRemove
  MaxId = 4
  MaxFaults = 0
  MaxUndos = 0
PROPERTY MountsRecover
