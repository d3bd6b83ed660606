CONSTANTS
  GlobalMACs = {g}
  LocalMACs = {l1, l2}
  Hash4 <- SameHash
  Rooms = {r1}
  Extern = Extern
  NoDevice = NoDevice
  Objects = {1, 2}
  Holdoff = 1
  MergeAfter = 1
  ForgetAfter = 2
  MaxDelay = 1
  MaxTime = 3
  MaxDrifts = 1
SPECIFICATION Spec
INVARIANTS TypeOK OnlyCollisionsConfuse OnlyMergesDrift
PROPERTY CleaningIsComplete
SYMMETRY MACSymmetry
CHECK_DEADLOCK FALSE
