CONSTANTS
  MaxRows = 2
  MaxBatches = 3
  MaxSyncs = 2
SPECIFICATION FairSpec
INVARIANTS TypeOK OnlyOvertakingMisSends
PROPERTIES UploadsEnd ResetsEnd
