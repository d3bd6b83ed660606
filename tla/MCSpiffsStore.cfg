SPECIFICATION Spec
CONSTANTS
  Blocks = 4
  Entries = 2
  SectorEntries = 1
  PageLen = 2
  HdrRefs = 1
  IxRefs = 1
  Blank = Blank
  Mixed = Mixed
  Missing = Missing
  Unclear = Unclear
  WDelet = 5
  WUsed = 1
  WAge = 5
  MaxRuns = 5
  MaxLen = 3
  Names = {a, b}
  Descriptors = {1, 2}
  Data <- MCData
  OpenFlags <- MCTruncating
  Sharing = TRUE
  MaxErases = 2
  MaxPowerLosses = 0
SYMMETRY MCSymmetry
INVARIANTS TypeOK NoPageLeaks PagesCounted DescriptorsFollow
PROPERTIES Implements CellsOnce
VIEW MCView
CHECK_DEADLOCK FALSE
