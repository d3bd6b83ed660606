SPECIFICATION LifeSpec
CONSTANTS
  Blocks = 4
  Entries = 2
  SectorEntries = 1
  PageLen = 2
  HdrRefs = 1
  IxRefs = 1
  Blank = Blank
  Mixed = Mixed
  Missing = Missing
  Unclear = Unclear
  WDelet = 5
  WUsed = 1
  WAge = 5
  MaxRuns = 5
  MaxLen = 3
  Names = {a, b}
  Descriptors = {1}
  Data <- MCData
  OpenFlags <- MCPlain
  Sharing = TRUE
  MaxErases = 2
  MaxPowerLosses = 2
SYMMETRY MCSymmetry
INVARIANT MountsAgain
PROPERTY Implements
VIEW MCView
CHECK_DEADLOCK FALSE
