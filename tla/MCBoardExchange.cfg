SPECIFICATION FairSpec
CONSTANTS
  Trials = 1
  Pings = 1
  Commands = {"SYNC"}
  MaxRows = 1
  MaxFlight = 1
  MaxPending = 1
PROPERTY FailedExchangeEnds
