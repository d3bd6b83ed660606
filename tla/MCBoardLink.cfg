SPECIFICATION FairSpec
CONSTANTS
  Trials = 2
  Pings = 2
  Commands = {"BLINK", "OKLED", "SYNC", "REBOOT", "STANDBY"}
  MaxRows = 1
  MaxFlight = 3
  MaxPending = 2
INVARIANTS TypeOK InStep NoMutualWait LedFollows
PROPERTY ExchangesEnd
