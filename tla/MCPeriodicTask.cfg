CONSTANTS
  Boards = {a}
  Rooms = {r1}
  NameOf <- OneName
  Tasks = {t1, t2}
  Copies = 1
  None = None
SPECIFICATION FairSpec
PROPERTY PeriodicTaskPops
CHECK_DEADLOCK FALSE
