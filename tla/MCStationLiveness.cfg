CONSTANTS
  Boards = {a}
  Rooms = {r1, r2}
  NameOf <- OneName
  Tasks = {t1, t2}
  Copies = 1
  None = None
SPECIFICATION FairSpec
PROPERTIES UiReturns SilentBoardsLeave
CHECK_DEADLOCK FALSE
