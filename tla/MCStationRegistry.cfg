CONSTANTS
  Boards = {a, b}
  Rooms = {r1, r2}
  NameOf <- OneName
  Tasks = {t1, t2}
  Copies = 1
  None = None
SPECIFICATION Spec
CONSTRAINT Single
SYMMETRY Alike
INVARIANTS TypeOK TablesAgree ReconnectedStays OnlyDeletionsLeak
CHECK_DEADLOCK FALSE
