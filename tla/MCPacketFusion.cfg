CONSTANTS
  a = a
  a2 = a2
  b = b
  c = c
  d = d
  room1 = room1
  room2 = room2
  twin = twin
  Stations = {a, b, c, d, a2}
  BoardOf <- Board
  RoomOf <- Room
  NameOf <- Name
  p1 = p1
  p2 = p2
  Packets = {p1, p2}
  Old = 0
  MaxQueue = 1
SPECIFICATION MCSpec
INVARIANTS TypeOK NoneCompleteWaits
PROPERTIES EmissionIsComplete PassIsComplete NoneWaitsForever
