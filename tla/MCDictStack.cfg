CONSTANTS
  Keys = {k1, k2, k3}
  Data = {d1, d2}
  Null = Null
SPECIFICATION Spec
INVARIANTS TypeOK Linked LeakFreezesOnlyEmpty
PROPERTY ImplementsQueue
