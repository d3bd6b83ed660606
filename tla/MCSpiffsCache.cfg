SPECIFICATION Spec
CONSTANTS
  Slots = {1, 2}
  Pix = {1, 2}
  Lookup = {1}
  BlockPages <- MCBlockPages
  Bits = {1}
  None = None
  Objs = {a, b}
  Fds = {f, g}
  PageLen = 2
  Data <- MCData
  MaxLen = 2
INVARIANTS TypeOK Coherent KeepsWrites NoneStranded
CHECK_DEADLOCK FALSE
SYMMETRY MCSymmetry
