SPECIFICATION Spec
CONSTANTS
  Keys = {k1, k2}
  Vals = {v1, v2}
  Blocks = {b1, b2, b3, b4}
  Slots = 1
  FreeKeys = {TRUE}
SYMMETRY Symmetry
CHECK_DEADLOCK FALSE
INVARIANTS
  TypeOK
  Sound
PROPERTY
  KeepsContract
