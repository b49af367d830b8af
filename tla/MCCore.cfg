SPECIFICATION Spec
CONSTANTS
  Limit = 16
  RegIdx = {0, 1, 2, 3}
  P = 3
  Opcodes = {"|", "-"}
  OP_BITWISE_OR = "|"
  Op <- OpOn
  Fields <- Layout
  Ram <- RamWords
  Mmr = {9}
  RESETVECTOR = 2
  Images <- Programs
  Junk = {0, 13}
INVARIANTS
  TypeOK
PROPERTIES
  RunsMachine
  Retires
