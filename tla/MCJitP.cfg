SPECIFICATION Spec
CONSTANTS
  Limit = 16
  RegIdx = {0, 1, 2, 3}
  P = 3
  Opcodes = {"|", "-"}
  OP_BITWISE_OR = "|"
  Op <- OpOn
  Fields <- JitLayout
  Threshold = 2
  Images <- StoringPrograms
  Start = 2
  Junk = {0, 13}
  None = None
PROPERTIES
  StoresP
