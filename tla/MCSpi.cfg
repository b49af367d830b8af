SPECIFICATION Spec
CONSTANTS
  WordBits = 1
  InitCycles = 1
  Insts = {0, 1}
  Kind <- Slots
  Dividers = {0, 1}
  ResetDivider = 1
INVARIANTS
  TypeOK
  GoMirrorsState
  FullDuplex
  LineFollowsSS
PROPERTIES
  RegistersFrozen
  TransferCompletes
