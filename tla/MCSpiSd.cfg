SPECIFICATION Spec
CONSTANTS
  Req = 9
  TypeBits = 3
  Types = {0, 1, 2, 3}
  GO_IDLE_STATE = 0
  SEND_OP_COND = 1
  SET_BLOCKLEN = 2
INVARIANTS
  TypeOK
  InStep
  ReadyLate
PROPERTIES
  KeepsContract
  PowersUp
  GetsReady
