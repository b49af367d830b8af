SPECIFICATION Spec
CONSTANTS
  Limit = 32
  x = x
  y = y
  z = z
  Names = {x, y, z}
  NoName = NoName
  BadFile = BadFile
  Pending = Pending
  Failed = Failed
  Inputs <- LinkInputs
  Closed = {"whole"}
INVARIANTS
  TypeOK
  PackedAtOffset
PROPERTIES
  LinksAsPromised
  Exits
