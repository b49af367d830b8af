SPECIFICATION Spec
CONSTANTS
  Limit = 28
  SERIAL_BASE = 2
  SDLLED_BASE = 4
  RAM_BASE = 8
  RAM_END = 11
  SDLVGA_BASE = 12
  VgaLength = 2
  PageWords = 2
  Cells = 1
  LedValues = 2
  PumpCycles = 2
  Slots = 2
  Word = {0, 1, 3}
  RamFill = 1
  SparseFill = 3
  Options <- AllOptions
  CommandLines <- MCCommandLines
  Libraries = {"sdlled", "sdlvga"}
  JitLibraries = {"found", "hollow", "missing"}
  Accesses = {2, 4, 9, 12}
  Targets = {8, 27}
  MaxEvents = 2
  MaxImpls = 2
  Characters = 1
  Values = {0, 3}
INVARIANTS
  TypeOK
  Reachable
  Coherent
  PluginsOnce
PROPERTIES
  QuitHeard
  EndHeard
