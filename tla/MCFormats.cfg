SPECIFICATION Spec
CONSTANTS
  Regs = 2
  Small = 2
  Medium = 4
  Half = 8
  Jobs <- MCJobs
  Garbage = Garbage
  Strays = {0, 1, 20}
INVARIANTS
  TypeOK
  Cycle
  Loads
