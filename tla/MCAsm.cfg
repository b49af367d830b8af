CONSTANTS
  Limit = 64
  l = l
  m = m
  p = p
  q = q
  s1 = s1
  t = t
  u = u
  v1 = v1
  x = x
  Names = {l, m, p, q, s1, t, u, v1, x}
  NoName = NoName
  None = None
  BadFile = BadFile
  Pending = Pending
  Failed = Failed
  InitWords = 16
  Junk = {0, 9}
  Programs <- AllPrograms
  Closed = {"whole"}
SPECIFICATION Spec
INVARIANTS
  TypeOK
  AssemblesRight
  Verdict
