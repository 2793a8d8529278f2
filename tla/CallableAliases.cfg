SPECIFICATION Spec
CONSTANTS
  Global = Global Unborn = Unborn Gone = Gone Idle = Idle
  t1 = t1 t2 = t2 m1 = m1 r1 = r1 p1 = p1 p2 = p2
  Teams = {t1, t2}
  Models = {m1}
  Routers = {r1}
  Procs = {p1, p2}
  Names <- MCNames
  Channels = {"active"}
  Label = "src"
  MaxRevs = 2
  MaxSuffix = 2
CONSTRAINT MCBound
SYMMETRY MCSymmetry
CHECK_DEADLOCK FALSE
INVARIANT RegistryKept
PROPERTIES CallersKeepAliases HistoryKept
