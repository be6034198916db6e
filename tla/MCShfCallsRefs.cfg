CONSTANTS
  Reader1 = r1
  Reader2 = r2
  Writer = w
  Procs = {r1, r2}
  Keys = {"k1", "k2"}
  RefsPerRow = 2
  LongMod = 3
  Calls <- TwoCounters
SPECIFICATION Spec
PROPERTY DeletesAtZero
CHECK_DEADLOCK FALSE
