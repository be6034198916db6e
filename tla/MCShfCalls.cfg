CONSTANTS
  Reader1 = r1
  Reader2 = r2
  Writer = w
  Procs = {r1, w}
  Keys = {"k1", "k2"}
  RefsPerRow = 2
  LongMod = 3
  Calls <- OneReader
SPECIFICATION Spec
INVARIANTS  NothingLost 
PROPERTY DeletesAtZero
