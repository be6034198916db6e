CONSTANTS
  Procs = {p1, p2}
  Owner = p1
  Size = 3
  Threshold = 2
  PrefixLen = 1
  BodyLen = 1
  IdMod = 3
  Printers = {p2}
  PrintMax = 1
  MaxLines = 3
SPECIFICATION FairSpec
INVARIANTS  DelFlushes TidsUnique
PROPERTIES  AppendsReturn DelReturns
CHECK_DEADLOCK FALSE
