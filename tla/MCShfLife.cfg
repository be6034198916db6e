CONSTANTS
  Procs = {p1, p2}
  Deleters = {p1}
  MaxDirs = 2
SPECIFICATION Spec
INVARIANTS WholeAtName TablesCounted
PROPERTIES NoNeedlessEnd DeletedUponExit
CHECK_DEADLOCK FALSE
