CONSTANTS
  Procs = {p1}
  Keys = {"k1", "k2", "k4"}
  TabsPerWin = 3
  Rows = 1
  RefsPerRow = 2
  HashTab2 <- MCHashTab2
  HashRow <- MCHashRow
  Lens = {1, 6}
  LongLen = 6
  Nums = {0}
  Puts <- LongAndShort
  Targets <- MCKeys
  Page = 8
  Hdr = 1
  Iterators = {p1}
SPECIFICATION WalkSpec
INVARIANTS RefsFollowRedirects DataSound PassMissesNothing
PROPERTIES RecordsLeaveByDelete OverflowOnlyWhenOverloaded
CHECK_DEADLOCK FALSE
