CONSTANTS
  Procs = {p1, p2}
  Keys = {"k1", "k3"}
  TabsPerWin = 2
  Rows = 1
  RefsPerRow = 1
  HashTab2 <- MCHashTab2
  HashRow <- MCHashRow
  Lens = {1, 6}
  LongLen = 6
  Nums = {0, 1}
  Puts <- TwoLens
  Targets <- MCUids
  Page = 4
  Hdr = 1
  Iterators = {}
SPECIFICATION WalkSpec
SYMMETRY Symm
INVARIANTS MappingsCatchUp LookupsAgree MappedBytesExist DetachUnmapsAll
PROPERTY ImplementsKvStore
CHECK_DEADLOCK FALSE
