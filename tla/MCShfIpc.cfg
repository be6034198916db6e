CONSTANTS
  A = A
  B = B
  Procs = {A, B}
  qs = 3
  q_items = 5
  qids_nolock_max <- ThreeAndTwo
  Named = {0, 1, 2}
  TestPullItems = 12
SPECIFICATION IpcSpec
INVARIANTS IpcTypeOK SameQueues GunAfterAll NobodyFails
PROPERTIES BothEnd
