CONSTANTS
  Procs = {p1, p2}
  qs = 3
  q_items = 3
  qids_nolock_max <- TwoEach
  Named = {0, 1}
SPECIFICATION Spec
SYMMETRY Symm
INVARIANTS ListsSound NoItemTwice
PROPERTY ImplementsBatchQueue
