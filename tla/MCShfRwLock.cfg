CONSTANTS
  Procs = {p1, p2, p3}
  TicketSize = 3
SPECIFICATION FairSpec
INVARIANTS TypeOK MutualExclusion PadHoldsOneCarry LockInv
PROPERTIES ImplementsRwLock NoStarvation
