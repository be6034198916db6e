CONSTANTS
  Keys = {"k1", "k2"}
  Refs = 3
  fixed_len = 4
  U32 = 4
SPECIFICATION Spec
INVARIANT RecordsIntact
