CONSTANTS
  Keys = {"k1"}
  Refs = 6
  fixed_len = 8
  U32 = 4
SPECIFICATION Spec
INVARIANTS RecordsIntact FreeListSound
