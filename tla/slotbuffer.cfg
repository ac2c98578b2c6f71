SPECIFICATION Spec
CONSTANTS
  Block = {b1, b2, b3}
  BlockSlots = 3
  NULL = NULL
  Code = Code
INVARIANTS ListsIntact NothingLeaked
PROPERTIES TrampolinesStay GrowsOnlyWhenFull PoolSpec
