SPECIFICATION Spec
CONSTANTS
  PlainLength = {1, 2, 3, 15}
  Outside = {5, 200}
  NoDest = NoDest
  SlotAt = 64
INVARIANT BranchesFaithful
CHECK_DEADLOCK FALSE
