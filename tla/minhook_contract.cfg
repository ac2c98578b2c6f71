CONSTANTS
  Thread = {t1, t2}
  Target = {f, g}
  Above = {g}
  Called = {}
  Slot = {s1, s2}
  AllHooks = all
  None = none
  Ops <- AllOps
  Failures <- AllFailures
SPECIFICATION Spec
SYMMETRY Symmetry
INVARIANTS SlotsAccountedFor CodeMatchesEntries
PROPERTIES ContractSpec
