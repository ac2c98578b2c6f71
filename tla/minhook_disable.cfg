CONSTANTS
  Thread = {t1, t2}
  Target = {f}
  Above = {f}
  Called = {f}
  Slot = {s1}
  AllHooks = all
  None = none
  Ops = {"Initialize", "Create", "Enable", "Disable"}
  Failures = {}
SPECIFICATION Spec
INVARIANTS NoStrayThread
