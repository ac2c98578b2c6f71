CONSTANTS
  Thread = {t1, t2}
  Target = {f, g}
  Above = {g}
  Called = {f, g}
  Slot = {s1, s2}
  AllHooks = all
  None = none
  Ops <- EnablingOps
  Failures <- AnsweredFailures
SPECIFICATION Spec
INVARIANTS NoStrayThread
PROPERTIES WrittenInOneGo EverybodyRunsAgain
