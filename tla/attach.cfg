CONSTANTS
  PageBytes = 8
  Size = 10
  Top = 22
  SizeLimit = 64
  Source <- SmallSource
  Beyond <- SmallBeyond
  Windirs <- SmallWindirs
  Unset = unset
  Stacks <- SmallStacks
  Loader = loader
  AllHooks = all
  Forwarded = {send, recv}
  Program = {gg, other}
  GameGuardDes = gg
SPECIFICATION Spec
\* The game may crash, and its process ends.
CHECK_DEADLOCK FALSE
INVARIANTS NoLoneProcessHook GameGuardStaysOff NoNullOriginal WordReadsStay PathFits ForwardingWorks
PROPERTIES StackIntact
