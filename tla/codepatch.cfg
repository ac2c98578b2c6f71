\* From the moment the image is unpacked: a CRT start that runs alone until
\* WinMain, and one that races with a second thread (cfg.earlyThreads).
CONSTANTS
  Main = m
  Thread = {m, t1}
  NumSites = 6
  KindOf <- KindsTwoLanguage
  Image <- ImageTwoLanguage
  Languages = {0, 7}
SPECIFICATION Spec
INVARIANTS OwnPatchOnly QuietMeansPatched NoMixedExecution SoloIInv
PROPERTIES SettledForGood CodeFrozenWhenRunning DetourReturns
