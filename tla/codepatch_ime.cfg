\* What the IME patch stores against what the comment beside it says.
CONSTANTS
  Main = m
  Thread = {m}
  NumSites = 6
  KindOf <- KindsTwoLanguage
  Image <- ImageTwoLanguage
  Languages = {0, 7}
SPECIFICATION Spec
INVARIANTS ImeCallsPatchedCall
