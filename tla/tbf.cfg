SPECIFICATION FairSpec
CONSTANTS
  Handsets = {a, b}
  Uplinkers = {a}
  Pdchs = {p1}
  Tfis = {f1, f2}
  Usfs = {1}
  Tbfs = {1, 2, 3}
  AssignMax = 1
  CcchAfter = 1
  N3103Max = 1
  ReleaseMax = 0
  Budgets <- SomeBudgets
  Gaps = FALSE
  None = None
INVARIANTS
  TypeOK
  OneActive
  TfisAgree
  NoCrossTalk
CHECK_DEADLOCK FALSE
PROPERTY AllIsReturned
