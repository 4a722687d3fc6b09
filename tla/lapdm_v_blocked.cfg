SPECIFICATION Spec
CONSTANTS
  BTS = BTS
  MS = MS
  N200 = 1
  Modulus = 4
  MaxSegs = 2
  MaxTx = 2
  MaxAsks = 2
  MaxStrays = 0
  PromptRadio = TRUE
  QuietStart = TRUE
  ChanCap = 2
  Initiators <- OnlyMS
  Writers <- Both
  Releasers <- OnlyMS
  HardReleasers = {}
  SabmInfo <- NoInfo
  Strays = {}
INVARIANT
  BlockedIsTimed
CHECK_DEADLOCK FALSE
