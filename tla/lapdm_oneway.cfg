SPECIFICATION FairSpec
CONSTANTS
  BTS = BTS
  MS = MS
  N200 = 0
  Modulus = 2
  MaxSegs = 2
  MaxTx = 2
  MaxAsks = 3
  MaxStrays = 0
  PromptRadio = TRUE
  QuietStart = TRUE
  ChanCap = 2
  Initiators <- OnlyMS
  Writers <- OnlyBTS
  Releasers <- Both
  HardReleasers = {}
  SabmInfo <- WithInfo
  Strays = {}
INVARIANTS
  TypeOK
  OneOutstanding
  BlockedIsTimed
PROPERTY
  CallsReturn
CHECK_DEADLOCK FALSE
