SPECIFICATION Spec
CONSTANTS
  BTS = BTS   MS = MS
  N200 = 1   Modulus = 2   MaxSegs = 1   MaxTx = 1   MaxAsks = 2   MaxStrays = 2
  PromptRadio = TRUE   QuietStart = FALSE   ChanCap = 2
  Initiators <- OnlyBTS   Writers <- OnlyBTS   Releasers <- OnlyBTS   HardReleasers <- OnlyBTS
  SabmInfo <- WithInfo   Strays <- SomeStrays
INVARIANTS
  
  AwaitingIsTimed
CHECK_DEADLOCK FALSE
