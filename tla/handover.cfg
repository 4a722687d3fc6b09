SPECIFICATION FairSpec
CONSTANTS
    None = None
    Calls = {k1, k2}
    Tch = {t1}
    RefSpace = 4
    Resends = 2
    Restless = {k1}
    MaxRequests = 2
    PromptNet = TRUE
CHECK_DEADLOCK FALSE
INVARIANTS
    TypeOK
    RightCall
    DialogFollows
PROPERTIES
    HeldIsReleased
