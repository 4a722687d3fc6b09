SPECIFICATION Spec
CONSTANTS
    Sdcch = {s1}
    Tch = {}
    RachPool = {s1}
    Mobiles = {m1, m2}
    Contexts = {x1}
    Noisy = {s1}
    MaxRach = 2
    MaxQueue = 2
    PromptThreads = TRUE
    PromptCall = TRUE
CHECK_DEADLOCK FALSE
INVARIANTS
    TypeOK
    Watched
    SilentBeforeReuse
    NoReuseUnderfoot
    GrantIsHeld
PROPERTIES
    LostIsRecycled
