SPECIFICATION Spec
CONSTANTS
    Sdcch = {s1}
    Tch = {t1}
    RachPool = {s1}
    Mobiles = {m1}
    Contexts = {x1, x2}
    Noisy = {}
    MaxRach = 1
    MaxQueue = 1
    PromptThreads = TRUE
    PromptCall = FALSE
SYMMETRY Alike
CHECK_DEADLOCK FALSE
INVARIANTS
    GrantIsHeld
    ContextIsServed
