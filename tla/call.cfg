SPECIFICATION Spec
CONSTANTS
    MaxFaults = 1
CHECK_DEADLOCK FALSE
INVARIANTS
    TypeOK
    BothPartiesAreThere
    PeerIsHungUp
    L3IsTold
PROPERTIES
    HangingUpEndsIt
