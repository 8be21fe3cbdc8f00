\* Losses of up to MaxBlock * (K + H) - 1 frames in a row.
SPECIFICATION Spec
CONSTANTS
    K = 2
    H = 1
    MaxBlock = 2
    T = 2
    MaxData = 6
    LinkCap = 0
    MaxBurst = 5
INVARIANTS TypeOK LossesAreRecovered TagIsFree Deadline
PROPERTY ImplementsChannel
CHECK_DEADLOCK FALSE
