\* Up to six blocks on two block numbers, two changes.
SPECIFICATION Spec
CONSTANTS
    Params <- MCParams
    MaxBlock = 2
    NbSlots = 6
    MaxData = 6
    LinkCap = 1
    MaxBurst = 2
    MaxChanges = 2
INVARIANTS TypeOK HarmIsConfined LossesAreRecovered FilledInOrder
CHECK_DEADLOCK FALSE
