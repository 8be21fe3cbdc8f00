\* Two keys of one slot, a loss.
SPECIFICATION FairSpec
CONSTANTS
    Keys = {k1, k2}
    NoKey = NoKey
    Slots = {0}
    SlotOf <- MCSlotOf
    MaxRequests = 4
    MaxLoss = 1
INVARIANTS TypeOK ValueOfTheKey CoherentWhenQuiet NeverStale
PROPERTY EveryRequestAnswered
CHECK_DEADLOCK FALSE
