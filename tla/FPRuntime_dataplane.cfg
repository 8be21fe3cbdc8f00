\* The dataplanes left to themselves: losses on every link, a candidate crashes or shuts itself down.
SPECIFICATION FairSpec
CONSTANTS
    SeqMod = 4
    NumStates = 3
    NakMax = 2
    AckInterval = 1
    ExceedMax = 1
    CountFlags = {FALSE}
    LinkCap = 1
    MaxLoss <- TwoThenOneLoss
INVARIANTS NaksBoundedByLosses
PROPERTIES NoPrematureFailover OffIsFinal LeavesDeadCandidate
