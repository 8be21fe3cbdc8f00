\* NAKs of an abandoned candidate are counted against its successor.
SPECIFICATION DataplaneSpec
CONSTANTS
    SeqMod = 16
    NumStates = 3
    NakMax = 2
    AckInterval = 1
    ExceedMax = 1
    CountFlags = {FALSE}
    LinkCap = 2
    MaxLoss <- OneLoss
INVARIANT NakCountsAgree
