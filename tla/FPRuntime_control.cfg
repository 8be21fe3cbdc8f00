\* Everything: losses, crashes, and the control program at any time.
SPECIFICATION Spec
CONSTANTS
    SeqMod = 4
    NumStates = 2
    NakMax = 2
    AckInterval = 1
    ExceedMax = 1
    CountFlags = {FALSE}
    LinkCap = 1
    MaxLoss <- NoLoss
INVARIANTS TypeOK DetectionBound
