\* transition_state writes the successor of a state that it read earlier.
SPECIFICATION TransitionsSpec
CONSTANTS
    SeqMod = 16
    NumStates = 3
    NakMax = 2
    AckInterval = 1
    ExceedMax = 1
    CountFlags = {FALSE}
    LinkCap = 1
    MaxLoss <- NoLoss
PROPERTY SequentialTransitions
