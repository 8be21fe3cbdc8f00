\* No losses, and a flow whose fixed fields change.
SPECIFICATION Spec
CONSTANTS
    f1 = f1
    f2 = f2
    Flows = {f1, f2}
    NoFlow = NoFlow
    Slots = {0}
    SlotOf <- MCSlotOf
    FixedOf <- MCFixedChanges
    Numbers = {1, 2}
    InSwitch = TRUE
    LinkCap = 2
    Lossy = FALSE
INVARIANT OutputIsInput
