\* Any losses, three frames on the link.
SPECIFICATION Spec
CONSTANTS
    f1 = f1
    f2 = f2
    Flows = {f1, f2}
    NoFlow = NoFlow
    Slots = {0}
    SlotOf <- MCSlotOf
    FixedOf <- MCFixedOf
    Numbers = {1, 2}
    InSwitch = TRUE
    LinkCap = 3
    Lossy = TRUE
INVARIANTS TypeOK FieldsAreRight CachesAgree
