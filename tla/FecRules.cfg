\* At most one rule deleted: the slots are a map.
SPECIFICATION Spec
CONSTANTS
    k1 = k1
    k2 = k2
    k3 = k3
    c1 = c1
    c2 = c2
    Keys <- MCKeys
    Classes <- MCClasses
    ZeroKey = ZeroKey
    Params = {p}
    TCLASS_NULL = TCLASS_NULL
    NoRule = NoRule
    NoKey = NoKey
    NoParams = NoParams
    MAX_RULES = 3
    FirstBytes <- MCFirstBytes
    MaxDeletes = 1
INVARIANTS TypeOK OnlyDefinedClasses
PROPERTIES SetWins ImplementsTable
