SPECIFICATION Spec
CONSTANTS
    c1 = c1
    c2 = c2
    a1 = a1
    a2 = a2
    Class = {c1, c2}
    Actual = {a1, a2}
    Method <- MCMethod
    ClassOf <- MCClassOf
    MaxExports = 4
INVARIANTS
    OwnEntry
PROPERTIES
    OnlyLiveObjectsAreCalled
CHECK_DEADLOCK FALSE
