SPECIFICATION Spec
CHECK_DEADLOCK FALSE
CONSTANTS
    Client = {c1, c2}
    Caller = {c1}
    Bounds <- MCBounds
    MaxRefs = 2
INVARIANT NeededIsLoaded
PROPERTY PrintedInOrder
PROPERTY SetArrayReturns
