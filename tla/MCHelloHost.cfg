SPECIFICATION HostSpec
CONSTANTS
    Hello = Hello
    wrappedHello = wrappedHello
    Class = {Hello}
    Actual = {wrappedHello}
    Method <- MCMethod
    ClassOf <- MCClassOf
    MaxExports = 1
    Opened <- MCOpened
    Message = {"Ann", "Bob"}
    MaxSays = 3
INVARIANTS
    HandlerInPlace
    OwnArguments
    RepliesAreRight
CHECK_DEADLOCK FALSE
