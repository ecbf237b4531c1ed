SPECIFICATION Spec
CHECK_DEADLOCK FALSE
CONSTANTS
    Thread = {t1, t2}
    t1 = t1
    t2 = t2
    Nobody = Nobody
    Pollers = {t1}
    Calls <- MCCalls
    MaxOneway = 1
    MaxFaults = 1
INVARIANT MutexKept
INVARIANT PendingIsRegistered
INVARIANT OwnReply
PROPERTY AnsweredIsNotSent
PROPERTY EveryWaitEnds
