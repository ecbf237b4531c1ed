SPECIFICATION IOFairSpec
CONSTANTS
  a = a  b = b  r1 = r1  w1 = w1
  FIRST = FIRST
  NIL = NIL
  Routine <- MCRoutine
  Trapped <- NoTrap
  Delays <- MCDelays
  MaxTime = 2
  TicksPerSecond = 1
  SelfCalls = {}
  MayRaise = FALSE
  RunLimits <- NoLimits
  Side <- MCOneSide
  Operations = {"transfer", "accept", "select"}
  Timeouts <- MCTimeouts
  Partial = FALSE
  Interrupts = {}
INVARIANT TimeoutIsTrue
PROPERTIES ReadySocketIsServed TimedCallReturns
