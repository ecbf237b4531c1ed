SPECIFICATION IOSpec
CONSTANTS
  a = a  b = b  r1 = r1  w1 = w1
  FIRST = FIRST
  NIL = NIL
  Routine <- MCRoutine
  Trapped <- NoTrap
  Delays <- MCDelays
  MaxTime = 2
  TicksPerSecond = 1
  SelfCalls = {}
  MayRaise = FALSE
  RunLimits <- NoLimits
  Side <- MCSide
  Operations = {"transfer", "accept", "select"}
  Timeouts <- MCTimed
  Partial = TRUE
  Interrupts = {"remove", "resume"}
INVARIANTS ListedOnce LocksMatchCalls NobodyLost
