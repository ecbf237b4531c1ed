SPECIFICATION FairSpec
CONSTANTS
  a = a  b = b  c = c
  FIRST = FIRST
  NIL = NIL
  Routine <- MCRoutine
  Trapped <- NoTrap
  Delays <- MCDelayZeroOne
  MaxTime = 2
  TicksPerSecond = 1
  SelfCalls = {}
  MayRaise = TRUE
  RunLimits <- NoLimits
PROPERTIES ReadyIsExecuted SleeperWakes
