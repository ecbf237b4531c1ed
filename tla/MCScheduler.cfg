SPECIFICATION Spec
CONSTANTS
  a = a  b = b  c = c
  FIRST = FIRST
  NIL = NIL
  Routine <- MCRoutine
  Trapped <- MCTrapped
  Delays <- MCDelays
  MaxTime = 3
  TicksPerSecond = 1
  SelfCalls = {}
  MayRaise = FALSE
  RunLimits <- NoLimits
INVARIANTS TypeOK NeverInBoth PlaceKept SleepersInOrder NobodyForgotten CycleServesAll
PROPERTY SwitchIsImmediate
