SPECIFICATION Spec
CONSTANTS
  Thread <- MCThread
  File <- MCFile
  NoSource <- MCNoSource
  Root <- MCRoot
  Place <- MCPlace
  Counts <- MCCounts
  MaxDepth <- MCMaxDepth
  MaxDrift = 0
CONSTRAINT OneConcern
INVARIANTS LevelsAreExact NothingPassed UserBreakpointsKept
PROPERTIES StaysOut AddressIsOfCall
CHECK_DEADLOCK FALSE
