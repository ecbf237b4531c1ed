SPECIFICATION Spec
CONSTANTS
  a = a  b = b  c = c  d = d
  FIRST = FIRST
  NIL = NIL
  Element <- MCElement
SYMMETRY MCSymmetry
INVARIANT WellLinked
PROPERTY ImplementsSequence
