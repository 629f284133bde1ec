\* A pipe of 8 holds the methods of an iteration and the first of the next.
CONSTANTS
  Bits = 2
  ValidMasks = 2
  PipeDepth = 8
SPECIFICATION Spec
INVARIANTS TypeOK PrintsOwnMask NoStoreUnderTheRsx
PROPERTY Termination
\* Main returns.
CHECK_DEADLOCK FALSE
