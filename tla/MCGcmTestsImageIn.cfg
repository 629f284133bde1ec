\* The test with two fences.
CONSTANTS
  Tests <- FencedTwice
  PipeDepth = 4
SPECIFICATION Spec
PROPERTY FenceFences
CHECK_DEADLOCK FALSE
