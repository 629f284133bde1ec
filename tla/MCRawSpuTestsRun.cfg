CONSTANT Tests <- ShortThread
SPECIFICATION Spec
PROPERTY RunIsSeen
CHECK_DEADLOCK FALSE
