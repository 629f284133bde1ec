\* Every test but image in.  A pipe of 4 lets the front end run past a fence.
CONSTANTS
  Tests <- FencedOnce
  PipeDepth = 4
SPECIFICATION Spec
INVARIANTS TypeOK ReadsOnlyWhatIsRecorded
PROPERTIES FenceFences AsOnTheConsole
\* Main returns, or the RSX stops.
CHECK_DEADLOCK FALSE
