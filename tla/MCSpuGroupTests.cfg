CONSTANT Tests <- AllTests
SPECIFICATION Spec
INVARIANTS TypeOK AsOnTheConsole ShowsThisRun
PROPERTY EndsOrWaits
\* Main returns, or joins for ever.
CHECK_DEADLOCK FALSE
