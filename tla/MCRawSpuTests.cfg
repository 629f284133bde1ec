CONSTANT Tests <- AllTests
SPECIFICATION Spec
INVARIANTS TypeOK AsOnTheConsole
PROPERTY EndsAsDescribed
\* Main returns, or waits for ever.
CHECK_DEADLOCK FALSE
