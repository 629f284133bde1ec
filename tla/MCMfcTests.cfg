CONSTANTS Tests <- AllTests
          QueueDepth = 16
          Polls = 8
SPECIFICATION Spec
INVARIANTS TypeOK AckAfterEveryStall
PROPERTY EndsAsOnTheConsole
\* Main returns, or joins for ever.
CHECK_DEADLOCK FALSE
