CONSTANT Tests <- AllTests
SPECIFICATION Spec
INVARIANTS TypeOK
PROPERTIES EndsAsDescribed
\* Main returns, or joins for ever.
CHECK_DEADLOCK FALSE
