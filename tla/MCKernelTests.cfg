\* A queue of 2 fills up; two events are one for the receiver and one that is late.
CONSTANTS
  Tests <- AllTests
  QueueDepth = 2
  MaxExpiries = 2
  Objects = 6
  Events = 3
  Slots = {1, 2, 3}
  Generations = 2
SPECIFICATION Spec
INVARIANTS TypeOK AsOnTheConsole NamesCreatedThreads
PROPERTY EndsOrWaits
\* Main returns, or joins for ever.
CHECK_DEADLOCK FALSE
