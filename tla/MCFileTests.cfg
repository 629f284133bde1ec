\* Ten slots as in the code.  A size of 10 is more than any mapped memory and any
\* file that is not written for ever, and stands for UINT64_MAX.
CONSTANTS
  Tests <- AllTests
  Count = 10
  FirstFd = 3
  LastFd = 20
  MaxSize = 10
  GameEntries = 4
SPECIFICATION Spec
INVARIANTS TypeOK DescriptorsReused LeavesAsDescribed
PROPERTY EndsAsOnTheConsole
\* Main returns.
CHECK_DEADLOCK FALSE
