\* Word 0 is 32 bits wide in the code: with 4 values it wraps around often.
CONSTANTS
  Word = 4
SPECIFICATION Spec
INVARIANTS
  TypeOK
  EventsAsExpected
  EventMustBeRecorded
PROPERTIES
  NoLostUpdate
  Termination
\* The program ends.
CHECK_DEADLOCK FALSE
