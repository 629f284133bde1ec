\* to_repeat is 500 in the code.  With two tries and two losses a test succeeds
\* at once, succeeds the second time, or loses the reservation in every try.
CONSTANTS
  ToRepeat = 2
  MaxLosses = 2
SPECIFICATION Spec
INVARIANTS
  TypeOK
  NoFalseSuccess
  HelperQuiet
PROPERTIES
  ResultsAsExpected
  RemoteCallSpec
  Termination
\* The program ends; Termination shows that it does not stop before.
CHECK_DEADLOCK FALSE
