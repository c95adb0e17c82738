CONSTANTS
  Wakees <- MCWakees
  N = 3
  Afters = {3}
  MaxCalls = 3
SPECIFICATION Spec
\* After the last wakeFunc call the helpers of the last Wake calls block on
\* wakeeDone for the rest of the test: the system stops there.
CHECK_DEADLOCK FALSE
INVARIANTS
  TypeOK
  AwakenSettled
PROPERTIES
  AwakenReturns
  CancelReleasesAll
