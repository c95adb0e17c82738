\* One stream on one file, four bytes, the test calling awaken(1) three times;
\* the tailer may stop the stream at any time.  The lines channel has the
\* test's capacity: it never fills.
CONSTANTS
  MaxInodes = 1
  MaxTruncations = 0
  MaxWrites = 4
  BufSize = 2
  AllowRemove = FALSE
  AllowEstale = FALSE
  RaceWithNew = FALSE
  LinesCap = 4
  ConsumerMayStop = FALSE
  Afters = {1}
  MaxCalls = 3
SPECIFICATION Spec
INVARIANT AwakenDelivers
PROPERTY AwakenReturns
\* After the last awaken the stream waits for a wake-up that never comes.
CHECK_DEADLOCK FALSE
