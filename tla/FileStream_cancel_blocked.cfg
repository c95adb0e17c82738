\* A consumer that stops reading once the context is cancelled, and a
\* lines channel of one line: a sendLine after the cancellation blocks.
CONSTANTS
  MaxInodes = 1
  MaxTruncations = 0
  MaxWrites = 2
  BufSize = 2
  AllowRemove = FALSE
  AllowEstale = FALSE
  RaceWithNew = FALSE
  LinesCap = 1
  ConsumerMayStop = TRUE
SPECIFICATION Spec
PROPERTY CancelEndsStream
CHECK_DEADLOCK FALSE
