\* One file, no rotation, truncation or unlink: what Stop() guarantees.
CONSTANTS
  MaxInodes = 1
  MaxTruncations = 0
  MaxWrites = 4
  BufSize = 2
  AllowRemove = FALSE
  AllowEstale = FALSE
  RaceWithNew = FALSE
  LinesCap = 1
  ConsumerMayStop = FALSE
SPECIFICATION Spec
INVARIANT StopDrainsFromWait
PROPERTY StopCompletes
PROPERTY CancelEndsStream
PROPERTY RefinesLogSource
\* The stream goroutine returns once stopped, cancelled or deleted, and the
\* environment's steps are bounded: the system really stops.
CHECK_DEADLOCK FALSE
