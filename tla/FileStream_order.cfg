\* Truncation, one rotation, unlink and re-create of the pathname, with Stop
\* and cancellation: the order and uniqueness of the emitted bytes.
CONSTANTS
  MaxInodes = 2
  MaxTruncations = 1
  MaxWrites = 4
  BufSize = 2
  AllowRemove = TRUE
  AllowEstale = FALSE
  RaceWithNew = FALSE
  LinesCap = 1
  ConsumerMayStop = FALSE
SPECIFICATION Spec
INVARIANT TypeOK
INVARIANT NoDuplicateOrReorder
\* The stream goroutine returns once stopped, cancelled or deleted, and the
\* environment's steps are bounded: the system really stops.
CHECK_DEADLOCK FALSE
