\* One file, no rotation, truncation or unlink: a Stop() that arrives between
\* the EOF stat and the Sleep select.
CONSTANTS
  MaxInodes = 1
  MaxTruncations = 0
  MaxWrites = 4
  BufSize = 2
  AllowRemove = FALSE
  AllowEstale = FALSE
  RaceWithNew = FALSE
  LinesCap = 1
  ConsumerMayStop = FALSE
SPECIFICATION Spec
INVARIANT StopDrains
CHECK_DEADLOCK FALSE
