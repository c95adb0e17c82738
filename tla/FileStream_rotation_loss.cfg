\* One rotation, the writer reopening late: lines written to the old inode after the reader has moved on.
CONSTANTS
  MaxInodes = 2
  MaxTruncations = 0
  MaxWrites = 4
  BufSize = 2
  AllowRemove = FALSE
  AllowEstale = FALSE
  RaceWithNew = FALSE
  LinesCap = 1
  ConsumerMayStop = FALSE
SPECIFICATION Spec
INVARIANT StopDrainsFromWait
CHECK_DEADLOCK FALSE
