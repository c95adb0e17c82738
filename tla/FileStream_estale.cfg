\* One rotation with ESTALE reads: the stream re-opened with its old FileInfo.
CONSTANTS
  MaxInodes = 2
  MaxTruncations = 0
  MaxWrites = 3
  BufSize = 2
  AllowRemove = FALSE
  AllowEstale = TRUE
  RaceWithNew = FALSE
  LinesCap = 1
  ConsumerMayStop = FALSE
SPECIFICATION Spec
INVARIANT NoDuplicateOrReorder
CHECK_DEADLOCK FALSE
