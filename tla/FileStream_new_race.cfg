\* One rotation while New runs: between New's os.Stat and the open in
\* newFileStream's stream.
CONSTANTS
  MaxInodes = 2
  MaxTruncations = 0
  MaxWrites = 2
  BufSize = 2
  AllowRemove = FALSE
  AllowEstale = FALSE
  RaceWithNew = TRUE
  LinesCap = 1
  ConsumerMayStop = FALSE
SPECIFICATION Spec
INVARIANT NoDuplicateOrReorder
CHECK_DEADLOCK FALSE
