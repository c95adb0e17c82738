\* Two rotations in a row: the pathname replaced between the stat and the open.
CONSTANTS
  MaxInodes = 3
  MaxTruncations = 0
  MaxWrites = 3
  BufSize = 2
  AllowRemove = FALSE
  AllowEstale = FALSE
  RaceWithNew = FALSE
  LinesCap = 1
  ConsumerMayStop = FALSE
SPECIFICATION Spec
INVARIANT NoDuplicateOrReorder
CHECK_DEADLOCK FALSE
