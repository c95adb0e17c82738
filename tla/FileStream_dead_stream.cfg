\* Rotation followed by an unlink: the pathname missing when the new stream opens it.
CONSTANTS
  MaxInodes = 2
  MaxTruncations = 0
  MaxWrites = 2
  BufSize = 2
  AllowRemove = TRUE
  AllowEstale = FALSE
  RaceWithNew = FALSE
  LinesCap = 1
  ConsumerMayStop = FALSE
SPECIFICATION Spec
PROPERTY StopCompletes
CHECK_DEADLOCK FALSE
