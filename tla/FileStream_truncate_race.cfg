\* One truncation of the pathname, no rotation: a writer that refills the
\* file past the reader's offset before the reader stats it.
CONSTANTS
  MaxInodes = 1
  MaxTruncations = 1
  MaxWrites = 5
  BufSize = 2
  AllowRemove = FALSE
  AllowEstale = FALSE
  RaceWithNew = FALSE
  LinesCap = 1
  ConsumerMayStop = FALSE
SPECIFICATION Spec
INVARIANT LinesAreWritten
CHECK_DEADLOCK FALSE
