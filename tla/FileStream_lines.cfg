\* Rotation, unlink, re-create and ESTALE reads without truncation, also
\* while New runs, with Stop and cancellation: every sent line is a written
\* line.
CONSTANTS
  MaxInodes = 2
  MaxTruncations = 0
  MaxWrites = 5
  BufSize = 2
  AllowRemove = TRUE
  AllowEstale = TRUE
  RaceWithNew = TRUE
  LinesCap = 1
  ConsumerMayStop = TRUE
SPECIFICATION Spec
INVARIANT LinesAreWritten
\* The stream goroutine returns once stopped, cancelled or deleted, and the
\* environment's steps are bounded: the system really stops.
CHECK_DEADLOCK FALSE
