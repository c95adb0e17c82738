\* Reproduction: once the tailer may stop the stream, awaken(1) need not
\* return.  A stream stopped before its first wait never calls Wake, so the
\* init goroutine never receives its wakeeDone and wakeFunc blocks on
\* initDone; a stream stopped later never re-enters Wake after the
\* broadcast.  TLC reports AwakenReturnsAfterStop violated.
CONSTANTS
  MaxInodes = 1
  MaxTruncations = 0
  MaxWrites = 4
  BufSize = 2
  AllowRemove = FALSE
  AllowEstale = FALSE
  RaceWithNew = FALSE
  LinesCap = 4
  ConsumerMayStop = FALSE
  Afters = {1}
  MaxCalls = 3
SPECIFICATION Spec
PROPERTY AwakenReturnsAfterStop
CHECK_DEADLOCK FALSE
