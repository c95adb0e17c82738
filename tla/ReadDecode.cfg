\* 'a', newline, carriage return and the two bytes of U+00E9 (C3 A9): a
\* rune split by the writer's writes or by the read buffer's end.
CONSTANTS
  Bytes = {97, 10, 13, 195, 169}
  MaxBytes = 4
  BufSize = 2
SPECIFICATION Spec
INVARIANT LinesAsDecoded
\* The writer's bytes are bounded: the file stops growing.
CHECK_DEADLOCK FALSE
