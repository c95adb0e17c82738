CONSTANTS
  Files <- MCFilesMalformed
  Workers = {w1, w2}
  Records <- MCRecords
INIT Init
NEXT Next
\* process is called once per record: the run ends when all are done.
CHECK_DEADLOCK FALSE
INVARIANT
  ProcessTagsAsListed
