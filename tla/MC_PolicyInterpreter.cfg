CONSTANTS
  Records <- MCRecords
  Concurrency = 2
  Rules <- MCRules
  Filters <- MCFilters
  Eval <- MCEval
  SpecEval <- MCEval

SPECIFICATION Spec

INVARIANT TypeOK
INVARIANT ForwardedAsPolicySays
INVARIANT StopWorkersDrains

PROPERTY RefinesPolicyEngine
PROPERTY EveryRecordProcessed
PROPERTY StopWorkersReturns

\* After StopWorkers has returned every worker has exited: the pool stops.
CHECK_DEADLOCK FALSE
