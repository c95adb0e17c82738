CONSTANTS
  Records <- MCRecords
  Concurrency = 2
  Rules <- MCRules
  Filters <- MCFilters
  Eval <- CodeEval
  SpecEval <- PolicyEval

SPECIFICATION Spec

INVARIANT ForwardedAsPolicySays

CHECK_DEADLOCK FALSE
