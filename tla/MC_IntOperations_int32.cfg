CONSTANTS
  Attrs <- MCAttrsInt32
  Mappers <- MCMappersInt32
  BoolAttrs = {}
  Records <- MCRecordsInt32
  Int64Max = 9
SPECIFICATION Spec
\* A predicate call returns: the evaluated state has no further step.
CHECK_DEADLOCK FALSE
INVARIANTS
  IntPredicatesAsSpecified
