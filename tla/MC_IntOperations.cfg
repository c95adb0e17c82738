CONSTANTS
  Attrs <- MCAttrs
  Mappers <- MCMappers
  BoolAttrs = {}
  Records <- MCRecords
  Int64Max = 9
SPECIFICATION Spec
\* A predicate call returns: the evaluated state has no further step.
CHECK_DEADLOCK FALSE
INVARIANTS
  IntPredicatesAsSpecified
