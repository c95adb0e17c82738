\* The values of MC_Operations for the string builders and the int64
\* fields and literals of MC_IntOperations for Exists and the comparisons.
CONSTANTS
  Attrs <- MCAttrs
  Mappers <- MCMappers
  BoolAttrs = {}
  Records <- MCRecords
  Int64Max = 9
SPECIFICATION PSpec
\* A predicate call returns: the evaluated state has no further step.
CHECK_DEADLOCK FALSE
INVARIANTS
  StringPredicatesAsSpecified
  IntPredicatesAsSpecified
