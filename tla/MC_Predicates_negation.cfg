\* NEq, Le and Lt, built with Criterion.Not, over the values and fields of
\* MC_Predicates.cfg.
CONSTANTS
  Attrs <- MCAttrs
  Mappers <- MCMappers
  BoolAttrs = {}
  Records <- MCRecords
  Int64Max = 9
SPECIFICATION PSpec
\* A predicate call returns: the evaluated state has no further step.
CHECK_DEADLOCK FALSE
INVARIANT NegatedPredicatesAsSpecified
