CONSTANTS
  Policies <- MCPolicies
INIT Init
NEXT Next
\* Compile returns: a finished call has no further step.
CHECK_DEADLOCK FALSE
INVARIANTS
  CompiledAsDeclared
