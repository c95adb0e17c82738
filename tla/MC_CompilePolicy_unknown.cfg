CONSTANTS
  Policies <- MCPoliciesUnknown
INIT Init
NEXT Next
\* Compile returns: a finished call has no further step.
CHECK_DEADLOCK FALSE
INVARIANTS
  UnknownRefsRejected
