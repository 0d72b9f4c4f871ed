CONSTANTS
  Config <- MCConfig
  Edefs <- MCEdefs
  Args <- MCArgs
  Programs <- MCProgramsMixed
  MaxCalls = 2
SPECIFICATION Spec
INVARIANT EvaluationSucceeds
CHECK_DEADLOCK FALSE
