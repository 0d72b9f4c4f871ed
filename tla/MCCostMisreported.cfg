CONSTANTS
  Config <- MCConfig
  Edefs <- MCEdefs
  Args <- MCArgsEmpty
  Programs <- MCProgramsMisreported
  MaxCalls = 2
SPECIFICATION Spec
PROPERTY CostMatchesReference
CHECK_DEADLOCK FALSE
