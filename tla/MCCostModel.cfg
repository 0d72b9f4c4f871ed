CONSTANTS
  Config <- MCConfig
  Edefs <- MCEdefs
  Args <- MCArgs
  Programs <- MCPrograms
  MaxCalls = 3
SPECIFICATION Spec
INVARIANT TypeOK
PROPERTY RaisesExactlyWhenRejected
PROPERTY CostMatchesReference
CHECK_DEADLOCK FALSE
