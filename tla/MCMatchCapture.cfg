CONSTANTS
  FreshNames <- MCFreshNames
  ArgType = "Float"
  Rules <- MCMatchRules
  Subjects <- MCInputs

SPECIFICATION Spec
CHECK_DEADLOCK FALSE



INVARIANT MatchCaptureFree
