CONSTANTS
  FreshNames <- MCFreshNames
  ArgType = "Float"
  Rules <- MCFilterRules
  Subjects <- MCInputs

SPECIFICATION Spec
CHECK_DEADLOCK FALSE

INVARIANT FilterOnlyPrunes
