CONSTANTS
  FreshNames <- MCFreshNames
  ArgType = "Float"
  RuleList <- MCRuleList
  Inputs <- MCInputs
  MaxSteps = 3

SPECIFICATION Spec
CHECK_DEADLOCK FALSE

INVARIANT TypeOK
INVARIANT MatchesPassApplyAssertions
INVARIANT SemanticsPreserved
