CONSTANTS
  FreshNames <- MCFreshNames
  ArgType = "Float"
  RuleList <- MCRuleList
  Inputs <- MCInputs

SPECIFICATION Spec
CHECK_DEADLOCK FALSE

INVARIANT TypeOK
INVARIANT EnvIsLetScope
INVARIANT RuleSetEquivalence
PROPERTY Refinement
