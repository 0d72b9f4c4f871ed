----------------------------- MODULE MCTraversal -----------------------------
EXTENDS Traversal, MCRules

MCRuleList == << InlineVar, DeleteLet, InlineCallArg, NameFirstArg, DeadInnerLet >>
=============================================================================
