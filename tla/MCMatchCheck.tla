---------------------------- MODULE MCMatchCheck ----------------------------
EXTENDS MatchCheck, MCRules

MCMatchRules == {NameFirstArg, InlineCallArg, DeadInnerLet, DropLet, SameArg, LamArg}

(* A rule whose template is a template variable: (rule "mul_one" ((a :   *)
(* Float)) a (g a c)), valid by ParsedRuleMatcher's checks.               *)
MulOne ==
  Parsed("mul_one", "a" :> "Float", Var("a"), Call("g", <<Var("a"), Const("c")>>))
MCFilterRules == {MulOne}

=============================================================================
