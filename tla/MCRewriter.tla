----------------------------- MODULE MCRewriter -----------------------------
EXTENDS Rewriter, MCRules

(* The rules of the passing run: the two built-ins and two parsed rules   *)
(* whose template binders never meet a subject that reuses a name.        *)
MCRuleList == << InlineVar, DeleteLet, InlineCallArg, NameFirstArg >>
=============================================================================
