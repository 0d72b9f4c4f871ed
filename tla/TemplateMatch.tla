---------------------------- MODULE TemplateMatch ----------------------------
(***************************************************************************)
(* Template matching and replacement instantiation for rules parsed from  *)
(* .ks (rewrites.py: _combine_substs, find_template_subst and its Var,    *)
(* Let and Lam cases, _maybe_add_binder_to_subst, SubstPattern).          *)
(*                                                                         *)
(* A VariableSubstitution is a function from template-variable names to   *)
(* expressions.  Optional[VariableSubstitution] is a set with at most one *)
(* element: {} is None.                                                    *)
(***************************************************************************)
EXTENDS KsExpr

CONSTANT
  ArgType  \* the declared type of every lambda argument (Lam.arg.type_)

None == {}
TheSubst(S) == CHOOSE s \in S : TRUE
EmptySubst == [v \in {} |-> Var("")]

(* Fault model: values bound twice must be equal, not alpha-equivalent.  *)
CombineSubstsByName(s1, S2) ==
  IF S2 = None THEN None
  ELSE LET s2 == TheSubst(S2)
       IN  IF \A v \in DOMAIN s1 \cap DOMAIN s2 : s1[v] = s2[v] THEN {s2 @@ s1} ELSE None

(* _combine_substs(s1, s2): fail if s2 failed or if a variable bound in   *)
(* both is bound to expressions that are not alpha-equivalent; otherwise  *)
(* s1.update(s2), where s2's values win.                                  *)
CombineSubsts(s1, S2) ==
  IF S2 = None THEN None
  ELSE LET s2 == TheSubst(S2)
       IN  IF \A v \in DOMAIN s1 \cap DOMAIN s2 : AlphaEquiv(s1[v], s2[v])
           THEN {s2 @@ s1}
           ELSE None

RECURSIVE FindTemplateSubst(_, _, _), MatchChildren(_, _, _, _, _)

(* The default case: same filter term, same number of children, and the   *)
(* children's substitutions combine left to right, stopping at the first  *)
(* failure.                                                                *)
MatchChildren(ts, es, tv, d, i) ==
  IF i > Len(ts) THEN {d}
  ELSE LET r == CombineSubsts(d, FindTemplateSubst(ts[i], es[i], tv))
       IN  IF r = None THEN None ELSE MatchChildren(ts, es, tv, TheSubst(r), i + 1)

FindTemplateSubstDefault(template, exp, tv) ==
  IF FilterTerm(template) # FilterTerm(exp) \/ Len(template.args) # Len(exp.args)
  THEN None
  ELSE MatchChildren(template.args, exp.args, tv, EmptySubst, 1)

(* Fault model: the declared type is not consulted.                       *)
FindTemplateSubstVarUntyped(template, exp, tv) == {template.name :> exp}

(* A template variable matches any subject its declared type accepts.     *)
FindTemplateSubstVar(template, exp, tv) ==
  IF CanAccept(tv[template.name], TypeOf(exp)) THEN {template.name :> exp} ELSE None

(* A template Let matches a subject Let: its bound name stands for the    *)
(* subject's bound variable, combined first with the right-hand sides'    *)
(* substitution and then with the bodies', where the bound name is a      *)
(* template variable of the rhs's type.                                    *)
FindTemplateSubstLet(template, exp, tv) ==
  IF exp.kind # "Let" THEN None
  ELSE
    LET rhs == FindTemplateSubst(template.args[1], exp.args[1], tv)
        rhsAndBound == CombineSubsts(template.name :> Var(exp.name), rhs)
    IN  IF rhsAndBound = None THEN None
        ELSE CombineSubsts(TheSubst(rhsAndBound),
               FindTemplateSubst(template.args[2], exp.args[2],
                                 (template.name :> TypeOf(template.args[1])) @@ tv))

(* A template Lam matches a subject Lam whose argument type it accepts.   *)
FindTemplateSubstLam(template, exp, tv) ==
  IF exp.kind # "Lam" \/ ~CanAccept(ArgType, ArgType) THEN None
  ELSE CombineSubsts(template.name :> Var(exp.name),
         FindTemplateSubst(template.args[1], exp.args[1],
                           (template.name :> ArgType) @@ tv))

(* find_template_subst: singledispatch on the class of the template.      *)
FindTemplateSubst(template, exp, tv) ==
  CASE template.kind = "Var" -> FindTemplateSubstVar(template, exp, tv)
    [] template.kind = "Let" -> FindTemplateSubstLet(template, exp, tv)
    [] template.kind = "Lam" -> FindTemplateSubstLam(template, exp, tv)
    [] OTHER -> FindTemplateSubstDefault(template, exp, tv)

-----------------------------------------------------------------------------
(* Fault model: a new binder is made fresh only w.r.t. dont_capture.      *)
MaybeAddBinderIgnoringSubst(bound, s, dontCapture) ==
  IF bound \in DOMAIN s THEN [target |-> s[bound].name, subst |-> s]
  ELSE LET t == MakeNonfreeVar(dontCapture)
       IN  [target |-> t, subst |-> (bound :> Var(t)) @@ s]

(* _maybe_add_binder_to_subst(bound, s, dont_capture): a binder already   *)
(* in s keeps its subject variable; a binder new in the replacement gets  *)
(* a name free in every value of s and in dont_capture, remembered in s.  *)
MaybeAddBinderToSubst(bound, s, dontCapture) ==
  IF bound \in DOMAIN s THEN [target |-> s[bound].name, subst |-> s]
  ELSE LET t == MakeNonfreeVar({s[v] : v \in DOMAIN s} \cup dontCapture)
       IN  [target |-> t, subst |-> (bound :> Var(t)) @@ s]

(* SubstPattern.visit: instantiate a pattern with a substitution.  The    *)
(* re-inference of types that contain Any (visit, lines 451-458) has no   *)
(* counterpart: TypeOf computes a node's type from the node.               *)
RECURSIVE SubstPattern(_, _)
SubstPattern(e, s) ==
  CASE e.kind = "Var" -> s[e.name]
    [] e.kind = "Let" ->
         LET b == MaybeAddBinderToSubst(e.name, s, {e.args[2]})
         IN  Let(b.target, SubstPattern(e.args[1], b.subst), SubstPattern(e.args[2], b.subst))
    [] e.kind = "Lam" ->
         LET b == MaybeAddBinderToSubst(e.name, s, {e.args[1]})
         IN  Lam(b.target, SubstPattern(e.args[1], b.subst))
    [] OTHER -> [e EXCEPT !.args = [i \in DOMAIN e.args |-> SubstPattern(e.args[i], s)]]
=============================================================================
