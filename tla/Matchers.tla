------------------------------- MODULE Matchers -------------------------------
(***************************************************************************)
(* The RuleMatchers of rewrites.py and what a traversal offers them:      *)
(* the let-binding environment (_update_env_for_subtree), the two         *)
(* built-in matchers inline_var and delete_let, ParsedRuleMatcher, the    *)
(* RuleSet index, and Match.apply_rewrite.                                *)
(*                                                                         *)
(* A rule is a record [name, kind, tvars, template, replacement]; kind is *)
(* "inline_var", "delete_let" or "parsed", and only a parsed rule uses    *)
(* the last three fields (its template_vars as a function name -> type).  *)
(* A Match is a record [rule, path, binding, subst]: the rule's name (a   *)
(* Match refers to its RuleMatcher by name, as __reduce__ does), the      *)
(* Location, and the rule_specific_data: binding_location for inline_var, *)
(* the substitution for a parsed rule.                                    *)
(***************************************************************************)
EXTENDS TemplateMatch

CONSTANT
  RuleList  \* the rules given to RuleSet(rules), in order

EmptyEnv == [x \in {} |-> <<>>]

RuleNamed(n) == CHOOSE r \in {RuleList[i] : i \in DOMAIN RuleList} : r.name = n

MkMatch(r, path, binding, subst) ==
  [rule |-> r.name, path |-> path, binding |-> binding, subst |-> subst]

(* _update_env_for_subtree, default case: the parent's environment.       *)
UpdateEnvDefault(parent, parentPath, i, env) == env

(* Fault model: the body's environment records the body's Location,      *)
(* counted from 1.                                                         *)
UpdateEnvLetStoresChild(parent, parentPath, i, env) ==
  IF i = 0 THEN env ELSE (parent.name :> parentPath \o <<i + 1>>) @@ env

(* Let: the rhs sees the parent's environment, the body also the bound    *)
(* name, mapped to the Let's own Location.                                *)
UpdateEnvLet(parent, parentPath, i, env) ==
  IF i = 0 THEN env ELSE (parent.name :> parentPath) @@ env

(* Fault model: a Lam leaves the environment as it is.                   *)
UpdateEnvLamKeeps(parent, parentPath, i, env) == env

(* Lam: the argument shadows any let-binding of its name.                 *)
UpdateEnvLam(parent, parentPath, i, env) ==
  [x \in DOMAIN env \ {parent.name} |-> env[x]]

UpdateEnv(parent, parentPath, i, env) ==
  CASE parent.kind = "Let" -> UpdateEnvLet(parent, parentPath, i, env)
    [] parent.kind = "Lam" -> UpdateEnvLam(parent, parentPath, i, env)
    [] OTHER -> UpdateEnvDefault(parent, parentPath, i, env)

-----------------------------------------------------------------------------
(* possible_filter_terms of each kind of RuleMatcher.                      *)
InlineVarFilterTerms == {"Var"}
DeleteLetFilterTerms == {"Let"}

PossibleFilterTerms(r) ==
  CASE r.kind = "inline_var" -> InlineVarFilterTerms
    [] r.kind = "delete_let" -> DeleteLetFilterTerms
    [] OTHER -> {FilterTerm(r.template)}

(* Fault model: binding_location is given the occurrence's own Location.  *)
InlineVarMatchesOwnPath(r, subtree, path, env) ==
  IF subtree.name \in DOMAIN env THEN << MkMatch(r, path, path, EmptySubst) >>
  ELSE << >>

(* inline_var.matches_for_possible_expr: a variable bound by a Let in     *)
(* scope, recorded with the Let's Location.                                *)
InlineVarMatches(r, subtree, path, env) ==
  IF subtree.name \in DOMAIN env THEN << MkMatch(r, path, env[subtree.name], EmptySubst) >>
  ELSE << >>

(* Fault model: the bound name is looked up among the Let's own free      *)
(* variables, which never contain it.                                     *)
DeleteLetMatchesWholeLet(r, subtree, path, env) ==
  IF subtree.name \notin FreeVars(subtree) THEN << MkMatch(r, path, <<>>, EmptySubst) >>
  ELSE << >>

(* delete_let.matches_for_possible_expr: the bound name is not free in    *)
(* the body.                                                               *)
DeleteLetMatches(r, subtree, path, env) ==
  IF subtree.name \notin FreeVars(subtree.args[2]) THEN << MkMatch(r, path, <<>>, EmptySubst) >>
  ELSE << >>

(* ParsedRuleMatcher.matches_for_possible_expr (default side condition,   *)
(* which accepts every substitution).                                     *)
ParsedRuleMatches(r, subtree, path, env) ==
  LET S == FindTemplateSubst(r.template, subtree, r.tvars)
  IN  IF S # None THEN << MkMatch(r, path, <<>>, TheSubst(S)) >> ELSE << >>

MatchesForPossibleExpr(r, subtree, path, env) ==
  CASE r.kind = "inline_var" -> InlineVarMatches(r, subtree, path, env)
    [] r.kind = "delete_let" -> DeleteLetMatches(r, subtree, path, env)
    [] OTHER -> ParsedRuleMatches(r, subtree, path, env)

(* RuleMatcher.matches_here: a single rule, guarded by its filter terms.  *)
RuleMatchesHere(r, subtree, path, env) ==
  IF FilterTerm(subtree) \in PossibleFilterTerms(r)
  THEN MatchesForPossibleExpr(r, subtree, path, env)
  ELSE << >>

(* Fault model: each term's list is overwritten instead of appended to.   *)
FilteredRulesLastOnly(term) ==
  LET rs == SelectSeq(RuleList, LAMBDA r : term \in PossibleFilterTerms(r))
  IN  IF rs = << >> THEN rs ELSE << rs[Len(rs)] >>

(* RuleSet.__init__: _filtered_rules[term], the rules (in order) that      *)
(* declared term among their possible filter terms.                       *)
FilteredRules(term) == SelectSeq(RuleList, LAMBDA r : term \in PossibleFilterTerms(r))

(* RuleSet.matches_here: the matches of every rule indexed under the      *)
(* node's filter term, rule by rule.                                      *)
RuleSetMatchesHere(subtree, path, env) ==
  LET rs == FilteredRules(FilterTerm(subtree))
  IN  FlattenSeq([k \in DOMAIN rs |-> MatchesForPossibleExpr(rs[k], subtree, path, env)])

-----------------------------------------------------------------------------
(* inline_var.apply_at: within the Let at binding_location, the variable  *)
(* occurrence becomes the Let's rhs, renaming binders on the way down     *)
(* that would capture it.  The Let itself stays.                          *)
InlineVarApplyAt(expr, pathToVar, bindingLocation) ==
  LET let == Subtree(expr, bindingLocation)
      rel == SubSeq(pathToVar, Len(bindingLocation) + 1, Len(pathToVar))
  IN  ReplaceNode(expr, bindingLocation, CavReplace(let, rel, let.args[1]))

(* delete_let.apply_at: the Let becomes its body.                          *)
DeleteLetApplyAt(expr, path) == ReplaceNode(expr, path, Subtree(expr, path).args[2])

(* ParsedRuleMatcher.apply_at: the target becomes the replacement          *)
(* instantiated with the match's substitution.                            *)
ParsedRuleApplyAt(r, expr, path, substs) ==
  ReplaceNode(expr, path, SubstPattern(r.replacement, substs))

(* Match.apply_rewrite *)
ApplyRewrite(m, expr) ==
  LET r == RuleNamed(m.rule)
  IN  CASE r.kind = "inline_var" -> InlineVarApplyAt(expr, m.path, m.binding)
        [] r.kind = "delete_let" -> DeleteLetApplyAt(expr, m.path)
        [] OTHER -> ParsedRuleApplyAt(r, expr, m.path, m.subst)

(* The assertions apply_at makes before rewriting: for inline_var that    *)
(* the binder is an ancestor of the occurrence (line 206); for delete_let *)
(* that the name is not free in the body (236); for a parsed rule that    *)
(* the template instantiated is alpha-equivalent to the target (308) and  *)
(* that the result has the target's type (314).                           *)
ApplyAssertions(m, expr) ==
  LET r == RuleNamed(m.rule)
      target == Subtree(expr, m.path)
  IN  CASE r.kind = "inline_var" -> IsPrefix(m.binding, m.path)
        [] r.kind = "delete_let" -> target.name \notin FreeVars(target.args[2])
        [] OTHER -> /\ AlphaEquiv(SubstPattern(r.template, m.subst), target)
                    /\ TypeOf(SubstPattern(r.replacement, m.subst)) = TypeOf(target)
=============================================================================
