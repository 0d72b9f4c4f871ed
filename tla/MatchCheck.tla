----------------------------- MODULE MatchCheck -----------------------------
(***************************************************************************)
(* find_template_subst checked against its definition (spec 4.4, 8): a    *)
(* template matches a subject exactly when some substitution of its       *)
(* template variables (of the declared types) and of its binders (by      *)
(* variables) instantiates it to a tree alpha-equivalent to the subject,  *)
(* and what it returns is such a substitution.  One state per call        *)
(* ParsedRuleMatcher.matches_for_possible_expr makes (rewrites.py 299):   *)
(* a rule and a subject; nothing changes afterwards.                       *)
(***************************************************************************)
EXTENDS TemplateMatch

CONSTANTS
  Rules,     \* parsed rules, as records [name, tvars, template, ...]
  Subjects   \* subject trees

VARIABLES
  rule,      \* the rule whose template is matched
  subject    \* the subtree it is matched against

vars == <<rule, subject>>

(* substs = find_template_subst(self._rule.template, subtree,             *)
(*                              self._arg_types)                           *)
Found == FindTemplateSubst(rule.template, subject, rule.tvars)

Init == rule \in Rules /\ subject \in Subjects

Spec == Init /\ [][UNCHANGED vars]_vars

-----------------------------------------------------------------------------
(* The reference.                                                         *)
RECURSIVE Binders(_)
Binders(e) ==
  (IF e.kind \in {"Let", "Lam"} THEN {e.name} ELSE {})
    \cup UNION {Binders(e.args[i]) : i \in DOMAIN e.args}

Subterms(e) == {Subtree(e, p) : p \in Range(Preorder(e))}

(* Substitutions worth trying: template variables to subterms of the      *)
(* subject of an accepted type, binders to variables of the subject.      *)
Candidates(r, e) ==
  LET tvs == DOMAIN r.tvars
      bs  == Binders(r.template)
      ok(s) == \A v \in tvs : CanAccept(r.tvars[v], TypeOf(s[v]))
  IN  {s \in [tvs \cup bs -> Subterms(e) \cup {Var(n) : n \in AllNames(e)}] :
         /\ ok(s)
         /\ \A b \in bs : s[b].kind = "Var"}

(* Does instantiating e with s capture?  A variable occurrence u, a       *)
(* template variable or a use of a template binder, is captured when a   *)
(* binder between it and where u is bound (for a template variable: any  *)
(* enclosing binder) is given a name free in s[u].  enclosing lists the   *)
(* template binders around e, outermost first.                            *)
RECURSIVE Captures(_, _, _)
Captures(e, s, enclosing) ==
  IF e.kind = "Var"
  THEN LET own  == {i \in DOMAIN enclosing : enclosing[i] = e.name}
           from == IF own = {} THEN 1 ELSE Max(own) + 1
       IN  \E i \in from..Len(enclosing) : s[enclosing[i]].name \in FreeVars(s[e.name])
  ELSE LET inner(i) == IF \/ e.kind = "Lam"
                          \/ e.kind = "Let" /\ i = 2
                       THEN Append(enclosing, e.name) ELSE enclosing
       IN  \E i \in DOMAIN e.args : Captures(e.args[i], s, inner(i))

Proper(r, s) == ~Captures(r.template, s, << >>)

Instantiates(r, s, e) == AlphaEquiv(SubstPattern(r.template, s), e)

(* Every declared template variable is bound to a subtree its type        *)
(* accepts, and instantiating the template with what find_template_subst *)
(* returns gives back the subject up to renaming of bound variables      *)
(* (spec 8, "Soundness of template matching").                            *)
MatchSound ==
  Found # None =>
    LET s == TheSubst(Found) IN
    /\ DOMAIN rule.tvars \subseteq DOMAIN s
    /\ \A v \in DOMAIN rule.tvars : CanAccept(rule.tvars[v], TypeOf(s[v]))
    /\ Instantiates(rule, s, subject)

(* A subject that is an instance of the template without capture is      *)
(* matched: a repeated template variable accepts alpha-equivalent copies, *)
(* a template binder any subject binder (spec 4.4: "exactly one         *)
(* possible substitution ..., or none").                                  *)
MatchComplete ==
  (\E s \in Candidates(rule, subject) : Proper(rule, s) /\ Instantiates(rule, s, subject))
    => Found # None

(* What find_template_subst returns instantiates the template without     *)
(* capture: no template variable is bound to a subtree that mentions a    *)
(* subject variable bound around it, and no template binder is hidden by  *)
(* another.  Otherwise the replacement, instantiated with the same        *)
(* substitution, moves that subtree to where the variable means something *)
(* else (rewrites.py 329-330, 394-396).                                    *)
MatchCaptureFree == Found # None => Proper(rule, TheSubst(Found))

(* The filter terms a ParsedRuleMatcher declares, {get_filter_term of its *)
(* template} (rewrites.py 290-292), cover every subject its template      *)
(* matches: RuleMatcher.matches_here and the RuleSet index (160, 190) only *)
(* call find_template_subst on such subjects, and spec 3 says the filter  *)
(* term prunes "never as a correctness gate beyond equality of outermost *)
(* shape".                                                                  *)
FilterOnlyPrunes == Found # None => FilterTerm(subject) = FilterTerm(rule.template)
=============================================================================
