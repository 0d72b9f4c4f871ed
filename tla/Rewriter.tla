------------------------------- MODULE Rewriter -------------------------------
(***************************************************************************)
(* A caller of the rewriting core (spec 2, 6): it asks for the matches of *)
(* a RuleSet on the current tree, picks any one of them and calls         *)
(* Match.apply_rewrite, and goes on with the tree that returns.  Which    *)
(* match it picks is the search strategy, outside the core: any.          *)
(* The matches are those of the abstract find_all_matches, which the      *)
(* Traversal module shows the generator implements.                       *)
(***************************************************************************)
EXTENDS Matchers

CONSTANTS
  Inputs,    \* the trees the caller starts from
  MaxSteps   \* how many rewrites in a row are explored

VARIABLES
  expr,      \* the current tree
  origin,    \* the tree the caller started from (history)
  steps,     \* rewrites applied so far
  last,      \* the Match applied by the last step (history)
  offered    \* the matches find_all_matches yields on expr

vars == <<expr, origin, steps, last, offered>>

Find == INSTANCE TraversalAbstract WITH root <- expr, out <- << >>

MatchesOf(e) == Range(Find!AllMatches(e))

NoMatch == MkMatch([name |-> "none"], << >>, << >>, EmptySubst)

Init ==
  /\ expr \in Inputs
  /\ origin = expr
  /\ steps = 0
  /\ last = NoMatch
  /\ offered = MatchesOf(expr)

(* Pick one match of the current tree, apply it, and search the result.  *)
Rewrite ==
  /\ steps < MaxSteps
  /\ \E m \in offered :
       /\ expr' = ApplyRewrite(m, expr)
       /\ last' = m
       /\ offered' = MatchesOf(expr')
  /\ steps' = steps + 1
  /\ UNCHANGED origin

Next == Rewrite

Spec == Init /\ [][Next]_vars

-----------------------------------------------------------------------------
(* The value of a tree as a function of its free variables, with every    *)
(* Let inlined and every binder numbered by its de Bruijn level: two      *)
(* trees with the same form compute the same thing (the language is pure).*)
RECURSIVE Meaning(_, _, _)
Meaning(e, env, d) ==
  CASE e.kind = "Var" -> IF e.name \in DOMAIN env THEN env[e.name] ELSE e
    [] e.kind = "Let" -> Meaning(e.args[2], (e.name :> Meaning(e.args[1], env, d)) @@ env, d)
    [] e.kind = "Lam" -> Lam(Level(d), Meaning(e.args[1],
                               (e.name :> Node("BVar", Level(d), <<>>)) @@ env, d + 1))
    [] OTHER -> [e EXCEPT !.args = [i \in DOMAIN e.args |-> Meaning(e.args[i], env, d)]]

(* Every match offered on the current tree carries a Location of it, and  *)
(* an inline_var match the Location of a Let.                              *)
TypeOK ==
  /\ steps \in 0..MaxSteps
  /\ \A m \in offered :
       /\ m.path \in Range(Preorder(expr))
       /\ m.binding \in Range(Preorder(expr))
       /\ m.rule = "inline_var" => Subtree(expr, m.binding).kind = "Let"

(* Every match the traversal offers passes the assertions its apply_at    *)
(* makes: the binder recorded by inline_var is an ancestor of the         *)
(* occurrence, delete_let only deletes a dead Let, and a parsed rule's    *)
(* template instantiated with the found substitution gives back the       *)
(* target, with the target's type.  Matching is cheap and apply_at only   *)
(* checks afterwards: the two must agree on every tree reached.           *)
MatchesPassApplyAssertions == \A m \in offered : ApplyAssertions(m, expr)

(* Rewriting never changes what the tree computes (spec 1: "a transformed *)
(* (but semantically equivalent) tree"; spec 8: no accidental capture).   *)
SemanticsPreserved == Meaning(expr, << >>, 0) = Meaning(origin, << >>, 0)

(* Spec 4.3: inline_var "replace[s] the Let node at the recorded binder   *)
(* Location with just the Let's body, and within that body replace[s] the *)
(* specific variable occurrence with the Let's right-hand-side".          *)
InlineVarAsSpecified ==
  [][last'.rule = "inline_var" =>
       LET b   == last'.binding
           let == Subtree(expr, b)
           rel == SubSeq(last'.path, Len(b) + 2, Len(last'.path))
       IN  Subtree(expr', b) = CavReplace(let.args[2], rel, let.args[1])]_vars
=============================================================================
