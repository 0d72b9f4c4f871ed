------------------------------ MODULE Traversal ------------------------------
(***************************************************************************)
(* AbstractMatcher.find_all_matches of a RuleSet as the generator runs it *)
(* (rewrites.py 61-75): _matches_with_env is a recursive generator, so its *)
(* state is a stack of frames, one per active call.  A frame holds the    *)
(* Location of its subtree, its environment, the matches of matches_here  *)
(* not yet yielded, and the index of the next child to descend into.      *)
(* Each step is one resumption of the generator: yield one match, enter a *)
(* child, or return from a call.                                          *)
(***************************************************************************)
EXTENDS Matchers

CONSTANT
  Inputs  \* the trees find_all_matches may be called on

VARIABLES
  root,   \* the tree being searched (find_all_matches' e)
  stack,  \* the active _matches_with_env calls, outermost first
  out     \* the matches yielded so far, in order

vars == <<root, stack, out>>

(* A fresh call _matches_with_env(Subtree(root, path), path, root, env),  *)
(* with the matches matches_here yields for it.                           *)
Frame(path, env) ==
  [path |-> path, env |-> env,
   pending |-> RuleSetMatchesHere(Subtree(root, path), path, env),
   next |-> 0]

Top == stack[Len(stack)]
TopNode == Subtree(root, Top.path)
Done == stack = << >>

(* find_all_matches(e): _matches_with_env(e, (), e, pmap({})) *)
Init ==
  /\ root \in Inputs
  /\ stack = << Frame(<<>>, EmptyEnv) >>
  /\ out = << >>

(* yield from self.matches_here(...): the next match of this node.        *)
YieldHere ==
  /\ ~Done
  /\ Top.pending # << >>
  /\ out' = Append(out, Head(Top.pending))
  /\ stack' = [stack EXCEPT ![Len(stack)].pending = Tail(@)]
  /\ UNCHANGED root

(* Fault model: children are entered before the node's own matches are   *)
(* all yielded.                                                            *)
DescendBeforeYielding ==
  /\ ~Done
  /\ Top.next < Len(TopNode.args)
  /\ stack' = Append([stack EXCEPT ![Len(stack)].next = @ + 1],
                     Frame(Top.path \o <<Top.next>>,
                           UpdateEnv(TopNode, Top.path, Top.next, Top.env)))
  /\ UNCHANGED <<root, out>>

(* for i, ch in enumerate(subexps_no_binds(e)): the recursive call on     *)
(* child i with _update_env_for_subtree(e, path_from_root, i, env).       *)
Descend ==
  /\ ~Done
  /\ Top.pending = << >>
  /\ Top.next < Len(TopNode.args)
  /\ stack' = Append([stack EXCEPT ![Len(stack)].next = @ + 1],
                     Frame(Top.path \o <<Top.next>>,
                           UpdateEnv(TopNode, Top.path, Top.next, Top.env)))
  /\ UNCHANGED <<root, out>>

(* The call returns once its matches and all its children are done.       *)
Return ==
  /\ ~Done
  /\ Top.pending = << >>
  /\ Top.next = Len(TopNode.args)
  /\ stack' = SubSeq(stack, 1, Len(stack) - 1)
  /\ UNCHANGED <<root, out>>

Next == YieldHere \/ Descend \/ Return

Spec == Init /\ [][Next]_vars

-----------------------------------------------------------------------------
(* Frames and matches only hold Locations of the root tree.                *)
TypeOK ==
  LET locs == Range(Preorder(root)) IN
  /\ \A k \in DOMAIN stack :
       /\ stack[k].path \in locs
       /\ stack[k].next \in 0..Len(Subtree(root, stack[k].path).args)
       /\ DOMAIN stack[k].env \subseteq AllNames(root)
       /\ \A x \in DOMAIN stack[k].env : stack[k].env[x] \in locs
  /\ \A k \in DOMAIN out : out[k].path \in locs /\ out[k].binding \in locs

(* The environment each call of _matches_with_env carries, built          *)
(* incrementally by env.set at every Let body and env.discard at every    *)
(* Lam, is exactly the scope read off the path from the root: the         *)
(* innermost binder of each name, if it is a Let.                         *)
Abs == INSTANCE TraversalAbstract

EnvIsLetScope == \A k \in DOMAIN stack : stack[k].env = Abs!ScopeEnv(root, stack[k].path)

(* RuleSet equivalence (spec 8): once the generator is exhausted, the     *)
(* matches of the one indexed traversal are exactly the matches each rule *)
(* would produce on its own (RuleMatcher.matches_here at every node).     *)
SingleRuleMatches(r) ==
  UNION {Range(RuleMatchesHere(r, Subtree(root, p), p, Abs!ScopeEnv(root, p)))
           : p \in Range(Preorder(root))}

RuleSetEquivalence ==
  Done => Range(out) = UNION {SingleRuleMatches(RuleList[i]) : i \in DOMAIN RuleList}

(* The generator implements the abstract find_all_matches: every yield    *)
(* appends the next match of the pre-order sequence.                      *)
Refinement == Abs!Spec
=============================================================================
