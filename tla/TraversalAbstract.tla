--------------------------- MODULE TraversalAbstract ---------------------------
(***************************************************************************)
(* What AbstractMatcher.find_all_matches promises (spec 4.1, 4.2): the     *)
(* matches come out one at a time, node by node in pre-order, and a node's *)
(* matches are those of RuleSet.matches_here given the Let binders in      *)
(* scope there, where scope is read off the path from the root: the        *)
(* innermost binder of a name on the way down, counted only if it is a     *)
(* Let entered through its body.                                           *)
(***************************************************************************)
EXTENDS Matchers

VARIABLES
  root,   \* the tree being searched: any tree, never changed
  out     \* the matches produced so far

(* The binder of x whose scope contains Location p of e, innermost first: *)
(* the proper prefixes q of p at which a Let binding x is entered through *)
(* its body, or a Lam binding x through its only child.                   *)
ScopesOf(e, p, x) ==
  { q \in {SubSeq(p, 1, n) : n \in 0..(Len(p) - 1)} :
      LET b == Subtree(e, q) IN
        /\ b.name = x
        /\ \/ b.kind = "Let" /\ p[Len(q) + 1] = 1
           \/ b.kind = "Lam" }

InnermostScope(S) == CHOOSE q \in S : \A q2 \in S : Len(q2) <= Len(q)

(* The Let-binding environment at Location p: each name whose innermost   *)
(* enclosing binder is a Let, mapped to that Let's Location.               *)
ScopeEnv(e, p) ==
  LET names == {x \in AllNames(e) :
                  /\ ScopesOf(e, p, x) # {}
                  /\ Subtree(e, InnermostScope(ScopesOf(e, p, x))).kind = "Let"}
  IN  [x \in names |-> InnermostScope(ScopesOf(e, p, x))]

(* The whole sequence of matches for e. *)
AllMatches(e) ==
  LET locs == Preorder(e)
  IN  FlattenSeq([k \in DOMAIN locs |->
                    RuleSetMatchesHere(Subtree(e, locs[k]), locs[k], ScopeEnv(e, locs[k]))])

Init == out = << >>

Produce ==
  /\ Len(out) < Len(AllMatches(root))
  /\ out' = Append(out, AllMatches(root)[Len(out) + 1])
  /\ UNCHANGED root

Spec == Init /\ [][Produce]_<<root, out>>
=============================================================================
