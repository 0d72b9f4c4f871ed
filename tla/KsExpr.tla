------------------------------- MODULE KsExpr -------------------------------
(***************************************************************************)
(* The expression tree of ksc (ksc/expr.py) and the tree helpers that      *)
(* rewrites.py imports from ksc.cav_subst, ksc.filter_term and             *)
(* ksc.alpha_equiv.  Those three modules are not part of the sources       *)
(* under src/, so their operators here are written from the spec (3,       *)
(* 4.2, 4.4, 4.5 and the glossary).                                        *)
(*                                                                         *)
(* Every node is a record [kind, name, args]:                              *)
(*   Var    name = variable name         args = <<>>                       *)
(*   Const  name = the literal           args = <<>>                       *)
(*   Call   name = target function       args = the arguments              *)
(*   Let    name = the bound variable    args = <<rhs, body>>              *)
(*   Lam    name = the argument          args = <<body>>                   *)
(* The uniform shape keeps all nodes comparable by TLC.  A Location is a   *)
(* sequence of ZERO-based child indices, as in the Python code; child i    *)
(* of e is e.args[i+1].                                                    *)
(***************************************************************************)
EXTENDS Naturals, Sequences, SequencesExt, FiniteSets, TLC

CONSTANT
  FreshNames  \* the names make_nonfree_var tries, in the order it tries them

Node(k, n, a) == [kind |-> k, name |-> n, args |-> a]
Var(x) == Node("Var", x, <<>>)
Const(c) == Node("Const", c, <<>>)
Call(f, as) == Node("Call", f, as)
Let(x, rhs, body) == Node("Let", x, <<rhs, body>>)
Lam(x, body) == Node("Lam", x, <<body>>)

(* The node at Location p of e. *)
RECURSIVE Subtree(_, _)
Subtree(e, p) == IF p = <<>> THEN e ELSE Subtree(e.args[Head(p) + 1], Tail(p))

(* e with the node at Location p replaced by new, no renaming. *)
RECURSIVE ReplaceNode(_, _, _)
ReplaceNode(e, p, new) ==
  IF p = <<>> THEN new
  ELSE [e EXCEPT !.args[Head(p) + 1] = ReplaceNode(@, Tail(p), new)]

(* Every Location of e, in pre-order (a node before its children, children *)
(* left to right).                                                         *)
RECURSIVE Preorder(_)
Preorder(e) ==
  LET under(i) == LET sub == Preorder(e.args[i])
                  IN  [j \in DOMAIN sub |-> <<i - 1>> \o sub[j]]
  IN  << <<>> >> \o FlattenSeq([i \in DOMAIN e.args |-> under(i)])

(* Expr.free_vars_ *)
RECURSIVE FreeVars(_)
FreeVars(e) ==
  CASE e.kind = "Var" -> {e.name}
    [] e.kind = "Let" -> FreeVars(e.args[1]) \cup (FreeVars(e.args[2]) \ {e.name})
    [] e.kind = "Lam" -> FreeVars(e.args[1]) \ {e.name}
    [] OTHER -> UNION {FreeVars(e.args[i]) : i \in DOMAIN e.args}

(* Every variable name occurring in e, bound or free. *)
RECURSIVE AllNames(_)
AllNames(e) ==
  (IF e.kind \in {"Var", "Let", "Lam"} THEN {e.name} ELSE {})
    \cup UNION {AllNames(e.args[i]) : i \in DOMAIN e.args}

(* get_filter_term: the class of the node, the target of a Call, the      *)
(* value of a Const (filter_term.py: FilterTerm includes ConstantType).    *)
FilterTerm(e) == IF e.kind \in {"Call", "Const"} THEN e.name ELSE e.kind

(* Expr.type_ as the type-propagation pass leaves it, with types           *)
(* abstracted to "Float" (every scalar, tensor or tuple value) and "Lam"   *)
(* (a function value).  Let-bound values are never functions in the        *)
(* inputs (see BoundedExprs), so every variable has a value type.          *)
RECURSIVE TypeOf(_)
TypeOf(e) ==
  CASE e.kind = "Lam" -> "Lam"
    [] e.kind = "Let" -> TypeOf(e.args[2])
    [] OTHER -> "Float"

(* Type.can_accept_value_of_type, with "Any" the polymorphic placeholder. *)
CanAccept(declared, t) == declared = "Any" \/ declared = t

(* Binders numbered by de Bruijn level: the canonical form of e under     *)
(* alpha-renaming.  A bound occurrence becomes a "BVar" naming the level   *)
(* of its binder, a binder's name becomes its level (as a string "#d").    *)
Level(d) == "#" \o ToString(d)

RECURSIVE Canon(_, _, _)
Canon(e, env, d) ==
  CASE e.kind = "Var" -> IF e.name \in DOMAIN env THEN Node("BVar", env[e.name], <<>>)
                                                   ELSE e
    [] e.kind = "Let" -> Let(Level(d), Canon(e.args[1], env, d),
                             Canon(e.args[2], (e.name :> Level(d)) @@ env, d + 1))
    [] e.kind = "Lam" -> Lam(Level(d), Canon(e.args[1], (e.name :> Level(d)) @@ env, d + 1))
    [] OTHER -> [e EXCEPT !.args = [i \in DOMAIN e.args |-> Canon(e.args[i], env, d)]]

(* are_alpha_equivalent *)
AlphaEquiv(a, b) == Canon(a, <<>>, 0) = Canon(b, <<>>, 0)

(* make_nonfree_var("t_", exprs): the first of FreshNames free in none of  *)
(* exprs.                                                                  *)
MakeNonfreeVar(exprs) ==
  LET avoid == UNION {FreeVars(x) : x \in exprs}
      i == CHOOSE i \in DOMAIN FreshNames :
             /\ FreshNames[i] \notin avoid
             /\ \A j \in 1..(i - 1) : FreshNames[j] \in avoid
  IN  FreshNames[i]

(* Renames the free occurrences of x in e to t; t occurs nowhere in e.     *)
RECURSIVE Rename(_, _, _)
Rename(e, x, t) ==
  CASE e.kind = "Var" -> IF e.name = x THEN Var(t) ELSE e
    [] e.kind = "Let" -> Let(e.name, Rename(e.args[1], x, t),
                             IF e.name = x THEN e.args[2] ELSE Rename(e.args[2], x, t))
    [] e.kind = "Lam" -> IF e.name = x THEN e ELSE Lam(e.name, Rename(e.args[1], x, t))
    [] OTHER -> [e EXCEPT !.args = [i \in DOMAIN e.args |-> Rename(e.args[i], x, t)]]

(* replace_subtree(e, p, arg) with the default applicator: the node at p   *)
(* becomes arg, and each binder on the way down whose scope contains p and *)
(* whose name is free in arg is renamed (throughout its scope) to a name   *)
(* free in neither, so that arg's free variables are not captured.         *)
RECURSIVE CavReplace(_, _, _)
CavReplace(e, p, arg) ==
  IF p = <<>> THEN arg
  ELSE
    LET i     == Head(p) + 1
        binds == \/ e.kind = "Let" /\ i = 2
                 \/ e.kind = "Lam"
        child == e.args[i]
        t     == MakeNonfreeVar({arg} \cup {Var(y) : y \in AllNames(child)})
    IN  IF binds /\ e.name \in FreeVars(arg)
        THEN [e EXCEPT !.name = t,
                       !.args[i] = CavReplace(Rename(child, e.name, t), Tail(p), arg)]
        ELSE [e EXCEPT !.args[i] = CavReplace(child, Tail(p), arg)]

-----------------------------------------------------------------------------
(* Inputs: the trees one level deeper than those of s, over the given    *)
(* names, constants, unary and binary functions, well-typed: a Let never  *)
(* binds a function value (TypeOf above relies on it).                    *)
Leaves(Names, Consts) == {Var(x) : x \in Names} \cup {Const(c) : c \in Consts}

Grow(s, Names, Consts, Unary, Binary) ==
  Leaves(Names, Consts)
    \cup {Call(f, <<a>>) : f \in Unary, a \in s}
    \cup {Call(g, <<a, b>>) : g \in Binary, a \in s, b \in s}
    \cup {Let(x, r, b) : x \in Names, r \in {v \in s : TypeOf(v) # "Lam"}, b \in s}
    \cup {Lam(x, b) : x \in Names, b \in s}
=============================================================================
