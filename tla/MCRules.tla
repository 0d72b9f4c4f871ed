------------------------------- MODULE MCRules -------------------------------
(***************************************************************************)
(* The rules and input trees the MC modules check with.                   *)
(*   name_first_arg    (g a b)             ==> (let t a (g t b))           *)
(*                     introduces a binder t: SubstPattern must pick a     *)
(*                     fresh name not free in b's subject.                 *)
(*   inline_call_arg   (let x a (f x))     ==> (f a)                       *)
(*                     a template Let: x stands for the subject's binder.  *)
(*   dead_inner_let    (let x a (let y b x)) ==> (let x a x)               *)
(*                     two template binders; the body refers to the outer. *)
(*   drop_let          (let x a b)         ==> b                           *)
(*                     delete_let written as a rule: the template variable *)
(*                     b sits in the scope of the template binder x.       *)
(*   same_arg          (g a a)             ==> (f a), a : Any              *)
(*                     a repeated template variable.                       *)
(*   lam_arg           (lam y (g y a))     ==> (lam y (g a y))             *)
(*                     a template Lam.                                     *)
(* Subject trees use the names x and t_0, so that t_0, the first name     *)
(* make_nonfree_var tries, can already be free at the rewrite site.       *)
(***************************************************************************)
EXTENDS KsExpr

NoTVars == [v \in {} |-> "Any"]

BuiltIn(n) ==
  [name |-> n, kind |-> n, tvars |-> NoTVars,
   template |-> Const("c"), replacement |-> Const("c")]

Parsed(n, tv, t, r) ==
  [name |-> n, kind |-> "parsed", tvars |-> tv, template |-> t, replacement |-> r]

InlineVar == BuiltIn("inline_var")
DeleteLet == BuiltIn("delete_let")

NameFirstArg ==
  Parsed("name_first_arg", ("a" :> "Float") @@ ("b" :> "Any"),
         Call("g", <<Var("a"), Var("b")>>),
         Let("t", Var("a"), Call("g", <<Var("t"), Var("b")>>)))

InlineCallArg ==
  Parsed("inline_call_arg", "a" :> "Float",
         Let("x", Var("a"), Call("f", <<Var("x")>>)),
         Call("f", <<Var("a")>>))

DeadInnerLet ==
  Parsed("dead_inner_let", ("a" :> "Float") @@ ("b" :> "Float"),
         Let("x", Var("a"), Let("y", Var("b"), Var("x"))),
         Let("x", Var("a"), Var("x")))

DropLet ==
  Parsed("drop_let", ("a" :> "Float") @@ ("b" :> "Any"),
         Let("x", Var("a"), Var("b")),
         Var("b"))

SameArg ==
  Parsed("same_arg", "a" :> "Any",
         Call("g", <<Var("a"), Var("a")>>),
         Call("f", <<Var("a")>>))

LamArg ==
  Parsed("lam_arg", "a" :> "Float",
         Lam("y", Call("g", <<Var("y"), Var("a")>>)),
         Lam("y", Call("g", <<Var("a"), Var("y")>>)))

MCFreshNames == <<"t_0", "t_1", "t_2", "t_3">>

MCNames == {"x", "t_0"}
Depth2 == Grow(Leaves(MCNames, {"c"}), MCNames, {"c"}, {"f"}, {"g"})
MCInputs == DOMAIN [e \in Grow(Depth2, MCNames, {"c"}, {"f"}, {"g"}) |-> 0]
=============================================================================
