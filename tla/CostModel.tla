------------------------------ MODULE CostModel ------------------------------
(***************************************************************************)
(* The abstract-interpretation backend backends/abstract.py: a ks         *)
(* function, translated to Python calls of these operations, is run on    *)
(* AbstractValues (a shape, a type, maybe data, a context) and charges     *)
(* costs to the ExecutionContext on top of a global stack.  Evaluation is *)
(* Eval, threading that stack through the recursion the way the Python    *)
(* calls share it; a step of the driver evaluates one function body.      *)
(*                                                                         *)
(* ExecutionContext and AbstractValue (ksc.abstract_value) are not in     *)
(* this repository: they are modelled by what abstract.py uses of them.   *)
(* The context None is "none"; a value's type is Vec^d of a scalar, so    *)
(* the shape (a sequence of d sizes) gives it; data None is {}, a known   *)
(* value d is {d}.                                                         *)
(***************************************************************************)
EXTENDS Integers, Sequences, SequencesExt

CONSTANTS
  Config,    \* exec_ctx.config: index_cost, size_cost, let_cost, build_malloc_cost,
             \* select_cost, if_selection_cost, if_epsilon, assumed_vector_size
  Edefs,     \* name -> [cost: the body of cost$name, shape: "scalar" | "like1", op: concrete op]
  Args,      \* the AbstractValues the driver passes: env positions 1..Len(Args)
  Programs,  \* function bodies, as terms
  MaxCalls   \* bound on the driver's evaluations

VARIABLES
  ctxs,      \* _execution_contexts: a stack of cost maps, context -> cost
  outcome,   \* "ok", or "error" when the last evaluation raised
  calls,     \* evaluations so far
  last       \* the body the last evaluation ran

vars == <<ctxs, outcome, calls, last>>

(* Terms: the calls the translated function makes.  "var" reads env[j]:   *)
(* an argument, a let-bound value or a build index.                       *)
T(op, a, j, name) == [op |-> op, a |-> a, j |-> j, name |-> name]
TVar(j)          == T("var", << >>, j, "")
Lit(d)           == T("lit", << >>, d, "")
Edef(f, as)      == T("edef", as, 0, f)
Build(n, b)      == T("build", <<n, b>>, 0, "")
Sumbuild(n, b)   == T("sumbuild", <<n, b>>, 0, "")
If(c, t, e)      == T("if", <<c, t, e>>, 0, "")
LetIn(r, b)      == T("let", <<r, b>>, 0, "")
Index(i, v)      == T("index", <<i, v>>, 0, "")
Size(v)          == T("size", <<v>>, 0, "")
Tuple(as)        == T("tuple", as, 0, "")
Select(i, v)     == T("select", <<v>>, i, "")   \* get_tuple_element(i, v), i from 0
Fold(s0, xs)     == T("fold", <<s0, xs>>, 0, "")  \* the function f left out

Keys == {"none", "concrete"}

(* ExecutionContext: a fresh context has no costs; entering pushes it,    *)
(* leaving pops it; accumulate_cost adds to the current one.              *)
NoCosts == [k \in Keys |-> 0]
Push(cs) == Append(cs, NoCosts)
Pop(cs) == SubSeq(cs, 1, Len(cs) - 1)
Current(cs) == cs[Len(cs)]
Accumulate(cs, context, cost) == [cs EXCEPT ![Len(cs)][context] = @ + cost]

(* AbstractValue, a Python number, in_context and abstract_like.  A      *)
(* tuple's shape is the tuple of its elements' shapes: els holds the      *)
(* element values, and its data (the elements' data) is {"tuple"}, or {} *)
(* once abstract_like has dropped it.                                     *)
AV(shape, data, context) ==
  [abs |-> TRUE, shape |-> shape, data |-> data, ctx |-> context, tup |-> FALSE, els |-> << >>]
TupV(els, data, context) ==
  [abs |-> TRUE, shape |-> << >>, data |-> data, ctx |-> context, tup |-> TRUE, els |-> els]
Py(d) == [abs |-> FALSE, shape |-> << >>, data |-> {d}, ctx |-> "none", tup |-> FALSE, els |-> << >>]
InContext(v, c) == IF v.abs THEN [v EXCEPT !.ctx = c] ELSE v
AbstractLike(v) == [AV(v.shape, {}, v.ctx) EXCEPT !.tup = v.tup, !.els = v.els]

(* shape_type, what the if assertion compares: data and contexts left out *)
RECURSIVE ShapeType(_)
ShapeType(v) ==
  [shape |-> v.shape, tup |-> v.tup, els |-> [i \in DOMAIN v.els |-> ShapeType(v.els[i])]]
TheData(v) == CHOOSE d \in v.data : TRUE
NumElements(shape) == Config.assumed_vector_size ^ Len(shape)

(* The Python functions of backends.common a constant call runs.          *)
Apply(op, ds) ==
  CASE op = "add" -> ds[1] + ds[2]
    [] op = "mul" -> ds[1] * ds[2]
    [] op = "lt"  -> ds[1] < ds[2]

Ok(v, cs) == [ok |-> TRUE, v |-> v, cs |-> cs]
Err(cs) == [ok |-> FALSE, v |-> AV(<< >>, {}, "none"), cs |-> cs]
Then(r, K(_, _)) == IF r.ok THEN K(r.v, r.cs) ELSE r

(* Fault model: a Python number among abstract arguments makes the call  *)
(* constant (any instead of all).                                         *)
CheckArgsAnyConcrete(args, concrete) ==
  IF \E i \in DOMAIN args : ~args[i].abs THEN concrete
  ELSE IF \E i \in DOMAIN args : args[i].ctx = "concrete"
       THEN "concrete" ELSE "none"

(* check_args_and_get_context: all Python values give `concrete`;        *)
(* otherwise the first non-None context, a later one other than          *)
(* `concrete` replacing `concrete` (with two contexts the assertion      *)
(* cannot fail).                                                           *)
CheckArgs(args, concrete) ==
  IF \A i \in DOMAIN args : ~args[i].abs THEN concrete
  ELSE IF \E i \in DOMAIN args : args[i].abs /\ args[i].ctx = "concrete"
       THEN "concrete" ELSE "none"

(* index and size: assert a vector, charge under v's context.             *)
IndexOp(v, cs) ==
  IF v.shape = << >> THEN Err(cs)
  ELSE Ok(AV(Tail(v.shape), {}, v.ctx), Accumulate(cs, v.ctx, Config.index_cost))

SizeOp(v, cs) ==
  IF v.shape = << >> THEN Err(cs)
  ELSE Ok(AV(<< >>, {v.shape[1]}, v.ctx), Accumulate(cs, v.ctx, Config.size_cost))

(* fold raises NotImplementedError once its arguments are evaluated.      *)
FoldOp(cs) == Err(cs)

(* make_tuple: the context of the elements; every element's shape_type   *)
(* is read, an AttributeError for a Python number; let_cost per element. *)
MakeTuple(args, cs) ==
  LET context == CheckArgs(args, "concrete")
  IN  IF \E i \in DOMAIN args : ~args[i].abs THEN Err(cs)
      ELSE Ok(TupV(args, {"tuple"}, context),
              Accumulate(cs, context, Config.let_cost * Len(args)))

(* get_tuple_element: element i in the tuple's context, its data when the *)
(* tuple has data; select_cost charged under the tuple's context.         *)
GetTupleElement(i, tup, cs) ==
  IF ~tup.tup \/ i >= Len(tup.els) THEN Err(cs)
  ELSE Ok([tup.els[i + 1] EXCEPT !.data = IF tup.data = {} THEN {} ELSE @, !.ctx = tup.ctx],
          Accumulate(cs, tup.ctx, Config.select_cost))

RECURSIVE Eval(_, _, _), EvalArgs(_, _, _), EdefCallStale(_, _, _),
          EdefCall(_, _, _), ComputeBranchCostNoExitOnRaise(_, _, _),
          ComputeBranchCost(_, _, _), ComputeBuildInnerCost(_, _, _, _),
          BuildOp(_, _, _, _), SumbuildOp(_, _, _, _), LetOp(_, _, _, _),
          IfOp(_, _, _, _, _)

(* Arguments are evaluated left to right; the first error propagates.     *)
EvalArgs(ts, env, cs) ==
  IF ts = << >> THEN [ok |-> TRUE, vs |-> << >>, cs |-> cs]
  ELSE LET r == Eval(Head(ts), env, cs)
       IN  IF ~r.ok THEN [ok |-> FALSE, vs |-> << >>, cs |-> r.cs]
           ELSE LET rs == EvalArgs(Tail(ts), env, r.cs)
                IN  [rs EXCEPT !.vs = <<r.v>> \o @]

(* Fault model: the cost is charged inside the `with`, to the nested     *)
(* context that is then discarded.                                        *)
EdefCallStale(name, args, cs) ==
  LET context == CheckArgs(args, "concrete")
      d == Edefs[name]
  IN  IF context = "concrete"
      THEN IF \E i \in DOMAIN args : args[i].data = {} THEN Err(cs)
           ELSE Ok(AV(<< >>, {Apply(d.op, [i \in DOMAIN args |-> TheData(args[i])])}, context), cs)
      ELSE LET r == Eval(d.cost, [i \in DOMAIN args |-> InContext(args[i], "concrete")], Push(cs))
               shape == IF d.shape = "scalar" THEN << >> ELSE args[1].shape
           IN  IF ~r.ok \/ r.v.data = {} THEN Err(Pop(r.cs))
               ELSE Ok(AV(shape, {}, context), Pop(Accumulate(r.cs, context, TheData(r.v))))

(* The function _get_edef returns.  A constant call runs the Python      *)
(* function on the data (a None among them is a TypeError).  Otherwise   *)
(* shape$name and cost$name run, on the arguments put in context         *)
(* "concrete", inside a fresh ExecutionContext that is popped before the *)
(* cost is charged to the caller's context (lines 67-73).                *)
EdefCall(name, args, cs) ==
  LET context == CheckArgs(args, "concrete")
      d == Edefs[name]
  IN  IF context = "concrete"
      THEN IF \E i \in DOMAIN args : args[i].data = {} THEN Err(cs)
           ELSE Ok(AV(<< >>, {Apply(d.op, [i \in DOMAIN args |-> TheData(args[i])])}, context), cs)
      ELSE LET sc == [i \in DOMAIN args |-> InContext(args[i], "concrete")]
               r  == Eval(d.cost, sc, Push(cs))
               shape == IF d.shape = "scalar" THEN << >> ELSE args[1].shape
           IN  IF ~r.ok \/ r.v.data = {} THEN Err(Pop(r.cs))
               ELSE Ok(AV(shape, {}, context), Accumulate(Pop(r.cs), context, TheData(r.v)))

(* Fault model: the context is pushed and popped by hand rather than by  *)
(* `with`, so a raise in f leaves it on the stack.                        *)
ComputeBranchCostNoExitOnRaise(t, env, cs) ==
  LET r == Eval(t, env, Push(cs))
  IN  [ok |-> r.ok, v |-> r.v, cost |-> Current(r.cs)["none"],
       cs |-> IF r.ok THEN Pop(r.cs) ELSE r.cs]

(* _compute_branch_cost: f runs in a fresh context; its cost is what it  *)
(* charged under the context None.                                        *)
ComputeBranchCost(t, env, cs) ==
  LET r == Eval(t, env, Push(cs))
  IN  [ok |-> r.ok, v |-> r.v, cost |-> Current(r.cs)["none"], cs |-> Pop(r.cs)]

(* _compute_build_inner_cost: an unknown n is assumed_vector_size; the   *)
(* body is costed once, on an index AbstractValue((), Integer).          *)
ComputeBuildInnerCost(nv, body, env, cs) ==
  LET n == IF nv.data = {} THEN Config.assumed_vector_size ELSE TheData(nv)
      b == ComputeBranchCost(body, Append(env, AV(<< >>, {}, "none")), cs)
  IN  [ok |-> b.ok, n |-> n, v |-> b.v, cost |-> b.cost, cs |-> b.cs]

(* build charges first and then reads el.shape_type, an AttributeError   *)
(* for a body that returned a Python number: the charge stays.            *)
BuildOp(nv, body, env, cs) ==
  LET context == CheckArgs(<<nv>>, "none")
      b == ComputeBuildInnerCost(nv, body, env, cs)
      charged == Accumulate(b.cs, context, Config.build_malloc_cost + b.n * b.cost)
  IN  CASE ~b.ok     -> Err(b.cs)
        [] ~b.v.abs  -> Err(charged)
        [] OTHER     -> Ok(AV(<<b.n>> \o b.v.shape, {}, context), charged)

(* sumbuild reads el.shape_type before it charges.                        *)
SumbuildOp(nv, body, env, cs) ==
  LET context == CheckArgs(<<nv>>, "none")
      b == ComputeBuildInnerCost(nv, body, env, cs)
  IN  IF ~b.ok \/ ~b.v.abs THEN Err(b.cs)
      ELSE Ok(AV(b.v.shape, {}, context),
              Accumulate(b.cs, context,
                         b.n * b.cost + (b.n - 1) * NumElements(b.v.shape)))

LetOp(var, body, env, cs) ==
  LET context == CheckArgs(<<var>>, "concrete")
  IN  Eval(body, Append(env, var), Accumulate(cs, context, Config.let_cost))

(* if_then_else: the selection is charged first; an undecidable         *)
(* condition costs both branches in fresh contexts, asserts their shapes, *)
(* types and contexts agree, and charges max + if_epsilon * min.         *)
IfOp(cv, t, e, env, cs) ==
  LET context == CheckArgs(<<cv>>, "concrete")
      cs1 == Accumulate(cs, context, Config.if_selection_cost)
      b1 == ComputeBranchCost(t, env, cs1)
      b2 == ComputeBranchCost(e, env, b1.cs)
      hi == IF b1.cost >= b2.cost THEN b1.cost ELSE b2.cost
      lo == IF b1.cost >= b2.cost THEN b2.cost ELSE b1.cost
  IN  CASE cv.data = {} ->
             IF ~b1.ok THEN Err(b1.cs)
             ELSE IF ~b2.ok \/ ShapeType(b1.v) # ShapeType(b2.v) \/ b1.v.ctx # b2.v.ctx
             THEN Err(b2.cs)
             ELSE Ok(AbstractLike(b1.v),
                     Accumulate(b2.cs, context, hi + Config.if_epsilon * lo))
        [] TheData(cv) -> Eval(t, env, cs1)
        [] OTHER -> Eval(e, env, cs1)

Eval(t, env, cs) ==
  LET a(i) == t.a[i] IN
  CASE t.op = "var"      -> Ok(env[t.j], cs)
    [] t.op = "lit"      -> Ok(Py(t.j), cs)
    [] t.op = "edef"     -> LET r == EvalArgs(t.a, env, cs)
                            IN  IF r.ok THEN EdefCall(t.name, r.vs, r.cs) ELSE Err(r.cs)
    [] t.op = "build"    -> Then(Eval(a(1), env, cs), LAMBDA v, s : BuildOp(v, a(2), env, s))
    [] t.op = "sumbuild" -> Then(Eval(a(1), env, cs), LAMBDA v, s : SumbuildOp(v, a(2), env, s))
    [] t.op = "let"      -> Then(Eval(a(1), env, cs), LAMBDA v, s : LetOp(v, a(2), env, s))
    [] t.op = "if"       -> Then(Eval(a(1), env, cs), LAMBDA v, s : IfOp(v, a(2), a(3), env, s))
    [] t.op = "index"    -> LET r == EvalArgs(t.a, env, cs)
                            IN  IF r.ok THEN IndexOp(r.vs[2], r.cs) ELSE Err(r.cs)
    [] t.op = "size"     -> Then(Eval(a(1), env, cs), LAMBDA v, s : SizeOp(v, s))
    [] t.op = "tuple"    -> LET r == EvalArgs(t.a, env, cs)
                            IN  IF r.ok THEN MakeTuple(r.vs, r.cs) ELSE Err(r.cs)
    [] t.op = "select"   -> Then(Eval(a(1), env, cs), LAMBDA v, s : GetTupleElement(t.j, v, s))
    [] t.op = "fold"     -> LET r == EvalArgs(t.a, env, cs) IN FoldOp(r.cs)

(* The driver: one evaluation of a function body in the context on top;  *)
(* whatever it raises reaches the driver, every `with` on the way having  *)
(* popped its context.                                                     *)
Init ==
  /\ ctxs = <<NoCosts>>
  /\ outcome = "ok"
  /\ calls = 0
  /\ last = 0

Evaluate ==
  /\ calls < MaxCalls
  /\ \E p \in DOMAIN Programs :
       LET r == Eval(Programs[p], Args, ctxs)
       IN  /\ ctxs' = r.cs
           /\ outcome' = IF r.ok THEN "ok" ELSE "error"
           /\ last' = p
           /\ calls' = calls + 1

Next == Evaluate

Spec == Init /\ [][Next]_vars

-----------------------------------------------------------------------------
(* The reference: the formulas of abstract.py without the context stack.  *)
(* A value is known at compile time (ct) when it is a Python number or a  *)
(* constant call on such values; an operation on ct inputs runs at        *)
(* compile time and is free, every other operation is charged once, when *)
(* it runs, and a build or sumbuild always runs.                          *)
RV(v, ct) == [abs |-> v.abs, shape |-> v.shape, data |-> v.data, tup |-> v.tup, els |-> v.els, ct |-> ct]

(* What cost$name computes from the arguments' shapes and data.          *)
RECURSIVE CostFn(_, _)
CostFn(t, env) ==
  CASE t.op = "var"  -> TheData(env[t.j])
    [] t.op = "lit"  -> t.j
    [] t.op = "size" -> env[t.a[1].j].shape[1]
    [] t.op = "edef" -> Apply(Edefs[t.name].op, [i \in DOMAIN t.a |-> CostFn(t.a[i], env)])

(* A sum of n elements takes n - 1 additions, and an empty one none.     *)
Additions(n) == IF n > 0 THEN n - 1 ELSE 0

RECURSIVE Ref(_, _)
Ref(t, env) ==
  LET r(i) == Ref(t.a[i], env)
      N(v) == IF v.data = {} THEN Config.assumed_vector_size ELSE TheData(v)
      Free(v, c) == IF v.ct THEN 0 ELSE c
      body == Ref(t.a[2], Append(env, RV(AV(<< >>, {}, "none"), FALSE)))
  IN
  CASE t.op = "var" -> [v |-> env[t.j], c |-> 0]
    [] t.op = "lit" -> [v |-> RV(Py(t.j), TRUE), c |-> 0]
    [] t.op = "edef" ->
         LET rs == [i \in DOMAIN t.a |-> r(i)]
             vs == [i \in DOMAIN t.a |-> rs[i].v]
             c0 == SumFunction([i \in DOMAIN t.a |-> rs[i].c])
             d  == Edefs[t.name]
         IN  IF \A i \in DOMAIN vs : vs[i].ct
             THEN [v |-> RV(AV(<< >>, {Apply(d.op, [i \in DOMAIN vs |-> TheData(vs[i])])}, "concrete"), TRUE),
                   c |-> c0]
             ELSE [v |-> RV(AV(IF d.shape = "scalar" THEN << >> ELSE vs[1].shape, {}, "none"), FALSE),
                   c |-> c0 + CostFn(d.cost, vs)]
    [] t.op = "index" ->
         [v |-> RV(AV(Tail(r(2).v.shape), {}, "none"), r(2).v.ct),
          c |-> r(1).c + r(2).c + Free(r(2).v, Config.index_cost)]
    [] t.op = "size" ->
         [v |-> RV(AV(<< >>, {r(1).v.shape[1]}, "none"), r(1).v.ct),
          c |-> r(1).c + Free(r(1).v, Config.size_cost)]
    [] t.op = "build" ->
         [v |-> RV(AV(<<N(r(1).v)>> \o body.v.shape, {}, "none"), FALSE),
          c |-> r(1).c + Config.build_malloc_cost + N(r(1).v) * body.c]
    [] t.op = "sumbuild" ->
         [v |-> RV(AV(body.v.shape, {}, "none"), FALSE),
          c |-> r(1).c + N(r(1).v) * body.c
                + Additions(N(r(1).v)) * NumElements(body.v.shape)]
    [] t.op = "let" ->
         LET b == Ref(t.a[2], Append(env, r(1).v))
         IN  [v |-> b.v, c |-> r(1).c + Free(r(1).v, Config.let_cost) + b.c]
    [] t.op = "tuple" ->
         LET rs == [i \in DOMAIN t.a |-> r(i)]
             ct == \A i \in DOMAIN t.a : rs[i].v.ct
         IN  [v |-> RV(TupV([i \in DOMAIN t.a |-> rs[i].v], {"tuple"}, "none"), ct),
              c |-> SumFunction([i \in DOMAIN t.a |-> rs[i].c])
                    + (IF ct THEN 0 ELSE Config.let_cost * Len(t.a))]
    [] t.op = "select" ->
         LET tv == r(1).v
         IN  [v |-> [tv.els[t.j + 1] EXCEPT !.data = IF tv.data = {} THEN {} ELSE @, !.ct = tv.ct],
              c |-> r(1).c + Free(tv, Config.select_cost)]
    [] t.op = "if" ->
         LET sel == r(1).c + Free(r(1).v, Config.if_selection_cost)
             hi  == IF r(2).c >= r(3).c THEN r(2).c ELSE r(3).c
             lo  == IF r(2).c >= r(3).c THEN r(3).c ELSE r(2).c
         IN  CASE r(1).v.data = {} ->
                    [v |-> [r(2).v EXCEPT !.data = {}], c |-> sel + hi + Config.if_epsilon * lo]
               [] TheData(r(1).v) -> [v |-> r(2).v, c |-> sel + r(2).c]
               [] OTHER -> [v |-> r(3).v, c |-> sel + r(3).c]

RArgs == [i \in DOMAIN Args |-> RV(Args[i], FALSE)]

(* The context a value known at compile time carries: "concrete" for a   *)
(* constant call's AbstractValue, None for a Python number.               *)
RefCtx(v) == IF v.ct /\ v.abs THEN "concrete" ELSE "none"

(* The programs the backend refuses: index or size of what is not a      *)
(* vector, an element a value that is no tuple does not have, a fold,    *)
(* and an undecidable if whose branches differ in shape and type or in   *)
(* context.                                                                *)
(* A refused subterm refuses the term; a decided if looks at one branch. *)
RECURSIVE Rejects(_, _)
Rejects(t, env) ==
  LET v(i) == Ref(t.a[i], env).v
      sub  == \E i \in DOMAIN t.a : Rejects(t.a[i], env)
      idx  == RV(AV(<< >>, {}, "none"), FALSE)
  IN
  CASE t.op \in {"var", "lit"} -> FALSE
    [] t.op = "fold"   -> TRUE
    [] t.op \in {"edef", "tuple"} -> sub
    [] t.op = "index"  -> sub \/ v(2).shape = << >>
    [] t.op = "size"   -> sub \/ v(1).shape = << >>
    [] t.op = "select" -> sub \/ ~v(1).tup \/ t.j >= Len(v(1).els)
    [] t.op \in {"build", "sumbuild"} -> Rejects(t.a[1], env) \/ Rejects(t.a[2], Append(env, idx))
    [] t.op = "let"    -> Rejects(t.a[1], env) \/ Rejects(t.a[2], Append(env, v(1)))
    [] t.op = "if" ->
         \/ Rejects(t.a[1], env)
         \/ CASE v(1).data = {} ->
                  \/ Rejects(t.a[2], env) \/ Rejects(t.a[3], env)
                  \/ ShapeType(v(2)) # ShapeType(v(3))
                  \/ RefCtx(v(2)) # RefCtx(v(3))
              [] TheData(v(1)) -> Rejects(t.a[2], env)
              [] OTHER -> Rejects(t.a[3], env)

(* The driver's context holds one cost map whatever the evaluation did:   *)
(* every context an operation entered has been left.                     *)
TypeOK ==
  /\ Len(ctxs) = 1
  /\ ctxs[1] \in [Keys -> Int]
  /\ outcome \in {"ok", "error"}
  /\ calls \in 0..MaxCalls
  /\ last \in {0} \cup DOMAIN Programs

(* The backend raises exactly on the programs it refuses: an assertion   *)
(* of index, size or if_then_else (lines 81, 91, 174-175) or an element  *)
(* get_tuple_element cannot find, and never a TypeError or               *)
(* AttributeError on a program the reference accepts.  Where a Python    *)
(* number meets shape_type or an abstract argument (lines 37, 121, 127,  *)
(* 141) the code does raise on accepted programs: EvaluationSucceeds     *)
(* shows those, and this property is checked on bodies without them.    *)
RaisesExactlyWhenRejected ==
  [][outcome' = "error" <=> Rejects(Programs[last'], RArgs)]_vars

(* A well-typed function body is evaluated without raising: no operation *)
(* fails an assertion or calls a concrete Python function on a None.      *)
EvaluationSucceeds == outcome = "ok"

(* Each evaluation charges the driver's context, under the context None, *)
(* exactly what the reference cost of the body is: the nested contexts   *)
(* of edef calls, branches and build bodies neither lose a charge nor    *)
(* leak one, and the charge lands in the caller's context (lines 72-73). *)
CostMatchesReference ==
  [][outcome' = "ok" =>
       ctxs'[1]["none"] = ctxs[1]["none"] + Ref(Programs[last'], RArgs).c]_vars
====
