# TLA+ models of the ksc rewriting core

This directory holds TLA+ models of the rule-based rewriting core of
knossos-ksc (`src/src/python/ksc/rewrites.py`) and of its abstract-interpretation
cost backend (`backends/abstract.py`), the TLC configurations that
check them, and `PROJECT.json`. `PROJECT.json` lists the components, runs,
mutants, the source lines each definition models (`map`), the findings and
the hazards.

## 1. The system

`rewrites.py` finds every place in an expression tree where a rewrite rule
can fire, and applies a chosen one. The parts:

| Part | Code | State | Operations |
|---|---|---|---|
| Expression tree, Location | `ksc.expr`, `cav_subst`, `alpha_equiv` (not under src/) | immutable trees; a Location is a tuple of 0-based child indices | navigation, `replace_subtree` with renaming, `make_nonfree_var`, `are_alpha_equivalent` |
| Traversal | `AbstractMatcher.find_all_matches`, `_matches_with_env` (61-75) | a recursive generator: one suspended call per node on the current path | yield the node's own matches, then recurse into each child |
| Binding environment | `_update_env_for_subtree` (88-112) | persistent map name -> Location of the Let binding it | Let body: set; Let rhs: unchanged; Lam: discard |
| Matchers | `RuleMatcher`, `inline_var`, `delete_let`, `ParsedRuleMatcher` | none; each is a pure function of the node, its path and env | `matches_here`, `matches_for_possible_expr`, `apply_at` with assertions |
| RuleSet | `RuleSet` (168-192) | the index filter term -> list of rules, built once | `matches_here` over the indexed rules |
| Template matching | `_combine_substs`, `find_template_subst` (321-419) | a substitution being built | Var, Let, Lam and default cases |
| Replacement instantiation | `_maybe_add_binder_to_subst`, `SubstPattern` (422-489) | substitution extended with fresh binders | instantiate a replacement |
| Rule registry | `_rule_dict`, `rule`, `RuleMatcher.__init__`, `__reduce__`, `parse_rule_str`, `parse_rules_from_file` | the process-wide dict name -> matcher | register (duplicates refused), look up by name when a Match is unpickled |
| Cost model | `backends/abstract.py`; `ExecutionContext`, `AbstractValue` in `ksc.abstract_value` (not under src/) | a global stack of ExecutionContexts, each a map context -> accumulated cost | edef calls (constant or abstract), index, size, build, sumbuild, let, if_then_else, make_tuple, get_tuple_element |
| C++ entry points | `cgen.py` | none: pure functions from ks decls to C++ text | `ks_cpp_type`, `entry_point_cpp_type`, `arg_types_of_decl`, `generate_cpp_entry_point` (plain, elementwise), `generate_cpp_entry_points` |
| Tracing edefs, tests, benchmark shim | `tracing/functions/core.py`, `gmm/test.py`, `bench/`, `test/` | none worth checking | declarations, drivers |

How the parts interact: a caller builds matchers, which register themselves
in the registry. It runs `find_all_matches` of a RuleSet on a tree. The
traversal carries the environment down the tree and, at each node, asks the
rules indexed under the node's filter term for matches. A parsed rule matches
by `find_template_subst`. The caller picks one Match and calls
`apply_rewrite`, which calls the rule's `apply_at`. `apply_at` re-checks its
assertions and builds a new tree with capture-avoiding replacement.

Nothing runs concurrently and nothing is persisted. The behaviours that are
hard to test are these:

- Two executions are interleaved: the lazy generator and its consumer.
- State computed during the traversal is used at apply time: the
  environment, `binding_location` and the substitution.
- Names are shadowed and reused: by Let and Lam binders in the subject, and
  by binders in templates.
- Fresh names are chosen for new binders.
- The index and the per-rule matchers must agree.
- Registration is a sequence of steps that can fail part-way, across a whole
  process.

## 2. Modules

| Module | Models | State / actions |
|---|---|---|
| `KsExpr` | expression trees and the helpers of cav_subst, filter_term, alpha_equiv (spec-modelled) | operators only: `Subtree`, `ReplaceNode`, `Preorder`, `FreeVars`, `Canon`/`AlphaEquiv`, `MakeNonfreeVar`, `CavReplace`; also the input generator `Grow` |
| `TemplateMatch` | `_combine_substs`, `find_template_subst` and its cases, `_maybe_add_binder_to_subst`, `SubstPattern` | recursive operators; a failed match (None) is `{}` |
| `Matchers` | the environment update, every matcher's `matches_for_possible_expr` and `apply_at`, `RuleSet`, `Match.apply_rewrite`, the assertions of `apply_at` | operators over a constant `RuleList` |
| `TraversalAbstract` | what `find_all_matches` promises: the pre-order sequence of matches, each node's environment read off its path | `out`; action `Produce` appends the next match |
| `Traversal` | the generator as it runs | `stack` of frames `[path, env, pending, next]`, one per active `_matches_with_env` call; actions `YieldHere` (line 68), `Descend` (69-75), `Return` |
| `MatchCheck` | one call of `find_template_subst` from `ParsedRuleMatcher.matches_for_possible_expr`, against a reference | `rule`, `subject` (fixed after Init); `Found` is the call |
| `Rewriter` | a caller: find matches, apply any one, repeat | `expr`, `origin`, `steps`, `last`, `offered`; action `Rewrite` |
| `Registry` | the registry and the three ways matchers are made | `reg` (`_rule_dict`), `held` (matchers referenced by Matches), `outcome`; actions `ParseRuleStr`, `ParseRulesFromFile`, `MatchFound` |
| `CostModel` | `backends/abstract.py`: every operation, the context stack, and a driver evaluating function bodies | `ctxs` (`_execution_contexts`), `outcome`, `calls`, `last`; action `Evaluate` runs one body through the recursive `Eval`; the reference cost `Ref` and the reference refusal `Rejects` |
| `CGen` | `cgen.py` | `bindings`, `elementwise`, `useTorch` (fixed after Init); `Unit` is the call of `generate_cpp_entry_points` |
| `MCRules`, `MCTraversal`, `MCRewriter`, `MCMatchCheck`, `MCRegistry`, `MCCostModel`, `MCCGen` | the model values for TLC | |

Notes on correspondence:

- A Python generator is modelled as a stack of frames. Each TLC step is one
  resumption.
- `pending` holds the node's own matches: a frame is created with the
  matches `matches_here` would yield.
- `next` is the `enumerate` index of the `for` loop.
- A Match refers to its rule by name, exactly as `__reduce__` does.
- A parsed rule's type checks (lines 279-283) are abstracted to a `valid`
  flag.
- Types are abstracted to `"Float"` (any value) and `"Lam"` (a function). A
  template variable declared `"Any"` accepts both.
- In `CostModel`, a ks function body is a term, and `Eval` plays the
  Python the backend runs. Each operation passes the context stack along,
  as the Python calls share the global stack. Entering a `with
  ExecutionContext()` is `Push` and leaving it is `Pop`, on the error path
  too. An exception is an `Err` result that every caller passes on.
- An AbstractValue is a record: a shape, data (`{}` for None), a context
  (`"none"` for None, or `"concrete"`) and whether it is abstract at all.
  Its type is Vec^d of a scalar, where d is the length of the shape. A
  tuple has `tup` set and its element values in `els` (its shape is theirs,
  as the Python shape is the tuple of the element shapes); its data is
  `{"tuple"}`, or `{}` once `abstract_like` has dropped it.
  `ShapeType` is what the `if` assertion compares.
- In `CGen`, a C++ type is the tree of the names the code prints
  (`ks::Tuple`, `std::tuple`, `ks::tensor` with its rank, `torch::Tensor`,
  the scalar names); the punctuation is left out. An entry point is
  abstracted to its parameters, the identifiers it declares and uses
  (`arg<i>`, `ks_arg<i>`, `arg_data<i>`, `ret`, ...), and the ks type it
  stores into a float. A `ValueError` is `{}`.
- The shape and cost functions of an edef are terms, evaluated like the
  body. The model evaluates the cost function, and takes the shape
  function's result from a `shape` field; neither charges the caller.

## 3. Runs

| Run | Config | Checks | Result |
|---|---|---|---|
| traversal | `MCTraversal.cfg` | `TypeOK`, `EnvIsLetScope`, `RuleSetEquivalence`, `Refinement` | pass (62,988 states) |
| rewriter | `MCRewriter.cfg` | `TypeOK`, `MatchesPassApplyAssertions`, `SemanticsPreserved` | pass (101,337 states) |
| match_soundness | `MCMatchCheck.cfg` | `MatchSound`, `MatchComplete` | pass (25,290 states) |
| match_capture | `MCMatchCapture.cfg` | `MatchCaptureFree` | violation: a code bug |
| filter_gate | `MCMatchFilter.cfg` | `FilterOnlyPrunes` (spec 3) | violation: the spec and the code differ |
| inline_spec | `MCRewriterInline.cfg` | `InlineVarAsSpecified` (spec 4.3) | violation: the spec and the code differ |
| registry | `MCRegistry.cfg` | `TypeOK`, `PickleRoundTrip`, `OnlyValidRegistered` | pass (437 states) |
| registry_atomic | `MCRegistryAtomic.cfg` | `NoPartialRegistration` (spec 7) | violation: the spec and the code differ |
| cost_model | `MCCostModel.cfg` | `TypeOK`, `RaisesExactlyWhenRejected`, `CostMatchesReference` | pass (1,231 states) |
| cost_misreported | `MCCostMisreported.cfg` | `CostMatchesReference` | violation: two code bugs |
| cost_mixed_contexts | `MCCostMixed.cfg` | `EvaluationSucceeds` | violation: two code bugs |
| cgen_elementwise | `MCCGen.cfg` | `EntryPointCompiles` | violation: a code bug |

What each property says:

- **EnvIsLetScope.** The environment built step by step by `env.set` and
  `env.discard` equals the declarative scope: the innermost binder of each
  name on the path, if it is a Let.
- **RuleSetEquivalence** (spec 8). When the generator is exhausted, its
  matches are the union of what each rule would find alone.
- **Refinement.** `Traversal` implements `TraversalAbstract` under the
  identity mapping on `root` and `out`: every yield appends the next
  pre-order match, and descents and returns are stuttering steps.
- **MatchesPassApplyAssertions.** Every match offered on every reachable
  tree passes the assertions `apply_at` makes (lines 206, 236, 308, 314).
- **SemanticsPreserved.** The meaning of the tree never changes. The meaning
  is the tree with every Let inlined and binders numbered by de Bruijn level.
- **MatchSound** (spec 8). A substitution `find_template_subst` returns
  binds every template variable to a subtree of an accepted type, and
  instantiates the template to the subject up to alpha-renaming.
- **MatchComplete.** Whenever some substitution instantiates the template to
  the subject without capture, `find_template_subst` finds one. The
  reference enumerates substitutions: template variables to subterms of the
  subject, binders to the subject's variables.
- **MatchCaptureFree.** The substitution found instantiates without
  capture: no template variable stands for a subtree that uses a variable
  the subject binds around it. This is violated.
- **FilterOnlyPrunes** (violation run only). Every subject a parsed rule's
  template matches has the filter term the rule declares,
  `get_filter_term(template)`, so the index only prunes (spec 3).
- **PickleRoundTrip.** `rule(m.rule.name)` gives back the matcher that
  produced the Match, whatever was loaded after it.
- **OnlyValidRegistered.** A malformed rule never ends up in the registry.
- **TypeOK (CostModel).** After every evaluation, the stack is back to the
  driver's single context, whatever the evaluation entered, also when it
  raised inside a nested `with` (an index assertion in a build body).
- **RaisesExactlyWhenRejected.** An evaluation raises exactly when the
  reference `Rejects` refuses the body:
  - `index` or `size` of what is not a vector;
  - an element a tuple does not have, or `fold`;
  - an undecidable `if` whose branches differ in shape, type or context
    (the assertion at 174-175; `ShapeType` compares nested tuple shapes).
  - It never raises a TypeError or AttributeError on a body the reference
    accepts. Where a Python number meets `shape_type` or an abstract
    argument (lines 37, 121, 127, 141) the code does raise on accepted
    bodies; those are findings 6, 8 and 10, shown by `cost_mixed_contexts`.
    The passing run's bodies are the ones without them.
- **EvaluationSucceeds** (violation run only). A body evaluates without
  raising.
- **CostMatchesReference.** Each evaluation charges the driver's context
  (under the context None) exactly the reference cost of the body.
  - The reference `Ref` uses the same per-operation formulas but no stack.
  - A value known at compile time is a Python number, or the result of a
    constant call on such values. An operation on such values is free.
  - Every other operation is charged once, when it runs.
  - An undecidable `if` costs `max + if_epsilon * min` of its branches.
  - A sum of n elements takes n - 1 additions, and an empty sum none
    (`Additions`).
  - This is what the nested contexts must achieve. Nothing charged inside
    an edef's shape or cost function, a branch or a build body is lost or
    leaked. The edef's cost lands in the caller's context (lines 72-73).
- **EntryPointCompiles.** Every identifier a generated entry point uses is
  one it declares, an elementwise entry stores into its float result only a
  Float, Integer or Bool.

The findings are in `PROJECT.json`:

1. **Template matching captures** (`find_template_subst_let`, 390-402).
   - A template variable in the body of a template Let can stand for a
     subject subtree that uses the subject's bound variable. `(let x a b)`
     matches `(let x x x)` with `b = x`.
   - Two template binders can stand for one subject name.
     `(let x a (let y b x))` matches `(let x x (let x c x))`.
   - Used by `apply_at`, the rule `(let x a b) ==> b` turns
     `(lam x (let x c x))` into `(lam x x)`.
   - The alpha-equivalence assertion at line 308 passes, because the
     template instantiates back to the subject itself.
   - `MCMatchCapture.cfg` shows the capture itself. The Rewriter with
     `drop_let` in its rule list shows the changed meaning
     (`SemanticsPreserved`); no run keeps that second view.
2. **`inline_var` keeps the Let and replaces only the occurrence.** Spec 4.3
   says the Let is replaced by its body. Spec 8's example, which deletes the
   Let afterwards, agrees with the code.
3. **`parse_rules_from_file` registers rules partially.** It registers the
   rules that come before a malformed one, then raises.
4. **An empty sumbuild has a negative cost** (abstract.py 132).
   `(n - 1) * num_elements` is -num_elements for n = 0. The run
   `cost_misreported` holds this body and finding 5's; each alone
   violates `CostMatchesReference`.
5. **A build whose size is a constant call is free** (abstract.py 113,
   125). build takes its context from n. With n = `add(1, 2)`, the context
   is `"concrete"`, a key no caller reads. The same build costs 11 with the
   literal 3.
6. **One constant argument makes a call constant** (abstract.py 37-41).
   `check_args_and_get_context` skips arguments whose context is None. So
   `mul(c, add(1, 1))` runs the Python `mul` on c's None data, a TypeError.
7. **A zero-argument elementwise entry point uses `arg0`** (cgen.py 163,
   165). The argument check at 138 is `all` over an empty list. The code
   then calls `torch::empty_like(arg0)`, and the generated C++ does not
   compile. A ks function returning a tuple fails the same way: only the
   argument types are checked, and the result is stored into a float.
8. **A tuple of a literal raises** (abstract.py 141). `make_tuple` reads
   `shape_type` of every argument, though `check_args_and_get_context`
   accepts Python numbers. `(tuple 1 x)` raises AttributeError. The run
   `cost_mixed_contexts` holds this body, finding 6's and finding 10's
   two; each alone violates `EvaluationSucceeds`, and TLC reports the first
   it reaches.
9. **A template that is a template variable only matches variables**
   (rewrites.py 292). A parsed rule declares the filter term of its
   template, here Var. `matches_here` and the RuleSet index (160, 190)
   then never offer it a call or a constant, though
   `find_template_subst_var` would match one. `(rule "mul_one" ((a :
   Float)) a (g a c))` never fires on `(f x)`. Spec 3 says the filter term
   is "never a correctness gate beyond equality of outermost shape"; the
   comment at 345-346 takes the same for granted.
10. **A build of a literal raises** (abstract.py 121, 127). `build` and
   `sumbuild` read `el.shape_type` of what the body returned.
   `(build 2 (lam i 1.0))` returns the Python number 1.0 from its body and
   raises AttributeError, after build has charged its cost; sumbuild raises
   before charging. The fault is make_tuple's (finding 8) once more.

Every property of a passing run has a mutant in `PROJECT.json`: a fault
model, defined just before the definition it replaces, that TLC shows
breaking the property.

## 4. Bounds, and why they are enough

**Trees.** Every tree of depth at most 3 (4,215 trees) over:

- variable names `x` and `t_0`;
- the constant `c`;
- a unary `f` and a binary `g`;
- Let and Lam.

Why these are enough:

- `t_0` is also the first fresh name `make_nonfree_var` tries, so capture by
  a fresh binder is reachable.
- Two names give shadowing by Let and by Lam, and Lets whose rhs mentions
  their own name.
- Depth 3 gives a Lam between a Let and its use, and two nested Lets.

**Fresh names.** `t_0` to `t_3`. At most three names are ever excluded at
once.

**Rules.** `inline_var` and `delete_let`, plus these parsed rules:

- `name_first_arg` introduces a binder: `(g a b) ==> (let t a (g t b))`,
  with `b : Any`.
- `inline_call_arg` has a template with a binder: `(let x a (f x)) ==> (f a)`.
- `dead_inner_let` has two template binders: `(let x a (let y b x)) ==> (let x a x)`.
- `drop_let` is delete_let written as a rule: `(let x a b) ==> b`.
- `same_arg` has a repeated variable: `(g a a) ==> (f a)`.
- `lam_arg` has a template Lam: `(lam y (g y a)) ==> (lam y (g a y))`.

Which run uses which rules:

- The traversal run uses the built-ins, `inline_call_arg`, `name_first_arg`
  and `dead_inner_let`.
- The rewriter run uses the built-ins, `inline_call_arg` and
  `name_first_arg`. These are rules whose templates have no template
  variable under a binder, so the capture above cannot occur.
- `MatchCheck` uses all six parsed rules against every one of the 4,215
  trees.

**Rewriter.** `MaxSteps = 3` rewrites in a row. This is enough for a
rewrite to create the site of a later one.

**Registry.** Two built-ins, three rules (`r1`, `r2`, `r3`) in several
versions, and three files:

- a file whose second rule is malformed;
- a file reloading `r1`;
- a good file.

`parse_rule_str` is applied to three rules:

- one clashing with a built-in;
- one malformed;
- one good.

**Cost model.** The costs (index 2, size 1, let 1, malloc 5, select 4, selection 3,
epsilon 1, assumed size 3) differ from each other, so a charge that is
lost, doubled or put under the wrong context changes the total. The edefs:

- `add`, `mul` and `lt` on scalars;
- `dot`, whose cost function `mul(size(x), 2)` itself runs a `size` and a
  constant `mul` in the nested context.

The arguments are a vector of 3 and an unknown scalar. The fifteen bodies
cover every operation:

- an edef call;
- builds with a size from `size`, from a let and from a literal;
- sumbuilds of known and unknown size;
- an undecidable and a decided `if`;
- lets of an abstract and of a constant value;
- a tuple let-bound and selected from, a nested tuple, tuples joined by an
  undecidable `if` (whose selected element must lose its known size);
- three the backend refuses: `if` branches of vector sizes 2 and 3, an
  index of a scalar in a build body, and a `fold`.

Three evaluations in a row give 1,231 states. The driver stops after
`MaxCalls` evaluations, so deadlock is not checked.

`if_epsilon` is a small float in practice. It is the integer 1 here,
because the properties depend only on its sign.

**C++ entry points.** The decls are:

- a function of no arguments;
- one of two Floats;
- one of a single tuple of two Floats, which `arg_types_of_decl` spreads;
- one of a Float tensor;
- one returning a tuple.

Each call binds one or two of them (or a name with no decl) under one C++
name, with both flags either way: 168 calls. This covers every branch of
the two type translations and of both generators.

## 5. Fairness

No fairness is assumed and no run checks a liveness property. The one
candidate, that the `find_all_matches` generator ends, holds by
construction: it is a `for` loop over the finite children of a finite tree
(rewrites.py 69). Its other half, that the drained generator has produced
every match, follows from `Refinement` with `RuleSetEquivalence`. Every
property is about safety.

## 6. Not modelled

- **Builds of tuples.** `Type.num_elements` of a tuple type (not in this
  repository) would be needed by a sumbuild of tuples; no body builds one.
- **The driver of the abstract backend.** It is not in this repository. The
  model assumes it evaluates bodies one after another in one context and
  reads the costs under None. What it does after an exception is unknown:
  the charges made before the raise (the selection cost at 167, for one)
  stay in its context, and no property says whether they should.
- **Types beyond Float/Lam, and re-inference.** Types are reduced to
  Float/Lam, and the re-inference of Any types in `SubstPattern.visit` is
  not modelled. A node's type here is computed from the node.
- **Rule side conditions.** Only the default side condition (always true)
  is modelled.
- **Tupled Lets, and If, Assert and Build nodes.** Tupled Lets are rejected
  by assertion in the code. If, Assert and Build are visited generically, as
  Call is.
- **The tracing edefs, the tests and the benchmark shim.** They are
  declarations and drivers. `tracing/functions/core.py` binds edefs through
  `make_edef` and builds trace nodes through `TraceableFunction`, neither in
  this repository; the shape its `get_tuple_element` computes,
  `x_shape[index]`, is the one `GetTupleElement` models for abstract.py.
  The benchmark shim only turns pytest-benchmark's calibration into a round
  count. `utils.encode_name` and the mangling of names
  in `cgen.py` are left out, because no property depends on the names.
- **Helper modules not under src/.** `ksc.expr`, `cav_subst` and
  `alpha_equiv` are not under src/, so their definitions are written from
  the spec and marked `spec_modelled` in the map.

## 7. Plan

Modules are built leaves first:

1. `KsExpr`
2. `TemplateMatch`
3. `Matchers`
4. `TraversalAbstract` / `Traversal` (the refinement)
5. `MatchCheck` (template matching against its reference)
6. `Rewriter` (the composition of traversal, matchers and instantiation)
7. `Registry`
8. `CostModel` (the cost backend against its reference)
9. `CGen` (the C++ entry points)

Still to do:

- **More rule shapes.** Rules with Lam binders, the spec-8 `distrib` scenario,
  and rules with several template variables of type Any.
