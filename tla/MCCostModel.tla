---------------------------- MODULE MCCostModel ----------------------------
(* Costs that differ from each other, so a charge made twice, lost or put *)
(* under the wrong context shows.  Edefs: add and mul on scalars, lt, and *)
(* dot, whose cost function mul(size(x), 2) runs index/size and a        *)
(* constant mul in the nested context.  Arguments: x a vector of three   *)
(* with no data, c a scalar whose value is unknown.                       *)
EXTENDS CostModel

MCConfig == [index_cost |-> 2, size_cost |-> 1, let_cost |-> 1,
             build_malloc_cost |-> 5, select_cost |-> 4, if_selection_cost |-> 3,
             if_epsilon |-> 1, assumed_vector_size |-> 3]

MCEdefs == [add |-> [cost |-> Lit(1), shape |-> "like1", op |-> "add"],
            mul |-> [cost |-> Lit(2), shape |-> "like1", op |-> "mul"],
            lt  |-> [cost |-> Lit(1), shape |-> "scalar", op |-> "lt"],
            dot |-> [cost |-> Edef("mul", <<Size(TVar(1)), Lit(2)>>),
                     shape |-> "scalar", op |-> "mul"]]

X == TVar(1)
C == TVar(2)

MCArgs == << AV(<<3>>, {}, "none"), AV(<< >>, {}, "none") >>
MCArgsEmpty == << AV(<<0, 3>>, {}, "none"), AV(<< >>, {}, "none") >>

(* Bodies whose every call is costed as the reference says, with tuples  *)
(* selected from, nested and joined by an undecidable if, and three the   *)
(* backend refuses: an if whose branches build vectors of sizes 2 and 3,  *)
(* an index of a scalar inside a build body's nested context, and a fold. *)
MCPrograms ==
  << Edef("dot", <<X, X>>),
     Build(Size(X), Edef("mul", <<Index(TVar(3), X), Lit(2)>>)),
     Sumbuild(Lit(2), Index(TVar(3), X)),
     If(C, Edef("dot", <<X, X>>), Sumbuild(Size(X), Index(TVar(3), X))),
     If(Edef("lt", <<Lit(1), Lit(2)>>), Edef("dot", <<X, X>>), C),
     LetIn(Size(X), Build(TVar(3), Index(TVar(4), X))),
     LetIn(Lit(2), Edef("mul", <<C, TVar(3)>>)),
     Sumbuild(C, Index(TVar(3), X)),
     LetIn(Tuple(<<X, C>>), Edef("mul", <<Select(1, TVar(3)), Lit(2)>>)),
     Select(0, If(C, Tuple(<<X, C>>),
                     Tuple(<<Build(Lit(3), Index(TVar(3), X)), Edef("dot", <<X, X>>)>>))),
     Select(0, Select(1, Tuple(<<C, Tuple(<<X>>)>>))),
     LetIn(Build(Lit(2), Index(TVar(3), X)),
           Build(Select(0, If(C, Tuple(<<Size(TVar(3))>>), Tuple(<<Size(TVar(3))>>))),
                 Index(TVar(4), X))),
     If(C, Build(Lit(2), Index(TVar(3), X)), Build(Lit(3), Index(TVar(3), X))),
     Build(Lit(2), Index(TVar(3), C)),
     Fold(Lit(0), X) >>

(* Bodies the backend charges other than the reference does, with x a   *)
(* matrix of no rows: the sum of its rows, and a build whose size is a   *)
(* constant call rather than a literal.  Each is misreported alone.       *)
MCProgramsMisreported ==
  << Sumbuild(Size(X), Index(TVar(3), X)),
     Build(Edef("add", <<Lit(1), Lit(2)>>), Index(TVar(3), X)) >>

(* Python numbers among abstract values: an abstract scalar times a      *)
(* constant call, a tuple of a literal and a vector, and a build and a    *)
(* sumbuild whose body is a literal.  Each raises alone.                  *)
MCProgramsMixed ==
  << Edef("mul", <<C, Edef("add", <<Lit(1), Lit(1)>>)>>), Tuple(<<Lit(1), X>>),
     Build(Lit(2), Lit(1)), Sumbuild(Lit(2), Lit(1)) >>

=============================================================================
