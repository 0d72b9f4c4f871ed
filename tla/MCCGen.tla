------------------------------- MODULE MCCGen -------------------------------
(* Decls: a function of no arguments, of two Floats, of one tuple of two *)
(* Floats (spread by arg_types_of_decl), of a Float tensor, and one       *)
(* returning a tuple.  Each binding generates one of them, or names a    *)
(* decl that is not there.                                                 *)
EXTENDS CGen

Tensor1 == Ty("Tensor", 1, <<Float>>)
Pair == Ty("Tuple", 0, <<Float, Float>>)

MCDecls == << [name |-> "f0", args |-> << >>, ret |-> Float],
              [name |-> "f2", args |-> <<Float, Float>>, ret |-> Float],
              [name |-> "g2", args |-> <<Pair>>, ret |-> Float],
              [name |-> "t1", args |-> <<Tensor1>>, ret |-> Tensor1],
              [name |-> "p1", args |-> <<Float>>, ret |-> Pair] >>

(* One binding, or two under the same C++ name, as when overloads of a   *)
(* ks function are exported under one name.                               *)
MCBinding == {<<"entry", n>> : n \in {"f0", "f2", "g2", "t1", "p1", "none"}}
MCBindings == {<<b>> : b \in MCBinding} \cup {<<b, c>> : b, c \in MCBinding}
=============================================================================
