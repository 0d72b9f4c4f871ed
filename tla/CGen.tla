-------------------------------- MODULE CGen --------------------------------
(***************************************************************************)
(* The C++ entry points cgen.py generates for ks functions.  A ks type is *)
(* a record [kind, rank, ch]; a C++ type is the tree the code prints,     *)
(* [name, rank, args], the punctuation left out.  The code of an entry   *)
(* point is abstracted to what decides whether it compiles: its           *)
(* parameters, the identifiers it declares and uses (pairs <<stem, i>>    *)
(* for arg<i>, ks_arg<i>, arg_data<i> ...), and what it stores into a     *)
(* float.  One state per call of generate_cpp_entry_points.               *)
(***************************************************************************)
EXTENDS Integers, Sequences, SequencesExt

CONSTANTS
  Decls,     \* the decls passed in: a sequence of [name, args, ret]
  Bindings   \* candidate bindings_to_generate: sequences of <<cpp name, decl name>>

VARIABLES
  bindings,     \* bindings_to_generate
  elementwise,  \* the elementwise flag
  useTorch      \* the use_torch flag

vars == <<bindings, elementwise, useTorch>>

Scalars == {"Integer", "Float", "Bool", "String"}
Ty(k, r, ch) == [kind |-> k, rank |-> r, ch |-> ch]
Float == Ty("Float", 0, << >>)
Cpp(n, r, as) == [name |-> n, rank |-> r, args |-> as]

scalar_type_to_cpp_map ==
  [Integer |-> "ks::Integer", Float |-> "ks::Float", Bool |-> "ks::Bool", String |-> "std::string"]

(* A ValueError is {}; a result c is {c}.                                  *)
The(s) == CHOOSE c \in s : TRUE
AllOk(rs) == \A i \in DOMAIN rs : rs[i] # {}
Values(rs) == [i \in DOMAIN rs |-> The(rs[i])]

(* ks_cpp_type *)
RECURSIVE KsCppType(_)
KsCppType(t) ==
  IF t.kind \in Scalars THEN {Cpp(scalar_type_to_cpp_map[t.kind], 0, << >>)}
  ELSE IF t.kind = "Tuple"
  THEN LET cs == [i \in DOMAIN t.ch |-> KsCppType(t.ch[i])]
       IN  IF AllOk(cs) THEN {Cpp("ks::Tuple", 0, Values(cs))} ELSE {}
  ELSE IF t.kind = "Tensor"
  THEN LET e == KsCppType(t.ch[1])
       IN  IF e # {} THEN {Cpp("ks::tensor", t.rank, <<The(e)>>)} ELSE {}
  ELSE {}

(* entry_point_cpp_type: tuples become std::tuple; a tensor is a         *)
(* torch::Tensor of Float elements, and only with use_torch.              *)
RECURSIVE EntryPointCppType(_, _)
EntryPointCppType(t, torch) ==
  IF t.kind \in Scalars THEN {Cpp(scalar_type_to_cpp_map[t.kind], 0, << >>)}
  ELSE IF t.kind = "Tuple"
  THEN LET cs == [i \in DOMAIN t.ch |-> EntryPointCppType(t.ch[i], torch)]
       IN  IF AllOk(cs) THEN {Cpp("std::tuple", 0, Values(cs))} ELSE {}
  ELSE IF t.kind = "Tensor" /\ torch /\ t.ch[1] = Float
  THEN {Cpp("torch::Tensor", 0, << >>)}
  ELSE {}

(* arg_types_of_decl: a single tuple argument is spread (one-            *)
(* argification undone).                                                   *)
ArgTypesOfDecl(d) ==
  IF Len(d.args) = 1 /\ d.args[1].kind = "Tuple" THEN d.args[1].ch ELSE d.args

Ids(stem, n) == {<<stem, i>> : i \in 0..n - 1}

(* generate_cpp_entry_point, not elementwise: parameters arg<i> of the    *)
(* entry types, ks_arg<i> = convert_argument<ks type>(arg<i>), ks_ret =   *)
(* the call on all ks_arg<i>, returned through convert_return_value.      *)
PlainEntryPoint(name, d, torch) ==
  LET ats  == ArgTypesOfDecl(d)
      n    == Len(ats)
      cas  == [i \in DOMAIN ats |-> EntryPointCppType(ats[i], torch)]
      cret == EntryPointCppType(d.ret, torch)
      kas  == [i \in DOMAIN ats |-> KsCppType(ats[i])]
  IN  IF AllOk(cas) /\ cret # {} /\ AllOk(kas)
      THEN {[name |-> name, ret |-> The(cret), params |-> Values(cas),
             declared |-> Ids("arg", n) \cup Ids("ks_arg", n) \cup {<<"ks_ret", 0>>},
             used |-> Ids("arg", n) \cup Ids("ks_arg", n) \cup {<<"ks_ret", 0>>},
             stores |-> {}]}
      ELSE {}

(* generate_cpp_elementwise_entry_point: Float arguments only; each      *)
(* torch::Tensor arg<i> gives arg_data<i>; ret is empty_like(arg0), and  *)
(* the loop up to arg0.numel() stores the call's result into a float.     *)
ElementwiseEntryPoint(name, d) ==
  LET ats == ArgTypesOfDecl(d)
      n   == Len(ats)
  IN  IF \E i \in DOMAIN ats : ats[i] # Float THEN {}
      ELSE {[name |-> name, ret |-> Cpp("torch::Tensor", 0, << >>),
             params |-> [i \in 1..n |-> Cpp("torch::Tensor", 0, << >>)],
             declared |-> Ids("arg", n) \cup Ids("arg_data", n)
                            \cup {<<"ret", 0>>, <<"ret_data", 0>>, <<"i", 0>>},
             used |-> Ids("arg", n) \cup Ids("arg_data", n)
                        \cup {<<"arg", 0>>, <<"ret", 0>>, <<"ret_data", 0>>, <<"i", 0>>},
             stores |-> {d.ret}]}

GenerateCppEntryPoint(name, d, ew, torch) ==
  IF ew THEN (IF torch THEN ElementwiseEntryPoint(name, d) ELSE {})
  ELSE PlainEntryPoint(name, d, torch)

(* decls_by_name keeps the last decl of each name; a binding naming no    *)
(* decl is a ValueError.                                                  *)
DeclsByName ==
  [n \in {Decls[i].name : i \in DOMAIN Decls} |->
     Decls[CHOOSE i \in DOMAIN Decls :
             Decls[i].name = n /\ \A j \in DOMAIN Decls : Decls[j].name = n => j <= i]]

GenerateCppEntryPoints(bs, ew, torch) ==
  LET eps == [k \in DOMAIN bs |->
                IF bs[k][2] \in DOMAIN DeclsByName
                THEN GenerateCppEntryPoint(bs[k][1], DeclsByName[bs[k][2]], ew, torch)
                ELSE {}]
  IN  IF AllOk(eps)
      THEN {[header |-> IF torch THEN "knossos-entry-points-torch.h" ELSE "knossos-entry-points.h",
             entries |-> Values(eps)]}
      ELSE {}

Unit == GenerateCppEntryPoints(bindings, elementwise, useTorch)

Init ==
  /\ bindings \in Bindings
  /\ elementwise \in BOOLEAN
  /\ useTorch \in BOOLEAN

Spec == Init /\ [][UNCHANGED vars]_vars

-----------------------------------------------------------------------------
(* A float accepts the ks scalars by implicit conversion, nothing else.   *)
StoresToFloat == {"Float", "Integer", "Bool"}

(* What generate_cpp_entry_points returns compiles as far as names and    *)
(* stores go: every identifier an entry point uses is one it declares, an *)
(* elementwise entry stores into ret_data[i] only what a float accepts    *)
(* (cgen.py 136-170).                                                     *)
EntryPointCompiles ==
  Unit # {} =>
    LET es == The(Unit).entries IN
    /\ \A k \in DOMAIN es :
         /\ es[k].used \subseteq es[k].declared
         /\ \A t \in es[k].stores : t.kind \in StoresToFloat
=============================================================================
