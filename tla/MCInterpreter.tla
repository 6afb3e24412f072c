---------------------------- MODULE MCInterpreter ----------------------------
(***************************************************************************)
(* Models that users may give for an external call: a variable, nested     *)
(* expressions, one that ends too early and one with an unknown name.      *)
(***************************************************************************)
EXTENDS Interpreter

Op(op) == <<"op", op>>
Num(n) == <<"const", n>>
Name(v) == <<"sym", v>>

MCModels ==
  { <<Name("a")>>,
    <<Op("-"), Op("*"), Num(2), Name("a"), Num(1)>>,
    <<Op("-"), Num(0), Name("a")>>,
    <<Op("+"), Name("a")>>,
    <<Name("b")>> }
=============================================================================
