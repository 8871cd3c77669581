------------------------------ MODULE MCValues ------------------------------
(* A small instance of Values.                                             *)
EXTENDS Values

Func(params, type) ==
    [symbol_type |-> "FUNC", v_type |-> type, param_types |-> params]

\* A global string, and a global of a type that parameters and local variables have.
MCGlobals == {Variable("Str", 0, 1), Variable("Int", 0, 1)}

\* A function without a result, and one with a result and two parameters of one type.
MCFunctions == {Func(<<"Str">>, "Void"), Func(<<"Bool", "Bool">>, "Int")}
=============================================================================
