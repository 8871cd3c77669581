------------------------------ MODULE MCSemanal ------------------------------
(***************************************************************************)
(* Instances of Semanal for TLC.                                           *)
(***************************************************************************)
EXTENDS SemanalScopes

\* A name of the programmer's and one of the runtime's.
TwoNames == {"x", "printi"}
RuntimeNames == {"printi"}
\* Declarations and uses in nested blocks.
Scoping == {"param", "block", "decl", "id", "call", "expr"}
\* Statements with bodies, and what is only legal in some of them.
Nesting == {"block", "return", "break", "ifelse", "while"}

Both == {Scoping, Nesting}
Lengths == [f \in Both |-> IF f = Scoping THEN 7 ELSE 6]
=============================================================================
