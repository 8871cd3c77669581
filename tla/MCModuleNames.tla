---------------------------- MODULE MCModuleNames ----------------------------
(* A small instance of ModuleNames.                                        *)
EXTENDS ModuleNames

\* A name of the program's own, main, and one name of each kind of the runtime's: with a
\* body and a parameter, with a body and none, the C library's, and a constant's.
MCNames == {"f", "main", "printi", "halt", "exit", "fmtstr"}
=============================================================================
