---------------------------- MODULE MCCodegenIR ----------------------------
(***************************************************************************)
(* Instances of CodegenIR for TLC: the sets of constructs its programs are *)
(* made of.  Every run fixes one of them and a bound on the trail.         *)
(***************************************************************************)
EXTENDS CodegenFlow

AllKinds == {"value", "void", "main"}

\* Statements that transfer control, whose conditions are names.
ControlFlow == {"return", "break", "if", "ifelse", "while"}
\* Nested operators, short-circuit or not, in conditions and in statements,
\* and what else a function is made of.
ShortCircuit == AllConstructs \ {"break", "ifelse"}
WithResultOrMain == {"value", "main"}
\* Programs made of a loop, a branch and a break.
LoopWithBreak == {"if", "while", "break"}
\* One expression statement with && and ||.
Logical == {"expr", "land", "lor"}
=============================================================================
