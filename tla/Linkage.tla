------------------------------- MODULE Linkage -------------------------------
(***************************************************************************)
(* What module-level names come to, with no module, no order and no        *)
(* renaming: every function has one target for good.  A function of the    *)
(* program whose name a function of the runtime has shares the target of   *)
(* that one, and every other function has a target of its own.             *)
(***************************************************************************)
EXTENDS Integers, Sequences

CONSTANTS
    Programs,      \* sequences of declarations [kind, name, params]
    Targets,       \* <<name, declaration>>, declaration 0 for the runtime
    Wrappers,      \* the functions of the runtime with a body
    Libc,          \* those that only have a declaration
    RuntimeCalls   \* <<caller, callee>> in the runtime

VARIABLES
    program,
    code,     \* the bodies that are in a target, the first is what it runs
    reached   \* <<what is called, the target the call goes to>>

vars == <<program, code, reached>>

IsFunction(d) == program[d].kind # "var"

Own(d) == <<program[d].name, d>>
OfRuntime(n) == <<n, 0>>
Entry == <<"main", 0>>

\* Where the code of function d goes, and where calls of d go.
Target(d) == IF program[d].name \in Wrappers \cup Libc
             THEN OfRuntime(program[d].name) ELSE Own(d)

MainDecl == CHOOSE d \in DOMAIN program : program[d].kind = "main"

\* The declaration that the program starts at: a function called main comes before the
\* main function.
Started ==
    IF \E d \in DOMAIN program : IsFunction(d) /\ program[d].name = "main"
    THEN CHOOSE d \in DOMAIN program : IsFunction(d) /\ program[d].name = "main"
    ELSE MainDecl

Defined(d) == \E i \in DOMAIN code[Target(d)] : code[Target(d)][i] = d
Closed == code[Entry] # <<>>

Init ==
    /\ program \in Programs
    /\ code = [t \in Targets |->
                  IF t \in {OfRuntime(w) : w \in Wrappers} THEN <<0>> ELSE <<>>]
    /\ reached = {<<OfRuntime(c[2]), OfRuntime(c[2])>> : c \in RuntimeCalls}

\* Function d gets its code, once.
Define(d) ==
    /\ IsFunction(d) /\ ~Closed /\ ~Defined(d)
    /\ code' = [code EXCEPT ![Target(d)] = Append(@, d)]
    /\ UNCHANGED <<program, reached>>

\* A call of a function of the program, and of one of the runtime.
CallOwn(d) ==
    /\ IsFunction(d) /\ ~Closed
    /\ reached' = reached \cup {<<Own(d), Target(d)>>}
    /\ UNCHANGED <<program, code>>

CallRuntime(n) ==
    /\ ~Closed
    /\ reached' = reached \cup {<<OfRuntime(n), OfRuntime(n)>>}
    /\ UNCHANGED <<program, code>>

\* The start of the program, when every function has its code.
Start ==
    /\ ~Closed /\ \A d \in DOMAIN program : IsFunction(d) => Defined(d)
    /\ code' = [code EXCEPT ![Entry] = <<0>>]
    /\ reached' = reached \cup {<<Own(MainDecl), Target(Started)>>}
    /\ UNCHANGED program

Next ==
    \/ \E d \in DOMAIN program : Define(d) \/ CallOwn(d)
    \/ \E n \in Wrappers \cup Libc : CallRuntime(n)
    \/ Start

Spec == Init /\ [][Next]_vars
=============================================================================
