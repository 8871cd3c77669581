---------------------------- MODULE SemanalScopes ----------------------------
(***************************************************************************)
(* What Semanal must compute: lexical scoping as the J-- source has it,    *)
(* read off the positions of declarations, blocks and uses in the program, *)
(* without a symbol table.                                                 *)
(***************************************************************************)
EXTENDS Semanal, FiniteSetsExt

Before(k, what) == {j \in 1..k - 1 : trail[j].what = what}
From(s, k, what) == {j \in s..k : trail[j].what = what}

\* The function a node is in, and how many blocks and loops are open there.
Start(k) == Max({j \in 1..k : trail[j].what \in {"func", "main"}})
Depth(k) == Cardinality(From(Start(k), k, "block"))
            - Cardinality(From(Start(k), k, "close"))
Loops(k) == Cardinality(From(Start(k), k, "while"))
            - Cardinality(From(Start(k), k, "end"))

\* Declaration d reaches position k: its block has not been left in between.
Reaches(d, k) == Start(d) = Start(k) /\ \A j \in d..k : Depth(j) >= Depth(d)

\* The declarations of a name at position k.
Locals(name, k) ==
    {d \in Before(k, "decl") : trail[d].name = name /\ Reaches(d, k)}
Params(name, k) ==
    {d \in Before(k, "param") : trail[d].name = name /\ d > Start(k)}
Globally(name) == {g \in DOMAIN program : program[g].name = name}

\* The line of the declaration a name stands for at position k: the latest one
\* that reaches it, then a parameter, a global one, a runtime function.
Resolve(name, k) ==
    IF Locals(name, k) # {} THEN trail[Max(Locals(name, k))].line
    ELSE IF Params(name, k) # {} THEN trail[Max(Params(name, k))].line
    ELSE IF Globally(name) # {} THEN Max(Globally(name))
    ELSE IF name \in RtsNames THEN 0
    ELSE NoLine

DeclaresVar(line) ==
    line > MaxGlobals \/ (line > 0 /\ program[line].kind = "var")
DeclaresMain(line) == line \in 1..MaxGlobals /\ program[line].kind = "main"

\* The rules of the language, as src/src/semanal/todo:11-17 lists them.
Legal(k) ==
    LET what == trail[k].what
        name == trail[k].name
        line == Resolve(name, k)
    IN  /\ what = "decl"  => \A d \in Locals(name, k) : Depth(d) < Depth(k)
        /\ what = "param" => Params(name, k) = {}
        /\ what = "id"    => line # NoLine /\ DeclaresVar(line)
        /\ what = "call"  => /\ line # NoLine /\ ~DeclaresVar(line)
                             /\ ~DeclaresMain(line)
        /\ what = "break" => Loops(k) > 0
        /\ what = "main"  => Before(k, "main") = {}

LegalGlobals == \A g, h \in DOMAIN program :
                   program[g].name = program[h].name => g = h
HasMain == \E g \in DOMAIN program : program[g].kind = "main"

\* Every name is annotated with the symbol of the declaration it stands for,
\* although m_blocks, m_func and m_global are updated while the tree is walked.
AnnotationsAreLexical ==
    \A k \in DOMAIN trail :
        (trail[k].what \in {"id", "call"} /\ trail[k].line # NoLine)
        => trail[k].line = Resolve(trail[k].name, k)

\* A program is rejected exactly when it breaks a rule of the language.
VerdictIsRight ==
    LET legal == LegalGlobals /\ \A k \in DOMAIN trail : Legal(k)
    IN  /\ phase = "rejected" => ~legal \/ (next > Len(program) /\ ~HasMain)
        /\ phase # "rejected" => legal
        /\ phase = "accepted" => HasMain
=============================================================================
