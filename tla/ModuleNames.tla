----------------------------- MODULE ModuleNames -----------------------------
(***************************************************************************)
(* Module-level names in code generation (src/src/codegen): buildRTS()     *)
(* fills an LLVM module with the runtime's functions, CodegenGlobals adds  *)
(* a prototype or a variable for each global declaration, and functions    *)
(* and calls then find theirs by name.  Functions and variables share one  *)
(* table of names, in which LLVM gives a new value another name when its   *)
(* own is taken.  At the end visit(ASTNode) wraps the main function.       *)
(*                                                                         *)
(* `program` is what the semantic analysis has accepted.  A Symbol is a    *)
(* name and the number of its declaration, 0 for the runtime's.            *)
(***************************************************************************)
EXTENDS Integers, Sequences, FiniteSets

CONSTANTS
    Names,       \* the identifiers of programs
    MaxGlobals,  \* bound: global declarations in a program
    MaxParams    \* bound: parameters of a function

-----------------------------------------------------------------------------
(* What buildRTS() makes: functions with a body, functions of the C        *)
(* library that are only declared, and the constants they print.           *)

Wrappers  == {"prints", "halt", "printi", "printb", "printc"}
Libc      == {"printf", "exit", "getchar"}
Constants == {"fmtstr", "fmtint", "booltrue", "boolfalse", "fmtchar"}
Runtime   == Wrappers \cup Libc \cup Constants

\* llvm::Function::arg_size: the `...` of printf is none.
ParamsOf(n) == IF n \in {"halt", "exit", "getchar"} THEN 0 ELSE 1

RuntimeCalls == {<<"prints", "printf">>, <<"halt", "exit">>,
                 <<"printi", "printf">>, <<"printb", "prints">>,
                 <<"printc", "printf">>}

\* The functions that the semantic analysis knows (SemanticAnalyzer: m_rts).
m_rts == Wrappers \cup {"getchar"}

NoName == ""

ASSUME NamesAssumption ==
    /\ "main" \in Names /\ Names \cap {".main"} = {}
    /\ MaxGlobals \in Nat /\ MaxParams \in Nat

Decl == [kind : {"var", "func", "main"}, name : Names, params : 0..MaxParams]
Programs ==
    {p \in UNION {[1..n -> Decl] : n \in 0..MaxGlobals} :
        /\ \A d, e \in DOMAIN p : p[d].name = p[e].name => d = e
        /\ \E m \in DOMAIN p : \A d \in DOMAIN p : p[d].kind = "main" <=> d = m
        /\ \A d \in DOMAIN p : p[d].kind # "func" => p[d].params = 0}

VARIABLES
    program,     \* the global declarations
    phase,       \* what runs next, see TypeOK
    next,        \* the declaration visit(ASTNode) is at
    module,      \* m_module: its values, by the symbol each was made for
    stored,      \* parameters of the current function with an llvm_Value
    mainFuncID,  \* m_mainFuncID
    calls        \* the call instructions: symbol and callee

vars == <<program, phase, next, module, stored, mainFuncID, calls>>

\* A symbol, and a name in the module: the wanted one, or that with a number
\* appended.
Numbers == 0..(MaxGlobals + 1)
Symbols == (Runtime \cup Names) \X (0..MaxGlobals)
RuntimeSymbol(n) == <<n, 0>>
SymbolOf(d) == <<program[d].name, d>>
Wrapper == <<"main", 0>>

Plain(n) == <<n, 0>>
Numbered(n, i) == <<n, i>>

\* `bodies` are the bodies a function was given, first to last, by the number of
\* what they come from.  Control enters a function at the first.
Value(kind, name, params, bodies) ==
    [kind |-> kind, name |-> name, params |-> params, bodies |-> bodies]
RuntimeValue(n) ==
    Value(IF n \in Constants THEN "var" ELSE "func", Plain(n), ParamsOf(n),
          IF n \in Wrappers THEN <<0>> ELSE <<>>)
Call(symbol, callee) == [symbol |-> symbol, callee |-> callee]

Init ==
    /\ program \in Programs
    /\ phase = "globals" /\ next = 1
    /\ module = [v \in {RuntimeSymbol(n) : n \in Runtime} |-> RuntimeValue(v[1])]
    /\ stored = 0 /\ mainFuncID = NoName
    /\ calls = {Call(RuntimeSymbol(c[2]), RuntimeSymbol(c[2])) :
                   c \in RuntimeCalls}

-----------------------------------------------------------------------------
(* llvm::Module.                                                           *)

Taken(values, name) == \E v \in DOMAIN values : values[v].name = name

\* The name that a new value gets.  The number LLVM appends is one that is not
\* in use; here it is that of the declaration.
NewName(values, n, d) ==
    IF Taken(values, Plain(n)) THEN Numbered(n, d) ELSE Plain(n)

With(values, symbol, value) ==
    [v \in DOMAIN values \cup {symbol} |->
        IF v = symbol THEN value ELSE values[v]]

\* Defect: any value with the name is taken for a function.
AnyValue(n) == {v \in DOMAIN module : module[v].name = Plain(n)}

\* getFunction(n): none if the name is a variable's.
Functions(n) ==
    {v \in DOMAIN module : module[v].name = Plain(n) /\ module[v].kind = "func"}
getFunction(n) == CHOOSE v \in Functions(n) : TRUE

\* Defect: what is in the way of the wrapper keeps its name.
NotRenamed(vs, name) == module

\* setName(name) of the values in a set.
Renamed(vs, name) ==
    [v \in DOMAIN module |->
        IF v \in vs THEN [module[v] EXCEPT !.name = name] ELSE module[v]]

-----------------------------------------------------------------------------
(* CodegenGlobals.                                                         *)

Visit(kind) == /\ next <= Len(program) /\ program[next].kind = kind
               /\ next' = next + 1

\* Function::Create and new GlobalVariable.
Declare(kind) ==
    LET d == program[next]
    IN  module' = With(module, SymbolOf(next),
                       Value(kind, NewName(module, d.name, next), d.params, <<>>))

DeclareFuncDecl ==
    /\ phase = "globals" /\ Visit("func") /\ Declare("func")
    /\ UNCHANGED <<program, phase, stored, mainFuncID, calls>>

DeclareMFuncDecl ==
    /\ phase = "globals" /\ Visit("main") /\ Declare("func")
    /\ UNCHANGED <<program, phase, stored, mainFuncID, calls>>

DeclareGVarDecl ==
    /\ phase = "globals" /\ Visit("var") /\ Declare("var")
    /\ UNCHANGED <<program, phase, stored, mainFuncID, calls>>

\* Defect: the second pass starts before the first declaration.
CountedFromZero ==
    /\ phase = "globals" /\ next > Len(program)
    /\ phase' = "functions" /\ next' = 0
    /\ UNCHANGED <<program, module, stored, mainFuncID, calls>>

EndOfGlobals ==
    /\ phase = "globals" /\ next > Len(program)
    /\ phase' = "functions" /\ next' = 1
    /\ UNCHANGED <<program, module, stored, mainFuncID, calls>>

-----------------------------------------------------------------------------
(* codegen() of the declarations.                                          *)

At(kind) ==
    phase = "functions" /\ next <= Len(program) /\ program[next].kind = kind

\* Defects: the new body goes in front of, or in place of, the one that is there.
BodyInFront(f) ==
    module' = [module EXCEPT ![f].bodies = <<next>> \o @] /\ phase' = "body"
BodyReplaced(f) ==
    module' = [module EXCEPT ![f].bodies = <<next>>] /\ phase' = "body"

\* The body goes into the function that has the name, after what is there.
AppendBody(f) ==
    module' = [module EXCEPT ![f].bodies = Append(@, next)] /\ phase' = "body"

\* Each argument of the llvm function is stored for a parameter of the
\* declaration; it is undefined behaviour if there are fewer of these.
FuncDecl ==
    LET d == program[next]
        f == getFunction(d.name)
    IN  /\ At("func")
        /\ \/ /\ Functions(d.name) = {}
              /\ phase' = "rejected" /\ UNCHANGED <<module, stored>>
           \/ /\ Functions(d.name) # {} /\ module[f].params > d.params
              /\ phase' = "undefined" /\ UNCHANGED <<module, stored>>
           \/ /\ Functions(d.name) # {} /\ module[f].params <= d.params
              /\ AppendBody(f) /\ stored' = module[f].params
        /\ UNCHANGED <<program, next, mainFuncID, calls>>

MFuncDecl ==
    LET n == program[next].name
    IN  /\ At("main")
        /\ IF Functions(n) = {}
           THEN phase' = "rejected" /\ UNCHANGED <<module, mainFuncID>>
           ELSE AppendBody(getFunction(n)) /\ mainFuncID' = n
        /\ UNCHANGED <<program, next, stored, calls>>

GVarDecl ==
    /\ At("var") /\ next' = next + 1
    /\ UNCHANGED <<program, phase, module, stored, mainFuncID, calls>>

\* What the semantic analysis lets a call name.
Declared(n) == {d \in DOMAIN program : program[d].name = n}
Callable(n) ==
    {SymbolOf(d) : d \in {d \in Declared(n) : program[d].kind = "func"}}
    \cup {RuntimeSymbol(m) : m \in {m \in m_rts : m = n /\ Declared(n) = {}}}

\* A call through a null pointer is undefined behaviour.
FuncCallExpr(n) ==
    /\ phase = "body"
    /\ \E s \in Callable(n) :
          IF Functions(n) = {} THEN phase' = "undefined" /\ UNCHANGED calls
          ELSE calls' = calls \cup {Call(s, getFunction(n))} /\ UNCHANGED phase
    /\ UNCHANGED <<program, next, module, stored, mainFuncID>>

\* The llvm_Value of a parameter that was not stored was never set.
IdExpr(i) ==
    /\ phase = "body" /\ i <= program[next].params
    /\ phase' = IF i <= stored THEN phase ELSE "undefined"
    /\ UNCHANGED <<program, next, module, stored, mainFuncID, calls>>

EndOfBody ==
    /\ phase = "body" /\ phase' = "functions" /\ next' = next + 1
    /\ stored' = 0
    /\ UNCHANGED <<program, module, mainFuncID, calls>>

MainDecl == CHOOSE d \in DOMAIN program : program[d].kind = "main"

\* The end of visit(ASTNode): what is called main makes way for the wrapper,
\* which calls that function, or the main function if there was none.
EndOfProgram ==
    LET mainf  == IF Functions("main") # {} THEN getFunction("main")
                  ELSE getFunction(mainFuncID)
        vars1  == {v \in DOMAIN module : module[v].name = Plain("main")
                                         /\ module[v].kind = "var"}
        others == IF Functions("main") # {}
                  THEN Renamed(Functions("main"), Numbered("main", 1))
                  ELSE Renamed(vars1, Plain(".main"))
    IN  /\ phase = "functions" /\ next > Len(program)
        /\ module' = With(others, Wrapper,
                          Value("func", NewName(others, "main", MaxGlobals + 1),
                                0, <<0>>))
        /\ calls' = calls \cup {Call(SymbolOf(MainDecl), mainf)}
        /\ phase' = "done"
        /\ UNCHANGED <<program, next, stored, mainFuncID>>

Finished == phase \in {"done", "rejected", "undefined"} /\ UNCHANGED vars

Next ==
    \/ DeclareFuncDecl \/ DeclareMFuncDecl \/ DeclareGVarDecl \/ EndOfGlobals
    \/ FuncDecl \/ MFuncDecl \/ GVarDecl \/ EndOfBody
    \/ \E n \in Names : FuncCallExpr(n)
    \/ \E i \in 1..MaxParams : IdExpr(i)
    \/ EndOfProgram \/ Finished

Spec == Init /\ [][Next]_vars
-----------------------------------------------------------------------------
(* Properties.                                                             *)

\* The type of every variable, and: only functions have bodies, the module has one value
\* for each symbol that was given one.
TypeOK ==
    /\ program \in Seq(Decl)
    /\ phase \in {"globals", "functions", "body", "done", "rejected", "undefined"}
    /\ next \in 1..(Len(program) + 1)
    /\ DOMAIN module \subseteq Symbols
    /\ \A v \in DOMAIN module :
          module[v] \in [kind   : {"var", "func"},
                         name   : (Names \cup Runtime \cup {".main"}) \X Numbers,
                         params : 0..(MaxParams + 1),
                         bodies : Seq(0..MaxGlobals)]
    /\ stored \in 0..(MaxParams + 1)
    /\ mainFuncID \in Names \cup {NoName}
    /\ \A c \in calls : c.symbol \in Symbols /\ c.callee \in Symbols

IsFunction(d) == program[d].kind # "var"
Shadows(d, names) == IsFunction(d) /\ program[d].name \in names

\* What a function runs, and what a call of the symbol should run: a declaration of the
\* program, 0 for the code of the runtime, -1 for the C library's.
Runs(v) == IF module[v].bodies = <<>> THEN -1 ELSE module[v].bodies[1]
Meaning(symbol) == IF symbol[2] = 0 /\ symbol[1] \in Libc THEN -1 ELSE symbol[2]
ToMain(c) == c.symbol = SymbolOf(MainDecl)

\* A call runs the function that the semantic analysis resolved it to, unless that is the
\* program's and has the name of one of the runtime's functions with a body (which runs
\* in its place), or it is one of the C library and the program has a function of that
\* name (codegen_ir.cpp:570 finds a function by its name again).
CallsRunTheirFunction ==
    phase = "done" =>
        \A c \in calls : ~ToMain(c) =>
            (Runs(c.callee) = Meaning(c.symbol) <=>
                IF c.symbol[2] # 0 THEN c.symbol[1] \notin Wrappers
                ELSE c.symbol[1] \in Libc =>
                        ~\E d \in DOMAIN program : Shadows(d, {c.symbol[1]}))

\* The function called main is the wrapper and nothing else is, and the wrapper runs
\* the main function exactly if no other function of the program is called main and the
\* main function is not called like one of the runtime's functions with a body
\* (codegen_ir.cpp:219 takes any function called main for it).
WrapperRunsMain ==
    phase = "done" =>
        /\ {v \in DOMAIN module : module[v].name = Plain("main")} = {Wrapper}
        /\ \A c \in calls : ToMain(c) =>
              (Runs(c.callee) = MainDecl <=>
                  /\ program[MainDecl].name \notin Wrappers
                  /\ ~\E d \in DOMAIN program : d # MainDecl /\ Shadows(d, {"main"}))

\* Code generation of a program gives up only at a function called like one of the
\* runtime's constants, and what it does is undefined only at a call of such a function
\* or where the program has a function with the name of a runtime's function that has
\* other parameters (codegen_ir.cpp:619, 630 and 570).
OnlyClashesFail ==
    /\ phase = "rejected" => Shadows(next, Constants)
    /\ phase = "undefined" =>
          \/ \E d \in DOMAIN program : Shadows(d, Constants)
          \/ /\ Shadows(next, Wrappers \cup Libc)
             /\ program[next].params # ParamsOf(program[next].name)
    /\ phase = "done" => ~\E d \in DOMAIN program : Shadows(d, Constants)

\* What the symbols come to, whatever the order in which the module is filled.
L == INSTANCE Linkage WITH
        Targets <- Symbols,
        code    <- [t \in Symbols |->
                       IF t \in DOMAIN module THEN module[t].bodies ELSE <<>>],
        reached <- {<<c.symbol, c.callee>> : c \in calls}

\* Code generation implements Linkage: filling the module by name, declarations first,
\* with LLVM's renaming and that of the end of visit(ASTNode), gives every function
\* and every call the target that Linkage says.
LinkSpec == L!Spec
=============================================================================
