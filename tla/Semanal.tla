------------------------------- MODULE Semanal -------------------------------
(***************************************************************************)
(* Name resolution in the J-- front end: the symbol table                  *)
(* (src/src/common/symtab.h) under the two passes that fill and query it,  *)
(* GlobalsVisitor and FunctionVisitor (src/src/semanal).                   *)
(*                                                                         *)
(* The visitors walk the AST; the AST is the input, so every step that     *)
(* enters a node chooses it.  `program` are the global declarations the    *)
(* first pass has seen, `trail` the nodes the second pass has visited,     *)
(* with the symbol (node->symbol) it has given to each name.               *)
(***************************************************************************)
EXTENDS Integers, Sequences, FiniteSets

CONSTANTS
    Names,        \* the identifiers
    RtsNames,     \* those of them that name a runtime function
    Families,     \* sets of kinds of node: functions are made of one of them
    MaxGlobals,   \* bound: global declarations in a program
    MaxTrail      \* bound, by family: no node is entered once the trail is
                  \* this long

AllConstructs == {"param", "block", "decl", "id", "call", "expr", "return",
                  "break", "if", "ifelse", "while"}

ASSUME SemanalAssumption ==
    /\ RtsNames \subseteq Names
    /\ Families \subseteq SUBSET AllConstructs
    /\ MaxGlobals \in Nat /\ MaxTrail \in [Families -> Nat]

VARIABLES
    phase,           \* what the running visitor does next, see TypeOK
    family,          \* the kinds of node inside the program's functions
    program,         \* the global declarations
    next,            \* the declaration FunctionVisitor::visit(ASTNode) is at
    frames,          \* the active visit() calls of FunctionVisitor
    trail,           \* the nodes visited in functions
    m_global,        \* SymbolTable: the global scope,
    m_func,          \*   the parameters of the current function,
    m_blocks,        \*   and the stack of its open blocks
    insideWhile,     \* m_inside_while.size()
    visitedMain,     \* m_visited_main
    currentFunction  \* m_current_function

vars == <<phase, family, program, next, frames, trail, m_global, m_func,
          m_blocks, insideWhile, visitedMain, currentFunction>>
source == <<family, program>>
table == <<m_global, m_func, m_blocks>>
state == <<insideWhile, visitedMain, currentFunction>>

-----------------------------------------------------------------------------
(* The symbol table.                                                       *)

\* A Symbol is known by the line of its declaration; runtime functions have
\* line 0.
Lines == Nat
Symbol == [kind : {"VAR", "FUNC"}, isMain : BOOLEAN, line : Lines]
Var(line)  == [kind |-> "VAR", isMain |-> FALSE, line |-> line]
Func(line) == [kind |-> "FUNC", isMain |-> FALSE, line |-> line]
Main(line) == [kind |-> "FUNC", isMain |-> TRUE, line |-> line]

Empty == [n \in {} |-> Var(0)]
IsScope(m) == DOMAIN m \subseteq Names /\ m \in [DOMAIN m -> Symbol]
m_rts == [n \in RtsNames |-> Func(0)]

\* unordered_map::insert keeps the entry that is there.
Insert(m, name, symbol) ==
    [n \in DOMAIN m \cup {name} |-> IF n \in DOMAIN m THEN m[n] ELSE symbol]

\* A defect (see below): the stack is searched from its bottom.
Outermost(s) == s

\* The scopes a query looks into, innermost first.
Innermost(s) == [i \in 1..Len(s) |-> s[Len(s) + 1 - i]]
Scopes == Innermost(m_blocks) \o <<m_func, m_global, m_rts>>

\* query(name): the symbol of the first scope that has the name, if any does.
Found(name) == {i \in DOMAIN Scopes : name \in DOMAIN Scopes[i]}
Query(name) ==
    LET first == CHOOSE i \in Found(name) : \A j \in Found(name) : i <= j
    IN  Scopes[first][name]

-----------------------------------------------------------------------------
(* Frames and nodes.                                                       *)

\* The nodes whose visit() runs while their children are visited.
BodyFrames == {"func", "main", "block", "if", "ifelse", "else", "while"}
ExprFrames == {"expr", "return"}

Top == frames[Len(frames)]
Pop(s) == [i \in 1..Len(s) - 1 |-> s[i]]

\* A node of the trail; `line` is that of the symbol it was given or declares,
\* NoLine where there is none.
NoLine == -1
Node == [what : AllConstructs \cup {"func", "main", "close", "end"},
         name : Names \cup {"-"}, line : Lines \cup {NoLine}]
Note(what, name, line) ==
    trail' = Append(trail, [what |-> what, name |-> name, line |-> line])
Visit(what, name, line) ==
    Len(trail) < MaxTrail[family] /\ Note(what, name, line)
Leave(what) == Note(what, "-", NoLine)
Enter(c) == c \in family /\ Visit(c, "-", NoLine)

\* The line of the node visited next, after those of all the globals.
Here == MaxGlobals + Len(trail) + 1

\* A statement has been visited: its block goes on with the next one, any
\* other parent with what follows its body.
Done(F) == phase' = IF F[Len(F)] = "block" THEN "stmt" ELSE "done"

\* Logger::error ends the process.
Reject == phase' = "rejected"

Init ==
    /\ family \in Families
    /\ phase = "globals" /\ program = <<>> /\ next = 1
    /\ frames = <<>> /\ trail = <<>>
    /\ m_global = Empty /\ m_func = Empty /\ m_blocks = <<>>
    /\ insideWhile = 0 /\ visitedMain = FALSE /\ currentFunction = NoLine

-----------------------------------------------------------------------------
(* Defects: variants of some definitions that follow, not used by Spec,    *)
(* which the properties must tell from the code.                           *)

\* exit_func() keeps the parameters.
EndOfFuncKeepsParams ==
    /\ phase = "done" /\ Top = "func"
    /\ m_blocks' = <<>>
    /\ currentFunction' = NoLine
    /\ frames' = <<>> /\ phase' = "next" /\ next' = next + 1
    /\ UNCHANGED <<source, trail, m_global, m_func, insideWhile, visitedMain>>

\* A second main function is let through.
MFuncDeclAgain ==
    /\ phase = "next" /\ next <= Len(program) /\ program[next].kind = "main"
    /\ Note("main", program[next].name, next)
    /\ currentFunction' = next
    /\ phase' = "stmt"
    /\ frames' = <<"main", "block">>
    /\ m_blocks' = Append(m_blocks, Empty)
    /\ UNCHANGED <<source, next, m_global, m_func, insideWhile, visitedMain>>

\* exit_block() is forgotten.
EndOfBlockWithoutExit ==
    /\ phase = "stmt" /\ Top = "block" /\ Leave("close")
    /\ frames' = Pop(frames) /\ Done(frames')
    /\ UNCHANGED <<source, next, table, state>>

\* A variable may not be declared again in an inner block either.
VarDeclInAnyBlock(name) ==
    LET block == m_blocks[Len(m_blocks)]
    IN  /\ phase = "stmt" /\ "decl" \in family /\ Visit("decl", name, Here)
        /\ IF \E b \in DOMAIN m_blocks : name \in DOMAIN m_blocks[b]
           THEN Reject /\ UNCHANGED m_blocks
           ELSE /\ m_blocks' = Append(Pop(m_blocks),
                                      Insert(block, name, Var(Here)))
                /\ Done(frames)
        /\ UNCHANGED <<source, next, frames, m_global, m_func, state>>

\* m_inside_while is popped by a loop that never pushed.
WhileStmtWithoutPush ==
    /\ phase = "stmt" /\ Enter("while")
    /\ frames' = Append(frames, "while") /\ phase' = "expr"
    /\ UNCHANGED <<source, next, table, state>>

-----------------------------------------------------------------------------
(* GlobalsVisitor.                                                         *)

\* GVarDecl, FuncDecl and MFuncDecl look into the global scope only.
GlobalDecl(kind, name) ==
    LET line   == Len(program) + 1
        symbol == CASE kind = "var"  -> Var(line)
                    [] kind = "func" -> Func(line)
                    [] kind = "main" -> Main(line)
    IN  /\ phase = "globals" /\ Len(program) < MaxGlobals
        /\ program' = Append(program, [kind |-> kind, name |-> name])
        /\ IF name \in DOMAIN m_global
           THEN Reject /\ UNCHANGED m_global
           ELSE m_global' = Insert(m_global, name, symbol) /\ UNCHANGED phase
        /\ UNCHANGED <<family, next, frames, trail, m_func, m_blocks, state>>

EndOfGlobals ==
    /\ phase = "globals" /\ phase' = "next"
    /\ UNCHANGED <<source, next, frames, trail, table, state>>

-----------------------------------------------------------------------------
(* FunctionVisitor: the global declarations.                               *)

VisitNext(kind) ==
    phase = "next" /\ next <= Len(program) /\ program[next].kind = kind

\* There is nothing to visit in a GVarDecl.
GVarDecl ==
    /\ VisitNext("var") /\ next' = next + 1
    /\ UNCHANGED <<phase, source, frames, trail, table, state>>

FuncDecl ==
    /\ VisitNext("func") /\ Note("func", program[next].name, next)
    /\ currentFunction' = next
    /\ frames' = <<"func">> /\ phase' = "params"
    /\ UNCHANGED <<source, next, table, insideWhile, visitedMain>>

ParamDecl(name) ==
    /\ phase = "params" /\ "param" \in family /\ Visit("param", name, Here)
    /\ IF name \in DOMAIN m_func THEN Reject /\ UNCHANGED m_func
       ELSE m_func' = Insert(m_func, name, Var(Here)) /\ UNCHANGED phase
    /\ UNCHANGED <<source, next, frames, m_global, m_blocks, state>>

\* The body of a function is a BlockStmt.
EndOfParams ==
    /\ phase = "params" /\ phase' = "stmt"
    /\ frames' = Append(frames, "block")
    /\ m_blocks' = Append(m_blocks, Empty)
    /\ UNCHANGED <<source, next, trail, m_global, m_func, state>>

MFuncDecl ==
    /\ VisitNext("main") /\ Note("main", program[next].name, next)
    /\ currentFunction' = next
    /\ IF visitedMain THEN Reject /\ UNCHANGED <<frames, m_blocks>>
       ELSE /\ phase' = "stmt"
            /\ frames' = <<"main", "block">>
            /\ m_blocks' = Append(m_blocks, Empty)
    /\ UNCHANGED <<source, next, m_global, m_func, insideWhile, visitedMain>>

EndOfFunc ==
    /\ phase = "done" /\ Top = "func"
    /\ m_func' = Empty /\ m_blocks' = <<>>
    /\ currentFunction' = NoLine
    /\ frames' = <<>> /\ phase' = "next" /\ next' = next + 1
    /\ UNCHANGED <<source, trail, m_global, insideWhile, visitedMain>>

\* MFuncDecl does not call exit_func().
EndOfMain ==
    /\ phase = "done" /\ Top = "main"
    /\ visitedMain' = TRUE /\ currentFunction' = NoLine
    /\ frames' = <<>> /\ phase' = "next" /\ next' = next + 1
    /\ UNCHANGED <<source, trail, table, insideWhile>>

EndOfProgram ==
    /\ phase = "next" /\ next > Len(program)
    /\ phase' = IF visitedMain THEN "accepted" ELSE "rejected"
    /\ UNCHANGED <<source, next, frames, trail, table, state>>

-----------------------------------------------------------------------------
(* FunctionVisitor: statements.                                            *)

BlockStmt ==
    /\ phase = "stmt" /\ Enter("block")
    /\ frames' = Append(frames, "block")
    /\ m_blocks' = Append(m_blocks, Empty)
    /\ UNCHANGED <<phase, source, next, m_global, m_func, state>>

EndOfBlock ==
    /\ phase = "stmt" /\ Top = "block" /\ Leave("close")
    /\ frames' = Pop(frames) /\ Done(frames')
    /\ m_blocks' = Pop(m_blocks)
    /\ UNCHANGED <<source, next, m_global, m_func, state>>

\* insert(Scope::BLOCK, ...) fails outside of every block.
VarDecl(name) ==
    LET block == m_blocks[Len(m_blocks)]
    IN  /\ phase = "stmt" /\ "decl" \in family /\ Visit("decl", name, Here)
        /\ IF m_blocks = <<>> \/ name \in DOMAIN block
           THEN Reject /\ UNCHANGED m_blocks
           ELSE /\ m_blocks' = Append(Pop(m_blocks),
                                      Insert(block, name, Var(Here)))
                /\ Done(frames)
        /\ UNCHANGED <<source, next, frames, m_global, m_func, state>>

BreakStmt ==
    /\ phase = "stmt" /\ Enter("break")
    /\ IF insideWhile = 0 THEN Reject ELSE Done(frames)
    /\ UNCHANGED <<source, next, frames, table, state>>

\* ExprStmt and ReturnStmt visit their expression (a ReturnStmt may have none,
\* which is like one without names); IfStmt and IfElseStmt their condition.
Evaluate(c) ==
    /\ phase = "stmt" /\ Enter(c)
    /\ frames' = Append(frames, c) /\ phase' = "expr"
    /\ UNCHANGED <<source, next, table, state>>

WhileStmt ==
    /\ phase = "stmt" /\ Enter("while")
    /\ frames' = Append(frames, "while") /\ phase' = "expr"
    /\ insideWhile' = insideWhile + 1
    /\ UNCHANGED <<source, next, table, visitedMain, currentFunction>>

\* FunctionVisitor has no visit() for a NullStmt.
NullStmt ==
    /\ phase = "stmt" /\ Done(frames)
    /\ UNCHANGED <<source, next, frames, trail, table, state>>

EndOfExpr ==
    /\ phase = "expr" /\ Top = "expr"
    /\ frames' = Pop(frames) /\ Done(frames')
    /\ UNCHANGED <<source, next, trail, table, state>>

EndOfReturn ==
    /\ phase = "expr" /\ Top = "return"
    /\ frames' = Pop(frames)
    /\ IF currentFunction = NoLine THEN Reject ELSE Done(frames')
    /\ UNCHANGED <<source, next, trail, table, state>>

EndOfCondition ==
    /\ phase = "expr" /\ Top \in {"if", "ifelse", "while"}
    /\ phase' = "stmt"
    /\ UNCHANGED <<source, next, frames, trail, table, state>>

EndOfIf ==
    /\ phase = "done" /\ Top \in {"if", "else"}
    /\ frames' = Pop(frames) /\ Done(frames')
    /\ UNCHANGED <<source, next, trail, table, state>>

Else ==
    /\ phase = "done" /\ Top = "ifelse"
    /\ frames' = Append(Pop(frames), "else") /\ phase' = "stmt"
    /\ UNCHANGED <<source, next, trail, table, state>>

EndOfWhile ==
    /\ phase = "done" /\ Top = "while" /\ Leave("end")
    /\ frames' = Pop(frames) /\ Done(frames')
    /\ insideWhile' = insideWhile - 1
    /\ UNCHANGED <<source, next, table, visitedMain, currentFunction>>

-----------------------------------------------------------------------------
(* FunctionVisitor: names in expressions.                                  *)

\* A name is given its symbol unless there is none or one of a wrong kind.
Use(what, name, acceptable) ==
    /\ phase = "expr" /\ what \in family
    /\ IF Found(name) # {} /\ acceptable
       THEN Visit(what, name, Query(name).line) /\ UNCHANGED phase
       ELSE Visit(what, name, NoLine) /\ Reject
    /\ UNCHANGED <<source, next, frames, table, state>>

IdExpr(name) == Use("id", name, Query(name).kind # "FUNC")

\* The arguments are visited first, by steps of their own.
FuncCallExpr(name) ==
    Use("call", name, Query(name).kind # "VAR" /\ ~Query(name).isMain)

\* The process has ended, or TypeVisitor goes on.
Finished == phase \in {"accepted", "rejected"} /\ UNCHANGED vars

Globals ==
    \/ \E kind \in {"var", "func", "main"}, name \in Names :
          GlobalDecl(kind, name)
    \/ EndOfGlobals \/ GVarDecl
    \/ FuncDecl \/ EndOfParams \/ EndOfFunc
    \/ \E name \in Names : ParamDecl(name)
    \/ MFuncDecl \/ EndOfMain
    \/ EndOfProgram \/ Finished

Statements ==
    \/ BlockStmt \/ EndOfBlock
    \/ BreakStmt \/ NullStmt
    \/ \E name \in Names : VarDecl(name)
    \/ \E c \in {"expr", "return", "if", "ifelse"} : Evaluate(c)
    \/ WhileStmt \/ EndOfCondition \/ EndOfWhile
    \/ EndOfExpr \/ EndOfReturn
    \/ EndOfIf \/ Else

Expressions == \E name \in Names : IdExpr(name) \/ FuncCallExpr(name)

Next == Globals \/ Statements \/ Expressions

Spec == Init /\ [][Next]_vars

-----------------------------------------------------------------------------
(* Properties.                                                             *)

\* "next": visit(ASTNode) goes on with the next global declaration; "params",
\* "stmt" and "expr": the children of Top are being visited; "done": the body
\* of Top has been.
TypeOK ==
    /\ phase \in {"globals", "next", "params", "stmt", "expr", "done",
                  "accepted", "rejected"}
    /\ family \in Families
    /\ program \in Seq([kind : {"var", "func", "main"}, name : Names])
    /\ next \in 1..Len(program) + 1
    /\ frames \in Seq(BodyFrames \cup ExprFrames)
    /\ trail \in Seq(Node)
    /\ IsScope(m_global) /\ IsScope(m_func)
    /\ m_blocks = [b \in 1..Len(m_blocks) |-> m_blocks[b]]
    /\ \A b \in DOMAIN m_blocks : IsScope(m_blocks[b])
    /\ insideWhile \in Nat /\ visitedMain \in BOOLEAN
    /\ currentFunction \in Lines \cup {NoLine}

\* Blocks, loops and m_current_function are entered and left by hand in
\* visitors that run through each other: the stacks always match the visit()
\* calls that are active, so no exit_block() or pop() meets an empty stack.
Count(what) == Cardinality({i \in DOMAIN frames : frames[i] = what})
StacksFollowVisits ==
    phase # "rejected" =>
        /\ Len(m_blocks) = Count("block")
        /\ insideWhile = Count("while")
        /\ currentFunction = NoLine <=> frames = <<>>

\* One FunctionVisitor and one SymbolTable serve all functions, and MFuncDecl
\* does not even call exit_func(): still no parameter, block or open loop of
\* one function is seen by the next.
NothingLeaksBetweenFunctions ==
    phase = "next" => /\ m_func = Empty /\ m_blocks = <<>>
                      /\ insideWhile = 0 /\ currentFunction = NoLine

\* m_visited_main is set only after the body: all the same, an accepted
\* program has exactly one main function.
AcceptedHasOneMain ==
    phase = "accepted" =>
        \E g \in DOMAIN program :
            \A h \in DOMAIN program : program[h].kind = "main" <=> h = g
=============================================================================
