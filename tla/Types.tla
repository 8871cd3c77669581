-------------------------------- MODULE Types --------------------------------
(***************************************************************************)
(* TypeVisitor (src/src/semanal/type_visitor.cpp), the third pass of the   *)
(* semantic analysis: it gives every expression a type, a_type, from those *)
(* of its parts, and ends the process at the first that does not fit.      *)
(*                                                                         *)
(* `tree` lists the nodes in the order in which the visitor has seen their *)
(* parts.  An action visits one node, which it makes up as it goes: an     *)
(* operand is the number of an earlier node.  IfStmt and WhileStmt stand   *)
(* behind their condition and before their body.                           *)
(***************************************************************************)
EXTENDS Integers, Sequences

CONSTANTS
    Globals,     \* symbols of the global variables
    Functions,   \* symbols of functions: parameter types and type
    MaxNodes,    \* bound: nodes of a program
    MaxOperands  \* bound: expressions that wait for their parent

VType == {"Int", "Str", "Bool", "Void"}

\* The operators that the parser puts into each kind of node, those that the visitor and
\* the code generator treat alike under one name.
UnaryOps   == {"INC", "NOT", "SUB"}
BinaryOps  == {"LAND", "ADD", "EQ", "LT"}
BitwiseOps == {"BAND"}
NoOp == "none"

NoSymbol == [symbol_type |-> "NONE"]
Main == [symbol_type |-> "FUNC", v_type |-> "Void", param_types |-> <<>>]

\* The symbol of variable number `pos` of those that the node `decl` declares.  Globals,
\* which are declared before any function is visited, have decl 0.
Variable(type, decl, pos) ==
    [symbol_type |-> "VAR", v_type |-> type, decl |-> decl, pos |-> pos]
Symbols(decls) ==
    [symbol_type : {"VAR"}, v_type : VType \ {"Void"}, decl : decls, pos : Nat]

ASSUME SymbolsAssumption ==
    /\ Globals \subseteq Symbols({0})
    /\ Functions \subseteq
          [symbol_type : {"FUNC"}, v_type : VType, param_types : Seq(VType \ {"Void"})]
    /\ MaxNodes \in Nat /\ MaxOperands \in Nat

VARIABLES
    tree,      \* the nodes visited so far
    operands,  \* expressions whose parent has not been visited, innermost last
    open,      \* statements whose body is being visited, innermost last
    m_current_function,
    failed     \* the node that error() was called for, or 0

vars == <<tree, operands, open, m_current_function, failed>>

Node(what, op, kids, symbol, a_type) ==
    [what |-> what, op |-> op, kids |-> kids, symbol |-> symbol, a_type |-> a_type]

Expressions == {"IdExpr", "LitExpr", "UnaryExpr", "BinaryExpr", "BitwiseExpr",
                "AssignExpr", "FuncCallExpr"}

Init ==
    /\ tree = <<>> /\ operands = <<>> /\ open = <<>>
    /\ m_current_function = NoSymbol /\ failed = 0

-----------------------------------------------------------------------------
(* The ends of a visit.                                                    *)

Running == failed = 0 /\ Len(tree) < MaxNodes
InBody  == Running /\ m_current_function # NoSymbol

Add(node, ok) == /\ tree' = Append(tree, node)
                 /\ failed' = IF ok THEN 0 ELSE Len(tree) + 1

\* The last n of the waiting expressions are the operands of the node.
Taken(n) == SubSeq(operands, Len(operands) - n + 1, Len(operands))
Operand(n, i) == tree[Taken(n)[i]]

Expression(n, node, ok) ==
    /\ InBody /\ Len(operands) - n < MaxOperands
    /\ Add(node, ok)
    /\ operands' = Append(SubSeq(operands, 1, Len(operands) - n), Len(tree) + 1)
    /\ UNCHANGED <<open, m_current_function>>

Statement(node, ok) ==
    /\ InBody /\ Add(node, ok) /\ operands' = <<>>
    /\ UNCHANGED <<open, m_current_function>>

-----------------------------------------------------------------------------
(* Names.                                                                  *)

Parameter(n, i) == Variable(tree[n].symbol.param_types[i], n, i)

\* The symbols of the variables that node n declares.
Declared(n) ==
    CASE tree[n].what = "VarDecl"  -> {tree[n].symbol}
      [] tree[n].what = "FuncDecl" ->
            {Parameter(n, i) : i \in DOMAIN tree[n].symbol.param_types}
      [] OTHER -> {}

\* The function that the next node stands in has declared them, or nobody.  Which of
\* these a name means is for module Semanal to tell.
Visible ==
    Globals \cup UNION {Declared(n) : n \in
        {m \in 1..Len(tree) : \A e \in (m + 1)..Len(tree) : tree[e].what # "FuncDecl"}}

-----------------------------------------------------------------------------
(* Expressions.                                                            *)

IdExpr(symbol) ==
    Expression(0, Node("IdExpr", NoOp, <<>>, symbol, symbol.v_type), TRUE)

LitExpr(type) == Expression(0, Node("LitExpr", NoOp, <<>>, NoSymbol, type), TRUE)

\* INC stands for the four increments.  Only names have a symbol.
UnaryExpr(op) ==
    /\ Len(operands) >= 1
    /\ LET expr == Operand(1, 1)
           ok   == /\ op = "INC" => /\ expr.symbol # NoSymbol
                                    /\ expr.symbol.symbol_type = "VAR"
                                    /\ expr.symbol.v_type = "Int"
                   /\ op = "NOT" => expr.a_type = "Bool"
                   /\ op = "SUB" => expr.a_type = "Int"
       IN  Expression(1, Node("UnaryExpr", op, Taken(1), NoSymbol, expr.a_type), ok)

\* Defect: a comparison has the type of its operands.
ComparisonKeepsType(op) ==
    /\ Len(operands) >= 2
    /\ LET lhs  == Operand(2, 1)
           rhs  == Operand(2, 2)
           ok   == /\ lhs.a_type = rhs.a_type
                   /\ op = "LAND" => lhs.a_type = "Bool"
                   /\ op = "EQ" => lhs.a_type \notin {"Str", "Void"}
                   /\ op \in {"ADD", "LT"} => lhs.a_type = "Int"
       IN  Expression(2, Node("BinaryExpr", op, Taken(2), NoSymbol, lhs.a_type), ok)

\* LAND stands for && and ||, ADD for the arithmetic, EQ for == and !=, LT for the
\* other comparisons.
BinaryExpr(op) ==
    /\ Len(operands) >= 2
    /\ LET lhs  == Operand(2, 1)
           rhs  == Operand(2, 2)
           ok   == /\ lhs.a_type = rhs.a_type
                   /\ op = "LAND" => lhs.a_type = "Bool"
                   /\ op = "EQ" => lhs.a_type \notin {"Str", "Void"}
                   /\ op \in {"ADD", "LT"} => lhs.a_type = "Int"
           type == IF op = "ADD" THEN lhs.a_type ELSE "Bool"
       IN  Expression(2, Node("BinaryExpr", op, Taken(2), NoSymbol, type), ok)

\* &, |, ^, << and >>: nothing is compared.
BitwiseExpr(op) ==
    /\ Len(operands) >= 2
    /\ Expression(2, Node("BitwiseExpr", op, Taken(2), NoSymbol, Operand(2, 1).a_type),
                  TRUE)

AssignExpr ==
    /\ Len(operands) >= 2
    /\ LET lhs == Operand(2, 1)
           rhs == Operand(2, 2)
           ok  == /\ lhs.symbol # NoSymbol /\ lhs.symbol.symbol_type = "VAR"
                  /\ lhs.a_type = rhs.a_type
       IN  Expression(2, Node("AssignExpr", NoOp, Taken(2), NoSymbol, lhs.a_type), ok)

\* Defect: only arguments that have a parameter are looked at.
CallWithExtraArguments(symbol, n) ==
    /\ Len(operands) >= n
    /\ LET ok == /\ Len(symbol.param_types) <= n
                 /\ \A i \in 1..Len(symbol.param_types) :
                       symbol.param_types[i] = Operand(n, i).a_type
       IN  Expression(n, Node("FuncCallExpr", NoOp, Taken(n), symbol, symbol.v_type), ok)

FuncCallExpr(symbol, n) ==
    /\ Len(operands) >= n
    /\ LET ok == /\ Len(symbol.param_types) = n
                 /\ \A i \in 1..n : symbol.param_types[i] = Operand(n, i).a_type
       IN  Expression(n, Node("FuncCallExpr", NoOp, Taken(n), symbol, symbol.v_type), ok)

-----------------------------------------------------------------------------
(* Statements and functions.                                               *)

ExprStmt ==
    /\ Len(operands) = 1
    /\ Statement(Node("ExprStmt", NoOp, operands, NoSymbol, Operand(1, 1).a_type), TRUE)

\* A return without a value is legal in every function.
ReturnStmt ==
    \/ /\ operands = <<>>
       /\ Statement(Node("ReturnStmt", NoOp, <<>>, NoSymbol, "Void"), TRUE)
    \/ /\ Len(operands) = 1
       /\ LET type == Operand(1, 1).a_type
              ok   == /\ m_current_function.v_type # "Void"
                      /\ m_current_function.v_type = type
          IN  Statement(Node("ReturnStmt", NoOp, operands, NoSymbol, type), ok)

VarDecl(type) ==
    /\ operands = <<>>
    /\ Statement(Node("VarDecl", NoOp, <<>>, Variable(type, Len(tree) + 1, 0), type), TRUE)

\* Defect: the condition is remembered in place of the statement.
ConditionByItsOperand ==
    /\ InBody /\ Len(operands) = 1
    /\ Add(Node("Condition", NoOp, operands, NoSymbol, "Void"), TRUE)
    /\ operands' = <<>> /\ open' = Append(open, Len(tree))
    /\ UNCHANGED m_current_function

\* IfStmt, IfElseStmt and WhileStmt: the condition is visited before the bodies and its
\* type is looked at after them.
Condition ==
    /\ InBody /\ Len(operands) = 1
    /\ Add(Node("Condition", NoOp, operands, NoSymbol, "Void"), TRUE)
    /\ operands' = <<>> /\ open' = Append(open, Len(tree) + 1)
    /\ UNCHANGED m_current_function

EndOfBody ==
    /\ failed = 0 /\ operands = <<>> /\ open # <<>>
    /\ LET n == open[Len(open)]
           c == tree[tree[n].kids[1]]
       IN  failed' = IF c.a_type = "Bool" THEN 0 ELSE n
    /\ open' = SubSeq(open, 1, Len(open) - 1)
    /\ UNCHANGED <<tree, operands, m_current_function>>

\* FuncDecl and MFuncDecl.
FuncDecl(symbol) ==
    /\ Running /\ m_current_function = NoSymbol
    /\ Add(Node("FuncDecl", NoOp, <<>>, symbol, symbol.v_type), TRUE)
    /\ m_current_function' = symbol
    /\ UNCHANGED <<operands, open>>

EndOfFunc ==
    /\ failed = 0 /\ m_current_function # NoSymbol
    /\ operands = <<>> /\ open = <<>>
    /\ m_current_function' = NoSymbol
    /\ UNCHANGED <<tree, operands, open, failed>>

Next ==
    \/ \E s \in Visible : IdExpr(s)
    \/ \E t \in VType \ {"Void"} : LitExpr(t) \/ VarDecl(t)
    \/ \E op \in UnaryOps : UnaryExpr(op)
    \/ \E op \in BinaryOps : BinaryExpr(op)
    \/ \E op \in BitwiseOps : BitwiseExpr(op)
    \/ AssignExpr
    \/ \E s \in Functions : \E n \in 0..MaxOperands : FuncCallExpr(s, n)
    \/ ExprStmt \/ ReturnStmt \/ Condition \/ EndOfBody
    \/ \E s \in Functions \cup {Main} : FuncDecl(s)
    \/ EndOfFunc

Spec == Init /\ [][Next]_vars

-----------------------------------------------------------------------------
(* The rules of types that src/src/semanal/todo lists for the "Type        *)
(* Analyzer", as a table.  src/README.md:16 has one more, "String          *)
(* variables are constant and cannot be changed", which the visitor does   *)
(* not check and the table leaves out.  That a function returns at all is  *)
(* a matter of CodegenIR's warning.                                        *)

Signatures ==
    {<<"INC",  <<"Int">>,            "Int">>,
     <<"NOT",  <<"Bool">>,           "Bool">>,
     <<"SUB",  <<"Int">>,            "Int">>,
     <<"LAND", <<"Bool", "Bool">>,   "Bool">>,
     <<"ADD",  <<"Int",  "Int">>,    "Int">>,
     <<"EQ",   <<"Int",  "Int">>,    "Bool">>,
     <<"EQ",   <<"Bool", "Bool">>,   "Bool">>,
     <<"LT",   <<"Int",  "Int">>,    "Bool">>}

Kid(n, i) == tree[tree[n].kids[i]]
KidTypes(n) == [i \in DOMAIN tree[n].kids |-> Kid(n, i).a_type]

\* The declaration that a node stands in.
IsFunctionOf(d, n) ==
    /\ d <= n /\ tree[d].what = "FuncDecl"
    /\ \A e \in (d + 1)..n : tree[e].what # "FuncDecl"

Legal(n) ==
    LET node == tree[n]
    IN  /\ node.what \in {"UnaryExpr", "BinaryExpr"} =>
              <<node.op, KidTypes(n), node.a_type>> \in Signatures
        /\ node.op = "INC" => Kid(n, 1).what = "IdExpr"
        /\ node.what = "BitwiseExpr" => node.a_type = Kid(n, 1).a_type
        /\ node.what = "AssignExpr" =>
              /\ Kid(n, 1).what = "IdExpr"
              /\ KidTypes(n) = <<node.a_type, node.a_type>>
        /\ node.what = "FuncCallExpr" => KidTypes(n) = node.symbol.param_types
        /\ node.what = "ReturnStmt" =>
              \A d \in 1..n : IsFunctionOf(d, n) =>
                  \/ node.kids = <<>>
                  \/ tree[d].a_type # "Void" /\ KidTypes(n) = <<tree[d].a_type>>
        /\ node.what = "Condition" => KidTypes(n) = <<"Bool">>

-----------------------------------------------------------------------------
(* Properties.                                                             *)

\* The type of every variable; operands are earlier expressions, each waiting once.
TypeOK ==
    /\ \A n \in 1..Len(tree) :
          /\ tree[n].what \in
                Expressions \cup
                {"VarDecl", "ExprStmt", "ReturnStmt", "Condition", "FuncDecl"}
          /\ tree[n].op \in UnaryOps \cup BinaryOps \cup BitwiseOps \cup {NoOp}
          /\ tree[n].symbol \in
                Globals \cup Symbols(1..n) \cup Functions \cup {Main, NoSymbol}
          /\ tree[n].a_type \in VType
          /\ \A i \in DOMAIN tree[n].kids :
                tree[n].kids[i] \in 1..(n - 1) /\ Kid(n, i).what \in Expressions
    /\ \A i, j \in DOMAIN operands :
          /\ operands[i] \in 1..Len(tree) /\ tree[operands[i]].what \in Expressions
          /\ i < j => operands[i] < operands[j]
    /\ \A i \in DOMAIN open : open[i] \in 1..Len(tree)
                              /\ tree[open[i]].what = "Condition"
    /\ m_current_function \in Functions \cup {Main, NoSymbol}
    /\ failed \in 0..Len(tree)

\* A program is rejected at the first node that breaks the rules and not before, except
\* that a condition counts only after its body, that no operands of a bitwise operator
\* break them (type_visitor.cpp:189), that a return may lack its value
\* (type_visitor.cpp:58), and that a variable of type str may be assigned to
\* (type_visitor.cpp:196), which src/README.md:16 rules out.
VerdictIsRight ==
    \A n \in 1..Len(tree) :
        IF n = failed THEN ~Legal(n)
        ELSE Legal(n) \/ \E i \in DOMAIN open : open[i] = n
=============================================================================
