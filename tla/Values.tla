------------------------------- MODULE Values -------------------------------
(***************************************************************************)
(* The LLVM values and types that IRCodegenVisitor makes of a program that *)
(* TypeVisitor accepts (src/src/codegen/codegen_ir.cpp): a second walk of  *)
(* the same tree, in which each expression hands the value of its parts on.*)
(*                                                                         *)
(* `code` is the set of instructions, each with the node it is made for.   *)
(* Their order and their blocks are those of module CodegenIR.             *)
(***************************************************************************)
EXTENDS Types, FiniteSets

VARIABLES
    next,   \* the node that code is made for, 0 while the types are analysed
    func,   \* the function that the builder is in
    value,  \* the values of the nodes before
    llvm_Value, \* the address of each variable that code was made for, by its symbol
    code    \* the instructions

valueVars == <<next, func, value, llvm_Value, code>>
allVars == <<vars, valueVars>>

-----------------------------------------------------------------------------
(* LLVM.                                                                   *)

LLVMTypes == {"i32", "i1", "ptr", "void"}
Integer == {"i32", "i1"}

\* A value: its type and, if that is known, what it is.
NoOrigin == [kind |-> "none"]
Plain(type) == [type |-> type, origin |-> NoOrigin]
NoValue == Plain("void")

\* Argument `pos` of the function that node `decl` declares.
Argument(type, decl, pos) ==
    [type |-> type, origin |-> [kind |-> "argument", decl |-> decl, pos |-> pos]]

\* The address of the storage for values of type `holds`, number `pos` of those that
\* are made at node `decl`.
Storage(kind, decl, pos, holds) ==
    [type |-> "ptr",
     origin |-> [kind |-> kind, decl |-> decl, pos |-> pos, holds |-> holds]]

\* An instruction: `type` is that of its result, of a function's for a ret.
Inst(op, args, type) ==
    [at |-> next, op |-> op, args |-> args, type |-> type, callee |-> NoSymbol]

\* What verifyFunction would accept, could it be asked about one instruction.
Arithmetic == {"add", "and"}
ArgTypes(i) == [k \in DOMAIN i.args |-> i.args[k].type]
Verified(i) ==
    LET t == ArgTypes(i)
    IN  /\ i.op = "alloca" => t = <<"ptr">>
        /\ i.op = "load" => t = <<"ptr">> /\ i.type # "void"
        /\ i.op = "store" => t[1] # "void" /\ t[2] = "ptr"
        /\ i.op \in Arithmetic => i.type \in Integer /\ t = <<i.type, i.type>>
        /\ i.op = "icmp" => t[1] = t[2] /\ t[1] # "void" /\ i.type = "i1"
        /\ i.op \in {"not", "neg"} => i.type \in Integer /\ t = <<i.type>>
        /\ i.op = "br" => t = <<"i1">>
        /\ i.op = "phi" => t = <<i.type, i.type>>
        /\ i.op = "ret" => IF t = <<>> THEN i.type = "void"
                           ELSE i.type # "void" /\ t = <<i.type>>
        /\ i.op = "call" => t = i.callee.params /\ i.type = i.callee.type

-----------------------------------------------------------------------------
(* Types and storage.                                                      *)

getType(type) == [Int |-> "i32", Str |-> "ptr", Bool |-> "i1", Void |-> "void"][type]

\* A global of type str is made as a constant.
Global(symbol) ==
    Storage(IF symbol.v_type = "Str" THEN "constant" ELSE "variable",
            0, symbol.pos, getType(symbol.v_type))

\* The llvm function of a declaration.
Callee(symbol) ==
    [params |-> [i \in DOMAIN symbol.param_types |-> getType(symbol.param_types[i])],
     type   |-> getType(symbol.v_type)]

-----------------------------------------------------------------------------
(* codegen() of the nodes.                                                 *)

ValuesInit ==
    Init /\ next = 0 /\ func = NoSymbol /\ value = <<>> /\ llvm_Value = <<>>
    /\ code = {}

Analyse == next = 0 /\ Next /\ UNCHANGED valueVars

\* SemanticAnalyzer::analyze has returned, and CodegenGlobals makes the global variables.
\* The functions seen so far may be part of a program: that one of all is a main function
\* is not for this pass to see.
EndOfAnalysis ==
    /\ next = 0 /\ failed = 0 /\ m_current_function = NoSymbol
    /\ next' = 1
    /\ llvm_Value' = [s \in Globals |-> Global(s)]
    /\ UNCHANGED <<vars, func, value, code>>

At(what) == next \in 1..Len(tree) /\ tree[next].what = what

Arg(i) == value[tree[next].kids[i]]
Args == [i \in DOMAIN tree[next].kids |-> Arg(i)]

Make(instructions, result) ==
    /\ code' = code \cup instructions
    /\ value' = Append(value, result)
    /\ next' = next + 1
    /\ UNCHANGED vars

\* codegen() of the left side of an assignment is not called.
IsTarget(n) ==
    \E m \in DOMAIN tree : tree[m].what = "AssignExpr" /\ tree[m].kids[1] = n

SkipTarget ==
    /\ next \in 1..Len(tree) /\ IsTarget(next)
    /\ Make({}, NoValue) /\ UNCHANGED <<func, llvm_Value>>

MakeIdExpr ==
    /\ At("IdExpr") /\ ~IsTarget(next)
    /\ LET type == getType(tree[next].a_type)
       IN  Make({Inst("load", <<llvm_Value[tree[next].symbol]>>, type)}, Plain(type))
    /\ UNCHANGED <<func, llvm_Value>>

MakeLitExpr ==
    /\ At("LitExpr") /\ Make({}, Plain(getType(tree[next].a_type)))
    /\ UNCHANGED <<func, llvm_Value>>

\* The four increments load and store through the value of their operand.
MakeIncrement ==
    /\ At("UnaryExpr") /\ tree[next].op = "INC"
    /\ LET int == Plain("i32")
       IN  Make({Inst("load", <<Arg(1)>>, "i32"),
                 Inst("add", <<int, int>>, "i32"),
                 Inst("store", <<int, Arg(1)>>, "void")}, int)
    /\ UNCHANGED <<func, llvm_Value>>

MakeUnaryExpr ==
    /\ At("UnaryExpr") /\ tree[next].op # "INC"
    /\ LET op == IF tree[next].op = "NOT" THEN "not" ELSE "neg"
       IN  Make({Inst(op, Args, Arg(1).type)}, Plain(Arg(1).type))
    /\ UNCHANGED <<func, llvm_Value>>

MakeLogical ==
    /\ At("BinaryExpr") /\ tree[next].op = "LAND"
    /\ Make({Inst("br", <<Arg(1)>>, "void"), Inst("phi", Args, "i1")}, Plain("i1"))
    /\ UNCHANGED <<func, llvm_Value>>

MakeBinaryExpr ==
    /\ At("BinaryExpr") /\ tree[next].op # "LAND"
    /\ LET op   == IF tree[next].op = "ADD" THEN "add" ELSE "icmp"
           type == IF tree[next].op = "ADD" THEN Arg(1).type ELSE "i1"
       IN  Make({Inst(op, Args, type)}, Plain(type))
    /\ UNCHANGED <<func, llvm_Value>>

MakeBitwiseExpr ==
    /\ At("BitwiseExpr")
    /\ Make({Inst("and", Args, Arg(1).type)}, Plain(Arg(1).type))
    /\ UNCHANGED <<func, llvm_Value>>

\* Defect: the store goes to what codegen() of the left side returns.
AssignThroughValue ==
    /\ At("AssignExpr")
    /\ Make({Inst("store", <<Arg(2), Arg(1)>>, "void")}, Arg(2))
    /\ UNCHANGED <<func, llvm_Value>>

\* The value of an assignment is the one that it stores.
MakeAssignExpr ==
    /\ At("AssignExpr")
    /\ LET lhs == llvm_Value[Kid(next, 1).symbol]
       IN  Make({Inst("store", <<Arg(2), lhs>>, "void")}, Arg(2))
    /\ UNCHANGED <<func, llvm_Value>>

MakeFuncCallExpr ==
    /\ At("FuncCallExpr")
    /\ LET type == getType(tree[next].a_type)
       IN  Make({[Inst("call", Args, type)
                     EXCEPT !.callee = Callee(tree[next].symbol)]}, Plain(type))
    /\ UNCHANGED <<func, llvm_Value>>

MakeExprStmt == At("ExprStmt") /\ Make({}, NoValue) /\ UNCHANGED <<func, llvm_Value>>

MakeReturnStmt ==
    /\ At("ReturnStmt")
    /\ Make({Inst("ret", Args, getType(func.v_type))}, NoValue)
    /\ UNCHANGED <<func, llvm_Value>>

MakeCondition ==
    /\ At("Condition") /\ Make({Inst("br", Args, "void")}, NoValue)
    /\ UNCHANGED <<func, llvm_Value>>

\* The addresses of the variables that the node declares.
Allocate(addresses) ==
    llvm_Value' = [s \in DOMAIN llvm_Value \cup DOMAIN addresses |->
                      IF s \in DOMAIN addresses THEN addresses[s] ELSE llvm_Value[s]]

MakeVarDecl ==
    /\ At("VarDecl")
    /\ LET var == Storage("variable", next, 0, getType(tree[next].a_type))
       IN  /\ Make({Inst("alloca", <<var>>, "ptr")}, NoValue)
           /\ Allocate([s \in Declared(next) |-> var])
    /\ UNCHANGED func

\* The place for argument i of the function.
Place(i) ==
    Storage("variable", next, i, getType(tree[next].symbol.param_types[i]))

\* Each argument is stored in its place.
StoreArguments(addresses) ==
    /\ At("FuncDecl")
    /\ LET args == DOMAIN tree[next].symbol.param_types
           arg(i) == Argument(getType(tree[next].symbol.param_types[i]), next, i)
       IN  Make({Inst("alloca", <<Place(i)>>, "ptr") : i \in args} \cup
                {Inst("store", <<arg(i), Place(i)>>, "void") : i \in args}, NoValue)
    /\ Allocate(addresses)
    /\ func' = tree[next].symbol

\* Defect: the parameters get the places from the last to the first.
ParametersInReverse ==
    LET n == Cardinality(Declared(next))
    IN  StoreArguments([s \in Declared(next) |-> Place(n + 1 - s.pos)])

MakeFuncDecl == StoreArguments([s \in Declared(next) |-> Place(s.pos)])

ValuesNext ==
    \/ Analyse \/ EndOfAnalysis
    \/ SkipTarget \/ MakeIdExpr \/ MakeLitExpr
    \/ MakeIncrement \/ MakeUnaryExpr \/ MakeLogical \/ MakeBinaryExpr
    \/ MakeBitwiseExpr \/ MakeAssignExpr \/ MakeFuncCallExpr
    \/ MakeExprStmt \/ MakeReturnStmt \/ MakeCondition
    \/ MakeVarDecl \/ MakeFuncDecl

ValuesSpec == ValuesInit /\ [][ValuesNext]_allVars

-----------------------------------------------------------------------------
(* Properties.                                                             *)

\* The type of every variable; there is a value for each node before the next.
ValuesTypeOK ==
    /\ TypeOK
    /\ next \in 0..(Len(tree) + 1)
    /\ func \in Functions \cup {Main, NoSymbol}
    /\ Len(value) = IF next = 0 THEN 0 ELSE next - 1
    /\ \A n \in DOMAIN value : value[n].type \in LLVMTypes
                               /\ value[n].origin = NoOrigin
    /\ \A s \in DOMAIN llvm_Value :
          s \in Globals \cup Symbols(DOMAIN value) /\ llvm_Value[s].type = "ptr"
    /\ \A i \in code : i.at \in DOMAIN value /\ i.type \in LLVMTypes

\* An instruction whose operands do not have the types it needs.
Mistyped(i) ==
    LET node == tree[i.at]
    IN  \/ node.op = "INC" /\ i.op \in {"load", "store"}
        \/ /\ node.what = "BitwiseExpr"
           /\ KidTypes(i.at) \notin {<<"Int", "Int">>, <<"Bool", "Bool">>}
        \/ /\ node.what = "ReturnStmt" /\ node.kids = <<>>
           /\ \E d \in 1..i.at : IsFunctionOf(d, i.at) /\ tree[d].a_type # "Void"

\* The code of an accepted program fits its types: the value of an expression has the
\* LLVM type of the expression's, and every instruction is one that LLVM allows, except exactly
\* the load and the store of ++ and -- (codegen_ir.cpp:409), bitwise operators on
\* operands that nothing has compared (codegen_ir.cpp:537, type_visitor.cpp:189), and the
\* ret of a return without a value in a function with one (codegen_ir.cpp:358).
CodeFitsTypes ==
    /\ \A n \in DOMAIN value : tree[n].what \in Expressions /\ ~IsTarget(n) =>
                                  value[n].type = getType(tree[n].a_type)
    /\ \A i \in code : Verified(i) <=> ~Mistyped(i)

\* `address` is the one that the declaration of the variable s has made for it: of storage
\* for values of its type, which is a constant for a global of type str.
IsStorageOf(address, s) ==
    /\ address.origin.decl = s.decl /\ address.origin.pos = s.pos
    /\ address.origin.holds = getType(s.v_type)
    /\ address.origin.kind =
          IF s.decl = 0 /\ s.v_type = "Str" THEN "constant" ELSE "variable"

\* The variable that the source means where the instruction i loads or stores: the one
\* named, or the parameter for the argument that is stored.
Meant(i) ==
    CASE tree[i.at].what = "IdExpr"     -> tree[i.at].symbol
      [] tree[i.at].what = "AssignExpr" -> Kid(i.at, 1).symbol
      [] tree[i.at].what = "FuncDecl"   -> Parameter(i.at, i.args[1].origin.pos)

\* A name is loaded from, and an assignment stores to, what the declaration of the
\* variable named has made for it, and what it loads or stores has the type that it holds;
\* and a function stores every argument where its parameter will be looked up.  Exceptions
\* are exactly ++ and --, which take the value of their operand for an address
\* (codegen_ir.cpp:409), and an assignment to a global string, which finds a constant
\* (codegen_globals.cpp:69).
AccessesReachVariables ==
    /\ \A i \in code : i.op \in {"load", "store"} =>
          LET address == i.args[Len(i.args)]
          IN  IF tree[i.at].op = "INC" THEN address.origin = NoOrigin
              ELSE /\ IsStorageOf(address, Meant(i))
                   /\ address.origin.holds =
                         IF i.op = "load" THEN i.type ELSE i.args[1].type
    /\ \A n \in DOMAIN value : tree[n].what = "FuncDecl" =>
          \A p \in DOMAIN tree[n].symbol.param_types :
             \E i \in code : i.at = n /\ i.op = "store" /\ i.args[1].origin.pos = p
=============================================================================
