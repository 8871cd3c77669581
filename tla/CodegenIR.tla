------------------------------ MODULE CodegenIR ------------------------------
(***************************************************************************)
(* How IRCodegenVisitor lays out the basic blocks of one LLVM function     *)
(* after another (src/src/codegen/codegen_ir.cpp).                         *)
(*                                                                         *)
(* codegen() is recursive; `frames` is its call stack, and a handler that  *)
(* recurses is cut into one action before and one after each recursive     *)
(* call.  The AST is the input: every step that enters a node chooses the  *)
(* node, and `trail` keeps the choices made in the current function.  An   *)
(* instruction is reduced to what the shape of the graph depends on: the   *)
(* blocks it branches to, or, for a phi, the blocks it names.              *)
(***************************************************************************)
EXTENDS Integers, Sequences, FiniteSets

CONSTANTS
    Constructs,   \* the kinds of AST node the programs are made of
    FuncKinds,    \* the kinds of function they define
    MaxTrail,     \* bound: no node is entered once the trail is this long
    MaxWarnings   \* Logger::MaxWarnings

AllConstructs == {"param", "decl", "expr", "return", "break", "if", "ifelse",
                  "while", "literal", "operator", "operand", "land", "lor"}

ASSUME CodegenAssumption ==
    /\ Constructs \subseteq AllConstructs
    /\ FuncKinds \subseteq {"value", "void", "main"}
    /\ MaxTrail \in Nat
    /\ MaxWarnings \in Nat

VARIABLES
    mode,         \* what the running handler does next, see TypeOK
    kind,         \* FuncDecl returning a value, FuncDecl void, or MFuncDecl
    trail,        \* the nodes entered and the bodies left in this function
    frames,       \* the active codegen() calls, innermost last
    code,         \* the instructions of each block; block 1 is "entry"
    inserted,     \* the blocks that are linked into the function
    insertBlock,  \* m_builder->GetInsertBlock()
    whileContext, \* m_while_context
    warnings      \* Logger::warnings

vars == <<mode, kind, trail, frames, code, inserted, insertBlock,
          whileContext, warnings>>

-----------------------------------------------------------------------------
(* Instructions, blocks and frames.                                        *)

None == 0    \* no block: a null BasicBlock*, or a local the frame lacks

Terminators == {"br", "condbr", "ret", "unreachable"}
Instr == [op : Terminators \cup {"alloca", "plain", "phi"}, blocks : Seq(Nat)]

Alloca       == [op |-> "alloca", blocks |-> <<>>]
Plain        == [op |-> "plain", blocks |-> <<>>]
Ret          == [op |-> "ret", blocks |-> <<>>]
Unreachable  == [op |-> "unreachable", blocks |-> <<>>]
Br(b)        == [op |-> "br", blocks |-> <<b>>]
CondBr(t, f) == [op |-> "condbr", blocks |-> <<t, f>>]
Phi(p, q)    == [op |-> "phi", blocks |-> <<p, q>>]

IsTerminator(i) == i.op \in Terminators

\* BasicBlock::getTerminator() # nullptr: the last instruction is a terminator.
Terminated(s) == s # <<>> /\ IsTerminator(s[Len(s)])

\* Frames whose handler runs through the statements of a body ...
StmtFrames == {"func", "if.then", "ifelse.then", "ifelse.else", "while.body"}
\* ... and frames whose handler waits for the value of an expression.
ExprFrames == {"if.cond", "ifelse.cond", "while.cond", "expr", "return",
               "operator", "land.lhs", "lor.lhs", "logical.rhs"}

\* from, blk and end are the blocks the handler holds in local variables.
Frame == [kind : StmtFrames \cup ExprFrames, from : Nat, blk : Nat, end : Nat]
Holding(k, from, blk, end) ==
    [kind |-> k, from |-> from, blk |-> blk, end |-> end]
Plainly(k) == Holding(k, None, None, None)

Top == frames[Len(frames)]
Pop(s) == [i \in 1..Len(s) - 1 |-> s[i]]

\* Call codegen() on a node, continue in the same call after a recursive call
\* has returned, and return.
Call(f)   == frames' = Append(frames, f)
Resume(f) == frames' = Append(Pop(frames), f)
Return    == frames' = Pop(frames)

\* The i-th block that BasicBlock::Create is going to make.
Fresh(i) == Len(code) + i

\* Append instruction i to the insertion block and create n empty blocks.
Emit(i, n) ==
    [b \in 1..Len(code) + n |-> IF b > Len(code) THEN <<>>
                                ELSE IF b = insertBlock THEN Append(code[b], i)
                                ELSE code[b]]

\* A defect (see below): SetInsertPoint on a block that is not linked.
MoveToDetached(b) == inserted' = inserted /\ insertBlock' = b

\* SetInsertPoint on a block just linked into the function.
MoveTo(b) == inserted' = inserted \cup {b} /\ insertBlock' = b

\* A node of the AST is entered.
Enter(c) ==
    /\ c \in Constructs /\ Len(trail) < MaxTrail
    /\ trail' = Append(trail, c)

\* A handler resumes at the end of a body.
Leave(k, event) ==
    /\ mode = "stmt" /\ Top.kind = k
    /\ trail' = Append(trail, event)
    /\ UNCHANGED <<mode, kind, warnings>>

Init ==
    /\ mode = "idle" /\ kind = "void"
    /\ trail = <<>> /\ frames = <<>>
    /\ code = <<>> /\ inserted = {} /\ insertBlock = None
    /\ whileContext = <<>>
    /\ warnings \in 0..MaxWarnings    \* the front end has used some of them

-----------------------------------------------------------------------------
(* Defects: variants of some definitions that follow, not used by Spec,    *)
(* which the properties must tell from the code.                           *)

\* The clean-up takes the ret itself for the instruction to erase.
AfterReturnIsReturn(s) == {i \in 1..Len(s) : s[i].op = "ret"}

\* The clean-up returns from every open block, of whatever function.
ClosedByReturn(s) == IF Terminated(s) THEN s ELSE Append(s, Ret)

\* A while statement does not jump to its condition.
WhileStmtWithoutJump ==
    /\ mode = "stmt" /\ Enter("while")
    /\ LET cond == Fresh(1)
       IN  /\ code' = Append(code, <<>>)
           /\ MoveTo(cond)
           /\ Call(Holding("while.cond", None, cond, None))
    /\ mode' = "expr"
    /\ UNCHANGED <<kind, whileContext, warnings>>

\* An if without else goes on in the block it is in.
IfThenStays ==
    /\ Leave("if.then", "end")
    /\ code' = Emit(Br(Top.end), 0)
    /\ Return
    /\ UNCHANGED <<inserted, insertBlock, whileContext>>

\* An if-else branches to its end instead of its else.
IfElseCondSkipsElse ==
    /\ mode = "value" /\ Top.kind = "ifelse.cond"
    /\ LET then == Fresh(1)
           else == Fresh(2)
           end  == Fresh(3)
       IN  /\ code' = Emit(CondBr(then, end), 3)
           /\ MoveTo(then)
           /\ Resume(Holding("ifelse.then", None, else, end))
    /\ mode' = "stmt"
    /\ UNCHANGED <<kind, trail, whileContext, warnings>>

\* The else branch does not jump to the end.
IfElseElseWithoutJump ==
    /\ Leave("ifelse.else", "end")
    /\ MoveTo(Top.end) /\ Return
    /\ UNCHANGED <<code, whileContext>>

\* The end of a loop stays on m_while_context.
WhileBodyWithoutPop ==
    /\ Leave("while.body", "end")
    /\ code' = Emit(Br(Top.blk), 0)
    /\ MoveTo(Top.end) /\ Return
    /\ UNCHANGED whileContext

\* curr_block is read after the insertion point has moved.
LogicalLhsTooLate ==
    /\ mode = "value" /\ Top.kind \in {"land.lhs", "lor.lhs"}
    /\ LET rhs == Fresh(1)
           end == Fresh(2)
       IN  /\ code' = Emit(IF Top.kind = "land.lhs" THEN CondBr(rhs, end)
                           ELSE CondBr(end, rhs), 2)
           /\ MoveTo(rhs)
           /\ Resume(Holding("logical.rhs", rhs, rhs, end))
    /\ mode' = "expr"
    /\ UNCHANGED <<kind, trail, whileContext, warnings>>

\* The right operand does not jump to the phi.
LogicalRhsWithoutJump ==
    /\ mode = "value" /\ Top.kind = "logical.rhs"
    /\ code' = [code EXCEPT ![Top.end] = Append(@, Phi(Top.from, Top.blk))]
    /\ MoveTo(Top.end) /\ Return
    /\ UNCHANGED <<mode, kind, trail, whileContext, warnings>>

-----------------------------------------------------------------------------
(* Functions.                                                              *)

\* FuncDecl and MFuncDecl up to node->body->codegen(this).  A FuncDecl with
\* parameters spills them to allocas first.
StartFunction(k, params) ==
    /\ mode = "idle"
    /\ params => k # "main" /\ "param" \in Constructs
    /\ mode' = "stmt" /\ kind' = k
    /\ trail' = <<>>
    /\ frames' = <<Plainly("func")>>
    /\ code' = <<IF params THEN <<Alloca, Plain>> ELSE <<>>>>
    /\ inserted' = {1} /\ insertBlock' = 1
    /\ UNCHANGED <<whileContext, warnings>>

\* The clean-up loop of FuncDecl erases the one instruction that follows the
\* first ret of a block ...
AfterReturn(s) == {i \in 2..Len(s) : s[i - 1].op = "ret"}
Erased(s) ==
    IF AfterReturn(s) = {} THEN s
    ELSE [i \in 1..Len(s) - 1 |-> IF \E first \in AfterReturn(s) : first <= i
                                  THEN s[i + 1] ELSE s[i]]

\* ... and then closes the block if it has no terminator.
Closed(s) ==
    IF Terminated(s) THEN s
    ELSE IF kind = "value" THEN Append(Append(s, Plain), Unreachable)
    ELSE Append(s, Ret)

FallsOff == {b \in inserted : ~Terminated(Erased(code[b]))}

\* The rest of FuncDecl: a warning for every block of a non-void function that
\* is left open, and exit(1) at the first one beyond MaxWarnings (the blocks it
\* leaves alone then no longer matter).
FinishFunc ==
    /\ mode = "stmt" /\ Top.kind = "func" /\ kind # "main"
    /\ LET missing == IF kind = "value" THEN Cardinality(FallsOff) ELSE 0
       IN  IF warnings + missing > MaxWarnings
           THEN mode' = "exit" /\ warnings' = MaxWarnings + 1
           ELSE mode' = "idle" /\ warnings' = warnings + missing
    /\ code' = [b \in 1..Len(code) |->
                   IF b \in inserted THEN Closed(Erased(code[b])) ELSE code[b]]
    /\ Return
    /\ UNCHANGED <<kind, trail, inserted, insertBlock, whileContext>>

\* The rest of MFuncDecl closes the insertion block only.
FinishMain ==
    /\ mode = "stmt" /\ Top.kind = "func" /\ kind = "main"
    /\ code' = IF Terminated(code[insertBlock]) THEN code ELSE Emit(Ret, 0)
    /\ mode' = "idle" /\ Return
    /\ UNCHANGED <<kind, trail, inserted, insertBlock, whileContext, warnings>>

-----------------------------------------------------------------------------
(* Statements.                                                             *)

\* VarDecl puts its alloca behind the allocas that lead the entry block, which
\* leaves the same sequence as putting it in front; the insertion point stays.
VarDecl ==
    /\ mode = "stmt" /\ Enter("decl")
    /\ code' = [code EXCEPT ![1] = <<Alloca>> \o @]
    /\ UNCHANGED <<mode, kind, frames, inserted, insertBlock, whileContext,
                   warnings>>

\* A statement starts by generating its expression or condition.
Evaluate(c, k) ==
    /\ mode = "stmt" /\ Enter(c)
    /\ Call(Plainly(k)) /\ mode' = "expr"
    /\ UNCHANGED <<kind, code, inserted, insertBlock, whileContext, warnings>>

ExprStmt    == Evaluate("expr", "expr")
ReturnValue == kind = "value" /\ Evaluate("return", "return")
IfStmt      == Evaluate("if", "if.cond")
IfElseStmt  == Evaluate("ifelse", "ifelse.cond")

\* A return without a value, which the analyser accepts in every function.
ReturnVoid ==
    /\ mode = "stmt" /\ Enter("return")
    /\ code' = Emit(Ret, 0)
    /\ UNCHANGED <<mode, kind, frames, inserted, insertBlock, whileContext,
                   warnings>>

\* FunctionVisitor lets a break through only inside a while body.
BreakStmt ==
    /\ mode = "stmt"
    /\ \E i \in DOMAIN frames : frames[i].kind = "while.body"
    /\ Enter("break")
    /\ code' = Emit(Br(whileContext[Len(whileContext)]), 0)
    /\ UNCHANGED <<mode, kind, frames, inserted, insertBlock, whileContext,
                   warnings>>

WhileStmt ==
    /\ mode = "stmt" /\ Enter("while")
    /\ LET cond == Fresh(1)
       IN  /\ code' = Emit(Br(cond), 1)
           /\ MoveTo(cond)
           /\ Call(Holding("while.cond", None, cond, None))
    /\ mode' = "expr"
    /\ UNCHANGED <<kind, whileContext, warnings>>

\* A handler resumes with the value of its expression or condition.
ExprStmtValue ==
    /\ mode = "value" /\ Top.kind = "expr"
    /\ mode' = "stmt" /\ Return
    /\ UNCHANGED <<kind, trail, code, inserted, insertBlock, whileContext,
                   warnings>>

ReturnStmtValue ==
    /\ mode = "value" /\ Top.kind = "return"
    /\ mode' = "stmt" /\ Return
    /\ code' = Emit(Ret, 0)
    /\ UNCHANGED <<kind, trail, inserted, insertBlock, whileContext, warnings>>

IfCond ==
    /\ mode = "value" /\ Top.kind = "if.cond"
    /\ LET then == Fresh(1)
           end  == Fresh(2)
       IN  /\ code' = Emit(CondBr(then, end), 2)
           /\ MoveTo(then)
           /\ Resume(Holding("if.then", None, None, end))
    /\ mode' = "stmt"
    /\ UNCHANGED <<kind, trail, whileContext, warnings>>

IfElseCond ==
    /\ mode = "value" /\ Top.kind = "ifelse.cond"
    /\ LET then == Fresh(1)
           else == Fresh(2)
           end  == Fresh(3)
       IN  /\ code' = Emit(CondBr(then, else), 3)
           /\ MoveTo(then)
           /\ Resume(Holding("ifelse.then", None, else, end))
    /\ mode' = "stmt"
    /\ UNCHANGED <<kind, trail, whileContext, warnings>>

WhileCond ==
    /\ mode = "value" /\ Top.kind = "while.cond"
    /\ LET body == Fresh(1)
           end  == Fresh(2)
       IN  /\ code' = Emit(CondBr(body, end), 2)
           /\ MoveTo(body)
           /\ whileContext' = Append(whileContext, end)
           /\ Resume(Holding("while.body", None, Top.blk, end))
    /\ mode' = "stmt"
    /\ UNCHANGED <<kind, trail, warnings>>

IfThen ==
    /\ Leave("if.then", "end")
    /\ code' = Emit(Br(Top.end), 0)
    /\ MoveTo(Top.end) /\ Return
    /\ UNCHANGED whileContext

IfElseThen ==
    /\ Leave("ifelse.then", "else")
    /\ code' = Emit(Br(Top.end), 0)
    /\ MoveTo(Top.blk)
    /\ Resume(Holding("ifelse.else", None, None, Top.end))
    /\ UNCHANGED whileContext

IfElseElse ==
    /\ Leave("ifelse.else", "end")
    /\ code' = Emit(Br(Top.end), 0)
    /\ MoveTo(Top.end) /\ Return
    /\ UNCHANGED whileContext

WhileBody ==
    /\ Leave("while.body", "end")
    /\ code' = Emit(Br(Top.blk), 0)
    /\ MoveTo(Top.end) /\ Return
    /\ whileContext' = Pop(whileContext)

-----------------------------------------------------------------------------
(* Expressions.                                                            *)

\* An IdExpr or a call without arguments emits one instruction; a literal, and
\* an operator that IRBuilder folds, emits none.
Leaf(emitted) ==
    /\ mode = "expr" /\ mode' = "value"
    /\ code' = emitted
    /\ UNCHANGED <<kind, trail, frames, inserted, insertBlock, whileContext,
                   warnings>>
IdExpr  == Leaf(Emit(Plain, 0))
LitExpr == "literal" \in Constructs /\ Leaf(code)

\* Every operator, assignment and call but && and ||, whose operands are
\* generated in order; LAND and LOR begin with their left operand as well.
Operator(c, k) ==
    /\ mode = "expr" /\ Enter(c)
    /\ Call(Plainly(k))
    /\ UNCHANGED <<mode, kind, code, inserted, insertBlock, whileContext,
                   warnings>>

NextOperand ==
    /\ mode = "value" /\ Top.kind = "operator" /\ Enter("operand")
    /\ mode' = "expr"
    /\ UNCHANGED <<kind, frames, code, inserted, insertBlock, whileContext,
                   warnings>>

Apply ==
    /\ mode = "value" /\ Top.kind = "operator"
    /\ code' = Emit(Plain, 0) /\ Return
    /\ UNCHANGED <<mode, kind, trail, inserted, insertBlock, whileContext,
                   warnings>>

\* curr_block is read after the left operand has been generated.
LogicalLhs ==
    /\ mode = "value" /\ Top.kind \in {"land.lhs", "lor.lhs"}
    /\ LET rhs == Fresh(1)
           end == Fresh(2)
       IN  /\ code' = Emit(IF Top.kind = "land.lhs" THEN CondBr(rhs, end)
                           ELSE CondBr(end, rhs), 2)
           /\ MoveTo(rhs)
           /\ Resume(Holding("logical.rhs", insertBlock, rhs, end))
    /\ mode' = "expr"
    /\ UNCHANGED <<kind, trail, whileContext, warnings>>

LogicalRhs ==
    /\ mode = "value" /\ Top.kind = "logical.rhs"
    /\ code' = [Emit(Br(Top.end), 0) EXCEPT
                   ![Top.end] = Append(@, Phi(Top.from, Top.blk))]
    /\ MoveTo(Top.end) /\ Return
    /\ UNCHANGED <<mode, kind, trail, whileContext, warnings>>

\* Logger::error has ended the process.
Exited == mode = "exit" /\ UNCHANGED vars

Functions ==
    \/ \E k \in FuncKinds, params \in BOOLEAN : StartFunction(k, params)
    \/ FinishFunc \/ FinishMain \/ Exited

Statements ==
    \/ VarDecl \/ ExprStmt \/ ExprStmtValue
    \/ ReturnVoid \/ ReturnValue \/ ReturnStmtValue
    \/ BreakStmt
    \/ IfStmt \/ IfCond \/ IfThen
    \/ IfElseStmt \/ IfElseCond \/ IfElseThen \/ IfElseElse
    \/ WhileStmt \/ WhileCond \/ WhileBody

Expressions ==
    \/ IdExpr \/ LitExpr
    \/ Operator("operator", "operator") \/ NextOperand \/ Apply
    \/ Operator("land", "land.lhs") \/ Operator("lor", "lor.lhs")
    \/ LogicalLhs \/ LogicalRhs

Next == Functions \/ Statements \/ Expressions

Spec == Init /\ [][Next]_vars

-----------------------------------------------------------------------------
(* Properties.                                                             *)

\* "stmt": the body of Top continues; "expr": Top calls codegen() on an
\* expression; "value": that call has returned.  The insertion block belongs
\* to the function, whose outermost frame is its FuncDecl or MFuncDecl.
TypeOK ==
    /\ mode \in {"idle", "stmt", "expr", "value", "exit"}
    /\ kind \in {"value", "void", "main"}
    /\ trail \in Seq(AllConstructs \cup {"else", "end"})
    /\ frames \in Seq(Frame)
    /\ code \in Seq(Seq(Instr))
    /\ inserted \subseteq 1..Len(code)
    /\ whileContext \in Seq(Nat)
    /\ warnings \in 0..MaxWarnings + 1
    /\ mode \in {"idle", "exit"} <=> frames = <<>>
    /\ frames # <<>> => insertBlock \in inserted /\ frames[1].kind = "func"
    /\ mode = "stmt" => Top.kind \in StmtFrames
    /\ mode \in {"expr", "value"} => Top.kind \in ExprFrames

\* m_while_context is a stack that only the WhileStmt handlers keep in step
\* with the nesting of the source: whatever statements came and went, a break
\* jumps to the end of the innermost loop being generated, and the stack is
\* empty again when the function is finished.
BreakLeavesInnermostLoop ==
    /\ frames = <<>> => whileContext = <<>>
    /\ \A i \in DOMAIN frames :
          (/\ frames[i].kind = "while.body"
           /\ \A j \in i + 1..Len(frames) : frames[j].kind # "while.body")
          => /\ whileContext # <<>>
             /\ whileContext[Len(whileContext)] = frames[i].end

\* Every block of a finished function has a terminator.  MFuncDecl closes no
\* block but the last insertion block, so each handler must have terminated
\* every block it moved away from.
FinishedBlocksTerminated ==
    mode = "idle" => \A b \in inserted : Terminated(code[b])

\* A finished function refers only to blocks that were linked into it: each
\* "end" and "else" block made detached by a handler was inserted later on,
\* whatever nodes were generated in between.
FinishedTargetsInserted ==
    mode = "idle" =>
        /\ inserted = 1..Len(code)
        /\ \A b \in inserted : \A i \in DOMAIN code[b] :
              \A t \in DOMAIN code[b][i].blocks :
                  code[b][i].blocks[t] \in inserted

\* The clean-up loop of FuncDecl looks at every block, yet one function yields
\* at most one "Not all control flows return": no block but the last insertion
\* block can be open, not even after an instruction was erased from it.
OneWarningPerFunction == [][warnings' <= warnings + 1]_warnings
=============================================================================
