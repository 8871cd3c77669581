------------------------------- MODULE Parser -------------------------------
(***************************************************************************)
(* parser/parser.cpp: recursive descent, one operator per rule.            *)
(*                                                                         *)
(* A token is its kind; the file is a sequence of them and a position in   *)
(* it stands for what the lexer has there, lexeme and line.  The           *)
(* behaviours are files that grow token by token: after each token the     *)
(* whole file is parsed, and it grows on as long as what the parser        *)
(* objects to, if anything, is how the file ends.                          *)
(***************************************************************************)
EXTENDS Integers, Sequences, FiniteSets

CONSTANT Contexts   \* which part of a file grows, by what, how far

VARIABLES context,  \* the part that grows in this behaviour
          file,     \* the tokens of the file up to there
          result    \* what parse() has made of the file

vars == <<context, file, result>>

\* A context is the tokens before and after the part, the rule of the grammar
\* that the part follows, the tokens it is made of, how many there may be and how
\* many brackets may be open.
ParserAssumption ==
    \A c \in Contexts : /\ c.before \in Seq(STRING) /\ c.after \in Seq(STRING)
                        /\ c.tokens \subseteq STRING
                        /\ c.max \in Nat /\ c.nesting \in Nat
                        /\ \A i \in DOMAIN c.before : c.before[i] # "eof"
                        /\ \A i \in DOMAIN c.after : c.after[i] # "eof"
                        /\ "eof" \notin c.tokens
ASSUME ParserAssumption

Types == {"bool", "int", "str"}

\* "huge" is a NUM that std::stoul() cannot represent.
Literals == {"num", "strlit", "true", "false"}

\* The operators of the ten functions from multiplicativeexpression() to
\* conditionalorexpression(), each of which calls the one before.
Levels == <<{"*", "/", "%"}, {"+", "-"}, {"<<", ">>"}, {"<", ">", "<=", ">="},
            {"==", "!="}, {"&"}, {"^"}, {"|"}, {"&&"}, {"||"}>>

Whole == file \o context.after

\* m_lexer->peek(), when the tokens before p have been consumed.
Token(p) == IF p <= Len(file) THEN file[p]
            ELSE IF p <= Len(Whole) THEN Whole[p]
            ELSE "eof"

-----------------------------------------------------------------------------
(* Trees, and what a rule returns: a tree, or nullptr, and how far it has  *)
(* read.  An error ends the process; it is at the token that was peeked.   *)

\* A tree has its nodes at paths, the root at <<>>, its n-th child at <<n>>; a
\* node has a kind, the token that gives it its line, value and operator, and a
\* number of children.
\* Binary stands for BinaryExpr and BitwiseExpr, Prefix and Postfix for UnaryExpr.
Node(kind, at, size) == [kind |-> kind, at |-> at, size |-> size]
Leaf(kind, at) == [q \in {<<>>} |-> Node(kind, at, 0)]
Root(t) == t[<<>>]

\* One child more.
Add(t, s) ==
    LET n == Root(t).size + 1
    IN  [q \in DOMAIN t \cup {<<n>> \o r : r \in DOMAIN s} |->
            IF q = <<>> THEN Node(Root(t).kind, Root(t).at, n)
            ELSE IF q[1] = n THEN s[Tail(q)]
            ELSE t[q]]

Got(node, next) == [node |-> node, next |-> next]
Nothing(p) == Got(Leaf("null", 0), p)
Error(p) == Got(Leaf("error", p), p)
TooDeep(p) == Got(Leaf("deep", p), p)

AtEnd(r) == r.next > Len(Whole)
IsError(r) == Root(r.node).kind \in {"error", "deep"}
Missing(r) == Root(r.node).kind = "null"
Found(r) == ~IsError(r) /\ ~Missing(r)

\* if (!node) node = s
Or(r, s) == IF Missing(r) THEN s ELSE r

\* if (!node) error(...)
Need(r) == IF Missing(r) THEN Error(r.next) ELSE r

\* if (!match(token)) error(...)
Expect(token, l) == IF IsError(l) THEN l
                    ELSE IF Token(l.next) = token THEN Got(l.node, l.next + 1)
                    ELSE Error(l.next)

\* A node of the token at p; what has been read so far as the first child of a
\* node of the token that follows it; a child more; another kind or token.
Take(kind, p) == Got(Leaf(kind, p), p + 1)
Under(kind, l) == Got(Add(Leaf(kind, l.next), l.node), l.next + 1)
With(l, r) == IF IsError(l) THEN l ELSE IF IsError(r) THEN r
              ELSE Got(Add(l.node, r.node), r.next)
As(kind, at, l) ==
    Got([q \in DOMAIN l.node |->
            IF q = <<>> THEN Node(kind, at, Root(l.node).size) ELSE l.node[q]],
        l.next)

-----------------------------------------------------------------------------
(* Loops.  A turn of a loop is an operator; the loop takes as many turns   *)
(* as there are tokens left, the last of which change nothing.  A rule     *)
(* that is called in the midst of itself, further on in the file, is a     *)
(* function of the position, a component of call.                          *)

\* The loops: 1 to 10 are those of Levels.  Each goes on at these tokens; that
\* of block() is left to statement().
Postfixes == 11
Arguments == 12
Parameters == 13
Statements == 14
Goes(loop) == IF loop <= Len(Levels) THEN Levels[loop]
              ELSE IF loop = Postfixes THEN {"++", "--"}
              ELSE IF loop = Statements THEN STRING
              ELSE {","}

MorePostfix(l) == Under("Postfix", l)

\* The right operand is read with the level's own function (a defect for
\* MoreBinary).
MoreBinaryToTheRight(call, k, l) ==
    With(Under("Binary", l), Need(call.operand[k][l.next + 1]))

\* All that has been read is the left operand.
MoreBinary(call, k, l) ==
    With(Under("Binary", l), Need(call.operand[k - 1][l.next + 1]))

\* A comma after the last argument is let through (a defect for MoreArguments).
MoreArgumentsOrComma(call, l) ==
    LET argument == call.expression[l.next + 1]
    IN  IF Missing(argument) THEN Got(l.node, l.next + 1) ELSE With(l, argument)

MoreArguments(call, l) == With(l, Need(call.expression[l.next + 1]))

\* type identifier, and the node that is made of them.
Declarator(kind, p) ==
    IF Token(p + 1) # "id" THEN Error(p + 1)
    ELSE Got(Add(Add(Leaf(kind, p + 1), Leaf("VType", p)), Leaf("Name", p + 1)),
             p + 2)

FormalParameter(p) ==
    IF Token(p) \in Types THEN Declarator("ParamDecl", p) ELSE Nothing(p)

\* The parameter after a comma is not put into the list (a defect for
\* MoreParameters).
MoreParametersDropped(l) ==
    LET r == Need(FormalParameter(l.next + 1))
    IN  IF IsError(r) THEN r ELSE Got(l.node, r.next)

MoreParameters(l) == With(l, Need(FormalParameter(l.next + 1)))

MoreStatements(call, b) ==
    LET s == call.statement[b.next] IN IF Missing(s) THEN b ELSE With(b, s)

Over(loop, l) ==
    AtEnd(l) \/ IsError(l) \/ Token(l.next) \notin Goes(loop)

Turn(call, loop, l) ==
    IF Over(loop, l) THEN l
    ELSE IF loop = Postfixes THEN MorePostfix(l)
    ELSE IF loop = Arguments THEN MoreArguments(call, l)
    ELSE IF loop = Parameters THEN MoreParameters(l)
    ELSE IF loop = Statements THEN MoreStatements(call, l)
    ELSE MoreBinary(call, loop, l)

Repeat(call, loop, l) ==
    LET after[n \in Nat] == IF n = 0 THEN l ELSE Turn(call, loop, after[n - 1])
    IN  IF Over(loop, l) THEN l ELSE after[Len(Whole) + 1 - l.next]

-----------------------------------------------------------------------------
(* Expressions.                                                            *)

Identifier(p) == IF Token(p) = "id" THEN Take("IdExpr", p) ELSE Nothing(p)

\* stoul() throws on a number that is too large, which nobody catches.
Literal(p) == IF Token(p) \in Literals THEN Take("LitExpr", p)
              ELSE IF Token(p) = "huge" THEN Error(p)
              ELSE Nothing(p)

Primary(call, p) ==
    Or(Literal(p), IF Token(p) = "("
                   THEN Expect(")", Need(call.expression[p + 1]))
                   ELSE Nothing(p))

ArgumentList(call, f) ==
    LET first == call.expression[f.next]
    IN  IF Missing(first) THEN f ELSE Repeat(call, Arguments, With(f, first))

\* identifier [ functioninvocation ]
Named(call, p) ==
    IF Token(p) = "id" /\ Token(p + 1) = "("
    THEN Expect(")", ArgumentList(call, Got(Leaf("FuncCallExpr", p), p + 2)))
    ELSE Identifier(p)

WithPostfixes(call, operand) ==
    IF Found(operand) THEN Repeat(call, Postfixes, operand) ELSE operand

Postfix(call, p) == WithPostfixes(call, Or(Primary(call, p), Named(call, p)))

Unary(call, p) ==
    IF Token(p) \in {"-", "!", "++", "--"}
    THEN With(Take("Prefix", p), Need(call.operand[0][p + 1]))
    ELSE Postfix(call, p)

\* The first k of the ten functions: each begins with what the one before has
\* read and adds the operators of its level.
WithOperators(call, k, operand) ==
    LET upTo[j \in Nat] == IF j = 0 THEN operand ELSE Repeat(call, j, upTo[j - 1])
    IN  IF Found(operand) THEN upTo[k] ELSE operand

Binary(call, k, p) == WithOperators(call, k, Unary(call, p))

\* assignmentexpression(): the right side may be nullptr.
WithAssignment(call, l) ==
    IF Found(l) /\ Token(l.next) = "="
    THEN With(Under("Assign", l), call.expression[l.next + 1])
    ELSE l

Expression(call, p) == WithAssignment(call, Binary(call, Len(Levels), p))

-----------------------------------------------------------------------------
(* Statements.                                                             *)

VariableDeclaration(p) ==
    IF Token(p) \in Types THEN Expect(";", Declarator("VarDecl", p))
    ELSE Nothing(p)

Terminated(p, e) ==
    IF Found(e) THEN Expect(";", With(Got(Leaf("ExprStmt", 0), p), e)) ELSE e

ExprStmt(call, p) == Terminated(p, Expression(call, p))

SimpleStmt(call, p) ==
    IF Token(p) = ";" THEN Take("NullStmt", p) ELSE ExprStmt(call, p)

\* A return without a value is not provided for (a defect for ReturnStmt).
ReturnStmtWithValue(call, p) ==
    IF Token(p) = "return"
    THEN Expect(";", With(Take("ReturnStmt", p), Need(call.expression[p + 1])))
    ELSE Nothing(p)

ReturnStmt(call, p) ==
    LET value == call.expression[p + 1]
        return == Take("ReturnStmt", p)
    IN  IF Token(p) = "return"
        THEN Expect(";", IF Missing(value) THEN return ELSE With(return, value))
        ELSE Nothing(p)

\* Its semicolon is left to whatever comes next.
BreakStmt(p) == IF Token(p) = "break" THEN Take("BreakStmt", p) ELSE Nothing(p)

Block(call, p) ==
    IF Token(p) = "{"
    THEN Expect("}", Repeat(call, Statements, Got(Leaf("BlockStmt", 0), p + 1)))
    ELSE Nothing(p)

\* if and while: the keyword, the condition in parentheses, the body.
Controlled(call, kind, p) ==
    LET open == Expect("(", Take(kind, p))
        condition == Expect(")", With(open, Need(call.expression[open.next])))
    IN  With(condition, Need(call.statement[condition.next]))

Else(call, i) ==
    IF Token(i.next) = "else"
    THEN With(As("IfElseStmt", Root(i.node).at, i),
              Need(call.statement[i.next + 1]))
    ELSE i

IfStmt(call, p) ==
    LET i == Controlled(call, "IfStmt", p)
    IN  IF Token(p) # "if" THEN Nothing(p)
        ELSE IF IsError(i) THEN i
        ELSE Else(call, i)

WhileStmt(call, p) ==
    IF Token(p) = "while" THEN Controlled(call, "WhileStmt", p) ELSE Nothing(p)

Statement(call, p) ==
    Or(VariableDeclaration(p),
       Or(SimpleStmt(call, p),
          Or(ReturnStmt(call, p),
             Or(BreakStmt(p),
                Or(Block(call, p),
                   Or(IfStmt(call, p), WhileStmt(call, p)))))))

\* The rules that are called in the midst of themselves.
Rules(call) ==
    [operand |-> [k \in 0..Len(Levels) |-> [p \in Nat |-> Binary(call, k, p)]],
     expression |-> [p \in Nat |-> Expression(call, p)],
     statement |-> [p \in Nat |-> Statement(call, p)]]

NoCalls == [operand |-> [k \in 0..Len(Levels) |-> [p \in Nat |-> TooDeep(p)]],
            expression |-> [p \in Nat |-> TooDeep(p)],
            statement |-> [p \in Nat |-> TooDeep(p)]]

\* Calls in one another, no more than so many deep.
Nested[depth \in Nat] ==
    IF depth = 0 THEN NoCalls ELSE Rules(Nested[depth - 1])

\* Each is further on in the file than the one in which it is made.
Calls == Nested[Len(Whole) + 1]

-----------------------------------------------------------------------------
(* Declarations.                                                           *)

FormalParameterList(l) ==
    LET first == FormalParameter(l.next)
    IN  IF Missing(first) THEN l ELSE Repeat(Calls, Parameters, With(l, first))

FunctionDeclarator(p) ==
    IF Token(p) = "("
    THEN Expect(")", FormalParameterList(Got(Leaf("Params", 0), p + 1)))
    ELSE Nothing(p)

\* A function gets its body, its parameters and its body.
WithBody(f) == With(f, Need(Block(Calls, f.next)))
WithParameters(f, params) ==
    IF Missing(params) THEN params ELSE WithBody(With(f, params))
Function(f) == WithParameters(f, FunctionDeclarator(f.next))

MainFunctionDeclaration(p) ==
    WithBody(Expect(")", Expect("(",
        Got(Add(Leaf("MFuncDecl", p), Leaf("Name", p)), p + 1))))

\* What comes after its type and name says which it is; the line is that of the
\* type.
TypedDeclaration(p) ==
    LET d == Declarator("FuncDecl", p)
    IN  IF IsError(d) THEN d
        ELSE Or(Function(As("FuncDecl", p, d)), Expect(";", As("GVarDecl", p, d)))

VoidFunction(p) ==
    LET d == Declarator("FuncDecl", p)
    IN  IF IsError(d) THEN d ELSE Need(Function(As("FuncDecl", p, d)))

GlobalDeclaration(p) == IF Token(p) \in Types THEN TypedDeclaration(p)
                        ELSE IF Token(p) = "void" THEN VoidFunction(p)
                        ELSE IF Token(p) = "id" THEN MainFunctionDeclaration(p)
                        ELSE Error(p)

\* The file ends at whatever begins no declaration (a defect for Globals).
GlobalsOrAnything(l) ==
    IF IsError(l) \/ Token(l.next) \notin Types \cup {"void", "id"} THEN l
    ELSE With(l, GlobalDeclaration(l.next))

Globals(l) ==
    IF AtEnd(l) \/ IsError(l) THEN l ELSE With(l, GlobalDeclaration(l.next))

\* start()
Start ==
    LET after[n \in Nat] == IF n = 0 THEN Got(Leaf("ASTNode", 0), 1)
                            ELSE Globals(after[n - 1])
    IN  after[Len(Whole)]

-----------------------------------------------------------------------------
(* Files.                                                                  *)

NotParsed == Nothing(0)
Accepted == Found(result)

\* The parser objects to a token of the part, which nothing later can mend.
Rejected == IsError(result) /\ result.next <= Len(file)

Part == SubSeq(file, Len(context.before) + 1, Len(file))

\* How many brackets are open.
Opened(tokens) == {i \in DOMAIN tokens : tokens[i] \in {"(", "{"}}
Closed(tokens) == {i \in DOMAIN tokens : tokens[i] \in {")", "}"}}
Nesting(tokens) == Cardinality(Opened(tokens)) - Cardinality(Closed(tokens))

Init == /\ context \in Contexts
        /\ file = context.before
        /\ result = NotParsed

Parse == /\ result = NotParsed
         /\ result' = Start
         /\ UNCHANGED <<context, file>>

Extend == /\ result # NotParsed /\ ~Rejected /\ Len(Part) < context.max
          /\ \E token \in context.tokens : file' = Append(file, token)
          /\ Nesting(file') <= context.nesting
          /\ result' = NotParsed
          /\ UNCHANGED context

Next == Parse \/ Extend

Spec == Init /\ [][Next]_vars
=============================================================================
