# TLA+ models of the J-- compiler

J-- LLVM compiles one file of J--, a subset of Java, to an object file. It is a
sequential program: four phases run once, in a fixed order, and every error
ends the process. What is hard in it is not concurrency but *protocol*: state
that recursive handlers push and pop by hand, insertion points that move while
a handler's callee runs, stream flags that outlive a call, one visitor or symbol
table that serves all functions. Each of these is right or wrong only after a
long, legal sequence of steps, which is what the models enumerate.

Paths below are relative to the repository's root, the implementation being in
`src/src/` seen from here.

## The system

| component | state | operations | interacts with |
|---|---|---|---|
| **Lexer** (`lexer/`) | the stream with its flags, `m_curr_token`, `m_curr_lexeme`, `m_consumed`, `m_lineno` | `peek`, `consume`, `lex` and the functions it calls | called by the parser; warns through the logger |
| **Parser** (`parser/`) | the lexer it draws from, the tree | one function per rule of the grammar, `match`, `error` | calls the lexer, builds the AST |
| **Symbol table** (`common/symtab.h`) | four scopes, one of them a stack | `insert`, `query`, `enter_block`, `exit_block`, `exit_func` | shared by the semantic passes |
| **GlobalsVisitor, FunctionVisitor** (`semanal/`) | `m_inside_while`, `m_visited_main`, `m_current_function` | one `visit` per kind of node | fill and query the symbol table, store a `Symbol` in each node |
| **TypeVisitor** (`semanal/`) | `m_current_function`, `m_return_visited` | one `visit` per kind of node | reads the symbols, stores a type in each node |
| **CodegenGlobals, runtime functions** (`codegen/`) | the module's functions and variables | a prototype for each global declaration, the wrapper `main` | LLVM's module renames duplicates |
| **IRCodegenVisitor** (`codegen/codegen_ir.cpp`) | the insertion point, `m_while_context`, the blocks | one `codegen` per kind of node | reads symbols and types, calls `llvm::IRBuilder` |
| **Logger** (`common/errwarn.h`) | `warnings` | `warning`, `error` | shared by all; ends the process |
| **Driver, optimizer, object file, AST, printer** | none of their own worth the name | the order of the phases; LLVM passes; output | |

Which behaviours are hard, component by component, is listed line by line as
`hazards` in `PROJECT.json`. In short:

* *IRCodegenVisitor.* A handler creates blocks, calls `codegen` on a child, and
  goes on at an insertion point that the child has moved. Right means: every
  block is linked once and closed, branches go where the source says, a break
  leaves the innermost loop, a missing return is reported, cleaning up never
  touches live code, a phi names the blocks its values come from.
* *Name resolution.* Right means: each use gets the symbol that lexical scoping
  gives it, and exactly the illegal programs are rejected.
* *Lexer.* Right means: tokens tile the file by longest match, lexemes and
  lines are theirs, the end of the file is final, every call returns.
* *Parser.* Right means: what is accepted is what the grammar derives, no token
  is rejected that a program could go on with, the tree has every token in order,
  operators and `else` belong where precedence and nesting put them.
* *Type analysis.* Right means: exactly what breaks the rules of types is
  rejected, although a condition is looked at after the statement's bodies.
* *Values.* Right means: the value of an expression has the LLVM type of its
  type, instructions get operands of the types they need, and loads and stores reach the
  storage of the variable that is meant, arguments that of their parameter.
* *Module-level names.* Functions are declared in one pass and found again by
  name in another, in a module that has the runtime's names as well and where LLVM
  renames what clashes. Right means: definitions, calls and the wrapper reach the
  function that is meant.

## Modules

| module | what it is |
|---|---|
| `CodegenIR` | the handlers of `codegen_ir.cpp` that lay out basic blocks, for one function after another |
| `CodegenFlow` | what the blocks must mean: the program's control flow, read off its statements, against that of the graph |
| `CodegenIRProofs`, `CodegenFlowProofs` | theorems about `CodegenIR`, proved by TLAPS: its own invariants, and against `CodegenFlow` |
| `Semanal` | `SymbolTable` under `GlobalsVisitor` and `FunctionVisitor` |
| `SemanalScopes` | lexical scoping and the rules for names, stated on the program text without a symbol table |
| `SemanalProofs`, `SemanalScopesProofs` | theorems about `Semanal`, proved by TLAPS: the table by itself, and against `SemanalScopes` |
| `Lexer` | `lex()` and its callees on a `std::ifstream`, under a parser that peeks and consumes |
| `LexerLanguage` | the lexical rules without a lexer |
| `LexerProofs` | theorems about `Lexer`, proved by TLAPS: the stream and its lines, and the tokens against `LexerLanguage` |
| `Parser` | recursive descent: an operator for each rule, on files that grow token by token |
| `ParserTrees` | what the trees must be: every token in its place, precedence, nesting |
| `ParserGrammar` | the grammar of README.md and its sentences |
| `ParserProofs` | theorems about `Parser` and its trees, proved by TLAPS |
| `Types` | `TypeVisitor`, on trees that grow node by node, and the rules of types as a table |
| `Values` | the values and instructions that `codegen()` makes of such a tree, a second walk after the first |
| `ValuesProofs` | theorems about `Types` and `Values` |
| `ModuleNames` | `buildRTS`, the two passes over the global declarations, calls, and the wrapper `main`, on LLVM's module |
| `Linkage` | what names come to, without a module: one target for each function, for good |
| `ModuleNamesProofs` | theorems about `ModuleNames`, and that it implements `Linkage` |
| `MCCodegenIR`, `MCSemanal`, `MCLexer`, `MCParser`, `MCValues`, `MCModuleNames` | the sets that the configurations give to the constants |

Most components have two modules: one that follows the code step by step, and
one that says what it promises in other terms: reachability in the source
(`CodegenFlow`), positions and depths (`SemanalScopes`), texts and longest
matches (`LexerLanguage`), paths in a tree (`ParserTrees`) and derivations
(`ParserGrammar`). These keep no state, so
that they enter as invariants and action properties. `Linkage` is a specification
with steps of its own, and `ModuleNames` is shown to implement it.

`Values` composes two components: it runs `codegen()` on the tree that `Types`
has annotated, once the analysis has accepted it, as the driver does.

### How the models correspond to the code

**Recursion.** `codegen()` and `visit()` are recursive and act on shared state. The variable `frames` is
the stack of their active calls. A handler with recursive calls is cut there:
`IfStmt` is the part before the condition, `IfCond` that between condition and
body, `IfThen` that after the body. A frame keeps the local variables that the
later parts use (`blk`, `end`, `from`).

**The tree is the input.** Whoever enters a node chooses its kind, so that the
reachable states cover all trees within the bound on `trail`, the nodes entered
so far. Bodies need not be blocks, as in `Parser::statement()`.

**CodegenIR.** `code` is the sequence of blocks, each a sequence of instructions;
an instruction is its kind (a terminator, `alloca`, `phi`, any other) and the
blocks it names. `inserted` are the blocks linked into the function,
`insertBlock` is `m_builder->GetInsertBlock()`, `whileContext` is
`m_while_context`. Symbols, types and operands are abstracted: nothing in the
layout depends on them, but a function's result (`kind`) does matter when it is
finished. `FinishFunc` is the clean-up loop together with everything after it in
`codegen(FuncDecl)`; its warning may end the process.

**Semanal.** A symbol is the line that declares it, with its kind; `m_global`,
`m_func` and `m_blocks` are the scopes, `m_rts` that of the runtime functions.
`insideWhile` is the size of `m_inside_while`, all of whose entries are alike.
`trail` also keeps the symbol that each name was given.

**Lexer.** A turn of a loop is an action, because two of the loops need not end.
`m_input` is the position with `eofbit` and `failbit`; `At`, `Peeked`, `Gotten`
and `Ungotten` are what `std::istream` does to them (external: the standard
library). Characters are representatives of the classes the code tells apart; as
in the code, EOF held in a `char` is the byte 0xFF. `tokens` is the history of
the answers of `peek()`, with the part of the file each was made from. One
reserved word stands for the eleven.

**Parser.** The rules have no state but the lexer's position, so each is an
operator from a position to a tree, or `nullptr`, and the position after it;
`Token(p)` is what `peek()` answers there. `Or` is `if (!node) node = ...`, `Need`
is `if (!node) error(...)`, `Expect` is `if (!match(...)) error(...)`. A loop is
`Repeat`, whose turns (`Turn`) the tokens that are left bound; the ten functions for
binary operators differ in their operators only (`Levels`), and the first k of them
are `Binary`. A rule that the grammar calls in the midst of itself looks the inner call
up in `call`, a record of functions from positions; `Nested` puts calls into calls
as deep as the file is long, and one that were deeper would be `TooDeep`, an error that
`TypeOK` excludes: recursive descent ends because each call inside is further on. A tree is
a function from paths to nodes, so that `Add` (a child more), `Under` (what has been read
becomes the left operand) and `As` (an if turns out to have an else) are what the code does with
`std::move`. `Parse` is
one call of `parse()`; `Extend` gives the file one token more unless the parser
has objected to a token already, so that only the beginnings of programs grow.
`Contexts` says which part of which program grows: a `context` has what stands
before and after the part, the rule it follows, its tokens, and how many of them
there may be and how many open brackets.

`ParserGrammar` builds the sentences of the grammar bottom up, by length, and
asks whether the file is among them (`LanguageIsRight`), and whether any begins
with what was rejected (`ErrorsAreFinal`). The grammar it takes is that of
README.md with five differences, which `AsParsed` names; one of them is that a number too
long for `std::stoul` (`"huge"`) is a literal of the grammar and ends the parser.

**Types.** A node is visited after its operands, which are the numbers of earlier
nodes, so that `tree` is the program in the visitor's order; `operands` are
the expressions that wait for their parent. IfStmt, IfElseStmt and WhileStmt
stand between their condition and their body, `open` are those whose body is
being visited: `EndOfBody` looks at the type of the condition only then, as the
code does. `symbol` is what name resolution stores in the node: the `Symbol` of a function
or of a variable, which carries the declaration that made it (`decl`, 0 for a global) and which
of that declaration's variables it is (`pos`, the number of a parameter). A name may
mean any global or any variable that its function has declared before (`Visible`); which, is for
`Semanal`. `m_return_visited` is written and never read. Of the
operators that the code treats alike, one stands for all (`INC`, `ADD`, `EQ`, `LT`,
`LAND`, `BAND`).

**Values.** `value` is what `codegen()` returns for each node, `code` the
instructions; their blocks and order are those of `CodegenIR`. A value is its LLVM
type and, where something is known of it, its origin: the argument that it is, or the
`Storage` that it addresses, with the declaration that has made it, its number there, the type it
holds and whether it is a constant. `llvm_Value` is the field of that name in the shared
symbols: `EndOfAnalysis` sets it for the globals (`CodegenGlobals`), `MakeVarDecl` for a local
variable, and `MakeFuncDecl` for the parameters, whose arguments it stores. Names and assignments read
it. A function is taken to be the one that its declaration has made; where its name is one
of the runtime's is for `ModuleNames`. `Verified` says what `llvm::verifyFunction` asks of one
instruction (external).

**ModuleNames.** A *symbol* is a name with the declaration it belongs to, 0 for
the runtime; `module` maps each symbol to the LLVM value made for it, whose `name` LLVM may
have changed. `getFunction` and `setName` are external, as is the number LLVM
appends to a name that is taken. `bodies` are the entry blocks
that a function was given, in order: LLVM enters the first. `stored` are the
parameters that `codegen(FuncDecl)` has set an `llvm_Value` for. Undefined behaviour (a call
through null, parameters read past their end, an `llvm_Value` never set) ends in the phase
`"undefined"`.

`Linkage` has the same programs, but a function has one `Target`, and code and calls go
there at any time and in any order. The refinement maps `code` to the bodies in the module and
`reached` to the callees of call instructions; the phases, the renaming and
`mainFuncID` are gone.

**Defects.** Each module has a section of variants that no specification uses: a
forgotten pop, a character not put back. They are what the properties have been
tried against: every property of a passing run is violated when one of them
replaces the definition it varies (`mutants` in `PROJECT.json`).

## Runs

Deadlock is checked in the runs of `CodegenIR`, `Semanal` and `ModuleNames`, whose
final states stutter explicitly; the runs of the lexer, the parser and the types do
not check it, as the process ends, the lexer is asked no more, or the input stops
growing.

| run | bounds | what it shows |
|---|---|---|
| `control` | return, break, if, if-else, while; 5 nodes and bodies per function; all kinds of function; 1 warning | blocks mean what the program means (`LiveAgrees`), are linked and closed, breaks leave the innermost loop, a missing return is reported once, live code survives the clean-up |
| `operators` | all constructs but break and if-else; main and functions with a result; 4 nodes | operators nested in operators, conditions, loops and statements: a skipped right operand reaches the phi, and the blocks an operator makes belong to the same graph |
| `names` | 2 names, one of the runtime's; 2 globals; 7 nodes of declarations and uses in nested blocks, or 6 of statements | names are resolved lexically; verdicts on scopes, break, return, main and redeclaration; stacks follow the calls; nothing leaks from function to function |
| `lexer_files` | all files up to 4 characters of 12 kinds, strings of up to 6 characters of 6 kinds; 2 questions after the end; 2 warnings | longest match, nothing lost, lexemes and lines, final end; every call returns, except where the file ends in a comment or string |
| `parser` | expressions of 6 tokens with calls and unary operators, of 5 with all binary ones; statements of 7, with if and else of 11; programs of 11; up to 3 open brackets in an expression or in nested blocks, 4 in a program, 2 in an if | the language, the trees, and where errors are reported |
| `types` | 6 nodes; a global `str` and a global `int`, local variables of each type; a function with a parameter, one with two of the same type, and main | exactly the ill-typed programs are rejected; the code of the others is well typed, and what it loads and stores is in the storage of the variable meant, save for exactly the listed constructs |
| `module_names` | 3 globals of 6 names: the program's own, `main`, and one of each kind the runtime has; 1 parameter | which function a call and the wrapper run; when code generation gives up; `Linkage` is implemented |

*Why the bounds are enough.* Five entries of the trail hold a statement after an
if-else in a loop whose branches jump, or a loop in a loop with a break, the
deepest patterns the handlers tell apart; a handler sees its context only through
the insertion block, the top of `m_while_context` and its own locals. Seven
entries hold a parameter, two blocks with declarations of the same name, and uses
inside and after them, in the second of two functions. Two globals of two names
make two functions, a main and a function, two mains, and a clash. Six
characters hold a string with an escape and a character on both sides, or a
comment, its newline and a token after it. Eleven tokens hold an if in an if
with an else after it, and a function with two parameters; five hold any two
binary operators, so that each level meets each. Three open brackets hold one kind
of bracket inside another and inside itself; each depth parses with the same rules. Six nodes hold a function with a
call of two arguments, an operator on an operator, an assignment of one, and a
condition with a body that ends. Three globals hold the main function with another called
main and a third that clashes with the runtime. Every state machine has the real
control; bounds are only on the size of the input (`MaxTrail`, `MaxGlobals`,
`MaxParams`, `MaxNodes`, `MaxOperands`, `MaxInput`, a context's `max` and `nesting`), on how often the parser asks again at the end of the file
(`MaxEofs`), and on the lexeme that an unterminated string makes grow (one more
than `MaxInput`, so that no other lexeme meets it). `MaxWarnings` is the constant
of the code, smaller so that it is reached.

### Fairness

Only `lexer_files` and `lexer_comment` check liveness. `FairSpec` adds weak
fairness of `Lex`, the steps inside a call of `lex()`: the process is sequential
and nothing in a call waits for anything, so it goes on while it can. There is
no fairness for the parser's steps, which may stop asking. A loop that turns
without changing anything, the comment at the end of the file, is a stuttering
step here: the fair behaviour stays in it, which is the endless loop.

### Disagreements between the code and what it says

Five runs each check one property that the repository states and the code breaks.

| run | what TLC finds |
|---|---|
| `break_then_jump` | `if (c) break;` makes a block with two branches: `verifyFunction` would say so, but its result is ignored. LLVM takes the first terminator as long as nobody looks, and `LiveAgrees` holds under this reading |
| `phi` | in `a \|\| b && c` the phi names the block in which the right operand began |
| `lexer_comment` | a comment that ends with the file keeps the lexer in its loop for ever |
| `parser_break` | `break` leaves its semicolon to the next statement, so that `if (c) break; else ...` is rejected |
| `parser_null` | `x = ;` is accepted and leaves a null pointer that the visitors follow |

Other differences do not make a run of their own: the properties name them, and
hold *exactly* up to them.

* `semanal/todo` asks that operands match their operator; `TypeVisitor` compares
  nothing for `&`, `|`, `^`, `<<` and `>>` (type_visitor.cpp:189). `todo` asks for a value where a function
  has one; `return;` passes everywhere (type_visitor.cpp:58). `VerdictIsRight` and
  `CodeFitsTypes` of the types.
* "String variables are constant and cannot be changed" (src/README.md:16): an assignment to
  a `str` passes like any other (type_visitor.cpp:196), and a comment in `codegen(VarDecl)` says
  "these pointers can change!" (codegen_ir.cpp:715). `VerdictIsRight` names it.
* `++` and `--` load and store through the value of the variable instead of its
  address (codegen_ir.cpp:409). `AccessesReachVariables`, `CodeFitsTypes`.
* A global `str` is a constant that assignments store into (codegen_globals.cpp:69).
  `AccessesReachVariables` names it.
* A function with the name of a runtime's function shares that one's body or
  prototype, and a function named like a format string stops code generation
  (codegen_ir.cpp:572, 619). `CallsRunTheirFunction`, `OnlyClashesFail`.
* The comments at codegen_ir.cpp:213-222 take it that no function of the program is
  called main. One that is, is wrapped in place of the main function
  (`WrapperRunsMain`), and called without arguments whatever its parameters.

Three hazards are listed in `PROJECT.json` without a property. The clean-up may erase an
instruction that another uses (codegen_ir.cpp:647), which takes blocks and operands in one model. A string with a bad escape loses
a character, or `pop_back()` is undefined (lexer.cpp:171): `PopBack` models both, but no
rule says what such a string should be. And the warnings of lexer and code generator add up in
one counter (errwarn.h:31): each module ends at the limit, and no module has the sum.

Two more were seen and are not modelled: `halt` calls `exit` with an argument it is
declared without (codegen_ir.cpp:62-80), and no answer of `verifyFunction` is used.

## Proofs

### Blocks

`CodegenIRProofs` proves for every set of constructs, every bound on the trail
and every limit of warnings:

| theorem | statement |
|---|---|
| `InvariantHolds` | `Spec => []IInv` |
| `TypesHold` | `Spec => []TypeOK` |
| `BreakTargetHolds` | `Spec => []BreakLeavesInnermostLoop` |
| `TerminatorsHold` | `Spec => []FinishedBlocksTerminated` |
| `TargetsHold` | `Spec => []FinishedTargetsInserted` |
| `OneWarning` | `Spec => OneWarningPerFunction` |

The only assumption is `CodegenAssumption` in `CodegenIR`: the constructs and
function kinds are among the known ones, the bounds are natural numbers. TLC
evaluates it in every run of the module.

None of the properties is inductive. That the function is closed at its end
follows from what is true in its middle, and that from what the handlers on the
stack hold in their locals. `IInv` says it:

* `Shape`: calls nest as the grammar does, all inside one function;
* `LocalsHold`: what the locals of each active handler refer to, linked or not;
* `NoBlockLost`: a block not yet linked is in the locals of an active handler;
* `BlocksExist`: instructions name existing blocks;
* `Tracks`: `m_while_context` holds the ends of the open loops in order, by an
  increasing map from its entries to the frames of loop bodies;
* `OthersTerminated`: all linked blocks but the current one have a terminator.

When the stack is empty, `NoBlockLost` gives that all blocks are linked, and
`OthersTerminated` that all but the last are closed, which the end of `FuncDecl`
or `MFuncDecl` closes. `OneWarning` uses it as well: the clean-up meets at most one
open block. Lemmas about `Emit`, `Pop`, `Tracks` and about calling, resuming and
returning are stated once; then there is one step lemma per action.

`CodegenFlowProofs` proves from the same assumption that the blocks mean what the
statements mean:

| theorem | statement |
|---|---|
| `FlowHolds` | `Spec => [](IInv /\ FlowInv)` |
| `LivenessAgrees` | `Spec => []LiveAgrees` |
| `SkippedOperandHolds` | `Spec => []SkippedOperandReachesPhi` |
| `MissingReturn` | `Spec => MissingReturnIsReported` |
| `CleanupKeeps` | `Spec => CleanupKeepsLiveCode` |

Whether control comes to a point is computed twice: over the trail by `FlowOf`, and
over the graph by `ReachableIn`. Both are recursive functions, and what is needed of
them is proved first: the fold of a longer trail is one step further (`FlowGoesOn`), and
the reachable blocks are the least set that has the entry and is closed under
`Targets` (`ReachIs`), so that a branch out of an open block adds just its targets
(`ReachMore`). The rest is the inductive invariant `FlowInv`, relative to `IInv`, which
says where the two computations stand while statements are open:

* control comes to the insertion point exactly if the point of the program is live,
  but for a `return` that is on the trail and has no value yet;
* `Aligned`: the open if, while and if-else have the entries of `saved`, in order;
* `FramesFlow`: for each of them the entry says whether the block that the handler
  holds for later (`end`, or `blk`) is reachable already, and the `end` of && and ||
  is reachable from `from`, the block that its phi names;
* `Detached`: blocks held for later are not linked, and no two handlers hold the
  same one, so that a branch by one makes nothing reachable for another;
* `Nested`: control comes to an inner statement only if it came to the outer one.
  This is why a `break`, which branches out of any number of open statements, makes
  nothing reachable: if control comes to it, the entry of its loop is true, so that
  the loop's end is reachable already, from the condition;
* `Linked`, `PhisOK`: blocks not linked are empty; the phis met so far are right.

Each handler then moves both computations alike. What its steps share has a lemma
each: code that adds no edge (`QuietStep`), a terminator at which the point goes dead
(`StopStep`), a branch with a move of the insertion point (`MoveStep`, `CondStep`,
`EndStep`). `CleanUp` shows that the clean-up keeps the targets of a block
and all it executes (`Runs`).

### Name resolution

`SemanalProofs` is about programs of any size and nesting, over any names; the only
assumption is `SemanalAssumption`: runtime functions have names, families are sets of the
known constructs, bounds are natural numbers.

| theorem | statement |
|---|---|
| `NamesTypes` | `Spec => []TypeOK` |
| `StacksAreRight` | `Spec => []StacksFollowVisits` |
| `FunctionsAreSeparate` | `Spec => []NothingLeaksBetweenFunctions` |
| `OneMain` | `Spec => []AcceptedHasOneMain` |

`Inv` adds to them what the calls of `visit()` look like. `Shape`: a function is at the
bottom and nowhere else, its block right above it, expressions at the top only. So
when a function ends, no block and no loop is among the active calls, and
`StacksFollowVisits` gives that both stacks are empty, although `MFuncDecl` never clears
the table. `DeclarationsOK` relates `m_visited_main`, which is set late, to the
declarations already passed, and `ParametersOK` says who can have filled `m_func`.
`VarDecl`, `EndOfBlock` and `EndOfWhile` pop stacks that the counts of calls show not
to be empty. Queries have an answer of the right type because a set of numbers that is
not empty has a least element (`Least`, by well-founded induction on one fixed set).

`SemanalScopesProofs` proves, from the same assumption, that the symbol table is
lexical scoping:

| theorem | statement |
|---|---|
| `ScopingIsLexical` | `Spec => []AnnotationsAreLexical` |
| `VerdictsAreRight` | `Spec => []VerdictIsRight` |

The table has forgotten what its scopes were when a name was looked up; `SemanalScopes`
looks at the trail only, where every declaration still stands. The invariant `Lex`
says at each moment how one follows from the other. `TrailOK` is about the trail:
the depths of its entries are those of the calls, and a declaration reaches the end of the
trail if no shallower entry stands between. `ScopesOK`: block i of `m_blocks`
has exactly the variables declared at its depth that reach the end of the trail, and
`m_func` the parameters; `GlobalsOK` and `MainsOK` are the same for the globals and for
`m_visited_main`. A push, a pop and an insertion are then each a lemma on which
declarations reach one entry further. `Annotated` keeps what was true of a use when
it was visited, as a later entry changes nothing of what an earlier one sees;
`VerdictOK` says that the program was legal up to its last entry, and
illegal with it if it was rejected.

### Lexer

`LexerProofs` is about any file of any length, any reserved words and any limit of
warnings; the only assumption is `LexerAssumption`: files are made of characters and no
longer than their bound, reserved words are made of letters and not empty.

| theorem | statement |
|---|---|
| `LexerTypes` | `Spec => []TypeOK` |
| `TextIsKept` | `Spec => []NothingIsLost` |
| `EofIsLast` | `Spec => []EofIsSticky` |
| `LinesHold` | `Spec => []LinesAreRight` |

What can go wrong is the stream: `unget()` without a character to put back, and its
flags, which it clears. `StreamOK` is why it does not: `eofbit` and `failbit` are only
ever set at the end of the file, and `PutBackIs` shows that a character which is got and
put back leaves the stream as it was, or at the end of the file with `failbit`.
`EofOK` says that after `T_EOF` there is nothing to read but that, under either flag.
`SkippedOK` says, between two answers, what lies between the end of the last token
(`From`) and the stream, or the beginning of the token or comment that is being read;
`TokensOK` orders the tokens. For the line numbers `Lines` counts the newlines up to the
stream that are in no token (`Counted`): a loop of a function that `lex()` calls leaves
`m_lineno` as it was where the token began, and a comment holds no newline. It is
inductive relative to `Inv`.

From the same assumption it proves what the tokens are:

| theorem | statement |
|---|---|
| `TokensAreLongest` | `Spec => []LongestMatch` |
| `LexemesHold` | `Spec => []LexemesAreRight` |

The invariant is `Texts`: every answer is right already (`AnswersRight`), and what has been
read of the token under way is the beginning of one (`ReadingOK`): a name so far, digits
so far, an operator that may become a longer one, each with its lexeme. A string is the hard case
(`OpenString`): the loop takes characters two at a time after a backslash and
translates them into the lexeme, while `LexerLanguage` calls a character
escaped if the run of backslashes before it is odd. The invariant holds the loop to
this at its position, and the lexeme to the translations of the characters that are not
themselves such a backslash, one for each; that a string ends where it does, and at no
other quote, follows, and so does that one text has one value (`StringsDiffer`). That a
token cannot be longer is a fact about the character after it, one lemma per kind of token.

### Parser

`ParserProofs` is about every file that grows out of any context, of any length and by any
tokens; the only assumption is `ParserAssumption`: contexts are made of tokens, and
none of them is the end of the file.

| theorem | statement |
|---|---|
| `TypeCorrect` | `Spec => []TypeOK` |
| `NothingLost` | `Spec => []NothingIsLost` |
| `StructureRight` | `Spec => []StructureIsRight` |

The invariant `Inv` says of a parsed file what `StartParses` proves of `Start`, so the
proof is about the rules. What a rule that is called at p returns is `Fine`: it has read up to some later
position, and its tree is `Sound` about just those tokens. `Sound` is put together
where trees are: `AddKept`, `AddInOrder` and `AddStructured` say when a child may
be added (`MayJoin`), `AsSound` when a root may be replaced. To this come two facts that
only hold at the rule's own place, and that precedence and nesting hang on:

* `ReadsExpr`: an expression that the first k of the ten functions have read closes every
  parenthesis it has opened, and its root is an operand for any later level (`Tight`), either by its
  own looseness or because it is deeper in parentheses. `Binds` compares depths
  counted over the whole file, so that this has to be followed token by token;
* `ReadsStmt`: after a statement to which an else could belong there is no else.
  An if without else has looked, a while or the else of an if ends like its last body,
  and nothing else ends open (`RootEndsOpen`, `LastEndsOpen`). It is what makes the first body of an
  if-else closed.

A loop keeps `Going` at every turn. Inner calls are assumed good from the next position
on (`CallsGood`); the induction is on the depth of the calls (`CallsAreGood`), with the
file's length as its bound. The library's induction theorems cannot be used, and what is
needed of a recursive function is an equation: `RecursionExists` builds, for the four
recursive definitions of `Parser` at once, the function from its finite beginnings, and every
induction is on the least counterexample (`LeastOf`).

### Types and values

`ValuesProofs` is about programs of any size, with any variables and functions; the
only assumption is `SymbolsAssumption`: symbols have the form they have in the symbol
table.

| theorem | statement |
|---|---|
| `ValuesTypes` | `ValuesSpec => []ValuesTypeOK` |
| `Verdicts` | `ValuesSpec => []VerdictIsRight` |
| `CodeFits` | `ValuesSpec => []CodeFitsTypes` |
| `AccessesReach` | `ValuesSpec => []AccessesReachVariables` |

The invariant has two levels. `AnalysisOK` is about the tree: parts come before the
whole, no two nodes share one, what waits in `operands` has no parent yet and is in order,
`open` statements are conditions, the current function is that of the last `FuncDecl`, and
every node but the failed one and the open ones is `Legal`. `ValuesInv` then says of a
finished, accepted tree what `value` and `code` hold for each node before `next`. For the
storage there are three more parts. `DeclarationsOK` is about the tree: a variable that a
node names is a global or declared by an earlier node (`DeclaredBefore`), so that its
`llvm_Value` has been set when the name is met. `StorageOK` says that `llvm_Value` is defined for
the globals and for all that the nodes before `next` declare, and wherever it is defined
holds the address that the symbol's own declaration has made; a declaration sets none but its own, since symbols of two
declarations differ. `ArgumentsOK` says that every parameter has had its argument stored.
`AccessesReach` follows instruction by instruction (`Reaches`). That
no two nodes share a part is what makes `IsTarget` of one node a fact about its one
parent. Each action of the analysis appends one node, so that lemmas on `Append` to
the tree carry nearly all of it.

### Module-level names

`ModuleNamesProofs` is about programs of any number of globals with any identifiers;
the only assumption is `NamesAssumption`.

| theorem | statement |
|---|---|
| `ModuleTypes` | `Spec => []TypeOK` |
| `FailuresAreClashes` | `Spec => []OnlyClashesFail` |
| `CallsAreRight` | `Spec => []CallsRunTheirFunction` |
| `WrapperIsRight` | `Spec => []WrapperRunsMain` |
| `Linked` | `Spec => LinkSpec`, the refinement |

The invariant `Inv` knows the module at every moment: which values are in it and what
they are called (`ValuesOK`), the bodies of each (`BodiesOK`), where each call goes
(`CallsOK`). With it `getFunction` has a known answer (`FunctionOf`): the
runtime's function if the name is one of its functions', nothing if it is a constant's,
the program's own otherwise. That answer is `Target` of `Linkage`, which is
why the phases can be forgotten.

### What is only model-checked

`LanguageIsRight` and `ErrorsAreFinal` of `ParserGrammar`: the sentences of a grammar are
recursive operators over its rules, which the provers cannot expand, and that a
tree is a derivation is induction over data. What is proved of accepted files
holds for the parser's own language, whatever it is. Liveness (`EveryCallReturns`) is out of
the provers' reach; that the parser's recursion ends, and the loop of `start()`, is no
liveness here, but part of `TypeOK`.

## Not modelled, and the plan

The order is by what a reader would most want to be sure of.

1. **Blocks with operands**: `CodegenIR` and `Values` in one module, for the
   instruction that the clean-up erases although another uses it (codegen_ir.cpp:647).
2. **Numbers**: what `++`, `--` and the operators compute on 32 bits, literals
   (`stoul` and the cast, parser.cpp:121).
3. **Compiler**: a composition of the phases that share the logger's counter.

Left out for good: the optimizer and `generateObj`, which are LLVM's; the AST
classes, printers and `util.cpp`, data and text; the driver, a fixed sequence of
calls whose result never varies; the text that the runtime functions print.
