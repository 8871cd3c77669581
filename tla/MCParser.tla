------------------------------ MODULE MCParser ------------------------------
(***************************************************************************)
(* Instances of Parser for TLC.                                            *)
(***************************************************************************)
EXTENDS ParserGrammar

\* Of the brackets that are open, the first is the brace of main.
InMain == <<"id", "(", ")", "{">>

Growing(rule, before, after, tokens, max, nesting) ==
    [rule |-> rule, before |-> before, after |-> after, tokens |-> tokens,
     max |-> max, nesting |-> nesting]

\* An expression, as a statement of main: calls, parentheses and the operators
\* that stand before or after their operand; two of any binary operators.
Operands == Growing("expression", InMain, <<";", "}">>,
                    {"id", "num", "huge", "(", ")", ",", "-", "++", "="}, 6, 4)
Operations == Growing("expression", InMain, <<";", "}">>,
                      {"id", "="} \cup UNION {Levels[k] : k \in DOMAIN Levels}, 5, 1)

\* Statements of main.
Control == Growing("blockstatements", InMain, <<"}">>,
                   {"if", "else", "(", "id", ")", ";"}, 11, 3)
Others == Growing("blockstatements", InMain, <<"}">>,
                  {"while", "(", "id", ")", ";", "break", "return", "int"}, 7, 4)
\* No name is among these, so that no second function follows a brace.
Blocks == Growing("blockstatements", InMain, <<"}">>,
                  {"{", "}", ";", "break", "return"}, 7, 4)

\* A whole program.
Program == Growing("globaldeclarations", <<>>, <<>>,
                   {"int", "void", "id", "(", ")", ",", "{", "}", ";"}, 11, 4)

All == {Operands, Operations, Control, Others, Blocks, Program}
OnlyBreak == {Growing("blockstatements", InMain, <<"}">>,
                      {"if", "else", "(", "id", ")", ";", "break"}, 8, 3)}
OnlyOperations == {Operations}
=============================================================================
