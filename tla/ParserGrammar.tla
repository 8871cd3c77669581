---------------------------- MODULE ParserGrammar ----------------------------
(***************************************************************************)
(* What Parser must compute: the language of the grammar in README.md, the *)
(* places where the parser's own language differs from it, and the trees   *)
(* that precedence and nesting call for.                                   *)
(***************************************************************************)
EXTENDS ParserTrees, TLC

BinaryRules == {Precedence[k].rule : k \in DOMAIN Precedence}
Level(rule) == CHOOSE k \in DOMAIN Precedence : Precedence[k].rule = rule
Operand(k) == IF k = 1 THEN "unaryexpression" ELSE Precedence[k - 1].rule

\* The rules (README.md:203-371), each with its right sides.
Documented ==
    [rule \in BinaryRules |->
        LET k == Level(rule)
        IN  {<<Operand(k)>>}
            \cup {<<rule, op, Operand(k)>> : op \in Precedence[k].ops}]
    @@
    [literal |-> {<<l>> : l \in Literals \cup {"huge"}},
     type |-> {<<ty>> : ty \in Types},
     functioninvocation |->
        {<<"id", "(", ")">>, <<"id", "(", "argumentlist", ")">>},
     argumentlist |->
        {<<"expression">>, <<"argumentlist", ",", "expression">>},
     primary |->
        {<<"literal">>, <<"(", "expression", ")">>, <<"functioninvocation">>},
     postfixexpression |->
        {<<"primary">>, <<"id">>, <<"postfixexpression", "++">>,
         <<"postfixexpression", "--">>},
     unaryexpression |->
        {<<op, "unaryexpression">> : op \in {"-", "!", "++", "--"}}
        \cup {<<"postfixexpression">>},
     assignment |-> {<<"id", "=", "expression">>},
     expression |-> {<<"conditionalorexpression">>, <<"assignment">>},
     statementexpression |-> {<<"assignment">>, <<"functioninvocation">>},
     statement |->
        {<<"block">>, <<";">>, <<"statementexpression", ";">>,
         <<"break", ";">>, <<"return", ";">>, <<"return", "expression", ";">>,
         <<"if", "(", "expression", ")", "statement">>,
         <<"if", "(", "expression", ")", "statement", "else", "statement">>,
         <<"while", "(", "expression", ")", "statement">>},
     block |-> {<<"{", "}">>, <<"{", "blockstatements", "}">>},
     blockstatement |-> {<<"variabledeclaration">>, <<"statement">>},
     blockstatements |->
        {<<"blockstatement">>, <<"blockstatements", "blockstatement">>},
     variabledeclaration |-> {<<"type", "id", ";">>},
     formalparameter |-> {<<"type", "id">>},
     formalparameterlist |->
        {<<"formalparameter">>,
         <<"formalparameterlist", ",", "formalparameter">>},
     functiondeclarator |->
        {<<"id", "(", ")">>, <<"id", "(", "formalparameterlist", ")">>},
     globaldeclaration |->
        {<<"variabledeclaration">>, <<"type", "functiondeclarator", "block">>,
         <<"void", "functiondeclarator", "block">>, <<"id", "(", ")", "block">>},
     globaldeclarations |->
        {<<"globaldeclaration">>,
         <<"globaldeclarations", "globaldeclaration">>}]

\* Where the parser differs: break stands alone (parser.cpp:880) and so does any
\* expression (193-207), a declaration may be the body of an if or a loop (873),
\* the left side of an assignment is any expression, the right side may be
\* missing (843-855), and a number on which stoul() throws is no literal (121).
AsParsed ==
    [Documented EXCEPT
        !.literal = {<<l>> : l \in Literals},
        !.statement = (@ \ {<<"break", ";">>})
                          \cup {<<"break">>, <<"variabledeclaration">>},
        !.statementexpression = {<<"expression">>},
        !.assignment = {<<"conditionalorexpression", "=", "expression">>,
                        <<"conditionalorexpression", "=">>}]

-----------------------------------------------------------------------------
(* The sentences of a grammar, by their length.                            *)

\* The sentences of length n of a symbol, of a sequence of symbols, and of every
\* rule; shorter[rule, m] are those of a length m < n.
RECURSIVE SymbolStrings(_, _, _, _, _), Strings(_, _, _, _, _), Upto(_, _, _)
SymbolStrings(grammar, tokens, shorter, symbol, n) ==
    IF symbol \notin DOMAIN grammar
    THEN IF n = 1 /\ symbol \in tokens THEN {<<symbol>>} ELSE {}
    ELSE IF <<symbol, n>> \in DOMAIN shorter THEN shorter[symbol, n]
    ELSE UNION {Strings(grammar, tokens, shorter, symbols, n) :
                    symbols \in grammar[symbol]}
Strings(grammar, tokens, shorter, symbols, n) ==
    IF Len(symbols) = 1
    THEN SymbolStrings(grammar, tokens, shorter, symbols[1], n)
    ELSE UNION {{a \o b :
                    a \in SymbolStrings(grammar, tokens, shorter, symbols[1], m),
                    b \in Strings(grammar, tokens, shorter, Tail(symbols), n - m)} :
                m \in 1..n - Len(symbols) + 1}
Upto(grammar, tokens, n) ==
    IF n = 0 THEN <<>>
    ELSE LET shorter == Upto(grammar, tokens, n - 1)
         IN  shorter @@ [r \in (DOMAIN grammar) \X {n} |->
                            SymbolStrings(grammar, tokens, shorter, r[1], n)]

Sentences(grammar, c) ==
    LET all == Upto(grammar, c.tokens, c.max)
    IN  {<<>>} \cup UNION {all[c.rule, n] : n \in 1..c.max}

BeginningsOf(S) == UNION {{SubSeq(s, 1, n) : n \in 0..Len(s)} : s \in S}
ParsedPart == [c \in Contexts |-> Sentences(AsParsed, c)]
Beginnings == [c \in Contexts |-> BeginningsOf(ParsedPart[c])]
DocumentedBeginnings ==
    [c \in Contexts |-> BeginningsOf(Sentences(Documented, c))]

-----------------------------------------------------------------------------
(* Properties.                                                             *)

\* The rules of the parser, with their loops and their order of trying, accept
\* exactly the files that the grammar derives, but for the five differences that
\* AsParsed names.
LanguageIsRight ==
    result # NotParsed => (Accepted <=> Part \in ParsedPart[context])

\* A token is objected to only when no program continues the file with it.
ErrorsAreFinal ==
    Rejected => SubSeq(file, Len(context.before) + 1, result.next)
                    \notin Beginnings[context]

\* README.md:275: a break is followed by a semicolon, wherever a statement may
\* stand.  The parser leaves it to the next statement, which an if has not.
NothingDocumentedIsRejected ==
    Rejected => SubSeq(file, Len(context.before) + 1, result.next)
                    \notin DocumentedBeginnings[context]
=============================================================================
