---------------------------- MODULE LexerLanguage ----------------------------
(***************************************************************************)
(* The lexical rules of J--, without a lexer: which texts are tokens, what *)
(* may stand between two of them and what the value of a string is.  The   *)
(* properties compare the answers of Lexer with them.                      *)
(***************************************************************************)
EXTENDS Lexer

Operators ==
    {<<"+">>, <<"-">>, <<"*">>, <<"/">>, <<"%">>, <<"^">>, <<"<">>, <<">">>,
     <<"=">>, <<"!">>, <<"&">>, <<"|">>, <<"<", "=">>, <<">", "=">>,
     <<"=", "=">>, <<"!", "=">>, <<"&", "&">>, <<"|", "|">>, <<"+", "+">>,
     <<"-", "-">>, <<"<", "<">>, <<">", ">">>}

IsWord(x) == x # <<>> /\ x[1] \in Letters
               /\ \A i \in DOMAIN x : x[i] \in Letters \cup Digits
IsNumber(x) == x # <<>> /\ \A i \in DOMAIN x : x[i] \in Digits
IsPunctuation(x) == x \in Operators \cup {<<p>> : p \in Special}

\* A backslash gives the character after it another meaning, unless it has one
\* itself: an odd number of them stands before x[i].
IsEscaped(x, i) ==
    \E n \in 1..i - 2 : /\ n % 2 = 1
                        /\ \A j \in i - n..i - 1 : x[j] = "\\"
                        /\ i - n = 2 \/ x[i - n - 1] # "\\"

\* A string begins with a quote and ends with the next that is not escaped.
IsString(x) ==
    /\ Len(x) > 1 /\ x[1] = QUOTE
    /\ \A i \in 2..Len(x) :
          (x[i] = QUOTE /\ ~IsEscaped(x, i)) <=> i = Len(x)

IsToken(x) == IsWord(x) \/ IsNumber(x) \/ IsPunctuation(x) \/ IsString(x)

TokenOf(x) == CASE IsWord(x) -> IF x \in Reserved THEN x ELSE ID
                [] IsNumber(x) -> NUM
                [] IsString(x) -> STRLIT
                [] IsPunctuation(x) -> x

\* The value of a string, character by character: those after a backslash
\* stand for something else, and a backslash and a newline for nothing.
Contents(x) ==
    {i \in 2..Len(x) - 1 : IsEscaped(x, i) \/ x[i] \notin {"\\", LF}}
HasBadEscape(x) ==
    \E i \in 2..Len(x) : IsEscaped(x, i) /\ x[i] \notin DOMAIN Escape
Meaning(x, i) == IF IsEscaped(x, i) THEN Escape[x[i]] ELSE x[i]
IsValue(v, x) ==
    /\ Len(v) = Cardinality(Contents(x))
    /\ \A i \in Contents(x) :
          v[Cardinality({j \in Contents(x) : j <= i})] = Meaning(x, i)

IsLexeme(v, x) ==
    CASE IsWord(x) -> v = IF x \in Reserved THEN <<>> ELSE x
      [] IsNumber(x) -> v = x
      [] IsString(x) -> HasBadEscape(x) \/ IsValue(v, x)
      [] IsPunctuation(x) -> v = <<>>

-----------------------------------------------------------------------------
(* What the lexer answered.                                                *)

Text(k) == SubSeq(input, tokens[k].first, tokens[k].last)
IsEof(k) == tokens[k].token = T_EOF
Answered == {k \in DOMAIN tokens : ~IsEof(k)}

\* Two slashes in a row after position `from`, and no newline up to `p`.
InComment(p, from) ==
    \E k \in from..p : /\ k < Len(input)
                       /\ input[k] = "/" /\ input[k + 1] = "/"
                       /\ \A j \in k..p : input[j] # LF

\* isOperator() and isNumeric() stop after one token and isStr() after its
\* quote, with the stream put back after every look ahead: each token is the
\* longest that begins where it does, and what a comment begins with is none.
LongestMatch ==
    \A k \in Answered :
        /\ IsToken(Text(k)) /\ tokens[k].token = TokenOf(Text(k))
        /\ \A j \in tokens[k].last + 1..Len(input) :
              ~IsToken(SubSeq(input, tokens[k].first, j))
        /\ tokens[k].token = <<"/">> => ~InComment(tokens[k].first,
                                                   tokens[k].first)

\* peek(), get() and unget() on a stream with eofbit and failbit, the loop of
\* a comment that leaves its newline, T_EOF from two places: between two tokens
\* and before the end (or the byte that is taken for it) there is nothing but
\* blanks, newlines, comments and unknown characters, and no token overlaps the
\* one before.
NothingIsLost ==
    \A k \in DOMAIN tokens :
        LET from == IF k = 1 THEN 1 ELSE tokens[k - 1].last + 1
            to   == tokens[k].first - 1
        IN  /\ from <= to + 1
            /\ \A p \in from..to : \/ input[p] \in Blanks \cup {LF}
                                   \/ input[p] \notin Known
                                   \/ InComment(p, from)
            /\ IsEof(k) => to = Len(input) \/ input[to + 1] = EOF

\* The lexeme is that of this token and of no other: cleared before it, again
\* for a reserved word, pushed to in three places.
LexemesAreRight ==
    \A k \in Answered : IsToken(Text(k)) => IsLexeme(tokens[k].lexeme, Text(k))

\* Errors are reported at line(): the newlines before a token, those in
\* comments included, those in strings left out.
LinesAreRight ==
    \A k \in Answered :
        LET newlines == {p \in 1..tokens[k].first - 1 :
                            /\ input[p] = LF
                            /\ \A j \in Answered :
                                  p \notin tokens[j].first..tokens[j].last}
        IN  tokens[k].line = 1 + Cardinality(newlines)

\* The end of a file is found with eofbit set or with failbit set, according
\* to what stood before it: once T_EOF was answered nothing else is.
EofIsSticky ==
    \A j, k \in DOMAIN tokens : j < k /\ IsEof(j) => IsEof(k)

\* A call of lex() returns, or ends the process, unless the file is over in
\* the middle of a comment or a string.
Endless == phase \in {"comment", "string"} /\ m_input.fail
EveryCallReturns ==
    (phase = "lex") ~> (phase \in {"parser"} \cup Ended \/ Endless)

-----------------------------------------------------------------------------
(* What the code disagrees with.                                           *)

\* "Single line comments only -- //" (README.md): a comment that ends with the
\* file is a comment too, so lex() gets past every one of them.
CommentsEnd == (phase = "comment") ~> (phase # "comment")
=============================================================================
