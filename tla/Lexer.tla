-------------------------------- MODULE Lexer --------------------------------
(***************************************************************************)
(* The lexer of J-- (src/src/lexer/lexer.cpp) on a std::ifstream, called   *)
(* by a parser that looks at a token with peek() and takes it with         *)
(* consume().                                                              *)
(*                                                                         *)
(* The functions that lex() calls run to their end, but their loops read   *)
(* one character at a time and need not end, so each turn of a loop is an  *)
(* action.  A file is one of Files.  A char holds EOF as the               *)
(* byte 0xFF, so that EOF and this byte are the same character here too.   *)
(***************************************************************************)
EXTENDS Integers, Sequences, FiniteSets

CONSTANTS
    Files,        \* the files
    Reserved,     \* the reserved words
    MaxInput,     \* bound: the length of a file
    MaxEofs,      \* bound: how often the parser asks after the end of the file
    MaxWarnings   \* Logger::MaxWarnings

EOF == "xFF"
LF == "LF"
QUOTE == "\""

Letters == {"a", "b", "n", "t", "_"}
Digits == {"0", "1"}
Blanks == {"SP", "HT"}
Special == {"(", ")", "{", "}", ";", ","}

\* What may follow the first character of an operator.
Second ==
    [c \in {"+", "-", "/", "*", "%", "^", "<", ">", "=", "!", "&", "|"} |->
        CASE c \in {"+", "-", "&", "|"} -> {c}
          [] c \in {"<", ">"} -> {c, "="}
          [] c \in {"=", "!"} -> {"="}
          [] c \in {"/", "*", "%", "^"} -> {}]

\* The characters that may follow a backslash, and what they stand for.
Escape ==
    [c \in {"b", "f", "t", "r", "n", "'", QUOTE, "\\"} |->
        CASE c = "b" -> "BS" [] c = "f" -> "FF" [] c = "t" -> "HT"
          [] c = "r" -> "CR" [] c = "n" -> LF
          [] c \in {"'", QUOTE, "\\"} -> c]

Known == Letters \cup Digits \cup Blanks \cup Special \cup DOMAIN Second
           \cup {LF, EOF, QUOTE}

Char == Known \cup DOMAIN Escape \cup {"#"}

\* What lexemes are made of.
LexemeChar == Char \cup {Escape[e] : e \in DOMAIN Escape}

ASSUME LexerAssumption ==
    /\ \A file \in Files : file \in Seq(Char) /\ Len(file) <= MaxInput
    /\ Reserved \subseteq Seq(Letters) \ {<<>>}
    /\ MaxInput \in Nat /\ MaxEofs \in Nat /\ MaxWarnings \in Nat

\* A reserved word, an operator or a special character is its own token.
ID == <<"ID">>
NUM == <<"NUM">>
STRLIT == <<"STRLIT">>
T_EOF == <<"T_EOF">>

VARIABLES
    phase,           \* "parser", or the loop of the lexer that is running
    input,           \* the file
    m_input,         \* the position, eofbit and failbit of the stream
    m_consumed,      \* the parser has taken the last token
    m_curr_lexeme,
    m_lineno,
    warnings,        \* Logger::warnings
    start,           \* the position in the file at which the token began
    tokens           \* the answers of peek() that were not a repetition

vars == <<phase, input, m_input, m_consumed, m_curr_lexeme, m_lineno,
          warnings, start, tokens>>

\* How a run of the compiler may end in the lexer: Logger::error, or
\* pop_back() on an empty string.
Ended == {"exit", "undefined"}

Init ==
    /\ phase = "parser"
    /\ input \in Files
    /\ m_input = [pos |-> 0, eof |-> FALSE, fail |-> FALSE]
    /\ m_consumed = TRUE /\ m_curr_lexeme = <<>> /\ m_lineno = 1
    /\ warnings = 0 /\ start = 0 /\ tokens = <<>>

-----------------------------------------------------------------------------
(* The stream.                                                             *)

Good(s) == ~s.eof /\ ~s.fail
More(s) == s.pos < Len(input)

\* The character that peek() or get() answers.
At(s) == IF Good(s) /\ More(s) THEN input[s.pos + 1] ELSE EOF

\* The stream after peek(), get() and unget().
Peeked(s) == IF ~Good(s) THEN [s EXCEPT !.fail = TRUE]
             ELSE [s EXCEPT !.eof = ~More(s)]
Gotten(s) == IF ~Good(s) THEN [s EXCEPT !.fail = TRUE]
             ELSE IF More(s) THEN [s EXCEPT !.pos = @ + 1]
             ELSE [s EXCEPT !.eof = TRUE, !.fail = TRUE]
Ungotten(s) == IF s.fail THEN [s EXCEPT !.eof = FALSE]
               ELSE [s EXCEPT !.eof = FALSE, !.pos = @ - 1]

\* isSpecial() and isOperator() put the character back they do not know.
PutBack(s) == Ungotten(Gotten(s))

-----------------------------------------------------------------------------
(* Steps that lex() is made of.                                            *)

\* lex() returns to peek() with the lexeme, the stream being s.
Return(token, first, lexeme, s) ==
    /\ phase' = "parser" /\ m_consumed' = FALSE
    /\ m_input' = s /\ m_curr_lexeme' = lexeme
    /\ tokens' = Append(tokens, [token |-> token, first |-> first,
                                 last |-> s.pos, lexeme |-> lexeme,
                                 line |-> m_lineno])
    /\ UNCHANGED <<input, m_lineno, warnings, start>>

\* The loops of lex() and of the functions it calls go on.
GoOn(loop, lexeme, s) ==
    /\ phase' = loop /\ m_input' = s /\ m_curr_lexeme' = lexeme
    /\ UNCHANGED <<input, m_consumed, tokens>>

\* The character that is peeked at, or got, where a loop begins its turn.
chr == At(m_input)
Here == m_input.pos + 1
Pushed == Append(m_curr_lexeme, chr)

\* A turn of the loop of lex() begins; the stream once it is peeked at.
Loop == phase = "lex" /\ ~m_input.eof
Seen == Peeked(m_input)

-----------------------------------------------------------------------------
(* Defects: variants of some definitions that follow, not used by Spec,    *)
(* which the properties must tell from the code.                           *)

\* isSpecial() keeps the character it does not know.
NotSpecialKept == Gotten(Seen)

\* One warning more is let through.
WarnedOrLater(loop) == IF warnings' > MaxWarnings + 1 THEN "exit" ELSE loop

\* The second character of an operator is looked at and not taken.
TwoCharOperatorPeeks ==
    /\ Loop /\ chr \in DOMAIN Second \ {"/"}
    /\ LET rest == Gotten(PutBack(Seen))
       IN  At(rest) \in Second[chr]
           /\ Return(<<chr, At(rest)>>, Here, <<>>, Peeked(rest))

\* The byte that is taken for EOF is taken from the stream.
EndOfFileTaken ==
    /\ Loop /\ chr = EOF
    /\ Return(T_EOF, Here, <<>>, Gotten(PutBack(PutBack(Seen))))

\* A reserved word keeps its lexeme.
EndOfIdentifierUncleared ==
    /\ phase = "identifier" /\ chr \notin Letters \cup Digits
    /\ Return(IF m_curr_lexeme \in Reserved THEN m_curr_lexeme ELSE ID,
              start, m_curr_lexeme, Seen)

\* The newline after a comment goes with it.
EndOfCommentWithNewLine ==
    /\ phase = "comment" /\ chr = LF
    /\ GoOn("lex", <<>>, Gotten(Seen)) /\ UNCHANGED <<m_lineno, warnings, start>>

\* The characters of a comment are looked at and not taken.
CommentCharPeeks ==
    /\ phase = "comment" /\ chr # LF
    /\ GoOn("comment", <<>>, Seen)
    /\ UNCHANGED <<m_lineno, warnings, start>>

-----------------------------------------------------------------------------
(* Logger::warning, and how the loop goes on after it: not at all if there *)
(* were too many.                                                          *)
Warn == warnings' = warnings + 1
WarnedOr(loop) == IF warnings' > MaxWarnings THEN "exit" ELSE loop

\* The stream after isSpecial(), and after isOperator() too, did not know the
\* character.
NotSpecial == PutBack(Seen)
NotOperator == PutBack(NotSpecial)

-----------------------------------------------------------------------------
(* The parser.                                                             *)

\* peek(), when it has to call lex().
Peek ==
    /\ phase = "parser" /\ m_consumed
    /\ Cardinality({k \in DOMAIN tokens : tokens[k].token = T_EOF}) < MaxEofs
    /\ phase' = "lex"
    /\ UNCHANGED <<input, m_input, m_consumed, m_curr_lexeme, m_lineno,
                   warnings, start, tokens>>

Consume ==
    /\ phase = "parser" /\ ~m_consumed
    /\ m_consumed' = TRUE
    /\ UNCHANGED <<phase, input, m_input, m_curr_lexeme, m_lineno,
                   warnings, start, tokens>>

-----------------------------------------------------------------------------
(* lex(): one turn of its loop.                                            *)

\* The loop ends; the lexeme of the last token is still there.
EndOfLoop ==
    /\ phase = "lex" /\ m_input.eof
    /\ Return(T_EOF, Here, m_curr_lexeme, m_input)

NewLine ==
    /\ Loop /\ chr = LF
    /\ m_lineno' = m_lineno + 1
    /\ GoOn("lex", <<>>, Gotten(Seen)) /\ UNCHANGED <<warnings, start>>

Space ==
    /\ Loop /\ chr \in Blanks
    /\ GoOn("lex", <<>>, Gotten(Seen))
    /\ UNCHANGED <<m_lineno, warnings, start>>

StartToken(loop, lexeme, stream) ==
    /\ Loop /\ start' = Here
    /\ GoOn(loop, lexeme, stream) /\ UNCHANGED <<m_lineno, warnings>>

StartIdentifier ==
    chr \in Letters /\ StartToken("identifier", <<chr>>, Gotten(Seen))
StartNumber == chr \in Digits /\ StartToken("number", <<>>, Seen)
StartString == chr = QUOTE /\ StartToken("string", <<>>, Gotten(Seen))

\* A slash and a second one begin a comment ...
Slash == Gotten(Seen)
StartComment ==
    /\ chr = "/" /\ At(Slash) = "/"
    /\ StartToken("comment", <<>>, Peeked(Slash))

\* ... and otherwise the first is put back, for isOperator() to take.
Divide ==
    /\ Loop /\ chr = "/" /\ At(Slash) # "/"
    /\ Return(<<"/">>, Here, <<>>, Gotten(Ungotten(Peeked(Slash))))

IsSpecial ==
    /\ Loop /\ chr \in Special
    /\ Return(<<chr>>, Here, <<>>, Gotten(Seen))

\* isOperator() with the stream after its first character.
Rest == Gotten(NotSpecial)
TwoCharOperator ==
    /\ Loop /\ chr \in DOMAIN Second \ {"/"} /\ At(Rest) \in Second[chr]
    /\ Return(<<chr, At(Rest)>>, Here, <<>>, Gotten(Peeked(Rest)))

\* One look ahead for each character that may follow: at the end of the file the second
\* sets failbit.
LookedAhead == IF Second[chr] = {} THEN Rest
               ELSE IF chr \in {"<", ">"} THEN Peeked(Peeked(Rest)) ELSE Peeked(Rest)

OneCharOperator ==
    /\ Loop /\ chr \in DOMAIN Second \ {"/"} /\ At(Rest) \notin Second[chr]
    /\ Return(<<chr>>, Here, <<>>, LookedAhead)

EndOfFile ==
    /\ Loop /\ chr = EOF
    /\ Return(T_EOF, Here, <<>>, NotOperator)

UnknownChar ==
    /\ Loop /\ chr \notin Known
    /\ Warn /\ GoOn(WarnedOr("lex"), <<>>, Gotten(NotOperator))
    /\ UNCHANGED <<m_lineno, start>>

-----------------------------------------------------------------------------
(* One turn of the loop of a function that lex() calls.                    *)

\* isIdentifier() and isNumeric().
Word == [identifier |-> Letters \cup Digits, number |-> Digits]

WordChar ==
    /\ phase \in DOMAIN Word /\ chr \in Word[phase]
    /\ GoOn(phase, Pushed, Gotten(Seen)) /\ UNCHANGED <<m_lineno, warnings, start>>

\* isReserved() clears the lexeme of a reserved word.
EndOfIdentifier ==
    /\ phase = "identifier" /\ chr \notin Word[phase]
    /\ IF m_curr_lexeme \in Reserved
       THEN Return(m_curr_lexeme, start, <<>>, Seen)
       ELSE Return(ID, start, m_curr_lexeme, Seen)

EndOfNumber ==
    /\ phase = "number" /\ chr \notin Word[phase]
    /\ Return(NUM, start, m_curr_lexeme, Seen)

EndOfString ==
    /\ phase = "string" /\ chr = QUOTE
    /\ Return(STRLIT, start, m_curr_lexeme, Gotten(m_input))

InString(lexeme, stream) ==
    /\ phase = "string"
    /\ GoOn("string", lexeme, stream) /\ UNCHANGED <<m_lineno, start>>

\* Once the file is over this is taken for ever; the bound, one more than a
\* file can give a lexeme, keeps it finite.
StringChar ==
    /\ chr \notin {QUOTE, "\\", LF} /\ Len(m_curr_lexeme) <= MaxInput
    /\ InString(Pushed, Gotten(m_input)) /\ UNCHANGED warnings

Escaped == At(Gotten(m_input))
EscapeChar ==
    /\ chr = "\\" /\ Escaped \in DOMAIN Escape
    /\ InString(Append(m_curr_lexeme, Escape[Escaped]),
                Gotten(Gotten(m_input)))
    /\ UNCHANGED warnings

\* The character before the backslash is taken back, also if there is none.
PopBack == SubSeq(m_curr_lexeme, 1, Len(m_curr_lexeme) - 1)
BadEscape ==
    /\ phase = "string" /\ chr = "\\" /\ Escaped \notin DOMAIN Escape
    /\ Warn
    /\ GoOn(WarnedOr(IF m_curr_lexeme = <<>> THEN "undefined" ELSE "string"),
            PopBack, Gotten(Gotten(m_input)))
    /\ UNCHANGED <<m_lineno, start>>

StringNewLine ==
    /\ phase = "string" /\ chr = LF
    /\ Warn /\ GoOn(WarnedOr("string"), m_curr_lexeme, Gotten(m_input))
    /\ UNCHANGED <<m_lineno, start>>

\* Once the file is over this too is taken for ever.
CommentChar ==
    /\ phase = "comment" /\ chr # LF
    /\ GoOn("comment", <<>>, Gotten(Seen))
    /\ UNCHANGED <<m_lineno, warnings, start>>

EndOfComment ==
    /\ phase = "comment" /\ chr = LF
    /\ GoOn("lex", <<>>, Seen) /\ UNCHANGED <<m_lineno, warnings, start>>

-----------------------------------------------------------------------------
Lex ==
    \/ EndOfLoop \/ NewLine \/ Space \/ StartIdentifier \/ StartNumber
    \/ StartString \/ StartComment \/ Divide \/ IsSpecial \/ TwoCharOperator
    \/ OneCharOperator \/ EndOfFile \/ UnknownChar
    \/ WordChar \/ EndOfIdentifier \/ EndOfNumber
    \/ EndOfString \/ StringChar \/ EscapeChar \/ BadEscape \/ StringNewLine
    \/ CommentChar \/ EndOfComment

Next == Peek \/ Consume \/ Lex

Spec == Init /\ [][Next]_vars

\* A call of lex() does not stop by itself; nothing makes the parser call it.
FairSpec == Spec /\ WF_vars(Lex)

TypeOK ==
    /\ phase \in {"parser", "lex", "identifier", "number", "string",
                  "comment"} \cup Ended
    /\ input \in Seq(Char) /\ Len(input) <= MaxInput
    /\ m_input \in [pos : 0..Len(input), eof : BOOLEAN, fail : BOOLEAN]
    /\ m_consumed \in BOOLEAN
    /\ m_curr_lexeme \in Seq(LexemeChar)
    /\ m_lineno \in 1..MaxInput + 1
    /\ warnings \in 0..MaxWarnings + 1
    /\ start \in 0..Len(input)
    /\ tokens \in Seq([token : {ID, NUM, STRLIT, T_EOF} \cup Seq(Char),
                       first : 1..Len(input) + 1, last : 0..Len(input),
                       lexeme : Seq(LexemeChar), line : 1..MaxInput + 1])
=============================================================================
