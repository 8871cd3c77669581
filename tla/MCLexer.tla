------------------------------- MODULE MCLexer -------------------------------
(***************************************************************************)
(* Instances of Lexer for TLC: the files.                                  *)
(***************************************************************************)
EXTENDS LexerLanguage, SequencesExt

\* Reserved words that an identifier may begin with.
TwoReserved == {<<"a", "a">>, <<"n", "n">>}

\* A character of every kind that lex() tells apart.
AnyKind == {"a", "1", "SP", "LF", "/", "+", "<", "=", "(", QUOTE, "#", "xFF"}

\* What strings, comments and words are made of.
Strings == {QUOTE, "\\", "n", "1", "LF", "/"}

\* A string, at the beginning of a file or after another token.
Strings6 == {x \o <<QUOTE>> \o s : x \in {<<>>, <<"1">>}, s \in [1..4 -> Strings]}

ShortFiles == BoundedSeq(AnyKind, 3)
AllFiles == BoundedSeq(AnyKind, 4) \cup BoundedSeq(Strings, 4) \cup Strings6
=============================================================================
