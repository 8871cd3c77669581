----------------------------- MODULE LexerProofs -----------------------------
(***************************************************************************)
(* Proofs, for every file, that the stream is never left before the        *)
(* beginning of the file or after its end, that no two tokens overlap and  *)
(* nothing is skipped between them but what may stand there, that T_EOF is *)
(* the last answer, that every token has the number of its line, is the    *)
(* longest that begins where it does, and that its lexeme is its own       *)
(* (modules Lexer and LexerLanguage).                                      *)
(***************************************************************************)
EXTENDS LexerLanguage, SequenceTheorems, FiniteSetTheorems,
        WellFoundedInduction, NaturalsInduction, TLAPS

-----------------------------------------------------------------------------
(* The inductive invariant.                                                *)

Answer == [token : {ID, NUM, STRLIT, T_EOF} \cup Seq(Char),
           first : 1..(Len(input) + 1), last : 0..Len(input),
           lexeme : Seq(LexemeChar), line : 1..(MaxInput + 1)]

\* A stream is in the file, and has only stopped at its end.
Stream == [pos : 0..Len(input), eof : BOOLEAN, fail : BOOLEAN]
StreamOK(s) == s \in Stream /\ (s.eof \/ s.fail => s.pos = Len(input))

\* TypeOK, with what bounds the counters.
Types ==
    /\ phase \in {"parser", "lex", "identifier", "number", "string",
                  "comment"} \cup Ended
    /\ input \in Seq(Char) /\ Len(input) <= MaxInput
    /\ StreamOK(m_input)
    /\ m_consumed \in BOOLEAN
    /\ m_curr_lexeme \in Seq(LexemeChar)
    /\ m_lineno \in 1..(m_input.pos + 1)
    /\ warnings \in Nat /\ warnings <= MaxWarnings + 1
    /\ warnings > MaxWarnings => phase = "exit"
    /\ start \in 0..Len(input)
    /\ tokens \in Seq(Answer)

\* After T_EOF the lexer has nothing to read but T_EOF.
NoEof == \A k \in DOMAIN tokens : ~IsEof(k)
EofOK == ~NoEof => /\ phase \in {"parser", "lex"}
                   /\ m_input.eof \/ At(m_input) = EOF

\* What has been skipped since the last token.
From == IF tokens = <<>> THEN 1 ELSE tokens[Len(tokens)].last + 1
Skips(p, from) == \/ input[p] \in Blanks \cup {LF}
                  \/ input[p] \notin Known
                  \/ InComment(p, from)
Skipped(to) == \A p \in From..to : Skips(p, From)
SkippedOK ==
    /\ From \in 1..(m_input.pos + 1)
    /\ phase \in {"parser", "lex"} => Skipped(m_input.pos)
    /\ phase \in {"identifier", "number", "string", "comment"} =>
          start \in From..(m_input.pos + 1) /\ Skipped(start - 1)
    /\ phase = "comment" =>
          /\ start <= m_input.pos /\ start < Len(input)
          /\ input[start] = "/" /\ input[start + 1] = "/"
          /\ \A j \in start..m_input.pos : input[j] # LF

\* Where tokens are.
TokensOK == \A k \in DOMAIN tokens :
               /\ tokens[k].first <= tokens[k].last + 1 /\ tokens[k].last < From
               /\ IsEof(k) => tokens[k].first = tokens[k].last + 1

Inv == Types /\ EofOK /\ EofIsSticky /\ SkippedOK /\ NothingIsLost /\ TokensOK

-----------------------------------------------------------------------------
(* Characters and tokens.                                                  *)

LEMMA CharsAre ==
    /\ EOF \in Char /\ Char \subseteq LexemeChar
    /\ EOF \notin Letters \cup Digits \cup Blanks \cup Special \cup DOMAIN Second
    /\ EOF # "/" /\ EOF # LF /\ EOF # QUOTE /\ EOF # "\\" /\ EOF \in Known
    /\ Special \subseteq Char /\ DOMAIN Second \subseteq Char /\ Letters \subseteq Char
    /\ "/" \in DOMAIN Second
<1>1. EOF \in Known /\ EOF \in Char
  BY DEF EOF, Known, Char
<1>2. Char \subseteq LexemeChar
  BY DEF LexemeChar
<1>3. EOF \notin Letters \cup Digits \cup Blanks \cup Special \cup DOMAIN Second
      /\ EOF # "/" /\ EOF # LF /\ EOF # "\\"
  BY DEF EOF, LF, Letters, Digits, Blanks, Special, Second
<1>6. EOF # QUOTE
  BY DEF EOF, QUOTE
<1>4. Special \subseteq Char /\ DOMAIN Second \subseteq Char /\ Letters \subseteq Char
  BY DEF Char, Known
<1>5. "/" \in DOMAIN Second
  BY DEF Second
<1> QED BY <1>1, <1>2, <1>3, <1>4, <1>5, <1>6

LEMMA EscapesAre ==
    \A e \in DOMAIN Escape : Escape[e] \in LexemeChar
BY DEF LexemeChar

\* The answers other than T_EOF.
LEMMA TokensAre ==
    /\ \A c \in Special \cup DOMAIN Second : <<c>> \in Seq(Char) /\ <<c>> # T_EOF
    /\ \A c, d \in Char : <<c, d>> \in Seq(Char) /\ <<c, d>> # T_EOF
    /\ \A w \in Reserved : w \in Seq(Char) /\ w # T_EOF
    /\ ID # T_EOF /\ NUM # T_EOF /\ STRLIT # T_EOF
<1>1. "T_EOF" \notin Special \cup DOMAIN Second \cup Letters
  BY DEF Special, Second, Letters
<1>2. \A c \in Special \cup DOMAIN Second : <<c>> \in Seq(Char) /\ <<c>> # T_EOF
  <2> SUFFICES ASSUME NEW c \in Special \cup DOMAIN Second
               PROVE  <<c>> \in Seq(Char) /\ <<c>> # T_EOF
    OBVIOUS
  <2>1. c \in Char /\ c # "T_EOF"
    BY <1>1, CharsAre
  <2>2. <<c>>[1] = c /\ T_EOF[1] = "T_EOF"
    BY DEF T_EOF
  <2> QED BY <2>1, <2>2
<1>3. \A c, d \in Char : <<c, d>> \in Seq(Char) /\ <<c, d>> # T_EOF
  <2> SUFFICES ASSUME NEW c \in Char, NEW d \in Char
               PROVE  <<c, d>> \in Seq(Char) /\ <<c, d>> # T_EOF
    OBVIOUS
  <2>1. Len(<<c, d>>) = 2 /\ Len(T_EOF) = 1
    BY DEF T_EOF
  <2> QED BY <2>1
<1>4. \A w \in Reserved : w \in Seq(Char) /\ w # T_EOF
  <2> SUFFICES ASSUME NEW w \in Reserved PROVE w \in Seq(Char) /\ w # T_EOF
    OBVIOUS
  <2>1. w \in Seq(Letters)
    BY LexerAssumption
  <2>2. w \in Seq(Char)
    <3>1. Len(w) \in Nat /\ w \in [1..Len(w) -> Letters]
      BY <2>1
    <3>2. w \in [1..Len(w) -> Char]
      BY <3>1, CharsAre
    <3> QED BY <3>1, <3>2
  <2>3. ASSUME w = T_EOF PROVE FALSE
    <3>1. Len(w) = 1 /\ w[1] = "T_EOF"
      BY <2>3 DEF T_EOF
    <3>2. w[1] \in Letters
      BY <2>1, <3>1
    <3> QED BY <1>1, <3>1, <3>2
  <2> QED BY <2>2, <2>3
<1>5. ID # T_EOF /\ NUM # T_EOF /\ STRLIT # T_EOF
  BY DEF ID, NUM, STRLIT, T_EOF
<1> QED BY <1>2, <1>3, <1>4, <1>5

-----------------------------------------------------------------------------
(* Streams.                                                                *)

LEMMA AtIs ==
    ASSUME input \in Seq(Char), NEW s, StreamOK(s)
    PROVE  /\ At(s) \in Char
           /\ At(s) # EOF => /\ Good(s) /\ More(s) /\ At(s) = input[s.pos + 1]
                             /\ s.pos + 1 \in 1..Len(input)
           /\ At(s) = EOF => s.pos = Len(input) \/ input[s.pos + 1] = EOF
<1>1. s.pos \in 0..Len(input) /\ Len(input) \in Nat
  BY DEF StreamOK, Stream
<1>2. More(s) => s.pos + 1 \in 1..Len(input) /\ input[s.pos + 1] \in Char
  BY <1>1 DEF More
<1>3. ~Good(s) \/ ~More(s) => s.pos = Len(input)
  BY <1>1 DEF Good, More, StreamOK
<1> QED BY <1>1, <1>2, <1>3, CharsAre DEF At

\* What EXCEPT does to a stream.
LEMMA SetEof ==
    ASSUME NEW s \in Stream, NEW b \in BOOLEAN
    PROVE  /\ [s EXCEPT !.eof = b] \in Stream
           /\ [s EXCEPT !.eof = b].pos = s.pos
           /\ [s EXCEPT !.eof = b].eof = b
           /\ [s EXCEPT !.eof = b].fail = s.fail
BY DEF Stream

LEMMA SetFail ==
    ASSUME NEW s \in Stream
    PROVE  /\ [s EXCEPT !.fail = TRUE] \in Stream
           /\ [s EXCEPT !.fail = TRUE].pos = s.pos
           /\ [s EXCEPT !.fail = TRUE].eof = s.eof
           /\ [s EXCEPT !.fail = TRUE].fail = TRUE
BY DEF Stream

LEMMA SetPos ==
    ASSUME NEW s \in Stream, NEW n \in 0..Len(input)
    PROVE  /\ [s EXCEPT !.pos = n] \in Stream
           /\ [s EXCEPT !.pos = n].pos = n
           /\ [s EXCEPT !.pos = n].eof = s.eof
           /\ [s EXCEPT !.pos = n].fail = s.fail
BY DEF Stream

LEMMA SetOver ==
    ASSUME NEW s \in Stream
    PROVE  /\ [s EXCEPT !.eof = TRUE, !.fail = TRUE] \in Stream
           /\ [s EXCEPT !.eof = TRUE, !.fail = TRUE].pos = s.pos
           /\ [s EXCEPT !.eof = TRUE, !.fail = TRUE].eof = TRUE
           /\ [s EXCEPT !.eof = TRUE, !.fail = TRUE].fail = TRUE
BY DEF Stream

LEMMA SetBack ==
    ASSUME NEW s \in Stream, NEW n \in 0..Len(input)
    PROVE  /\ [s EXCEPT !.eof = FALSE, !.pos = n] \in Stream
           /\ [s EXCEPT !.eof = FALSE, !.pos = n].pos = n
           /\ [s EXCEPT !.eof = FALSE, !.pos = n].eof = FALSE
           /\ [s EXCEPT !.eof = FALSE, !.pos = n].fail = s.fail
BY DEF Stream

\* Streams with the same fields are the same.
LEMMA SameStream ==
    ASSUME NEW N, NEW s \in [pos : N, eof : BOOLEAN, fail : BOOLEAN],
           NEW t \in [pos : N, eof : BOOLEAN, fail : BOOLEAN],
           s.pos = t.pos, s.eof <=> t.eof, s.fail <=> t.fail
    PROVE  s = t
OBVIOUS

LEMMA PeekedIs ==
    ASSUME input \in Seq(Char), NEW s, StreamOK(s)
    PROVE  /\ StreamOK(Peeked(s)) /\ Peeked(s).pos = s.pos
           /\ At(Peeked(s)) = At(s)
           /\ At(s) # EOF => Peeked(s) = s
           /\ Good(s) => ~Peeked(s).fail
<1>1. /\ s \in Stream /\ Len(input) \in Nat /\ s.pos \in 0..Len(input)
      /\ s.eof \/ s.fail => s.pos = Len(input)
  BY DEF StreamOK, Stream
<1>2. At(s) # EOF => Good(s) /\ More(s)
  BY AtIs
<1>3. CASE ~Good(s)
  <2>1. Peeked(s) = [s EXCEPT !.fail = TRUE]
    BY <1>3 DEF Peeked
  <2>2. /\ Peeked(s) \in Stream /\ Peeked(s).pos = s.pos
        /\ Peeked(s).eof = s.eof /\ Peeked(s).fail = TRUE
    BY <1>1, <2>1, SetFail
  <2>3. s.pos = Len(input)
    BY <1>1, <1>3 DEF Good
  <2> QED BY <1>2, <1>3, <2>2, <2>3 DEF StreamOK, At, Good
<1>4. CASE Good(s)
  <2> DEFINE b == ~More(s)
  <2>1. Peeked(s) = [s EXCEPT !.eof = b]
    BY <1>4 DEF Peeked
  <2>2. b \in BOOLEAN
    OBVIOUS
  <2>3. /\ Peeked(s) \in Stream /\ Peeked(s).pos = s.pos
        /\ Peeked(s).eof = b /\ Peeked(s).fail = s.fail
    <3> HIDE DEF b
    <3> QED BY <1>1, <2>1, <2>2, SetEof
  <2>4. ~More(s) => s.pos = Len(input)
    BY <1>1 DEF More
  <2>5. ~s.eof /\ ~s.fail
    BY <1>4 DEF Good
  <2>6. StreamOK(Peeked(s))
    BY <2>3, <2>4, <2>5 DEF StreamOK
  <2>7. More(Peeked(s)) <=> More(s)
    BY <2>3 DEF More
  <2>8. At(Peeked(s)) = At(s)
    BY <1>4, <2>3, <2>5, <2>7 DEF At, Good
  <2>9. More(s) => Peeked(s) = s
    BY <1>1, <2>3, <2>5, SameStream DEF Stream
  <2>10. ~Peeked(s).fail
    BY <2>3, <2>5
  <2> QED BY <1>2, <2>3, <2>6, <2>8, <2>9, <2>10
<1> QED BY <1>3, <1>4

LEMMA GottenIs ==
    ASSUME input \in Seq(Char), NEW s, StreamOK(s)
    PROVE  /\ StreamOK(Gotten(s)) /\ Gotten(s).pos \in {s.pos, s.pos + 1}
           /\ Good(s) /\ More(s) => /\ Gotten(s).pos = s.pos + 1
                                     /\ ~Gotten(s).eof /\ ~Gotten(s).fail
           /\ At(s) # EOF => Good(s) /\ More(s)
           /\ ~(Good(s) /\ More(s)) => Gotten(s).pos = s.pos /\ Gotten(s).fail
           /\ Gotten(s).pos = s.pos + 1 => s.pos + 1 \in 1..Len(input)
                                           /\ At(s) = input[s.pos + 1]
<1>1. /\ s \in Stream /\ Len(input) \in Nat /\ s.pos \in 0..Len(input)
      /\ s.eof \/ s.fail => s.pos = Len(input)
  BY DEF StreamOK, Stream
<1>2. At(s) # EOF => Good(s) /\ More(s)
  BY AtIs
<1>3. CASE ~Good(s)
  <2>1. Gotten(s) = [s EXCEPT !.fail = TRUE]
    BY <1>3 DEF Gotten
  <2>2. /\ Gotten(s) \in Stream /\ Gotten(s).pos = s.pos
        /\ Gotten(s).eof = s.eof /\ Gotten(s).fail = TRUE
    BY <1>1, <2>1, SetFail
  <2>3. s.pos = Len(input)
    BY <1>1, <1>3 DEF Good
  <2> QED BY <1>1, <1>2, <1>3, <2>2, <2>3 DEF StreamOK
<1>4. CASE Good(s) /\ More(s)
  <2> DEFINE n == s.pos + 1
  <2>1. Gotten(s) = [s EXCEPT !.pos = n]
    BY <1>4 DEF Gotten
  <2>2. n \in 0..Len(input) /\ n \in 1..Len(input)
    BY <1>1, <1>4 DEF More
  <2>3. /\ Gotten(s) \in Stream /\ Gotten(s).pos = n
        /\ Gotten(s).eof = s.eof /\ Gotten(s).fail = s.fail
    <3> HIDE DEF n
    <3> QED BY <1>1, <2>1, <2>2, SetPos
  <2>4. ~s.eof /\ ~s.fail /\ At(s) = input[s.pos + 1]
    BY <1>4 DEF Good, At
  <2>5. ~Gotten(s).eof /\ ~Gotten(s).fail
    BY <2>3, <2>4
  <2> QED BY <1>1, <1>4, <2>2, <2>3, <2>4, <2>5 DEF StreamOK
<1>5. CASE Good(s) /\ ~More(s)
  <2>1. Gotten(s) = [s EXCEPT !.eof = TRUE, !.fail = TRUE]
    BY <1>5 DEF Gotten
  <2>2. Gotten(s) \in Stream /\ Gotten(s).pos = s.pos /\ Gotten(s).fail = TRUE
    BY <1>1, <2>1, SetOver
  <2>3. s.pos = Len(input)
    BY <1>1, <1>5 DEF More
  <2> QED BY <1>1, <1>2, <1>5, <2>2, <2>3 DEF StreamOK
<1> QED BY <1>3, <1>4, <1>5

\* unget() after a character was got, and after none was.
LEMMA UngottenIs ==
    ASSUME input \in Seq(Char), NEW s, StreamOK(s), s.fail \/ s.pos > 0
    PROVE  /\ s.fail => /\ StreamOK(Ungotten(s)) /\ Ungotten(s).pos = s.pos
                        /\ Ungotten(s).fail
           /\ ~s.fail => /\ Ungotten(s) \in Stream /\ Ungotten(s).pos = s.pos - 1
                         /\ ~Ungotten(s).eof /\ ~Ungotten(s).fail
<1>1. /\ s \in Stream /\ Len(input) \in Nat /\ s.pos \in 0..Len(input)
      /\ s.eof \/ s.fail => s.pos = Len(input)
  BY DEF StreamOK, Stream
<1>2. CASE s.fail
  <2>1. Ungotten(s) = [s EXCEPT !.eof = FALSE]
    BY <1>2 DEF Ungotten
  <2>2. Ungotten(s) \in Stream /\ Ungotten(s).pos = s.pos /\ Ungotten(s).fail = s.fail
    BY <1>1, <2>1, SetEof
  <2> QED BY <1>1, <1>2, <2>2 DEF StreamOK
<1>3. CASE ~s.fail
  <2> DEFINE n == s.pos - 1
  <2>1. Ungotten(s) = [s EXCEPT !.eof = FALSE, !.pos = n]
    BY <1>3 DEF Ungotten
  <2>2. n \in 0..Len(input)
    BY <1>1, <1>3
  <2>3. /\ Ungotten(s) \in Stream /\ Ungotten(s).pos = n
        /\ Ungotten(s).eof = FALSE /\ Ungotten(s).fail = s.fail
    <3> HIDE DEF n
    <3> QED BY <1>1, <2>1, <2>2 DEF Stream
  <2> QED BY <1>1, <1>3, <2>3 DEF Stream
<1> QED BY <1>2, <1>3

\* A character that is got and put back leaves the stream as it was; a stream
\* that is over is left with failbit.
LEMMA PutBackIs ==
    ASSUME input \in Seq(Char), NEW s, StreamOK(s)
    PROVE  /\ StreamOK(PutBack(s)) /\ PutBack(s).pos = s.pos
           /\ At(PutBack(s)) = At(s)
           /\ At(s) # EOF => PutBack(s) = s
<1>1. /\ s \in Stream /\ Len(input) \in Nat /\ s.pos \in 0..Len(input)
      /\ StreamOK(Gotten(s)) /\ PutBack(s) = Ungotten(Gotten(s))
      /\ At(s) # EOF => Good(s) /\ More(s)
  BY GottenIs DEF StreamOK, Stream, PutBack
<1>2. CASE Good(s) /\ More(s)
  <2>1. Gotten(s).pos = s.pos + 1 /\ ~Gotten(s).eof /\ ~Gotten(s).fail
    BY <1>2, GottenIs
  <2>2. /\ PutBack(s) \in Stream /\ PutBack(s).pos = s.pos
        /\ ~PutBack(s).eof /\ ~PutBack(s).fail
    BY <1>1, <2>1, UngottenIs
  <2>3. PutBack(s) = s
    BY <1>1, <1>2, <2>2, SameStream DEF Stream, Good
  <2> QED BY <2>3
<1>3. CASE ~(Good(s) /\ More(s))
  <2>1. Gotten(s).pos = s.pos /\ Gotten(s).fail
    BY <1>3, GottenIs
  <2>2. StreamOK(PutBack(s)) /\ PutBack(s).pos = s.pos /\ PutBack(s).fail
    BY <1>1, <2>1, UngottenIs
  <2>3. At(PutBack(s)) = EOF /\ At(s) = EOF
    BY <1>1, <1>3, <2>2 DEF At, Good
  <2> QED BY <1>1, <2>2, <2>3
<1> QED BY <1>2, <1>3

-----------------------------------------------------------------------------
(* What an action does to the invariant.                                   *)

LEMMA HereIs ==
    ASSUME Inv
    PROVE  /\ input \in Seq(Char) /\ StreamOK(m_input) /\ Len(input) \in Nat
           /\ m_input.pos \in 0..Len(input) /\ Here = m_input.pos + 1
           /\ chr \in Char
           /\ chr # EOF => /\ Good(m_input) /\ More(m_input) /\ Seen = m_input
                           /\ chr = input[Here] /\ Here \in 1..Len(input)
           /\ chr = EOF => m_input.pos = Len(input) \/ input[Here] = EOF
<1>1. input \in Seq(Char) /\ StreamOK(m_input) /\ Len(input) \in Nat
      /\ m_input.pos \in 0..Len(input)
  BY DEF Inv, Types, StreamOK, Stream
<1>2. Here = m_input.pos + 1 /\ chr = At(m_input) /\ Seen = Peeked(m_input)
  BY DEF Here, chr, Seen
<1> QED BY <1>1, <1>2, AtIs, PeekedIs

\* No T_EOF was answered when the lexer is at another character, or in a loop
\* of its own.
LEMMA NotOver ==
    ASSUME Inv, \/ Loop /\ chr # EOF
                \/ phase \in {"identifier", "number", "string", "comment"}
    PROVE  NoEof
BY DEF Inv, EofOK, Loop, chr

\* A step that answers no token.
LEMMA GoesOn ==
    ASSUME Inv, NoEof, NEW loop, NEW lexeme \in Seq(LexemeChar), NEW s, StreamOK(s),
           GoOn(loop, lexeme, s), s.pos >= m_input.pos,
           loop \in {"lex", "identifier", "number", "string", "comment"} \cup Ended,
           m_lineno' \in m_lineno..(m_lineno + (s.pos - m_input.pos)),
           \/ warnings' = warnings /\ warnings <= MaxWarnings
           \/ /\ warnings' = warnings + 1 /\ warnings <= MaxWarnings
              /\ warnings' > MaxWarnings => loop = "exit",
           start' \in 0..Len(input),
           loop = "lex" => Skipped(s.pos),
           loop \in {"identifier", "number", "string", "comment"} =>
              start' \in From..(s.pos + 1) /\ Skipped(start' - 1),
           loop = "comment" =>
              /\ start' <= s.pos /\ start' < Len(input)
              /\ input[start'] = "/" /\ input[start' + 1] = "/"
              /\ \A j \in start'..s.pos : input[j] # LF
    PROVE  Inv'
<1>1. /\ phase' = loop /\ m_input' = s /\ m_curr_lexeme' = lexeme
      /\ UNCHANGED <<input, m_consumed, tokens>>
  BY DEF GoOn
<1>2. /\ m_input.pos \in 0..Len(input) /\ s.pos \in 0..Len(input) /\ Len(input) \in Nat
      /\ MaxWarnings \in Nat
  BY HereIs, LexerAssumption DEF StreamOK, Stream
<1>3. Types'
  <2>1. StreamOK(m_input)'
    BY <1>1 DEF StreamOK, Stream
  <2>2. tokens' \in Seq(Answer')
    BY <1>1 DEF Inv, Types, Answer
  <2>3. m_lineno' \in 1..(s.pos + 1)
    <3>1. m_lineno \in 1..(m_input.pos + 1)
      BY DEF Inv, Types
    <3> QED BY <1>2, <3>1
  <2>4. /\ warnings' \in Nat /\ warnings' <= MaxWarnings + 1
        /\ warnings' > MaxWarnings => loop = "exit"
    <3>1. warnings \in Nat
      BY DEF Inv, Types
    <3> QED BY <1>2, <3>1
  <2>5. input' \in Seq(Char) /\ Len(input') <= MaxInput /\ m_consumed' \in BOOLEAN
    BY <1>1 DEF Inv, Types
  <2> QED BY <1>1, <2>1, <2>2, <2>3, <2>4, <2>5 DEF Types
<1>4. EofOK' /\ EofIsSticky' /\ NothingIsLost'
  <2>1. NoEof'
    BY <1>1 DEF NoEof, IsEof
  <2>2. EofIsSticky'
    BY <1>1 DEF Inv, EofIsSticky, IsEof
  <2>3. NothingIsLost'
    BY <1>1 DEF Inv, NothingIsLost, IsEof, InComment
  <2> QED BY <2>1, <2>2, <2>3 DEF EofOK
<1>5. SkippedOK'
  <2>1. From' = From /\ \A p, from : Skips(p, from)' <=> Skips(p, from)
    BY <1>1 DEF From, Skips, InComment
  <2>2. From \in 1..(s.pos + 1)
    <3>1. From \in 1..(m_input.pos + 1)
      BY DEF Inv, SkippedOK
    <3> QED BY <1>2, <3>1
  <2>3. loop # "parser"
    BY DEF Ended
  <2> QED BY <1>1, <2>1, <2>2, <2>3 DEF SkippedOK, Skipped
<1>6. TokensOK'
  <2>1. TokensOK
    BY DEF Inv
  <2> QED BY <1>1, <2>1 DEF TokensOK, From, IsEof
<1> QED BY <1>3, <1>4, <1>5, <1>6 DEF Inv

\* The answer to peek(): a token that begins at `first`.
LEMMA Answers ==
    ASSUME Inv, phase \notin Ended,
           NEW token \in {ID, NUM, STRLIT, T_EOF} \cup Seq(Char),
           NEW first \in 1..(Len(input) + 1), NEW lexeme \in Seq(LexemeChar),
           NEW s, StreamOK(s), s.pos >= m_input.pos,
           Return(token, first, lexeme, s),
           From <= first, Skipped(first - 1), first <= s.pos + 1,
           token = T_EOF => /\ first = s.pos + 1
                            /\ first - 1 = Len(input) \/ input[first] = EOF
    PROVE  /\ Types' /\ SkippedOK' /\ NothingIsLost' /\ TokensOK'
           /\ Len(tokens') = Len(tokens) + 1 /\ DOMAIN tokens' = 1..(Len(tokens) + 1)
           /\ \A k \in DOMAIN tokens : IsEof(k)' <=> IsEof(k)
           /\ tokens'[Len(tokens) + 1].token = token
<1> DEFINE n == Len(tokens)
           answer == [token |-> token, first |-> first, last |-> s.pos,
                      lexeme |-> lexeme, line |-> m_lineno]
<1>1. /\ phase' = "parser" /\ m_consumed' = FALSE /\ m_input' = s
      /\ m_curr_lexeme' = lexeme /\ tokens' = Append(tokens, answer)
      /\ UNCHANGED <<input, m_lineno, warnings, start>>
  BY DEF Return
<1>2. /\ m_input.pos \in 0..Len(input) /\ s.pos \in 0..Len(input) /\ Len(input) \in Nat
      /\ m_lineno \in 1..(s.pos + 1) /\ Len(input) <= MaxInput /\ MaxInput \in Nat
      /\ tokens \in Seq(Answer) /\ n \in Nat /\ DOMAIN tokens = 1..n
  <2>1. /\ m_lineno \in 1..(m_input.pos + 1) /\ Len(input) <= MaxInput
        /\ tokens \in Seq(Answer)
    BY DEF Inv, Types
  <2>2. /\ m_input.pos \in 0..Len(input) /\ s.pos \in 0..Len(input) /\ Len(input) \in Nat
    BY HereIs DEF StreamOK, Stream
  <2> QED BY <2>1, <2>2, LexerAssumption
<1>3. answer \in Answer
  <2>1. m_lineno \in 1..(MaxInput + 1)
    BY <1>2
  <2> QED BY <1>2, <2>1 DEF Answer
<1>4. /\ tokens' \in Seq(Answer) /\ Len(tokens') = n + 1 /\ DOMAIN tokens' = 1..(n + 1)
      /\ \A k \in 1..n : tokens'[k] = tokens[k]
      /\ tokens'[n + 1] = answer
  <2> HIDE DEF answer
  <2> QED BY <1>1, <1>2, <1>3
<1>5. /\ answer.token = token /\ answer.first = first /\ answer.last = s.pos
  OBVIOUS
<1> HIDE DEF answer, n
<1>6. Types'
  <2>1. StreamOK(m_input)'
    BY <1>1 DEF StreamOK, Stream
  <2>2. tokens' \in Seq(Answer')
    BY <1>1, <1>4 DEF Answer
  <2>3. /\ warnings \in Nat /\ warnings <= MaxWarnings + 1 /\ ~(warnings > MaxWarnings)
    BY DEF Inv, Types, Ended
  <2>4. input' \in Seq(Char) /\ Len(input') <= MaxInput /\ start' \in 0..Len(input')
    BY <1>1 DEF Inv, Types
  <2> QED BY <1>1, <1>2, <2>1, <2>2, <2>3, <2>4 DEF Types
<1>0. From' = s.pos + 1
  <2>1. tokens' # <<>>
    BY <1>2, <1>4
  <2> QED BY <1>4, <1>5, <2>1 DEF From
<1>7. SkippedOK'
  <2>2. From' \in 1..(m_input'.pos + 1) /\ From'..m_input'.pos = {}
    BY <1>0, <1>1, <1>2
  <2>3. phase' \in {"parser"}
    BY <1>1
  <2> QED BY <2>2, <2>3 DEF SkippedOK, Skipped
<1>8. \A k \in 1..n : IsEof(k)' <=> IsEof(k)
  BY <1>4 DEF IsEof
<1>9. tokens'[n + 1].token = token
  BY <1>4, <1>5
<1>10. From = IF n + 1 = 1 THEN 1 ELSE tokens'[n].last + 1
  <2>1. tokens = <<>> <=> n = 0
    BY <1>2 DEF n
  <2>2. n # 0 => n \in 1..n
    BY <1>2
  <2>3. n # 0 => From = tokens'[n].last + 1
    BY <1>4, <2>1, <2>2 DEF From, n
  <2>4. n = 0 => From = 1
    BY <2>1 DEF From
  <2> QED BY <1>2, <2>3, <2>4
<1>11. NothingIsLost'
  <2> SUFFICES ASSUME NEW k \in 1..(n + 1)
               PROVE  LET from == IF k = 1 THEN 1 ELSE tokens'[k - 1].last + 1
                          to   == tokens'[k].first - 1
                      IN  /\ from <= to + 1
                          /\ \A p \in from..to : \/ input[p] \in Blanks \cup {LF}
                                                 \/ input[p] \notin Known
                                                 \/ InComment(p, from)
                          /\ IsEof(k)' => to = Len(input) \/ input[to + 1] = EOF
    BY <1>1, <1>4 DEF NothingIsLost, InComment
  <2>1. CASE k = n + 1
    <3>1. /\ k = 1 <=> n + 1 = 1
          /\ k - 1 = n /\ tokens'[k].first = first
          /\ first \in Int /\ (first - 1) + 1 = first
      BY <1>2, <1>4, <1>5, <2>1
    <3>2. From = IF k = 1 THEN 1 ELSE tokens'[k - 1].last + 1
      BY <1>10, <3>1
    <3>3. \A p \in From..(first - 1) : \/ input[p] \in Blanks \cup {LF}
                                       \/ input[p] \notin Known
                                       \/ InComment(p, From)
      BY DEF Skipped, Skips
    <3>4. IsEof(k)' => first - 1 = Len(input) \/ input[first] = EOF
      BY <1>9, <2>1 DEF IsEof
    <3> QED BY <3>1, <3>2, <3>3, <3>4
  <2>2. CASE k \in 1..n
    <3>1. tokens'[k] = tokens[k] /\ (k # 1 => tokens'[k - 1] = tokens[k - 1])
      BY <1>2, <1>4, <2>2
    <3>2. IsEof(k)' <=> IsEof(k)
      BY <1>8, <2>2
    <3> QED BY <1>2, <2>2, <3>1, <3>2 DEF Inv, NothingIsLost, n
  <2> QED BY <1>2, <2>1, <2>2
<1>12. TokensOK'
  <2>1. /\ TokensOK /\ From \in Int /\ first \in Int
        /\ \A k \in 1..n : tokens[k].last \in Int
    <3>1. \A k \in 1..n : tokens[k] \in Answer
      BY <1>2
    <3>2. From \in 1..(m_input.pos + 1)
      BY DEF Inv, SkippedOK
    <3>3. \A k \in 1..n : tokens[k].last \in 0..Len(input)
      BY <3>1 DEF Answer
    <3> QED BY <1>2, <3>2, <3>3 DEF Inv
  <2> SUFFICES ASSUME NEW k \in 1..(n + 1)
               PROVE  /\ tokens'[k].first <= tokens'[k].last + 1
                      /\ tokens'[k].last < From'
                      /\ tokens'[k].token = T_EOF =>
                            tokens'[k].first = tokens'[k].last + 1
    BY <1>4 DEF TokensOK, IsEof
  <2>2. CASE k = n + 1
    BY <1>0, <1>2, <1>4, <1>5, <2>2
  <2>3. CASE k \in 1..n
    <3>1. /\ tokens[k].first <= tokens[k].last + 1 /\ tokens[k].last < From
          /\ tokens[k].token = T_EOF => tokens[k].first = tokens[k].last + 1
      BY <1>2, <2>1, <2>3 DEF TokensOK, IsEof
    <3>2. tokens'[k] = tokens[k] /\ tokens[k].last \in Int
      BY <1>4, <2>1, <2>3
    <3> QED BY <1>0, <1>2, <2>1, <3>1, <3>2
  <2> QED BY <1>2, <2>2, <2>3
<1> QED BY <1>2, <1>4, <1>6, <1>7, <1>8, <1>9, <1>11, <1>12 DEF n

LEMMA AnswersToken ==
    ASSUME Inv, NoEof, phase \notin Ended,
           NEW token \in {ID, NUM, STRLIT} \cup Seq(Char), token # T_EOF,
           NEW first \in 1..(Len(input) + 1), NEW lexeme \in Seq(LexemeChar),
           NEW s, StreamOK(s), s.pos >= m_input.pos,
           Return(token, first, lexeme, s),
           From <= first, Skipped(first - 1), first <= s.pos + 1
    PROVE  Inv'
<1>1. /\ Types' /\ SkippedOK' /\ NothingIsLost' /\ TokensOK'
      /\ DOMAIN tokens' = 1..(Len(tokens) + 1)
      /\ \A k \in DOMAIN tokens : IsEof(k)' <=> IsEof(k)
      /\ tokens'[Len(tokens) + 1].token # T_EOF
  <2>1. token \in {ID, NUM, STRLIT, T_EOF} \cup Seq(Char)
    OBVIOUS
  <2>2. token = T_EOF => /\ first = s.pos + 1
                         /\ first - 1 = Len(input) \/ input[first] = EOF
    OBVIOUS
  <2>3. tokens'[Len(tokens) + 1].token = token
    BY <2>1, <2>2, Answers
  <2> QED BY <2>1, <2>2, <2>3, Answers
<1>2. Len(tokens) \in Nat /\ DOMAIN tokens = 1..Len(tokens)
  BY DEF Inv, Types
<1>3. \A k \in 1..(Len(tokens) + 1) : ~IsEof(k)'
  <2> SUFFICES ASSUME NEW k \in 1..(Len(tokens) + 1) PROVE ~IsEof(k)'
    OBVIOUS
  <2>1. CASE k = Len(tokens) + 1
    BY <1>1, <2>1 DEF IsEof
  <2>2. CASE k \in 1..Len(tokens)
    BY <1>1, <1>2, <2>2 DEF NoEof
  <2> QED BY <1>2, <2>1, <2>2
<1>4. NoEof' /\ EofIsSticky'
  BY <1>1, <1>3 DEF NoEof, EofIsSticky
<1> QED BY <1>1, <1>4 DEF Inv, EofOK

LEMMA AnswersEof ==
    ASSUME Inv, phase = "lex", NEW lexeme \in Seq(LexemeChar),
           NEW s, StreamOK(s), s.pos = m_input.pos,
           Return(T_EOF, Here, lexeme, s), s.eof \/ At(s) = EOF,
           m_input.pos = Len(input) \/ input[Here] = EOF
    PROVE  Inv'
<1>1. /\ phase' = "parser" /\ m_input' = s /\ input' = input
  BY DEF Return
<1>2. /\ Here \in 1..(Len(input) + 1) /\ Here - 1 = m_input.pos /\ From <= Here
      /\ Here = s.pos + 1 /\ Here <= s.pos + 1 /\ s.pos >= m_input.pos /\ Skipped(Here - 1) /\ phase \notin Ended
  <2>1. m_input.pos \in 0..Len(input) /\ Len(input) \in Nat /\ Here = m_input.pos + 1
    BY HereIs
  <2>2. From \in 1..(m_input.pos + 1) /\ Skipped(m_input.pos)
    BY DEF Inv, SkippedOK
  <2>3. Here \in 1..(Len(input) + 1) /\ Here - 1 = m_input.pos
    BY <2>1
  <2> QED BY <2>1, <2>2, <2>3 DEF Ended
<1>3. /\ Types' /\ SkippedOK' /\ NothingIsLost' /\ TokensOK'
      /\ DOMAIN tokens' = 1..(Len(tokens) + 1)
      /\ \A k \in DOMAIN tokens : IsEof(k)' <=> IsEof(k)
      /\ tokens'[Len(tokens) + 1].token = T_EOF
  BY <1>2, Answers
<1>4. Len(tokens) \in Nat /\ DOMAIN tokens = 1..Len(tokens)
  BY DEF Inv, Types
<1>5. EofIsSticky'
  <2>1. \A j, k \in 1..Len(tokens) : j < k /\ IsEof(j) => IsEof(k)
    BY <1>4 DEF Inv, EofIsSticky
  <2> SUFFICES ASSUME NEW j \in 1..(Len(tokens) + 1), NEW k \in 1..(Len(tokens) + 1),
                      j < k, IsEof(j)'
               PROVE  IsEof(k)'
    BY <1>3 DEF EofIsSticky
  <2>2. CASE k = Len(tokens) + 1
    BY <1>3, <2>2 DEF IsEof
  <2>3. CASE k \in 1..Len(tokens)
    <3>1. j \in 1..Len(tokens)
      BY <1>4, <2>3
    <3> QED BY <1>3, <1>4, <2>1, <2>3, <3>1
  <2> QED BY <1>4, <2>2, <2>3
<1>6. EofOK'
  <2>1. m_input'.eof \/ At(m_input)' = EOF
    BY <1>1 DEF At, Good, More
  <2> QED BY <1>1, <2>1 DEF EofOK
<1> QED BY <1>3, <1>5, <1>6 DEF Inv

\* The stream where the character is not EOF, and where any character is taken.
LEMMA Taken ==
    ASSUME Inv
    PROVE  /\ chr # EOF => /\ Seen = m_input /\ NotSpecial = m_input
                           /\ NotOperator = m_input
                           /\ Gotten(m_input).pos = Here /\ Good(Gotten(m_input))
           /\ StreamOK(Seen) /\ Seen.pos = m_input.pos /\ At(Seen) = chr
           /\ StreamOK(Gotten(m_input)) /\ Gotten(m_input).pos >= m_input.pos
           /\ StreamOK(Gotten(Seen)) /\ Gotten(Seen).pos >= m_input.pos
           /\ StreamOK(NotOperator) /\ NotOperator.pos = m_input.pos
           /\ At(NotOperator) = chr
<1>1. /\ input \in Seq(Char) /\ StreamOK(m_input) /\ m_input.pos \in 0..Len(input)
      /\ Here = m_input.pos + 1 /\ chr = At(m_input) /\ Seen = Peeked(m_input)
      /\ NotSpecial = PutBack(Seen) /\ NotOperator = PutBack(NotSpecial)
      /\ Len(input) \in Nat
  BY HereIs DEF Here, chr, Seen, NotSpecial, NotOperator
<1>2. StreamOK(Seen) /\ Seen.pos = m_input.pos /\ At(Seen) = chr
      /\ (chr # EOF => Seen = m_input)
  BY <1>1, PeekedIs
<1>3. StreamOK(NotSpecial) /\ NotSpecial.pos = m_input.pos /\ At(NotSpecial) = chr
      /\ (chr # EOF => NotSpecial = m_input)
  BY <1>1, <1>2, PutBackIs
<1>4. StreamOK(NotOperator) /\ NotOperator.pos = m_input.pos /\ At(NotOperator) = chr
      /\ (chr # EOF => NotOperator = m_input)
  BY <1>1, <1>3, PutBackIs
<1>5. StreamOK(Gotten(m_input)) /\ Gotten(m_input).pos \in {m_input.pos, m_input.pos + 1}
      /\ StreamOK(Gotten(Seen)) /\ Gotten(Seen).pos \in {m_input.pos, m_input.pos + 1}
  BY <1>1, <1>2, GottenIs
<1>6. chr # EOF => Gotten(m_input).pos = Here /\ Good(Gotten(m_input))
  BY <1>1, GottenIs DEF Good
<1> QED BY <1>1, <1>2, <1>3, <1>4, <1>5, <1>6

LEMMA InLoop ==
    ASSUME Inv, phase # "exit"
    PROVE  /\ warnings \in Nat /\ warnings <= MaxWarnings /\ start \in 0..Len(input)
           /\ m_lineno \in Nat /\ From \in 1..(m_input.pos + 1)
           /\ m_curr_lexeme \in Seq(LexemeChar) /\ chr \in LexemeChar
           /\ <<>> \in Seq(LexemeChar) /\ Pushed \in Seq(LexemeChar)
<1>1. /\ warnings \in Nat /\ warnings <= MaxWarnings /\ start \in 0..Len(input)
      /\ m_curr_lexeme \in Seq(LexemeChar)
  <2>1. MaxWarnings \in Nat
    BY LexerAssumption
  <2> QED BY <2>1 DEF Inv, Types
<1>2. m_lineno \in 1..(m_input.pos + 1) /\ From \in 1..(m_input.pos + 1)
  BY DEF Inv, Types, SkippedOK
<1>3. chr \in LexemeChar
  BY HereIs, CharsAre
<1> QED BY <1>1, <1>2, <1>3 DEF Pushed

\* One more character is skipped.
LEMMA SkipsOne ==
    ASSUME Inv, phase = "lex", chr # EOF, chr \in Blanks \cup {LF} \/ chr \notin Known
    PROVE  Skipped(Here)
<1>1. /\ m_input.pos \in 0..Len(input) /\ Here = m_input.pos + 1 /\ chr = input[Here]
      /\ From \in 1..(m_input.pos + 1) /\ Len(input) \in Nat
  BY HereIs, InLoop
<1>2. Skipped(m_input.pos)
  BY DEF Inv, SkippedOK
<1>3. Skips(Here, From)
  BY <1>1 DEF Skips
<1> QED BY <1>1, <1>2, <1>3 DEF Skipped

-----------------------------------------------------------------------------
(* The actions.                                                            *)

LEMMA ParserStep ==
    ASSUME Inv, Peek \/ Consume \/ UNCHANGED vars
    PROVE  Inv'
<1>1. /\ phase' = phase \/ (phase = "parser" /\ phase' = "lex")
      /\ m_consumed' \in {m_consumed, TRUE}
      /\ UNCHANGED <<input, m_input, m_curr_lexeme, m_lineno, warnings, start, tokens>>
  BY DEF Peek, Consume, vars
<1>2. Types'
  <2>1. StreamOK(m_input)' /\ Answer' = Answer
    BY <1>1 DEF Inv, Types, StreamOK, Stream, Answer
  <2>2. phase' \in {"parser", "lex", "identifier", "number", "string", "comment"} \cup Ended
        /\ (warnings > MaxWarnings => phase' = "exit") /\ m_consumed' \in BOOLEAN
    BY <1>1 DEF Inv, Types
  <2> QED BY <1>1, <2>1, <2>2 DEF Inv, Types
<1>3. EofOK'
  <2>1. NoEof' <=> NoEof
    BY <1>1 DEF NoEof, IsEof
  <2>2. At(m_input)' = At(m_input)
    BY <1>1 DEF At, Good, More
  <2> QED BY <1>1, <2>1, <2>2 DEF Inv, EofOK
<1>4. EofIsSticky' /\ NothingIsLost'
  BY <1>1 DEF Inv, EofIsSticky, NothingIsLost, IsEof, InComment
<1>5. SkippedOK'
  <2>1. From' = From /\ \A p, from : Skips(p, from)' <=> Skips(p, from)
    BY <1>1 DEF From, Skips, InComment
  <2> QED BY <1>1, <2>1 DEF Inv, SkippedOK, Skipped
<1>6. TokensOK'
  BY <1>1 DEF Inv, TokensOK, From, IsEof
<1> QED BY <1>2, <1>3, <1>4, <1>5, <1>6 DEF Inv

LEMMA EndOfLoopStep ==
    ASSUME Inv, EndOfLoop
    PROVE  Inv'
<1>1. phase = "lex" /\ m_input.eof /\ Return(T_EOF, Here, m_curr_lexeme, m_input)
  BY DEF EndOfLoop
<1>2. StreamOK(m_input) /\ m_input.pos = Len(input) /\ m_input.pos \in 0..Len(input)
  BY <1>1, HereIs DEF StreamOK
<1>3. m_curr_lexeme \in Seq(LexemeChar)
  BY <1>1, InLoop
<1> QED BY <1>1, <1>2, <1>3, AnswersEof

\* lex() takes a character that belongs to no token.
LEMMA SkipsChar ==
    ASSUME Inv, Loop, chr # EOF, chr \in Blanks \cup {LF} \/ chr \notin Known,
           NEW loop, loop \in {"lex"} \cup Ended, GoOn(loop, <<>>, Gotten(m_input)),
           m_lineno' \in {m_lineno, m_lineno + 1}, start' = start,
           \/ warnings' = warnings
           \/ warnings' = warnings + 1 /\ (warnings' > MaxWarnings => loop = "exit")
    PROVE  Inv'
<1> DEFINE s == Gotten(m_input)
<1>1. phase = "lex" /\ phase # "exit"
  BY DEF Loop
<1>2. s.pos = Here /\ StreamOK(s) /\ s.pos >= m_input.pos
  BY Taken
<1>3. Here = m_input.pos + 1 /\ m_input.pos \in Nat
  BY HereIs
<1>4. NoEof
  BY NotOver
<1>5. Skipped(s.pos)
  BY <1>1, <1>2, SkipsOne
<1>6. m_lineno' \in m_lineno..(m_lineno + (s.pos - m_input.pos))
  BY <1>1, <1>2, <1>3, InLoop
<1>7. loop \in {"lex", "identifier", "number", "string", "comment"} \cup Ended
  OBVIOUS
<1>8. loop \notin {"identifier", "number", "string", "comment"}
  BY DEF Ended
<1>9. start' \in 0..Len(input) /\ <<>> \in Seq(LexemeChar) /\ warnings <= MaxWarnings
  BY <1>1, InLoop
<1>10. GoOn(loop, <<>>, s)
  OBVIOUS
<1> HIDE DEF s
<1> QED BY <1>2, <1>4, <1>5, <1>6, <1>7, <1>8, <1>9, <1>10, GoesOn

LEMMA NewLineStep ==
    ASSUME Inv, NewLine
    PROVE  Inv'
<1>1. /\ Loop /\ chr = LF /\ m_lineno' = m_lineno + 1
      /\ GoOn("lex", <<>>, Gotten(Seen)) /\ warnings' = warnings /\ start' = start
  BY DEF NewLine
<1>2. chr # EOF
  BY <1>1, CharsAre
<1>3. GoOn("lex", <<>>, Gotten(m_input))
  BY <1>1, <1>2, Taken
<1> QED BY <1>1, <1>2, <1>3, SkipsChar

LEMMA SpaceStep ==
    ASSUME Inv, Space
    PROVE  Inv'
<1>1. /\ Loop /\ chr \in Blanks /\ GoOn("lex", <<>>, Gotten(Seen))
      /\ m_lineno' = m_lineno /\ warnings' = warnings /\ start' = start
  BY DEF Space
<1>2. chr # EOF
  BY <1>1, CharsAre
<1>3. GoOn("lex", <<>>, Gotten(m_input))
  BY <1>1, <1>2, Taken
<1> QED BY <1>1, <1>2, <1>3, SkipsChar

LEMMA UnknownCharStep ==
    ASSUME Inv, UnknownChar
    PROVE  Inv'
<1> DEFINE loop == WarnedOr("lex")
<1>1. /\ Loop /\ chr \notin Known /\ warnings' = warnings + 1
      /\ GoOn(loop, <<>>, Gotten(NotOperator)) /\ m_lineno' = m_lineno /\ start' = start
  BY DEF UnknownChar, Warn
<1>2. chr # EOF
  BY <1>1, CharsAre
<1>3. GoOn(loop, <<>>, Gotten(m_input))
  BY <1>1, <1>2, Taken
<1>4. loop \in {"lex"} \cup Ended /\ (warnings' > MaxWarnings => loop = "exit")
  BY DEF WarnedOr, Ended
<1> HIDE DEF loop
<1> QED BY <1>1, <1>2, <1>3, <1>4, SkipsChar

\* lex() begins a token that a loop of its own reads.
LEMMA StartsToken ==
    ASSUME Inv, chr # EOF, NEW loop, loop \in {"identifier", "number", "string"},
           NEW lexeme \in Seq(LexemeChar), NEW s, StreamOK(s), s.pos >= m_input.pos,
           StartToken(loop, lexeme, s)
    PROVE  Inv'
<1>1. /\ Loop /\ start' = Here /\ GoOn(loop, lexeme, s)
      /\ m_lineno' = m_lineno /\ warnings' = warnings
  BY DEF StartToken
<1>2. phase = "lex" /\ phase # "exit"
  BY <1>1 DEF Loop
<1>3. /\ Here = m_input.pos + 1 /\ m_input.pos \in Nat /\ Here \in 1..Len(input)
      /\ From \in 1..(m_input.pos + 1) /\ s.pos \in Nat /\ m_lineno \in Nat
  BY <1>2, HereIs, InLoop DEF StreamOK, Stream
<1>4. NoEof
  BY <1>1, NotOver
<1>5. Skipped(m_input.pos) /\ start' - 1 = m_input.pos
  BY <1>1, <1>2, <1>3 DEF Inv, SkippedOK
<1>6. /\ start' \in 0..Len(input) /\ start' \in From..(s.pos + 1)
      /\ m_lineno' \in m_lineno..(m_lineno + (s.pos - m_input.pos))
  BY <1>1, <1>3
<1>7. warnings <= MaxWarnings
  BY <1>2, InLoop
<1>8. /\ loop \in {"lex", "identifier", "number", "string", "comment"} \cup Ended
      /\ loop # "lex" /\ loop # "comment"
  BY DEF Ended
<1> QED BY <1>1, <1>4, <1>5, <1>6, <1>7, <1>8, GoesOn

LEMMA StartIdentifierStep ==
    ASSUME Inv, StartIdentifier
    PROVE  Inv'
<1>1. chr \in Letters /\ StartToken("identifier", <<chr>>, Gotten(Seen))
  BY DEF StartIdentifier
<1>2. chr # EOF
  BY <1>1, CharsAre
<1>3. <<chr>> \in Seq(LexemeChar)
  <2>1. chr \in LexemeChar
    BY HereIs, CharsAre
  <2> QED BY <2>1
<1>4. StreamOK(Gotten(Seen)) /\ Gotten(Seen).pos >= m_input.pos
  BY Taken
<1> QED BY <1>1, <1>2, <1>3, <1>4, StartsToken

LEMMA StartNumberStep ==
    ASSUME Inv, StartNumber
    PROVE  Inv'
<1>1. chr \in Digits /\ StartToken("number", <<>>, Seen)
  BY DEF StartNumber
<1>2. chr # EOF
  BY <1>1, CharsAre
<1>3. <<>> \in Seq(LexemeChar)
  OBVIOUS
<1>4. StreamOK(Seen) /\ Seen.pos >= m_input.pos
  BY Taken, HereIs
<1> QED BY <1>1, <1>2, <1>3, <1>4, StartsToken

LEMMA StartStringStep ==
    ASSUME Inv, StartString
    PROVE  Inv'
<1>1. chr = QUOTE /\ StartToken("string", <<>>, Gotten(Seen))
  BY DEF StartString
<1>2. chr # EOF
  BY <1>1, CharsAre
<1>3. <<>> \in Seq(LexemeChar)
  OBVIOUS
<1>4. StreamOK(Gotten(Seen)) /\ Gotten(Seen).pos >= m_input.pos
  BY Taken
<1> QED BY <1>1, <1>2, <1>3, <1>4, StartsToken

LEMMA StartCommentStep ==
    ASSUME Inv, StartComment
    PROVE  Inv'
<1>1. /\ chr = "/" /\ At(Slash) = "/" /\ Loop /\ start' = Here
      /\ GoOn("comment", <<>>, Peeked(Slash))
      /\ m_lineno' = m_lineno /\ warnings' = warnings
  BY DEF StartComment, StartToken
<1>2. chr # EOF /\ At(Slash) # EOF /\ phase = "lex" /\ phase # "exit" /\ "/" # LF
  BY <1>1, CharsAre DEF Loop, LF
<1>3. Slash = Gotten(m_input) /\ Slash.pos = Here /\ StreamOK(Slash)
  BY <1>2, Taken DEF Slash
<1>4. /\ Here = m_input.pos + 1 /\ m_input.pos \in Nat /\ Here \in 1..Len(input)
      /\ input[Here] = "/" /\ input \in Seq(Char)
      /\ From \in 1..(m_input.pos + 1) /\ m_lineno \in Nat
  BY <1>1, <1>2, HereIs, InLoop
<1>5. Peeked(Slash) = Slash
  BY <1>2, <1>3, <1>4, PeekedIs
<1>6. input[Here + 1] = "/" /\ Here < Len(input)
  <2>1. At(Slash) = input[Slash.pos + 1] /\ Slash.pos + 1 \in 1..Len(input)
    BY <1>2, <1>3, <1>4, AtIs
  <2> QED BY <1>1, <1>3, <1>4, <2>1
<1>7. NoEof
  BY <1>1, <1>2, NotOver
<1>8. Skipped(m_input.pos) /\ start' - 1 = m_input.pos
  BY <1>1, <1>2, <1>4 DEF Inv, SkippedOK
<1>9. /\ start' \in 0..Len(input) /\ start' \in From..(Slash.pos + 1)
      /\ m_lineno' \in m_lineno..(m_lineno + (Slash.pos - m_input.pos))
      /\ Slash.pos >= m_input.pos /\ start' <= Slash.pos
      /\ \A j \in start'..Slash.pos : input[j] # LF
  BY <1>1, <1>2, <1>3, <1>4
<1>10. <<>> \in Seq(LexemeChar) /\ warnings <= MaxWarnings
  BY <1>2, InLoop
<1> QED BY <1>1, <1>3, <1>4, <1>5, <1>6, <1>7, <1>8, <1>9, <1>10, GoesOn

\* lex() answers a token of one or two characters.
LEMMA AnswersHere ==
    ASSUME Inv, Loop, chr # EOF, NEW token \in Seq(Char), token # T_EOF,
           NEW s, StreamOK(s), s.pos >= m_input.pos, Return(token, Here, <<>>, s)
    PROVE  Inv'
<1>1. phase = "lex" /\ phase # "exit" /\ phase \notin Ended
  BY DEF Loop, Ended
<1>2. /\ Here = m_input.pos + 1 /\ m_input.pos \in Nat /\ Here \in 1..Len(input)
      /\ From \in 1..(m_input.pos + 1) /\ Len(input) \in Nat
  BY <1>1, HereIs, InLoop
<1>3. NoEof
  BY NotOver
<1>4. Skipped(m_input.pos)
  BY <1>1 DEF Inv, SkippedOK
<1>5. /\ Here - 1 = m_input.pos /\ From <= Here /\ Here \in 1..(Len(input) + 1)
      /\ Here <= s.pos + 1
  <2>1. s.pos \in Nat
    BY DEF StreamOK, Stream
  <2> QED BY <1>2, <2>1
<1>6. <<>> \in Seq(LexemeChar) /\ token \in {ID, NUM, STRLIT} \cup Seq(Char)
  OBVIOUS
<1> QED BY <1>1, <1>3, <1>4, <1>5, <1>6, AnswersToken

LEMMA DivideStep ==
    ASSUME Inv, Divide
    PROVE  Inv'
<1> DEFINE s == Gotten(Ungotten(Peeked(Slash)))
<1>1. Loop /\ chr = "/" /\ Return(<<"/">>, Here, <<>>, s)
  BY DEF Divide
<1>2. chr # EOF
  BY <1>1, CharsAre
<1>3. <<"/">> \in Seq(Char) /\ <<"/">> # T_EOF
  BY CharsAre, TokensAre
<1>4. /\ Slash.pos = Here /\ StreamOK(Slash) /\ Good(Slash) /\ input \in Seq(Char)
      /\ Here = m_input.pos + 1 /\ m_input.pos \in 0..Len(input) /\ Len(input) \in Nat
  BY <1>2, Taken, HereIs DEF Slash
<1>5. StreamOK(Peeked(Slash)) /\ Peeked(Slash).pos = Here /\ ~Peeked(Slash).fail
  BY <1>4, PeekedIs
<1>6. /\ Ungotten(Peeked(Slash)) \in Stream /\ Ungotten(Peeked(Slash)).pos = m_input.pos
      /\ ~Ungotten(Peeked(Slash)).eof /\ ~Ungotten(Peeked(Slash)).fail
  <2>1. Here > 0 /\ Here - 1 = m_input.pos
    BY <1>4
  <2> QED BY <1>4, <1>5, <2>1, UngottenIs
<1>7. StreamOK(s) /\ s.pos \in {m_input.pos, m_input.pos + 1}
  <2>1. StreamOK(Ungotten(Peeked(Slash)))
    BY <1>6 DEF StreamOK
  <2> QED BY <1>4, <1>6, <2>1, GottenIs
<1>8. s.pos >= m_input.pos
  BY <1>4, <1>7
<1> HIDE DEF s
<1> QED BY <1>1, <1>2, <1>3, <1>7, <1>8, AnswersHere

LEMMA IsSpecialStep ==
    ASSUME Inv, IsSpecial
    PROVE  Inv'
<1>1. Loop /\ chr \in Special /\ Return(<<chr>>, Here, <<>>, Gotten(Seen))
  BY DEF IsSpecial
<1>2. chr # EOF
  BY <1>1, CharsAre
<1>3. <<chr>> \in Seq(Char) /\ <<chr>> # T_EOF
  BY <1>1, TokensAre
<1>4. StreamOK(Gotten(Seen)) /\ Gotten(Seen).pos >= m_input.pos
  BY Taken
<1> QED BY <1>1, <1>2, <1>3, <1>4, AnswersHere

\* The stream after the first character of an operator.
LEMMA RestIs ==
    ASSUME Inv, chr # EOF
    PROVE  /\ StreamOK(Rest) /\ Rest.pos >= m_input.pos /\ At(Rest) \in Char
           /\ StreamOK(Peeked(Rest)) /\ Peeked(Rest).pos >= m_input.pos
           /\ StreamOK(Gotten(Peeked(Rest))) /\ Gotten(Peeked(Rest)).pos >= m_input.pos
           /\ StreamOK(LookedAhead) /\ LookedAhead.pos >= m_input.pos
<1>1. /\ Rest = Gotten(m_input) /\ StreamOK(Rest) /\ Rest.pos >= m_input.pos
      /\ input \in Seq(Char) /\ m_input.pos \in Nat
  BY Taken, HereIs DEF Rest
<1>2. At(Rest) \in Char /\ StreamOK(Peeked(Rest)) /\ Peeked(Rest).pos = Rest.pos
  BY <1>1, AtIs, PeekedIs
<1>3. /\ StreamOK(Gotten(Peeked(Rest)))
      /\ Gotten(Peeked(Rest)).pos \in {Rest.pos, Rest.pos + 1}
  BY <1>1, <1>2, GottenIs
<1>4. Rest.pos \in Nat
  BY <1>1 DEF StreamOK, Stream
<1>5. StreamOK(Peeked(Peeked(Rest))) /\ Peeked(Peeked(Rest)).pos = Rest.pos
  BY <1>1, <1>2, PeekedIs
<1>6. StreamOK(LookedAhead) /\ LookedAhead.pos = Rest.pos
  BY <1>1, <1>2, <1>5 DEF LookedAhead
<1> QED BY <1>1, <1>2, <1>3, <1>4, <1>6

LEMMA TwoCharOperatorStep ==
    ASSUME Inv, TwoCharOperator
    PROVE  Inv'
<1>1. /\ Loop /\ chr \in DOMAIN Second
      /\ Return(<<chr, At(Rest)>>, Here, <<>>, Gotten(Peeked(Rest)))
  BY DEF TwoCharOperator
<1>2. chr # EOF
  BY <1>1, CharsAre
<1>3. <<chr, At(Rest)>> \in Seq(Char) /\ <<chr, At(Rest)>> # T_EOF
  <2>1. chr \in Char /\ At(Rest) \in Char
    BY <1>2, RestIs, HereIs
  <2> QED BY <2>1, TokensAre
<1>4. StreamOK(Gotten(Peeked(Rest))) /\ Gotten(Peeked(Rest)).pos >= m_input.pos
  BY <1>2, RestIs
<1> QED BY <1>1, <1>2, <1>3, <1>4, AnswersHere

LEMMA OneCharOperatorStep ==
    ASSUME Inv, OneCharOperator
    PROVE  Inv'
<1> DEFINE s == LookedAhead
<1>1. Loop /\ chr \in DOMAIN Second /\ Return(<<chr>>, Here, <<>>, s)
  BY DEF OneCharOperator
<1>2. chr # EOF
  BY <1>1, CharsAre
<1>3. <<chr>> \in Seq(Char) /\ <<chr>> # T_EOF
  BY <1>1, TokensAre
<1>4. StreamOK(s) /\ s.pos >= m_input.pos
  BY <1>2, RestIs
<1> HIDE DEF s
<1> QED BY <1>1, <1>2, <1>3, <1>4, AnswersHere

LEMMA EndOfFileStep ==
    ASSUME Inv, EndOfFile
    PROVE  Inv'
<1>1. phase = "lex" /\ chr = EOF /\ Return(T_EOF, Here, <<>>, NotOperator)
  BY DEF EndOfFile, Loop
<1>2. /\ StreamOK(NotOperator) /\ NotOperator.pos = m_input.pos
      /\ At(NotOperator) = EOF
  BY <1>1, Taken
<1>3. m_input.pos = Len(input) \/ input[Here] = EOF
  BY <1>1, HereIs
<1>4. <<>> \in Seq(LexemeChar)
  OBVIOUS
<1> QED BY <1>1, <1>2, <1>3, <1>4, AnswersEof

\* A loop of its own answers the token that began at `start`.
LEMMA AnswersStarted ==
    ASSUME Inv, phase \in {"identifier", "number", "string"},
           NEW token \in {ID, NUM, STRLIT} \cup Seq(Char), token # T_EOF,
           NEW lexeme \in Seq(LexemeChar), NEW s, StreamOK(s), s.pos >= m_input.pos,
           Return(token, start, lexeme, s)
    PROVE  Inv'
<1>1. phase # "exit" /\ phase \notin Ended
  BY DEF Ended
<1>2. /\ start \in From..(m_input.pos + 1) /\ Skipped(start - 1)
      /\ From \in 1..(m_input.pos + 1) /\ m_input.pos \in 0..Len(input)
      /\ Len(input) \in Nat
  BY HereIs DEF Inv, SkippedOK
<1>3. start \in 1..(Len(input) + 1) /\ From <= start /\ start <= s.pos + 1
  <2>1. s.pos \in Nat
    BY DEF StreamOK, Stream
  <2> QED BY <1>2, <2>1
<1>4. NoEof
  BY NotOver
<1> QED BY <1>1, <1>2, <1>3, <1>4, AnswersToken

\* A loop of its own goes on with what began at `start`.
LEMMA GoesOnStarted ==
    ASSUME Inv, phase \in {"identifier", "number", "string"},
           NEW loop, loop \in {phase} \cup Ended,
           NEW lexeme \in Seq(LexemeChar), NEW s, StreamOK(s), s.pos >= m_input.pos,
           GoOn(loop, lexeme, s), m_lineno' = m_lineno, start' = start,
           \/ warnings' = warnings
           \/ warnings' = warnings + 1 /\ (warnings' > MaxWarnings => loop = "exit")
    PROVE  Inv'
<1>1. phase # "exit" /\ phase # "lex" /\ phase # "comment"
  OBVIOUS
<1>2. /\ start \in From..(m_input.pos + 1) /\ Skipped(start - 1)
      /\ From \in 1..(m_input.pos + 1) /\ m_input.pos \in 0..Len(input)
      /\ s.pos \in 0..Len(input) /\ Len(input) \in Nat
  BY HereIs DEF Inv, SkippedOK, StreamOK, Stream
<1>3. /\ start' \in 0..Len(input) /\ m_lineno \in Nat /\ warnings <= MaxWarnings
  BY <1>1, InLoop
<1>4. /\ start' \in From..(s.pos + 1) /\ Skipped(start' - 1)
      /\ m_lineno' \in m_lineno..(m_lineno + (s.pos - m_input.pos))
  BY <1>2, <1>3
<1>5. NoEof
  BY NotOver
<1>6. /\ loop \in {"lex", "identifier", "number", "string", "comment"} \cup Ended
      /\ loop # "lex" /\ loop # "comment"
  BY DEF Ended
<1> QED BY <1>3, <1>4, <1>5, <1>6, GoesOn

LEMMA WordCharStep ==
    ASSUME Inv, WordChar
    PROVE  Inv'
<1>1. /\ phase \in {"identifier", "number"} /\ GoOn(phase, Pushed, Gotten(Seen))
      /\ m_lineno' = m_lineno /\ warnings' = warnings /\ start' = start
  BY DEF WordChar, Word
<1>2. Pushed \in Seq(LexemeChar)
  BY <1>1, InLoop
<1>3. StreamOK(Gotten(Seen)) /\ Gotten(Seen).pos >= m_input.pos
  BY Taken
<1> QED BY <1>1, <1>2, <1>3, GoesOnStarted

LEMMA EndOfIdentifierStep ==
    ASSUME Inv, EndOfIdentifier
    PROVE  Inv'
<1>1. /\ phase = "identifier"
      /\ \/ m_curr_lexeme \in Reserved /\ Return(m_curr_lexeme, start, <<>>, Seen)
         \/ Return(ID, start, m_curr_lexeme, Seen)
  BY DEF EndOfIdentifier
<1>2. StreamOK(Seen) /\ Seen.pos >= m_input.pos
  BY Taken, HereIs
<1>3. CASE m_curr_lexeme \in Reserved /\ Return(m_curr_lexeme, start, <<>>, Seen)
  <2>1. m_curr_lexeme \in Seq(Char) /\ m_curr_lexeme # T_EOF
    BY <1>3, TokensAre
  <2>2. <<>> \in Seq(LexemeChar)
    OBVIOUS
  <2> QED BY <1>1, <1>2, <1>3, <2>1, <2>2, AnswersStarted
<1>4. CASE Return(ID, start, m_curr_lexeme, Seen)
  <2>1. ID # T_EOF /\ m_curr_lexeme \in Seq(LexemeChar)
    BY <1>1, TokensAre, InLoop
  <2> QED BY <1>1, <1>2, <1>4, <2>1, AnswersStarted
<1> QED BY <1>1, <1>3, <1>4

LEMMA EndOfNumberStep ==
    ASSUME Inv, EndOfNumber
    PROVE  Inv'
<1>1. phase = "number" /\ Return(NUM, start, m_curr_lexeme, Seen)
  BY DEF EndOfNumber
<1>2. StreamOK(Seen) /\ Seen.pos >= m_input.pos
  BY Taken, HereIs
<1>3. NUM # T_EOF /\ m_curr_lexeme \in Seq(LexemeChar)
  BY <1>1, TokensAre, InLoop
<1> QED BY <1>1, <1>2, <1>3, AnswersStarted

LEMMA EndOfStringStep ==
    ASSUME Inv, EndOfString
    PROVE  Inv'
<1>1. phase = "string" /\ Return(STRLIT, start, m_curr_lexeme, Gotten(m_input))
  BY DEF EndOfString
<1>2. StreamOK(Gotten(m_input)) /\ Gotten(m_input).pos >= m_input.pos
  BY Taken
<1>3. STRLIT # T_EOF /\ m_curr_lexeme \in Seq(LexemeChar)
  BY <1>1, TokensAre, InLoop
<1> QED BY <1>1, <1>2, <1>3, AnswersStarted

\* The stream after a backslash and another character.
LEMMA EscapedIs ==
    ASSUME Inv
    PROVE  /\ StreamOK(Gotten(Gotten(m_input)))
           /\ Gotten(Gotten(m_input)).pos >= m_input.pos
<1>1. /\ StreamOK(Gotten(m_input)) /\ Gotten(m_input).pos >= m_input.pos
      /\ input \in Seq(Char) /\ m_input.pos \in Nat
  BY Taken, HereIs
<1>2. /\ StreamOK(Gotten(Gotten(m_input)))
      /\ Gotten(Gotten(m_input)).pos \in {Gotten(m_input).pos, Gotten(m_input).pos + 1}
  BY <1>1, GottenIs
<1>3. Gotten(m_input).pos \in Nat
  BY <1>1 DEF StreamOK, Stream
<1> QED BY <1>1, <1>2, <1>3

LEMMA StringCharStep ==
    ASSUME Inv, StringChar
    PROVE  Inv'
<1>1. /\ phase = "string" /\ GoOn("string", Pushed, Gotten(m_input))
      /\ m_lineno' = m_lineno /\ warnings' = warnings /\ start' = start
  BY DEF StringChar, InString
<1>2. Pushed \in Seq(LexemeChar)
  BY <1>1, InLoop
<1>3. StreamOK(Gotten(m_input)) /\ Gotten(m_input).pos >= m_input.pos
  BY Taken
<1> QED BY <1>1, <1>2, <1>3, GoesOnStarted

LEMMA EscapeCharStep ==
    ASSUME Inv, EscapeChar
    PROVE  Inv'
<1> DEFINE lexeme == Append(m_curr_lexeme, Escape[Escaped])
           s == Gotten(Gotten(m_input))
<1>1. /\ phase = "string" /\ Escaped \in DOMAIN Escape /\ GoOn("string", lexeme, s)
      /\ m_lineno' = m_lineno /\ warnings' = warnings /\ start' = start
  BY DEF EscapeChar, InString
<1>2. lexeme \in Seq(LexemeChar)
  <2>1. Escape[Escaped] \in LexemeChar
    BY <1>1, EscapesAre
  <2>2. m_curr_lexeme \in Seq(LexemeChar)
    BY <1>1, InLoop
  <2> QED BY <2>1, <2>2
<1>3. StreamOK(s) /\ s.pos >= m_input.pos
  BY EscapedIs
<1> HIDE DEF lexeme, s
<1> QED BY <1>1, <1>2, <1>3, GoesOnStarted

LEMMA BadEscapeStep ==
    ASSUME Inv, BadEscape
    PROVE  Inv'
<1> DEFINE loop == WarnedOr(IF m_curr_lexeme = <<>> THEN "undefined" ELSE "string")
           s == Gotten(Gotten(m_input))
<1>1. /\ phase = "string" /\ warnings' = warnings + 1 /\ GoOn(loop, PopBack, s)
      /\ m_lineno' = m_lineno /\ start' = start
  BY DEF BadEscape, Warn
<1>2. PopBack \in Seq(LexemeChar)
  <2>1. m_curr_lexeme \in Seq(LexemeChar) /\ Len(m_curr_lexeme) \in Nat
    BY <1>1, InLoop
  <2>2. \A i \in 1..(Len(m_curr_lexeme) - 1) : m_curr_lexeme[i] \in LexemeChar
    BY <2>1
  <2>3. 1 \in Int /\ Len(m_curr_lexeme) - 1 \in Int
    BY <2>1
  <2> QED BY <2>2, <2>3, SubSeqProperties DEF PopBack
<1>3. StreamOK(s) /\ s.pos >= m_input.pos
  BY EscapedIs
<1>4. loop \in {phase} \cup Ended /\ (warnings' > MaxWarnings => loop = "exit")
  BY <1>1 DEF WarnedOr, Ended
<1> HIDE DEF loop, s
<1> QED BY <1>1, <1>2, <1>3, <1>4, GoesOnStarted

LEMMA StringNewLineStep ==
    ASSUME Inv, StringNewLine
    PROVE  Inv'
<1> DEFINE loop == WarnedOr("string")
<1>1. /\ phase = "string" /\ warnings' = warnings + 1
      /\ GoOn(loop, m_curr_lexeme, Gotten(m_input))
      /\ m_lineno' = m_lineno /\ start' = start
  BY DEF StringNewLine, Warn
<1>2. m_curr_lexeme \in Seq(LexemeChar)
  BY <1>1, InLoop
<1>3. StreamOK(Gotten(m_input)) /\ Gotten(m_input).pos >= m_input.pos
  BY Taken
<1>4. loop \in {phase} \cup Ended /\ (warnings' > MaxWarnings => loop = "exit")
  BY <1>1 DEF WarnedOr, Ended
<1> HIDE DEF loop
<1> QED BY <1>1, <1>2, <1>3, <1>4, GoesOnStarted

\* Where a comment is.
LEMMA CommentIs ==
    ASSUME Inv, phase = "comment"
    PROVE  /\ NoEof /\ warnings <= MaxWarnings /\ m_lineno \in Nat
           /\ start \in 0..Len(input) /\ From \in 1..(m_input.pos + 1)
           /\ start \in From..(m_input.pos + 1) /\ Skipped(start - 1)
           /\ start <= m_input.pos /\ start < Len(input)
           /\ input[start] = "/" /\ input[start + 1] = "/"
           /\ \A j \in start..m_input.pos : input[j] # LF
           /\ m_input.pos \in 0..Len(input) /\ Len(input) \in Nat
<1>1. NoEof
  BY NotOver
<1>2. /\ warnings <= MaxWarnings /\ m_lineno \in Nat /\ start \in 0..Len(input)
      /\ From \in 1..(m_input.pos + 1)
  BY InLoop
<1>3. m_input.pos \in 0..Len(input) /\ Len(input) \in Nat
  BY HereIs
<1> QED BY <1>1, <1>2, <1>3 DEF Inv, SkippedOK

LEMMA CommentCharStep ==
    ASSUME Inv, CommentChar
    PROVE  Inv'
<1> DEFINE s == Gotten(Seen)
<1>1. /\ phase = "comment" /\ chr # LF /\ GoOn("comment", <<>>, s)
      /\ m_lineno' = m_lineno /\ warnings' = warnings /\ start' = start
  BY DEF CommentChar
<1>2. /\ input \in Seq(Char) /\ StreamOK(Seen) /\ Seen.pos = m_input.pos
      /\ At(Seen) = chr
  BY Taken, HereIs
<1>3. /\ StreamOK(s) /\ s.pos \in {m_input.pos, m_input.pos + 1}
      /\ s.pos = m_input.pos + 1 => chr = input[m_input.pos + 1]
  BY <1>2, GottenIs
<1>4. \A j \in start..s.pos : input[j] # LF
  <2>1. m_input.pos \in Nat /\ start \in Nat
    BY <1>1, CommentIs
  <2>2. CASE s.pos = m_input.pos
    BY <1>1, <2>2, CommentIs
  <2>3. CASE s.pos = m_input.pos + 1
    <3>1. input[m_input.pos + 1] # LF
      BY <1>1, <1>3, <2>3
    <3>2. \A j \in start..(m_input.pos + 1) : j \in start..m_input.pos \/ j = m_input.pos + 1
      BY <2>1
    <3>3. \A j \in start..m_input.pos : input[j] # LF
      BY <1>1, CommentIs
    <3> QED BY <2>3, <3>1, <3>2, <3>3
  <2> QED BY <1>3, <2>2, <2>3
<1> HIDE DEF s
<1>5. /\ m_input.pos \in 0..Len(input) /\ start \in From..(m_input.pos + 1)
      /\ start <= m_input.pos /\ m_lineno \in Nat /\ From \in 1..(m_input.pos + 1)
  BY <1>1, CommentIs
<1>6. /\ s.pos >= m_input.pos /\ start \in From..(s.pos + 1) /\ start <= s.pos
      /\ m_lineno' \in m_lineno..(m_lineno + (s.pos - m_input.pos))
  BY <1>1, <1>3, <1>5
<1>7. /\ "comment" \in {"lex", "identifier", "number", "string", "comment"} \cup Ended
      /\ "comment" # "lex" /\ <<>> \in Seq(LexemeChar)
  OBVIOUS
<1>8. /\ NoEof /\ warnings <= MaxWarnings /\ start \in 0..Len(input) /\ Skipped(start - 1)
      /\ start < Len(input) /\ input[start] = "/" /\ input[start + 1] = "/"
  BY <1>1, CommentIs
<1> QED BY <1>1, <1>3, <1>4, <1>6, <1>7, <1>8, GoesOn

LEMMA EndOfCommentStep ==
    ASSUME Inv, EndOfComment
    PROVE  Inv'
<1>1. /\ phase = "comment" /\ chr = LF /\ GoOn("lex", <<>>, Seen)
      /\ m_lineno' = m_lineno /\ warnings' = warnings /\ start' = start
  BY DEF EndOfComment
<1>2. StreamOK(Seen) /\ Seen.pos = m_input.pos
  BY Taken
<1>3. Skipped(m_input.pos)
  <2> SUFFICES ASSUME NEW p \in From..m_input.pos PROVE Skips(p, From)
    BY DEF Skipped
  <2>1. CASE p <= start - 1
    <3>1. p \in From..(start - 1)
      BY <1>1, <2>1, CommentIs
    <3> QED BY <1>1, <3>1, CommentIs DEF Skipped
  <2>2. CASE p >= start
    <3>1. /\ start \in From..p /\ start < Len(input)
          /\ input[start] = "/" /\ input[start + 1] = "/"
          /\ \A j \in start..p : input[j] # LF
      BY <1>1, <2>2, CommentIs
    <3> QED BY <3>1 DEF Skips, InComment
  <2>3. p \in Int /\ start \in Int
    BY <1>1, CommentIs
  <2> QED BY <2>1, <2>2, <2>3
<1>4. /\ m_lineno' \in m_lineno..(m_lineno + (Seen.pos - m_input.pos))
      /\ Seen.pos >= m_input.pos
  <2>1. m_lineno \in Nat /\ m_input.pos \in Nat
    BY <1>1, CommentIs
  <2> QED BY <1>1, <1>2, <2>1
<1>5. NoEof /\ warnings <= MaxWarnings /\ start \in 0..Len(input)
  BY <1>1, CommentIs
<1>6. /\ "lex" \in {"lex", "identifier", "number", "string", "comment"} \cup Ended
      /\ "lex" \notin {"identifier", "number", "string", "comment"}
      /\ <<>> \in Seq(LexemeChar)
  OBVIOUS
<1> QED BY <1>1, <1>2, <1>3, <1>4, <1>5, <1>6, GoesOn

-----------------------------------------------------------------------------
(* The invariant and what it implies.                                      *)

LEMMA InvInit ==
    ASSUME Init
    PROVE  Inv
<1>1. /\ phase = "parser" /\ input \in Files
      /\ m_input = [pos |-> 0, eof |-> FALSE, fail |-> FALSE]
      /\ m_consumed = TRUE /\ m_curr_lexeme = <<>> /\ m_lineno = 1
      /\ warnings = 0 /\ start = 0 /\ tokens = <<>>
  BY DEF Init
<1>2. input \in Seq(Char) /\ Len(input) <= MaxInput /\ MaxWarnings \in Nat
      /\ Len(input) \in Nat
  BY <1>1, LexerAssumption
<1>3. m_input.pos = 0 /\ StreamOK(m_input)
  <2>1. 0 \in 0..Len(input)
    BY <1>2
  <2> QED BY <1>1, <2>1 DEF StreamOK, Stream
<1>4. Types
  <2>1. tokens \in Seq(Answer) /\ m_curr_lexeme \in Seq(LexemeChar)
    BY <1>1
  <2>2. m_lineno \in 1..(m_input.pos + 1) /\ start \in 0..Len(input)
    BY <1>1, <1>2, <1>3
  <2>3. warnings \in Nat /\ warnings <= MaxWarnings + 1 /\ ~(warnings > MaxWarnings)
    BY <1>1, <1>2
  <2> QED BY <1>1, <1>2, <1>3, <2>1, <2>2, <2>3 DEF Types
<1>5. DOMAIN tokens = {} /\ From = 1
  BY <1>1 DEF From
<1>6. EofOK /\ EofIsSticky /\ NothingIsLost
  BY <1>5 DEF EofOK, NoEof, EofIsSticky, NothingIsLost
<1>7. SkippedOK
  <2>1. From \in 1..(m_input.pos + 1) /\ From..m_input.pos = {}
    BY <1>3, <1>5
  <2> QED BY <1>1, <2>1 DEF SkippedOK, Skipped
<1>8. TokensOK
  BY <1>5 DEF TokensOK
<1> QED BY <1>4, <1>6, <1>7, <1>8 DEF Inv

LEMMA InvStep ==
    ASSUME Inv, [Next]_vars
    PROVE  Inv'
<1>1. CASE Peek \/ Consume \/ UNCHANGED vars
  BY <1>1, ParserStep
<1>2. CASE Lex
  BY <1>2, EndOfLoopStep, NewLineStep, SpaceStep, StartIdentifierStep, StartNumberStep,
     StartStringStep, StartCommentStep, DivideStep, IsSpecialStep, TwoCharOperatorStep,
     OneCharOperatorStep, EndOfFileStep, UnknownCharStep, WordCharStep,
     EndOfIdentifierStep, EndOfNumberStep, EndOfStringStep, StringCharStep,
     EscapeCharStep, BadEscapeStep, StringNewLineStep, CommentCharStep,
     EndOfCommentStep DEF Lex
<1> QED BY <1>1, <1>2 DEF Next

LEMMA Invariance == Spec => []Inv
<1>1. Init => Inv
  BY InvInit
<1>2. Inv /\ [Next]_vars => Inv'
  BY InvStep
<1> QED BY <1>1, <1>2, PTL DEF Spec

\* The type invariant of the lexer: in every file the stream stays inside it
\* (unget() never takes it before the beginning), a line number is at most one
\* more than the characters read, and warnings stop at the limit.
THEOREM LexerTypes == Spec => []TypeOK
<1>1. Inv => TypeOK
  <2> SUFFICES ASSUME Inv PROVE TypeOK
    OBVIOUS
  <2>1. /\ m_lineno \in 1..(m_input.pos + 1) /\ m_input.pos \in 0..Len(input)
        /\ Len(input) <= MaxInput /\ Len(input) \in Nat /\ MaxInput \in Nat
        /\ warnings \in Nat /\ warnings <= MaxWarnings + 1 /\ MaxWarnings \in Nat
    BY HereIs, LexerAssumption DEF Inv, Types
  <2>2. m_lineno \in 1..(MaxInput + 1) /\ warnings \in 0..(MaxWarnings + 1)
    BY <2>1
  <2>3. m_input \in [pos : 0..Len(input), eof : BOOLEAN, fail : BOOLEAN]
    BY DEF Inv, Types, StreamOK, Stream
  <2>4. tokens \in Seq([token : {ID, NUM, STRLIT, T_EOF} \cup Seq(Char),
                        first : 1..(Len(input) + 1), last : 0..Len(input),
                        lexeme : Seq(LexemeChar), line : 1..(MaxInput + 1)])
    BY DEF Inv, Types, Answer
  <2> QED BY <2>2, <2>3, <2>4 DEF Inv, Types, TypeOK
<1> QED BY <1>1, Invariance, PTL

\* Whatever look ahead lex() and its callees put back, tokens do not overlap,
\* and between two of them there are only blanks, newlines, comments and
\* unknown characters, in every file; T_EOF comes where the file is over, or
\* at the byte that is taken for its end.
THEOREM TextIsKept == Spec => []NothingIsLost
<1>1. Inv => NothingIsLost
  BY DEF Inv
<1> QED BY <1>1, Invariance, PTL

\* isSpecial() and isOperator() leave a stream that is over with eofbit cleared
\* and failbit set: all the same, after T_EOF lex() answers nothing else.
THEOREM EofIsLast == Spec => []EofIsSticky
<1>1. Inv => EofIsSticky
  BY DEF Inv
<1> QED BY <1>1, Invariance, PTL

-----------------------------------------------------------------------------
(* Lines.                                                                  *)

\* The newlines up to a position that are in no token, and what m_lineno has to
\* do with them.
Counted(to) == {p \in 1..to : /\ input[p] = LF
                             /\ \A j \in Answered :
                                   p \notin tokens[j].first..tokens[j].last}
LinesOK ==
    /\ phase \in {"parser", "lex"} =>
          m_lineno = 1 + Cardinality(Counted(m_input.pos))
    /\ phase \in {"identifier", "number", "string", "comment"} =>
          m_lineno = 1 + Cardinality(Counted(start - 1))

Lines == LinesOK /\ LinesAreRight

LEMMA CountedIsFinite ==
    ASSUME NEW to \in Nat
    PROVE  IsFiniteSet(Counted(to)) /\ Cardinality(Counted(to)) \in Nat
<1>1. IsFiniteSet(1..to)
  BY FS_Interval
<1>2. Counted(to) \subseteq 1..to
  BY DEF Counted
<1>3. IsFiniteSet(Counted(to))
  BY <1>1, <1>2, FS_Subset
<1> QED BY <1>3, FS_CardinalityType

\* What the lines need of the invariant.
LEMMA TokensAreBehind ==
    ASSUME Inv
    PROVE  /\ Len(tokens) \in Nat /\ DOMAIN tokens = 1..Len(tokens)
           /\ From \in 1..(m_input.pos + 1) /\ m_input.pos \in Nat
           /\ \A k \in DOMAIN tokens :
                 /\ tokens[k].first \in Int /\ tokens[k].last \in Int
                 /\ tokens[k].first <= From /\ tokens[k].last < From
<1>1. /\ tokens \in Seq(Answer) /\ TokensOK /\ From \in 1..(m_input.pos + 1)
      /\ m_input.pos \in Nat
  BY HereIs DEF Inv, Types, SkippedOK
<1>2. \A k \in DOMAIN tokens : tokens[k].first \in Int /\ tokens[k].last \in Int
  <2>1. \A k \in DOMAIN tokens : tokens[k] \in Answer
    BY <1>1
  <2> QED BY <2>1 DEF Answer
<1>3. \A k \in DOMAIN tokens : tokens[k].first <= From /\ tokens[k].last < From
  <2> SUFFICES ASSUME NEW k \in DOMAIN tokens
               PROVE  tokens[k].first <= From /\ tokens[k].last < From
    OBVIOUS
  <2>1. tokens[k].first <= tokens[k].last + 1 /\ tokens[k].last < From
    BY <1>1 DEF TokensOK
  <2> QED BY <1>1, <1>2, <2>1
<1> QED BY <1>1, <1>2, <1>3

\* The tokens that were there keep their lines in a step that answers none.
LEMMA LinesStay ==
    ASSUME Lines, UNCHANGED <<input, tokens>>
    PROVE  LinesAreRight' /\ \A to \in Int : Counted(to)' = Counted(to)
<1>1. Answered' = Answered
  BY DEF Answered, IsEof
<1>2. LinesAreRight
  BY DEF Lines
<1>3. LinesAreRight'
  BY <1>1, <1>2 DEF LinesAreRight
<1> QED BY <1>1, <1>3 DEF Counted

\* lex() takes a character that belongs to no token.
LEMMA LinesSkip ==
    ASSUME Inv, Lines, phase = "lex", chr # EOF,
           NEW loop, loop \in {"lex"} \cup Ended, GoOn(loop, <<>>, Gotten(m_input)),
           m_lineno' = IF chr = LF THEN m_lineno + 1 ELSE m_lineno
    PROVE  Lines'
<1>1. UNCHANGED <<input, tokens>> /\ phase' = loop /\ m_input' = Gotten(m_input)
  BY DEF GoOn
<1>2. LinesAreRight' /\ \A to \in Int : Counted(to)' = Counted(to)
  BY <1>1, LinesStay
<1>3. /\ m_input.pos \in Nat /\ Here = m_input.pos + 1 /\ chr = input[Here]
      /\ m_input'.pos = Here
  BY <1>1, HereIs, Taken
<1>4. m_lineno = 1 + Cardinality(Counted(m_input.pos))
  BY DEF Lines, LinesOK
<1>5. \A j \in Answered : Here \notin tokens[j].first..tokens[j].last
  <2> SUFFICES ASSUME NEW j \in Answered PROVE Here \notin tokens[j].first..tokens[j].last
    OBVIOUS
  <2>1. j \in DOMAIN tokens
    BY DEF Answered
  <2>2. tokens[j].last < From /\ tokens[j].last \in Int /\ From \in 1..Here
    BY <1>3, <2>1, TokensAreBehind
  <2> QED BY <1>3, <2>1, <2>2, TokensAreBehind
<1>6. m_lineno' = 1 + Cardinality(Counted(Here))
  <2>1. CASE chr = LF
    <3>1. Counted(Here) = Counted(m_input.pos) \cup {Here}
      <4>1. 1..Here = 1..m_input.pos \cup {Here}
        BY <1>3
      <4>2. input[Here] = LF
        BY <1>3, <2>1
      <4> QED BY <1>5, <4>1, <4>2 DEF Counted
    <3>2. Here \notin Counted(m_input.pos)
      BY <1>3 DEF Counted
    <3>3. Cardinality(Counted(Here)) = Cardinality(Counted(m_input.pos)) + 1
      BY <1>3, <3>1, <3>2, CountedIsFinite, FS_AddElement
    <3>4. Cardinality(Counted(m_input.pos)) \in Nat
      BY <1>3, CountedIsFinite
    <3> QED BY <1>4, <2>1, <3>3, <3>4
  <2>2. CASE chr # LF
    <3>1. Counted(Here) = Counted(m_input.pos)
      BY <1>3, <2>2 DEF Counted
    <3> QED BY <1>4, <2>2, <3>1
  <2> QED BY <2>1, <2>2
<1>7. Here \in Int /\ phase' \notin {"identifier", "number", "string", "comment"}
  BY <1>1, <1>3 DEF Ended
<1>8. LinesOK'
  BY <1>1, <1>2, <1>3, <1>6, <1>7 DEF LinesOK
<1> QED BY <1>2, <1>8 DEF Lines

\* lex() begins what a loop of its own reads.
LEMMA LinesStart ==
    ASSUME Inv, Lines, NEW loop, loop \in {"identifier", "number", "string", "comment"},
           NEW lexeme, NEW s, StartToken(loop, lexeme, s)
    PROVE  Lines'
<1>1. /\ UNCHANGED <<input, tokens>> /\ phase' = loop /\ phase = "lex"
      /\ start' = Here /\ m_lineno' = m_lineno
  BY DEF StartToken, GoOn, Loop
<1>2. LinesAreRight' /\ \A to \in Int : Counted(to)' = Counted(to)
  BY <1>1, LinesStay
<1>3. start' - 1 = m_input.pos /\ m_input.pos \in Int
  BY <1>1, HereIs
<1>4. m_lineno' = 1 + Cardinality(Counted(start' - 1))
  BY <1>1, <1>3 DEF Lines, LinesOK
<1>5. Counted(start - 1)' = Counted(start' - 1)
  BY <1>1 DEF Counted, Answered, IsEof
<1>6. LinesOK'
  BY <1>1, <1>4, <1>5 DEF LinesOK
<1> QED BY <1>2, <1>6 DEF Lines

\* A loop of its own goes on with what began at `start`, or the process ends.
LEMMA LinesInside ==
    ASSUME Inv, Lines, phase \in {"identifier", "number", "string", "comment"},
           NEW loop, loop \in {phase} \cup Ended, NEW lexeme, NEW s,
           GoOn(loop, lexeme, s), m_lineno' = m_lineno, start' = start
    PROVE  Lines'
<1>1. UNCHANGED <<input, tokens>> /\ phase' = loop
  BY DEF GoOn
<1>2. LinesAreRight' /\ Counted(start - 1)' = Counted(start - 1)
  BY <1>1, LinesStay DEF Counted, Answered, IsEof
<1>3. phase' \notin {"parser", "lex"}
  BY <1>1 DEF Ended
<1>4. m_lineno' = 1 + Cardinality(Counted(start - 1))
  BY DEF Lines, LinesOK
<1>5. LinesOK'
  BY <1>2, <1>3, <1>4 DEF LinesOK
<1> QED BY <1>2, <1>5 DEF Lines

\* A comment holds no newline.
LEMMA LinesComment ==
    ASSUME Inv, Lines, EndOfComment
    PROVE  Lines'
<1>1. /\ phase = "comment" /\ phase' = "lex" /\ m_input' = Seen
      /\ UNCHANGED <<input, tokens, m_lineno, start>>
  BY DEF EndOfComment, GoOn
<1>2. LinesAreRight' /\ \A to \in Int : Counted(to)' = Counted(to)
  BY <1>1, LinesStay
<1>3. /\ m_input'.pos = m_input.pos /\ m_input.pos \in Nat
      /\ start \in Nat /\ start <= m_input.pos
      /\ \A j \in start..m_input.pos : input[j] # LF
  BY <1>1, Taken, CommentIs
<1>4. Counted(m_input.pos) = Counted(start - 1)
  BY <1>3 DEF Counted
<1>5. m_lineno = 1 + Cardinality(Counted(start - 1))
  BY <1>1 DEF Lines, LinesOK
<1>6. Counted(m_input.pos)' = Counted(m_input.pos)
  BY <1>1, <1>3 DEF Counted, Answered, IsEof
<1>7. LinesOK'
  BY <1>1, <1>4, <1>5, <1>6 DEF LinesOK
<1> QED BY <1>2, <1>7 DEF Lines

\* The answer to peek().
LEMMA LinesAnswer ==
    ASSUME Inv, Inv', Lines, NEW token, NEW first, NEW lexeme, NEW s,
           Return(token, first, lexeme, s), first \in Int,
           m_lineno = 1 + Cardinality(Counted(first - 1))
    PROVE  Lines'
<1> DEFINE n == Len(tokens)
           answer == [token |-> token, first |-> first, last |-> s.pos,
                      lexeme |-> lexeme, line |-> m_lineno]
           CountedNow(to) == {p \in 1..to :
                                /\ input'[p] = LF
                                /\ \A j \in Answered' :
                                      p \notin tokens'[j].first..tokens'[j].last}
<1>1. /\ phase' = "parser" /\ m_input' = s /\ tokens' = Append(tokens, answer)
      /\ input' = input /\ m_lineno' = m_lineno
  BY DEF Return
<1>2. /\ answer.token = token /\ answer.first = first /\ answer.last = s.pos
      /\ answer.line = m_lineno
  OBVIOUS
<1> HIDE DEF answer
<1>3. /\ n \in Nat /\ DOMAIN tokens = 1..n /\ DOMAIN tokens' = 1..(n + 1)
      /\ \A k \in 1..n : tokens'[k] = tokens[k]
      /\ tokens'[n + 1] = answer
  <2>1. tokens \in Seq(Answer)
    BY DEF Inv, Types
  <2> QED BY <1>1, <2>1
<1> HIDE DEF n
<1>4. /\ s.pos \in Nat /\ first <= s.pos + 1
      /\ token = T_EOF => first = s.pos + 1
  <2>1. TokensOK' /\ StreamOK(m_input)'
    BY DEF Inv, Types
  <2>2. s.pos \in 0..Len(input')
    BY <1>1, <2>1 DEF StreamOK, Stream
  <2>3. s.pos \in Nat
    BY <2>2
  <2>4. n + 1 \in DOMAIN tokens'
    BY <1>3
  <2>5. /\ tokens'[n + 1].first <= tokens'[n + 1].last + 1
        /\ tokens'[n + 1].token = T_EOF =>
              tokens'[n + 1].first = tokens'[n + 1].last + 1
    BY <2>1, <2>4 DEF TokensOK, IsEof
  <2> QED BY <1>2, <1>3, <2>3, <2>5
<1>5. From <= first /\ From \in Int
  <2>1. From = IF n + 1 = 1 THEN 1 ELSE tokens'[n].last + 1
    <3>1. tokens = <<>> <=> n = 0
      BY DEF Inv, Types, n
    <3>2. n # 0 => n \in 1..n
      BY <1>3
    <3>3. n # 0 => From = tokens'[n].last + 1
      BY <1>3, <3>1, <3>2 DEF From, n
    <3>4. n = 0 => From = 1
      BY <3>1 DEF From
    <3> QED BY <1>3, <3>3, <3>4
  <2>2. NothingIsLost' /\ n + 1 \in DOMAIN tokens'
    BY <1>3 DEF Inv
  <2>3. (IF n + 1 = 1 THEN 1 ELSE tokens'[(n + 1) - 1].last + 1)
           <= (tokens'[n + 1].first - 1) + 1
    BY <2>2 DEF NothingIsLost
  <2>4. (n + 1) - 1 = n /\ From \in Int /\ (first - 1) + 1 = first
    BY <1>3, TokensAreBehind
  <2> QED BY <1>2, <1>3, <2>1, <2>3, <2>4
<1>6. \A k \in 1..n : k \in Answered' <=> k \in Answered
  BY <1>3 DEF Answered, IsEof
<1>7. Answered \subseteq 1..n /\ Answered' \subseteq 1..(n + 1)
  BY <1>3 DEF Answered
<1>8. n + 1 \in Answered' <=> token # T_EOF
  BY <1>2, <1>3 DEF Answered, IsEof
<1>9. \A to \in Int : to <= first - 1 => CountedNow(to) = Counted(to)
  <2> SUFFICES ASSUME NEW to \in Int, to <= first - 1,
                      NEW p \in 1..to
               PROVE  (\A j \in Answered' : p \notin tokens'[j].first..tokens'[j].last)
                      <=> (\A j \in Answered : p \notin tokens[j].first..tokens[j].last)
    BY <1>1 DEF Counted
  <2>1. p \notin tokens'[n + 1].first..tokens'[n + 1].last
    BY <1>2, <1>3, <1>4
  <2>2. \A j \in Answered' : j \in 1..n \/ j = n + 1
    BY <1>3, <1>7
  <2> QED BY <1>3, <1>6, <1>7, <2>1, <2>2
<1>10. CountedNow(s.pos) = Counted(first - 1)
  <2>1. CASE token = T_EOF
    <3>1. s.pos = first - 1 /\ s.pos \in Int
      BY <1>4, <2>1
    <3> QED BY <1>9, <3>1
  <2>2. CASE token # T_EOF
    <3>1. \A p \in 1..s.pos : p \in 1..(first - 1) \/ p \in first..s.pos
      BY <1>4
    <3>2. \A p \in first..s.pos : p \notin CountedNow(s.pos)
      BY <1>2, <1>3, <1>8, <2>2 DEF Counted
    <3>3. 1..(first - 1) \subseteq 1..s.pos
      BY <1>4
    <3>4. \A p \in 1..(first - 1) : p \in CountedNow(s.pos) <=> p \in CountedNow(first - 1)
      BY <3>3 DEF Counted
    <3>5. CountedNow(first - 1) = Counted(first - 1)
      BY <1>9
    <3>6. CountedNow(s.pos) \subseteq 1..s.pos /\ Counted(first - 1) \subseteq 1..(first - 1)
      BY DEF Counted
    <3> QED BY <3>1, <3>2, <3>3, <3>4, <3>5, <3>6
  <2> QED BY <2>1, <2>2
<1>11. LinesOK'
  <2>1. Counted(m_input.pos)' = CountedNow(s.pos)
    BY <1>1 DEF Counted
  <2> QED BY <1>1, <1>10, <2>1 DEF LinesOK
<1>12. LinesAreRight'
  <2> SUFFICES ASSUME NEW k \in Answered'
               PROVE  tokens'[k].line = 1 + Cardinality(CountedNow(tokens'[k].first - 1))
    BY DEF LinesAreRight
  <2>1. CASE k = n + 1
    <3>1. tokens'[k].line = m_lineno /\ tokens'[k].first = first
      BY <1>2, <1>3, <2>1
    <3>2. CountedNow(first - 1) = Counted(first - 1)
      BY <1>9
    <3> HIDE DEF CountedNow
    <3> QED BY <3>1, <3>2
  <2>2. CASE k \in 1..n
    <3>1. /\ tokens'[k] = tokens[k] /\ k \in Answered /\ tokens[k].first \in Int
          /\ tokens[k].first <= From
      BY <1>3, <1>6, <2>2, TokensAreBehind
    <3>2. tokens[k].first - 1 \in Int /\ tokens[k].first - 1 <= first - 1
      BY <1>5, <3>1
    <3>3. tokens[k].line = 1 + Cardinality(Counted(tokens[k].first - 1))
      BY <3>1 DEF Lines, LinesAreRight, Counted
    <3> DEFINE f == tokens[k].first - 1
    <3>4. CountedNow(f) = Counted(f)
      <4> HIDE DEF CountedNow, f
      <4> QED BY <1>9, <3>2 DEF f
    <3>5. tokens'[k].line = 1 + Cardinality(CountedNow(f))
      <4> HIDE DEF CountedNow
      <4> QED BY <3>1, <3>3, <3>4
    <3>6. tokens'[k].first - 1 = f
      BY <3>1
    <3> HIDE DEF CountedNow, f
    <3> QED BY <3>5, <3>6
  <2>3. k = n + 1 \/ k \in 1..n
    BY <1>3, <1>7
  <2> HIDE DEF CountedNow
  <2> QED BY <2>1, <2>2, <2>3
<1> QED BY <1>11, <1>12 DEF Lines

LEMMA LinesInit ==
    ASSUME Init
    PROVE  Lines
<1>1. phase = "parser" /\ m_input.pos = 0 /\ m_lineno = 1 /\ DOMAIN tokens = {}
  BY DEF Init
<1>2. Answered = {}
  BY <1>1 DEF Answered
<1>3. Counted(0) = {}
  BY DEF Counted
<1>4. Cardinality(Counted(0)) = 0
  BY <1>3, FS_EmptySet
<1> QED BY <1>1, <1>2, <1>4 DEF Lines, LinesOK, LinesAreRight

\* The actions of lex() that take a character, or begin a token.
LEMMA LinesTurn ==
    ASSUME Inv, Lines, \/ NewLine \/ Space \/ UnknownChar
                       \/ StartIdentifier \/ StartNumber \/ StartString \/ StartComment
    PROVE  Lines'
<1>1. CASE NewLine
  <2>1. /\ phase = "lex" /\ chr = LF /\ m_lineno' = m_lineno + 1
        /\ GoOn("lex", <<>>, Gotten(Seen)) /\ chr # EOF
    BY <1>1, CharsAre DEF NewLine, Loop
  <2>2. GoOn("lex", <<>>, Gotten(m_input))
    BY <2>1, Taken
  <2> QED BY <2>1, <2>2, LinesSkip
<1>2. CASE Space
  <2>1. /\ phase = "lex" /\ chr # LF /\ m_lineno' = m_lineno
        /\ GoOn("lex", <<>>, Gotten(Seen)) /\ chr # EOF
    <3>1. LF \notin Blanks
      BY DEF LF, Blanks
    <3> QED BY <1>2, <3>1, CharsAre DEF Space, Loop
  <2>2. GoOn("lex", <<>>, Gotten(m_input))
    BY <2>1, Taken
  <2> QED BY <2>1, <2>2, LinesSkip
<1>3. CASE UnknownChar
  <2> DEFINE loop == WarnedOr("lex")
  <2>1. /\ phase = "lex" /\ chr # LF /\ m_lineno' = m_lineno
        /\ GoOn(loop, <<>>, Gotten(NotOperator)) /\ chr # EOF
    <3>1. LF \in Known
      BY DEF Known
    <3> QED BY <1>3, <3>1, CharsAre DEF UnknownChar, Loop
  <2>2. GoOn(loop, <<>>, Gotten(m_input))
    BY <2>1, Taken
  <2>3. loop \in {"lex"} \cup Ended
    BY DEF WarnedOr, Ended
  <2> HIDE DEF loop
  <2> QED BY <2>1, <2>2, <2>3, LinesSkip
<1>4. CASE StartIdentifier
  <2>1. StartToken("identifier", <<chr>>, Gotten(Seen))
    BY <1>4 DEF StartIdentifier
  <2> QED BY <2>1, LinesStart
<1>5. CASE StartNumber
  <2>1. StartToken("number", <<>>, Seen)
    BY <1>5 DEF StartNumber
  <2> QED BY <2>1, LinesStart
<1>6. CASE StartString
  <2>1. StartToken("string", <<>>, Gotten(Seen))
    BY <1>6 DEF StartString
  <2> QED BY <2>1, LinesStart
<1>7. CASE StartComment
  <2>1. StartToken("comment", <<>>, Peeked(Slash))
    BY <1>7 DEF StartComment
  <2> QED BY <2>1, LinesStart
<1> QED BY <1>1, <1>2, <1>3, <1>4, <1>5, <1>6, <1>7

\* The actions of lex() that answer a token.
LEMMA LinesToken ==
    ASSUME Inv, Inv', Lines,
           \/ EndOfLoop \/ Divide \/ IsSpecial \/ TwoCharOperator \/ OneCharOperator
           \/ EndOfFile
    PROVE  Lines'
<1>1. PICK token, lexeme, s : phase = "lex" /\ Return(token, Here, lexeme, s)
  <2>1. CASE EndOfLoop
    <3>1. phase = "lex" /\ Return(T_EOF, Here, m_curr_lexeme, m_input)
      BY <2>1 DEF EndOfLoop
    <3> QED BY <3>1
  <2>2. CASE Divide
    <3>1. phase = "lex" /\ Return(<<"/">>, Here, <<>>, Gotten(Ungotten(Peeked(Slash))))
      BY <2>2 DEF Divide, Loop
    <3> QED BY <3>1
  <2>3. CASE IsSpecial
    <3>1. phase = "lex" /\ Return(<<chr>>, Here, <<>>, Gotten(Seen))
      BY <2>3 DEF IsSpecial, Loop
    <3> QED BY <3>1
  <2>4. CASE TwoCharOperator
    <3>1. phase = "lex" /\ Return(<<chr, At(Rest)>>, Here, <<>>, Gotten(Peeked(Rest)))
      BY <2>4 DEF TwoCharOperator, Loop
    <3> QED BY <3>1
  <2>5. CASE OneCharOperator
    <3>1. phase = "lex" /\ Return(<<chr>>, Here, <<>>, LookedAhead)
      BY <2>5 DEF OneCharOperator, Loop
    <3> QED BY <3>1
  <2>6. CASE EndOfFile
    <3>1. phase = "lex" /\ Return(T_EOF, Here, <<>>, NotOperator)
      BY <2>6 DEF EndOfFile, Loop
    <3> QED BY <3>1
  <2> QED BY <2>1, <2>2, <2>3, <2>4, <2>5, <2>6
<1>2. Here - 1 = m_input.pos /\ Here \in Int
  BY HereIs
<1>3. m_lineno = 1 + Cardinality(Counted(Here - 1))
  BY <1>1, <1>2 DEF Lines, LinesOK
<1> QED BY <1>1, <1>2, <1>3, LinesAnswer

\* The loops of the functions that lex() calls.
LEMMA LinesLoop ==
    ASSUME Inv, Inv', Lines,
           \/ WordChar \/ EndOfIdentifier \/ EndOfNumber \/ EndOfString \/ StringChar
           \/ EscapeChar \/ BadEscape \/ StringNewLine \/ CommentChar
    PROVE  Lines'
<1>1. phase \in {"identifier", "number", "string", "comment"}
  BY DEF WordChar, Word, EndOfIdentifier, EndOfNumber, EndOfString, StringChar,
         EscapeChar, InString, BadEscape, StringNewLine, CommentChar
<1>2. CASE WordChar \/ StringChar \/ EscapeChar \/ CommentChar
  <2>1. PICK lexeme, s : GoOn(phase, lexeme, s) /\ m_lineno' = m_lineno /\ start' = start
    <3>1. CASE WordChar
      <4>1. GoOn(phase, Pushed, Gotten(Seen)) /\ m_lineno' = m_lineno /\ start' = start
        BY <3>1 DEF WordChar
      <4> QED BY <4>1
    <3>2. CASE StringChar
      <4>1. GoOn(phase, Pushed, Gotten(m_input)) /\ m_lineno' = m_lineno /\ start' = start
        BY <3>2 DEF StringChar, InString
      <4> QED BY <4>1
    <3>3. CASE EscapeChar
      <4>1. /\ GoOn(phase, Append(m_curr_lexeme, Escape[Escaped]), Gotten(Gotten(m_input)))
            /\ m_lineno' = m_lineno /\ start' = start
        BY <3>3 DEF EscapeChar, InString
      <4> QED BY <4>1
    <3>4. CASE CommentChar
      <4>1. GoOn(phase, <<>>, Gotten(Seen)) /\ m_lineno' = m_lineno /\ start' = start
        BY <3>4 DEF CommentChar
      <4> QED BY <4>1
    <3> QED BY <1>2, <3>1, <3>2, <3>3, <3>4
  <2> QED BY <1>1, <2>1, LinesInside
<1>3. CASE BadEscape
  <2> DEFINE loop == WarnedOr(IF m_curr_lexeme = <<>> THEN "undefined" ELSE "string")
  <2>1. /\ phase = "string" /\ GoOn(loop, PopBack, Gotten(Gotten(m_input)))
        /\ m_lineno' = m_lineno /\ start' = start
    BY <1>3 DEF BadEscape
  <2>2. loop \in {phase} \cup Ended
    BY <2>1 DEF WarnedOr, Ended
  <2> HIDE DEF loop
  <2> QED BY <1>1, <2>1, <2>2, LinesInside
<1>4. CASE StringNewLine
  <2> DEFINE loop == WarnedOr("string")
  <2>1. /\ phase = "string" /\ GoOn(loop, m_curr_lexeme, Gotten(m_input))
        /\ m_lineno' = m_lineno /\ start' = start
    BY <1>4 DEF StringNewLine
  <2>2. loop \in {phase} \cup Ended
    BY <2>1 DEF WarnedOr, Ended
  <2> HIDE DEF loop
  <2> QED BY <1>1, <2>1, <2>2, LinesInside
<1>5. CASE EndOfIdentifier \/ EndOfNumber \/ EndOfString
  <2>1. PICK token, lexeme, s : Return(token, start, lexeme, s)
    <3>1. CASE EndOfIdentifier
      BY <3>1 DEF EndOfIdentifier
    <3>2. CASE EndOfNumber
      <4>1. Return(NUM, start, m_curr_lexeme, Seen)
        BY <3>2 DEF EndOfNumber
      <4> QED BY <4>1
    <3>3. CASE EndOfString
      <4>1. Return(STRLIT, start, m_curr_lexeme, Gotten(m_input))
        BY <3>3 DEF EndOfString
      <4> QED BY <4>1
    <3> QED BY <1>5, <3>1, <3>2, <3>3
  <2>2. m_lineno = 1 + Cardinality(Counted(start - 1)) /\ start \in Int
    BY <1>1 DEF Lines, LinesOK, Inv, Types
  <2> QED BY <2>1, <2>2, LinesAnswer
<1> QED BY <1>2, <1>3, <1>4, <1>5

LEMMA LinesStep ==
    ASSUME Inv, Inv', Lines, [Next]_vars
    PROVE  Lines'
<1>1. CASE Peek \/ Consume \/ UNCHANGED vars
  <2>1. /\ phase' = phase \/ (phase = "parser" /\ phase' = "lex")
        /\ UNCHANGED <<input, m_input, m_lineno, start, tokens>>
    BY <1>1 DEF Peek, Consume, vars
  <2>2. /\ LinesAreRight' /\ Counted(m_input.pos)' = Counted(m_input.pos)
        /\ Counted(start - 1)' = Counted(start - 1)
    BY <2>1, LinesStay DEF Counted, Answered, IsEof
  <2>3. LinesOK'
    BY <2>1, <2>2 DEF Lines, LinesOK
  <2> QED BY <2>2, <2>3 DEF Lines
<1>2. CASE Lex
  BY <1>2, LinesTurn, LinesToken, LinesLoop, LinesComment DEF Lex
<1> QED BY <1>1, <1>2 DEF Next

\* m_lineno, which is counted up at every newline that lex() itself takes and
\* not in a string or a comment, is right for every token of every file.
THEOREM LinesHold == Spec => []LinesAreRight
<1>1. Init => Lines
  BY LinesInit
<1>2. Inv /\ Inv' /\ Lines /\ [Next]_vars => Lines'
  BY LinesStep
<1>3. Lines => LinesAreRight
  BY DEF Lines
<1> QED BY <1>1, <1>2, <1>3, Invariance, PTL DEF Spec

-----------------------------------------------------------------------------
(* What more is invariant: the texts of the tokens.                        *)

\* What has been read of the token that began at `start`.
TextRead == SubSeq(input, start, m_input.pos)

\* A string that is read up to x, with the lexeme v for it.
Meant(x, to) == {i \in 2..to : IsEscaped(x, i) \/ x[i] \notin {"\\", LF}}
Gives(v, x, to) ==
    /\ Len(v) = Cardinality(Meant(x, to))
    /\ \A i \in Meant(x, to) :
          v[Cardinality({j \in Meant(x, to) : j <= i})] = Meaning(x, i)
OpenString(v, x) ==
    /\ Len(x) > 0 /\ x[1] = QUOTE
    /\ \A i \in 2..Len(x) : x[i] = QUOTE => IsEscaped(x, i)
    /\ ~IsEscaped(x, Len(x) + 1)
    /\ HasBadEscape(x) \/ Gives(v, x, Len(x))

ReadingOK ==
    /\ phase \in {"identifier", "number"} =>
          /\ start \in 1..Len(input) /\ m_curr_lexeme = TextRead
          /\ \A i \in start..m_input.pos : input[i] \in Word[phase]
    /\ phase = "identifier" => start <= m_input.pos /\ input[start] \in Letters
    /\ phase = "number" => input[start] \in Digits
    /\ phase = "string" /\ ~m_input.fail =>
          start > 0 /\ OpenString(m_curr_lexeme, TextRead)

\* An answer is the token, and the longest, that begins where it does.
Right(t) ==
    LET x == SubSeq(input, t.first, t.last)
    IN  /\ IsToken(x) /\ t.token = TokenOf(x) /\ IsLexeme(t.lexeme, x)
        /\ \A j \in (t.last + 1)..Len(input) :
              ~IsToken(SubSeq(input, t.first, j))
        /\ t.token = <<"/">> => ~InComment(t.first, t.first)
AnswersRight == \A k \in Answered : Right(tokens[k])

Texts == ReadingOK /\ AnswersRight

-----------------------------------------------------------------------------
(* Which characters of a text are escaped.                                 *)

\* A set of numbers that is not empty has a least element.
LEMMA LeastNumber ==
    ASSUME NEW T \in SUBSET Nat, T # {}
    PROVE  \E x \in T : \A y \in T : x <= y
<1> DEFINE R == {ss \in Nat \X Nat : ss[1] < ss[2]}
<1>1. IsWellFoundedOn(R, Nat)
  BY NatLessThanWellFounded DEF OpToRel
<1>2. PICK x \in T : \A y \in T : <<y, x>> \notin R
  <2> HIDE DEF R
  <2> QED BY <1>1, WFMin
<1>3. \A y \in T : x <= y
  <2> SUFFICES ASSUME NEW y \in T PROVE x <= y
    OBVIOUS
  <2>1. <<y, x>> \notin R /\ <<y, x>> \in Nat \X Nat
    BY <1>2
  <2>2. ~(<<y, x>>[1] < <<y, x>>[2])
    BY <2>1
  <2>3. x \in Nat /\ y \in Nat
    OBVIOUS
  <2> QED BY <2>2, <2>3
<1> QED BY <1>3

\* Where the backslashes before x[i] begin.
IsRun(x, m, i) == /\ m \in 2..i /\ \A j \in m..(i - 1) : x[j] = "\\"
                  /\ m = 2 \/ x[m - 1] # "\\"

LEMMA RunBefore ==
    ASSUME NEW x, NEW i \in Nat, i >= 2
    PROVE  \E m \in Nat : IsRun(x, m, i)
<1> DEFINE T == {m \in 2..i : \A j \in m..(i - 1) : x[j] = "\\"}
<1>1. i \in T /\ T \subseteq Nat
  OBVIOUS
<1>2. PICK m \in T : \A y \in T : m <= y
  <2> HIDE DEF T
  <2> QED BY <1>1, LeastNumber
<1>3. m = 2 \/ x[m - 1] # "\\"
  <2> SUFFICES ASSUME m # 2, x[m - 1] = "\\" PROVE FALSE
    OBVIOUS
  <2>1. m \in 2..i /\ m - 1 \in 2..i
    BY <1>2
  <2>2. \A j \in (m - 1)..(i - 1) : j = m - 1 \/ j \in m..(i - 1)
    BY <2>1
  <2>3. m - 1 \in T
    BY <1>2, <2>1, <2>2
  <2> QED BY <1>2, <2>1, <2>3
<1> QED BY <1>2, <1>3 DEF IsRun

LEMMA EscapedByRun ==
    ASSUME NEW x, NEW i \in Nat, NEW m \in Nat, IsRun(x, m, i)
    PROVE  IsEscaped(x, i) <=> (i - m) % 2 = 1
<1>1. m \in 2..i /\ i - m \in Nat
  BY DEF IsRun
<1>3. ASSUME IsEscaped(x, i) PROVE (i - m) % 2 = 1
  <2>1. PICK n \in 1..(i - 2) : /\ n % 2 = 1
                                /\ \A j \in (i - n)..(i - 1) : x[j] = "\\"
                                /\ i - n = 2 \/ x[i - n - 1] # "\\"
    BY <1>3 DEF IsEscaped
  <2>2. ~(i - n < m)
    <3> SUFFICES ASSUME i - n < m PROVE FALSE
      OBVIOUS
    <3>1. m - 1 \in (i - n)..(i - 1) /\ m # 2
      BY <1>1
    <3> QED BY <2>1, <3>1 DEF IsRun
  <2>3. ~(i - n > m)
    <3> SUFFICES ASSUME i - n > m PROVE FALSE
      OBVIOUS
    <3>1. i - n - 1 \in m..(i - 1) /\ i - n # 2
      BY <1>1
    <3> QED BY <2>1, <3>1 DEF IsRun
  <2>4. n = i - m
    BY <1>1, <2>2, <2>3
  <2> QED BY <2>1, <2>4
<1>4. ASSUME (i - m) % 2 = 1 PROVE IsEscaped(x, i)
  <2> DEFINE n == i - m
  <2>1. n # 0
    BY <1>4
  <2>2. n \in 1..(i - 2) /\ i - n = m
    BY <1>1, <2>1
  <2>3. n % 2 = 1
    BY <1>4
  <2> HIDE DEF n
  <2> QED BY <2>2, <2>3 DEF IsEscaped, IsRun
<1> QED BY <1>3, <1>4

\* A character is escaped by a backslash that is not escaped itself.
LEMMA EscapedNext ==
    ASSUME NEW x, NEW i \in Nat, i > 0
    PROVE  IsEscaped(x, i + 1) <=> i > 1 /\ x[i] = "\\" /\ ~IsEscaped(x, i)
<1>1. CASE i = 1
  <2>1. 1..(i + 1 - 2) = {}
    BY <1>1
  <2> QED BY <1>1, <2>1 DEF IsEscaped
<1>2. CASE i > 1 /\ x[i] = "\\"
  <2>1. PICK m \in Nat : IsRun(x, m, i)
    BY <1>2, RunBefore
  <2>2. IsRun(x, m, i + 1)
    <3>1. m \in 2..(i + 1) /\ \A j \in m..((i + 1) - 1) : j = i \/ j \in m..(i - 1)
      BY <2>1 DEF IsRun
    <3> QED BY <1>2, <2>1, <3>1 DEF IsRun
  <2>3. i - m \in Nat /\ (i + 1) - m = (i - m) + 1
    BY <2>1 DEF IsRun
  <2>4. ((i + 1) - m) % 2 = 1 <=> ~((i - m) % 2 = 1)
    BY <2>3
  <2>5. IsEscaped(x, i) <=> (i - m) % 2 = 1
    BY <2>1, EscapedByRun
  <2>6. IsEscaped(x, i + 1) <=> ((i + 1) - m) % 2 = 1
    BY <2>2, EscapedByRun
  <2> QED BY <1>2, <2>4, <2>5, <2>6
<1>3. CASE i > 1 /\ x[i] # "\\"
  <2>1. IsRun(x, i + 1, i + 1)
    <3>1. i + 1 \in 2..(i + 1) /\ (i + 1)..((i + 1) - 1) = {} /\ (i + 1) - 1 = i
      OBVIOUS
    <3> QED BY <1>3, <3>1 DEF IsRun
  <2>2. ((i + 1) - (i + 1)) % 2 # 1
    OBVIOUS
  <2>3. IsEscaped(x, i + 1) <=> ((i + 1) - (i + 1)) % 2 = 1
    BY <2>1, EscapedByRun
  <2> QED BY <1>3, <2>2, <2>3
<1> QED BY <1>1, <1>2, <1>3

\* It depends on what stands before.
LEMMA EscapedPrefix ==
    ASSUME NEW x, NEW y, NEW n \in Nat, \A j \in 1..n : x[j] = y[j],
           NEW i \in 1..(n + 1)
    PROVE  IsEscaped(x, i) <=> IsEscaped(y, i)
<1>1. \A k \in 1..(i - 2) : \A j \in (i - k)..(i - 1) : x[j] = y[j]
  OBVIOUS
<1>2. \A k \in 1..(i - 2) : i - k = 2 \/ x[i - k - 1] = y[i - k - 1]
  OBVIOUS
<1> QED BY <1>1, <1>2 DEF IsEscaped

-----------------------------------------------------------------------------
(* Strings.                                                                *)

\* Texts with the same beginning give the same value so far.
LEMMA SameMeanings ==
    ASSUME NEW x, NEW y, NEW n \in Nat, \A j \in 1..n : y[j] = x[j]
    PROVE  /\ \A i \in 1..n : Meaning(y, i) = Meaning(x, i)
           /\ \A i \in 1..(n + 1) : IsEscaped(y, i) <=> IsEscaped(x, i)
           /\ Meant(y, n) = Meant(x, n)
<1>1. \A i \in 1..(n + 1) : IsEscaped(y, i) <=> IsEscaped(x, i)
  BY EscapedPrefix
<1>2. \A i \in 1..n : i \in 1..(n + 1)
  OBVIOUS
<1>3. \A i \in 2..n : i \in 1..n
  OBVIOUS
<1> QED BY <1>1, <1>2, <1>3 DEF Meaning, Meant

LEMMA MeantIsFinite ==
    ASSUME NEW x, NEW n \in Nat
    PROVE  /\ Meant(x, n) \subseteq 2..n /\ IsFiniteSet(Meant(x, n))
           /\ Cardinality(Meant(x, n)) \in Nat
           /\ \A i \in Meant(x, n) :
                 Cardinality({j \in Meant(x, n) : j <= i})
                    \in 1..Cardinality(Meant(x, n))
<1>1. Meant(x, n) \subseteq 2..n
  BY DEF Meant
<1>2. IsFiniteSet(2..n)
  BY FS_Interval
<1>3. IsFiniteSet(Meant(x, n)) /\ Cardinality(Meant(x, n)) \in Nat
  BY <1>1, <1>2, FS_Subset, FS_CardinalityType
<1>4. ASSUME NEW i \in Meant(x, n)
      PROVE  Cardinality({j \in Meant(x, n) : j <= i})
                \in 1..Cardinality(Meant(x, n))
  <2> DEFINE B == {j \in Meant(x, n) : j <= i}
  <2>1. B \subseteq Meant(x, n) /\ i \in B
    BY <1>1
  <2> HIDE DEF B
  <2>2. IsFiniteSet(B) /\ Cardinality(B) \in Nat
        /\ Cardinality(B) <= Cardinality(Meant(x, n))
    BY <1>3, <2>1, FS_Subset, FS_CardinalityType
  <2>3. Cardinality(B) # 0
    BY <2>1, <2>2, FS_EmptySet
  <2>4. Cardinality(B) \in 1..Cardinality(Meant(x, n))
    BY <1>3, <2>2, <2>3
  <2> QED BY <2>4 DEF B
<1> QED BY <1>1, <1>3, <1>4

LEMMA GivesSame ==
    ASSUME NEW v, NEW x, NEW y, NEW n \in Nat, NEW k \in Nat, Gives(v, x, n),
           \A j \in 1..n : y[j] = x[j], Meant(y, k) = Meant(x, n)
    PROVE  Gives(v, y, k)
<1>1. \A i \in Meant(x, n) : i \in 1..n
  BY MeantIsFinite
<1>2. \A i \in Meant(x, n) : Meaning(y, i) = Meaning(x, i)
  BY <1>1, SameMeanings
<1> QED BY <1>2 DEF Gives

LEMMA GivesMore ==
    ASSUME NEW S, NEW v \in Seq(S), NEW x, NEW y, NEW n \in Nat, NEW k \in Nat, k > n,
           Gives(v, x, n), \A j \in 1..n : y[j] = x[j],
           Meant(y, k) = Meant(x, n) \cup {k}, Meaning(y, k) \in S
    PROVE  Gives(Append(v, Meaning(y, k)), y, k)
<1> DEFINE M == Meant(x, n)
           c == Meaning(y, k)
           w == Append(v, c)
<1>1. /\ M \subseteq 2..n /\ IsFiniteSet(M) /\ Cardinality(M) \in Nat
      /\ \A i \in M : Cardinality({j \in M : j <= i}) \in 1..Cardinality(M)
  BY MeantIsFinite
<1>2. Len(v) = Cardinality(M)
      /\ \A i \in M : v[Cardinality({j \in M : j <= i})] = Meaning(x, i)
  BY DEF Gives
<1>3. /\ Len(w) = Len(v) + 1 /\ w[Len(v) + 1] = c
      /\ \A i \in 1..Len(v) : w[i] = v[i]
  OBVIOUS
<1>8. \A i \in 1..n : Meaning(y, i) = Meaning(x, i)
  BY SameMeanings
<1>4. k \notin M
  BY <1>1
<1>5. Cardinality(M \cup {k}) = Cardinality(M) + 1
  BY <1>1, <1>4, FS_AddElement
<1> HIDE DEF M, c, w
<1>6. Len(w) = Cardinality(M \cup {k})
  BY <1>2, <1>3, <1>5
<1>7. ASSUME NEW i \in M \cup {k}
      PROVE  w[Cardinality({j \in M \cup {k} : j <= i})] = Meaning(y, i)
  <2>1. CASE i = k
    <3> DEFINE B == {j \in M \cup {k} : j <= i}
    <3>0. \A j \in M \cup {k} : j <= i
      BY <1>1, <2>1
    <3>1. B = M \cup {k}
      BY <3>0
    <3> HIDE DEF B
    <3>2. w[Cardinality(B)] = Meaning(y, i)
      BY <1>2, <1>3, <1>5, <2>1, <3>1 DEF c
    <3> QED BY <3>2 DEF B
  <2>2. CASE i \in M
    <3> DEFINE B == {j \in M \cup {k} : j <= i}
               A == {j \in M : j <= i}
    <3>1. B = A
      BY <1>1, <2>2
    <3>2. Cardinality(A) \in 1..Len(v) /\ v[Cardinality(A)] = Meaning(x, i)
      BY <1>1, <1>2, <2>2
    <3> HIDE DEF A, B
    <3>3. i \in 1..n
      BY <1>1, <2>2
    <3>4. Meaning(y, i) = Meaning(x, i)
      BY <1>8, <3>3
    <3>5. w[Cardinality(B)] = Meaning(y, i)
      BY <1>3, <3>1, <3>2, <3>4
    <3> QED BY <3>5 DEF B
  <2> QED BY <2>1, <2>2
<1> QED BY <1>6, <1>7 DEF Gives, M, c, w

\* A character is read that is neither a quote nor a backslash.
LEMMA OpenChar ==
    ASSUME NEW x \in Seq(Char), NEW v \in Seq(LexemeChar), OpenString(v, x),
           NEW c \in Char, c # QUOTE, c # "\\"
    PROVE  OpenString(IF c = LF THEN v ELSE Append(v, c), Append(x, c))
<1> DEFINE y == Append(x, c)
           n == Len(x)
           w == IF c = LF THEN v ELSE Append(v, c)
<1>1. /\ n \in Nat /\ n > 0 /\ Len(y) = n + 1 /\ y[n + 1] = c
      /\ \A j \in 1..n : y[j] = x[j]
  BY DEF OpenString
<1> HIDE DEF y, n
<1>2. /\ ~IsEscaped(x, n + 1) /\ x[1] = QUOTE
      /\ \A i \in 2..n : x[i] = QUOTE => IsEscaped(x, i)
      /\ HasBadEscape(x) \/ Gives(v, x, n)
  BY DEF OpenString, n
<1>3. \A i \in 1..(n + 1) : IsEscaped(y, i) <=> IsEscaped(x, i)
  BY <1>1, EscapedPrefix
<1>4. ~IsEscaped(y, n + 1)
  BY <1>1, <1>2, <1>3
<1>5. ~IsEscaped(y, (n + 1) + 1)
  BY <1>1, EscapedNext
<1>6. \A i \in 2..(n + 1) : y[i] = QUOTE => IsEscaped(y, i)
  <2> SUFFICES ASSUME NEW i \in 2..(n + 1), y[i] = QUOTE PROVE IsEscaped(y, i)
    OBVIOUS
  <2>1. i \in 2..n
    BY <1>1
  <2> QED BY <1>1, <1>2, <1>3, <2>1
<1>7. HasBadEscape(x) => HasBadEscape(y)
  BY <1>1, <1>3 DEF HasBadEscape, n
<1>8. Gives(v, x, n) => Gives(w, y, n + 1)
  <2> SUFFICES ASSUME Gives(v, x, n) PROVE Gives(w, y, n + 1)
    OBVIOUS
  <2>1. \A i \in 2..(n + 1) : i \in 2..n \/ i = n + 1
    BY <1>1
  <2>2. Meant(y, n) = Meant(x, n)
    BY <1>1, SameMeanings
  <2>3. Meant(y, n + 1) = Meant(y, n) \cup {i \in {n + 1} : c \notin {"\\", LF}}
    <3>1. 2..n \subseteq 2..(n + 1) /\ n + 1 \in 2..(n + 1)
      BY <1>1
    <3> QED BY <1>1, <1>4, <2>1, <3>1 DEF Meant
  <2>4. CASE c = LF
    <3>1. Meant(y, n + 1) = Meant(x, n)
      BY <2>2, <2>3, <2>4
    <3> QED BY <1>1, <2>4, <3>1, GivesSame
  <2>5. CASE c # LF
    <3>1. Meant(y, n + 1) = Meant(x, n) \cup {n + 1}
      BY <2>2, <2>3, <2>5
    <3>2. Meaning(y, n + 1) = c /\ c \in LexemeChar
      BY <1>1, <1>4, CharsAre DEF Meaning
    <3>3. n + 1 \in Nat /\ n + 1 > n
      BY <1>1
    <3>4. Gives(Append(v, Meaning(y, n + 1)), y, n + 1)
      <4>1. n \in Nat /\ \A j \in 1..n : y[j] = x[j]
        BY <1>1
      <4>2. Meaning(y, n + 1) \in LexemeChar
        BY <3>2
      <4> HIDE DEF y, n
      <4> QED BY <3>1, <3>3, <4>1, <4>2, GivesMore
    <3> QED BY <2>5, <3>2, <3>4
  <2> QED BY <2>4, <2>5
<1> HIDE DEF w
<1>9. y[1] = QUOTE
  BY <1>1, <1>2
<1>10. OpenString(w, y)
  BY <1>1, <1>2, <1>5, <1>6, <1>7, <1>8, <1>9 DEF OpenString
<1> QED BY <1>10 DEF w, y

\* A backslash is read and the character after it.
LEMMA OpenPair ==
    ASSUME NEW x \in Seq(Char), NEW v \in Seq(LexemeChar), OpenString(v, x),
           NEW d \in Char, NEW w,
           d \in DOMAIN Escape => w = Append(v, Escape[d])
    PROVE  OpenString(w, Append(Append(x, "\\"), d))
<1> DEFINE y == Append(Append(x, "\\"), d)
           n == Len(x)
<1>1. /\ n \in Nat /\ n > 0 /\ Len(y) = n + 2 /\ y[n + 1] = "\\" /\ y[n + 2] = d
      /\ \A j \in 1..n : y[j] = x[j]
  BY DEF OpenString, Char, Known, Escape
<1> HIDE DEF y, n
<1>2. /\ ~IsEscaped(x, n + 1) /\ x[1] = QUOTE
      /\ \A i \in 2..n : x[i] = QUOTE => IsEscaped(x, i)
      /\ HasBadEscape(x) \/ Gives(v, x, n)
  BY DEF OpenString, n
<1>3. \A i \in 1..(n + 1) : IsEscaped(y, i) <=> IsEscaped(x, i)
  BY <1>1, EscapedPrefix
<1>4. ~IsEscaped(y, n + 1)
  BY <1>1, <1>2, <1>3
<1>5. IsEscaped(y, n + 2)
  <2>1. n + 1 > 1 /\ n + 1 > 0 /\ n + 1 \in Nat /\ (n + 1) + 1 = n + 2
    BY <1>1
  <2>2. IsEscaped(y, (n + 1) + 1)
    BY <1>1, <1>4, <2>1, EscapedNext
  <2> QED BY <2>1, <2>2
<1>6. ~IsEscaped(y, (n + 2) + 1)
  <2>1. n + 2 > 0 /\ n + 2 \in Nat
    BY <1>1
  <2> QED BY <1>5, <2>1, EscapedNext
<1>7. \A i \in 2..(n + 2) : i \in 2..n \/ i = n + 1 \/ i = n + 2
  BY <1>1
<1>8. \A i \in 2..(n + 2) : y[i] = QUOTE => IsEscaped(y, i)
  <2> SUFFICES ASSUME NEW i \in 2..(n + 2), y[i] = QUOTE PROVE IsEscaped(y, i)
    OBVIOUS
  <2>3. QUOTE # "\\"
    BY DEF QUOTE
  <2>1. i \in 2..n \/ i = n + 2
    BY <1>1, <1>7, <2>3
  <2>2. \A k \in 2..n : k \in 1..(n + 1) /\ k \in 1..n
    BY <1>1
  <2> QED BY <1>1, <1>2, <1>3, <1>5, <2>1, <2>2
<1>9. HasBadEscape(x) => HasBadEscape(y)
  BY <1>1, <1>3 DEF HasBadEscape, n
<1>10. d \notin DOMAIN Escape => HasBadEscape(y)
  <2>1. n + 2 \in 2..Len(y)
    BY <1>1
  <2> QED BY <1>1, <1>5, <2>1 DEF HasBadEscape
<1>11. d \in DOMAIN Escape /\ Gives(v, x, n) => Gives(w, y, n + 2)
  <2> SUFFICES ASSUME d \in DOMAIN Escape, Gives(v, x, n) PROVE Gives(w, y, n + 2)
    OBVIOUS
  <2>1. Meant(y, n) = Meant(x, n)
    BY <1>1, SameMeanings
  <2>2. Meant(y, n + 2) = Meant(y, n) \cup {n + 2}
    <3>1. 2..n \subseteq 2..(n + 2) /\ n + 2 \in 2..(n + 2)
      BY <1>1
    <3> QED BY <1>1, <1>4, <1>5, <1>7, <3>1 DEF Meant
  <2>3. Meaning(y, n + 2) = Escape[d] /\ Escape[d] \in LexemeChar
    BY <1>1, <1>5, EscapesAre DEF Meaning
  <2>4. n + 2 \in Nat /\ n + 2 > n
    BY <1>1
  <2>5. Gives(Append(v, Meaning(y, n + 2)), y, n + 2)
    <3>1. /\ n \in Nat /\ \A j \in 1..n : y[j] = x[j]
          /\ Meant(y, n + 2) = Meant(x, n) \cup {n + 2}
      BY <1>1, <2>1, <2>2
    <3>2. Meaning(y, n + 2) \in LexemeChar
      BY <2>3
    <3> HIDE DEF y, n
    <3> QED BY <2>4, <3>1, <3>2, GivesMore
  <2> QED BY <2>3, <2>5
<1>12. y[1] = QUOTE
  BY <1>1, <1>2
<1>13. OpenString(w, y)
  BY <1>1, <1>2, <1>6, <1>8, <1>9, <1>10, <1>11, <1>12 DEF OpenString
<1> QED BY <1>13 DEF y

\* A quote is read: the string is complete.
LEMMA OpenEnds ==
    ASSUME NEW x \in Seq(Char), NEW v \in Seq(LexemeChar), OpenString(v, x)
    PROVE  /\ IsString(Append(x, QUOTE))
           /\ HasBadEscape(Append(x, QUOTE)) \/ IsValue(v, Append(x, QUOTE))
<1> DEFINE y == Append(x, QUOTE)
           n == Len(x)
<1>1. /\ n \in Nat /\ n > 0 /\ Len(y) = n + 1 /\ y[n + 1] = QUOTE
      /\ \A j \in 1..n : y[j] = x[j]
  BY DEF OpenString, Char, Known
<1> HIDE DEF y, n
<1>2. /\ ~IsEscaped(x, n + 1) /\ x[1] = QUOTE
      /\ \A i \in 2..n : x[i] = QUOTE => IsEscaped(x, i)
      /\ HasBadEscape(x) \/ Gives(v, x, n)
  BY DEF OpenString, n
<1>3. \A i \in 1..(n + 1) : IsEscaped(y, i) <=> IsEscaped(x, i)
  BY <1>1, EscapedPrefix
<1>4. ~IsEscaped(y, n + 1)
  BY <1>1, <1>2, <1>3
<1>5. \A i \in 2..(n + 1) : i = n + 1 \/ (i \in 2..n /\ i \in 1..n /\ i \in 1..(n + 1))
  BY <1>1
<1>6. \A i \in 2..(n + 1) : (y[i] = QUOTE /\ ~IsEscaped(y, i)) <=> i = n + 1
  BY <1>1, <1>2, <1>3, <1>4, <1>5
<1>7. y[1] = QUOTE /\ Len(y) > 1
  BY <1>1, <1>2
<1>8. HasBadEscape(x) => HasBadEscape(y)
  BY <1>1, <1>3 DEF HasBadEscape, n
<1>9. Gives(v, x, n) => IsValue(v, y)
  <2> SUFFICES ASSUME Gives(v, x, n) PROVE IsValue(v, y)
    OBVIOUS
  <2>1. Meant(y, n) = Meant(x, n)
    BY <1>1, SameMeanings
  <2>2. Gives(v, y, n)
    BY <1>1, <2>1, GivesSame
  <2>3. Contents(y) = Meant(y, n)
    <3>1. Len(y) - 1 = n
      BY <1>1
    <3> QED BY <3>1 DEF Contents, Meant
  <2> QED BY <2>2, <2>3 DEF IsValue, Gives
<1>10. IsString(y)
  BY <1>1, <1>6, <1>7 DEF IsString
<1> QED BY <1>2, <1>8, <1>9, <1>10 DEF y

\* No string begins with another.
LEMMA StringsDiffer ==
    ASSUME NEW y, Len(y) \in Nat, IsString(y), NEW z, Len(z) \in Nat,
           Len(z) > Len(y), \A j \in 1..Len(y) : z[j] = y[j]
    PROVE  ~IsString(z)
<1> DEFINE n == Len(y)
<1>1. n \in 2..Len(y) /\ n \in 2..Len(z) /\ n \in 1..n /\ n \in 1..(n + 1) /\ n # Len(z)
  BY DEF IsString
<1>2. y[n] = QUOTE /\ ~IsEscaped(y, n)
  BY <1>1 DEF IsString
<1>3. z[n] = QUOTE /\ ~IsEscaped(z, n)
  BY <1>1, <1>2, EscapedPrefix
<1> QED BY <1>1, <1>3 DEF IsString

-----------------------------------------------------------------------------
(* Which texts are tokens.                                                 *)

LEMMA CharsDiffer ==
    /\ Letters \cap Digits = {} /\ (Letters \cup Digits) \cap Special = {}
    /\ (Letters \cup Digits) \cap DOMAIN Second = {}
    /\ Special \cap DOMAIN Second = {}
    /\ QUOTE \notin Letters /\ QUOTE \notin Digits /\ QUOTE \notin Special
    /\ QUOTE \notin DOMAIN Second /\ "/" \notin Letters
<1>1. /\ Letters \cap Digits = {} /\ (Letters \cup Digits) \cap Special = {}
      /\ "/" \notin Letters
  BY DEF Letters, Digits, Special
<1>2. (Letters \cup Digits) \cap DOMAIN Second = {}
  BY DEF Letters, Digits, Second
<1>3. Special \cap DOMAIN Second = {}
  BY DEF Special, Second
<1>4. QUOTE \notin Letters
  BY DEF QUOTE, Letters
<1>5. QUOTE \notin Digits
  BY DEF QUOTE, Digits
<1>6. QUOTE \notin Special
  BY DEF QUOTE, Special
<1>7. QUOTE \notin DOMAIN Second
  BY DEF QUOTE, Second
<1> QED BY <1>1, <1>2, <1>3, <1>4, <1>5, <1>6, <1>7

LEMMA SecondIs ==
    /\ DOMAIN Second = {"+", "-", "/", "*", "%", "^", "<", ">", "=", "!", "&", "|"}
    /\ Second["+"] = {"+"} /\ Second["-"] = {"-"} /\ Second["&"] = {"&"}
    /\ Second["|"] = {"|"} /\ Second["<"] = {"<", "="} /\ Second[">"] = {">", "="}
    /\ Second["="] = {"="} /\ Second["!"] = {"="} /\ Second["/"] = {}
    /\ Second["*"] = {} /\ Second["%"] = {} /\ Second["^"] = {}
BY DEF Second

\* The operators are what the lexer looks for.
LEMMA OperatorsAre ==
    /\ \A c \in DOMAIN Second :
          <<c>> \in Operators /\ \A d \in Second[c] : <<c, d>> \in Operators
    /\ \A x \in Operators :
          \E c \in DOMAIN Second : x = <<c>> \/ \E d \in Second[c] : x = <<c, d>>
<1>1. ASSUME NEW c \in DOMAIN Second PROVE <<c>> \in Operators
  BY SecondIs DEF Operators
<1>2. ASSUME NEW c \in DOMAIN Second, NEW d \in Second[c]
      PROVE  <<c, d>> \in Operators
  BY SecondIs DEF Operators
<1>3. ASSUME NEW x \in Operators
      PROVE  \E c \in DOMAIN Second : x = <<c>> \/ \E d \in Second[c] : x = <<c, d>>
  BY SecondIs DEF Operators
<1> QED BY <1>1, <1>2, <1>3

LEMMA PunctuationIs ==
    ASSUME NEW x, IsPunctuation(x)
    PROVE  \/ \E c \in Special \cup DOMAIN Second : x = <<c>>
           \/ \E c \in DOMAIN Second : \E d \in Second[c] : x = <<c, d>>
<1>1. CASE x \in Operators
  BY <1>1, OperatorsAre
<1>2. CASE x \in {<<p>> : p \in Special}
  BY <1>2
<1> QED BY <1>1, <1>2 DEF IsPunctuation

\* The first character tells of what kind a token is.
LEMMA KindsAre ==
    ASSUME NEW x \in Seq(Char)
    PROVE  /\ IsWord(x) => x[1] \in Letters
           /\ IsNumber(x) => x[1] \in Digits
           /\ IsString(x) => x[1] = QUOTE
           /\ IsPunctuation(x) => x[1] \in Special \cup DOMAIN Second
<1>1. IsWord(x) => x[1] \in Letters
  BY DEF IsWord
<1>2. IsNumber(x) => x[1] \in Digits
  <2>1. x # <<>> => 1 \in DOMAIN x
    OBVIOUS
  <2> QED BY <2>1 DEF IsNumber
<1>3. IsString(x) => x[1] = QUOTE
  BY DEF IsString
<1>4. ASSUME IsPunctuation(x) PROVE x[1] \in Special \cup DOMAIN Second
  <2>1. CASE \E c \in Special \cup DOMAIN Second : x = <<c>>
    BY <2>1
  <2>2. CASE \E c \in DOMAIN Second : \E d \in Second[c] : x = <<c, d>>
    BY <2>2
  <2> QED BY <1>4, <2>1, <2>2, PunctuationIs
<1> QED BY <1>1, <1>2, <1>3, <1>4

\* A part of the file.
LEMMA TextIs ==
    ASSUME input \in Seq(Char), NEW a \in 1..(Len(input) + 1), NEW b \in (a - 1)..Len(input)
    PROVE  /\ SubSeq(input, a, b) \in Seq(Char)
           /\ Len(SubSeq(input, a, b)) = b - a + 1 /\ b - a + 1 \in Nat
           /\ \A i \in 1..(b - a + 1) : SubSeq(input, a, b)[i] = input[a + i - 1]
<1>1. Len(input) \in Nat /\ a \in Int /\ b \in Int /\ b - a + 1 \in Nat
  OBVIOUS
<1>2. \A i \in a..b : input[i] \in Char
  BY <1>1
<1>3. SubSeq(input, a, b) \in Seq(Char)
  BY <1>1, <1>2, SubSeqProperties
<1>4. Len(SubSeq(input, a, b)) = b - a + 1
  BY <1>1, SubSeqProperties
<1>5. \A i \in 1..(b - a + 1) : SubSeq(input, a, b)[i] = input[a + i - 1]
  BY <1>1, SubSeqProperties
<1> QED BY <1>1, <1>3, <1>4, <1>5

\* One that is longer.
LEMMA LongerText ==
    ASSUME input \in Seq(Char), NEW a \in 1..Len(input), NEW b \in a..Len(input),
           NEW j \in (b + 1)..Len(input)
    PROVE  /\ SubSeq(input, a, j) \in Seq(Char)
           /\ Len(SubSeq(input, a, j)) = j - a + 1 /\ b - a + 2 \in 1..(j - a + 1)
           /\ SubSeq(input, a, j)[1] = input[a]
           /\ SubSeq(input, a, j)[b - a + 2] = input[b + 1]
           /\ \A i \in 1..(b - a + 1) : SubSeq(input, a, j)[i] = SubSeq(input, a, b)[i]
<1>1. /\ a \in 1..(Len(input) + 1) /\ j \in (a - 1)..Len(input)
      /\ b \in (a - 1)..Len(input)
  OBVIOUS
<1>2. /\ SubSeq(input, a, j) \in Seq(Char) /\ Len(SubSeq(input, a, j)) = j - a + 1
      /\ \A i \in 1..(j - a + 1) : SubSeq(input, a, j)[i] = input[a + i - 1]
  BY <1>1, TextIs
<1>3. \A i \in 1..(b - a + 1) : SubSeq(input, a, b)[i] = input[a + i - 1]
  BY <1>1, TextIs
<1>4. /\ 1 \in 1..(j - a + 1) /\ a + 1 - 1 = a
      /\ b - a + 2 \in 1..(j - a + 1) /\ a + (b - a + 2) - 1 = b + 1
      /\ \A i \in 1..(b - a + 1) : i \in 1..(j - a + 1)
  OBVIOUS
<1>5. SubSeq(input, a, j)[1] = input[a]
  BY <1>2, <1>4
<1>6. SubSeq(input, a, j)[b - a + 2] = input[b + 1]
  BY <1>2, <1>4
<1> QED BY <1>2, <1>3, <1>4, <1>5, <1>6

-----------------------------------------------------------------------------
(* Which answers are right.                                                *)

\* A token is a slash only if its text is.
LEMMA SlashIs ==
    /\ ID # <<"/">> /\ NUM # <<"/">> /\ STRLIT # <<"/">>
    /\ \A x \in Seq(Char) : x # <<>> /\ x[1] # "/" => x # <<"/">>
BY DEF ID, NUM, STRLIT

LEMMA RightWord ==
    ASSUME input \in Seq(Char), NEW a \in 1..Len(input), NEW b \in a..Len(input),
           \A i \in a..b : input[i] \in Letters \cup Digits, input[a] \in Letters,
           b < Len(input) => input[b + 1] \notin Letters \cup Digits,
           NEW t, t.first = a, t.last = b,
           t.token = IF SubSeq(input, a, b) \in Reserved
                     THEN SubSeq(input, a, b) ELSE ID,
           t.lexeme = IF SubSeq(input, a, b) \in Reserved
                      THEN <<>> ELSE SubSeq(input, a, b)
    PROVE  Right(t)
<1> DEFINE x == SubSeq(input, a, b)
<1>1. a \in 1..(Len(input) + 1) /\ b \in (a - 1)..Len(input) /\ b - a + 1 \in Nat
      /\ 1 \in 1..(b - a + 1) /\ a + 1 - 1 = a
  OBVIOUS
<1>2. /\ x \in Seq(Char) /\ Len(x) = b - a + 1
      /\ \A i \in 1..(b - a + 1) : x[i] = input[a + i - 1]
  BY <1>1, TextIs
<1> HIDE DEF x
<1>3. x[1] = input[a] /\ x[1] \in Letters /\ x # <<>>
  BY <1>1, <1>2
<1>4. \A i \in DOMAIN x : x[i] \in Letters \cup Digits
  <2> SUFFICES ASSUME NEW i \in 1..(b - a + 1) PROVE x[i] \in Letters \cup Digits
    BY <1>2
  <2>1. a + i - 1 \in a..b
    OBVIOUS
  <2> QED BY <1>2, <2>1
<1>5. IsWord(x)
  BY <1>3, <1>4 DEF IsWord
<1>6. ~IsNumber(x) /\ ~IsString(x) /\ ~IsPunctuation(x)
  BY <1>2, <1>3, KindsAre, CharsDiffer
<1>7. t.token = TokenOf(x)
  BY <1>5, <1>6 DEF TokenOf, x
<1>8. IsLexeme(t.lexeme, x)
  BY <1>5, <1>6 DEF IsLexeme, x
<1>9. ASSUME NEW j \in (b + 1)..Len(input) PROVE ~IsToken(SubSeq(input, a, j))
  <2> DEFINE z == SubSeq(input, a, j)
  <2>5. /\ z \in Seq(Char) /\ Len(z) = j - a + 1 /\ z[1] = input[a]
    BY LongerText
  <2>6. b - a + 2 \in 1..(j - a + 1)
    OBVIOUS
  <2>7. z[b - a + 2] = input[b + 1]
    BY LongerText
  <2> HIDE DEF z
  <2>1. /\ z \in Seq(Char) /\ b - a + 2 \in DOMAIN z
        /\ z[1] = input[a] /\ z[b - a + 2] = input[b + 1]
    BY <2>5, <2>6, <2>7
  <2>2. b < Len(input)
    OBVIOUS
  <2>3. ~IsWord(z)
    BY <2>1, <2>2 DEF IsWord
  <2>4. ~IsNumber(z) /\ ~IsString(z) /\ ~IsPunctuation(z)
    BY <1>3, <2>1, KindsAre, CharsDiffer
  <2> QED BY <2>3, <2>4 DEF IsToken, z
<1>10. t.token # <<"/">>
  <2>1. x # <<"/">>
    BY <1>2, <1>3, CharsDiffer, SlashIs
  <2> QED BY <2>1, SlashIs DEF x
<1> QED BY <1>5, <1>7, <1>8, <1>9, <1>10 DEF Right, IsToken, x

LEMMA RightNumber ==
    ASSUME input \in Seq(Char), NEW a \in 1..Len(input), NEW b \in a..Len(input),
           \A i \in a..b : input[i] \in Digits,
           b < Len(input) => input[b + 1] \notin Digits,
           NEW t, t.first = a, t.last = b, t.token = NUM,
           t.lexeme = SubSeq(input, a, b)
    PROVE  Right(t)
<1> DEFINE x == SubSeq(input, a, b)
<1>1. a \in 1..(Len(input) + 1) /\ b \in (a - 1)..Len(input) /\ b - a + 1 \in Nat
      /\ 1 \in 1..(b - a + 1) /\ a + 1 - 1 = a /\ a \in a..b
  OBVIOUS
<1>2. /\ x \in Seq(Char) /\ Len(x) = b - a + 1
      /\ \A i \in 1..(b - a + 1) : x[i] = input[a + i - 1]
  BY <1>1, TextIs
<1> HIDE DEF x
<1>3. x[1] = input[a] /\ x[1] \in Digits /\ x # <<>>
  BY <1>1, <1>2
<1>4. \A i \in DOMAIN x : x[i] \in Digits
  <2> SUFFICES ASSUME NEW i \in 1..(b - a + 1) PROVE x[i] \in Digits
    BY <1>2
  <2>1. a + i - 1 \in a..b
    OBVIOUS
  <2> QED BY <1>2, <2>1
<1>5. IsNumber(x)
  BY <1>3, <1>4 DEF IsNumber
<1>6. ~IsWord(x) /\ ~IsString(x) /\ ~IsPunctuation(x)
  BY <1>2, <1>3, KindsAre, CharsDiffer
<1>7. t.token = TokenOf(x)
  BY <1>5, <1>6 DEF TokenOf
<1>8. IsLexeme(t.lexeme, x)
  BY <1>5, <1>6 DEF IsLexeme, x
<1>9. ASSUME NEW j \in (b + 1)..Len(input) PROVE ~IsToken(SubSeq(input, a, j))
  <2> DEFINE z == SubSeq(input, a, j)
  <2>5. /\ z \in Seq(Char) /\ Len(z) = j - a + 1 /\ z[1] = input[a]
    BY LongerText
  <2>6. b - a + 2 \in 1..(j - a + 1)
    OBVIOUS
  <2>7. z[b - a + 2] = input[b + 1]
    BY LongerText
  <2> HIDE DEF z
  <2>1. /\ z \in Seq(Char) /\ b - a + 2 \in DOMAIN z
        /\ z[1] = input[a] /\ z[b - a + 2] = input[b + 1]
    BY <2>5, <2>6, <2>7
  <2>2. b < Len(input)
    OBVIOUS
  <2>3. ~IsNumber(z)
    BY <2>1, <2>2 DEF IsNumber
  <2>4. ~IsWord(z) /\ ~IsString(z) /\ ~IsPunctuation(z)
    BY <1>3, <2>1, KindsAre, CharsDiffer
  <2> QED BY <2>3, <2>4 DEF IsToken, z
<1> QED BY <1>5, <1>7, <1>8, <1>9, SlashIs DEF Right, IsToken, x

LEMMA RightString ==
    ASSUME input \in Seq(Char), NEW a \in 1..Len(input), NEW b \in a..Len(input),
           IsString(SubSeq(input, a, b)),
           NEW t, t.first = a, t.last = b, t.token = STRLIT,
           HasBadEscape(SubSeq(input, a, b)) \/ IsValue(t.lexeme, SubSeq(input, a, b))
    PROVE  Right(t)
<1> DEFINE x == SubSeq(input, a, b)
<1>1. a \in 1..(Len(input) + 1) /\ b \in (a - 1)..Len(input) /\ b - a + 1 \in Nat
      /\ 1 \in 1..(b - a + 1) /\ a + 1 - 1 = a
  OBVIOUS
<1>2. /\ x \in Seq(Char) /\ Len(x) = b - a + 1
      /\ \A i \in 1..(b - a + 1) : x[i] = input[a + i - 1]
  BY <1>1, TextIs
<1> HIDE DEF x
<1>3. IsString(x) /\ x[1] = QUOTE
  BY <1>2, KindsAre DEF x
<1>6. ~IsWord(x) /\ ~IsNumber(x) /\ ~IsPunctuation(x)
  BY <1>2, <1>3, KindsAre, CharsDiffer
<1>7. t.token = TokenOf(x)
  BY <1>3, <1>6 DEF TokenOf
<1>8. IsLexeme(t.lexeme, x)
  BY <1>3, <1>6 DEF IsLexeme, x
<1>9. ASSUME NEW j \in (b + 1)..Len(input) PROVE ~IsToken(SubSeq(input, a, j))
  <2> DEFINE z == SubSeq(input, a, j)
  <2>1. /\ z \in Seq(Char) /\ Len(z) = j - a + 1
        /\ z[1] = input[a] /\ \A i \in 1..(b - a + 1) : z[i] = SubSeq(input, a, b)[i]
    BY LongerText
  <2> HIDE DEF z
  <2>2. Len(x) \in Nat /\ Len(z) \in Nat /\ Len(z) > Len(x)
        /\ \A i \in 1..Len(x) : z[i] = x[i]
    BY <1>1, <1>2, <2>1 DEF x
  <2>3. ~IsString(z)
    BY <1>3, <2>2, StringsDiffer
  <2>4. z[1] = QUOTE
    BY <1>1, <1>2, <1>3, <2>2
  <2>5. ~IsWord(z) /\ ~IsNumber(z) /\ ~IsPunctuation(z)
    BY <2>1, <2>4, KindsAre, CharsDiffer
  <2> QED BY <2>3, <2>5 DEF IsToken, z
<1> QED BY <1>3, <1>7, <1>8, <1>9, SlashIs DEF Right, IsToken, x

\* What is common to operators and special characters.
LEMMA RightPunctuation ==
    ASSUME input \in Seq(Char), NEW a \in 1..Len(input), NEW b \in a..Len(input),
           NEW t, t.first = a, t.last = b, t.token = SubSeq(input, a, b),
           t.lexeme = <<>>, IsPunctuation(SubSeq(input, a, b)),
           \A j \in (b + 1)..Len(input) : ~IsPunctuation(SubSeq(input, a, j)),
           t.token = <<"/">> => a = Len(input) \/ input[a + 1] # "/"
    PROVE  Right(t)
<1> DEFINE x == SubSeq(input, a, b)
<1>1. a \in 1..(Len(input) + 1) /\ b \in (a - 1)..Len(input) /\ b - a + 1 \in Nat
      /\ 1 \in 1..(b - a + 1) /\ a + 1 - 1 = a
  OBVIOUS
<1>2. /\ x \in Seq(Char) /\ Len(x) = b - a + 1
      /\ \A i \in 1..(b - a + 1) : x[i] = input[a + i - 1]
  BY <1>1, TextIs
<1> HIDE DEF x
<1>3. IsPunctuation(x) /\ x[1] \in Special \cup DOMAIN Second /\ x[1] = input[a]
  <2>1. IsPunctuation(x)
    BY DEF x
  <2> QED BY <1>1, <1>2, <2>1, KindsAre
<1>6. ~IsWord(x) /\ ~IsNumber(x) /\ ~IsString(x)
  BY <1>2, <1>3, KindsAre, CharsDiffer
<1>7. t.token = TokenOf(x)
  BY <1>3, <1>6 DEF TokenOf, x
<1>8. IsLexeme(t.lexeme, x)
  BY <1>3, <1>6 DEF IsLexeme
<1>9. ASSUME NEW j \in (b + 1)..Len(input) PROVE ~IsToken(SubSeq(input, a, j))
  <2> DEFINE z == SubSeq(input, a, j)
  <2>1. z \in Seq(Char) /\ z[1] = input[a]
    BY LongerText
  <2>2. ~IsPunctuation(z)
    OBVIOUS
  <2> HIDE DEF z
  <2>3. ~IsWord(z) /\ ~IsNumber(z) /\ ~IsString(z)
    BY <1>3, <2>1, KindsAre, CharsDiffer
  <2> QED BY <2>2, <2>3 DEF IsToken, z
<1>10. t.token = <<"/">> => ~InComment(a, a)
  <2>1. \A k \in a..a : k = a
    OBVIOUS
  <2>2. Len(input) \in Nat /\ a \in Nat
    OBVIOUS
  <2> QED BY <2>1, <2>2 DEF InComment
<1> QED BY <1>3, <1>7, <1>8, <1>9, <1>10 DEF Right, IsToken, x

LEMMA RightOne ==
    ASSUME input \in Seq(Char), NEW a \in 1..Len(input), NEW t, t.first = a, t.last = a,
           t.token = <<input[a]>>, t.lexeme = <<>>,
           \/ input[a] \in Special
           \/ /\ input[a] \in DOMAIN Second
              /\ a < Len(input) => input[a + 1] \notin Second[input[a]]
              /\ input[a] = "/" => a = Len(input) \/ input[a + 1] # "/"
    PROVE  Right(t)
<1>1. /\ a \in 1..(Len(input) + 1) /\ a \in (a - 1)..Len(input) /\ a - a + 1 = 1
      /\ 1 \in 1..1 /\ a + 1 - 1 = a /\ a \in a..Len(input)
  OBVIOUS
<1>2. SubSeq(input, a, a) = <<input[a]>>
  <2> DEFINE x == SubSeq(input, a, a)
  <2>1. /\ x \in Seq(Char) /\ Len(x) = a - a + 1
        /\ \A i \in 1..(a - a + 1) : x[i] = input[a + i - 1]
    BY <1>1, TextIs
  <2> HIDE DEF x
  <2>2. Len(x) = 1 /\ x[1] = input[a]
    BY <1>1, <2>1
  <2>3. x = <<input[a]>>
    BY <2>1, <2>2
  <2> QED BY <2>3 DEF x
<1>3. IsPunctuation(<<input[a]>>)
  BY OperatorsAre DEF IsPunctuation
<1>4. ASSUME NEW j \in (a + 1)..Len(input) PROVE ~IsPunctuation(SubSeq(input, a, j))
  <2> DEFINE z == SubSeq(input, a, j)
  <2>1. /\ z \in Seq(Char) /\ Len(z) = j - a + 1 /\ z[1] = input[a]
        /\ z[a - a + 2] = input[a + 1]
    BY <1>1, LongerText
  <2>2. Len(z) # 1 /\ z[2] = input[a + 1] /\ a < Len(input)
    BY <2>1
  <2> HIDE DEF z
  <2>3. ASSUME IsPunctuation(z) PROVE FALSE
    <3>1. ~\E c \in Special \cup DOMAIN Second : z = <<c>>
      BY <2>2
    <3>2. PICK c \in DOMAIN Second : \E d \in Second[c] : z = <<c, d>>
      BY <2>3, <3>1, PunctuationIs
    <3>3. z[1] = c /\ z[2] \in Second[c]
      BY <3>2
    <3> QED BY <2>1, <2>2, <3>3, CharsDiffer
  <2> QED BY <2>3 DEF z
<1>5. t.token = <<"/">> => a = Len(input) \/ input[a + 1] # "/"
  <2>1. t.token = <<"/">> => input[a] = "/"
    OBVIOUS
  <2>2. "/" \notin Special
    BY CharsAre, CharsDiffer
  <2> QED BY <2>1, <2>2
<1> QED BY <1>1, <1>2, <1>3, <1>4, <1>5, RightPunctuation

LEMMA RightTwo ==
    ASSUME input \in Seq(Char), NEW a \in 1..Len(input), a < Len(input),
           NEW t, t.first = a, t.last = a + 1, t.token = <<input[a], input[a + 1]>>,
           t.lexeme = <<>>, input[a] \in DOMAIN Second,
           input[a + 1] \in Second[input[a]]
    PROVE  Right(t)
<1> DEFINE b == a + 1
<1>1. /\ a \in 1..(Len(input) + 1) /\ b \in (a - 1)..Len(input) /\ b - a + 1 = 2
      /\ b \in a..Len(input) /\ 1 \in 1..2 /\ 2 \in 1..2 /\ a + 1 - 1 = a /\ a + 2 - 1 = b
  OBVIOUS
<1> HIDE DEF b
<1>2. SubSeq(input, a, b) = <<input[a], input[b]>>
  <2> DEFINE x == SubSeq(input, a, b)
  <2>1. /\ x \in Seq(Char) /\ Len(x) = b - a + 1
        /\ \A i \in 1..(b - a + 1) : x[i] = input[a + i - 1]
    BY <1>1, TextIs
  <2> HIDE DEF x
  <2>2. Len(x) = 2 /\ x[1] = input[a] /\ x[2] = input[b]
    BY <1>1, <2>1
  <2>3. /\ <<input[a], input[b]>> \in Seq(Char)
        /\ Len(<<input[a], input[b]>>) = 2
        /\ \A i \in 1..2 : x[i] = <<input[a], input[b]>>[i]
    BY <1>1, <2>2
  <2>4. x = <<input[a], input[b]>>
    BY <2>1, <2>2, <2>3, SeqEqual
  <2> QED BY <2>4 DEF x
<1>3. IsPunctuation(<<input[a], input[b]>>)
  BY OperatorsAre DEF IsPunctuation, b
<1>4. ASSUME NEW j \in (b + 1)..Len(input) PROVE ~IsPunctuation(SubSeq(input, a, j))
  <2> DEFINE z == SubSeq(input, a, j)
  <2>1. z \in Seq(Char) /\ Len(z) = j - a + 1
    BY <1>1, LongerText
  <2>2. Len(z) # 1 /\ Len(z) # 2
    BY <2>1 DEF b
  <2> HIDE DEF z
  <2>3. ASSUME IsPunctuation(z) PROVE FALSE
    <3>1. ~\E c \in Special \cup DOMAIN Second : z = <<c>>
      BY <2>2
    <3>2. ~\E c \in DOMAIN Second : \E d \in Second[c] : z = <<c, d>>
      BY <2>2
    <3> QED BY <2>3, <3>1, <3>2, PunctuationIs
  <2> QED BY <2>3 DEF z
<1>5. t.token # <<"/">>
  <2>1. Len(t.token) = 2 /\ Len(<<"/">>) = 1
    BY DEF b
  <2> QED BY <2>1
<1>6. t.last = b /\ t.token = SubSeq(input, a, b)
  BY <1>2 DEF b
<1>7. IsPunctuation(SubSeq(input, a, b))
  BY <1>2, <1>3
<1> QED BY <1>1, <1>4, <1>5, <1>6, <1>7, RightPunctuation

-----------------------------------------------------------------------------
(* What the actions do.                                                    *)

\* The answers that were there stay right.
LEMMA AnswersStay ==
    ASSUME AnswersRight, UNCHANGED <<input, tokens>>
    PROVE  AnswersRight'
<1>1. Answered' = Answered
  BY DEF Answered, IsEof
<1>2. \A k \in Answered : Right(tokens[k])' <=> Right(tokens[k])
  BY DEF Right, InComment
<1> QED BY <1>1, <1>2 DEF AnswersRight

LEMMA AnswerIsRight ==
    ASSUME Inv, AnswersRight, NEW token, NEW first, NEW lexeme, NEW s,
           Return(token, first, lexeme, s),
           token # T_EOF =>
              \A t : t.token = token /\ t.first = first /\ t.last = s.pos
                     /\ t.lexeme = lexeme => Right(t)
    PROVE  Texts'
<1> DEFINE n == Len(tokens)
           answer == [token |-> token, first |-> first, last |-> s.pos,
                      lexeme |-> lexeme, line |-> m_lineno]
<1>1. phase' = "parser" /\ tokens' = Append(tokens, answer) /\ input' = input
  BY DEF Return
<1>2. /\ answer.token = token /\ answer.first = first /\ answer.last = s.pos
      /\ answer.lexeme = lexeme
  OBVIOUS
<1>3. token # T_EOF => Right(answer)
  <2> HIDE DEF answer
  <2> QED BY <1>2
<1> HIDE DEF answer
<1>4. /\ n \in Nat /\ DOMAIN tokens = 1..n /\ DOMAIN tokens' = 1..(n + 1)
      /\ \A k \in 1..n : tokens'[k] = tokens[k]
      /\ tokens'[n + 1] = answer
  <2>1. tokens \in Seq(Answer)
    BY DEF Inv, Types
  <2> QED BY <1>1, <2>1
<1> HIDE DEF n
<1>5. ASSUME NEW k \in Answered' PROVE Right(tokens[k])'
  <2>1. k \in 1..(n + 1) /\ tokens'[k].token # T_EOF
    BY <1>4 DEF Answered, IsEof
  <2>2. Right(tokens'[k])
    <3>1. CASE k = n + 1
      BY <1>2, <1>3, <1>4, <2>1, <3>1
    <3>2. CASE k \in 1..n
      <4>1. k \in Answered
        BY <1>4, <2>1, <3>2 DEF Answered, IsEof
      <4>2. Right(tokens[k])
        BY <4>1 DEF AnswersRight
      <4>3. tokens'[k] = tokens[k]
        BY <1>4, <3>2
      <4> QED BY <4>2, <4>3
    <3> QED BY <1>4, <2>1, <3>1, <3>2
  <2> QED BY <1>1, <2>2 DEF Right, InComment
<1>6. ReadingOK'
  BY <1>1 DEF ReadingOK
<1> QED BY <1>5, <1>6 DEF Texts, AnswersRight

\* Steps after which lex() is in its own loop, in a comment, or the process
\* has ended.
LEMMA TextsRest ==
    ASSUME AnswersRight, NEW loop, loop \in {"lex", "comment"} \cup Ended,
           NEW lexeme, NEW s, GoOn(loop, lexeme, s)
    PROVE  Texts'
<1>1. AnswersRight' /\ phase' = loop
  BY AnswersStay DEF GoOn
<1>2. loop \notin {"identifier", "number", "string"}
  BY DEF Ended
<1> QED BY <1>1, <1>2 DEF Texts, ReadingOK

LEMMA TextsSkip ==
    ASSUME Inv, Texts, \/ NewLine \/ Space \/ UnknownChar \/ StartComment
                       \/ CommentChar \/ EndOfComment
    PROVE  Texts'
<1>1. PICK loop, lexeme, s : loop \in {"lex", "comment"} \cup Ended /\ GoOn(loop, lexeme, s)
  <2>1. CASE NewLine
    <3>1. GoOn("lex", <<>>, Gotten(Seen))
      BY <2>1 DEF NewLine
    <3> QED BY <3>1
  <2>2. CASE Space
    <3>1. GoOn("lex", <<>>, Gotten(Seen))
      BY <2>2 DEF Space
    <3> QED BY <3>1
  <2>3. CASE UnknownChar
    <3>1. GoOn(WarnedOr("lex"), <<>>, Gotten(NotOperator))
      BY <2>3 DEF UnknownChar
    <3>2. WarnedOr("lex") \in {"lex", "comment"} \cup Ended
      BY DEF WarnedOr, Ended
    <3> QED BY <3>1, <3>2
  <2>4. CASE StartComment
    <3>1. GoOn("comment", <<>>, Peeked(Slash))
      BY <2>4 DEF StartComment, StartToken
    <3> QED BY <3>1
  <2>5. CASE CommentChar
    <3>1. GoOn("comment", <<>>, Gotten(Seen))
      BY <2>5 DEF CommentChar
    <3> QED BY <3>1
  <2>6. CASE EndOfComment
    <3>1. GoOn("lex", <<>>, Seen)
      BY <2>6 DEF EndOfComment
    <3> QED BY <3>1
  <2> QED BY <2>1, <2>2, <2>3, <2>4, <2>5, <2>6
<1> QED BY <1>1, TextsRest DEF Texts

LEMMA TextsEof ==
    ASSUME Inv, Texts, EndOfLoop \/ EndOfFile
    PROVE  Texts'
<1>1. PICK lexeme, s : Return(T_EOF, Here, lexeme, s)
  <2>1. CASE EndOfLoop
    <3>1. Return(T_EOF, Here, m_curr_lexeme, m_input)
      BY <2>1 DEF EndOfLoop
    <3> QED BY <3>1
  <2>2. CASE EndOfFile
    <3>1. Return(T_EOF, Here, <<>>, NotOperator)
      BY <2>2 DEF EndOfFile
    <3> QED BY <3>1
  <2> QED BY <2>1, <2>2
<1> QED BY <1>1, AnswerIsRight DEF Texts

\* A stream that has not failed got its character.
LEMMA GottenOne ==
    ASSUME input \in Seq(Char), NEW s, StreamOK(s), Good(s), s.pos < Len(input)
    PROVE  /\ Gotten(s).pos = s.pos + 1 /\ StreamOK(Gotten(s)) /\ Good(Gotten(s))
           /\ At(s) = input[s.pos + 1] /\ s.pos + 1 \in 1..Len(input)
<1>1. More(s)
  BY DEF More
<1>2. s.pos \in 0..Len(input) /\ Len(input) \in Nat
  BY DEF StreamOK, Stream
<1> QED BY <1>1, <1>2, GottenIs DEF At, Good

LEMMA GottenNot ==
    ASSUME input \in Seq(Char), NEW s, StreamOK(s), ~Gotten(s).fail
    PROVE  /\ Good(s) /\ s.pos < Len(input) /\ ~s.fail
<1>1. Good(s) /\ More(s)
  BY GottenIs
<1> QED BY <1>1 DEF Good, More

\* The character after what is read.
LEMMA NextIs ==
    ASSUME Inv, m_input.pos < Len(input)
    PROVE  chr = input[Here] /\ Good(m_input)
<1>1. StreamOK(m_input) /\ m_input.pos \in Nat /\ Len(input) \in Nat
  BY HereIs
<1>2. Good(m_input)
  BY <1>1 DEF StreamOK, Good
<1>3. Here = m_input.pos + 1
  BY HereIs
<1> QED BY <1>2, <1>3 DEF chr, At, More

\* The text grows by the character that is got.
LEMMA TextGrows ==
    ASSUME input \in Seq(Char), NEW a \in 1..Len(input), NEW b \in Nat, b < Len(input),
           a <= b + 1
    PROVE  SubSeq(input, a, b + 1) = Append(SubSeq(input, a, b), input[b + 1])
<1> DEFINE x == SubSeq(input, a, b)
           y == SubSeq(input, a, b + 1)
           z == Append(x, input[b + 1])
<1>1. /\ a \in 1..(Len(input) + 1) /\ b \in (a - 1)..Len(input)
      /\ b + 1 \in (a - 1)..Len(input) /\ b - a + 1 \in Nat
      /\ (b + 1) - a + 1 = (b - a + 1) + 1 /\ a + ((b - a + 1) + 1) - 1 = b + 1
      /\ b + 1 \in 1..Len(input)
  OBVIOUS
<1>2. /\ x \in Seq(Char) /\ Len(x) = b - a + 1
      /\ \A i \in 1..(b - a + 1) : x[i] = input[a + i - 1]
  BY <1>1, TextIs
<1>3. /\ y \in Seq(Char) /\ Len(y) = (b + 1) - a + 1
      /\ \A i \in 1..((b + 1) - a + 1) : y[i] = input[a + i - 1]
  BY <1>1, TextIs
<1> HIDE DEF x, y
<1> DEFINE m == b - a + 1
<1>4. input[b + 1] \in Char
  BY <1>1
<1>5. /\ z \in Seq(Char) /\ Len(z) = m + 1 /\ z[m + 1] = input[b + 1]
      /\ \A i \in 1..m : z[i] = x[i]
  BY <1>2, <1>4
<1> HIDE DEF m, z
<1>6. \A i \in 1..(m + 1) : y[i] = z[i]
  <2> SUFFICES ASSUME NEW i \in 1..(m + 1) PROVE y[i] = z[i]
    OBVIOUS
  <2>1. m \in Nat /\ m + 1 = (b + 1) - a + 1 /\ a + (m + 1) - 1 = b + 1
    BY <1>1 DEF m
  <2>2. y[i] = input[a + i - 1]
    BY <1>3, <2>1
  <2>3. CASE i = m + 1
    BY <1>5, <2>1, <2>2, <2>3
  <2>4. CASE i \in 1..m
    <3>1. x[i] = input[a + i - 1]
      BY <1>2, <2>4 DEF m
    <3> QED BY <1>5, <2>2, <2>4, <3>1
  <2> QED BY <2>1, <2>3, <2>4
<1>7. Len(y) = m + 1
  BY <1>1, <1>3 DEF m
<1>8. y = z
  BY <1>3, <1>5, <1>6, <1>7, SeqEqual
<1> QED BY <1>8 DEF x, y, z

-----------------------------------------------------------------------------
(* Operators and special characters.                                       *)

LEMMA TextsDivide ==
    ASSUME Inv, Texts, Divide
    PROVE  Texts'
<1> DEFINE s == Gotten(Ungotten(Peeked(Slash)))
<1>1. Loop /\ chr = "/" /\ At(Slash) # "/" /\ Return(<<"/">>, Here, <<>>, s)
  BY DEF Divide
<1>2. /\ chr # EOF /\ input \in Seq(Char) /\ Here \in 1..Len(input) /\ chr = input[Here]
      /\ Here = m_input.pos + 1 /\ m_input.pos \in 0..Len(input) /\ Len(input) \in Nat
  BY <1>1, CharsAre, HereIs
<1>3. /\ Slash.pos = Here /\ StreamOK(Slash) /\ Good(Slash)
  BY <1>2, Taken DEF Slash
<1>4. StreamOK(Peeked(Slash)) /\ Peeked(Slash).pos = Here /\ ~Peeked(Slash).fail
  BY <1>2, <1>3, PeekedIs
<1>5. /\ Ungotten(Peeked(Slash)) \in Stream /\ Ungotten(Peeked(Slash)).pos = m_input.pos
      /\ ~Ungotten(Peeked(Slash)).eof /\ ~Ungotten(Peeked(Slash)).fail
  <2>1. Here > 0 /\ Here - 1 = m_input.pos
    BY <1>2
  <2> QED BY <1>2, <1>4, <2>1, UngottenIs
<1>6. s.pos = Here
  <2>1. StreamOK(Ungotten(Peeked(Slash))) /\ Good(Ungotten(Peeked(Slash)))
    BY <1>5 DEF StreamOK, Good
  <2>2. Ungotten(Peeked(Slash)).pos < Len(input)
    BY <1>2, <1>5
  <2>3. s.pos = Ungotten(Peeked(Slash)).pos + 1
    BY <1>2, <2>1, <2>2, GottenOne
  <2> QED BY <1>2, <1>5, <2>3
<1>7. Here = Len(input) \/ input[Here + 1] # "/"
  <2>1. ASSUME Here < Len(input) PROVE input[Here + 1] # "/"
    <3>1. At(Slash) = input[Slash.pos + 1]
      BY <1>2, <1>3, <2>1, GottenOne
    <3> QED BY <1>1, <1>3, <3>1
  <2> QED BY <1>2, <2>1
<1>8. "/" \in DOMAIN Second /\ Second["/"] = {}
  BY SecondIs
<1> HIDE DEF s
<1>9. \A t : t.token = <<"/">> /\ t.first = Here
             /\ t.last = s.pos /\ t.lexeme = <<>> => Right(t)
  <2> SUFFICES ASSUME NEW t, /\ t.token = <<"/">> /\ t.first = Here
                             /\ t.last = s.pos /\ t.lexeme = <<>>
               PROVE  Right(t)
    OBVIOUS
  <2>1. t.token = <<input[Here]>> /\ t.last = Here
    BY <1>1, <1>2, <1>6
  <2>2. /\ input[Here] \in DOMAIN Second
        /\ Here < Len(input) => input[Here + 1] \notin Second[input[Here]]
        /\ input[Here] = "/" => Here = Len(input) \/ input[Here + 1] # "/"
    BY <1>1, <1>2, <1>7, <1>8
  <2> QED BY <1>2, <2>1, <2>2, RightOne
<1> QED BY <1>1, <1>9, AnswerIsRight DEF Texts

LEMMA TextsSpecial ==
    ASSUME Inv, Texts, IsSpecial
    PROVE  Texts'
<1>1. Loop /\ chr \in Special /\ Return(<<chr>>, Here, <<>>, Gotten(Seen))
  BY DEF IsSpecial
<1>2. chr # EOF /\ input \in Seq(Char) /\ Here \in 1..Len(input) /\ chr = input[Here]
  BY <1>1, CharsAre, HereIs
<1>3. Gotten(Seen).pos = Here
  BY <1>2, Taken
<1> DEFINE s == Gotten(Seen)
<1> HIDE DEF s
<1>4. \A t : t.token = <<chr>> /\ t.first = Here
             /\ t.last = s.pos /\ t.lexeme = <<>> => Right(t)
  <2> SUFFICES ASSUME NEW t, /\ t.token = <<chr>> /\ t.first = Here
                             /\ t.last = s.pos /\ t.lexeme = <<>>
               PROVE  Right(t)
    OBVIOUS
  <2>1. t.token = <<input[Here]>> /\ t.last = Here
    BY <1>2, <1>3 DEF s
  <2>2. input[Here] \in Special
    BY <1>1, <1>2
  <2> QED BY <1>2, <2>1, <2>2, RightOne
<1>5. Return(<<chr>>, Here, <<>>, s)
  BY <1>1 DEF s
<1> QED BY <1>4, <1>5, AnswerIsRight DEF Texts

\* The stream after the first character of an operator.
LEMMA RestHere ==
    ASSUME Inv, chr # EOF
    PROVE  /\ Rest.pos = Here /\ Good(Rest) /\ StreamOK(Rest) /\ Peeked(Rest).pos = Here
           /\ LookedAhead.pos = Here
           /\ Here < Len(input) => At(Rest) = input[Here + 1]
           /\ At(Rest) # EOF => Here < Len(input) /\ Peeked(Rest) = Rest
<1>1. Rest = Gotten(m_input) /\ Rest.pos = Here /\ Good(Rest) /\ StreamOK(Rest)
      /\ input \in Seq(Char)
  BY Taken, HereIs DEF Rest
<1>2. Peeked(Rest).pos = Here /\ (At(Rest) # EOF => Peeked(Rest) = Rest)
  BY <1>1, PeekedIs
<1>3. Here < Len(input) => At(Rest) = input[Here + 1]
  BY <1>1, GottenOne
<1>4. At(Rest) # EOF => Here < Len(input)
  BY <1>1, AtIs DEF More
<1>5. StreamOK(Peeked(Rest)) /\ Peeked(Peeked(Rest)).pos = Here
  BY <1>1, <1>2, PeekedIs
<1>6. LookedAhead.pos = Here
  BY <1>1, <1>2, <1>5 DEF LookedAhead
<1> QED BY <1>1, <1>2, <1>3, <1>4, <1>6

LEMMA EofIsNotSecond ==
    \A c \in DOMAIN Second : EOF \notin Second[c]
BY SecondIs DEF EOF

LEMMA TextsTwoChar ==
    ASSUME Inv, Texts, TwoCharOperator
    PROVE  Texts'
<1>1. /\ chr \in DOMAIN Second /\ At(Rest) \in Second[chr]
      /\ Return(<<chr, At(Rest)>>, Here, <<>>, Gotten(Peeked(Rest)))
  BY DEF TwoCharOperator
<1>2. chr # EOF /\ input \in Seq(Char) /\ Here \in 1..Len(input) /\ chr = input[Here]
  BY <1>1, CharsAre, HereIs
<1>3. At(Rest) # EOF
  BY <1>1, EofIsNotSecond
<1>4. /\ Rest.pos = Here /\ Good(Rest) /\ StreamOK(Rest) /\ Here < Len(input)
      /\ At(Rest) = input[Here + 1] /\ Peeked(Rest) = Rest
  BY <1>2, <1>3, RestHere
<1>5. Gotten(Peeked(Rest)).pos = Here + 1
  BY <1>2, <1>4, GottenOne
<1> DEFINE s == Gotten(Peeked(Rest))
           token == <<chr, At(Rest)>>
<1>6. Return(token, Here, <<>>, s) /\ s.pos = Here + 1 /\ token = <<input[Here], input[Here + 1]>>
  BY <1>1, <1>2, <1>4, <1>5
<1> HIDE DEF s, token
<1>7. \A t : t.token = token /\ t.first = Here
             /\ t.last = s.pos /\ t.lexeme = <<>> => Right(t)
  <2> SUFFICES ASSUME NEW t, /\ t.token = token /\ t.first = Here
                             /\ t.last = s.pos /\ t.lexeme = <<>>
               PROVE  Right(t)
    OBVIOUS
  <2>1. t.token = <<input[Here], input[Here + 1]>> /\ t.last = Here + 1
    BY <1>6
  <2>2. input[Here] \in DOMAIN Second /\ input[Here + 1] \in Second[input[Here]]
    BY <1>1, <1>2, <1>4
  <2> QED BY <1>2, <1>4, <2>1, <2>2, RightTwo
<1> QED BY <1>6, <1>7, AnswerIsRight DEF Texts

LEMMA TextsOneChar ==
    ASSUME Inv, Texts, OneCharOperator
    PROVE  Texts'
<1> DEFINE s == LookedAhead
<1>1. /\ chr \in DOMAIN Second /\ chr # "/" /\ At(Rest) \notin Second[chr]
      /\ Return(<<chr>>, Here, <<>>, s)
  BY DEF OneCharOperator
<1>2. chr # EOF /\ input \in Seq(Char) /\ Here \in 1..Len(input) /\ chr = input[Here]
  BY <1>1, CharsAre, HereIs
<1>3. s.pos = Here
  BY <1>2, RestHere
<1>4. Here < Len(input) => input[Here + 1] \notin Second[chr]
  BY <1>1, <1>2, RestHere
<1> HIDE DEF s
<1>5. \A t : t.token = <<chr>> /\ t.first = Here
             /\ t.last = s.pos /\ t.lexeme = <<>> => Right(t)
  <2> SUFFICES ASSUME NEW t, /\ t.token = <<chr>> /\ t.first = Here
                             /\ t.last = s.pos /\ t.lexeme = <<>>
               PROVE  Right(t)
    OBVIOUS
  <2>1. t.token = <<input[Here]>> /\ t.last = Here
    BY <1>2, <1>3
  <2>2. /\ input[Here] \in DOMAIN Second
        /\ Here < Len(input) => input[Here + 1] \notin Second[input[Here]]
        /\ input[Here] # "/"
    BY <1>1, <1>2, <1>4
  <2> QED BY <1>2, <2>1, <2>2, RightOne
<1> QED BY <1>1, <1>5, AnswerIsRight DEF Texts

-----------------------------------------------------------------------------
(* Words and numbers.                                                      *)

\* What has been read is a part of the file.
LEMMA ReadIs ==
    ASSUME Inv, phase \in {"identifier", "number", "string"}
    PROVE  /\ start \in 1..(m_input.pos + 1) /\ m_input.pos \in 0..Len(input)
           /\ Len(input) \in Nat
<1>1. /\ From \in 1..(m_input.pos + 1) /\ start \in From..(m_input.pos + 1)
  BY DEF Inv, SkippedOK
<1>2. m_input.pos \in 0..Len(input) /\ Len(input) \in Nat
  BY HereIs
<1> QED BY <1>1, <1>2

\* A text of one character.
LEMMA OneChar ==
    ASSUME input \in Seq(Char), NEW a \in 1..Len(input)
    PROVE  SubSeq(input, a, a) = <<input[a]>>
<1> DEFINE x == SubSeq(input, a, a)
           y == <<input[a]>>
<1>1. /\ a \in 1..(Len(input) + 1) /\ a \in (a - 1)..Len(input)
      /\ a - a + 1 = 1 /\ 1 \in 1..1 /\ a + 1 - 1 = a
  OBVIOUS
<1>2. /\ x \in Seq(Char) /\ Len(x) = a - a + 1
      /\ \A i \in 1..(a - a + 1) : x[i] = input[a + i - 1]
  BY <1>1, TextIs
<1> HIDE DEF x
<1>3. Len(x) = 1 /\ x[1] = input[a]
  BY <1>1, <1>2
<1>4. y \in Seq(Char) /\ Len(y) = 1 /\ y[1] = input[a]
  <2>1. input[a] \in Char
    OBVIOUS
  <2> QED BY <2>1
<1> HIDE DEF y
<1>5. \A i \in 1..Len(x) : x[i] = y[i]
  BY <1>3, <1>4
<1>6. x = y
  BY <1>2, <1>3, <1>4, <1>5, SeqEqual
<1> QED BY <1>6 DEF x, y

LEMMA TextsStartIdentifier ==
    ASSUME Inv, Texts, StartIdentifier
    PROVE  Texts'
<1>1. /\ chr \in Letters /\ start' = Here /\ phase' = "identifier"
      /\ m_input' = Gotten(Seen) /\ m_curr_lexeme' = <<chr>>
      /\ UNCHANGED <<input, tokens>>
  BY DEF StartIdentifier, StartToken, GoOn
<1>2. /\ chr # EOF /\ input \in Seq(Char) /\ Here \in 1..Len(input) /\ chr = input[Here]
      /\ Here = m_input.pos + 1 /\ m_input.pos \in Nat
  BY <1>1, CharsAre, HereIs
<1>3. m_input'.pos = Here
  BY <1>1, <1>2, Taken
<1>4. SubSeq(input, Here, Here) = <<chr>>
  <2>1. SubSeq(input, Here, Here) = <<input[Here]>>
    BY <1>2, OneChar
  <2> QED BY <1>2, <2>1
<1>5. \A i \in Here..Here : input[i] \in Word["identifier"]
  BY <1>1, <1>2 DEF Word
<1>6. Here \in 1..Len(input) /\ Here <= Here /\ input[Here] \in Letters
  BY <1>1, <1>2
<1>7. ReadingOK'
  BY <1>1, <1>3, <1>4, <1>5, <1>6 DEF ReadingOK, TextRead
<1> QED BY <1>1, <1>7, AnswersStay DEF Texts

LEMMA TextsStartNumber ==
    ASSUME Inv, Texts, StartNumber
    PROVE  Texts'
<1>1. /\ chr \in Digits /\ start' = Here /\ phase' = "number"
      /\ m_input' = Seen /\ m_curr_lexeme' = <<>>
      /\ UNCHANGED <<input, tokens>>
  BY DEF StartNumber, StartToken, GoOn
<1>2. /\ chr # EOF /\ input \in Seq(Char) /\ Here \in 1..Len(input) /\ chr = input[Here]
      /\ Here = m_input.pos + 1 /\ m_input.pos \in 0..Len(input) /\ Len(input) \in Nat
  BY <1>1, CharsAre, HereIs
<1>3. m_input'.pos = m_input.pos
  BY <1>1, Taken
<1>4. SubSeq(input, Here, m_input.pos) = <<>>
  <2> DEFINE x == SubSeq(input, Here, m_input.pos)
  <2>1. /\ Here \in 1..(Len(input) + 1) /\ m_input.pos \in (Here - 1)..Len(input)
        /\ m_input.pos - Here + 1 = 0
    BY <1>2
  <2>2. x \in Seq(Char) /\ Len(x) = m_input.pos - Here + 1
    BY <1>2, <2>1, TextIs
  <2> HIDE DEF x
  <2>3. x = <<>>
    BY <2>1, <2>2
  <2> QED BY <2>3 DEF x
<1>5. Here..m_input.pos = {}
  BY <1>2
<1>6. input[Here] \in Digits
  BY <1>1, <1>2
<1>7. ReadingOK'
  BY <1>1, <1>2, <1>3, <1>4, <1>5, <1>6 DEF ReadingOK, TextRead
<1> QED BY <1>1, <1>7, AnswersStay DEF Texts

LEMMA TextsWordChar ==
    ASSUME Inv, Texts, WordChar
    PROVE  Texts'
<1>1. /\ phase \in {"identifier", "number"} /\ chr \in Word[phase] /\ phase' = phase
      /\ m_input' = Gotten(Seen) /\ m_curr_lexeme' = Append(m_curr_lexeme, chr)
      /\ start' = start /\ UNCHANGED <<input, tokens>>
  BY DEF WordChar, Word, GoOn, Pushed
<1>2. chr \in Letters \cup Digits
  BY <1>1 DEF Word
<1>3. /\ chr # EOF /\ input \in Seq(Char) /\ Here \in 1..Len(input) /\ chr = input[Here]
      /\ Here = m_input.pos + 1 /\ m_input.pos \in 0..Len(input) /\ Len(input) \in Nat
  BY <1>2, CharsAre, HereIs
<1>4. m_input'.pos = Here
  BY <1>1, <1>3, Taken
<1>5. start \in 1..(m_input.pos + 1) /\ start \in 1..Len(input)
      /\ m_curr_lexeme = SubSeq(input, start, m_input.pos)
      /\ \A i \in start..m_input.pos : input[i] \in Word[phase]
  BY <1>1, ReadIs DEF Texts, ReadingOK, TextRead
<1>6. SubSeq(input, start, Here) = Append(SubSeq(input, start, m_input.pos), chr)
  <2>1. m_input.pos \in Nat /\ m_input.pos < Len(input) /\ start <= m_input.pos + 1
    BY <1>3, <1>5
  <2> QED BY <1>3, <1>5, <2>1, TextGrows
<1>7. \A i \in start..Here : input[i] \in Word[phase]
  <2>1. \A i \in start..Here : i = Here \/ i \in start..m_input.pos
    BY <1>3, <1>5
  <2> QED BY <1>1, <1>3, <1>5, <2>1
<1>8. /\ phase = "identifier" => start <= Here /\ input[start] \in Letters
      /\ phase = "number" => input[start] \in Digits
  BY <1>3, <1>5 DEF Texts, ReadingOK
<1>9. ReadingOK'
  BY <1>1, <1>4, <1>5, <1>6, <1>7, <1>8 DEF ReadingOK, TextRead
<1> QED BY <1>1, <1>9, AnswersStay DEF Texts

LEMMA TextsEndOfIdentifier ==
    ASSUME Inv, Texts, EndOfIdentifier
    PROVE  Texts'
<1>1. /\ phase = "identifier" /\ chr \notin Letters \cup Digits
      /\ \/ m_curr_lexeme \in Reserved /\ Return(m_curr_lexeme, start, <<>>, Seen)
         \/ m_curr_lexeme \notin Reserved /\ Return(ID, start, m_curr_lexeme, Seen)
  BY DEF EndOfIdentifier, Word
<1>2. /\ start \in 1..Len(input) /\ m_curr_lexeme = SubSeq(input, start, m_input.pos)
      /\ \A i \in start..m_input.pos : input[i] \in Letters \cup Digits
      /\ start <= m_input.pos /\ input[start] \in Letters
  BY <1>1 DEF Texts, ReadingOK, TextRead, Word
<1>3. /\ m_input.pos \in start..Len(input) /\ Seen.pos = m_input.pos
      /\ input \in Seq(Char) /\ Here = m_input.pos + 1
  BY <1>2, HereIs, Taken
<1>4. m_input.pos < Len(input) => input[m_input.pos + 1] \notin Letters \cup Digits
  BY <1>1, <1>3, NextIs
<1>5. CASE m_curr_lexeme \in Reserved /\ Return(m_curr_lexeme, start, <<>>, Seen)
  <2>1. \A t : t.token = m_curr_lexeme /\ t.first = start
               /\ t.last = Seen.pos /\ t.lexeme = <<>> => Right(t)
    <3> SUFFICES ASSUME NEW t, /\ t.token = m_curr_lexeme /\ t.first = start
                               /\ t.last = Seen.pos /\ t.lexeme = <<>>
                 PROVE  Right(t)
      OBVIOUS
    <3>1. /\ t.last = m_input.pos
          /\ t.token = IF SubSeq(input, start, m_input.pos) \in Reserved
                       THEN SubSeq(input, start, m_input.pos) ELSE ID
          /\ t.lexeme = IF SubSeq(input, start, m_input.pos) \in Reserved
                        THEN <<>> ELSE SubSeq(input, start, m_input.pos)
      BY <1>2, <1>3, <1>5
    <3> QED BY <1>2, <1>3, <1>4, <3>1, RightWord
  <2> QED BY <1>5, <2>1, AnswerIsRight DEF Texts
<1>6. CASE m_curr_lexeme \notin Reserved /\ Return(ID, start, m_curr_lexeme, Seen)
  <2>1. \A t : t.token = ID /\ t.first = start
               /\ t.last = Seen.pos /\ t.lexeme = m_curr_lexeme => Right(t)
    <3> SUFFICES ASSUME NEW t, /\ t.token = ID /\ t.first = start
                               /\ t.last = Seen.pos /\ t.lexeme = m_curr_lexeme
                 PROVE  Right(t)
      OBVIOUS
    <3>1. /\ t.last = m_input.pos
          /\ t.token = IF SubSeq(input, start, m_input.pos) \in Reserved
                       THEN SubSeq(input, start, m_input.pos) ELSE ID
          /\ t.lexeme = IF SubSeq(input, start, m_input.pos) \in Reserved
                        THEN <<>> ELSE SubSeq(input, start, m_input.pos)
      BY <1>2, <1>3, <1>6
    <3> QED BY <1>2, <1>3, <1>4, <3>1, RightWord
  <2> QED BY <1>6, <2>1, AnswerIsRight DEF Texts
<1> QED BY <1>1, <1>5, <1>6

LEMMA TextsEndOfNumber ==
    ASSUME Inv, Texts, EndOfNumber
    PROVE  Texts'
<1>1. phase = "number" /\ chr \notin Digits /\ Return(NUM, start, m_curr_lexeme, Seen)
  BY DEF EndOfNumber, Word
<1>2. /\ start \in 1..Len(input) /\ m_curr_lexeme = SubSeq(input, start, m_input.pos)
      /\ \A i \in start..m_input.pos : input[i] \in Digits
      /\ input[start] \in Digits /\ start \in 1..(m_input.pos + 1)
  BY <1>1, ReadIs DEF Texts, ReadingOK, TextRead, Word
<1>3. /\ m_input.pos \in 0..Len(input) /\ Seen.pos = m_input.pos /\ Len(input) \in Nat
      /\ input \in Seq(Char) /\ Here = m_input.pos + 1
  BY HereIs, Taken
<1>4. m_input.pos < Len(input) => input[m_input.pos + 1] \notin Digits
  BY <1>1, <1>3, NextIs
<1>5. m_input.pos \in start..Len(input)
  <2>1. start # m_input.pos + 1
    BY <1>2, <1>3, <1>4
  <2> QED BY <1>2, <1>3, <2>1
<1>6. \A t : t.token = NUM /\ t.first = start
             /\ t.last = Seen.pos /\ t.lexeme = m_curr_lexeme => Right(t)
  <2> SUFFICES ASSUME NEW t, /\ t.token = NUM /\ t.first = start
                             /\ t.last = Seen.pos /\ t.lexeme = m_curr_lexeme
               PROVE  Right(t)
    OBVIOUS
  <2>1. t.last = m_input.pos /\ t.lexeme = SubSeq(input, start, m_input.pos)
    BY <1>2, <1>3
  <2>2. m_input.pos < Len(input) => input[m_input.pos + 1] \notin Digits
    BY <1>4
  <2> QED BY <1>2, <1>3, <1>5, <2>1, <2>2, RightNumber
<1> QED BY <1>1, <1>6, AnswerIsRight DEF Texts

-----------------------------------------------------------------------------
(* Strings.                                                                *)

LEMMA StringBegins ==
    OpenString(<<>>, <<QUOTE>>)
<1> DEFINE x == <<QUOTE>>
           v == <<>>
<1>1. Len(x) = 1 /\ x[1] = QUOTE /\ Len(v) = 0
  OBVIOUS
<1> HIDE DEF x, v
<1>2. 2..1 = {} /\ 1 + 1 = 2 /\ 1..(2 - 2) = {}
  OBVIOUS
<1>3. ~IsEscaped(x, 2)
  BY <1>2 DEF IsEscaped
<1>4. Meant(x, 1) = {}
  BY <1>2 DEF Meant
<1>5. Cardinality(Meant(x, 1)) = 0
  BY <1>4, FS_EmptySet
<1>6. Gives(v, x, 1)
  BY <1>1, <1>4, <1>5 DEF Gives
<1>7. OpenString(v, x)
  BY <1>1, <1>2, <1>3, <1>6 DEF OpenString
<1> QED BY <1>7 DEF v, x

LEMMA TextsStartString ==
    ASSUME Inv, Texts, StartString
    PROVE  Texts'
<1>1. /\ chr = QUOTE /\ start' = Here /\ phase' = "string"
      /\ m_input' = Gotten(Seen) /\ m_curr_lexeme' = <<>>
      /\ UNCHANGED <<input, tokens>>
  BY DEF StartString, StartToken, GoOn
<1>2. /\ chr # EOF /\ input \in Seq(Char) /\ Here \in 1..Len(input) /\ chr = input[Here]
  BY <1>1, CharsAre, HereIs
<1>3. m_input'.pos = Here
  BY <1>1, <1>2, Taken
<1>4. SubSeq(input, Here, Here) = <<QUOTE>>
  <2>1. SubSeq(input, Here, Here) = <<input[Here]>>
    BY <1>2, OneChar
  <2> QED BY <1>1, <1>2, <2>1
<1>5. TextRead' = <<QUOTE>>
  BY <1>1, <1>3, <1>4 DEF TextRead
<1>6. OpenString(m_curr_lexeme', TextRead')
  BY <1>1, <1>5, StringBegins
<1>7. start' > 0
  BY <1>1, <1>2
<1>8. ReadingOK'
  BY <1>1, <1>6, <1>7 DEF ReadingOK
<1> QED BY <1>1, <1>8, AnswersStay DEF Texts

\* The loop of isStr() goes on, or the process ends.
LEMMA TextsInside ==
    ASSUME Texts, NEW loop, loop \in {"string"} \cup Ended, NEW lexeme, NEW s,
           GoOn(loop, lexeme, s), start' = start,
           ~s.fail => start > 0 /\ OpenString(lexeme, SubSeq(input, start, s.pos))
    PROVE  Texts'
<1>1. /\ phase' = loop /\ m_input' = s /\ m_curr_lexeme' = lexeme
      /\ UNCHANGED <<input, tokens>>
  BY DEF GoOn
<1>2. loop \notin {"identifier", "number"}
  BY DEF Ended
<1>3. TextRead' = SubSeq(input, start, s.pos)
  BY <1>1 DEF TextRead
<1>4. ~m_input'.fail => start' > 0 /\ OpenString(m_curr_lexeme', TextRead')
  BY <1>1, <1>3
<1>5. ReadingOK'
  BY <1>1, <1>2, <1>4 DEF ReadingOK
<1> QED BY <1>1, <1>5, AnswersStay DEF Texts

\* What isStr() knows when get() gives it a character of the file.
LEMMA TextOpen ==
    ASSUME Inv, Texts, phase = "string", ~Gotten(m_input).fail
    PROVE  /\ start \in 1..Len(input) /\ start <= m_input.pos + 1
           /\ m_input.pos \in Nat /\ m_input.pos + 1 \in 1..Len(input)
           /\ input \in Seq(Char) /\ Len(input) \in Nat
           /\ chr = input[m_input.pos + 1] /\ chr \in Char
           /\ Gotten(m_input).pos = m_input.pos + 1 /\ StreamOK(Gotten(m_input))
           /\ TextRead \in Seq(Char) /\ m_curr_lexeme \in Seq(LexemeChar)
           /\ OpenString(m_curr_lexeme, TextRead)
           /\ SubSeq(input, start, m_input.pos + 1) = Append(TextRead, chr)
<1>1. /\ input \in Seq(Char) /\ StreamOK(m_input) /\ m_curr_lexeme \in Seq(LexemeChar)
      /\ start \in 1..(m_input.pos + 1) /\ m_input.pos \in 0..Len(input)
      /\ Len(input) \in Nat
  BY ReadIs DEF Inv, Types
<1>2. Good(m_input) /\ m_input.pos < Len(input) /\ ~m_input.fail
  BY <1>1, GottenNot
<1>3. /\ Gotten(m_input).pos = m_input.pos + 1 /\ StreamOK(Gotten(m_input))
      /\ chr = input[m_input.pos + 1]
  BY <1>1, <1>2, GottenOne DEF chr
<1>4. OpenString(m_curr_lexeme, TextRead)
  BY <1>2 DEF Texts, ReadingOK
<1>5. /\ start \in 1..Len(input) /\ start <= m_input.pos + 1 /\ m_input.pos \in Nat
      /\ m_input.pos + 1 \in 1..Len(input) /\ start \in 1..(Len(input) + 1)
      /\ m_input.pos \in (start - 1)..Len(input)
  BY <1>1, <1>2
<1>6. TextRead \in Seq(Char)
  BY <1>1, <1>5, TextIs DEF TextRead
<1>7. SubSeq(input, start, m_input.pos + 1) = Append(TextRead, chr)
  BY <1>1, <1>2, <1>3, <1>5, TextGrows DEF TextRead
<1>8. chr \in Char
  BY <1>1, <1>3, <1>5
<1> QED BY <1>1, <1>3, <1>4, <1>5, <1>6, <1>7, <1>8

LEMMA TextsStringChar ==
    ASSUME Inv, Texts, StringChar \/ StringNewLine
    PROVE  Texts'
<1> DEFINE s == Gotten(m_input)
           lexeme == IF chr = LF THEN m_curr_lexeme ELSE Append(m_curr_lexeme, chr)
<1>1. PICK loop \in {"string"} \cup Ended :
         phase = "string" /\ chr # QUOTE /\ chr # "\\" /\ GoOn(loop, lexeme, s)
         /\ start' = start
  <2>1. CASE StringChar
    <3>1. /\ phase = "string" /\ chr # QUOTE /\ chr # "\\" /\ chr # LF /\ start' = start
          /\ GoOn("string", Append(m_curr_lexeme, chr), Gotten(m_input))
      BY <2>1 DEF StringChar, InString, Pushed
    <3> QED BY <3>1
  <2>2. CASE StringNewLine
    <3>1. /\ phase = "string" /\ chr = LF /\ start' = start
          /\ GoOn(WarnedOr("string"), m_curr_lexeme, Gotten(m_input))
      BY <2>2 DEF StringNewLine
    <3>2. LF # QUOTE /\ LF # "\\"
      BY DEF LF, QUOTE
    <3>3. WarnedOr("string") \in {"string"} \cup Ended
      BY DEF WarnedOr, Ended
    <3> QED BY <3>1, <3>2, <3>3
  <2> QED BY <2>1, <2>2
<1>2. ASSUME ~s.fail
      PROVE  start > 0 /\ OpenString(lexeme, SubSeq(input, start, s.pos))
  <2>1. /\ start \in 1..Len(input) /\ s.pos = m_input.pos + 1
        /\ TextRead \in Seq(Char) /\ m_curr_lexeme \in Seq(LexemeChar)
        /\ OpenString(m_curr_lexeme, TextRead) /\ chr \in Char
        /\ SubSeq(input, start, m_input.pos + 1) = Append(TextRead, chr)
    BY <1>1, <1>2, TextOpen
  <2>2. OpenString(lexeme, Append(TextRead, chr))
    BY <1>1, <2>1, OpenChar
  <2>3. SubSeq(input, start, s.pos) = Append(TextRead, chr)
    BY <2>1
  <2>4. start > 0
    BY <2>1
  <2> HIDE DEF s, lexeme
  <2>5. OpenString(lexeme, SubSeq(input, start, s.pos))
    BY <2>2, <2>3
  <2> QED BY <2>4, <2>5
<1> HIDE DEF s, lexeme
<1> QED BY <1>1, <1>2, TextsInside

LEMMA TextsEscape ==
    ASSUME Inv, Texts, EscapeChar \/ BadEscape
    PROVE  Texts'
<1> DEFINE s == Gotten(Gotten(m_input))
<1>1. PICK loop, lexeme :
         loop \in {"string"} \cup Ended /\ phase = "string" /\ chr = "\\" /\ GoOn(loop, lexeme, s) /\ start' = start
         /\ (Escaped \in DOMAIN Escape => lexeme = Append(m_curr_lexeme, Escape[Escaped]))
  <2>1. CASE EscapeChar
    <3>1. /\ phase = "string" /\ chr = "\\" /\ start' = start
          /\ GoOn("string", Append(m_curr_lexeme, Escape[Escaped]), s)
      BY <2>1 DEF EscapeChar, InString
    <3> QED BY <3>1
  <2>2. CASE BadEscape
    <3> DEFINE loop == WarnedOr(IF m_curr_lexeme = <<>> THEN "undefined" ELSE "string")
    <3>1. /\ phase = "string" /\ chr = "\\" /\ start' = start
          /\ GoOn(loop, PopBack, s) /\ Escaped \notin DOMAIN Escape
      BY <2>2 DEF BadEscape
    <3>2. loop \in {"string"} \cup Ended
      BY DEF WarnedOr, Ended
    <3> HIDE DEF loop, s
    <3> QED BY <3>1, <3>2
  <2> QED BY <2>1, <2>2
<1>2. ASSUME ~s.fail
      PROVE  start > 0 /\ OpenString(lexeme, SubSeq(input, start, s.pos))
  <2>1. input \in Seq(Char) /\ StreamOK(m_input)
    BY DEF Inv, Types
  <2>2. StreamOK(Gotten(m_input))
    BY <2>1, GottenIs
  <2>3. Good(Gotten(m_input)) /\ Gotten(m_input).pos < Len(input) /\ ~Gotten(m_input).fail
    BY <1>2, <2>1, <2>2, GottenNot
  <2>4. /\ start \in 1..Len(input) /\ Gotten(m_input).pos = m_input.pos + 1
        /\ m_input.pos \in Nat /\ start <= m_input.pos + 1
        /\ TextRead \in Seq(Char) /\ m_curr_lexeme \in Seq(LexemeChar)
        /\ OpenString(m_curr_lexeme, TextRead)
        /\ SubSeq(input, start, m_input.pos + 1) = Append(TextRead, "\\")
    BY <1>1, <2>3, TextOpen
  <2> DEFINE b == m_input.pos + 1
  <2>5. /\ s.pos = b + 1 /\ Escaped = input[b + 1] /\ b + 1 \in 1..Len(input)
    BY <2>1, <2>2, <2>3, <2>4, GottenOne DEF Escaped
  <2>6. b \in Nat /\ b < Len(input) /\ start <= b + 1
    BY <2>3, <2>4
  <2>7. SubSeq(input, start, b + 1) = Append(SubSeq(input, start, b), input[b + 1])
    <3> HIDE DEF b
    <3> QED BY <2>1, <2>4, <2>6, TextGrows
  <2>8. Escaped \in Char
    BY <2>1, <2>5
  <2>9. OpenString(lexeme, Append(Append(TextRead, "\\"), Escaped))
    BY <1>1, <2>4, <2>8, OpenPair
  <2>10. SubSeq(input, start, s.pos) = Append(Append(TextRead, "\\"), Escaped)
    BY <2>4, <2>5, <2>7
  <2> QED BY <2>4, <2>9, <2>10
<1> HIDE DEF s
<1> QED BY <1>1, <1>2, TextsInside

LEMMA TextsEndOfString ==
    ASSUME Inv, Texts, EndOfString
    PROVE  Texts'
<1> DEFINE s == Gotten(m_input)
           b == m_input.pos + 1
<1>1. phase = "string" /\ chr = QUOTE /\ Return(STRLIT, start, m_curr_lexeme, s)
  BY DEF EndOfString
<1>2. ~Gotten(m_input).fail
  <2>1. input \in Seq(Char) /\ StreamOK(m_input) /\ At(m_input) # EOF
    BY <1>1, CharsAre DEF Inv, Types, chr
  <2> QED BY <2>1, GottenIs
<1>3. /\ start \in 1..Len(input) /\ start <= b /\ b \in 1..Len(input)
      /\ input \in Seq(Char) /\ s.pos = b
      /\ TextRead \in Seq(Char) /\ m_curr_lexeme \in Seq(LexemeChar)
      /\ OpenString(m_curr_lexeme, TextRead)
      /\ SubSeq(input, start, b) = Append(TextRead, QUOTE)
  BY <1>1, <1>2, TextOpen
<1> HIDE DEF s, b
<1>4. /\ IsString(SubSeq(input, start, b))
      /\ HasBadEscape(SubSeq(input, start, b)) \/ IsValue(m_curr_lexeme, SubSeq(input, start, b))
  BY <1>3, OpenEnds
<1>5. \A t : t.token = STRLIT /\ t.first = start /\ t.last = s.pos
             /\ t.lexeme = m_curr_lexeme => Right(t)
  <2> SUFFICES ASSUME NEW t, /\ t.token = STRLIT /\ t.first = start
                             /\ t.last = s.pos /\ t.lexeme = m_curr_lexeme
               PROVE  Right(t)
    OBVIOUS
  <2>1. b \in start..Len(input) /\ t.last = b
    BY <1>3
  <2>2. HasBadEscape(SubSeq(input, start, b)) \/ IsValue(t.lexeme, SubSeq(input, start, b))
    BY <1>4
  <2> QED BY <1>3, <1>4, <2>1, <2>2, RightString
<1> QED BY <1>1, <1>5, AnswerIsRight DEF Texts

-----------------------------------------------------------------------------
(* The theorems.                                                           *)

LEMMA TextsInit ==
    ASSUME Init
    PROVE  Texts
<1>1. phase = "parser" /\ DOMAIN tokens = {}
  BY DEF Init
<1>2. Answered = {}
  BY <1>1 DEF Answered
<1> QED BY <1>1, <1>2 DEF Texts, ReadingOK, AnswersRight

\* peek() and consume() of the parser, and stuttering.
LEMMA TextsParser ==
    ASSUME Texts, Peek \/ Consume \/ UNCHANGED vars
    PROVE  Texts'
<1>1. /\ phase' = phase \/ phase' \in {"lex", "parser"}
      /\ UNCHANGED <<input, m_input, m_curr_lexeme, start, tokens>>
  BY DEF Peek, Consume, vars
<1>2. AnswersRight'
  BY <1>1, AnswersStay DEF Texts
<1>3. CASE phase' = phase
  BY <1>1, <1>2, <1>3 DEF Texts, ReadingOK, TextRead
<1>4. CASE phase' \in {"lex", "parser"}
  BY <1>2, <1>4 DEF Texts, ReadingOK
<1> QED BY <1>1, <1>3, <1>4

LEMMA TextsStep ==
    ASSUME Inv, Texts, [Next]_vars
    PROVE  Texts'
<1>1. CASE Peek \/ Consume \/ UNCHANGED vars
  BY <1>1, TextsParser
<1>2. CASE Lex
  BY <1>2, TextsSkip, TextsEof, TextsDivide, TextsSpecial, TextsTwoChar, TextsOneChar,
     TextsStartIdentifier, TextsStartNumber, TextsStartString, TextsWordChar,
     TextsEndOfIdentifier, TextsEndOfNumber, TextsEndOfString, TextsStringChar,
     TextsEscape
     DEF Lex
<1> QED BY <1>1, <1>2 DEF Next

LEMMA TextsHold == Spec => []Texts
<1>1. Init => Texts
  BY TextsInit
<1>2. Inv /\ Texts /\ [Next]_vars => Texts'
  BY TextsStep
<1> QED BY <1>1, <1>2, Invariance, PTL DEF Spec

\* isOperator(), isNumeric(), isIdentifier() and isStr() stop where they
\* should, and put back what they looked at: in every file, each token but
\* T_EOF is the longest that begins where it does.
THEOREM TokensAreLongest == Spec => []LongestMatch
<1>1. ASSUME Texts PROVE LongestMatch
  <2>1. \A k \in Answered : Right(tokens[k])
    BY <1>1 DEF Texts, AnswersRight
  <2> QED BY <2>1 DEF Right, LongestMatch, Text
<1> QED BY <1>1, TextsHold, PTL

\* m_curr_lexeme, cleared and pushed to in many places, is with every token of
\* every file that of this token and of no other, escapes resolved.
THEOREM LexemesHold == Spec => []LexemesAreRight
<1>1. ASSUME Texts PROVE LexemesAreRight
  <2>1. \A k \in Answered : Right(tokens[k])
    BY <1>1 DEF Texts, AnswersRight
  <2> QED BY <2>1 DEF Right, LexemesAreRight, Text
<1> QED BY <1>1, TextsHold, PTL
=============================================================================
