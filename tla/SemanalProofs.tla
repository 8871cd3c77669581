---------------------------- MODULE SemanalProofs ----------------------------
(***************************************************************************)
(* Proofs, for programs of any size and over any names, that the stacks    *)
(* which name resolution keeps by hand follow the calls of visit(), that   *)
(* nothing of a function is left for the next, and that an accepted        *)
(* program has one main function (module Semanal).                         *)
(***************************************************************************)
EXTENDS Semanal, FiniteSetTheorems, WellFoundedInduction, TLAPS

-----------------------------------------------------------------------------
(* The inductive invariant.                                                *)

Frames == BodyFrames \cup ExprFrames
ScopeSet == UNION {[S -> Symbol] : S \in SUBSET Names}

Declaration == [kind : {"var", "func", "main"}, name : Names]

\* TypeOK, with scopes that come from a set.
Types ==
    /\ phase \in {"globals", "next", "params", "stmt", "expr", "done",
                  "accepted", "rejected"}
    /\ family \in Families
    /\ program \in Seq(Declaration)
    /\ next \in 1..(Len(program) + 1)
    /\ frames \in Seq(Frames)
    /\ trail \in Seq(Node)
    /\ m_global \in ScopeSet /\ m_func \in ScopeSet /\ m_blocks \in Seq(ScopeSet)
    /\ insideWhile \in Nat /\ visitedMain \in BOOLEAN
    /\ currentFunction \in Nat \cup {NoLine}

\* Functions are at the bottom with a block above, expressions at the top.
Shape(F) ==
    /\ F \in Seq(Frames) /\ F # <<>> /\ F[1] \in {"func", "main"}
    /\ \A i \in 2..Len(F) : F[i] \notin {"func", "main"}
    /\ \A i \in 1..(Len(F) - 1) : F[i] \in BodyFrames
    /\ Len(F) >= 2 => F[2] = "block"

FramesOK ==
    /\ phase \in {"globals", "next", "accepted"} => frames = <<>>
    /\ phase = "params" => frames = <<"func">>
    /\ phase \in {"stmt", "expr", "done"} => Shape(frames)
    /\ phase = "stmt" => Top \in {"block", "if", "ifelse", "else", "while"}
    /\ phase = "expr" => Top \in {"expr", "return", "if", "ifelse", "while"}
    /\ phase = "done" => Top \in BodyFrames \ {"block"}

\* Where the visitor is among the declarations, and which of them are main functions.
IsMain(g) == program[g].kind = "main"
DeclarationsOK ==
    phase # "rejected" =>
        /\ phase = "globals" => next = 1
        /\ frames # <<>> => next <= Len(program) /\ program[next].kind = frames[1]
        /\ visitedMain <=> \E g \in 1..(next - 1) : IsMain(g)
        /\ \A g, h \in 1..(next - 1) : IsMain(g) /\ IsMain(h) => g = h
        /\ frames # <<>> /\ frames[1] = "main" => ~visitedMain
        /\ phase = "accepted" => next = Len(program) + 1 /\ visitedMain

\* Only functions that are not main have parameters.
ParametersOK ==
    phase # "rejected" /\ (frames = <<>> \/ frames[1] = "main") => m_func = Empty

Inv == Types /\ FramesOK /\ DeclarationsOK /\ ParametersOK /\ StacksFollowVisits

-----------------------------------------------------------------------------
(* Scopes.                                                                 *)

LEMMA ScopesAre ==
    /\ \A m : IsScope(m) <=> m \in ScopeSet
    /\ Empty \in ScopeSet /\ m_rts \in ScopeSet
<1>1. \A m : IsScope(m) <=> m \in ScopeSet
  BY DEF IsScope, ScopeSet
<1>2. Empty \in ScopeSet
  <2>1. Empty \in [{} -> Symbol]
    BY DEF Empty
  <2> QED BY <2>1 DEF ScopeSet
<1>3. m_rts \in ScopeSet
  <2>1. m_rts \in [RtsNames -> Symbol]
    BY DEF m_rts, Func, Symbol, Lines
  <2> QED BY <2>1, SemanalAssumption DEF ScopeSet
<1> QED BY <1>1, <1>2, <1>3

LEMMA InsertIs ==
    ASSUME NEW m \in ScopeSet, NEW name \in Names, NEW symbol \in Symbol
    PROVE  Insert(m, name, symbol) \in ScopeSet
<1>1. DOMAIN m \subseteq Names /\ \A n \in DOMAIN m : m[n] \in Symbol
  BY DEF ScopeSet
<1>2. Insert(m, name, symbol) \in [DOMAIN m \cup {name} -> Symbol]
  BY <1>1 DEF Insert
<1> QED BY <1>1, <1>2 DEF ScopeSet

LEMMA SymbolsAre ==
    ASSUME NEW line \in Nat
    PROVE  Var(line) \in Symbol /\ Func(line) \in Symbol /\ Main(line) \in Symbol
BY DEF Var, Func, Main, Symbol, Lines

\* A set of natural numbers has a least element.
LEMMA Least ==
    ASSUME NEW T \in SUBSET Nat, T # {}
    PROVE  \E x \in T : \A y \in T : x <= y
<1> DEFINE R == {ss \in Nat \X Nat : ss[1] < ss[2]}
<1>1. IsWellFoundedOn(R, Nat)
  BY NatLessThanWellFounded DEF OpToRel
<1>2. PICK x \in T : \A y \in T : <<y, x>> \notin R
  <2> HIDE DEF R
  <2> QED BY <1>1, WFMin
<1>3. \A y \in T : x <= y
  <2> SUFFICES ASSUME NEW y \in T PROVE x <= y
    OBVIOUS
  <2>1. <<y, x>> \notin R /\ <<y, x>> \in Nat \X Nat
    BY <1>2
  <2>2. ~(<<y, x>>[1] < <<y, x>>[2])
    BY <2>1
  <2>3. x \in Nat /\ y \in Nat
    OBVIOUS
  <2> QED BY <2>2, <2>3
<1> QED BY <1>3

\* A name that is found has a symbol.
LEMMA QueryIs ==
    ASSUME Types, NEW name, Found(name) # {}
    PROVE  Query(name) \in Symbol
<1>1. Scopes \in Seq(ScopeSet)
  <2>1. Innermost(m_blocks) \in Seq(ScopeSet)
    BY DEF Types, Innermost
  <2>2. <<m_func, m_global, m_rts>> \in Seq(ScopeSet)
    BY ScopesAre DEF Types
  <2> QED BY <2>1, <2>2 DEF Scopes
<1>2. Found(name) \subseteq DOMAIN Scopes /\ Found(name) \in SUBSET Nat
  BY <1>1 DEF Found
<1>3. \E i \in Found(name) : \A j \in Found(name) : i <= j
  BY <1>2, Least
<1>4. PICK i \in Found(name) : Query(name) = Scopes[i][name]
  BY <1>3 DEF Query
<1>5. name \in DOMAIN Scopes[i] /\ Scopes[i] \in ScopeSet
  BY <1>1, <1>2, <1>4 DEF Found
<1> QED BY <1>4, <1>5 DEF ScopeSet

-----------------------------------------------------------------------------
(* Stacks.                                                                 *)

CountOf(s, what) == Cardinality({i \in DOMAIN s : s[i] = what})

LEMMA PopIs ==
    ASSUME NEW S, NEW s \in Seq(S), s # <<>>
    PROVE  /\ Pop(s) \in Seq(S) /\ Len(Pop(s)) = Len(s) - 1
           /\ \A i \in 1..(Len(s) - 1) : Pop(s)[i] = s[i]
           /\ Pop(s) = <<>> <=> Len(s) = 1
<1>1. /\ Len(s) - 1 \in Nat
      /\ \A i \in 1..(Len(s) - 1) : s[i] \in S
  OBVIOUS
<1>2. Pop(s) \in [1..(Len(s) - 1) -> S]
  BY <1>1 DEF Pop
<1>3. Pop(s) \in Seq(S) /\ Len(Pop(s)) = Len(s) - 1
  BY <1>1, <1>2
<1>4. \A i \in 1..(Len(s) - 1) : Pop(s)[i] = s[i]
  BY DEF Pop
<1> QED BY <1>3, <1>4

LEMMA CountIs ==
    ASSUME NEW S, NEW s \in Seq(S), NEW what
    PROVE  /\ CountOf(s, what) \in Nat
           /\ IsFiniteSet({i \in DOMAIN s : s[i] = what})
           /\ CountOf(s, what) = 0 <=> \A i \in 1..Len(s) : s[i] # what
<1> DEFINE T == {i \in DOMAIN s : s[i] = what}
<1>1. DOMAIN s = 1..Len(s) /\ Len(s) \in Nat
  OBVIOUS
<1>2. IsFiniteSet(1..Len(s))
  BY <1>1, FS_Interval
<1>3. IsFiniteSet(T)
  <2>1. T \subseteq 1..Len(s)
    BY <1>1
  <2> QED BY <1>2, <2>1, FS_Subset
<1>4. Cardinality(T) \in Nat /\ (Cardinality(T) = 0 <=> T = {})
  <2> HIDE DEF T
  <2> QED BY <1>3, FS_CardinalityType, FS_EmptySet
<1> QED BY <1>1, <1>3, <1>4 DEF CountOf

LEMMA NoCount ==
    ASSUME NEW what
    PROVE  CountOf(<<>>, what) = 0
<1>1. {i \in DOMAIN <<>> : <<>>[i] = what} = {}
  OBVIOUS
<1> QED BY <1>1, FS_EmptySet DEF CountOf

LEMMA CountAppend ==
    ASSUME NEW S, NEW s \in Seq(S), NEW c \in S, NEW what
    PROVE  CountOf(Append(s, c), what) =
               IF c = what THEN CountOf(s, what) + 1 ELSE CountOf(s, what)
<1> DEFINE T == {i \in DOMAIN s : s[i] = what}
           U == {i \in DOMAIN Append(s, c) : Append(s, c)[i] = what}
<1>1. /\ DOMAIN s = 1..Len(s) /\ Len(s) \in Nat /\ DOMAIN Append(s, c) = 1..(Len(s) + 1)
      /\ \A i \in 1..Len(s) : Append(s, c)[i] = s[i]
      /\ Append(s, c)[Len(s) + 1] = c
  OBVIOUS
<1>2. U = IF c = what THEN T \cup {Len(s) + 1} ELSE T
  BY <1>1
<1>3. Len(s) + 1 \notin T /\ IsFiniteSet(T)
  <2>1. Len(s) + 1 \notin T
    BY <1>1
  <2>2. IsFiniteSet(T)
    BY CountIs
  <2> QED BY <2>1, <2>2
<1>4. Cardinality(T \cup {Len(s) + 1}) = Cardinality(T) + 1
  <2> HIDE DEF T
  <2> QED BY <1>3, FS_AddElement
<1> QED BY <1>2, <1>4 DEF CountOf

LEMMA CountPop ==
    ASSUME NEW S, NEW s \in Seq(S), s # <<>>, NEW what
    PROVE  CountOf(Pop(s), what) =
               IF s[Len(s)] = what THEN CountOf(s, what) - 1 ELSE CountOf(s, what)
<1>1. Pop(s) \in Seq(S) /\ s[Len(s)] \in S
  BY PopIs
<1>2. s = Append(Pop(s), s[Len(s)])
  BY PopIs
<1>3. CountOf(Append(Pop(s), s[Len(s)]), what) =
          IF s[Len(s)] = what THEN CountOf(Pop(s), what) + 1 ELSE CountOf(Pop(s), what)
  BY <1>1, CountAppend
<1>4. CountOf(Pop(s), what) \in Nat
  BY <1>1, CountIs
<1>5. CountOf(s, what) = CountOf(Append(Pop(s), s[Len(s)]), what)
  BY <1>2
<1> QED BY <1>3, <1>4, <1>5

LEMMA TypesImply == Types => TypeOK
<1> SUFFICES ASSUME Types PROVE TypeOK
  OBVIOUS
<1>1. m_blocks = [b \in 1..Len(m_blocks) |-> m_blocks[b]] /\ DOMAIN m_blocks = 1..Len(m_blocks)
  BY DEF Types
<1>2. \A b \in DOMAIN m_blocks : IsScope(m_blocks[b])
  BY ScopesAre DEF Types
<1>3. IsScope(m_global) /\ IsScope(m_func)
  BY ScopesAre DEF Types
<1> QED BY <1>1, <1>2, <1>3 DEF Types, TypeOK, Frames, Lines, Declaration

\* What is pushed on and popped from the active calls.
LEMMA ShapePush ==
    ASSUME NEW F, Shape(F), F[Len(F)] \in BodyFrames,
           NEW c \in Frames \ {"func", "main"}, Len(F) >= 2 \/ c = "block"
    PROVE  /\ Shape(Append(F, c)) /\ Append(F, c)[Len(Append(F, c))] = c
           /\ Append(F, c)[1] = F[1] /\ Append(F, c) # <<>>
<1>1. F \in Seq(Frames) /\ Len(F) \in Nat /\ Len(F) >= 1
  BY DEF Shape
<1>2. /\ Append(F, c) \in Seq(Frames) /\ Append(F, c) # <<>>
      /\ Len(Append(F, c)) = Len(F) + 1
      /\ Append(F, c)[Len(F) + 1] = c
      /\ \A i \in 1..Len(F) : Append(F, c)[i] = F[i]
  BY <1>1
<1>3. \A i \in 2..(Len(F) + 1) : Append(F, c)[i] \notin {"func", "main"}
  BY <1>1, <1>2 DEF Shape
<1>4. \A i \in 1..Len(F) : Append(F, c)[i] \in BodyFrames
  BY <1>1, <1>2 DEF Shape
<1>5. Append(F, c)[2] = "block"
  BY <1>1, <1>2 DEF Shape
<1>6. Append(F, c)[1] = F[1]
  BY <1>1, <1>2
<1> QED BY <1>1, <1>2, <1>3, <1>4, <1>5, <1>6 DEF Shape

LEMMA ShapePop ==
    ASSUME NEW F, Shape(F), F[Len(F)] \notin {"func", "main"}
    PROVE  /\ Shape(Pop(F)) /\ Pop(F)[Len(Pop(F))] \in BodyFrames
           /\ Pop(F)[1] = F[1] /\ Pop(F) # <<>>
           /\ F[Len(F)] # "block" => Len(Pop(F)) >= 2
<1>1. F \in Seq(Frames) /\ Len(F) \in Nat /\ Len(F) >= 2
  BY DEF Shape
<1>2. /\ Pop(F) \in Seq(Frames) /\ Len(Pop(F)) = Len(F) - 1
      /\ \A i \in 1..(Len(F) - 1) : Pop(F)[i] = F[i]
      /\ Pop(F) # <<>>
  BY <1>1, PopIs
<1>3. /\ \A i \in 2..(Len(F) - 1) : Pop(F)[i] \notin {"func", "main"}
      /\ \A i \in 1..(Len(F) - 1) : Pop(F)[i] \in BodyFrames
      /\ Len(F) - 1 >= 2 => Pop(F)[2] = "block"
      /\ Pop(F)[1] = F[1] /\ F[1] \in {"func", "main"}
  BY <1>1, <1>2 DEF Shape
<1>4. F[Len(F)] # "block" => Len(F) - 1 >= 2
  BY <1>1 DEF Shape
<1> QED BY <1>1, <1>2, <1>3, <1>4 DEF Shape

LEMMA ShapeEnds ==
    ASSUME NEW F, Shape(F)
    PROVE  /\ F[Len(F)] \in {"func", "main"} => Len(F) = 1 /\ F[Len(F)] = F[1]
           /\ F[Len(F)] \notin {"func", "main"} => Len(F) >= 2
           /\ F # <<>> /\ F \in Seq(Frames) /\ Len(F) \in Nat
<1>1. F \in Seq(Frames) /\ F # <<>>
  BY DEF Shape
<1>2. Len(F) \in Nat /\ Len(F) >= 1
  BY <1>1
<1>3. Len(F) >= 2 => F[Len(F)] \notin {"func", "main"}
  BY <1>2 DEF Shape
<1>4. Len(F) = 1 => F[Len(F)] = F[1] /\ F[1] \in {"func", "main"}
  BY DEF Shape
<1>5. CASE Len(F) = 1
  BY <1>1, <1>2, <1>4, <1>5
<1>6. CASE Len(F) >= 2
  BY <1>1, <1>2, <1>3, <1>6
<1>7. Len(F) = 1 \/ Len(F) >= 2
  <2>1. \A n \in Nat : n >= 1 => n = 1 \/ n >= 2
    OBVIOUS
  <2> QED BY <1>2, <2>1
<1> QED BY <1>5, <1>6, <1>7

\* What a node adds to the trail.
LEMMA Noted ==
    ASSUME trail \in Seq(Node),
           NEW what \in AllConstructs \cup {"func", "main", "close", "end"},
           NEW name \in Names \cup {"-"}, NEW line \in Nat \cup {NoLine},
           Note(what, name, line)
    PROVE  trail' \in Seq(Node)
<1>1. [what |-> what, name |-> name, line |-> line] \in Node
  BY DEF Node, Lines
<1> QED BY <1>1 DEF Note

LEMMA HereIs ==
    ASSUME Types
    PROVE  Here \in Nat /\ Var(Here) \in Symbol
<1>1. Here \in Nat
  BY SemanalAssumption DEF Types, Here
<1> QED BY <1>1, SymbolsAre

\* What the next state is like inside a function.
LEMMA Within ==
    ASSUME Inv, phase \in {"params", "stmt", "expr", "done"},
           phase' \in {"params", "stmt", "expr", "done", "rejected"},
           frames' # <<>>, frames'[1] = frames[1],
           UNCHANGED <<program, next, visitedMain>>,
           m_func' = m_func \/ phase = "params"
    PROVE  DeclarationsOK' /\ ParametersOK'
<1>1. frames # <<>> /\ (phase = "params" => frames[1] = "func")
  BY DEF Inv, FramesOK, Shape
<1>2. DeclarationsOK'
  BY <1>1 DEF Inv, DeclarationsOK, IsMain
<1>3. ParametersOK'
  BY <1>1 DEF Inv, ParametersOK
<1> QED BY <1>2, <1>3

LEMMA GoesOn ==
    ASSUME NEW F, Shape(F), frames' = F, F[Len(F)] \in BodyFrames,
           phase' = IF F[Len(F)] = "block" THEN "stmt" ELSE "done"
    PROVE  FramesOK' /\ phase' \in {"stmt", "done"}
BY DEF FramesOK, Top, BodyFrames

LEMMA Rejected ==
    ASSUME Types', phase' = "rejected"
    PROVE  Inv'
BY DEF Inv, FramesOK, DeclarationsOK, ParametersOK, StacksFollowVisits

\* How the numbers of active calls change.
LEMMA CountFrames ==
    ASSUME Types, NEW what
    PROVE  /\ Count(what) = CountOf(frames, what) /\ Count(what) \in Nat
           /\ frames # <<>> /\ Top = what => Count(what) >= 1
           /\ Count(what)' = CountOf(frames', what)
           /\ \A c \in Frames : frames' = Append(frames, c) =>
                 Count(what)' = IF c = what THEN Count(what) + 1 ELSE Count(what)
           /\ frames # <<>> /\ frames' = Pop(frames) =>
                 Count(what)' = IF Top = what THEN Count(what) - 1 ELSE Count(what)
           /\ frames' = frames => Count(what)' = Count(what)
<1>1. frames \in Seq(Frames)
  BY DEF Types
<1>2. Count(what) = CountOf(frames, what) /\ Count(what)' = CountOf(frames', what)
  BY DEF Count, CountOf
<1>3. CountOf(frames, what) \in Nat
      /\ (CountOf(frames, what) = 0 <=> \A i \in 1..Len(frames) : frames[i] # what)
  BY <1>1, CountIs
<1>4. frames # <<>> /\ Top = what => CountOf(frames, what) >= 1
  BY <1>1, <1>3 DEF Top
<1>5. \A c \in Frames : CountOf(Append(frames, c), what) =
          IF c = what THEN CountOf(frames, what) + 1 ELSE CountOf(frames, what)
  BY <1>1, CountAppend
<1>6. frames # <<>> => CountOf(Pop(frames), what) =
          IF Top = what THEN CountOf(frames, what) - 1 ELSE CountOf(frames, what)
  BY <1>1, CountPop DEF Top
<1> QED BY <1>2, <1>3, <1>4, <1>5, <1>6

-----------------------------------------------------------------------------
(* Steps at the level of declarations.                                     *)

LEMMA InvInit ==
    ASSUME Init
    PROVE  Inv
<1>1. /\ frames = <<>> /\ m_blocks = <<>> /\ program = <<>> /\ trail = <<>>
      /\ next = 1 /\ insideWhile = 0 /\ phase = "globals" /\ visitedMain = FALSE
      /\ m_func = Empty /\ m_global = Empty /\ currentFunction = NoLine
      /\ family \in Families
  BY DEF Init
<1>2. Types
  <2>1. next \in 1..(Len(program) + 1)
    BY <1>1
  <2>2. /\ program \in Seq(Declaration)
        /\ frames \in Seq(Frames) /\ trail \in Seq(Node) /\ m_blocks \in Seq(ScopeSet)
    BY <1>1
  <2> QED BY <1>1, <2>1, <2>2, ScopesAre DEF Types
<1>3. \A what : Count(what) = 0
  <2>1. {i \in DOMAIN frames : frames[i] = "block"} = {}
        /\ {i \in DOMAIN frames : frames[i] = "while"} = {}
    BY <1>1
  <2> SUFFICES ASSUME NEW what PROVE Count(what) = 0
    OBVIOUS
  <2>2. {i \in DOMAIN frames : frames[i] = what} = {}
    BY <1>1
  <2> QED BY <2>2, FS_EmptySet DEF Count
<1>4. StacksFollowVisits
  BY <1>1, <1>3 DEF StacksFollowVisits
<1>5. FramesOK /\ ParametersOK
  BY <1>1 DEF FramesOK, ParametersOK
<1>6. DeclarationsOK
  BY <1>1 DEF DeclarationsOK
<1> QED BY <1>2, <1>4, <1>5, <1>6 DEF Inv

LEMMA GlobalDeclStep ==
    ASSUME Inv, NEW kind \in {"var", "func", "main"}, NEW name \in Names,
           GlobalDecl(kind, name)
    PROVE  Inv'
<1> DEFINE line == Len(program) + 1
           symbol == CASE kind = "var"  -> Var(line)
                       [] kind = "func" -> Func(line)
                       [] kind = "main" -> Main(line)
           decl == [kind |-> kind, name |-> name]
<1>1. /\ phase = "globals" /\ program' = Append(program, decl)
      /\ \/ phase' = "rejected" /\ m_global' = m_global
         \/ phase' = phase /\ m_global' = Insert(m_global, name, symbol)
      /\ UNCHANGED <<family, next, frames, trail, m_func, m_blocks, insideWhile,
                     visitedMain, currentFunction>>
  <2>1. /\ phase = "globals" /\ program' = Append(program, decl)
        /\ UNCHANGED <<family, next, frames, trail, m_func, m_blocks, insideWhile,
                       visitedMain, currentFunction>>
    BY DEF GlobalDecl, state
  <2>2. IF name \in DOMAIN m_global THEN phase' = "rejected" /\ m_global' = m_global
        ELSE m_global' = Insert(m_global, name, symbol) /\ phase' = phase
    BY DEF GlobalDecl, Reject
  <2> HIDE DEF symbol
  <2> QED BY <2>1, <2>2
<1>2. symbol \in Symbol
  <2>1. line \in Nat
    BY DEF Inv, Types
  <2> QED BY <2>1, SymbolsAre
<1>3. /\ program' \in Seq(Declaration)
      /\ next' \in 1..(Len(program') + 1)
  <2>1. decl \in Declaration
    BY DEF Declaration
  <2>2. program' \in Seq(Declaration) /\ Len(program') = Len(program) + 1
    BY <1>1, <2>1 DEF Inv, Types
  <2>3. next \in 1..(Len(program) + 1) /\ Len(program) \in Nat
    BY DEF Inv, Types
  <2> QED BY <1>1, <2>2, <2>3
<1>4. m_global' \in ScopeSet
  <2> HIDE DEF symbol
  <2> QED BY <1>1, <1>2, InsertIs DEF Inv, Types
<1>5. Types'
  BY <1>1, <1>3, <1>4 DEF Inv, Types
<1>6. CASE phase' = "rejected"
  BY <1>5, <1>6, Rejected
<1>7. CASE phase' = phase
  <2>1. FramesOK' /\ ParametersOK'
    BY <1>1, <1>7 DEF Inv, FramesOK, ParametersOK
  <2>2. DeclarationsOK'
    BY <1>1, <1>7 DEF Inv, DeclarationsOK, FramesOK
  <2>3. StacksFollowVisits'
    BY <1>1, <1>7 DEF Inv, StacksFollowVisits, Count
  <2> QED BY <1>5, <2>1, <2>2, <2>3 DEF Inv
<1> QED BY <1>1, <1>6, <1>7

LEMMA EndOfGlobalsStep ==
    ASSUME Inv, EndOfGlobals
    PROVE  Inv'
<1>1. /\ phase = "globals" /\ phase' = "next"
      /\ UNCHANGED <<family, program, next, frames, trail, m_global, m_func, m_blocks,
                     insideWhile, visitedMain, currentFunction>>
  BY DEF EndOfGlobals, source, table, state
<1>2. Types' /\ FramesOK' /\ ParametersOK'
  BY <1>1 DEF Inv, Types, FramesOK, ParametersOK
<1>3. DeclarationsOK'
  BY <1>1 DEF Inv, DeclarationsOK, FramesOK, IsMain
<1>4. StacksFollowVisits'
  BY <1>1 DEF Inv, StacksFollowVisits, Count
<1> QED BY <1>2, <1>3, <1>4 DEF Inv

LEMMA GVarDeclStep ==
    ASSUME Inv, GVarDecl
    PROVE  Inv'
<1>1. /\ phase = "next" /\ next <= Len(program) /\ program[next].kind = "var"
      /\ next' = next + 1
      /\ UNCHANGED <<phase, family, program, frames, trail, m_global, m_func, m_blocks,
                     insideWhile, visitedMain, currentFunction>>
  BY DEF GVarDecl, VisitNext, source, table, state
<1>2. Types' /\ FramesOK' /\ ParametersOK'
  BY <1>1 DEF Inv, Types, FramesOK, ParametersOK
<1>3. DeclarationsOK'
  <2>1. next \in Nat /\ frames = <<>> /\ ~IsMain(next)
    BY <1>1 DEF Inv, Types, FramesOK, IsMain
  <2>2. 1..(next' - 1) = 1..(next - 1) \cup {next}
    BY <1>1, <2>1 DEF Inv, Types
  <2>3. \A g : IsMain(g)' <=> IsMain(g)
    BY <1>1 DEF IsMain
  <2> QED BY <1>1, <2>1, <2>2, <2>3 DEF Inv, DeclarationsOK
<1>4. StacksFollowVisits'
  BY <1>1 DEF Inv, StacksFollowVisits, Count
<1> QED BY <1>2, <1>3, <1>4 DEF Inv

\* Between two functions nothing is open.
LEMMA BetweenFunctions ==
    ASSUME Inv, phase = "next"
    PROVE  /\ next \in Nat /\ next # NoLine /\ frames = <<>> /\ m_blocks = <<>>
           /\ Count("block") = 0 /\ Count("while") = 0 /\ insideWhile = 0
           /\ next <= Len(program) =>
                 next \in 1..Len(program) /\ program[next].name \in Names
<1>1. frames = <<>>
  BY DEF Inv, FramesOK
<1>2. next \in Nat /\ next # NoLine /\ next >= 1 /\ Len(program) \in Nat
  <2>1. Len(program) \in Nat /\ next \in 1..(Len(program) + 1)
    BY DEF Inv, Types
  <2> QED BY <2>1 DEF NoLine
<1>3. next <= Len(program) => next \in 1..Len(program) /\ program[next].name \in Names
  <2>1. program \in Seq(Declaration)
    BY DEF Inv, Types
  <2>2. next <= Len(program) => next \in 1..Len(program)
    BY <1>2
  <2>3. ASSUME NEW i \in 1..Len(program)
        PROVE  program[i].name \in Names
    <3>1. program[i] \in Declaration
      BY <2>1
    <3> QED BY <3>1 DEF Declaration
  <2> QED BY <2>2, <2>3
<1>5. Count("block") = 0 /\ Count("while") = 0
  BY <1>1, NoCount, CountFrames DEF Inv
<1>6. m_blocks = <<>> /\ insideWhile = 0
  BY <1>5 DEF Inv, Types, StacksFollowVisits
<1> QED BY <1>1, <1>2, <1>3, <1>5, <1>6

LEMMA FuncDeclStep ==
    ASSUME Inv, FuncDecl
    PROVE  Inv'
<1>1. /\ phase = "next" /\ next <= Len(program) /\ program[next].kind = "func"
      /\ Note("func", program[next].name, next) /\ currentFunction' = next
      /\ frames' = <<"func">> /\ phase' = "params"
      /\ UNCHANGED <<family, program, next, m_global, m_func, m_blocks, insideWhile,
                     visitedMain>>
  BY DEF FuncDecl, VisitNext, source, table
<1>2. next \in Nat /\ next # NoLine /\ program[next].name \in Names /\ frames = <<>>
  BY <1>1, BetweenFunctions
<1>3. trail' \in Seq(Node)
  BY <1>1, <1>2, Noted DEF Inv, Types
<1>4. <<"func">> \in Seq(Frames) /\ <<"func">> # <<>> /\ <<"func">>[1] = "func"
  BY DEF Frames, BodyFrames
<1>5. Types'
  BY <1>1, <1>2, <1>3, <1>4 DEF Inv, Types
<1>6. FramesOK'
  BY <1>1 DEF FramesOK
<1>7. DeclarationsOK' /\ ParametersOK'
  BY <1>1, <1>2, <1>4 DEF Inv, DeclarationsOK, ParametersOK, IsMain
<1>8. StacksFollowVisits'
  <2>1. Count("block") = 0 /\ Count("while") = 0
    BY <1>1, BetweenFunctions
  <2>2. Count("block")' = 0 /\ Count("while")' = 0
    <3>1. \A i \in 1..Len(<<"func">>) : <<"func">>[i] = "func"
      OBVIOUS
    <3>2. \A what : what # "func" => CountOf(<<"func">>, what) = 0
      BY <1>4, <3>1, CountIs
    <3> QED BY <1>1, <3>2, CountFrames DEF Inv
  <2> QED BY <1>1, <1>2, <1>4, <2>1, <2>2 DEF Inv, StacksFollowVisits
<1> QED BY <1>5, <1>6, <1>7, <1>8 DEF Inv

LEMMA MFuncDeclStep ==
    ASSUME Inv, MFuncDecl
    PROVE  Inv'
<1> DEFINE F == <<"main", "block">>
<1>1. /\ phase = "next" /\ next <= Len(program) /\ program[next].kind = "main"
      /\ Note("main", program[next].name, next) /\ currentFunction' = next
      /\ \/ phase' = "rejected" /\ frames' = frames /\ m_blocks' = m_blocks
         \/ /\ ~visitedMain /\ phase' = "stmt" /\ frames' = F
            /\ m_blocks' = Append(m_blocks, Empty)
      /\ UNCHANGED <<family, program, next, m_global, m_func, insideWhile, visitedMain>>
  BY DEF MFuncDecl, VisitNext, source, Reject
<1>2. next \in Nat /\ next # NoLine /\ program[next].name \in Names /\ frames = <<>>
  BY <1>1, BetweenFunctions
<1>3. trail' \in Seq(Node)
  BY <1>1, <1>2, Noted DEF Inv, Types
<1>4. /\ F \in Seq(Frames) /\ F # <<>> /\ Len(F) = 2 /\ F[1] = "main" /\ F[2] = "block"
      /\ "main" \in BodyFrames /\ "block" \in BodyFrames
  BY DEF Frames, BodyFrames
<1>5. Types'
  <2>1. m_blocks' \in Seq(ScopeSet)
    <3>1. m_blocks \in Seq(ScopeSet) /\ Append(m_blocks, Empty) \in Seq(ScopeSet)
      BY ScopesAre DEF Inv, Types
    <3> QED BY <1>1, <3>1
  <2> QED BY <1>1, <1>2, <1>3, <1>4, <2>1 DEF Inv, Types
<1>6. CASE phase' = "rejected"
  BY <1>5, <1>6, Rejected
<1>7. CASE /\ ~visitedMain /\ phase' = "stmt" /\ frames' = F
           /\ m_blocks' = Append(m_blocks, Empty)
  <2>1. Shape(F)
    BY <1>4 DEF Shape
  <2>2. FramesOK'
    BY <1>4, <1>7, <2>1 DEF FramesOK, Top
  <2>3. DeclarationsOK' /\ ParametersOK'
    BY <1>1, <1>2, <1>4, <1>7 DEF Inv, DeclarationsOK, ParametersOK, IsMain
  <2>4. StacksFollowVisits'
    <3>1. Count("block") = 0 /\ Count("while") = 0
      BY <1>1, BetweenFunctions
    <3>2. /\ <<"main">> \in Seq(Frames) /\ F = Append(<<"main">>, "block")
          /\ \A i \in 1..Len(<<"main">>) : <<"main">>[i] = "main"
      BY DEF Frames, BodyFrames
    <3>3. CountOf(<<"main">>, "block") = 0 /\ CountOf(<<"main">>, "while") = 0
      BY <3>2, CountIs
    <3>4. /\ CountOf(Append(<<"main">>, "block"), "block") = 1
          /\ CountOf(Append(<<"main">>, "block"), "while") = 0
      BY <1>4, <3>2, <3>3, CountAppend DEF Frames
    <3>5. Count("block")' = 1 /\ Count("while")' = 0
      BY <1>7, <3>2, <3>4, CountFrames DEF Inv
    <3>6. Len(m_blocks) = 0 /\ Len(m_blocks') = 1
      BY <1>1, <1>7, <3>1 DEF Inv, StacksFollowVisits, Types
    <3> QED BY <1>1, <1>2, <1>4, <1>7, <3>1, <3>5, <3>6 DEF Inv, StacksFollowVisits
  <2> QED BY <1>5, <2>2, <2>3, <2>4 DEF Inv
<1> QED BY <1>1, <1>6, <1>7

LEMMA ParamDeclStep ==
    ASSUME Inv, NEW name \in Names, ParamDecl(name)
    PROVE  Inv'
<1>1. /\ phase = "params" /\ Note("param", name, Here)
      /\ \/ phase' = "rejected" /\ m_func' = m_func
         \/ phase' = phase /\ m_func' = Insert(m_func, name, Var(Here))
      /\ UNCHANGED <<family, program, next, frames, m_global, m_blocks, insideWhile,
                     visitedMain, currentFunction>>
  BY DEF ParamDecl, Visit, source, state, Reject
<1>2. Here \in Nat /\ Var(Here) \in Symbol
  BY HereIs DEF Inv
<1>3. trail' \in Seq(Node)
  BY <1>1, <1>2, Noted DEF Inv, Types, AllConstructs
<1>4. m_func' \in ScopeSet
  BY <1>1, <1>2, InsertIs DEF Inv, Types
<1>5. Types'
  BY <1>1, <1>3, <1>4 DEF Inv, Types
<1>6. CASE phase' = "rejected"
  BY <1>5, <1>6, Rejected
<1>7. CASE phase' = phase
  <2>1. frames # <<>>
    BY <1>1 DEF Inv, FramesOK
  <2>2. FramesOK'
    BY <1>1, <1>7 DEF Inv, FramesOK
  <2>3. DeclarationsOK' /\ ParametersOK'
    BY <1>1, <1>7, <2>1, Within
  <2>4. StacksFollowVisits'
    BY <1>1, <1>7, CountFrames DEF Inv, StacksFollowVisits
  <2> QED BY <1>5, <2>2, <2>3, <2>4 DEF Inv
<1> QED BY <1>1, <1>6, <1>7

LEMMA EndOfParamsStep ==
    ASSUME Inv, EndOfParams
    PROVE  Inv'
<1>1. /\ phase = "params" /\ phase' = "stmt" /\ frames' = Append(frames, "block")
      /\ m_blocks' = Append(m_blocks, Empty)
      /\ UNCHANGED <<family, program, next, trail, m_global, m_func, insideWhile,
                     visitedMain, currentFunction>>
  BY DEF EndOfParams, source, state
<1>2. frames = <<"func">> /\ "block" \in Frames
  BY <1>1 DEF Inv, FramesOK, Frames, BodyFrames
<1>3. Shape(frames) /\ Top \in BodyFrames
  BY <1>2 DEF Inv, Types, Shape, Top, BodyFrames
<1>4. /\ Shape(frames') /\ Top' = "block" /\ frames'[1] = frames[1] /\ frames' # <<>>
  BY <1>1, <1>2, <1>3, ShapePush DEF Top
<1>5. Types'
  <2>1. m_blocks' \in Seq(ScopeSet)
    BY <1>1, ScopesAre DEF Inv, Types
  <2> QED BY <1>1, <1>4, <2>1 DEF Inv, Types, Shape
<1>6. FramesOK'
  BY <1>1, <1>4 DEF FramesOK
<1>7. DeclarationsOK' /\ ParametersOK'
  BY <1>1, <1>2, <1>4, Within
<1>8. StacksFollowVisits'
  <2>1. Count("block")' = Count("block") + 1 /\ Count("while")' = Count("while")
    BY <1>1, <1>2, CountFrames DEF Inv
  <2>2. Len(m_blocks') = Len(m_blocks) + 1
    BY <1>1 DEF Inv, Types
  <2> QED BY <1>1, <1>2, <1>4, <2>1, <2>2 DEF Inv, StacksFollowVisits
<1> QED BY <1>5, <1>6, <1>7, <1>8 DEF Inv

LEMMA EndOfFuncStep ==
    ASSUME Inv, EndOfFunc
    PROVE  Inv'
<1>1. /\ phase = "done" /\ Top = "func" /\ m_func' = Empty /\ m_blocks' = <<>>
      /\ currentFunction' = NoLine /\ frames' = <<>> /\ phase' = "next"
      /\ next' = next + 1
      /\ UNCHANGED <<family, program, trail, m_global, insideWhile, visitedMain>>
  BY DEF EndOfFunc, source
<1>2. Shape(frames) /\ Len(frames) = 1 /\ frames[1] = "func" /\ frames # <<>>
  BY <1>1, ShapeEnds DEF Inv, FramesOK, Top
<1>3. next \in Nat /\ next >= 1 /\ next <= Len(program) /\ ~IsMain(next)
  <2>1. next <= Len(program) /\ program[next].kind = "func"
    BY <1>1, <1>2 DEF Inv, DeclarationsOK
  <2> QED BY <2>1 DEF Inv, Types, IsMain
<1>4. next' \in 1..(Len(program') + 1)
  <2>1. Len(program) \in Nat
    BY DEF Inv, Types
  <2> QED BY <1>1, <1>3, <2>1
<1>5. Types'
  BY <1>1, <1>4, ScopesAre DEF Inv, Types
<1>6. FramesOK' /\ ParametersOK'
  BY <1>1 DEF FramesOK, ParametersOK
<1>7. DeclarationsOK'
  <2>1. 1..(next' - 1) = 1..(next - 1) \cup {next}
    BY <1>1, <1>3
  <2>2. \A g : IsMain(g)' <=> IsMain(g)
    BY <1>1 DEF IsMain
  <2> QED BY <1>1, <1>3, <2>1, <2>2 DEF Inv, DeclarationsOK
<1>8. StacksFollowVisits'
  <2>1. Count("while") = 0
    <3>1. \A i \in 1..Len(frames) : frames[i] # "while"
      BY <1>2
    <3> QED BY <3>1, CountIs, CountFrames DEF Inv, Types
  <2>2. Count("block")' = 0 /\ Count("while")' = 0
    BY <1>1, NoCount, CountFrames DEF Inv
  <2> QED BY <1>1, <2>1, <2>2 DEF Inv, StacksFollowVisits
<1> QED BY <1>5, <1>6, <1>7, <1>8 DEF Inv

LEMMA EndOfMainStep ==
    ASSUME Inv, EndOfMain
    PROVE  Inv'
<1>1. /\ phase = "done" /\ Top = "main" /\ visitedMain' = TRUE
      /\ currentFunction' = NoLine /\ frames' = <<>> /\ phase' = "next"
      /\ next' = next + 1
      /\ UNCHANGED <<family, program, trail, m_global, m_func, m_blocks, insideWhile>>
  BY DEF EndOfMain, source, table
<1>2. Shape(frames) /\ Len(frames) = 1 /\ frames[1] = "main" /\ frames # <<>>
  BY <1>1, ShapeEnds DEF Inv, FramesOK, Top
<1>3. next \in Nat /\ next >= 1 /\ next <= Len(program) /\ IsMain(next) /\ ~visitedMain
  <2>1. next <= Len(program) /\ program[next].kind = "main" /\ ~visitedMain
    BY <1>1, <1>2 DEF Inv, DeclarationsOK
  <2> QED BY <2>1 DEF Inv, Types, IsMain
<1>4. next' \in 1..(Len(program') + 1)
  <2>1. Len(program) \in Nat
    BY DEF Inv, Types
  <2> QED BY <1>1, <1>3, <2>1
<1>5. Types'
  BY <1>1, <1>4 DEF Inv, Types
<1>6. FramesOK' /\ ParametersOK'
  BY <1>1, <1>2 DEF Inv, FramesOK, ParametersOK
<1>7. DeclarationsOK'
  <2>1. 1..(next' - 1) = 1..(next - 1) \cup {next}
    BY <1>1, <1>3
  <2>2. \A g : IsMain(g)' <=> IsMain(g)
    BY <1>1 DEF IsMain
  <2>3. \A g \in 1..(next - 1) : ~IsMain(g)
    BY <1>1, <1>3 DEF Inv, DeclarationsOK
  <2> QED BY <1>1, <1>3, <2>1, <2>2, <2>3 DEF DeclarationsOK
<1>8. StacksFollowVisits'
  <2>1. Count("while") = 0 /\ Count("block") = 0
    <3>1. \A i \in 1..Len(frames) : frames[i] # "while" /\ frames[i] # "block"
      BY <1>2
    <3>2. frames \in Seq(Frames)
      BY DEF Inv, Types
    <3>3. CountOf(frames, "while") = 0 /\ CountOf(frames, "block") = 0
      BY <3>1, <3>2, CountIs
    <3> QED BY <3>3, CountFrames DEF Inv
  <2>2. Count("block")' = 0 /\ Count("while")' = 0
    BY <1>1, NoCount, CountFrames DEF Inv
  <2> QED BY <1>1, <2>1, <2>2 DEF Inv, StacksFollowVisits
<1> QED BY <1>5, <1>6, <1>7, <1>8 DEF Inv

LEMMA EndOfProgramStep ==
    ASSUME Inv, EndOfProgram
    PROVE  Inv'
<1>1. /\ phase = "next" /\ next > Len(program)
      /\ phase' = IF visitedMain THEN "accepted" ELSE "rejected"
      /\ UNCHANGED <<family, program, next, frames, trail, m_global, m_func, m_blocks,
                     insideWhile, visitedMain, currentFunction>>
  BY DEF EndOfProgram, source, table, state
<1>2. Types'
  BY <1>1 DEF Inv, Types
<1>3. CASE ~visitedMain
  BY <1>1, <1>2, <1>3, Rejected
<1>4. CASE visitedMain
  <2>1. phase' = "accepted"
    BY <1>1, <1>4
  <2>2. FramesOK' /\ ParametersOK'
    BY <1>1, <2>1 DEF Inv, FramesOK, ParametersOK
  <2>3. DeclarationsOK'
    <3>1. next = Len(program) + 1
      <4>1. next \in 1..(Len(program) + 1) /\ Len(program) \in Nat
        BY DEF Inv, Types
      <4> QED BY <1>1, <4>1
    <3>2. frames = <<>>
      BY <1>1 DEF Inv, FramesOK
    <3>3. \A g : IsMain(g)' <=> IsMain(g)
      BY <1>1 DEF IsMain
    <3> QED BY <1>1, <1>4, <2>1, <3>1, <3>2, <3>3 DEF Inv, DeclarationsOK
  <2>4. StacksFollowVisits'
    BY <1>1, <2>1 DEF Inv, StacksFollowVisits, Count
  <2> QED BY <1>2, <2>2, <2>3, <2>4 DEF Inv
<1> QED BY <1>3, <1>4

-----------------------------------------------------------------------------
(* Steps inside a function.                                                *)

\* Where the visitor is while it visits statements and expressions.
LEMMA Inside ==
    ASSUME Inv, phase \in {"stmt", "expr", "done"}
    PROVE  /\ Shape(frames) /\ frames # <<>> /\ frames \in Seq(Frames)
           /\ Top \in {"func", "main"} \/ Len(frames) >= 2
           /\ phase = "stmt" => Top \in BodyFrames /\ Len(frames) >= 2
           /\ phase = "expr" => Top \notin {"func", "main", "block"}
<1>1. Shape(frames)
  BY DEF Inv, FramesOK
<1>2. /\ frames # <<>> /\ frames \in Seq(Frames)
      /\ Top \in {"func", "main"} \/ Len(frames) >= 2
  BY <1>1, ShapeEnds DEF Top
<1>3. /\ phase = "stmt" => Top \in {"block", "if", "ifelse", "else", "while"}
      /\ phase = "expr" => Top \in {"expr", "return", "if", "ifelse", "while"}
  BY DEF Inv, FramesOK
<1> QED BY <1>1, <1>2, <1>3 DEF BodyFrames

LEMMA Pushed ==
    ASSUME Inv, phase = "stmt", NEW c \in Frames \ {"func", "main"},
           frames' = Append(frames, c)
    PROVE  /\ Shape(frames') /\ Top' = c /\ frames'[1] = frames[1] /\ frames' # <<>>
           /\ frames' \in Seq(Frames) /\ frames # <<>>
           /\ Count("block")' = IF c = "block" THEN Count("block") + 1 ELSE Count("block")
           /\ Count("while")' = IF c = "while" THEN Count("while") + 1 ELSE Count("while")
<1>1. /\ Shape(frames) /\ frames # <<>> /\ frames[Len(frames)] \in BodyFrames
      /\ Len(frames) >= 2
  BY Inside DEF Top
<1>2. /\ Shape(frames') /\ Top' = c /\ frames'[1] = frames[1] /\ frames' # <<>>
  BY <1>1, ShapePush DEF Top
<1>3. frames' \in Seq(Frames)
  BY <1>2 DEF Shape
<1>4. \A what : Count(what)' = IF c = what THEN Count(what) + 1 ELSE Count(what)
  BY CountFrames DEF Inv
<1> QED BY <1>1, <1>2, <1>3, <1>4

LEMMA Popped ==
    ASSUME Inv, phase \in {"stmt", "expr", "done"}, Top \notin {"func", "main"},
           frames' = Pop(frames)
    PROVE  /\ Shape(frames') /\ Top' \in BodyFrames /\ frames'[1] = frames[1]
           /\ frames' # <<>> /\ frames' \in Seq(Frames) /\ frames # <<>>
           /\ Count("block")' = IF Top = "block" THEN Count("block") - 1 ELSE Count("block")
           /\ Count("while")' = IF Top = "while" THEN Count("while") - 1 ELSE Count("while")
<1>1. Shape(frames) /\ frames # <<>> /\ frames[Len(frames)] \notin {"func", "main"}
  BY Inside DEF Top
<1>2. /\ Shape(frames') /\ Top' \in BodyFrames /\ frames'[1] = frames[1]
      /\ frames' # <<>>
  BY <1>1, ShapePop DEF Top
<1>3. frames' \in Seq(Frames)
  BY <1>2 DEF Shape
<1>4. \A what : Count(what)' = IF Top = what THEN Count(what) - 1 ELSE Count(what)
  BY <1>1, CountFrames DEF Inv
<1> QED BY <1>1, <1>2, <1>3, <1>4

\* A step that ends a statement, with the stacks in order.
LEMMA Ended ==
    ASSUME Inv, phase \in {"stmt", "expr", "done"}, Types', Shape(frames'),
           Top' \in BodyFrames, frames'[1] = frames[1], Done(frames'),
           UNCHANGED <<program, next, visitedMain, currentFunction, m_func>>,
           Len(m_blocks)' = Count("block")', insideWhile' = Count("while")'
    PROVE  Inv'
<1>1. frames # <<>> /\ frames' # <<>>
  BY Inside DEF Shape
<1>2. FramesOK' /\ phase' \in {"stmt", "done"}
  <2>1. frames'[Len(frames')] \in BodyFrames
    BY DEF Top
  <2>2. phase' = IF frames'[Len(frames')] = "block" THEN "stmt" ELSE "done"
    BY DEF Done
  <2> QED BY <2>1, <2>2 DEF FramesOK, Top, BodyFrames
<1>3. DeclarationsOK' /\ ParametersOK'
  BY <1>1, <1>2, Within
<1>4. StacksFollowVisits'
  BY <1>1 DEF Inv, StacksFollowVisits
<1> QED BY <1>2, <1>3, <1>4 DEF Inv

\* A step after which a statement goes on.
LEMMA Continued ==
    ASSUME Inv, phase \in {"stmt", "expr", "done"}, Types', Shape(frames'),
           \/ phase' = "stmt" /\ Top' \in {"block", "if", "ifelse", "else", "while"}
           \/ phase' = "expr" /\ Top' \in {"expr", "return", "if", "ifelse", "while"},
           frames'[1] = frames[1],
           UNCHANGED <<program, next, visitedMain, currentFunction, m_func>>,
           Len(m_blocks)' = Count("block")', insideWhile' = Count("while")'
    PROVE  Inv'
<1>1. frames # <<>> /\ frames' # <<>>
  BY Inside DEF Shape
<1>2. FramesOK' /\ phase' \in {"stmt", "expr"}
  BY DEF FramesOK
<1>3. DeclarationsOK' /\ ParametersOK'
  BY <1>1, <1>2, Within
<1>4. StacksFollowVisits'
  BY <1>1 DEF Inv, StacksFollowVisits
<1> QED BY <1>2, <1>3, <1>4 DEF Inv

\* The trail and the phase of a step inside a function have their types.
LEMMA Entered ==
    ASSUME Inv, NEW c \in AllConstructs, Enter(c)
    PROVE  trail' \in Seq(Node)
<1>1. Note(c, "-", NoLine)
  BY DEF Enter, Visit
<1> QED BY <1>1, Noted DEF Inv, Types

LEMMA Left ==
    ASSUME Inv, NEW what \in {"close", "end"}, Leave(what)
    PROVE  trail' \in Seq(Node)
BY Noted DEF Inv, Types, Leave

LEMMA BlockStmtStep ==
    ASSUME Inv, BlockStmt
    PROVE  Inv'
<1>1. /\ phase = "stmt" /\ phase' = "stmt" /\ frames' = Append(frames, "block")
      /\ m_blocks' = Append(m_blocks, Empty) /\ Enter("block")
      /\ UNCHANGED <<family, program, next, m_global, m_func, insideWhile,
                     visitedMain, currentFunction>>
  BY DEF BlockStmt, source, state
<1>2. /\ Shape(frames') /\ Top' = "block" /\ frames'[1] = frames[1]
      /\ frames' \in Seq(Frames)
      /\ Count("block")' = Count("block") + 1 /\ Count("while")' = Count("while")
  BY <1>1, Pushed DEF Frames, BodyFrames
<1>3. trail' \in Seq(Node)
  BY <1>1, Entered DEF AllConstructs
<1>4. m_blocks \in Seq(ScopeSet) /\ Empty \in ScopeSet
  BY ScopesAre DEF Inv, Types
<1>5. m_blocks' \in Seq(ScopeSet) /\ Len(m_blocks') = Len(m_blocks) + 1
  BY <1>1, <1>4
<1>6. Types'
  BY <1>1, <1>2, <1>3, <1>5 DEF Inv, Types
<1>7. Len(m_blocks) = Count("block") /\ insideWhile = Count("while")
  BY <1>1 DEF Inv, StacksFollowVisits
<1> QED BY <1>1, <1>2, <1>5, <1>6, <1>7, Continued

LEMMA EndOfBlockStep ==
    ASSUME Inv, EndOfBlock
    PROVE  Inv'
<1>1. /\ phase = "stmt" /\ Top = "block" /\ frames' = Pop(frames) /\ Done(frames')
      /\ m_blocks' = Pop(m_blocks) /\ Leave("close")
      /\ UNCHANGED <<family, program, next, m_global, m_func, insideWhile,
                     visitedMain, currentFunction>>
  BY DEF EndOfBlock, source, state
<1>2. /\ Shape(frames') /\ Top' \in BodyFrames /\ frames'[1] = frames[1]
      /\ frames' \in Seq(Frames) /\ frames # <<>>
      /\ Count("block")' = Count("block") - 1 /\ Count("while")' = Count("while")
  BY <1>1, Popped
<1>3. trail' \in Seq(Node)
  BY <1>1, Left
<1>4. Len(m_blocks) = Count("block") /\ insideWhile = Count("while")
  BY <1>1 DEF Inv, StacksFollowVisits
<1>5. m_blocks \in Seq(ScopeSet) /\ m_blocks # <<>>
  <2>1. Count("block") >= 1
    BY <1>1, <1>2, CountFrames DEF Inv
  <2> QED BY <1>4, <2>1 DEF Inv, Types
<1>6. m_blocks' \in Seq(ScopeSet) /\ Len(m_blocks') = Len(m_blocks) - 1
  BY <1>1, <1>5, PopIs
<1>7. phase' \in {"stmt", "done"}
  BY <1>1 DEF Done
<1>8. Types'
  BY <1>1, <1>2, <1>3, <1>6, <1>7 DEF Inv, Types
<1> QED BY <1>1, <1>2, <1>4, <1>6, <1>8, Ended

LEMMA VarDeclStep ==
    ASSUME Inv, NEW name \in Names, VarDecl(name)
    PROVE  Inv'
<1> DEFINE block == m_blocks[Len(m_blocks)]
<1>1. /\ phase = "stmt" /\ Note("decl", name, Here)
      /\ \/ phase' = "rejected" /\ m_blocks' = m_blocks
         \/ /\ m_blocks # <<>> /\ Done(frames)
            /\ m_blocks' = Append(Pop(m_blocks), Insert(block, name, Var(Here)))
      /\ UNCHANGED <<family, program, next, frames, m_global, m_func, insideWhile,
                     visitedMain, currentFunction>>
  BY DEF VarDecl, Visit, source, state, Reject
<1>2. Here \in Nat /\ Var(Here) \in Symbol
  BY HereIs DEF Inv
<1>3. trail' \in Seq(Node)
  BY <1>1, <1>2, Noted DEF Inv, Types, AllConstructs
<1>4. m_blocks \in Seq(ScopeSet)
  BY DEF Inv, Types
<1>5. ASSUME m_blocks # <<>>
      PROVE  /\ Append(Pop(m_blocks), Insert(block, name, Var(Here))) \in Seq(ScopeSet)
             /\ Len(Append(Pop(m_blocks), Insert(block, name, Var(Here)))) = Len(m_blocks)
  <2>1. block \in ScopeSet
    BY <1>4, <1>5
  <2>2. Insert(block, name, Var(Here)) \in ScopeSet
    BY <1>2, <2>1, InsertIs
  <2>3. Pop(m_blocks) \in Seq(ScopeSet) /\ Len(Pop(m_blocks)) = Len(m_blocks) - 1
    BY <1>4, <1>5, PopIs
  <2> HIDE DEF block
  <2> QED BY <1>4, <2>2, <2>3
<1>6. m_blocks' \in Seq(ScopeSet) /\ Len(m_blocks') = Len(m_blocks)
  <2> HIDE DEF block
  <2> QED BY <1>1, <1>4, <1>5
<1>7. phase' \in {"stmt", "done", "rejected"}
  BY <1>1 DEF Done
<1>8. Types'
  BY <1>1, <1>3, <1>6, <1>7 DEF Inv, Types
<1>9. CASE phase' = "rejected"
  BY <1>8, <1>9, Rejected
<1>10. CASE Done(frames)
  <2>1. Shape(frames) /\ Top \in BodyFrames /\ Done(frames')
    BY <1>1, <1>10, Inside DEF Done
  <2>2. Shape(frames') /\ Top' \in BodyFrames
    BY <1>1, <2>1 DEF Top
  <2>3. Count("block")' = Count("block") /\ Count("while")' = Count("while")
    BY <1>1, CountFrames DEF Inv
  <2>4. Len(m_blocks) = Count("block") /\ insideWhile = Count("while")
    BY <1>1 DEF Inv, StacksFollowVisits
  <2> QED BY <1>1, <1>6, <1>8, <2>1, <2>2, <2>3, <2>4, Ended
<1> QED BY <1>1, <1>9, <1>10

LEMMA BreakStmtStep ==
    ASSUME Inv, BreakStmt
    PROVE  Inv'
<1>1. /\ phase = "stmt" /\ Enter("break") /\ (phase' = "rejected" \/ Done(frames))
      /\ UNCHANGED <<family, program, next, frames, m_global, m_func, m_blocks,
                     insideWhile, visitedMain, currentFunction>>
  BY DEF BreakStmt, source, table, state, Reject
<1>2. trail' \in Seq(Node)
  BY <1>1, Entered DEF AllConstructs
<1>3. phase' \in {"stmt", "done", "rejected"}
  BY <1>1 DEF Done
<1>4. Types'
  BY <1>1, <1>2, <1>3 DEF Inv, Types
<1>5. CASE phase' = "rejected"
  BY <1>4, <1>5, Rejected
<1>6. CASE Done(frames)
  <2>1. Shape(frames) /\ Top \in BodyFrames /\ Done(frames')
    BY <1>1, <1>6, Inside DEF Done
  <2>2. Shape(frames') /\ Top' \in BodyFrames
    BY <1>1, <2>1 DEF Top
  <2>3. Count("block")' = Count("block") /\ Count("while")' = Count("while")
    BY <1>1, CountFrames DEF Inv
  <2>4. Len(m_blocks) = Count("block") /\ insideWhile = Count("while")
    BY <1>1 DEF Inv, StacksFollowVisits
  <2> QED BY <1>1, <1>4, <2>1, <2>2, <2>3, <2>4, Ended
<1> QED BY <1>1, <1>5, <1>6

LEMMA NullStmtStep ==
    ASSUME Inv, NullStmt
    PROVE  Inv'
<1>1. /\ phase = "stmt" /\ Done(frames)
      /\ UNCHANGED <<family, program, next, frames, trail, m_global, m_func, m_blocks,
                     insideWhile, visitedMain, currentFunction>>
  BY DEF NullStmt, source, table, state
<1>2. phase' \in {"stmt", "done"}
  BY <1>1 DEF Done
<1>3. Types'
  BY <1>1, <1>2 DEF Inv, Types
<1>4. Shape(frames) /\ Top \in BodyFrames /\ Done(frames')
  BY <1>1, Inside DEF Done
<1>5. Shape(frames') /\ Top' \in BodyFrames
  BY <1>1, <1>4 DEF Top
<1>6. Count("block")' = Count("block") /\ Count("while")' = Count("while")
  BY <1>1, CountFrames DEF Inv
<1>7. Len(m_blocks) = Count("block") /\ insideWhile = Count("while")
  BY <1>1 DEF Inv, StacksFollowVisits
<1> QED BY <1>1, <1>3, <1>4, <1>5, <1>6, <1>7, Ended

LEMMA EvaluateStep ==
    ASSUME Inv, NEW c \in {"expr", "return", "if", "ifelse"}, Evaluate(c)
    PROVE  Inv'
<1>1. /\ phase = "stmt" /\ phase' = "expr" /\ frames' = Append(frames, c) /\ Enter(c)
      /\ UNCHANGED <<family, program, next, m_global, m_func, m_blocks, insideWhile,
                     visitedMain, currentFunction>>
  BY DEF Evaluate, source, table, state
<1>2. c \in Frames \ {"func", "main"} /\ c \in AllConstructs
      /\ c # "block" /\ c # "while"
  BY DEF Frames, BodyFrames, ExprFrames, AllConstructs
<1>3. /\ Shape(frames') /\ Top' = c /\ frames'[1] = frames[1]
      /\ frames' \in Seq(Frames)
      /\ Count("block")' = Count("block") /\ Count("while")' = Count("while")
  BY <1>1, <1>2, Pushed
<1>4. trail' \in Seq(Node)
  BY <1>1, <1>2, Entered
<1>5. Types'
  BY <1>1, <1>3, <1>4 DEF Inv, Types
<1>6. Len(m_blocks) = Count("block") /\ insideWhile = Count("while")
  BY <1>1 DEF Inv, StacksFollowVisits
<1> QED BY <1>1, <1>3, <1>5, <1>6, Continued

LEMMA WhileStmtStep ==
    ASSUME Inv, WhileStmt
    PROVE  Inv'
<1>1. /\ phase = "stmt" /\ phase' = "expr" /\ frames' = Append(frames, "while")
      /\ Enter("while") /\ insideWhile' = insideWhile + 1
      /\ UNCHANGED <<family, program, next, m_global, m_func, m_blocks, visitedMain,
                     currentFunction>>
  BY DEF WhileStmt, source, table
<1>2. "while" \in Frames \ {"func", "main"} /\ "while" \in AllConstructs
  BY DEF Frames, BodyFrames, AllConstructs
<1>3. /\ Shape(frames') /\ Top' = "while" /\ frames'[1] = frames[1]
      /\ frames' \in Seq(Frames)
      /\ Count("block")' = Count("block") /\ Count("while")' = Count("while") + 1
  BY <1>1, <1>2, Pushed
<1>4. trail' \in Seq(Node)
  BY <1>1, <1>2, Entered
<1>5. Types'
  BY <1>1, <1>3, <1>4 DEF Inv, Types
<1>6. Len(m_blocks) = Count("block") /\ insideWhile = Count("while")
  BY <1>1 DEF Inv, StacksFollowVisits
<1> QED BY <1>1, <1>3, <1>5, <1>6, Continued

LEMMA EndOfExprStep ==
    ASSUME Inv, EndOfExpr
    PROVE  Inv'
<1>1. /\ phase = "expr" /\ Top = "expr" /\ frames' = Pop(frames) /\ Done(frames')
      /\ UNCHANGED <<family, program, next, trail, m_global, m_func, m_blocks,
                     insideWhile, visitedMain, currentFunction>>
  BY DEF EndOfExpr, source, table, state
<1>2. /\ Shape(frames') /\ Top' \in BodyFrames /\ frames'[1] = frames[1]
      /\ frames' \in Seq(Frames)
      /\ Count("block")' = Count("block") /\ Count("while")' = Count("while")
  BY <1>1, Popped
<1>3. phase' \in {"stmt", "done"}
  BY <1>1 DEF Done
<1>4. Types'
  BY <1>1, <1>2, <1>3 DEF Inv, Types
<1>5. Len(m_blocks) = Count("block") /\ insideWhile = Count("while")
  BY <1>1 DEF Inv, StacksFollowVisits
<1> QED BY <1>1, <1>2, <1>4, <1>5, Ended

LEMMA EndOfReturnStep ==
    ASSUME Inv, EndOfReturn
    PROVE  Inv'
<1>1. /\ phase = "expr" /\ Top = "return" /\ frames' = Pop(frames)
      /\ phase' = "rejected" \/ Done(frames')
      /\ UNCHANGED <<family, program, next, trail, m_global, m_func, m_blocks,
                     insideWhile, visitedMain, currentFunction>>
  BY DEF EndOfReturn, source, table, state, Reject
<1>2. /\ Shape(frames') /\ Top' \in BodyFrames /\ frames'[1] = frames[1]
      /\ frames' \in Seq(Frames)
      /\ Count("block")' = Count("block") /\ Count("while")' = Count("while")
  BY <1>1, Popped
<1>3. phase' \in {"stmt", "done", "rejected"}
  BY <1>1 DEF Done
<1>4. Types'
  BY <1>1, <1>2, <1>3 DEF Inv, Types
<1>5. Len(m_blocks) = Count("block") /\ insideWhile = Count("while")
  BY <1>1 DEF Inv, StacksFollowVisits
<1>6. CASE phase' = "rejected"
  BY <1>4, <1>6, Rejected
<1>7. CASE Done(frames')
  BY <1>1, <1>2, <1>4, <1>5, <1>7, Ended
<1> QED BY <1>1, <1>6, <1>7

LEMMA EndOfConditionStep ==
    ASSUME Inv, EndOfCondition
    PROVE  Inv'
<1>1. /\ phase = "expr" /\ Top \in {"if", "ifelse", "while"} /\ phase' = "stmt"
      /\ UNCHANGED <<family, program, next, frames, trail, m_global, m_func, m_blocks,
                     insideWhile, visitedMain, currentFunction>>
  BY DEF EndOfCondition, source, table, state
<1>2. Shape(frames') /\ Top' \in {"if", "ifelse", "while"}
  BY <1>1, Inside DEF Top
<1>3. Count("block")' = Count("block") /\ Count("while")' = Count("while")
  BY <1>1, CountFrames DEF Inv
<1>4. Types'
  BY <1>1 DEF Inv, Types
<1>5. Len(m_blocks) = Count("block") /\ insideWhile = Count("while")
  BY <1>1 DEF Inv, StacksFollowVisits
<1> QED BY <1>1, <1>2, <1>3, <1>4, <1>5, Continued

LEMMA EndOfIfStep ==
    ASSUME Inv, EndOfIf
    PROVE  Inv'
<1>1. /\ phase = "done" /\ Top \in {"if", "else"} /\ frames' = Pop(frames)
      /\ Done(frames')
      /\ UNCHANGED <<family, program, next, trail, m_global, m_func, m_blocks,
                     insideWhile, visitedMain, currentFunction>>
  BY DEF EndOfIf, source, table, state
<1>2. /\ Shape(frames') /\ Top' \in BodyFrames /\ frames'[1] = frames[1]
      /\ frames' \in Seq(Frames)
      /\ Count("block")' = Count("block") /\ Count("while")' = Count("while")
  BY <1>1, Popped
<1>3. phase' \in {"stmt", "done"}
  BY <1>1 DEF Done
<1>4. Types'
  BY <1>1, <1>2, <1>3 DEF Inv, Types
<1>5. Len(m_blocks) = Count("block") /\ insideWhile = Count("while")
  BY <1>1 DEF Inv, StacksFollowVisits
<1> QED BY <1>1, <1>2, <1>4, <1>5, Ended

LEMMA ElseStep ==
    ASSUME Inv, Else
    PROVE  Inv'
<1> DEFINE F == Pop(frames)
<1>1. /\ phase = "done" /\ Top = "ifelse" /\ frames' = Append(F, "else")
      /\ phase' = "stmt"
      /\ UNCHANGED <<family, program, next, trail, m_global, m_func, m_blocks,
                     insideWhile, visitedMain, currentFunction>>
  BY DEF Else, source, table, state
<1>2. /\ Shape(frames) /\ frames # <<>> /\ frames \in Seq(Frames)
      /\ frames[Len(frames)] = "ifelse"
  BY <1>1, Inside DEF Top
<1>3. /\ Shape(F) /\ F[Len(F)] \in BodyFrames /\ F[1] = frames[1]
      /\ F # <<>> /\ Len(F) >= 2
  BY <1>2, ShapePop
<1>4. "else" \in Frames \ {"func", "main"} /\ "else" \in Frames
  BY DEF Frames, BodyFrames
<1>5. /\ Shape(frames') /\ Top' = "else" /\ frames'[1] = frames[1]
  <2> HIDE DEF F
  <2> QED BY <1>1, <1>3, <1>4, ShapePush DEF Top
<1>6. Count("block")' = Count("block") /\ Count("while")' = Count("while")
  <2>1. \A what : what # "ifelse" => CountOf(F, what) = CountOf(frames, what)
    BY <1>2, CountPop
  <2>2. F \in Seq(Frames)
    BY <1>3 DEF Shape
  <2>3. \A what : what # "else" => CountOf(Append(F, "else"), what) = CountOf(F, what)
    <3> HIDE DEF F
    <3> QED BY <1>4, <2>2, CountAppend
  <2> HIDE DEF F
  <2> QED BY <1>1, <2>1, <2>3, CountFrames DEF Inv
<1>7. Types'
  BY <1>1, <1>5 DEF Inv, Types, Shape
<1>8. Len(m_blocks) = Count("block") /\ insideWhile = Count("while")
  BY <1>1 DEF Inv, StacksFollowVisits
<1> QED BY <1>1, <1>5, <1>6, <1>7, <1>8, Continued

LEMMA EndOfWhileStep ==
    ASSUME Inv, EndOfWhile
    PROVE  Inv'
<1>1. /\ phase = "done" /\ Top = "while" /\ Leave("end") /\ frames' = Pop(frames)
      /\ Done(frames') /\ insideWhile' = insideWhile - 1
      /\ UNCHANGED <<family, program, next, m_global, m_func, m_blocks, visitedMain,
                     currentFunction>>
  BY DEF EndOfWhile, source, table
<1>2. /\ Shape(frames') /\ Top' \in BodyFrames /\ frames'[1] = frames[1]
      /\ frames' \in Seq(Frames) /\ frames # <<>>
      /\ Count("block")' = Count("block") /\ Count("while")' = Count("while") - 1
  BY <1>1, Popped
<1>3. phase' \in {"stmt", "done"}
  BY <1>1 DEF Done
<1>4. Len(m_blocks) = Count("block") /\ insideWhile = Count("while")
  BY <1>1 DEF Inv, StacksFollowVisits
<1>5. insideWhile' \in Nat
  <2>1. Count("while") >= 1 /\ Count("while") \in Nat
    BY <1>1, <1>2, CountFrames DEF Inv
  <2> QED BY <1>1, <1>4, <2>1
<1>6. trail' \in Seq(Node)
  BY <1>1, Left
<1>7. Types'
  BY <1>1, <1>2, <1>3, <1>5, <1>6 DEF Inv, Types
<1> QED BY <1>1, <1>2, <1>4, <1>7, Ended

LEMMA UseStep ==
    ASSUME Inv, NEW what \in {"id", "call"}, NEW name \in Names, NEW acceptable,
           Use(what, name, acceptable)
    PROVE  Inv'
<1>1. /\ phase = "expr"
      /\ \/ /\ Found(name) # {} /\ Note(what, name, Query(name).line)
            /\ phase' = phase
         \/ Note(what, name, NoLine) /\ phase' = "rejected"
      /\ UNCHANGED <<family, program, next, frames, m_global, m_func, m_blocks,
                     insideWhile, visitedMain, currentFunction>>
  BY DEF Use, Visit, source, table, state, Reject
<1>2. Found(name) # {} => Query(name).line \in Nat
  <2>1. Found(name) # {} => Query(name) \in Symbol
    BY QueryIs DEF Inv
  <2> QED BY <2>1 DEF Symbol, Lines
<1>3. trail' \in Seq(Node)
  <2>1. what \in AllConstructs /\ trail \in Seq(Node)
    BY DEF AllConstructs, Inv, Types
  <2> QED BY <1>1, <1>2, <2>1, Noted
<1>4. Types'
  BY <1>1, <1>3 DEF Inv, Types
<1>5. CASE phase' = "rejected"
  BY <1>4, <1>5, Rejected
<1>6. CASE phase' = phase
  <2>1. Shape(frames') /\ Top' \in {"expr", "return", "if", "ifelse", "while"}
    <3>1. Shape(frames) /\ Top \in {"expr", "return", "if", "ifelse", "while"}
      BY <1>1 DEF Inv, FramesOK
    <3> QED BY <1>1, <3>1 DEF Top
  <2>2. Count("block")' = Count("block") /\ Count("while")' = Count("while")
    BY <1>1, CountFrames DEF Inv
  <2>3. Len(m_blocks) = Count("block") /\ insideWhile = Count("while")
    BY <1>1 DEF Inv, StacksFollowVisits
  <2> QED BY <1>1, <1>4, <1>6, <2>1, <2>2, <2>3, Continued
<1> QED BY <1>1, <1>5, <1>6

LEMMA StutterStep ==
    ASSUME Inv, UNCHANGED vars
    PROVE  Inv'
<1>1. UNCHANGED <<phase, family, program, next, frames, trail, m_global, m_func,
                  m_blocks, insideWhile, visitedMain, currentFunction>>
  BY DEF vars
<1>2. Types' /\ FramesOK' /\ ParametersOK'
  BY <1>1 DEF Inv, Types, FramesOK, ParametersOK, Top
<1>3. DeclarationsOK' /\ StacksFollowVisits'
  BY <1>1 DEF Inv, DeclarationsOK, IsMain, StacksFollowVisits, Count
<1> QED BY <1>2, <1>3 DEF Inv

-----------------------------------------------------------------------------
(* The invariant and what it implies.                                      *)

LEMMA InvStep ==
    ASSUME Inv, [Next]_vars
    PROVE  Inv'
<1>1. CASE UNCHANGED vars
  BY <1>1, StutterStep
<1>2. CASE Globals
  BY <1>2, GlobalDeclStep, EndOfGlobalsStep, GVarDeclStep, FuncDeclStep,
     EndOfParamsStep, EndOfFuncStep, ParamDeclStep, MFuncDeclStep, EndOfMainStep,
     EndOfProgramStep, StutterStep DEF Globals, Finished
<1>3. CASE Statements
  BY <1>3, BlockStmtStep, EndOfBlockStep, BreakStmtStep, NullStmtStep, VarDeclStep,
     EvaluateStep, WhileStmtStep, EndOfConditionStep, EndOfWhileStep, EndOfExprStep,
     EndOfReturnStep, EndOfIfStep, ElseStep DEF Statements
<1>4. CASE Expressions
  BY <1>4, UseStep DEF Expressions, IdExpr, FuncCallExpr
<1> QED BY <1>1, <1>2, <1>3, <1>4 DEF Next

LEMMA Invariance == Spec => []Inv
<1>1. Init => Inv
  BY InvInit
<1>2. Inv /\ [Next]_vars => Inv'
  BY InvStep
<1> QED BY <1>1, <1>2, PTL DEF Spec

\* The type invariant of GlobalsVisitor, FunctionVisitor and SymbolTable.
THEOREM NamesTypes == Spec => []TypeOK
<1>1. Inv => TypeOK
  BY TypesImply DEF Inv
<1> QED BY <1>1, Invariance, PTL

\* enter_block() and exit_block(), and the pushes and pops of m_inside_while,
\* match the visit() calls that are active, in programs nested to any depth: no
\* stack is ever popped empty, and m_current_function is set in functions only.
THEOREM StacksAreRight == Spec => []StacksFollowVisits
<1>1. Inv => StacksFollowVisits
  BY DEF Inv
<1> QED BY <1>1, Invariance, PTL

\* One FunctionVisitor and one SymbolTable visit every function: whatever the
\* functions before it, each finds no parameter, block or loop of another.
THEOREM FunctionsAreSeparate == Spec => []NothingLeaksBetweenFunctions
<1>1. Inv => NothingLeaksBetweenFunctions
  <2> SUFFICES ASSUME Inv, phase = "next" PROVE NothingLeaksBetweenFunctions
    BY DEF NothingLeaksBetweenFunctions
  <2>1. frames = <<>> /\ m_blocks = <<>> /\ insideWhile = 0
    BY BetweenFunctions
  <2>2. m_func = Empty /\ currentFunction = NoLine
    BY <2>1 DEF Inv, ParametersOK, StacksFollowVisits
  <2> QED BY <2>1, <2>2 DEF NothingLeaksBetweenFunctions
<1> QED BY <1>1, Invariance, PTL

\* FunctionVisitor sets m_visited_main after the body of a main function, and
\* asks for it before the next one: an accepted program of any length has one.
THEOREM OneMain == Spec => []AcceptedHasOneMain
<1>1. Inv => AcceptedHasOneMain
  <2> SUFFICES ASSUME Inv, phase = "accepted" PROVE AcceptedHasOneMain
    BY DEF AcceptedHasOneMain
  <2>1. Len(program) \in Nat /\ DOMAIN program = 1..Len(program)
    BY DEF Inv, Types
  <2>2. /\ next = Len(program) + 1 /\ visitedMain
        /\ visitedMain <=> \E g \in 1..(next - 1) : IsMain(g)
        /\ \A g, h \in 1..(next - 1) : IsMain(g) /\ IsMain(h) => g = h
    BY DEF Inv, DeclarationsOK
  <2>3. 1..(next - 1) = DOMAIN program
    BY <2>1, <2>2
  <2>4. PICK g \in DOMAIN program : IsMain(g)
    BY <2>2, <2>3
  <2>5. \A h \in DOMAIN program : program[h].kind = "main" <=> h = g
    BY <2>2, <2>3, <2>4 DEF IsMain
  <2> QED BY <2>5 DEF AcceptedHasOneMain
<1> QED BY <1>1, Invariance, PTL
=============================================================================
