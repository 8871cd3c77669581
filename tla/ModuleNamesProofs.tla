-------------------------- MODULE ModuleNamesProofs --------------------------
(***************************************************************************)
(* Proofs, for programs with any number of global declarations of any      *)
(* names, that code generation (module ModuleNames) gives every function   *)
(* and call the target of module Linkage, and what comes of names that     *)
(* clash with those of the runtime or with main.                           *)
(***************************************************************************)
EXTENDS ModuleNames, TLAPS

-----------------------------------------------------------------------------
(* The inductive invariant: what is in the module before the end.          *)

ValueSet == [kind   : {"var", "func"},
             name   : (Names \cup Runtime \cup {".main"}) \X Numbers,
             params : 0..(MaxParams + 1),
             bodies : Seq(0..MaxGlobals)]

Active == phase \in {"globals", "functions", "body"}

\* The declarations that are in the module, and those whose body is.
Seen == IF phase = "globals" THEN 1..(next - 1) ELSE 1..Len(program)
Placed == IF phase = "functions" THEN 1..(next - 1)
          ELSE IF phase = "body" THEN 1..next
          ELSE IF phase = "done" THEN 1..Len(program) ELSE {}

\* The name and the kind of the value made for declaration d, and the value that has
\* its code.
Wanted(d) == IF program[d].name \in Runtime THEN Numbered(program[d].name, d)
             ELSE Plain(program[d].name)
Kind(d) == IF program[d].kind = "var" THEN "var" ELSE "func"
TargetOf(d) == IF program[d].name \in Wrappers \cup Libc
               THEN RuntimeSymbol(program[d].name) ELSE SymbolOf(d)

ProgramOK ==
    /\ program \in Seq(Decl) /\ Len(program) <= MaxGlobals
    /\ \A d, e \in 1..Len(program) : program[d].name = program[e].name => d = e
    /\ MainDecl \in 1..Len(program)
    /\ \A d \in 1..Len(program) : /\ program[d].kind = "main" <=> d = MainDecl
                                  /\ program[d].kind # "func" => program[d].params = 0

PhaseOK ==
    /\ phase \in {"globals", "functions", "body", "done", "rejected", "undefined"}
    /\ next \in 1..(Len(program) + 1)
    /\ phase = "body" => next <= Len(program) /\ IsFunction(next)

ValuesOK ==
    Active =>
        /\ DOMAIN module = {RuntimeSymbol(n) : n \in Runtime}
                           \cup {SymbolOf(d) : d \in Seen}
        /\ \A n \in Runtime :
              LET v == module[RuntimeSymbol(n)]
              IN  /\ v.kind = IF n \in Constants THEN "var" ELSE "func"
                  /\ v.name = Plain(n) /\ v.params = ParamsOf(n)
        /\ \A d \in Seen :
              LET v == module[SymbolOf(d)]
              IN  /\ v.kind = Kind(d) /\ v.name = Wanted(d)
                  /\ v.params = program[d].params

\* What is in a function before any code of the program.
Base(v) == IF v \in {RuntimeSymbol(w) : w \in Wrappers} THEN <<0>> ELSE <<>>

BodiesOK ==
    phase \in {"globals", "functions", "body", "done"} =>
        /\ \A d \in Placed : IsFunction(d) =>
              /\ program[d].name \notin Constants
              /\ TargetOf(d) \in DOMAIN module
              /\ module[TargetOf(d)].bodies = Append(Base(TargetOf(d)), d)
        /\ \A v \in DOMAIN module \ {Wrapper} :
              (\A d \in Placed : IsFunction(d) => TargetOf(d) # v) =>
                  module[v].bodies = Base(v)

CallsOK ==
    \A c \in calls :
        \/ \E n \in Wrappers \cup Libc : c = Call(RuntimeSymbol(n), RuntimeSymbol(n))
        \/ \E d \in 1..Len(program) : /\ program[d].kind = "func"
                                      /\ c = Call(SymbolOf(d), TargetOf(d))
        \/ phase = "done" /\ c = Call(SymbolOf(MainDecl), TargetOf(L!Started))

StoredOK ==
    /\ phase = "body" /\ program[next].kind = "func" =>
          stored = IF program[next].name \in Wrappers \cup Libc
                   THEN ParamsOf(program[next].name) ELSE program[next].params
    /\ phase \in {"functions", "body"} /\ MainDecl \in Placed =>
          mainFuncID = program[MainDecl].name

DoneOK ==
    phase = "done" =>
        /\ DOMAIN module = {RuntimeSymbol(n) : n \in Runtime}
                           \cup {SymbolOf(d) : d \in 1..Len(program)} \cup {Wrapper}
        /\ {v \in DOMAIN module : module[v].name = Plain("main")} = {Wrapper}
        /\ module[Wrapper].bodies = <<0>>

Inv == /\ TypeOK /\ ProgramOK /\ PhaseOK /\ ValuesOK /\ BodiesOK /\ CallsOK
       /\ StoredOK /\ DoneOK /\ OnlyClashesFail

-----------------------------------------------------------------------------
(* Names.                                                                  *)

LEMMA RuntimeFacts ==
    /\ "main" \notin Runtime /\ "main" # ".main"
    /\ \A n \in Wrappers : n \notin Libc /\ n \notin Constants
    /\ \A n \in Libc : n \notin Constants
    /\ \A n \in Runtime : ParamsOf(n) \in {0, 1}
    /\ \A n \in Runtime : n \in Constants <=> n \notin Wrappers \cup Libc
BY DEF Runtime, Wrappers, Libc, Constants, ParamsOf

LEMMA Declarations ==
    ASSUME ProgramOK, NEW d \in 1..Len(program)
    PROVE  /\ d \in Nat /\ d \in 1..MaxGlobals /\ d # 0 /\ Len(program) \in Nat
           /\ program[d] \in Decl /\ program[d].name \in Names
           /\ program[d].kind \in {"var", "func", "main"}
           /\ program[d].params \in 0..MaxParams
           /\ program[d].name # ".main"
<1>1. program[d] \in Decl /\ Len(program) \in Nat /\ Len(program) <= MaxGlobals
  BY DEF ProgramOK
<1> QED BY <1>1, NamesAssumption DEF Decl

\* Symbols that differ.
LEMMA SymbolsDiffer ==
    ASSUME ProgramOK, NEW d \in 1..Len(program)
    PROVE  /\ \A n : SymbolOf(d) # RuntimeSymbol(n)
           /\ SymbolOf(d) # Wrapper
           /\ \A e \in 1..Len(program) : SymbolOf(d) = SymbolOf(e) => d = e
           /\ \A e \in 1..Len(program) : TargetOf(d) = TargetOf(e) => d = e
           /\ \A n \in Runtime : RuntimeSymbol(n) # Wrapper
           /\ TargetOf(d) # Wrapper
           /\ SymbolOf(d) \in Symbols /\ TargetOf(d) \in Symbols
           /\ Wrapper \in Symbols
<1>1. d # 0 /\ program[d].name \in Names /\ d \in 0..MaxGlobals /\ 0 \in 0..MaxGlobals
  BY Declarations, NamesAssumption
<1>2. \A e \in 1..Len(program) : TargetOf(e)[1] = program[e].name
  BY DEF TargetOf, RuntimeSymbol, SymbolOf
<1>3. \A e \in 1..Len(program) : TargetOf(d) = TargetOf(e) => d = e
  BY <1>2 DEF ProgramOK
<1>4. \A n \in Runtime : RuntimeSymbol(n) # Wrapper
  BY RuntimeFacts DEF RuntimeSymbol, Wrapper
<1>5. (\A n : SymbolOf(d) # RuntimeSymbol(n)) /\ SymbolOf(d) # Wrapper
  BY <1>1 DEF SymbolOf, RuntimeSymbol, Wrapper
<1>6. \A e \in 1..Len(program) : SymbolOf(d) = SymbolOf(e) => d = e
  BY DEF SymbolOf
<1>7. Wrappers \cup Libc \subseteq Runtime
  BY DEF Runtime
<1>8. TargetOf(d) # Wrapper
  BY <1>4, <1>5, <1>7 DEF TargetOf
<1>9. SymbolOf(d) \in Symbols /\ TargetOf(d) \in Symbols
  BY <1>1, <1>7 DEF SymbolOf, TargetOf, RuntimeSymbol, Symbols
<1>10. Wrapper \in Symbols
  BY <1>1, NamesAssumption DEF Wrapper, Symbols
<1> QED BY <1>3, <1>4, <1>5, <1>6, <1>8, <1>9, <1>10

LEMMA NamesDiffer ==
    ASSUME NEW m, NEW n, NEW i \in Nat, i # 0
    PROVE  /\ Plain(m) = Plain(n) <=> m = n
           /\ Numbered(m, i) # Plain(n)
BY DEF Plain, Numbered

\* getFunction() before the end of the program, for a name of the runtime and another.
LEMMA FunctionsOf ==
    ASSUME Inv, Active, NEW n
    PROVE  /\ n \in Wrappers \cup Libc => Functions(n) = {RuntimeSymbol(n)}
           /\ n \in Constants => Functions(n) = {}
           /\ n \notin Runtime =>
                 Functions(n) = {SymbolOf(d) : d \in {d \in Seen :
                                    IsFunction(d) /\ program[d].name = n}}
<1>0. ProgramOK /\ PhaseOK /\ Seen \subseteq 1..Len(program)
  BY DEF Inv, PhaseOK, ProgramOK, Seen
<1>1. DOMAIN module = {RuntimeSymbol(m) : m \in Runtime} \cup {SymbolOf(d) : d \in Seen}
  BY DEF Inv, ValuesOK
<1>2. ASSUME NEW m \in Runtime
      PROVE  /\ module[RuntimeSymbol(m)].kind = IF m \in Constants THEN "var" ELSE "func"
             /\ module[RuntimeSymbol(m)].name = Plain(n) <=> m = n
  <2>1. /\ module[RuntimeSymbol(m)].kind = IF m \in Constants THEN "var" ELSE "func"
        /\ module[RuntimeSymbol(m)].name = Plain(m)
    BY DEF Inv, ValuesOK
  <2> QED BY <2>1 DEF Plain
<1>3. ASSUME NEW d \in Seen
      PROVE  /\ module[SymbolOf(d)].kind = "func" <=> IsFunction(d)
             /\ module[SymbolOf(d)].name = Plain(n) <=>
                   n \notin Runtime /\ program[d].name = n
  <2>1. module[SymbolOf(d)].kind = Kind(d) /\ module[SymbolOf(d)].name = Wanted(d)
    BY DEF Inv, ValuesOK
  <2>2. d \in Nat /\ d # 0
    BY <1>0, Declarations
  <2> QED BY <2>1, <2>2, NamesDiffer DEF Kind, IsFunction, Wanted
<1>4. Functions(n) =
          {v \in {RuntimeSymbol(m) : m \in Runtime} :
               n \in Runtime /\ n \notin Constants /\ v = RuntimeSymbol(n)}
          \cup {v \in {SymbolOf(d) : d \in Seen} : n \notin Runtime
                   /\ \E d \in Seen : /\ v = SymbolOf(d) /\ IsFunction(d)
                                      /\ program[d].name = n}
  <2>1. ASSUME NEW v \in {RuntimeSymbol(m) : m \in Runtime}
        PROVE  v \in Functions(n) <=>
                   n \in Runtime /\ n \notin Constants /\ v = RuntimeSymbol(n)
    <3>1. PICK m \in Runtime : v = RuntimeSymbol(m)
      BY <2>1
    <3>2. RuntimeSymbol(m) = RuntimeSymbol(n) => m = n
      BY DEF RuntimeSymbol
    <3> QED BY <1>1, <1>2, <3>1, <3>2 DEF Functions
  <2>2. ASSUME NEW v \in {SymbolOf(d) : d \in Seen}
        PROVE  v \in Functions(n) <=>
                   n \notin Runtime /\ \E d \in Seen : /\ v = SymbolOf(d) /\ IsFunction(d)
                                                       /\ program[d].name = n
    <3>1. PICK d \in Seen : v = SymbolOf(d)
      BY <2>2
    <3>2. v \in Functions(n) <=> IsFunction(d) /\ n \notin Runtime /\ program[d].name = n
      BY <1>1, <1>3, <3>1 DEF Functions
    <3>3. \A e \in Seen : v = SymbolOf(e) => e = d
      BY <1>0, <3>1, SymbolsDiffer
    <3> QED BY <3>1, <3>2, <3>3
  <2>3. Functions(n) \subseteq DOMAIN module
    BY DEF Functions
  <2>4. ASSUME NEW v \in {RuntimeSymbol(m) : m \in Runtime}
        PROVE  v \notin {SymbolOf(d) : d \in Seen}
    BY <1>0, SymbolsDiffer
  <2> QED BY <1>1, <2>1, <2>2, <2>3, <2>4
<1>5. /\ n \in Wrappers \cup Libc => n \in Runtime /\ n \notin Constants
      /\ n \in Constants => n \in Runtime
  BY RuntimeFacts DEF Runtime
<1> HIDE DEF Functions
<1>6. ASSUME n \in Wrappers \cup Libc
      PROVE  Functions(n) = {RuntimeSymbol(n)}
  BY <1>4, <1>5, <1>6
<1>7. ASSUME n \in Constants
      PROVE  Functions(n) = {}
  BY <1>4, <1>5, <1>7
<1>8. ASSUME n \notin Runtime
      PROVE  Functions(n) = {SymbolOf(d) : d \in {d \in Seen :
                                    IsFunction(d) /\ program[d].name = n}}
  BY <1>4, <1>8
<1> QED BY <1>6, <1>7, <1>8

\* What functions and calls find once the declarations are made.
LEMMA FunctionOf ==
    ASSUME Inv, phase \in {"functions", "body"}, NEW d \in 1..Len(program), IsFunction(d)
    PROVE  /\ program[d].name \in Constants => Functions(program[d].name) = {}
           /\ program[d].name \notin Constants =>
                 /\ Functions(program[d].name) = {TargetOf(d)}
                 /\ getFunction(program[d].name) = TargetOf(d)
                 /\ TargetOf(d) \in DOMAIN module
                 /\ module[TargetOf(d)].params =
                       IF program[d].name \in Wrappers \cup Libc
                       THEN ParamsOf(program[d].name) ELSE program[d].params
<1> DEFINE n == program[d].name
<1>1. Active /\ Seen = 1..Len(program)
  BY DEF Active, Seen
<1>2. n \in Constants => Functions(n) = {}
  BY <1>1, FunctionsOf
<1>3. ASSUME n \notin Constants
      PROVE  /\ Functions(n) = {TargetOf(d)} /\ TargetOf(d) \in DOMAIN module
             /\ module[TargetOf(d)].params = IF n \in Wrappers \cup Libc
                                             THEN ParamsOf(n) ELSE program[d].params
  <2>1. CASE n \in Wrappers \cup Libc
    <3>1. TargetOf(d) = RuntimeSymbol(n) /\ n \in Runtime
      BY <2>1 DEF TargetOf, Runtime
    <3>2. Functions(n) = {RuntimeSymbol(n)}
      BY <1>1, <2>1, FunctionsOf
    <3>3. RuntimeSymbol(n) \in DOMAIN module /\ module[RuntimeSymbol(n)].params = ParamsOf(n)
      BY <1>1, <3>1 DEF Inv, ValuesOK
    <3> QED BY <2>1, <3>1, <3>2, <3>3
  <2>2. CASE n \notin Wrappers \cup Libc
    <3>1. n \notin Runtime /\ TargetOf(d) = SymbolOf(d)
      BY <1>3, <2>2 DEF TargetOf, Runtime
    <3>2. {e \in Seen : IsFunction(e) /\ program[e].name = n} = {d}
      BY <1>1 DEF Inv, ProgramOK
    <3>3. Functions(n) = {SymbolOf(e) : e \in {e \in Seen :
                             IsFunction(e) /\ program[e].name = n}}
      BY <1>1, <3>1, FunctionsOf
    <3>4. Functions(n) = {SymbolOf(d)}
      BY <3>2, <3>3
    <3>5. SymbolOf(d) \in DOMAIN module /\ module[SymbolOf(d)].params = program[d].params
      BY <1>1 DEF Inv, ValuesOK
    <3> QED BY <2>2, <3>1, <3>4, <3>5
  <2> QED BY <2>1, <2>2
<1>4. Functions(n) = {TargetOf(d)} => getFunction(n) = TargetOf(d)
  BY DEF getFunction
<1> QED BY <1>2, <1>3, <1>4

LEMMA RuntimeFunctionOf ==
    ASSUME Inv, Active, NEW n \in Wrappers \cup Libc
    PROVE  Functions(n) # {} /\ getFunction(n) = RuntimeSymbol(n)
<1>1. Functions(n) = {RuntimeSymbol(n)}
  BY FunctionsOf
<1> QED BY <1>1 DEF getFunction

-----------------------------------------------------------------------------
(* Steps that leave the module alone.                                      *)

LEMMA SameProgram ==
    ASSUME UNCHANGED program
    PROVE  /\ ProgramOK => ProgramOK'
           /\ MainDecl' = MainDecl /\ L!Started' = L!Started
           /\ \A d : /\ SymbolOf(d)' = SymbolOf(d) /\ TargetOf(d)' = TargetOf(d)
                     /\ Wanted(d)' = Wanted(d) /\ Kind(d)' = Kind(d)
                     /\ IsFunction(d)' <=> IsFunction(d)
           /\ \A d : \A names : Shadows(d, names)' <=> Shadows(d, names)
<1>1. MainDecl' = MainDecl
  BY DEF MainDecl
<1>2. L!Started' = L!Started
  BY DEF L!Started, L!MainDecl, L!IsFunction
<1>3. \A d : /\ SymbolOf(d)' = SymbolOf(d) /\ TargetOf(d)' = TargetOf(d)
             /\ Wanted(d)' = Wanted(d) /\ Kind(d)' = Kind(d)
             /\ IsFunction(d)' <=> IsFunction(d)
  BY DEF SymbolOf, TargetOf, Wanted, Kind, IsFunction
<1>4. \A d : \A names : Shadows(d, names)' <=> Shadows(d, names)
  BY DEF Shadows, IsFunction
<1>5. ProgramOK => ProgramOK'
  BY <1>1 DEF ProgramOK
<1> QED BY <1>1, <1>2, <1>3, <1>4, <1>5

\* The module stays as it is, and the program runs on.
LEMMA PassiveStep ==
    ASSUME Inv, Active, UNCHANGED <<program, module>>,
           phase' \in {"functions", "body"}, Seen' = Seen,
           \A d \in Placed' \cup Placed : IsFunction(d) => (d \in Placed' <=> d \in Placed),
           PhaseOK', CallsOK', StoredOK',
           stored' \in 0..(MaxParams + 1), mainFuncID' \in Names \cup {NoName},
           \A c \in calls' : c.symbol \in Symbols /\ c.callee \in Symbols
    PROVE  Inv'
<1>1. ProgramOK' /\ \A d : /\ SymbolOf(d)' = SymbolOf(d) /\ TargetOf(d)' = TargetOf(d)
                           /\ Wanted(d)' = Wanted(d) /\ Kind(d)' = Kind(d)
                           /\ IsFunction(d)' <=> IsFunction(d)
  BY SameProgram DEF Inv
<1>2. Active' /\ phase' # "done" /\ phase' # "rejected" /\ phase' # "undefined"
  BY DEF Active
<1>3. ValuesOK'
  BY <1>1, <1>2 DEF Inv, ValuesOK
<1>4. BodiesOK'
  BY <1>1, <1>2 DEF Inv, BodiesOK, Active, Base
<1>5. TypeOK'
  BY DEF Inv, TypeOK, PhaseOK
<1> QED BY <1>1, <1>2, <1>3, <1>4, <1>5 DEF Inv, DoneOK, OnlyClashesFail

\* Code generation gives up, or goes on in no defined way.
LEMMA StopStep ==
    ASSUME Inv, phase \in {"functions", "body"},
           UNCHANGED <<program, next, module, stored, mainFuncID, calls>>,
           \/ phase' = "rejected" /\ Shadows(next, Constants)
           \/ /\ phase' = "undefined"
              /\ \/ \E d \in DOMAIN program : Shadows(d, Constants)
                 \/ /\ Shadows(next, Wrappers \cup Libc)
                    /\ program[next].params # ParamsOf(program[next].name)
    PROVE  Inv'
<1>1. /\ ProgramOK' /\ MainDecl' = MainDecl
      /\ \A d : SymbolOf(d)' = SymbolOf(d) /\ TargetOf(d)' = TargetOf(d)
      /\ \A d : \A names : Shadows(d, names)' <=> Shadows(d, names)
  BY SameProgram DEF Inv
<1>2. TypeOK' /\ PhaseOK'
  BY DEF Inv, TypeOK, PhaseOK
<1>3. ~Active' /\ phase' \notin {"globals", "functions", "body", "done"}
  BY DEF Active
<1>4. CallsOK'
  <2>1. phase # "done"
    OBVIOUS
  <2> QED BY <1>1, <2>1 DEF Inv, CallsOK
<1>5. OnlyClashesFail'
  BY <1>1 DEF OnlyClashesFail
<1>6. ValuesOK' /\ BodiesOK' /\ StoredOK' /\ DoneOK'
  BY <1>3 DEF ValuesOK, BodiesOK, StoredOK, DoneOK
<1> QED BY <1>1, <1>2, <1>4, <1>5, <1>6 DEF Inv

LEMMA EndOfGlobalsStep ==
    ASSUME Inv, EndOfGlobals
    PROVE  Inv'
<1>1. /\ phase = "globals" /\ next > Len(program) /\ phase' = "functions" /\ next' = 1
      /\ UNCHANGED <<program, module, stored, mainFuncID, calls>>
  BY DEF EndOfGlobals
<1>2. next \in 1..(Len(program) + 1) /\ Len(program) \in Nat
  BY DEF Inv, PhaseOK, ProgramOK
<1>3. Active /\ Seen' = Seen
  BY <1>1, <1>2 DEF Active, Seen
<1>4. Placed' = {} /\ Placed = {}
  BY <1>1 DEF Placed
<1>5. PhaseOK'
  BY <1>1, <1>2 DEF PhaseOK
<1>6. CallsOK'
  BY <1>1, SameProgram DEF Inv, CallsOK
<1>7. StoredOK'
  BY <1>1, <1>4 DEF StoredOK
<1> QED BY <1>1, <1>3, <1>4, <1>5, <1>6, <1>7, PassiveStep DEF Inv, TypeOK

LEMMA GVarDeclStep ==
    ASSUME Inv, GVarDecl
    PROVE  Inv'
<1>1. /\ phase = "functions" /\ next <= Len(program) /\ program[next].kind = "var"
      /\ next' = next + 1
      /\ UNCHANGED <<program, phase, module, stored, mainFuncID, calls>>
  BY DEF GVarDecl, At
<1>2. next \in 1..Len(program) /\ Len(program) \in Nat
  BY <1>1 DEF Inv, PhaseOK, ProgramOK
<1>3. Active /\ Seen' = Seen
  BY <1>1 DEF Active, Seen
<1>4. Placed = 1..(next - 1) /\ Placed' = 1..next
  BY <1>1, <1>2 DEF Placed
<1>5. PhaseOK'
  BY <1>1, <1>2 DEF PhaseOK
<1>6. CallsOK'
  BY <1>1, SameProgram DEF Inv, CallsOK
<1>7. ~IsFunction(next) /\ next # MainDecl
  BY <1>1, <1>2 DEF IsFunction, Inv, ProgramOK
<1>8. \A d \in Placed' \cup Placed : IsFunction(d) => (d \in Placed' <=> d \in Placed)
  BY <1>2, <1>4, <1>7
<1>9. MainDecl \in Placed' => MainDecl \in Placed
  BY <1>2, <1>4, <1>7
<1>10. StoredOK'
  BY <1>1, <1>9, SameProgram DEF Inv, StoredOK
<1> QED BY <1>1, <1>3, <1>5, <1>6, <1>8, <1>10, PassiveStep DEF Inv, TypeOK

LEMMA EndOfBodyStep ==
    ASSUME Inv, EndOfBody
    PROVE  Inv'
<1>1. /\ phase = "body" /\ phase' = "functions" /\ next' = next + 1 /\ stored' = 0
      /\ UNCHANGED <<program, module, mainFuncID, calls>>
  BY DEF EndOfBody
<1>2. next \in 1..Len(program) /\ Len(program) \in Nat
  BY <1>1 DEF Inv, PhaseOK, ProgramOK
<1>3. Active /\ Seen' = Seen
  BY <1>1 DEF Active, Seen
<1>4. Placed' = Placed
  BY <1>1, <1>2 DEF Placed
<1>5. PhaseOK'
  BY <1>1, <1>2 DEF PhaseOK
<1>6. CallsOK'
  BY <1>1, SameProgram DEF Inv, CallsOK
<1>7. StoredOK'
  BY <1>1, <1>4, SameProgram DEF Inv, StoredOK
<1>8. stored' \in 0..(MaxParams + 1)
  BY <1>1, NamesAssumption
<1> QED BY <1>1, <1>3, <1>4, <1>5, <1>6, <1>7, <1>8, PassiveStep DEF Inv, TypeOK

-----------------------------------------------------------------------------
(* Steps that fill the module.                                             *)

\* The body of the next function goes into its target.
LEMMA BodyStep ==
    ASSUME Inv, phase = "functions", next \in 1..Len(program), IsFunction(next),
           program[next].name \notin Constants,
           AppendBody(TargetOf(next)), UNCHANGED <<program, next, calls>>,
           stored' \in 0..(MaxParams + 1), mainFuncID' \in Names \cup {NoName}, StoredOK'
    PROVE  Inv'
<1> DEFINE f == TargetOf(next)
<1>1. /\ module' = [module EXCEPT ![f].bodies = Append(@, next)] /\ phase' = "body"
      /\ f \in DOMAIN module
  BY FunctionOf DEF AppendBody
<1>2. /\ ProgramOK /\ ProgramOK' /\ next \in Nat /\ next \in 0..MaxGlobals
      /\ MainDecl' = MainDecl
      /\ \A d : /\ SymbolOf(d)' = SymbolOf(d) /\ TargetOf(d)' = TargetOf(d)
                /\ Wanted(d)' = Wanted(d) /\ Kind(d)' = Kind(d)
                /\ IsFunction(d)' <=> IsFunction(d)
  BY SameProgram, Declarations DEF Inv
<1>3. /\ Seen = 1..Len(program) /\ Seen' = Seen
      /\ Placed = 1..(next - 1) /\ Placed' = 1..next
      /\ Active /\ Active'
  BY <1>1 DEF Seen, Placed, Active
<1>4. /\ DOMAIN module' = DOMAIN module
      /\ \A v \in DOMAIN module : v # f => module'[v] = module[v]
      /\ module'[f] = [module[f] EXCEPT !.bodies = Append(@, next)]
  BY <1>1
<1>5. /\ module'[f].kind = module[f].kind /\ module'[f].name = module[f].name
      /\ module'[f].params = module[f].params
  BY <1>4
<1>6. \A d \in 1..(next - 1) : d \in 1..Len(program) /\ TargetOf(d) # f
  <2> TAKE d \in 1..(next - 1)
  <2>1. d \in 1..Len(program) /\ d # next
    BY <1>2 DEF ProgramOK
  <2> QED BY <1>2, <2>1, SymbolsDiffer
<1>7. module[f].bodies = Base(f) /\ f # Wrapper
  <2>1. f # Wrapper
    BY <1>2, SymbolsDiffer
  <2>2. \A d \in Placed : IsFunction(d) => TargetOf(d) # f
    BY <1>3, <1>6
  <2> QED BY <1>1, <2>1, <2>2 DEF Inv, BodiesOK
<1>8. module'[f].bodies = Append(Base(f), next)
  <2>1. module[f] \in ValueSet
    BY <1>1 DEF Inv, TypeOK, ValueSet
  <2>2. "bodies" \in DOMAIN module[f]
    BY <2>1 DEF ValueSet
  <2> QED BY <1>4, <1>7, <2>2
<1>9. ValuesOK'
  <2>1. \A v \in DOMAIN module' :
            /\ module'[v].kind = module[v].kind /\ module'[v].name = module[v].name
            /\ module'[v].params = module[v].params
    BY <1>4, <1>5
  <2>2. DOMAIN module = {RuntimeSymbol(n) : n \in Runtime} \cup {SymbolOf(d) : d \in Seen}
    BY <1>3 DEF Inv, ValuesOK
  <2>3. /\ \A n \in Runtime : RuntimeSymbol(n) \in DOMAIN module'
        /\ \A d \in Seen : SymbolOf(d) \in DOMAIN module'
    BY <1>4, <2>2
  <2>4. ASSUME NEW n \in Runtime
        PROVE  LET v == module'[RuntimeSymbol(n)]
               IN  /\ v.kind = IF n \in Constants THEN "var" ELSE "func"
                   /\ v.name = Plain(n) /\ v.params = ParamsOf(n)
    BY <1>3, <2>1, <2>3 DEF Inv, ValuesOK
  <2>5. ASSUME NEW d \in Seen
        PROVE  LET v == module'[SymbolOf(d)]
               IN  /\ v.kind = Kind(d) /\ v.name = Wanted(d)
                   /\ v.params = program[d].params
    BY <1>3, <2>1, <2>3 DEF Inv, ValuesOK
  <2>6. program' = program
    OBVIOUS
  <2>7. {SymbolOf(d) : d \in Seen}' = {SymbolOf(d) : d \in Seen}
    BY <1>2, <1>3
  <2>8. DOMAIN module' = {RuntimeSymbol(n) : n \in Runtime} \cup {SymbolOf(d) : d \in Seen}'
    BY <1>4, <2>2, <2>7
  <2>9. \A d \in Seen' : LET v == module'[SymbolOf(d)']
                        IN  /\ v.kind = Kind(d)' /\ v.name = Wanted(d)'
                            /\ v.params = program'[d].params
    BY <1>2, <1>3, <2>5, <2>6
  <2> HIDE DEF f
  <2> QED BY <2>4, <2>8, <2>9 DEF ValuesOK
<1>10. BodiesOK'
  <2>1. ASSUME NEW d \in Placed', IsFunction(d)
        PROVE  /\ program[d].name \notin Constants /\ TargetOf(d) \in DOMAIN module'
               /\ module'[TargetOf(d)].bodies = Append(Base(TargetOf(d)), d)
    <3>1. CASE d = next
      BY <1>1, <1>4, <1>8, <3>1
    <3>2. CASE d # next
      <4>1. d \in Placed /\ TargetOf(d) # f
        BY <1>2, <1>3, <1>6, <3>2
      <4> QED BY <1>4, <2>1, <4>1 DEF Inv, BodiesOK
    <3> QED BY <3>1, <3>2
  <2>2. ASSUME NEW v \in DOMAIN module' \ {Wrapper},
               \A d \in Placed' : IsFunction(d) => TargetOf(d) # v
        PROVE  module'[v].bodies = Base(v)
    <3>1. v # f
      BY <1>2, <1>3, <2>2
    <3>2. \A d \in Placed : d \in Placed'
      BY <1>2, <1>3
    <3> QED BY <1>4, <2>2, <3>1, <3>2 DEF Inv, BodiesOK
  <2> QED BY <1>2, <2>1, <2>2 DEF BodiesOK, Base
<1>11. CallsOK'
  BY <1>1, <1>2, SameProgram DEF Inv, CallsOK
<1>12. PhaseOK'
  BY <1>1, <1>2 DEF Inv, PhaseOK, ProgramOK
<1>13. TypeOK'
  <2>1. ASSUME NEW v \in DOMAIN module'
        PROVE  module'[v] \in ValueSet
    <3>1. module[v] \in ValueSet
      BY <1>4 DEF Inv, TypeOK, ValueSet
    <3>2. CASE v = f
      <4>1. Append(module[f].bodies, next) \in Seq(0..MaxGlobals)
        BY <1>2, <3>1, <3>2 DEF ValueSet
      <4> QED BY <1>4, <3>1, <3>2, <4>1 DEF ValueSet
    <3>3. CASE v # f
      BY <1>4, <3>1, <3>3
    <3> QED BY <3>2, <3>3
  <2> QED BY <1>1, <1>4, <1>12, <2>1 DEF Inv, TypeOK, PhaseOK, ValueSet
<1> QED BY <1>1, <1>2, <1>9, <1>10, <1>11, <1>12, <1>13 DEF Inv, DoneOK, OnlyClashesFail

LEMMA FuncDeclStep ==
    ASSUME Inv, FuncDecl
    PROVE  Inv'
<1> DEFINE d == program[next]
           f == getFunction(d.name)
<1>1. /\ phase = "functions" /\ next <= Len(program) /\ d.kind = "func"
      /\ \/ /\ Functions(d.name) = {}
            /\ phase' = "rejected" /\ UNCHANGED <<module, stored>>
         \/ /\ Functions(d.name) # {} /\ module[f].params > d.params
            /\ phase' = "undefined" /\ UNCHANGED <<module, stored>>
         \/ /\ Functions(d.name) # {} /\ module[f].params <= d.params
            /\ AppendBody(f) /\ stored' = module[f].params
      /\ UNCHANGED <<program, next, mainFuncID, calls>>
  BY DEF FuncDecl, At
<1>2. next \in 1..Len(program) /\ IsFunction(next) /\ ProgramOK
  BY <1>1 DEF Inv, PhaseOK, ProgramOK, IsFunction
<1>3. /\ d.name \in Constants => Functions(d.name) = {}
      /\ d.name \notin Constants =>
            /\ Functions(d.name) = {TargetOf(next)} /\ f = TargetOf(next)
            /\ module[f].params = IF d.name \in Wrappers \cup Libc
                                  THEN ParamsOf(d.name) ELSE d.params
  BY <1>1, <1>2, FunctionOf
<1>4. d.params \in Nat /\ d.params \in 0..(MaxParams + 1)
  BY <1>2, Declarations, NamesAssumption
<1>5. CASE Functions(d.name) = {}
  <2>1. Shadows(next, Constants)
    BY <1>2, <1>3, <1>5 DEF Shadows
  <2> QED BY <1>1, <1>5, <2>1, StopStep
<1>6. CASE Functions(d.name) # {} /\ module[f].params > d.params
  <2>1. d.name \in Wrappers \cup Libc /\ d.params # ParamsOf(d.name)
    <3>1. d.name \notin Constants
      BY <1>3, <1>6
    <3>2. CASE d.name \in Wrappers \cup Libc
      <4>1. module[f].params = ParamsOf(d.name) /\ d.name \in Runtime
        BY <1>3, <3>1, <3>2 DEF Runtime
      <4>2. ParamsOf(d.name) \in {0, 1}
        BY <4>1, RuntimeFacts
      <4> QED BY <1>4, <1>6, <3>2, <4>1, <4>2
    <3>3. CASE d.name \notin Wrappers \cup Libc
      BY <1>3, <1>4, <1>6, <3>1, <3>3
    <3> QED BY <3>2, <3>3
  <2>2. Shadows(next, Wrappers \cup Libc)
    BY <1>2, <2>1 DEF Shadows
  <2>3. ~(module[f].params <= d.params)
    <3>1. module[f].params = ParamsOf(d.name) /\ d.name \in Runtime
      BY <1>3, <1>6, <2>1 DEF Runtime
    <3>2. ParamsOf(d.name) \in {0, 1}
      BY <3>1, RuntimeFacts
    <3> QED BY <1>4, <1>6, <3>1, <3>2
  <2>4. phase' = "undefined" /\ UNCHANGED <<module, stored>>
    BY <1>1, <1>6, <2>3
  <2> QED BY <1>1, <2>1, <2>2, <2>4, StopStep
<1>7. CASE /\ Functions(d.name) # {} /\ AppendBody(f) /\ stored' = module[f].params
  <2>1. d.name \notin Constants /\ f = TargetOf(next)
    BY <1>3, <1>7
  <2>2. stored' = IF d.name \in Wrappers \cup Libc THEN ParamsOf(d.name) ELSE d.params
    BY <1>3, <1>7, <2>1
  <2>3. stored' \in 0..(MaxParams + 1)
    <3>1. d.name \in Wrappers \cup Libc => ParamsOf(d.name) \in {0, 1}
      BY RuntimeFacts DEF Runtime
    <3> QED BY <1>4, <2>2, <3>1, NamesAssumption
  <2>4. StoredOK'
    <3>1. next # MainDecl /\ phase' = "body"
      BY <1>1, <1>2, <1>7 DEF ProgramOK, AppendBody
    <3>2. MainDecl \in Placed' => MainDecl \in Placed
      BY <1>1, <1>2, <3>1 DEF Placed, ProgramOK
    <3> QED BY <1>1, <2>2, <3>1, <3>2, SameProgram DEF Inv, StoredOK
  <2> QED BY <1>1, <1>2, <1>7, <2>1, <2>3, <2>4, BodyStep DEF Inv, TypeOK
<1> QED BY <1>1, <1>5, <1>6, <1>7

LEMMA MFuncDeclStep ==
    ASSUME Inv, MFuncDecl
    PROVE  Inv'
<1> DEFINE n == program[next].name
<1>1. /\ phase = "functions" /\ next <= Len(program) /\ program[next].kind = "main"
      /\ IF Functions(n) = {}
         THEN phase' = "rejected" /\ UNCHANGED <<module, mainFuncID>>
         ELSE AppendBody(getFunction(n)) /\ mainFuncID' = n
      /\ UNCHANGED <<program, next, stored, calls>>
  BY DEF MFuncDecl, At
<1>2. next \in 1..Len(program) /\ IsFunction(next) /\ ProgramOK /\ n \in Names
  <2>1. next \in 1..Len(program) /\ IsFunction(next) /\ ProgramOK
    BY <1>1 DEF Inv, PhaseOK, ProgramOK, IsFunction
  <2> QED BY <2>1, Declarations
<1>3. /\ n \in Constants => Functions(n) = {}
      /\ n \notin Constants =>
            Functions(n) = {TargetOf(next)} /\ getFunction(n) = TargetOf(next)
  BY <1>1, <1>2, FunctionOf
<1>4. next = MainDecl
  BY <1>1, <1>2 DEF ProgramOK
<1>5. CASE Functions(n) = {}
  <2>1. Shadows(next, Constants)
    BY <1>2, <1>3, <1>5 DEF Shadows
  <2> QED BY <1>1, <1>5, <2>1, StopStep
<1>6. CASE Functions(n) # {}
  <2>1. n \notin Constants /\ AppendBody(TargetOf(next)) /\ mainFuncID' = n
    BY <1>1, <1>3, <1>6
  <2>2. StoredOK'
    BY <1>1, <1>4, <2>1, SameProgram DEF StoredOK
  <2> QED BY <1>1, <1>2, <2>1, <2>2, BodyStep DEF Inv, TypeOK
<1> QED BY <1>5, <1>6

LEMMA FuncCallExprStep ==
    ASSUME Inv, NEW n \in Names, FuncCallExpr(n)
    PROVE  Inv'
<1>1. /\ phase = "body" /\ UNCHANGED <<program, next, module, stored, mainFuncID>>
      /\ Active /\ ProgramOK
  BY DEF FuncCallExpr, Active, Inv
<1>2. PICK s \in Callable(n) :
          IF Functions(n) = {} THEN phase' = "undefined" /\ UNCHANGED calls
          ELSE calls' = calls \cup {Call(s, getFunction(n))} /\ UNCHANGED phase
  BY DEF FuncCallExpr
<1>3. \/ \E d \in 1..Len(program) : /\ program[d].name = n /\ program[d].kind = "func"
                                    /\ s = SymbolOf(d)
      \/ n \in Wrappers \cup Libc /\ s = RuntimeSymbol(n)
  BY <1>1, <1>2 DEF Callable, Declared, m_rts, Libc, ProgramOK
<1>4. CASE Functions(n) = {}
  <2>1. PICK d \in 1..Len(program) : program[d].name = n /\ program[d].kind = "func"
    BY <1>1, <1>3, <1>4, RuntimeFunctionOf
  <2>2. n \in Constants
    BY <1>1, <1>4, <2>1, FunctionOf DEF IsFunction
  <2>3. Shadows(d, Constants) /\ d \in DOMAIN program
    BY <1>1, <2>1, <2>2 DEF Shadows, IsFunction, ProgramOK
  <2> QED BY <1>1, <1>2, <1>4, <2>3, StopStep
<1>5. CASE Functions(n) # {}
  <2>1. calls' = calls \cup {Call(s, getFunction(n))} /\ UNCHANGED phase
    BY <1>2, <1>5
  <2>2. \/ /\ n \in Wrappers \cup Libc
           /\ Call(s, getFunction(n)) = Call(RuntimeSymbol(n), RuntimeSymbol(n))
        \/ \E d \in 1..Len(program) : /\ program[d].kind = "func"
              /\ Call(s, getFunction(n)) = Call(SymbolOf(d), TargetOf(d))
    <3>1. CASE n \in Wrappers \cup Libc /\ s = RuntimeSymbol(n)
      BY <1>1, <3>1, RuntimeFunctionOf
    <3>2. ASSUME NEW d \in 1..Len(program), program[d].name = n,
                 program[d].kind = "func", s = SymbolOf(d)
          PROVE  Call(s, getFunction(n)) = Call(SymbolOf(d), TargetOf(d))
      BY <1>1, <1>5, <3>2, FunctionOf DEF IsFunction
    <3> QED BY <1>3, <3>1, <3>2
  <2>3. CallsOK'
    BY <1>1, <2>1, <2>2, SameProgram DEF Inv, CallsOK
  <2>4. s \in Symbols /\ getFunction(n) \in Symbols
    <3>1. CASE n \in Wrappers \cup Libc
      <4>1. RuntimeSymbol(n) \in Symbols
        BY <3>1, NamesAssumption DEF RuntimeSymbol, Symbols, Runtime
      <4>2. getFunction(n) = RuntimeSymbol(n)
        BY <1>1, <3>1, RuntimeFunctionOf
      <4> QED BY <1>1, <1>3, <4>1, <4>2, SymbolsDiffer
    <3>2. CASE n \notin Wrappers \cup Libc
      <4>1. PICK d \in 1..Len(program) : /\ program[d].name = n
                                         /\ program[d].kind = "func" /\ s = SymbolOf(d)
        BY <1>3, <3>2
      <4>2. getFunction(n) = TargetOf(d)
        BY <1>1, <1>5, <4>1, FunctionOf DEF IsFunction
      <4> QED BY <1>1, <4>1, <4>2, SymbolsDiffer
    <3> QED BY <3>1, <3>2
  <2>5. \A c \in calls' : c.symbol \in Symbols /\ c.callee \in Symbols
    BY <2>1, <2>4 DEF Inv, TypeOK, Call
  <2>6. Seen' = Seen /\ Placed' = Placed /\ PhaseOK' /\ StoredOK'
    <3>1. Seen' = Seen /\ Placed' = Placed
      BY <1>1, <2>1 DEF Seen, Placed
    <3> QED BY <1>1, <2>1, <3>1, SameProgram DEF Inv, PhaseOK, StoredOK
  <2> QED BY <1>1, <2>1, <2>3, <2>5, <2>6, PassiveStep DEF Inv, TypeOK
<1> QED BY <1>4, <1>5

LEMMA IdExprStep ==
    ASSUME Inv, NEW i \in 1..MaxParams, IdExpr(i)
    PROVE  Inv'
<1>1. /\ phase = "body" /\ i <= program[next].params
      /\ phase' = IF i <= stored THEN phase ELSE "undefined"
      /\ UNCHANGED <<program, next, module, stored, mainFuncID, calls>>
      /\ Active /\ ProgramOK
  BY DEF IdExpr, Active, Inv
<1>2. next \in 1..Len(program) /\ IsFunction(next)
  BY <1>1 DEF Inv, PhaseOK, ProgramOK
<1>3. program[next].params \in Nat /\ program[next].kind \in {"var", "func", "main"}
  BY <1>1, <1>2, Declarations, NamesAssumption
<1>4. CASE i <= stored
  <2>1. Seen' = Seen /\ Placed' = Placed /\ PhaseOK' /\ StoredOK' /\ CallsOK'
    <3>1. Seen' = Seen /\ Placed' = Placed
      BY <1>1, <1>4 DEF Seen, Placed
    <3> QED BY <1>1, <1>4, <3>1, SameProgram DEF Inv, PhaseOK, StoredOK, CallsOK
  <2> QED BY <1>1, <1>4, <2>1, PassiveStep DEF Inv, TypeOK
<1>5. CASE ~(i <= stored)
  <2>1. program[next].kind = "func"
    <3>1. program[next].params # 0
      BY <1>1, <1>3
    <3> QED BY <1>1, <1>2, <3>1 DEF ProgramOK
  <2>2. stored = IF program[next].name \in Wrappers \cup Libc
                 THEN ParamsOf(program[next].name) ELSE program[next].params
    BY <1>1, <2>1 DEF Inv, StoredOK
  <2>3. /\ program[next].name \in Wrappers \cup Libc
        /\ program[next].params # ParamsOf(program[next].name)
    BY <1>1, <1>3, <1>5, <2>2
  <2>4. Shadows(next, Wrappers \cup Libc)
    BY <1>2, <2>3 DEF Shadows
  <2> QED BY <1>1, <1>5, <2>3, <2>4, StopStep
<1> QED BY <1>4, <1>5

\* The name of a new global is its own unless it is one of the runtime's.
LEMMA DeclaredName ==
    ASSUME Inv, phase = "globals", next \in 1..Len(program)
    PROVE  NewName(module, program[next].name, next) = Wanted(next)
<1> DEFINE n == program[next].name
<1>1. Active /\ Seen = 1..(next - 1) /\ ProgramOK /\ next \in Nat
  BY DEF Active, Seen, Inv, ProgramOK
<1>2. DOMAIN module = {RuntimeSymbol(m) : m \in Runtime} \cup {SymbolOf(d) : d \in Seen}
  BY <1>1 DEF Inv, ValuesOK
<1>3. n \in Runtime => Taken(module, Plain(n))
  <2> SUFFICES ASSUME n \in Runtime PROVE Taken(module, Plain(n))
    OBVIOUS
  <2>1. /\ RuntimeSymbol(n) \in DOMAIN module
        /\ module[RuntimeSymbol(n)].name = Plain(n)
    BY <1>1, <1>2 DEF Inv, ValuesOK
  <2> QED BY <2>1 DEF Taken
<1>4. Taken(module, Plain(n)) => n \in Runtime
  <2> SUFFICES ASSUME NEW v \in DOMAIN module, module[v].name = Plain(n), n \notin Runtime
               PROVE  FALSE
    BY DEF Taken
  <2>1. ASSUME NEW m \in Runtime, v = RuntimeSymbol(m)
        PROVE  FALSE
    <3>1. module[v].name = Plain(m)
      BY <1>1, <2>1 DEF Inv, ValuesOK
    <3>2. m = n
      BY <3>1 DEF Plain
    <3> QED BY <3>2
  <2>2. ASSUME NEW d \in Seen, v = SymbolOf(d)
        PROVE  FALSE
    <3>1. d \in 1..Len(program) /\ d # next
      BY <1>1 DEF ProgramOK
    <3>2. d \in Nat /\ d # 0
      BY <1>1, <3>1, Declarations
    <3>3. Wanted(d) = Plain(n)
      BY <1>1, <2>2 DEF Inv, ValuesOK
    <3>4. program[d].name = n
      BY <3>2, <3>3, NamesDiffer DEF Wanted
    <3> QED BY <1>1, <3>1, <3>4 DEF ProgramOK
  <2> QED BY <1>2, <2>1, <2>2
<1> QED BY <1>3, <1>4 DEF NewName, Wanted

LEMMA DeclareStep ==
    ASSUME Inv, NEW kind \in {"var", "func"}, phase = "globals", next <= Len(program),
           kind = Kind(next), Declare(kind), next' = next + 1,
           UNCHANGED <<program, phase, stored, mainFuncID, calls>>
    PROVE  Inv'
<1> DEFINE s == SymbolOf(next)
           value == Value(kind, Wanted(next), program[next].params, <<>>)
<1>1. /\ next \in 1..Len(program) /\ ProgramOK /\ next \in Nat /\ Len(program) \in Nat
      /\ next \in 1..MaxGlobals /\ program[next].name \in Names
      /\ program[next].params \in 0..MaxParams
  <2>1. next \in 1..Len(program) /\ ProgramOK
    BY DEF Inv, PhaseOK, ProgramOK
  <2> QED BY <2>1, Declarations
<1>2. module' = With(module, s, value)
  BY <1>1, DeclaredName DEF Declare
<1>3. /\ s \notin {RuntimeSymbol(n) : n \in Runtime} /\ s # Wrapper /\ s \in Symbols
      /\ \A d \in 1..(next - 1) : d \in 1..Len(program) /\ SymbolOf(d) # s
  <2>1. \A d \in 1..(next - 1) : d \in 1..Len(program) /\ d # next
    BY <1>1
  <2> QED BY <1>1, <2>1, SymbolsDiffer
<1>4. /\ ProgramOK'
      /\ \A d : /\ SymbolOf(d)' = SymbolOf(d) /\ TargetOf(d)' = TargetOf(d)
                /\ Wanted(d)' = Wanted(d) /\ Kind(d)' = Kind(d)
                /\ IsFunction(d)' <=> IsFunction(d)
  BY <1>1, SameProgram
<1>5. /\ Active /\ Active' /\ Placed = {} /\ Placed' = {}
      /\ Seen = 1..(next - 1) /\ Seen' = 1..next
  BY <1>1 DEF Active, Placed, Seen
<1>6. /\ value.kind = Kind(next) /\ value.name = Wanted(next) /\ value.bodies = <<>>
      /\ value.params = program[next].params
  BY DEF Value
<1>7. value \in ValueSet
  <2>1. Wanted(next) \in Names \X Numbers
    BY <1>1, NamesAssumption DEF Wanted, Plain, Numbered, Numbers
  <2>2. Wanted(next) \in (Names \cup Runtime \cup {".main"}) \X Numbers
    BY <2>1
  <2>3. program[next].params \in 0..(MaxParams + 1) /\ <<>> \in Seq(0..MaxGlobals)
    BY <1>1, NamesAssumption
  <2> QED BY <2>2, <2>3 DEF Value, ValueSet
<1> HIDE DEF s, value
<1>8. /\ DOMAIN module' = DOMAIN module \cup {s} /\ module'[s] = value
      /\ \A v \in DOMAIN module : v # s => module'[v] = module[v]
  BY <1>2 DEF With
<1>9. DOMAIN module = {RuntimeSymbol(n) : n \in Runtime} \cup {SymbolOf(d) : d \in Seen}
  BY <1>5 DEF Inv, ValuesOK
<1>10. ValuesOK'
  <2>1. {SymbolOf(d) : d \in Seen}' = {SymbolOf(d) : d \in Seen} \cup {s}
    <3>1. \A d : d \in Seen' <=> d \in Seen \/ d = next
      BY <1>1, <1>5
    <3> QED BY <1>4, <3>1 DEF s
  <2>2. DOMAIN module' = {RuntimeSymbol(n) : n \in Runtime} \cup {SymbolOf(d) : d \in Seen}'
    BY <1>8, <1>9, <2>1
  <2>3. ASSUME NEW n \in Runtime
        PROVE  LET v == module'[RuntimeSymbol(n)]
               IN  /\ v.kind = IF n \in Constants THEN "var" ELSE "func"
                   /\ v.name = Plain(n) /\ v.params = ParamsOf(n)
    <3>1. module'[RuntimeSymbol(n)] = module[RuntimeSymbol(n)]
      BY <1>3, <1>8, <1>9
    <3> QED BY <1>5, <3>1 DEF Inv, ValuesOK
  <2>4. ASSUME NEW d \in Seen'
        PROVE  LET v == module'[SymbolOf(d)']
               IN  /\ v.kind = Kind(d)' /\ v.name = Wanted(d)'
                   /\ v.params = program'[d].params
    <3>1. CASE d = next
      BY <1>4, <1>6, <1>8, <3>1 DEF s
    <3>2. CASE d # next
      <4>1. d \in Seen /\ SymbolOf(d) # s
        BY <1>1, <1>3, <1>5, <3>2
      <4>2. module'[SymbolOf(d)] = module[SymbolOf(d)]
        BY <1>8, <1>9, <4>1
      <4>3. /\ module[SymbolOf(d)].kind = Kind(d) /\ module[SymbolOf(d)].name = Wanted(d)
            /\ module[SymbolOf(d)].params = program[d].params
        BY <1>5, <4>1 DEF Inv, ValuesOK
      <4> QED BY <1>4, <4>2, <4>3
    <3> QED BY <3>1, <3>2
  <2> QED BY <2>2, <2>3, <2>4 DEF ValuesOK
<1>11. BodiesOK'
  <2>1. ASSUME NEW v \in DOMAIN module', v # Wrapper
        PROVE  module'[v].bodies = Base(v)
    <3>1. CASE v = s
      BY <1>3, <1>6, <1>8, <3>1 DEF Base, Runtime
    <3>2. CASE v # s
      BY <1>5, <1>8, <2>1, <3>2 DEF Inv, BodiesOK
    <3> QED BY <3>1, <3>2
  <2>2. \A v : Base(v)' = Base(v)
    BY DEF Base, RuntimeSymbol
  <2> QED BY <1>5, <2>1, <2>2 DEF BodiesOK
<1>12. PhaseOK'
  BY <1>1 DEF Inv, PhaseOK
<1>13. TypeOK'
  <2>1. \A v \in DOMAIN module' : module'[v] \in ValueSet
    BY <1>7, <1>8 DEF Inv, TypeOK, ValueSet
  <2>2. DOMAIN module' \subseteq Symbols
    BY <1>3, <1>8 DEF Inv, TypeOK
  <2> QED BY <1>12, <2>1, <2>2 DEF Inv, TypeOK, PhaseOK, ValueSet
<1>14. CallsOK' /\ StoredOK'
  BY <1>4, SameProgram DEF Inv, CallsOK, StoredOK
<1> QED BY <1>4, <1>10, <1>11, <1>12, <1>13, <1>14 DEF Inv, DoneOK, OnlyClashesFail

\* The values that have the name main before the end: at most the one for the program's.
LEMMA CalledMain ==
    ASSUME Inv, phase = "functions", NEW v \in DOMAIN module, module[v].name = Plain("main")
    PROVE  \E d \in 1..Len(program) : /\ v = SymbolOf(d) /\ program[d].name = "main"
                                      /\ module[v].kind = Kind(d)
<1>1. Active /\ Seen = 1..Len(program) /\ ProgramOK
  BY DEF Active, Seen, Inv
<1>2. DOMAIN module = {RuntimeSymbol(m) : m \in Runtime} \cup {SymbolOf(d) : d \in Seen}
  BY <1>1 DEF Inv, ValuesOK
<1>3. ASSUME NEW m \in Runtime, v = RuntimeSymbol(m)
      PROVE  FALSE
  <2>1. module[v].name = Plain(m)
    BY <1>1, <1>3 DEF Inv, ValuesOK
  <2>2. m = "main"
    BY <2>1 DEF Plain
  <2> QED BY <2>2, RuntimeFacts
<1>4. ASSUME NEW d \in Seen, v = SymbolOf(d)
      PROVE  program[d].name = "main" /\ module[v].kind = Kind(d)
  <2>1. d \in Nat /\ d # 0
    BY <1>1, Declarations
  <2>2. Wanted(d) = Plain("main") /\ module[v].kind = Kind(d)
    BY <1>1, <1>4 DEF Inv, ValuesOK
  <2> QED BY <2>1, <2>2, NamesDiffer DEF Wanted
<1> QED BY <1>1, <1>2, <1>3, <1>4

\* What Linkage starts the program at.
LEMMA StartedFacts ==
    ASSUME ProgramOK
    PROVE  /\ L!Started \in 1..Len(program) /\ IsFunction(L!Started)
           /\ L!Started # MainDecl <=>
                 \E d \in DOMAIN program : d # MainDecl /\ Shadows(d, {"main"})
           /\ L!Started # MainDecl => program[L!Started].name = "main"
<1>1. /\ DOMAIN program = 1..Len(program) /\ MainDecl \in 1..Len(program)
      /\ IsFunction(MainDecl) /\ L!MainDecl = MainDecl
      /\ \A d : L!IsFunction(d) <=> IsFunction(d)
  BY DEF ProgramOK, IsFunction, L!IsFunction, L!MainDecl, MainDecl
<1>2. CASE \E d \in 1..Len(program) : IsFunction(d) /\ program[d].name = "main"
  <2>1. PICK d \in 1..Len(program) : IsFunction(d) /\ program[d].name = "main"
    BY <1>2
  <2>2. \A e \in DOMAIN program : L!IsFunction(e) /\ program[e].name = "main" <=> e = d
    BY <1>1, <2>1 DEF ProgramOK
  <2>3. L!Started = d
    BY <1>1, <2>1, <2>2 DEF L!Started
  <2>4. \A e \in 1..Len(program) : Shadows(e, {"main"}) <=> e = d
    BY <1>1, <2>1 DEF Shadows, ProgramOK
  <2> QED BY <1>1, <2>1, <2>3, <2>4
<1>3. CASE ~\E d \in 1..Len(program) : IsFunction(d) /\ program[d].name = "main"
  <2>1. \A e \in 1..Len(program) : ~Shadows(e, {"main"})
    BY <1>3 DEF Shadows
  <2>2. L!Started = MainDecl
    BY <1>1, <1>3 DEF L!Started
  <2> QED BY <1>1, <2>1, <2>2
<1> QED BY <1>2, <1>3

\* The function that the wrapper calls.
LEMMA StartedIs ==
    ASSUME Inv, phase = "functions", next > Len(program)
    PROVE  IF Functions("main") # {} THEN getFunction("main") = TargetOf(L!Started)
           ELSE getFunction(mainFuncID) = TargetOf(L!Started)
<1>1. /\ ProgramOK /\ DOMAIN program = 1..Len(program) /\ MainDecl \in 1..Len(program)
      /\ next = Len(program) + 1 /\ Len(program) \in Nat /\ IsFunction(MainDecl)
      /\ L!MainDecl = MainDecl /\ \A d : L!IsFunction(d) <=> IsFunction(d)
  BY DEF Inv, ProgramOK, PhaseOK, IsFunction, L!IsFunction, L!MainDecl, MainDecl
<1>2. Active /\ Seen = 1..Len(program) /\ Placed = 1..Len(program)
  BY <1>1 DEF Active, Seen, Placed
<1>3. "main" \notin Runtime
  BY RuntimeFacts
<1>4. ASSUME NEW d \in 1..Len(program), IsFunction(d), program[d].name = "main"
      PROVE  /\ L!Started = d /\ Functions("main") # {}
             /\ getFunction("main") = TargetOf(d)
  <2>1. \A e \in DOMAIN program : L!IsFunction(e) /\ program[e].name = "main" <=> e = d
    BY <1>1, <1>4 DEF ProgramOK
  <2>2. L!Started = d
    BY <1>1, <2>1 DEF L!Started
  <2>3. program[d].name \notin Constants
    BY <1>3, <1>4 DEF Runtime
  <2> QED BY <1>4, <2>2, <2>3, FunctionOf
<1>5. ASSUME ~\E d \in 1..Len(program) : IsFunction(d) /\ program[d].name = "main"
      PROVE  /\ L!Started = MainDecl /\ Functions("main") = {}
             /\ getFunction(mainFuncID) = TargetOf(MainDecl)
  <2>1. L!Started = MainDecl
    BY <1>1, <1>5 DEF L!Started
  <2>2. Functions("main") = {}
    BY <1>2, <1>3, <1>5, FunctionsOf
  <2>3. mainFuncID = program[MainDecl].name
    BY <1>1, <1>2 DEF Inv, StoredOK
  <2>4. program[MainDecl].name \notin Constants
    BY <1>1, <1>2 DEF Inv, BodiesOK
  <2> QED BY <1>1, <2>1, <2>2, <2>3, <2>4, FunctionOf
<1>6. CASE \E d \in 1..Len(program) : IsFunction(d) /\ program[d].name = "main"
  BY <1>4, <1>6
<1>7. CASE ~\E d \in 1..Len(program) : IsFunction(d) /\ program[d].name = "main"
  BY <1>5, <1>7
<1> QED BY <1>6, <1>7

LEMMA EndOfProgramStep ==
    ASSUME Inv, EndOfProgram
    PROVE  Inv'
<1> DEFINE mainf == IF Functions("main") # {} THEN getFunction("main")
                    ELSE getFunction(mainFuncID)
           vars1 == {v \in DOMAIN module : module[v].name = Plain("main")
                                           /\ module[v].kind = "var"}
           others == IF Functions("main") # {}
                     THEN Renamed(Functions("main"), Numbered("main", 1))
                     ELSE Renamed(vars1, Plain(".main"))
           wrapper == Value("func", NewName(others, "main", MaxGlobals + 1), 0, <<0>>)
<1>1. /\ phase = "functions" /\ next > Len(program) /\ phase' = "done"
      /\ module' = With(others, Wrapper, wrapper)
      /\ calls' = calls \cup {Call(SymbolOf(MainDecl), mainf)}
      /\ UNCHANGED <<program, next, stored, mainFuncID>>
  BY DEF EndOfProgram
<1>2. /\ ProgramOK /\ next = Len(program) + 1 /\ Len(program) \in Nat
      /\ DOMAIN program = 1..Len(program) /\ MainDecl \in 1..Len(program)
  BY <1>1 DEF Inv, ProgramOK, PhaseOK
<1>3. /\ Active /\ ~Active' /\ Seen = 1..Len(program) /\ Placed = 1..Len(program)
      /\ Placed' = 1..Len(program)
  BY <1>1, <1>2 DEF Active, Seen, Placed
<1>4. /\ L!Started \in 1..Len(program) /\ IsFunction(L!Started)
      /\ mainf = TargetOf(L!Started)
  BY <1>1, <1>2, StartedFacts, StartedIs
<1>5. /\ ProgramOK' /\ MainDecl' = MainDecl /\ L!Started' = L!Started
      /\ \A d : /\ SymbolOf(d)' = SymbolOf(d) /\ TargetOf(d)' = TargetOf(d)
                /\ IsFunction(d)' <=> IsFunction(d)
      /\ \A d : \A names : Shadows(d, names)' <=> Shadows(d, names)
  BY <1>1, <1>2, SameProgram
<1>6. ASSUME NEW v \in DOMAIN module
      PROVE  /\ others[v].bodies = module[v].bodies /\ others[v] \in ValueSet
             /\ others[v].name # Plain("main")
  <2>1. module[v] \in ValueSet
    BY DEF Inv, TypeOK, ValueSet
  <2>2. /\ Numbered("main", 1) \in (Names \cup Runtime \cup {".main"}) \X Numbers
        /\ Plain(".main") \in (Names \cup Runtime \cup {".main"}) \X Numbers
    BY NamesAssumption DEF Numbered, Plain, Numbers
  <2>3. Numbered("main", 1) # Plain("main") /\ Plain(".main") # Plain("main")
    BY DEF Numbered, Plain
  <2>4. CASE Functions("main") # {}
    <3>1. others[v] = IF v \in Functions("main")
                      THEN [module[v] EXCEPT !.name = Numbered("main", 1)] ELSE module[v]
      BY <2>4 DEF Renamed
    <3>2. ASSUME v \notin Functions("main")
          PROVE  module[v].name # Plain("main")
      <4> SUFFICES ASSUME module[v].name = Plain("main") PROVE FALSE
        OBVIOUS
      <4>1. PICK d \in 1..Len(program) : v = SymbolOf(d) /\ program[d].name = "main"
        BY <1>1, CalledMain
      <4>2. PICK w \in DOMAIN module : w \in Functions("main")
        BY <2>4 DEF Functions
      <4>3. module[w].name = Plain("main")
        BY <4>2 DEF Functions
      <4>4. PICK e \in 1..Len(program) : w = SymbolOf(e) /\ program[e].name = "main"
        BY <1>1, <4>3, CalledMain
      <4>5. d = e
        BY <1>2, <4>1, <4>4 DEF ProgramOK
      <4> QED BY <3>2, <4>1, <4>2, <4>4, <4>5
    <3> QED BY <2>1, <2>2, <2>3, <3>1, <3>2 DEF ValueSet
  <2>5. CASE Functions("main") = {}
    <3>1. others[v] = IF v \in vars1 THEN [module[v] EXCEPT !.name = Plain(".main")]
                      ELSE module[v]
      BY <2>5 DEF Renamed
    <3>2. module[v].name = Plain("main") => v \in vars1
      BY <2>1, <2>5 DEF Functions, ValueSet
    <3> QED BY <2>1, <2>2, <2>3, <3>1, <3>2 DEF ValueSet
  <2> QED BY <2>4, <2>5
<1>7. DOMAIN others = DOMAIN module
  BY DEF Renamed
<1>8. DOMAIN module = {RuntimeSymbol(n) : n \in Runtime}
                      \cup {SymbolOf(d) : d \in 1..Len(program)}
  BY <1>3 DEF Inv, ValuesOK
<1>9. Wrapper \notin DOMAIN module /\ Wrapper \in Symbols
  BY <1>2, <1>8, SymbolsDiffer
<1>10. NewName(others, "main", MaxGlobals + 1) = Plain("main")
  BY <1>6, <1>7 DEF NewName, Taken
<1>11. /\ wrapper \in ValueSet /\ wrapper.name = Plain("main") /\ wrapper.bodies = <<0>>
  <2>1. Plain("main") \in (Names \cup Runtime \cup {".main"}) \X Numbers
    BY NamesAssumption DEF Plain, Numbers
  <2>2. 0 \in 0..(MaxParams + 1) /\ <<0>> \in Seq(0..MaxGlobals)
    BY NamesAssumption
  <2> QED BY <1>10, <2>1, <2>2 DEF Value, ValueSet
<1> HIDE DEF others, wrapper, mainf
<1>12. /\ DOMAIN module' = DOMAIN module \cup {Wrapper} /\ module'[Wrapper] = wrapper
       /\ \A v \in DOMAIN module : module'[v] = others[v]
  BY <1>1, <1>7, <1>9 DEF With
<1>13. DoneOK'
  <2>1. DOMAIN module' = {RuntimeSymbol(n) : n \in Runtime}
                         \cup {SymbolOf(d) : d \in 1..Len(program)}' \cup {Wrapper}
    BY <1>1, <1>5, <1>8, <1>12
  <2>2. {v \in DOMAIN module' : module'[v].name = Plain("main")} = {Wrapper}
    BY <1>6, <1>9, <1>11, <1>12
  <2>3. module'[Wrapper].bodies = <<0>>
    BY <1>11, <1>12
  <2> QED BY <2>1, <2>2, <2>3 DEF DoneOK
<1>14. BodiesOK'
  <2>1. ASSUME NEW d \in 1..Len(program), IsFunction(d)
        PROVE  /\ program[d].name \notin Constants /\ TargetOf(d) \in DOMAIN module'
               /\ module'[TargetOf(d)].bodies = Append(Base(TargetOf(d)), d)
    BY <1>1, <1>3, <1>6, <1>12, <2>1 DEF Inv, BodiesOK
  <2>2. ASSUME NEW v \in DOMAIN module', v # Wrapper,
               \A d \in 1..Len(program) : IsFunction(d) => TargetOf(d) # v
        PROVE  module'[v].bodies = Base(v)
    BY <1>1, <1>3, <1>6, <1>12, <2>2 DEF Inv, BodiesOK
  <2>3. \A v : Base(v)' = Base(v)
    BY DEF Base, RuntimeSymbol
  <2>4. program' = program
    BY <1>1
  <2> QED BY <1>3, <1>5, <2>1, <2>2, <2>3, <2>4 DEF BodiesOK
<1>15. CallsOK'
  <2>1. \A c \in calls' : c \in calls \/ c = Call(SymbolOf(MainDecl), TargetOf(L!Started))
    BY <1>1, <1>4
  <2> QED BY <1>1, <1>5, <2>1 DEF Inv, CallsOK
<1>16. PhaseOK'
  BY <1>1 DEF Inv, PhaseOK
<1>17. TypeOK'
  <2>1. \A v \in DOMAIN module' : module'[v] \in ValueSet
    BY <1>6, <1>11, <1>12
  <2>2. DOMAIN module' \subseteq Symbols
    BY <1>9, <1>12 DEF Inv, TypeOK
  <2>3. \A c \in calls' : c.symbol \in Symbols /\ c.callee \in Symbols
    <3>1. SymbolOf(MainDecl) \in Symbols /\ mainf \in Symbols
      BY <1>2, <1>4, SymbolsDiffer
    <3> QED BY <1>1, <3>1 DEF Inv, TypeOK, Call
  <2> QED BY <1>1, <1>16, <2>1, <2>2, <2>3 DEF Inv, TypeOK, PhaseOK, ValueSet
<1>18. OnlyClashesFail'
  <2>1. ~\E d \in DOMAIN program' : Shadows(d, Constants)'
    BY <1>1, <1>2, <1>3, <1>5 DEF Inv, BodiesOK, Shadows
  <2> QED BY <1>1, <2>1 DEF OnlyClashesFail
<1>19. ValuesOK' /\ StoredOK'
  BY <1>1, <1>3 DEF ValuesOK, StoredOK
<1> QED BY <1>5, <1>13, <1>14, <1>15, <1>16, <1>17, <1>18, <1>19 DEF Inv

LEMMA InvInit ==
    ASSUME Init
    PROVE  Inv
<1>1. /\ program \in Programs /\ phase = "globals" /\ next = 1
      /\ module = [v \in {RuntimeSymbol(n) : n \in Runtime} |-> RuntimeValue(v[1])]
      /\ stored = 0 /\ mainFuncID = NoName
      /\ calls = {Call(RuntimeSymbol(c[2]), RuntimeSymbol(c[2])) : c \in RuntimeCalls}
  BY DEF Init
<1>2. ProgramOK
  <2>1. PICK n \in 0..MaxGlobals : program \in [1..n -> Decl]
    BY <1>1 DEF Programs
  <2>2. /\ \A d, e \in DOMAIN program : program[d].name = program[e].name => d = e
        /\ \E m \in DOMAIN program : \A d \in DOMAIN program :
              program[d].kind = "main" <=> d = m
        /\ \A d \in DOMAIN program : program[d].kind # "func" => program[d].params = 0
    BY <1>1 DEF Programs
  <2>3. DOMAIN program = 1..n /\ n \in Nat /\ Len(program) = n /\ program \in Seq(Decl)
    BY <2>1, NamesAssumption
  <2>4. PICK m \in DOMAIN program :
            \A d \in DOMAIN program : program[d].kind = "main" <=> d = m
    BY <2>2
  <2>5. \A d \in DOMAIN program : program[d].kind = "main" => d = m
    BY <2>4
  <2>6. MainDecl = m
    BY <2>4, <2>5 DEF MainDecl
  <2> QED BY <2>2, <2>3, <2>4, <2>6 DEF ProgramOK
<1>3. Active /\ Seen = {} /\ Placed = {} /\ Len(program) \in Nat
  BY <1>1, <1>2 DEF Active, Seen, Placed, ProgramOK
<1>4. ASSUME NEW n \in Runtime
      PROVE  /\ RuntimeSymbol(n) \in DOMAIN module
             /\ module[RuntimeSymbol(n)] = RuntimeValue(n)
             /\ RuntimeValue(n) \in ValueSet
             /\ RuntimeValue(n).kind = IF n \in Constants THEN "var" ELSE "func"
             /\ RuntimeValue(n).name = Plain(n) /\ RuntimeValue(n).params = ParamsOf(n)
             /\ RuntimeValue(n).bodies = Base(RuntimeSymbol(n))
             /\ RuntimeSymbol(n) \in Symbols
  <2>1. RuntimeSymbol(n) \in DOMAIN module /\ module[RuntimeSymbol(n)] = RuntimeValue(n)
    BY <1>1 DEF RuntimeSymbol
  <2>2. /\ RuntimeValue(n).kind = IF n \in Constants THEN "var" ELSE "func"
        /\ RuntimeValue(n).name = Plain(n) /\ RuntimeValue(n).params = ParamsOf(n)
        /\ RuntimeValue(n).bodies = IF n \in Wrappers THEN <<0>> ELSE <<>>
    BY DEF RuntimeValue, Value
  <2>3. RuntimeSymbol(n) \in {RuntimeSymbol(w) : w \in Wrappers} <=> n \in Wrappers
    BY DEF RuntimeSymbol
  <2>4. RuntimeValue(n) \in ValueSet
    <3>1. ParamsOf(n) \in 0..(MaxParams + 1)
      BY RuntimeFacts, NamesAssumption
    <3>2. Plain(n) \in (Names \cup Runtime \cup {".main"}) \X Numbers
      BY NamesAssumption DEF Plain, Numbers
    <3>3. <<0>> \in Seq(0..MaxGlobals) /\ <<>> \in Seq(0..MaxGlobals)
      BY NamesAssumption
    <3> QED BY <3>1, <3>2, <3>3 DEF RuntimeValue, Value, ValueSet
  <2>5. RuntimeSymbol(n) \in Symbols
    BY NamesAssumption DEF RuntimeSymbol, Symbols
  <2> QED BY <2>1, <2>2, <2>3, <2>4, <2>5 DEF Base
<1>5. DOMAIN module = {RuntimeSymbol(n) : n \in Runtime}
  BY <1>1
<1>6. ASSUME NEW v \in DOMAIN module
      PROVE  module[v] \in ValueSet /\ v \in Symbols /\ module[v].bodies = Base(v)
  BY <1>4, <1>5
<1>7. ValuesOK
  BY <1>3, <1>4, <1>5 DEF ValuesOK
<1>8. BodiesOK
  BY <1>3, <1>6 DEF BodiesOK
<1>9. \A c \in calls : \E n \in Wrappers \cup Libc :
          c = Call(RuntimeSymbol(n), RuntimeSymbol(n))
  BY <1>1 DEF RuntimeCalls, Wrappers, Libc
<1>10. CallsOK
  BY <1>9 DEF CallsOK
<1>11. \A c \in calls : c.symbol \in Symbols /\ c.callee \in Symbols
  <2>1. \A n \in Wrappers \cup Libc : RuntimeSymbol(n) \in Symbols
    BY <1>4 DEF Runtime
  <2> QED BY <1>9, <2>1 DEF Call
<1>12. PhaseOK
  BY <1>1, <1>3 DEF PhaseOK
<1>13. TypeOK
  <2>1. DOMAIN module \subseteq Symbols /\ \A v \in DOMAIN module : module[v] \in ValueSet
    BY <1>6
  <2>2. stored \in 0..(MaxParams + 1) /\ mainFuncID \in Names \cup {NoName}
    BY <1>1, NamesAssumption
  <2>3. program \in Seq(Decl)
    BY <1>2 DEF ProgramOK
  <2> QED BY <1>11, <1>12, <2>1, <2>2, <2>3 DEF TypeOK, ValueSet, PhaseOK
<1> QED BY <1>1, <1>2, <1>7, <1>8, <1>10, <1>12, <1>13
        DEF Inv, StoredOK, DoneOK, OnlyClashesFail

LEMMA StutterStep ==
    ASSUME Inv, UNCHANGED <<program, phase, next, module, stored, mainFuncID, calls>>
    PROVE  Inv'
<1>1. /\ ProgramOK' /\ MainDecl' = MainDecl /\ L!Started' = L!Started
      /\ \A d : /\ SymbolOf(d)' = SymbolOf(d) /\ TargetOf(d)' = TargetOf(d)
                /\ Wanted(d)' = Wanted(d) /\ Kind(d)' = Kind(d)
                /\ IsFunction(d)' <=> IsFunction(d)
      /\ \A d : \A names : Shadows(d, names)' <=> Shadows(d, names)
  BY SameProgram DEF Inv
<1>2. Seen' = Seen /\ Placed' = Placed /\ (Active' <=> Active)
  BY DEF Seen, Placed, Active
<1>3. TypeOK' /\ PhaseOK'
  BY <1>1 DEF Inv, TypeOK, PhaseOK
<1>4. ValuesOK'
  BY <1>1, <1>2 DEF Inv, ValuesOK
<1>5. BodiesOK'
  <2>1. \A v : Base(v)' = Base(v)
    BY DEF Base, RuntimeSymbol
  <2> QED BY <1>1, <1>2, <2>1 DEF Inv, BodiesOK
<1>6. CallsOK' /\ StoredOK'
  BY <1>1, <1>2 DEF Inv, CallsOK, StoredOK
<1>7. DoneOK'
  BY <1>1 DEF Inv, DoneOK
<1>8. OnlyClashesFail'
  BY <1>1 DEF Inv, OnlyClashesFail
<1> QED BY <1>1, <1>3, <1>4, <1>5, <1>6, <1>7, <1>8 DEF Inv

LEMMA InvStep ==
    ASSUME Inv, [Next]_vars
    PROVE  Inv'
<1>1. CASE UNCHANGED vars
  BY <1>1, StutterStep DEF vars
<1>2. CASE DeclareFuncDecl \/ DeclareMFuncDecl \/ DeclareGVarDecl
  BY <1>2, DeclareStep DEF DeclareFuncDecl, DeclareMFuncDecl, DeclareGVarDecl, Visit, Kind
<1>3. CASE Finished
  BY <1>1, <1>3 DEF Finished
<1> QED BY <1>1, <1>2, <1>3, EndOfGlobalsStep, FuncDeclStep, MFuncDeclStep, GVarDeclStep,
        EndOfBodyStep, FuncCallExprStep, IdExprStep, EndOfProgramStep DEF Next

LEMMA Invariance == Spec => []Inv
<1>1. Init => Inv
  BY InvInit
<1>2. Inv /\ [Next]_vars => Inv'
  BY InvStep
<1> QED BY <1>1, <1>2, PTL DEF Spec

-----------------------------------------------------------------------------
(* Linkage, in terms of the module.                                        *)

Code == [t \in Symbols |-> IF t \in DOMAIN module THEN module[t].bodies ELSE <<>>]
Reached == {<<c.symbol, c.callee>> : c \in calls}

LEMMA LinkTarget ==
    \A d : /\ L!Target(d) = TargetOf(d) /\ L!Own(d) = SymbolOf(d)
           /\ L!IsFunction(d) <=> IsFunction(d)
BY DEF L!Target, L!Own, L!OfRuntime, L!IsFunction, TargetOf, SymbolOf, RuntimeSymbol,
       IsFunction

LEMMA LinkDefine ==
    ASSUME NEW d, IsFunction(d), Code[Wrapper] = <<>>,
           \A i \in DOMAIN Code[TargetOf(d)] : Code[TargetOf(d)][i] # d,
           Code' = [Code EXCEPT ![TargetOf(d)] = Append(@, d)],
           UNCHANGED <<program, calls>>
    PROVE  L!Define(d)
<1>1. L!IsFunction(d) /\ L!Target(d) = TargetOf(d)
  BY LinkTarget
<1>2. ~L!Closed
  BY DEF L!Closed, L!Entry, Wrapper, Code
<1>3. ~L!Defined(d)
  BY <1>1 DEF L!Defined, Code
<1> QED BY <1>1, <1>2, <1>3 DEF L!Define, Code

\* What a function has in it before the end, as Linkage sees it.
LEMMA CodeIs ==
    ASSUME Inv, Active
    PROVE  /\ Code[Wrapper] = <<>> /\ Wrapper \notin DOMAIN module
           /\ \A d \in Placed : IsFunction(d) =>
                 /\ TargetOf(d) \in Symbols
                 /\ Code[TargetOf(d)] = Append(Base(TargetOf(d)), d)
           /\ \A v \in Symbols \ {Wrapper} :
                 (\A d \in Placed : IsFunction(d) => TargetOf(d) # v) =>
                     Code[v] = Base(v)
<1>1. ProgramOK /\ Seen \subseteq 1..Len(program) /\ Placed \subseteq 1..Len(program)
      /\ MainDecl \in 1..Len(program)
  BY DEF Inv, PhaseOK, ProgramOK, Seen, Placed, Active
<1>2. DOMAIN module = {RuntimeSymbol(n) : n \in Runtime} \cup {SymbolOf(d) : d \in Seen}
  BY DEF Inv, ValuesOK
<1>3. Wrapper \notin DOMAIN module /\ Wrapper \in Symbols
  BY <1>1, <1>2, SymbolsDiffer
<1>4. ASSUME NEW d \in Placed, IsFunction(d)
      PROVE  /\ TargetOf(d) \in Symbols
             /\ Code[TargetOf(d)] = Append(Base(TargetOf(d)), d)
  <2>1. TargetOf(d) \in Symbols
    BY <1>1, SymbolsDiffer
  <2>2. /\ TargetOf(d) \in DOMAIN module
        /\ module[TargetOf(d)].bodies = Append(Base(TargetOf(d)), d)
    BY <1>4 DEF Inv, BodiesOK, Active
  <2> QED BY <2>1, <2>2 DEF Code
<1>5. ASSUME NEW v \in Symbols, v # Wrapper,
             \A d \in Placed : IsFunction(d) => TargetOf(d) # v
      PROVE  Code[v] = Base(v)
  <2>1. CASE v \in DOMAIN module
    BY <1>5, <2>1 DEF Inv, BodiesOK, Active, Code
  <2>2. CASE v \notin DOMAIN module
    <3>1. v \notin {RuntimeSymbol(n) : n \in Runtime}
      BY <1>2, <2>2
    <3>2. Base(v) = <<>>
      BY <3>1 DEF Base, Runtime
    <3> QED BY <2>2, <3>2 DEF Code
  <2> QED BY <2>1, <2>2
<1> QED BY <1>3, <1>4, <1>5 DEF Code

LEMMA LinkInit ==
    ASSUME Init
    PROVE  L!Init
<1>1. Inv /\ phase = "globals" /\ Active /\ Placed = {}
  BY InvInit DEF Init, Active, Placed
<1>2. \A v \in Symbols : Code[v] = Base(v)
  <2>1. Base(Wrapper) = <<>>
    BY RuntimeFacts DEF Base, Wrapper, RuntimeSymbol, Runtime
  <2> QED BY <1>1, <2>1, CodeIs
<1>3. Code = [t \in Symbols |-> IF t \in {L!OfRuntime(w) : w \in Wrappers}
                                THEN <<0>> ELSE <<>>]
  BY <1>2 DEF Code, Base, L!OfRuntime, RuntimeSymbol
<1>4. Reached = {<<L!OfRuntime(c[2]), L!OfRuntime(c[2])>> : c \in RuntimeCalls}
  <2>1. calls = {Call(RuntimeSymbol(c[2]), RuntimeSymbol(c[2])) : c \in RuntimeCalls}
    BY DEF Init
  <2>2. \A n : /\ Call(RuntimeSymbol(n), RuntimeSymbol(n)).symbol = L!OfRuntime(n)
               /\ Call(RuntimeSymbol(n), RuntimeSymbol(n)).callee = L!OfRuntime(n)
    BY DEF Call, RuntimeSymbol, L!OfRuntime
  <2> QED BY <2>1, <2>2 DEF Reached
<1>5. program \in Programs
  BY DEF Init
<1> QED BY <1>3, <1>4, <1>5 DEF L!Init, Code, Reached

\* A step that makes no code and no call is none of Linkage.
LEMMA LinkSame ==
    ASSUME UNCHANGED <<program, module, calls>>
    PROVE  UNCHANGED L!vars
BY DEF L!vars

\* While the module is filled, a function has what the runtime put in it.
LEMMA EmptyCode ==
    Inv /\ phase = "globals" => Code = [v \in Symbols |-> Base(v)]
<1> SUFFICES ASSUME Inv, phase = "globals"
             PROVE  Code = [v \in Symbols |-> Base(v)]
  OBVIOUS
<1>1. Active /\ Placed = {}
  BY DEF Active, Placed
<1>2. Base(Wrapper) = <<>>
  BY RuntimeFacts DEF Base, Wrapper, RuntimeSymbol, Runtime
<1>3. \A v \in Symbols : Code[v] = Base(v)
  BY <1>1, <1>2, CodeIs
<1> QED BY <1>3 DEF Code

LEMMA EmptyCodeNext ==
    (Inv /\ phase = "globals" => Code = [v \in Symbols |-> Base(v)])'
BY EmptyCode, PTL

LEMMA LinkDeclare ==
    ASSUME Inv, Inv', phase = "globals", phase' = "globals", UNCHANGED <<program, calls>>
    PROVE  UNCHANGED L!vars
<1>1. Code = [v \in Symbols |-> Base(v)]
  BY EmptyCode
<1>2. Code' = [v \in Symbols |-> Base(v)]
  BY EmptyCodeNext
<1>3. Code' = Code
  BY <1>1, <1>2
<1> QED BY <1>3 DEF L!vars, Code

LEMMA LinkBody ==
    ASSUME Inv, phase = "functions", NEW d \in 1..Len(program), d = next, IsFunction(d),
           program[d].name \notin Constants, AppendBody(TargetOf(d)),
           UNCHANGED <<program, calls>>
    PROVE  L!Define(d)
<1> DEFINE f == TargetOf(d)
<1>1. /\ module' = [module EXCEPT ![f].bodies = Append(@, d)] /\ f \in DOMAIN module
  BY FunctionOf DEF AppendBody
<1>2. ProgramOK /\ Active /\ Placed = 1..(next - 1) /\ d \in Nat /\ d # 0 /\ d = next
  BY Declarations DEF Inv, Active, Placed
<1>3. /\ f \in Symbols /\ f # Wrapper
      /\ \A e \in 1..(next - 1) : e \in 1..Len(program) /\ TargetOf(e) # f
  <2>1. \A e \in 1..(next - 1) : e \in 1..Len(program) /\ e # d
    BY <1>2 DEF ProgramOK
  <2> QED BY <1>2, <2>1, SymbolsDiffer
<1>4. Code[f] = Base(f) /\ Code[Wrapper] = <<>>
  BY <1>2, <1>3, CodeIs
<1>5. \A i \in DOMAIN Code[f] : Code[f][i] # d
  BY <1>2, <1>4 DEF Base
<1>6. Code' = [Code EXCEPT ![f] = Append(@, d)]
  <2>1. "bodies" \in DOMAIN module[f]
    BY <1>1 DEF Inv, TypeOK
  <2>2. /\ DOMAIN module' = DOMAIN module
        /\ \A v \in DOMAIN module :
              module'[v].bodies = IF v = f THEN Append(module[f].bodies, d)
                                  ELSE module[v].bodies
    BY <1>1, <2>1
  <2> HIDE DEF f
  <2> QED BY <1>1, <1>3, <2>2 DEF Code
<1>7. /\ Code[Wrapper] = <<>>
      /\ \A i \in DOMAIN Code[TargetOf(d)] : Code[TargetOf(d)][i] # d
      /\ Code' = [Code EXCEPT ![TargetOf(d)] = Append(@, d)]
  BY <1>4, <1>5, <1>6
<1> HIDE DEF f
<1> QED BY <1>7, LinkDefine

\* A call instruction more is one pair more.
LEMMA OneMore ==
    ASSUME NEW s, NEW f, calls' = calls \cup {Call(s, f)}
    PROVE  Reached' = Reached \cup {<<s, f>>}
<1>1. Reached' = {<<c.symbol, c.callee>> : c \in calls \cup {Call(s, f)}}
  BY DEF Reached
<1>2. Call(s, f).symbol = s /\ Call(s, f).callee = f
  BY DEF Call
<1> HIDE DEF Call
<1> QED BY <1>1, <1>2 DEF Reached

LEMMA LinkCall ==
    ASSUME Inv, NEW n \in Names, FuncCallExpr(n)
    PROVE  [L!Next]_(L!vars)
<1>1. /\ phase = "body" /\ UNCHANGED <<program, next, module, stored, mainFuncID>>
      /\ Active /\ ProgramOK
  BY DEF FuncCallExpr, Active, Inv
<1>2. PICK s \in Callable(n) :
          IF Functions(n) = {} THEN phase' = "undefined" /\ UNCHANGED calls
          ELSE calls' = calls \cup {Call(s, getFunction(n))} /\ UNCHANGED phase
  BY DEF FuncCallExpr
<1>3. \/ \E d \in 1..Len(program) : /\ program[d].name = n /\ program[d].kind = "func"
                                    /\ s = SymbolOf(d)
      \/ n \in Wrappers \cup Libc /\ s = RuntimeSymbol(n)
  BY <1>1, <1>2 DEF Callable, Declared, m_rts, Libc, ProgramOK
<1>4. CASE Functions(n) = {}
  BY <1>1, <1>2, <1>4, LinkSame
<1>5. CASE Functions(n) # {}
  <2>1. calls' = calls \cup {Call(s, getFunction(n))}
    BY <1>2, <1>5
  <2>2. Reached' = Reached \cup {<<s, getFunction(n)>>}
    BY <2>1, OneMore
  <2>3. ~L!Closed /\ Code' = Code
    <3>1. Code[Wrapper] = <<>>
      BY <1>1, CodeIs
    <3> QED BY <1>1, <3>1 DEF L!Closed, L!Entry, Wrapper, Code
  <2>4. CASE n \in Wrappers \cup Libc /\ s = RuntimeSymbol(n)
    <3>1. getFunction(n) = RuntimeSymbol(n)
      BY <1>1, <2>4, RuntimeFunctionOf
    <3>2. L!CallRuntime(n)
      BY <1>1, <2>2, <2>3, <2>4, <3>1
         DEF L!CallRuntime, L!OfRuntime, RuntimeSymbol, Code, Reached
    <3> QED BY <2>4, <3>2 DEF L!Next
  <2>5. ASSUME NEW d \in 1..Len(program), program[d].name = n,
               program[d].kind = "func", s = SymbolOf(d)
        PROVE  L!Next
    <3>1. IsFunction(d) /\ getFunction(n) = TargetOf(d)
      BY <1>1, <1>5, <2>5, FunctionOf DEF IsFunction
    <3>2. L!CallOwn(d)
      BY <1>1, <2>2, <2>3, <2>5, <3>1, LinkTarget DEF L!CallOwn, Code, Reached
    <3>3. d \in DOMAIN program
      BY <1>1 DEF ProgramOK
    <3> QED BY <3>2, <3>3 DEF L!Next
  <2> QED BY <1>3, <2>4, <2>5
<1> QED BY <1>4, <1>5

LEMMA LinkStart ==
    ASSUME Inv, Inv', EndOfProgram
    PROVE  L!Start
<1> DEFINE mainf == IF Functions("main") # {} THEN getFunction("main")
                    ELSE getFunction(mainFuncID)
<1>1. /\ phase = "functions" /\ next > Len(program) /\ phase' = "done"
      /\ calls' = calls \cup {Call(SymbolOf(MainDecl), mainf)}
      /\ UNCHANGED program
  BY DEF EndOfProgram
<1>2. /\ ProgramOK /\ DOMAIN program = 1..Len(program) /\ next = Len(program) + 1
      /\ Len(program) \in Nat /\ Active
      /\ MainDecl \in 1..Len(program)
  BY <1>1 DEF Inv, ProgramOK, PhaseOK, Active
<1>3. Placed = 1..Len(program) /\ Placed' = 1..Len(program) /\ Seen = 1..Len(program)
  BY <1>1, <1>2 DEF Placed, Seen
<1>4. mainf = TargetOf(L!Started)
  BY <1>1, StartedIs
<1>5. Code[Wrapper] = <<>> /\ Wrapper \in Symbols /\ Wrapper \notin DOMAIN module
  BY <1>2, CodeIs, SymbolsDiffer
<1>6. ASSUME NEW d \in 1..Len(program), IsFunction(d)
      PROVE  \E i \in DOMAIN Code[TargetOf(d)] : Code[TargetOf(d)][i] = d
  <2>1. Code[TargetOf(d)] = Append(Base(TargetOf(d)), d)
    BY <1>2, <1>3, <1>6, CodeIs
  <2>2. Base(TargetOf(d)) \in Seq({0})
    BY DEF Base
  <2>3. Len(Base(TargetOf(d))) + 1 \in DOMAIN Append(Base(TargetOf(d)), d)
    BY <2>2
  <2> QED BY <2>1, <2>2, <2>3
<1>7. Code' = [Code EXCEPT ![Wrapper] = <<0>>]
  <2>1. \A d : SymbolOf(d)' = SymbolOf(d) /\ TargetOf(d)' = TargetOf(d)
               /\ (IsFunction(d)' <=> IsFunction(d))
    BY <1>1, SameProgram
  <2>2. /\ DOMAIN module' = DOMAIN module \cup {Wrapper}
        /\ module'[Wrapper].bodies = <<0>>
    <3>1. DOMAIN module' = {RuntimeSymbol(n) : n \in Runtime}
                           \cup {SymbolOf(d) : d \in 1..Len(program)} \cup {Wrapper}
      <4>1. {SymbolOf(d) : d \in 1..Len(program)}' = {SymbolOf(d) : d \in 1..Len(program)}
        BY <1>1, <2>1
      <4> QED BY <1>1, <4>1 DEF Inv, DoneOK
    <3> QED BY <1>1, <1>2, <1>3, <3>1 DEF Inv, DoneOK, ValuesOK
  <2>3. ASSUME NEW v \in DOMAIN module
        PROVE  module'[v].bodies = module[v].bodies
    <3>1. v \in DOMAIN module' /\ v # Wrapper
      BY <1>5, <2>2
    <3>2. CASE \E d \in 1..Len(program) : IsFunction(d) /\ TargetOf(d) = v
      <4>1. PICK d \in 1..Len(program) : IsFunction(d) /\ TargetOf(d) = v
        BY <3>2
      <4>2. module[v].bodies = Append(Base(v), d)
        BY <1>1, <1>3, <4>1 DEF Inv, BodiesOK
      <4>3. module'[v].bodies = Append(Base(v)', d)
        BY <1>1, <1>3, <2>1, <4>1 DEF Inv, BodiesOK
      <4> QED BY <4>2, <4>3 DEF Base, RuntimeSymbol
    <3>3. CASE ~\E d \in 1..Len(program) : IsFunction(d) /\ TargetOf(d) = v
      <4>1. module[v].bodies = Base(v)
        BY <1>1, <1>3, <3>1, <3>3 DEF Inv, BodiesOK
      <4>2. module'[v].bodies = Base(v)'
        BY <1>1, <1>3, <2>1, <3>1, <3>3 DEF Inv, BodiesOK
      <4> QED BY <4>1, <4>2 DEF Base, RuntimeSymbol
    <3> QED BY <3>2, <3>3
  <2> QED BY <1>5, <2>2, <2>3 DEF Code
<1>8. Reached' = Reached \cup {<<SymbolOf(MainDecl), TargetOf(L!Started)>>}
  BY <1>1, <1>4, OneMore
<1>9. ~L!Closed /\ L!MainDecl = MainDecl
  BY <1>5 DEF L!Closed, L!Entry, Wrapper, Code, L!MainDecl, MainDecl
<1>10. \A d \in DOMAIN program : L!IsFunction(d) => L!Defined(d)
  BY <1>2, <1>6, LinkTarget DEF L!Defined, Code
<1>11. L!Entry = Wrapper
  BY DEF L!Entry, Wrapper
<1>12. /\ L!Own(L!MainDecl) = SymbolOf(MainDecl)
       /\ L!Target(L!Started) = TargetOf(L!Started)
  BY <1>9, LinkTarget
<1> QED BY <1>1, <1>7, <1>8, <1>9, <1>10, <1>11, <1>12 DEF L!Start, Code, Reached

LEMMA LinkStep ==
    ASSUME Inv, Inv', [Next]_vars
    PROVE  [L!Next]_(L!vars)
<1>1. CASE UNCHANGED vars \/ Finished
  BY <1>1, LinkSame DEF vars, Finished
<1>2. CASE DeclareFuncDecl \/ DeclareMFuncDecl \/ DeclareGVarDecl
  BY <1>2, LinkDeclare DEF DeclareFuncDecl, DeclareMFuncDecl, DeclareGVarDecl
<1>3. CASE \/ EndOfGlobals \/ GVarDecl \/ EndOfBody
           \/ \E i \in 1..MaxParams : IdExpr(i)
  BY <1>3, LinkSame DEF EndOfGlobals, GVarDecl, EndOfBody, IdExpr
<1>4. CASE FuncDecl \/ MFuncDecl
  <2> DEFINE n == program[next].name
  <2>1. /\ phase = "functions" /\ next <= Len(program) /\ IsFunction(next)
        /\ UNCHANGED <<program, next, calls>>
        /\ \/ UNCHANGED module
           \/ Functions(n) # {} /\ AppendBody(getFunction(n))
    <3>1. CASE FuncDecl
      BY <3>1 DEF FuncDecl, At, IsFunction
    <3>2. CASE MFuncDecl
      BY <3>2 DEF MFuncDecl, At, IsFunction
    <3> QED BY <1>4, <3>1, <3>2
  <2>2. next \in 1..Len(program) /\ next \in DOMAIN program
    BY <2>1 DEF Inv, PhaseOK, ProgramOK
  <2>3. CASE UNCHANGED module
    BY <2>1, <2>3, LinkSame
  <2>4. CASE Functions(n) # {} /\ AppendBody(getFunction(n))
    <3>1. n \notin Constants /\ getFunction(n) = TargetOf(next)
      BY <2>1, <2>2, <2>4, FunctionOf
    <3>2. PICK d \in 1..Len(program) : d = next
      BY <2>2
    <3>3. L!Define(d)
      BY <2>1, <2>4, <3>1, <3>2, LinkBody
    <3>4. d \in DOMAIN program
      BY <2>2, <3>2
    <3> QED BY <3>3, <3>4 DEF L!Next
  <2> QED BY <2>1, <2>3, <2>4
<1>5. CASE \E n \in Names : FuncCallExpr(n)
  BY <1>5, LinkCall
<1>6. CASE EndOfProgram
  BY <1>6, LinkStart DEF L!Next
<1> QED BY <1>1, <1>2, <1>3, <1>4, <1>5, <1>6 DEF Next

-----------------------------------------------------------------------------
(* What runs at the end.                                                   *)

LEMMA RunsOfDeclaration ==
    ASSUME Inv, phase = "done", NEW d \in 1..Len(program), IsFunction(d)
    PROVE  Runs(TargetOf(d)) = IF program[d].name \in Wrappers THEN 0 ELSE d
<1>1. Placed = 1..Len(program)
  BY DEF Placed
<1>2. module[TargetOf(d)].bodies = Append(Base(TargetOf(d)), d)
  BY <1>1 DEF Inv, BodiesOK
<1>3. Base(TargetOf(d)) = IF program[d].name \in Wrappers THEN <<0>> ELSE <<>>
  <2>1. CASE program[d].name \in Wrappers
    BY <2>1 DEF Base, TargetOf
  <2>2. CASE program[d].name \notin Wrappers
    <3>1. TargetOf(d)[1] = program[d].name
      BY DEF TargetOf, RuntimeSymbol, SymbolOf
    <3> QED BY <2>2, <3>1 DEF Base, RuntimeSymbol
  <2> QED BY <2>1, <2>2
<1>4. CASE program[d].name \in Wrappers
  <2>1. module[TargetOf(d)].bodies = Append(<<0>>, d)
    BY <1>2, <1>3, <1>4
  <2>2. Append(<<0>>, d) # <<>> /\ Append(<<0>>, d)[1] = 0
    OBVIOUS
  <2> QED BY <1>4, <2>1, <2>2 DEF Runs
<1>5. CASE program[d].name \notin Wrappers
  <2>1. module[TargetOf(d)].bodies = <<d>>
    BY <1>2, <1>3, <1>5
  <2> QED BY <1>5, <2>1 DEF Runs
<1> QED BY <1>4, <1>5

LEMMA RunsOfRuntime ==
    ASSUME Inv, phase = "done", NEW n \in Wrappers \cup Libc
    PROVE  IF n \in Wrappers THEN Runs(RuntimeSymbol(n)) = 0
           ELSE Runs(RuntimeSymbol(n)) = -1 <=>
                   ~\E d \in DOMAIN program : Shadows(d, {n})
<1>1. /\ ProgramOK /\ DOMAIN program = 1..Len(program) /\ Placed = 1..Len(program)
      /\ n \in Runtime
  BY DEF Inv, ProgramOK, Placed, Runtime
<1>2. CASE \E d \in 1..Len(program) : IsFunction(d) /\ program[d].name = n
  <2>1. PICK d \in 1..Len(program) : IsFunction(d) /\ program[d].name = n
    BY <1>2
  <2>2. TargetOf(d) = RuntimeSymbol(n) /\ d \in Nat
    BY <1>1, <2>1, Declarations DEF TargetOf
  <2>3. Runs(RuntimeSymbol(n)) = IF n \in Wrappers THEN 0 ELSE d
    BY <2>1, <2>2, RunsOfDeclaration
  <2>4. Shadows(d, {n})
    BY <2>1 DEF Shadows
  <2> QED BY <1>1, <2>2, <2>3, <2>4
<1>3. CASE ~\E d \in 1..Len(program) : IsFunction(d) /\ program[d].name = n
  <2>1. RuntimeSymbol(n) \in DOMAIN module /\ RuntimeSymbol(n) # Wrapper
    <3>1. RuntimeSymbol(n) # Wrapper
      BY <1>1, RuntimeFacts DEF RuntimeSymbol, Wrapper
    <3> QED BY <1>1, <3>1 DEF Inv, DoneOK
  <2>2. \A d \in 1..Len(program) : IsFunction(d) => TargetOf(d) # RuntimeSymbol(n)
    <3>1. \A d : TargetOf(d)[1] = program[d].name
      BY DEF TargetOf, RuntimeSymbol, SymbolOf
    <3> QED BY <1>3, <3>1 DEF RuntimeSymbol
  <2>3. module[RuntimeSymbol(n)].bodies = Base(RuntimeSymbol(n))
    BY <1>1, <2>1, <2>2 DEF Inv, BodiesOK
  <2>4. Base(RuntimeSymbol(n)) = IF n \in Wrappers THEN <<0>> ELSE <<>>
    BY DEF Base, RuntimeSymbol
  <2>5. Runs(RuntimeSymbol(n)) = IF n \in Wrappers THEN 0 ELSE -1
    BY <2>3, <2>4 DEF Runs
  <2>6. ~\E d \in DOMAIN program : Shadows(d, {n})
    BY <1>1, <1>3 DEF Shadows
  <2> QED BY <2>5, <2>6
<1> QED BY <1>2, <1>3

\* The calls there are at the end.
LEMMA CallIs ==
    ASSUME Inv, NEW c \in calls
    PROVE  \/ \E n \in Wrappers \cup Libc :
                 c.symbol = RuntimeSymbol(n) /\ c.callee = RuntimeSymbol(n)
           \/ \E d \in 1..Len(program) : /\ program[d].kind = "func"
                                         /\ c.symbol = SymbolOf(d)
                                         /\ c.callee = TargetOf(d)
           \/ c.symbol = SymbolOf(MainDecl) /\ c.callee = TargetOf(L!Started)
<1>1. \A s, f : Call(s, f).symbol = s /\ Call(s, f).callee = f
  BY DEF Call
<1> QED BY <1>1 DEF Inv, CallsOK

LEMMA InvCalls ==
    ASSUME Inv
    PROVE  CallsRunTheirFunction
<1> SUFFICES ASSUME phase = "done", NEW c \in calls, ~ToMain(c)
             PROVE  Runs(c.callee) = Meaning(c.symbol) <=>
                        IF c.symbol[2] # 0 THEN c.symbol[1] \notin Wrappers
                        ELSE c.symbol[1] \in Libc =>
                                ~\E d \in DOMAIN program : Shadows(d, {c.symbol[1]})
  BY DEF CallsRunTheirFunction
<1>1. CASE \E n \in Wrappers \cup Libc :
               c.symbol = RuntimeSymbol(n) /\ c.callee = RuntimeSymbol(n)
  <2>1. PICK n \in Wrappers \cup Libc :
                 c.symbol = RuntimeSymbol(n) /\ c.callee = RuntimeSymbol(n)
    BY <1>1
  <2>2. /\ c.symbol[1] = n /\ c.symbol[2] = 0
        /\ Meaning(c.symbol) = IF n \in Libc THEN -1 ELSE 0
    BY <2>1 DEF Meaning, RuntimeSymbol
  <2>3. n \in Wrappers => n \notin Libc
    BY RuntimeFacts
  <2> QED BY <2>1, <2>2, <2>3, RunsOfRuntime
<1>2. CASE \E d \in 1..Len(program) : /\ program[d].kind = "func"
                                      /\ c.symbol = SymbolOf(d) /\ c.callee = TargetOf(d)
  <2>1. PICK d \in 1..Len(program) : /\ program[d].kind = "func"
                                     /\ c.symbol = SymbolOf(d) /\ c.callee = TargetOf(d)
    BY <1>2
  <2>2. d \in Nat /\ d # 0 /\ IsFunction(d)
    BY <2>1, Declarations DEF Inv, IsFunction
  <2>3. c.symbol[1] = program[d].name /\ c.symbol[2] = d /\ Meaning(c.symbol) = d
    BY <2>1, <2>2 DEF SymbolOf, Meaning
  <2>4. Runs(c.callee) = IF program[d].name \in Wrappers THEN 0 ELSE d
    BY <2>1, <2>2, RunsOfDeclaration
  <2> QED BY <2>2, <2>3, <2>4
<1> QED BY <1>1, <1>2, CallIs DEF ToMain

LEMMA InvWrapper ==
    ASSUME Inv
    PROVE  WrapperRunsMain
<1> SUFFICES ASSUME phase = "done"
             PROVE  /\ {v \in DOMAIN module : module[v].name = Plain("main")} = {Wrapper}
                    /\ \A c \in calls : ToMain(c) =>
                          (Runs(c.callee) = MainDecl <=>
                              /\ program[MainDecl].name \notin Wrappers
                              /\ ~\E d \in DOMAIN program :
                                     d # MainDecl /\ Shadows(d, {"main"}))
  BY DEF WrapperRunsMain
<1>1. {v \in DOMAIN module : module[v].name = Plain("main")} = {Wrapper}
  BY DEF Inv, DoneOK
<1>2. ProgramOK /\ MainDecl \in 1..Len(program) /\ MainDecl # 0 /\ MainDecl \in Nat
  <2>1. ProgramOK /\ MainDecl \in 1..Len(program)
    BY DEF Inv, ProgramOK
  <2> QED BY <2>1, Declarations
<1>3. ASSUME NEW c \in calls, ToMain(c)
      PROVE  c.callee = TargetOf(L!Started)
  <2>1. c.symbol = SymbolOf(MainDecl)
    BY <1>3 DEF ToMain
  <2>2. \A n : c.symbol # RuntimeSymbol(n)
    BY <1>2, <2>1, SymbolsDiffer
  <2>3. \A d \in 1..Len(program) : c.symbol = SymbolOf(d) => program[d].kind # "func"
    <3>1. \A d \in 1..Len(program) : c.symbol = SymbolOf(d) => d = MainDecl
      BY <1>2, <2>1, SymbolsDiffer
    <3>2. program[MainDecl].kind = "main"
      BY <1>2 DEF ProgramOK
    <3> QED BY <3>1, <3>2
  <2> QED BY <2>2, <2>3, CallIs
<1>4. Runs(TargetOf(L!Started)) = MainDecl <=>
          /\ program[MainDecl].name \notin Wrappers
          /\ ~\E d \in DOMAIN program : d # MainDecl /\ Shadows(d, {"main"})
  <2>1. /\ L!Started \in 1..Len(program) /\ IsFunction(L!Started)
        /\ L!Started # MainDecl <=>
              \E d \in DOMAIN program : d # MainDecl /\ Shadows(d, {"main"})
        /\ L!Started # MainDecl => program[L!Started].name = "main"
    BY <1>2, StartedFacts
  <2>2. Runs(TargetOf(L!Started)) =
            IF program[L!Started].name \in Wrappers THEN 0 ELSE L!Started
    BY <2>1, RunsOfDeclaration
  <2>3. "main" \notin Wrappers
    BY RuntimeFacts DEF Runtime
  <2> QED BY <1>2, <2>1, <2>2, <2>3
<1> QED BY <1>1, <1>3, <1>4

-----------------------------------------------------------------------------
(* Theorems.                                                               *)

\* Every variable keeps its type, and the module never has a value for anything but a
\* symbol, whatever the program declares (CodegenGlobals, buildRTS).
THEOREM ModuleTypes == Spec => []TypeOK
<1>1. Inv => TypeOK
  BY DEF Inv
<1> QED BY <1>1, Invariance, PTL

\* Code generation gives up, or goes on in no defined way, only where a function has the
\* name of one of the runtime's, for programs with any number of globals
\* (codegen_ir.cpp:619, 630 and 570).
THEOREM FailuresAreClashes == Spec => []OnlyClashesFail
<1>1. Inv => OnlyClashesFail
  BY DEF Inv
<1> QED BY <1>1, Invariance, PTL

\* A call instruction goes to what the semantic analysis resolved the call to, but for
\* the clashes with names of the runtime that the property lists (codegen_ir.cpp:570).
THEOREM CallsAreRight == Spec => []CallsRunTheirFunction
<1>1. Inv => CallsRunTheirFunction
  BY InvCalls
<1> QED BY <1>1, Invariance, PTL

\* The wrapper is the one function called main, and runs the program's main function
\* unless the program has another function called main (codegen_ir.cpp:219).
THEOREM WrapperIsRight == Spec => []WrapperRunsMain
<1>1. Inv => WrapperRunsMain
  BY InvWrapper
<1> QED BY <1>1, Invariance, PTL

\* Code generation implements Linkage: looking functions up by name in the order of the
\* passes gives each function and call the one target that Linkage names for good.
THEOREM Linked == Spec => LinkSpec
<1>1. Init => L!Init
  BY LinkInit
<1>2. Inv /\ Inv' /\ [Next]_vars => [L!Next]_(L!vars)
  BY LinkStep
<1> QED BY <1>1, <1>2, Invariance, PTL DEF Spec, LinkSpec, L!Spec

=============================================================================
