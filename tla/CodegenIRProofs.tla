--------------------------- MODULE CodegenIRProofs ---------------------------
(***************************************************************************)
(* Proofs, for every value of the constants, of the safety properties of   *)
(* CodegenIR.                                                              *)
(***************************************************************************)
EXTENDS CodegenIR, FiniteSetTheorems, TLAPS

-----------------------------------------------------------------------------
(* The inductive invariant.                                                *)

Working == mode \notin {"idle", "exit"}

\* codegen() calls nest as the grammar does: a statement inside a body, an
\* operator inside an expression, and everything inside one function.
SubExpressions == {"operator", "land.lhs", "lor.lhs", "logical.rhs"}
Shape ==
    \A i \in 1..Len(frames) :
        /\ i = 1 <=> frames[i].kind = "func"
        /\ i > 1 => frames[i - 1].kind \in
                      IF frames[i].kind \in SubExpressions THEN ExprFrames
                      ELSE StmtFrames

\* What the local variables of a handler refer to.
HoldsEnd == {"if.then", "ifelse.then", "ifelse.else", "while.body",
             "logical.rhs"}
HoldsInserted == {"while.cond", "while.body", "logical.rhs"}
Holds(f, linked, n) ==
    /\ f.from \in linked \cup {None}
    /\ f.kind = "logical.rhs" => f.from \in linked
    /\ f.end \in IF f.kind \in HoldsEnd THEN 1..n ELSE {None}
    /\ f.blk \in IF f.kind \in HoldsInserted THEN linked
                 ELSE IF f.kind = "ifelse.then" THEN 1..n ELSE {None}
LocalsHold ==
    \A i \in 1..Len(frames) : Holds(frames[i], inserted, Len(code))

\* A block that is not linked yet is in some handler's local variable.
NoBlockLost ==
    \A b \in 1..Len(code) :
        \/ b \in inserted
        \/ \E i \in 1..Len(frames) : b \in {frames[i].blk, frames[i].end}

\* Instructions refer to blocks that exist.
RefersBelow(i, n) == \A t \in 1..Len(i.blocks) : i.blocks[t] \in 1..n
BlocksExist ==
    \A b \in 1..Len(code) : \A i \in 1..Len(code[b]) :
        RefersBelow(code[b][i], Len(code))

\* The entries of W are the ends of the loops open in F, outermost first.
Tracks(F, W) ==
    \E at \in [1..Len(W) -> 1..Len(F)] :
        /\ \A j, k \in 1..Len(W) : j < k => at[j] < at[k]
        /\ \A i \in 1..Len(F) : F[i].kind = "while.body" =>
               \E k \in 1..Len(W) : at[k] = i
        /\ \A k \in 1..Len(W) : /\ F[at[k]].kind = "while.body"
                                /\ F[at[k]].end = W[k]

\* Every block but the one instructions go to is closed; between two
\* functions all are.
OthersTerminated ==
    \A b \in inserted : (Working /\ b = insertBlock) \/ Terminated(code[b])

IInv ==
    /\ TypeOK
    /\ Shape
    /\ LocalsHold
    /\ NoBlockLost
    /\ BlocksExist
    /\ Tracks(frames, whileContext)
    /\ mode # "exit" => OthersTerminated

-----------------------------------------------------------------------------
(* Instructions and blocks.                                                *)

\* The constructors build instructions.
LEMMA InstrTypes ==
    /\ Alloca \in Instr /\ Plain \in Instr /\ Ret \in Instr
    /\ Unreachable \in Instr
    /\ \A b \in Nat : Br(b) \in Instr
    /\ \A b, c \in Nat : CondBr(b, c) \in Instr /\ Phi(b, c) \in Instr
BY DEF Alloca, Plain, Ret, Unreachable, Br, CondBr, Phi, Instr, Terminators

\* Blocks that exist go on existing.
LEMMA RefersMore ==
    ASSUME NEW i, NEW m \in Nat, NEW n \in Nat, m <= n, RefersBelow(i, m)
    PROVE  RefersBelow(i, n)
BY DEF RefersBelow

\* What Emit does to the code: one more instruction in the insertion block, n
\* more blocks, and nothing else.
LEMMA EmitValue ==
    ASSUME TypeOK, BlocksExist, Working,
           NEW i \in Instr, NEW n \in Nat, NEW d,
           RefersBelow(i, Len(code) + n), d = Emit(i, n)
    PROVE  /\ d \in Seq(Seq(Instr))
           /\ Len(d) = Len(code) + n
           /\ \A b \in 1..Len(d) : \A j \in 1..Len(d[b]) :
                 RefersBelow(d[b][j], Len(d))
           /\ \A b \in 1..Len(code) :
                 b # insertBlock => d[b] = code[b]
           /\ IsTerminator(i) => Terminated(d[insertBlock])
<1>0. /\ code \in Seq(Seq(Instr)) /\ inserted \subseteq 1..Len(code)
      /\ insertBlock \in inserted
  BY DEF TypeOK, Working
<1>1. insertBlock \in 1..Len(code) /\ Len(code) \in Nat
  BY <1>0
<1>2. \A b \in 1..Len(code) + n : Emit(i, n)[b] \in Seq(Instr)
  BY <1>1 DEF Emit, TypeOK
<1>3. /\ d \in Seq(Seq(Instr)) /\ Len(d) = Len(code) + n
      /\ \A b \in 1..Len(code) : b # insertBlock => d[b] = code[b]
      /\ \A b \in Len(code) + 1..Len(code) + n : d[b] = <<>>
      /\ d[insertBlock] = Append(code[insertBlock], i)
  BY <1>1, <1>2 DEF Emit
<1>4. code[insertBlock] \in Seq(Instr)
  BY <1>0, <1>1
<1>5. /\ Len(d[insertBlock]) = Len(code[insertBlock]) + 1
      /\ d[insertBlock][Len(code[insertBlock]) + 1] = i
      /\ \A j \in 1..Len(code[insertBlock]) :
            d[insertBlock][j] = code[insertBlock][j]
      /\ Len(code[insertBlock]) \in Nat
  BY <1>3, <1>4
<1>6. IsTerminator(i) => Terminated(d[insertBlock])
  BY <1>5 DEF Terminated
<1>7. ASSUME NEW b \in 1..Len(d), NEW j \in 1..Len(d[b])
      PROVE  RefersBelow(d[b][j], Len(d))
  <2>1. CASE b = insertBlock
    <3>1. CASE j = Len(code[insertBlock]) + 1
      BY <1>3, <1>5, <2>1, <3>1
    <3>2. CASE j \in 1..Len(code[insertBlock])
      <4>1. RefersBelow(code[b][j], Len(code))
        BY <1>1, <2>1, <3>2 DEF BlocksExist
      <4>2. d[b][j] = code[b][j]
        BY <1>5, <2>1, <3>2
      <4>3. QED
        BY <1>1, <1>3, <4>1, <4>2, RefersMore
    <3>3. QED
      BY <1>5, <2>1, <3>1, <3>2
  <2>2. CASE b \in 1..Len(code) /\ b # insertBlock
    <3>1. RefersBelow(code[b][j], Len(code))
      BY <1>3, <2>2 DEF BlocksExist
    <3>2. d[b][j] = code[b][j]
      BY <1>3, <2>2
    <3>3. QED
      BY <1>1, <1>3, <3>1, <3>2, RefersMore
  <2>3. CASE b \in Len(code) + 1..Len(code) + n
    BY <1>3, <2>3
  <2>4. QED
    BY <1>1, <1>3, <2>1, <2>2, <2>3
<1>8. QED
  BY <1>3, <1>6, <1>7

LEMMA EmitFacts ==
    ASSUME TypeOK, BlocksExist, Working, NEW i \in Instr, NEW n \in Nat,
           RefersBelow(i, Len(code) + n), code' = Emit(i, n)
    PROVE  /\ code' \in Seq(Seq(Instr))
           /\ Len(code') = Len(code) + n
           /\ BlocksExist'
           /\ \A b \in 1..Len(code) :
                 b # insertBlock => code'[b] = code[b]
           /\ IsTerminator(i) => Terminated(code'[insertBlock])
BY EmitValue DEF BlocksExist

-----------------------------------------------------------------------------
(* The stack of loops follows the call stack.                              *)

\* A stack without its top.
LEMMA PopFacts ==
    ASSUME NEW S, NEW s \in Seq(S), Len(s) > 0
    PROVE  /\ Pop(s) \in Seq(S)
           /\ Len(Pop(s)) = Len(s) - 1
           /\ \A i \in 1..Len(Pop(s)) : Pop(s)[i] = s[i]
<1>1. Len(s) - 1 \in Nat /\ \A i \in 1..Len(s) - 1 : s[i] \in S
  OBVIOUS
<1>2. QED
  BY <1>1 DEF Pop

\* A call or a continuation that is not a loop body leaves the stack alone.
LEMMA TracksPush ==
    ASSUME NEW F \in Seq(Frame), NEW W \in Seq(Nat), Tracks(F, W),
           NEW f \in Frame, f.kind # "while.body"
    PROVE  Tracks(Append(F, f), W)
<1>1. PICK at \in [1..Len(W) -> 1..Len(F)] :
        /\ \A j, k \in 1..Len(W) : j < k => at[j] < at[k]
        /\ \A i \in 1..Len(F) : F[i].kind = "while.body" =>
               \E k \in 1..Len(W) : at[k] = i
        /\ \A k \in 1..Len(W) : /\ F[at[k]].kind = "while.body"
                                /\ F[at[k]].end = W[k]
  BY DEF Tracks
<1>2. at \in [1..Len(W) -> 1..Len(Append(F, f))]
  OBVIOUS
<1>3. \A i \in 1..Len(Append(F, f)) : i \in 1..Len(F) \/ Append(F, f)[i] = f
  OBVIOUS
<1>4. \A i \in 1..Len(F) : Append(F, f)[i] = F[i]
  OBVIOUS
<1>5. \A i \in 1..Len(Append(F, f)) :
        Append(F, f)[i].kind = "while.body" => \E k \in 1..Len(W) : at[k] = i
  BY <1>1, <1>3, <1>4
<1>6. \A k \in 1..Len(W) : /\ Append(F, f)[at[k]].kind = "while.body"
                           /\ Append(F, f)[at[k]].end = W[k]
  BY <1>1, <1>4
<1>7. QED
  BY <1>1, <1>2, <1>5, <1>6 DEF Tracks

\* The end pushed together with a loop body is the new top.
LEMMA TracksPushLoop ==
    ASSUME NEW F \in Seq(Frame), NEW W \in Seq(Nat), Tracks(F, W),
           NEW f \in Frame, f.kind = "while.body"
    PROVE  Tracks(Append(F, f), Append(W, f.end))
<1> DEFINE G == Append(F, f)
           V == Append(W, f.end)
<1>1. PICK at \in [1..Len(W) -> 1..Len(F)] :
        /\ \A j, k \in 1..Len(W) : j < k => at[j] < at[k]
        /\ \A i \in 1..Len(F) : F[i].kind = "while.body" =>
               \E k \in 1..Len(W) : at[k] = i
        /\ \A k \in 1..Len(W) : /\ F[at[k]].kind = "while.body"
                                /\ F[at[k]].end = W[k]
  BY DEF Tracks
<1>2. /\ Len(F) \in Nat /\ Len(G) = Len(F) + 1 /\ G[Len(F) + 1] = f
      /\ \A i \in 1..Len(F) : G[i] = F[i]
  OBVIOUS
<1>3. /\ Len(W) \in Nat /\ Len(V) = Len(W) + 1 /\ V[Len(W) + 1] = f.end
      /\ \A k \in 1..Len(W) : V[k] = W[k]
  BY DEF Frame
<1> DEFINE bt == [k \in 1..Len(V) |-> IF k \in 1..Len(W) THEN at[k]
                                      ELSE Len(F) + 1]
<1> HIDE DEF G, V
<1>4. /\ bt \in [1..Len(V) -> 1..Len(G)]
      /\ \A k \in 1..Len(W) : bt[k] = at[k]
      /\ bt[Len(W) + 1] = Len(F) + 1
      /\ \A k \in 1..Len(W) : at[k] \in 1..Len(F)
  <2>1. \A k \in 1..Len(W) : at[k] \in 1..Len(F)
    BY <1>1
  <2>2. \A k \in 1..Len(W) : bt[k] = at[k]
    BY <1>3
  <2>3. bt[Len(W) + 1] = Len(F) + 1
    BY <1>3
  <2>4. \A k \in 1..Len(V) :
          (IF k \in 1..Len(W) THEN at[k] ELSE Len(F) + 1) \in 1..Len(G)
    BY <1>2, <2>1
  <2>5. bt \in [1..Len(V) -> 1..Len(G)]
    BY <2>4
  <2>6. QED
    BY <2>1, <2>2, <2>3, <2>5
<1> HIDE DEF bt
<1>5. ASSUME NEW j \in 1..Len(V), NEW k \in 1..Len(V), j < k
      PROVE  bt[j] < bt[k]
  <2>1. j \in 1..Len(W) /\ (k \in 1..Len(W) \/ k = Len(W) + 1)
    BY <1>3, <1>5
  <2>2. CASE k \in 1..Len(W)
    BY <1>1, <1>4, <1>5, <2>1, <2>2
  <2>3. CASE k = Len(W) + 1
    BY <1>2, <1>4, <2>1, <2>3
  <2>4. QED
    BY <2>1, <2>2, <2>3
<1>6. \A i \in 1..Len(G) : G[i].kind = "while.body" =>
        \E k \in 1..Len(V) : bt[k] = i
  <2> SUFFICES ASSUME NEW i \in 1..Len(G), G[i].kind = "while.body"
               PROVE  \E k \in 1..Len(V) : bt[k] = i
    OBVIOUS
  <2>0. i \in 1..Len(F) \/ i = Len(F) + 1
    BY <1>2
  <2>1. CASE i \in 1..Len(F)
    <3>1. PICK k \in 1..Len(W) : at[k] = i
      BY <1>1, <1>2, <2>1
    <3>2. QED
      BY <1>3, <1>4, <3>1
  <2>2. CASE i = Len(F) + 1
    <3>1. Len(W) + 1 \in 1..Len(V) /\ bt[Len(W) + 1] = i
      BY <1>3, <1>4, <2>2
    <3>2. QED
      BY <3>1
  <2>3. QED
    BY <2>0, <2>1, <2>2
<1>7. \A k \in 1..Len(V) : G[bt[k]].kind = "while.body" /\ G[bt[k]].end = V[k]
  <2> SUFFICES ASSUME NEW k \in 1..Len(V)
               PROVE  G[bt[k]].kind = "while.body" /\ G[bt[k]].end = V[k]
    OBVIOUS
  <2>1. CASE k \in 1..Len(W)
    <3>1. G[bt[k]] = F[at[k]] /\ V[k] = W[k]
      BY <1>2, <1>3, <1>4, <2>1
    <3>2. QED
      BY <1>1, <2>1, <3>1
  <2>2. CASE k = Len(W) + 1
    BY <1>2, <1>3, <1>4, <2>2
  <2>3. QED
    BY <1>3, <2>1, <2>2
<1>8. QED
  <2>1. Tracks(G, V)
    BY <1>4, <1>5, <1>6, <1>7 DEF Tracks
  <2>2. QED
    BY <2>1 DEF G, V

\* The return of a call that is not a loop body leaves the stack alone.
LEMMA TracksPop ==
    ASSUME NEW F \in Seq(Frame), NEW W \in Seq(Nat), Tracks(F, W),
           Len(F) > 0, F[Len(F)].kind # "while.body",
           NEW G, G = Pop(F)
    PROVE  Tracks(G, W)
<1>0. G \in Seq(Frame) /\ Len(G) = Len(F) - 1 /\ \A i \in 1..Len(G) : G[i] = F[i]
  BY PopFacts
<1> USE <1>0
<1>1. PICK at \in [1..Len(W) -> 1..Len(F)] :
        /\ \A j, k \in 1..Len(W) : j < k => at[j] < at[k]
        /\ \A i \in 1..Len(F) : F[i].kind = "while.body" =>
               \E k \in 1..Len(W) : at[k] = i
        /\ \A k \in 1..Len(W) : /\ F[at[k]].kind = "while.body"
                                /\ F[at[k]].end = W[k]
  BY DEF Tracks
<1>2. \A k \in 1..Len(W) : at[k] \in 1..Len(F) /\ at[k] # Len(F)
  BY <1>1
<1>3. \A k \in 1..Len(W) : at[k] \in 1..Len(G)
  <2>1. Len(F) \in Nat
    OBVIOUS
  <2>2. QED
    BY <1>2, <2>1
<1>4. at \in [1..Len(W) -> 1..Len(G)]
  BY <1>1, <1>3
<1>5. \A i \in 1..Len(G) : i \in 1..Len(F)
  OBVIOUS
<1>6. \A i \in 1..Len(G) : G[i].kind = "while.body" =>
        \E k \in 1..Len(W) : at[k] = i
  BY <1>1, <1>5
<1>7. \A k \in 1..Len(W) : /\ G[at[k]].kind = "while.body"
                           /\ G[at[k]].end = W[k]
  BY <1>1, <1>3
<1>8. QED
  BY <1>1, <1>4, <1>6, <1>7 DEF Tracks

\* The return of a loop body removes exactly its own end.
LEMMA TracksPopLoop ==
    ASSUME NEW F \in Seq(Frame), NEW W \in Seq(Nat), Tracks(F, W),
           Len(F) > 0, F[Len(F)].kind = "while.body",
           NEW G, G = Pop(F)
    PROVE  /\ Len(W) > 0 /\ W[Len(W)] = F[Len(F)].end
           /\ Tracks(G, Pop(W))
<1> DEFINE V == Pop(W)
<1>0. G \in Seq(Frame) /\ Len(G) = Len(F) - 1 /\ \A i \in 1..Len(G) : G[i] = F[i]
  BY PopFacts
<1> USE <1>0
<1>1. PICK at \in [1..Len(W) -> 1..Len(F)] :
        /\ \A j, k \in 1..Len(W) : j < k => at[j] < at[k]
        /\ \A i \in 1..Len(F) : F[i].kind = "while.body" =>
               \E k \in 1..Len(W) : at[k] = i
        /\ \A k \in 1..Len(W) : /\ F[at[k]].kind = "while.body"
                                /\ F[at[k]].end = W[k]
  BY DEF Tracks
<1>2. /\ Len(F) \in 1..Len(F) /\ Len(W) \in Nat
      /\ \A k \in 1..Len(W) : at[k] \in 1..Len(F)
  <2>1. Len(F) \in Nat /\ Len(W) \in Nat
    OBVIOUS
  <2>2. Len(F) \in 1..Len(F)
    BY <2>1
  <2>3. \A k \in 1..Len(W) : at[k] \in 1..Len(F)
    BY <1>1
  <2>4. QED
    BY <2>1, <2>2, <2>3
<1>3. PICK last \in 1..Len(W) : at[last] = Len(F)
  BY <1>1, <1>2
<1>4. last = Len(W)
  <2> SUFFICES ASSUME last < Len(W) PROVE FALSE
    BY <1>2
  <2>1. at[last] < at[Len(W)] /\ at[Len(W)] \in 1..Len(F)
    BY <1>1, <1>2
  <2>2. QED
    BY <1>2, <1>3, <2>1
<1>5. Len(W) > 0 /\ W[Len(W)] = F[Len(F)].end
  BY <1>1, <1>2, <1>3, <1>4
<1>6. Len(V) = Len(W) - 1 /\ \A k \in 1..Len(V) : V[k] = W[k]
  BY <1>2, <1>5, PopFacts
<1>7. \A k \in 1..Len(V) : at[k] \in 1..Len(G)
  <2> SUFFICES ASSUME NEW k \in 1..Len(V) PROVE at[k] \in 1..Len(G)
    OBVIOUS
  <2>1. k \in 1..Len(W) /\ k < Len(W) /\ Len(W) \in 1..Len(W)
    BY <1>2, <1>6
  <2>2. at[k] < at[Len(W)] /\ at[k] \in 1..Len(F)
    BY <1>1, <1>2, <2>1
  <2>3. QED
    BY <1>2, <1>3, <1>4, <2>2
<1> DEFINE bt == [k \in 1..Len(V) |-> at[k]]
<1> HIDE DEF V
<1>8. bt \in [1..Len(V) -> 1..Len(G)]
  BY <1>7
<1>9. \A k \in 1..Len(V) : k \in 1..Len(W) /\ bt[k] = at[k]
  BY <1>2, <1>6
<1> HIDE DEF bt
<1>10. \A j, k \in 1..Len(V) : j < k => bt[j] < bt[k]
  BY <1>1, <1>9
<1>11. ASSUME NEW i \in 1..Len(G), G[i].kind = "while.body"
       PROVE  \E k \in 1..Len(V) : bt[k] = i
  <2>1. i \in 1..Len(F) /\ F[i].kind = "while.body" /\ i # Len(F)
    BY <1>2, <1>11
  <2>2. PICK k \in 1..Len(W) : at[k] = i
    BY <1>1, <2>1
  <2>3. k # Len(W)
    BY <1>3, <1>4, <2>1, <2>2
  <2>4. k \in 1..Len(V)
    <3>1. k \in Nat /\ 1 <= k /\ k <= Len(W) /\ k # Len(W)
      BY <1>2, <2>3
    <3>2. QED
      BY <1>2, <1>6, <3>1
  <2>5. QED
    BY <1>9, <2>2, <2>4
<1>12. ASSUME NEW k \in 1..Len(V)
       PROVE  G[bt[k]].kind = "while.body" /\ G[bt[k]].end = V[k]
  <2>1. G[bt[k]] = F[at[k]] /\ V[k] = W[k]
    BY <1>6, <1>7, <1>9
  <2>2. QED
    BY <1>1, <1>9, <2>1
<1>13. Tracks(G, V)
  BY <1>8, <1>10, <1>11, <1>12 DEF Tracks
<1>14. QED
  BY <1>5, <1>13 DEF V

-----------------------------------------------------------------------------
(* Calls, continuations and returns.                                       *)

\* Facts of a working state that every action starts from.
LEMMA WorkingFacts ==
    ASSUME TypeOK, Working
    PROVE  /\ frames \in Seq(Frame) /\ Len(frames) \in Nat /\ Len(frames) > 0
           /\ Top \in Frame
           /\ code \in Seq(Seq(Instr)) /\ Len(code) \in Nat
           /\ insertBlock \in inserted /\ inserted \subseteq 1..Len(code)
<1>1. /\ frames \in Seq(Frame) /\ frames # <<>> /\ code \in Seq(Seq(Instr))
      /\ insertBlock \in inserted /\ inserted \subseteq 1..Len(code)
  BY DEF TypeOK, Working
<1>2. Len(frames) \in Nat /\ Len(frames) > 0 /\ Len(code) \in Nat
  BY <1>1
<1>3. QED
  BY <1>1, <1>2 DEF Top

\* A local variable keeps its meaning while blocks are added.
LEMMA HoldsOn ==
    ASSUME NEW f, NEW I, NEW J, I \subseteq J,
           NEW m \in Nat, NEW n \in Nat, m <= n, Holds(f, I, m)
    PROVE  Holds(f, J, n)
BY DEF Holds, None

Grows ==
    /\ inserted \subseteq inserted'
    /\ Len(code) \in Nat /\ Len(code') \in Nat /\ Len(code) <= Len(code')

\* The blocks that are neither linked nor known to F are in f.
Keeps(F, f) ==
    \A b \in 1..Len(code') :
        \/ b \in inserted' \/ b \in {f.blk, f.end}
        \/ \E i \in 1..Len(F) : b \in {F[i].blk, F[i].end}

\* A frame f is put on the part F of the call stack that stays.
LEMMA PushFrame ==
    ASSUME TypeOK, Working, Shape, LocalsHold, Grows,
           NEW F \in Seq(Frame), Len(F) > 0, Len(F) <= Len(frames),
           \A i \in 1..Len(F) : F[i] = frames[i],
           NEW f \in Frame, f.kind # "func",
           F[Len(F)].kind \in IF f.kind \in SubExpressions THEN ExprFrames
                              ELSE StmtFrames,
           Holds(f, inserted', Len(code')), Keeps(F, f), frames' = Append(F, f)
    PROVE  /\ Shape' /\ LocalsHold' /\ NoBlockLost'
           /\ frames' \in Seq(Frame) /\ frames' # <<>>
           /\ frames'[1].kind = "func" /\ Top' = f
<1>1. /\ Len(F) \in Nat /\ Len(frames) \in Nat
      /\ frames' \in Seq(Frame) /\ Len(frames') = Len(F) + 1
      /\ frames'[Len(F) + 1] = f
      /\ \A i \in 1..Len(F) : frames'[i] = F[i]
  BY DEF TypeOK
<1>2. \A i \in 1..Len(F) : i \in 1..Len(frames) /\ frames'[i] = frames[i]
  BY <1>1
<1>3. \A i \in 1..Len(frames') : i \in 1..Len(F) \/ i = Len(F) + 1
  BY <1>1
<1>4. Shape'
  <2> SUFFICES ASSUME NEW i \in 1..Len(frames')
               PROVE  /\ i = 1 <=> frames'[i].kind = "func"
                      /\ i > 1 => frames'[i - 1].kind \in
                            IF frames'[i].kind \in SubExpressions
                            THEN ExprFrames ELSE StmtFrames
    BY DEF Shape
  <2>1. CASE i \in 1..Len(F)
    <3>1. i > 1 => i - 1 \in 1..Len(F)
      BY <1>1, <2>1
    <3>2. QED
      BY <1>2, <2>1, <3>1 DEF Shape
  <2>2. CASE i = Len(F) + 1
    BY <1>1, <2>2
  <2>3. QED
    BY <1>3, <2>1, <2>2
<1>5. LocalsHold'
  <2> SUFFICES ASSUME NEW i \in 1..Len(frames')
               PROVE  Holds(frames'[i], inserted', Len(code'))
    BY DEF LocalsHold
  <2>1. CASE i \in 1..Len(F)
    <3>1. Holds(frames[i], inserted, Len(code)) /\ frames'[i] = frames[i]
      BY <1>2, <2>1 DEF LocalsHold
    <3>2. QED
      BY <3>1, HoldsOn DEF Grows
  <2>2. CASE i = Len(F) + 1
    BY <1>1, <2>2
  <2>3. QED
    BY <1>3, <2>1, <2>2
<1>6. NoBlockLost'
  <2> SUFFICES ASSUME NEW b \in 1..Len(code'), b \notin inserted'
               PROVE  \E i \in 1..Len(frames') :
                          b \in {frames'[i].blk, frames'[i].end}
    BY DEF NoBlockLost
  <2>1. CASE b \in {f.blk, f.end}
    <3>1. Len(F) + 1 \in 1..Len(frames')
      BY <1>1
    <3>2. QED
      BY <1>1, <2>1, <3>1
  <2>2. CASE b \notin {f.blk, f.end}
    <3>1. PICK i \in 1..Len(F) : b \in {F[i].blk, F[i].end}
      BY <2>2 DEF Keeps
    <3>2. i \in 1..Len(frames')
      BY <1>1
    <3>3. QED
      BY <1>1, <3>1, <3>2
  <2>3. QED
    BY <2>1, <2>2
<1>7. 1 \in 1..Len(F) /\ frames'[1].kind = "func" /\ frames' # <<>>
  BY <1>1, <1>2 DEF Shape
<1>8. Top' = f
  BY <1>1 DEF Top
<1>9. QED
  BY <1>1, <1>4, <1>5, <1>6, <1>7, <1>8

\* A call returns: its frame is dropped, the caller's kind fits the frame's.
LEMMA PopFrame ==
    ASSUME TypeOK, Working, Shape, LocalsHold, Grows, Top.kind # "func",
           frames' = Pop(frames),
           \A b \in 1..Len(code') :
               \/ b \in inserted'
               \/ \E i \in 1..Len(Pop(frames)) :
                     b \in {Pop(frames)[i].blk, Pop(frames)[i].end}
    PROVE  /\ Shape' /\ LocalsHold' /\ NoBlockLost'
           /\ frames' \in Seq(Frame) /\ frames' # <<>>
           /\ frames'[1].kind = "func"
           /\ Top'.kind \in IF Top.kind \in SubExpressions THEN ExprFrames
                            ELSE StmtFrames
<1>1. /\ Len(frames) \in Nat /\ Len(frames) > 0
      /\ frames' \in Seq(Frame) /\ Len(frames') = Len(frames) - 1
      /\ \A i \in 1..Len(frames') : frames'[i] = frames[i]
  BY WorkingFacts, PopFacts
<1>2. Len(frames) # 1
  BY <1>1 DEF Shape, Top
<1>3. \A i \in 1..Len(frames') : i \in 1..Len(frames)
  BY <1>1
<1>4. Shape'
  <2> SUFFICES ASSUME NEW i \in 1..Len(frames')
               PROVE  /\ i = 1 <=> frames'[i].kind = "func"
                      /\ i > 1 => frames'[i - 1].kind \in
                            IF frames'[i].kind \in SubExpressions
                            THEN ExprFrames ELSE StmtFrames
    BY DEF Shape
  <2>1. i > 1 => i - 1 \in 1..Len(frames')
    BY <1>1
  <2>2. QED
    BY <1>1, <1>3, <2>1 DEF Shape
<1>5. LocalsHold'
  <2> SUFFICES ASSUME NEW i \in 1..Len(frames')
               PROVE  Holds(frames'[i], inserted', Len(code'))
    BY DEF LocalsHold
  <2>1. Holds(frames[i], inserted, Len(code)) /\ frames'[i] = frames[i]
    BY <1>1, <1>3 DEF LocalsHold
  <2>2. QED
    BY <2>1, HoldsOn DEF Grows
<1>6. NoBlockLost'
  BY <1>1 DEF NoBlockLost
<1>7. 1 \in 1..Len(frames') /\ frames' # <<>> /\ frames'[1].kind = "func"
  BY <1>1, <1>2 DEF Shape
<1>8. /\ Len(frames') \in 1..Len(frames') /\ Len(frames) \in 1..Len(frames)
      /\ Len(frames) > 1 /\ Top' = frames[Len(frames) - 1]
  BY <1>1, <1>2 DEF Top
<1>9. Top'.kind \in IF Top.kind \in SubExpressions THEN ExprFrames
                    ELSE StmtFrames
  BY <1>8 DEF Shape, Top
<1>10. QED
  BY <1>1, <1>4, <1>5, <1>6, <1>7, <1>9

-----------------------------------------------------------------------------
(* What an action does to the code and to the call stack, one lemma for    *)
(* each way of doing it.                                                   *)

\* The code half of the invariant, after the step.
CodeOK ==
    /\ code \in Seq(Seq(Instr)) /\ inserted \subseteq 1..Len(code)
    /\ insertBlock \in inserted /\ BlocksExist /\ OthersTerminated

\* The frame half of the invariant, after the step.
FramesOK ==
    /\ frames \in Seq(Frame) /\ frames # <<>> /\ frames[1].kind = "func"
    /\ Shape /\ LocalsHold /\ NoBlockLost /\ whileContext \in Seq(Nat)
    /\ Tracks(frames, whileContext)

\* An instruction is appended and the insertion point stays in its block.
LEMMA EmitStay ==
    ASSUME IInv, Working, Working', NEW i \in Instr,
           RefersBelow(i, Len(code)), code' = Emit(i, 0),
           UNCHANGED <<inserted, insertBlock>>
    PROVE  CodeOK' /\ Grows /\ Len(code') = Len(code)
<1>1. TypeOK /\ BlocksExist /\ OthersTerminated
  BY DEF IInv, Working
<1>2. /\ code \in Seq(Seq(Instr)) /\ Len(code) \in Nat
      /\ insertBlock \in inserted /\ inserted \subseteq 1..Len(code)
  BY <1>1, WorkingFacts
<1>3. /\ code' \in Seq(Seq(Instr)) /\ Len(code') = Len(code) + 0
      /\ BlocksExist'
      /\ \A b \in 1..Len(code) : b # insertBlock => code'[b] = code[b]
  BY <1>1, <1>2, EmitFacts
<1>4. OthersTerminated'
  BY <1>1, <1>2, <1>3 DEF OthersTerminated
<1>5. QED
  BY <1>2, <1>3, <1>4 DEF CodeOK, Grows

\* A terminator is appended and the insertion point moves to another block.
LEMMA EmitMove ==
    ASSUME IInv, Working, Working', NEW i \in Instr, NEW n \in Nat,
           IsTerminator(i), RefersBelow(i, Len(code) + n),
           code' = Emit(i, n), NEW b \in 1..Len(code) + n, MoveTo(b)
    PROVE  /\ CodeOK' /\ Grows /\ Len(code') = Len(code) + n
           /\ inserted' = inserted \cup {b}
<1>1. TypeOK /\ BlocksExist /\ OthersTerminated
  BY DEF IInv, Working
<1>2. /\ code \in Seq(Seq(Instr)) /\ Len(code) \in Nat
      /\ insertBlock \in inserted /\ inserted \subseteq 1..Len(code)
      /\ inserted' = inserted \cup {b} /\ insertBlock' = b
  BY <1>1, WorkingFacts DEF MoveTo
<1>3. /\ code' \in Seq(Seq(Instr)) /\ Len(code') = Len(code) + n
      /\ BlocksExist' /\ Terminated(code'[insertBlock])
      /\ \A c \in 1..Len(code) : c # insertBlock => code'[c] = code[c]
  BY <1>1, EmitFacts
<1>4. OthersTerminated'
  <2> SUFFICES ASSUME NEW c \in inserted', c # b
               PROVE  Terminated(code'[c])
    BY <1>2 DEF OthersTerminated
  <2>1. CASE c = insertBlock
    BY <1>3, <2>1
  <2>2. CASE c # insertBlock
    <3>1. c \in inserted /\ c \in 1..Len(code)
      BY <1>2
    <3>2. Terminated(code[c]) /\ code'[c] = code[c]
      BY <1>1, <1>3, <2>2, <3>1 DEF OthersTerminated
    <3>3. QED
      BY <3>2
  <2>3. QED
    BY <2>1, <2>2
<1>5. inserted' \subseteq 1..Len(code') /\ Len(code) <= Len(code')
  BY <1>2, <1>3
<1>6. QED
  BY <1>2, <1>3, <1>4, <1>5 DEF CodeOK, Grows

\* What lies under the top frame, if that is not the function itself.
LEMMA UnderTop ==
    ASSUME IInv, Working, Top.kind # "func"
    PROVE  /\ Pop(frames) \in Seq(Frame)
           /\ Len(Pop(frames)) > 0 /\ Len(Pop(frames)) <= Len(frames)
           /\ \A i \in 1..Len(Pop(frames)) : Pop(frames)[i] = frames[i]
           /\ Pop(frames)[Len(Pop(frames))].kind \in
                 IF Top.kind \in SubExpressions THEN ExprFrames ELSE StmtFrames
           /\ Holds(Top, inserted, Len(code))
           /\ \A b \in 1..Len(code) :
                 \/ b \in inserted \/ b \in {Top.blk, Top.end}
                 \/ \E i \in 1..Len(Pop(frames)) :
                       b \in {Pop(frames)[i].blk, Pop(frames)[i].end}
<1>1. /\ frames \in Seq(Frame) /\ Len(frames) \in Nat /\ Len(frames) > 0
      /\ Shape /\ LocalsHold /\ NoBlockLost
  BY WorkingFacts DEF IInv
<1>2. /\ Pop(frames) \in Seq(Frame) /\ Len(Pop(frames)) = Len(frames) - 1
      /\ \A i \in 1..Len(Pop(frames)) : Pop(frames)[i] = frames[i]
  BY <1>1, PopFacts
<1>3. Len(frames) \in 1..Len(frames) /\ Len(frames) # 1
  BY <1>1 DEF Shape, Top
<1>4. Len(frames) - 1 \in 1..Len(Pop(frames))
  BY <1>1, <1>2, <1>3
<1>5. frames[Len(frames) - 1].kind \in
         IF Top.kind \in SubExpressions THEN ExprFrames ELSE StmtFrames
  BY <1>1, <1>3 DEF Shape, Top
<1>6. Holds(Top, inserted, Len(code))
  BY <1>1, <1>3 DEF LocalsHold, Top
<1>7. ASSUME NEW b \in 1..Len(code), b \notin inserted,
             b \notin {Top.blk, Top.end}
      PROVE  \E i \in 1..Len(Pop(frames)) :
                b \in {Pop(frames)[i].blk, Pop(frames)[i].end}
  <2>1. PICK i \in 1..Len(frames) : b \in {frames[i].blk, frames[i].end}
    BY <1>1, <1>7 DEF NoBlockLost
  <2>2. i # Len(frames)
    BY <1>7, <2>1 DEF Top
  <2>3. i \in 1..Len(Pop(frames))
    BY <1>1, <1>2, <2>2
  <2>4. QED
    BY <1>2, <2>1, <2>3
<1>8. QED
  BY <1>1, <1>2, <1>3, <1>4, <1>5, <1>6, <1>7

\* The call stack stays.
LEMMA SameStep ==
    ASSUME IInv, Working, Grows, Len(code') = Len(code),
           UNCHANGED <<frames, whileContext>>
    PROVE  FramesOK' /\ Top' = Top
<1>1. /\ frames \in Seq(Frame) /\ frames # <<>> /\ frames[1].kind = "func"
      /\ Shape /\ LocalsHold /\ NoBlockLost /\ whileContext \in Seq(Nat)
      /\ Tracks(frames, whileContext)
  BY DEF IInv, TypeOK, Working
<1>2. Shape' /\ Top' = Top
  BY <1>1 DEF Shape, Top
<1>3. LocalsHold'
  BY <1>1, HoldsOn DEF LocalsHold, Grows
<1>4. NoBlockLost'
  BY <1>1 DEF NoBlockLost, Grows
<1>5. QED
  BY <1>1, <1>2, <1>3, <1>4 DEF FramesOK

\* A handler calls codegen() for a child.
LEMMA CallStep ==
    ASSUME IInv, Working, Grows, NEW f \in Frame, Call(f),
           f.kind \notin {"func", "while.body"},
           Top.kind \in IF f.kind \in SubExpressions THEN ExprFrames
                        ELSE StmtFrames,
           Holds(f, inserted', Len(code')),
           \A b \in Len(code) + 1..Len(code') :
               b \in inserted' \cup {f.blk, f.end},
           whileContext' = whileContext
    PROVE  FramesOK' /\ Top' = f
<1>1. /\ TypeOK /\ Shape /\ LocalsHold /\ NoBlockLost
      /\ Tracks(frames, whileContext) /\ whileContext \in Seq(Nat)
      /\ frames \in Seq(Frame) /\ Len(frames) > 0 /\ Len(frames) \in Nat
      /\ frames' = Append(frames, f)
  BY WorkingFacts DEF IInv, TypeOK, Call
<1>2. Keeps(frames, f)
  <2> SUFFICES ASSUME NEW b \in 1..Len(code'), b \notin inserted',
                      b \notin {f.blk, f.end}
               PROVE  \E i \in 1..Len(frames) :
                         b \in {frames[i].blk, frames[i].end}
    BY DEF Keeps
  <2>1. b \in 1..Len(code) /\ b \notin inserted
    BY DEF Grows
  <2>2. QED
    BY <1>1, <2>1 DEF NoBlockLost
<1>3. frames[Len(frames)].kind \in IF f.kind \in SubExpressions
                                   THEN ExprFrames ELSE StmtFrames
  BY DEF Top
<1>4. /\ Shape' /\ LocalsHold' /\ NoBlockLost'
      /\ frames' \in Seq(Frame) /\ frames' # <<>>
      /\ frames'[1].kind = "func" /\ Top' = f
  <2> DEFINE F == frames
  <2>1. /\ F \in Seq(Frame) /\ Len(F) > 0 /\ Len(F) <= Len(frames)
        /\ \A i \in 1..Len(F) : F[i] = frames[i]
        /\ F[Len(F)].kind \in IF f.kind \in SubExpressions THEN ExprFrames
                              ELSE StmtFrames
        /\ Keeps(F, f) /\ frames' = Append(F, f)
    BY <1>1, <1>2, <1>3
  <2> HIDE DEF F
  <2>2. QED
    BY <1>1, <2>1, PushFrame
<1>5. Tracks(frames', whileContext')
  BY <1>1, TracksPush
<1>6. QED
  BY <1>1, <1>4, <1>5 DEF FramesOK

\* A handler goes on in the same call after a child, possibly into a loop body,
\* whose end it then pushes.
LEMMA ResumeStep ==
    ASSUME IInv, Working, Grows, NEW f \in Frame, Resume(f),
           f.kind # "func", Top.kind \notin {"func", "while.body"},
           f.kind \in SubExpressions <=> Top.kind \in SubExpressions,
           Holds(f, inserted', Len(code')),
           Top.blk \in inserted' \cup {None, f.blk, f.end},
           Top.end \in inserted' \cup {None, f.blk, f.end},
           \A b \in Len(code) + 1..Len(code') :
               b \in inserted' \cup {f.blk, f.end},
           whileContext' = IF f.kind = "while.body"
                           THEN Append(whileContext, f.end) ELSE whileContext
    PROVE  FramesOK' /\ Top' = f
<1> DEFINE F == Pop(frames)
<1>1. /\ TypeOK /\ Shape /\ LocalsHold
      /\ Tracks(frames, whileContext) /\ whileContext \in Seq(Nat)
      /\ frames \in Seq(Frame) /\ Len(frames) > 0
      /\ frames' = Append(F, f)
  BY WorkingFacts DEF IInv, TypeOK, Resume
<1>2. /\ F \in Seq(Frame) /\ Len(F) > 0 /\ Len(F) <= Len(frames)
      /\ \A i \in 1..Len(F) : F[i] = frames[i]
      /\ F[Len(F)].kind \in IF f.kind \in SubExpressions THEN ExprFrames
                            ELSE StmtFrames
      /\ \A b \in 1..Len(code) :
            \/ b \in inserted \/ b \in {Top.blk, Top.end}
            \/ \E i \in 1..Len(F) : b \in {F[i].blk, F[i].end}
  BY UnderTop
<1>3. Tracks(F, whileContext)
  BY <1>1, TracksPop DEF Top
<1> HIDE DEF F
<1>4. Keeps(F, f)
  <2> SUFFICES ASSUME NEW b \in 1..Len(code'), b \notin inserted',
                      b \notin {f.blk, f.end}
               PROVE  \E i \in 1..Len(F) : b \in {F[i].blk, F[i].end}
    BY DEF Keeps
  <2>1. b \in 1..Len(code) /\ b \notin inserted /\ b # None
    BY DEF Grows, None
  <2>2. QED
    BY <1>2, <2>1
<1>5. /\ Shape' /\ LocalsHold' /\ NoBlockLost'
      /\ frames' \in Seq(Frame) /\ frames' # <<>>
      /\ frames'[1].kind = "func" /\ Top' = f
  BY <1>1, <1>2, <1>4, PushFrame
<1>6. whileContext' \in Seq(Nat)
  <2>1. f.end \in Nat
    BY DEF Frame
  <2>2. Append(whileContext, f.end) \in Seq(Nat)
    BY <1>1, <2>1
  <2>3. QED
    BY <1>1, <2>2
<1>7. Tracks(frames', whileContext')
  BY <1>1, <1>2, <1>3, TracksPush, TracksPushLoop
<1>8. QED
  BY <1>5, <1>6, <1>7 DEF FramesOK

\* A call returns, and a loop pops its end.
LEMMA ReturnStep ==
    ASSUME IInv, Working, Grows, Len(code') = Len(code), Return,
           Top.kind # "func",
           Top.blk \in inserted' \cup {None}, Top.end \in inserted' \cup {None},
           whileContext' = IF Top.kind = "while.body" THEN Pop(whileContext)
                           ELSE whileContext
    PROVE  /\ FramesOK'
           /\ Top'.kind \in IF Top.kind \in SubExpressions THEN ExprFrames
                            ELSE StmtFrames
<1> DEFINE F == Pop(frames)
<1>1. /\ TypeOK /\ Shape /\ LocalsHold
      /\ Tracks(frames, whileContext) /\ whileContext \in Seq(Nat)
      /\ frames \in Seq(Frame) /\ Len(frames) > 0
      /\ frames' = F
  BY WorkingFacts DEF IInv, TypeOK, Return
<1>2. \A b \in 1..Len(code') :
         b \in inserted' \/ \E i \in 1..Len(F) : b \in {F[i].blk, F[i].end}
  <2> SUFFICES ASSUME NEW b \in 1..Len(code'), b \notin inserted'
               PROVE  \E i \in 1..Len(F) : b \in {F[i].blk, F[i].end}
    OBVIOUS
  <2>1. b \in 1..Len(code) /\ b \notin inserted /\ b # None
    BY DEF Grows, None
  <2>2. QED
    BY <2>1, UnderTop
<1>3. /\ Shape' /\ LocalsHold' /\ NoBlockLost'
      /\ frames' \in Seq(Frame) /\ frames' # <<>>
      /\ frames'[1].kind = "func"
      /\ Top'.kind \in IF Top.kind \in SubExpressions THEN ExprFrames
                       ELSE StmtFrames
  BY <1>1, <1>2, PopFrame
<1>4. whileContext' \in Seq(Nat) /\ Tracks(frames', whileContext')
  <2>1. CASE Top.kind = "while.body"
    BY <1>1, <2>1, TracksPopLoop, PopFacts DEF Top
  <2>2. CASE Top.kind # "while.body"
    BY <1>1, <2>2, TracksPop DEF Top
  <2>3. QED
    BY <2>1, <2>2
<1>5. QED
  BY <1>3, <1>4 DEF FramesOK

\* The two halves and the control variables make up the invariant.
LEMMA Assemble ==
    ASSUME IInv, CodeOK', FramesOK', mode' \in {"stmt", "expr", "value"},
           Top'.kind \in IF mode' = "stmt" THEN StmtFrames ELSE ExprFrames,
           UNCHANGED <<kind, warnings>>,
           trail' \in Seq(AllConstructs \cup {"else", "end"})
    PROVE  IInv'
<1>1. kind \in {"value", "void", "main"} /\ warnings \in 0..MaxWarnings + 1
  BY DEF IInv, TypeOK
<1>2. TypeOK'
  BY <1>1 DEF TypeOK, CodeOK, FramesOK
<1>3. QED
  BY <1>2 DEF IInv, CodeOK, FramesOK

LEMMA TrailTypes ==
    ASSUME IInv
    PROVE  /\ trail \in Seq(AllConstructs \cup {"else", "end"})
           /\ \A c : Enter(c) =>
                 trail' \in Seq(AllConstructs \cup {"else", "end"})
           /\ \A k, e : (e \in {"else", "end"} /\ Leave(k, e)) =>
                 trail' \in Seq(AllConstructs \cup {"else", "end"})
<1>1. trail \in Seq(AllConstructs \cup {"else", "end"})
  BY DEF IInv, TypeOK
<1>2. \A c : Enter(c) => trail' \in Seq(AllConstructs \cup {"else", "end"})
  BY <1>1, CodegenAssumption DEF Enter
<1>3. \A k, e : (e \in {"else", "end"} /\ Leave(k, e)) =>
         trail' \in Seq(AllConstructs \cup {"else", "end"})
  BY <1>1 DEF Leave
<1>4. QED
  BY <1>1, <1>2, <1>3

-----------------------------------------------------------------------------
(* Statements.                                                             *)

\* Entering a node that generates nothing itself.
LEMMA EvaluateStep ==
    ASSUME IInv, NEW c, NEW k \in {"expr", "return", "if.cond", "ifelse.cond"},
           Evaluate(c, k)
    PROVE  IInv'
<1>1. /\ Working /\ Working' /\ Top.kind \in StmtFrames
      /\ UNCHANGED <<kind, code, inserted, insertBlock, whileContext, warnings>>
      /\ Call(Plainly(k)) /\ mode' = "expr" /\ Enter(c)
  BY DEF Evaluate, Working, IInv, TypeOK
<1>2. /\ TypeOK /\ BlocksExist /\ OthersTerminated /\ Len(code) \in Nat
      /\ code \in Seq(Seq(Instr)) /\ insertBlock \in inserted
      /\ inserted \subseteq 1..Len(code)
  BY <1>1, WorkingFacts DEF IInv, Working
<1>3. CodeOK' /\ Grows
  BY <1>1, <1>2 DEF CodeOK, Grows, BlocksExist, OthersTerminated
<1>4. /\ Plainly(k) \in Frame /\ Plainly(k).kind = k
      /\ Holds(Plainly(k), inserted', Len(code'))
  BY <1>1, <1>2 DEF Plainly, Holding, Frame, ExprFrames, Holds, None, HoldsEnd,
                    HoldsInserted
<1>5. FramesOK' /\ Top' = Plainly(k)
  <2>1. /\ Plainly(k).kind \notin {"func", "while.body"}
        /\ Plainly(k).kind \notin SubExpressions
    BY <1>4 DEF SubExpressions
  <2>2. \A b \in Len(code) + 1..Len(code') : FALSE
    BY <1>1, <1>2
  <2>3. QED
    BY <1>1, <1>3, <1>4, <2>1, <2>2, CallStep
<1>6. k \in ExprFrames
  BY DEF ExprFrames
<1>7. QED
  BY <1>1, <1>3, <1>4, <1>5, <1>6, TrailTypes, Assemble

\* An instruction in the middle of a body.
LEMMA InPlaceStep ==
    ASSUME IInv, Working, mode' \in {"stmt", "value"}, NEW i \in Instr,
           RefersBelow(i, Len(code)), code' = Emit(i, 0),
           UNCHANGED <<kind, frames, inserted, insertBlock, whileContext,
                       warnings>>,
           mode' = "stmt" <=> mode = "stmt",
           trail' \in Seq(AllConstructs \cup {"else", "end"})
    PROVE  IInv'
<1>1. Working' /\ CodeOK' /\ Grows /\ Len(code') = Len(code)
  BY EmitStay DEF Working
<1>2. FramesOK' /\ Top' = Top
  BY <1>1, SameStep
<1>3. Top.kind \in IF mode = "stmt" THEN StmtFrames ELSE ExprFrames
  BY DEF IInv, TypeOK, Working
<1>4. QED
  BY <1>1, <1>2, <1>3, Assemble

LEMMA ReturnVoidStep == IInv /\ ReturnVoid => IInv'
<1> SUFFICES ASSUME IInv, ReturnVoid PROVE IInv'
  OBVIOUS
<1>1. Ret \in Instr /\ RefersBelow(Ret, Len(code))
  BY InstrTypes DEF Ret, RefersBelow
<1>2. QED
  BY <1>1, InPlaceStep, TrailTypes DEF ReturnVoid, Working

\* The target of a break exists, because a loop is open.
LEMMA BreakStmtStep == IInv /\ BreakStmt => IInv'
<1> SUFFICES ASSUME IInv, BreakStmt PROVE IInv'
  OBVIOUS
<1> DEFINE e == whileContext[Len(whileContext)]
<1>1. /\ Working /\ Tracks(frames, whileContext) /\ LocalsHold
      /\ whileContext \in Seq(Nat) /\ Len(code) \in Nat /\ frames \in Seq(Frame)
  BY WorkingFacts DEF IInv, TypeOK, BreakStmt, Working
<1>2. e \in 1..Len(code)
  <2>1. PICK i \in 1..Len(frames) : frames[i].kind = "while.body"
    BY <1>1 DEF BreakStmt
  <2>2. PICK at \in [1..Len(whileContext) -> 1..Len(frames)] :
          /\ \A j \in 1..Len(frames) : frames[j].kind = "while.body" =>
                \E k \in 1..Len(whileContext) : at[k] = j
          /\ \A k \in 1..Len(whileContext) :
                /\ frames[at[k]].kind = "while.body"
                /\ frames[at[k]].end = whileContext[k]
    BY <1>1 DEF Tracks
  <2>3. Len(whileContext) \in 1..Len(whileContext)
    BY <1>1, <2>1, <2>2
  <2>4. PICK j \in 1..Len(frames) :
          frames[j].kind = "while.body" /\ frames[j].end = e
    BY <2>2, <2>3
  <2>5. QED
    BY <1>1, <2>4 DEF LocalsHold, Holds, HoldsEnd
<1> HIDE DEF e
<1>3. Br(e) \in Instr /\ RefersBelow(Br(e), Len(code))
  BY <1>1, <1>2, InstrTypes DEF Br, RefersBelow
<1>4. code' = Emit(Br(e), 0)
  BY DEF BreakStmt, e
<1>5. QED
  BY <1>1, <1>3, <1>4, InPlaceStep, TrailTypes DEF BreakStmt

\* The alloca in front of the entry block shifts its instructions.
LEMMA VarDeclStep == IInv /\ VarDecl => IInv'
<1> SUFFICES ASSUME IInv, VarDecl PROVE IInv'
  OBVIOUS
<1>1. /\ Working /\ Working' /\ BlocksExist /\ OthersTerminated
      /\ code \in Seq(Seq(Instr)) /\ Len(code) \in Nat
      /\ insertBlock \in inserted /\ inserted \subseteq 1..Len(code)
      /\ UNCHANGED <<mode, kind, frames, inserted, insertBlock, whileContext,
                     warnings>>
      /\ code' = [code EXCEPT ![1] = <<Alloca>> \o @]
  BY WorkingFacts DEF IInv, VarDecl, Working
<1>2. 1 \in 1..Len(code) /\ code[1] \in Seq(Instr)
  BY <1>1
<1> DEFINE s == code[1]
           t == <<Alloca>> \o s
<1>3. /\ Len(s) \in Nat /\ t \in Seq(Instr) /\ Len(t) = Len(s) + 1
      /\ t[1] = Alloca /\ \A j \in 2..Len(t) : t[j] = s[j - 1]
  BY <1>2, InstrTypes
<1>4. /\ code' \in Seq(Seq(Instr)) /\ Len(code') = Len(code) /\ code'[1] = t
      /\ \A b \in 1..Len(code) : b # 1 => code'[b] = code[b]
  BY <1>1, <1>2, <1>3
<1> HIDE DEF t
<1>5. BlocksExist'
  <2> SUFFICES ASSUME NEW b \in 1..Len(code'), NEW j \in 1..Len(code'[b])
               PROVE  RefersBelow(code'[b][j], Len(code'))
    BY DEF BlocksExist
  <2>1. CASE b # 1
    BY <1>1, <1>4, <2>1 DEF BlocksExist
  <2>2. CASE b = 1 /\ j = 1
    BY <1>3, <1>4, <2>2 DEF RefersBelow, Alloca
  <2>3. CASE b = 1 /\ j # 1
    <3>1. j \in 2..Len(t) /\ j - 1 \in 1..Len(s) /\ code'[b][j] = s[j - 1]
      BY <1>3, <1>4, <2>3
    <3>2. QED
      BY <1>1, <1>2, <1>4, <3>1 DEF BlocksExist
  <2>4. QED
    BY <2>1, <2>2, <2>3
<1>6. OthersTerminated'
  <2>1. Terminated(s) => Terminated(t)
    <3> SUFFICES ASSUME Terminated(s) PROVE Terminated(t)
      OBVIOUS
    <3>1. Len(s) > 0 /\ IsTerminator(s[Len(s)])
      BY <1>2 DEF Terminated
    <3>2. Len(t) \in 2..Len(t) /\ t[Len(t)] = s[Len(s)]
      BY <1>3, <3>1
    <3>3. QED
      BY <1>3, <3>1, <3>2 DEF Terminated
  <2>2. \A b \in inserted : Terminated(code[b]) => Terminated(code'[b])
    BY <1>1, <1>4, <2>1
  <2>3. QED
    BY <1>1, <2>2 DEF OthersTerminated
<1>7. CodeOK' /\ Grows
  BY <1>1, <1>4, <1>5, <1>6 DEF CodeOK, Grows
<1>8. FramesOK' /\ Top' = Top
  BY <1>1, <1>4, <1>7, SameStep
<1>9. mode = "stmt" /\ Top.kind \in StmtFrames /\ Enter("decl")
  BY DEF IInv, TypeOK, VarDecl
<1>10. QED
  BY <1>1, <1>7, <1>8, <1>9, TrailTypes, Assemble

\* A step that changes neither code nor blocks keeps the code half.
LEMMA SameCode ==
    ASSUME IInv, Working, Working', UNCHANGED <<code, inserted, insertBlock>>
    PROVE  CodeOK' /\ Grows /\ Len(code') = Len(code)
<1>1. /\ BlocksExist /\ OthersTerminated
      /\ code \in Seq(Seq(Instr)) /\ Len(code) \in Nat
      /\ insertBlock \in inserted /\ inserted \subseteq 1..Len(code)
  BY WorkingFacts DEF IInv, Working
<1>2. QED
  BY <1>1 DEF CodeOK, Grows, BlocksExist, OthersTerminated

\* What the locals of the top frame hold.
LEMMA TopHolds ==
    ASSUME IInv, Working
    PROVE  Holds(Top, inserted, Len(code))
<1>1. Len(frames) \in 1..Len(frames) /\ LocalsHold
  BY WorkingFacts DEF IInv
<1>2. QED
  BY <1>1 DEF LocalsHold, Top

LEMMA ExprStmtValueStep == IInv /\ ExprStmtValue => IInv'
<1> SUFFICES ASSUME IInv, ExprStmtValue PROVE IInv'
  OBVIOUS
<1>1. /\ Working /\ Working' /\ Top.kind = "expr" /\ mode' = "stmt" /\ Return
      /\ UNCHANGED <<kind, trail, code, inserted, insertBlock, whileContext,
                     warnings>>
  BY DEF ExprStmtValue, Working
<1>2. CodeOK' /\ Grows /\ Len(code') = Len(code)
  BY <1>1, SameCode
<1>3. Top.blk = None /\ Top.end = None
  BY <1>1, TopHolds DEF Holds, HoldsEnd, HoldsInserted
<1>4. FramesOK' /\ Top'.kind \in StmtFrames
  BY <1>1, <1>2, <1>3, ReturnStep DEF SubExpressions
<1>5. QED
  BY <1>1, <1>2, <1>4, TrailTypes, Assemble

LEMMA ReturnStmtValueStep == IInv /\ ReturnStmtValue => IInv'
<1> SUFFICES ASSUME IInv, ReturnStmtValue PROVE IInv'
  OBVIOUS
<1>1. /\ Working /\ Working' /\ Top.kind = "return" /\ mode' = "stmt" /\ Return
      /\ code' = Emit(Ret, 0)
      /\ UNCHANGED <<kind, trail, inserted, insertBlock, whileContext, warnings>>
  BY DEF ReturnStmtValue, Working
<1>2. Ret \in Instr /\ RefersBelow(Ret, Len(code))
  BY InstrTypes DEF Ret, RefersBelow
<1>3. CodeOK' /\ Grows /\ Len(code') = Len(code)
  BY <1>1, <1>2, EmitStay
<1>4. Top.blk = None /\ Top.end = None
  BY <1>1, TopHolds DEF Holds, HoldsEnd, HoldsInserted
<1>5. FramesOK' /\ Top'.kind \in StmtFrames
  BY <1>1, <1>3, <1>4, ReturnStep DEF SubExpressions
<1>6. QED
  BY <1>1, <1>3, <1>5, TrailTypes, Assemble

\* What `Br` and `CondBr` refer to.
LEMMA BranchFacts ==
    ASSUME NEW n \in Nat, NEW b \in 1..n, NEW c \in 1..n
    PROVE  /\ Br(b) \in Instr /\ RefersBelow(Br(b), n) /\ IsTerminator(Br(b))
           /\ CondBr(b, c) \in Instr /\ RefersBelow(CondBr(b, c), n)
           /\ IsTerminator(CondBr(b, c))
<1>1. Br(b) \in Instr /\ CondBr(b, c) \in Instr
  BY InstrTypes
<1>2. RefersBelow(Br(b), n) /\ IsTerminator(Br(b))
  BY DEF Br, RefersBelow, IsTerminator, Terminators
<1>3. RefersBelow(CondBr(b, c), n) /\ IsTerminator(CondBr(b, c))
  BY DEF CondBr, RefersBelow, IsTerminator, Terminators
<1>4. QED
  BY <1>1, <1>2, <1>3

LEMMA WhileStmtStep == IInv /\ WhileStmt => IInv'
<1> SUFFICES ASSUME IInv, WhileStmt PROVE IInv'
  OBVIOUS
<1> DEFINE cond == Len(code) + 1
           f == Holding("while.cond", None, cond, None)
<1>1. /\ Working /\ Working' /\ Top.kind \in StmtFrames /\ mode' = "expr"
      /\ Enter("while") /\ code' = Emit(Br(cond), 1) /\ MoveTo(cond) /\ Call(f)
      /\ UNCHANGED <<kind, whileContext, warnings>>
      /\ Len(code) \in Nat
  BY WorkingFacts DEF WhileStmt, Working, IInv, TypeOK, Fresh
<1>2. cond \in 1..Len(code) + 1
  BY <1>1
<1>3. /\ Br(cond) \in Instr /\ RefersBelow(Br(cond), Len(code) + 1)
      /\ IsTerminator(Br(cond))
  BY <1>1, <1>2, BranchFacts
<1>4. /\ CodeOK' /\ Grows /\ Len(code') = Len(code) + 1
      /\ inserted' = inserted \cup {cond}
  BY <1>1, <1>2, <1>3, EmitMove
<1>5. /\ f \in Frame /\ f.kind = "while.cond" /\ f.blk = cond
      /\ Holds(f, inserted', Len(code'))
  BY <1>1, <1>4 DEF Holding, Frame, ExprFrames, Holds, None, HoldsEnd,
                    HoldsInserted
<1>6. \A b \in Len(code) + 1..Len(code') : b = cond
  BY <1>1, <1>4
<1> HIDE DEF f, cond
<1>7. FramesOK' /\ Top' = f
  BY <1>1, <1>4, <1>5, <1>6, CallStep DEF SubExpressions
<1>8. Top'.kind \in ExprFrames
  BY <1>5, <1>7 DEF ExprFrames
<1>9. QED
  BY <1>1, <1>4, <1>7, <1>8, TrailTypes, Assemble

LEMMA IfCondStep == IInv /\ IfCond => IInv'
<1> SUFFICES ASSUME IInv, IfCond PROVE IInv'
  OBVIOUS
<1> DEFINE then == Len(code) + 1
           end == Len(code) + 2
           f == Holding("if.then", None, None, end)
<1>1. /\ Working /\ Working' /\ Top.kind = "if.cond" /\ mode' = "stmt"
      /\ code' = Emit(CondBr(then, end), 2) /\ MoveTo(then) /\ Resume(f)
      /\ UNCHANGED <<kind, trail, whileContext, warnings>>
      /\ Len(code) \in Nat
  BY WorkingFacts DEF IfCond, Working, IInv, Fresh
<1>2. then \in 1..Len(code) + 2 /\ end \in 1..Len(code) + 2
  BY <1>1
<1>3. /\ CondBr(then, end) \in Instr /\ IsTerminator(CondBr(then, end))
      /\ RefersBelow(CondBr(then, end), Len(code) + 2)
  BY <1>1, <1>2, BranchFacts
<1>4. /\ CodeOK' /\ Grows /\ Len(code') = Len(code) + 2
      /\ inserted' = inserted \cup {then}
  BY <1>1, <1>2, <1>3, EmitMove
<1>5. /\ f \in Frame /\ f.kind = "if.then" /\ f.end = end
      /\ Holds(f, inserted', Len(code'))
  BY <1>1, <1>2, <1>4 DEF Holding, Frame, StmtFrames, Holds, None, HoldsEnd,
                          HoldsInserted
<1>6. \A b \in Len(code) + 1..Len(code') : b = then \/ b = end
  BY <1>1, <1>4
<1>7. Top.blk = None /\ Top.end = None
  BY <1>1, TopHolds DEF Holds, HoldsEnd, HoldsInserted
<1> HIDE DEF f, then, end
<1>8. FramesOK' /\ Top' = f
  BY <1>1, <1>4, <1>5, <1>6, <1>7, ResumeStep DEF SubExpressions
<1>9. Top'.kind \in StmtFrames
  BY <1>5, <1>8 DEF StmtFrames
<1>10. QED
  BY <1>1, <1>4, <1>8, <1>9, TrailTypes, Assemble

LEMMA IfElseCondStep == IInv /\ IfElseCond => IInv'
<1> SUFFICES ASSUME IInv, IfElseCond PROVE IInv'
  OBVIOUS
<1> DEFINE then == Len(code) + 1
           else == Len(code) + 2
           end == Len(code) + 3
           f == Holding("ifelse.then", None, else, end)
<1>1. /\ Working /\ Working' /\ Top.kind = "ifelse.cond" /\ mode' = "stmt"
      /\ code' = Emit(CondBr(then, else), 3) /\ MoveTo(then) /\ Resume(f)
      /\ UNCHANGED <<kind, trail, whileContext, warnings>>
      /\ Len(code) \in Nat
  BY WorkingFacts DEF IfElseCond, Working, IInv, Fresh
<1>2. /\ then \in 1..Len(code) + 3 /\ else \in 1..Len(code) + 3
      /\ end \in 1..Len(code) + 3
  BY <1>1
<1>3. /\ CondBr(then, else) \in Instr /\ IsTerminator(CondBr(then, else))
      /\ RefersBelow(CondBr(then, else), Len(code) + 3)
  BY <1>1, <1>2, BranchFacts
<1>4. /\ CodeOK' /\ Grows /\ Len(code') = Len(code) + 3
      /\ inserted' = inserted \cup {then}
  BY <1>1, <1>2, <1>3, EmitMove
<1>5. /\ f \in Frame /\ f.kind = "ifelse.then" /\ f.end = end /\ f.blk = else
      /\ Holds(f, inserted', Len(code'))
  BY <1>1, <1>2, <1>4 DEF Holding, Frame, StmtFrames, Holds, None, HoldsEnd,
                          HoldsInserted
<1>6. \A b \in Len(code) + 1..Len(code') : b = then \/ b = else \/ b = end
  BY <1>1, <1>4
<1>7. Top.blk = None /\ Top.end = None
  BY <1>1, TopHolds DEF Holds, HoldsEnd, HoldsInserted
<1> HIDE DEF f, then, else, end
<1>8. FramesOK' /\ Top' = f
  BY <1>1, <1>4, <1>5, <1>6, <1>7, ResumeStep DEF SubExpressions
<1>9. Top'.kind \in StmtFrames
  BY <1>5, <1>8 DEF StmtFrames
<1>10. QED
  BY <1>1, <1>4, <1>8, <1>9, TrailTypes, Assemble

\* The body's frame takes over the condition block, and its end is pushed.
LEMMA WhileCondStep == IInv /\ WhileCond => IInv'
<1> SUFFICES ASSUME IInv, WhileCond PROVE IInv'
  OBVIOUS
<1> DEFINE body == Len(code) + 1
           end == Len(code) + 2
           f == Holding("while.body", None, Top.blk, end)
<1>1. /\ Working /\ Working' /\ Top.kind = "while.cond" /\ mode' = "stmt"
      /\ code' = Emit(CondBr(body, end), 2) /\ MoveTo(body) /\ Resume(f)
      /\ whileContext' = Append(whileContext, end)
      /\ UNCHANGED <<kind, trail, warnings>>
      /\ Len(code) \in Nat /\ inserted \subseteq 1..Len(code)
  BY WorkingFacts DEF WhileCond, Working, IInv, Fresh
<1>2. body \in 1..Len(code) + 2 /\ end \in 1..Len(code) + 2
  BY <1>1
<1>3. /\ CondBr(body, end) \in Instr /\ IsTerminator(CondBr(body, end))
      /\ RefersBelow(CondBr(body, end), Len(code) + 2)
  BY <1>1, <1>2, BranchFacts
<1>4. /\ CodeOK' /\ Grows /\ Len(code') = Len(code) + 2
      /\ inserted' = inserted \cup {body}
  BY <1>1, <1>2, <1>3, EmitMove
<1>5. Top.blk \in inserted /\ Top.blk \in Nat /\ Top.end = None
  <2>1. /\ Holds(Top, inserted, Len(code)) /\ Top.kind = "while.cond"
        /\ inserted \subseteq Nat
    BY <1>1, TopHolds
  <2>2. QED
    BY <2>1 DEF Holds, HoldsInserted, HoldsEnd
<1>6. /\ f \in Frame /\ f.kind = "while.body" /\ f.end = end
      /\ f.blk = Top.blk /\ Holds(f, inserted', Len(code'))
  BY <1>1, <1>2, <1>4, <1>5 DEF Holding, Frame, StmtFrames, Holds, None,
                                HoldsEnd, HoldsInserted
<1>7. \A b \in Len(code) + 1..Len(code') : b = body \/ b = end
  BY <1>1, <1>4
<1> HIDE DEF f, body, end
<1>8. FramesOK' /\ Top' = f
  BY <1>1, <1>4, <1>5, <1>6, <1>7, ResumeStep DEF SubExpressions
<1>9. Top'.kind \in StmtFrames
  BY <1>6, <1>8 DEF StmtFrames
<1>10. QED
  BY <1>1, <1>4, <1>8, <1>9, TrailTypes, Assemble

\* The end of a body: control goes on to block t, and the insertion point
\* moves to the end block the frame holds.
LEMMA LeaveBody ==
    ASSUME IInv, NEW t \in {Top.blk, Top.end}, t \in 1..Len(code),
           Leave(Top.kind, "end"),
           Top.kind \in {"if.then", "ifelse.else", "while.body"},
           code' = Emit(Br(t), 0), MoveTo(Top.end), Return,
           whileContext' = IF Top.kind = "while.body" THEN Pop(whileContext)
                           ELSE whileContext
    PROVE  IInv'
<1>1. /\ Working /\ Working' /\ mode = "stmt" /\ mode' = "stmt"
      /\ UNCHANGED <<kind, warnings>> /\ Len(code) \in Nat
      /\ inserted \subseteq 1..Len(code)
  BY WorkingFacts DEF Leave, Working, IInv
<1>2. /\ Top.end \in 1..Len(code) /\ Top.blk \in inserted \cup {None}
  BY <1>1, TopHolds DEF Holds, HoldsEnd, HoldsInserted
<1>3. Br(t) \in Instr /\ IsTerminator(Br(t)) /\ RefersBelow(Br(t), Len(code))
  BY <1>1, BranchFacts
<1>4. Len(code) + 0 = Len(code)
  BY <1>1
<1>5. /\ CodeOK' /\ Grows /\ Len(code') = Len(code)
      /\ inserted' = inserted \cup {Top.end}
  BY <1>1, <1>2, <1>3, <1>4, EmitMove
<1>6. FramesOK' /\ Top'.kind \in StmtFrames
  BY <1>1, <1>2, <1>5, ReturnStep DEF SubExpressions
<1>7. QED
  BY <1>1, <1>5, <1>6, TrailTypes, Assemble

LEMMA IfThenStep == IInv /\ IfThen => IInv'
<1> SUFFICES ASSUME IInv, IfThen PROVE IInv'
  OBVIOUS
<1>1. Top.kind = "if.then" /\ Working
  BY DEF IfThen, Leave, Working
<1>2. Top.end \in 1..Len(code)
  BY <1>1, TopHolds DEF Holds, HoldsEnd
<1>3. QED
  BY <1>1, <1>2, LeaveBody DEF IfThen

LEMMA IfElseElseStep == IInv /\ IfElseElse => IInv'
<1> SUFFICES ASSUME IInv, IfElseElse PROVE IInv'
  OBVIOUS
<1>1. Top.kind = "ifelse.else" /\ Working
  BY DEF IfElseElse, Leave, Working
<1>2. Top.end \in 1..Len(code)
  BY <1>1, TopHolds DEF Holds, HoldsEnd
<1>3. QED
  BY <1>1, <1>2, LeaveBody DEF IfElseElse

LEMMA WhileBodyStep == IInv /\ WhileBody => IInv'
<1> SUFFICES ASSUME IInv, WhileBody PROVE IInv'
  OBVIOUS
<1>1. Top.kind = "while.body" /\ Working
  BY DEF WhileBody, Leave, Working
<1>2. Top.blk \in 1..Len(code)
  BY <1>1, TopHolds, WorkingFacts DEF Holds, HoldsInserted, IInv
<1>3. QED
  BY <1>1, <1>2, LeaveBody DEF WhileBody

LEMMA IfElseThenStep == IInv /\ IfElseThen => IInv'
<1> SUFFICES ASSUME IInv, IfElseThen PROVE IInv'
  OBVIOUS
<1> DEFINE f == Holding("ifelse.else", None, None, Top.end)
<1>1. /\ Working /\ Working' /\ mode = "stmt" /\ mode' = "stmt"
      /\ Top.kind = "ifelse.then" /\ code' = Emit(Br(Top.end), 0)
      /\ MoveTo(Top.blk) /\ Resume(f) /\ Leave("ifelse.then", "else")
      /\ UNCHANGED <<kind, whileContext, warnings>> /\ Len(code) \in Nat
  BY WorkingFacts DEF IfElseThen, Leave, Working, IInv
<1>2. Top.end \in 1..Len(code) /\ Top.blk \in 1..Len(code)
  BY <1>1, TopHolds DEF Holds, HoldsEnd, HoldsInserted
<1>3. /\ Br(Top.end) \in Instr /\ IsTerminator(Br(Top.end))
      /\ RefersBelow(Br(Top.end), Len(code))
  BY <1>1, <1>2, BranchFacts
<1>4. Len(code) + 0 = Len(code)
  BY <1>1
<1>5. /\ CodeOK' /\ Grows /\ Len(code') = Len(code)
      /\ inserted' = inserted \cup {Top.blk}
  BY <1>1, <1>2, <1>3, <1>4, EmitMove
<1>6. /\ f \in Frame /\ f.kind = "ifelse.else" /\ f.end = Top.end
      /\ Holds(f, inserted', Len(code'))
  BY <1>1, <1>2, <1>5 DEF Holding, Frame, StmtFrames, Holds, None, HoldsEnd,
                          HoldsInserted
<1>7. \A b \in Len(code) + 1..Len(code') : FALSE
  BY <1>1, <1>5
<1> HIDE DEF f
<1>8. FramesOK' /\ Top' = f
  BY <1>1, <1>5, <1>6, <1>7, ResumeStep DEF SubExpressions
<1>9. Top'.kind \in StmtFrames
  BY <1>6, <1>8 DEF StmtFrames
<1>10. QED
  BY <1>1, <1>5, <1>8, <1>9, TrailTypes, Assemble

-----------------------------------------------------------------------------
(* Expressions.                                                            *)

LEMMA IdExprStep == IInv /\ IdExpr => IInv'
<1> SUFFICES ASSUME IInv, IdExpr PROVE IInv'
  OBVIOUS
<1>1. Plain \in Instr /\ RefersBelow(Plain, Len(code))
  BY InstrTypes DEF Plain, RefersBelow
<1>2. QED
  BY <1>1, InPlaceStep, TrailTypes DEF IdExpr, Leaf, Working

LEMMA LitExprStep == IInv /\ LitExpr => IInv'
<1> SUFFICES ASSUME IInv, LitExpr PROVE IInv'
  OBVIOUS
<1>1. /\ Working /\ Working' /\ mode = "expr" /\ mode' = "value"
      /\ UNCHANGED <<kind, trail, frames, code, inserted, insertBlock,
                     whileContext, warnings>>
  BY DEF LitExpr, Leaf, Working
<1>2. CodeOK' /\ FramesOK' /\ Top' = Top
  BY <1>1, SameCode, SameStep
<1>3. Top.kind \in ExprFrames
  BY <1>1 DEF IInv, TypeOK
<1>4. QED
  BY <1>1, <1>2, <1>3, TrailTypes, Assemble

LEMMA OperatorStep ==
    ASSUME IInv, NEW c, NEW k \in {"operator", "land.lhs", "lor.lhs"},
           Operator(c, k)
    PROVE  IInv'
<1>1. /\ Working /\ Working' /\ Top.kind \in ExprFrames /\ mode' = "expr"
      /\ UNCHANGED <<kind, code, inserted, insertBlock, whileContext, warnings>>
      /\ Call(Plainly(k)) /\ Enter(c)
  BY DEF Operator, Working, IInv, TypeOK
<1>2. CodeOK' /\ Grows /\ Len(code') = Len(code) /\ Len(code) \in Nat
  BY <1>1, SameCode DEF Grows
<1>3. /\ Plainly(k) \in Frame /\ Plainly(k).kind = k
      /\ Holds(Plainly(k), inserted', Len(code'))
  BY <1>1, <1>2 DEF Plainly, Holding, Frame, ExprFrames, Holds, None, HoldsEnd,
                    HoldsInserted
<1>4. FramesOK' /\ Top' = Plainly(k)
  <2>1. /\ Plainly(k).kind \notin {"func", "while.body"}
        /\ Plainly(k).kind \in SubExpressions
    BY <1>3 DEF SubExpressions
  <2>2. \A b \in Len(code) + 1..Len(code') : FALSE
    BY <1>2
  <2>3. QED
    BY <1>1, <1>2, <1>3, <2>1, <2>2, CallStep
<1>5. k \in ExprFrames
  BY DEF ExprFrames
<1>6. QED
  BY <1>1, <1>2, <1>3, <1>4, <1>5, TrailTypes, Assemble

LEMMA NextOperandStep == IInv /\ NextOperand => IInv'
<1> SUFFICES ASSUME IInv, NextOperand PROVE IInv'
  OBVIOUS
<1>1. /\ Working /\ Working' /\ mode = "value" /\ mode' = "expr"
      /\ Enter("operand")
      /\ UNCHANGED <<kind, frames, code, inserted, insertBlock, whileContext,
                     warnings>>
  BY DEF NextOperand, Working
<1>2. CodeOK' /\ FramesOK' /\ Top' = Top
  BY <1>1, SameCode, SameStep
<1>3. Top.kind \in ExprFrames
  BY <1>1 DEF IInv, TypeOK
<1>4. QED
  BY <1>1, <1>2, <1>3, TrailTypes, Assemble

LEMMA ApplyStep == IInv /\ Apply => IInv'
<1> SUFFICES ASSUME IInv, Apply PROVE IInv'
  OBVIOUS
<1>1. /\ Working /\ Working' /\ Top.kind = "operator" /\ mode' = "value"
      /\ Return /\ code' = Emit(Plain, 0)
      /\ UNCHANGED <<kind, trail, inserted, insertBlock, whileContext, warnings>>
  BY DEF Apply, Working
<1>2. Plain \in Instr /\ RefersBelow(Plain, Len(code))
  BY InstrTypes DEF Plain, RefersBelow
<1>3. CodeOK' /\ Grows /\ Len(code') = Len(code)
  BY <1>1, <1>2, EmitStay
<1>4. Top.blk = None /\ Top.end = None
  BY <1>1, TopHolds DEF Holds, HoldsEnd, HoldsInserted
<1>5. FramesOK' /\ Top'.kind \in ExprFrames
  BY <1>1, <1>3, <1>4, ReturnStep DEF SubExpressions
<1>6. QED
  BY <1>1, <1>3, <1>5, TrailTypes, Assemble

LEMMA LogicalLhsStep == IInv /\ LogicalLhs => IInv'
<1> SUFFICES ASSUME IInv, LogicalLhs PROVE IInv'
  OBVIOUS
<1> DEFINE rhs == Len(code) + 1
           end == Len(code) + 2
           f == Holding("logical.rhs", insertBlock, rhs, end)
           i == IF Top.kind = "land.lhs" THEN CondBr(rhs, end)
                ELSE CondBr(end, rhs)
<1>1. /\ Working /\ Working' /\ Top.kind \in {"land.lhs", "lor.lhs"}
      /\ mode' = "expr" /\ code' = Emit(i, 2) /\ MoveTo(rhs) /\ Resume(f)
      /\ UNCHANGED <<kind, trail, whileContext, warnings>>
      /\ Len(code) \in Nat /\ insertBlock \in inserted
      /\ inserted \subseteq 1..Len(code)
  BY WorkingFacts DEF LogicalLhs, Working, IInv, Fresh
<1>2. rhs \in 1..Len(code) + 2 /\ end \in 1..Len(code) + 2
  BY <1>1
<1>3. i \in Instr /\ IsTerminator(i) /\ RefersBelow(i, Len(code) + 2)
  BY <1>1, <1>2, BranchFacts
<1>4. /\ CodeOK' /\ Grows /\ Len(code') = Len(code) + 2
      /\ inserted' = inserted \cup {rhs}
  BY <1>1, <1>2, <1>3, EmitMove
<1>5. insertBlock \in Nat
  BY <1>1
<1>6. /\ f \in Frame /\ f.kind = "logical.rhs" /\ f.end = end /\ f.blk = rhs
      /\ Holds(f, inserted', Len(code'))
  BY <1>1, <1>2, <1>4, <1>5 DEF Holding, Frame, ExprFrames, Holds, None,
                                HoldsEnd, HoldsInserted
<1>7. \A b \in Len(code) + 1..Len(code') : b = rhs \/ b = end
  BY <1>1, <1>4
<1>8. Top.blk = None /\ Top.end = None
  BY <1>1, TopHolds DEF Holds, HoldsEnd, HoldsInserted
<1> HIDE DEF f, rhs, end, i
<1>9. FramesOK' /\ Top' = f
  BY <1>1, <1>4, <1>6, <1>7, <1>8, ResumeStep DEF SubExpressions
<1>10. Top'.kind \in ExprFrames
  BY <1>6, <1>9 DEF ExprFrames
<1>11. QED
  BY <1>1, <1>4, <1>9, <1>10, TrailTypes, Assemble

\* The phi is put in the end block, which becomes the insertion block.
LEMMA LogicalRhsStep == IInv /\ LogicalRhs => IInv'
<1> SUFFICES ASSUME IInv, LogicalRhs PROVE IInv'
  OBVIOUS
<1> DEFINE end == Top.end
           phi == Phi(Top.from, Top.blk)
           d == Emit(Br(end), 0)
<1>1. /\ Working /\ Working' /\ Top.kind = "logical.rhs" /\ mode' = "value"
      /\ MoveTo(end) /\ Return
      /\ UNCHANGED <<kind, trail, whileContext, warnings>>
  BY DEF LogicalRhs, Working
<1>2. /\ TypeOK /\ BlocksExist /\ OthersTerminated
      /\ Len(code) \in Nat /\ insertBlock \in inserted
      /\ inserted \subseteq 1..Len(code)
  BY <1>1, WorkingFacts DEF IInv, Working
<1>3. /\ end \in 1..Len(code) /\ Top.blk \in inserted /\ Top.from \in inserted
  <2>1. Holds(Top, inserted, Len(code)) /\ Top.kind = "logical.rhs"
    BY <1>1, TopHolds
  <2>2. QED
    BY <2>1 DEF Holds, HoldsInserted, HoldsEnd
<1>4. /\ Br(end) \in Instr /\ IsTerminator(Br(end))
      /\ RefersBelow(Br(end), Len(code)) /\ Len(code) + 0 = Len(code)
  BY <1>2, <1>3, BranchFacts
<1>5. phi \in Instr /\ RefersBelow(phi, Len(code))
  <2>1. Top.from \in 1..Len(code) /\ Top.blk \in 1..Len(code)
    BY <1>2, <1>3
  <2>2. phi \in Instr
    BY <2>1, InstrTypes
  <2>3. RefersBelow(phi, Len(code))
    BY <2>1 DEF Phi, RefersBelow
  <2>4. QED
    BY <2>2, <2>3
<1>6. /\ d \in Seq(Seq(Instr)) /\ Len(d) = Len(code)
      /\ \A b \in 1..Len(d) : \A j \in 1..Len(d[b]) :
            RefersBelow(d[b][j], Len(d))
      /\ \A b \in 1..Len(code) : b # insertBlock => d[b] = code[b]
      /\ Terminated(d[insertBlock])
  <2>1. RefersBelow(Br(end), Len(code) + 0)
    BY <1>4
  <2>2. Len(d) = Len(code) + 0 /\ d \in Seq(Seq(Instr))
    BY <1>1, <1>2, <1>4, <2>1, EmitValue
  <2>3. \A b \in 1..Len(d) : \A j \in 1..Len(d[b]) :
           RefersBelow(d[b][j], Len(d))
    BY <1>1, <1>2, <1>4, <2>1, EmitValue
  <2>4. /\ \A b \in 1..Len(code) : b # insertBlock => d[b] = code[b]
        /\ Terminated(d[insertBlock])
    BY <1>1, <1>2, <1>4, <2>1, EmitValue
  <2>5. QED
    BY <1>4, <2>2, <2>3, <2>4
<1>7. code' = [d EXCEPT ![end] = Append(@, phi)]
  BY DEF LogicalRhs
<1> HIDE DEF d, end, phi
<1>8. d[end] \in Seq(Instr)
  BY <1>3, <1>6
<1>9. /\ code' \in Seq(Seq(Instr)) /\ Len(code') = Len(code)
      /\ code'[end] = Append(d[end], phi)
      /\ \A b \in 1..Len(code) : b # end => code'[b] = d[b]
  BY <1>3, <1>5, <1>6, <1>7, <1>8
<1>10. BlocksExist'
  <2> SUFFICES ASSUME NEW b \in 1..Len(code'), NEW j \in 1..Len(code'[b])
               PROVE  RefersBelow(code'[b][j], Len(code'))
    BY DEF BlocksExist
  <2>1. CASE b # end
    BY <1>6, <1>9, <2>1
  <2>2. CASE b = end /\ j \in 1..Len(d[end])
    <3>1. code'[b][j] = d[b][j]
      BY <1>8, <1>9, <2>2
    <3>2. RefersBelow(d[b][j], Len(d))
      BY <1>3, <1>6, <2>2
    <3>3. QED
      BY <1>6, <1>9, <3>1, <3>2
  <2>3. CASE b = end /\ j = Len(d[end]) + 1
    <3>1. code'[b][j] = phi
      BY <1>8, <1>9, <2>3
    <3>2. QED
      BY <1>5, <1>9, <3>1
  <2>4. b = end => j \in 1..Len(d[end]) \/ j = Len(d[end]) + 1
    BY <1>8, <1>9
  <2>5. QED
    BY <2>1, <2>2, <2>3, <2>4
<1>11. inserted' = inserted \cup {end} /\ insertBlock' = end
  BY <1>1 DEF MoveTo, end
<1>12. OthersTerminated'
  <2> SUFFICES ASSUME NEW b \in inserted', b # end
               PROVE  Terminated(code'[b])
    BY <1>1, <1>11 DEF OthersTerminated
  <2>1. b \in inserted /\ b \in 1..Len(code) /\ code'[b] = d[b]
    BY <1>2, <1>9, <1>11
  <2>2. CASE b = insertBlock
    BY <1>6, <2>1, <2>2
  <2>3. CASE b # insertBlock
    BY <1>2, <1>6, <2>1, <2>3 DEF OthersTerminated
  <2>4. QED
    BY <2>2, <2>3
<1>13. CodeOK' /\ Grows
  BY <1>2, <1>3, <1>9, <1>10, <1>11, <1>12 DEF CodeOK, Grows
<1>14. FramesOK' /\ Top'.kind \in ExprFrames
  <2>1. Top.blk \in inserted' /\ Top.end \in inserted'
    BY <1>3, <1>11 DEF end
  <2>2. QED
    BY <1>1, <1>9, <1>13, <2>1, ReturnStep DEF SubExpressions
<1>15. QED
  BY <1>1, <1>13, <1>14, TrailTypes, Assemble

-----------------------------------------------------------------------------
(* Functions.                                                              *)

\* Erasing an instruction after a ret keeps the block terminated, and what is
\* left was there before.
LEMMA ErasedFacts ==
    ASSUME NEW s \in Seq(Instr)
    PROVE  /\ Erased(s) \in Seq(Instr)
           /\ \A j \in 1..Len(Erased(s)) :
                 \E i \in 1..Len(s) : Erased(s)[j] = s[i]
           /\ Terminated(s) => Terminated(Erased(s))
<1>1. CASE AfterReturn(s) = {}
  BY <1>1 DEF Erased
<1>2. CASE AfterReturn(s) # {}
  <2> DEFINE n == Len(s) - 1
             t == [i \in 1..n |-> IF \E first \in AfterReturn(s) : first <= i
                                  THEN s[i + 1] ELSE s[i]]
  <2>1. PICK k \in 2..Len(s) : s[k - 1].op = "ret" /\ k \in AfterReturn(s)
    BY <1>2 DEF AfterReturn
  <2>2. Len(s) \in Nat /\ n \in Nat /\ n >= 1
    BY <2>1
  <2>3. \A i \in 1..n : i \in 1..Len(s) /\ i + 1 \in 1..Len(s)
    BY <2>2
  <2>4. \A i \in 1..n : (IF \E first \in AfterReturn(s) : first <= i
                         THEN s[i + 1] ELSE s[i]) \in Instr
    BY <2>3
  <2>5. t \in Seq(Instr) /\ Len(t) = n
    BY <2>2, <2>4
  <2>6. \A i \in 1..n : t[i] = s[i] \/ t[i] = s[i + 1]
    OBVIOUS
  <2>7. t[n] = s[Len(s)] \/ IsTerminator(t[n])
    <3>1. CASE \E first \in AfterReturn(s) : first <= n
      BY <2>2, <3>1
    <3>2. CASE ~ \E first \in AfterReturn(s) : first <= n
      <4>1. k = n + 1 /\ t[n] = s[n]
        BY <2>1, <2>2, <3>2
      <4>2. QED
        BY <2>1, <2>2, <4>1 DEF IsTerminator, Terminators
    <3>3. QED
      BY <3>1, <3>2
  <2>8. Erased(s) = t
    BY <1>2 DEF Erased
  <2> HIDE DEF t
  <2>9. Terminated(s) => Terminated(t)
    <3>1. t # <<>>
      BY <2>2, <2>5
    <3>2. QED
      BY <2>5, <2>7, <3>1 DEF Terminated
  <2>10. \A j \in 1..Len(t) : \E i \in 1..Len(s) : t[j] = s[i]
    BY <2>3, <2>5, <2>6
  <2>11. QED
    BY <2>5, <2>8, <2>9, <2>10
<1>3. QED
  BY <1>1, <1>2

\* A closed block is terminated and refers to nothing new.
LEMMA ClosedFacts ==
    ASSUME NEW s \in Seq(Instr), NEW n \in Nat,
           \A i \in 1..Len(s) : RefersBelow(s[i], n)
    PROVE  /\ Closed(s) \in Seq(Instr)
           /\ Terminated(Closed(s))
           /\ \A i \in 1..Len(Closed(s)) : RefersBelow(Closed(s)[i], n)
<1> DEFINE p == Append(s, Plain)
<1>1. /\ Plain \in Instr /\ Ret \in Instr /\ Unreachable \in Instr
      /\ RefersBelow(Plain, n) /\ RefersBelow(Ret, n)
      /\ RefersBelow(Unreachable, n)
      /\ IsTerminator(Ret) /\ IsTerminator(Unreachable)
  BY InstrTypes DEF Plain, Ret, Unreachable, RefersBelow, IsTerminator,
                    Terminators
<1>2. ASSUME NEW u \in Seq(Instr), NEW i \in Instr, RefersBelow(i, n),
             \A j \in 1..Len(u) : RefersBelow(u[j], n)
      PROVE  /\ Append(u, i) \in Seq(Instr)
             /\ \A j \in 1..Len(Append(u, i)) : RefersBelow(Append(u, i)[j], n)
             /\ IsTerminator(i) => Terminated(Append(u, i))
  <2>1. /\ Append(u, i) \in Seq(Instr) /\ Len(u) \in Nat
        /\ Len(Append(u, i)) = Len(u) + 1 /\ Append(u, i)[Len(u) + 1] = i
        /\ \A j \in 1..Len(u) : Append(u, i)[j] = u[j]
    OBVIOUS
  <2>2. \A j \in 1..Len(u) + 1 : j \in 1..Len(u) \/ j = Len(u) + 1
    BY <2>1
  <2>3. Append(u, i) # <<>>
    BY <2>1
  <2>4. QED
    BY <1>2, <2>1, <2>2, <2>3 DEF Terminated
<1>3. CASE Terminated(s)
  BY <1>3 DEF Closed
<1>4. CASE ~Terminated(s) /\ kind = "value"
  <2>1. /\ p \in Seq(Instr) /\ \A j \in 1..Len(p) : RefersBelow(p[j], n)
    BY <1>1, <1>2
  <2> HIDE DEF p
  <2>2. Closed(s) = Append(p, Unreachable)
    BY <1>4 DEF Closed, p
  <2>3. QED
    BY <1>1, <1>2, <2>1, <2>2
<1>5. CASE ~Terminated(s) /\ kind # "value"
  <2>1. Closed(s) = Append(s, Ret)
    BY <1>5 DEF Closed
  <2>2. QED
    BY <1>1, <1>2, <2>1
<1>6. QED
  BY <1>3, <1>4, <1>5

\* When the body of the function is done, every block is linked, no loop is
\* open and the call stack becomes empty.
LEMMA BodyDone ==
    ASSUME IInv, Working, Top.kind = "func"
    PROVE  /\ Len(frames) = 1 /\ Pop(frames) = <<>>
           /\ whileContext = <<>> /\ inserted = 1..Len(code)
<1>1. /\ frames \in Seq(Frame) /\ Len(frames) \in Nat /\ Len(frames) > 0
      /\ Shape /\ LocalsHold /\ NoBlockLost /\ whileContext \in Seq(Nat)
      /\ Tracks(frames, whileContext) /\ inserted \subseteq 1..Len(code)
      /\ Len(code) \in Nat
  BY WorkingFacts DEF IInv, TypeOK
<1>2. Len(frames) = 1 /\ frames[1].kind = "func"
  <2>1. Len(frames) \in 1..Len(frames)
    BY <1>1
  <2>2. QED
    BY <1>1, <2>1 DEF Shape, Top
<1>3. Pop(frames) = <<>>
  <2>1. Pop(frames) \in Seq(Frame) /\ Len(Pop(frames)) = Len(frames) - 1
    BY <1>1, PopFacts
  <2>2. Len(Pop(frames)) = 0
    BY <1>2, <2>1
  <2>3. QED
    BY <2>1, <2>2
<1>4. \A b \in 1..Len(code) : b \in inserted
  <2>1. frames[1].blk = None /\ frames[1].end = None
    BY <1>1, <1>2 DEF LocalsHold, Holds, HoldsEnd, HoldsInserted
  <2>2. QED
    BY <1>1, <1>2, <2>1 DEF NoBlockLost, None
<1>5. whileContext = <<>>
  <2>1. \A k \in 1..Len(whileContext) : FALSE
    BY <1>1, <1>2 DEF Tracks
  <2>2. Len(whileContext) = 0
    BY <1>1, <2>1
  <2>3. QED
    BY <1>1, <2>2
<1>6. QED
  BY <1>1, <1>2, <1>3, <1>4, <1>5

\* No loop is open in an empty call stack.
LEMMA TracksNothing == Tracks(<<>>, <<>>)
<1> DEFINE at == [k \in {} |-> 0]
<1>1. 1..Len(<<>>) = {}
  OBVIOUS
<1>2. at \in [{} -> {}]
  OBVIOUS
<1>3. at \in [1..Len(<<>>) -> 1..Len(<<>>)]
  BY <1>1, <1>2
<1> HIDE DEF at
<1>4. QED
  BY <1>1, <1>3 DEF Tracks

\* The invariant between two functions.
LEMMA AssembleIdle ==
    ASSUME IInv, mode' \in {"idle", "exit"}, frames' = <<>>,
           whileContext' = <<>>, code' \in Seq(Seq(Instr)), BlocksExist',
           inserted' = 1..Len(code'), OthersTerminated',
           warnings' \in 0..MaxWarnings + 1, UNCHANGED <<kind, trail>>
    PROVE  IInv'
<1>1. /\ kind \in {"value", "void", "main"}
      /\ trail \in Seq(AllConstructs \cup {"else", "end"})
  BY DEF IInv, TypeOK
<1>2. /\ frames' \in Seq(Frame) /\ Len(frames') = 0
      /\ whileContext' \in Seq(Nat) /\ Len(whileContext') = 0
  OBVIOUS
<1>3. TypeOK'
  BY <1>1, <1>2 DEF TypeOK
<1>4. Shape' /\ LocalsHold' /\ NoBlockLost'
  BY <1>2 DEF Shape, LocalsHold, NoBlockLost
<1>5. Tracks(frames', whileContext')
  BY TracksNothing
<1>6. QED
  BY <1>3, <1>4, <1>5 DEF IInv

LEMMA FinishMainStep == IInv /\ FinishMain => IInv'
<1> SUFFICES ASSUME IInv, FinishMain PROVE IInv'
  OBVIOUS
<1>1. /\ Working /\ Top.kind = "func" /\ mode' = "idle" /\ frames' = Pop(frames)
      /\ UNCHANGED <<kind, trail, inserted, insertBlock, whileContext, warnings>>
      /\ code' = IF Terminated(code[insertBlock]) THEN code ELSE Emit(Ret, 0)
  BY DEF FinishMain, Working, Return
<1>2. /\ TypeOK /\ BlocksExist /\ OthersTerminated
      /\ code \in Seq(Seq(Instr)) /\ Len(code) \in Nat
      /\ insertBlock \in inserted /\ inserted \subseteq 1..Len(code)
      /\ warnings \in 0..MaxWarnings + 1
  BY <1>1, WorkingFacts DEF IInv, TypeOK, Working
<1>3. frames' = <<>> /\ whileContext' = <<>> /\ inserted' = 1..Len(code)
  BY <1>1, BodyDone
<1>4. /\ code' \in Seq(Seq(Instr)) /\ Len(code') = Len(code) /\ BlocksExist'
      /\ OthersTerminated'
  <2>1. CASE Terminated(code[insertBlock])
    <3>1. code' = code
      BY <1>1, <2>1
    <3>2. QED
      BY <1>1, <1>2, <2>1, <3>1 DEF BlocksExist, OthersTerminated, Working
  <2>2. CASE ~Terminated(code[insertBlock])
    <3>1. /\ Ret \in Instr /\ IsTerminator(Ret)
          /\ RefersBelow(Ret, Len(code) + 0)
      BY InstrTypes DEF Ret, RefersBelow, IsTerminator, Terminators
    <3>2. code' = Emit(Ret, 0)
      BY <1>1, <2>2
    <3>3. /\ code' \in Seq(Seq(Instr)) /\ Len(code') = Len(code) + 0
          /\ BlocksExist' /\ Terminated(code'[insertBlock])
          /\ \A b \in 1..Len(code) : b # insertBlock => code'[b] = code[b]
      BY <1>1, <1>2, <3>1, <3>2, EmitFacts
    <3>4. OthersTerminated'
      <4> SUFFICES ASSUME NEW b \in inserted PROVE Terminated(code'[b])
        BY <1>1 DEF OthersTerminated
      <4>1. CASE b = insertBlock
        BY <3>3, <4>1
      <4>2. CASE b # insertBlock
        BY <1>2, <3>3, <4>2 DEF OthersTerminated
      <4>3. QED
        BY <4>1, <4>2
    <3>5. QED
      BY <1>2, <3>3, <3>4
  <2>3. QED
    BY <2>1, <2>2
<1>5. QED
  BY <1>1, <1>2, <1>3, <1>4, AssembleIdle

\* Only the last insertion block can fall off the end, so there is at most one
\* warning.
LEMMA FallsOffOnce ==
    ASSUME IInv, Working
    PROVE  Cardinality(FallsOff) \in {0, 1}
<1>1. /\ code \in Seq(Seq(Instr)) /\ inserted \subseteq 1..Len(code)
      /\ OthersTerminated
  BY WorkingFacts DEF IInv, Working
<1>2. \A b \in inserted : b # insertBlock => Terminated(Erased(code[b]))
  <2> SUFFICES ASSUME NEW b \in inserted, b # insertBlock
               PROVE  Terminated(Erased(code[b]))
    OBVIOUS
  <2>1. Terminated(code[b]) /\ code[b] \in Seq(Instr)
    BY <1>1 DEF OthersTerminated
  <2>2. QED
    BY <2>1, ErasedFacts
<1>3. FallsOff = {} \/ FallsOff = {insertBlock}
  BY <1>2 DEF FallsOff
<1>4. QED
  BY <1>3, FS_EmptySet, FS_Singleton

LEMMA FinishFuncStep == IInv /\ FinishFunc => IInv'
<1> SUFFICES ASSUME IInv, FinishFunc PROVE IInv'
  OBVIOUS
<1>1. /\ Working /\ Top.kind = "func" /\ frames' = Pop(frames)
      /\ UNCHANGED <<kind, trail, inserted, insertBlock, whileContext>>
      /\ code' = [b \in 1..Len(code) |-> IF b \in inserted
                                         THEN Closed(Erased(code[b]))
                                         ELSE code[b]]
  BY DEF FinishFunc, Working, Return
<1>2. /\ BlocksExist /\ code \in Seq(Seq(Instr)) /\ Len(code) \in Nat
      /\ warnings \in 0..MaxWarnings + 1 /\ MaxWarnings \in Nat
  BY <1>1, WorkingFacts, CodegenAssumption DEF IInv, TypeOK
<1>3. /\ frames' = <<>> /\ whileContext' = <<>>
      /\ inserted = 1..Len(code)
  BY <1>1, BodyDone
<1>4. /\ mode' \in {"idle", "exit"}
      /\ warnings' \in 0..MaxWarnings + 1
  <2> DEFINE missing == IF kind = "value" THEN Cardinality(FallsOff) ELSE 0
  <2>1. missing \in Nat
    BY <1>1, FallsOffOnce
  <2>2. \/ mode' = "exit" /\ warnings' = MaxWarnings + 1
        \/ /\ mode' = "idle" /\ warnings' = warnings + missing
           /\ ~(warnings + missing > MaxWarnings)
    BY DEF FinishFunc
  <2> HIDE DEF missing
  <2>3. QED
    BY <1>2, <2>1, <2>2
<1> DEFINE new(b) == Closed(Erased(code[b]))
<1>5. ASSUME NEW b \in 1..Len(code)
      PROVE  /\ new(b) \in Seq(Instr) /\ Terminated(new(b))
             /\ \A j \in 1..Len(new(b)) : RefersBelow(new(b)[j], Len(code))
  <2>1. code[b] \in Seq(Instr)
    BY <1>2
  <2>2. /\ Erased(code[b]) \in Seq(Instr)
        /\ \A j \in 1..Len(Erased(code[b])) :
              \E i \in 1..Len(code[b]) : Erased(code[b])[j] = code[b][i]
    BY <2>1, ErasedFacts
  <2>3. \A j \in 1..Len(Erased(code[b])) :
           RefersBelow(Erased(code[b])[j], Len(code))
    BY <1>2, <2>2 DEF BlocksExist
  <2>4. QED
    BY <1>2, <2>2, <2>3, ClosedFacts
<1> HIDE DEF new
<1>6. code' = [b \in 1..Len(code) |-> new(b)]
  BY <1>1, <1>3 DEF new
<1>7. /\ code' \in Seq(Seq(Instr)) /\ Len(code') = Len(code)
      /\ \A b \in 1..Len(code) : code'[b] = new(b)
  BY <1>2, <1>5, <1>6
<1>8. BlocksExist'
  BY <1>5, <1>7 DEF BlocksExist
<1>9. OthersTerminated'
  BY <1>1, <1>3, <1>5, <1>7 DEF OthersTerminated
<1>10. QED
  BY <1>1, <1>3, <1>4, <1>7, <1>8, <1>9, AssembleIdle

\* The entry block of a new function is linked and is all there is.
LEMMA StartFunctionStep ==
    ASSUME IInv, NEW k \in FuncKinds, NEW params \in BOOLEAN,
           StartFunction(k, params)
    PROVE  IInv'
<1> DEFINE f == Plainly("func")
           entry == IF params THEN <<Alloca, Plain>> ELSE <<>>
<1>1. /\ mode = "idle" /\ mode' = "stmt" /\ kind' = k /\ trail' = <<>>
      /\ frames' = <<f>> /\ code' = <<entry>>
      /\ inserted' = {1} /\ insertBlock' = 1
      /\ UNCHANGED <<whileContext, warnings>>
  BY DEF StartFunction
<1>2. /\ k \in {"value", "void", "main"} /\ whileContext \in Seq(Nat)
      /\ warnings \in 0..MaxWarnings + 1
      /\ frames = <<>> /\ Tracks(frames, whileContext)
  BY <1>1, CodegenAssumption DEF IInv, TypeOK
<1>3. /\ f \in Frame /\ f.kind = "func" /\ f.from = None /\ f.blk = None
      /\ f.end = None
  BY DEF Plainly, Holding, Frame, None, StmtFrames
<1>4. /\ entry \in Seq(Instr) /\ Len(entry) \in Nat
      /\ \A j \in 1..Len(entry) : entry[j].blocks = <<>>
  <2>1. /\ Alloca \in Instr /\ Plain \in Instr
        /\ Alloca.blocks = <<>> /\ Plain.blocks = <<>>
    BY InstrTypes DEF Alloca, Plain
  <2>2. CASE params
    <3>1. entry = <<Alloca, Plain>>
      BY <2>2
    <3>2. Len(entry) = 2 /\ entry[1] = Alloca /\ entry[2] = Plain
      BY <3>1
    <3>3. \A j \in 1..Len(entry) : j = 1 \/ j = 2
      BY <3>2
    <3>4. QED
      BY <2>1, <3>1, <3>2, <3>3
  <2>3. CASE ~params
    BY <2>3
  <2>4. QED
    BY <2>2, <2>3
<1>5. whileContext' = <<>>
  <2>1. \A j \in 1..Len(whileContext) : FALSE
    BY <1>2 DEF Tracks
  <2>2. Len(whileContext) = 0
    BY <1>2, <2>1
  <2>3. QED
    BY <1>1, <1>2, <2>2
<1> HIDE DEF f, entry
<1>6. /\ frames' \in Seq(Frame) /\ Len(frames') = 1 /\ frames'[1] = f
      /\ Top' = f
      /\ code' \in Seq(Seq(Instr)) /\ Len(code') = 1 /\ code'[1] = entry
      /\ \A i \in 1..1 : i = 1
  BY <1>1, <1>3, <1>4 DEF Top
<1>7. TypeOK'
  <2>1. frames' # <<>> /\ inserted' \subseteq 1..Len(code')
    BY <1>1, <1>6
  <2>2. f.kind \in StmtFrames
    BY <1>3 DEF StmtFrames
  <2>3. trail' \in Seq(AllConstructs \cup {"else", "end"})
    BY <1>1
  <2>4. QED
    BY <1>1, <1>2, <1>3, <1>6, <2>1, <2>2, <2>3 DEF TypeOK
<1>8. Shape'
  BY <1>3, <1>6 DEF Shape
<1>9. LocalsHold'
  BY <1>3, <1>6 DEF LocalsHold, Holds, HoldsEnd, HoldsInserted
<1>10. NoBlockLost'
  BY <1>1, <1>6 DEF NoBlockLost
<1>11. BlocksExist'
  BY <1>4, <1>6 DEF BlocksExist, RefersBelow
<1>12. Tracks(frames', whileContext')
  <2>1. /\ <<>> \in Seq(Frame) /\ <<>> \in Seq(Nat)
        /\ Append(<<>>, f) = frames'
    BY <1>1
  <2>2. Tracks(Append(<<>>, f), <<>>)
    BY <1>3, <2>1, TracksNothing, TracksPush
  <2>3. QED
    BY <1>5, <2>1, <2>2
<1>13. OthersTerminated'
  BY <1>1 DEF OthersTerminated, Working
<1>14. QED
  BY <1>7, <1>8, <1>9, <1>10, <1>11, <1>12, <1>13 DEF IInv

-----------------------------------------------------------------------------
(* The invariant holds.                                                    *)

LEMMA InitInvariant == Init => IInv
<1> SUFFICES ASSUME Init PROVE IInv
  OBVIOUS
<1>1. /\ mode = "idle" /\ kind = "void" /\ trail = <<>> /\ frames = <<>>
      /\ code = <<>> /\ inserted = {} /\ whileContext = <<>>
      /\ warnings \in 0..MaxWarnings /\ MaxWarnings \in Nat
  BY CodegenAssumption DEF Init
<1>2. /\ code \in Seq(Seq(Instr)) /\ frames \in Seq(Frame)
      /\ trail \in Seq(AllConstructs \cup {"else", "end"})
      /\ whileContext \in Seq(Nat) /\ warnings \in 0..MaxWarnings + 1
      /\ 1..Len(code) = {} /\ 1..Len(frames) = {}
  BY <1>1
<1>3. TypeOK
  BY <1>1, <1>2 DEF TypeOK
<1>4. Shape /\ LocalsHold /\ NoBlockLost /\ BlocksExist /\ OthersTerminated
  BY <1>1, <1>2 DEF Shape, LocalsHold, NoBlockLost, BlocksExist,
                    OthersTerminated
<1>5. Tracks(frames, whileContext)
  BY <1>1, TracksNothing
<1>6. QED
  BY <1>3, <1>4, <1>5 DEF IInv

LEMMA StutterStep == IInv /\ UNCHANGED vars => IInv'
<1> SUFFICES ASSUME IInv, UNCHANGED vars PROVE IInv'
  OBVIOUS
<1> USE DEF vars
<1>1. TypeOK'
  BY DEF IInv, TypeOK, Top
<1>2. Shape' /\ LocalsHold' /\ NoBlockLost' /\ BlocksExist'
  BY DEF IInv, Shape, LocalsHold, NoBlockLost, BlocksExist
<1>3. Tracks(frames', whileContext')
  BY DEF IInv
<1>4. mode' # "exit" => OthersTerminated'
  BY DEF IInv, OthersTerminated, Working
<1>5. QED
  BY <1>1, <1>2, <1>3, <1>4 DEF IInv

LEMMA NextInvariant == IInv /\ [Next]_vars => IInv'
<1> SUFFICES ASSUME IInv, [Next]_vars PROVE IInv'
  OBVIOUS
<1>1. CASE UNCHANGED vars
  BY <1>1, StutterStep
<1>2. CASE Functions
  <2>1. ASSUME NEW k \in FuncKinds, NEW params \in BOOLEAN,
               StartFunction(k, params)
        PROVE  IInv'
    BY <2>1, StartFunctionStep
  <2>2. CASE Exited
    BY <2>2, StutterStep DEF Exited
  <2>3. QED
    BY <1>2, <2>1, <2>2, FinishFuncStep, FinishMainStep DEF Functions
<1>3. CASE Statements
  <2>1. CASE ExprStmt \/ ReturnValue \/ IfStmt \/ IfElseStmt
    BY <2>1, EvaluateStep DEF ExprStmt, ReturnValue, IfStmt, IfElseStmt
  <2>2. CASE VarDecl \/ ReturnVoid \/ BreakStmt \/ WhileStmt
    BY <2>2, VarDeclStep, ReturnVoidStep, BreakStmtStep, WhileStmtStep
  <2>3. CASE ExprStmtValue \/ ReturnStmtValue \/ IfCond \/ IfElseCond
             \/ WhileCond
    BY <2>3, ExprStmtValueStep, ReturnStmtValueStep, IfCondStep,
       IfElseCondStep, WhileCondStep
  <2>4. CASE IfThen \/ IfElseThen \/ IfElseElse \/ WhileBody
    BY <2>4, IfThenStep, IfElseThenStep, IfElseElseStep, WhileBodyStep
  <2>5. QED
    BY <1>3, <2>1, <2>2, <2>3, <2>4 DEF Statements
<1>4. CASE Expressions
  <2>1. CASE \/ Operator("operator", "operator")
             \/ Operator("land", "land.lhs") \/ Operator("lor", "lor.lhs")
    BY <2>1, OperatorStep
  <2>2. CASE IdExpr \/ LitExpr \/ NextOperand \/ Apply
    BY <2>2, IdExprStep, LitExprStep, NextOperandStep, ApplyStep
  <2>3. CASE LogicalLhs \/ LogicalRhs
    BY <2>3, LogicalLhsStep, LogicalRhsStep
  <2>4. QED
    BY <1>4, <2>1, <2>2, <2>3 DEF Expressions
<1>5. QED
  BY <1>1, <1>2, <1>3, <1>4 DEF Next

\* Every state the code generator reaches, whatever the program, satisfies the
\* inductive invariant.
THEOREM InvariantHolds == Spec => []IInv
BY InitInvariant, NextInvariant, PTL DEF Spec

-----------------------------------------------------------------------------
(* The properties.                                                         *)

\* The variables of IRCodegenVisitor keep their types, the call stack starts
\* at the function being generated, and its top fits what runs next.
THEOREM TypesHold == Spec => []TypeOK
<1>1. IInv => TypeOK
  BY DEF IInv
<1>2. QED
  BY <1>1, InvariantHolds, PTL

\* The last entry of m_while_context is the end of the innermost open loop.
LEMMA InnermostIsLast ==
    ASSUME NEW F \in Seq(Frame), NEW W \in Seq(Nat), Tracks(F, W),
           NEW i \in 1..Len(F), F[i].kind = "while.body",
           \A j \in i + 1..Len(F) : F[j].kind # "while.body"
    PROVE  Len(W) > 0 /\ W[Len(W)] = F[i].end
<1>1. PICK at \in [1..Len(W) -> 1..Len(F)] :
        /\ \A j, k \in 1..Len(W) : j < k => at[j] < at[k]
        /\ \A h \in 1..Len(F) : F[h].kind = "while.body" =>
               \E k \in 1..Len(W) : at[k] = h
        /\ \A k \in 1..Len(W) : /\ F[at[k]].kind = "while.body"
                                /\ F[at[k]].end = W[k]
  BY DEF Tracks
<1>2. PICK k \in 1..Len(W) : at[k] = i
  BY <1>1
<1>3. Len(W) \in 1..Len(W) /\ Len(W) > 0
  BY <1>2
<1>4. k = Len(W)
  <2> SUFFICES ASSUME k # Len(W) PROVE FALSE
    OBVIOUS
  <2>1. k < Len(W)
    BY <1>3
  <2>2. i < at[Len(W)]
    BY <1>1, <1>2, <1>3, <2>1
  <2>3. at[Len(W)] \in 1..Len(F)
    BY <1>1, <1>3
  <2>4. at[Len(W)] \in i + 1..Len(F)
    BY <2>2, <2>3
  <2>5. F[at[Len(W)]].kind = "while.body"
    BY <1>1, <1>3
  <2>6. QED
    BY <2>4, <2>5
<1>5. QED
  BY <1>1, <1>2, <1>3, <1>4

\* For every program: a break statement jumps to the end of the innermost loop
\* around it, and no loop is left on m_while_context after a function.
THEOREM BreakTargetHolds == Spec => []BreakLeavesInnermostLoop
<1>1. ASSUME IInv PROVE BreakLeavesInnermostLoop
  <2>1. /\ frames \in Seq(Frame) /\ whileContext \in Seq(Nat)
        /\ Tracks(frames, whileContext) /\ DOMAIN frames = 1..Len(frames)
    BY <1>1 DEF IInv, TypeOK
  <2>2. ASSUME frames = <<>> PROVE whileContext = <<>>
    <3>1. \A k \in 1..Len(whileContext) : FALSE
      BY <2>1, <2>2 DEF Tracks
    <3>2. Len(whileContext) = 0
      BY <2>1, <3>1
    <3>3. QED
      BY <2>1, <3>2
  <2>3. ASSUME NEW i \in DOMAIN frames, frames[i].kind = "while.body",
               \A j \in i + 1..Len(frames) : frames[j].kind # "while.body"
        PROVE  /\ whileContext # <<>>
               /\ whileContext[Len(whileContext)] = frames[i].end
    <3>1. /\ Len(whileContext) > 0
          /\ whileContext[Len(whileContext)] = frames[i].end
      BY <2>1, <2>3, InnermostIsLast
    <3>2. QED
      BY <2>1, <3>1
  <2>4. QED
    BY <2>2, <2>3 DEF BreakLeavesInnermostLoop
<1>2. QED
  BY <1>1, InvariantHolds, PTL

\* For every program: no block of a finished function lacks a terminator, even
\* in main, where only the last block is looked at.
THEOREM TerminatorsHold == Spec => []FinishedBlocksTerminated
<1>1. IInv => FinishedBlocksTerminated
  BY DEF IInv, OthersTerminated, Working, FinishedBlocksTerminated
<1>2. QED
  BY <1>1, InvariantHolds, PTL

\* For every program: no instruction of a finished function refers to a block
\* that was created detached and never linked into the function.
THEOREM TargetsHold == Spec => []FinishedTargetsInserted
<1>1. ASSUME IInv, mode = "idle"
      PROVE  /\ inserted = 1..Len(code)
             /\ \A b \in inserted : \A i \in DOMAIN code[b] :
                   \A t \in DOMAIN code[b][i].blocks :
                       code[b][i].blocks[t] \in inserted
  <2>1. /\ code \in Seq(Seq(Instr)) /\ inserted \subseteq 1..Len(code)
        /\ NoBlockLost /\ BlocksExist /\ Len(frames) = 0
    BY <1>1 DEF IInv, TypeOK
  <2>2. inserted = 1..Len(code)
    <3>1. 1..Len(frames) = {}
      BY <2>1
    <3>2. \A b \in 1..Len(code) : b \in inserted
      BY <2>1, <3>1 DEF NoBlockLost
    <3>3. QED
      BY <2>1, <3>2
  <2>3. ASSUME NEW b \in inserted, NEW i \in DOMAIN code[b],
               NEW t \in DOMAIN code[b][i].blocks
        PROVE  code[b][i].blocks[t] \in inserted
    <3>1. code[b] \in Seq(Instr) /\ i \in 1..Len(code[b])
      BY <2>1, <2>2
    <3>2. code[b][i] \in Instr
      BY <3>1
    <3>3. t \in 1..Len(code[b][i].blocks)
      BY <3>2 DEF Instr
    <3>4. RefersBelow(code[b][i], Len(code))
      BY <2>1, <2>2, <3>1 DEF BlocksExist
    <3>5. QED
      BY <2>2, <3>3, <3>4 DEF RefersBelow
  <2>4. QED
    BY <2>2, <2>3
<1>2. IInv => FinishedTargetsInserted
  BY <1>1 DEF FinishedTargetsInserted
<1>3. QED
  BY <1>2, InvariantHolds, PTL

\* For every program: the clean-up of one function warns at most once.
THEOREM OneWarning == Spec => OneWarningPerFunction
<1>1. ASSUME IInv, FinishFunc PROVE warnings' <= warnings + 1
  <2> DEFINE missing == IF kind = "value" THEN Cardinality(FallsOff) ELSE 0
  <2>1. Working
    BY <1>1 DEF FinishFunc, Working
  <2>2. missing \in {0, 1} /\ warnings \in Nat /\ MaxWarnings \in Nat
    BY <1>1, <2>1, FallsOffOnce, CodegenAssumption DEF IInv, TypeOK
  <2>3. \/ warnings' = MaxWarnings + 1 /\ warnings + missing > MaxWarnings
        \/ warnings' = warnings + missing
    BY <1>1 DEF FinishFunc
  <2> HIDE DEF missing
  <2>4. QED
    BY <2>2, <2>3
<1>2. ASSUME IInv, Next, ~FinishFunc PROVE UNCHANGED warnings
  <2>1. Functions => UNCHANGED warnings
    BY <1>2 DEF Functions, StartFunction, FinishMain, Exited, vars
  <2>2. Statements => UNCHANGED warnings
    BY DEF Statements, VarDecl, ExprStmt, ExprStmtValue, ReturnVoid,
           ReturnValue, ReturnStmtValue, BreakStmt, IfStmt, IfCond, IfThen,
           IfElseStmt, IfElseCond, IfElseThen, IfElseElse, WhileStmt,
           WhileCond, WhileBody, Evaluate, Leave
  <2>3. Expressions => UNCHANGED warnings
    BY DEF Expressions, IdExpr, LitExpr, Leaf, Operator, NextOperand, Apply,
           LogicalLhs, LogicalRhs
  <2>4. QED
    BY <1>2, <2>1, <2>2, <2>3 DEF Next
<1>3. IInv /\ [Next]_vars => [warnings' <= warnings + 1]_warnings
  BY <1>1, <1>2 DEF vars
<1>4. QED
  BY <1>3, InvariantHolds, PTL DEF Spec, OneWarningPerFunction
=============================================================================
