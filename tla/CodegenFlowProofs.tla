------------------------- MODULE CodegenFlowProofs --------------------------
(***************************************************************************)
(* Proofs, for every program, that the blocks mean what its statements     *)
(* mean (modules CodegenIR and CodegenFlow).                               *)
(***************************************************************************)
EXTENDS CodegenFlow, CodegenIRProofs, SequenceTheorems, NaturalsInduction,
        WellFoundedInduction

-----------------------------------------------------------------------------
(* The inductive invariant, relative to IInv of CodegenIRProofs.  Its      *)
(* parts are operators of a call stack F, the entries V of its statements  *)
(* in `saved`, the code c with the blocks R that are reachable in it, and  *)
(* the linked blocks I, so that they can be said of the part of the stack  *)
(* that an action leaves alone, before and after the code has changed.     *)

\* The point of the program that the trail has come to.
Point == FlowOf(trail)
Points == [live : BOOLEAN, saved : Seq(BOOLEAN)]

\* Control comes to the insertion point.
Open(s) == FirstTerminator(s) = 0
Alive == insertBlock \in Reachable /\ Open(code[insertBlock])

\* A return is on the trail as soon as it is entered, its value still to come.
Returning(F) == \E i \in 1..Len(F) : F[i].kind = "return"

\* The handlers with an entry in `saved`: frame i has entry i - 1.
Savers == {"if.cond", "if.then", "ifelse.cond", "ifelse.then", "ifelse.else",
           "while.cond", "while.body"}
Aligned(F, V) ==
    /\ Len(V) < Len(F)
    /\ \A i \in 1..Len(F) : F[i].kind \in Savers <=> i - 1 \in 1..Len(V)

\* Blocks that are not linked are empty; a handler holds its own of them.
Linked(c, I) == 1 \in I /\ \A b \in 1..Len(c) : b \notin I => c[b] = <<>>
Owned(f) == IF f.kind = "ifelse.then" THEN {f.blk, f.end}
            ELSE IF f.kind \in HoldsEnd THEN {f.end} ELSE {}
OwnsWell(f) == f.kind = "ifelse.then" => f.blk # f.end
Detached(F, I) ==
    /\ \A i \in 1..Len(F) : OwnsWell(F[i]) /\ Owned(F[i]) \cap I = {}
    /\ \A i, j \in 1..Len(F) : i # j => Owned(F[i]) \cap Owned(F[j]) = {}

\* What a handler whose entry is s has made reachable so far, if control comes
\* to the insertion point exactly if A.
Conditions == {"if.cond", "ifelse.cond", "while.cond"}
Joins == {"if.then", "ifelse.else", "while.body"}
Branches == {"while.cond", "while.body", "ifelse.then"}
Flows(f, s, A, R, c) ==
    /\ f.kind \in Conditions => (s <=> A)
    /\ f.kind \in Joins => (s <=> f.end \in R)
    /\ f.kind \in Branches => (s <=> f.blk \in R)
    /\ f.kind = "ifelse.then" => f.end \notin R
    /\ f.kind = "logical.rhs" =>
          /\ f.end \in R <=> A
          /\ f.end \in R => f.end \in Targets(c[f.from])
FramesFlow(F, V, A, R, c) ==
    \A i \in 1..Len(F) : Flows(F[i], V[i - 1], A, R, c)

\* Control comes here, or (B) has come to the end of the statement that ends,
\* only where it came to the statements around, but for a branch `else`, whose
\* entry is about the branch before it.
Nested(F, V, B) ==
    \A j \in 1..Len(V) : F[j + 1].kind # "ifelse.else" =>
        /\ B => V[j]
        /\ \A k \in j..Len(V) : V[k] => V[j]

Mirrors(F, V, A, B, I, R, c) ==
    /\ Aligned(F, V) /\ Detached(F, I) /\ FramesFlow(F, V, A, R, c)
    /\ Nested(F, V, B)

\* SkippedOperandReachesPhi.
PhisOK(c, I, R) ==
    \A b \in I \cap R : \A i \in 1..Len(c[b]) :
        c[b][i].op = "phi" =>
            c[b][i].blocks[1] \in {a \in I : b \in Targets(c[a])}

FlowInv ==
    /\ mode # "exit" => warnings <= MaxWarnings
    /\ PhisOK(code, inserted, Reachable)
    /\ Working =>
          /\ Point \in Points /\ Linked(code, inserted)
          /\ Point.live <=> (Alive /\ ~Returning(frames))
          /\ Mirrors(frames, Point.saved, Alive, Alive, inserted, Reachable, code)

-----------------------------------------------------------------------------
(* What the fold over the trail and the fixed point over the graph compute.*)
(* A recursive function is known by its equation only if some function     *)
(* satisfies it: one is put together from those on the first n numbers.    *)

\* A set of numbers that is not empty has a least element.
LEMMA LeastOf ==
    ASSUME NEW T \in SUBSET Nat, T # {}
    PROVE  \E x \in T : \A y \in T : x <= y
<1> DEFINE R == {ss \in Nat \X Nat : ss[1] < ss[2]}
<1>1. IsWellFoundedOn(R, Nat)
  BY NatLessThanWellFounded DEF OpToRel
<1>2. PICK x \in T : \A y \in T : <<y, x>> \notin R
  <2> HIDE DEF R
  <2> QED BY <1>1, WFMin
<1>3. \A y \in T : x <= y
  <2> SUFFICES ASSUME NEW y \in T PROVE x <= y
    OBVIOUS
  <2>1. <<y, x>> \notin R /\ <<y, x>> \in Nat \X Nat
    BY <1>2
  <2>2. ~(<<y, x>>[1] < <<y, x>>[2])
    BY <2>1
  <2>3. x \in Nat /\ y \in Nat
    OBVIOUS
  <2> QED BY <2>2, <2>3
<1> QED BY <1>3

\* The first n points of a trail.
PointsUpTo(p, t, n) ==
    /\ p = [k \in 0..n |-> p[k]] /\ p[0] = StartOfBody
    /\ \A k \in 1..n : p[k] = Flow(p[k - 1], t[k])

\* Trails that begin alike come to the same points.
LEMMA PointsAgree ==
    ASSUME NEW t, NEW u, NEW m \in Nat, NEW n \in Nat, NEW p, NEW q,
           PointsUpTo(p, t, m), PointsUpTo(q, u, n), m <= n,
           \A k \in 1..m : t[k] = u[k]
    PROVE  \A k \in 0..m : p[k] = q[k]
<1> DEFINE T == {k \in 0..m : p[k] # q[k]}
<1>1. SUFFICES ASSUME T # {} PROVE FALSE
  OBVIOUS
<1>2. T \in SUBSET Nat
  OBVIOUS
<1>3. PICK x \in T : \A y \in T : x <= y
  <2> HIDE DEF T
  <2> QED BY <1>1, <1>2, LeastOf
<1>4. x \in 0..m /\ p[x] # q[x] /\ x # 0
  BY <1>3 DEF PointsUpTo
<1>5. x - 1 \in 0..m /\ x \in 1..m /\ x \in 1..n /\ ~(x <= x - 1)
  BY <1>4
<1>6. x - 1 \notin T
  <2> HIDE DEF T
  <2> QED BY <1>3, <1>5
<1>7. p[x - 1] = q[x - 1]
  BY <1>5, <1>6
<1>8. p[x] = Flow(p[x - 1], t[x]) /\ q[x] = Flow(q[x - 1], u[x]) /\ t[x] = u[x]
  BY <1>5 DEF PointsUpTo
<1> QED BY <1>4, <1>7, <1>8

\* Every trail has points.
LEMMA PointsExist ==
    ASSUME NEW t, NEW n \in Nat
    PROVE  \E p : PointsUpTo(p, t, n)
<1> DEFINE T == {k \in Nat : ~\E p : PointsUpTo(p, t, k)}
<1>1. SUFFICES ASSUME T # {} PROVE FALSE
  OBVIOUS
<1>2. T \in SUBSET Nat
  OBVIOUS
<1>3. PICK x \in T : \A y \in T : x <= y
  <2> HIDE DEF T
  <2> QED BY <1>1, <1>2, LeastOf
<1>4. x \in Nat /\ ~\E p : PointsUpTo(p, t, x)
  BY <1>3
<1>5. CASE x = 0
  <2> DEFINE p == [k \in 0..0 |-> StartOfBody]
  <2>1. p = [k \in 0..0 |-> p[k]] /\ p[0] = StartOfBody
    OBVIOUS
  <2>2. \A k \in 1..0 : p[k] = Flow(p[k - 1], t[k])
    OBVIOUS
  <2> HIDE DEF p
  <2>3. PointsUpTo(p, t, 0)
    BY <2>1, <2>2 DEF PointsUpTo
  <2> QED BY <1>4, <1>5, <2>3
<1>6. CASE x # 0
  <2>1. x - 1 \in Nat /\ ~(x <= x - 1)
    BY <1>4, <1>6
  <2>2. x - 1 \notin T
    <3> HIDE DEF T
    <3> QED BY <1>3, <2>1
  <2>3. PICK q : PointsUpTo(q, t, x - 1)
    BY <2>1, <2>2
  <2> DEFINE p == [k \in 0..x |-> IF k = x THEN Flow(q[x - 1], t[x]) ELSE q[k]]
  <2>4. p = [k \in 0..x |-> p[k]] /\ p[0] = StartOfBody
    BY <1>4, <1>6, <2>3 DEF PointsUpTo
  <2>5. ASSUME NEW k \in 1..x PROVE p[k] = Flow(p[k - 1], t[k])
    <3>1. k - 1 \in 0..x /\ k - 1 # x /\ k \in 0..x
      BY <1>4, <2>5
    <3>2. p[k - 1] = q[k - 1]
      BY <3>1
    <3>3. CASE k = x
      BY <3>1, <3>2, <3>3
    <3>4. CASE k # x
      <4>1. k \in 1..(x - 1)
        BY <1>4, <2>5, <3>4
      <4>2. q[k] = Flow(q[k - 1], t[k])
        BY <2>3, <4>1 DEF PointsUpTo
      <4> QED BY <3>1, <3>2, <3>4, <4>2
    <3> QED BY <3>3, <3>4
  <2> HIDE DEF p
  <2>6. PointsUpTo(p, t, x)
    BY <2>4, <2>5 DEF PointsUpTo
  <2> QED BY <1>4, <2>6
<1> QED BY <1>5, <1>6

\* The function that FlowOf defines.
PointsOf(g, t) == g = [n \in Nat |-> IF n = 0 THEN StartOfBody
                                     ELSE Flow(g[n - 1], t[n])]
\* FlowOf is the last value of a function that satisfies its equation.
LEMMA FlowDefined ==
    ASSUME NEW t
    PROVE  \E g : PointsOf(g, t) /\ FlowOf(t) = g[Len(t)]
<1> DEFINE upTo(n) == CHOOSE p : PointsUpTo(p, t, n)
           G == [n \in Nat |-> upTo(n)[n]]
           h == CHOOSE g : g = [n \in Nat |-> IF n = 0 THEN StartOfBody
                                              ELSE Flow(g[n - 1], t[n])]
<1>1. ASSUME NEW n \in Nat PROVE PointsUpTo(upTo(n), t, n)
  BY PointsExist
<1> HIDE DEF upTo
<1>2. ASSUME NEW n \in Nat
      PROVE  upTo(n)[n] = IF n = 0 THEN StartOfBody ELSE Flow(upTo(n - 1)[n - 1], t[n])
  <2>1. CASE n = 0
    BY <1>1, <2>1 DEF PointsUpTo
  <2>2. CASE n # 0
    <3>1. n - 1 \in Nat /\ n - 1 <= n /\ n \in 1..n /\ n - 1 \in 0..(n - 1)
      BY <2>2
    <3>2. PointsUpTo(upTo(n), t, n) /\ PointsUpTo(upTo(n - 1), t, n - 1)
      BY <1>1, <3>1
    <3>3. upTo(n - 1)[n - 1] = upTo(n)[n - 1]
      <4> DEFINE p == upTo(n - 1)
                 q == upTo(n)
                 m == n - 1
      <4>1. m \in Nat /\ m <= n /\ PointsUpTo(p, t, m) /\ PointsUpTo(q, t, n) /\ m \in 0..m
        BY <3>1, <3>2
      <4> HIDE DEF p, q, m
      <4>2. \A k \in 0..m : p[k] = q[k]
        BY <4>1, PointsAgree
      <4> QED BY <4>1, <4>2 DEF p, q, m
    <3>4. upTo(n)[n] = Flow(upTo(n)[n - 1], t[n])
      BY <3>1, <3>2 DEF PointsUpTo
    <3> QED BY <2>2, <3>3, <3>4
  <2> QED BY <2>1, <2>2
<1>3. G = [n \in Nat |-> IF n = 0 THEN StartOfBody ELSE Flow(G[n - 1], t[n])]
  <2>1. ASSUME NEW n \in Nat
        PROVE  upTo(n)[n] = IF n = 0 THEN StartOfBody ELSE Flow(G[n - 1], t[n])
    <3>1. CASE n = 0
      BY <1>2, <3>1
    <3>2. CASE n # 0
      <4>1. n - 1 \in Nat
        BY <3>2
      <4>2. G[n - 1] = upTo(n - 1)[n - 1]
        BY <4>1
      <4> QED BY <1>2, <3>2, <4>2
    <3> QED BY <3>1, <3>2
  <2> QED BY <2>1
<1> HIDE DEF G
<1>4. h = [n \in Nat |-> IF n = 0 THEN StartOfBody ELSE Flow(h[n - 1], t[n])]
  BY <1>3
<1>5. FlowOf(t) = h[Len(t)]
  BY DEF FlowOf
<1> HIDE DEF h
<1>6. PointsOf(h, t)
  BY <1>4 DEF PointsOf
<1> QED BY <1>5, <1>6

\* Such a function, cut off, gives the points of the trail.
LEMMA PointsOfUpTo ==
    ASSUME NEW t, NEW g, PointsOf(g, t), NEW n \in Nat
    PROVE  PointsUpTo([k \in 0..n |-> g[k]], t, n)
<1> DEFINE p == [k \in 0..n |-> g[k]]
<1>1. \A k \in Nat : g[k] = IF k = 0 THEN StartOfBody ELSE Flow(g[k - 1], t[k])
  BY DEF PointsOf
<1>2. p = [k \in 0..n |-> p[k]] /\ p[0] = StartOfBody
  BY <1>1
<1>3. ASSUME NEW k \in 1..n PROVE p[k] = Flow(p[k - 1], t[k])
  <2>1. k \in Nat /\ k # 0 /\ k - 1 \in 0..n /\ k \in 0..n
    BY <1>3
  <2>2. p[k] = g[k] /\ p[k - 1] = g[k - 1]
    BY <2>1
  <2> QED BY <1>1, <2>1, <2>2
<1> HIDE DEF p
<1>4. PointsUpTo(p, t, n)
  BY <1>2, <1>3 DEF PointsUpTo
<1> QED BY <1>4 DEF p

\* The point at the start of a body, and after one more entry of the trail.
LEMMA FlowStarts == FlowOf(<<>>) = StartOfBody
<1>1. PICK g : PointsOf(g, <<>>) /\ FlowOf(<<>>) = g[Len(<<>>)]
  BY FlowDefined
<1> QED BY <1>1 DEF PointsOf

LEMMA FlowGoesOn ==
    ASSUME NEW S, NEW t \in Seq(S), NEW e \in S
    PROVE  FlowOf(Append(t, e)) = Flow(FlowOf(t), e)
<1> DEFINE u == Append(t, e)
           n == Len(t)
<1>1. /\ n \in Nat /\ n + 1 \in Nat /\ Len(u) = n + 1 /\ u[n + 1] = e
      /\ \A k \in 1..n : t[k] = u[k]
  OBVIOUS
<1>2. PICK g : PointsOf(g, t) /\ FlowOf(t) = g[n]
  BY FlowDefined
<1> HIDE DEF u, n
<1>3. PICK h : PointsOf(h, u) /\ FlowOf(u) = h[Len(u)]
  BY FlowDefined
<1> DEFINE p == [k \in 0..n |-> g[k]]
           q == [k \in 0..n |-> h[k]]
<1>4. PointsUpTo(p, t, n) /\ PointsUpTo(q, u, n)
  BY <1>1, <1>2, <1>3, PointsOfUpTo
<1>5. p[n] = g[n] /\ q[n] = h[n] /\ n \in 0..n /\ n <= n
  BY <1>1
<1> HIDE DEF p, q
<1>6. p[n] = q[n]
  <2> DEFINE m == n
  <2>1. /\ m \in Nat /\ n \in Nat /\ m <= n /\ m \in 0..m
        /\ PointsUpTo(p, t, m) /\ PointsUpTo(q, u, n)
        /\ \A k \in 1..m : t[k] = u[k]
    BY <1>1, <1>4
  <2>2. m = n
    OBVIOUS
  <2> HIDE DEF m
  <2>3. \A k \in 0..m : p[k] = q[k]
    BY <2>1, PointsAgree
  <2> QED BY <2>1, <2>2, <2>3
<1>7. h[n + 1] = Flow(h[n], u[n + 1])
  <2>1. n + 1 # 0 /\ n + 1 - 1 = n
    BY <1>1
  <2>2. h[n + 1] = IF n + 1 = 0 THEN StartOfBody ELSE Flow(h[n + 1 - 1], u[n + 1])
    BY <1>1, <1>3 DEF PointsOf
  <2> QED BY <2>1, <2>2
<1>8. FlowOf(u) = Flow(FlowOf(t), e)
  BY <1>1, <1>2, <1>3, <1>5, <1>6, <1>7
<1> QED BY <1>8 DEF u

-----------------------------------------------------------------------------
(* Terminators and targets.                                                *)

\* FirstTerminator is the least position of a terminator, or 0.
LEMMA FirstIs ==
    ASSUME NEW s, Len(s) \in Nat
    PROVE  /\ FirstTerminator(s) \in 0..Len(s)
           /\ FirstTerminator(s) = 0 <=> \A i \in 1..Len(s) : ~IsTerminator(s[i])
           /\ FirstTerminator(s) # 0 =>
                 /\ IsTerminator(s[FirstTerminator(s)])
                 /\ \A i \in 1..Len(s) : i < FirstTerminator(s) => ~IsTerminator(s[i])
<1> DEFINE T == {i \in 1..Len(s) : IsTerminator(s[i])}
<1>1. FirstTerminator(s) = IF T # {} THEN Min(T) ELSE 0
  BY DEF FirstTerminator, SelectInSeq
<1>2. CASE T = {}
  BY <1>1, <1>2
<1>3. CASE T # {}
  <2>1. T \in SUBSET Nat
    OBVIOUS
  <2>2. \E x \in T : \A y \in T : x <= y
    <3> HIDE DEF T
    <3> QED BY <1>3, <2>1, LeastOf
  <2>3. Min(T) \in T /\ \A y \in T : Min(T) <= y
    <3> HIDE DEF T
    <3> QED BY <2>2 DEF Min
  <2>4. FirstTerminator(s) = Min(T)
    BY <1>1, <1>3
  <2> DEFINE f == FirstTerminator(s)
  <2>5. f \in T /\ \A y \in T : f <= y
    BY <2>3, <2>4
  <2> HIDE DEF f
  <2>6. f \in 1..Len(s) /\ IsTerminator(s[f]) /\ f # 0
    BY <2>5
  <2>7. \A i \in 1..Len(s) : i < f => ~IsTerminator(s[i])
    BY <2>5, <2>6
  <2> QED BY <2>6, <2>7 DEF f
<1> QED BY <1>2, <1>3

\* ... and nothing else is.
LEMMA FirstAt ==
    ASSUME NEW s, Len(s) \in Nat, NEW k \in 1..Len(s), IsTerminator(s[k]),
           \A i \in 1..Len(s) : i < k => ~IsTerminator(s[i])
    PROVE  FirstTerminator(s) = k
<1> DEFINE f == FirstTerminator(s)
<1>1. f \in 1..Len(s) /\ IsTerminator(s[f]) /\ \A i \in 1..Len(s) : i < f => ~IsTerminator(s[i])
  BY FirstIs
<1> HIDE DEF f
<1>2. ~(f < k) /\ ~(k < f)
  BY <1>1
<1>3. f = k
  BY <1>1, <1>2
<1> QED BY <1>3 DEF f

\* The code up to the first terminator is what counts.
LEMMA SameUpTo ==
    ASSUME NEW s, NEW d, Len(s) \in Nat, Len(d) \in Nat, ~Open(s),
           FirstTerminator(s) <= Len(d),
           \A i \in 1..FirstTerminator(s) : d[i] = s[i]
    PROVE  FirstTerminator(d) = FirstTerminator(s) /\ Targets(d) = Targets(s) /\ ~Open(d)
<1> DEFINE f == FirstTerminator(s)
<1>1. /\ f \in 1..Len(s) /\ IsTerminator(s[f])
      /\ \A i \in 1..Len(s) : i < f => ~IsTerminator(s[i])
  BY FirstIs DEF Open
<1>2. f <= Len(d) /\ \A i \in 1..f : d[i] = s[i]
  OBVIOUS
<1> HIDE DEF f
<1>3. f \in 1..Len(d) /\ f \in 1..f /\ IsTerminator(d[f]) /\ f # 0
  BY <1>1, <1>2
<1>4. ASSUME NEW i \in 1..Len(d), i < f PROVE ~IsTerminator(d[i])
  <2>1. i \in 1..f /\ i \in 1..Len(s)
    BY <1>1, <1>4
  <2> QED BY <1>1, <1>2, <1>4, <2>1
<1>5. FirstTerminator(d) = f
  BY <1>3, <1>4, FirstAt
<1>6. d[f] = s[f]
  BY <1>2, <1>3
<1> QED BY <1>3, <1>5, <1>6 DEF Targets, Open, f

\* A block without a terminator leads nowhere.
LEMMA OpenTargets == \A s : Open(s) => Targets(s) = {}
BY DEF Open, Targets

\* An instruction at the end counts only if the block was open.
LEMMA AppendTargets ==
    ASSUME NEW s \in Seq(Instr), NEW i \in Instr
    PROVE  /\ Open(Append(s, i)) <=> (Open(s) /\ ~IsTerminator(i))
           /\ Targets(Append(s, i)) =
                 IF Open(s) /\ IsTerminator(i) THEN Range(i.blocks) ELSE Targets(s)
<1> DEFINE d == Append(s, i)
           n == Len(s)
<1>1. /\ n \in Nat /\ Len(d) = n + 1 /\ d[n + 1] = i
      /\ \A j \in 1..n : d[j] = s[j]
      /\ Len(s) \in Nat /\ Len(d) \in Nat
  OBVIOUS
<1>2. CASE ~Open(s)
  <2>1. FirstTerminator(s) \in 0..n /\ FirstTerminator(s) # 0
    BY <1>1, <1>2, FirstIs DEF Open
  <2> DEFINE f == FirstTerminator(s)
  <2>2. f \in 0..n
    BY <2>1
  <2> HIDE DEF d, n, f
  <2>3. f <= Len(d) /\ \A j \in 1..f : d[j] = s[j]
    BY <1>1, <2>2
  <2>4. Targets(d) = Targets(s) /\ ~Open(d)
    BY <1>1, <1>2, <2>3, SameUpTo DEF f
  <2> QED BY <1>2, <2>4 DEF d
<1>3. CASE Open(s)
  <2> HIDE DEF d
  <2>1. \A j \in 1..n : ~IsTerminator(s[j])
    BY <1>1, <1>3, FirstIs DEF Open
  <2> HIDE DEF n
  <2>2. \A j \in 1..n : ~IsTerminator(d[j])
    BY <1>1, <2>1
  <2>3. CASE IsTerminator(i)
    <3>1. n + 1 \in 1..Len(d) /\ IsTerminator(d[n + 1]) /\ n + 1 # 0
      BY <1>1, <2>3
    <3>2. \A j \in 1..Len(d) : j < n + 1 => ~IsTerminator(d[j])
      BY <1>1, <2>2
    <3>3. FirstTerminator(d) = n + 1
      BY <1>1, <3>1, <3>2, FirstAt
    <3>4. ~Open(d) /\ Targets(d) = Range(i.blocks)
      BY <1>1, <3>1, <3>3 DEF Open, Targets
    <3> QED BY <1>3, <2>3, <3>4 DEF d
  <2>4. CASE ~IsTerminator(i)
    <3>1. \A j \in 1..Len(d) : ~IsTerminator(d[j])
      BY <1>1, <2>2, <2>4
    <3>2. Open(d)
      BY <1>1, <3>1, FirstIs DEF Open
    <3>3. Targets(d) = Targets(s)
      BY <1>3, <3>2, OpenTargets
    <3> QED BY <1>3, <2>4, <3>2, <3>3 DEF d
  <2> QED BY <2>3, <2>4
<1> QED BY <1>2, <1>3

\* An alloca in front.
LEMMA PrependTargets ==
    ASSUME NEW s \in Seq(Instr)
    PROVE  /\ Open(<<Alloca>> \o s) <=> Open(s)
           /\ Targets(<<Alloca>> \o s) = Targets(s)
<1> DEFINE d == <<Alloca>> \o s
           n == Len(s)
<1>0. Alloca \in Instr /\ ~IsTerminator(Alloca)
  BY InstrTypes DEF IsTerminator, Alloca, Terminators
<1>1. /\ n \in Nat /\ Len(d) = n + 1 /\ d[1] = Alloca
      /\ \A j \in 1..n : d[j + 1] = s[j]
      /\ Len(s) \in Nat /\ Len(d) \in Nat
  BY <1>0
<1> HIDE DEF d
<1>2. CASE Open(s)
  <2>1. \A j \in 1..n : ~IsTerminator(s[j])
    BY <1>1, <1>2, FirstIs DEF Open
  <2> HIDE DEF n
  <2>2. ASSUME NEW j \in 1..Len(d) PROVE ~IsTerminator(d[j])
    <3>1. CASE j = 1
      BY <1>0, <1>1, <3>1
    <3>2. CASE j # 1
      <4>1. j - 1 \in 1..n /\ d[j - 1 + 1] = s[j - 1] /\ j - 1 + 1 = j
        BY <1>1, <3>2
      <4> QED BY <2>1, <4>1
    <3> QED BY <3>1, <3>2
  <2>3. Open(d)
    BY <1>1, <2>2, FirstIs DEF Open
  <2> QED BY <1>2, <2>3, OpenTargets DEF d
<1>3. CASE ~Open(s)
  <2> DEFINE f == FirstTerminator(s)
  <2>1. /\ f \in 1..Len(s) /\ IsTerminator(s[f])
        /\ \A i \in 1..Len(s) : i < f => ~IsTerminator(s[i])
    BY <1>1, <1>3, FirstIs DEF Open
  <2> HIDE DEF f
  <2>2. f \in 1..n /\ f + 1 \in 1..Len(d) /\ d[f + 1] = s[f] /\ f + 1 # 0 /\ f # 0
    BY <1>1, <2>1
  <2> HIDE DEF n
  <2>3. ASSUME NEW j \in 1..Len(d), j < f + 1 PROVE ~IsTerminator(d[j])
    <3>1. CASE j = 1
      BY <1>0, <1>1, <3>1
    <3>2. CASE j # 1
      <4>1. j - 1 \in 1..n /\ d[j - 1 + 1] = s[j - 1] /\ j - 1 + 1 = j /\ j - 1 < f
        BY <1>1, <2>3, <3>2, <2>1
      <4> QED BY <1>1, <2>1, <4>1 DEF n
    <3> QED BY <3>1, <3>2
  <2>4. FirstTerminator(d) = f + 1
    BY <1>1, <2>1, <2>2, <2>3, FirstAt
  <2>5. ~Open(d) /\ Targets(d) = Targets(s)
    BY <2>2, <2>4 DEF Open, Targets, f
  <2> QED BY <1>3, <2>5 DEF d
<1> QED BY <1>2, <1>3

\* A new block is open.
LEMMA EmptyIsOpen == Open(<<>>) /\ Targets(<<>>) = {}
<1>1. Len(<<>>) = 0 /\ \A i \in 1..0 : ~IsTerminator(<<>>[i])
  OBVIOUS
<1>2. Open(<<>>)
  BY <1>1, FirstIs DEF Open
<1> QED BY <1>2, OpenTargets

\* Targets exist.
LEMMA TargetsExist ==
    ASSUME NEW s \in Seq(Instr), NEW n \in Nat, \A i \in 1..Len(s) : RefersBelow(s[i], n)
    PROVE  Targets(s) \subseteq 1..n
<1>1. CASE Open(s)
  BY <1>1, OpenTargets
<1>2. CASE ~Open(s)
  <2> DEFINE f == FirstTerminator(s)
  <2>1. f \in 1..Len(s) /\ f # 0
    BY <1>2, FirstIs DEF Open
  <2>2. Targets(s) = Range(s[f].blocks)
    BY <2>1 DEF Targets
  <2> HIDE DEF f
  <2>3. s[f] \in Instr /\ RefersBelow(s[f], n)
    BY <2>1
  <2>4. s[f].blocks \in Seq(Nat)
    BY <2>3 DEF Instr
  <2> QED BY <2>2, <2>3, <2>4 DEF RefersBelow, Range
<1> QED BY <1>1, <1>2

-----------------------------------------------------------------------------
(* Reachable blocks.                                                       *)

\* The blocks jump as they did.
SameTargets(c, d) ==
    Len(d) = Len(c) /\ \A b \in 1..Len(c) : Targets(d[b]) = Targets(c[b])

\* The targets of blocks exist.
Graph(c) == /\ Len(c) \in Nat /\ Len(c) > 0
            /\ \A b \in 1..Len(c) : Targets(c[b]) \subseteq 1..Len(c)

NextTo(c, X) == X \cup UNION {Targets(c[b]) : b \in X}
WithinUpTo(p, c, n) ==
    /\ p = [k \in 0..n |-> p[k]] /\ p[0] = {1}
    /\ \A k \in 1..n : p[k] = NextTo(c, p[k - 1])

\* Every graph has the sets within n steps of its entry.
LEMMA WithinExists ==
    ASSUME NEW c, NEW n \in Nat
    PROVE  \E p : WithinUpTo(p, c, n)
<1> DEFINE T == {k \in Nat : ~\E p : WithinUpTo(p, c, k)}
<1>1. SUFFICES ASSUME T # {} PROVE FALSE
  OBVIOUS
<1>2. T \in SUBSET Nat
  OBVIOUS
<1>3. PICK x \in T : \A y \in T : x <= y
  <2> HIDE DEF T
  <2> QED BY <1>1, <1>2, LeastOf
<1>4. x \in Nat /\ ~\E p : WithinUpTo(p, c, x)
  BY <1>3
<1>5. CASE x = 0
  <2> DEFINE p == [k \in 0..0 |-> {1}]
  <2>1. p = [k \in 0..0 |-> p[k]] /\ p[0] = {1}
    OBVIOUS
  <2>2. \A k \in 1..0 : p[k] = NextTo(c, p[k - 1])
    OBVIOUS
  <2> HIDE DEF p
  <2>3. WithinUpTo(p, c, 0)
    BY <2>1, <2>2 DEF WithinUpTo
  <2> QED BY <1>4, <1>5, <2>3
<1>6. CASE x # 0
  <2>1. x - 1 \in Nat /\ ~(x <= x - 1)
    BY <1>4, <1>6
  <2>2. x - 1 \notin T
    <3> HIDE DEF T
    <3> QED BY <1>3, <2>1
  <2>3. PICK q : WithinUpTo(q, c, x - 1)
    BY <2>1, <2>2
  <2> DEFINE p == [k \in 0..x |-> IF k = x THEN NextTo(c, q[x - 1]) ELSE q[k]]
  <2>4. p = [k \in 0..x |-> p[k]] /\ p[0] = {1}
    <3>1. q[0] = {1} /\ 0 \in 0..x /\ 0 # x
      BY <1>4, <1>6, <2>3 DEF WithinUpTo
    <3> QED BY <3>1
  <2>5. ASSUME NEW k \in 1..x PROVE p[k] = NextTo(c, p[k - 1])
    <3>1. k - 1 \in 0..x /\ k - 1 # x /\ k \in 0..x
      BY <1>4, <2>5
    <3>2. p[k - 1] = q[k - 1]
      BY <3>1
    <3>3. CASE k = x
      BY <3>1, <3>2, <3>3
    <3>4. CASE k # x
      <4>1. k \in 1..(x - 1)
        BY <1>4, <2>5, <3>4
      <4>2. q[k] = NextTo(c, q[k - 1])
        BY <2>3, <4>1 DEF WithinUpTo
      <4> QED BY <3>1, <3>2, <3>4, <4>2
    <3> QED BY <3>3, <3>4
  <2> HIDE DEF p
  <2>6. WithinUpTo(p, c, x)
    BY <2>4, <2>5 DEF WithinUpTo
  <2> QED BY <1>4, <2>6
<1> QED BY <1>5, <1>6

\* They are the same whatever number of steps they are part of.
LEMMA WithinAgrees ==
    ASSUME NEW c, NEW m \in Nat, NEW n \in Nat, NEW p, NEW q,
           WithinUpTo(p, c, m), WithinUpTo(q, c, n), m <= n
    PROVE  \A k \in 0..m : p[k] = q[k]
<1> DEFINE T == {k \in 0..m : p[k] # q[k]}
<1>1. SUFFICES ASSUME T # {} PROVE FALSE
  OBVIOUS
<1>2. T \in SUBSET Nat
  OBVIOUS
<1>3. PICK x \in T : \A y \in T : x <= y
  <2> HIDE DEF T
  <2> QED BY <1>1, <1>2, LeastOf
<1>4. x \in 0..m /\ p[x] # q[x] /\ x # 0
  BY <1>3 DEF WithinUpTo
<1>5. x - 1 \in 0..m /\ x \in 1..m /\ x \in 1..n /\ ~(x <= x - 1)
  BY <1>4
<1>6. x - 1 \notin T
  <2> HIDE DEF T
  <2> QED BY <1>3, <1>5
<1>7. p[x - 1] = q[x - 1]
  BY <1>5, <1>6
<1>8. p[x] = NextTo(c, p[x - 1]) /\ q[x] = NextTo(c, q[x - 1])
  BY <1>5 DEF WithinUpTo
<1> QED BY <1>4, <1>7, <1>8

\* The function that ReachableIn defines.
LEMMA WithinDefined ==
    ASSUME NEW c
    PROVE  \E g : /\ g[0] = {1}
                  /\ \A n \in Nat : g[n + 1] = NextTo(c, g[n])
                  /\ ReachableIn(c) = g[Len(c)]
<1> DEFINE upTo(n) == CHOOSE p : WithinUpTo(p, c, n)
           G == [n \in Nat |-> upTo(n)[n]]
           h == CHOOSE g : g = [n \in Nat |-> IF n = 0 THEN {1}
                                  ELSE g[n - 1] \cup UNION {Targets(c[b]) : b \in g[n - 1]}]
<1>1. ASSUME NEW n \in Nat PROVE WithinUpTo(upTo(n), c, n)
  BY WithinExists
<1> HIDE DEF upTo
<1>2. ASSUME NEW n \in Nat
      PROVE  upTo(n)[n] = IF n = 0 THEN {1} ELSE NextTo(c, upTo(n - 1)[n - 1])
  <2>1. CASE n = 0
    BY <1>1, <2>1 DEF WithinUpTo
  <2>2. CASE n # 0
    <3>1. n - 1 \in Nat /\ n - 1 <= n /\ n \in 1..n /\ n - 1 \in 0..(n - 1)
      BY <2>2
    <3>2. WithinUpTo(upTo(n), c, n) /\ WithinUpTo(upTo(n - 1), c, n - 1)
      BY <1>1, <3>1
    <3>3. upTo(n - 1)[n - 1] = upTo(n)[n - 1]
      <4> DEFINE p == upTo(n - 1)
                 q == upTo(n)
                 m == n - 1
      <4>1. m \in Nat /\ m <= n /\ WithinUpTo(p, c, m) /\ WithinUpTo(q, c, n) /\ m \in 0..m
        BY <3>1, <3>2
      <4> HIDE DEF p, q, m
      <4>2. \A k \in 0..m : p[k] = q[k]
        BY <4>1, WithinAgrees
      <4> QED BY <4>1, <4>2 DEF p, q, m
    <3>4. upTo(n)[n] = NextTo(c, upTo(n)[n - 1])
      BY <3>1, <3>2 DEF WithinUpTo
    <3> QED BY <2>2, <3>3, <3>4
  <2> QED BY <2>1, <2>2
<1>3. G = [n \in Nat |-> IF n = 0 THEN {1}
                         ELSE G[n - 1] \cup UNION {Targets(c[b]) : b \in G[n - 1]}]
  <2>1. ASSUME NEW n \in Nat
        PROVE  upTo(n)[n] = IF n = 0 THEN {1}
                            ELSE G[n - 1] \cup UNION {Targets(c[b]) : b \in G[n - 1]}
    <3>1. CASE n = 0
      BY <1>2, <3>1
    <3>2. CASE n # 0
      <4>1. n - 1 \in Nat
        BY <3>2
      <4>2. G[n - 1] = upTo(n - 1)[n - 1]
        BY <4>1
      <4> QED BY <1>2, <3>2, <4>2 DEF NextTo
    <3> QED BY <3>1, <3>2
  <2> QED BY <2>1
<1> HIDE DEF G
<1>4. h = [n \in Nat |-> IF n = 0 THEN {1}
                         ELSE h[n - 1] \cup UNION {Targets(c[b]) : b \in h[n - 1]}]
  BY <1>3
<1>5. ReachableIn(c) = h[Len(c)]
  BY DEF ReachableIn
<1> HIDE DEF h
<1>6. h[0] = {1}
  BY <1>4
<1>7. ASSUME NEW n \in Nat PROVE h[n + 1] = NextTo(c, h[n])
  <2>1. n + 1 \in Nat /\ n + 1 # 0 /\ n + 1 - 1 = n
    OBVIOUS
  <2>2. h[n + 1] = IF n + 1 = 0 THEN {1}
                   ELSE h[n + 1 - 1] \cup UNION {Targets(c[b]) : b \in h[n + 1 - 1]}
    BY <1>4, <2>1
  <2> QED BY <2>1, <2>2 DEF NextTo
<1> QED BY <1>5, <1>6, <1>7

ClosedIn(c, X) == 1 \in X /\ \A b \in X : Targets(c[b]) \subseteq X

\* After as many steps as there are blocks nothing is added: until then each
\* step adds a block.
LEMMA ReachIs ==
    ASSUME NEW c, Graph(c)
    PROVE  /\ ReachableIn(c) \subseteq 1..Len(c) /\ ClosedIn(c, ReachableIn(c))
           /\ \A X : ClosedIn(c, X) => ReachableIn(c) \subseteq X
<1> DEFINE L == Len(c)
<1>0. L \in Nat /\ L > 0 /\ \A b \in 1..L : Targets(c[b]) \subseteq 1..L
  BY DEF Graph
<1> HIDE DEF L
<1>1. PICK g : /\ g[0] = {1} /\ \A n \in Nat : g[n + 1] = NextTo(c, g[n])
               /\ ReachableIn(c) = g[L]
  BY WithinDefined DEF L
<1>2. ASSUME NEW X, ClosedIn(c, X), NEW n \in Nat PROVE g[n] \subseteq X
  <2> DEFINE T == {k \in Nat : ~(g[k] \subseteq X)}
  <2>1. SUFFICES ASSUME T # {} PROVE FALSE
    OBVIOUS
  <2>2. T \in SUBSET Nat
    OBVIOUS
  <2>3. PICK x \in T : \A y \in T : x <= y
    <3> HIDE DEF T
    <3> QED BY <2>1, <2>2, LeastOf
  <2>4. x \in Nat /\ ~(g[x] \subseteq X) /\ x # 0
    BY <1>1, <1>2, <2>3 DEF ClosedIn
  <2>5. x - 1 \in Nat /\ ~(x <= x - 1) /\ x - 1 + 1 = x
    BY <2>4
  <2>6. x - 1 \notin T
    <3> HIDE DEF T
    <3> QED BY <2>3, <2>5
  <2>7. g[x - 1] \subseteq X /\ g[x] = NextTo(c, g[x - 1])
    BY <1>1, <2>5, <2>6
  <2>8. g[x] \subseteq X
    BY <1>2, <2>7 DEF NextTo, ClosedIn
  <2> QED BY <2>4, <2>8
<1>3. ASSUME NEW n \in Nat PROVE g[n] \subseteq 1..L /\ 1 \in g[n]
  <2>1. ClosedIn(c, 1..L)
    BY <1>0 DEF ClosedIn
  <2>2. g[n] \subseteq 1..L
    BY <1>2, <2>1
  <2> DEFINE T == {k \in Nat : 1 \notin g[k]}
  <2>3. T = {}
    <3>1. SUFFICES ASSUME T # {} PROVE FALSE
      OBVIOUS
    <3>2. T \in SUBSET Nat
      OBVIOUS
    <3>3. PICK x \in T : \A y \in T : x <= y
      <4> HIDE DEF T
      <4> QED BY <3>1, <3>2, LeastOf
    <3>4. x \in Nat /\ 1 \notin g[x] /\ x # 0
      BY <1>1, <3>3
    <3>5. x - 1 \in Nat /\ ~(x <= x - 1) /\ x - 1 + 1 = x
      BY <3>4
    <3>6. x - 1 \notin T
      <4> HIDE DEF T
      <4> QED BY <3>3, <3>5
    <3>7. 1 \in g[x - 1] /\ g[x] = NextTo(c, g[x - 1])
      BY <1>1, <3>5, <3>6
    <3> QED BY <3>4, <3>7 DEF NextTo
  <2> QED BY <2>2, <2>3
<1>4. ASSUME NEW n \in Nat PROVE IsFiniteSet(g[n]) /\ Cardinality(g[n]) \in Nat
                                 /\ Cardinality(g[n]) <= L
  <2>1. IsFiniteSet(1..L) /\ Cardinality(1..L) = L
    BY <1>0, FS_Interval
  <2>2. g[n] \subseteq 1..L
    BY <1>3
  <2> QED BY <2>1, <2>2, FS_Subset, FS_CardinalityType
<1>5. ASSUME NEW n \in Nat
      PROVE  ClosedIn(c, g[n]) \/ Cardinality(g[n]) > n
  <2> DEFINE T == {k \in Nat : ~(ClosedIn(c, g[k]) \/ Cardinality(g[k]) > k)}
  <2>1. SUFFICES ASSUME T # {} PROVE FALSE
    OBVIOUS
  <2>2. T \in SUBSET Nat
    OBVIOUS
  <2>3. PICK x \in T : \A y \in T : x <= y
    <3> HIDE DEF T
    <3> QED BY <2>1, <2>2, LeastOf
  <2>4. x \in Nat /\ ~ClosedIn(c, g[x]) /\ ~(Cardinality(g[x]) > x)
    BY <2>3
  <2>5. x # 0
    <3>1. Cardinality({1}) = 1
      BY FS_Singleton
    <3> QED BY <1>1, <2>4, <3>1
  <2>6. x - 1 \in Nat /\ ~(x <= x - 1) /\ x - 1 + 1 = x
    BY <2>4, <2>5
  <2>7. x - 1 \notin T
    <3> HIDE DEF T
    <3> QED BY <2>3, <2>6
  <2> DEFINE a == g[x - 1]
             b == g[x]
  <2>8. ClosedIn(c, a) \/ Cardinality(a) > x - 1
    BY <2>6, <2>7
  <2>9. b = NextTo(c, a) /\ a \subseteq b
    <3>1. g[x] = NextTo(c, g[x - 1])
      BY <1>1, <2>6
    <3> QED BY <3>1 DEF NextTo
  <2>10. 1 \in a /\ 1 \in b
    BY <1>3, <2>4, <2>6
  <2> HIDE DEF a, b
  <2>11. CASE a = b
    <3>1. ClosedIn(c, b)
      BY <2>9, <2>10, <2>11 DEF NextTo, ClosedIn
    <3> QED BY <2>4, <3>1 DEF b
  <2>12. CASE a # b
    <3>1. IsFiniteSet(b) /\ Cardinality(a) \in Nat /\ Cardinality(b) \in Nat
      BY <1>4, <2>4, <2>6 DEF a, b
    <3>2. ~ClosedIn(c, a)
      BY <2>9, <2>12 DEF NextTo, ClosedIn
    <3>3. Cardinality(a) <= Cardinality(b) /\ (Cardinality(a) = Cardinality(b) => a = b)
      BY <2>9, <3>1, FS_Subset
    <3>4. Cardinality(b) > x
      BY <2>4, <2>8, <2>12, <3>1, <3>2, <3>3
    <3> QED BY <2>4, <3>4 DEF b
  <2> QED BY <2>11, <2>12
<1>6. ClosedIn(c, g[L])
  <2>1. Cardinality(g[L]) \in Nat /\ Cardinality(g[L]) <= L
    BY <1>0, <1>4
  <2> QED BY <1>0, <1>5, <2>1
<1>7. g[L] \subseteq 1..L /\ \A X : ClosedIn(c, X) => g[L] \subseteq X
  BY <1>0, <1>2, <1>3
<1> QED BY <1>1, <1>6, <1>7 DEF L

\* What is reachable depends on the targets of the blocks only.
LEMMA ReachSame ==
    ASSUME NEW c, NEW d, Graph(c), SameTargets(c, d)
    PROVE  ReachableIn(d) = ReachableIn(c) /\ Graph(d)
<1>0. Len(d) = Len(c) /\ \A b \in 1..Len(c) : Targets(d[b]) = Targets(c[b])
  BY DEF SameTargets
<1>1. Graph(d)
  BY <1>0 DEF Graph
<1>2. ReachableIn(c) \subseteq 1..Len(c) /\ ClosedIn(c, ReachableIn(c))
  BY ReachIs
<1>3. ReachableIn(d) \subseteq 1..Len(c) /\ ClosedIn(d, ReachableIn(d))
  BY <1>0, <1>1, ReachIs
<1>4. ClosedIn(d, ReachableIn(c))
  BY <1>0, <1>2 DEF ClosedIn
<1>5. ClosedIn(c, ReachableIn(d))
  BY <1>0, <1>3 DEF ClosedIn
<1>6. ReachableIn(d) \subseteq ReachableIn(c)
  BY <1>0, <1>1, <1>2, <1>4, ReachIs
<1>7. ReachableIn(c) \subseteq ReachableIn(d)
  BY <1>0, <1>3, <1>5, ReachIs
<1> QED BY <1>1, <1>6, <1>7

\* The block b gets targets X, all of them known to be reachable, or empty, if
\* control comes to the end of b.
LEMMA ReachMore ==
    ASSUME NEW c, NEW d, Graph(c), Len(d) \in Nat, Len(c) <= Len(d),
           NEW b \in 1..Len(c), NEW X \in SUBSET (1..Len(d)),
           \A a \in 1..Len(c) : a # b => Targets(d[a]) = Targets(c[a]),
           \A a \in 1..Len(d) : a > Len(c) => Targets(d[a]) = {},
           Targets(d[b]) = IF Open(c[b]) THEN X ELSE Targets(c[b]),
           b \in ReachableIn(c) /\ Open(c[b]) =>
              \A x \in X : x \in ReachableIn(c) \/ x > Len(c) \/ Targets(c[x]) = {}
    PROVE  /\ ReachableIn(d) = ReachableIn(c) \cup
                 (IF b \in ReachableIn(c) /\ Open(c[b]) THEN X ELSE {})
           /\ Graph(d)
<1> DEFINE R == ReachableIn(c)
           D == ReachableIn(d)
           N == IF b \in R /\ Open(c[b]) THEN X ELSE {}
<1>0. Len(c) \in Nat /\ Len(c) > 0 /\ \A a \in 1..Len(c) : Targets(c[a]) \subseteq 1..Len(c)
  BY DEF Graph
<1>1. R \subseteq 1..Len(c) /\ 1 \in R /\ \A a \in R : Targets(c[a]) \subseteq R
  BY ReachIs DEF ClosedIn
<1>2. Graph(d)
  <2>1. ASSUME NEW a \in 1..Len(d) PROVE Targets(d[a]) \subseteq 1..Len(d)
    <3>1. CASE a > Len(c)
      BY <3>1
    <3>2. CASE a \in 1..Len(c) /\ a # b
      BY <1>0, <3>2
    <3>3. CASE a = b
      <4>1. Targets(c[b]) \subseteq 1..Len(c) /\ 1..Len(c) \subseteq 1..Len(d)
        BY <1>0
      <4>2. Targets(d[b]) = X \/ Targets(d[b]) = Targets(c[b])
        OBVIOUS
      <4> QED BY <3>3, <4>1, <4>2
    <3> QED BY <1>0, <3>1, <3>2, <3>3
  <2> QED BY <1>0, <2>1 DEF Graph
<1>3. D \subseteq 1..Len(d) /\ 1 \in D /\ \A a \in D : Targets(d[a]) \subseteq D
  BY <1>2, ReachIs DEF ClosedIn
<1>4. Open(c[b]) => Targets(c[b]) = {}
  BY OpenTargets
<1>5. b \in R /\ Open(c[b]) => \A x \in X : x \in R \/ x > Len(c) \/ Targets(c[x]) = {}
  OBVIOUS
<1> HIDE DEF R, D
<1>6. ASSUME NEW a \in R \cup N PROVE Targets(d[a]) \subseteq R \cup N
  <2>1. CASE a \in R /\ a # b
    BY <1>1, <2>1
  <2>2. CASE a \in R /\ a = b
    <3>1. CASE Open(c[b])
      BY <2>2, <3>1
    <3>2. CASE ~Open(c[b])
      BY <1>1, <2>2, <3>2
    <3> QED BY <3>1, <3>2
  <2>3. CASE a \notin R
    <3>1. a \in X /\ b \in R /\ Open(c[b]) /\ a # b
      BY <1>6, <2>3
    <3>2. a \in 1..Len(d) /\ (a > Len(c) \/ Targets(c[a]) = {})
      BY <1>5, <2>3, <3>1
    <3>3. Targets(d[a]) = {}
      BY <1>0, <3>1, <3>2
    <3> QED BY <3>3
  <2> QED BY <2>1, <2>2, <2>3
<1>7. ClosedIn(d, R \cup N)
  BY <1>1, <1>6 DEF ClosedIn
<1>8. D \subseteq R \cup N
  BY <1>2, <1>7, ReachIs DEF D
<1> DEFINE T == D \cap 1..Len(c)
<1>9. ClosedIn(c, T)
  <2>1. 1 \in T
    BY <1>0, <1>3
  <2>2. ASSUME NEW a \in T PROVE Targets(c[a]) \subseteq T
    <3>1. a \in D /\ a \in 1..Len(c) /\ Targets(c[a]) \subseteq 1..Len(c)
      BY <1>0
    <3>2. Targets(c[a]) \subseteq Targets(d[a])
      BY <1>4, <3>1
    <3> QED BY <1>3, <3>1, <3>2
  <2> HIDE DEF T
  <2> QED BY <2>1, <2>2 DEF ClosedIn
<1>10. R \subseteq D
  <2>1. R \subseteq T
    <3> HIDE DEF T
    <3> QED BY <1>9, ReachIs DEF R
  <2> QED BY <2>1
<1>11. N \subseteq D
  BY <1>3, <1>10
<1>12. D = R \cup N
  BY <1>8, <1>10, <1>11
<1> QED BY <1>2, <1>12 DEF R, D

-----------------------------------------------------------------------------
(* The parts of the invariant when the stack or what it mirrors changes.   *)

\* The stack stays, more is reachable, of what a handler holds only ends that
\* were to be reached.
Kept(F, V, A, I, R, c, A2, I2, R2, d) ==
    /\ \A i \in 1..Len(F) :
          /\ Holds(F[i], I, Len(c))
          /\ F[i].kind \in Conditions \cup {"logical.rhs"} => (A2 <=> A)
          /\ Owned(F[i]) \cap I2 = {}
          /\ \A x \in Owned(F[i]) : x \in R2 /\ x \notin R =>
                x = F[i].end /\ F[i].kind \in Joins /\ V[i - 1]
    /\ \A x \in I : x \in R2 => x \in R
    /\ \A b \in I : Targets(c[b]) \subseteq Targets(d[b])

\* A step that makes no block reachable that a frame is waiting for, and does
\* not change whether control comes to the insertion point, keeps all parts.
LEMMA MirrorsStay ==
    ASSUME NEW F \in Seq(Frame), NEW V \in Seq(BOOLEAN), NEW A \in BOOLEAN,
           NEW B \in BOOLEAN, NEW I, NEW R, NEW c, Mirrors(F, V, A, B, I, R, c),
           NEW A2 \in BOOLEAN, NEW B2 \in BOOLEAN, NEW I2, NEW R2, NEW d,
           Kept(F, V, A, I, R, c, A2, I2, R2, d), B2 => B, R \subseteq R2
    PROVE  Mirrors(F, V, A2, B2, I2, R2, d)
<1>1. Aligned(F, V) /\ Detached(F, I) /\ FramesFlow(F, V, A, R, c) /\ Nested(F, V, B)
  BY DEF Mirrors
<1>0. /\ \A i \in 1..Len(F) :
            /\ Holds(F[i], I, Len(c))
            /\ F[i].kind \in Conditions \cup {"logical.rhs"} => (A2 <=> A)
            /\ Owned(F[i]) \cap I2 = {}
            /\ \A x \in Owned(F[i]) : x \in R2 /\ x \notin R =>
                  x = F[i].end /\ F[i].kind \in Joins /\ V[i - 1]
      /\ \A x \in I : x \in R2 => x \in R
      /\ \A b \in I : Targets(c[b]) \subseteq Targets(d[b])
  BY DEF Kept
<1>2. Detached(F, I2)
  BY <1>0, <1>1 DEF Detached
<1>3. Nested(F, V, B2)
  BY <1>1 DEF Nested
<1>4. ASSUME NEW i \in 1..Len(F) PROVE Flows(F[i], V[i - 1], A2, R2, d)
  <2> DEFINE f == F[i]
             s == V[i - 1]
  <2>1. Flows(f, s, A, R, c)
    BY <1>1 DEF FramesFlow
  <2>2. Holds(f, I, Len(c))
    BY <1>0
  <2>3. /\ f.kind \in Conditions \cup {"logical.rhs"} => (A2 <=> A)
        /\ \A x \in Owned(f) : x \in R2 /\ x \notin R => x = f.end /\ f.kind \in Joins /\ s
    BY <1>0
  <2>4. f.kind \in Savers => s \in BOOLEAN
    BY <1>1 DEF Aligned
  <2> HIDE DEF f, s
  <2>5. f.kind \in Conditions => (s <=> A2)
    BY <2>1, <2>3 DEF Flows
  <2>6. f.kind \in Joins => (s <=> f.end \in R2)
    <3> SUFFICES ASSUME f.kind \in Joins PROVE s <=> f.end \in R2
      OBVIOUS
    <3>1. f.end \in Owned(f)
      BY DEF Joins, Owned, HoldsEnd
    <3>2. s <=> f.end \in R
      BY <2>1 DEF Flows
    <3> QED BY <2>3, <3>1, <3>2
  <2>7. f.kind \in Branches => (s <=> f.blk \in R2)
    <3> SUFFICES ASSUME f.kind \in Branches PROVE s <=> f.blk \in R2
      OBVIOUS
    <3>1. s <=> f.blk \in R
      BY <2>1 DEF Flows
    <3>2. CASE f.kind = "ifelse.then"
      <4>1. f.blk \in Owned(f) /\ f.kind \notin Joins
        BY <3>2 DEF Joins, Owned
      <4> QED BY <2>3, <3>1, <4>1
    <3>3. CASE f.kind # "ifelse.then"
      <4>1. f.blk \in I
        BY <2>2, <3>3 DEF Branches, Holds, HoldsInserted
      <4> QED BY <1>0, <3>1, <4>1
    <3> QED BY <3>2, <3>3
  <2>8. f.kind = "ifelse.then" => f.end \notin R2
    <3> SUFFICES ASSUME f.kind = "ifelse.then" PROVE f.end \notin R2
      OBVIOUS
    <3>1. f.end \in Owned(f) /\ f.kind \notin Joins
      BY DEF Joins, Owned
    <3>2. f.end \notin R
      BY <2>1 DEF Flows
    <3> QED BY <2>3, <3>1, <3>2
  <2>9. f.kind = "logical.rhs" => /\ f.end \in R2 <=> A2
                                  /\ f.end \in R2 => f.end \in Targets(d[f.from])
    <3> SUFFICES ASSUME f.kind = "logical.rhs"
                 PROVE  /\ f.end \in R2 <=> A2
                        /\ f.end \in R2 => f.end \in Targets(d[f.from])
      OBVIOUS
    <3>1. f.end \in Owned(f) /\ f.kind \notin Joins
      BY DEF Joins, Owned, HoldsEnd
    <3>2. f.end \in R2 <=> f.end \in R
      BY <2>3, <3>1
    <3>3. f.from \in I
      BY <2>2 DEF Holds
    <3>4. (f.end \in R <=> A) /\ (f.end \in R => f.end \in Targets(c[f.from]))
      BY <2>1 DEF Flows
    <3> QED BY <1>0, <2>3, <3>2, <3>3, <3>4
  <2>10. Flows(f, s, A2, R2, d)
    BY <2>5, <2>6, <2>7, <2>8, <2>9 DEF Flows
  <2> QED BY <2>10 DEF f, s
<1> QED BY <1>1, <1>2, <1>3, <1>4 DEF Mirrors, FramesFlow

\* A handler without an entry is called.
LEMMA MirrorsCall ==
    ASSUME NEW F \in Seq(Frame), Len(F) > 0, NEW V \in Seq(BOOLEAN), NEW A \in BOOLEAN,
           NEW B \in BOOLEAN, NEW I, NEW R, NEW c, Mirrors(F, V, A, B, I, R, c), A => B,
           NEW f \in Frame, f.kind \notin Savers, Owned(f) \cap I = {},
           \A i \in 1..Len(F) : Owned(F[i]) \cap Owned(f) = {},
           f.kind = "logical.rhs" =>
              (f.end \in R <=> A) /\ (f.end \in R => f.end \in Targets(c[f.from]))
    PROVE  Mirrors(Append(F, f), V, A, A, I, R, c)
<1> DEFINE G == Append(F, f)
           n == Len(F)
<1>0. Aligned(F, V) /\ Detached(F, I) /\ FramesFlow(F, V, A, R, c) /\ Nested(F, V, B)
  BY DEF Mirrors
<1>1. /\ n \in Nat /\ Len(G) = n + 1 /\ G[n + 1] = f /\ \A i \in 1..n : G[i] = F[i]
      /\ \A i \in 1..Len(G) : i \in 1..n \/ i = n + 1
      /\ Len(V) \in Nat
  OBVIOUS
<1> HIDE DEF G
<1>2. Aligned(G, V)
  <2>1. Len(V) < n + 1 /\ n \notin 1..Len(V)
    BY <1>0, <1>1 DEF Aligned
  <2>2. ASSUME NEW i \in 1..Len(G)
        PROVE  G[i].kind \in Savers <=> i - 1 \in 1..Len(V)
    <3>1. CASE i \in 1..n
      BY <1>0, <1>1, <3>1 DEF Aligned
    <3>2. CASE i = n + 1
      BY <1>1, <2>1, <3>2
    <3> QED BY <1>1, <3>1, <3>2
  <2> QED BY <1>1, <2>1, <2>2 DEF Aligned
<1>3. OwnsWell(f)
  BY DEF OwnsWell, Savers
<1>4. Detached(G, I)
  BY <1>0, <1>1, <1>3 DEF Detached
<1>5. Flows(f, V[n], A, R, c)
  BY DEF Flows, Savers, Conditions, Joins, Branches
<1>6. FramesFlow(G, V, A, R, c)
  <2>1. ASSUME NEW i \in 1..Len(G) PROVE Flows(G[i], V[i - 1], A, R, c)
    <3>1. CASE i \in 1..n
      BY <1>0, <1>1, <3>1 DEF FramesFlow
    <3>2. CASE i = n + 1
      <4>1. i - 1 = n /\ G[i] = f
        BY <1>1, <3>2
      <4> QED BY <1>5, <4>1
    <3> QED BY <1>1, <3>1, <3>2
  <2> QED BY <2>1 DEF FramesFlow
<1>7. Nested(G, V, A)
  <2>1. \A j \in 1..Len(V) : j + 1 \in 1..n /\ G[j + 1] = F[j + 1]
    BY <1>0, <1>1 DEF Aligned
  <2> QED BY <1>0, <2>1 DEF Nested
<1> QED BY <1>2, <1>4, <1>6, <1>7 DEF Mirrors, G

\* A handler is called, or goes on, with entry s.
Saving(F, V, A, B, I, R, c, f, s) ==
    /\ F \in Seq(Frame) /\ Len(F) > 0 /\ V \in Seq(BOOLEAN)
    /\ A \in BOOLEAN /\ B \in BOOLEAN /\ s \in BOOLEAN
    /\ Mirrors(F, V, A, B, I, R, c) /\ Len(V) = Len(F) - 1
    /\ f \in Frame /\ f.kind \in Savers /\ OwnsWell(f) /\ Owned(f) \cap I = {}
    /\ \A i \in 1..Len(F) : Owned(F[i]) \cap Owned(f) = {}
    /\ Flows(f, s, A, R, c) /\ (A => B) /\ (s => B)
    /\ f.kind # "ifelse.else" => (A => s)

\* A call of a handler that has an entry in `saved`.
LEMMA MirrorsSave ==
    ASSUME NEW F, NEW V, NEW A, NEW B, NEW I, NEW R, NEW c, NEW f, NEW s,
           Saving(F, V, A, B, I, R, c, f, s)
    PROVE  Mirrors(Append(F, f), Append(V, s), A, A, I, R, c)
<1>00. /\ F \in Seq(Frame) /\ Len(F) > 0 /\ V \in Seq(BOOLEAN)
       /\ A \in BOOLEAN /\ B \in BOOLEAN /\ s \in BOOLEAN
       /\ Mirrors(F, V, A, B, I, R, c) /\ Len(V) = Len(F) - 1
       /\ f \in Frame /\ f.kind \in Savers /\ OwnsWell(f) /\ Owned(f) \cap I = {}
       /\ \A i \in 1..Len(F) : Owned(F[i]) \cap Owned(f) = {}
       /\ Flows(f, s, A, R, c) /\ (A => B) /\ (s => B)
       /\ f.kind # "ifelse.else" => (A => s)
  BY DEF Saving
<1> USE <1>00
<1> DEFINE G == Append(F, f)
           n == Len(F)
           W == Append(V, s)
<1>0. Aligned(F, V) /\ Detached(F, I) /\ FramesFlow(F, V, A, R, c) /\ Nested(F, V, B)
  BY DEF Mirrors
<1>1. /\ n \in Nat /\ Len(G) = n + 1 /\ G[n + 1] = f /\ \A i \in 1..n : G[i] = F[i]
      /\ \A i \in 1..Len(G) : i \in 1..n \/ i = n + 1
  OBVIOUS
<1>2. /\ Len(V) = n - 1 /\ n > 0 /\ Len(W) = n /\ W[n] = s
      /\ \A j \in 1..(n - 1) : W[j] = V[j] /\ V[j] \in BOOLEAN
  OBVIOUS
<1> HIDE DEF G, W, n
<1>3. Aligned(G, W)
  <2>1. ASSUME NEW i \in 1..Len(G)
        PROVE  G[i].kind \in Savers <=> i - 1 \in 1..Len(W)
    <3>1. CASE i \in 1..n
      <4>1. i - 1 \in 1..Len(W) <=> i - 1 \in 1..Len(V)
        BY <1>1, <1>2, <3>1
      <4> QED BY <1>0, <1>1, <3>1, <4>1 DEF Aligned, n
    <3>2. CASE i = n + 1
      <4>1. i - 1 \in 1..Len(W) /\ G[i] = f
        BY <1>1, <1>2, <3>2
      <4> QED BY <4>1
    <3> QED BY <1>1, <3>1, <3>2
  <2>2. Len(W) < Len(G)
    BY <1>1, <1>2
  <2> QED BY <2>1, <2>2 DEF Aligned
<1>4. Detached(G, I)
  BY <1>0, <1>1 DEF Detached, n
<1>5. ASSUME NEW i \in 1..Len(G) PROVE Flows(G[i], W[i - 1], A, R, c)
  <2>1. CASE i = 1
    <3>1. F[1].kind \notin Savers /\ Flows(F[1], V[0], A, R, c) /\ G[1] = F[1]
      BY <1>0, <1>1, <1>2 DEF Aligned, FramesFlow, n
    <3>2. Flows(F[1], W[0], A, R, c)
      BY <3>1 DEF Flows, Savers, Conditions, Joins, Branches
    <3> QED BY <2>1, <3>1, <3>2
  <2>2. CASE i \in 2..n
    <3>1. i - 1 \in 1..(n - 1) /\ i \in 1..n
      BY <1>1, <2>2
    <3>2. Flows(F[i], V[i - 1], A, R, c) /\ G[i] = F[i] /\ W[i - 1] = V[i - 1]
      BY <1>0, <1>1, <1>2, <3>1 DEF FramesFlow, n
    <3> QED BY <3>2
  <2>3. CASE i = n + 1
    <3>1. i - 1 = n /\ G[i] = f /\ W[n] = s
      BY <1>1, <1>2, <2>3
    <3> QED BY <3>1
  <2> QED BY <1>1, <2>1, <2>2, <2>3
<1>6. Nested(G, W, A)
  <2>1. ASSUME NEW j \in 1..Len(W), G[j + 1].kind # "ifelse.else"
        PROVE  (A => W[j]) /\ \A k \in j..Len(W) : W[k] => W[j]
    <3>1. CASE j = n
      <4>1. G[j + 1] = f /\ W[j] = s /\ \A k \in j..Len(W) : k = j
        BY <1>1, <1>2, <3>1
      <4> QED BY <2>1, <4>1
    <3>2. CASE j \in 1..(n - 1)
      <4>1. j + 1 \in 1..n /\ j \in 1..Len(V)
        BY <1>1, <1>2, <3>2
      <4>2. (B => V[j]) /\ \A k \in j..Len(V) : V[k] => V[j]
        BY <1>0, <1>1, <2>1, <4>1 DEF Nested
      <4>3. A => V[j]
        BY <4>2
      <4>4. ASSUME NEW k \in j..Len(W) PROVE W[k] => V[j]
        <5>1. CASE k = n
          BY <1>2, <4>2, <5>1
        <5>2. CASE k # n
          <6>1. k \in 1..(n - 1) /\ k \in j..Len(V)
            BY <1>1, <1>2, <3>2, <5>2
          <6> QED BY <1>2, <4>2, <6>1
        <5> QED BY <5>1, <5>2
      <4> QED BY <1>2, <3>2, <4>3, <4>4
    <3> QED BY <1>1, <1>2, <3>1, <3>2
  <2> QED BY <2>1 DEF Nested
<1> QED BY <1>3, <1>4, <1>5, <1>6 DEF Mirrors, FramesFlow, G, W

\* A handler without an entry returns.
LEMMA MirrorsReturn ==
    ASSUME NEW F \in Seq(Frame), Len(F) > 1, NEW V \in Seq(BOOLEAN), NEW A \in BOOLEAN,
           NEW B \in BOOLEAN, NEW I, NEW R, NEW c, Mirrors(F, V, A, B, I, R, c),
           F[Len(F)].kind \notin Savers
    PROVE  /\ Mirrors(Pop(F), V, A, B, I, R, c)
           /\ \A i \in 1..Len(Pop(F)) : Owned(Pop(F)[i]) \cap Owned(F[Len(F)]) = {}
<1> DEFINE G == Pop(F)
           n == Len(F)
<1>0. Aligned(F, V) /\ Detached(F, I) /\ FramesFlow(F, V, A, R, c) /\ Nested(F, V, B)
  BY DEF Mirrors
<1>1. n \in Nat /\ n > 1 /\ Len(G) = n - 1 /\ Len(V) \in Nat /\ \A i \in 1..(n - 1) : G[i] = F[i]
  BY PopFacts
<1> HIDE DEF G
<1>2. \A i \in 1..Len(G) : i \in 1..n /\ i # n /\ G[i] = F[i]
  BY <1>1
<1>3. n \in 1..n /\ n - 1 \notin 1..Len(V) /\ Len(V) < n - 1
  BY <1>0, <1>1 DEF Aligned
<1>4. Aligned(G, V)
  BY <1>0, <1>1, <1>2, <1>3 DEF Aligned
<1>5. Detached(G, I)
  BY <1>0, <1>2 DEF Detached
<1>6. FramesFlow(G, V, A, R, c)
  BY <1>0, <1>2 DEF FramesFlow
<1>7. Nested(G, V, B)
  <2>1. \A j \in 1..Len(V) : j + 1 \in 1..(n - 1) /\ G[j + 1] = F[j + 1]
    BY <1>1, <1>3
  <2> QED BY <1>0, <2>1 DEF Nested
<1>8. \A i \in 1..Len(G) : Owned(G[i]) \cap Owned(F[n]) = {}
  BY <1>0, <1>2, <1>3 DEF Detached
<1> QED BY <1>4, <1>5, <1>6, <1>7, <1>8 DEF Mirrors, G

\* A handler with an entry returns, or is about to go on.
Parts(F, V, A, I, R, c) ==
    /\ Len(V) = Len(F) - 1 /\ Len(V) > 0 /\ V[Len(V)] \in BOOLEAN
    /\ Flows(F[Len(F)], V[Len(V)], A, R, c)
    /\ F[Len(F)].kind # "ifelse.else" => (A => V[Len(V)])
    /\ OwnsWell(F[Len(F)]) /\ Owned(F[Len(F)]) \cap I = {}
    /\ Front(V) \in Seq(BOOLEAN) /\ Len(Front(V)) = Len(Pop(F)) - 1
    /\ Append(Front(V), V[Len(V)]) = V
    /\ Mirrors(Pop(F), Front(V), A, A \/ V[Len(V)], I, R, c)
    /\ \A i \in 1..Len(Pop(F)) : Owned(Pop(F)[i]) \cap Owned(F[Len(F)]) = {}

\* What is left of the parts once the innermost frame has returned.
LEMMA MirrorsRestore ==
    ASSUME NEW F \in Seq(Frame), Len(F) > 1, NEW V \in Seq(BOOLEAN), NEW A \in BOOLEAN,
           NEW I, NEW R, NEW c, Mirrors(F, V, A, A, I, R, c),
           F[Len(F)].kind \in Savers
    PROVE  Parts(F, V, A, I, R, c)
<1> DEFINE G == Pop(F)
           n == Len(F)
           U == Front(V)
           B == A \/ V[Len(V)]
<1>0. Aligned(F, V) /\ Detached(F, I) /\ FramesFlow(F, V, A, R, c) /\ Nested(F, V, A)
  BY DEF Mirrors
<1>1. n \in Nat /\ n > 1 /\ Len(G) = n - 1 /\ Len(V) \in Nat /\ \A i \in 1..(n - 1) : G[i] = F[i]
  BY PopFacts
<1> HIDE DEF G
<1>2. \A i \in 1..Len(G) : i \in 1..n /\ i # n /\ G[i] = F[i]
  BY <1>1
<1>3. n \in 1..n /\ n - 1 \in 1..Len(V) /\ Len(V) < n
  BY <1>0, <1>1 DEF Aligned
<1>4. Len(V) = n - 1 /\ Len(V) > 0 /\ V[Len(V)] \in BOOLEAN
  BY <1>1, <1>3
<1>5. /\ U \in Seq(BOOLEAN) /\ Len(U) = n - 2 /\ \A j \in 1..(n - 2) : U[j] = V[j]
  BY <1>1, <1>4 DEF Front
<1>6. Append(U, V[Len(V)]) = V
  <2>1. Len(V) > 0 /\ V # <<>>
    BY <1>4
  <2> QED BY <2>1, <1>4, <1>5, SeqEqual
<1>7. Flows(F[n], V[Len(V)], A, R, c)
  BY <1>0, <1>3, <1>4 DEF FramesFlow
<1>8. F[n].kind # "ifelse.else" => (A => V[Len(V)])
  <2>1. Len(V) \in 1..Len(V) /\ Len(V) + 1 = n
    BY <1>4
  <2> QED BY <1>0, <2>1 DEF Nested
<1> HIDE DEF U
<1>9. Aligned(G, U)
  <2>1. \A i \in 1..Len(G) : i - 1 \in 1..Len(U) <=> i - 1 \in 1..Len(V)
    BY <1>1, <1>4, <1>5
  <2>2. Len(U) < Len(G)
    BY <1>1, <1>5
  <2> QED BY <1>0, <1>2, <2>1, <2>2 DEF Aligned
<1>10. Detached(G, I)
  BY <1>0, <1>2 DEF Detached
<1>11. ASSUME NEW i \in 1..Len(G) PROVE Flows(G[i], U[i - 1], A, R, c)
  <2>1. Flows(F[i], V[i - 1], A, R, c) /\ G[i] = F[i] /\ i \in 1..n
    BY <1>0, <1>2 DEF FramesFlow
  <2>2. CASE i = 1
    <3>1. F[1].kind \notin Savers
      BY <1>0, <1>1 DEF Aligned
    <3>2. Flows(F[1], U[0], A, R, c)
      BY <2>1, <2>2, <3>1 DEF Flows, Savers, Conditions, Joins, Branches
    <3> QED BY <2>1, <2>2, <3>2
  <2>3. CASE i # 1
    <3>1. U[i - 1] = V[i - 1]
      BY <1>1, <1>5, <2>3
    <3> QED BY <2>1, <3>1
  <2> QED BY <2>2, <2>3
<1>12. Nested(G, U, B)
  <2>1. ASSUME NEW j \in 1..Len(U), G[j + 1].kind # "ifelse.else"
        PROVE  (B => U[j]) /\ \A k \in j..Len(U) : U[k] => U[j]
    <3>1. /\ j + 1 \in 1..(n - 1) /\ j \in 1..Len(V) /\ Len(V) \in j..Len(V)
          /\ \A k \in j..Len(U) : k \in j..Len(V) /\ U[k] = V[k]
      BY <1>1, <1>4, <1>5, <2>1
    <3>2. (A => V[j]) /\ \A k \in j..Len(V) : V[k] => V[j]
      BY <1>0, <1>1, <2>1, <3>1 DEF Nested
    <3>3. U[j] = V[j]
      BY <1>5, <2>1
    <3> QED BY <3>1, <3>2, <3>3
  <2> QED BY <2>1 DEF Nested
<1>13. \A i \in 1..Len(G) : Owned(G[i]) \cap Owned(F[n]) = {}
  BY <1>0, <1>2, <1>3 DEF Detached
<1>14. OwnsWell(F[n]) /\ Owned(F[n]) \cap I = {}
  BY <1>0, <1>3 DEF Detached
<1>15. Len(U) = Len(G) - 1
  BY <1>1, <1>5
<1> QED BY <1>4, <1>5, <1>6, <1>7, <1>8, <1>9, <1>10, <1>11, <1>12, <1>13, <1>14, <1>15
     DEF Mirrors, FramesFlow, G, U, Parts

\* Phis go on naming a block that branches to theirs.
PhisKept(c, d, I, J, R, R2) ==
    /\ I \subseteq J /\ \A x \in I : x \in R2 => x \in R
    /\ \A b \in I : Targets(c[b]) \subseteq Targets(d[b])
    /\ \A b \in I : \A i \in 1..Len(d[b]) :
          d[b][i].op = "phi" => \E k \in 1..Len(c[b]) : c[b][k] = d[b][i]
    /\ \A b \in J : b \notin I => d[b] = <<>>

\* The phis stay right where blocks keep their targets and no phi is added.
LEMMA PhisStay ==
    ASSUME NEW c, NEW d, NEW I, NEW J, NEW R, NEW R2, PhisOK(c, I, R),
           PhisKept(c, d, I, J, R, R2)
    PROVE  PhisOK(d, J, R2)
<1>0. /\ I \subseteq J /\ \A x \in I : x \in R2 => x \in R
      /\ \A b \in I : Targets(c[b]) \subseteq Targets(d[b])
      /\ \A b \in I : \A i \in 1..Len(d[b]) :
            d[b][i].op = "phi" => \E k \in 1..Len(c[b]) : c[b][k] = d[b][i]
      /\ \A b \in J : b \notin I => d[b] = <<>>
  BY DEF PhisKept
<1>1. ASSUME NEW b \in J \cap R2, NEW i \in 1..Len(d[b]), d[b][i].op = "phi"
      PROVE  d[b][i].blocks[1] \in {a \in J : b \in Targets(d[a])}
  <2>1. CASE b \notin I
    <3>1. d[b] = <<>>
      BY <1>0, <2>1
    <3>2. Len(d[b]) = 0 /\ i \in 1..0
      BY <3>1
    <3> QED BY <3>2
  <2>2. CASE b \in I
    <3>1. PICK k \in 1..Len(c[b]) : c[b][k] = d[b][i]
      BY <1>0, <1>1, <2>2
    <3>2. b \in I \cap R
      BY <1>0, <2>2
    <3>3. c[b][k].blocks[1] \in {a \in I : b \in Targets(c[a])}
      BY <1>1, <3>1, <3>2 DEF PhisOK
    <3> QED BY <1>0, <3>1, <3>3
  <2> QED BY <2>1, <2>2
<1> QED BY <1>1 DEF PhisOK

-----------------------------------------------------------------------------
(* A step, seen from the invariant.                                        *)

\* The state that the handlers are in.
LEMMA StateIs ==
    ASSUME IInv, FlowInv, Working
    PROVE  /\ frames \in Seq(Frame) /\ Len(frames) \in Nat /\ Len(frames) > 0
           /\ Top = frames[Len(frames)] /\ Top \in Frame
           /\ code \in Seq(Seq(Instr)) /\ Len(code) \in Nat /\ Graph(code)
           /\ inserted \subseteq 1..Len(code) /\ insertBlock \in inserted
           /\ \A i \in 1..Len(frames) : Holds(frames[i], inserted, Len(code))
           /\ Reachable \subseteq 1..Len(code) /\ Reachable = ReachableIn(code)
           /\ Linked(code, inserted) /\ PhisOK(code, inserted, Reachable)
           /\ Point.live \in BOOLEAN /\ Point.saved \in Seq(BOOLEAN)
           /\ Point = [live |-> Point.live, saved |-> Point.saved]
           /\ Alive \in BOOLEAN /\ (Point.live <=> (Alive /\ ~Returning(frames)))
           /\ Mirrors(frames, Point.saved, Alive, Alive, inserted, Reachable, code)
           /\ warnings \in Nat /\ warnings <= MaxWarnings
<1>1. /\ frames \in Seq(Frame) /\ Len(frames) \in Nat /\ Len(frames) > 0
      /\ Top \in Frame /\ code \in Seq(Seq(Instr)) /\ Len(code) \in Nat
      /\ insertBlock \in inserted /\ inserted \subseteq 1..Len(code)
  BY WorkingFacts DEF IInv
<1>2. Top = frames[Len(frames)]
  BY DEF Top
<1>3. \A i \in 1..Len(frames) : Holds(frames[i], inserted, Len(code))
  BY DEF IInv, LocalsHold
<1>4. Graph(code)
  <2>1. ASSUME NEW b \in 1..Len(code) PROVE Targets(code[b]) \subseteq 1..Len(code)
    <3>1. code[b] \in Seq(Instr) /\ \A i \in 1..Len(code[b]) : RefersBelow(code[b][i], Len(code))
      BY <1>1 DEF IInv, BlocksExist
    <3> QED BY <1>1, <3>1, TargetsExist
  <2> QED BY <1>1, <2>1 DEF Graph
<1>5. Reachable \subseteq 1..Len(code) /\ Reachable = ReachableIn(code)
  BY <1>4, ReachIs DEF Reachable
<1>6. /\ Linked(code, inserted) /\ PhisOK(code, inserted, Reachable)
      /\ Point \in Points /\ (Point.live <=> (Alive /\ ~Returning(frames)))
      /\ Mirrors(frames, Point.saved, Alive, Alive, inserted, Reachable, code)
      /\ mode # "exit" => warnings <= MaxWarnings
  BY DEF FlowInv
<1>7. /\ Point.live \in BOOLEAN /\ Point.saved \in Seq(BOOLEAN)
      /\ Point = [live |-> Point.live, saved |-> Point.saved]
  BY <1>6 DEF Points
<1>8. Alive \in BOOLEAN
  BY DEF Alive
<1>9. warnings \in Nat /\ mode # "exit"
  BY CodegenAssumption DEF IInv, TypeOK, Working
<1> QED BY <1>1, <1>2, <1>3, <1>4, <1>5, <1>6, <1>7, <1>8, <1>9

\* What is left to show of a step.
LEMMA FlowInvHolds ==
    ASSUME IInv', Working', warnings' <= MaxWarnings,
           NEW live \in BOOLEAN, NEW V \in Seq(BOOLEAN), Point' = [live |-> live, saved |-> V],
           NEW A \in BOOLEAN, NEW R, ReachableIn(code') = R,
           A <=> (insertBlock' \in R /\ Open(code'[insertBlock'])),
           live <=> (A /\ ~Returning(frames')),
           Linked(code', inserted'), PhisOK(code', inserted', R),
           Mirrors(frames', V, A, A, inserted', R, code')
    PROVE  FlowInv'
<1>1. Reachable' = R
  BY DEF Reachable
<1>2. Alive' <=> A
  BY <1>1 DEF Alive
<1>3. Point' \in Points /\ Point'.live = live /\ Point'.saved = V
  BY DEF Points
<1>4. Alive' = A
  BY <1>2 DEF Alive
<1>5. Mirrors(frames', Point'.saved, Alive', Alive', inserted', Reachable', code')
  BY <1>1, <1>3, <1>4
<1>6. Point'.live <=> (Alive' /\ ~Returning(frames'))
  BY <1>3, <1>4
<1>7. PhisOK(code', inserted', Reachable')
  BY <1>1
<1> QED BY <1>3, <1>5, <1>6, <1>7 DEF FlowInv

\* How the point moves.
Neutral == AllConstructs \ {"return", "break", "if", "ifelse", "while"}
FlowsTo(s, live, V) ==
    /\ \A e \in {"return", "break"} : Flow(s, e) = [live |-> FALSE, saved |-> V]
    /\ \A e \in {"if", "ifelse", "while"} :
          Flow(s, e) = [live |-> live, saved |-> Append(V, live)]
    /\ Flow(s, "else") = [live |-> V[Len(V)], saved |-> Append(Front(V), live)]
    /\ Flow(s, "end") = [live |-> live \/ V[Len(V)], saved |-> Front(V)]
    /\ \A e \in Neutral : Flow(s, e) = s
\* How the point moves at each kind of entry.
LEMMA FlowIs ==
    ASSUME NEW live, NEW V, NEW s, s = [live |-> live, saved |-> V]
    PROVE  FlowsTo(s, live, V)
<1>1. s.live = live /\ s.saved = V
  OBVIOUS
<1>0. "else" \notin AllConstructs /\ "end" \notin AllConstructs
  BY DEF AllConstructs
<1>2. \A e \in {"return", "break"} : Flow(s, e) = [live |-> FALSE, saved |-> V]
  BY <1>1 DEF Flow
<1>3. \A e \in {"if", "ifelse", "while"} : Flow(s, e) = [live |-> live, saved |-> Append(V, live)]
  BY <1>1 DEF Flow
<1>4. Flow(s, "else") = [live |-> V[Len(V)], saved |-> Append(Front(V), live)]
  <2>1. Flow(s, "else") = [live |-> Last(s.saved), saved |-> Append(Front(s.saved), s.live)]
    BY <1>0 DEF Flow
  <2> QED BY <1>1, <2>1 DEF Last
<1>5. Flow(s, "end") = [live |-> live \/ V[Len(V)], saved |-> Front(V)]
  <2>1. Flow(s, "end") = [live |-> s.live \/ Last(s.saved), saved |-> Front(s.saved)]
    BY <1>0 DEF Flow
  <2> QED BY <1>1, <2>1 DEF Last
<1>6. \A e \in Neutral : Flow(s, e) = s
  BY DEF Flow, Neutral, AllConstructs
<1> QED BY <1>2, <1>3, <1>4, <1>5, <1>6 DEF FlowsTo

\* An entry on the trail moves the point.
LEMMA PointMoves ==
    ASSUME IInv, NEW e \in AllConstructs \cup {"else", "end"}, trail' = Append(trail, e)
    PROVE  Point' = Flow(Point, e)
<1>1. trail \in Seq(AllConstructs \cup {"else", "end"})
  BY DEF IInv, TypeOK
<1>2. FlowOf(Append(trail, e)) = Flow(FlowOf(trail), e)
  BY <1>1, FlowGoesOn
<1> QED BY <1>2 DEF Point

\* Between two statements there is no return under way.
LEMMA StatementsOnly ==
    ASSUME NEW F \in Seq(Frame), Len(F) > 0, F[Len(F)].kind \in StmtFrames,
           \A i \in 2..Len(F) : F[i].kind \in StmtFrames => F[i - 1].kind \in StmtFrames
    PROVE  \A i \in 1..Len(F) : F[i].kind \in StmtFrames
<1> DEFINE n == Len(F)
           T == {k \in Nat : k < n /\ F[n - k].kind \notin StmtFrames}
<1>1. SUFFICES ASSUME T # {} PROVE FALSE
  <2>1. ASSUME NEW i \in 1..n, F[i].kind \notin StmtFrames PROVE FALSE
    <3>1. n - i \in Nat /\ n - i < n /\ n - (n - i) = i
      OBVIOUS
    <3>2. n - i \in T
      BY <2>1, <3>1
    <3> QED BY <1>1, <3>2
  <2> QED BY <2>1
<1>2. T \in SUBSET Nat
  OBVIOUS
<1>3. PICK x \in T : \A y \in T : x <= y
  <2> HIDE DEF T
  <2> QED BY <1>1, <1>2, LeastOf
<1>4. n \in Nat /\ x \in Nat /\ x < n /\ F[n - x].kind \notin StmtFrames /\ x # 0
  BY <1>3
<1>5. x - 1 \in Nat /\ x - 1 < n /\ ~(x <= x - 1) /\ n - (x - 1) \in 2..n /\ n - (x - 1) - 1 = n - x
  BY <1>4
<1>6. x - 1 \notin T
  <2> HIDE DEF T
  <2> QED BY <1>3, <1>5
<1>7. F[n - (x - 1)].kind \in StmtFrames
  BY <1>5, <1>6
<1>8. F[n - x].kind \in StmtFrames
  <2> DEFINE k == n - (x - 1)
  <2>1. k \in 2..Len(F) /\ F[k].kind \in StmtFrames /\ k - 1 = n - x
    BY <1>5, <1>7
  <2> HIDE DEF k
  <2> QED BY <2>1
<1> QED BY <1>4, <1>8

\* Between two statements no expression is on the call stack.
LEMMA InStatement ==
    ASSUME IInv, mode = "stmt"
    PROVE  \A i \in 1..Len(frames) : frames[i].kind \in StmtFrames
<1>1. frames \in Seq(Frame) /\ Len(frames) > 0 /\ frames[Len(frames)].kind \in StmtFrames /\ Shape
  <2>1. Working
    BY DEF Working
  <2> QED BY <2>1, WorkingFacts DEF IInv, TypeOK, Top
<1>2. ASSUME NEW i \in 2..Len(frames), frames[i].kind \in StmtFrames
      PROVE  frames[i - 1].kind \in StmtFrames
  <2>1. i \in 1..Len(frames) /\ i > 1 /\ frames[i].kind \notin SubExpressions
    BY <1>2 DEF StmtFrames, SubExpressions
  <2> QED BY <1>1, <2>1 DEF Shape
<1> QED BY <1>1, <1>2, StatementsOnly

\* Under the frame of a statement, too.
LEMMA UnderStatement ==
    ASSUME IInv, Working, Top.kind \in {"expr", "return", "if.cond", "ifelse.cond", "while.cond"}
    PROVE  /\ Len(frames) > 1
           /\ \A i \in 1..(Len(frames) - 1) : frames[i].kind \in StmtFrames
<1>1. /\ frames \in Seq(Frame) /\ Len(frames) \in Nat /\ Len(frames) > 0 /\ Shape
      /\ Top = frames[Len(frames)]
  BY WorkingFacts DEF IInv, Top
<1> DEFINE n == Len(frames)
           G == Pop(frames)
<1>2. n \in 1..n /\ frames[n].kind # "func" /\ frames[n].kind \notin SubExpressions
  BY <1>1 DEF SubExpressions
<1>3. n > 1 /\ frames[n - 1].kind \in StmtFrames
  BY <1>1, <1>2 DEF Shape
<1>4. G \in Seq(Frame) /\ Len(G) = n - 1 /\ \A i \in 1..(n - 1) : G[i] = frames[i]
  BY <1>1, PopFacts
<1> HIDE DEF G
<1>5. ASSUME NEW i \in 2..Len(G), G[i].kind \in StmtFrames
      PROVE  G[i - 1].kind \in StmtFrames
  <2>1. /\ i \in 1..n /\ i > 1 /\ i - 1 \in 1..(n - 1) /\ G[i] = frames[i]
        /\ G[i - 1] = frames[i - 1] /\ frames[i].kind \notin SubExpressions
    BY <1>1, <1>4, <1>5 DEF StmtFrames, SubExpressions
  <2> QED BY <1>1, <1>5, <2>1 DEF Shape
<1>6. Len(G) > 0 /\ G[Len(G)].kind \in StmtFrames
  <2>1. n - 1 \in 1..(n - 1)
    BY <1>1, <1>3
  <2> QED BY <1>3, <1>4, <2>1
<1>7. \A i \in 1..Len(G) : G[i].kind \in StmtFrames
  BY <1>4, <1>5, <1>6, StatementsOnly
<1> QED BY <1>3, <1>4, <1>7

\* A frame of a return on the call stack is seen at its top; a body has none.
LEMMA ReturningIs ==
    /\ \A F \in Seq(Frame), f \in Frame :
          Returning(Append(F, f)) <=> (Returning(F) \/ f.kind = "return")
    /\ \A F \in Seq(Frame) : Len(F) > 0 =>
          (Returning(F) <=> (Returning(Pop(F)) \/ F[Len(F)].kind = "return"))
    /\ \A F \in Seq(Frame) : (\A i \in 1..Len(F) : F[i].kind \in StmtFrames) => ~Returning(F)
<1>1. ASSUME NEW F \in Seq(Frame), NEW f \in Frame
      PROVE  Returning(Append(F, f)) <=> (Returning(F) \/ f.kind = "return")
  <2> DEFINE G == Append(F, f)
  <2>1. /\ Len(F) \in Nat /\ Len(G) = Len(F) + 1 /\ G[Len(F) + 1] = f
        /\ \A i \in 1..Len(F) : G[i] = F[i] /\ i \in 1..Len(G)
        /\ \A i \in 1..Len(G) : i \in 1..Len(F) \/ i = Len(F) + 1
        /\ Len(F) + 1 \in 1..Len(G)
    OBVIOUS
  <2> HIDE DEF G
  <2>2. Returning(G) <=> (Returning(F) \/ f.kind = "return")
    BY <2>1 DEF Returning
  <2> QED BY <2>2 DEF G
<1>2. ASSUME NEW F \in Seq(Frame), Len(F) > 0
      PROVE  Returning(F) <=> (Returning(Pop(F)) \/ F[Len(F)].kind = "return")
  <2> DEFINE G == Pop(F)
  <2>1. /\ Len(F) \in Nat /\ Len(G) = Len(F) - 1 /\ \A i \in 1..Len(G) : G[i] = F[i]
    BY <1>2, PopFacts
  <2>2. /\ \A i \in 1..Len(F) : i \in 1..Len(G) \/ i = Len(F)
        /\ \A i \in 1..Len(G) : i \in 1..Len(F)
        /\ Len(F) \in 1..Len(F)
    BY <1>2, <2>1
  <2> HIDE DEF G
  <2>3. Returning(F) <=> (Returning(G) \/ F[Len(F)].kind = "return")
    BY <2>1, <2>2 DEF Returning
  <2> QED BY <2>3 DEF G
<1>3. ASSUME NEW F \in Seq(Frame), \A i \in 1..Len(F) : F[i].kind \in StmtFrames
      PROVE  ~Returning(F)
  BY <1>3 DEF Returning, StmtFrames
<1> QED BY <1>1, <1>2, <1>3

\* What appending an instruction i and creating n blocks does to the graph.
Emitted(i, n, d) ==
    /\ d \in Seq(Seq(Instr)) /\ Len(d) = Len(code) + n /\ Graph(d)
    /\ ReachableIn(d) = Reachable \cup
          (IF IsTerminator(i) /\ Alive THEN Range(i.blocks) ELSE {})
    /\ \A b \in inserted : Targets(code[b]) \subseteq Targets(d[b])
    /\ Open(d[insertBlock]) <=> (Open(code[insertBlock]) /\ ~IsTerminator(i))
    /\ IsTerminator(i) /\ Alive => Targets(d[insertBlock]) = Range(i.blocks)
    /\ Linked(d, inserted)
    /\ \A b \in 1..Len(code) : b # insertBlock => d[b] = code[b]
    /\ d[insertBlock] = Append(code[insertBlock], i)
    /\ i.op # "phi" => \A b \in inserted : \A k \in 1..Len(d[b]) :
          d[b][k].op = "phi" => \E m \in 1..Len(code[b]) : code[b][m] = d[b][k]

\* What an instruction at the insertion point and n new blocks do to the graph.
LEMMA EmitGraph ==
    ASSUME IInv, FlowInv, Working, NEW i \in Instr, NEW n \in Nat,
           RefersBelow(i, Len(code) + n), NEW d, d = Emit(i, n),
           IsTerminator(i) /\ Alive =>
              \A x \in Range(i.blocks) : x \in Reachable \/ x \notin inserted
    PROVE  Emitted(i, n, d)
<1>0. /\ code \in Seq(Seq(Instr)) /\ Len(code) \in Nat /\ Graph(code)
      /\ inserted \subseteq 1..Len(code) /\ insertBlock \in inserted
      /\ insertBlock \in 1..Len(code)
      /\ Reachable \subseteq 1..Len(code) /\ Reachable = ReachableIn(code)
      /\ Linked(code, inserted)
  BY StateIs
<1>1. /\ d \in Seq(Seq(Instr)) /\ Len(d) = Len(code) + n
      /\ \A b \in 1..Len(code) : b # insertBlock => d[b] = code[b]
  BY EmitValue DEF IInv
<1>2. d[insertBlock] = Append(code[insertBlock], i)
  BY <1>0 DEF Emit
<1>3. \A b \in 1..Len(d) : b > Len(code) => d[b] = <<>>
  BY <1>0, <1>1 DEF Emit
<1>4. code[insertBlock] \in Seq(Instr)
  BY <1>0
<1>5. /\ Open(d[insertBlock]) <=> (Open(code[insertBlock]) /\ ~IsTerminator(i))
      /\ Targets(d[insertBlock]) = IF Open(code[insertBlock]) /\ IsTerminator(i)
                                   THEN Range(i.blocks) ELSE Targets(code[insertBlock])
  BY <1>2, <1>4, AppendTargets
<1>6. i.blocks \in Seq(Nat) /\ Range(i.blocks) \subseteq 1..Len(d)
  <2>1. i.blocks \in Seq(Nat)
    BY DEF Instr
  <2> QED BY <1>1, <2>1 DEF Range, RefersBelow
<1> DEFINE X == IF IsTerminator(i) THEN Range(i.blocks) ELSE {}
<1>7. X \in SUBSET (1..Len(d)) /\ (IsTerminator(i) => X = Range(i.blocks)) /\ (~IsTerminator(i) => X = {})
  BY <1>6
<1> HIDE DEF X
<1>8. Targets(d[insertBlock]) = IF Open(code[insertBlock]) THEN X ELSE Targets(code[insertBlock])
  BY <1>5, <1>7, OpenTargets
<1>9. ASSUME insertBlock \in ReachableIn(code), Open(code[insertBlock])
      PROVE  \A x \in X : x \in ReachableIn(code) \/ x > Len(code) \/ Targets(code[x]) = {}
  <2>1. Alive
    BY <1>0, <1>9 DEF Alive
  <2>2. ASSUME NEW x \in X, x \notin ReachableIn(code), ~(x > Len(code))
        PROVE  Targets(code[x]) = {}
    <3>1. x \in 1..Len(code) /\ x \notin inserted
      BY <1>0, <1>7, <1>1, <2>1, <2>2
    <3>2. code[x] = <<>>
      BY <1>0, <3>1 DEF Linked
    <3> QED BY <3>2, EmptyIsOpen
  <2> QED BY <2>2
<1>10. /\ \A a \in 1..Len(code) : a # insertBlock => Targets(d[a]) = Targets(code[a])
       /\ \A a \in 1..Len(d) : a > Len(code) => Targets(d[a]) = {}
       /\ Len(d) \in Nat /\ Len(code) <= Len(d)
  BY <1>0, <1>1, <1>3, EmptyIsOpen
<1>11. /\ ReachableIn(d) = ReachableIn(code) \cup
             (IF insertBlock \in ReachableIn(code) /\ Open(code[insertBlock]) THEN X ELSE {})
       /\ Graph(d)
  BY <1>0, <1>7, <1>8, <1>9, <1>10, ReachMore
<1>12. ReachableIn(d) = Reachable \cup (IF IsTerminator(i) /\ Alive THEN Range(i.blocks) ELSE {})
  BY <1>0, <1>7, <1>11 DEF Alive
<1>13. \A b \in inserted : Targets(code[b]) \subseteq Targets(d[b])
  BY <1>0, <1>8, <1>10, OpenTargets
<1>14. IsTerminator(i) /\ Alive => Targets(d[insertBlock]) = Range(i.blocks)
  BY <1>5 DEF Alive
<1>15. Linked(d, inserted)
  <2>1. ASSUME NEW b \in 1..Len(d), b \notin inserted PROVE d[b] = <<>>
    <3>1. CASE b > Len(code)
      BY <1>3, <3>1
    <3>2. CASE ~(b > Len(code))
      <4>1. b \in 1..Len(code) /\ b # insertBlock
        BY <1>0, <1>1, <2>1, <3>2
      <4> QED BY <1>0, <1>1, <2>1, <4>1 DEF Linked
    <3> QED BY <3>1, <3>2
  <2> QED BY <1>0, <2>1 DEF Linked
<1>16. ASSUME i.op # "phi", NEW b \in inserted, NEW k \in 1..Len(d[b]), d[b][k].op = "phi"
       PROVE  \E m \in 1..Len(code[b]) : code[b][m] = d[b][k]
  <2>1. CASE b # insertBlock
    BY <1>0, <1>1, <1>16, <2>1
  <2>2. CASE b = insertBlock
    <3>1. /\ Len(d[b]) = Len(code[b]) + 1 /\ Len(code[b]) \in Nat /\ d[b][Len(code[b]) + 1] = i
          /\ \A m \in 1..Len(code[b]) : d[b][m] = code[b][m]
      <4> DEFINE s == code[insertBlock]
      <4>1. s \in Seq(Instr) /\ d[b] = Append(s, i) /\ code[b] = s
        BY <1>2, <1>4, <2>2
      <4> HIDE DEF s
      <4>2. /\ Len(Append(s, i)) = Len(s) + 1 /\ Len(s) \in Nat /\ Append(s, i)[Len(s) + 1] = i
            /\ \A m \in 1..Len(s) : Append(s, i)[m] = s[m]
        BY <4>1
      <4> QED BY <4>1, <4>2
    <3>2. k # Len(code[b]) + 1
      BY <1>16, <3>1
    <3>3. k \in 1..Len(code[b])
      BY <3>1, <3>2
    <3> QED BY <3>1, <3>3
  <2> QED BY <2>1, <2>2
<1> QED BY <1>1, <1>2, <1>5, <1>11, <1>12, <1>13, <1>14, <1>15, <1>16 DEF Emitted

-----------------------------------------------------------------------------
(* Steps that change no branch and leave the insertion point.              *)

Quiet(d) ==
    /\ ReachableIn(d) = Reachable /\ Linked(d, inserted)
    /\ Open(d[insertBlock]) <=> Open(code[insertBlock])
    /\ \A b \in inserted : Targets(code[b]) \subseteq Targets(d[b])
    /\ \A b \in inserted : \A k \in 1..Len(d[b]) :
          d[b][k].op = "phi" => \E m \in 1..Len(code[b]) : code[b][m] = d[b][k]

\* Code without new edges keeps what the frames say and the phis.
LEMMA QuietKeeps ==
    ASSUME IInv, FlowInv, Working, NEW d, Quiet(d)
    PROVE  /\ Mirrors(frames, Point.saved, Alive, Alive, inserted, Reachable, d)
           /\ PhisOK(d, inserted, Reachable)
<1>1. /\ frames \in Seq(Frame) /\ Point.saved \in Seq(BOOLEAN) /\ Alive \in BOOLEAN
      /\ \A i \in 1..Len(frames) : Holds(frames[i], inserted, Len(code))
      /\ Mirrors(frames, Point.saved, Alive, Alive, inserted, Reachable, code)
      /\ PhisOK(code, inserted, Reachable)
  BY StateIs
<1>2. \A i \in 1..Len(frames) : Owned(frames[i]) \cap inserted = {}
  BY <1>1 DEF Mirrors, Detached
<1>3. \A b \in inserted : Targets(code[b]) \subseteq Targets(d[b])
  BY DEF Quiet
<1>4. \A b \in inserted : \A k \in 1..Len(d[b]) :
          d[b][k].op = "phi" => \E m \in 1..Len(code[b]) : code[b][m] = d[b][k]
  BY DEF Quiet
<1> DEFINE F == frames
           V == Point.saved
           A == Alive
           R == Reachable
           I == inserted
           c == code
<1>5. Mirrors(F, V, A, A, I, R, d)
  <2>1. Kept(F, V, A, I, R, c, A, I, R, d)
    BY <1>1, <1>2, <1>3 DEF Kept
  <2>2. /\ F \in Seq(Frame) /\ V \in Seq(BOOLEAN) /\ A \in BOOLEAN
        /\ Mirrors(F, V, A, A, I, R, c) /\ (A => A) /\ R \subseteq R
    BY <1>1
  <2> HIDE DEF F, V, A, R, I, c
  <2> QED BY <2>1, <2>2, MirrorsStay
<1>6. PhisOK(d, I, R)
  <2>1. PhisOK(c, I, R)
    BY <1>1
  <2>2. PhisKept(c, d, I, I, R, R)
    BY <1>3, <1>4 DEF PhisKept
  <2> HIDE DEF I, R, c
  <2> QED BY <2>1, <2>2, PhisStay
<1> QED BY <1>5, <1>6

\* The instructions that change no branch.
LEMMA QuietPlain ==
    ASSUME IInv, FlowInv, Working, NEW d, d = Emit(Plain, 0)
    PROVE  Quiet(d)
<1>1. /\ Plain \in Instr /\ ~IsTerminator(Plain) /\ Plain.op # "phi" /\ Plain.blocks = <<>>
  BY InstrTypes DEF Plain, IsTerminator, Terminators
<1>2. RefersBelow(Plain, Len(code) + 0) /\ 0 \in Nat
  BY <1>1 DEF RefersBelow
<1>3. /\ ReachableIn(d) = Reachable \cup {} /\ Linked(d, inserted)
      /\ Open(d[insertBlock]) <=> Open(code[insertBlock])
      /\ \A b \in inserted : Targets(code[b]) \subseteq Targets(d[b])
      /\ \A b \in inserted : \A k \in 1..Len(d[b]) :
            d[b][k].op = "phi" => \E m \in 1..Len(code[b]) : code[b][m] = d[b][k]
  <2> DEFINE i == Plain
             n == 0
  <2>1. /\ i \in Instr /\ n \in Nat /\ RefersBelow(i, Len(code) + n) /\ d = Emit(i, n)
        /\ ~IsTerminator(i) /\ i.op # "phi"
    BY <1>1, <1>2
  <2> HIDE DEF i, n
  <2>2. Emitted(i, n, d)
    BY <2>1, EmitGraph
  <2> QED BY <2>1, <2>2 DEF Emitted
<1> QED BY <1>3 DEF Quiet

\* No new code is such code.
LEMMA QuietSame ==
    ASSUME IInv, FlowInv, Working
    PROVE  Quiet(code)
BY StateIs DEF Quiet

\* So is an alloca in the entry block.
LEMMA QuietAlloca ==
    ASSUME IInv, FlowInv, Working, NEW d, d = [code EXCEPT ![1] = <<Alloca>> \o @]
    PROVE  Quiet(d)
<1>1. /\ code \in Seq(Seq(Instr)) /\ Len(code) \in Nat /\ Graph(code)
      /\ inserted \subseteq 1..Len(code) /\ insertBlock \in inserted
      /\ Reachable = ReachableIn(code) /\ Linked(code, inserted)
  BY StateIs
<1>2. 1 \in inserted /\ 1 \in 1..Len(code) /\ code[1] \in Seq(Instr)
  BY <1>1 DEF Linked
<1>3. /\ Len(d) = Len(code) /\ d[1] = <<Alloca>> \o code[1]
      /\ \A b \in 1..Len(code) : b # 1 => d[b] = code[b]
  BY <1>1, <1>2
<1>4. \A b \in 1..Len(code) : Targets(d[b]) = Targets(code[b]) /\ (Open(d[b]) <=> Open(code[b]))
  BY <1>2, <1>3, PrependTargets
<1>5. ReachableIn(d) = Reachable
  <2> DEFINE c == code
  <2>1. Graph(c) /\ SameTargets(c, d)
    BY <1>1, <1>3, <1>4 DEF SameTargets
  <2> HIDE DEF c
  <2>2. ReachableIn(d) = ReachableIn(c)
    BY <2>1, ReachSame
  <2> USE DEF c
  <2> QED BY <1>1, <2>2
<1>6. Linked(d, inserted)
  BY <1>1, <1>2, <1>3 DEF Linked
<1>7. ASSUME NEW b \in inserted, NEW k \in 1..Len(d[b]), d[b][k].op = "phi"
      PROVE  \E m \in 1..Len(code[b]) : code[b][m] = d[b][k]
  <2>1. CASE b # 1
    BY <1>1, <1>3, <1>7, <2>1
  <2>2. CASE b = 1
    <3>1. /\ Alloca \in Instr /\ Alloca.op # "phi"
      BY InstrTypes DEF Alloca
    <3>2. /\ Len(d[b]) = Len(code[b]) + 1 /\ Len(code[b]) \in Nat /\ d[b][1] = Alloca
          /\ \A m \in 1..Len(code[b]) : d[b][m + 1] = code[b][m]
      BY <1>2, <1>3, <2>2, <3>1
    <3>3. k # 1
      BY <1>7, <3>1, <3>2
    <3>4. k - 1 \in 1..Len(code[b]) /\ k - 1 + 1 = k
      BY <3>2, <3>3
    <3> QED BY <3>2, <3>4
  <2> QED BY <2>1, <2>2
<1> QED BY <1>1, <1>4, <1>5, <1>6, <1>7 DEF Quiet

\* The stack and the entries around such a step.
LEMMA QuietStep ==
    ASSUME IInv, FlowInv, Working, IInv', Working', Quiet(code'),
           UNCHANGED <<inserted, insertBlock, warnings>>,
           NEW live \in BOOLEAN, NEW V \in Seq(BOOLEAN), Point' = [live |-> live, saved |-> V],
           live <=> (Alive /\ ~Returning(frames')),
           Mirrors(frames', V, Alive, Alive, inserted, Reachable, code')
    PROVE  FlowInv'
<1>1. Alive \in BOOLEAN /\ warnings \in Nat /\ warnings <= MaxWarnings
  BY StateIs
<1>2. PhisOK(code', inserted, Reachable)
  BY QuietKeeps
<1> DEFINE A == Alive
           R == Reachable
<1>3. /\ ReachableIn(code') = R /\ Linked(code', inserted')
      /\ A <=> (insertBlock' \in R /\ Open(code'[insertBlock']))
  BY DEF Quiet, Alive
<1>4. /\ PhisOK(code', inserted', R) /\ warnings' <= MaxWarnings
      /\ Mirrors(frames', V, A, A, inserted', R, code')
      /\ live <=> (A /\ ~Returning(frames'))
      /\ A \in BOOLEAN
  BY <1>1, <1>2
<1> HIDE DEF A, R
<1> QED BY <1>3, <1>4, FlowInvHolds

\* A step with such code and the same call stack.
LEMMA QuietStay ==
    ASSUME IInv, FlowInv, Working, IInv', Working', Quiet(code'),
           UNCHANGED <<frames, inserted, insertBlock, warnings>>, Point' = Point
    PROVE  FlowInv'
<1>1. /\ Point.live \in BOOLEAN /\ Point.saved \in Seq(BOOLEAN)
      /\ Point = [live |-> Point.live, saved |-> Point.saved]
      /\ Point.live <=> (Alive /\ ~Returning(frames))
  BY StateIs
<1>2. Mirrors(frames, Point.saved, Alive, Alive, inserted, Reachable, code')
  BY QuietKeeps
<1> DEFINE l == Point.live
           V == Point.saved
<1>3. /\ l \in BOOLEAN /\ V \in Seq(BOOLEAN) /\ Point' = [live |-> l, saved |-> V]
      /\ l <=> (Alive /\ ~Returning(frames'))
      /\ Mirrors(frames', V, Alive, Alive, inserted, Reachable, code')
  BY <1>1, <1>2
<1> HIDE DEF l, V
<1> QED BY <1>3, QuietStep

\* Frames of expressions.
LEMMA PlainFrames ==
    ASSUME NEW k \in {"expr", "return", "operator", "land.lhs", "lor.lhs", "if.cond", "ifelse.cond", "func"}
    PROVE  /\ Plainly(k) \in Frame /\ Plainly(k).kind = k
           /\ Owned(Plainly(k)) = {} /\ OwnsWell(Plainly(k))
BY DEF Plainly, Holding, None, Frame, StmtFrames, ExprFrames, Owned, OwnsWell, HoldsEnd

\* A step with such code that calls a handler.
LEMMA QuietCall ==
    ASSUME IInv, FlowInv, Working, IInv', Working', UNCHANGED code,
           NEW k \in {"expr", "return", "operator", "land.lhs", "lor.lhs"}, Call(Plainly(k)),
           UNCHANGED <<inserted, insertBlock, warnings>>,
           Point' = IF k = "return" THEN [live |-> FALSE, saved |-> Point.saved] ELSE Point
    PROVE  FlowInv'
<1> DEFINE f == Plainly(k)
           l == IF k = "return" THEN FALSE ELSE Point.live
           V == Point.saved
           A == Alive
<1>1. /\ Point.live \in BOOLEAN /\ Point.saved \in Seq(BOOLEAN)
      /\ Point = [live |-> Point.live, saved |-> Point.saved]
      /\ Point.live <=> (A /\ ~Returning(frames))
      /\ frames \in Seq(Frame) /\ Len(frames) > 0 /\ A \in BOOLEAN
      /\ Mirrors(frames, V, A, A, inserted, Reachable, code)
  BY StateIs
<1>2. Point' = [live |-> l, saved |-> V] /\ l \in BOOLEAN /\ V \in Seq(BOOLEAN)
  BY <1>1
<1>3. f \in Frame /\ f.kind = k /\ Owned(f) = {}
  BY PlainFrames
<1>4. frames' = Append(frames, f)
  BY DEF Call
<1>5. Returning(frames') <=> (Returning(frames) \/ k = "return")
  BY <1>1, <1>3, <1>4, ReturningIs
<1>6. l <=> (A /\ ~Returning(frames'))
  BY <1>1, <1>5
<1>7. f.kind \notin Savers /\ f.kind # "logical.rhs"
  BY <1>3 DEF Savers
<1> HIDE DEF f, l, V, A
<1>8. Owned(f) \cap inserted = {} /\ \A i \in 1..Len(frames) : Owned(frames[i]) \cap Owned(f) = {}
  BY <1>3
<1>9. Mirrors(Append(frames, f), V, A, A, inserted, Reachable, code)
  BY <1>1, <1>2, <1>3, <1>7, <1>8, MirrorsCall
<1>10. Mirrors(frames', V, Alive, Alive, inserted, Reachable, code') /\ (l <=> (Alive /\ ~Returning(frames')))
  BY <1>4, <1>6, <1>9 DEF A
<1>11. Quiet(code')
  BY QuietSame
<1> QED BY <1>2, <1>10, <1>11, QuietStep

\* A step with such code that returns from a handler.
LEMMA QuietReturn ==
    ASSUME IInv, FlowInv, Working, IInv', Working', Quiet(code'),
           Top.kind \in {"expr", "operator"}, Return,
           UNCHANGED <<inserted, insertBlock, warnings>>, Point' = Point
    PROVE  FlowInv'
<1> DEFINE l == Point.live
           V == Point.saved
           A == Alive
<1>1. /\ l \in BOOLEAN /\ V \in Seq(BOOLEAN) /\ Point = [live |-> l, saved |-> V]
      /\ l <=> (A /\ ~Returning(frames))
      /\ frames \in Seq(Frame) /\ Len(frames) \in Nat /\ Len(frames) > 0 /\ A \in BOOLEAN
      /\ Top = frames[Len(frames)]
  BY StateIs
<1>2. Mirrors(frames, V, A, A, inserted, Reachable, code')
  BY QuietKeeps
<1>3. frames' = Pop(frames)
  BY DEF Return
<1>4. frames[Len(frames)].kind \notin Savers /\ frames[Len(frames)].kind # "return"
      /\ frames[Len(frames)].kind # "func"
  BY <1>1 DEF Savers
<1>5. Len(frames) > 1
  <2>1. Len(frames) \in 1..Len(frames) /\ Shape
    BY <1>1 DEF IInv
  <2> QED BY <1>1, <1>4, <2>1 DEF Shape
<1>6. Returning(frames') <=> Returning(frames)
  BY <1>1, <1>3, <1>4, ReturningIs
<1> HIDE DEF l, V, A
<1>7. Mirrors(Pop(frames), V, A, A, inserted, Reachable, code')
  BY <1>1, <1>2, <1>4, <1>5, MirrorsReturn
<1>8. /\ Mirrors(frames', V, Alive, Alive, inserted, Reachable, code')
      /\ l <=> (Alive /\ ~Returning(frames'))
      /\ Point' = [live |-> l, saved |-> V]
  BY <1>1, <1>3, <1>6, <1>7 DEF A
<1> QED BY <1>1, <1>8, QuietStep

\* In a body every frame but that of the function has its entry.
LEMMA AllSaved ==
    ASSUME NEW F \in Seq(Frame), Len(F) > 0, NEW V \in Seq(BOOLEAN), Aligned(F, V),
           Len(F) = 1 \/ F[Len(F)].kind \in Savers
    PROVE  Len(V) = Len(F) - 1
<1>1. Len(V) < Len(F) /\ Len(V) \in Nat /\ Len(F) \in Nat /\ Len(F) \in 1..Len(F)
  BY DEF Aligned
<1>2. Len(F) = 1 \/ Len(F) - 1 \in 1..Len(V)
  BY <1>1 DEF Aligned
<1> DEFINE m == Len(V)
           n == Len(F)
<1>3. m < n /\ m \in Nat /\ n \in Nat /\ (n = 1 \/ n - 1 \in 1..m)
  BY <1>1, <1>2
<1> HIDE DEF m, n
<1>4. m = n - 1
  BY <1>3
<1> QED BY <1>4 DEF m, n

\* Between two statements.
LEMMA InBody ==
    ASSUME IInv, FlowInv, mode = "stmt"
    PROVE  /\ ~Returning(frames) /\ (Point.live <=> Alive)
           /\ Len(Point.saved) = Len(frames) - 1
<1>0. Working
  BY DEF Working
<1> DEFINE F == frames
           V == Point.saved
<1>1. /\ Point.live <=> (Alive /\ ~Returning(F))
      /\ F \in Seq(Frame) /\ Len(F) > 0 /\ Len(F) \in Nat
      /\ V \in Seq(BOOLEAN) /\ Aligned(F, V)
  BY <1>0, StateIs DEF Mirrors
<1>2. \A i \in 1..Len(F) : F[i].kind \in StmtFrames
  BY InStatement
<1>3. ~Returning(F)
  BY <1>1, <1>2, ReturningIs
<1>4. Len(F) = 1 \/ F[Len(F)].kind \in Savers
  <2>1. Len(F) \in 1..Len(F) /\ Shape
    BY <1>1 DEF IInv
  <2>2. Len(F) # 1 => F[Len(F)].kind # "func"
    BY <2>1 DEF Shape
  <2> QED BY <1>2, <2>1, <2>2 DEF StmtFrames, Savers
<1> HIDE DEF F, V
<1>5. Len(V) = Len(F) - 1
  BY <1>1, <1>4, AllSaved
<1> QED BY <1>1, <1>3, <1>5 DEF F, V

\* An if or if-else starts with its condition.
LEMMA QuietSave ==
    ASSUME IInv, FlowInv, mode = "stmt", IInv', Working', UNCHANGED code,
           NEW k \in {"if.cond", "ifelse.cond"}, Call(Plainly(k)),
           UNCHANGED <<inserted, insertBlock, warnings>>,
           Point' = [live |-> Point.live, saved |-> Append(Point.saved, Point.live)]
    PROVE  FlowInv'
<1>0. Working
  BY DEF Working
<1> DEFINE f == Plainly(k)
           l == Point.live
           V == Point.saved
           A == Alive
<1>1. /\ l \in BOOLEAN /\ V \in Seq(BOOLEAN)
      /\ l <=> (A /\ ~Returning(frames))
      /\ frames \in Seq(Frame) /\ Len(frames) > 0 /\ A \in BOOLEAN
      /\ Mirrors(frames, V, A, A, inserted, Reachable, code)
  BY <1>0, StateIs
<1>2. ~Returning(frames) /\ (l <=> A) /\ Len(V) = Len(frames) - 1
  BY InBody
<1>3. f \in Frame /\ f.kind = k /\ Owned(f) = {} /\ OwnsWell(f)
  BY PlainFrames
<1>4. frames' = Append(frames, f)
  BY DEF Call
<1>5. ~Returning(frames')
  BY <1>1, <1>2, <1>3, <1>4, ReturningIs
<1>8. f.kind \in Savers /\ f.kind \notin Joins /\ f.kind \notin Branches
      /\ f.kind \notin {"ifelse.then", "logical.rhs"}
  BY <1>3 DEF Savers, Joins, Branches
<1> HIDE DEF f, l, V, A
<1>9. Flows(f, l, A, Reachable, code)
  BY <1>2, <1>8 DEF Flows
<1>10. Owned(f) \cap inserted = {} /\ \A i \in 1..Len(frames) : Owned(frames[i]) \cap Owned(f) = {}
  BY <1>3
<1>11. Mirrors(Append(frames, f), Append(V, l), A, A, inserted, Reachable, code)
  <2>1. Saving(frames, V, A, A, inserted, Reachable, code, f, l)
    BY <1>1, <1>2, <1>3, <1>8, <1>9, <1>10 DEF Saving
  <2> QED BY <2>1, MirrorsSave
<1>12. /\ Mirrors(frames', Append(V, l), Alive, Alive, inserted, Reachable, code')
       /\ l <=> (Alive /\ ~Returning(frames'))
       /\ Point' = [live |-> l, saved |-> Append(V, l)] /\ Append(V, l) \in Seq(BOOLEAN)
  BY <1>1, <1>2, <1>4, <1>5, <1>11 DEF A, V, l
<1>13. Quiet(code')
  BY <1>0, QuietSame
<1> QED BY <1>0, <1>1, <1>12, <1>13, QuietStep

-----------------------------------------------------------------------------
(* The point after each kind of event.                                     *)

\* A step that enters no node stays at its point.
LEMMA PointSame == UNCHANGED trail => Point' = Point
BY DEF Point

\* What entering a node does to the point.
LEMMA PointEnters ==
    ASSUME IInv, FlowInv, Working, NEW e, Enter(e)
    PROVE  /\ e \in Neutral => Point' = Point
           /\ e \in {"return", "break"} =>
                 Point' = [live |-> FALSE, saved |-> Point.saved]
           /\ e \in {"if", "ifelse", "while"} =>
                 Point' = [live |-> Point.live,
                           saved |-> Append(Point.saved, Point.live)]
<1>1. e \in AllConstructs \cup {"else", "end"} /\ trail' = Append(trail, e)
  BY CodegenAssumption DEF Enter
<1>2. Point' = Flow(Point, e)
  BY <1>1, PointMoves
<1>3. Point = [live |-> Point.live, saved |-> Point.saved]
  BY StateIs
<1> DEFINE s == Point
           l == Point.live
           V == Point.saved
<1>4. s = [live |-> l, saved |-> V] /\ Point' = Flow(s, e)
  BY <1>2, <1>3
<1> HIDE DEF s, l, V
<1>5. /\ e \in {"return", "break"} => Flow(s, e) = [live |-> FALSE, saved |-> V]
      /\ e \in {"if", "ifelse", "while"} =>
            Flow(s, e) = [live |-> l, saved |-> Append(V, l)]
      /\ e \in Neutral => Flow(s, e) = s
  <2>1. FlowsTo(s, l, V)
    BY <1>4, FlowIs
  <2> QED BY <2>1 DEF FlowsTo
<1> QED BY <1>4, <1>5 DEF s, l, V

\* The end of a body, or of a then branch, takes its entry off `saved`.
LEMMA PointLeaves ==
    ASSUME IInv, FlowInv, Working, NEW k, NEW e \in {"else", "end"}, Leave(k, e)
    PROVE  Point' = IF e = "end"
                    THEN [live |-> Point.live \/ Point.saved[Len(Point.saved)],
                          saved |-> Front(Point.saved)]
                    ELSE [live |-> Point.saved[Len(Point.saved)],
                          saved |-> Append(Front(Point.saved), Point.live)]
<1>1. e \in AllConstructs \cup {"else", "end"} /\ trail' = Append(trail, e)
  BY DEF Leave
<1>2. Point' = Flow(Point, e)
  BY <1>1, PointMoves
<1>3. Point = [live |-> Point.live, saved |-> Point.saved]
  BY StateIs
<1> DEFINE s == Point
           l == Point.live
           V == Point.saved
<1>4. s = [live |-> l, saved |-> V] /\ Point' = Flow(s, e)
  BY <1>2, <1>3
<1> HIDE DEF s, l, V
<1>5. /\ Flow(s, "else") = [live |-> V[Len(V)], saved |-> Append(Front(V), l)]
      /\ Flow(s, "end") = [live |-> l \/ V[Len(V)], saved |-> Front(V)]
  <2>1. FlowsTo(s, l, V)
    BY <1>4, FlowIs
  <2> QED BY <2>1 DEF FlowsTo
<1>6. Point' = IF e = "end" THEN [live |-> l \/ V[Len(V)], saved |-> Front(V)]
               ELSE [live |-> V[Len(V)], saved |-> Append(Front(V), l)]
  BY <1>4, <1>5
<1> QED BY <1>6 DEF l, V

-----------------------------------------------------------------------------
(* The quiet actions.                                                      *)

\* A declaration, the leaves, operands, operators and expression statements
\* add no edge.
LEMMA VarDeclFlow == ASSUME IInv, FlowInv, IInv', VarDecl PROVE FlowInv'
<1>1. /\ Working /\ Working' /\ Enter("decl")
      /\ code' = [code EXCEPT ![1] = <<Alloca>> \o @]
      /\ UNCHANGED <<frames, inserted, insertBlock, warnings>>
  BY DEF VarDecl, Working
<1>2. Quiet(code')
  BY <1>1, QuietAlloca
<1>3. Point' = Point
  BY <1>1, PointEnters DEF Neutral, AllConstructs
<1> QED BY <1>1, <1>2, <1>3, QuietStay

LEMMA LeafFlow == ASSUME IInv, FlowInv, IInv', IdExpr \/ LitExpr PROVE FlowInv'
<1>1. /\ Working /\ Working' /\ code' \in {code, Emit(Plain, 0)}
      /\ UNCHANGED <<trail, frames, inserted, insertBlock, warnings>>
  BY DEF IdExpr, LitExpr, Leaf, Working
<1>2. Quiet(code')
  BY <1>1, QuietSame, QuietPlain
<1>3. Point' = Point
  BY <1>1, PointSame
<1> QED BY <1>1, <1>2, <1>3, QuietStay

LEMMA NextOperandFlow == ASSUME IInv, FlowInv, IInv', NextOperand PROVE FlowInv'
<1>1. /\ Working /\ Working' /\ code' = code /\ Enter("operand")
      /\ UNCHANGED <<frames, inserted, insertBlock, warnings>>
  BY DEF NextOperand, Working
<1>2. Quiet(code')
  BY <1>1, QuietSame
<1>3. Point' = Point
  BY <1>1, PointEnters DEF Neutral, AllConstructs
<1> QED BY <1>1, <1>2, <1>3, QuietStay

LEMMA OperatorFlow ==
    ASSUME IInv, FlowInv, IInv', NEW c \in {"operator", "land", "lor"},
           NEW k \in {"operator", "land.lhs", "lor.lhs"}, Operator(c, k)
    PROVE  FlowInv'
<1>1. /\ Working /\ Working' /\ Enter(c) /\ Call(Plainly(k))
      /\ UNCHANGED <<code, inserted, insertBlock, warnings>>
  BY DEF Operator, Working
<1>2. Point' = Point
  BY <1>1, PointEnters DEF Neutral, AllConstructs
<1>3. Point' = IF k = "return" THEN [live |-> FALSE, saved |-> Point.saved] ELSE Point
  BY <1>2
<1> QED BY <1>1, <1>3, QuietCall

LEMMA ExprStmtFlow == ASSUME IInv, FlowInv, IInv', ExprStmt PROVE FlowInv'
<1> DEFINE k == "expr"
<1>1. /\ Working /\ Working' /\ Enter("expr") /\ Call(Plainly(k))
      /\ UNCHANGED <<code, inserted, insertBlock, warnings>>
      /\ k \in {"expr", "return", "operator", "land.lhs", "lor.lhs"} /\ k # "return"
  BY DEF ExprStmt, Evaluate, Working
<1>2. Point' = Point
  BY <1>1, PointEnters DEF Neutral, AllConstructs
<1> HIDE DEF k
<1>3. Point' = IF k = "return" THEN [live |-> FALSE, saved |-> Point.saved] ELSE Point
  BY <1>1, <1>2
<1> QED BY <1>1, <1>3, QuietCall

\* From here on the value of a return is generated.
LEMMA ReturnValueFlow == ASSUME IInv, FlowInv, IInv', ReturnValue PROVE FlowInv'
<1> DEFINE k == "return"
<1>1. /\ Working /\ Working' /\ Enter("return") /\ Call(Plainly(k))
      /\ UNCHANGED <<code, inserted, insertBlock, warnings>>
      /\ k \in {"expr", "return", "operator", "land.lhs", "lor.lhs"} /\ k = "return"
  BY DEF ReturnValue, Evaluate, Working
<1>2. Point' = [live |-> FALSE, saved |-> Point.saved]
  BY <1>1, PointEnters
<1> HIDE DEF k
<1>5. Point' = IF k = "return" THEN [live |-> FALSE, saved |-> Point.saved] ELSE Point
  BY <1>1, <1>2
<1> QED BY <1>1, <1>5, QuietCall

LEMMA ApplyFlow == ASSUME IInv, FlowInv, IInv', Apply PROVE FlowInv'
<1>1. /\ Working /\ Working' /\ code' = Emit(Plain, 0) /\ Top.kind = "operator"
      /\ Return /\ UNCHANGED <<trail, inserted, insertBlock, warnings>>
  BY DEF Apply, Working
<1>2. Quiet(code') /\ Point' = Point
  BY <1>1, QuietPlain, PointSame
<1> QED BY <1>1, <1>2, QuietReturn

LEMMA ExprStmtValueFlow == ASSUME IInv, FlowInv, IInv', ExprStmtValue PROVE FlowInv'
<1>1. /\ Working /\ Working' /\ code' = code /\ Top.kind = "expr"
      /\ Return /\ UNCHANGED <<trail, inserted, insertBlock, warnings>>
  BY DEF ExprStmtValue, Working
<1>2. Quiet(code') /\ Point' = Point
  BY <1>1, QuietSame, PointSame
<1> QED BY <1>1, <1>2, QuietReturn

LEMMA IfStmtFlow == ASSUME IInv, FlowInv, IInv', IfStmt \/ IfElseStmt PROVE FlowInv'
<1>1. ASSUME NEW c \in {"if", "ifelse"}, NEW k \in {"if.cond", "ifelse.cond"},
             Evaluate(c, k)
      PROVE  FlowInv'
  <2>1. /\ mode = "stmt" /\ Working /\ Working' /\ Enter(c) /\ Call(Plainly(k))
        /\ UNCHANGED <<code, inserted, insertBlock, warnings>>
    BY <1>1 DEF Evaluate, Working
  <2>2. Point' = [live |-> Point.live, saved |-> Append(Point.saved, Point.live)]
    BY <2>1, PointEnters
  <2> QED BY <2>1, <2>2, QuietSave
<1> QED BY <1>1 DEF IfStmt, IfElseStmt

-----------------------------------------------------------------------------
(* Steps that end a block.                                                 *)

\* A terminator is no phi.
LEMMA TerminatorIs ==
    ASSUME NEW i \in Instr, IsTerminator(i)
    PROVE  i.op # "phi"
BY DEF IsTerminator, Terminators

\* What a handler holds on to exists.
LEMMA OwnedExist ==
    ASSUME NEW f, NEW I, NEW n, Holds(f, I, n)
    PROVE  Owned(f) \subseteq 1..n
BY DEF Owned, Holds, HoldsEnd, HoldsInserted

\* A terminator with the targets X ends the insertion block, and code is
\* generated into block b from now on.
Moves(X, b, d) ==
    /\ ReachableIn(d) = Reachable \cup (IF Alive THEN X ELSE {})
    /\ d[b] = <<>> /\ Linked(d, inserted \cup {b})
    /\ PhisOK(d, inserted \cup {b}, ReachableIn(d))
    /\ \A x \in inserted : x \in ReachableIn(d) => x \in Reachable
    /\ \A a \in inserted : Targets(code[a]) \subseteq Targets(d[a])
    /\ Alive => Targets(d[insertBlock]) = X

\* What a terminator, n new blocks and a move to block b do to the graph.
LEMMA MoveGraph ==
    ASSUME IInv, FlowInv, Working, NEW i \in Instr, IsTerminator(i), NEW n \in Nat,
           RefersBelow(i, Len(code) + n), NEW X, Range(i.blocks) = X,
           Alive => \A x \in X : x \in Reachable \/ x \notin inserted,
           NEW b \in 1..Len(code) + n, b \notin inserted, NEW d, d = Emit(i, n)
    PROVE  Moves(X, b, d)
<1>1. Emitted(i, n, d)
  BY EmitGraph
<1>2. i.op # "phi"
  BY TerminatorIs
<1>3. /\ Len(d) = Len(code) + n
      /\ ReachableIn(d) = Reachable \cup (IF Alive THEN X ELSE {})
      /\ \A a \in inserted : Targets(code[a]) \subseteq Targets(d[a])
      /\ Alive => Targets(d[insertBlock]) = X
      /\ Linked(d, inserted)
      /\ \A a \in inserted : \A k \in 1..Len(d[a]) :
            d[a][k].op = "phi" => \E m \in 1..Len(code[a]) : code[a][m] = d[a][k]
  BY <1>1, <1>2 DEF Emitted
<1>4. d[b] = <<>> /\ Linked(d, inserted \cup {b})
  BY <1>3 DEF Linked
<1>5. \A x \in inserted : x \in ReachableIn(d) => x \in Reachable
  BY <1>3
<1>6. PhisOK(code, inserted, Reachable)
  BY StateIs
<1> DEFINE c == code
           I == inserted
           J == inserted \cup {b}
           R == Reachable
           R2 == ReachableIn(d)
<1>7. PhisOK(d, J, R2)
  <2>1. \A a \in J : a \notin I => d[a] = <<>>
    BY <1>4
  <2>2. PhisOK(c, I, R) /\ I \subseteq J
    BY <1>6
  <2>3. PhisKept(c, d, I, J, R, R2)
    <3> HIDE DEF R, R2, J
    <3> QED BY <1>3, <1>5, <2>1, <2>2 DEF PhisKept, R, R2
  <2> HIDE DEF I, J, R, R2, c
  <2> QED BY <2>2, <2>3, PhisStay
<1> QED BY <1>3, <1>4, <1>5, <1>7 DEF Moves

\* What there is then to know of the point p, the stack F and the code d.
Arrived(p, F, live, V, A, X, b, d) ==
    /\ live \in BOOLEAN /\ V \in Seq(BOOLEAN) /\ A \in BOOLEAN
    /\ p = [live |-> live, saved |-> V]
    /\ Moves(X, b, d) /\ (A <=> b \in ReachableIn(d))
    /\ live <=> (A /\ ~Returning(F))
    /\ Mirrors(F, V, A, A, inserted \cup {b}, ReachableIn(d), d)

\* A step that moves the insertion point keeps the invariant.
LEMMA MoveStep ==
    ASSUME IInv, FlowInv, Working, IInv', Working', NEW X, NEW b,
           inserted' = inserted \cup {b}, insertBlock' = b, UNCHANGED warnings,
           NEW live, NEW V, NEW A, Arrived(Point', frames', live, V, A, X, b, code')
    PROVE  FlowInv'
<1>0. /\ live \in BOOLEAN /\ V \in Seq(BOOLEAN) /\ A \in BOOLEAN
      /\ Point' = [live |-> live, saved |-> V]
      /\ Moves(X, b, code') /\ (A <=> b \in ReachableIn(code'))
      /\ live <=> (A /\ ~Returning(frames'))
      /\ Mirrors(frames', V, A, A, inserted \cup {b}, ReachableIn(code'), code')
  BY DEF Arrived
<1> DEFINE R == ReachableIn(code')
<1>1. /\ inserted' = inserted \cup {b} /\ insertBlock' = b /\ code'[b] = <<>>
      /\ Linked(code', inserted') /\ PhisOK(code', inserted', R)
  BY <1>0 DEF Moves
<1>2. warnings' <= MaxWarnings
  BY StateIs
<1>3. A <=> (insertBlock' \in R /\ Open(code'[insertBlock']))
  BY <1>0, <1>1, EmptyIsOpen
<1>4. Mirrors(frames', V, A, A, inserted', R, code') /\ ReachableIn(code') = R
  BY <1>0, <1>1
<1> HIDE DEF R
<1> QED BY <1>0, <1>1, <1>2, <1>3, <1>4, FlowInvHolds

\* The stack F, of frames that were there before.
LEMMA MirrorsMove ==
    ASSUME IInv, FlowInv, Working, NEW X, NEW b, NEW d, Moves(X, b, d),
           NEW F \in Seq(Frame), Len(F) <= Len(frames),
           \A i \in 1..Len(F) : F[i] = frames[i], NEW V \in Seq(BOOLEAN),
           NEW B \in BOOLEAN, Mirrors(F, V, Alive, B, inserted, Reachable, code),
           NEW A \in BOOLEAN,
           (A <=> Alive) \/ \A i \in 1..Len(F) : F[i].kind \in StmtFrames,
           \A i \in 1..Len(F) : Owned(F[i]) \cap (X \cup {b}) \subseteq Reachable \ {b}
    PROVE  Mirrors(F, V, A, B, inserted \cup {b}, ReachableIn(d), d)
<1> DEFINE I == inserted
           J == inserted \cup {b}
           R == Reachable
           R2 == ReachableIn(d)
           c == code
           A1 == Alive
<1>1. /\ R2 = R \cup (IF A1 THEN X ELSE {})
      /\ \A x \in I : x \in R2 => x \in R
      /\ \A a \in I : Targets(c[a]) \subseteq Targets(d[a])
  BY DEF Moves
<1>2. /\ \A i \in 1..Len(frames) : Holds(frames[i], I, Len(c))
      /\ A1 \in BOOLEAN /\ Len(frames) \in Nat /\ Len(F) \in Nat
  BY StateIs
<1>3. Mirrors(F, V, A1, B, I, R, c)
  OBVIOUS
<1> HIDE DEF I, R, R2, c, A1
<1>4. \A i \in 1..Len(F) : Holds(F[i], I, Len(c))
  BY <1>2
<1>5. \A i \in 1..Len(F) : Owned(F[i]) \cap I = {}
  BY <1>3 DEF Mirrors, Detached
<1>6. \A i \in 1..Len(F) : F[i].kind \in Conditions \cup {"logical.rhs"} => (A <=> A1)
  BY DEF A1, StmtFrames, Conditions
<1>7. ASSUME NEW i \in 1..Len(F) PROVE /\ Owned(F[i]) \cap J = {}
                                       /\ \A x \in Owned(F[i]) : x \in R2 => x \in R
  <2>1. Owned(F[i]) \cap I = {} /\ Owned(F[i]) \cap (X \cup {b}) \subseteq R \ {b}
    BY <1>5 DEF R
  <2> QED BY <1>1, <2>1 DEF I
<1> HIDE DEF J
<1>8. Kept(F, V, A1, I, R, c, A, J, R2, d)
  BY <1>1, <1>4, <1>6, <1>7 DEF Kept
<1>9. R \subseteq R2
  BY <1>1
<1>10. Mirrors(F, V, A, B, J, R2, d)
  BY <1>2, <1>3, <1>8, <1>9, MirrorsStay
<1> QED BY <1>10 DEF J, R2

-----------------------------------------------------------------------------
(* The statements that end the block they are in and stay.                 *)

\* The terminators and what they refer to.
LEMMA Rets ==
    /\ Ret \in Instr /\ IsTerminator(Ret) /\ Ret.op # "phi"
    /\ Range(Ret.blocks) = {} /\ \A n \in Nat : RefersBelow(Ret, n)
<1>1. Ret \in Instr /\ Ret.blocks = <<>> /\ Ret.op = "ret"
  BY InstrTypes DEF Ret
<1>2. IsTerminator(Ret)
  BY <1>1 DEF IsTerminator, Terminators
<1>3. Range(Ret.blocks) = {} /\ \A n \in Nat : RefersBelow(Ret, n)
  BY <1>1 DEF Range, RefersBelow
<1> QED BY <1>1, <1>2, <1>3

LEMMA Brs ==
    ASSUME NEW b \in Nat
    PROVE  /\ Br(b) \in Instr /\ IsTerminator(Br(b)) /\ Br(b).op # "phi"
           /\ Range(Br(b).blocks) = {b}
           /\ \A n \in Nat : b \in 1..n => RefersBelow(Br(b), n)
<1>1. Br(b) \in Instr /\ Br(b).blocks = <<b>> /\ Br(b).op = "br"
  BY InstrTypes DEF Br
<1>2. IsTerminator(Br(b))
  BY <1>1 DEF IsTerminator, Terminators
<1>3. Len(<<b>>) = 1 /\ <<b>>[1] = b /\ DOMAIN <<b>> = 1..1
  OBVIOUS
<1>4. Range(Br(b).blocks) = {b} /\ \A n \in Nat : b \in 1..n => RefersBelow(Br(b), n)
  BY <1>1, <1>3 DEF Range, RefersBelow
<1> QED BY <1>1, <1>2, <1>4

LEMMA CondBrs ==
    ASSUME NEW b \in Nat, NEW c \in Nat
    PROVE  /\ CondBr(b, c) \in Instr /\ IsTerminator(CondBr(b, c))
           /\ CondBr(b, c).op # "phi"
           /\ Range(CondBr(b, c).blocks) = {b, c}
           /\ \A n \in Nat : b \in 1..n /\ c \in 1..n => RefersBelow(CondBr(b, c), n)
<1>1. /\ CondBr(b, c) \in Instr /\ CondBr(b, c).blocks = <<b, c>>
      /\ CondBr(b, c).op = "condbr"
  BY InstrTypes DEF CondBr
<1>2. IsTerminator(CondBr(b, c))
  BY <1>1 DEF IsTerminator, Terminators
<1>3. Len(<<b, c>>) = 2 /\ <<b, c>>[1] = b /\ <<b, c>>[2] = c /\ DOMAIN <<b, c>> = 1..2
  OBVIOUS
<1>4. /\ Range(CondBr(b, c).blocks) = {b, c}
      /\ \A n \in Nat : b \in 1..n /\ c \in 1..n => RefersBelow(CondBr(b, c), n)
  BY <1>1, <1>3 DEF Range, RefersBelow
<1> QED BY <1>1, <1>2, <1>4

\* Control does not go on here, only to blocks where it comes already or that
\* are the ends of statements that control was to reach.
Stops(F, V, X) ==
    /\ Mirrors(F, V, Alive, Alive, inserted, Reachable, code)
    /\ \A i \in 1..Len(F) : F[i].kind \in StmtFrames /\ Holds(F[i], inserted, Len(code))
    /\ Alive => \A x \in X : x \in Reachable \/ x \notin inserted
    /\ Alive => \A i \in 1..Len(F) : \A x \in Owned(F[i]) \cap X :
                   x = F[i].end /\ F[i].kind \in Joins /\ V[i - 1]

\* A step that ends the block it stays in keeps the invariant.
LEMMA StopStep ==
    ASSUME IInv, FlowInv, Working, IInv', Working',
           NEW i \in Instr, IsTerminator(i), RefersBelow(i, Len(code) + 0),
           NEW X, Range(i.blocks) = X, code' = Emit(i, 0),
           UNCHANGED <<inserted, insertBlock, warnings>>,
           NEW F \in Seq(Frame), frames' = F, NEW V \in Seq(BOOLEAN),
           Point' = [live |-> FALSE, saved |-> V], Stops(F, V, X)
    PROVE  FlowInv'
<1> DEFINE d == Emit(i, 0)
           A == Alive
           R == Reachable
           R2 == ReachableIn(d)
           I == inserted
           c == code
<1>1. /\ Mirrors(F, V, A, A, I, R, c)
      /\ \A k \in 1..Len(F) : F[k].kind \in StmtFrames /\ Holds(F[k], I, Len(c))
      /\ A => \A x \in X : x \in R \/ x \notin I
      /\ A => \A k \in 1..Len(F) : \A x \in Owned(F[k]) \cap X :
                   x = F[k].end /\ F[k].kind \in Joins /\ V[k - 1]
  BY DEF Stops
<1>2. Emitted(i, 0, d)
  <2> DEFINE n == 0
  <2>1. n \in Nat /\ RefersBelow(i, Len(code) + n) /\ d = Emit(i, n)
    OBVIOUS
  <2> HIDE DEF n, d
  <2>2. Emitted(i, n, d)
    BY <1>1, <2>1, EmitGraph
  <2> QED BY <2>2 DEF n
<1>3. i.op # "phi"
  BY TerminatorIs
<1>4. /\ R2 = R \cup (IF A THEN X ELSE {})
      /\ \A b \in I : Targets(c[b]) \subseteq Targets(d[b])
      /\ ~Open(d[insertBlock]) /\ Linked(d, I)
      /\ \A b \in I : \A k \in 1..Len(d[b]) :
            d[b][k].op = "phi" => \E m \in 1..Len(c[b]) : c[b][m] = d[b][k]
  BY <1>2, <1>3 DEF Emitted
<1>5. A \in BOOLEAN /\ PhisOK(c, I, R) /\ warnings' <= MaxWarnings
  BY StateIs
<1>6. \A k \in 1..Len(F) : Owned(F[k]) \cap I = {}
  BY <1>1 DEF Mirrors, Detached
<1>7. code' = d /\ inserted' = I /\ insertBlock' = insertBlock
  OBVIOUS
<1> HIDE DEF d, A, R, R2, I, c
<1>8. \A x \in I : x \in R2 => x \in R
  BY <1>1, <1>4
<1>9. ASSUME NEW k \in 1..Len(F)
      PROVE  /\ Holds(F[k], I, Len(c))
             /\ F[k].kind \in Conditions \cup {"logical.rhs"} => (FALSE <=> A)
             /\ Owned(F[k]) \cap I = {}
             /\ \A x \in Owned(F[k]) : x \in R2 /\ x \notin R =>
                   x = F[k].end /\ F[k].kind \in Joins /\ V[k - 1]
  <2>1. F[k].kind \notin Conditions \cup {"logical.rhs"}
    BY <1>1 DEF StmtFrames, Conditions
  <2> QED BY <1>1, <1>4, <1>6, <2>1
<1>10. Kept(F, V, A, I, R, c, FALSE, I, R2, d)
  BY <1>4, <1>8, <1>9 DEF Kept
<1>11. Mirrors(F, V, FALSE, FALSE, I, R2, d)
  <2>1. R \subseteq R2 /\ (FALSE => A)
    BY <1>4
  <2> QED BY <1>1, <1>5, <1>10, <2>1, MirrorsStay
<1>12. PhisOK(d, I, R2)
  <2>1. PhisKept(c, d, I, I, R, R2)
    BY <1>4, <1>8 DEF PhisKept
  <2> QED BY <1>5, <2>1, PhisStay
<1>13. /\ ReachableIn(code') = R2 /\ Linked(code', inserted')
       /\ PhisOK(code', inserted', R2)
       /\ Mirrors(frames', V, FALSE, FALSE, inserted', R2, code')
       /\ FALSE <=> (insertBlock' \in R2 /\ Open(code'[insertBlock']))
       /\ FALSE <=> (FALSE /\ ~Returning(frames'))
  BY <1>4, <1>7, <1>11, <1>12 DEF R2
<1>14. FALSE \in BOOLEAN
  OBVIOUS
<1> QED BY <1>5, <1>13, <1>14, FlowInvHolds

\* A return without a value.
LEMMA ReturnVoidFlow == ASSUME IInv, FlowInv, IInv', ReturnVoid PROVE FlowInv'
<1>1. /\ Working /\ Working' /\ mode = "stmt" /\ Enter("return")
      /\ code' = Emit(Ret, 0)
      /\ UNCHANGED <<frames, inserted, insertBlock, warnings>>
  BY DEF ReturnVoid, Working
<1> DEFINE V == Point.saved
           F == frames
           X == {}
           i == Ret
<1>2. /\ F \in Seq(Frame) /\ V \in Seq(BOOLEAN)
      /\ Mirrors(F, V, Alive, Alive, inserted, Reachable, code)
      /\ \A k \in 1..Len(F) : Holds(F[k], inserted, Len(code))
      /\ Len(code) \in Nat
  BY <1>1, StateIs
<1>3. Point' = [live |-> FALSE, saved |-> V]
  BY <1>1, PointEnters
<1>4. Stops(F, V, X)
  BY <1>1, <1>2, InStatement DEF Stops
<1>5. /\ i \in Instr /\ IsTerminator(i) /\ Range(i.blocks) = X
      /\ RefersBelow(i, Len(code) + 0)
  BY <1>2, Rets
<1>6. code' = Emit(i, 0) /\ frames' = F
  BY <1>1
<1> HIDE DEF V, F, X, i
<1> QED BY <1>1, <1>2, <1>3, <1>4, <1>5, <1>6, StopStep

\* A return, once its value is there.
LEMMA ReturnStmtValueFlow ==
    ASSUME IInv, FlowInv, IInv', ReturnStmtValue PROVE FlowInv'
<1>1. /\ Working /\ Working' /\ Top.kind = "return" /\ frames' = Pop(frames)
      /\ code' = Emit(Ret, 0)
      /\ UNCHANGED <<trail, inserted, insertBlock, warnings>>
  BY DEF ReturnStmtValue, Return, Working
<1> DEFINE V == Point.saved
           F == Pop(frames)
           X == {}
           i == Ret
           A == Alive
<1>2. /\ frames \in Seq(Frame) /\ V \in Seq(BOOLEAN) /\ A \in BOOLEAN
      /\ Mirrors(frames, V, A, A, inserted, Reachable, code)
      /\ \A k \in 1..Len(frames) : Holds(frames[k], inserted, Len(code))
      /\ Len(code) \in Nat /\ Top = frames[Len(frames)]
      /\ Point = [live |-> Point.live, saved |-> V]
      /\ Point.live <=> (A /\ ~Returning(frames))
      /\ Len(frames) > 0 /\ Len(frames) \in Nat /\ Point.live \in BOOLEAN
  BY <1>1, StateIs
<1>3. /\ Len(frames) > 1
      /\ \A k \in 1..(Len(frames) - 1) : frames[k].kind \in StmtFrames
  BY <1>1, UnderStatement
<1>4. Point' = [live |-> FALSE, saved |-> V]
  <2>1. Returning(frames)
    BY <1>1, <1>2, ReturningIs
  <2>2. Point.live = FALSE
    BY <1>2, <2>1
  <2>3. Point' = Point
    BY <1>1, PointSame
  <2> QED BY <1>2, <2>2, <2>3
<1>5. Mirrors(F, V, A, A, inserted, Reachable, code)
  <2> DEFINE I == inserted
             R == Reachable
             c == code
             H == frames
  <2>1. H[Len(H)].kind \notin Savers /\ Len(H) > 1 /\ H \in Seq(Frame)
    BY <1>1, <1>2, <1>3 DEF Savers
  <2>2. Mirrors(H, V, A, A, I, R, c)
    BY <1>2
  <2> HIDE DEF I, R, c, H, A, V
  <2>3. Mirrors(Pop(H), V, A, A, I, R, c)
    BY <1>2, <2>1, <2>2, MirrorsReturn
  <2> QED BY <2>3 DEF I, R, c, H
<1>6. F \in Seq(Frame) /\ Len(F) = Len(frames) - 1 /\ \A k \in 1..Len(F) : F[k] = frames[k]
  BY <1>2, PopFacts
<1> HIDE DEF F
<1>7. Stops(F, V, X)
  <2>1. \A k \in 1..Len(F) : F[k].kind \in StmtFrames /\ Holds(F[k], inserted, Len(code))
    BY <1>2, <1>3, <1>6
  <2> QED BY <1>5, <2>1 DEF Stops
<1>8. /\ i \in Instr /\ IsTerminator(i) /\ Range(i.blocks) = X
      /\ RefersBelow(i, Len(code) + 0)
  BY <1>2, Rets
<1>9. code' = Emit(i, 0) /\ frames' = F
  BY <1>1 DEF F
<1> HIDE DEF V, X, i, A
<1> QED BY <1>1, <1>2, <1>4, <1>6, <1>7, <1>8, <1>9, StopStep

\* m_while_context names the end of a loop under way, whatever has come since.
LEMMA LoopOfBreak ==
    ASSUME IInv, Working, \E i \in DOMAIN frames : frames[i].kind = "while.body"
    PROVE  \E j \in 1..Len(frames) :
              /\ frames[j].kind = "while.body"
              /\ frames[j].end = whileContext[Len(whileContext)]
<1>1. PICK i \in 1..Len(frames) : frames[i].kind = "while.body"
  BY DEF IInv, TypeOK
<1>2. PICK at \in [1..Len(whileContext) -> 1..Len(frames)] :
        /\ \A k \in 1..Len(frames) : frames[k].kind = "while.body" =>
               \E m \in 1..Len(whileContext) : at[m] = k
        /\ \A m \in 1..Len(whileContext) :
               /\ frames[at[m]].kind = "while.body"
               /\ frames[at[m]].end = whileContext[m]
  BY DEF IInv, Tracks
<1>3. PICK m \in 1..Len(whileContext) : at[m] = i
  BY <1>1, <1>2
<1>4. Len(whileContext) \in 1..Len(whileContext)
  BY <1>3 DEF IInv, TypeOK
<1>5. at[Len(whileContext)] \in 1..Len(frames)
  BY <1>4
<1> QED BY <1>2, <1>4, <1>5

\* A break makes the end of the loop reachable if it is reached itself.
LEMMA BreakStmtFlow == ASSUME IInv, FlowInv, IInv', BreakStmt PROVE FlowInv'
<1> DEFINE e == whileContext[Len(whileContext)]
<1>1. /\ Working /\ Working' /\ mode = "stmt" /\ Enter("break")
      /\ \E j \in DOMAIN frames : frames[j].kind = "while.body"
      /\ code' = Emit(Br(e), 0)
      /\ UNCHANGED <<frames, inserted, insertBlock, warnings>>
  BY DEF BreakStmt, Working
<1> DEFINE V == Point.saved
           F == frames
           X == {e}
           i == Br(e)
<1>2. /\ F \in Seq(Frame) /\ V \in Seq(BOOLEAN)
      /\ Mirrors(F, V, Alive, Alive, inserted, Reachable, code)
      /\ \A k \in 1..Len(F) : Holds(F[k], inserted, Len(code))
      /\ Len(code) \in Nat
  BY <1>1, StateIs
<1>3. PICK j \in 1..Len(F) : F[j].kind = "while.body" /\ F[j].end = e
  BY <1>1, LoopOfBreak
<1>4. Point' = [live |-> FALSE, saved |-> V]
  BY <1>1, PointEnters
<1>5. e \in 1..Len(code)
  BY <1>2, <1>3 DEF Holds, HoldsEnd
<1>6. e \in Owned(F[j]) /\ F[j].kind \in Joins /\ F[j].kind \in Savers
  BY <1>3 DEF Owned, HoldsEnd, Joins, Savers
<1>7. \A k \in 1..Len(F) : F[k].kind \in StmtFrames
  BY <1>1, InStatement
<1>8. /\ i \in Instr /\ IsTerminator(i) /\ Range(i.blocks) = X
      /\ RefersBelow(i, Len(code) + 0)
  <2>1. e \in Nat /\ Len(code) + 0 \in Nat /\ e \in 1..(Len(code) + 0)
    BY <1>2, <1>5
  <2> HIDE DEF e
  <2> QED BY <2>1, Brs
<1>9. code' = Emit(i, 0) /\ frames' = F
  BY <1>1
<1> HIDE DEF V, F, e, i
<1>10. Alive => V[j - 1]
  <2>1. Aligned(F, V) /\ Nested(F, V, Alive)
    BY <1>2 DEF Mirrors
  <2>2. j - 1 \in 1..Len(V)
    BY <1>6, <2>1 DEF Aligned
  <2>3. j - 1 + 1 = j
    OBVIOUS
  <2> QED BY <1>3, <2>1, <2>2, <2>3 DEF Nested
<1>11. e \notin inserted /\ \A k \in 1..Len(F) : e \in Owned(F[k]) => k = j
  BY <1>2, <1>6 DEF Mirrors, Detached
<1>12. Stops(F, V, X)
  BY <1>2, <1>3, <1>6, <1>7, <1>10, <1>11 DEF Stops
<1> HIDE DEF X
<1> QED BY <1>1, <1>2, <1>4, <1>8, <1>9, <1>12, StopStep
-----------------------------------------------------------------------------
(* The handlers that create the block they go on in.                       *)

\* The blocks n that an action creates, all of them new to every handler.
New(n) == (1..(Len(code) + n)) \ (1..Len(code))
\* Blocks just created are not reachable and owned by nobody.
LEMMA NewBlocks ==
    ASSUME IInv, FlowInv, Working, NEW n \in Nat
    PROVE  /\ New(n) \cap inserted = {} /\ New(n) \cap Reachable = {}
           /\ \A i \in 1..Len(frames) : Owned(frames[i]) \cap New(n) = {}
           /\ \A i \in 1..n : Fresh(i) \in New(n) /\ Fresh(i) \in 1..(Len(code) + n)
           /\ \A i, j \in 1..n : i # j => Fresh(i) # Fresh(j)
           /\ \A i \in 1..n : Fresh(i) \in Nat /\ Fresh(i) # None
<1>1. /\ inserted \subseteq 1..Len(code) /\ Reachable \subseteq 1..Len(code)
      /\ Len(code) \in Nat
      /\ \A i \in 1..Len(frames) : Holds(frames[i], inserted, Len(code))
  BY StateIs
<1>2. ASSUME NEW i \in 1..Len(frames) PROVE Owned(frames[i]) \cap New(n) = {}
  <2>1. Owned(frames[i]) \subseteq 1..Len(code)
    BY <1>1, OwnedExist
  <2> QED BY <2>1 DEF New
<1>3. ASSUME NEW i \in 1..n
      PROVE  /\ Fresh(i) \in New(n) /\ Fresh(i) \in 1..(Len(code) + n)
             /\ Fresh(i) \in Nat /\ Fresh(i) # None
  BY <1>1 DEF Fresh, New, None
<1>4. \A i, j \in 1..n : i # j => Fresh(i) # Fresh(j)
  BY <1>1 DEF Fresh
<1> QED BY <1>1, <1>2, <1>3, <1>4 DEF New

\* The stack below a handler, once the terminator with the new targets X is
\* in place and block b among them is linked.
Below(F, V, B, n, X, b, d) ==
    /\ Mirrors(F, V, Alive, B, inserted \cup {b}, ReachableIn(d), d)
    /\ \A x \in X : x \in ReachableIn(d) <=> Alive
    /\ \A x \in New(n) : x \notin X => x \notin ReachableIn(d)
    /\ \A x \in inserted : x \in ReachableIn(d) <=> x \in Reachable

\* The frames below do not see a step of the innermost handler.
LEMMA MoveBelow ==
    ASSUME IInv, FlowInv, Working, NEW n \in Nat, NEW X \in SUBSET New(n),
           NEW b \in X, NEW d, Moves(X, b, d),
           NEW F \in Seq(Frame), Len(F) <= Len(frames),
           \A i \in 1..Len(F) : F[i] = frames[i], NEW V \in Seq(BOOLEAN),
           NEW B \in BOOLEAN, Mirrors(F, V, Alive, B, inserted, Reachable, code)
    PROVE  Below(F, V, B, n, X, b, d)
<1>1. /\ New(n) \cap inserted = {} /\ New(n) \cap Reachable = {}
      /\ \A i \in 1..Len(frames) : Owned(frames[i]) \cap New(n) = {}
  BY NewBlocks
<1>2. ReachableIn(d) = Reachable \cup (IF Alive THEN X ELSE {})
  BY DEF Moves
<1>3. Alive \in BOOLEAN /\ Len(frames) \in Nat
  BY StateIs
<1>4. ASSUME NEW i \in 1..Len(F) PROVE Owned(F[i]) \cap (X \cup {b}) \subseteq Reachable \ {b}
  <2>1. i \in 1..Len(frames) /\ F[i] = frames[i]
    BY <1>3
  <2> QED BY <1>1, <2>1
<1>5. Mirrors(F, V, Alive, B, inserted \cup {b}, ReachableIn(d), d)
  <2> DEFINE A == Alive
  <2>1. /\ A \in BOOLEAN /\ (A <=> Alive)
        /\ \A i \in 1..Len(F) : Owned(F[i]) \cap (X \cup {b}) \subseteq Reachable \ {b}
    BY <1>3, <1>4
  <2> HIDE DEF A
  <2>2. Mirrors(F, V, A, B, inserted \cup {b}, ReachableIn(d), d)
    BY <2>1, MirrorsMove
  <2> QED BY <2>2 DEF A
<1> QED BY <1>1, <1>2, <1>5 DEF Below

\* Every terminator of these handlers.
LEMMA MovesNew ==
    ASSUME IInv, FlowInv, Working, NEW i \in Instr, IsTerminator(i), NEW n \in Nat,
           RefersBelow(i, Len(code) + n), NEW X \in SUBSET New(n), Range(i.blocks) = X,
           NEW b \in X, NEW d, d = Emit(i, n)
    PROVE  Moves(X, b, d)
<1>1. New(n) \cap inserted = {} /\ X \subseteq 1..(Len(code) + n)
  BY NewBlocks DEF New
<1>2. b \in 1..(Len(code) + n) /\ b \notin inserted /\ \A x \in X : x \notin inserted
  BY <1>1
<1> QED BY <1>2, MoveGraph

\* A while statement begins with its condition.
LEMMA WhileStmtFlow == ASSUME IInv, FlowInv, IInv', WhileStmt PROVE FlowInv'
<1> DEFINE b == Fresh(1)
           i == Br(b)
           n == 1
           X == {b}
           d == Emit(i, n)
           f == Holding("while.cond", None, b, None)
           A == Alive
           V == Point.saved
           l == Point.live
           J == inserted \cup {b}
           R2 == ReachableIn(d)
<1>1. /\ Working /\ Working' /\ mode = "stmt" /\ Enter("while")
      /\ code' = d /\ inserted' = inserted \cup {b} /\ insertBlock' = b
      /\ frames' = Append(frames, f)
      /\ UNCHANGED warnings
  BY DEF WhileStmt, Working, Call, MoveTo
<1>2. /\ b \in New(n) /\ b \in Nat /\ b \in 1..(Len(code) + n)
      /\ New(n) \cap inserted = {} /\ New(n) \cap Reachable = {}
      /\ \A k \in 1..Len(frames) : Owned(frames[k]) \cap New(n) = {}
  <2>1. 1 \in 1..n /\ n \in Nat
    OBVIOUS
  <2> HIDE DEF n
  <2> QED BY <1>1, <2>1, NewBlocks
<1>3. /\ frames \in Seq(Frame) /\ Len(frames) > 0 /\ Len(frames) \in Nat
      /\ V \in Seq(BOOLEAN) /\ A \in BOOLEAN /\ l \in BOOLEAN /\ Len(code) \in Nat
      /\ Mirrors(frames, V, A, A, inserted, Reachable, code)
  BY <1>1, StateIs
<1>4. ~Returning(frames) /\ (l <=> A) /\ Len(V) = Len(frames) - 1
  BY <1>1, InBody
<1>5. Point' = [live |-> l, saved |-> Append(V, l)]
  BY <1>1, PointEnters
<1>6. /\ f \in Frame /\ f.kind = "while.cond" /\ f.blk = b /\ Owned(f) = {} /\ OwnsWell(f)
  BY <1>2 DEF Holding, None, Frame, StmtFrames, ExprFrames, Owned, OwnsWell, HoldsEnd
<1>7. i \in Instr /\ IsTerminator(i) /\ Range(i.blocks) = X /\ RefersBelow(i, Len(code) + n)
  <2>1. Len(code) + n \in Nat
    BY <1>3
  <2> HIDE DEF b, n
  <2> QED BY <1>2, <2>1, Brs
<1>71. n \in Nat /\ X \in SUBSET New(n) /\ b \in X
  BY <1>2
<1> HIDE DEF b, i, n, X, f
<1>8. Moves(X, b, d)
  <2> HIDE DEF d
  <2> QED BY <1>1, <1>7, <1>71, MovesNew DEF d
<1> HIDE DEF d
<1>9. /\ Mirrors(frames, V, A, A, J, R2, d)
      /\ \A x \in X : x \in R2 <=> A
  <2> DEFINE F == frames
             I == inserted
             R == Reachable
             c == code
  <2>1. F \in Seq(Frame) /\ Len(F) <= Len(frames) /\ \A k \in 1..Len(F) : F[k] = frames[k]
    BY <1>3
  <2>2. Mirrors(F, V, Alive, A, inserted, Reachable, code)
    BY <1>3
  <2> HIDE DEF F, A, V
  <2>3. Below(F, V, A, n, X, b, d)
    <3> HIDE DEF J, R2
    <3> QED BY <1>1, <1>3, <1>71, <1>8, <2>1, <2>2, MoveBelow
  <2> QED BY <2>3 DEF F, A, Below
<1>10. b \in R2 <=> A
  BY <1>9, <1>71
<1> HIDE DEF A, V, l, R2, J
<1>11. Flows(f, l, A, R2, d)
  BY <1>4, <1>6, <1>10 DEF Flows, Joins
<1>12. f.kind \in Savers /\ f.kind # "ifelse.else" /\ f.kind # "return"
  BY <1>6 DEF Savers
<1>13. Owned(f) \cap J = {} /\ \A k \in 1..Len(frames) : Owned(frames[k]) \cap Owned(f) = {}
  BY <1>6
<1>14. Mirrors(Append(frames, f), Append(V, l), A, A, J, R2, d)
  <2>1. Saving(frames, V, A, A, J, R2, d, f, l)
    BY <1>3, <1>4, <1>6, <1>9, <1>11, <1>12, <1>13 DEF Saving
  <2> QED BY <2>1, MirrorsSave
<1>15. ~Returning(frames')
  BY <1>1, <1>3, <1>4, <1>6, <1>12, ReturningIs
<1>16. Arrived(Point', frames', l, Append(V, l), A, X, b, code')
  BY <1>1, <1>3, <1>4, <1>5, <1>8, <1>10, <1>14, <1>15 DEF J, R2, Arrived
<1> QED BY <1>1, <1>16, MoveStep
-----------------------------------------------------------------------------
(* The handlers that have an entry in `saved`.                             *)

\* Below the handler on top there is the stack G with the entries U; the entry
\* of the handler is s.
Restored(G, U, s) ==
    /\ G = Pop(frames) /\ G \in Seq(Frame)
    /\ Len(G) = Len(frames) - 1 /\ Len(G) > 0 /\ Len(G) \in Nat
    /\ \A i \in 1..Len(G) : G[i] = frames[i]
    /\ U \in Seq(BOOLEAN) /\ s \in BOOLEAN /\ Point.saved = Append(U, s)
    /\ U = Front(Point.saved) /\ s = Point.saved[Len(Point.saved)]
    /\ Len(U) = Len(G) - 1
    /\ Flows(Top, s, Alive, Reachable, code)
    /\ Top.kind # "ifelse.else" => (Alive => s)
    /\ OwnsWell(Top) /\ Owned(Top) \cap inserted = {}
    /\ Mirrors(G, U, Alive, Alive \/ s, inserted, Reachable, code)
    /\ \A i \in 1..Len(G) : Owned(G[i]) \cap Owned(Top) = {}
    /\ Returning(frames) <=> Returning(G)
    /\ Holds(Top, inserted, Len(code))

\* The innermost frame, and the rest of the call stack without it.
LEMMA RestoreTop ==
    ASSUME IInv, FlowInv, Working, Top.kind \in Savers
    PROVE  \E G, U, s : Restored(G, U, s)
<1> DEFINE F == frames
           V == Point.saved
           A == Alive
           I == inserted
           R == Reachable
           c == code
           t == Top
<1>1. /\ F \in Seq(Frame) /\ Len(F) > 0 /\ Len(F) \in Nat /\ t = F[Len(F)]
      /\ V \in Seq(BOOLEAN) /\ A \in BOOLEAN
      /\ Mirrors(F, V, A, A, I, R, c)
      /\ \A i \in 1..Len(F) : Holds(F[i], I, Len(c))
  BY StateIs
<1>2. Len(F) > 1
  <2>1. Len(F) \in 1..Len(F) /\ Shape
    BY <1>1 DEF IInv
  <2>2. F[Len(F)].kind # "func"
    BY <1>1 DEF Savers
  <2> QED BY <1>1, <2>1, <2>2 DEF Shape
<1>3. t.kind \in Savers /\ t.kind # "return"
  BY DEF Savers
<1> DEFINE G == Pop(F)
           U == Front(V)
           s == V[Len(V)]
           B == A \/ s
<1>4. G = Pop(frames) /\ U = Front(Point.saved) /\ s = Point.saved[Len(Point.saved)]
  OBVIOUS
<1>5. G \in Seq(Frame) /\ Len(G) = Len(F) - 1 /\ \A i \in 1..Len(G) : G[i] = F[i]
  BY <1>1, PopFacts
<1>6. Returning(F) <=> Returning(G)
  BY <1>1, <1>3, ReturningIs
<1>7. Len(F) \in 1..Len(F) /\ Holds(t, I, Len(c))
  BY <1>1
<1> HIDE DEF F, V, A, I, R, c, t
<1>9. /\ Len(V) = Len(F) - 1 /\ Len(V) > 0 /\ s \in BOOLEAN
      /\ Flows(t, s, A, R, c)
      /\ t.kind # "ifelse.else" => (A => s)
      /\ OwnsWell(t) /\ Owned(t) \cap I = {}
      /\ U \in Seq(BOOLEAN) /\ Len(U) = Len(G) - 1
      /\ Append(U, s) = V
      /\ Mirrors(G, U, A, B, I, R, c)
      /\ \A i \in 1..Len(G) : Owned(G[i]) \cap Owned(t) = {}
  <2> DEFINE u == F[Len(F)]
  <2>1. t = u /\ u.kind \in Savers
    BY <1>1, <1>3
  <2>2. Mirrors(F, V, A, A, I, R, c) /\ Len(F) > 1 /\ F \in Seq(Frame) /\ V \in Seq(BOOLEAN) /\ A \in BOOLEAN
    BY <1>1, <1>2
  <2>3. /\ Len(V) = Len(F) - 1 /\ Len(V) > 0 /\ s \in BOOLEAN
        /\ Flows(u, s, A, R, c)
        /\ u.kind # "ifelse.else" => (A => s)
        /\ OwnsWell(u) /\ Owned(u) \cap I = {}
        /\ U \in Seq(BOOLEAN) /\ Len(U) = Len(G) - 1
        /\ Append(U, s) = V
        /\ Mirrors(G, U, A, B, I, R, c)
        /\ \A i \in 1..Len(G) : Owned(G[i]) \cap Owned(u) = {}
    <3>1. Parts(F, V, A, I, R, c)
      BY <2>1, <2>2, MirrorsRestore
    <3> QED BY <3>1 DEF Parts
  <2> HIDE DEF G, U, s, u
  <2> QED BY <2>1, <2>3
<1>10. Len(G) > 0 /\ Len(G) \in Nat
  BY <1>1, <1>2, <1>5
<1> HIDE DEF G, U, s
<1>11. /\ Flows(t, s, Alive, Reachable, code)
       /\ t.kind # "ifelse.else" => (Alive => s)
       /\ Mirrors(G, U, Alive, Alive \/ s, inserted, Reachable, code)
  BY <1>9 DEF A, B, I, R, c
<1>12. Owned(t) \cap inserted = {} /\ Holds(t, inserted, Len(code))
  BY <1>7, <1>9 DEF I, c
<1>13. Restored(G, U, s)
  BY <1>4, <1>5, <1>6, <1>9, <1>10, <1>11, <1>12 DEF Restored, F, V, t
<1> QED BY <1>13

\* The condition has been generated; the handler goes on as f, in the first
\* of the new blocks.
Branching(f, n, X, b) ==
    /\ X \in SUBSET New(n) /\ b \in X /\ b \notin Owned(f)
    /\ f \in Frame /\ f.kind \in {"if.then", "ifelse.then", "while.body"}
    /\ OwnsWell(f) /\ Owned(f) \subseteq New(n)
    /\ f.kind \in Joins => f.end \in X
    /\ f.kind = "ifelse.then" => f.blk \in X /\ f.end \in New(n) /\ f.end \notin X
    /\ f.kind = "while.body" => f.blk = Top.blk /\ Top.kind = "while.cond"

\* The block that follows a condition is reached where the condition is.
LEMMA BranchFlows ==
    ASSUME IInv, FlowInv, Working, Top.kind \in Conditions,
           NEW G, NEW U, NEW s, Restored(G, U, s), NEW n \in Nat,
           NEW X, NEW b, NEW f, Branching(f, n, X, b), NEW B, NEW V, NEW d,
           Below(G, V, B, n, X, b, d)
    PROVE  Flows(f, s, Alive, ReachableIn(d), d)
<1>1. /\ Flows(Top, s, Alive, Reachable, code) /\ s \in BOOLEAN
      /\ Holds(Top, inserted, Len(code))
  BY DEF Restored
<1>2. s <=> Alive
  BY <1>1 DEF Flows
<1>3. /\ \A x \in X : x \in ReachableIn(d) <=> Alive
      /\ \A x \in New(n) : x \notin X => x \notin ReachableIn(d)
      /\ \A x \in inserted : x \in ReachableIn(d) <=> x \in Reachable
  BY DEF Below
<1>4. /\ f.kind \in {"if.then", "ifelse.then", "while.body"}
      /\ f.kind \in Joins => f.end \in X
      /\ f.kind = "ifelse.then" => f.blk \in X /\ f.end \in New(n) /\ f.end \notin X
      /\ f.kind = "while.body" => f.blk = Top.blk /\ Top.kind = "while.cond"
  BY DEF Branching
<1>5. f.kind \in Joins => (s <=> f.end \in ReachableIn(d))
  BY <1>2, <1>3, <1>4
<1>6. f.kind = "ifelse.then" => (s <=> f.blk \in ReachableIn(d)) /\ f.end \notin ReachableIn(d)
  BY <1>2, <1>3, <1>4
<1>7. f.kind = "while.body" => (s <=> f.blk \in ReachableIn(d))
  <2> SUFFICES ASSUME f.kind = "while.body" PROVE s <=> f.blk \in ReachableIn(d)
    OBVIOUS
  <2>1. f.blk = Top.blk /\ Top.kind = "while.cond"
    BY <1>4
  <2>2. f.blk \in inserted /\ (s <=> f.blk \in Reachable)
    BY <1>1, <2>1 DEF Holds, HoldsInserted, Flows, Branches
  <2> QED BY <1>3, <2>2
<1> QED BY <1>4, <1>5, <1>6, <1>7 DEF Flows, Conditions, Branches

\* What the conditions of if, if-else and while have in common.
LEMMA CondStep ==
    ASSUME IInv, FlowInv, Working, IInv', Working', Top.kind \in Conditions,
           UNCHANGED <<trail, warnings>>,
           NEW i \in Instr, IsTerminator(i), NEW n \in Nat, RefersBelow(i, Len(code) + n),
           NEW X, Range(i.blocks) = X, NEW b, NEW f, Branching(f, n, X, b),
           NEW d, d = Emit(i, n), code' = d,
           inserted' = inserted \cup {b}, insertBlock' = b,
           frames' = Append(Pop(frames), f)
    PROVE  FlowInv'
<1> DEFINE A == Alive
           l == Point.live
           V == Point.saved
           J == inserted \cup {b}
           R2 == ReachableIn(d)
<1>1. /\ l \in BOOLEAN /\ V \in Seq(BOOLEAN) /\ A \in BOOLEAN
      /\ Point = [live |-> l, saved |-> V] /\ (l <=> (A /\ ~Returning(frames)))
      /\ frames \in Seq(Frame) /\ Len(frames) \in Nat
  BY StateIs
<1>2. PICK G, U, s : Restored(G, U, s)
  BY RestoreTop DEF Conditions, Savers
<1>3. /\ G = Pop(frames) /\ G \in Seq(Frame) /\ Len(G) = Len(frames) - 1
      /\ Len(G) > 0 /\ \A k \in 1..Len(G) : G[k] = frames[k]
      /\ U \in Seq(BOOLEAN) /\ s \in BOOLEAN /\ V = Append(U, s) /\ Len(U) = Len(G) - 1
      /\ Mirrors(G, U, A, A \/ s, inserted, Reachable, code)
      /\ Flows(Top, s, A, Reachable, code)
      /\ Returning(frames) <=> Returning(G)
  BY <1>2 DEF Restored
<1>4. s <=> A
  BY <1>3 DEF Flows
<1>5. /\ X \in SUBSET New(n) /\ b \in X /\ b \notin Owned(f) /\ f \in Frame /\ OwnsWell(f)
      /\ Owned(f) \subseteq New(n) /\ f.kind \in {"if.then", "ifelse.then", "while.body"}
  BY DEF Branching
<1>6. Moves(X, b, d)
  BY <1>5, MovesNew
<1>7. Below(G, U, A, n, X, b, d)
  <2>1. Mirrors(G, U, Alive, A, inserted, Reachable, code)
    BY <1>3, <1>4
  <2>2. Len(G) <= Len(frames)
    BY <1>1, <1>3
  <2> HIDE DEF A
  <2> QED BY <1>1, <1>3, <1>5, <1>6, <2>1, <2>2, MoveBelow
<1>8. Flows(f, s, A, R2, d)
  BY <1>2, <1>7, BranchFlows
<1>9. Mirrors(G, U, A, A, J, R2, d) /\ (A <=> b \in R2)
  BY <1>5, <1>7 DEF Below
<1>10. Owned(f) \cap J = {} /\ \A k \in 1..Len(G) : Owned(G[k]) \cap Owned(f) = {}
  <2>1. /\ New(n) \cap inserted = {}
        /\ \A k \in 1..Len(frames) : Owned(frames[k]) \cap New(n) = {}
    BY NewBlocks
  <2>2. \A k \in 1..Len(G) : k \in 1..Len(frames)
    BY <1>1, <1>3
  <2> QED BY <1>3, <1>5, <2>1, <2>2
<1>11. f.kind \in Savers /\ f.kind # "ifelse.else" /\ f.kind # "return"
  BY <1>5 DEF Savers
<1>12. Point' = Point
  BY PointSame
<1>13. Returning(frames') <=> Returning(frames)
  BY <1>3, <1>5, <1>11, ReturningIs
<1> HIDE DEF A, l, V, J, R2
<1>14. Mirrors(Append(G, f), Append(U, s), A, A, J, R2, d)
  <2>1. /\ G \in Seq(Frame) /\ Len(G) > 0 /\ U \in Seq(BOOLEAN) /\ A \in BOOLEAN
        /\ Mirrors(G, U, A, A, J, R2, d) /\ Len(U) = Len(G) - 1
        /\ f \in Frame /\ OwnsWell(f) /\ s \in BOOLEAN
    BY <1>1, <1>3, <1>5, <1>9
  <2>2. /\ f.kind \in Savers /\ Flows(f, s, A, R2, d)
        /\ Owned(f) \cap J = {} /\ \A k \in 1..Len(G) : Owned(G[k]) \cap Owned(f) = {}
        /\ (s => A) /\ (f.kind # "ifelse.else" => (A => s))
    BY <1>4, <1>8, <1>10, <1>11
  <2>3. Saving(G, U, A, A, J, R2, d, f, s)
    BY <2>1, <2>2 DEF Saving
  <2> QED BY <2>3, MirrorsSave
<1>15. Arrived(Point', frames', l, V, A, X, b, code')
  BY <1>1, <1>3, <1>6, <1>9, <1>12, <1>13, <1>14 DEF J, R2, Arrived
<1> QED BY <1>15, MoveStep

\* The frames these handlers go on as.
LEMMA BranchFrames ==
    ASSUME NEW blk \in Nat, NEW e \in Nat
    PROVE  /\ LET f == Holding("if.then", None, None, e)
              IN  f \in Frame /\ f.kind = "if.then" /\ f.end = e /\ Owned(f) = {e} /\ OwnsWell(f)
           /\ LET f == Holding("ifelse.then", None, blk, e)
              IN  /\ f \in Frame /\ f.kind = "ifelse.then" /\ f.blk = blk /\ f.end = e
                  /\ Owned(f) = {blk, e} /\ (blk # e => OwnsWell(f))
           /\ LET f == Holding("ifelse.else", None, None, e)
              IN  f \in Frame /\ f.kind = "ifelse.else" /\ f.end = e /\ Owned(f) = {e} /\ OwnsWell(f)
           /\ LET f == Holding("while.body", None, blk, e)
              IN  /\ f \in Frame /\ f.kind = "while.body" /\ f.blk = blk /\ f.end = e
                  /\ Owned(f) = {e} /\ OwnsWell(f)
BY DEF Holding, None, Frame, StmtFrames, ExprFrames, Owned, OwnsWell, HoldsEnd

\* Two blocks are new.
LEMMA TwoNew ==
    ASSUME IInv, FlowInv, Working, NEW b, NEW e, b = Fresh(1), e = Fresh(2)
    PROVE  /\ b \in New(2) /\ e \in New(2) /\ b # e /\ b \in Nat /\ e \in Nat
           /\ 2 \in Nat
           /\ CondBr(b, e) \in Instr /\ IsTerminator(CondBr(b, e))
           /\ CondBr(e, b) \in Instr /\ IsTerminator(CondBr(e, b))
           /\ RefersBelow(CondBr(b, e), Len(code) + 2)
           /\ RefersBelow(CondBr(e, b), Len(code) + 2)
           /\ Range(CondBr(b, e).blocks) = {b, e}
           /\ Range(CondBr(e, b).blocks) = {b, e}
<1> DEFINE n == 2
<1>1. n \in Nat /\ 1 \in 1..n /\ 2 \in 1..n /\ 1 # 2
  OBVIOUS
<1>2. /\ b \in New(n) /\ e \in New(n) /\ b # e /\ b \in Nat /\ e \in Nat
      /\ b \in 1..(Len(code) + n) /\ e \in 1..(Len(code) + n)
  <2> HIDE DEF n
  <2> QED BY <1>1, NewBlocks
<1>3. Len(code) + n \in Nat
  BY StateIs
<1>4. /\ CondBr(b, e) \in Instr /\ IsTerminator(CondBr(b, e))
      /\ RefersBelow(CondBr(b, e), Len(code) + n) /\ Range(CondBr(b, e).blocks) = {b, e}
  <2> HIDE DEF n
  <2> QED BY <1>2, <1>3, CondBrs
<1>5. /\ CondBr(e, b) \in Instr /\ IsTerminator(CondBr(e, b))
      /\ RefersBelow(CondBr(e, b), Len(code) + n) /\ Range(CondBr(e, b).blocks) = {e, b}
  <2> HIDE DEF n
  <2> QED BY <1>2, <1>3, CondBrs
<1>6. {e, b} = {b, e}
  OBVIOUS
<1> QED BY <1>1, <1>2, <1>4, <1>5, <1>6

LEMMA IfCondFlow == ASSUME IInv, FlowInv, IInv', IfCond PROVE FlowInv'
<1> DEFINE b == Fresh(1)
           e == Fresh(2)
           i == CondBr(b, e)
           n == 2
           X == {b, e}
           d == Emit(i, n)
           f == Holding("if.then", None, None, e)
<1>1. /\ Working /\ Working' /\ Top.kind \in Conditions
      /\ code' = d /\ inserted' = inserted \cup {b} /\ insertBlock' = b
      /\ frames' = Append(Pop(frames), f)
      /\ UNCHANGED <<trail, warnings>>
  BY DEF IfCond, Working, Resume, MoveTo, Conditions
<1>2. /\ b \in New(n) /\ e \in New(n) /\ b # e /\ e \in Nat /\ n \in Nat
      /\ i \in Instr /\ IsTerminator(i) /\ RefersBelow(i, Len(code) + n)
      /\ Range(i.blocks) = X
  BY <1>1, TwoNew
<1>3. f \in Frame /\ f.kind = "if.then" /\ f.end = e /\ Owned(f) = {e} /\ OwnsWell(f)
  <2>1. None \in Nat
    BY DEF None
  <2> HIDE DEF e
  <2> QED BY <1>2, <2>1, BranchFrames
<1> HIDE DEF b, e, n, d, f, i
<1>4. Branching(f, n, X, b)
  BY <1>2, <1>3 DEF Branching
<1> HIDE DEF X
<1> QED BY <1>1, <1>2, <1>4, CondStep DEF d

LEMMA WhileCondFlow == ASSUME IInv, FlowInv, IInv', WhileCond PROVE FlowInv'
<1> DEFINE b == Fresh(1)
           e == Fresh(2)
           i == CondBr(b, e)
           n == 2
           X == {b, e}
           d == Emit(i, n)
           t == Top.blk
           f == Holding("while.body", None, t, e)
<1>1. /\ Working /\ Working' /\ Top.kind \in Conditions /\ Top.kind = "while.cond"
      /\ code' = d /\ inserted' = inserted \cup {b} /\ insertBlock' = b
      /\ frames' = Append(Pop(frames), f)
      /\ UNCHANGED <<trail, warnings>>
  BY DEF WhileCond, Working, Resume, MoveTo, Conditions
<1>2. /\ b \in New(n) /\ e \in New(n) /\ b # e /\ e \in Nat /\ n \in Nat
      /\ i \in Instr /\ IsTerminator(i) /\ RefersBelow(i, Len(code) + n)
      /\ Range(i.blocks) = X
  BY <1>1, TwoNew
<1>3. t \in Nat
  BY <1>1, StateIs DEF Frame
<1>4. /\ f \in Frame /\ f.kind = "while.body" /\ f.blk = t /\ f.end = e
      /\ Owned(f) = {e} /\ OwnsWell(f)
  <2> HIDE DEF e, t
  <2> QED BY <1>2, <1>3, BranchFrames
<1>5. t = Top.blk
  OBVIOUS
<1> HIDE DEF b, e, n, d, f, i, t
<1>6. Branching(f, n, X, b)
  BY <1>1, <1>2, <1>4, <1>5 DEF Branching
<1> HIDE DEF X
<1> QED BY <1>1, <1>2, <1>6, CondStep DEF d

LEMMA IfElseCondFlow == ASSUME IInv, FlowInv, IInv', IfElseCond PROVE FlowInv'
<1> DEFINE b == Fresh(1)
           blk == Fresh(2)
           e == Fresh(3)
           i == CondBr(b, blk)
           n == 3
           X == {b, blk}
           d == Emit(i, n)
           f == Holding("ifelse.then", None, blk, e)
<1>1. /\ Working /\ Working' /\ Top.kind \in Conditions
      /\ code' = d /\ inserted' = inserted \cup {b} /\ insertBlock' = b
      /\ frames' = Append(Pop(frames), f)
      /\ UNCHANGED <<trail, warnings>>
  BY DEF IfElseCond, Working, Resume, MoveTo, Conditions
<1>2. /\ b \in New(n) /\ blk \in New(n) /\ e \in New(n) /\ b # blk /\ b # e /\ blk # e
      /\ b \in Nat /\ blk \in Nat /\ e \in Nat /\ n \in Nat
      /\ b \in 1..(Len(code) + n) /\ blk \in 1..(Len(code) + n)
  <2>1. n \in Nat /\ 1 \in 1..n /\ 2 \in 1..n /\ 3 \in 1..n /\ 1 # 2 /\ 1 # 3 /\ 2 # 3
    OBVIOUS
  <2> HIDE DEF n
  <2> QED BY <1>1, <2>1, NewBlocks
<1>3. Len(code) + n \in Nat
  BY <1>1, StateIs
<1>4. f \in Frame /\ f.kind = "ifelse.then" /\ f.blk = blk /\ f.end = e
      /\ Owned(f) = {blk, e} /\ OwnsWell(f)
  <2> HIDE DEF e, blk
  <2> QED BY <1>2, BranchFrames
<1> HIDE DEF b, e, blk, n, d, f
<1>5. /\ i \in Instr /\ IsTerminator(i) /\ RefersBelow(i, Len(code) + n)
      /\ Range(i.blocks) = X
  BY <1>2, <1>3, CondBrs
<1>6. Branching(f, n, X, b)
  BY <1>2, <1>4 DEF Branching, Joins
<1> HIDE DEF X, i
<1> QED BY <1>1, <1>2, <1>5, <1>6, CondStep DEF d

\* The left operand of && or || ends in a block that branches to the phi.
LEMMA LogicalLhsFlow == ASSUME IInv, FlowInv, IInv', LogicalLhs PROVE FlowInv'
<1> DEFINE b == Fresh(1)
           e == Fresh(2)
           i == IF Top.kind = "land.lhs" THEN CondBr(b, e) ELSE CondBr(e, b)
           n == 2
           X == {b, e}
           d == Emit(i, n)
           f == Holding("logical.rhs", insertBlock, b, e)
           A == Alive
           l == Point.live
           V == Point.saved
           G == Pop(frames)
           J == inserted \cup {b}
           R2 == ReachableIn(d)
<1>1. /\ Working /\ Working' /\ Top.kind \in {"land.lhs", "lor.lhs"}
      /\ code' = d /\ inserted' = inserted \cup {b} /\ insertBlock' = b
      /\ frames' = Append(G, f)
      /\ UNCHANGED <<trail, warnings>>
  BY DEF LogicalLhs, Working, Resume, MoveTo
<1>2. /\ b \in New(n) /\ e \in New(n) /\ b # e /\ e \in Nat /\ n \in Nat
      /\ i \in Instr /\ IsTerminator(i) /\ RefersBelow(i, Len(code) + n)
      /\ Range(i.blocks) = X /\ b \in Nat
  BY <1>1, TwoNew
<1>3. /\ l \in BOOLEAN /\ V \in Seq(BOOLEAN) /\ A \in BOOLEAN
      /\ Point = [live |-> l, saved |-> V] /\ (l <=> (A /\ ~Returning(frames)))
      /\ frames \in Seq(Frame) /\ Len(frames) \in Nat /\ Len(frames) > 0
      /\ Mirrors(frames, V, A, A, inserted, Reachable, code)
      /\ Top = frames[Len(frames)] /\ insertBlock \in inserted
      /\ inserted \subseteq 1..Len(code)
  BY <1>1, StateIs
<1>4. /\ f \in Frame /\ f.kind = "logical.rhs" /\ f.from = insertBlock /\ f.end = e
      /\ Owned(f) = {e}
  <2>1. insertBlock \in Nat
    BY <1>3
  <2> HIDE DEF b, e
  <2> QED BY <1>2, <2>1 DEF Holding, Frame, StmtFrames, ExprFrames, Owned, HoldsEnd
<1> HIDE DEF b, e, i, n, d, f
<1>5. frames[Len(frames)].kind \notin Savers /\ frames[Len(frames)].kind \notin {"return", "func"}
  BY <1>1, <1>3 DEF Savers
<1>6. Len(frames) > 1
  <2>1. Len(frames) \in 1..Len(frames) /\ Shape
    BY <1>3 DEF IInv
  <2> QED BY <1>3, <1>5, <2>1 DEF Shape
<1>7. /\ G \in Seq(Frame) /\ Len(G) = Len(frames) - 1 /\ Len(G) > 0
      /\ \A k \in 1..Len(G) : G[k] = frames[k]
      /\ Len(G) <= Len(frames)
  BY <1>3, <1>6, PopFacts
<1>8. Returning(frames') <=> Returning(frames)
  <2>1. Returning(frames) <=> Returning(G)
    BY <1>3, <1>5, ReturningIs
  <2>2. Returning(Append(G, f)) <=> Returning(G)
    BY <1>4, <1>7, ReturningIs
  <2> QED BY <1>1, <2>1, <2>2
<1>9. Mirrors(G, V, A, A, inserted, Reachable, code)
  <2> DEFINE H == frames
             I == inserted
             R == Reachable
             c == code
  <2>1. H \in Seq(Frame) /\ Len(H) > 1 /\ Mirrors(H, V, A, A, I, R, c) /\ H[Len(H)].kind \notin Savers
    BY <1>3, <1>5, <1>6
  <2> HIDE DEF H, I, R, c, A, V
  <2>2. Mirrors(Pop(H), V, A, A, I, R, c)
    BY <1>3, <2>1, MirrorsReturn
  <2> QED BY <2>2 DEF H, I, R, c
<1>10. X \in SUBSET New(n) /\ b \in X /\ e \in X
  BY <1>2
<1> HIDE DEF X, G
<1>11. Moves(X, b, d)
  BY <1>1, <1>2, <1>10, MovesNew DEF d
<1>12. Below(G, V, A, n, X, b, d)
  <2>1. Mirrors(G, V, Alive, A, inserted, Reachable, code)
    BY <1>9
  <2> HIDE DEF A, V
  <2> QED BY <1>1, <1>2, <1>3, <1>7, <1>10, <1>11, <2>1, MoveBelow
<1>13. Mirrors(G, V, A, A, J, R2, d) /\ (A <=> b \in R2) /\ (A <=> e \in R2)
  BY <1>10, <1>12 DEF Below
<1>14. e \in R2 => e \in Targets(d[insertBlock])
  BY <1>10, <1>11, <1>13 DEF Moves
<1>15. Owned(f) \cap J = {} /\ \A k \in 1..Len(G) : Owned(G[k]) \cap Owned(f) = {}
  <2>1. /\ New(n) \cap inserted = {}
        /\ \A k \in 1..Len(frames) : Owned(frames[k]) \cap New(n) = {}
    BY <1>1, <1>2, NewBlocks
  <2>2. \A k \in 1..Len(G) : k \in 1..Len(frames)
    BY <1>3, <1>7
  <2> QED BY <1>2, <1>4, <1>7, <2>1, <2>2
<1>16. Point' = Point
  BY <1>1, PointSame
<1> HIDE DEF A, l, V, J, R2
<1>17. Mirrors(Append(G, f), V, A, A, J, R2, d)
  <2>1. f.kind \notin Savers
    BY <1>4 DEF Savers
  <2>2. f.kind = "logical.rhs" => (f.end \in R2 <=> A) /\ (f.end \in R2 => f.end \in Targets(d[f.from]))
    BY <1>4, <1>13, <1>14
  <2> QED BY <1>3, <1>4, <1>7, <1>13, <1>15, <2>1, <2>2, MirrorsCall
<1>18. Arrived(Point', frames', l, V, A, X, b, code')
  BY <1>1, <1>3, <1>8, <1>11, <1>13, <1>16, <1>17 DEF J, R2, Arrived
<1> QED BY <1>1, <1>18, MoveStep

-----------------------------------------------------------------------------
(* The ends of the bodies.                                                 *)

\* The stack below, when a branch to x ends the body and code goes into b, a
\* block of the handler, from now on.
Ends(G, U, s, x, b, A, d) ==
    /\ Moves({x}, b, d)
    /\ Mirrors(G, U, A, Alive \/ s, inserted \cup {b}, ReachableIn(d), d)

\* The jump at the end of a body, and the move to the block that follows.
LEMMA BodyEnds ==
    ASSUME IInv, FlowInv, Working, mode = "stmt",
           NEW G, NEW U, NEW s, Restored(G, U, s),
           NEW x \in Owned(Top) \cup inserted, NEW b \in Owned(Top),
           Alive => x \in Reachable \/ x \notin inserted,
           NEW A \in BOOLEAN, NEW d, d = Emit(Br(x), 0)
    PROVE  Ends(G, U, s, x, b, A, d)
<1>1. /\ inserted \subseteq 1..Len(code) /\ Len(code) \in Nat /\ Alive \in BOOLEAN
      /\ Len(frames) \in Nat
  BY StateIs
<1>2. /\ G \in Seq(Frame) /\ Len(G) = Len(frames) - 1 /\ Len(G) \in Nat
      /\ \A k \in 1..Len(G) : G[k] = frames[k]
      /\ U \in Seq(BOOLEAN) /\ s \in BOOLEAN
      /\ Mirrors(G, U, Alive, Alive \/ s, inserted, Reachable, code)
      /\ \A k \in 1..Len(G) : Owned(G[k]) \cap Owned(Top) = {}
      /\ Owned(Top) \cap inserted = {} /\ Holds(Top, inserted, Len(code))
  BY DEF Restored
<1>3. Owned(Top) \subseteq 1..Len(code)
  <2> DEFINE t == Top
             I == inserted
             m == Len(code)
  <2>1. Holds(t, I, m)
    BY <1>2
  <2> HIDE DEF t, I, m
  <2>2. Owned(t) \subseteq 1..m
    BY <2>1, OwnedExist
  <2> QED BY <2>2 DEF t, m
<1>4. x \in 1..Len(code) /\ b \in 1..Len(code) /\ b \notin inserted /\ x \in Nat
  <2>1. Owned(Top) \cap inserted = {}
    BY <1>2
  <2>2. x \in 1..Len(code) /\ b \in 1..Len(code)
    BY <1>1, <1>3
  <2>3. b \notin inserted
    BY <2>1
  <2>4. x \in Nat
    BY <2>2
  <2> QED BY <2>2, <2>3, <2>4
<1> DEFINE i == Br(x)
           n == 0
           X == {x}
<1>5. /\ n \in Nat /\ Len(code) + n = Len(code) /\ b \in 1..(Len(code) + n)
      /\ d = Emit(i, n)
  BY <1>1, <1>4
<1>6. /\ i \in Instr /\ IsTerminator(i) /\ Range(i.blocks) = X
      /\ RefersBelow(i, Len(code) + n)
  BY <1>1, <1>4, <1>5, Brs
<1>7. Alive => \A y \in X : y \in Reachable \/ y \notin inserted
  OBVIOUS
<1>8. ASSUME NEW k \in 1..Len(G) PROVE Owned(G[k]) \cap (X \cup {b}) \subseteq Reachable \ {b}
  <2>1. Owned(G[k]) \cap inserted = {} /\ Owned(G[k]) \cap Owned(Top) = {}
    BY <1>2 DEF Mirrors, Detached
  <2> QED BY <2>1
<1> HIDE DEF i, n, X
<1>9. Moves(X, b, d)
  BY <1>4, <1>5, <1>6, <1>7, MoveGraph
<1>10. \A k \in 1..Len(G) : G[k].kind \in StmtFrames
  <2>1. \A k \in 1..Len(G) : k \in 1..Len(frames)
    BY <1>1, <1>2
  <2> QED BY <1>2, <2>1, InStatement
<1>11. Mirrors(G, U, A, Alive \/ s, inserted \cup {b}, ReachableIn(d), d)
  <2> DEFINE B == Alive \/ s
  <2>1. /\ B \in BOOLEAN /\ Mirrors(G, U, Alive, B, inserted, Reachable, code)
        /\ Len(G) <= Len(frames)
    BY <1>1, <1>2
  <2> HIDE DEF B
  <2>2. Mirrors(G, U, A, B, inserted \cup {b}, ReachableIn(d), d)
    BY <1>2, <1>8, <1>9, <1>10, <2>1, MirrorsMove
  <2> QED BY <2>2 DEF B
<1> QED BY <1>9, <1>11 DEF Ends, X

\* A body ends, and control comes to the end of its statement from there or,
\* if the entry says so, by another way.
LEMMA EndStep ==
    ASSUME IInv, FlowInv, IInv', Working', Top.kind \in Joins,
           NEW k, Leave(k, "end"), NEW x,
           x = Top.end \/ (Top.kind = "while.body" /\ x = Top.blk),
           code' = Emit(Br(x), 0),
           inserted' = inserted \cup {Top.end}, insertBlock' = Top.end,
           frames' = Pop(frames)
    PROVE  FlowInv'
<1>1. mode = "stmt" /\ Working /\ UNCHANGED warnings
  BY DEF Leave, Working
<1>2. Top.kind \in Savers
  BY DEF Joins, Savers
<1>3. PICK G, U, s : Restored(G, U, s)
  BY <1>1, <1>2, RestoreTop
<1> DEFINE A == Alive
           l == Point.live
           b == Top.end
           d == Emit(Br(x), 0)
           A2 == A \/ s
           R2 == ReachableIn(d)
<1>4. /\ G = Pop(frames) /\ U \in Seq(BOOLEAN) /\ s \in BOOLEAN
      /\ U = Front(Point.saved) /\ s = Point.saved[Len(Point.saved)]
      /\ Flows(Top, s, A, Reachable, code) /\ Holds(Top, inserted, Len(code))
      /\ Top.kind # "ifelse.else" => (A => s)
      /\ Owned(Top) \cap inserted = {}
      /\ Returning(frames) <=> Returning(G)
  BY <1>3 DEF Restored
<1>5. A \in BOOLEAN /\ l \in BOOLEAN /\ (l <=> A) /\ ~Returning(frames)
  BY <1>1, StateIs, InBody
<1>6. Point' = [live |-> l \/ s, saved |-> U]
  BY <1>1, <1>4, PointLeaves
<1>7. b \in Owned(Top) /\ (s <=> b \in Reachable)
  BY <1>4 DEF Owned, Joins, HoldsEnd, Flows
<1>8. x = Top.blk /\ x # b => x \in inserted /\ (s <=> x \in Reachable) /\ Top.kind = "while.body"
  BY <1>4 DEF Holds, HoldsInserted, Flows, Branches
<1>9. x \in Owned(Top) \cup inserted
  BY <1>7, <1>8
<1>10. A => x \in Reachable \/ x \notin inserted
  BY <1>4, <1>7, <1>8
<1>11. A2 \in BOOLEAN /\ d = Emit(Br(x), 0)
  OBVIOUS
<1> HIDE DEF b, d, A2
<1>12. Ends(G, U, s, x, b, A2, d)
  BY <1>1, <1>3, <1>7, <1>9, <1>10, <1>11, BodyEnds
<1>13. /\ Moves({x}, b, d)
       /\ Mirrors(G, U, A2, A2, inserted \cup {b}, R2, d)
  BY <1>12 DEF Ends, A2
<1>14. R2 = Reachable \cup (IF A THEN {x} ELSE {})
  BY <1>13 DEF Moves
<1>15. A2 <=> b \in R2
  <2>1. CASE x = b
    BY <1>7, <1>14, <2>1 DEF A2
  <2>2. CASE x # b
    <3>1. x = Top.blk /\ Top.kind # "ifelse.else"
      BY <2>2 DEF b
    <3>2. A => s
      BY <1>4, <3>1
    <3> QED BY <1>7, <1>14, <2>2, <3>2 DEF A2
  <2> QED BY <2>1, <2>2
<1> DEFINE m == l \/ s
<1>16. m \in BOOLEAN /\ (m <=> (A2 /\ ~Returning(frames')))
  BY <1>4, <1>5 DEF A2
<1>17. Point' = [live |-> m, saved |-> U] /\ code' = d /\ frames' = G
  BY <1>4, <1>6 DEF d
<1> HIDE DEF m, R2, A
<1>18. Arrived(Point', frames', m, U, A2, {x}, b, code')
  BY <1>4, <1>11, <1>13, <1>15, <1>16, <1>17 DEF R2, Arrived
<1>19. inserted' = inserted \cup {b} /\ insertBlock' = b
  BY DEF b
<1> QED BY <1>1, <1>18, <1>19, MoveStep

\* The end of an if, and of the else branch of an if-else.
LEMMA IfThenFlow ==
    ASSUME IInv, FlowInv, IInv', IfThen \/ IfElseElse PROVE FlowInv'
<1>1. ASSUME NEW k \in {"if.then", "ifelse.else"}, Leave(k, "end"),
             code' = Emit(Br(Top.end), 0), MoveTo(Top.end), Return
      PROVE  FlowInv'
  <2> DEFINE x == Top.end
  <2>1. /\ Top.kind = k /\ Top.kind \in Joins /\ Working'
        /\ inserted' = inserted \cup {Top.end} /\ insertBlock' = Top.end
        /\ frames' = Pop(frames) /\ code' = Emit(Br(x), 0)
        /\ x = Top.end \/ (Top.kind = "while.body" /\ x = Top.blk)
    BY <1>1 DEF Leave, Joins, Working, MoveTo, Return
  <2> HIDE DEF x
  <2> QED BY <1>1, <2>1, EndStep
<1> QED BY <1>1 DEF IfThen, IfElseElse

\* The end of a loop: control goes on behind it where the condition is reached.
LEMMA WhileBodyFlow == ASSUME IInv, FlowInv, IInv', WhileBody PROVE FlowInv'
<1> DEFINE x == Top.blk
           k == "while.body"
<1>1. /\ Top.kind = k /\ Top.kind \in Joins /\ Working' /\ Leave(k, "end")
      /\ inserted' = inserted \cup {Top.end} /\ insertBlock' = Top.end
      /\ frames' = Pop(frames) /\ code' = Emit(Br(x), 0)
      /\ x = Top.end \/ (Top.kind = "while.body" /\ x = Top.blk)
  BY DEF WhileBody, Leave, Joins, Working, MoveTo, Return
<1> HIDE DEF x, k
<1> QED BY <1>1, EndStep

\* The branch `then` is left; the point after the condition is back.
LEMMA IfElseThenFlow == ASSUME IInv, FlowInv, IInv', IfElseThen PROVE FlowInv'
<1> DEFINE A == Alive
           l == Point.live
           x == Top.end
           b == Top.blk
           d == Emit(Br(x), 0)
           f == Holding("ifelse.else", None, None, x)
           R2 == ReachableIn(d)
           J == inserted \cup {b}
<1>1. /\ mode = "stmt" /\ Working /\ Working' /\ UNCHANGED warnings
      /\ Top.kind = "ifelse.then" /\ code' = d
      /\ inserted' = J /\ insertBlock' = b
      /\ frames' = Append(Pop(frames), f)
  BY DEF IfElseThen, Leave, Working, MoveTo, Resume
<1>2. PICK G, U, s : Restored(G, U, s)
  BY <1>1, RestoreTop DEF Savers
<1>3. /\ G = Pop(frames) /\ U \in Seq(BOOLEAN) /\ s \in BOOLEAN
      /\ U = Front(Point.saved) /\ s = Point.saved[Len(Point.saved)]
      /\ Flows(Top, s, A, Reachable, code) /\ Holds(Top, inserted, Len(code))
      /\ Owned(Top) \cap inserted = {} /\ OwnsWell(Top)
      /\ Returning(frames) <=> Returning(G)
      /\ G \in Seq(Frame) /\ Len(G) > 0 /\ Len(U) = Len(G) - 1
      /\ \A k \in 1..Len(G) : Owned(G[k]) \cap Owned(Top) = {}
  BY <1>2 DEF Restored
<1>4. A \in BOOLEAN /\ l \in BOOLEAN /\ (l <=> A) /\ ~Returning(frames)
  BY <1>1, StateIs, InBody
<1>5. Point' = [live |-> s, saved |-> Append(U, l)]
  <2>1. Leave("ifelse.then", "else")
    BY DEF IfElseThen
  <2>2. "else" # "end"
    OBVIOUS
  <2> QED BY <1>1, <1>3, <2>1, <2>2, PointLeaves
<1>6. Owned(Top) = {b, x} /\ b # x
  BY <1>1, <1>3 DEF Owned, OwnsWell
<1>7. (s <=> b \in Reachable) /\ x \notin Reachable
  BY <1>1, <1>3 DEF Flows, Branches
<1>8. x \in Nat
  BY <1>1, StateIs DEF Frame
<1>9. f \in Frame /\ f.kind = "ifelse.else" /\ f.end = x /\ Owned(f) = {x} /\ OwnsWell(f)
  <2>1. None \in Nat
    BY DEF None
  <2> HIDE DEF x
  <2> QED BY <1>8, <2>1, BranchFrames
<1> HIDE DEF b, x, d, f
<1>10. Ends(G, U, s, x, b, s, d)
  <2>1. x \in Owned(Top) \cup inserted /\ b \in Owned(Top) /\ d = Emit(Br(x), 0)
    BY <1>6 DEF d
  <2>2. Alive => x \in Reachable \/ x \notin inserted
    BY <1>3, <1>6
  <2> QED BY <1>1, <1>2, <1>3, <2>1, <2>2, BodyEnds
<1>11. /\ Moves({x}, b, d)
       /\ Mirrors(G, U, s, A \/ s, J, R2, d)
  BY <1>10 DEF Ends
<1>12. R2 = Reachable \cup (IF A THEN {x} ELSE {})
  BY <1>11 DEF Moves
<1>13. (s <=> b \in R2) /\ (l <=> x \in R2)
  BY <1>4, <1>6, <1>7, <1>12
<1>14. Flows(f, l, s, R2, d)
  BY <1>9, <1>13 DEF Flows, Conditions, Branches
<1>15. Owned(f) \cap J = {} /\ \A k \in 1..Len(G) : Owned(G[k]) \cap Owned(f) = {}
  BY <1>3, <1>6, <1>9
<1>16. ~Returning(frames')
  BY <1>1, <1>3, <1>4, <1>9, ReturningIs
<1> HIDE DEF J, R2, A, l
<1>17. Mirrors(Append(G, f), Append(U, l), s, s, J, R2, d)
  <2> DEFINE B == A \/ s
  <2>1. B \in BOOLEAN /\ (s => B) /\ (l => B) /\ Mirrors(G, U, s, B, J, R2, d)
    BY <1>3, <1>4, <1>11
  <2> HIDE DEF B
  <2>2. /\ f.kind \in Savers /\ (f.kind # "ifelse.else" => (s => l))
        /\ G \in Seq(Frame) /\ Len(G) > 0 /\ U \in Seq(BOOLEAN) /\ s \in BOOLEAN /\ l \in BOOLEAN
        /\ Len(U) = Len(G) - 1 /\ f \in Frame /\ OwnsWell(f)
        /\ Owned(f) \cap J = {} /\ \A k \in 1..Len(G) : Owned(G[k]) \cap Owned(f) = {}
        /\ Flows(f, l, s, R2, d)
    BY <1>3, <1>4, <1>9, <1>14, <1>15 DEF Savers
  <2>3. Saving(G, U, s, B, J, R2, d, f, l)
    BY <2>1, <2>2 DEF Saving
  <2> QED BY <2>3, MirrorsSave
<1>18. Append(U, l) \in Seq(BOOLEAN)
  BY <1>3, <1>4
<1>19. Arrived(Point', frames', s, Append(U, l), s, {x}, b, code')
  BY <1>1, <1>3, <1>5, <1>11, <1>13, <1>16, <1>17, <1>18 DEF J, R2, Arrived
<1>20. inserted' = inserted \cup {b} /\ insertBlock' = b
  BY <1>1 DEF J
<1> QED BY <1>1, <1>19, <1>20, MoveStep

-----------------------------------------------------------------------------
(* The end of && and ||.                                                   *)

\* A phi appended to an empty block e changes no branch.
PhiAdded(p, e, d, c) ==
    /\ Len(c) = Len(d) /\ ReachableIn(c) = ReachableIn(d) /\ Open(c[e])
    /\ \A a \in 1..Len(d) : Targets(c[a]) = Targets(d[a])
    /\ \A a \in 1..Len(d) : a # e => c[a] = d[a]
    /\ Len(c[e]) = 1 /\ c[e][1] = p

\* A phi behind what a block holds already.
LEMMA PhiAppended ==
    ASSUME NEW d \in Seq(Seq(Instr)), Graph(d), NEW e \in 1..Len(d), d[e] = <<>>,
           NEW p \in Instr, p.op = "phi", NEW c, c = [d EXCEPT ![e] = Append(@, p)]
    PROVE  PhiAdded(p, e, d, c)
<1>1. Len(c) = Len(d) /\ \A a \in 1..Len(d) : a # e => c[a] = d[a]
  OBVIOUS
<1>2. c[e] = Append(<<>>, p) /\ <<>> \in Seq(Instr)
  OBVIOUS
<1>3. ~IsTerminator(p)
  BY DEF IsTerminator, Terminators
<1>4. Open(c[e]) /\ Targets(c[e]) = Targets(d[e])
  <2> DEFINE s == d[e]
  <2>1. s \in Seq(Instr) /\ c[e] = Append(s, p) /\ s = <<>>
    BY <1>2
  <2>2. Open(s)
    BY <2>1, EmptyIsOpen
  <2> HIDE DEF s
  <2>3. Open(Append(s, p)) /\ Targets(Append(s, p)) = Targets(s)
    BY <1>3, <2>1, <2>2, AppendTargets
  <2> QED BY <2>1, <2>3 DEF s
<1>5. Len(c[e]) = 1 /\ c[e][1] = p
  BY <1>2
<1>6. \A a \in 1..Len(d) : Targets(c[a]) = Targets(d[a])
  BY <1>1, <1>4
<1>7. ReachableIn(c) = ReachableIn(d)
  <2>1. Graph(d) /\ SameTargets(d, c)
    BY <1>1, <1>6 DEF SameTargets
  <2> QED BY <2>1, ReachSame
<1> QED BY <1>1, <1>4, <1>5, <1>6, <1>7 DEF PhiAdded

\* Of the code, only the targets of the blocks before && and || matter.
LEMMA MirrorsSame ==
    ASSUME NEW F, NEW V, NEW A, NEW B, NEW I, NEW R, NEW c, NEW d,
           Mirrors(F, V, A, B, I, R, c),
           \A i \in 1..Len(F) : F[i].kind = "logical.rhs" =>
               Targets(d[F[i].from]) = Targets(c[F[i].from])
    PROVE  Mirrors(F, V, A, B, I, R, d)
<1>1. ASSUME NEW i \in 1..Len(F), Flows(F[i], V[i - 1], A, R, c)
      PROVE  Flows(F[i], V[i - 1], A, R, d)
  BY <1>1 DEF Flows
<1> QED BY <1>1 DEF Mirrors, FramesFlow

\* The end of && and ||: the phi and the block that branches to it.
LEMMA LogicalRhsFlow == ASSUME IInv, FlowInv, IInv', LogicalRhs PROVE FlowInv'
<1> DEFINE e == Top.end
           p == Phi(Top.from, Top.blk)
           d == Emit(Br(e), 0)
           c == [d EXCEPT ![e] = Append(@, p)]
           A == Alive
           l == Point.live
           V == Point.saved
           G == Pop(frames)
           J == inserted \cup {e}
           R2 == ReachableIn(d)
           i == Br(e)
           n == 0
           X == {e}
<1>1. /\ Working /\ Working' /\ Top.kind = "logical.rhs"
      /\ code' = c /\ inserted' = J /\ insertBlock' = e
      /\ frames' = G /\ UNCHANGED <<trail, warnings>>
  BY DEF LogicalRhs, Working, Return, MoveTo
<1>2. /\ l \in BOOLEAN /\ V \in Seq(BOOLEAN) /\ A \in BOOLEAN
      /\ Point = [live |-> l, saved |-> V] /\ (l <=> (A /\ ~Returning(frames)))
      /\ frames \in Seq(Frame) /\ Len(frames) \in Nat /\ Len(frames) > 0
      /\ Mirrors(frames, V, A, A, inserted, Reachable, code)
      /\ Top = frames[Len(frames)] /\ Top \in Frame /\ Len(code) \in Nat
      /\ inserted \subseteq 1..Len(code)
      /\ \A k \in 1..Len(frames) : Holds(frames[k], inserted, Len(code))
  BY <1>1, StateIs
<1>3. warnings' <= MaxWarnings
  BY <1>1, StateIs
<1>4. /\ e \in 1..Len(code) /\ e \in Nat /\ e \in Owned(Top)
      /\ Top.from \in inserted /\ Top.from \in Nat /\ Top.blk \in Nat
  <2>1. Len(frames) \in 1..Len(frames)
    BY <1>2
  <2>2. Holds(Top, inserted, Len(code))
    BY <1>2, <2>1
  <2>3. e \in 1..Len(code) /\ Top.from \in inserted /\ e \in Owned(Top)
    BY <1>1, <2>2 DEF Holds, HoldsEnd, Owned
  <2>4. e \in Nat /\ Top.from \in Nat /\ Top.blk \in Nat
    BY <1>2 DEF Frame
  <2> QED BY <2>3, <2>4
<1>5. p \in Instr /\ p.op = "phi" /\ p.blocks[1] = Top.from
  BY <1>4, InstrTypes DEF Phi
<1>6. frames[Len(frames)].kind \notin Savers /\ frames[Len(frames)].kind \notin {"return", "func"}
  BY <1>1, <1>2 DEF Savers
<1>7. Len(frames) > 1 /\ Len(frames) \in 1..Len(frames)
  <2>1. Len(frames) \in 1..Len(frames) /\ Shape
    BY <1>2 DEF IInv
  <2> QED BY <1>2, <1>6, <2>1 DEF Shape
<1>8. /\ G \in Seq(Frame) /\ Len(G) = Len(frames) - 1 /\ Len(G) <= Len(frames)
      /\ \A k \in 1..Len(G) : G[k] = frames[k]
  BY <1>2, <1>7, PopFacts
<1>9. Returning(frames') <=> Returning(frames)
  BY <1>1, <1>2, <1>6, ReturningIs
<1>10. /\ Mirrors(G, V, A, A, inserted, Reachable, code)
       /\ \A k \in 1..Len(G) : Owned(G[k]) \cap Owned(Top) = {}
  <2> DEFINE H == frames
             I == inserted
             R == Reachable
             b == code
  <2>1. H \in Seq(Frame) /\ Len(H) > 1 /\ Mirrors(H, V, A, A, I, R, b) /\ H[Len(H)].kind \notin Savers
    BY <1>2, <1>6, <1>7
  <2>2. Top = H[Len(H)]
    BY <1>2
  <2> HIDE DEF H, I, R, b, A, V
  <2>3. /\ Mirrors(Pop(H), V, A, A, I, R, b)
        /\ \A k \in 1..Len(Pop(H)) : Owned(Pop(H)[k]) \cap Owned(H[Len(H)]) = {}
    BY <1>2, <2>1, MirrorsReturn
  <2> QED BY <2>2, <2>3 DEF H, I, R, b
<1>11. /\ e \in Reachable <=> A
       /\ e \in Reachable => e \in Targets(code[Top.from])
       /\ e \notin inserted
  <2>1. Flows(Top, V[Len(frames) - 1], A, Reachable, code) /\ Owned(Top) \cap inserted = {}
    BY <1>2, <1>7 DEF Mirrors, FramesFlow, Detached
  <2> QED BY <1>1, <1>4, <2>1 DEF Flows
<1>12. /\ i \in Instr /\ IsTerminator(i) /\ i.op # "phi" /\ Range(i.blocks) = X
       /\ n \in Nat /\ Len(code) + n = Len(code) /\ RefersBelow(i, Len(code) + n)
       /\ e \in 1..Len(code) + n /\ d = Emit(i, n)
  <2>1. n \in Nat /\ Len(code) + n = Len(code) /\ e \in 1..Len(code) + n
    BY <1>2, <1>4
  <2>2. d = Emit(i, n)
    OBVIOUS
  <2>3. Len(code) + n \in Nat /\ e \in 1..(Len(code) + n) /\ e \in Nat
    BY <1>4, <2>1, <1>2
  <2>4. /\ i \in Instr /\ IsTerminator(i) /\ i.op # "phi" /\ Range(i.blocks) = X
        /\ RefersBelow(i, Len(code) + n)
    <3> HIDE DEF e, n
    <3> QED BY <2>3, Brs
  <2> QED BY <2>1, <2>2, <2>4
<1>13. A => \A x \in X : x \in Reachable \/ x \notin inserted
  BY <1>11
<1> HIDE DEF e, p, d, c, A, l, V, G, J, R2, i, n, X
<1>14. Moves(X, e, d)
  BY <1>1, <1>11, <1>12, <1>13, MoveGraph DEF A
<1>15. Graph(d) /\ d \in Seq(Seq(Instr)) /\ Len(d) = Len(code)
  <2>1. Emitted(i, n, d)
    BY <1>1, <1>12, <1>13, EmitGraph DEF A
  <2> QED BY <1>12, <2>1 DEF Emitted
<1>16. /\ R2 = Reachable \cup (IF A THEN X ELSE {})
       /\ d[e] = <<>> /\ Linked(d, J) /\ PhisOK(d, J, R2)
       /\ \A a \in inserted : Targets(code[a]) \subseteq Targets(d[a])
  BY <1>14 DEF Moves, R2, A, J
<1>17. R2 = Reachable
  BY <1>11, <1>16 DEF X
<1>18. Mirrors(G, V, A, A, J, R2, d)
  <2>1. \A k \in 1..Len(G) : Owned(G[k]) \cap (X \cup {e}) \subseteq Reachable \ {e}
    BY <1>4, <1>10 DEF X
  <2>2. /\ Mirrors(G, V, Alive, A, inserted, Reachable, code)
        /\ (A <=> Alive) /\ A \in BOOLEAN
    BY <1>2, <1>10 DEF A
  <2>3. Mirrors(G, V, A, A, inserted \cup {e}, ReachableIn(d), d)
    <3>1. Working /\ V \in Seq(BOOLEAN) /\ A \in BOOLEAN
      BY <1>1, <1>2
    <3>2. G \in Seq(Frame) /\ Len(G) <= Len(frames) /\ \A k \in 1..Len(G) : G[k] = frames[k]
      BY <1>8
    <3> QED BY <1>14, <2>1, <2>2, <3>1, <3>2, MirrorsMove
  <2> QED BY <2>3 DEF J, R2
<1>19. PhiAdded(p, e, d, c)
  BY <1>4, <1>5, <1>15, <1>16, PhiAppended DEF c
<1>20. /\ ReachableIn(c) = R2 /\ Open(c[e]) /\ Len(c) = Len(d)
       /\ \A a \in 1..Len(d) : Targets(c[a]) = Targets(d[a])
       /\ \A a \in 1..Len(d) : a # e => c[a] = d[a]
       /\ Len(c[e]) = 1 /\ c[e][1] = p
  BY <1>19 DEF PhiAdded, R2
<1>21. Mirrors(G, V, A, A, J, R2, c)
  <2>1. ASSUME NEW k \in 1..Len(G), G[k].kind = "logical.rhs"
        PROVE  Targets(c[G[k].from]) = Targets(d[G[k].from])
    <3>1. G[k].from \in inserted
      <4>1. k \in 1..Len(frames) /\ G[k] = frames[k]
        BY <1>2, <1>8
      <4> QED BY <1>2, <2>1, <4>1 DEF Holds
    <3>2. G[k].from \in 1..Len(d)
      BY <1>2, <1>15, <3>1
    <3> QED BY <1>20, <3>2
  <2> QED BY <1>18, <2>1, MirrorsSame
<1>22. Linked(c, J)
  BY <1>16, <1>20 DEF Linked, J
<1>23. PhisOK(c, J, R2)
  <2>1. ASSUME NEW b \in J \cap R2, NEW k \in 1..Len(c[b]), c[b][k].op = "phi"
        PROVE  c[b][k].blocks[1] \in {a \in J : b \in Targets(c[a])}
    <3>1. J \subseteq 1..Len(d) /\ Top.from \in J
      BY <1>2, <1>4, <1>15 DEF J
    <3>2. CASE b = e
      <4>1. c[b][k] = p /\ e \in Reachable
        BY <1>17, <1>20, <2>1, <3>2
      <4>2. e \in Targets(code[Top.from])
        BY <1>11, <4>1
      <4>3. e \in Targets(d[Top.from])
        BY <1>4, <1>16, <4>2
      <4>4. e \in Targets(c[Top.from])
        BY <1>20, <3>1, <4>3
      <4> QED BY <1>5, <3>1, <3>2, <4>1, <4>4
    <3>3. CASE b # e
      <4>1. c[b] = d[b]
        BY <1>20, <3>1, <3>3
      <4>2. d[b][k].blocks[1] \in {a \in J : b \in Targets(d[a])}
        BY <1>16, <2>1, <4>1 DEF PhisOK
      <4> QED BY <1>20, <3>1, <4>1, <4>2
    <3> QED BY <3>2, <3>3
  <2> QED BY <2>1 DEF PhisOK
<1>24. Point' = [live |-> l, saved |-> V]
  BY <1>1, <1>2, PointSame
<1>25. /\ ReachableIn(code') = R2 /\ Linked(code', inserted') /\ PhisOK(code', inserted', R2)
       /\ Mirrors(frames', V, A, A, inserted', R2, code')
       /\ A <=> (insertBlock' \in R2 /\ Open(code'[insertBlock']))
       /\ l <=> (A /\ ~Returning(frames'))
  BY <1>1, <1>2, <1>9, <1>11, <1>17, <1>20, <1>21, <1>22, <1>23
<1> QED BY <1>1, <1>2, <1>3, <1>24, <1>25, FlowInvHolds
-----------------------------------------------------------------------------
(* The ends of functions.                                                  *)

\* How many of the instructions s of a block are executed.
Runs(s) == IF Open(s) THEN Len(s) ELSE FirstTerminator(s)

\* Erasing what follows a ret leaves what executes.
LEMMA ErasedKeeps ==
    ASSUME NEW s \in Seq(Instr)
    PROVE  /\ Erased(s) \in Seq(Instr) /\ Runs(s) \in Nat
           /\ Runs(s) <= Len(Erased(s))
           /\ \A i \in 1..Runs(s) : Erased(s)[i] = s[i]
           /\ \A j \in 1..Len(Erased(s)) : \E i \in 1..Len(s) : Erased(s)[j] = s[i]
           /\ Open(s) => Erased(s) = s
           /\ Targets(Erased(s)) = Targets(s)
<1> DEFINE e == Erased(s)
           f == FirstTerminator(s)
<1>1. e \in Seq(Instr) /\ \A j \in 1..Len(e) : \E i \in 1..Len(s) : e[j] = s[i]
  BY ErasedFacts
<1>2. /\ f \in 0..Len(s) /\ Len(s) \in Nat
      /\ f = 0 <=> \A i \in 1..Len(s) : ~IsTerminator(s[i])
      /\ f # 0 => \A i \in 1..Len(s) : i < f => ~IsTerminator(s[i])
      /\ Open(s) <=> f = 0
  BY FirstIs DEF Open
<1>3. \A k \in AfterReturn(s) : k \in 2..Len(s) /\ IsTerminator(s[k - 1])
  BY DEF AfterReturn, IsTerminator, Terminators
<1> HIDE DEF f
<1>4. \A k \in AfterReturn(s) : k \in 2..Len(s) /\ f # 0 /\ f < k
  <2> SUFFICES ASSUME NEW k \in AfterReturn(s) PROVE k \in 2..Len(s) /\ f # 0 /\ f < k
    OBVIOUS
  <2>1. k \in 2..Len(s) /\ IsTerminator(s[k - 1]) /\ k - 1 \in 1..Len(s)
    BY <1>2, <1>3
  <2>2. f # 0 /\ ~(k - 1 < f)
    BY <1>2, <2>1
  <2> QED BY <1>2, <2>1, <2>2
<1>5. CASE AfterReturn(s) = {}
  <2>1. e = s
    BY <1>5 DEF Erased
  <2> QED BY <1>1, <1>2, <2>1 DEF Runs, f
<1>6. CASE AfterReturn(s) # {}
  <2>1. PICK k \in AfterReturn(s) : k \in 2..Len(s) /\ f # 0 /\ f < k
    BY <1>4, <1>6
  <2>2. Len(e) = Len(s) - 1 /\ f <= Len(e) /\ f \in Nat /\ f > 0
    <3>1. Len(s) - 1 \in Nat
      BY <1>2, <2>1
    <3>2. Len(e) = Len(s) - 1
      BY <1>6, <1>1, <3>1 DEF Erased
    <3> QED BY <1>2, <2>1, <3>2
  <2>3. ASSUME NEW i \in 1..f PROVE e[i] = s[i]
    <3>1. ~ \E first \in AfterReturn(s) : first <= i
      BY <1>2, <1>4
    <3>2. i \in 1..(Len(s) - 1)
      BY <2>2
    <3> QED BY <1>6, <3>1, <3>2 DEF Erased
  <2>4. ~Open(s) /\ Runs(s) = f
    BY <1>2, <2>2 DEF Runs, f
  <2>5. Targets(e) = Targets(s)
    <3>1. Len(s) \in Nat /\ Len(e) \in Nat /\ FirstTerminator(s) <= Len(e)
      BY <1>1, <1>2, <2>2 DEF f
    <3>2. \A i \in 1..FirstTerminator(s) : e[i] = s[i]
      BY <2>3 DEF f
    <3> HIDE DEF e
    <3> QED BY <2>4, <3>1, <3>2, SameUpTo
  <2> QED BY <1>1, <2>2, <2>3, <2>4, <2>5
<1> QED BY <1>5, <1>6

\* Closing a block adds instructions at its end only.
LEMMA ClosedKeeps ==
    ASSUME NEW s \in Seq(Instr)
    PROVE  /\ Closed(s) \in Seq(Instr) /\ Len(s) <= Len(Closed(s))
           /\ \A i \in 1..Len(s) : Closed(s)[i] = s[i]
           /\ \A j \in 1..Len(Closed(s)) : Closed(s)[j].op = "phi" =>
                 \E i \in 1..Len(s) : Closed(s)[j] = s[i]
           /\ Targets(Closed(s)) = Targets(s)
           /\ kind = "value" /\ Open(s) => Closed(s)[Len(Closed(s))] = Unreachable
<1>0. /\ Plain \in Instr /\ Ret \in Instr /\ Unreachable \in Instr
      /\ Plain.op # "phi" /\ Ret.op # "phi" /\ Unreachable.op # "phi"
      /\ ~IsTerminator(Plain)
      /\ Range(Ret.blocks) = {} /\ Range(Unreachable.blocks) = {}
  BY InstrTypes DEF Plain, Ret, Unreachable, IsTerminator, Terminators, Range
<1>1. ASSUME NEW u \in Seq(Instr), NEW i \in Instr, i.op # "phi"
      PROVE  /\ Append(u, i) \in Seq(Instr) /\ Len(Append(u, i)) = Len(u) + 1 /\ Len(u) \in Nat
             /\ \A j \in 1..Len(u) : Append(u, i)[j] = u[j]
             /\ Append(u, i)[Len(u) + 1] = i
             /\ \A j \in 1..Len(Append(u, i)) : Append(u, i)[j].op = "phi" => j \in 1..Len(u)
             /\ Range(i.blocks) = {} \/ ~IsTerminator(i) => Targets(Append(u, i)) = Targets(u)
  <2>1. /\ Append(u, i) \in Seq(Instr) /\ Len(Append(u, i)) = Len(u) + 1 /\ Len(u) \in Nat
        /\ \A j \in 1..Len(u) : Append(u, i)[j] = u[j]
        /\ Append(u, i)[Len(u) + 1] = i
    OBVIOUS
  <2>2. \A j \in 1..Len(Append(u, i)) : Append(u, i)[j].op = "phi" => j \in 1..Len(u)
    BY <1>1, <2>1
  <2>3. Range(i.blocks) = {} \/ ~IsTerminator(i) => Targets(Append(u, i)) = Targets(u)
    BY AppendTargets, OpenTargets
  <2> QED BY <2>1, <2>2, <2>3
<1>2. CASE Terminated(s)
  <2>1. Closed(s) = s
    BY <1>2 DEF Closed
  <2>2. ~Open(s)
    <3>1. Len(s) \in 1..Len(s) /\ IsTerminator(s[Len(s)])
      BY <1>2 DEF Terminated
    <3> QED BY <3>1, FirstIs DEF Open
  <2> QED BY <2>1, <2>2
<1>3. CASE ~Terminated(s) /\ kind = "value"
  <2> DEFINE p == Append(s, Plain)
             t == Append(p, Unreachable)
  <2>1. Closed(s) = t
    BY <1>3 DEF Closed
  <2>2. /\ p \in Seq(Instr) /\ Len(p) = Len(s) + 1 /\ Len(s) \in Nat
        /\ \A j \in 1..Len(s) : p[j] = s[j]
        /\ \A j \in 1..Len(p) : p[j].op = "phi" => j \in 1..Len(s)
        /\ Targets(p) = Targets(s)
    BY <1>0, <1>1
  <2> HIDE DEF p
  <2>3. /\ t \in Seq(Instr) /\ Len(t) = Len(p) + 1
        /\ \A j \in 1..Len(p) : t[j] = p[j]
        /\ \A j \in 1..Len(t) : t[j].op = "phi" => j \in 1..Len(p)
        /\ Targets(t) = Targets(p) /\ t[Len(p) + 1] = Unreachable
    BY <1>0, <1>1, <2>2
  <2> HIDE DEF t
  <2>4. \A i \in 1..Len(s) : t[i] = s[i]
    BY <2>2, <2>3
  <2>5. \A j \in 1..Len(t) : t[j].op = "phi" => \E i \in 1..Len(s) : t[j] = s[i]
    BY <2>2, <2>3
  <2> QED BY <2>1, <2>2, <2>3, <2>4, <2>5
<1>4. CASE ~Terminated(s) /\ kind # "value"
  <2> DEFINE t == Append(s, Ret)
  <2>1. Closed(s) = t
    BY <1>4 DEF Closed
  <2>2. /\ t \in Seq(Instr) /\ Len(t) = Len(s) + 1 /\ Len(s) \in Nat
        /\ \A j \in 1..Len(s) : t[j] = s[j]
        /\ \A j \in 1..Len(t) : t[j].op = "phi" => j \in 1..Len(s)
        /\ Targets(t) = Targets(s)
    BY <1>0, <1>1
  <2> HIDE DEF t
  <2>3. \A j \in 1..Len(t) : t[j].op = "phi" => \E i \in 1..Len(s) : t[j] = s[i]
    BY <2>2
  <2> QED BY <1>4, <2>1, <2>2, <2>3
<1> QED BY <1>2, <1>3, <1>4

\* What FuncDecl does to a block.
Cleaned(s, t) ==
    /\ t \in Seq(Instr) /\ Targets(t) = Targets(s)
    /\ Runs(s) \in Nat /\ Runs(s) <= Len(t) /\ \A i \in 1..Runs(s) : t[i] = s[i]
    /\ \A j \in 1..Len(t) : t[j].op = "phi" => \E i \in 1..Len(s) : t[j] = s[i]

\* What FuncDecl does to each block, in these terms.
LEMMA CleanUp ==
    ASSUME NEW s \in Seq(Instr)
    PROVE  Cleaned(s, Closed(Erased(s)))
<1> DEFINE e == Erased(s)
           t == Closed(e)
<1>1. /\ e \in Seq(Instr) /\ Runs(s) \in Nat /\ Runs(s) <= Len(e)
      /\ \A i \in 1..Runs(s) : e[i] = s[i]
      /\ \A j \in 1..Len(e) : \E i \in 1..Len(s) : e[j] = s[i]
      /\ Targets(e) = Targets(s)
  BY ErasedKeeps
<1> HIDE DEF e
<1>2. /\ t \in Seq(Instr) /\ Len(e) <= Len(t) /\ \A i \in 1..Len(e) : t[i] = e[i]
      /\ \A j \in 1..Len(t) : t[j].op = "phi" => \E i \in 1..Len(e) : t[j] = e[i]
      /\ Targets(t) = Targets(e)
  BY <1>1, ClosedKeeps
<1> HIDE DEF t
<1>3. Len(e) \in Nat /\ Len(t) \in Nat
  BY <1>1, <1>2
<1>4. Runs(s) <= Len(t) /\ \A i \in 1..Runs(s) : t[i] = s[i]
  BY <1>1, <1>2, <1>3
<1>5. \A j \in 1..Len(t) : t[j].op = "phi" => \E i \in 1..Len(s) : t[j] = s[i]
  BY <1>1, <1>2
<1>6. Cleaned(s, t)
  BY <1>1, <1>2, <1>4, <1>5 DEF Cleaned
<1> QED BY <1>6 DEF t, e

\* Blocks cleaned up one by one.
LEMMA CleanedGraph ==
    ASSUME IInv, FlowInv, Working, NEW d, Len(d) = Len(code),
           \A b \in 1..Len(code) : Cleaned(code[b], d[b])
    PROVE  PhisOK(d, inserted, ReachableIn(d))
<1> DEFINE c == code
           I == inserted
           R == Reachable
<1>1. /\ Graph(c) /\ R = ReachableIn(c) /\ I \subseteq 1..Len(c) /\ PhisOK(c, I, R)
  BY StateIs
<1>2. \A b \in 1..Len(c) : Cleaned(c[b], d[b])
  OBVIOUS
<1>3. Len(d) = Len(c)
  OBVIOUS
<1> HIDE DEF c, I, R
<1>4. \A b \in 1..Len(c) : Targets(d[b]) = Targets(c[b])
  BY <1>2 DEF Cleaned
<1>5. ReachableIn(d) = R
  <2>1. Graph(c) /\ SameTargets(c, d)
    BY <1>1, <1>3, <1>4 DEF SameTargets
  <2>2. ReachableIn(d) = ReachableIn(c)
    BY <2>1, ReachSame
  <2> QED BY <1>1, <2>2
<1>6. PhisKept(c, d, I, I, R, R)
  <2>1. ASSUME NEW b \in I
        PROVE  /\ Targets(c[b]) \subseteq Targets(d[b])
               /\ \A i \in 1..Len(d[b]) :
                     d[b][i].op = "phi" => \E k \in 1..Len(c[b]) : c[b][k] = d[b][i]
    <3>1. Cleaned(c[b], d[b])
      BY <1>1, <1>2
    <3> QED BY <3>1 DEF Cleaned
  <2> QED BY <2>1 DEF PhisKept
<1>7. PhisOK(d, I, R)
  BY <1>1, <1>6, PhisStay
<1> QED BY <1>5, <1>7 DEF I

\* The end of a FuncDecl, and of an MFuncDecl.
LEMMA FinishFuncFlow == ASSUME IInv, FlowInv, IInv', FinishFunc PROVE FlowInv'
<1>1. /\ Working /\ Top.kind = "func" /\ mode' \in {"idle", "exit"}
      /\ inserted' = inserted
      /\ code' = [b \in 1..Len(code) |-> IF b \in inserted
                                         THEN Closed(Erased(code[b]))
                                         ELSE code[b]]
  BY DEF FinishFunc, Working
<1>2. mode' # "exit" => warnings' <= MaxWarnings
  <2> DEFINE missing == IF kind = "value" THEN Cardinality(FallsOff) ELSE 0
  <2>1. missing \in Nat /\ warnings \in Nat /\ MaxWarnings \in Nat
    BY <1>1, FallsOffOnce, StateIs, CodegenAssumption
  <2>2. \/ mode' = "exit"
        \/ warnings' = warnings + missing /\ ~(warnings + missing > MaxWarnings)
    BY DEF FinishFunc
  <2> HIDE DEF missing
  <2> QED BY <2>1, <2>2
<1>3. inserted = 1..Len(code)
  BY <1>1, BodyDone
<1>4. code \in Seq(Seq(Instr)) /\ Len(code) \in Nat
  BY <1>1, StateIs
<1> DEFINE d == [b \in 1..Len(code) |-> Closed(Erased(code[b]))]
<1>5. code' = d
  BY <1>1, <1>3
<1>6. Len(d) = Len(code) /\ \A b \in 1..Len(code) : Cleaned(code[b], d[b])
  BY <1>4, CleanUp
<1> HIDE DEF d
<1>7. PhisOK(d, inserted, ReachableIn(d))
  BY <1>1, <1>6, CleanedGraph
<1>8. PhisOK(code', inserted', Reachable') /\ ~Working'
  BY <1>1, <1>5, <1>7 DEF Reachable, Working
<1> QED BY <1>2, <1>8 DEF FlowInv

LEMMA FinishMainFlow == ASSUME IInv, FlowInv, IInv', FinishMain PROVE FlowInv'
<1>1. /\ Working /\ mode' = "idle" /\ UNCHANGED <<inserted, warnings>>
      /\ code' = code \/ code' = Emit(Ret, 0)
  BY DEF FinishMain, Working
<1>2. warnings' <= MaxWarnings /\ PhisOK(code, inserted, Reachable)
  BY <1>1, StateIs
<1>3. CASE code' = code
  BY <1>1, <1>2, <1>3 DEF FlowInv, Reachable, Working
<1>4. CASE code' = Emit(Ret, 0)
  <2> DEFINE d == Emit(Ret, 0)
             i == Ret
             n == 0
  <2>1. /\ i \in Instr /\ IsTerminator(i) /\ i.op # "phi" /\ Range(i.blocks) = {}
        /\ n \in Nat /\ RefersBelow(i, Len(code) + n) /\ d = Emit(i, n)
    BY <1>1, StateIs, Rets
  <2> HIDE DEF i, n, d
  <2>2. Emitted(i, n, d)
    BY <1>1, <2>1, EmitGraph
  <2>3. /\ ReachableIn(d) = Reachable
        /\ \A b \in inserted : Targets(code[b]) \subseteq Targets(d[b])
        /\ \A b \in inserted : \A k \in 1..Len(d[b]) :
              d[b][k].op = "phi" => \E m \in 1..Len(code[b]) : code[b][m] = d[b][k]
    BY <2>1, <2>2 DEF Emitted
  <2> DEFINE c == code
             I == inserted
             R == Reachable
  <2>4. PhisKept(c, d, I, I, R, R) /\ PhisOK(c, I, R)
    BY <1>2, <2>3 DEF PhisKept
  <2>5. PhisOK(d, I, R)
    <3> HIDE DEF c, I, R
    <3> QED BY <2>4, PhisStay
  <2> QED BY <1>1, <1>2, <1>4, <2>3, <2>5 DEF FlowInv, Reachable, Working, d
<1> QED BY <1>1, <1>3, <1>4
-----------------------------------------------------------------------------
(* The start of a function, and every step.                                *)

\* Code without branches.
LEMMA NoTargets ==
    ASSUME NEW s \in Seq(Instr), \A i \in 1..Len(s) : ~IsTerminator(s[i])
    PROVE  Open(s) /\ Targets(s) = {}
<1>1. Open(s)
  BY FirstIs DEF Open
<1> QED BY <1>1, OpenTargets

\* A graph of one block that has no targets.
LEMMA OneBlock ==
    ASSUME NEW s, Targets(s) = {}
    PROVE  ReachableIn(<<s>>) = {1}
<1> DEFINE c == <<s>>
<1>1. Len(c) = 1 /\ c[1] = s
  OBVIOUS
<1> HIDE DEF c
<1>2. Graph(c)
  BY <1>1 DEF Graph
<1>3. ReachableIn(c) \subseteq 1..1 /\ 1 \in ReachableIn(c)
  BY <1>1, <1>2, ReachIs DEF ClosedIn
<1>4. ReachableIn(c) = {1}
  BY <1>3
<1> QED BY <1>4 DEF c

\* A new function: only its entry block is reachable.
LEMMA StartFunctionFlow ==
    ASSUME IInv, FlowInv, IInv', NEW k \in FuncKinds, NEW params \in BOOLEAN,
           StartFunction(k, params)
    PROVE  FlowInv'
<1> DEFINE f == Plainly("func")
           s == IF params THEN <<Alloca, Plain>> ELSE <<>>
<1>1. /\ mode = "idle" /\ mode' = "stmt" /\ trail' = <<>>
      /\ frames' = <<f>> /\ code' = <<s>>
      /\ inserted' = {1} /\ insertBlock' = 1 /\ warnings' = warnings
  BY DEF StartFunction
<1>2. /\ s \in Seq(Instr)
      /\ \A i \in 1..Len(s) : ~IsTerminator(s[i]) /\ s[i].op # "phi"
  BY InstrTypes DEF IsTerminator, Terminators, Alloca, Plain
<1>3. f.kind = "func"
  BY DEF Plainly, Holding
<1> HIDE DEF f, s
<1>4. Open(s) /\ Targets(s) = {}
  BY <1>2, NoTargets
<1> DEFINE c == <<s>>
           F == <<f>>
           V == <<>>
           live == TRUE
           A == TRUE
           R == {1}
<1>5. ReachableIn(c) = R
  BY <1>4, OneBlock
<1>6. /\ Len(c) = 1 /\ c[1] = s /\ Len(F) = 1 /\ F[1] = f
      /\ V \in Seq(BOOLEAN) /\ Len(V) = 0
  OBVIOUS
<1>7. Point' = [live |-> live, saved |-> V]
  BY <1>1, FlowStarts DEF Point, StartOfBody
<1>8. live \in BOOLEAN /\ A \in BOOLEAN
  OBVIOUS
<1> HIDE DEF V, c, F
<1>9. Linked(c, {1})
  BY <1>6 DEF Linked
<1>10. PhisOK(c, {1}, R)
  BY <1>2, <1>6 DEF PhisOK
<1>11. Aligned(F, V)
  BY <1>3, <1>6 DEF Aligned, Savers
<1>12. Detached(F, {1})
  BY <1>3, <1>6 DEF Detached, Owned, OwnsWell, HoldsEnd
<1>13. FramesFlow(F, V, A, R, c)
  BY <1>3, <1>6 DEF FramesFlow, Flows, Conditions, Joins, Branches
<1>14. Nested(F, V, A)
  BY <1>6 DEF Nested
<1>15. Mirrors(F, V, A, A, {1}, R, c)
  BY <1>11, <1>12, <1>13, <1>14 DEF Mirrors
<1>16. ~Returning(F)
  BY <1>3, <1>6 DEF Returning
<1>17. frames' = F /\ code' = c
  BY <1>1 DEF F, c
<1>18. /\ Working' /\ warnings' <= MaxWarnings
       /\ ReachableIn(code') = R
       /\ (A <=> (insertBlock' \in R /\ Open(code'[insertBlock'])))
       /\ (live <=> (A /\ ~Returning(frames')))
       /\ Linked(code', inserted') /\ PhisOK(code', inserted', R)
       /\ Mirrors(frames', V, A, A, inserted', R, code')
  <2>1. Working'
    BY <1>1 DEF Working
  <2>2. warnings' <= MaxWarnings
    BY <1>1 DEF FlowInv
  <2>3. insertBlock' \in R /\ Open(code'[insertBlock'])
    BY <1>1, <1>4, <1>6, <1>17
  <2>4. ReachableIn(code') = R
    BY <1>5, <1>17
  <2>5. Linked(code', inserted')
    BY <1>1, <1>9, <1>17
  <2>6. PhisOK(code', inserted', R)
    BY <1>1, <1>10, <1>17
  <2>7. Mirrors(frames', V, A, A, inserted', R, code')
    BY <1>1, <1>15, <1>17
  <2>8. ~Returning(frames')
    BY <1>16, <1>17
  <2> QED BY <2>1, <2>2, <2>3, <2>4, <2>5, <2>6, <2>7, <2>8
<1>19. R = R
  OBVIOUS
<1> HIDE DEF live, A, R
<1> QED BY <1>6, <1>7, <1>8, <1>18, FlowInvHolds

\* The invariant holds at first,
LEMMA InitFlow == Init => FlowInv
<1> SUFFICES ASSUME Init PROVE FlowInv
  OBVIOUS
<1>1. mode = "idle" /\ inserted = {} /\ warnings \in 0..MaxWarnings /\ MaxWarnings \in Nat
  BY CodegenAssumption DEF Init
<1>2. PhisOK(code, inserted, Reachable)
  BY <1>1 DEF PhisOK
<1> QED BY <1>1, <1>2 DEF FlowInv, Working

\* where nothing happens,
LEMMA StutterFlow == FlowInv /\ UNCHANGED vars => FlowInv'
<1> SUFFICES ASSUME FlowInv, UNCHANGED vars PROVE FlowInv'
  OBVIOUS
<1>1. /\ mode' = mode /\ trail' = trail /\ frames' = frames /\ code' = code
      /\ inserted' = inserted /\ insertBlock' = insertBlock
      /\ warnings' = warnings
  BY DEF vars
<1>2. Point' = Point /\ Reachable' = Reachable
  BY <1>1 DEF Point, Reachable
<1>3. Alive' = Alive
  BY <1>1, <1>2 DEF Alive
<1>4. (Working' <=> Working) /\ (Returning(frames)' <=> Returning(frames))
  BY <1>1 DEF Working
<1>5. (mode # "exit" => warnings <= MaxWarnings) /\ PhisOK(code, inserted, Reachable)
  BY DEF FlowInv
<1>6. CASE ~Working
  BY <1>1, <1>2, <1>4, <1>5, <1>6 DEF FlowInv
<1>7. CASE Working
  <2>1. /\ Point \in Points /\ Linked(code, inserted)
        /\ (Point.live <=> (Alive /\ ~Returning(frames)))
        /\ Mirrors(frames, Point.saved, Alive, Alive, inserted, Reachable, code)
    BY <1>7 DEF FlowInv
  <2>2. /\ Point' \in Points /\ Linked(code', inserted')
        /\ (Point'.live <=> (Alive' /\ ~Returning(frames')))
        /\ Mirrors(frames', Point'.saved, Alive', Alive', inserted', Reachable', code')
    BY <1>1, <1>2, <1>3, <2>1
  <2> QED BY <1>1, <1>2, <1>5, <2>2 DEF FlowInv
<1> QED BY <1>6, <1>7

\* and after every step.
LEMMA NextFlow == IInv /\ FlowInv /\ [Next]_vars => FlowInv'
<1> SUFFICES ASSUME IInv, FlowInv, [Next]_vars PROVE FlowInv'
  OBVIOUS
<1>0. IInv'
  BY NextInvariant
<1>1. CASE UNCHANGED vars
  BY <1>1, StutterFlow
<1>2. CASE Functions
  <2>1. ASSUME NEW k \in FuncKinds, NEW params \in BOOLEAN,
               StartFunction(k, params)
        PROVE  FlowInv'
    BY <1>0, <2>1, StartFunctionFlow
  <2>2. CASE Exited
    BY <2>2, StutterFlow DEF Exited
  <2> QED
    BY <1>0, <1>2, <2>1, <2>2, FinishFuncFlow, FinishMainFlow DEF Functions
<1>3. CASE Statements
  <2>1. CASE VarDecl \/ ExprStmt \/ ExprStmtValue
    BY <1>0, <2>1, VarDeclFlow, ExprStmtFlow, ExprStmtValueFlow
  <2>2. CASE ReturnVoid \/ ReturnValue \/ ReturnStmtValue \/ BreakStmt
    BY <1>0, <2>2, ReturnVoidFlow, ReturnValueFlow, ReturnStmtValueFlow,
       BreakStmtFlow
  <2>3. CASE IfStmt \/ IfElseStmt \/ WhileStmt
    BY <1>0, <2>3, IfStmtFlow, WhileStmtFlow
  <2>4. CASE IfCond \/ IfElseCond \/ WhileCond
    BY <1>0, <2>4, IfCondFlow, IfElseCondFlow, WhileCondFlow
  <2>5. CASE IfThen \/ IfElseElse \/ IfElseThen \/ WhileBody
    BY <1>0, <2>5, IfThenFlow, IfElseThenFlow, WhileBodyFlow
  <2> QED
    BY <1>3, <2>1, <2>2, <2>3, <2>4, <2>5 DEF Statements
<1>4. CASE Expressions
  <2>1. CASE \/ Operator("operator", "operator")
             \/ Operator("land", "land.lhs") \/ Operator("lor", "lor.lhs")
    <3> HIDE DEF Operator
    <3>1. CASE Operator("operator", "operator")
      BY <1>0, <3>1, OperatorFlow
    <3>2. CASE Operator("land", "land.lhs")
      BY <1>0, <3>2, OperatorFlow
    <3>3. CASE Operator("lor", "lor.lhs")
      BY <1>0, <3>3, OperatorFlow
    <3> QED BY <2>1, <3>1, <3>2, <3>3
  <2>2. CASE IdExpr \/ LitExpr \/ NextOperand \/ Apply
    BY <1>0, <2>2, LeafFlow, NextOperandFlow, ApplyFlow
  <2>3. CASE LogicalLhs \/ LogicalRhs
    BY <1>0, <2>3, LogicalLhsFlow, LogicalRhsFlow
  <2> QED
    BY <1>4, <2>1, <2>2, <2>3 DEF Expressions
<1> QED
  BY <1>1, <1>2, <1>3, <1>4 DEF Next

\* In every state that the code generator reaches, whatever the program, its
\* blocks mean what the statements so far mean.
THEOREM FlowHolds == Spec => [](IInv /\ FlowInv)
<1>1. Init => IInv /\ FlowInv
  BY InitInvariant, InitFlow
<1>2. IInv /\ FlowInv /\ [Next]_vars => (IInv /\ FlowInv)'
  BY NextInvariant, NextFlow
<1> QED
  BY <1>1, <1>2, PTL DEF Spec
-----------------------------------------------------------------------------
(* The properties.                                                         *)

\* For every program: the insertion point is reachable in the blocks exactly
\* where the statements say so.
THEOREM LivenessAgrees == Spec => []LiveAgrees
<1>1. ASSUME IInv, FlowInv, mode = "stmt"
      PROVE  Live <=> /\ insertBlock \in Reachable
                      /\ FirstTerminator(code[insertBlock]) = 0
  BY <1>1, InBody DEF Live, Point, Alive, Open
<1>2. IInv /\ FlowInv => LiveAgrees
  BY <1>1 DEF LiveAgrees
<1> QED
  BY <1>2, FlowHolds, PTL

\* For every program: the block that a phi names for the skipped operand of
\* && or || is one that branches to it.
THEOREM SkippedOperandHolds == Spec => []SkippedOperandReachesPhi
<1>1. ASSUME IInv, FlowInv, NEW b \in inserted \cap Reachable,
             NEW i \in DOMAIN code[b], code[b][i].op = "phi"
      PROVE  code[b][i].blocks[1] \in Predecessors(b)
  <2>1. PhisOK(code, inserted, Reachable)
    BY <1>1 DEF FlowInv
  <2>2. code[b] \in Seq(Instr)
    BY <1>1 DEF IInv, TypeOK
  <2>3. i \in 1..Len(code[b])
    BY <1>1, <2>2
  <2> QED
    BY <1>1, <2>1, <2>3 DEF PhisOK, Predecessors
<1>2. IInv /\ FlowInv => SkippedOperandReachesPhi
  BY <1>1 DEF SkippedOperandReachesPhi
<1> QED
  BY <1>2, FlowHolds, PTL

\* The call stack becomes empty at the end of a function only.
LEMMA BodyEndsBy ==
    ASSUME IInv', Next, mode = "stmt", frames' = <<>>
    PROVE  FinishFunc \/ FinishMain
<1>1. mode' \in {"idle", "exit"}
  BY DEF IInv, TypeOK
<1>2. Functions => FinishFunc \/ FinishMain
  BY DEF Functions, StartFunction, Exited
<1>3. ~Statements
  BY <1>1 DEF Statements, VarDecl, ExprStmt, ExprStmtValue, ReturnVoid,
         ReturnValue, ReturnStmtValue, BreakStmt, IfStmt, IfCond, IfThen,
         IfElseStmt, IfElseCond, IfElseThen, IfElseElse, WhileStmt,
         WhileCond, WhileBody, Evaluate, Leave
<1>4. ~Expressions
  BY DEF Expressions, IdExpr, LitExpr, Leaf, Operator, NextOperand, Apply,
         LogicalLhs, LogicalRhs
<1> QED
  BY <1>2, <1>3, <1>4 DEF Next

\* A block that is open when FuncDecl comes to it is one of those it counts.
LEMMA OpenFallsOff ==
    ASSUME IInv, Working, Open(code[insertBlock])
    PROVE  Cardinality(FallsOff) = 1
<1> DEFINE last == insertBlock
           s == code[last]
<1>1. last \in inserted /\ inserted \subseteq 1..Len(code) /\ s \in Seq(Instr) /\ Len(code) \in Nat
  BY WorkingFacts DEF IInv
<1>2. Open(s)
  OBVIOUS
<1> HIDE DEF s
<1>3. Erased(s) = s
  BY <1>1, <1>2, ErasedKeeps
<1>4. ~Terminated(s)
  <2>1. Len(s) \in Nat /\ \A i \in 1..Len(s) : ~IsTerminator(s[i])
    BY <1>1, <1>2, FirstIs DEF Open
  <2>2. s # <<>> => Len(s) \in 1..Len(s)
    BY <1>1
  <2> QED
    BY <2>1, <2>2 DEF Terminated
<1>5. last \in FallsOff
  <2>1. last \in inserted /\ ~Terminated(Erased(code[last]))
    BY <1>1, <1>3, <1>4 DEF s
  <2> HIDE DEF last
  <2> QED
    BY <2>1 DEF FallsOff
<1>6. IsFiniteSet(FallsOff)
  <2>1. IsFiniteSet(1..Len(code))
    BY <1>1, FS_Interval
  <2>2. FallsOff \in SUBSET (1..Len(code))
    BY <1>1 DEF FallsOff
  <2> QED
    BY <2>1, <2>2, FS_Subset
<1>7. Cardinality(FallsOff) # 0
  BY <1>5, <1>6, FS_EmptySet
<1> QED
  BY <1>7, FallsOffOnce

\* For every program: a function with a result whose end is reachable is
\* warned about, and traps there.
THEOREM MissingReturn == Spec => MissingReturnIsReported
<1>1. ASSUME IInv, FlowInv, FinishFunc, kind = "value", Live
      PROVE  /\ warnings' > warnings
             /\ Last(code'[insertBlock]) = Unreachable
  <2>1. /\ Working /\ mode = "stmt" /\ Top.kind = "func"
        /\ code' = [b \in 1..Len(code) |-> IF b \in inserted
                                           THEN Closed(Erased(code[b]))
                                           ELSE code[b]]
    BY <1>1 DEF FinishFunc, Working
  <2>2. Open(code[insertBlock])
    BY <1>1, <2>1, InBody DEF Live, Point, Alive
  <2>3. /\ insertBlock \in inserted /\ inserted \subseteq 1..Len(code)
        /\ code \in Seq(Seq(Instr))
        /\ warnings \in Nat /\ warnings <= MaxWarnings /\ MaxWarnings \in Nat
    BY <1>1, <2>1, StateIs, CodegenAssumption
  <2>4. warnings' > warnings
    <3> DEFINE missing == IF kind = "value" THEN Cardinality(FallsOff) ELSE 0
    <3>1. missing = 1
      BY <1>1, <2>1, <2>2, OpenFallsOff
    <3>2. \/ warnings' = MaxWarnings + 1 \/ warnings' = warnings + missing
      BY <1>1 DEF FinishFunc
    <3> HIDE DEF missing
    <3> QED
      BY <2>3, <3>1, <3>2
  <2>5. Last(code'[insertBlock]) = Unreachable
    <3> DEFINE s == code[insertBlock]
    <3>1. s \in Seq(Instr) /\ Open(s) /\ code'[insertBlock] = Closed(Erased(s))
      BY <2>1, <2>2, <2>3
    <3> HIDE DEF s
    <3>2. Erased(s) = s
      BY <3>1, ErasedKeeps
    <3>3. Closed(s)[Len(Closed(s))] = Unreachable
      BY <1>1, <3>1, ClosedKeeps
    <3> QED
      BY <3>1, <3>2, <3>3 DEF Last
  <2> QED
    BY <2>4, <2>5
<1>2. ASSUME IInv, FlowInv, IInv', [Next]_vars, mode = "stmt", mode' # "stmt",
             frames' = <<>>, kind = "value", Live
      PROVE  /\ warnings' > warnings
             /\ Last(code'[insertBlock]) = Unreachable
  <2>1. Next
    BY <1>2 DEF vars
  <2>2. FinishFunc
    BY <1>2, <2>1, BodyEndsBy DEF FinishMain
  <2> QED
    BY <1>1, <1>2, <2>2
<1> DEFINE Reported ==
        (mode = "stmt" /\ mode' # "stmt" /\ frames' = <<>> /\ kind = "value"
         /\ Live)
        => /\ warnings' > warnings
           /\ Last(code'[insertBlock]) = Unreachable
<1>3. IInv /\ FlowInv /\ IInv' /\ [Next]_vars => [Reported]_vars
  BY <1>2
<1> HIDE DEF Reported
<1>4. Spec => [][Reported]_vars
  BY <1>3, FlowHolds, PTL DEF Spec
<1> QED
  BY <1>4 DEF MissingReturnIsReported, Reported

\* What a block executes is a prefix of it, and so of every block that begins
\* in the same way.
LEMMA ExecutedFirst ==
    ASSUME NEW s \in Seq(Instr), NEW t \in Seq(Instr), Runs(s) <= Len(t),
           \A i \in 1..Runs(s) : t[i] = s[i]
    PROVE  IsPrefix(Executed(s), t)
<1> DEFINE n == Runs(s)
           x == SubSeq(s, 1, n)
           y == SubSeq(t, 1, n)
<1>1. n \in 0..Len(s) /\ Len(s) \in Nat /\ n <= Len(t) /\ Len(t) \in Nat
  BY FirstIs DEF Runs
<1>2. \A i \in 1..n : t[i] = s[i]
  OBVIOUS
<1>3. Executed(s) = x
  <2>1. CASE Open(s)
    BY <1>1, <2>1, SubSeqFull DEF Executed, Runs, Open
  <2>2. CASE ~Open(s)
    BY <2>2 DEF Executed, Runs, Open
  <2> QED
    BY <2>1, <2>2
<1> HIDE DEF n
<1>4. x \in Seq(Instr) /\ Len(x) = n /\ \A i \in 1..n : x[i] = s[i]
  BY <1>1, SubSeqProperties
<1>5. y \in Seq(Instr) /\ Len(y) = n /\ \A i \in 1..n : y[i] = t[i]
  BY <1>1, SubSeqProperties
<1>6. x = y
  <2> HIDE DEF x, y
  <2> QED
    BY <1>1, <1>2, <1>4, <1>5, SeqEqual
<1> QED
  BY <1>1, <1>3, <1>4, <1>6 DEF IsPrefix

\* For every program: what executes of a block stays as it was generated.
THEOREM CleanupKeeps == Spec => CleanupKeepsLiveCode
<1>1. ASSUME IInv, FlowInv, FinishFunc, NEW b \in inserted
      PROVE  IsPrefix(Executed(code[b]), code'[b])
  <2>1. /\ Working
        /\ code' = [a \in 1..Len(code) |-> IF a \in inserted
                                           THEN Closed(Erased(code[a]))
                                           ELSE code[a]]
    BY <1>1 DEF FinishFunc, Working
  <2>2. inserted \subseteq 1..Len(code) /\ code \in Seq(Seq(Instr))
    BY <1>1, <2>1, StateIs
  <2> DEFINE s == code[b]
             t == code'[b]
  <2>3. s \in Seq(Instr) /\ t = Closed(Erased(s))
    BY <1>1, <2>1, <2>2
  <2> HIDE DEF s, t
  <2>4. /\ t \in Seq(Instr) /\ Runs(s) <= Len(t)
        /\ \A i \in 1..Runs(s) : t[i] = s[i]
    BY <2>3, CleanUp DEF Cleaned
  <2>5. IsPrefix(Executed(s), t)
    BY <2>3, <2>4, ExecutedFirst
  <2> QED
    BY <2>5 DEF s, t
<1>2. ASSUME IInv, FlowInv, FinishMain, NEW b \in inserted
      PROVE  IsPrefix(Executed(code[b]), code'[b])
  <2>1. Working /\ (code' = code \/ code' = Emit(Ret, 0))
    BY <1>2 DEF FinishMain, Working
  <2>2. inserted \subseteq 1..Len(code) /\ code \in Seq(Seq(Instr)) /\ Len(code) \in Nat
    BY <1>2, <2>1, StateIs
  <2> DEFINE s == code[b]
             t == code'[b]
  <2>3. s \in Seq(Instr) /\ (t = s \/ t = Append(s, Ret))
    <3>1. Emit(Ret, 0)[b] \in {s, Append(s, Ret)}
      BY <1>2, <2>2 DEF Emit
    <3> QED
      BY <1>2, <2>1, <2>2, <3>1
  <2> HIDE DEF s, t
  <2>4. /\ t \in Seq(Instr) /\ Len(s) <= Len(t)
        /\ \A i \in 1..Len(s) : t[i] = s[i]
    BY <2>3, InstrTypes
  <2>5. Runs(s) \in 0..Len(s)
    BY <2>3, FirstIs DEF Runs
  <2>6. Runs(s) <= Len(t) /\ \A i \in 1..Runs(s) : t[i] = s[i]
    BY <2>3, <2>4, <2>5
  <2>7. IsPrefix(Executed(s), t)
    BY <2>3, <2>4, <2>6, ExecutedFirst
  <2> QED
    BY <2>7 DEF s, t
<1>3. ASSUME IInv, FlowInv, IInv', Next, mode = "stmt", frames' = <<>>,
             NEW b \in inserted
      PROVE  IsPrefix(Executed(code[b]), code'[b])
  BY <1>1, <1>2, <1>3, BodyEndsBy
<1> DEFINE Unharmed ==
        (mode = "stmt" /\ frames' = <<>>) =>
            \A b \in inserted : IsPrefix(Executed(code[b]), code'[b])
<1>4. IInv /\ FlowInv /\ IInv' /\ [Next]_vars => [Unharmed]_vars
  BY <1>3
<1> HIDE DEF Unharmed
<1>5. Spec => [][Unharmed]_vars
  BY <1>4, FlowHolds, PTL DEF Spec
<1> QED
  BY <1>5 DEF CleanupKeepsLiveCode, Unharmed
=============================================================================
