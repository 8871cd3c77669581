------------------------- MODULE SemanalScopesProofs -------------------------
(***************************************************************************)
(* Proofs, for programs of any size, nested to any depth and over any      *)
(* names, that the symbol table as FunctionVisitor fills, queries and      *)
(* empties it computes lexical scoping (modules Semanal and                *)
(* SemanalScopes).                                                         *)
(***************************************************************************)
EXTENDS SemanalScopes, SemanalProofs

-----------------------------------------------------------------------------
(* The definitions of SemanalScopes, for any trail and any globals.        *)

Starts == {"func", "main"}
StartOf(t, k) == Max({j \in 1..k : t[j].what \in Starts})
Events(t, s, k, what) == {j \in s..k : t[j].what = what}
DepthOf(t, k) == Cardinality(Events(t, StartOf(t, k), k, "block"))
                 - Cardinality(Events(t, StartOf(t, k), k, "close"))
LoopsOf(t, k) == Cardinality(Events(t, StartOf(t, k), k, "while"))
                 - Cardinality(Events(t, StartOf(t, k), k, "end"))
ReachesOf(t, d, k) == /\ StartOf(t, d) = StartOf(t, k)
                      /\ \A j \in d..k : DepthOf(t, j) >= DepthOf(t, d)
LocalsOf(t, name, k) == {d \in 1..(k - 1) : /\ t[d].what = "decl" /\ t[d].name = name
                                            /\ ReachesOf(t, d, k)}
ParamsOf(t, name, k) == {d \in 1..(k - 1) : /\ t[d].what = "param" /\ t[d].name = name
                                            /\ d > StartOf(t, k)}

LEMMA DefinitionsAre ==
    ASSUME NEW k \in Nat
    PROVE  /\ Start(k) = StartOf(trail, k)
           /\ Depth(k) = DepthOf(trail, k)
           /\ Loops(k) = LoopsOf(trail, k)
           /\ \A d \in Nat : Reaches(d, k) <=> ReachesOf(trail, d, k)
           /\ \A name : /\ Locals(name, k) = LocalsOf(trail, name, k)
                        /\ Params(name, k) = ParamsOf(trail, name, k)
<1>1. \A i \in Nat : /\ Start(i) = StartOf(trail, i)
                     /\ Depth(i) = DepthOf(trail, i)
                     /\ Loops(i) = LoopsOf(trail, i)
  BY DEF Start, StartOf, Starts, Depth, DepthOf, Loops, LoopsOf, From, Events
<1>2. \A d, i \in Nat : Reaches(d, i) <=> ReachesOf(trail, d, i)
  <2> SUFFICES ASSUME NEW d \in Nat, NEW i \in Nat
               PROVE  Reaches(d, i) <=> ReachesOf(trail, d, i)
    OBVIOUS
  <2>1. \A j \in d..i : j \in Nat
    OBVIOUS
  <2> QED BY <1>1, <2>1 DEF Reaches, ReachesOf
<1>3. \A name : /\ Locals(name, k) = LocalsOf(trail, name, k)
                /\ Params(name, k) = ParamsOf(trail, name, k)
  <2>1. \A d \in 1..(k - 1) : d \in Nat
    OBVIOUS
  <2> QED BY <1>1, <1>2, <2>1 DEF Locals, LocalsOf, Params, ParamsOf, Before
<1> QED BY <1>1, <1>2, <1>3

-----------------------------------------------------------------------------
(* Numbers.                                                                *)

LEMMA MaxIs ==
    ASSUME NEW n \in Nat, NEW S, S \subseteq 1..n, S # {}
    PROVE  Max(S) \in S /\ \A y \in S : y <= Max(S)
<1> DEFINE T == {n - x : x \in S}
<1>1. T \in SUBSET Nat /\ T # {}
  <2>1. \A x \in S : n - x \in Nat
    OBVIOUS
  <2> QED BY <2>1
<1>2. PICK m \in T : \A z \in T : m <= z
  <2> HIDE DEF T
  <2> QED BY <1>1, Least
<1>3. PICK x \in S : m = n - x
  OBVIOUS
<1>4. \A y \in S : x >= y
  <2> SUFFICES ASSUME NEW y \in S PROVE x >= y
    OBVIOUS
  <2>1. n - y \in T
    OBVIOUS
  <2>2. n - x <= n - y
    BY <1>2, <1>3, <2>1
  <2>3. x \in Int /\ y \in Int
    OBVIOUS
  <2> QED BY <2>2, <2>3
<1>5. Max(S) \in S /\ \A y \in S : Max(S) >= y
  BY <1>4 DEF Max
<1>6. \A y \in S : y \in Int
  OBVIOUS
<1> QED BY <1>5, <1>6

\* The greatest element, when one is known.
LEMMA MaxIsIt ==
    ASSUME NEW n \in Nat, NEW S, S \subseteq 1..n, NEW x \in S, \A y \in S : y <= x
    PROVE  Max(S) = x
<1>1. Max(S) \in S /\ \A y \in S : y <= Max(S)
  BY MaxIs
<1>2. Max(S) \in S /\ Max(S) <= x /\ x <= Max(S)
  BY <1>1
<1>3. \A y \in S : y \in Int
  OBVIOUS
<1>4. Max(S) \in Int /\ x \in Int
  BY <1>2, <1>3
<1> QED BY <1>2, <1>4

LEMMA EventsAre ==
    ASSUME NEW t, NEW s \in Int, NEW k \in Int, NEW what
    PROVE  /\ IsFiniteSet(Events(t, s, k, what))
           /\ Cardinality(Events(t, s, k, what)) \in Nat
<1>1. IsFiniteSet(s..k)
  BY FS_Interval
<1>2. Events(t, s, k, what) \subseteq s..k
  BY DEF Events
<1>3. IsFiniteSet(Events(t, s, k, what))
  BY <1>1, <1>2, FS_Subset
<1> QED BY <1>3, FS_CardinalityType

\* One position more.
LEMMA EventsGrow ==
    ASSUME NEW t, NEW s \in Int, NEW k \in Int, s <= k + 1, NEW what
    PROVE  Cardinality(Events(t, s, k + 1, what)) =
               IF t[k + 1].what = what THEN Cardinality(Events(t, s, k, what)) + 1
               ELSE Cardinality(Events(t, s, k, what))
<1>1. Events(t, s, k + 1, what) =
          IF t[k + 1].what = what THEN Events(t, s, k, what) \cup {k + 1}
          ELSE Events(t, s, k, what)
  BY DEF Events
<1>2. k + 1 \notin Events(t, s, k, what)
  BY DEF Events
<1>3. IsFiniteSet(Events(t, s, k, what))
  BY EventsAre
<1>4. Cardinality(Events(t, s, k, what) \cup {k + 1})
          = Cardinality(Events(t, s, k, what)) + 1
  BY <1>2, <1>3, FS_AddElement
<1> QED BY <1>1, <1>4

-----------------------------------------------------------------------------
(* Trails: what a node more changes.                                       *)

Trails == {t \in Seq(Node) : t # <<>> => t[1].what \in Starts}

LEMMA TrailsAre ==
    ASSUME NEW t \in Trails, NEW x \in Node, t # <<>> \/ x.what \in Starts
    PROVE  /\ Len(t) \in Nat /\ t \in Seq(Node) /\ (t # <<>> => t[1].what \in Starts)
           /\ \A k \in 1..Len(t) : t[k] \in Node
           /\ Append(t, x) \in Trails /\ Append(t, x) # <<>>
           /\ Len(Append(t, x)) = Len(t) + 1
           /\ \A k \in 1..Len(t) : Append(t, x)[k] = t[k]
           /\ Append(t, x)[Len(t) + 1] = x
<1>1. /\ Len(t) \in Nat /\ t \in Seq(Node) /\ (t # <<>> => t[1].what \in Starts)
  BY DEF Trails
<1>2. /\ Append(t, x) \in Seq(Node) /\ Append(t, x) # <<>>
      /\ Len(Append(t, x)) = Len(t) + 1
      /\ \A k \in 1..Len(t) : t[k] \in Node /\ Append(t, x)[k] = t[k]
      /\ Append(t, x)[Len(t) + 1] = x
  <2>1. Append(t, x) \in Seq(Node)
    BY <1>1
  <2>2. /\ Len(Append(t, x)) = Len(t) + 1
        /\ \A k \in 1..Len(t) : Append(t, x)[k] = t[k]
        /\ Append(t, x)[Len(t) + 1] = x
    BY <1>1
  <2>4. Append(t, x) # <<>>
    BY <1>1, <2>2
  <2>3. \A k \in 1..Len(t) : t[k] \in Node
    BY <1>1
  <2> QED BY <2>1, <2>2, <2>3, <2>4
<1>3. Append(t, x)[1].what \in Starts
  <2>1. CASE t = <<>>
    <3>1. Len(t) + 1 = 1
      BY <2>1
    <3> QED BY <1>2, <2>1, <3>1
  <2>2. CASE t # <<>>
    <3>1. 1 \in 1..Len(t)
      BY <1>1, <2>2
    <3> QED BY <1>1, <1>2, <2>2, <3>1
  <2> QED BY <2>1, <2>2
<1> QED BY <1>1, <1>2, <1>3 DEF Trails

\* Every node is in a function.
LEMMA StartIs ==
    ASSUME NEW t \in Trails, NEW k \in 1..Len(t)
    PROVE  /\ StartOf(t, k) \in 1..k /\ t[StartOf(t, k)].what \in Starts
           /\ \A j \in 1..k : t[j].what \in Starts => j <= StartOf(t, k)
<1> DEFINE S == {j \in 1..k : t[j].what \in Starts}
<1>1. t \in Seq(Node) /\ t[1].what \in Starts /\ Len(t) \in Nat
  <2>1. t \in Seq(Node) /\ Len(t) \in Nat /\ t # <<>>
    BY DEF Trails
  <2> QED BY <2>1 DEF Trails
<1>2. k \in Nat /\ 1 \in S /\ S \subseteq 1..k
  BY <1>1
<1>3. Max(S) \in S /\ \A y \in S : y <= Max(S)
  <2> HIDE DEF S
  <2> QED BY <1>2, MaxIs
<1> QED BY <1>3 DEF StartOf

LEMMA StartIsIt ==
    ASSUME NEW t, NEW k \in Nat, NEW s \in 1..k, t[s].what \in Starts,
           \A j \in 1..k : t[j].what \in Starts => j <= s
    PROVE  StartOf(t, k) = s
<1> DEFINE S == {j \in 1..k : t[j].what \in Starts}
<1>1. S \subseteq 1..k /\ s \in S /\ \A y \in S : y <= s
  OBVIOUS
<1>2. Max(S) = s
  <2> HIDE DEF S
  <2> QED BY <1>1, MaxIsIt
<1> QED BY <1>2 DEF StartOf

LEMMA DepthsAre ==
    ASSUME NEW t \in Trails, NEW k \in 1..Len(t)
    PROVE  DepthOf(t, k) \in Int /\ LoopsOf(t, k) \in Int
<1>1. StartOf(t, k) \in Int /\ k \in Int
  BY StartIs
<1>2. \A what : Cardinality(Events(t, StartOf(t, k), k, what)) \in Nat
  BY <1>1, EventsAre
<1> QED BY <1>2 DEF DepthOf, LoopsOf

\* The positions before it are as they were.
LEMMA Kept ==
    ASSUME NEW t \in Trails, NEW x \in Node, NEW k \in 1..Len(t)
    PROVE  /\ StartOf(Append(t, x), k) = StartOf(t, k)
           /\ DepthOf(Append(t, x), k) = DepthOf(t, k)
           /\ LoopsOf(Append(t, x), k) = LoopsOf(t, k)
<1> DEFINE u == Append(t, x)
<1>1. Len(t) \in Nat /\ \A j \in 1..Len(t) : u[j] = t[j]
  BY DEF Trails
<1>2. StartOf(u, k) = StartOf(t, k)
  <2>1. {j \in 1..k : u[j].what \in Starts} = {j \in 1..k : t[j].what \in Starts}
    BY <1>1
  <2> QED BY <2>1 DEF StartOf
<1>3. StartOf(t, k) \in 1..k
  BY StartIs
<1>4. \A what : Events(u, StartOf(t, k), k, what) = Events(t, StartOf(t, k), k, what)
  BY <1>1, <1>3 DEF Events
<1> HIDE DEF u
<1>5. DepthOf(u, k) = DepthOf(t, k) /\ LoopsOf(u, k) = LoopsOf(t, k)
  BY <1>2, <1>4 DEF DepthOf, LoopsOf
<1> QED BY <1>2, <1>5 DEF u

LEMMA ReachesKept ==
    ASSUME NEW t \in Trails, NEW x \in Node, NEW k \in 1..Len(t), NEW d \in 1..k
    PROVE  ReachesOf(Append(t, x), d, k) <=> ReachesOf(t, d, k)
<1>1. \A j \in d..k : j \in 1..Len(t)
  BY DEF Trails
<1>2. d \in 1..Len(t) /\ k \in 1..Len(t)
  BY DEF Trails
<1>3. /\ \A j \in d..k : DepthOf(Append(t, x), j) = DepthOf(t, j)
      /\ DepthOf(Append(t, x), d) = DepthOf(t, d)
      /\ StartOf(Append(t, x), d) = StartOf(t, d)
      /\ StartOf(Append(t, x), k) = StartOf(t, k)
  BY <1>1, <1>2, Kept
<1> QED BY <1>3 DEF ReachesOf

\* A function begins.
LEMMA Begun ==
    ASSUME NEW t \in Trails, NEW x \in Node, x.what \in Starts
    PROVE  /\ StartOf(Append(t, x), Len(t) + 1) = Len(t) + 1
           /\ DepthOf(Append(t, x), Len(t) + 1) = 0
           /\ LoopsOf(Append(t, x), Len(t) + 1) = 0
<1> DEFINE u == Append(t, x)
           n == Len(t)
<1>1. n \in Nat /\ u[n + 1] = x
  BY DEF Trails
<1>2. StartOf(u, n + 1) = n + 1
  <2>1. \A j \in 1..(n + 1) : j <= n + 1
    BY <1>1
  <2>2. n + 1 \in Nat /\ n + 1 \in 1..(n + 1)
    BY <1>1
  <2> HIDE DEF u, n
  <2> QED BY <1>1, <2>1, <2>2, StartIsIt
<1>3. \A what : what \notin Starts => Events(u, n + 1, n + 1, what) = {}
  BY <1>1 DEF Events
<1>4. \A what \in {"block", "close", "while", "end"} :
          Cardinality(Events(u, n + 1, n + 1, what)) = 0
  <2> HIDE DEF u, n
  <2> QED BY <1>3, FS_EmptySet DEF Starts
<1> HIDE DEF u, n
<1>5. DepthOf(u, n + 1) = 0 /\ LoopsOf(u, n + 1) = 0
  BY <1>2, <1>4 DEF DepthOf, LoopsOf
<1> QED BY <1>2, <1>5 DEF u, n

Shift(what) == IF what = "block" THEN 1 ELSE IF what = "close" THEN -1 ELSE 0
Turn(what) == IF what = "while" THEN 1 ELSE IF what = "end" THEN -1 ELSE 0

\* A function goes on.
LEMMA Continues ==
    ASSUME NEW t \in Trails, NEW x \in Node, x.what \notin Starts, t # <<>>
    PROVE  /\ StartOf(Append(t, x), Len(t) + 1) = StartOf(t, Len(t))
           /\ DepthOf(Append(t, x), Len(t) + 1) = DepthOf(t, Len(t)) + Shift(x.what)
           /\ LoopsOf(Append(t, x), Len(t) + 1) = LoopsOf(t, Len(t)) + Turn(x.what)
<1> DEFINE u == Append(t, x)
           n == Len(t)
           s == StartOf(t, n)
<1>1. n \in Nat /\ n \in 1..n /\ u[n + 1] = x /\ \A j \in 1..n : u[j] = t[j]
  BY DEF Trails
<1>2. s \in 1..n /\ t[s].what \in Starts /\ \A j \in 1..n : t[j].what \in Starts => j <= s
  <2> HIDE DEF n
  <2>1. n = Len(t)
    BY DEF n
  <2> QED BY <1>1, <2>1, StartIs
<1> HIDE DEF u, n, s
<1>3. StartOf(u, n + 1) = s
  <2>1. n + 1 \in Nat /\ s \in 1..(n + 1) /\ u[s].what \in Starts
    BY <1>1, <1>2
  <2>2. \A j \in 1..(n + 1) : u[j].what \in Starts => j <= s
    <3> SUFFICES ASSUME NEW j \in 1..(n + 1), u[j].what \in Starts PROVE j <= s
      OBVIOUS
    <3>1. j # n + 1
      BY <1>1
    <3>2. j \in 1..n
      BY <1>1, <3>1
    <3> QED BY <1>1, <1>2, <3>2
  <2> QED BY <2>1, <2>2, StartIsIt
<1>4. \A what : Events(u, s, n, what) = Events(t, s, n, what)
  BY <1>1, <1>2 DEF Events
<1>5. \A what : /\ Cardinality(Events(t, s, n, what)) \in Nat
                /\ Cardinality(Events(u, s, n + 1, what)) =
                       IF x.what = what THEN Cardinality(Events(t, s, n, what)) + 1
                       ELSE Cardinality(Events(t, s, n, what))
  <2> SUFFICES ASSUME NEW what
               PROVE  /\ Cardinality(Events(t, s, n, what)) \in Nat
                      /\ Cardinality(Events(u, s, n + 1, what)) =
                             IF x.what = what THEN Cardinality(Events(t, s, n, what)) + 1
                             ELSE Cardinality(Events(t, s, n, what))
    OBVIOUS
  <2>1. s \in Int /\ n \in Int /\ s <= n + 1
    BY <1>1, <1>2
  <2>2. Cardinality(Events(t, s, n, what)) \in Nat
    BY <2>1, EventsAre
  <2>3. Cardinality(Events(u, s, n + 1, what)) =
            IF u[n + 1].what = what THEN Cardinality(Events(u, s, n, what)) + 1
            ELSE Cardinality(Events(u, s, n, what))
    BY <2>1, EventsGrow
  <2> QED BY <1>1, <1>4, <2>2, <2>3
<1>6. /\ DepthOf(t, n) = Cardinality(Events(t, s, n, "block"))
                         - Cardinality(Events(t, s, n, "close"))
      /\ LoopsOf(t, n) = Cardinality(Events(t, s, n, "while"))
                         - Cardinality(Events(t, s, n, "end"))
      /\ DepthOf(u, n + 1) = Cardinality(Events(u, s, n + 1, "block"))
                             - Cardinality(Events(u, s, n + 1, "close"))
      /\ LoopsOf(u, n + 1) = Cardinality(Events(u, s, n + 1, "while"))
                             - Cardinality(Events(u, s, n + 1, "end"))
  BY <1>3 DEF DepthOf, LoopsOf, s
<1>7. DepthOf(u, n + 1) = DepthOf(t, n) + Shift(x.what)
  BY <1>5, <1>6 DEF Shift
<1>8. LoopsOf(u, n + 1) = LoopsOf(t, n) + Turn(x.what)
  BY <1>5, <1>6 DEF Turn
<1> QED BY <1>3, <1>7, <1>8 DEF u, n, s

-----------------------------------------------------------------------------
(* What is declared at the end of a trail.                                 *)

\* The variables and parameters a name may stand for there.
Visible(t, name) == {d \in 1..Len(t) : /\ t[d].what = "decl" /\ t[d].name = name
                                       /\ ReachesOf(t, d, Len(t))}
Given(t, name) == {d \in 1..Len(t) : /\ t[d].what = "param" /\ t[d].name = name
                                     /\ d > StartOf(t, Len(t))}

LEMMA VisibleIs ==
    ASSUME NEW t \in Trails, NEW name, NEW d \in Visible(t, name)
    PROVE  /\ d \in 1..Len(t) /\ t # <<>> /\ DepthOf(t, d) \in Int
           /\ \A j \in d..Len(t) : DepthOf(t, d) <= DepthOf(t, j) /\ DepthOf(t, j) \in Int
<1>1. d \in 1..Len(t) /\ Len(t) \in Nat /\ t # <<>>
  BY DEF Visible, Trails
<1>2. \A j \in d..Len(t) : DepthOf(t, j) >= DepthOf(t, d)
  BY DEF Visible, ReachesOf
<1>3. \A j \in 1..Len(t) : DepthOf(t, j) \in Int
  BY DepthsAre
<1>4. \A j \in d..Len(t) : j \in 1..Len(t)
  BY <1>1
<1>5. \A j \in d..Len(t) : DepthOf(t, d) <= DepthOf(t, j) /\ DepthOf(t, j) \in Int
  <2> SUFFICES ASSUME NEW j \in d..Len(t)
               PROVE  DepthOf(t, d) <= DepthOf(t, j) /\ DepthOf(t, j) \in Int
    OBVIOUS
  <2>1. DepthOf(t, j) >= DepthOf(t, d) /\ DepthOf(t, j) \in Int /\ DepthOf(t, d) \in Int
    BY <1>1, <1>2, <1>3, <1>4
  <2> QED BY <2>1
<1> QED BY <1>1, <1>3, <1>5

LEMMA ReachesFurther ==
    ASSUME NEW t \in Trails, NEW x \in Node, x.what \notin Starts, t # <<>>,
           NEW d \in 1..Len(t)
    PROVE  ReachesOf(Append(t, x), d, Len(t) + 1) <=>
               /\ ReachesOf(t, d, Len(t))
               /\ DepthOf(t, Len(t)) + Shift(x.what) >= DepthOf(t, d)
<1> DEFINE u == Append(t, x)
           n == Len(t)
<1>1. n \in Nat /\ n \in 1..n /\ d \in 1..n
  BY DEF Trails
<1>2. /\ StartOf(u, n + 1) = StartOf(t, n)
      /\ DepthOf(u, n + 1) = DepthOf(t, n) + Shift(x.what)
  BY Continues
<1>3. \A j \in 1..n : StartOf(u, j) = StartOf(t, j) /\ DepthOf(u, j) = DepthOf(t, j)
  BY Kept
<1>4. \A j : j \in d..(n + 1) <=> j \in d..n \/ j = n + 1
  BY <1>1
<1>5. \A j \in d..n : j \in 1..n
  BY <1>1
<1> HIDE DEF u, n
<1>6. StartOf(u, d) = StartOf(u, n + 1) <=> StartOf(t, d) = StartOf(t, n)
  BY <1>1, <1>2, <1>3
<1>7. (\A j \in d..(n + 1) : DepthOf(u, j) >= DepthOf(u, d)) <=>
          /\ \A j \in d..n : DepthOf(t, j) >= DepthOf(t, d)
          /\ DepthOf(t, n) + Shift(x.what) >= DepthOf(t, d)
  BY <1>1, <1>2, <1>3, <1>4, <1>5
<1>8. ReachesOf(u, d, n + 1) <=>
          /\ ReachesOf(t, d, n)
          /\ DepthOf(t, n) + Shift(x.what) >= DepthOf(t, d)
  BY <1>6, <1>7 DEF ReachesOf
<1> QED BY <1>8 DEF u, n

\* A declaration reaches itself.
LEMMA ReachesItself ==
    ASSUME NEW t \in Trails, NEW d \in 1..Len(t)
    PROVE  ReachesOf(t, d, d)
<1>1. \A j \in d..d : j = d
  OBVIOUS
<1>2. DepthOf(t, d) >= DepthOf(t, d)
  BY DepthsAre
<1> QED BY <1>1, <1>2 DEF ReachesOf

LEMMA VisibleNext ==
    ASSUME NEW t \in Trails, NEW x \in Node, x.what \notin Starts, t # <<>>, NEW name
    PROVE  Visible(Append(t, x), name) =
               {d \in Visible(t, name) :
                    DepthOf(t, Len(t)) + Shift(x.what) >= DepthOf(t, d)}
               \cup (IF x.what = "decl" /\ x.name = name THEN {Len(t) + 1} ELSE {})
<1> DEFINE u == Append(t, x)
           n == Len(t)
<1>1. /\ n \in Nat /\ n \in 1..n /\ Len(u) = n + 1 /\ u \in Trails
      /\ u[n + 1] = x /\ \A j \in 1..n : u[j] = t[j]
  BY TrailsAre
<1>2. \A d \in 1..n : ReachesOf(u, d, n + 1) <=>
                          /\ ReachesOf(t, d, n)
                          /\ DepthOf(t, n) + Shift(x.what) >= DepthOf(t, d)
  BY ReachesFurther
<1>3. ReachesOf(u, n + 1, n + 1)
  <2> HIDE DEF u, n
  <2>1. n + 1 \in 1..Len(u)
    BY <1>1
  <2> QED BY <1>1, <2>1, ReachesItself
<1>4. Visible(t, name) = {d \in 1..n : /\ t[d].what = "decl" /\ t[d].name = name
                                       /\ ReachesOf(t, d, n)}
  BY DEF Visible
<1>5. Visible(u, name) = {d \in 1..(n + 1) : /\ u[d].what = "decl" /\ u[d].name = name
                                             /\ ReachesOf(u, d, n + 1)}
  BY <1>1 DEF Visible
<1> HIDE DEF u, n
<1>6. \A d : d \in 1..(n + 1) <=> d \in 1..n \/ d = n + 1
  BY <1>1
<1>7. \A d : d \in Visible(u, name) <=>
             \/ /\ d \in Visible(t, name)
                /\ DepthOf(t, n) + Shift(x.what) >= DepthOf(t, d)
             \/ d = n + 1 /\ x.what = "decl" /\ x.name = name
  BY <1>1, <1>2, <1>3, <1>4, <1>5, <1>6
<1>8. Visible(u, name) =
          {d \in Visible(t, name) : DepthOf(t, n) + Shift(x.what) >= DepthOf(t, d)}
          \cup (IF x.what = "decl" /\ x.name = name THEN {n + 1} ELSE {})
  BY <1>7
<1> QED BY <1>8 DEF u, n

LEMMA GivenNext ==
    ASSUME NEW t \in Trails, NEW x \in Node, x.what \notin Starts, t # <<>>, NEW name
    PROVE  Given(Append(t, x), name) =
               Given(t, name)
               \cup (IF x.what = "param" /\ x.name = name THEN {Len(t) + 1} ELSE {})
<1> DEFINE u == Append(t, x)
           n == Len(t)
<1>1. /\ n \in Nat /\ n \in 1..n /\ Len(u) = n + 1
      /\ u[n + 1] = x /\ \A j \in 1..n : u[j] = t[j]
  BY TrailsAre
<1>2. StartOf(u, n + 1) = StartOf(t, n) /\ StartOf(t, n) \in 1..n
  <2>1. StartOf(u, n + 1) = StartOf(t, n)
    BY Continues
  <2>2. StartOf(t, n) \in 1..n
    BY <1>1, StartIs
  <2> QED BY <2>1, <2>2
<1>3. Given(t, name) = {d \in 1..n : /\ t[d].what = "param" /\ t[d].name = name
                                     /\ d > StartOf(t, n)}
  BY DEF Given
<1>4. Given(u, name) = {d \in 1..(n + 1) : /\ u[d].what = "param" /\ u[d].name = name
                                           /\ d > StartOf(t, n)}
  BY <1>1, <1>2 DEF Given
<1> HIDE DEF u, n
<1>5. \A d : d \in 1..(n + 1) <=> d \in 1..n \/ d = n + 1
  BY <1>1
<1>6. n + 1 > StartOf(t, n)
  BY <1>1, <1>2
<1>7. \A d : d \in Given(u, name) <=>
             d \in Given(t, name) \/ (d = n + 1 /\ x.what = "param" /\ x.name = name)
  BY <1>1, <1>3, <1>4, <1>5, <1>6
<1>8. Given(u, name) =
          Given(t, name) \cup (IF x.what = "param" /\ x.name = name THEN {n + 1} ELSE {})
  BY <1>7
<1> QED BY <1>8 DEF u, n

\* Nothing is, where a function begins.
LEMMA NothingAtFirst ==
    ASSUME NEW t \in Trails, NEW x \in Node, x.what \in Starts, NEW name
    PROVE  Visible(Append(t, x), name) = {} /\ Given(Append(t, x), name) = {}
<1> DEFINE u == Append(t, x)
           n == Len(t)
<1>1. /\ n \in Nat /\ Len(u) = n + 1 /\ u[n + 1] = x /\ u \in Trails
      /\ x.what # "decl" /\ x.what # "param"
  BY TrailsAre DEF Starts
<1>2. StartOf(u, n + 1) = n + 1
  BY Begun
<1> HIDE DEF u, n
<1>3. \A d \in 1..(n + 1) : StartOf(u, d) \in 1..d
  BY <1>1, StartIs
<1>4. Visible(u, name) = {}
  <2> SUFFICES ASSUME NEW d \in Visible(u, name) PROVE FALSE
    OBVIOUS
  <2>1. /\ d \in 1..(n + 1) /\ u[d].what = "decl"
        /\ StartOf(u, d) = n + 1
    BY <1>1, <1>2 DEF Visible, ReachesOf
  <2>2. d = n + 1
    BY <1>1, <1>3, <2>1
  <2> QED BY <1>1, <2>1, <2>2
<1>5. Given(u, name) = {}
  <2> SUFFICES ASSUME NEW d \in Given(u, name) PROVE FALSE
    OBVIOUS
  <2>1. d \in 1..(n + 1) /\ d > n + 1
    BY <1>1, <1>2 DEF Given
  <2> QED BY <1>1, <2>1
<1> QED BY <1>4, <1>5 DEF u, n

\* What Locals and Params find at a node is what is declared before it.
LEMMA FoundAt ==
    ASSUME NEW t \in Trails, NEW x \in Node, x.what \notin Starts, t # <<>>, NEW name,
           Shift(x.what) = 0
    PROVE  /\ LocalsOf(Append(t, x), name, Len(t) + 1) = Visible(t, name)
           /\ ParamsOf(Append(t, x), name, Len(t) + 1) = Given(t, name)
<1> DEFINE u == Append(t, x)
           n == Len(t)
<1>1. n \in Nat /\ n \in 1..n /\ (\A j \in 1..n : u[j] = t[j]) /\ n + 1 - 1 = n
  BY TrailsAre
<1>2. StartOf(u, n + 1) = StartOf(t, n)
  BY Continues
<1>3. \A d \in 1..n : ReachesOf(u, d, n + 1) <=>
                          /\ ReachesOf(t, d, n)
                          /\ DepthOf(t, n) + Shift(x.what) >= DepthOf(t, d)
  BY ReachesFurther
<1>4. \A d \in 1..n : ReachesOf(t, d, n) => DepthOf(t, n) + Shift(x.what) >= DepthOf(t, d)
  <2> SUFFICES ASSUME NEW d \in 1..n, ReachesOf(t, d, n)
               PROVE  DepthOf(t, n) + Shift(x.what) >= DepthOf(t, d)
    OBVIOUS
  <2>1. n \in d..n
    BY <1>1
  <2>2. DepthOf(t, n) >= DepthOf(t, d)
    BY <2>1 DEF ReachesOf
  <2>3. DepthOf(t, n) \in Int
    BY <1>1, DepthsAre
  <2> QED BY <2>2, <2>3
<1>5. Visible(t, name) = {d \in 1..n : /\ t[d].what = "decl" /\ t[d].name = name
                                       /\ ReachesOf(t, d, n)}
  BY DEF Visible
<1>6. Given(t, name) = {d \in 1..n : /\ t[d].what = "param" /\ t[d].name = name
                                     /\ d > StartOf(t, n)}
  BY DEF Given
<1> HIDE DEF u, n
<1>7. LocalsOf(u, name, n + 1) = Visible(t, name)
  BY <1>1, <1>3, <1>4, <1>5 DEF LocalsOf
<1>8. ParamsOf(u, name, n + 1) = Given(t, name)
  BY <1>1, <1>2, <1>6 DEF ParamsOf
<1> QED BY <1>7, <1>8 DEF u, n

-----------------------------------------------------------------------------
(* The symbol table holds what is declared, and nothing else.              *)

TrailNames == Names \cup {"-"}

\* m_blocks: block b of the stack has the declarations b - 1 blocks deep.
BlocksAt(t, B) ==
    /\ \A name \in TrailNames : \A d \in Visible(t, name) :
          /\ DepthOf(t, d) + 1 \in 1..Len(B)
          /\ name \in DOMAIN B[DepthOf(t, d) + 1]
          /\ B[DepthOf(t, d) + 1][name] = Var(MaxGlobals + d)
    /\ \A b \in 1..Len(B) : \A name \in DOMAIN B[b] :
          \E d \in Visible(t, name) : DepthOf(t, d) = b - 1

\* m_func.
ParamsAt(t, f) ==
    /\ \A name \in TrailNames : \A d \in Given(t, name) :
          name \in DOMAIN f /\ f[name] = Var(MaxGlobals + d)
    /\ \A name \in DOMAIN f : Given(t, name) # {}

\* Nodes that leave no block.
LEMMA VisibleStays ==
    ASSUME NEW t \in Trails, NEW x \in Node, x.what \notin Starts, t # <<>>,
           x.what # "close", NEW name
    PROVE  /\ Visible(Append(t, x), name) =
                  Visible(t, name)
                  \cup (IF x.what = "decl" /\ x.name = name THEN {Len(t) + 1} ELSE {})
           /\ \A d \in Visible(t, name) : DepthOf(Append(t, x), d) = DepthOf(t, d)
<1>1. \A d \in Visible(t, name) :
          /\ DepthOf(t, Len(t)) + Shift(x.what) >= DepthOf(t, d)
          /\ DepthOf(Append(t, x), d) = DepthOf(t, d)
  <2> SUFFICES ASSUME NEW d \in Visible(t, name)
               PROVE  /\ DepthOf(t, Len(t)) + Shift(x.what) >= DepthOf(t, d)
                      /\ DepthOf(Append(t, x), d) = DepthOf(t, d)
    OBVIOUS
  <2>1. /\ d \in 1..Len(t) /\ DepthOf(t, d) \in Int
        /\ \A j \in d..Len(t) : DepthOf(t, d) <= DepthOf(t, j) /\ DepthOf(t, j) \in Int
    BY VisibleIs
  <2>2. Len(t) \in d..Len(t)
    BY <2>1 DEF Trails
  <2>3. Shift(x.what) \in {0, 1}
    BY DEF Shift
  <2>4. DepthOf(t, d) <= DepthOf(t, Len(t)) /\ DepthOf(t, Len(t)) \in Int
    BY <2>1, <2>2
  <2>5. DepthOf(Append(t, x), d) = DepthOf(t, d)
    BY <2>1, Kept
  <2> QED BY <2>1, <2>3, <2>4, <2>5
<1>2. Visible(Append(t, x), name) =
          {d \in Visible(t, name) : DepthOf(t, Len(t)) + Shift(x.what) >= DepthOf(t, d)}
          \cup (IF x.what = "decl" /\ x.name = name THEN {Len(t) + 1} ELSE {})
  BY VisibleNext
<1> QED BY <1>1, <1>2

LEMMA BlocksSame ==
    ASSUME NEW t \in Trails, NEW x \in Node, x.what \notin Starts \cup {"close", "decl"},
           t # <<>>, NEW B, BlocksAt(t, B)
    PROVE  BlocksAt(Append(t, x), B)
<1>1. \A name : /\ Visible(Append(t, x), name) = Visible(t, name)
                /\ \A d \in Visible(t, name) : DepthOf(Append(t, x), d) = DepthOf(t, d)
  <2>1. x.what \notin Starts /\ x.what # "close" /\ x.what # "decl"
    OBVIOUS
  <2>2. \A name : Visible(t, name) \cup {} = Visible(t, name)
    OBVIOUS
  <2> QED BY <2>1, <2>2, VisibleStays
<1> QED BY <1>1 DEF BlocksAt

\* enter_block().
LEMMA BlocksPush ==
    ASSUME NEW t \in Trails, NEW B \in Seq(ScopeSet), BlocksAt(t, B)
    PROVE  BlocksAt(t, Append(B, Empty))
<1> DEFINE C == Append(B, Empty)
<1>1. /\ Len(B) \in Nat /\ Len(C) = Len(B) + 1 /\ C[Len(B) + 1] = Empty
      /\ \A b \in 1..Len(B) : C[b] = B[b]
  OBVIOUS
<1>2. DOMAIN Empty = {}
  BY DEF Empty
<1> HIDE DEF C
<1>3. \A name \in TrailNames : \A d \in Visible(t, name) :
          /\ DepthOf(t, d) + 1 \in 1..Len(B)
          /\ name \in DOMAIN B[DepthOf(t, d) + 1]
          /\ B[DepthOf(t, d) + 1][name] = Var(MaxGlobals + d)
  BY DEF BlocksAt
<1>4. \A name \in TrailNames : \A d \in Visible(t, name) :
          /\ DepthOf(t, d) + 1 \in 1..Len(C)
          /\ name \in DOMAIN C[DepthOf(t, d) + 1]
          /\ C[DepthOf(t, d) + 1][name] = Var(MaxGlobals + d)
  <2>1. \A b \in 1..Len(B) : b \in 1..Len(C)
    BY <1>1
  <2> QED BY <1>1, <1>3, <2>1
<1>5. \A b \in 1..Len(C) : \A name \in DOMAIN C[b] :
          \E d \in Visible(t, name) : DepthOf(t, d) = b - 1
  <2> SUFFICES ASSUME NEW b \in 1..Len(C), NEW name \in DOMAIN C[b]
               PROVE  \E d \in Visible(t, name) : DepthOf(t, d) = b - 1
    OBVIOUS
  <2>1. b # Len(B) + 1
    BY <1>1, <1>2
  <2>2. b \in 1..Len(B) /\ C[b] = B[b]
    BY <1>1, <2>1
  <2> QED BY <2>2 DEF BlocksAt
<1>6. BlocksAt(t, C)
  BY <1>4, <1>5 DEF BlocksAt
<1> QED BY <1>6 DEF C

\* exit_block().
LEMMA BlocksClose ==
    ASSUME NEW t \in Trails, NEW x \in Node, x.what = "close", t # <<>>,
           NEW B \in Seq(ScopeSet), B # <<>>, BlocksAt(t, B),
           DepthOf(t, Len(t)) = Len(B) - 1
    PROVE  BlocksAt(Append(t, x), Pop(B))
<1> DEFINE u == Append(t, x)
           C == Pop(B)
<1>1. /\ Len(B) \in Nat /\ Len(C) = Len(B) - 1
      /\ \A b \in 1..(Len(B) - 1) : C[b] = B[b]
  BY PopIs
<1>2. x.what \notin Starts /\ x.what # "decl" /\ Shift(x.what) = -1
  BY DEF Starts, Shift
<1>3. \A name : Visible(u, name) =
          {d \in Visible(t, name) : Len(B) - 1 + (-1) >= DepthOf(t, d)}
  BY <1>2, VisibleNext
<1>4. \A name : \A d \in Visible(t, name) :
          DepthOf(u, d) = DepthOf(t, d) /\ DepthOf(t, d) \in Int
  BY VisibleIs, Kept
<1> HIDE DEF u, C
<1>5. \A name \in TrailNames : \A d \in Visible(u, name) :
          /\ DepthOf(u, d) + 1 \in 1..Len(C)
          /\ name \in DOMAIN C[DepthOf(u, d) + 1]
          /\ C[DepthOf(u, d) + 1][name] = Var(MaxGlobals + d)
  <2> SUFFICES ASSUME NEW name \in TrailNames, NEW d \in Visible(u, name)
               PROVE  /\ DepthOf(u, d) + 1 \in 1..Len(C)
                      /\ name \in DOMAIN C[DepthOf(u, d) + 1]
                      /\ C[DepthOf(u, d) + 1][name] = Var(MaxGlobals + d)
    OBVIOUS
  <2>1. d \in Visible(t, name) /\ Len(B) - 1 + (-1) >= DepthOf(t, d)
    BY <1>3
  <2>2. DepthOf(u, d) = DepthOf(t, d) /\ DepthOf(t, d) \in Int
    BY <1>4, <2>1
  <2>3. /\ DepthOf(t, d) + 1 \in 1..Len(B)
        /\ name \in DOMAIN B[DepthOf(t, d) + 1]
        /\ B[DepthOf(t, d) + 1][name] = Var(MaxGlobals + d)
    BY <2>1 DEF BlocksAt
  <2>4. DepthOf(t, d) + 1 \in 1..(Len(B) - 1)
    BY <1>1, <2>1, <2>2, <2>3
  <2>5. C[DepthOf(t, d) + 1] = B[DepthOf(t, d) + 1]
    BY <1>1, <2>4
  <2> QED BY <1>1, <2>2, <2>3, <2>4, <2>5
<1>6. \A b \in 1..Len(C) : \A name \in DOMAIN C[b] :
          \E d \in Visible(u, name) : DepthOf(u, d) = b - 1
  <2> SUFFICES ASSUME NEW b \in 1..Len(C), NEW name \in DOMAIN C[b]
               PROVE  \E d \in Visible(u, name) : DepthOf(u, d) = b - 1
    OBVIOUS
  <2>1. b \in 1..Len(B) /\ b <= Len(B) - 1 /\ C[b] = B[b] /\ b \in Nat
    BY <1>1
  <2>2. PICK d \in Visible(t, name) : DepthOf(t, d) = b - 1
    BY <2>1 DEF BlocksAt
  <2>3. Len(B) - 1 + (-1) >= DepthOf(t, d)
    BY <1>1, <2>1, <2>2
  <2>4. d \in Visible(u, name)
    BY <1>3, <2>3
  <2> QED BY <1>4, <2>2, <2>4
<1>7. BlocksAt(u, C)
  BY <1>5, <1>6 DEF BlocksAt
<1> QED BY <1>7 DEF u, C

\* insert(Scope::BLOCK, ...).
LEMMA BlocksDecl ==
    ASSUME NEW t \in Trails, NEW x \in Node, x.what = "decl", t # <<>>,
           NEW B \in Seq(ScopeSet), B # <<>>, BlocksAt(t, B),
           DepthOf(t, Len(t)) = Len(B) - 1,
           x.name \in Names, x.name \notin DOMAIN B[Len(B)]
    PROVE  BlocksAt(Append(t, x),
                    Append(Pop(B), Insert(B[Len(B)], x.name,
                                          Var(MaxGlobals + (Len(t) + 1)))))
<1> DEFINE u == Append(t, x)
           n == Len(t)
           m == Insert(B[Len(B)], x.name, Var(MaxGlobals + (n + 1)))
           C == Append(Pop(B), m)
<1>1. /\ Len(B) \in Nat /\ Len(B) \in 1..Len(B) /\ Len(C) = Len(B) /\ C[Len(B)] = m
      /\ \A b \in 1..(Len(B) - 1) : C[b] = B[b]
  <2>1. Pop(B) \in Seq(ScopeSet) /\ Len(Pop(B)) = Len(B) - 1
        /\ \A i \in 1..(Len(B) - 1) : Pop(B)[i] = B[i]
    BY PopIs
  <2>2. Len(B) \in Nat /\ Len(B) \in 1..Len(B)
    OBVIOUS
  <2> HIDE DEF m
  <2> QED BY <2>1, <2>2
<1>2. /\ DOMAIN m = DOMAIN B[Len(B)] \cup {x.name}
      /\ \A name \in DOMAIN B[Len(B)] : m[name] = B[Len(B)][name]
      /\ m[x.name] = Var(MaxGlobals + (n + 1))
  BY DEF Insert
<1>3. x.what \notin Starts /\ x.what # "close" /\ Shift(x.what) = 0
  BY DEF Starts, Shift
<1>4. \A name : /\ Visible(u, name) = Visible(t, name)
                                      \cup (IF x.name = name THEN {n + 1} ELSE {})
                /\ \A d \in Visible(t, name) : DepthOf(u, d) = DepthOf(t, d)
  BY <1>3, VisibleStays
<1>5. DepthOf(u, n + 1) = Len(B) - 1
  BY <1>1, <1>3, Continues
<1> HIDE DEF u, n, m, C
<1>6. \A name \in TrailNames : \A d \in Visible(u, name) :
          /\ DepthOf(u, d) + 1 \in 1..Len(C)
          /\ name \in DOMAIN C[DepthOf(u, d) + 1]
          /\ C[DepthOf(u, d) + 1][name] = Var(MaxGlobals + d)
  <2> SUFFICES ASSUME NEW name \in TrailNames, NEW d \in Visible(u, name)
               PROVE  /\ DepthOf(u, d) + 1 \in 1..Len(C)
                      /\ name \in DOMAIN C[DepthOf(u, d) + 1]
                      /\ C[DepthOf(u, d) + 1][name] = Var(MaxGlobals + d)
    OBVIOUS
  <2>1. CASE d \in Visible(t, name)
    <3>1. DepthOf(u, d) = DepthOf(t, d)
      BY <1>4, <2>1
    <3>2. /\ DepthOf(t, d) + 1 \in 1..Len(B)
          /\ name \in DOMAIN B[DepthOf(t, d) + 1]
          /\ B[DepthOf(t, d) + 1][name] = Var(MaxGlobals + d)
      BY <2>1 DEF BlocksAt
    <3>3. CASE DepthOf(t, d) + 1 = Len(B)
      BY <1>1, <1>2, <3>1, <3>2, <3>3
    <3>4. CASE DepthOf(t, d) + 1 # Len(B)
      <4>1. DepthOf(t, d) + 1 \in 1..(Len(B) - 1)
        BY <1>1, <3>2, <3>4
      <4> QED BY <1>1, <3>1, <3>2, <4>1
    <3> QED BY <3>3, <3>4
  <2>2. CASE d \notin Visible(t, name)
    <3>1. d = n + 1 /\ name = x.name
      BY <1>4, <2>2
    <3>2. DepthOf(u, d) + 1 = Len(B)
      BY <1>1, <1>5, <3>1
    <3> QED BY <1>1, <1>2, <3>1, <3>2
  <2> QED BY <2>1, <2>2
<1>7. \A b \in 1..Len(C) : \A name \in DOMAIN C[b] :
          \E d \in Visible(u, name) : DepthOf(u, d) = b - 1
  <2> SUFFICES ASSUME NEW b \in 1..Len(C), NEW name \in DOMAIN C[b]
               PROVE  \E d \in Visible(u, name) : DepthOf(u, d) = b - 1
    OBVIOUS
  <2>1. b \in 1..Len(B)
    BY <1>1
  <2>2. CASE name \in DOMAIN B[b]
    <3>1. PICK d \in Visible(t, name) : DepthOf(t, d) = b - 1
      BY <2>1, <2>2 DEF BlocksAt
    <3> QED BY <1>4, <3>1
  <2>3. CASE name \notin DOMAIN B[b]
    <3>1. b = Len(B)
      <4>1. b # Len(B) => b \in 1..(Len(B) - 1)
        BY <1>1, <2>1
      <4> QED BY <1>1, <2>3, <4>1
    <3>2. name = x.name
      BY <1>1, <1>2, <2>3, <3>1
    <3>3. n + 1 \in Visible(u, name)
      BY <1>4, <3>2
    <3> QED BY <1>5, <3>1, <3>3
  <2> QED BY <2>2, <2>3
<1>8. BlocksAt(u, C)
  BY <1>6, <1>7 DEF BlocksAt
<1> QED BY <1>8 DEF u, n, m, C

LEMMA ParamsSame ==
    ASSUME NEW t \in Trails, NEW x \in Node, x.what \notin Starts \cup {"param"},
           t # <<>>, NEW f, ParamsAt(t, f)
    PROVE  ParamsAt(Append(t, x), f)
<1>1. \A name : Given(Append(t, x), name) = Given(t, name)
  <2>1. x.what \notin Starts /\ x.what # "param"
    OBVIOUS
  <2>2. \A name : Given(t, name) \cup {} = Given(t, name)
    OBVIOUS
  <2> QED BY <2>1, <2>2, GivenNext
<1> QED BY <1>1 DEF ParamsAt

\* insert(Scope::FUNC, ...).
LEMMA ParamsAdd ==
    ASSUME NEW t \in Trails, NEW x \in Node, x.what = "param", t # <<>>,
           NEW f \in ScopeSet, ParamsAt(t, f), x.name \in Names, x.name \notin DOMAIN f
    PROVE  ParamsAt(Append(t, x), Insert(f, x.name, Var(MaxGlobals + (Len(t) + 1))))
<1> DEFINE u == Append(t, x)
           n == Len(t)
           m == Insert(f, x.name, Var(MaxGlobals + (n + 1)))
<1>1. /\ DOMAIN m = DOMAIN f \cup {x.name}
      /\ \A name \in DOMAIN f : m[name] = f[name]
      /\ m[x.name] = Var(MaxGlobals + (n + 1))
  BY DEF Insert
<1>2. \A name : Given(u, name) = Given(t, name) \cup (IF x.name = name THEN {n + 1} ELSE {})
  BY GivenNext DEF Starts
<1> HIDE DEF u, n, m
<1>3. \A name \in TrailNames : \A d \in Given(u, name) :
          name \in DOMAIN m /\ m[name] = Var(MaxGlobals + d)
  <2> SUFFICES ASSUME NEW name \in TrailNames, NEW d \in Given(u, name)
               PROVE  name \in DOMAIN m /\ m[name] = Var(MaxGlobals + d)
    OBVIOUS
  <2>1. CASE d \in Given(t, name)
    BY <1>1, <2>1 DEF ParamsAt
  <2>2. CASE d \notin Given(t, name)
    BY <1>1, <1>2, <2>2
  <2> QED BY <2>1, <2>2
<1>4. \A name \in DOMAIN m : Given(u, name) # {}
  BY <1>1, <1>2 DEF ParamsAt
<1>5. ParamsAt(u, m)
  BY <1>3, <1>4 DEF ParamsAt
<1> QED BY <1>5 DEF u, n, m

\* A function begins with no variables and no parameters.
LEMMA NothingYet ==
    ASSUME NEW t \in Trails, NEW x \in Node, x.what \in Starts
    PROVE  BlocksAt(Append(t, x), <<>>) /\ ParamsAt(Append(t, x), Empty)
<1>1. \A name : Visible(Append(t, x), name) = {} /\ Given(Append(t, x), name) = {}
  BY NothingAtFirst
<1>2. Len(<<>>) = 0 /\ 1..0 = {} /\ DOMAIN Empty = {}
  BY DEF Empty
<1> QED BY <1>1, <1>2 DEF BlocksAt, ParamsAt

-----------------------------------------------------------------------------
(* What a name stands for, and what is legal, for any trail and globals.   *)

GloballyOf(p, name) == {g \in DOMAIN p : p[g].name = name}
ResolveOf(t, p, name, k) ==
    IF LocalsOf(t, name, k) # {} THEN t[Max(LocalsOf(t, name, k))].line
    ELSE IF ParamsOf(t, name, k) # {} THEN t[Max(ParamsOf(t, name, k))].line
    ELSE IF GloballyOf(p, name) # {} THEN Max(GloballyOf(p, name))
    ELSE IF name \in RtsNames THEN 0
    ELSE NoLine
VarOf(p, line) == line > MaxGlobals \/ (line > 0 /\ p[line].kind = "var")
MainOf(p, line) == line \in 1..MaxGlobals /\ p[line].kind = "main"

LegalOf(t, p, k) ==
    LET what == t[k].what
        name == t[k].name
        line == ResolveOf(t, p, name, k)
    IN  /\ what = "decl"  => \A d \in LocalsOf(t, name, k) : DepthOf(t, d) < DepthOf(t, k)
        /\ what = "param" => ParamsOf(t, name, k) = {}
        /\ what = "id"    => line # NoLine /\ VarOf(p, line)
        /\ what = "call"  => line # NoLine /\ ~VarOf(p, line) /\ ~MainOf(p, line)
        /\ what = "break" => LoopsOf(t, k) > 0
        /\ what = "main"  => Events(t, 1, k - 1, "main") = {}

LEMMA RulesAre ==
    ASSUME NEW k \in Nat
    PROVE  /\ \A name : Resolve(name, k) = ResolveOf(trail, program, name, k)
           /\ Legal(k) <=> LegalOf(trail, program, k)
<1>1. \A name : /\ Locals(name, k) = LocalsOf(trail, name, k)
                /\ Params(name, k) = ParamsOf(trail, name, k)
                /\ Globally(name) = GloballyOf(program, name)
  BY DefinitionsAre DEF Globally, GloballyOf
<1>2. \A name : Resolve(name, k) = ResolveOf(trail, program, name, k)
  BY <1>1 DEF Resolve, ResolveOf
<1>3. /\ \A d \in Nat : Depth(d) = DepthOf(trail, d)
      /\ Depth(k) = DepthOf(trail, k) /\ Loops(k) = LoopsOf(trail, k)
  BY DefinitionsAre
<1>4. \A name : \A d \in LocalsOf(trail, name, k) : d \in Nat
  BY DEF LocalsOf
<1>5. Before(k, "main") = Events(trail, 1, k - 1, "main")
  BY DEF Before, Events
<1>6. \A line : /\ DeclaresVar(line) <=> VarOf(program, line)
                /\ DeclaresMain(line) <=> MainOf(program, line)
  BY DEF DeclaresVar, VarOf, DeclaresMain, MainOf
<1>7. Legal(k) <=> LegalOf(trail, program, k)
  BY <1>1, <1>2, <1>3, <1>4, <1>5, <1>6 DEF Legal, LegalOf
<1> QED BY <1>2, <1>7

\* They do not change as the trail grows.
LEMMA RulesKept ==
    ASSUME NEW t \in Trails, NEW x \in Node, NEW k \in 1..Len(t), NEW p
    PROVE  /\ \A name : ResolveOf(Append(t, x), p, name, k) = ResolveOf(t, p, name, k)
           /\ LegalOf(Append(t, x), p, k) <=> LegalOf(t, p, k)
<1> DEFINE u == Append(t, x)
<1>1. /\ Len(t) \in Nat /\ k \in Nat /\ k - 1 \in Nat
      /\ \A j \in 1..Len(t) : u[j] = t[j]
  BY DEF Trails
<1>2. \A j \in 1..(k - 1) : j \in 1..Len(t) /\ j \in 1..k
  BY <1>1
<1>3. \A d \in 1..k : ReachesOf(u, d, k) <=> ReachesOf(t, d, k)
  BY ReachesKept
<1>4. StartOf(u, k) = StartOf(t, k) /\ DepthOf(u, k) = DepthOf(t, k)
      /\ LoopsOf(u, k) = LoopsOf(t, k)
  BY Kept
<1>5. \A d \in 1..Len(t) : DepthOf(u, d) = DepthOf(t, d)
  BY Kept
<1> HIDE DEF u
<1>6. \A name : LocalsOf(u, name, k) = LocalsOf(t, name, k)
  BY <1>1, <1>2, <1>3 DEF LocalsOf
<1>7. \A name : ParamsOf(u, name, k) = ParamsOf(t, name, k)
  BY <1>1, <1>2, <1>4 DEF ParamsOf
<1>8. \A name : /\ LocalsOf(t, name, k) \subseteq 1..(k - 1)
                /\ ParamsOf(t, name, k) \subseteq 1..(k - 1)
  BY DEF LocalsOf, ParamsOf
<1>9. \A S : S \subseteq 1..(k - 1) /\ S # {} => u[Max(S)] = t[Max(S)]
  <2> SUFFICES ASSUME NEW S, S \subseteq 1..(k - 1), S # {}
               PROVE  u[Max(S)] = t[Max(S)]
    OBVIOUS
  <2>1. Max(S) \in S
    BY <1>1, MaxIs
  <2> QED BY <1>1, <1>2, <2>1
<1>10. \A name : ResolveOf(u, p, name, k) = ResolveOf(t, p, name, k)
  <2> SUFFICES ASSUME NEW name
               PROVE  ResolveOf(u, p, name, k) = ResolveOf(t, p, name, k)
    OBVIOUS
  <2>1. /\ LocalsOf(t, name, k) # {} =>
               u[Max(LocalsOf(t, name, k))] = t[Max(LocalsOf(t, name, k))]
        /\ ParamsOf(t, name, k) # {} =>
               u[Max(ParamsOf(t, name, k))] = t[Max(ParamsOf(t, name, k))]
    BY <1>8, <1>9
  <2>2. LocalsOf(u, name, k) = LocalsOf(t, name, k) /\ ParamsOf(u, name, k) = ParamsOf(t, name, k)
    BY <1>6, <1>7
  <2> QED BY <2>1, <2>2 DEF ResolveOf
<1>11. Events(u, 1, k - 1, "main") = Events(t, 1, k - 1, "main")
  BY <1>1, <1>2 DEF Events
<1>12. \A name : \A d \in LocalsOf(t, name, k) : DepthOf(u, d) = DepthOf(t, d)
  BY <1>2, <1>5, <1>8
<1>13. LegalOf(u, p, k) <=> LegalOf(t, p, k)
  <2>1. u[k] = t[k]
    BY <1>1
  <2> QED BY <1>4, <1>6, <1>7, <1>10, <1>11, <1>12, <2>1 DEF LegalOf
<1> QED BY <1>10, <1>13 DEF u

\* What a name that is used next will stand for.
StandsFor(t, p, name) ==
    IF Visible(t, name) # {} THEN t[Max(Visible(t, name))].line
    ELSE IF Given(t, name) # {} THEN t[Max(Given(t, name))].line
    ELSE IF GloballyOf(p, name) # {} THEN Max(GloballyOf(p, name))
    ELSE IF name \in RtsNames THEN 0
    ELSE NoLine

LEMMA ResolveNext ==
    ASSUME NEW t \in Trails, NEW x \in Node, x.what \notin Starts, t # <<>>, NEW name,
           Shift(x.what) = 0, NEW p
    PROVE  ResolveOf(Append(t, x), p, name, Len(t) + 1) = StandsFor(t, p, name)
<1>1. /\ LocalsOf(Append(t, x), name, Len(t) + 1) = Visible(t, name)
      /\ ParamsOf(Append(t, x), name, Len(t) + 1) = Given(t, name)
  BY FoundAt
<1>2. Len(t) \in Nat /\ \A j \in 1..Len(t) : Append(t, x)[j] = t[j]
  BY DEF Trails
<1>3. Visible(t, name) \subseteq 1..Len(t) /\ Given(t, name) \subseteq 1..Len(t)
  BY DEF Visible, Given
<1>4. \A S : S \subseteq 1..Len(t) /\ S # {} => Append(t, x)[Max(S)] = t[Max(S)]
  BY <1>2, MaxIs
<1>5. /\ Visible(t, name) # {} =>
             Append(t, x)[Max(Visible(t, name))] = t[Max(Visible(t, name))]
      /\ Given(t, name) # {} => Append(t, x)[Max(Given(t, name))] = t[Max(Given(t, name))]
  BY <1>3, <1>4
<1> QED BY <1>1, <1>5 DEF ResolveOf, StandsFor

-----------------------------------------------------------------------------
(* The inductive invariant.                                                *)

\* What the trail is like.
TrailOK ==
    /\ trail # <<>> => trail[1].what \in Starts
    /\ frames # <<>> => trail # <<>>
    /\ phase = "globals" => trail = <<>>
    /\ \A d \in 1..Len(trail) :
          trail[d].what \in {"decl", "param"} => trail[d].line = MaxGlobals + d

\* The global scope holds the declarations so far.
SymbolOf(p, g) == IF p[g].kind = "var" THEN Var(g)
                  ELSE IF p[g].kind = "func" THEN Func(g) ELSE Main(g)
GlobalsOK ==
    /\ Len(program) <= MaxGlobals
    /\ phase # "rejected" =>
           /\ DOMAIN m_global = {program[g].name : g \in 1..Len(program)}
           /\ \A g \in 1..Len(program) :
                 m_global[program[g].name] = SymbolOf(program, g)

\* The blocks and parameters are those that reach the end of the trail.
ScopesOK ==
    phase # "rejected" /\ frames # <<>> =>
        /\ DepthOf(trail, Len(trail)) = IF phase = "params" THEN 0 ELSE Len(m_blocks) - 1
        /\ LoopsOf(trail, Len(trail)) = insideWhile
        /\ BlocksAt(trail, m_blocks)
        /\ ParamsAt(trail, m_func)

\* The main function has been visited, or is being visited.
MainSeen(t) == \E k \in 1..Len(t) : t[k].what = "main"
MainsOK ==
    phase # "rejected" =>
        IF frames # <<>> /\ frames[1] = "main" THEN MainSeen(trail)
        ELSE visitedMain <=> MainSeen(trail)

\* AnnotationsAreLexical and VerdictIsRight.
Annotated(t, p) ==
    \A k \in 1..Len(t) : t[k].what \in {"id", "call"} /\ t[k].line # NoLine =>
                          t[k].line = ResolveOf(t, p, t[k].name, k)
AllLegal(t, p) == /\ \A g, h \in 1..Len(p) : p[g].name = p[h].name => g = h
                  /\ \A k \in 1..Len(t) : LegalOf(t, p, k)
MainThere(p) == \E g \in 1..Len(p) : p[g].kind = "main"
VerdictOK ==
    /\ phase = "rejected" =>
           ~AllLegal(trail, program) \/ (next > Len(program) /\ ~MainThere(program))
    /\ phase # "rejected" => AllLegal(trail, program)
    /\ phase = "accepted" => MainThere(program)

Lex == /\ TrailOK /\ GlobalsOK /\ ScopesOK /\ MainsOK
       /\ Annotated(trail, program) /\ VerdictOK

-----------------------------------------------------------------------------
(* What a query finds.                                                     *)

LEMMA ConcatIs ==
    ASSUME NEW S, NEW a \in Seq(S), NEW b \in Seq(S)
    PROVE  /\ DOMAIN (a \o b) = 1..(Len(a) + Len(b))
           /\ \A i \in 1..Len(a) : (a \o b)[i] = a[i]
           /\ \A i \in 1..Len(b) : (a \o b)[Len(a) + i] = b[i]
<1>1. a \o b \in Seq(S) /\ Len(a \o b) = Len(a) + Len(b)
  OBVIOUS
<1>2. DOMAIN (a \o b) = 1..Len(a \o b)
  BY <1>1
<1>3. \A i \in 1..Len(a) : (a \o b)[i] = a[i]
  OBVIOUS
<1>4. \A i \in 1..Len(b) : (a \o b)[Len(a) + i] = b[i]
  OBVIOUS
<1> QED BY <1>1, <1>2, <1>3, <1>4

\* The scopes as a query looks into them.
LEMMA ScopesSeq ==
    ASSUME Types
    PROVE  /\ DOMAIN Scopes = 1..(Len(m_blocks) + 3) /\ Len(m_blocks) \in Nat
           /\ \A i \in 1..Len(m_blocks) : Scopes[i] = m_blocks[Len(m_blocks) + 1 - i]
           /\ Scopes[Len(m_blocks) + 1] = m_func
           /\ Scopes[Len(m_blocks) + 2] = m_global
           /\ Scopes[Len(m_blocks) + 3] = m_rts
<1> DEFINE I == Innermost(m_blocks)
           R == <<m_func, m_global, m_rts>>
           n == Len(m_blocks)
<1>1. n \in Nat
  BY DEF Types
<1>2. I \in Seq(ScopeSet) /\ Len(I) = n /\ \A i \in 1..n : I[i] = m_blocks[n + 1 - i]
  <2>1. I \in [1..n -> ScopeSet]
    BY DEF Types, Innermost
  <2>2. I \in Seq(ScopeSet) /\ Len(I) = n
    BY <1>1, <2>1
  <2> QED BY <2>2 DEF Innermost
<1>3. R \in Seq(ScopeSet) /\ Len(R) = 3 /\ R[1] = m_func /\ R[2] = m_global /\ R[3] = m_rts
  BY ScopesAre DEF Types
<1>4. Scopes = I \o R
  BY DEF Scopes
<1> HIDE DEF I, R, n
<1> DEFINE C == I \o R
<1>5. /\ DOMAIN C = 1..(Len(I) + Len(R)) /\ \A i \in 1..Len(I) : C[i] = I[i]
      /\ \A i \in 1..Len(R) : C[Len(I) + i] = R[i]
  <2>1. I \in Seq(ScopeSet) /\ R \in Seq(ScopeSet)
    BY <1>2, <1>3
  <2> QED BY <2>1, ConcatIs
<1>6. Scopes = C /\ Len(I) = n /\ Len(R) = 3
  BY <1>2, <1>3, <1>4
<1> HIDE DEF C
<1>7. DOMAIN Scopes = 1..(n + 3) /\ \A i \in 1..n : Scopes[i] = I[i]
  BY <1>5, <1>6
<1>8. /\ Scopes[n + 1] = R[1] /\ Scopes[n + 2] = R[2] /\ Scopes[n + 3] = R[3]
  BY <1>1, <1>5, <1>6
<1> QED BY <1>1, <1>2, <1>3, <1>7, <1>8 DEF n

LEMMA FirstFound ==
    ASSUME Types, NEW name, NEW i \in Found(name), \A j \in Found(name) : i <= j
    PROVE  Query(name) = Scopes[i][name]
<1>1. Found(name) \subseteq 1..(Len(m_blocks) + 3) /\ Len(m_blocks) \in Nat
  BY ScopesSeq DEF Found
<1>2. PICK k \in Found(name) : /\ \A j \in Found(name) : k <= j
                               /\ Query(name) = Scopes[k][name]
  BY DEF Query
<1>3. k <= i /\ i <= k /\ k \in Int /\ i \in Int
  BY <1>1, <1>2
<1>4. k = i
  BY <1>3
<1> QED BY <1>2, <1>4

\* The innermost block that has the name.
LEMMA FindsBlock ==
    ASSUME Types, NEW name, NEW b \in 1..Len(m_blocks), name \in DOMAIN m_blocks[b],
           \A c \in 1..Len(m_blocks) : name \in DOMAIN m_blocks[c] => c <= b
    PROVE  Found(name) # {} /\ Query(name) = m_blocks[b][name]
<1> DEFINE n == Len(m_blocks)
           i == n + 1 - b
<1>1. /\ DOMAIN Scopes = 1..(n + 3) /\ n \in Nat
      /\ \A j \in 1..n : Scopes[j] = m_blocks[n + 1 - j]
  BY ScopesSeq
<1>2. b \in 1..n /\ name \in DOMAIN m_blocks[b]
      /\ \A c \in 1..n : name \in DOMAIN m_blocks[c] => c <= b
  OBVIOUS
<1> HIDE DEF n
<1>3. i \in 1..n /\ n + 1 - i = b /\ i \in 1..(n + 3)
  BY <1>1, <1>2
<1>4. Scopes[i] = m_blocks[b] /\ i \in Found(name)
  BY <1>1, <1>2, <1>3 DEF Found
<1>5. \A j \in Found(name) : i <= j
  <2> SUFFICES ASSUME NEW j \in Found(name), j < i PROVE FALSE
    BY <1>1, <1>3 DEF Found
  <2>1. j \in 1..n /\ name \in DOMAIN Scopes[j]
    BY <1>1, <1>3 DEF Found
  <2>2. n + 1 - j \in 1..n /\ name \in DOMAIN m_blocks[n + 1 - j]
    BY <1>1, <2>1
  <2>3. n + 1 - j <= b
    BY <1>2, <2>2
  <2> QED BY <1>1, <1>2, <2>1, <2>3
<1> HIDE DEF i
<1>6. Query(name) = Scopes[i][name]
  BY <1>4, <1>5, FirstFound
<1> QED BY <1>4, <1>6

\* Where no block has it, the scopes below are searched in their order.
LEMMA FindsBelow ==
    ASSUME Types, NEW name, \A b \in 1..Len(m_blocks) : name \notin DOMAIN m_blocks[b]
    PROVE  /\ name \in DOMAIN m_func => Found(name) # {} /\ Query(name) = m_func[name]
           /\ name \notin DOMAIN m_func /\ name \in DOMAIN m_global =>
                  Found(name) # {} /\ Query(name) = m_global[name]
           /\ name \notin DOMAIN m_func /\ name \notin DOMAIN m_global
                  /\ name \in RtsNames =>
                  Found(name) # {} /\ Query(name) = Func(0)
           /\ name \notin DOMAIN m_func /\ name \notin DOMAIN m_global
                  /\ name \notin RtsNames => Found(name) = {}
<1> DEFINE n == Len(m_blocks)
<1>1. /\ DOMAIN Scopes = 1..(n + 3) /\ n \in Nat
      /\ \A j \in 1..n : Scopes[j] = m_blocks[n + 1 - j]
      /\ Scopes[n + 1] = m_func /\ Scopes[n + 2] = m_global /\ Scopes[n + 3] = m_rts
  BY ScopesSeq
<1>2. \A j \in 1..n : name \notin DOMAIN m_blocks[j]
  OBVIOUS
<1> HIDE DEF n
<1>3. \A j \in 1..n : name \notin DOMAIN Scopes[j]
  <2> SUFFICES ASSUME NEW j \in 1..n PROVE name \notin DOMAIN Scopes[j]
    OBVIOUS
  <2>1. n + 1 - j \in 1..n
    BY <1>1
  <2> QED BY <1>1, <1>2, <2>1
<1>4. \A j \in Found(name) : j \in {n + 1, n + 2, n + 3} /\ name \in DOMAIN Scopes[j]
  <2> SUFFICES ASSUME NEW j \in Found(name)
               PROVE  j \in {n + 1, n + 2, n + 3} /\ name \in DOMAIN Scopes[j]
    OBVIOUS
  <2>1. j \in 1..(n + 3) /\ name \in DOMAIN Scopes[j]
    BY <1>1 DEF Found
  <2>2. j \notin 1..n
    BY <1>3, <2>1
  <2> QED BY <1>1, <2>1, <2>2
<1>5. \A j \in {n + 1, n + 2, n + 3} : name \in DOMAIN Scopes[j] => j \in Found(name)
  BY <1>1 DEF Found
<1>6. DOMAIN m_rts = RtsNames /\ (name \in RtsNames => m_rts[name] = Func(0))
  BY DEF m_rts
<1>7. ASSUME name \in DOMAIN m_func
      PROVE  Found(name) # {} /\ Query(name) = m_func[name]
  <2>1. n + 1 \in Found(name) /\ \A j \in Found(name) : n + 1 <= j
    BY <1>1, <1>4, <1>5, <1>7
  <2> QED BY <1>1, <2>1, FirstFound
<1>8. ASSUME name \notin DOMAIN m_func, name \in DOMAIN m_global
      PROVE  Found(name) # {} /\ Query(name) = m_global[name]
  <2>1. n + 2 \in Found(name) /\ \A j \in Found(name) : n + 2 <= j
    BY <1>1, <1>4, <1>5, <1>8
  <2> QED BY <1>1, <2>1, FirstFound
<1>9. ASSUME name \notin DOMAIN m_func, name \notin DOMAIN m_global, name \in RtsNames
      PROVE  Found(name) # {} /\ Query(name) = Func(0)
  <2>1. n + 3 \in Found(name) /\ \A j \in Found(name) : n + 3 <= j
    BY <1>1, <1>4, <1>5, <1>6, <1>9
  <2>2. Query(name) = m_rts[name]
    BY <1>1, <2>1, FirstFound
  <2> QED BY <1>6, <1>9, <2>1, <2>2
<1>10. ASSUME name \notin DOMAIN m_func, name \notin DOMAIN m_global, name \notin RtsNames
       PROVE  Found(name) = {}
  BY <1>1, <1>4, <1>6, <1>10
<1> QED BY <1>7, <1>8, <1>9, <1>10

\* A query finds what the name stands for.
LEMMA LooksUp ==
    ASSUME Inv, Lex, phase # "rejected", frames # <<>>, NEW name \in Names
    PROVE  LET line == StandsFor(trail, program, name)
           IN  /\ Found(name) # {} <=> line # NoLine
               /\ Found(name) # {} =>
                      /\ Query(name).line = line
                      /\ Query(name).kind = "VAR" <=> VarOf(program, line)
                      /\ Query(name).isMain <=> MainOf(program, line)
               /\ Found(name) # {} => Query(name) \in Symbol
<1> DEFINE line == StandsFor(trail, program, name)
           n == Len(trail)
           V == Visible(trail, name)
           G == Given(trail, name)
           goal == /\ Found(name) # {} <=> line # NoLine
                   /\ Found(name) # {} =>
                          /\ Query(name).line = line
                          /\ Query(name).kind = "VAR" <=> VarOf(program, line)
                          /\ Query(name).isMain <=> MainOf(program, line)
<1>1. /\ n \in Nat /\ name \in TrailNames /\ MaxGlobals \in Nat
      /\ Len(program) \in Nat /\ DOMAIN program = 1..Len(program)
      /\ Len(program) <= MaxGlobals
  BY SemanalAssumption DEF Inv, Types, TrailNames, Lex, GlobalsOK
<1>2. BlocksAt(trail, m_blocks) /\ ParamsAt(trail, m_func)
  BY DEF Lex, ScopesOK
<1>3. \A d \in 1..n : trail[d].what \in {"decl", "param"} => trail[d].line = MaxGlobals + d
  BY DEF Lex, TrailOK
<1>4. /\ DOMAIN m_global = {program[g].name : g \in 1..Len(program)}
      /\ \A g \in 1..Len(program) : m_global[program[g].name] = SymbolOf(program, g)
  BY DEF Lex, GlobalsOK
<1>5. V \subseteq 1..n /\ G \subseteq 1..n
  BY DEF Visible, Given
<1>6. \A d \in V : trail[d].line = MaxGlobals + d
  BY <1>3 DEF Visible
<1>7. \A d \in G : trail[d].line = MaxGlobals + d
  BY <1>3 DEF Given
<1>8. Types
  BY DEF Inv
<1>9. ASSUME NEW d \in 1..n, line = MaxGlobals + d, Found(name) # {},
             Query(name) = Var(MaxGlobals + d)
      PROVE  goal
  <2>1. line > MaxGlobals /\ line # NoLine /\ line \notin 1..MaxGlobals
    BY <1>1, <1>9 DEF NoLine
  <2>2. VarOf(program, line) /\ ~MainOf(program, line)
    BY <2>1 DEF VarOf, MainOf
  <2>3. Query(name).line = line /\ Query(name).kind = "VAR" /\ ~Query(name).isMain
    BY <1>9 DEF Var
  <2> QED BY <1>9, <2>1, <2>2, <2>3
<1>10. ASSUME V # {}
       PROVE  goal
  <2> DEFINE d == Max(V)
             b == DepthOf(trail, d) + 1
  <2>1. d \in V /\ \A c \in V : c <= d
    BY <1>1, <1>5, <1>10, MaxIs
  <2>2. line = MaxGlobals + d
    BY <1>6, <1>10, <2>1 DEF StandsFor
  <2> HIDE DEF line, d
  <2>3. /\ b \in 1..Len(m_blocks) /\ name \in DOMAIN m_blocks[b]
        /\ m_blocks[b][name] = Var(MaxGlobals + d)
    BY <1>1, <1>2, <2>1 DEF BlocksAt
  <2>4. trail \in Trails
    BY DEF Trails, Inv, Types, Lex, TrailOK
  <2>5. \A c \in 1..Len(m_blocks) : name \in DOMAIN m_blocks[c] => c <= b
    <3> SUFFICES ASSUME NEW c \in 1..Len(m_blocks), name \in DOMAIN m_blocks[c]
                 PROVE  c <= b
      OBVIOUS
    <3>1. PICK e \in V : DepthOf(trail, e) = c - 1
      BY <1>2 DEF BlocksAt
    <3>2. d \in e..n
      BY <1>5, <2>1, <3>1
    <3>3. DepthOf(trail, e) <= DepthOf(trail, d) /\ DepthOf(trail, d) \in Int
      BY <2>4, <3>2, VisibleIs
    <3> QED BY <3>1, <3>3
  <2> HIDE DEF b
  <2>6. Found(name) # {} /\ Query(name) = m_blocks[b][name]
    BY <1>8, <2>3, <2>5, FindsBlock
  <2>7. d \in 1..n
    BY <1>5, <2>1
  <2> HIDE DEF goal
  <2> QED BY <1>9, <2>2, <2>3, <2>6, <2>7
<1>11. ASSUME V = {}
       PROVE  \A b \in 1..Len(m_blocks) : name \notin DOMAIN m_blocks[b]
  BY <1>2, <1>11 DEF BlocksAt
<1>12. ASSUME V = {}, G # {}
       PROVE  goal
  <2> DEFINE d == Max(G)
  <2>1. d \in G
    BY <1>1, <1>5, <1>12, MaxIs
  <2>2. line = MaxGlobals + d
    BY <1>7, <1>12, <2>1 DEF StandsFor
  <2> HIDE DEF line, d
  <2>3. name \in DOMAIN m_func /\ m_func[name] = Var(MaxGlobals + d)
    BY <1>1, <1>2, <2>1 DEF ParamsAt
  <2>4. Found(name) # {} /\ Query(name) = m_func[name]
    BY <1>8, <1>11, <1>12, <2>3, FindsBelow
  <2>5. d \in 1..n
    BY <1>5, <2>1
  <2> HIDE DEF goal
  <2> QED BY <1>9, <2>2, <2>3, <2>4, <2>5
<1>13. ASSUME V = {}, G = {}
       PROVE  name \notin DOMAIN m_func
  BY <1>2, <1>13 DEF ParamsAt
<1>14. ASSUME V = {}, G = {}, GloballyOf(program, name) # {}
       PROVE  goal
  <2> DEFINE g == Max(GloballyOf(program, name))
  <2>1. GloballyOf(program, name) \subseteq 1..Len(program)
    BY <1>1 DEF GloballyOf
  <2>2. g \in GloballyOf(program, name)
    BY <1>1, <1>14, <2>1, MaxIs
  <2>3. line = g
    BY <1>14 DEF StandsFor
  <2> HIDE DEF line, g
  <2>4. g \in 1..Len(program) /\ program[g].name = name
    BY <2>1, <2>2 DEF GloballyOf
  <2>5. name \in DOMAIN m_global /\ m_global[name] = SymbolOf(program, g)
    BY <1>4, <2>4
  <2>6. Found(name) # {} /\ Query(name) = SymbolOf(program, g)
    BY <1>8, <1>11, <1>13, <1>14, <2>5, FindsBelow
  <2>7. program[g].kind \in {"var", "func", "main"}
    <3>1. program \in Seq(Declaration)
      BY <1>8 DEF Types
    <3>2. program[g] \in Declaration
      BY <2>4, <3>1
    <3> QED BY <3>2 DEF Declaration
  <2>8. g \in 1..MaxGlobals /\ g > 0 /\ ~(g > MaxGlobals) /\ g # NoLine
    BY <1>1, <2>4 DEF NoLine
  <2>9. /\ VarOf(program, g) <=> program[g].kind = "var"
        /\ MainOf(program, g) <=> program[g].kind = "main"
    BY <2>8 DEF VarOf, MainOf
  <2>10. /\ SymbolOf(program, g).line = g
         /\ SymbolOf(program, g).kind = "VAR" <=> program[g].kind = "var"
         /\ SymbolOf(program, g).isMain <=> program[g].kind = "main"
    BY <2>7 DEF SymbolOf, Var, Func, Main
  <2>11. /\ line # NoLine /\ Query(name).line = line
         /\ Query(name).kind = "VAR" <=> VarOf(program, line)
         /\ Query(name).isMain <=> MainOf(program, line)
    BY <2>3, <2>6, <2>8, <2>9, <2>10
  <2> QED BY <2>6, <2>11
<1>15. ASSUME GloballyOf(program, name) = {}
       PROVE  name \notin DOMAIN m_global
  BY <1>1, <1>4, <1>15 DEF GloballyOf
<1>16. ASSUME V = {}, G = {}, GloballyOf(program, name) = {}, name \in RtsNames
       PROVE  goal
  <2>1. line = 0
    BY <1>16 DEF StandsFor
  <2> HIDE DEF line
  <2>2. Found(name) # {} /\ Query(name) = Func(0)
    BY <1>8, <1>11, <1>13, <1>15, <1>16, FindsBelow
  <2>3. ~VarOf(program, 0) /\ ~MainOf(program, 0) /\ 0 # NoLine
    BY <1>1 DEF VarOf, MainOf, NoLine
  <2>4. Func(0).line = 0 /\ Func(0).kind # "VAR" /\ ~Func(0).isMain
    BY DEF Func
  <2>5. /\ line # NoLine /\ Query(name).line = line
        /\ Query(name).kind = "VAR" <=> VarOf(program, line)
        /\ Query(name).isMain <=> MainOf(program, line)
    BY <2>1, <2>2, <2>3, <2>4
  <2> QED BY <2>2, <2>5
<1>17. ASSUME V = {}, G = {}, GloballyOf(program, name) = {}, name \notin RtsNames
       PROVE  goal
  <2>1. line = NoLine
    BY <1>17 DEF StandsFor
  <2>2. Found(name) = {}
    BY <1>8, <1>11, <1>13, <1>15, <1>17, FindsBelow
  <2> HIDE DEF line
  <2> QED BY <2>1, <2>2
<1>18. goal
  <2> HIDE DEF goal
  <2> QED BY <1>10, <1>12, <1>14, <1>16, <1>17
<1>19. Found(name) # {} => Query(name) \in Symbol
  BY <1>8, QueryIs
<1> QED BY <1>18, <1>19

-----------------------------------------------------------------------------
(* What one node more means for the rules.                                 *)

LEMMA LegalNext ==
    ASSUME NEW t \in Trails, NEW x \in Node, t # <<>> \/ x.what \in Starts, NEW p
    PROVE  LET legal == LegalOf(Append(t, x), p, Len(t) + 1)
               line == StandsFor(t, p, x.name)
           IN  /\ x.what \notin {"decl", "param", "id", "call", "break", "main"} => legal
               /\ x.what = "decl" => (legal <=> \A d \in Visible(t, x.name) :
                                                    DepthOf(t, d) < DepthOf(t, Len(t)))
               /\ x.what = "param" => (legal <=> Given(t, x.name) = {})
               /\ x.what = "id" => (legal <=> line # NoLine /\ VarOf(p, line))
               /\ x.what = "call" => (legal <=> /\ line # NoLine /\ ~VarOf(p, line)
                                                /\ ~MainOf(p, line))
               /\ x.what = "break" => (legal <=> LoopsOf(t, Len(t)) > 0)
               /\ x.what = "main" => (legal <=> ~MainSeen(t))
<1> DEFINE u == Append(t, x)
           n == Len(t)
           name == x.name
           line == StandsFor(t, p, name)
           legal == LegalOf(u, p, n + 1)
<1>1. n \in Nat /\ u[n + 1] = x /\ (\A j \in 1..n : u[j] = t[j]) /\ n + 1 - 1 = n
  BY TrailsAre
<1>2. ASSUME x.what \notin Starts, Shift(x.what) = 0
      PROVE  /\ LocalsOf(u, name, n + 1) = Visible(t, name)
             /\ ParamsOf(u, name, n + 1) = Given(t, name)
             /\ ResolveOf(u, p, name, n + 1) = line
             /\ DepthOf(u, n + 1) = DepthOf(t, n)
             /\ \A d \in Visible(t, name) : DepthOf(u, d) = DepthOf(t, d)
  <2>1. t # <<>>
    BY <1>2
  <2>2. /\ LocalsOf(u, name, n + 1) = Visible(t, name)
        /\ ParamsOf(u, name, n + 1) = Given(t, name)
    BY <1>2, <2>1, FoundAt
  <2>3. ResolveOf(u, p, name, n + 1) = line
    BY <1>2, <2>1, ResolveNext
  <2>4. DepthOf(u, n + 1) = DepthOf(t, n)
    <3>1. DepthOf(u, n + 1) = DepthOf(t, n) + Shift(x.what)
      BY <1>2, <2>1, Continues
    <3>2. n \in 1..n
      BY <1>1, <2>1 DEF Trails
    <3>3. DepthOf(t, n) \in Int
      BY <3>2, DepthsAre
    <3> QED BY <1>2, <3>1, <3>3
  <2>5. \A d \in Visible(t, name) : DepthOf(u, d) = DepthOf(t, d)
    BY VisibleIs, Kept
  <2> QED BY <2>2, <2>3, <2>4, <2>5
<1>3. legal <=>
        /\ x.what = "decl" => \A d \in LocalsOf(u, name, n + 1) : DepthOf(u, d) < DepthOf(u, n + 1)
        /\ x.what = "param" => ParamsOf(u, name, n + 1) = {}
        /\ x.what = "id" => /\ ResolveOf(u, p, name, n + 1) # NoLine
                            /\ VarOf(p, ResolveOf(u, p, name, n + 1))
        /\ x.what = "call" => /\ ResolveOf(u, p, name, n + 1) # NoLine
                              /\ ~VarOf(p, ResolveOf(u, p, name, n + 1))
                              /\ ~MainOf(p, ResolveOf(u, p, name, n + 1))
        /\ x.what = "break" => LoopsOf(u, n + 1) > 0
        /\ x.what = "main" => Events(u, 1, n, "main") = {}
  BY <1>1 DEF LegalOf
<1> HIDE DEF u, n, name, line, legal
<1>4. x.what \notin {"decl", "param", "id", "call", "break", "main"} => legal
  BY <1>3
<1>5. ASSUME x.what = "decl"
      PROVE  legal <=> \A d \in Visible(t, name) : DepthOf(t, d) < DepthOf(t, n)
  <2>1. x.what \notin Starts /\ Shift(x.what) = 0
    BY <1>5 DEF Starts, Shift
  <2> QED BY <1>2, <1>3, <1>5, <2>1
<1>6. ASSUME x.what = "param"
      PROVE  legal <=> Given(t, name) = {}
  <2>1. x.what \notin Starts /\ Shift(x.what) = 0
    BY <1>6 DEF Starts, Shift
  <2> QED BY <1>2, <1>3, <1>6, <2>1
<1>7. ASSUME x.what = "id"
      PROVE  legal <=> line # NoLine /\ VarOf(p, line)
  <2>1. x.what \notin Starts /\ Shift(x.what) = 0
    BY <1>7 DEF Starts, Shift
  <2> QED BY <1>2, <1>3, <1>7, <2>1
<1>8. ASSUME x.what = "call"
      PROVE  legal <=> line # NoLine /\ ~VarOf(p, line) /\ ~MainOf(p, line)
  <2>1. x.what \notin Starts /\ Shift(x.what) = 0
    BY <1>8 DEF Starts, Shift
  <2> QED BY <1>2, <1>3, <1>8, <2>1
<1>9. ASSUME x.what = "break"
      PROVE  legal <=> LoopsOf(t, n) > 0
  <2>1. x.what \notin Starts /\ Turn(x.what) = 0 /\ t # <<>>
    BY <1>9 DEF Starts, Turn
  <2>2. LoopsOf(u, n + 1) = LoopsOf(t, n) + Turn(x.what)
    BY <2>1, Continues DEF u, n
  <2>3. n \in 1..n /\ n = Len(t)
    BY <1>1, <2>1 DEF Trails, n
  <2>4. LoopsOf(t, n) \in Int
    BY <2>3, DepthsAre
  <2> QED BY <1>3, <1>9, <2>1, <2>2, <2>4
<1>10. ASSUME x.what = "main"
       PROVE  legal <=> ~MainSeen(t)
  <2>1. Events(u, 1, n, "main") = {} <=> ~MainSeen(t)
    BY <1>1 DEF Events, MainSeen, n
  <2> QED BY <1>3, <1>10, <2>1
<1> QED BY <1>4, <1>5, <1>6, <1>7, <1>8, <1>9, <1>10 DEF u, n, name, line, legal

LEMMA AnnotatedNext ==
    ASSUME NEW t \in Trails, NEW x \in Node, NEW p, t # <<>> \/ x.what \in Starts,
           Annotated(t, p),
           x.what \in {"id", "call"} /\ x.line # NoLine =>
               x.line = StandsFor(t, p, x.name)
    PROVE  Annotated(Append(t, x), p)
<1> DEFINE u == Append(t, x)
           n == Len(t)
<1>1. /\ n \in Nat /\ Len(u) = n + 1 /\ u[n + 1] = x /\ \A j \in 1..n : u[j] = t[j]
  BY TrailsAre
<1>2. \A k \in 1..n : \A name : ResolveOf(u, p, name, k) = ResolveOf(t, p, name, k)
  BY RulesKept
<1>3. x.what \in {"id", "call"} => ResolveOf(u, p, x.name, n + 1) = StandsFor(t, p, x.name)
  <2> SUFFICES ASSUME x.what \in {"id", "call"}
               PROVE  ResolveOf(u, p, x.name, n + 1) = StandsFor(t, p, x.name)
    OBVIOUS
  <2>1. x.what \notin Starts /\ Shift(x.what) = 0 /\ t # <<>>
    BY DEF Starts, Shift
  <2> QED BY <2>1, ResolveNext
<1> HIDE DEF u, n
<1>4. \A k \in 1..Len(u) : u[k].what \in {"id", "call"} /\ u[k].line # NoLine =>
                           u[k].line = ResolveOf(u, p, u[k].name, k)
  <2> SUFFICES ASSUME NEW k \in 1..Len(u), u[k].what \in {"id", "call"}, u[k].line # NoLine
               PROVE  u[k].line = ResolveOf(u, p, u[k].name, k)
    OBVIOUS
  <2>1. CASE k = n + 1
    BY <1>1, <1>3, <2>1
  <2>2. CASE k # n + 1
    <3>1. k \in 1..n /\ u[k] = t[k]
      BY <1>1, <2>2
    <3> QED BY <1>2, <3>1 DEF Annotated, n
  <2> QED BY <2>1, <2>2
<1>5. Annotated(u, p)
  BY <1>4 DEF Annotated
<1> QED BY <1>5 DEF u

LEMMA AllLegalNext ==
    ASSUME NEW t \in Trails, NEW x \in Node, NEW p, t # <<>> \/ x.what \in Starts,
           AllLegal(t, p)
    PROVE  AllLegal(Append(t, x), p) <=> LegalOf(Append(t, x), p, Len(t) + 1)
<1> DEFINE u == Append(t, x)
           n == Len(t)
<1>1. n \in Nat /\ Len(u) = n + 1
  BY TrailsAre
<1>2. \A k \in 1..n : LegalOf(u, p, k) <=> LegalOf(t, p, k)
  BY RulesKept
<1>3. \A k \in 1..n : LegalOf(t, p, k)
  BY DEF AllLegal
<1> HIDE DEF u, n
<1>4. \A k : k \in 1..(n + 1) <=> k \in 1..n \/ k = n + 1
  BY <1>1
<1>5. (\A k \in 1..Len(u) : LegalOf(u, p, k)) <=> LegalOf(u, p, n + 1)
  BY <1>1, <1>2, <1>3, <1>4
<1>6. AllLegal(u, p) <=> LegalOf(u, p, n + 1)
  BY <1>5 DEF AllLegal
<1> QED BY <1>6 DEF u, n

-----------------------------------------------------------------------------
(* What steps have in common.                                              *)

LEMMA TrailIs ==
    ASSUME Inv, Lex
    PROVE  /\ trail \in Trails /\ Len(trail) \in Nat /\ (frames # <<>> => trail # <<>>)
           /\ trail # <<>> => /\ Len(trail) \in 1..Len(trail)
                              /\ DepthOf(trail, Len(trail)) \in Int
                              /\ LoopsOf(trail, Len(trail)) \in Int
<1>1. trail \in Trails /\ Len(trail) \in Nat /\ (frames # <<>> => trail # <<>>)
  BY DEF Inv, Types, Lex, TrailOK, Trails
<1>2. trail # <<>> => Len(trail) \in 1..Len(trail)
  <2>1. trail \in Seq(Node)
    BY DEF Inv, Types
  <2> QED BY <2>1
<1> QED BY <1>1, <1>2, DepthsAre

\* A node is noted.
LEMMA OneNode ==
    ASSUME Inv, Lex, phase \notin {"rejected", "globals", "accepted"},
           phase' \notin {"globals", "accepted"},
           NEW x \in Node, trail' = Append(trail, x), trail # <<>> \/ x.what \in Starts,
           UNCHANGED <<program, m_global>>,
           x.what \in {"decl", "param"} => x.line = MaxGlobals + (Len(trail) + 1),
           x.what \in {"id", "call"} /\ x.line # NoLine =>
               x.line = StandsFor(trail, program, x.name),
           phase' # "rejected" <=> LegalOf(Append(trail, x), program, Len(trail) + 1)
    PROVE  TrailOK' /\ GlobalsOK' /\ Annotated(trail', program') /\ VerdictOK'
<1> DEFINE u == Append(trail, x)
           n == Len(trail)
<1>1. trail \in Trails
  BY TrailIs
<1>2. /\ n \in Nat /\ u # <<>> /\ Len(u) = n + 1 /\ u[n + 1] = x
      /\ \A j \in 1..n : u[j] = trail[j]
      /\ u \in Trails
  BY <1>1, TrailsAre
<1>3. u[1].what \in Starts
  BY <1>2 DEF Trails
<1>4. Annotated(u, program)
  BY <1>1, AnnotatedNext DEF Lex
<1>5. AllLegal(u, program) <=> LegalOf(u, program, n + 1)
  <2>1. AllLegal(trail, program)
    BY DEF Lex, VerdictOK
  <2> QED BY <1>1, <2>1, AllLegalNext
<1>6. phase' # "rejected" <=> LegalOf(u, program, n + 1)
  OBVIOUS
<1>7. x.what \in {"decl", "param"} => x.line = MaxGlobals + (n + 1)
  OBVIOUS
<1>8. trail' = u
  OBVIOUS
<1> HIDE DEF u, n
<1>9. \A d \in 1..Len(u) : u[d].what \in {"decl", "param"} => u[d].line = MaxGlobals + d
  <2> SUFFICES ASSUME NEW d \in 1..Len(u), u[d].what \in {"decl", "param"}
               PROVE  u[d].line = MaxGlobals + d
    OBVIOUS
  <2>1. CASE d = n + 1
    BY <1>2, <1>7, <2>1
  <2>2. CASE d # n + 1
    <3>1. d \in 1..n /\ u[d] = trail[d]
      BY <1>2, <2>2
    <3> QED BY <3>1 DEF Lex, TrailOK, n
  <2> QED BY <2>1, <2>2
<1>10. TrailOK'
  BY <1>2, <1>3, <1>8, <1>9 DEF TrailOK
<1>11. GlobalsOK'
  BY DEF Lex, GlobalsOK
<1>12. Annotated(trail', program')
  BY <1>4, <1>8
<1>13. VerdictOK'
  <2>1. AllLegal(trail', program') <=> phase' # "rejected"
    BY <1>5, <1>6, <1>8
  <2> QED BY <2>1 DEF VerdictOK
<1> QED BY <1>10, <1>11, <1>12, <1>13

LEMMA SeenNext ==
    ASSUME NEW t \in Trails, NEW x \in Node, t # <<>> \/ x.what \in Starts
    PROVE  MainSeen(Append(t, x)) <=> MainSeen(t) \/ x.what = "main"
<1> DEFINE u == Append(t, x)
           n == Len(t)
<1>1. /\ n \in Nat /\ Len(u) = n + 1 /\ u[n + 1] = x /\ \A j \in 1..n : u[j] = t[j]
  BY TrailsAre
<1> HIDE DEF u, n
<1>2. \A k : k \in 1..Len(u) <=> k \in 1..n \/ k = n + 1
  BY <1>1
<1>3. MainSeen(u) <=> (\E k \in 1..n : u[k].what = "main") \/ x.what = "main"
  BY <1>1, <1>2 DEF MainSeen
<1>4. MainSeen(u) <=> MainSeen(t) \/ x.what = "main"
  BY <1>1, <1>3 DEF MainSeen, n
<1> QED BY <1>4 DEF u

\* One is noted inside a function.
LEMMA InsideNode ==
    ASSUME Inv, Lex, phase \in {"params", "stmt", "expr", "done"},
           phase' \in {"params", "stmt", "expr", "done", "rejected"},
           frames # <<>>, frames' # <<>>, frames'[1] = frames[1],
           NEW x \in Node, trail' = Append(trail, x), x.what \notin Starts,
           UNCHANGED <<program, m_global, visitedMain>>,
           x.what \in {"decl", "param"} => x.line = MaxGlobals + (Len(trail) + 1),
           x.what \in {"id", "call"} /\ x.line # NoLine =>
               x.line = StandsFor(trail, program, x.name),
           phase' # "rejected" <=> LegalOf(Append(trail, x), program, Len(trail) + 1)
    PROVE  /\ ScopesOK' => Lex'
           /\ phase' = "rejected" => Lex'
<1>1. trail \in Trails /\ trail # <<>>
  BY TrailIs
<1>2. TrailOK' /\ GlobalsOK' /\ Annotated(trail', program') /\ VerdictOK'
  BY <1>1, OneNode
<1>3. MainSeen(trail') <=> MainSeen(trail)
  <2>1. x.what # "main"
    BY DEF Starts
  <2> QED BY <1>1, <2>1, SeenNext
<1>4. MainsOK'
  BY <1>3 DEF Lex, MainsOK
<1>5. phase' = "rejected" => ScopesOK'
  BY DEF ScopesOK
<1> QED BY <1>2, <1>4, <1>5 DEF Lex

\* One that changes neither the blocks nor the parameters nor the loops.
LEMMA PlainNode ==
    ASSUME Inv, Lex, phase \in {"stmt", "expr", "done"},
           phase' \in {"stmt", "expr", "done", "rejected"},
           frames # <<>>, frames' # <<>>, frames'[1] = frames[1],
           NEW x \in Node, trail' = Append(trail, x),
           x.what \in {"expr", "return", "if", "ifelse", "break", "id", "call"},
           UNCHANGED <<program, m_global, m_func, m_blocks, insideWhile, visitedMain>>,
           x.what \in {"id", "call"} /\ x.line # NoLine =>
               x.line = StandsFor(trail, program, x.name),
           phase' # "rejected" <=> LegalOf(Append(trail, x), program, Len(trail) + 1)
    PROVE  Lex'
<1>1. /\ x.what \notin Starts /\ x.what \notin {"close", "decl", "param"}
      /\ Shift(x.what) = 0 /\ Turn(x.what) = 0
  BY DEF Starts, Shift, Turn
<1>2. trail \in Trails /\ trail # <<>> /\ Len(trail) \in Nat
      /\ DepthOf(trail, Len(trail)) \in Int /\ LoopsOf(trail, Len(trail)) \in Int
  BY TrailIs
<1>3. Len(trail') = Len(trail) + 1
  BY <1>2, TrailsAre
<1>4. /\ DepthOf(trail, Len(trail)) = Len(m_blocks) - 1
      /\ LoopsOf(trail, Len(trail)) = insideWhile
      /\ BlocksAt(trail, m_blocks) /\ ParamsAt(trail, m_func)
  BY DEF Lex, ScopesOK
<1>5. DepthOf(trail', Len(trail')) = Len(m_blocks) - 1
      /\ LoopsOf(trail', Len(trail')) = insideWhile
  <2>1. /\ DepthOf(trail', Len(trail) + 1) = DepthOf(trail, Len(trail)) + Shift(x.what)
        /\ LoopsOf(trail', Len(trail) + 1) = LoopsOf(trail, Len(trail)) + Turn(x.what)
    BY <1>1, <1>2, Continues
  <2> QED BY <1>1, <1>2, <1>3, <1>4, <2>1
<1>6. BlocksAt(trail', m_blocks)
  <2>1. x.what \notin Starts \cup {"close", "decl"}
    BY <1>1
  <2> QED BY <1>2, <1>4, <2>1, BlocksSame
<1>7. ParamsAt(trail', m_func)
  <2>1. x.what \notin Starts \cup {"param"}
    BY <1>1
  <2> QED BY <1>2, <1>4, <2>1, ParamsSame
<1>8. ScopesOK'
  BY <1>5, <1>6, <1>7 DEF ScopesOK
<1>9. phase \in {"params", "stmt", "expr", "done"}
      /\ phase' \in {"params", "stmt", "expr", "done", "rejected"}
  OBVIOUS
<1>10. x.what \in {"decl", "param"} => x.line = MaxGlobals + (Len(trail) + 1)
  BY <1>1
<1> QED BY <1>1, <1>8, <1>9, <1>10, InsideNode

\* No node is noted.
LEMMA NoNode ==
    ASSUME Lex, phase # "rejected", phase' \notin {"rejected", "globals"},
           UNCHANGED <<trail, program, m_global>>,
           frames' # <<>> => frames # <<>>,
           phase' = "accepted" => MainThere(program)
    PROVE  TrailOK' /\ GlobalsOK' /\ Annotated(trail', program') /\ VerdictOK'
<1>1. TrailOK'
  BY DEF Lex, TrailOK
<1>2. GlobalsOK'
  BY DEF Lex, GlobalsOK
<1>3. Annotated(trail', program')
  BY DEF Lex
<1>4. VerdictOK'
  BY DEF Lex, VerdictOK
<1> QED BY <1>1, <1>2, <1>3, <1>4

LEMMA NoNodeInside ==
    ASSUME Lex, phase \in {"stmt", "expr", "done"}, phase' \in {"stmt", "expr", "done"},
           frames # <<>>, frames' # <<>>, frames'[1] = frames[1],
           UNCHANGED <<trail, program, m_global, m_func, m_blocks, insideWhile, visitedMain>>
    PROVE  Lex'
<1>1. TrailOK' /\ GlobalsOK' /\ Annotated(trail', program') /\ VerdictOK'
  BY NoNode
<1>2. ScopesOK'
  BY DEF Lex, ScopesOK
<1>3. MainsOK'
  BY DEF Lex, MainsOK
<1> QED BY <1>1, <1>2, <1>3 DEF Lex

-----------------------------------------------------------------------------
(* Steps at the level of declarations.                                     *)

LEMMA LexInit ==
    ASSUME Init
    PROVE  Lex
<1>1. /\ phase = "globals" /\ program = <<>> /\ frames = <<>> /\ trail = <<>>
      /\ m_global = Empty /\ visitedMain = FALSE
  BY DEF Init
<1>2. Len(program) = 0 /\ Len(trail) = 0 /\ 1..0 = {} /\ MaxGlobals \in Nat
  BY <1>1, SemanalAssumption
<1>3. TrailOK
  BY <1>1, <1>2 DEF TrailOK
<1>4. GlobalsOK
  <2>1. DOMAIN m_global = {}
    BY <1>1 DEF Empty
  <2> QED BY <1>2, <2>1 DEF GlobalsOK
<1>5. ScopesOK
  BY <1>1 DEF ScopesOK
<1>6. MainsOK
  BY <1>1, <1>2 DEF MainsOK, MainSeen
<1>7. Annotated(trail, program) /\ VerdictOK
  BY <1>1, <1>2 DEF Annotated, VerdictOK, AllLegal
<1> QED BY <1>3, <1>4, <1>5, <1>6, <1>7 DEF Lex

LEMMA GlobalDeclLex ==
    ASSUME Inv, Lex, NEW kind \in {"var", "func", "main"}, NEW name \in Names,
           GlobalDecl(kind, name)
    PROVE  Lex'
<1> DEFINE n == Len(program)
           line == n + 1
           symbol == IF kind = "var" THEN Var(line)
                     ELSE IF kind = "func" THEN Func(line) ELSE Main(line)
           p == Append(program, [kind |-> kind, name |-> name])
<1>1. /\ phase = "globals" /\ n < MaxGlobals /\ program' = p
      /\ \/ /\ name \in DOMAIN m_global /\ phase' = "rejected" /\ m_global' = m_global
         \/ /\ name \notin DOMAIN m_global /\ phase' = phase
            /\ m_global' = Insert(m_global, name, symbol)
      /\ UNCHANGED <<frames, trail, visitedMain>>
  <2>1. /\ phase = "globals" /\ n < MaxGlobals /\ program' = p
        /\ UNCHANGED <<frames, trail, visitedMain>>
    BY DEF GlobalDecl, state
  <2>2. CASE kind = "var"
    BY <2>1, <2>2 DEF GlobalDecl, Reject
  <2>3. CASE kind = "func"
    BY <2>1, <2>3 DEF GlobalDecl, Reject
  <2>4. CASE kind = "main"
    BY <2>1, <2>4 DEF GlobalDecl, Reject
  <2> QED BY <2>2, <2>3, <2>4
<1>2. n \in Nat /\ MaxGlobals \in Nat
  BY SemanalAssumption DEF Inv, Types
<1>3. /\ Len(p) = n + 1 /\ p[n + 1].kind = kind /\ p[n + 1].name = name
      /\ \A g \in 1..n : p[g] = program[g]
  <2>1. program \in Seq(Declaration)
    BY DEF Inv, Types
  <2> QED BY <2>1
<1>4. trail = <<>> /\ Len(trail) = 0 /\ 1..0 = {} /\ frames = <<>>
  BY <1>1 DEF Lex, TrailOK
<1>5. /\ DOMAIN m_global = {program[g].name : g \in 1..n}
      /\ \A g \in 1..n : m_global[program[g].name] = SymbolOf(program, g)
  BY <1>1 DEF Lex, GlobalsOK
<1>6. \A g, h \in 1..n : program[g].name = program[h].name => g = h
  BY <1>1 DEF Lex, VerdictOK, AllLegal
<1> HIDE DEF n, p, symbol
<1>7. TrailOK'
  BY <1>1, <1>4 DEF TrailOK
<1>8. ScopesOK'
  BY <1>1, <1>4 DEF ScopesOK
<1>9. MainsOK'
  BY <1>1, <1>4 DEF Lex, MainsOK
<1>10. Annotated(trail', program')
  BY <1>1, <1>4 DEF Annotated
<1>11. \A g : g \in 1..(n + 1) <=> g \in 1..n \/ g = n + 1
  BY <1>2
<1>12. CASE name \in DOMAIN m_global
  <2>1. phase' = "rejected" /\ Len(program') <= MaxGlobals
    BY <1>1, <1>2, <1>3, <1>12
  <2>2. GlobalsOK'
    BY <2>1 DEF GlobalsOK
  <2>3. ~AllLegal(trail', program')
    <3>1. PICK g \in 1..n : program[g].name = name
      BY <1>5, <1>12
    <3>2. g \in 1..(n + 1) /\ n + 1 \in 1..(n + 1) /\ g # n + 1
      BY <1>2
    <3>3. p[g].name = p[n + 1].name
      BY <1>3, <3>1
    <3>4. AllLegal(trail', p) =>
              \A i, j \in 1..(n + 1) : p[i].name = p[j].name => i = j
      BY <1>3 DEF AllLegal
    <3>5. ~AllLegal(trail', p)
      BY <3>2, <3>3, <3>4
    <3> QED BY <1>1, <3>5
  <2>4. VerdictOK'
    BY <2>1, <2>3 DEF VerdictOK
  <2> QED BY <1>7, <1>8, <1>9, <1>10, <2>2, <2>4 DEF Lex
<1>13. CASE name \notin DOMAIN m_global
  <2>1. phase' = "globals" /\ Len(program') <= MaxGlobals
        /\ m_global' = Insert(m_global, name, symbol)
    BY <1>1, <1>2, <1>3, <1>13
  <2>2. /\ DOMAIN m_global' = DOMAIN m_global \cup {name}
        /\ \A m \in DOMAIN m_global : m_global'[m] = m_global[m]
        /\ m_global'[name] = symbol
    BY <1>13, <2>1 DEF Insert
  <2>3. DOMAIN m_global' = {p[g].name : g \in 1..(n + 1)}
    BY <1>3, <1>5, <1>11, <2>2
  <2>4. \A g \in 1..(n + 1) : m_global'[p[g].name] = SymbolOf(p, g)
    <3> SUFFICES ASSUME NEW g \in 1..(n + 1)
                 PROVE  m_global'[p[g].name] = SymbolOf(p, g)
      OBVIOUS
    <3>1. CASE g = n + 1
      <4>1. SymbolOf(p, n + 1) = symbol
        BY <1>3 DEF SymbolOf, symbol
      <4> QED BY <1>3, <2>2, <3>1, <4>1
    <3>2. CASE g \in 1..n
      <4>1. SymbolOf(p, g) = SymbolOf(program, g)
        BY <1>3, <3>2 DEF SymbolOf
      <4>2. program[g].name \in DOMAIN m_global
        BY <1>5, <3>2
      <4> QED BY <1>3, <1>5, <2>2, <3>2, <4>1, <4>2
    <3> QED BY <1>11, <3>1, <3>2
  <2>5. GlobalsOK'
    BY <1>1, <1>3, <2>1, <2>3, <2>4 DEF GlobalsOK
  <2>6. \A g, h \in 1..(n + 1) : p[g].name = p[h].name => g = h
    <3>1. \A g \in 1..n : p[g].name # name
      BY <1>3, <1>5, <1>13
    <3> QED BY <1>3, <1>6, <1>11, <3>1
  <2>7. AllLegal(trail', program')
    BY <1>1, <1>3, <1>4, <2>6 DEF AllLegal
  <2>8. VerdictOK'
    BY <2>1, <2>7 DEF VerdictOK
  <2> QED BY <1>7, <1>8, <1>9, <1>10, <2>5, <2>8 DEF Lex
<1> QED BY <1>12, <1>13

LEMMA NodeNoted ==
    ASSUME NEW what \in AllConstructs \cup {"func", "main", "close", "end"},
           NEW name \in Names \cup {"-"}, NEW line \in Nat \cup {NoLine},
           Note(what, name, line)
    PROVE  \E x \in Node : /\ x.what = what /\ x.name = name /\ x.line = line
                           /\ trail' = Append(trail, x)
<1> DEFINE x == [what |-> what, name |-> name, line |-> line]
<1>1. x \in Node
  BY DEF Node, Lines
<1>2. x.what = what /\ x.name = name /\ x.line = line /\ trail' = Append(trail, x)
  BY DEF Note
<1> HIDE DEF x
<1> QED BY <1>1, <1>2

LEMMA EndOfGlobalsLex ==
    ASSUME Inv, Lex, EndOfGlobals
    PROVE  Lex'
<1>1. /\ phase = "globals" /\ phase' = "next"
      /\ UNCHANGED <<program, trail, frames, m_global, visitedMain>>
  BY DEF EndOfGlobals, source, table, state
<1>2. frames = <<>>
  BY <1>1 DEF Inv, FramesOK
<1>3. TrailOK' /\ GlobalsOK' /\ Annotated(trail', program') /\ VerdictOK'
  BY <1>1, NoNode
<1>4. ScopesOK' /\ MainsOK'
  BY <1>1, <1>2 DEF Lex, ScopesOK, MainsOK
<1> QED BY <1>3, <1>4 DEF Lex

LEMMA GVarDeclLex ==
    ASSUME Inv, Lex, GVarDecl
    PROVE  Lex'
<1>1. /\ phase = "next" /\ phase' = phase
      /\ UNCHANGED <<program, trail, frames, m_global, visitedMain>>
  BY DEF GVarDecl, VisitNext, source, table, state
<1>2. frames = <<>>
  BY <1>1 DEF Inv, FramesOK
<1>3. TrailOK' /\ GlobalsOK' /\ Annotated(trail', program') /\ VerdictOK'
  BY <1>1, NoNode
<1>4. ScopesOK' /\ MainsOK'
  BY <1>1, <1>2 DEF Lex, ScopesOK, MainsOK
<1> QED BY <1>3, <1>4 DEF Lex

LEMMA FuncDeclLex ==
    ASSUME Inv, Lex, FuncDecl
    PROVE  Lex'
<1>1. /\ phase = "next" /\ next <= Len(program) /\ Note("func", program[next].name, next)
      /\ frames' = <<"func">> /\ phase' = "params"
      /\ UNCHANGED <<program, m_global, m_func, m_blocks, insideWhile, visitedMain>>
  BY DEF FuncDecl, VisitNext, source, table
<1>2. /\ frames = <<>> /\ m_blocks = <<>> /\ insideWhile = 0
      /\ next \in Nat /\ program[next].name \in Names
  BY <1>1, BetweenFunctions
<1>3. m_func = Empty
  BY <1>1, <1>2 DEF Inv, ParametersOK
<1>4. PICK x \in Node : x.what = "func" /\ trail' = Append(trail, x)
  <2>1. /\ "func" \in AllConstructs \cup {"func", "main", "close", "end"}
        /\ program[next].name \in Names \cup {"-"} /\ next \in Nat \cup {NoLine}
    BY <1>2
  <2> QED BY <1>1, <2>1, NodeNoted
<1>5. trail \in Trails /\ x.what \in Starts
  BY <1>4, TrailIs DEF Starts
<1>6. TrailOK' /\ GlobalsOK' /\ Annotated(trail', program') /\ VerdictOK'
  <2>1. LegalOf(Append(trail, x), program, Len(trail) + 1)
    BY <1>4, <1>5, LegalNext
  <2> QED BY <1>1, <1>4, <1>5, <2>1, OneNode
<1>7. ScopesOK'
  <2>1. Len(trail') = Len(trail) + 1
    BY <1>4, <1>5, TrailsAre
  <2>2. DepthOf(trail', Len(trail')) = 0 /\ LoopsOf(trail', Len(trail')) = 0
    BY <1>4, <1>5, <2>1, Begun
  <2>3. BlocksAt(trail', <<>>) /\ ParamsAt(trail', Empty)
    BY <1>4, <1>5, NothingYet
  <2> QED BY <1>1, <1>2, <1>3, <2>2, <2>3 DEF ScopesOK
<1>8. MainsOK'
  <2>1. MainSeen(trail') <=> MainSeen(trail)
    BY <1>4, <1>5, SeenNext
  <2>2. frames' # <<>> /\ frames'[1] = "func"
    BY <1>1
  <2>3. visitedMain <=> MainSeen(trail)
    BY <1>1, <1>2 DEF Lex, MainsOK
  <2> QED BY <1>1, <2>1, <2>2, <2>3 DEF MainsOK
<1> QED BY <1>6, <1>7, <1>8 DEF Lex

LEMMA MFuncDeclLex ==
    ASSUME Inv, Lex, MFuncDecl
    PROVE  Lex'
<1>1. /\ phase = "next" /\ next <= Len(program) /\ Note("main", program[next].name, next)
      /\ \/ visitedMain /\ phase' = "rejected" /\ frames' = frames
         \/ /\ ~visitedMain /\ phase' = "stmt" /\ frames' = <<"main", "block">>
            /\ m_blocks' = Append(m_blocks, Empty)
      /\ UNCHANGED <<program, m_global, m_func, insideWhile, visitedMain>>
  BY DEF MFuncDecl, VisitNext, source, Reject
<1>2. /\ frames = <<>> /\ m_blocks = <<>> /\ insideWhile = 0
      /\ next \in Nat /\ program[next].name \in Names
  BY <1>1, BetweenFunctions
<1>3. m_func = Empty
  BY <1>1, <1>2 DEF Inv, ParametersOK
<1>4. PICK x \in Node : x.what = "main" /\ trail' = Append(trail, x)
  BY <1>1, <1>2, NodeNoted
<1>5. trail \in Trails /\ x.what \in Starts
  BY <1>4, TrailIs DEF Starts
<1>6. visitedMain <=> MainSeen(trail)
  BY <1>1, <1>2 DEF Lex, MainsOK
<1>7. TrailOK' /\ GlobalsOK' /\ Annotated(trail', program') /\ VerdictOK'
  <2>1. LegalOf(Append(trail, x), program, Len(trail) + 1) <=> ~MainSeen(trail)
    BY <1>4, <1>5, LegalNext
  <2>2. phase' # "rejected" <=> LegalOf(Append(trail, x), program, Len(trail) + 1)
    BY <1>1, <1>6, <2>1
  <2>3. phase' \notin {"globals", "accepted"}
    BY <1>1
  <2> QED BY <1>1, <1>4, <1>5, <2>2, <2>3, OneNode
<1>8. CASE phase' = "rejected"
  BY <1>7, <1>8 DEF Lex, ScopesOK, MainsOK
<1>9. CASE /\ phase' = "stmt" /\ frames' = <<"main", "block">>
           /\ m_blocks' = Append(m_blocks, Empty)
  <2>1. Len(trail') = Len(trail) + 1 /\ trail' \in Trails
    BY <1>4, <1>5, TrailsAre
  <2>2. DepthOf(trail', Len(trail')) = 0 /\ LoopsOf(trail', Len(trail')) = 0
    BY <1>4, <1>5, <2>1, Begun
  <2>3. BlocksAt(trail', <<>>) /\ ParamsAt(trail', Empty)
    BY <1>4, <1>5, NothingYet
  <2>4. BlocksAt(trail', m_blocks')
    <3>1. <<>> \in Seq(ScopeSet)
      OBVIOUS
    <3>2. BlocksAt(trail', Append(<<>>, Empty))
      BY <2>1, <2>3, <3>1, BlocksPush
    <3> QED BY <1>2, <1>9, <3>2
  <2>5. Len(m_blocks') = 1
    BY <1>2, <1>9
  <2>6. ScopesOK'
    BY <1>1, <1>2, <1>3, <1>9, <2>2, <2>3, <2>4, <2>5 DEF ScopesOK
  <2>7. MainSeen(trail')
    BY <1>4, <1>5, SeenNext
  <2>8. frames' # <<>> /\ frames'[1] = "main"
    BY <1>9
  <2>9. MainsOK'
    BY <2>7, <2>8 DEF MainsOK
  <2> QED BY <1>7, <2>6, <2>9 DEF Lex
<1> QED BY <1>1, <1>8, <1>9

LEMMA ParamDeclLex ==
    ASSUME Inv, Lex, NEW name \in Names, ParamDecl(name)
    PROVE  Lex'
<1>1. /\ phase = "params" /\ Note("param", name, Here)
      /\ \/ /\ name \in DOMAIN m_func /\ phase' = "rejected"
         \/ /\ name \notin DOMAIN m_func /\ phase' = phase
            /\ m_func' = Insert(m_func, name, Var(Here))
      /\ UNCHANGED <<program, frames, m_global, m_blocks, insideWhile, visitedMain>>
  BY DEF ParamDecl, Visit, source, state, Reject
<1>2. frames = <<"func">> /\ frames # <<>>
  BY <1>1 DEF Inv, FramesOK
<1>3. Here \in Nat /\ Here = MaxGlobals + (Len(trail) + 1)
  BY HereIs, SemanalAssumption DEF Inv, Types, Here
<1>4. PICK x \in Node : /\ x.what = "param" /\ x.name = name /\ x.line = Here
                        /\ trail' = Append(trail, x)
  BY <1>1, <1>3, NodeNoted DEF AllConstructs
<1>5. /\ x.what \notin Starts /\ x.what \notin Starts \cup {"close", "decl"}
      /\ Shift(x.what) = 0 /\ Turn(x.what) = 0
  BY <1>4 DEF Starts, Shift, Turn
<1>6. trail \in Trails /\ trail # <<>> /\ Len(trail) \in Nat
      /\ DepthOf(trail, Len(trail)) \in Int /\ LoopsOf(trail, Len(trail)) \in Int
  BY <1>2, TrailIs
<1>7. /\ DepthOf(trail, Len(trail)) = 0 /\ LoopsOf(trail, Len(trail)) = insideWhile
      /\ BlocksAt(trail, m_blocks) /\ ParamsAt(trail, m_func)
  BY <1>1, <1>2 DEF Lex, ScopesOK
<1>8. name \in DOMAIN m_func <=> Given(trail, name) # {}
  <2>1. name \in TrailNames
    BY DEF TrailNames
  <2> QED BY <1>7, <2>1 DEF ParamsAt
<1>9. LegalOf(Append(trail, x), program, Len(trail) + 1) <=> Given(trail, name) = {}
  BY <1>4, <1>6, LegalNext
<1>10. phase' # "rejected" <=> LegalOf(Append(trail, x), program, Len(trail) + 1)
  BY <1>1, <1>8, <1>9
<1>11. (ScopesOK' => Lex') /\ (phase' = "rejected" => Lex')
  <2>1. phase' \in {"params", "stmt", "expr", "done", "rejected"}
    BY <1>1
  <2>2. x.what \in {"decl", "param"} => x.line = MaxGlobals + (Len(trail) + 1)
    BY <1>3, <1>4
  <2>3. x.what \notin {"id", "call"}
    BY <1>4
  <2> QED BY <1>1, <1>2, <1>4, <1>5, <1>10, <2>1, <2>2, <2>3, InsideNode
<1>12. CASE name \notin DOMAIN m_func
  <2>1. m_func' = Insert(m_func, x.name, Var(MaxGlobals + (Len(trail) + 1)))
        /\ phase' = "params"
    BY <1>1, <1>3, <1>4, <1>12
  <2>2. ParamsAt(trail', m_func')
    <3>1. m_func \in ScopeSet
      BY DEF Inv, Types
    <3>2. ParamsAt(Append(trail, x),
                   Insert(m_func, x.name, Var(MaxGlobals + (Len(trail) + 1))))
      BY <1>4, <1>6, <1>7, <1>12, <3>1, ParamsAdd
    <3> QED BY <1>4, <2>1, <3>2
  <2>3. BlocksAt(trail', m_blocks')
    BY <1>1, <1>4, <1>5, <1>6, <1>7, BlocksSame
  <2>4. DepthOf(trail', Len(trail')) = 0 /\ LoopsOf(trail', Len(trail')) = insideWhile
    <3>1. Len(trail') = Len(trail) + 1
      BY <1>4, <1>6, TrailsAre
    <3>2. /\ DepthOf(trail', Len(trail) + 1) = DepthOf(trail, Len(trail)) + Shift(x.what)
          /\ LoopsOf(trail', Len(trail) + 1) = LoopsOf(trail, Len(trail)) + Turn(x.what)
      BY <1>4, <1>5, <1>6, Continues
    <3> QED BY <1>5, <1>6, <1>7, <3>1, <3>2
  <2>5. ScopesOK'
    BY <1>1, <2>1, <2>2, <2>3, <2>4 DEF ScopesOK
  <2> QED BY <1>11, <2>5
<1> QED BY <1>1, <1>11, <1>12

LEMMA EndOfParamsLex ==
    ASSUME Inv, Lex, EndOfParams
    PROVE  Lex'
<1>1. /\ phase = "params" /\ phase' = "stmt" /\ frames' = Append(frames, "block")
      /\ m_blocks' = Append(m_blocks, Empty)
      /\ UNCHANGED <<program, trail, m_global, m_func, insideWhile, visitedMain>>
  BY DEF EndOfParams, source, state
<1>2. /\ frames = <<"func">> /\ frames # <<>> /\ frames[1] = "func"
      /\ frames' # <<>> /\ frames'[1] = "func"
  <2>1. frames = <<"func">>
    BY <1>1 DEF Inv, FramesOK
  <2> QED BY <1>1, <2>1
<1>3. Len(m_blocks') = 1
  <2>1. Count("block") = 0
    <3>1. <<"func">> \in Seq(Frames) /\ \A i \in 1..Len(<<"func">>) : <<"func">>[i] = "func"
      BY DEF Frames, BodyFrames
    <3>2. CountOf(<<"func">>, "block") = 0
      BY <3>1, CountIs
    <3> QED BY <1>2, <3>2, CountFrames DEF Inv
  <2>2. Len(m_blocks) = 0
    BY <1>1, <2>1 DEF Inv, StacksFollowVisits
  <2> QED BY <1>1, <2>2 DEF Inv, Types
<1>4. TrailOK' /\ GlobalsOK' /\ Annotated(trail', program') /\ VerdictOK'
  BY <1>1, <1>2, NoNode
<1>5. ScopesOK'
  <2>1. /\ DepthOf(trail, Len(trail)) = 0 /\ LoopsOf(trail, Len(trail)) = insideWhile
        /\ BlocksAt(trail, m_blocks) /\ ParamsAt(trail, m_func)
    BY <1>1, <1>2 DEF Lex, ScopesOK
  <2>2. BlocksAt(trail, Append(m_blocks, Empty))
    <3>1. m_blocks \in Seq(ScopeSet) /\ trail \in Trails
      BY TrailIs DEF Inv, Types
    <3> QED BY <2>1, <3>1, BlocksPush
  <2> QED BY <1>1, <1>3, <2>1, <2>2 DEF ScopesOK
<1>6. MainsOK'
  BY <1>1, <1>2 DEF Lex, MainsOK
<1> QED BY <1>4, <1>5, <1>6 DEF Lex

LEMMA EndOfFuncLex ==
    ASSUME Inv, Lex, EndOfFunc
    PROVE  Lex'
<1>1. /\ phase = "done" /\ Top = "func" /\ frames' = <<>> /\ phase' = "next"
      /\ UNCHANGED <<program, trail, m_global, visitedMain>>
  BY DEF EndOfFunc, source
<1>2. frames # <<>> /\ frames[1] = "func"
  BY <1>1, Inside, ShapeEnds DEF Top
<1>3. TrailOK' /\ GlobalsOK' /\ Annotated(trail', program') /\ VerdictOK'
  BY <1>1, NoNode
<1>4. ScopesOK' /\ MainsOK'
  BY <1>1, <1>2 DEF Lex, ScopesOK, MainsOK
<1> QED BY <1>3, <1>4 DEF Lex

LEMMA EndOfMainLex ==
    ASSUME Inv, Lex, EndOfMain
    PROVE  Lex'
<1>1. /\ phase = "done" /\ Top = "main" /\ frames' = <<>> /\ phase' = "next"
      /\ visitedMain' = TRUE
      /\ UNCHANGED <<program, trail, m_global>>
  BY DEF EndOfMain, source, table
<1>2. frames # <<>> /\ frames[1] = "main"
  BY <1>1, Inside, ShapeEnds DEF Top
<1>3. TrailOK' /\ GlobalsOK' /\ Annotated(trail', program') /\ VerdictOK'
  BY <1>1, NoNode
<1>4. ScopesOK' /\ MainsOK'
  BY <1>1, <1>2 DEF Lex, ScopesOK, MainsOK
<1> QED BY <1>3, <1>4 DEF Lex

LEMMA EndOfProgramLex ==
    ASSUME Inv, Lex, EndOfProgram
    PROVE  Lex'
<1>1. /\ phase = "next" /\ next > Len(program)
      /\ phase' = IF visitedMain THEN "accepted" ELSE "rejected"
      /\ UNCHANGED <<program, next, frames, trail, m_global, visitedMain>>
  BY DEF EndOfProgram, source, table, state
<1>2. frames = <<>>
  BY <1>1 DEF Inv, FramesOK
<1>3. visitedMain <=> MainThere(program)
  <2>1. Len(program) \in Nat /\ next \in 1..(Len(program) + 1)
    BY DEF Inv, Types
  <2>2. 1..(next - 1) = 1..Len(program)
    BY <1>1, <2>1
  <2>3. visitedMain <=> \E g \in 1..(next - 1) : IsMain(g)
    BY <1>1 DEF Inv, DeclarationsOK
  <2> QED BY <2>2, <2>3 DEF MainThere, IsMain
<1>4. TrailOK' /\ GlobalsOK' /\ Annotated(trail', program')
  BY <1>1 DEF Lex, TrailOK, GlobalsOK
<1>5. VerdictOK'
  BY <1>1, <1>3 DEF Lex, VerdictOK
<1>6. ScopesOK' /\ MainsOK'
  BY <1>1, <1>2 DEF Lex, ScopesOK, MainsOK
<1> QED BY <1>4, <1>5, <1>6 DEF Lex

-----------------------------------------------------------------------------
(* Steps inside a function.                                                *)

\* What holds there.
LEMMA InsideLex ==
    ASSUME Inv, Lex, phase \in {"stmt", "expr", "done"}
    PROVE  /\ frames # <<>> /\ trail \in Trails /\ trail # <<>> /\ Len(trail) \in Nat
           /\ DepthOf(trail, Len(trail)) = Len(m_blocks) - 1
           /\ LoopsOf(trail, Len(trail)) = insideWhile
           /\ BlocksAt(trail, m_blocks) /\ ParamsAt(trail, m_func)
           /\ m_blocks \in Seq(ScopeSet) /\ m_func \in ScopeSet /\ insideWhile \in Nat
           /\ Len(m_blocks) \in Nat
           /\ phase = "stmt" => m_blocks # <<>>
<1>1. frames # <<>> /\ Shape(frames) /\ (phase = "stmt" => Len(frames) >= 2)
  BY Inside
<1>2. /\ m_blocks \in Seq(ScopeSet) /\ m_func \in ScopeSet /\ insideWhile \in Nat
      /\ Len(m_blocks) \in Nat /\ frames \in Seq(Frames)
  BY DEF Inv, Types
<1>3. trail \in Trails /\ trail # <<>> /\ Len(trail) \in Nat
  BY <1>1, TrailIs
<1>4. /\ DepthOf(trail, Len(trail)) = Len(m_blocks) - 1
      /\ LoopsOf(trail, Len(trail)) = insideWhile
      /\ BlocksAt(trail, m_blocks) /\ ParamsAt(trail, m_func)
  BY <1>1 DEF Lex, ScopesOK
<1>5. phase = "stmt" => m_blocks # <<>>
  <2> SUFFICES ASSUME phase = "stmt" PROVE m_blocks # <<>>
    OBVIOUS
  <2>1. frames[2] = "block" /\ 2 \in 1..Len(frames)
    BY <1>1, <1>2 DEF Shape
  <2>2. CountOf(frames, "block") # 0
    BY <1>2, <2>1, CountIs
  <2>3. Len(m_blocks) = Count("block")
    BY DEF Inv, StacksFollowVisits
  <2>4. Len(m_blocks) # 0
    BY <2>2, <2>3, CountFrames DEF Inv
  <2> QED BY <2>4
<1> QED BY <1>1, <1>2, <1>3, <1>4, <1>5

LEMMA ConstructNoted ==
    ASSUME NEW c \in AllConstructs \cup {"close", "end"}, Note(c, "-", NoLine)
    PROVE  \E x \in Node : x.what = c /\ trail' = Append(trail, x)
<1>1. /\ c \in AllConstructs \cup {"func", "main", "close", "end"}
      /\ "-" \in Names \cup {"-"} /\ NoLine \in Nat \cup {NoLine}
  OBVIOUS
<1> QED BY <1>1, NodeNoted

LEMMA NameNoted ==
    ASSUME NEW what, what \in AllConstructs, NEW name, name \in Names,
           NEW line, line \in Nat \cup {NoLine}, Note(what, name, line)
    PROVE  \E x \in Node : /\ x.what = what /\ x.name = name /\ x.line = line
                           /\ trail' = Append(trail, x)
<1>1. what \in AllConstructs \cup {"func", "main", "close", "end"}
  OBVIOUS
<1>2. name \in Names \cup {"-"}
  OBVIOUS
<1> QED BY ONLY <1>1, <1>2, line \in Nat \cup {NoLine}, Note(what, name, line), NodeNoted

LEMMA BlockStmtLex ==
    ASSUME Inv, Lex, BlockStmt
    PROVE  Lex'
<1>1. /\ phase = "stmt" /\ phase' = "stmt" /\ frames' = Append(frames, "block")
      /\ m_blocks' = Append(m_blocks, Empty) /\ Note("block", "-", NoLine)
      /\ UNCHANGED <<program, m_global, m_func, insideWhile, visitedMain>>
  BY DEF BlockStmt, Enter, Visit, source, state
<1>2. frames'[1] = frames[1] /\ frames' # <<>> /\ frames # <<>>
  BY <1>1, Pushed DEF Frames, BodyFrames
<1>3. PICK x \in Node : x.what = "block" /\ trail' = Append(trail, x)
  BY <1>1, ConstructNoted DEF AllConstructs
<1>4. /\ x.what \notin Starts /\ x.what \notin Starts \cup {"close", "decl"}
      /\ x.what \notin Starts \cup {"param"} /\ Shift(x.what) = 1 /\ Turn(x.what) = 0
  BY <1>3 DEF Starts, Shift, Turn
<1>5. /\ trail \in Trails /\ trail # <<>> /\ Len(trail) \in Nat
      /\ DepthOf(trail, Len(trail)) = Len(m_blocks) - 1
      /\ LoopsOf(trail, Len(trail)) = insideWhile
      /\ BlocksAt(trail, m_blocks) /\ ParamsAt(trail, m_func)
      /\ m_blocks \in Seq(ScopeSet) /\ insideWhile \in Nat /\ Len(m_blocks) \in Nat
  BY <1>1, InsideLex
<1>6. LegalOf(Append(trail, x), program, Len(trail) + 1)
  BY <1>3, <1>5, LegalNext
<1>7. ScopesOK' => Lex'
  BY <1>1, <1>2, <1>3, <1>4, <1>6, InsideNode
<1>8. Len(trail') = Len(trail) + 1 /\ trail' \in Trails
  BY <1>3, <1>5, TrailsAre
<1>9. Len(m_blocks') = Len(m_blocks) + 1
  BY <1>1, <1>5
<1>10. DepthOf(trail', Len(trail')) = Len(m_blocks') - 1
       /\ LoopsOf(trail', Len(trail')) = insideWhile
  <2>1. /\ DepthOf(trail', Len(trail) + 1) = DepthOf(trail, Len(trail)) + Shift(x.what)
        /\ LoopsOf(trail', Len(trail) + 1) = LoopsOf(trail, Len(trail)) + Turn(x.what)
    BY <1>3, <1>4, <1>5, Continues
  <2> QED BY <1>4, <1>5, <1>8, <1>9, <2>1
<1>11. BlocksAt(trail', m_blocks')
  <2>1. BlocksAt(trail', m_blocks)
    BY <1>3, <1>4, <1>5, BlocksSame
  <2>2. BlocksAt(trail', Append(m_blocks, Empty))
    BY <1>5, <1>8, <2>1, BlocksPush
  <2> QED BY <1>1, <2>2
<1>12. ParamsAt(trail', m_func')
  BY <1>1, <1>3, <1>4, <1>5, ParamsSame
<1>13. ScopesOK'
  BY <1>1, <1>10, <1>11, <1>12 DEF ScopesOK
<1> QED BY <1>7, <1>13

LEMMA EndOfBlockLex ==
    ASSUME Inv, Lex, EndOfBlock
    PROVE  Lex'
<1>1. /\ phase = "stmt" /\ Top = "block" /\ frames' = Pop(frames) /\ Done(frames')
      /\ m_blocks' = Pop(m_blocks) /\ Note("close", "-", NoLine)
      /\ UNCHANGED <<program, m_global, m_func, insideWhile, visitedMain>>
  BY DEF EndOfBlock, Leave, source, state
<1>2. /\ frames'[1] = frames[1] /\ frames' # <<>> /\ frames # <<>>
      /\ phase' \in {"stmt", "done"}
  BY <1>1, Popped DEF Done
<1>3. PICK x \in Node : x.what = "close" /\ trail' = Append(trail, x)
  BY <1>1, ConstructNoted
<1>4. /\ x.what \notin Starts /\ x.what \notin Starts \cup {"param"}
      /\ Shift(x.what) = -1 /\ Turn(x.what) = 0
  BY <1>3 DEF Starts, Shift, Turn
<1>5. /\ trail \in Trails /\ trail # <<>> /\ Len(trail) \in Nat
      /\ DepthOf(trail, Len(trail)) = Len(m_blocks) - 1
      /\ LoopsOf(trail, Len(trail)) = insideWhile
      /\ BlocksAt(trail, m_blocks) /\ ParamsAt(trail, m_func)
      /\ m_blocks \in Seq(ScopeSet) /\ insideWhile \in Nat /\ Len(m_blocks) \in Nat
      /\ m_blocks # <<>>
  BY <1>1, InsideLex
<1>6. LegalOf(Append(trail, x), program, Len(trail) + 1)
  BY <1>3, <1>5, LegalNext
<1>7. ScopesOK' => Lex'
  BY <1>1, <1>2, <1>3, <1>4, <1>6, InsideNode
<1>8. Len(trail') = Len(trail) + 1
  BY <1>3, <1>5, TrailsAre
<1>9. Len(m_blocks') = Len(m_blocks) - 1
  BY <1>1, <1>5, PopIs
<1>10. DepthOf(trail', Len(trail')) = Len(m_blocks') - 1
       /\ LoopsOf(trail', Len(trail')) = insideWhile
  <2>1. /\ DepthOf(trail', Len(trail) + 1) = DepthOf(trail, Len(trail)) + Shift(x.what)
        /\ LoopsOf(trail', Len(trail) + 1) = LoopsOf(trail, Len(trail)) + Turn(x.what)
    BY <1>3, <1>4, <1>5, Continues
  <2> QED BY <1>4, <1>5, <1>8, <1>9, <2>1
<1>11. BlocksAt(trail', m_blocks')
  BY <1>1, <1>3, <1>5, BlocksClose
<1>12. ParamsAt(trail', m_func')
  BY <1>1, <1>3, <1>4, <1>5, ParamsSame
<1>13. ScopesOK'
  BY <1>1, <1>2, <1>10, <1>11, <1>12 DEF ScopesOK
<1> QED BY <1>7, <1>13

LEMMA VarDeclLex ==
    ASSUME Inv, Lex, NEW name \in Names, VarDecl(name)
    PROVE  Lex'
<1> DEFINE block == m_blocks[Len(m_blocks)]
<1>1. /\ phase = "stmt" /\ Note("decl", name, Here)
      /\ \/ /\ m_blocks = <<>> \/ name \in DOMAIN block
            /\ phase' = "rejected"
         \/ /\ name \notin DOMAIN block /\ Done(frames)
            /\ m_blocks' = Append(Pop(m_blocks), Insert(block, name, Var(Here)))
      /\ UNCHANGED <<program, frames, m_global, m_func, insideWhile, visitedMain>>
  BY DEF VarDecl, Visit, source, state, Reject
<1>2. Here \in Nat /\ Here = MaxGlobals + (Len(trail) + 1)
  BY HereIs, SemanalAssumption DEF Inv, Types, Here
<1>3. PICK x \in Node : /\ x.what = "decl" /\ x.name = name /\ x.line = Here
                        /\ trail' = Append(trail, x)
  BY <1>1, <1>2, NodeNoted DEF AllConstructs
<1>4. /\ x.what \notin Starts /\ x.what \notin Starts \cup {"param"}
      /\ Shift(x.what) = 0 /\ Turn(x.what) = 0
  BY <1>3 DEF Starts, Shift, Turn
<1>5. /\ trail \in Trails /\ trail # <<>> /\ Len(trail) \in Nat /\ frames # <<>>
      /\ DepthOf(trail, Len(trail)) = Len(m_blocks) - 1
      /\ LoopsOf(trail, Len(trail)) = insideWhile
      /\ BlocksAt(trail, m_blocks) /\ ParamsAt(trail, m_func)
      /\ m_blocks \in Seq(ScopeSet) /\ insideWhile \in Nat /\ Len(m_blocks) \in Nat
      /\ m_blocks # <<>>
  BY <1>1, InsideLex
<1>6. name \in TrailNames /\ Len(m_blocks) \in 1..Len(m_blocks)
  BY <1>5 DEF TrailNames
<1>7. \A d \in Visible(trail, name) :
          /\ DepthOf(trail, d) \in Int
          /\ DepthOf(trail, d) + 1 \in 1..Len(m_blocks)
          /\ name \in DOMAIN m_blocks[DepthOf(trail, d) + 1]
  BY <1>5, <1>6, VisibleIs DEF BlocksAt
<1>8. name \in DOMAIN block =>
          \E d \in Visible(trail, name) : DepthOf(trail, d) = Len(m_blocks) - 1
  BY <1>5, <1>6 DEF BlocksAt
<1> HIDE DEF block
<1>9. name \notin DOMAIN block <=>
          \A d \in Visible(trail, name) : DepthOf(trail, d) < DepthOf(trail, Len(trail))
  <2>1. ASSUME name \notin DOMAIN block, NEW d \in Visible(trail, name)
        PROVE  DepthOf(trail, d) < Len(m_blocks) - 1
    <3>1. DepthOf(trail, d) + 1 # Len(m_blocks)
      BY <1>7, <2>1 DEF block
    <3> QED BY <1>5, <1>7, <2>1, <3>1
  <2>2. ASSUME name \in DOMAIN block
        PROVE  \E d \in Visible(trail, name) : ~(DepthOf(trail, d) < Len(m_blocks) - 1)
    <3>1. PICK d \in Visible(trail, name) : DepthOf(trail, d) = Len(m_blocks) - 1
      BY <1>8, <2>2
    <3>2. ~(DepthOf(trail, d) < Len(m_blocks) - 1)
      BY <1>5, <3>1
    <3> QED BY <3>2
  <2> QED BY <1>5, <2>1, <2>2
<1>10. LegalOf(Append(trail, x), program, Len(trail) + 1) <=>
           \A d \in Visible(trail, name) : DepthOf(trail, d) < DepthOf(trail, Len(trail))
  BY <1>3, <1>5, LegalNext
<1>11. phase' \in {"stmt", "done", "rejected"}
       /\ (phase' = "rejected" <=> name \in DOMAIN block)
  <2>1. Done(frames) => phase' \in {"stmt", "done"}
    BY DEF Done
  <2> QED BY <1>1, <1>5, <2>1
<1>12. phase' # "rejected" <=> LegalOf(Append(trail, x), program, Len(trail) + 1)
  BY <1>9, <1>10, <1>11
<1>13. (ScopesOK' => Lex') /\ (phase' = "rejected" => Lex')
  <2>1. phase' \in {"params", "stmt", "expr", "done", "rejected"}
    BY <1>11
  <2>2. x.what \in {"decl", "param"} => x.line = MaxGlobals + (Len(trail) + 1)
    BY <1>2, <1>3
  <2>3. x.what \notin {"id", "call"}
    BY <1>3
  <2>4. frames' # <<>> /\ frames'[1] = frames[1]
    BY <1>1, <1>5
  <2> QED BY <1>1, <1>3, <1>4, <1>5, <1>12, <2>1, <2>2, <2>3, <2>4, InsideNode
<1>14. CASE phase' # "rejected"
  <2>1. /\ name \notin DOMAIN block
        /\ m_blocks' = Append(Pop(m_blocks),
                              Insert(block, x.name, Var(MaxGlobals + (Len(trail) + 1))))
    BY <1>1, <1>2, <1>3, <1>11, <1>14
  <2>2. BlocksAt(Append(trail, x),
                 Append(Pop(m_blocks), Insert(m_blocks[Len(m_blocks)], x.name,
                                              Var(MaxGlobals + (Len(trail) + 1)))))
    <3>1. x.name \in Names /\ x.name \notin DOMAIN m_blocks[Len(m_blocks)]
      BY <1>3, <2>1 DEF block
    <3> QED BY <1>3, <1>5, <3>1, BlocksDecl
  <2>3. BlocksAt(trail', m_blocks')
    BY <1>3, <2>1, <2>2 DEF block
  <2>4. ParamsAt(trail', m_func')
    BY <1>1, <1>3, <1>4, <1>5, ParamsSame
  <2>5. Len(m_blocks') = Len(m_blocks)
    <3>1. Pop(m_blocks) \in Seq(ScopeSet) /\ Len(Pop(m_blocks)) = Len(m_blocks) - 1
      BY <1>5, PopIs
    <3> QED BY <1>5, <2>1, <3>1
  <2>6. DepthOf(trail', Len(trail')) = Len(m_blocks') - 1
        /\ LoopsOf(trail', Len(trail')) = insideWhile
    <3>1. Len(trail') = Len(trail) + 1
      BY <1>3, <1>5, TrailsAre
    <3>2. /\ DepthOf(trail', Len(trail) + 1) = DepthOf(trail, Len(trail)) + Shift(x.what)
          /\ LoopsOf(trail', Len(trail) + 1) = LoopsOf(trail, Len(trail)) + Turn(x.what)
      BY <1>3, <1>4, <1>5, Continues
    <3> QED BY <1>4, <1>5, <2>5, <3>1, <3>2
  <2>7. ScopesOK'
    BY <1>1, <1>11, <2>3, <2>4, <2>6 DEF ScopesOK
  <2> QED BY <1>13, <2>7
<1> QED BY <1>13, <1>14

LEMMA BreakStmtLex ==
    ASSUME Inv, Lex, BreakStmt
    PROVE  Lex'
<1>1. /\ phase = "stmt" /\ Note("break", "-", NoLine)
      /\ IF insideWhile = 0 THEN phase' = "rejected" ELSE Done(frames)
      /\ UNCHANGED <<program, frames, m_global, m_func, m_blocks, insideWhile, visitedMain>>
  BY DEF BreakStmt, Enter, Visit, source, table, state, Reject
<1>2. PICK x \in Node : x.what = "break" /\ trail' = Append(trail, x)
  BY <1>1, ConstructNoted DEF AllConstructs
<1>3. /\ trail \in Trails /\ trail # <<>> /\ frames # <<>> /\ insideWhile \in Nat
      /\ LoopsOf(trail, Len(trail)) = insideWhile
  BY <1>1, InsideLex
<1>4. LegalOf(Append(trail, x), program, Len(trail) + 1) <=> LoopsOf(trail, Len(trail)) > 0
  BY <1>2, <1>3, LegalNext
<1>5. phase' \in {"stmt", "done", "rejected"} /\ (phase' = "rejected" <=> insideWhile = 0)
  BY <1>1 DEF Done
<1>6. phase' # "rejected" <=> LegalOf(Append(trail, x), program, Len(trail) + 1)
  BY <1>3, <1>4, <1>5
<1>7. /\ phase \in {"stmt", "expr", "done"} /\ frames' # <<>> /\ frames'[1] = frames[1]
      /\ phase' \in {"stmt", "expr", "done", "rejected"}
      /\ x.what \in {"expr", "return", "if", "ifelse", "break", "id", "call"}
      /\ x.what \notin {"id", "call"}
  BY <1>1, <1>2, <1>3, <1>5
<1> QED BY <1>1, <1>2, <1>3, <1>6, <1>7, PlainNode

LEMMA EvaluateLex ==
    ASSUME Inv, Lex, NEW c \in {"expr", "return", "if", "ifelse"}, Evaluate(c)
    PROVE  Lex'
<1>1. /\ phase = "stmt" /\ phase' = "expr" /\ Note(c, "-", NoLine)
      /\ frames' = Append(frames, c)
      /\ UNCHANGED <<program, m_global, m_func, m_blocks, insideWhile, visitedMain>>
  BY DEF Evaluate, Enter, Visit, source, table, state
<1>2. PICK x \in Node : x.what = c /\ trail' = Append(trail, x)
  BY <1>1, ConstructNoted DEF AllConstructs
<1>3. c \in Frames \ {"func", "main"}
  BY DEF Frames, BodyFrames, ExprFrames
<1>4. frames'[1] = frames[1] /\ frames' # <<>> /\ frames # <<>>
  BY <1>1, <1>3, Pushed
<1>5. trail \in Trails /\ trail # <<>>
  BY <1>1, InsideLex
<1>6. LegalOf(Append(trail, x), program, Len(trail) + 1)
  BY <1>2, <1>5, LegalNext
<1>7. /\ phase \in {"stmt", "expr", "done"}
      /\ phase' \in {"stmt", "expr", "done", "rejected"} /\ phase' # "rejected"
      /\ x.what \in {"expr", "return", "if", "ifelse", "break", "id", "call"}
      /\ x.what \notin {"id", "call"}
  BY <1>1, <1>2
<1> QED BY <1>1, <1>2, <1>4, <1>6, <1>7, PlainNode

\* m_inside_while.push() and pop().
LEMMA LoopNode ==
    ASSUME Inv, Lex, phase \in {"stmt", "expr", "done"}, phase' \in {"stmt", "expr", "done"},
           frames # <<>>, frames' # <<>>, frames'[1] = frames[1],
           NEW x \in Node, trail' = Append(trail, x), x.what \in {"while", "end"},
           insideWhile' = insideWhile + Turn(x.what),
           UNCHANGED <<program, m_global, m_func, m_blocks, visitedMain>>
    PROVE  Lex'
<1>1. /\ x.what \notin Starts /\ x.what \notin Starts \cup {"close", "decl"}
      /\ x.what \notin Starts \cup {"param"} /\ Shift(x.what) = 0 /\ Turn(x.what) \in Int
      /\ x.what \notin {"decl", "param", "id", "call", "break", "main"}
  BY DEF Starts, Shift, Turn
<1>2. /\ trail \in Trails /\ trail # <<>> /\ Len(trail) \in Nat
      /\ DepthOf(trail, Len(trail)) = Len(m_blocks) - 1
      /\ LoopsOf(trail, Len(trail)) = insideWhile
      /\ BlocksAt(trail, m_blocks) /\ ParamsAt(trail, m_func)
      /\ insideWhile \in Nat /\ Len(m_blocks) \in Nat
  BY InsideLex
<1>3. LegalOf(Append(trail, x), program, Len(trail) + 1)
  BY <1>1, <1>2, LegalNext
<1>4. ScopesOK' => Lex'
  <2>1. /\ phase \in {"params", "stmt", "expr", "done"}
        /\ phase' \in {"params", "stmt", "expr", "done", "rejected"}
        /\ phase' # "rejected"
    OBVIOUS
  <2> QED BY <1>1, <1>3, <2>1, InsideNode
<1>5. DepthOf(trail', Len(trail')) = Len(m_blocks) - 1
      /\ LoopsOf(trail', Len(trail')) = insideWhile'
  <2>1. Len(trail') = Len(trail) + 1
    BY <1>2, TrailsAre
  <2>2. /\ DepthOf(trail', Len(trail) + 1) = DepthOf(trail, Len(trail)) + Shift(x.what)
        /\ LoopsOf(trail', Len(trail) + 1) = LoopsOf(trail, Len(trail)) + Turn(x.what)
    BY <1>1, <1>2, Continues
  <2> QED BY <1>1, <1>2, <2>1, <2>2
<1>6. BlocksAt(trail', m_blocks)
  BY <1>1, <1>2, BlocksSame
<1>7. ParamsAt(trail', m_func)
  BY <1>1, <1>2, ParamsSame
<1>8. ScopesOK'
  BY <1>5, <1>6, <1>7 DEF ScopesOK
<1> QED BY <1>4, <1>8

LEMMA WhileStmtLex ==
    ASSUME Inv, Lex, WhileStmt
    PROVE  Lex'
<1>1. /\ phase = "stmt" /\ phase' = "expr" /\ Note("while", "-", NoLine)
      /\ frames' = Append(frames, "while") /\ insideWhile' = insideWhile + 1
      /\ UNCHANGED <<program, m_global, m_func, m_blocks, visitedMain>>
  BY DEF WhileStmt, Enter, Visit, source, table
<1>2. PICK x \in Node : x.what = "while" /\ trail' = Append(trail, x)
  BY <1>1, ConstructNoted DEF AllConstructs
<1>3. frames'[1] = frames[1] /\ frames' # <<>> /\ frames # <<>>
  BY <1>1, Pushed DEF Frames, BodyFrames
<1>4. Turn(x.what) = 1
  BY <1>2 DEF Turn
<1> QED BY <1>1, <1>2, <1>3, <1>4, LoopNode

LEMMA EndOfWhileLex ==
    ASSUME Inv, Lex, EndOfWhile
    PROVE  Lex'
<1>1. /\ phase = "done" /\ Top = "while" /\ Note("end", "-", NoLine)
      /\ frames' = Pop(frames) /\ Done(frames') /\ insideWhile' = insideWhile - 1
      /\ UNCHANGED <<program, m_global, m_func, m_blocks, visitedMain>>
  BY DEF EndOfWhile, Leave, source, table
<1>2. PICK x \in Node : x.what = "end" /\ trail' = Append(trail, x)
  BY <1>1, ConstructNoted
<1>3. /\ frames'[1] = frames[1] /\ frames' # <<>> /\ frames # <<>>
      /\ phase' \in {"stmt", "done"}
  BY <1>1, Popped DEF Done
<1>4. Turn(x.what) = -1 /\ insideWhile' = insideWhile + (-1)
  <2>1. insideWhile \in Nat
    BY DEF Inv, Types
  <2> QED BY <1>1, <1>2, <2>1 DEF Turn
<1> QED BY <1>1, <1>2, <1>3, <1>4, LoopNode

LEMMA UseLex ==
    ASSUME Inv, Lex, NEW what \in {"id", "call"}, NEW name \in Names, NEW acceptable,
           Use(what, name, acceptable),
           Found(name) # {} =>
               (acceptable <=>
                    IF what = "id" THEN Query(name).kind = "VAR"
                    ELSE Query(name).kind # "VAR" /\ ~Query(name).isMain)
    PROVE  Lex'
<1> DEFINE meant == StandsFor(trail, program, name)
<1>1. /\ phase = "expr"
      /\ IF Found(name) # {} /\ acceptable
         THEN Note(what, name, Query(name).line) /\ phase' = phase
         ELSE Note(what, name, NoLine) /\ phase' = "rejected"
      /\ UNCHANGED <<program, frames, m_global, m_func, m_blocks, insideWhile, visitedMain>>
  BY DEF Use, Visit, source, table, state, Reject
<1>2. trail \in Trails /\ trail # <<>> /\ frames # <<>>
  BY <1>1, InsideLex
<1>3. /\ Found(name) # {} <=> meant # NoLine
      /\ Found(name) # {} => /\ Query(name).line = meant
                             /\ Query(name).kind = "VAR" <=> VarOf(program, meant)
                             /\ Query(name).isMain <=> MainOf(program, meant)
                             /\ Query(name) \in Symbol
  BY <1>1, <1>2, LooksUp
<1>4. Found(name) # {} => Query(name).line \in Nat
  BY <1>3 DEF Symbol, Lines
<1>5. PICK x \in Node : /\ x.what = what /\ x.name = name /\ trail' = Append(trail, x)
                        /\ IF Found(name) # {} /\ acceptable
                           THEN x.line = Query(name).line ELSE x.line = NoLine
  <2>1. what \in AllConstructs /\ name \in Names
    BY DEF AllConstructs
  <2>2. CASE Found(name) # {} /\ acceptable
    <3>1. Note(what, name, Query(name).line) /\ Query(name).line \in Nat \cup {NoLine}
      BY <1>1, <1>4, <2>2
    <3>2. \E x \in Node : /\ x.what = what /\ x.name = name /\ x.line = Query(name).line
                          /\ trail' = Append(trail, x)
      BY ONLY <2>1, <3>1, NameNoted
    <3> QED BY <2>2, <3>2
  <2>3. CASE ~(Found(name) # {} /\ acceptable)
    <3>1. Note(what, name, NoLine) /\ NoLine \in Nat \cup {NoLine}
      BY <1>1, <2>3
    <3>2. \E x \in Node : /\ x.what = what /\ x.name = name /\ x.line = NoLine
                          /\ trail' = Append(trail, x)
      BY ONLY <2>1, <3>1, NameNoted
    <3> QED BY <2>3, <3>2
  <2> QED BY <2>2, <2>3
<1> HIDE DEF meant
<1>6. x.what \in {"id", "call"} /\ x.line # NoLine => x.line = meant
  BY <1>3, <1>5
<1>7. phase' # "rejected" <=> Found(name) # {} /\ acceptable
  BY <1>1
<1>8. LegalOf(Append(trail, x), program, Len(trail) + 1) <=>
          Found(name) # {} /\ acceptable
  <2>1. CASE what = "id"
    <3>1. LegalOf(Append(trail, x), program, Len(trail) + 1) <=>
              meant # NoLine /\ VarOf(program, meant)
      BY <1>2, <1>5, <2>1, LegalNext DEF meant
    <3>2. ASSUME Found(name) # {}
          PROVE  acceptable <=> VarOf(program, meant)
      BY <1>3, <2>1, <3>2
    <3> QED BY <1>3, <3>1, <3>2
  <2>2. CASE what = "call"
    <3>1. LegalOf(Append(trail, x), program, Len(trail) + 1) <=>
              meant # NoLine /\ ~VarOf(program, meant) /\ ~MainOf(program, meant)
      BY <1>2, <1>5, <2>2, LegalNext DEF meant
    <3>2. ASSUME Found(name) # {}
          PROVE  acceptable <=> ~VarOf(program, meant) /\ ~MainOf(program, meant)
      BY <1>3, <2>2, <3>2
    <3> QED BY <1>3, <3>1, <3>2
  <2> QED BY <2>1, <2>2
<1>9. phase' # "rejected" <=> LegalOf(Append(trail, x), program, Len(trail) + 1)
  BY <1>7, <1>8
<1>10. /\ phase \in {"stmt", "expr", "done"} /\ frames' # <<>> /\ frames'[1] = frames[1]
       /\ phase' \in {"stmt", "expr", "done", "rejected"}
       /\ x.what \in {"expr", "return", "if", "ifelse", "break", "id", "call"}
  BY <1>1, <1>2, <1>5
<1>11. x.what \in {"id", "call"} /\ x.line # NoLine =>
           x.line = StandsFor(trail, program, x.name)
  BY <1>5, <1>6 DEF meant
<1> QED BY <1>1, <1>2, <1>5, <1>9, <1>10, <1>11, PlainNode

LEMMA ExpressionsLex ==
    ASSUME Inv, Lex, NEW name \in Names, IdExpr(name) \/ FuncCallExpr(name)
    PROVE  Lex'
<1>1. Found(name) # {} => Query(name).kind \in {"VAR", "FUNC"}
  <2>1. Found(name) # {} => Query(name) \in Symbol
    BY QueryIs DEF Inv
  <2> QED BY <2>1 DEF Symbol
<1>2. CASE IdExpr(name)
  <2>1. Use("id", name, Query(name).kind # "FUNC")
    BY <1>2 DEF IdExpr
  <2>2. Found(name) # {} => (Query(name).kind # "FUNC" <=> Query(name).kind = "VAR")
    BY <1>1
  <2> QED BY <2>1, <2>2, UseLex
<1>3. CASE FuncCallExpr(name)
  <2>1. Use("call", name, Query(name).kind # "VAR" /\ ~Query(name).isMain)
    BY <1>3 DEF FuncCallExpr
  <2> QED BY <2>1, UseLex
<1> QED BY <1>2, <1>3

\* Steps that only follow the calls of visit().
LEMMA FollowsLex ==
    ASSUME Inv, Lex, NullStmt \/ EndOfExpr \/ EndOfReturn \/ EndOfCondition \/ EndOfIf \/ Else
    PROVE  Lex'
<1>1. /\ phase \in {"stmt", "expr", "done"}
      /\ UNCHANGED <<trail, program, m_global, m_func, m_blocks, insideWhile, visitedMain>>
  BY DEF NullStmt, EndOfExpr, EndOfReturn, EndOfCondition, EndOfIf, Else, source, table, state
<1>2. frames # <<>> /\ Shape(frames)
  BY <1>1, Inside
<1>3. ASSUME NEW F, Done(F) PROVE phase' \in {"stmt", "done"}
  BY <1>3 DEF Done
<1>4. ASSUME Top \notin {"func", "main"}
      PROVE  /\ Pop(frames)[1] = frames[1] /\ Pop(frames) # <<>>
             /\ Pop(frames) \in Seq(Frames)
  BY <1>2, <1>4, ShapePop DEF Top, Shape
<1>5. CASE NullStmt
  <2>1. phase' \in {"stmt", "done"} /\ frames' = frames
    BY <1>3, <1>5 DEF NullStmt
  <2> QED BY <1>1, <1>2, <2>1, NoNodeInside
<1>6. CASE EndOfExpr
  <2>1. phase' \in {"stmt", "done"} /\ frames' = Pop(frames) /\ Top = "expr"
    BY <1>3, <1>6 DEF EndOfExpr
  <2>2. frames' # <<>> /\ frames'[1] = frames[1]
    BY <1>4, <2>1
  <2> QED BY <1>1, <1>2, <2>1, <2>2, NoNodeInside
<1>7. CASE EndOfReturn
  <2>1. currentFunction # NoLine
    <3>1. phase # "rejected"
      BY <1>1
    <3> QED BY <1>2, <3>1 DEF Inv, StacksFollowVisits
  <2>2. phase' \in {"stmt", "done"} /\ frames' = Pop(frames) /\ Top = "return"
    BY <1>3, <1>7, <2>1 DEF EndOfReturn
  <2>3. frames' # <<>> /\ frames'[1] = frames[1]
    BY <1>4, <2>2
  <2> QED BY <1>1, <1>2, <2>2, <2>3, NoNodeInside
<1>8. CASE EndOfCondition
  <2>1. phase' = "stmt" /\ frames' = frames
    BY <1>8 DEF EndOfCondition
  <2> QED BY <1>1, <1>2, <2>1, NoNodeInside
<1>9. CASE EndOfIf
  <2>1. phase' \in {"stmt", "done"} /\ frames' = Pop(frames) /\ Top \in {"if", "else"}
    BY <1>3, <1>9 DEF EndOfIf
  <2>2. frames' # <<>> /\ frames'[1] = frames[1]
    BY <1>4, <2>1
  <2> QED BY <1>1, <1>2, <2>1, <2>2, NoNodeInside
<1>10. CASE Else
  <2>1. phase' = "stmt" /\ frames' = Append(Pop(frames), "else") /\ Top = "ifelse"
    BY <1>10 DEF Else
  <2>2. frames' # <<>> /\ frames'[1] = frames[1]
    <3>1. /\ Pop(frames)[1] = frames[1] /\ Pop(frames) # <<>>
          /\ Pop(frames) \in Seq(Frames)
      BY <1>4, <2>1
    <3>2. 1 \in 1..Len(Pop(frames))
      BY <3>1
    <3>3. Append(Pop(frames), "else")[1] = Pop(frames)[1]
      BY <3>1, <3>2
    <3>4. Append(Pop(frames), "else") # <<>>
      BY <3>1
    <3> QED BY <2>1, <3>1, <3>3, <3>4
  <2> QED BY <1>1, <1>2, <2>1, <2>2, NoNodeInside
<1> QED BY <1>5, <1>6, <1>7, <1>8, <1>9, <1>10

LEMMA StutterLex ==
    ASSUME Lex, UNCHANGED vars
    PROVE  Lex'
<1>1. UNCHANGED <<phase, program, next, frames, trail, m_global, m_func, m_blocks,
                  insideWhile, visitedMain>>
  BY DEF vars
<1>2. TrailOK' /\ GlobalsOK' /\ MainsOK'
  BY <1>1 DEF Lex, TrailOK, GlobalsOK, MainsOK
<1>3. ScopesOK'
  BY <1>1 DEF Lex, ScopesOK
<1>4. Annotated(trail', program') /\ VerdictOK'
  BY <1>1 DEF Lex, VerdictOK
<1> QED BY <1>2, <1>3, <1>4 DEF Lex

-----------------------------------------------------------------------------
(* The invariant and what it implies.                                      *)

LEMMA LexStep ==
    ASSUME Inv, Lex, [Next]_vars
    PROVE  Lex'
<1>1. CASE UNCHANGED vars
  BY <1>1, StutterLex
<1>2. CASE Globals
  BY <1>2, GlobalDeclLex, EndOfGlobalsLex, GVarDeclLex, FuncDeclLex, EndOfParamsLex,
     EndOfFuncLex, ParamDeclLex, MFuncDeclLex, EndOfMainLex, EndOfProgramLex, StutterLex
  DEF Globals, Finished
<1>3. CASE Statements
  BY <1>3, BlockStmtLex, EndOfBlockLex, BreakStmtLex, VarDeclLex, EvaluateLex,
     WhileStmtLex, EndOfWhileLex, FollowsLex DEF Statements
<1>4. CASE Expressions
  BY <1>4, ExpressionsLex DEF Expressions
<1> QED BY <1>1, <1>2, <1>3, <1>4 DEF Next

LEMMA LexInvariance == Spec => [](Inv /\ Lex)
<1>1. Init => Inv /\ Lex
  BY InvInit, LexInit
<1>2. Inv /\ Lex /\ [Next]_vars => (Inv /\ Lex)'
  BY InvStep, LexStep
<1> QED BY <1>1, <1>2, PTL DEF Spec

\* FunctionVisitor gives an IdExpr or a FuncCallExpr the symbol of the declaration
\* the name stands for by the place where it is used: the latest one of a block
\* that is still open, a parameter, a global one, a runtime function. It does so
\* although the table is filled and emptied while the tree is walked, however
\* deep blocks are nested and whatever functions came before.
THEOREM ScopingIsLexical == Spec => []AnnotationsAreLexical
<1>1. Inv /\ Lex => AnnotationsAreLexical
  <2> SUFFICES ASSUME Inv, Lex PROVE AnnotationsAreLexical
    OBVIOUS
  <2>1. DOMAIN trail = 1..Len(trail)
    BY DEF Inv, Types
  <2>2. \A k \in 1..Len(trail) : \A name :
            Resolve(name, k) = ResolveOf(trail, program, name, k)
    BY RulesAre
  <2> QED BY <2>1, <2>2 DEF Lex, Annotated, AnnotationsAreLexical
<1> QED BY <1>1, LexInvariance, PTL

\* Logger::error stops the compiler in these two passes exactly when the program
\* breaks a rule of the language: a name declared twice in a scope, one used
\* that is not declared or not what it is used for, a break outside of every
\* loop, two main functions or none.
THEOREM VerdictsAreRight == Spec => []VerdictIsRight
<1>1. Inv /\ Lex => VerdictIsRight
  <2> SUFFICES ASSUME Inv, Lex PROVE VerdictIsRight
    OBVIOUS
  <2>1. DOMAIN trail = 1..Len(trail) /\ DOMAIN program = 1..Len(program)
    BY DEF Inv, Types
  <2>2. \A k \in 1..Len(trail) : Legal(k) <=> LegalOf(trail, program, k)
    BY RulesAre
  <2>3. (LegalGlobals /\ \A k \in DOMAIN trail : Legal(k)) <=> AllLegal(trail, program)
    BY <2>1, <2>2 DEF AllLegal, LegalGlobals
  <2>4. HasMain <=> MainThere(program)
    BY <2>1 DEF HasMain, MainThere
  <2> QED BY <2>3, <2>4 DEF Lex, VerdictOK, VerdictIsRight
<1> QED BY <1>1, LexInvariance, PTL
=============================================================================
