---------------------------- MODULE ParserProofs ----------------------------
(***************************************************************************)
(* Proofs about Parser: whatever the file, the parser stays within it, its *)
(* calls end, and the tree of a file that it accepts has every token that  *)
(* means something, in order, with the operands and bodies that precedence *)
(* and nesting call for.                                                   *)
(*                                                                         *)
(* A rule that is called at p returns a tree that is Sound about the       *)
(* tokens from p up to where it has read; the rules that it calls further  *)
(* on are assumed to do the same, and the depth of the calls, which the    *)
(* length of the file bounds, is what the induction is on.                 *)
(***************************************************************************)
EXTENDS ParserTrees, FiniteSetTheorems, SequenceTheorems, WellFoundedInduction,
        NaturalsInduction, TLAPS

-----------------------------------------------------------------------------
(* Trees, and what Add makes of two of them.                               *)

\* A tree has paths of numbers, and its root; below the root are its children only.
IsTree(t) ==
    /\ DOMAIN t \subseteq Seq(Nat) /\ <<>> \in DOMAIN t
    /\ \A q \in DOMAIN t : t[q].size \in Nat /\ t[q].at \in Nat
    /\ \A q \in DOMAIN t : q # <<>> => q[1] \in 1..Root(t).size

\* The paths of a tree below its root, and those of its child number n.
Below(t) == DOMAIN t \ {<<>>}
\* Where a node of a tree is when that tree is the n-th child of another.
Child(n, r) == <<n>> \o r

\* A path with a number before it.
LEMMA ChildPath ==
    ASSUME NEW n \in Nat, NEW r \in Seq(Nat)
    PROVE  /\ Child(n, r) \in Seq(Nat) /\ Child(n, r) # <<>>
           /\ Len(Child(n, r)) = Len(r) + 1
           /\ Child(n, r)[1] = n
           /\ Tail(Child(n, r)) = r
           /\ \A i \in 1..Len(r) : Child(n, r)[i + 1] = r[i]
<1> DEFINE c == <<n>> \o r
<1>1. c \in Seq(Nat) /\ Len(c) = Len(r) + 1
  OBVIOUS
<1>2. c[1] = n /\ \A i \in 1..Len(r) : c[i + 1] = r[i]
  OBVIOUS
<1>3. Tail(c) \in Seq(Nat) /\ Len(Tail(c)) = Len(r)
  BY <1>1
<1>4. \A i \in 1..Len(r) : Tail(c)[i] = c[i + 1]
  BY <1>1
<1>5. Tail(c) = r
  BY <1>2, <1>3, <1>4
<1>6. c # <<>>
  BY <1>1
<1> HIDE DEF c
<1> QED BY <1>1, <1>2, <1>5, <1>6 DEF Child, c

\* How paths with the same number before them are related.
LEMMA ChildrenAbove ==
    ASSUME NEW n \in Nat, NEW q \in Seq(Nat), NEW r \in Seq(Nat)
    PROVE  /\ Above(Child(n, q), Child(n, r)) <=> Above(q, r)
           /\ Above(q, r) => Side(Child(n, q), Child(n, r)) = Side(q, r)
<1> DEFINE c == Child(n, q)
           d == Child(n, r)
<1>1. /\ Len(c) = Len(q) + 1 /\ Len(d) = Len(r) + 1 /\ c[1] = n /\ d[1] = n
      /\ \A i \in 1..Len(q) : c[i + 1] = q[i]
      /\ \A i \in 1..Len(r) : d[i + 1] = r[i]
  BY ChildPath
<1>2. Len(q) \in Nat /\ Len(r) \in Nat
  OBVIOUS
<1> HIDE DEF c, d
<1>3. ASSUME Above(c, d) PROVE Above(q, r)
  <2>1. Len(q) < Len(r)
    BY <1>1, <1>2, <1>3 DEF Above
  <2>2. ASSUME NEW i \in 1..Len(q) PROVE q[i] = r[i]
    <3>1. i + 1 \in 1..Len(c) /\ i \in 1..Len(r)
      BY <1>1, <1>2, <2>1
    <3>2. c[i + 1] = d[i + 1]
      BY <1>3, <3>1 DEF Above
    <3> QED BY <1>1, <3>1, <3>2
  <2> QED BY <2>1, <2>2 DEF Above
<1>4. ASSUME Above(q, r) PROVE Above(c, d)
  <2>1. Len(c) < Len(d)
    BY <1>1, <1>2, <1>4 DEF Above
  <2>2. ASSUME NEW i \in 1..Len(c) PROVE c[i] = d[i]
    <3>1. CASE i = 1
      BY <1>1, <3>1
    <3>2. CASE i # 1
      <4>1. i - 1 \in 1..Len(q) /\ i - 1 \in 1..Len(r) /\ (i - 1) + 1 = i
        BY <1>1, <1>2, <1>4, <3>2 DEF Above
      <4>2. q[i - 1] = r[i - 1]
        BY <1>4, <4>1 DEF Above
      <4>3. c[(i - 1) + 1] = q[i - 1] /\ d[(i - 1) + 1] = r[i - 1]
        BY <1>1, <4>1
      <4> QED BY <4>1, <4>2, <4>3
    <3> QED BY <3>1, <3>2
  <2> QED BY <2>1, <2>2 DEF Above
<1>5. ASSUME Above(q, r) PROVE Side(c, d) = Side(q, r)
  <2>1. Len(q) + 1 \in 1..Len(r)
    BY <1>2, <1>5 DEF Above
  <2>2. d[(Len(q) + 1) + 1] = r[Len(q) + 1]
    BY <1>1, <2>1
  <2> QED BY <1>1, <2>2 DEF Side
<1> QED BY <1>3, <1>4, <1>5 DEF c, d

\* The root is above every other node, and of two paths of which one is above
\* the other both begin alike.
LEMMA RootAbove ==
    ASSUME NEW q \in Seq(Nat), NEW r \in Seq(Nat)
    PROVE  /\ Above(<<>>, r) <=> r # <<>>
           /\ Side(<<>>, r) = r[1]
           /\ Above(q, r) => r # <<>>
           /\ Above(q, r) /\ q # <<>> => q[1] = r[1]
<1>1. Len(<<>>) = 0 /\ Len(r) \in Nat /\ Len(q) \in Nat
  OBVIOUS
<1>2. r = <<>> <=> Len(r) = 0
  OBVIOUS
<1>3. q = <<>> <=> Len(q) = 0
  OBVIOUS
<1>4. Above(<<>>, r) <=> r # <<>>
  BY <1>1, <1>2 DEF Above
<1>5. Side(<<>>, r) = r[1]
  BY <1>1 DEF Side
<1>6. Above(q, r) => r # <<>>
  BY <1>1, <1>2 DEF Above
<1>7. Above(q, r) /\ q # <<>> => q[1] = r[1]
  BY <1>1, <1>3 DEF Above
<1> QED BY <1>4, <1>5, <1>6, <1>7

\* A leaf is a tree.
LEMMA LeafTree ==
    ASSUME NEW kind, NEW at \in Nat
    PROVE  /\ IsTree(Leaf(kind, at)) /\ DOMAIN Leaf(kind, at) = {<<>>}
           /\ Root(Leaf(kind, at)) = Node(kind, at, 0)
<1> DEFINE t == Leaf(kind, at)
<1>1. DOMAIN t = {<<>>} /\ t[<<>>] = Node(kind, at, 0)
  BY DEF Leaf
<1>2. Root(t).size = 0 /\ Root(t).at = at
  BY <1>1 DEF Root, Node
<1>3. <<>> \in Seq(Nat)
  OBVIOUS
<1> HIDE DEF t
<1>4. IsTree(t)
  BY <1>1, <1>2, <1>3 DEF IsTree, Root
<1> QED BY <1>1, <1>4 DEF t, Root

\* u is t with one child more, s, which has the number n: its nodes are the root,
\* those below the root of t, and those of s.
Joined(u, n, t, s) ==
    /\ n \in Nat /\ n = Root(t).size + 1
    /\ DOMAIN u \subseteq Seq(Nat) /\ <<>> \in DOMAIN u
    /\ Root(u) = Node(Root(t).kind, Root(t).at, n)
    /\ \A q \in Below(t) : q \in DOMAIN u /\ u[q] = t[q] /\ q[1] < n
    /\ \A r \in DOMAIN s : Child(n, r) \in DOMAIN u /\ u[Child(n, r)] = s[r]
    /\ \A q \in DOMAIN u : \/ q = <<>>
                           \/ q \in Below(t)
                           \/ \E r \in DOMAIN s : q = Child(n, r)

\* That is what Add makes.
LEMMA AddJoins ==
    ASSUME NEW t, NEW s, IsTree(t), IsTree(s), NEW u, u = Add(t, s),
           NEW n, n = Root(t).size + 1
    PROVE  Joined(u, n, t, s)
<1>1. Root(t).size \in Nat /\ n \in Nat /\ <<>> \in DOMAIN t
  BY DEF IsTree, Root
<1>2. DOMAIN u = DOMAIN t \cup {Child(n, r) : r \in DOMAIN s}
  BY DEF Add, Child
<1>3. ASSUME NEW q \in DOMAIN u
      PROVE  u[q] = IF q = <<>> THEN Node(Root(t).kind, Root(t).at, n)
                    ELSE IF q[1] = n THEN s[Tail(q)] ELSE t[q]
  BY <1>2, <1>3 DEF Add, Child
<1>4. ASSUME NEW q \in Below(t) PROVE q \in DOMAIN u /\ u[q] = t[q] /\ q[1] < n
  <2>1. q[1] \in 1..Root(t).size /\ q # <<>> /\ q \in DOMAIN u
    BY <1>2 DEF Below, IsTree
  <2>2. q[1] < n /\ q[1] # n
    BY <1>1, <2>1
  <2> QED BY <1>3, <2>1, <2>2
<1>5. ASSUME NEW r \in DOMAIN s PROVE Child(n, r) \in DOMAIN u /\ u[Child(n, r)] = s[r]
  <2>1. r \in Seq(Nat)
    BY DEF IsTree
  <2>2. Child(n, r) # <<>> /\ Child(n, r)[1] = n /\ Tail(Child(n, r)) = r
    BY <1>1, <2>1, ChildPath
  <2>3. Child(n, r) \in DOMAIN u
    BY <1>2
  <2> QED BY <1>3, <2>2, <2>3
<1>6. DOMAIN u \subseteq Seq(Nat)
  <2>1. \A r \in DOMAIN s : r \in Seq(Nat)
    BY DEF IsTree
  <2>2. \A r \in DOMAIN s : Child(n, r) \in Seq(Nat)
    BY <1>1, <2>1, ChildPath
  <2>3. \A q \in DOMAIN t : q \in Seq(Nat)
    BY DEF IsTree
  <2> QED BY <1>2, <2>2, <2>3
<1>7. <<>> \in DOMAIN u /\ Root(u) = Node(Root(t).kind, Root(t).at, n)
  BY <1>1, <1>2, <1>3 DEF Root
<1>8. \A q \in DOMAIN u : \/ q = <<>> \/ q \in Below(t)
                          \/ \E r \in DOMAIN s : q = Child(n, r)
  BY <1>2 DEF Below
<1> QED BY <1>1, <1>4, <1>5, <1>6, <1>7, <1>8 DEF Joined

\* It is a tree.
LEMMA AddTree ==
    ASSUME NEW t, NEW s, IsTree(t), IsTree(s)
    PROVE  IsTree(Add(t, s))
<1> DEFINE u == Add(t, s)
           n == Root(t).size + 1
<1>1. Joined(u, n, t, s)
  BY AddJoins
<1>2. Root(t).at \in Nat /\ Root(t).size \in Nat /\ n = Root(t).size + 1
  BY DEF IsTree, Root
<1> HIDE DEF u, n
<1>3. Root(u).size = n /\ Root(u).at = Root(t).at
  BY <1>1 DEF Joined, Node
<1>4. ASSUME NEW q \in DOMAIN u
      PROVE  /\ u[q].size \in Nat /\ u[q].at \in Nat
             /\ q # <<>> => q[1] \in 1..n
  <2>1. CASE q = <<>>
    BY <1>2, <1>3, <2>1 DEF Root
  <2>2. CASE q \in Below(t)
    <3>1. u[q] = t[q] /\ q[1] < n /\ q \in DOMAIN t /\ q # <<>>
      BY <1>1, <2>2 DEF Joined, Below
    <3>2. t[q].size \in Nat /\ t[q].at \in Nat /\ q[1] \in 1..Root(t).size
      BY <3>1 DEF IsTree
    <3> QED BY <1>2, <3>1, <3>2
  <2>3. ASSUME NEW r \in DOMAIN s, q = Child(n, r)
        PROVE  u[q].size \in Nat /\ u[q].at \in Nat /\ q[1] \in 1..n
    <3>1. r \in Seq(Nat) /\ s[r].size \in Nat /\ s[r].at \in Nat
      BY DEF IsTree
    <3>2. q[1] = n /\ u[q] = s[r]
      BY <1>1, <2>3, <3>1, ChildPath DEF Joined
    <3> QED BY <1>2, <3>1, <3>2
  <2> QED BY <1>1, <2>1, <2>2, <2>3 DEF Joined
<1>5. IsTree(u)
  BY <1>1, <1>3, <1>4 DEF IsTree, Joined
<1> QED BY <1>5 DEF u

\* Where two nodes of Add(t, s), one above the other, can be.
LEMMA AddAbove ==
    ASSUME NEW t, NEW s, IsTree(t), IsTree(s), NEW u, NEW n, Joined(u, n, t, s),
           NEW q \in DOMAIN u, NEW r \in DOMAIN u, Above(q, r)
    PROVE  \/ q = <<>> /\ r \in Below(t) /\ Side(q, r) < n
           \/ q = <<>> /\ Side(q, r) = n /\ \E b \in DOMAIN s : r = Child(n, b)
           \/ q \in Below(t) /\ r \in Below(t)
           \/ \E a, b \in DOMAIN s :
                 /\ q = Child(n, a) /\ r = Child(n, b)
                 /\ Above(a, b) /\ Side(q, r) = Side(a, b)
<1>1. /\ n \in Nat
      /\ DOMAIN u \subseteq Seq(Nat) /\ <<>> \in DOMAIN u
      /\ \A x \in Below(t) : x[1] < n
      /\ \A x \in DOMAIN u : \/ x = <<>> \/ x \in Below(t)
                             \/ \E y \in DOMAIN s : x = Child(n, y)
  BY DEF Joined
<1>2. q \in Seq(Nat) /\ r \in Seq(Nat) /\ r # <<>>
  BY <1>1, RootAbove
<1>3. Side(<<>>, r) = r[1] /\ (q # <<>> => q[1] = r[1])
  BY <1>2, RootAbove
<1>4. ASSUME NEW x \in DOMAIN s PROVE x \in Seq(Nat) /\ Child(n, x)[1] = n
  <2>1. x \in Seq(Nat)
    BY DEF IsTree
  <2> QED BY <1>1, <2>1, ChildPath
<1>5. CASE q = <<>>
  <2>1. CASE r \in Below(t)
    BY <1>1, <1>3, <1>5, <2>1
  <2>2. CASE \E y \in DOMAIN s : r = Child(n, y)
    BY <1>3, <1>4, <1>5, <2>2
  <2> QED BY <1>1, <1>2, <2>1, <2>2
<1>6. CASE q \in Below(t)
  <2>1. q[1] < n /\ q # <<>> /\ n \in Nat
    BY <1>1, <1>6 DEF Below
  <2>2. r[1] # n
    BY <1>3, <2>1
  <2>3. r \in Below(t)
    BY <1>1, <1>2, <1>4, <2>2
  <2> QED BY <1>6, <2>3
<1>7. CASE \E y \in DOMAIN s : q = Child(n, y)
  <2>1. PICK a \in DOMAIN s : q = Child(n, a)
    BY <1>7
  <2>2. q[1] = n /\ a \in Seq(Nat) /\ q # <<>>
    BY <1>1, <1>4, <2>1, ChildPath
  <2>3. r \notin Below(t)
    BY <1>1, <1>3, <2>2
  <2>4. PICK b \in DOMAIN s : r = Child(n, b)
    BY <1>1, <1>2, <2>3
  <2>5. b \in Seq(Nat)
    BY <1>4
  <2>6. Above(a, b) /\ Side(q, r) = Side(a, b)
    BY <1>1, <2>1, <2>2, <2>4, <2>5, ChildrenAbove
  <2> QED BY <2>1, <2>4, <2>6
<1> QED BY <1>1, <1>5, <1>6, <1>7

\* The tokens that a tree keeps are those of its parts.
LEMMA AddKept ==
    ASSUME NEW t, NEW s, IsTree(t), IsTree(s), NEW u, NEW n, Joined(u, n, t, s)
    PROVE  Kept(u) = Kept(t) \cup Kept(s)
<1>1. Root(u).kind = Root(t).kind /\ Root(u).at = Root(t).at
  BY DEF Joined, Node
<1>2. ASSUME NEW q \in DOMAIN t
      PROVE  q \in DOMAIN u /\ u[q].kind = t[q].kind /\ u[q].at = t[q].at
  <2>1. CASE q = <<>>
    BY <1>1, <2>1 DEF Joined, Root
  <2>2. CASE q # <<>>
    <3>1. q \in Below(t)
      BY <2>2 DEF Below
    <3> QED BY <3>1 DEF Joined
  <2> QED BY <2>1, <2>2
<1>3. ASSUME NEW r \in DOMAIN s PROVE Child(n, r) \in DOMAIN u /\ u[Child(n, r)] = s[r]
  BY DEF Joined
<1>4. Kept(t) \cup Kept(s) \subseteq Kept(u)
  <2>1. ASSUME NEW x \in Kept(t) PROVE x \in Kept(u)
    <3>1. PICK q \in DOMAIN t : t[q].kind \notin Silent /\ x = t[q].at
      BY DEF Kept, Keepers
    <3> QED BY <1>2, <3>1 DEF Kept, Keepers
  <2>2. ASSUME NEW x \in Kept(s) PROVE x \in Kept(u)
    <3>1. PICK q \in DOMAIN s : s[q].kind \notin Silent /\ x = s[q].at
      BY DEF Kept, Keepers
    <3> QED BY <1>3, <3>1 DEF Kept, Keepers
  <2> QED BY <2>1, <2>2
<1>5. ASSUME NEW x \in Kept(u) PROVE x \in Kept(t) \cup Kept(s)
  <2>1. PICK q \in DOMAIN u : u[q].kind \notin Silent /\ x = u[q].at
    BY DEF Kept, Keepers
  <2>2. CASE q \in DOMAIN t
    BY <1>2, <2>1, <2>2 DEF Kept, Keepers
  <2>3. ASSUME NEW r \in DOMAIN s, q = Child(n, r) PROVE x \in Kept(s)
    <3>1. u[q] = s[r]
      BY <1>3, <2>3
    <3> QED BY <2>1, <3>1 DEF Kept, Keepers
  <2>4. q \in DOMAIN t \/ \E r \in DOMAIN s : q = Child(n, r)
    <3>1. \/ q = <<>> \/ q \in Below(t) \/ \E r \in DOMAIN s : q = Child(n, r)
      BY DEF Joined
    <3> QED BY <3>1 DEF Below, IsTree
  <2> QED BY <2>2, <2>3, <2>4
<1> QED BY <1>4, <1>5

\* The order of the tokens in a tree, when all those of the new child come after
\* those of the rest, or before it when it is the first operand.
LEMMA AddInOrder ==
    ASSUME NEW t, NEW s, IsTree(t), IsTree(s), NEW u, NEW n, Joined(u, n, t, s),
           InOrder(t), InOrder(s),
           \A x \in Kept(t), y \in Kept(s) :
              IF Root(t).kind \in Infix /\ n = 1 THEN y < x ELSE x < y
    PROVE  InOrder(u)
<1>1. Root(u).kind = Root(t).kind /\ Root(u).at = Root(t).at
  BY DEF Joined, Node
<1>2. ASSUME NEW q \in Below(t)
      PROVE  /\ q \in DOMAIN t /\ q # <<>> /\ u[q] = t[q] /\ q[1] < n /\ n # 1
             /\ q[1] \in Nat /\ Above(<<>>, q) /\ Side(<<>>, q) = q[1]
             /\ q \in Keepers(u) => q \in Keepers(t) /\ t[q].at \in Kept(t)
  <2>1. q \in DOMAIN t /\ q # <<>> /\ u[q] = t[q] /\ q[1] < n
    BY DEF Below, Joined
  <2>2. q[1] \in 1..Root(t).size /\ n = Root(t).size + 1 /\ Root(t).size \in Nat
    BY <2>1 DEF IsTree, Joined, Root
  <2>3. q \in Seq(Nat) /\ <<>> \in Seq(Nat)
    BY <2>1 DEF IsTree
  <2>4. Above(<<>>, q) /\ Side(<<>>, q) = q[1]
    BY <2>1, <2>3, RootAbove
  <2>5. n # 1 /\ q[1] \in Nat
    BY <2>2
  <2> QED BY <2>1, <2>4, <2>5 DEF Keepers, Kept
<1>3. ASSUME NEW r \in DOMAIN s
      PROVE  /\ u[Child(n, r)] = s[r]
             /\ Child(n, r) \in Keepers(u) => r \in Keepers(s) /\ s[r].at \in Kept(s)
  BY DEF Joined, Keepers, Kept
<1>4. <<>> \in DOMAIN t /\ u[<<>>] = Root(u)
  BY DEF IsTree, Root
<1>5. <<>> \in Keepers(u) => <<>> \in Keepers(t) /\ Root(u).at \in Kept(t)
  BY <1>1, <1>4 DEF Keepers, Kept, Root
<1>6. ASSUME NEW q \in Keepers(u), NEW r \in Keepers(u), Above(q, r)
      PROVE  IF u[q].kind \in Infix /\ Side(q, r) = 1
             THEN u[r].at < u[q].at ELSE u[q].at < u[r].at
  <2>0. q \in DOMAIN u /\ r \in DOMAIN u
    BY DEF Keepers
  <2>1. CASE q = <<>> /\ r \in Below(t) /\ Side(q, r) < n
    <3>1. Above(q, r) /\ q \in Keepers(t) /\ r \in Keepers(t)
      BY <1>2, <1>5, <2>1
    <3>2. IF t[q].kind \in Infix /\ Side(q, r) = 1
          THEN t[r].at < t[q].at ELSE t[q].at < t[r].at
      BY <3>1 DEF InOrder
    <3>3. u[r] = t[r] /\ u[q].kind = t[q].kind /\ u[q].at = t[q].at
      BY <1>1, <1>2, <1>4, <2>1 DEF Root
    <3> QED BY <3>2, <3>3
  <2>2. CASE q = <<>> /\ Side(q, r) = n /\ \E b \in DOMAIN s : r = Child(n, b)
    <3>1. PICK b \in DOMAIN s : r = Child(n, b)
      BY <2>2
    <3>2. u[r] = s[b] /\ s[b].at \in Kept(s)
      BY <1>3, <3>1
    <3>3. u[q].at \in Kept(t) /\ u[q].kind = Root(t).kind
      BY <1>1, <1>4, <1>5, <2>2
    <3> QED BY <2>2, <3>2, <3>3
  <2>3. CASE q \in Below(t) /\ r \in Below(t)
    <3>1. q \in Keepers(t) /\ r \in Keepers(t) /\ u[q] = t[q] /\ u[r] = t[r]
      BY <1>2, <2>3
    <3> QED BY <1>6, <3>1 DEF InOrder
  <2>4. ASSUME NEW a \in DOMAIN s, NEW b \in DOMAIN s,
               q = Child(n, a), r = Child(n, b), Above(a, b), Side(q, r) = Side(a, b)
        PROVE  IF u[q].kind \in Infix /\ Side(q, r) = 1
               THEN u[r].at < u[q].at ELSE u[q].at < u[r].at
    <3>1. a \in Keepers(s) /\ b \in Keepers(s) /\ u[q] = s[a] /\ u[r] = s[b]
      BY <1>3, <2>4
    <3>2. IF s[a].kind \in Infix /\ Side(a, b) = 1
          THEN s[b].at < s[a].at ELSE s[a].at < s[b].at
      BY <2>4, <3>1 DEF InOrder
    <3> QED BY <2>4, <3>1, <3>2
  <2>5. \/ q = <<>> /\ r \in Below(t) /\ Side(q, r) < n
        \/ q = <<>> /\ Side(q, r) = n /\ \E b \in DOMAIN s : r = Child(n, b)
        \/ q \in Below(t) /\ r \in Below(t)
        \/ \E a, b \in DOMAIN s :
              /\ q = Child(n, a) /\ r = Child(n, b)
              /\ Above(a, b) /\ Side(q, r) = Side(a, b)
    BY <1>6, <2>0, AddAbove
  <2> QED BY <2>1, <2>2, <2>3, <2>4, <2>5
<1>7. ASSUME NEW q \in DOMAIN u, NEW r \in Keepers(u), NEW v \in Keepers(u),
             Above(q, r), Above(q, v), Side(q, r) < Side(q, v)
      PROVE  u[r].at < u[v].at
  <2>0. r \in DOMAIN u /\ v \in DOMAIN u
    BY DEF Keepers
  <2>1. /\ \/ q = <<>> /\ r \in Below(t) /\ Side(q, r) < n
           \/ q = <<>> /\ Side(q, r) = n /\ \E b \in DOMAIN s : r = Child(n, b)
           \/ q \in Below(t) /\ r \in Below(t)
           \/ \E a, b \in DOMAIN s :
                 /\ q = Child(n, a) /\ r = Child(n, b)
                 /\ Above(a, b) /\ Side(q, r) = Side(a, b)
        /\ \/ q = <<>> /\ v \in Below(t) /\ Side(q, v) < n
           \/ q = <<>> /\ Side(q, v) = n /\ \E b \in DOMAIN s : v = Child(n, b)
           \/ q \in Below(t) /\ v \in Below(t)
           \/ \E a, b \in DOMAIN s :
                 /\ q = Child(n, a) /\ v = Child(n, b)
                 /\ Above(a, b) /\ Side(q, v) = Side(a, b)
    BY <1>7, <2>0, AddAbove
  <2>2. n \in Nat /\ \A x \in Below(t) : x # <<>> /\ x[1] < n
    BY DEF Joined, Below
  <2>3. \A x \in DOMAIN s : Child(n, x)[1] = n /\ Child(n, x) # <<>>
    <3>1. \A x \in DOMAIN s : x \in Seq(Nat)
      BY DEF IsTree
    <3> QED BY <2>2, <3>1, ChildPath
  <2>4. CASE q = <<>> /\ r \in Below(t) /\ v \in Below(t)
    <3>1. r \in Keepers(t) /\ v \in Keepers(t) /\ u[r] = t[r] /\ u[v] = t[v]
      BY <1>2, <2>4
    <3> QED BY <1>4, <1>7, <2>4, <3>1 DEF InOrder
  <2>5. CASE q = <<>> /\ r \in Below(t) /\ \E b \in DOMAIN s : v = Child(n, b)
    <3>1. PICK b \in DOMAIN s : v = Child(n, b)
      BY <2>5
    <3>2. u[v] = s[b] /\ s[b].at \in Kept(s) /\ u[r] = t[r] /\ t[r].at \in Kept(t) /\ n # 1
      BY <1>2, <1>3, <2>5, <3>1
    <3> QED BY <3>2
  <2>6. CASE q \in Below(t) /\ r \in Below(t) /\ v \in Below(t)
    <3>1. /\ r \in Keepers(t) /\ v \in Keepers(t) /\ u[r] = t[r] /\ u[v] = t[v]
          /\ q \in DOMAIN t
      BY <1>2, <2>6
    <3> QED BY <1>7, <3>1 DEF InOrder
  <2>7. ASSUME NEW a \in DOMAIN s, q = Child(n, a) PROVE u[r].at < u[v].at
    <3>1. q \notin Below(t) /\ q # <<>>
      BY <2>2, <2>3, <2>7
    <3>2. PICK b, c \in DOMAIN s : /\ q = Child(n, c) /\ r = Child(n, b)
                                   /\ Above(c, b) /\ Side(q, r) = Side(c, b)
      BY <2>1, <3>1
    <3>3. PICK d, e \in DOMAIN s : /\ q = Child(n, e) /\ v = Child(n, d)
                                   /\ Above(e, d) /\ Side(q, v) = Side(e, d)
      BY <2>1, <3>1
    <3>4. c = e
      <4>1. c \in Seq(Nat) /\ e \in Seq(Nat)
        BY DEF IsTree
      <4>2. Tail(Child(n, c)) = c /\ Tail(Child(n, e)) = e
        BY <2>2, <4>1, ChildPath
      <4> QED BY <3>2, <3>3, <4>2
    <3>5. b \in Keepers(s) /\ d \in Keepers(s) /\ u[r] = s[b] /\ u[v] = s[d]
      BY <1>3, <3>2, <3>3
    <3>6. Above(c, b) /\ Above(c, d) /\ Side(c, b) < Side(c, d)
      BY <1>7, <3>2, <3>3, <3>4
    <3> QED BY <3>5, <3>6 DEF InOrder
  <2>8. CASE q = <<>> /\ Side(q, r) = n
    <3>1. v \in Below(t) \/ Side(q, v) = n
      BY <2>1, <2>2, <2>3, <2>8
    <3>2. v \in Below(t) => Side(q, v) < n /\ Side(q, v) \in Nat
      BY <1>2, <2>8
    <3>3. FALSE
      BY <1>7, <2>2, <2>8, <3>1, <3>2
    <3> QED BY <3>3
  <2>9. \/ q = <<>> /\ Side(q, r) = n
        \/ q = <<>> /\ r \in Below(t) /\ v \in Below(t)
        \/ q = <<>> /\ r \in Below(t) /\ \E b \in DOMAIN s : v = Child(n, b)
        \/ q \in Below(t) /\ r \in Below(t) /\ v \in Below(t)
        \/ \E a \in DOMAIN s : q = Child(n, a)
    BY <2>1, <2>2
  <2> QED BY <2>4, <2>5, <2>6, <2>7, <2>8, <2>9
<1> QED BY <1>6, <1>7 DEF InOrder

\* Whether a node ends open depends only on the tree below it.
LEMMA AddEndsOpen ==
    ASSUME NEW t, NEW s, IsTree(t), IsTree(s), NEW u, NEW n, Joined(u, n, t, s)
    PROVE  /\ \A q \in Below(t) : EndsOpen(u, q) => EndsOpen(t, q)
           /\ \A r \in DOMAIN s : EndsOpen(u, Child(n, r)) => EndsOpen(s, r)
<1>1. ASSUME NEW q \in Below(t), NEW x \in DOMAIN u, x = q \/ Above(q, x)
      PROVE  x \in Below(t) /\ u[x] = t[x]
  <2>1. x \in Below(t)
    <3>1. CASE x = q
      BY <3>1
    <3>2. CASE Above(q, x)
      <4>1. q \in DOMAIN u /\ q # <<>> /\ q[1] < n
        BY DEF Joined, Below
      <4>2. \A y \in DOMAIN s : Child(n, y)[1] = n
        <5>1. \A y \in DOMAIN s : y \in Seq(Nat)
          BY DEF IsTree
        <5> QED BY <5>1, ChildPath DEF Joined
      <4>3. \A y \in DOMAIN s : q # Child(n, y)
        BY <4>1, <4>2 DEF Joined
      <4> QED BY <3>2, <4>1, <4>3, AddAbove
    <3> QED BY <1>1, <3>1, <3>2
  <2> QED BY <2>1 DEF Joined
<1>2. ASSUME NEW q \in Below(t), EndsOpen(u, q) PROVE EndsOpen(t, q)
  <2>1. PICK r \in DOMAIN u :
           /\ r = q \/ Above(q, r)
           /\ u[r].kind = "IfStmt"
           /\ \A a \in DOMAIN u : (a = q \/ Above(q, a)) /\ Above(a, r) =>
                 \/ u[a].kind = "IfElseStmt" /\ Side(a, r) = 3
                 \/ u[a].kind = "WhileStmt" /\ Side(a, r) = 2
    BY <1>2 DEF EndsOpen
  <2>2. r \in DOMAIN t /\ t[r].kind = "IfStmt"
    BY <1>1, <2>1 DEF Below
  <2>3. ASSUME NEW a \in DOMAIN t, a = q \/ Above(q, a), Above(a, r)
        PROVE  \/ t[a].kind = "IfElseStmt" /\ Side(a, r) = 3
               \/ t[a].kind = "WhileStmt" /\ Side(a, r) = 2
    <3>1. a # <<>>
      <4>1. q # <<>> /\ q \in Seq(Nat) /\ a \in Seq(Nat)
        BY DEF Below, IsTree
      <4> QED BY <2>3, <4>1, RootAbove
    <3>2. a \in DOMAIN u /\ u[a] = t[a]
      BY <3>1 DEF Joined, Below
    <3> QED BY <2>1, <2>3, <3>2
  <2> QED BY <2>1, <2>2, <2>3 DEF EndsOpen
<1>3. ASSUME NEW p \in DOMAIN s, EndsOpen(u, Child(n, p)) PROVE EndsOpen(s, p)
  <2> DEFINE q == Child(n, p)
  <2>1. PICK r \in DOMAIN u :
           /\ r = q \/ Above(q, r)
           /\ u[r].kind = "IfStmt"
           /\ \A a \in DOMAIN u : (a = q \/ Above(q, a)) /\ Above(a, r) =>
                 \/ u[a].kind = "IfElseStmt" /\ Side(a, r) = 3
                 \/ u[a].kind = "WhileStmt" /\ Side(a, r) = 2
    BY <1>3 DEF EndsOpen
  <2>2. n \in Nat /\ \A x \in DOMAIN s : /\ x \in Seq(Nat) /\ Child(n, x) \in DOMAIN u
                                         /\ u[Child(n, x)] = s[x]
    BY DEF Joined, IsTree
  <2>3. \A x \in DOMAIN s : /\ Child(n, x)[1] = n /\ Child(n, x) # <<>>
                            /\ Tail(Child(n, x)) = x
    BY <2>2, ChildPath
  <2>4. PICK b \in DOMAIN s : r = Child(n, b)
    <3>1. q \notin Below(t) /\ q # <<>>
      BY <2>2, <2>3 DEF Joined
    <3>2. q \in DOMAIN u
      BY <2>2
    <3> HIDE DEF q
    <3>3. Above(q, r) => \E b \in DOMAIN s : r = Child(n, b)
      BY <3>1, <3>2, AddAbove
    <3> QED BY <2>1, <3>3 DEF q
  <2>5. \A x, y \in DOMAIN s :
           /\ Above(Child(n, x), Child(n, y)) <=> Above(x, y)
           /\ Above(x, y) => Side(Child(n, x), Child(n, y)) = Side(x, y)
    BY <2>2, ChildrenAbove
  <2>6. b = p \/ Above(p, b)
    BY <2>1, <2>3, <2>4, <2>5
  <2>7. s[b].kind = "IfStmt"
    BY <2>1, <2>2, <2>4
  <2>8. ASSUME NEW a \in DOMAIN s, a = p \/ Above(p, a), Above(a, b)
        PROVE  \/ s[a].kind = "IfElseStmt" /\ Side(a, b) = 3
               \/ s[a].kind = "WhileStmt" /\ Side(a, b) = 2
    <3>1. Child(n, a) = q \/ Above(q, Child(n, a))
      BY <2>5, <2>8
    <3>2. Above(Child(n, a), r) /\ Side(Child(n, a), r) = Side(a, b)
      BY <2>4, <2>5, <2>8
    <3>3. Child(n, a) \in DOMAIN u /\ u[Child(n, a)] = s[a]
      BY <2>2
    <3> QED BY <2>1, <3>1, <3>2, <3>3
  <2> QED BY <2>6, <2>7, <2>8 DEF EndsOpen
<1> QED BY <1>2, <1>3

\* Only an if or a while ends open.
LEMMA RootEndsOpen ==
    ASSUME NEW t, IsTree(t), EndsOpen(t, <<>>)
    PROVE  Root(t).kind \in {"IfStmt", "IfElseStmt", "WhileStmt"}
<1>1. PICK r \in DOMAIN t :
         /\ r = <<>> \/ Above(<<>>, r)
         /\ t[r].kind = "IfStmt"
         /\ \A a \in DOMAIN t : (a = <<>> \/ Above(<<>>, a)) /\ Above(a, r) =>
               \/ t[a].kind = "IfElseStmt" /\ Side(a, r) = 3
               \/ t[a].kind = "WhileStmt" /\ Side(a, r) = 2
  BY DEF EndsOpen
<1>2. <<>> \in DOMAIN t
  BY DEF IsTree
<1> QED BY <1>1, <1>2 DEF Root

\* An if with its else, or a while, ends open only when its last body does.
LEMMA LastEndsOpen ==
    ASSUME NEW t, NEW s, IsTree(t), IsTree(s), NEW u, NEW n, Joined(u, n, t, s),
           \/ Root(t).kind = "IfElseStmt" /\ n = 3
           \/ Root(t).kind = "WhileStmt" /\ n = 2,
           EndsOpen(u, <<>>)
    PROVE  EndsOpen(s, <<>>)
<1>1. PICK r \in DOMAIN u :
         /\ r = <<>> \/ Above(<<>>, r)
         /\ u[r].kind = "IfStmt"
         /\ \A a \in DOMAIN u : (a = <<>> \/ Above(<<>>, a)) /\ Above(a, r) =>
               \/ u[a].kind = "IfElseStmt" /\ Side(a, r) = 3
               \/ u[a].kind = "WhileStmt" /\ Side(a, r) = 2
  BY DEF EndsOpen
<1>2. /\ n \in Nat /\ <<>> \in DOMAIN u /\ u[<<>>].kind = Root(t).kind
      /\ \A x \in DOMAIN s : Child(n, x) \in DOMAIN u /\ u[Child(n, x)] = s[x]
      /\ \A x \in Below(t) : x[1] < n
      /\ r \in Seq(Nat)
  BY DEF Joined, Root, Node
<1>3. \A x \in DOMAIN s : x \in Seq(Nat)
  BY DEF IsTree
<1>4. <<>> \in DOMAIN s
  BY DEF IsTree
<1>5. Above(<<>>, r)
  BY <1>1, <1>2
<1>6. r # <<>> /\ Side(<<>>, r) = r[1]
  BY <1>2, <1>5, RootAbove
<1>7. r[1] = n
  BY <1>1, <1>2, <1>5, <1>6
<1>8. PICK b \in DOMAIN s : r = Child(n, b)
  <2>1. r \notin Below(t)
    BY <1>2, <1>7
  <2> QED BY <1>6, <2>1 DEF Joined
<1>9. EndsOpen(u, Child(n, <<>>))
  <2>1. Child(n, <<>>) # <<>> /\ Child(n, <<>>) \in Seq(Nat) /\ Child(n, <<>>) \in DOMAIN u
    BY <1>2, <1>3, <1>4, ChildPath
  <2>2. r = Child(n, <<>>) \/ Above(Child(n, <<>>), r)
    <3>1. b \in Seq(Nat) /\ <<>> \in Seq(Nat)
      BY <1>3
    <3>2. b = <<>> \/ Above(<<>>, b)
      BY <3>1, RootAbove
    <3> QED BY <1>2, <1>8, <3>1, <3>2, ChildrenAbove
  <2>3. ASSUME NEW a \in DOMAIN u, a = Child(n, <<>>) \/ Above(Child(n, <<>>), a)
        PROVE  Above(<<>>, a)
    <3>1. a \in Seq(Nat) /\ <<>> \in Seq(Nat)
      BY DEF Joined
    <3> QED BY <2>1, <2>3, <3>1, RootAbove
  <2> QED BY <1>1, <2>2, <2>3 DEF EndsOpen
<1> QED BY <1>4, <1>9, AddEndsOpen

\* Binds looks at the kinds and tokens of the nodes only.
LEMMA BindsAlike ==
    ASSUME NEW w, NEW x, NEW y, NEW z, NEW k, Binds(w, x, z, k),
           x.kind = y.kind, x.at = y.at
    PROVE  Binds(w, y, z, k)
<1>1. Looseness(w, x) = Looseness(w, y)
  BY DEF Looseness
<1> QED BY <1>1 DEF Binds

\* Operands and bodies are right in a tree when they are in its parts and where
\* these meet.
LEMMA AddStructured ==
    ASSUME NEW w, NEW t, NEW s, IsTree(t), IsTree(s), NEW u, NEW n,
           Joined(u, n, t, s), Structured(w, t), Structured(w, s),
           Root(t).kind \in Operators => Binds(w, Root(t), Root(s), n),
           ~(Root(t).kind = "IfElseStmt" /\ n = 2)
    PROVE  Structured(w, u)
<1>1. Root(u).kind = Root(t).kind /\ Root(u).at = Root(t).at
  BY DEF Joined, Node
<1>2. n \in Nat /\ <<>> \in DOMAIN t /\ <<>> \in DOMAIN s
  BY DEF Joined, IsTree
<1>3. SUFFICES ASSUME NEW q \in DOMAIN u, NEW r \in DOMAIN u, Parent(q, r)
               PROVE  /\ u[q].kind \in Operators => Binds(w, u[q], u[r], Side(q, r))
                      /\ u[q].kind = "IfElseStmt" /\ Side(q, r) = 2 => ~EndsOpen(u, r)
  BY DEF Structured
<1>4. Above(q, r) /\ Len(r) = Len(q) + 1
  BY <1>3 DEF Parent
<1>5. CASE q = <<>> /\ r \in Below(t)
  <2>1. r \in DOMAIN t /\ u[r] = t[r]
    BY <1>5 DEF Below, Joined
  <2>2. /\ t[q].kind \in Operators => Binds(w, t[q], t[r], Side(q, r))
        /\ t[q].kind = "IfElseStmt" /\ Side(q, r) = 2 => ~EndsOpen(t, r)
    BY <1>2, <1>3, <1>5, <2>1 DEF Structured
  <2>3. u[q].kind = t[q].kind /\ u[q].at = t[q].at
    BY <1>1, <1>5 DEF Root
  <2>4. u[q].kind \in Operators => Binds(w, u[q], u[r], Side(q, r))
    BY <2>1, <2>2, <2>3, BindsAlike
  <2>5. EndsOpen(u, r) => EndsOpen(t, r)
    BY <1>5, AddEndsOpen
  <2> QED BY <2>2, <2>3, <2>4, <2>5
<1>6. CASE q = <<>> /\ Side(q, r) = n /\ \E b \in DOMAIN s : r = Child(n, b)
  <2>1. PICK b \in DOMAIN s : r = Child(n, b)
    BY <1>6
  <2>2. b \in Seq(Nat)
    BY DEF IsTree
  <2>3. Len(Child(n, b)) = Len(b) + 1
    BY <1>2, <2>2, ChildPath
  <2>4. b = <<>>
    <3>1. Len(r) = 0 + 1
      BY <1>4, <1>6
    <3> QED BY <2>1, <2>2, <2>3, <3>1
  <2>5. u[r] = Root(s) /\ u[q].kind = Root(t).kind /\ u[q].at = Root(t).at
    BY <1>1, <1>6, <2>1, <2>4 DEF Root, Joined
  <2>6. u[q].kind \in Operators => Binds(w, u[q], u[r], Side(q, r))
    BY <1>6, <2>5, BindsAlike
  <2> QED BY <1>6, <2>5, <2>6
<1>7. CASE q \in Below(t) /\ r \in Below(t)
  <2>1. q \in DOMAIN t /\ r \in DOMAIN t /\ u[q] = t[q] /\ u[r] = t[r]
    BY <1>7 DEF Below, Joined
  <2>2. /\ t[q].kind \in Operators => Binds(w, t[q], t[r], Side(q, r))
        /\ t[q].kind = "IfElseStmt" /\ Side(q, r) = 2 => ~EndsOpen(t, r)
    BY <1>3, <2>1 DEF Structured
  <2>3. EndsOpen(u, r) => EndsOpen(t, r)
    BY <1>7, AddEndsOpen
  <2> QED BY <2>1, <2>2, <2>3
<1>8. ASSUME NEW a \in DOMAIN s, NEW b \in DOMAIN s,
             q = Child(n, a), r = Child(n, b), Above(a, b), Side(q, r) = Side(a, b)
      PROVE  /\ u[q].kind \in Operators => Binds(w, u[q], u[r], Side(q, r))
             /\ u[q].kind = "IfElseStmt" /\ Side(q, r) = 2 => ~EndsOpen(u, r)
  <2>1. /\ a \in Seq(Nat) /\ b \in Seq(Nat)
        /\ u[q] = s[a] /\ u[r] = s[b]
    <3>1. a \in Seq(Nat) /\ b \in Seq(Nat)
      BY DEF IsTree
    <3>2. u[Child(n, a)] = s[a] /\ u[Child(n, b)] = s[b]
      BY DEF Joined
    <3> QED BY <1>8, <3>1, <3>2
  <2>2. Len(r) = Len(b) + 1 /\ Len(q) = Len(a) + 1 /\ Len(a) \in Nat /\ Len(b) \in Nat
    <3>1. Len(Child(n, b)) = Len(b) + 1 /\ Len(Child(n, a)) = Len(a) + 1
      BY <1>2, <2>1, ChildPath
    <3> QED BY <1>8, <2>1, <3>1
  <2>3. Parent(a, b)
    BY <1>4, <1>8, <2>2 DEF Parent
  <2>4. /\ s[a].kind \in Operators => Binds(w, s[a], s[b], Side(a, b))
        /\ s[a].kind = "IfElseStmt" /\ Side(a, b) = 2 => ~EndsOpen(s, b)
    BY <2>3 DEF Structured
  <2>5. EndsOpen(u, r) => EndsOpen(s, b)
    BY <1>8, AddEndsOpen
  <2> QED BY <1>8, <2>1, <2>4, <2>5
<1> QED BY <1>4, <1>5, <1>6, <1>7, <1>8, AddAbove

\* v is t with another root.
Relabelled(v, t, kind, at) ==
    /\ DOMAIN v = DOMAIN t
    /\ Root(v) = Node(kind, at, Root(t).size)
    /\ \A q \in Below(t) : v[q] = t[q]

\* Another kind and token at the root leave a tree a tree.
LEMMA RelabelledTree ==
    ASSUME NEW t, IsTree(t), NEW kind, NEW at \in Nat, NEW v, Relabelled(v, t, kind, at)
    PROVE  IsTree(v)
<1>1. Root(v).size = Root(t).size /\ Root(v).at = at
  BY DEF Relabelled, Node
<1>2. ASSUME NEW q \in DOMAIN v PROVE v[q].size \in Nat /\ v[q].at \in Nat
  <2>1. CASE q = <<>>
    BY <1>1, <1>2, <2>1 DEF IsTree, Root, Relabelled
  <2>2. CASE q # <<>>
    BY <1>2, <2>2 DEF IsTree, Below, Relabelled
  <2> QED BY <2>1, <2>2
<1> QED BY <1>1, <1>2 DEF IsTree, Relabelled

\* The root may change from one that keeps no token to another, or from an if to
\* an if with an else when its body does not end open.
LEMMA RelabelledSound ==
    ASSUME NEW w, NEW t, IsTree(t), NEW kind, NEW at \in Nat,
           NEW v, Relabelled(v, t, kind, at),
           kind \in Silent <=> Root(t).kind \in Silent,
           kind \notin Silent => at = Root(t).at,
           kind \notin Operators, Root(t).kind \notin Operators,
           kind = "IfElseStmt" => ~EndsOpen(t, << 2 >>),
           InOrder(t), Structured(w, t)
    PROVE  Kept(v) = Kept(t) /\ InOrder(v) /\ Structured(w, v)
<1>1. Root(v).kind = kind /\ Root(v).at = at
  BY DEF Relabelled, Node
<1>2. ASSUME NEW q \in DOMAIN t
      PROVE  /\ q \in DOMAIN v
             /\ v[q].kind \in Silent <=> t[q].kind \in Silent
             /\ v[q].kind \in Infix <=> t[q].kind \in Infix
             /\ v[q].kind \notin Silent => v[q].at = t[q].at
             /\ v[q].kind \in Operators => v[q] = t[q]
             /\ q # <<>> => v[q] = t[q]
  <2>1. CASE q = <<>>
    BY <1>1, <2>1 DEF Root, Relabelled, Operators, Infix
  <2>2. CASE q # <<>>
    BY <2>2 DEF Below, Relabelled
  <2> QED BY <2>1, <2>2
<1>3. DOMAIN v = DOMAIN t
  BY DEF Relabelled
<1>4. Keepers(v) = Keepers(t)
  BY <1>2, <1>3 DEF Keepers
<1>5. \A q \in Keepers(t) : q \in DOMAIN t /\ v[q].at = t[q].at
  BY <1>2 DEF Keepers
<1>6. Kept(v) = Kept(t)
  BY <1>4, <1>5 DEF Kept
<1>7. InOrder(v)
  <2>1. ASSUME NEW q \in Keepers(v), NEW r \in Keepers(v), Above(q, r)
        PROVE  IF v[q].kind \in Infix /\ Side(q, r) = 1
               THEN v[r].at < v[q].at ELSE v[q].at < v[r].at
    <3>1. q \in Keepers(t) /\ r \in Keepers(t) /\ v[q].at = t[q].at /\ v[r].at = t[r].at
      BY <1>4, <1>5, <2>1
    <3>2. v[q].kind \in Infix <=> t[q].kind \in Infix
      BY <1>2, <3>1 DEF Keepers
    <3>3. IF t[q].kind \in Infix /\ Side(q, r) = 1
          THEN t[r].at < t[q].at ELSE t[q].at < t[r].at
      BY <2>1, <3>1 DEF InOrder
    <3> QED BY <3>1, <3>2, <3>3
  <2>2. ASSUME NEW q \in DOMAIN v, NEW r \in Keepers(v), NEW s \in Keepers(v),
               Above(q, r), Above(q, s), Side(q, r) < Side(q, s)
        PROVE  v[r].at < v[s].at
    <3>1. /\ q \in DOMAIN t /\ r \in Keepers(t) /\ s \in Keepers(t)
          /\ v[r].at = t[r].at /\ v[s].at = t[s].at
      BY <1>3, <1>4, <1>5, <2>2
    <3> QED BY <2>2, <3>1 DEF InOrder
  <2> QED BY <2>1, <2>2 DEF InOrder
<1>8. ASSUME NEW q \in DOMAIN t, q # <<>>, EndsOpen(v, q) PROVE EndsOpen(t, q)
  <2>1. PICK r \in DOMAIN v :
           /\ r = q \/ Above(q, r)
           /\ v[r].kind = "IfStmt"
           /\ \A a \in DOMAIN v : (a = q \/ Above(q, a)) /\ Above(a, r) =>
                 \/ v[a].kind = "IfElseStmt" /\ Side(a, r) = 3
                 \/ v[a].kind = "WhileStmt" /\ Side(a, r) = 2
    BY <1>8 DEF EndsOpen
  <2>2. ASSUME NEW a \in DOMAIN t, a = q \/ Above(q, a) PROVE v[a] = t[a] /\ a \in DOMAIN v
    <3>1. q \in Seq(Nat) /\ a \in Seq(Nat)
      BY DEF IsTree
    <3>2. a # <<>>
      BY <1>8, <2>2, <3>1, RootAbove
    <3> QED BY <1>2, <3>2
  <2>3. r \in DOMAIN t /\ t[r].kind = "IfStmt"
    BY <1>3, <2>1, <2>2
  <2>4. ASSUME NEW a \in DOMAIN t, a = q \/ Above(q, a), Above(a, r)
        PROVE  \/ t[a].kind = "IfElseStmt" /\ Side(a, r) = 3
               \/ t[a].kind = "WhileStmt" /\ Side(a, r) = 2
    BY <2>1, <2>2, <2>4
  <2> QED BY <2>1, <2>3, <2>4 DEF EndsOpen
<1>9. ASSUME NEW q \in DOMAIN v, NEW r \in DOMAIN v, Parent(q, r)
      PROVE  /\ v[q].kind \in Operators => Binds(w, v[q], v[r], Side(q, r))
             /\ v[q].kind = "IfElseStmt" /\ Side(q, r) = 2 => ~EndsOpen(v, r)
  <2>1. q \in DOMAIN t /\ r \in DOMAIN t /\ q \in Seq(Nat) /\ r \in Seq(Nat)
    BY <1>3 DEF IsTree
  <2>2. r # <<>>
    BY <1>9, <2>1, RootAbove DEF Parent
  <2>3. v[r] = t[r] /\ (EndsOpen(v, r) => EndsOpen(t, r))
    BY <1>2, <1>8, <2>1, <2>2
  <2>4. /\ t[q].kind \in Operators => Binds(w, t[q], t[r], Side(q, r))
        /\ t[q].kind = "IfElseStmt" /\ Side(q, r) = 2 => ~EndsOpen(t, r)
    BY <1>9, <2>1 DEF Structured
  <2>5. CASE q # <<>>
    BY <1>2, <2>1, <2>3, <2>4, <2>5
  <2>6. CASE q = <<>>
    <3>1. v[q].kind \notin Operators
      BY <1>1, <2>6 DEF Root
    <3>2. ASSUME v[q].kind = "IfElseStmt", Side(q, r) = 2 PROVE ~EndsOpen(v, r)
      <4>1. Len(r) = 1 /\ r[1] = 2
        BY <1>9, <2>1, <2>6, <3>2, RootAbove DEF Parent
      <4>2. r = << 2 >>
        BY <2>1, <4>1
      <4> QED BY <1>1, <2>3, <2>6, <3>2, <4>2 DEF Root
    <3> QED BY <3>1, <3>2
  <2> QED BY <2>5, <2>6
<1>10. Structured(w, v)
  BY <1>9 DEF Structured
<1> QED BY <1>6, <1>7, <1>10

-----------------------------------------------------------------------------
(* Trees that are right about the tokens from a on, up to b.               *)

\* The tokens from a to before b that mean something, and the trees that are right
\* about them: each of the tokens in its place, operands and bodies as they must be.
Means(w, a, b) == {i \in a..(b - 1) : w[i] \notin Punctuation}
Sound(w, t, a, b) ==
    /\ IsTree(t)
    /\ Kept(t) \subseteq a..(b - 1) /\ Means(w, a, b) \subseteq Kept(t)
    /\ InOrder(t) /\ Structured(w, t)

\* A node alone is right about its token, or about no token when it keeps none.
LEMMA LeafSound ==
    ASSUME NEW w, NEW kind, NEW at \in Nat, NEW a \in Nat, NEW b \in Nat,
           IF kind \in Silent THEN Means(w, a, b) = {}
           ELSE a <= at /\ at < b /\ Means(w, a, b) \subseteq {at}
    PROVE  Sound(w, Leaf(kind, at), a, b)
<1> DEFINE t == Leaf(kind, at)
<1>1. IsTree(t) /\ DOMAIN t = {<<>>} /\ t[<<>>] = Node(kind, at, 0)
  BY LeafTree DEF Root
<1> HIDE DEF t
<1>2. t[<<>>].kind = kind /\ t[<<>>].at = at
  BY <1>1 DEF Node
<1>3. Kept(t) = IF kind \in Silent THEN {} ELSE {at}
  BY <1>1, <1>2 DEF Kept, Keepers
<1>4. ~Above(<<>>, <<>>)
  BY DEF Above
<1>5. \A q, r \in DOMAIN t : ~Above(q, r)
  BY <1>1, <1>4
<1>6. InOrder(t) /\ Structured(w, t)
  <2>1. Keepers(t) \subseteq DOMAIN t
    BY DEF Keepers
  <2> QED BY <1>5, <2>1 DEF InOrder, Structured, Parent
<1>7. Kept(t) \subseteq a..(b - 1) /\ Means(w, a, b) \subseteq Kept(t)
  BY <1>3
<1> QED BY <1>1, <1>6, <1>7 DEF Sound, t

\* Tokens that no node keeps may be on both sides.
LEMMA WiderSound ==
    ASSUME NEW w, NEW t, NEW a \in Nat, NEW b \in Nat, NEW c \in Nat, NEW d \in Nat,
           Sound(w, t, b, c), a <= b, c <= d, Means(w, a, b) = {}, Means(w, c, d) = {}
    PROVE  Sound(w, t, a, d)
<1>1. b..(c - 1) \subseteq a..(d - 1)
  OBVIOUS
<1>2. Means(w, a, d) \subseteq Means(w, a, b) \cup Means(w, b, c) \cup Means(w, c, d)
  BY DEF Means
<1> QED BY <1>1, <1>2 DEF Sound

\* One child more, which goes on where the tree ends.
LEMMA AddSound ==
    ASSUME NEW w, NEW t, NEW s, NEW a \in Nat, NEW b \in Nat, NEW c \in Nat,
           Sound(w, t, a, b), Sound(w, s, b, c), a <= b, b <= c,
           Root(t).kind \in Infix => Root(t).size # 0,
           Root(t).kind \in Operators => Binds(w, Root(t), Root(s), Root(t).size + 1),
           ~(Root(t).kind = "IfElseStmt" /\ Root(t).size = 1)
    PROVE  Sound(w, Add(t, s), a, c)
<1> DEFINE u == Add(t, s)
           n == Root(t).size + 1
<1>1. IsTree(t) /\ IsTree(s) /\ Root(t).size \in Nat
  BY DEF Sound, IsTree, Root
<1>2. Joined(u, n, t, s)
  BY <1>1, AddJoins
<1>3. IsTree(u)
  BY <1>1, AddTree
<1>4. n # 1 \/ Root(t).kind \notin Infix
  BY <1>1
<1>5. ~(Root(t).kind = "IfElseStmt" /\ n = 2)
  BY <1>1
<1>6. Root(t).kind \in Operators => Binds(w, Root(t), Root(s), n)
  OBVIOUS
<1> HIDE DEF u, n
<1>7. Kept(u) = Kept(t) \cup Kept(s)
  BY <1>1, <1>2, AddKept
<1>8. \A x \in Kept(t), y \in Kept(s) : x < y
  <2>1. \A x \in Kept(t) : x \in Nat /\ x < b
    BY DEF Sound
  <2>2. \A y \in Kept(s) : y \in Nat /\ b <= y
    BY DEF Sound
  <2> QED BY <2>1, <2>2
<1>9. InOrder(u)
  BY <1>1, <1>2, <1>4, <1>8, AddInOrder DEF Sound
<1>10. Structured(w, u)
  BY <1>1, <1>2, <1>5, <1>6, AddStructured DEF Sound
<1>11. Kept(u) \subseteq a..(c - 1)
  BY <1>7 DEF Sound
<1>12. Means(w, a, c) \subseteq Kept(u)
  <2>1. Means(w, a, c) \subseteq Means(w, a, b) \cup Means(w, b, c)
    BY DEF Means
  <2> QED BY <1>7, <2>1 DEF Sound
<1> QED BY <1>3, <1>9, <1>10, <1>11, <1>12 DEF Sound, u

\* What ends before an operator as the first operand of it.
LEMMA UnderSound ==
    ASSUME NEW w, NEW s, NEW kind \in Infix, NEW a \in Nat, NEW b \in Nat,
           Sound(w, s, a, b), a <= b,
           kind \in Operators => Binds(w, Node(kind, b, 0), Root(s), 1)
    PROVE  Sound(w, Add(Leaf(kind, b), s), a, b + 1)
<1> DEFINE t == Leaf(kind, b)
           u == Add(t, s)
<1>1. kind \notin Silent /\ kind # "IfElseStmt"
  BY DEF Infix, Silent
<1>2. Sound(w, t, b, b + 1)
  <2>1. Means(w, b, b + 1) \subseteq {b}
    BY DEF Means
  <2> QED BY <1>1, <2>1, LeafSound
<1>3. IsTree(t) /\ IsTree(s) /\ Root(t) = Node(kind, b, 0)
  BY LeafTree DEF Sound
<1>4. Joined(u, 1, t, s)
  <2>1. 1 = Root(t).size + 1
    BY <1>3 DEF Node
  <2> QED BY <1>3, <2>1, AddJoins
<1>5. IsTree(u)
  BY <1>3, AddTree
<1> HIDE DEF u, t
<1>6. Kept(u) = Kept(t) \cup Kept(s)
  BY <1>3, <1>4, AddKept
<1>7. Kept(t) \subseteq b..b /\ Means(w, b, b + 1) \subseteq Kept(t)
  BY <1>2 DEF Sound
<1>8. \A x \in Kept(t), y \in Kept(s) : y < x
  BY <1>7 DEF Sound
<1>9. Root(t).kind = kind
  BY <1>3 DEF Node
<1>10. InOrder(u)
  BY <1>2, <1>3, <1>4, <1>8, <1>9, AddInOrder DEF Sound
<1>11. Structured(w, u)
  BY <1>1, <1>2, <1>3, <1>4, <1>9, AddStructured DEF Sound
<1>12. Kept(u) \subseteq a..b
  BY <1>6, <1>7 DEF Sound
<1>13. Means(w, a, b + 1) \subseteq Kept(u)
  <2>1. Means(w, a, b + 1) \subseteq Means(w, a, b) \cup Means(w, b, b + 1)
    BY DEF Means
  <2> QED BY <1>6, <1>7, <2>1 DEF Sound
<1>14. (b + 1) - 1 = b
  OBVIOUS
<1> QED BY <1>5, <1>10, <1>11, <1>12, <1>13, <1>14 DEF Sound, u, t

\* Another root, with the tokens of the tree where they were.
LEMMA AsSound ==
    ASSUME NEW w, NEW t, NEW kind, NEW at \in Nat, NEW v, NEW a, NEW b,
           Sound(w, t, a, b), Relabelled(v, t, kind, at),
           kind \in Silent <=> Root(t).kind \in Silent,
           kind \notin Silent => at = Root(t).at,
           kind \notin Operators, Root(t).kind \notin Operators,
           kind = "IfElseStmt" => ~EndsOpen(t, << 2 >>)
    PROVE  Sound(w, v, a, b)
<1>1. IsTree(t) /\ InOrder(t) /\ Structured(w, t)
  BY DEF Sound
<1>2. IsTree(v)
  BY <1>1, RelabelledTree
<1>3. Kept(v) = Kept(t) /\ InOrder(v) /\ Structured(w, v)
  BY <1>1, RelabelledSound
<1> QED BY <1>2, <1>3 DEF Sound

-----------------------------------------------------------------------------
(* The file and the parentheses in it.                                     *)

\* The file that is parsed: no token in it is taken for its end.
FileOK == /\ Whole \in Seq(STRING) /\ file \in Seq(STRING)
          /\ \A p \in 1..Len(Whole) : Whole[p] # "eof"
          /\ Len(file) <= Len(Whole)
          /\ \A p \in 1..Len(file) : file[p] = Whole[p]
\* The position of the end of the file.
End == Len(Whole) + 1

\* Token looks up the file, and beyond it finds the end.
LEMMA TokenIs ==
    ASSUME FileOK
    PROVE  /\ Len(Whole) \in Nat /\ End \in Nat /\ End >= 1
           /\ \A p \in 1..Len(Whole) : /\ Token(p) = Whole[p] /\ Token(p) # "eof"
                                       /\ Token(p) \in STRING
           /\ \A p \in Nat : p > Len(Whole) => Token(p) = "eof"
<1>1. Len(Whole) \in Nat /\ Len(file) \in Nat
  BY DEF FileOK
<1>2. ASSUME NEW p \in 1..Len(Whole)
      PROVE  Token(p) = Whole[p] /\ Token(p) # "eof" /\ Token(p) \in STRING
  <2>1. Token(p) = Whole[p]
    BY <1>1 DEF Token, FileOK
  <2>2. Whole[p] \in STRING /\ Whole[p] # "eof"
    BY DEF FileOK
  <2> QED BY <2>1, <2>2
<1>3. ASSUME NEW p \in Nat, p > Len(Whole) PROVE Token(p) = "eof"
  BY <1>1, <1>3 DEF Token, FileOK
<1> QED BY <1>1, <1>2, <1>3 DEF End

\* The tokens of one sort before a token.
Count(w, x, p) == Cardinality({i \in 1..p - 1 : w[i] = x})

\* A token more counts, or not, among those equal to x.
LEMMA CountStep ==
    ASSUME NEW w, NEW x, NEW p \in Nat, p >= 1
    PROVE  /\ Count(w, x, p) \in Nat
           /\ Count(w, x, p + 1) = Count(w, x, p) + (IF w[p] = x THEN 1 ELSE 0)
<1> DEFINE S == {i \in 1..p - 1 : w[i] = x}
           T == {i \in 1..(p + 1) - 1 : w[i] = x}
<1>1. IsFiniteSet(1..p - 1)
  BY FS_Interval
<1>2. S \subseteq 1..p - 1
  OBVIOUS
<1>3. IsFiniteSet(S) /\ p \notin S
  BY <1>1, <1>2, FS_Subset
<1>4. T = IF w[p] = x THEN S \cup {p} ELSE S
  OBVIOUS
<1> HIDE DEF S, T
<1>5. Cardinality(S) \in Nat
  BY <1>3, FS_CardinalityType
<1>6. Cardinality(S \cup {p}) = Cardinality(S) + 1
  BY <1>3, FS_AddElement
<1>7. Cardinality(T) = Cardinality(S) + (IF w[p] = x THEN 1 ELSE 0)
  BY <1>4, <1>5, <1>6
<1> QED BY <1>5, <1>7 DEF S, T, Count

\* A parenthesis, and nothing else, changes the depth.
LEMMA DepthStep ==
    ASSUME NEW w, NEW p \in Nat, p >= 1
    PROVE  /\ Depth(w, p) \in Int
           /\ Depth(w, p + 1) = Depth(w, p) + (IF w[p] = "(" THEN 1
                                               ELSE IF w[p] = ")" THEN -1 ELSE 0)
<1>1. /\ Count(w, "(", p) \in Nat
      /\ Count(w, "(", p + 1) = Count(w, "(", p) + (IF w[p] = "(" THEN 1 ELSE 0)
  BY CountStep
<1>2. /\ Count(w, ")", p) \in Nat
      /\ Count(w, ")", p + 1) = Count(w, ")", p) + (IF w[p] = ")" THEN 1 ELSE 0)
  BY CountStep
<1>3. /\ Depth(w, p) = Count(w, "(", p) - Count(w, ")", p)
      /\ Depth(w, p + 1) = Count(w, "(", p + 1) - Count(w, ")", p + 1)
  BY DEF Depth, Count
<1>4. CASE w[p] = "("
  BY <1>1, <1>2, <1>3, <1>4
<1>5. CASE w[p] = ")"
  BY <1>1, <1>2, <1>3, <1>5
<1>6. CASE w[p] \notin {"(", ")"}
  BY <1>1, <1>2, <1>3, <1>6
<1> QED BY <1>4, <1>5, <1>6

\* The operators of the levels.
LEMMA LevelsAre ==
    /\ Len(Levels) = 10 /\ Len(Precedence) = 10
    /\ \A k \in 1..10 : Levels[k] = Precedence[k].ops
    /\ \A k \in 1..10 : \A x \in Levels[k] :
          x \notin Punctuation /\ x \notin {"eof", "=", "id"}
<1>1. Len(Levels) = 10 /\ Len(Precedence) = 10
  BY DEF Levels, Precedence
<1>2. ASSUME NEW k \in 1..10 PROVE Levels[k] = Precedence[k].ops
  <2>0. k = 1 \/ k = 2 \/ k = 3 \/ k = 4 \/ k = 5 \/ k = 6 \/ k = 7 \/ k = 8 \/ k = 9 \/ k = 10
    OBVIOUS
  <2>1. CASE k = 1
    BY <2>1 DEF Levels, Precedence
  <2>2. CASE k = 2
    BY <2>2 DEF Levels, Precedence
  <2>3. CASE k = 3
    BY <2>3 DEF Levels, Precedence
  <2>4. CASE k = 4
    BY <2>4 DEF Levels, Precedence
  <2>5. CASE k = 5
    BY <2>5 DEF Levels, Precedence
  <2>6. CASE k = 6
    BY <2>6 DEF Levels, Precedence
  <2>7. CASE k = 7
    BY <2>7 DEF Levels, Precedence
  <2>8. CASE k = 8
    BY <2>8 DEF Levels, Precedence
  <2>9. CASE k = 9
    BY <2>9 DEF Levels, Precedence
  <2>10. CASE k = 10
    BY <2>10 DEF Levels, Precedence
  <2> QED BY <2>0, <2>1, <2>2, <2>3, <2>4, <2>5, <2>6, <2>7, <2>8, <2>9, <2>10
<1>3. ASSUME NEW k \in 1..10, NEW x \in Levels[k]
      PROVE  x \notin Punctuation /\ x \notin {"eof", "=", "id"}
  <2>1. k = 1 \/ k = 2 \/ k = 3 \/ k = 4 \/ k = 5 \/ k = 6 \/ k = 7 \/ k = 8 \/ k = 9 \/ k = 10
    OBVIOUS
  <2>2. x \in {"*", "/", "%", "+", "-", "<<", ">>", "<", ">", "<=", ">=", "==", "!=",
               "&", "^", "|", "&&", "||"}
    BY <2>1 DEF Levels
  <2> QED BY <2>2 DEF Punctuation
<1> QED BY <1>1, <1>2, <1>3

\* No operator belongs to two levels.
LEMMA LevelIsOne ==
    ASSUME NEW j \in 1..10, NEW k \in 1..10, NEW x, x \in Levels[j], x \in Levels[k]
    PROVE  j = k
<1>1. j = 1 \/ j = 2 \/ j = 3 \/ j = 4 \/ j = 5 \/ j = 6 \/ j = 7 \/ j = 8 \/ j = 9 \/ j = 10
  OBVIOUS
<1>2. k = 1 \/ k = 2 \/ k = 3 \/ k = 4 \/ k = 5 \/ k = 6 \/ k = 7 \/ k = 8 \/ k = 9 \/ k = 10
  OBVIOUS
<1> QED BY <1>1, <1>2 DEF Levels

\* A binary operator binds as its level says.
LEMMA LevelLooseness ==
    ASSUME NEW w, NEW k \in 1..10, NEW node, node.kind = "Binary", w[node.at] \in Levels[k]
    PROVE  Looseness(w, node) = k
<1> DEFINE x == w[node.at]
<1>1. Looseness(w, node) = CHOOSE j \in DOMAIN Precedence : x \in Precedence[j].ops
  BY DEF Looseness
<1>2. DOMAIN Precedence = 1..10
  BY DEF Precedence
<1>3. \A j \in 1..10 : Levels[j] = Precedence[j].ops
  BY LevelsAre
<1> HIDE DEF x
<1>4. x \in Levels[k]
  BY DEF x
<1>5. \A j \in DOMAIN Precedence : x \in Precedence[j].ops => j = k
  BY <1>2, <1>3, <1>4, LevelIsOne
<1>6. k \in DOMAIN Precedence /\ x \in Precedence[k].ops
  BY <1>2, <1>3, <1>4
<1> QED BY <1>1, <1>5, <1>6

-----------------------------------------------------------------------------
(* What a rule returns, when it is called at p.                            *)

\* The rule stays within the file; an error is one that the parser reports, and
\* any other result has the tokens that have been read.
Fine(p, r) ==
    /\ r.next \in p..End
    /\ IF IsError(r) THEN Root(r.node).kind = "error"
       ELSE Sound(Whole, r.node, p, r.next)

\* A tree may become the next child of another.
MayJoin(t, s) ==
    /\ Root(t).kind \in Infix => Root(t).size # 0
    /\ Root(t).kind \in Operators => Binds(Whole, Root(t), Root(s), Root(t).size + 1)
    /\ ~(Root(t).kind = "IfElseStmt" /\ Root(t).size = 1)

\* A node alone has the kind and the token it was given.
LEMMA LeafKind ==
    ASSUME NEW kind, NEW at \in Nat, NEW next
    PROVE  /\ Got(Leaf(kind, at), next).next = next
           /\ Got(Leaf(kind, at), next).node = Leaf(kind, at)
           /\ Root(Leaf(kind, at)) = Node(kind, at, 0)
           /\ Root(Leaf(kind, at)).kind = kind
           /\ Root(Leaf(kind, at)).at = at
           /\ Root(Leaf(kind, at)).size = 0
<1>1. Root(Leaf(kind, at)) = Node(kind, at, 0)
  BY LeafTree
<1> QED BY <1>1 DEF Got, Node

\* No token means something where none is, nor does punctuation.
LEMMA MeansLittle ==
    ASSUME FileOK, NEW p \in 1..End
    PROVE  /\ Means(Whole, p, p) = {}
           /\ Means(Whole, p, p + 1) \subseteq {p}
           /\ Token(p) \in Punctuation => Means(Whole, p, p + 1) = {}
<1>1. Len(Whole) \in Nat /\ End = Len(Whole) + 1
  BY TokenIs DEF End
<1>2. Means(Whole, p, p) = {} /\ Means(Whole, p, p + 1) \subseteq {p}
  BY <1>1 DEF Means
<1>3. ASSUME Token(p) \in Punctuation PROVE Means(Whole, p, p + 1) = {}
  <2>1. "eof" \notin Punctuation
    BY DEF Punctuation
  <2>2. p \in 1..Len(Whole)
    BY <1>1, <1>3, <2>1, TokenIs
  <2>3. Whole[p] \in Punctuation
    BY <1>3, <2>2, TokenIs
  <2> QED BY <1>1, <2>3 DEF Means
<1> QED BY <1>2, <1>3

\* An error at a token that is there, or at the end, is one the parser reports.
LEMMA ErrorFine ==
    ASSUME FileOK, NEW p \in 1..End, NEW q \in p..End
    PROVE  /\ Fine(p, Error(q)) /\ IsError(Error(q))
           /\ ~Missing(Error(q)) /\ ~Found(Error(q))
<1>1. q \in Nat /\ End \in Nat
  BY TokenIs
<1>2. Error(q).next = q /\ Root(Error(q).node).kind = "error"
  BY <1>1, LeafKind DEF Error
<1> QED BY <1>2 DEF Fine, IsError, Missing, Found

\* A rule that finds nothing reads nothing.
LEMMA NothingFine ==
    ASSUME FileOK, NEW p \in 1..End
    PROVE  /\ Fine(p, Nothing(p)) /\ ~IsError(Nothing(p)) /\ Missing(Nothing(p))
           /\ ~Found(Nothing(p)) /\ Nothing(p).next = p
<1>1. p \in Nat /\ End \in Nat /\ p \in p..End
  BY TokenIs
<1>2. /\ Nothing(p).next = p /\ Root(Nothing(p).node).kind = "null"
      /\ Nothing(p).node = Leaf("null", 0)
  BY LeafKind DEF Nothing
<1>3. Means(Whole, p, p) = {}
  BY MeansLittle
<1>4. Sound(Whole, Leaf("null", 0), p, p)
  BY <1>1, <1>3, LeafSound DEF Silent
<1> QED BY <1>1, <1>2, <1>4 DEF Fine, IsError, Missing, Found

\* A node that keeps no token may begin where only punctuation has been read.
LEMMA LeafFine ==
    ASSUME FileOK, NEW p \in 1..End, NEW kind, kind \in Silent,
           NEW m \in p..End, Means(Whole, p, m) = {}
    PROVE  Fine(p, Got(Leaf(kind, 0), m)) /\ ~IsError(Got(Leaf(kind, 0), m))
<1> DEFINE l == Got(Leaf(kind, 0), m)
<1>1. l.next = m /\ l.node = Leaf(kind, 0) /\ Root(l.node).kind = kind
  BY LeafKind
<1>2. p \in Nat /\ m \in Nat
  BY TokenIs
<1>3. Sound(Whole, Leaf(kind, 0), p, m)
  BY <1>2, LeafSound
<1>4. kind \notin {"error", "deep"}
  BY DEF Silent
<1> HIDE DEF l
<1>5. Fine(p, l) /\ ~IsError(l)
  BY <1>1, <1>3, <1>4 DEF Fine, IsError
<1> QED BY <1>5 DEF l

\* A node of a token has that token.
LEMMA TakeFine ==
    ASSUME FileOK, NEW p \in 1..Len(Whole), NEW kind,
           kind \notin Silent, kind \notin {"error", "deep"}
    PROVE  /\ Fine(p, Take(kind, p)) /\ ~IsError(Take(kind, p)) /\ Found(Take(kind, p))
           /\ Take(kind, p).next = p + 1 /\ Take(kind, p).node = Leaf(kind, p)
           /\ Root(Take(kind, p).node) = Node(kind, p, 0)
           /\ Root(Take(kind, p).node).kind = kind
           /\ Root(Take(kind, p).node).at = p
           /\ Root(Take(kind, p).node).size = 0
<1>1. p \in Nat /\ p \in 1..End /\ p + 1 \in p..End /\ p + 1 \in Nat
  BY TokenIs DEF End
<1>2. /\ Take(kind, p).next = p + 1 /\ Take(kind, p).node = Leaf(kind, p)
      /\ Root(Leaf(kind, p)) = Node(kind, p, 0) /\ Root(Leaf(kind, p)).kind = kind
      /\ Root(Leaf(kind, p)).at = p /\ Root(Leaf(kind, p)).size = 0
  BY <1>1, LeafKind DEF Take
<1>3. Means(Whole, p, p + 1) \subseteq {p}
  BY <1>1, MeansLittle
<1>4. Sound(Whole, Leaf(kind, p), p, p + 1)
  BY <1>1, <1>3, LeafSound
<1>5. kind # "null"
  BY DEF Silent
<1> QED BY <1>1, <1>2, <1>4, <1>5 DEF Fine, IsError, Missing, Found

\* Punctuation may come before what is read.
LEMMA FineFrom ==
    ASSUME FileOK, NEW p \in 1..End, NEW q \in p..End, NEW r, Fine(q, r),
           Means(Whole, p, q) = {}
    PROVE  Fine(p, r)
<1>1. p \in Nat /\ q \in Nat /\ r.next \in Nat /\ r.next \in p..End /\ r.next \in q..End
  BY TokenIs DEF Fine
<1>2. CASE IsError(r)
  BY <1>1, <1>2 DEF Fine
<1>3. CASE ~IsError(r)
  <2>1. Sound(Whole, r.node, q, r.next)
    BY <1>3 DEF Fine
  <2>2. Means(Whole, r.next, r.next) = {}
    BY <1>1 DEF Means
  <2>3. Sound(Whole, r.node, p, r.next)
    BY <1>1, <2>1, <2>2, WiderSound
  <2> QED BY <1>1, <1>3, <2>3 DEF Fine
<1> QED BY <1>2, <1>3

\* An error stays one, and a rule that succeeds has read the token.
LEMMA ExpectFine ==
    ASSUME FileOK, NEW p \in 1..End, NEW token \in Punctuation, NEW l, Fine(p, l),
           NEW r, r = Expect(token, l)
    PROVE  /\ Fine(p, r)
           /\ IsError(l) => r = l
           /\ ~IsError(r) => /\ ~IsError(l) /\ r.node = l.node /\ r.next = l.next + 1
                             /\ Token(l.next) = token /\ l.next \in p..Len(Whole)
           /\ ~Missing(l) => ~Missing(r)
<1>1. p \in Nat /\ End \in Nat /\ End = Len(Whole) + 1 /\ l.next \in p..End
  BY TokenIs DEF Fine, End
<1>2. l.next \in 1..End /\ l.next \in Nat
  BY <1>1
<1>3. CASE IsError(l)
  <2>1. r = l
    BY <1>3 DEF Expect
  <2> QED BY <1>3, <2>1
<1>4. CASE ~IsError(l) /\ Token(l.next) # token
  <2>1. r = Error(l.next)
    BY <1>4 DEF Expect
  <2> QED BY <1>1, <1>2, <1>4, <2>1, ErrorFine
<1>5. CASE ~IsError(l) /\ Token(l.next) = token
  <2>1. r = Got(l.node, l.next + 1)
    BY <1>5 DEF Expect
  <2>2. r.node = l.node /\ r.next = l.next + 1
    BY <2>1 DEF Got
  <2>3. token # "eof"
    BY DEF Punctuation
  <2>4. l.next \in p..Len(Whole)
    BY <1>1, <1>2, <1>5, <2>3, TokenIs
  <2>5. Means(Whole, l.next, l.next + 1) = {}
    BY <1>2, <1>5, MeansLittle
  <2>6. Sound(Whole, l.node, p, l.next)
    BY <1>5 DEF Fine
  <2>7. Means(Whole, p, p) = {}
    BY MeansLittle
  <2>8. Sound(Whole, r.node, p, r.next)
    <3>1. l.next + 1 \in Nat /\ p <= p /\ l.next <= l.next + 1
      BY <1>1, <1>2
    <3> QED BY <1>1, <1>2, <2>2, <2>5, <2>6, <2>7, <3>1, WiderSound
  <2>9. ~IsError(r) /\ (Missing(r) <=> Missing(l)) /\ r.next \in p..End
    BY <1>1, <1>5, <2>2, <2>4 DEF IsError, Missing
  <2> QED BY <1>5, <2>2, <2>4, <2>8, <2>9 DEF Fine
<1> QED BY <1>3, <1>4, <1>5

\* What is needed is there, or the parser reports an error.
LEMMA NeedFine ==
    ASSUME FileOK, NEW p \in 1..End, NEW r, Fine(p, r)
    PROVE  /\ Fine(p, Need(r)) /\ ~Missing(Need(r))
           /\ ~IsError(Need(r)) => Found(r) /\ Need(r) = r
<1>1. CASE Missing(r)
  <2>1. Need(r) = Error(r.next) /\ r.next \in p..End
    BY <1>1 DEF Need, Fine
  <2> QED BY <2>1, ErrorFine
<1>2. CASE ~Missing(r)
  BY <1>2 DEF Need, Found
<1> QED BY <1>1, <1>2

\* One child more.
LEMMA WithFine ==
    ASSUME FileOK, NEW p \in 1..End, NEW l, NEW r, Fine(p, l),
           ~IsError(l) => Fine(l.next, r),
           ~IsError(l) /\ ~IsError(r) => MayJoin(l.node, r.node),
           NEW u, u = With(l, r)
    PROVE  /\ Fine(p, u)
           /\ ~IsError(u) => /\ ~IsError(l) /\ ~IsError(r) /\ u.next = r.next
                             /\ l.next \in p..End /\ r.next \in l.next..End
                             /\ IsTree(l.node) /\ IsTree(r.node)
                             /\ Joined(u.node, Root(l.node).size + 1, l.node, r.node)
                             /\ Root(u.node).kind = Root(l.node).kind
                             /\ Root(u.node).at = Root(l.node).at
                             /\ Root(u.node).size = Root(l.node).size + 1
<1>1. p \in Nat /\ End \in Nat /\ l.next \in p..End
  BY TokenIs DEF Fine
<1>2. CASE IsError(l)
  <2>1. u = l
    BY <1>2 DEF With
  <2> QED BY <1>2, <2>1
<1>3. CASE ~IsError(l) /\ IsError(r)
  <2>1. u = r
    BY <1>3 DEF With
  <2>2. r.next \in l.next..End /\ Root(r.node).kind = "error"
    BY <1>3 DEF Fine
  <2>3. r.next \in p..End
    BY <1>1, <2>2
  <2> QED BY <1>3, <2>1, <2>2, <2>3 DEF Fine
<1>4. CASE ~IsError(l) /\ ~IsError(r)
  <2>1. u = Got(Add(l.node, r.node), r.next)
    BY <1>4 DEF With
  <2>2. u.node = Add(l.node, r.node) /\ u.next = r.next
    BY <2>1 DEF Got
  <2>3. Sound(Whole, l.node, p, l.next) /\ Sound(Whole, r.node, l.next, r.next)
    BY <1>4 DEF Fine
  <2>4. IsTree(l.node) /\ IsTree(r.node)
    BY <2>3 DEF Sound
  <2>5. r.next \in l.next..End
    BY <1>4 DEF Fine
  <2>6. Joined(u.node, Root(l.node).size + 1, l.node, r.node)
    BY <2>2, <2>4, AddJoins
  <2>7. Root(u.node) = Node(Root(l.node).kind, Root(l.node).at, Root(l.node).size + 1)
    BY <2>6 DEF Joined
  <2>8. /\ Root(u.node).kind = Root(l.node).kind /\ Root(u.node).at = Root(l.node).at
        /\ Root(u.node).size = Root(l.node).size + 1
    BY <2>7 DEF Node
  <2>9. ~IsError(u)
    BY <1>4, <2>8 DEF IsError
  <2>10. l.next \in Nat /\ r.next \in Nat /\ p <= l.next /\ l.next <= r.next
         /\ r.next \in p..End
    BY <1>1, <2>5
  <2>11. MayJoin(l.node, r.node)
    BY <1>4
  <2>12. Sound(Whole, u.node, p, u.next)
    <3> DEFINE t == l.node
               s == r.node
               b == l.next
               c == r.next
    <3>1. /\ Sound(Whole, t, p, b) /\ Sound(Whole, s, b, c) /\ p <= b /\ b <= c
          /\ b \in Nat /\ c \in Nat /\ MayJoin(t, s)
      BY <2>3, <2>10, <2>11
    <3> HIDE DEF t, s, b, c
    <3>2. Sound(Whole, Add(t, s), p, c)
      BY <1>1, <3>1, AddSound DEF MayJoin
    <3> QED BY <2>2, <3>2 DEF t, s, c
  <2> QED BY <1>1, <1>4, <2>2, <2>4, <2>5, <2>6, <2>8, <2>9, <2>10, <2>12 DEF Fine
<1> QED BY <1>2, <1>3, <1>4

\* What has been read as the first child of an operator.
LEMMA UnderFine ==
    ASSUME FileOK, NEW p \in 1..End, NEW l, Fine(p, l), ~IsError(l),
           Token(l.next) # "eof", NEW kind \in Infix,
           Binds(Whole, Node(kind, l.next, 0), Root(l.node), 1),
           NEW u, u = Under(kind, l)
    PROVE  /\ Fine(p, u) /\ ~IsError(u) /\ Found(u) /\ u.next = l.next + 1
           /\ l.next \in p..Len(Whole)
           /\ Root(u.node).kind = kind /\ Root(u.node).at = l.next
           /\ Root(u.node).size = 1
<1>1. p \in Nat /\ End \in Nat /\ End = Len(Whole) + 1 /\ l.next \in p..End /\ l.next \in Nat
  BY TokenIs DEF Fine, End
<1>2. l.next \in p..Len(Whole) /\ l.next + 1 \in p..End
  BY <1>1, TokenIs
<1>3. Sound(Whole, l.node, p, l.next)
  BY DEF Fine
<1>4. u.node = Add(Leaf(kind, l.next), l.node) /\ u.next = l.next + 1
  BY DEF Under, Got
<1>5. Sound(Whole, u.node, p, u.next)
  <2> DEFINE s == l.node
             b == l.next
  <2>1. /\ Sound(Whole, s, p, b) /\ b \in Nat /\ p <= b
        /\ Binds(Whole, Node(kind, b, 0), Root(s), 1)
    BY <1>1, <1>3
  <2> HIDE DEF s, b
  <2>2. Sound(Whole, Add(Leaf(kind, b), s), p, b + 1)
    BY <1>1, <2>1, UnderSound
  <2> QED BY <1>4, <2>2 DEF s, b
<1>6. Root(Leaf(kind, l.next)) = Node(kind, l.next, 0) /\ IsTree(Leaf(kind, l.next))
  BY <1>1, LeafTree
<1>7. IsTree(l.node)
  BY <1>3 DEF Sound
<1>8. Joined(u.node, Root(Leaf(kind, l.next)).size + 1, Leaf(kind, l.next), l.node)
  BY <1>4, <1>6, <1>7, AddJoins
<1>9. Root(u.node) = Node(kind, l.next, 0 + 1)
  BY <1>6, <1>8 DEF Joined, Node
<1>10. /\ Root(u.node).kind = kind /\ Root(u.node).at = l.next /\ Root(u.node).size = 1
  BY <1>9 DEF Node
<1>11. kind \notin {"error", "deep", "null"}
  BY DEF Infix
<1> QED BY <1>2, <1>4, <1>5, <1>10, <1>11 DEF Fine, IsError, Missing, Found

\* Another kind of node for what has been read.
LEMMA AsFine ==
    ASSUME FileOK, NEW p \in 1..End, NEW l, Fine(p, l), ~IsError(l),
           NEW kind, NEW at \in Nat,
           kind \in Silent <=> Root(l.node).kind \in Silent,
           kind \notin Silent => at = Root(l.node).at,
           kind \notin Operators, Root(l.node).kind \notin Operators,
           kind \notin {"error", "deep"},
           kind = "IfElseStmt" => ~EndsOpen(l.node, << 2 >>),
           NEW v, v = As(kind, at, l)
    PROVE  /\ Fine(p, v) /\ ~IsError(v) /\ v.next = l.next
           /\ Root(v.node).kind = kind /\ Root(v.node).at = at
           /\ Root(v.node).size = Root(l.node).size
<1>1. Sound(Whole, l.node, p, l.next) /\ l.next \in p..End
  BY DEF Fine
<1>2. IsTree(l.node)
  BY <1>1 DEF Sound
<1>3. /\ v.next = l.next
      /\ v.node = [q \in DOMAIN l.node |->
                     IF q = <<>> THEN Node(kind, at, Root(l.node).size) ELSE l.node[q]]
  BY DEF As, Got
<1>4. Relabelled(v.node, l.node, kind, at)
  <2>1. <<>> \in DOMAIN l.node
    BY <1>2 DEF IsTree
  <2> QED BY <1>3, <2>1 DEF Relabelled, Root, Below
<1>5. Root(v.node) = Node(kind, at, Root(l.node).size)
  BY <1>4 DEF Relabelled
<1>6. Sound(Whole, v.node, p, l.next)
  <2> DEFINE t == l.node
             s == v.node
             b == l.next
  <2>1. /\ Sound(Whole, t, p, b) /\ Relabelled(s, t, kind, at)
        /\ kind \in Silent <=> Root(t).kind \in Silent
        /\ kind \notin Silent => at = Root(t).at
        /\ kind \notin Operators /\ Root(t).kind \notin Operators
        /\ kind = "IfElseStmt" => ~EndsOpen(t, << 2 >>)
    BY <1>1, <1>4
  <2> HIDE DEF t, s, b
  <2>2. Sound(Whole, s, p, b)
    BY <2>1, AsSound
  <2> QED BY <2>2 DEF s, b
<1> QED BY <1>1, <1>3, <1>5, <1>6 DEF Fine, IsError, Node

-----------------------------------------------------------------------------
(* Recursive functions.  Each is known by its equation only if some        *)
(* function satisfies it: one is put together from those on the first n    *)
(* numbers.                                                                *)

\* A set of numbers that is not empty has a least element.
LEMMA LeastOf ==
    ASSUME NEW T \in SUBSET Nat, T # {}
    PROVE  \E x \in T : \A y \in T : x <= y
<1> DEFINE R == {ss \in Nat \X Nat : ss[1] < ss[2]}
<1>1. IsWellFoundedOn(R, Nat)
  BY NatLessThanWellFounded DEF OpToRel
<1>2. PICK x \in T : \A y \in T : <<y, x>> \notin R
  <2> HIDE DEF R
  <2> QED BY <1>1, WFMin
<1>3. \A y \in T : x <= y
  <2> SUFFICES ASSUME NEW y \in T PROVE x <= y
    OBVIOUS
  <2>1. <<y, x>> \notin R /\ <<y, x>> \in Nat \X Nat
    BY <1>2
  <2>2. ~(<<y, x>>[1] < <<y, x>>[2])
    BY <2>1
  <2>3. x \in Nat /\ y \in Nat
    OBVIOUS
  <2> QED BY <2>2, <2>3
<1> QED BY <1>3

\* The recursive functions of Parser: what each makes of its value at n - 1.
Recursion(step, call, loop, base) ==
    [step |-> step, call |-> call, loop |-> loop, base |-> base]
StepOf(m, n, x) ==
    IF m.step = "turn" THEN Turn(m.call, m.loop, x)
    ELSE IF m.step = "level" THEN Repeat(m.call, n, x)
    ELSE IF m.step = "calls" THEN Rules(x)
    ELSE Globals(x)

\* The values of such a function up to n.
ValuesUpTo(p, m, n) ==
    /\ p = [k \in 0..n |-> p[k]] /\ p[0] = m.base
    /\ \A k \in 1..n : p[k] = StepOf(m, k, p[k - 1])

\* Two such lists of values agree as far as both go.
LEMMA ValuesAgree ==
    ASSUME NEW m, NEW i \in Nat, NEW n \in Nat, NEW p, NEW q,
           ValuesUpTo(p, m, i), ValuesUpTo(q, m, n), i <= n
    PROVE  \A k \in 0..i : p[k] = q[k]
<1> DEFINE T == {k \in 0..i : p[k] # q[k]}
<1>1. SUFFICES ASSUME T # {} PROVE FALSE
  OBVIOUS
<1>2. T \in SUBSET Nat
  OBVIOUS
<1>3. PICK x \in T : \A y \in T : x <= y
  <2> HIDE DEF T
  <2> QED BY <1>1, <1>2, LeastOf
<1>4. x \in 0..i /\ p[x] # q[x] /\ x # 0
  BY <1>3 DEF ValuesUpTo
<1>5. x - 1 \in 0..i /\ x \in 1..i /\ x \in 1..n /\ ~(x <= x - 1)
  BY <1>4
<1>6. x - 1 \notin T
  <2> HIDE DEF T
  <2> QED BY <1>3, <1>5
<1>7. p[x - 1] = q[x - 1]
  BY <1>5, <1>6
<1>8. p[x] = StepOf(m, x, p[x - 1]) /\ q[x] = StepOf(m, x, q[x - 1])
  BY <1>5 DEF ValuesUpTo
<1> QED BY <1>4, <1>7, <1>8

\* There are such values up to any number.
LEMMA ValuesExist ==
    ASSUME NEW m, NEW n \in Nat
    PROVE  \E p : ValuesUpTo(p, m, n)
<1> DEFINE T == {k \in Nat : ~\E p : ValuesUpTo(p, m, k)}
<1>1. SUFFICES ASSUME T # {} PROVE FALSE
  OBVIOUS
<1>2. T \in SUBSET Nat
  OBVIOUS
<1>3. PICK x \in T : \A y \in T : x <= y
  <2> HIDE DEF T
  <2> QED BY <1>1, <1>2, LeastOf
<1>4. x \in Nat /\ ~\E p : ValuesUpTo(p, m, x)
  BY <1>3
<1>5. CASE x = 0
  <2> DEFINE p == [k \in 0..0 |-> m.base]
  <2>1. p = [k \in 0..0 |-> p[k]] /\ p[0] = m.base
    OBVIOUS
  <2>2. \A k \in 1..0 : p[k] = StepOf(m, k, p[k - 1])
    OBVIOUS
  <2> HIDE DEF p
  <2>3. ValuesUpTo(p, m, 0)
    BY <2>1, <2>2 DEF ValuesUpTo
  <2> QED BY <1>4, <1>5, <2>3
<1>6. CASE x # 0
  <2>1. x - 1 \in Nat /\ ~(x <= x - 1)
    BY <1>4, <1>6
  <2>2. x - 1 \notin T
    <3> HIDE DEF T
    <3> QED BY <1>3, <2>1
  <2>3. PICK q : ValuesUpTo(q, m, x - 1)
    BY <2>1, <2>2
  <2> DEFINE p == [k \in 0..x |-> IF k = x THEN StepOf(m, x, q[x - 1]) ELSE q[k]]
  <2>4. p = [k \in 0..x |-> p[k]] /\ p[0] = m.base
    <3>1. q[0] = m.base /\ 0 \in 0..x /\ 0 # x
      BY <1>4, <1>6, <2>3 DEF ValuesUpTo
    <3> QED BY <3>1
  <2>5. ASSUME NEW k \in 1..x PROVE p[k] = StepOf(m, k, p[k - 1])
    <3>1. k - 1 \in 0..x /\ k - 1 # x /\ k \in 0..x
      BY <1>4, <2>5
    <3>2. p[k - 1] = q[k - 1]
      BY <3>1
    <3>3. CASE k = x
      BY <3>1, <3>2, <3>3
    <3>4. CASE k # x
      <4>1. k \in 1..(x - 1)
        BY <1>4, <2>5, <3>4
      <4>2. q[k] = StepOf(m, k, q[k - 1])
        BY <2>3, <4>1 DEF ValuesUpTo
      <4> QED BY <3>1, <3>2, <3>4, <4>2
    <3> QED BY <3>3, <3>4
  <2> HIDE DEF p
  <2>6. ValuesUpTo(p, m, x)
    BY <2>4, <2>5 DEF ValuesUpTo
  <2> QED BY <1>4, <2>6
<1> QED BY <1>5, <1>6

\* There is a function with the equation of any of the recursive definitions.
LEMMA RecursionExists ==
    ASSUME NEW m
    PROVE  \E g : g = [n \in Nat |-> IF n = 0 THEN m.base ELSE StepOf(m, n, g[n - 1])]
<1> DEFINE upTo(n) == CHOOSE p : ValuesUpTo(p, m, n)
           G == [n \in Nat |-> upTo(n)[n]]
<1>1. ASSUME NEW n \in Nat PROVE ValuesUpTo(upTo(n), m, n)
  BY ValuesExist
<1> HIDE DEF upTo
<1>2. ASSUME NEW n \in Nat
      PROVE  upTo(n)[n] = IF n = 0 THEN m.base ELSE StepOf(m, n, upTo(n - 1)[n - 1])
  <2>1. CASE n = 0
    BY <1>1, <2>1 DEF ValuesUpTo
  <2>2. CASE n # 0
    <3>1. n - 1 \in Nat /\ n - 1 <= n /\ n \in 1..n /\ n - 1 \in 0..(n - 1)
      BY <2>2
    <3>2. ValuesUpTo(upTo(n), m, n) /\ ValuesUpTo(upTo(n - 1), m, n - 1)
      BY <1>1, <3>1
    <3>3. upTo(n - 1)[n - 1] = upTo(n)[n - 1]
      <4> DEFINE p == upTo(n - 1)
                 q == upTo(n)
                 i == n - 1
      <4>1. i \in Nat /\ i <= n /\ ValuesUpTo(p, m, i) /\ ValuesUpTo(q, m, n) /\ i \in 0..i
        BY <3>1, <3>2
      <4> HIDE DEF p, q, i
      <4>2. \A k \in 0..i : p[k] = q[k]
        BY <4>1, ValuesAgree
      <4> QED BY <4>1, <4>2 DEF p, q, i
    <3>4. upTo(n)[n] = StepOf(m, n, upTo(n)[n - 1])
      BY <3>1, <3>2 DEF ValuesUpTo
    <3> QED BY <2>2, <3>3, <3>4
  <2> QED BY <2>1, <2>2
<1>3. G = [n \in Nat |-> IF n = 0 THEN m.base ELSE StepOf(m, n, G[n - 1])]
  <2>1. ASSUME NEW n \in Nat
        PROVE  upTo(n)[n] = IF n = 0 THEN m.base ELSE StepOf(m, n, G[n - 1])
    <3>1. CASE n = 0
      BY <1>2, <3>1
    <3>2. CASE n # 0
      <4>1. n - 1 \in Nat
        BY <3>2
      <4>2. G[n - 1] = upTo(n - 1)[n - 1]
        BY <4>1
      <4> QED BY <1>2, <3>2, <4>2
    <3> QED BY <3>1, <3>2
  <2> QED BY <2>1
<1> HIDE DEF G
<1> QED BY <1>3

\* A function with the given values.
Unfolds(g, m) ==
    /\ g[0] = m.base
    /\ \A n \in Nat : g[n + 1] = StepOf(m, n + 1, g[n])

\* A function with the equation unfolds: its value at 0, and at n from that at n - 1.
LEMMA UnfoldsEquation ==
    ASSUME NEW m, NEW g,
           g = [n \in Nat |-> IF n = 0 THEN m.base ELSE StepOf(m, n, g[n - 1])]
    PROVE  Unfolds(g, m)
<1>1. \A n \in Nat : g[n] = IF n = 0 THEN m.base ELSE StepOf(m, n, g[n - 1])
  OBVIOUS
<1>2. \A n \in Nat : n + 1 \in Nat /\ n + 1 # 0 /\ (n + 1) - 1 = n
  OBVIOUS
<1>3. g[0] = m.base
  BY <1>1
<1>4. \A n \in Nat : g[n + 1] = StepOf(m, n + 1, g[n])
  BY <1>1, <1>2
<1> QED BY <1>3, <1>4 DEF Unfolds

\* The turns of a loop.
LEMMA RepeatUnfolds ==
    ASSUME NEW call, NEW loop, NEW l
    PROVE  \E g : /\ Unfolds(g, Recursion("turn", call, loop, l))
                  /\ Repeat(call, loop, l) = (IF Over(loop, l) THEN l
                                              ELSE g[Len(Whole) + 1 - l.next])
<1> DEFINE h == CHOOSE g : g = [n \in Nat |-> IF n = 0 THEN l ELSE Turn(call, loop, g[n - 1])]
           m == Recursion("turn", call, loop, l)
<1>1. m.base = l /\ \A n, x : StepOf(m, n, x) = Turn(call, loop, x)
  BY DEF StepOf, Recursion
<1>2. \E g : g = [n \in Nat |-> IF n = 0 THEN m.base ELSE StepOf(m, n, g[n - 1])]
  BY RecursionExists
<1> HIDE DEF m
<1>3. \E g : g = [n \in Nat |-> IF n = 0 THEN l ELSE Turn(call, loop, g[n - 1])]
  BY <1>1, <1>2
<1>4. h = [n \in Nat |-> IF n = 0 THEN l ELSE Turn(call, loop, h[n - 1])]
  BY <1>3
<1>5. Repeat(call, loop, l) = (IF Over(loop, l) THEN l ELSE h[Len(Whole) + 1 - l.next])
  BY DEF Repeat
<1> HIDE DEF h
<1>6. h = [n \in Nat |-> IF n = 0 THEN m.base ELSE StepOf(m, n, h[n - 1])]
  BY <1>1, <1>4
<1>7. Unfolds(h, m)
  BY <1>6, UnfoldsEquation
<1> QED BY <1>5, <1>7 DEF m

\* The levels of operators.
LEMMA BinaryUnfolds ==
    ASSUME NEW call, NEW k, NEW p
    PROVE  \E g : /\ Unfolds(g, Recursion("level", call, k, Unary(call, p)))
                  /\ Binary(call, k, p) = (IF Found(Unary(call, p)) THEN g[k]
                                           ELSE Unary(call, p))
<1> DEFINE h == CHOOSE g : g = [n \in Nat |->
                   IF n = 0 THEN Unary(call, p) ELSE Repeat(call, n, g[n - 1])]
           m == Recursion("level", call, k, Unary(call, p))
<1>1. m.base = Unary(call, p) /\ \A n, x : StepOf(m, n, x) = Repeat(call, n, x)
  BY DEF StepOf, Recursion
<1>2. \E g : g = [n \in Nat |-> IF n = 0 THEN m.base ELSE StepOf(m, n, g[n - 1])]
  BY RecursionExists
<1> HIDE DEF m
<1>3. \E g : g = [n \in Nat |-> IF n = 0 THEN Unary(call, p) ELSE Repeat(call, n, g[n - 1])]
  BY <1>1, <1>2
<1>4. h = [n \in Nat |-> IF n = 0 THEN Unary(call, p) ELSE Repeat(call, n, h[n - 1])]
  BY <1>3
<1>5. Binary(call, k, p) = (IF Found(Unary(call, p)) THEN h[k] ELSE Unary(call, p))
  BY DEF Binary, WithOperators
<1> HIDE DEF h
<1>6. h = [n \in Nat |-> IF n = 0 THEN m.base ELSE StepOf(m, n, h[n - 1])]
  BY <1>1, <1>4
<1>7. Unfolds(h, m)
  BY <1>6, UnfoldsEquation
<1> QED BY <1>5, <1>7 DEF m

\* The calls in one another.
LEMMA NestedUnfolds ==
    \E g : Unfolds(g, Recursion("calls", 0, 0, NoCalls)) /\ Nested = g
<1> DEFINE h == CHOOSE g : g = [n \in Nat |-> IF n = 0 THEN NoCalls ELSE Rules(g[n - 1])]
           m == Recursion("calls", 0, 0, NoCalls)
<1>1. m.base = NoCalls /\ \A n, x : StepOf(m, n, x) = Rules(x)
  BY DEF StepOf, Recursion
<1>2. \E g : g = [n \in Nat |-> IF n = 0 THEN m.base ELSE StepOf(m, n, g[n - 1])]
  BY RecursionExists
<1> HIDE DEF m
<1>3. \E g : g = [n \in Nat |-> IF n = 0 THEN NoCalls ELSE Rules(g[n - 1])]
  BY <1>1, <1>2
<1>4. h = [n \in Nat |-> IF n = 0 THEN NoCalls ELSE Rules(h[n - 1])]
  BY <1>3
<1>5. Nested = h
  BY DEF Nested
<1> HIDE DEF h
<1>6. h = [n \in Nat |-> IF n = 0 THEN m.base ELSE StepOf(m, n, h[n - 1])]
  BY <1>1, <1>4
<1>7. Unfolds(h, m)
  BY <1>6, UnfoldsEquation
<1> QED BY <1>5, <1>7 DEF m

\* The declarations of the file.
LEMMA StartUnfolds ==
    \E g : /\ Unfolds(g, Recursion("globals", 0, 0, Got(Leaf("ASTNode", 0), 1)))
           /\ Start = g[Len(Whole)]
<1> DEFINE h == CHOOSE g : g = [n \in Nat |->
                   IF n = 0 THEN Got(Leaf("ASTNode", 0), 1) ELSE Globals(g[n - 1])]
           m == Recursion("globals", 0, 0, Got(Leaf("ASTNode", 0), 1))
<1>1. m.base = Got(Leaf("ASTNode", 0), 1) /\ \A n, x : StepOf(m, n, x) = Globals(x)
  BY DEF StepOf, Recursion
<1>2. \E g : g = [n \in Nat |-> IF n = 0 THEN m.base ELSE StepOf(m, n, g[n - 1])]
  BY RecursionExists
<1> HIDE DEF m
<1>3. \E g : g = [n \in Nat |-> IF n = 0 THEN Got(Leaf("ASTNode", 0), 1) ELSE Globals(g[n - 1])]
  BY <1>1, <1>2
<1>4. h = [n \in Nat |-> IF n = 0 THEN Got(Leaf("ASTNode", 0), 1) ELSE Globals(h[n - 1])]
  BY <1>3
<1>5. Start = h[Len(Whole)]
  BY DEF Start
<1> HIDE DEF h
<1>6. h = [n \in Nat |-> IF n = 0 THEN m.base ELSE StepOf(m, n, h[n - 1])]
  BY <1>1, <1>4
<1>7. Unfolds(h, m)
  BY <1>6, UnfoldsEquation
<1> QED BY <1>5, <1>7 DEF m

-----------------------------------------------------------------------------
(* What the rules of expressions and statements return.                    *)

\* A node that may be below any operator of the levels from k + 1 on, in
\* parentheses of depth d.
Tight(k, d, node) ==
    /\ node.at \in Nat
    /\ \/ node.kind \in {"LitExpr", "IdExpr", "FuncCallExpr"}
       \/ Depth(Whole, node.at) > d
       \/ Depth(Whole, node.at) = d /\ Looseness(Whole, node) \in -1..k

\* What a rule of expressions returns that calls the first k of the ten functions:
\* nothing, with nothing read, or an operand for the levels after k, with every
\* parenthesis it has read closed.
ReadsExpr(k, p, r) ==
    /\ Fine(p, r)
    /\ Missing(r) => r.next = p
    /\ Found(r) => /\ r.next > p
                   /\ Depth(Whole, r.next) = Depth(Whole, p)
                   /\ Tight(k, Depth(Whole, p), Root(r.node))

\* No else comes after a statement that it could belong to.
ReadsStmt(p, r) ==
    /\ Fine(p, r)
    /\ Found(r) => /\ r.next > p
                   /\ EndsOpen(r.node, <<>>) => Token(r.next) # "else"

\* The calls are as good as the rules they stand for, from p on.
CallGood(call, m) ==
    /\ \A k \in 0..10 : ReadsExpr(k, m, call.operand[k][m])
    /\ ReadsExpr(11, m, call.expression[m])
    /\ ReadsStmt(m, call.statement[m])
\* The same of the calls from p to the end of the file.
CallsGood(call, p) == \A m \in p..End : CallGood(call, m)

\* The depth is a number, and changes at parentheses, by the tokens the parser sees.
LEMMA DepthAt ==
    ASSUME FileOK
    PROVE  /\ \A p \in Nat : Depth(Whole, p) \in Int
           /\ \A p \in 1..Len(Whole) :
                 Depth(Whole, p + 1) = Depth(Whole, p) + (IF Token(p) = "(" THEN 1
                                                          ELSE IF Token(p) = ")" THEN -1 ELSE 0)
<1>1. ASSUME NEW p \in Nat PROVE Depth(Whole, p) \in Int
  <2>1. CASE p = 0
    <3>1. \A x : {i \in 1..p - 1 : Whole[i] = x} = {}
      BY <2>1
    <3>2. Cardinality({}) = 0
      BY FS_EmptySet
    <3> QED BY <3>1, <3>2 DEF Depth
  <2>2. CASE p # 0
    BY <2>2, DepthStep
  <2> QED BY <2>1, <2>2
<1>2. ASSUME NEW p \in 1..Len(Whole)
      PROVE  Depth(Whole, p + 1) = Depth(Whole, p) + (IF Token(p) = "(" THEN 1
                                                      ELSE IF Token(p) = ")" THEN -1 ELSE 0)
  <2>1. p \in Nat /\ p >= 1 /\ Token(p) = Whole[p]
    BY TokenIs
  <2> QED BY <2>1, DepthStep
<1> QED BY <1>1, <1>2

\* An operand for a level is one for any later level.
LEMMA TightWider ==
    ASSUME NEW j \in Int, NEW k \in Int, j <= k, NEW d \in Int, NEW node, Tight(j, d, node)
    PROVE  Tight(k, d, node)
BY DEF Tight

\* An operand for whatever level is one for every level when it is in parentheses.
LEMMA TightDeeper ==
    ASSUME FileOK, NEW j \in Int, NEW k \in Int, NEW d \in Int, NEW node, Tight(j, d + 1, node)
    PROVE  Tight(k, d, node)
<1>1. node.at \in Nat /\ Depth(Whole, node.at) \in Int
  BY DepthAt DEF Tight
<1> QED BY <1>1 DEF Tight

\* A tight node binds tighter than an operator of the same depth.
LEMMA TightBinds ==
    ASSUME NEW k \in Int, NEW d \in Int, NEW node, Tight(k, d, node),
           NEW above, Depth(Whole, above.at) = d, NEW j,
           Looseness(Whole, above) \in Int,
           \/ k < Looseness(Whole, above)
           \/ k = Looseness(Whole, above) /\ j = (IF above.kind = "Assign" THEN 2 ELSE 1)
    PROVE  Binds(Whole, above, node, j)
BY DEF Tight, Binds

\* What is read for a level is an operand for any later level.
LEMMA ReadsWider ==
    ASSUME FileOK, NEW p \in 1..End, NEW j \in Int, NEW k \in Int, j <= k, NEW r,
           ReadsExpr(j, p, r)
    PROVE  ReadsExpr(k, p, r)
<1>1. Depth(Whole, p) \in Int
  BY DepthAt, TokenIs
<1> QED BY <1>1, TightWider DEF ReadsExpr

\* A token that is not a parenthesis, taken by a leaf.
LEMMA TakeReads ==
    ASSUME FileOK, NEW p \in 1..Len(Whole), Token(p) \notin {"(", ")"},
           NEW kind \in {"LitExpr", "IdExpr"}
    PROVE  ReadsExpr(-1, p, Take(kind, p))
<1>1. kind \notin Silent /\ kind \notin {"error", "deep"}
  BY DEF Silent
<1>2. /\ Fine(p, Take(kind, p)) /\ Found(Take(kind, p)) /\ Take(kind, p).next = p + 1
      /\ Root(Take(kind, p).node).kind = kind /\ Root(Take(kind, p).node).at = p
  BY <1>1, TakeFine
<1>3. Depth(Whole, p + 1) = Depth(Whole, p)
  <2>1. Depth(Whole, p) \in Int
    BY DepthAt
  <2> QED BY <2>1, DepthAt
<1> QED BY <1>2, <1>3 DEF ReadsExpr, Tight, Found

\* primary(): a literal, or an expression in parentheses.
LEMMA PrimaryReads ==
    ASSUME FileOK, NEW p \in 1..End, NEW call, CallsGood(call, p + 1)
    PROVE  ReadsExpr(-1, p, Primary(call, p))
<1>1. /\ Len(Whole) \in Nat /\ End = Len(Whole) + 1 /\ p \in Nat /\ p \in p..End
      /\ Token(p) # "eof" => p \in 1..Len(Whole)
  BY TokenIs DEF End
<1>2. CASE Token(p) \in Literals
  <2>1. p \in 1..Len(Whole) /\ Token(p) \notin {"(", ")"}
    BY <1>1, <1>2 DEF Literals
  <2>2. Literal(p) = Take("LitExpr", p)
    BY <1>2 DEF Literal
  <2>3. ReadsExpr(-1, p, Take("LitExpr", p)) /\ ~Missing(Take("LitExpr", p))
    <3>1. "LitExpr" \notin Silent
      BY DEF Silent
    <3> QED BY <2>1, <3>1, TakeReads, TakeFine DEF Found
  <2> QED BY <2>2, <2>3 DEF Primary, Or
<1>3. CASE Token(p) = "huge"
  <2>1. Literal(p) = Error(p)
    BY <1>3 DEF Literal, Literals
  <2>2. ReadsExpr(-1, p, Error(p)) /\ ~Missing(Error(p))
    BY <1>1, ErrorFine DEF ReadsExpr
  <2> QED BY <2>1, <2>2 DEF Primary, Or
<1>4. CASE Token(p) \notin Literals /\ Token(p) # "huge" /\ Token(p) # "("
  <2>1. Primary(call, p) = Nothing(p)
    BY <1>4, NothingFine DEF Primary, Or, Literal
  <2>2. ReadsExpr(-1, p, Nothing(p))
    BY NothingFine DEF ReadsExpr
  <2> QED BY <2>1, <2>2
<1>5. CASE Token(p) = "("
  <2> DEFINE e == call.expression[p + 1]
             r == Expect(")", Need(e))
  <2>1. Primary(call, p) = r
    BY <1>5, NothingFine DEF Primary, Or, Literal, Literals
  <2>2. p \in 1..Len(Whole) /\ p + 1 \in 1..End /\ p + 1 \in p..End /\ p + 1 \in (p + 1)..End
    BY <1>1, <1>5
  <2>3. ReadsExpr(11, p + 1, e)
    BY <2>2 DEF CallsGood, CallGood
  <2> HIDE DEF e
  <2>4. Fine(p + 1, e)
    BY <2>3 DEF ReadsExpr
  <2>5. Fine(p, e)
    <3>1. Means(Whole, p, p + 1) = {}
      BY <1>5, <2>2, MeansLittle DEF Punctuation
    <3> QED BY <2>2, <2>4, <3>1, FineFrom
  <2>6. Fine(p, Need(e)) /\ ~Missing(Need(e)) /\ (~IsError(Need(e)) => Found(e) /\ Need(e) = e)
    BY <2>5, NeedFine
  <2>7. /\ Fine(p, r) /\ ~Missing(r)
        /\ ~IsError(r) => /\ ~IsError(Need(e)) /\ r.node = Need(e).node
                          /\ r.next = Need(e).next + 1
                          /\ Token(Need(e).next) = ")" /\ Need(e).next \in p..Len(Whole)
    <3>1. ")" \in Punctuation
      BY DEF Punctuation
    <3> QED BY <2>6, <3>1, ExpectFine
  <2> HIDE DEF r
  <2>8. ASSUME ~IsError(r)
        PROVE  /\ r.next > p /\ Depth(Whole, r.next) = Depth(Whole, p)
               /\ Tight(-1, Depth(Whole, p), Root(r.node))
    <3>1. /\ Found(e) /\ r.node = e.node /\ r.next = e.next + 1 /\ Token(e.next) = ")"
          /\ e.next \in p..Len(Whole)
      BY <2>6, <2>7, <2>8
    <3>2. /\ Depth(Whole, p) \in Int /\ Depth(Whole, p + 1) = Depth(Whole, p) + 1
          /\ Depth(Whole, e.next + 1) = Depth(Whole, e.next) - 1
      <4>1. Depth(Whole, p) \in Int /\ Depth(Whole, e.next) \in Int
        BY <1>1, <3>1, DepthAt
      <4>2. e.next \in 1..Len(Whole)
        BY <1>1, <3>1
      <4> QED BY <1>5, <2>2, <3>1, <4>1, <4>2, DepthAt
    <3>3. Depth(Whole, e.next) = Depth(Whole, p + 1) /\ Tight(11, Depth(Whole, p + 1), Root(e.node))
      BY <2>3, <3>1 DEF ReadsExpr
    <3>4. Tight(-1, Depth(Whole, p), Root(e.node))
      <4> DEFINE d == Depth(Whole, p)
      <4>1. d \in Int /\ Tight(11, d + 1, Root(e.node))
        BY <3>2, <3>3
      <4> HIDE DEF d
      <4>2. Tight(-1, d, Root(e.node))
        BY <4>1, TightDeeper
      <4> QED BY <4>2 DEF d
    <3>5. Depth(Whole, r.next) = Depth(Whole, p)
      BY <3>1, <3>2, <3>3
    <3> QED BY <1>1, <3>1, <3>4, <3>5
  <2>9. ReadsExpr(-1, p, r)
    BY <2>7, <2>8 DEF ReadsExpr, Found
  <2> QED BY <2>1, <2>9
<1> QED BY <1>2, <1>3, <1>4, <1>5

-----------------------------------------------------------------------------
(* Loops.                                                                  *)

\* The tokens at which each loop goes on.
LEMMA GoesAre ==
    /\ \A k \in 1..10 : Goes(k) = Levels[k]
    /\ Goes(Postfixes) = {"++", "--"} /\ Goes(Arguments) = {","} /\ Goes(Parameters) = {","}
BY LevelsAre DEF Goes, Postfixes, Arguments, Parameters, Statements

\* A token that is there.
LEMMA TokenAt ==
    ASSUME FileOK, NEW p \in 1..End, NEW b \in p..End, Token(b) # "eof"
    PROVE  /\ b \in Nat /\ b \in 1..Len(Whole) /\ b \in p..Len(Whole) /\ b \in 1..End
           /\ b + 1 \in Nat /\ b + 1 \in 1..End /\ b + 1 \in p..End /\ b + 1 \in b..End
           /\ b + 1 \in (p + 1)..End
           /\ Token(b) = Whole[b]
           /\ Depth(Whole, b) \in Int /\ Depth(Whole, p) \in Int
           /\ Token(b) \notin {"(", ")"} => Depth(Whole, b + 1) = Depth(Whole, b)
           /\ Token(b) = "(" => Depth(Whole, b + 1) = Depth(Whole, b) + 1
           /\ Token(b) = ")" => Depth(Whole, b + 1) = Depth(Whole, b) - 1
           /\ Token(b) \in Punctuation => Means(Whole, b, b + 1) = {}
<1>1. Len(Whole) \in Nat /\ End = Len(Whole) + 1 /\ p \in Nat
  BY TokenIs DEF End
<1>2. b \in Nat /\ b \in 1..Len(Whole)
  BY <1>1, TokenIs
<1>3. Token(b) = Whole[b]
  BY <1>2, TokenIs
<1>4. Depth(Whole, b) \in Int /\ Depth(Whole, p) \in Int
  BY <1>1, <1>2, DepthAt
<1>5. Depth(Whole, b + 1) = Depth(Whole, b) + (IF Token(b) = "(" THEN 1
                                               ELSE IF Token(b) = ")" THEN -1 ELSE 0)
  BY <1>2, DepthAt
<1>6. b \in 1..End
  BY <1>1, <1>2
<1>7. Token(b) \in Punctuation => Means(Whole, b, b + 1) = {}
  BY <1>6, MeansLittle
<1> QED BY <1>1, <1>2, <1>3, <1>4, <1>5, <1>6, <1>7

\* What holds of what has been read, at every turn of a loop.
Going(loop, p, l) ==
    /\ Fine(p, l)
    /\ ~Missing(l)
    /\ loop \in 1..10 => ReadsExpr(loop, p, l)
    /\ loop = Postfixes => ReadsExpr(-1, p, l)
    /\ loop = Arguments /\ ~IsError(l) =>
          /\ Root(l.node).kind = "FuncCallExpr" /\ Root(l.node).at = p
          /\ l.next > p /\ Depth(Whole, l.next) = Depth(Whole, p) + 1
    /\ loop = Parameters /\ ~IsError(l) => Root(l.node).kind = "Params" /\ l.next > p
    /\ loop = Statements /\ ~IsError(l) => Root(l.node).kind = "BlockStmt" /\ l.next > p

\* Nodes that have whatever children there are.
LEMMA PlainJoin ==
    ASSUME NEW t, NEW s, Root(t).kind \notin {"Binary", "Assign", "Prefix", "Postfix", "IfElseStmt"}
    PROVE  MayJoin(t, s)
BY DEF MayJoin, Infix, Operators

\* A turn of the loop of a level: what has been read is the left operand, and the
\* right one binds tighter.
LEMMA MoreBinaryGoes ==
    ASSUME FileOK, NEW p \in 1..End, NEW call, CallsGood(call, p + 1),
           NEW k \in 1..10, NEW l, Going(k, p, l), ~Over(k, l),
           NEW u, u = MoreBinary(call, k, l)
    PROVE  Going(k, p, u)
<1> DEFINE d == Depth(Whole, p)
           b == l.next
           a == Under("Binary", l)
           e == call.operand[k - 1][b + 1]
<1>1. /\ Len(Whole) \in Nat /\ End = Len(Whole) + 1 /\ p \in Nat /\ d \in Int
  BY TokenIs, DepthAt DEF End
<1>2. ~IsError(l) /\ Found(l) /\ Fine(p, l) /\ Token(b) \in Levels[k]
  BY GoesAre DEF Over, Going, Found
<1>3. b > p /\ Depth(Whole, b) = d /\ Tight(k, d, Root(l.node))
  BY <1>2 DEF ReadsExpr, Going
<1>4. b \in Nat /\ b \in 1..Len(Whole) /\ Token(b) = Whole[b] /\ Token(b) \notin {"eof", "(", ")"}
  <2>1. Token(b) # "eof" /\ Token(b) \notin Punctuation
    BY <1>2, LevelsAre
  <2>2. b \in p..End
    BY <1>2 DEF Fine
  <2>3. Token(b) \notin {"eof", "(", ")"}
    BY <2>1 DEF Punctuation
  <2> HIDE DEF b
  <2> QED BY <2>1, <2>2, <2>3, TokenAt
<1>5. /\ b + 1 \in 1..End /\ b + 1 \in p..End /\ b + 1 \in (p + 1)..End
      /\ k - 1 \in 0..10 /\ k - 1 < k /\ k - 1 \in Int /\ k \in Int
  BY <1>1, <1>3, <1>4
<1>6. Depth(Whole, b + 1) = d
  BY <1>1, <1>3, <1>4, DepthAt
<1>7. ReadsExpr(k - 1, b + 1, e)
  BY <1>5 DEF CallsGood, CallGood
<1>8. u = With(a, Need(e))
  BY DEF MoreBinary
<1> HIDE DEF d, b, e
<1>9. \A node : node.kind = "Binary" /\ node.at = b => Looseness(Whole, node) = k
  BY <1>2, <1>4, LevelLooseness
<1>10. Binds(Whole, Node("Binary", b, 0), Root(l.node), 1)
  <2> DEFINE above == Node("Binary", b, 0)
  <2>1. above.kind = "Binary" /\ above.at = b
    BY DEF Node
  <2> HIDE DEF above
  <2>2. Looseness(Whole, above) = k /\ Depth(Whole, above.at) = d
    BY <1>3, <1>9, <2>1
  <2>3. Binds(Whole, above, Root(l.node), 1)
    BY <1>1, <1>3, <1>5, <2>1, <2>2, TightBinds
  <2> QED BY <2>3 DEF above
<1>11. /\ Fine(p, a) /\ ~IsError(a) /\ a.next = b + 1
       /\ Root(a.node).kind = "Binary" /\ Root(a.node).at = b /\ Root(a.node).size = 1
  <2>1. "Binary" \in Infix /\ Token(l.next) # "eof"
    BY <1>4 DEF Infix, b
  <2>2. Binds(Whole, Node("Binary", l.next, 0), Root(l.node), 1)
    BY <1>10 DEF b
  <2> HIDE DEF a
  <2>3. a = Under("Binary", l)
    BY DEF a
  <2> QED BY <1>2, <2>1, <2>2, <2>3, UnderFine DEF b
<1> HIDE DEF a
<1>12. /\ Fine(b + 1, Need(e)) /\ ~Missing(Need(e))
       /\ ~IsError(Need(e)) => Found(e) /\ Need(e) = e
  <2>1. Fine(b + 1, e)
    BY <1>7 DEF ReadsExpr
  <2> QED BY <1>5, <2>1, NeedFine
<1>13. ~IsError(Need(e)) => /\ Need(e) = e /\ e.next > b + 1 /\ Depth(Whole, e.next) = d
                            /\ Tight(k - 1, d, Root(e.node))
  BY <1>6, <1>7, <1>12 DEF ReadsExpr
<1>14. ASSUME ~IsError(Need(e)) PROVE MayJoin(a.node, Need(e).node)
  <2>1. Looseness(Whole, Root(a.node)) = k /\ Depth(Whole, Root(a.node).at) = d
    BY <1>3, <1>9, <1>11
  <2>2. Binds(Whole, Root(a.node), Root(e.node), 2)
    BY <1>1, <1>5, <1>13, <1>14, <2>1, TightBinds
  <2>3. Root(a.node).size + 1 = 2
    BY <1>11
  <2> QED BY <1>11, <1>13, <1>14, <2>2, <2>3 DEF MayJoin
<1>15. /\ Fine(p, u)
       /\ ~IsError(u) => /\ ~IsError(Need(e)) /\ u.next = Need(e).next
                         /\ Root(u.node).kind = "Binary" /\ Root(u.node).at = b
  BY <1>8, <1>11, <1>12, <1>14, WithFine
<1>16. ~Missing(u)
  BY <1>8, <1>11, <1>12, <1>15 DEF Missing, IsError
<1>17. ASSUME ~IsError(u)
       PROVE  u.next > p /\ Depth(Whole, u.next) = d /\ Tight(k, d, Root(u.node))
  <2>1. /\ u.next = e.next /\ e.next > b + 1 /\ Depth(Whole, e.next) = d
        /\ Root(u.node).kind = "Binary" /\ Root(u.node).at = b
    BY <1>13, <1>15, <1>17
  <2>2. Looseness(Whole, Root(u.node)) = k /\ Depth(Whole, Root(u.node).at) = d
    BY <1>3, <1>9, <2>1
  <2>3. Tight(k, d, Root(u.node))
    BY <1>4, <1>5, <2>1, <2>2 DEF Tight
  <2>4. u.next \in Int
    BY <1>1, <1>15, TokenIs DEF Fine
  <2> QED BY <1>1, <1>3, <1>4, <2>1, <2>3, <2>4
<1>18. ReadsExpr(k, p, u)
  BY <1>15, <1>16, <1>17 DEF ReadsExpr, Found, d
<1> QED BY <1>15, <1>16, <1>18 DEF Going, Postfixes, Arguments, Parameters, Statements

\* A turn of the loop of postfixexpression().
LEMMA MorePostfixGoes ==
    ASSUME FileOK, NEW p \in 1..End, NEW l, Going(Postfixes, p, l), ~Over(Postfixes, l),
           NEW u, u = MorePostfix(l)
    PROVE  Going(Postfixes, p, u)
<1> DEFINE d == Depth(Whole, p)
           b == l.next
<1>1. Len(Whole) \in Nat /\ End = Len(Whole) + 1 /\ p \in Nat /\ d \in Int
  BY TokenIs, DepthAt DEF End
<1>2. ~IsError(l) /\ Found(l) /\ Fine(p, l) /\ Token(b) \in {"++", "--"}
  BY GoesAre DEF Over, Going, Found, Postfixes
<1>3. b > p /\ Depth(Whole, b) = d /\ Tight(-1, d, Root(l.node))
  BY <1>2 DEF ReadsExpr, Going
<1> HIDE DEF d
<1>4. \A node : node.kind = "Postfix" => Looseness(Whole, node) = -1
  BY DEF Looseness
<1>5. Binds(Whole, Node("Postfix", b, 0), Root(l.node), 1)
  <2> DEFINE above == Node("Postfix", b, 0)
  <2>1. above.kind = "Postfix" /\ above.at = b
    BY DEF Node
  <2> HIDE DEF above
  <2>2. Looseness(Whole, above) = -1 /\ Depth(Whole, above.at) = d
    BY <1>3, <1>4, <2>1
  <2>3. -1 \in Int /\ Looseness(Whole, above) \in Int
    BY <2>2
  <2>4. Binds(Whole, above, Root(l.node), 1)
    BY <1>1, <1>3, <2>1, <2>2, <2>3, TightBinds
  <2> QED BY <2>4 DEF above
<1> HIDE DEF b
<1>6. /\ Fine(p, u) /\ Found(u) /\ u.next = b + 1 /\ b \in p..Len(Whole)
      /\ Root(u.node).kind = "Postfix" /\ Root(u.node).at = b
  <2>1. "Postfix" \in Infix /\ Token(l.next) # "eof" /\ u = Under("Postfix", l)
    BY <1>2 DEF Infix, MorePostfix, b
  <2>2. Binds(Whole, Node("Postfix", l.next, 0), Root(l.node), 1)
    BY <1>5 DEF b
  <2> QED BY <1>2, <2>1, <2>2, UnderFine DEF b
<1>7. Depth(Whole, u.next) = d
  <2>1. b \in p..End /\ Token(b) \notin {"eof", "(", ")"}
    BY <1>1, <1>2, <1>6
  <2>2. Depth(Whole, b + 1) = Depth(Whole, b)
    BY <2>1, TokenAt
  <2> QED BY <1>3, <1>6, <2>2
<1>8. Tight(-1, d, Root(u.node))
  <2>1. Looseness(Whole, Root(u.node)) = -1 /\ Depth(Whole, Root(u.node).at) = d
    BY <1>3, <1>4, <1>6
  <2> QED BY <1>1, <1>6, <2>1 DEF Tight
<1>9. u.next > p
  BY <1>1, <1>6
<1>10. ReadsExpr(-1, p, u)
  BY <1>6, <1>7, <1>8, <1>9 DEF ReadsExpr, Found, d
<1> QED BY <1>6, <1>10 DEF Going, Found, Postfixes, Arguments, Parameters, Statements

\* A tree of a given kind gets one more child, read after a token or at once.
LEMMA ChildFine ==
    ASSUME FileOK, NEW p \in 1..End, NEW l, Fine(p, l), ~IsError(l),
           NEW m \in l.next..End, Means(Whole, l.next, m) = {},
           NEW e, Fine(m, e),
           Root(l.node).kind \notin {"Binary", "Assign", "Prefix", "Postfix", "IfElseStmt"},
           NEW u, u = With(l, e)
    PROVE  /\ Fine(p, u)
           /\ ~IsError(u) => /\ ~IsError(e) /\ u.next = e.next /\ e.next \in m..End
                             /\ Root(u.node).kind = Root(l.node).kind
                             /\ Root(u.node).at = Root(l.node).at
                             /\ Root(u.node).size = Root(l.node).size + 1
                             /\ Joined(u.node, Root(l.node).size + 1, l.node, e.node)
                             /\ IsTree(l.node) /\ IsTree(e.node)
           /\ ~Missing(l) => ~Missing(u)
<1>1. p \in Nat /\ End \in Nat /\ l.next \in p..End
  BY TokenIs DEF Fine
<1>2. l.next \in 1..End
  BY <1>1
<1>3. Fine(l.next, e)
  BY <1>2, FineFrom
<1>4. MayJoin(l.node, e.node)
  BY PlainJoin
<1>5. /\ Fine(p, u)
      /\ ~IsError(u) => /\ ~IsError(e) /\ u.next = e.next
                        /\ Root(u.node).kind = Root(l.node).kind
                        /\ Root(u.node).at = Root(l.node).at
                        /\ Root(u.node).size = Root(l.node).size + 1
                        /\ Joined(u.node, Root(l.node).size + 1, l.node, e.node)
                        /\ IsTree(l.node) /\ IsTree(e.node)
  BY <1>3, <1>4, WithFine
<1>6. ~Missing(l) => ~Missing(u)
  BY <1>5 DEF Missing, IsError
<1>7. e.next \in m..End
  BY DEF Fine
<1> QED BY <1>5, <1>6, <1>7

\* A turn of the loop of argumentlist().
LEMMA MoreArgumentsGoes ==
    ASSUME FileOK, NEW p \in 1..End, NEW call, CallsGood(call, p + 1),
           NEW l, Going(Arguments, p, l), ~Over(Arguments, l),
           NEW u, u = MoreArguments(call, l)
    PROVE  Going(Arguments, p, u)
<1> DEFINE b == l.next
           e == call.expression[b + 1]
<1>1. Len(Whole) \in Nat /\ End = Len(Whole) + 1 /\ p \in Nat
  BY TokenIs DEF End
<1>2. ~IsError(l) /\ ~Missing(l) /\ Fine(p, l) /\ Token(b) = ","
  BY GoesAre DEF Over, Going, Arguments
<1>3. /\ Root(l.node).kind = "FuncCallExpr" /\ Root(l.node).at = p
      /\ b > p /\ Depth(Whole, b) = Depth(Whole, p) + 1
  BY <1>2 DEF Going
<1>4. /\ b \in Nat /\ b + 1 \in (p + 1)..End /\ b + 1 \in 1..End /\ b + 1 \in b..End
      /\ Means(Whole, b, b + 1) = {} /\ Depth(Whole, b + 1) = Depth(Whole, b)
  <2>1. b \in p..End
    BY <1>2 DEF Fine
  <2>2. Token(b) # "eof" /\ Token(b) \in Punctuation /\ Token(b) \notin {"(", ")"}
    BY <1>2 DEF Punctuation
  <2> HIDE DEF b
  <2> QED BY <2>1, <2>2, TokenAt
<1>6. ReadsExpr(11, b + 1, e)
  BY <1>4 DEF CallsGood, CallGood
<1>8. u = With(l, Need(e))
  BY DEF MoreArguments
<1> HIDE DEF e
<1>9. /\ Fine(b + 1, Need(e))
      /\ ~IsError(Need(e)) => Found(e) /\ Need(e) = e
  <2>1. Fine(b + 1, e)
    BY <1>6 DEF ReadsExpr
  <2> QED BY <1>4, <2>1, NeedFine
<1>10. /\ Fine(p, u) /\ ~Missing(u)
       /\ ~IsError(u) => /\ ~IsError(Need(e)) /\ u.next = Need(e).next
                         /\ Root(u.node).kind = "FuncCallExpr" /\ Root(u.node).at = p
  <2> DEFINE x == Need(e)
  <2>1. /\ b + 1 \in l.next..End /\ Means(Whole, l.next, b + 1) = {} /\ Fine(b + 1, x)
        /\ u = With(l, x) /\ ~IsError(l) /\ ~Missing(l) /\ Fine(p, l)
        /\ Root(l.node).kind = "FuncCallExpr" /\ Root(l.node).at = p
    BY <1>2, <1>3, <1>4, <1>8, <1>9
  <2> HIDE DEF x, b
  <2> DEFINE m == b + 1
  <2>2. m \in l.next..End /\ Means(Whole, l.next, m) = {} /\ Fine(m, x)
    BY <2>1
  <2> HIDE DEF m
  <2>3. /\ Fine(p, u) /\ ~Missing(u)
        /\ ~IsError(u) => /\ ~IsError(x) /\ u.next = x.next
                          /\ Root(u.node).kind = "FuncCallExpr" /\ Root(u.node).at = p
    BY <2>1, <2>2, ChildFine
  <2> QED BY <2>3 DEF x
<1>11. ASSUME ~IsError(u)
       PROVE  u.next > p /\ Depth(Whole, u.next) = Depth(Whole, p) + 1
  <2>1. Found(e) /\ u.next = e.next
    BY <1>9, <1>10, <1>11
  <2>2. e.next > b + 1 /\ Depth(Whole, e.next) = Depth(Whole, b + 1)
    BY <1>6, <2>1 DEF ReadsExpr
  <2>3. e.next \in Nat
    BY <1>4, <1>6, TokenIs DEF ReadsExpr, Fine
  <2> QED BY <1>1, <1>3, <1>4, <2>1, <2>2, <2>3
<1> QED BY <1>10, <1>11 DEF Going, Postfixes, Arguments, Parameters, Statements

\* type identifier
LEMMA DeclaratorFine ==
    ASSUME FileOK, NEW p \in 1..Len(Whole),
           NEW kind \in {"ParamDecl", "VarDecl", "FuncDecl"},
           NEW u, u = Declarator(kind, p)
    PROVE  /\ Fine(p, u) /\ ~Missing(u)
           /\ ~IsError(u) => /\ u.next = p + 2 /\ Root(u.node).kind = kind
                             /\ Root(u.node).size = 2
<1>1. Len(Whole) \in Nat /\ End = Len(Whole) + 1 /\ p \in Nat /\ p \in 1..End
  BY TokenIs DEF End
<1>2. CASE Token(p + 1) # "id"
  <2>1. u = Error(p + 1) /\ p + 1 \in p..End
    BY <1>1, <1>2 DEF Declarator
  <2> QED BY <1>1, <2>1, ErrorFine
<1>3. CASE Token(p + 1) = "id"
  <2> DEFINE t == Leaf(kind, p + 1)
             v == Leaf("VType", p)
             n == Leaf("Name", p + 1)
             tv == Add(t, v)
  <2>1. p + 1 \in 1..Len(Whole) /\ p + 1 \in 1..End /\ p + 2 \in p..End
    BY <1>1, <1>3, TokenIs
  <2>2. u = Got(Add(tv, n), p + 2)
    BY <1>3 DEF Declarator
  <2>3. u.node = Add(tv, n) /\ u.next = p + 2
    BY <2>2 DEF Got
  <2>4. /\ kind \in Silent /\ kind \notin Operators /\ kind \notin Infix /\ kind # "IfElseStmt"
        /\ "VType" \notin Silent /\ "Name" \notin Silent
    BY DEF Silent, Operators, Infix
  <2>5. /\ Means(Whole, p, p) = {} /\ Means(Whole, p, p + 1) \subseteq {p}
        /\ Means(Whole, p + 1, (p + 1) + 1) \subseteq {p + 1} /\ (p + 1) + 1 = p + 2
    BY <1>1, <2>1, MeansLittle
  <2>6. Sound(Whole, t, p, p)
    BY <1>1, <2>1, <2>4, <2>5, LeafSound
  <2>7. Sound(Whole, v, p, p + 1)
    BY <1>1, <2>4, <2>5, LeafSound
  <2>8. Sound(Whole, n, p + 1, p + 2)
    BY <1>1, <2>4, <2>5, LeafSound
  <2>9. Root(t).kind = kind /\ Root(t).size = 0 /\ IsTree(t) /\ IsTree(v) /\ IsTree(n)
    BY <1>1, <2>6, <2>7, <2>8, LeafKind DEF Sound
  <2> HIDE DEF t, v, n
  <2>10. Sound(Whole, tv, p, p + 1)
    BY <1>1, <2>4, <2>6, <2>7, <2>9, AddSound
  <2>11. Root(tv).kind = kind /\ Root(tv).size = 1 /\ IsTree(tv)
    <3>1. Joined(tv, Root(t).size + 1, t, v)
      BY <2>9, AddJoins
    <3> QED BY <2>9, <2>10, <3>1 DEF Joined, Node, Sound
  <2> HIDE DEF tv
  <2>12. Sound(Whole, u.node, p, p + 2)
    BY <1>1, <2>3, <2>4, <2>8, <2>10, <2>11, AddSound
  <2>13. Root(u.node).kind = kind /\ Root(u.node).size = 2
    <3>1. Joined(u.node, Root(tv).size + 1, tv, n)
      BY <2>3, <2>9, <2>11, AddJoins
    <3> QED BY <2>11, <3>1 DEF Joined, Node
  <2>14. ~IsError(u) /\ ~Missing(u)
    BY <2>13 DEF IsError, Missing
  <2> QED BY <2>1, <2>3, <2>12, <2>13, <2>14 DEF Fine
<1> QED BY <1>2, <1>3

\* formalparameter() stays within the file and keeps its tokens.
LEMMA ParameterFine ==
    ASSUME FileOK, NEW p \in 1..End
    PROVE  Fine(p, FormalParameter(p))
<1>1. CASE Token(p) \in Types
  <2>1. p \in 1..Len(Whole)
    BY <1>1, TokenIs DEF Types, End
  <2> QED BY <1>1, <2>1, DeclaratorFine DEF FormalParameter
<1>2. CASE Token(p) \notin Types
  BY <1>2, NothingFine DEF FormalParameter
<1> QED BY <1>1, <1>2

\* A turn of the loop of formalparameterlist().
LEMMA MoreParametersGoes ==
    ASSUME FileOK, NEW p \in 1..End, NEW l, Going(Parameters, p, l), ~Over(Parameters, l),
           NEW u, u = MoreParameters(l)
    PROVE  Going(Parameters, p, u)
<1> DEFINE b == l.next
           e == FormalParameter(b + 1)
<1>1. Len(Whole) \in Nat /\ End = Len(Whole) + 1 /\ p \in Nat
  BY TokenIs DEF End
<1>2. ~IsError(l) /\ ~Missing(l) /\ Fine(p, l) /\ Token(b) = ","
  BY GoesAre DEF Over, Going, Parameters
<1>3. Root(l.node).kind = "Params" /\ b > p
  BY <1>2 DEF Going
<1>4. b \in Nat /\ b + 1 \in 1..End /\ b + 1 \in b..End /\ Means(Whole, b, b + 1) = {}
  <2>1. b \in p..End
    BY <1>2 DEF Fine
  <2>2. Token(b) # "eof" /\ Token(b) \in Punctuation
    BY <1>2 DEF Punctuation
  <2> HIDE DEF b
  <2> QED BY <2>1, <2>2, TokenAt
<1>6. Fine(b + 1, e)
  BY <1>4, ParameterFine
<1>7. u = With(l, Need(e))
  BY DEF MoreParameters
<1> HIDE DEF e
<1>8. Fine(b + 1, Need(e))
  BY <1>4, <1>6, NeedFine
<1>9. /\ Fine(p, u) /\ ~Missing(u)
      /\ ~IsError(u) => /\ u.next = Need(e).next /\ Need(e).next \in (b + 1)..End
                        /\ Root(u.node).kind = "Params"
  <2> DEFINE x == Need(e)
  <2>1. /\ b + 1 \in l.next..End /\ Means(Whole, l.next, b + 1) = {} /\ Fine(b + 1, x)
        /\ u = With(l, x) /\ ~IsError(l) /\ ~Missing(l) /\ Fine(p, l)
        /\ Root(l.node).kind = "Params"
    BY <1>2, <1>3, <1>4, <1>7, <1>8
  <2> HIDE DEF x, b
  <2> DEFINE m == b + 1
  <2>2. m \in l.next..End /\ Means(Whole, l.next, m) = {} /\ Fine(m, x)
    BY <2>1
  <2> HIDE DEF m
  <2>3. /\ Fine(p, u) /\ ~Missing(u)
        /\ ~IsError(u) => /\ u.next = x.next /\ x.next \in m..End
                          /\ Root(u.node).kind = "Params"
    BY <2>1, <2>2, ChildFine
  <2> QED BY <2>3 DEF x, m
<1>10. ~IsError(u) => u.next > p
  BY <1>1, <1>3, <1>4, <1>9
<1> QED BY <1>9, <1>10 DEF Going, Postfixes, Arguments, Parameters, Statements

\* A turn of the loop of block().
LEMMA MoreStatementsGoes ==
    ASSUME FileOK, NEW p \in 1..End, NEW call, CallsGood(call, p + 1),
           NEW l, Going(Statements, p, l), ~IsError(l),
           NEW u, u = MoreStatements(call, l)
    PROVE  Going(Statements, p, u)
<1> DEFINE b == l.next
           s == call.statement[b]
<1>1. Len(Whole) \in Nat /\ End = Len(Whole) + 1 /\ p \in Nat
  BY TokenIs DEF End
<1>2. Root(l.node).kind = "BlockStmt" /\ b > p /\ Fine(p, l) /\ ~Missing(l)
  BY DEF Going
<1>3. b \in (p + 1)..End /\ b \in 1..End /\ b \in b..End
  <2>1. b \in p..End
    BY <1>2 DEF Fine
  <2> QED BY <1>1, <1>2, <2>1
<1>4. Fine(b, s)
  BY <1>3 DEF CallsGood, CallGood, ReadsStmt
<1>5. u = IF Missing(s) THEN l ELSE With(l, s)
  BY DEF MoreStatements
<1> HIDE DEF s
<1>6. CASE Missing(s)
  BY <1>5, <1>6
<1>7. CASE ~Missing(s)
  <2>1. Means(Whole, b, b) = {} /\ u = With(l, s)
    BY <1>3, <1>5, <1>7, MeansLittle
  <2>2. /\ Fine(p, u) /\ ~Missing(u)
        /\ ~IsError(u) => /\ u.next = s.next /\ s.next \in b..End
                          /\ Root(u.node).kind = "BlockStmt"
    BY <1>2, <1>3, <1>4, <2>1, ChildFine
  <2>3. ~IsError(u) => u.next > p
    BY <1>1, <1>2, <1>3, <2>2
  <2> QED BY <2>2, <2>3 DEF Going, Postfixes, Arguments, Parameters, Statements
<1> QED BY <1>6, <1>7

\* A turn of any loop, those that change nothing included.
LEMMA TurnGoes ==
    ASSUME FileOK, NEW p \in 1..End, NEW call, CallsGood(call, p + 1),
           NEW loop \in 1..14, NEW l, Going(loop, p, l)
    PROVE  Going(loop, p, Turn(call, loop, l))
<1>1. CASE Over(loop, l)
  BY <1>1 DEF Turn
<1>2. CASE ~Over(loop, l) /\ loop = Postfixes
  <2>1. Turn(call, loop, l) = MorePostfix(l)
    BY <1>2 DEF Turn
  <2> QED BY <1>2, <2>1, MorePostfixGoes
<1>3. CASE ~Over(loop, l) /\ loop = Arguments
  <2>1. Turn(call, loop, l) = MoreArguments(call, l)
    BY <1>3 DEF Turn, Postfixes, Arguments
  <2> QED BY <1>3, <2>1, MoreArgumentsGoes
<1>4. CASE ~Over(loop, l) /\ loop = Parameters
  <2>1. Turn(call, loop, l) = MoreParameters(l)
    BY <1>4 DEF Turn, Postfixes, Arguments, Parameters
  <2> QED BY <1>4, <2>1, MoreParametersGoes
<1>5. CASE ~Over(loop, l) /\ loop = Statements
  <2>1. Turn(call, loop, l) = MoreStatements(call, l) /\ ~IsError(l)
    BY <1>5 DEF Turn, Postfixes, Arguments, Parameters, Statements, Over
  <2> QED BY <1>5, <2>1, MoreStatementsGoes
<1>6. CASE ~Over(loop, l) /\ loop \in 1..10
  <2>1. Turn(call, loop, l) = MoreBinary(call, loop, l)
    BY <1>6 DEF Turn, Postfixes, Arguments, Parameters, Statements
  <2> QED BY <1>6, <2>1, MoreBinaryGoes
<1> QED BY <1>1, <1>2, <1>3, <1>4, <1>5, <1>6 DEF Postfixes, Arguments, Parameters, Statements

\* As many turns as there are tokens left: what holds at each holds after the loop.
LEMMA RepeatGoes ==
    ASSUME FileOK, NEW p \in 1..End, NEW call, CallsGood(call, p + 1),
           NEW loop \in 1..14, NEW l, Going(loop, p, l)
    PROVE  Going(loop, p, Repeat(call, loop, l))
<1> DEFINE m == Recursion("turn", call, loop, l)
<1>1. PICK g : /\ Unfolds(g, m)
               /\ Repeat(call, loop, l) = IF Over(loop, l) THEN l
                                          ELSE g[Len(Whole) + 1 - l.next]
  BY RepeatUnfolds
<1>2. g[0] = l /\ \A n \in Nat : g[n + 1] = Turn(call, loop, g[n])
  BY <1>1 DEF Unfolds, StepOf, Recursion
<1> DEFINE T == {n \in Nat : ~Going(loop, p, g[n])}
<1>3. \A n \in Nat : Going(loop, p, g[n])
  <2>1. SUFFICES ASSUME T # {} PROVE FALSE
    OBVIOUS
  <2>2. PICK x \in T : \A y \in T : x <= y
    <3>1. T \in SUBSET Nat
      OBVIOUS
    <3> HIDE DEF T
    <3> QED BY <2>1, <3>1, LeastOf
  <2>3. x \in Nat /\ ~Going(loop, p, g[x]) /\ x # 0
    BY <1>2, <2>2
  <2>4. x - 1 \in Nat /\ ~(x <= x - 1) /\ (x - 1) + 1 = x
    BY <2>3
  <2>5. x - 1 \notin T
    <3> HIDE DEF T
    <3> QED BY <2>2, <2>4
  <2>6. Going(loop, p, g[x - 1])
    BY <2>4, <2>5
  <2>7. Going(loop, p, Turn(call, loop, g[x - 1]))
    BY <2>6, TurnGoes
  <2>8. g[x] = Turn(call, loop, g[x - 1])
    BY <1>2, <2>4
  <2> QED BY <2>3, <2>7, <2>8
<1>4. CASE Over(loop, l)
  BY <1>1, <1>4
<1>5. CASE ~Over(loop, l)
  <2>1. Len(Whole) + 1 - l.next \in Nat
    <3>1. Len(Whole) \in Nat /\ End = Len(Whole) + 1 /\ l.next \in p..End /\ p \in Nat
      BY TokenIs DEF End, Going, Fine
    <3> QED BY <3>1
  <2> QED BY <1>1, <1>3, <1>5, <2>1
<1> QED BY <1>4, <1>5

-----------------------------------------------------------------------------
(* Expressions.                                                            *)

\* argumentlist(), which may be empty.
LEMMA ArgumentsGo ==
    ASSUME FileOK, NEW p \in 1..End, NEW call, CallsGood(call, p + 1),
           NEW f, Going(Arguments, p, f), ~IsError(f)
    PROVE  Going(Arguments, p, ArgumentList(call, f))
<1> DEFINE b == f.next
           e == call.expression[b]
<1>1. /\ Fine(p, f) /\ ~Missing(f)
      /\ Root(f.node).kind = "FuncCallExpr" /\ Root(f.node).at = p
      /\ b > p /\ Depth(Whole, b) = Depth(Whole, p) + 1
  BY DEF Going
<1>2. p \in Nat /\ End \in Nat /\ b \in p..End
  BY <1>1, TokenIs DEF Fine
<1>3. b \in (p + 1)..End /\ b \in 1..End /\ b \in b..End /\ Means(Whole, b, b) = {}
  <2>1. b \in (p + 1)..End /\ b \in 1..End /\ b \in b..End
    <3> HIDE DEF b
    <3> QED BY <1>1, <1>2
  <2> QED BY <2>1, MeansLittle
<1>4. ReadsExpr(11, b, e)
  BY <1>3 DEF CallsGood, CallGood
<1>5. ArgumentList(call, f) = IF Missing(e) THEN f ELSE Repeat(call, Arguments, With(f, e))
  BY DEF ArgumentList
<1> HIDE DEF e
<1>6. CASE Missing(e)
  BY <1>5, <1>6
<1>7. CASE ~Missing(e)
  <2> DEFINE u == With(f, e)
  <2>1. Fine(b, e)
    BY <1>4 DEF ReadsExpr
  <2>2. u = With(f, e)
    OBVIOUS
  <2> HIDE DEF u
  <2>3. /\ Fine(p, u) /\ ~Missing(u)
        /\ ~IsError(u) => /\ ~IsError(e) /\ u.next = e.next /\ e.next \in b..End
                          /\ Root(u.node).kind = "FuncCallExpr" /\ Root(u.node).at = p
    BY <1>1, <1>3, <2>1, <2>2, ChildFine
  <2>4. ASSUME ~IsError(u)
        PROVE  u.next > p /\ Depth(Whole, u.next) = Depth(Whole, p) + 1
    <3>1. Found(e) /\ u.next = e.next
      BY <1>7, <2>3, <2>4 DEF Found
    <3>2. e.next > b /\ Depth(Whole, e.next) = Depth(Whole, b)
      BY <1>4, <3>1 DEF ReadsExpr
    <3>3. e.next \in b..End
      BY <2>3, <2>4
    <3> HIDE DEF b
    <3> QED BY <1>1, <1>2, <3>1, <3>2, <3>3
  <2>5. Going(Arguments, p, u)
    BY <2>3, <2>4 DEF Going, Postfixes, Arguments, Parameters, Statements
  <2>6. Going(Arguments, p, Repeat(call, Arguments, u))
    BY <2>5, RepeatGoes DEF Arguments
  <2> QED BY <1>5, <1>7, <2>2, <2>6
<1> QED BY <1>6, <1>7

\* identifier() and functioninvocation(): the call is closed where it began.
LEMMA NamedReads ==
    ASSUME FileOK, NEW p \in 1..End, NEW call, CallsGood(call, p + 1)
    PROVE  ReadsExpr(-1, p, Named(call, p))
<1>1. Len(Whole) \in Nat /\ End = Len(Whole) + 1 /\ p \in Nat /\ p \in p..End
  BY TokenIs DEF End
<1>2. CASE Token(p) # "id"
  <2>1. Named(call, p) = Nothing(p)
    BY <1>2 DEF Named, Identifier
  <2> QED BY <2>1, NothingFine DEF ReadsExpr
<1>3. CASE Token(p) = "id" /\ Token(p + 1) # "("
  <2>1. Named(call, p) = Take("IdExpr", p)
    BY <1>3 DEF Named, Identifier
  <2>2. p \in 1..Len(Whole) /\ Token(p) \notin {"(", ")"}
    BY <1>1, <1>3, TokenIs
  <2> QED BY <2>1, <2>2, TakeReads
<1>4. CASE Token(p) = "id" /\ Token(p + 1) = "("
  <2> DEFINE t == Leaf("FuncCallExpr", p)
             f == Got(t, p + 2)
             a == ArgumentList(call, f)
             r == Expect(")", a)
  <2>1. Named(call, p) = r
    BY <1>4 DEF Named
  <2>2. /\ p + 1 \in Nat /\ p + 1 \in 1..End /\ p + 1 \in p..End /\ (p + 1) + 1 = p + 2
        /\ Depth(Whole, p) \in Int /\ Depth(Whole, p + 1) = Depth(Whole, p)
    <3>1. Token(p) # "eof" /\ Token(p) \notin {"(", ")"}
      BY <1>4
    <3> QED BY <1>1, <3>1, TokenAt
  <2>3. /\ p + 2 \in Nat /\ p + 2 \in p..End /\ p + 2 \in 1..End
        /\ Depth(Whole, p + 2) = Depth(Whole, p) + 1
        /\ Means(Whole, p + 1, p + 2) = {}
    <3> DEFINE q == p + 1
    <3>1. Token(q) = "(" /\ Token(q) # "eof" /\ Token(q) \in Punctuation /\ q \in p..End
      BY <1>4, <2>2 DEF Punctuation
    <3> HIDE DEF q
    <3>2. /\ q + 1 \in Nat /\ q + 1 \in 1..End /\ q + 1 \in p..End
          /\ Depth(Whole, q + 1) = Depth(Whole, q) + 1
          /\ Means(Whole, q, q + 1) = {}
      BY <3>1, TokenAt
    <3>3. q = p + 1 /\ q + 1 = p + 2
      BY <1>1 DEF q
    <3> QED BY <2>2, <3>2, <3>3
  <2>4. Means(Whole, p, p + 2) \subseteq {p}
    <3>1. Means(Whole, p, p + 1) \subseteq {p}
      BY MeansLittle
    <3>2. Means(Whole, p, p + 2) \subseteq Means(Whole, p, p + 1) \cup Means(Whole, p + 1, p + 2)
      BY <1>1 DEF Means
    <3> QED BY <2>3, <3>1, <3>2
  <2>5. Sound(Whole, t, p, p + 2)
    <3>1. "FuncCallExpr" \notin Silent /\ p <= p /\ p < p + 2
      BY <1>1 DEF Silent
    <3> QED BY <1>1, <2>3, <2>4, <3>1, LeafSound
  <2>6. f.next = p + 2 /\ f.node = t /\ Root(t).kind = "FuncCallExpr" /\ Root(t).at = p
    BY <1>1, LeafKind
  <2> HIDE DEF t, f
  <2>7. ~IsError(f) /\ ~Missing(f) /\ f.next > p
    BY <1>1, <2>6 DEF IsError, Missing
  <2>8. Fine(p, f)
    BY <2>3, <2>5, <2>6, <2>7 DEF Fine
  <2>9. Going(Arguments, p, f)
    BY <2>3, <2>6, <2>7, <2>8 DEF Going, Postfixes, Arguments, Parameters, Statements
  <2>10. Going(Arguments, p, a)
    BY <2>7, <2>9, ArgumentsGo
  <2> HIDE DEF a
  <2>11. /\ Fine(p, a) /\ ~Missing(a)
         /\ ~IsError(a) => /\ Root(a.node).kind = "FuncCallExpr" /\ Root(a.node).at = p
                           /\ a.next > p /\ Depth(Whole, a.next) = Depth(Whole, p) + 1
    BY <2>10 DEF Going
  <2>12. /\ Fine(p, r) /\ ~Missing(r)
         /\ ~IsError(r) => /\ ~IsError(a) /\ r.node = a.node /\ r.next = a.next + 1
                           /\ Token(a.next) = ")" /\ a.next \in p..Len(Whole)
    <3>1. ")" \in Punctuation
      BY DEF Punctuation
    <3> QED BY <2>11, <3>1, ExpectFine
  <2> HIDE DEF r
  <2>13. ASSUME ~IsError(r)
         PROVE  /\ r.next > p /\ Depth(Whole, r.next) = Depth(Whole, p)
                /\ Tight(-1, Depth(Whole, p), Root(r.node))
    <3>1. /\ Root(r.node).kind = "FuncCallExpr" /\ Root(r.node).at = p
          /\ r.next = a.next + 1 /\ a.next > p /\ Token(a.next) = ")" /\ a.next \in p..Len(Whole)
          /\ Depth(Whole, a.next) = Depth(Whole, p) + 1
      BY <2>11, <2>12, <2>13
    <3>2. Depth(Whole, a.next + 1) = Depth(Whole, a.next) - 1
      <4>1. a.next \in p..End /\ Token(a.next) # "eof"
        BY <1>1, <3>1
      <4> QED BY <3>1, <4>1, TokenAt
    <3>3. Tight(-1, Depth(Whole, p), Root(r.node))
      BY <1>1, <3>1 DEF Tight
    <3> QED BY <1>1, <2>2, <3>1, <3>2, <3>3
  <2>14. ReadsExpr(-1, p, r)
    BY <2>12, <2>13 DEF ReadsExpr, Found
  <2> QED BY <2>1, <2>14
<1> QED BY <1>2, <1>3, <1>4

\* postfixexpression() reads an operand for every operator.
LEMMA PostfixReads ==
    ASSUME FileOK, NEW p \in 1..End, NEW call, CallsGood(call, p + 1)
    PROVE  ReadsExpr(-1, p, Postfix(call, p))
<1> DEFINE o == Or(Primary(call, p), Named(call, p))
<1>1. ReadsExpr(-1, p, o)
  BY PrimaryReads, NamedReads DEF Or
<1>2. Postfix(call, p) = IF Found(o) THEN Repeat(call, Postfixes, o) ELSE o
  BY DEF Postfix, WithPostfixes
<1> HIDE DEF o
<1>3. CASE Found(o)
  <2>1. Going(Postfixes, p, o)
    BY <1>1, <1>3 DEF Going, ReadsExpr, Found, Postfixes, Arguments, Parameters, Statements
  <2>2. Going(Postfixes, p, Repeat(call, Postfixes, o))
    BY <2>1, RepeatGoes DEF Postfixes
  <2> QED BY <1>2, <1>3, <2>2 DEF Going
<1>4. CASE ~Found(o)
  BY <1>1, <1>2, <1>4
<1> QED BY <1>3, <1>4

\* unaryexpression() reads an operand for every binary operator.
LEMMA UnaryReads ==
    ASSUME FileOK, NEW p \in 1..End, NEW call, CallsGood(call, p + 1)
    PROVE  ReadsExpr(0, p, Unary(call, p))
<1>1. CASE Token(p) \notin {"-", "!", "++", "--"}
  <2>1. ReadsExpr(0, p, Postfix(call, p))
    BY PostfixReads, ReadsWider
  <2> QED BY <1>1, <2>1 DEF Unary
<1>2. CASE Token(p) \in {"-", "!", "++", "--"}
  <2> DEFINE d == Depth(Whole, p)
             q == p + 1
             t == Take("Prefix", p)
             e == call.operand[0][q]
             u == With(t, Need(e))
  <2>1. Unary(call, p) = u
    BY <1>2 DEF Unary
  <2>2. /\ p \in 1..Len(Whole) /\ q \in 1..End /\ q \in (p + 1)..End /\ d \in Int
        /\ Depth(Whole, q) = d /\ q \in Nat /\ p \in Nat
    <3>1. p \in p..End /\ Token(p) # "eof" /\ Token(p) \notin {"(", ")"}
      BY <1>2, TokenIs
    <3> QED BY <3>1, TokenAt
  <2>3. ReadsExpr(0, q, e)
    BY <2>2 DEF CallsGood, CallGood
  <2> HIDE DEF e
  <2>4. /\ Fine(p, t) /\ ~IsError(t) /\ t.next = q
        /\ Root(t.node).kind = "Prefix" /\ Root(t.node).at = p /\ Root(t.node).size = 0
    <3>1. "Prefix" \notin Silent
      BY DEF Silent
    <3> QED BY <2>2, <3>1, TakeFine
  <2> HIDE DEF t
  <2>5. /\ Fine(q, Need(e))
        /\ ~IsError(Need(e)) => Found(e) /\ Need(e) = e
    <3>1. Fine(q, e)
      BY <2>3 DEF ReadsExpr
    <3> QED BY <2>2, <3>1, NeedFine
  <2> DEFINE x == Need(e)
  <2>6. u = With(t, x)
    OBVIOUS
  <2> HIDE DEF u, q, d
  <2>7. ~IsError(x) => /\ x.next > q /\ Depth(Whole, x.next) = d
                       /\ Tight(0, d, Root(x.node))
    BY <2>2, <2>3, <2>5 DEF ReadsExpr
  <2>8. Looseness(Whole, Root(t.node)) = 0 /\ Depth(Whole, Root(t.node).at) = d
    BY <2>4 DEF Looseness, d
  <2>9. ASSUME ~IsError(x) PROVE MayJoin(t.node, x.node)
    <3>1. Tight(0, d, Root(x.node))
      BY <2>7, <2>9
    <3>2. Binds(Whole, Root(t.node), Root(x.node), 1)
      BY <2>2, <2>4, <2>8, <3>1, TightBinds
    <3>3. Root(t.node).size + 1 = 1
      BY <2>4
    <3> QED BY <2>4, <3>2, <3>3 DEF MayJoin, Infix
  <2>10. /\ Fine(p, u)
         /\ ~IsError(u) => /\ ~IsError(x) /\ u.next = x.next
                           /\ Root(u.node).kind = "Prefix" /\ Root(u.node).at = p
    <3>1. Fine(t.next, x)
      BY <2>4, <2>5
    <3> HIDE DEF x
    <3> QED BY <2>4, <2>6, <2>9, <3>1, WithFine
  <2>11. ~Missing(u)
    BY <2>10 DEF Missing, IsError
  <2>12. ASSUME ~IsError(u)
         PROVE  u.next > p /\ Depth(Whole, u.next) = d /\ Tight(0, d, Root(u.node))
    <3>1. Looseness(Whole, Root(u.node)) = 0 /\ Depth(Whole, Root(u.node).at) = d
      BY <2>10, <2>12 DEF Looseness, d
    <3>2. Tight(0, d, Root(u.node))
      BY <2>2, <2>10, <2>12, <3>1 DEF Tight
    <3>3. u.next > q /\ q = p + 1 /\ u.next \in p..End /\ Depth(Whole, u.next) = d
      BY <2>7, <2>10, <2>12 DEF Fine, q
    <3>4. u.next > p
      BY <2>2, <3>3
    <3> QED BY <3>2, <3>3, <3>4
  <2>13. ReadsExpr(0, p, u)
    BY <2>10, <2>11, <2>12 DEF ReadsExpr, Found, d
  <2> QED BY <2>1, <2>13
<1> QED BY <1>1, <1>2

\* The first k of the ten functions read an operand for the levels after k.
LEMMA BinaryReads ==
    ASSUME FileOK, NEW p \in 1..End, NEW call, CallsGood(call, p + 1), NEW k \in 0..10
    PROVE  ReadsExpr(k, p, Binary(call, k, p))
<1> DEFINE o == Unary(call, p)
           m == Recursion("level", call, k, o)
<1>1. ReadsExpr(0, p, o)
  BY UnaryReads
<1>2. PICK g : Unfolds(g, m) /\ Binary(call, k, p) = IF Found(o) THEN g[k] ELSE o
  BY BinaryUnfolds
<1>3. g[0] = o /\ \A n \in Nat : g[n + 1] = Repeat(call, n + 1, g[n])
  BY <1>2 DEF Unfolds, StepOf, Recursion
<1> HIDE DEF o
<1>4. CASE ~Found(o)
  <2>1. ReadsExpr(k, p, o)
    BY <1>1, ReadsWider
  <2> QED BY <1>2, <1>4, <2>1
<1>5. CASE Found(o)
  <2> DEFINE T == {n \in 0..10 : ~(ReadsExpr(n, p, g[n]) /\ ~Missing(g[n]))}
  <2>1. \A n \in 0..10 : ReadsExpr(n, p, g[n]) /\ ~Missing(g[n])
    <3>1. SUFFICES ASSUME T # {} PROVE FALSE
      OBVIOUS
    <3>2. PICK x \in T : \A y \in T : x <= y
      <4>1. T \in SUBSET Nat
        OBVIOUS
      <4> HIDE DEF T
      <4> QED BY <3>1, <4>1, LeastOf
    <3>3. x \in 0..10 /\ ~(ReadsExpr(x, p, g[x]) /\ ~Missing(g[x])) /\ x # 0
      BY <1>1, <1>3, <1>5, <3>2 DEF Found
    <3>4. x - 1 \in 0..10 /\ x - 1 \in Nat /\ ~(x <= x - 1) /\ (x - 1) + 1 = x /\ x \in 1..10
          /\ x \in 1..14 /\ x \in Int /\ x - 1 \in Int /\ x - 1 <= x
      BY <3>3
    <3>5. x - 1 \notin T
      <4> HIDE DEF T
      <4> QED BY <3>2, <3>4
    <3>6. ReadsExpr(x - 1, p, g[x - 1]) /\ ~Missing(g[x - 1])
      BY <3>4, <3>5
    <3>7. ReadsExpr(x, p, g[x - 1])
      <4> DEFINE j == x - 1
      <4>1. j \in Int /\ j <= x /\ ReadsExpr(j, p, g[j])
        BY <3>4, <3>6
      <4> HIDE DEF j
      <4>2. ReadsExpr(x, p, g[j])
        BY <3>4, <4>1, ReadsWider
      <4> QED BY <4>2 DEF j
    <3>8. Going(x, p, g[x - 1])
      BY <3>4, <3>6, <3>7 DEF Going, ReadsExpr, Postfixes, Arguments, Parameters, Statements
    <3>9. Going(x, p, Repeat(call, x, g[x - 1]))
      BY <3>4, <3>8, RepeatGoes
    <3>10. g[x] = Repeat(call, x, g[x - 1])
      BY <1>3, <3>4
    <3>11. ReadsExpr(x, p, g[x]) /\ ~Missing(g[x])
      BY <3>4, <3>9, <3>10 DEF Going
    <3> QED BY <3>3, <3>11
  <2> QED BY <1>2, <1>5, <2>1
<1> QED BY <1>4, <1>5

\* assignmentexpression(): the right side is an expression, or missing.
LEMMA ExpressionReads ==
    ASSUME FileOK, NEW p \in 1..End, NEW call, CallsGood(call, p + 1)
    PROVE  ReadsExpr(11, p, Expression(call, p))
<1> DEFINE l == Binary(call, Len(Levels), p)
           d == Depth(Whole, p)
           b == l.next
           a == Under("Assign", l)
           e == call.expression[b + 1]
           u == With(a, e)
<1>1. ReadsExpr(10, p, l)
  BY LevelsAre, BinaryReads
<1>2. Expression(call, p) = IF Found(l) /\ Token(b) = "=" THEN u ELSE l
  BY DEF Expression, WithAssignment
<1> HIDE DEF l
<1>3. CASE ~(Found(l) /\ Token(b) = "=")
  <2>1. ReadsExpr(11, p, l)
    BY <1>1, ReadsWider
  <2> QED BY <1>2, <1>3, <2>1
<1>4. CASE Found(l) /\ Token(b) = "="
  <2>1. /\ Fine(p, l) /\ ~IsError(l) /\ b > p /\ Depth(Whole, b) = d
        /\ Tight(10, d, Root(l.node)) /\ b \in p..End
    BY <1>1, <1>4 DEF ReadsExpr, Found, Fine
  <2>2. /\ b \in Nat /\ b + 1 \in Nat /\ b + 1 \in 1..End /\ b + 1 \in (p + 1)..End
        /\ d \in Int /\ Depth(Whole, b + 1) = d /\ b \in 1..Len(Whole) /\ p \in Nat
    <3>1. Token(b) \notin {"eof", "(", ")"}
      BY <1>4
    <3> HIDE DEF b
    <3> QED BY <2>1, <3>1, TokenAt, TokenIs
  <2>3. ReadsExpr(11, b + 1, e)
    BY <2>1, <2>2 DEF CallsGood, CallGood
  <2>4. Expression(call, p) = u
    BY <1>2, <1>4
  <2> HIDE DEF e, d
  <2>5. \A node : node.kind = "Assign" => Looseness(Whole, node) = 11
    BY LevelsAre DEF Looseness
  <2>6. Binds(Whole, Node("Assign", b, 0), Root(l.node), 1)
    <3> DEFINE above == Node("Assign", b, 0)
    <3>1. above.kind = "Assign" /\ above.at = b
      BY DEF Node
    <3> HIDE DEF above
    <3>2. Looseness(Whole, above) = 11 /\ Depth(Whole, above.at) = d
      BY <2>1, <2>5, <3>1
    <3>3. Binds(Whole, above, Root(l.node), 1)
      BY <2>1, <2>2, <3>2, TightBinds
    <3> QED BY <3>3 DEF above
  <2>7. /\ Fine(p, a) /\ ~IsError(a) /\ a.next = b + 1
        /\ Root(a.node).kind = "Assign" /\ Root(a.node).at = b /\ Root(a.node).size = 1
    <3>1. "Assign" \in Infix /\ Token(l.next) # "eof" /\ a = Under("Assign", l)
      BY <1>4 DEF Infix
    <3>2. Binds(Whole, Node("Assign", l.next, 0), Root(l.node), 1)
      BY <2>6
    <3> HIDE DEF a
    <3> QED BY <2>1, <3>1, <3>2, UnderFine
  <2>8. u = With(a, e)
    OBVIOUS
  <2> HIDE DEF a, b, u
  <2>9. ASSUME ~IsError(e) PROVE MayJoin(a.node, e.node)
    <3>1. Looseness(Whole, Root(a.node)) = 11 /\ Depth(Whole, Root(a.node).at) = d
      BY <2>1, <2>5, <2>7
    <3>2. Binds(Whole, Root(a.node), Root(e.node), 2)
      <4>1. CASE Missing(e)
        BY <4>1 DEF Binds, Missing
      <4>2. CASE ~Missing(e)
        <5>1. Tight(11, d, Root(e.node))
          BY <2>2, <2>3, <2>9, <4>2 DEF ReadsExpr, Found
        <5>2. 11 \in Int
          OBVIOUS
        <5> QED BY <2>2, <2>7, <3>1, <5>1, <5>2, TightBinds
      <4> QED BY <4>1, <4>2
    <3>3. Root(a.node).size + 1 = 2
      BY <2>7
    <3> QED BY <2>7, <3>2, <3>3 DEF MayJoin
  <2>10. /\ Fine(p, u)
         /\ ~IsError(u) => /\ ~IsError(e) /\ u.next = e.next
                           /\ Root(u.node).kind = "Assign" /\ Root(u.node).at = b
    <3>1. Fine(a.next, e)
      BY <2>3, <2>7 DEF ReadsExpr
    <3> QED BY <2>7, <2>8, <2>9, <3>1, WithFine
  <2>11. ~Missing(u)
    BY <2>10 DEF Missing, IsError
  <2>12. ASSUME ~IsError(u)
         PROVE  u.next > p /\ Depth(Whole, u.next) = d /\ Tight(11, d, Root(u.node))
    <3>1. Looseness(Whole, Root(u.node)) = 11 /\ Depth(Whole, Root(u.node).at) = d
      BY <2>1, <2>5, <2>10, <2>12
    <3>2. Tight(11, d, Root(u.node))
      BY <2>2, <2>10, <2>12, <3>1 DEF Tight
    <3>3. u.next = e.next /\ e.next \in (b + 1)..End
      BY <2>3, <2>10, <2>12 DEF ReadsExpr, Fine
    <3>4. Depth(Whole, e.next) = d
      BY <2>2, <2>3, <2>10, <2>12 DEF ReadsExpr, Found
    <3>5. u.next > p
      BY <2>1, <2>2, <3>3
    <3> QED BY <3>2, <3>3, <3>4, <3>5
  <2>13. ReadsExpr(11, p, u)
    BY <2>10, <2>11, <2>12 DEF ReadsExpr, Found, d
  <2> QED BY <2>4, <2>13
<1> QED BY <1>3, <1>4

-----------------------------------------------------------------------------
(* Statements.                                                             *)

\* A statement that no else could belong to.
LEMMA PlainStmt ==
    ASSUME FileOK, NEW p \in 1..End, NEW r, Fine(p, r),
           Found(r) => /\ r.next > p
                       /\ Root(r.node).kind \notin {"IfStmt", "IfElseStmt", "WhileStmt"}
    PROVE  ReadsStmt(p, r)
<1>1. ASSUME Found(r) PROVE ~EndsOpen(r.node, <<>>)
  <2>1. IsTree(r.node)
    BY <1>1 DEF Fine, Sound, Found
  <2> QED BY <1>1, <2>1, RootEndsOpen
<1> QED BY <1>1 DEF ReadsStmt

\* A rule that is not for this token reads no statement.
LEMMA NoStmt ==
    ASSUME FileOK, NEW p \in 1..End
    PROVE  ReadsStmt(p, Nothing(p))
BY NothingFine DEF ReadsStmt

\* What is read up to a token that must follow: that token is there, and is read too.
LEMMA Expected ==
    ASSUME FileOK, NEW p \in 1..End, NEW l, Fine(p, l), NEW token, token \in Punctuation
    PROVE  \A r : r = Expect(token, l) =>
              /\ Fine(p, r)
              /\ ~IsError(r) => /\ ~IsError(l) /\ r.node = l.node /\ r.next = l.next + 1
                                /\ Token(l.next) = token /\ l.next \in p..Len(Whole)
BY ExpectFine

\* A token that means something begins a statement.
LEMMA HereIs ==
    ASSUME FileOK, NEW p \in 1..End, Token(p) # "eof"
    PROVE  /\ p \in Nat /\ p \in 1..Len(Whole) /\ p \in p..End
           /\ p + 1 \in 1..End /\ p + 1 \in (p + 1)..End /\ p + 1 \in p..End
           /\ Token(p) \in Punctuation => Means(Whole, p, p + 1) = {}
<1>1. p \in Nat /\ p \in p..End
  BY TokenIs
<1>2. p + 1 \in (p + 1)..End
  BY <1>1, TokenAt
<1> QED BY <1>1, <1>2, TokenAt

\* variabledeclaration(), up to its semicolon.
LEMMA VariableDeclarationReads ==
    ASSUME FileOK, NEW p \in 1..End
    PROVE  ReadsStmt(p, VariableDeclaration(p))
<1>1. CASE Token(p) \notin Types
  BY <1>1, NoStmt DEF VariableDeclaration
<1>2. CASE Token(p) \in Types
  <2> DEFINE l == Declarator("VarDecl", p)
             r == Expect(";", l)
  <2>1. VariableDeclaration(p) = r
    BY <1>2 DEF VariableDeclaration
  <2>2. p \in Nat /\ p \in 1..Len(Whole)
    BY <1>2, HereIs DEF Types
  <2>3. /\ Fine(p, l)
        /\ ~IsError(l) => l.next = p + 2 /\ Root(l.node).kind = "VarDecl"
    BY <2>2, DeclaratorFine
  <2> HIDE DEF l
  <2>4. /\ Fine(p, r)
        /\ ~IsError(r) => ~IsError(l) /\ r.node = l.node /\ r.next = l.next + 1
    <3>1. ";" \in Punctuation
      BY DEF Punctuation
    <3> QED BY <2>3, <3>1, ExpectFine
  <2> HIDE DEF r
  <2>5. Found(r) => /\ r.next > p /\ Root(r.node).kind = "VarDecl"
    BY <2>2, <2>3, <2>4 DEF Found
  <2> QED BY <2>1, <2>4, <2>5, PlainStmt
<1> QED BY <1>1, <1>2

\* A semicolon alone, or an expression and its semicolon.
LEMMA SimpleStmtReads ==
    ASSUME FileOK, NEW p \in 1..End, NEW call, CallsGood(call, p + 1)
    PROVE  ReadsStmt(p, SimpleStmt(call, p))
<1>1. CASE Token(p) = ";"
  <2>1. SimpleStmt(call, p) = Take("NullStmt", p)
    BY <1>1 DEF SimpleStmt
  <2>2. p \in Nat /\ p \in 1..Len(Whole) /\ "NullStmt" \notin Silent
    BY <1>1, HereIs DEF Silent
  <2> DEFINE r == Take("NullStmt", p)
  <2>3. Fine(p, r) /\ r.next = p + 1 /\ Root(r.node).kind = "NullStmt"
    BY <2>2, TakeFine
  <2> HIDE DEF r
  <2>4. r.next > p
    BY <2>2, <2>3
  <2>5. ReadsStmt(p, r)
    BY <2>3, <2>4, PlainStmt
  <2> QED BY <2>1, <2>5 DEF r
<1>2. CASE Token(p) # ";"
  <2> DEFINE e == Expression(call, p)
             l == Got(Leaf("ExprStmt", 0), p)
             u == With(l, e)
             r == Expect(";", u)
  <2>1. SimpleStmt(call, p) = IF Found(e) THEN r ELSE e
    BY <1>2 DEF SimpleStmt, ExprStmt, Terminated
  <2>2. ReadsExpr(11, p, e)
    BY ExpressionReads
  <2> HIDE DEF e
  <2>3. CASE ~Found(e)
    <3>1. Fine(p, e)
      BY <2>2 DEF ReadsExpr
    <3> QED BY <2>1, <2>3, <3>1, PlainStmt
  <2>4. CASE Found(e)
    <3>1. p \in Nat /\ p \in p..End /\ Means(Whole, p, p) = {} /\ "ExprStmt" \in Silent
      BY TokenIs, MeansLittle DEF Silent
    <3>2. /\ Fine(p, l) /\ ~IsError(l) /\ l.next = p /\ Root(l.node).kind = "ExprStmt"
          /\ p \in l.next..End /\ Means(Whole, l.next, p) = {}
      BY <3>1, LeafFine, LeafKind
    <3>3. Fine(p, e) /\ e.next > p
      BY <2>2, <2>4 DEF ReadsExpr
    <3>4. u = With(l, e)
      OBVIOUS
    <3> HIDE DEF l, u
    <3>5. /\ Fine(p, u)
          /\ ~IsError(u) => u.next = e.next /\ Root(u.node).kind = "ExprStmt"
      BY <3>1, <3>2, <3>3, <3>4, ChildFine
    <3>6. /\ Fine(p, r)
          /\ ~IsError(r) => /\ ~IsError(u) /\ r.node = u.node /\ r.next = u.next + 1
      <4>1. ";" \in Punctuation /\ r = Expect(";", u)
        BY DEF Punctuation
      <4> HIDE DEF r
      <4> QED BY <3>5, <4>1, ExpectFine
    <3> HIDE DEF r
    <3>7. ASSUME ~IsError(r) PROVE r.next > p /\ Root(r.node).kind = "ExprStmt"
      <4>1. /\ r.next = e.next + 1 /\ Root(r.node).kind = "ExprStmt"
        BY <3>5, <3>6, <3>7
      <4>2. e.next \in Nat
        BY <3>1, <3>3, TokenIs DEF Fine
      <4> QED BY <3>1, <3>3, <4>1, <4>2
    <3>8. ReadsStmt(p, r)
      BY <3>6, <3>7, PlainStmt DEF Found
    <3> QED BY <2>1, <2>4, <3>8
  <2> QED BY <2>3, <2>4
<1> QED BY <1>1, <1>2

\* return, with a value or none.
LEMMA ReturnStmtReads ==
    ASSUME FileOK, NEW p \in 1..End, NEW call, CallsGood(call, p + 1)
    PROVE  ReadsStmt(p, ReturnStmt(call, p))
<1>1. CASE Token(p) # "return"
  BY <1>1, NoStmt DEF ReturnStmt
<1>2. CASE Token(p) = "return"
  <2> DEFINE q == p + 1
             e == call.expression[q]
             l == Take("ReturnStmt", p)
             u == IF Missing(e) THEN l ELSE With(l, e)
             r == Expect(";", u)
  <2>1. ReturnStmt(call, p) = r
    BY <1>2 DEF ReturnStmt
  <2>2. p \in Nat /\ p \in 1..Len(Whole) /\ q \in 1..End /\ q \in (p + 1)..End /\ q \in Nat
    BY <1>2, HereIs, TokenIs
  <2>3. Fine(q, e)
    BY <2>2 DEF CallsGood, CallGood, ReadsExpr
  <2>4. /\ Fine(p, l) /\ ~IsError(l) /\ l.next = q /\ Root(l.node).kind = "ReturnStmt"
    <3>1. "ReturnStmt" \notin Silent
      BY DEF Silent
    <3> QED BY <2>2, <3>1, TakeFine
  <2>5. q = p + 1
    OBVIOUS
  <2> HIDE DEF e, l, q
  <2>6. /\ Fine(p, u)
        /\ ~IsError(u) => u.next > p /\ Root(u.node).kind = "ReturnStmt"
    <3>1. CASE Missing(e)
      BY <2>2, <2>4, <2>5, <3>1
    <3>2. CASE ~Missing(e)
      <4> DEFINE v == With(l, e)
      <4>1. /\ v = With(l, e) /\ q \in l.next..End
        BY <2>2, <2>4
      <4>2. Means(Whole, l.next, q) = {}
        BY <2>2, <2>4, MeansLittle
      <4> HIDE DEF v
      <4>3. /\ Fine(p, v)
            /\ ~IsError(v) => /\ v.next = e.next /\ e.next \in q..End
                              /\ Root(v.node).kind = "ReturnStmt"
        BY <2>3, <2>4, <4>1, <4>2, ChildFine
      <4>4. ~IsError(v) => v.next > p
        BY <2>2, <2>5, <4>3
      <4>5. u = v
        BY <3>2, <4>1
      <4> QED BY <4>3, <4>4, <4>5
    <3> QED BY <3>1, <3>2
  <2> HIDE DEF u
  <2>7. /\ Fine(p, r)
        /\ ~IsError(r) => /\ ~IsError(u) /\ r.node = u.node /\ r.next = u.next + 1
    <3>1. ";" \in Punctuation /\ r = Expect(";", u)
      BY DEF Punctuation
    <3>2. Fine(p, u)
      BY <2>6
    <3> HIDE DEF r
    <3>3. /\ Fine(p, r)
          /\ ~IsError(r) => /\ ~IsError(u) /\ r.node = u.node /\ r.next = u.next + 1
                            /\ Token(u.next) = ";" /\ u.next \in p..Len(Whole)
      BY <3>1, <3>2, Expected
    <3> QED BY <3>3
  <2> HIDE DEF r
  <2>8. ASSUME ~IsError(r) PROVE r.next > p /\ Root(r.node).kind = "ReturnStmt"
    <3>1. u.next \in Nat
      BY <2>2, <2>6, TokenIs DEF Fine
    <3> QED BY <2>2, <2>6, <2>7, <2>8, <3>1
  <2>9. ReadsStmt(p, r)
    BY <2>7, <2>8, PlainStmt DEF Found
  <2> QED BY <2>1, <2>9
<1> QED BY <1>1, <1>2

\* break, which takes no semicolon.
LEMMA BreakStmtReads ==
    ASSUME FileOK, NEW p \in 1..End
    PROVE  ReadsStmt(p, BreakStmt(p))
<1>1. CASE Token(p) # "break"
  BY <1>1, NoStmt DEF BreakStmt
<1>2. CASE Token(p) = "break"
  <2> DEFINE r == Take("BreakStmt", p)
  <2>1. BreakStmt(p) = r
    BY <1>2 DEF BreakStmt
  <2>2. p \in Nat /\ p \in 1..Len(Whole) /\ "BreakStmt" \notin Silent
    BY <1>2, HereIs DEF Silent
  <2>3. Fine(p, r) /\ r.next = p + 1 /\ Root(r.node).kind = "BreakStmt"
    BY <2>2, TakeFine
  <2> HIDE DEF r
  <2>4. r.next > p
    BY <2>2, <2>3
  <2>5. ReadsStmt(p, r)
    BY <2>3, <2>4, PlainStmt
  <2> QED BY <2>1, <2>5
<1> QED BY <1>1, <1>2

\* block(): statements up to the closing brace, after which an else belongs to none
\* of them.
LEMMA BlockReads ==
    ASSUME FileOK, NEW p \in 1..End, NEW call, CallsGood(call, p + 1)
    PROVE  ReadsStmt(p, Block(call, p))
<1>1. CASE Token(p) # "{"
  BY <1>1, NoStmt DEF Block
<1>2. CASE Token(p) = "{"
  <2> DEFINE l == Got(Leaf("BlockStmt", 0), p + 1)
             b == Repeat(call, Statements, l)
             r == Expect("}", b)
  <2>1. Block(call, p) = r
    BY <1>2 DEF Block
  <2>2. /\ p \in Nat /\ p + 1 \in p..End /\ Means(Whole, p, p + 1) = {}
        /\ "BlockStmt" \in Silent
    <3>1. Token(p) # "eof" /\ Token(p) \in Punctuation
      BY <1>2 DEF Punctuation
    <3> QED BY <3>1, HereIs DEF Silent
  <2>3. Fine(p, l) /\ ~IsError(l)
    BY <2>2, LeafFine
  <2>4. l.next = p + 1 /\ Root(l.node).kind = "BlockStmt"
    BY LeafKind
  <2> HIDE DEF l
  <2>5. Going(Statements, p, l)
    BY <2>2, <2>3, <2>4 DEF Going, Missing, Postfixes, Arguments, Parameters, Statements
  <2>6. Going(Statements, p, b)
    BY <2>5, RepeatGoes DEF Statements
  <2> HIDE DEF b
  <2>7. Fine(p, b) /\ (~IsError(b) => Root(b.node).kind = "BlockStmt" /\ b.next > p)
    BY <2>6 DEF Going
  <2>8. /\ Fine(p, r)
        /\ ~IsError(r) => /\ ~IsError(b) /\ r.node = b.node /\ r.next = b.next + 1
    <3>1. "}" \in Punctuation /\ r = Expect("}", b)
      BY DEF Punctuation
    <3>2. Fine(p, b)
      BY <2>7
    <3> HIDE DEF r
    <3>3. /\ Fine(p, r)
          /\ ~IsError(r) => /\ ~IsError(b) /\ r.node = b.node /\ r.next = b.next + 1
                            /\ Token(b.next) = "}" /\ b.next \in p..Len(Whole)
      BY <3>1, <3>2, Expected
    <3> QED BY <3>3
  <2> HIDE DEF r
  <2>9. ASSUME ~IsError(r) PROVE r.next > p /\ Root(r.node).kind = "BlockStmt"
    <3>1. b.next \in Nat
      BY <2>2, <2>7, TokenIs DEF Fine
    <3> QED BY <2>2, <2>7, <2>8, <2>9, <3>1
  <2>10. ReadsStmt(p, r)
    BY <2>8, <2>9, PlainStmt DEF Found
  <2> QED BY <2>1, <2>10
<1> QED BY <1>1, <1>2

\* The body of an if or a while is not one that an else comes after and could
\* belong to.
LEMMA ControlledReads ==
    ASSUME FileOK, NEW p \in 1..End, NEW call, CallsGood(call, p + 1), Token(p) # "eof",
           NEW kind \in {"IfStmt", "WhileStmt"}, NEW r, r = Controlled(call, kind, p)
    PROVE  /\ Fine(p, r) /\ ~Missing(r)
           /\ ~IsError(r) =>
                /\ Root(r.node).kind = kind /\ Root(r.node).at = p /\ Root(r.node).size = 2
                /\ r.next > p
                /\ EndsOpen(r.node, << 2 >>) => Token(r.next) # "else"
                /\ kind = "WhileStmt" /\ EndsOpen(r.node, <<>>) => Token(r.next) # "else"
<1> DEFINE k == Take(kind, p)
           o == Expect("(", k)
           e == call.expression[o.next]
           x == Need(e)
           w == With(o, x)
           c == Expect(")", w)
           s == call.statement[c.next]
           y == Need(s)
<1>1. r = With(c, y)
  BY DEF Controlled
<1>2. p \in Nat /\ p \in 1..Len(Whole)
  BY HereIs
<1>3. kind \notin Silent /\ "(" \in Punctuation /\ ")" \in Punctuation
  BY DEF Silent, Punctuation
<1>4. /\ Fine(p, k) /\ ~IsError(k) /\ ~Missing(k) /\ k.next = p + 1 /\ Root(k.node).kind = kind
      /\ Root(k.node).at = p /\ Root(k.node).size = 0
  BY <1>2, <1>3, TakeFine DEF Found
<1> HIDE DEF k
<1>5. /\ Fine(p, o) /\ ~Missing(o)
      /\ ~IsError(o) => /\ o.node = k.node /\ o.next = k.next + 1
                        /\ k.next \in p..Len(Whole)
  BY <1>3, <1>4, ExpectFine
<1> HIDE DEF o
<1>6. ASSUME ~IsError(o)
      PROVE  /\ o.next \in (p + 1)..End /\ o.next \in 1..End /\ o.next \in o.next..End
             /\ o.next > p /\ o.next \in Nat
             /\ Means(Whole, o.next, o.next) = {}
             /\ Root(o.node).kind = kind /\ Root(o.node).at = p /\ Root(o.node).size = 0
  <2>1. Len(Whole) \in Nat /\ End = Len(Whole) + 1
    BY TokenIs DEF End
  <2>2. o.next = p + 2 /\ p + 1 \in p..Len(Whole)
    BY <1>2, <1>4, <1>5, <1>6
  <2>3. /\ o.next \in (p + 1)..End /\ o.next \in 1..End /\ o.next \in o.next..End
        /\ o.next > p /\ o.next \in Nat
    BY <1>2, <2>1, <2>2
  <2> QED BY <1>4, <1>5, <1>6, <2>3, MeansLittle
<1>7. ~IsError(o) => Fine(o.next, x)
  <2>1. ASSUME ~IsError(o) PROVE Fine(o.next, e)
    BY <1>6, <2>1 DEF CallsGood, CallGood, ReadsExpr
  <2> HIDE DEF e
  <2> QED BY <1>6, <2>1, NeedFine
<1> HIDE DEF x
<1>8. /\ Fine(p, w) /\ ~Missing(w)
      /\ ~IsError(w) => /\ Root(w.node).kind = kind /\ Root(w.node).at = p
                        /\ Root(w.node).size = 1 /\ w.next > p
  <2>1. CASE IsError(o)
    <3>1. w = o
      BY <2>1 DEF With
    <3> HIDE DEF w
    <3> QED BY <1>5, <2>1, <3>1
  <2>2. CASE ~IsError(o)
    <3> DEFINE m == o.next
    <3>1. /\ m \in o.next..End /\ Means(Whole, o.next, m) = {} /\ Fine(m, x)
          /\ w = With(o, x)
      BY <1>6, <1>7, <2>2
    <3>2. m > p /\ m \in Nat
      BY <1>6, <2>2
    <3> HIDE DEF w, m
    <3>3. /\ Fine(p, w) /\ ~Missing(w)
          /\ ~IsError(w) => /\ Root(w.node).kind = kind /\ Root(w.node).at = p
                            /\ Root(w.node).size = 0 + 1 /\ w.next \in m..End
      BY <1>5, <1>6, <2>2, <3>1, ChildFine
    <3>4. ~IsError(w) => w.next > p
      BY <1>2, <3>2, <3>3
    <3> QED BY <3>3, <3>4
  <2> QED BY <2>1, <2>2
<1> HIDE DEF w
<1>9. /\ Fine(p, c) /\ ~Missing(c)
      /\ ~IsError(c) => /\ ~IsError(w) /\ c.node = w.node /\ c.next = w.next + 1
                        /\ w.next \in p..Len(Whole)
  BY <1>3, <1>8, ExpectFine
<1> HIDE DEF c
<1>10. ASSUME ~IsError(c)
       PROVE  /\ c.next \in (p + 1)..End /\ c.next \in 1..End /\ c.next \in c.next..End
              /\ c.next > p /\ c.next \in Nat
              /\ Means(Whole, c.next, c.next) = {}
              /\ Root(c.node).kind = kind /\ Root(c.node).at = p /\ Root(c.node).size = 1
  <2>1. Len(Whole) \in Nat /\ End = Len(Whole) + 1
    BY TokenIs DEF End
  <2>2. c.next = w.next + 1 /\ w.next \in p..Len(Whole) /\ w.next > p
    BY <1>8, <1>9, <1>10
  <2>3. /\ c.next \in (p + 1)..End /\ c.next \in 1..End /\ c.next \in c.next..End
        /\ c.next > p /\ c.next \in Nat
    BY <1>2, <2>1, <2>2
  <2> QED BY <1>8, <1>9, <1>10, <2>3, MeansLittle
<1>11. CASE IsError(c)
  <2>1. r = c
    BY <1>1, <1>11 DEF With
  <2> QED BY <1>9, <1>11, <2>1
<1>12. CASE ~IsError(c)
  <2> DEFINE m == c.next
  <2>1. ReadsStmt(m, s)
    BY <1>10, <1>12 DEF CallsGood, CallGood
  <2> HIDE DEF s
  <2>2. /\ Fine(m, y) /\ ~Missing(y) /\ (~IsError(y) => Found(s) /\ y = s)
    <3>1. Fine(m, s) /\ m \in 1..End
      BY <1>10, <1>12, <2>1 DEF ReadsStmt
    <3> HIDE DEF m
    <3> QED BY <3>1, NeedFine
  <2> HIDE DEF y
  <2>3. /\ m \in c.next..End /\ Means(Whole, c.next, m) = {} /\ m > p /\ m \in Nat
    BY <1>10, <1>12
  <2> HIDE DEF m
  <2>4. /\ Fine(p, r) /\ ~Missing(r)
        /\ ~IsError(r) => /\ ~IsError(y) /\ r.next = y.next /\ y.next \in m..End
                          /\ Root(r.node).kind = kind /\ Root(r.node).at = p
                          /\ Root(r.node).size = 1 + 1
                          /\ Joined(r.node, 1 + 1, c.node, y.node)
                          /\ IsTree(c.node) /\ IsTree(y.node)
    BY <1>1, <1>9, <1>10, <1>12, <2>2, <2>3, ChildFine
  <2>5. 1 + 1 = 2
    OBVIOUS
  <2>6. ASSUME ~IsError(r)
        PROVE  /\ r.next > p
               /\ EndsOpen(r.node, << 2 >>) => Token(r.next) # "else"
               /\ kind = "WhileStmt" /\ EndsOpen(r.node, <<>>) => Token(r.next) # "else"
    <3>1. /\ Joined(r.node, 2, c.node, y.node) /\ IsTree(c.node) /\ IsTree(y.node)
          /\ r.next = y.next /\ y = s /\ Found(s) /\ y.next \in m..End
      BY <2>2, <2>4, <2>5, <2>6
    <3>2. EndsOpen(y.node, <<>>) => Token(r.next) # "else"
      BY <2>1, <3>1 DEF ReadsStmt
    <3>3. <<>> \in DOMAIN y.node
      BY <3>1 DEF IsTree
    <3>4. EndsOpen(r.node, Child(2, <<>>)) => EndsOpen(y.node, <<>>)
      BY <3>1, <3>3, AddEndsOpen
    <3>5. Child(2, <<>>) = << 2 >>
      BY DEF Child
    <3>6. kind = "WhileStmt" /\ EndsOpen(r.node, <<>>) => EndsOpen(y.node, <<>>)
      <4>1. Root(c.node).kind = kind
        BY <1>10, <1>12
      <4> QED BY <3>1, <4>1, LastEndsOpen
    <3>7. r.next > p
      BY <1>2, <2>3, <3>1
    <3> QED BY <3>2, <3>4, <3>5, <3>6, <3>7
  <2> QED BY <2>4, <2>5, <2>6
<1> QED BY <1>11, <1>12

\* if: its else is read whenever one follows, so that none is left for an if outside.
LEMMA IfStmtReads ==
    ASSUME FileOK, NEW p \in 1..End, NEW call, CallsGood(call, p + 1)
    PROVE  ReadsStmt(p, IfStmt(call, p))
<1> DEFINE i == Controlled(call, "IfStmt", p)
<1>1. IfStmt(call, p) = IF Token(p) # "if" THEN Nothing(p)
                        ELSE IF IsError(i) THEN i ELSE Else(call, i)
  BY DEF IfStmt
<1>2. CASE Token(p) # "if"
  BY <1>1, <1>2, NoStmt
<1>3. CASE Token(p) = "if"
  <2>1. /\ Fine(p, i) /\ ~Missing(i)
        /\ ~IsError(i) =>
             /\ Root(i.node).kind = "IfStmt" /\ Root(i.node).at = p /\ Root(i.node).size = 2
             /\ i.next > p
             /\ EndsOpen(i.node, << 2 >>) => Token(i.next) # "else"
    <3>1. Token(p) # "eof"
      BY <1>3
    <3> QED BY <3>1, ControlledReads
  <2>2. p \in Nat /\ End \in Nat
    BY TokenIs
  <2> HIDE DEF i
  <2>3. CASE IsError(i)
    BY <1>1, <1>3, <2>1, <2>3 DEF ReadsStmt, Found
  <2>4. CASE ~IsError(i) /\ Token(i.next) # "else"
    <3>1. IfStmt(call, p) = i
      BY <1>1, <1>3, <2>4 DEF Else
    <3> QED BY <2>1, <2>4, <3>1 DEF ReadsStmt
  <2>5. CASE ~IsError(i) /\ Token(i.next) = "else"
    <3> DEFINE v == As("IfElseStmt", Root(i.node).at, i)
               b == i.next
               s == call.statement[b + 1]
               y == Need(s)
               r == With(v, y)
    <3>1. IfStmt(call, p) = r
      BY <1>1, <1>3, <2>5 DEF Else
    <3>2. /\ Fine(p, v) /\ ~IsError(v) /\ v.next = b
          /\ Root(v.node).kind = "IfElseStmt" /\ Root(v.node).size = 2
      <4>1. "IfElseStmt" \notin Silent /\ "IfStmt" \notin Silent
            /\ "IfElseStmt" \notin Operators /\ "IfStmt" \notin Operators
        BY DEF Silent, Operators
      <4>2. ~EndsOpen(i.node, << 2 >>)
        BY <2>1, <2>5
      <4>3. v = As("IfElseStmt", Root(i.node).at, i) /\ Root(i.node).at \in Nat
        BY <2>1, <2>2, <2>5
      <4> HIDE DEF v
      <4> QED BY <2>1, <2>5, <4>1, <4>2, <4>3, AsFine
    <3> HIDE DEF v
    <3>3. /\ b \in Nat /\ b \in 1..End /\ b + 1 \in (p + 1)..End /\ b + 1 \in 1..End
          /\ b + 1 \in b..End /\ Means(Whole, b, b + 1) = {} /\ b > p
      <4>1. b \in p..End /\ b > p
        BY <2>1, <2>5 DEF Fine
      <4>2. Token(b) # "eof" /\ Token(b) \in Punctuation
        BY <2>5 DEF Punctuation
      <4> HIDE DEF b
      <4> QED BY <4>1, <4>2, TokenAt
    <3> HIDE DEF b
    <3>4. ReadsStmt(b + 1, s)
      BY <3>3 DEF CallsGood, CallGood
    <3> HIDE DEF s
    <3>5. /\ Fine(b + 1, y) /\ (~IsError(y) => Found(s) /\ y = s)
      <4>1. Fine(b + 1, s)
        BY <3>4 DEF ReadsStmt
      <4> QED BY <3>3, <4>1, NeedFine
    <3> HIDE DEF y
    <3>6. Fine(v.next, y)
      BY <3>2, <3>3, <3>5, FineFrom
    <3>7. MayJoin(v.node, y.node)
      BY <3>2 DEF MayJoin, Infix, Operators
    <3>8. /\ Fine(p, r)
          /\ ~IsError(r) => /\ ~IsError(y) /\ r.next = y.next
                            /\ IsTree(v.node) /\ IsTree(y.node)
                            /\ Joined(r.node, 2 + 1, v.node, y.node)
      BY <3>2, <3>6, <3>7, WithFine
    <3> HIDE DEF r
    <3>9. ASSUME Found(r)
          PROVE  r.next > p /\ (EndsOpen(r.node, <<>>) => Token(r.next) # "else")
      <4>1. /\ y = s /\ Found(s) /\ r.next = y.next
            /\ IsTree(v.node) /\ IsTree(y.node) /\ Joined(r.node, 2 + 1, v.node, y.node)
        BY <3>5, <3>8, <3>9 DEF Found
      <4>2. 2 + 1 = 3
        OBVIOUS
      <4>3. EndsOpen(r.node, <<>>) => EndsOpen(y.node, <<>>)
        BY <3>2, <4>1, <4>2, LastEndsOpen
      <4>4. EndsOpen(s.node, <<>>) => Token(s.next) # "else"
        BY <3>4, <4>1 DEF ReadsStmt
      <4>5. s.next \in (b + 1)..End
        BY <3>4 DEF ReadsStmt, Fine
      <4>6. r.next > p
        BY <2>2, <3>3, <4>1, <4>5
      <4> QED BY <4>1, <4>3, <4>4, <4>6
    <3>10. ReadsStmt(p, r)
      BY <3>8, <3>9 DEF ReadsStmt
    <3> QED BY <3>1, <3>10
  <2> QED BY <2>3, <2>4, <2>5
<1> QED BY <1>2, <1>3

\* while: its body, which may end with an if.
LEMMA WhileStmtReads ==
    ASSUME FileOK, NEW p \in 1..End, NEW call, CallsGood(call, p + 1)
    PROVE  ReadsStmt(p, WhileStmt(call, p))
<1>1. CASE Token(p) # "while"
  BY <1>1, NoStmt DEF WhileStmt
<1>2. CASE Token(p) = "while"
  <2> DEFINE r == Controlled(call, "WhileStmt", p)
  <2>1. WhileStmt(call, p) = r /\ Token(p) # "eof"
    BY <1>2 DEF WhileStmt
  <2>2. /\ Fine(p, r)
        /\ ~IsError(r) => r.next > p /\ (EndsOpen(r.node, <<>>) => Token(r.next) # "else")
    BY <2>1, ControlledReads
  <2> QED BY <2>1, <2>2 DEF ReadsStmt, Found
<1> QED BY <1>1, <1>2

\* statement(): the first of its alternatives that reads something.
LEMMA StatementReads ==
    ASSUME FileOK, NEW p \in 1..End, NEW call, CallsGood(call, p + 1)
    PROVE  ReadsStmt(p, Statement(call, p))
<1>1. \A r, s : ReadsStmt(p, r) /\ ReadsStmt(p, s) => ReadsStmt(p, Or(r, s))
  BY DEF Or
<1>2. ReadsStmt(p, Or(IfStmt(call, p), WhileStmt(call, p)))
  BY <1>1, IfStmtReads, WhileStmtReads
<1>3. ReadsStmt(p, Or(Block(call, p), Or(IfStmt(call, p), WhileStmt(call, p))))
  BY <1>1, <1>2, BlockReads
<1>4. ReadsStmt(p, Or(BreakStmt(p),
                      Or(Block(call, p), Or(IfStmt(call, p), WhileStmt(call, p)))))
  BY <1>1, <1>3, BreakStmtReads
<1>5. ReadsStmt(p, Or(ReturnStmt(call, p), Or(BreakStmt(p),
                      Or(Block(call, p), Or(IfStmt(call, p), WhileStmt(call, p))))))
  BY <1>1, <1>4, ReturnStmtReads
<1>6. ReadsStmt(p, Or(SimpleStmt(call, p), Or(ReturnStmt(call, p), Or(BreakStmt(p),
                      Or(Block(call, p), Or(IfStmt(call, p), WhileStmt(call, p)))))))
  BY <1>1, <1>5, SimpleStmtReads
<1> QED BY <1>1, <1>6, VariableDeclarationReads DEF Statement

-----------------------------------------------------------------------------
(* The calls: each is further on, so that the number of tokens left bounds *)
(* how deep they are in one another.                                       *)

\* Rules whose calls are good further on are good here.
LEMMA RulesGood ==
    ASSUME FileOK, NEW p \in 1..End, NEW call, CallsGood(call, p + 1)
    PROVE  CallGood(Rules(call), p)
<1>1. p \in Nat /\ Len(Levels) = 10
  BY TokenIs, LevelsAre
<1>2. ASSUME NEW k \in 0..10 PROVE ReadsExpr(k, p, Rules(call).operand[k][p])
  <2>1. Rules(call).operand[k][p] = Binary(call, k, p)
    BY <1>1 DEF Rules
  <2> QED BY <2>1, BinaryReads
<1>3. /\ Rules(call).expression[p] = Expression(call, p)
      /\ Rules(call).statement[p] = Statement(call, p)
  BY <1>1 DEF Rules
<1> QED BY <1>2, <1>3, ExpressionReads, StatementReads DEF CallGood

\* Calls as deep as the file is long are good everywhere: each is further on than the
\* one in which it is made, so that none is too deep.
LEMMA CallsAreGood ==
    ASSUME FileOK
    PROVE  CallsGood(Calls, 1)
<1> DEFINE m == Recursion("calls", 0, 0, NoCalls)
<1>1. PICK g : Unfolds(g, m) /\ Nested = g
  BY NestedUnfolds
<1>2. \A n \in Nat : g[n + 1] = Rules(g[n])
  BY <1>1 DEF Unfolds, StepOf, Recursion
<1>3. Len(Whole) \in Nat /\ End = Len(Whole) + 1
  BY TokenIs DEF End
<1> DEFINE T == {n \in Nat : ~\A p \in 1..End : p + n > End => CallGood(g[n], p)}
<1>4. \A n \in Nat, p \in 1..End : p + n > End => CallGood(g[n], p)
  <2>1. SUFFICES ASSUME T # {} PROVE FALSE
    OBVIOUS
  <2>2. PICK x \in T : \A y \in T : x <= y
    <3>1. T \in SUBSET Nat
      OBVIOUS
    <3> HIDE DEF T
    <3> QED BY <2>1, <3>1, LeastOf
  <2>3. PICK p \in 1..End : p + x > End /\ ~CallGood(g[x], p)
    BY <2>2
  <2>4. x \in Nat /\ x # 0 /\ p \in Nat
    BY <1>3, <2>2, <2>3
  <2>5. x - 1 \in Nat /\ ~(x <= x - 1) /\ (x - 1) + 1 = x
    BY <2>4
  <2>6. x - 1 \notin T
    <3> HIDE DEF T
    <3> QED BY <2>2, <2>5
  <2>7. CallsGood(g[x - 1], p + 1)
    <3>1. ASSUME NEW q \in (p + 1)..End PROVE CallGood(g[x - 1], q)
      <4>1. q \in 1..End /\ q + (x - 1) > End
        BY <1>3, <2>3, <2>4, <3>1
      <4> QED BY <2>5, <2>6, <4>1
    <3> QED BY <3>1 DEF CallsGood
  <2>8. CallGood(Rules(g[x - 1]), p)
    BY <2>7, RulesGood
  <2>9. g[x] = Rules(g[x - 1])
    BY <1>2, <2>5
  <2> QED BY <2>3, <2>8, <2>9
<1>5. ASSUME NEW p \in 1..End PROVE CallGood(Calls, p)
  <2>1. End \in Nat /\ p + End > End /\ Calls = g[End]
    BY <1>1, <1>3 DEF Calls
  <2> QED BY <1>4, <2>1
<1> QED BY <1>5 DEF CallsGood

-----------------------------------------------------------------------------
(* Declarations.                                                           *)

\* What a declaration returns.
ReadsDecl(p, r) == Fine(p, r) /\ (~IsError(r) => r.next > p)

\* The same from any position on.
LEMMA CallsFrom ==
    ASSUME FileOK, NEW p \in 1..End
    PROVE  CallsGood(Calls, p + 1)
<1>1. p \in Nat /\ End \in Nat
  BY TokenIs
<1>2. \A m \in (p + 1)..End : m \in 1..End
  BY <1>1
<1> QED BY <1>2, CallsAreGood DEF CallsGood

\* formalparameterlist(), which may be empty.
LEMMA ParametersGo ==
    ASSUME FileOK, NEW p \in 1..End, NEW l, Going(Parameters, p, l), ~IsError(l)
    PROVE  Going(Parameters, p, FormalParameterList(l))
<1> DEFINE b == l.next
           e == FormalParameter(b)
           u == With(l, e)
<1>1. /\ Fine(p, l) /\ ~Missing(l) /\ Root(l.node).kind = "Params" /\ b > p
  BY DEF Going
<1>2. p \in Nat /\ End \in Nat /\ b \in p..End
  BY <1>1, TokenIs DEF Fine
<1>3. b \in 1..End /\ b \in b..End /\ b \in Nat
  <2> HIDE DEF b
  <2> QED BY <1>2
<1>4. Fine(b, e) /\ Means(Whole, b, b) = {}
  BY <1>3, ParameterFine, MeansLittle
<1>5. FormalParameterList(l) = IF Missing(e) THEN l ELSE Repeat(Calls, Parameters, u)
  BY DEF FormalParameterList
<1>6. u = With(l, e)
  OBVIOUS
<1> HIDE DEF e, u
<1>7. /\ Fine(p, u) /\ ~Missing(u)
      /\ ~IsError(u) => u.next = e.next /\ e.next \in b..End /\ Root(u.node).kind = "Params"
  BY <1>1, <1>3, <1>4, <1>6, ChildFine
<1> HIDE DEF b
<1>8. ~IsError(u) => u.next > p
  BY <1>1, <1>2, <1>7
<1>9. Going(Parameters, p, u)
  BY <1>7, <1>8 DEF Going, Postfixes, Arguments, Parameters, Statements
<1>10. Going(Parameters, p, Repeat(Calls, Parameters, u))
  BY <1>9, CallsFrom, RepeatGoes DEF Parameters
<1> QED BY <1>5, <1>10

\* functiondeclarator(): parameters in parentheses, or nothing.
LEMMA FunctionDeclaratorReads ==
    ASSUME FileOK, NEW p \in 1..End
    PROVE  Fine(p, FunctionDeclarator(p))
<1>1. CASE Token(p) # "("
  BY <1>1, NothingFine DEF FunctionDeclarator
<1>2. CASE Token(p) = "("
  <2> DEFINE l == Got(Leaf("Params", 0), p + 1)
             m == FormalParameterList(l)
             r == Expect(")", m)
  <2>1. FunctionDeclarator(p) = r
    BY <1>2 DEF FunctionDeclarator
  <2>2. /\ p \in Nat /\ p + 1 \in p..End /\ Means(Whole, p, p + 1) = {}
        /\ "Params" \in Silent
    <3>1. Token(p) # "eof" /\ Token(p) \in Punctuation
      BY <1>2 DEF Punctuation
    <3> QED BY <3>1, HereIs DEF Silent
  <2>3. Fine(p, l) /\ ~IsError(l)
    BY <2>2, LeafFine
  <2>4. l.next = p + 1 /\ Root(l.node).kind = "Params"
    BY LeafKind
  <2> HIDE DEF l
  <2>5. Going(Parameters, p, l)
    BY <2>2, <2>3, <2>4 DEF Going, Missing, Postfixes, Arguments, Parameters, Statements
  <2>6. Fine(p, m)
    BY <2>3, <2>5, ParametersGo DEF Going
  <2>7. r = Expect(")", m) /\ ")" \in Punctuation
    BY DEF Punctuation
  <2> HIDE DEF m, r
  <2>8. Fine(p, r)
    BY <2>6, <2>7, Expected
  <2> QED BY <2>1, <2>8
<1> QED BY <1>1, <1>2

\* A function reads on to the end of its body.
LEMMA WithBodyReads ==
    ASSUME FileOK, NEW p \in 1..End, NEW f, Fine(p, f),
           ~IsError(f) => Root(f.node).kind \in {"FuncDecl", "MFuncDecl"}
    PROVE  /\ ReadsDecl(p, WithBody(f))
           /\ ~IsError(WithBody(f)) => Root(WithBody(f).node).kind = Root(f.node).kind
<1> DEFINE b == f.next
           s == Block(Calls, b)
           y == Need(s)
           r == With(f, y)
<1>1. WithBody(f) = r
  BY DEF WithBody
<1>2. CASE IsError(f)
  <2>1. r = f
    BY <1>2 DEF With
  <2> QED BY <1>1, <1>2, <2>1 DEF ReadsDecl
<1>3. CASE ~IsError(f)
  <2>1. p \in Nat /\ End \in Nat /\ b \in p..End
    BY TokenIs DEF Fine
  <2>2. b \in 1..End /\ b \in Nat /\ b \in b..End
    <3> HIDE DEF b
    <3> QED BY <2>1
  <2>3. ReadsStmt(b, s) /\ Means(Whole, b, b) = {}
    BY <2>2, CallsFrom, BlockReads, MeansLittle
  <2> HIDE DEF s
  <2>4. Fine(b, y) /\ (~IsError(y) => Found(s) /\ y = s)
    <3>1. Fine(b, s)
      BY <2>3 DEF ReadsStmt
    <3> QED BY <2>2, <3>1, NeedFine
  <2> HIDE DEF y
  <2>5. /\ Fine(p, r)
        /\ ~IsError(r) => ~IsError(y) /\ r.next = y.next /\ Root(r.node).kind = Root(f.node).kind
    BY <1>3, <2>2, <2>3, <2>4, ChildFine
  <2> HIDE DEF r, b
  <2>6. ASSUME ~IsError(r) PROVE r.next > p
    <3>1. r.next = s.next /\ Found(s)
      BY <2>4, <2>5, <2>6
    <3>2. s.next > b /\ s.next \in b..End
      BY <2>3, <3>1 DEF ReadsStmt, Fine
    <3> QED BY <2>1, <2>2, <3>1, <3>2
  <2> QED BY <1>1, <2>5, <2>6 DEF ReadsDecl
<1> QED BY <1>2, <1>3

\* No parameters: no function, and nothing has been read.
LEMMA FunctionReads ==
    ASSUME FileOK, NEW p \in 1..End, NEW f, Fine(p, f), ~IsError(f),
           Root(f.node).kind = "FuncDecl"
    PROVE  /\ Function(f).next \in p..End
           /\ ~Missing(Function(f)) => ReadsDecl(p, Function(f))
<1> DEFINE b == f.next
           s == FunctionDeclarator(b)
           u == With(f, s)
<1>1. Function(f) = IF Missing(s) THEN s ELSE WithBody(u)
  BY DEF Function, WithParameters
<1>2. p \in Nat /\ End \in Nat /\ b \in p..End
  BY TokenIs DEF Fine
<1>3. b \in 1..End /\ b \in Nat /\ b \in b..End
  <2> HIDE DEF b
  <2> QED BY <1>2
<1>4. Fine(b, s) /\ Means(Whole, b, b) = {}
  BY <1>3, FunctionDeclaratorReads, MeansLittle
<1>5. u = With(f, s)
  OBVIOUS
<1> HIDE DEF s, u
<1>6. /\ Fine(p, u)
      /\ ~IsError(u) => Root(u.node).kind = "FuncDecl"
  BY <1>3, <1>4, <1>5, ChildFine
<1>7. ReadsDecl(p, WithBody(u))
  BY <1>6, WithBodyReads
<1>8. s.next \in p..End
  <2>1. s.next \in b..End
    BY <1>4 DEF Fine
  <2> HIDE DEF b
  <2> QED BY <1>2, <2>1
<1>9. WithBody(u).next \in p..End
  BY <1>7 DEF ReadsDecl, Fine
<1> QED BY <1>1, <1>7, <1>8, <1>9

\* mainfunctiondeclaration() reads its name, its parentheses and its body.
LEMMA MainReads ==
    ASSUME FileOK, NEW p \in 1..Len(Whole)
    PROVE  ReadsDecl(p, MainFunctionDeclaration(p))
<1> DEFINE t == Leaf("MFuncDecl", p)
           n == Leaf("Name", p)
           f == Got(Add(t, n), p + 1)
           o == Expect("(", f)
           c == Expect(")", o)
<1>1. MainFunctionDeclaration(p) = WithBody(c)
  BY DEF MainFunctionDeclaration
<1>2. /\ Len(Whole) \in Nat /\ End = Len(Whole) + 1 /\ p \in Nat /\ p \in 1..End
      /\ p + 1 \in p..End
  BY TokenIs DEF End
<1>3. /\ "MFuncDecl" \in Silent /\ "MFuncDecl" \notin Operators /\ "MFuncDecl" \notin Infix
      /\ "Name" \notin Silent /\ "(" \in Punctuation /\ ")" \in Punctuation
  BY DEF Silent, Operators, Infix, Punctuation
<1>4. Means(Whole, p, p) = {} /\ Means(Whole, p, p + 1) \subseteq {p}
  BY <1>2, MeansLittle
<1>5. Sound(Whole, t, p, p) /\ Sound(Whole, n, p, p + 1)
  BY <1>2, <1>3, <1>4, LeafSound
<1>6. /\ Root(t).kind = "MFuncDecl" /\ Root(t).size = 0 /\ IsTree(t) /\ IsTree(n)
  BY <1>2, <1>5, LeafKind DEF Sound
<1>7. f.node = Add(t, n) /\ f.next = p + 1
  BY DEF Got
<1> HIDE DEF t, n, f
<1>8. Sound(Whole, f.node, p, p + 1)
  BY <1>2, <1>3, <1>5, <1>6, <1>7, AddSound
<1>9. Root(f.node).kind = "MFuncDecl"
  <2>1. Joined(f.node, Root(t).size + 1, t, n)
    BY <1>6, <1>7, AddJoins
  <2> QED BY <1>6, <2>1 DEF Joined, Node
<1>10. ~IsError(f) /\ Fine(p, f)
  BY <1>2, <1>7, <1>8, <1>9 DEF Fine, IsError
<1>11. o = Expect("(", f) /\ c = Expect(")", o)
  OBVIOUS
<1> HIDE DEF o, c
<1>12. /\ Fine(p, o) /\ (~IsError(o) => o.node = f.node)
  BY <1>2, <1>3, <1>10, <1>11, Expected
<1>13. /\ Fine(p, c) /\ (~IsError(c) => ~IsError(o) /\ c.node = o.node)
  BY <1>2, <1>3, <1>11, <1>12, Expected
<1>14. ReadsDecl(p, WithBody(c))
  BY <1>2, <1>9, <1>12, <1>13, WithBodyReads
<1> QED BY <1>1, <1>14

\* What has been read as a function may turn out to be a variable.
LEMMA AsDeclaration ==
    ASSUME FileOK, NEW p \in 1..End, NEW l, Fine(p, l), ~IsError(l),
           Root(l.node).kind = "FuncDecl", NEW kind \in {"FuncDecl", "GVarDecl"},
           NEW v, v = As(kind, p, l)
    PROVE  Fine(p, v) /\ ~IsError(v) /\ v.next = l.next /\ Root(v.node).kind = kind
<1>1. /\ kind \in Silent /\ Root(l.node).kind \in Silent
      /\ kind \notin Operators /\ Root(l.node).kind \notin Operators
  BY DEF Silent, Operators
<1>2. kind \notin {"error", "deep"} /\ kind # "IfElseStmt" /\ p \in Nat
  BY TokenIs
<1> QED BY <1>1, <1>2, AsFine

\* The declarations that begin with a type, or with void.
LEMMA TypedReads ==
    ASSUME FileOK, NEW p \in 1..Len(Whole)
    PROVE  ReadsDecl(p, TypedDeclaration(p)) /\ ReadsDecl(p, VoidFunction(p))
<1> DEFINE d == Declarator("FuncDecl", p)
           f == As("FuncDecl", p, d)
           v == As("GVarDecl", p, d)
           g == Function(f)
           x == Expect(";", v)
<1>1. /\ TypedDeclaration(p) = IF IsError(d) THEN d ELSE Or(g, x)
      /\ VoidFunction(p) = IF IsError(d) THEN d ELSE Need(g)
  BY DEF TypedDeclaration, VoidFunction
<1>2. /\ Len(Whole) \in Nat /\ End = Len(Whole) + 1 /\ p \in Nat /\ p \in 1..End
  BY TokenIs DEF End
<1>3. /\ Fine(p, d)
      /\ ~IsError(d) => d.next = p + 2 /\ Root(d.node).kind = "FuncDecl"
  BY DeclaratorFine
<1>4. /\ f = As("FuncDecl", p, d) /\ v = As("GVarDecl", p, d) /\ x = Expect(";", v)
  OBVIOUS
<1>5. ";" \in Punctuation
  BY DEF Punctuation
<1> HIDE DEF d, f, v, x
<1>6. CASE IsError(d)
  BY <1>1, <1>3, <1>6 DEF ReadsDecl
<1>7. CASE ~IsError(d)
  <2>1. /\ Fine(p, f) /\ ~IsError(f) /\ Root(f.node).kind = "FuncDecl"
    BY <1>2, <1>3, <1>4, <1>7, AsDeclaration
  <2>2. /\ Fine(p, v) /\ ~IsError(v) /\ v.next = p + 2
    BY <1>2, <1>3, <1>4, <1>7, AsDeclaration
  <2>3. /\ Fine(p, x) /\ (~IsError(x) => x.next = (p + 2) + 1)
    <3>1. Fine(p, x) /\ (~IsError(x) => x.next = v.next + 1)
      <4>1. p \in 1..End /\ Fine(p, v) /\ ";" \in Punctuation /\ x = Expect(";", v)
        BY <1>2, <1>4, <1>5, <2>2
      <4> QED BY <4>1, Expected
    <3> QED BY <2>2, <3>1
  <2>4. ReadsDecl(p, x)
    BY <1>2, <2>3 DEF ReadsDecl
  <2>5. /\ g.next \in p..End /\ (~Missing(g) => ReadsDecl(p, g))
    BY <1>2, <2>1, FunctionReads
  <2> HIDE DEF g
  <2>6. ReadsDecl(p, Or(g, x))
    BY <2>4, <2>5 DEF Or
  <2>7. ReadsDecl(p, Need(g))
    <3>1. CASE Missing(g)
      <4>1. Need(g) = Error(g.next)
        BY <3>1 DEF Need
      <4> QED BY <1>2, <2>5, <4>1, ErrorFine DEF ReadsDecl
    <3>2. CASE ~Missing(g)
      BY <2>5, <3>2 DEF Need
    <3> QED BY <3>1, <3>2
  <2> QED BY <1>1, <1>7, <2>6, <2>7
<1> QED BY <1>6, <1>7

\* globaldeclaration(): every token that begins none is an error.
LEMMA GlobalReads ==
    ASSUME FileOK, NEW p \in 1..End
    PROVE  ReadsDecl(p, GlobalDeclaration(p))
<1>1. Token(p) = "eof" \/ p \in 1..Len(Whole)
  BY HereIs
<1>2. CASE p \in 1..Len(Whole)
  <2>1. ReadsDecl(p, Error(p))
    <3>1. p \in p..End
      BY TokenIs
    <3> QED BY <3>1, ErrorFine DEF ReadsDecl
  <2> QED BY <1>2, <2>1, MainReads, TypedReads DEF GlobalDeclaration
<1>3. CASE Token(p) = "eof"
  <2>1. GlobalDeclaration(p) = Error(p) /\ p \in p..End
    BY <1>3, TokenIs DEF GlobalDeclaration, Types
  <2> QED BY <2>1, ErrorFine DEF ReadsDecl
<1> QED BY <1>1, <1>2, <1>3

\* What the parser makes of a file.
Parsed(w, r) ==
    /\ r.next \in 1..Len(w) + 1
    /\ IF IsError(r) THEN Root(r.node).kind = "error"
       ELSE /\ Root(r.node).kind = "ASTNode" /\ r.next = Len(w) + 1
            /\ Sound(w, r.node, 1, Len(w) + 1)

\* The loop of start() takes a token at least at each turn.
StartedOn(n, l) ==
    /\ Fine(1, l)
    /\ ~IsError(l) => /\ Root(l.node).kind = "ASTNode"
                      /\ l.next = End \/ l.next > n

\* A turn of the loop of start(): it ends, or has read one token more at least.
LEMMA GlobalsGo ==
    ASSUME FileOK, NEW n \in Nat, NEW l, StartedOn(n, l)
    PROVE  StartedOn(n + 1, Globals(l))
<1> DEFINE b == l.next
           e == GlobalDeclaration(b)
           u == With(l, e)
<1>1. Globals(l) = IF b > Len(Whole) \/ IsError(l) THEN l ELSE u
  BY DEF Globals, AtEnd
<1>2. Fine(1, l) /\ b \in 1..End /\ End \in Nat /\ End >= 1
  BY TokenIs DEF StartedOn, Fine
<1>3. CASE IsError(l)
  BY <1>1, <1>2, <1>3 DEF StartedOn
<1>4. CASE ~IsError(l) /\ b > Len(Whole)
  <2>1. b = End
    <3>1. Len(Whole) \in Nat /\ End = Len(Whole) + 1
      BY TokenIs DEF End
    <3> HIDE DEF b
    <3> QED BY <1>2, <1>4, <3>1
  <2> QED BY <1>1, <1>2, <1>4, <2>1 DEF StartedOn
<1>5. CASE ~IsError(l) /\ ~(b > Len(Whole))
  <2>1. ReadsDecl(b, e) /\ Means(Whole, b, b) = {}
    BY <1>2, GlobalReads, MeansLittle
  <2>2. u = With(l, e) /\ b \in b..End /\ 1 \in 1..End
    <3> HIDE DEF b
    <3> QED BY <1>2
  <2>3. b > n
    <3>1. b # End
      <4>1. Len(Whole) \in Nat /\ End = Len(Whole) + 1
        BY TokenIs DEF End
      <4> HIDE DEF b
      <4> QED BY <1>2, <1>5, <4>1
    <3> QED BY <1>5, <3>1 DEF StartedOn
  <2> HIDE DEF e, u
  <2>4. /\ Fine(1, u)
        /\ ~IsError(u) => ~IsError(e) /\ u.next = e.next /\ Root(u.node).kind = "ASTNode"
    <3>1. Root(l.node).kind = "ASTNode" /\ Fine(b, e)
      BY <1>5, <2>1 DEF StartedOn, ReadsDecl
    <3> QED BY <1>2, <1>5, <2>1, <2>2, <3>1, ChildFine
  <2> HIDE DEF b
  <2>5. ASSUME ~IsError(u) PROVE u.next > n + 1
    <3>1. e.next > b /\ e.next \in b..End
      BY <2>1, <2>4, <2>5 DEF ReadsDecl, Fine
    <3> QED BY <1>2, <2>3, <2>4, <2>5, <3>1
  <2> QED BY <1>1, <1>5, <2>4, <2>5 DEF StartedOn, b
<1> QED BY <1>3, <1>4, <1>5

\* start() reads the whole file, and every token is in its tree, or it reports an error.
LEMMA StartParses ==
    ASSUME FileOK
    PROVE  Parsed(Whole, Start)
<1> DEFINE l == Got(Leaf("ASTNode", 0), 1)
           m == Recursion("globals", 0, 0, l)
<1>1. PICK g : Unfolds(g, m) /\ Start = g[Len(Whole)]
  BY StartUnfolds
<1>2. g[0] = l /\ \A n \in Nat : g[n + 1] = Globals(g[n])
  BY <1>1 DEF Unfolds, StepOf, Recursion
<1>3. Len(Whole) \in Nat /\ End = Len(Whole) + 1 /\ 1 \in 1..End
  BY TokenIs DEF End
<1>4. StartedOn(0, l)
  <2>1. Means(Whole, 1, 1) = {} /\ "ASTNode" \in Silent
    BY <1>3, MeansLittle DEF Silent
  <2>2. Fine(1, l)
    BY <1>3, <2>1, LeafFine
  <2>3. l.next = 1 /\ Root(l.node).kind = "ASTNode"
    BY LeafKind
  <2> QED BY <2>2, <2>3 DEF StartedOn
<1> HIDE DEF l
<1> DEFINE T == {n \in Nat : ~StartedOn(n, g[n])}
<1>5. \A n \in Nat : StartedOn(n, g[n])
  <2>1. SUFFICES ASSUME T # {} PROVE FALSE
    OBVIOUS
  <2>2. PICK x \in T : \A y \in T : x <= y
    <3>1. T \in SUBSET Nat
      OBVIOUS
    <3> HIDE DEF T
    <3> QED BY <2>1, <3>1, LeastOf
  <2>3. x \in Nat /\ ~StartedOn(x, g[x]) /\ x # 0
    BY <1>2, <1>4, <2>2
  <2>4. x - 1 \in Nat /\ ~(x <= x - 1) /\ (x - 1) + 1 = x
    BY <2>3
  <2>5. x - 1 \notin T
    <3> HIDE DEF T
    <3> QED BY <2>2, <2>4
  <2>6. StartedOn(x - 1, g[x - 1])
    BY <2>4, <2>5
  <2>7. StartedOn((x - 1) + 1, Globals(g[x - 1]))
    BY <2>4, <2>6, GlobalsGo
  <2>8. g[(x - 1) + 1] = Globals(g[x - 1])
    BY <1>2, <2>4
  <2> QED BY <2>3, <2>4, <2>7, <2>8
<1>6. StartedOn(Len(Whole), Start)
  BY <1>1, <1>3, <1>5
<1>7. Fine(1, Start) /\ Start.next \in 1..Len(Whole) + 1
  BY <1>3, <1>6 DEF StartedOn, Fine
<1>8. CASE IsError(Start)
  BY <1>7, <1>8 DEF Fine, Parsed
<1>9. CASE ~IsError(Start)
  <2>1. /\ Root(Start.node).kind = "ASTNode" /\ Sound(Whole, Start.node, 1, Start.next)
        /\ Start.next = End \/ Start.next > Len(Whole)
    BY <1>6, <1>9 DEF StartedOn, Fine
  <2>2. Start.next = Len(Whole) + 1
    <3> DEFINE b == Start.next
    <3>1. b \in 1..Len(Whole) + 1 /\ (b = End \/ b > Len(Whole))
      BY <1>7, <2>1
    <3> HIDE DEF b
    <3>2. b = Len(Whole) + 1
      BY <1>3, <3>1
    <3> QED BY <3>2 DEF b
  <2> QED BY <1>7, <1>9, <2>1, <2>2 DEF Parsed
<1> QED BY <1>8, <1>9

-----------------------------------------------------------------------------
(* Every file that grows out of a context.                                 *)

\* The file has the tokens of its context, and then those of the part that grows.
FileGrows ==
    /\ context \in Contexts /\ file \in Seq(STRING)
    /\ Len(context.before) <= Len(file)
    /\ Len(file) <= Len(context.before) + context.max
    /\ \A i \in 1..Len(context.before) : file[i] = context.before[i]
    /\ \A i \in 1..Len(file) : i > Len(context.before) => file[i] \in context.tokens

\* The inductive invariant.
Inv == FileGrows /\ (result = NotParsed \/ Parsed(Whole, result))

\* What is assumed of a context, by the positions of its tokens.
LEMMA ContextIs ==
    ASSUME NEW c \in Contexts
    PROVE  /\ c.before \in Seq(STRING) /\ c.after \in Seq(STRING)
           /\ c.tokens \subseteq STRING /\ c.max \in Nat
           /\ \A i \in 1..Len(c.before) : c.before[i] # "eof"
           /\ \A i \in 1..Len(c.after) : c.after[i] # "eof"
           /\ "eof" \notin c.tokens
<1>1. /\ c.before \in Seq(STRING) /\ c.after \in Seq(STRING)
      /\ c.tokens \subseteq STRING /\ c.max \in Nat
      /\ \A i \in DOMAIN c.before : c.before[i] # "eof"
      /\ \A i \in DOMAIN c.after : c.after[i] # "eof"
      /\ "eof" \notin c.tokens
  BY ParserAssumption DEF ParserAssumption
<1>2. DOMAIN c.before = 1..Len(c.before) /\ DOMAIN c.after = 1..Len(c.after)
  BY <1>1
<1> QED BY <1>1, <1>2

\* No token of such a file is taken for its end.
LEMMA FileIsOK ==
    ASSUME FileGrows
    PROVE  FileOK
<1> DEFINE b == context.before
           a == context.after
<1>1. /\ b \in Seq(STRING) /\ a \in Seq(STRING) /\ file \in Seq(STRING)
      /\ \A i \in 1..Len(b) : b[i] # "eof"
      /\ \A i \in 1..Len(a) : a[i] # "eof"
      /\ "eof" \notin context.tokens
  BY ContextIs DEF FileGrows
<1>2. /\ Len(b) <= Len(file)
      /\ \A i \in 1..Len(b) : file[i] = b[i]
      /\ \A i \in 1..Len(file) : i > Len(b) => file[i] \in context.tokens
  BY DEF FileGrows
<1>3. Whole = file \o a
  BY DEF Whole
<1> HIDE DEF a, b
<1>4. Whole \in Seq(STRING) /\ Len(Whole) = Len(file) + Len(a)
  BY <1>1, <1>3
<1>5. \A i \in 1..Len(file) : Whole[i] = file[i]
  BY <1>1, <1>3
<1>6. ASSUME NEW i \in 1..Len(file) PROVE file[i] # "eof"
  <2>1. CASE i \in 1..Len(b)
    BY <1>1, <1>2, <2>1
  <2>2. CASE i > Len(b)
    BY <1>1, <1>2, <2>2
  <2>3. i \in 1..Len(b) \/ i > Len(b)
    <3>1. Len(b) \in Nat /\ Len(file) \in Nat
      BY <1>1
    <3> QED BY <3>1
  <2> QED BY <2>1, <2>2, <2>3
<1>7. ASSUME NEW i \in 1..Len(Whole) PROVE Whole[i] # "eof"
  <2>1. Len(file) \in Nat /\ Len(a) \in Nat
    BY <1>1
  <2>2. CASE i <= Len(file)
    BY <1>5, <1>6, <2>1, <2>2
  <2>3. CASE ~(i <= Len(file))
    <3>1. i - Len(file) \in 1..Len(a)
      BY <1>4, <2>1, <2>3
    <3>2. Whole[i] = a[i - Len(file)]
      BY <1>1, <1>3, <1>4, <2>1, <2>3
    <3> QED BY <1>1, <3>1, <3>2
  <2> QED BY <2>2, <2>3
<1>8. Len(file) <= Len(Whole)
  <2>1. Len(file) \in Nat /\ Len(a) \in Nat
    BY <1>1
  <2> QED BY <1>4, <2>1
<1> QED BY <1>1, <1>4, <1>5, <1>7, <1>8 DEF FileOK

\* A file that has not been parsed has no tree.
LEMMA NotParsedIs ==
    /\ NotParsed.next = 0 /\ Root(NotParsed.node).kind = "null"
    /\ ~IsError(NotParsed) /\ ~Found(NotParsed)
<1>1. NotParsed = Got(Leaf("null", 0), 0)
  BY DEF NotParsed, Nothing
<1> DEFINE l == Got(Leaf("null", 0), 0)
<1>2. l.next = 0 /\ l.node = Leaf("null", 0) /\ Root(Leaf("null", 0)).kind = "null"
  BY LeafKind
<1> HIDE DEF l
<1>3. NotParsed.next = 0 /\ Root(NotParsed.node).kind = "null"
  BY <1>1, <1>2 DEF l
<1> QED BY <1>3 DEF IsError, Found, Missing

\* The part is what the file has beyond the tokens it began with.
LEMMA PartIs ==
    ASSUME NEW s \in Seq(STRING), NEW m \in Nat, m <= Len(s)
    PROVE  /\ SubSeq(s, m + 1, Len(s)) \in Seq(STRING)
           /\ Len(SubSeq(s, m + 1, Len(s))) = Len(s) - m
           /\ \A i \in 1..Len(s) - m : SubSeq(s, m + 1, Len(s))[i] = s[m + i]
<1> DEFINE n == Len(s)
<1>1. n \in Nat /\ \A i \in m + 1..n : s[i] \in STRING
  BY ElementOfSeq
<1>2. /\ SubSeq(s, m + 1, n) \in Seq(STRING)
      /\ Len(SubSeq(s, m + 1, n)) = IF m + 1 <= n THEN n - (m + 1) + 1 ELSE 0
      /\ \A i \in 1..n - (m + 1) + 1 :
             SubSeq(s, m + 1, n)[i] = s[(m + 1) + i - 1]
  <2> DEFINE k == m + 1
  <2>1. k \in Int /\ n \in Int /\ \A i \in k..n : s[i] \in STRING
    BY <1>1
  <2> HIDE DEF n, k
  <2>2. /\ SubSeq(s, k, n) \in Seq(STRING)
        /\ Len(SubSeq(s, k, n)) = IF k <= n THEN n - k + 1 ELSE 0
        /\ \A i \in 1..n - k + 1 : SubSeq(s, k, n)[i] = s[k + i - 1]
    BY <2>1, SubSeqProperties
  <2> QED BY <2>2 DEF k
<1>3. n - (m + 1) + 1 = n - m /\ (m + 1 <= n \/ n - m = 0)
  BY <1>1
<1>4. \A i \in 1..n - m : (m + 1) + i - 1 = m + i
  BY <1>1
<1> QED BY <1>2, <1>3, <1>4

\* A sequence whose elements are in a set is one over that set.
LEMMA SeqOver ==
    ASSUME NEW S, NEW T, NEW s \in Seq(S), \A i \in 1..Len(s) : s[i] \in T
    PROVE  s \in Seq(T)
<1>1. Len(s) \in Nat /\ s \in [1..Len(s) -> S]
  BY LenProperties
<1>2. s \in [1..Len(s) -> T]
  BY <1>1
<1> QED BY <1>1, <1>2

\* It holds at first: the part is empty.
LEMMA InitInv == Init => Inv
<1> SUFFICES ASSUME Init PROVE Inv
  OBVIOUS
<1>1. context \in Contexts /\ file = context.before /\ result = NotParsed
  BY DEF Init
<1>2. context.before \in Seq(STRING) /\ context.max \in Nat
  BY <1>1, ContextIs
<1>3. Len(file) = Len(context.before) /\ Len(context.before) \in Nat
  BY <1>1, <1>2
<1> QED BY <1>1, <1>2, <1>3 DEF Inv, FileGrows

\* Every step preserves it: to parse gives what StartParses says, to extend leaves no
\* result.
LEMMA NextInv == Inv /\ [Next]_vars => Inv'
<1> SUFFICES ASSUME Inv, [Next]_vars PROVE Inv'
  OBVIOUS
<1>1. FileGrows
  BY DEF Inv
<1>2. CASE Parse
  <2>1. result' = Start /\ context' = context /\ file' = file
    BY <1>2 DEF Parse
  <2>2. Whole' = Whole
    BY <2>1 DEF Whole
  <2>3. Parsed(Whole, Start)
    BY <1>1, FileIsOK, StartParses
  <2>4. Parsed(Whole, Start)' \/ Parsed(Whole', result')
    BY <2>1, <2>2, <2>3
  <2>5. FileGrows'
    BY <1>1, <2>1 DEF FileGrows
  <2>6. Parsed(Whole', result')
    BY <2>1, <2>2, <2>3
  <2> QED BY <2>5, <2>6 DEF Inv
<1>3. CASE Extend
  <2>1. context' = context /\ result' = NotParsed' /\ Len(Part) < context.max
    BY <1>3 DEF Extend, NotParsed
  <2>2. PICK x \in context.tokens : file' = Append(file, x)
    BY <1>3 DEF Extend
  <2> DEFINE c == context
             n == Len(file)
             m == Len(c.before)
  <2>3. /\ c \in Contexts /\ file \in Seq(STRING) /\ m <= n
        /\ \A i \in 1..m : file[i] = c.before[i]
        /\ \A i \in 1..n : i > m => file[i] \in c.tokens
    BY <1>1 DEF FileGrows
  <2>4. m \in Nat /\ n \in Nat /\ c.max \in Nat /\ x \in STRING
    BY <2>3, ContextIs
  <2>5. Len(Part) = n - m
    BY <2>3, <2>4, PartIs DEF Part
  <2>6. file' \in Seq(STRING) /\ Len(file') = n + 1
    BY <2>2, <2>3, <2>4
  <2>7. /\ \A i \in 1..n : file'[i] = file[i]
        /\ file'[n + 1] = x
    BY <2>2, <2>3, <2>4
  <2>8. Len(file') <= m + c.max /\ m <= Len(file')
    BY <2>1, <2>3, <2>4, <2>5, <2>6
  <2>9. \A i \in 1..m : file'[i] = c.before[i]
    BY <2>3, <2>4, <2>7
  <2>10. ASSUME NEW i \in 1..Len(file'), i > m PROVE file'[i] \in c.tokens
    <3>1. CASE i = n + 1
      BY <2>7, <3>1
    <3>2. CASE i # n + 1
      BY <2>3, <2>4, <2>6, <2>7, <2>10, <3>2
    <3> QED BY <3>1, <3>2
  <2>11. FileGrows'
    BY <2>1, <2>3, <2>6, <2>8, <2>9, <2>10 DEF FileGrows
  <2> QED BY <2>1, <2>11 DEF Inv
<1>4. CASE UNCHANGED vars
  <2>1. context' = context /\ file' = file /\ result' = result
    BY <1>4 DEF vars
  <2>2. Whole' = Whole
    BY <2>1 DEF Whole
  <2>3. FileGrows'
    BY <1>1, <2>1 DEF FileGrows
  <2>4. result' = NotParsed \/ Parsed(Whole', result')
    BY <2>1, <2>2 DEF Inv
  <2> QED BY <2>3, <2>4 DEF Inv, NotParsed
<1> QED BY <1>2, <1>3, <1>4 DEF Next

\* It holds in every state.
LEMMA Invariant == Spec => []Inv
<1> QED BY InitInv, NextInv, PTL DEF Spec

\* It has the type invariant in it.
LEMMA InvTypeOK == Inv => TypeOK
<1> SUFFICES ASSUME Inv PROVE TypeOK
  OBVIOUS
<1> DEFINE n == Len(file)
           b == context.before
           m == Len(b)
           s == SubSeq(file, 1, m)
           t == SubSeq(file, m + 1, n)
<1>1. /\ FileGrows /\ context \in Contexts /\ file \in Seq(STRING)
      /\ m <= n /\ n <= m + context.max
      /\ \A i \in 1..m : file[i] = b[i]
      /\ \A i \in 1..n : i > m => file[i] \in context.tokens
  BY DEF Inv, FileGrows
<1>2. m \in Nat /\ n \in Nat /\ context.max \in Nat /\ b \in Seq(STRING)
  BY <1>1, ContextIs
<1>3. s = b
  <2>1. s \in Seq(STRING) /\ Len(s) = m /\ \A i \in 1..m : s[i] = file[i]
    BY <1>1, <1>2
  <2> HIDE DEF s, m
  <2>2. Len(s) = Len(b) /\ \A i \in 1..Len(s) : s[i] = b[i]
    BY <1>1, <2>1 DEF m
  <2> HIDE DEF b
  <2> QED BY <1>2, <2>1, <2>2, SeqEqual
<1>4. t \in Seq(context.tokens) /\ Len(t) <= context.max
  <2>1. t \in Seq(STRING) /\ Len(t) = n - m /\ \A i \in 1..n - m : t[i] = file[m + i]
    BY <1>1, <1>2, PartIs
  <2> HIDE DEF t
  <2>2. ASSUME NEW i \in 1..Len(t) PROVE t[i] \in context.tokens
    <3>1. m + i \in 1..n /\ m + i > m
      BY <1>2, <2>1
    <3> QED BY <1>1, <2>1, <3>1
  <2>3. t \in Seq(context.tokens)
    BY <2>1, <2>2, SeqOver
  <2> QED BY <1>1, <1>2, <2>1, <2>3
<1>5. Part = t
  BY DEF Part
<1>6. FileOK /\ Len(Whole) \in Nat
  BY <1>1, FileIsOK, TokenIs
<1>7. /\ result.next \in 0..Len(Whole) + 1
      /\ Root(result.node).kind \in {"ASTNode", "error", "null"}
      /\ Accepted => result.next = Len(Whole) + 1
  <2>1. CASE result = NotParsed
    BY <1>6, <2>1, NotParsedIs DEF Accepted
  <2>2. CASE Parsed(Whole, result)
    BY <1>6, <2>2 DEF Parsed, Accepted, Found
  <2> QED BY <2>1, <2>2 DEF Inv
<1> HIDE DEF t, s
<1> QED BY <1>1, <1>3, <1>4, <1>5, <1>7 DEF TypeOK, s

\* The parser stays within the file, has read all of it when it succeeds, and its
\* calls are nested no deeper than the file is long.
THEOREM TypeCorrect == Spec => []TypeOK
<1> QED BY Invariant, InvTypeOK, PTL

\* An accepted file has a tree that is right about all of its tokens.
LEMMA InvSound ==
    ASSUME Inv, Accepted
    PROVE  /\ Len(Whole) \in Nat /\ Whole \in Seq(STRING)
           /\ Sound(Whole, result.node, 1, Len(Whole) + 1)
<1>1. Len(Whole) \in Nat /\ Whole \in Seq(STRING)
  BY FileIsOK DEF Inv, FileOK
<1>2. result # NotParsed
  BY NotParsedIs DEF Accepted
<1> QED BY <1>1, <1>2 DEF Inv, Parsed, Accepted, Found

\* The tree of an accepted file holds every token that means something, once and in
\* order, whatever the file: no rule drops what it has read when it moves nodes into
\* the left operand, the function or the if that they turn out to belong to.
THEOREM NothingLost == Spec => []NothingIsLost
<1>1. Inv => NothingIsLost
  <2> SUFFICES ASSUME Inv, Accepted PROVE Complete(Whole, result.node)
    BY DEF NothingIsLost
  <2> DEFINE w == Whole
             t == result.node
  <2>1. Len(w) \in Nat /\ w \in Seq(STRING) /\ Sound(w, t, 1, Len(w) + 1)
    BY InvSound
  <2> HIDE DEF w, t
  <2>2. DOMAIN w = 1..Len(w) /\ (Len(w) + 1) - 1 = Len(w)
    BY <2>1
  <2>3. /\ Kept(t) \subseteq 1..((Len(w) + 1) - 1)
        /\ Means(w, 1, Len(w) + 1) \subseteq Kept(t) /\ InOrder(t)
    BY <2>1 DEF Sound
  <2>4. Means(w, 1, Len(w) + 1) = {p \in DOMAIN w : w[p] \notin Punctuation}
    BY <2>2 DEF Means
  <2>5. Complete(w, t)
    BY <2>2, <2>3, <2>4 DEF Complete
  <2> QED BY <2>5 DEF w, t
<1> QED BY <1>1, Invariant, PTL

\* In the tree of an accepted file every operator has the operands that README.md's
\* precedence gives it, or parentheses around them, and an else belongs to the nearest if.
THEOREM StructureRight == Spec => []StructureIsRight
<1>1. Inv => StructureIsRight
  BY InvSound DEF StructureIsRight, Sound
<1> QED BY <1>1, Invariant, PTL
=============================================================================
