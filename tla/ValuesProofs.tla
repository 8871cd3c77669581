----------------------------- MODULE ValuesProofs -----------------------------
(***************************************************************************)
(* Proofs, for programs of any size over any variables and functions, that *)
(* TypeVisitor rejects exactly what breaks the rules of types, and that    *)
(* the code of what it accepts has the types LLVM wants, but for the named *)
(* exceptions (modules Types and Values).                                  *)
(***************************************************************************)
EXTENDS Values, SequenceTheorems, TLAPS

-----------------------------------------------------------------------------
(* The inductive invariant of the analysis.                                *)

Kinds ==
    Expressions \cup {"VarDecl", "ExprStmt", "ReturnStmt", "Condition", "FuncDecl"}
Locals    == Symbols(Nat \ {0})
Variables == Globals \cup Locals
SymbolSet == Variables \cup Functions \cup {Main, NoSymbol}
NodeSet == [what : Kinds, op : UnaryOps \cup BinaryOps \cup BitwiseOps \cup {NoOp},
            kids : Seq(Nat), symbol : SymbolSet, a_type : VType]

\* What a node of each kind consists of.
NodeOK(node) ==
    /\ node \in NodeSet
    /\ node.what = "IdExpr" =>
          node.symbol \in Variables /\ node.a_type = node.symbol.v_type
    /\ node.what = "FuncCallExpr" =>
          node.symbol \in Functions /\ node.a_type = node.symbol.v_type
    /\ node.what = "FuncDecl" =>
          node.symbol \in Functions \cup {Main} /\ node.a_type = node.symbol.v_type
    /\ node.what = "VarDecl" =>
          node.symbol \in Locals /\ node.a_type = node.symbol.v_type
    /\ node.what \notin {"IdExpr", "FuncCallExpr", "FuncDecl", "VarDecl"} =>
          node.symbol = NoSymbol
    /\ node.what = "UnaryExpr" => node.op \in UnaryOps /\ Len(node.kids) = 1
    /\ node.what = "BinaryExpr" => node.op \in BinaryOps /\ Len(node.kids) = 2
    /\ node.what = "BitwiseExpr" => node.op \in BitwiseOps /\ Len(node.kids) = 2
    /\ node.what = "AssignExpr" => Len(node.kids) = 2
    /\ node.what \in {"ExprStmt", "Condition"} => Len(node.kids) = 1
    /\ node.what = "ReturnStmt" => Len(node.kids) \in {0, 1}
    /\ node.what \in {"IdExpr", "LitExpr", "FuncDecl", "VarDecl"} => node.kids = <<>>
    /\ node.what \notin {"UnaryExpr", "BinaryExpr", "BitwiseExpr"} => node.op = NoOp

\* Parts of a node come before it, and no two nodes share one.
KidsBefore(n) ==
    \A i \in 1..Len(tree[n].kids) :
        /\ tree[n].kids[i] \in 1..(n - 1)
        /\ tree[tree[n].kids[i]].what \in Expressions
KidsOnce ==
    \A m, n \in 1..Len(tree) :
        \A i \in 1..Len(tree[m].kids) : \A j \in 1..Len(tree[n].kids) :
            tree[m].kids[i] = tree[n].kids[j] => m = n /\ i = j
TreeOK ==
    /\ tree \in Seq(NodeSet)
    /\ \A n \in 1..Len(tree) : NodeOK(tree[n]) /\ KidsBefore(n)
    /\ KidsOnce
    /\ tree # <<>> => tree[1].what = "FuncDecl"

OperandsOK ==
    /\ operands \in Seq(Nat)
    /\ \A i \in 1..Len(operands) :
          /\ operands[i] \in 1..Len(tree) /\ tree[operands[i]].what \in Expressions
          /\ \A n \in 1..Len(tree) : \A k \in 1..Len(tree[n].kids) :
                tree[n].kids[k] # operands[i]
    /\ \A i, j \in 1..Len(operands) : i < j => operands[i] < operands[j]

OpenOK ==
    /\ open \in Seq(Nat)
    /\ \A i \in 1..Len(open) : open[i] \in 1..Len(tree)
                               /\ tree[open[i]].what = "Condition"

\* m_current_function is the one of the declaration that the last node stands in.
FunctionOK ==
    /\ m_current_function \in Functions \cup {Main, NoSymbol}
    /\ m_current_function # NoSymbol =>
          \E d \in 1..Len(tree) : IsFunctionOf(d, Len(tree))
                                  /\ tree[d].symbol = m_current_function
    /\ m_current_function = NoSymbol => operands = <<>> /\ open = <<>>

Shape == /\ TreeOK /\ OperandsOK /\ OpenOK /\ FunctionOK
         /\ failed \in 0..Len(tree)

-----------------------------------------------------------------------------
(* Lists of operands.                                                      *)

\* The last k operands, and those before them.
LEMMA TakenFacts ==
    ASSUME operands \in Seq(Nat), NEW k \in Nat, k <= Len(operands)
    PROVE  /\ Taken(k) \in Seq(Nat) /\ Len(Taken(k)) = k
           /\ \A i \in 1..k : Taken(k)[i] = operands[Len(operands) - k + i]
           /\ SubSeq(operands, 1, Len(operands) - k) \in Seq(Nat)
           /\ Len(SubSeq(operands, 1, Len(operands) - k)) = Len(operands) - k
           /\ \A i \in 1..(Len(operands) - k) :
                 SubSeq(operands, 1, Len(operands) - k)[i] = operands[i]
BY SubSeqProperties DEF Taken

\* The types of one part, and of two, as a sequence.
LEMMA OneKid ==
    ASSUME NEW n \in Nat, tree[n].kids \in Seq(Nat), Len(tree[n].kids) = 1
    PROVE  KidTypes(n) = <<Kid(n, 1).a_type>>
BY DEF KidTypes

LEMMA TwoKids ==
    ASSUME NEW n \in Nat, tree[n].kids \in Seq(Nat), Len(tree[n].kids) = 2
    PROVE  KidTypes(n) = <<Kid(n, 1).a_type, Kid(n, 2).a_type>>
BY DEF KidTypes

-----------------------------------------------------------------------------
(* A visit adds a node and leaves the others as they are.                  *)

LEMMA OldNodes ==
    ASSUME TreeOK, NEW node \in NodeSet, tree' = Append(tree, node)
    PROVE  /\ Len(tree') = Len(tree) + 1 /\ tree' \in Seq(NodeSet)
           /\ tree'[Len(tree) + 1] = node
           /\ \A n \in 1..Len(tree) :
                 /\ tree'[n] = tree[n]
                 /\ KidTypes(n)' = KidTypes(n)
                 /\ \A i \in 1..Len(tree[n].kids) : Kid(n, i)' = Kid(n, i)
                 /\ Legal(n)' <=> Legal(n)
                 /\ \A d \in 1..n : IsFunctionOf(d, n)' <=> IsFunctionOf(d, n)
<1>1. /\ Len(tree') = Len(tree) + 1 /\ tree' \in Seq(NodeSet)
      /\ tree'[Len(tree) + 1] = node
      /\ \A n \in 1..Len(tree) : tree'[n] = tree[n]
  BY DEF TreeOK
<1>2. ASSUME NEW n \in 1..Len(tree)
      PROVE  /\ \A i \in 1..Len(tree[n].kids) : Kid(n, i)' = Kid(n, i)
             /\ KidTypes(n)' = KidTypes(n)
             /\ \A d \in 1..n : IsFunctionOf(d, n)' <=> IsFunctionOf(d, n)
  <2>1. tree[n].kids \in Seq(Nat) /\ KidsBefore(n) /\ tree'[n] = tree[n]
    BY <1>1 DEF TreeOK, NodeOK, NodeSet
  <2>2. \A i \in 1..Len(tree[n].kids) : Kid(n, i)' = Kid(n, i)
    BY <1>1, <2>1 DEF Kid, KidsBefore
  <2>3. DOMAIN tree[n].kids = 1..Len(tree[n].kids)
    BY <2>1
  <2>4. KidTypes(n)' = KidTypes(n)
    BY <2>1, <2>2, <2>3 DEF KidTypes
  <2>5. \A d \in 1..n : IsFunctionOf(d, n)' <=> IsFunctionOf(d, n)
    BY <1>1 DEF IsFunctionOf
  <2> QED BY <2>2, <2>4, <2>5
<1>3. ASSUME NEW n \in 1..Len(tree)
      PROVE  Legal(n)' <=> Legal(n)
  <2>1. /\ tree[n] \in NodeSet /\ NodeOK(tree[n]) /\ tree'[n] = tree[n]
        /\ \A d \in 1..n : tree'[d] = tree[d]
    BY <1>1 DEF TreeOK
  <2>2. CASE 1 \in 1..Len(tree[n].kids)
    <3>1. Kid(n, 1)' = Kid(n, 1)
      BY <1>2, <2>2
    <3> QED BY <1>2, <2>1, <3>1 DEF Legal
  <2>3. CASE 1 \notin 1..Len(tree[n].kids)
    <3>1. tree[n].kids \in Seq(Nat)
      BY <2>1 DEF NodeSet
    <3>2. Len(tree[n].kids) = 0
      BY <2>3, <3>1
    <3>3. tree[n].what \notin {"UnaryExpr", "BinaryExpr", "BitwiseExpr",
                               "AssignExpr"}
      BY <2>1, <3>2 DEF NodeOK
    <3>4. tree[n].op = NoOp
      BY <2>1, <3>3 DEF NodeOK
    <3> QED BY <1>2, <2>1, <3>3, <3>4 DEF Legal, NoOp
  <2> QED BY <2>2, <2>3
<1> QED BY <1>1, <1>2, <1>3

\* A new node takes waiting operands, so the tree stays one.
LEMMA TreeStep ==
    ASSUME TreeOK, NEW node, NodeOK(node), tree' = Append(tree, node),
           tree = <<>> => node.what = "FuncDecl",
           \A i \in 1..Len(node.kids) :
               /\ node.kids[i] \in 1..Len(tree)
               /\ tree[node.kids[i]].what \in Expressions
               /\ \A n \in 1..Len(tree) : \A k \in 1..Len(tree[n].kids) :
                     tree[n].kids[k] # node.kids[i]
               /\ \A j \in 1..Len(node.kids) : node.kids[i] = node.kids[j] => i = j
    PROVE  TreeOK'
<1> node \in NodeSet
  BY DEF NodeOK
<1>1. /\ Len(tree') = Len(tree) + 1 /\ tree' \in Seq(NodeSet)
      /\ tree'[Len(tree) + 1] = node
      /\ \A n \in 1..Len(tree) : tree'[n] = tree[n]
  BY OldNodes
<1>2. \A n \in 1..Len(tree') : n \in 1..Len(tree) \/ n = Len(tree) + 1
  BY <1>1 DEF TreeOK
<1>3. \A n \in 1..Len(tree') : NodeOK(tree'[n])
  BY <1>1, <1>2 DEF TreeOK
<1>4. ASSUME NEW n \in 1..Len(tree')
      PROVE  KidsBefore(n)'
  <2>1. CASE n \in 1..Len(tree)
    <3>1. \A i \in 1..Len(tree[n].kids) : tree[n].kids[i] \in 1..Len(tree)
      BY <2>1 DEF TreeOK, KidsBefore
    <3> QED BY <1>1, <2>1, <3>1 DEF TreeOK, KidsBefore
  <2>2. CASE n = Len(tree) + 1
    BY <1>1, <2>2 DEF KidsBefore
  <2> QED BY <1>2, <2>1, <2>2
<1>5. KidsOnce'
  <2> SUFFICES ASSUME NEW m \in 1..Len(tree'), NEW n \in 1..Len(tree'),
                      NEW i \in 1..Len(tree'[m].kids), NEW j \in 1..Len(tree'[n].kids),
                      tree'[m].kids[i] = tree'[n].kids[j]
               PROVE  m = n /\ i = j
    BY DEF KidsOnce
  <2>1. CASE m \in 1..Len(tree) /\ n \in 1..Len(tree)
    BY <1>1, <2>1 DEF TreeOK, KidsOnce
  <2>2. CASE m \in 1..Len(tree) /\ n = Len(tree) + 1
    BY <1>1, <2>2
  <2>3. CASE m = Len(tree) + 1 /\ n \in 1..Len(tree)
    BY <1>1, <2>3
  <2>4. CASE m = Len(tree) + 1 /\ n = Len(tree) + 1
    BY <1>1, <2>4
  <2> QED BY <1>2, <2>1, <2>2, <2>3, <2>4
<1>6. tree'[1].what = "FuncDecl"
  <2>1. CASE tree = <<>>
    BY <1>1, <2>1
  <2>2. CASE tree # <<>>
    BY <1>1, <2>2 DEF TreeOK
  <2> QED BY <2>1, <2>2
<1> QED BY <1>1, <1>3, <1>4, <1>5, <1>6 DEF TreeOK

\* Waiting operands may become the parts of a node.
LEMMA OperandsFree ==
    ASSUME Shape, NEW k \in Nat, k <= Len(operands)
    PROVE  \A i \in 1..k :
               /\ Taken(k)[i] \in 1..Len(tree)
               /\ tree[Taken(k)[i]].what \in Expressions
               /\ \A n \in 1..Len(tree) : \A j \in 1..Len(tree[n].kids) :
                     tree[n].kids[j] # Taken(k)[i]
               /\ \A j \in 1..k : Taken(k)[i] = Taken(k)[j] => i = j
<1> SUFFICES ASSUME NEW i \in 1..k
             PROVE  /\ Taken(k)[i] \in 1..Len(tree)
                    /\ tree[Taken(k)[i]].what \in Expressions
                    /\ \A n \in 1..Len(tree) : \A j \in 1..Len(tree[n].kids) :
                          tree[n].kids[j] # Taken(k)[i]
                    /\ \A j \in 1..k : Taken(k)[i] = Taken(k)[j] => i = j
  OBVIOUS
<1> DEFINE a(j) == Len(operands) - k + j
<1>1. /\ operands \in Seq(Nat)
      /\ \A j \in 1..k : a(j) \in 1..Len(operands) /\ Taken(k)[j] = operands[a(j)]
  BY TakenFacts DEF Shape, OperandsOK
<1>2. ASSUME NEW j \in 1..k, Taken(k)[i] = Taken(k)[j]
      PROVE  i = j
  <2>1. operands[a(i)] = operands[a(j)]
    BY <1>1, <1>2
  <2>2. operands[a(i)] \in Nat
    BY <1>1
  <2>3. /\ a(i) \in 1..Len(operands) /\ a(j) \in 1..Len(operands)
        /\ \A p, q \in 1..Len(operands) : p < q => operands[p] < operands[q]
    BY <1>1 DEF Shape, OperandsOK
  <2>4. ~(a(i) < a(j)) /\ ~(a(j) < a(i))
    BY <2>1, <2>2, <2>3
  <2> QED BY <2>4
<1> QED BY <1>1, <1>2 DEF Shape, OperandsOK

\* The declaration that a node stands in is that of the node before, if it is no
\* declaration.
LEMMA SameFunction ==
    ASSUME TreeOK, NEW n \in Nat, n + 1 \in 1..Len(tree), n >= 1,
           tree[n + 1].what # "FuncDecl", NEW d \in 1..Len(tree)
    PROVE  IsFunctionOf(d, n + 1) <=> IsFunctionOf(d, n)
<1>1. \A e \in (d + 1)..(n + 1) : e = n + 1 \/ e \in (d + 1)..n
  OBVIOUS
<1>2. (d + 1)..n \subseteq (d + 1)..(n + 1)
  OBVIOUS
<1>3. tree[d].what = "FuncDecl" => d # n + 1
  OBVIOUS
<1> QED BY <1>1, <1>2, <1>3 DEF IsFunctionOf

\* A node stands in one declaration at most.
LEMMA OneFunction ==
    ASSUME NEW n \in Nat, NEW d \in Nat, NEW e \in Nat,
           IsFunctionOf(d, n), IsFunctionOf(e, n)
    PROVE  d = e
<1>1. CASE d < e
  BY <1>1 DEF IsFunctionOf
<1>2. CASE e < d
  BY <1>2 DEF IsFunctionOf
<1> QED BY <1>1, <1>2

LEMMA FunctionStep ==
    ASSUME TreeOK, NEW node \in NodeSet, tree' = Append(tree, node),
           node.what # "FuncDecl", NEW d \in 1..(Len(tree) + 1)
    PROVE  IsFunctionOf(d, Len(tree))' <=>
               d # Len(tree) + 1 /\ IsFunctionOf(d, Len(tree))
<1>1. /\ tree'[Len(tree) + 1] = node
      /\ \A n \in 1..Len(tree) : tree'[n] = tree[n]
      /\ Len(tree)' = Len(tree) + 1 /\ Len(tree) \in Nat
  BY OldNodes DEF TreeOK
<1>2. \A e \in (d + 1)..(Len(tree) + 1) : e = Len(tree) + 1 \/ e \in (d + 1)..Len(tree)
  BY <1>1
<1>3. \A e \in (d + 1)..Len(tree) : e \in (d + 1)..(Len(tree) + 1) /\ e \in 1..Len(tree)
  BY <1>1
<1> QED BY <1>1, <1>2, <1>3 DEF IsFunctionOf

\* A node is added, and it is an expression that takes k operands.
Visited(node) == tree' = Append(tree, node) /\ failed' \in {0, Len(tree) + 1}
Pushed(k) ==
    /\ InBody
    /\ operands' = Append(SubSeq(operands, 1, Len(operands) - k), Len(tree) + 1)
    /\ UNCHANGED <<open, m_current_function>>

\* What all visits of a node other than a declaration keep.
LEMMA VisitStep ==
    ASSUME Shape, InBody, NEW k \in Nat, k <= Len(operands), NEW node, NodeOK(node),
           node.kids = Taken(k), node.what # "FuncDecl",
           Visited(node), UNCHANGED m_current_function
    PROVE  /\ TreeOK' /\ failed' \in 0..Len(tree')
           /\ Len(tree') = Len(tree) + 1 /\ tree'[Len(tree) + 1] = node
           /\ \A n \in 1..Len(tree) : tree'[n] = tree[n]
           /\ \A i \in 1..Len(open) : open[i] \in 1..Len(tree')
                                      /\ tree'[open[i]].what = "Condition"
           /\ m_current_function' \in Functions \cup {Main, NoSymbol}
           /\ m_current_function' # NoSymbol
           /\ \E d \in 1..Len(tree') : IsFunctionOf(d, Len(tree))'
                                       /\ tree'[d].symbol = m_current_function'
<1> node \in NodeSet
  BY DEF NodeOK
<1>1. tree' = Append(tree, node)
  BY DEF Visited
<1>2. /\ Len(tree') = Len(tree) + 1 /\ tree'[Len(tree) + 1] = node
      /\ \A n \in 1..Len(tree) : tree'[n] = tree[n]
  BY <1>1, OldNodes DEF Shape
<1>3. PICK d \in 1..Len(tree) : IsFunctionOf(d, Len(tree))
                                /\ tree[d].symbol = m_current_function
  BY DEF Shape, FunctionOK, InBody
<1>4. Len(tree) \in Nat /\ tree # <<>>
  BY <1>3 DEF Shape, TreeOK
<1>5. IsFunctionOf(d, Len(tree))'
  BY <1>1, <1>3, <1>2, <1>4, FunctionStep DEF Shape
<1>6. TreeOK'
  <2>1. operands \in Seq(Nat)
    BY DEF Shape, OperandsOK
  <2>2. Len(node.kids) = k
    BY <2>1, TakenFacts
  <2>3. \A i \in 1..Len(node.kids) :
            /\ node.kids[i] \in 1..Len(tree)
            /\ tree[node.kids[i]].what \in Expressions
            /\ \A n \in 1..Len(tree) : \A j \in 1..Len(tree[n].kids) :
                  tree[n].kids[j] # node.kids[i]
            /\ \A j \in 1..Len(node.kids) : node.kids[i] = node.kids[j] => i = j
    BY <2>2, OperandsFree
  <2>4. TreeOK
    BY DEF Shape
  <2> QED BY <1>1, <1>4, <2>3, <2>4, TreeStep
<1>7. failed' \in 0..Len(tree')
  BY <1>2, <1>4 DEF Visited
<1>8. \A i \in 1..Len(open) : open[i] \in 1..Len(tree')
                              /\ tree'[open[i]].what = "Condition"
  <2>1. \A i \in 1..Len(open) : open[i] \in 1..Len(tree) /\ tree[open[i]].what = "Condition"
    BY DEF Shape, OpenOK
  <2> QED BY <1>2, <1>4, <2>1
<1>9. m_current_function' = m_current_function /\ m_current_function # NoSymbol
  BY DEF InBody
<1>10. d \in 1..Len(tree') /\ tree'[d].symbol = m_current_function'
  BY <1>2, <1>3, <1>4, <1>9
<1>11. m_current_function' \in Functions \cup {Main, NoSymbol}
  BY <1>9 DEF Shape, FunctionOK
<1> QED BY <1>2, <1>5, <1>6, <1>7, <1>8, <1>9, <1>10, <1>11

LEMMA ExpressionStep ==
    ASSUME Shape, NEW k \in Nat, k <= Len(operands), NEW node, NodeOK(node),
           node.kids = Taken(k), node.what \in Expressions, Visited(node), Pushed(k)
    PROVE  Shape'
<1>1. /\ InBody /\ open' = open /\ UNCHANGED m_current_function
      /\ operands' = Append(SubSeq(operands, 1, Len(operands) - k), Len(tree) + 1)
  BY DEF Pushed
<1>2. node.what # "FuncDecl"
  BY DEF Expressions
<1>3. /\ TreeOK' /\ failed' \in 0..Len(tree')
      /\ Len(tree') = Len(tree) + 1 /\ tree'[Len(tree) + 1] = node
      /\ \A n \in 1..Len(tree) : tree'[n] = tree[n]
      /\ \A i \in 1..Len(open) : open[i] \in 1..Len(tree')
                                 /\ tree'[open[i]].what = "Condition"
      /\ FunctionOK'
  BY <1>1, <1>2, VisitStep DEF FunctionOK
<1>4. OpenOK'
  BY <1>1, <1>3 DEF Shape, OpenOK
<1>5. Len(tree) \in Nat /\ operands \in Seq(Nat)
  BY DEF Shape, TreeOK, OperandsOK
<1>0. /\ \A i \in 1..Len(operands) :
             operands[i] \in 1..Len(tree) /\ tree[operands[i]].what \in Expressions
      /\ \A i \in 1..Len(operands) : \A n \in 1..Len(tree) :
             \A j \in 1..Len(tree[n].kids) : tree[n].kids[j] # operands[i]
      /\ \A i, j \in 1..Len(operands) : i < j => operands[i] < operands[j]
  BY DEF Shape, OperandsOK
<1> DEFINE rest == SubSeq(operands, 1, Len(operands) - k)
<1>6. /\ rest \in Seq(Nat) /\ Len(rest) = Len(operands) - k
      /\ \A i \in 1..Len(rest) : rest[i] = operands[i]
      /\ Len(node.kids) = k
      /\ \A i \in 1..k : node.kids[i] = operands[Len(operands) - k + i]
  BY <1>5, TakenFacts
<1> HIDE DEF rest
<1>7. /\ operands' \in Seq(Nat) /\ Len(operands') = Len(rest) + 1
      /\ operands'[Len(rest) + 1] = Len(tree) + 1
      /\ \A i \in 1..Len(rest) : operands'[i] = operands[i] /\ i \in 1..Len(operands)
  BY <1>1, <1>5, <1>6 DEF rest
<1>8. \A i \in 1..Len(operands') : i \in 1..Len(rest) \/ i = Len(rest) + 1
  BY <1>6, <1>7
<1>9. ASSUME NEW i \in 1..Len(operands')
      PROVE  operands'[i] \in 1..Len(tree') /\ tree'[operands'[i]].what \in Expressions
  <2>1. CASE i \in 1..Len(rest)
    <3>1. operands'[i] = operands[i] /\ i \in 1..Len(operands)
      BY <1>7, <2>1
    <3>2. operands[i] \in 1..Len(tree) /\ tree[operands[i]].what \in Expressions
      BY <1>0, <3>1
    <3>3. tree'[operands[i]] = tree[operands[i]] /\ operands[i] \in 1..Len(tree')
      BY <1>3, <1>5, <3>2
    <3> QED BY <3>1, <3>2, <3>3
  <2>2. CASE i = Len(rest) + 1
    BY <1>3, <1>5, <1>7, <2>2
  <2> QED BY <1>8, <2>1, <2>2
<1>10. ASSUME NEW i \in 1..Len(operands'), NEW n \in 1..Len(tree'),
              NEW j \in 1..Len(tree'[n].kids)
       PROVE  tree'[n].kids[j] # operands'[i]
  <2>1. tree'[n].kids[j] \in 1..(n - 1)
    BY <1>3 DEF TreeOK, KidsBefore
  <2>2. CASE i = Len(rest) + 1
    BY <1>3, <1>5, <1>7, <2>1, <2>2
  <2>3. CASE i \in 1..Len(rest) /\ n \in 1..Len(tree)
    <3>1. tree'[n] = tree[n] /\ operands'[i] = operands[i] /\ i \in 1..Len(operands)
      BY <1>3, <1>7, <2>3
    <3>2. j \in 1..Len(tree[n].kids)
      BY <3>1
    <3> QED BY <1>0, <2>3, <3>1, <3>2
  <2>4. CASE i \in 1..Len(rest) /\ n = Len(tree) + 1
    <3>1. /\ j \in 1..k /\ tree'[n].kids[j] = operands[Len(operands) - k + j]
          /\ operands'[i] = operands[i]
      BY <1>3, <1>6, <1>7, <2>4
    <3>2. /\ i \in 1..Len(operands) /\ Len(operands) - k + j \in 1..Len(operands)
          /\ i < Len(operands) - k + j
      <4>1. Len(operands) \in Nat
        BY <1>5
      <4>2. j \in Nat /\ j >= 1 /\ j <= k
        BY <3>1
      <4>3. i \in Nat /\ i >= 1 /\ i <= Len(operands) - k
        BY <1>6, <2>4, <4>1
      <4> QED BY <4>1, <4>2, <4>3
    <3>3. operands[i] < operands[Len(operands) - k + j]
      BY <1>0, <3>2
    <3>4. operands[i] \in Nat
      <4>1. operands[i] \in 1..Len(tree)
        BY <1>0, <3>2
      <4> QED BY <1>5, <4>1
    <3> QED BY <3>1, <3>3, <3>4
  <2> QED BY <1>3, <1>5, <1>8, <2>2, <2>3, <2>4
<1>11. ASSUME NEW i \in 1..Len(operands'), NEW j \in 1..Len(operands'), i < j
       PROVE  operands'[i] < operands'[j]
  <2>1. i \in 1..Len(rest)
    BY <1>6, <1>7, <1>11
  <2>2. CASE j \in 1..Len(rest)
    BY <1>0, <1>7, <1>11, <2>1, <2>2
  <2>3. CASE j = Len(rest) + 1
    <3>1. operands'[i] = operands[i] /\ operands[i] \in 1..Len(tree)
      BY <1>0, <1>7, <2>1
    <3> QED BY <1>5, <1>7, <2>3, <3>1
  <2> QED BY <1>8, <2>2, <2>3
<1>12. OperandsOK'
  BY <1>7, <1>9, <1>10, <1>11 DEF OperandsOK
<1> QED BY <1>3, <1>4, <1>12 DEF Shape

LEMMA StatementStep ==
    ASSUME Shape, NEW node, NodeOK(node), node.kids = operands,
           node.what \notin Expressions \cup {"FuncDecl"},
           InBody, Visited(node), operands' = <<>>,
           UNCHANGED m_current_function,
           \/ UNCHANGED open
           \/ open' = Append(open, Len(tree) + 1) /\ node.what = "Condition"
    PROVE  Shape'
<1>1. operands = Taken(Len(operands)) /\ Len(operands) \in Nat
  BY SubSeqFull DEF Taken, Shape, OperandsOK
<1>2. /\ TreeOK' /\ failed' \in 0..Len(tree')
      /\ Len(tree') = Len(tree) + 1 /\ tree'[Len(tree) + 1] = node
      /\ \A i \in 1..Len(open) : open[i] \in 1..Len(tree')
                                 /\ tree'[open[i]].what = "Condition"
      /\ FunctionOK'
  BY <1>1, VisitStep DEF FunctionOK
<1>3. OperandsOK'
  BY DEF OperandsOK
<1>4. OpenOK'
  <2>1. open \in Seq(Nat) /\ Len(tree) \in Nat
    BY DEF Shape, OpenOK, TreeOK
  <2>2. CASE UNCHANGED open
    BY <1>2, <2>1, <2>2 DEF OpenOK
  <2>3. CASE open' = Append(open, Len(tree) + 1) /\ node.what = "Condition"
    <3>1. /\ open' \in Seq(Nat) /\ Len(open') = Len(open) + 1
          /\ open'[Len(open) + 1] = Len(tree) + 1
          /\ \A i \in 1..Len(open) : open'[i] = open[i]
      BY <2>1, <2>3
    <3>2. ASSUME NEW i \in 1..Len(open')
          PROVE  open'[i] \in 1..Len(tree') /\ tree'[open'[i]].what = "Condition"
      <4>1. CASE i \in 1..Len(open)
        BY <1>2, <3>1, <4>1
      <4>2. CASE i = Len(open) + 1
        BY <1>2, <2>1, <2>3, <3>1, <4>2
      <4> QED BY <2>1, <3>1, <4>1, <4>2
    <3> QED BY <3>1, <3>2 DEF OpenOK
  <2> QED BY <2>2, <2>3
<1> QED BY <1>2, <1>3, <1>4 DEF Shape

\* The nodes that the visits make are ones.
LEMMA NewNode ==
    ASSUME NEW what, NEW op, NEW kids, NEW symbol, NEW a_type
    PROVE  /\ Node(what, op, kids, symbol, a_type).what = what
           /\ Node(what, op, kids, symbol, a_type).op = op
           /\ Node(what, op, kids, symbol, a_type).kids = kids
           /\ Node(what, op, kids, symbol, a_type).symbol = symbol
           /\ Node(what, op, kids, symbol, a_type).a_type = a_type
           /\ what \in Kinds /\ kids \in Seq(Nat)
              /\ op \in UnaryOps \cup BinaryOps \cup BitwiseOps \cup {NoOp}
              /\ symbol \in SymbolSet /\ a_type \in VType
              => Node(what, op, kids, symbol, a_type) \in NodeSet
BY DEF Node, NodeSet

\* The operands of a visit have the nodes of the tree.
LEMMA OperandNode ==
    ASSUME Shape, NEW k \in Nat, k <= Len(operands), NEW i \in 1..k
    PROVE  /\ Operand(k, i) = tree[Taken(k)[i]] /\ NodeOK(Operand(k, i))
           /\ Operand(k, i).a_type \in VType
           /\ Operand(k, i).what \in Expressions
<1>1. Taken(k)[i] \in 1..Len(tree) /\ tree[Taken(k)[i]].what \in Expressions
  BY OperandsFree
<1>2. NodeOK(tree[Taken(k)[i]])
  BY <1>1 DEF Shape, TreeOK
<1> QED BY <1>1, <1>2 DEF Operand, NodeOK, NodeSet

\* The new node and its parts, as Legal sees them.
LEMMA NewKids ==
    ASSUME Shape, NEW k \in Nat, k <= Len(operands), NEW node, NodeOK(node),
           node.kids = Taken(k), tree' = Append(tree, node)
    PROVE  /\ tree'[Len(tree')] = node /\ Len(node.kids) = k
           /\ \A i \in 1..k : /\ Kid(Len(tree), i)' = Operand(k, i)
           /\ DOMAIN KidTypes(Len(tree))' = 1..k
           /\ \A i \in 1..k : KidTypes(Len(tree))'[i] = Operand(k, i).a_type
           /\ k = 1 => KidTypes(Len(tree))' = <<Operand(1, 1).a_type>>
           /\ k = 2 => KidTypes(Len(tree))' =
                          <<Operand(2, 1).a_type, Operand(2, 2).a_type>>
<1>1. /\ tree'[Len(tree')] = node
      /\ \A n \in 1..Len(tree) : tree'[n] = tree[n]
  BY OldNodes DEF Shape, NodeOK
<1>2. Len(node.kids) = k /\ node.kids \in Seq(Nat)
  BY TakenFacts DEF Shape, OperandsOK
<1>3. \A i \in 1..k : Kid(Len(tree), i)' = Operand(k, i)
  <2> TAKE i \in 1..k
  <2>1. Taken(k)[i] \in 1..Len(tree)
    BY OperandsFree
  <2> QED BY <1>1, <2>1, OperandNode DEF Kid
<1>4. KidTypes(Len(tree))' = [i \in 1..k |-> Operand(k, i).a_type]
  BY <1>1, <1>2, <1>3 DEF KidTypes
<1>5. ASSUME k = 1
      PROVE  KidTypes(Len(tree))' = <<Operand(1, 1).a_type>>
  <2>1. KidTypes(Len(tree))' = [i \in 1..1 |-> Operand(1, i).a_type]
    BY <1>4, <1>5
  <2> QED BY <2>1
<1>6. ASSUME k = 2
      PROVE  KidTypes(Len(tree))' = <<Operand(2, 1).a_type, Operand(2, 2).a_type>>
  <2>1. KidTypes(Len(tree))' = [i \in 1..2 |-> Operand(2, i).a_type]
    BY <1>4, <1>6
  <2> QED BY <2>1
<1>7. /\ DOMAIN KidTypes(Len(tree))' = 1..k
      /\ \A i \in 1..k : KidTypes(Len(tree))'[i] = Operand(k, i).a_type
  BY <1>4
<1> QED BY <1>1, <1>2, <1>3, <1>5, <1>6, <1>7

-----------------------------------------------------------------------------
(* Every step of the analysis keeps the shape and the verdict right.       *)

AnalysisOK == Shape /\ VerdictIsRight

\* The verdict stays right if the visit of the new node says what the rules say.
LEMMA VerdictStep ==
    ASSUME AnalysisOK, failed = 0, NEW node, NodeOK(node), Visited(node),
           \/ UNCHANGED open /\ (Legal(Len(tree))' <=> failed' = 0)
           \/ open' = Append(open, Len(tree) + 1) /\ failed' = 0
    PROVE  VerdictIsRight'
<1>1. /\ Len(tree') = Len(tree) + 1 /\ Len(tree) \in Nat
      /\ \A n \in 1..Len(tree) : Legal(n)' <=> Legal(n)
  BY OldNodes DEF AnalysisOK, Shape, TreeOK, NodeOK, Visited
<1>2. \A n \in 1..Len(tree) : Legal(n) \/ \E i \in DOMAIN open : open[i] = n
  BY <1>1 DEF AnalysisOK, VerdictIsRight
<1>3. open \in Seq(Nat)
  BY DEF AnalysisOK, Shape, OpenOK
<1>4. /\ \A i \in DOMAIN open : i \in DOMAIN open' /\ open'[i] = open[i]
      /\ open' = Append(open, Len(tree) + 1) =>
            \E i \in DOMAIN open' : open'[i] = Len(tree) + 1
  <2>1. CASE UNCHANGED open /\ open' # Append(open, Len(tree) + 1)
    BY <2>1
  <2>2. CASE open' = Append(open, Len(tree) + 1)
    <3>1. /\ open'[Len(open) + 1] = Len(tree) + 1
          /\ Len(open') = Len(open) + 1 /\ open' \in Seq(Nat)
          /\ \A i \in 1..Len(open) : open'[i] = open[i]
      BY <1>1, <1>3, <2>2
    <3> QED BY <1>3, <3>1
  <2> QED BY <2>1, <2>2
<1>5. failed' \in {0, Len(tree')}
  BY <1>1 DEF Visited
<1>6. ASSUME NEW n \in 1..Len(tree')
      PROVE  IF n = failed' THEN ~Legal(n)'
             ELSE Legal(n)' \/ \E i \in DOMAIN open' : open'[i] = n
  <2>1. CASE n \in 1..Len(tree)
    <3>1. n # failed'
      BY <1>1, <1>5, <2>1
    <3>2. Legal(n)' <=> Legal(n)
      BY <1>1, <2>1
    <3>3. Legal(n) \/ \E i \in DOMAIN open : open[i] = n
      BY <1>2, <2>1
    <3> QED BY <1>4, <3>1, <3>2, <3>3
  <2>2. CASE n = Len(tree')
    BY <1>1, <1>4, <1>5, <2>2
  <2> QED BY <1>1, <2>1, <2>2
<1> QED BY <1>6 DEF VerdictIsRight

LEMMA ExpressionVisit ==
    ASSUME AnalysisOK, NEW k \in Nat, k <= Len(operands), NEW node, NodeOK(node),
           node.kids = Taken(k), node.what \in Expressions, Visited(node), Pushed(k),
           /\ tree'[Len(tree')] = node
           /\ \A i \in 1..k : Kid(Len(tree), i)' = Operand(k, i)
           /\ DOMAIN KidTypes(Len(tree))' = 1..k
           /\ \A i \in 1..k : KidTypes(Len(tree))'[i] = Operand(k, i).a_type
           /\ k = 1 => KidTypes(Len(tree))' = <<Operand(1, 1).a_type>>
           /\ k = 2 => KidTypes(Len(tree))' =
                          <<Operand(2, 1).a_type, Operand(2, 2).a_type>>
           => (Legal(Len(tree))' <=> failed' = 0)
    PROVE  AnalysisOK'
<1>1. UNCHANGED open /\ failed = 0 /\ tree' = Append(tree, node)
  BY DEF Pushed, InBody, Running, Visited
<1>2. Shape'
  BY ExpressionStep DEF AnalysisOK
<1>3. Legal(Len(tree))' <=> failed' = 0
  BY <1>1, NewKids DEF AnalysisOK
<1> QED BY <1>1, <1>2, <1>3, VerdictStep DEF AnalysisOK

LEMMA NoneTaken ==
    ASSUME Shape
    PROVE  Taken(0) = <<>> /\ 0 <= Len(operands)
<1>1. operands \in Seq(Nat)
  BY DEF Shape, OperandsOK
<1>2. Taken(0) \in Seq(Nat) /\ Len(Taken(0)) = 0 /\ 0 <= Len(operands)
  BY <1>1, TakenFacts
<1> QED BY <1>2, EmptySeq

\* What a declaration declares are variables.
LEMMA VariablesAre ==
    ASSUME NEW s \in Variables
    PROVE  s.symbol_type = "VAR" /\ s.v_type \in VType \ {"Void"}
BY SymbolsAssumption DEF Variables, Locals, Symbols

LEMMA ParametersAre ==
    ASSUME NEW s \in Functions \cup {Main}
    PROVE  s.v_type \in VType /\ s.param_types \in Seq(VType \ {"Void"})
<1>1. CASE s \in Functions
  BY <1>1, SymbolsAssumption
<1>2. CASE s = Main
  <2>1. s.v_type = "Void" /\ s.param_types = <<>>
    BY <1>2 DEF Main
  <2>2. <<>> \in Seq(VType \ {"Void"})
    OBVIOUS
  <2> QED BY <2>1, <2>2 DEF VType
<1> QED BY <1>1, <1>2

LEMMA VariableIs ==
    ASSUME NEW type \in VType \ {"Void"}, NEW decl \in Nat \ {0}, NEW pos \in Nat
    PROVE  /\ Variable(type, decl, pos) \in Locals
           /\ Variable(type, decl, pos).v_type = type
           /\ Variable(type, decl, pos).decl = decl /\ Variable(type, decl, pos).pos = pos
BY DEF Variable, Locals, Symbols

LEMMA DeclaredAre ==
    ASSUME TreeOK, NEW m \in 1..Len(tree), NEW s \in Declared(m)
    PROVE  s \in Locals
<1>1. NodeOK(tree[m]) /\ m \in Nat \ {0}
  BY DEF TreeOK
<1>2. CASE tree[m].what = "VarDecl"
  BY <1>1, <1>2 DEF Declared, NodeOK
<1>3. CASE tree[m].what = "FuncDecl"
  <2>1. tree[m].symbol \in Functions \cup {Main}
    BY <1>1, <1>3 DEF NodeOK
  <2>2. tree[m].symbol.param_types \in Seq(VType \ {"Void"})
    BY <2>1, ParametersAre
  <2>3. PICK i \in DOMAIN tree[m].symbol.param_types : s = Parameter(m, i)
    BY <1>3 DEF Declared
  <2>4. i \in Nat /\ tree[m].symbol.param_types[i] \in VType \ {"Void"}
    BY <2>2, <2>3
  <2> QED BY <1>1, <2>3, <2>4, VariableIs DEF Parameter
<1>4. CASE tree[m].what \notin {"VarDecl", "FuncDecl"}
  BY <1>4 DEF Declared
<1> QED BY <1>2, <1>3, <1>4

LEMMA VisibleAre ==
    ASSUME TreeOK
    PROVE  Visible \subseteq Variables
BY DeclaredAre DEF Visible, Variables

LEMMA IdExprStep ==
    ASSUME AnalysisOK, NEW s \in Variables, IdExpr(s)
    PROVE  AnalysisOK'
<1> DEFINE node == Node("IdExpr", NoOp, <<>>, s, s.v_type)
<1>1. Visited(node) /\ Pushed(0) /\ failed' = 0
  BY DEF IdExpr, Expression, Add, Visited, Pushed
<1>2. /\ node.what = "IdExpr" /\ node.op = NoOp /\ node.kids = <<>>
      /\ node \in NodeSet /\ node.symbol = s /\ node.a_type = s.v_type
  <2>1. s.v_type \in VType /\ s \in SymbolSet
    BY VariablesAre DEF SymbolSet
  <2>2. "IdExpr" \in Kinds /\ <<>> \in Seq(Nat)
    BY DEF Kinds, Expressions
  <2> QED BY <2>1, <2>2 DEF Node, NodeSet
<1> HIDE DEF node
<1>3. NodeOK(node)
  BY <1>2 DEF NodeOK
<1>4. ASSUME tree'[Len(tree')] = node
      PROVE  Legal(Len(tree))' <=> failed' = 0
  BY <1>1, <1>2, <1>4 DEF Legal, NoOp
<1>5. 0 \in Nat /\ 0 <= Len(operands) /\ node.kids = Taken(0)
  BY <1>2, NoneTaken DEF AnalysisOK
<1>6. node.what \in Expressions
  BY <1>2 DEF Expressions
<1> QED BY <1>1, <1>3, <1>4, <1>5, <1>6, ExpressionVisit

LEMMA LitExprStep ==
    ASSUME AnalysisOK, NEW t \in VType \ {"Void"}, LitExpr(t)
    PROVE  AnalysisOK'
<1> DEFINE node == Node("LitExpr", NoOp, <<>>, NoSymbol, t)
<1>1. Visited(node) /\ Pushed(0) /\ failed' = 0
  BY DEF LitExpr, Expression, Add, Visited, Pushed
<1>2. /\ node.what = "LitExpr" /\ node.op = NoOp /\ node.kids = <<>>
      /\ node \in NodeSet /\ node.symbol = NoSymbol
  <2>1. t \in VType /\ NoSymbol \in SymbolSet
    BY DEF SymbolSet
  <2>2. "LitExpr" \in Kinds /\ <<>> \in Seq(Nat)
    BY DEF Kinds, Expressions
  <2> QED BY <2>1, <2>2 DEF Node, NodeSet
<1> HIDE DEF node
<1>3. NodeOK(node)
  BY <1>2 DEF NodeOK
<1>4. ASSUME tree'[Len(tree')] = node
      PROVE  Legal(Len(tree))' <=> failed' = 0
  BY <1>1, <1>2, <1>4 DEF Legal, NoOp
<1>5. 0 \in Nat /\ 0 <= Len(operands) /\ node.kids = Taken(0)
  BY <1>2, NoneTaken DEF AnalysisOK
<1>6. node.what \in Expressions
  BY <1>2 DEF Expressions
<1> QED BY <1>1, <1>3, <1>4, <1>5, <1>6, ExpressionVisit

\* What the operands of a visit are.
LEMMA Symbolic ==
    ASSUME NEW node, NodeOK(node), node.what \in Expressions
    PROVE  /\ node.symbol # NoSymbol /\ node.symbol.symbol_type = "VAR"
                 <=> node.what = "IdExpr"
           /\ node.what = "IdExpr" => node.symbol.v_type = node.a_type
<1>1. CASE node.what = "IdExpr"
  <2>1. node.symbol \in Variables /\ node.a_type = node.symbol.v_type
    BY <1>1 DEF NodeOK
  <2>2. node.symbol.symbol_type = "VAR"
    BY <2>1, VariablesAre
  <2>3. node.symbol # NoSymbol
    BY <2>2 DEF NoSymbol
  <2> QED BY <1>1, <2>1, <2>2, <2>3
<1>2. CASE node.what = "FuncCallExpr"
  <2>1. node.symbol \in Functions
    BY <1>2 DEF NodeOK
  <2>2. node.symbol.symbol_type = "FUNC"
    BY <2>1, SymbolsAssumption
  <2> QED BY <1>2, <2>2
<1>3. CASE node.what \notin {"IdExpr", "FuncCallExpr"}
  <2>1. node.symbol = NoSymbol
    BY <1>3 DEF NodeOK, Expressions
  <2> QED BY <1>3, <2>1
<1> QED BY <1>1, <1>2, <1>3

LEMMA UnaryExprStep ==
    ASSUME AnalysisOK, NEW op \in UnaryOps, UnaryExpr(op)
    PROVE  AnalysisOK'
<1> DEFINE expr == Operand(1, 1)
           node == Node("UnaryExpr", op, Taken(1), NoSymbol, expr.a_type)
           ok == /\ op = "INC" => /\ expr.symbol # NoSymbol
                                  /\ expr.symbol.symbol_type = "VAR"
                                  /\ expr.symbol.v_type = "Int"
                 /\ op = "NOT" => expr.a_type = "Bool"
                 /\ op = "SUB" => expr.a_type = "Int"
<1>1. /\ Visited(node) /\ Pushed(1) /\ 1 <= Len(operands)
      /\ failed' = 0 <=> ok
  <2>1. Len(tree) \in Nat
    BY DEF AnalysisOK, Shape, TreeOK
  <2> QED BY <2>1 DEF UnaryExpr, Expression, Add, Visited, Pushed
<1>2. /\ NodeOK(expr) /\ expr.a_type \in VType /\ expr.what \in Expressions
      /\ Taken(1) \in Seq(Nat) /\ Len(Taken(1)) = 1
  <2>1. Shape /\ operands \in Seq(Nat)
    BY DEF AnalysisOK, Shape, OperandsOK
  <2>2. Taken(1) \in Seq(Nat) /\ Len(Taken(1)) = 1
    BY <1>1, <2>1, TakenFacts
  <2> QED BY <1>1, <2>1, <2>2, OperandNode
<1>3. /\ node.what = "UnaryExpr" /\ node.op = op /\ node.kids = Taken(1)
      /\ node \in NodeSet /\ node.symbol = NoSymbol /\ node.a_type = expr.a_type
  BY <1>2, NewNode DEF Kinds, Expressions, SymbolSet
<1>4. op = "INC" => (ok <=> expr.what = "IdExpr" /\ expr.a_type = "Int")
  BY <1>2, Symbolic
<1>6. /\ op = "NOT" => (ok <=> expr.a_type = "Bool")
      /\ op = "SUB" => (ok <=> expr.a_type = "Int")
  OBVIOUS
<1> HIDE DEF node, expr, ok
<1>7. NodeOK(node)
  BY <1>2, <1>3 DEF NodeOK
<1>8. ASSUME tree'[Len(tree')] = node, Kid(Len(tree), 1)' = expr,
             KidTypes(Len(tree))' = <<expr.a_type>>
      PROVE  Legal(Len(tree))' <=> failed' = 0
  <2>1. Legal(Len(tree))' <=> /\ <<op, <<expr.a_type>>, expr.a_type>> \in Signatures
                              /\ op = "INC" => expr.what = "IdExpr"
    BY <1>3, <1>8 DEF Legal
  <2> QED BY <1>1, <1>2, <1>4, <1>6, <2>1 DEF Signatures, VType, UnaryOps
<1>9. node.what \in Expressions
  BY <1>3 DEF Expressions
<1> QED BY <1>1, <1>3, <1>7, <1>8, <1>9, ExpressionVisit DEF expr

\* Two operands.
LEMMA TwoOperands ==
    ASSUME AnalysisOK, Len(operands) >= 2
    PROVE  /\ Taken(2) \in Seq(Nat) /\ Len(Taken(2)) = 2
           /\ \A i \in 1..2 : /\ NodeOK(Operand(2, i))
                              /\ Operand(2, i).a_type \in VType
                              /\ Operand(2, i).what \in Expressions
<1>1. Shape /\ operands \in Seq(Nat) /\ 2 <= Len(operands)
  BY DEF AnalysisOK, Shape, OperandsOK
<1> QED BY <1>1, OperandNode, TakenFacts

LEMMA BinaryExprStep ==
    ASSUME AnalysisOK, NEW op \in BinaryOps, BinaryExpr(op)
    PROVE  AnalysisOK'
<1> DEFINE lhs == Operand(2, 1)
           rhs == Operand(2, 2)
           type == IF op = "ADD" THEN lhs.a_type ELSE "Bool"
           node == Node("BinaryExpr", op, Taken(2), NoSymbol, type)
           ok == /\ lhs.a_type = rhs.a_type
                 /\ op = "LAND" => lhs.a_type = "Bool"
                 /\ op = "EQ" => lhs.a_type \notin {"Str", "Void"}
                 /\ op \in {"ADD", "LT"} => lhs.a_type = "Int"
<1>1. /\ Visited(node) /\ Pushed(2) /\ Len(operands) >= 2
      /\ failed' = 0 <=> ok
  <2>1. Len(tree) \in Nat
    BY DEF AnalysisOK, Shape, TreeOK
  <2> QED BY <2>1 DEF BinaryExpr, Expression, Add, Visited, Pushed
<1>2. /\ Taken(2) \in Seq(Nat) /\ Len(Taken(2)) = 2
      /\ lhs.a_type \in VType /\ rhs.a_type \in VType
  BY <1>1, TwoOperands
<1>3. /\ node.what = "BinaryExpr" /\ node.op = op /\ node.kids = Taken(2)
      /\ node \in NodeSet /\ node.symbol = NoSymbol /\ node.a_type = type
  <2>1. type \in VType
    BY <1>2 DEF VType
  <2> QED BY <1>2, <2>1, NewNode DEF Kinds, Expressions, SymbolSet
<1>4. /\ op = "LAND" => (ok <=> lhs.a_type = "Bool" /\ rhs.a_type = "Bool")
      /\ op = "EQ" => (ok <=> lhs.a_type = rhs.a_type /\ lhs.a_type \in {"Int", "Bool"})
      /\ op \in {"ADD", "LT"} => (ok <=> lhs.a_type = "Int" /\ rhs.a_type = "Int")
      /\ op = "ADD" => type = lhs.a_type
      /\ op # "ADD" => type = "Bool"
  BY <1>2 DEF VType
<1> HIDE DEF node, lhs, rhs, type, ok
<1>5. NodeOK(node)
  BY <1>2, <1>3 DEF NodeOK
<1>6. ASSUME tree'[Len(tree')] = node, KidTypes(Len(tree))' = <<lhs.a_type, rhs.a_type>>
      PROVE  Legal(Len(tree))' <=> failed' = 0
  <2>1. Legal(Len(tree))' <=> <<op, <<lhs.a_type, rhs.a_type>>, type>> \in Signatures
    BY <1>3, <1>6 DEF Legal, BinaryOps
  <2>2. /\ op = "LAND" =>
              (<<op, <<lhs.a_type, rhs.a_type>>, type>> \in Signatures
                   <=> lhs.a_type = "Bool" /\ rhs.a_type = "Bool")
        /\ op = "EQ" =>
              (<<op, <<lhs.a_type, rhs.a_type>>, type>> \in Signatures
                   <=> lhs.a_type = rhs.a_type /\ lhs.a_type \in {"Int", "Bool"})
        /\ op \in {"ADD", "LT"} =>
              (<<op, <<lhs.a_type, rhs.a_type>>, type>> \in Signatures
                   <=> lhs.a_type = "Int" /\ rhs.a_type = "Int")
    BY <1>2, <1>4 DEF Signatures, VType
  <2> QED BY <1>1, <1>4, <2>1, <2>2 DEF BinaryOps
<1>7. node.what \in Expressions
  BY <1>3 DEF Expressions
<1> QED BY <1>1, <1>3, <1>5, <1>6, <1>7, ExpressionVisit DEF lhs, rhs

LEMMA BitwiseExprStep ==
    ASSUME AnalysisOK, NEW op \in BitwiseOps, BitwiseExpr(op)
    PROVE  AnalysisOK'
<1> DEFINE lhs == Operand(2, 1)
           node == Node("BitwiseExpr", op, Taken(2), NoSymbol, lhs.a_type)
<1>1. /\ Visited(node) /\ Pushed(2) /\ Len(operands) >= 2 /\ failed' = 0
  BY DEF BitwiseExpr, Expression, Add, Visited, Pushed
<1>2. /\ Taken(2) \in Seq(Nat) /\ Len(Taken(2)) = 2 /\ lhs.a_type \in VType
  BY <1>1, TwoOperands
<1>3. /\ node.what = "BitwiseExpr" /\ node.op = op /\ node.kids = Taken(2)
      /\ node \in NodeSet /\ node.symbol = NoSymbol /\ node.a_type = lhs.a_type
  BY <1>2, NewNode DEF Kinds, Expressions, SymbolSet
<1> HIDE DEF node, lhs
<1>5. NodeOK(node)
  BY <1>2, <1>3 DEF NodeOK
<1>6. ASSUME tree'[Len(tree')] = node, Kid(Len(tree), 1)' = lhs
      PROVE  Legal(Len(tree))' <=> failed' = 0
  BY <1>1, <1>3, <1>6 DEF Legal, BitwiseOps
<1>7. node.what \in Expressions
  BY <1>3 DEF Expressions
<1> QED BY <1>1, <1>3, <1>5, <1>6, <1>7, ExpressionVisit DEF lhs

LEMMA AssignExprStep ==
    ASSUME AnalysisOK, AssignExpr
    PROVE  AnalysisOK'
<1> DEFINE lhs == Operand(2, 1)
           rhs == Operand(2, 2)
           node == Node("AssignExpr", NoOp, Taken(2), NoSymbol, lhs.a_type)
           ok == /\ lhs.symbol # NoSymbol /\ lhs.symbol.symbol_type = "VAR"
                 /\ lhs.a_type = rhs.a_type
<1>1. /\ Visited(node) /\ Pushed(2) /\ Len(operands) >= 2
      /\ failed' = 0 <=> ok
  <2>1. Len(tree) \in Nat
    BY DEF AnalysisOK, Shape, TreeOK
  <2> QED BY <2>1 DEF AssignExpr, Expression, Add, Visited, Pushed
<1>2. /\ Taken(2) \in Seq(Nat) /\ Len(Taken(2)) = 2
      /\ lhs.a_type \in VType /\ rhs.a_type \in VType
      /\ NodeOK(lhs) /\ lhs.what \in Expressions
  BY <1>1, TwoOperands
<1>3. /\ node.what = "AssignExpr" /\ node.op = NoOp /\ node.kids = Taken(2)
      /\ node \in NodeSet /\ node.symbol = NoSymbol /\ node.a_type = lhs.a_type
  BY <1>2, NewNode DEF Kinds, Expressions, SymbolSet
<1>4. ok <=> lhs.what = "IdExpr" /\ lhs.a_type = rhs.a_type
  BY <1>2, Symbolic
<1> HIDE DEF node, lhs, rhs, ok
<1>5. NodeOK(node)
  BY <1>2, <1>3 DEF NodeOK
<1>6. ASSUME tree'[Len(tree')] = node, Kid(Len(tree), 1)' = lhs,
             KidTypes(Len(tree))' = <<lhs.a_type, rhs.a_type>>
      PROVE  Legal(Len(tree))' <=> failed' = 0
  BY <1>1, <1>3, <1>4, <1>6 DEF Legal, NoOp
<1>7. node.what \in Expressions
  BY <1>3 DEF Expressions
<1> QED BY <1>1, <1>3, <1>5, <1>6, <1>7, ExpressionVisit DEF lhs, rhs

LEMMA FuncCallExprStep ==
    ASSUME AnalysisOK, NEW s \in Functions, NEW n \in 0..MaxOperands, FuncCallExpr(s, n)
    PROVE  AnalysisOK'
<1> DEFINE node == Node("FuncCallExpr", NoOp, Taken(n), s, s.v_type)
           ok == /\ Len(s.param_types) = n
                 /\ \A i \in 1..n : s.param_types[i] = Operand(n, i).a_type
<1>0. n \in Nat
  BY SymbolsAssumption
<1>1. /\ Visited(node) /\ Pushed(n) /\ n <= Len(operands)
      /\ failed' = 0 <=> ok
  <2>1. Len(tree) \in Nat /\ Len(operands) \in Nat
    BY DEF AnalysisOK, Shape, TreeOK, OperandsOK
  <2>2. n <= Len(operands) /\ Expression(n, node, ok)
    BY <1>0, <2>1 DEF FuncCallExpr
  <2> HIDE DEF node, ok
  <2>3. /\ InBody /\ tree' = Append(tree, node)
        /\ failed' = IF ok THEN 0 ELSE Len(tree) + 1
        /\ operands' = Append(SubSeq(operands, 1, Len(operands) - n), Len(tree) + 1)
        /\ UNCHANGED <<open, m_current_function>>
    BY <2>2 DEF Expression, Add
  <2> QED BY <2>1, <2>2, <2>3 DEF Visited, Pushed
<1>2. Taken(n) \in Seq(Nat) /\ Len(Taken(n)) = n
  BY <1>0, <1>1, TakenFacts DEF AnalysisOK, Shape, OperandsOK
<1>3. /\ node.what = "FuncCallExpr" /\ node.op = NoOp /\ node.kids = Taken(n)
      /\ node \in NodeSet /\ node.symbol = s /\ node.a_type = s.v_type
      /\ s.param_types \in Seq(VType)
  <2>1. s.v_type \in VType /\ s \in SymbolSet /\ s.param_types \in Seq(VType)
    BY ParametersAre DEF SymbolSet
  <2> QED BY <1>2, <2>1, NewNode DEF Kinds, Expressions
<1> HIDE DEF node
<1>5. NodeOK(node)
  BY <1>2, <1>3 DEF NodeOK
<1>6. ASSUME tree'[Len(tree')] = node, DOMAIN KidTypes(Len(tree))' = 1..n,
             \A i \in 1..n : KidTypes(Len(tree))'[i] = Operand(n, i).a_type
      PROVE  Legal(Len(tree))' <=> failed' = 0
  <2> DEFINE types == KidTypes(Len(tree))'
  <2>1. types = [i \in 1..n |-> Operand(n, i).a_type]
    BY <1>6 DEF KidTypes
  <2> HIDE DEF types
  <2>2. DOMAIN s.param_types = 1..Len(s.param_types) /\ Len(s.param_types) \in Nat
    BY <1>3
  <2>3. types = s.param_types <=> ok
    <3>1. ASSUME ok PROVE types = s.param_types
      <4>1. s.param_types = [i \in 1..n |-> s.param_types[i]]
        BY <1>3, <2>2, <3>1
      <4> QED BY <2>1, <3>1, <4>1
    <3>2. ASSUME types = s.param_types PROVE ok
      <4>1. 1..n = 1..Len(s.param_types)
        BY <2>1, <2>2, <3>2
      <4>2. n = Len(s.param_types)
        BY <1>0, <2>2, <4>1
      <4> QED BY <2>1, <3>2, <4>2
    <3> QED BY <3>1, <3>2
  <2>4. Legal(Len(tree))' <=> types = s.param_types
    BY <1>3, <1>6 DEF Legal, NoOp, types
  <2> QED BY <1>1, <2>3, <2>4
<1>7. node.what \in Expressions
  BY <1>3 DEF Expressions
<1> QED BY <1>0, <1>1, <1>3, <1>5, <1>6, <1>7, ExpressionVisit

\* One operand is all that waits.
LEMMA OneOperand ==
    ASSUME AnalysisOK, Len(operands) = 1
    PROVE  /\ operands = Taken(1) /\ operands \in Seq(Nat) /\ 1 <= Len(operands)
           /\ Operand(1, 1).a_type \in VType
<1>1. Shape /\ operands \in Seq(Nat)
  BY DEF AnalysisOK, Shape, OperandsOK
<1>2. operands = Taken(1)
  BY <1>1, SubSeqFull DEF Taken
<1> QED BY <1>1, <1>2, OperandNode

LEMMA StatementVisit ==
    ASSUME AnalysisOK, NEW node, NodeOK(node), node.kids = operands,
           node.what \notin Expressions \cup {"FuncDecl"},
           InBody, Visited(node), operands' = <<>>, UNCHANGED m_current_function,
           \/ UNCHANGED open /\ (Legal(Len(tree))' <=> failed' = 0)
           \/ /\ open' = Append(open, Len(tree) + 1) /\ failed' = 0
              /\ node.what = "Condition"
    PROVE  AnalysisOK'
<1>1. Shape /\ failed = 0
  BY DEF AnalysisOK, InBody, Running
<1>2. Shape'
  BY <1>1, StatementStep
<1>3. VerdictIsRight'
  BY <1>1, VerdictStep
<1> QED BY <1>2, <1>3 DEF AnalysisOK

LEMMA ExprStmtStep ==
    ASSUME AnalysisOK, ExprStmt
    PROVE  AnalysisOK'
<1> DEFINE node == Node("ExprStmt", NoOp, operands, NoSymbol, Operand(1, 1).a_type)
<1>1. /\ Len(operands) = 1 /\ InBody /\ Visited(node) /\ operands' = <<>>
      /\ UNCHANGED <<open, m_current_function>> /\ failed' = 0
  BY DEF ExprStmt, Statement, Add, Visited
<1>2. operands \in Seq(Nat) /\ Operand(1, 1).a_type \in VType
  BY <1>1, OneOperand
<1>3. /\ node.what = "ExprStmt" /\ node.op = NoOp /\ node.kids = operands
      /\ node \in NodeSet /\ node.symbol = NoSymbol
  BY <1>2, NewNode DEF Kinds, SymbolSet
<1> HIDE DEF node
<1>4. NodeOK(node)
  BY <1>1, <1>3 DEF NodeOK
<1>5. tree'[Len(tree')] = node
  BY <1>1, <1>3, OldNodes DEF AnalysisOK, Shape, Visited
<1>6. Legal(Len(tree))' <=> failed' = 0
  BY <1>1, <1>3, <1>5 DEF Legal, NoOp
<1>7. node.what \notin Expressions \cup {"FuncDecl"}
  BY <1>3 DEF Expressions
<1> QED BY <1>1, <1>3, <1>4, <1>6, <1>7, StatementVisit

LEMMA VarDeclStep ==
    ASSUME AnalysisOK, NEW t \in VType \ {"Void"}, VarDecl(t)
    PROVE  AnalysisOK'
<1> DEFINE s == Variable(t, Len(tree) + 1, 0)
           node == Node("VarDecl", NoOp, <<>>, s, t)
<1>1. /\ operands = <<>> /\ InBody /\ Visited(node) /\ operands' = <<>>
      /\ UNCHANGED <<open, m_current_function>> /\ failed' = 0
  BY DEF VarDecl, Statement, Add, Visited
<1>2. s \in Locals /\ s.v_type = t
  <2>1. Len(tree) + 1 \in Nat \ {0}
    BY DEF AnalysisOK, Shape, TreeOK
  <2> QED BY <2>1, VariableIs
<1> HIDE DEF s
<1>3. /\ node.what = "VarDecl" /\ node.op = NoOp /\ node.kids = operands
      /\ node \in NodeSet /\ node.symbol = s /\ node.a_type = t
  <2>1. "VarDecl" \in Kinds /\ <<>> \in Seq(Nat) /\ s \in SymbolSet
    BY <1>2 DEF Kinds, SymbolSet, Variables
  <2> QED BY <1>1, <2>1 DEF Node, NodeSet
<1> HIDE DEF node
<1>4. NodeOK(node)
  BY <1>1, <1>2, <1>3 DEF NodeOK
<1>5. tree'[Len(tree')] = node
  BY <1>1, <1>3, OldNodes DEF AnalysisOK, Shape, Visited
<1>6. Legal(Len(tree))' <=> failed' = 0
  BY <1>1, <1>3, <1>5 DEF Legal, NoOp
<1>7. node.what \notin Expressions \cup {"FuncDecl"}
  BY <1>3 DEF Expressions
<1> QED BY <1>1, <1>3, <1>4, <1>6, <1>7, StatementVisit

\* The rule for a return, in terms of the function that is visited.
LEMMA ReturnIsLegal ==
    ASSUME AnalysisOK, InBody, NEW node \in NodeSet, node.what = "ReturnStmt",
           node.op = NoOp, tree' = Append(tree, node)
    PROVE  Legal(Len(tree))' <=>
               \/ node.kids = <<>>
               \/ /\ m_current_function.v_type # "Void"
                  /\ KidTypes(Len(tree))' = <<m_current_function.v_type>>
<1>1. /\ Len(tree') = Len(tree) + 1 /\ tree'[Len(tree')] = node
      /\ \A n \in 1..Len(tree) : tree'[n] = tree[n]
  BY OldNodes DEF AnalysisOK, Shape
<1>2. PICK d \in 1..Len(tree) : IsFunctionOf(d, Len(tree))
                                /\ tree[d].symbol = m_current_function
  BY DEF AnalysisOK, Shape, FunctionOK, InBody
<1>3. Len(tree) \in Nat /\ d \in 1..Len(tree') /\ tree'[d] = tree[d]
  BY <1>1, <1>2 DEF AnalysisOK, Shape, TreeOK
<1>4. \A e \in 1..(Len(tree) + 1) :
          IsFunctionOf(e, Len(tree))' <=>
              e # Len(tree) + 1 /\ IsFunctionOf(e, Len(tree))
  BY FunctionStep DEF AnalysisOK, Shape
<1>5. \A e \in 1..Len(tree') : IsFunctionOf(e, Len(tree))' <=> e = d
  BY <1>1, <1>2, <1>3, <1>4, OneFunction
<1>6. tree[d].a_type = m_current_function.v_type
  BY <1>2 DEF AnalysisOK, Shape, TreeOK, NodeOK, IsFunctionOf
<1>7. Legal(Len(tree))' <=>
          \A e \in 1..Len(tree') : IsFunctionOf(e, Len(tree))' =>
              \/ node.kids = <<>>
              \/ tree'[e].a_type # "Void" /\ KidTypes(Len(tree))' = <<tree'[e].a_type>>
  BY <1>1 DEF Legal, NoOp
<1> QED BY <1>3, <1>5, <1>6, <1>7

LEMMA ReturnStmtStep ==
    ASSUME AnalysisOK, ReturnStmt
    PROVE  AnalysisOK'
<1>1. CASE operands = <<>>
  <2> DEFINE node == Node("ReturnStmt", NoOp, <<>>, NoSymbol, "Void")
  <2>1. /\ InBody /\ Visited(node) /\ operands' = <<>>
        /\ UNCHANGED <<open, m_current_function>> /\ failed' = 0
    BY <1>1 DEF ReturnStmt, Statement, Add, Visited
  <2>2. /\ node.what = "ReturnStmt" /\ node.op = NoOp /\ node.kids = <<>>
        /\ node \in NodeSet /\ node.symbol = NoSymbol
    <3>1. "ReturnStmt" \in Kinds /\ <<>> \in Seq(Nat) /\ NoSymbol \in SymbolSet
          /\ "Void" \in VType
      BY DEF Kinds, SymbolSet, VType
    <3> QED BY <3>1 DEF Node, NodeSet
  <2> HIDE DEF node
  <2>3. NodeOK(node)
    BY <2>2 DEF NodeOK
  <2>4. Legal(Len(tree))' <=> failed' = 0
    BY <2>1, <2>2, ReturnIsLegal DEF Visited
  <2>5. node.what \notin Expressions \cup {"FuncDecl"}
    BY <2>2 DEF Expressions
  <2> QED BY <1>1, <2>1, <2>2, <2>3, <2>4, <2>5, StatementVisit
<1>2. CASE operands # <<>>
  <2> DEFINE type == Operand(1, 1).a_type
             node == Node("ReturnStmt", NoOp, operands, NoSymbol, type)
             ok == m_current_function.v_type # "Void" /\ m_current_function.v_type = type
  <2>1. /\ Len(operands) = 1 /\ InBody /\ Visited(node) /\ operands' = <<>>
        /\ UNCHANGED <<open, m_current_function>> /\ (failed' = 0 <=> ok)
    <3>1. Len(tree) \in Nat
      BY DEF AnalysisOK, Shape, TreeOK
    <3> QED BY <1>2, <3>1 DEF ReturnStmt, Statement, Add, Visited
  <2>2. operands \in Seq(Nat) /\ operands = Taken(1) /\ type \in VType /\ 1 <= Len(operands)
    BY <2>1, OneOperand
  <2>3. /\ node.what = "ReturnStmt" /\ node.op = NoOp /\ node.kids = operands
        /\ node \in NodeSet /\ node.symbol = NoSymbol
    BY <2>2, NewNode DEF Kinds, SymbolSet
  <2> HIDE DEF node, type, ok
  <2>4. NodeOK(node)
    BY <2>1, <2>3 DEF NodeOK
  <2>5. KidTypes(Len(tree))' = <<type>>
    BY <2>1, <2>2, <2>3, <2>4, NewKids DEF AnalysisOK, Visited, type
  <2>6. Legal(Len(tree))' <=> failed' = 0
    <3>1. Legal(Len(tree))' <=> \/ node.kids = <<>>
                                \/ /\ m_current_function.v_type # "Void"
                                   /\ <<type>> = <<m_current_function.v_type>>
      BY <2>1, <2>3, <2>5, ReturnIsLegal DEF Visited
    <3> QED BY <1>2, <2>1, <2>3, <3>1 DEF ok
  <2>7. node.what \notin Expressions \cup {"FuncDecl"}
    BY <2>3 DEF Expressions
  <2> QED BY <2>1, <2>3, <2>4, <2>6, <2>7, StatementVisit
<1> QED BY <1>1, <1>2

LEMMA ConditionStep ==
    ASSUME AnalysisOK, Condition
    PROVE  AnalysisOK'
<1> DEFINE node == Node("Condition", NoOp, operands, NoSymbol, "Void")
<1>1. /\ Len(operands) = 1 /\ InBody /\ Visited(node) /\ operands' = <<>>
      /\ open' = Append(open, Len(tree) + 1) /\ failed' = 0
      /\ UNCHANGED m_current_function
  BY DEF Condition, Add, Visited
<1>2. /\ node.what = "Condition" /\ node.op = NoOp /\ node.kids = operands
      /\ node \in NodeSet /\ node.symbol = NoSymbol
  BY <1>1, OneOperand, NewNode DEF Kinds, SymbolSet, VType
<1> HIDE DEF node
<1>3. NodeOK(node)
  BY <1>1, <1>2 DEF NodeOK
<1>4. node.what \notin Expressions \cup {"FuncDecl"}
  BY <1>2 DEF Expressions
<1> QED BY <1>1, <1>2, <1>3, <1>4, StatementVisit

\* What does not touch the tree does not touch the rules.
LEMMA SameTree ==
    ASSUME TreeOK, UNCHANGED tree
    PROVE  /\ TreeOK'
           /\ \A n \in 1..Len(tree) : Legal(n)' <=> Legal(n)
           /\ FunctionOK /\ UNCHANGED <<m_current_function, operands, open>> => FunctionOK'
<1>1. TreeOK'
  BY DEF TreeOK, KidsBefore, KidsOnce
<1>2. \A d, n \in 1..Len(tree) : IsFunctionOf(d, n)' <=> IsFunctionOf(d, n)
  BY DEF IsFunctionOf
<1>3. ASSUME NEW n \in 1..Len(tree)
      PROVE  Legal(n)' <=> Legal(n)
  <2>1. KidTypes(n)' = KidTypes(n) /\ Kid(n, 1)' = Kid(n, 1)
    BY DEF KidTypes, Kid
  <2>2. \A d \in 1..n : IsFunctionOf(d, n)' <=> IsFunctionOf(d, n)
    BY <1>2 DEF TreeOK
  <2> QED BY <2>1, <2>2 DEF Legal
<1>4. ASSUME FunctionOK, UNCHANGED <<m_current_function, operands, open>>
      PROVE  FunctionOK'
  <2>1. \A d : IsFunctionOf(d, Len(tree))' <=> IsFunctionOf(d, Len(tree))
    BY DEF IsFunctionOf
  <2> QED BY <1>4, <2>1 DEF FunctionOK
<1> QED BY <1>1, <1>3, <1>4

LEMMA EndOfBodyStep ==
    ASSUME AnalysisOK, EndOfBody
    PROVE  AnalysisOK'
<1> DEFINE n == open[Len(open)]
           c == tree[tree[n].kids[1]]
<1>1. /\ failed = 0 /\ open # <<>> /\ failed' = IF c.a_type = "Bool" THEN 0 ELSE n
      /\ open' = SubSeq(open, 1, Len(open) - 1)
      /\ UNCHANGED <<tree, operands, m_current_function>>
      /\ operands = <<>>
  BY DEF EndOfBody
<1>2. /\ open \in Seq(Nat) /\ Len(open) \in 1..Len(open)
      /\ \A i \in 1..Len(open) : open[i] \in 1..Len(tree)
                                 /\ tree[open[i]].what = "Condition"
  BY <1>1 DEF AnalysisOK, Shape, OpenOK
<1>3. n \in 1..Len(tree) /\ tree[n].what = "Condition"
  BY <1>2
<1>4. /\ open' \in Seq(Nat) /\ Len(open') = Len(open) - 1
      /\ \A i \in 1..Len(open') : open'[i] = open[i] /\ i \in 1..Len(open)
      /\ \A i \in 1..Len(open) : i \in 1..Len(open') \/ i = Len(open)
  <2> DEFINE last == Len(open) - 1
  <2>1. last \in Nat /\ last < Len(open) /\ Len(open) = last + 1
    BY <1>2
  <2>2. open' = SubSeq(open, 1, last)
    BY <1>1
  <2> HIDE DEF last
  <2>3. /\ open' \in Seq(Nat) /\ Len(open') = last
        /\ \A i \in 1..last : open'[i] = open[i]
    BY <1>2, <2>1, <2>2, SubSeqProperties
  <2> QED BY <2>1, <2>3
<1>5. NodeOK(tree[n])
  BY <1>3 DEF AnalysisOK, Shape, TreeOK
<1>6. tree[n].kids \in Seq(Nat) /\ Len(tree[n].kids) = 1 /\ tree[n].op = NoOp
  BY <1>3, <1>5 DEF NodeOK, NodeSet
<1>7. KidTypes(n) = <<c.a_type>>
  BY <1>3, <1>6, OneKid DEF Kid
<1>8. Legal(n) <=> c.a_type = "Bool"
  BY <1>3, <1>6, <1>7 DEF Legal, NoOp
<1>9. TreeOK' /\ OperandsOK' /\ FunctionOK'
  <2>1. TreeOK'
    BY <1>1, SameTree DEF AnalysisOK, Shape
  <2>2. OperandsOK'
    BY <1>1 DEF OperandsOK
  <2>3. FunctionOK'
    <3>1. \A d : IsFunctionOf(d, Len(tree))' <=> IsFunctionOf(d, Len(tree))
      BY <1>1 DEF IsFunctionOf
    <3> QED BY <1>1, <3>1 DEF AnalysisOK, Shape, FunctionOK
  <2> QED BY <2>1, <2>2, <2>3
<1>10. OpenOK'
  BY <1>1, <1>2, <1>4 DEF OpenOK
<1>11. failed' \in 0..Len(tree')
  BY <1>1, <1>3 DEF AnalysisOK, Shape, TreeOK
<1>12. \A m \in 1..Len(tree) : Legal(m)' <=> Legal(m)
  BY <1>1, SameTree DEF AnalysisOK, Shape
<1>13. ASSUME NEW m \in 1..Len(tree)
       PROVE  IF m = failed' THEN ~Legal(m)
              ELSE Legal(m) \/ \E i \in DOMAIN open' : open'[i] = m
  <2>1. Legal(m) \/ \E i \in DOMAIN open : open[i] = m
    BY <1>1 DEF AnalysisOK, VerdictIsRight
  <2>2. DOMAIN open = 1..Len(open) /\ DOMAIN open' = 1..Len(open')
    BY <1>2, <1>4
  <2>3. CASE m = n
    BY <1>1, <1>8, <2>3
  <2>4. CASE m # n
    <3>1. m # failed'
      BY <1>1, <2>4
    <3>2. ASSUME NEW i \in 1..Len(open), open[i] = m
          PROVE  i \in 1..Len(open') /\ open'[i] = m
      BY <1>4, <2>4, <3>2
    <3> QED BY <2>1, <2>2, <3>1, <3>2
  <2> QED BY <2>3, <2>4
<1>14. VerdictIsRight'
  BY <1>1, <1>12, <1>13 DEF VerdictIsRight
<1> QED BY <1>9, <1>10, <1>11, <1>14 DEF AnalysisOK, Shape

LEMMA FuncDeclStep ==
    ASSUME AnalysisOK, NEW s \in Functions \cup {Main}, FuncDecl(s)
    PROVE  AnalysisOK'
<1> DEFINE node == Node("FuncDecl", NoOp, <<>>, s, s.v_type)
<1>1. /\ failed = 0 /\ m_current_function = NoSymbol /\ Visited(node) /\ failed' = 0
      /\ m_current_function' = s /\ UNCHANGED <<operands, open>>
      /\ tree' = Append(tree, node)
  BY DEF FuncDecl, Running, Add, Visited
<1>2. operands = <<>> /\ open = <<>>
  BY <1>1 DEF AnalysisOK, Shape, FunctionOK
<1>3. s.v_type \in VType /\ s \in SymbolSet
  BY ParametersAre DEF SymbolSet
<1>4. /\ node.what = "FuncDecl" /\ node.op = NoOp /\ node.kids = <<>>
      /\ node \in NodeSet /\ node.symbol = s /\ node.a_type = s.v_type
  <2>1. "FuncDecl" \in Kinds /\ <<>> \in Seq(Nat)
    BY DEF Kinds
  <2> QED BY <1>3, <2>1 DEF Node, NodeSet
<1> HIDE DEF node
<1>5. NodeOK(node)
  BY <1>4 DEF NodeOK
<1>6. /\ Len(tree') = Len(tree) + 1 /\ tree'[Len(tree) + 1] = node /\ Len(tree) \in Nat
  BY <1>1, <1>4, OldNodes DEF AnalysisOK, Shape, TreeOK
<1>7. TreeOK'
  BY <1>1, <1>4, <1>5, TreeStep DEF AnalysisOK, Shape
<1>8. OperandsOK' /\ OpenOK'
  BY <1>1, <1>2 DEF OperandsOK, OpenOK
<1>9. FunctionOK'
  <2>1. IsFunctionOf(Len(tree), Len(tree))'
    BY <1>4, <1>6 DEF IsFunctionOf
  <2>2. s # NoSymbol
    <3>1. s.symbol_type = "FUNC"
      BY SymbolsAssumption DEF Main
    <3> QED BY <3>1 DEF NoSymbol
  <2>3. Len(tree') \in 1..Len(tree') /\ tree'[Len(tree')].symbol = s
    BY <1>4, <1>6
  <2> QED BY <1>1, <2>1, <2>2, <2>3 DEF FunctionOK
<1>10. Legal(Len(tree))' <=> failed' = 0
  BY <1>1, <1>4, <1>6 DEF Legal, NoOp
<1>11. VerdictIsRight'
  BY <1>1, <1>5, <1>10, VerdictStep
<1> QED BY <1>1, <1>6, <1>7, <1>8, <1>9, <1>11 DEF AnalysisOK, Shape

LEMMA EndOfFuncStep ==
    ASSUME AnalysisOK, EndOfFunc
    PROVE  AnalysisOK'
<1>1. /\ m_current_function' = NoSymbol /\ operands = <<>> /\ open = <<>>
      /\ UNCHANGED <<tree, operands, open, failed>>
  BY DEF EndOfFunc
<1>2. TreeOK' /\ OperandsOK' /\ OpenOK'
  BY <1>1, SameTree DEF AnalysisOK, Shape, OperandsOK, OpenOK
<1>3. FunctionOK'
  BY <1>1 DEF FunctionOK
<1>4. VerdictIsRight'
  BY <1>1, SameTree DEF AnalysisOK, Shape, VerdictIsRight
<1>5. failed' \in 0..Len(tree')
  BY <1>1 DEF AnalysisOK, Shape
<1> QED BY <1>2, <1>3, <1>4, <1>5 DEF AnalysisOK, Shape

LEMMA AnalysisInit ==
    ASSUME Init
    PROVE  AnalysisOK
<1>1. /\ tree = <<>> /\ operands = <<>> /\ open = <<>>
      /\ m_current_function = NoSymbol /\ failed = 0
  BY DEF Init
<1> QED BY <1>1 DEF AnalysisOK, Shape, TreeOK, KidsOnce, OperandsOK, OpenOK,
                    FunctionOK, VerdictIsRight

LEMMA AnalysisNext ==
    ASSUME AnalysisOK, [Next]_vars
    PROVE  AnalysisOK'
<1>1. CASE UNCHANGED vars
  <2>1. UNCHANGED <<tree, operands, open, m_current_function, failed>>
    BY <1>1 DEF vars
  <2>2. TreeOK' /\ OperandsOK' /\ OpenOK' /\ FunctionOK'
    BY <2>1, SameTree DEF AnalysisOK, Shape, OperandsOK, OpenOK
  <2>3. VerdictIsRight'
    BY <2>1, SameTree DEF AnalysisOK, Shape, VerdictIsRight
  <2> QED BY <2>1, <2>2, <2>3 DEF AnalysisOK, Shape
<1>2. CASE Next
  <2> Visible \subseteq Variables
    BY VisibleAre DEF AnalysisOK, Shape
  <2> QED
    BY <1>2, IdExprStep, LitExprStep, UnaryExprStep, BinaryExprStep, BitwiseExprStep,
       AssignExprStep, FuncCallExprStep, ExprStmtStep, ReturnStmtStep, VarDeclStep,
       ConditionStep, EndOfBodyStep, FuncDeclStep, EndOfFuncStep DEF Next
<1> QED BY <1>1, <1>2

-----------------------------------------------------------------------------
(* A name is of a variable that a node before it declares, and every       *)
(* declaration makes a variable of its own.                                *)

DeclaredBefore(s, n) ==
    s \in Globals \/ \E m \in 1..(n - 1) : s \in Declared(m)

DeclarationsOK ==
    \A n \in 1..Len(tree) :
        /\ tree[n].what = "IdExpr" => DeclaredBefore(tree[n].symbol, n)
        /\ tree[n].what = "VarDecl" => tree[n].symbol = Variable(tree[n].a_type, n, 0)

\* The visit that leaves the tree alone, and the one that adds a node.
LEMMA DeclarationsSame ==
    ASSUME DeclarationsOK, UNCHANGED tree
    PROVE  DeclarationsOK'
<1>1. \A m : Declared(m)' = Declared(m)
  BY DEF Declared, Parameter
<1> QED BY <1>1 DEF DeclarationsOK, DeclaredBefore

LEMMA DeclarationsStep ==
    ASSUME TreeOK, DeclarationsOK, NEW node, tree' = Append(tree, node),
           node.what = "IdExpr" =>
               \/ node.symbol \in Globals
               \/ \E m \in 1..Len(tree) : node.symbol \in Declared(m),
           node.what = "VarDecl" =>
               node.symbol = Variable(node.a_type, Len(tree) + 1, 0)
    PROVE  DeclarationsOK'
<1>1. /\ Len(tree) \in Nat /\ Len(tree') = Len(tree) + 1 /\ tree'[Len(tree) + 1] = node
      /\ \A n \in 1..Len(tree) : tree'[n] = tree[n]
  <2>1. tree \in Seq(NodeSet \cup {node})
    BY DEF TreeOK
  <2> QED BY <2>1
<1>2. \A m \in 1..Len(tree) : Declared(m)' = Declared(m)
  BY <1>1 DEF Declared, Parameter
<1>3. ASSUME NEW n \in 1..Len(tree')
      PROVE  /\ tree'[n].what = "IdExpr" => DeclaredBefore(tree[n].symbol, n)'
             /\ tree'[n].what = "VarDecl" =>
                   tree'[n].symbol = Variable(tree'[n].a_type, n, 0)
  <2>1. CASE n \in 1..Len(tree)
    <3>1. ASSUME tree[n].what = "IdExpr"
          PROVE  DeclaredBefore(tree[n].symbol, n)'
      <4>1. \A m \in 1..(n - 1) : m \in 1..Len(tree)
        BY <1>1, <2>1
      <4> QED BY <1>2, <2>1, <3>1, <4>1 DEF DeclarationsOK, DeclaredBefore
    <3> QED BY <1>1, <2>1, <3>1 DEF DeclarationsOK
  <2>2. CASE n = Len(tree) + 1
    <3>1. (n - 1) = Len(tree)
      BY <1>1, <2>2
    <3> QED BY <1>1, <1>2, <2>2, <3>1 DEF DeclaredBefore
  <2> QED BY <1>1, <2>1, <2>2
<1> QED BY <1>3 DEF DeclarationsOK

\* A node is added that neither names nor declares a variable.
Nameless ==
    \E node : tree' = Append(tree, node) /\ node.what \notin {"IdExpr", "VarDecl"}

LEMMA NamelessVisits ==
    ASSUME \/ \E t \in VType : LitExpr(t)
           \/ \E op : UnaryExpr(op) \/ BinaryExpr(op) \/ BitwiseExpr(op)
           \/ AssignExpr \/ \E s, n : FuncCallExpr(s, n)
           \/ ExprStmt \/ ReturnStmt \/ Condition \/ \E s : FuncDecl(s)
    PROVE  Nameless
<1>1. ASSUME NEW what, NEW op, NEW kids, NEW symbol, NEW type,
             what \notin {"IdExpr", "VarDecl"},
             tree' = Append(tree, Node(what, op, kids, symbol, type))
      PROVE  Nameless
  <2>1. Node(what, op, kids, symbol, type).what = what
    BY DEF Node
  <2> QED BY <1>1, <2>1 DEF Nameless
<1>2. ASSUME NEW t, LitExpr(t) PROVE Nameless
  <2>1. tree' = Append(tree, Node("LitExpr", NoOp, <<>>, NoSymbol, t))
    BY <1>2 DEF LitExpr, Expression, Add
  <2> QED BY <1>1, <2>1
<1>3. ASSUME NEW op, UnaryExpr(op) PROVE Nameless
  BY <1>1, <1>3 DEF UnaryExpr, Expression, Add
<1>4. ASSUME NEW op, BinaryExpr(op) PROVE Nameless
  BY <1>1, <1>4 DEF BinaryExpr, Expression, Add
<1>5. ASSUME NEW op, BitwiseExpr(op) PROVE Nameless
  BY <1>1, <1>5 DEF BitwiseExpr, Expression, Add
<1>6. CASE AssignExpr
  BY <1>1, <1>6 DEF AssignExpr, Expression, Add
<1>7. ASSUME NEW s, NEW n, FuncCallExpr(s, n) PROVE Nameless
  <2> DEFINE node == Node("FuncCallExpr", NoOp, Taken(n), s, s.v_type)
             ok == /\ Len(s.param_types) = n
                   /\ \A i \in 1..n : s.param_types[i] = Operand(n, i).a_type
  <2>1. Expression(n, node, ok)
    BY <1>7 DEF FuncCallExpr
  <2> HIDE DEF ok
  <2>2. tree' = Append(tree, node)
    BY <2>1 DEF Expression, Add
  <2> QED BY <1>1, <2>2
<1>8. CASE ExprStmt
  BY <1>1, <1>8 DEF ExprStmt, Statement, Add
<1>9. CASE ReturnStmt
  BY <1>1, <1>9 DEF ReturnStmt, Statement, Add
<1>10. CASE Condition
  BY <1>1, <1>10 DEF Condition, Add
<1>11. ASSUME NEW s, FuncDecl(s) PROVE Nameless
  BY <1>1, <1>11 DEF FuncDecl, Add
<1> QED BY <1>2, <1>3, <1>4, <1>5, <1>6, <1>7, <1>8, <1>9, <1>10, <1>11

LEMMA DeclarationsNext ==
    ASSUME TreeOK, DeclarationsOK, Next
    PROVE  DeclarationsOK'
<1>1. ASSUME NEW s \in Visible, IdExpr(s)
      PROVE  DeclarationsOK'
  <2> DEFINE node == Node("IdExpr", NoOp, <<>>, s, s.v_type)
  <2>1. tree' = Append(tree, node)
    BY <1>1 DEF IdExpr, Expression, Add
  <2>2. s \in Globals \/ \E m \in 1..Len(tree) : s \in Declared(m)
    BY <1>1 DEF Visible
  <2>3. node.what = "IdExpr" /\ node.symbol = s
    BY DEF Node
  <2> HIDE DEF node
  <2> QED BY <2>1, <2>2, <2>3, DeclarationsStep
<1>2. ASSUME NEW t \in VType, VarDecl(t)
      PROVE  DeclarationsOK'
  <2> DEFINE node == Node("VarDecl", NoOp, <<>>, Variable(t, Len(tree) + 1, 0), t)
  <2>1. tree' = Append(tree, node)
    BY <1>2 DEF VarDecl, Statement, Add
  <2>2. /\ node.what = "VarDecl" /\ node.a_type = t
        /\ node.symbol = Variable(t, Len(tree) + 1, 0)
    BY DEF Node
  <2> HIDE DEF node
  <2> QED BY <2>1, <2>2, DeclarationsStep
<1>3. CASE Nameless
  <2>1. PICK node : tree' = Append(tree, node) /\ node.what \notin {"IdExpr", "VarDecl"}
    BY <1>3 DEF Nameless
  <2> QED BY <2>1, DeclarationsStep
<1>4. CASE EndOfBody \/ EndOfFunc
  <2>1. UNCHANGED tree
    BY <1>4 DEF EndOfBody, EndOfFunc
  <2> QED BY <2>1, DeclarationsSame
<1> QED BY <1>1, <1>2, <1>3, <1>4, NamelessVisits DEF Next

\* What a node declares has the number of the node.
LEMMA DeclaredHere ==
    ASSUME TreeOK, DeclarationsOK, NEW m \in 1..Len(tree), NEW s \in Declared(m)
    PROVE  s.decl = m /\ s \in Symbols({m})
<1>1. s \in Locals
  BY DeclaredAre
<1>2. NodeOK(tree[m]) /\ m \in Nat \ {0}
  BY DEF TreeOK
<1>3. ASSUME tree[m].what = "VarDecl" PROVE s.decl = m
  <2>1. s = tree[m].symbol
    BY <1>3 DEF Declared
  <2>2. tree[m].symbol = Variable(tree[m].a_type, m, 0)
    BY <1>3 DEF DeclarationsOK
  <2> QED BY <2>1, <2>2 DEF Variable
<1>4. ASSUME tree[m].what = "FuncDecl" PROVE s.decl = m
  BY <1>4 DEF Declared, Parameter, Variable
<1>5. s.decl = m
  BY <1>3, <1>4 DEF Declared
<1> QED BY <1>1, <1>5 DEF Locals, Symbols

-----------------------------------------------------------------------------
(* The inductive invariant of the code generation.                         *)

ValueSet == [type : LLVMTypes, origin : {NoOrigin}]

\* What AccessesReachVariables says of one instruction.
Reaches(i) ==
    i.op \in {"load", "store"} =>
        LET address == i.args[Len(i.args)]
        IN  IF tree[i.at].op = "INC" THEN address.origin = NoOrigin
            ELSE /\ IsStorageOf(address, Meant(i))
                 /\ address.origin.holds =
                       IF i.op = "load" THEN i.type ELSE i.args[1].type

\* With what CodeFitsTypes says of it.
InstFits(i) ==
    /\ i.type \in LLVMTypes
    /\ Verified(i) <=> ~Mistyped(i)
    /\ Reaches(i)

\* Every variable whose declaration has been reached has its storage, and no other.
StorageOK ==
    /\ next = 0 => llvm_Value = <<>>
    /\ next > 0 => Globals \subseteq DOMAIN llvm_Value
    /\ \A m \in 1..Len(value) : Declared(m) \subseteq DOMAIN llvm_Value
    /\ \A s \in DOMAIN llvm_Value :
          /\ s \in Globals \cup Symbols(1..Len(value))
          /\ llvm_Value[s].type = "ptr" /\ IsStorageOf(llvm_Value[s], s)

\* The argument p of the function that node n declares has been stored.
Stored(n, p, insts) ==
    \E i \in insts : i.at = n /\ i.op = "store" /\ i.args[1].origin.pos = p
ArgumentsOK ==
    \A n \in 1..Len(value) : tree[n].what = "FuncDecl" =>
        \A p \in DOMAIN tree[n].symbol.param_types : Stored(n, p, code)

\* The builder is in the function that the last node stands in.
FuncOK ==
    /\ func \in Functions \cup {Main, NoSymbol}
    /\ next > 1 => \E d \in 1..(next - 1) : IsFunctionOf(d, next - 1)
                                            /\ tree[d].symbol = func

\* Code is made for accepted programs only, one node after the other, and the value of
\* an expression is no address of a variable.
ValuesInv ==
    /\ AnalysisOK /\ DeclarationsOK /\ StorageOK /\ ArgumentsOK
    /\ next \in 0..(Len(tree) + 1) /\ value \in Seq(ValueSet)
    /\ Len(value) = IF next = 0 THEN 0 ELSE next - 1
    /\ next = 0 => code = {}
    /\ next > 0 => failed = 0 /\ open = <<>>
    /\ FuncOK
    /\ \A n \in 1..Len(value) :
          tree[n].what \in Expressions /\ ~IsTarget(n) =>
              value[n] = Plain(getType(tree[n].a_type))
    /\ \A i \in code : i.at \in 1..Len(value) /\ InstFits(i)

LEMMA GetType ==
    /\ getType("Int") = "i32" /\ getType("Str") = "ptr"
    /\ getType("Bool") = "i1" /\ getType("Void") = "void"
BY DEF getType

\* Different types have different LLVM types.
LEMMA GetTypeIs ==
    ASSUME NEW t \in VType
    PROVE  /\ getType(t) \in LLVMTypes
           /\ getType(t) = "i32" <=> t = "Int"
           /\ getType(t) = "i1" <=> t = "Bool"
           /\ getType(t) = "void" <=> t = "Void"
BY GetType DEF VType, LLVMTypes

LEMMA PlainIs ==
    ASSUME NEW t
    PROVE  /\ Plain(t).type = t /\ Plain(t).origin = NoOrigin
           /\ t \in LLVMTypes => Plain(t) \in ValueSet
BY DEF Plain, ValueSet

LEMMA NoValueIs == NoValue \in ValueSet
BY PlainIs DEF NoValue, LLVMTypes

LEMMA InstIs ==
    ASSUME NEW op, NEW args, NEW type
    PROVE  /\ Inst(op, args, type).at = next /\ Inst(op, args, type).op = op
           /\ Inst(op, args, type).args = args /\ Inst(op, args, type).type = type
BY DEF Inst

LEMMA OneArg ==
    ASSUME NEW i, NEW x, i.args = <<x>>
    PROVE  ArgTypes(i) = <<x.type>>
BY DEF ArgTypes

LEMMA TwoArgs ==
    ASSUME NEW i, NEW x, NEW y, i.args = <<x, y>>
    PROVE  ArgTypes(i) = <<x.type, y.type>>
BY DEF ArgTypes

\* An accepted program follows the rules.
LEMMA AllLegal ==
    ASSUME ValuesInv, next > 0, NEW n \in 1..Len(tree)
    PROVE  Legal(n) /\ NodeOK(tree[n]) /\ KidsBefore(n)
<1>1. failed = 0 /\ open = <<>>
  BY DEF ValuesInv
<1>2. n # failed /\ DOMAIN open = {}
  BY <1>1
<1>3. Legal(n)
  BY <1>2 DEF ValuesInv, AnalysisOK, VerdictIsRight
<1> QED BY <1>3 DEF ValuesInv, AnalysisOK, Shape, TreeOK

\* Mistyped and the rest are about the tree, which code generation leaves alone.
LEMMA OldCode ==
    ASSUME UNCHANGED tree, NEW i, InstFits(i)
    PROVE  InstFits(i)'
<1>1. Mistyped(i)' <=> Mistyped(i)
  BY DEF Mistyped, KidTypes, Kid, IsFunctionOf
<1>2. Reaches(i)' <=> Reaches(i)
  <2>1. Meant(i)' = Meant(i)
    BY DEF Meant, Kid, Parameter
  <2> QED BY <2>1 DEF Reaches
<1>3. Verified(i)' <=> Verified(i)
  BY DEF Verified, ArgTypes
<1> QED BY <1>1, <1>2, <1>3 DEF InstFits

\* Code for a node keeps the invariant if its value and instructions fit.
LEMMA MakeStep ==
    ASSUME ValuesInv, next \in 1..Len(tree), NEW instructions, NEW result \in ValueSet,
           Make(instructions, result),
           tree[next].what \in Expressions /\ ~IsTarget(next) =>
               result = Plain(getType(tree[next].a_type)),
           \A i \in instructions : i.at = next /\ InstFits(i),
           \/ tree[next].what = "FuncDecl" /\ func' = tree[next].symbol
           \/ tree[next].what # "FuncDecl" /\ UNCHANGED func,
           \/ tree[next].what \notin {"VarDecl", "FuncDecl"} /\ UNCHANGED llvm_Value
           \/ StorageOK',
           tree[next].what = "FuncDecl" =>
               \A p \in DOMAIN tree[next].symbol.param_types : Stored(next, p, instructions)
    PROVE  ValuesInv'
<1>1. /\ code' = code \cup instructions /\ value' = Append(value, result)
      /\ next' = next + 1
      /\ UNCHANGED <<tree, operands, open, m_current_function, failed>>
  BY DEF Make, vars
<1>2. /\ next \in Nat /\ next >= 1 /\ Len(value) = next - 1 /\ value \in Seq(ValueSet)
      /\ Len(tree) \in Nat
  BY DEF ValuesInv, AnalysisOK, Shape, TreeOK
<1>3. AnalysisOK'
  BY <1>1, AnalysisNext DEF ValuesInv, vars
<1>4. /\ Len(value') = next /\ value' \in Seq(ValueSet) /\ value'[next] = result
      /\ \A n \in 1..Len(value) : value'[n] = value[n]
      /\ \A n \in 1..Len(value') : n \in 1..Len(value) \/ n = next
  BY <1>1, <1>2
<1>5. next' \in 0..(Len(tree') + 1)
  BY <1>1, <1>2
<1>6. FuncOK'
  <2>1. CASE tree[next].what = "FuncDecl" /\ func' = tree[next].symbol
    <3>1. tree[next].symbol \in Functions \cup {Main}
      BY <2>1 DEF ValuesInv, AnalysisOK, Shape, TreeOK, NodeOK
    <3>2. next' - 1 = next
      BY <1>1, <1>2
    <3>3. \E d \in 1..next : /\ d <= next /\ tree[d].what = "FuncDecl"
                             /\ \A e \in (d + 1)..next : tree[e].what # "FuncDecl"
                             /\ tree[d].symbol = func'
      BY <1>2, <2>1
    <3> QED BY <1>1, <2>1, <3>1, <3>2, <3>3 DEF FuncOK, IsFunctionOf
  <2>2. CASE tree[next].what # "FuncDecl" /\ UNCHANGED func
    <3>1. next # 1
      BY <1>2, <2>2 DEF ValuesInv, AnalysisOK, Shape, TreeOK
    <3>2. PICK d \in 1..(next - 1) : IsFunctionOf(d, next - 1) /\ tree[d].symbol = func
      BY <1>2, <3>1 DEF ValuesInv, FuncOK
    <3>3. next - 1 \in Nat /\ next - 1 >= 1 /\ (next - 1) + 1 = next
      BY <1>2, <3>1
    <3>4. d \in 1..Len(tree)
      BY <1>2
    <3>5. IsFunctionOf(d, next)
      BY <2>2, <3>2, <3>3, <3>4, SameFunction DEF ValuesInv, AnalysisOK, Shape
    <3>6. next' - 1 = next /\ d \in 1..next
      BY <1>1, <1>2
    <3> QED BY <1>1, <2>2, <3>2, <3>5, <3>6 DEF ValuesInv, FuncOK, IsFunctionOf
  <2> QED BY <2>1, <2>2
<1>7. \A n \in 1..Len(value') : IsTarget(n)' <=> IsTarget(n)
  BY <1>1 DEF IsTarget
<1>8. ASSUME NEW n \in 1..Len(value'), tree[n].what \in Expressions, ~IsTarget(n)
      PROVE  value'[n] = Plain(getType(tree[n].a_type))
  BY <1>4, <1>8 DEF ValuesInv
<1>9. ASSUME NEW i \in code'
      PROVE  i.at \in 1..Len(value') /\ InstFits(i)'
  <2>1. CASE i \in code
    BY <1>1, <1>2, <1>4, <2>1, OldCode DEF ValuesInv
  <2>2. CASE i \in instructions
    BY <1>1, <1>2, <1>4, <2>2, OldCode
  <2> QED BY <1>1, <2>1, <2>2
<1>10. failed' = 0 /\ open' = <<>> /\ next' # 0 /\ next' > 0
  BY <1>1, <1>2 DEF ValuesInv
<1>11. Len(value') = next' - 1
  BY <1>1, <1>2, <1>4
<1>12. DeclarationsOK'
  BY <1>1, DeclarationsSame DEF ValuesInv
<1>13. StorageOK'
  <2>1. CASE tree[next].what \notin {"VarDecl", "FuncDecl"} /\ UNCHANGED llvm_Value
    <3>1. \A m : Declared(m)' = Declared(m)
      BY <1>1 DEF Declared, Parameter
    <3>2. Declared(next) = {}
      BY <2>1 DEF Declared
    <3>3. \A m \in 1..Len(value') : Declared(m) \subseteq DOMAIN llvm_Value
      BY <1>4, <3>2 DEF ValuesInv, StorageOK
    <3>4. /\ Globals \subseteq DOMAIN llvm_Value
          /\ \A s \in DOMAIN llvm_Value :
                /\ s \in Globals \cup Symbols(1..Len(value'))
                /\ llvm_Value[s].type = "ptr" /\ IsStorageOf(llvm_Value[s], s)
      <4>1. Symbols(1..Len(value)) \subseteq Symbols(1..Len(value'))
        BY <1>2, <1>4 DEF Symbols
      <4> QED BY <1>2, <4>1 DEF ValuesInv, StorageOK
    <3> QED BY <1>10, <2>1, <3>1, <3>3, <3>4 DEF StorageOK
  <2> QED BY <2>1
<1>14. ArgumentsOK'
  <2> SUFFICES ASSUME NEW n \in 1..Len(value'), tree[n].what = "FuncDecl",
                      NEW q \in DOMAIN tree[n].symbol.param_types
               PROVE  Stored(n, q, code')
    BY <1>1 DEF ArgumentsOK
  <2>1. CASE n \in 1..Len(value)
    BY <1>1, <2>1 DEF ValuesInv, ArgumentsOK, Stored
  <2>2. CASE n = next
    BY <1>1, <2>2 DEF Stored
  <2> QED BY <1>4, <2>1, <2>2
<1> QED BY <1>1, <1>3, <1>4, <1>5, <1>6, <1>7, <1>8, <1>9, <1>10, <1>11, <1>12, <1>13,
           <1>14 DEF ValuesInv

-----------------------------------------------------------------------------
(* The parts of the node that code is made for.                            *)

\* The value of a part that codegen() was called for.
LEMMA ArgIs ==
    ASSUME ValuesInv, next \in 1..Len(tree), NEW i \in 1..Len(tree[next].kids),
           tree[next].what # "AssignExpr" \/ i # 1
    PROVE  /\ Arg(i) = Plain(getType(Kid(next, i).a_type))
           /\ Kid(next, i).a_type \in VType
           /\ Arg(i).type = getType(Kid(next, i).a_type)
           /\ Arg(i).origin = NoOrigin /\ Arg(i) \in ValueSet
<1> DEFINE k == tree[next].kids[i]
<1>1. k \in 1..(next - 1) /\ tree[k].what \in Expressions
  BY AllLegal DEF KidsBefore
<1>2. Len(value) = next - 1 /\ Len(tree) \in Nat /\ k \in 1..Len(tree)
  BY <1>1 DEF ValuesInv, AnalysisOK, Shape, TreeOK
<1>3. ~IsTarget(k)
  <2> SUFFICES ASSUME NEW m \in DOMAIN tree, tree[m].what = "AssignExpr",
                      tree[m].kids[1] = k
               PROVE  FALSE
    BY DEF IsTarget
  <2>1. m \in 1..Len(tree)
    BY DEF ValuesInv, AnalysisOK, Shape, TreeOK
  <2>2. 1 \in 1..Len(tree[m].kids)
    BY <2>1, AllLegal DEF NodeOK
  <2>3. m = next /\ i = 1
    BY <2>1, <2>2 DEF ValuesInv, AnalysisOK, Shape, TreeOK, KidsOnce
  <2> QED BY <2>3
<1>4. tree[k].a_type \in VType
  BY <1>2 DEF ValuesInv, AnalysisOK, Shape, TreeOK, NodeOK, NodeSet
<1>5. value[k] = Plain(getType(tree[k].a_type))
  BY <1>1, <1>2, <1>3 DEF ValuesInv
<1> QED BY <1>4, <1>5, GetTypeIs, PlainIs DEF Arg, Kid

LEMMA OneArgIs ==
    ASSUME ValuesInv, next \in 1..Len(tree), Len(tree[next].kids) = 1
    PROVE  /\ KidTypes(next) = <<Kid(next, 1).a_type>> /\ Args = <<Arg(1)>>
           /\ Kid(next, 1).a_type \in VType
           /\ Arg(1) = Plain(getType(Kid(next, 1).a_type))
           /\ Arg(1).type = getType(Kid(next, 1).a_type) /\ Arg(1).origin = NoOrigin
<1>1. tree[next].kids \in Seq(Nat) /\ next \in Nat
  BY AllLegal DEF NodeOK, NodeSet
<1>2. Args = <<Arg(1)>>
  BY <1>1 DEF Args
<1>3. tree[next].what # "AssignExpr"
  <2>1. NodeOK(tree[next])
    BY AllLegal
  <2> QED BY <2>1 DEF NodeOK
<1> QED BY <1>1, <1>2, <1>3, OneKid, ArgIs

LEMMA TwoArgsIs ==
    ASSUME ValuesInv, next \in 1..Len(tree), Len(tree[next].kids) = 2,
           tree[next].what # "AssignExpr"
    PROVE  /\ KidTypes(next) = <<Kid(next, 1).a_type, Kid(next, 2).a_type>>
           /\ Args = <<Arg(1), Arg(2)>>
           /\ Kid(next, 1).a_type \in VType /\ Kid(next, 2).a_type \in VType
           /\ Arg(1).type = getType(Kid(next, 1).a_type)
           /\ Arg(2).type = getType(Kid(next, 2).a_type)
<1>1. tree[next].kids \in Seq(Nat) /\ next \in Nat
  BY AllLegal DEF NodeOK, NodeSet
<1>2. Args = <<Arg(1), Arg(2)>>
  BY <1>1 DEF Args
<1> QED BY <1>1, <1>2, TwoKids, ArgIs

\* An instruction that neither loads nor stores.
LEMMA NoAccess ==
    ASSUME NEW i, i.op \notin {"load", "store"}
    PROVE  Reaches(i)
BY DEF Reaches

\* An instruction for a node that is no exception.
LEMMA NotMistyped ==
    ASSUME NEW i, tree[i.at].what \notin {"BitwiseExpr", "ReturnStmt"},
           tree[i.at].op # "INC"
    PROVE  ~Mistyped(i)
BY DEF Mistyped

-----------------------------------------------------------------------------
(* The code of every node keeps the invariant.                             *)

LEMMA SkipTargetStep ==
    ASSUME ValuesInv, SkipTarget
    PROVE  ValuesInv'
<1>1. next \in 1..Len(tree) /\ IsTarget(next) /\ Make({}, NoValue) /\ UNCHANGED <<func, llvm_Value>>
  BY DEF SkipTarget
<1>2. PICK m \in DOMAIN tree : tree[m].what = "AssignExpr" /\ tree[m].kids[1] = next
  BY <1>1 DEF IsTarget
<1>3. m \in 1..Len(tree) /\ Len(tree[m].kids) = 2
  BY <1>2 DEF ValuesInv, AnalysisOK, Shape, TreeOK, NodeOK
<1>4. tree[next].what \in Expressions
  BY <1>2, <1>3 DEF ValuesInv, AnalysisOK, Shape, TreeOK, KidsBefore
<1>5. tree[next].what \notin {"VarDecl", "FuncDecl"}
  BY <1>4 DEF Expressions
<1> QED BY <1>1, <1>5, MakeStep, NoValueIs

\* A variable that is named before the next node, or there, has its storage.
LEMMA NameHasStorage ==
    ASSUME ValuesInv, next \in 1..Len(tree), NEW n \in 1..next, tree[n].what = "IdExpr"
    PROVE  /\ llvm_Value[tree[n].symbol].type = "ptr"
           /\ IsStorageOf(llvm_Value[tree[n].symbol], tree[n].symbol)
<1>1. /\ Len(tree) \in Nat /\ next > 0 /\ Len(value) = next - 1 /\ n \in 1..Len(tree)
  BY DEF ValuesInv, AnalysisOK, Shape, TreeOK
<1>2. DeclaredBefore(tree[n].symbol, n)
  BY <1>1 DEF ValuesInv, DeclarationsOK
<1>3. tree[n].symbol \in DOMAIN llvm_Value
  <2>1. CASE tree[n].symbol \in Globals
    BY <1>1, <2>1 DEF ValuesInv, StorageOK
  <2>2. CASE \E m \in 1..(n - 1) : tree[n].symbol \in Declared(m)
    <3>1. PICK m \in 1..(n - 1) : tree[n].symbol \in Declared(m)
      BY <2>2
    <3>2. m \in 1..Len(value)
      BY <1>1
    <3> QED BY <3>1, <3>2 DEF ValuesInv, StorageOK
  <2> QED BY <1>2, <2>1, <2>2 DEF DeclaredBefore
<1> QED BY <1>3 DEF ValuesInv, StorageOK

\* A store of a value into storage for its type.
LEMMA StoreFits ==
    ASSUME NEW v, NEW address, v.type # "void", address.type = "ptr",
           address.origin.holds = v.type, tree[next].op # "INC",
           tree[next].what \notin {"BitwiseExpr", "ReturnStmt"},
           IsStorageOf(address, Meant(Inst("store", <<v, address>>, "void")))
    PROVE  LET inst == Inst("store", <<v, address>>, "void")
           IN  inst.at = next /\ InstFits(inst)
<1> DEFINE inst == Inst("store", <<v, address>>, "void")
<1>1. /\ inst.at = next /\ inst.op = "store" /\ inst.args = <<v, address>>
      /\ inst.type = "void" /\ IsStorageOf(address, Meant(inst))
  BY InstIs
<1> HIDE DEF inst
<1>2. ArgTypes(inst) = <<v.type, "ptr">>
  BY <1>1, TwoArgs
<1>3. ~Mistyped(inst)
  BY <1>1, NotMistyped
<1>4. Verified(inst)
  BY <1>1, <1>2 DEF Verified, Arithmetic
<1>5. Reaches(inst)
  BY <1>1 DEF Reaches
<1>6. InstFits(inst)
  BY <1>1, <1>3, <1>4, <1>5 DEF InstFits, LLVMTypes
<1> QED BY <1>1, <1>6 DEF inst

LEMMA MakeIdExprStep ==
    ASSUME ValuesInv, MakeIdExpr
    PROVE  ValuesInv'
<1> DEFINE x == tree[next].symbol
           type == getType(tree[next].a_type)
           load == Inst("load", <<llvm_Value[x]>>, type)
<1>1. /\ next \in 1..Len(tree) /\ tree[next].what = "IdExpr" /\ UNCHANGED <<func, llvm_Value>>
      /\ Make({load}, Plain(type))
  BY DEF MakeIdExpr, At
<1>2. NodeOK(tree[next]) /\ next > 0
  BY <1>1, AllLegal
<1>3. x \in Variables /\ tree[next].a_type = x.v_type /\ tree[next].op = NoOp
  BY <1>1, <1>2 DEF NodeOK
<1>4. tree[next].a_type \in VType \ {"Void"}
  BY <1>3, VariablesAre
<1>5. type \in LLVMTypes /\ type # "void"
  BY <1>4, GetTypeIs
<1>0. llvm_Value[x].type = "ptr" /\ IsStorageOf(llvm_Value[x], x)
  BY <1>1, NameHasStorage
<1> HIDE DEF load, x, type
<1>6. load.at = next /\ load.op = "load" /\ load.args = <<llvm_Value[x]>> /\ load.type = type
  BY InstIs DEF load
<1>7. ArgTypes(load) = <<"ptr">>
  BY <1>6, <1>0, OneArg
<1>8. ~Mistyped(load)
  BY <1>1, <1>3, <1>6, NotMistyped DEF NoOp
<1>9. Verified(load)
  BY <1>5, <1>6, <1>7 DEF Verified, Arithmetic
<1>10. Reaches(load)
  <2>1. Meant(load) = x /\ load.args[Len(load.args)] = llvm_Value[x]
    BY <1>1, <1>6 DEF Meant, x
  <2>2. llvm_Value[x].origin.holds = type
    BY <1>0, <1>3 DEF IsStorageOf, type
  <2> QED BY <1>0, <1>3, <1>6, <2>1, <2>2 DEF Reaches, NoOp
<1>11. InstFits(load)
  BY <1>5, <1>6, <1>8, <1>9, <1>10 DEF InstFits
<1> QED BY <1>1, <1>5, <1>6, <1>11, MakeStep, PlainIs DEF type

LEMMA MakeLitExprStep ==
    ASSUME ValuesInv, MakeLitExpr
    PROVE  ValuesInv'
<1> DEFINE type == getType(tree[next].a_type)
<1>1. /\ next \in 1..Len(tree) /\ tree[next].what = "LitExpr" /\ UNCHANGED <<func, llvm_Value>>
      /\ Make({}, Plain(type))
  BY DEF MakeLitExpr, At
<1>2. tree[next].a_type \in VType
  BY <1>1, AllLegal DEF NodeOK, NodeSet
<1>3. type \in LLVMTypes
  BY <1>2, GetTypeIs
<1> HIDE DEF type
<1> QED BY <1>1, <1>3, MakeStep, PlainIs DEF type

LEMMA MakeIncrementStep ==
    ASSUME ValuesInv, MakeIncrement
    PROVE  ValuesInv'
<1> DEFINE int == Plain("i32")
           load == Inst("load", <<Arg(1)>>, "i32")
           add == Inst("add", <<int, int>>, "i32")
           store == Inst("store", <<int, Arg(1)>>, "void")
<1>1. /\ next \in 1..Len(tree) /\ tree[next].what = "UnaryExpr" /\ UNCHANGED <<func, llvm_Value>>
      /\ tree[next].op = "INC" /\ Make({load, add, store}, int)
  BY DEF MakeIncrement, At
<1>2. NodeOK(tree[next]) /\ Legal(next)
  BY <1>1, AllLegal
<1>3. Len(tree[next].kids) = 1
  BY <1>1, <1>2 DEF NodeOK
<1>4. /\ KidTypes(next) = <<Kid(next, 1).a_type>> /\ Kid(next, 1).a_type \in VType
      /\ Arg(1).type = getType(Kid(next, 1).a_type) /\ Arg(1).origin = NoOrigin
  BY <1>1, <1>3, OneArgIs
<1>5. Kid(next, 1).a_type = "Int" /\ tree[next].a_type = "Int"
  <2>1. <<"INC", <<Kid(next, 1).a_type>>, tree[next].a_type>> \in Signatures
    BY <1>1, <1>2, <1>4 DEF Legal
  <2> QED BY <2>1 DEF Signatures
<1>6. Arg(1).type = "i32" /\ int.type = "i32" /\ int \in ValueSet
  BY <1>4, <1>5, GetType, PlainIs DEF LLVMTypes
<1>7. int = Plain(getType(tree[next].a_type))
  BY <1>5, GetType
<1> HIDE DEF int, load, add, store
<1>8. /\ load.at = next /\ load.op = "load" /\ load.args = <<Arg(1)>> /\ load.type = "i32"
      /\ add.at = next /\ add.op = "add" /\ add.args = <<int, int>> /\ add.type = "i32"
      /\ store.at = next /\ store.op = "store" /\ store.args = <<int, Arg(1)>>
      /\ store.type = "void"
  BY InstIs DEF load, add, store
<1>9. /\ ArgTypes(load) = <<"i32">> /\ ArgTypes(add) = <<"i32", "i32">>
      /\ ArgTypes(store) = <<"i32", "i32">>
  BY <1>6, <1>8, OneArg, TwoArgs
<1>10. Mistyped(load) /\ Mistyped(store) /\ ~Mistyped(add)
  BY <1>1, <1>8 DEF Mistyped
<1>11. ~Verified(load) /\ ~Verified(store)
  BY <1>8, <1>9 DEF Verified
<1>12. Verified(add)
  BY <1>8, <1>9 DEF Verified, Arithmetic, Integer
<1>13. Reaches(load) /\ Reaches(add) /\ Reaches(store)
  <2>1. load.args[Len(load.args)] = Arg(1) /\ store.args[Len(store.args)] = Arg(1)
    BY <1>8
  <2> QED BY <1>1, <1>4, <1>8, <2>1, NoAccess DEF Reaches
<1>14. InstFits(load) /\ InstFits(add) /\ InstFits(store)
  BY <1>1, <1>8, <1>10, <1>11, <1>12, <1>13 DEF InstFits, LLVMTypes
<1> QED BY <1>1, <1>6, <1>7, <1>8, <1>14, MakeStep

LEMMA MakeUnaryExprStep ==
    ASSUME ValuesInv, MakeUnaryExpr
    PROVE  ValuesInv'
<1> DEFINE op == IF tree[next].op = "NOT" THEN "not" ELSE "neg"
           type == Arg(1).type
           inst == Inst(op, Args, type)
<1>1. /\ next \in 1..Len(tree) /\ tree[next].what = "UnaryExpr" /\ UNCHANGED <<func, llvm_Value>>
      /\ tree[next].op # "INC" /\ Make({inst}, Plain(type))
  BY DEF MakeUnaryExpr, At
<1>2. NodeOK(tree[next]) /\ Legal(next)
  BY <1>1, AllLegal
<1>3. Len(tree[next].kids) = 1 /\ tree[next].op \in {"NOT", "SUB"}
  BY <1>1, <1>2 DEF NodeOK, UnaryOps
<1>4. /\ KidTypes(next) = <<Kid(next, 1).a_type>> /\ Args = <<Arg(1)>>
      /\ type = getType(Kid(next, 1).a_type)
  BY <1>1, <1>3, OneArgIs
<1>5. Kid(next, 1).a_type = tree[next].a_type /\ tree[next].a_type \in {"Int", "Bool"}
  <2>1. <<tree[next].op, <<Kid(next, 1).a_type>>, tree[next].a_type>> \in Signatures
    BY <1>1, <1>2, <1>4 DEF Legal
  <2> QED BY <1>3, <2>1 DEF Signatures
<1>6. type = getType(tree[next].a_type) /\ type \in Integer /\ type \in LLVMTypes
  BY <1>4, <1>5, GetType DEF LLVMTypes, Integer
<1>7. inst.at = next /\ inst.op = op /\ inst.args = Args /\ inst.type = type
  BY InstIs
<1>8. op \in {"not", "neg"}
  OBVIOUS
<1> HIDE DEF inst, type, op
<1>9. ArgTypes(inst) = <<type>>
  BY <1>4, <1>7, OneArg DEF type
<1>10. ~Mistyped(inst)
  BY <1>1, <1>7, NotMistyped
<1>11. InstFits(inst)
  BY <1>6, <1>7, <1>8, <1>9, <1>10, NoAccess DEF InstFits, Verified, Arithmetic
<1> QED BY <1>1, <1>6, <1>7, <1>11, MakeStep, PlainIs

LEMMA MakeLogicalStep ==
    ASSUME ValuesInv, MakeLogical
    PROVE  ValuesInv'
<1> DEFINE br == Inst("br", <<Arg(1)>>, "void")
           phi == Inst("phi", Args, "i1")
<1>1. /\ next \in 1..Len(tree) /\ tree[next].what = "BinaryExpr" /\ UNCHANGED <<func, llvm_Value>>
      /\ tree[next].op = "LAND" /\ Make({br, phi}, Plain("i1"))
  BY DEF MakeLogical, At
<1>2. NodeOK(tree[next]) /\ Legal(next)
  BY <1>1, AllLegal
<1>3. Len(tree[next].kids) = 2
  BY <1>1, <1>2 DEF NodeOK
<1>4. /\ KidTypes(next) = <<Kid(next, 1).a_type, Kid(next, 2).a_type>>
      /\ Args = <<Arg(1), Arg(2)>>
      /\ Arg(1).type = getType(Kid(next, 1).a_type)
      /\ Arg(2).type = getType(Kid(next, 2).a_type)
  BY <1>1, <1>3, TwoArgsIs
<1>5. /\ Kid(next, 1).a_type = "Bool" /\ Kid(next, 2).a_type = "Bool"
      /\ tree[next].a_type = "Bool"
  <2>1. <<"LAND", <<Kid(next, 1).a_type, Kid(next, 2).a_type>>, tree[next].a_type>>
            \in Signatures
    BY <1>1, <1>2, <1>4 DEF Legal
  <2> QED BY <2>1 DEF Signatures
<1>6. /\ Arg(1).type = "i1" /\ Arg(2).type = "i1" /\ Plain("i1") \in ValueSet
      /\ Plain("i1") = Plain(getType(tree[next].a_type))
  BY <1>4, <1>5, GetType, PlainIs DEF LLVMTypes
<1> HIDE DEF br, phi
<1>7. /\ br.at = next /\ br.op = "br" /\ br.args = <<Arg(1)>> /\ br.type = "void"
      /\ phi.at = next /\ phi.op = "phi" /\ phi.args = <<Arg(1), Arg(2)>>
      /\ phi.type = "i1"
  BY <1>4, InstIs DEF br, phi
<1>8. ArgTypes(br) = <<"i1">> /\ ArgTypes(phi) = <<"i1", "i1">>
  BY <1>6, <1>7, OneArg, TwoArgs
<1>9. ~Mistyped(br) /\ ~Mistyped(phi)
  BY <1>1, <1>7, NotMistyped
<1>10. Verified(br) /\ Verified(phi)
  BY <1>7, <1>8 DEF Verified, Arithmetic
<1>11. InstFits(br) /\ InstFits(phi)
  BY <1>7, <1>9, <1>10, NoAccess DEF InstFits, LLVMTypes
<1> QED BY <1>1, <1>6, <1>7, <1>11, MakeStep

LEMMA MakeBinaryExprStep ==
    ASSUME ValuesInv, MakeBinaryExpr
    PROVE  ValuesInv'
<1> DEFINE op == IF tree[next].op = "ADD" THEN "add" ELSE "icmp"
           type == IF tree[next].op = "ADD" THEN Arg(1).type ELSE "i1"
           inst == Inst(op, Args, type)
<1>1. /\ next \in 1..Len(tree) /\ tree[next].what = "BinaryExpr" /\ UNCHANGED <<func, llvm_Value>>
      /\ tree[next].op # "LAND" /\ Make({inst}, Plain(type))
  BY DEF MakeBinaryExpr, At
<1>2. NodeOK(tree[next]) /\ Legal(next)
  BY <1>1, AllLegal
<1>3. Len(tree[next].kids) = 2 /\ tree[next].op \in {"ADD", "EQ", "LT"}
  BY <1>1, <1>2 DEF NodeOK, BinaryOps
<1>4. /\ KidTypes(next) = <<Kid(next, 1).a_type, Kid(next, 2).a_type>>
      /\ Args = <<Arg(1), Arg(2)>>
      /\ Arg(1).type = getType(Kid(next, 1).a_type)
      /\ Arg(2).type = getType(Kid(next, 2).a_type)
  BY <1>1, <1>3, TwoArgsIs
<1>5. /\ Kid(next, 1).a_type = Kid(next, 2).a_type
      /\ Kid(next, 1).a_type \in {"Int", "Bool"}
      /\ tree[next].op = "ADD" =>
            Kid(next, 1).a_type = "Int" /\ tree[next].a_type = "Int"
      /\ tree[next].op # "ADD" => tree[next].a_type = "Bool"
  <2>1. <<tree[next].op, <<Kid(next, 1).a_type, Kid(next, 2).a_type>>,
          tree[next].a_type>> \in Signatures
    BY <1>1, <1>2, <1>4 DEF Legal
  <2> QED BY <1>3, <2>1 DEF Signatures
<1>6. /\ Arg(1).type = Arg(2).type /\ Arg(1).type \in {"i32", "i1"}
      /\ tree[next].op = "ADD" => Arg(1).type = "i32"
      /\ type = getType(tree[next].a_type) /\ type \in LLVMTypes
  BY <1>4, <1>5, GetType DEF LLVMTypes
<1>7. /\ inst.at = next /\ inst.op = op /\ inst.args = <<Arg(1), Arg(2)>>
      /\ inst.type = type
  BY <1>4, InstIs
<1>8. /\ tree[next].op = "ADD" => op = "add" /\ type = "i32"
      /\ tree[next].op # "ADD" => op = "icmp" /\ type = "i1"
  BY <1>6
<1> HIDE DEF inst, type, op
<1>9. ArgTypes(inst) = <<Arg(1).type, Arg(2).type>>
  BY <1>7, TwoArgs
<1>10. ~Mistyped(inst)
  BY <1>1, <1>3, <1>7, NotMistyped
<1>11. CASE tree[next].op = "ADD"
  <2>1. ArgTypes(inst) = <<"i32", "i32">> /\ inst.type = "i32" /\ inst.op = "add"
    BY <1>6, <1>7, <1>8, <1>9, <1>11
  <2>2. Verified(inst)
    BY <2>1 DEF Verified, Arithmetic, Integer
  <2>3. InstFits(inst)
    BY <1>6, <1>7, <1>10, <2>1, <2>2, NoAccess DEF InstFits
  <2> QED BY <1>1, <1>6, <1>7, <2>3, MakeStep, PlainIs
<1>12. CASE tree[next].op # "ADD"
  <2>1. inst.type = "i1" /\ inst.op = "icmp"
    BY <1>7, <1>8, <1>12
  <2>2. ArgTypes(inst)[1] = ArgTypes(inst)[2] /\ ArgTypes(inst)[1] # "void"
    BY <1>6, <1>9
  <2>3. Verified(inst)
    BY <2>1, <2>2 DEF Verified, Arithmetic
  <2>4. InstFits(inst)
    BY <1>6, <1>7, <1>10, <2>1, <2>3, NoAccess DEF InstFits
  <2> QED BY <1>1, <1>6, <1>7, <2>4, MakeStep, PlainIs
<1> QED BY <1>11, <1>12

LEMMA MakeBitwiseExprStep ==
    ASSUME ValuesInv, MakeBitwiseExpr
    PROVE  ValuesInv'
<1> DEFINE type == Arg(1).type
           inst == Inst("and", Args, type)
           l == Kid(next, 1).a_type
           r == Kid(next, 2).a_type
<1>1. /\ next \in 1..Len(tree) /\ tree[next].what = "BitwiseExpr" /\ UNCHANGED <<func, llvm_Value>>
      /\ Make({inst}, Plain(type))
  BY DEF MakeBitwiseExpr, At
<1>2. NodeOK(tree[next]) /\ Legal(next)
  BY <1>1, AllLegal
<1>3. Len(tree[next].kids) = 2 /\ tree[next].op \in BitwiseOps
  BY <1>1, <1>2 DEF NodeOK
<1>4. /\ KidTypes(next) = <<l, r>> /\ Args = <<Arg(1), Arg(2)>>
      /\ l \in VType /\ r \in VType
      /\ type = getType(l) /\ Arg(2).type = getType(r)
  BY <1>1, <1>3, TwoArgsIs
<1>5. tree[next].a_type = l
  BY <1>1, <1>2 DEF Legal
<1>6. type = getType(tree[next].a_type) /\ type \in LLVMTypes
  BY <1>4, <1>5, GetTypeIs
<1>7. /\ inst.at = next /\ inst.op = "and" /\ inst.args = <<Arg(1), Arg(2)>>
      /\ inst.type = type
  BY <1>4, InstIs
<1>8. ArgTypes(inst) = <<getType(l), getType(r)>>
  <2>1. ArgTypes(inst) = <<Arg(1).type, Arg(2).type>>
    BY <1>7, TwoArgs
  <2> QED BY <1>4, <2>1
<1> HIDE DEF inst, type, l, r
<1>9. /\ getType(l) = "i32" <=> l = "Int"
      /\ getType(l) = "i1" <=> l = "Bool"
      /\ getType(r) = "i32" <=> r = "Int"
      /\ getType(r) = "i1" <=> r = "Bool"
  BY <1>4, GetTypeIs
<1>10. Mistyped(inst) <=> <<l, r>> \notin {<<"Int", "Int">>, <<"Bool", "Bool">>}
  BY <1>1, <1>3, <1>4, <1>7 DEF Mistyped, BitwiseOps
<1>11. Verified(inst) <=> getType(l) \in Integer
                          /\ <<getType(l), getType(r)>> = <<getType(l), getType(l)>>
  BY <1>4, <1>7, <1>8 DEF Verified, Arithmetic
<1>12. Verified(inst) <=> ~Mistyped(inst)
  BY <1>9, <1>10, <1>11 DEF Integer
<1>13. InstFits(inst)
  BY <1>6, <1>7, <1>12, NoAccess DEF InstFits
<1> QED BY <1>1, <1>6, <1>7, <1>13, MakeStep, PlainIs

LEMMA MakeAssignExprStep ==
    ASSUME ValuesInv, MakeAssignExpr
    PROVE  ValuesInv'
<1> DEFINE x == Kid(next, 1).symbol
           inst == Inst("store", <<Arg(2), llvm_Value[x]>>, "void")
<1>1. /\ next \in 1..Len(tree) /\ tree[next].what = "AssignExpr" /\ UNCHANGED <<func, llvm_Value>>
      /\ Make({inst}, Arg(2))
  BY DEF MakeAssignExpr, At
<1>2. NodeOK(tree[next]) /\ Legal(next) /\ KidsBefore(next)
  BY <1>1, AllLegal
<1>3. Len(tree[next].kids) = 2 /\ tree[next].op = NoOp /\ tree[next].kids \in Seq(Nat)
  BY <1>1, <1>2 DEF NodeOK, NodeSet
<1>4. /\ Kid(next, 1).what = "IdExpr" /\ Kid(next, 1).a_type = tree[next].a_type
      /\ Kid(next, 2).a_type = tree[next].a_type
  <2>1. KidTypes(next) = <<Kid(next, 1).a_type, Kid(next, 2).a_type>>
    BY <1>1, <1>3, TwoKids
  <2>2. /\ Kid(next, 1).what = "IdExpr"
        /\ KidTypes(next) = <<tree[next].a_type, tree[next].a_type>>
    BY <1>1, <1>2 DEF Legal
  <2> QED BY <2>1, <2>2
<1>0. tree[next].kids[1] \in 1..next /\ tree[next].kids[1] \in 1..Len(tree)
  BY <1>1, <1>2, <1>3 DEF KidsBefore, ValuesInv, AnalysisOK, Shape, TreeOK
<1>5. tree[next].a_type \in VType \ {"Void"} /\ tree[next].a_type = x.v_type
  <2>1. NodeOK(Kid(next, 1))
    BY <1>0 DEF ValuesInv, AnalysisOK, Shape, TreeOK, Kid
  <2>2. x \in Variables /\ Kid(next, 1).a_type = x.v_type
    BY <1>4, <2>1 DEF NodeOK
  <2> QED BY <1>4, <2>2, VariablesAre
<1>6. /\ Arg(2) = Plain(getType(tree[next].a_type)) /\ Arg(2) \in ValueSet
      /\ Arg(2).type = getType(tree[next].a_type)
  BY <1>1, <1>3, <1>4, ArgIs
<1>7. Arg(2).type # "void"
  BY <1>5, <1>6, GetTypeIs
<1>14. llvm_Value[x].type = "ptr" /\ IsStorageOf(llvm_Value[x], x)
  BY <1>0, <1>1, <1>4, NameHasStorage DEF Kid
<1> HIDE DEF inst, x
<1>8. llvm_Value[x].origin.holds = Arg(2).type
  BY <1>5, <1>6, <1>14 DEF IsStorageOf
<1>9. Meant(inst) = x
  BY <1>1, InstIs DEF Meant, inst, x
<1>10. inst.at = next /\ InstFits(inst)
  BY <1>1, <1>3, <1>7, <1>8, <1>9, <1>14, StoreFits DEF NoOp, inst
<1> QED BY <1>1, <1>6, <1>10, MakeStep

LEMMA MakeFuncCallExprStep ==
    ASSUME ValuesInv, MakeFuncCallExpr
    PROVE  ValuesInv'
<1> DEFINE s == tree[next].symbol
           type == getType(tree[next].a_type)
           inst == [Inst("call", Args, type) EXCEPT !.callee = Callee(s)]
           kids == tree[next].kids
<1>1. /\ next \in 1..Len(tree) /\ tree[next].what = "FuncCallExpr" /\ UNCHANGED <<func, llvm_Value>>
      /\ Make({inst}, Plain(type))
  BY DEF MakeFuncCallExpr, At
<1>2. NodeOK(tree[next]) /\ Legal(next)
  BY <1>1, AllLegal
<1>3. /\ s \in Functions /\ tree[next].a_type = s.v_type /\ tree[next].op = NoOp
      /\ tree[next].a_type \in VType /\ kids \in Seq(Nat)
  BY <1>1, <1>2 DEF NodeOK, NodeSet
<1>4. type \in LLVMTypes
  BY <1>3, GetTypeIs
<1>5. KidTypes(next) = s.param_types
  BY <1>1, <1>2 DEF Legal
<1>6. /\ inst.at = next /\ inst.op = "call" /\ inst.args = Args
      /\ inst.type = type /\ inst.callee = Callee(s)
  BY DEF Inst
<1> HIDE DEF inst
<1>7. ArgTypes(inst) = Callee(s).params
  <2>1. \A i \in DOMAIN kids : Arg(i).type = getType(Kid(next, i).a_type)
    BY <1>1, <1>3, ArgIs
  <2>2. ArgTypes(inst) = [i \in DOMAIN kids |-> Arg(i).type]
    BY <1>6 DEF ArgTypes, Args
  <2>3. /\ DOMAIN s.param_types = DOMAIN kids
        /\ \A i \in DOMAIN kids : s.param_types[i] = Kid(next, i).a_type
    BY <1>5 DEF KidTypes
  <2>4. Callee(s).params = [i \in DOMAIN kids |-> getType(Kid(next, i).a_type)]
    <3>1. Callee(s).params = [i \in DOMAIN s.param_types |-> getType(s.param_types[i])]
      BY DEF Callee
    <3> HIDE DEF s, kids
    <3> QED BY <2>3, <3>1
  <2> HIDE DEF kids
  <2> QED BY <2>1, <2>2, <2>4
<1>8. Callee(s).type = type
  BY <1>3 DEF Callee
<1>9. ~Mistyped(inst)
  BY <1>1, <1>3, <1>6, NotMistyped DEF NoOp
<1> HIDE DEF s, type
<1>10. Verified(inst)
  BY <1>6, <1>7, <1>8 DEF Verified, Arithmetic
<1>11. InstFits(inst)
  BY <1>4, <1>6, <1>9, <1>10, NoAccess DEF InstFits
<1> QED BY <1>1, <1>4, <1>6, <1>11, MakeStep, PlainIs DEF type

LEMMA MakeExprStmtStep ==
    ASSUME ValuesInv, MakeExprStmt
    PROVE  ValuesInv'
<1>1. /\ next \in 1..Len(tree) /\ tree[next].what = "ExprStmt" /\ UNCHANGED <<func, llvm_Value>>
      /\ Make({}, NoValue)
  BY DEF MakeExprStmt, At
<1>2. tree[next].what \notin Expressions \cup {"FuncDecl"}
  BY <1>1 DEF Expressions
<1> QED BY <1>1, <1>2, MakeStep, NoValueIs

\* The function that a node stands in is the one of the builder.
LEMMA FuncIs ==
    ASSUME ValuesInv, next \in 1..Len(tree), tree[next].what # "FuncDecl"
    PROVE  \E d \in 1..next : /\ IsFunctionOf(d, next) /\ tree[d].a_type = func.v_type
                              /\ tree[d].a_type \in VType
                              /\ \A e \in 1..next : IsFunctionOf(e, next) => e = d
<1>1. next \in Nat /\ next >= 1 /\ Len(tree) \in Nat
  BY DEF ValuesInv, AnalysisOK, Shape, TreeOK
<1>2. next # 1
  BY <1>1 DEF ValuesInv, AnalysisOK, Shape, TreeOK
<1>3. PICK d \in 1..(next - 1) : IsFunctionOf(d, next - 1) /\ tree[d].symbol = func
  BY <1>1, <1>2 DEF ValuesInv, FuncOK
<1>4. /\ next - 1 \in Nat /\ next - 1 >= 1 /\ (next - 1) + 1 = next
      /\ d \in 1..Len(tree) /\ d \in 1..next
  BY <1>1, <1>2
<1>5. IsFunctionOf(d, next)
  BY <1>3, <1>4, SameFunction DEF ValuesInv, AnalysisOK, Shape
<1>6. tree[d].a_type = func.v_type /\ tree[d].a_type \in VType
  <2>1. tree[d].what = "FuncDecl" /\ NodeOK(tree[d])
    BY <1>3, <1>4 DEF IsFunctionOf, ValuesInv, AnalysisOK, Shape, TreeOK
  <2> QED BY <1>3, <2>1 DEF NodeOK, NodeSet
<1>7. \A e \in 1..next : IsFunctionOf(e, next) => e = d
  BY <1>1, <1>4, <1>5, OneFunction
<1> QED BY <1>4, <1>5, <1>6, <1>7

LEMMA MakeReturnStmtStep ==
    ASSUME ValuesInv, MakeReturnStmt
    PROVE  ValuesInv'
<1> DEFINE type == getType(func.v_type)
           inst == Inst("ret", Args, type)
<1>1. /\ next \in 1..Len(tree) /\ tree[next].what = "ReturnStmt" /\ UNCHANGED <<func, llvm_Value>>
      /\ Make({inst}, NoValue)
  BY DEF MakeReturnStmt, At
<1>2. NodeOK(tree[next]) /\ Legal(next)
  BY <1>1, AllLegal
<1>3. /\ Len(tree[next].kids) \in {0, 1} /\ tree[next].op = NoOp
      /\ tree[next].kids \in Seq(Nat)
  BY <1>1, <1>2 DEF NodeOK, NodeSet
<1>4. PICK d \in 1..next : /\ IsFunctionOf(d, next) /\ tree[d].a_type = func.v_type
                           /\ tree[d].a_type \in VType
                           /\ \A e \in 1..next : IsFunctionOf(e, next) => e = d
  BY <1>1, FuncIs
<1>5. \/ tree[next].kids = <<>>
      \/ tree[d].a_type # "Void" /\ KidTypes(next) = <<tree[d].a_type>>
  BY <1>1, <1>2, <1>4 DEF Legal
<1>6. type \in LLVMTypes /\ (type = "void" <=> tree[d].a_type = "Void")
      /\ type = getType(tree[d].a_type)
  BY <1>4, GetTypeIs
<1>7. inst.at = next /\ inst.op = "ret" /\ inst.args = Args /\ inst.type = type
  BY InstIs
<1> HIDE DEF inst, type
<1>8. Mistyped(inst) <=> tree[next].kids = <<>> /\ tree[d].a_type # "Void"
  <2>1. Mistyped(inst) <=> /\ tree[next].kids = <<>>
                           /\ \E e \in 1..next : /\ IsFunctionOf(e, next)
                                                 /\ tree[e].a_type # "Void"
    BY <1>1, <1>3, <1>7 DEF Mistyped, NoOp
  <2> QED BY <1>4, <2>1
<1>9. CASE tree[next].kids = <<>>
  <2>1. Args = <<>>
    BY <1>9 DEF Args
  <2>2. ArgTypes(inst) = <<>>
    BY <1>7, <2>1 DEF ArgTypes
  <2>3. Verified(inst) <=> type = "void"
    BY <1>7, <2>2 DEF Verified, Arithmetic
  <2>4. InstFits(inst)
    BY <1>6, <1>7, <1>8, <1>9, <2>3, NoAccess DEF InstFits
  <2> QED BY <1>1, <1>7, <2>4, MakeStep, NoValueIs DEF Expressions
<1>10. CASE tree[next].kids # <<>>
  <2>1. Len(tree[next].kids) = 1
    BY <1>3, <1>10
  <2>2. /\ KidTypes(next) = <<Kid(next, 1).a_type>> /\ Args = <<Arg(1)>>
        /\ Arg(1).type = getType(Kid(next, 1).a_type)
    BY <1>1, <2>1, OneArgIs
  <2>3. Kid(next, 1).a_type = tree[d].a_type /\ tree[d].a_type # "Void"
    BY <1>5, <1>10, <2>2
  <2>4. ArgTypes(inst) = <<type>>
    BY <1>6, <1>7, <2>2, <2>3, OneArg
  <2>5. Verified(inst)
    BY <1>6, <1>7, <2>3, <2>4 DEF Verified, Arithmetic
  <2>6. InstFits(inst)
    BY <1>6, <1>7, <1>8, <1>10, <2>5, NoAccess DEF InstFits
  <2> QED BY <1>1, <1>7, <2>6, MakeStep, NoValueIs DEF Expressions
<1> QED BY <1>9, <1>10

LEMMA MakeConditionStep ==
    ASSUME ValuesInv, MakeCondition
    PROVE  ValuesInv'
<1> DEFINE inst == Inst("br", Args, "void")
<1>1. /\ next \in 1..Len(tree) /\ tree[next].what = "Condition" /\ UNCHANGED <<func, llvm_Value>>
      /\ Make({inst}, NoValue)
  BY DEF MakeCondition, At
<1>2. NodeOK(tree[next]) /\ Legal(next)
  BY <1>1, AllLegal
<1>3. Len(tree[next].kids) = 1 /\ tree[next].op = NoOp
  BY <1>1, <1>2 DEF NodeOK
<1>4. /\ KidTypes(next) = <<Kid(next, 1).a_type>> /\ Args = <<Arg(1)>>
      /\ Arg(1).type = getType(Kid(next, 1).a_type)
  BY <1>1, <1>3, OneArgIs
<1>5. Arg(1).type = "i1"
  <2>1. <<Kid(next, 1).a_type>> = <<"Bool">>
    BY <1>1, <1>2, <1>4 DEF Legal
  <2> QED BY <1>4, <2>1, GetType
<1> HIDE DEF inst
<1>6. inst.at = next /\ inst.op = "br" /\ inst.args = <<Arg(1)>> /\ inst.type = "void"
  BY <1>4, InstIs DEF inst
<1>7. ArgTypes(inst) = <<"i1">>
  BY <1>5, <1>6, OneArg
<1>8. ~Mistyped(inst)
  BY <1>1, <1>3, <1>6, NotMistyped DEF NoOp
<1>9. Verified(inst)
  BY <1>6, <1>7 DEF Verified, Arithmetic
<1>10. InstFits(inst)
  BY <1>6, <1>8, <1>9, NoAccess DEF InstFits, LLVMTypes
<1> QED BY <1>1, <1>6, <1>10, MakeStep, NoValueIs DEF Expressions

\* A declaration makes storage for the variables that it declares.
LEMMA StorageStep ==
    ASSUME ValuesInv, next \in 1..Len(tree), NEW instructions, NEW result \in ValueSet,
           Make(instructions, result), NEW addresses, DOMAIN addresses = Declared(next),
           \A s \in Declared(next) : /\ addresses[s].type = "ptr"
                                     /\ IsStorageOf(addresses[s], s),
           Allocate(addresses)
    PROVE  StorageOK'
<1>1. /\ value' = Append(value, result) /\ next' = next + 1
      /\ UNCHANGED <<tree, operands, open, m_current_function, failed>>
  BY DEF Make, vars
<1>2. /\ next \in Nat /\ next > 0 /\ Len(value) = next - 1 /\ value \in Seq(ValueSet)
      /\ TreeOK /\ DeclarationsOK
  BY DEF ValuesInv, AnalysisOK, Shape, TreeOK
<1>3. /\ Len(value') = next /\ next' # 0 /\ next' > 0
      /\ \A m \in 1..Len(value') : m \in 1..Len(value) \/ m = next
  BY <1>1, <1>2
<1>4. \A m : Declared(m)' = Declared(m)
  BY <1>1 DEF Declared, Parameter
<1>5. /\ DOMAIN llvm_Value' = Declared(next) \cup DOMAIN llvm_Value
      /\ \A s \in DOMAIN llvm_Value' :
            llvm_Value'[s] = IF s \in Declared(next) THEN addresses[s] ELSE llvm_Value[s]
  BY DEF Allocate
<1>6. \A s \in Declared(next) : s \in Symbols({next})
  BY <1>2, DeclaredHere
<1>7. \A m \in 1..Len(value') : Declared(m) \subseteq DOMAIN llvm_Value'
  BY <1>3, <1>5 DEF ValuesInv, StorageOK
<1>8. Globals \subseteq DOMAIN llvm_Value'
  BY <1>2, <1>5 DEF ValuesInv, StorageOK
<1>9. ASSUME NEW s \in DOMAIN llvm_Value'
      PROVE  /\ s \in Globals \cup Symbols(1..Len(value'))
             /\ llvm_Value'[s].type = "ptr" /\ IsStorageOf(llvm_Value'[s], s)
  <2>1. CASE s \in Declared(next)
    <3>1. next \in 1..Len(value')
      BY <1>2, <1>3
    <3> QED BY <1>5, <1>6, <2>1, <3>1 DEF Symbols
  <2>2. CASE s \notin Declared(next)
    <3>1. s \in DOMAIN llvm_Value /\ llvm_Value'[s] = llvm_Value[s]
      BY <1>5, <2>2
    <3>2. /\ s \in Globals \cup Symbols(1..Len(value))
          /\ llvm_Value[s].type = "ptr" /\ IsStorageOf(llvm_Value[s], s)
      BY <3>1 DEF ValuesInv, StorageOK
    <3>3. Symbols(1..Len(value)) \subseteq Symbols(1..Len(value'))
      BY <1>2, <1>3 DEF Symbols
    <3> QED BY <3>1, <3>2, <3>3
  <2> QED BY <2>1, <2>2
<1> QED BY <1>3, <1>4, <1>7, <1>8, <1>9 DEF StorageOK

\* Storage that is made at the next node, and its instruction.
LEMMA AllocaFits ==
    ASSUME ValuesInv, next \in 1..Len(tree), tree[next].what \in {"VarDecl", "FuncDecl"},
           NEW pos, NEW holds
    PROVE  LET place == Storage("variable", next, pos, holds)
           IN  /\ place.type = "ptr"
               /\ \A s : /\ s.decl = next /\ s.pos = pos /\ holds = getType(s.v_type)
                         => IsStorageOf(place, s)
               /\ Inst("alloca", <<place>>, "ptr").at = next
               /\ InstFits(Inst("alloca", <<place>>, "ptr"))
<1> DEFINE place == Storage("variable", next, pos, holds)
           inst == Inst("alloca", <<place>>, "ptr")
<1>1. NodeOK(tree[next]) /\ next \in Nat /\ next # 0
  BY AllLegal DEF ValuesInv, AnalysisOK, Shape, TreeOK
<1>2. tree[next].op = NoOp
  BY <1>1 DEF NodeOK
<1>3. place.type = "ptr"
  BY DEF Storage
<1>4. ASSUME NEW s, s.decl = next, s.pos = pos, holds = getType(s.v_type)
      PROVE  IsStorageOf(place, s)
  BY <1>1, <1>4 DEF Storage, IsStorageOf
<1> HIDE DEF place, inst
<1>5. inst.at = next /\ inst.op = "alloca" /\ inst.args = <<place>> /\ inst.type = "ptr"
  BY InstIs DEF inst
<1>6. ArgTypes(inst) = <<"ptr">>
  BY <1>3, <1>5, OneArg
<1>7. ~Mistyped(inst)
  BY <1>2, <1>5, NotMistyped DEF NoOp
<1>8. Verified(inst)
  BY <1>5, <1>6 DEF Verified, Arithmetic
<1>9. InstFits(inst)
  BY <1>5, <1>7, <1>8, NoAccess DEF InstFits, LLVMTypes
<1> QED BY <1>3, <1>4, <1>5, <1>9 DEF place, inst

LEMMA MakeVarDeclStep ==
    ASSUME ValuesInv, MakeVarDecl
    PROVE  ValuesInv'
<1> DEFINE x == tree[next].symbol
           holds == getType(tree[next].a_type)
           var == Storage("variable", next, 0, holds)
           inst == Inst("alloca", <<var>>, "ptr")
<1>1. /\ next \in 1..Len(tree) /\ tree[next].what = "VarDecl" /\ UNCHANGED func
      /\ Make({inst}, NoValue) /\ Allocate([s \in Declared(next) |-> var])
  BY DEF MakeVarDecl, At
<1>2. x = Variable(tree[next].a_type, next, 0)
  BY <1>1 DEF ValuesInv, DeclarationsOK
<1>3. x.decl = next /\ x.pos = 0 /\ holds = getType(x.v_type)
  BY <1>2 DEF Variable
<1>4. /\ var.type = "ptr" /\ inst.at = next /\ InstFits(inst)
      /\ IsStorageOf(var, x)
  BY <1>1, <1>3, AllocaFits
<1> HIDE DEF inst, var, holds
<1>5. \A s \in Declared(next) : s = x
  BY <1>1 DEF Declared
<1> DEFINE addresses == [s \in Declared(next) |-> var]
<1>8. /\ Allocate(addresses) /\ DOMAIN addresses = Declared(next)
      /\ \A s \in Declared(next) : addresses[s].type = "ptr" /\ IsStorageOf(addresses[s], s)
  BY <1>1, <1>4, <1>5
<1> HIDE DEF addresses
<1>6. StorageOK'
  BY <1>1, <1>8, NoValueIs, StorageStep
<1>7. tree[next].what \notin Expressions
  BY <1>1 DEF Expressions
<1> QED BY <1>1, <1>4, <1>6, <1>7, MakeStep, NoValueIs

LEMMA MakeFuncDeclStep ==
    ASSUME ValuesInv, MakeFuncDecl
    PROVE  ValuesInv'
<1> DEFINE types == tree[next].symbol.param_types
           arg(i) == Argument(getType(types[i]), next, i)
           alloca(i) == Inst("alloca", <<Place(i)>>, "ptr")
           store(i) == Inst("store", <<arg(i), Place(i)>>, "void")
           insts == {alloca(i) : i \in DOMAIN types} \cup {store(i) : i \in DOMAIN types}
           addresses == [s \in Declared(next) |-> Place(s.pos)]
<1>1. /\ next \in 1..Len(tree) /\ tree[next].what = "FuncDecl"
      /\ Make(insts, NoValue) /\ func' = tree[next].symbol
      /\ Allocate(addresses)
  BY DEF MakeFuncDecl, StoreArguments, At
<1>2. NodeOK(tree[next]) /\ next \in Nat \ {0}
  BY <1>1, AllLegal DEF ValuesInv, AnalysisOK, Shape, TreeOK
<1>3. types \in Seq(VType \ {"Void"}) /\ tree[next].op = NoOp
  BY <1>1, <1>2, ParametersAre DEF NodeOK
<1>4. ASSUME NEW i \in DOMAIN types
      PROVE  /\ i \in Nat /\ Parameter(next, i).decl = next /\ Parameter(next, i).pos = i
             /\ Parameter(next, i).v_type = types[i]
             /\ Place(i).type = "ptr" /\ Place(i).origin.holds = getType(types[i])
             /\ IsStorageOf(Place(i), Parameter(next, i))
             /\ alloca(i).at = next /\ InstFits(alloca(i))
             /\ getType(types[i]) # "void"
  <2>1. /\ i \in Nat /\ types[i] \in VType \ {"Void"}
    BY <1>3
  <2>2. /\ Parameter(next, i).decl = next /\ Parameter(next, i).pos = i
        /\ Parameter(next, i).v_type = types[i]
    BY DEF Parameter, Variable
  <2>3. Place(i) = Storage("variable", next, i, getType(types[i]))
    BY DEF Place
  <2>4. /\ Place(i).type = "ptr" /\ IsStorageOf(Place(i), Parameter(next, i))
        /\ alloca(i).at = next /\ InstFits(alloca(i))
    BY <1>1, <2>2, <2>3, AllocaFits
  <2>5. Place(i).origin.holds = getType(types[i])
    BY <2>3 DEF Storage
  <2>6. getType(types[i]) # "void"
    BY <2>1, GetTypeIs
  <2> QED BY <2>1, <2>2, <2>4, <2>5, <2>6
<1>5. ASSUME NEW i \in DOMAIN types
      PROVE  /\ store(i).at = next /\ store(i).op = "store" /\ InstFits(store(i))
             /\ store(i).args[1].origin.pos = i
  <2> DEFINE inst == store(i)
  <2>1. /\ inst.at = next /\ inst.op = "store" /\ inst.args = <<arg(i), Place(i)>>
        /\ inst.type = "void"
    BY InstIs
  <2>2. arg(i).type = getType(types[i]) /\ arg(i).origin.pos = i
    BY DEF Argument
  <2> HIDE DEF inst, arg, types
  <2>3. Meant(inst) = Parameter(next, i) /\ inst.args[1] = arg(i)
    BY <1>1, <2>1, <2>2 DEF Meant
  <2>4. arg(i).type # "void" /\ Place(i).origin.holds = arg(i).type
    BY <1>4, <2>2
  <2>5. inst.at = next /\ InstFits(inst)
    BY <1>1, <1>3, <1>4, <2>3, <2>4, StoreFits DEF NoOp, inst
  <2> QED BY <2>1, <2>2, <2>3, <2>5 DEF inst
<1> HIDE DEF types, alloca, store
<1>6. \A i \in insts : i.at = next /\ InstFits(i)
  BY <1>4, <1>5
<1>7. \A q \in DOMAIN types : Stored(next, q, insts)
  BY <1>5 DEF Stored
<1>8. \A s \in Declared(next) : addresses[s].type = "ptr" /\ IsStorageOf(addresses[s], s)
  <2> SUFFICES ASSUME NEW s \in Declared(next)
               PROVE  Place(s.pos).type = "ptr" /\ IsStorageOf(Place(s.pos), s)
    OBVIOUS
  <2>1. PICK i \in DOMAIN types : s = Parameter(next, i)
    BY <1>1 DEF Declared, types
  <2> QED BY <1>4, <2>1
<1>9. DOMAIN addresses = Declared(next)
  OBVIOUS
<1> HIDE DEF addresses, insts
<1>10. StorageOK'
  BY <1>1, <1>8, <1>9, NoValueIs, StorageStep
<1>11. tree[next].what \notin Expressions
  BY <1>1 DEF Expressions
<1> QED BY <1>1, <1>6, <1>7, <1>10, <1>11, MakeStep, NoValueIs DEF types

-----------------------------------------------------------------------------
(* The theorems.                                                           *)

LEMMA InvInit ==
    ASSUME ValuesInit
    PROVE  ValuesInv
<1>1. /\ Init /\ next = 0 /\ func = NoSymbol /\ value = <<>> /\ llvm_Value = <<>>
      /\ code = {}
  BY DEF ValuesInit
<1>2. AnalysisOK
  BY <1>1, AnalysisInit
<1>3. Len(tree) \in Nat
  BY <1>2 DEF AnalysisOK, Shape, TreeOK
<1>4. DeclarationsOK
  BY <1>1 DEF Init, DeclarationsOK
<1>5. StorageOK /\ ArgumentsOK
  BY <1>1 DEF StorageOK, ArgumentsOK
<1> QED BY <1>1, <1>2, <1>3, <1>4, <1>5 DEF ValuesInv, FuncOK

LEMMA AnalyseStep ==
    ASSUME ValuesInv, Analyse
    PROVE  ValuesInv'
<1>1. next = 0 /\ Next /\ UNCHANGED <<next, func, value, llvm_Value, code>>
  BY DEF Analyse, valueVars
<1>2. AnalysisOK'
  BY <1>1, AnalysisNext DEF ValuesInv
<1>3. Len(tree') \in Nat
  BY <1>2 DEF AnalysisOK, Shape, TreeOK
<1>4. value' \in Seq(ValueSet) /\ Len(value') = 0 /\ code' = {} /\ next' = 0
      /\ func' \in Functions \cup {Main, NoSymbol}
  BY <1>1 DEF ValuesInv, FuncOK
<1>5. DeclarationsOK'
  BY <1>1, DeclarationsNext DEF ValuesInv, AnalysisOK, Shape
<1>6. StorageOK' /\ ArgumentsOK'
  BY <1>1, <1>4 DEF ValuesInv, StorageOK, ArgumentsOK
<1> QED BY <1>2, <1>3, <1>4, <1>5, <1>6 DEF ValuesInv, FuncOK

LEMMA EndOfAnalysisStep ==
    ASSUME ValuesInv, EndOfAnalysis
    PROVE  ValuesInv'
<1>1. /\ next = 0 /\ failed = 0 /\ m_current_function = NoSymbol /\ next' = 1
      /\ llvm_Value' = [s \in Globals |-> Global(s)]
      /\ UNCHANGED <<vars, func, value, code>>
  BY DEF EndOfAnalysis
<1>2. open = <<>> /\ Len(tree) \in Nat
  BY <1>1 DEF ValuesInv, AnalysisOK, Shape, FunctionOK, TreeOK
<1>3. AnalysisOK'
  BY <1>1, AnalysisNext DEF ValuesInv
<1>4. /\ value' \in Seq(ValueSet) /\ Len(value') = 0 /\ code' = {}
      /\ func' \in Functions \cup {Main, NoSymbol}
      /\ failed' = 0 /\ open' = <<>> /\ Len(tree') = Len(tree)
  BY <1>1, <1>2 DEF ValuesInv, FuncOK, vars
<1>5. DeclarationsOK'
  BY <1>1, DeclarationsSame DEF ValuesInv, vars
<1>6. ArgumentsOK'
  BY <1>4 DEF ArgumentsOK
<1>7. StorageOK'
  <2>1. ASSUME NEW s \in Globals
        PROVE  Global(s).type = "ptr" /\ IsStorageOf(Global(s), s)
    <3>1. s.decl = 0
      BY SymbolsAssumption DEF Symbols
    <3> QED BY <3>1 DEF Global, Storage, IsStorageOf
  <2> QED BY <1>1, <1>4, <2>1 DEF StorageOK
<1> QED BY <1>1, <1>2, <1>3, <1>4, <1>5, <1>6, <1>7 DEF ValuesInv, FuncOK

LEMMA InvStep ==
    ASSUME ValuesInv, [ValuesNext]_allVars
    PROVE  ValuesInv'
<1>1. CASE ValuesNext
  BY <1>1, AnalyseStep, EndOfAnalysisStep, SkipTargetStep, MakeIdExprStep,
     MakeLitExprStep, MakeIncrementStep, MakeUnaryExprStep, MakeLogicalStep,
     MakeBinaryExprStep, MakeBitwiseExprStep, MakeAssignExprStep, MakeFuncCallExprStep,
     MakeExprStmtStep, MakeReturnStmtStep, MakeConditionStep, MakeVarDeclStep,
     MakeFuncDeclStep
     DEF ValuesNext
<1>2. CASE UNCHANGED allVars
  <2>1. UNCHANGED vars /\ UNCHANGED <<next, func, value, llvm_Value, code>> /\ UNCHANGED tree
        /\ UNCHANGED failed /\ UNCHANGED open
    BY <1>2 DEF allVars, valueVars, vars
  <2>2. AnalysisOK'
    BY <2>1, AnalysisNext DEF ValuesInv
  <2>3. FuncOK'
    BY <2>1 DEF ValuesInv, FuncOK, IsFunctionOf
  <2>4. \A n : IsTarget(n)' <=> IsTarget(n)
    BY <2>1 DEF IsTarget
  <2>5. \A i \in code : InstFits(i)'
    BY <2>1, OldCode DEF ValuesInv
  <2>6. \A n \in 1..Len(value') :
            tree'[n].what \in Expressions /\ ~IsTarget(n)' =>
                value'[n] = Plain(getType(tree'[n].a_type))
    BY <2>1, <2>4 DEF ValuesInv
  <2>7. /\ next' \in 0..(Len(tree') + 1) /\ value' \in Seq(ValueSet)
        /\ Len(value') = IF next' = 0 THEN 0 ELSE next' - 1
        /\ next' = 0 => code' = {}
        /\ next' > 0 => failed' = 0 /\ open' = <<>>
    BY <2>1 DEF ValuesInv
  <2>8. \A i \in code' : i.at \in 1..Len(value') /\ InstFits(i)'
    BY <2>1, <2>5 DEF ValuesInv
  <2>9. DeclarationsOK'
    BY <2>1, DeclarationsSame DEF ValuesInv
  <2>10. StorageOK' /\ ArgumentsOK'
    <3>1. \A m : Declared(m)' = Declared(m)
      BY <2>1 DEF Declared, Parameter
    <3> QED BY <2>1, <3>1 DEF ValuesInv, StorageOK, ArgumentsOK, Stored
  <2> QED BY <2>2, <2>3, <2>6, <2>7, <2>8, <2>9, <2>10 DEF ValuesInv
<1> QED BY <1>1, <1>2

LEMMA Invariance == ValuesSpec => []ValuesInv
<1>1. ValuesInit => ValuesInv
  BY InvInit
<1>2. ValuesInv /\ [ValuesNext]_allVars => ValuesInv'
  BY InvStep
<1> QED BY <1>1, <1>2, PTL DEF ValuesSpec

LEMMA ShapeTypes ==
    ASSUME Shape, DeclarationsOK
    PROVE  TypeOK
<1>1. ASSUME NEW n \in 1..Len(tree)
      PROVE  /\ tree[n].what \in Kinds
             /\ tree[n].op \in UnaryOps \cup BinaryOps \cup BitwiseOps \cup {NoOp}
             /\ tree[n].a_type \in VType
             /\ \A i \in DOMAIN tree[n].kids :
                   tree[n].kids[i] \in 1..(n - 1) /\ Kid(n, i).what \in Expressions
  <2>1. NodeOK(tree[n]) /\ KidsBefore(n)
    BY DEF Shape, TreeOK
  <2>2. tree[n] \in NodeSet
    BY <2>1 DEF NodeOK
  <2>3. DOMAIN tree[n].kids = 1..Len(tree[n].kids)
    BY <2>2 DEF NodeSet
  <2> QED BY <2>1, <2>2, <2>3 DEF NodeSet, KidsBefore, Kid
<1>2. DOMAIN operands = 1..Len(operands) /\ DOMAIN open = 1..Len(open)
  BY DEF Shape, OperandsOK, OpenOK
<1>3. ASSUME NEW n \in 1..Len(tree)
      PROVE  tree[n].symbol \in Globals \cup Symbols(1..n) \cup Functions \cup {Main, NoSymbol}
  <2>1. TreeOK /\ NodeOK(tree[n])
    BY DEF Shape, TreeOK
  <2>2. CASE tree[n].what = "IdExpr" /\ tree[n].symbol \notin Globals
    <3>1. PICK m \in 1..(n - 1) : tree[n].symbol \in Declared(m)
      BY <2>2 DEF DeclarationsOK, DeclaredBefore
    <3>2. m \in 1..Len(tree) /\ m \in 1..n
      BY <2>1 DEF TreeOK
    <3>3. tree[n].symbol \in Symbols({m})
      BY <2>1, <3>1, <3>2, DeclaredHere
    <3> QED BY <3>2, <3>3 DEF Symbols
  <2>3. CASE tree[n].what = "VarDecl"
    <3>1. tree[n].symbol \in Declared(n)
      BY <2>3 DEF Declared
    <3>2. tree[n].symbol \in Symbols({n}) /\ n \in 1..n
      BY <2>1, <3>1, DeclaredHere DEF TreeOK
    <3> QED BY <3>2 DEF Symbols
  <2>4. CASE tree[n].what \notin {"IdExpr", "VarDecl"}
    BY <2>1, <2>4 DEF NodeOK
  <2> QED BY <2>2, <2>3, <2>4
<1> QED BY <1>1, <1>2, <1>3 DEF TypeOK, Shape, OperandsOK, OpenOK, FunctionOK, Kinds

\* Every variable of the analysis and of the code generation keeps its type: operands
\* and parts are earlier expressions, statements whose body is visited have a condition,
\* and there is a value for every node that code has been made for.
THEOREM ValuesTypes == ValuesSpec => []ValuesTypeOK
<1>1. ValuesInv => ValuesTypeOK
  <2> SUFFICES ASSUME ValuesInv PROVE ValuesTypeOK
    OBVIOUS
  <2>1. TypeOK
    BY ShapeTypes DEF ValuesInv, AnalysisOK
  <2>2. DOMAIN value = 1..Len(value)
    BY DEF ValuesInv
  <2>3. \A n \in 1..Len(value) : value[n] \in ValueSet
    BY DEF ValuesInv
  <2> QED BY <2>1, <2>2, <2>3 DEF ValuesInv, ValuesTypeOK, FuncOK, InstFits, ValueSet,
                              StorageOK
<1> QED BY <1>1, Invariance, PTL

\* TypeVisitor ends with an error at the first node that breaks the rules of types, and
\* at no other, whatever the order in which programs put their nodes.
THEOREM Verdicts == ValuesSpec => []VerdictIsRight
<1>1. ValuesInv => VerdictIsRight
  BY DEF ValuesInv, AnalysisOK
<1> QED BY <1>1, Invariance, PTL

\* The values and instructions that IRCodegenVisitor makes of an accepted program have
\* the types that LLVM wants, except exactly at ++ and --, at bitwise operators on
\* operands that were not compared and at a return that lacks its value.
THEOREM CodeFits == ValuesSpec => []CodeFitsTypes
<1>1. ValuesInv => CodeFitsTypes
  <2> SUFFICES ASSUME ValuesInv PROVE CodeFitsTypes
    OBVIOUS
  <2>1. DOMAIN value = 1..Len(value)
    BY DEF ValuesInv
  <2>2. ASSUME NEW n \in 1..Len(value), tree[n].what \in Expressions, ~IsTarget(n)
        PROVE  value[n].type = getType(tree[n].a_type)
    BY <2>2, PlainIs DEF ValuesInv
  <2>3. \A i \in code : Verified(i) <=> ~Mistyped(i)
    BY DEF ValuesInv, InstFits
  <2> QED BY <2>1, <2>2, <2>3 DEF CodeFitsTypes
<1> QED BY <1>1, Invariance, PTL

\* Every name of an accepted program is loaded from, and every assignment stores to, the
\* storage that the declaration of that variable has made, and every argument is stored in
\* that of its parameter; except exactly ++ and --, which reach no variable's storage, and
\* with a global string's being a constant.
THEOREM AccessesReach == ValuesSpec => []AccessesReachVariables
<1>1. ValuesInv => AccessesReachVariables
  <2> SUFFICES ASSUME ValuesInv PROVE AccessesReachVariables
    OBVIOUS
  <2>1. \A i \in code : Reaches(i)
    BY DEF ValuesInv, InstFits
  <2>2. DOMAIN value = 1..Len(value)
    BY DEF ValuesInv
  <2>3. \A n \in 1..Len(value) : tree[n].what = "FuncDecl" =>
            \A q \in DOMAIN tree[n].symbol.param_types : Stored(n, q, code)
    BY DEF ValuesInv, ArgumentsOK
  <2> QED BY <2>1, <2>2, <2>3 DEF Reaches, Stored, AccessesReachVariables
<1> QED BY <1>1, Invariance, PTL
=============================================================================
