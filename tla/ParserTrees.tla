----------------------------- MODULE ParserTrees -----------------------------
(***************************************************************************)
(* What the trees that Parser makes must be: every token in its place, and *)
(* the operands and bodies that precedence and nesting call for.           *)
(***************************************************************************)
EXTENDS Parser, Integers, FiniteSets

\* Operators from the tightest to the loosest (README.md:313-359).
Precedence ==
    <<[rule |-> "multiplicativeexpression", ops |-> {"*", "/", "%"}],
      [rule |-> "additiveexpression", ops |-> {"+", "-"}],
      [rule |-> "shiftexpression", ops |-> {"<<", ">>"}],
      [rule |-> "relationalexpression", ops |-> {"<", ">", "<=", ">="}],
      [rule |-> "equalityexpression", ops |-> {"==", "!="}],
      [rule |-> "bitwiseandexpression", ops |-> {"&"}],
      [rule |-> "exclusiveorexpression", ops |-> {"^"}],
      [rule |-> "bitwiseorexpression", ops |-> {"|"}],
      [rule |-> "conditionalandexpression", ops |-> {"&&"}],
      [rule |-> "conditionalorexpression", ops |-> {"||"}]>>

\* Tokens that no node keeps.
Punctuation == {"(", ")", "{", "}", ",", ";", "else"}

\* Nodes that keep no token, but in their children.
Silent == {"null", "ASTNode", "BlockStmt", "ExprStmt", "Params", "VarDecl",
           "GVarDecl", "ParamDecl", "FuncDecl", "MFuncDecl"}
Keepers(t) == {q \in DOMAIN t : t[q].kind \notin Silent}
Kept(t) == {t[q].at : q \in Keepers(t)}

Operators == {"Binary", "Assign", "Prefix", "Postfix"}
\* Those that come after their first operand.
Infix == {"Binary", "Assign", "Postfix"}

\* The node at q is an ancestor, the parent, of that at r.
Above(q, r) == Len(q) < Len(r) /\ \A i \in 1..Len(q) : q[i] = r[i]
Parent(q, r) == Above(q, r) /\ Len(r) = Len(q) + 1

\* The child of the node at q, by its number, below which or at which r is.
Side(q, r) == r[Len(q) + 1]

\* A node comes before those below it, or after those of its first operand, and
\* those below an earlier child come before those below a later one.
InOrder(t) ==
    /\ \A q, r \in Keepers(t) :
           Above(q, r) => IF t[q].kind \in Infix /\ Side(q, r) = 1
                          THEN t[r].at < t[q].at ELSE t[q].at < t[r].at
    /\ \A q \in DOMAIN t : \A r, s \in Keepers(t) :
           Above(q, r) /\ Above(q, s) /\ Side(q, r) < Side(q, s)
               => t[r].at < t[s].at

\* The tree has the tokens of w, each that means something, in their order.
Complete(w, t) ==
    /\ {p \in DOMAIN w : w[p] \notin Punctuation} \subseteq Kept(t)
    /\ Kept(t) \subseteq DOMAIN w
    /\ InOrder(t)

\* How many parentheses are open before a token.
Depth(w, p) == Cardinality({i \in 1..p - 1 : w[i] = "("})
               - Cardinality({i \in 1..p - 1 : w[i] = ")"})

\* How loosely an operator binds.
Looseness(w, node) ==
    IF node.kind = "Binary"
    THEN CHOOSE k \in DOMAIN Precedence : w[node.at] \in Precedence[k].ops
    ELSE IF node.kind = "Assign" THEN Len(Precedence) + 1
    ELSE IF node.kind = "Prefix" THEN 0
    ELSE -1

\* The operator below binds tighter than the one above, or as tight on the side
\* to which it associates, or it is in parentheses of its own.
Binds(w, above, below, k) ==
    \/ below.kind \in {"LitExpr", "IdExpr", "FuncCallExpr", "null"}
    \/ Depth(w, below.at) > Depth(w, above.at)
    \/ Looseness(w, below) < Looseness(w, above)
    \/ /\ Looseness(w, below) = Looseness(w, above)
       /\ k = (IF above.kind = "Assign" THEN 2 ELSE 1)

\* A statement that an else after it could belong to: an if, or one that ends
\* with such a statement.
EndsOpen(t, q) ==
    \E r \in DOMAIN t :
        /\ r = q \/ Above(q, r)
        /\ t[r].kind = "IfStmt"
        /\ \A a \in DOMAIN t :
               (a = q \/ Above(q, a)) /\ Above(a, r) =>
                   \/ t[a].kind = "IfElseStmt" /\ Side(a, r) = 3
                   \/ t[a].kind = "WhileStmt" /\ Side(a, r) = 2

Structured(w, t) ==
    \A q, r \in DOMAIN t : Parent(q, r) =>
        /\ t[q].kind \in Operators => Binds(w, t[q], t[r], Side(q, r))
        /\ t[q].kind = "IfElseStmt" /\ Side(q, r) = 2 => ~EndsOpen(t, r)

-----------------------------------------------------------------------------
(* Properties.                                                             *)

\* The parser stays within the file, and has read all of it when it succeeds;
\* its calls are nested no deeper than the file is long.
TypeOK ==
    /\ context \in Contexts
    /\ SubSeq(file, 1, Len(context.before)) = context.before
    /\ Part \in Seq(context.tokens) /\ Len(Part) <= context.max
    /\ result.next \in 0..Len(Whole) + 1
    /\ Root(result.node).kind \in {"ASTNode", "error", "null"}
    /\ Accepted => result.next = Len(Whole) + 1

\* The tree holds every token of the file that means something, in order and
\* once, whichever of the rules have moved nodes out of each other.
NothingIsLost == Accepted => Complete(Whole, result.node)

\* Operators have the operands that README.md's precedence gives them, and an
\* else belongs to the nearest if.
StructureIsRight == Accepted => Structured(Whole, result.node)

\* README.md:365: an assignment has a right side, which the visitors rely on.
NoMissingOperand ==
    Accepted => \A q \in DOMAIN result.node : result.node[q].kind # "null"
=============================================================================
