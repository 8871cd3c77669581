----------------------------- MODULE CodegenFlow -----------------------------
(***************************************************************************)
(* What the graph built by CodegenIR must mean: control flow as the J--    *)
(* program has it, read off the trail of its statements, against control   *)
(* flow as the basic blocks have it.                                       *)
(***************************************************************************)
EXTENDS CodegenIR, SequencesExt

\* The program: is the point after the trail reachable?  `saved` holds, for
\* every open if, while and if-else, whether control also arrives at its end
\* by another way: past the body, or out of the then branch.
StartOfBody == [live |-> TRUE, saved |-> <<>>]
Flow(s, event) ==
    CASE event \in {"return", "break"} -> [s EXCEPT !.live = FALSE]
      [] event \in {"if", "ifelse", "while"} ->
            [s EXCEPT !.saved = Append(@, s.live)]
      [] event = "else" ->
            [live |-> Last(s.saved), saved |-> Append(Front(s.saved), s.live)]
      [] event = "end" ->
            [live |-> s.live \/ Last(s.saved), saved |-> Front(s.saved)]
      [] event \in AllConstructs
                  \ {"return", "break", "if", "ifelse", "while"} -> s
FlowOf(events) ==
    LET at[n \in Nat] == IF n = 0 THEN StartOfBody
                         ELSE Flow(at[n - 1], events[n])
    IN  at[Len(events)]
Live == FlowOf(trail).live

\* The blocks: control leaves a block by its first terminator.
FirstTerminator(s) == SelectInSeq(s, IsTerminator)
Executed(s) == IF FirstTerminator(s) = 0 THEN s
               ELSE SubSeq(s, 1, FirstTerminator(s))
Targets(s) == IF FirstTerminator(s) = 0 THEN {}
              ELSE Range(s[FirstTerminator(s)].blocks)
Predecessors(b) == {a \in inserted : b \in Targets(code[a])}
ReachableIn(blocks) ==
    LET within[n \in Nat] ==
            IF n = 0 THEN {1}
            ELSE LET near == within[n - 1]
                 IN  near \cup UNION {Targets(blocks[b]) : b \in near}
    IN  within[Len(blocks)]
Reachable == ReachableIn(code)

\* The insertion point is reachable in the graph exactly when the program
\* point is reachable in the source: no handler connects, cuts off or forgets
\* a path, whatever return, break, if and while were nested before it.
LiveAgrees ==
    mode = "stmt" =>
        (Live <=> /\ insertBlock \in Reachable
                  /\ FirstTerminator(code[insertBlock]) = 0)

\* A function with a result whose end is reachable is warned about ("Not all
\* control flows return") and traps there; it never returns garbage.
MissingReturnIsReported ==
    [][(mode = "stmt" /\ mode' # "stmt" /\ frames' = <<>> /\ kind = "value"
        /\ Live)
       => /\ warnings' > warnings
          /\ Last(code'[insertBlock]) = Unreachable]_vars

\* The clean-up erases an instruction only where control no longer comes: the
\* part of each block that executes stays as it was generated.
CleanupKeepsLiveCode ==
    [][(mode = "stmt" /\ frames' = <<>>) =>
          \A b \in inserted :
             IsPrefix(Executed(code[b]), code'[b])]_vars

\* && and || (the short-circuiting README.md:20 promises): the value of the
\* left operand enters the phi from a block that branches to it, also when
\* the left operand is made of several blocks itself.
SkippedOperandReachesPhi ==
    \A b \in inserted \cap Reachable : \A i \in DOMAIN code[b] :
        code[b][i].op = "phi" => code[b][i].blocks[1] \in Predecessors(b)

-----------------------------------------------------------------------------
(* What the repository says and the code does not do.                      *)

\* LLVM's rules for a well-formed block, which the calls of verifyFunction at
\* codegen_ir.cpp:671 and 692 check: the terminator is the last instruction.
VerifierAccepts ==
    mode = "idle" =>
        \A b \in inserted : FirstTerminator(code[b]) = Len(code[b])

\* README.md:20, "Logical AND (&&) and OR (/||/) are short-circuiting": the
\* phi takes each operand from the block that computed it.
PhiNamesItsPredecessors ==
    \A b \in inserted \cap Reachable : \A i \in DOMAIN code[b] :
        code[b][i].op = "phi" => Range(code[b][i].blocks) = Predecessors(b)
=============================================================================
