------------------------------ MODULE FunctionFlow ------------------------------
(***************************************************************************)
(* What the library computes of the control flow of one function, in the  *)
(* order its callers do: the dominators of the view or of its reverse      *)
(* (DominatorTree) and, on the former, the loop forest (LoopForest), whose *)
(* back edges are those that enter a dominator of their source.            *)
(***************************************************************************)
EXTENDS DominatorTree

VARIABLES pendingLoops, drafts, loopPhase, loops, parent, depth, loop_of_node

Forest == INSTANCE LoopForest WITH function <- cfg, pending <- pendingLoops, phase <- loopPhase

forestVars == <<pendingLoops, drafts, loopPhase, loops, parent, depth, loop_of_node>>

FlowInit == Init /\ Forest!Init

Dominators == Next /\ UNCHANGED forestVars

\* loop_forest(cpg, function) begins where dominator_tree(cpg, function) ends.
Loops == phase = "done" /\ ~Backward /\ Forest!Next /\ UNCHANGED vars

FlowNext == Dominators \/ Loops

FlowSpec == FlowInit /\ [][FlowNext]_<<vars, forestVars>>

\* One thread runs the passes to their end, and nothing suspends it.
FairFlowSpec == FlowSpec /\ WF_<<vars, forestVars>>(Dominators)

-------------------------------------------------------------------------------
(* Properties *)

\* Up the tree of immediate dominators from n.
Dominating(n) ==
    LET above[k \in 0..MaxNode] ==
            IF k = 0 THEN {n} ELSE LET known == above[k - 1] IN known \cup {idom[m] : m \in known}
    IN above[MaxNode]

\* The forest and the tree agree: the header of a natural loop is an ancestor,
\* in the tree the other algorithm computed, of every node of the body, and the
\* one node of it that is entered from outside.
LoopsFollowDominators ==
    Forest!Done => \A i \in DOMAIN loops :
        LET l == loops[i]
        IN ~l.irreducible =>
              (\A n \in l.body : l.header \in Dominating(n)) /\ l.entries = {l.header}

\* Bodies are disjoint or nested, so that the smallest enclosing body that
\* build_forest takes is the one parent a loop can have; a region is reported
\* irreducible exactly where control flow stays cyclic without its back edges:
\* elsewhere the headers meet every cycle; and headers dominate their loops.
LoopsAreExact ==
    Forest!NestingIsExact /\ Forest!IrreducibilityIsExact /\ LoopsFollowDominators

\* The passes and the walks come to an end on every function, and never at the
\* cap on passes.
DominatorsComplete == <>(phase = "done")
===============================================================================
