----------------------------- MODULE DataflowSolver ----------------------------
(***************************************************************************)
(* solve (src/src/analysis/dataflow/mod.rs): a fixed point of one data-    *)
(* flow problem over a block CFG.  Blocks wait in a queue ordered by       *)
(* their place in the traversal; a visit recomputes the state that flows   *)
(* into a block and the state that leaves it, widens the latter at loop    *)
(* headers, and queues the blocks downstream when it changed; the cap on   *)
(* visits gives the problem up.  Then a number of sweeps narrow the        *)
(* states.                                                                 *)
(*                                                                         *)
(* The lattice and the transfer functions are the analysis's: operators    *)
(* given as constants.  A forward problem keeps input in before and        *)
(* output in after, a backward problem the other way round.                *)
(***************************************************************************)
EXTENDS Naturals, Sequences

CONSTANTS
    Problems,             \* records, see ProblemAssumption
    Domain,               \* the states of the lattice
    Bottom,
    JoinOf(_),            \* the join of a set of states
    Leq(_, _),
    Widen(_, _),
    TransferBlock(_, _, _),   \* problem, block, state
    TransferEdge(_, _, _),    \* problem, edge, state
    MaxVisitsPerBlock,    \* SolverConfig
    WidenAfter,           \* SolverConfig; NoWidening for None
    NoWidening,
    NarrowPasses          \* SolverConfig

\* order is the reverse postorder of a forward problem and the postorder of a
\* backward one; every block is in it.
ASSUME ProblemAssumption ==
    \A p \in Problems :
        /\ p.direction \in {"Forward", "Backward"}
        /\ p.entry \in p.blocks /\ p.exits \subseteq p.blocks /\ p.headers \subseteq p.blocks
        /\ p.edges \subseteq p.blocks \X p.blocks
        /\ p.boundary \in Domain
        /\ p.order \in Seq(p.blocks)
        /\ \A b \in p.blocks : \E i \in DOMAIN p.order : p.order[i] = b

ASSUME ConfigAssumption ==
    /\ MaxVisitsPerBlock \in Nat /\ NarrowPasses \in Nat
    /\ WidenAfter \in Nat \cup {NoWidening}

VARIABLES
    problem,
    phase,         \* "solve", "narrow", "done", "limit"
    queued,        \* the blocks in the queue: queued[b] keeps each in it once
    input, output, visits,
    sweep, at      \* the sweep and the position in the order it has come to

vars == <<problem, phase, queued, input, output, visits, sweep, at>>

-------------------------------------------------------------------------------
(* Direction *)

Into(p, e) == IF p.direction = "Forward" THEN e[2] ELSE e[1]
OutOf(p, e) == IF p.direction = "Forward" THEN e[1] ELSE e[2]

AtBoundary(p, b) == IF p.direction = "Forward" THEN b = p.entry ELSE b \in p.exits


\* Mutant: a change is announced against the direction of the problem.
Upstream(p, b) == {OutOf(p, e) : e \in {x \in p.edges : Into(p, x) = b}}

Downstream(p, b) == {Into(p, e) : e \in {x \in p.edges : OutOf(p, x) = b}}

-------------------------------------------------------------------------------
(* forward_input and backward_output *)

Boundary(p, b) == IF AtBoundary(p, b) THEN {p.boundary} ELSE {}


\* Mutant: a block is not taken for a predecessor of its own.
ArrivingFromOthers(p, b, out) ==
    Boundary(p, b) \cup {TransferEdge(p, e, out[OutOf(p, e)]) :
                          e \in {x \in p.edges : Into(p, x) = b /\ OutOf(p, x) # b}}

Arriving(p, b, out) ==
    Boundary(p, b)
        \cup {TransferEdge(p, e, out[OutOf(p, e)]) : e \in {x \in p.edges : Into(p, x) = b}}


\* Mutant: the boundary state enters at every block.
BoundaryEverywhere(p, b, out) == JoinOf({Bottom, p.boundary} \cup Arriving(p, b, out))

Confluence(p, b, out) == JoinOf({Bottom} \cup Arriving(p, b, out))

-------------------------------------------------------------------------------
(* The queue *)

Position(p, b) == CHOOSE i \in DOMAIN p.order : p.order[i] = b

Before(p, a, b) == Position(p, a) < Position(p, b)

\* The binary heap yields the queued block that comes first in the order.
IsNext(b) == b \in queued /\ \A c \in queued \ {b} : Before(problem, b, c)


\* Mutant: every block starts from the boundary state.
InitialAtBoundary(p, b) == p.boundary

Initial(p, b) == Bottom

Init ==
    /\ problem \in Problems
    /\ phase = "solve"
    /\ queued = problem.blocks
    /\ input = [b \in problem.blocks |-> Initial(problem, b)]
    /\ output = [b \in problem.blocks |-> Initial(problem, b)]
    /\ visits = [b \in problem.blocks |-> 0]
    /\ sweep = 1 /\ at = 1

-------------------------------------------------------------------------------
(* The work list *)


AtCap(b) == visits[b] >= MaxVisitsPerBlock

\* Err(IterationLimitExceeded)
GiveUp(b) ==
    /\ phase = "solve" /\ IsNext(b)
    /\ AtCap(b)
    /\ phase' = "limit"
    /\ queued' = queued \ {b}
    /\ UNCHANGED <<problem, input, output, visits, sweep, at>>

ShouldWiden(p, b, count) == b \in p.headers /\ WidenAfter # NoWidening /\ count > WidenAfter


\* Mutant: the operands of the widening are swapped.
UpdateSwapped(p, b, count, current, candidate) ==
    IF ShouldWiden(p, b, count) THEN Widen(candidate, current) ELSE candidate

UpdateOutput(p, b, count, current, candidate) ==
    IF ShouldWiden(p, b, count) THEN Widen(current, candidate) ELSE candidate


Changed(b, result) == result # output[b]

Counted(b) == [visits EXCEPT ![b] = @ + 1]

VisitBlock(b) ==
    /\ phase = "solve" /\ IsNext(b)
    /\ ~AtCap(b)
    /\ LET state == Confluence(problem, b, output)
           result == UpdateOutput(problem, b, visits[b] + 1, output[b],
                                  TransferBlock(problem, b, state))
       IN /\ visits' = Counted(b)
          /\ input' = [input EXCEPT ![b] = state]
          /\ output' = [output EXCEPT ![b] = result]
          /\ queued' = (queued \ {b})
                          \cup IF Changed(b, result) THEN Downstream(problem, b) ELSE {}
    /\ UNCHANGED <<problem, phase, sweep, at>>

EndOfQueue ==
    /\ phase = "solve" /\ queued = {}
    /\ phase' = IF NarrowPasses = 0 THEN "done" ELSE "narrow"
    /\ UNCHANGED <<problem, queued, input, output, visits, sweep, at>>

-------------------------------------------------------------------------------
(* Narrowing *)

Narrower(candidate, current) == IF Leq(candidate, current) THEN candidate ELSE current

\* narrow_block
NarrowBlock ==
    /\ phase = "narrow" /\ at <= Len(problem.order)
    /\ LET b == problem.order[at]
           state == Confluence(problem, b, output)
       IN /\ input' = [input EXCEPT ![b] = Narrower(state, @)]
          /\ output' = [output EXCEPT ![b] = Narrower(TransferBlock(problem, b, state), @)]
    /\ at' = at + 1
    /\ UNCHANGED <<problem, phase, queued, visits, sweep>>

EndOfSweep ==
    /\ phase = "narrow" /\ at > Len(problem.order)
    /\ IF sweep < NarrowPasses
       THEN sweep' = sweep + 1 /\ at' = 1 /\ UNCHANGED phase
       ELSE phase' = "done" /\ UNCHANGED <<sweep, at>>
    /\ UNCHANGED <<problem, queued, input, output, visits>>

Next ==
    \/ \E b \in problem.blocks : GiveUp(b) \/ VisitBlock(b)
    \/ EndOfQueue
    \/ NarrowBlock
    \/ EndOfSweep

Spec == Init /\ [][Next]_vars

-------------------------------------------------------------------------------
(* Properties *)

(* Every variable holds a value of its type. *)
TypeOK ==
    /\ problem \in Problems
    /\ phase \in {"solve", "narrow", "done", "limit"}
    /\ queued \subseteq problem.blocks
    /\ input \in [problem.blocks -> Domain]
    /\ output \in [problem.blocks -> Domain]
    /\ visits \in [problem.blocks -> 0..MaxVisitsPerBlock]
    /\ sweep \in Nat \ {0} /\ at \in Nat \ {0}

(* A block out of the queue is settled: the state it holds is the one that *)
(* flows in now, and its transfer is under what leaves.  A change that     *)
(* did not queue its successors would break this.                          *)
QueueCoversChanges ==
    phase = "solve" =>
        \A b \in problem.blocks \ queued :
            /\ input[b] = Confluence(problem, b, output)
            /\ Leq(TransferBlock(problem, b, input[b]), output[b])

(* A solution over-approximates the program along every edge and through   *)
(* every block, after widening and after narrowing as well.                *)
SolutionIsSound ==
    phase = "done" =>
        \A b \in problem.blocks :
            /\ AtBoundary(problem, b) => Leq(problem.boundary, input[b])
            /\ \A e \in problem.edges :
                  Into(problem, e) = b =>
                      Leq(TransferEdge(problem, e, output[OutOf(problem, e)]), input[b])
            /\ Leq(TransferBlock(problem, b, input[b]), output[b])

(* Where nothing widened, the solution is the least one: below every       *)
(* assignment that every arriving state, transferred, stays under.         *)
SolutionIsLeast ==
    phase = "done" /\ (problem.headers = {} \/ WidenAfter = NoWidening) =>
        \A other \in [problem.blocks -> Domain] :
            (\A b \in problem.blocks : \A state \in {Bottom} \cup Arriving(problem, b, other) :
                Leq(TransferBlock(problem, b, state), other[b]))
            => \A b \in problem.blocks : Leq(output[b], other[b])

\* Until a block widens it has let out no more than the transfer of its input.
Climbing(b) ==
    /\ Leq(input[b], Confluence(problem, b, output))
    /\ ~ShouldWiden(problem, b, visits[b]) =>
          Leq(output[b], TransferBlock(problem, b, input[b]))

\* What arrives at a block is under its input, and its transfer is covered.
Covered(b) ==
    /\ Leq(Confluence(problem, b, output), input[b])
    /\ Leq(TransferBlock(problem, b, input[b]), output[b])

(* The inductive invariant: while the queue is worked off every state is   *)
(* under what arrives, and settled out of the queue; from then on every    *)
(* state is above what arrives, whatever a sweep has lowered so far.       *)
SolverInv ==
    /\ phase = "solve" => \A b \in problem.blocks : Climbing(b)
    /\ QueueCoversChanges
    /\ phase \in {"narrow", "done"} => \A b \in problem.blocks : Covered(b)

(* States climb while the queue is worked off and only descend afterwards. *)
AscendThenDescend ==
    [][\A b \in problem.blocks :
          IF phase = "solve" THEN Leq(output[b], output'[b]) /\ Leq(input[b], input'[b])
          ELSE Leq(output'[b], output[b]) /\ Leq(input'[b], input[b])]_vars

(* "Loop-header widening guarantees convergence over the infinite-height   *)
(* interval domain" (src/src/analysis/dataflow/intervals.rs:6): the cap is *)
(* never what ends the iteration.                                          *)
NeverGivesUp == phase # "limit"

\* A cycle without a loop header: nothing widens on it.
HasUnwidenedCycle(p) ==
    \E cycle \in SUBSET (p.blocks \ p.headers) :
        /\ cycle # {}
        /\ \A b \in cycle : \E e \in p.edges : OutOf(p, e) = b /\ Into(p, e) \in cycle

(* Where every cycle has a header widening ends every climb, however late  *)
(* it begins: the cap is met on a cycle without one or not at all.         *)
GivesUpOnlyUnwidened == phase = "limit" => HasUnwidenedCycle(problem)

===============================================================================
