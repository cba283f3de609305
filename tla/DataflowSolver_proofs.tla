------------------------- MODULE DataflowSolver_proofs -------------------------
(***************************************************************************)
(* The solver's invariant for every lattice, every monotone problem and    *)
(* every configuration, and what follows from it: solutions are sound,     *)
(* with widening and narrowing included, and states first climb, then      *)
(* descend.  Last, the arithmetic interval analysis runs on the solver:    *)
(* for machine integers of every width, an operation on intervals is       *)
(* answerable for every integer the operands stand for, whether or not the *)
(* result is a machine integer.                                            *)
(***************************************************************************)
EXTENDS DataflowLattice, IntervalArithmetic, TLAPS

States(p) == [p.blocks -> Domain]

-------------------------------------------------------------------------------
(* What flows into a block *)

(* Edges join blocks of the problem. *)
LEMMA EndsAreBlocks ==
    ASSUME NEW p \in Problems, NEW e \in p.edges
    PROVE  Into(p, e) \in p.blocks /\ OutOf(p, e) \in p.blocks
  BY ProblemAssumption DEF Into, OutOf

(* Only states of the lattice arrive at a block. *)
LEMMA ArrivingIsTyped ==
    ASSUME NEW p \in Problems, NEW b \in p.blocks, NEW out \in States(p)
    PROVE  {Bottom} \cup Arriving(p, b, out) \in SUBSET Domain
  <1>1. Bottom \in Domain /\ p.boundary \in Domain
    BY LatticeAssumption, ProblemAssumption
  <1>2. \A e \in p.edges : out[OutOf(p, e)] \in Domain
    BY EndsAreBlocks DEF States
  <1>3. \A e \in p.edges : TransferEdge(p, e, out[OutOf(p, e)]) \in Domain
    BY <1>2, EdgeAssumption
  <1> QED
    BY <1>1, <1>3 DEF Arriving, Boundary

(* forward_input and backward_output: a least upper bound.                 *)
LEMMA ConfluenceIsJoin ==
    ASSUME NEW p \in Problems, NEW b \in p.blocks, NEW out \in States(p)
    PROVE  /\ Confluence(p, b, out) \in Domain
           /\ \A x \in Arriving(p, b, out) : Leq(x, Confluence(p, b, out))
           /\ \A u \in Domain :
                 (\A x \in {Bottom} \cup Arriving(p, b, out) : Leq(x, u))
                    => Leq(Confluence(p, b, out), u)
  <1>1. {Bottom} \cup Arriving(p, b, out) # {}
    OBVIOUS
  <1> QED
    BY <1>1, ArrivingIsTyped, JoinAssumption DEF Confluence

(* Raising what leaves the blocks raises what arrives at each.             *)
LEMMA ConfluenceIsMonotone ==
    ASSUME NEW p \in Problems, NEW b \in p.blocks,
           NEW low \in States(p), NEW high \in States(p),
           \A c \in p.blocks : Leq(low[c], high[c])
    PROVE  Leq(Confluence(p, b, low), Confluence(p, b, high))
  <1> DEFINE top == Confluence(p, b, high)
  <1>1. top \in Domain /\ \A x \in Arriving(p, b, high) : Leq(x, top)
    BY ConfluenceIsJoin
  <1>2. ASSUME NEW x \in {Bottom} \cup Arriving(p, b, low)
        PROVE  Leq(x, top)
    <2>1. CASE x = Bottom
      BY <1>1, <2>1, LatticeAssumption
    <2>2. CASE x \in Boundary(p, b)
      BY <1>1, <2>2 DEF Arriving
    <2>3. ASSUME NEW e \in p.edges, Into(p, e) = b, x = TransferEdge(p, e, low[OutOf(p, e)])
          PROVE  Leq(x, top)
      <3> DEFINE y == TransferEdge(p, e, high[OutOf(p, e)])
      <3>1. OutOf(p, e) \in p.blocks
        BY EndsAreBlocks
      <3>2. low[OutOf(p, e)] \in Domain /\ high[OutOf(p, e)] \in Domain
        BY <3>1 DEF States
      <3>3. x \in Domain /\ y \in Domain /\ Leq(x, y)
        BY <2>3, <3>1, <3>2, EdgeAssumption
      <3>4. y \in Arriving(p, b, high)
        BY <2>3 DEF Arriving
      <3> QED
        BY <1>1, <3>3, <3>4, LatticeAssumption
    <2> QED
      BY <2>1, <2>2, <2>3 DEF Arriving
  <1> QED
    BY <1>1, <1>2, ConfluenceIsJoin

(* What arrives at a block depends on the blocks upstream only.            *)
LEMMA ConfluenceIsLocal ==
    ASSUME NEW p \in Problems, NEW b \in p.blocks, NEW one, NEW other,
           \A e \in p.edges : Into(p, e) = b => one[OutOf(p, e)] = other[OutOf(p, e)]
    PROVE  Confluence(p, b, one) = Confluence(p, b, other)
  <1>1. Arriving(p, b, one) = Arriving(p, b, other)
    BY DEF Arriving
  <1> QED
    BY <1>1 DEF Confluence

-------------------------------------------------------------------------------
(* The work list *)

(* Every variable keeps its type, whatever the lattice is. *)
THEOREM TypesHold == Spec => []TypeOK
  <1>1. Init => TypeOK
    <2> SUFFICES ASSUME Init PROVE TypeOK
      OBVIOUS
    <2> QED
      BY LatticeAssumption, ConfigAssumption DEF Init, TypeOK, Initial
  <1>2. TypeOK /\ [Next]_vars => TypeOK'
    <2> SUFFICES ASSUME TypeOK, [Next]_vars PROVE TypeOK'
      OBVIOUS
    <2> USE DEF TypeOK
    <2>1. ASSUME NEW b \in problem.blocks, GiveUp(b) PROVE TypeOK'
      BY <2>1 DEF GiveUp
    <2>2. ASSUME NEW b \in problem.blocks, VisitBlock(b) PROVE TypeOK'
      <3> DEFINE state == Confluence(problem, b, output)
                 candidate == TransferBlock(problem, b, state)
                 result == UpdateOutput(problem, b, visits[b] + 1, output[b], candidate)
      <3>1. state \in Domain
        BY ConfluenceIsJoin DEF States
      <3>2. candidate \in Domain
        BY <3>1, BlockAssumption
      <3>3. result \in Domain
        BY <3>2, WidenAssumption DEF UpdateOutput
      <3>4. input' = [input EXCEPT ![b] = state] /\ output' = [output EXCEPT ![b] = result]
        BY <2>2 DEF VisitBlock
      <3>5. input' \in [problem.blocks -> Domain] /\ output' \in [problem.blocks -> Domain]
        BY <3>1, <3>3, <3>4
      <3>6. visits[b] < MaxVisitsPerBlock /\ visits' = [visits EXCEPT ![b] = @ + 1]
        BY <2>2, ConfigAssumption DEF VisitBlock, AtCap, Counted
      <3>7. visits' \in [problem.blocks -> 0..MaxVisitsPerBlock]
        BY <3>6, ConfigAssumption
      <3>8. Downstream(problem, b) \subseteq problem.blocks
        BY EndsAreBlocks DEF Downstream
      <3>9. queued' \subseteq problem.blocks /\ UNCHANGED <<problem, phase, sweep, at>>
        BY <2>2, <3>8 DEF VisitBlock
      <3> QED
        BY <3>5, <3>7, <3>9
    <2>3. CASE EndOfQueue
      BY <2>3 DEF EndOfQueue
    <2>4. CASE NarrowBlock
      <3> DEFINE b == problem.order[at]
                 state == Confluence(problem, b, output)
      <3>1. b \in problem.blocks
        BY <2>4, ProblemAssumption DEF NarrowBlock
      <3>2. state \in Domain
        BY <3>1, ConfluenceIsJoin DEF States
      <3>3. TransferBlock(problem, b, state) \in Domain
        BY <3>1, <3>2, BlockAssumption
      <3>4. /\ input' = [input EXCEPT ![b] = Narrower(state, @)]
            /\ output' = [output EXCEPT ![b] = Narrower(TransferBlock(problem, b, state), @)]
        BY <2>4 DEF NarrowBlock
      <3>5. input' \in [problem.blocks -> Domain] /\ output' \in [problem.blocks -> Domain]
        BY <3>1, <3>2, <3>3, <3>4 DEF Narrower
      <3> QED
        BY <2>4, <3>5 DEF NarrowBlock
    <2>5. CASE EndOfSweep
      BY <2>5 DEF EndOfSweep
    <2>6. CASE UNCHANGED vars
      BY <2>6 DEF vars
    <2> QED
      BY <2>1, <2>2, <2>3, <2>4, <2>5, <2>6 DEF Next
  <1> QED
    BY <1>1, <1>2, PTL DEF Spec

(* What a visit does: the block takes what arrives and lets out no less    *)
(* than before, nor than the transfer of it; blocks that are not queued    *)
(* afterwards see no change.                                               *)
LEMMA VisitFacts ==
    ASSUME TypeOK, SolverInv, NEW b \in problem.blocks, VisitBlock(b)
    PROVE  LET state == Confluence(problem, b, output)
               candidate == TransferBlock(problem, b, state)
           IN /\ state \in Domain /\ candidate \in Domain
              /\ input' = [input EXCEPT ![b] = state]
              /\ output' = [output EXCEPT ![b] = output'[b]] /\ output'[b] \in Domain
              /\ Leq(input[b], state)
              /\ Leq(output[b], output'[b]) /\ Leq(candidate, output'[b])
              /\ ~ShouldWiden(problem, b, visits'[b]) => output'[b] = candidate
              /\ \A c \in problem.blocks :
                    c \notin queued' =>
                       /\ c # b => c \notin queued
                       /\ Confluence(problem, c, output') = Confluence(problem, c, output)
  <1> DEFINE state == Confluence(problem, b, output)
             candidate == TransferBlock(problem, b, state)
             result == UpdateOutput(problem, b, visits[b] + 1, output[b], candidate)
  <1> USE DEF TypeOK
  <1>1. state \in Domain /\ candidate \in Domain
    <2>1. state \in Domain
      BY ConfluenceIsJoin DEF States
    <2> QED
      BY <2>1, BlockAssumption
  <1>2. /\ phase = "solve" /\ UNCHANGED problem
        /\ input' = [input EXCEPT ![b] = state]
        /\ output' = [output EXCEPT ![b] = result]
        /\ visits' = [visits EXCEPT ![b] = @ + 1]
        /\ queued' = (queued \ {b}) \cup IF result # output[b] THEN Downstream(problem, b) ELSE {}
    BY DEF VisitBlock, Changed, Counted
  <1>3. output'[b] = result /\ result \in Domain /\ visits'[b] = visits[b] + 1
        /\ visits[b] \in Nat
    BY <1>1, <1>2, WidenAssumption, ConfigAssumption DEF UpdateOutput
  <1>4. Climbing(b) /\ input[b] \in Domain /\ output[b] \in Domain
    BY <1>2 DEF SolverInv
  <1>5. Leq(input[b], state)
    BY <1>4 DEF Climbing
  <1>6. Leq(output[b], result) /\ Leq(candidate, result)
    <2>1. CASE ShouldWiden(problem, b, visits[b] + 1)
      BY <1>1, <1>4, <2>1, WidenAssumption DEF UpdateOutput
    <2>2. CASE ~ShouldWiden(problem, b, visits[b] + 1)
      <3>1. ~ShouldWiden(problem, b, visits[b])
        BY <1>3, <2>2, ConfigAssumption DEF ShouldWiden
      <3>2. Leq(output[b], TransferBlock(problem, b, input[b]))
        BY <1>4, <3>1 DEF Climbing
      <3>3. /\ TransferBlock(problem, b, input[b]) \in Domain
            /\ Leq(TransferBlock(problem, b, input[b]), candidate)
        BY <1>1, <1>4, <1>5, BlockAssumption
      <3>4. Leq(output[b], candidate) /\ Leq(candidate, candidate)
        BY <1>1, <1>4, <3>2, <3>3, LatticeAssumption
      <3> QED
        BY <2>2, <3>4 DEF UpdateOutput
    <2> QED
      BY <2>1, <2>2
  <1>7. ~ShouldWiden(problem, b, visits'[b]) => result = candidate
    BY <1>3 DEF UpdateOutput
  <1>8. ASSUME NEW c \in problem.blocks, c \notin queued'
        PROVE  /\ c # b => c \notin queued
               /\ Confluence(problem, c, output') = Confluence(problem, c, output)
    <2>1. c # b => c \notin queued
      BY <1>2, <1>8
    <2>2. ASSUME NEW e \in problem.edges, Into(problem, e) = c
          PROVE  output'[OutOf(problem, e)] = output[OutOf(problem, e)]
      <3>1. OutOf(problem, e) \in problem.blocks
        BY EndsAreBlocks
      <3>2. OutOf(problem, e) = b => result = output[b]
        BY <1>2, <1>8, <2>2 DEF Downstream
      <3> QED
        BY <1>2, <3>1, <3>2
    <2> QED
      BY <2>1, <2>2, ConfluenceIsLocal
  <1>9. output' = [output EXCEPT ![b] = output'[b]]
    BY <1>2, <1>3
  <1> QED
    BY <1>1, <1>2, <1>3, <1>5, <1>6, <1>7, <1>8, <1>9

(* A visit keeps the invariant. *)
LEMMA VisitsKeepSolverInv ==
    ASSUME TypeOK, TypeOK', SolverInv, NEW b \in problem.blocks, VisitBlock(b)
    PROVE  SolverInv'
  <1> DEFINE state == Confluence(problem, b, output)
             candidate == TransferBlock(problem, b, state)
  <1> USE DEF TypeOK
  <1>1. /\ state \in Domain /\ candidate \in Domain
        /\ input' = [input EXCEPT ![b] = state]
        /\ output' = [output EXCEPT ![b] = output'[b]] /\ output'[b] \in Domain
        /\ Leq(output[b], output'[b]) /\ Leq(candidate, output'[b])
        /\ ~ShouldWiden(problem, b, visits'[b]) => output'[b] = candidate
        /\ \A c \in problem.blocks :
              c \notin queued' =>
                 /\ c # b => c \notin queued
                 /\ Confluence(problem, c, output') = Confluence(problem, c, output)
    BY VisitFacts
  <1>2. UNCHANGED <<problem, phase>> /\ phase = "solve"
        /\ \A c \in problem.blocks : c # b => visits'[c] = visits[c]
    BY DEF VisitBlock, Counted
  <1>3. output \in States(problem) /\ output' \in States(problem)
    BY <1>2 DEF States
  <1>4. \A c \in problem.blocks : Leq(output[c], output'[c])
    BY <1>1, LatticeAssumption
  <1>5. ASSUME NEW c \in problem.blocks PROVE Climbing(c)'
    <2> DEFINE later == Confluence(problem, c, output')
    <2>1. /\ Leq(Confluence(problem, c, output), later)
          /\ Confluence(problem, c, output) \in Domain /\ later \in Domain
      BY <1>3, <1>4, ConfluenceIsMonotone, ConfluenceIsJoin
    <2>2. CASE c = b
      <3>1. input'[c] = state /\ Leq(input'[c], later)
        BY <1>1, <2>1, <2>2
      <3>2. ~ShouldWiden(problem, c, visits'[c]) =>
               Leq(output'[c], TransferBlock(problem, c, input'[c]))
        BY <1>1, <2>2, <3>1, LatticeAssumption
      <3> QED
        BY <1>2, <3>1, <3>2 DEF Climbing
    <2>3. CASE c # b
      <3>1. input'[c] = input[c] /\ output'[c] = output[c] /\ visits'[c] = visits[c]
        BY <1>1, <1>2, <2>3
      <3>2. Climbing(c) /\ input[c] \in Domain
        BY <1>2 DEF SolverInv
      <3>3. Leq(input[c], later)
        BY <2>1, <3>2, LatticeAssumption DEF Climbing
      <3> QED
        BY <1>2, <3>1, <3>2, <3>3 DEF Climbing
    <2> QED
      BY <2>2, <2>3
  <1>6. QueueCoversChanges'
    <2> SUFFICES ASSUME NEW c \in problem.blocks, c \notin queued'
                 PROVE  /\ input'[c] = Confluence(problem, c, output')
                        /\ Leq(TransferBlock(problem, c, input'[c]), output'[c])
      BY <1>2 DEF QueueCoversChanges
    <2>1. Confluence(problem, c, output') = Confluence(problem, c, output)
      BY <1>1
    <2>2. CASE c = b
      BY <1>1, <2>1, <2>2
    <2>3. CASE c # b
      <3>1. c \notin queued
        BY <1>1, <2>3
      <3>2. /\ input[c] = Confluence(problem, c, output)
            /\ Leq(TransferBlock(problem, c, input[c]), output[c])
        BY <1>2, <3>1 DEF SolverInv, QueueCoversChanges
      <3> QED
        BY <1>1, <2>1, <2>3, <3>2
    <2> QED
      BY <2>2, <2>3
  <1> QED
    BY <1>2, <1>5, <1>6 DEF SolverInv

(* An empty queue leaves no block unsettled: narrowing starts from a       *)
(* solution.                                                               *)
LEMMA QueueEndsCovered ==
    ASSUME TypeOK, SolverInv, EndOfQueue
    PROVE  SolverInv'
  <1>1. /\ phase = "solve" /\ queued = {} /\ phase' \in {"narrow", "done"}
        /\ UNCHANGED <<problem, input, output>>
    BY DEF EndOfQueue
  <1>2. ASSUME NEW b \in problem.blocks PROVE Covered(b)'
    <2>1. /\ input[b] = Confluence(problem, b, output)
          /\ Leq(TransferBlock(problem, b, input[b]), output[b])
      BY <1>1 DEF SolverInv, QueueCoversChanges
    <2>2. input[b] \in Domain
      BY DEF TypeOK
    <2> QED
      BY <1>1, <2>1, <2>2, LatticeAssumption DEF Covered
  <1> QED
    BY <1>1, <1>2 DEF SolverInv, QueueCoversChanges

-------------------------------------------------------------------------------
(* Narrowing *)

(* The comparisons of narrow_block always succeed: the block takes what    *)
(* arrives and lets out its transfer, and neither is above what was there. *)
LEMMA NarrowFacts ==
    ASSUME TypeOK, SolverInv, NarrowBlock
    PROVE  LET b == problem.order[at]
               state == Confluence(problem, b, output)
               candidate == TransferBlock(problem, b, state)
           IN /\ b \in problem.blocks
              /\ state \in Domain /\ candidate \in Domain
              /\ Leq(state, input[b]) /\ Leq(candidate, output[b])
              /\ input' = [input EXCEPT ![b] = state]
              /\ output' = [output EXCEPT ![b] = candidate]
  <1> DEFINE b == problem.order[at]
             state == Confluence(problem, b, output)
             candidate == TransferBlock(problem, b, state)
  <1> USE DEF TypeOK
  <1>1. b \in problem.blocks /\ phase = "narrow"
    BY ProblemAssumption DEF NarrowBlock
  <1>2. state \in Domain /\ candidate \in Domain
    <2>1. state \in Domain
      BY <1>1, ConfluenceIsJoin DEF States
    <2> QED
      BY <1>1, <2>1, BlockAssumption
  <1>3. Covered(b) /\ input[b] \in Domain /\ output[b] \in Domain
    BY <1>1 DEF SolverInv
  <1>4. Leq(state, input[b])
    BY <1>3 DEF Covered
  <1>5. Leq(candidate, output[b])
    <2>1. /\ TransferBlock(problem, b, input[b]) \in Domain
          /\ Leq(candidate, TransferBlock(problem, b, input[b]))
      BY <1>1, <1>2, <1>3, <1>4, BlockAssumption
    <2>2. Leq(TransferBlock(problem, b, input[b]), output[b])
      BY <1>3 DEF Covered
    <2> QED
      BY <1>2, <1>3, <2>1, <2>2, LatticeAssumption
  <1>6. /\ input' = [input EXCEPT ![b] = Narrower(state, @)]
        /\ output' = [output EXCEPT ![b] = Narrower(candidate, @)]
    BY DEF NarrowBlock
  <1>7. input' = [input EXCEPT ![b] = state] /\ output' = [output EXCEPT ![b] = candidate]
    BY <1>4, <1>5, <1>6 DEF Narrower
  <1> QED
    BY <1>1, <1>2, <1>4, <1>5, <1>7

(* A sweep keeps the invariant: what it lowers it lowers everywhere        *)
(* downstream at most to what still arrives.                               *)
LEMMA SweepsKeepSolverInv ==
    ASSUME TypeOK, TypeOK', SolverInv, NarrowBlock
    PROVE  SolverInv'
  <1> DEFINE b == problem.order[at]
             state == Confluence(problem, b, output)
             candidate == TransferBlock(problem, b, state)
  <1> USE DEF TypeOK
  <1>1. /\ b \in problem.blocks /\ state \in Domain /\ candidate \in Domain
        /\ Leq(candidate, output[b])
        /\ input' = [input EXCEPT ![b] = state]
        /\ output' = [output EXCEPT ![b] = candidate]
    BY NarrowFacts
  <1>2. UNCHANGED <<problem, phase>> /\ phase = "narrow"
    BY DEF NarrowBlock
  <1>3. output \in States(problem) /\ output' \in States(problem)
    BY <1>2 DEF States
  <1>4. \A c \in problem.blocks : Leq(output'[c], output[c])
    BY <1>1, LatticeAssumption
  <1>5. ASSUME NEW c \in problem.blocks PROVE Covered(c)'
    <2> DEFINE later == Confluence(problem, c, output')
               earlier == Confluence(problem, c, output)
    <2>1. Leq(later, earlier) /\ later \in Domain /\ earlier \in Domain
      BY <1>3, <1>4, ConfluenceIsMonotone, ConfluenceIsJoin
    <2>2. CASE c = b
      <3>1. input'[c] = earlier /\ output'[c] = TransferBlock(problem, c, input'[c])
        BY <1>1, <2>2
      <3> QED
        BY <1>1, <1>2, <2>1, <2>2, <3>1, LatticeAssumption DEF Covered
    <2>3. CASE c # b
      <3>1. input'[c] = input[c] /\ output'[c] = output[c]
        BY <1>1, <2>3
      <3>2. Covered(c) /\ input[c] \in Domain
        BY <1>2 DEF SolverInv
      <3>3. Leq(later, input[c])
        BY <2>1, <3>2, LatticeAssumption DEF Covered
      <3> QED
        BY <1>2, <3>1, <3>2, <3>3 DEF Covered
    <2> QED
      BY <2>2, <2>3
  <1> QED
    BY <1>2, <1>5 DEF SolverInv, QueueCoversChanges

-------------------------------------------------------------------------------
(* Theorems *)

(* The solver's invariant holds of every problem: no order of the queue,   *)
(* no threshold for widening and no number of sweeps is assumed.           *)
THEOREM SolverInvHolds == Spec => []SolverInv
  <1>1. Init => SolverInv
    <2> SUFFICES ASSUME Init PROVE SolverInv
      OBVIOUS
    <2>1. phase = "solve" /\ queued = problem.blocks /\ problem \in Problems
          /\ input = [b \in problem.blocks |-> Bottom]
          /\ output = [b \in problem.blocks |-> Bottom]
      BY DEF Init, Initial
    <2>2. output \in States(problem)
      BY <2>1, LatticeAssumption DEF States
    <2>3. ASSUME NEW b \in problem.blocks PROVE Climbing(b)
      <3>1. Confluence(problem, b, output) \in Domain
        BY <2>1, <2>2, ConfluenceIsJoin
      <3>2. TransferBlock(problem, b, Bottom) \in Domain
        BY <2>1, LatticeAssumption, BlockAssumption
      <3> QED
        BY <2>1, <3>1, <3>2, LatticeAssumption DEF Climbing
    <2> QED
      BY <2>1, <2>3 DEF SolverInv, QueueCoversChanges
  <1>2. TypeOK /\ TypeOK' /\ SolverInv /\ [Next]_vars => SolverInv'
    <2> SUFFICES ASSUME TypeOK, TypeOK', SolverInv, [Next]_vars PROVE SolverInv'
      OBVIOUS
    <2>1. ASSUME NEW b \in problem.blocks, GiveUp(b) PROVE SolverInv'
      BY <2>1 DEF GiveUp, SolverInv, QueueCoversChanges
    <2>2. ASSUME NEW b \in problem.blocks, VisitBlock(b) PROVE SolverInv'
      BY <2>2, VisitsKeepSolverInv
    <2>3. CASE EndOfQueue
      BY <2>3, QueueEndsCovered
    <2>4. CASE NarrowBlock
      BY <2>4, SweepsKeepSolverInv
    <2>5. CASE EndOfSweep
      BY <2>5 DEF EndOfSweep, SolverInv, QueueCoversChanges, Covered
    <2>6. CASE UNCHANGED vars
      BY <2>6 DEF vars, SolverInv, QueueCoversChanges, Covered, Climbing
    <2> QED
      BY <2>1, <2>2, <2>3, <2>4, <2>5, <2>6 DEF Next
  <1> QED
    BY <1>1, <1>2, TypesHold, PTL DEF Spec

(* No change is lost: a block that is not queued agrees with its           *)
(* neighbours.                                                             *)
THEOREM NoChangeIsLost == Spec => []QueueCoversChanges
  <1>1. SolverInv => QueueCoversChanges
    BY DEF SolverInv
  <1> QED
    BY <1>1, SolverInvHolds, PTL

(* Whatever solve returns over-approximates the program along every edge   *)
(* and through every block, however it was widened and narrowed.           *)
THEOREM SolutionsAreSound == Spec => []SolutionIsSound
  <1>1. TypeOK /\ SolverInv => SolutionIsSound
    <2> SUFFICES ASSUME TypeOK, SolverInv, phase = "done", NEW b \in problem.blocks
                 PROVE  /\ AtBoundary(problem, b) => Leq(problem.boundary, input[b])
                        /\ \A e \in problem.edges : Into(problem, e) = b =>
                              Leq(TransferEdge(problem, e, output[OutOf(problem, e)]), input[b])
                        /\ Leq(TransferBlock(problem, b, input[b]), output[b])
      BY DEF SolutionIsSound
    <2> USE DEF TypeOK
    <2>1. Covered(b) /\ input[b] \in Domain
      BY DEF SolverInv
    <2>2. output \in States(problem)
      BY DEF States
    <2>3. /\ Confluence(problem, b, output) \in Domain
          /\ \A x \in Arriving(problem, b, output) : Leq(x, Confluence(problem, b, output))
      BY <2>2, ConfluenceIsJoin
    <2>4. Arriving(problem, b, output) \subseteq Domain
      BY <2>2, ArrivingIsTyped
    <2>5. \A x \in Arriving(problem, b, output) : Leq(x, input[b])
      BY <2>1, <2>3, <2>4, LatticeAssumption DEF Covered
    <2>6. /\ AtBoundary(problem, b) => problem.boundary \in Arriving(problem, b, output)
          /\ \A e \in problem.edges : Into(problem, e) = b =>
                TransferEdge(problem, e, output[OutOf(problem, e)]) \in Arriving(problem, b, output)
      BY DEF Arriving, Boundary
    <2> QED
      BY <2>1, <2>5, <2>6 DEF Covered
  <1> QED
    BY <1>1, TypesHold, SolverInvHolds, PTL

(* No visit lowers a state and no sweep raises one.                        *)
THEOREM StatesAscendThenDescend == Spec => AscendThenDescend
  <1> DEFINE Travel ==
        \A b \in problem.blocks :
           IF phase = "solve" THEN Leq(output[b], output'[b]) /\ Leq(input[b], input'[b])
           ELSE Leq(output'[b], output[b]) /\ Leq(input'[b], input[b])
  <1>1. TypeOK /\ SolverInv /\ [Next]_vars => [Travel]_vars
    <2> SUFFICES ASSUME TypeOK, SolverInv, Next PROVE Travel
      OBVIOUS
    <2> USE DEF TypeOK
    <2>1. ASSUME NEW b \in problem.blocks, GiveUp(b) PROVE Travel
      BY <2>1, LatticeAssumption DEF GiveUp
    <2>2. ASSUME NEW b \in problem.blocks, VisitBlock(b) PROVE Travel
      <3> DEFINE state == Confluence(problem, b, output)
      <3>1. /\ input' = [input EXCEPT ![b] = state]
            /\ output' = [output EXCEPT ![b] = output'[b]]
            /\ Leq(input[b], state) /\ Leq(output[b], output'[b])
        BY <2>2, VisitFacts
      <3>2. phase = "solve"
        BY <2>2 DEF VisitBlock
      <3> QED
        BY <3>1, <3>2, LatticeAssumption
    <2>3. CASE EndOfQueue
      BY <2>3, LatticeAssumption DEF EndOfQueue
    <2>4. CASE NarrowBlock
      <3> DEFINE b == problem.order[at]
                 state == Confluence(problem, b, output)
                 candidate == TransferBlock(problem, b, state)
      <3>1. /\ b \in problem.blocks
            /\ Leq(state, input[b]) /\ Leq(candidate, output[b])
            /\ input' = [input EXCEPT ![b] = state]
            /\ output' = [output EXCEPT ![b] = candidate]
        BY <2>4, NarrowFacts
      <3>2. phase = "narrow"
        BY <2>4 DEF NarrowBlock
      <3> QED
        BY <3>1, <3>2, LatticeAssumption
    <2>5. CASE EndOfSweep
      BY <2>5, LatticeAssumption DEF EndOfSweep
    <2> QED
      BY <2>1, <2>2, <2>3, <2>4, <2>5 DEF Next
  <1> QED
    BY <1>1, TypesHold, SolverInvHolds, PTL DEF Spec, AscendThenDescend

-------------------------------------------------------------------------------
(* Least solutions *)

NothingWidens == problem.headers = {} \/ WidenAfter = NoWidening

(* An assignment that a further visit of any block would leave as it is,   *)
(* or lower.                                                               *)
Solves(p, other) ==
    \A b \in p.blocks : Leq(TransferBlock(p, b, Confluence(p, b, other)), other[b])

UnderSolutions(p, out) ==
    \A other \in States(p) :
        Solves(p, other) => \A b \in p.blocks : Leq(out[b], other[b])

(* The inductive invariant: not only the last state but every state on the *)
(* way is under all solutions, or a sweep could not be trusted to stop     *)
(* above the least.                                                        *)
LeastInv == NothingWidens => UnderSolutions(problem, output)

(* What a block takes in from states under a solution, transferred, is     *)
(* still under it.                                                         *)
LEMMA CandidatesStayUnder ==
    ASSUME NEW p \in Problems, NEW b \in p.blocks, NEW out \in States(p),
           NEW other \in States(p), Solves(p, other),
           \A c \in p.blocks : Leq(out[c], other[c])
    PROVE  LET candidate == TransferBlock(p, b, Confluence(p, b, out))
           IN candidate \in Domain /\ Leq(candidate, other[b])
  <1> DEFINE low == Confluence(p, b, out)
             high == Confluence(p, b, other)
  <1>1. low \in Domain /\ high \in Domain
    BY ConfluenceIsJoin
  <1>2. Leq(low, high)
    BY ConfluenceIsMonotone
  <1>3. /\ TransferBlock(p, b, low) \in Domain /\ TransferBlock(p, b, high) \in Domain
        /\ Leq(TransferBlock(p, b, low), TransferBlock(p, b, high))
    BY <1>1, <1>2, BlockAssumption
  <1>4. Leq(TransferBlock(p, b, high), other[b]) /\ other[b] \in Domain
    BY DEF Solves, States
  <1> QED
    BY <1>3, <1>4, LatticeAssumption

(* Where nothing widens no state ever exceeds any solution.                *)
THEOREM LeastInvHolds == Spec => []LeastInv
  <1>1. Init => LeastInv
    BY LatticeAssumption DEF Init, Initial, LeastInv, UnderSolutions, States
  <1>2. TypeOK /\ LeastInv /\ [Next]_vars => LeastInv'
    <2> SUFFICES ASSUME TypeOK, LeastInv, [Next]_vars PROVE LeastInv'
      OBVIOUS
    <2>0. problem' = problem
      BY DEF Next, vars, GiveUp, VisitBlock, EndOfQueue, NarrowBlock, EndOfSweep
    <2> SUFFICES ASSUME NothingWidens, UnderSolutions(problem, output)
                 PROVE  UnderSolutions(problem, output')
      BY <2>0 DEF LeastInv, NothingWidens
    <2>4. problem \in Problems /\ output \in States(problem)
      BY DEF TypeOK, States
    <2>1. ASSUME UNCHANGED <<problem, output>>
          PROVE  UnderSolutions(problem, output')
      BY <2>1
    <2>2. ASSUME NEW b \in problem.blocks, VisitBlock(b)
          PROVE  UnderSolutions(problem, output')
      <3> DEFINE candidate == TransferBlock(problem, b, Confluence(problem, b, output))
      <3>1. output' = [output EXCEPT ![b] = candidate]
        BY <2>2 DEF NothingWidens, VisitBlock, UpdateOutput, ShouldWiden
      <3>2. SUFFICES ASSUME NEW other \in States(problem), Solves(problem, other),
                            NEW c \in problem.blocks
                     PROVE  Leq(output'[c], other[c])
        BY <3>1 DEF UnderSolutions
      <3>3. \A d \in problem.blocks : Leq(output[d], other[d])
        BY <3>2 DEF UnderSolutions
      <3>4. Leq(candidate, other[b])
        BY <2>4, <3>2, <3>3, CandidatesStayUnder
      <3> QED
        BY <2>4, <3>1, <3>3, <3>4 DEF States
    <2>3. CASE NarrowBlock
      <3> DEFINE b == problem.order[at]
                 candidate == TransferBlock(problem, b, Confluence(problem, b, output))
      <3>1. /\ b \in problem.blocks
            /\ output' = [output EXCEPT ![b] = Narrower(candidate, @)]
        BY <2>4, <2>3, ProblemAssumption DEF NarrowBlock, TypeOK
      <3>2. SUFFICES ASSUME NEW other \in States(problem), Solves(problem, other),
                            NEW c \in problem.blocks
                     PROVE  Leq(output'[c], other[c])
        BY <3>1 DEF UnderSolutions
      <3>3. \A d \in problem.blocks : Leq(output[d], other[d])
        BY <3>2 DEF UnderSolutions
      <3>4. Leq(candidate, other[b])
        BY <2>4, <3>1, <3>2, <3>3, CandidatesStayUnder
      <3> HIDE DEF b, candidate
      <3>5. output'[c] = IF c = b THEN Narrower(candidate, output[b]) ELSE output[c]
        BY <2>4, <3>1 DEF States
      <3> QED
        BY <3>1, <3>3, <3>4, <3>5 DEF Narrower
    <2> QED
      BY <2>1, <2>2, <2>3 DEF Next, vars, GiveUp, EndOfQueue, EndOfSweep
  <1> QED
    BY <1>1, <1>2, TypesHold, PTL DEF Spec

(* A transfer that takes joins apart makes a solution of everything that   *)
(* covers each arriving state by itself.                                   *)
LEMMA CoversAreSolutions ==
    ASSUME Distributive, NEW p \in Problems, NEW other \in States(p),
           \A b \in p.blocks : \A state \in {Bottom} \cup Arriving(p, b, other) :
               Leq(TransferBlock(p, b, state), other[b])
    PROVE  Solves(p, other)
  <1> SUFFICES ASSUME NEW b \in p.blocks
               PROVE  Leq(TransferBlock(p, b, Confluence(p, b, other)), other[b])
    BY DEF Solves
  <1>1. {Bottom} \cup Arriving(p, b, other) \in (SUBSET Domain) \ {{}} /\ other[b] \in Domain
    BY ArrivingIsTyped DEF States
  <1> QED
    BY <1>1 DEF Distributive, Confluence

(* Gen and kill problems, solved without widening, are solved exactly: the *)
(* result is under everything that covers each arriving state, on its own  *)
(* or joined, so it says nothing that no path justifies.                   *)
THEOREM SolutionsAreLeast ==
    ASSUME Distributive
    PROVE  Spec => []SolutionIsLeast
  <1>1. TypeOK /\ LeastInv => SolutionIsLeast
    <2> SUFFICES ASSUME TypeOK, LeastInv, NothingWidens,
                        NEW other \in [problem.blocks -> Domain],
                        \A b \in problem.blocks :
                            \A state \in {Bottom} \cup Arriving(problem, b, other) :
                                Leq(TransferBlock(problem, b, state), other[b])
                 PROVE  \A b \in problem.blocks : Leq(output[b], other[b])
      BY DEF SolutionIsLeast, NothingWidens
    <2>1. Solves(problem, other)
      BY CoversAreSolutions DEF TypeOK, States
    <2> QED
      BY <2>1 DEF LeastInv, UnderSolutions, States
  <1> QED
    BY <1>1, TypesHold, LeastInvHolds, PTL

(* BlockBits: states are sets of facts, joined by union, and a block keeps *)
(* what it does not kill and adds what it generates.                       *)
BitTransfers ==
    /\ \A S \in SUBSET Domain : JoinOf(S) = UNION S
    /\ \A x, y \in Domain : Leq(x, y) <=> x \subseteq y
    /\ \A p \in Problems : \A b \in p.blocks :
          \E gen, kill : \A x \in Domain : TransferBlock(p, b, x) = (x \ kill) \cup gen

(* So the hypothesis above is met by every gen and kill problem.           *)
THEOREM GenKillTakesJoinsApart == BitTransfers => Distributive
  <1> SUFFICES ASSUME BitTransfers, NEW p \in Problems, NEW b \in p.blocks,
                      NEW S \in (SUBSET Domain) \ {{}}, NEW u \in Domain,
                      \A x \in S : Leq(TransferBlock(p, b, x), u)
               PROVE  Leq(TransferBlock(p, b, JoinOf(S)), u)
    BY DEF Distributive
  <1>1. JoinOf(S) = UNION S /\ JoinOf(S) \in Domain
    BY JoinAssumption DEF BitTransfers
  <1>2. PICK gen, kill : \A x \in Domain : TransferBlock(p, b, x) = (x \ kill) \cup gen
    BY DEF BitTransfers
  <1>3. ASSUME NEW x \in S
        PROVE  (x \ kill) \cup gen \subseteq u
    <2>1. x \in Domain /\ TransferBlock(p, b, x) \in Domain
      BY BlockAssumption
    <2>2. TransferBlock(p, b, x) \subseteq u
      BY <2>1 DEF BitTransfers
    <2> QED
      BY <1>2, <2>1, <2>2
  <1>4. ((UNION S) \ kill) \cup gen \subseteq u
    <2> SUFFICES ASSUME NEW f \in ((UNION S) \ kill) \cup gen PROVE f \in u
      OBVIOUS
    <2>1. CASE f \in gen
      <3>1. PICK x : x \in S
        OBVIOUS
      <3> QED
        BY <1>3, <2>1, <3>1
    <2>2. CASE f \in (UNION S) \ kill
      <3>1. PICK x \in S : f \in x
        BY <2>2
      <3> QED
        BY <1>3, <2>2, <3>1
    <2> QED
      BY <2>1, <2>2
  <1>5. TransferBlock(p, b, JoinOf(S)) = ((UNION S) \ kill) \cup gen
    BY <1>1, <1>2
  <1> QED
    BY <1>1, <1>4, <1>5, BlockAssumption DEF BitTransfers

-------------------------------------------------------------------------------
(* Intervals *)

\* Interval operations end in intervals: no operation leaves an empty one.
LEMMA ShiftIsInterval ==
    ASSUME NEW i \in Intervals, NEW k \in Machine
    PROVE  Shift(i, k) \in Intervals
  BY MaxIntAssumption
  DEF Intervals, Ranges, Bounds, Machine, NegInf, PosInf, MinInt, Shift, OrTop, Top, Span,
      IsInterval, AddFinite

\* Negation exchanges the endpoints and leaves their order.
LEMMA NegateIsInterval ==
    ASSUME NEW i \in Intervals
    PROVE  Negate(i) \in Intervals
  BY MaxIntAssumption
  DEF Intervals, Ranges, Bounds, Machine, NegInf, PosInf, MinInt, Negate, OrTop, Top, Span,
      IsInterval, NegateBound

\* Shifting by a machine integer: where an endpoint overflows the interval is
\* open on that side, and everything when neither side is left.
THEOREM ShiftIsSound ==
    ASSUME NEW i \in Intervals, NEW k \in Machine, NEW v \in Int, Includes(i, v)
    PROVE  Includes(Shift(i, k), v + k)
  BY MaxIntAssumption
  DEF Intervals, Ranges, Bounds, Machine, NegInf, PosInf, MinInt, Shift, OrTop, Top, Span,
      IsInterval, AddFinite, Includes

\* The negative of the least machine integer is none: the interval is open.
THEOREM NegateIsSound ==
    ASSUME NEW i \in Intervals, NEW v \in Int, Includes(i, v)
    PROVE  Includes(Negate(i), -v)
  BY MaxIntAssumption
  DEF Intervals, Ranges, Bounds, Machine, NegInf, PosInf, MinInt, Negate, OrTop, Top, Span,
      IsInterval, NegateBound, Includes

\* A singleton stands for one integer.
LEMMA SingletonIsExact ==
    ASSUME NEW i \in Intervals, IsSingleton(i), NEW v \in Int, Includes(i, v)
    PROVE  v = i.lo /\ i.lo \in Machine
  BY MaxIntAssumption
  DEF Intervals, Ranges, Bounds, Machine, NegInf, PosInf, MinInt, IsSingleton, Includes

\* Everything is in the interval for what is not followed.
LEMMA TopContainsAll == ASSUME NEW v \in Int PROVE Includes(Top, v)
  BY DEF Top, Includes, Span

\* A sum lies in the sum of the intervals, whichever operand is known.
THEOREM AdditionIsSound ==
    ASSUME NEW i \in Intervals, NEW j \in Intervals, NEW v \in Int, NEW w \in Int,
           Includes(i, v), Includes(j, w)
    PROVE  Includes(AddIntervals(i, j), v + w)
  <1>1. CASE IsSingleton(j)
    <2>1. w = j.lo /\ j.lo \in Machine
      BY <1>1, SingletonIsExact
    <2>2. Includes(Shift(i, j.lo), v + j.lo)
      BY <2>1, ShiftIsSound
    <2> QED
      BY <1>1, <2>1, <2>2 DEF AddIntervals
  <1>2. CASE ~IsSingleton(j) /\ IsSingleton(i)
    <2>1. v = i.lo /\ i.lo \in Machine
      BY <1>2, SingletonIsExact
    <2>2. Includes(Shift(j, i.lo), w + i.lo)
      BY <2>1, ShiftIsSound
    <2>3. w + i.lo = v + w
      BY <2>1
    <2> QED
      BY <1>2, <2>2, <2>3 DEF AddIntervals
  <1>3. CASE ~IsSingleton(j) /\ ~IsSingleton(i)
    BY <1>3, TopContainsAll DEF AddIntervals
  <1> QED
    BY <1>1, <1>2, <1>3

\* A difference lies in the difference of the intervals, unless the subtrahend
\* is known to be the least machine integer, whose saturated negative is one
\* short of its negative.
THEOREM SubtractionIsSound ==
    ASSUME NEW i \in Intervals, NEW j \in Intervals, NEW v \in Int, NEW w \in Int,
           Includes(i, v), Includes(j, w), j # Singleton(MinInt)
    PROVE  Includes(SubtractIntervals(i, j), v - w)
  <1>1. CASE IsSingleton(j)
    <2>1. w = j.lo /\ j.lo \in Machine
      BY <1>1, SingletonIsExact
    <2>2. j.lo # MinInt
      <3>1. j = Span(j.lo, j.hi)
        BY DEF Intervals, Ranges, Span
      <3> QED
        BY <1>1, <3>1 DEF IsSingleton, Singleton
    <2>3. SaturatingNeg(j.lo) = -w /\ -w \in Machine
      BY <2>1, <2>2, MaxIntAssumption DEF SaturatingNeg, Machine, MinInt
    <2>4. Includes(Shift(i, -w), v + (-w))
      BY <2>3, ShiftIsSound
    <2>5. v + (-w) = v - w
      OBVIOUS
    <2> QED
      BY <1>1, <2>3, <2>4, <2>5 DEF SubtractIntervals
  <1>2. CASE ~IsSingleton(j)
    BY <1>2, TopContainsAll DEF SubtractIntervals
  <1> QED
    BY <1>1, <1>2

\* The hull is the least interval above both.
THEOREM HullIsLeast ==
    ASSUME NEW i \in Intervals, NEW j \in Intervals
    PROVE  /\ Hull(i, j) \in Intervals /\ IsSubsetOf(i, Hull(i, j)) /\ IsSubsetOf(j, Hull(i, j))
           /\ \A k \in Intervals : IsSubsetOf(i, k) /\ IsSubsetOf(j, k) => IsSubsetOf(Hull(i, j), k)
  BY MaxIntAssumption
  DEF Intervals, Ranges, Bounds, NegInf, PosInf, MinInt, Hull, Span, Lower, Higher, IsInterval,
      IsSubsetOf

\* Widening covers both operands, and an endpoint it moves is open: an
\* ascending chain of widened intervals moves at most twice.
THEOREM WideningCovers ==
    ASSUME NEW i \in Intervals, NEW j \in Intervals
    PROVE  /\ Widened(i, j) \in Intervals
           /\ IsSubsetOf(i, Widened(i, j)) /\ IsSubsetOf(j, Widened(i, j))
           /\ Widened(i, j).lo \in {i.lo, NegInf} /\ Widened(i, j).hi \in {i.hi, PosInf}
  BY MaxIntAssumption
  DEF Intervals, Ranges, Bounds, NegInf, PosInf, MinInt, Widened, Span, IsInterval, IsSubsetOf

\* Narrowing never enlarges an interval and loses no integer of both.
THEOREM NarrowingDescends ==
    ASSUME NEW i \in Intervals, NEW j \in Intervals
    PROVE  /\ Narrowed(i, j) \in Intervals /\ IsSubsetOf(Narrowed(i, j), i)
           /\ \A v \in Int : Includes(i, v) /\ Includes(j, v) => Includes(Narrowed(i, j), v)
  BY MaxIntAssumption
  DEF Intervals, Ranges, Bounds, NegInf, PosInf, MinInt, Narrowed, Span, IsInterval, IsSubsetOf,
      Includes

\* The meet holds exactly the integers of both; there is none exactly when no
\* integer is in both.
THEOREM MeetIsExact ==
    ASSUME NEW i \in Intervals, NEW j \in Intervals, NEW v \in Int
    PROVE  Includes(i, v) /\ Includes(j, v)
             <=> IsInterval(Common(i, j)) /\ Includes(Common(i, j), v)
  BY MaxIntAssumption
  DEF Intervals, Ranges, Bounds, NegInf, PosInf, MinInt, Common, Span, Lower, Higher, IsInterval,
      Includes

\* What each operator says.
LEMMA HoldsMeans ==
    ASSUME NEW v, NEW w
    PROVE  /\ Holds("<", v, w) <=> v < w
           /\ Holds("<=", v, w) <=> v <= w
           /\ Holds(">", v, w) <=> v > w
           /\ Holds(">=", v, w) <=> v >= w
           /\ Holds("==", v, w) <=> v = w
           /\ Holds("!=", v, w) <=> v # w
  BY DEF Holds

\* One operator at a time; the neighbour of an end of the range is no interval.
LEMMA SatisfyingIsExact ==
    ASSUME NEW operator \in Comparisons, NEW constant \in Machine, NEW v \in Machine
    PROVE  (\E r \in Satisfying(operator, constant) : IsInterval(r) /\ Includes(r, v))
             <=> Holds(operator, v, constant)
  <1> DEFINE Is(r) == IsInterval(r) /\ Includes(r, v)
  <1>1. /\ Is(Below(constant)) <=> v < constant
        /\ Is(Span(NegInf, constant)) <=> v <= constant
        /\ Is(Above(constant)) <=> v > constant
        /\ Is(Span(constant, PosInf)) <=> v >= constant
        /\ Is(Singleton(constant)) <=> v = constant
    BY MaxIntAssumption
    DEF Machine, NegInf, PosInf, MinInt, Span, Below, Above, Singleton, IsInterval, Includes
  <1> HIDE DEF Is
  <1>2. v < constant \/ v > constant <=> v # constant
    BY DEF Machine, MinInt
  <1>3. CASE operator = "<"
    <2>1. Satisfying(operator, constant) = {Below(constant)} BY <1>3 DEF Satisfying
    <2> QED BY <1>1, <1>3, <2>1, HoldsMeans DEF Is
  <1>4. CASE operator = "<="
    <2>1. Satisfying(operator, constant) = {Span(NegInf, constant)} BY <1>4 DEF Satisfying
    <2> QED BY <1>1, <1>4, <2>1, HoldsMeans DEF Is
  <1>5. CASE operator = ">"
    <2>1. Satisfying(operator, constant) = {Above(constant)} BY <1>5 DEF Satisfying
    <2> QED BY <1>1, <1>5, <2>1, HoldsMeans DEF Is
  <1>6. CASE operator = ">="
    <2>1. Satisfying(operator, constant) = {Span(constant, PosInf)} BY <1>6 DEF Satisfying
    <2> QED BY <1>1, <1>6, <2>1, HoldsMeans DEF Is
  <1>7. CASE operator = "=="
    <2>1. Satisfying(operator, constant) = {Singleton(constant)} BY <1>7 DEF Satisfying
    <2> QED BY <1>1, <1>7, <2>1, HoldsMeans DEF Is
  <1>8. CASE operator = "!="
    <2>1. Satisfying(operator, constant) = {Below(constant), Above(constant)}
      BY <1>8 DEF Satisfying
    <2> QED BY <1>1, <1>2, <1>8, <2>1, HoldsMeans DEF Is
  <1> QED
    BY <1>3, <1>4, <1>5, <1>6, <1>7, <1>8 DEF Comparisons

\* A comparison is false where the other operator holds.
LEMMA OtherwiseIsNegation ==
    ASSUME NEW operator \in Comparisons, NEW constant \in Machine, NEW v \in Machine
    PROVE  /\ Otherwise(operator) \in Comparisons
           /\ Holds(Otherwise(operator), v, constant) <=> ~Holds(operator, v, constant)
  <1>1. /\ Otherwise("<") = ">=" /\ Otherwise("<=") = ">" /\ Otherwise(">") = "<="
        /\ Otherwise(">=") = "<" /\ Otherwise("==") = "!=" /\ Otherwise("!=") = "=="
    BY DEF Otherwise
  <1>2. v \in Int /\ constant \in Int
    BY MaxIntAssumption DEF Machine, MinInt
  <1>3. (v < constant <=> ~(v >= constant)) /\ (v > constant <=> ~(v <= constant))
    BY <1>2
  <1> QED
    BY <1>1, <1>3, HoldsMeans DEF Comparisons

\* The regions of a comparison hold exactly the machine integers for which it
\* has that truth, also at the ends of the range.
THEOREM RegionsAreExact ==
    ASSUME NEW operator \in Comparisons, NEW constant \in Machine, NEW truth \in BOOLEAN,
           NEW v \in Machine
    PROVE  (\E r \in Regions(operator, constant, truth) : Includes(r, v))
             <=> (Holds(operator, v, constant) <=> truth)
  <1>1. CASE truth
    BY <1>1, SatisfyingIsExact DEF Regions
  <1>2. CASE ~truth
    BY <1>2, SatisfyingIsExact, OtherwiseIsNegation DEF Regions
  <1> QED
    BY <1>1, <1>2

\* An operator says of exchanged operands what its reverse says of them.
THEOREM ReversingExchanges ==
    ASSUME NEW operator \in Comparisons, NEW v \in Int, NEW w \in Int
    PROVE  Holds(operator, v, w) <=> Holds(ReverseComparison(operator), w, v)
  BY DEF Comparisons, ReverseComparison, Holds

===============================================================================
