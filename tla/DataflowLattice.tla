---------------------------- MODULE DataflowLattice ----------------------------
(* What solve takes on trust of an analysis: "one monotone data-flow       *)
(* problem" (src/src/analysis/dataflow/mod.rs:670) over a join-semilattice *)
(* (the laws the trait Lattice documents).                                 *)
EXTENDS DataflowSolver

ASSUME LatticeAssumption ==
    /\ Bottom \in Domain
    /\ \A x \in Domain : Leq(Bottom, x) /\ Leq(x, x)
    /\ \A x, y, z \in Domain : Leq(x, y) /\ Leq(y, z) => Leq(x, z)

\* The empty set aside, every set of states has a least upper bound.
ASSUME JoinAssumption ==
    \A S \in SUBSET Domain :
        S # {} =>
            /\ JoinOf(S) \in Domain
            /\ \A x \in S : Leq(x, JoinOf(S))
            /\ \A u \in Domain : (\A x \in S : Leq(x, u)) => Leq(JoinOf(S), u)

ASSUME WidenAssumption ==
    \A x, y \in Domain :
        Widen(x, y) \in Domain /\ Leq(x, Widen(x, y)) /\ Leq(y, Widen(x, y))

ASSUME BlockAssumption ==
    \A p \in Problems : \A b \in p.blocks : \A x \in Domain :
        /\ TransferBlock(p, b, x) \in Domain
        /\ \A y \in Domain : Leq(x, y) => Leq(TransferBlock(p, b, x), TransferBlock(p, b, y))

ASSUME EdgeAssumption ==
    \A p \in Problems : \A e \in p.edges : \A x \in Domain :
        /\ TransferEdge(p, e, x) \in Domain
        /\ \A y \in Domain : Leq(x, y) => Leq(TransferEdge(p, e, x), TransferEdge(p, e, y))

\* A transfer that takes a join apart, as that of gen and kill sets does and
\* that of intervals does not: not among the assumptions.
Distributive ==
    \A p \in Problems : \A b \in p.blocks : \A S \in (SUBSET Domain) \ {{}}, u \in Domain :
        (\A x \in S : Leq(TransferBlock(p, b, x), u)) => Leq(TransferBlock(p, b, JoinOf(S)), u)

===============================================================================
