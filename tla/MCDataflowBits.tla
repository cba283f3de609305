----------------------------- MODULE MCDataflowBits ----------------------------
(* DataflowSolver over sets of facts with gen and kill sets (BlockBits of  *)
(* src/src/analysis/dataflow/mod.rs), on every control flow of three       *)
(* blocks, in both directions.                                             *)
EXTENDS DataflowLattice, LoopRegions, TLC

Facts == {"a", "b"}
FactSets == SUBSET Facts

UnionOf(states) == UNION states
Subset(x, y) == x \subseteq y
Union(x, y) == x \cup y
GenKill(p, b, state) == (state \ p.kill[b]) \cup p.gen[b]
Unchanged(p, e, state) == state

\* What a block may do: nothing, or define one fact, which kills the other or not.
Effects == {[gen |-> {}, kill |-> {}], [gen |-> {"a"}, kill |-> {"b"}],
            [gen |-> {"b"}, kill |-> {}]}

Flows ==
    {f \in [edges: SUBSET (LocalNodes \X LocalNodes), stops: {{}}, exits: {{}}, flows: {{}}] :
        f.edges = ViewEdges(f)}

Shapes == {BlockCfg(f, direction) : f \in Flows, direction \in {"Forward", "Backward"}}

BitProblems ==
    {shape @@ [boundary |-> {"b"}, gen |-> [b \in LocalNodes |-> effect[b].gen],
               kill |-> [b \in LocalNodes |-> effect[b].kill]] :
        shape \in Shapes, effect \in {m \in [LocalNodes -> Effects] : m[1].gen = {}}}

ASSUME GenKillDistributes == Distributive

===============================================================================
