# TLA+ models of libcpg

libcpg builds code property graphs from source and analyses them. Its
implementation (`src/`, Rust) is a stack of mostly sequential, deterministic
algorithms over one shared data structure. What is hard to get right in it is
not message passing but state that is derived from other state: an index that
must follow the graph, a cache that must follow the source, tree metadata that
must follow the edges, overlays that must follow what a program does,
iterations that must stop at the right fixed point. These modules model that
state and check what relates it.

Run a model with `tlc -config X.cfg M` and the proofs with `tlapm M_proofs.tla`;
`PROJECT.json` lists which configuration belongs to which module, the source
lines behind every definition, and for every checked property a mutation of the
code it would catch.

## Inventory

| Component | Sources | State it keeps | Operations | What makes it correct |
|---|---|---|---|---|
| Graph container | `graph/cpg.rs` | nodes, edges, node map, two counters, root, CFG boundaries, child lists and parents in the nodes | add, add with identifier, mutate, connect, connect unique, boundary, clone | identifiers unique and stable, child lists in edge order, canonical parents |
| Graph composition | `graph/cpg.rs` | two graphs | `merge_from`, `subgraph` | isomorphic copy, induced graph, no dangling reference |
| Projection cache | `graph/projection_cache.rs` | CSR rows in a `OnceLock`, dense metadata in a nested one | build, lookups, invalidate | answers equal a scan; never stale; built once |
| Function analysis cache | `builder/incremental.rs` | buckets by digest, running totals, clock | lookup, insert, evict, clear | exact LRU map within two bounds |
| Cached extraction | `builder/incremental.rs`, `builder/pdg.rs`, `builder/tree_sitter.rs` | overlays of each function, held and fresh plans, the cache | CFG, DFG and PDG pass: look up, plan, emit | cached build equals uncached build |
| Function CFG view, dominators | `analysis/cfg_scope.rs`, `analysis/dominators.rs` | idom, frontiers, search stack | search, passes, frontier walk | dominance as defined by paths; converges |
| Block CFG, loop forest | `analysis/basic_blocks.rs`, `analysis/loops.rs` | drafts of loops, their order, parents, depths | natural bodies, irreducible regions, nesting | bodies nest, one entry, depth, reducibility |
| Control-flow builder | `builder/cfg.rs` | frames of half-extracted syntax, loop and handler stacks, plans | one frame a step, emission | equals its recursive equations; jumps reach their targets |
| Data-flow builder | `builder/dfg.rs` | reaching definitions by scope, plans | sweep of a function, emission | every definition reaches its uses |
| Data-flow solver | `analysis/dataflow/mod.rs` | block states, visit counts, work queue | visit, widen, give up, narrow | sound, least where nothing widens, terminates |
| Interval analysis | `analysis/dataflow/intervals.rs`, `conditions.rs` | environments of intervals | transfer, refine, join, widen, narrow | contains every value of a run |
| SCC, condensation, layering | `analysis/scc.rs`, `condensation.rs`, `layering.rs` | Tarjan frames, low links | one frame a step | exact components, callees first |
| IFDS solver, effect summaries | `analysis/ifds/`, `effects.rs` | summaries, round and step counts, caps | components in reverse topological order | least fixed point, or marked incomplete and below it |
| Slicing, SDG | `builder/pdg.rs`, `analysis/sdg.rs` | distance labels, queue, masks, phase | bounded search, two phases | what is within the bound and no mismatched call |
| Concurrency analyses | `analysis/concurrency/` | lock graph, sessions, parallel pairs | one-shot fixed points | no race, split update, lock cycle or wait of a run is missed |
| Call resolution, program merge | `analysis/resolve.rs`, `program.rs` | files of a program, edge labels, targets of calls, evidence of the last pass | merge, link imports, resolve calls | independence of input order, stability under repetition, calls reach what scopes and imports mean |
| Parsing front end | `builder/tree_sitter.rs`, `node_mapper.rs` | a stack of parser nodes | traversal, mapping | one node per mapped parser node, parents before children |
| Matching, edit distance, diff | `pattern/vf2.rs`, `pattern/ged.rs`, `analysis/diff.rs` | a partial mapping and its fringe, search frames; potentials and the assignment of rows | extend, backtrack; place a row, augment; spell out the edits | every embedding once; a bound no lower than the distance; a script that makes one graph the other |
| Metrics, smells, detectors, embeddings | rest of `analysis/`, `patterns/`, `algorithms/`, `gnn/` | none between calls | one-shot | floating point and catalogues: out of scope |

How they interact: the front end and the builders mutate one graph through
`&mut self`; analyses read it through `&self`, possibly from several threads,
and share the lazily built projection cache; the incremental build reads a
caller-owned function analysis cache before it plans anything and writes it
while it emits; the control-flow overlay is what dominators, loops and the
solver walk, and with the data-flow overlay what the dependence graph is made
of; post-dominators of the function view decide the dependence edges the PDG
pass emits; the loop headers decide where the data-flow solver widens; the
components of the call graph decide the order in which summaries are solved, and
the summaries which edges a slice may take across a call; the concurrency
analyses share the event resolution, the pairs and the locksets.

Which behaviours are hard, and where:

* *Interleaving* is confined to two places: threads that read one graph race
  through two nested `OnceLock`s, and rayon plans cache misses in any order.
* *Ordering* of insertions: automatic and explicit identifiers interleave, and
  the order of child lists, rows and parents must not depend on it. The overlays
  are written in the order a recursion would, by machines that do not recurse.
* *Staleness*: indices outlive mutations, plans outlive revisions and
  evictions, a decomposition of the call graph outlives the graph it is of,
  loop headers outlive nothing but decide termination.
* *Bounds*: `u32` identifiers saturate, two cache limits evict, caps end
  iterations and slices; the result on a bound is what differs from the
  ordinary one.
* *Broken input*: a parser leaves shared, missing and cyclic syntax behind, and
  the builders must still end.
* *Foreign interleavings*: the analysed programs are concurrent, and a report is
  right only about what their strands can do.
* There are no timeouts, retries, messages or persisted state; a panic inside
  an initialiser is not modelled.

## Modules

### Graph: `GraphStore`, `ProjectionCache`, `CodePropertyGraph`

`GraphStore` is the container as a value: a record with the eight logical
fields of `CodePropertyGraph`, and every operation as an operator from graph to
graph (`AddNode`, `AddNodeWithId`, `AddEdge`, `AddEdgeWithId`, the two ways the
child index and the parent are kept, boundary lists). petgraph is modelled by
sequences: a node index is a position, and an edge keeps the endpoints petgraph
stores beside the public ones. Identifiers live in `0..MaxId`, where `MaxId`
stands for `u32::MAX`: small values let TLC reach saturation, and the proofs
hold for any. Kinds, ranges and properties of a node are abstracted to `refs`,
the identifiers embedded in its kind. `ProjectionCache` builds the index: the
CSR rows (what the counting sort groups), the row sort, the reverse rows, the dense
metadata, and the partition-point lookups. `CodePropertyGraph` is the state
machine: one action per mutating method, each with its invalidation, enabled
when no reader borrows the graph (`&mut self`); and readers, whose steps are
those of two `get_or_init` calls, one nested in the other.

### Composition: `GraphComposition`

Two graphs grow by arbitrary insertions, then one is merged into the other or a
selection of it is extracted. `MergeFrom` and `Subgraph` are folds of the
operators of `GraphStore` in the order of the code: nodes by identifier, then
references, edges by identifier, boundaries, root.

### Programs: `ProgramLinking`

The files of a program are merged one after the other with `MergeFrom`; then a
caller links imports and resolves calls in any order and repeatedly. Both passes
are functions of a value with the fields of `ProgramCpg` (`Whole`): the graph,
the labels of its edges, the scopes of its files, and the evidence of the last
pass. `BuildImportGraph` is the alias index, the strongest match of each file,
the exports a statement selects and the names it binds them to;
`ResolveCalls` is the symbol table with its scope edges and the tiers of
`decide_call`, from an existing target down to a bare name, under the four limits
of `ResolveConfig`. Paths and import texts are sequences of tokens, and a node
is visited in the order of its identifier. What the author of an import means is
a field of its node (`means`) that only `CallsReachTheirFunctions` reads.

### Caching: `LruCache`, `FunctionAnalysisCache`, `IncrementalBuild`

`LruCache` is the promise: a map with the use order of its keys, which may
refuse or forget only the least recently used entries, and only while a bound is
exceeded. `FunctionAnalysisCache` is the code: buckets by digest, positions in a
bucket, four running totals, a clock that ticks on hits and stores, the bypass
conditions in their order and the eviction loop one entry a step
(`enforce_limits`). It implements `LruCache` (`ImplementsLru`), with the map
rebuilt from the buckets as refinement mapping. `IncrementalBuild` uses the
promise and not the detail: a batch of functions is looked up, planned in any
order and emitted with insertion and eviction in between, pass after pass, over
revisions of the source. What an extractor reads of a function is a constant
(`CfgOf`, `FlowsOf`); the dependence plan is computed by `FunctionCfg` from what
the graph holds at that moment. `ExitsAreNeutral` says what `pdg_context` takes on
trust when it leaves the exits out of the key.

### Overlays: `SyntaxTree`, `CfgExtractor`, `CfgEquations`, `DfgExtractor`

`SyntaxTree` is what the extractors read of a graph: the kind, the children, the
name and the callee of a node. Nothing says that it is a tree. `CfgExtractor` is
the machine of `builder/cfg.rs`: a stack of frames, one per construct that is
half extracted, each resumed with the exits of its last child; loop targets and
exception handlers are pushed and popped with them; a node already on the stack
is entered as the code enters it. `Emit` writes the plan of a function into the
overlay. `CfgEquations` holds the recursive equations the repository keeps as an
oracle (`extract_function_cfg_recursive_oracle` and what it calls), as a function over
the nodes. `DfgExtractor` sweeps a function once in source order with a stack of
scopes and the sets of definitions that reach, joins them where branches meet,
and writes definition-use, parameter and return edges.

### What programs do: `ProgramOverlays`

An overlay is right if it says what the program may do. `ProgramOverlays` runs the
extractors, control flow and then data flow, and then the first function of the
program. The run models no code: it gives the constructs the builders tell apart
their usual meaning, with a stack of tasks, nondeterministic conditions, jumps
that unwind task by task, handlers that catch and finally blocks that run.
`Supported` names the programs that are run: whole trees, jumps that have a target, and no jump across a finally block other than a return that ends
its try (the overlay has no edges for the others). Every other syntax is still
extracted and compared with the equations.

### Control flow: `FunctionCfg`, `DominatorTree`, `LoopRegions`, `LoopForest`, `FunctionFlow`

`FunctionCfg` gives the view of a function, its exits, the synthetic exit, and
the *definitions* of dominance, frontier and control dependence, by paths.
`DominatorTree` is the algorithm: depth-first search with explicit frames,
passes over reverse postorder with the two-finger intersection, the cap on
passes, the frontier walk. `LoopRegions` holds the pure parts of loop
recognition (the search, natural bodies by backward flooding, cyclic components,
retreating edges, the block CFG the solver runs on), `LoopForest` the assembly:
one draft a step, ordered, linked to the smallest enclosing body. Components
are taken by definition there, not by Tarjan's algorithm. `FunctionFlow`
composes the two: the forest begins where the dominators end.

### Data flow: `DataflowSolver`, `DataflowLattice`, `IntervalArithmetic`, `IntervalAnalysis`

`DataflowSolver` is `solve_with_policy` with lattice and transfer functions as
operator constants: the ordered queue, a visit with its widening, the cap, and
narrowing in sweeps, forwards and backwards. `DataflowLattice` adds what the
trait asks of a client: a partial order, a join that is the least upper bound,
a widening above both operands, monotone transfers. `MCDataflowBits`
instantiates it with gen and kill sets.

`IntervalArithmetic` is `Interval` over machine integers of any width: endpoints
`MinInt..MaxInt`, the two ends standing for open bounds, saturating and checked
arithmetic as written (`i128::MIN` negates to `i128::MAX`), hull, widening,
narrowing, meet, and the regions of a comparison. `IntervalAnalysis` is the
client: environments, expressions as the postorder `eval_expr` works off,
definitions and guards as transfer functions. It instantiates the solver, and
then the analysed function itself runs, block after block over unbounded
integers, taking a guarded edge only where its guard holds.

### Calls: `CallGraphSccs`, `SummarySolver`, `SystemDependence`

`CallGraphSccs` says what a program is and is `scc.rs` frame by frame. `SummarySolver` is the IFDS solver:
validation against a decomposition that may be of an older program, seeds,
components callees first, acyclic ones once, cyclic ones by a worklist in
rounds, three caps, and what is kept when one of them ends the iteration. Its
summaries are those of `effects.rs`, the part that says which formals reach
the return (`Summarize`). `SystemDependence` builds the system dependence graph with its
summary edges and slices it: one entry of the queue a step, whose neighbours are
relaxed in order, the mask of its two phases, the caps on nodes and on call depth. Programs are small
dependence graphs of functions (`Code`), and one edit lies between decomposition
and solution.

### Concurrency: `ConcurrencyFindings`, `ConcurrentRun`

`ConcurrencyFindings` begins with what the findings share: events resolved to the
definition they name, strands and the pairs that may run in parallel with their
cap, locksets by a walk over each function. On it rest the races
and split updates, the lock-order graph with summaries of callees and its
components, and the waits among sessions. `ConcurrentRun` lets the
strands run, interleaved in every way: locks are reentrant and shared by
readers, messages wait in a channel without bound, a parallel block ends with
its operands. It models no code; the programs are straight lines whose locks
are balanced.

### Patterns and edits: `Vf2Matcher`, `GraphEdits`

`Vf2Matcher` is the search for embeddings, a candidate a step: frames that
remember the next target, the partial mapping, and the fringe of both graphs with
its counts, grown by `push_mapping` and taken back by `pop_mapping`. The Fenwick
trees of `DenseSet` are the sets they index, and a graph is its kinds and a set of
edges. `GraphEdits` is `hungarian` step by step (a row placed, a column reached,
an edge of the path turned) on the matrix of star costs, in both directions, and
what `ged_upper_bound`, `ged_alignment` and `cpg_diff` make of the two
assignments. Costs are counted in quarters, the halves of half units: their sums
are exact in `f64`. What the diff compares of a node is its tag, a payload and
its links, which are equal through the alignment.

### Sessions: `MCAnalysisSession`

One caller asks one family of analyses of a graph: `ProgramOverlays`,
`ConcurrentRun`, `SystemDependence`, `Vf2Matcher` or `GraphEdits`. Each is a
function of the graph, so the families interleave with nothing, and `study` says
which one this session is. The module also holds what sessions are run on.

## Runs

| Run | Bounds | What it shows |
|---|---|---|
| `cpg` | 2 identifiers, 2 nodes, 2 edges of 2 layers, a parent copied from elsewhere, 2 readers, 5 queries | identifiers are unique up to exhaustion, child lists and parents follow the edges, no index is stale, every lookup equals a scan of the graph in canonical order, every read ends |
| `graph_compositions` | sources of 3 nodes and 2 edges, destinations of 1 node, selections of up to 2 without repetition; 6 sets of libraries, 6 lists of imports and 3 applications, merged in their order and in reverse, 3 passes, ample and tight limits | merge appends an isomorphic copy and keeps the rest, references stay inside, subgraphs are induced; calls reach the functions their scopes and imports mean, files commute, passes are idempotent |
| `cache_eviction` | 3 keys, 2 of one digest, 2 plans, 2 entries, 7 bytes, 9 ticks | totals exact and within the bounds, what was stored survives its own eviction loop, the abstract LRU map is implemented |
| `incremental_session` | 4 builds, graphs of 2 functions, 2 cache entries | what is emitted equals what an uncached build emits |
| `incremental_exits` | 1 function, exits recorded by the caller | violation, see Findings |
| `function_flow` | every subset of 11 edges on 4 nodes, with and without a recorded exit and a throwing node | dominators and control dependence are those defined by paths, loops nest, are irreducible exactly where they should be and agree with the dominators; the iteration ends below its cap |
| `dataflow_bits` | every control flow of 3 blocks, both directions, 2 facts | the solver ends in the least solution |
| `dataflow_intervals` | every reducible control flow of 4 blocks over 8 edges with one counter, one that is not reducible, a branch and a loop with two variables and any comparison; 64 visits, widening after 3, 2 sweeps as in the code; integers to 1000, runs from -2, 0 and 3 within 6 | the inductive invariant; solutions are sound after widening and narrowing; the cap is met only on a cycle without a loop header; every value of a run lies in its interval |
| `dataflow_tangled` | the irreducible one | violation, see Findings |
| `analysis_session` | 9 small blocks in every construct, nested once, and damaged syntax; strands of a few steps, three locks, two channels; every call structure of 3 functions over 13 bodies, rings of 4, one edit; patterns of 3 nodes in targets of 5, with every limit on matches that bites; pairs of graphs of 2 and 3 nodes with parallel edges, loops and ties, under 4 sets of costs, 11 versions to diff under 3 limits | the overlays equal their equations and contain every run; findings contain what some interleaving does; components, summaries and slices are exact, whatever caps apply; every embedding is found once; bounds and diffs are those of an edit script |
| `overlays_return` | one function | violation, see Findings |
| `lock_modes` | one program | violation, see Findings |

Why the bounds are enough. Uniqueness, parents and child order are violated by
two edges that meet at one node, found in the wrong order, and saturation by one
insertion too many. A stale index needs one read, one mutation, one read; a race
needs two readers, and the second lock is nested in the first, so a third
reader repeats what one of the two does. Row boundaries need two rows, two
layers and a parallel edge. An LRU order differs from another with three keys
for two places; a digest collision needs two keys. A plan is used after its
eviction when two functions share a cache with two entries and the other one's
plans come in between; a session of four builds holds a parse, a dependence
build, an edit and a second build. Four nodes hold a loop in a loop, a loop
with two entries, two loops with one header and a region that cannot leave.
`MaxInt` = 1000 is above what 64 visits of each of four blocks can reach by
counting, so the chain is as good as infinite. A frame is resumed wrongly when a
construct stands in a construct, so nesting once is enough for every pair; a
third level repeats the second. Components close in the wrong order with a ring
and a chord, which three functions have; a summary is taken too early when a
component calls another one. A call is led astray by one rival of the same name,
in the file of the import, in a third file or in a scope around the call; two
files tie for one import, and the third pass is the first that finds the edges of
both others. A race needs two strands and one location, a split
update a second lock section, a lock cycle two locks, and a wait three
processes to tell a cycle from a pair. A node returns to the fringe with a count
when two mapped nodes touch it, which patterns of three nodes have; a path of the
assignment turns when a row takes a column that is taken, which happens with one
node on each side, and ties need two equal nodes.

Several properties say in one formula what belongs together. `TreeFollowsEdges`
is child order and canonical parents; `CompositionsAreClosed` is that the
destination is kept, that references stay inside and that the result is well
formed; `OccupancyIsExact` is the running totals and both bounds; `LoopsAreExact` is
nesting, depth, the innermost loop, irreducibility and headers that dominate
their loops; `SearchIsExact` is the fringe and the answer; `DistanceIsSound` is
that the potentials prove each assignment and that the bound is the cost of a script; `ConflictsAreReported` is races
and split updates, `DeadlocksAreReported` lock circles and waits; `KeptIsSound` is that a
partial summary lies below the solution and that callees are final first;
`CompletionIsExact` is that a complete run is the solution and that only too small
a cap makes one incomplete; `SolverInv` is the conjunction proved inductive.

Deadlock is checked nowhere: every model stops where the program returns. In
`ProgramOverlays` the rest a run may come to is the action `Over`.

## Fairness

* `CodePropertyGraph` (`ReadsComplete`): weak fairness of every reader's steps
  inside a read. A thread inside `get_or_init` is run by the operating system,
  and the initialisers do not block on anything but the nested lock. Nothing
  says that a reader ever begins or drops a view.
* `FunctionFlow` (`DominatorsComplete`): weak fairness of the whole dominator
  computation, a loop of one thread.

No other model states liveness. The solver, the extractors, Tarjan's algorithm,
the summaries and the slices end because they are bounded by their own caps and
sizes in every reachable state; the safety properties are about where.

## Proofs

`GraphStore_proofs` and `CodePropertyGraph_proofs` show, for every `MaxId`, every
subset of the edge kinds, any set of readers and any bounds:

* `GraphStaysCoherent`: the inductive invariant `Coherent`. Uniqueness of
  identifiers is not inductive, since a counter may name an identifier that
  is in use; `Coherent` adds that the node map is the inverse of the numbering,
  and that a counter is either above every identifier in use or saturated with
  the last one possibly taken.
* `IdentifiersStayUnique`, `EndpointsStayStored`, `NothingIsRenumbered` follow,
  the last from the same step lemma (`Extends`).
* `CacheStaysCurrent`, from `CacheInv`: a set index is that of the current
  graph (`CacheIsCurrent`); a reader inside a view or an initialiser keeps every
  mutation out (`Exclusive`), so that what it read is still so when it publishes; and
  each lock says running exactly while some reader is inside its initialiser
  (`LocksHeld`). `InitializersAreExclusive` is the last part.
* `TreeStaysExact`, from `Whole`: the graph is typed, and the children and the
  parent of every node are those its AST edges determine (`TreeAt`). An automatic
  identifier is above all others, so appending to the child list is the same as
  sorting again (`SortedAppended`, `LinkHighest`); it saturates, and the guard of
  `take_next_edge_id` is what keeps the last one from being handed out twice. An
  explicit identifier may fall anywhere, and the code rebuilds; a node whose row
  did not change keeps its list because sorting looks only at the members of the
  row (`SortedAlike`). Types and tree go together: a parent is typed because it is
  the source of an edge.
* `ViewsStayScans`, from `BuildsIndex` and `ReadersInv`. A row is described by
  `Lists`: each member of a set once, ascending in an order that no two
  members tie in. The orders of the three row tables are compared component by
  component (`LexFour`); the two partition points enclose the members of one
  weight (`SliceLists`), because the order of a row never lowers its weight; rows
  one after the other are a listing again (`FlattenLists`, by least counterexample);
  within one node, one layer or one pair the row orders are the canonical order
  (`RowOrders`). An identifier without a node has an empty row and no edges, since
  edges hold both endpoints (`RowsOfNodes`). The distinct degrees are bijections
  between positions at which the target changes and pairs of nodes
  (`OutgoingIsCounted`, `IncomingIsCounted`). Last, a view that is held stays
  right: no initialiser moves under it (`OtherReadersKept`).
* `TypesHold`, the type invariant.

A sort by keys that no two members share is modelled by ranks (`Sorted`): position
`i` holds the member with `i - 1` members below it. That each rank is taken
exactly once is a pigeonhole argument and not the definition (`SortedLists`).

Assumptions: `MaxIdAssumption`, `NoneAssumption`, `KindsAssumption`,
`BoundsAssumption`, `QueriesAssumption` and `LoneAssumption`, that nodes are
inserted without children. `with_child` of `graph/node.rs` would break the last
one, and only tests call it; `merge_from` and `subgraph` clear the list.

`GraphComposition_proofs` is about merges and selections of all graphs that the
bounds and identifiers leave room for:

* `MergeIsIsomorphic`: what a merge appends is the source under the mapping it
  returns. merge_from is a row of stages, and each has a lemma that says what a
  prefix of it has done: `NodesAppended`, `NodesTranslated`, `EdgesCopied`, then the
  boundary lists (`PushedFacts`). `Merges` is what the stages add up to
  (`MergeMerges`). It does not speak of children and parents. They follow: both graphs
  are `Whole`, so a child list is a listing of AST edges, and an ascending map takes a
  listing to a listing (`ListingMapped`, `CopiedChildren`, `CopiedParent`). Edges get
  their new identifiers in the order of the old ones, and that is why the map ascends.
* `CompositionsClose`: a merge rewrites nothing the destination holds
  (`DestinationKept`, again from what the tree is read off), references are translated
  or dropped, and both results are `Whole`.
* `SubgraphInduces`: likewise for the two loops of subgraph (`NodesSelected`,
  `EdgesInduced`, together `Selects`; `SelectedChildren`, `SelectedParent`).

Each stage is a fold of the community modules, a recursive function over sets of
positions. Here it is unrolled one position at a time: such a function exists and
determines the fold (`FoldedVisits`), and what holds before the first position and is
kept by each holds at the end (`UpTo`, by least counterexample). The inductive invariant
of the module, `CompositionInv`, adds what the stages rely on: both graphs are
`Whole`, a root is stored, and the destination has handed out no more identifiers than
it has nodes and edges, so that the source still fits (`Fits`).

Assumptions: those of `GraphStore` and `CompositionAssumption` (identifiers suffice for
both graphs; past the last one `merge_from` panics). `CompositionsClose` and
`SubgraphInduces` have a hypothesis, `RequestsAreDistinct`: no selection names a node
twice. The code does not ensure it, and a repeated identifier is stored twice; the
selections of `graph_compositions` are those that meet it.

`DataflowSolver_proofs` shows, for every lattice, set of problems, cap, widening
threshold and number of sweeps:

* `TypesHold`: the type invariant, the cap on visits included.
* `SolverInvHolds`: the inductive invariant of the algorithm. Soundness says
  nothing before the end; what carries it there is that a block out of the queue
  is settled (`QueueCoversChanges`, `NoChangeIsLost`), and, for the sweeps, that
  every state stays above what arrives (`Covered`). A sweep may lower a block
  only because its own transfer is monotone, and the work list only climbs
  because a block that has not widened lets out no more than its transfer
  (`Climbing`): this half is needed for `StatesAscendThenDescend`.
* `SolutionsAreSound`: boundary, edges and blocks are covered, after widening
  and narrowing as well.
* `LeastInvHolds`: where nothing widens, no state on the way exceeds any solution
  of the joined equations. `SolutionsAreLeast` draws the conclusion about what is
  returned, for problems whose transfers distribute over joins (`Distributive`, a
  hypothesis of the theorem and not an assumption of the model: intervals do not
  meet it). `GenKillTakesJoinsApart` shows that every gen and kill problem over
  sets does, and `dataflow_bits` evaluates it.

Assumptions: `ProblemAssumption`, `ConfigAssumption` and the five lattice
assumptions of `DataflowLattice`. TLC evaluates the latter on the bit lattice
only (`dataflow_bits`); on the interval lattice the set of all assignments is
too large to enumerate, and the run checks the conclusions instead.

The last section of `DataflowSolver_proofs` shows, for integers of every width, what the
solver needs of the lattice and the transfer functions of their operators: join is the
least upper bound (`HullIsLeast`), widening covers (`WideningCovers`), narrowing
descends and loses nothing (`NarrowingDescends`), a meet is exact
(`MeetIsExact`), shifts, negation, sums and differences contain what they stand
for (`ShiftIsSound`, `NegateIsSound`, `AdditionIsSound`, `SubtractionIsSound`),
and a comparison splits the integers (`RegionsAreExact`, `ReversingExchanges`).
`SubtractionIsSound` excludes one subtrahend, the interval of the least integer
alone: its negation saturates one below what it should be. Literals have 64 bits
and endpoints 128, so a program reaches it only through sums far outside both.

The second half of `Patterns_proofs` is about the Hungarian algorithm, for graphs of
any size and all costs:

* `MatrixIsNatural`: the matrix has a row and a column for each node and holds
  natural numbers. Degrees are bounded by the edges, so the greatest exists, and
  the price of a forbidden entry with it.
* `HungarianInvHolds`: the inductive invariant. Feasible potentials and a matching
  at promised cost are what the algorithm keeps between rows; inside a row it
  needs three things more. While it scans, what a used column offers to one that
  is not used is the cheapest offer (`Offer`), so raising by the least of them
  overdraws no entry; the columns seen so far lead back to column 0 over promised
  costs (`BackFrom`); and they do so in no circle (a rank that falls along
  `predecessor`). While the path is walked back, exactly one column, the hole, may
  repeat the row of another, and column 0 is that hole when the walk ends. That a
  free column is always left is a count: used columns hold distinct rows, and no
  more rows were placed than there are columns.
* `PotentialsAlwaysProve`: `PotentialsProveTheAssignment` of `DistanceIsSound`.

Assumption: `ComparisonAssumption` (graphs are finite, costs natural numbers, as
`validate_options` demands). The other half of `DistanceIsSound`, that the answer
is the price of some script, compares sums over all correspondences and stays
with TLC.

The first half of `Patterns_proofs` shows for all patterns, targets, kinds and limits that
find_matches_limited emits every embedding once, as many as the cap lets it, keeps
the fringe that its mapping has and leaves its state as it was (`SearchesAreExact`,
the whole of `SearchIsExact`). The state alone does not say why: `MatchInv` adds the
chain of states the frames of the stack stand on, each the one before with its
frame's choice pushed (`Path`). A pop restores the state below because counts and
fringe are exact (`SideFine`, `UndoneRestores`). The matches are at any time the
embeddings *behind* the search (`Behind`): those that make the choices of the path
up to some frame and take a candidate there that was tried to the end. Pruning
loses none of them (`EmbeddingsAreFeasible` for the compatibility and degree rules,
`FringeIsFollowed` for looking along the fringe only), a complete mapping is an
embedding that is not behind (`EmittedIsNew`), and a frame without candidates is
behind as a whole, which is the choice above it (`BehindShrinks`).

Assumption: `SearchAssumption` (edges are between nodes of their graph, limits are
natural numbers).

`SummarySolver_proofs` is about the decomposition the summary solver starts from,
the summaries it keeps and the slices through them, for programs of any size:

* `DecompositionInvHolds`: the inductive invariant of `decompose` (`SearchInv`). Tarjan's
  algorithm with explicit frames keeps four data structures in step, and the proof says
  how: `discovery` numbers what was found (`Values`); `active_nodes` is what was found and
  not popped, in that order (`StackIsActive`); the frames are active functions in that
  order, each of which reaches all that was found after it (`PathIsActive`,
  `PathReaches`); what was gone along is found, and what was popped calls only what was
  popped (`EdgesAreSeen`, where `Followed` says how far a resumed frame has come). A low
  link is the index of an active function that is reached (`LowLinksReach`), that of a
  finished function is an earlier one (`FinishedIsLower`), and that of a frame bounds what
  its territory calls (`LowLinksBound`): the territory of a frame is what was found by it and
  not by the frame above it, so that a returning child hands its own over to its
  parent together with its low link (`Propagated`).
* `ComponentsStayExact`: `ComponentsAreExact`. What is popped is a whole class
  (`PoppedIsClass`): its members reach the root, because of those that do not the one
  found first would have a low link that leads to one found earlier; and whoever
  calls the root in turn is in it, because nothing that is popped calls anything that
  stays (`LaterCloses`).

* `KeptStaysSound`: `KeptIsSound`, for lattices that keep or break their laws and
  whatever caps apply. The inductive invariant is `SolverInv` (`SolverInvHolds`): once the
  solver accepts a decomposition it is that of the program, edited or not (`Exact`); no
  component is placed before one that it calls (`OrderIsSound`, where the number of
  callees a component waits for is the number of its condensation edges that leave the
  order, `Awaited`); and of the summaries (`Kept`), all lie below the solution, those of
  the components left behind are the solution, and while a round has changed nothing, the
  members it has passed cover what their bodies derive. The last part is what ends a
  recursion: after a round without a change every member covers its body
  (`RoundIsLast`), and functions that do, and call nothing unfinished, hold the
  solution (`ComponentIsFinal`). That needs the solution to be a fixed point
  that what lies below it does not leave (`SolutionAbsorbs`) and the least one already on
  a part of the program that is closed under calls (`SolutionIsLeast`). A broken
  lattice is harmless because a merge that its probes reject changes nothing and ends
  the run (`MergeKeeps`), and an edit because the solver compares decompositions before it
  begins (`SolveStep`).

  The solution and the solver ask for returned formals in opposite directions, one along
  the flow of data and one against it; `ReturnsAgree` shows that both say the
  same, by turning the closure round. The solution is the end of a recursive function on
  sets of facts, and that one exists is not obvious, since the steps need not settle
  from every set; `SettlingExists` builds it from the orbits, and `SettledIsLeast` shows
  by the number of facts still missing that from the empty set they do settle, in the least
  set they do not leave.

* `CompletionStaysExact`: `CompletionIsExact`. The inductive invariant is `RunInv`
  (`RunInvHolds`), on top of `SolverInv`. That a run that returns is exact needs that no
  component is missing from the order: one that waits for nothing is always ready
  or placed (`ReadyAreKnown`), and of those that wait, the one that reaches the fewest
  functions would wait for one that reaches fewer (`CallsDescend`, `OrderIsComplete`).
  That a cap which fires was too small is a bound on rounds and one on steps. For
  rounds, the facts of a summary fall into groups that do not depend on one another
  (`GroupsApart`): the formals with the cap of the descent, each global by itself,
  and impurity. In every round a group has grown somewhere in the component or all
  members hold what their bodies derive of it (`Moves`); a component of n members holds at
  most 3n facts of a group (`HeldFits`), so a round with a change is not the last of
  3n + 1 (`RoundWasNeeded`). For steps, the evaluations a component may need in those rounds are
  a finite set, and what lies behind the position of the solver (`Spent`) gains one
  of them with each (`EvaluationIsNew`, `SpentGrows`).

  The bound came out of this proof. A first version of the property had 2n + 1
  rounds, which held on all programs of the run: but a formal, the other formal and the
  cap can go round a recursion one after the other, and the last ring of
  `MCAnalysisSession!Rings`, found while the proof was tried, has a change in 10 rounds
  with 4 members.

* `SlicesStayExact`: `SliceIsExact`, for slices in either direction from any node, to any
  number of calls crossed and any cap on the nodes. The inductive invariant is `SliceInv`
  (`SliceInvHolds`). It speaks of *places*: for every number of calls, a set of nodes that
  the dependences do not leave, and that what a pass admits leads from one number to the
  next. `Ascents` are the least places of the first pass, from the criterion;
  `Descents` those of the second, from all of `Ascents`. While a pass runs, what it has found is
  in its places at the depth it was found at, and no entry of the queue promises a
  lesser depth than the node has (`Honest`); below the cap every node found waits in the
  queue at the depth it has, or all its neighbours have the depth it offers them
  (`Thorough`), which an entry that is overtaken by a better one leaves alone. An empty queue
  makes what was found places themselves (`FoundAdmits`), so the first pass ends with all of
  `Ascents` (`Ascended`) and the second with all of `Descents` (`Exactly`). That two
  passes that share one set and one cap lose nothing below the cap needs that the second
  pass never raises a depth of the first. What the reference computes level by level
  (`TwoPasses`) is those least places, too (`TwoPassesAreDescents`). An entry is
  a fold over the neighbours, which `RelaxedVisits` unfolds from the left.

Reachability is a fold that joins edges through one function after the other. That the
recursive function behind it exists, and that its value contains the edges, is
transitive and leaves no closed set, is proved by least counterexample over the number of
functions that are left to join through (`RoundsExist`, `ClosureCloses`). Assumptions:
`ProgramAssumption`, that the functions can be numbered below `usize::MAX - 1`, as the
`debug_assert`s of `decompose` demand (the two largest numbers mean "unvisited" and
"assigned", and the configurations set `MaxIndex` to 99); `BodyAssumption`, that the
nodes of a body are its own and its calls go to functions of the program;
`SolverAssumption`, that caps are natural numbers and seeds a finite set; and
`SliceAssumption`, that a slice starts from a node of its program and may return at
least one, since without either the code returns at once. A body has at
most two call sites and two formals, as in the runs; the number of functions, their
calls and their dependences are arbitrary.

`FunctionAnalysisCache_proofs` is about the cache for every set of keys and plans,
every digest (one that maps all keys to one bucket included), every size and every
pair of limits:

* `CacheInvHolds`: the inductive invariant. What the buckets need (`BucketsAreSound`)
  is that an entry sits in the bucket of its key's digest and is the only one
  with its key, so that the first match of `find` is the only match. From it the
  proof passes from buckets and positions to a map from keys to entries, on which
  a replacement, an extension and a removal are one line each (`MapReplaced`,
  `MapExtended`, `MapReduced`). `UsesAreOrdered` makes the least tuple of
  `enforce_limits` the least last use. `BoundsHold` says why the loop ends with
  something in the cache: the plan inserted last has the clock's time and would
  fit alone, because `insert` bypasses what could not.
* `OccupancyStaysExact`: all four totals are the sums over the slots, no saturating
  subtraction saturates, and between calls both bounds hold.
* `CacheImplementsLru`: the refinement, step by step (`LookupStep`, `StoreStep`,
  `EvictStep` and the others). An eviction forgets the key used least recently, and
  not the one used last (`VictimIsOldest`): if the newest were the victim it would
  be alone, and then no bound is exceeded.

The sums are folds of the community modules, which are recursive functions over the
subsets of a set. That such a function exists, that it does not matter which
element is taken first, and that sums survive renaming is proved here by least
counterexample (`LeastOfNaturals`): induction over data without an induction
theorem. Assumption: `CacheAssumption`.

`IncrementalBuild_proofs` is about sessions of any length, over any texts,
extractors, limits and orders of planning:

* `BuildInvHolds`: the inductive invariant. Overlays follow the pass that runs, with
  the loop variable of the emission as the border (`OverlaysFollowStages`); a plan
  in hand is the plan of its function as it is now until it is emitted
  (`PlansInHandAreRight`), whatever the cache did since it was found; and a cached
  plan is what its key, and nothing else, determines (`CachedPlansFit`,
  `PlanFitsKey`).
* `CacheIsTransparent`: what is emitted is what an uncached build emits, under the
  hypothesis `ExitsAreNeutral`. It is no assumption of the model, since the code
  does not justify it: `incremental_exits` is a session in which it fails, and the
  conclusion with it. `incremental_session` evaluates it for the exits recorded
  there (`NeutralAssumption`). `FlowPlansAreTransparent` is what holds without it:
  control-flow and data-flow plans are right whatever a caller records.
* `ParsesAreWhole`: `OverlaysEqualUncached`, without the hypothesis.

Assumption: `BuildAssumption`. Dependence itself stays a definition: the proof needs
only that it reads edges, stops and exits (`DependenceIsOfEdgesAndExits`).

Only model-checked, because no prover at hand expands what they are made of: the
extractors (they recurse over syntax), everything live, and what rests on `ENABLED`.
Only model-checked so far: the linking of programs, dominators and loops (closures
that are recursive functions), `GivesUpOnlyUnwidened` (it speaks of the loop headers
of a flow), `ValuesAreContained`, `SliceCoversContexts` (its reference derives again, along
paths without summaries, what they stand for), the concurrency findings, diffs
and the price of a script (the least over a set of scripts).

## Findings

* The key of a cached dependence plan leaves out the exits a caller recorded
  with `add_cfg_exit`, although post-dominance reads them; the next dependence
  build replays a plan of the old exits (`incremental_exits`).
  `incremental_session` lets callers record only exits that leave control
  dependence alone, and there every build equals an uncached one.
* A cycle with two entries inside a natural loop has no loop header of its own:
  widening never happens on it and interval analysis fails at its visit cap
  (`dataflow_tangled`). `GivesUpOnlyUnwidened` shows this to be the only way.
* A return inside a branch without an else hands control on to the statement
  after it and is not recorded as an exit of its function (`overlays_return`).
* The summary of a callee keeps one acquisition per lock, with the mode of the
  first; a write after a read of one lock is lost, and with it a deadlock of
  readers that upgrade (`lock_modes`). Every other lock cycle of the programs of
  `analysis_session` is reported.

Smaller observations, listed as hazards: `subgraph` inserts a node once for
every occurrence in the selection, so a repeated identifier is stored twice; the
control-flow overlay has no edges for jumps that cross a finally block; with
block scopes (`BlockScoped` = TRUE) a definition in a block that shadows a name
hides the outer one in the data flow. Of `resolve_calls`: a name that a visible
import binds from a file that is not represented resolves to any one function of
that name in the program, as `ExactViaImport`, although
`docs/api/builder-reference.md` has it remain external evidence; an import
inside a function ranks below a declaration outside of it; and an import that
names nothing its file exports binds everything the file exports.
`CallsReachTheirFunctions` is about calls all of whose imports are exact, and
the imports of its programs stand in the file and name what is exported. A
resolution before the first linkage binds calls by their bare names, which a
later one keeps; the property is about callers that link first.

## Not modelled

Floating-point metrics, similarity (the surrogate above the node limit of
`ged.rs` included), embeddings and pattern catalogues: no state
between calls, and nothing TLC can enumerate. The grammar tables of the
node mapper: thousands of independent names. The external parser. Type states,
heap abstractions, place capabilities, octagons, polyhedra, constant propagation
and liveness: further clients of the solvers that are modelled, to come. Within
the modelled parts: callee paths and typed candidates of `resolve.rs`, Euler intervals and sorted children of the dominator tree,
exits of loops, the matching of many patterns in parallel (`find_matches_many_parallel` is
independent searches), the grouping of straight-line nodes into blocks and the block
identifiers of `builder/cfg.rs`, field and index edges and definition-use chains
of `builder/dfg.rs`, `state_at`, the search for the guard of a statement and the
state nearest to an expression, named effects, channel payload types, session
projections and name flow, layering and cycle metrics, derived queries of the
container, node and edge payload, panics and allocation failure.

## Plan

Done, in this order: graph store and projection cache with readers; composition;
function analysis cache and its refinement; function view and dominators;
cached extraction; loops; data-flow solver; proofs of the graph and the solver, then of
the caches, the search and the assignment, then of composition, the components, the
summaries and the slices;
extractors with their equations and runs; components, summaries and slices;
concurrency analyses with runs; intervals with runs and their proofs; merging and
linking of programs; matching, edit distance and diff.

Next, most important first:

1. Resolution of method calls by types (`resolve_types.rs`), which starts where
   `ResolveCalls` ends.
2. The remaining clients of the data-flow solver (constant propagation,
   liveness) as instances of `DataflowLattice`.
3. Definition-use chains and field flow of `builder/dfg.rs`.
4. The octagon domain, whose closure is a fixed point of its own.

Proofs to come: that interval environments meet the lattice
assumptions; that linking the files of a program in any order gives one result.
