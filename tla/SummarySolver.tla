----------------------------- MODULE SummarySolver -----------------------------
(***************************************************************************)
(* solve_summaries (src/src/analysis/ifds/solver.rs): procedure summaries  *)
(* over the strongly connected components of the call graph, callees       *)
(* first.  The caller computes the decomposition (CallGraphSccs), may      *)
(* change the program, and then solves: the solver rejects a decomposition *)
(* that is no longer the program's, evaluates a component without          *)
(* recursion once, iterates a recursive one from bottom, and stops early   *)
(* at a cap or when the lattice of the client breaks its laws.  A step is  *)
(* one removal from the ready set or one evaluation of a summary.          *)
(*                                                                         *)
(* The summaries are those the slicer consumes                             *)
(* (src/src/analysis/effects.rs): for one function, the globals it may     *)
(* write, whether it is impure, and the formals that may flow to its       *)
(* return value.  A client brings its own lattice; beside a lawful one     *)
(* there are three broken ones, which the solver probes for.               *)
(*                                                                         *)
(* Left out: hand-made decompositions (they are as different from the      *)
(* program's own as an outdated one), and resolvers other than the         *)
(* default; of the effects, reads, writes other than to the one global of  *)
(* each function, places reached through parameters, return constants,     *)
(* masks wider than 64 formals, and the budget of steps of the domain's    *)
(* own traversal.                                                          *)
(***************************************************************************)
EXTENDS CallGraphSccs, Integers

CONSTANTS
    JobsFor(_), \* what may be asked of a program: [caps, lattice, seeds, slices]
    Edits       \* the bodies that an edit may give to a function

\* A program with a function rewritten, added or removed.
Rewrites(prog) ==
    {[prog EXCEPT ![f] = body] : f \in DOMAIN prog, body \in Edits}
        \cup {Append(prog, body) : body \in Edits}
        \cup {[f \in 1..(n - 1) |-> [prog[f] EXCEPT !.sites = [s \in DOMAIN @ |-> @[s] \ {n}]]] :
                  n \in {Len(prog)} \ {1}}

ASSUME SolverAssumption ==
    \A prog \in Programs : \A now \in {prog} \cup Rewrites(prog) : \A request \in JobsFor(now) :
        /\ request.caps \in [functions: Nat, worklist: Nat, rounds: Nat, facts: Nat]
        /\ request.lattice \in {"lawful", "eager", "silent", "lossy"}
        /\ IsFiniteSet(request.seeds)

VARIABLES
    edited,      \* the program changed after it was decomposed
    job,         \* what the caller asked for, once it has
    phase,       \* "call_graph", "order", "summaries", "done"
    remaining_callees, ready, order,
    component, member,   \* position in order, and in that component
    changed, rounds,
    processed, summaries, seed_facts, worklist_steps, cap_events, issues,
    solution     \* for the properties: the summaries the program should get

input == <<program, sccVars, edited, job, solution>>
orderVars == <<remaining_callees, ready, order>>
place == <<component, member, changed, rounds>>
results == <<processed, summaries, seed_facts>>
evidence == <<cap_events, issues>>

vars == <<input, phase, orderVars, place, results, worklist_steps, evidence>>

Nowhere == 0     \* a program point the graph does not hold

-------------------------------------------------------------------------------
(* The effect domain *)

Formals == {1, 2}
Calls == <<4, 7>>              \* the call node of each site
Arguments == << <<5, 6>>, <<8, 9>> >>
LocalNames == 1..10

\* A body in a program of n functions.
FunctionBody(n) ==
    {body \in [sites: Seq(SUBSET (1..n)), parts: SUBSET (LocalNames \X LocalNames),
               data: SUBSET (LocalNames \X LocalNames),
               control: SUBSET (LocalNames \X LocalNames),
               returned: SUBSET LocalNames, deep: BOOLEAN] :
        Len(body.sites) <= Len(Calls)}

\* Call sites, formals and nodes are those of the body's own function, before and
\* after an edit, and calls go to functions of the program.
ASSUME BodyAssumption ==
    \A prog \in Programs : Range(prog) \cup Edits \subseteq FunctionBody(Len(prog))

\* Facts of a summary beside the globals, which have the names of the functions.
Impure == 0
Capped == -1
Returns(i) == -1 - i           \* bit i of param_to_return

Masked(summary) == {i \in Formals : Returns(i) \in summary}

\* default_callee_ref: one function, and only one, is a resolution.
Resolved(site) == Cardinality(site) = 1
Callee(site) == CHOOSE g \in site : TRUE

\* What the descent from a node follows (dependency_children): the arguments of a
\* resolved call that its callee may return, all those of any other call, and
\* otherwise the parts and the definitions.
DependencyEdges(body, known) ==
    LET kept(s) == IF Resolved(body.sites[s]) THEN Masked(known[Callee(body.sites[s])])
                   ELSE Formals
        other == body.parts \cup {<<e[2], e[1]>> : e \in body.data}
    IN {e \in other : \A s \in DOMAIN body.sites : Calls[s] # e[1]}
         \cup UNION {{<<Calls[s], Arguments[s][i]>> : i \in kept(s)} : s \in DOMAIN body.sites}

Visited(body, descent) ==
    body.returned \cup {e[2] : e \in {e \in descent : e[1] \in body.returned}}

\* The descent meets a node that is still on its path, or goes too deep.
GivesUp(body, descent) ==
    body.deep \/ \E n \in Visited(body, descent) : <<n, n>> \in descent

ReturnedFormals(body, known) ==
    LET descent == ClosureOf(DependencyEdges(body, known))
    IN IF GivesUp(body, descent) THEN {Capped} \cup {Returns(i) : i \in Formals}
       ELSE {Returns(i) : i \in Formals \cap Visited(body, descent)}

\* What a callee contributes wherever it is called (compose_callee).
Composed(summary, functions) == summary \cap (functions \cup {Impure, Capped})

Summarize(f, body, known) ==
    {f} \cup ReturnedFormals(body, known)
        \cup {Impure : s \in {s \in DOMAIN body.sites : ~Resolved(body.sites[s])}}
        \cup UNION {Composed(known[Callee(body.sites[s])], DOMAIN known) :
                       s \in {s \in DOMAIN body.sites : Resolved(body.sites[s])}}

-------------------------------------------------------------------------------
(* Helpers *)

Components == call_graph.components
Current == Components[order[component]]
Cyclic == order[component] \in call_graph.cyclic
Evaluated == Ascending(Current)[member]

\* Mutant: a decomposition is accepted when its members are the program's.
StructuralIssues ==
    LET listed == UNION {Components[i] : i \in DOMAIN Components}
    IN {<<"MissingFunction", f>> : f \in Callables \ listed}
         \cup {<<"NotAFunction", f>> : f \in listed \ Callables}

\* What an unchanged program would decompose into is asked again.
ValidateCallGraph ==
    LET listed == UNION {Components[i] : i \in DOMAIN Components}
    IN {<<"MissingFunction", f>> : f \in Callables \ listed}
         \cup {<<"NotAFunction", f>> : f \in listed \ Callables}
         \cup (IF call_graph # ExactDecomposition(program) THEN {<<"StaleCallGraph">>} ELSE {})

\* join of the client: the joined value, and whether it reports a change.
Joined(left, right) == IF job.lattice = "lossy" THEN right ELSE left \cup right

Reports(left, right) ==
    CASE job.lattice = "eager" -> TRUE
      [] job.lattice = "silent" -> FALSE
      [] OTHER -> Joined(left, right) # left

\* The value kept, unless the client breaks a law of lattices.
MergeCandidate(f, candidate) ==
    LET current == summaries[f]
        joined == Joined(current, candidate)
        reported == Reports(current, candidate)
    IN [lawful |-> /\ ~Reports(candidate, candidate)
                   /\ candidate \subseteq Joined(candidate, candidate)
                   /\ reported # (candidate \subseteq current)
                   /\ current \subseteq joined /\ candidate \subseteq joined,
        changed |-> reported,
        value |-> IF reported THEN joined ELSE current]

\* The facts kept at each point of f, the least first, and the points that had more.
SeedFacts(f) ==
    LET facts == [p \in {f} |-> {s[3] : s \in {s \in job.seeds : s[1] = f /\ s[2] = p}}]
    IN [kept |-> [p \in {f} |-> {x \in facts[p] :
                       Cardinality({y \in facts[p] : y <= x}) <= job.caps.facts}],
        over |-> {<<"FactsPerNode", f, p>> :
                     p \in {p \in {f} : Cardinality(facts[p]) > job.caps.facts}},
        issues |-> {<<IF s[2] \in Callables THEN "SeedOutsideFunction" ELSE "UnknownSeedNode", f,
                      s[2]>> : s \in {s \in job.seeds : s[1] = f /\ s[2] # f}}]

-------------------------------------------------------------------------------
(* The solution, for the properties: reachability over the calls for the    *)
(* effects, and for the returned formals rounds over the whole program,     *)
(* each of them forwards along the edges of the bodies.                     *)

\* The influences in one body, when its calls pass the formals that known, a set
\* of pairs <<function, fact>>, has for the function called.
InfluenceEdges(body, known) ==
    LET passes(s) == IF Resolved(body.sites[s])
                     THEN {i \in Formals : <<Callee(body.sites[s]), Returns(i)>> \in known}
                     ELSE Formals
        calls == {Calls[s] : s \in DOMAIN body.sites}
        plain == body.data \cup {<<e[2], e[1]>> : e \in body.parts}
    IN {e \in plain : e[2] \notin calls}
         \cup UNION {{<<Arguments[s][i], Calls[s]>> : i \in passes(s)} : s \in DOMAIN body.sites}

ReturnFacts(f, known) ==
    LET influence == ClosureOf(InfluenceEdges(program[f], known))
        leads(n) == n \in program[f].returned \/ \E r \in program[f].returned : <<n, r>> \in influence
        loops == \E e \in influence : e[1] = e[2] /\ leads(e[1])
    IN IF program[f].deep \/ loops THEN {Capped} \cup {Returns(i) : i \in Formals}
       ELSE {Returns(i) : i \in {i \in Formals : leads(i)}}

\* Rounds over the whole program until nothing is new.
ReturnSolution ==
    LET facts == Callables \X ({Capped} \cup {Returns(i) : i \in Formals})
        settled[known \in SUBSET facts] ==
            LET next == UNION {{f} \X ReturnFacts(f, known) : f \in Callables}
            IN IF next = known THEN known ELSE settled[next]
    IN settled[{}]

Solution ==
    LET resolved(f) == {s \in DOMAIN program[f].sites : Resolved(program[f].sites[s])}
        calls == ClosureOf(UNION {{<<f, Callee(program[f].sites[s])>> : s \in resolved(f)} :
                                     f \in Callables})
        returning == ReturnSolution
        reached(f) == {f} \cup {e[2] : e \in {e \in calls : e[1] = f}}
    IN [f \in Callables |->
           reached(f) \cup {e[2] : e \in {e \in returning : e[1] = f}}
               \cup {Capped : e \in {e \in returning : e[1] \in reached(f) /\ e[2] = Capped}}
               \cup {Impure : g \in {g \in reached(f) : resolved(g) # DOMAIN program[g].sites}}]

-------------------------------------------------------------------------------
(* Initial states *)

NothingSolved ==
    /\ edited = FALSE
    /\ job = {} /\ phase = "call_graph"
    /\ remaining_callees = <<>> /\ ready = {} /\ order = <<>>
    /\ component = 1 /\ member = 1 /\ changed = FALSE /\ rounds = 0
    /\ processed = <<>> /\ summaries = <<>> /\ seed_facts = <<>>
    /\ worklist_steps = 0 /\ cap_events = {} /\ issues = {}
    /\ solution = <<>>

Init == SccInit /\ NothingSolved

-------------------------------------------------------------------------------
(* The caller *)

Decompose ==
    /\ phase = "call_graph"
    /\ SccNext
    /\ UNCHANGED <<edited, job, solution, phase, orderVars, place, results, worklist_steps,
                   evidence>>

\* A function is rewritten, added or removed while the decomposition is kept.
Edit ==
    /\ phase = "call_graph" /\ call_graph # Undecided /\ ~edited
    /\ edited' = TRUE
    /\ program' \in Rewrites(program)
    /\ UNCHANGED <<sccVars, job, solution, phase, orderVars, place, results, worklist_steps,
                   evidence>>

Solve ==
    /\ phase = "call_graph" /\ call_graph # Undecided
    /\ solution' = Solution
    /\ job' \in JobsFor(program)
    /\ cap_events' = IF Len(program) > job'.caps.functions THEN {<<"Callables">>} ELSE {}
    /\ issues' = IF cap_events' # {} THEN {} ELSE ValidateCallGraph
    /\ phase' = IF cap_events' \cup issues' # {} THEN "done" ELSE "order"
    /\ remaining_callees' = [i \in DOMAIN Components |->
                                Cardinality({e \in call_graph.edges : e[1] = i})]
    /\ ready' = {i \in DOMAIN Components : \A e \in call_graph.edges : e[1] # i}
    /\ UNCHANGED <<program, sccVars, edited, order, place, results, worklist_steps>>

-------------------------------------------------------------------------------
(* Work *)

Budget == worklist_steps < job.caps.worklist

ConsumeWorkStep == Budget /\ worklist_steps' = worklist_steps + 1

\* A step is due and the budget is spent.
OutOfWork ==
    /\ \/ phase = "order" /\ ready # {}
       \/ phase = "summaries" /\ component <= Len(order) /\ member <= Cardinality(Current)
    /\ ~(phase = "summaries" /\ Cyclic /\ job.caps.rounds = 0)
    /\ ~Budget
    /\ phase' = "done"
    /\ cap_events' = cap_events \cup {<<"WorklistSteps">>}
    /\ UNCHANGED <<input, orderVars, place, results, worklist_steps, issues>>

-------------------------------------------------------------------------------
(* reverse_topological_components *)

FirstReady == CHOOSE i \in ready : \A j \in ready : Min(Components[i]) <= Min(Components[j])

Callers(i) == {e[1] : e \in {e \in call_graph.edges : e[2] = i}}

OrderNext ==
    /\ phase = "order" /\ ready # {}
    /\ ConsumeWorkStep
    /\ LET i == FirstReady
       IN /\ order' = Append(order, i)
          /\ remaining_callees' = [j \in DOMAIN Components |->
                 remaining_callees[j] - IF j \in Callers(i) THEN 1 ELSE 0]
          /\ ready' = (ready \ {i}) \cup {j \in Callers(i) : remaining_callees'[j] = 0}
    /\ UNCHANGED <<input, phase, place, results, evidence>>

\* The order is complete (the condensation of a validated decomposition has no
\* cycle); the seeds of every function are read before any summary.
CollectSeeds ==
    /\ phase = "order" /\ ready = {}
    /\ seed_facts' = [f \in Callables |-> SeedFacts(f).kept]
    /\ cap_events' = UNION {SeedFacts(f).over : f \in Callables}
    /\ issues' = UNION {SeedFacts(f).issues : f \in Callables}
    /\ IF cap_events' \cup issues' # {}
       THEN phase' = "done" /\ UNCHANGED summaries
       ELSE phase' = "summaries" /\ summaries' = [f \in Callables |-> {}]
    /\ UNCHANGED <<input, orderVars, place, processed, worklist_steps>>

-------------------------------------------------------------------------------
(* The components in order *)

\* Mutant: the last member alone decides whether the round changed anything.
LastMemberChanged(now) == now

AnyMemberChanged(now) == changed \/ now

NextComponent == component' = component + 1 /\ member' = 1 /\ changed' = FALSE /\ rounds' = 0

\* One evaluation: the only one of a function that is not recursive, the next
\* one of the round in a recursive component.
Evaluate ==
    /\ phase = "summaries" /\ component <= Len(order) /\ member <= Cardinality(Current)
    /\ Cyclic => job.caps.rounds > 0
    /\ ConsumeWorkStep
    /\ LET f == Evaluated
           merge == MergeCandidate(f, Summarize(f, program[f], summaries))
       IN /\ processed' = IF f \in Range(processed) THEN processed ELSE Append(processed, f)
          /\ IF ~merge.lawful
             THEN /\ phase' = "done" /\ issues' = issues \cup {<<"LatticeLaw", f>>}
                  /\ UNCHANGED <<summaries, component, member, changed, rounds>>
             ELSE /\ summaries' = [summaries EXCEPT ![f] = merge.value]
                  /\ IF Cyclic
                     THEN /\ member' = member + 1 /\ changed' = AnyMemberChanged(merge.changed)
                          /\ UNCHANGED <<component, rounds>>
                     ELSE NextComponent
                  /\ UNCHANGED <<phase, issues>>
    /\ UNCHANGED <<input, orderVars, seed_facts, cap_events>>

RoundCap == {<<"SccIterations", order[component]>>}

NoRounds ==
    /\ phase = "summaries" /\ component <= Len(order) /\ Cyclic /\ job.caps.rounds = 0
    /\ phase' = "done" /\ cap_events' = cap_events \cup RoundCap
    /\ UNCHANGED <<input, orderVars, place, results, worklist_steps, issues>>

EndRound ==
    /\ phase = "summaries" /\ component <= Len(order) /\ member > Cardinality(Current)
    /\ IF ~changed THEN NextComponent /\ UNCHANGED <<phase, cap_events>>
       ELSE /\ rounds' = rounds + 1
            /\ IF rounds' >= job.caps.rounds
               THEN /\ phase' = "done" /\ cap_events' = cap_events \cup RoundCap
                    /\ UNCHANGED <<component, member, changed>>
               ELSE /\ member' = 1 /\ changed' = FALSE
                    /\ UNCHANGED <<phase, cap_events, component>>
    /\ UNCHANGED <<input, orderVars, results, worklist_steps, issues>>

Return ==
    /\ phase = "summaries" /\ component > Len(order)
    /\ phase' = "done"
    /\ UNCHANGED <<input, orderVars, place, results, worklist_steps, evidence>>

SolverNext ==
    \/ OutOfWork \/ OrderNext \/ CollectSeeds \/ Evaluate \/ NoRounds \/ EndRound \/ Return

Next == Decompose \/ Edit \/ Solve \/ SolverNext

Spec == Init /\ [][Next]_vars

\* One thread runs the decomposition and the solver to their end.
FairSpec == Spec /\ WF_vars(Decompose \/ SolverNext)

-------------------------------------------------------------------------------
(* Properties *)

\* The decomposition is the partition into mutually recursive functions, which
\* calls itself cyclic and orders itself accordingly.
ComponentsAreExact ==
    phase = "call_graph" /\ ~edited /\ call_graph # Undecided =>
        call_graph = ExactDecomposition(program)

Summarized == phase \in {"summaries", "done"} /\ summaries # <<>>

\* Wherever the solver stops, at any cap and with any client lattice, what it
\* keeps claims no more than the solution: a partial result is a prefix.
PartialIsBelow ==
    Summarized => \A f \in Callables : summaries[f] \subseteq solution[f]

\* No function is evaluated before the functions it calls outside its own
\* component are final, also in what a capped or failed run returns.
CalleesAreFinal ==
    Summarized =>
        LET own == [f \in Callables |-> SelectInSeq(Components, LAMBDA c : f \in c)]
        IN \A f \in Range(processed) : \A e \in CallGraphEdges(program) :
              e[1] = f /\ own[e[2]] # own[f] => summaries[e[2]] = solution[e[2]]

\* What a caller reads of a run, finished or not, is sound, and final wherever
\* another component has built on it.
KeptIsSound == PartialIsBelow /\ CalleesAreFinal

\* is_complete() can be relied on: without a cap event or an issue, the program
\* is the one that was decomposed, every function was evaluated, every seed kept
\* and every summary is the solution of the program as it is now.
CompleteIsLeast ==
    phase = "done" /\ cap_events = {} /\ issues = {} =>
        /\ summaries = solution
        /\ Range(processed) = Callables
        /\ \A s \in job.seeds : s[1] \in Callables => s[3] \in seed_facts[s[1]][s[2]]

\* Every round of a recursion but the last gives some member a formal or a cap that
\* it did not have, or hands a global or impurity to a member more: no round is due
\* beyond one for each member, formal and cap, and the one that finds nothing new.
RoundsNeeded(i) ==
    IF i \in call_graph.cyclic
    THEN (Cardinality(Formals) + 1) * Cardinality(Components[i]) + 1 ELSE 1

WorkNeeded ==
    Cardinality(DOMAIN Components)
        + Cardinality(UNION {(1..RoundsNeeded(i)) \X Components[i] : i \in DOMAIN Components})

\* A cap fires only on a program that needs more than it allows: the work of a
\* component is quadratic in its members, whatever the order of their names.
SufficientCapsNeverFire ==
    \A event \in cap_events :
        /\ event[1] = "WorklistSteps" => job.caps.worklist < WorkNeeded
        /\ event[1] = "SccIterations" => job.caps.rounds < RoundsNeeded(event[2])

\* Complete means exact, and only a program that needs more than its caps is not.
CompletionIsExact == CompleteIsLeast /\ SufficientCapsNeverFire
===============================================================================
