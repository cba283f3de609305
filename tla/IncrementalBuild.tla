---------------------------- MODULE IncrementalBuild ---------------------------
(***************************************************************************)
(* Cached extraction of the per-function overlays                          *)
(* (src/src/builder/incremental.rs): extract_cfg_cached and                *)
(* extract_dfg_cached on every parse, build_pdg_cached when a caller asks  *)
(* for dependence edges.  Each pass looks every function up first, plans   *)
(* the misses (in any order: rayon), and only then emits in function       *)
(* order, inserting what it had to plan; the graph, the plans held from    *)
(* the first phase and the cache all change in between.  One cache lives   *)
(* across revisions of the source.                                         *)
(*                                                                         *)
(* The cache is used through its promise, LruCache; FunctionAnalysisCache  *)
(* is checked to keep it.  What the extractors read is CONSTANT: the CFG   *)
(* is a function of the function's text, the DFG of the text and, when the *)
(* function is not isolated, of its surroundings.  The PDG is computed, by *)
(* FunctionCfg, from what the passes and the caller put in the graph.      *)
(***************************************************************************)
EXTENDS FunctionCfg, Sequences

CONSTANTS
    Texts,         \* source texts of one function
    Surroundings,  \* what lies around it that its data flow may depend on
    Isolated,      \* nothing does: no outer caller, binding or receiver field
    NestedTexts,   \* texts with a nested function
    ShapeOf,       \* [Texts -> Shapes], the local AST with its node kinds
    StopsOf,       \* [Shapes -> SUBSET LocalNodes], Return and Throw nodes
    CfgOf,         \* [Texts -> [edges, exits]], plan_function_cfg
    FlowsOf,       \* [Texts -> [Surroundings -> edges]], plan_function_dfg; 0 is outside
    CallerExits,   \* [Texts -> SUBSET LocalNodes], what a caller may record as exits
    MaxEntries,    \* FunctionAnalysisCacheLimits
    None,
    Revisions,     \* the rows of functions a revision of the source may hold
    MaxBuilds      \* bound on a session

ASSUME BuildAssumption ==
    /\ Isolated \in Surroundings /\ NestedTexts \subseteq Texts
    /\ CallerExits \in [Texts -> SUBSET LocalNodes]
    /\ Revisions \subseteq Seq([text: Texts, around: Surroundings, calls: BOOLEAN])
    /\ MaxEntries \in Nat \ {0} /\ MaxBuilds \in Nat

VARIABLES
    functions,    \* the functions of the graph with their overlays
    stage,        \* "idle", or the pass that runs: "Cfg", "Dfg", "Pdg"
    phase,        \* "lookup", "plan", "emit"
    at,           \* the next function of a serial phase
    held,         \* plans found in the first phase, or None
    fresh,        \* plans computed in the second, or None
    builds,       \* passes started by the caller, up to MaxBuilds
    plan, used, now, found   \* the cache, see LruCache

graph == <<functions>>
batch == <<stage, phase, at, held, fresh>>
cache == <<plan, used, now, found>>
vars == <<functions, stage, phase, at, held, fresh, builds, plan, used, now, found>>

-------------------------------------------------------------------------------
(* Functions, plans and keys *)

\* A function as a parse leaves it: no overlay but the Call edges resolved later.
Parsed(f) ==
    [text |-> f.text, around |-> f.around, calls |-> f.calls, stops |-> StopsOf[ShapeOf[f.text]],
     edges |-> {}, exits |-> {}, flows |-> {}, control |-> {}, data |-> {}]

PlanOf(kind, f) ==
    CASE kind = "Cfg" -> [kind |-> kind, edges |-> CfgOf[f.text].edges, exits |-> CfgOf[f.text].exits]
      [] kind = "Dfg" -> [kind |-> kind, flows |-> FlowsOf[f.text][f.around]]
      [] kind = "Pdg" -> [kind |-> kind, control |-> ControlDependence(f), data |-> DataDependence(f)]

LocalPairs == LocalNodes \X LocalNodes

\* cfg_plan_is_function_local, dfg_plan_.. and pdg_plan_..
IsFunctionLocal(p) ==
    CASE p.kind = "Cfg" -> p.edges \subseteq LocalPairs /\ p.exits \subseteq LocalNodes
      [] p.kind = "Dfg" -> p.flows \subseteq LocalPairs
      [] p.kind = "Pdg" -> p.control \cup p.data \subseteq LocalPairs

\* dfg_dependencies_are_local
DependenciesAreLocal(f) == f.around = Isolated /\ f.text \notin NestedTexts

\* An overlay edge with one end in the function, a Call edge or a flow.
OverlayCrosses(f) == f.calls \/ ~(f.flows \subseteq LocalPairs)

\* Some context of this kind can be formed, so the function has a key.
HasKey(kind, f) ==
    CASE kind = "Cfg" -> TRUE
      [] kind = "Dfg" -> DependenciesAreLocal(f)
      [] kind = "Pdg" -> f.text \notin NestedTexts /\ ~OverlayCrosses(f)


\* Mutant: the key of a dependence plan leaves the data flow out.
KeyWithoutFlows(kind, f) ==
    IF kind = "Pdg" THEN [kind |-> kind, shape |-> ShapeOf[f.text], edges |-> f.edges]
    ELSE [kind |-> kind, text |-> f.text]

\* FunctionContext::key; pdg_context keys the tree's shape and the overlays.
KeyOf(kind, f) ==
    IF kind = "Pdg"
    THEN [kind |-> kind, shape |-> ShapeOf[f.text], edges |-> f.edges, flows |-> f.flows]
    ELSE [kind |-> kind, text |-> f.text]


\* Mutant: a replayed control-flow plan does not restore the recorded exits.
EmittedWithoutExits(f, p) ==
    CASE p.kind = "Cfg" -> [f EXCEPT !.edges = @ \cup p.edges]
      [] p.kind = "Dfg" -> [f EXCEPT !.flows = @ \cup p.flows]
      [] p.kind = "Pdg" -> [f EXCEPT !.control = @ \cup p.control, !.data = @ \cup p.data]

\* emit, emit_validated_local_.. and localize_and_emit_..
Emitted(f, p) ==
    CASE p.kind = "Cfg" -> [f EXCEPT !.edges = @ \cup p.edges, !.exits = @ \cup p.exits]
      [] p.kind = "Dfg" -> [f EXCEPT !.flows = @ \cup p.flows]
      [] p.kind = "Pdg" -> [f EXCEPT !.control = @ \cup p.control, !.data = @ \cup p.data]

-------------------------------------------------------------------------------
(* The cache *)

TooMany(entries) == Cardinality(DOMAIN entries) > MaxEntries

Cache == INSTANCE LruCache WITH Exceeds <- TooMany, Keys <- {}, Artifacts <- {}

Init ==
    /\ functions = <<>> /\ builds = 0
    /\ stage = "idle" /\ phase = "lookup" /\ at = 1
    /\ held = <<>> /\ fresh = <<>>
    /\ Cache!Init

Begin(kind, count) ==
    /\ stage' = kind /\ phase' = "lookup" /\ at' = 1
    /\ held' = [i \in 1..count |-> None] /\ fresh' = [i \in 1..count |-> None]

-------------------------------------------------------------------------------
(* The caller, between passes *)

\* A revision of the source is parsed into a new graph, then extracted.
Parse ==
    /\ stage = "idle" /\ builds < MaxBuilds
    /\ builds' = builds + 1
    /\ \E row \in Revisions :
         /\ functions' = [i \in DOMAIN row |-> Parsed(row[i])]
         /\ Begin("Cfg", Len(row))
    /\ UNCHANGED cache

\* PdgBuilder::build_all_with_analysis_cache and its parallel form.
BuildPdg ==
    /\ stage = "idle" /\ functions # <<>> /\ builds < MaxBuilds
    /\ builds' = builds + 1
    /\ Begin("Pdg", Len(functions))
    /\ UNCHANGED <<functions, cache>>

AddCfgExit ==
    /\ stage = "idle"
    /\ \E i \in DOMAIN functions : \E x \in CallerExits[functions[i].text] :
          functions' = [functions EXCEPT ![i].exits = @ \cup {x}]
    /\ UNCHANGED <<batch, builds, cache>>

-------------------------------------------------------------------------------
(* First phase: every function is looked up before any is planned. *)

InPhase(name) == stage # "idle" /\ phase = name
Here == functions[at]

\* local_.._plan_is_valid: a plan of this kind whose ordinals all exist here.
IsUsable(p) == p # None /\ p.kind = stage /\ IsFunctionLocal(p)

LookupKeyed ==
    /\ InPhase("lookup") /\ at \in DOMAIN functions
    /\ HasKey(stage, Here)
    /\ Cache!Hit(KeyOf(stage, Here)) \/ Cache!Miss(KeyOf(stage, Here))
    /\ held' = [held EXCEPT ![at] = IF IsUsable(found') THEN found' ELSE None]
    /\ at' = at + 1
    /\ UNCHANGED <<functions, stage, phase, fresh, builds>>

LookupBypass ==
    /\ InPhase("lookup") /\ at \in DOMAIN functions
    /\ ~HasKey(stage, Here)
    /\ at' = at + 1
    /\ UNCHANGED <<functions, stage, phase, held, fresh, builds, cache>>

LookupEnd ==
    /\ InPhase("lookup") /\ at \notin DOMAIN functions
    /\ phase' = "plan"
    /\ UNCHANGED <<functions, stage, at, held, fresh, builds, cache>>

-------------------------------------------------------------------------------
(* Second phase: the misses, in any order; the graph is only read. *)


Missing == {i \in DOMAIN functions : held[i] = None /\ fresh[i] = None}

PlanMiss ==
    /\ InPhase("plan")
    /\ \E i \in Missing : fresh' = [fresh EXCEPT ![i] = PlanOf(stage, functions[i])]
    /\ UNCHANGED <<functions, stage, phase, at, held, builds, cache>>

PlanEnd ==
    /\ InPhase("plan") /\ Missing = {}
    /\ phase' = "emit" /\ at' = 1
    /\ UNCHANGED <<functions, stage, held, fresh, builds, cache>>

-------------------------------------------------------------------------------
(* Third phase: emission in function order, insertion of what was planned. *)

Chosen(i) == IF held[i] # None THEN held[i] ELSE fresh[i]

EmitHere ==
    /\ InPhase("emit") /\ at \in DOMAIN functions
    /\ ~TooMany(plan)
    /\ functions' = [functions EXCEPT ![at] = Emitted(@, Chosen(at))]
    /\ at' = at + 1
    /\ UNCHANGED <<stage, phase, held, fresh, builds>>

IsKept(i) ==
    /\ held[i] = None
    /\ HasKey(stage, functions[i]) /\ IsFunctionLocal(fresh[i])

EmitAndInsert ==
    /\ EmitHere
    /\ IsKept(at)
    /\ Cache!Store(KeyOf(stage, Here), Chosen(at)) \/ Cache!Refuse

EmitOnly ==
    /\ EmitHere
    /\ ~IsKept(at)
    /\ UNCHANGED cache

\* enforce_limits, inside the insertion.
Evict ==
    /\ \E k \in DOMAIN plan : Cache!Forget(k)
    /\ UNCHANGED <<graph, batch, builds>>

\* A parse extracts the CFG, then the DFG.
PassEnd ==
    /\ InPhase("emit") /\ at \notin DOMAIN functions
    /\ ~TooMany(plan)
    /\ IF stage = "Cfg" THEN Begin("Dfg", Len(functions)) ELSE Begin("idle", 0)
    /\ UNCHANGED <<functions, builds, cache>>

Next ==
    \/ Parse \/ BuildPdg \/ AddCfgExit
    \/ LookupKeyed \/ LookupBypass \/ LookupEnd
    \/ PlanMiss \/ PlanEnd
    \/ EmitAndInsert \/ EmitOnly \/ Evict \/ PassEnd

Spec == Init /\ [][Next]_vars

-------------------------------------------------------------------------------
(* Properties *)

(* "Cold, hit, edited, and evicted cached builds equal ordinary fresh      *)
(* graphs exactly" (docs/scientific/57-function-analysis-cache-validation  *)
(* .md:14): the plan about to be emitted for a function, whether found in  *)
(* the cache or computed, is the one the extractor computes for it now.    *)
CachedEqualsFresh ==
    InPhase("emit") =>
        \A i \in DOMAIN functions : i >= at => Chosen(i) = PlanOf(stage, functions[i])

(* What a parse leaves behind: between passes every function carries the   *)
(* whole CFG and DFG of its own text and surroundings, and no other exits  *)
(* than its own and those its caller recorded.                             *)
OverlaysEqualUncached ==
    stage = "idle" =>
        \A i \in DOMAIN functions :
            LET f == functions[i] IN
            /\ f.edges = CfgOf[f.text].edges
            /\ f.flows = FlowsOf[f.text][f.around]
            /\ CfgOf[f.text].exits \subseteq f.exits
            /\ f.exits \subseteq CfgOf[f.text].exits \cup CallerExits[f.text]

\* What extraction and a caller leave of a text for build_pdg to read.
Recorded(t, recorded) ==
    [edges |-> CfgOf[t].edges, stops |-> StopsOf[ShapeOf[t]],
     exits |-> CfgOf[t].exits \cup recorded]

(* What pdg_context takes on trust: exits are no part of its key, so texts *)
(* of one shape and one control flow depend alike whatever exits extraction *)
(* and callers recorded.  Not among the assumptions: a caller may record an *)
(* exit for which it fails.                                                *)
ExitsAreNeutral ==
    \A t, u \in Texts : \A X \in SUBSET CallerExits[t], Y \in SUBSET CallerExits[u] :
        ShapeOf[t] = ShapeOf[u] /\ CfgOf[t].edges = CfgOf[u].edges =>
            ControlDependence(Recorded(t, X)) = ControlDependence(Recorded(u, Y))

===============================================================================
