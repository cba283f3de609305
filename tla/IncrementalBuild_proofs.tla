------------------------ MODULE IncrementalBuild_proofs ------------------------
(***************************************************************************)
(* Cached extraction for every set of texts, every extractor, every limit  *)
(* of the cache and sessions of any length: what is emitted is what an     *)
(* uncached build computes, and the overlays a parse leaves are whole.     *)
(***************************************************************************)
EXTENDS IncrementalBuild, TLAPS

-------------------------------------------------------------------------------
(* What dependence reads of a function *)

(* The view of a function is that of any other with the same control flow. *)
LEMMA ViewIsOfEdges ==
    ASSUME NEW f, NEW g, f.edges = g.edges
    PROVE  ViewNodes(f) = ViewNodes(g) /\ ViewEdges(f) = ViewEdges(g)
  <1>1. ViewNodes(f) = ViewNodes(g)
    BY DEF ViewNodes
  <1> QED
    BY <1>1 DEF ViewEdges

(* compute_control_dependence reads the edges, the stops and the exits.    *)
LEMMA DependenceIsOfEdgesAndExits ==
    ASSUME NEW f, NEW g, f.edges = g.edges, f.stops = g.stops, f.exits = g.exits
    PROVE  ControlDependence(f) = ControlDependence(g)
  <1>1. ViewNodes(f) = ViewNodes(g) /\ ViewEdges(f) = ViewEdges(g)
    BY ViewIsOfEdges
  <1>2. ExitLike(f) = ExitLike(g)
    BY <1>1 DEF ExitLike
  <1>3. SyntheticSuccessors(f) = SyntheticSuccessors(g)
    BY <1>1, <1>2 DEF SyntheticSuccessors
  <1>4. BackwardGraph(f) = BackwardGraph(g)
    BY <1>1, <1>3 DEF BackwardGraph
  <1>5. NoPostDominators(f) = NoPostDominators(g)
    BY <1>1, <1>2 DEF NoPostDominators
  <1> QED
    BY <1>1, <1>4, <1>5 DEF ControlDependence

-------------------------------------------------------------------------------
(* The invariant *)

\* Where the keys of a kind are known to determine its plans.
Governed(kind) == kind # "Pdg" \/ ExitsAreNeutral

\* The whole function the fields of a record make.
IsFunction(f) ==
    /\ f = [text |-> f.text, around |-> f.around, calls |-> f.calls, stops |-> f.stops,
            edges |-> f.edges, exits |-> f.exits, flows |-> f.flows,
            control |-> f.control, data |-> f.data]
    /\ f.text \in Texts /\ f.around \in Surroundings
    /\ f.stops = StopsOf[ShapeOf[f.text]]

HasNoCfg(f) == f.edges = {} /\ f.exits = {}

HasOwnCfg(f) == f.edges = CfgOf[f.text].edges /\ f.exits = CfgOf[f.text].exits

HasFlows(f) == f.flows = FlowsOf[f.text][f.around]

\* What a parse leaves, with the exits its caller recorded since.
IsOverlaid(f) ==
    /\ f.edges = CfgOf[f.text].edges /\ HasFlows(f)
    /\ CfgOf[f.text].exits \subseteq f.exits
    /\ f.exits \subseteq CfgOf[f.text].exits \cup CallerExits[f.text]

\* The pass that runs has emitted the overlay of the function at i.
IsEmitted(i) == phase = "emit" /\ i < at

IsDue(i) == i \in DOMAIN functions /\ ~IsEmitted(i)

RowIsSound ==
    /\ DOMAIN functions = 1..Len(functions) /\ Len(functions) \in Nat
    /\ stage \in {"idle", "Cfg", "Dfg", "Pdg"} /\ phase \in {"lookup", "plan", "emit"}
    /\ at \in Nat \ {0}
    /\ \A i \in DOMAIN functions : IsFunction(functions[i])

OverlaysFollowStages ==
    \A i \in DOMAIN functions :
        /\ stage = "Cfg" =>
              /\ functions[i].flows = {}
              /\ IsEmitted(i) => HasOwnCfg(functions[i])
              /\ ~IsEmitted(i) => HasNoCfg(functions[i])
        /\ stage = "Dfg" =>
              /\ HasOwnCfg(functions[i])
              /\ IsEmitted(i) => HasFlows(functions[i])
              /\ ~IsEmitted(i) => functions[i].flows = {}
        /\ stage \in {"idle", "Pdg"} => IsOverlaid(functions[i])

\* A plan that was found is of the right kind, and the right one if its key is.
HeldIsRight(i) ==
    held[i] # None =>
        /\ held[i].kind = stage
        /\ IsDue(i) /\ Governed(stage) => held[i] = PlanOf(stage, functions[i])

FreshIsRight(i) ==
    fresh[i] # None =>
        /\ fresh[i].kind = stage
        /\ IsDue(i) => fresh[i] = PlanOf(stage, functions[i])

PlansInHandAreRight ==
    stage # "idle" =>
        /\ DOMAIN held = DOMAIN functions /\ DOMAIN fresh = DOMAIN functions
        /\ \A i \in DOMAIN functions :
              /\ HeldIsRight(i) /\ FreshIsRight(i)
              /\ phase = "emit" => held[i] # None \/ fresh[i] # None

\* What the plan under a key is, told from the key alone.
CfgPlan(t) == [kind |-> "Cfg", edges |-> CfgOf[t].edges, exits |-> CfgOf[t].exits]

DfgPlan(t) == [kind |-> "Dfg", flows |-> FlowsOf[t][Isolated]]

PdgPlan(t, X, flows) ==
    [kind |-> "Pdg", control |-> ControlDependence(Recorded(t, X)), data |-> flows \cap LocalPairs]

PlanFitsKey(k, p) ==
    /\ k.kind = "Cfg" => p = CfgPlan(k.text)
    /\ k.kind = "Dfg" => p = DfgPlan(k.text)
    /\ k.kind = "Pdg" /\ ExitsAreNeutral =>
          \A t \in Texts : \A X \in SUBSET CallerExits[t] :
              ShapeOf[t] = k.shape /\ CfgOf[t].edges = k.edges => p = PdgPlan(t, X, k.flows)

CachedPlansFit == \A k \in DOMAIN plan : PlanFitsKey(k, plan[k])

BuildInv ==
    RowIsSound /\ OverlaysFollowStages /\ PlansInHandAreRight /\ CachedPlansFit

-------------------------------------------------------------------------------
(* What a key determines *)

(* A whole function depends as its text with some exits recorded does.     *)
LEMMA DependenceOfOverlaid ==
    ASSUME NEW f, IsFunction(f), IsOverlaid(f)
    PROVE  \E X \in SUBSET CallerExits[f.text] :
               PlanOf("Pdg", f) = PdgPlan(f.text, X, f.flows)
  <1> DEFINE X == f.exits \ CfgOf[f.text].exits
             r == Recorded(f.text, X)
  <1>1. X \in SUBSET CallerExits[f.text]
    BY DEF IsOverlaid
  <1>2. r.edges = f.edges /\ r.stops = f.stops
    BY DEF Recorded, IsOverlaid, IsFunction
  <1>3. r.exits = f.exits
    BY DEF Recorded, IsOverlaid
  <1>4. ControlDependence(f) = ControlDependence(r)
    <2> HIDE DEF r
    <2> QED
      BY <1>2, <1>3, DependenceIsOfEdgesAndExits
  <1>5. PlanOf("Pdg", f) = PdgPlan(f.text, X, f.flows)
    BY <1>4 DEF PlanOf, PdgPlan, DataDependence, LocalPairs
  <1> QED
    BY <1>1, <1>5

(* The plan cached under a function's key is the one that would be planned *)
(* for it now: cfg_context, dfg_context and pdg_context leave nothing out. *)
LEMMA KeyDeterminesPlan ==
    ASSUME NEW kind \in {"Cfg", "Dfg", "Pdg"}, NEW f, IsFunction(f), HasKey(kind, f),
           kind = "Pdg" => IsOverlaid(f), Governed(kind),
           NEW p, PlanFitsKey(KeyOf(kind, f), p)
    PROVE  p = PlanOf(kind, f)
  <1>1. CASE kind = "Cfg"
    <2>1. KeyOf(kind, f).kind = "Cfg" /\ KeyOf(kind, f).text = f.text
      BY <1>1 DEF KeyOf
    <2> QED
      BY <1>1, <2>1 DEF PlanFitsKey, PlanOf, CfgPlan
  <1>2. CASE kind = "Dfg"
    <2>1. KeyOf(kind, f).kind = "Dfg" /\ KeyOf(kind, f).text = f.text
      BY <1>2 DEF KeyOf
    <2>2. f.around = Isolated
      BY <1>2 DEF HasKey, DependenciesAreLocal
    <2> QED
      BY <1>2, <2>1, <2>2 DEF PlanFitsKey, PlanOf, DfgPlan
  <1>3. CASE kind = "Pdg"
    <2>1. /\ KeyOf(kind, f).kind = "Pdg" /\ KeyOf(kind, f).shape = ShapeOf[f.text]
          /\ KeyOf(kind, f).edges = f.edges /\ KeyOf(kind, f).flows = f.flows
      BY <1>3 DEF KeyOf
    <2>2. f.edges = CfgOf[f.text].edges /\ f.text \in Texts
      BY <1>3 DEF IsOverlaid, IsFunction
    <2>3. PICK X \in SUBSET CallerExits[f.text] : PlanOf("Pdg", f) = PdgPlan(f.text, X, f.flows)
      BY <1>3, DependenceOfOverlaid
    <2>4. ExitsAreNeutral
      BY <1>3 DEF Governed
    <2>5. p = PdgPlan(f.text, X, f.flows)
      BY <2>1, <2>2, <2>4 DEF PlanFitsKey
    <2> QED
      BY <1>3, <2>3, <2>5
  <1> QED
    BY <1>1, <1>2, <1>3

(* What is planned for a function may be cached under its key.             *)
LEMMA PlanFitsItsKey ==
    ASSUME NEW kind \in {"Cfg", "Dfg", "Pdg"}, NEW f, IsFunction(f), HasKey(kind, f),
           kind = "Pdg" => IsOverlaid(f)
    PROVE  PlanFitsKey(KeyOf(kind, f), PlanOf(kind, f))
  <1>1. CASE kind = "Cfg"
    <2>1. KeyOf(kind, f).kind = "Cfg" /\ KeyOf(kind, f).text = f.text
      BY <1>1 DEF KeyOf
    <2> QED
      BY <1>1, <2>1 DEF PlanFitsKey, PlanOf, CfgPlan
  <1>2. CASE kind = "Dfg"
    <2>1. KeyOf(kind, f).kind = "Dfg" /\ KeyOf(kind, f).text = f.text
      BY <1>2 DEF KeyOf
    <2>2. f.around = Isolated
      BY <1>2 DEF HasKey, DependenciesAreLocal
    <2> QED
      BY <1>2, <2>1, <2>2 DEF PlanFitsKey, PlanOf, DfgPlan
  <1>3. CASE kind = "Pdg"
    <2>1. /\ KeyOf(kind, f).kind = "Pdg" /\ KeyOf(kind, f).shape = ShapeOf[f.text]
          /\ KeyOf(kind, f).edges = f.edges /\ KeyOf(kind, f).flows = f.flows
      BY <1>3 DEF KeyOf
    <2>2. f.edges = CfgOf[f.text].edges /\ f.text \in Texts
      BY <1>3 DEF IsOverlaid, IsFunction
    <2>3. PICK X \in SUBSET CallerExits[f.text] : PlanOf("Pdg", f) = PdgPlan(f.text, X, f.flows)
      BY <1>3, DependenceOfOverlaid
    <2>4. ASSUME ExitsAreNeutral, NEW t \in Texts, NEW Y \in SUBSET CallerExits[t],
                 ShapeOf[t] = KeyOf(kind, f).shape, CfgOf[t].edges = KeyOf(kind, f).edges
          PROVE  PlanOf(kind, f) = PdgPlan(t, Y, KeyOf(kind, f).flows)
      <3>1. ShapeOf[t] = ShapeOf[f.text] /\ CfgOf[t].edges = CfgOf[f.text].edges
        BY <2>1, <2>2, <2>4
      <3>2. ControlDependence(Recorded(t, Y)) = ControlDependence(Recorded(f.text, X))
        BY <2>2, <2>4, <3>1 DEF ExitsAreNeutral
      <3> QED
        BY <1>3, <2>1, <2>3, <3>2 DEF PdgPlan
    <2> QED
      BY <2>1, <2>4 DEF PlanFitsKey
  <1> QED
    BY <1>1, <1>2, <1>3

-------------------------------------------------------------------------------
(* The caller *)

\* No pass runs but one that has just begun, on the functions there are now.
HasBegun(kind) ==
    /\ stage' = kind /\ phase' = "lookup" /\ at' = 1
    /\ kind # "idle" =>
          /\ DOMAIN held' = DOMAIN functions' /\ DOMAIN fresh' = DOMAIN functions'
          /\ \A i \in DOMAIN functions' : held'[i] = None /\ fresh'[i] = None

(* A pass begins with no plan in hand.                                     *)
LEMMA BegunHoldsNothing ==
    ASSUME NEW kind \in {"idle", "Cfg", "Dfg", "Pdg"}, HasBegun(kind)
    PROVE  PlansInHandAreRight'
  BY DEF HasBegun, PlansInHandAreRight, HeldIsRight, FreshIsRight

(* The initial state satisfies the invariant.                              *)
LEMMA InitIsSound == Init => BuildInv
  <1> SUFFICES ASSUME Init PROVE BuildInv
    OBVIOUS
  <1>1. functions = <<>> /\ stage = "idle" /\ phase = "lookup" /\ at = 1 /\ DOMAIN plan = {}
    BY DEF Init, Cache!Init
  <1>2. RowIsSound
    BY <1>1 DEF RowIsSound
  <1>3. OverlaysFollowStages /\ PlansInHandAreRight /\ CachedPlansFit
    BY <1>1 DEF OverlaysFollowStages, PlansInHandAreRight, CachedPlansFit
  <1> QED
    BY <1>2, <1>3 DEF BuildInv

(* A parsed function is whole and has no overlay.                          *)
LEMMA ParsedIsBare ==
    ASSUME NEW f, f.text \in Texts, f.around \in Surroundings
    PROVE  /\ IsFunction(Parsed(f)) /\ HasNoCfg(Parsed(f)) /\ Parsed(f).flows = {}
  BY DEF Parsed, IsFunction, HasNoCfg

(* Parsing starts over: functions without overlays, and the cache is kept. *)
LEMMA ParseKeepsInv ==
    ASSUME BuildInv, Parse
    PROVE  BuildInv'
  <1>1. PICK row \in Revisions :
          /\ functions' = [i \in DOMAIN row |-> Parsed(row[i])]
          /\ Begin("Cfg", Len(row))
    BY DEF Parse
  <1>2. /\ Len(row) \in Nat /\ DOMAIN row = 1..Len(row)
        /\ \A i \in DOMAIN row : row[i].text \in Texts /\ row[i].around \in Surroundings
    <2> DEFINE Placed == [text: Texts, around: Surroundings, calls: BOOLEAN]
    <2>1. row \in Seq(Placed)
      BY BuildAssumption
    <2>2. Len(row) \in Nat /\ DOMAIN row = 1..Len(row)
      <3> HIDE DEF Placed
      <3> QED
        BY <2>1
    <2>3. \A i \in DOMAIN row : row[i] \in Placed
      <3> HIDE DEF Placed
      <3> QED
        BY <2>1
    <2> QED
      BY <2>2, <2>3
  <1>3. DOMAIN functions' = 1..Len(row) /\ Len(functions') = Len(row)
    BY <1>1, <1>2
  <1>4. \A i \in DOMAIN functions' :
           /\ IsFunction(functions'[i]) /\ HasNoCfg(functions'[i]) /\ functions'[i].flows = {}
    BY <1>1, <1>2, <1>3, ParsedIsBare
  <1>5. HasBegun("Cfg")
    BY <1>1, <1>3 DEF Begin, HasBegun
  <1>6. RowIsSound'
    BY <1>2, <1>3, <1>4, <1>5 DEF RowIsSound, HasBegun
  <1>7. OverlaysFollowStages'
    BY <1>4, <1>5 DEF OverlaysFollowStages, HasBegun, IsEmitted
  <1>8. PlansInHandAreRight'
    BY <1>5, BegunHoldsNothing
  <1>9. CachedPlansFit'
    BY DEF BuildInv, CachedPlansFit, Parse, cache
  <1> QED
    BY <1>6, <1>7, <1>8, <1>9 DEF BuildInv

(* A call of build_pdg begins on whole functions.                          *)
LEMMA BuildPdgKeepsInv ==
    ASSUME BuildInv, BuildPdg
    PROVE  BuildInv'
  <1>1. stage = "idle" /\ functions' = functions /\ plan' = plan
    BY DEF BuildPdg, cache
  <1>2. HasBegun("Pdg")
    BY <1>1 DEF BuildInv, RowIsSound, BuildPdg, Begin, HasBegun
  <1>3. RowIsSound'
    BY <1>1, <1>2 DEF BuildInv, RowIsSound, HasBegun
  <1>4. OverlaysFollowStages'
    BY <1>1, <1>2 DEF BuildInv, OverlaysFollowStages, HasBegun
  <1>5. PlansInHandAreRight'
    BY <1>2, BegunHoldsNothing
  <1>6. CachedPlansFit'
    BY <1>1 DEF BuildInv, CachedPlansFit
  <1> QED
    BY <1>3, <1>4, <1>5, <1>6 DEF BuildInv

(* A recorded exit is one its caller may record; keys and plans stay.      *)
LEMMA AddCfgExitKeepsInv ==
    ASSUME BuildInv, AddCfgExit
    PROVE  BuildInv'
  <1> USE DEF BuildInv
  <1>1. /\ stage = "idle" /\ UNCHANGED <<stage, phase, at, plan>>
    BY DEF AddCfgExit, batch, cache
  <1>a. PICK i \in DOMAIN functions : \E x \in CallerExits[functions[i].text] :
           functions' = [functions EXCEPT ![i].exits = @ \cup {x}]
    BY DEF AddCfgExit
  <1>2. PICK x \in CallerExits[functions[i].text] :
           functions' = [functions EXCEPT ![i].exits = @ \cup {x}]
    BY <1>a
  <1> DEFINE f == functions[i]
             g == [f EXCEPT !.exits = f.exits \cup {x}]
  <1>3. functions' = [functions EXCEPT ![i] = g]
    BY <1>2
  <1>4. IsFunction(f) /\ IsOverlaid(f)
    BY <1>1 DEF RowIsSound, OverlaysFollowStages
  <1>5. /\ g.text = f.text /\ g.around = f.around /\ g.stops = f.stops /\ g.edges = f.edges
        /\ g.exits = f.exits \cup {x} /\ g.flows = f.flows /\ g.calls = f.calls
        /\ g.control = f.control /\ g.data = f.data
        /\ DOMAIN g = DOMAIN f
    BY <1>4 DEF IsFunction
  <1>6. IsFunction(g)
    BY <1>4, <1>5 DEF IsFunction
  <1>7. IsOverlaid(g)
    BY <1>2, <1>4, <1>5 DEF IsOverlaid, HasFlows
  <1> HIDE DEF g
  <1>8. /\ DOMAIN functions' = DOMAIN functions /\ functions'[i] = g
        /\ \A j \in DOMAIN functions : j # i => functions'[j] = functions[j]
    BY <1>3
  <1>9. Len(functions') = Len(functions)
    BY <1>8 DEF RowIsSound
  <1>10. RowIsSound'
    BY <1>1, <1>6, <1>8, <1>9 DEF RowIsSound
  <1>11. OverlaysFollowStages'
    BY <1>1, <1>7, <1>8 DEF OverlaysFollowStages
  <1>12. PlansInHandAreRight'
    BY <1>1 DEF PlansInHandAreRight
  <1>13. CachedPlansFit'
    BY <1>1 DEF CachedPlansFit
  <1> QED
    BY <1>10, <1>11, <1>12, <1>13

-------------------------------------------------------------------------------
(* The three phases *)

(* While nothing is emitted, the row and its overlays stay as they are.    *)
LEMMA QuietKeepsRow ==
    ASSUME BuildInv, stage \in {"Cfg", "Dfg", "Pdg"}, phase # "emit",
           functions' = functions, stage' = stage,
           phase' \in {"lookup", "plan", "emit"}, at' \in Nat \ {0}, phase' = "emit" => at' = 1
    PROVE  RowIsSound' /\ OverlaysFollowStages' /\ \A i : IsDue(i)' = IsDue(i)
  <1>1. RowIsSound'
    BY DEF BuildInv, RowIsSound
  <1>2. \A i \in DOMAIN functions : i \in Nat \ {0}
    BY DEF BuildInv, RowIsSound
  <1>3. \A i \in DOMAIN functions : ~IsEmitted(i) /\ ~IsEmitted(i)'
    BY <1>2 DEF IsEmitted
  <1>4. OverlaysFollowStages'
    BY <1>3 DEF BuildInv, OverlaysFollowStages
  <1>5. \A i : IsDue(i)' = IsDue(i)
    BY <1>3 DEF IsDue
  <1> QED
    BY <1>1, <1>4, <1>5

(* The functions of a pass that are due are whole, with what the pass reads. *)
LEMMA DueIsWhole ==
    ASSUME BuildInv, stage \in {"Cfg", "Dfg", "Pdg"}, NEW i \in DOMAIN functions
    PROVE  IsFunction(functions[i]) /\ (stage = "Pdg" => IsOverlaid(functions[i]))
  BY DEF BuildInv, RowIsSound, OverlaysFollowStages

(* A plan found under the key of a function is the right one, if governed. *)
LEMMA LookupKeyedKeepsInv ==
    ASSUME BuildInv, LookupKeyed
    PROVE  BuildInv'
  <1> DEFINE k == KeyOf(stage, functions[at])
  <1>1. /\ stage \in {"Cfg", "Dfg", "Pdg"} /\ phase = "lookup" /\ at \in DOMAIN functions
        /\ at' = at + 1 /\ UNCHANGED <<functions, stage, phase, fresh>>
        /\ HasKey(stage, functions[at])
        /\ held' = [held EXCEPT ![at] = IF IsUsable(found') THEN found' ELSE None]
    BY DEF BuildInv, RowIsSound, LookupKeyed, InPhase, Here
  <1>2. plan' = plan /\ ((k \in DOMAIN plan /\ found' = plan[k]) \/ found' = None)
    BY DEF LookupKeyed, Cache!Hit, Cache!Miss, Here
  <1>3. RowIsSound' /\ OverlaysFollowStages' /\ \A i : IsDue(i)' = IsDue(i)
    BY <1>1, QuietKeepsRow DEF BuildInv, RowIsSound
  <1>4. CachedPlansFit'
    BY <1>2 DEF BuildInv, CachedPlansFit
  <1>5. DOMAIN held = DOMAIN functions /\ DOMAIN fresh = DOMAIN functions
    BY <1>1 DEF BuildInv, PlansInHandAreRight
  <1>6. ASSUME NEW i \in DOMAIN functions
        PROVE  HeldIsRight(i)'
    <2>1. CASE i # at
      <3>1. held'[i] = held[i] /\ HeldIsRight(i)
        BY <1>1, <1>5, <2>1 DEF BuildInv, PlansInHandAreRight
      <3> QED
        BY <1>1, <1>3, <3>1 DEF HeldIsRight
    <2>2. CASE i = at /\ IsUsable(found')
      <3>1. held'[i] = found' /\ found' = plan[k] /\ k \in DOMAIN plan /\ found'.kind = stage
        BY <1>1, <1>2, <1>5, <2>2 DEF IsUsable
      <3>2. PlanFitsKey(k, plan[k])
        BY <3>1 DEF BuildInv, CachedPlansFit
      <3>3. Governed(stage) => plan[k] = PlanOf(stage, functions[i])
        BY <1>1, <2>2, <3>2, DueIsWhole, KeyDeterminesPlan
      <3> QED
        BY <1>1, <3>1, <3>3 DEF HeldIsRight
    <2>3. CASE i = at /\ ~IsUsable(found')
      BY <1>1, <1>5, <2>3 DEF HeldIsRight
    <2> QED
      BY <2>1, <2>2, <2>3
  <1>7. ASSUME NEW i \in DOMAIN functions
        PROVE  FreshIsRight(i)'
    BY <1>1, <1>3 DEF BuildInv, PlansInHandAreRight, FreshIsRight
  <1>8. PlansInHandAreRight'
    BY <1>1, <1>5, <1>6, <1>7 DEF PlansInHandAreRight
  <1> QED
    BY <1>3, <1>4, <1>8 DEF BuildInv

(* The steps that take no plan in hand: a bypass and the ends of the phases. *)
LEMMA HandsUntouched ==
    ASSUME BuildInv, stage \in {"Cfg", "Dfg", "Pdg"}, phase # "emit",
           UNCHANGED <<functions, stage, held, fresh, plan>>,
           phase' \in {"lookup", "plan", "emit"}, at' \in Nat \ {0},
           phase' = "emit" => at' = 1 /\ Missing = {}
    PROVE  BuildInv'
  <1>1. RowIsSound' /\ OverlaysFollowStages' /\ \A i : IsDue(i)' = IsDue(i)
    BY QuietKeepsRow
  <1>2. CachedPlansFit'
    BY DEF BuildInv, CachedPlansFit
  <1>3. /\ DOMAIN held = DOMAIN functions /\ DOMAIN fresh = DOMAIN functions
        /\ \A i \in DOMAIN functions : HeldIsRight(i) /\ FreshIsRight(i)
    BY DEF BuildInv, PlansInHandAreRight
  <1>4. \A i \in DOMAIN functions : HeldIsRight(i)' /\ FreshIsRight(i)'
    BY <1>1, <1>3 DEF HeldIsRight, FreshIsRight
  <1>5. phase' = "emit" => \A i \in DOMAIN functions : held[i] # None \/ fresh[i] # None
    BY DEF Missing
  <1>6. PlansInHandAreRight'
    BY <1>3, <1>4, <1>5 DEF PlansInHandAreRight
  <1> QED
    BY <1>1, <1>2, <1>6 DEF BuildInv

(* A function that is not keyed is looked up in vain.                      *)
LEMMA LookupBypassKeepsInv ==
    ASSUME BuildInv, LookupBypass
    PROVE  BuildInv'
  <1>1. /\ stage \in {"Cfg", "Dfg", "Pdg"} /\ phase = "lookup" /\ phase' = phase
        /\ at' \in Nat \ {0} /\ UNCHANGED <<functions, stage, held, fresh, plan>>
    BY DEF BuildInv, RowIsSound, LookupBypass, InPhase, cache
  <1> QED
    BY <1>1, HandsUntouched

(* The ends of the lookup and planning loops move on and change nothing.   *)
LEMMA PhaseEndsKeepInv ==
    ASSUME BuildInv, LookupEnd \/ PlanEnd
    PROVE  BuildInv'
  <1>1. /\ stage \in {"Cfg", "Dfg", "Pdg"} /\ phase \in {"lookup", "plan"}
        /\ at' \in Nat \ {0} /\ UNCHANGED <<functions, stage, held, fresh, plan>>
        /\ phase' = "plan" \/ (phase' = "emit" /\ at' = 1 /\ Missing = {})
    BY DEF BuildInv, RowIsSound, LookupEnd, PlanEnd, InPhase, cache
  <1> QED
    BY <1>1, HandsUntouched

(* A missing plan is computed from the function as it is.                  *)
LEMMA PlanMissKeepsInv ==
    ASSUME BuildInv, PlanMiss
    PROVE  BuildInv'
  <1>1. /\ stage \in {"Cfg", "Dfg", "Pdg"} /\ phase = "plan"
        /\ UNCHANGED <<functions, stage, phase, at, held, plan>>
    BY DEF BuildInv, RowIsSound, PlanMiss, InPhase, cache
  <1>2. PICK i \in Missing : fresh' = [fresh EXCEPT ![i] = PlanOf(stage, functions[i])]
    BY DEF PlanMiss
  <1>3. RowIsSound' /\ OverlaysFollowStages' /\ \A j : IsDue(j)' = IsDue(j)
    BY <1>1, QuietKeepsRow DEF BuildInv, RowIsSound
  <1>4. CachedPlansFit'
    BY <1>1 DEF BuildInv, CachedPlansFit
  <1>5. DOMAIN held = DOMAIN functions /\ DOMAIN fresh = DOMAIN functions
    BY <1>1 DEF BuildInv, PlansInHandAreRight
  <1>6. PlanOf(stage, functions[i]).kind = stage
    BY <1>1 DEF PlanOf
  <1>7. ASSUME NEW j \in DOMAIN functions
        PROVE  HeldIsRight(j)' /\ FreshIsRight(j)'
    <2>1. HeldIsRight(j) /\ FreshIsRight(j)
      BY <1>1 DEF BuildInv, PlansInHandAreRight
    <2>2. HeldIsRight(j)'
      BY <1>1, <1>3, <2>1 DEF HeldIsRight
    <2>3. fresh'[j] = IF j = i THEN PlanOf(stage, functions[i]) ELSE fresh[j]
      BY <1>2, <1>5
    <2>4. FreshIsRight(j)'
      BY <1>1, <1>3, <1>6, <2>1, <2>3 DEF FreshIsRight
    <2> QED
      BY <2>2, <2>4
  <1>8. PlansInHandAreRight'
    BY <1>1, <1>2, <1>5, <1>7 DEF PlansInHandAreRight
  <1> QED
    BY <1>3, <1>4, <1>8 DEF BuildInv

-------------------------------------------------------------------------------
(* Emission *)

(* Emission adds the fields of one overlay and leaves the others alone.    *)
LEMMA EmittedAddsOverlay ==
    ASSUME NEW kind \in {"Cfg", "Dfg", "Pdg"}, NEW f, IsFunction(f), NEW p, p.kind = kind
    PROVE  /\ IsFunction(Emitted(f, p))
           /\ Emitted(f, p).text = f.text /\ Emitted(f, p).around = f.around
           /\ kind = "Cfg" => /\ Emitted(f, p).edges = f.edges \cup p.edges
                              /\ Emitted(f, p).exits = f.exits \cup p.exits
           /\ kind # "Cfg" => Emitted(f, p).edges = f.edges /\ Emitted(f, p).exits = f.exits
           /\ kind = "Dfg" => Emitted(f, p).flows = f.flows \cup p.flows
           /\ kind # "Dfg" => Emitted(f, p).flows = f.flows
  <1>1. CASE kind = "Cfg"
    <2>1. Emitted(f, p) = [f EXCEPT !.edges = f.edges \cup p.edges, !.exits = f.exits \cup p.exits]
      BY <1>1 DEF Emitted
    <2> QED
      BY <1>1, <2>1 DEF IsFunction
  <1>2. CASE kind = "Dfg"
    <2>1. Emitted(f, p) = [f EXCEPT !.flows = f.flows \cup p.flows]
      BY <1>2 DEF Emitted
    <2> QED
      BY <1>2, <2>1 DEF IsFunction
  <1>3. CASE kind = "Pdg"
    <2>1. Emitted(f, p) = [f EXCEPT !.control = f.control \cup p.control, !.data = f.data \cup p.data]
      BY <1>3 DEF Emitted
    <2> QED
      BY <1>3, <2>1 DEF IsFunction
  <1> QED
    BY <1>1, <1>2, <1>3

(* The plan chosen for the next function is the extractor's, wherever keys *)
(* determine plans; it is one of the pass in any case.                     *)
LEMMA ChosenIsRight ==
    ASSUME BuildInv, stage \in {"Cfg", "Dfg", "Pdg"}, phase = "emit",
           NEW i \in DOMAIN functions, i >= at
    PROVE  /\ Chosen(i).kind = stage
           /\ Governed(stage) => Chosen(i) = PlanOf(stage, functions[i])
           /\ held[i] = None => Chosen(i) = PlanOf(stage, functions[i])
  <1>1. IsDue(i)
    BY DEF BuildInv, RowIsSound, IsDue, IsEmitted
  <1>2. HeldIsRight(i) /\ FreshIsRight(i) /\ (held[i] # None \/ fresh[i] # None)
    BY DEF BuildInv, PlansInHandAreRight
  <1> QED
    BY <1>1, <1>2 DEF Chosen, HeldIsRight, FreshIsRight

(* Once emitted, a function has the overlay that its stage asks for.       *)
LEMMA EmittedHasOverlay ==
    ASSUME BuildInv, stage \in {"Cfg", "Dfg", "Pdg"}, phase = "emit", at \in DOMAIN functions
    PROVE  LET g == Emitted(functions[at], Chosen(at))
           IN  /\ IsFunction(g)
               /\ stage = "Cfg" => HasOwnCfg(g) /\ g.flows = {}
               /\ stage = "Dfg" => HasOwnCfg(g) /\ HasFlows(g)
               /\ stage = "Pdg" => IsOverlaid(g)
  <1> DEFINE f == functions[at]
             g == Emitted(f, Chosen(at))
  <1>1. at \in Nat /\ at >= at /\ ~IsEmitted(at)
    BY DEF BuildInv, RowIsSound, IsEmitted
  <1>2. IsFunction(f) /\ Chosen(at).kind = stage
    BY <1>1, DueIsWhole, ChosenIsRight
  <1>3. IsFunction(g) /\ g.text = f.text /\ g.around = f.around
    BY <1>2, EmittedAddsOverlay
  <1>4. CASE stage = "Cfg"
    <2>1. HasNoCfg(f) /\ f.flows = {}
      BY <1>1, <1>4 DEF BuildInv, OverlaysFollowStages
    <2>2. Chosen(at) = PlanOf("Cfg", f)
      BY <1>1, <1>4, ChosenIsRight DEF Governed
    <2>3. Chosen(at).edges = CfgOf[f.text].edges /\ Chosen(at).exits = CfgOf[f.text].exits
      BY <2>2 DEF PlanOf
    <2>4. /\ g.edges = f.edges \cup Chosen(at).edges /\ g.exits = f.exits \cup Chosen(at).exits
          /\ g.flows = f.flows
      BY <1>2, <1>4, EmittedAddsOverlay
    <2>5. HasOwnCfg(g) /\ g.flows = {}
      <3> HIDE DEF g
      <3> QED
        BY <1>3, <2>1, <2>3, <2>4 DEF HasOwnCfg, HasNoCfg
    <2> QED
      BY <1>3, <1>4, <2>5
  <1>5. CASE stage = "Dfg"
    <2>1. HasOwnCfg(f) /\ f.flows = {}
      BY <1>1, <1>5 DEF BuildInv, OverlaysFollowStages
    <2>2. Chosen(at) = PlanOf("Dfg", f)
      BY <1>1, <1>5, ChosenIsRight DEF Governed
    <2>3. Chosen(at).flows = FlowsOf[f.text][f.around]
      BY <2>2 DEF PlanOf
    <2>4. /\ g.edges = f.edges /\ g.exits = f.exits
          /\ g.flows = f.flows \cup Chosen(at).flows
      BY <1>2, <1>5, EmittedAddsOverlay
    <2>5. HasOwnCfg(g) /\ HasFlows(g)
      <3> HIDE DEF g
      <3> QED
        BY <1>3, <2>1, <2>3, <2>4 DEF HasOwnCfg, HasFlows
    <2> QED
      BY <1>3, <1>5, <2>5
  <1>6. CASE stage = "Pdg"
    <2>1. IsOverlaid(f)
      BY <1>6, DueIsWhole
    <2>2. g.edges = f.edges /\ g.exits = f.exits /\ g.flows = f.flows
      BY <1>2, <1>6, EmittedAddsOverlay
    <2>3. IsOverlaid(g)
      <3> HIDE DEF g
      <3> QED
        BY <1>3, <2>1, <2>2 DEF IsOverlaid, HasFlows
    <2> QED
      BY <1>3, <1>6, <2>3
  <1> QED
    BY <1>4, <1>5, <1>6

(* Emission keeps all but the cache, which insertion changes meanwhile.    *)
LEMMA EmitHereKeepsRest ==
    ASSUME BuildInv, EmitHere
    PROVE  RowIsSound' /\ OverlaysFollowStages' /\ PlansInHandAreRight'
  <1> DEFINE g == Emitted(functions[at], Chosen(at))
  <1>1. /\ stage \in {"Cfg", "Dfg", "Pdg"} /\ phase = "emit" /\ at \in DOMAIN functions
        /\ functions' = [functions EXCEPT ![at] = g] /\ at' = at + 1
        /\ UNCHANGED <<stage, phase, held, fresh>>
    BY DEF BuildInv, RowIsSound, EmitHere, InPhase
  <1>2. /\ IsFunction(g)
        /\ stage = "Cfg" => HasOwnCfg(g) /\ g.flows = {}
        /\ stage = "Dfg" => HasOwnCfg(g) /\ HasFlows(g)
        /\ stage = "Pdg" => IsOverlaid(g)
    BY <1>1, EmittedHasOverlay
  <1> HIDE DEF g
  <1>3. /\ DOMAIN functions' = DOMAIN functions /\ functions'[at] = g
        /\ \A i \in DOMAIN functions : i # at => functions'[i] = functions[i]
    BY <1>1
  <1>4. Len(functions') = Len(functions)
    BY <1>3 DEF BuildInv, RowIsSound
  <1>5. RowIsSound'
    BY <1>1, <1>2, <1>3, <1>4 DEF BuildInv, RowIsSound
  <1>6. \A i \in DOMAIN functions : i \in Nat
    BY DEF BuildInv, RowIsSound
  <1>7. \A i \in DOMAIN functions : IsEmitted(i)' <=> IsEmitted(i) \/ i = at
    BY <1>1, <1>6 DEF IsEmitted
  <1>8. OverlaysFollowStages'
    <2> SUFFICES ASSUME NEW i \in DOMAIN functions
        PROVE  /\ stage = "Cfg" =>
                     /\ functions'[i].flows = {}
                     /\ IsEmitted(i)' => HasOwnCfg(functions'[i])
                     /\ ~IsEmitted(i)' => HasNoCfg(functions'[i])
               /\ stage = "Dfg" =>
                     /\ HasOwnCfg(functions'[i])
                     /\ IsEmitted(i)' => HasFlows(functions'[i])
                     /\ ~IsEmitted(i)' => functions'[i].flows = {}
               /\ stage \in {"idle", "Pdg"} => IsOverlaid(functions'[i])
      BY <1>1, <1>3 DEF OverlaysFollowStages
    <2>1. CASE i = at
      BY <1>1, <1>2, <1>3, <1>7, <2>1
    <2>2. CASE i # at
      BY <1>3, <1>7, <2>2 DEF BuildInv, OverlaysFollowStages
    <2> QED
      BY <2>1, <2>2
  <1>9. \A i \in DOMAIN functions : IsDue(i)' => IsDue(i) /\ functions'[i] = functions[i]
    BY <1>3, <1>7 DEF IsDue
  <1>10. \A i \in DOMAIN functions : HeldIsRight(i)' /\ FreshIsRight(i)'
    BY <1>1, <1>9 DEF BuildInv, PlansInHandAreRight, HeldIsRight, FreshIsRight
  <1>11. PlansInHandAreRight'
    BY <1>1, <1>3, <1>10 DEF BuildInv, PlansInHandAreRight
  <1> QED
    BY <1>5, <1>8, <1>11

(* An emitted plan gives its function the overlay, and fits its key.       *)
LEMMA EmitAndInsertKeepsInv ==
    ASSUME BuildInv, EmitAndInsert
    PROVE  BuildInv'
  <1> DEFINE f == functions[at]
             k == KeyOf(stage, f)
  <1>1. RowIsSound' /\ OverlaysFollowStages' /\ PlansInHandAreRight'
    BY EmitHereKeepsRest DEF EmitAndInsert
  <1>2. /\ stage \in {"Cfg", "Dfg", "Pdg"} /\ phase = "emit" /\ at \in DOMAIN functions
        /\ at \in Nat /\ held[at] = None /\ HasKey(stage, f)
    BY DEF BuildInv, RowIsSound, EmitAndInsert, EmitHere, InPhase, IsKept
  <1>3. Chosen(at) = PlanOf(stage, f)
    BY <1>2, ChosenIsRight
  <1>4. PlanFitsKey(k, PlanOf(stage, f))
    BY <1>2, DueIsWhole, PlanFitsItsKey
  <1> HIDE DEF k
  <1>5. plan' = plan \/ plan' = Cache!Extend(plan, k, Chosen(at))
    BY DEF EmitAndInsert, Cache!Store, Cache!Refuse, Here, k
  <1>6. CachedPlansFit'
    BY <1>3, <1>4, <1>5 DEF BuildInv, CachedPlansFit, Cache!Extend
  <1> QED
    BY <1>1, <1>6 DEF BuildInv

(* An emission without insertion gives its function the overlay.           *)
LEMMA EmitOnlyKeepsInv ==
    ASSUME BuildInv, EmitOnly
    PROVE  BuildInv'
  BY EmitHereKeepsRest DEF EmitOnly, BuildInv, CachedPlansFit, cache

(* Eviction takes plans out of the cache and disturbs nothing else.        *)
LEMMA EvictKeepsInv ==
    ASSUME BuildInv, Evict
    PROVE  BuildInv'
  <1>1. UNCHANGED <<functions, stage, phase, at, held, fresh>>
    BY DEF Evict, graph, batch
  <1>2. RowIsSound' /\ OverlaysFollowStages'
    BY <1>1 DEF BuildInv, RowIsSound, OverlaysFollowStages, IsEmitted
  <1>3. PlansInHandAreRight'
    BY <1>1 DEF BuildInv, PlansInHandAreRight, HeldIsRight, FreshIsRight, IsDue, IsEmitted
  <1>4. \E k \in DOMAIN plan : plan' = Cache!Without(plan, k)
    BY DEF Evict, Cache!Forget
  <1>5. CachedPlansFit'
    BY <1>4 DEF BuildInv, CachedPlansFit, Cache!Without
  <1> QED
    BY <1>2, <1>3, <1>5 DEF BuildInv

(* The next pass begins where all functions have the overlay of this one.  *)
LEMMA PassEndKeepsInv ==
    ASSUME BuildInv, PassEnd
    PROVE  BuildInv'
  <1>1. /\ stage \in {"Cfg", "Dfg", "Pdg"} /\ phase = "emit" /\ at \notin DOMAIN functions
        /\ functions' = functions /\ plan' = plan
    BY DEF BuildInv, RowIsSound, PassEnd, InPhase, cache
  <1>2. \A i \in DOMAIN functions : IsEmitted(i)
    BY <1>1 DEF BuildInv, RowIsSound, IsEmitted
  <1>3. HasBegun(IF stage = "Cfg" THEN "Dfg" ELSE "idle")
    BY <1>1 DEF BuildInv, RowIsSound, PassEnd, Begin, HasBegun
  <1>4. RowIsSound'
    BY <1>1, <1>3 DEF BuildInv, RowIsSound, HasBegun
  <1>5. OverlaysFollowStages'
    <2>1. CASE stage = "Cfg"
      BY <1>1, <1>2, <1>3, <2>1 DEF BuildInv, OverlaysFollowStages, HasBegun, IsEmitted
    <2>2. CASE stage = "Dfg"
      <3>1. \A i \in DOMAIN functions : IsOverlaid(functions[i])
        BY <1>2, <2>2
           DEF BuildInv, OverlaysFollowStages, IsOverlaid, HasOwnCfg
      <3> QED
        BY <1>1, <1>3, <2>2, <3>1 DEF OverlaysFollowStages, HasBegun
    <2>3. CASE stage = "Pdg"
      BY <1>1, <1>3, <2>3 DEF BuildInv, OverlaysFollowStages, HasBegun
    <2> QED
      BY <1>1, <2>1, <2>2, <2>3
  <1>6. PlansInHandAreRight'
    BY <1>3, BegunHoldsNothing
  <1>7. CachedPlansFit'
    BY <1>1 DEF BuildInv, CachedPlansFit
  <1> QED
    BY <1>4, <1>5, <1>6, <1>7 DEF BuildInv

-------------------------------------------------------------------------------
(* Theorems *)

(* The invariant holds in every session.                                   *)
THEOREM BuildInvHolds == Spec => []BuildInv
  <1>1. BuildInv /\ [Next]_vars => BuildInv'
    <2> SUFFICES ASSUME BuildInv, [Next]_vars PROVE BuildInv'
      OBVIOUS
    <2>1. CASE Parse
      BY <2>1, ParseKeepsInv
    <2>2. CASE BuildPdg
      BY <2>2, BuildPdgKeepsInv
    <2>3. CASE AddCfgExit
      BY <2>3, AddCfgExitKeepsInv
    <2>4. CASE LookupKeyed
      BY <2>4, LookupKeyedKeepsInv
    <2>5. CASE LookupBypass
      BY <2>5, LookupBypassKeepsInv
    <2>6. CASE LookupEnd \/ PlanEnd
      BY <2>6, PhaseEndsKeepInv
    <2>7. CASE PlanMiss
      BY <2>7, PlanMissKeepsInv
    <2>8. CASE EmitAndInsert
      BY <2>8, EmitAndInsertKeepsInv
    <2>9. CASE EmitOnly
      BY <2>9, EmitOnlyKeepsInv
    <2>10. CASE Evict
      BY <2>10, EvictKeepsInv
    <2>11. CASE PassEnd
      BY <2>11, PassEndKeepsInv
    <2>12. CASE UNCHANGED vars
      <3>1. UNCHANGED <<functions, stage, phase, at, held, fresh, plan>>
        BY <2>12 DEF vars
      <3> QED
        BY <3>1 DEF BuildInv, RowIsSound, OverlaysFollowStages, PlansInHandAreRight,
                    CachedPlansFit, HeldIsRight, FreshIsRight, IsDue, IsEmitted
    <2> QED
      BY <2>1, <2>2, <2>3, <2>4, <2>5, <2>6, <2>7, <2>8, <2>9, <2>10, <2>11, <2>12 DEF Next
  <1> QED
    BY <1>1, InitIsSound, PTL DEF Spec

(* "Cold, hit, edited, and evicted cached builds equal ordinary fresh      *)
(* graphs exactly": a plan about to be emitted is what its extractor       *)
(* computes now, whatever was edited, hit or evicted before, where exits   *)
(* are neutral.                                                            *)
THEOREM CacheIsTransparent ==
    ASSUME ExitsAreNeutral
    PROVE  Spec => []CachedEqualsFresh
  <1>1. BuildInv => CachedEqualsFresh
    <2> SUFFICES ASSUME BuildInv, InPhase("emit"), NEW i \in DOMAIN functions, i >= at
                 PROVE  Chosen(i) = PlanOf(stage, functions[i])
      BY DEF CachedEqualsFresh
    <2>1. stage \in {"Cfg", "Dfg", "Pdg"} /\ phase = "emit"
      BY DEF BuildInv, RowIsSound, InPhase
    <2> QED
      BY <2>1, ChosenIsRight DEF Governed
  <1> QED
    BY <1>1, BuildInvHolds, PTL

(* Control and data flow need no such hypothesis: their plans are replayed *)
(* exactly whatever a caller records.                                      *)
THEOREM FlowPlansAreTransparent == Spec => [](stage # "Pdg" => CachedEqualsFresh)
  <1>1. BuildInv => (stage # "Pdg" => CachedEqualsFresh)
    <2> SUFFICES ASSUME BuildInv, stage # "Pdg", InPhase("emit"),
                        NEW i \in DOMAIN functions, i >= at
                 PROVE  Chosen(i) = PlanOf(stage, functions[i])
      BY DEF CachedEqualsFresh
    <2>1. stage \in {"Cfg", "Dfg"} /\ phase = "emit"
      BY DEF BuildInv, RowIsSound, InPhase
    <2> QED
      BY <2>1, ChosenIsRight DEF Governed
  <1> QED
    BY <1>1, BuildInvHolds, PTL

(* Between passes every function carries the whole CFG and DFG of its own  *)
(* text and surroundings, and no other exits than its own and those its    *)
(* caller recorded.                                                        *)
THEOREM ParsesAreWhole == Spec => []OverlaysEqualUncached
  <1>1. BuildInv => OverlaysEqualUncached
    BY DEF BuildInv, OverlaysFollowStages, OverlaysEqualUncached, IsOverlaid, HasFlows
  <1> QED
    BY <1>1, BuildInvHolds, PTL

===============================================================================
