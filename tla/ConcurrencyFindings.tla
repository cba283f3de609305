-------------------------- MODULE ConcurrencyFindings --------------------------
(***************************************************************************)
(* The advisory concurrency analyses (src/src/analysis/concurrency). What  *)
(* they read off a graph: the variable an event is about (events.rs), the  *)
(* pairs of sites that may run in parallel (mhp.rs), and every access to a *)
(* shared location with the locks held there (evidence.rs). And what they  *)
(* report, pure functions of the two (race.rs, atomicity.rs, deadlock.rs): *)
(* conflicting accesses and split updates; processes that wait for each    *)
(* other before anything else, and locks that are taken in a circle. The   *)
(* latter two are cyclic components of a graph drawn from the events of    *)
(* the top-level functions, in source order.                               *)
(*                                                                         *)
(* Beside the fields SyntaxTree names, ast has                             *)
(*   message   the message kind of a node, "none" without one; a Block     *)
(*             with "Spawn" runs its children in parallel                  *)
(*   lock      "AcquireRead", "AcquireWrite", "Release" or "none"          *)
(*   refers    the variables and fields a node refers to, by whatever      *)
(*             kind of edge                                                *)
(*   fields    data-flow edges <<source, "Read" or "Write", target>>       *)
(*             between a member access and the node it exchanges a value   *)
(*             with                                                        *)
(* Every node starts at a token of its own, so that the order of ranges is *)
(* that of the nodes.                                                      *)
(***************************************************************************)
EXTENDS SyntaxTree, FiniteSetsExt

IsEvent(n) == ast.message[n] # "none" \/ ast.lock[n] # "none"
Is(S) == CHOOSE s \in S : TRUE

-------------------------------------------------------------------------------
(* resolve_event_variable, resolve_lock_resource *)

Events == {n \in Nodes : IsEvent(n)}

\* The syntax of an event down to the events inside it.
OperandsOf(site) == UNION {Under(c, Events) : c \in ToSet(Children(site)) \ Events} \ Events

Variables(n) == {d \in ast.refers[n] : IsKind(d, {"Variable"})}

\* The first identifier with a definition names what the event is about.
ResolveEventVariable(site) ==
    LET named == {n \in OperandsOf(site) : IsKind(n, {"Identifier"}) /\ Variables(n) # {}}
    IN IF named = {} THEN NoNode ELSE Min(Variables(Min(named)))

\* The one location a node refers to, none when there are several.
ExactLocation(n) ==
    IF Cardinality(ast.refers[n]) = 1 THEN Is(ast.refers[n]) ELSE NoNode

\* A lock is known when all that is said in the call is said of it.
ResolveLockResource(site) ==
    LET said == UNION {ast.refers[n] : n \in {m \in OperandsOf(site) :
                           IsKind(m, {"Identifier"}) \/ ExactLocation(m) # NoNode}}
    IN IF Cardinality(said) = 1 THEN Is(said) ELSE NoNode

-------------------------------------------------------------------------------
(* may_happen_in_parallel *)

IsExecutionSite(n) ==
    IsKind(n, {"Return", "If", "While", "For", "Loop", "Match", "Break", "Continue", "Throw", "Try",
               "Variable", "Assignment", "Call", "Await", "Yield"})

ParallelBlocks == {b \in Nodes : IsKind(b, {"Block"}) /\ ast.message[b] = "Spawn"}

\* The sites of an operand, those of nested functions aside.
ExecutionSites(operand) ==
    IF IsKind(operand, {"Function"}) THEN {}
    ELSE {n \in Under(operand, ToSet(Functions)) : IsExecutionSite(n)}

\* The order in which pairs are found: by block, by operands, by sites.
Found ==
    LET between(b, left, right) ==
            {<<b, left, right, m, n>> : m \in ExecutionSites(left), n \in ExecutionSites(right)}
        of(b) == LET operands == ToSet(Children(b))
                 IN UNION {between(b, o[1], o[2]) : o \in {o \in operands \X operands : o[1] < o[2]}}
    IN {t \in UNION {of(b) : b \in ParallelBlocks} : t[4] # t[5]}

Earlier(s, t) ==
    \E i \in 1..5 : s[i] < t[i] /\ \A j \in 1..(i - 1) : s[j] = t[j]

PairOf(t) == {t[4], t[5]}

\* The pairs, cut at max_pairs.
MayHappenInParallel(max_pairs) ==
    LET kept(p) == Cardinality({PairOf(s) : s \in {s \in Found :
                       \A t \in Found : PairOf(t) = p => Earlier(s, t)}}) < max_pairs
        all == {PairOf(t) : t \in Found}
        capped == Cardinality(all) > max_pairs
    IN [pairs |-> IF capped THEN {p \in all : kept(p)} ELSE all, capped |-> capped]

-------------------------------------------------------------------------------
(* nearest_execution_site, execution_strand *)

\* The nearest node of S at or above n, none when two are equally near.
Nearest(n, S) ==
    LET Climb[level \in SUBSET Nodes, known \in SUBSET Nodes] ==
            IF level = {} \/ level \cap S # {} THEN level \cap S
            ELSE Climb[UNION {Holders(m) : m \in level} \ (level \cup known), level \cup known]
        met == Climb[{n}, {}]
    IN IF Cardinality(met) = 1 THEN Is(met) ELSE NoNode

Sites == {n \in Nodes : IsExecutionSite(n)}
Strands == ToSet(Functions) \cup UNION {ToSet(Children(b)) : b \in ParallelBlocks}
Strand(n) == Nearest(n, Strands)

-------------------------------------------------------------------------------
(* collect_evidence *)

\* <<site, location, what is done>>, from the edges of member accesses and from
\* messages. An edge whose ends are two locations says nothing.
FieldAccesses ==
    LET ends(e) == {ExactLocation(e[1]), ExactLocation(e[3])} \ {NoNode}
        expression(e) == IF ExactLocation(e[1]) # NoNode THEN e[1] ELSE e[3]
    IN {<<Nearest(expression(e), Sites), Is(ends(e)), e[2]>> :
            e \in {e \in ast.fields : Cardinality(ends(e)) = 1}}

ChannelAccesses ==
    {<<n, ResolveEventVariable(n),
       IF ast.message[n] \in {"Send", "SendSync"} THEN "Write" ELSE "Read">> :
         n \in {n \in Nodes : ast.message[n] \in {"Send", "SendSync", "Recv", "RecvPersistent", "Peek"}}}

\* The locks of a strand, in source order.
Boundaries(strand) ==
    InNodeOrder({n \in Nodes : ast.lock[n] # "none" /\ Strand(n) = strand})

\* A release takes the latest acquisition of its lock, or all when it names none.
Replay(held, n) ==
    LET lock == ResolveLockResource(n)
        latest == SelectLastInSeq(held, LAMBDA h : h.lock = lock)
    IN IF ast.lock[n] # "Release"
       THEN IF lock = NoNode THEN held
            ELSE Append(held, [lock |-> lock, mode |-> ast.lock[n], site |-> n])
       ELSE IF lock = NoNode THEN <<>>
       ELSE IF latest = 0 THEN held ELSE RemoveAt(held, latest)

HeldAt(strand, site) ==
    IF strand = NoNode THEN {}
    ELSE ToSet(FoldLeft(Replay, <<>>, SelectSeq(Boundaries(strand), LAMBDA n : n <= site)))

CollectEvidence ==
    LET raw == {a \in FieldAccesses \cup ChannelAccesses : a[1] # NoNode /\ a[2] # NoNode}
    IN {[site |-> a[1], location |-> a[2],
         modes |-> {b[3] : b \in {b \in raw : b[1] = a[1] /\ b[2] = a[2]}},
         strand |-> Strand(a[1]),
         locks |-> HeldAt(Strand(a[1]), a[1])] : a \in raw}


-------------------------------------------------------------------------------
(* race_candidates *)

Writes(access) == "Write" \in access.modes
Excluding(mode) == mode = "AcquireWrite"

\* Mutant: any common lock excludes.
HasCommonLock(left, right) == \E l \in left, r \in right : l.lock = r.lock

\* Two readers of one lock do not exclude each other.
HasCommonExcludingLock(left, right) ==
    \E l \in left, r \in right : l.lock = r.lock /\ (Excluding(l.mode) \/ Excluding(r.mode))

\* {site, site} and the location the two accesses conflict on.
RaceCandidates(evidence, pairs) ==
    {<<{a.site, b.site}, a.location>> : <<a, b>> \in
        {c \in evidence \X evidence :
            /\ {c[1].site, c[2].site} \in pairs
            /\ c[1].location = c[2].location
            /\ Writes(c[1]) \/ Writes(c[2])
            /\ ~HasCommonExcludingLock(c[1].locks, c[2].locks)}}

-------------------------------------------------------------------------------
(* atomicity_candidates *)

\* No access to the location of a and b lies between them in their strand.
Adjacent(evidence, a, b) ==
    /\ a.strand = b.strand /\ a.strand # NoNode /\ a.location = b.location /\ a.site < b.site
    /\ \A c \in evidence : c.strand = a.strand /\ c.location = a.location =>
           c.site <= a.site \/ b.site <= c.site

\* A lock of both ends that is released and taken again between them.
SplitBoundary(read, write) ==
    \E lock \in {h.lock : h \in read.locks} \cap {h.lock : h \in write.locks} :
        LET between == SelectSeq(Boundaries(read.strand), LAMBDA n :
                           read.site < n /\ n < write.site /\ ResolveLockResource(n) = lock)
        IN \E i, j \in DOMAIN between :
               i < j /\ ast.lock[between[i]] = "Release" /\ ast.lock[between[j]] # "Release"

\* Mutant: a lock taken again counts as held throughout.
HeldAtBoth(read, write) ==
    {h \in read.locks : \E g \in write.locks : g.lock = h.lock}

\* The locks held at both ends by one and the same acquisition.
Continuous(read, write) ==
    {h \in read.locks : \E g \in write.locks : g.lock = h.lock /\ g.site = h.site}

\* <<read, write, interfering access>>, by their sites.
AtomicityCandidates(evidence, pairs) ==
    LET split == {u \in evidence \X evidence :
                     /\ Adjacent(evidence, u[1], u[2])
                     /\ "Read" \in u[1].modes /\ Writes(u[2])
                     /\ SplitBoundary(u[1], u[2])}
        interferes(u, x) ==
            /\ x.location = u[1].location /\ x.strand # u[1].strand
            /\ {{u[1].site, x.site}, {u[2].site, x.site}} \subseteq pairs
            /\ ~HasCommonExcludingLock(Continuous(u[1], u[2]), x.locks)
    IN UNION {{<<u[1].site, u[2].site, x.site>> : x \in {x \in evidence : interferes(u, x)}} :
                 u \in split}

-------------------------------------------------------------------------------
(* communication_deadlocks *)

Reachable(edges, n) ==
    LET Grow[known \in SUBSET {e[2] : e \in edges}] ==
            LET more == known \cup {e[2] : e \in {e \in edges : e[1] \in known}}
            IN IF more = known THEN known ELSE Grow[more]
    IN Grow[{e[2] : e \in {e \in edges : e[1] = n}}]

\* projection_sccs(..).cyclic_components(), which CallGraphSccs computes.
CyclicComponents(edges) ==
    {{m \in Reachable(edges, n) : n \in Reachable(edges, m)} :
        n \in {e[1] : e \in {e \in edges : e[1] \in Reachable(edges, e[1])}}}

-------------------------------------------------------------------------------
(* extract_events *)

\* The functions that no function encloses.
Processes ==
    {f \in ToSet(Functions) : \A g \in ToSet(Functions) \ {f} : f \notin Descendants(g)}

ChannelEvents(p) == InNodeOrder({n \in FunctionScope(p) : ast.message[n] # "none"})

IsSend(n) == ast.message[n] \in {"Send", "SendSync"}

-------------------------------------------------------------------------------
(* communication_findings *)

\* Mutant: the first receive of a process, whatever it sends before.
InitialReceive(p) ==
    LET receives == SelectSeq(ChannelEvents(p), LAMBDA n : ast.message[n] = "Recv")
    IN IF receives = <<>> THEN NoNode ELSE ResolveEventVariable(Head(receives))

\* The first send or consuming receive of a process, if it is a receive from a
\* known channel.
InitialWait(p) ==
    LET relevant == SelectSeq(ChannelEvents(p), LAMBDA n : IsSend(n) \/ ast.message[n] = "Recv")
    IN IF relevant = <<>> \/ IsSend(Head(relevant)) THEN NoNode
       ELSE ResolveEventVariable(Head(relevant))

Producers(c) ==
    {p \in Processes : \E n \in ToSet(ChannelEvents(p)) : IsSend(n) /\ ResolveEventVariable(n) = c}

\* A process waits for every producer of its channel, unless one does not wait.
WaitEdges ==
    LET waiting == {p \in Processes : InitialWait(p) # NoNode}
    IN UNION {{<<p, q>> : q \in Producers(InitialWait(p))} :
                 p \in {p \in waiting : Producers(InitialWait(p)) \subseteq waiting}}

CommunicationFindings == CyclicComponents(WaitEdges)

-------------------------------------------------------------------------------
(* lock_skeletons, reachable_acquisitions *)

\* The calls of a process that take or release a lock or call a process.
LockSkeleton(p) ==
    InNodeOrder({n \in FunctionScope(p) : /\ IsKind(n, {"Call"})
                                          /\ ast.lock[n] # "none" \/ ast.callee[n] \in Processes})

\* from_event: what an event takes, as a set.
Acquisition(p, n) ==
    IF ast.lock[n] \in {"AcquireRead", "AcquireWrite"} /\ ResolveEventVariable(n) # NoNode
    THEN {[lock |-> ResolveEventVariable(n), mode |-> ast.lock[n], site |-> n, process |-> p]}
    ELSE {}

\* insert_representative: of the acquisitions of one lock the first by site,
\* then by process. A site has one mode.
Representatives(acquisitions) ==
    {a \in acquisitions : \A b \in acquisitions : b.lock = a.lock =>
        a.site < b.site \/ (a.site = b.site /\ a.process <= b.process)}

Direct(p) == Representatives(UNION {Acquisition(p, n) : n \in ToSet(LockSkeleton(p))})

Callees(p) == {ast.callee[n] : n \in {n \in ToSet(LockSkeleton(p)) : ast.lock[n] = "none"}}

\* What a call of a process may take: rounds over a snapshot until none changes.
ReachableAcquisitions ==
    LET Round[k \in 0..(Cardinality(Processes) * Cardinality(Processes))] ==
            IF k = 0 THEN [p \in Processes |-> Direct(p)]
            ELSE LET summaries == Round[k - 1]
                 IN [p \in Processes |->
                        Representatives(summaries[p] \cup UNION {summaries[q] : q \in Callees(p)})]
    IN Round[Cardinality(Processes) * Cardinality(Processes)]

-------------------------------------------------------------------------------
(* build_lock_edges *)

\* The locks held by a process before its event n.
Hold(p, held, n) ==
    LET lock == ResolveEventVariable(n)
        latest == SelectLastInSeq(held, LAMBDA h : h.lock = lock)
    IN IF ast.lock[n] = "Release"
       THEN IF lock = NoNode THEN <<>>
            ELSE IF latest = 0 THEN held ELSE RemoveAt(held, latest)
       ELSE held \o SetToSeq(Acquisition(p, n))

HeldBefore(p, n) ==
    ToSet(FoldLeft(LAMBDA held, m : Hold(p, held, m), <<>>,
                   SelectSeq(LockSkeleton(p), LAMBDA m : m < n)))

\* Mutant: a call takes what its callee takes itself.
TakenDirectly(p, n) ==
    IF ast.lock[n] = "none" THEN Direct(ast.callee[n]) ELSE Acquisition(p, n)

\* What event n takes, itself or by the call it is.
TakenAt(p, n) ==
    IF ast.lock[n] = "none" THEN ReachableAcquisitions[ast.callee[n]] ELSE Acquisition(p, n)

LockEdges ==
    UNION {UNION {{<<h, a>> : h \in HeldBefore(p, n), a \in TakenAt(p, n)} :
                     n \in ToSet(LockSkeleton(p))} : p \in Processes}

\* The locks of a circle in which some acquisition excludes others.
LockOrderFindings ==
    LET edges == {e \in LockEdges : e[1].lock # e[2].lock}
        inside(c) == {e \in edges : {e[1].lock, e[2].lock} \subseteq c}
    IN {c \in CyclicComponents({<<e[1].lock, e[2].lock>> : e \in edges}) :
           \E e \in inside(c) : {e[1].mode, e[2].mode} # {"AcquireRead"}}
===============================================================================
