------------------------------ MODULE ConcurrentRun -------------------------------
(***************************************************************************)
(* What a program with parallel blocks, locks and channels does when it    *)
(* runs, against which the concurrency analyses are judged. It is no part  *)
(* of the code: locks belong to the strand that takes them and may be      *)
(* taken again by it, readers share a lock, messages wait in a channel     *)
(* without bound, and a parallel block ends when all its operands have.    *)
(* A statement performs its reads and writes in one step.                  *)
(*                                                                         *)
(* The programs are straight-line: what an analysis says of a branch it    *)
(* says of its being taken. The first child of an event names what it is   *)
(* about, the member accesses of a statement are its children, and a       *)
(* function releases what it takes.                                        *)
(***************************************************************************)
EXTENDS ConcurrencyFindings

CONSTANT StrandPrograms   \* a syntax graph, the functions to start and the cap on pairs

VARIABLES
    request,  \* the functions to start and the cap on pairs
    report,   \* the findings, once the analyses have been asked
    script,   \* the nodes a function or an operand executes, in order
    position,    \* the running strands, each with its position in its script
    held,     \* the locks of a strand, in the order it took them
    mail,     \* the number of messages in a channel
    reads     \* of every strand the last reads it has not followed by a write

strandVars == <<request, report, script, position, held, mail, reads>>

NoReport == [pairs |-> {}, capped |-> FALSE, races |-> {}, updates |-> {},
             waits |-> {}, orders |-> {}]

Locations == {n \in Nodes : IsKind(n, {"Variable", "Field"})}

-------------------------------------------------------------------------------
(* Programs *)

About(n) == Is(ast.refers[Head(Children(n))])

\* <<location, "Read" or "Write">>
Accesses(n) ==
    {<<Is(ast.refers[m]), e[2]>> : <<m, e>> \in
        {p \in ToSet(Children(n)) \X ast.fields :
            IsKind(p[1], {"Member"}) /\ p[1] \in {p[2][1], p[2][3]}}}

IsStep(n) == n \in ParallelBlocks \/ IsEvent(n) \/ Accesses(n) # {}

\* Arguments come before the call, a callee's body in its place.
Scripts ==
    LET Execution[n \in Nodes] ==
            LET below == FlattenSeq([i \in DOMAIN Children(n) |-> Execution[Children(n)[i]]])
            IN IF IsKind(n, {"Function"}) THEN <<>>
               ELSE IF n \in ParallelBlocks THEN <<n>>
               ELSE below \o (IF ast.callee[n] = NoNode THEN <<>>
                              ELSE FlattenSeq([i \in DOMAIN Children(ast.callee[n]) |->
                                                  Execution[Children(ast.callee[n])[i]]]))
                          \o (IF IsStep(n) THEN <<n>> ELSE <<>>)
    IN [s \in Strands |->
           IF IsKind(s, {"Function"})
           THEN FlattenSeq([i \in DOMAIN Children(s) |-> Execution[Children(s)[i]]])
           ELSE Execution[s]]

-------------------------------------------------------------------------------
(* Strands: the path of operands from a started function *)

Started == DOMAIN position
Body(s) == script[Last(s)]
Ended(s) == position[s] > Len(Body(s))
Site(s) == Body(s)[position[s]]
Past(s) == SubSeq(Body(s), 1, position[s] - 1)
IsWithin(s, t) == IsPrefix(t, s)
Apart(s, t) == ~IsWithin(s, t) /\ ~IsWithin(t, s)

Operating(s, t) == s # t /\ IsWithin(t, s) /\ Len(t) = Len(s) + 1
Advance(s) == position' = [position EXCEPT ![s] = @ + 1]

\* The holds of others that keep s from taking the lock its site takes.
Obstacles(s) ==
    {t \in Started \ {s} : \E h \in ToSet(held[t]) :
        /\ h.lock = About(Site(s))
        /\ "AcquireWrite" \in {h.mode, ast.lock[Site(s)]}}

At(s, test(_)) == ~Ended(s) /\ test(Site(s))
AtAcquisition(s) == At(s, LAMBDA n : ast.lock[n] \in {"AcquireRead", "AcquireWrite"})
AtMessage(s, kinds) == At(s, LAMBDA n : ast.message[n] \in kinds)

Fork(s) ==
    /\ At(s, LAMBDA n : n \in ParallelBlocks)
    /\ ~\E t \in Started : Operating(s, t)
    /\ LET new == {Append(s, c) : c \in ToSet(Children(Site(s)))}
       IN /\ position' = [t \in Started \cup new |-> IF t \in new THEN 1 ELSE position[t]]
          /\ held' = [t \in Started \cup new |-> IF t \in new THEN <<>> ELSE held[t]]
    /\ UNCHANGED <<ast, request, report, script, mail, reads>>

Join(s) ==
    /\ At(s, LAMBDA n : n \in ParallelBlocks)
    /\ LET operands == {t \in Started : Operating(s, t)}
       IN /\ operands # {} /\ \A t \in operands : Ended(t)
          /\ position' = [t \in Started \ operands |-> IF t = s THEN position[t] + 1 ELSE position[t]]
          /\ held' = [t \in Started \ operands |-> held[t]]
          /\ reads' = {r \in reads : r.strand \notin operands}
    /\ UNCHANGED <<ast, request, report, script, mail>>

Acquire(s) ==
    /\ AtAcquisition(s) /\ Obstacles(s) = {}
    /\ held' = [held EXCEPT ![s] =
                    Append(@, [lock |-> About(Site(s)), mode |-> ast.lock[Site(s)]])]
    /\ Advance(s)
    /\ UNCHANGED <<ast, request, report, script, mail, reads>>

Release(s) ==
    /\ At(s, LAMBDA n : ast.lock[n] = "Release")
    /\ held' = [held EXCEPT ![s] =
                    RemoveAt(@, SelectLastInSeq(@, LAMBDA h : h.lock = About(Site(s))))]
    /\ Advance(s)
    /\ UNCHANGED <<ast, request, report, script, mail, reads>>

\* A read starts an update of its strand; a write ends that of its own strand
\* and comes between the read and the write of any other.
Access(s) ==
    /\ At(s, LAMBDA n : Accesses(n) # {})
    /\ LET done == Accesses(Site(s))
           read == {l \in Locations : <<l, "Read">> \in done /\ <<l, "Write">> \notin done}
           written == {l \in Locations : <<l, "Write">> \in done}
           seen(r) == IF r.location \in written /\ Apart(s, r.strand)
                      THEN [r EXCEPT !.between = @ \cup {Site(s)}] ELSE r
       IN reads' =
              {seen(r) : r \in {r \in reads : r.strand # s \/ r.location \notin read \cup written}}
              \cup {[strand |-> s, location |-> l, site |-> Site(s),
                     locks |-> {h.lock : h \in ToSet(held[s])}, between |-> {}] : l \in read}
    /\ Advance(s)
    /\ UNCHANGED <<ast, request, report, script, held, mail>>

Send(s) ==
    /\ AtMessage(s, {"Send", "SendSync"})
    /\ mail' = [mail EXCEPT ![About(Site(s))] = @ + 1]
    /\ Advance(s)
    /\ UNCHANGED <<ast, request, report, script, held, reads>>

Receive(s) ==
    /\ AtMessage(s, {"Recv"}) /\ mail[About(Site(s))] > 0
    /\ mail' = [mail EXCEPT ![About(Site(s))] = @ - 1]
    /\ Advance(s)
    /\ UNCHANGED <<ast, request, report, script, held, reads>>

\* A peek leaves the message; a persistent receive stays ready beside the rest.
Look(s) ==
    /\ \/ AtMessage(s, {"Peek"}) /\ mail[About(Site(s))] > 0
       \/ AtMessage(s, {"RecvPersistent"})
    /\ Advance(s)
    /\ UNCHANGED <<ast, request, report, script, held, mail, reads>>

-------------------------------------------------------------------------------
(* A caller asks for the analyses, then the program runs. *)

Analyse ==
    LET parallel == MayHappenInParallel(request.max_pairs)
        evidence == CollectEvidence
    IN report' = [pairs |-> parallel.pairs, capped |-> parallel.capped,
                  races |-> RaceCandidates(evidence, parallel.pairs),
                  updates |-> AtomicityCandidates(evidence, parallel.pairs),
                  waits |-> CommunicationFindings, orders |-> LockOrderFindings]

AskFor(p) == ast = p.ast /\ request = [roots |-> p.roots, max_pairs |-> p.max_pairs]

NoStrands ==
    /\ report = NoReport /\ script = <<>> /\ mail = <<>> /\ reads = {}
    /\ position = [s \in {} |-> 0] /\ held = [s \in {} |-> <<>>]

InitStrands == NoStrands /\ \E p \in StrandPrograms : AskFor(p)

\* The analyses are pure functions of the graph.
Launch ==
    /\ Started = {}
    /\ Analyse
    /\ script' = Scripts
    /\ position' = [s \in {<<f>> : f \in request.roots} |-> 1]
    /\ held' = [s \in {<<f>> : f \in request.roots} |-> <<>>]
    /\ mail' = [c \in Locations |-> 0]
    /\ UNCHANGED <<ast, request, reads>>

\* What a strand waits for: a lock, a message or the end of its operands.
Waiting(s) ==
    \/ AtAcquisition(s) /\ Obstacles(s) # {}
    \/ AtMessage(s, {"Recv", "Peek"}) /\ mail[About(Site(s))] = 0
    \/ \E t \in Started : Operating(s, t) /\ ~Ended(t)

\* The program is over, or hangs.
Idle ==
    /\ Started # {} /\ \A s \in Started : Ended(s) \/ Waiting(s)
    /\ UNCHANGED <<ast, strandVars>>

RunStrand ==
    \E s \in Started :
        Fork(s) \/ Join(s) \/ Acquire(s) \/ Release(s) \/ Access(s) \/ Send(s) \/ Receive(s) \/ Look(s)

NextStrands == Launch \/ RunStrand \/ Idle

SpecStrands == InitStrands /\ [][NextStrands]_<<ast, strandVars>>

-------------------------------------------------------------------------------
(* Properties *)

\* A race is two strands of one function that can both take their next step,
\* one of them to write what the other one reads or writes: each is a candidate.
RacesAreReported ==
    \A s, t \in Started :
        Apart(s, t) /\ Head(s) = Head(t) /\ ~Ended(s) /\ ~Ended(t) =>
            \A a \in Accesses(Site(s)), b \in Accesses(Site(t)) :
                a[1] = b[1] /\ "Write" \in {a[2], b[2]} =>
                    report.capped \/ <<{Site(s), Site(t)}, a[1]>> \in report.races

\* A strand about to write what it read under a lock it holds again, with a
\* write of another strand in between, is about to lose that write: the two
\* race or the update is a candidate.
LostUpdatesAreReported ==
    \A s \in Started : ~Ended(s) =>
        \A r \in reads :
            (/\ r.strand = s /\ <<r.location, "Write">> \in Accesses(Site(s))
             /\ r.locks \cap {h.lock : h \in ToSet(held[s])} # {}) =>
                \A x \in r.between :
                    \/ report.capped
                    \/ {<<{r.site, x}, r.location>>, <<{Site(s), x}, r.location>>}
                           \cap report.races # {}
                    \/ <<r.site, Site(s), x>> \in report.updates

\* No two strands disturb each other's access to a location, or the read and the
\* write of an update, unless a candidate names them.
ConflictsAreReported == RacesAreReported /\ LostUpdatesAreReported

Blocked == {s \in Started : AtAcquisition(s) /\ Obstacles(s) # {}}

\* The strands of circles of strands, each kept waiting by the next one.
Circles == CyclicComponents({p \in Blocked \X Blocked : p[2] \in Obstacles(p[1])})

\* Where strands wait for each other's locks in a circle, the locks they want
\* are together in a finding, two at least: taking one lock again in the other
\* mode is no order of locks.
LockDeadlocksAreReported ==
    \A circle \in Circles :
        LET wanted == {About(Site(s)) : s \in circle}
        IN Cardinality(wanted) > 1 => \E c \in report.orders : wanted \subseteq c

IsExchange(n) == ast.message[n] \in {"Send", "SendSync", "Recv"}
Exchanges(s) == SelectSeq(Body(s), IsExchange)
Sending(c) ==
    {s \in Started : \E n \in ToSet(Exchanges(s)) : ast.message[n] # "Recv" /\ About(n) = c}
Untouched(s) == SelectSeq(Past(s), IsExchange) = <<>>

\* The strands whose first message is one that only strands of S could send.
Starved(S) ==
    \A s \in S : /\ Untouched(s) /\ AtMessage(s, {"Recv"})
                 /\ Sending(About(Site(s))) # {} /\ Sending(About(Site(s))) \subseteq S

\* Processes that wait for each other before anything else, and for nobody
\* else, are reported; and processes that are reported, and have no other one
\* to wait for, never receive their first message.
WaitsAreReported ==
    /\ \A S \in SUBSET Started \ {{}} :
           Starved(S) => \E c \in report.waits : \A p \in c : <<p>> \in S
    /\ \A c \in report.waits :
           LET S == {<<p>> : p \in c}
               closed == \A s \in S : LET n == Head(SelectSeq(Exchanges(s), LAMBDA m : ast.message[m] = "Recv"))
                                      IN Sending(About(n)) \subseteq S
           IN S \subseteq Started /\ closed => \A s \in S : Untouched(s)

\* Strands that block each other for good, by locks or before their first
\* message, are in a finding.
DeadlocksAreReported == LockDeadlocksAreReported /\ WaitsAreReported
===============================================================================
