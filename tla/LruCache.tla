------------------------------- MODULE LruCache -------------------------------
(***************************************************************************)
(* What a FunctionAnalysisCache promises, with no word on how it is stored *)
(* (src/src/builder/incremental.rs): a map from canonical keys to plans    *)
(* that answers with the plan last stored under exactly the key asked for, *)
(* and forgets keys only while the map exceeds its bounds, the least       *)
(* recently used key first and never the one used last.                    *)
(***************************************************************************)
EXTENDS Naturals

CONSTANTS
    Keys, Artifacts, None,
    Exceeds(_)   \* does a map from keys to artifacts exceed the bounds?

VARIABLES
    plan,   \* resident keys -> artifact
    used,   \* resident keys -> time of the last use
    now,    \* clock of uses
    found   \* answer of the last lookup

vars == <<plan, used, now, found>>

Extend(f, k, v) == [x \in DOMAIN f \cup {k} |-> IF x = k THEN v ELSE f[x]]
Without(f, k) == [x \in DOMAIN f \ {k} |-> f[x]]

Init ==
    /\ plan = [k \in {} |-> None] /\ used = [k \in {} |-> 0]
    /\ now = 0 /\ found = None

Hit(k) ==
    /\ ~Exceeds(plan) /\ k \in DOMAIN plan
    /\ now' = now + 1
    /\ used' = [used EXCEPT ![k] = now + 1]
    /\ found' = plan[k]
    /\ UNCHANGED plan

Miss(k) ==
    /\ ~Exceeds(plan) /\ k \notin DOMAIN plan
    /\ now' = now + 1
    /\ found' = None
    /\ UNCHANGED <<plan, used>>

Store(k, a) ==
    /\ ~Exceeds(plan)
    /\ now' = now + 1
    /\ plan' = Extend(plan, k, a)
    /\ used' = Extend(used, k, now + 1)
    /\ found' = None

Forget(k) ==
    /\ Exceeds(plan) /\ k \in DOMAIN plan
    /\ used[k] < now
    /\ \A j \in DOMAIN plan \ {k} : used[k] < used[j]
    /\ plan' = Without(plan, k) /\ used' = Without(used, k)
    /\ UNCHANGED <<now, found>>

\* A plan that could not be kept is not stored; nothing is forgotten for it.
Refuse == ~Exceeds(plan) /\ found' = None /\ UNCHANGED <<plan, used, now>>

Clear ==
    /\ ~Exceeds(plan)
    /\ plan' = [k \in {} |-> None] /\ used' = [k \in {} |-> 0]
    /\ found' = None
    /\ UNCHANGED now

Next ==
    \/ \E k \in Keys : Hit(k) \/ Miss(k) \/ Forget(k) \/ \E a \in Artifacts : Store(k, a)
    \/ Refuse \/ Clear

Spec == Init /\ [][Next]_vars

===============================================================================
