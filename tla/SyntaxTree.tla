------------------------------- MODULE SyntaxTree --------------------------------
(***************************************************************************)
(* The syntax a program graph holds before any overlay is built, as the   *)
(* builders under src/src/builder read it: AstChild edges in edge order,   *)
(* the kind of every node, the name an identifier or a declaration         *)
(* carries and the function a call resolves to.                            *)
(*                                                                         *)
(* ast is a record over the nodes of one graph                             *)
(*   kind      the kind of a node, "Other" where no builder tells it       *)
(*             apart; a node without a kind is "Missing" from the graph    *)
(*   children  ast_children, in order; nothing makes it a tree             *)
(*   name      the variable a binding or an identifier names               *)
(*   callee    the function a call resolves to, NoNode when unresolved     *)
(* Nodes are numbers and their order is that of the identifiers.           *)
(***************************************************************************)
EXTENDS Naturals, Sequences, FiniteSets, SequencesExt

VARIABLE ast

NoNode == 0
Nodes == DOMAIN ast.kind

Children(n) == ast.children[n]
IsKind(n, kinds) == ast.kind[n] \in kinds

NoName == ""
Names == {ast.name[n] : n \in Nodes} \ {NoName}

InNodeOrder(S) == SelectSeq([n \in Nodes |-> n], LAMBDA n : n \in S)

\* functions(), in node order.
Functions == InNodeOrder({n \in Nodes : IsKind(n, {"Function"})})

-------------------------------------------------------------------------------
(* ast_parent, ast_ancestors, ast_descendants, function_scope_nodes *)

Holders(n) == {p \in Nodes : n \in ToSet(Children(p))}

\* The parent recorded on a node is the least source of its AstChild edges.
Parent(n) ==
    IF Holders(n) = {} THEN NoNode
    ELSE CHOOSE p \in Holders(n) : \A q \in Holders(n) : p <= q

\* The chain of parents from n, cut where it would return into itself.
Ancestors(n) ==
    LET Above[k \in 0..Cardinality(Nodes)] ==
            IF k = 0 THEN {Parent(n)}
            ELSE LET known == Above[k - 1]
                 IN known \cup {Parent(p) : p \in known \ {NoNode, n}}
    IN Above[Cardinality(Nodes)] \ {NoNode, n}

\* The nodes under n that a walk reaches without entering a node of stopped.
Under(n, stopped) ==
    LET Grow[known \in SUBSET Nodes] ==
            LET more == known \cup (UNION {ToSet(Children(p)) : p \in known} \ stopped)
            IN IF more = known THEN known ELSE Grow[more]
    IN Grow[{n}]

Descendants(n) == Under(n, {}) \ {n}
FunctionScope(f) == Under(f, ToSet(Functions) \ {f})
===============================================================================
