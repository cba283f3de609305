------------------------- MODULE MCCodePropertyGraph --------------------------
(***************************************************************************)
(* Small instances of CodePropertyGraph for TLC.                           *)
(***************************************************************************)
EXTENDS CodePropertyGraph

CONSTANTS r1, r2

\* A fresh node, and one copied with a parent pointer its graph never linked.
Fresh(id) == [id |-> id, parent |-> None, children |-> <<>>, refs |-> {}]
Copied(id, p) == [Fresh(id) EXCEPT !.parent = p]

NewlyParsed == {Fresh(0), Copied(1, 0)}

Ask(op, node, other, layer) == [op |-> op, node |-> node, other |-> other, layer |-> layer]
MixedQueries == {Ask("outgoing", 0, 0, 1), Ask("incoming", 0, 0, 0),
                 Ask("between", 0, 1, 0), Ask("layer", 0, 0, 0), Ask("dense", 0, 0, 0)}
===============================================================================
