---------------------------- MODULE MCFunctionFlow ----------------------------
(* Every control flow over eleven edges among four nodes. *)
EXTENDS FunctionFlow

\* A branch, nested and overlapping loops, a self loop, loops with two entries.
TangledEdges ==
    {<<1, 2>>, <<1, 3>>, <<2, 3>>, <<3, 2>>, <<2, 4>>, <<3, 4>>, <<4, 2>>, <<4, 3>>,
     <<4, 1>>, <<3, 3>>, <<3, 1>>}

===============================================================================
