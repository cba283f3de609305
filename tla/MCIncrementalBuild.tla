--------------------------- MODULE MCIncrementalBuild --------------------------
(* Instances of IncrementalBuild for TLC. *)
EXTENDS IncrementalBuild, TLC

CONSTANTS loop, edited, outer, iso, seen

(* A loop over 2 and 3 whose guard is a recorded exit, an edit of it that  *)
(* parses to the same tree but other flows, and a function that holds      *)
(* another one.                                                            *)
Loop == {<<1, 2>>, <<2, 3>>, <<3, 2>>}
Shapes == (loop :> "while") @@ (edited :> "while") @@ (outer :> "outer")
ShapeStops == ("while" :> {}) @@ ("outer" :> {3})
Cfgs ==
    (loop :> [edges |-> Loop, exits |-> {2}])
    @@ (edited :> [edges |-> Loop, exits |-> {2}])
    @@ (outer :> [edges |-> {<<1, 2>>, <<1, 3>>}, exits |-> {2}])

\* With names of its surroundings in sight a function reads one (0) more.
Flows ==
    (loop :> (iso :> {<<2, 3>>} @@ seen :> {<<0, 3>>, <<2, 3>>}))
    @@ (edited :> (iso :> {<<3, 2>>} @@ seen :> {<<3, 3>>}))
    @@ (outer :> (iso :> {<<2, 3>>} @@ seen :> {<<0, 2>>}))

Placed(text, around, calls) == [text |-> text, around |-> around, calls |-> calls]

\* One function of every kind, alone or after a loop that nothing surrounds.
Alone == {<<Placed(t, s, c)>> : t \in Texts, s \in Surroundings, c \in BOOLEAN}
AfterAnother == {<<Placed(loop, Isolated, FALSE)>> \o row : row \in Alone}

\* The function's Return is an exit without being recorded, so recording it
\* leaves its control dependence alone; recording 3 of the loop does not.
NeutralExits == (loop :> {}) @@ (edited :> {}) @@ (outer :> {3})
DisturbingExits == loop :> {3}

\* What the transparency of the cache is proved from holds of the neutral exits.
ASSUME NeutralAssumption == CallerExits = NeutralExits => ExitsAreNeutral

===============================================================================
