--------------------------- MODULE MCPaperManager ---------------------------
(* Small instances of PaperManager: up to three trades, two profiles, two symbols
   and two connections. *)
EXTENDS PaperManager

CONSTANTS g1, g2, p1, p2, x, y, f1, f2

MCSymbolOf == [g \in Signals |-> IF g = g1 THEN x ELSE y]
\* The topics of x are spread over both connections.
MCShared == [f \in Feeds |-> IF f = f1 THEN {x, y} ELSE {x}]
MCApart == [f \in Feeds |-> IF f = f1 THEN {x} ELSE {y}]
MCWants == {<<g1, p1>>, <<g2, p1>>} \cup ({<<g1, p2>>} \cap Trades)
MCLimit == [p \in Profiles |-> 1]
MCTwo == [p \in Profiles |-> 2]
MCLoss == [p \in Profiles |-> 3]
MCInitial == [p \in Profiles |-> 4]
MCGains == {-3, 2}
MCLosses == {-3}
=============================================================================
