------------------------- MODULE MCUnitLinksOutbox -------------------------
EXTENDS UnitLinksOutbox

CONSTANTS r1, r2, r3, e1, p1, p2

ThreeRuns == {r1, r2, r3}
TwoProcesses == {p1, p2}
OneProcess == {p1}
OtherProcess == {p2}
Everything == Misfortunes
OneEvent == {e1}

\* r1 and r2 are on p1, r3 on p2.
Placed == [r \in Runs |-> IF r \in {r1, r2} THEN p1 ELSE p2]
=============================================================================
