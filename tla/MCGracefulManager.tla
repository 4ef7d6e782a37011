------------------------- MODULE MCGracefulManager -------------------------
EXTENDS GracefulManager

CONSTANTS r1, r2, t1

TwoRunners == {r1, r2}
OneFn == {t1}
AllSignals == {"HUP", "USR2", "TERM"}
HupOnly == {"HUP"}
=============================================================================
