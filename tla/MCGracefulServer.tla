-------------------------- MODULE MCGracefulServer --------------------------
EXTENDS GracefulServer

CONSTANTS c1, c2

TwoConns == {c1, c2}
Nobody == {}
AllSignals == {"HUP", "USR2", "TERM"}
=============================================================================
