----------------------- MODULE MCBaseLevelQueueUnique -----------------------
EXTENDS BaseLevelQueueUnique

CONSTANTS x1, x2, p1, p2

TwoItems == {x1, x2}
OneThread == {p1}
TwoThreads == {p1, p2}
=============================================================================
