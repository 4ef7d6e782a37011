------------------------- MODULE MCWorkerPoolQueue -------------------------
EXTENDS WorkerPoolQueue, TLC

CONSTANTS i1, i2, i3, w1, w2, f1

OneItem == {i1}
TwoItems == {i1, i2}
ThreeItems == {i1, i2, i3}
OneWorker == {w1}
TwoWorkers == {w1, w2}
OneFlusher == {f1}
None == {}
FixedOne == {1}
FixedTwo == {2}
ZeroToTwo == {0, 1, 2}

WorkerSymmetry == Permutations(Workers)
=============================================================================
