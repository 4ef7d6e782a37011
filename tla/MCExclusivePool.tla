--------------------------- MODULE MCExclusivePool ---------------------------
EXTENDS ExclusivePool

CONSTANTS t1, t2, t3, pr1, pr2, l1, l2, l3

ThreeInstances == {t1, t2, t3}
TwoIdentities == {pr1, pr2}
ThreeLocks == {l1, l2, l3}
=============================================================================
