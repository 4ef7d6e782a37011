--------------------------- MODULE MCBaseChannel ---------------------------
EXTENDS BaseChannel

CONSTANTS x1, x2, p1, r1, m1

TwoItems == {x1, x2}
OnePusher == {p1}
OnePopper == {r1}
OneRemover == {m1}
=============================================================================
