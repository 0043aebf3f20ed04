----------------------------- MODULE MCSession -----------------------------
EXTENDS Session

CONSTANTS c1, c2

MCClient == {c1, c2}
=============================================================================
