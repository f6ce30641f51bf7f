------------------------- MODULE MCSessionHostClient -------------------------
EXTENDS SessionHostClient, TLC

CONSTANTS s1, s2

Symmetric == Permutations(Subs)
=============================================================================
