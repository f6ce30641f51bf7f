---------------------------- MODULE MCSessionFlow ----------------------------
EXTENDS SessionFlow, TLC

Symmetric == Permutations(Sockets)
=============================================================================
