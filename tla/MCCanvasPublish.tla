--------------------------- MODULE MCCanvasPublish ---------------------------
EXTENDS CanvasPublish

CONSTANTS v1, v2, big, c1, c2

(* Every node is on the saved canvas, in the same small state. *)
MCSaved == [n \in Nodes |-> v1]

Symmetric == Permutations(Clients)
=============================================================================
