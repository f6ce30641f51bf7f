---------------------------- MODULE MCCanvasSync ----------------------------
EXTENDS CanvasSync

(* Every node is on the saved canvas, in the same state. *)
MCSaved == [n \in Nodes |-> CHOOSE v \in Values : TRUE]

=============================================================================
