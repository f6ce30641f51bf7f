---------------------------- MODULE MCSessionHost ----------------------------
EXTENDS SessionHost, TLC

CONSTANTS o1, o2, r1, r2, r3

(* The operation o1 is retried, o2 is not. *)
MCOpOf == [r \in KillReqs |-> IF r = r3 THEN o2 ELSE o1]

Symmetric == Permutations(Attaches)
=============================================================================
