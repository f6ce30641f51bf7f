--------------------------- MODULE OptimisticCanvas ---------------------------
(***************************************************************************)
(* What the ordering of canvas mutations promises to the people on a       *)
(* canvas, with none of the bookkeeping that achieves it: an edit shows at *)
(* once to its author, everyone is told of all edits in one order, and a   *)
(* node shows either the author's own last edit, while he has not been     *)
(* told of it, or what the order says.                                     *)
(*                                                                         *)
(* How long a client holds on to an edit of its own against the order is   *)
(* left open, but for two things: it lets go no later than with the last   *)
(* of its edits that it is told of, and having let go it follows the order *)
(* until its user edits the node again (src/src/shared/canvas-order.ts,    *)
(* the three rules of its header).                                         *)
(***************************************************************************)
EXTENDS Naturals, Sequences

CONSTANTS
  Clients,
  Nodes,
  States,     \* what a node can look like, not being there included
  Saved       \* the canvas everyone starts from

VARIABLES
  view,       \* view[c][n]: what c shows for n
  mine,       \* mine[c]: the nodes for which c shows its own edit
  edits,      \* edits[c]: what the user of c has done, oldest first
  placed,     \* placed[c]: how many of them have their place in the order
  history,    \* the order
  heard       \* heard[c]: how much of it c has been told

view_etc == <<view, mine, edits, placed, history, heard>>

Init ==
  /\ view    = [c \in Clients |-> Saved]
  /\ mine    = [c \in Clients |-> {}]
  /\ edits   = [c \in Clients |-> <<>>]
  /\ placed  = [c \in Clients |-> 0]
  /\ history = <<>>
  /\ heard   = [c \in Clients |-> 0]

(* c has not yet been told of some edit of its own of n. *)
Awaits(c, n) ==
  \E k \in 1..Len(edits[c]) :
     /\ edits[c][k].node = n
     /\ \/ k > placed[c]
        \/ \E j \in (heard[c] + 1)..Len(history) : history[j].src = c /\ history[j].idx = k

Write(c, n, v) ==
  /\ view'  = [view EXCEPT ![c][n] = v]
  /\ mine'  = [mine EXCEPT ![c] = @ \cup {n}]
  /\ edits' = [edits EXCEPT ![c] = Append(@, [node |-> n, val |-> v])]
  /\ UNCHANGED <<placed, history, heard>>

(* The next edit of c takes the next place in the order. *)
Place(c) ==
  /\ placed[c] < Len(edits[c])
  /\ placed' = [placed EXCEPT ![c] = @ + 1]
  /\ LET k == placed[c] + 1
         m == edits[c][k]
     IN  history' = Append(history, [src |-> c, idx |-> k, node |-> m.node, val |-> m.val])
  /\ UNCHANGED <<view, mine, edits, heard>>

(* c is told of the next edit and shows it. *)
Follow(c) ==
  /\ heard[c] < Len(history)
  /\ heard' = [heard EXCEPT ![c] = @ + 1]
  /\ LET m == history[heard[c] + 1]
     IN  /\ view' = [view EXCEPT ![c][m.node] = m.val]
         /\ mine' = [mine EXCEPT ![c] = @ \ {m.node}]
  /\ UNCHANGED <<edits, placed, history>>

(* c is told of the next edit and holds on to a later one of its own. *)
HoldOn(c) ==
  /\ heard[c] < Len(history)
  /\ heard' = [heard EXCEPT ![c] = @ + 1]
  /\ \E n \in mine[c] : history[heard[c] + 1].node = n /\ Awaits(c, n)'
  /\ UNCHANGED <<view, mine, edits, placed, history>>

Hear(c) == Follow(c) \/ HoldOn(c)

Next ==
  \E c \in Clients :
     \/ \E n \in Nodes, v \in States : Write(c, n, v)
     \/ Place(c)
     \/ Hear(c)

Spec == Init /\ [][Next]_view_etc

(* Every edit gets its place, and everyone is told of everything. *)
FairSpec ==
  /\ Spec
  /\ \A c \in Clients : WF_view_etc(Place(c)) /\ WF_view_etc(Hear(c))
=============================================================================
