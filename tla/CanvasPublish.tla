---------------------------- MODULE CanvasPublish ----------------------------
(***************************************************************************)
(* CanvasSync with the emitting side in full: what a client casts is not   *)
(* the edit itself but the difference between two snapshots of its canvas, *)
(* found by the publisher of src/src/shared/canvas-publish.ts as           *)
(* src/src/renderer/canvas/Canvas.tsx drives it.                           *)
(*                                                                         *)
(* CanvasSync takes every edit to be one cast.  Here an edit may be cast   *)
(* late (the frames of a drag are throttled), together with others, not at *)
(* all (refused: too large for the reflector), or be undone first.  The    *)
(* variables of CanvasSync keep their meaning, the reflector is unchanged. *)
(*                                                                         *)
(* A coalesced snapshot is always the canvas as it is now: every change of *)
(* the canvas runs the publish effect, which replaces the snapshot or      *)
(* drops it.  So the publisher's pending is the flag owed.                 *)
(*                                                                         *)
(* The peers gate is open: every client knows of the others.               *)
(***************************************************************************)
EXTENDS CanvasSync, SequencesExt

CONSTANTS
  Oversized,  \* the values whose mutation isCanvasMutation refuses
  Draggers    \* the clients whose user drags

ASSUME OversizedAssumption == Oversized \subseteq Values
ASSUME DraggersAssumption == Draggers \subseteq Clients
ASSUME NodesAssumption == IsFiniteSet(Nodes)

VARIABLES
  base,       \* base[c]: the baseline the next snapshot is diffed against
  owed,       \* owed[c]: a coalesced snapshot waits for the timer (pending)
  armed,      \* armed[c]: the throttle window is open (timer)
  dragging    \* dragging[c]: draggingRef

publisher == <<base, owed, armed>>
pubVars   == <<vars, publisher, dragging>>

PubTypeOK ==
  /\ TypeOK
  /\ base     \in [Clients -> [Nodes -> NodeStates]]
  /\ owed     \in [Clients -> BOOLEAN]
  /\ armed    \in [Clients -> BOOLEAN]
  /\ dragging \in [Clients -> BOOLEAN]

(* The saved canvas has been loaded, and adopted. *)
PubInit ==
  /\ Init
  /\ base     = [c \in Clients |-> Saved]
  /\ owed     = [c \in Clients |-> FALSE]
  /\ armed    = [c \in Clients |-> FALSE]
  /\ dragging = [c \in Clients |-> FALSE]

-----------------------------------------------------------------------------
Changed(prev, next) == {n \in Nodes : prev[n] # next[n]}

(* One mutation per node of D, the upserts before the removes.  Which of   *)
(* two upserts comes first depends on the array order of the nodes, which  *)
(* no property tells apart.                                                *)
DiffToMutations(D, next) ==
  LET upserted == {n \in D : next[n] # Absent}
      order    == SetToSeq(upserted) \o SetToSeq(D \ upserted)
  IN  [i \in DOMAIN order |-> [node |-> order[i], val |-> next[order[i]]]]

Castable_Unchecked(val) == TRUE

Castable(val) == val \notin Oversized

(* The nodes whose cast is refused. *)
Refused(prev, next) == {n \in Changed(prev, next) : next[n] \in Oversized}

(* The new baseline: a refused node keeps its old entry, so it stays owed. *)
RebaseRefused(prev, next) ==
  [n \in Nodes |-> IF n \in Refused(prev, next) THEN prev[n] ELSE next[n]]

Adopt_KeepsBaseline(prev, flow) == prev

(* The loop guard: a canvas a peer has changed is the new baseline, whole. *)
Adopt(prev, flow) == flow

(* Diff, cast what the reflector will take, and advance the baseline.  The *)
(* order state o is the one the casts are recorded in.                     *)
Emit(c, o, prev, next) ==
  LET said == {n \in Changed(prev, next) : Castable(next[n])}
  IN  /\ sent' = [sent EXCEPT ![c] = @ \o DiffToMutations(said, next)]
      /\ ord'  = [ord EXCEPT ![c] = [n \in Nodes |-> IF n \in said THEN OnLocal(o[n]) ELSE o[n]]]
      /\ base' = [base EXCEPT ![c] = RebaseRefused(prev, next)]

(* The [nodes] effect: a drag frame is cast at most once per window, any   *)
(* other change at once.                                                   *)
Publish(c, o, prev, next) ==
  IF dragging[c] /\ armed[c]
    THEN /\ owed' = [owed EXCEPT ![c] = TRUE]
         /\ base' = [base EXCEPT ![c] = prev]
         /\ ord'  = [ord EXCEPT ![c] = o]
         /\ UNCHANGED <<sent, armed>>
    ELSE /\ Emit(c, o, prev, next)
         /\ armed' = [armed EXCEPT ![c] = dragging[c]]
         /\ owed'  = [owed EXCEPT ![c] = FALSE]

(* Close the throttle window, cast the coalesced frame if there is one. *)
Settle(c) ==
  /\ armed' = [armed EXCEPT ![c] = FALSE]
  /\ owed'  = [owed EXCEPT ![c] = FALSE]
  /\ IF owed[c] THEN Emit(c, ord[c], base[c], canvas[c]) ELSE UNCHANGED <<sent, ord, base>>
  /\ UNCHANGED <<canvas, stamped, log, got>>

-----------------------------------------------------------------------------
(* The user of c changes the nodes of S at once: moves or edits them to v, *)
(* or deletes them.  The publish effect runs for the new canvas.  While a  *)
(* drag lasts the nodes of S are on the canvas and move.                   *)
ChangeCanvas(c, S, v) ==
  LET next == [n \in Nodes |-> IF n \in S THEN v ELSE canvas[c][n]]
  IN  /\ Len(sent[c]) + Cardinality(S) <= MaxCasts
      /\ \A n \in S : canvas[c][n] # v
      /\ dragging[c] => v # Absent /\ \A n \in S : canvas[c][n] # Absent
      /\ canvas' = [canvas EXCEPT ![c] = next]
      /\ Publish(c, ord[c], base[c], next)
      /\ UNCHANGED <<stamped, log, got, dragging>>

(* A drag begins: from here on every change of the canvas is a drag frame. *)
DragStart(c) ==
  /\ c \in Draggers
  /\ ~dragging[c]
  /\ dragging' = [dragging EXCEPT ![c] = TRUE]
  /\ UNCHANGED <<vars, publisher>>

DragStop_NoFlush(c) ==
  /\ dragging[c]
  /\ dragging' = [dragging EXCEPT ![c] = FALSE]
  /\ armed'    = [armed EXCEPT ![c] = FALSE]
  /\ owed'     = [owed EXCEPT ![c] = FALSE]
  /\ UNCHANGED <<vars, base>>

(* The drag ends: flush() casts the coalesced frame now.  The publish that *)
(* follows the settled nodes finds nothing left to cast.                   *)
DragStop(c) ==
  /\ dragging[c]
  /\ dragging' = [dragging EXCEPT ![c] = FALSE]
  /\ Settle(c)

(* The throttle window closes. *)
Timer(c) ==
  /\ armed[c]
  /\ Settle(c)
  /\ UNCHANGED dragging

(* The next stamped mutation reaches c.  One that is accepted is patched   *)
(* into the canvas, and the whole canvas adopted; then the publish effect  *)
(* runs for the patched canvas.  A remove of a node that is not there is   *)
(* accepted but changes nothing, and ends before the adopt.                *)
PubReceive(c) ==
  /\ got[c] < Len(log)
  /\ LET s     == got[c] + 1
         m     == log[s]
         o     == ord[c][m.node]
         own   == m.src = c
         heard == [ord[c] EXCEPT ![m.node] = IF own THEN OnAck(@, s) ELSE OnPeer(@, s)]
         flow  == [canvas[c] EXCEPT ![m.node] = m.val]
         accepted == IF own THEN AckApplies(o, s) ELSE PeerApplies(o, s)
     IN  IF accepted /\ ~(m.val = Absent /\ flow = canvas[c])
           THEN /\ canvas' = [canvas EXCEPT ![c] = flow]
                /\ Publish(c, heard, Adopt(base[c], flow), flow)
           ELSE /\ ord' = [ord EXCEPT ![c] = heard]
                /\ UNCHANGED <<canvas, sent, publisher>>
  /\ got' = [got EXCEPT ![c] = @ + 1]
  /\ UNCHANGED <<stamped, log, dragging>>

(* The reflector takes the next cast of c; one it refuses it drops without *)
(* an answer.  It asks the same predicate as the publisher, whose clients  *)
(* therefore never cast one.                                               *)
Reflect(c) ==
  /\ stamped[c] < Len(sent[c])
  /\ IF sent[c][stamped[c] + 1].val \in Oversized
       THEN /\ stamped' = [stamped EXCEPT ![c] = @ + 1]
            /\ UNCHANGED <<canvas, ord, sent, log, got>>
       ELSE Stamp(c)
  /\ UNCHANGED <<publisher, dragging>>

PubNext ==
  \E c \in Clients :
     \/ \E S \in SUBSET Nodes \ {{}}, v \in NodeStates : ChangeCanvas(c, S, v)
     \/ DragStart(c)
     \/ DragStop(c)
     \/ Timer(c)
     \/ PubReceive(c)
     \/ Reflect(c)
     \/ \E n \in Nodes : TtlLapses(c, n) /\ UNCHANGED <<publisher, dragging>>

PubSpec == PubInit /\ [][PubNext]_pubVars

-----------------------------------------------------------------------------
(* No frame of c waits for the throttle timer, and c shows nothing for n   *)
(* that the reflector would refuse: c has nothing left to say of n.        *)
NothingOwed(c, n) == ~owed[c] /\ canvas[c][n] \notin Oversized

(* Every client has said all it has to say of n and all of it has arrived. *)
SaidAndDone(n) == Quiet(n) /\ \A c \in Clients : NothingOwed(c, n)

(* Throttling, coalescing, bulk edits and refused casts included: once     *)
(* nothing about a node is in flight, and nothing about it waits to be     *)
(* cast, every client shows the same state of it ("so all clients converge *)
(* on the same node set", canvas-sync.ts).                                 *)
Agreement ==
  \A n \in Nodes : SaidAndDone(n) => \A c, d \in Clients : canvas[c][n] = canvas[d][n]

(* No edit of one's own is lost on its way to the publisher: what a client *)
(* shows for a node, with nothing owed or unacked, is what the total order *)
(* last told it.                                                           *)
EditsReachTheOrder ==
  \A c \in Clients, n \in Nodes :
     NothingOwed(c, n) /\ InFlight(c, n) = {}
        => canvas[c][n] = OrderedValue(n, ord[c][n].seen)

(* A delivery is never answered by a cast: a mutation is not passed on     *)
(* from peer to peer for ever (canvas-publish.ts, adopt).                  *)
NoEcho == [][got' # got => sent' = sent]_pubVars
=============================================================================
