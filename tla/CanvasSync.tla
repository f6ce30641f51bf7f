------------------------------ MODULE CanvasSync ------------------------------
(***************************************************************************)
(* Two or more clients editing one canvas through the ordering reflector.  *)
(*                                                                         *)
(* A client applies its own edit at once, casts it, and later hears every  *)
(* mutation back, its own included, in the order the reflector stamped     *)
(* them (src/src/core/canvas-sync.ts).  CanvasOrder decides what it does   *)
(* with each one.                                                          *)
(*                                                                         *)
(* Both transports are FIFO per connection (IPC, WebSocket), so a channel  *)
(* is a sequence that only grows and the number of its elements already    *)
(* consumed: sent[c] and stamped[c] for casts on their way to the          *)
(* reflector, log and got[c] for stamped mutations on their way to c.  The *)
(* position of a mutation in log is its seq.  The field idx of a log entry *)
(* is auxiliary: it names the cast the entry came from, and no action      *)
(* reads it.                                                               *)
(*                                                                         *)
(* The clients are attached, and know of each other, from the start.  A    *)
(* node's serialized state is one value; Absent stands for a node that is  *)
(* not on the canvas, so a remove is a mutation to Absent and adding,      *)
(* moving and renaming are mutations to another value.                     *)
(***************************************************************************)
EXTENDS Naturals, Sequences, FiniteSets, CanvasOrder

CONSTANTS
  Clients,    \* attached renderers
  Nodes,      \* node ids
  Values,     \* states a node can have on the canvas
  Absent,     \* the node is not on the canvas
  Saved,      \* the canvas every client loaded from disk
  MaxCasts    \* bound on the edits of one client

NodeStates == Values \union {Absent}

ASSUME AbsentAssumption == Absent \notin Values
ASSUME SavedAssumption  == Saved \in [Nodes -> NodeStates]
ASSUME MaxCastsAssumption == MaxCasts \in Nat

VARIABLES
  canvas,     \* canvas[c][n]: what client c shows for node n (React Flow's nodes)
  ord,        \* ord[c][n]: the ordering state of c for n
  sent,       \* sent[c]: the mutations c has cast, oldest first
  stamped,    \* stamped[c]: how many of sent[c] the reflector has stamped
  log,        \* the reflector's total order
  got         \* got[c]: how many entries of log have been delivered to c

vars == <<canvas, ord, sent, stamped, log, got>>

Mutation == [node : Nodes, val : NodeStates]
Entry    == [src : Clients, idx : Nat, node : Nodes, val : NodeStates]

TypeOK ==
  /\ canvas  \in [Clients -> [Nodes -> NodeStates]]
  /\ ord     \in [Clients -> [Nodes -> OrderState]]
  /\ sent    \in [Clients -> Seq(Mutation)]
  /\ stamped \in [Clients -> Nat]
  /\ log     \in Seq(Entry)
  /\ got     \in [Clients -> Nat]

Init ==
  /\ canvas  = [c \in Clients |-> Saved]
  /\ ord     = [c \in Clients |-> [n \in Nodes |-> Untouched]]
  /\ sent    = [c \in Clients |-> <<>>]
  /\ stamped = [c \in Clients |-> 0]
  /\ log     = <<>>
  /\ got     = [c \in Clients |-> 0]

-----------------------------------------------------------------------------
(* The user of c changes node n: the canvas changes at once, the publisher *)
(* diffs it against its baseline and casts the one mutation there is.      *)
Edit(c, n, v) ==
  /\ Len(sent[c]) < MaxCasts
  /\ v # canvas[c][n]
  /\ canvas' = [canvas EXCEPT ![c][n] = v]
  /\ ord'    = [ord EXCEPT ![c][n] = OnLocal(@)]
  /\ sent'   = [sent EXCEPT ![c] = Append(@, [node |-> n, val |-> v])]
  /\ UNCHANGED <<stamped, log, got>>

Stamp_OutOfOrder(c) ==
  /\ stamped[c] < Len(sent[c])
  /\ LET m == sent[c][Len(sent[c])]
     IN  log' = Append(log, [src |-> c, idx |-> Len(sent[c]), node |-> m.node, val |-> m.val])
  /\ stamped' = [stamped EXCEPT ![c] = Len(sent[c])]
  /\ UNCHANGED <<canvas, ord, sent, got>>

(* The reflector takes the next cast of c, stamps it with the next seq and *)
(* sends it to every client, c included.                                   *)
Stamp(c) ==
  /\ stamped[c] < Len(sent[c])
  /\ LET k == stamped[c] + 1
         m == sent[c][k]
     IN  log' = Append(log, [src |-> c, idx |-> k, node |-> m.node, val |-> m.val])
  /\ stamped' = [stamped EXCEPT ![c] = @ + 1]
  /\ UNCHANGED <<canvas, ord, sent, got>>

(* The next stamped mutation reaches c, which accepts or drops it. *)
Receive(c) ==
  /\ got[c] < Len(log)
  /\ LET s   == got[c] + 1
         m   == log[s]
         o   == ord[c][m.node]
         own == m.src = c
     IN  /\ ord' = [ord EXCEPT ![c][m.node] = IF own THEN OnAck(@, s) ELSE OnPeer(@, s)]
         /\ canvas' = IF (own /\ AckApplies(o, s)) \/ (~own /\ PeerApplies(o, s))
                      THEN [canvas EXCEPT ![c][m.node] = m.val]
                      ELSE canvas
  /\ got' = [got EXCEPT ![c] = @ + 1]
  /\ UNCHANGED <<sent, stamped, log>>

(* A cast of c for n stays unacked for longer than PENDING_TTL_MS. *)
TtlLapses(c, n) ==
  /\ Suppressing(ord[c][n])
  /\ ord' = [ord EXCEPT ![c][n] = Lapse(@)]
  /\ UNCHANGED <<canvas, sent, stamped, log, got>>

Next ==
  \E c \in Clients :
     \/ \E n \in Nodes, v \in NodeStates : Edit(c, n, v)
     \/ Stamp(c)
     \/ Receive(c)
     \/ \E n \in Nodes : TtlLapses(c, n)

Spec == Init /\ [][Next]_vars

(* Neither transport holds a frame for ever: the main process and every    *)
(* renderer keep draining their event loops.  Nobody is obliged to edit    *)
(* and no TTL is obliged to lapse.                                         *)
Fairness == \A c \in Clients : WF_vars(Stamp(c)) /\ WF_vars(Receive(c))

FairSpec == Spec /\ Fairness

-----------------------------------------------------------------------------
(* The casts of c for n whose echo has not come back yet. *)
InFlight(c, n) ==
  {k \in 1..Len(sent[c]) :
     /\ sent[c][k].node = n
     /\ \/ k > stamped[c]
        \/ \E j \in (got[c] + 1)..Len(log) : log[j].src = c /\ log[j].idx = k}

(* What the total order says of n after its first s mutations, where s is  *)
(* the position of the last one that addresses n (0: none).                *)
OrderedValue(n, s) == IF s = 0 THEN Saved[n] ELSE log[s].val

(* Nothing about n is on the way to the reflector or to any client. *)
Quiet(n) ==
  \A c \in Clients :
     /\ \A k \in (stamped[c] + 1)..Len(sent[c]) : sent[c][k].node # n
     /\ \A j \in (got[c] + 1)..Len(log) : log[j].node # n

(* Whatever the interleaving of edits, deliveries and lapsed TTLs, once    *)
(* nothing about a node is in flight every client shows the same state of  *)
(* it, so that whoever saves the whole canvas writes the same bytes        *)
(* (canvas-order.ts: "every client ends on the mutation with the highest   *)
(* seq for that node").                                                    *)
Convergence ==
  \A n \in Nodes : Quiet(n) => \A c, d \in Clients : canvas[c][n] = canvas[d][n]

(* A client that waits for none of its own echoes of a node shows exactly  *)
(* the last mutation of that node it has been sent: neither a lapsed TTL   *)
(* nor a late ack leaves it on a value the total order has overruled.      *)
SettledShowsOrder ==
  \A c \in Clients, n \in Nodes :
     InFlight(c, n) = {} => canvas[c][n] = OrderedValue(n, ord[c][n].seen)

(* The record of unacked casts is exact: an entry is drawn down to nothing *)
(* by the echoes of the very casts it counted, so a node is never deaf to  *)
(* its peers for longer than its own edits are in flight.                  *)
PendingMatchesInFlight ==
  \A c \in Clients, n \in Nodes : ord[c][n].count = Cardinality(InFlight(c, n))

(* A delivery never moves a node under the hand that is editing it: while  *)
(* an unacked cast suppresses peers, only a new local edit changes it.     *)
NoRubberBand ==
  [][\A c \in Clients, n \in Nodes :
        Suppressing(ord[c][n]) /\ canvas'[c][n] # canvas[c][n]
           => Len(sent'[c]) = Len(sent[c]) + 1]_vars

(* Once the users stop editing, every client comes to show the same canvas *)
(* and keeps showing it.                                                   *)
EventuallyAgree ==
  <>[](\A c, d \in Clients : canvas[c] = canvas[d])
-----------------------------------------------------------------------------
(* The abstract specification: a client's own edits are the nodes with an  *)
(* unacked cast that no peer has overwritten.  The ordering state itself   *)
(* is hidden: the promise knows nothing of counts, seqs or TTLs.           *)
OwnEdits(c) == {n \in Nodes : ord[c][n].count > 0 /\ ~ord[c][n].superseded}

Promise == INSTANCE OptimisticCanvas WITH
  States  <- NodeStates,
  view    <- canvas,
  mine    <- [c \in Clients |-> OwnEdits(c)],
  edits   <- sent,
  placed  <- stamped,
  history <- log,
  heard   <- got

(* The three rules and the lazy expiry implement that promise: no ack and  *)
(* no peer's mutation ever shows a user anything but his own last edit or  *)
(* what the order says, and once he has lost a node to the order he cannot *)
(* get it back but by editing it (canvas-order.ts, rules 1 to 3).          *)
KeepsPromise == Promise!FairSpec
-----------------------------------------------------------------------------
(* The inductive invariant behind the safety properties above. *)

(* What the two FIFO transports guarantee: the log holds each client's     *)
(* stamped casts, unaltered, once each and in the order they were cast.    *)
Fifo ==
  /\ \A c \in Clients : stamped[c] <= Len(sent[c]) /\ got[c] <= Len(log)
  /\ \A j \in 1..Len(log) :
        /\ log[j].idx \in 1..stamped[log[j].src]
        /\ sent[log[j].src][log[j].idx].node = log[j].node
        /\ sent[log[j].src][log[j].idx].val = log[j].val
  /\ \A i, j \in 1..Len(log) :
        i < j /\ log[i].src = log[j].src => log[i].idx < log[j].idx

(* seen is the position of the last mutation of the node delivered to c. *)
SeenIsLast ==
  \A c \in Clients, n \in Nodes :
     /\ ord[c][n].seen <= got[c]
     /\ ord[c][n].seen > 0 => log[ord[c][n].seen].node = n
     /\ \A j \in (ord[c][n].seen + 1)..got[c] : log[j].node # n

(* Only a lapsed TTL lets a peer overwrite a value of ours. *)
SupersededIsStale ==
  \A c \in Clients, n \in Nodes :
     ord[c][n].superseded => ord[c][n].stale /\ ord[c][n].count > 0

(* A client shows its own latest unacked cast of a node or, once that is   *)
(* superseded or there is none, what the total order says.                 *)
ShowsOwnOrOrder ==
  \A c \in Clients, n \in Nodes :
     IF ord[c][n].superseded \/ ord[c][n].count = 0
       THEN canvas[c][n] = OrderedValue(n, ord[c][n].seen)
       ELSE \A k \in InFlight(c, n) :
               (\A i \in InFlight(c, n) : i <= k) => canvas[c][n] = sent[c][k].val

IInv ==
  /\ TypeOK
  /\ Fifo
  /\ SeenIsLast
  /\ PendingMatchesInFlight
  /\ SupersededIsStale
  /\ ShowsOwnOrOrder
=============================================================================
