----------------------------- MODULE CanvasOrder -----------------------------
(***************************************************************************)
(* The per-node ordering state of one canvas client, and what it decides   *)
(* about each mutation (src/src/shared/canvas-order.ts).                   *)
(*                                                                         *)
(* createCanvasOrder keeps three maps keyed by node id: seen, pending and  *)
(* superseded.  Every decision reads and writes one key only, so the state *)
(* is one record per (client, node).  A pending entry with count 0 stands  *)
(* for "no entry": the code deletes an entry the moment its count is 0.    *)
(*                                                                         *)
(* The clock of the pending TTL is abstracted to the flag stale, raised by *)
(* Lapse once the entry has outlived PENDING_TTL_MS.  The code raises it   *)
(* lazily, the first time it is read; nothing else can observe the         *)
(* difference, and a new local cast lowers it again.                       *)
(***************************************************************************)
EXTENDS Naturals

OrderState == [seen : Nat, count : Nat, stale : BOOLEAN, superseded : BOOLEAN]

(* A node nobody has touched yet: no key in any of the three maps. *)
Untouched == [seen |-> 0, count |-> 0, stale |-> FALSE, superseded |-> FALSE]

Later(s, t) == IF s > t THEN s ELSE t

OnLocal_KeepsSuperseded(o) == [o EXCEPT !.count = @ + 1, !.stale = FALSE]

(* We cast a mutation for this node: our value is on our canvas again, so  *)
(* suppression is re-armed and an older echo must not be replayed.         *)
OnLocal(o) ==
  [seen |-> o.seen, count |-> o.count + 1, stale |-> FALSE, superseded |-> FALSE]

(* The latest unacked cast is older than the TTL. *)
Lapse(o) == [o EXCEPT !.stale = TRUE]

Current(o, s) == s > o.seen

(* Rule 2 is live: a cast of ours is unacked and within its TTL. *)
Suppressing(o) == o.count > 0 /\ ~o.stale

AckApplies_Rule1Only(o, s) == FALSE

AckApplies_OlderCast(o, s) == Current(o, s)

(* Rules 1 and 3: our own echo is an ack and is dropped, unless a peer's   *)
(* mutation has overwritten our value meanwhile: then it is a repair.      *)
AckApplies(o, s) == o.superseded /\ Current(o, s)

OnAck_ClearsWholeEntry(o, s) ==
  [o EXCEPT !.seen = Later(s, @), !.count = 0, !.stale = FALSE, !.superseded = FALSE]

OnAck(o, s) ==
  [seen       |-> Later(s, o.seen),
   count      |-> IF o.count > 0 THEN o.count - 1 ELSE 0,
   stale      |-> IF o.count > 1 THEN o.stale ELSE FALSE,
   superseded |-> IF o.count = 1 THEN FALSE ELSE o.superseded]

(* A peer's mutation is applied unless it is a straggler or a newer edit   *)
(* of ours is in flight.                                                   *)
PeerApplies(o, s) == Current(o, s) /\ ~Suppressing(o)

OnPeer_DrawsDown(o, s) == [o EXCEPT !.seen = Later(s, @), !.count = @ - 1]

OnPeer_ForgetsRepair(o, s) == [o EXCEPT !.seen = Later(s, @)]

(* Applying it over an unacked cast of ours means our value is gone, and   *)
(* only our late echo can put it back.                                     *)
OnPeer(o, s) ==
  [seen       |-> Later(s, o.seen),
   count      |-> o.count,
   stale      |-> o.stale,
   superseded |-> IF PeerApplies(o, s) /\ o.count > 0 THEN TRUE ELSE o.superseded]
=============================================================================
