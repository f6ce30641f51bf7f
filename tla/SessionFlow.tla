----------------------------- MODULE SessionFlow -----------------------------
(***************************************************************************)
(* One running terminal of the session host and the connections that view  *)
(* it (src/src/session-host/session.ts, socket-flow.ts, and the attach,    *)
(* detach and close handlers of host.ts): who is subscribed, whose flow    *)
(* tickets hold the process paused, what size the terminal has, and which  *)
(* output a viewer gets as a screen and which as a stream.                 *)
(*                                                                         *)
(* outputTail is a FIFO of jobs, chunks to write into the emulator and     *)
(* geometry to reconcile.  Writing a chunk takes a turn of the event loop  *)
(* (xterm defers it); a geometry job at the head of the queue and the      *)
(* continuation of an attach whose wait is over run before anything from   *)
(* outside: Settled.                                                       *)
(*                                                                         *)
(* Attaches to one name take turns (SessionHost), and the requests of one  *)
(* connection for one name are served in order, so that one attach is in   *)
(* flight and its connection has no other request served meanwhile.        *)
(* Attachment epochs therefore only tell whether a close has come between: *)
(* the field current.                                                      *)
(*                                                                         *)
(* Sizes have one dimension, columns and rows being independent.           *)
(***************************************************************************)
EXTENDS Naturals, Sequences, FiniteSets

CONSTANTS
  Sockets,    \* connections
  Sizes,      \* the widths a viewer may ask for
  Spawned,    \* the width the process is spawned with
  High,       \* SESSION_EMULATOR_OUTPUT_HIGH_WATER_BYTES, in chunks
  Low,        \* SESSION_EMULATOR_OUTPUT_LOW_WATER_BYTES, in chunks
  MaxChunks,  \* bound on the chunks the process emits
  MaxAsks,    \* bound on the attach requests of one connection
  MaxJobs     \* bound on the jobs queued when a viewer resizes

ASSUME SizesAssumption  == Sizes \subseteq Nat \ {0} /\ Spawned \in Sizes
ASSUME WatersAssumption == Low \in Nat /\ High \in Nat /\ Low < High
ASSUME BoundsAssumption == MaxChunks \in Nat /\ MaxAsks \in Nat /\ MaxJobs \in Nat

Free == "nobody"
ASSUME FreeAssumption == Free \notin Sockets

VARIABLES
  tail,       \* the jobs chained on outputTail and not finished
  applied,    \* chunks written into the emulator and broadcast
  pending,    \* pendingGeometry: the key of the newest geometry job, if any
  size,       \* appliedGeometry
  misfit,     \* the last reconciliation failed
  claims,     \* geometryClaims: the width a connection asks for, 0 for none
  subs,       \* subscribers
  explicit,   \* explicitPauseOwners
  transport,  \* transportPauseOwners
  emulator,   \* emulatorPauseOwner
  paused,     \* what the process was last told
  attach,     \* the attach that has the turn
  asked,      \* connections whose attach waits for the turn
  asks,       \* how often a connection has asked to attach
  closed,     \* connections that are gone
  full,       \* connections that need a drain (writableNeedDrain)
  seen        \* seen[s]: the output subscriber s has, as its screen or as frames since

queue    == <<tail, applied, pending>>
geometry == <<size, misfit, claims>>
flow     == <<subs, explicit, transport, emulator, paused>>
peers    == <<asked, asks, closed, full>>
vars     == <<queue, geometry, flow, attach, peers, seen>>

Nothing == [claim |-> 0, paused |-> FALSE, subscribed |-> FALSE]
NoTurn  == [sock |-> Free, stage |-> "none", wait |-> 0, screen |-> 0,
            current |-> FALSE, prev |-> Nothing]

TypeOK ==
  /\ tail \in Seq({"chunk", "geometry"})
  /\ applied \in 0..MaxChunks
  /\ pending \in SUBSET (Sizes \union {0})
  /\ size \in Sizes
  /\ misfit \in BOOLEAN
  /\ claims \in [Sockets -> Sizes \union {0}]
  /\ subs \subseteq Sockets
  /\ explicit \subseteq Sockets
  /\ transport \subseteq Sockets
  /\ emulator \in BOOLEAN
  /\ paused \in BOOLEAN
  /\ attach \in [sock : Sockets \union {Free}, stage : {"none", "prepare", "snapshot", "screened",
                                                       "rejected", "undo"},
                 wait : Nat, screen : Nat, current : BOOLEAN,
                 prev : [claim : Sizes \union {0}, paused : BOOLEAN, subscribed : BOOLEAN]]
  /\ asked \subseteq Sockets
  /\ asks \in [Sockets -> 0..MaxAsks]
  /\ closed \subseteq Sockets
  /\ full \subseteq Sockets
  /\ seen \in [Sockets -> Nat]

(* The cold attach has just been answered: its connection is subscribed    *)
(* before the process can emit anything.                                   *)
Init ==
  \E s \in Sockets, p \in BOOLEAN :
     /\ tail = <<>> /\ applied = 0 /\ pending = {}
     /\ size = Spawned /\ misfit = FALSE
     /\ claims = [r \in Sockets |-> IF r = s THEN Spawned ELSE 0]
     /\ subs = {s} /\ explicit = {r \in {s} : p} /\ transport = {} /\ emulator = FALSE
     /\ paused = p
     /\ attach = NoTurn
     /\ asked = {} /\ asks = [r \in Sockets |-> 0] /\ closed = {} /\ full = {}
     /\ seen = [r \in Sockets |-> 0]

-----------------------------------------------------------------------------
Chunks == Cardinality({i \in DOMAIN tail : tail[i] = "chunk"})

HasOwner_ForgetsEmulator(ex, tr, em) == ex # {} \/ tr # {}

HasOwner(ex, tr, em) == em \/ ex # {} \/ tr # {}

(* The tickets become these; the process is told only if that changes      *)
(* whether there is any (reconcileProcFlow).                               *)
Tickets(ex, tr, em) ==
  /\ explicit' = ex /\ transport' = tr /\ emulator' = em
  /\ paused' = IF HasOwner(ex, tr, em) # HasOwner(explicit, transport, emulator)
               THEN HasOwner(ex, tr, em) ELSE paused

(* The smallest claim: also the key of a pending reconciliation. *)
Effective(cl) ==
  LET widths == {cl[s] : s \in Sockets} \ {0}
  IN  IF widths = {} THEN 0 ELSE CHOOSE w \in widths : \A v \in widths : w <= v

LastGeometry == CHOOSE i \in DOMAIN tail :
  tail[i] = "geometry" /\ \A j \in DOMAIN tail : j > i => tail[j] = "chunk"

(* applyEffectiveGeometry joins the pending job if it has the same key,    *)
(* otherwise it queues one; GeometryAfter is how many jobs end with it.    *)
GeometryAfter(cl) == IF pending = {Effective(cl)} THEN LastGeometry ELSE Len(tail) + 1

Claim(cl) ==
  /\ claims'  = cl
  /\ pending' = {Effective(cl)}
  /\ tail'    = IF pending = {Effective(cl)} THEN tail ELSE Append(tail, "geometry")

Resumable_AwaitsBeforeCommit == attach.stage \notin {"none", "screened"} /\ attach.wait = 0

(* The attach in turn has nothing more to wait for. *)
Resumable == attach.stage # "none" /\ attach.wait = 0

Settled ==
  /\ ~Resumable
  /\ attach.stage = "none" => asked = {}
  /\ tail # <<>> => Head(tail) = "chunk"

(* The request of s is served: s has no attach on its way. *)
Served(s) == Settled /\ s \notin closed \union asked /\ attach.sock # s
-----------------------------------------------------------------------------
(* The process emits a chunk, which is queued for the emulator. *)
Emit ==
  /\ Settled
  /\ ~paused
  /\ applied + Chunks < MaxChunks
  /\ tail' = Append(tail, "chunk")
  /\ Tickets(explicit, transport, emulator \/ Chunks + 1 >= High)
  /\ UNCHANGED <<applied, pending, geometry, subs, attach, peers, seen>>

(* The job at the head of the queue is done. *)
Advance ==
  /\ tail' = Tail(tail)
  /\ attach' = [attach EXCEPT !.wait = IF @ > 0 THEN @ - 1 ELSE 0]

(* The emulator has taken the chunk; it goes to every subscriber. *)
ChunkWritten ==
  /\ Settled
  /\ tail # <<>>
  /\ Advance
  /\ applied' = applied + 1
  /\ seen' = [s \in Sockets |-> IF s \in subs THEN seen[s] + 1 ELSE seen[s]]
  /\ Tickets(explicit, transport, emulator /\ Chunks - 1 > Low)
  /\ UNCHANGED <<pending, geometry, subs, peers>>

PendingAfter == IF "geometry" \in {tail[i] : i \in 2..Len(tail)} THEN pending ELSE {}

(* Reconcile the terminal with the claims as they are now. *)
GeometryFits ==
  /\ tail # <<>> /\ Head(tail) = "geometry"
  /\ Advance
  /\ size' = IF Effective(claims) = 0 THEN size ELSE Effective(claims)
  /\ misfit' = FALSE
  /\ pending' = PendingAfter
  /\ UNCHANGED <<applied, claims, flow, peers, seen>>

(* The resize throws.  An attach that waits for it is rejected. *)
GeometryFails ==
  /\ tail # <<>> /\ Head(tail) = "geometry"
  /\ Effective(claims) \notin {0, size}
  /\ tail' = Tail(tail)
  /\ attach' = [attach EXCEPT
                  !.wait = IF @ > 0 THEN @ - 1 ELSE 0,
                  !.stage = IF @ = "prepare" /\ attach.wait = 1 THEN "rejected" ELSE @]
  /\ misfit' = TRUE
  /\ pending' = PendingAfter
  /\ UNCHANGED <<applied, size, claims, flow, peers, seen>>
-----------------------------------------------------------------------------
(* The client behind s asks to attach. *)
Ask(s) ==
  /\ Served(s)
  /\ asks[s] < MaxAsks
  /\ asked' = asked \union {s}
  /\ asks'  = [asks EXCEPT ![s] = @ + 1]
  /\ UNCHANGED <<queue, geometry, flow, attach, closed, full, seen>>

(* The attach of s gets its turn, even if s has gone: stage its flow and   *)
(* its size, remembering what they were.                                   *)
Prepare(s, w, p) ==
  LET cl == [claims EXCEPT ![s] = w]
  IN  /\ attach.stage = "none"
      /\ s \in asked
      /\ asked' = asked \ {s}
      /\ Tickets(IF p THEN explicit \union {s} ELSE explicit \ {s}, transport, emulator)
      /\ Claim(cl)
      /\ attach' = [sock |-> s, stage |-> "prepare", wait |-> GeometryAfter(cl),
                    screen |-> 0, current |-> TRUE,
                    prev |-> [claim |-> claims[s], paused |-> s \in explicit,
                              subscribed |-> s \in subs]]
      /\ UNCHANGED <<applied, size, misfit, subs, asks, closed, full, seen>>

(* The size is reconciled: wait for the output there is, for a screen. *)
Snapshot ==
  /\ attach.stage = "prepare" /\ attach.wait = 0
  /\ attach' = [attach EXCEPT !.stage = "snapshot", !.wait = Len(tail)]
  /\ UNCHANGED <<queue, geometry, flow, peers, seen>>

IsCurrent == attach.current /\ attach.sock \notin closed

(* Everything that was queued is in the emulator: serialize it. *)
TakeScreen ==
  /\ attach.stage = "snapshot" /\ attach.wait = 0
  /\ attach' = [attach EXCEPT !.stage = "screened", !.screen = applied]
  /\ UNCHANGED <<queue, geometry, flow, peers, seen>>

(* Activate live delivery.  The new subscription inherits the ticket of a  *)
(* connection that waits for a drain.                                      *)
Commit ==
  LET s == attach.sock
  IN  /\ attach.stage = "screened"
      /\ IsCurrent
      /\ subs' = subs \union {s}
      /\ Tickets(explicit, transport \union ({s} \intersect full), emulator)
      /\ seen' = [seen EXCEPT ![s] = attach.screen]
      /\ attach' = NoTurn
      /\ UNCHANGED <<queue, geometry, peers>>

Rollback_IgnoresEpoch ==
  LET s  == attach.sock
      cl == [claims EXCEPT ![s] = attach.prev.claim]
  IN  /\ attach.stage = "rejected" \/ (attach.stage = "screened" /\ ~IsCurrent)
      /\ Tickets(IF attach.prev.paused THEN explicit \union {s} ELSE explicit \ {s},
                 transport, emulator)
      /\ subs' = IF attach.prev.subscribed THEN subs \union {s} ELSE subs \ {s}
      /\ Claim(cl)
      /\ attach' = [attach EXCEPT !.stage = "undo", !.wait = GeometryAfter(cl)]
      /\ UNCHANGED <<applied, size, misfit, peers, seen>>

(* The attach is off: put back what it staged, unless a close has already  *)
(* released everything, and keep the turn until the size is reconciled.    *)
Rollback ==
  LET s  == attach.sock
      cl == [claims EXCEPT ![s] = attach.prev.claim]
  IN  /\ \/ attach.stage = "rejected"
         \/ attach.stage = "screened" /\ ~IsCurrent
      /\ IF attach.current
           THEN /\ Tickets(IF attach.prev.paused THEN explicit \union {s} ELSE explicit \ {s},
                           transport, emulator)
                /\ subs' = IF attach.prev.subscribed THEN subs \union {s} ELSE subs \ {s}
                /\ Claim(cl)
                /\ attach' = [attach EXCEPT !.stage = "undo", !.wait = GeometryAfter(cl)]
           ELSE /\ attach' = NoTurn
                /\ UNCHANGED <<tail, pending, claims, flow>>
      /\ UNCHANGED <<applied, size, misfit, peers, seen>>

Refused ==
  /\ attach.stage = "undo" /\ attach.wait = 0
  /\ attach' = NoTurn
  /\ UNCHANGED <<queue, geometry, flow, peers, seen>>
-----------------------------------------------------------------------------
Release_KeepsSize(s) ==
  /\ subs' = subs \ {s}
  /\ seen' = [seen EXCEPT ![s] = 0]
  /\ Tickets(explicit \ {s}, transport \ {s}, emulator)
  /\ claims' = [claims EXCEPT ![s] = 0]
  /\ UNCHANGED <<pending, tail>>

(* HostSession.detach: subscription, tickets and claim go together. *)
Release(s) ==
  /\ subs' = subs \ {s}
  /\ seen' = [seen EXCEPT ![s] = 0]
  /\ Tickets(explicit \ {s}, transport \ {s}, emulator)
  /\ IF claims[s] # 0 THEN Claim([claims EXCEPT ![s] = 0])
                      ELSE UNCHANGED <<claims, pending, tail>>

Detach(s) ==
  /\ Served(s)
  /\ Release(s)
  /\ UNCHANGED <<applied, size, misfit, attach, peers>>

(* The connection drops, at any moment of an attach. *)
Close(s) ==
  /\ Settled
  /\ s \notin closed
  /\ Release(s)
  /\ closed' = closed \union {s}
  /\ full'   = full \ {s}
  /\ attach' = IF attach.sock = s THEN [attach EXCEPT !.current = FALSE] ELSE attach
  /\ UNCHANGED <<applied, size, misfit, asked, asks>>

Pause(s) ==
  /\ Served(s) /\ s \in subs
  /\ Tickets(explicit \union {s}, transport, emulator)
  /\ UNCHANGED <<queue, geometry, subs, attach, peers, seen>>

Resume_IgnoresOthers(s) ==
  /\ Served(s) /\ s \in subs
  /\ explicit' = explicit \ {s}
  /\ paused' = FALSE
  /\ UNCHANGED <<queue, geometry, subs, transport, emulator, attach, peers, seen>>

Resume(s) ==
  /\ Served(s) /\ s \in subs
  /\ Tickets(explicit \ {s}, transport, emulator)
  /\ UNCHANGED <<queue, geometry, subs, attach, peers, seen>>

Resize(s, w) ==
  /\ Served(s) /\ s \in subs
  /\ Len(tail) < MaxJobs
  /\ Claim([claims EXCEPT ![s] = w])
  /\ UNCHANGED <<applied, size, misfit, flow, attach, peers, seen>>

Fill_AnyConnection(s) ==
  /\ Settled
  /\ s \notin closed \union full
  /\ full' = full \union {s}
  /\ Tickets(explicit, transport \union {s}, emulator)
  /\ UNCHANGED <<queue, geometry, subs, attach, asked, asks, closed, seen>>

(* A frame, of this or another session, fills the connection. *)
Fill(s) ==
  /\ Settled
  /\ s \notin closed \union full
  /\ full' = full \union {s}
  /\ Tickets(explicit, IF s \in subs THEN transport \union {s} ELSE transport, emulator)
  /\ UNCHANGED <<queue, geometry, subs, attach, asked, asks, closed, seen>>

Drain(s) ==
  /\ Settled
  /\ s \in full
  /\ full' = full \ {s}
  /\ Tickets(explicit, IF s \in subs THEN transport \ {s} ELSE transport, emulator)
  /\ UNCHANGED <<queue, geometry, subs, attach, asked, asks, closed, seen>>

Next ==
  \/ Emit
  \/ ChunkWritten
  \/ GeometryFits
  \/ GeometryFails
  \/ Snapshot
  \/ TakeScreen
  \/ Commit
  \/ Rollback
  \/ Refused
  \/ \E s \in Sockets :
       \/ Ask(s)
       \/ \E w \in Sizes, p \in BOOLEAN : Prepare(s, w, p)
       \/ Detach(s)
       \/ Close(s)
       \/ Pause(s)
       \/ Resume(s)
       \/ \E w \in Sizes : Resize(s, w)
       \/ Fill(s)
       \/ Drain(s)

Spec == Init /\ [][Next]_vars

-----------------------------------------------------------------------------
(* A viewer misses nothing and sees nothing twice: whatever was written    *)
(* while it attached is either in its screen or among the frames it gets   *)
(* (host.ts: a pending chunk is not delivered "and then appear again in    *)
(* the warm screen").                                                      *)
ScreenThenStream == \A s \in subs : seen[s] = applied

(* The process is stopped exactly as long as somebody holds a ticket: the  *)
(* edge-triggered pause and resume never get out of step with the owners.  *)
PausedWhileHeld == paused = HasOwner(explicit, transport, emulator)

(* A connection that has gone holds nothing that could stop or shrink the  *)
(* terminal for the others, apart from the turn its own attach is in       *)
(* (host.ts: "a crashed viewer can leave the global node-pty actuator      *)
(* paused forever for every healthy viewer").                              *)
GoneHoldsNothing ==
  \A s \in closed :
     /\ s \notin subs
     /\ attach.sock # s => s \notin explicit \union transport /\ claims[s] = 0

(* A transport ticket is only held by a subscriber whose drain is still to *)
(* come: nothing else would return it.                                     *)
TicketAwaitsDrain == transport \subseteq subs \intersect full

(* Once every reconciliation has run, the terminal has the size of its     *)
(* smallest viewer, although a job may have been joined by requests whose  *)
(* claims changed again, or were withdrawn, before it ran.                 *)
SizeFitsViewers ==
  ~misfit /\ pending = {} => Effective(claims) \in {0, size}

(* The output waiting for the emulator stays within the high-water mark,   *)
(* whoever resumes meanwhile.                                              *)
OutputIsBounded == Chunks <= High
=============================================================================
