---------------------------- MODULE DeliveryQueue ----------------------------
(***************************************************************************)
(* The messages that wait for one busy agent to become idle                *)
(* (src/src/core/agents/delivery-queue.ts).  Targets share no state: this  *)
(* is the queue of one of them.                                            *)
(*                                                                         *)
(* enqueue, onTargetIdle and expire are async functions of one process, so *)
(* each is split where it awaits: enqueue at the trace of the message, a   *)
(* flush at each delivery, an expiry at its trace.  Any number of each may *)
(* be under way at once.  A flush under way is known by the message it is  *)
(* delivering.                                                             *)
(*                                                                         *)
(* The array of a target is an object: an enqueue under way goes on with   *)
(* the one it has read, whatever the map says when it resumes.  Arrays are *)
(* numbered; the number of one that nobody refers to is used again.        *)
(*                                                                         *)
(* Delivery re-runs every gate, and ends in any way at all: delivered or   *)
(* refused for good, or not ready after all.                               *)
(***************************************************************************)
EXTENDS Naturals, Sequences, FiniteSets, SequencesExt

CONSTANTS
  Messages,   \* the messages sent to the target
  Capacity,   \* DELIVERY_QUEUE_CAPACITY
  Ttl         \* ticks of DELIVERY_QUEUE_TTL_MS

ASSUME MessagesAssumption == IsFiniteSet(Messages)
ASSUME CapacityAssumption == Capacity \in Nat \ {0}
ASSUME TtlAssumption      == Ttl \in Nat \ {0}

VARIABLES
  arrays,     \* the contents of each array
  queue,      \* queues.get(target), 0 for none
  phase,      \* what has become of a message
  read,       \* the array the enqueue of a message has read
  age,        \* ticks since enqueuedAt
  timer       \* ticks until the expiry timer of a message fires; Off if not set

vars == <<arrays, queue, phase, read, age, timer>>

Arrays == 1..(Cardinality(Messages) + 1)
Off    == Ttl + 1
MaxAge == Ttl + 1   \* older messages are not told apart

QueueTypeOK ==
  /\ arrays   \in [Arrays -> Seq(Messages)]
  /\ queue    \in Arrays \union {0}
  /\ phase    \in [Messages -> {"new", "tracing", "full", "queued", "delivering", "flushed",
                                "expiring", "expired"}]
  /\ read     \in [Messages -> Arrays \union {0}]
  /\ age      \in [Messages -> 0..MaxAge]
  /\ timer    \in [Messages -> 0..Off]

Init ==
  /\ arrays   = [l \in Arrays |-> <<>>]
  /\ queue    = 0
  /\ phase    = [m \in Messages |-> "new"]
  /\ read     = [m \in Messages |-> 0]
  /\ age      = [m \in Messages |-> 0]
  /\ timer    = [m \in Messages |-> Off]

-----------------------------------------------------------------------------
(* The array of the target, or a new empty one: queues.get(target) ?? []. *)
Fresh == CHOOSE l \in Arrays : l # queue /\ \A m \in Messages : read[m] # l

ListOrNew == IF queue = 0 THEN Fresh ELSE queue

Contents == IF queue = 0 THEN <<>> ELSE arrays[queue]

Listed(m) == m \in ToSet(Contents)

(* enqueue, to its await: refused at the bound, or on to the trace. *)
Enqueue(m) ==
  /\ phase[m] = "new"
  /\ IF Len(Contents) >= Capacity
       THEN /\ phase' = [phase EXCEPT ![m] = "full"]
            /\ UNCHANGED <<arrays, read>>
       ELSE /\ phase'  = [phase EXCEPT ![m] = "tracing"]
            /\ read'   = [read EXCEPT ![m] = ListOrNew]
            /\ arrays' = [arrays EXCEPT ![ListOrNew] = Contents]
  /\ UNCHANGED <<queue, age, timer>>

(* The message is traced: push it, set the array, answer queued. *)
Traced(m) ==
  /\ phase[m] = "tracing"
  /\ arrays'   = [arrays EXCEPT ![read[m]] = Append(@, m)]
  /\ queue'    = read[m]
  /\ phase'    = [phase EXCEPT ![m] = "queued"]
  /\ read'     = [read EXCEPT ![m] = 0]
  /\ timer'    = [timer EXCEPT ![m] = Ttl]
  /\ UNCHANGED age

Take_Peeks(l, finished) ==
  LET m == Head(arrays[l])
  IN  /\ UNCHANGED arrays
      /\ phase'  = [finished EXCEPT ![m] = "delivering"]
      /\ timer'  = [timer EXCEPT ![m] = Off]

(* A flush takes the oldest message off l before it delivers it; finished  *)
(* are the phases without the message whose delivery has just ended.       *)
Take(l, finished) ==
  LET m == Head(arrays[l])
  IN  /\ arrays' = [arrays EXCEPT ![l] = Tail(@)]
      /\ phase'  = [finished EXCEPT ![m] = "delivering"]
      /\ timer'  = [timer EXCEPT ![m] = Off]

(* onTargetIdle, to its first await. *)
TargetIdle ==
  /\ Contents # <<>>
  /\ Take(queue, phase)
  /\ UNCHANGED <<queue, read, age>>

Left_FullTtl(m) == Ttl

(* What is left of the TTL, counted from the enqueue; nothing when the     *)
(* trace or a delivery has outlasted it.                                   *)
Left(m) == IF age[m] >= Ttl THEN 0 ELSE Ttl - age[m]

(* Not ready after all: back to the front, and this flush is over. *)
Requeue(m) ==
  /\ phase[m] = "delivering"
  /\ arrays' = [arrays EXCEPT ![ListOrNew] = <<m>> \o Contents]
  /\ queue'  = ListOrNew
  /\ phase'  = [phase EXCEPT ![m] = "queued"]
  /\ timer'  = [timer EXCEPT ![m] = Left(m)]
  /\ UNCHANGED <<read, age>>

(* Delivered, or refused for good: tell the sender, and on to the next. *)
Flushed(m) ==
  LET done == [phase EXCEPT ![m] = "flushed"]
  IN  /\ phase[m] = "delivering"
      /\ IF Contents = <<>>
           THEN queue' = 0 /\ phase' = done /\ UNCHANGED <<arrays, timer>>
           ELSE Take(queue, done) /\ UNCHANGED queue
      /\ UNCHANGED <<read, age>>

(* list.indexOf of a message that is listed. *)
IndexOf(m) ==
  CHOOSE i \in DOMAIN Contents : Contents[i] = m /\ \A j \in 1..(i-1) : Contents[j] # m

(* The timer of m fires.  A message that is not found is not there any     *)
(* more, and the timer is taken for a stale one.                           *)
Expire(m) ==
  /\ timer[m] = 0
  /\ timer' = [timer EXCEPT ![m] = Off]
  /\ IF Listed(m)
       THEN /\ arrays' = [arrays EXCEPT ![queue] = RemoveAt(@, IndexOf(m))]
            /\ queue'  = IF Contents = <<m>> THEN 0 ELSE queue
            /\ phase'  = [phase EXCEPT ![m] = "expiring"]
       ELSE UNCHANGED <<arrays, queue, phase>>
  /\ UNCHANGED <<read, age>>

(* Its end is traced, and the sender told. *)
Expired(m) ==
  /\ phase[m] = "expiring"
  /\ phase' = [phase EXCEPT ![m] = "expired"]
  /\ UNCHANGED <<arrays, queue, read, age, timer>>

Waiting(m) == phase[m] \in {"tracing", "queued", "delivering"}

(* Time passes for every message that waits and every timer that is set. *)
Tick ==
  /\ \E m \in Messages : (Waiting(m) /\ age[m] < MaxAge) \/ timer[m] \in 1..Ttl
  /\ age'   = [m \in Messages |-> IF Waiting(m) /\ age[m] < MaxAge THEN age[m] + 1 ELSE age[m]]
  /\ timer' = [m \in Messages |-> IF timer[m] \in 1..Ttl THEN timer[m] - 1 ELSE timer[m]]
  /\ UNCHANGED <<arrays, queue, phase, read>>

Next ==
  \/ TargetIdle
  \/ Tick
  \/ \E m \in Messages :
       Enqueue(m) \/ Traced(m) \/ Requeue(m) \/ Flushed(m) \/ Expire(m) \/ Expired(m)

Spec == Init /\ [][Next]_vars

(* Traces and deliveries come back, time passes, and a timer that is due   *)
(* fires though the target may go idle just before it again and again.     *)
(* The target need not ever go idle.                                       *)
Fairness ==
  /\ WF_vars(Tick)
  /\ \A m \in Messages :
       /\ WF_vars(Traced(m))
       /\ WF_vars(Requeue(m) \/ Flushed(m))
       /\ SF_vars(Expire(m))
       /\ WF_vars(Expired(m))

FairSpec == Spec /\ Fairness

-----------------------------------------------------------------------------
(* A message is in one pair of hands: what is queued is queued once, is    *)
(* not being delivered and has not come to its end, and only what waits    *)
(* has a timer set; so no two flushes and no timer can act on the same     *)
(* message ("a re-entrant idle event must not flush the same entry         *)
(* twice"), even when an array put aside comes back.                       *)
HeldOnce ==
  /\ \A i, j \in DOMAIN Contents : Contents[i] = Contents[j] => i = j
  /\ \A m \in Messages : Listed(m) => phase[m] = "queued"
  /\ \A m \in Messages : timer[m] # Off => phase[m] = "queued"

(* A message the sender was told is queued has been put aside: it is in no *)
(* array the map knows.                                                    *)
Lost(m) == phase[m] = "queued" /\ ~Listed(m)

(* Every accepted message comes to an end its sender hears of, though the  *)
(* target be busy for ever or go idle all the time.  A message that is     *)
(* ever Lost is not promised that: a timer that fires meanwhile is taken   *)
(* for a stale one, and the message has none when its array comes back.    *)
AcceptedEnds ==
  \A m \in Messages :
     []~Lost(m) => (phase[m] = "queued" ~> phase[m] \in {"flushed", "expired"})

(* Violated: "a bounded, per-target queue with a TTL, and never a silent   *)
(* drop".                                                                  *)
NothingLost == \A m \in Messages : ~Lost(m)
=============================================================================
