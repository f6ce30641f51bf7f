--------------------------- MODULE TriggerScheduler ---------------------------
(***************************************************************************)
(* The host's trigger scheduler and the machine's consent for what it      *)
(* fires: src/src/core/trigger-scheduler.ts, trigger-arm-store.ts and the  *)
(* requests of trigger-service.ts that change the consent.                 *)
(*                                                                         *)
(* A sweep runs from its timer to its first await without interruption,    *)
(* and so does the rest of it after a delivery has returned; in between    *)
(* other sweeps, the user and the clock go on.  Quiet says that no sweep   *)
(* is in the middle of such a run, and everything from outside waits for   *)
(* it, as it does for Node's event loop.                                   *)
(*                                                                         *)
(* Times are kept relative to now: how long until a schedule is due, how   *)
(* long until a one-shot's instant, how long ago a sweep read the clock.   *)
(* The unit is the interval of the sweeps.  A cron expression is, for      *)
(* what is modelled, an interval: its next slot lies after the instant it  *)
(* is computed from.  The history of runs is left out, and with it what a  *)
(* delivery came to.                                                       *)
(***************************************************************************)
EXTENDS Naturals, Sequences, FiniteSets

CONSTANTS
  Triggers,     \* trigger nodes (project and node id)
  Intervals,    \* specs with an interval or a cron expression
  OneShots,     \* specs with an instant
  Period,       \* Period[i]: the interval of i
  Instant,      \* Instant[o]: how far ahead the instant of o lies at first
  Sweeps,       \* sweeps that can be under way at once
  Changed,      \* bound: the triggers that the user edits, arms and disarms
  MaxWrites,    \* bound on the writes queued for the arm file
  Never,        \* nothing is scheduled
  None,         \* no spec, no record
  Unknown       \* the user awaits an answer, or was told of a failure

Specs == Intervals \cup OneShots

ASSUME PeriodAssumption == Period \in [Intervals -> Nat \ {0}]
ASSUME ChangedAssumption == Changed \subseteq Triggers
ASSUME InstantAssumption == Instant \in [OneShots -> Nat]
ASSUME SpecsAssumption   == Intervals \cap OneShots = {}
ASSUME NothingAssumption == None \notin Specs \cup Triggers /\ Unknown \notin Specs \cup {None}
ASSUME NeverAssumption   == Never \notin Nat
ASSUME BoundAssumption   == MaxWrites \in Nat

VARIABLES
  spec,      \* spec[k]: the spec of trigger k on the saved canvas
  left,      \* left[o]: how long until the instant of o
  state,     \* state[k]: the schedule, anchored to a spec (states)
  inFlight,  \* the triggers a delivery is under way for
  sweep,     \* sweep[s]: a sweep's local state
  timer,     \* the interval has passed and its sweep has not begun
  arms,      \* arms[k]: the spec k is armed for
  disk,      \* the arm file
  writes,    \* the snapshots queued for it, oldest first
  told,      \* told[k]: what the user was last told is recorded of k (auxiliary)
  overtaken  \* the triggers a sweep had still to fire when another began (auxiliary)

schedule == <<state, inFlight, sweep, timer, overtaken>>
consent  == <<arms, disk, writes, told>>
vars     == <<spec, left, schedule, consent>>

Due     == [key : Triggers, row : Specs]
Sweep   == [phase : {"off", "running", "awaiting"}, age : Nat, due : SUBSET Due,
            firing : Triggers \cup {None}]
Idle    == [phase |-> "off", age |-> 0, due |-> {}, firing |-> None]
Longest == LET lengths == {Period[i] : i \in Intervals} IN CHOOSE p \in lengths : \A q \in lengths : q <= p

TypeOK ==
  /\ spec     \in [Triggers -> Specs \cup {None}]
  /\ left     \in [OneShots -> Nat]
  /\ state    \in [Triggers -> [canon : Specs, next : Nat \cup {Never}] \cup {None}]
  /\ inFlight \subseteq Triggers
  /\ sweep    \in [Sweeps -> Sweep]
  /\ timer    \in BOOLEAN
  /\ arms     \in [Triggers -> Specs \cup {None}]
  /\ disk     \in [Triggers -> Specs \cup {None}]
  /\ writes   \in Seq([snapshot : [Triggers -> Specs \cup {None}], key : Triggers])
  /\ Len(writes) <= MaxWrites
  /\ told     \in [Triggers -> Specs \cup {None, Unknown}]
  /\ overtaken \subseteq Triggers

(* The host has just started, with whatever canvas and arm file it finds.  *)
(* Its first sweep is due.                                                 *)
Init ==
  /\ spec     \in [Triggers -> Specs \cup {None}]
  /\ left     = Instant
  /\ state    = [k \in Triggers |-> None]
  /\ inFlight = {}
  /\ sweep    = [s \in Sweeps |-> Idle]
  /\ timer    = TRUE
  /\ disk     \in [Triggers -> Specs \cup {None}]
  /\ arms     = disk
  /\ writes   = <<>>
  /\ told     = disk
  /\ overtaken = {}

Quiet == \A s \in Sweeps : sweep[s].phase # "running"

Less(a, b) == IF a > b THEN a - b ELSE 0

-----------------------------------------------------------------------------
ComputeNextFire_Undefined(row, age) ==
  IF row \in Intervals THEN Less(Period[row], age)
  ELSE IF left[row] > 0 THEN left[row] ELSE None

(* The next due time of a spec, computed from an instant age ago.  A       *)
(* one-shot whose instant is past is never due.                            *)
ComputeNextFire(row, age) ==
  IF row \in Intervals THEN Less(Period[row], age)
  ELSE IF left[row] > 0 THEN left[row] ELSE Never

Anchored_KeepsSchedule(k) ==
  IF spec[k] = None THEN None
  ELSE IF state[k] # None THEN [state[k] EXCEPT !.canon = spec[k]]
  ELSE [canon |-> spec[k], next |-> ComputeNextFire(spec[k], 0)]

(* What the pass over the rows makes of k's schedule: forgotten with its   *)
(* node, anchored anew when the spec has changed, kept otherwise.          *)
Anchored(k) ==
  IF spec[k] = None THEN None
  ELSE IF state[k] # None /\ state[k].canon = spec[k] THEN state[k]
  ELSE [canon |-> spec[k], next |-> ComputeNextFire(spec[k], 0)]

ComesDue_InFlightToo(k) ==
  /\ spec[k] # None
  /\ state[k] # None /\ state[k].canon = spec[k]
  /\ state[k].next = 0

(* k was anchored to its spec by an earlier sweep, its time has come, and  *)
(* no delivery is under way for it.                                        *)
ComesDue(k) ==
  /\ spec[k] # None
  /\ state[k] # None /\ state[k].canon = spec[k]
  /\ state[k].next = 0
  /\ k \notin inFlight

(* The interval's callback: read the rows, anchor, collect what is due,    *)
(* forget what is gone.                                                    *)
SweepBegins(s) ==
  /\ Quiet
  /\ timer
  /\ sweep[s].phase = "off"
  /\ timer' = FALSE
  /\ state' = [k \in Triggers |-> Anchored(k)]
  /\ sweep' = [sweep EXCEPT ![s] =
       [phase |-> "running", age |-> 0, firing |-> None,
        due |-> {[key |-> k, row |-> spec[k]] : k \in {x \in Triggers : ComesDue(x)}}]]
  /\ overtaken' = overtaken \cup {e.key : e \in UNION {sweep[x].due : x \in Sweeps}}
  /\ UNCHANGED <<spec, left, inFlight, consent>>

(* What is due again for a spec that has just come due. *)
NextSlot(row, age) == IF row \in OneShots THEN Never ELSE ComputeNextFire(row, age)

Fires(s, e) ==
  /\ sweep[s].phase = "running"
  /\ e \in sweep[s].due
  /\ state[e.key] # None
  /\ arms[e.key] = e.row

(* The next due trigger: its schedule is moved on, and it is fired if this *)
(* machine has armed it for the spec of the row.                           *)
FireDue(s, e) ==
  /\ Fires(s, e)
  /\ state' = [state EXCEPT ![e.key].next = NextSlot(e.row, sweep[s].age)]
  /\ inFlight' = inFlight \cup {e.key}
  /\ sweep' = [sweep EXCEPT ![s].phase = "awaiting", ![s].due = @ \ {e}, ![s].firing = e.key]
  /\ UNCHANGED <<spec, left, timer, overtaken, consent>>

(* Not armed for it: the schedule moves on silently.  Forgotten meanwhile: *)
(* not even that.                                                          *)
PassDue(s, e) ==
  /\ sweep[s].phase = "running"
  /\ e \in sweep[s].due
  /\ ~Fires(s, e)
  /\ state' = IF state[e.key] = None THEN state
              ELSE [state EXCEPT ![e.key].next = NextSlot(e.row, sweep[s].age)]
  /\ sweep' = [sweep EXCEPT ![s].due = @ \ {e}]
  /\ UNCHANGED <<spec, left, inFlight, timer, overtaken, consent>>

FireReturns_KeepsInFlight(s) ==
  /\ Quiet
  /\ sweep[s].phase = "awaiting"
  /\ sweep' = [sweep EXCEPT ![s].phase = "running", ![s].firing = None]
  /\ UNCHANGED <<spec, left, state, inFlight, timer, overtaken, consent>>

(* The delivery resolves or throws. *)
FireReturns(s) ==
  /\ Quiet
  /\ sweep[s].phase = "awaiting"
  /\ inFlight' = inFlight \ {sweep[s].firing}
  /\ sweep' = [sweep EXCEPT ![s].phase = "running", ![s].firing = None]
  /\ UNCHANGED <<spec, left, state, timer, overtaken, consent>>

SweepEnds(s) ==
  /\ sweep[s].phase = "running"
  /\ sweep[s].due = {}
  /\ sweep' = [sweep EXCEPT ![s] = Idle]
  /\ UNCHANGED <<spec, left, state, inFlight, timer, overtaken, consent>>

(* One interval of the sweeps passes. *)
Tick ==
  /\ Quiet
  /\ ~timer
  /\ timer' = TRUE
  /\ left'  = [o \in OneShots |-> Less(left[o], 1)]
  /\ state' = [k \in Triggers |->
       IF state[k] = None \/ state[k].next = Never THEN state[k]
       ELSE [state[k] EXCEPT !.next = Less(@, 1)]]
  /\ sweep' = [s \in Sweeps |->
       IF sweep[s].phase = "off" \/ sweep[s].age = Longest THEN sweep[s]
       ELSE [sweep[s] EXCEPT !.age = @ + 1]]
  /\ UNCHANGED <<spec, inFlight, overtaken, consent>>

-----------------------------------------------------------------------------
(* The user edits, deletes or puts back a trigger node, or a pull does. *)
EditSpec(k, sp) ==
  /\ Quiet
  /\ sp # spec[k]
  /\ spec' = [spec EXCEPT ![k] = sp]
  /\ UNCHANGED <<left, schedule, consent>>

(* The memory of the store changes at once; the whole of it is queued to   *)
(* be written, and the request is answered when that has happened.         *)
Record(k, sp) ==
  /\ Quiet
  /\ Len(writes) < MaxWrites
  /\ arms'   = [arms EXCEPT ![k] = sp]
  /\ writes' = Append(writes, [snapshot |-> arms', key |-> k])
  /\ told'   = [told EXCEPT ![k] = Unknown]
  /\ UNCHANGED <<spec, left, schedule, disk>>

(* Consent binds to the spec the user was shown, which need not be the one *)
(* on the saved canvas.                                                    *)
Arm(k, sp) == Record(k, sp)

(* Where there is no record nothing is written: the answer says nothing of  *)
(* the file, which may still hold the record when an earlier write failed.  *)
Disarm(k) ==
  /\ arms[k] # None
  /\ Record(k, None)

(* The request of this write is answered, and no later one of k is open. *)
Answer(w) ==
  IF \E i \in 2..Len(writes) : writes[i].key = w.key THEN told
  ELSE [told EXCEPT ![w.key] = w.snapshot[w.key]]

WriteDone_LatestFirst ==
  /\ Quiet
  /\ writes # <<>>
  /\ disk'   = writes[Len(writes)].snapshot
  /\ told'   = [told EXCEPT ![writes[Len(writes)].key] = disk'[writes[Len(writes)].key]]
  /\ writes' = SubSeq(writes, 1, Len(writes) - 1)
  /\ UNCHANGED <<spec, left, schedule, arms>>

(* The file is replaced by the oldest snapshot queued, in one rename. *)
WriteDone ==
  /\ Quiet
  /\ writes # <<>>
  /\ disk'   = Head(writes).snapshot
  /\ told'   = Answer(Head(writes))
  /\ writes' = Tail(writes)
  /\ UNCHANGED <<spec, left, schedule, arms>>

(* The write fails, its request is rejected, and the queue goes on. *)
WriteFails ==
  /\ Quiet
  /\ writes # <<>>
  /\ writes' = Tail(writes)
  /\ UNCHANGED <<spec, left, schedule, arms, disk, told>>

(* The host dies and, after away intervals, is started again: schedules,   *)
(* deliveries and queued writes are gone, the arm file is read back, and   *)
(* the first sweep is due.                                                 *)
Restart(away) ==
  /\ left'     = [o \in OneShots |-> Less(left[o], away)]
  /\ state'    = [k \in Triggers |-> None]
  /\ inFlight' = {}
  /\ sweep'    = [s \in Sweeps |-> Idle]
  /\ timer'    = TRUE
  /\ overtaken' = {}
  /\ arms'     = disk
  /\ writes'   = <<>>
  /\ UNCHANGED <<spec, disk, told>>

Next ==
  \/ \E s \in Sweeps :
        \/ SweepBegins(s)
        \/ \E e \in sweep[s].due : FireDue(s, e) \/ PassDue(s, e)
        \/ FireReturns(s)
        \/ SweepEnds(s)
  \/ Tick
  \/ \E k \in Changed :
        \/ \E sp \in Specs \cup {None} : EditSpec(k, sp)
        \/ \E sp \in Specs : Arm(k, sp)
        \/ Disarm(k)
  \/ WriteDone
  \/ WriteFails
  \/ \E away \in 0..1 : Restart(away)

Spec == Init /\ [][Next]_vars

(* The sweeps' own code runs, time passes and its interval calls back, a   *)
(* delivery resolves or throws (every call it makes is bounded by a        *)
(* timeout).  The user owes nothing.                                       *)
Fairness ==
  /\ WF_vars(Tick)
  /\ WF_vars(\E s \in Sweeps : SweepBegins(s))
  /\ \A s \in Sweeps :
        /\ WF_vars((\E e \in sweep[s].due : FireDue(s, e) \/ PassDue(s, e)) \/ SweepEnds(s))
        /\ WF_vars(FireReturns(s))

FairSpec == Spec /\ Fairness

-----------------------------------------------------------------------------
Apart(k) ==
  \A s, t \in Sweeps :
     sweep[s].firing = k /\ sweep[t].firing = k => s = t

(* "an in-flight key is skipped by later sweeps, so a slow delivery cannot  *)
(* double-fire" (trigger-scheduler.ts:31).  An earlier sweep does not skip  *)
(* it: it fires what has stood in its list while a later one has fired it.  *)
OneDeliveryAtATime == \A k \in Triggers : Apart(k)

(* That is the only way: a trigger that was never left in the list of one   *)
(* sweep when another began has one delivery under way at a time, through   *)
(* edits, deletions and schedules that are anchored anew.                   *)
OneDeliveryUnlessOvertaken == \A k \in Triggers \ overtaken : Apart(k)

(* What a schedule anchored to a one-shot waits for is the instant of that  *)
(* one-shot, or nothing, through edits to and from it, deletions, restarts  *)
(* and the time the host was down: it is not fired early.  (A sweep that    *)
(* was overtaken moves on the schedule it finds, by the row it had read,    *)
(* though the schedule has been anchored to another spec since.)            *)
OneShotsOnTime ==
  \A k \in Triggers \ overtaken :
     state[k] # None /\ state[k].canon \in OneShots /\ state[k].next # Never
        => state[k].next = left[state[k].canon]

(* What the user has been told is recorded, and not asked to be changed     *)
(* since, is what the host works with and what it will find when it is      *)
(* started again, whichever writes failed in between.                       *)
ConsentSurvives ==
  \A k \in Triggers : told[k] # Unknown => arms[k] = told[k] /\ disk[k] = told[k]

(* An interval that stays on the canvas, unedited and armed, goes on being  *)
(* fired: no delivery, failed or slow, no restart and no other edit before  *)
(* leaves its schedule without a next slot, unless its sweep was overtaken. *)
KeepsFiring ==
  <>[][\A away \in 0..1 : ~Restart(away)]_vars =>
    \A k \in Triggers, i \in Intervals :
       <>[](spec[k] = i /\ arms[k] = i /\ k \notin overtaken)
          => []<>(\E s \in Sweeps : sweep[s].firing = k)
=============================================================================
