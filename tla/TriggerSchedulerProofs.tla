------------------------ MODULE TriggerSchedulerProofs ------------------------
(***************************************************************************)
(* What holds of the trigger scheduler for any triggers, specs, number of  *)
(* sweeps under way and queue of writes.                                   *)
(*                                                                         *)
(* The two halves meet only where a due trigger is fired, so they have an  *)
(* invariant each.  The schedules: as long as no sweep has begun while     *)
(* another still had k to fire, one sweep at most has k in hand, a due     *)
(* list agrees with what the schedule is anchored to, and who is being     *)
(* delivered is in flight.  The consent: for every trigger the youngest    *)
(* snapshot that asks for it holds what the memory holds, and a trigger    *)
(* with a write to come is not one the user has been told about.           *)
(***************************************************************************)
EXTENDS TriggerScheduler, TLAPS, SequenceTheorems

(* The sweep s has k in hand: still to fire, or being delivered. *)
Holds(s, k) == sweep[s].firing = k \/ \E e \in sweep[s].due : e.key = k

OneSweepHolds ==
  \A k \in Triggers \ overtaken : \A s, t \in Sweeps : Holds(s, k) /\ Holds(t, k) => s = t

DeliveredIsInFlight ==
  \A k \in Triggers \ overtaken : \A s \in Sweeps : sweep[s].firing = k => k \in inFlight

DueIsAnchored ==
  \A s \in Sweeps : \A e \in sweep[s].due :
     e.key \notin overtaken /\ state[e.key] # None => state[e.key].canon = e.row

ScheduleInv == TypeOK /\ OneSweepHolds /\ DeliveredIsInFlight /\ DueIsAnchored /\ OneShotsOnTime

(* No write after the i-th is asked for k. *)
LastOf(i, k) == \A j \in 1..Len(writes) : j > i => writes[j].key # k

LastWriteIsMemory ==
  \A i \in 1..Len(writes) : \A k \in Triggers : LastOf(i, k) => writes[i].snapshot[k] = arms[k]

ToldHasNoWrite ==
  \A k \in Triggers : told[k] # Unknown => \A i \in 1..Len(writes) : writes[i].key # k

ConsentInv == TypeOK /\ LastWriteIsMemory /\ ToldHasNoWrite /\ ConsentSurvives

-----------------------------------------------------------------------------
(* The helpers stay within their types. *)
LEMMA LessIsNat == ASSUME NEW a \in Nat, NEW b \in Nat PROVE Less(a, b) \in Nat
BY DEF Less

LEMMA NextSlotType ==
  ASSUME TypeOK, NEW row \in Specs, NEW age \in Nat
  PROVE  /\ ComputeNextFire(row, age) \in Nat \cup {Never}
         /\ NextSlot(row, age) \in Nat \cup {Never}
<1>1. row \in Intervals => Less(Period[row], age) \in Nat
  BY LessIsNat, PeriodAssumption
<1>2. row \in OneShots => left[row] \in Nat
  BY DEF TypeOK
<1> QED
  BY <1>1, <1>2 DEF ComputeNextFire, NextSlot, Specs

(* The schedule a sweep makes of a trigger: none, the one there was, or one *)
(* computed from now.                                                       *)
LEMMA AnchoredType ==
  ASSUME TypeOK, NEW k \in Triggers
  PROVE  /\ Anchored(k) \in [canon : Specs, next : Nat \cup {Never}] \cup {None}
         /\ Anchored(k) # None /\ Anchored(k) # state[k]
              => /\ Anchored(k).canon = spec[k]
                 /\ Anchored(k).next = ComputeNextFire(spec[k], 0)
<1>1. CASE spec[k] = None
  BY <1>1 DEF Anchored
<1>2. CASE spec[k] # None
  <2>1. spec[k] \in Specs
    BY <1>2 DEF TypeOK
  <2>2. ComputeNextFire(spec[k], 0) \in Nat \cup {Never}
    BY <2>1, NextSlotType
  <2> QED
    BY <1>2, <2>1, <2>2 DEF Anchored, TypeOK
<1> QED
  BY <1>1, <1>2

(* Moving a schedule on leaves it anchored to the spec it was anchored to. *)
LEMMA MovedOn ==
  ASSUME TypeOK, NEW s \in Sweeps, NEW e \in sweep[s].due, state[e.key] # None,
         state' = [state EXCEPT ![e.key].next = NextSlot(e.row, sweep[s].age)]
  PROVE  /\ e.key \in Triggers /\ e.row \in Specs
         /\ state' \in [Triggers -> [canon : Specs, next : Nat \cup {Never}] \cup {None}]
         /\ state'[e.key].canon = state[e.key].canon
         /\ state'[e.key].next = NextSlot(e.row, sweep[s].age)
         /\ \A k \in Triggers : k # e.key => state'[k] = state[k]
<1>1. e.key \in Triggers /\ e.row \in Specs /\ sweep[s].age \in Nat
  BY DEF TypeOK, Sweep, Due
<1>2. state[e.key] \in [canon : Specs, next : Nat \cup {Never}]
  BY <1>1 DEF TypeOK
<1>3. NextSlot(e.row, sweep[s].age) \in Nat \cup {Never}
  BY <1>1, NextSlotType
<1>4. state'[e.key] = [canon |-> state[e.key].canon, next |-> NextSlot(e.row, sweep[s].age)]
  BY <1>1, <1>2 DEF TypeOK
<1>5. \A k \in Triggers : k # e.key => state'[k] = state[k]
  BY <1>1 DEF TypeOK
<1> QED
  BY <1>1, <1>2, <1>3, <1>4, <1>5 DEF TypeOK

-----------------------------------------------------------------------------
(* The state is well typed from the start. *)
LEMMA InitTyped == Init => TypeOK
<1>1. Idle \in Sweep
  BY DEF Idle, Sweep
<1> QED
  BY <1>1, InstantAssumption, BoundAssumption DEF Init, TypeOK

(* Sweeps are records: what may be changed of one. *)
LEMMA SweepChanges ==
  ASSUME NEW x \in Sweep
  PROVE  /\ Idle \in Sweep
         /\ \A d \in SUBSET Due : [x EXCEPT !.due = d] \in Sweep
         /\ \A n \in Nat : [x EXCEPT !.age = n] \in Sweep
         /\ [x EXCEPT !.phase = "running", !.firing = None] \in Sweep
         /\ x.due \in SUBSET Due /\ x.age \in Nat
BY DEF Sweep, Idle

(* A sweep begins with what comes due. *)
LEMMA SweepBeginsTyped ==
  ASSUME TypeOK, NEW s \in Sweeps, SweepBegins(s) PROVE TypeOK'
<1>1. state' \in [Triggers -> [canon : Specs, next : Nat \cup {Never}] \cup {None}]
  BY AnchoredType DEF SweepBegins
<1>2. {[key |-> k, row |-> spec[k]] : k \in {x \in Triggers : ComesDue(x)}} \in SUBSET Due
  BY DEF Due, ComesDue, TypeOK
<1>3. sweep' \in [Sweeps -> Sweep]
  BY <1>2 DEF SweepBegins, TypeOK, Sweep
<1>4. overtaken' \subseteq Triggers
  BY DEF SweepBegins, TypeOK, Sweep, Due
<1> QED
  BY <1>1, <1>3, <1>4 DEF SweepBegins, TypeOK, consent

(* What remains of a sweep after one of its entries is part of it. *)
LEMMA FireDueTyped ==
  ASSUME TypeOK, NEW s \in Sweeps, NEW e \in sweep[s].due, FireDue(s, e) PROVE TypeOK'
<1>1. e.key \in Triggers /\ state' \in [Triggers -> [canon : Specs, next : Nat \cup {Never}] \cup {None}]
  BY MovedOn DEF FireDue, Fires
<1>2. sweep' \in [Sweeps -> Sweep]
  <2>1. sweep[s] \in Sweep
    BY DEF TypeOK
  <2>2. sweep'[s] = [phase |-> "awaiting", age |-> sweep[s].age, due |-> sweep[s].due \ {e}, firing |-> e.key]
    BY <2>1 DEF FireDue, TypeOK, Sweep
  <2>3. sweep'[s] \in Sweep
    BY <1>1, <2>1, <2>2 DEF Sweep
  <2> QED
    BY <2>3 DEF FireDue, TypeOK
<1> QED
  BY <1>1, <1>2 DEF FireDue, TypeOK, consent

LEMMA PassDueTyped ==
  ASSUME TypeOK, NEW s \in Sweeps, NEW e \in sweep[s].due, PassDue(s, e) PROVE TypeOK'
<1>1. state' \in [Triggers -> [canon : Specs, next : Nat \cup {Never}] \cup {None}]
  BY MovedOn DEF PassDue, TypeOK
<1>2. sweep' \in [Sweeps -> Sweep]
  <2>1. sweep[s] \in Sweep /\ sweep[s].due \ {e} \in SUBSET Due
    BY SweepChanges DEF TypeOK
  <2>2. [sweep[s] EXCEPT !.due = sweep[s].due \ {e}] \in Sweep
    BY <2>1, SweepChanges
  <2> QED
    BY <2>2 DEF PassDue, TypeOK
<1> QED
  BY <1>1, <1>2 DEF PassDue, TypeOK, consent

(* The clock. *)
LEMMA TickTyped == ASSUME TypeOK, Tick PROVE TypeOK'
<1>1. left' \in [OneShots -> Nat]
  BY LessIsNat DEF Tick, TypeOK
<1>2. state' \in [Triggers -> [canon : Specs, next : Nat \cup {Never}] \cup {None}]
  <2>1. ASSUME NEW k \in Triggers
        PROVE  state'[k] \in [canon : Specs, next : Nat \cup {Never}] \cup {None}
    <3>1. CASE state[k] = None \/ state[k].next = Never
      BY <3>1 DEF Tick, TypeOK
    <3>2. CASE ~(state[k] = None \/ state[k].next = Never)
      <4>1. state[k] \in [canon : Specs, next : Nat \cup {Never}] /\ state[k].next \in Nat
        BY <3>2 DEF TypeOK
      <4>2. state'[k] = [state[k] EXCEPT !.next = Less(@, 1)]
        BY <3>2 DEF Tick
      <4> QED
        BY <4>1, <4>2, LessIsNat
    <3> QED
      BY <3>1, <3>2
  <2>2. state' = [k \in Triggers |->
           IF state[k] = None \/ state[k].next = Never THEN state[k]
           ELSE [state[k] EXCEPT !.next = Less(@, 1)]]
    BY DEF Tick
  <2> QED
    BY <2>1, <2>2
<1>3. sweep' \in [Sweeps -> Sweep]
  <2>1. \A s \in Sweeps : sweep[s] \in Sweep /\ sweep[s].age \in Nat
    BY SweepChanges DEF TypeOK
  <2>2. ASSUME NEW s \in Sweeps PROVE [sweep[s] EXCEPT !.age = sweep[s].age + 1] \in Sweep
    <3>1. sweep[s] \in Sweep /\ sweep[s].age + 1 \in Nat
      BY <2>1
    <3> QED
      BY <3>1, SweepChanges
  <2> QED
    BY <2>1, <2>2 DEF Tick
<1> QED
  BY <1>1, <1>2, <1>3 DEF Tick, TypeOK, consent

(* The user and the arm file. *)
LEMMA RecordTyped ==
  ASSUME TypeOK, NEW k \in Triggers, NEW sp \in Specs \cup {None}, Record(k, sp) PROVE TypeOK'
<1>1. arms' \in [Triggers -> Specs \cup {None}]
  BY DEF Record, TypeOK
<1>2. /\ writes' \in Seq([snapshot : [Triggers -> Specs \cup {None}], key : Triggers])
      /\ Len(writes') = Len(writes) + 1
  BY <1>1 DEF Record, TypeOK
<1> QED
  BY <1>1, <1>2, BoundAssumption DEF Record, TypeOK, schedule

LEMMA WriteTyped ==
  ASSUME TypeOK, WriteDone \/ WriteFails PROVE TypeOK'
<1> DEFINE Snapshots == [Triggers -> Specs \cup {None}]
           Writes    == [snapshot : Snapshots, key : Triggers]
<1>0. writes \in Seq(Writes) /\ writes # <<>>
  BY DEF WriteDone, WriteFails, TypeOK
<1>1. /\ Head(writes) \in Writes /\ Tail(writes) \in Seq(Writes)
      /\ Len(Tail(writes)) = Len(writes) - 1 /\ Len(writes) \in Nat
  <2> HIDE DEF Writes
  <2> QED
    BY <1>0, HeadTailProperties
<1>2. WriteDone => told' \in [Triggers -> Specs \cup {None, Unknown}]
  BY <1>1 DEF WriteDone, Answer, TypeOK
<1>3. writes' \in Seq(Writes) /\ Len(writes') <= MaxWrites
  <2>1. writes' = Tail(writes) /\ Len(writes) <= MaxWrites
    BY DEF WriteDone, WriteFails, TypeOK
  <2> QED
    BY <1>1, <2>1, BoundAssumption
<1>4. disk' \in Snapshots
  BY <1>1 DEF WriteDone, WriteFails, TypeOK
<1> QED
  BY <1>2, <1>3, <1>4 DEF WriteDone, WriteFails, TypeOK, schedule

LEMMA RestartTyped == ASSUME TypeOK, NEW away \in 0..1, Restart(away) PROVE TypeOK'
<1>1. left' \in [OneShots -> Nat]
  <2>1. away \in Nat
    OBVIOUS
  <2> QED
    BY <2>1, LessIsNat DEF Restart, TypeOK
<1> QED
  BY <1>1, BoundAssumption DEF Restart, TypeOK, Idle, Sweep

(* Every reachable state is well typed. *)
LEMMA TypeStep == TypeOK /\ [Next]_vars => TypeOK'
<1> SUFFICES ASSUME TypeOK, [Next]_vars PROVE TypeOK'
  OBVIOUS
<1>1. ASSUME NEW s \in Sweeps, SweepBegins(s) PROVE TypeOK'
  BY <1>1, SweepBeginsTyped
<1>2. ASSUME NEW s \in Sweeps, NEW e \in sweep[s].due, FireDue(s, e) \/ PassDue(s, e) PROVE TypeOK'
  BY <1>2, FireDueTyped, PassDueTyped
<1>3. ASSUME NEW s \in Sweeps, FireReturns(s) \/ SweepEnds(s) PROVE TypeOK'
  <2>1. sweep[s] \in Sweep
    BY DEF TypeOK
  <2>2. sweep' \in [Sweeps -> Sweep]
    BY <1>3, <2>1, SweepChanges DEF FireReturns, SweepEnds, TypeOK
  <2> QED
    BY <1>3, <2>2 DEF FireReturns, SweepEnds, TypeOK, consent
<1>4. CASE Tick
  BY <1>4, TickTyped
<1>5. ASSUME NEW k \in Changed, NEW sp \in Specs \cup {None}, EditSpec(k, sp) PROVE TypeOK'
  BY <1>5 DEF EditSpec, TypeOK, schedule, consent
<1>6. ASSUME NEW k \in Changed, (\E sp \in Specs : Arm(k, sp)) \/ Disarm(k) PROVE TypeOK'
  BY <1>6, RecordTyped, ChangedAssumption DEF Arm, Disarm
<1>7. CASE WriteDone \/ WriteFails
  BY <1>7, WriteTyped
<1>8. ASSUME NEW away \in 0..1, Restart(away) PROVE TypeOK'
  BY <1>8, RestartTyped
<1>9. CASE UNCHANGED vars
  BY <1>9 DEF vars, schedule, consent, TypeOK
<1> QED
  BY <1>1, <1>2, <1>3, <1>4, <1>5, <1>6, <1>7, <1>8, <1>9 DEF Next

THEOREM SchedulerTypeCorrect == Spec => []TypeOK
BY InitTyped, TypeStep, PTL DEF Spec

-----------------------------------------------------------------------------
(* The schedules *)

(* Initially nothing is scheduled and no sweep is under way. *)
LEMMA ScheduleInit == Init => ScheduleInv
<1> SUFFICES ASSUME Init PROVE ScheduleInv
  OBVIOUS
<1>1. TypeOK
  BY InitTyped
<1>2. \A s \in Sweeps : sweep[s].due = {} /\ sweep[s].firing = None
  BY DEF Init, Idle
<1>3. \A s \in Sweeps, k \in Triggers : ~Holds(s, k) /\ sweep[s].firing # k
  BY <1>2, NothingAssumption DEF Holds
<1>4. OneSweepHolds /\ DeliveredIsInFlight /\ DueIsAnchored
  BY <1>2, <1>3 DEF OneSweepHolds, DeliveredIsInFlight, DueIsAnchored
<1>5. OneShotsOnTime
  BY DEF Init, OneShotsOnTime
<1> QED
  BY <1>1, <1>4, <1>5 DEF ScheduleInv

(* A step after which no sweep holds more than it did, nothing is less      *)
(* overtaken or in flight than it was, and the schedules are as they were.  *)
LEMMA LetsGo ==
  ASSUME ScheduleInv, TypeOK', overtaken' = overtaken,
         state' = state, left' = left,
         \A s \in Sweeps : /\ sweep'[s].due \subseteq sweep[s].due
                           /\ sweep'[s].firing \in {sweep[s].firing, None},
         \A s \in Sweeps : \A k \in Triggers \ overtaken :
            sweep'[s].firing = k => k \in inFlight'
  PROVE  ScheduleInv'
<1>1. \A s \in Sweeps, k \in Triggers : Holds(s, k)' => Holds(s, k)
  BY NothingAssumption DEF Holds
<1>2. OneSweepHolds'
  BY <1>1 DEF ScheduleInv, OneSweepHolds
<1>3. DeliveredIsInFlight'
  BY DEF DeliveredIsInFlight
<1>4. DueIsAnchored' /\ OneShotsOnTime'
  BY DEF ScheduleInv, DueIsAnchored, OneShotsOnTime
<1> QED
  BY <1>2, <1>3, <1>4 DEF ScheduleInv

(* What every other sweep had still to fire is overtaken; what comes due is *)
(* not in flight and is anchored to the spec it is listed with.             *)
LEMMA SweepBeginsInv ==
  ASSUME ScheduleInv, NEW s \in Sweeps, SweepBegins(s) PROVE ScheduleInv'
<1>0. TypeOK /\ TypeOK'
  BY SweepBeginsTyped DEF ScheduleInv
<1>1. /\ sweep'[s].firing = None
      /\ sweep'[s].due = {[key |-> k, row |-> spec[k]] : k \in {x \in Triggers : ComesDue(x)}}
      /\ \A t \in Sweeps : t # s => sweep'[t] = sweep[t]
      /\ overtaken \subseteq overtaken'
      /\ inFlight' = inFlight /\ left' = left
      /\ \A k \in Triggers : state'[k] = Anchored(k)
  BY <1>0 DEF SweepBegins, TypeOK
<1>2. \A t \in Sweeps : \A e \in sweep[t].due : e.key \in overtaken'
  BY DEF SweepBegins
<1>3. \A e \in sweep'[s].due : e.key \in Triggers /\ ComesDue(e.key) /\ e.row = spec[e.key]
  BY <1>1
<1>4. \A t \in Sweeps : t # s =>
         \A k \in Triggers \ overtaken' : Holds(t, k)' => sweep[t].firing = k /\ k \in inFlight
  <2> SUFFICES ASSUME NEW t \in Sweeps, t # s, NEW k \in Triggers \ overtaken', Holds(t, k)'
               PROVE  sweep[t].firing = k /\ k \in inFlight
    OBVIOUS
  <2>1. sweep[t].firing = k
    BY <1>1, <1>2 DEF Holds
  <2>2. k \in Triggers \ overtaken
    BY <1>1
  <2> QED
    BY <2>1, <2>2 DEF ScheduleInv, DeliveredIsInFlight
<1>5. \A k \in Triggers \ overtaken' : Holds(s, k)' => k \notin inFlight
  BY <1>1, <1>3, NothingAssumption DEF Holds, ComesDue
<1>6. OneSweepHolds'
  <2> SUFFICES ASSUME NEW k \in Triggers \ overtaken', NEW t \in Sweeps, NEW u \in Sweeps,
                      Holds(t, k)', Holds(u, k)'
               PROVE  t = u
    BY DEF OneSweepHolds
  <2>1. CASE t = s \/ u = s
    BY <2>1, <1>4, <1>5
  <2>2. CASE t # s /\ u # s
    <3>1. k \in Triggers \ overtaken /\ Holds(t, k) /\ Holds(u, k)
      BY <2>2, <1>1, <1>4 DEF Holds
    <3> QED
      BY <3>1 DEF ScheduleInv, OneSweepHolds
  <2> QED
    BY <2>1, <2>2
<1>7. DeliveredIsInFlight'
  BY <1>1, NothingAssumption DEF ScheduleInv, DeliveredIsInFlight
<1>8. DueIsAnchored'
  <2> SUFFICES ASSUME NEW t \in Sweeps, NEW e \in sweep'[t].due,
                      e.key \notin overtaken', state'[e.key] # None
               PROVE  state'[e.key].canon = e.row
    BY DEF DueIsAnchored
  <2>1. t = s
    BY <1>1, <1>2
  <2> QED
    BY <2>1, <1>1, <1>3 DEF Anchored, ComesDue
<1>9. OneShotsOnTime'
  <2> SUFFICES ASSUME NEW k \in Triggers \ overtaken', state'[k] # None,
                      state'[k].canon \in OneShots, state'[k].next # Never
               PROVE  state'[k].next = left[state'[k].canon]
    BY <1>1 DEF OneShotsOnTime
  <2>1. CASE state'[k] = state[k]
    BY <2>1, <1>1 DEF ScheduleInv, OneShotsOnTime
  <2>2. CASE state'[k] # state[k]
    <3>1. state'[k].canon = spec[k] /\ state'[k].next = ComputeNextFire(spec[k], 0)
      BY <2>2, <1>0, <1>1, AnchoredType
    <3> QED
      BY <3>1, SpecsAssumption DEF ComputeNextFire
  <2> QED
    BY <2>1, <2>2
<1> QED
  BY <1>0, <1>6, <1>7, <1>8, <1>9 DEF ScheduleInv

(* The schedule of an entry is moved on: by the spec it is anchored to, or  *)
(* the trigger was overtaken.                                               *)
LEMMA MovedOnInv ==
  ASSUME ScheduleInv, NEW s \in Sweeps, NEW e \in sweep[s].due, state[e.key] # None,
         state' = [state EXCEPT ![e.key].next = NextSlot(e.row, sweep[s].age)],
         overtaken' = overtaken, left' = left,
         \A t \in Sweeps : sweep'[t].due \subseteq sweep[t].due
  PROVE  DueIsAnchored' /\ OneShotsOnTime'
<1>0. TypeOK
  BY DEF ScheduleInv
<1>1. /\ e.key \in Triggers /\ e.row \in Specs
      /\ state'[e.key].canon = state[e.key].canon
      /\ state'[e.key].next = NextSlot(e.row, sweep[s].age)
      /\ \A k \in Triggers : k # e.key => state'[k] = state[k]
  BY <1>0, MovedOn
<1>2. e.key \notin overtaken => state[e.key].canon = e.row
  BY DEF ScheduleInv, DueIsAnchored
<1>3. DueIsAnchored'
  <2> SUFFICES ASSUME NEW t \in Sweeps, NEW d \in sweep'[t].due,
                      d.key \notin overtaken', state'[d.key] # None
               PROVE  state'[d.key].canon = d.row
    BY DEF DueIsAnchored
  <2>1. d \in sweep[t].due /\ d.key \in Triggers
    BY <1>0 DEF TypeOK, Sweep, Due
  <2>2. state[d.key] # None => state[d.key].canon = d.row
    BY <2>1 DEF ScheduleInv, DueIsAnchored
  <2> QED
    BY <2>1, <2>2, <1>1
<1>4. OneShotsOnTime'
  <2> SUFFICES ASSUME NEW k \in Triggers \ overtaken, state'[k] # None,
                      state'[k].canon \in OneShots, state'[k].next # Never
               PROVE  state'[k].next = left[state'[k].canon]
    BY DEF OneShotsOnTime
  <2>1. CASE k = e.key
    BY <2>1, <1>1, <1>2 DEF NextSlot
  <2>2. CASE k # e.key
    BY <2>2, <1>1 DEF ScheduleInv, OneShotsOnTime
  <2> QED
    BY <2>1, <2>2
<1> QED
  BY <1>3, <1>4

(* The sweep that fires k had it in its list, and no other sweep has it. *)
LEMMA FireDueInv ==
  ASSUME ScheduleInv, NEW s \in Sweeps, NEW e \in sweep[s].due, FireDue(s, e) PROVE ScheduleInv'
<1>0. TypeOK /\ TypeOK'
  BY FireDueTyped DEF ScheduleInv
<1>1. /\ sweep'[s].due = sweep[s].due \ {e} /\ sweep'[s].firing = e.key
      /\ \A t \in Sweeps : t # s => sweep'[t] = sweep[t]
      /\ overtaken' = overtaken /\ left' = left
      /\ inFlight' = inFlight \cup {e.key}
  <2>1. sweep[s] \in Sweep
    BY <1>0 DEF TypeOK
  <2> QED
    BY <1>0, <2>1 DEF FireDue, TypeOK, Sweep
<1>2. DueIsAnchored' /\ OneShotsOnTime'
  <2>1. /\ state[e.key] # None
        /\ state' = [state EXCEPT ![e.key].next = NextSlot(e.row, sweep[s].age)]
    BY DEF FireDue, Fires
  <2>2. \A t \in Sweeps : sweep'[t].due \subseteq sweep[t].due
    BY <1>1
  <2> QED
    BY <1>1, <2>1, <2>2, MovedOnInv
<1>3. OneSweepHolds'
  <2>1. \A t \in Sweeps, k \in Triggers : Holds(t, k)' => Holds(t, k)
    BY <1>1 DEF Holds
  <2> QED
    BY <1>1, <2>1 DEF ScheduleInv, OneSweepHolds
<1>4. DeliveredIsInFlight'
  BY <1>1 DEF ScheduleInv, DeliveredIsInFlight
<1> QED
  BY <1>0, <1>2, <1>3, <1>4 DEF ScheduleInv

LEMMA PassDueInv ==
  ASSUME ScheduleInv, NEW s \in Sweeps, NEW e \in sweep[s].due, PassDue(s, e) PROVE ScheduleInv'
<1>0. TypeOK /\ TypeOK'
  BY PassDueTyped DEF ScheduleInv
<1>1. /\ \A t \in Sweeps : sweep'[t].due \subseteq sweep[t].due /\ sweep'[t].firing = sweep[t].firing
      /\ overtaken' = overtaken /\ left' = left /\ inFlight' = inFlight
  <2>1. sweep[s] \in Sweep
    BY <1>0 DEF TypeOK
  <2> QED
    BY <1>0, <2>1 DEF PassDue, TypeOK, Sweep
<1>2. CASE state[e.key] = None
  <2>1. state' = state
    BY <1>2 DEF PassDue
  <2> QED
    BY <1>0, <1>1, <2>1, LetsGo DEF ScheduleInv, DeliveredIsInFlight
<1>3. CASE state[e.key] # None
  <2>1. DueIsAnchored' /\ OneShotsOnTime'
    BY <1>1, <1>3, MovedOnInv DEF PassDue
  <2>2. OneSweepHolds' /\ DeliveredIsInFlight'
    BY <1>1 DEF ScheduleInv, OneSweepHolds, DeliveredIsInFlight, Holds
  <2> QED
    BY <1>0, <2>1, <2>2 DEF ScheduleInv
<1> QED
  BY <1>2, <1>3

(* A delivery that returns leaves no other of a trigger that was not        *)
(* overtaken.                                                               *)
LEMMA SweepGoesOnInv ==
  ASSUME ScheduleInv, NEW s \in Sweeps, FireReturns(s) \/ SweepEnds(s) PROVE ScheduleInv'
<1>0. TypeOK /\ TypeOK'
  <2>1. (\E t \in Sweeps : FireReturns(t) \/ SweepEnds(t)) => Next
    BY DEF Next
  <2> QED
    BY <2>1, TypeStep DEF ScheduleInv
<1>1. sweep[s] \in Sweep
  BY <1>0 DEF TypeOK
<1>2. CASE FireReturns(s)
  <2>1. /\ sweep'[s].due = sweep[s].due /\ sweep'[s].firing = None
        /\ \A t \in Sweeps : t # s => sweep'[t] = sweep[t]
    BY <1>0, <1>1, <1>2 DEF FireReturns, TypeOK, Sweep
  <2>2. ASSUME NEW t \in Sweeps, NEW k \in Triggers \ overtaken, sweep'[t].firing = k
        PROVE  k \in inFlight'
    <3>1. t # s /\ sweep[t].firing = k
      BY <2>1, <2>2, NothingAssumption
    <3>2. k \in inFlight /\ sweep[s].firing # k
      BY <3>1 DEF ScheduleInv, OneSweepHolds, DeliveredIsInFlight, Holds
    <3> QED
      BY <1>2, <3>2 DEF FireReturns
  <2> QED
    BY <1>0, <1>2, <2>1, <2>2, LetsGo DEF FireReturns
<1>3. CASE SweepEnds(s)
  <2>1. /\ sweep'[s].due = {} /\ sweep'[s].firing = None
        /\ \A t \in Sweeps : t # s => sweep'[t] = sweep[t]
    BY <1>0, <1>3 DEF SweepEnds, TypeOK, Idle
  <2>2. \A t \in Sweeps : \A k \in Triggers \ overtaken : sweep'[t].firing = k => k \in inFlight'
    BY <1>3, <2>1, NothingAssumption DEF SweepEnds, ScheduleInv, DeliveredIsInFlight
  <2> QED
    BY <1>0, <1>3, <2>1, <2>2, LetsGo DEF SweepEnds
<1> QED
  BY <1>2, <1>3

(* The clock takes the same from a schedule and from the instant it is for. *)
LEMMA TickInv == ASSUME ScheduleInv, Tick PROVE ScheduleInv'
<1>0. TypeOK /\ TypeOK'
  BY TickTyped DEF ScheduleInv
<1>1. /\ \A s \in Sweeps : sweep'[s].due = sweep[s].due /\ sweep'[s].firing = sweep[s].firing
      /\ overtaken' = overtaken /\ inFlight' = inFlight
  <2>1. \A s \in Sweeps : sweep[s] \in Sweep
    BY <1>0 DEF TypeOK
  <2> QED
    BY <2>1 DEF Tick, Sweep
<1>2. \A k \in Triggers :
         /\ state[k] = None => state'[k] = None
         /\ state'[k] # None =>
              /\ state'[k].canon = state[k].canon
              /\ state'[k].next = IF state[k].next = Never THEN Never ELSE Less(state[k].next, 1)
  <2> SUFFICES ASSUME NEW k \in Triggers
               PROVE  /\ state[k] = None => state'[k] = None
                      /\ state'[k] # None =>
                           /\ state'[k].canon = state[k].canon
                           /\ state'[k].next = IF state[k].next = Never THEN Never
                                                ELSE Less(state[k].next, 1)
    OBVIOUS
  <2>1. CASE state[k] = None
    BY <2>1 DEF Tick
  <2>2. CASE state[k] # None
    <3>1. state[k] \in [canon : Specs, next : Nat \cup {Never}]
      BY <1>0, <2>2 DEF TypeOK
    <3> QED
      BY <2>2, <3>1 DEF Tick
  <2> QED
    BY <2>1, <2>2
<1>3. DueIsAnchored'
  <2> SUFFICES ASSUME NEW s \in Sweeps, NEW e \in sweep[s].due,
                      e.key \notin overtaken, state'[e.key] # None
               PROVE  state'[e.key].canon = e.row
    BY <1>1 DEF DueIsAnchored
  <2>1. e.key \in Triggers
    BY <1>0 DEF TypeOK, Sweep, Due
  <2> QED
    BY <2>1, <1>2 DEF ScheduleInv, DueIsAnchored
<1>4. OneShotsOnTime'
  <2> SUFFICES ASSUME NEW k \in Triggers \ overtaken, state'[k] # None,
                      state'[k].canon \in OneShots, state'[k].next # Never
               PROVE  state'[k].next = left'[state'[k].canon]
    BY <1>1 DEF OneShotsOnTime
  <2>1. /\ state[k] # None /\ state[k].canon \in OneShots /\ state[k].next # Never
        /\ state'[k].canon = state[k].canon /\ state'[k].next = Less(state[k].next, 1)
    BY <1>2
  <2>2. state[k].next = left[state[k].canon]
    BY <2>1 DEF ScheduleInv, OneShotsOnTime
  <2> QED
    BY <2>1, <2>2 DEF Tick
<1>5. OneSweepHolds' /\ DeliveredIsInFlight'
  BY <1>1 DEF ScheduleInv, OneSweepHolds, DeliveredIsInFlight, Holds
<1> QED
  BY <1>0, <1>3, <1>4, <1>5 DEF ScheduleInv

LEMMA RestartInv == ASSUME ScheduleInv, NEW away \in 0..1, Restart(away) PROVE ScheduleInv'
<1>1. TypeOK'
  BY RestartTyped DEF ScheduleInv
<1>2. /\ \A s \in Sweeps : sweep'[s].due = {} /\ sweep'[s].firing = None
      /\ \A k \in Triggers : state'[k] = None
  BY DEF Restart, Idle
<1>3. \A s \in Sweeps, k \in Triggers : ~Holds(s, k)' /\ sweep'[s].firing # k
  BY <1>2, NothingAssumption DEF Holds
<1>4. OneSweepHolds' /\ DeliveredIsInFlight' /\ DueIsAnchored' /\ OneShotsOnTime'
  BY <1>2, <1>3 DEF OneSweepHolds, DeliveredIsInFlight, DueIsAnchored, OneShotsOnTime
<1> QED
  BY <1>1, <1>4 DEF ScheduleInv

LEMMA ScheduleStep == ScheduleInv /\ [Next]_vars => ScheduleInv'
<1> SUFFICES ASSUME ScheduleInv, [Next]_vars PROVE ScheduleInv'
  OBVIOUS
<1>0. TypeOK'
  BY TypeStep DEF ScheduleInv
<1>1. ASSUME NEW s \in Sweeps, SweepBegins(s) PROVE ScheduleInv'
  BY <1>1, SweepBeginsInv
<1>2. ASSUME NEW s \in Sweeps, NEW e \in sweep[s].due, FireDue(s, e) \/ PassDue(s, e)
      PROVE  ScheduleInv'
  BY <1>2, FireDueInv, PassDueInv
<1>3. ASSUME NEW s \in Sweeps, FireReturns(s) \/ SweepEnds(s) PROVE ScheduleInv'
  BY <1>3, SweepGoesOnInv
<1>4. CASE Tick
  BY <1>4, TickInv
<1>5. CASE \/ UNCHANGED <<left, schedule>>
           \/ \E k \in Changed :
                 \/ \E sp \in Specs \cup {None} : EditSpec(k, sp)
                 \/ \E sp \in Specs : Arm(k, sp)
                 \/ Disarm(k)
           \/ WriteDone \/ WriteFails
  <2>1. UNCHANGED <<left, schedule>>
    BY <1>5 DEF EditSpec, Arm, Disarm, Record, WriteDone, WriteFails
  <2> QED
    BY <1>0, <2>1, LetsGo DEF schedule, ScheduleInv, DeliveredIsInFlight
<1>6. ASSUME NEW away \in 0..1, Restart(away) PROVE ScheduleInv'
  BY <1>6, RestartInv
<1> QED
  BY <1>1, <1>2, <1>3, <1>4, <1>5, <1>6 DEF Next, vars

(* The invariant of the schedules holds, for any triggers, specs and sweeps. *)
THEOREM SchedulesInvariant == Spec => []ScheduleInv
BY ScheduleInit, ScheduleStep, PTL DEF Spec

(* Two deliveries of one trigger are under way at once only when a sweep    *)
(* has begun while another still had it to fire.                            *)
THEOREM DeliveredOnceUnlessOvertaken == Spec => []OneDeliveryUnlessOvertaken
<1>1. ScheduleInv => OneDeliveryUnlessOvertaken
  BY DEF ScheduleInv, OneSweepHolds, OneDeliveryUnlessOvertaken, Apart, Holds
<1> QED
  BY <1>1, SchedulesInvariant, PTL

(* A one-shot is scheduled for its instant or not at all. *)
THEOREM OneShotsFireOnTime == Spec => []OneShotsOnTime
<1>1. ScheduleInv => OneShotsOnTime
  BY DEF ScheduleInv
<1> QED
  BY <1>1, SchedulesInvariant, PTL

-----------------------------------------------------------------------------
(* The consent *)

LEMMA ConsentInit == Init => ConsentInv
<1> SUFFICES ASSUME Init PROVE ConsentInv
  OBVIOUS
<1>1. writes = <<>> /\ Len(writes) = 0
  BY DEF Init
<1>2. LastWriteIsMemory /\ ToldHasNoWrite
  BY <1>1 DEF LastWriteIsMemory, ToldHasNoWrite
<1> QED
  BY <1>2, InitTyped DEF ConsentInv, ConsentSurvives, Init

(* A request for k: its snapshot is the memory, and for every other trigger *)
(* the memory is what it was.                                               *)
LEMMA RecordInv ==
  ASSUME ConsentInv, NEW k \in Triggers, NEW sp \in Specs \cup {None}, Record(k, sp)
  PROVE  ConsentInv'
<1>0. TypeOK /\ TypeOK'
  BY RecordTyped DEF ConsentInv
<1> DEFINE w == [snapshot |-> arms', key |-> k]
<1>1. /\ arms'[k] = sp /\ \A x \in Triggers : x # k => arms'[x] = arms[x]
      /\ told'[k] = Unknown /\ \A x \in Triggers : x # k => told'[x] = told[x]
      /\ disk' = disk
  BY <1>0 DEF Record, TypeOK
<1>2. /\ Len(writes) \in Nat /\ Len(writes') = Len(writes) + 1
      /\ writes'[Len(writes) + 1] = w
      /\ \A i \in 1..Len(writes) : writes'[i] = writes[i]
  <2>1. writes \in Seq([snapshot : [Triggers -> Specs \cup {None}], key : Triggers])
    BY <1>0 DEF TypeOK
  <2>2. writes' = Append(writes, w)
    BY DEF Record
  <2> QED
    BY <2>1, <2>2, AppendProperties
<1>3. LastWriteIsMemory'
  <2> SUFFICES ASSUME NEW i \in 1..Len(writes'), NEW x \in Triggers, LastOf(i, x)'
               PROVE  writes'[i].snapshot[x] = arms'[x]
    BY DEF LastWriteIsMemory
  <2>1. CASE i = Len(writes) + 1
    BY <2>1, <1>2
  <2>2. CASE i # Len(writes) + 1
    <3>1. i \in 1..Len(writes) /\ Len(writes) + 1 \in 1..Len(writes')
      BY <2>2, <1>2
    <3>2. x # k
      BY <3>1, <1>2 DEF LastOf
    <3>3. LastOf(i, x)
      BY <1>2 DEF LastOf
    <3> QED
      BY <3>1, <3>2, <3>3, <1>1, <1>2 DEF ConsentInv, LastWriteIsMemory
  <2> QED
    BY <2>1, <2>2
<1>4. ToldHasNoWrite'
  <2> SUFFICES ASSUME NEW x \in Triggers, told'[x] # Unknown, NEW i \in 1..Len(writes')
               PROVE  writes'[i].key # x
    BY DEF ToldHasNoWrite
  <2>1. x # k /\ told[x] # Unknown
    BY <1>1
  <2>2. CASE i = Len(writes) + 1
    BY <2>1, <2>2, <1>2
  <2>3. CASE i # Len(writes) + 1
    BY <2>1, <2>3, <1>2 DEF ConsentInv, ToldHasNoWrite
  <2> QED
    BY <2>2, <2>3
<1>5. ConsentSurvives'
  BY <1>1 DEF ConsentInv, ConsentSurvives
<1> QED
  BY <1>0, <1>3, <1>4, <1>5 DEF ConsentInv

(* The oldest write leaves the queue; what is left of it is as good.        *)
LEMMA QueueMoves ==
  ASSUME ConsentInv, writes # <<>>, writes' = Tail(writes), arms' = arms
  PROVE  /\ LastWriteIsMemory'
         /\ Head(writes) = writes[1] /\ 1 \in 1..Len(writes)
         /\ Len(writes) \in Nat /\ Len(writes') = Len(writes) - 1
         /\ \A i \in 1..Len(writes') : i + 1 \in 2..Len(writes) /\ writes'[i] = writes[i + 1]
<1>1. writes \in Seq([snapshot : [Triggers -> Specs \cup {None}], key : Triggers])
  BY DEF ConsentInv, TypeOK
<1>2. /\ Head(writes) = writes[1] /\ 1 \in 1..Len(writes)
      /\ Len(writes) \in Nat /\ Len(writes') = Len(writes) - 1
      /\ \A i \in 1..Len(writes') : i + 1 \in 2..Len(writes) /\ writes'[i] = writes[i + 1]
  BY <1>1, HeadTailProperties, EmptySeq
<1>3. LastWriteIsMemory'
  <2> SUFFICES ASSUME NEW i \in 1..Len(writes'), NEW x \in Triggers, LastOf(i, x)'
               PROVE  writes'[i].snapshot[x] = arms[x]
    BY DEF LastWriteIsMemory
  <2>1. LastOf(i + 1, x)
    <3> SUFFICES ASSUME NEW j \in 1..Len(writes), j > i + 1 PROVE writes[j].key # x
      BY DEF LastOf
    <3>1. j - 1 \in 1..Len(writes') /\ j - 1 > i /\ writes'[j - 1] = writes[j]
      BY <1>2
    <3> QED
      BY <3>1 DEF LastOf
  <2> QED
    BY <2>1, <1>2 DEF ConsentInv, LastWriteIsMemory
<1> QED
  BY <1>2, <1>3

(* The write is done.  The file holds what the memory holds of every        *)
(* trigger without a later write, and only such a one is told about.        *)
LEMMA WriteDoneInv == ASSUME ConsentInv, WriteDone PROVE ConsentInv'
<1>0. TypeOK /\ TypeOK'
  BY WriteTyped DEF ConsentInv
<1> DEFINE w == Head(writes)
<1>1. /\ disk' = w.snapshot /\ told' = Answer(w) /\ arms' = arms
      /\ writes # <<>> /\ writes' = Tail(writes)
  BY DEF WriteDone
<1>2. /\ LastWriteIsMemory'
      /\ w = writes[1] /\ 1 \in 1..Len(writes)
      /\ Len(writes) \in Nat /\ Len(writes') = Len(writes) - 1
      /\ \A i \in 1..Len(writes') : i + 1 \in 2..Len(writes) /\ writes'[i] = writes[i + 1]
  BY <1>1, QueueMoves
<1>3. w.key \in Triggers
  <2> DEFINE Writes == [snapshot : [Triggers -> Specs \cup {None}], key : Triggers]
  <2>1. writes \in Seq(Writes)
    BY <1>0 DEF TypeOK
  <2>2. writes[1] \in Writes
    <3> HIDE DEF Writes
    <3> QED
      BY <2>1, <1>2, ElementOfSeq
  <2> QED
    BY <2>2, <1>2
<1>4. ASSUME NEW k \in Triggers, told'[k] # Unknown
      PROVE  /\ \A j \in 2..Len(writes) : writes[j].key # k
             /\ told'[k] = arms[k] /\ disk'[k] = arms[k]
  <2>1. CASE k = w.key /\ ~\E i \in 2..Len(writes) : writes[i].key = w.key
    <3>1. LastOf(1, k)
      BY <2>1 DEF LastOf
    <3>2. w.snapshot[k] = arms[k]
      BY <3>1, <1>2 DEF ConsentInv, LastWriteIsMemory
    <3>3. told'[k] = w.snapshot[k]
      BY <2>1, <1>0, <1>1 DEF Answer, TypeOK
    <3> QED
      BY <2>1, <3>2, <3>3, <1>1
  <2>2. CASE ~(k = w.key /\ ~\E i \in 2..Len(writes) : writes[i].key = w.key)
    <3>1. told'[k] = told[k]
      BY <2>2, <1>0, <1>1 DEF Answer, TypeOK
    <3>2. \A j \in 1..Len(writes) : writes[j].key # k
      BY <3>1, <1>4 DEF ConsentInv, ToldHasNoWrite
    <3>3. LastOf(1, k)
      BY <3>2 DEF LastOf
    <3>4. w.snapshot[k] = arms[k]
      BY <3>3, <1>2 DEF ConsentInv, LastWriteIsMemory
    <3> QED
      BY <3>1, <3>2, <3>4, <1>1, <1>2, <1>4 DEF ConsentInv, ConsentSurvives
  <2> QED
    BY <2>1, <2>2
<1>5. ToldHasNoWrite'
  BY <1>2, <1>4 DEF ToldHasNoWrite
<1>6. ConsentSurvives'
  BY <1>1, <1>4 DEF ConsentSurvives
<1> QED
  BY <1>0, <1>2, <1>5, <1>6 DEF ConsentInv

LEMMA WriteFailsInv == ASSUME ConsentInv, WriteFails PROVE ConsentInv'
<1>0. TypeOK'
  BY WriteTyped DEF ConsentInv
<1>1. UNCHANGED <<disk, told, arms>> /\ writes # <<>> /\ writes' = Tail(writes)
  BY DEF WriteFails
<1>2. /\ LastWriteIsMemory'
      /\ \A i \in 1..Len(writes') : i + 1 \in 2..Len(writes) /\ writes'[i] = writes[i + 1]
      /\ Len(writes) \in Nat
  BY <1>1, QueueMoves
<1>3. ToldHasNoWrite'
  BY <1>1, <1>2 DEF ConsentInv, ToldHasNoWrite
<1> QED
  BY <1>0, <1>1, <1>2, <1>3 DEF ConsentInv, ConsentSurvives

(* The memory is read back from the file: what was told of is in both.      *)
LEMMA RestartConsentInv == ASSUME ConsentInv, NEW away \in 0..1, Restart(away) PROVE ConsentInv'
<1>0. TypeOK'
  BY RestartTyped DEF ConsentInv
<1>1. writes' = <<>> /\ Len(writes') = 0
  BY DEF Restart
<1>2. LastWriteIsMemory' /\ ToldHasNoWrite'
  BY <1>1 DEF LastWriteIsMemory, ToldHasNoWrite
<1> QED
  BY <1>0, <1>2 DEF Restart, ConsentInv, ConsentSurvives

LEMMA ConsentStep == ConsentInv /\ [Next]_vars => ConsentInv'
<1> SUFFICES ASSUME ConsentInv, [Next]_vars PROVE ConsentInv'
  OBVIOUS
<1>0. TypeOK'
  BY TypeStep DEF ConsentInv
<1>1. CASE UNCHANGED consent
  <2>1. UNCHANGED <<arms, disk, writes, told>>
    BY <1>1 DEF consent
  <2>2. LastWriteIsMemory' /\ ToldHasNoWrite'
    BY <2>1 DEF ConsentInv, LastWriteIsMemory, ToldHasNoWrite, LastOf
  <2> QED
    BY <1>0, <2>1, <2>2 DEF ConsentInv, ConsentSurvives
<1>2. ASSUME NEW k \in Changed, (\E sp \in Specs : Arm(k, sp)) \/ Disarm(k) PROVE ConsentInv'
  BY <1>2, RecordInv, ChangedAssumption DEF Arm, Disarm
<1>3. CASE WriteDone
  BY <1>3, WriteDoneInv
<1>4. CASE WriteFails
  BY <1>4, WriteFailsInv
<1>5. ASSUME NEW away \in 0..1, Restart(away) PROVE ConsentInv'
  BY <1>5, RestartConsentInv
<1>6. CASE \/ \E s \in Sweeps :
                 \/ SweepBegins(s)
                 \/ \E e \in sweep[s].due : FireDue(s, e) \/ PassDue(s, e)
                 \/ FireReturns(s)
                 \/ SweepEnds(s)
           \/ Tick
           \/ \E k \in Changed : \E sp \in Specs \cup {None} : EditSpec(k, sp)
           \/ UNCHANGED vars
  <2>1. UNCHANGED consent
    BY <1>6 DEF SweepBegins, FireDue, PassDue, FireReturns, SweepEnds, Tick, EditSpec, vars
  <2> QED
    BY <2>1, <1>1
<1> QED
  BY <1>2, <1>3, <1>4, <1>5, <1>6 DEF Next

(* What the user was told is recorded is in memory and on disk, whichever   *)
(* writes failed and however often the host was started again.              *)
THEOREM ToldConsentSurvives == Spec => []ConsentSurvives
<1>1. Spec => []ConsentInv
  BY ConsentInit, ConsentStep, PTL DEF Spec
<1>2. ConsentInv => ConsentSurvives
  BY DEF ConsentInv
<1> QED
  BY <1>1, <1>2, PTL
=============================================================================
