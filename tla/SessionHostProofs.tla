-------------------------- MODULE SessionHostProofs --------------------------
(***************************************************************************)
(* Proofs about SessionHost, for any kill operations, requests, attaches,  *)
(* number of generations and length of the two windows: the generations,   *)
(* the kills and the requests (1 to 4), then the attaches and the end of   *)
(* the host itself (5 to 10).                                              *)
(***************************************************************************)
EXTENDS SessionHost, TLAPS

USE OpOfAssumption, NoneAssumption, BoundsAssumption

-----------------------------------------------------------------------------
(* 1. Types. *)

(* A signalled generation keeps its record, but for its state. *)
LEMMA RetireTypes ==
  ASSUME TypeOK, NEW g, Retire(g)
  PROVE  /\ gens' \in Seq(Generation) /\ Len(gens') = Len(gens)
         /\ \A h \in 1..Len(gens) :
              /\ gens'[h].owner = gens[h].owner
              /\ gens'[h].st = IF h = g /\ gens[h].st = "live" THEN "retiring" ELSE gens[h].st
<1> DEFINE st == IF gens[g].st = "live" THEN "retiring" ELSE gens[g].st
           new == [gens[g] EXCEPT !.st = st]
<1>1. gens \in Seq(Generation)
  BY DEF TypeOK
<1>2. gens' = [gens EXCEPT ![g] = new]
  BY DEF Retire
<1>3. CASE g \in 1..Len(gens)
  <2>1. gens[g] \in Generation
    BY <1>1, <1>3
  <2>2. new \in Generation /\ new.st = st /\ new.owner = gens[g].owner
    BY <2>1 DEF Generation
  <2>3. \A h \in 1..Len(gens) : gens'[h] = IF h = g THEN new ELSE gens[h]
    BY <1>1, <1>2, <1>3
  <2>4. gens' \in Seq(Generation) /\ Len(gens') = Len(gens)
    BY <1>1, <1>2, <1>3, <2>2
  <2> QED
    BY <2>2, <2>3, <2>4
<1>4. CASE g \notin 1..Len(gens)
  <2>1. gens' = gens
    BY <1>1, <1>2, <1>4
  <2> QED
    BY <1>1, <1>4, <2>1
<1> QED
  BY <1>3, <1>4

(* The phases an attach request goes through. *)
Phases == {"unsent", "queued", "warm", "cold", "failing", "answered", "refused"}

(* Moving a request to another phase leaves its other fields alone. *)
LEMMA PhaseTypes ==
  ASSUME TypeOK, NEW a \in Attaches, NEW ph \in Phases
  PROVE  [attaches EXCEPT ![a].phase = ph] \in [Attaches -> AttachRequest]
<1>1. attaches[a] \in AttachRequest
  BY DEF TypeOK
<1>2. [attaches[a] EXCEPT !.phase = ph] \in AttachRequest
  BY <1>1 DEF AttachRequest, Phases
<1> QED
  BY <1>2 DEF TypeOK

(* An answered or refused attach gives up the turn it holds. *)
LEMMA ReplyTypes ==
  ASSUME TypeOK, NEW a \in Attaches, turns # <<>>, Refuse(a) \/ Answer(a)
  PROVE  attaches' \in [Attaches -> AttachRequest] /\ turns' \in Seq(Attaches)
<1>1. turns \in Seq(Attaches)
  BY DEF TypeOK
<1>2. Tail(turns) \in Seq(Attaches)
  BY <1>1
<1>3. PICK ph \in Phases : attaches' = [attaches EXCEPT ![a].phase = ph]
  BY DEF Refuse, Answer, Phases
<1>4. turns' = Tail(turns)
  BY DEF Refuse, Answer
<1> QED
  BY <1>2, <1>3, <1>4, PhaseTypes

(* The states of a kill request. *)
ReplyStates == {"unsent", "waiting", "joined", "ok", "refused"}

(* Answering one kill request leaves the others alone. *)
LEMMA KillReplyTypes ==
  ASSUME TypeOK, NEW r \in KillReqs, NEW st \in ReplyStates, Reply(r, st)
  PROVE  /\ kills' \in [KillReqs -> KillRequest]
         /\ kills'[r].st = st
         /\ \A q \in KillReqs : q # r => kills'[q] = kills[q]
<1>1. kills[r] \in KillRequest
  BY DEF TypeOK
<1>2. [kills[r] EXCEPT !.st = st] \in KillRequest /\ [kills[r] EXCEPT !.st = st].st = st
  BY <1>1 DEF KillRequest, ReplyStates
<1>3. kills' = [kills EXCEPT ![r] = [kills[r] EXCEPT !.st = st]]
  BY DEF Reply
<1> QED
  BY <1>2, <1>3 DEF TypeOK

(* A lease, and the grace window it restarts or stops, are well typed. *)
LEMMA ReservationTypes ==
  ASSUME TypeOK, NEW o \in Ops, SetReservation(o)
  PROVE  lease' \in [token : Token, left : 0..Window] /\ grace' \in 0..Off
BY DEF TypeOK, SetReservation, Token, Off

(* Whatever a kill request decides, it leaves well-typed state behind.     *)
LEMMA KillTypes ==
  ASSUME TypeOK, NEW r \in KillReqs, NEW o \in Ops, NEW p \in Plan,
         \/ KillReplayed(r, o, p)
         \/ KillJoins(r, o)
         \/ KillClashes(r, o)
         \/ KillWaits(r, o)
         \/ KillDecides(r, o, p)
  PROVE  /\ ending' \in [op : Token, gen : Gen]
         /\ step' \in [Ops -> {"idle", "signalling", "signalled"}]
         /\ completed' \in SUBSET Ops
         /\ kills' \in [KillReqs -> KillRequest]
         /\ lease' \in [token : Token, left : 0..Window]
         /\ grace' \in 0..Off
<1> USE DEF ReplyStates
<1>0. /\ ending \in [op : Token, gen : Gen]
      /\ step \in [Ops -> {"idle", "signalling", "signalled"}]
      /\ completed \in SUBSET Ops
      /\ lease \in [token : Token, left : 0..Window]
      /\ grace \in 0..Off
      /\ registry \in Gen
  BY DEF TypeOK
<1>1. CASE KillReplayed(r, o, p)
  <2>1. \/ SetReservation(o)
        \/ UNCHANGED <<lease, grace>>
    BY <1>1 DEF KillReplayed
  <2>2. kills' \in [KillReqs -> KillRequest]
    BY <1>1, KillReplyTypes DEF KillReplayed
  <2>3. UNCHANGED <<ending, step, completed>>
    BY <1>1 DEF KillReplayed
  <2> QED
    BY <1>0, <2>1, <2>2, <2>3, ReservationTypes
<1>2. CASE KillJoins(r, o)
  BY <1>0, <1>2, KillReplyTypes DEF KillJoins
<1>3. CASE KillClashes(r, o)
  BY <1>0, <1>3, KillReplyTypes DEF KillClashes
<1>4. CASE KillWaits(r, o)
  <2>1. [st |-> "waiting", on |-> registry] \in KillRequest
    BY <1>0 DEF KillRequest
  <2> QED
    BY <1>0, <1>4, <2>1 DEF KillWaits, TypeOK
<1>5. CASE KillAbsent(r, o, p)
  <2>1. \/ SetReservation(o)
        \/ UNCHANGED <<lease, grace>>
    BY <1>5 DEF KillAbsent
  <2>2. kills' \in [KillReqs -> KillRequest]
    BY <1>5, KillReplyTypes DEF KillAbsent
  <2>3. completed' \in SUBSET Ops /\ UNCHANGED <<ending, step>>
    BY <1>0, <1>5 DEF KillAbsent, Completes
  <2> QED
    BY <1>0, <2>1, <2>2, <2>3, ReservationTypes
<1>6. CASE KillOther(r, o, p)
  <2>1. kills' \in [KillReqs -> KillRequest]
    BY <1>6, KillReplyTypes DEF KillOther
  <2> QED
    BY <1>0, <1>6, <2>1 DEF KillOther, Completes
<1>7. CASE KillExpected(r, o, p)
  <2>1. kills' \in [KillReqs -> KillRequest]
    BY <1>7, KillReplyTypes DEF KillExpected
  <2> QED
    BY <1>0, <1>7, <2>1 DEF KillExpected, Token
<1> QED
  BY <1>1, <1>2, <1>3, <1>4, <1>5, <1>6, <1>7 DEF KillDecides

(* Every variable of SessionHost keeps its type through every step. *)
LEMMA TypeStep == TypeOK /\ [Next]_vars => TypeOK'
<1> SUFFICES ASSUME TypeOK, [Next]_vars PROVE TypeOK'
  OBVIOUS
<1>0. /\ gens \in Seq(Generation) /\ Len(gens) \in 0..MaxGens
      /\ ending \in [op : Token, gen : Gen]
      /\ registry \in Gen
      /\ lease \in [token : Token, left : 0..Window] /\ grace \in 0..Off
  BY DEF TypeOK
<1>1. ASSUME NEW r \in KillReqs, KillArrives(r)
      PROVE  TypeOK'
  <2> DEFINE o == OpOf[r]
  <2>1. PICK p \in IF plan[o].fixed THEN {plan[o]}
                    ELSE [gen : 0..Len(gens), reserve : BOOLEAN, fixed : {TRUE}] :
             /\ plan' = [plan EXCEPT ![o] = p]
             /\ \/ KillReplayed(r, o, p)
                \/ KillJoins(r, o)
                \/ KillClashes(r, o)
                \/ KillWaits(r, o)
                \/ KillDecides(r, o, p)
    BY <1>1 DEF KillArrives
  <2>2. o \in Ops /\ plan[o] \in Plan
    BY DEF TypeOK
  <2>3. [gen : 0..Len(gens), reserve : BOOLEAN, fixed : {TRUE}] \subseteq Plan
    <3>1. 0..Len(gens) \subseteq Gen
      BY <1>0 DEF Gen
    <3> QED
      BY <3>1 DEF Plan
  <2>4. p \in Plan
    BY <2>1, <2>2, <2>3
  <2>5. UNCHANGED <<gens, registry, attachState, up>>
    BY <1>1 DEF KillArrives
  <2> QED
    BY <2>1, <2>2, <2>4, <2>5, KillTypes DEF TypeOK, attachState
<1>2. ASSUME NEW r \in KillReqs, KillResumes(r)
      PROVE  TypeOK'
  <2>1. OpOf[r] \in Ops /\ plan[OpOf[r]] \in Plan
    BY DEF TypeOK
  <2>2. KillDecides(r, OpOf[r], plan[OpOf[r]]) /\ UNCHANGED <<gens, registry, plan, attachState, up>>
    BY <1>2 DEF KillResumes
  <2> QED
    BY <2>1, <2>2, KillTypes DEF TypeOK, attachState
<1>3. ASSUME NEW o \in Ops, Terminates(o)
      PROVE  TypeOK'
  BY <1>3, RetireTypes DEF Terminates, TypeOK, attachState, clocks
<1>4. ASSUME NEW o \in Ops, TerminationFails(o)
      PROVE  TypeOK'
  <2>1. ASSUME NEW r \in KillReqs
        PROVE  [kills[r] EXCEPT !.st = "refused"] \in KillRequest
    <3>1. kills[r] \in KillRequest
      BY DEF TypeOK
    <3> QED
      BY <3>1 DEF KillRequest
  <2>2. kills' \in [KillReqs -> KillRequest]
    BY <1>4, <2>1 DEF TerminationFails, TypeOK
  <2>3. ending' \in [op : Token, gen : Gen]
    BY <1>4 DEF TerminationFails, NotEnding, Token, Gen
  <2> QED
    BY <1>4, <2>2, <2>3 DEF TerminationFails, TypeOK, attachState, clocks
<1>5. ASSUME NEW o \in Ops, Forget(o)
      PROVE  TypeOK'
  BY <1>5 DEF Forget, TypeOK, attachState, clocks
<1>6. ASSUME NEW g \in 1..Len(gens), ProcessExits(g)
      PROVE  TypeOK'
  <2> DEFINE own == IF ending.gen = g THEN ending.op ELSE None
             new == [gens[g] EXCEPT !.st = "exited", !.owner = own]
  <2>1. gens[g] \in Generation /\ own \in Token
    BY <1>0 DEF Token
  <2>2. new \in Generation
    BY <2>1 DEF Generation
  <2>3. gens' = [gens EXCEPT ![g] = new]
    BY <1>6 DEF ProcessExits
  <2>4. gens' \in Seq(Generation) /\ Len(gens') = Len(gens)
    BY <1>0, <2>2, <2>3
  <2> QED
    BY <1>6, <2>4 DEF ProcessExits, TypeOK, killState, attachState, clocks
<1>7. ASSUME NEW g \in 1..Len(gens), Publish(g)
      PROVE  TypeOK'
  <2> DEFINE o == gens[g].owner
             new == [gens[g] EXCEPT !.st = "gone"]
  <2>0. gens[g] \in Generation
    BY <1>0
  <2>1. o \in Token
    BY <2>0 DEF Generation
  <2>2. new \in Generation
    BY <2>0 DEF Generation
  <2>3. gens' \in Seq(Generation) /\ Len(gens') = Len(gens)
    BY <1>0, <1>7, <2>2 DEF Publish
  <2>4. ASSUME NEW r \in KillReqs
        PROVE  [kills[r] EXCEPT !.st = "ok"] \in KillRequest
    <3>1. kills[r] \in KillRequest
      BY DEF TypeOK
    <3> QED
      BY <3>1 DEF KillRequest
  <2>5. kills' \in [KillReqs -> KillRequest]
    BY <1>7, <2>4 DEF Publish, TypeOK
  <2>6. ASSUME NEW a \in Attaches
        PROVE  [attaches[a] EXCEPT !.told = TRUE] \in AttachRequest
    <3>1. attaches[a] \in AttachRequest
      BY DEF TypeOK
    <3> QED
      BY <3>1 DEF AttachRequest
  <2>7. attaches' \in [Attaches -> AttachRequest]
    BY <1>7, <2>6 DEF Publish, TypeOK
  <2>8. lease' \in [token : Token, left : 0..Window] /\ grace' \in 0..Off
    BY <1>0, <1>7, <2>1 DEF Publish, Off
  <2>9. ending' \in [op : Token, gen : Gen] /\ registry' \in Gen
    BY <1>0, <1>7 DEF Publish, NotEnding, Token, Gen
  <2>10. /\ completed' \in SUBSET Ops
         /\ step' \in [Ops -> {"idle", "signalling", "signalled"}]
    BY <1>7, <2>1 DEF Publish, TypeOK, Token
  <2> QED
    BY <1>7, <2>3, <2>5, <2>7, <2>8, <2>9, <2>10 DEF Publish, TypeOK
<1>8. ASSUME NEW a \in Attaches, AttachArrives(a)
      PROVE  TypeOK'
  <2>1. attaches[a] \in AttachRequest /\ turns \in Seq(Attaches)
    BY DEF TypeOK
  <2>2. ASSUME NEW t \in {None} \union Granted
        PROVE  [attaches[a] EXCEPT !.phase = "queued", !.create = TRUE, !.token = t]
                  \in AttachRequest
    <3>1. t \in Token
      BY <2>2 DEF Granted, Token
    <3> QED
      BY <2>1, <3>1 DEF AttachRequest
  <2>3. ASSUME NEW e \in 0..Len(gens)
        PROVE  [attaches[a] EXCEPT !.phase = "queued", !.expected = e] \in AttachRequest
    <3>1. e \in Gen
      BY <1>0 DEF Gen
    <3> QED
      BY <2>1, <3>1 DEF AttachRequest
  <2>4. attaches' \in [Attaches -> AttachRequest]
    <3>1. CASE \E t \in {None} \union Granted :
                 attaches' = [attaches EXCEPT ![a].phase = "queued", ![a].create = TRUE,
                                                ![a].token = t]
      <4>1. PICK t \in {None} \union Granted :
              attaches' = [attaches EXCEPT
                ![a] = [attaches[a] EXCEPT !.phase = "queued", !.create = TRUE, !.token = t]]
        BY <3>1
      <4> QED
        BY <2>2, <4>1 DEF TypeOK
    <3>2. CASE \E e \in 0..Len(gens) :
                 attaches' = [attaches EXCEPT ![a].phase = "queued", ![a].expected = e]
      <4>1. PICK e \in 0..Len(gens) :
              attaches' = [attaches EXCEPT
                ![a] = [attaches[a] EXCEPT !.phase = "queued", !.expected = e]]
        BY <3>2
      <4> QED
        BY <2>3, <4>1 DEF TypeOK
    <3> QED
      BY <1>8, <3>1, <3>2 DEF AttachArrives
  <2>5. turns' \in Seq(Attaches)
    BY <1>8, <2>1 DEF AttachArrives
  <2> QED
    BY <1>8, <2>4, <2>5 DEF AttachArrives, TypeOK, killState, clocks
<1>9. ASSUME NEW a \in Attaches, TurnRefused(a) \/ SpawnFails(a)
      PROVE  TypeOK'
  <2>1. attaches' \in [Attaches -> AttachRequest] /\ turns' \in Seq(Attaches)
    BY <1>9, ReplyTypes DEF TurnRefused, SpawnFails, AtTurn, HoldsTurn
  <2>2. grace' \in 0..Off /\ lease' \in [token : Token, left : 0..Window]
    BY <1>0, <1>9 DEF TurnRefused, SpawnFails, Off, NoLease, Token
  <2> QED
    BY <1>9, <2>1, <2>2 DEF TurnRefused, SpawnFails, TypeOK, killState
<1>10. ASSUME NEW a \in Attaches, TurnWarm(a)
       PROVE  TypeOK'
  <2>1. attaches[a] \in AttachRequest
    BY DEF TypeOK
  <2>2. [attaches[a] EXCEPT !.phase = "warm", !.on = registry] \in AttachRequest
    BY <1>0, <2>1 DEF AttachRequest
  <2>3. attaches' \in [Attaches -> AttachRequest]
    BY <1>10, <2>2 DEF TurnWarm, TypeOK
  <2>4. grace' \in 0..Off
    BY <1>10 DEF TurnWarm, Off
  <2> QED
    BY <1>10, <2>3, <2>4 DEF TurnWarm, TypeOK, killState
<1>11. ASSUME NEW a \in Attaches, TurnCold(a)
       PROVE  TypeOK'
  <2>1. attaches[a] \in AttachRequest
    BY DEF TypeOK
  <2>2. Len(gens) + 1 \in Gen /\ Len(gens) + 1 <= MaxGens
    BY <1>0, <1>11 DEF TurnCold, Gen
  <2>3. [attaches[a] EXCEPT !.phase = "cold", !.on = Len(gens) + 1] \in AttachRequest
    BY <2>1, <2>2 DEF AttachRequest
  <2>4. attaches' \in [Attaches -> AttachRequest]
    BY <1>11, <2>3 DEF TurnCold, TypeOK
  <2>5. [st |-> "live", by |-> attaches[a].token, owner |-> None] \in Generation
    BY <2>1 DEF Generation, AttachRequest, Token
  <2>6. gens' \in Seq(Generation) /\ Len(gens') = Len(gens) + 1
    BY <1>0, <1>11, <2>5 DEF TurnCold
  <2>7. lease' \in [token : Token, left : 0..Window] /\ grace' \in 0..Off
    BY <1>11 DEF TurnCold, NoLease, Token, Off
  <2> QED
    BY <1>11, <2>2, <2>4, <2>6, <2>7 DEF TurnCold, TypeOK, killState
<1>12. ASSUME NEW a \in Attaches, WarmReady(a)
       PROVE  TypeOK'
  <2>1. attaches[a] \in AttachRequest
    BY DEF TypeOK
  <2>2. 0 \in Gen
    BY DEF Gen
  <2>3. [attaches[a] EXCEPT !.phase = "queued", !.on = 0] \in AttachRequest
    BY <2>1, <2>2 DEF AttachRequest
  <2>4. turns # <<>>
    BY <1>12 DEF WarmReady, HoldsTurn
  <2>5. CASE Refuse(a) \/ Answer(a)
    <3>1. attaches' \in [Attaches -> AttachRequest] /\ turns' \in Seq(Attaches)
      BY <2>4, <2>5, ReplyTypes
    <3> QED
      BY <1>12, <3>1 DEF WarmReady, TypeOK, killState, clocks
  <2>6. CASE /\ attaches' = [attaches EXCEPT ![a].phase = "queued", ![a].on = 0]
             /\ UNCHANGED turns
    <3>1. attaches' = [attaches EXCEPT
                         ![a] = [attaches[a] EXCEPT !.phase = "queued", !.on = 0]]
      BY <2>6
    <3>2. attaches' \in [Attaches -> AttachRequest]
      BY <2>3, <3>1 DEF TypeOK
    <3> QED
      BY <1>12, <2>6, <3>2 DEF WarmReady, TypeOK, killState, clocks
  <2> QED
    BY <1>12, <2>5, <2>6 DEF WarmReady
<1>13. ASSUME NEW a \in Attaches, ColdReady(a)
       PROVE  TypeOK'
  <2>1. attaches' \in [Attaches -> AttachRequest] /\ turns' \in Seq(Attaches)
    <3>1. turns # <<>> /\ turns \in Seq(Attaches)
      BY <1>13 DEF ColdReady, HoldsTurn, TypeOK
    <3>2. CASE Refuse(a) \/ Answer(a)
      BY <3>1, <3>2, ReplyTypes
    <3>3. CASE /\ attaches' = [attaches EXCEPT ![a].phase = "failing"]
               /\ UNCHANGED turns
      BY <3>1, <3>3, PhaseTypes DEF Phases
    <3> QED
      BY <1>13, <3>2, <3>3 DEF ColdReady
  <2>2. gens' \in Seq(Generation) /\ Len(gens') = Len(gens)
    BY <1>0, <1>13, RetireTypes DEF ColdReady
  <2> QED
    BY <1>13, <2>1, <2>2 DEF ColdReady, TypeOK, killState, clocks
<1>14. ASSUME NEW a \in Attaches, ColdAbandoned(a)
       PROVE  TypeOK'
  <2>1. attaches' \in [Attaches -> AttachRequest] /\ turns' \in Seq(Attaches)
    BY <1>14, ReplyTypes DEF ColdAbandoned, Abandoned, HoldsTurn
  <2> QED
    BY <1>14, <2>1 DEF ColdAbandoned, TypeOK, killState, clocks
<1>15. ASSUME NEW a \in Attaches, Close(a)
       PROVE  TypeOK'
  <2>1. attaches[a] \in AttachRequest
    BY DEF TypeOK
  <2>2. [attaches[a] EXCEPT !.closed = TRUE] \in AttachRequest
    BY <2>1 DEF AttachRequest
  <2> QED
    BY <1>15, <2>2 DEF Close, TypeOK, killState, clocks
<1>16. CASE Tick
  <2>1. lease' \in [token : Token, left : 0..Window] /\ grace' \in 0..Off
    BY <1>0, <1>16 DEF Tick, Off
  <2> QED
    BY <1>16, <2>1 DEF Tick, TypeOK, killState, attachState
<1>17. CASE GraceFires
  <2>1. grace' \in 0..Off
    BY <1>17 DEF GraceFires, Off
  <2> QED
    BY <1>17, <2>1 DEF GraceFires, TypeOK, killState, attachState
<1>18. CASE UNCHANGED vars
  BY <1>18 DEF vars, killState, attachState, clocks, TypeOK
<1> QED
  BY <1>1, <1>2, <1>3, <1>4, <1>5, <1>6, <1>7, <1>8, <1>9, <1>10, <1>11, <1>12, <1>13, <1>14,
     <1>15, <1>16, <1>17, <1>18 DEF Next, KillStep, AttachStep

(* A host that has just begun to listen is well typed. *)
LEMMA TypeInit == Init => TypeOK
BY DEF Init, TypeOK, Generation, Plan, KillRequest, AttachRequest, NoPlan, NoLease, NotEnding,
       Unasked, Token, Gen, Off

(* The type invariant of SessionHost: no window counts below zero, and no  *)
(* request or operation is ever in a state the handlers do not know.       *)
THEOREM HostTypeCorrect == Spec => []TypeOK
<1>1. Init => TypeOK
  BY TypeInit
<1>2. TypeOK /\ [Next]_vars => TypeOK'
  BY TypeStep
<1> QED
  BY <1>1, <1>2, PTL DEF Spec

-----------------------------------------------------------------------------
(* 2. One generation at a time. *)

(* An exit changes the state and the owner of one generation. *)
LEMMA ProcessExitsEffect ==
  ASSUME TypeOK, NEW g \in 1..Len(gens), ProcessExits(g)
  PROVE  /\ Len(gens') = Len(gens)
         /\ \A h \in 1..Len(gens) :
              /\ gens'[h].st = IF h = g THEN "exited" ELSE gens[h].st
              /\ gens'[h].owner = IF h # g THEN gens[h].owner
                                  ELSE IF ending.gen = g THEN ending.op ELSE None
<1> DEFINE own == IF ending.gen = g THEN ending.op ELSE None
           new == [gens[g] EXCEPT !.st = "exited", !.owner = own]
<1>1. gens \in Seq(Generation) /\ gens[g] \in Generation
  BY DEF TypeOK
<1>2. new.st = "exited" /\ new.owner = own
  BY <1>1 DEF Generation
<1>3. gens' = [gens EXCEPT ![g] = new]
  BY DEF ProcessExits
<1>4. Len(gens') = Len(gens) /\ \A h \in 1..Len(gens) : gens'[h] = IF h = g THEN new ELSE gens[h]
  BY <1>1, <1>3
<1> QED
  BY <1>2, <1>4

(* A publication changes the state of one generation. *)
LEMMA PublishEffect ==
  ASSUME TypeOK, NEW g \in 1..Len(gens), Publish(g)
  PROVE  /\ Len(gens') = Len(gens)
         /\ \A h \in 1..Len(gens) :
              /\ gens'[h].st = IF h = g THEN "gone" ELSE gens[h].st
              /\ gens'[h].owner = gens[h].owner
<1> DEFINE new == [gens[g] EXCEPT !.st = "gone"]
<1>1. gens \in Seq(Generation) /\ gens[g] \in Generation
  BY DEF TypeOK
<1>2. new.st = "gone" /\ new.owner = gens[g].owner
  BY <1>1 DEF Generation
<1>3. gens' = [gens EXCEPT ![g] = new]
  BY DEF Publish
<1>4. Len(gens') = Len(gens) /\ \A h \in 1..Len(gens) : gens'[h] = IF h = g THEN new ELSE gens[h]
  BY <1>1, <1>3
<1> QED
  BY <1>2, <1>4

(* A cold turn adds a live generation that nothing has ended. *)
LEMMA TurnColdEffect ==
  ASSUME TypeOK, NEW a \in Attaches, TurnCold(a)
  PROVE  /\ Len(gens') = Len(gens) + 1
         /\ registry' = Len(gens')
         /\ gens'[Len(gens')].st = "live" /\ gens'[Len(gens')].owner = None
         /\ \A h \in 1..Len(gens) : gens'[h] = gens[h]
<1>1. gens \in Seq(Generation)
  BY DEF TypeOK
<1>2. gens' = Append(gens, [st |-> "live", by |-> attaches[a].token, owner |-> None])
  BY DEF TurnCold
<1>3. registry' = Len(gens) + 1
  BY DEF TurnCold
<1> QED
  BY <1>1, <1>2, <1>3

(* The steps that touch a generation or the registry. *)
LEMMA RegistryStep ==
  ASSUME [Next]_vars
  PROVE  \/ UNCHANGED <<gens, registry>>
         \/ \E o \in Ops : Terminates(o)
         \/ \E g \in 1..Len(gens) : ProcessExits(g) \/ Publish(g)
         \/ \E a \in Attaches : TurnCold(a) \/ ColdReady(a)
BY DEF Next, KillStep, AttachStep, KillArrives, KillResumes, TerminationFails, Forget,
       AttachArrives, TurnRefused, TurnWarm, SpawnFails, WarmReady, ColdAbandoned, Close, Tick,
       GraceFires, vars

(* A step that leaves alone which generations are gone keeps the name held. *)
LEMMA HeldIfSameGone ==
  ASSUME NameIsHeld, registry' = registry, Len(gens') = Len(gens),
         \A h \in 1..Len(gens) : gens'[h].st = "gone" <=> gens[h].st = "gone"
  PROVE  NameIsHeld'
BY DEF NameIsHeld

(* NameIsHeld needs nothing but the types to be inductive. *)
LEMMA NameIsHeldStep == TypeOK /\ NameIsHeld /\ [Next]_vars => NameIsHeld'
<1> SUFFICES ASSUME TypeOK, NameIsHeld, [Next]_vars PROVE NameIsHeld'
  OBVIOUS
<1>1. CASE UNCHANGED <<gens, registry>>
  BY <1>1 DEF NameIsHeld
<1>2. ASSUME NEW g, Retire(g), registry' = registry
      PROVE  NameIsHeld'
  BY <1>2, RetireTypes, HeldIfSameGone
<1>3. ASSUME NEW o \in Ops, Terminates(o)
      PROVE  NameIsHeld'
  BY <1>2, <1>3 DEF Terminates
<1>4. ASSUME NEW g \in 1..Len(gens), ProcessExits(g)
      PROVE  NameIsHeld'
  <2>1. gens[g].st # "gone" /\ registry' = registry
    BY <1>4 DEF ProcessExits, Live
  <2> QED
    BY <1>4, <2>1, ProcessExitsEffect, HeldIfSameGone
<1>5. ASSUME NEW g \in 1..Len(gens), Publish(g)
      PROVE  NameIsHeld'
  <2>1. g = registry
    BY <1>5 DEF Publish, NameIsHeld
  <2>2. registry' = 0
    BY <1>5, <2>1 DEF Publish
  <2> QED
    BY <1>5, <2>1, <2>2, PublishEffect DEF NameIsHeld
<1>6. ASSUME NEW a \in Attaches, TurnCold(a)
      PROVE  NameIsHeld'
  <2>1. registry = 0
    BY <1>6 DEF TurnCold, ColdAllowed
  <2>2. Len(gens) \in Nat
    BY DEF TypeOK
  <2> QED
    BY <1>6, <2>1, <2>2, TurnColdEffect DEF NameIsHeld
<1>7. ASSUME NEW a \in Attaches, ColdReady(a)
      PROVE  NameIsHeld'
  <2>1. CASE UNCHANGED gens
    BY <1>1, <1>7, <2>1 DEF ColdReady
  <2>2. CASE Retire(attaches[a].on)
    BY <1>2, <1>7, <2>2 DEF ColdReady
  <2> QED
    BY <1>7, <2>1, <2>2 DEF ColdReady
<1> QED
  BY <1>1, <1>3, <1>4, <1>5, <1>6, <1>7, RegistryStep

(* Two processes of one name never overlap, from the spawn of the first to *)
(* the publication of its end, for any number of kills, retries, attaches  *)
(* and generations (host.ts, generation-barrier.ts).                       *)
THEOREM OneGenerationAtATime == Spec => []OneGeneration
<1>1. Init => TypeOK /\ NameIsHeld
  BY TypeInit DEF Init, NameIsHeld
<1>2. TypeOK /\ NameIsHeld /\ [Next]_vars => (TypeOK /\ NameIsHeld)'
  BY TypeStep, NameIsHeldStep
<1>3. NameIsHeld => OneGeneration
  BY DEF NameIsHeld, OneGeneration
<1> QED
  BY <1>1, <1>2, <1>3, PTL DEF Spec

-----------------------------------------------------------------------------
(* 3. The inductive invariant. *)

(* Which generations are gone is what the truths about operations rest on: *)
(* a step that neither moves an operation nor a kill request, and keeps    *)
(* owners and what is gone, keeps them.                                    *)
LEMMA TruthsKept ==
  ASSUME TypeOK, PlansAreFixed, EndingIsMeant, CompletedIsTrue, KillIsConfirmed,
         UNCHANGED killState, Len(gens) <= Len(gens'), Len(gens') \in Nat,
         \A h \in 1..Len(gens) :
           /\ gens'[h].st = "gone" <=> gens[h].st = "gone"
           /\ gens'[h].owner = gens[h].owner,
         \A h \in 1..Len(gens') : h \notin 1..Len(gens) => gens'[h].owner = None
  PROVE  PlansAreFixed' /\ EndingIsMeant' /\ CompletedIsTrue' /\ KillIsConfirmed'
<1>0. /\ Len(gens) \in Nat
      /\ OpOf \in [KillReqs -> Ops]
      /\ \A o \in Ops : plan[o] \in Plan /\ plan[o].gen \in 0..Len(gens)
      /\ completed \in SUBSET Ops
  <2>1. \A o \in Ops : plan[o] \in Plan
    BY DEF TypeOK
  <2>2. \A o \in Ops : plan[o].gen \in Nat
    BY <2>1 DEF Plan, Gen
  <2> QED
    BY <2>1, <2>2 DEF TypeOK, PlansAreFixed
<1>1. UNCHANGED <<ending, plan, step, completed, kills>>
  BY DEF killState
<1>2. \A h \in 1..Len(gens) : h \in 1..Len(gens') /\ (Gone(h)' <=> Gone(h))
  BY <1>0 DEF Gone
<1>3. PlansAreFixed'
  <2>1. \A o \in Ops : plan[o].gen <= Len(gens')
    BY <1>0
  <2>2. \A r \in KillReqs : kills[r].st = "waiting" =>
           plan[OpOf[r]].gen <= kills[r].on /\ kills[r].on \in 1..Len(gens')
    BY <1>0 DEF PlansAreFixed
  <2> QED
    BY <1>1, <2>1, <2>2 DEF PlansAreFixed
<1>4. EndingIsMeant'
  <2>1. \A g \in 1..Len(gens') : gens'[g].owner # None =>
           plan[gens'[g].owner].gen = g /\ plan[gens'[g].owner].fixed
    BY DEF EndingIsMeant
  <2> QED
    BY <1>1, <2>1 DEF EndingIsMeant
<1>5. CompletedIsTrue'
  BY <1>0, <1>1, <1>2 DEF CompletedIsTrue
<1>6. KillIsConfirmed'
  BY <1>0, <1>1, <1>2 DEF KillIsConfirmed
<1> QED
  BY <1>3, <1>4, <1>5, <1>6

(* While the host is settled nothing resumes; nothing starts to as long as *)
(* the kill requests and what is gone stay as they are.                    *)
LEMMA NobodyResumes ==
  ASSUME Settled, PlansAreFixed, kills' = kills,
         \A h \in 1..Len(gens) : gens'[h].st = "gone" <=> gens[h].st = "gone"
  PROVE  ResumesAtOnce'
<1>1. \A r \in KillReqs : ~Resumable(r)
  BY DEF Settled
<1>2. ASSUME NEW r \in KillReqs, Resumable(r)'
      PROVE  FALSE
  <2>1. kills[r].st = "waiting" /\ Gone(kills[r].on)'
    BY <1>2 DEF Resumable
  <2>2. kills[r].on \in 1..Len(gens)
    BY <2>1 DEF PlansAreFixed
  <2>3. Gone(kills[r].on)
    BY <2>1, <2>2 DEF Gone
  <2> QED
    BY <1>1, <2>1, <2>3 DEF Resumable
<1> QED
  BY <1>2 DEF ResumesAtOnce

(* A step that touches neither the registry nor an operation keeps the     *)
(* invariant, if it grants no lease.                                       *)
LEMMA QuietStep ==
  ASSUME HostInv, TypeOK', NameIsHeld', UNCHANGED <<gens, registry, killState>>,
         Leased' => Leased
  PROVE  HostInv'
<1>1. Len(gens) \in Nat
  BY DEF HostInv, TypeOK
<1>2. PlansAreFixed' /\ EndingIsMeant' /\ CompletedIsTrue' /\ KillIsConfirmed'
  BY <1>1, TruthsKept DEF HostInv
<1>3. ResumesAtOnce'
  BY DEF HostInv, ResumesAtOnce, Resumable, Gone, Barrier, killState
<1>4. LeasedNameIsFree'
  BY DEF HostInv, LeasedNameIsFree, Live
<1> QED
  BY <1>2, <1>3, <1>4 DEF HostInv

(* What a kill request does with its operation o and plan p: the parts of  *)
(* the invariant that speak of operations survive, if the plan of an       *)
(* operation that had one is not changed, and the name is not retiring     *)
(* when absence is confirmed.                                              *)
LEMMA KillKeepsTruths ==
  ASSUME HostInv, NEW r \in KillReqs, NEW p \in Plan,
         kills[r].st \in {"unsent", "waiting"},
         kills[r].st = "waiting" => Resumable(r),
         p.fixed, p.gen <= Len(gens),
         plan[OpOf[r]].fixed => plan[OpOf[r]] = p,
         plan' = [plan EXCEPT ![OpOf[r]] = p],
         UNCHANGED <<gens, registry>>,
         \/ KillReplayed(r, OpOf[r], p)
         \/ KillJoins(r, OpOf[r])
         \/ KillClashes(r, OpOf[r])
         \/ KillWaits(r, OpOf[r])
         \/ ~Barrier /\ KillAbsent(r, OpOf[r], p)
         \/ ~Barrier /\ KillOther(r, OpOf[r], p)
         \/ KillExpected(r, OpOf[r], p) /\ ending = NotEnding /\ step[OpOf[r]] = "idle"
  PROVE  /\ PlansAreFixed' /\ EndingIsMeant' /\ CompletedIsTrue' /\ ResumesAtOnce'
         /\ KillIsConfirmed' /\ LeasedNameIsFree'
<1> DEFINE o == OpOf[r]
<1>0. /\ TypeOK /\ NameIsHeld /\ PlansAreFixed /\ EndingIsMeant /\ CompletedIsTrue
      /\ ResumesAtOnce /\ KillIsConfirmed /\ LeasedNameIsFree
  BY DEF HostInv
<1>1. /\ o \in Ops /\ OpOf \in [KillReqs -> Ops]
      /\ Len(gens) \in Nat /\ registry \in {0, Len(gens)}
      /\ p.gen \in 0..Len(gens)
      /\ completed \in SUBSET Ops
      /\ ending \in [op : Token, gen : Gen]
      /\ step \in [Ops -> {"idle", "signalling", "signalled"}]
      /\ \A q \in Ops : plan[q] \in Plan
  <2>1. p.gen \in Nat
    BY DEF Plan, Gen
  <2> QED
    BY <1>0, <2>1 DEF TypeOK, NameIsHeld
<1>2. /\ plan'[o] = p
      /\ \A q \in Ops : q # o => plan'[q] = plan[q]
      /\ \A q \in Ops : plan[q].fixed => plan'[q] = plan[q]
      /\ \A q \in Ops : plan'[q].gen <= Len(gens)
  BY <1>0, <1>1 DEF TypeOK, PlansAreFixed
<1>3. \A h : Gone(h)' <=> Gone(h)
  BY DEF Gone
(* The name is not retiring: whatever is not registered is gone. *)
<1>4. ASSUME ~Barrier, p.gen # 0, p.gen # registry \/ ~Live(registry)
      PROVE  Gone(p.gen)
  BY <1>0, <1>1, <1>4 DEF NameIsHeld, Barrier, Gone, Live
<1>5. o \in completed /\ p.gen # 0 => Gone(p.gen)
  BY <1>0, <1>2 DEF CompletedIsTrue, PlansAreFixed
(* Which replies the cases give. *)
<1>6. PICK st \in ReplyStates :
        /\ kills'[r].st = st
        /\ \A q \in KillReqs : q # r => kills'[q] = kills[q]
        /\ st = "waiting" => kills'[r].on = registry /\ Barrier
        /\ st = "ok" => (p.gen # 0 => Gone(p.gen))
        /\ st # "unsent"
  <2>1. CASE KillWaits(r, o)
    <3>1. kills' = [kills EXCEPT ![r] = [st |-> "waiting", on |-> registry]] /\ Barrier
      BY <2>1 DEF KillWaits
    <3> QED
      BY <1>0, <3>1 DEF TypeOK, ReplyStates
  <2>2. ASSUME NEW st \in {"joined", "ok", "refused"}, Reply(r, st),
               st = "ok" => (p.gen # 0 => Gone(p.gen))
        PROVE  /\ kills'[r].st = st
               /\ \A q \in KillReqs : q # r => kills'[q] = kills[q]
               /\ st = "waiting" => kills'[r].on = registry /\ Barrier
               /\ st = "ok" => (p.gen # 0 => Gone(p.gen))
               /\ st # "unsent" /\ st \in ReplyStates
    BY <1>0, <2>2, KillReplyTypes DEF ReplyStates
  <2>3. CASE KillReplayed(r, o, p)
    BY <1>5, <2>2, <2>3 DEF KillReplayed
  <2>4. CASE KillJoins(r, o) \/ KillClashes(r, o) \/ KillExpected(r, o, p)
    BY <2>2, <2>4 DEF KillJoins, KillClashes, KillExpected
  <2>5. CASE ~Barrier /\ KillAbsent(r, o, p)
    BY <1>4, <2>2, <2>5 DEF KillAbsent
  <2>6. CASE ~Barrier /\ KillOther(r, o, p)
    BY <1>4, <2>2, <2>6 DEF KillOther
  <2> QED
    BY <2>1, <2>3, <2>4, <2>5, <2>6
(* What they do to the operation itself. *)
<1>7. /\ completed \subseteq completed' /\ completed' \subseteq completed \union {o}
      /\ o \in completed' => (p.gen # 0 => Gone(p.gen))
  BY <1>4, <1>5 DEF KillReplayed, KillJoins, KillClashes, KillWaits, KillAbsent, KillOther,
                    KillExpected, Completes
<1>8. \/ UNCHANGED <<ending, step>>
      \/ /\ ending = NotEnding /\ step[o] = "idle"
         /\ p.gen = registry /\ registry # 0
         /\ ending' = [op |-> o, gen |-> registry]
         /\ step' = [step EXCEPT ![o] = "signalling"]
  BY DEF KillReplayed, KillJoins, KillClashes, KillWaits, KillAbsent, KillOther, KillExpected, Live
<1>9. UNCHANGED <<lease, grace>> \/ ~Live(registry)
  BY DEF KillReplayed, KillJoins, KillClashes, KillWaits, KillAbsent, KillOther, KillExpected
<1>10. PlansAreFixed'
  <2>1. \A q \in Ops : q \in completed' \/ step'[q] # "idle" => plan'[q].fixed
    BY <1>0, <1>1, <1>2, <1>7, <1>8 DEF PlansAreFixed
  <2>2. \A q \in KillReqs : kills'[q].st # "unsent" => plan'[OpOf[q]].fixed
    BY <1>0, <1>1, <1>2, <1>6 DEF PlansAreFixed
  <2>3. \A q \in KillReqs : kills'[q].st = "waiting" =>
           plan'[OpOf[q]].gen <= kills'[q].on /\ kills'[q].on \in 1..Len(gens)
    <3>1. CASE kills'[r].st = "waiting"
      <4>1. kills'[r].on = registry /\ registry # 0
        BY <1>6, <3>1 DEF Barrier
      <4>2. \A q \in KillReqs : q # r /\ kills[q].st = "waiting" => plan'[OpOf[q]] = plan[OpOf[q]]
        BY <1>0, <1>1, <1>2 DEF PlansAreFixed
      <4> QED
        BY <1>0, <1>1, <1>2, <1>6, <4>1, <4>2 DEF PlansAreFixed
    <3>2. CASE kills'[r].st # "waiting"
      <4>1. \A q \in KillReqs : q # r /\ kills[q].st = "waiting" => plan'[OpOf[q]] = plan[OpOf[q]]
        BY <1>0, <1>1, <1>2 DEF PlansAreFixed
      <4> QED
        BY <1>0, <1>1, <1>2, <1>6, <3>2, <4>1 DEF PlansAreFixed
    <3> QED
      BY <3>1, <3>2
  <2> QED
    BY <1>2, <2>1, <2>2, <2>3 DEF PlansAreFixed
<1>11. EndingIsMeant'
  <2>1. \A g \in 1..Len(gens) : gens[g].owner # None =>
           plan'[gens[g].owner].gen = g /\ plan'[gens[g].owner].fixed
    <3>1. \A g \in 1..Len(gens) : gens[g] \in Generation
      BY <1>0 DEF TypeOK
    <3>2. \A g \in 1..Len(gens) : gens[g].owner \in Token
      BY <3>1 DEF Generation
    <3> QED
      BY <1>0, <1>2, <3>2 DEF EndingIsMeant, Token
  <2>2. CASE UNCHANGED <<ending, step>>
    <3>1. ending.op \in Token
      BY <1>1
    <3> QED
      BY <1>0, <1>2, <2>1, <2>2, <3>1 DEF EndingIsMeant, Token
  <2>3. CASE /\ ending = NotEnding /\ step[o] = "idle"
             /\ p.gen = registry /\ registry # 0
             /\ ending' = [op |-> o, gen |-> registry]
             /\ step' = [step EXCEPT ![o] = "signalling"]
    <3>1. ending.op = None
      BY <2>3 DEF NotEnding
    <3>2. \A q \in Ops : step'[q] # "idle" <=> q = o
      BY <1>0, <1>1, <2>3, <3>1 DEF EndingIsMeant
    <3>3. ending'.op = o /\ ending'.gen = p.gen /\ o # None
      BY <1>1, <2>3
    <3> QED
      BY <1>1, <1>2, <2>1, <3>2, <3>3 DEF EndingIsMeant
  <2> QED
    BY <1>8, <2>2, <2>3
<1>12. CompletedIsTrue'
  BY <1>0, <1>1, <1>2, <1>3, <1>7 DEF CompletedIsTrue, PlansAreFixed
<1>13. ResumesAtOnce'
  <2>1. ASSUME NEW q \in KillReqs, Resumable(q)'
        PROVE  ~Barrier
    <3>1. CASE q = r
      <4>1. Barrier /\ Gone(registry)
        BY <1>3, <1>6, <2>1, <3>1 DEF Resumable
      <4> QED
        BY <1>0, <1>1, <4>1 DEF NameIsHeld, Gone
    <3>2. CASE q # r
      BY <1>0, <1>3, <1>6, <2>1, <3>2 DEF Resumable, ResumesAtOnce
    <3> QED
      BY <3>1, <3>2
  <2> QED
    BY <2>1 DEF ResumesAtOnce, Barrier
<1>14. KillIsConfirmed'
  <2>1. ASSUME NEW q \in KillReqs, kills'[q].st = "ok", plan'[OpOf[q]].gen # 0
        PROVE  Gone(plan'[OpOf[q]].gen)
    <3>1. CASE q = r
      BY <1>2, <1>6, <2>1, <3>1
    <3>2. CASE q # r
      <4>1. kills[q].st = "ok" /\ plan'[OpOf[q]] = plan[OpOf[q]]
        BY <1>0, <1>1, <1>2, <1>6, <2>1, <3>2 DEF PlansAreFixed
      <4> QED
        BY <1>0, <2>1, <4>1 DEF KillIsConfirmed
    <3> QED
      BY <3>1, <3>2
  <2> QED
    BY <1>3, <2>1 DEF KillIsConfirmed
<1>15. LeasedNameIsFree'
  BY <1>0, <1>9 DEF LeasedNameIsFree, Leased, Live
<1> QED
  BY <1>10, <1>11, <1>12, <1>13, <1>14, <1>15

(* Every kill request, on arrival or resumed, keeps the invariant. *)
LEMMA KillStepKeeps ==
  ASSUME HostInv, TypeOK', NameIsHeld', NEW r \in KillReqs, KillStep(r)
  PROVE  HostInv'
<1> DEFINE o == OpOf[r]
<1>0. /\ TypeOK /\ PlansAreFixed /\ NameIsHeld /\ ResumesAtOnce
      /\ o \in Ops /\ plan[o] \in Plan /\ plan[o].gen <= Len(gens)
  BY DEF HostInv, TypeOK, PlansAreFixed
<1>1. CASE KillArrives(r)
  <2>1. PICK p \in IF plan[o].fixed THEN {plan[o]}
                    ELSE [gen : 0..Len(gens), reserve : BOOLEAN, fixed : {TRUE}] :
             /\ plan' = [plan EXCEPT ![o] = p]
             /\ \/ KillReplayed(r, o, p)
                \/ KillJoins(r, o)
                \/ KillClashes(r, o)
                \/ KillWaits(r, o)
                \/ /\ ending = NotEnding /\ step[o] = "idle" /\ ~Barrier
                   /\ KillDecides(r, o, p)
    BY <1>1 DEF KillArrives
  <2>2. p \in Plan /\ p.fixed /\ p.gen <= Len(gens) /\ (plan[o].fixed => plan[o] = p)
    <3>1. CASE plan[o].fixed
      BY <1>0, <2>1, <3>1
    <3>2. CASE ~plan[o].fixed
      <4>1. p \in [gen : 0..Len(gens), reserve : BOOLEAN, fixed : {TRUE}]
        BY <2>1, <3>2
      <4>2. Len(gens) \in Nat /\ Len(gens) <= MaxGens
        BY <1>0 DEF TypeOK
      <4>3. 0..Len(gens) \subseteq Gen
        BY <4>2 DEF Gen
      <4>4. p \in Plan
        BY <4>1, <4>3 DEF Plan
      <4>5. p.fixed \in {TRUE} /\ p.gen \in 0..Len(gens)
        BY <4>1, Zenon
      <4>6. p.fixed
        BY <4>5, Zenon
      <4>7. p.gen <= Len(gens)
        BY <4>2, <4>5
      <4> QED
        BY <3>2, <4>4, <4>6, <4>7
    <3> QED
      BY <3>1, <3>2
  <2>3. kills[r].st = "unsent" /\ UNCHANGED <<gens, registry>>
    BY <1>1 DEF KillArrives
  <2> QED
    BY <2>1, <2>2, <2>3, KillKeepsTruths DEF KillDecides, HostInv
<1>2. CASE KillResumes(r)
  <2>1. /\ Resumable(r) /\ KillDecides(r, o, plan[o])
        /\ UNCHANGED <<gens, registry, plan>>
    BY <1>2 DEF KillResumes
  <2>2. kills[r].st = "waiting" /\ Gone(kills[r].on) /\ ~Barrier /\ plan[o].fixed
    BY <1>0, <2>1 DEF Resumable, ResumesAtOnce, PlansAreFixed
  <2>3. plan' = [plan EXCEPT ![o] = plan[o]]
    BY <1>0, <2>1 DEF TypeOK
  (* What it expected had gone before, or never was. *)
  <2>4. ~KillExpected(r, o, plan[o])
    <3>1. plan[o].gen <= kills[r].on /\ kills[r].on \in 1..Len(gens)
      BY <1>0, <2>2 DEF PlansAreFixed
    <3>2. registry # kills[r].on
      BY <1>0, <2>2, <3>1 DEF NameIsHeld, Gone
    <3>3. plan[o].gen \in Nat
      BY <1>0 DEF Plan, Gen
    <3>4. registry \in {0, Len(gens)} /\ Len(gens) \in Nat
      BY <1>0 DEF NameIsHeld, TypeOK
    <3>5. ~(registry # 0 /\ plan[o].gen = registry)
      BY <3>1, <3>2, <3>3, <3>4
    <3> QED
      BY <3>5 DEF KillExpected, Live
  <2> QED
    BY <1>0, <2>1, <2>2, <2>3, <2>4, KillKeepsTruths DEF KillDecides, HostInv
<1> QED
  BY <1>1, <1>2 DEF KillStep

(* A signal, from an operation or for an abandoned spawn, keeps it too. *)
LEMMA RetireKeeps ==
  ASSUME HostInv, TypeOK', NameIsHeld', Settled, NEW g, Retire(g),
         UNCHANGED <<registry, ending, plan, completed, kills, lease>>,
         \A o \in Ops : step'[o] # "idle" <=> step[o] # "idle"
  PROVE  HostInv'
<1>0. /\ TypeOK /\ PlansAreFixed /\ EndingIsMeant /\ CompletedIsTrue /\ KillIsConfirmed
      /\ NameIsHeld /\ LeasedNameIsFree
      /\ Len(gens) \in Nat /\ registry \in {0, Len(gens)}
  <2>1. /\ TypeOK /\ PlansAreFixed /\ EndingIsMeant /\ CompletedIsTrue /\ KillIsConfirmed
        /\ NameIsHeld /\ LeasedNameIsFree
    BY DEF HostInv
  <2>2. Len(gens) \in Nat
    BY <2>1 DEF TypeOK
  <2>3. registry \in {0, Len(gens)}
    BY <2>1 DEF NameIsHeld
  <2> QED
    BY <2>1, <2>2, <2>3
<1>1. /\ Len(gens') = Len(gens)
      /\ \A h \in 1..Len(gens) :
           /\ gens'[h].owner = gens[h].owner
           /\ gens'[h].st = IF h = g /\ gens[h].st = "live" THEN "retiring" ELSE gens[h].st
  BY <1>0, RetireTypes
<1>2. \A h \in 0..Len(gens) : (Gone(h)' <=> Gone(h)) /\ (Live(h)' <=> Live(h))
  BY <1>1 DEF Gone, Live
<1>3. PlansAreFixed'
  BY <1>0, <1>1 DEF PlansAreFixed
<1>4. EndingIsMeant'
  BY <1>0, <1>1 DEF EndingIsMeant
<1>5. \A o \in Ops : plan[o].gen \in 0..Len(gens)
  <2>1. \A o \in Ops : plan[o] \in Plan
    BY <1>0 DEF TypeOK
  <2>2. \A o \in Ops : plan[o].gen \in Nat
    BY <2>1 DEF Plan, Gen
  <2> QED
    BY <1>0, <2>2 DEF PlansAreFixed
<1>6. CompletedIsTrue' /\ KillIsConfirmed'
  BY <1>0, <1>2, <1>5 DEF CompletedIsTrue, KillIsConfirmed, TypeOK
<1>7. ResumesAtOnce'
  BY <1>0, <1>1, NobodyResumes
<1>8. LeasedNameIsFree'
  BY <1>0, <1>2 DEF LeasedNameIsFree, Leased
<1> QED
  BY <1>3, <1>4, <1>6, <1>7, <1>8 DEF HostInv

(* The publication of an end makes true what its owner, and the kills that *)
(* joined it, will say: the generation they meant is gone.                 *)
LEMMA PublishKeeps ==
  ASSUME HostInv, TypeOK', NameIsHeld', NEW g \in 1..Len(gens), Publish(g)
  PROVE  HostInv'
<1> DEFINE o == gens[g].owner
<1>0. /\ TypeOK /\ PlansAreFixed /\ EndingIsMeant /\ CompletedIsTrue /\ KillIsConfirmed
      /\ NameIsHeld
      /\ Len(gens) \in Nat /\ OpOf \in [KillReqs -> Ops] /\ completed \in SUBSET Ops
      /\ step \in [Ops -> {"idle", "signalling", "signalled"}]
  BY DEF HostInv, TypeOK
<1>1. gens[g] \in Generation
  BY <1>0 DEF TypeOK
<1>2. o \in Token /\ (o # None => plan[o].gen = g /\ plan[o].fixed)
  BY <1>0, <1>1 DEF Generation, EndingIsMeant
<1>3. registry = g /\ registry' = 0
  BY <1>0 DEF Publish, NameIsHeld
<1>4. /\ Len(gens') = Len(gens)
      /\ \A h \in 1..Len(gens) :
           /\ gens'[h].owner = gens[h].owner
           /\ gens'[h].st = IF h = g THEN "gone" ELSE gens[h].st
  BY <1>0, PublishEffect
<1>5. Gone(g)' /\ \A h \in 1..Len(gens) : Gone(h) => Gone(h)'
  BY <1>4 DEF Gone
<1>6. \A q \in Ops : plan[q].gen \in 0..Len(gens)
  <2>1. \A q \in Ops : plan[q] \in Plan
    BY <1>0 DEF TypeOK
  <2>2. \A q \in Ops : plan[q].gen \in Nat
    BY <2>1 DEF Plan, Gen
  <2> QED
    BY <1>0, <2>2 DEF PlansAreFixed
<1>7. /\ plan' = plan
      /\ completed' = completed \union ({o} \ {None})
      /\ step' = [q \in Ops |-> IF q = o THEN "idle" ELSE step[q]]
      /\ ending' = IF ending.op = o THEN NotEnding ELSE ending
  BY DEF Publish
<1>8. \A r \in KillReqs :
        \/ kills'[r] = kills[r]
        \/ /\ OpOf[r] = o /\ kills[r].st = "joined"
           /\ kills'[r].st = "ok"
  <2>1. ASSUME NEW r \in KillReqs
        PROVE  [kills[r] EXCEPT !.st = "ok"].st = "ok"
    <3>1. kills[r] \in KillRequest
      BY <1>0 DEF TypeOK
    <3> QED
      BY <3>1 DEF KillRequest
  <2>2. kills' = [r \in KillReqs |-> IF OpOf[r] = o /\ kills[r].st = "joined"
                                     THEN [kills[r] EXCEPT !.st = "ok"] ELSE kills[r]]
    BY DEF Publish
  <2> QED
    BY <2>1, <2>2
<1>9. PlansAreFixed'
  <2>1. \A q \in Ops : q \in completed' \/ step'[q] # "idle" => plan[q].fixed
    BY <1>0, <1>2, <1>7 DEF PlansAreFixed
  <2>2. \A r \in KillReqs :
          /\ kills'[r].st # "unsent" => plan[OpOf[r]].fixed
          /\ kills'[r].st = "waiting" =>
               plan[OpOf[r]].gen <= kills'[r].on /\ kills'[r].on \in 1..Len(gens)
    BY <1>0, <1>8 DEF PlansAreFixed
  <2> QED
    BY <1>0, <1>4, <1>7, <2>1, <2>2 DEF PlansAreFixed
<1>10. EndingIsMeant'
  <2>1. \A h \in 1..Len(gens') : gens'[h].owner # None =>
           plan[gens'[h].owner].gen = h /\ plan[gens'[h].owner].fixed
    BY <1>0, <1>4 DEF EndingIsMeant
  <2>2. CASE ending.op = o
    <3>1. \A q \in Ops : step'[q] = "idle"
      BY <1>0, <1>7, <2>2 DEF EndingIsMeant
    <3>2. ending' = NotEnding
      BY <1>7, <2>2
    <3> QED
      BY <1>7, <2>1, <3>1, <3>2 DEF EndingIsMeant, NotEnding
  <2>3. CASE ending.op # o
    <3>1. \A q \in Ops : step'[q] # "idle" <=> ending.op = q
      BY <1>0, <1>7, <2>3 DEF EndingIsMeant
    <3>2. ending' = ending
      BY <1>7, <2>3
    <3> QED
      BY <1>0, <1>7, <2>1, <3>1, <3>2 DEF EndingIsMeant
  <2> QED
    BY <2>2, <2>3
<1>11. CompletedIsTrue'
  BY <1>0, <1>2, <1>5, <1>6, <1>7 DEF CompletedIsTrue
<1>12. KillIsConfirmed'
  <2>1. ASSUME NEW r \in KillReqs, kills'[r].st = "ok", plan[OpOf[r]].gen # 0
        PROVE  Gone(plan[OpOf[r]].gen)'
    <3>1. CASE kills'[r] = kills[r]
      BY <1>0, <1>5, <1>6, <1>7, <2>1, <3>1 DEF KillIsConfirmed
    <3>2. CASE OpOf[r] = o
      BY <1>0, <1>2, <1>5, <1>7, <3>2
    <3> QED
      BY <1>8, <3>1, <3>2
  <2> QED
    BY <1>7, <2>1 DEF KillIsConfirmed
<1>13. ResumesAtOnce' /\ LeasedNameIsFree'
  BY <1>3 DEF ResumesAtOnce, Barrier, LeasedNameIsFree, Live
<1> QED
  BY <1>9, <1>10, <1>11, <1>12, <1>13 DEF HostInv

(* A fresh generation uses up the lease, and nothing has ended it yet. *)
LEMMA TurnColdKeeps ==
  ASSUME HostInv, TypeOK', NameIsHeld', NEW a \in Attaches, TurnCold(a)
  PROVE  HostInv'
<1>0. /\ TypeOK /\ PlansAreFixed /\ EndingIsMeant /\ CompletedIsTrue /\ KillIsConfirmed
      /\ Len(gens) \in Nat
  BY DEF HostInv, TypeOK
<1>1. /\ Len(gens') = Len(gens) + 1 /\ registry' = Len(gens')
      /\ gens'[Len(gens')].st = "live" /\ gens'[Len(gens')].owner = None
      /\ \A h \in 1..Len(gens) : gens'[h] = gens[h]
  BY <1>0, TurnColdEffect
<1>2. UNCHANGED killState /\ lease' = NoLease
  BY DEF TurnCold
<1>3. \A h \in 1..Len(gens') : h \notin 1..Len(gens) => gens'[h].owner = None
  BY <1>0, <1>1
<1>4. Len(gens') \in Nat /\ Len(gens) <= Len(gens')
  BY <1>0, <1>1
<1>5. PlansAreFixed' /\ EndingIsMeant' /\ CompletedIsTrue' /\ KillIsConfirmed'
  BY <1>0, <1>1, <1>2, <1>3, <1>4, TruthsKept
<1>6. ResumesAtOnce' /\ LeasedNameIsFree'
  BY <1>1, <1>2 DEF ResumesAtOnce, Barrier, LeasedNameIsFree, Leased, NoLease
<1> QED
  BY <1>5, <1>6 DEF HostInv

(* A process that dies leaves the name, and the truths, as they are; only  *)
(* the operation that ends this very generation becomes its owner.         *)
LEMMA ProcessExitsKeeps ==
  ASSUME HostInv, TypeOK', NameIsHeld', NEW g \in 1..Len(gens), ProcessExits(g)
  PROVE  HostInv'
<1>0. /\ TypeOK /\ PlansAreFixed /\ EndingIsMeant /\ CompletedIsTrue /\ KillIsConfirmed
      /\ NameIsHeld /\ LeasedNameIsFree
      /\ Len(gens) \in Nat /\ registry \in {0, Len(gens)}
  <2>1. /\ TypeOK /\ PlansAreFixed /\ EndingIsMeant /\ CompletedIsTrue /\ KillIsConfirmed
        /\ NameIsHeld /\ LeasedNameIsFree
    BY DEF HostInv
  <2>2. Len(gens) \in Nat
    BY <2>1 DEF TypeOK
  <2>3. registry \in {0, Len(gens)}
    BY <2>1 DEF NameIsHeld
  <2> QED
    BY <2>1, <2>2, <2>3
<1>1. /\ Len(gens') = Len(gens)
      /\ \A h \in 1..Len(gens) :
           /\ gens'[h].st = IF h = g THEN "exited" ELSE gens[h].st
           /\ gens'[h].owner = IF h # g THEN gens[h].owner
                               ELSE IF ending.gen = g THEN ending.op ELSE None
  BY <1>0, ProcessExitsEffect
<1>2. Live(g) /\ Settled /\ UNCHANGED <<registry, ending, plan, step, completed, kills, lease>>
  BY DEF ProcessExits, killState, clocks
<1>3. \A h \in 0..Len(gens) : (Gone(h)' <=> Gone(h)) /\ (Live(h)' => Live(h))
  BY <1>1, <1>2 DEF Gone, Live
<1>4. \A q \in Ops : plan[q].gen \in 0..Len(gens)
  <2>1. \A q \in Ops : plan[q] \in Plan
    BY <1>0 DEF TypeOK
  <2>2. \A q \in Ops : plan[q].gen \in Nat
    BY <2>1 DEF Plan, Gen
  <2> QED
    BY <1>0, <2>2 DEF PlansAreFixed
<1>5. PlansAreFixed'
  BY <1>0, <1>1, <1>2 DEF PlansAreFixed
<1>6. EndingIsMeant'
  BY <1>0, <1>1, <1>2 DEF EndingIsMeant
<1>7. CompletedIsTrue' /\ KillIsConfirmed'
  BY <1>0, <1>2, <1>3, <1>4 DEF CompletedIsTrue, KillIsConfirmed, TypeOK
<1>8. ResumesAtOnce'
  BY <1>0, <1>1, <1>2, NobodyResumes DEF Live
<1>9. LeasedNameIsFree'
  BY <1>0, <1>2, <1>3 DEF LeasedNameIsFree, Leased
<1> QED
  BY <1>5, <1>6, <1>7, <1>8, <1>9 DEF HostInv

(* A failed termination ends its operation, a forgotten one was complete.  *)
LEMMA OperationEnds ==
  ASSUME HostInv, TypeOK', NameIsHeld', NEW o \in Ops, TerminationFails(o) \/ Forget(o)
  PROVE  HostInv'
<1>0. /\ TypeOK /\ PlansAreFixed /\ EndingIsMeant /\ CompletedIsTrue /\ KillIsConfirmed
      /\ ResumesAtOnce /\ LeasedNameIsFree
      /\ step \in [Ops -> {"idle", "signalling", "signalled"}]
      /\ completed \in SUBSET Ops
  BY DEF HostInv, TypeOK
<1>1. /\ UNCHANGED <<gens, registry, plan, lease>>
      /\ completed' \subseteq completed
      /\ \A q \in Ops : step'[q] # "idle" => step[q] # "idle"
  BY <1>0 DEF TerminationFails, Forget, clocks
<1>2. \/ UNCHANGED <<ending, step>>
      \/ ending' = NotEnding /\ step[o] # "idle" /\ step' = [step EXCEPT ![o] = "idle"]
  BY DEF TerminationFails, Forget
<1>3. \A r \in KillReqs : kills'[r] = kills[r] \/ (kills[r].st = "joined" /\ kills'[r].st = "refused")
  <2>1. CASE Forget(o)
    BY <2>1 DEF Forget
  <2>2. CASE TerminationFails(o)
    <3>1. ASSUME NEW r \in KillReqs
          PROVE  [kills[r] EXCEPT !.st = "refused"].st = "refused"
      <4>1. kills[r] \in KillRequest
        BY <1>0 DEF TypeOK
      <4> QED
        BY <4>1 DEF KillRequest
    <3>2. kills' = [r \in KillReqs |-> IF OpOf[r] = o /\ kills[r].st = "joined"
                                       THEN [kills[r] EXCEPT !.st = "refused"] ELSE kills[r]]
      BY <2>2 DEF TerminationFails
    <3> QED
      BY <3>1, <3>2
  <2> QED
    BY <2>1, <2>2
<1>4. PlansAreFixed'
  <2>1. \A r \in KillReqs :
          /\ kills'[r].st # "unsent" => plan[OpOf[r]].fixed
          /\ kills'[r].st = "waiting" =>
               plan[OpOf[r]].gen <= kills'[r].on /\ kills'[r].on \in 1..Len(gens)
    BY <1>0, <1>3 DEF PlansAreFixed
  <2> QED
    BY <1>0, <1>1, <2>1 DEF PlansAreFixed
<1>5. EndingIsMeant'
  <2>1. CASE UNCHANGED <<ending, step>>
    BY <1>0, <1>1, <2>1 DEF EndingIsMeant
  <2>2. CASE ending' = NotEnding /\ step[o] # "idle" /\ step' = [step EXCEPT ![o] = "idle"]
    <3>1. \A q \in Ops : step'[q] = "idle"
      BY <1>0, <2>2 DEF EndingIsMeant
    <3> QED
      BY <1>0, <1>1, <2>2, <3>1 DEF EndingIsMeant, NotEnding
  <2> QED
    BY <1>2, <2>1, <2>2
<1>6. CompletedIsTrue'
  BY <1>0, <1>1 DEF CompletedIsTrue, Gone
<1>7. KillIsConfirmed'
  <2>1. \A r \in KillReqs : kills'[r].st = "ok" => kills[r].st = "ok"
    BY <1>3
  <2> QED
    BY <1>0, <1>1, <2>1 DEF KillIsConfirmed, Gone
<1>8. ResumesAtOnce'
  <2>1. \A r \in KillReqs : Resumable(r)' => Resumable(r)
    BY <1>1, <1>3 DEF Resumable, Gone
  <2> QED
    BY <1>0, <1>1, <2>1 DEF ResumesAtOnce, Barrier
<1>9. LeasedNameIsFree'
  BY <1>0, <1>1 DEF LeasedNameIsFree, Leased, Live
<1> QED
  BY <1>4, <1>5, <1>6, <1>7, <1>8, <1>9 DEF HostInv

(* HostInv is inductive. *)
LEMMA HostInvStep == HostInv /\ [Next]_vars => HostInv'
<1> SUFFICES ASSUME HostInv, [Next]_vars PROVE HostInv'
  OBVIOUS
<1>0. TypeOK /\ TypeOK' /\ NameIsHeld'
  BY TypeStep, NameIsHeldStep DEF HostInv
<1>1. ASSUME NEW r \in KillReqs, KillStep(r)
      PROVE  HostInv'
  BY <1>0, <1>1, KillStepKeeps
<1>2. ASSUME NEW o \in Ops, Terminates(o)
      PROVE  HostInv'
  <2>1. \A q \in Ops : step'[q] # "idle" <=> step[q] # "idle"
    BY <1>0, <1>2 DEF Terminates, TypeOK
  <2> QED
    BY <1>0, <1>2, <2>1, RetireKeeps DEF Terminates, clocks
<1>3. ASSUME NEW o \in Ops, TerminationFails(o) \/ Forget(o)
      PROVE  HostInv'
  BY <1>0, <1>3, OperationEnds
<1>4. ASSUME NEW g \in 1..Len(gens), ProcessExits(g)
      PROVE  HostInv'
  BY <1>0, <1>4, ProcessExitsKeeps
<1>5. ASSUME NEW g \in 1..Len(gens), Publish(g)
      PROVE  HostInv'
  BY <1>0, <1>5, PublishKeeps
<1>6. ASSUME NEW a \in Attaches, TurnCold(a)
      PROVE  HostInv'
  BY <1>0, <1>6, TurnColdKeeps
<1>7. ASSUME NEW a \in Attaches, ColdReady(a)
      PROVE  HostInv'
  <2>1. Settled /\ UNCHANGED <<registry, killState, clocks>>
    BY <1>7 DEF ColdReady
  <2>2. CASE UNCHANGED gens
    BY <1>0, <2>1, <2>2, QuietStep DEF clocks, Leased
  <2>3. CASE Retire(attaches[a].on)
    BY <1>0, <2>1, <2>3, RetireKeeps DEF killState, clocks
  <2> QED
    BY <1>7, <2>2, <2>3 DEF ColdReady
<1>8. ASSUME NEW a \in Attaches,
             AttachArrives(a) \/ TurnRefused(a) \/ TurnWarm(a) \/ SpawnFails(a) \/
             WarmReady(a) \/ ColdAbandoned(a) \/ Close(a)
      PROVE  HostInv'
  <2>1. UNCHANGED <<gens, registry, killState>>
    BY <1>8 DEF AttachArrives, TurnRefused, TurnWarm, SpawnFails, WarmReady, ColdAbandoned, Close
  <2>2. lease' = lease \/ lease' = NoLease
    BY <1>8 DEF AttachArrives, TurnRefused, TurnWarm, SpawnFails, WarmReady, ColdAbandoned, Close,
                clocks
  <2> QED
    BY <1>0, <2>1, <2>2, QuietStep DEF Leased, NoLease
<1>9. CASE Tick
  <2>1. Leased' => Leased
    <3>1. lease \in [token : Token, left : 0..Window]
      BY <1>0 DEF TypeOK
    <3> QED
      BY <1>9, <3>1 DEF Tick, Leased
  <2> QED
    BY <1>0, <1>9, <2>1, QuietStep DEF Tick
<1>10. CASE GraceFires
  BY <1>0, <1>10, QuietStep DEF GraceFires, Leased
<1>11. CASE UNCHANGED vars
  BY <1>0, <1>11, QuietStep DEF vars, clocks, Leased
<1> QED
  BY <1>1, <1>2, <1>3, <1>4, <1>5, <1>6, <1>7, <1>8, <1>9, <1>10, <1>11 DEF Next, AttachStep

(* A host that has just begun to listen satisfies it. *)
LEMMA HostInvInit == Init => HostInv
<1> SUFFICES ASSUME Init PROVE HostInv
  OBVIOUS
<1>1. TypeOK
  BY TypeInit
<1>2. NameIsHeld /\ PlansAreFixed /\ ResumesAtOnce
  BY DEF Init, NameIsHeld, PlansAreFixed, ResumesAtOnce, Resumable, NoPlan
<1>3. EndingIsMeant /\ CompletedIsTrue /\ KillIsConfirmed
  BY DEF Init, EndingIsMeant, CompletedIsTrue, KillIsConfirmed, NotEnding
<1>4. LeasedNameIsFree
  BY DEF Init, LeasedNameIsFree, Leased, NoLease
<1> QED
  BY <1>1, <1>2, <1>3, <1>4 DEF HostInv

(* The registry, the operations and what has been said of them agree in    *)
(* every reachable state of the host.                                      *)
THEOREM HostInvariant == Spec => []HostInv
BY HostInvInit, HostInvStep, PTL DEF Spec

-----------------------------------------------------------------------------
(* 4. What follows from it. *)

(* An acknowledged kill is true: whatever was retried, joined, forgotten,  *)
(* clashed with another operation or replaced meanwhile, the generation    *)
(* that operation named has died and its exit has been published (host.ts, *)
(* handleKill and publishSessionEnd).                                      *)
THEOREM AcknowledgedKillsAreTrue == Spec => []KillIsConfirmed
<1>1. HostInv => KillIsConfirmed
  BY DEF HostInv
<1> QED
  BY <1>1, HostInvariant, PTL

(* A replacement lease and a running process exclude each other (host.ts,  *)
(* setReplacementReservation and handleAttach).                            *)
THEOREM LeaseExcludesUse == Spec => []LeasedNameIsFree
<1>1. HostInv => LeasedNameIsFree
  BY DEF HostInv
<1> QED
  BY <1>1, HostInvariant, PTL

(* No step signals a generation that an operation in progress does not     *)
(* mean, or that was not spawned for a client who has gone since.          *)
THEOREM SignalsHitTheirTarget == Spec => KillHitsItsTarget
<1> DEFINE Meant(g) == \/ \E o \in Ops : step[o] = "signalling" /\ plan[o].gen = g
                       \/ \E a \in Attaches : HoldsTurn(a, "cold") /\ attaches[a].closed
                                                /\ attaches[a].on = g
           Hits == \A g \in 1..Len(gens) :
                     gens[g].st = "live" /\ gens'[g].st = "retiring" => Meant(g)
<1>1. ASSUME HostInv, [Next]_vars
      PROVE  Hits
  <2>0. TypeOK /\ NameIsHeld /\ EndingIsMeant
    BY <1>1 DEF HostInv
  <2>1. SUFFICES ASSUME NEW g \in 1..Len(gens), gens[g].st = "live", gens'[g].st = "retiring"
                 PROVE  Meant(g)
    OBVIOUS
  <2>2. CASE UNCHANGED <<gens, registry>>
    BY <2>1, <2>2
  <2>3. ASSUME NEW o \in Ops, Terminates(o)
        PROVE  Meant(g)
    <3>1. step[o] = "signalling" /\ Retire(ending.gen)
      BY <2>3 DEF Terminates
    <3>2. g = ending.gen
      BY <2>0, <2>1, <3>1, RetireTypes
    <3>3. ending.op = o /\ o # None
      BY <2>0, <3>1 DEF EndingIsMeant
    <3> QED
      BY <2>0, <3>1, <3>2, <3>3 DEF EndingIsMeant
  <2>4. ASSUME NEW h \in 1..Len(gens), ProcessExits(h) \/ Publish(h)
        PROVE  Meant(g)
    BY <2>0, <2>1, <2>4, ProcessExitsEffect, PublishEffect
  <2>5. ASSUME NEW a \in Attaches, TurnCold(a)
        PROVE  Meant(g)
    BY <2>0, <2>1, <2>5, TurnColdEffect
  <2>6. ASSUME NEW a \in Attaches, ColdReady(a)
        PROVE  Meant(g)
    <3>1. ~UNCHANGED gens
      BY <2>1
    <3>2. /\ HoldsTurn(a, "cold") /\ Retire(attaches[a].on)
          /\ ~(~attaches[a].closed /\ Live(attaches[a].on) /\ registry = attaches[a].on)
      BY <2>6, <3>1 DEF ColdReady
    <3>3. g = attaches[a].on
      BY <2>0, <2>1, <3>2, RetireTypes
    <3>4. Live(attaches[a].on) /\ registry = attaches[a].on
      BY <2>0, <2>1, <3>3 DEF Live, NameIsHeld
    <3> QED
      BY <3>2, <3>3, <3>4
  <2> QED
    BY <1>1, <2>2, <2>3, <2>4, <2>5, <2>6, RegistryStep
<1>2. HostInv /\ [Next]_vars => [Hits]_vars
  BY <1>1
<1>3. Spec => [][Hits]_vars
  BY <1>2, HostInvariant, PTL DEF Spec
<1> QED
  BY <1>3 DEF KillHitsItsTarget

-----------------------------------------------------------------------------
(* 5. The attaches, and how long the host lives: the invariant. *)

(* What is true of one attach request on its way: what it asks for is one  *)
(* of the two forms, and from its turn on it is on a generation that fits. *)
AskedFor(a) ==
  /\ attaches[a].phase = "unsent" => attaches[a] = Unasked
  /\ attaches[a].create => attaches[a].expected = 0
  /\ ~attaches[a].create => attaches[a].token = None

OnIt(a) ==
  /\ attaches[a].phase \in {"warm", "cold", "failing", "answered"} =>
       attaches[a].on \in 1..Len(gens)
  /\ attaches[a].phase \in {"warm", "cold", "answered"} =>
       /\ attaches[a].token \in {None, gens[attaches[a].on].by}
       /\ attaches[a].expected \in {0, attaches[a].on}

ToldIfGone(a) ==
  attaches[a].phase = "answered" /\ ~attaches[a].closed /\ Gone(attaches[a].on) =>
    attaches[a].told

AttachInv == \A a \in Attaches : AskedFor(a) /\ OnIt(a) /\ ToldIfGone(a)

(* The operation that is ending the name is ending the generation that     *)
(* holds it, and owns its end once the process has died.                   *)
EndingHolds ==
  ending.op # None =>
    /\ registry # 0 /\ ending.gen = registry
    /\ gens[registry].st = "exited" => gens[registry].owner = ending.op

(* A host without a session has its timer set, and not for less than what  *)
(* is left of a lease.                                                     *)
TimerIsSet == up /\ registry = 0 => grace # Off

LeaseWithinGrace == lease.left <= grace

LifeInv == HostInv /\ AttachInv /\ EndingHolds /\ TimerIsSet /\ LeaseWithinGrace

-----------------------------------------------------------------------------
(* 6. What happens to a generation. *)

(* A signal leaves the token alone. *)
LEMMA RetireKeepsToken ==
  ASSUME TypeOK, NEW g, Retire(g), NEW h \in 1..Len(gens)
  PROVE  gens'[h].by = gens[h].by
<1>1. gens \in Seq(Generation) /\ gens[h] \in Generation
  BY DEF TypeOK
<1>2. \/ gens'[h] = gens[h]
      \/ gens'[h] = [gens[h] EXCEPT !.st = IF @ = "live" THEN "retiring" ELSE @]
  BY <1>1 DEF Retire
<1> QED
  BY <1>1, <1>2 DEF Generation

(* A generation keeps the token it was spawned for, and only a publication *)
(* makes it gone.                                                          *)
LEMMA GenerationsStay ==
  ASSUME TypeOK, [Next]_vars, NEW h \in 1..Len(gens)
  PROVE  /\ h \in 1..Len(gens') /\ gens'[h].by = gens[h].by
         /\ Gone(h)' => Gone(h) \/ Publish(h)
<1>0. gens \in Seq(Generation) /\ gens[h] \in Generation /\ Len(gens) \in Nat
  BY DEF TypeOK
<1>1. CASE UNCHANGED gens
  BY <1>1 DEF Gone
<1>2. ASSUME NEW g, Retire(g)
      PROVE  /\ h \in 1..Len(gens') /\ gens'[h].by = gens[h].by
             /\ Gone(h)' => Gone(h)
  BY <1>2, RetireTypes, RetireKeepsToken DEF Gone
<1>3. ASSUME NEW g \in 1..Len(gens), ProcessExits(g)
      PROVE  /\ h \in 1..Len(gens') /\ gens'[h].by = gens[h].by
             /\ Gone(h)' => Gone(h)
  <2>1. /\ Len(gens') = Len(gens)
        /\ gens'[h].st = IF h = g THEN "exited" ELSE gens[h].st
    BY <1>3, ProcessExitsEffect
  <2>2. gens' = [gens EXCEPT ![g].st = "exited",
                             ![g].owner = IF ending.gen = g THEN ending.op ELSE None]
    BY <1>3 DEF ProcessExits
  <2>3. gens'[h].by = gens[h].by
    BY <1>0, <2>2 DEF Generation
  <2> QED
    BY <2>1, <2>3 DEF Gone
<1>4. ASSUME NEW g \in 1..Len(gens), Publish(g)
      PROVE  /\ h \in 1..Len(gens') /\ gens'[h].by = gens[h].by
             /\ Gone(h)' => Gone(h) \/ Publish(h)
  <2>1. /\ Len(gens') = Len(gens)
        /\ gens'[h].st = IF h = g THEN "gone" ELSE gens[h].st
    BY <1>4, PublishEffect
  <2>2. gens' = [gens EXCEPT ![g].st = "gone"]
    BY <1>4 DEF Publish
  <2>3. gens'[h].by = gens[h].by
    BY <1>0, <2>2 DEF Generation
  <2> QED
    BY <1>4, <2>1, <2>3 DEF Gone
<1>5. ASSUME NEW a \in Attaches, TurnCold(a)
      PROVE  /\ h \in 1..Len(gens') /\ gens'[h].by = gens[h].by
             /\ Gone(h)' => Gone(h)
  BY <1>0, <1>5, TurnColdEffect DEF Gone
<1>6. ASSUME NEW o \in Ops, Terminates(o)
      PROVE  \E g : Retire(g)
  BY <1>6 DEF Terminates
<1>7. ASSUME NEW a \in Attaches, ColdReady(a)
      PROVE  UNCHANGED gens \/ \E g : Retire(g)
  BY <1>7 DEF ColdReady
<1> QED
  BY <1>1, <1>2, <1>3, <1>4, <1>5, <1>6, <1>7, RegistryStep

-----------------------------------------------------------------------------
(* 7. The attach requests. *)

(* What a step leaves alone of the request a, which may be told of an exit *)
(* or lose its connection.                                                 *)
Stays(a) ==
  LET q == attaches[a]
      n == attaches'[a]
  IN  /\ n.phase = q.phase /\ n.on = q.on
      /\ n.create = q.create /\ n.token = q.token /\ n.expected = q.expected
      /\ q.closed => n.closed
      /\ q.told => n.told
      /\ q.phase = "unsent" => n = q

(* A request that stays keeps what is true of it, even when its generation *)
(* ends: it is told then.                                                  *)
LEMMA RequestStays ==
  ASSUME TypeOK, [Next]_vars, NEW a \in Attaches, AskedFor(a), OnIt(a), ToldIfGone(a), Stays(a)
  PROVE  AskedFor(a)' /\ OnIt(a)' /\ ToldIfGone(a)'
<1>0. PICK g : g = attaches[a].on
  OBVIOUS
<1>1. AskedFor(a)'
  BY DEF AskedFor, Stays, Unasked
<1>2. ASSUME attaches[a].phase \in {"warm", "cold", "failing", "answered"}
      PROVE  /\ g \in 1..Len(gens) /\ g \in 1..Len(gens') /\ gens'[g].by = gens[g].by
             /\ Gone(g)' => Gone(g) \/ Publish(g)
  BY <1>0, <1>2, GenerationsStay DEF OnIt
<1>3. OnIt(a)'
  BY <1>0, <1>2 DEF OnIt, Stays
<1>4. ToldIfGone(a)'
  <2>1. SUFFICES ASSUME attaches[a].phase = "answered", ~attaches'[a].closed, Gone(g)'
                 PROVE  attaches'[a].told
    BY <1>0 DEF ToldIfGone, Stays
  <2>2. ~attaches[a].closed
    BY <2>1 DEF Stays
  <2>3. CASE Gone(g)
    BY <1>0, <2>1, <2>2, <2>3 DEF ToldIfGone, Stays
  <2>4. CASE Publish(g)
    <3>1. attaches'[a] = [attaches[a] EXCEPT !.told = TRUE]
      BY <1>0, <2>1, <2>2, <2>4 DEF Publish
    <3>2. attaches[a] \in AttachRequest
      BY DEF TypeOK
    <3> QED
      BY <3>1, <3>2 DEF AttachRequest
  <2> QED
    BY <1>2, <2>1, <2>3, <2>4
<1> QED
  BY <1>1, <1>3, <1>4

(* The request a moves to a phase, and to a generation or not. *)
Moves(a, ph, on) ==
  \/ attaches' = [attaches EXCEPT ![a].phase = ph, ![a].on = on]
  \/ attaches' = [attaches EXCEPT ![a].phase = ph] /\ on = attaches[a].on

(* It keeps the rest, and the others are left alone. *)
LEMMA RequestMoves ==
  ASSUME TypeOK, NEW a \in Attaches, NEW ph, NEW on, Moves(a, ph, on)
  PROVE  /\ attaches'[a].phase = ph /\ attaches'[a].on = on
         /\ attaches'[a].create = attaches[a].create
         /\ attaches'[a].token = attaches[a].token
         /\ attaches'[a].expected = attaches[a].expected
         /\ attaches'[a].closed = attaches[a].closed
         /\ attaches'[a].told = attaches[a].told
         /\ \A b \in Attaches : b # a => attaches'[b] = attaches[b]
<1>1. attaches[a] \in AttachRequest
  BY DEF TypeOK
<1>2. \/ attaches'[a] = [attaches[a] EXCEPT !.phase = ph, !.on = on]
      \/ attaches'[a] = [attaches[a] EXCEPT !.phase = ph] /\ on = attaches[a].on
  BY DEF TypeOK, Moves
<1>3. \A b \in Attaches : b # a => attaches'[b] = attaches[b]
  BY DEF TypeOK, Moves
<1> QED
  BY <1>1, <1>2, <1>3 DEF AttachRequest

(* The three forms of a client's request. *)
LEMMA ArrivalKeeps ==
  ASSUME TypeOK, NEW a \in Attaches, AskedFor(a), AttachArrives(a)
  PROVE  /\ AskedFor(a)' /\ OnIt(a)' /\ ToldIfGone(a)'
         /\ \A b \in Attaches : b # a => attaches'[b] = attaches[b]
<1>1. attaches[a] = Unasked
  BY DEF AttachArrives, AskedFor
<1>2. \/ \E t \in {None} \union Granted :
           attaches' = [attaches EXCEPT ![a] =
             [Unasked EXCEPT !.phase = "queued", !.create = TRUE, !.token = t]]
      \/ \E e \in 0..Len(gens) :
           attaches' = [attaches EXCEPT ![a] =
             [Unasked EXCEPT !.phase = "queued", !.expected = e]]
  <2>1. CASE \E t \in {None} \union Granted :
               attaches' = [attaches EXCEPT ![a].phase = "queued", ![a].create = TRUE,
                                              ![a].token = t]
    <3>1. PICK t \in {None} \union Granted :
            attaches' = [attaches EXCEPT ![a] =
              [attaches[a] EXCEPT !.phase = "queued", !.create = TRUE, !.token = t]]
      BY <2>1
    <3> QED
      BY <1>1, <3>1
  <2>2. CASE \E e \in 0..Len(gens) :
               attaches' = [attaches EXCEPT ![a].phase = "queued", ![a].expected = e]
    <3>1. PICK e \in 0..Len(gens) :
            attaches' = [attaches EXCEPT ![a] =
              [attaches[a] EXCEPT !.phase = "queued", !.expected = e]]
      BY <2>2
    <3> QED
      BY <1>1, <3>1
  <2> QED
    BY <2>1, <2>2 DEF AttachArrives
<1>3. \/ \E t \in {None} \union Granted :
           attaches'[a] = [Unasked EXCEPT !.phase = "queued", !.create = TRUE, !.token = t]
      \/ \E e \in 0..Len(gens) :
           attaches'[a] = [Unasked EXCEPT !.phase = "queued", !.expected = e]
  BY <1>2 DEF TypeOK
<1>4. \A b \in Attaches : b # a => attaches'[b] = attaches[b]
  BY <1>2 DEF TypeOK
<1>5. /\ attaches'[a].phase = "queued"
      /\ attaches'[a].create => attaches'[a].expected = 0
      /\ ~attaches'[a].create => attaches'[a].token = None
  BY <1>3 DEF Unasked
<1> QED
  BY <1>4, <1>5 DEF AskedFor, OnIt, ToldIfGone

(* Which generation a request is on from its turn to its answer. *)
LEMMA TurnKeeps ==
  ASSUME HostInv, TypeOK', NEW a \in Attaches, AskedFor(a), OnIt(a), ToldIfGone(a), AttachStep(a)
  PROVE  /\ AskedFor(a)' /\ OnIt(a)' /\ ToldIfGone(a)'
         /\ \A b \in Attaches : b # a => attaches'[b] = attaches[b]
<1>0. TypeOK /\ gens \in Seq(Generation) /\ Len(gens) \in Nat /\ registry \in {0, Len(gens)}
  BY DEF HostInv, TypeOK, NameIsHeld
<1> DEFINE q == attaches[a]
           Kept(on) == /\ attaches'[a].on = on
                       /\ attaches'[a].create = q.create
                       /\ attaches'[a].token = q.token
                       /\ attaches'[a].expected = q.expected
                       /\ \A b \in Attaches : b # a => attaches'[b] = attaches[b]
<1>1. CASE Refuse(a)
  <2>1. attaches'[a].phase = "refused" /\ Kept(q.on)
    <3>1. Moves(a, "refused", q.on)
      BY <1>1 DEF Moves, Refuse
    <3> QED
      BY <1>0, <3>1, RequestMoves
  <2> QED
    BY <2>1 DEF AskedFor, OnIt, ToldIfGone
<1>2. CASE TurnWarm(a)
  <2>1. attaches'[a].phase = "warm" /\ Kept(registry)
    <3>1. Moves(a, "warm", registry)
      BY <1>2 DEF Moves, TurnWarm
    <3> QED
      BY <1>0, <3>1, RequestMoves
  <2>2. /\ registry \in 1..Len(gens) /\ gens' = gens
        /\ q.token \in {None, gens[registry].by}
        /\ q.expected \in {0, registry}
    BY <1>0, <1>2 DEF TurnWarm, WarmAllowed, AskedFor
  <2>3. ~(q.phase = "unsent")
    BY <1>2 DEF TurnWarm, AtTurn, HoldsTurn
  <2> QED
    BY <2>1, <2>2, <2>3 DEF AskedFor, OnIt, ToldIfGone
<1>3. CASE TurnCold(a)
  <2>1. attaches'[a].phase = "cold" /\ Kept(Len(gens) + 1)
    <3>1. Moves(a, "cold", Len(gens) + 1)
      BY <1>3 DEF Moves, TurnCold
    <3> QED
      BY <1>0, <3>1, RequestMoves
  <2>2. gens' = Append(gens, [st |-> "live", by |-> q.token, owner |-> None])
    BY <1>3 DEF TurnCold
  <2>3. Len(gens) + 1 \in 1..Len(gens') /\ gens'[Len(gens) + 1].by = q.token
    BY <1>0, <2>2
  <2>4. q.create
    BY <1>3 DEF TurnCold, ColdAllowed
  <2> QED
    BY <2>1, <2>3, <2>4 DEF AskedFor, OnIt, ToldIfGone
<1>4. CASE WarmReady(a) /\ ~Refuse(a)
  <2>1. gens' = gens /\ q.phase = "warm"
    BY <1>4 DEF WarmReady, HoldsTurn
  <2>2. CASE Answer(a) /\ Live(q.on)
    <3>1. attaches'[a].phase = "answered" /\ Kept(q.on)
      <4>1. Moves(a, "answered", q.on)
        BY <2>2 DEF Moves, Answer
      <4> QED
        BY <1>0, <4>1, RequestMoves
    <3>2. ~Gone(q.on)
      BY <2>2 DEF Live, Gone
    <3> QED
      BY <2>1, <3>1, <3>2 DEF AskedFor, OnIt, ToldIfGone, Gone
  <2>3. CASE attaches' = [attaches EXCEPT ![a].phase = "queued", ![a].on = 0]
    <3>1. attaches'[a].phase = "queued" /\ Kept(0)
      <4>1. Moves(a, "queued", 0)
        BY <2>3 DEF Moves
      <4> QED
        BY <1>0, <4>1, RequestMoves
    <3> QED
      BY <3>1 DEF AskedFor, OnIt, ToldIfGone
  <2> QED
    BY <1>4, <2>2, <2>3 DEF WarmReady
<1>5. CASE ColdReady(a) /\ ~Refuse(a)
  <2>1. q.phase = "cold"
    BY <1>5 DEF ColdReady, HoldsTurn
  <2>2. CASE Answer(a) /\ Live(q.on) /\ UNCHANGED gens
    <3>1. attaches'[a].phase = "answered" /\ Kept(q.on)
      <4>1. Moves(a, "answered", q.on)
        BY <2>2 DEF Moves, Answer
      <4> QED
        BY <1>0, <4>1, RequestMoves
    <3>2. ~Gone(q.on)
      BY <2>2 DEF Live, Gone
    <3> QED
      BY <2>1, <2>2, <3>1, <3>2 DEF AskedFor, OnIt, ToldIfGone, Gone
  <2>3. CASE attaches' = [attaches EXCEPT ![a].phase = "failing"] /\ Retire(q.on)
    <3>1. attaches'[a].phase = "failing" /\ Kept(q.on)
      <4>1. Moves(a, "failing", q.on)
        BY <2>3 DEF Moves
      <4> QED
        BY <1>0, <4>1, RequestMoves
    <3>2. Len(gens') = Len(gens)
      BY <1>0, <2>3, RetireTypes
    <3> QED
      BY <2>1, <3>1, <3>2 DEF AskedFor, OnIt, ToldIfGone
  <2> QED
    BY <1>5, <2>2, <2>3 DEF ColdReady
<1> QED
  BY <1>1, <1>2, <1>3, <1>4, <1>5 DEF AttachStep, TurnRefused, SpawnFails, ColdAbandoned

(* Every step moves at most one request, but for telling of an exit. *)
LEMMA RequestStep ==
  ASSUME TypeOK, [Next]_vars, NEW a \in Attaches, ~AttachArrives(a), ~AttachStep(a),
         \A b \in Attaches : b # a /\ (AttachArrives(b) \/ AttachStep(b)) =>
                               attaches'[a] = attaches[a]
  PROVE  Stays(a)
<1>0. attaches[a] \in AttachRequest
  BY DEF TypeOK
<1>1. CASE attaches'[a] = attaches[a]
  BY <1>1 DEF Stays
<1>2. ASSUME NEW g \in 1..Len(gens), Publish(g)
      PROVE  Stays(a)
  <2>1. \/ attaches'[a] = attaches[a]
        \/ /\ attaches'[a] = [attaches[a] EXCEPT !.told = TRUE]
           /\ attaches[a].phase = "answered"
    BY <1>2 DEF Publish
  <2> QED
    BY <1>0, <1>1, <2>1 DEF Stays, AttachRequest
<1>3. ASSUME NEW b \in Attaches, Close(b)
      PROVE  Stays(a)
  <2>1. \/ attaches'[a] = attaches[a]
        \/ /\ attaches'[a] = [attaches[a] EXCEPT !.closed = TRUE]
           /\ attaches[a].phase # "unsent"
    BY <1>3 DEF Close, TypeOK
  <2> QED
    BY <1>0, <1>1, <2>1 DEF Stays, AttachRequest
<1>4. CASE \E b \in Attaches : AttachArrives(b) \/ AttachStep(b)
  BY <1>1, <1>4
<1>5. ASSUME NEW g \in 1..Len(gens), ProcessExits(g)
      PROVE  Stays(a)
  BY <1>1, <1>5 DEF ProcessExits, attachState
<1>6. CASE \E r \in KillReqs : KillStep(r)
  BY <1>1, <1>6 DEF KillStep, KillArrives, KillResumes, attachState
<1>7. CASE \E o \in Ops : Terminates(o) \/ TerminationFails(o) \/ Forget(o)
  BY <1>1, <1>7 DEF Terminates, TerminationFails, Forget, attachState
<1>8. CASE Tick \/ GraceFires \/ UNCHANGED vars
  BY <1>1, <1>8 DEF Tick, GraceFires, vars, attachState
<1> QED
  BY <1>2, <1>3, <1>4, <1>5, <1>6, <1>7, <1>8 DEF Next

(* Every step keeps what is true of the attach requests. *)
LEMMA AttachInvStep ==
  ASSUME HostInv, TypeOK', AttachInv, [Next]_vars
  PROVE  AttachInv'
<1>0. TypeOK
  BY DEF HostInv
<1>1. SUFFICES ASSUME NEW a \in Attaches
               PROVE  AskedFor(a)' /\ OnIt(a)' /\ ToldIfGone(a)'
  BY DEF AttachInv
<1>2. \A b \in Attaches : AskedFor(b) /\ OnIt(b) /\ ToldIfGone(b)
  BY DEF AttachInv
<1>3. CASE AttachArrives(a)
  BY <1>0, <1>2, <1>3, ArrivalKeeps
<1>4. CASE AttachStep(a)
  BY <1>2, <1>4, TurnKeeps
<1>5. CASE ~AttachArrives(a) /\ ~AttachStep(a)
  <2>1. ASSUME NEW b \in Attaches, b # a, AttachArrives(b) \/ AttachStep(b)
        PROVE  attaches'[a] = attaches[a]
    BY <1>0, <1>2, <2>1, ArrivalKeeps, TurnKeeps
  <2> QED
    BY <1>0, <1>2, <1>5, <2>1, RequestStep, RequestStays
<1> QED
  BY <1>3, <1>4, <1>5

-----------------------------------------------------------------------------
(* 8. The operation that ends the name. *)

(* What a kill request does to the operation, the lease and the timer. *)
LEMMA KillEffect ==
  ASSUME NEW r \in KillReqs, KillStep(r)
  PROVE  /\ UNCHANGED <<gens, registry, up>>
         /\ \/ ending' = ending
            \/ Live(registry) /\ ending'.op # None /\ ending'.gen = registry
         /\ \/ UNCHANGED <<lease, grace>>
            \/ SetReservation(OpOf[r])
<1>1. CASE KillArrives(r)
  <2>1. PICK p \in IF plan[OpOf[r]].fixed
                     THEN {plan[OpOf[r]]}
                     ELSE [gen : 0..Len(gens), reserve : BOOLEAN, fixed : {TRUE}] :
           \/ KillReplayed(r, OpOf[r], p)
           \/ KillJoins(r, OpOf[r])
           \/ KillClashes(r, OpOf[r])
           \/ KillWaits(r, OpOf[r])
           \/ KillDecides(r, OpOf[r], p)
    BY <1>1 DEF KillArrives
  <2>2. UNCHANGED <<gens, registry, up>>
    BY <1>1 DEF KillArrives
  <2> QED
    BY <2>1, <2>2 DEF KillReplayed, KillJoins, KillClashes, KillWaits, KillDecides, KillAbsent,
                      KillOther, KillExpected
<1>2. CASE KillResumes(r)
  BY <1>2 DEF KillResumes, KillDecides, KillAbsent, KillOther, KillExpected
<1> QED
  BY <1>1, <1>2 DEF KillStep

(* An operation that ends the name is ended itself no later than it. *)
LEMMA EndingHoldsStep ==
  ASSUME HostInv, EndingHolds, [Next]_vars
  PROVE  EndingHolds'
<1>0. /\ TypeOK /\ NameIsHeld /\ EndingIsMeant
      /\ gens \in Seq(Generation) /\ Len(gens) \in Nat /\ registry \in {0, Len(gens)}
  <2>1. TypeOK /\ NameIsHeld /\ EndingIsMeant
    BY DEF HostInv
  <2>2. gens \in Seq(Generation) /\ Len(gens) \in Nat
    BY <2>1 DEF TypeOK
  <2>3. registry \in {0, Len(gens)}
    BY <2>1 DEF NameIsHeld
  <2> QED
    BY <2>1, <2>2, <2>3
<1>1. ASSUME NEW r \in KillReqs, KillStep(r)
      PROVE  EndingHolds'
  BY <1>1, KillEffect DEF EndingHolds, Live
<1>2. ASSUME NEW g, Retire(g), UNCHANGED <<registry, ending>>
      PROVE  EndingHolds'
  BY <1>0, <1>2, RetireTypes DEF EndingHolds
<1>3. ASSUME NEW o \in Ops, TerminationFails(o)
      PROVE  EndingHolds'
  BY <1>3 DEF TerminationFails, EndingHolds, NotEnding
<1>4. ASSUME NEW g \in 1..Len(gens), ProcessExits(g)
      PROVE  EndingHolds'
  <2>1. UNCHANGED <<registry, ending>>
    BY <1>4 DEF ProcessExits, killState
  <2> QED
    BY <1>0, <1>4, <2>1, ProcessExitsEffect DEF EndingHolds
<1>5. ASSUME NEW g \in 1..Len(gens), Publish(g)
      PROVE  EndingHolds'
  <2>1. g = registry /\ gens[g].st = "exited"
    BY <1>0, <1>5 DEF Publish, NameIsHeld
  <2>2. ending.op = None \/ ending.op = gens[g].owner
    BY <2>1 DEF EndingHolds
  <2> QED
    BY <1>5, <2>2 DEF Publish, EndingHolds, NotEnding
<1>6. ASSUME NEW a \in Attaches, TurnCold(a)
      PROVE  EndingHolds'
  BY <1>6 DEF TurnCold, ColdAllowed, killState, NotEnding, EndingHolds
<1>7. ASSUME NEW a \in Attaches, ColdReady(a)
      PROVE  EndingHolds'
  <2>1. UNCHANGED <<registry, ending>> /\ (UNCHANGED gens \/ \E g : Retire(g))
    BY <1>7 DEF ColdReady, killState
  <2> QED
    BY <1>2, <2>1 DEF EndingHolds
<1>8. CASE UNCHANGED <<gens, registry, ending>>
  BY <1>8 DEF EndingHolds
<1>9. ASSUME NEW o \in Ops, Terminates(o)
      PROVE  EndingHolds'
  BY <1>2, <1>9 DEF Terminates
<1>10. ASSUME NEW a \in Attaches,
              \/ AttachArrives(a) \/ TurnRefused(a) \/ TurnWarm(a) \/ SpawnFails(a)
              \/ WarmReady(a) \/ ColdAbandoned(a) \/ Close(a)
       PROVE  EndingHolds'
  BY <1>8, <1>10 DEF AttachArrives, TurnRefused, TurnWarm, SpawnFails, WarmReady, ColdAbandoned,
                     Close, killState
<1>11. CASE Tick \/ GraceFires \/ UNCHANGED vars \/ \E o \in Ops : Forget(o)
  BY <1>8, <1>11 DEF Tick, GraceFires, vars, Forget, killState
<1> QED
  BY <1>1, <1>3, <1>4, <1>5, <1>6, <1>7, <1>9, <1>10, <1>11 DEF Next, AttachStep

-----------------------------------------------------------------------------
(* 9. The grace timer. *)

(* A grant restarts the timer of an empty host, and never leaves less of   *)
(* it than of the lease.                                                   *)
LEMMA TimerStep ==
  ASSUME HostInv, EndingHolds, TimerIsSet, LeaseWithinGrace, [Next]_vars
  PROVE  /\ TimerIsSet' /\ LeaseWithinGrace'
         /\ up /\ ~up' => ~Leased
<1>0. /\ TypeOK /\ NameIsHeld /\ EndingIsMeant
      /\ lease \in [token : Token, left : 0..Window] /\ grace \in 0..Off
      /\ Window \in Nat \ {0} /\ ending \in [op : Token, gen : Gen]
  BY DEF HostInv, TypeOK
<1> USE DEF TimerIsSet, LeaseWithinGrace
<1>1. ASSUME NEW o \in Ops, SetReservation(o), UNCHANGED <<registry, up>>
      PROVE  TimerIsSet' /\ LeaseWithinGrace'
  BY <1>0, <1>1 DEF SetReservation, Off
<1>2. ASSUME NEW r \in KillReqs, KillStep(r)
      PROVE  TimerIsSet' /\ LeaseWithinGrace' /\ up' = up
  BY <1>1, <1>2, KillEffect
<1>3. CASE UNCHANGED <<registry, lease, grace, up>>
  BY <1>3
<1>4. ASSUME NEW g \in 1..Len(gens), Publish(g)
      PROVE  TimerIsSet' /\ LeaseWithinGrace' /\ up' = up
  <2>1. grace' = Window /\ up' = up
    BY <1>0, <1>4 DEF Publish, NameIsHeld
  <2>2. lease'.left = Window \/ lease' = lease
    BY <1>4 DEF Publish
  <2> QED
    BY <1>0, <2>1, <2>2 DEF Off
<1>5. ASSUME NEW a \in Attaches, TurnRefused(a)
      PROVE  TimerIsSet' /\ LeaseWithinGrace' /\ up' = up
  <2>1. registry = 0 => ending = NotEnding
    BY <1>0 DEF EndingHolds, EndingIsMeant, NotEnding
  <2>2. grace' = (IF registry = 0 THEN Window ELSE Off) /\ UNCHANGED <<registry, lease, up>>
    BY <1>5, <2>1 DEF TurnRefused
  <2> QED
    BY <1>0, <2>2 DEF Off
<1>6. ASSUME NEW a \in Attaches, TurnWarm(a) \/ TurnCold(a) \/ SpawnFails(a)
      PROVE  TimerIsSet' /\ LeaseWithinGrace' /\ up' = up
  <2>1. CASE TurnWarm(a)
    BY <1>0, <2>1 DEF TurnWarm, WarmAllowed, Off
  <2>2. CASE TurnCold(a)
    <3>1. registry' # 0 /\ lease'.left = 0 /\ grace' = Off /\ up' = up
      BY <1>0, <2>2 DEF TurnCold, NoLease, TypeOK
    <3> QED
      BY <1>0, <3>1 DEF Off
  <2>3. CASE SpawnFails(a)
    BY <1>0, <2>3 DEF SpawnFails, NoLease, Off
  <2> QED
    BY <1>6, <2>1, <2>2, <2>3
<1>7. CASE Tick
  <2>1. UNCHANGED <<registry, up>> /\ grace # 0
    BY <1>7 DEF Tick
  <2>2. lease'.left = IF lease.left > 0 THEN lease.left - 1 ELSE 0
    BY <1>0, <1>7 DEF Tick
  <2>3. grace' = IF grace = Off THEN Off ELSE grace - 1
    BY <1>7 DEF Tick
  <2> QED
    BY <1>0, <2>1, <2>2, <2>3 DEF Off
<1>8. CASE GraceFires
  <2>1. /\ grace = 0 /\ grace' = Off /\ UNCHANGED <<registry, lease>>
        /\ up' <=> registry # 0
    BY <1>8 DEF GraceFires
  <2>2. lease.left = 0 /\ ~Leased
    BY <1>0, <2>1 DEF Leased
  <2>3. LeaseWithinGrace'
    BY <1>0, <2>1, <2>2 DEF Off
  <2>4. TimerIsSet'
    BY <2>1
  <2> QED
    BY <2>2, <2>3, <2>4
<1>9. ASSUME NEW a \in Attaches,
             \/ AttachArrives(a) \/ WarmReady(a) \/ ColdReady(a) \/ ColdAbandoned(a) \/ Close(a)
      PROVE  UNCHANGED <<registry, lease, grace, up>>
  BY <1>9 DEF AttachArrives, WarmReady, ColdReady, ColdAbandoned, Close, clocks
<1>10. CASE UNCHANGED vars
  BY <1>3, <1>10 DEF vars, clocks
<1>11. ASSUME NEW o \in Ops, Terminates(o) \/ TerminationFails(o) \/ Forget(o)
       PROVE  UNCHANGED <<registry, lease, grace, up>>
  BY <1>11 DEF Terminates, TerminationFails, Forget, clocks
<1>12. ASSUME NEW g \in 1..Len(gens), ProcessExits(g)
       PROVE  UNCHANGED <<registry, lease, grace, up>>
  BY <1>12 DEF ProcessExits, clocks
<1> QED
  BY <1>2, <1>3, <1>4, <1>5, <1>6, <1>7, <1>8, <1>9, <1>10, <1>11, <1>12
     DEF Next, AttachStep, vars, clocks

(* LifeInv is inductive. *)
LEMMA LifeInvStep == LifeInv /\ [Next]_vars => LifeInv'
BY HostInvStep, AttachInvStep, EndingHoldsStep, TimerStep DEF LifeInv, HostInv

(* A host that has just begun to listen satisfies it. *)
LEMMA LifeInvInit == Init => LifeInv
<1> SUFFICES ASSUME Init PROVE LifeInv
  OBVIOUS
<1>1. AttachInv
  BY DEF Init, AttachInv, AskedFor, OnIt, ToldIfGone, Unasked
<1>2. EndingHolds /\ TimerIsSet /\ LeaseWithinGrace
  BY DEF Init, EndingHolds, TimerIsSet, LeaseWithinGrace, NotEnding, NoLease, Off
<1> QED
  BY <1>1, <1>2, HostInvInit DEF LifeInv

(* The requests, the operation that ends the name, the lease and the grace *)
(* timer agree in every reachable state of the host.                       *)
THEOREM LifeInvariant == Spec => []LifeInv
BY LifeInvInit, LifeInvStep, PTL DEF Spec

-----------------------------------------------------------------------------
(* 10. What follows for the attaches and the end of the host. *)

(* An answered attach is on the generation it asked for, however often the *)
(* name was inspected again because the generation met first had died      *)
(* under the snapshot (host.ts, handleAttach).                             *)
THEOREM AnsweredAsAsked == Spec => []AttachedAsAsked
<1>1. LifeInv => AttachedAsAsked
  BY DEF LifeInv, AttachInv, OnIt, AttachedAsAsked
<1> QED
  BY <1>1, LifeInvariant, PTL

(* Whoever is subscribed to a generation when its end is published is told *)
(* of it, and nobody is answered about a generation whose end has been     *)
(* published (host.ts, publishSessionEnd).                                 *)
THEOREM EveryExitIsTold == Spec => []ExitIsTold
<1>1. LifeInv => ExitIsTold
  BY DEF LifeInv, AttachInv, ToldIfGone, ExitIsTold
<1> QED
  BY <1>1, LifeInvariant, PTL

(* No path that claims the name of an empty host and gives it up again     *)
(* leaves it without its timer (host.ts, armGraceExit).                    *)
THEOREM EmptyHostIsTimed == Spec => []EmptyHostLeaves
<1>1. LifeInv => EmptyHostLeaves
  BY DEF LifeInv, TimerIsSet, EmptyHostLeaves
<1> QED
  BY <1>1, LifeInvariant, PTL

(* The timer never runs out before a lease: the owner of a replacement     *)
(* token finds the host up (host.ts, setReplacementReservation).           *)
THEOREM LeaseHoldsTheHost == Spec => LeaseKeepsHost
<1>1. LifeInv /\ [Next]_vars => [up /\ ~up' => ~Leased]_vars
  BY TimerStep DEF LifeInv
<1> QED
  BY <1>1, LifeInvariant, PTL DEF Spec, LeaseKeepsHost
=============================================================================
