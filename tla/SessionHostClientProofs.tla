------------------------ MODULE SessionHostClientProofs ------------------------
(***************************************************************************)
(* The client of the session host, for any terminals, number of attempts,  *)
(* and bounds on what is asked, lost and spawned.                          *)
(***************************************************************************)
EXTENDS SessionHostClient, FiniteSetTheorems, FunctionTheorems, TLAPS

-----------------------------------------------------------------------------
(* 1. Types. *)

Pending == [st : {"none", "await", "unsent", "sent", "lost"}, req : Commands]
Posted  == [who : Who, req : Commands]
Frames  == [who : Who \union {"exit"}, ok : BOOLEAN, gen : Gen]
Ask     == [sub : Subs, create : BOOLEAN, state : Asked]
State   == [gen : Gen, on : Sockets \union {0}, exited : BOOLEAN]
Job     == [does : {"attach", "detach"}, of : Asked]
Record  == [live : Gen, born : Gen, by : [1..MaxGens -> Op], subs : SUBSET Sockets,
            lease : Op, dying : Op, done : SUBSET [op : Op, gen : Gen]]

ConnTypes ==
  /\ sock \in Sockets \union {0} /\ tried \in Sockets \union {0} /\ losses \in 0..MaxLosses
  /\ replay \in Call
  /\ pend \in [Who -> Pending]
  /\ up \in [Sockets -> Seq(Posted)]
  /\ down \in Seq(Frames)

ViewTypes ==
  /\ asks \in Seq(Ask)
  /\ entry \in [Subs -> Call] /\ joined \in [Subs -> Gen] /\ obj \in Call
  /\ states \in [Asked -> State]
  /\ lane \in Seq(Job)
  /\ task \in [on : BOOLEAN, token : Op, tries : 0..2]
  /\ seen \in Gen

KillTypes ==
  /\ token \in Op /\ barrier \in BOOLEAN /\ op \in Op
  /\ plans \in Seq(Identities) /\ calls \in 0..MaxKills
  /\ killing \in [st : {"no", "prepare", "confirm"}, op : Op, attempt : 0..Attempts]
  /\ meant \in Gen /\ dead \subseteq 1..MaxGens /\ dropped \subseteq 1..MaxGens

HostTypes == open \subseteq Sockets /\ host \in Record

LEMMA TypeParts == TypeOK <=> ConnTypes /\ ViewTypes /\ KillTypes /\ HostTypes
BY DEF TypeOK, ConnTypes, ViewTypes, KillTypes, HostTypes,
       Pending, Posted, Frames, Ask, State, Job, Record

(* The bound on the connections: one for every loss, and one for every     *)
(* further attempt to confirm a kill.                                      *)
Left ==
  IF killing.st = "prepare" THEN Attempts - 1
  ELSE IF killing.st = "confirm" THEN Attempts - killing.attempt ELSE 0

SocketsCounted ==
  /\ sock # 0 => sock = tried
  /\ tried + (IF sock = 0 THEN 1 ELSE 0) + Left <= 1 + losses + calls * (Attempts - 1)

(* What is named exists: calls, operations, and the state of an entry. *)
NamesKept ==
  /\ Len(plans) <= calls
  /\ op <= Len(plans)
  /\ killing.st # "no" => killing.op \in 1..Len(plans)
  /\ \A i \in 1..Len(lane) : lane[i].does = "attach" => lane[i].of <= Len(asks)
  /\ \A s \in Subs : entry[s] # 0 => obj # 0

LEMMA SetFacts ==
  /\ Attempts \in Nat /\ Attempts >= 1
  /\ MaxAttaches \in Nat /\ MaxKills \in Nat /\ MaxLosses \in Nat /\ MaxGens \in Nat
  /\ 0 \in Gen /\ 0 \in Op /\ 0 \in Call /\ 0 \notin Sockets /\ Sockets \subseteq Nat
  /\ Gen \subseteq Nat /\ Op \subseteq Nat /\ Call \subseteq Nat
  /\ Asked \subseteq Call /\ \A c \in Call : c # 0 => c \in Asked
BY AttemptsAssumption, BoundsAssumption DEF Gen, Op, Call, Sockets, Asked

LEMMA RequestTypes ==
  ASSUME NEW cmd \in {"none", "attach", "existing", "detach", "has", "kill"},
         NEW arg \in Op, NEW gen \in Gen
  PROVE  Request(cmd, arg, gen) \in Commands
BY DEF Request, Commands

LEMMA PendingTypes ==
  /\ NoRequest \in Commands
  /\ Idle \in Pending
  /\ \A r \in Commands : Awaits(r) \in Pending /\ Unsent(r) \in Pending
BY SetFacts, RequestTypes DEF NoRequest, Idle, Awaits, Unsent, Pending

LEMMA LosesTypes ==
  ASSUME pend \in [Who -> Pending], NEW w \in Who
  PROVE  Loses(w) \in Pending
BY DEF Loses, Pending

LEMMA DroppedTypes ==
  ASSUME pend \in [Who -> Pending]
  PROVE  Dropped \in [Who -> Pending]
<1>1. \A w \in Who : pend[w].req \in Commands /\ pend[w] \in Pending
  BY DEF Pending
<1>2. \A w \in Who : /\ Idle \in Pending /\ Loses(w) \in Pending
                     /\ Awaits(pend[w].req) \in Pending
  BY <1>1, PendingTypes, LosesTypes
<1> QED
  BY <1>1, <1>2 DEF Dropped

LEMMA KnownTypes ==
  ASSUME ViewTypes, NEW o \in Call
  PROVE  Known(o) \in Gen
<1>1. o # 0 => states[o].gen \in Gen
  BY SetFacts DEF ViewTypes, State
<1> QED
  BY <1>1 DEF Known, ViewTypes

(* A request taken off its connection, and the frames that answer it. *)
LEMMA AnswerTypes ==
  ASSUME ConnTypes, NEW s \in Sockets, up[s] # <<>>, NEW ok \in BOOLEAN, NEW g \in Gen,
         Answers(s, ok, g)
  PROVE  ConnTypes'
<1>1. up[s] \in Seq(Posted) /\ Head(up[s]) \in Posted /\ Tail(up[s]) \in Seq(Posted)
  BY DEF ConnTypes
<1>2. Reply(Head(up[s]).who, ok, g) \in Frames
  BY <1>1 DEF Reply, Frames, Posted
<1>3. down' \in Seq(Frames)
  BY <1>2 DEF Answers, ConnTypes
<1>4. up' \in [Sockets -> Seq(Posted)]
  BY <1>1 DEF Answers, ConnTypes
<1> QED
  BY <1>3, <1>4 DEF Answers, ConnTypes

LEMMA AnswerKillTypes ==
  ASSUME ConnTypes, HostTypes, NEW ok \in BOOLEAN, NEW f \in Seq(Frames), AnswersKill(ok, f)
  PROVE  up' \in [Sockets -> Seq(Posted)] /\ down' \in Seq(Frames)
<1>1. \A s \in Waiting : up[s] # <<>> /\ s \in Sockets
  BY DEF Waiting, Asks, HostTypes
<1>2. \A s \in Sockets : up[s] \in Seq(Posted) /\ (s \in Waiting => Tail(up[s]) \in Seq(Posted))
  BY <1>1 DEF ConnTypes
<1>3. up' \in [Sockets -> Seq(Posted)]
  <2> HIDE DEF Waiting
  <2> QED
    BY <1>2 DEF AnswersKill
<1>4. <<Reply("kill", ok, 0)>> \in Seq(Frames)
  <2>1. Reply("kill", ok, 0) \in Frames
    BY SetFacts DEF Reply, Frames, Who
  <2> QED
    BY <2>1
<1>5. (IF sock \in Waiting THEN <<Reply("kill", ok, 0)>> ELSE <<>>) \in Seq(Frames)
  BY <1>4
<1>6. down' \in Seq(Frames)
  BY <1>5 DEF AnswersKill, ConnTypes
<1> QED
  BY <1>3, <1>6

(* The steps of the host, as far as the two ends of its connections go. *)
LEMMA HostTakesType ==
  ASSUME HostTypes, NEW s, NEW cmd, HostTakes(s, cmd)
  PROVE  s \in Sockets /\ s \in open /\ up[s] # <<>> /\ Head(up[s]).req.cmd = cmd
BY DEF HostTakes, Asks, HostTypes

LEMMA HostRecordTypes ==
  ASSUME HostTypes
  PROVE  /\ host.live \in Gen /\ host.born \in Gen /\ host.by \in [1..MaxGens -> Op]
         /\ host.subs \subseteq Sockets /\ host.lease \in Op /\ host.dying \in Op
         /\ host.done \subseteq [op : Op, gen : Gen]
BY DEF HostTypes, Record

LEMMA HeadRequestTypes ==
  ASSUME ConnTypes, NEW s \in Sockets, up[s] # <<>>
  PROVE  /\ Head(up[s]) \in Posted /\ Head(up[s]).who \in Who
         /\ Head(up[s]).req.arg \in Op /\ Head(up[s]).req.gen \in Gen
<1>1. Head(up[s]) \in Posted
  BY DEF ConnTypes
<1> QED
  BY <1>1 DEF Posted, Commands

(* A request answered in one step. *)
LEMMA HostAnswers ==
  ASSUME ConnTypes, HostTypes, NEW s \in Sockets,
         HostAttaches(s) \/ HostAttachesExisting(s) \/ HostDetaches(s) \/ HostIsProbed(s)
         \/ (HostKills(s) /\ ~HostTerminates(s, Head(up[s]).req.arg, Head(up[s]).req.gen))
  PROVE  /\ s \in open /\ up[s] # <<>>
         /\ \E ok \in BOOLEAN, g \in Gen : Answers(s, ok, g)
<1>0. FALSE \in BOOLEAN /\ TRUE \in BOOLEAN /\ 0 \in Gen /\ host.live \in Gen
      /\ (host.born + 1 <= MaxGens => host.born + 1 \in Gen)
  BY SetFacts, HostRecordTypes DEF Gen
<1>1. CASE HostAttaches(s)
  BY <1>0, <1>1, HostTakesType DEF HostAttaches, Refuses, Subscribes
<1>2. CASE HostAttachesExisting(s)
  BY <1>0, <1>2, HostTakesType DEF HostAttachesExisting, Refuses, Subscribes
<1>3. CASE HostDetaches(s) \/ HostIsProbed(s)
  BY <1>0, <1>3, HostTakesType DEF HostDetaches, HostIsProbed
<1>4. CASE HostKills(s) /\ ~HostTerminates(s, Head(up[s]).req.arg, Head(up[s]).req.gen)
  <2>1. s \in open /\ up[s] # <<>>
    BY <1>4, HostTakesType DEF HostKills
  <2> QED
    BY <1>0, <1>4, <2>1 DEF HostKills, HostReplays, HostFindsItGone, HostFindsAnother, Refuses
<1> QED
  BY <1>1, <1>2, <1>3, <1>4

TypeInv == ConnTypes /\ ViewTypes /\ KillTypes /\ HostTypes /\ SocketsCounted /\ NamesKept

(* What the lane works at, and what the client hears. *)
LEMMA LaneHeadTypes ==
  ASSUME TypeInv, lane # <<>>
  PROVE  /\ Head(lane) \in Job /\ Head(lane).of \in Asked /\ Tail(lane) \in Seq(Job)
         /\ Head(lane).does = "attach" =>
              /\ Head(lane).of \in 1..Len(asks)
              /\ asks[Head(lane).of] \in Ask
              /\ asks[Head(lane).of].sub \in Subs
              /\ asks[Head(lane).of].state \in Asked
              /\ asks[Head(lane).of].create \in BOOLEAN
<1>1. Head(lane) \in Job /\ Tail(lane) \in Seq(Job) /\ Head(lane) = lane[1] /\ 1 \in 1..Len(lane)
  BY DEF TypeInv, ViewTypes
<1>2. Head(lane).of \in Asked
  BY <1>1 DEF Job
<1>3. ASSUME Head(lane).does = "attach" PROVE Head(lane).of \in 1..Len(asks)
  BY <1>1, <1>2, <1>3 DEF TypeInv, NamesKept, Asked, ViewTypes
<1>4. ASSUME Head(lane).does = "attach" PROVE asks[Head(lane).of] \in Ask
  BY <1>3, <1>4 DEF TypeInv, ViewTypes
<1> QED
  BY <1>1, <1>2, <1>3, <1>4 DEF Ask

LEMMA HeadFrameTypes ==
  ASSUME TypeInv, down # <<>>
  PROVE  /\ Head(down) \in Frames /\ Tail(down) \in Seq(Frames)
         /\ Head(down).ok \in BOOLEAN /\ Head(down).gen \in Gen
<1>1. Head(down) \in Frames /\ Tail(down) \in Seq(Frames)
  BY DEF TypeInv, ConnTypes
<1> QED
  BY <1>1 DEF Frames

LEMMA PlanTypes ==
  ASSUME TypeInv, killing.st # "no"
  PROVE  /\ killing.op \in 1..Len(plans) /\ killing.op \in Op /\ Plan \in Identities
         /\ Plan.gen \in Gen /\ Plan.mode \in Modes
<1>1. killing.op \in 1..Len(plans) /\ killing.op \in Op
  BY DEF TypeInv, NamesKept, KillTypes
<1>2. Plan \in Identities
  BY <1>1 DEF TypeInv, KillTypes, Plan
<1> QED
  BY <1>1, <1>2 DEF Identities

LEMMA TypeInvFacts ==
  ASSUME TypeInv
  PROVE  /\ tried \in Nat /\ calls \in Nat /\ losses \in Nat /\ sock \in Nat
         /\ killing.attempt \in 0..Attempts /\ killing.op \in Op
         /\ killing.st \in {"no", "prepare", "confirm"}
         /\ Left \in 0..Attempts
         /\ \A w \in Who : /\ pend[w] \in Pending /\ pend[w].req \in Commands
                           /\ pend[w].st \in {"none", "await", "unsent", "sent", "lost"}
<1>1. /\ tried \in Nat /\ calls \in Nat /\ losses \in Nat /\ sock \in Nat
      /\ killing.attempt \in 0..Attempts /\ killing.op \in Op
      /\ killing.st \in {"no", "prepare", "confirm"}
  BY SetFacts DEF TypeInv, ConnTypes, KillTypes
<1>2. Left \in 0..Attempts
  BY <1>1, SetFacts DEF Left
<1>3. \A w \in Who : pend[w] \in Pending
  BY DEF TypeInv, ConnTypes
<1>4. \A w \in Who : /\ pend[w].req \in Commands
                     /\ pend[w].st \in {"none", "await", "unsent", "sent", "lost"}
  BY <1>3 DEF Pending
<1> QED
  BY <1>1, <1>2, <1>3, <1>4

LEMMA Multiples ==
  ASSUME NEW a \in Nat, NEW b \in Nat, NEW c \in Nat, a <= b
  PROVE  a * c <= b * c /\ (a + 1) * c = a * c + c /\ a * c \in Nat /\ b * c \in Nat
<1>1. b - a \in Nat /\ (b - a) * c \in Nat
  OBVIOUS
<1>2. b * c = a * c + (b - a) * c
  OBVIOUS
<1> QED
  BY <1>1, <1>2

(* No connection is made beyond the last. *)
LEMMA NextSocket ==
  ASSUME TypeInv, sock = 0
  PROVE  tried + 1 \in Sockets
<1>1. tried + 1 + Left <= 1 + losses + calls * (Attempts - 1)
  BY DEF TypeInv, SocketsCounted
<1>2. losses <= MaxLosses /\ calls <= MaxKills
  BY DEF TypeInv, ConnTypes, KillTypes
<1>3. Attempts - 1 \in Nat
  BY SetFacts
<1>4. /\ calls * (Attempts - 1) <= MaxKills * (Attempts - 1)
      /\ calls * (Attempts - 1) \in Nat /\ MaxKills * (Attempts - 1) \in Nat
  BY <1>2, <1>3, Multiples, TypeInvFacts, SetFacts
<1>5. Left >= 0 /\ Left \in Int
  BY TypeInvFacts, SetFacts
<1>6. tried + 1 <= 1 + MaxLosses + MaxKills * (Attempts - 1)
  BY <1>1, <1>2, <1>4, <1>5, TypeInvFacts, SetFacts
<1> QED
  BY <1>6, TypeInvFacts, SetFacts DEF Sockets

(* The steps of the client's lane, of a kill and of a connection keep the  *)
(* types of the connection.                                                *)
LEMMA LaneConn ==
  ASSUME TypeInv, LaneSteps
  PROVE  ConnTypes'
<1> USE DEF TypeInv, ConnTypes, Who
<1>0. /\ "lane" \in Who /\ pend["lane"].req \in Commands
      /\ Idle \in Pending /\ NoRequest \in Commands
      /\ \A r \in Commands : Awaits(r) \in Pending /\ Unsent(r) \in Pending
  BY PendingTypes, TypeInvFacts
<1>1. CASE AttachBegins
  BY <1>0, <1>1 DEF AttachBegins, TaskEnds
<1>2. CASE AttachAsks
  <2>1. lane # <<>> /\ Head(lane).does = "attach"
    BY <1>2 DEF AttachAsks, Runs
  <2>2. \A a \in Op, g \in Gen : Request("existing", 0, g) \in Commands
                                 /\ Request("attach", a, 0) \in Commands
    BY SetFacts, RequestTypes
  <2>3. asks[Head(lane).of].state \in Call /\ token \in Op
    BY <2>1, LaneHeadTypes, SetFacts DEF KillTypes
  <2>4. Known(asks[Head(lane).of].state) \in Gen
    BY <2>3, KnownTypes
  <2>5. \E r \in Commands : pend' = [pend EXCEPT !["lane"] = Unsent(r)]
    BY <1>2, <2>2, <2>3, <2>4, SetFacts DEF AttachAsks
  <2> QED
    BY <1>0, <1>2, <2>5 DEF AttachAsks
<1>3. CASE AttachAnswered
  <2>1. down # <<>>
    BY <1>3 DEF AttachAnswered, Hears
  <2>2. pend' = [pend EXCEPT !["lane"] = Idle]
    BY <1>3 DEF AttachAnswered, AttachSucceeds, AttachFails, TaskEnds, TaskDetaches
  <2> QED
    BY <1>0, <1>3, <2>1, <2>2, HeadFrameTypes DEF AttachAnswered
<1>4. CASE AttachLost
  <2>1. pend' = [pend EXCEPT !["lane"] = Idle] \/ pend' = [pend EXCEPT !["lane"] = Awaits(@.req)]
    BY <1>4 DEF AttachLost, AttachFails, TaskEnds, TaskDetaches
  <2> QED
    BY <1>0, <1>4, <2>1 DEF AttachLost
<1>5. CASE DetachBegins
  <2>1. Request("detach", 0, 0) \in Commands
    BY SetFacts, RequestTypes
  <2> QED
    BY <1>0, <1>5, <2>1 DEF DetachBegins, TaskEnds
<1>6. CASE DetachAnswered
  <2>1. down # <<>>
    BY <1>6 DEF DetachAnswered, Hears
  <2> QED
    BY <1>0, <1>6, <2>1, HeadFrameTypes DEF DetachAnswered, TaskEnds
<1>7. CASE DetachLost
  BY <1>0, <1>7 DEF DetachLost, TaskEnds
<1> QED
  BY <1>1, <1>2, <1>3, <1>4, <1>5, <1>6, <1>7 DEF LaneSteps

LEMMA SendsTypes ==
  ASSUME TypeInv, killing.st # "no", NEW g \in Gen, Sends(g)
  PROVE  pend' \in [Who -> Pending]
<1>1. Request("kill", killing.op, g) \in Commands
  BY RequestTypes, PlanTypes
<1> QED
  BY <1>1, PendingTypes DEF Sends, TypeInv, ConnTypes

LEMMA KillConn ==
  ASSUME TypeInv, KillSteps
  PROVE  ConnTypes'
<1> USE DEF TypeInv, ConnTypes
<1>0. /\ "kill" \in Who /\ NoRequest \in Commands /\ Idle \in Pending /\ 0 \in Call
      /\ \A r \in Commands : Awaits(r) \in Pending /\ Unsent(r) \in Pending
      /\ Dropped \in [Who -> Pending] /\ <<>> \in Seq(Frames)
  BY PendingTypes, DroppedTypes, SetFacts DEF Who
<1>1. CASE KillPrepares
  <2>1. Request("has", 0, 0) \in Commands
    BY SetFacts, RequestTypes
  <2>2. Plan.gen \in Gen /\ killing.st # "no"
    BY <1>1, PlanTypes DEF KillPrepares
  <2>3. pend' \in [Who -> Pending]
    BY <1>0, <1>1, <2>1, <2>2, SendsTypes DEF KillPrepares
  <2> QED
    BY <1>1, <2>3 DEF KillPrepares
<1>2. CASE KillProbed
  <2>1. down # <<>> /\ killing.st # "no"
    BY <1>2 DEF KillProbed, Hears
  <2>2. pend' \in [Who -> Pending]
    BY <1>2, <2>1, HeadFrameTypes, SendsTypes DEF KillProbed
  <2> QED
    BY <1>2, <2>1, <2>2, HeadFrameTypes DEF KillProbed
<1>3. CASE KillNotPrepared
  BY <1>0, <1>3 DEF KillNotPrepared
<1>4. CASE KillRetries
  <2>1. Request("kill", killing.op, Plan.gen) \in Commands
    BY <1>4, RequestTypes, PlanTypes DEF KillRetries
  <2> QED
    BY <1>0, <1>4, <2>1 DEF KillRetries
<1>5. CASE KillConfirmed
  <2>1. down # <<>>
    BY <1>5 DEF KillConfirmed, Hears
  <2> QED
    BY <1>0, <1>5, <2>1, HeadFrameTypes DEF KillConfirmed
<1>6. CASE KillRefused \/ KillLost
  <2>1. down' \in Seq(Frames)
    BY <1>0, <1>6, HeadFrameTypes DEF KillRefused, KillLost, Hears
  <2>2. [Dropped EXCEPT !["kill"] = Awaits(NoRequest)] \in [Who -> Pending]
    BY <1>0
  <2>3. pend' \in [Who -> Pending]
    BY <1>0, <1>6, <2>2 DEF KillRefused, KillLost, AttemptFails
  <2> QED
    BY <1>0, <1>6, <2>1, <2>3 DEF KillRefused, KillLost, AttemptFails, DropSocket
<1> QED
  BY <1>1, <1>2, <1>3, <1>4, <1>5, <1>6 DEF KillSteps

LEMMA SocketConn ==
  ASSUME TypeInv, SocketSteps
  PROVE  ConnTypes'
<1> USE DEF TypeInv, ConnTypes
<1>0. /\ "replay" \in Who /\ Idle \in Pending /\ 0 \in Call /\ obj \in Call
      /\ \A r \in Commands : Unsent(r) \in Pending
  BY PendingTypes, SetFacts DEF Who, ViewTypes
<1>1. CASE Connect
  <2>1. Request("existing", 0, Known(obj)) \in Commands
    BY <1>0, SetFacts, KnownTypes, RequestTypes
  <2>2. pend' \in [Who -> Pending] /\ replay' \in Call
    BY <1>0, <1>1, <2>1 DEF Connect
  <2>3. tried + 1 \in Sockets
    BY <1>1, NextSocket DEF Connect
  <2> QED
    BY <1>1, <2>2, <2>3 DEF Connect
<1>2. ASSUME NEW w \in Who, Resend(w) PROVE ConnTypes'
  BY <1>0, <1>2, TypeInvFacts DEF Resend
<1>3. ASSUME NEW w \in Who, Write(w) PROVE ConnTypes'
  <2>1. [who |-> w, req |-> pend[w].req] \in Posted
    BY TypeInvFacts DEF Posted
  <2>2. [pend[w] EXCEPT !.st = "sent"] \in Pending
    BY DEF Pending
  <2>0. \A q \in Seq(Posted) : Append(q, [who |-> w, req |-> pend[w].req]) \in Seq(Posted)
    BY <2>1
  <2>3. up' \in [Sockets -> Seq(Posted)]
    BY <1>3, <2>0 DEF Write
  <2>4. pend' = [pend EXCEPT ![w] = [pend[w] EXCEPT !.st = "sent"]]
    BY <1>3 DEF Write
  <2> QED
    BY <1>3, <2>2, <2>3, <2>4 DEF Write
<1>4. CASE ReplayAnswered
  <2>1. down # <<>>
    BY <1>4 DEF ReplayAnswered, Hears
  <2>2. Request("detach", 0, 0) \in Commands
    BY SetFacts, RequestTypes
  <2>3. pend' \in [Who -> Pending] /\ replay' \in Call
    BY <1>0, <1>4, <2>2
    DEF ReplayAnswered, ReplayEnds, ReplayRefused, ReplayIsStale, ReplayRestores
  <2> QED
    BY <1>4, <2>1, <2>3, HeadFrameTypes DEF ReplayAnswered
<1>5. CASE ExitArrives
  BY <1>5, HeadFrameTypes DEF ExitArrives, Hears
<1> QED
  BY <1>1, <1>2, <1>3, <1>4, <1>5 DEF SocketSteps

(* The steps of the host and of the world around the two. *)
Aside == \/ \E s \in Subs : Unsubscribe(s) \/ \E create \in BOOLEAN : Attach(s, create)
         \/ RivalCreates \/ LeaseExpires

LEMMA HostConn ==
  ASSUME TypeInv, HostSteps
  PROVE  ConnTypes'
<1> USE DEF TypeInv
<1>1. ASSUME NEW s \in Sockets,
             HostAttaches(s) \/ HostAttachesExisting(s) \/ HostDetaches(s) \/ HostIsProbed(s)
             \/ (HostKills(s) /\ ~HostTerminates(s, Head(up[s]).req.arg, Head(up[s]).req.gen))
      PROVE  ConnTypes'
  BY <1>1, HostAnswers, AnswerTypes
<1>2. ASSUME NEW s \in Sockets, HostTerminates(s, Head(up[s]).req.arg, Head(up[s]).req.gen)
      PROVE  ConnTypes'
  BY <1>2 DEF HostTerminates, netVars, ConnTypes
<1>3. ASSUME NEW s \in Sockets, HostCloses(s) PROVE ConnTypes'
  BY <1>3 DEF HostCloses, ConnTypes
<1> QED
  BY <1>1, <1>2, <1>3 DEF HostSteps

LEMMA WorldConn ==
  ASSUME TypeInv, World
  PROVE  ConnTypes'
<1> USE DEF TypeInv, ConnTypes
<1>1. CASE Aside
  BY <1>1 DEF Aside, Unsubscribe, Attach, RivalCreates, LeaseExpires, netVars
<1>2. ASSUME NEW mode \in Modes, Kill(mode) PROVE ConnTypes'
  BY <1>2, PendingTypes DEF Kill
<1>3. CASE Breaks
  <2>1. losses + 1 \in 0..MaxLosses
    BY <1>3, SetFacts DEF Breaks
  <2> QED
    BY <1>3, <2>1, DroppedTypes, SetFacts DEF Breaks, DropSocket
<1>4. CASE ConnectFails
  <2>1. losses + 1 \in 0..MaxLosses
    BY <1>4, SetFacts DEF ConnectFails
  <2>2. pend' \in [Who -> Pending]
    BY <1>4, LosesTypes DEF ConnectFails
  <2> QED
    BY <1>4, <2>1, <2>2 DEF ConnectFails
<1>5. CASE Ends \/ TerminationFails
  <2>1. Exit(host.live) \in Frames
    BY HostRecordTypes DEF Exit, Frames
  <2>2. <<Exit(host.live)>> \in Seq(Frames) /\ <<>> \in Seq(Frames)
    BY <2>1
  <2>3. \E ok \in BOOLEAN, f \in Seq(Frames) : AnswersKill(ok, f)
    BY <1>5, <2>2 DEF Ends, TerminationFails
  <2>4. up' \in [Sockets -> Seq(Posted)] /\ down' \in Seq(Frames)
    BY <2>3, AnswerKillTypes
  <2> QED
    BY <1>5, <2>4 DEF Ends, TerminationFails
<1> QED
  BY <1>1, <1>2, <1>3, <1>4, <1>5 DEF World, Aside

(* The client's record of the name. *)
LEMMA StateTypes ==
  ASSUME ViewTypes, NEW o \in Asked
  PROVE  /\ states[o] \in State /\ states[o].gen \in Gen
         /\ states[o].on \in Sockets \union {0} /\ states[o].exited \in BOOLEAN
BY DEF ViewTypes, State

LEMMA TaskTypes ==
  ASSUME ViewTypes
  PROVE  /\ task.token \in Op /\ task.tries \in 0..2 /\ task.on \in BOOLEAN
         /\ NoTask \in [on : BOOLEAN, token : Op, tries : 0..2]
         /\ [NoTask EXCEPT !.on = TRUE] \in [on : BOOLEAN, token : Op, tries : 0..2]
<1>1. task.token \in Op /\ task.tries \in 0..2 /\ task.on \in BOOLEAN
  BY DEF ViewTypes
<1>2. 0 \in Op /\ 0 \in 0..2
  BY SetFacts
<1> QED
  BY <1>1, <1>2 DEF NoTask

LEMMA LaneLeaves ==
  ASSUME TypeInv, lane # <<>>, NEW o \in Asked
  PROVE  Tail(lane) \in Seq(Job) /\ <<DetachOf(o)>> \o Tail(lane) \in Seq(Job)
<1>1. DetachOf(o) \in Job
  BY DEF DetachOf, Job
<1>2. <<DetachOf(o)>> \in Seq(Job)
  BY <1>1
<1> QED
  BY <1>2, LaneHeadTypes

(* What the end of an attach does to the lane and to the task. *)
LEMMA LaneAfterTask ==
  ASSUME TypeInv, lane # <<>>, NEW o \in Asked, TaskEnds \/ TaskDetaches(o)
  PROVE  lane' \in Seq(Job) /\ task' \in [on : BOOLEAN, token : Op, tries : 0..2]
BY LaneLeaves, TaskTypes DEF TaskEnds, TaskDetaches, TypeInv

LEMMA AttachFailsView ==
  ASSUME TypeInv, lane # <<>>, Head(lane).does = "attach", AttachFails(Head(lane).of)
  PROVE  ViewTypes'
<1> DEFINE a == Head(lane).of
<1>1. a \in Asked /\ asks[a].state \in Asked /\ asks[a].sub \in Subs
  BY LaneHeadTypes
<1>2. lane' \in Seq(Job) /\ task' \in [on : BOOLEAN, token : Op, tries : 0..2]
  BY <1>1, LaneAfterTask DEF AttachFails
<1>3. entry' \in [Subs -> Call] /\ obj' \in Call /\ seen' \in Gen
  BY SetFacts DEF AttachFails, TypeInv, ViewTypes
<1> QED
  BY <1>2, <1>3 DEF AttachFails, TypeInv, ViewTypes

LEMMA AttachSucceedsView ==
  ASSUME TypeInv, lane # <<>>, Head(lane).does = "attach",
         NEW g \in Gen, AttachSucceeds(Head(lane).of, g)
  PROVE  ViewTypes'
<1> DEFINE a == Head(lane).of
<1>1. a \in Asked /\ asks[a].state \in Asked /\ asks[a].sub \in Subs
  BY LaneHeadTypes
<1>2. lane' \in Seq(Job) /\ task' \in [on : BOOLEAN, token : Op, tries : 0..2]
  BY <1>1, LaneAfterTask DEF AttachSucceeds
<1>3. [states[asks[a].state] EXCEPT !.gen = g, !.on = sock] \in State
  BY <1>1, StateTypes DEF State, TypeInv, ConnTypes
<1>4. states' \in [Asked -> State]
  BY <1>1, <1>3 DEF AttachSucceeds, TypeInv, ViewTypes
<1>5. joined' \in [Subs -> Gen] /\ seen' \in Gen
  BY DEF AttachSucceeds, TypeInv, ViewTypes
<1> QED
  BY <1>2, <1>4, <1>5 DEF AttachSucceeds, TypeInv, ViewTypes

LEMMA LaneView ==
  ASSUME TypeInv, LaneSteps
  PROVE  ViewTypes'
<1>1. CASE AttachBegins \/ DetachBegins
  <2>1. lane # <<>>
    BY <1>1 DEF AttachBegins, DetachBegins, Turn
  <2>2. lane' \in Seq(Job) /\ task' \in [on : BOOLEAN, token : Op, tries : 0..2]
    BY <1>1, <2>1, LaneHeadTypes, TaskTypes
    DEF AttachBegins, DetachBegins, TaskEnds, TypeInv, ViewTypes
  <2> QED
    BY <1>1, <2>2 DEF AttachBegins, DetachBegins, TypeInv, ViewTypes
<1>2. CASE AttachAsks
  <2>1. token \in Op
    BY DEF TypeInv, KillTypes
  <2>2. \A t \in Op, n \in 0..2 : [on |-> TRUE, token |-> t, tries |-> n]
                                   \in [on : BOOLEAN, token : Op, tries : 0..2]
    OBVIOUS
  <2>3. task' \in [on : BOOLEAN, token : Op, tries : 0..2]
    BY <1>2, <2>1, <2>2, SetFacts DEF AttachAsks
  <2> QED
    BY <1>2, <2>3 DEF AttachAsks, TypeInv, ViewTypes
<1>3. CASE AttachAnswered
  <2>1. lane # <<>> /\ Head(lane).does = "attach" /\ down # <<>>
    BY <1>3 DEF AttachAnswered, Runs, Hears
  <2>2. Head(down).gen \in Gen
    BY <2>1, HeadFrameTypes
  <2> QED
    BY <1>3, <2>1, <2>2, AttachFailsView, AttachSucceedsView DEF AttachAnswered
<1>4. CASE AttachLost
  <2>1. lane # <<>> /\ Head(lane).does = "attach"
    BY <1>4 DEF AttachLost, Runs
  <2>2. CASE task.tries > 1
    <3>1. task.tries - 1 \in 0..2
      BY <2>2, TaskTypes DEF TypeInv
    <3>2. task' \in [on : BOOLEAN, token : Op, tries : 0..2]
      BY <1>4, <2>2, <3>1 DEF AttachLost, TypeInv, ViewTypes
    <3> QED
      BY <1>4, <2>2, <3>2 DEF AttachLost, TypeInv, ViewTypes
  <2> QED
    BY <1>4, <2>1, <2>2, AttachFailsView DEF AttachLost
<1>5. CASE DetachAnswered
  <2>1. lane # <<>>
    BY <1>5 DEF DetachAnswered, Runs
  <2>2. Head(lane).of \in Asked /\ Tail(lane) \in Seq(Job)
    BY <2>1, LaneHeadTypes
  <2>3. [states[Head(lane).of] EXCEPT !.on = 0] \in State
    BY <2>2, StateTypes DEF State, TypeInv
  <2>4. states' \in [Asked -> State]
    BY <1>5, <2>2, <2>3 DEF DetachAnswered, TypeInv, ViewTypes
  <2> QED
    BY <1>5, <2>2, <2>4, TaskTypes DEF DetachAnswered, TaskEnds, TypeInv, ViewTypes
<1>6. CASE DetachLost
  BY <1>6, LaneHeadTypes, TaskTypes DEF DetachLost, Runs, TaskEnds, TypeInv, ViewTypes
<1> QED
  BY <1>1, <1>2, <1>3, <1>4, <1>5, <1>6 DEF LaneSteps

(* Who leaves the client's record alone. *)
LEMMA HostLeavesClient ==
  ASSUME TypeInv, HostSteps
  PROVE  UNCHANGED <<sock, tried, losses, replay, pend, attachVars, seen, killVars>>
<1> USE DEF TypeInv
<1>1. ASSUME NEW s \in Sockets,
             HostAttaches(s) \/ HostAttachesExisting(s) \/ HostDetaches(s) \/ HostIsProbed(s)
             \/ (HostKills(s) /\ ~HostTerminates(s, Head(up[s]).req.arg, Head(up[s]).req.gen))
      PROVE  UNCHANGED <<sock, tried, losses, replay, pend, attachVars, seen, killVars>>
  BY <1>1, HostAnswers DEF Answers
<1>2. ASSUME NEW s \in Sockets, HostTerminates(s, Head(up[s]).req.arg, Head(up[s]).req.gen)
      PROVE  UNCHANGED <<sock, tried, losses, replay, pend, attachVars, seen, killVars>>
  BY <1>2 DEF HostTerminates, netVars
<1>3. ASSUME NEW s \in Sockets, HostCloses(s)
      PROVE  UNCHANGED <<sock, tried, losses, replay, pend, attachVars, seen, killVars>>
  BY <1>3 DEF HostCloses
<1> QED
  BY <1>1, <1>2, <1>3 DEF HostSteps

LEMMA KillView ==
  ASSUME TypeInv, KillSteps
  PROVE  ViewTypes'
<1> USE DEF TypeInv
<1>1. CASE KillPrepares \/ KillNotPrepared \/ KillRetries \/ KillRefused \/ KillLost
  BY <1>1 DEF KillPrepares, KillNotPrepared, KillRetries, KillRefused, KillLost, AttemptFails,
              attachVars, killVars, ViewTypes
<1>2. CASE KillProbed
  <2>1. Head(down).gen \in Gen
    BY <1>2, HeadFrameTypes DEF KillProbed, Hears
  <2> QED
    BY <1>2, <2>1 DEF KillProbed, attachVars, ViewTypes
<1>3. CASE KillConfirmed
  <2>1. obj # 0 => obj \in Asked /\ [states[obj] EXCEPT !.on = 0] \in State
    <3>1. obj # 0 => obj \in Asked
      BY SetFacts DEF ViewTypes
    <3>2. \A c \in State : [c EXCEPT !.on = 0] \in State
      BY DEF State
    <3>3. obj # 0 => states[obj] \in State
      BY <3>1, StateTypes
    <3> QED
      BY <3>1, <3>2, <3>3
  <2>2. states' \in [Asked -> State]
    BY <1>3, <2>1 DEF KillConfirmed, ViewTypes
  <2> QED
    BY <1>3, <2>2, SetFacts DEF KillConfirmed, ViewTypes
<1> QED
  BY <1>1, <1>2, <1>3 DEF KillSteps

LEMMA SocketView ==
  ASSUME TypeInv, SocketSteps
  PROVE  ViewTypes'
<1> USE DEF TypeInv
<1>1. CASE Connect \/ \E w \in Who : Resend(w) \/ Write(w)
  BY <1>1 DEF Connect, Resend, Write, attachVars, ViewTypes
<1>2. CASE ReplayAnswered
  <2>1. down # <<>> /\ Head(down).gen \in Gen
    BY <1>2, HeadFrameTypes DEF ReplayAnswered, Hears
  <2>2. replay \in Asked => \A g \in Gen : [states[replay] EXCEPT !.gen = g, !.on = sock] \in State
                                     /\ [states[replay] EXCEPT !.gen = 0, !.on = 0] \in State
    BY SetFacts, StateTypes DEF State, ConnTypes
  <2>3. \A g \in Gen : /\ [states EXCEPT ![replay].gen = g, ![replay].on = sock] \in [Asked -> State]
                       /\ [states EXCEPT ![replay].gen = 0, ![replay].on = 0] \in [Asked -> State]
    BY <2>2 DEF ViewTypes
  <2>4. CASE ReplayRestores(Head(down).gen)
    BY <1>2, <2>1, <2>3, <2>4 DEF ReplayAnswered, ReplayRestores, ViewTypes
  <2>5. CASE ReplayRefused
    <3>1. states' \in [Asked -> State]
      BY <2>1, <2>3, <2>5 DEF ReplayRefused
    <3>2. entry' \in [Subs -> Call] /\ joined' \in [Subs -> Gen] /\ obj' \in Call /\ seen' \in Gen
      BY <2>5, SetFacts DEF ReplayRefused, ViewTypes
    <3> QED
      BY <1>2, <3>1, <3>2 DEF ReplayAnswered, ViewTypes
  <2> QED
    BY <1>2, <2>4, <2>5 DEF ReplayAnswered, ReplayIsStale, ViewTypes
<1>3. CASE ExitArrives
  <2>1. Head(down).gen \in Gen
    BY <1>3, HeadFrameTypes DEF ExitArrives, Hears
  <2>2. CASE Concerns(Head(down).gen)
    <3>1. obj \in Asked
      BY <2>2, SetFacts DEF Concerns, ViewTypes
    <3>2. states[obj].exited \in BOOLEAN /\ PreAck \in BOOLEAN
      BY <3>1, StateTypes DEF PreAck
    <3>3. /\ entry' = [s \in Subs |-> IF s \in Attached(joined) THEN 0 ELSE entry[s]]
          /\ joined' = [s \in Subs |-> 0]
          /\ states' = [states EXCEPT ![obj] =
               [gen |-> IF Attached(joined) = {} THEN Head(down).gen ELSE 0, on |-> 0,
                exited |-> @.exited \/ (Attached(joined) = {} /\ PreAck)]]
          /\ seen' = IF Attached(joined) = {} THEN Head(down).gen ELSE 0
          /\ obj' \in {0, obj}
      BY <1>3, <2>2 DEF ExitArrives
    <3>4. [gen |-> IF Attached(joined) = {} THEN Head(down).gen ELSE 0, on |-> 0,
           exited |-> states[obj].exited \/ (Attached(joined) = {} /\ PreAck)] \in State
      BY <2>1, <3>2, SetFacts DEF State
    <3>5. states' \in [Asked -> State]
      BY <3>3, <3>4 DEF ViewTypes
    <3> QED
      BY <1>3, <2>1, <3>3, <3>5, SetFacts DEF ExitArrives, ViewTypes
  <2> QED
    BY <1>3, <2>2 DEF ExitArrives, ViewTypes
<1> QED
  BY <1>1, <1>2, <1>3 DEF SocketSteps

LEMMA WorldView ==
  ASSUME TypeInv, World
  PROVE  ViewTypes'
<1> USE DEF TypeInv
<1>1. ASSUME NEW s \in Subs, NEW create \in BOOLEAN, Attach(s, create) PROVE ViewTypes'
  <2> DEFINE a == Len(asks) + 1
  <2>1. a \in Asked /\ a \in Call
    BY <1>1, SetFacts DEF Attach, ViewTypes, Asked
  <2>2. obj' \in Asked /\ obj' \in Call
    BY <1>1, <2>1, SetFacts DEF Attach, ViewTypes
  <2>3. [sub |-> s, create |-> create, state |-> obj'] \in Ask /\ [does |-> "attach", of |-> a] \in Job
    BY <2>1, <2>2 DEF Ask, Job
  <2>4. asks' \in Seq(Ask) /\ lane' \in Seq(Job)
    BY <1>1, <2>3 DEF Attach, ViewTypes
  <2> QED
    BY <1>1, <2>1, <2>2, <2>4 DEF Attach, ViewTypes
<1>2. ASSUME NEW s \in Subs, Unsubscribe(s) PROVE ViewTypes'
  <2>1. obj \in Asked
    BY <1>2, SetFacts DEF Unsubscribe, NamesKept, ViewTypes
  <2>2. DetachOf(obj) \in Job
    BY <2>1 DEF DetachOf, Job
  <2>3. \/ obj' = 0 /\ lane' = Append(lane, DetachOf(obj))
        \/ obj' = obj /\ lane' = lane
    BY <1>2 DEF Unsubscribe
  <2>4. Append(lane, DetachOf(obj)) \in Seq(Job)
    BY <2>2 DEF ViewTypes
  <2>5. lane' \in Seq(Job) /\ obj' \in Call
    BY <2>3, <2>4, SetFacts DEF ViewTypes
  <2> QED
    BY <1>2, <2>5, SetFacts DEF Unsubscribe, ViewTypes
<1>3. CASE \E mode \in Modes : Kill(mode)
  BY <1>3 DEF Kill, attachVars, ViewTypes
<1>4. CASE Breaks \/ ConnectFails \/ Ends \/ TerminationFails \/ RivalCreates \/ LeaseExpires
  BY <1>4 DEF Breaks, ConnectFails, Ends, TerminationFails, RivalCreates, LeaseExpires,
              attachVars, ViewTypes
<1> QED
  BY <1>1, <1>2, <1>3, <1>4 DEF World

(* The kills. *)
KillingTypes == [st : {"no", "prepare", "confirm"}, op : Op, attempt : 0..Attempts]

LEMMA IdentityUpdate ==
  ASSUME NEW p \in Identities, NEW g \in Gen
  PROVE  [p EXCEPT !.gen = g, !.prepared = TRUE] = [gen |-> g, mode |-> p.mode, prepared |-> TRUE]
<1> DEFINE q == [p EXCEPT !.gen = g, !.prepared = TRUE]
<1>1. q \in Identities /\ q.gen = g /\ q.mode = p.mode /\ q.prepared = TRUE
  BY DEF Identities
<1>2. q = [gen |-> q.gen, mode |-> q.mode, prepared |-> q.prepared]
  <2> HIDE DEF q
  <2> QED
    BY <1>1 DEF Identities
<1> QED
  BY <1>1, <1>2

LEMMA SendsPlans ==
  ASSUME TypeInv, killing.st # "no", NEW g \in Gen, Sends(g)
  PROVE  /\ plans' \in Seq(Identities) /\ Len(plans') = Len(plans)
         /\ \A o \in 1..Len(plans) : plans'[o] =
              IF o = killing.op THEN [gen |-> g, mode |-> Plan.mode, prepared |-> TRUE] ELSE plans[o]
         /\ meant' \in Gen
         /\ killing' \in KillingTypes /\ killing'.st = "confirm" /\ killing'.attempt = 1
         /\ killing'.op = killing.op
<1> USE DEF TypeInv
<1>1. killing.op \in 1..Len(plans) /\ Plan \in Identities /\ Plan = plans[killing.op]
  BY PlanTypes DEF Plan
<1>2. [Plan EXCEPT !.gen = g, !.prepared = TRUE] = [gen |-> g, mode |-> Plan.mode, prepared |-> TRUE]
  BY <1>1, IdentityUpdate
<1>3. [gen |-> g, mode |-> Plan.mode, prepared |-> TRUE] \in Identities
  BY <1>1 DEF Identities
<1>4. plans' = [plans EXCEPT ![killing.op] = [gen |-> g, mode |-> Plan.mode, prepared |-> TRUE]]
  <2>1. plans' = [plans EXCEPT ![killing.op] = [plans[killing.op] EXCEPT !.gen = g, !.prepared = TRUE]]
    BY <1>1 DEF Sends, KillTypes
  <2> QED
    BY <1>1, <1>2, <2>1
<1>5. /\ plans' \in Seq(Identities) /\ Len(plans') = Len(plans)
      /\ \A o \in 1..Len(plans) : plans'[o] =
           IF o = killing.op THEN [gen |-> g, mode |-> Plan.mode, prepared |-> TRUE] ELSE plans[o]
  BY <1>1, <1>3, <1>4 DEF KillTypes
<1>6. 1 \in 0..Attempts
  BY SetFacts
<1>7. /\ killing' \in KillingTypes /\ killing'.st = "confirm" /\ killing'.attempt = 1
      /\ killing'.op = killing.op
  BY <1>6 DEF Sends, KillTypes, KillingTypes
<1>8. meant' \in Gen
  BY DEF Sends, KillTypes
<1> QED
  BY <1>5, <1>7, <1>8

LEMMA LaneKill ==
  ASSUME TypeInv, LaneSteps
  PROVE  /\ token' \in {token, 0} /\ op' \in {op, 0}
         /\ UNCHANGED <<barrier, plans, killing, calls, meant, dead, dropped, open, host>>
<1>1. CASE AttachBegins \/ AttachAsks \/ DetachBegins \/ DetachAnswered \/ DetachLost
  BY <1>1 DEF AttachBegins, AttachAsks, DetachBegins, DetachAnswered, DetachLost, killVars
<1>2. CASE AttachAnswered
  BY <1>2 DEF AttachAnswered, AttachFails, AttachSucceeds
<1>3. CASE AttachLost
  BY <1>3 DEF AttachLost, AttachFails
<1> QED
  BY <1>1, <1>2, <1>3 DEF LaneSteps

LEMMA AttemptKilling ==
  ASSUME TypeInv, AttemptFails, killing.st = "confirm"
  PROVE  /\ killing' \in KillingTypes
         /\ \/ killing' = NotKilling
            \/ /\ killing'.st = "confirm" /\ killing'.op = killing.op
               /\ killing'.attempt = killing.attempt + 1 /\ killing.attempt < Attempts
<1>1. CASE killing.attempt < Attempts
  <2>1. killing.attempt + 1 \in 0..Attempts
    BY <1>1, TypeInvFacts, SetFacts
  <2>2. killing' = [killing EXCEPT !.attempt = killing.attempt + 1]
    BY <1>1 DEF AttemptFails
  <2> QED
    BY <1>1, <2>1, <2>2 DEF TypeInv, KillTypes, KillingTypes
<1>2. CASE ~(killing.attempt < Attempts)
  <2>1. 0 \in Op /\ 0 \in 0..Attempts
    BY SetFacts
  <2> QED
    BY <1>2, <2>1 DEF AttemptFails, NotKilling, KillingTypes
<1> QED
  BY <1>1, <1>2

LEMMA KillStepsKill ==
  ASSUME TypeInv, KillSteps
  PROVE  KillTypes' /\ UNCHANGED <<open, host>>
<1> USE DEF TypeInv, KillTypes
<1>0. NotKilling \in KillingTypes /\ 0 \in Op /\ 0 \in Gen
  BY SetFacts DEF NotKilling, KillingTypes
<1>1. CASE KillPrepares
  <2>1. killing.st # "no" /\ Plan.gen \in Gen
    BY <1>1, PlanTypes DEF KillPrepares
  <2>2. CASE Sends(Plan.gen)
    BY <1>1, <2>1, <2>2, SendsPlans DEF KillPrepares, KillingTypes
  <2>3. CASE UNCHANGED <<plans, meant, killing>>
    BY <1>1, <2>3 DEF KillPrepares
  <2> QED
    BY <1>1, <2>2, <2>3 DEF KillPrepares
<1>2. CASE KillProbed
  <2>1. killing.st # "no" /\ Head(down).gen \in Gen
    BY <1>2, HeadFrameTypes DEF KillProbed, Hears
  <2> QED
    BY <1>2, <2>1, SendsPlans DEF KillProbed, KillingTypes
<1>3. CASE KillNotPrepared
  BY <1>0, <1>3 DEF KillNotPrepared, KillingTypes
<1>4. CASE KillRetries
  BY <1>4 DEF KillRetries, killVars
<1>5. CASE KillConfirmed
  <2>1. Plan.gen \in Gen /\ killing.op \in Op
    BY <1>5, PlanTypes DEF KillConfirmed
  <2>2. {Plan.gen} \ {0} \subseteq 1..MaxGens
    BY <2>1, SetFacts DEF Gen
  <2>3. {joined[s] : s \in Attached(joined)} \subseteq 1..MaxGens
    <3>1. \A s \in Attached(joined) : joined[s] \in Gen /\ joined[s] # 0
      BY DEF Attached, ViewTypes
    <3> QED
      BY <3>1, SetFacts DEF Gen
  <2>4. dead' \subseteq 1..MaxGens /\ dropped' \subseteq 1..MaxGens
    BY <1>5, <2>2, <2>3 DEF KillConfirmed
  <2> QED
    BY <1>0, <1>5, <2>1, <2>4 DEF KillConfirmed, KillingTypes
<1>6. CASE KillRefused \/ KillLost
  <2>1. AttemptFails /\ killing.st = "confirm"
    BY <1>6 DEF KillRefused, KillLost
  <2> QED
    BY <2>1, AttemptKilling DEF AttemptFails, KillingTypes
<1> QED
  BY <1>1, <1>2, <1>3, <1>4, <1>5, <1>6 DEF KillSteps

LEMMA KillBegins ==
  ASSUME TypeInv, NEW mode \in Modes, Kill(mode)
  PROVE  /\ plans' \in Seq(Identities) /\ op' \in 1..Len(plans') /\ op' \in Op
         /\ \/ op = 0 /\ op' = Len(plans) + 1 /\ plans' = Append(plans, Identity(mode))
            \/ op # 0 /\ op' = op /\ plans' = plans
         /\ Len(plans') <= calls + 1
         /\ Identity(mode) \in Identities
<1> USE DEF TypeInv, KillTypes
<1>1. Len(plans) <= calls /\ op <= Len(plans) /\ op \in Nat /\ calls < MaxKills
  BY SetFacts DEF Kill, NamesKept
<1>2. op # 0 => op \in 1..Len(plans)
  BY <1>1
<1>3. Identity(mode) \in Identities
  <2>1. Known(obj) \in Gen
    BY KnownTypes DEF ViewTypes
  <2>2. [gen |-> Known(obj), mode |-> mode, prepared |-> FALSE] \in Identities
    BY <2>1 DEF Identities
  <2> QED
    BY <1>2, <2>2 DEF Identity
<1>4. CASE op = 0
  <2>1. op' = Len(plans) + 1 /\ plans' = Append(plans, Identity(mode))
    BY <1>4 DEF Kill
  <2>2. Len(plans') = Len(plans) + 1 /\ plans' \in Seq(Identities)
    BY <1>3, <2>1
  <2>3. op' \in Op
    BY <1>1, <2>1, SetFacts DEF Op
  <2> QED
    BY <1>1, <1>3, <1>4, <2>1, <2>2, <2>3
<1>5. CASE op # 0
  <2>1. op' = op /\ plans' = [plans EXCEPT ![op] = plans[op]]
    BY <1>5 DEF Kill, Identity
  <2>2. plans' = plans
    BY <1>2, <1>5, <2>1
  <2> QED
    BY <1>1, <1>2, <1>3, <1>5, <2>1, <2>2
<1> QED
  BY <1>4, <1>5

LEMMA KillStarts ==
  ASSUME TypeInv, NEW mode \in Modes, Kill(mode)
  PROVE  KillTypes' /\ UNCHANGED <<open, host>>
<1> USE DEF TypeInv, KillTypes
<1>1. calls + 1 \in 0..MaxKills
  BY SetFacts DEF Kill
<1>2. meant' \in Gen
  BY KnownTypes DEF Kill, ViewTypes
<1>3. [st |-> "prepare", op |-> op', attempt |-> 0] \in KillingTypes
  BY KillBegins, SetFacts DEF KillingTypes
<1> QED
  BY <1>1, <1>2, <1>3, KillBegins DEF Kill, KillingTypes

(* The host's record. *)
LEMMA CompletesTypes ==
  ASSUME HostTypes, NEW o \in Op, NEW g \in Gen
  PROVE  Completes(o, g) \subseteq [op : Op, gen : Gen]
BY HostRecordTypes DEF Completes

LEMMA HostHost ==
  ASSUME TypeInv, HostSteps
  PROVE  HostTypes'
<1> USE DEF TypeInv
<1>0. open \subseteq Sockets /\ host \in Record
  BY DEF HostTypes
<1>1. ASSUME NEW s \in Sockets, HostAttaches(s) PROVE HostTypes'
  <2> DEFINE tok == Head(up[s]).req.arg
             g   == host.born + 1
  <2>1. up[s] # <<>>
    BY <1>1, HostTakesType DEF HostAttaches
  <2>2. tok \in Op
    BY <2>1, HeadRequestTypes
  <2>3. UNCHANGED open
    BY <1>1 DEF HostAttaches, Refuses, Subscribes, Answers
  <2>4. g <= MaxGens => g \in Gen
    BY HostRecordTypes, SetFacts DEF Gen
  <2>5. \/ host' = host
        \/ host' = [host EXCEPT !.subs = @ \union {s}]
        \/ g <= MaxGens /\ host' = [host EXCEPT !.live = g, !.born = g, !.by[g] = tok,
                                                !.subs = {s}, !.lease = 0]
        \/ host' = [host EXCEPT !.lease = 0]
    BY <1>1 DEF HostAttaches, Refuses, Subscribes
  <2>6. CASE g <= MaxGens /\ host' = [host EXCEPT !.live = g, !.born = g, !.by[g] = tok,
                                                  !.subs = {s}, !.lease = 0]
    <3>1. [host.by EXCEPT ![g] = tok] \in [1..MaxGens -> Op]
      BY <2>2, HostRecordTypes
    <3>2. host' = [host EXCEPT !.live = g, !.born = g, !.by = [host.by EXCEPT ![g] = tok],
                               !.subs = {s}, !.lease = 0]
      BY <2>6
    <3>3. {s} \in SUBSET Sockets
      OBVIOUS
    <3>4. host' \in Record
      <4> HIDE DEF g, tok
      <4> QED
        BY <1>0, <2>4, <2>6, <3>1, <3>2, <3>3, SetFacts DEF Record
    <3> QED
      BY <2>3, <3>4, <1>0 DEF HostTypes
  <2>7. CASE host' = [host EXCEPT !.subs = @ \union {s}]
    <3>1. host.subs \union {s} \in SUBSET Sockets
      BY HostRecordTypes
    <3>2. host' \in Record
      BY <1>0, <2>7, <3>1 DEF Record
    <3> QED
      BY <2>3, <3>2, <1>0 DEF HostTypes
  <2>8. CASE host' = [host EXCEPT !.lease = 0]
    <3>1. host' \in Record
      BY <1>0, <2>8, SetFacts DEF Record
    <3> QED
      BY <2>3, <3>1, <1>0 DEF HostTypes
  <2>9. CASE host' = host
    BY <1>0, <2>3, <2>9 DEF HostTypes
  <2> QED
    BY <2>5, <2>6, <2>7, <2>8, <2>9
<1>2. ASSUME NEW s \in Sockets,
             HostAttachesExisting(s) \/ HostDetaches(s) \/ HostIsProbed(s) \/ HostCloses(s)
      PROVE  HostTypes'
  <2>1. open' \subseteq open
    BY <1>2 DEF HostAttachesExisting, HostDetaches, HostIsProbed, HostCloses, Refuses, Subscribes, Answers
  <2>2. host.subs \union {s} \in SUBSET Sockets /\ host.subs \ {s} \in SUBSET Sockets
    BY HostRecordTypes
  <2>3. \E t \in SUBSET Sockets : host' \in {host, [host EXCEPT !.subs = t]}
    BY <1>2, <2>2 DEF HostAttachesExisting, HostDetaches, HostIsProbed, HostCloses, Refuses, Subscribes
  <2>4. host' \in Record
    BY <1>0, <2>3 DEF Record
  <2> QED
    BY <1>0, <2>1, <2>4 DEF HostTypes
<1>3. ASSUME NEW s \in Sockets, HostKills(s) PROVE HostTypes'
  <2> DEFINE o == Head(up[s]).req.arg
             g == Head(up[s]).req.gen
  <2>1. up[s] # <<>>
    BY <1>3, HostTakesType DEF HostKills
  <2>2. o \in Op /\ g \in Gen
    BY <2>1, HeadRequestTypes
  <2>3. Completes(o, g) \subseteq [op : Op, gen : Gen]
    BY <2>2, CompletesTypes
  <2>4. UNCHANGED open
    BY <1>3 DEF HostKills, HostReplays, HostFindsItGone, HostFindsAnother, HostTerminates,
                Refuses, Answers
  <2>5. HostReplays(s, o, g) \/ HostFindsItGone(s, o, g) \/ HostFindsAnother(s, o, g)
        \/ HostTerminates(s, o, g)
    BY <1>3 DEF HostKills
  <2>6. \E l \in Op, d \in Op, c \in SUBSET [op : Op, gen : Gen] :
          host' \in {host, [host EXCEPT !.lease = l], [host EXCEPT !.dying = d], [host EXCEPT !.done = c],
                    [host EXCEPT !.lease = l, !.done = c]}
    <3> HIDE DEF o, g
    <3>1. host.lease \in Op /\ host.dying \in Op /\ host.done \in SUBSET [op : Op, gen : Gen]
      BY HostRecordTypes
    <3>2. CASE HostReplays(s, o, g)
      BY <2>2, <3>1, <3>2 DEF HostReplays, Refuses
    <3>3. CASE HostFindsItGone(s, o, g)
      BY <2>2, <2>3, <3>1, <3>3 DEF HostFindsItGone, Refuses
    <3>4. CASE HostFindsAnother(s, o, g)
      BY <2>2, <2>3, <3>1, <3>4 DEF HostFindsAnother, Refuses
    <3>5. CASE HostTerminates(s, o, g)
      BY <2>2, <3>1, <3>5 DEF HostTerminates
    <3> QED
      BY <2>5, <3>2, <3>3, <3>4, <3>5
  <2>7. host' \in Record
    BY <1>0, <2>6 DEF Record
  <2> QED
    BY <1>0, <2>4, <2>7 DEF HostTypes
<1> QED
  BY <1>1, <1>2, <1>3 DEF HostSteps

LEMMA WorldHost ==
  ASSUME TypeInv, World
  PROVE  HostTypes'
<1> USE DEF TypeInv
<1>0. open \subseteq Sockets /\ host \in Record
  BY DEF HostTypes
<1>1. CASE Ends
  <2> DEFINE l == IF host.dying # 0 /\ Reserves(plans[host.dying].mode) THEN host.dying ELSE host.lease
             c == IF host.dying # 0 THEN Completes(host.dying, host.live) ELSE host.done
  <2>1. l \in Op /\ c \in SUBSET [op : Op, gen : Gen]
    BY HostRecordTypes, CompletesTypes
  <2>2. host' = [host EXCEPT !.live = 0, !.subs = {}, !.dying = 0, !.lease = l, !.done = c]
    BY <1>1 DEF Ends
  <2>3. host' \in Record
    <3> HIDE DEF l, c
    <3> QED
      BY <1>0, <2>1, <2>2, SetFacts DEF Record
  <2> QED
    BY <1>0, <1>1, <2>3 DEF Ends, HostTypes
<1>2. CASE TerminationFails \/ LeaseExpires
  <2>1. host' \in {[host EXCEPT !.dying = 0], [host EXCEPT !.lease = 0]}
    BY <1>2 DEF TerminationFails, LeaseExpires
  <2> QED
    BY <1>0, <1>2, <2>1, SetFacts DEF TerminationFails, LeaseExpires, HostTypes, Record
<1>3. CASE RivalCreates
  <2>1. host.born + 1 \in Gen
    BY <1>3, HostRecordTypes, SetFacts DEF RivalCreates, Gen
  <2> QED
    BY <1>0, <1>3, <2>1 DEF RivalCreates, HostTypes, Record
<1>4. CASE (\E s \in Subs : Unsubscribe(s) \/ \E create \in BOOLEAN : Attach(s, create))
           \/ (\E mode \in Modes : Kill(mode)) \/ Breaks \/ ConnectFails
  BY <1>0, <1>4 DEF Unsubscribe, Attach, Kill, Breaks, ConnectFails, HostTypes
<1> QED
  BY <1>1, <1>2, <1>3, <1>4 DEF World

LEMMA SocketHost ==
  ASSUME TypeInv, SocketSteps
  PROVE  HostTypes'
<1>1. CASE Connect
  <2>1. tried + 1 \in Sockets
    BY <1>1, NextSocket DEF Connect
  <2> QED
    BY <1>1, <2>1 DEF Connect, HostTypes, TypeInv
<1>2. CASE (\E w \in Who : Resend(w) \/ Write(w)) \/ ReplayAnswered \/ ExitArrives
  BY <1>2 DEF Resend, Write, ReplayAnswered, ExitArrives, HostTypes, TypeInv
<1> QED
  BY <1>1, <1>2 DEF SocketSteps

LEMMA WorldKill ==
  ASSUME TypeInv, World
  PROVE  KillTypes'
<1>1. CASE \E mode \in Modes : Kill(mode)
  BY <1>1, KillStarts
<1>2. CASE UNCHANGED killVars
  BY <1>2 DEF killVars, KillTypes, TypeInv
<1>3. World => UNCHANGED killVars \/ \E mode \in Modes : Kill(mode)
  BY DEF World, Unsubscribe, Attach, Breaks, ConnectFails, Ends, TerminationFails, RivalCreates,
         LeaseExpires
<1> QED
  BY <1>1, <1>2, <1>3

LEMMA SocketKill ==
  ASSUME TypeInv, SocketSteps
  PROVE  UNCHANGED killVars
BY DEF SocketSteps, Connect, Resend, Write, ReplayAnswered, ExitArrives

LEMMA TypesStep ==
  ASSUME TypeInv, Next
  PROVE  ConnTypes' /\ ViewTypes' /\ KillTypes' /\ HostTypes'
<1>1. CASE LaneSteps
  <2>1. KillTypes' /\ HostTypes'
    BY <1>1, LaneKill, SetFacts DEF TypeInv, KillTypes, HostTypes
  <2> QED
    BY <1>1, <2>1, LaneConn, LaneView
<1>2. CASE KillSteps
  BY <1>2, KillConn, KillView, KillStepsKill DEF HostTypes, TypeInv
<1>3. CASE SocketSteps
  <2>1. KillTypes'
    BY <1>3, SocketKill DEF killVars, KillTypes, TypeInv
  <2> QED
    BY <1>3, <2>1, SocketConn, SocketView, SocketHost
<1>4. CASE HostSteps
  <2>1. ViewTypes' /\ KillTypes'
    BY <1>4, HostLeavesClient DEF attachVars, killVars, ViewTypes, KillTypes, TypeInv
  <2> QED
    BY <1>4, <2>1, HostConn, HostHost
<1>5. CASE World
  BY <1>5, WorldConn, WorldView, WorldKill, WorldHost
<1> QED
  BY <1>1, <1>2, <1>3, <1>4, <1>5 DEF Next

(* A connection is made when the last is gone, and the last goes when the  *)
(* world takes it or an attempt gives it up: one of those left.            *)
LEMMA SocketsStep ==
  ASSUME TypeInv, Next
  PROVE  SocketsCounted'
<1> DEFINE none == IF sock = 0 THEN 1 ELSE 0
<1>0. /\ tried \in Nat /\ calls \in Nat /\ losses \in Nat /\ sock \in Nat /\ Attempts \in Nat
      /\ calls * (Attempts - 1) \in Nat
      /\ (calls + 1) * (Attempts - 1) = calls * (Attempts - 1) + (Attempts - 1)
      /\ killing.attempt \in 0..Attempts /\ Attempts >= 1
      /\ (sock # 0 => sock = tried)
      /\ tried + none + Left <= 1 + losses + calls * (Attempts - 1)
  <2>1. Attempts - 1 \in Nat /\ calls <= calls
    BY TypeInvFacts, SetFacts
  <2> QED
    BY <2>1, Multiples, TypeInvFacts, SetFacts DEF TypeInv, SocketsCounted
<1>1. CASE Connect
  <2>1. sock = 0 /\ tried' = tried + 1 /\ sock' = tried + 1 /\ UNCHANGED <<losses, calls, killing>>
    BY <1>1 DEF Connect, killVars
  <2> QED
    BY <1>0, <2>1 DEF SocketsCounted, Left
<1>2. CASE Breaks
  <2>1. sock # 0 /\ losses' = losses + 1 /\ sock' = 0 /\ UNCHANGED <<tried, calls, killing>>
    BY <1>2 DEF Breaks, DropSocket, killVars
  <2> QED
    BY <1>0, <2>1 DEF SocketsCounted, Left
<1>3. CASE ConnectFails
  <2>1. losses' = losses + 1 /\ UNCHANGED <<sock, tried, calls, killing>>
    BY <1>3 DEF ConnectFails, killVars
  <2> QED
    BY <1>0, <2>1 DEF SocketsCounted, Left
<1>4. ASSUME NEW mode \in Modes, Kill(mode) PROVE SocketsCounted'
  <2>1. /\ killing.st = "no" /\ killing'.st = "prepare" /\ calls' = calls + 1
        /\ UNCHANGED <<sock, tried, losses>>
    BY <1>4 DEF Kill, NotKilling
  <2> QED
    BY <1>0, <2>1 DEF SocketsCounted, Left
<1>5. CASE KillPrepares \/ KillProbed
  <2>1. killing.st = "prepare" /\ UNCHANGED <<sock, tried, losses, calls>>
    BY <1>5 DEF KillPrepares, KillProbed
  <2>2. Plan.gen \in Gen /\ (KillProbed => Head(down).gen \in Gen)
    BY <2>1, PlanTypes, HeadFrameTypes DEF KillProbed, Hears
  <2>3. killing' = killing \/ (killing'.st = "confirm" /\ killing'.attempt = 1)
    BY <1>5, <2>1, <2>2, SendsPlans DEF KillPrepares, KillProbed
  <2> QED
    BY <1>0, <2>1, <2>3 DEF SocketsCounted, Left
<1>6. CASE KillNotPrepared \/ KillConfirmed
  <2>1. killing'.st = "no" /\ UNCHANGED <<sock, tried, losses, calls>>
    BY <1>6 DEF KillNotPrepared, KillConfirmed, NotKilling
  <2> QED
    BY <1>0, <2>1 DEF SocketsCounted, Left
<1>7. CASE KillRefused \/ KillLost
  <2>1. killing.st = "confirm" /\ AttemptFails /\ UNCHANGED <<tried, losses, calls>>
    BY <1>7 DEF KillRefused, KillLost, AttemptFails
  <2>2. \/ killing'.st = "no" /\ UNCHANGED sock
        \/ /\ killing'.st = "confirm" /\ killing'.attempt = killing.attempt + 1
           /\ killing.attempt < Attempts /\ sock' = 0
    <3>1. CASE killing.attempt < Attempts
      BY <2>1, <3>1, AttemptKilling DEF AttemptFails, DropSocket, NotKilling
    <3>2. CASE ~(killing.attempt < Attempts)
      BY <2>1, <3>2 DEF AttemptFails, NotKilling
    <3> QED
      BY <3>1, <3>2
  <2> QED
    BY <1>0, <2>1, <2>2 DEF SocketsCounted, Left
<1>8. CASE UNCHANGED <<sock, tried, losses, calls, killing>>
  BY <1>0, <1>8 DEF SocketsCounted, Left
<1>9. LaneSteps \/ HostSteps \/ KillRetries => UNCHANGED <<sock, tried, losses, calls, killing>>
  <2>1. LaneSteps => UNCHANGED <<sock, tried, losses, calls, killing>>
    BY DEF LaneSteps, AttachBegins, AttachAsks, AttachAnswered, AttachLost,
           DetachBegins, DetachAnswered, DetachLost, killVars
  <2> QED
    BY <2>1, HostLeavesClient DEF KillRetries, killVars
<1>10. SocketSteps => Connect \/ UNCHANGED <<sock, tried, losses, calls, killing>>
  BY DEF SocketSteps, Resend, Write, ReplayAnswered, ExitArrives, killVars
<1>11. World => \/ Breaks \/ ConnectFails \/ \E mode \in Modes : Kill(mode)
                \/ UNCHANGED <<sock, tried, losses, calls, killing>>
  BY DEF World, Unsubscribe, Attach, Ends, TerminationFails, RivalCreates, LeaseExpires,
         killVars, netVars
<1> QED
  BY <1>1, <1>2, <1>3, <1>4, <1>5, <1>6, <1>7, <1>8, <1>9, <1>10, <1>11 DEF Next, KillSteps

LEMMA LaneNames ==
  ASSUME TypeInv, LaneSteps
  PROVE  /\ \A i \in 1..Len(lane') : lane'[i].does = "attach" => lane'[i].of <= Len(asks)
         /\ \A s \in Subs : entry'[s] # 0 => obj' # 0
         /\ asks' = asks
<1> USE DEF TypeInv
<1>0. /\ lane \in Seq(Job) /\ \A i \in 1..Len(lane) : lane[i].does = "attach" => lane[i].of <= Len(asks)
      /\ \A s \in Subs : entry[s] # 0 => obj # 0
  BY DEF ViewTypes, NamesKept
<1>1. lane # <<>>
  BY DEF LaneSteps, AttachBegins, AttachAsks, AttachAnswered, AttachLost,
         DetachBegins, DetachAnswered, DetachLost, Turn, Runs
<1>2. asks' = asks
  BY DEF LaneSteps, AttachBegins, AttachAsks, AttachAnswered, AttachLost,
         DetachBegins, DetachAnswered, DetachLost, AttachFails, AttachSucceeds
<1>3. \/ lane' = lane \/ lane' = Tail(lane)
      \/ \E o \in Asked : lane' = <<DetachOf(o)>> \o Tail(lane)
  <2>1. CASE AttachBegins \/ AttachAsks \/ DetachBegins \/ DetachAnswered \/ DetachLost
    BY <2>1 DEF AttachBegins, AttachAsks, DetachBegins, DetachAnswered, DetachLost, TaskEnds
  <2>2. CASE AttachAnswered
    BY <2>2, LaneHeadTypes
    DEF AttachAnswered, Runs, AttachFails, AttachSucceeds, TaskEnds, TaskDetaches
  <2>3. CASE AttachLost
    BY <2>3, LaneHeadTypes DEF AttachLost, Runs, AttachFails, TaskEnds, TaskDetaches
  <2> QED
    BY <2>1, <2>2, <2>3 DEF LaneSteps
<1>4. \A i \in 1..Len(lane') : lane'[i].does = "attach" => lane'[i].of <= Len(asks)
  <2>1. CASE lane' = lane
    BY <1>0, <2>1
  <2>2. CASE lane' = Tail(lane)
    BY <1>0, <1>1, <2>2
  <2>3. ASSUME NEW o \in Asked, lane' = <<DetachOf(o)>> \o Tail(lane)
        PROVE  \A i \in 1..Len(lane') : lane'[i].does = "attach" => lane'[i].of <= Len(asks)
    <3>1. Tail(lane) \in Seq(Job) /\ DetachOf(o) \in Job /\ DetachOf(o).does = "detach"
          /\ <<DetachOf(o)>> \in Seq(Job)
      BY <1>1, LaneHeadTypes DEF DetachOf, Job
    <3>2. Len(lane') = Len(lane)
      BY <1>0, <1>1, <2>3, <3>1
    <3>3. \A i \in 1..Len(lane) : lane'[i] = IF i = 1 THEN DetachOf(o) ELSE lane[i]
      BY <1>0, <1>1, <2>3, <3>1
    <3> QED
      BY <1>0, <3>1, <3>2, <3>3
  <2> QED
    BY <1>3, <2>1, <2>2, <2>3
<1>5. \A s \in Subs : entry'[s] # 0 => obj' # 0
  <2>1. CASE AttachAnswered \/ AttachLost
    <3>1. CASE AttachFails(Head(lane).of)
      <4>1. entry \in [Subs -> Call]
        BY DEF ViewTypes
      <4>2. \A s \in Subs : entry'[s] # 0 => entry[s] # 0
        BY <3>1, <4>1 DEF AttachFails
      <4>3. obj' = obj \/ (obj' = 0 /\ Attached(entry') = {})
        BY <3>1 DEF AttachFails
      <4> QED
        BY <1>0, <4>2, <4>3 DEF Attached
    <3>2. CASE UNCHANGED <<entry, obj>>
      BY <1>0, <3>2
    <3> QED
      BY <2>1, <3>1, <3>2 DEF AttachAnswered, AttachLost, AttachSucceeds
  <2>2. CASE AttachBegins \/ AttachAsks \/ DetachBegins \/ DetachAnswered \/ DetachLost
    BY <1>0, <2>2 DEF AttachBegins, AttachAsks, DetachBegins, DetachAnswered, DetachLost
  <2> QED
    BY <2>1, <2>2 DEF LaneSteps
<1> QED
  BY <1>2, <1>4, <1>5

LaneNamed  == \A i \in 1..Len(lane) : lane[i].does = "attach" => lane[i].of <= Len(asks)
EntryNamed == \A s \in Subs : entry[s] # 0 => obj # 0
PlansNamed == /\ Len(plans) <= calls
              /\ op <= Len(plans)
              /\ killing.st # "no" => killing.op \in 1..Len(plans)

LEMMA PlansStep ==
  ASSUME TypeInv, Next
  PROVE  PlansNamed'
<1>0. /\ Len(plans) <= calls /\ op <= Len(plans) /\ op \in Nat /\ Len(plans) \in Nat
      /\ (killing.st # "no" => killing.op \in 1..Len(plans))
  BY SetFacts DEF TypeInv, NamesKept, KillTypes
<1>1. CASE LaneSteps
  BY <1>0, <1>1, LaneKill DEF PlansNamed
<1>2. ASSUME NEW mode \in Modes, Kill(mode) PROVE PlansNamed'
  <2>1. /\ op' \in 1..Len(plans') /\ Len(plans') <= calls + 1
    BY <1>2, KillBegins
  <2>2. calls' = calls + 1 /\ killing'.op = op'
    BY <1>2 DEF Kill
  <2> QED
    BY <2>1, <2>2, SetFacts DEF PlansNamed
<1>3. CASE KillPrepares \/ KillProbed
  <2>1. killing.st = "prepare" /\ UNCHANGED <<calls, op>>
    BY <1>3 DEF KillPrepares, KillProbed
  <2>2. Plan.gen \in Gen /\ (KillProbed => Head(down).gen \in Gen)
    BY <2>1, PlanTypes, HeadFrameTypes DEF KillProbed, Hears
  <2>3. Len(plans') = Len(plans) /\ killing'.op = killing.op
    BY <1>3, <2>1, <2>2, SendsPlans DEF KillPrepares, KillProbed
  <2> QED
    BY <1>0, <2>1, <2>3 DEF PlansNamed
<1>4. CASE KillNotPrepared \/ KillConfirmed
  <2>1. killing'.st = "no" /\ op' \in {0, op} /\ UNCHANGED <<plans, calls>>
    BY <1>4 DEF KillNotPrepared, KillConfirmed, NotKilling
  <2> QED
    BY <1>0, <2>1 DEF PlansNamed
<1>5. CASE KillRefused \/ KillLost
  <2>1. killing.st = "confirm" /\ AttemptFails /\ UNCHANGED <<plans, calls, op>>
    BY <1>5 DEF KillRefused, KillLost, AttemptFails
  <2>2. killing' = NotKilling \/ killing'.op = killing.op
    BY <2>1, AttemptKilling
  <2> QED
    BY <1>0, <2>1, <2>2 DEF PlansNamed, NotKilling
<1>6. CASE UNCHANGED killVars
  BY <1>0, <1>6 DEF killVars, PlansNamed
<1>7. HostSteps \/ SocketSteps \/ KillRetries => UNCHANGED killVars
  BY HostLeavesClient, SocketKill DEF KillRetries
<1>8. World => UNCHANGED killVars \/ \E mode \in Modes : Kill(mode)
  BY DEF World, Unsubscribe, Attach, Breaks, ConnectFails, Ends, TerminationFails, RivalCreates,
         LeaseExpires
<1> QED
  BY <1>1, <1>2, <1>3, <1>4, <1>5, <1>6, <1>7, <1>8 DEF Next, KillSteps

LEMMA ViewsNamed ==
  ASSUME TypeInv, Next
  PROVE  (LaneNamed /\ EntryNamed)'
<1>0. /\ LaneNamed /\ EntryNamed /\ lane \in Seq(Job) /\ asks \in Seq(Ask)
      /\ obj \in Call /\ entry \in [Subs -> Call]
  BY DEF TypeInv, NamesKept, ViewTypes, LaneNamed, EntryNamed
<1>1. CASE LaneSteps
  BY <1>1, LaneNames DEF LaneNamed, EntryNamed
<1>2. ASSUME NEW s \in Subs, NEW create \in BOOLEAN, Attach(s, create) PROVE (LaneNamed /\ EntryNamed)'
  <2> DEFINE j == [does |-> "attach", of |-> Len(asks) + 1]
  <2>1. lane' = Append(lane, j) /\ asks' = Append(asks, [sub |-> s, create |-> create, state |-> obj'])
    BY <1>2 DEF Attach
  <2>2. Len(asks') = Len(asks) + 1 /\ Len(lane') = Len(lane) + 1
        /\ \A i \in 1..Len(lane') : lane'[i] = IF i = Len(lane) + 1 THEN j ELSE lane[i]
    BY <1>0, <2>1
  <2>3. LaneNamed'
    <3>1. ASSUME NEW i \in 1..Len(lane'), lane'[i].does = "attach" PROVE lane'[i].of <= Len(asks')
      <4>1. CASE i = Len(lane) + 1
        BY <1>0, <2>2, <4>1
      <4>2. CASE i # Len(lane) + 1
        <5>1. i \in 1..Len(lane) /\ lane'[i] = lane[i]
          BY <1>0, <2>2, <4>2
        <5>2. lane[i] \in Job
          BY <1>0, <5>1
        <5>3. lane[i].of \in Nat /\ Len(asks) \in Nat
          BY <1>0, <5>2, SetFacts DEF Job, Asked
        <5> QED
          BY <1>0, <2>2, <3>1, <5>1, <5>3 DEF LaneNamed
      <4> QED
        BY <4>1, <4>2
    <3> QED
      BY <3>1 DEF LaneNamed
  <2>4. EntryNamed'
    <3>1. obj' # 0
      BY <1>0, <1>2 DEF Attach
    <3> QED
      BY <3>1 DEF EntryNamed
  <2> QED
    BY <2>3, <2>4
<1>3. ASSUME NEW s \in Subs, Unsubscribe(s) PROVE (LaneNamed /\ EntryNamed)'
  <2>1. UNCHANGED asks /\ entry' = [entry EXCEPT ![s] = 0]
    BY <1>3 DEF Unsubscribe
  <2>2. \/ obj' = 0 /\ lane' = Append(lane, DetachOf(obj)) /\ Attached(entry') = {}
        \/ obj' = obj /\ lane' = lane
    BY <1>3 DEF Unsubscribe
  <2>3. DetachOf(obj).does = "detach"
    BY DEF DetachOf
  <2>4. LaneNamed'
    <3>1. CASE lane' = lane
      BY <1>0, <2>1, <3>1 DEF LaneNamed
    <3>2. CASE lane' = Append(lane, DetachOf(obj))
      <4>1. Len(lane') = Len(lane) + 1 /\ Len(lane) \in Nat
            /\ \A i \in 1..Len(lane') : lane'[i] = IF i = Len(lane) + 1 THEN DetachOf(obj) ELSE lane[i]
        BY <1>0, <3>2
      <4>2. \A i \in 1..Len(lane') : i = Len(lane) + 1 \/ i \in 1..Len(lane)
        BY <4>1
      <4> QED
        BY <1>0, <2>1, <2>3, <4>1, <4>2 DEF LaneNamed
    <3> QED
      BY <2>2, <3>1, <3>2
  <2>5. EntryNamed'
    BY <1>0, <2>1, <2>2 DEF EntryNamed, Attached
  <2> QED
    BY <2>4, <2>5
<1>4. CASE UNCHANGED <<lane, asks, entry, obj>>
  BY <1>0, <1>4 DEF LaneNamed, EntryNamed
<1>5. CASE UNCHANGED <<lane, asks>> /\ entry' = [s \in Subs |-> 0]
  BY <1>0, <1>5 DEF LaneNamed, EntryNamed
<1>6. CASE ExitArrives
  <2>1. UNCHANGED <<lane, asks>>
    BY <1>6 DEF ExitArrives
  <2>2. \/ UNCHANGED <<entry, obj>>
        \/ obj' \in {0, obj} /\ (obj' = 0 => Attached(entry') = {} \/ obj = 0)
           /\ \A s \in Subs : entry'[s] # 0 => entry[s] # 0
    BY <1>6 DEF ExitArrives
  <2> QED
    BY <1>0, <2>1, <2>2 DEF LaneNamed, EntryNamed, Attached
<1>7. CASE KillSteps
  BY <1>4, <1>5, <1>7 DEF KillSteps, KillPrepares, KillProbed, KillNotPrepared, KillRetries,
     KillConfirmed, KillRefused, KillLost, AttemptFails, attachVars, killVars
<1>8. CASE SocketSteps
  <2>1. CASE ReplayAnswered
    BY <1>4, <1>5, <2>1 DEF ReplayAnswered, ReplayRefused, ReplayIsStale, ReplayRestores
  <2> QED
    BY <1>4, <1>6, <1>8, <2>1 DEF SocketSteps, Connect, Resend, Write, attachVars
<1>9. CASE HostSteps
  BY <1>4, <1>9, HostLeavesClient DEF attachVars
<1>10. World => UNCHANGED <<lane, asks, entry, obj>>
                \/ \E s \in Subs : Unsubscribe(s) \/ \E create \in BOOLEAN : Attach(s, create)
  BY DEF World, Kill, Breaks, ConnectFails, Ends, TerminationFails, RivalCreates, LeaseExpires, attachVars
<1> QED
  BY <1>1, <1>2, <1>3, <1>4, <1>7, <1>8, <1>9, <1>10 DEF Next

LEMMA TypeInvStep ==
  ASSUME TypeInv, [Next]_vars
  PROVE  TypeInv'
<1>1. CASE Next
  <2>1. NamesKept'
    BY <1>1, PlansStep, ViewsNamed DEF NamesKept, PlansNamed, LaneNamed, EntryNamed
  <2> QED
    BY <1>1, <2>1, TypesStep, SocketsStep DEF TypeInv
<1>2. CASE UNCHANGED vars
  BY <1>2 DEF vars, netVars, attachVars, killVars, TypeInv, ConnTypes, ViewTypes, KillTypes, HostTypes,
     SocketsCounted, NamesKept, Left
<1> QED
  BY <1>1, <1>2

LEMMA TypeInvInit ==
  ASSUME Init
  PROVE  TypeInv
<1>1. ConnTypes
  BY PendingTypes, SetFacts DEF Init, ConnTypes
<1>2. 0 \in 0..2
  OBVIOUS
<1>3. NoTask \in [on : BOOLEAN, token : Op, tries : 0..2] /\ NoState \in State
  BY <1>2, SetFacts DEF NoTask, NoState, State
<1>4. ViewTypes
  <2>1. <<>> \in Seq(Ask) /\ <<>> \in Seq(Job)
    OBVIOUS
  <2>2. /\ [s \in Subs |-> 0] \in [Subs -> Call] /\ [s \in Subs |-> 0] \in [Subs -> Gen]
        /\ [a \in Asked |-> NoState] \in [Asked -> State]
    BY <1>3, SetFacts
  <2> QED
    BY <1>3, <2>1, <2>2, SetFacts DEF Init, ViewTypes
<1>5. KillTypes
  <2>1. <<>> \in Seq(Identities) /\ 0 \in 0..MaxKills /\ 0 \in 0..Attempts
    BY SetFacts
  <2>2. NotKilling \in KillingTypes
    BY <2>1, SetFacts DEF NotKilling, KillingTypes
  <2> QED
    BY <2>1, <2>2, SetFacts DEF Init, KillTypes, KillingTypes
<1>6. HostTypes
  <2>1. [g \in 1..MaxGens |-> 0] \in [1..MaxGens -> Op] /\ {} \in SUBSET Sockets
        /\ {} \in SUBSET [op : Op, gen : Gen]
    BY SetFacts
  <2> QED
    BY <2>1, SetFacts DEF Init, HostTypes, Record
<1>7. SocketsCounted /\ NamesKept
  BY SetFacts DEF Init, SocketsCounted, NamesKept, Left, NotKilling
<1> QED
  BY <1>1, <1>4, <1>5, <1>6, <1>7 DEF TypeInv

(* The client's record and the host's keep their types: in particular the  *)
(* attempts of a kill are never one too many (KILL_CONFIRMATION_ATTEMPTS), *)
(* and so the connections that they, and the losses, cost are bounded.     *)
THEOREM TypeCorrect == Spec => []TypeOK
<1>1. Init => TypeInv
  BY TypeInvInit
<1>2. TypeInv /\ [Next]_vars => TypeInv'
  BY TypeInvStep
<1>3. TypeInv => TypeOK
  BY TypeParts DEF TypeInv
<1> QED
  BY <1>1, <1>2, <1>3, PTL DEF Spec

-----------------------------------------------------------------------------
(* 2. One request or one answer is on its way for who awaits it. *)

Carries(q, w) == Cardinality({i \in 1..Len(q) : q[i].who = w})

LEMMA CarriesNat ==
  ASSUME NEW S, NEW q \in Seq(S), NEW w
  PROVE  /\ IsFiniteSet({i \in 1..Len(q) : q[i].who = w}) /\ Carries(q, w) \in Nat
         /\ Carries(q, w) = 0 <=> \A i \in 1..Len(q) : q[i].who # w
<1> DEFINE A == {i \in 1..Len(q) : q[i].who = w}
<1>1. IsFiniteSet(1..Len(q)) /\ A \in SUBSET (1..Len(q))
  <2>1. Len(q) \in Int /\ 1 \in Int
    OBVIOUS
  <2>2. IsFiniteSet(1..Len(q))
    BY <2>1, FS_Interval
  <2> QED
    BY <2>2
<1>2. IsFiniteSet(A)
  BY <1>1, FS_Subset
<1>3. Cardinality(A) \in Nat /\ (Cardinality(A) = 0 <=> A = {})
  BY <1>2, FS_CardinalityType, FS_EmptySet
<1>4. A = {} <=> \A i \in 1..Len(q) : q[i].who # w
  OBVIOUS
<1> QED
  BY <1>2, <1>3, <1>4 DEF Carries

LEMMA CarriesNothing ==
  ASSUME NEW w
  PROVE  Carries(<<>>, w) = 0
<1>1. {i \in 1..Len(<<>>) : <<>>[i].who = w} = {}
  OBVIOUS
<1> QED
  BY <1>1, FS_EmptySet DEF Carries

LEMMA CarriesAppend ==
  ASSUME NEW S, NEW q \in Seq(S), NEW e \in S, NEW w
  PROVE  Carries(Append(q, e), w) = Carries(q, w) + IF e.who = w THEN 1 ELSE 0
<1> DEFINE A == {i \in 1..Len(q) : q[i].who = w}
           n == Len(q) + 1
           B == {i \in 1..Len(Append(q, e)) : Append(q, e)[i].who = w}
<1>0. Cardinality(A) = Carries(q, w) /\ Cardinality(B) = Carries(Append(q, e), w)
  BY DEF Carries
<1>1. IsFiniteSet(A) /\ n \notin A /\ Carries(q, w) \in Nat
  BY CarriesNat
<1>2. /\ Len(Append(q, e)) = n /\ Len(q) \in Nat
      /\ \A i \in 1..n : Append(q, e)[i] = IF i = n THEN e ELSE q[i]
  OBVIOUS
<1>3. B = IF e.who = w THEN A \union {n} ELSE A
  BY <1>2
<1>4. Cardinality(A \union {n}) = Cardinality(A) + 1
  BY <1>1, FS_AddElement
<1> HIDE DEF A, B
<1> QED
  BY <1>0, <1>1, <1>3, <1>4

LEMMA CarriesTail ==
  ASSUME NEW S, NEW q \in Seq(S), q # <<>>, NEW w
  PROVE  Carries(q, w) = Carries(Tail(q), w) + IF Head(q).who = w THEN 1 ELSE 0
<1> DEFINE A == {i \in 1..Len(q) : q[i].who = w}
           T == {i \in 1..Len(Tail(q)) : Tail(q)[i].who = w}
           F == [i \in T |-> i + 1]
<1>1. /\ Tail(q) \in Seq(S) /\ Len(q) \in Nat /\ Len(q) # 0 /\ Len(Tail(q)) = Len(q) - 1
      /\ Head(q) = q[1] /\ \A i \in 1..Len(Tail(q)) : Tail(q)[i] = q[i + 1]
  OBVIOUS
<1>2. F \in [T -> A \ {1}]
  BY <1>1
<1>3. \A a, b \in T : F[a] = F[b] => a = b
  OBVIOUS
<1>4. \A i \in A \ {1} : \E j \in T : F[j] = i
  <2>1. ASSUME NEW i \in A \ {1} PROVE i - 1 \in T /\ F[i - 1] = i
    BY <1>1
  <2> QED
    BY <2>1
<1>5. F \in Bijection(T, A \ {1})
  <2> HIDE DEF T, A, F
  <2> QED
    BY <1>2, <1>3, <1>4, Fun_IsBij
<1>0. Cardinality(A) = Carries(q, w) /\ Cardinality(T) = Carries(Tail(q), w)
  BY DEF Carries
<1>6. IsFiniteSet(A) /\ IsFiniteSet(T) /\ Carries(q, w) \in Nat
  <2>1. IsFiniteSet(A) /\ Carries(q, w) \in Nat
    BY CarriesNat
  <2>2. IsFiniteSet(T)
    <3>1. Tail(q) \in Seq(S)
      BY <1>1
    <3>2. \A r \in Seq(S) : IsFiniteSet({i \in 1..Len(r) : r[i].who = w})
      BY CarriesNat
    <3> QED
      BY <3>1, <3>2
  <2> QED
    BY <2>1, <2>2
<1>7. Cardinality(A \ {1}) = Cardinality(T)
  <2> HIDE DEF T, A, F
  <2>1. ExistsBijection(T, A \ {1})
    BY <1>5, Fun_ExistsBij
  <2> QED
    BY <1>6, <2>1, FS_Bijection
<1>8. Cardinality(A \ {1}) = IF 1 \in A THEN Cardinality(A) - 1 ELSE Cardinality(A)
  <2> HIDE DEF A
  <2> QED
    BY <1>6, FS_RemoveElement
<1>9. 1 \in A <=> Head(q).who = w
  BY <1>1
<1> HIDE DEF A, T, F
<1> QED
  BY <1>0, <1>6, <1>7, <1>8, <1>9

LEMMA ComingIs ==
  ASSUME NEW w
  PROVE  Coming(w) = Carries(up[sock], w) + Carries(down, w)
BY DEF Coming, Carries

(* A connection that is gone carries nothing to the client, one that was   *)
(* never made carries nothing at all; what is written, or about to be, has *)
(* a connection; and who awaits nothing is idle.  Only a kill asks for one.*)
Quieted ==
  /\ sock = 0 => down = <<>>
  /\ \A s \in Sockets : s > tried => up[s] = <<>>
  /\ \A w \in Who : pend[w].st \in {"unsent", "sent"} => sock # 0

IdleWithout ==
  /\ ~task.on => pend["lane"] = Idle
  /\ killing.st = "no" => pend["kill"] = Idle

KillsByKill ==
  /\ \A w \in Who : pend[w].req.cmd = "kill" => w = "kill"
  /\ \A s \in Sockets : \A i \in 1..Len(up[s]) : up[s][i].req.cmd = "kill" => up[s][i].who = "kill"

NetInv == Quieted /\ IdleWithout /\ KillsByKill /\ OneAnswerEach

LEMMA WhatIsAsked ==
  /\ Idle.st = "none" /\ Idle.req.cmd = "none" /\ NoRequest.cmd = "none"
  /\ \A r : Awaits(r).st = "await" /\ Awaits(r).req = r /\ Unsent(r).st = "unsent" /\ Unsent(r).req = r
  /\ \A c, a, g : Request(c, a, g).cmd = c
BY DEF Idle, NoRequest, Awaits, Unsent, Request

LEMMA UnsentRequest ==
  ASSUME NEW cmd \in {"none", "attach", "existing", "detach", "has", "kill"},
         NEW arg \in Op, NEW gen \in Gen
  PROVE  /\ Unsent(Request(cmd, arg, gen)) \in Pending
         /\ Unsent(Request(cmd, arg, gen)).st = "unsent"
         /\ Unsent(Request(cmd, arg, gen)).req.cmd = cmd
BY RequestTypes, PendingTypes, WhatIsAsked

LEMMA CountTypes ==
  ASSUME TypeInv, NEW w
  PROVE  /\ Carries(down, w) \in Nat
         /\ Carries(down, w) = 0 <=> \A i \in 1..Len(down) : down[i].who # w
         /\ sock # 0 => Carries(up[sock], w) \in Nat /\ sock \in Sockets
<1>1. down \in Seq(Frames) /\ (sock # 0 => sock \in Sockets /\ up[sock] \in Seq(Posted))
  BY DEF TypeInv, ConnTypes
<1> QED
  BY <1>1, CarriesNat

(* What a party of the client does with the answer it hears, or without.   *)
LEMMA PartyMoves ==
  ASSUME TypeInv, NetInv, NEW w \in Who, NEW p \in Pending,
         pend' = [pend EXCEPT ![w] = p], p.st # "sent",
         p.st = "unsent" => sock # 0, p.req.cmd = "kill" => w = "kill",
         UNCHANGED <<sock, tried, up>>,
         \/ pend[w].st # "sent" /\ down' = down
         \/ Hears(w) /\ down' = Tail(down),
         IdleWithout'
  PROVE  NetInv'
<1>0. pend \in [Who -> Pending]
  BY DEF TypeInv, ConnTypes
<1>1. \A v \in Who : pend'[v] = IF v = w THEN p ELSE pend[v]
  BY <1>0
<1>2. Quieted'
  <2>1. sock = 0 => down' = <<>>
    BY DEF NetInv, Quieted, Hears
  <2> QED
    BY <1>1, <2>1 DEF NetInv, Quieted
<1>3. KillsByKill'
  BY <1>1 DEF NetInv, KillsByKill
<1>4. OneAnswerEach'
  <2> SUFFICES ASSUME sock # 0, NEW v \in Who
               PROVE  Coming(v)' = IF pend'[v].st = "sent" THEN 1 ELSE 0
    BY DEF OneAnswerEach
  <2>1. Coming(v) = IF pend[v].st = "sent" THEN 1 ELSE 0
    BY DEF NetInv, OneAnswerEach
  <2>2. Coming(v) = Carries(up[sock], v) + Carries(down, v)
    BY ComingIs
  <2>3. Coming(v)' = Carries(up[sock], v) + Carries(down', v)
    BY DEF Coming, Carries
  <2>4. CASE pend[w].st # "sent" /\ down' = down
    BY <1>1, <2>1, <2>2, <2>3, <2>4
  <2>5. CASE Hears(w) /\ down' = Tail(down)
    <3>1. down # <<>> /\ Head(down).who = w
      BY <2>5 DEF Hears
    <3>2. Carries(down, v) = Carries(down', v) + IF w = v THEN 1 ELSE 0
      BY <2>5, <3>1, CarriesTail DEF TypeInv, ConnTypes
    <3>3. Carries(down', v) \in Nat /\ Carries(up[sock], v) \in Nat
      BY <2>5, <3>1, HeadFrameTypes, CountTypes, CarriesNat
    <3> QED
      BY <1>1, <2>1, <2>2, <2>3, <3>2, <3>3
  <2> QED
    BY <2>4, <2>5
<1> QED
  BY <1>2, <1>3, <1>4 DEF NetInv

LEMMA LaneNet ==
  ASSUME TypeInv, NetInv, LaneSteps
  PROVE  NetInv'
<1> DEFINE Moves(p) ==
             /\ pend' = [pend EXCEPT !["lane"] = p]
             /\ p.st # "sent" /\ (p.st = "unsent" => sock # 0) /\ p.req.cmd # "kill"
             /\ ~task'.on => p = Idle
             /\ \/ pend["lane"].st # "sent" /\ down' = down
                \/ Hears("lane") /\ down' = Tail(down)
<1>0. /\ Idle \in Pending /\ \A r \in Commands : Awaits(r) \in Pending /\ Unsent(r) \in Pending
      /\ NoRequest \in Commands /\ "lane" \in Who /\ NoTask.on = FALSE
      /\ [NoTask EXCEPT !.on = TRUE].on = TRUE
  BY PendingTypes DEF Who, NoTask
<1>1. /\ pend["lane"].req \in Commands /\ pend["lane"].req.cmd # "kill"
      /\ (~task.on => pend["lane"].st = "none")
  BY <1>0, TypeInvFacts, WhatIsAsked DEF NetInv, KillsByKill, IdleWithout
<1>2. ASSUME AttachBegins PROVE \E p \in Pending : Moves(p)
  <2>1. ~task.on /\ down' = down
    BY <1>2 DEF AttachBegins, Turn
  <2>2. \/ pend' = [pend EXCEPT !["lane"] = Awaits(NoRequest)] /\ task' = [NoTask EXCEPT !.on = TRUE]
        \/ pend' = [pend EXCEPT !["lane"] = Idle]
    BY <1>2 DEF AttachBegins, TaskEnds
  <2>3. Moves(Awaits(NoRequest)) \/ Moves(Idle)
    BY <1>0, <1>1, <2>1, <2>2, WhatIsAsked
  <2> QED
    BY <1>0, <2>3
<1>3. ASSUME AttachAsks PROVE \E p \in Pending : Moves(p)
  <2>1. sock # 0 /\ down' = down /\ pend["lane"].st = "await" /\ task'.on
    BY <1>3, WhatIsAsked DEF AttachAsks, Ready
  <2>2. lane # <<>> /\ Head(lane).does = "attach"
    BY <1>3 DEF AttachAsks, Runs
  <2>3. asks[Head(lane).of].state \in Call /\ token \in Op
    BY <2>2, LaneHeadTypes, SetFacts DEF TypeInv, KillTypes
  <2>4. Known(asks[Head(lane).of].state) \in Gen
    BY <2>3, KnownTypes DEF TypeInv
  <2>5. \E c \in {"attach", "existing"}, a \in Op, g \in Gen :
          pend' = [pend EXCEPT !["lane"] = Unsent(Request(c, a, g))]
    BY <1>3, <2>3, <2>4, SetFacts DEF AttachAsks
  <2>6. PICK c \in {"attach", "existing"}, a \in Op, g \in Gen :
          pend' = [pend EXCEPT !["lane"] = Unsent(Request(c, a, g))]
    BY <2>5
  <2>7. Moves(Unsent(Request(c, a, g)))
    BY <2>1, <2>6, UnsentRequest
  <2> QED
    BY <2>7, UnsentRequest
<1>4. ASSUME AttachAnswered PROVE \E p \in Pending : Moves(p)
  <2>1. pend' = [pend EXCEPT !["lane"] = Idle]
    BY <1>4 DEF AttachAnswered, AttachSucceeds, AttachFails, TaskEnds, TaskDetaches
  <2>2. Hears("lane") /\ down' = Tail(down)
    BY <1>4 DEF AttachAnswered
  <2> QED
    BY <1>0, <2>1, <2>2, WhatIsAsked
<1>5. ASSUME AttachLost PROVE \E p \in Pending : Moves(p)
  <2>1. \/ pend' = [pend EXCEPT !["lane"] = Idle]
        \/ /\ pend' = [pend EXCEPT !["lane"] = Awaits(pend["lane"].req)]
           /\ task' = [task EXCEPT !.tries = task.tries - 1] /\ task.on
    BY <1>5 DEF AttachLost, Runs, AttachFails, TaskEnds, TaskDetaches
  <2>2. pend["lane"].st = "lost" /\ down' = down
    BY <1>5 DEF AttachLost
  <2>3. task.on /\ task' = [task EXCEPT !.tries = task.tries - 1] => task'.on
    BY DEF TypeInv, ViewTypes
  <2> QED
    BY <1>0, <1>1, <2>1, <2>2, <2>3, WhatIsAsked
<1>6. ASSUME DetachBegins PROVE \E p \in Pending : Moves(p)
  <2>1. ~task.on /\ down' = down
    BY <1>6 DEF DetachBegins, Turn
  <2>2. \/ /\ pend' = [pend EXCEPT !["lane"] = Unsent(Request("detach", 0, 0))]
           /\ task' = [NoTask EXCEPT !.on = TRUE] /\ sock # 0
        \/ pend' = [pend EXCEPT !["lane"] = Idle]
    BY <1>6 DEF DetachBegins, TaskEnds
  <2>3. CASE pend' = [pend EXCEPT !["lane"] = Idle]
    BY <1>0, <1>1, <2>1, <2>3, WhatIsAsked
  <2>4. CASE /\ pend' = [pend EXCEPT !["lane"] = Unsent(Request("detach", 0, 0))]
             /\ task' = [NoTask EXCEPT !.on = TRUE] /\ sock # 0
    <3>1. Moves(Unsent(Request("detach", 0, 0)))
      BY <1>0, <1>1, <2>1, <2>4, UnsentRequest, SetFacts
    <3> QED
      BY <3>1, UnsentRequest, SetFacts
  <2> QED
    BY <2>2, <2>3, <2>4
<1>7. ASSUME DetachAnswered PROVE \E p \in Pending : Moves(p)
  <2>1. pend' = [pend EXCEPT !["lane"] = Idle] /\ Hears("lane") /\ down' = Tail(down)
    BY <1>7 DEF DetachAnswered, TaskEnds
  <2> QED
    BY <1>0, <2>1, WhatIsAsked
<1>8. ASSUME DetachLost PROVE \E p \in Pending : Moves(p)
  <2>1. pend' = [pend EXCEPT !["lane"] = Idle] /\ down' = down /\ pend["lane"].st = "lost"
    BY <1>8 DEF DetachLost, TaskEnds
  <2> QED
    BY <1>0, <2>1, WhatIsAsked
<1>9. PICK p \in Pending : Moves(p)
  BY <1>2, <1>3, <1>4, <1>5, <1>6, <1>7, <1>8 DEF LaneSteps
<1>10. UNCHANGED <<sock, tried, up, killing>>
  BY DEF LaneSteps, AttachBegins, AttachAsks, AttachAnswered, AttachLost,
         DetachBegins, DetachAnswered, DetachLost, killVars
<1>11. IdleWithout'
  BY <1>9, <1>10 DEF NetInv, IdleWithout, TypeInv, ConnTypes, Who
<1> QED
  BY <1>0, <1>9, <1>10, <1>11, PartyMoves

LEMMA DroppedKeeps ==
  ASSUME TypeInv, NetInv, NEW w \in Who
  PROVE  /\ Dropped[w].st \notin {"unsent", "sent"}
         /\ Dropped[w].req.cmd = "kill" => w = "kill"
         /\ pend[w] = Idle => Dropped[w] = Idle
<1>1. pend[w] \in Pending /\ (pend[w].req.cmd = "kill" => w = "kill")
  BY TypeInvFacts DEF NetInv, KillsByKill
<1>2. Dropped[w] \in {Idle, Loses(w), Awaits(pend[w].req)} \/ (Dropped[w] = pend[w] /\ pend[w].st = "await")
  BY DEF Dropped
<1>3. Loses(w).st = "lost" /\ Loses(w).req = pend[w].req
  BY <1>1 DEF Loses, Pending
<1>4. pend[w] = Idle => Dropped[w] = Idle
  BY WhatIsAsked DEF Dropped
<1> QED
  BY <1>1, <1>2, <1>3, <1>4, WhatIsAsked

LEMMA DropNet ==
  ASSUME TypeInv, NetInv, sock' = 0, down' = <<>>, UNCHANGED <<up, tried, task>>,
         \/ pend' = Dropped /\ killing' = killing
         \/ pend' = [Dropped EXCEPT !["kill"] = Awaits(NoRequest)] /\ killing'.st # "no"
  PROVE  NetInv'
<1>1. \A w \in Who : pend'[w] = Dropped[w] \/ (w = "kill" /\ pend'[w] = Awaits(NoRequest))
  BY DEF Dropped
<1>2. "lane" \in Who /\ "kill" \in Who
  BY DEF Who
<1>3. Quieted'
  BY <1>1, DroppedKeeps, WhatIsAsked DEF NetInv, Quieted
<1>4. IdleWithout'
  <2>1. pend["lane"] = Idle => pend'["lane"] = Idle
    BY <1>1, <1>2, DroppedKeeps
  <2>2. killing' = killing /\ pend' = Dropped /\ pend["kill"] = Idle => pend'["kill"] = Idle
    BY <1>2, DroppedKeeps
  <2> QED
    BY <2>1, <2>2 DEF NetInv, IdleWithout
<1>5. KillsByKill'
  BY <1>1, DroppedKeeps, WhatIsAsked DEF NetInv, KillsByKill
<1>6. OneAnswerEach'
  BY DEF OneAnswerEach
<1> QED
  BY <1>3, <1>4, <1>5, <1>6 DEF NetInv

LEMMA KillNet ==
  ASSUME TypeInv, NetInv, KillSteps
  PROVE  NetInv'
<1> DEFINE Moves(p) ==
             /\ pend' = [pend EXCEPT !["kill"] = p]
             /\ p.st # "sent" /\ (p.st = "unsent" => sock # 0)
             /\ killing'.st = "no" => p = Idle
             /\ \/ pend["kill"].st # "sent" /\ down' = down
                \/ Hears("kill") /\ down' = Tail(down)
             /\ UNCHANGED <<sock, tried, up, task>>
<1>0. /\ Idle \in Pending /\ "kill" \in Who /\ "lane" \in Who /\ "lane" # "kill"
  BY PendingTypes DEF Who
<1>1. \A g \in Gen : killing.st # "no" /\ Sends(g) =>
        /\ pend' = [pend EXCEPT !["kill"] = Unsent(Request("kill", killing.op, g))]
        /\ Unsent(Request("kill", killing.op, g)) \in Pending
        /\ Unsent(Request("kill", killing.op, g)).st = "unsent"
        /\ killing'.st = "confirm"
  BY UnsentRequest, PlanTypes, SendsPlans DEF Sends
<1>2. ASSUME KillPrepares PROVE \E p \in Pending : Moves(p)
  <2>1. /\ killing.st = "prepare" /\ sock # 0 /\ down' = down /\ pend["kill"].st = "await"
        /\ UNCHANGED <<sock, tried, up, task>>
    BY <1>2, WhatIsAsked DEF KillPrepares, Ready, attachVars
  <2>2. CASE Sends(Plan.gen)
    <3>1. Moves(Unsent(Request("kill", killing.op, Plan.gen)))
      BY <1>1, <2>1, <2>2, PlanTypes
    <3> QED
      BY <1>1, <2>1, <2>2, <3>1, PlanTypes
  <2>3. CASE pend' = [pend EXCEPT !["kill"] = Unsent(Request("has", 0, 0))] /\ killing' = killing
    <3>1. Moves(Unsent(Request("has", 0, 0)))
      BY <2>1, <2>3, UnsentRequest, SetFacts
    <3> QED
      BY <3>1, UnsentRequest, SetFacts
  <2> QED
    BY <1>2, <2>2, <2>3 DEF KillPrepares
<1>3. ASSUME KillProbed PROVE \E p \in Pending : Moves(p)
  <2>1. /\ killing.st = "prepare" /\ Hears("kill") /\ down' = Tail(down) /\ Sends(Head(down).gen)
        /\ UNCHANGED <<sock, tried, up, task>>
    BY <1>3 DEF KillProbed, attachVars
  <2>2. sock # 0 /\ Head(down).gen \in Gen
    BY <2>1, HeadFrameTypes DEF Hears, NetInv, Quieted
  <2>3. Moves(Unsent(Request("kill", killing.op, Head(down).gen)))
    BY <1>1, <2>1, <2>2
  <2> QED
    BY <1>1, <2>1, <2>2, <2>3
<1>4. ASSUME KillNotPrepared \/ KillConfirmed PROVE \E p \in Pending : Moves(p)
  <2>1. Moves(Idle)
    BY <1>4, WhatIsAsked DEF KillNotPrepared, KillConfirmed, attachVars
  <2> QED
    BY <1>0, <2>1
<1>5. ASSUME KillRetries PROVE \E p \in Pending : Moves(p)
  <2>1. /\ killing.st = "confirm" /\ sock # 0 /\ down' = down /\ pend["kill"].st = "await"
        /\ killing' = killing /\ UNCHANGED <<sock, tried, up, task>>
        /\ pend' = [pend EXCEPT !["kill"] = Unsent(Request("kill", killing.op, Plan.gen))]
    BY <1>5, WhatIsAsked DEF KillRetries, Ready, attachVars, killVars
  <2>2. /\ Unsent(Request("kill", killing.op, Plan.gen)) \in Pending
        /\ Unsent(Request("kill", killing.op, Plan.gen)).st = "unsent"
    BY <2>1, UnsentRequest, PlanTypes
  <2>3. Moves(Unsent(Request("kill", killing.op, Plan.gen)))
    BY <2>1, <2>2
  <2> QED
    BY <2>2, <2>3
<1>6. ASSUME NEW p \in Pending, Moves(p) PROVE NetInv'
  <2>1. IdleWithout'
    BY <1>0, <1>6 DEF NetInv, IdleWithout, TypeInv, ConnTypes
  <2> QED
    BY <1>0, <1>6, <2>1, PartyMoves
<1>7. CASE KillRefused \/ KillLost
  <2>1. /\ killing.st = "confirm" /\ AttemptFails
        /\ UNCHANGED <<tried, up, task>>
    BY <1>7 DEF KillRefused, KillLost, AttemptFails, attachVars
  <2>2. CASE killing.attempt < Attempts
    <3>1. /\ sock' = 0 /\ down' = <<>> /\ pend' = [Dropped EXCEPT !["kill"] = Awaits(NoRequest)]
          /\ killing' # NotKilling
      BY <1>7, <2>1, <2>2, AttemptKilling DEF KillRefused, KillLost, AttemptFails, DropSocket, NotKilling
    <3>2. killing'.st # "no"
      BY <2>1, <3>1, AttemptKilling
    <3> QED
      BY <2>1, <3>1, <3>2, DropNet
  <2>3. CASE ~(killing.attempt < Attempts)
    <3>1. Moves(Idle)
      BY <1>7, <2>1, <2>3, WhatIsAsked DEF KillRefused, KillLost, AttemptFails
    <3> QED
      BY <1>0, <1>6, <3>1
  <2> QED
    BY <2>2, <2>3
<1> QED
  BY <1>2, <1>3, <1>4, <1>5, <1>6, <1>7 DEF KillSteps

LEMMA ConnectNet ==
  ASSUME TypeInv, NetInv, Connect
  PROVE  NetInv'
<1> DEFINE p == Unsent(Request("existing", 0, Known(obj)))
<1>0. /\ sock = 0 /\ sock' = tried + 1 /\ tried' = tried + 1 /\ sock' # 0
      /\ UNCHANGED <<up, down, task, killing>> /\ tried \in Nat
      /\ (pend' = pend \/ pend' = [pend EXCEPT !["replay"] = p])
  BY TypeInvFacts DEF Connect, attachVars, killVars
<1>1. /\ down = <<>> /\ \A w \in Who : pend[w].st \notin {"unsent", "sent"}
      /\ \A s \in Sockets : s > tried => up[s] = <<>>
  BY <1>0 DEF NetInv, Quieted
<1>2. tried + 1 \in Sockets /\ up[tried + 1] = <<>>
  BY <1>0, <1>1, NextSocket
<1>3. p.st = "unsent" /\ p.req.cmd = "existing"
  BY WhatIsAsked
<1>4. \A w \in Who : pend'[w] = pend[w] \/ (w = "replay" /\ pend'[w] = p)
  <2> HIDE DEF p
  <2> QED
    BY <1>0 DEF TypeInv, ConnTypes
<1>5. Quieted'
  <2>1. \A s \in Sockets : s > tried + 1 => up[s] = <<>>
    BY <1>0, <1>1, SetFacts
  <2> QED
    BY <1>0, <1>1, <2>1 DEF Quieted
<1>6. IdleWithout'
  BY <1>0, <1>4 DEF NetInv, IdleWithout, Who
<1>7. KillsByKill'
  BY <1>0, <1>3, <1>4 DEF NetInv, KillsByKill
<1>8. OneAnswerEach'
  <2>1. \A w \in Who : Coming(w)' = 0
    <3>1. \A w : Coming(w)' = Carries(up[tried + 1], w) + Carries(<<>>, w)
      BY <1>0, <1>1 DEF Coming, Carries
    <3> QED
      BY <1>2, <3>1, CarriesNothing
  <2>2. \A w \in Who : pend'[w].st # "sent"
    BY <1>1, <1>3, <1>4
  <2> QED
    BY <2>1, <2>2 DEF OneAnswerEach
<1> QED
  BY <1>5, <1>6, <1>7, <1>8 DEF NetInv

LEMMA WriteNet ==
  ASSUME TypeInv, NetInv, NEW w \in Who, Write(w)
  PROVE  NetInv'
<1> DEFINE e == [who |-> w, req |-> pend[w].req]
<1>0. /\ pend[w].st = "unsent" /\ UNCHANGED <<sock, tried, down, task, killing>>
      /\ pend' = [pend EXCEPT ![w].st = "sent"] /\ up' = [up EXCEPT ![sock] = Append(@, e)]
  BY DEF Write, attachVars, killVars
<1>1. sock # 0 /\ sock = tried /\ sock \in Sockets /\ up[sock] \in Seq(Posted)
  BY <1>0 DEF NetInv, Quieted, TypeInv, SocketsCounted, ConnTypes
<1>2. e \in Posted /\ pend[w] \in Pending
  BY TypeInvFacts DEF Posted
<1>3. \A v \in Who : v # w => pend'[v] = pend[v]
  BY <1>0 DEF TypeInv, ConnTypes
<1>4. pend'[w].st = "sent" /\ pend'[w].req = pend[w].req /\ pend[w] # Idle
  BY <1>0, <1>2, WhatIsAsked DEF TypeInv, ConnTypes, Pending
<1>5. \A s \in Sockets : up'[s] = IF s = sock THEN Append(up[s], e) ELSE up[s]
  BY <1>0, <1>1 DEF TypeInv, ConnTypes
<1>10. e.who = w /\ e.req = pend[w].req
  OBVIOUS
<1> HIDE DEF e
<1>6. Quieted'
  BY <1>0, <1>1, <1>3, <1>5, SetFacts DEF NetInv, Quieted
<1>7. IdleWithout'
  BY <1>0, <1>3, <1>4 DEF NetInv, IdleWithout, Who
<1>8. KillsByKill'
  <2>1. \A v \in Who : pend'[v].req.cmd = "kill" => v = "kill"
    BY <1>3, <1>4 DEF NetInv, KillsByKill
  <2>2. \A i \in 1..Len(Append(up[sock], e)) :
          Append(up[sock], e)[i] = e \/ (i \in 1..Len(up[sock]) /\ Append(up[sock], e)[i] = up[sock][i])
    BY <1>1, <1>2
  <2>3. e.req.cmd = "kill" => e.who = "kill"
    BY <1>10 DEF NetInv, KillsByKill
  <2>4. ASSUME NEW s \in Sockets, NEW i \in 1..Len(up'[s]), up'[s][i].req.cmd = "kill"
        PROVE  up'[s][i].who = "kill"
    <3>1. CASE s = sock
      <4>1. up'[s] = Append(up[sock], e)
        BY <1>5, <3>1
      <4>2. up'[s][i] = e \/ (i \in 1..Len(up[sock]) /\ up'[s][i] = up[sock][i])
        BY <2>2, <4>1
      <4> QED
        BY <1>1, <2>3, <2>4, <4>2 DEF NetInv, KillsByKill
    <3>2. CASE s # sock
      BY <1>5, <2>4, <3>2 DEF NetInv, KillsByKill
    <3> QED
      BY <3>1, <3>2
  <2> QED
    BY <2>1, <2>4 DEF KillsByKill
<1>9. OneAnswerEach'
  <2> SUFFICES ASSUME NEW v \in Who
               PROVE  Coming(v)' = IF pend'[v].st = "sent" THEN 1 ELSE 0
    BY DEF OneAnswerEach
  <2>1. Coming(v) = IF pend[v].st = "sent" THEN 1 ELSE 0
    BY <1>1 DEF NetInv, OneAnswerEach
  <2>2. Coming(v) = Carries(up[sock], v) + Carries(down, v)
    BY ComingIs
  <2>3. Coming(v)' = Carries(Append(up[sock], e), v) + Carries(down, v)
    <3> HIDE DEF e
    <3> QED
      BY <1>0, <1>1, <1>5 DEF Coming, Carries
  <2>4. Carries(Append(up[sock], e), v) = Carries(up[sock], v) + IF e.who = v THEN 1 ELSE 0
    BY <1>1, <1>2, CarriesAppend
  <2>5. Carries(up[sock], v) \in Nat /\ Carries(down, v) \in Nat
    BY <1>1, CountTypes
  <2>a. Coming(v) \in Nat /\ Coming(v)' = Coming(v) + IF e.who = v THEN 1 ELSE 0
    BY <2>2, <2>3, <2>4, <2>5
  <2>6. CASE v = w
    BY <1>0, <1>4, <1>10, <2>1, <2>a, <2>6
  <2>7. CASE v # w
    BY <1>3, <1>10, <2>1, <2>a, <2>7
  <2> QED
    BY <2>6, <2>7
<1> QED
  BY <1>6, <1>7, <1>8, <1>9 DEF NetInv

LEMMA ExitNet ==
  ASSUME TypeInv, NetInv, ExitArrives
  PROVE  NetInv'
<1>0. /\ UNCHANGED <<sock, tried, pend, up, task, killing>> /\ down' = Tail(down)
      /\ down # <<>> /\ Head(down).who = "exit"
  BY DEF ExitArrives, Hears, killVars
<1>1. \A v \in Who : Carries(down', v) = Carries(down, v)
  <2>1. \A v \in Who : v # "exit"
    BY DEF Who
  <2>2. ASSUME NEW v \in Who PROVE Carries(down', v) = Carries(down, v)
    <3>1. Carries(down, v) = Carries(Tail(down), v) + IF Head(down).who = v THEN 1 ELSE 0
      BY <1>0, CarriesTail DEF TypeInv, ConnTypes
    <3>2. Carries(Tail(down), v) \in Nat
      BY <1>0, HeadFrameTypes, CarriesNat
    <3> QED
      BY <1>0, <2>1, <3>1, <3>2
  <2> QED
    BY <2>2
<1>2. \A v \in Who : Coming(v)' = Coming(v)
  <2>1. \A v : Coming(v)' = Carries(up[sock], v) + Carries(down', v)
    BY <1>0 DEF Coming, Carries
  <2> QED
    BY <1>1, <2>1, ComingIs
<1> QED
  BY <1>0, <1>2 DEF NetInv, Quieted, IdleWithout, KillsByKill, OneAnswerEach

LEMMA SocketNet ==
  ASSUME TypeInv, NetInv, SocketSteps
  PROVE  NetInv'
<1>1. ASSUME NEW w \in Who, Resend(w) PROVE NetInv'
  <2> DEFINE p == Unsent(pend[w].req)
  <2>1. /\ pend[w].st = "await" /\ sock # 0 /\ pend' = [pend EXCEPT ![w] = p]
        /\ UNCHANGED <<sock, tried, up, down, task, killing>>
    BY <1>1 DEF Resend, Ready, attachVars, killVars
  <2>2. p \in Pending /\ p.st = "unsent" /\ p.req = pend[w].req /\ pend[w] # Idle
    BY <2>1, TypeInvFacts, PendingTypes, WhatIsAsked
  <2>3. p.req.cmd = "kill" => w = "kill"
    BY <2>2 DEF NetInv, KillsByKill
  <2> HIDE DEF p
  <2>4. IdleWithout'
    BY <2>1, <2>2 DEF NetInv, IdleWithout, TypeInv, ConnTypes, Who
  <2> QED
    BY <2>1, <2>2, <2>3, <2>4, PartyMoves
<1>2. CASE ReplayAnswered
  <2> DEFINE d == Unsent(Request("detach", 0, 0))
  <2>1. /\ Hears("replay") /\ down' = Tail(down) /\ UNCHANGED <<sock, tried, up, task, killing>>
        /\ (pend' = [pend EXCEPT !["replay"] = Idle] \/ pend' = [pend EXCEPT !["replay"] = d])
    BY <1>2 DEF ReplayAnswered, ReplayEnds, ReplayRefused, ReplayIsStale, ReplayRestores, killVars
  <2>2. sock # 0 /\ "replay" \in Who
    BY <2>1 DEF Hears, NetInv, Quieted, Who
  <2>3. d \in Pending /\ d.st = "unsent" /\ d.req.cmd = "detach"
    BY UnsentRequest, SetFacts
  <2>4. Idle \in Pending /\ Idle.st = "none" /\ Idle.req.cmd = "none"
    BY PendingTypes, WhatIsAsked
  <2> HIDE DEF d
  <2>5. PICK p \in Pending : /\ p.st # "sent" /\ p.req.cmd # "kill"
                             /\ pend' = [pend EXCEPT !["replay"] = p]
    BY <2>1, <2>3, <2>4
  <2>6. IdleWithout'
    BY <2>1, <2>5 DEF NetInv, IdleWithout, TypeInv, ConnTypes, Who
  <2> QED
    BY <2>1, <2>2, <2>5, <2>6, PartyMoves
<1> QED
  BY <1>1, <1>2, ConnectNet, WriteNet, ExitNet DEF SocketSteps

LEMMA UpShrinks ==
  ASSUME TypeInv, NetInv, UNCHANGED <<sock, tried, pend, task, killing>>,
         \A s \in Sockets : \/ up'[s] = up[s] \/ up'[s] = <<>>
                            \/ up[s] # <<>> /\ up'[s] = Tail(up[s]),
         sock = 0 => down' = <<>>, OneAnswerEach'
  PROVE  NetInv'
<1>1. Quieted'
  BY DEF NetInv, Quieted
<1>2. IdleWithout'
  BY DEF NetInv, IdleWithout
<1>3. KillsByKill'
  <2>1. ASSUME NEW s \in Sockets, NEW i \in 1..Len(up'[s]), up'[s][i].req.cmd = "kill"
        PROVE  up'[s][i].who = "kill"
    <3>1. up[s] \in Seq(Posted)
      BY DEF TypeInv, ConnTypes
    <3>2. \E j \in 1..Len(up[s]) : up'[s][i] = up[s][j]
      <4>1. CASE up'[s] = up[s]
        BY <4>1
      <4>2. CASE up'[s] = <<>>
        BY <4>2
      <4>3. CASE up[s] # <<>> /\ up'[s] = Tail(up[s])
        <5>1. i + 1 \in 1..Len(up[s]) /\ Tail(up[s])[i] = up[s][i + 1]
          BY <3>1, <4>3
        <5> QED
          BY <4>3, <5>1
      <4> QED
        BY <4>1, <4>2, <4>3
    <3> QED
      BY <2>1, <3>2 DEF NetInv, KillsByKill
  <2> QED
    BY <2>1 DEF NetInv, KillsByKill
<1> QED
  BY <1>1, <1>2, <1>3 DEF NetInv

LEMMA AnswersNet ==
  ASSUME TypeInv, NetInv, NEW s \in Sockets, up[s] # <<>>, NEW ok \in BOOLEAN, NEW g \in Gen,
         Answers(s, ok, g)
  PROVE  NetInv'
<1> DEFINE r == Reply(Head(up[s]).who, ok, g)
<1>1. /\ UNCHANGED <<sock, tried, pend, task, killing>>
      /\ up' = [up EXCEPT ![s] = Tail(@)] /\ down' = IF s = sock THEN Append(down, r) ELSE down
  BY DEF Answers, attachVars, killVars
<1>2. /\ \A t \in Sockets : up'[t] = IF t = s THEN Tail(up[t]) ELSE up[t]
      /\ up[s] \in Seq(Posted) /\ down \in Seq(Frames)
  BY <1>1 DEF TypeInv, ConnTypes
<1>3. r \in Frames /\ r.who = Head(up[s]).who
  BY HeadRequestTypes DEF Reply, Frames, TypeInv
<1>4. sock = 0 => down' = <<>>
  BY <1>1, SetFacts DEF NetInv, Quieted
<1>5. OneAnswerEach'
  <2> SUFFICES ASSUME sock # 0, NEW v \in Who
               PROVE  Coming(v)' = IF pend[v].st = "sent" THEN 1 ELSE 0
    BY <1>1 DEF OneAnswerEach
  <2>1. Carries(up[sock], v) + Carries(down, v) = IF pend[v].st = "sent" THEN 1 ELSE 0
    BY ComingIs DEF NetInv, OneAnswerEach
  <2>2. Coming(v)' = Carries(up'[sock], v) + Carries(down', v)
    BY <1>1 DEF Coming, Carries
  <2>3. CASE s # sock
    BY <1>1, <1>2, <2>1, <2>2, <2>3, CountTypes
  <2>4. CASE s = sock
    <3>1. up'[sock] = Tail(up[sock]) /\ down' = Append(down, r)
      BY <1>1, <1>2, <2>4
    <3> HIDE DEF r
    <3>2. Carries(up[sock], v) = Carries(Tail(up[sock]), v) + IF Head(up[sock]).who = v THEN 1 ELSE 0
      BY <1>2, <2>4, CarriesTail
    <3>3. Carries(down', v) = Carries(down, v) + IF r.who = v THEN 1 ELSE 0
      BY <1>2, <1>3, <3>1, CarriesAppend
    <3>5. Tail(up[sock]) \in Seq(Posted)
      BY <1>2, <2>4
    <3>4. Carries(Tail(up[sock]), v) \in Nat /\ Carries(down, v) \in Nat
      BY <1>2, <3>5, CarriesNat
    <3> QED
      BY <1>3, <2>1, <2>2, <2>4, <3>1, <3>2, <3>3, <3>4
  <2> QED
    BY <2>3, <2>4
<1> QED
  BY <1>1, <1>2, <1>4, <1>5, UpShrinks

LEMMA HostNet ==
  ASSUME TypeInv, NetInv, HostSteps
  PROVE  NetInv'
<1>1. ASSUME NEW s \in Sockets,
             HostAttaches(s) \/ HostAttachesExisting(s) \/ HostDetaches(s) \/ HostIsProbed(s)
             \/ (HostKills(s) /\ ~HostTerminates(s, Head(up[s]).req.arg, Head(up[s]).req.gen))
      PROVE  NetInv'
  BY <1>1, HostAnswers, AnswersNet DEF TypeInv
<1>2. ASSUME NEW s \in Sockets, HostTerminates(s, Head(up[s]).req.arg, Head(up[s]).req.gen)
      PROVE  NetInv'
  BY <1>2 DEF HostTerminates, netVars, attachVars, killVars,
              NetInv, Quieted, IdleWithout, KillsByKill, OneAnswerEach, Coming
<1>3. ASSUME NEW s \in Sockets, HostCloses(s) PROVE NetInv'
  <2>1. s # sock /\ UNCHANGED <<sock, tried, pend, task, killing, down>> /\ up' = [up EXCEPT ![s] = <<>>]
    BY <1>3 DEF HostCloses, attachVars, killVars
  <2>2. \A t \in Sockets : up'[t] = IF t = s THEN <<>> ELSE up[t]
    BY <2>1 DEF TypeInv, ConnTypes
  <2>3. sock # 0 => up'[sock] = up[sock]
    BY <2>1, <2>2, CountTypes
  <2>4. OneAnswerEach'
    BY <2>1, <2>3 DEF NetInv, OneAnswerEach, Coming
  <2> QED
    BY <2>1, <2>2, <2>4, UpShrinks DEF NetInv, Quieted
<1> QED
  BY <1>1, <1>2, <1>3 DEF HostSteps

LEMMA AnswersKillNet ==
  ASSUME TypeInv, NetInv, NEW ok \in BOOLEAN, NEW f, NEW g \in Gen,
         f = <<>> \/ (f = <<Exit(g)>> /\ sock # 0),
         AnswersKill(ok, f), UNCHANGED <<sock, tried, pend, task, killing>>
  PROVE  NetInv'
<1> DEFINE k == IF sock \in Waiting THEN <<Reply("kill", ok, 0)>> ELSE <<>>
<1>1. /\ \A s \in Waiting : s \in Sockets /\ up[s] # <<>> /\ Head(up[s]).req.cmd = "kill"
      /\ \A s \in Sockets : up'[s] = IF s \in Waiting THEN Tail(up[s]) ELSE up[s]
      /\ down' = down \o f \o k
      /\ down \in Seq(Frames)
  <2>1. \A s \in Waiting : s \in Sockets /\ up[s] # <<>> /\ Head(up[s]).req.cmd = "kill"
    BY DEF Waiting, Asks, TypeInv, HostTypes
  <2> HIDE DEF Waiting
  <2> QED
    BY <2>1 DEF AnswersKill, TypeInv, ConnTypes
<1>2. Exit(g) \in Frames /\ Reply("kill", ok, 0) \in Frames
      /\ Exit(g).who = "exit" /\ Reply("kill", ok, 0).who = "kill"
  BY SetFacts DEF Exit, Reply, Frames, Who
<1>3. down \o f \in Seq(Frames) /\ (down \o f = down \/ down \o f = Append(down, Exit(g)))
      /\ (f = <<>> => down \o f = down)
  <2>1. down \o <<>> = down
    BY <1>1
  <2>2. \A e \in Frames : down \o <<e>> = Append(down, e) /\ Append(down, e) \in Seq(Frames)
    BY <1>1
  <2>3. f = <<>> => down \o f = down
    BY <2>1
  <2>4. f # <<>> => down \o f = Append(down, Exit(g)) /\ down \o f \in Seq(Frames)
    BY <1>2, <2>2
  <2> QED
    BY <1>1, <2>3, <2>4
<1>4. down' = IF sock \in Waiting THEN Append(down \o f, Reply("kill", ok, 0)) ELSE down \o f
  <2> HIDE DEF Waiting
  <2> QED
    BY <1>1, <1>2, <1>3
<1>5. sock = 0 => down' = <<>>
  <2> HIDE DEF Waiting
  <2> QED
    BY <1>1, <1>3, <1>4, SetFacts DEF NetInv, Quieted
<1>6. OneAnswerEach'
  <2> HIDE DEF Waiting
  <2> SUFFICES ASSUME sock # 0, NEW v \in Who
               PROVE  Coming(v)' = IF pend[v].st = "sent" THEN 1 ELSE 0
    BY DEF OneAnswerEach
  <2>1. Carries(up[sock], v) + Carries(down, v) = IF pend[v].st = "sent" THEN 1 ELSE 0
    BY ComingIs DEF NetInv, OneAnswerEach
  <2>2. Coming(v)' = Carries(up'[sock], v) + Carries(down', v)
    BY DEF Coming, Carries
  <2>3. v # "exit" /\ sock \in Sockets /\ up[sock] \in Seq(Posted)
        /\ (sock \in Waiting => Tail(up[sock]) \in Seq(Posted))
    BY <1>1, CountTypes DEF Who, TypeInv, ConnTypes
  <2>4. Carries(down \o f, v) = Carries(down, v) /\ Carries(down, v) \in Nat
    <3>1. Carries(down, v) \in Nat
      BY CountTypes
    <3>2. Carries(Append(down, Exit(g)), v) = Carries(down, v) + IF Exit(g).who = v THEN 1 ELSE 0
      BY <1>1, <1>2, CarriesAppend
    <3>3. Carries(Append(down, Exit(g)), v) = Carries(down, v)
      BY <1>2, <2>3, <3>1, <3>2
    <3>4. down \o f = down \/ down \o f = Append(down, Exit(g))
      BY <1>3
    <3> QED
      BY <3>1, <3>3, <3>4
  <2>5. CASE sock \notin Waiting
    BY <1>1, <1>4, <2>1, <2>2, <2>3, <2>4, <2>5
  <2>6. CASE sock \in Waiting
    <3>1. up'[sock] = Tail(up[sock]) /\ down' = Append(down \o f, Reply("kill", ok, 0))
          /\ up[sock] # <<>> /\ Head(up[sock]).req.cmd = "kill"
      BY <1>1, <1>4, <2>3, <2>6
    <3>2. Head(up[sock]).who = "kill"
      BY <2>3, <3>1 DEF NetInv, KillsByKill
    <3>3. Carries(up[sock], v) = Carries(up'[sock], v) + IF v = "kill" THEN 1 ELSE 0
      BY <2>3, <3>1, <3>2, CarriesTail
    <3>4. Carries(down', v) = Carries(down \o f, v) + IF v = "kill" THEN 1 ELSE 0
      <4> DEFINE q == down \o f
                 e == Reply("kill", ok, 0)
      <4>1. q \in Seq(Frames) /\ e \in Frames /\ e.who = "kill" /\ down' = Append(q, e)
        BY <1>2, <1>3, <3>1
      <4> HIDE DEF q, e
      <4>2. Carries(Append(q, e), v) = Carries(q, v) + IF e.who = v THEN 1 ELSE 0
        BY <4>1, CarriesAppend
      <4>3. Carries(down', v) = Carries(q, v) + IF v = "kill" THEN 1 ELSE 0
        BY <4>1, <4>2
      <4> QED
        BY <4>3 DEF q
    <3>5. Carries(up'[sock], v) \in Nat
      BY <2>3, <2>6, <3>1, CarriesNat
    <3> QED
      BY <2>1, <2>2, <2>4, <3>3, <3>4, <3>5
  <2> QED
    BY <2>5, <2>6
<1>7. \A s \in Sockets : up'[s] = up[s] \/ (up[s] # <<>> /\ up'[s] = Tail(up[s]))
  <2> HIDE DEF Waiting
  <2> QED
    BY <1>1
<1> QED
  BY <1>5, <1>6, <1>7, UpShrinks

LEMMA WorldNet ==
  ASSUME TypeInv, NetInv, World
  PROVE  NetInv'
<1>1. CASE Aside
  <2>1. UNCHANGED <<netVars, task, killVars>>
    BY <1>1 DEF Aside, Unsubscribe, Attach, RivalCreates, LeaseExpires, attachVars
  <2> QED
    BY <2>1 DEF netVars, killVars, NetInv, Quieted, IdleWithout, KillsByKill, OneAnswerEach, Coming
<1>2. ASSUME NEW mode \in Modes, Kill(mode) PROVE NetInv'
  <2>1. /\ pend' = [pend EXCEPT !["kill"] = Awaits(NoRequest)] /\ killing.st = "no"
        /\ killing'.st = "prepare" /\ UNCHANGED <<sock, tried, up, down, task>>
    BY <1>2 DEF Kill, NotKilling, attachVars
  <2>2. /\ Awaits(NoRequest) \in Pending /\ Awaits(NoRequest).st = "await" /\ "kill" \in Who
        /\ pend["kill"].st # "sent" /\ "lane" # "kill"
    BY <2>1, PendingTypes, WhatIsAsked DEF Who, NetInv, IdleWithout
  <2>3. IdleWithout'
    BY <2>1 DEF NetInv, IdleWithout, TypeInv, ConnTypes, Who
  <2> QED
    BY <2>1, <2>2, <2>3, PartyMoves
<1>3. CASE Breaks
  BY <1>3, DropNet DEF Breaks, DropSocket, attachVars, killVars
<1>4. CASE ConnectFails
  <2>1. /\ sock = 0 /\ UNCHANGED <<sock, tried, up, down, task, killing>>
        /\ pend' = [w \in Who |-> IF pend[w].st = "await" THEN Loses(w) ELSE pend[w]]
    BY <1>4 DEF ConnectFails, attachVars, killVars
  <2>2. \A w \in Who : /\ pend[w].st # "await" => pend'[w] = pend[w]
                       /\ pend[w].st = "await" => pend'[w].st = "lost" /\ pend'[w].req = pend[w].req
    BY <2>1, TypeInvFacts DEF Loses, Pending
  <2>3. Quieted'
    BY <2>1, <2>2 DEF NetInv, Quieted
  <2>4. IdleWithout'
    BY <2>1, <2>2, WhatIsAsked DEF NetInv, IdleWithout, Who
  <2>5. KillsByKill'
    BY <2>1, <2>2 DEF NetInv, KillsByKill
  <2> QED
    BY <2>1, <2>3, <2>4, <2>5 DEF NetInv, OneAnswerEach
<1>5. CASE Ends \/ TerminationFails
  <2>1. UNCHANGED <<sock, tried, pend, task, killing>>
    BY <1>5 DEF Ends, TerminationFails, attachVars, killVars
  <2>2. host.live \in Gen /\ (sock \in host.subs => sock # 0)
    BY HostRecordTypes, SetFacts DEF TypeInv
  <2>3. \E ok \in BOOLEAN, f \in {<<>>, <<Exit(host.live)>>} :
          AnswersKill(ok, f) /\ (f = <<>> \/ (f = <<Exit(host.live)>> /\ sock # 0))
    <3>1. CASE Ends
      BY <2>2, <3>1 DEF Ends
    <3>2. CASE TerminationFails
      BY <3>2 DEF TerminationFails
    <3> QED
      BY <1>5, <3>1, <3>2
  <2> QED
    BY <2>1, <2>2, <2>3, AnswersKillNet
<1> QED
  BY <1>1, <1>2, <1>3, <1>4, <1>5 DEF World, Aside

LEMMA NetStep ==
  ASSUME TypeInv, NetInv, [Next]_vars
  PROVE  NetInv'
<1>1. CASE UNCHANGED vars
  BY <1>1 DEF vars, netVars, attachVars, killVars, NetInv, Quieted, IdleWithout, KillsByKill,
              OneAnswerEach, Coming
<1> QED
  BY <1>1, LaneNet, KillNet, SocketNet, HostNet, WorldNet DEF Next

LEMMA NetInit ==
  ASSUME Init
  PROVE  NetInv
<1>1. /\ sock = 0 /\ tried = 0 /\ down = <<>> /\ \A s \in Sockets : up[s] = <<>>
      /\ \A w \in Who : pend[w] = Idle /\ killing.st = "no"
      /\ "lane" \in Who /\ "kill" \in Who
  BY DEF Init, NotKilling, Who
<1>2. Quieted
  BY <1>1, WhatIsAsked DEF Quieted
<1>3. IdleWithout
  BY <1>1 DEF IdleWithout
<1>4. KillsByKill
  BY <1>1, WhatIsAsked DEF KillsByKill
<1> QED
  BY <1>1, <1>2, <1>3, <1>4 DEF NetInv, OneAnswerEach

(* What a party of the client awaits over its connection is on its way     *)
(* exactly once, and nothing else is, however many connections broke or    *)
(* were given up before: an answer is never taken for that of another      *)
(* request of the party (request(), onFrame and dropSocket).               *)
THEOREM AnswersAreOnesOwn == Spec => []OneAnswerEach
<1>1. Init => TypeInv /\ NetInv
  BY TypeInvInit, NetInit
<1>2. TypeInv /\ NetInv /\ [Next]_vars => TypeInv' /\ NetInv'
  BY TypeInvStep, NetStep
<1>3. NetInv => OneAnswerEach
  BY DEF NetInv
<1> QED
  BY <1>1, <1>2, <1>3, PTL DEF Spec

-----------------------------------------------------------------------------
(* 3. A kill ends what it was meant for, and what is confirmed is gone. *)

(* What a kill asks the host, and that what is on its way is what it asks. *)
Confirms == Request("kill", killing.op, Plan.gen)

KillAsks ==
  /\ pend["kill"].st \in {"unsent", "sent"} => pend["kill"].req # NoRequest
  /\ killing.st = "prepare" =>
       pend["kill"].req = NoRequest \/ (pend["kill"].req = Request("has", 0, 0) /\ Plan.gen = 0)
  /\ killing.st = "confirm" => pend["kill"].req \in {NoRequest, Confirms} /\ Plan.prepared
  /\ sock # 0 => \A i \in 1..Len(up[sock]) : up[sock][i].who = "kill" => up[sock][i].req = pend["kill"].req

(* The client knows of no generation that was not spawned. *)
Born ==
  /\ host.live <= host.born
  /\ seen <= host.born
  /\ \A o \in Asked : states[o].gen <= host.born
  /\ \A o \in 1..Len(plans) : plans[o].gen <= host.born
  /\ \A i \in 1..Len(down) : down[i].gen <= host.born

(* It does not live, and will not: generations are not reused. *)
Gone(g) == g = 0 \/ (g <= host.born /\ g # host.live)

(* A kill is on its way for the operation in doubt, or for one that the    *)
(* host has completed; it names the generation of its operation, if any.   *)
Target(o, g) ==
  /\ o \in 1..Len(plans)
  /\ plans[o].prepared
  /\ g # 0 => plans[o].gen = g
  /\ o = op \/ Completed(o)

Targets ==
  \A s \in Sockets : \A i \in 1..Len(up[s]) :
    up[s][i].req.cmd = "kill" => Target(up[s][i].req.arg, up[s][i].req.gen)

(* The process that is being ended is the one of the operation in doubt. *)
DyingIsTarget ==
  host.dying # 0 =>
    /\ host.dying = op
    /\ host.dying \in 1..Len(plans)
    /\ plans[host.dying].prepared
    /\ plans[host.dying].gen = host.live /\ host.live # 0
    /\ ~Completed(host.dying)

(* The kill under way is the operation in doubt, and a replacement that    *)
(* may attach is that of an operation which is complete.                   *)
InDoubt ==
  /\ killing.st # "no" => op \in {0, killing.op} /\ (op = 0 => Completed(killing.op))
  /\ op # 0 /\ meant # 0 => plans[op].gen = meant
  /\ token # 0 => Completed(token)
  /\ task.token # 0 => Completed(task.token)

(* What was completed, or told to be, is gone; and the host's word that a  *)
(* kill is done is of the operation that waits for it.                     *)
Ended ==
  /\ \A d \in host.done : Gone(d.gen)
  /\ \A g \in dead : Gone(g)
  /\ killing.st = "confirm" => \A i \in 1..Len(down) :
       down[i].who = "kill" /\ down[i].ok => Completed(killing.op) /\ Gone(Plan.gen)

KillInv == KillAsks /\ Born /\ Targets /\ DyingIsTarget /\ InDoubt /\ Ended

LEMMA NoneComing ==
  ASSUME NEW w, NEW u \in Seq(Posted), NEW d \in Seq(Frames), Carries(u, w) + Carries(d, w) = 0
  PROVE  (\A i \in 1..Len(u) : u[i].who # w) /\ (\A i \in 1..Len(d) : d[i].who # w)
<1>1. Carries(u, w) \in Nat /\ Carries(d, w) \in Nat
  BY CarriesNat
<1>2. Carries(u, w) = 0 /\ Carries(d, w) = 0
  BY <1>1
<1> QED
  BY <1>2, CarriesNat

LEMMA NoKillComing ==
  ASSUME TypeInv, NetInv, pend["kill"].st # "sent"
  PROVE  /\ \A i \in 1..Len(down) : down[i].who # "kill"
         /\ sock # 0 => \A i \in 1..Len(up[sock]) : up[sock][i].who # "kill"
<1>1. CASE sock = 0
  BY <1>1 DEF NetInv, Quieted
<1>2. CASE sock # 0
  <2>1. sock \in Sockets /\ up[sock] \in Seq(Posted) /\ down \in Seq(Frames) /\ "kill" \in Who
    BY <1>2 DEF TypeInv, ConnTypes, Who
  <2>2. Carries(up[sock], "kill") + Carries(down, "kill") = 0
    BY <1>2, <2>1, ComingIs DEF NetInv, OneAnswerEach
  <2> QED
    BY <2>1, <2>2, NoneComing
<1> QED
  BY <1>1, <1>2

LEMMA NoKillThen ==
  ASSUME TypeInv', NetInv', pend'["kill"].st # "sent"
  PROVE  /\ \A i \in 1..Len(down') : down'[i].who # "kill"
         /\ sock' # 0 => \A i \in 1..Len(up'[sock']) : up'[sock'][i].who # "kill"
<1>1. CASE sock' = 0
  BY <1>1 DEF NetInv, Quieted
<1>2. CASE sock' # 0
  <2>1. sock' \in Sockets /\ up'[sock'] \in Seq(Posted) /\ down' \in Seq(Frames) /\ "kill" \in Who
    BY <1>2 DEF TypeInv, ConnTypes, Who
  <2>2. Carries(up'[sock'], "kill") + Carries(down', "kill") = 0
    BY <1>2, <2>1 DEF NetInv, OneAnswerEach, Coming, Carries
  <2> QED
    BY <2>1, <2>2, NoneComing
<1> QED
  BY <1>1, <1>2

(* The kill that hears an answer asked for it. *)
LEMMA KillHeard ==
  ASSUME TypeInv, NetInv, KillAsks, Hears("kill")
  PROVE  /\ pend["kill"].st = "sent" /\ pend["kill"].req # NoRequest /\ sock # 0
         /\ killing.st = "prepare" => Plan.gen = 0
         /\ down # <<>> /\ Head(down) = down[1] /\ 1 \in 1..Len(down)
<1>1. down # <<>> /\ Head(down).who = "kill" /\ Head(down) = down[1] /\ 1 \in 1..Len(down)
  BY DEF Hears, TypeInv, ConnTypes
<1>2. pend["kill"].st = "sent"
  BY <1>1, NoKillComing
<1> QED
  BY <1>1, <1>2 DEF KillAsks, NetInv, Quieted, Who

LEMMA KillTarget ==
  ASSUME TypeInv, NetInv, KillInv, NEW s \in Sockets, HostTakes(s, "kill")
  PROVE  /\ Target(Head(up[s]).req.arg, Head(up[s]).req.gen)
         /\ Head(up[s]).req.gen \in Gen /\ Head(up[s]).req.arg \in Op
         /\ Head(up[s]).req.gen <= host.born
         /\ Head(up[s]).who = "kill"
<1>1. up[s] # <<>> /\ Head(up[s]).req.cmd = "kill"
  BY HostTakesType DEF TypeInv
<1>2. Head(up[s]) = up[s][1] /\ 1 \in 1..Len(up[s])
  BY <1>1 DEF TypeInv, ConnTypes
<1>3. Target(Head(up[s]).req.arg, Head(up[s]).req.gen)
  BY <1>1, <1>2 DEF KillInv, Targets
<1>4. Head(up[s]).who = "kill"
  BY <1>1, <1>2 DEF NetInv, KillsByKill
<1>5. Head(up[s]).req.gen \in Gen /\ Head(up[s]).req.arg \in Op
  BY <1>1, HeadRequestTypes DEF TypeInv
<1>6. Head(up[s]).req.gen <= host.born
  <2> DEFINE g == Head(up[s]).req.gen
             o == Head(up[s]).req.arg
  <2>1. g \in Nat /\ host.born \in Nat
    BY <1>5, HostRecordTypes, SetFacts DEF TypeInv
  <2>2. o \in 1..Len(plans) /\ (g # 0 => plans[o].gen = g)
    BY <1>3 DEF Target
  <2> HIDE DEF g, o
  <2>3. g # 0 => g <= host.born
    BY <2>2 DEF KillInv, Born
  <2>4. g <= host.born
    BY <2>1, <2>3
  <2> QED
    BY <2>4 DEF g
<1> QED
  BY <1>3, <1>4, <1>5, <1>6

LEMMA HostUntouched ==
  ASSUME TypeInv, Next
  PROVE  \/ UNCHANGED host
         \/ \E s \in Sockets : \/ HostAttaches(s) \/ HostAttachesExisting(s) \/ HostDetaches(s)
                               \/ HostKills(s) \/ HostCloses(s)
         \/ Ends \/ TerminationFails \/ RivalCreates \/ LeaseExpires
<1>1. LaneSteps => UNCHANGED host
  BY LaneKill
<1>2. KillSteps => UNCHANGED host
  BY KillStepsKill
<1>3. SocketSteps => UNCHANGED host
  BY DEF SocketSteps, Connect, Resend, Write, ReplayAnswered, ExitArrives
<1>4. \A s : HostIsProbed(s) => UNCHANGED host
  BY DEF HostIsProbed
<1>5. World => \/ UNCHANGED host \/ Ends \/ TerminationFails \/ RivalCreates \/ LeaseExpires
  BY DEF World, Unsubscribe, Attach, Kill, Breaks, ConnectFails
<1> QED
  BY <1>1, <1>2, <1>3, <1>4, <1>5 DEF Next, HostSteps

(* What a step does to the processes and to what the host has completed. *)
HostMove ==
  /\ host.done \subseteq host'.done
  /\ host'.born \in {host.born, host.born + 1}
  /\ \/ host'.live \in {host.live, 0} /\ host'.born = host.born
     \/ host.live = 0 /\ host'.live = host.born + 1 /\ host'.born = host.born + 1
  /\ host.dying # 0 /\ host'.dying # 0 =>
       host'.dying = host.dying /\ host'.live = host.live /\ host'.done = host.done
  /\ \A d \in host'.done : d \in host.done \/ (d.gen <= host.born /\ (d.gen = 0 \/ d.gen # host'.live))

LEMMA Attaches ==
  ASSUME TypeInv, KillInv, NEW s \in Sockets, HostAttaches(s)
  PROVE  HostMove /\ (host.dying = 0 => host'.dying = 0)
<1> DEFINE g == host.born + 1
           t == Head(up[s]).req.arg
<1>0. host \in Record
  BY DEF TypeInv, HostTypes
<1>1. \/ host' = host
      \/ host' = [host EXCEPT !.subs = @ \union {s}]
      \/ /\ host.dying = 0 /\ host.live = 0
         /\ host' = [host EXCEPT !.live = g, !.born = g, !.by[g] = t, !.subs = {s}, !.lease = 0]
      \/ host' = [host EXCEPT !.lease = 0]
  BY DEF HostAttaches, Refuses, Subscribes
<1> HIDE DEF t
<1>2. \/ /\ host'.live = host.live /\ host'.born = host.born /\ host'.dying = host.dying
         /\ host'.done = host.done
      \/ /\ host.dying = 0 /\ host.live = 0 /\ host'.live = g /\ host'.born = g
         /\ host'.dying = 0 /\ host'.done = host.done
  BY <1>0, <1>1 DEF Record
<1> QED
  BY <1>2 DEF HostMove

LEMMA KillsMove ==
  ASSUME TypeInv, NetInv, KillInv, NEW s \in Sockets, HostKills(s)
  PROVE  /\ HostMove
         /\ host.dying = 0 /\ host'.dying # 0 =>
              HostTerminates(s, Head(up[s]).req.arg, Head(up[s]).req.gen)
<1> DEFINE o == Head(up[s]).req.arg
           g == Head(up[s]).req.gen
<1>0. /\ host \in Record /\ HostTakes(s, "kill")
      /\ (HostReplays(s, o, g) \/ HostFindsItGone(s, o, g) \/ HostFindsAnother(s, o, g)
          \/ HostTerminates(s, o, g))
  BY DEF TypeInv, HostTypes, HostKills
<1>1. g \in Gen /\ g <= host.born /\ o \in Op
  BY <1>0, KillTarget
<1> HIDE DEF o, g
<1>2. CASE HostReplays(s, o, g)
  <2>1. host' = host \/ \E l : host' = [host EXCEPT !.lease = l]
    BY <1>2 DEF HostReplays, Refuses
  <2>2. host'.live = host.live /\ host'.born = host.born /\ host'.dying = host.dying
        /\ host'.done = host.done
    BY <1>0, <2>1 DEF Record
  <2> QED
    BY <2>2 DEF HostMove
<1>3. CASE HostFindsItGone(s, o, g)
  <2>1. host.live = 0 /\ host.dying = 0
        /\ (host' = host \/ \E l : host' = [host EXCEPT !.lease = l, !.done = Completes(o, g)])
    BY <1>3 DEF HostFindsItGone, Refuses
  <2>2. host'.live = host.live /\ host'.born = host.born /\ host'.dying = host.dying
        /\ (host'.done = host.done \/ host'.done = Completes(o, g))
    BY <1>0, <2>1 DEF Record
  <2>3. \A d \in Completes(o, g) : d \in host.done \/ (d.gen <= host.born /\ (d.gen = 0 \/ d.gen # 0))
    BY <1>1 DEF Completes
  <2>4. host.done \subseteq Completes(o, g)
    BY DEF Completes
  <2> QED
    BY <2>1, <2>2, <2>3, <2>4 DEF HostMove
<1>4. CASE HostFindsAnother(s, o, g)
  <2>1. \/ host' = host
        \/ /\ host.dying = 0 /\ host.live \notin {0, g}
           /\ host' = [host EXCEPT !.done = Completes(o, g)]
    BY <1>4 DEF HostFindsAnother, Refuses
  <2>2. host'.live = host.live /\ host'.born = host.born /\ host'.dying = host.dying
        /\ (host'.done = host.done
            \/ (host.dying = 0 /\ host.live # g /\ host'.done = Completes(o, g)))
    BY <1>0, <2>1 DEF Record
  <2> QED
    BY <1>1, <2>2 DEF HostMove, Completes
<1>5. CASE HostTerminates(s, o, g)
  <2>1. host.dying = 0 /\ host' = [host EXCEPT !.dying = o]
    BY <1>5 DEF HostTerminates
  <2>2. host'.live = host.live /\ host'.born = host.born /\ host'.done = host.done
    BY <1>0, <2>1 DEF Record
  <2> QED
    BY <1>5, <2>1, <2>2 DEF HostMove, o, g
<1> QED
  BY <1>0, <1>2, <1>3, <1>4, <1>5

LEMMA EndsMove ==
  ASSUME TypeInv, KillInv, Ends
  PROVE  HostMove /\ host'.dying = 0 /\ host'.live = 0 /\ host'.born = host.born
         /\ (host.dying # 0 => host'.done = Completes(host.dying, host.live))
         /\ (host.dying = 0 => host'.done = host.done)
<1>0. host \in Record /\ host.live \in Nat /\ host.live <= host.born /\ host.live # 0
  BY HostRecordTypes, SetFacts DEF TypeInv, HostTypes, KillInv, Born, Ends
<1>1. \E l : host' = [host EXCEPT !.live = 0, !.subs = {}, !.dying = 0, !.lease = l,
               !.done = IF host.dying # 0 THEN Completes(host.dying, host.live) ELSE host.done]
  BY DEF Ends
<1>2. /\ host'.live = 0 /\ host'.dying = 0 /\ host'.born = host.born
      /\ host'.done = IF host.dying # 0 THEN Completes(host.dying, host.live) ELSE host.done
  BY <1>0, <1>1 DEF Record
<1> QED
  BY <1>0, <1>2 DEF HostMove, Completes

LEMMA HostMoves ==
  ASSUME TypeInv, NetInv, KillInv, Next
  PROVE  /\ HostMove
         /\ host.dying = 0 /\ host'.dying # 0 => \E s \in Sockets :
              HostTakes(s, "kill") /\ HostTerminates(s, Head(up[s]).req.arg, Head(up[s]).req.gen)
<1>0. host \in Record
  BY DEF TypeInv, HostTypes
<1>1. CASE UNCHANGED host
  BY <1>1 DEF HostMove
<1>2. ASSUME NEW s \in Sockets,
             HostAttachesExisting(s) \/ HostDetaches(s) \/ HostCloses(s)
      PROVE  HostMove /\ host'.dying = host.dying
  <2>1. host' = host \/ \E t : host' = [host EXCEPT !.subs = t]
    BY <1>2 DEF HostAttachesExisting, HostDetaches, HostCloses, Refuses, Subscribes
  <2>2. host'.live = host.live /\ host'.born = host.born /\ host'.dying = host.dying
        /\ host'.done = host.done
    BY <1>0, <2>1 DEF Record
  <2> QED
    BY <2>2 DEF HostMove
<1>3. ASSUME TerminationFails \/ LeaseExpires PROVE HostMove /\ host'.dying \in {0, host.dying}
  <2>1. host' = [host EXCEPT !.dying = 0] \/ host' = [host EXCEPT !.lease = 0]
    BY <1>3 DEF TerminationFails, LeaseExpires
  <2>2. /\ host'.live = host.live /\ host'.born = host.born
        /\ host'.done = host.done /\ host'.dying \in {0, host.dying}
    BY <1>0, <2>1 DEF Record
  <2> QED
    BY <2>2 DEF HostMove
<1>4. ASSUME RivalCreates PROVE HostMove /\ host'.dying = host.dying
  <2>1. /\ host.live = 0 /\ host'.live = host.born + 1 /\ host'.born = host.born + 1
        /\ host'.done = host.done /\ host'.dying = host.dying
    BY <1>0, <1>4 DEF RivalCreates, Record
  <2> QED
    BY <2>1 DEF HostMove, KillInv, DyingIsTarget
<1>5. \A s \in Sockets : HostKills(s) => HostTakes(s, "kill")
  BY DEF HostKills
<1> QED
  BY <1>1, <1>2, <1>3, <1>4, <1>5, HostUntouched, Attaches, KillsMove, EndsMove

LEMMA GoneStays ==
  ASSUME HostTypes, HostMove, NEW g \in Gen, Gone(g)
  PROVE  Gone(g)'
<1>1. host.born \in Nat /\ g \in Nat
  BY HostRecordTypes, SetFacts
<1> QED
  BY <1>1 DEF HostMove, Gone

LEMMA CompletedStays ==
  ASSUME HostMove, NEW o, Completed(o)
  PROVE  Completed(o)'
BY DEF HostMove, Completed

(* The identity of an operation: once it names a generation it keeps it. *)
PlansMove ==
  \A o \in 1..Len(plans) :
    /\ o \in 1..Len(plans')
    /\ plans[o].prepared => plans'[o].prepared
    /\ plans[o].gen # 0 => plans'[o].gen = plans[o].gen

LEMMA KillSends ==
  ASSUME TypeInv, NetInv, KillInv, KillPrepares \/ KillProbed
  PROVE  /\ killing.st = "prepare" /\ sock # 0
         /\ \/ \E g \in Gen : /\ Sends(g) /\ g <= host.born
                              /\ Plan.gen # 0 => g = Plan.gen
            \/ KillPrepares /\ UNCHANGED <<plans, meant, killing>>
                 /\ pend' = [pend EXCEPT !["kill"] = Unsent(Request("has", 0, 0))] /\ Plan.gen = 0
<1>1. killing.st = "prepare" /\ Plan.gen \in Gen
  BY PlanTypes DEF KillPrepares, KillProbed
<1>2. Plan.gen <= host.born
  BY <1>1, PlanTypes DEF KillInv, Born, Plan
<1>3. CASE KillPrepares
  BY <1>1, <1>2, <1>3 DEF KillPrepares, Probes, Ready
<1>4. CASE KillProbed
  <2>1. Hears("kill") /\ Sends(Head(down).gen)
    BY <1>4 DEF KillProbed
  <2>2. Plan.gen = 0 /\ sock # 0 /\ Head(down) = down[1] /\ 1 \in 1..Len(down) /\ down # <<>>
    BY <1>1, <2>1, KillHeard DEF KillInv
  <2>3. Head(down).gen \in Gen /\ Head(down).gen <= host.born
    BY <2>2, HeadFrameTypes DEF KillInv, Born
  <2> QED
    BY <1>1, <2>1, <2>2, <2>3
<1> QED
  BY <1>3, <1>4

LEMMA KillUntouched ==
  ASSUME TypeInv, Next
  PROVE  \/ UNCHANGED <<plans, killing, meant, dead>>
         \/ KillPrepares \/ KillProbed \/ KillNotPrepared \/ KillConfirmed \/ KillRefused \/ KillLost
         \/ \E mode \in Modes : Kill(mode)
<1>1. LaneSteps => UNCHANGED <<plans, killing, meant, dead>>
  BY LaneKill
<1>2. SocketSteps \/ HostSteps \/ KillRetries => UNCHANGED <<plans, killing, meant, dead>>
  BY SocketKill, HostLeavesClient DEF KillRetries, killVars
<1>3. World => UNCHANGED <<plans, killing, meant, dead>> \/ \E mode \in Modes : Kill(mode)
  BY DEF World, Unsubscribe, Attach, Breaks, ConnectFails, Ends, TerminationFails, RivalCreates,
         LeaseExpires, killVars
<1> QED
  BY <1>1, <1>2, <1>3 DEF Next, KillSteps

LEMMA PlansMoves ==
  ASSUME TypeInv, NetInv, KillInv, Next
  PROVE  PlansMove
<1>0. plans \in Seq(Identities)
  BY DEF TypeInv, KillTypes
<1>1. CASE UNCHANGED plans
  BY <1>1 DEF PlansMove
<1>2. ASSUME KillPrepares \/ KillProbed PROVE PlansMove
  <2>1. CASE UNCHANGED plans
    BY <2>1, <1>1
  <2>2. ASSUME NEW g \in Gen, Sends(g), Plan.gen # 0 => g = Plan.gen PROVE PlansMove
    <3>1. killing.st # "no"
      BY <1>2 DEF KillPrepares, KillProbed
    <3>2. /\ Len(plans') = Len(plans)
          /\ \A o \in 1..Len(plans) : plans'[o] =
               IF o = killing.op THEN [gen |-> g, mode |-> Plan.mode, prepared |-> TRUE] ELSE plans[o]
      BY <2>2, <3>1, SendsPlans
    <3> QED
      BY <2>2, <3>2 DEF PlansMove, Plan
  <2> QED
    BY <1>2, <2>1, <2>2, KillSends
<1>3. CASE KillNotPrepared \/ KillConfirmed \/ KillRefused \/ KillLost
  BY <1>1, <1>3 DEF KillNotPrepared, KillConfirmed, KillRefused, KillLost, AttemptFails
<1>4. ASSUME NEW mode \in Modes, Kill(mode) PROVE PlansMove
  <2>1. plans' = plans \/ (plans' = Append(plans, Identity(mode)) /\ Identity(mode) \in Identities)
    BY <1>4, KillBegins
  <2> QED
    BY <1>0, <2>1 DEF PlansMove
<1> QED
  BY <1>1, <1>2, <1>3, <1>4, KillUntouched

(* An operation is in doubt until the host says that it is complete, or it  *)
(* is known that it was never asked for.                                   *)
OpMove ==
  \/ op' = op
  \/ op # 0 /\ op' = 0 /\ (Completed(op) \/ (~plans[op].prepared /\ killing' = NotKilling))
  \/ op = 0 /\ \E mode \in Modes : Kill(mode)

LEMMA LaneOp ==
  ASSUME TypeInv, LaneSteps
  PROVE  /\ op' = op \/ (op # 0 /\ op' = 0 /\ op = task.token)
         /\ task'.token \in {0, task.token, token}
<1>1. CASE AttachBegins \/ DetachBegins \/ DetachAnswered \/ DetachLost
  BY <1>1 DEF AttachBegins, DetachBegins, DetachAnswered, DetachLost, TaskEnds, NoTask, killVars
<1>2. CASE AttachAsks
  BY <1>2 DEF AttachAsks, killVars
<1>3. CASE AttachAnswered
  <2>1. task' = NoTask
    BY <1>3 DEF AttachAnswered, AttachSucceeds, AttachFails, TaskEnds, TaskDetaches
  <2>2. op' = op \/ op' = IF op = task.token THEN 0 ELSE op
    BY <1>3 DEF AttachAnswered, AttachSucceeds, AttachFails
  <2> QED
    BY <2>1, <2>2 DEF NoTask
<1>4. CASE AttachLost
  <2>1. CASE task.tries > 1
    <3>1. task' = [task EXCEPT !.tries = @ - 1] /\ op' = op
      BY <1>4, <2>1 DEF AttachLost
    <3>2. task'.token = task.token
      BY <3>1 DEF TypeInv, ViewTypes
    <3> QED
      BY <3>1, <3>2
  <2>2. CASE ~(task.tries > 1)
    <3>1. AttachFails(Head(lane).of)
      BY <1>4, <2>2 DEF AttachLost
    <3>2. op' = op /\ task' = NoTask
      BY <3>1 DEF AttachFails, TaskEnds, TaskDetaches
    <3> QED
      BY <3>2 DEF NoTask
  <2> QED
    BY <2>1, <2>2
<1> QED
  BY <1>1, <1>2, <1>3, <1>4 DEF LaneSteps

(* The word of the host that a kill is done. *)
LEMMA ConfirmedIsDone ==
  ASSUME TypeInv, NetInv, KillInv, KillConfirmed
  PROVE  /\ Completed(killing.op) /\ Gone(Plan.gen)
         /\ killing.op \in 1..Len(plans) /\ Plan.gen \in Gen
<1>1. /\ killing.st = "confirm" /\ Hears("kill") /\ Head(down).ok /\ Head(down).who = "kill"
  BY DEF KillConfirmed, HostSaysKilled, Hears
<1>2. Head(down) = down[1] /\ 1 \in 1..Len(down)
  BY <1>1, KillHeard DEF KillInv
<1> QED
  BY <1>1, <1>2, PlanTypes DEF KillInv, Ended

LEMMA OpMoves ==
  ASSUME TypeInv, NetInv, KillInv, Next
  PROVE  OpMove
<1>1. CASE LaneSteps
  BY <1>1, LaneOp DEF OpMove, KillInv, InDoubt
<1>2. CASE KillSteps
  <2>1. CASE KillConfirmed
    <3>1. killing.op # 0 /\ Completed(killing.op)
      BY <2>1, ConfirmedIsDone
    <3> QED
      BY <2>1, <3>1 DEF KillConfirmed, OpMove
  <2>2. CASE KillNotPrepared
    <3>1. killing.op \in 1..Len(plans)
      BY <2>2, PlanTypes DEF KillNotPrepared
    <3> QED
      BY <2>2, <3>1 DEF KillNotPrepared, OpMove, Plan
  <2> QED
    BY <1>2, <2>1, <2>2 DEF KillSteps, KillPrepares, KillProbed, KillRetries, KillRefused, KillLost,
       AttemptFails, killVars, OpMove
<1>3. CASE SocketSteps \/ HostSteps
  BY <1>3, SocketKill, HostLeavesClient DEF killVars, OpMove
<1>4. CASE World
  <2>1. UNCHANGED op \/ (op = 0 /\ \E mode \in Modes : Kill(mode))
    BY <1>4 DEF World, Unsubscribe, Attach, Kill, Breaks, ConnectFails, Ends, TerminationFails,
       RivalCreates, LeaseExpires, killVars
  <2> QED
    BY <2>1 DEF OpMove
<1> QED
  BY <1>1, <1>2, <1>3, <1>4 DEF Next

(* A request on its way was on its way, or is written now. *)
UpMove ==
  \A s \in Sockets : \A i \in 1..Len(up'[s]) :
    \/ \E j \in 1..Len(up[s]) : up'[s][i] = up[s][j]
    \/ s = sock /\ \E w \in Who : Write(w) /\ up'[s][i].who = w /\ up'[s][i].req = pend[w].req

LEMMA ShrinksMove ==
  ASSUME TypeInv,
         \A s \in Sockets : \/ up'[s] = up[s] \/ up'[s] = <<>>
                            \/ up[s] # <<>> /\ up'[s] = Tail(up[s])
  PROVE  UpMove
<1>1. ASSUME NEW s \in Sockets, NEW i \in 1..Len(up'[s])
      PROVE  \E j \in 1..Len(up[s]) : up'[s][i] = up[s][j]
  <2>1. up[s] \in Seq(Posted)
    BY DEF TypeInv, ConnTypes
  <2>2. CASE up'[s] = up[s]
    BY <2>2
  <2>3. CASE up'[s] = <<>>
    BY <2>3
  <2>4. CASE up[s] # <<>> /\ up'[s] = Tail(up[s])
    <3>1. i + 1 \in 1..Len(up[s]) /\ Tail(up[s])[i] = up[s][i + 1]
      BY <2>1, <2>4
    <3> QED
      BY <2>4, <3>1
  <2> QED
    BY <1>1, <2>2, <2>3, <2>4
<1> QED
  BY <1>1 DEF UpMove

LEMMA WritesMove ==
  ASSUME TypeInv, NetInv, NEW w \in Who, Write(w)
  PROVE  UpMove
<1> DEFINE e == [who |-> w, req |-> pend[w].req]
<1>1. sock # 0 /\ up' = [up EXCEPT ![sock] = Append(@, e)]
  BY DEF Write, NetInv, Quieted
<1>2. sock \in Sockets /\ up[sock] \in Seq(Posted) /\ e \in Posted
  BY <1>1, TypeInvFacts DEF TypeInv, ConnTypes, Posted
<1>3. e.who = w /\ e.req = pend[w].req
  OBVIOUS
<1> HIDE DEF e
<1>4. \A s \in Sockets : up'[s] = IF s = sock THEN Append(up[s], e) ELSE up[s]
  BY <1>1, <1>2 DEF TypeInv, ConnTypes
<1>5. \A i \in 1..Len(Append(up[sock], e)) :
        \/ \E j \in 1..Len(up[sock]) : Append(up[sock], e)[i] = up[sock][j]
        \/ Append(up[sock], e)[i] = e
  BY <1>2
<1>6. ASSUME NEW s \in Sockets, NEW i \in 1..Len(up'[s])
      PROVE  \/ \E j \in 1..Len(up[s]) : up'[s][i] = up[s][j]
             \/ s = sock /\ up'[s][i] = e
  <2>1. CASE s = sock
    <3>1. up'[s] = Append(up[sock], e)
      BY <1>4, <2>1
    <3> QED
      BY <1>5, <1>6, <2>1, <3>1
  <2>2. CASE s # sock
    BY <1>4, <1>6, <2>2
  <2> QED
    BY <2>1, <2>2
<1> QED
  BY <1>3, <1>6 DEF UpMove

LEMMA UpMoves ==
  ASSUME TypeInv, NetInv, Next
  PROVE  UpMove
<1>0. up' = up => UpMove
  BY DEF UpMove
<1>1. LaneSteps \/ KillSteps => up' = up
  BY DEF LaneSteps, AttachBegins, AttachAsks, AttachAnswered, AttachLost,
         DetachBegins, DetachAnswered, DetachLost,
         KillSteps, KillPrepares, KillProbed, KillNotPrepared, KillRetries,
         KillConfirmed, KillRefused, KillLost, AttemptFails
<1>2. SocketSteps => up' = up \/ \E w \in Who : Write(w)
  BY DEF SocketSteps, Connect, Resend, ReplayAnswered, ExitArrives
<1>3. ASSUME NEW s \in Sockets,
             HostAttaches(s) \/ HostAttachesExisting(s) \/ HostDetaches(s) \/ HostIsProbed(s)
             \/ (HostKills(s) /\ ~HostTerminates(s, Head(up[s]).req.arg, Head(up[s]).req.gen))
      PROVE  UpMove
  <2>1. up[s] # <<>> /\ up' = [up EXCEPT ![s] = Tail(@)]
    BY <1>3, HostAnswers DEF TypeInv, Answers
  <2> QED
    BY <2>1, ShrinksMove DEF TypeInv, ConnTypes
<1>4. ASSUME NEW s \in Sockets, HostTerminates(s, Head(up[s]).req.arg, Head(up[s]).req.gen)
      PROVE  up' = up
  BY <1>4 DEF HostTerminates, netVars
<1>5. ASSUME NEW s \in Sockets, HostCloses(s) PROVE UpMove
  <2>1. up' = [up EXCEPT ![s] = <<>>]
    BY <1>5 DEF HostCloses
  <2> QED
    BY <2>1, ShrinksMove DEF TypeInv, ConnTypes
<1>6. ASSUME Ends \/ TerminationFails PROVE UpMove
  <2>1. \A s \in Waiting : up[s] # <<>>
    BY DEF Waiting, Asks
  <2>2. \A s \in Sockets : up'[s] = IF s \in Waiting THEN Tail(up[s]) ELSE up[s]
    <3> HIDE DEF Waiting
    <3> QED
      BY <1>6 DEF Ends, TerminationFails, AnswersKill
  <2> HIDE DEF Waiting
  <2> QED
    BY <2>1, <2>2, ShrinksMove
<1>7. World => up' = up \/ Ends \/ TerminationFails
  BY DEF World, Unsubscribe, Attach, Kill, Breaks, ConnectFails, RivalCreates, LeaseExpires, netVars
<1> QED
  BY <1>0, <1>1, <1>2, <1>3, <1>4, <1>5, <1>6, <1>7, WritesMove DEF Next, HostSteps

LEMMA TargetStays ==
  ASSUME TypeInv, NetInv, KillInv, Next, NEW o, NEW g, Target(o, g)
  PROVE  Target(o, g)'
<1>1. /\ o \in 1..Len(plans) /\ plans[o].prepared /\ (g # 0 => plans[o].gen = g)
      /\ (o = op \/ Completed(o)) /\ o # 0
  BY DEF Target
<1>2. o \in 1..Len(plans') /\ plans'[o].prepared /\ (g # 0 => plans'[o].gen = g)
  BY <1>1, PlansMoves DEF PlansMove
<1>3. o = op' \/ Completed(o)'
  BY <1>1, OpMoves, HostMoves, CompletedStays DEF OpMove
<1> QED
  BY <1>2, <1>3 DEF Target

LEMMA TargetsStep ==
  ASSUME TypeInv, NetInv, KillInv, Next
  PROVE  Targets'
<1>1. ASSUME NEW s \in Sockets, NEW i \in 1..Len(up'[s]), up'[s][i].req.cmd = "kill"
      PROVE  Target(up'[s][i].req.arg, up'[s][i].req.gen)
  <2>1. CASE \E j \in 1..Len(up[s]) : up'[s][i] = up[s][j]
    BY <1>1, <2>1 DEF KillInv, Targets
  <2>2. ASSUME NEW w \in Who, Write(w), up'[s][i].req = pend[w].req
        PROVE  Target(up'[s][i].req.arg, up'[s][i].req.gen)
    <3>1. w = "kill" /\ pend["kill"].req.cmd = "kill" /\ pend["kill"].st = "unsent"
      BY <1>1, <2>2 DEF NetInv, KillsByKill, Write
    <3>2. killing.st = "confirm" /\ pend["kill"].req = Confirms /\ Plan.prepared
      BY <3>1, WhatIsAsked, TypeInvFacts DEF KillInv, KillAsks, NetInv, IdleWithout
    <3>3. up'[s][i].req.arg = killing.op /\ up'[s][i].req.gen = Plan.gen
      BY <2>2, <3>1, <3>2 DEF Confirms, Request
    <3>4. killing.op \in 1..Len(plans)
      BY <3>2, PlanTypes
    <3> QED
      BY <3>2, <3>3, <3>4 DEF Target, Plan, KillInv, InDoubt
  <2> QED
    BY <1>1, <2>1, <2>2, UpMoves DEF UpMove
<1>2. ASSUME NEW s \in Sockets, NEW i \in 1..Len(up'[s]), up'[s][i].req.cmd = "kill",
             NEW o, NEW g, o = up'[s][i].req.arg, g = up'[s][i].req.gen
      PROVE  Target(o, g)'
  <2>1. Target(o, g)
    BY <1>1, <1>2
  <2> QED
    BY <2>1, TargetStays
<1> QED
  BY <1>2 DEF Targets, Target, Completed

LEMMA DyingStep ==
  ASSUME TypeInv, NetInv, KillInv, Next
  PROVE  DyingIsTarget'
<1>1. CASE host.dying # 0 /\ host'.dying # 0
  <2>1. host'.dying = host.dying /\ host'.live = host.live /\ host'.done = host.done
    BY <1>1, HostMoves DEF HostMove
  <2>2. /\ host.dying = op /\ host.dying \in 1..Len(plans) /\ plans[host.dying].prepared
        /\ plans[host.dying].gen = host.live /\ host.live # 0 /\ ~Completed(host.dying)
    BY <1>1 DEF KillInv, DyingIsTarget
  <2>3. op' = op
    BY <1>1, <2>2, OpMoves DEF OpMove
  <2>4. /\ host.dying \in 1..Len(plans') /\ plans'[host.dying].prepared
        /\ plans'[host.dying].gen = plans[host.dying].gen
    BY <2>2, PlansMoves DEF PlansMove
  <2> QED
    BY <2>1, <2>2, <2>3, <2>4 DEF DyingIsTarget, Completed
<1>2. CASE host.dying = 0 /\ host'.dying # 0
  <2>1. PICK s \in Sockets :
          HostTakes(s, "kill") /\ HostTerminates(s, Head(up[s]).req.arg, Head(up[s]).req.gen)
    BY <1>2, HostMoves
  <2> DEFINE o == Head(up[s]).req.arg
             g == Head(up[s]).req.gen
  <2>2. Target(o, g) /\ o \in Op
    BY <2>1, KillTarget
  <2>3. /\ ~Completed(o) /\ host.live # 0 /\ host.live = g /\ host' = [host EXCEPT !.dying = o]
        /\ plans' = plans /\ op' = op
    BY <2>1 DEF HostTerminates, killVars
  <2> HIDE DEF o, g
  <2>4. host'.dying = o /\ host'.live = host.live /\ host'.done = host.done
    BY <2>2, <2>3 DEF TypeInv, HostTypes, Record
  <2>5. o = op /\ o \in 1..Len(plans) /\ plans[o].prepared /\ plans[o].gen = host.live
    BY <2>2, <2>3 DEF Target
  <2> QED
    BY <2>3, <2>4, <2>5 DEF DyingIsTarget, Completed
<1> QED
  BY <1>1, <1>2 DEF DyingIsTarget

LEMMA TokensStep ==
  ASSUME TypeInv, NetInv, KillInv, Next
  PROVE  (token # 0 => Completed(token))' /\ (task.token # 0 => Completed(task.token))'
<1>1. (token # 0 => Completed(token)) /\ (task.token # 0 => Completed(task.token))
  BY DEF KillInv, InDoubt
<1>2. HostMove
  BY HostMoves
<1>3. CASE LaneSteps
  <2>1. token' \in {token, 0} /\ task'.token \in {0, task.token, token}
    BY <1>3, LaneKill, LaneOp
  <2> QED
    BY <1>1, <1>2, <2>1 DEF HostMove, Completed
<1>4. CASE KillConfirmed
  <2>1. token' \in {killing.op, 0} /\ task' = task /\ Completed(killing.op)
    BY <1>4, ConfirmedIsDone DEF KillConfirmed
  <2> QED
    BY <1>1, <1>2, <2>1 DEF HostMove, Completed
<1>5. CASE token' = token /\ task' = task
  BY <1>1, <1>2, <1>5 DEF HostMove, Completed
<1>6. KillSteps => KillConfirmed \/ (token' = token /\ task' = task)
  BY DEF KillSteps, KillPrepares, KillProbed, KillNotPrepared, KillRetries, KillRefused, KillLost,
         AttemptFails, killVars, attachVars
<1>7. SocketSteps => token' = token /\ task' = task
  BY DEF SocketSteps, Connect, Resend, Write, ReplayAnswered, ExitArrives, killVars, attachVars
<1>8. HostSteps => token' = token /\ task' = task
  BY HostLeavesClient DEF killVars, attachVars
<1>9. World => token' = token /\ task' = task
  BY DEF World, Unsubscribe, Attach, Kill, Breaks, ConnectFails, Ends, TerminationFails,
         RivalCreates, LeaseExpires, killVars, attachVars
<1> QED
  BY <1>3, <1>4, <1>5, <1>6, <1>7, <1>8, <1>9 DEF Next

LEMMA InDoubtStep ==
  ASSUME TypeInv, NetInv, KillInv, Next
  PROVE  InDoubt'
<1> DEFINE Under == killing.st # "no" => op \in {0, killing.op} /\ (op = 0 => Completed(killing.op))
           Meant == op # 0 /\ meant # 0 => plans[op].gen = meant
<1>0. Under /\ Meant /\ HostMove /\ OpMove
  BY HostMoves, OpMoves DEF KillInv, InDoubt
<1>3. ASSUME NEW mode \in Modes, Kill(mode) PROVE Under' /\ Meant'
  <2>1. killing'.op = op' /\ op' # 0
    BY <1>3, KillBegins DEF Kill
  <2>2. CASE op = 0
    <3>1. op' = Len(plans) + 1 /\ plans' = Append(plans, Identity(mode)) /\ meant' = Known(obj)
          /\ Identity(mode).gen = Known(obj)
      BY <1>3, <2>2, KillBegins DEF Kill, Identity
    <3>2. plans'[op'] = Identity(mode)
      BY <3>1 DEF TypeInv, KillTypes
    <3> QED
      BY <2>1, <3>1, <3>2
  <2>3. CASE op # 0
    BY <1>0, <1>3, <2>1, <2>3, KillBegins DEF Kill
  <2> QED
    BY <2>2, <2>3
<1>4. ASSUME KillPrepares \/ KillProbed PROVE Under' /\ Meant'
  <2>1. op' = op /\ killing.st = "prepare"
    BY <1>4 DEF KillPrepares, KillProbed
  <2>2. ASSUME NEW g \in Gen, Sends(g), Plan.gen # 0 => g = Plan.gen PROVE Under' /\ Meant'
    <3>1. killing'.op = killing.op /\ killing.op \in 1..Len(plans) /\ plans'[killing.op].gen = g
      <4>1. killing.op \in 1..Len(plans) /\ killing'.op = killing.op
        BY <2>1, <2>2, SendsPlans, PlanTypes
      <4>2. plans'[killing.op] = [gen |-> g, mode |-> Plan.mode, prepared |-> TRUE]
        BY <2>1, <2>2, <4>1, SendsPlans
      <4> QED
        BY <4>1, <4>2
    <3>2. meant' = IF meant = 0 THEN g ELSE meant
      BY <2>2 DEF Sends
    <3>3. Meant'
      BY <1>0, <2>1, <2>2, <3>1, <3>2 DEF Plan
    <3>4. Under'
      BY <1>0, <2>1, <3>1 DEF HostMove, Completed
    <3> QED
      BY <3>3, <3>4
  <2>3. CASE UNCHANGED <<plans, meant, killing>>
    BY <1>0, <2>1, <2>3 DEF HostMove, Completed
  <2> QED
    BY <1>4, <2>2, <2>3, KillSends
<1>5. ASSUME UNCHANGED <<plans, killing, meant>>, ~\E mode \in Modes : Kill(mode) PROVE Under' /\ Meant'
  <2>1. Meant'
    BY <1>0, <1>5 DEF OpMove
  <2>2. Under'
    <3>1. op' = op \/ (op' = 0 /\ Completed(op)) \/ killing' = NotKilling
      BY <1>0, <1>5 DEF OpMove
    <3> QED
      BY <1>0, <1>5, <3>1 DEF HostMove, Completed, NotKilling
  <2> QED
    BY <2>1, <2>2
<1>6. ASSUME KillNotPrepared \/ KillConfirmed PROVE Under' /\ Meant'
  BY <1>0, <1>6 DEF KillNotPrepared, KillConfirmed, NotKilling
<1>7. ASSUME KillRefused \/ KillLost PROVE Under' /\ Meant'
  <2>1. UNCHANGED <<op, plans, meant>> /\ AttemptFails /\ killing.st = "confirm"
    BY <1>7 DEF KillRefused, KillLost, AttemptFails
  <2>2. killing' = NotKilling \/ killing'.op = killing.op
    BY <2>1, AttemptKilling
  <2> QED
    BY <1>0, <2>1, <2>2 DEF HostMove, Completed, NotKilling
<1>8. Under' /\ Meant'
  BY <1>3, <1>4, <1>5, <1>6, <1>7, KillUntouched
<1> QED
  BY <1>8, TokensStep DEF InDoubt

(* What the kill awaits, but for its own steps: a request that was asked    *)
(* for stays the same until it is lost, and what is sent is on the         *)
(* connection it was written to.                                           *)
AskKeeps ==
  /\ \/ /\ pend'["kill"].req = pend["kill"].req
        /\ pend'["kill"].st \in {"unsent", "sent"} => pend'["kill"].req # NoRequest
     \/ pend'["kill"].req \in {NoRequest, pend["kill"].req} /\ pend'["kill"].st \notin {"unsent", "sent"}
  /\ pend'["kill"].st = "sent" => sock' = sock /\ pend'["kill"].req = pend["kill"].req

LEMMA AskKept ==
  ASSUME TypeInv, NetInv, KillInv, pend'["kill"] = pend["kill"],
         sock' = sock \/ pend["kill"].st # "sent"
  PROVE  AskKeeps
BY DEF AskKeeps, KillInv, KillAsks

LEMMA SocketAsk ==
  ASSUME TypeInv, NetInv, KillInv, SocketSteps
  PROVE  AskKeeps
<1>0. pend \in [Who -> Pending] /\ "kill" \in Who /\ pend["kill"] \in Pending
  BY DEF TypeInv, ConnTypes, Who
<1>1. CASE Connect
  <2>1. pend'["kill"] = pend["kill"] /\ sock = 0
    BY <1>0, <1>1 DEF Connect
  <2> QED
    BY <1>0, <2>1, AskKept DEF NetInv, Quieted
<1>2. CASE ReplayAnswered \/ ExitArrives
  <2>1. pend'["kill"] = pend["kill"] /\ sock' = sock
    BY <1>0, <1>2 DEF ReplayAnswered, ReplayRefused, ReplayIsStale, ReplayRestores, ReplayEnds, ExitArrives
  <2> QED
    BY <2>1, AskKept
<1>3. ASSUME NEW w \in Who, Resend(w) PROVE AskKeeps
  <2>1. /\ sock' = sock /\ pend[w].req # NoRequest
        /\ pend' = [pend EXCEPT ![w] = Unsent(pend[w].req)]
    BY <1>3 DEF Resend
  <2>2. CASE w = "kill"
    <3>1. pend'["kill"] = Unsent(pend["kill"].req)
      BY <1>0, <2>1, <2>2
    <3> QED
      BY <2>1, <2>2, <3>1, WhatIsAsked DEF AskKeeps
  <2>3. CASE w # "kill"
    BY <1>0, <2>1, <2>3, AskKept
  <2> QED
    BY <2>2, <2>3
<1>4. ASSUME NEW w \in Who, Write(w) PROVE AskKeeps
  <2>1. sock' = sock /\ pend' = [pend EXCEPT ![w].st = "sent"] /\ pend[w].st = "unsent"
    BY <1>4 DEF Write
  <2>2. CASE w = "kill"
    <3>1. pend'["kill"].req = pend["kill"].req
      BY <1>0, <2>1, <2>2 DEF Pending
    <3> QED
      BY <2>1, <2>2, <3>1 DEF AskKeeps, KillInv, KillAsks
  <2>3. CASE w # "kill"
    BY <1>0, <2>1, <2>3, AskKept
  <2> QED
    BY <2>2, <2>3
<1> QED
  BY <1>1, <1>2, <1>3, <1>4 DEF SocketSteps

LEMMA WorldAsk ==
  ASSUME TypeInv, NetInv, KillInv, World, ~\E mode \in Modes : Kill(mode)
  PROVE  AskKeeps
<1>0. pend \in [Who -> Pending] /\ "kill" \in Who /\ pend["kill"] \in Pending
  BY DEF TypeInv, ConnTypes, Who
<1>1. CASE Breaks
  <2>1. pend'["kill"] = Dropped["kill"]
    BY <1>1 DEF Breaks
  <2>2. Dropped["kill"].st \notin {"unsent", "sent"}
    BY <1>0, DroppedKeeps
  <2>3. Dropped["kill"] \in {Idle, Loses("kill"), Awaits(pend["kill"].req), pend["kill"]}
    BY <1>0 DEF Dropped
  <2>4. Loses("kill").req = pend["kill"].req
    BY <1>0 DEF Loses, Pending
  <2>5. Dropped["kill"].req \in {NoRequest, pend["kill"].req}
    BY <2>3, <2>4, WhatIsAsked DEF Idle
  <2> QED
    BY <2>1, <2>2, <2>5 DEF AskKeeps
<1>2. CASE ConnectFails
  <2>1. pend'["kill"] \in {pend["kill"], Loses("kill")} /\ sock' = sock
    BY <1>0, <1>2 DEF ConnectFails
  <2>2. Loses("kill").req = pend["kill"].req /\ Loses("kill").st = "lost"
    BY <1>0 DEF Loses, Pending
  <2>3. CASE pend'["kill"] = pend["kill"]
    BY <2>1, <2>3, AskKept
  <2>4. CASE pend'["kill"] = Loses("kill")
    BY <2>2, <2>4 DEF AskKeeps
  <2> QED
    BY <2>1, <2>3, <2>4
<1>3. CASE UNCHANGED <<pend, sock>>
  BY <1>3, AskKept
<1> QED
  BY <1>1, <1>2, <1>3 DEF World, Unsubscribe, Attach, Ends, TerminationFails, RivalCreates,
     LeaseExpires, netVars

LEMMA AsksKeep ==
  ASSUME TypeInv, NetInv, KillInv, Next, ~KillSteps, ~\E mode \in Modes : Kill(mode)
  PROVE  AskKeeps /\ UNCHANGED <<plans, killing>>
<1>1. CASE LaneSteps
  <2>1. pend \in [Who -> Pending] /\ "kill" \in Who /\ "lane" # "kill"
    BY DEF TypeInv, ConnTypes, Who
  <2>2. pend'["kill"] = pend["kill"] /\ sock' = sock
    BY <1>1, <2>1 DEF LaneSteps, AttachBegins, AttachAsks, AttachAnswered, AttachLost, DetachBegins,
       DetachAnswered, DetachLost, AttachFails, AttachSucceeds, TaskEnds, TaskDetaches
  <2> QED
    BY <1>1, <2>2, AskKept, LaneKill
<1>2. CASE HostSteps
  <2>1. pend' = pend /\ sock' = sock /\ UNCHANGED <<plans, killing>>
    BY <1>2, HostLeavesClient DEF killVars
  <2> QED
    BY <2>1, AskKept
<1>3. CASE SocketSteps
  BY <1>3, SocketAsk, SocketKill DEF killVars
<1>4. CASE World
  <2>1. UNCHANGED <<plans, killing>>
    BY <1>4 DEF World, Unsubscribe, Attach, Breaks, ConnectFails, Ends, TerminationFails, RivalCreates,
       LeaseExpires, killVars
  <2> QED
    BY <1>4, <2>1, WorldAsk
<1> QED
  BY <1>1, <1>2, <1>3, <1>4 DEF Next

(* The steps of the kill itself, and what it asks next. *)
LEMMA KillAsksNext ==
  ASSUME TypeInv, NetInv, KillInv, KillSteps
  PROVE  /\ pend'["kill"].st # "sent"
         /\ pend'["kill"].st = "unsent" => pend'["kill"].req # NoRequest
         /\ killing'.st = "prepare" =>
              pend'["kill"].req = NoRequest \/ (pend'["kill"].req = Request("has", 0, 0) /\ Plan'.gen = 0)
         /\ killing'.st = "confirm" => pend'["kill"].req \in {NoRequest, Confirms'} /\ Plan'.prepared
<1>0. pend \in [Who -> Pending] /\ "kill" \in Who /\ pend["kill"] \in Pending
  BY DEF TypeInv, ConnTypes, Who
<1>a. \A g : Request("kill", killing.op, g) # NoRequest /\ Request("has", 0, 0) # NoRequest
  BY DEF Request, NoRequest
<1>1. CASE KillPrepares \/ KillProbed
  <2>1. killing.st = "prepare"
    BY <1>1 DEF KillPrepares, KillProbed
  <2>2. ASSUME NEW g \in Gen, Sends(g)
        PROVE  /\ pend'["kill"] = Unsent(Request("kill", killing.op, g))
               /\ killing'.st = "confirm" /\ Confirms' = Request("kill", killing.op, g) /\ Plan'.prepared
    <3>1. killing.op \in 1..Len(plans) /\ killing'.op = killing.op /\ killing'.st = "confirm"
      BY <2>1, <2>2, SendsPlans, PlanTypes
    <3>2. plans'[killing.op] = [gen |-> g, mode |-> Plan.mode, prepared |-> TRUE]
      BY <2>1, <2>2, <3>1, SendsPlans
    <3>3. Plan'.gen = g /\ Plan'.prepared
      BY <3>1, <3>2 DEF Plan
    <3>4. pend'["kill"] = Unsent(Request("kill", killing.op, g))
      BY <1>0, <2>2 DEF Sends
    <3> QED
      BY <3>1, <3>3, <3>4 DEF Confirms
  <2>3. CASE /\ UNCHANGED <<plans, meant, killing>> /\ Plan.gen = 0
             /\ pend' = [pend EXCEPT !["kill"] = Unsent(Request("has", 0, 0))]
    <3>1. pend'["kill"] = Unsent(Request("has", 0, 0)) /\ Plan' = Plan
      BY <1>0, <2>3 DEF Plan
    <3> QED
      BY <1>a, <2>1, <2>3, <3>1, WhatIsAsked
  <2> QED
    BY <1>1, <1>a, <2>2, <2>3, KillSends, WhatIsAsked
<1>2. CASE KillNotPrepared \/ KillConfirmed
  <2>1. pend'["kill"] = Idle /\ killing' = NotKilling
    BY <1>0, <1>2 DEF KillNotPrepared, KillConfirmed
  <2> QED
    BY <2>1, WhatIsAsked DEF NotKilling
<1>3. CASE KillRetries
  <2>1. pend'["kill"] = Unsent(Confirms) /\ Plan' = Plan /\ Confirms' = Confirms
        /\ UNCHANGED killing /\ killing.st = "confirm"
    BY <1>0, <1>3 DEF KillRetries, Confirms, Plan, killVars
  <2>2. Plan.prepared /\ Confirms # NoRequest
    BY <1>a, <2>1 DEF KillInv, KillAsks, Confirms
  <2> QED
    BY <2>1, <2>2, WhatIsAsked
<1>4. CASE KillRefused \/ KillLost
  <2>1. AttemptFails /\ killing.st = "confirm" /\ UNCHANGED plans
    BY <1>4 DEF KillRefused, KillLost, AttemptFails
  <2>2. \/ killing' = NotKilling /\ pend'["kill"] = Idle
        \/ /\ killing'.op = killing.op /\ killing'.st = "confirm"
           /\ pend'["kill"] = Awaits(NoRequest)
    <3>1. CASE killing.attempt < Attempts
      <4>1. pend'["kill"] = Awaits(NoRequest)
        BY <1>0, <2>1, <3>1 DEF AttemptFails, Dropped
      <4>2. killing' = [killing EXCEPT !.attempt = @ + 1]
        BY <2>1, <3>1 DEF AttemptFails
      <4> QED
        BY <2>1, <4>1, <4>2 DEF TypeInv, KillTypes
    <3>2. CASE ~(killing.attempt < Attempts)
      BY <1>0, <2>1, <3>2 DEF AttemptFails
    <3> QED
      BY <3>1, <3>2
  <2>3. Plan.prepared
    BY <2>1 DEF KillInv, KillAsks
  <2>4. killing'.op = killing.op => Plan' = Plan
    BY <2>1 DEF Plan
  <2> QED
    BY <2>2, <2>3, <2>4, WhatIsAsked DEF NotKilling
<1> QED
  BY <1>1, <1>2, <1>3, <1>4 DEF KillSteps

LEMMA AsksStep ==
  ASSUME TypeInv, NetInv, KillInv, Next, TypeInv', NetInv'
  PROVE  KillAsks'
<1>0. pend \in [Who -> Pending] /\ "kill" \in Who
  BY DEF TypeInv, ConnTypes, Who
<1>1. CASE KillSteps
  BY <1>1, KillAsksNext, NoKillThen DEF KillAsks
<1>2. ASSUME NEW mode \in Modes, Kill(mode) PROVE KillAsks'
  <2>1. pend'["kill"] = Awaits(NoRequest) /\ killing'.st = "prepare"
    BY <1>0, <1>2 DEF Kill
  <2> QED
    BY <2>1, NoKillThen, WhatIsAsked DEF KillAsks
<1>3. CASE ~KillSteps /\ ~\E mode \in Modes : Kill(mode)
  <2>1. AskKeeps /\ UNCHANGED <<plans, killing>>
    BY <1>3, AsksKeep
  <2>2. Plan' = Plan /\ Confirms' = Confirms
    BY <2>1 DEF Plan, Confirms
  <2>3. ASSUME sock' # 0, NEW i \in 1..Len(up'[sock']), up'[sock'][i].who = "kill"
        PROVE  up'[sock'][i].req = pend'["kill"].req
    <3>1. pend'["kill"].st = "sent"
      BY <2>3, NoKillThen
    <3>2. sock' = sock /\ pend'["kill"].req = pend["kill"].req /\ sock \in Sockets
      BY <2>1, <2>3, <3>1 DEF AskKeeps, TypeInv, ConnTypes
    <3>3. CASE \E j \in 1..Len(up[sock]) : up'[sock][i] = up[sock][j]
      BY <2>3, <3>2, <3>3 DEF KillInv, KillAsks
    <3>4. CASE \E w \in Who : up'[sock][i].who = w /\ up'[sock][i].req = pend[w].req
      BY <2>3, <3>2, <3>4
    <3> QED
      BY <2>3, <3>2, <3>3, <3>4, UpMoves DEF UpMove
  <2>4. /\ pend'["kill"].st \in {"unsent", "sent"} => pend'["kill"].req # NoRequest
        /\ pend'["kill"].req \in {NoRequest, pend["kill"].req}
    BY <2>1 DEF AskKeeps
  <2> QED
    BY <2>1, <2>2, <2>3, <2>4 DEF KillInv, KillAsks
<1> QED
  BY <1>1, <1>2, <1>3

(* The request at the head of the connection of the client, when a kill    *)
(* that is being confirmed wrote it.                                       *)
LEMMA HeadConfirms ==
  ASSUME TypeInv, NetInv, KillInv, sock # 0, up[sock] # <<>>, Head(up[sock]).who = "kill",
         killing.st = "confirm"
  PROVE  /\ Head(up[sock]).req.cmd = "kill" /\ Head(up[sock]).req.arg = killing.op
         /\ Head(up[sock]).req.gen = Plan.gen
         /\ killing.op \in 1..Len(plans)
<1>1. sock \in Sockets /\ up[sock] \in Seq(Posted)
  BY DEF TypeInv, ConnTypes
<1>2. Head(up[sock]) = up[sock][1] /\ 1 \in 1..Len(up[sock])
  BY <1>1
<1>3. Head(up[sock]).req = pend["kill"].req
  BY <1>2 DEF KillInv, KillAsks
<1>4. pend["kill"].req # NoRequest
  BY <1>2, NoKillComing DEF KillInv, KillAsks
<1>5. Head(up[sock]).req = Confirms
  BY <1>3, <1>4 DEF KillInv, KillAsks
<1> QED
  BY <1>5, PlanTypes DEF Confirms, Request

(* The operation o, aimed at g, is complete in the host's record h. *)
DoneBy(h, o, g) == (\E d \in h.done : d.op = o) /\ (g = 0 \/ (g <= h.born /\ g # h.live))

LEMMA KillReplies ==
  ASSUME TypeInv, NetInv, KillInv, NEW s \in Sockets, HostKills(s),
         ~HostTerminates(s, Head(up[s]).req.arg, Head(up[s]).req.gen)
  PROVE  \E ok \in BOOLEAN : /\ Answers(s, ok, 0)
                             /\ ok => DoneBy(host', Head(up[s]).req.arg, Head(up[s]).req.gen)
<1> DEFINE o == Head(up[s]).req.arg
           g == Head(up[s]).req.gen
<1>0. /\ host \in Record /\ HostTakes(s, "kill") /\ FALSE \in BOOLEAN /\ TRUE \in BOOLEAN
      /\ (HostReplays(s, o, g) \/ HostFindsItGone(s, o, g) \/ HostFindsAnother(s, o, g))
  BY DEF TypeInv, HostTypes, HostKills
<1>1. g \in Gen /\ g <= host.born /\ o \in Op
  BY <1>0, KillTarget
<1>2. [op |-> o, gen |-> g] \in Completes(o, g) /\ [op |-> o, gen |-> g].op = o
      /\ [op |-> o, gen |-> g].gen = g
  BY DEF Completes
<1> HIDE DEF o, g
<1>3. CASE Refuses(s)
  BY <1>0, <1>3 DEF Refuses
<1>4. CASE HostReplays(s, o, g) /\ ~Refuses(s)
  <2>1. /\ [op |-> o, gen |-> g] \in host.done /\ Answers(s, TRUE, 0)
        /\ \E l : host' = [host EXCEPT !.lease = l]
    BY <1>4 DEF HostReplays
  <2>2. host'.live = host.live /\ host'.born = host.born /\ host'.done = host.done
    BY <1>0, <2>1 DEF Record
  <2>3. Gone(g)
    BY <1>2, <2>1 DEF KillInv, Ended
  <2>4. DoneBy(host', o, g)
    BY <1>2, <2>1, <2>2, <2>3 DEF DoneBy, Gone
  <2> QED
    BY <1>0, <2>1, <2>4 DEF o, g
<1>5. CASE HostFindsItGone(s, o, g) /\ ~Refuses(s)
  <2> DEFINE t == IF Reserves(plans[o].mode) THEN o ELSE host.lease
  <2>1. /\ host.live = 0 /\ Answers(s, TRUE, 0)
        /\ host' = [host EXCEPT !.lease = t, !.done = Completes(o, g)]
    BY <1>5 DEF HostFindsItGone
  <2> HIDE DEF t
  <2>2. host'.live = 0 /\ host'.born = host.born /\ host'.done = Completes(o, g)
    BY <1>0, <2>1 DEF Record
  <2>3. DoneBy(host', o, g)
    BY <1>1, <1>2, <2>2 DEF DoneBy
  <2> QED
    BY <1>0, <2>1, <2>3 DEF o, g
<1>6. CASE HostFindsAnother(s, o, g) /\ ~Refuses(s)
  <2>1. /\ host.live # g /\ Answers(s, TRUE, 0)
        /\ host' = [host EXCEPT !.done = Completes(o, g)]
    BY <1>6 DEF HostFindsAnother
  <2>2. host'.live = host.live /\ host'.born = host.born /\ host'.done = Completes(o, g)
    BY <1>0, <2>1 DEF Record
  <2>3. DoneBy(host', o, g)
    BY <1>1, <1>2, <2>1, <2>2 DEF DoneBy
  <2> QED
    BY <1>0, <2>1, <2>3 DEF o, g
<1> QED
  BY <1>0, <1>3, <1>4, <1>5, <1>6

LEMMA OtherReplies ==
  ASSUME TypeInv, KillInv, NEW s \in Sockets,
         HostAttaches(s) \/ HostAttachesExisting(s) \/ HostDetaches(s) \/ HostIsProbed(s)
  PROVE  /\ Head(up[s]).req.cmd # "kill" /\ up[s] # <<>>
         /\ \E ok \in BOOLEAN, r \in Gen : Answers(s, ok, r) /\ r <= host'.born
<1>0. /\ host \in Record /\ host.born \in Nat /\ host.live \in Nat /\ host.live <= host.born
      /\ host.live \in Gen /\ 0 \in Gen /\ FALSE \in BOOLEAN /\ TRUE \in BOOLEAN
      /\ (host.born + 1 <= MaxGens => host.born + 1 \in Gen)
  BY HostRecordTypes, SetFacts DEF TypeInv, HostTypes, KillInv, Born, Gen
<1> DEFINE Said == \E ok \in BOOLEAN, r \in Gen : Answers(s, ok, r) /\ r <= host'.born
<1>a. /\ \A r \in Gen : Answers(s, TRUE, r) /\ r <= host'.born => Said
      /\ \A r \in Gen : Answers(s, FALSE, r) /\ r <= host'.born => Said
  BY <1>0
<1>b. \A ok \in BOOLEAN : Answers(s, ok, 0) /\ host'.born = host.born => Said
  <2>1. 0 <= host.born
    BY <1>0
  <2> QED
    BY <1>0, <2>1, Zenon
<1> HIDE DEF Said
<1>1. CASE HostAttaches(s)
  <2> DEFINE t == Head(up[s]).req.arg
             n == host.born + 1
  <2>1. \/ Answers(s, FALSE, 0) /\ (host' = host \/ host' = [host EXCEPT !.lease = 0])
        \/ Answers(s, TRUE, host.live) /\ host' = [host EXCEPT !.subs = @ \union {s}]
        \/ /\ n <= MaxGens /\ Answers(s, TRUE, n)
           /\ host' = [host EXCEPT !.live = n, !.born = n, !.by[n] = t, !.subs = {s}, !.lease = 0]
    BY <1>1 DEF HostAttaches, Refuses, Subscribes
  <2> HIDE DEF t
  <2>2. \/ Answers(s, FALSE, 0) /\ host'.born = host.born
        \/ Answers(s, TRUE, host.live) /\ host'.born = host.born
        \/ n <= MaxGens /\ Answers(s, TRUE, n) /\ host'.born = n
    BY <1>0, <2>1 DEF Record
  <2>3. up[s] # <<>> /\ Head(up[s]).req.cmd = "attach"
    BY <1>1, HostTakesType DEF HostAttaches, TypeInv
  <2>4. CASE n <= MaxGens /\ Answers(s, TRUE, n) /\ host'.born = n
    <3>1. n \in Gen /\ n <= host'.born
      BY <1>0, <2>4
    <3> QED
      BY <1>a, <2>3, <2>4, <3>1 DEF Said
  <2>5. CASE Answers(s, TRUE, host.live) /\ host'.born = host.born
    BY <1>0, <1>a, <2>3, <2>5 DEF Said
  <2>6. CASE Answers(s, FALSE, 0) /\ host'.born = host.born
    BY <1>0, <1>b, <2>3, <2>6 DEF Said
  <2> QED
    BY <2>2, <2>4, <2>5, <2>6
<1>2. CASE HostAttachesExisting(s)
  <2>1. \/ Answers(s, FALSE, 0) /\ host' = host
        \/ Answers(s, TRUE, host.live) /\ host' = [host EXCEPT !.subs = @ \union {s}]
    BY <1>2 DEF HostAttachesExisting, Refuses, Subscribes
  <2>2. host'.born = host.born
    BY <1>0, <2>1 DEF Record
  <2>3. up[s] # <<>> /\ Head(up[s]).req.cmd = "existing"
    BY <1>2, HostTakesType DEF HostAttachesExisting, TypeInv
  <2>4. Said
    BY <1>0, <1>a, <1>b, <2>1, <2>2
  <2> QED
    BY <2>3, <2>4 DEF Said
<1>3. CASE HostDetaches(s)
  <2>1. Answers(s, TRUE, 0) /\ host' = [host EXCEPT !.subs = @ \ {s}]
    BY <1>3 DEF HostDetaches
  <2>2. host'.born = host.born
    BY <1>0, <2>1 DEF Record
  <2>3. up[s] # <<>> /\ Head(up[s]).req.cmd = "detach"
    BY <1>3, HostTakesType DEF HostDetaches, TypeInv
  <2>4. Said
    BY <1>0, <1>a, <1>b, <2>1, <2>2
  <2> QED
    BY <2>3, <2>4 DEF Said
<1>4. CASE HostIsProbed(s)
  <2>1. Answers(s, TRUE, host.live) /\ host' = host
    BY <1>4 DEF HostIsProbed
  <2>3. up[s] # <<>> /\ Head(up[s]).req.cmd = "has"
    BY <1>4, HostTakesType DEF HostIsProbed, TypeInv
  <2>4. Said
    BY <1>0, <1>a, <2>1
  <2> QED
    BY <2>3, <2>4 DEF Said
<1> QED
  BY <1>1, <1>2, <1>3, <1>4

LEMMA InConcat ==
  ASSUME NEW S, NEW a \in Seq(S), NEW b \in Seq(S), NEW i \in 1..Len(a \o b)
  PROVE  \/ \E j \in 1..Len(a) : (a \o b)[i] = a[j]
         \/ \E j \in 1..Len(b) : (a \o b)[i] = b[j]
<1>1. CASE i <= Len(a)
  BY <1>1
<1>2. CASE i > Len(a)
  <2>1. i - Len(a) \in 1..Len(b) /\ (a \o b)[i] = b[i - Len(a)]
    BY <1>2
  <2> QED
    BY <2>1
<1> QED
  BY <1>1, <1>2

(* What the host says: no generation that was not spawned, and to the kill *)
(* that is being confirmed only that it is done when it is.                *)
Truthful(f) ==
  /\ f.gen <= host'.born
  /\ f.who = "kill" /\ f.ok /\ killing.st = "confirm" => DoneBy(host', killing.op, Plan.gen)

LEMMA RepliesAreTruthful ==
  ASSUME TypeInv, NetInv, KillInv, HostSteps, NEW i \in 1..Len(down')
  PROVE  (\E j \in 1..Len(down) : down'[i] = down[j]) \/ Truthful(down'[i])
<1>0. down \in Seq(Frames) /\ host.born \in Nat
  BY HostRecordTypes, SetFacts DEF TypeInv, ConnTypes
<1>1. CASE down' = down
  BY <1>1
<1>2. ASSUME NEW s \in Sockets, NEW ok \in BOOLEAN, NEW r \in Gen, up[s] # <<>>, Answers(s, ok, r),
             r <= host'.born,
             ok /\ s = sock /\ Head(up[s]).who = "kill" /\ killing.st = "confirm"
               => DoneBy(host', killing.op, Plan.gen)
      PROVE  (\E j \in 1..Len(down) : down'[i] = down[j]) \/ Truthful(down'[i])
  <2>1. CASE s # sock
    BY <1>1, <1>2, <2>1 DEF Answers
  <2>2. CASE s = sock
    <3> DEFINE e == Reply(Head(up[s]).who, ok, r)
    <3>1. down' = Append(down, e)
      BY <1>2, <2>2 DEF Answers
    <3>2. e.who = Head(up[s]).who /\ e.ok = ok /\ e.gen = r
      BY DEF Reply
    <3> HIDE DEF e
    <3>3. Truthful(e)
      BY <1>2, <2>2, <3>2 DEF Truthful
    <3>4. down'[i] = e \/ \E j \in 1..Len(down) : down'[i] = down[j]
      BY <1>0, <3>1
    <3> QED
      BY <3>3, <3>4
  <2> QED
    BY <2>1, <2>2
<1>3. ASSUME NEW s \in Sockets, HostKills(s),
             ~HostTerminates(s, Head(up[s]).req.arg, Head(up[s]).req.gen)
      PROVE  (\E j \in 1..Len(down) : down'[i] = down[j]) \/ Truthful(down'[i])
  <2>1. PICK ok \in BOOLEAN : /\ Answers(s, ok, 0)
                              /\ ok => DoneBy(host', Head(up[s]).req.arg, Head(up[s]).req.gen)
    BY <1>3, KillReplies
  <2>2. up[s] # <<>> /\ 0 \in Gen /\ 0 <= host'.born
    <3>1. up[s] # <<>> /\ 0 \in Gen
      BY <1>3, HostTakesType, SetFacts DEF HostKills, TypeInv
    <3>2. HostMove
      BY <1>3, KillsMove
    <3> QED
      BY <1>0, <3>1, <3>2 DEF HostMove
  <2>3. ASSUME ok, s = sock, Head(up[s]).who = "kill", killing.st = "confirm"
        PROVE  DoneBy(host', killing.op, Plan.gen)
    <3>1. sock # 0
      BY <2>3, SetFacts
    <3> QED
      BY <2>1, <2>2, <2>3, <3>1, HeadConfirms
  <2> QED
    BY <1>2, <2>1, <2>2, <2>3
<1>4. ASSUME NEW s \in Sockets,
             HostAttaches(s) \/ HostAttachesExisting(s) \/ HostDetaches(s) \/ HostIsProbed(s)
      PROVE  (\E j \in 1..Len(down) : down'[i] = down[j]) \/ Truthful(down'[i])
  <2>1. PICK ok \in BOOLEAN, r \in Gen : Answers(s, ok, r) /\ r <= host'.born
    BY <1>4, OtherReplies
  <2>2. Head(up[s]).req.cmd # "kill" /\ up[s] # <<>> /\ s # 0
    BY <1>4, OtherReplies, SetFacts
  <2>3. ~(s = sock /\ Head(up[s]).who = "kill" /\ killing.st = "confirm")
    BY <2>2, HeadConfirms
  <2> QED
    BY <1>2, <2>1, <2>2, <2>3
<1>5. ASSUME NEW s \in Sockets,
             HostCloses(s) \/ HostTerminates(s, Head(up[s]).req.arg, Head(up[s]).req.gen)
      PROVE  down' = down
  BY <1>5 DEF HostCloses, HostTerminates, netVars
<1> QED
  BY <1>1, <1>3, <1>4, <1>5 DEF HostSteps

LEMMA EndsAreTruthful ==
  ASSUME TypeInv, NetInv, KillInv, Ends \/ TerminationFails, NEW i \in 1..Len(down')
  PROVE  (\E j \in 1..Len(down) : down'[i] = down[j]) \/ Truthful(down'[i])
<1>0. /\ down \in Seq(Frames) /\ host.born \in Nat /\ host.live \in Gen /\ host.live \in Nat
      /\ host.live <= host.born
  BY HostRecordTypes, SetFacts DEF TypeInv, ConnTypes, KillInv, Born
<1>1. host'.born = host.born
  <2>1. CASE Ends
    BY <2>1, EndsMove
  <2>2. CASE TerminationFails
    BY <2>2 DEF TerminationFails, TypeInv, HostTypes, Record
  <2> QED
    BY <2>1, <2>2
<1>2. PICK ok \in BOOLEAN, f \in {<<>>, <<Exit(host.live)>>} :
        AnswersKill(ok, f) /\ (ok => Ends)
  <2>1. CASE Ends
    <3> DEFINE f == IF sock \in host.subs THEN <<Exit(host.live)>> ELSE <<>>
    <3>1. AnswersKill(TRUE, f) /\ f \in {<<>>, <<Exit(host.live)>>}
      BY <2>1 DEF Ends
    <3> HIDE DEF f
    <3> QED
      BY <2>1, <3>1
  <2>2. CASE TerminationFails
    <3>1. AnswersKill(FALSE, <<>>)
      BY <2>2 DEF TerminationFails
    <3> QED
      BY <3>1
  <2> QED
    BY <2>1, <2>2
<1>3. f \in Seq({Exit(host.live)}) /\ f \in Seq(Frames)
  <2>1. Exit(host.live) \in Frames
    BY <1>0 DEF Exit, Frames
  <2>2. <<>> \in Seq({Exit(host.live)}) /\ <<>> \in Seq(Frames)
    OBVIOUS
  <2>3. <<Exit(host.live)>> \in Seq({Exit(host.live)}) /\ <<Exit(host.live)>> \in Seq(Frames)
    <3> DEFINE e == Exit(host.live)
    <3>1. e \in Frames /\ e \in {e}
      BY <2>1
    <3> HIDE DEF e
    <3>2. <<e>> \in Seq({e}) /\ <<e>> \in Seq(Frames)
      BY <3>1
    <3> QED
      BY <3>2 DEF e
  <2> QED
    BY <2>2, <2>3
<1> DEFINE k == IF sock \in Waiting THEN <<Reply("kill", ok, 0)>> ELSE <<>>
<1>4. k \in Seq(Frames) /\ down' = (down \o f) \o k /\ down \o f \in Seq(Frames)
      /\ (k # <<>> => sock \in Waiting /\ k = <<Reply("kill", ok, 0)>>)
  <2>1. Reply("kill", ok, 0) \in Frames
    BY SetFacts DEF Reply, Frames, Who
  <2> HIDE DEF Waiting
  <2> QED
    BY <1>0, <1>2, <1>3, <2>1 DEF AnswersKill
<1> HIDE DEF k
<1>5. CASE \E j \in 1..Len(down) : down'[i] = down[j]
  BY <1>5
<1>6. CASE down'[i] = Exit(host.live)
  <2>1. Exit(host.live).who = "exit" /\ Exit(host.live).gen = host.live
    BY DEF Exit
  <2> QED
    BY <1>0, <1>1, <1>6, <2>1 DEF Truthful
<1>7. CASE down'[i] = Reply("kill", ok, 0) /\ sock \in Waiting
  <2>1. Reply("kill", ok, 0).gen = 0 /\ Reply("kill", ok, 0).ok = ok
    BY DEF Reply
  <2>2. ASSUME ok, killing.st = "confirm" PROVE DoneBy(host', killing.op, Plan.gen)
    <3>1. /\ sock \in Sockets /\ sock # 0 /\ up[sock] # <<>> /\ Head(up[sock]).req.cmd = "kill"
          /\ Head(up[sock]).req.arg = host.dying
      BY <1>7, SetFacts DEF Waiting, Asks, TypeInv, HostTypes
    <3>2. Head(up[sock]) = up[sock][1] /\ 1 \in 1..Len(up[sock])
      BY <3>1 DEF TypeInv, ConnTypes
    <3>3. Head(up[sock]).who = "kill"
      BY <3>1, <3>2 DEF NetInv, KillsByKill
    <3>4. host.dying = killing.op /\ host.dying # 0
      BY <2>2, <3>1, <3>3, HeadConfirms
    <3>5. Plan.gen = host.live /\ host.live # 0
      BY <3>4 DEF KillInv, DyingIsTarget, Plan
    <3>6. host'.done = Completes(host.dying, host.live) /\ host'.live = 0
      BY <1>2, <2>2, <3>4, EndsMove
    <3>7. [op |-> host.dying, gen |-> host.live] \in host'.done
      BY <3>6 DEF Completes
    <3> QED
      BY <1>0, <1>1, <3>4, <3>5, <3>6, <3>7 DEF DoneBy
  <2> QED
    BY <1>0, <1>1, <1>7, <2>1, <2>2 DEF Truthful
<1>8. \/ \E j \in 1..Len(down) : down'[i] = down[j]
      \/ down'[i] = Exit(host.live)
      \/ down'[i] = Reply("kill", ok, 0) /\ sock \in Waiting
  <2>1. \/ \E j \in 1..Len(down \o f) : down'[i] = (down \o f)[j]
        \/ \E j \in 1..Len(k) : down'[i] = k[j]
    <3> DEFINE d == down \o f
    <3>1. d \in Seq(Frames) /\ k \in Seq(Frames) /\ down' = d \o k /\ i \in 1..Len(d \o k)
      BY <1>4
    <3> HIDE DEF d
    <3>2. (\E j \in 1..Len(d) : (d \o k)[i] = d[j]) \/ (\E j \in 1..Len(k) : (d \o k)[i] = k[j])
      BY <3>1, InConcat
    <3> QED
      BY <3>1, <3>2 DEF d
  <2>2. \A j \in 1..Len(down \o f) : \/ \E l \in 1..Len(down) : (down \o f)[j] = down[l]
                                     \/ \E l \in 1..Len(f) : (down \o f)[j] = f[l]
    BY <1>0, <1>3, InConcat
  <2>3. \A l \in 1..Len(f) : f[l] = Exit(host.live)
    <3> DEFINE e == Exit(host.live)
    <3>1. f \in Seq({e})
      BY <1>3
    <3> HIDE DEF e
    <3>2. \A l \in 1..Len(f) : f[l] = e
      BY <3>1
    <3> QED
      BY <3>2 DEF e
  <2>4. \A l \in 1..Len(k) : k[l] = Reply("kill", ok, 0) /\ sock \in Waiting
    <3> HIDE DEF Waiting
    <3>1. CASE k = <<>>
      BY <3>1
    <3>2. CASE k # <<>>
      <4> DEFINE e == Reply("kill", ok, 0)
      <4>1. sock \in Waiting /\ k = <<e>>
        BY <1>4, <3>2
      <4> HIDE DEF e
      <4>2. \A l \in 1..Len(k) : k[l] = e
        BY <4>1
      <4> QED
        BY <4>1, <4>2 DEF e
    <3> QED
      BY <3>1, <3>2
  <2> HIDE DEF Waiting
  <2> QED
    BY <2>1, <2>2, <2>3, <2>4
<1> QED
  BY <1>5, <1>6, <1>7, <1>8

(* A frame on its way was on its way, or the host says it now, and then the *)
(* kill takes no step.                                                     *)
LEMMA DownMoves ==
  ASSUME TypeInv, NetInv, KillInv, Next, NEW i \in 1..Len(down')
  PROVE  \/ \E j \in 1..Len(down) : down'[i] = down[j]
         \/ Truthful(down'[i]) /\ UNCHANGED <<killing, plans>>
<1>0. down \in Seq(Frames)
  BY DEF TypeInv, ConnTypes
<1>1. CASE down' = down
  BY <1>1
<1>2. CASE down' = <<>>
  BY <1>2
<1>3. CASE down # <<>> /\ down' = Tail(down)
  <2>1. i + 1 \in 1..Len(down) /\ down'[i] = down[i + 1]
    BY <1>0, <1>3
  <2> QED
    BY <2>1
<1>4. LaneSteps => down' = down \/ (down # <<>> /\ down' = Tail(down))
  BY DEF LaneSteps, AttachBegins, AttachAsks, AttachAnswered, AttachLost, DetachBegins, DetachAnswered,
         DetachLost, Hears
<1>5. KillSteps => down' = down \/ down' = <<>> \/ (down # <<>> /\ down' = Tail(down))
  BY DEF KillSteps, KillPrepares, KillProbed, KillNotPrepared, KillRetries, KillConfirmed, KillRefused,
         KillLost, Hears
<1>6. SocketSteps => down' = down \/ (down # <<>> /\ down' = Tail(down))
  BY DEF SocketSteps, Connect, Resend, Write, ReplayAnswered, ExitArrives, Hears
<1>7. World => \/ down' = down \/ down' = <<>>
               \/ (Ends \/ TerminationFails) /\ UNCHANGED <<killing, plans>>
  BY DEF World, Unsubscribe, Attach, Kill, Breaks, DropSocket, ConnectFails, Ends, TerminationFails,
         RivalCreates, LeaseExpires, netVars, killVars
<1>8. HostSteps => UNCHANGED <<killing, plans>>
  BY HostLeavesClient DEF killVars
<1> QED
  BY <1>1, <1>2, <1>3, <1>4, <1>5, <1>6, <1>7, <1>8, RepliesAreTruthful, EndsAreTruthful DEF Next

LEMMA SetStates ==
  ASSUME NEW f \in [Asked -> State], NEW o \in Asked, NEW g \in Gen, NEW c \in Sockets \union {0}
  PROVE  \A x \in Asked : [f EXCEPT ![o].gen = g, ![o].on = c][x].gen = IF x = o THEN g ELSE f[x].gen
<1>1. f[o] \in State
  OBVIOUS
<1>2. [[f[o] EXCEPT !.gen = g] EXCEPT !.on = c].gen = g
  BY <1>1 DEF State
<1> QED
  BY <1>2

(* What the client learns of generations it learns from a frame. *)
Learns ==
  /\ seen' \in {seen, 0} \/ (down # <<>> /\ seen' = Head(down).gen)
  /\ \A o \in Asked : states'[o].gen \in {states[o].gen, 0} \/ (down # <<>> /\ states'[o].gen = Head(down).gen)

LEMMA ReplayLearns ==
  ASSUME TypeInv, ReplayAnswered \/ ExitArrives
  PROVE  Learns
<1>0. /\ states \in [Asked -> State] /\ down # <<>> /\ Head(down).gen \in Gen /\ 0 \in Gen
      /\ sock \in Sockets \union {0} /\ 0 \in Sockets \union {0}
  BY HeadFrameTypes, SetFacts DEF TypeInv, ViewTypes, ConnTypes, ReplayAnswered, ExitArrives, Hears
<1>1. CASE UNCHANGED <<states, seen>>
  BY <1>1 DEF Learns
<1>2. ASSUME ReplayAnswered, ~UNCHANGED <<states, seen>> PROVE Learns
  <2>1. \/ /\ seen' = 0 /\ states' = [states EXCEPT ![replay].gen = 0, ![replay].on = 0]
        \/ /\ seen' = Head(down).gen
           /\ states' = [states EXCEPT ![replay].gen = Head(down).gen, ![replay].on = sock]
    BY <1>2 DEF ReplayAnswered, ReplayRefused, ReplayRestores, ReplayIsStale
  <2>2. ASSUME replay \in Asked, NEW g \in Gen, NEW c \in Sockets \union {0},
               states' = [states EXCEPT ![replay].gen = g, ![replay].on = c]
        PROVE  \A o \in Asked : states'[o].gen = IF o = replay THEN g ELSE states[o].gen
    BY <1>0, <2>2, SetStates
  <2>3. CASE replay \notin Asked
    <3>1. \A g, c : [states EXCEPT ![replay].gen = g, ![replay].on = c] = states
      BY <1>0, <2>3
    <3> QED
      BY <1>0, <2>1, <3>1 DEF Learns
  <2>4. CASE replay \in Asked
    <3>1. PICK g \in {0, Head(down).gen}, c \in Sockets \union {0} :
            seen' = g /\ states' = [states EXCEPT ![replay].gen = g, ![replay].on = c]
      BY <1>0, <2>1
    <3>2. \A o \in Asked : states'[o].gen = IF o = replay THEN g ELSE states[o].gen
      <4>1. g \in Gen /\ c \in Sockets \union {0}
            /\ states' = [states EXCEPT ![replay].gen = g, ![replay].on = c]
        BY <1>0, <3>1
      <4> QED
        BY <2>2, <2>4, <4>1
    <3> QED
      BY <1>0, <3>1, <3>2 DEF Learns
  <2> QED
    BY <2>3, <2>4
<1>3. ASSUME ExitArrives, ~UNCHANGED <<states, seen>> PROVE Learns
  <2> DEFINE g == Head(down).gen
  <2>1. \E x, y : /\ seen' \in {g, 0}
                  /\ states' = [states EXCEPT ![obj] = [gen |-> seen', on |-> x, exited |-> y]]
    BY <1>3 DEF ExitArrives
  <2>2. \A o \in Asked : states'[o].gen \in {states[o].gen, seen'}
    BY <1>0, <2>1
  <2> QED
    BY <1>0, <2>1, <2>2 DEF Learns
<1> QED
  BY <1>1, <1>2, <1>3

LEMMA LaneLearns ==
  ASSUME TypeInv, LaneSteps
  PROVE  Learns
<1>0. states \in [Asked -> State] /\ sock \in Sockets \union {0}
  BY DEF TypeInv, ViewTypes, ConnTypes
<1>1. CASE UNCHANGED <<states, seen>>
  BY <1>1 DEF Learns
<1>2. ASSUME NEW a, AttachFails(a) PROVE Learns
  BY <1>2 DEF AttachFails, Learns
<1>3. ASSUME AttachAnswered, AttachSucceeds(Head(lane).of, Head(down).gen) PROVE Learns
  <2> DEFINE o == asks[Head(lane).of].state
  <2>1. down # <<>> /\ lane # <<>> /\ Head(lane).does = "attach"
    BY <1>3 DEF AttachAnswered, Hears, Runs
  <2>2. o \in Asked /\ Head(down).gen \in Gen
    BY <2>1, LaneHeadTypes, HeadFrameTypes
  <2>3. states' = [states EXCEPT ![o].gen = Head(down).gen, ![o].on = sock] /\ seen' = Head(down).gen
    BY <1>3 DEF AttachSucceeds
  <2> HIDE DEF o
  <2> QED
    BY <1>0, <2>1, <2>2, <2>3, SetStates DEF Learns
<1>4. ASSUME DetachAnswered PROVE Learns
  <2>1. seen' = seen /\ states' = [states EXCEPT ![Head(lane).of].on = 0]
    BY <1>4 DEF DetachAnswered
  <2>2. \A o \in Asked : states'[o].gen = states[o].gen
    <3>1. \A o \in Asked : [states[o] EXCEPT !.on = 0].gen = states[o].gen
      BY <1>0 DEF State
    <3> QED
      BY <1>0, <2>1, <3>1
  <2> QED
    BY <2>1, <2>2 DEF Learns
<1> QED
  BY <1>1, <1>2, <1>3, <1>4 DEF LaneSteps, AttachBegins, AttachAsks, AttachAnswered, AttachLost,
     DetachBegins, DetachLost

LEMMA Learnt ==
  ASSUME TypeInv, Next
  PROVE  Learns
<1>1. CASE UNCHANGED <<states, seen>>
  BY <1>1 DEF Learns
<1>2. CASE KillSteps
  <2>1. CASE KillConfirmed
    <3>1. states \in [Asked -> State]
      BY DEF TypeInv, ViewTypes
    <3>2. seen' = 0 /\ (states' = states \/ states' = [states EXCEPT ![obj].on = 0])
      BY <2>1 DEF KillConfirmed
    <3>3. \A o \in Asked : [states[o] EXCEPT !.on = 0].gen = states[o].gen
      BY <3>1 DEF State
    <3> QED
      BY <3>1, <3>2, <3>3 DEF Learns
  <2>2. CASE KillProbed
    BY <2>2 DEF KillProbed, Hears, attachVars, Learns
  <2> QED
    BY <1>1, <1>2, <2>1, <2>2 DEF KillSteps, KillPrepares, KillNotPrepared, KillRetries, KillRefused,
       KillLost, AttemptFails, attachVars
<1>3. CASE SocketSteps
  BY <1>1, <1>3, ReplayLearns DEF SocketSteps, Connect, Resend, Write, attachVars
<1>4. CASE HostSteps
  BY <1>1, <1>4, HostLeavesClient DEF attachVars
<1>5. CASE World
  BY <1>1, <1>5 DEF World, Unsubscribe, Attach, Kill, Breaks, ConnectFails, Ends, TerminationFails,
     RivalCreates, LeaseExpires, attachVars
<1> QED
  BY <1>2, <1>3, <1>4, <1>5, LaneLearns DEF Next

LEMMA BornStep ==
  ASSUME TypeInv, NetInv, KillInv, Next, TypeInv'
  PROVE  Born'
<1>0. /\ host.born \in Nat /\ host.live \in Nat /\ host'.born \in {host.born, host.born + 1}
      /\ host.live <= host.born /\ seen <= host.born /\ seen \in Nat
      /\ host'.live \in {host.live, 0, host'.born}
  BY HostRecordTypes, SetFacts, HostMoves DEF TypeInv, ViewTypes, HostMove, KillInv, Born
<1>1. \A g \in Nat : g <= host.born => g <= host'.born
  BY <1>0
<1>2. down # <<>> => Head(down).gen \in Nat /\ Head(down).gen <= host.born
  <2> SUFFICES ASSUME down # <<>> PROVE Head(down).gen \in Nat /\ Head(down).gen <= host.born
    OBVIOUS
  <2>1. Head(down) = down[1] /\ 1 \in 1..Len(down)
    BY DEF TypeInv, ConnTypes
  <2>2. Head(down).gen \in Nat
    BY HeadFrameTypes, SetFacts
  <2> QED
    BY <2>1, <2>2 DEF KillInv, Born
<1>3. host'.live <= host'.born
  BY <1>0
<1>4. seen' <= host'.born
  BY <1>0, <1>1, <1>2, Learnt DEF Learns
<1>5. ASSUME NEW o \in Asked PROVE states'[o].gen <= host'.born
  <2>1. states[o].gen \in Nat /\ states[o].gen <= host.born
    BY StateTypes, SetFacts DEF TypeInv, KillInv, Born
  <2> QED
    BY <1>0, <1>1, <1>2, <2>1, Learnt DEF Learns
<1>6. ASSUME NEW o \in 1..Len(plans') PROVE plans'[o].gen <= host'.born
  <2>0. plans \in Seq(Identities) /\ \A x \in 1..Len(plans) : plans[x].gen \in Nat /\ plans[x].gen <= host.born
    <3>1. plans \in Seq(Identities) /\ \A x \in 1..Len(plans) : plans[x].gen <= host.born
      BY DEF TypeInv, KillTypes, KillInv, Born
    <3>2. \A p \in Identities : p.gen \in Nat
      BY SetFacts DEF Identities
    <3> QED
      BY <3>1, <3>2
  <2>1. CASE plans' = plans
    BY <1>1, <1>6, <2>0, <2>1
  <2>2. ASSUME NEW g \in Gen, Sends(g), g <= host.born, killing.st = "prepare"
        PROVE  plans'[o].gen <= host'.born
    <3>1. /\ Len(plans') = Len(plans)
          /\ \A x \in 1..Len(plans) : plans'[x] =
               IF x = killing.op THEN [gen |-> g, mode |-> Plan.mode, prepared |-> TRUE] ELSE plans[x]
      BY <2>2, SendsPlans
    <3>2. plans'[o].gen \in {g, plans[o].gen} /\ o \in 1..Len(plans)
      BY <1>6, <3>1
    <3> QED
      BY <1>1, <2>0, <2>2, <3>2, SetFacts
  <2>3. ASSUME NEW mode \in Modes, Kill(mode) PROVE plans'[o].gen <= host'.born
    <3>1. CASE op = 0
      <4> DEFINE p == Identity(mode)
      <4>1. p = [gen |-> Known(obj), mode |-> mode, prepared |-> FALSE] /\ plans' = Append(plans, p)
        BY <2>3, <3>1 DEF Kill, Identity
      <4>2. p.gen = Known(obj)
        BY <4>1
      <4>3. Known(obj) \in Nat /\ Known(obj) <= host.born
        <5>1. obj # 0 => obj \in Asked
          BY SetFacts DEF TypeInv, ViewTypes
        <5> QED
          BY <1>0, <5>1, KnownTypes, SetFacts DEF Known, KillInv, Born, TypeInv
      <4> HIDE DEF p
      <4>4. plans'[o] = p \/ (o \in 1..Len(plans) /\ plans'[o] = plans[o])
        BY <1>6, <2>0, <4>1
      <4> QED
        BY <1>1, <2>0, <4>2, <4>3, <4>4
    <3>2. CASE op # 0
      BY <2>1, <2>3, <3>2, KillBegins
    <3> QED
      BY <3>1, <3>2
  <2>4. CASE KillPrepares \/ KillProbed
    BY <2>1, <2>2, <2>4, KillSends
  <2>5. KillNotPrepared \/ KillConfirmed \/ KillRefused \/ KillLost => plans' = plans
    BY DEF KillNotPrepared, KillConfirmed, KillRefused, KillLost, AttemptFails
  <2> QED
    BY <2>1, <2>3, <2>4, <2>5, KillUntouched
<1>7. ASSUME NEW i \in 1..Len(down') PROVE down'[i].gen <= host'.born
  <2>1. \A j \in 1..Len(down) : down[j].gen \in Nat /\ down[j].gen <= host.born
    <3>1. down \in Seq(Frames) /\ \A j \in 1..Len(down) : down[j].gen <= host.born
      BY DEF TypeInv, ConnTypes, KillInv, Born
    <3>2. \A e \in Frames : e.gen \in Nat
      BY SetFacts DEF Frames
    <3> QED
      BY <3>1, <3>2
  <2> QED
    BY <1>1, <2>1, DownMoves DEF Truthful
<1> QED
  BY <1>3, <1>4, <1>5, <1>6, <1>7 DEF Born

LEMMA DeadMoves ==
  ASSUME TypeInv, Next
  PROVE  dead' = dead \/ (KillConfirmed /\ dead' = dead \union ({Plan.gen} \ {0}))
BY KillUntouched DEF KillPrepares, KillProbed, KillNotPrepared, KillConfirmed, KillRefused, KillLost,
   AttemptFails, Kill

LEMMA EndedStep ==
  ASSUME TypeInv, NetInv, KillInv, Next, TypeInv', NetInv'
  PROVE  Ended'
<1>0. HostMove /\ HostTypes /\ host.born \in Nat /\ host'.born \in {host.born, host.born + 1}
  BY HostMoves, HostRecordTypes, SetFacts DEF TypeInv, HostMove
<1>1. ASSUME NEW d \in host'.done PROVE DoneBy(host', d.op, d.gen)
  <2>1. d.gen \in Gen /\ d.gen \in Nat
    <3>1. d \in [op : Op, gen : Gen]
      BY HostRecordTypes DEF TypeInv, HostTypes, Record
    <3> QED
      BY <3>1, SetFacts
  <2>2. CASE d \in host.done
    <3> DEFINE g == d.gen
    <3>1. Gone(g) /\ g \in Gen
      BY <2>1, <2>2 DEF KillInv, Ended
    <3> HIDE DEF g
    <3>2. Gone(g)'
      BY <1>0, <3>1, GoneStays
    <3> QED
      BY <3>2 DEF g, Gone, DoneBy
  <2>3. CASE d.gen <= host.born /\ (d.gen = 0 \/ d.gen # host'.live)
    BY <1>0, <2>1, <2>3 DEF DoneBy
  <2> QED
    BY <1>0, <2>2, <2>3 DEF HostMove
<1>2. ASSUME NEW g \in dead' PROVE Gone(g)'
  <2>1. CASE g \in dead
    BY <1>0, <2>1, GoneStays DEF KillInv, Ended, TypeInv, KillTypes, Gen
  <2>2. CASE KillConfirmed /\ g = Plan.gen
    BY <1>0, <2>2, GoneStays, ConfirmedIsDone
  <2> QED
    BY <1>2, <2>1, <2>2, DeadMoves
<1>3. ASSUME killing'.st = "confirm", NEW i \in 1..Len(down'), down'[i].who = "kill", down'[i].ok
      PROVE  DoneBy(host', killing'.op, Plan'.gen)
  <2>1. pend'["kill"].st = "sent"
    BY <1>3, NoKillThen
  <2>2. ~KillSteps
    BY <2>1, KillAsksNext
  <2>3. ~\E mode \in Modes : Kill(mode)
    <3>1. "kill" \in Who /\ pend \in [Who -> Pending]
      BY DEF TypeInv, ConnTypes, Who
    <3>2. \A mode \in Modes : Kill(mode) => pend'["kill"] = Awaits(NoRequest)
      BY <3>1 DEF Kill
    <3> QED
      BY <2>1, <3>2, WhatIsAsked
  <2>4. UNCHANGED <<plans, killing>>
    BY <2>2, <2>3, AsksKeep
  <2>5. Plan' = Plan /\ killing.st = "confirm"
    BY <1>3, <2>4 DEF Plan
  <2>6. CASE \E j \in 1..Len(down) : down'[i] = down[j]
    <3>1. Completed(killing.op) /\ Gone(Plan.gen) /\ Plan.gen \in Gen
      BY <1>3, <2>5, <2>6, PlanTypes DEF KillInv, Ended
    <3>2. \E d \in host'.done : d.op = killing'.op
      BY <1>0, <2>4, <3>1 DEF Completed, HostMove
    <3>3. PICK g \in Gen : g = Plan'.gen /\ Gone(g)
      BY <2>5, <3>1
    <3>4. Gone(g)'
      BY <1>0, <3>3, GoneStays
    <3> QED
      BY <3>2, <3>3, <3>4 DEF Gone, DoneBy
  <2>7. CASE Truthful(down'[i])
    BY <1>3, <2>4, <2>5, <2>7 DEF Truthful
  <2> QED
    BY <2>6, <2>7, DownMoves
<1>4. ASSUME NEW o, NEW g, DoneBy(host', o, g) PROVE Completed(o)' /\ Gone(g)'
  BY <1>4 DEF DoneBy, Completed, Gone
<1>5. \A d \in host'.done : (d.gen = 0 \/ (d.gen <= host'.born /\ d.gen # host'.live))
  BY <1>1 DEF DoneBy
<1>6. killing'.st = "confirm" => \A i \in 1..Len(down') : down'[i].who = "kill" /\ down'[i].ok =>
        /\ \E d \in host'.done : d.op = killing'.op
        /\ Plan'.gen = 0 \/ (Plan'.gen <= host'.born /\ Plan'.gen # host'.live)
  BY <1>3 DEF DoneBy
<1> QED
  BY <1>2, <1>5, <1>6 DEF Ended, Gone, Completed

LEMMA KillInvStep ==
  ASSUME TypeInv, NetInv, KillInv, [Next]_vars
  PROVE  KillInv'
<1>1. CASE Next
  <2>1. TypeInv' /\ NetInv'
    BY TypeInvStep, NetStep
  <2> QED
    BY <1>1, <2>1, AsksStep, BornStep, TargetsStep, DyingStep, InDoubtStep, EndedStep DEF KillInv
<1>2. CASE UNCHANGED vars
  <2>1. /\ UNCHANGED <<sock, pend, up, down, states, task, seen, token, op, plans, killing, meant, dead>>
        /\ UNCHANGED host
    BY <1>2 DEF vars, netVars, attachVars, killVars
  <2>2. KillAsks'
    BY <2>1 DEF KillInv, KillAsks, Confirms, Plan
  <2>3. Born' /\ Targets'
    BY <2>1 DEF KillInv, Born, Targets, Target, Completed
  <2>4. DyingIsTarget' /\ InDoubt'
    BY <2>1 DEF KillInv, DyingIsTarget, InDoubt, Completed
  <2>5. Ended'
    BY <2>1 DEF KillInv, Ended, Gone, Completed, Plan
  <2> QED
    BY <2>2, <2>3, <2>4, <2>5 DEF KillInv
<1> QED
  BY <1>1, <1>2

LEMMA KillInvInit ==
  ASSUME Init
  PROVE  KillInv
<1>0. /\ sock = 0 /\ down = <<>> /\ \A s \in Sockets : up[s] = <<>>
      /\ pend["kill"] = Idle /\ killing.st = "no" /\ task.token = 0 /\ op = 0 /\ token = 0
      /\ plans = <<>> /\ seen = 0 /\ dead = {} /\ \A o \in Asked : states[o].gen = 0
      /\ host.live = 0 /\ host.born = 0 /\ host.dying = 0 /\ host.done = {}
  BY DEF Init, NotKilling, NoTask, NoState, Who
<1>1. KillAsks
  BY <1>0, WhatIsAsked DEF KillAsks
<1>2. Born /\ Targets
  BY <1>0 DEF Born, Targets
<1>3. DyingIsTarget /\ InDoubt /\ Ended
  BY <1>0 DEF DyingIsTarget, InDoubt, Ended
<1> QED
  BY <1>1, <1>2, <1>3 DEF KillInv

LEMMA AllInv == Spec => [](TypeInv /\ NetInv /\ KillInv)
<1>1. Init => TypeInv /\ NetInv /\ KillInv
  BY TypeInvInit, NetInit, KillInvInit
<1>2. TypeInv /\ NetInv /\ KillInv /\ [Next]_vars => (TypeInv /\ NetInv /\ KillInv)'
  BY TypeInvStep, NetStep, KillInvStep
<1> QED
  BY <1>1, <1>2, PTL DEF Spec

(* A generation that the app was told is killed does not live, and will    *)
(* not: whatever requests and answers were lost, and however often the kill *)
(* was tried again, confirmKillSession takes the host's word only for the  *)
(* operation it waits for, and the host gives it only when that one is done.*)
THEOREM DeadStayDead == Spec => []DeadStaysDead
<1>1. TypeInv /\ NetInv /\ KillInv => DeadStaysDead
  <2> SUFFICES ASSUME TypeInv, KillInv, host.live \in dead PROVE FALSE
    BY DEF DeadStaysDead
  <2>1. Gone(host.live)
    BY DEF KillInv, Ended
  <2>2. host.live # 0
    BY SetFacts DEF TypeInv, KillTypes
  <2> QED
    BY <2>1, <2>2 DEF Gone
<1> QED
  BY <1>1, AllInv, PTL

(* A process that a kill ends, of those aimed at a generation, is that     *)
(* generation: terminateAndWait runs for the operation in doubt only, and  *)
(* that one keeps its target over every retry.                             *)
THEOREM KillsEndTheMeant == Spec => KillsOnlyTheMeant
<1>1. TypeInv /\ NetInv /\ KillInv /\ [Next]_vars =>
        [host.dying # 0 /\ meant # 0 /\ host.live # 0 /\ host'.live = 0 => host.live = meant]_vars
  BY DEF KillInv, DyingIsTarget, InDoubt
<1> QED
  BY <1>1, AllInv, PTL DEF Spec, KillsOnlyTheMeant
=============================================================================
