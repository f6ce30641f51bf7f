-------------------------- MODULE SessionViewsProofs --------------------------
(***************************************************************************)
(* What the terminals of the app see of a session, once all is quiet: those *)
(* that have an entry are attached to the process that lives and are sent   *)
(* its output, and the host keeps no subscription that nobody here owns.    *)
(* For any terminals, number of attempts, and bounds on what is asked, lost *)
(* and spawned.                                                             *)
(***************************************************************************)
EXTENDS SessionHostClientProofs

-----------------------------------------------------------------------------
(* 1. The invariant. *)

BaseInv == TypeInv /\ NetInv /\ KillInv

LaneReq == pend["lane"].req
ObjGen  == states[obj].gen

IsAttach(j, a) == j.does = "attach" /\ j.of = a
IsDetach(j, o) == j.does = "detach" /\ j.of = o
AttachesObj(j) == j.does = "attach" /\ asks[j.of].state = obj
OnSock         == obj # 0 /\ sock # 0 /\ states[obj].on = sock

(* What the client's record names was asked for. *)
Naming ==
  /\ \A i \in 1..Len(asks) : asks[i].state <= i
  /\ obj <= Len(asks) /\ replay <= Len(asks)
  /\ \A o \in Asked : o > Len(asks) => states[o].on = 0
  /\ \A i \in 1..Len(lane) : lane[i].of <= Len(asks)

(* The entries are those of the current state object, and it has one. *)
Entries ==
  /\ \A s \in Subs : entry[s] # 0 =>
       entry[s] <= Len(asks) /\ asks[entry[s]].sub = s /\ asks[entry[s]].state = obj
  /\ obj # 0 => Attached(entry) # {}

(* Who is attached has an entry, is attached to the generation the state   *)
(* object knows, and its attach is over; who is not is still in the lane.  *)
Joinings ==
  \A s \in Subs : joined[s] # 0 =>
    /\ entry[s] # 0
    /\ joined[s] = ObjGen
    /\ \A i \in 1..Len(lane) : ~IsAttach(lane[i], entry[s])

Queued ==
  \A s \in Subs : entry[s] # 0 /\ joined[s] = 0 =>
    \E i \in 1..Len(lane) : IsAttach(lane[i], entry[s])

(* The lane runs in the order of the calls, and what is asked of a state   *)
(* object that is retired comes before what is asked of the current one.   *)
InOrder ==
  \A i, j \in 1..Len(lane) : i < j =>
    /\ lane[i].does = "attach" /\ lane[j].does = "attach" => lane[i].of < lane[j].of
    /\ obj # 0 /\ AttachesObj(lane[i]) => AttachesObj(lane[j])

(* While a terminal is attached, or the current state object is attached on *)
(* this connection, nothing of another state object is left to do, and no   *)
(* detach but the one that undoes the attach just answered.                 *)
LaneOfObj ==
  /\ Attached(joined) # {} => \A i \in 1..Len(lane) : AttachesObj(lane[i])
  /\ OnSock => \A i \in 1..Len(lane) : AttachesObj(lane[i]) \/ (i = 1 /\ IsDetach(lane[1], obj))

RecordInv == Naming /\ Entries /\ Joinings /\ Queued /\ InOrder /\ LaneOfObj

(* What the task of the lane and the replay ask for, and when. *)
TaskAsks ==
  /\ task.on => lane # <<>> /\ pend["lane"].st # "none"
  /\ Runs("attach") => \/ LaneReq = NoRequest /\ pend["lane"].st \in {"await", "lost"}
                       \/ LaneReq.cmd \in {"attach", "existing"}
  /\ Runs("detach") => LaneReq.cmd = "detach" /\ pend["lane"].st \in {"unsent", "sent", "lost"}

ReplayAsks ==
  /\ replay = 0 => pend["replay"] = Idle
  /\ replay # 0 => /\ pend["replay"].st \in {"unsent", "sent"}
                   /\ pend["replay"].req.cmd \in {"existing", "detach"}

LostIsDown == \A w \in Who : pend[w].st = "lost" => sock = 0

(* Until the replay is over no other request uses the new connection, and  *)
(* it asks for what the terminals that are still attached show.            *)
ReplayFirst ==
  replay # 0 =>
    /\ sock # 0
    /\ pend["lane"].st \in {"none", "await"} /\ pend["kill"].st \in {"none", "await"}
    /\ \A o \in Asked : states[o].on # sock
    /\ Attached(joined) # {} =>
         obj = replay /\ pend["replay"].req.cmd = "existing" /\ pend["replay"].req.gen = ObjGen

UpAsks == sock # 0 => \A i \in 1..Len(up[sock]) : up[sock][i].req = pend[up[sock][i].who].req

(* Nobody knows of a connection that was not made. *)
SocketsPast ==
  /\ \A o \in Asked : states[o].on <= tried
  /\ \A s \in host.subs : s <= tried
  /\ host.live = 0 => host.subs = {}

(* An attach that joins terminals which are attached asks for what they show.*)
AskedSame ==
  Runs("attach") /\ LaneReq # NoRequest /\ Attached(joined) # {} =>
    LaneReq.cmd = "existing" /\ LaneReq.gen = ObjGen

PartyInv ==
  TaskAsks /\ ReplayAsks /\ LostIsDown /\ ReplayFirst /\ UpAsks /\ SocketsPast /\ AskedSame

(* The frames on their way: one that says that the client is subscribed    *)
(* tells the truth, or the exit follows; no exit was sent before the       *)
(* subscription that holds now; and a detach that is answered is done.     *)
Talks    == {"lane", "replay"}
Takes(f) == f.who \in Talks /\ f.ok /\ pend[f.who].req.cmd \in {"attach", "existing"}
OkComing == \E i \in 1..Len(down) : Takes(down[i])
Sub      == sock # 0 /\ sock \in host.subs

TakesTrue ==
  \A i \in 1..Len(down) : Takes(down[i]) =>
    /\ down[i].gen # 0
    /\ pend[down[i].who].req.cmd = "existing" => pend[down[i].who].req.gen \in {0, down[i].gen}
    /\ \/ host.live = down[i].gen /\ sock \in host.subs
       \/ \E j \in 1..Len(down) : j > i /\ down[j].who = "exit" /\ down[j].gen = down[i].gen

ExitsPast ==
  Sub => \A i \in 1..Len(down) : down[i].who = "exit" => \E j \in 1..Len(down) : j > i /\ Takes(down[j])

DetachIsDone ==
  \A i \in 1..Len(down) :
    down[i].who \in Talks /\ pend[down[i].who].req.cmd = "detach" => sock \notin host.subs

FrameInv == TakesTrue /\ ExitsPast /\ DetachIsDone

(* A state object that is attached on this connection: the host sends it   *)
(* the process it knows, or the client is about to hear that it does not.  *)
ExitComing(g) == \E i \in 1..Len(down) : down[i].who = "exit" /\ down[i].gen = g
DetachComing  == Runs("detach") /\ \E i \in 1..Len(down) : down[i].who = "lane"

OnLive ==
  OnSock => /\ ObjGen # 0
            /\ (host.live = ObjGen /\ Sub) \/ ExitComing(ObjGen) \/ DetachComing

JoinedOn == sock # 0 /\ replay = 0 /\ ~barrier /\ Attached(joined) # {} => OnSock

ViewsInv == RecordInv /\ PartyInv /\ FrameInv /\ OnLive /\ JoinedOn

-----------------------------------------------------------------------------
(* 2. The steps, as the record of the name sees them. *)

LEMMA RecordTypes ==
  ASSUME TypeInv
  PROVE  /\ asks \in Seq(Ask) /\ Len(asks) \in Nat
         /\ \A i \in 1..Len(asks) : asks[i].sub \in Subs /\ asks[i].state \in Asked
         /\ lane \in Seq(Job) /\ Len(lane) \in Nat
         /\ \A i \in 1..Len(lane) : lane[i].of \in Asked /\ lane[i].does \in {"attach", "detach"}
         /\ \A s \in Subs : entry[s] \in Nat /\ joined[s] \in Nat /\ (entry[s] # 0 => entry[s] \in Asked)
         /\ entry \in [Subs -> Call] /\ joined \in [Subs -> Gen] /\ states \in [Asked -> State]
         /\ obj \in Nat /\ (obj # 0 => obj \in Asked)
         /\ replay \in Nat /\ (replay # 0 => replay \in Asked)
         /\ Asked \subseteq Nat \ {0}
<1>1. asks \in Seq(Ask) /\ lane \in Seq(Job) /\ entry \in [Subs -> Call] /\ joined \in [Subs -> Gen]
      /\ states \in [Asked -> State] /\ obj \in Call /\ replay \in Call
  BY DEF TypeInv, ViewTypes, ConnTypes
<1>2. Asked \subseteq Nat \ {0} /\ Call \subseteq Nat /\ Gen \subseteq Nat
      /\ \A c \in Call : c # 0 => c \in Asked
  BY SetFacts DEF Asked
<1>3. \A i \in 1..Len(asks) : asks[i] \in Ask
  BY <1>1
<1>4. \A i \in 1..Len(lane) : lane[i] \in Job
  BY <1>1
<1>5. \A i \in 1..Len(asks) : asks[i].sub \in Subs /\ asks[i].state \in Asked
  BY <1>3 DEF Ask
<1>6. \A i \in 1..Len(lane) : lane[i].of \in Asked /\ lane[i].does \in {"attach", "detach"}
  BY <1>4 DEF Job
<1>7. \A s \in Subs : entry[s] \in Nat /\ joined[s] \in Nat /\ (entry[s] # 0 => entry[s] \in Asked)
  BY <1>1, <1>2
<1>8. Len(asks) \in Nat /\ Len(lane) \in Nat
  BY <1>1
<1> QED
  BY <1>1, <1>2, <1>5, <1>6, <1>7, <1>8

LEMMA OnTypes ==
  ASSUME TypeInv
  PROVE  /\ \A o \in Asked : states[o].gen \in Nat /\ states[o].on \in Nat
                             /\ states[o].exited \in BOOLEAN
         /\ sock \in Nat /\ tried \in Nat /\ (sock # 0 => sock = tried)
BY StateTypes, SetFacts DEF TypeInv, ConnTypes, SocketsCounted

(* The head of the lane is done with, or a detach takes its place. *)
Shortened   == lane # <<>> /\ lane' = Tail(lane)
Replaced(o) == lane # <<>> /\ lane' = <<DetachOf(o)>> \o Tail(lane)

LEMMA ShortenedLane ==
  ASSUME TypeInv, Shortened
  PROVE  /\ Len(lane') = Len(lane) - 1 /\ 1 \in 1..Len(lane) /\ Head(lane) = lane[1]
         /\ \A i \in 1..Len(lane') : i + 1 \in 1..Len(lane) /\ lane'[i] = lane[i + 1]
         /\ \A i \in 2..Len(lane) : i - 1 \in 1..Len(lane') /\ lane'[i - 1] = lane[i]
BY RecordTypes DEF Shortened

LEMMA ReplacedLane ==
  ASSUME TypeInv, NEW o \in Asked, Replaced(o)
  PROVE  /\ Len(lane') = Len(lane) /\ 1 \in 1..Len(lane) /\ Head(lane) = lane[1]
         /\ lane'[1].does = "detach" /\ lane'[1].of = o
         /\ \A i \in 2..Len(lane) : lane'[i] = lane[i]
<1>1. lane \in Seq(Job) /\ DetachOf(o) \in Job /\ DetachOf(o).does = "detach" /\ DetachOf(o).of = o
  BY RecordTypes DEF DetachOf, Job
<1>2. Tail(lane) \in Seq(Job) /\ <<DetachOf(o)>> \in Seq(Job) /\ Len(<<DetachOf(o)>>) = 1
  BY <1>1 DEF Replaced
<1> QED
  BY <1>1, <1>2 DEF Replaced

LEMMA AppendedLane ==
  ASSUME TypeInv, NEW d \in {"attach", "detach"}, NEW a \in Asked,
         lane' = Append(lane, [does |-> d, of |-> a])
  PROVE  /\ Len(lane') = Len(lane) + 1
         /\ \A i \in 1..Len(lane) : lane'[i] = lane[i]
         /\ lane'[Len(lane')].does = d /\ lane'[Len(lane')].of = a
<1>1. lane \in Seq(Job) /\ [does |-> d, of |-> a] \in Job
  BY RecordTypes DEF Job
<1> QED
  BY <1>1

(* What is set of a state object, and that nothing else is. *)
SetState(o, g, c) == [states EXCEPT ![o].gen = g, ![o].on = c]

LEMMA SetOn ==
  ASSUME TypeInv, NEW o \in Asked, NEW c \in Sockets \union {0}, NEW g \in Gen,
         states' = SetState(o, g, c)
  PROVE  \A x \in Asked :
           /\ states'[x].gen = IF x = o THEN g ELSE states[x].gen
           /\ states'[x].on = IF x = o THEN c ELSE states[x].on
           /\ states'[x].exited = states[x].exited
<1>1. states[o] \in State /\ states \in [Asked -> State]
  BY RecordTypes
<1> DEFINE r == [[states[o] EXCEPT !.gen = g] EXCEPT !.on = c]
<1>2. r.gen = g /\ r.on = c /\ r.exited = states[o].exited
  BY <1>1 DEF State
<1>3. \A x \in Asked : states'[x] = IF x = o THEN r ELSE states[x]
  BY <1>1 DEF SetState
<1> HIDE DEF r
<1> QED
  <2> SUFFICES ASSUME NEW x \in Asked
               PROVE  /\ states'[x].gen = IF x = o THEN g ELSE states[x].gen
                      /\ states'[x].on = IF x = o THEN c ELSE states[x].on
                      /\ states'[x].exited = states[x].exited
    OBVIOUS
  <2>1. CASE x = o
    <3>1. states'[x] = r
      BY <1>3, <2>1
    <3> QED
      BY <1>2, <2>1, <3>1
  <2>2. CASE x # o
    <3>1. states'[x] = states[x]
      BY <1>3, <2>2
    <3> QED
      BY <2>2, <3>1
  <2> QED
    BY <2>1, <2>2

LEMMA SetOnly ==
  ASSUME TypeInv, NEW o \in Asked, NEW c \in Sockets \union {0},
         states' = [states EXCEPT ![o].on = c]
  PROVE  \A x \in Asked :
           /\ states'[x].gen = states[x].gen
           /\ states'[x].on = IF x = o THEN c ELSE states[x].on
           /\ states'[x].exited = states[x].exited
<1>1. states[o] \in State /\ states \in [Asked -> State]
  BY RecordTypes
<1> DEFINE r == [states[o] EXCEPT !.on = c]
<1>2. r.gen = states[o].gen /\ r.on = c /\ r.exited = states[o].exited
  BY <1>1 DEF State
<1>3. \A x \in Asked : states'[x] = IF x = o THEN r ELSE states[x]
  BY <1>1
<1> HIDE DEF r
<1> QED
  BY <1>2, <1>3

(* The task at the head of the lane is over. *)
LaneDone == Shortened \/ \E o \in Asked : o <= Len(asks) /\ Replaced(o)

LEMMA LaneDoneJobs ==
  ASSUME TypeInv, LaneDone
  PROVE  /\ lane # <<>> /\ Head(lane) = lane[1] /\ 1 \in 1..Len(lane)
         /\ \A i \in 1..Len(lane'), a \in Asked :
              IsAttach(lane'[i], a) => \E j \in 2..Len(lane) : IsAttach(lane[j], a)
         /\ \A j \in 2..Len(lane), a \in Asked :
              IsAttach(lane[j], a) => \E i \in 1..Len(lane') : IsAttach(lane'[i], a)
<1>0. lane # <<>> /\ Len(lane) \in Nat
  BY RecordTypes DEF LaneDone, Shortened, Replaced
<1>1. CASE Shortened
  <2>1. \A i \in 1..Len(lane') : i + 1 \in 2..Len(lane)
    BY <1>0, <1>1, ShortenedLane
  <2> QED
    BY <1>0, <1>1, <2>1, ShortenedLane
<1>2. ASSUME NEW o \in Asked, Replaced(o)
      PROVE  /\ Head(lane) = lane[1] /\ 1 \in 1..Len(lane)
             /\ \A i \in 1..Len(lane'), a \in Asked :
                  IsAttach(lane'[i], a) => \E j \in 2..Len(lane) : IsAttach(lane[j], a)
             /\ \A j \in 2..Len(lane), a \in Asked :
                  IsAttach(lane[j], a) => \E i \in 1..Len(lane') : IsAttach(lane'[i], a)
  <2>1. \A i \in 1..Len(lane') : i # 1 => i \in 2..Len(lane)
    BY <1>0, <1>2, ReplacedLane
  <2>2. \A a : ~IsAttach(lane'[1], a)
    BY <1>2, ReplacedLane DEF IsAttach
  <2> QED
    BY <1>0, <1>2, <2>1, <2>2, ReplacedLane
<1> QED
  BY <1>0, <1>1, <1>2 DEF LaneDone

LEMMA EndedStays ==
  ASSUME TypeInv, LaneDone, NEW a \in Asked, \A i \in 1..Len(lane) : ~IsAttach(lane[i], a)
  PROVE  \A i \in 1..Len(lane') : ~IsAttach(lane'[i], a)
<1>1. \A j \in 2..Len(lane) : j \in 1..Len(lane)
  BY RecordTypes
<1> QED
  BY <1>1, LaneDoneJobs

LEMMA LaneDoneOrder ==
  ASSUME TypeInv, Naming, InOrder, LaneDone, asks' = asks, obj' \in {obj, 0}
  PROVE  InOrder' /\ \A i \in 1..Len(lane') : lane'[i].of <= Len(asks)
<1>0. Len(lane) \in Nat
  BY RecordTypes
<1>1. CASE Shortened
  <2>1. \A i \in 1..Len(lane') : lane'[i].of <= Len(asks)
    BY <1>1, ShortenedLane DEF Naming
  <2>2. ASSUME NEW i \in 1..Len(lane'), NEW j \in 1..Len(lane'), i < j
        PROVE  i + 1 < j + 1 /\ i + 1 \in 1..Len(lane) /\ j + 1 \in 1..Len(lane)
               /\ lane'[i] = lane[i + 1] /\ lane'[j] = lane[j + 1]
    BY <1>0, <1>1, <2>2, ShortenedLane
  <2>3. ASSUME NEW i \in 1..Len(lane'), NEW j \in 1..Len(lane'), i < j
        PROVE  /\ lane'[i].does = "attach" /\ lane'[j].does = "attach" => lane'[i].of < lane'[j].of
               /\ obj' # 0 /\ lane'[i].does = "attach" /\ asks[lane'[i].of].state = obj' =>
                    lane'[j].does = "attach" /\ asks[lane'[j].of].state = obj'
    <3>1. lane'[i] = lane[i + 1] /\ lane'[j] = lane[j + 1]
      BY <2>2, <2>3
    <3>2. /\ lane[i + 1].does = "attach" /\ lane[j + 1].does = "attach" => lane[i + 1].of < lane[j + 1].of
          /\ obj # 0 /\ AttachesObj(lane[i + 1]) => AttachesObj(lane[j + 1])
      BY <2>2, <2>3 DEF InOrder
    <3> QED
      BY <3>1, <3>2 DEF AttachesObj
  <2> QED
    BY <2>1, <2>3 DEF InOrder, AttachesObj
<1>2. ASSUME NEW o \in Asked, o <= Len(asks), Replaced(o)
      PROVE  InOrder' /\ \A i \in 1..Len(lane') : lane'[i].of <= Len(asks)
  <2>1. \A i \in 1..Len(lane') : lane'[i].of <= Len(asks)
    BY <1>0, <1>2, ReplacedLane DEF Naming
  <2>2. ASSUME NEW i \in 1..Len(lane'), NEW j \in 1..Len(lane'), i < j
        PROVE  /\ i \in 1..Len(lane) /\ j \in 1..Len(lane) /\ lane'[j] = lane[j]
               /\ lane'[i].does # "attach" \/ lane'[i] = lane[i]
    BY <1>0, <1>2, <2>2, ReplacedLane
  <2> QED
    BY <2>1, <2>2 DEF InOrder, AttachesObj
<1> QED
  BY <1>1, <1>2 DEF LaneDone

(* Entries only leave, and the state object with the last. *)
LEMMA EntriesLeave ==
  ASSUME TypeInv, TypeInv', Entries, asks' = asks, obj' \in {obj, 0},
         \A s \in Subs : entry'[s] \in {entry[s], 0},
         obj' # 0 => Attached(entry') # {}
  PROVE  Entries'
<1>1. \A s \in Subs : entry'[s] # 0 => obj' # 0
  BY DEF TypeInv, NamesKept
<1> QED
  BY <1>1 DEF Entries

LEMMA NamingKept ==
  ASSUME TypeInv, Naming, asks' = asks, obj' \in {obj, 0}, replay' \in {replay, obj, 0},
         \A o \in Asked : states'[o].on \in {states[o].on, 0} \/ o <= Len(asks),
         \A i \in 1..Len(lane') : lane'[i].of <= Len(asks)
  PROVE  Naming'
<1>1. Len(asks) \in Nat /\ Asked \subseteq Nat
  BY RecordTypes
<1> QED
  BY <1>1 DEF Naming

(* Nothing of the record changes but the end of the connection. *)
LEMMA ConnRecord ==
  ASSUME TypeInv, RecordInv, SocketsPast, UNCHANGED <<asks, entry, joined, obj, states, lane>>,
         replay' \in {replay, obj, 0}, sock' \in {sock, 0} \/ sock' > tried
  PROVE  RecordInv'
<1>1. OnSock' => OnSock
  BY OnTypes, RecordTypes DEF OnSock, SocketsPast
<1>2. Naming'
  BY NamingKept DEF RecordInv, Naming
<1>3. Entries' /\ Joinings' /\ Queued' /\ InOrder'
  BY DEF RecordInv, Entries, Joinings, Queued, InOrder, AttachesObj, ObjGen, Attached
<1>4. LaneOfObj'
  BY <1>1 DEF RecordInv, LaneOfObj, AttachesObj, Attached
<1> QED
  BY <1>2, <1>3, <1>4 DEF RecordInv

(* A task at the head of the lane that owes no entry anything is over. *)
LEMMA ShortenedRecord ==
  ASSUME TypeInv, RecordInv, Shortened,
         UNCHANGED <<asks, entry, joined, obj, sock, replay>>,
         \A o \in Asked : states'[o].gen = states[o].gen /\ states'[o].on \in {states[o].on, 0},
         Head(lane).does = "attach" => ~Mine(Head(lane).of)
  PROVE  RecordInv'
<1>0. LaneDone /\ lane # <<>>
  BY DEF LaneDone, Shortened
<1>a. /\ obj # 0 => obj \in Asked /\ ObjGen' = ObjGen
      /\ OnSock' => OnSock
  BY RecordTypes DEF ObjGen, OnSock
<1>1. InOrder' /\ Naming'
  BY <1>0, LaneDoneOrder, NamingKept DEF RecordInv, Naming
<1>2. Entries'
  BY DEF RecordInv, Entries, Attached
<1>3. Joinings'
  <2> SUFFICES ASSUME NEW s \in Subs, joined[s] # 0
               PROVE  /\ entry[s] # 0 /\ joined[s] = ObjGen'
                      /\ \A i \in 1..Len(lane') : ~IsAttach(lane'[i], entry[s])
    BY DEF Joinings, IsAttach
  <2>1. /\ obj # 0 /\ entry[s] # 0 /\ joined[s] = ObjGen
        /\ \A i \in 1..Len(lane) : ~IsAttach(lane[i], entry[s])
    BY DEF RecordInv, Joinings, TypeInv, NamesKept
  <2> QED
    BY <1>0, <1>a, <2>1, EndedStays, RecordTypes
<1>4. Queued'
  <2> SUFFICES ASSUME NEW s \in Subs, entry[s] # 0, joined[s] = 0
               PROVE  \E i \in 1..Len(lane') : IsAttach(lane'[i], entry[s])
    BY DEF Queued, IsAttach
  <2>1. PICK j \in 1..Len(lane) : IsAttach(lane[j], entry[s])
    BY DEF RecordInv, Queued
  <2>2. ~IsAttach(lane[1], entry[s])
    BY <1>0, LaneDoneJobs DEF IsAttach, RecordInv, Entries, Mine
  <2>3. j \in 2..Len(lane)
    BY <2>1, <2>2, RecordTypes
  <2> QED
    BY <1>0, <2>1, <2>3, LaneDoneJobs, RecordTypes
<1>5. LaneOfObj'
  <2>1. \A i \in 1..Len(lane') : i + 1 \in 1..Len(lane) /\ i + 1 # 1 /\ lane'[i] = lane[i + 1]
    BY ShortenedLane, RecordTypes
  <2> QED
    BY <1>a, <2>1 DEF RecordInv, LaneOfObj, AttachesObj, Attached
<1> QED
  BY <1>1, <1>2, <1>3, <1>4, <1>5 DEF RecordInv

LEMMA FailsRecord ==
  ASSUME TypeInv, TypeInv', RecordInv, lane # <<>>, Head(lane).does = "attach",
         AttachFails(Head(lane).of), UNCHANGED <<sock, replay>>
  PROVE  RecordInv'
<1> DEFINE a == Head(lane).of
           o == asks[a].state
           t == asks[a].sub
<1>0. /\ a \in 1..Len(asks) /\ a \in Asked /\ o \in Asked /\ t \in Subs /\ o <= a /\ o <= Len(asks)
      /\ Head(lane) = lane[1] /\ 1 \in 1..Len(lane) /\ lane[1].of = a /\ lane[1].does = "attach"
  <2>1. a \in 1..Len(asks) /\ a \in Asked /\ o \in Asked /\ t \in Subs
    BY LaneHeadTypes
  <2>2. Head(lane) = lane[1] /\ 1 \in 1..Len(lane)
    BY RecordTypes
  <2> QED
    BY <2>1, <2>2, RecordTypes DEF RecordInv, Naming
<1>1. /\ UNCHANGED <<asks, joined, states>>
      /\ obj' \in {obj, 0}
      /\ entry' = IF Mine(a) THEN [entry EXCEPT ![t] = 0] ELSE entry
      /\ LaneDone
      /\ obj' = 0 => obj = 0 \/ Attached(entry') = {}
      /\ obj' # 0 => obj' = obj /\ Shortened /\ (obj # o \/ Attached(entry') # {})
      /\ Shortened \/ (obj' = 0 /\ Replaced(o))
  BY <1>0 DEF AttachFails, LaneDone, Shortened, Replaced, TaskEnds, TaskDetaches
<1>2. /\ Mine(a) => entry[t] = a /\ o = obj
      /\ \A s \in Subs : entry'[s] = IF Mine(a) /\ s = t THEN 0 ELSE entry[s]
      /\ \A s \in Subs : entry[s] = a => s = t /\ Mine(a)
  <2>1. Mine(a) => entry[t] = a /\ o = obj
    BY <1>0, RecordTypes DEF Mine, RecordInv, Entries
  <2>2. \A s \in Subs : entry'[s] = IF Mine(a) /\ s = t THEN 0 ELSE entry[s]
    BY <1>0, <1>1, RecordTypes
  <2>3. \A s \in Subs : entry[s] = a => s = t /\ Mine(a)
    BY <1>0, RecordTypes DEF Mine, RecordInv, Entries
  <2> QED
    BY <2>1, <2>2, <2>3
<1> HIDE DEF a, o, t
<1>3. obj' # 0 => Attached(entry') # {}
  <2> SUFFICES ASSUME obj' # 0, obj # o PROVE Attached(entry') # {}
    BY <1>1
  <2>1. entry' = entry /\ obj # 0
    BY <1>1, <1>2
  <2> QED
    BY <2>1 DEF RecordInv, Entries
<1>4. Entries'
  BY <1>1, <1>2, <1>3, EntriesLeave DEF RecordInv
<1>5. Naming' /\ InOrder'
  BY <1>1, LaneDoneOrder, NamingKept DEF RecordInv, Naming
<1>6. \A s \in Subs : joined[s] # 0 => entry'[s] # 0 /\ obj' = obj /\ obj # 0
  <2> SUFFICES ASSUME NEW s \in Subs, joined[s] # 0 PROVE entry'[s] # 0 /\ obj' = obj /\ obj # 0
    OBVIOUS
  <2>1. entry[s] # 0 /\ ~IsAttach(lane[1], entry[s]) /\ obj # 0
    BY <1>0 DEF RecordInv, Joinings, TypeInv, NamesKept
  <2>2. entry[s] # a
    BY <1>0, <2>1 DEF IsAttach
  <2>3. entry'[s] # 0
    BY <1>2, <2>1, <2>2
  <2>4. obj' # 0
    BY <2>3 DEF TypeInv, NamesKept
  <2> QED
    BY <1>1, <2>1, <2>3, <2>4
<1>7. Joinings'
  <2> SUFFICES ASSUME NEW s \in Subs, joined[s] # 0
               PROVE  /\ entry'[s] # 0 /\ joined[s] = ObjGen'
                      /\ \A i \in 1..Len(lane') : ~IsAttach(lane'[i], entry'[s])
    BY <1>1 DEF Joinings, IsAttach
  <2>1. /\ entry'[s] # 0 /\ entry'[s] = entry[s] /\ entry[s] \in Asked /\ ObjGen' = ObjGen
    BY <1>1, <1>2, <1>6, RecordTypes DEF ObjGen
  <2>2. /\ joined[s] = ObjGen
        /\ \A i \in 1..Len(lane) : ~IsAttach(lane[i], entry[s])
    BY DEF RecordInv, Joinings
  <2> QED
    BY <1>1, <2>1, <2>2, EndedStays
<1>8. Queued'
  <2> SUFFICES ASSUME NEW s \in Subs, entry'[s] # 0, joined[s] = 0
               PROVE  \E i \in 1..Len(lane') : IsAttach(lane'[i], entry'[s])
    BY <1>1 DEF Queued, IsAttach
  <2>1. entry'[s] = entry[s] /\ entry[s] # a
    BY <1>0, <1>2
  <2>2. PICK j \in 1..Len(lane) : IsAttach(lane[j], entry[s])
    BY <2>1 DEF RecordInv, Queued
  <2>3. j \in 2..Len(lane)
    BY <1>0, <2>1, <2>2, RecordTypes DEF IsAttach
  <2> QED
    BY <1>1, <2>1, <2>2, <2>3, LaneDoneJobs, RecordTypes
<1>9. LaneOfObj'
  <2>1. CASE obj' = 0
    <3>1. ~OnSock' /\ Attached(joined') = {}
      BY <1>1, <1>6, <2>1 DEF OnSock, Attached
    <3> QED
      BY <3>1 DEF LaneOfObj
  <2>2. CASE obj' # 0
    <3>1. obj' = obj /\ Shortened /\ joined' = joined /\ (OnSock' => OnSock)
      BY <1>1, <2>2 DEF OnSock
    <3>2. \A i \in 1..Len(lane') : i + 1 \in 1..Len(lane) /\ i + 1 # 1 /\ lane'[i] = lane[i + 1]
      BY <3>1, ShortenedLane, RecordTypes
    <3> QED
      BY <1>1, <3>1, <3>2 DEF RecordInv, LaneOfObj, AttachesObj, Attached
  <2> QED
    BY <2>1, <2>2
<1> QED
  BY <1>4, <1>5, <1>7, <1>8, <1>9 DEF RecordInv

LEMMA SucceedsRecord ==
  ASSUME TypeInv, TypeInv', RecordInv, lane # <<>>, Head(lane).does = "attach",
         NEW g \in Gen, g # 0, AttachSucceeds(Head(lane).of, g), UNCHANGED <<sock, replay>>,
         asks[Head(lane).of].state = obj /\ Attached(joined) # {} => g = ObjGen
  PROVE  RecordInv'
<1> DEFINE a == Head(lane).of
           o == asks[a].state
           t == asks[a].sub
<1>0. /\ a \in 1..Len(asks) /\ a \in Asked /\ o \in Asked /\ t \in Subs /\ o <= a /\ o <= Len(asks)
      /\ Head(lane) = lane[1] /\ 1 \in 1..Len(lane) /\ lane[1].of = a /\ lane[1].does = "attach"
  <2>1. a \in 1..Len(asks) /\ a \in Asked /\ o \in Asked /\ t \in Subs
    BY LaneHeadTypes
  <2>2. Head(lane) = lane[1] /\ 1 \in 1..Len(lane)
    BY RecordTypes
  <2> QED
    BY <2>1, <2>2, RecordTypes DEF RecordInv, Naming
<1>1. /\ UNCHANGED <<asks, entry, obj>>
      /\ joined' = IF Mine(a) THEN [joined EXCEPT ![t] = g] ELSE joined
      /\ LaneDone
      /\ Shortened \/ (Replaced(o) /\ ~Mine(a) /\ (obj # o \/ Attached(joined) = {}))
      /\ states' = [states EXCEPT ![o].gen = g, ![o].on = sock]
  <2>1. /\ UNCHANGED <<asks, entry, obj>>
        /\ joined' = IF Mine(a) THEN [joined EXCEPT ![t] = g] ELSE joined
        /\ states' = [states EXCEPT ![o].gen = g, ![o].on = sock]
        /\ IF ~Mine(a) /\ (obj # o \/ Attached(joined) = {}) THEN TaskDetaches(o) ELSE TaskEnds
    BY DEF AttachSucceeds
  <2>2. Shortened \/ (Replaced(o) /\ ~Mine(a) /\ (obj # o \/ Attached(joined) = {}))
    BY <2>1 DEF Shortened, Replaced, TaskEnds, TaskDetaches
  <2> QED
    BY <1>0, <2>1, <2>2 DEF LaneDone
<1>n. o = asks[a].state /\ t = asks[a].sub
  OBVIOUS
<1>g. o = obj /\ Attached(joined) # {} => g = ObjGen
  OBVIOUS
<1> HIDE DEF a, o, t
<1>2. /\ Mine(a) => entry[t] = a /\ o = obj /\ obj # 0
      /\ \A s \in Subs : joined'[s] = IF Mine(a) /\ s = t THEN g ELSE joined[s]
      /\ \A s \in Subs : entry[s] = a => s = t /\ Mine(a)
  <2>1. Mine(a) => entry[t] = a /\ o = obj /\ obj # 0
    BY <1>0, <1>n, RecordTypes DEF Mine, RecordInv, Entries
  <2>2. \A s \in Subs : joined'[s] = IF Mine(a) /\ s = t THEN g ELSE joined[s]
    BY <1>0, <1>1, RecordTypes
  <2>3. \A s \in Subs : entry[s] = a => s = t /\ Mine(a)
    BY <1>0, <1>n, RecordTypes DEF Mine, RecordInv, Entries
  <2> QED
    BY <2>1, <2>2, <2>3
<1>3. /\ \A x \in Asked : states'[x].gen = IF x = o THEN g ELSE states[x].gen
      /\ \A x \in Asked : states'[x].on = IF x = o THEN sock ELSE states[x].on
  <2>1. sock \in Sockets \union {0} /\ states' = SetState(o, g, sock)
    BY <1>1 DEF TypeInv, ConnTypes, SetState
  <2> QED
    BY <1>0, <2>1, SetOn
<1>h. AttachesObj(lane[1]) <=> o = obj
  BY <1>0, <1>n DEF AttachesObj
<1>4. Entries'
  BY <1>1, EntriesLeave DEF RecordInv, Entries
<1>5. Naming' /\ InOrder'
  BY <1>0, <1>1, <1>3, LaneDoneOrder, NamingKept DEF RecordInv
<1>6. \A s \in Subs : joined[s] # 0 => obj # 0 /\ obj \in Asked /\ s \in Attached(joined)
  BY RecordTypes DEF RecordInv, Joinings, TypeInv, NamesKept, Attached
<1>7. Joinings'
  <2> SUFFICES ASSUME NEW s \in Subs, joined'[s] # 0
               PROVE  /\ entry[s] # 0 /\ joined'[s] = ObjGen'
                      /\ \A i \in 1..Len(lane') : ~IsAttach(lane'[i], entry[s])
    BY <1>1 DEF Joinings, IsAttach
  <2>1. CASE Mine(a) /\ s = t
    <3>1. joined'[s] = g /\ ObjGen' = g /\ entry[s] = a
      BY <1>0, <1>1, <1>2, <1>3, <2>1 DEF ObjGen
    <3>2. \A j \in 2..Len(lane) : ~IsAttach(lane[j], a)
      <4> SUFFICES ASSUME NEW j \in 2..Len(lane), lane[j].does = "attach", lane[j].of = a
                   PROVE  FALSE
        BY DEF IsAttach
      <4>1. j \in 1..Len(lane) /\ 1 < j
        BY RecordTypes
      <4>2. lane[1].of < lane[j].of
        BY <1>0, <4>1 DEF RecordInv, InOrder
      <4> QED
        BY <1>0, <4>2, RecordTypes
    <3> QED
      BY <1>0, <1>1, <3>1, <3>2, LaneDoneJobs
  <2>2. CASE ~(Mine(a) /\ s = t)
    <3>1. joined'[s] = joined[s] /\ joined[s] # 0
      BY <1>2, <2>2
    <3>2. /\ entry[s] # 0 /\ entry[s] \in Asked /\ joined[s] = ObjGen
          /\ \A i \in 1..Len(lane) : ~IsAttach(lane[i], entry[s])
      BY <3>1, RecordTypes DEF RecordInv, Joinings
    <3>3. ObjGen' = ObjGen
      BY <1>1, <1>3, <1>6, <1>g, <3>1 DEF ObjGen
    <3> QED
      BY <1>1, <3>1, <3>2, <3>3, EndedStays
  <2> QED
    BY <2>1, <2>2
<1>8. Queued'
  <2> SUFFICES ASSUME NEW s \in Subs, entry[s] # 0, joined'[s] = 0
               PROVE  \E i \in 1..Len(lane') : IsAttach(lane'[i], entry[s])
    BY <1>1 DEF Queued, IsAttach
  <2>1. joined[s] = 0 /\ entry[s] # a
    BY <1>2
  <2>2. PICK j \in 1..Len(lane) : IsAttach(lane[j], entry[s])
    BY <2>1 DEF RecordInv, Queued
  <2>3. j \in 2..Len(lane)
    BY <1>0, <2>1, <2>2, RecordTypes DEF IsAttach
  <2> QED
    BY <1>1, <2>1, <2>2, <2>3, LaneDoneJobs, RecordTypes
<1>9. LaneOfObj'
  <2>1. ASSUME o = obj, obj # 0 PROVE \A i \in 1..Len(lane) : AttachesObj(lane[i])
    <3>1. \A i \in 1..Len(lane) : i # 1 => 1 < i
      BY RecordTypes
    <3> QED
      BY <1>0, <1>h, <2>1, <3>1 DEF RecordInv, InOrder
  <2>2. \A i \in 1..Len(lane') : Shortened => i + 1 \in 1..Len(lane) /\ lane'[i] = lane[i + 1]
    BY ShortenedLane
  <2>3. \A i \in 1..Len(lane') : Replaced(o) =>
          \/ i = 1 /\ lane'[1].does = "detach" /\ lane'[1].of = o
          \/ i \in 1..Len(lane) /\ lane'[i] = lane[i]
    <3>1. \A i \in 1..Len(lane) : i # 1 => i \in 2..Len(lane)
      BY RecordTypes
    <3> QED
      BY <1>0, <3>1, ReplacedLane
  <2>4. ASSUME Attached(joined') # {} PROVE o = obj /\ obj # 0 /\ Shortened
    <3>1. CASE Mine(a)
      BY <1>1, <1>2, <3>1
    <3>2. CASE ~Mine(a)
      <4>1. Attached(joined) # {} /\ obj # 0
        BY <1>2, <1>6, <2>4, <3>2 DEF Attached
      <4>2. o = obj
        BY <1>0, <1>h, <4>1 DEF RecordInv, LaneOfObj
      <4> QED
        BY <1>1, <4>1, <4>2
    <3> QED
      BY <3>1, <3>2
  <2>5. ASSUME OnSock' PROVE o = obj /\ obj # 0
    <3>1. obj # 0 /\ obj \in Asked
      BY <1>1, <2>5, RecordTypes DEF OnSock
    <3>2. CASE o # obj
      <4>1. OnSock
        BY <1>1, <1>3, <2>5, <3>1, <3>2 DEF OnSock
      <4> QED
        BY <1>0, <1>h, <3>2, <4>1 DEF RecordInv, LaneOfObj, IsDetach
    <3> QED
      BY <3>1, <3>2
  <2>6. ASSUME Attached(joined') # {}, NEW i \in 1..Len(lane')
        PROVE  lane'[i].does = "attach" /\ asks[lane'[i].of].state = obj
    BY <2>1, <2>2, <2>4, <2>6 DEF AttachesObj
  <2>7. ASSUME OnSock', NEW i \in 1..Len(lane')
        PROVE  \/ lane'[i].does = "attach" /\ asks[lane'[i].of].state = obj
               \/ i = 1 /\ lane'[1].does = "detach" /\ lane'[1].of = obj
    BY <1>1, <2>1, <2>2, <2>3, <2>5, <2>7 DEF AttachesObj
  <2> QED
    BY <1>1, <2>6, <2>7 DEF LaneOfObj, AttachesObj, IsDetach
<1> QED
  BY <1>4, <1>5, <1>7, <1>8, <1>9 DEF RecordInv

LEMMA AttachRecord ==
  ASSUME TypeInv, TypeInv', RecordInv, NEW s \in Subs, NEW create \in BOOLEAN, Attach(s, create)
  PROVE  RecordInv'
<1> DEFINE a == Len(asks) + 1
           q == [sub |-> s, create |-> create, state |-> obj']
<1>0. /\ asks \in Seq(Ask) /\ Len(asks) \in Nat /\ a \in Asked /\ a # 0
      /\ obj \in Nat /\ (obj # 0 => obj \in Asked)
  BY RecordTypes, BoundsAssumption DEF Attach, Asked
<1>1. /\ UNCHANGED <<netVars, joined, states>>
      /\ obj' = IF obj = 0 THEN a ELSE obj
      /\ entry[s] = 0
      /\ asks' = Append(asks, q)
      /\ entry' = [entry EXCEPT ![s] = a]
      /\ lane' = Append(lane, [does |-> "attach", of |-> a])
  BY DEF Attach
<1>2. /\ q.sub = s /\ q.state = obj'
      /\ Len(asks') = a /\ asks'[a] = q /\ \A i \in 1..Len(asks) : asks'[i] = asks[i]
  BY <1>0, <1>1
<1>3. \A x \in Subs : entry'[x] = IF x = s THEN a ELSE entry[x]
  BY <1>1, RecordTypes
<1>4. /\ Len(lane') = Len(lane) + 1 /\ Len(lane) \in Nat
      /\ \A i \in 1..Len(lane) : lane'[i] = lane[i] /\ lane[i].of <= Len(asks) /\ lane[i].of \in 1..Len(asks)
      /\ lane'[Len(lane')].does = "attach" /\ lane'[Len(lane')].of = a
  <2>1. \A i \in 1..Len(lane) : lane[i].of <= Len(asks) /\ lane[i].of \in Nat \ {0}
    BY RecordTypes DEF RecordInv, Naming
  <2> QED
    BY <1>0, <1>1, <2>1, AppendedLane, RecordTypes
<1>5. \A i \in 1..Len(lane') : i \in 1..Len(lane) \/ i = Len(lane')
  BY <1>4
<1>6. \A i \in 1..Len(lane) : asks'[lane'[i].of].state = asks[lane[i].of].state
  BY <1>2, <1>4
<1>7. obj = 0 => \A x \in Subs : entry[x] = 0 /\ joined[x] = 0
  BY DEF TypeInv, NamesKept, RecordInv, Joinings
<1>8. \A i \in 1..Len(asks) : asks[i].state <= i
  BY DEF RecordInv, Naming
<1>n. sock' = sock /\ replay' = replay /\ joined' = joined /\ states' = states
  BY <1>1 DEF netVars
<1> HIDE DEF a, q
<1>9. asks'[lane'[Len(lane')].of].state = obj'
  BY <1>2, <1>4
<1>10. Naming'
  <2>1. \A i \in 1..Len(asks') : asks'[i].state <= i
    <3> SUFFICES ASSUME NEW i \in 1..Len(asks') PROVE asks'[i].state <= i
      OBVIOUS
    <3>1. CASE i \in 1..Len(asks)
      BY <1>2, <1>8, <3>1
    <3>2. CASE i = a
      BY <1>0, <1>1, <1>2, <3>2 DEF RecordInv, Naming, a
    <3> QED
      BY <1>0, <1>2, <3>1, <3>2 DEF a
  <2>2. obj' <= Len(asks') /\ replay' <= Len(asks')
    BY <1>0, <1>1, <1>2, <1>n, RecordTypes DEF RecordInv, Naming, a
  <2>3. \A o \in Asked : o > Len(asks') => states'[o].on = 0
    BY <1>0, <1>2, <1>n, RecordTypes DEF RecordInv, Naming, a
  <2>4. \A i \in 1..Len(lane') : lane'[i].of <= Len(asks')
    BY <1>0, <1>2, <1>4, <1>5 DEF a
  <2> QED
    BY <2>1, <2>2, <2>3, <2>4 DEF Naming
<1>11. Entries'
  <2>1. ASSUME NEW x \in Subs, entry'[x] # 0
        PROVE  entry'[x] <= Len(asks') /\ asks'[entry'[x]].sub = x /\ asks'[entry'[x]].state = obj'
    <3>1. CASE x = s
      BY <1>0, <1>2, <1>3, <3>1 DEF a
    <3>2. CASE x # s
      <4>1. entry'[x] = entry[x] /\ obj # 0 /\ obj' = obj
        BY <1>1, <1>3, <1>7, <2>1, <3>2
      <4>2. entry[x] \in 1..Len(asks) /\ asks[entry[x]].sub = x /\ asks[entry[x]].state = obj
        BY <2>1, <4>1, RecordTypes DEF RecordInv, Entries
      <4> QED
        BY <1>0, <1>2, <4>1, <4>2 DEF a
    <3> QED
      BY <3>1, <3>2
  <2>2. Attached(entry') # {}
    BY <1>0, <1>3 DEF Attached
  <2> QED
    BY <2>1, <2>2 DEF Entries
<1>12. Joinings'
  <2> SUFFICES ASSUME NEW x \in Subs, joined[x] # 0
               PROVE  /\ entry'[x] # 0 /\ joined[x] = ObjGen'
                      /\ \A i \in 1..Len(lane') : ~IsAttach(lane'[i], entry'[x])
    BY <1>n DEF Joinings, IsAttach
  <2>1. /\ obj # 0 /\ entry[x] # 0 /\ joined[x] = ObjGen /\ x # s
        /\ \A i \in 1..Len(lane) : ~IsAttach(lane[i], entry[x])
    BY <1>1, <1>7 DEF RecordInv, Joinings
  <2>2. entry'[x] = entry[x] /\ ObjGen' = ObjGen
    BY <1>1, <1>3, <1>n, <2>1 DEF ObjGen
  <2>3. entry[x] # a
    BY <1>0, <2>1, RecordTypes DEF RecordInv, Entries, a
  <2> QED
    BY <1>4, <1>5, <2>1, <2>2, <2>3 DEF IsAttach
<1>13. Queued'
  <2> SUFFICES ASSUME NEW x \in Subs, entry'[x] # 0, joined[x] = 0
               PROVE  \E i \in 1..Len(lane') : IsAttach(lane'[i], entry'[x])
    BY <1>n DEF Queued, IsAttach
  <2>0. Len(lane') \in 1..Len(lane') /\ \A i \in 1..Len(lane) : i \in 1..Len(lane')
    BY <1>4
  <2>1. CASE x = s
    BY <1>3, <1>4, <2>0, <2>1 DEF IsAttach
  <2>2. CASE x # s
    <3>1. PICK i \in 1..Len(lane) : IsAttach(lane[i], entry[x])
      BY <1>3, <2>2 DEF RecordInv, Queued
    <3> QED
      BY <1>3, <1>4, <2>0, <2>2, <3>1
  <2> QED
    BY <2>1, <2>2
<1>14. InOrder'
  <2> SUFFICES ASSUME NEW i \in 1..Len(lane'), NEW j \in 1..Len(lane'), i < j
               PROVE  /\ lane'[i].does = "attach" /\ lane'[j].does = "attach" => lane'[i].of < lane'[j].of
                      /\ lane'[i].does = "attach" /\ asks'[lane'[i].of].state = obj' =>
                           lane'[j].does = "attach" /\ asks'[lane'[j].of].state = obj'
    BY DEF InOrder, AttachesObj
  <2>1. i \in 1..Len(lane)
    BY <1>4
  <2>2. CASE j = Len(lane')
    <3>1. lane'[i].of < a
      <4>1. lane'[i] = lane[i] /\ lane[i].of <= Len(asks) /\ lane[i].of \in 1..Len(asks)
        BY <1>4, <2>1
      <4> QED
        BY <1>0, <4>1 DEF a
    <3>2. lane'[j].does = "attach" /\ lane'[j].of = a /\ asks'[lane'[j].of].state = obj'
      BY <1>4, <1>9, <2>2
    <3> QED
      BY <3>1, <3>2
  <2>3. CASE j \in 1..Len(lane)
    <3>1. /\ lane[i].does = "attach" /\ lane[j].does = "attach" => lane[i].of < lane[j].of
          /\ obj # 0 /\ AttachesObj(lane[i]) => AttachesObj(lane[j])
      BY <2>1, <2>3 DEF RecordInv, InOrder
    <3>2. obj = 0 => asks[lane[i].of].state # obj'
      <4>1. asks[lane[i].of].state <= lane[i].of /\ lane[i].of <= Len(asks)
            /\ asks[lane[i].of].state \in Nat
        BY <1>4, <1>8, <2>1, RecordTypes
      <4> QED
        BY <1>0, <1>1, <1>4, <2>1, <4>1, RecordTypes DEF a
    <3> QED
      BY <1>1, <1>4, <1>6, <2>1, <2>3, <3>1, <3>2 DEF AttachesObj
  <2> QED
    BY <1>5, <2>2, <2>3
<1>15. LaneOfObj'
  <2>1. ASSUME Attached(joined) # {} \/ OnSock' PROVE obj # 0 /\ obj' = obj
    <3>1. Attached(joined) # {} => obj # 0
      BY <1>7 DEF Attached
    <3>2. OnSock' /\ obj = 0 => FALSE
      BY <1>0, <1>1, <1>n, RecordTypes DEF OnSock, RecordInv, Naming, a
    <3> QED
      BY <1>1, <2>1, <3>1, <3>2
  <2>2. ASSUME Attached(joined) # {}, NEW i \in 1..Len(lane')
        PROVE  lane'[i].does = "attach" /\ asks'[lane'[i].of].state = obj'
    BY <1>4, <1>5, <1>6, <1>9, <2>1, <2>2 DEF RecordInv, LaneOfObj, AttachesObj
  <2>3. ASSUME OnSock', NEW i \in 1..Len(lane')
        PROVE  \/ lane'[i].does = "attach" /\ asks'[lane'[i].of].state = obj'
               \/ i = 1 /\ lane'[1].does = "detach" /\ lane'[1].of = obj'
    <3>1. OnSock /\ obj' = obj
      BY <1>n, <2>1, <2>3 DEF OnSock
    <3> QED
      BY <1>4, <1>5, <1>6, <1>9, <2>3, <3>1 DEF RecordInv, LaneOfObj, AttachesObj, IsDetach
  <2> QED
    BY <1>n, <2>2, <2>3 DEF LaneOfObj, AttachesObj, IsDetach
<1> QED
  BY <1>10, <1>11, <1>12, <1>13, <1>14, <1>15 DEF RecordInv

LEMMA UnsubscribeRecord ==
  ASSUME TypeInv, TypeInv', RecordInv, NEW s \in Subs, Unsubscribe(s)
  PROVE  RecordInv'
<1>1. /\ UNCHANGED <<netVars, asks, states>>
      /\ \A x \in Subs : entry'[x] = IF x = s THEN 0 ELSE entry[x]
      /\ \A x \in Subs : joined'[x] = IF x = s THEN 0 ELSE joined[x]
      /\ entry[s] # 0 /\ obj # 0 /\ obj \in Asked
      /\ IF Attached(entry') = {} THEN obj' = 0 /\ lane' = Append(lane, DetachOf(obj))
                                  ELSE UNCHANGED <<obj, lane>>
  BY RecordTypes DEF Unsubscribe, TypeInv, NamesKept
<1>2. sock' = sock /\ replay' = replay /\ asks' = asks /\ states' = states
  BY <1>1 DEF netVars
<1>3. \A x \in Subs : joined'[x] # 0 => entry'[x] # 0 /\ joined[x] # 0 /\ entry'[x] = entry[x]
  BY <1>1 DEF RecordInv, Joinings
<1>4. Entries'
  BY <1>1, <1>2, EntriesLeave DEF RecordInv
<1>5. CASE Attached(entry') # {}
  <2>1. obj' = obj /\ lane' = lane
    BY <1>1, <1>5
  <2>2. Naming' /\ InOrder'
    BY <1>2, <2>1 DEF RecordInv, Naming, InOrder, AttachesObj
  <2>3. Joinings'
    BY <1>1, <1>2, <1>3, <2>1 DEF RecordInv, Joinings, ObjGen
  <2>4. Queued'
    BY <1>1, <2>1 DEF RecordInv, Queued
  <2>5. LaneOfObj'
    <3>1. Attached(joined') # {} => Attached(joined) # {}
      BY <1>3 DEF Attached
    <3> QED
      BY <1>2, <2>1, <3>1 DEF RecordInv, LaneOfObj, AttachesObj, OnSock
  <2> QED
    BY <1>4, <2>2, <2>3, <2>4, <2>5 DEF RecordInv
<1>6. CASE Attached(entry') = {}
  <2>1. obj' = 0 /\ lane' = Append(lane, [does |-> "detach", of |-> obj])
    BY <1>1, <1>6 DEF DetachOf
  <2>2. /\ Len(lane') = Len(lane) + 1 /\ Len(lane) \in Nat
        /\ \A i \in 1..Len(lane) : lane'[i] = lane[i]
        /\ lane'[Len(lane')].does = "detach" /\ lane'[Len(lane')].of = obj
    BY <1>1, <2>1, AppendedLane, RecordTypes
  <2>3. \A i \in 1..Len(lane') : i \in 1..Len(lane) \/ i = Len(lane')
    BY <2>2
  <2>4. \A x \in Subs : entry'[x] = 0 /\ joined'[x] = 0
    BY <1>3, <1>6 DEF Attached
  <2>5. Joinings' /\ Queued' /\ Attached(joined') = {} /\ ~OnSock'
    BY <2>1, <2>4 DEF Joinings, Queued, Attached, OnSock
  <2>6. LaneOfObj'
    BY <2>5 DEF LaneOfObj
  <2>7. Naming'
    <3>1. \A i \in 1..Len(lane') : lane'[i].of <= Len(asks)
      BY <2>2, <2>3 DEF RecordInv, Naming
    <3> QED
      BY <1>2, <2>1, <3>1, NamingKept DEF RecordInv
  <2>8. InOrder'
    BY <2>1, <2>2, <2>3 DEF RecordInv, InOrder
  <2> QED
    BY <1>4, <2>5, <2>6, <2>7, <2>8 DEF RecordInv
<1> QED
  BY <1>5, <1>6

(* The replay, an exit, a kill: the lane keeps its tasks.                  *)
LEMMA RestoresRecord ==
  ASSUME TypeInv, RecordInv, NEW g \in Gen, ReplayRestores(g), UNCHANGED <<sock, asks, lane>>,
         replay # 0, obj = replay, Attached(joined) # {}, g = ObjGen
  PROVE  RecordInv'
<1>1. /\ UNCHANGED <<entry, joined, obj>> /\ replay' = 0 /\ replay \in Asked
      /\ states' = SetState(replay, g, sock) /\ sock \in Sockets \union {0}
  BY RecordTypes DEF ReplayRestores, ReplayEnds, SetState, TypeInv, ConnTypes
<1>2. \A x \in Asked : /\ states'[x].gen = IF x = replay THEN g ELSE states[x].gen
                       /\ states'[x].on = IF x = replay THEN sock ELSE states[x].on
  BY <1>1, SetOn
<1>3. ObjGen' = ObjGen /\ replay <= Len(asks)
  BY <1>1, <1>2 DEF ObjGen, RecordInv, Naming
<1>4. Naming'
  BY <1>1, <1>2, <1>3, NamingKept DEF RecordInv, Naming
<1>5. Entries' /\ Joinings' /\ Queued' /\ InOrder'
  BY <1>1, <1>3 DEF RecordInv, Entries, Joinings, Queued, InOrder, AttachesObj, Attached
<1>6. LaneOfObj'
  BY <1>1 DEF RecordInv, LaneOfObj, AttachesObj, Attached
<1> QED
  BY <1>4, <1>5, <1>6 DEF RecordInv

(* The state object is forgotten with all its entries. *)
LEMMA ForgottenRecord ==
  ASSUME TypeInv, TypeInv', RecordInv, UNCHANGED <<asks, lane>>, obj' = 0,
         \A s \in Subs : entry'[s] = 0 /\ joined'[s] = 0,
         \A o \in Asked : states'[o].on \in {states[o].on, 0}, replay' \in {replay, 0}
  PROVE  RecordInv'
<1>1. Attached(joined') = {} /\ ~OnSock'
  BY DEF Attached, OnSock
<1>2. Naming'
  BY NamingKept DEF RecordInv, Naming
<1>3. Entries' /\ Joinings' /\ Queued' /\ LaneOfObj'
  BY <1>1 DEF Entries, Joinings, Queued, LaneOfObj
<1>4. InOrder'
  BY DEF RecordInv, InOrder
<1> QED
  BY <1>2, <1>3, <1>4 DEF RecordInv

(* Or it stays, with the entries of those who were not attached. *)
LEMMA LeftRecord ==
  ASSUME TypeInv, TypeInv', RecordInv, UNCHANGED <<asks, lane, obj, sock>>, Attached(entry') # {},
         \A s \in Subs : joined'[s] = 0 /\ entry'[s] = IF joined[s] # 0 THEN 0 ELSE entry[s],
         \A o \in Asked : states'[o].on \in {states[o].on, 0}, replay' \in {replay, 0}
  PROVE  RecordInv'
<1>1. Attached(joined') = {} /\ (OnSock' => OnSock)
  BY RecordTypes DEF Attached, OnSock
<1>2. Naming' /\ Entries'
  BY NamingKept, EntriesLeave DEF RecordInv, Naming
<1>3. Joinings' /\ Queued'
  BY DEF RecordInv, Joinings, Queued
<1>4. InOrder'
  BY DEF RecordInv, InOrder, AttachesObj
<1>5. LaneOfObj'
  BY <1>1 DEF RecordInv, LaneOfObj, AttachesObj
<1> QED
  BY <1>2, <1>3, <1>4, <1>5 DEF RecordInv

(* A state object that is not the current one is forgotten. *)
LEMMA OthersRecord ==
  ASSUME TypeInv, RecordInv, UNCHANGED <<asks, entry, joined, obj, lane, sock>>, replay' \in {replay, 0},
         obj # 0 => ObjGen' = ObjGen, \A o \in Asked : states'[o].on \in {states[o].on, 0}
  PROVE  RecordInv'
<1>1. OnSock' => OnSock
  BY RecordTypes DEF OnSock
<1>2. Naming'
  BY NamingKept DEF RecordInv, Naming
<1>3. \A s \in Subs : joined[s] # 0 => obj # 0
  BY DEF RecordInv, Joinings, TypeInv, NamesKept
<1>4. Entries' /\ Joinings' /\ Queued' /\ InOrder'
  BY <1>3 DEF RecordInv, Entries, Joinings, Queued, InOrder, AttachesObj, Attached
<1>5. LaneOfObj'
  BY <1>1 DEF RecordInv, LaneOfObj, AttachesObj, Attached
<1> QED
  BY <1>2, <1>4, <1>5 DEF RecordInv

-----------------------------------------------------------------------------
(* 3. The parties of the client: what each awaits, and who else can touch  *)
(* it.                                                                     *)

(* The client drops its connection. *)
Drops ==
  /\ sock # 0 => sock' = 0
  /\ sock' = 0 /\ replay' = 0 /\ down' = <<>>
  /\ UNCHANGED <<tried, up, attachVars, token, barrier, op, plans, dropped, open, host>>
  /\ \A w \in Who : pend'[w] = Dropped[w] \/ (w = "kill" /\ pend'[w] = Awaits(NoRequest))

Acts(w) ==
  \/ Resend(w) \/ Write(w)
  \/ w = "lane" /\ LaneSteps
  \/ w = "kill" /\ (KillSteps \/ \E mode \in Modes : Kill(mode))
  \/ w = "replay" /\ ReplayAnswered

LEMMA KillDrops ==
  ASSUME TypeInv, KillRefused \/ KillLost
  PROVE  \/ Drops
         \/ /\ UNCHANGED <<sock, tried, replay, up, attachVars, token, barrier, op, plans, dropped, open, host>>
            /\ pend' = [pend EXCEPT !["kill"] = Idle]
            /\ KillRefused => down' = Tail(down)
            /\ KillLost => down' = down
<1> DEFINE D == Dropped
<1>1. D \in [Who -> Pending]
  BY DroppedTypes DEF TypeInv, ConnTypes
<1>2. CASE killing.attempt < Attempts
  <2>1. /\ DropSocket /\ pend' = [D EXCEPT !["kill"] = Awaits(NoRequest)]
        /\ UNCHANGED <<tried, up, attachVars, token, barrier, op, plans, dropped, open, host>>
    BY <1>2 DEF KillRefused, KillLost, AttemptFails
  <2> HIDE DEF D
  <2>2. \A w \in Who : pend'[w] = D[w] \/ (w = "kill" /\ pend'[w] = Awaits(NoRequest))
    BY <1>1, <2>1
  <2> QED
    BY <2>1, <2>2 DEF Drops, DropSocket, D
<1>3. CASE ~(killing.attempt < Attempts)
  BY <1>3 DEF KillRefused, KillLost, AttemptFails
<1> QED
  BY <1>2, <1>3

LEMMA Bystanders ==
  ASSUME TypeInv, Next
  PROVE  \/ Drops \/ Connect \/ ConnectFails
         \/ /\ sock' = sock /\ tried' = tried /\ replay' \in {replay, 0}
            /\ replay' # replay => ReplayAnswered
            /\ \A w \in Who : pend'[w] = pend[w] \/ Acts(w)
<1>0. pend \in [Who -> Pending]
  BY DEF TypeInv, ConnTypes
<1> DEFINE Stays == /\ sock' = sock /\ tried' = tried /\ replay' \in {replay, 0}
                    /\ replay' # replay => ReplayAnswered
                    /\ \A w \in Who : pend'[w] = pend[w] \/ Acts(w)
<1>1. ASSUME LaneSteps PROVE Stays
  <2>1. sock' = sock /\ tried' = tried /\ replay' = replay
    BY <1>1 DEF LaneSteps, AttachBegins, AttachAsks, AttachAnswered, AttachLost, DetachBegins,
       DetachAnswered, DetachLost
  <2>2. \A w \in Who : w # "lane" => pend'[w] = pend[w]
    <3>1. CASE AttachBegins \/ AttachAsks \/ DetachBegins \/ DetachAnswered \/ DetachLost
      BY <1>0, <3>1 DEF AttachBegins, AttachAsks, DetachBegins, DetachAnswered, DetachLost, TaskEnds
    <3>2. ASSUME NEW a, AttachFails(a) PROVE pend' = [pend EXCEPT !["lane"] = Idle]
      BY <3>2 DEF AttachFails, TaskEnds, TaskDetaches
    <3>3. ASSUME NEW a, NEW g, AttachSucceeds(a, g) PROVE pend' = [pend EXCEPT !["lane"] = Idle]
      BY <3>3 DEF AttachSucceeds, TaskEnds, TaskDetaches
    <3>4. CASE AttachAnswered
      BY <1>0, <3>2, <3>3, <3>4 DEF AttachAnswered
    <3>5. CASE AttachLost
      BY <1>0, <3>2, <3>5 DEF AttachLost
    <3> QED
      BY <1>1, <3>1, <3>4, <3>5 DEF LaneSteps
  <2> QED
    BY <1>1, <2>1, <2>2 DEF Acts
<1>2. ASSUME KillSteps, ~Drops PROVE Stays
  <2>1. sock' = sock /\ tried' = tried /\ replay' = replay /\ \E p : pend' = [pend EXCEPT !["kill"] = p]
    <3>1. CASE KillRefused \/ KillLost
      BY <1>2, <3>1, KillDrops
    <3>2. CASE ~(KillRefused \/ KillLost)
      BY <1>2, <3>2 DEF KillSteps, KillPrepares, KillProbed, KillNotPrepared, KillRetries, KillConfirmed, Sends
    <3> QED
      BY <3>1, <3>2
  <2> QED
    BY <1>0, <1>2, <2>1 DEF Acts
<1>3. ASSUME NEW w \in Who, Resend(w) \/ Write(w) PROVE Stays
  <2>1. sock' = sock /\ tried' = tried /\ replay' = replay /\ \E p : pend' = [pend EXCEPT ![w] = p]
    BY <1>3 DEF Resend, Write
  <2> QED
    BY <1>0, <1>3, <2>1 DEF Acts
<1>4. ASSUME ReplayAnswered PROVE Stays
  <2>1. /\ sock' = sock /\ tried' = tried /\ replay' \in {replay, 0}
        /\ \E p : pend' = [pend EXCEPT !["replay"] = p]
    BY <1>4 DEF ReplayAnswered, ReplayEnds, ReplayRefused, ReplayIsStale, ReplayRestores
  <2> QED
    BY <1>0, <1>4, <2>1 DEF Acts
<1>5. ASSUME ExitArrives \/ HostSteps PROVE Stays
  BY <1>5, HostLeavesClient DEF ExitArrives
<1>6. ASSUME NEW mode \in Modes, Kill(mode) PROVE Stays
  BY <1>0, <1>6 DEF Kill, Acts
<1>7. ASSUME World, ~\E mode \in Modes : Kill(mode), ~ConnectFails PROVE Drops \/ Stays
  <2>1. Breaks => Drops
    BY DEF Breaks, Drops, DropSocket, killVars
  <2> QED
    BY <1>7, <2>1 DEF World, Unsubscribe, Attach, Ends, TerminationFails, RivalCreates, LeaseExpires, netVars
<1> HIDE DEF Stays
<1>8. SocketSteps => Stays \/ Connect
  BY <1>3, <1>4, <1>5 DEF SocketSteps
<1>9. Stays \/ Drops \/ Connect \/ ConnectFails
  BY <1>1, <1>2, <1>5, <1>6, <1>7, <1>8 DEF Next
<1> QED
  BY <1>9 DEF Stays

LEMMA TaskOver ==
  ASSUME TypeInv, AttachAnswered \/ DetachAnswered \/ DetachLost
  PROVE  task' = NoTask /\ pend'["lane"] = Idle
<1>0. pend \in [Who -> Pending] /\ "lane" \in Who
  BY DEF TypeInv, ConnTypes, Who
<1>1. ASSUME NEW a, AttachFails(a) PROVE task' = NoTask /\ pend'["lane"] = Idle
  BY <1>0, <1>1 DEF AttachFails, TaskEnds, TaskDetaches
<1>2. ASSUME NEW a, NEW g, AttachSucceeds(a, g) PROVE task' = NoTask /\ pend'["lane"] = Idle
  BY <1>0, <1>2 DEF AttachSucceeds, TaskEnds, TaskDetaches
<1>3. CASE AttachAnswered
  BY <1>1, <1>2, <1>3 DEF AttachAnswered
<1> QED
  BY <1>0, <1>3 DEF DetachAnswered, DetachLost, TaskEnds

(* What a step of the task makes of what it awaits. *)
LEMMA LaneTurns ==
  ASSUME TypeInv, NetInv, LaneSteps
  PROVE  /\ pend'["lane"].st \in {"none", "await", "unsent"}
         /\ task'.on => task'.on /\ pend'["lane"].st # "none" /\ lane' = lane /\ lane # <<>>
         /\ pend["lane"].st = "sent" => Hears("lane") /\ down' = Tail(down)
         /\ down' # down => Hears("lane") /\ down' = Tail(down)
         /\ Runs("attach")' => \/ pend'["lane"] = Awaits(NoRequest)
                               \/ AttachAsks
                               \/ pend'["lane"] = Awaits(LaneReq) /\ Runs("attach")
         /\ Runs("detach")' => DetachBegins /\ pend'["lane"] = Unsent(Request("detach", 0, 0))
<1>0. pend \in [Who -> Pending] /\ "lane" \in Who /\ down \in Seq(Frames)
  BY DEF TypeInv, ConnTypes, Who
<1>1. ~task.on => pend["lane"].st = "none"
  BY WhatIsAsked DEF NetInv, IdleWithout
<1>2. NoTask.on = FALSE /\ [NoTask EXCEPT !.on = TRUE].on = TRUE
  BY DEF NoTask
<1>3. CASE AttachBegins
  <2>1. down' = down /\ ~task.on /\ lane # <<>> /\ Head(lane).does = "attach"
    BY <1>3 DEF AttachBegins, Turn
  <2>2. \/ task' = [NoTask EXCEPT !.on = TRUE] /\ pend'["lane"] = Awaits(NoRequest) /\ lane' = lane
        \/ task' = NoTask /\ pend'["lane"] = Idle
    BY <1>0, <1>3 DEF AttachBegins, TaskEnds
  <2> QED
    BY <1>1, <1>2, <2>1, <2>2, WhatIsAsked DEF Runs
<1>4. CASE AttachAsks
  <2>1. down' = down /\ pend["lane"] = Awaits(NoRequest) /\ Runs("attach") /\ task'.on /\ lane' = lane
    BY <1>4 DEF AttachAsks
  <2>2. \E r : pend'["lane"] = Unsent(r)
    BY <1>0, <1>4 DEF AttachAsks
  <2> QED
    BY <1>1, <1>4, <2>1, <2>2, WhatIsAsked DEF Runs
<1>5. CASE AttachAnswered
  <2>1. task' = NoTask /\ pend'["lane"] = Idle
    BY <1>5, TaskOver
  <2>2. Hears("lane") /\ down' = Tail(down)
    BY <1>5 DEF AttachAnswered
  <2> QED
    BY <1>2, <2>1, <2>2, WhatIsAsked DEF Runs
<1>6. CASE AttachLost
  <2>1. pend["lane"].st = "lost" /\ down' = down /\ Runs("attach")
    BY <1>6 DEF AttachLost
  <2>2. CASE task.tries > 1
    <3>1. task' = [task EXCEPT !.tries = @ - 1] /\ pend'["lane"] = Awaits(LaneReq) /\ lane' = lane
      BY <1>0, <1>6, <2>2 DEF AttachLost, LaneReq
    <3>2. task'.on = task.on
      BY <3>1 DEF TypeInv, ViewTypes
    <3> QED
      BY <2>1, <3>1, <3>2, WhatIsAsked DEF Runs
  <2>3. CASE ~(task.tries > 1)
    <3>1. task' = NoTask /\ pend'["lane"] = Idle
      BY <1>0, <1>6, <2>3 DEF AttachLost, AttachFails, TaskEnds, TaskDetaches
    <3> QED
      BY <1>2, <2>1, <3>1, WhatIsAsked DEF Runs
  <2> QED
    BY <2>2, <2>3
<1>7. CASE DetachBegins
  <2>1. down' = down /\ ~task.on /\ lane # <<>> /\ Head(lane).does = "detach"
    BY <1>7 DEF DetachBegins, Turn
  <2>2. \/ /\ task' = [NoTask EXCEPT !.on = TRUE] /\ lane' = lane
           /\ pend'["lane"] = Unsent(Request("detach", 0, 0))
        \/ task' = NoTask /\ pend'["lane"] = Idle
    BY <1>0, <1>7 DEF DetachBegins, TaskEnds
  <2> QED
    BY <1>1, <1>2, <1>7, <2>1, <2>2, WhatIsAsked DEF Runs
<1>8. CASE DetachAnswered \/ DetachLost
  <2>1. task' = NoTask /\ pend'["lane"] = Idle
    BY <1>8, TaskOver
  <2>2. (Hears("lane") /\ down' = Tail(down)) \/ (pend["lane"].st = "lost" /\ down' = down)
    BY <1>8 DEF DetachAnswered, DetachLost
  <2> QED
    BY <1>2, <2>1, <2>2, WhatIsAsked DEF Runs
<1> QED
  BY <1>3, <1>4, <1>5, <1>6, <1>7, <1>8 DEF LaneSteps

LEMMA KillTurns ==
  ASSUME TypeInv, NetInv, KillSteps \/ \E mode \in Modes : Kill(mode), ~Drops
  PROVE  /\ pend'["kill"].st \in {"none", "await", "unsent"}
         /\ pend["kill"].st = "sent" => Hears("kill") /\ down' = Tail(down)
         /\ pend'["kill"].st = "unsent" => Ready \/ pend["kill"].st = "sent"
         /\ down' # down => Hears("kill") /\ down' = Tail(down)
         /\ UNCHANGED <<up, sock>>
<1>0. pend \in [Who -> Pending] /\ "kill" \in Who
  BY DEF TypeInv, ConnTypes, Who
<1>1. CASE KillPrepares \/ KillRetries
  <2>1. /\ pend["kill"] = Awaits(NoRequest) /\ down' = down /\ up' = up /\ sock' = sock /\ Ready
        /\ \E r : pend'["kill"] = Unsent(r)
    BY <1>0, <1>1 DEF KillPrepares, KillRetries, Sends
  <2> QED
    BY <2>1, WhatIsAsked
<1>2. CASE KillProbed
  <2>1. /\ Hears("kill") /\ down' = Tail(down) /\ up' = up /\ sock' = sock
        /\ \E r : pend'["kill"] = Unsent(r)
    BY <1>0, <1>2 DEF KillProbed, Sends
  <2>2. pend["kill"].st = "sent"
    BY <2>1, NoKillComing DEF Hears, TypeInv, ConnTypes
  <2> QED
    BY <2>1, <2>2, WhatIsAsked
<1>3. CASE KillNotPrepared \/ KillConfirmed \/ KillRefused \/ KillLost
  <2>1. pend' = [pend EXCEPT !["kill"] = Idle] /\ up' = up /\ sock' = sock
    BY <1>3, KillDrops DEF KillNotPrepared, KillConfirmed
  <2>2. \/ Hears("kill") /\ down' = Tail(down)
        \/ pend["kill"].st = "lost" /\ down' = down
    BY <1>3, KillDrops DEF KillNotPrepared, KillConfirmed, KillRefused, KillLost
  <2> QED
    BY <1>0, <2>1, <2>2, WhatIsAsked
<1>4. ASSUME NEW mode \in Modes, Kill(mode)
      PROVE  /\ pend'["kill"] = Awaits(NoRequest) /\ killing = NotKilling /\ down' = down
             /\ up' = up /\ sock' = sock
  BY <1>0, <1>4 DEF Kill
<1>5. killing = NotKilling => pend["kill"].st = "none"
  BY WhatIsAsked DEF NetInv, IdleWithout, NotKilling
<1> QED
  BY <1>1, <1>2, <1>3, <1>4, <1>5, WhatIsAsked DEF KillSteps

Outcome(w) ==
  /\ sock' = sock /\ tried' = tried /\ replay' \in {replay, 0}
  /\ replay' # replay => ReplayAnswered
  /\ \/ pend'[w] = pend[w]
     \/ /\ Acts(w) /\ ~Drops
        /\ pend'[w].st # "lost"
        /\ pend[w].st = "sent" => Hears(w) /\ down' = Tail(down)

LEMMA Outcomes ==
  ASSUME TypeInv, NetInv, Next, NEW w \in Who
  PROVE  \/ Drops \/ Connect \/ ConnectFails \/ Outcome(w)
<1>0. pend \in [Who -> Pending] /\ "lane" \in Who /\ "kill" \in Who /\ "replay" \in Who
  BY DEF TypeInv, ConnTypes, Who
<1> SUFFICES ASSUME ~Drops, ~Connect, ~ConnectFails PROVE Outcome(w)
  OBVIOUS
<1>1. /\ sock' = sock /\ tried' = tried /\ replay' \in {replay, 0}
      /\ replay' # replay => ReplayAnswered
      /\ pend'[w] = pend[w] \/ Acts(w)
  BY Bystanders
<1>2. ASSUME Resend(w) \/ Write(w) PROVE pend'[w].st # "lost" /\ pend[w].st # "sent"
  <2>1. CASE Resend(w)
    BY <1>0, <2>1, WhatIsAsked DEF Resend
  <2>2. CASE Write(w)
    <3>1. pend' = [pend EXCEPT ![w].st = "sent"] /\ pend[w].st = "unsent" /\ pend[w] \in Pending
      BY <1>0, <2>2 DEF Write
    <3>2. pend'[w].st = "sent"
      BY <1>0, <3>1 DEF Pending
    <3> QED
      BY <3>1, <3>2
  <2> QED
    BY <1>2, <2>1, <2>2
<1>3. ASSUME ReplayAnswered
      PROVE  pend'["replay"].st # "lost" /\ Hears("replay") /\ down' = Tail(down)
  <2>1. \/ pend' = [pend EXCEPT !["replay"] = Idle]
        \/ pend' = [pend EXCEPT !["replay"] = Unsent(Request("detach", 0, 0))]
    BY <1>3 DEF ReplayAnswered, ReplayEnds, ReplayRefused, ReplayIsStale, ReplayRestores
  <2>2. Hears("replay") /\ down' = Tail(down)
    BY <1>3 DEF ReplayAnswered
  <2> QED
    BY <1>0, <2>1, <2>2, WhatIsAsked
<1>4. ASSUME Acts(w), w = "lane", ~Resend(w), ~Write(w)
      PROVE  pend'[w].st # "lost" /\ (pend[w].st = "sent" => Hears(w) /\ down' = Tail(down))
  BY <1>4, LaneTurns DEF Acts
<1>5. ASSUME Acts(w), w = "kill", ~Resend(w), ~Write(w)
      PROVE  pend'[w].st # "lost" /\ (pend[w].st = "sent" => Hears(w) /\ down' = Tail(down))
  BY <1>5, KillTurns DEF Acts
<1>6. ASSUME Acts(w), w = "replay", ~Resend(w), ~Write(w)
      PROVE  pend'[w].st # "lost" /\ (pend[w].st = "sent" => Hears(w) /\ down' = Tail(down))
  BY <1>3, <1>6 DEF Acts
<1> QED
  BY <1>1, <1>2, <1>4, <1>5, <1>6 DEF Outcome, Who

LEMMA ConnectIs ==
  ASSUME TypeInv, Connect
  PROVE  /\ sock = 0 /\ sock' = tried + 1 /\ tried' = tried + 1 /\ Settled
         /\ UNCHANGED <<up, down, asks, entry, joined, obj, states, lane, task, seen, host>>
         /\ UNCHANGED <<barrier, token, op, plans, killing, dropped, dead, meant>>
         /\ \A w \in Who : w # "replay" => pend'[w] = pend[w]
         /\ \/ /\ Replays /\ replay' = obj
               /\ pend'["replay"] = Unsent(Request("existing", 0, Known(obj)))
            \/ ~Replays /\ replay' = 0 /\ pend' = pend
<1>0. pend \in [Who -> Pending] /\ "replay" \in Who
  BY DEF TypeInv, ConnTypes, Who
<1>1. pend' = IF Replays THEN [pend EXCEPT !["replay"] = Unsent(Request("existing", 0, Known(obj)))]
                         ELSE pend
  BY DEF Connect
<1>2. \A w \in Who : w # "replay" => pend'[w] = pend[w]
  BY <1>0, <1>1
<1>3. \/ /\ Replays /\ replay' = obj
         /\ pend'["replay"] = Unsent(Request("existing", 0, Known(obj)))
      \/ ~Replays /\ replay' = 0 /\ pend' = pend
  BY <1>0, <1>1 DEF Connect
<1> QED
  BY <1>2, <1>3 DEF Connect, attachVars, killVars

LEMMA ConnectFailsIs ==
  ASSUME TypeInv, ConnectFails
  PROVE  /\ sock = 0 /\ sock' = 0
         /\ UNCHANGED <<tried, replay, up, down, asks, entry, joined, obj, states, lane, task, seen, host>>
         /\ UNCHANGED <<barrier, token, op, plans, killing, dropped, dead, meant>>
         /\ \A w \in Who : pend'[w] = IF pend[w].st = "await" THEN Loses(w) ELSE pend[w]
BY DEF ConnectFails, attachVars, killVars

LEMMA DroppedIs ==
  ASSUME TypeInv, NEW w \in Who, w # "replay"
  PROVE  /\ pend[w].st = "none" => Dropped[w] = Idle
         /\ pend[w].st # "none" => Dropped[w].req = pend[w].req /\ Dropped[w].st \in {"await", "lost"}
         /\ pend[w].st \in {"lost", "sent"} => Dropped[w].st = "lost"
         /\ pend[w].st \in {"unsent", "sent", "lost"} /\ pend[w].req.cmd = "detach" => Dropped[w].st = "lost"
<1>1. pend[w] \in Pending
  BY DEF TypeInv, ConnTypes
<1>2. Loses(w).st = "lost" /\ Loses(w).req = pend[w].req
  BY <1>1 DEF Loses, Pending
<1>3. Dropped[w] = CASE pend[w].st = "none" -> Idle
                     [] pend[w].st = "await" /\ replay = 0 -> pend[w]
                     [] pend[w].st = "unsent" /\ pend[w].req.cmd # "detach" -> Awaits(pend[w].req)
                     [] OTHER -> Loses(w)
  BY DEF Dropped
<1>4. CASE pend[w].st = "none"
  BY <1>3, <1>4
<1>5. CASE pend[w].st = "await" /\ replay = 0
  BY <1>3, <1>5
<1>6. CASE pend[w].st = "unsent" /\ pend[w].req.cmd # "detach"
  BY <1>3, <1>6, WhatIsAsked
<1>7. CASE ~(pend[w].st = "none") /\ ~(pend[w].st = "await" /\ replay = 0)
           /\ ~(pend[w].st = "unsent" /\ pend[w].req.cmd # "detach")
  <2>1. Dropped[w] = Loses(w)
    BY <1>3, <1>7
  <2> QED
    BY <1>2, <1>7, <2>1
<1> QED
  BY <1>4, <1>5, <1>6, <1>7

(* Who does not touch the lane leaves its task where it is. *)
LEMMA TaskStays ==
  ASSUME TypeInv, TaskAsks, Next, ~LaneSteps
  PROVE  /\ task' = task
         /\ lane # <<>> => lane' # <<>> /\ Head(lane') = Head(lane)
         /\ task.on => lane # <<>>
         /\ \A i \in 1..Len(asks) : asks'[i] = asks[i]
<1>0. lane \in Seq(Job) /\ asks \in Seq(Ask)
  BY RecordTypes
<1>1. task' = task /\ (lane' = lane \/ \E s \in Subs : Unsubscribe(s) \/ \E create \in BOOLEAN : Attach(s, create))
      /\ (asks' = asks \/ \E s \in Subs : \E create \in BOOLEAN : Attach(s, create))
  <2>1. CASE KillSteps
    BY <2>1 DEF KillSteps, KillPrepares, KillProbed, KillNotPrepared, KillRetries, KillConfirmed,
       KillRefused, KillLost, AttemptFails, attachVars
  <2>2. CASE SocketSteps
    BY <2>2 DEF SocketSteps, Connect, Resend, Write, ReplayAnswered, ExitArrives, attachVars
  <2>3. CASE HostSteps
    BY <2>3, HostLeavesClient DEF attachVars
  <2>4. CASE World
    BY <2>4 DEF World, Unsubscribe, Attach, Kill, Breaks, ConnectFails, Ends, TerminationFails,
       RivalCreates, LeaseExpires, attachVars
  <2> QED
    BY <2>1, <2>2, <2>3, <2>4 DEF Next
<1>2. lane' = lane \/ \E e : lane' = Append(lane, e)
  BY <1>1 DEF Unsubscribe, Attach
<1>3. asks' = asks \/ \E e : asks' = Append(asks, e)
  BY <1>1 DEF Attach
<1>4. lane # <<>> => lane' # <<>> /\ Head(lane') = Head(lane)
  BY <1>0, <1>2
<1>5. \A i \in 1..Len(asks) : asks'[i] = asks[i]
  BY <1>0, <1>3
<1> QED
  BY <1>1, <1>4, <1>5 DEF TaskAsks

LEMMA WriteIs ==
  ASSUME TypeInv, NEW w \in Who, Write(w)
  PROVE  /\ pend[w].st = "unsent" /\ pend'[w].st = "sent" /\ pend'[w].req = pend[w].req
         /\ \A v \in Who : v # w => pend'[v] = pend[v]
         /\ up' = [up EXCEPT ![sock] = Append(@, [who |-> w, req |-> pend[w].req])]
         /\ UNCHANGED <<sock, tried, replay, down, asks, entry, joined, obj, states, lane, task, seen, host>>
         /\ UNCHANGED <<barrier, token, op, plans, killing, dropped>>
<1>1. pend \in [Who -> Pending] /\ pend[w] \in Pending
  BY DEF TypeInv, ConnTypes
<1>2. pend' = [pend EXCEPT ![w].st = "sent"] /\ pend[w].st = "unsent"
  BY DEF Write
<1>3. pend'[w] = [pend[w] EXCEPT !.st = "sent"] /\ \A v \in Who : v # w => pend'[v] = pend[v]
  BY <1>1, <1>2
<1>4. pend'[w].st = "sent" /\ pend'[w].req = pend[w].req
  BY <1>1, <1>3 DEF Pending
<1> QED
  BY <1>2, <1>3, <1>4 DEF Write, attachVars, killVars

LEMMA ResendIs ==
  ASSUME TypeInv, NEW w \in Who, Resend(w)
  PROVE  /\ pend[w].st = "await" /\ pend[w].req # NoRequest /\ Ready
         /\ pend'[w] = Unsent(pend[w].req)
         /\ \A v \in Who : v # w => pend'[v] = pend[v]
         /\ UNCHANGED <<sock, tried, replay, up, down, asks, entry, joined, obj, states, lane, task, seen, host>>
         /\ UNCHANGED <<barrier, token, op, plans, killing, dropped>>
<1>1. pend \in [Who -> Pending]
  BY DEF TypeInv, ConnTypes
<1> QED
  BY <1>1 DEF Resend, attachVars, killVars

(* What the lane awaits changes by itself only so far. *)
LEMMA LanePend ==
  ASSUME TypeInv, NetInv, TaskAsks, Next, ~LaneSteps
  PROVE  /\ pend["lane"].st = "none" => pend'["lane"] \in {Idle, pend["lane"]}
         /\ pend["lane"].st # "none" => pend'["lane"].st # "none" /\ pend'["lane"].req = LaneReq
         /\ LaneReq = NoRequest /\ pend["lane"].st \in {"await", "lost"} => pend'["lane"].st \in {"await", "lost"}
         /\ LaneReq.cmd = "detach" /\ pend["lane"].st \in {"unsent", "sent", "lost"} =>
              pend'["lane"].st \in {"unsent", "sent", "lost"}
<1>0. "lane" \in Who /\ pend["lane"] \in Pending
  BY DEF TypeInv, ConnTypes, Who
<1>1. CASE Drops
  <2>1. pend'["lane"] = Dropped["lane"]
    BY <1>0, <1>1 DEF Drops
  <2>2. pend["lane"].st \in {"none", "await", "unsent", "sent", "lost"}
    BY <1>0 DEF Pending
  <2> QED
    BY <1>0, <2>1, <2>2, DroppedIs DEF LaneReq
<1>2. CASE Connect
  <2>1. pend'["lane"] = pend["lane"]
    BY <1>0, <1>2, ConnectIs
  <2> QED
    BY <2>1 DEF LaneReq
<1>3. CASE ConnectFails
  <2>1. pend'["lane"] = pend["lane"] \/ (pend["lane"].st = "await" /\ pend'["lane"] = Loses("lane"))
    BY <1>0, <1>3, ConnectFailsIs
  <2>2. Loses("lane").st = "lost" /\ Loses("lane").req = LaneReq
    BY <1>0 DEF Loses, Pending, LaneReq
  <2> QED
    BY <2>1, <2>2 DEF LaneReq
<1>4. CASE Outcome("lane")
  <2>1. CASE pend'["lane"] = pend["lane"]
    BY <2>1 DEF LaneReq
  <2>2. CASE Resend("lane")
    <3>1. pend["lane"].st = "await" /\ LaneReq # NoRequest /\ pend'["lane"] = Unsent(LaneReq)
      BY <1>0, <2>2, ResendIs DEF LaneReq
    <3> QED
      BY <3>1, WhatIsAsked
  <2>3. CASE Write("lane")
    <3>1. pend["lane"].st = "unsent" /\ pend'["lane"].st = "sent" /\ pend'["lane"].req = LaneReq
      BY <1>0, <2>3, WriteIs DEF LaneReq
    <3> QED
      BY <3>1
  <2> QED
    BY <1>4, <2>1, <2>2, <2>3 DEF Outcome, Acts
<1> QED
  BY <1>0, <1>1, <1>2, <1>3, <1>4, Outcomes

LEMMA TaskAsksStep ==
  ASSUME TypeInv, NetInv, TaskAsks, Next
  PROVE  TaskAsks'
<1>1. CASE LaneSteps
  <2>1. /\ task'.on => pend'["lane"].st # "none" /\ lane' # <<>>
        /\ Runs("attach")' => \/ pend'["lane"] = Awaits(NoRequest)
                              \/ AttachAsks
                              \/ pend'["lane"] = Awaits(LaneReq) /\ Runs("attach")
        /\ Runs("detach")' => pend'["lane"] = Unsent(Request("detach", 0, 0))
    BY <1>1, LaneTurns
  <2>2. AttachAsks => pend'["lane"].req.cmd \in {"attach", "existing"}
    <3>1. ASSUME AttachAsks PROVE \E g, t : \/ pend'["lane"] = Unsent(Request("existing", 0, g))
                                            \/ pend'["lane"] = Unsent(Request("attach", t, 0))
      BY <3>1 DEF AttachAsks, TypeInv, ConnTypes, Who
    <3> QED
      BY <3>1, WhatIsAsked
  <2>3. Runs("attach") => LaneReq = NoRequest \/ LaneReq.cmd \in {"attach", "existing"}
    BY DEF TaskAsks
  <2>4. Runs("attach")' => \/ LaneReq' = NoRequest /\ pend'["lane"].st = "await"
                           \/ LaneReq'.cmd \in {"attach", "existing"}
    BY <2>1, <2>2, <2>3, WhatIsAsked DEF LaneReq
  <2>5. Runs("detach")' => LaneReq'.cmd = "detach" /\ pend'["lane"].st = "unsent"
    BY <2>1, WhatIsAsked DEF LaneReq
  <2> QED
    BY <2>1, <2>4, <2>5 DEF TaskAsks
<1>2. CASE ~LaneSteps
  <2>1. /\ task' = task /\ (task.on => lane # <<>>)
        /\ lane # <<>> => lane' # <<>> /\ Head(lane') = Head(lane)
    BY <1>2, TaskStays
  <2>2. task.on => pend["lane"].st # "none"
    BY DEF TaskAsks
  <2>3. /\ Runs("attach")' => Runs("attach")
        /\ Runs("detach")' => Runs("detach")
    BY <2>1 DEF Runs
  <2>4. task.on => pend'["lane"].st # "none" /\ LaneReq' = LaneReq
    BY <1>2, <2>2, LanePend DEF LaneReq
  <2>5. Runs("attach")' => \/ LaneReq' = NoRequest /\ pend'["lane"].st \in {"await", "lost"}
                           \/ LaneReq'.cmd \in {"attach", "existing"}
    BY <1>2, <2>3, <2>4, LanePend DEF TaskAsks, Runs
  <2>6. Runs("detach")' => LaneReq'.cmd = "detach" /\ pend'["lane"].st \in {"unsent", "sent", "lost"}
    BY <1>2, <2>3, <2>4, LanePend DEF TaskAsks, Runs
  <2> QED
    BY <2>1, <2>4, <2>5, <2>6 DEF TaskAsks
<1> QED
  BY <1>1, <1>2

(* What is on its way, and who awaits it. *)
LEMMA NoneOf ==
  ASSUME TypeInv, NetInv, NEW w \in Who, pend[w].st # "sent"
  PROVE  /\ \A i \in 1..Len(down) : down[i].who # w
         /\ sock # 0 => \A i \in 1..Len(up[sock]) : up[sock][i].who # w
<1>1. CASE sock = 0
  BY <1>1 DEF NetInv, Quieted
<1>2. CASE sock # 0
  <2>1. sock \in Sockets /\ up[sock] \in Seq(Posted) /\ down \in Seq(Frames)
    BY <1>2 DEF TypeInv, ConnTypes
  <2>2. Carries(up[sock], w) + Carries(down, w) = 0
    BY <1>2, <2>1, ComingIs DEF NetInv, OneAnswerEach
  <2> QED
    BY <2>1, <2>2, NoneComing
<1> QED
  BY <1>1, <1>2

LEMMA SomeOf ==
  ASSUME TypeInv, NetInv, sock # 0, NEW i \in 1..Len(up[sock])
  PROVE  /\ up[sock][i].who \in Who /\ pend[up[sock][i].who].st = "sent"
         /\ up[sock][i] \in Posted
<1>1. up[sock] \in Seq(Posted)
  BY DEF TypeInv, ConnTypes
<1>2. up[sock][i] \in Posted
  BY <1>1
<1>3. up[sock][i].who \in Who
  BY <1>2 DEF Posted
<1> QED
  BY <1>2, <1>3, NoneOf

LEMMA SentOut ==
  ASSUME TypeInv, NetInv, NEW i \in 1..Len(down), down[i].who \in Who
  PROVE  pend[down[i].who].st = "sent" /\ sock # 0
<1>1. pend[down[i].who].st = "sent"
  BY NoneOf
<1> QED
  BY <1>1 DEF NetInv, Quieted

(* An answer is the only one, and its request is no longer on its way. *)
LEMMA OneWay ==
  ASSUME TypeInv, NetInv, sock # 0, NEW i \in 1..Len(up[sock]), NEW w \in Who, up[sock][i].who = w
  PROVE  \A j \in 1..Len(down) : down[j].who # w
<1>1. sock \in Sockets /\ up[sock] \in Seq(Posted) /\ down \in Seq(Frames)
  BY DEF TypeInv, ConnTypes
<1>2. Carries(up[sock], w) + Carries(down, w) \in {0, 1}
  BY <1>1, ComingIs DEF NetInv, OneAnswerEach
<1>3. Carries(up[sock], w) \in Nat /\ Carries(up[sock], w) # 0 /\ Carries(down, w) \in Nat
  BY <1>1, CarriesNat
<1>4. Carries(down, w) = 0
  BY <1>2, <1>3
<1> QED
  BY <1>1, <1>4, CarriesNat

LEMMA TakenOnce ==
  ASSUME TypeInv, NetInv, sock # 0, up[sock] # <<>>
  PROVE  /\ Head(up[sock]) = up[sock][1] /\ 1 \in 1..Len(up[sock])
         /\ \A i \in 1..Len(Tail(up[sock])) :
              /\ i + 1 \in 1..Len(up[sock]) /\ Tail(up[sock])[i] = up[sock][i + 1]
              /\ Tail(up[sock])[i].who # Head(up[sock]).who
<1> DEFINE q == up[sock]
           w == Head(q).who
<1>1. sock \in Sockets /\ q \in Seq(Posted) /\ down \in Seq(Frames) /\ q # <<>>
  BY DEF TypeInv, ConnTypes
<1>2. Head(q) = q[1] /\ 1 \in 1..Len(q) /\ q[1] \in Posted /\ Tail(q) \in Seq(Posted)
      /\ \A i \in 1..Len(Tail(q)) : i + 1 \in 1..Len(q) /\ Tail(q)[i] = q[i + 1]
  BY <1>1
<1>3. w \in Who
  BY <1>2 DEF Posted
<1>4. Carries(q, w) + Carries(down, w) \in {0, 1}
  BY <1>3, ComingIs DEF NetInv, OneAnswerEach
<1>5. Carries(q, w) = Carries(Tail(q), w) + 1
  BY <1>1, <1>2, CarriesTail
<1>6. Carries(Tail(q), w) \in Nat /\ Carries(down, w) \in Nat
  BY <1>1, <1>2, CarriesNat
<1>7. Carries(Tail(q), w) = 0
  BY <1>4, <1>5, <1>6
<1>8. \A i \in 1..Len(Tail(q)) : Tail(q)[i].who # w
  BY <1>2, <1>7, CarriesNat
<1> HIDE DEF w
<1> QED
  BY <1>2, <1>8 DEF w

LEMMA Heard ==
  ASSUME TypeInv, NetInv, NEW w \in Who, Hears(w)
  PROVE  /\ down # <<>> /\ Head(down) = down[1] /\ 1 \in 1..Len(down) /\ down[1].who = w
         /\ pend[w].st = "sent" /\ sock # 0 /\ sock \in Sockets
         /\ \A i \in 1..Len(up[sock]) : up[sock][i].who # w
         /\ \A i \in 2..Len(down) : down[i].who # w
<1>1. down \in Seq(Frames) /\ down # <<>> /\ Head(down) = down[1] /\ 1 \in 1..Len(down) /\ down[1].who = w
  BY DEF Hears, TypeInv, ConnTypes
<1>2. pend[w].st = "sent" /\ sock # 0
  BY <1>1, SentOut
<1>3. sock \in Sockets /\ up[sock] \in Seq(Posted) /\ Tail(down) \in Seq(Frames)
  BY <1>1, <1>2 DEF TypeInv, ConnTypes
<1>4. Carries(up[sock], w) + Carries(down, w) = 1
  BY <1>2, ComingIs DEF NetInv, OneAnswerEach
<1>5. Carries(down, w) = Carries(Tail(down), w) + 1
  BY <1>1, CarriesTail
<1>6. Carries(up[sock], w) \in Nat /\ Carries(Tail(down), w) \in Nat
  BY <1>3, CarriesNat
<1>7. Carries(up[sock], w) = 0 /\ Carries(Tail(down), w) = 0
  BY <1>4, <1>5, <1>6
<1>8. \A i \in 1..Len(up[sock]) : up[sock][i].who # w
  BY <1>3, <1>7, CarriesNat
<1>9. \A i \in 1..Len(Tail(down)) : Tail(down)[i].who # w
  BY <1>3, <1>7, CarriesNat
<1>10. \A i \in 2..Len(down) : i - 1 \in 1..Len(Tail(down)) /\ Tail(down)[i - 1] = down[i]
  BY <1>1
<1> QED
  BY <1>1, <1>2, <1>3, <1>8, <1>9, <1>10

LEMMA ReplayHeard ==
  ASSUME TypeInv, NetInv, ReplayAsks, Hears("replay")
  PROVE  replay # 0 /\ pend["replay"].st = "sent" /\ sock # 0
<1>1. pend["replay"].st = "sent" /\ sock # 0
  BY Heard DEF Who
<1> QED
  BY <1>1, WhatIsAsked DEF ReplayAsks

LEMMA ReplayIs ==
  ASSUME TypeInv, ReplayAnswered
  PROVE  /\ Hears("replay") /\ down' = Tail(down) /\ down # <<>>
         /\ UNCHANGED <<sock, tried, up, asks, lane, task, barrier, token, op, plans, killing, dropped, host>>
         /\ \A w \in Who : w # "replay" => pend'[w] = pend[w]
         /\ \/ /\ pend["replay"].req.cmd = "detach" /\ replay' = 0 /\ pend'["replay"] = Idle
               /\ UNCHANGED <<entry, joined, obj, states>>
            \/ /\ pend["replay"].req.cmd # "detach" /\ ~Head(down).ok /\ ReplayRefused
               /\ replay' = 0 /\ pend'["replay"] = Idle
            \/ /\ pend["replay"].req.cmd # "detach" /\ Head(down).ok
               /\ obj # replay \/ Attached(joined) = {}
               /\ replay' = replay /\ pend'["replay"] = Unsent(Request("detach", 0, 0))
               /\ UNCHANGED <<entry, joined, obj, states>>
            \/ /\ pend["replay"].req.cmd # "detach" /\ Head(down).ok
               /\ obj = replay /\ Attached(joined) # {}
               /\ ReplayRestores(Head(down).gen) /\ replay' = 0 /\ pend'["replay"] = Idle
<1>0. pend \in [Who -> Pending] /\ "replay" \in Who
  BY DEF TypeInv, ConnTypes, Who
<1>1. Hears("replay") /\ down' = Tail(down) /\ down # <<>>
      /\ UNCHANGED <<sock, tried, up, asks, lane, task, barrier, token, op, plans, killing, dropped, host>>
  BY DEF ReplayAnswered, Hears, killVars
<1>2. CASE pend["replay"].req.cmd = "detach"
  <2>1. ReplayEnds /\ UNCHANGED <<entry, joined, obj, states>>
    BY <1>2 DEF ReplayAnswered
  <2> QED
    BY <1>0, <1>1, <1>2, <2>1 DEF ReplayEnds
<1>3. CASE pend["replay"].req.cmd # "detach" /\ ~Head(down).ok
  <2>1. ReplayRefused
    BY <1>3 DEF ReplayAnswered
  <2>2. ReplayEnds
    BY <2>1 DEF ReplayRefused
  <2> QED
    BY <1>0, <1>1, <1>3, <2>1, <2>2 DEF ReplayEnds
<1>4. CASE pend["replay"].req.cmd # "detach" /\ Head(down).ok /\ (obj # replay \/ Attached(joined) = {})
  <2>1. ReplayIsStale
    BY <1>4 DEF ReplayAnswered
  <2> QED
    BY <1>0, <1>1, <1>4, <2>1 DEF ReplayIsStale
<1>5. CASE pend["replay"].req.cmd # "detach" /\ Head(down).ok /\ ~(obj # replay \/ Attached(joined) = {})
  <2>1. ReplayRestores(Head(down).gen)
    BY <1>5 DEF ReplayAnswered
  <2>2. ReplayEnds
    BY <2>1 DEF ReplayRestores
  <2> QED
    BY <1>0, <1>1, <1>5, <2>1, <2>2 DEF ReplayEnds
<1> QED
  BY <1>2, <1>3, <1>4, <1>5

(* Who is still attached is attached to the same. *)
Shows == Attached(joined') # {} => Attached(joined) # {} /\ obj' = obj /\ obj # 0 /\ ObjGen' = ObjGen

LEMMA ShownIs ==
  ASSUME TypeInv, RecordInv, Attached(joined) # {}
  PROVE  obj # 0 /\ obj \in Asked /\ ObjGen # 0
BY RecordTypes DEF TypeInv, NamesKept, RecordInv, Joinings, Attached

LEMMA FailsShows ==
  ASSUME TypeInv, RecordInv, lane # <<>>, Head(lane).does = "attach", AttachFails(Head(lane).of)
  PROVE  Shows
<1> DEFINE a == Head(lane).of
           t == asks[a].sub
           left == IF Mine(a) THEN [entry EXCEPT ![t] = 0] ELSE entry
<1>1. joined' = joined /\ states' = states
  BY DEF AttachFails
<1>2. obj' = obj \/ Attached(left) = {}
  BY DEF AttachFails
<1>3. Head(lane) = lane[1] /\ 1 \in 1..Len(lane) /\ IsAttach(lane[1], a) /\ t \in Subs
  BY RecordTypes, LaneHeadTypes DEF IsAttach
<1>4. ASSUME NEW s \in Subs, joined[s] # 0 PROVE left[s] # 0
  <2>1. entry[s] # 0 /\ ~IsAttach(lane[1], entry[s])
    BY <1>3, <1>4 DEF RecordInv, Joinings
  <2>2. entry[s] # a
    BY <1>3, <2>1
  <2>3. CASE Mine(a)
    <3>1. s # t
      BY <2>2, <2>3 DEF Mine
    <3> QED
      BY <1>3, <2>1, <2>3, <3>1, RecordTypes
  <2>4. CASE ~Mine(a)
    BY <2>1, <2>4
  <2> QED
    BY <2>3, <2>4
<1> HIDE DEF a, t, left
<1>5. Attached(joined) # {} => obj' = obj
  BY <1>2, <1>4 DEF Attached
<1> QED
  BY <1>1, <1>5, ShownIs DEF Shows, ObjGen

(* The answer that restores an attachment names what is shown. *)
LEMMA RestoresSame ==
  ASSUME TypeInv, RecordInv, ReplayFirst, TakesTrue, ReplayAsks, Hears("replay"), replay # 0,
         Head(down).ok, pend["replay"].req.cmd # "detach", Attached(joined) # {}
  PROVE  Head(down).gen = ObjGen /\ ObjGen # 0 /\ Takes(down[1])
<1>1. down # <<>> /\ Head(down) = down[1] /\ 1 \in 1..Len(down) /\ down[1].who = "replay"
  BY DEF Hears, TypeInv, ConnTypes
<1>2. /\ obj = replay /\ pend["replay"].req.cmd = "existing" /\ pend["replay"].req.gen = ObjGen
      /\ ObjGen # 0
  BY ShownIs DEF ReplayFirst
<1>3. Takes(down[1])
  BY <1>1, <1>2 DEF Takes, Talks
<1> QED
  BY <1>1, <1>2, <1>3 DEF TakesTrue

LEMMA ReplayShows ==
  ASSUME TypeInv, RecordInv, ReplayFirst, TakesTrue, ReplayAsks, ReplayAnswered, replay # 0
  PROVE  Shows
<1>0. Hears("replay") /\ replay \in Asked /\ Head(down).gen \in Gen /\ states \in [Asked -> State]
  BY RecordTypes, ReplayIs, HeadFrameTypes
<1>1. CASE UNCHANGED <<joined, obj, states>>
  BY <1>1, ShownIs DEF Shows, ObjGen
<1>2. CASE ReplayRefused
  <2>1. CASE obj = replay
    BY <1>2, <2>1 DEF ReplayRefused, Shows, Attached
  <2>2. CASE obj # replay
    <3>1. joined' = joined /\ obj' = obj
      BY <1>2, <2>2 DEF ReplayRefused
    <3>2. states' = [states EXCEPT ![replay].gen = 0, ![replay].on = 0]
      BY <1>2 DEF ReplayRefused
    <3>3. obj \in Asked => states'[obj] = states[obj]
      BY <1>0, <2>2, <3>2
    <3> QED
      BY <3>1, <3>3, ShownIs DEF Shows, ObjGen
  <2> QED
    BY <2>1, <2>2
<1>3. CASE /\ pend["replay"].req.cmd # "detach" /\ Head(down).ok /\ obj = replay /\ Attached(joined) # {}
           /\ ReplayRestores(Head(down).gen)
  <2>1. Head(down).gen = ObjGen
    BY <1>0, <1>3, RestoresSame
  <2>2. joined' = joined /\ obj' = obj /\ states' = SetState(replay, Head(down).gen, sock)
    BY <1>3 DEF ReplayRestores, SetState
  <2>3. sock \in Sockets \union {0}
    BY DEF TypeInv, ConnTypes
  <2>4. states'[obj].gen = Head(down).gen
    BY <1>0, <1>3, <2>2, <2>3, SetOn
  <2> QED
    BY <1>3, <2>1, <2>2, <2>4, ShownIs DEF Shows, ObjGen
<1> QED
  BY <1>1, <1>2, <1>3, ReplayIs

LEMMA ShowsSame ==
  ASSUME TypeInv, NetInv, RecordInv, PartyInv, TakesTrue, Next, ~AttachAnswered
  PROVE  Shows
<1>1. CASE UNCHANGED <<joined, obj, states>>
  BY <1>1, ShownIs DEF Shows, ObjGen
<1>2. CASE AttachLost
  <2>1. lane # <<>> /\ Head(lane).does = "attach"
    BY <1>2 DEF AttachLost, Runs
  <2>2. UNCHANGED <<joined, obj, states>> \/ AttachFails(Head(lane).of)
    BY <1>2 DEF AttachLost
  <2> QED
    BY <1>1, <2>1, <2>2, FailsShows
<1>3. CASE DetachAnswered
  <2>1. states' = [states EXCEPT ![Head(lane).of].on = 0] /\ joined' = joined /\ obj' = obj
    BY <1>3 DEF DetachAnswered
  <2>2. lane # <<>> /\ Head(lane).of \in Asked
    BY <1>3, LaneHeadTypes DEF DetachAnswered, Runs
  <2>3. \A x \in Asked : states'[x].gen = states[x].gen
    BY <2>1, <2>2, SetOnly
  <2> QED
    BY <2>1, <2>3, ShownIs DEF Shows, ObjGen
<1>4. CASE ReplayAnswered
  <2>1. replay # 0
    BY <1>4, ReplayHeard, ReplayIs DEF PartyInv
  <2> QED
    BY <1>4, <2>1, ReplayShows DEF PartyInv
<1>5. CASE ExitArrives
  <2>1. CASE Concerns(Head(down).gen)
    <3>1. joined' = [s \in Subs |-> 0]
      BY <1>5, <2>1 DEF ExitArrives
    <3> QED
      BY <3>1 DEF Shows, Attached
  <2>2. CASE ~Concerns(Head(down).gen)
    BY <1>1, <1>5, <2>2 DEF ExitArrives
  <2> QED
    BY <2>1, <2>2
<1>6. CASE KillConfirmed
  BY <1>6 DEF KillConfirmed, Shows, Attached
<1>7. ASSUME NEW s \in Subs, NEW create \in BOOLEAN, Attach(s, create) PROVE Shows
  <2>1. joined' = joined /\ states' = states /\ (obj # 0 => obj' = obj)
    BY <1>7 DEF Attach
  <2> QED
    BY <2>1, ShownIs DEF Shows, ObjGen
<1>8. ASSUME NEW s \in Subs, Unsubscribe(s) PROVE Shows
  <2>1. states' = states /\ (obj' = obj \/ Attached(entry') = {})
        /\ \A x \in Subs : /\ entry'[x] = IF x = s THEN 0 ELSE entry[x]
                           /\ joined'[x] = IF x = s THEN 0 ELSE joined[x]
    BY <1>8, RecordTypes DEF Unsubscribe
  <2>2. ASSUME NEW x \in Subs, joined'[x] # 0 PROVE joined[x] # 0 /\ entry'[x] # 0
    BY <2>1, <2>2 DEF RecordInv, Joinings
  <2> QED
    BY <2>1, <2>2, ShownIs DEF Shows, ObjGen, Attached
<1>9. LaneSteps => UNCHANGED <<joined, obj, states>> \/ AttachLost \/ DetachAnswered
  BY DEF LaneSteps, AttachBegins, AttachAsks, DetachBegins, DetachLost
<1>10. KillSteps => UNCHANGED <<joined, obj, states>> \/ KillConfirmed
  BY DEF KillSteps, KillPrepares, KillProbed, KillNotPrepared, KillRetries, KillRefused, KillLost,
     AttemptFails, attachVars
<1>11. SocketSteps => UNCHANGED <<joined, obj, states>> \/ ReplayAnswered \/ ExitArrives
  BY DEF SocketSteps, Connect, Resend, Write, attachVars
<1>12. HostSteps => UNCHANGED <<joined, obj, states>>
  BY HostLeavesClient DEF attachVars
<1>13. World => \/ UNCHANGED <<joined, obj, states>>
                \/ \E s \in Subs : Unsubscribe(s) \/ \E create \in BOOLEAN : Attach(s, create)
  BY DEF World, Kill, Breaks, ConnectFails, Ends, TerminationFails, RivalCreates, LeaseExpires, attachVars
<1> QED
  BY <1>1, <1>2, <1>3, <1>4, <1>5, <1>6, <1>7, <1>8, <1>9, <1>10, <1>11, <1>12, <1>13 DEF Next

LEMMA ReplayAsksStep ==
  ASSUME TypeInv, NetInv, RecordInv, PartyInv, Next
  PROVE  ReplayAsks'
<1>0. "replay" \in Who /\ ReplayAsks /\ ReplayFirst
  BY DEF Who, PartyInv
<1>1. CASE Drops
  <2>1. pend'["replay"] = Dropped["replay"] /\ replay' = 0
    BY <1>0, <1>1 DEF Drops
  <2>2. ASSUME NEW w \in Who, w = "replay" PROVE Dropped[w] = Idle
    BY <2>2 DEF Dropped
  <2> QED
    BY <1>0, <2>1, <2>2 DEF ReplayAsks
<1>2. CASE Connect
  <2>1. sock = 0 => pend["replay"] = Idle
    BY <1>0 DEF ReplayAsks, ReplayFirst
  <2>2. \/ /\ Replays /\ replay' = obj
           /\ pend'["replay"] = Unsent(Request("existing", 0, Known(obj)))
        \/ replay' = 0 /\ pend'["replay"] = Idle
    BY <1>0, <1>2, <2>1, ConnectIs
  <2>3. Replays => obj # 0
    BY ShownIs DEF Replays
  <2>4. pend'["replay"] = Unsent(Request("existing", 0, Known(obj))) =>
          pend'["replay"].st = "unsent" /\ pend'["replay"].req.cmd = "existing"
    BY WhatIsAsked
  <2> QED
    BY <2>2, <2>3, <2>4 DEF ReplayAsks
<1>3. CASE ConnectFails
  <2>1. sock = 0 /\ replay' = replay /\ replay = 0 /\ pend["replay"] = Idle
    BY <1>0, <1>3, ConnectFailsIs DEF ReplayFirst, ReplayAsks
  <2>2. pend'["replay"] = Idle
    BY <1>0, <1>3, <2>1, ConnectFailsIs, WhatIsAsked
  <2> QED
    BY <2>1, <2>2 DEF ReplayAsks
<1>4. CASE ReplayAnswered
  <2>1. replay # 0
    BY <1>0, <1>4, ReplayIs, ReplayHeard
  <2>2. \/ replay' = 0 /\ pend'["replay"] = Idle
        \/ replay' = replay /\ pend'["replay"] = Unsent(Request("detach", 0, 0))
    BY <1>4, ReplayIs
  <2> QED
    BY <2>1, <2>2, WhatIsAsked DEF ReplayAsks
<1>5. CASE Outcome("replay") /\ ~ReplayAnswered
  <2>1. replay' = replay
    BY <1>5 DEF Outcome
  <2>2. CASE pend'["replay"] = pend["replay"]
    BY <1>0, <2>1, <2>2 DEF ReplayAsks
  <2>3. CASE Write("replay")
    <3>1. pend["replay"].st = "unsent" /\ pend'["replay"].st = "sent" /\ pend'["replay"].req = pend["replay"].req
      BY <1>0, <2>3, WriteIs
    <3> QED
      BY <1>0, <2>1, <3>1, WhatIsAsked DEF ReplayAsks
  <2>4. ~Resend("replay")
    BY <1>0, ResendIs, WhatIsAsked DEF ReplayAsks
  <2> QED
    BY <1>5, <2>2, <2>3, <2>4 DEF Outcome, Acts
<1> QED
  BY <1>0, <1>1, <1>2, <1>3, <1>4, <1>5, Outcomes

LEMMA LostIsDownStep ==
  ASSUME TypeInv, NetInv, RecordInv, PartyInv, Next
  PROVE  LostIsDown'
<1> SUFFICES ASSUME NEW w \in Who, pend'[w].st = "lost" PROVE sock' = 0
  BY DEF LostIsDown
<1>1. CASE Drops
  BY <1>1 DEF Drops
<1>2. CASE Connect
  <2>1. pend'[w] = pend[w] \/ pend'[w] = Unsent(Request("existing", 0, Known(obj)))
    BY <1>2, ConnectIs
  <2>2. pend[w].st # "lost"
    BY <1>2, ConnectIs DEF Settled
  <2> QED
    BY <2>1, <2>2, WhatIsAsked
<1>3. CASE ConnectFails
  BY <1>3, ConnectFailsIs
<1>4. CASE Outcome(w)
  BY <1>4 DEF Outcome, PartyInv, LostIsDown
<1> QED
  BY <1>1, <1>2, <1>3, <1>4, Outcomes

LEMMA UpAsksStep ==
  ASSUME TypeInv, NetInv, PartyInv, Next
  PROVE  UpAsks'
<1> SUFFICES ASSUME sock' # 0, NEW i \in 1..Len(up'[sock'])
             PROVE  up'[sock'][i].req = pend'[up'[sock'][i].who].req
  BY DEF UpAsks
<1>1. ~Drops /\ ~ConnectFails
  BY ConnectFailsIs DEF Drops
<1>2. ~Connect
  <2> SUFFICES ASSUME Connect PROVE FALSE
    OBVIOUS
  <2>1. sock = 0 /\ sock' = tried + 1 /\ up' = up
    BY ConnectIs
  <2>2. tried + 1 \in Sockets /\ tried + 1 > tried
    BY <2>1, NextSocket, TypeInvFacts
  <2>3. up[tried + 1] = <<>>
    BY <2>2 DEF NetInv, Quieted
  <2> QED
    BY <2>1, <2>3
<1>3. \A w \in Who : Outcome(w)
  BY <1>1, <1>2, Outcomes
<1>4. sock' = sock /\ sock \in Sockets
  BY <1>3 DEF Outcome, Who, TypeInv, ConnTypes
<1>5. \/ \E j \in 1..Len(up[sock]) : up'[sock][i] = up[sock][j]
      \/ \E w \in Who : Write(w) /\ up'[sock][i].who = w /\ up'[sock][i].req = pend[w].req
  BY <1>4, UpMoves DEF UpMove
<1>6. ASSUME NEW j \in 1..Len(up[sock]), up'[sock][i] = up[sock][j]
      PROVE  up'[sock][i].req = pend'[up'[sock][i].who].req
  <2> DEFINE v == up[sock][j].who
  <2>1. v \in Who /\ pend[v].st = "sent" /\ up[sock][j].req = pend[v].req
    BY <1>4, SomeOf DEF PartyInv, UpAsks
  <2>2. ~Hears(v)
    BY <2>1, Heard
  <2>3. pend'[v] = pend[v]
    BY <1>3, <2>1, <2>2 DEF Outcome
  <2> QED
    BY <1>6, <2>1, <2>3
<1>7. ASSUME NEW w \in Who, Write(w), up'[sock][i].who = w, up'[sock][i].req = pend[w].req
      PROVE  up'[sock][i].req = pend'[up'[sock][i].who].req
  BY <1>7, WriteIs
<1> QED
  BY <1>4, <1>5, <1>6, <1>7

LEMMA AskedSameStep ==
  ASSUME TypeInv, NetInv, RecordInv, PartyInv, TakesTrue, Next
  PROVE  AskedSame'
<1> SUFFICES ASSUME Runs("attach")', LaneReq' # NoRequest, Attached(joined') # {}
             PROVE  LaneReq'.cmd = "existing" /\ LaneReq'.gen = ObjGen'
  BY DEF AskedSame
<1>1. ~AttachAnswered
  BY TaskOver DEF Runs, NoTask
<1>2. Attached(joined) # {} /\ obj' = obj /\ obj # 0 /\ ObjGen' = ObjGen /\ ObjGen # 0
  BY <1>1, ShowsSame, ShownIs DEF Shows
<1>3. CASE Runs("attach") /\ LaneReq' = LaneReq
  BY <1>2, <1>3 DEF PartyInv, AskedSame
<1>4. CASE AttachAsks
  <2> DEFINE ask == asks[Head(lane).of]
  <2>1. lane # <<>> /\ Head(lane) = lane[1] /\ 1 \in 1..Len(lane)
    BY <1>4, RecordTypes DEF AttachAsks, Runs
  <2>2. ask.state = obj
    BY <1>2, <2>1 DEF RecordInv, LaneOfObj, AttachesObj
  <2>3. pend'["lane"] = Unsent(Request("existing", 0, Known(ask.state)))
    BY <1>2, <1>4, <2>2 DEF AttachAsks, TypeInv, ConnTypes, Who
  <2>4. Known(ask.state) = ObjGen
    BY <1>2, <2>2 DEF Known, ObjGen
  <2> QED
    BY <1>2, <2>3, <2>4 DEF LaneReq, Unsent, Request
<1>5. CASE LaneSteps /\ ~AttachAsks
  <2>1. pend'["lane"] = Awaits(NoRequest) \/ (pend'["lane"] = Awaits(LaneReq) /\ Runs("attach"))
    BY <1>5, LaneTurns
  <2>2. LaneReq' = LaneReq /\ Runs("attach")
    BY <2>1, WhatIsAsked DEF LaneReq
  <2> QED
    BY <1>3, <2>2
<1>6. CASE ~LaneSteps
  <2>1. Runs("attach")
    BY <1>6, TaskStays DEF Runs, PartyInv
  <2>2. pend["lane"].st # "none"
    BY <2>1 DEF Runs, PartyInv, TaskAsks
  <2>3. LaneReq' = LaneReq
    BY <1>6, <2>2, LanePend DEF LaneReq, PartyInv
  <2> QED
    BY <1>3, <2>1, <2>3
<1> QED
  BY <1>4, <1>5, <1>6

(* What becomes of the state objects. *)
LEMMA StatesMove ==
  ASSUME TypeInv, NetInv, Next, NEW o \in Asked
  PROVE  \/ states'[o] = states[o]
         \/ /\ AttachAnswered /\ states'[o].on = sock /\ o = asks[Head(lane).of].state
            /\ states'[o].gen = Head(down).gen /\ states'[o].exited = states[o].exited
         \/ /\ ReplayAnswered /\ ReplayRestores(Head(down).gen) /\ states'[o].on = sock /\ o = replay
            /\ states'[o].gen = Head(down).gen /\ states'[o].exited = states[o].exited
         \/ /\ DetachAnswered \/ KillConfirmed
            /\ states'[o].on = 0 /\ states'[o].gen = states[o].gen /\ states'[o].exited = states[o].exited
         \/ /\ ReplayAnswered /\ ReplayRefused /\ o = replay
            /\ states'[o].on = 0 /\ states'[o].gen = 0 /\ states'[o].exited = states[o].exited
         \/ /\ ExitArrives /\ Concerns(Head(down).gen) /\ o = obj
            /\ states'[o].on = 0 /\ (states[o].exited => states'[o].exited)
<1>0. states \in [Asked -> State] /\ states[o] \in State /\ sock \in Sockets \union {0}
  BY RecordTypes DEF TypeInv, ConnTypes
<1>a. ASSUME NEW x \in Asked, NEW g \in Gen, NEW c \in Sockets \union {0}, states' = SetState(x, g, c)
      PROVE  \/ states'[o] = states[o]
             \/ o = x /\ states'[o].on = c /\ states'[o].gen = g /\ states'[o].exited = states[o].exited
  <2>1. CASE o # x
    BY <1>0, <1>a, <2>1 DEF SetState
  <2>2. CASE o = x
    BY <1>a, <2>2, SetOn
  <2> QED
    BY <2>1, <2>2
<1>b. ASSUME NEW g \in Gen, NEW c \in Sockets \union {0}, states' = SetState(replay, g, c)
      PROVE  \/ states'[o] = states[o]
             \/ o = replay /\ states'[o].on = c /\ states'[o].gen = g /\ states'[o].exited = states[o].exited
  <2>1. CASE o # replay
    BY <1>0, <1>b, <2>1 DEF SetState
  <2>2. CASE o = replay
    BY <1>b, <2>2, SetOn
  <2> QED
    BY <2>1, <2>2
<1>1. CASE AttachAnswered
  <2>1. lane # <<>> /\ Head(lane).does = "attach" /\ Head(down).gen \in Gen
    BY <1>1, HeadFrameTypes DEF AttachAnswered, Runs, Hears
  <2>2. AttachFails(Head(lane).of) => states' = states
    BY DEF AttachFails
  <2>3. AttachSucceeds(Head(lane).of, Head(down).gen) =>
          states' = SetState(asks[Head(lane).of].state, Head(down).gen, sock)
    BY DEF AttachSucceeds, SetState
  <2> QED
    BY <1>0, <1>1, <1>a, <2>1, <2>2, <2>3, LaneHeadTypes DEF AttachAnswered
<1>2. CASE ReplayAnswered
  <2>1. Head(down).gen \in Gen
    BY <1>2, HeadFrameTypes DEF ReplayAnswered, Hears
  <2>3. ReplayRestores(Head(down).gen) => states' = SetState(replay, Head(down).gen, sock)
    BY DEF ReplayRestores, SetState
  <2>4. ReplayRefused => states' = SetState(replay, 0, 0)
    BY DEF ReplayRefused, SetState
  <2>5. states' = states \/ ReplayRestores(Head(down).gen) \/ ReplayRefused
    BY <1>2, ReplayIs
  <2> QED
    BY <1>0, <1>2, <1>b, <2>1, <2>3, <2>4, <2>5, SetFacts
<1>3. CASE DetachAnswered \/ KillConfirmed
  <2>1. states' = states \/ \E x \in Asked : states' = [states EXCEPT ![x].on = 0]
    BY <1>3, RecordTypes, LaneHeadTypes DEF DetachAnswered, KillConfirmed, Runs
  <2>2. ASSUME NEW x \in Asked, states' = [states EXCEPT ![x].on = 0]
        PROVE  states'[o] = states[o] \/ (/\ states'[o].on = 0 /\ states'[o].gen = states[o].gen
                                          /\ states'[o].exited = states[o].exited)
    <3>1. o # x => states'[o] = states[o]
      BY <1>0, <2>2
    <3> QED
      BY <2>2, <3>1, SetOnly
  <2> QED
    BY <1>3, <2>1, <2>2
<1>4. CASE ExitArrives
  <2>1. CASE Concerns(Head(down).gen)
    <3> DEFINE told == Attached(joined)
               r == [gen |-> IF told = {} THEN Head(down).gen ELSE 0, on |-> 0,
                     exited |-> states[obj].exited \/ (told = {} /\ PreAck)]
    <3>1. states' = [states EXCEPT ![obj] = r]
      BY <1>4, <2>1 DEF ExitArrives
    <3>2. o # obj => states'[o] = states[o]
      BY <1>0, <3>1
    <3>3. o = obj => states'[o] = r
      <4> HIDE DEF r
      <4> QED
        BY <1>0, <3>1
    <3>4. r.on = 0 /\ (states[obj].exited => r.exited)
      OBVIOUS
    <3> HIDE DEF r
    <3> QED
      BY <1>4, <2>1, <3>2, <3>3, <3>4
  <2>2. CASE ~Concerns(Head(down).gen)
    BY <1>4, <2>2 DEF ExitArrives
  <2> QED
    BY <2>1, <2>2
<1>5. CASE AttachLost
  BY <1>5 DEF AttachLost, AttachFails
<1>6. LaneSteps => states' = states \/ AttachAnswered \/ DetachAnswered \/ AttachLost
  BY DEF LaneSteps, AttachBegins, AttachAsks, DetachBegins, DetachLost
<1>7. KillSteps => states' = states \/ KillConfirmed
  BY DEF KillSteps, KillPrepares, KillProbed, KillNotPrepared, KillRetries, KillRefused, KillLost,
     AttemptFails, attachVars
<1>8. SocketSteps => states' = states \/ ReplayAnswered \/ ExitArrives
  BY DEF SocketSteps, Connect, Resend, Write, attachVars
<1>9. HostSteps => states' = states
  BY HostLeavesClient DEF attachVars
<1>10. World => states' = states
  BY DEF World, Unsubscribe, Attach, Kill, Breaks, ConnectFails, Ends, TerminationFails, RivalCreates,
     LeaseExpires, attachVars
<1> QED
  BY <1>1, <1>2, <1>3, <1>4, <1>5, <1>6, <1>7, <1>8, <1>9, <1>10 DEF Next

LEMMA ReplayFirstStep ==
  ASSUME TypeInv, NetInv, RecordInv, PartyInv, TakesTrue, Next
  PROVE  ReplayFirst'
<1> SUFFICES ASSUME replay' # 0 PROVE ReplayFirst'
  BY DEF ReplayFirst
<1>0. "lane" \in Who /\ "kill" \in Who /\ "replay" \in Who
  BY DEF Who
<1>1. ~Drops
  BY DEF Drops
<1>2. CASE Connect
  <2>1. /\ sock = 0 /\ sock' = tried + 1 /\ sock' # 0 /\ tried \in Nat
    BY <1>2, ConnectIs, TypeInvFacts
  <2>2. \A w \in Who : pend[w].st \in {"none", "await"}
    BY <1>2, <2>1, ConnectIs, TypeInvFacts DEF Settled, NetInv, Quieted
  <2>3. /\ Replays /\ replay' = obj /\ pend'["replay"] = Unsent(Request("existing", 0, Known(obj)))
        /\ pend'["lane"] = pend["lane"] /\ pend'["kill"] = pend["kill"]
        /\ UNCHANGED <<joined, obj, states>>
    BY <1>0, <1>2, ConnectIs
  <2>4. obj # 0 /\ ObjGen # 0 /\ Known(obj) = ObjGen
    BY <2>3, ShownIs DEF Replays, Known, ObjGen
  <2>5. pend'["replay"].req.cmd = "existing" /\ pend'["replay"].req.gen = ObjGen
    BY <2>3, <2>4 DEF Unsent, Request
  <2>6. \A o \in Asked : states'[o].on # sock'
    BY <2>1, <2>3, OnTypes DEF PartyInv, SocketsPast
  <2> QED
    BY <1>0, <2>1, <2>2, <2>3, <2>5, <2>6 DEF ReplayFirst, ObjGen
<1>3. ~ConnectFails
  BY ConnectFailsIs DEF PartyInv, ReplayFirst
<1>4. CASE ~Connect
  <2>1. \A w \in Who : Outcome(w)
    BY <1>1, <1>3, <1>4, Outcomes
  <2>2. replay' = replay /\ replay # 0 /\ sock' = sock /\ sock # 0
    BY <1>0, <2>1 DEF Outcome, PartyInv, ReplayFirst
  <2>3. /\ pend["lane"].st \in {"none", "await"} /\ pend["kill"].st \in {"none", "await"}
        /\ \A o \in Asked : states[o].on # sock
        /\ Attached(joined) # {} =>
             obj = replay /\ pend["replay"].req.cmd = "existing" /\ pend["replay"].req.gen = ObjGen
    BY <2>2 DEF PartyInv, ReplayFirst
  <2>4. ~Ready /\ ~Hears("lane") /\ ~Hears("kill")
    BY <1>0, <2>2, <2>3, Heard DEF Ready
  <2>5. pend'["lane"].st \in {"none", "await"}
    <3>1. CASE pend'["lane"] = pend["lane"]
      BY <2>3, <3>1
    <3>2. CASE Resend("lane") \/ Write("lane")
      BY <1>0, <2>3, <2>4, <3>2, ResendIs, WriteIs
    <3>3. CASE LaneSteps
      <4>1. ~AttachAsks
        BY <2>4 DEF AttachAsks
      <4>2. ASSUME DetachBegins PROVE pend'["lane"] = Idle
        <5>1. lane # <<>> /\ Head(lane).of \in Asked
          BY <4>2, LaneHeadTypes DEF DetachBegins, Turn
        <5>2. TaskEnds
          BY <2>3, <4>2, <5>1 DEF DetachBegins
        <5> QED
          BY <1>0, <5>2 DEF TaskEnds, TypeInv, ConnTypes
      <4>3. AttachBegins => pend'["lane"] = Idle \/ pend'["lane"] = Awaits(NoRequest)
        BY <1>0 DEF AttachBegins, TaskEnds, TypeInv, ConnTypes
      <4> QED
        BY <2>3, <2>4, <3>3, <4>1, <4>2, <4>3, WhatIsAsked
        DEF LaneSteps, AttachAnswered, AttachLost, DetachAnswered, DetachLost
    <3> QED
      BY <1>0, <2>1, <3>1, <3>2, <3>3 DEF Outcome, Acts
  <2>6. pend'["kill"].st \in {"none", "await"}
    <3>1. CASE pend'["kill"] = pend["kill"]
      BY <2>3, <3>1
    <3>2. CASE Resend("kill") \/ Write("kill")
      BY <1>0, <2>3, <2>4, <3>2, ResendIs, WriteIs
    <3>3. CASE KillSteps \/ \E mode \in Modes : Kill(mode)
      BY <1>1, <2>3, <2>4, <3>3, KillTurns
    <3> QED
      BY <1>0, <2>1, <3>1, <3>2, <3>3 DEF Outcome, Acts
  <2>7. ASSUME NEW o \in Asked PROVE states'[o].on # sock
    <3>1. ~AttachAnswered
      BY <2>4 DEF AttachAnswered
    <3>2. ~ReplayRestores(Head(down).gen)
      BY <2>2 DEF ReplayRestores, ReplayEnds
    <3> QED
      BY <2>2, <2>3, <3>1, <3>2, StatesMove
  <2>8. ASSUME Attached(joined') # {}
        PROVE  obj' = replay /\ pend'["replay"].req.cmd = "existing" /\ pend'["replay"].req.gen = ObjGen'
    <3>1. ~AttachAnswered
      BY <2>4 DEF AttachAnswered
    <3>2. Attached(joined) # {} /\ obj' = obj /\ ObjGen' = ObjGen
      BY <2>8, <3>1, ShowsSame DEF Shows
    <3>3. CASE pend'["replay"] = pend["replay"]
      BY <2>3, <3>2, <3>3
    <3>4. CASE Write("replay")
      BY <1>0, <2>3, <3>2, <3>4, WriteIs
    <3>5. ~Resend("replay")
      BY <1>0, <2>4, ResendIs
    <3>6. ~ReplayAnswered
      BY <2>2, <2>3, <3>2, ReplayIs
    <3> QED
      BY <1>0, <2>1, <3>3, <3>4, <3>5, <3>6 DEF Outcome, Acts
  <2> QED
    BY <2>2, <2>5, <2>6, <2>7, <2>8 DEF ReplayFirst, ObjGen
<1> QED
  BY <1>2, <1>4

LEMMA KillsSubs ==
  ASSUME TypeInv, NEW s \in Sockets, HostKills(s)
  PROVE  host'.subs = host.subs /\ host'.live = host.live
<1> DEFINE o == Head(up[s]).req.arg
           g == Head(up[s]).req.gen
<1>0. /\ host \in Record
      /\ (HostReplays(s, o, g) \/ HostFindsItGone(s, o, g) \/ HostFindsAnother(s, o, g)
          \/ HostTerminates(s, o, g))
  BY DEF TypeInv, HostTypes, HostKills
<1> HIDE DEF o, g
<1>1. CASE HostReplays(s, o, g)
  <2>1. host' = host \/ \E l : host' = [host EXCEPT !.lease = l]
    BY <1>1 DEF HostReplays, Refuses
  <2> QED
    BY <1>0, <2>1 DEF Record
<1>2. CASE HostFindsItGone(s, o, g)
  <2> DEFINE l == IF Reserves(plans[o].mode) THEN o ELSE host.lease
  <2>1. host' = host \/ host' = [host EXCEPT !.lease = l, !.done = Completes(o, g)]
    BY <1>2 DEF HostFindsItGone, Refuses
  <2> HIDE DEF l
  <2> QED
    BY <1>0, <2>1 DEF Record
<1>3. CASE HostFindsAnother(s, o, g)
  <2>1. host' = host \/ host' = [host EXCEPT !.done = Completes(o, g)]
    BY <1>3 DEF HostFindsAnother, Refuses
  <2> QED
    BY <1>0, <2>1 DEF Record
<1>4. CASE HostTerminates(s, o, g)
  <2>1. host' = [host EXCEPT !.dying = o]
    BY <1>4 DEF HostTerminates
  <2> QED
    BY <1>0, <2>1 DEF Record
<1> QED
  BY <1>0, <1>1, <1>2, <1>3, <1>4

LEMMA EndsSubs ==
  ASSUME TypeInv, Ends
  PROVE  host'.subs = {} /\ host'.live = 0
<1>0. host \in Record
  BY DEF TypeInv, HostTypes
<1> DEFINE l == IF host.dying # 0 /\ Reserves(plans[host.dying].mode) THEN host.dying ELSE host.lease
           d == IF host.dying # 0 THEN Completes(host.dying, host.live) ELSE host.done
<1>1. host' = [host EXCEPT !.live = 0, !.subs = {}, !.dying = 0, !.lease = l, !.done = d]
  BY DEF Ends
<1> HIDE DEF l, d
<1> QED
  BY <1>0, <1>1 DEF Record

(* The connections that the host sends output to. *)
LEMMA SubsMove ==
  ASSUME TypeInv, NetInv, KillInv, SocketsPast, Next
  PROVE  /\ \A s \in host'.subs : s \in host.subs \/ (s \in Sockets /\ up[s] # <<>>)
         /\ host'.live = 0 => host'.subs = {}
<1>0. host \in Record /\ (host.live = 0 => host.subs = {})
  BY DEF TypeInv, HostTypes, SocketsPast
<1>a. host.born + 1 # 0
  <2>1. host.born \in Nat
    BY HostRecordTypes, SetFacts DEF TypeInv
  <2> QED
    BY <2>1
<1>1. ASSUME NEW s \in Sockets, HostAttaches(s)
      PROVE  /\ host'.subs \subseteq host.subs \union {s} /\ up[s] # <<>>
             /\ host'.live = 0 => host'.subs = {}
  <2>1. up[s] # <<>>
    BY <1>1, HostTakesType DEF HostAttaches, TypeInv
  <2>2. \/ host' = host
        \/ host' = [host EXCEPT !.subs = @ \union {s}] /\ host.live # 0
        \/ host' = [host EXCEPT !.live = host.born + 1, !.born = host.born + 1,
                                !.by[host.born + 1] = Head(up[s]).req.arg, !.subs = {s}, !.lease = 0]
        \/ host' = [host EXCEPT !.lease = 0]
    BY <1>1 DEF HostAttaches, Refuses, Subscribes
  <2> DEFINE t == Head(up[s]).req.arg
  <2> HIDE DEF t
  <2>3. host.born + 1 # 0
    BY <1>a
  <2> QED
    BY <1>0, <2>1, <2>2, <2>3 DEF Record
<1>2. ASSUME NEW s \in Sockets, HostAttachesExisting(s)
      PROVE  /\ host'.subs \subseteq host.subs \union {s} /\ up[s] # <<>>
             /\ host'.live = 0 => host'.subs = {}
  <2>1. up[s] # <<>>
    BY <1>2, HostTakesType DEF HostAttachesExisting, TypeInv
  <2>2. \/ host' = host
        \/ host' = [host EXCEPT !.subs = @ \union {s}] /\ host.live # 0
    BY <1>2 DEF HostAttachesExisting, Refuses, Subscribes
  <2> QED
    BY <1>0, <2>1, <2>2 DEF Record
<1>3. ASSUME NEW s \in Sockets, HostDetaches(s) \/ HostCloses(s)
      PROVE  host'.subs \subseteq host.subs /\ (host'.live = 0 => host'.subs = {})
  <2>1. host' = [host EXCEPT !.subs = @ \ {s}]
    BY <1>3 DEF HostDetaches, HostCloses
  <2> QED
    BY <1>0, <2>1 DEF Record
<1>4. ASSUME NEW s \in Sockets, HostKills(s)
      PROVE  host'.subs = host.subs /\ host'.live = host.live
  BY <1>4, KillsSubs
<1>5. ASSUME TerminationFails \/ RivalCreates \/ LeaseExpires
      PROVE  host'.subs = host.subs /\ (host'.live = 0 => host.live = 0)
  <2>1. \/ host' = [host EXCEPT !.dying = 0] \/ host' = [host EXCEPT !.lease = 0]
        \/ host' = [host EXCEPT !.live = host.born + 1, !.born = @ + 1]
    BY <1>5 DEF TerminationFails, RivalCreates, LeaseExpires
  <2>3. host.born + 1 # 0
    BY <1>a
  <2> QED
    BY <1>0, <2>1, <2>3 DEF Record
<1>6. ASSUME Ends PROVE host'.subs = {}
  BY <1>6, EndsSubs
<1> QED
  BY <1>0, <1>1, <1>2, <1>3, <1>4, <1>5, <1>6, HostUntouched

LEMMA SocketsPastStep ==
  ASSUME TypeInv, NetInv, KillInv, PartyInv, Next
  PROVE  SocketsPast'
<1>0. tried \in Nat /\ sock \in Nat /\ (sock # 0 => sock = tried) /\ SocketsPast
  BY OnTypes DEF PartyInv
<1>1. tried' \in Nat /\ tried <= tried'
  <2>1. tried' = tried \/ tried' = tried + 1
    BY Outcomes, ConnectIs, ConnectFailsIs DEF Drops, Outcome, Who
  <2> QED
    BY <1>0, <2>1
<1>2. ASSUME NEW o \in Asked PROVE states'[o].on <= tried'
  <2>1. states'[o].on \in {states[o].on, sock, 0}
    BY StatesMove
  <2> QED
    BY <1>0, <1>1, <2>1, OnTypes DEF SocketsPast
<1>3. ASSUME NEW s \in host'.subs PROVE s <= tried'
  <2>1. s \in host.subs \/ (s \in Sockets /\ up[s] # <<>>)
    BY <1>0, SubsMove
  <2>2. s \in Nat
    BY <2>1, HostRecordTypes, SetFacts DEF TypeInv
  <2>3. s <= tried
    BY <1>0, <2>1, <2>2 DEF SocketsPast, NetInv, Quieted
  <2> QED
    BY <1>0, <1>1, <2>2, <2>3
<1> QED
  BY <1>0, <1>2, <1>3, SubsMove DEF SocketsPast

LEMMA PartyStep ==
  ASSUME TypeInv, NetInv, KillInv, RecordInv, PartyInv, TakesTrue, Next
  PROVE  PartyInv'
BY TaskAsksStep, ReplayAsksStep, LostIsDownStep, ReplayFirstStep, UpAsksStep, SocketsPastStep,
   AskedSameStep DEF PartyInv

(* What a task hears is the answer to what it asked for. *)
LEMMA AttachHeard ==
  ASSUME TypeInv, NetInv, RecordInv, PartyInv, TakesTrue, Runs("attach"), Hears("lane")
  PROVE  /\ LaneReq # NoRequest /\ LaneReq.cmd \in {"attach", "existing"} /\ sock # 0
         /\ Head(down) = down[1] /\ 1 \in 1..Len(down) /\ down[1].who = "lane" /\ Head(down).gen \in Gen
         /\ Head(down).ok => /\ Takes(down[1]) /\ Head(down).gen # 0
                             /\ Attached(joined) # {} => Head(down).gen = ObjGen
<1>1. /\ Head(down) = down[1] /\ 1 \in 1..Len(down) /\ down[1].who = "lane" /\ sock # 0 /\ down # <<>>
      /\ pend["lane"].st = "sent"
  BY Heard DEF Who
<1>2. LaneReq.cmd \in {"attach", "existing"} /\ LaneReq # NoRequest
  BY <1>1, WhatIsAsked DEF PartyInv, TaskAsks
<1>3. Head(down).gen \in Gen
  BY <1>1, HeadFrameTypes
<1>4. ASSUME Head(down).ok PROVE Takes(down[1]) /\ Head(down).gen # 0
  <2>1. Takes(down[1])
    BY <1>1, <1>2, <1>4 DEF Takes, Talks, LaneReq
  <2> QED
    BY <1>1, <2>1 DEF TakesTrue
<1>5. ASSUME Head(down).ok, Attached(joined) # {} PROVE Head(down).gen = ObjGen
  <2>1. LaneReq.cmd = "existing" /\ LaneReq.gen = ObjGen
    BY <1>2, <1>5 DEF PartyInv, AskedSame
  <2>2. LaneReq.gen \in {0, Head(down).gen}
    BY <1>1, <1>4, <1>5, <2>1 DEF TakesTrue, LaneReq
  <2> QED
    BY <1>5, <2>1, <2>2, ShownIs
<1> QED
  BY <1>1, <1>2, <1>3, <1>4, <1>5

LEMMA LaneRecord ==
  ASSUME TypeInv, TypeInv', NetInv, RecordInv, PartyInv, TakesTrue, LaneSteps
  PROVE  RecordInv'
<1>1. CASE AttachBegins
  <2>1. lane # <<>> /\ Head(lane).does = "attach" /\ UNCHANGED <<sock, tried, replay, asks, entry, joined, obj, states>>
    BY <1>1 DEF AttachBegins, Turn
  <2>2. CASE Mine(Head(lane).of)
    <3>1. lane' = lane
      BY <1>1, <2>2 DEF AttachBegins
    <3> QED
      BY <2>1, <3>1, ConnRecord DEF PartyInv
  <2>3. CASE ~Mine(Head(lane).of)
    <3>1. Shortened
      BY <1>1, <2>1, <2>3 DEF AttachBegins, TaskEnds, Shortened
    <3> QED
      BY <2>1, <2>3, <3>1, ShortenedRecord
  <2> QED
    BY <2>2, <2>3
<1>2. CASE AttachAsks
  BY <1>2, ConnRecord DEF AttachAsks, PartyInv
<1>3. CASE AttachAnswered
  <2>1. /\ Hears("lane") /\ Runs("attach") /\ lane # <<>> /\ Head(lane).does = "attach"
        /\ UNCHANGED <<sock, replay>>
    BY <1>3 DEF AttachAnswered, Runs
  <2>2. CASE AttachFails(Head(lane).of)
    BY <2>1, <2>2, FailsRecord
  <2>3. CASE Head(down).ok /\ AttachSucceeds(Head(lane).of, Head(down).gen)
    <3>1. /\ Head(down).gen \in Gen /\ Head(down).gen # 0
          /\ Attached(joined) # {} => Head(down).gen = ObjGen
      BY <2>1, <2>3, AttachHeard
    <3> QED
      BY <2>1, <2>3, <3>1, SucceedsRecord
  <2> QED
    BY <1>3, <2>2, <2>3 DEF AttachAnswered
<1>4. CASE AttachLost
  <2>1. lane # <<>> /\ Head(lane).does = "attach" /\ UNCHANGED <<sock, replay>>
    BY <1>4 DEF AttachLost, Runs
  <2>2. UNCHANGED <<asks, entry, joined, obj, states, lane>> \/ AttachFails(Head(lane).of)
    BY <1>4 DEF AttachLost
  <2> QED
    BY <2>1, <2>2, ConnRecord, FailsRecord DEF PartyInv
<1>5. CASE DetachBegins
  <2>1. /\ lane # <<>> /\ Head(lane).does = "detach"
        /\ UNCHANGED <<sock, replay, asks, entry, joined, obj, states>>
    BY <1>5 DEF DetachBegins, Turn
  <2>2. lane' = lane \/ Shortened
    BY <1>5, <2>1 DEF DetachBegins, TaskEnds, Shortened
  <2> QED
    BY <2>1, <2>2, ConnRecord, ShortenedRecord DEF PartyInv
<1>6. CASE DetachAnswered \/ DetachLost
  <2>1. lane # <<>> /\ Head(lane).does = "detach" /\ UNCHANGED <<sock, replay, asks, entry, joined, obj>>
    BY <1>6 DEF DetachAnswered, DetachLost, Runs
  <2>2. Shortened
    BY <1>6, <2>1 DEF DetachAnswered, DetachLost, TaskEnds, Shortened
  <2>3. \A o \in Asked : states'[o].gen = states[o].gen /\ states'[o].on \in {states[o].on, 0}
    <3>1. CASE DetachAnswered
      <4>1. states' = [states EXCEPT ![Head(lane).of].on = 0] /\ Head(lane).of \in Asked
        BY <2>1, <3>1, LaneHeadTypes DEF DetachAnswered
      <4> QED
        BY <4>1, SetOnly
    <3>2. CASE DetachLost
      BY <3>2 DEF DetachLost
    <3> QED
      BY <1>6, <3>1, <3>2
  <2> QED
    BY <2>1, <2>2, <2>3, ShortenedRecord
<1> QED
  BY <1>1, <1>2, <1>3, <1>4, <1>5, <1>6 DEF LaneSteps

LEMMA ReplayRecord ==
  ASSUME TypeInv, TypeInv', NetInv, RecordInv, PartyInv, TakesTrue, ReplayAnswered
  PROVE  RecordInv'
<1>0. /\ Hears("replay") /\ replay # 0 /\ replay \in Asked /\ UNCHANGED <<sock, asks, lane>>
      /\ Head(down).gen \in Gen /\ states \in [Asked -> State]
  BY ReplayIs, ReplayHeard, RecordTypes, HeadFrameTypes DEF PartyInv
<1>1. CASE UNCHANGED <<entry, joined, obj, states>>
  BY <1>0, <1>1, ReplayIs, ConnRecord DEF PartyInv
<1>2. CASE ReplayRefused
  <2>1. states' = SetState(replay, 0, 0) /\ replay' = 0
    BY <1>2 DEF ReplayRefused, ReplayEnds, SetState
  <2>2. \A o \in Asked : states'[o].on \in {states[o].on, 0} /\ (o # replay => states'[o].gen = states[o].gen)
    BY <1>0, <2>1, SetOn, SetFacts
  <2>3. CASE obj = replay
    <3>1. obj' = 0 /\ entry' = [s \in Subs |-> 0] /\ joined' = [s \in Subs |-> 0]
      BY <1>2, <2>3 DEF ReplayRefused
    <3>2. \A s \in Subs : entry'[s] = 0 /\ joined'[s] = 0
      BY <3>1
    <3> QED
      BY <1>0, <2>1, <2>2, <3>1, <3>2, ForgottenRecord
  <2>4. CASE obj # replay
    <3>1. UNCHANGED <<entry, joined, obj>>
      BY <1>2, <2>4 DEF ReplayRefused
    <3>2. obj # 0 => ObjGen' = ObjGen
      BY <2>2, <2>4, <3>1, RecordTypes DEF ObjGen
    <3> QED
      BY <1>0, <2>1, <2>2, <3>1, <3>2, OthersRecord
  <2> QED
    BY <2>3, <2>4
<1>3. CASE /\ pend["replay"].req.cmd # "detach" /\ Head(down).ok /\ obj = replay /\ Attached(joined) # {}
           /\ ReplayRestores(Head(down).gen)
  <2>1. Head(down).gen = ObjGen
    BY <1>0, <1>3, RestoresSame DEF PartyInv
  <2> QED
    BY <1>0, <1>3, <2>1, RestoresRecord
<1> QED
  BY <1>1, <1>2, <1>3, ReplayIs

LEMMA ExitRecord ==
  ASSUME TypeInv, TypeInv', RecordInv, PartyInv, ExitArrives
  PROVE  RecordInv'
<1>0. UNCHANGED <<sock, replay, asks, lane>>
  BY DEF ExitArrives
<1>1. CASE ~Concerns(Head(down).gen)
  <2>1. UNCHANGED <<entry, joined, obj, states>>
    BY <1>1 DEF ExitArrives
  <2> QED
    BY <1>0, <2>1, ConnRecord DEF PartyInv
<1>2. CASE Concerns(Head(down).gen)
  <2> DEFINE told == Attached(joined)
             r == [gen |-> IF told = {} THEN Head(down).gen ELSE 0, on |-> 0,
                   exited |-> states[obj].exited \/ (told = {} /\ PreAck)]
  <2>1. /\ entry' = [s \in Subs |-> IF s \in told THEN 0 ELSE entry[s]]
        /\ joined' = [s \in Subs |-> 0]
        /\ obj' = IF Attached(entry') = {} THEN 0 ELSE obj
        /\ states' = [states EXCEPT ![obj] = r]
    BY <1>2 DEF ExitArrives
  <2>2. r.on = 0 /\ states \in [Asked -> State]
    BY RecordTypes
  <2> HIDE DEF r
  <2>3. \A o \in Asked : states'[o].on \in {states[o].on, 0}
    BY <2>1, <2>2
  <2>4. \A s \in Subs : joined'[s] = 0 /\ entry'[s] = IF joined[s] # 0 THEN 0 ELSE entry[s]
    BY <2>1 DEF Attached
  <2>5. CASE Attached(entry') = {}
    <3>1. obj' = 0 /\ \A s \in Subs : entry'[s] = 0 /\ joined'[s] = 0
      BY <2>1, <2>4, <2>5 DEF Attached
    <3> QED
      BY <1>0, <2>3, <3>1, ForgottenRecord
  <2>6. CASE Attached(entry') # {}
    <3>1. obj' = obj
      BY <2>1, <2>6
    <3> QED
      BY <1>0, <2>3, <2>4, <2>6, <3>1, LeftRecord
  <2> QED
    BY <2>5, <2>6
<1> QED
  BY <1>1, <1>2

LEMMA RecordStep ==
  ASSUME TypeInv, TypeInv', NetInv, RecordInv, PartyInv, TakesTrue, Next
  PROVE  RecordInv'
<1>0. ASSUME UNCHANGED <<asks, entry, joined, obj, states, lane>> PROVE RecordInv'
  <2>1. replay' \in {replay, obj, 0} /\ (sock' \in {sock, 0} \/ sock' > tried)
    <3>1. CASE Drops
      BY <3>1 DEF Drops
    <3>2. CASE Connect
      BY <3>2, ConnectIs, TypeInvFacts
    <3>3. CASE ConnectFails
      BY <3>3, ConnectFailsIs
    <3>4. CASE Outcome("lane")
      BY <3>4 DEF Outcome
    <3> QED
      BY <3>1, <3>2, <3>3, <3>4, Outcomes DEF Who
  <2> QED
    BY <1>0, <2>1, ConnRecord DEF PartyInv
<1>1. CASE KillConfirmed
  <2>1. /\ obj' = 0 /\ entry' = [s \in Subs |-> 0] /\ joined' = [s \in Subs |-> 0]
        /\ UNCHANGED <<asks, lane, replay>>
        /\ states' = IF obj = 0 THEN states ELSE [states EXCEPT ![obj].on = 0]
    BY <1>1 DEF KillConfirmed
  <2>2. \A s \in Subs : entry'[s] = 0 /\ joined'[s] = 0
    BY <2>1
  <2>3. \A o \in Asked : states'[o].on \in {states[o].on, 0}
    <3>1. CASE obj = 0
      BY <2>1, <3>1
    <3>2. CASE obj # 0
      <4>1. states' = [states EXCEPT ![obj].on = 0] /\ obj \in Asked
        BY <2>1, <3>2, RecordTypes
      <4> QED
        BY <4>1, SetOnly
    <3> QED
      BY <3>1, <3>2
  <2> QED
    BY <2>1, <2>2, <2>3, ForgottenRecord
<1>2. KillSteps => UNCHANGED <<asks, entry, joined, obj, states, lane>> \/ KillConfirmed
  BY DEF KillSteps, KillPrepares, KillProbed, KillNotPrepared, KillRetries, KillRefused, KillLost,
     AttemptFails, attachVars
<1>3. SocketSteps => UNCHANGED <<asks, entry, joined, obj, states, lane>> \/ ReplayAnswered \/ ExitArrives
  BY DEF SocketSteps, Connect, Resend, Write, attachVars
<1>4. HostSteps => UNCHANGED <<asks, entry, joined, obj, states, lane>>
  BY HostLeavesClient DEF attachVars
<1>5. World => \/ UNCHANGED <<asks, entry, joined, obj, states, lane>>
               \/ \E s \in Subs : Unsubscribe(s) \/ \E create \in BOOLEAN : Attach(s, create)
  BY DEF World, Kill, Breaks, ConnectFails, Ends, TerminationFails, RivalCreates, LeaseExpires, attachVars
<1> QED
  BY <1>0, <1>1, <1>2, <1>3, <1>4, <1>5, LaneRecord, ReplayRecord, ExitRecord, AttachRecord,
     UnsubscribeRecord DEF Next

-----------------------------------------------------------------------------
(* 4. The frames on their way to the client. *)

(* The lane and the replay are not heard at the same time. *)
LEMMA OneTalks ==
  ASSUME TypeInv, NetInv, PartyInv, pend["replay"].st = "sent"
  PROVE  pend["lane"].st # "sent"
BY WhatIsAsked DEF PartyInv, ReplayAsks, ReplayFirst

LEMMA TalksOnce ==
  ASSUME TypeInv, NetInv, PartyInv, sock # 0, NEW i \in 1..Len(up[sock]), up[sock][i].who \in Talks
  PROVE  \A j \in 1..Len(down) : down[j].who \notin Talks
<1> SUFFICES ASSUME NEW j \in 1..Len(down), down[j].who \in Talks PROVE FALSE
  OBVIOUS
<1>1. up[sock][i].who \in Who /\ down[j].who \in Who
  BY DEF Talks, Who
<1>2. pend[up[sock][i].who].st = "sent" /\ pend[down[j].who].st = "sent"
  BY <1>1, SomeOf, SentOut
<1>3. up[sock][i].who # down[j].who
  BY <1>1, OneWay
<1> QED
  BY <1>2, <1>3, OneTalks DEF Talks

(* Who asks for what. *)
LEMMA WhoAsks ==
  ASSUME TypeInv, NetInv, KillInv, PartyInv, NEW w \in Who, pend[w].st = "sent"
  PROVE  /\ w \in Talks => pend[w].req.cmd \in {"attach", "existing", "detach"}
         /\ w \notin Talks => w = "kill" /\ pend[w].req.cmd \in {"has", "kill"}
<1>1. CASE w = "lane"
  <2>1. task.on
    BY <1>1, WhatIsAsked DEF NetInv, IdleWithout
  <2>2. Runs("attach") \/ Runs("detach")
    BY <2>1, LaneHeadTypes DEF PartyInv, TaskAsks, Runs, Job
  <2> QED
    BY <1>1, <2>2 DEF PartyInv, TaskAsks, LaneReq, Talks
<1>2. CASE w = "replay"
  BY <1>2, WhatIsAsked DEF PartyInv, ReplayAsks, Talks
<1>3. CASE w = "kill"
  <2>1. killing.st \in {"prepare", "confirm"}
    BY <1>3, WhatIsAsked, TypeInvFacts DEF NetInv, IdleWithout
  <2>2. pend["kill"].req # NoRequest
    BY <1>3 DEF KillInv, KillAsks
  <2>3. pend["kill"].req = Request("has", 0, 0) \/ pend["kill"].req = Confirms
    BY <2>1, <2>2 DEF KillInv, KillAsks
  <2> QED
    BY <1>3, <2>3, WhatIsAsked DEF Confirms, Talks
<1> QED
  BY <1>1, <1>2, <1>3 DEF Who

LEMMA HeadAsks ==
  ASSUME TypeInv, NetInv, KillInv, PartyInv, sock # 0, up[sock] # <<>>
  PROVE  /\ Head(up[sock]) = up[sock][1] /\ 1 \in 1..Len(up[sock])
         /\ Head(up[sock]).who \in Who /\ Head(up[sock]).req = pend[Head(up[sock]).who].req
         /\ pend[Head(up[sock]).who].st = "sent"
         /\ Head(up[sock]).req.cmd \in {"attach", "existing", "detach"} =>
              Head(up[sock]).who \in Talks /\ \A j \in 1..Len(down) : down[j].who \notin Talks
         /\ Head(up[sock]).req.cmd \in {"has", "kill"} => Head(up[sock]).who = "kill"
<1>1. Head(up[sock]) = up[sock][1] /\ 1 \in 1..Len(up[sock])
  BY TakenOnce
<1>2. up[sock][1].who \in Who /\ pend[up[sock][1].who].st = "sent"
      /\ up[sock][1].req = pend[up[sock][1].who].req
  BY <1>1, SomeOf DEF PartyInv, UpAsks
<1>3. up[sock][1].req.cmd \in {"attach", "existing", "detach"} => up[sock][1].who \in Talks
  BY <1>2, WhoAsks
<1>4. up[sock][1].req.cmd \in {"has", "kill"} => up[sock][1].who = "kill"
  BY <1>2, WhoAsks
<1> QED
  BY <1>1, <1>2, <1>3, <1>4, TalksOnce

(* What is asked stays asked until it is heard. *)
LEMMA StillAsked ==
  ASSUME TypeInv, NetInv, Next, sock' = sock, NEW k \in 1..Len(down), down[k].who \in Talks,
         k # 1 \/ down' # Tail(down)
  PROVE  pend'[down[k].who] = pend[down[k].who]
<1>1. down[k].who \in Who
  BY DEF Talks, Who
<1>2. pend[down[k].who].st = "sent" /\ sock # 0
  BY <1>1, SentOut
<1>3. Outcome(down[k].who)
  BY <1>1, <1>2, Outcomes, ConnectIs, ConnectFailsIs DEF Drops
<1>4. ASSUME Hears(down[k].who), down' = Tail(down) PROVE FALSE
  <2>1. \A i \in 2..Len(down) : down[i].who # down[k].who
    BY <1>1, <1>4, Heard
  <2>2. k \in 2..Len(down)
    BY <1>4 DEF TypeInv, ConnTypes
  <2> QED
    BY <2>1, <2>2
<1> QED
  BY <1>2, <1>3, <1>4 DEF Outcome

LEMMA TailIs ==
  ASSUME TypeInv, down # <<>>, down' = Tail(down)
  PROVE  /\ Len(down') = Len(down) - 1 /\ Len(down) \in Nat /\ 1 \in 1..Len(down)
         /\ Head(down) = down[1] /\ down' # down
         /\ \A i \in 1..Len(down') : i + 1 \in 2..Len(down) /\ down'[i] = down[i + 1]
         /\ \A j \in 2..Len(down) : j - 1 \in 1..Len(down') /\ down'[j - 1] = down[j]
BY DEF TypeInv, ConnTypes

(* A frame of those that are on their way after the step. *)
TakesThen(f) == f.who \in Talks /\ f.ok /\ pend'[f.who].req.cmd \in {"attach", "existing"}

TakesTrueThen(f, i) ==
  /\ f.gen # 0
  /\ pend'[f.who].req.cmd = "existing" => pend'[f.who].req.gen \in {0, f.gen}
  /\ \/ host'.live = f.gen /\ sock' \in host'.subs
     \/ \E j \in 1..Len(down') : j > i /\ down'[j].who = "exit" /\ down'[j].gen = f.gen

LEMMA FramesThen ==
  ASSUME \A i \in 1..Len(down') : TakesThen(down'[i]) => TakesTrueThen(down'[i], i),
         sock' # 0 /\ sock' \in host'.subs => \A i \in 1..Len(down') : down'[i].who = "exit" =>
           \E j \in 1..Len(down') : j > i /\ TakesThen(down'[j]),
         \A i \in 1..Len(down') :
           down'[i].who \in Talks /\ pend'[down'[i].who].req.cmd = "detach" => sock' \notin host'.subs
  PROVE  FrameInv'
BY DEF FrameInv, TakesTrue, ExitsPast, DetachIsDone, Takes, TakesThen, TakesTrueThen, Sub

(* Nothing is left to hear. *)
LEMMA NoFrames ==
  ASSUME down' = <<>>
  PROVE  FrameInv'
BY DEF FrameInv, TakesTrue, ExitsPast, DetachIsDone

(* What remains of the frames says what it said. *)
SubsHeld ==
  \/ host'.live = host.live /\ (sock \in host'.subs <=> sock \in host.subs)
  \/ host.live = 0 /\ sock \notin host'.subs

LEMMA FramesHeld ==
  ASSUME TypeInv, NetInv, PartyInv, FrameInv, Next, sock' = sock,
         down' = down \/ (down # <<>> /\ down' = Tail(down)), SubsHeld
  PROVE  FrameInv'
<1> DEFINE d == IF down' = down THEN 0 ELSE 1
<1>0. d \in {0, 1} /\ Len(down) \in Nat
  BY DEF TypeInv, ConnTypes
<1>1. \A i \in 1..Len(down') : i + d \in 1..Len(down) /\ down'[i] = down[i + d]
  BY TailIs, <1>0
<1>2. \A j \in 1..Len(down) : d < j => j - d \in 1..Len(down') /\ down'[j - d] = down[j]
  BY TailIs, <1>0
<1>3. d = 1 => down # <<>> /\ down' = Tail(down)
  OBVIOUS
<1>4. d = 0 => down' = down
  OBVIOUS
<1>5. ASSUME NEW k \in 1..Len(down), d < k, down[k].who \in Talks
      PROVE  pend'[down[k].who] = pend[down[k].who]
  <2>1. k # 1 \/ down' # Tail(down)
    BY <1>0, <1>3, <1>4, <1>5, TailIs DEF TypeInv, ConnTypes
  <2> QED
    BY <1>5, <2>1, StillAsked
<1> HIDE DEF d
<1>6. ASSUME NEW k \in 1..Len(down), d < k PROVE TakesThen(down[k]) <=> Takes(down[k])
  BY <1>5, <1>6 DEF TakesThen, Takes
<1>7. ASSUME NEW i \in 1..Len(down'), TakesThen(down'[i]) PROVE TakesTrueThen(down'[i], i)
  <2>1. i + d \in 1..Len(down) /\ down'[i] = down[i + d] /\ d < i + d
    BY <1>0, <1>1
  <2>2. Takes(down[i + d]) /\ down[i + d].who \in Talks
    BY <1>6, <1>7, <2>1 DEF Takes
  <2>3. pend'[down[i + d].who] = pend[down[i + d].who]
    BY <1>5, <2>1, <2>2
  <2>4. /\ down[i + d].gen # 0
        /\ pend[down[i + d].who].req.cmd = "existing" => pend[down[i + d].who].req.gen \in {0, down[i + d].gen}
        /\ \/ host.live = down[i + d].gen /\ sock \in host.subs
           \/ \E j \in 1..Len(down) : j > i + d /\ down[j].who = "exit" /\ down[j].gen = down[i + d].gen
    BY <2>1, <2>2 DEF FrameInv, TakesTrue
  <2>5. ASSUME host.live = down[i + d].gen, sock \in host.subs
        PROVE  host'.live = down[i + d].gen /\ sock' \in host'.subs
    BY <2>4, <2>5 DEF SubsHeld
  <2>6. ASSUME NEW j \in 1..Len(down), j > i + d, down[j].who = "exit", down[j].gen = down[i + d].gen
        PROVE  \E k \in 1..Len(down') : k > i /\ down'[k].who = "exit" /\ down'[k].gen = down[i + d].gen
    <3>1. j - d \in 1..Len(down') /\ down'[j - d] = down[j] /\ j - d > i
      BY <1>0, <1>2, <2>6
    <3> QED
      BY <2>6, <3>1
  <2> QED
    BY <2>1, <2>3, <2>4, <2>5, <2>6 DEF TakesTrueThen
<1>8. ASSUME sock' # 0, sock' \in host'.subs, NEW i \in 1..Len(down'), down'[i].who = "exit"
      PROVE  \E j \in 1..Len(down') : j > i /\ TakesThen(down'[j])
  <2>1. i + d \in 1..Len(down) /\ down'[i] = down[i + d] /\ Sub
    BY <1>0, <1>1, <1>8 DEF Sub, SubsHeld
  <2>2. PICK j \in 1..Len(down) : j > i + d /\ Takes(down[j])
    BY <1>8, <2>1 DEF FrameInv, ExitsPast
  <2>3. j - d \in 1..Len(down') /\ down'[j - d] = down[j] /\ j - d > i /\ d < j
    BY <1>0, <1>2, <2>2
  <2> QED
    BY <1>6, <2>2, <2>3
<1>9. ASSUME NEW i \in 1..Len(down'), down'[i].who \in Talks, pend'[down'[i].who].req.cmd = "detach"
      PROVE  sock' \notin host'.subs
  <2>1. i + d \in 1..Len(down) /\ down'[i] = down[i + d] /\ d < i + d
    BY <1>0, <1>1
  <2>2. pend[down[i + d].who].req.cmd = "detach"
    BY <1>5, <1>9, <2>1
  <2>3. sock \notin host.subs
    BY <1>9, <2>1, <2>2 DEF FrameInv, DetachIsDone
  <2> QED
    BY <2>3 DEF SubsHeld
<1> QED
  BY <1>7, <1>8, <1>9, FramesThen

(* A frame that answers a kill is added. *)
LEMMA FramesAdded ==
  ASSUME TypeInv, FrameInv, UNCHANGED <<sock, pend>>, NEW f \in Frames, f.who = "kill",
         down' = Append(down, f), SubsHeld
  PROVE  FrameInv'
<1>1. /\ Len(down') = Len(down) + 1 /\ Len(down) \in Nat /\ down'[Len(down')] = f
      /\ \A i \in 1..Len(down) : i \in 1..Len(down') /\ down'[i] = down[i]
      /\ \A i \in 1..Len(down') : i # Len(down') => i \in 1..Len(down)
  BY DEF TypeInv, ConnTypes
<1>2. \A g : TakesThen(g) <=> Takes(g)
  BY DEF TakesThen, Takes
<1>3. f.who \notin Talks /\ f.who # "exit"
  BY DEF Talks
<1>4. ASSUME NEW i \in 1..Len(down'), TakesThen(down'[i]) PROVE TakesTrueThen(down'[i], i)
  <2>1. i \in 1..Len(down) /\ down'[i] = down[i] /\ Takes(down[i])
    BY <1>1, <1>2, <1>3, <1>4 DEF TakesThen
  <2>2. /\ down[i].gen # 0
        /\ pend[down[i].who].req.cmd = "existing" => pend[down[i].who].req.gen \in {0, down[i].gen}
        /\ \/ host.live = down[i].gen /\ sock \in host.subs
           \/ \E j \in 1..Len(down) : j > i /\ down[j].who = "exit" /\ down[j].gen = down[i].gen
    BY <2>1 DEF FrameInv, TakesTrue
  <2> QED
    BY <1>1, <2>1, <2>2 DEF TakesTrueThen, SubsHeld
<1>5. ASSUME sock' # 0, sock' \in host'.subs, NEW i \in 1..Len(down'), down'[i].who = "exit"
      PROVE  \E j \in 1..Len(down') : j > i /\ TakesThen(down'[j])
  <2>1. i \in 1..Len(down) /\ down'[i] = down[i] /\ Sub
    BY <1>1, <1>3, <1>5 DEF Sub, SubsHeld
  <2>2. PICK j \in 1..Len(down) : j > i /\ Takes(down[j])
    BY <1>5, <2>1 DEF FrameInv, ExitsPast
  <2> QED
    BY <1>1, <1>2, <2>2
<1>6. ASSUME NEW i \in 1..Len(down'), down'[i].who \in Talks, pend'[down'[i].who].req.cmd = "detach"
      PROVE  sock' \notin host'.subs
  <2>1. i \in 1..Len(down) /\ down'[i] = down[i]
    BY <1>1, <1>3, <1>6
  <2> QED
    BY <1>6, <2>1 DEF FrameInv, DetachIsDone, SubsHeld
<1> QED
  BY <1>4, <1>5, <1>6, FramesThen

(* The answer to an attach or a detach is added, the only one.             *)
LEMMA FramesAnswered ==
  ASSUME TypeInv, FrameInv, UNCHANGED <<sock, pend>>, sock # 0, NEW f \in Frames, down' = Append(down, f),
         f.who \in Talks, \A j \in 1..Len(down) : down[j].who \notin Talks,
         \/ /\ pend[f.who].req.cmd \in {"attach", "existing"} /\ f.ok
            /\ f.gen # 0 /\ host'.live = f.gen /\ sock \in host'.subs
            /\ pend[f.who].req.cmd = "existing" => pend[f.who].req.gen \in {0, f.gen}
         \/ pend[f.who].req.cmd \in {"attach", "existing"} /\ ~f.ok /\ SubsHeld
         \/ pend[f.who].req.cmd = "detach" /\ sock \notin host'.subs
  PROVE  FrameInv'
<1>1. /\ Len(down') = Len(down) + 1 /\ Len(down) \in Nat /\ down'[Len(down')] = f
      /\ \A i \in 1..Len(down) : i \in 1..Len(down') /\ down'[i] = down[i]
      /\ \A i \in 1..Len(down') : i # Len(down') => i \in 1..Len(down)
  BY DEF TypeInv, ConnTypes
<1>2. f.who # "exit"
  BY DEF Talks
<1>3. \A i \in 1..Len(down) : ~Takes(down[i])
  BY DEF Takes
<1>4. ASSUME NEW i \in 1..Len(down'), TakesThen(down'[i]) PROVE TakesTrueThen(down'[i], i)
  <2>1. i = Len(down') /\ down'[i] = f
    BY <1>1, <1>4 DEF TakesThen
  <2> QED
    BY <1>4, <2>1 DEF TakesThen, TakesTrueThen
<1>5. ASSUME sock' # 0, sock' \in host'.subs, NEW i \in 1..Len(down'), down'[i].who = "exit"
      PROVE  \E j \in 1..Len(down') : j > i /\ TakesThen(down'[j])
  <2>1. i \in 1..Len(down) /\ down'[i] = down[i]
    BY <1>1, <1>2, <1>5
  <2>2. ~Sub
    BY <1>3, <1>5, <2>1 DEF FrameInv, ExitsPast
  <2>3. Len(down') > i /\ TakesThen(f)
    BY <1>1, <1>5, <2>1, <2>2 DEF TakesThen, SubsHeld, Sub
  <2> QED
    BY <1>1, <2>3
<1>6. ASSUME NEW i \in 1..Len(down'), down'[i].who \in Talks, pend'[down'[i].who].req.cmd = "detach"
      PROVE  sock' \notin host'.subs
  <2>1. down'[i] = f
    BY <1>1, <1>6
  <2> QED
    BY <1>6, <2>1
<1> QED
  BY <1>4, <1>5, <1>6, FramesThen

LEMMA AnswersIs ==
  ASSUME TypeInv, NEW s \in Sockets, up[s] # <<>>, NEW ok \in BOOLEAN, NEW g \in Gen, Answers(s, ok, g)
  PROVE  /\ UNCHANGED <<sock, tried, replay, pend, asks, entry, joined, obj, states, lane, task, seen>>
         /\ UNCHANGED <<barrier, token, op, plans, killing, dropped>>
         /\ s # sock => down' = down
         /\ s = sock => /\ down' = Append(down, Reply(Head(up[sock]).who, ok, g))
                        /\ Reply(Head(up[sock]).who, ok, g) \in Frames
         /\ Reply(Head(up[s]).who, ok, g).who = Head(up[s]).who
         /\ Reply(Head(up[s]).who, ok, g).ok = ok /\ Reply(Head(up[s]).who, ok, g).gen = g
<1>1. Head(up[s]).who \in Who
  BY HeadRequestTypes DEF TypeInv
<1>2. \A w : Reply(w, ok, g).who = w /\ Reply(w, ok, g).ok = ok /\ Reply(w, ok, g).gen = g
  BY DEF Reply
<1>3. Reply(Head(up[s]).who, ok, g) \in Frames
  BY <1>1 DEF Reply, Frames
<1> QED
  BY <1>1, <1>2, <1>3 DEF Answers, attachVars, killVars

(* The host's answer to an attach. *)
LEMMA AttachAnswers ==
  ASSUME TypeInv, SocketsPast, NEW s \in Sockets, HostAttaches(s) \/ HostAttachesExisting(s)
  PROVE  /\ up[s] # <<>> /\ Head(up[s]).req.cmd \in {"attach", "existing"}
         /\ host'.dying = host.dying
         /\ \/ \E g \in Gen :
                 /\ Answers(s, TRUE, g) /\ g # 0 /\ host'.live = g
                 /\ Head(up[s]).req.cmd = "existing" => Head(up[s]).req.gen \in {0, g}
                 /\ \/ host.live = g /\ host'.subs = host.subs \union {s}
                    \/ host.live = 0 /\ host'.subs = {s}
            \/ /\ Answers(s, FALSE, 0) /\ host'.live = host.live /\ host'.subs = host.subs
               /\ Head(up[s]).req.cmd = "existing" =>
                    host.dying # 0 \/ host.live = 0 \/ Head(up[s]).req.gen \notin {0, host.live}
<1>0. host \in Record /\ host.live \in Gen /\ host.born \in Nat
  BY HostRecordTypes, SetFacts DEF TypeInv, HostTypes
<1>1. CASE HostAttaches(s)
  <2>1. up[s] # <<>> /\ Head(up[s]).req.cmd = "attach"
    BY <1>1, HostTakesType DEF HostAttaches, TypeInv
  <2> DEFINE t == Head(up[s]).req.arg
             g == host.born + 1
  <2>2. \/ Answers(s, FALSE, 0) /\ host' = host
        \/ host.live # 0 /\ Answers(s, TRUE, host.live) /\ host' = [host EXCEPT !.subs = @ \union {s}]
        \/ /\ host.live = 0 /\ g <= MaxGens /\ Answers(s, TRUE, g)
           /\ host' = [host EXCEPT !.live = g, !.born = g, !.by[g] = t, !.subs = {s}, !.lease = 0]
        \/ Answers(s, FALSE, 0) /\ host' = [host EXCEPT !.lease = 0]
    BY <1>1 DEF HostAttaches, Refuses, Subscribes
  <2> HIDE DEF t
  <2>3. g <= MaxGens => g \in Gen /\ g # 0
    BY <1>0, SetFacts DEF Gen
  <2> HIDE DEF g
  <2>4. CASE Answers(s, FALSE, 0) /\ host' = host
    BY <2>1, <2>4
  <2>5. CASE host.live # 0 /\ Answers(s, TRUE, host.live) /\ host' = [host EXCEPT !.subs = @ \union {s}]
    <3>1. host'.live = host.live /\ host'.subs = host.subs \union {s} /\ host'.dying = host.dying
      BY <1>0, <2>5 DEF Record
    <3> QED
      BY <1>0, <2>1, <2>5, <3>1
  <2>6. CASE /\ host.live = 0 /\ g <= MaxGens /\ Answers(s, TRUE, g)
             /\ host' = [host EXCEPT !.live = g, !.born = g, !.by[g] = t, !.subs = {s}, !.lease = 0]
    <3>1. host'.live = g /\ host'.subs = {s} /\ host'.dying = host.dying
      BY <1>0, <2>6 DEF Record
    <3> QED
      BY <2>1, <2>3, <2>6, <3>1
  <2>7. CASE Answers(s, FALSE, 0) /\ host' = [host EXCEPT !.lease = 0]
    <3>1. host'.live = host.live /\ host'.subs = host.subs /\ host'.dying = host.dying
      BY <1>0, <2>7 DEF Record
    <3> QED
      BY <2>1, <2>7, <3>1
  <2> QED
    BY <2>2, <2>4, <2>5, <2>6, <2>7
<1>2. CASE HostAttachesExisting(s)
  <2>1. up[s] # <<>> /\ Head(up[s]).req.cmd = "existing"
    BY <1>2, HostTakesType DEF HostAttachesExisting, TypeInv
  <2>2. CASE host.dying = 0 /\ host.live # 0 /\ Head(up[s]).req.gen \in {0, host.live}
    <3>1. Answers(s, TRUE, host.live) /\ host' = [host EXCEPT !.subs = @ \union {s}]
      BY <1>2, <2>2 DEF HostAttachesExisting, Subscribes
    <3>2. host'.live = host.live /\ host'.subs = host.subs \union {s} /\ host'.dying = host.dying
      BY <1>0, <3>1 DEF Record
    <3> QED
      BY <1>0, <2>1, <2>2, <3>1, <3>2
  <2>3. CASE ~(host.dying = 0 /\ host.live # 0 /\ Head(up[s]).req.gen \in {0, host.live})
    <3>1. Answers(s, FALSE, 0) /\ host' = host
      BY <1>2, <2>3 DEF HostAttachesExisting, Refuses
    <3> QED
      BY <2>1, <2>3, <3>1
  <2> QED
    BY <2>2, <2>3
<1> QED
  BY <1>1, <1>2

LEMMA DetachAnswers ==
  ASSUME TypeInv, NEW s \in Sockets, HostDetaches(s)
  PROVE  /\ up[s] # <<>> /\ Head(up[s]).req.cmd = "detach" /\ Answers(s, TRUE, 0)
         /\ host'.live = host.live /\ host'.subs = host.subs \ {s}
<1>1. up[s] # <<>> /\ Head(up[s]).req.cmd = "detach"
  BY HostTakesType DEF HostDetaches, TypeInv
<1>2. host' = [host EXCEPT !.subs = @ \ {s}] /\ host \in Record /\ Answers(s, TRUE, 0)
  BY DEF HostDetaches, TypeInv, HostTypes
<1> QED
  BY <1>1, <1>2 DEF Record

(* The host's answers to a kill. *)
LEMMA KillAnswers ==
  ASSUME TypeInv, NEW s \in Sockets, HostKills(s) \/ HostIsProbed(s)
  PROVE  /\ up[s] # <<>> /\ Head(up[s]).req.cmd \in {"has", "kill"}
         /\ host'.live = host.live /\ host'.subs = host.subs
         /\ \/ \E ok \in BOOLEAN, g \in Gen : Answers(s, ok, g)
            \/ UNCHANGED <<netVars, attachVars, seen, killVars, open>>
<1>1. CASE HostKills(s)
  <2>1. up[s] # <<>> /\ Head(up[s]).req.cmd = "kill"
    BY <1>1, HostTakesType DEF HostKills, TypeInv
  <2>2. \/ \E ok \in BOOLEAN, g \in Gen : Answers(s, ok, g)
        \/ HostTerminates(s, Head(up[s]).req.arg, Head(up[s]).req.gen)
    BY <1>1, HostAnswers DEF TypeInv
  <2> QED
    BY <1>1, <2>1, <2>2, KillsSubs DEF HostTerminates
<1>2. CASE HostIsProbed(s)
  <2>1. up[s] # <<>> /\ Head(up[s]).req.cmd = "has"
    BY <1>2, HostTakesType DEF HostIsProbed, TypeInv
  <2>2. Answers(s, TRUE, host.live) /\ host' = host /\ host.live \in Gen
    BY <1>2, HostRecordTypes DEF HostIsProbed, TypeInv
  <2> QED
    BY <2>1, <2>2
<1> QED
  BY <1>1, <1>2

LEMMA ClosesIs ==
  ASSUME TypeInv, NEW s \in Sockets, HostCloses(s)
  PROVE  /\ s # sock /\ host'.live = host.live /\ host'.subs = host.subs \ {s} /\ host'.dying = host.dying
         /\ UNCHANGED <<sock, tried, replay, pend, down, asks, entry, joined, obj, states, lane, task, seen>>
         /\ UNCHANGED <<barrier, token, op, plans, killing, dropped>>
<1>1. host \in Record /\ host' = [host EXCEPT !.subs = @ \ {s}]
  BY DEF HostCloses, TypeInv, HostTypes
<1> QED
  BY <1>1 DEF HostCloses, Record, attachVars, killVars

LEMMA HostFrames ==
  ASSUME TypeInv, NetInv, KillInv, PartyInv, FrameInv, HostSteps, Next
  PROVE  FrameInv'
<1>0. UNCHANGED <<sock, pend>> /\ SocketsPast
  BY HostLeavesClient DEF PartyInv
<1>1. ASSUME NEW s \in Sockets, HostAttaches(s) \/ HostAttachesExisting(s) PROVE FrameInv'
  <2> DEFINE u == Head(up[s])
  <2>0. up[s] # <<>> /\ u.req.cmd \in {"attach", "existing"}
    BY <1>0, <1>1, AttachAnswers
  <2>1. ASSUME NEW g \in Gen, Answers(s, TRUE, g), g # 0, host'.live = g,
               u.req.cmd = "existing" => u.req.gen \in {0, g},
               \/ host.live = g /\ host'.subs = host.subs \union {s}
               \/ host.live = 0 /\ host'.subs = {s}
        PROVE  FrameInv'
    <3>1. CASE s # sock
      <4>1. down' = down
        BY <2>0, <2>1, <3>1, AnswersIs
      <4>2. SubsHeld
        BY <1>0, <2>1, <3>1 DEF SubsHeld, SocketsPast
      <4> QED
        BY <1>0, <4>1, <4>2, FramesHeld
    <3>2. CASE s = sock
      <4> DEFINE f == Reply(u.who, TRUE, g)
      <4>1. /\ u.who \in Talks /\ u.req = pend[u.who].req /\ sock # 0
            /\ \A j \in 1..Len(down) : down[j].who \notin Talks
        BY <2>0, <3>2, HeadAsks, SetFacts
      <4>2. down' = Append(down, f) /\ f \in Frames /\ f.who = u.who /\ f.ok = TRUE /\ f.gen = g
        BY <2>0, <2>1, <3>2, AnswersIs
      <4>3. sock \in host'.subs
        BY <2>1, <3>2
      <4> HIDE DEF f, u
      <4> QED
        BY <1>0, <2>0, <2>1, <4>1, <4>2, <4>3, FramesAnswered
    <3> QED
      BY <3>1, <3>2
  <2>2. ASSUME Answers(s, FALSE, 0), host'.live = host.live, host'.subs = host.subs PROVE FrameInv'
    <3>0. SubsHeld
      BY <2>2 DEF SubsHeld
    <3>1. CASE s # sock
      <4>1. down' = down
        BY <2>0, <2>2, <3>1, AnswersIs, SetFacts
      <4> QED
        BY <1>0, <3>0, <4>1, FramesHeld
    <3>2. CASE s = sock
      <4> DEFINE f == Reply(u.who, FALSE, 0)
      <4>1. /\ u.who \in Talks /\ u.req = pend[u.who].req /\ sock # 0
            /\ \A j \in 1..Len(down) : down[j].who \notin Talks
        BY <2>0, <3>2, HeadAsks, SetFacts
      <4>2. down' = Append(down, f) /\ f \in Frames /\ f.who = u.who /\ f.ok = FALSE
        BY <2>0, <2>2, <3>2, AnswersIs, SetFacts
      <4> HIDE DEF f, u
      <4> QED
        BY <1>0, <2>0, <3>0, <4>1, <4>2, FramesAnswered
    <3> QED
      BY <3>1, <3>2
  <2> QED
    BY <1>0, <1>1, <2>1, <2>2, AttachAnswers
<1>2. ASSUME NEW s \in Sockets, HostDetaches(s) PROVE FrameInv'
  <2> DEFINE u == Head(up[s])
  <2>0. /\ up[s] # <<>> /\ u.req.cmd = "detach" /\ Answers(s, TRUE, 0)
        /\ host'.live = host.live /\ host'.subs = host.subs \ {s}
    BY <1>2, DetachAnswers
  <2>1. CASE s # sock
    <3>1. down' = down
      BY <2>0, <2>1, AnswersIs, SetFacts
    <3>2. SubsHeld
      BY <2>0, <2>1 DEF SubsHeld
    <3> QED
      BY <1>0, <3>1, <3>2, FramesHeld
  <2>2. CASE s = sock
    <3> DEFINE f == Reply(u.who, TRUE, 0)
    <3>1. /\ u.who \in Talks /\ u.req = pend[u.who].req /\ sock # 0
          /\ \A j \in 1..Len(down) : down[j].who \notin Talks
      BY <2>0, <2>2, HeadAsks, SetFacts
    <3>2. down' = Append(down, f) /\ f \in Frames /\ f.who = u.who
      BY <2>0, <2>2, AnswersIs, SetFacts
    <3>3. sock \notin host'.subs
      BY <2>0, <2>2
    <3> HIDE DEF f, u
    <3> QED
      BY <1>0, <2>0, <3>1, <3>2, <3>3, FramesAnswered
  <2> QED
    BY <2>1, <2>2
<1>3. ASSUME NEW s \in Sockets, HostKills(s) \/ HostIsProbed(s) PROVE FrameInv'
  <2>0. /\ up[s] # <<>> /\ Head(up[s]).req.cmd \in {"has", "kill"}
        /\ host'.live = host.live /\ host'.subs = host.subs
    BY <1>3, KillAnswers
  <2>1. SubsHeld
    BY <2>0 DEF SubsHeld
  <2>2. ASSUME NEW ok \in BOOLEAN, NEW g \in Gen, Answers(s, ok, g) PROVE FrameInv'
    <3>1. CASE s # sock
      <4>1. down' = down
        BY <2>0, <2>2, <3>1, AnswersIs
      <4> QED
        BY <1>0, <2>1, <4>1, FramesHeld
    <3>2. CASE s = sock
      <4> DEFINE f == Reply(Head(up[sock]).who, ok, g)
      <4>1. Head(up[sock]).who = "kill"
        BY <2>0, <3>2, HeadAsks, SetFacts
      <4>2. down' = Append(down, f) /\ f \in Frames /\ f.who = "kill"
        BY <2>0, <2>2, <3>2, <4>1, AnswersIs
      <4> HIDE DEF f
      <4> QED
        BY <1>0, <2>1, <4>2, FramesAdded
    <3> QED
      BY <3>1, <3>2
  <2>3. ASSUME UNCHANGED netVars PROVE FrameInv'
    <3>1. down' = down
      BY <2>3 DEF netVars
    <3> QED
      BY <1>0, <2>1, <3>1, FramesHeld
  <2> QED
    BY <1>3, <2>2, <2>3, KillAnswers
<1>4. ASSUME NEW s \in Sockets, HostCloses(s) PROVE FrameInv'
  <2>1. down' = down /\ SubsHeld
    BY <1>4, ClosesIs DEF SubsHeld
  <2> QED
    BY <1>0, <2>1, FramesHeld
<1> QED
  BY <1>1, <1>2, <1>3, <1>4 DEF HostSteps

(* The frames that the end of a process or of a kill adds. *)
LEMMA FramesEnd ==
  ASSUME TypeInv, FrameInv, UNCHANGED <<sock, pend>>,
         \A i \in 1..Len(down) : i \in 1..Len(down') /\ down'[i] = down[i],
         \A i \in 1..Len(down') : i \in 1..Len(down) \/ down'[i].who \in {"kill", "exit"},
         \/ SubsHeld /\ \A i \in 1..Len(down') : i \in 1..Len(down) \/ down'[i].who = "kill"
         \/ /\ sock \notin host'.subs
            /\ sock \in host.subs =>
                 \E j \in 1..Len(down') : /\ j > Len(down)
                                          /\ down'[j].who = "exit" /\ down'[j].gen = host.live
  PROVE  FrameInv'
<1>0. Len(down) \in Nat /\ \A i \in 1..Len(down) : i \in Nat /\ i <= Len(down)
  BY DEF TypeInv, ConnTypes
<1>1. \A g : TakesThen(g) <=> Takes(g)
  BY DEF TakesThen, Takes
<1>2. ASSUME NEW i \in 1..Len(down'), TakesThen(down'[i]) PROVE TakesTrueThen(down'[i], i)
  <2>1. i \in 1..Len(down) /\ down'[i] = down[i] /\ Takes(down[i])
    BY <1>1, <1>2 DEF TakesThen, Talks
  <2>2. /\ down[i].gen # 0
        /\ pend[down[i].who].req.cmd = "existing" => pend[down[i].who].req.gen \in {0, down[i].gen}
        /\ \/ host.live = down[i].gen /\ sock \in host.subs
           \/ \E j \in 1..Len(down) : j > i /\ down[j].who = "exit" /\ down[j].gen = down[i].gen
    BY <2>1 DEF FrameInv, TakesTrue
  <2>3. CASE \E j \in 1..Len(down) : j > i /\ down[j].who = "exit" /\ down[j].gen = down[i].gen
    BY <2>1, <2>2, <2>3 DEF TakesTrueThen
  <2>4. CASE host.live = down[i].gen /\ sock \in host.subs
    <3>1. CASE SubsHeld
      BY <2>1, <2>2, <2>4, <3>1 DEF TakesTrueThen, SubsHeld
    <3>2. CASE \E j \in 1..Len(down') : /\ j > Len(down)
                                        /\ down'[j].who = "exit" /\ down'[j].gen = host.live
      <4>1. PICK j \in 1..Len(down') : j > Len(down) /\ down'[j].who = "exit" /\ down'[j].gen = host.live
        BY <3>2
      <4>2. j > i
        BY <1>0, <2>1, <4>1
      <4> QED
        BY <2>1, <2>2, <2>4, <4>1, <4>2 DEF TakesTrueThen
    <3> QED
      BY <2>4, <3>1, <3>2
  <2> QED
    BY <2>2, <2>3, <2>4
<1>3. ASSUME sock' # 0, sock' \in host'.subs, NEW i \in 1..Len(down'), down'[i].who = "exit"
      PROVE  \E j \in 1..Len(down') : j > i /\ TakesThen(down'[j])
  <2>1. SubsHeld /\ i \in 1..Len(down) /\ down'[i] = down[i]
    BY <1>3
  <2>2. Sub
    BY <1>3, <2>1 DEF SubsHeld, Sub
  <2>3. PICK j \in 1..Len(down) : j > i /\ Takes(down[j])
    BY <1>3, <2>1, <2>2 DEF FrameInv, ExitsPast
  <2> QED
    BY <1>1, <2>3
<1>4. ASSUME NEW i \in 1..Len(down'), down'[i].who \in Talks, pend'[down'[i].who].req.cmd = "detach"
      PROVE  sock' \notin host'.subs
  <2>1. i \in 1..Len(down) /\ down'[i] = down[i]
    BY <1>4 DEF Talks
  <2>2. sock \notin host.subs
    BY <1>4, <2>1 DEF FrameInv, DetachIsDone
  <2> QED
    BY <2>2 DEF SubsHeld
<1> QED
  BY <1>2, <1>3, <1>4, FramesThen

(* Where the frames of AnswersKill are. *)
LEMMA AnswersKillIs ==
  ASSUME TypeInv, NEW ok \in BOOLEAN, NEW f, NEW g \in Gen, f = <<>> \/ f = <<Exit(g)>>,
         AnswersKill(ok, f)
  PROVE  /\ \A i \in 1..Len(down) : i \in 1..Len(down') /\ down'[i] = down[i]
         /\ \A i \in 1..Len(down') : i \in 1..Len(down) \/ down'[i].who \in {"kill", "exit"}
         /\ f = <<>> => \A i \in 1..Len(down') : i \in 1..Len(down) \/ down'[i].who = "kill"
         /\ f = <<Exit(g)>> => /\ Len(down) + 1 \in 1..Len(down') /\ Len(down) + 1 > Len(down)
                               /\ down'[Len(down) + 1].who = "exit" /\ down'[Len(down) + 1].gen = g
<1> DEFINE k == IF sock \in Waiting THEN <<Reply("kill", ok, 0)>> ELSE <<>>
           r == Reply("kill", ok, 0)
<1>0. down \in Seq(Frames) /\ down' = down \o f \o k /\ Len(down) \in Nat
  BY DEF AnswersKill, TypeInv, ConnTypes
<1>1. /\ r.who = "kill" /\ r \in Frames /\ Exit(g) \in Frames
      /\ Exit(g).who = "exit" /\ Exit(g).gen = g
  BY SetFacts DEF Reply, Exit, Frames, Who
<1>2. k = <<>> \/ k = <<r>>
  OBVIOUS
<1> HIDE DEF k, r
<1>3. CASE f = <<>>
  <2>1. down \o f = down
    BY <1>0, <1>3
  <2>2. CASE k = <<>>
    BY <1>0, <1>3, <2>1, <2>2
  <2>3. CASE k = <<r>>
    <3>1. down' = down \o <<r>>
      BY <1>0, <2>1, <2>3
    <3>2. /\ Len(down') = Len(down) + 1 /\ down'[Len(down) + 1] = r
          /\ \A i \in 1..Len(down) : down'[i] = down[i]
      BY <1>0, <1>1, <3>1
    <3> QED
      BY <1>0, <1>1, <1>3, <3>2
  <2> QED
    BY <1>2, <2>2, <2>3
<1>4. CASE f = <<Exit(g)>>
  <2> DEFINE m == down \o f
  <2>1. /\ m \in Seq(Frames) /\ Len(m) = Len(down) + 1 /\ m[Len(down) + 1] = Exit(g)
        /\ \A i \in 1..Len(down) : m[i] = down[i]
    BY <1>0, <1>1, <1>4
  <2>2. down' = m \o k
    BY <1>0
  <2> HIDE DEF m
  <2>3. CASE k = <<>>
    <3>1. down' = m
      BY <2>1, <2>2, <2>3
    <3> QED
      BY <1>0, <1>1, <1>4, <2>1, <3>1
  <2>4. CASE k = <<r>>
    <3>1. /\ Len(down') = Len(m) + 1 /\ down'[Len(m) + 1] = r
          /\ \A i \in 1..Len(m) : down'[i] = m[i]
      BY <1>1, <2>1, <2>2, <2>4
    <3> QED
      BY <1>0, <1>1, <1>4, <2>1, <3>1
  <2> QED
    BY <1>2, <2>3, <2>4
<1> QED
  BY <1>3, <1>4

LEMMA EndFrames ==
  ASSUME TypeInv, FrameInv, Ends \/ TerminationFails
  PROVE  /\ FrameInv'
         /\ \A i \in 1..Len(down) : i \in 1..Len(down') /\ down'[i] = down[i]
         /\ Ends /\ sock \in host.subs => \E j \in 1..Len(down') :
              j > Len(down) /\ down'[j].who = "exit" /\ down'[j].gen = host.live
         /\ UNCHANGED <<sock, pend>>
<1>0. host.live \in Gen /\ UNCHANGED <<sock, pend>>
  BY HostRecordTypes DEF TypeInv, Ends, TerminationFails
<1>1. CASE Ends
  <2> DEFINE f == IF sock \in host.subs THEN <<Exit(host.live)>> ELSE <<>>
  <2>1. AnswersKill(TRUE, f) /\ (f = <<>> \/ f = <<Exit(host.live)>>)
        /\ (sock \in host.subs => f = <<Exit(host.live)>>)
    BY <1>1 DEF Ends
  <2>2. sock \notin host'.subs
    BY <1>1, EndsSubs
  <2> HIDE DEF f
  <2>3. /\ \A i \in 1..Len(down) : i \in 1..Len(down') /\ down'[i] = down[i]
        /\ \A i \in 1..Len(down') : i \in 1..Len(down) \/ down'[i].who \in {"kill", "exit"}
        /\ sock \in host.subs => /\ Len(down) + 1 \in 1..Len(down') /\ Len(down) + 1 > Len(down)
             /\ down'[Len(down) + 1].who = "exit" /\ down'[Len(down) + 1].gen = host.live
    BY <1>0, <2>1, AnswersKillIs
  <2>4. sock \in host.subs => \E j \in 1..Len(down') :
              j > Len(down) /\ down'[j].who = "exit" /\ down'[j].gen = host.live
    BY <2>3
  <2> QED
    BY <1>0, <2>2, <2>3, <2>4, FramesEnd
<1>2. CASE TerminationFails /\ ~Ends
  <2>1. AnswersKill(FALSE, <<>>) /\ host' = [host EXCEPT !.dying = 0] /\ host \in Record
    BY <1>2 DEF TerminationFails, TypeInv, HostTypes
  <2>2. SubsHeld
    BY <2>1 DEF SubsHeld, Record
  <2>3. /\ \A i \in 1..Len(down) : i \in 1..Len(down') /\ down'[i] = down[i]
        /\ \A i \in 1..Len(down') : i \in 1..Len(down) \/ down'[i].who = "kill"
    BY <1>0, <2>1, AnswersKillIs
  <2> QED
    BY <1>0, <1>2, <2>2, <2>3, FramesEnd
<1> QED
  BY <1>1, <1>2

(* Who only hears or asks. *)
LEMMA ClientFrames ==
  ASSUME TypeInv, NetInv, PartyInv, Next, ~HostSteps, ~Ends, ~TerminationFails, ~RivalCreates,
         ~LeaseExpires
  PROVE  /\ host' = host
         /\ \/ sock' = sock /\ (down' = down \/ (down # <<>> /\ down' = Tail(down)))
            \/ down' = <<>> /\ (Drops \/ Connect \/ ConnectFails)
<1>1. ASSUME Drops \/ Connect \/ ConnectFails PROVE host' = host /\ down' = <<>>
  BY <1>1, ConnectIs, ConnectFailsIs DEF Drops, NetInv, Quieted
<1>2. CASE LaneSteps
  <2>1. sock' = sock
    BY <1>2 DEF LaneSteps, AttachBegins, AttachAsks, AttachAnswered, AttachLost, DetachBegins,
       DetachAnswered, DetachLost
  <2> QED
    BY <1>2, <2>1, LaneTurns, LaneKill DEF Hears
<1>3. CASE KillSteps /\ ~Drops
  BY <1>3, KillTurns, KillStepsKill DEF Hears
<1>4. CASE SocketSteps /\ ~Connect
  <2>1. host' = host /\ sock' = sock /\ (down' = down \/ (down # <<>> /\ down' = Tail(down)))
    BY <1>4 DEF SocketSteps, Resend, Write, ReplayAnswered, ExitArrives, Hears
  <2> QED
    BY <2>1
<1>5. CASE World /\ ~ConnectFails /\ ~Drops
  <2>1. Breaks => Drops
    BY DEF Breaks, Drops, DropSocket, killVars
  <2> QED
    BY <1>5, <2>1 DEF World, Unsubscribe, Attach, Kill, netVars
<1> QED
  BY <1>1, <1>2, <1>3, <1>4, <1>5 DEF Next

LEMMA FrameStep ==
  ASSUME TypeInv, NetInv, KillInv, PartyInv, FrameInv, Next
  PROVE  FrameInv'
<1>1. CASE RivalCreates \/ LeaseExpires
  <2>1. UNCHANGED <<sock, down>>
    BY <1>1 DEF RivalCreates, LeaseExpires, netVars
  <2>2. host \in Record /\ (host.live = 0 => host.subs = {})
    BY DEF TypeInv, HostTypes, PartyInv, SocketsPast
  <2>3. SubsHeld
    <3>1. CASE LeaseExpires
      BY <2>2, <3>1 DEF LeaseExpires, SubsHeld, Record
    <3>2. CASE RivalCreates
      BY <2>2, <3>2 DEF RivalCreates, SubsHeld, Record
    <3> QED
      BY <1>1, <3>1, <3>2
  <2> QED
    BY <2>1, <2>3, FramesHeld
<1>2. CASE ~HostSteps /\ ~Ends /\ ~TerminationFails /\ ~RivalCreates /\ ~LeaseExpires
  <2>1. /\ host' = host
        /\ \/ sock' = sock /\ (down' = down \/ (down # <<>> /\ down' = Tail(down)))
           \/ down' = <<>>
    BY <1>2, ClientFrames
  <2>2. SubsHeld
    BY <2>1 DEF SubsHeld
  <2> QED
    BY <2>1, <2>2, FramesHeld, NoFrames
<1> QED
  BY <1>1, <1>2, HostFrames, EndFrames

-----------------------------------------------------------------------------
(* 5. The state object and the process it knows. *)

(* What becomes of the frames on the connection. *)
Extends == \A i \in 1..Len(down) : i \in 1..Len(down') /\ down'[i] = down[i]

Turned ==
  /\ down # <<>> /\ down' = Tail(down)
  /\ \/ Head(down).who = "lane" /\ (AttachAnswered \/ DetachAnswered)
     \/ Head(down).who = "replay" /\ ReplayAnswered
     \/ Head(down).who = "exit" /\ ExitArrives
     \/ Head(down).who = "kill" /\ KillSteps

LEMMA HostExtends ==
  ASSUME TypeInv, NetInv, KillInv, PartyInv, HostSteps
  PROVE  Extends
<1>0. down \in Seq(Frames) /\ SocketsPast
  BY DEF TypeInv, ConnTypes, PartyInv
<1>1. ASSUME NEW s \in Sockets, up[s] # <<>>, NEW ok \in BOOLEAN, NEW g \in Gen, Answers(s, ok, g)
      PROVE  Extends
  <2>1. down' = down \/ \E f \in Frames : down' = Append(down, f)
    BY <1>1, AnswersIs
  <2> QED
    BY <1>0, <2>1 DEF Extends
<1>2. ASSUME NEW s \in Sockets, HostAttaches(s) \/ HostAttachesExisting(s) PROVE Extends
  <2>1. up[s] # <<>> /\ \E ok \in BOOLEAN, g \in Gen : Answers(s, ok, g)
    BY <1>0, <1>2, AttachAnswers, SetFacts
  <2> QED
    BY <1>1, <2>1
<1>3. ASSUME NEW s \in Sockets, HostDetaches(s) PROVE Extends
  BY <1>1, <1>3, DetachAnswers, SetFacts
<1>4. ASSUME NEW s \in Sockets, HostKills(s) \/ HostIsProbed(s) PROVE Extends
  <2>1. up[s] # <<>> /\ ((\E ok \in BOOLEAN, g \in Gen : Answers(s, ok, g)) \/ down' = down)
    BY <1>4, KillAnswers DEF netVars
  <2> QED
    BY <1>0, <1>1, <2>1 DEF Extends
<1>5. ASSUME NEW s \in Sockets, HostCloses(s) PROVE Extends
  BY <1>0, <1>5, ClosesIs DEF Extends
<1> QED
  BY <1>2, <1>3, <1>4, <1>5 DEF HostSteps

LEMMA DownIs ==
  ASSUME TypeInv, NetInv, KillInv, PartyInv, FrameInv, Next, sock' = sock, sock # 0
  PROVE  Extends \/ Turned
<1>0. down' = down => Extends
  BY DEF Extends, TypeInv, ConnTypes
<1>1. ~Drops /\ ~Connect /\ ~ConnectFails
  BY ConnectIs, ConnectFailsIs DEF Drops
<1>2. CASE LaneSteps
  <2>1. down' # down => AttachAnswered \/ DetachAnswered
    BY <1>2 DEF LaneSteps, AttachBegins, AttachAsks, AttachLost, DetachBegins, DetachLost
  <2>2. down' # down => Hears("lane") /\ down' = Tail(down)
    BY <1>2, LaneTurns
  <2> QED
    BY <1>0, <2>1, <2>2 DEF Turned, Hears
<1>3. CASE KillSteps
  <2>1. down' # down => Hears("kill") /\ down' = Tail(down)
    BY <1>1, <1>3, KillTurns
  <2> QED
    BY <1>0, <1>3, <2>1 DEF Turned, Hears
<1>4. CASE SocketSteps
  <2>1. down' # down => (ReplayAnswered \/ ExitArrives)
    BY <1>1, <1>4 DEF SocketSteps, Resend, Write
  <2>2. ReplayAnswered => down' = Tail(down) /\ Hears("replay")
    BY DEF ReplayAnswered
  <2>3. ExitArrives => down' = Tail(down) /\ Hears("exit")
    BY DEF ExitArrives
  <2> QED
    BY <1>0, <2>1, <2>2, <2>3 DEF Turned, Hears
<1>5. CASE HostSteps
  BY <1>5, HostExtends
<1>6. CASE World
  <2>1. Breaks => Drops
    BY DEF Breaks, Drops, DropSocket, killVars
  <2>2. Ends \/ TerminationFails => Extends
    BY EndFrames DEF Extends
  <2>3. down' = down \/ Ends \/ TerminationFails
    BY <1>1, <1>6, <2>1 DEF World, Unsubscribe, Attach, Kill, RivalCreates, LeaseExpires, netVars
  <2> QED
    BY <1>0, <2>2, <2>3
<1> QED
  BY <1>2, <1>3, <1>4, <1>5, <1>6 DEF Next

(* A frame that is not heard is still on its way. *)
LEMMA FrameKept ==
  ASSUME TypeInv, Extends \/ Turned, NEW i \in 1..Len(down),
         i # 1 \/ ~Turned
  PROVE  \E j \in 1..Len(down') : down'[j] = down[i]
<1>1. CASE Extends
  BY <1>1 DEF Extends
<1>2. CASE Turned
  <2>1. i \in 2..Len(down)
    BY <1>2 DEF TypeInv, ConnTypes
  <2>2. down # <<>> /\ down' = Tail(down)
    BY <1>2 DEF Turned
  <2>3. \A j \in 2..Len(down) : j - 1 \in 1..Len(down') /\ down'[j - 1] = down[j]
    BY <2>2, TailIs
  <2> QED
    BY <2>1, <2>3
<1> QED
  BY <1>1, <1>2

(* The host goes on to send the process that lives to the client's          *)
(* connection until the process ends or the client detaches.               *)
LEMMA HostSends ==
  ASSUME TypeInv, NetInv, KillInv, PartyInv, Next, Sub
  PROVE  \/ host'.live = host.live /\ sock \in host'.subs
         \/ Ends
         \/ HostDetaches(sock)
<1>0. host \in Record /\ sock # 0 /\ sock \in host.subs /\ host.live # 0 /\ SocketsPast
  BY DEF TypeInv, HostTypes, PartyInv, SocketsPast, Sub
<1>1. ASSUME NEW s \in Sockets, HostAttaches(s) \/ HostAttachesExisting(s)
      PROVE  host'.live = host.live /\ sock \in host'.subs
  BY <1>0, <1>1, AttachAnswers
<1>2. ASSUME NEW s \in Sockets, HostDetaches(s), s # sock
      PROVE  host'.live = host.live /\ sock \in host'.subs
  BY <1>0, <1>2, DetachAnswers
<1>3. ASSUME NEW s \in Sockets, HostKills(s)
      PROVE  host'.live = host.live /\ sock \in host'.subs
  BY <1>0, <1>3, KillsSubs
<1>4. ASSUME NEW s \in Sockets, HostCloses(s)
      PROVE  host'.live = host.live /\ sock \in host'.subs
  BY <1>0, <1>4, ClosesIs
<1>5. ASSUME TerminationFails \/ LeaseExpires
      PROVE  host'.live = host.live /\ sock \in host'.subs
  <2>1. host' = [host EXCEPT !.dying = 0] \/ host' = [host EXCEPT !.lease = 0]
    BY <1>5 DEF TerminationFails, LeaseExpires
  <2> QED
    BY <1>0, <2>1 DEF Record
<1>6. ~RivalCreates
  BY <1>0 DEF RivalCreates
<1> QED
  BY <1>0, <1>1, <1>2, <1>3, <1>4, <1>5, <1>6, HostUntouched

(* The client detaches by a task of the lane, unless a replay is on. *)
LEMMA DetachTask ==
  ASSUME TypeInv, NetInv, KillInv, PartyInv, sock # 0, replay = 0, HostDetaches(sock)
  PROVE  /\ Runs("detach") /\ UNCHANGED <<task, lane, pend, sock>>
         /\ \E i \in 1..Len(down') : down'[i].who = "lane"
<1>0. sock \in Sockets /\ down \in Seq(Frames)
  BY DEF TypeInv, ConnTypes
<1>1. up[sock] # <<>> /\ Head(up[sock]).req.cmd = "detach" /\ Answers(sock, TRUE, 0)
  BY <1>0, DetachAnswers
<1>2. /\ Head(up[sock]).who \in Talks /\ Head(up[sock]).req = pend[Head(up[sock]).who].req
      /\ pend[Head(up[sock]).who].st = "sent"
  BY <1>1, HeadAsks
<1>3. Head(up[sock]).who # "replay"
  BY <1>2, WhatIsAsked DEF PartyInv, ReplayAsks
<1>4. Head(up[sock]).who = "lane" /\ LaneReq.cmd = "detach" /\ pend["lane"].st = "sent"
  BY <1>1, <1>2, <1>3 DEF Talks, LaneReq
<1>5. task.on
  BY <1>4, WhatIsAsked DEF NetInv, IdleWithout
<1>6. ~Runs("attach")
  BY <1>4, WhatIsAsked DEF PartyInv, TaskAsks
<1>7. Runs("detach")
  BY <1>5, <1>6, LaneHeadTypes DEF Runs, Job, PartyInv, TaskAsks
<1> DEFINE f == Reply(Head(up[sock]).who, TRUE, 0)
<1>8. down' = Append(down, f) /\ f \in Frames /\ f.who = "lane" /\ UNCHANGED <<task, lane, pend, sock>>
  BY <1>0, <1>1, <1>4, AnswersIs, SetFacts
<1> HIDE DEF f
<1>9. Len(down) + 1 \in 1..Len(down') /\ down'[Len(down) + 1] = f
  BY <1>0, <1>8
<1> QED
  BY <1>7, <1>8, <1>9

LEMMA ObjMoves ==
  ASSUME TypeInv, Next
  PROVE  \/ obj' \in {obj, 0}
         \/ obj = 0 /\ obj' = Len(asks) + 1 /\ states' = states
<1>1. CASE LaneSteps
  <2>1. ASSUME NEW a, AttachFails(a) PROVE obj' \in {obj, 0}
    BY <2>1 DEF AttachFails
  <2>2. ASSUME NEW a, NEW g, AttachSucceeds(a, g) PROVE obj' \in {obj, 0}
    BY <2>2 DEF AttachSucceeds
  <2>3. AttachAnswered => obj' \in {obj, 0}
    BY <2>1, <2>2 DEF AttachAnswered
  <2>4. AttachLost => obj' \in {obj, 0}
    BY <2>1 DEF AttachLost
  <2> QED
    BY <1>1, <2>3, <2>4 DEF LaneSteps, AttachBegins, AttachAsks, DetachBegins, DetachAnswered, DetachLost
<1>2. CASE KillSteps
  BY <1>2 DEF KillSteps, KillPrepares, KillProbed, KillNotPrepared, KillRetries, KillConfirmed,
     KillRefused, KillLost, AttemptFails, attachVars
<1>3. CASE SocketSteps
  <2>1. ReplayAnswered => obj' \in {obj, 0}
    BY ReplayIs DEF ReplayRefused, ReplayRestores
  <2>2. ExitArrives => obj' \in {obj, 0}
    BY DEF ExitArrives
  <2> QED
    BY <1>3, <2>1, <2>2 DEF SocketSteps, Connect, Resend, Write, attachVars
<1>4. CASE HostSteps
  BY <1>4, HostLeavesClient DEF attachVars
<1>5. CASE World
  BY <1>5 DEF World, Unsubscribe, Attach, Kill, Breaks, ConnectFails, Ends, TerminationFails,
     RivalCreates, LeaseExpires, attachVars
<1> QED
  BY <1>1, <1>2, <1>3, <1>4, <1>5 DEF Next

(* The state object that is attached on this connection was before the step,*)
(* or it was just attached.                                                *)
LEMMA OnSockIs ==
  ASSUME TypeInv, NetInv, RecordInv, PartyInv, Next, OnSock'
  PROVE  /\ sock' = sock /\ sock # 0 /\ ~Connect /\ ~Drops /\ ~ConnectFails
         /\ obj' = obj /\ obj # 0 /\ obj \in Asked
         /\ \/ OnSock /\ ObjGen' = ObjGen /\ states'[obj].on = states[obj].on
            \/ AttachAnswered /\ obj = asks[Head(lane).of].state /\ ObjGen' = Head(down).gen
            \/ ReplayAnswered /\ ReplayRestores(Head(down).gen) /\ obj = replay /\ ObjGen' = Head(down).gen
<1>0. sock' # 0 /\ obj' # 0 /\ states'[obj'].on = sock'
  BY DEF OnSock
<1>1. ~Drops /\ ~ConnectFails
  BY <1>0, ConnectFailsIs DEF Drops
<1>2. obj' \in Asked
  <2>1. TypeInv'
    BY TypeInvStep
  <2>2. (obj \in Call)'
    BY <2>1 DEF TypeInv, ViewTypes
  <2> QED
    BY <1>0, <2>2, SetFacts
<1>3. ~Connect
  BY <1>0, <1>2, ConnectIs, OnTypes DEF PartyInv, SocketsPast
<1>4. sock' = sock /\ sock # 0
  BY <1>0, <1>1, <1>3, Outcomes DEF Outcome, Who
<1>5. \/ states'[obj'] = states[obj']
      \/ /\ AttachAnswered /\ obj' = asks[Head(lane).of].state
         /\ states'[obj'].gen = Head(down).gen
      \/ /\ ReplayAnswered /\ ReplayRestores(Head(down).gen) /\ obj' = replay
         /\ states'[obj'].gen = Head(down).gen
  BY <1>0, <1>2, <1>4, StatesMove
<1>6. \/ obj' \in {obj, 0}
      \/ obj = 0 /\ obj' = Len(asks) + 1 /\ states' = states
  BY ObjMoves
<1>7. ~(obj = 0 /\ obj' = Len(asks) + 1 /\ states' = states)
  BY <1>0, <1>2, <1>4, RecordTypes DEF RecordInv, Naming
<1>8. obj' = obj
  BY <1>0, <1>6, <1>7
<1> QED
  BY <1>0, <1>1, <1>2, <1>3, <1>4, <1>5, <1>8 DEF OnSock, ObjGen

LEMMA ExitForgets ==
  ASSUME TypeInv, ExitArrives, Concerns(Head(down).gen), obj \in Asked
  PROVE  states'[obj].on = 0
<1> DEFINE told == Attached(joined)
           r == [gen |-> IF told = {} THEN Head(down).gen ELSE 0, on |-> 0,
                 exited |-> states[obj].exited \/ (told = {} /\ PreAck)]
<1>1. states' = [states EXCEPT ![obj] = r]
  BY DEF ExitArrives
<1>2. r.on = 0
  OBVIOUS
<1> HIDE DEF r
<1> QED
  BY <1>1, <1>2, RecordTypes

LEMMA RestoresIs ==
  ASSUME TypeInv, ReplayAnswered, ReplayRestores(Head(down).gen), obj = replay, obj # 0,
         states'[obj].on = sock, sock # 0, ReplayFirst, replay # 0
  PROVE  pend["replay"].req.cmd # "detach" /\ Head(down).ok /\ Attached(joined) # {}
<1>0. obj \in Asked /\ states[obj].on # sock /\ states \in [Asked -> State]
  BY RecordTypes DEF ReplayFirst
<1>1. states' # states
  BY <1>0
<1>2. ASSUME ReplayRefused PROVE FALSE
  <2>1. states' = SetState(replay, 0, 0)
    BY <1>2 DEF ReplayRefused, SetState
  <2>2. states'[obj].on = 0
    BY <1>0, <2>1, SetOn, SetFacts
  <2> QED
    BY <2>2
<1> QED
  BY <1>1, <1>2, ReplayIs

LEMMA DetachForgets ==
  ASSUME TypeInv, DetachAnswered
  PROVE  /\ lane # <<>> /\ Head(lane).does = "detach" /\ Head(lane).of \in Asked
         /\ Head(lane) = lane[1] /\ 1 \in 1..Len(lane)
         /\ \A x \in Asked :
              /\ states'[x].gen = states[x].gen
              /\ states'[x].on = IF x = Head(lane).of THEN 0 ELSE states[x].on
              /\ states'[x].exited = states[x].exited
<1>1. states' = [states EXCEPT ![Head(lane).of].on = 0] /\ lane # <<>> /\ Head(lane).does = "detach"
  BY DEF DetachAnswered, Runs
<1>2. Head(lane).of \in Asked
  BY <1>1, LaneHeadTypes
<1>3. Head(lane) = lane[1] /\ 1 \in 1..Len(lane)
  BY <1>1, RecordTypes
<1>4. \A x \in Asked :
        /\ states'[x].gen = states[x].gen
        /\ states'[x].on = IF x = Head(lane).of THEN 0 ELSE states[x].on
        /\ states'[x].exited = states[x].exited
  BY <1>1, <1>2, SetOnly
<1> QED
  BY <1>1, <1>2, <1>3, <1>4

(* The answer just heard says which process the state object knows.        *)
LEMMA TakenIsLive ==
  ASSUME TypeInv, FrameInv, host' = host, sock' = sock, down # <<>>, down' = Tail(down),
         Takes(down[1])
  PROVE  /\ down[1].gen # 0
         /\ \/ host'.live = down[1].gen /\ sock' \in host'.subs
            \/ \E i \in 1..Len(down') : down'[i].who = "exit" /\ down'[i].gen = down[1].gen
<1>1. 1 \in 1..Len(down) /\ Len(down) \in Nat
  BY TailIs
<1>2. /\ down[1].gen # 0
      /\ \/ host.live = down[1].gen /\ sock \in host.subs
         \/ \E j \in 1..Len(down) : j > 1 /\ down[j].who = "exit" /\ down[j].gen = down[1].gen
  BY <1>1 DEF FrameInv, TakesTrue
<1>3. ASSUME NEW j \in 1..Len(down), j > 1, down[j].who = "exit", down[j].gen = down[1].gen
      PROVE  \E i \in 1..Len(down') : down'[i].who = "exit" /\ down'[i].gen = down[1].gen
  <2>1. j \in 2..Len(down)
    BY <1>1, <1>3
  <2>2. j - 1 \in 1..Len(down') /\ down'[j - 1] = down[j]
    BY <2>1, TailIs
  <2> QED
    BY <1>3, <2>2
<1> QED
  BY <1>2, <1>3

(* A detach that is answered is heard by its task, which ends with it. *)
LEMMA DetachRunsOn ==
  ASSUME TypeInv, NetInv, PartyInv, Next, sock' = sock, sock # 0, DetachComing
  PROVE  \/ DetachAnswered
         \/ Runs("detach")' /\ ~AttachAnswered
<1>1. PICK i \in 1..Len(down) : down[i].who = "lane"
  BY DEF DetachComing
<1>2. pend["lane"].st = "sent" /\ Runs("detach")
  BY <1>1, SentOut DEF Who, DetachComing
<1>3. ~Runs("attach") /\ ~Turn("attach") /\ ~Turn("detach")
  BY <1>2 DEF Runs, Turn
<1>4. CASE LaneSteps
  BY <1>2, <1>3, <1>4 DEF LaneSteps, AttachBegins, AttachAsks, AttachAnswered, AttachLost, DetachBegins,
     DetachLost
<1>5. CASE ~LaneSteps
  <2>1. task' = task /\ lane' # <<>> /\ Head(lane') = Head(lane)
    BY <1>2, <1>5, TaskStays DEF PartyInv, Runs
  <2> QED
    BY <1>2, <1>3, <2>1 DEF Runs, AttachAnswered
<1> QED
  BY <1>4, <1>5

(* The state object that is attached now goes on to be, or is told.        *)
LEMMA OnLiveKept ==
  ASSUME TypeInv, NetInv, KillInv, RecordInv, PartyInv, FrameInv, OnLive, Next,
         OnSock, OnSock', sock' = sock, obj' = obj, ObjGen' = ObjGen
  PROVE  (host'.live = ObjGen /\ Sub') \/ ExitComing(ObjGen)' \/ DetachComing'
<1>0. /\ sock # 0 /\ obj # 0 /\ obj \in Asked /\ states[obj].on = sock /\ ObjGen # 0
      /\ states'[obj].on = sock
  BY RecordTypes DEF OnSock, OnLive
<1>1. Extends \/ Turned
  BY <1>0, DownIs
<1>2. replay = 0
  BY <1>0 DEF PartyInv, ReplayFirst
<1>3. CASE DetachComing
  <2>1. PICK i \in 1..Len(down) : down[i].who = "lane"
    BY <1>3 DEF DetachComing
  <2>2. ASSUME DetachAnswered PROVE FALSE
    <3>1. Head(lane).of = obj
      BY <2>2, DetachForgets DEF RecordInv, LaneOfObj, AttachesObj, IsDetach
    <3> QED
      BY <1>0, <2>2, <3>1, DetachForgets
  <2>3. Runs("detach")' /\ ~AttachAnswered
    BY <1>0, <1>3, <2>2, DetachRunsOn
  <2>4. i # 1 \/ ~Turned
    <3>1. Turned => Head(down) = down[1] /\ Head(down).who # "lane"
      BY <2>2, <2>3 DEF Turned, TypeInv, ConnTypes
    <3> QED
      BY <2>1, <3>1
  <2>5. \E j \in 1..Len(down') : down'[j] = down[i]
    BY <1>1, <2>4, FrameKept
  <2> QED
    BY <2>1, <2>3, <2>5 DEF DetachComing
<1>4. CASE ExitComing(ObjGen)
  <2>1. PICK i \in 1..Len(down) : down[i].who = "exit" /\ down[i].gen = ObjGen
    BY <1>4 DEF ExitComing
  <2>2. i # 1 \/ ~Turned
    <3> SUFFICES ASSUME i = 1, Turned PROVE FALSE
      OBVIOUS
    <3>1. Head(down) = down[1]
      BY DEF Turned, TypeInv, ConnTypes
    <3>2. ExitArrives /\ Head(down).gen = ObjGen
      BY <2>1, <3>1 DEF Turned
    <3>3. Concerns(Head(down).gen)
      BY <1>0, <3>2 DEF Concerns, Known, ObjGen
    <3>4. states'[obj].on = 0
      BY <1>0, <3>2, <3>3, ExitForgets
    <3> QED
      BY <1>0, <3>4
  <2>3. \E j \in 1..Len(down') : down'[j] = down[i]
    BY <1>1, <2>2, FrameKept
  <2>4. \E j \in 1..Len(down') : down'[j].who = "exit" /\ down'[j].gen = ObjGen
    BY <2>1, <2>3
  <2> QED
    BY <2>4 DEF ExitComing
<1>5. CASE host.live = ObjGen /\ Sub
  <2>1. CASE host'.live = host.live /\ sock \in host'.subs
    BY <1>0, <1>5, <2>1 DEF Sub
  <2>2. CASE Ends
    <3>1. \E j \in 1..Len(down') : down'[j].who = "exit" /\ down'[j].gen = ObjGen
      BY <1>5, <2>2, EndFrames DEF Sub
    <3> QED
      BY <3>1 DEF ExitComing
  <2>3. CASE HostDetaches(sock)
    <3>1. /\ Runs("detach") /\ UNCHANGED <<task, lane, pend, sock>>
          /\ \E i \in 1..Len(down') : down'[i].who = "lane"
      BY <1>0, <1>2, <2>3, DetachTask
    <3> QED
      BY <3>1 DEF DetachComing, Runs
  <2> QED
    BY <1>5, <2>1, <2>2, <2>3, HostSends
<1> QED
  BY <1>0, <1>3, <1>4, <1>5 DEF OnLive

LEMMA OnLiveStep ==
  ASSUME TypeInv, NetInv, KillInv, RecordInv, PartyInv, FrameInv, OnLive, Next
  PROVE  OnLive'
<1> SUFFICES ASSUME OnSock'
             PROVE  ObjGen' # 0 /\ ((host'.live = ObjGen' /\ Sub') \/ ExitComing(ObjGen)' \/ DetachComing')
  BY DEF OnLive
<1>1. /\ sock' = sock /\ sock # 0 /\ obj' = obj /\ obj # 0 /\ obj \in Asked
      /\ \/ OnSock /\ ObjGen' = ObjGen /\ states'[obj].on = states[obj].on
         \/ AttachAnswered /\ obj = asks[Head(lane).of].state /\ ObjGen' = Head(down).gen
         \/ ReplayAnswered /\ ReplayRestores(Head(down).gen) /\ obj = replay /\ ObjGen' = Head(down).gen
  BY OnSockIs
<1>2. CASE OnSock /\ ObjGen' = ObjGen
  <2>1. (host'.live = ObjGen /\ Sub') \/ ExitComing(ObjGen)' \/ DetachComing'
    BY <1>1, <1>2, OnLiveKept
  <2> QED
    BY <1>2, <2>1 DEF OnLive, ExitComing
<1>3. ASSUME down # <<>>, Takes(down[1]), down' = Tail(down), host' = host, ObjGen' = Head(down).gen
      PROVE  ObjGen' # 0 /\ ((host'.live = ObjGen' /\ Sub') \/ ExitComing(ObjGen)' \/ DetachComing')
  <2>1. /\ down[1].gen # 0
        /\ \/ host'.live = down[1].gen /\ sock' \in host'.subs
           \/ \E i \in 1..Len(down') : down'[i].who = "exit" /\ down'[i].gen = down[1].gen
    BY <1>1, <1>3, TakenIsLive
  <2>2. Head(down) = down[1]
    BY <1>3, TailIs
  <2> QED
    BY <1>1, <1>3, <2>1, <2>2 DEF Sub, ExitComing
<1>4. CASE AttachAnswered /\ ~(OnSock /\ ObjGen' = ObjGen)
  <2>1. Runs("attach") /\ Hears("lane") /\ down' = Tail(down) /\ host' = host
    BY <1>4 DEF AttachAnswered
  <2>2. Head(down).ok
    <3>1. AttachFails(Head(lane).of) => states' = states
      BY DEF AttachFails
    <3>2. AttachFails(Head(lane).of) => OnSock /\ ObjGen' = ObjGen
      BY <1>1, <3>1 DEF OnSock, ObjGen
    <3> QED
      BY <1>4, <3>2 DEF AttachAnswered
  <2>3. Takes(down[1]) /\ down # <<>>
    BY <2>1, <2>2, AttachHeard DEF FrameInv, Hears
  <2> QED
    BY <1>1, <1>3, <1>4, <2>1, <2>3
<1>5. CASE ReplayAnswered /\ ReplayRestores(Head(down).gen) /\ obj = replay /\ ObjGen' = Head(down).gen
           /\ ~(OnSock /\ ObjGen' = ObjGen)
  <2>1. Hears("replay") /\ down' = Tail(down) /\ host' = host /\ replay # 0 /\ down # <<>>
    BY <1>5, ReplayIs, ReplayHeard DEF PartyInv
  <2>2. pend["replay"].req.cmd # "detach" /\ Head(down).ok /\ Attached(joined) # {}
    BY <1>1, <1>5, <2>1, RestoresIs DEF PartyInv, OnSock
  <2>3. Takes(down[1])
    BY <1>1, <2>1, <2>2, RestoresSame DEF FrameInv, PartyInv
  <2> QED
    BY <1>3, <1>5, <2>1, <2>3
<1> QED
  BY <1>1, <1>2, <1>4, <1>5

LEMMA BarrierLifts ==
  ASSUME TypeInv, Next, barrier, ~barrier'
  PROVE  KillConfirmed \/ pend["kill"].st = "lost"
<1>1. CASE KillSteps
  BY <1>1 DEF KillSteps, KillPrepares, KillProbed, KillNotPrepared, KillRetries, KillRefused, KillLost,
     AttemptFails, killVars
<1>2. LaneSteps => barrier' = barrier
  BY LaneKill
<1>3. SocketSteps => barrier' = barrier
  BY SocketKill DEF killVars
<1>4. HostSteps => barrier' = barrier
  BY HostLeavesClient DEF killVars
<1>5. World => barrier' \in {barrier, TRUE}
  BY DEF World, Unsubscribe, Attach, Kill, Breaks, ConnectFails, Ends, TerminationFails,
     RivalCreates, LeaseExpires, killVars
<1> QED
  BY <1>1, <1>2, <1>3, <1>4, <1>5 DEF Next

LEMMA AnsweredJoined ==
  ASSUME TypeInv, NetInv, RecordInv, PartyInv, TakesTrue, JoinedOn, AttachAnswered,
         sock # 0, replay = 0, ~barrier, Attached(joined') # {}
  PROVE  obj' = obj /\ obj # 0 /\ states'[obj].on = sock
<1> DEFINE a == Head(lane).of
           o == asks[a].state
<1>0. /\ lane # <<>> /\ Head(lane).does = "attach" /\ Hears("lane") /\ Runs("attach")
      /\ a \in 1..Len(asks) /\ a \in Asked /\ o \in Asked /\ asks[a].sub \in Subs
      /\ sock \in Sockets \union {0} /\ states \in [Asked -> State]
  BY LaneHeadTypes, RecordTypes DEF AttachAnswered, Runs, TypeInv, ConnTypes
<1>1. ASSUME Attached(joined) # {} PROVE OnSock
  BY <1>1 DEF JoinedOn
<1>2. CASE AttachFails(a)
  <2>1. states' = states /\ Shows
    BY <1>0, <1>2, FailsShows DEF AttachFails
  <2> QED
    BY <1>1, <2>1 DEF Shows, OnSock
<1>3. CASE AttachSucceeds(a, Head(down).gen)
  <2>1. Head(down).gen \in Gen /\ states' = SetState(o, Head(down).gen, sock) /\ obj' = obj
    BY <1>0, <1>3, AttachHeard DEF AttachSucceeds, SetState
  <2>2. \A x \in Asked : states'[x].on = IF x = o THEN sock ELSE states[x].on
    BY <1>0, <2>1, SetOn
  <2>3. CASE Mine(a)
    <3>1. obj # 0 /\ o = obj
      <4>1. entry[asks[a].sub] = a /\ a # 0
        BY <1>0, <2>3, RecordTypes DEF Mine
      <4> QED
        BY <1>0, <4>1 DEF TypeInv, NamesKept, RecordInv, Entries
    <3> QED
      BY <1>0, <2>1, <2>2, <3>1
  <2>4. CASE ~Mine(a)
    <3>1. joined' = joined
      BY <1>3, <2>4 DEF AttachSucceeds
    <3>2. OnSock
      BY <1>1, <3>1 DEF Attached
    <3> QED
      BY <2>1, <2>2, <3>2, RecordTypes DEF OnSock
  <2> QED
    BY <2>3, <2>4
<1> QED
  BY <1>2, <1>3 DEF AttachAnswered

LEMMA JoinedOnStep ==
  ASSUME TypeInv, NetInv, KillInv, RecordInv, PartyInv, TakesTrue, JoinedOn, Next
  PROVE  JoinedOn'
<1> SUFFICES ASSUME sock' # 0, replay' = 0, ~barrier', Attached(joined') # {}
             PROVE  obj' # 0 /\ states'[obj'].on = sock'
  BY DEF JoinedOn, OnSock
<1>0. ~Drops /\ ~ConnectFails
  BY ConnectFailsIs DEF Drops
<1>1. CASE AttachAnswered
  <2>1. UNCHANGED <<sock, replay, barrier>>
    BY <1>1 DEF AttachAnswered
  <2> QED
    BY <1>1, <2>1, AnsweredJoined
<1>2. CASE ~AttachAnswered
  <2>1. Attached(joined) # {} /\ obj' = obj /\ obj # 0 /\ obj \in Asked
    BY <1>2, ShowsSame, RecordTypes DEF Shows
  <2>2. ~Connect
    <3> SUFFICES ASSUME Connect PROVE FALSE
      OBVIOUS
    <3>1. barrier' = barrier /\ (Replays => replay' = obj)
      BY ConnectIs
    <3> QED
      BY <2>1, <3>1 DEF Replays
  <2>3. sock' = sock /\ (replay' # replay => ReplayAnswered)
    BY <1>0, <2>2, Outcomes DEF Outcome, Who
  <2>4. CASE replay # 0
    <3>1. obj = replay /\ pend["replay"].req.cmd = "existing" /\ ReplayAnswered
      BY <2>1, <2>3, <2>4 DEF PartyInv, ReplayFirst
    <3>2. ~ReplayRefused
      <4> SUFFICES ASSUME ReplayRefused PROVE FALSE
        OBVIOUS
      <4>1. joined' = [s \in Subs |-> 0]
        BY <3>1 DEF ReplayRefused
      <4> QED
        BY <4>1 DEF Attached
    <3>3. ReplayRestores(Head(down).gen) /\ down # <<>>
      BY <2>1, <2>4, <3>1, <3>2, ReplayIs
    <3>4. states' = SetState(replay, Head(down).gen, sock) /\ Head(down).gen \in Gen
          /\ sock \in Sockets \union {0}
      BY <3>3, HeadFrameTypes DEF ReplayRestores, SetState, TypeInv, ConnTypes
    <3>5. states'[replay].on = sock
      BY <2>1, <3>1, <3>4, SetOn
    <3> QED
      BY <2>1, <2>3, <3>1, <3>5
  <2>5. CASE replay = 0
    <3>1. ~ReplayAnswered
      BY <2>5, ReplayIs, ReplayHeard DEF PartyInv
    <3>2. ~KillConfirmed
      BY DEF KillConfirmed, Attached
    <3>3. ~barrier
      BY <2>3, <3>2, BarrierLifts DEF PartyInv, LostIsDown, Who
    <3>4. OnSock
      BY <2>1, <2>3, <2>5, <3>3 DEF JoinedOn
    <3>5. ~DetachAnswered
      <4> SUFFICES ASSUME DetachAnswered PROVE FALSE
        OBVIOUS
      <4>1. lane # <<>> /\ Head(lane).does = "detach"
        BY DEF DetachAnswered, Runs
      <4>2. Head(lane) = lane[1] /\ 1 \in 1..Len(lane)
        BY <4>1, RecordTypes
      <4> QED
        BY <2>1, <4>1, <4>2 DEF RecordInv, LaneOfObj, AttachesObj
    <3>6. ~(ExitArrives /\ Concerns(Head(down).gen))
      BY DEF ExitArrives, Attached
    <3>7. states'[obj] = states[obj]
      BY <1>2, <2>1, <3>1, <3>2, <3>5, <3>6, StatesMove
    <3> QED
      BY <2>1, <2>3, <3>4, <3>7 DEF OnSock
  <2> QED
    BY <2>4, <2>5
<1> QED
  BY <1>1, <1>2

-----------------------------------------------------------------------------
(* 6. Whoever has an entry is attached to the process that lives, and is   *)
(* sent its output.                                                        *)

LEMMA ViewsInit ==
  ASSUME Init
  PROVE  ViewsInv
<1>1. /\ sock = 0 /\ replay = 0 /\ obj = 0 /\ task = NoTask /\ task.on = FALSE
      /\ lane = <<>> /\ asks = <<>> /\ down = <<>> /\ Len(lane) = 0 /\ Len(asks) = 0 /\ Len(down) = 0
      /\ \A w \in Who : pend[w] = Idle
      /\ \A s \in Subs : entry[s] = 0 /\ joined[s] = 0
      /\ \A o \in Asked : states[o].on = 0 /\ states[o].exited = FALSE
      /\ host.live = 0 /\ host.subs = {} /\ tried = 0
  BY DEF Init, NoTask, NoState
<1>2. RecordInv
  BY <1>1 DEF RecordInv, Naming, Entries, Joinings, Queued, InOrder, LaneOfObj, Attached, OnSock
<1>3. PartyInv
  BY <1>1, WhatIsAsked
  DEF PartyInv, TaskAsks, ReplayAsks, LostIsDown, ReplayFirst, UpAsks, SocketsPast, AskedSame, Runs, Who
<1>4. FrameInv
  BY <1>1 DEF FrameInv, TakesTrue, ExitsPast, DetachIsDone
<1>5. OnLive /\ JoinedOn
  BY <1>1 DEF OnLive, JoinedOn, OnSock
<1> QED
  BY <1>2, <1>3, <1>4, <1>5 DEF ViewsInv

LEMMA ViewsStep ==
  ASSUME BaseInv, ViewsInv, [Next]_vars
  PROVE  ViewsInv'
<1>1. CASE Next
  <2>0. /\ TypeInv /\ NetInv /\ KillInv /\ RecordInv /\ PartyInv /\ FrameInv /\ OnLive /\ JoinedOn
        /\ TakesTrue
    BY DEF BaseInv, ViewsInv, FrameInv
  <2>1. TypeInv'
    BY <2>0, TypeInvStep
  <2>2. RecordInv' /\ PartyInv'
    BY <1>1, <2>0, <2>1, RecordStep, PartyStep
  <2>3. FrameInv' /\ OnLive' /\ JoinedOn'
    BY <1>1, <2>0, FrameStep, OnLiveStep, JoinedOnStep
  <2> QED
    BY <2>2, <2>3 DEF ViewsInv
<1>2. CASE UNCHANGED vars
  <2>1. /\ UNCHANGED <<sock, tried, replay, pend, up, down, asks, entry, joined, obj, states, lane, task>>
        /\ UNCHANGED <<barrier, host>>
    BY <1>2 DEF vars, netVars, attachVars, killVars
  <2>2. RecordInv'
    BY <2>1 DEF ViewsInv, RecordInv, Naming, Entries, Joinings, Queued, InOrder, LaneOfObj, Attached,
       OnSock, ObjGen, AttachesObj, IsAttach, IsDetach
  <2>3. PartyInv'
    BY <2>1 DEF ViewsInv, PartyInv, TaskAsks, ReplayAsks, LostIsDown, ReplayFirst, UpAsks, SocketsPast,
       AskedSame, Runs, LaneReq, ObjGen, Attached
  <2>4. FrameInv'
    BY <2>1 DEF ViewsInv, FrameInv, TakesTrue, ExitsPast, DetachIsDone, Takes, Sub
  <2>5. OnLive' /\ JoinedOn'
    BY <2>1 DEF ViewsInv, OnLive, JoinedOn, OnSock, ObjGen, Sub, ExitComing, DetachComing, Runs, Attached
  <2> QED
    BY <2>2, <2>3, <2>4, <2>5 DEF ViewsInv
<1> QED
  BY <1>1, <1>2

(* When nothing is on its way there is no replay, and nobody is queued.    *)
LEMMA WhenQuiet ==
  ASSUME BaseInv, ViewsInv, Quiet
  PROVE  /\ replay = 0 /\ sock # 0 /\ lane = <<>> /\ Len(lane) = 0 /\ Len(down) = 0
         /\ \A s \in Subs : entry[s] # 0 => joined[s] # 0
<1>1. pend["replay"].st = "none" /\ sock # 0 /\ Len(lane) = 0 /\ Len(down) = 0 /\ lane = <<>>
  BY WhatIsAsked DEF Quiet, Who
<1> QED
  BY <1>1 DEF ViewsInv, PartyInv, ReplayAsks, RecordInv, Queued

LEMMA QuietViewsHear ==
  ASSUME BaseInv, ViewsInv
  PROVE  ViewsHear
<1> SUFFICES ASSUME Quiet, ~barrier, NEW s \in Subs, entry[s] # 0
             PROVE  joined[s] \in {host.live} \ {0} /\ sock \in host.subs
  BY DEF ViewsHear
<1>1. joined[s] # 0 /\ sock # 0 /\ replay = 0 /\ Len(down) = 0
  BY WhenQuiet
<1>2. OnSock
  BY <1>1 DEF ViewsInv, JoinedOn, Attached
<1>3. joined[s] = ObjGen
  BY <1>1 DEF ViewsInv, RecordInv, Joinings
<1>4. host.live = ObjGen /\ Sub
  BY <1>1, <1>2 DEF ViewsInv, OnLive, ExitComing, DetachComing
<1> QED
  BY <1>1, <1>3, <1>4 DEF Sub

(* The invariant holds of every behaviour. *)
LEMMA AllViews == Spec => [](BaseInv /\ ViewsInv)
<1>1. Init => ViewsInv
  BY ViewsInit
<1>2. BaseInv /\ ViewsInv /\ [Next]_vars => ViewsInv'
  BY ViewsStep
<1>3. BaseInv <=> TypeInv /\ NetInv /\ KillInv
  BY DEF BaseInv
<1> QED
  BY <1>1, <1>2, <1>3, AllInv, PTL DEF Spec

(* Once all is quiet, unless a kill is in doubt, a terminal that has an     *)
(* entry is attached to the process that lives, and the host sends that     *)
(* process's output to the connection the client holds: the record of the   *)
(* name (attachSubscriber, restoreSocket, handleExit, clearLocalSessionState)*)
(* is never left behind by what was lost on the way.                       *)
THEOREM ViewsAlwaysHear == Spec => []ViewsHear
<1>1. BaseInv /\ ViewsInv => ViewsHear
  BY QuietViewsHear
<1> QED
  BY <1>1, AllViews, PTL

-----------------------------------------------------------------------------
(* 7. No subscription is left that nobody here owns. *)

(* The two ways to a ghost that NoGhost names. *)
Exempt == host.live \in dropped \/ \E o \in Asked : states[o].exited

(* A detach is to come for what the host sends here. *)
Detaching ==
  \/ \E i \in 1..Len(lane) : lane[i].does = "detach" /\ states[lane[i].of].on = sock
  \/ replay # 0 /\ pend["replay"].req.cmd = "detach"

Owned == Sub => Exempt \/ OkComing \/ OnSock \/ Detaching

(* The current state object owns the subscription, and the process it is of *)
(* is the target of the kill in doubt; an attach that has still to ask the  *)
(* host, one that has, and one that is refused.                            *)
Held    == Sub /\ OnSock /\ ~OkComing
Doomed  == op # 0 /\ plans[op].prepared /\ plans[op].gen = host.live
Unasked == lane # <<>> /\ Head(lane).does = "attach" /\ (~task.on \/ LaneReq = NoRequest)
Refusal == \E i \in 1..Len(down) : down[i].who = "lane" /\ ~down[i].ok

(* An attach of the state object that owns the subscription asks for the    *)
(* process that lives, so that only a kill refuses it: it is not the one to *)
(* take the entry from under the subscription.                             *)
AtAsk     == Held /\ Unasked => Exempt \/ Doomed \/ Attached(joined) # {}
AskedLive == Held /\ Runs("attach") /\ LaneReq # NoRequest =>
               Exempt \/ Doomed \/ (LaneReq.cmd = "existing" /\ LaneReq.gen = host.live)
RefusedDoomed == Held /\ Runs("attach") /\ Refusal => Exempt \/ Doomed

GhostInv == Owned /\ AtAsk /\ AskedLive /\ RefusedDoomed

LEMMA ViewsParts ==
  ASSUME BaseInv, ViewsInv
  PROVE  /\ TypeInv /\ NetInv /\ KillInv /\ RecordInv /\ PartyInv /\ FrameInv /\ OnLive /\ JoinedOn
         /\ TakesTrue /\ ReplayAsks /\ ReplayFirst /\ TaskAsks
         /\ LostIsDown /\ SocketsPast /\ Entries /\ LaneOfObj
BY DEF BaseInv, ViewsInv, FrameInv, PartyInv, RecordInv

(* What the client hears of while it holds the subscription. *)
LEMMA HeldLive ==
  ASSUME BaseInv, ViewsInv, Held
  PROVE  /\ host.live = ObjGen /\ ObjGen # 0 /\ sock # 0 /\ obj # 0 /\ obj \in Asked /\ replay = 0
         /\ states[obj].on = sock
         /\ \A i \in 1..Len(down) : ~Takes(down[i]) /\ down[i].who # "exit"
<1>0. TypeInv /\ PartyInv /\ FrameInv /\ OnLive
  BY DEF BaseInv, ViewsInv
<1>1. sock # 0 /\ obj # 0 /\ obj \in Asked /\ states[obj].on = sock
  BY <1>0, RecordTypes DEF Held, OnSock
<1>2. replay = 0
  BY <1>0, <1>1 DEF PartyInv, ReplayFirst
<1>3. \A i \in 1..Len(down) : ~Takes(down[i])
  BY DEF Held, OkComing
<1>4. \A i \in 1..Len(down) : down[i].who # "exit"
  BY <1>0, <1>3 DEF FrameInv, ExitsPast, Held
<1>5. ~DetachComing
  BY <1>0 DEF DetachComing, PartyInv, TaskAsks, LaneReq, FrameInv, DetachIsDone, Talks, Held, Sub
<1>6. ~ExitComing(ObjGen)
  BY <1>4 DEF ExitComing
<1> QED
  BY <1>0, <1>1, <1>2, <1>3, <1>4, <1>5, <1>6 DEF OnLive, Held

(* No subscription comes to be but by an answer that says so. *)
LEMMA StillSub ==
  ASSUME BaseInv, ViewsInv, Next, Sub', ~OkComing'
  PROVE  /\ Sub /\ sock' = sock /\ sock # 0 /\ host'.live = host.live
         /\ ~Connect /\ ~Drops /\ ~ConnectFails
<1>0. /\ TypeInv /\ NetInv /\ KillInv /\ PartyInv /\ SocketsPast
      /\ host \in Record /\ sock' # 0 /\ sock' \in host'.subs /\ down \in Seq(Frames)
  BY ViewsParts DEF Sub, TypeInv, HostTypes, ConnTypes
<1>1. ~Drops /\ ~ConnectFails
  BY <1>0, ConnectFailsIs DEF Drops
<1>2. ~Connect
  <2> SUFFICES ASSUME Connect PROVE FALSE
    OBVIOUS
  <2>1. sock' = tried + 1 /\ host' = host /\ tried \in Nat
    BY <1>0, ConnectIs, OnTypes
  <2> QED
    BY <1>0, <2>1 DEF SocketsPast
<1>3. sock' = sock /\ sock # 0
  BY <1>0, <1>1, <1>2, Outcomes DEF Outcome, Who
<1>4. ASSUME NEW g \in Gen, g # 0, up[sock] # <<>>, Head(up[sock]).req.cmd \in {"attach", "existing"},
             Answers(sock, TRUE, g)
      PROVE  OkComing'
  <2> DEFINE f == Reply(Head(up[sock]).who, TRUE, g)
  <2>1. /\ Head(up[sock]).who \in Talks
        /\ pend[Head(up[sock]).who].req.cmd \in {"attach", "existing"}
    BY <1>0, <1>3, <1>4, HeadAsks
  <2>2. sock \in Sockets
    BY <1>0, <1>3 DEF TypeInv, ConnTypes
  <2>3. down' = Append(down, f) /\ f \in Frames /\ pend' = pend /\ f.who = Head(up[sock]).who /\ f.ok = TRUE
    BY <1>0, <1>3, <1>4, <2>2, AnswersIs
  <2> HIDE DEF f
  <2>4. Len(down) + 1 \in 1..Len(down') /\ down'[Len(down) + 1] = f
    BY <1>0, <2>3
  <2> QED
    BY <2>1, <2>3, <2>4 DEF OkComing, Takes
<1>5. ASSUME NEW s \in Sockets, HostAttaches(s) \/ HostAttachesExisting(s)
      PROVE  Sub /\ host'.live = host.live
  <2>1. ASSUME NEW g \in Gen, Answers(s, TRUE, g), g # 0, host'.live = g,
               \/ host.live = g /\ host'.subs = host.subs \union {s}
               \/ host.live = 0 /\ host'.subs = {s}
        PROVE  Sub /\ host'.live = host.live
    <3>1. s # sock
      BY <1>0, <1>4, <1>5, <2>1, AttachAnswers
    <3> QED
      BY <1>0, <1>3, <2>1, <3>1 DEF Sub
  <2>2. ASSUME host'.live = host.live, host'.subs = host.subs
        PROVE  Sub /\ host'.live = host.live
    BY <1>0, <1>3, <2>2 DEF Sub
  <2> QED
    BY <1>0, <1>5, <2>1, <2>2, AttachAnswers
<1>6. ASSUME NEW s \in Sockets, HostDetaches(s) PROVE Sub /\ host'.live = host.live
  BY <1>0, <1>3, <1>6, DetachAnswers DEF Sub
<1>7. ASSUME NEW s \in Sockets, HostKills(s) PROVE Sub /\ host'.live = host.live
  BY <1>0, <1>3, <1>7, KillsSubs DEF Sub
<1>8. ASSUME NEW s \in Sockets, HostCloses(s) PROVE Sub /\ host'.live = host.live
  BY <1>0, <1>3, <1>8, ClosesIs DEF Sub
<1>9. ~Ends
  BY <1>0, EndsSubs
<1>10. ASSUME TerminationFails \/ LeaseExpires PROVE Sub /\ host'.live = host.live
  <2>1. host' = [host EXCEPT !.dying = 0] \/ host' = [host EXCEPT !.lease = 0]
    BY <1>10 DEF TerminationFails, LeaseExpires
  <2> QED
    BY <1>0, <1>3, <2>1 DEF Record, Sub
<1>11. ~RivalCreates
  <2> SUFFICES ASSUME RivalCreates PROVE FALSE
    OBVIOUS
  <2>1. host'.subs = host.subs /\ host.subs = {}
    BY <1>0 DEF RivalCreates, Record, SocketsPast
  <2> QED
    BY <1>0, <2>1
<1>12. host' = host => Sub /\ host'.live = host.live
  BY <1>0, <1>3 DEF Sub
<1> QED
  BY <1>0, <1>1, <1>2, <1>3, <1>5, <1>6, <1>7, <1>8, <1>9, <1>10, <1>11, <1>12, HostUntouched

(* An answer that says so is heard by who asked. *)
LEMMA OkHeard ==
  ASSUME BaseInv, ViewsInv, Next, sock' = sock, sock # 0, OkComing, ~OkComing'
  PROVE  /\ Takes(down[1]) /\ down # <<>> /\ Head(down) = down[1] /\ Head(down).ok
         /\ \/ AttachAnswered /\ down[1].who = "lane"
            \/ ReplayAnswered /\ down[1].who = "replay"
<1>0. TypeInv /\ NetInv /\ KillInv /\ PartyInv /\ FrameInv /\ TaskAsks
  BY ViewsParts
<1>1. PICK i \in 1..Len(down) : Takes(down[i])
  BY DEF OkComing
<1>2. Extends \/ Turned
  BY <1>0, DownIs
<1>3. i = 1 /\ Turned
  <2> SUFFICES ASSUME i # 1 \/ ~Turned PROVE FALSE
    OBVIOUS
  <2>1. PICK j \in 1..Len(down') : down'[j] = down[i]
    BY <1>0, <1>2, FrameKept
  <2>2. i # 1 \/ down' # Tail(down)
    <3> SUFFICES ASSUME i = 1, down' = Tail(down) PROVE FALSE
      OBVIOUS
    <3>1. Extends /\ Len(down') = Len(down) - 1 /\ Len(down) \in Nat /\ 1 \in 1..Len(down)
      BY <1>0, <1>1, <1>2 DEF TypeInv, ConnTypes
    <3>2. Len(down) \in 1..Len(down')
      BY <3>1 DEF Extends
    <3> QED
      BY <3>1, <3>2
  <2>3. pend'[down[i].who] = pend[down[i].who]
    BY <1>0, <1>1, <2>2, StillAsked DEF Takes
  <2> QED
    BY <1>1, <2>1, <2>3 DEF OkComing, Takes
<1>4. down # <<>> /\ Head(down) = down[1] /\ Takes(down[1])
  BY <1>0, <1>1, <1>3 DEF Turned, TypeInv, ConnTypes
<1>5. ~DetachAnswered \/ down[1].who # "lane"
  BY <1>0, <1>4 DEF DetachAnswered, TaskAsks, LaneReq, Takes
<1> QED
  BY <1>3, <1>4, <1>5 DEF Turned, Takes, Talks

(* A step after which the client has the subscription, has heard of all the *)
(* host granted, and neither of the two ways to a ghost was taken.          *)
Remains == Next /\ Sub' /\ ~OkComing' /\ ~Exempt'

LEMMA DroppedGrows ==
  ASSUME TypeInv, Next
  PROVE  dropped \subseteq dropped'
<1>1. CASE LaneSteps
  BY <1>1, LaneKill
<1>2. CASE KillSteps
  BY <1>2 DEF KillSteps, KillPrepares, KillProbed, KillNotPrepared, KillRetries, KillConfirmed,
     KillRefused, KillLost, AttemptFails, killVars
<1>3. CASE SocketSteps
  BY <1>3, SocketKill DEF killVars
<1>4. CASE HostSteps
  BY <1>4, HostLeavesClient DEF killVars
<1>5. CASE World
  BY <1>5 DEF World, Unsubscribe, Attach, Kill, Breaks, ConnectFails, Ends, TerminationFails,
     RivalCreates, LeaseExpires, killVars
<1> QED
  BY <1>1, <1>2, <1>3, <1>4, <1>5 DEF Next

LEMMA StillHere ==
  ASSUME BaseInv, ViewsInv, Remains
  PROVE  /\ Next /\ Sub /\ sock' = sock /\ sock # 0 /\ host'.live = host.live
         /\ ~Connect /\ ~Drops /\ ~ConnectFails
         /\ ~Exempt /\ host.live \notin dropped' /\ \A o \in Asked : states[o].exited = FALSE
<1>0. TypeInv /\ NetInv /\ Next
  BY ViewsParts DEF Remains
<1>1. /\ Sub /\ sock' = sock /\ sock # 0 /\ host'.live = host.live
      /\ ~Connect /\ ~Drops /\ ~ConnectFails
  BY StillSub DEF Remains
<1>2. host.live \notin dropped' /\ \A o \in Asked : ~states'[o].exited
  BY <1>1 DEF Remains, Exempt
<1>3. ASSUME NEW o \in Asked PROVE states[o].exited = FALSE
  <2>1. states[o].exited => states'[o].exited
    BY <1>0, StatesMove
  <2> QED
    BY <1>0, <1>2, <2>1, OnTypes
<1>4. dropped \subseteq dropped'
  BY <1>0, DroppedGrows
<1> QED
  BY <1>0, <1>1, <1>2, <1>3, <1>4 DEF Exempt

(* A kill is not told to be done under a subscription that is held: the     *)
(* attached would be taken from their views, and an attach that is under   *)
(* way would have been refused because of it.                              *)
LEMMA NotKilledHere ==
  ASSUME BaseInv, ViewsInv, RefusedDoomed, Held, Remains, KillConfirmed
  PROVE  FALSE
<1>0. /\ TypeInv /\ NetInv /\ KillInv /\ PartyInv /\ FrameInv /\ TaskAsks /\ LostIsDown /\ Entries
      /\ RecordInv
  BY ViewsParts DEF ViewsInv
<1>1. /\ host.live = ObjGen /\ ObjGen # 0 /\ sock # 0 /\ obj # 0 /\ replay = 0
      /\ \A i \in 1..Len(down) : ~Takes(down[i]) /\ down[i].who # "exit"
  BY HeldLive
<1>2. host.live \notin dropped' /\ ~Exempt /\ Sub
  BY StillHere
<1>3. Attached(joined) = {}
  <2> SUFFICES ASSUME NEW s \in Subs, joined[s] # 0 PROVE FALSE
    BY DEF Attached
  <2>1. joined[s] = host.live
    BY <1>0, <1>1 DEF RecordInv, Joinings
  <2>2. joined[s] \in dropped'
    BY DEF KillConfirmed, Attached
  <2> QED
    BY <1>2, <2>1, <2>2
<1>4. lane # <<>>
  <2>1. PICK s \in Subs : entry[s] # 0
    BY <1>0, <1>1 DEF Entries, Attached
  <2>2. joined[s] = 0
    BY <1>3 DEF Attached
  <2>3. \E i \in 1..Len(lane) : IsAttach(lane[i], entry[s])
    BY <1>0, <2>1, <2>2 DEF RecordInv, Queued
  <2> QED
    BY <2>3
<1>5. /\ Hears("kill") /\ Flushed /\ Written /\ Settled /\ task.on /\ Ready
      /\ killing.st = "confirm"
  BY <1>1, <1>4 DEF KillConfirmed, Hears, Flushed, Written, Settled, Ready
<1>6. pend["lane"].st = "sent"
  <2>1. pend["lane"].st \in {"none", "await", "unsent", "sent", "lost"}
    BY <1>0, TypeInvFacts DEF Who
  <2>2. pend["lane"].st \notin {"none", "await", "unsent", "lost"}
    BY <1>0, <1>5 DEF TaskAsks, Settled, Written, Who
  <2> QED
    BY <2>1, <2>2
<1>7. up[sock] = <<>>
  <2> SUFFICES ASSUME sock \in Waiting, up[sock] # <<>> PROVE FALSE
    BY <1>1, <1>5 DEF Flushed
  <2>1. Head(up[sock]).req.cmd = "kill"
    BY DEF Waiting, Asks
  <2>2. Head(up[sock]) = up[sock][1] /\ 1 \in 1..Len(up[sock]) /\ Head(up[sock]).who = "kill"
    BY <1>0, <1>1, <2>1, HeadAsks
  <2> QED
    BY <1>0, <1>5, <2>2, Heard DEF Who
<1>8. PICK i \in 1..Len(down) : down[i].who = "lane"
  <2>1. Coming("lane") = 1
    BY <1>0, <1>1, <1>6 DEF NetInv, OneAnswerEach, Who
  <2>2. Carries(up[sock], "lane") = 0
    BY <1>7, CarriesNothing
  <2>3. Carries(down, "lane") # 0
    BY <1>0, <2>1, <2>2, ComingIs, CountTypes
  <2> QED
    BY <1>0, <2>3, CountTypes
<1>9. Runs("attach")
  <2>1. Head(lane).does \in {"attach", "detach"}
    BY <1>0, <1>4, RecordTypes
  <2>2. ~Runs("detach")
    BY <1>0, <1>2, <1>8 DEF TaskAsks, FrameInv, DetachIsDone, Talks, LaneReq, Sub
  <2> QED
    BY <1>4, <1>5, <2>1, <2>2 DEF Runs
<1>10. Refusal
  <2>1. LaneReq.cmd \in {"attach", "existing"}
    BY <1>0, <1>6, <1>9 DEF TaskAsks
  <2>2. ~down[i].ok
    BY <1>1, <1>8, <2>1 DEF Takes, Talks, LaneReq
  <2> QED
    BY <1>8, <2>2 DEF Refusal
<1>11. Doomed
  BY <1>2, <1>9, <1>10 DEF RefusedDoomed
<1>12. op = killing.op
  BY <1>0, <1>5, <1>11 DEF KillInv, InDoubt, Doomed
<1>13. Plan.gen = host.live /\ host.live # 0
  BY <1>1, <1>11, <1>12 DEF Doomed, Plan
<1> QED
  BY <1>0, <1>13, ConfirmedIsDone DEF Gone

(* Once the client has heard that it is subscribed, it owns the             *)
(* subscription or is to detach.                                           *)
LEMMA OwnedOnceHeard ==
  ASSUME BaseInv, ViewsInv, Remains, OkComing
  PROVE  OnSock' \/ Detaching'
<1>0. TypeInv /\ NetInv /\ KillInv /\ PartyInv /\ ReplayAsks /\ Entries
  BY ViewsParts
<1>1. Next /\ sock' = sock /\ sock # 0 /\ sock \in Sockets /\ \A o \in Asked : states[o].exited = FALSE
  BY <1>0, StillHere DEF TypeInv, ConnTypes
<1>2. Takes(down[1]) /\ down # <<>> /\ Head(down) = down[1] /\ Head(down).ok /\ Head(down).gen \in Gen
  BY <1>0, <1>1, OkHeard, HeadFrameTypes DEF Remains
<1>3. CASE AttachAnswered
  <2> DEFINE a == Head(lane).of
             o == asks[a].state
             g == Head(down).gen
  <2>0. /\ lane # <<>> /\ a \in Asked /\ o \in Asked /\ o # 0 /\ a # 0 /\ asks[a].sub \in Subs
    BY <1>0, <1>3, LaneHeadTypes, RecordTypes DEF AttachAnswered, Runs
  <2>1. AttachSucceeds(a, g)
    <3>1. states[o].exited = FALSE
      BY <1>1, <2>0
    <3> QED
      BY <1>2, <1>3, <3>1 DEF AttachAnswered
  <2>2. states'[o].on = sock' /\ obj' = obj
    <3>1. states' = SetState(o, g, sock) /\ obj' = obj
      BY <2>1 DEF AttachSucceeds, SetState
    <3> QED
      BY <1>0, <1>1, <1>2, <2>0, <3>1, SetOn
  <2>3. CASE o = obj
    BY <1>1, <2>0, <2>2, <2>3 DEF OnSock
  <2>4. CASE o # obj
    <3>1. ~Mine(a)
      BY <1>0, <2>0, <2>4 DEF Mine, Entries
    <3>2. lane' = <<DetachOf(o)>> \o Tail(lane)
      BY <2>1, <2>4, <3>1 DEF AttachSucceeds, TaskDetaches
    <3> HIDE DEF o
    <3>3. Replaced(o)
      BY <2>0, <3>2 DEF Replaced
    <3>4. lane'[1].does = "detach" /\ lane'[1].of = o /\ 1 \in 1..Len(lane')
      BY <1>0, <2>0, <3>3, ReplacedLane
    <3> QED
      BY <2>2, <3>4 DEF Detaching
  <2> QED
    BY <2>3, <2>4
<1>4. CASE ReplayAnswered /\ down[1].who = "replay"
  <2>1. replay # 0 /\ replay \in Asked
    BY <1>0, <1>4, ReplayIs, ReplayHeard, RecordTypes
  <2>2. pend["replay"].req.cmd \in {"attach", "existing"}
    BY <1>2, <1>4 DEF Takes
  <2>3. CASE replay' = replay /\ pend'["replay"] = Unsent(Request("detach", 0, 0))
    <3>1. pend'["replay"].req.cmd = "detach"
      BY <2>3 DEF Unsent, Request
    <3> QED
      BY <2>1, <2>3, <3>1 DEF Detaching
  <2>4. CASE obj = replay /\ ReplayRestores(Head(down).gen)
    <3>1. states' = SetState(replay, Head(down).gen, sock) /\ obj' = obj
      BY <2>4 DEF ReplayRestores, SetState
    <3>2. states'[replay].on = sock
      BY <1>0, <1>1, <1>2, <2>1, <3>1, SetOn
    <3> QED
      BY <1>1, <2>1, <2>4, <3>1, <3>2 DEF OnSock
  <2> QED
    BY <1>0, <1>2, <1>4, <2>2, <2>3, <2>4, ReplayIs
<1> QED
  BY <1>0, <1>1, <1>3, <1>4, OkHeard DEF Remains

LEMMA ObjLeaves ==
  ASSUME TypeInv, Next, obj # 0, obj' # obj
  PROVE  \/ AttachAnswered \/ AttachLost \/ ReplayAnswered \/ ExitArrives \/ KillConfirmed
         \/ \E s \in Subs : Unsubscribe(s)
<1>1. CASE LaneSteps
  BY <1>1 DEF LaneSteps, AttachBegins, AttachAsks, DetachBegins, DetachAnswered, DetachLost
<1>2. CASE KillSteps
  BY <1>2 DEF KillSteps, KillPrepares, KillProbed, KillNotPrepared, KillRetries, KillConfirmed,
     KillRefused, KillLost, AttemptFails, attachVars
<1>3. CASE SocketSteps
  BY <1>3 DEF SocketSteps, Connect, Resend, Write, attachVars
<1>4. CASE HostSteps
  BY <1>4, HostLeavesClient DEF attachVars
<1>5. CASE World
  BY <1>5 DEF World, Unsubscribe, Attach, Kill, Breaks, ConnectFails, Ends, TerminationFails,
     RivalCreates, LeaseExpires, attachVars
<1> QED
  BY <1>1, <1>2, <1>3, <1>4, <1>5 DEF Next

(* Nothing that is answered while the subscription is held is a grant or a  *)
(* detach.                                                                 *)
LEMMA HeldHears ==
  ASSUME BaseInv, ViewsInv, Held
  PROVE  /\ ~DetachAnswered /\ ~ReplayAnswered /\ ~ExitArrives
         /\ ~AttachLost /\ ~DetachLost
         /\ AttachAnswered => ~Head(down).ok /\ Refusal /\ Runs("attach") /\ AttachFails(Head(lane).of)
<1>0. /\ TypeInv /\ NetInv /\ KillInv /\ PartyInv /\ FrameInv /\ TaskAsks /\ LostIsDown /\ ReplayAsks
      /\ RecordInv /\ TakesTrue
  BY ViewsParts DEF ViewsInv
<1>1. /\ sock # 0 /\ obj # 0 /\ replay = 0
      /\ \A i \in 1..Len(down) : ~Takes(down[i]) /\ down[i].who # "exit"
  BY HeldLive
<1>2. ~DetachAnswered
  <2> SUFFICES ASSUME DetachAnswered PROVE FALSE
    OBVIOUS
  <2>1. Hears("lane") /\ Runs("detach")
    BY DEF DetachAnswered
  <2>2. 1 \in 1..Len(down) /\ down[1].who = "lane"
    BY <1>0, <2>1, Heard DEF Who
  <2> QED
    BY <1>0, <2>1, <2>2 DEF FrameInv, DetachIsDone, TaskAsks, LaneReq, Talks, Held, Sub
<1>3. ~ReplayAnswered
  BY <1>0, <1>1, ReplayIs, ReplayHeard
<1>4. ~ExitArrives
  <2> SUFFICES ASSUME ExitArrives PROVE FALSE
    OBVIOUS
  <2>1. down # <<>> /\ Head(down).who = "exit" /\ down \in Seq(Frames)
    BY <1>0 DEF ExitArrives, Hears, TypeInv, ConnTypes
  <2>2. 1 \in 1..Len(down) /\ Head(down) = down[1]
    BY <2>1
  <2> QED
    BY <1>1, <2>1, <2>2
<1>5. ~AttachLost /\ ~DetachLost
  BY <1>0, <1>1 DEF LostIsDown, AttachLost, DetachLost, Who
<1>6. ASSUME AttachAnswered
      PROVE  ~Head(down).ok /\ Refusal /\ Runs("attach") /\ AttachFails(Head(lane).of)
  <2>1. Hears("lane") /\ Runs("attach")
    BY <1>6 DEF AttachAnswered
  <2>2. /\ Head(down) = down[1] /\ 1 \in 1..Len(down) /\ down[1].who = "lane"
        /\ Head(down).ok => Takes(down[1])
    BY <1>0, <2>1, AttachHeard
  <2>3. ~Head(down).ok
    BY <1>1, <2>2
  <2>4. AttachFails(Head(lane).of)
    BY <1>6, <2>3 DEF AttachAnswered
  <2> QED
    BY <2>1, <2>2, <2>3, <2>4 DEF Refusal
<1> QED
  BY <1>2, <1>3, <1>4, <1>5, <1>6

LEMMA OwnedKept ==
  ASSUME BaseInv, ViewsInv, RefusedDoomed, Remains, Held
  PROVE  OnSock' \/ Detaching'
<1>0. TypeInv /\ NetInv /\ KillInv
  BY ViewsParts
<1>1. /\ sock # 0 /\ obj # 0 /\ obj \in Asked /\ states[obj].on = sock
  BY HeldLive
<1>2. Next /\ sock' = sock
  BY StillHere
<1>3. /\ ~DetachAnswered /\ ~ReplayAnswered /\ ~ExitArrives /\ ~AttachLost /\ ~KillConfirmed
      /\ AttachAnswered => AttachFails(Head(lane).of) /\ Runs("attach")
  BY HeldHears, NotKilledHere
<1>4. states'[obj].on = sock
  BY <1>0, <1>1, <1>2, <1>3, StatesMove
<1>5. CASE obj' = obj
  BY <1>1, <1>2, <1>4, <1>5 DEF OnSock
<1>6. CASE AttachAnswered /\ obj' # obj
  <2> DEFINE o == asks[Head(lane).of].state
  <2>1. lane # <<>> /\ o = obj /\ lane' = <<DetachOf(o)>> \o Tail(lane)
    BY <1>3, <1>6 DEF AttachFails, TaskDetaches, Runs
  <2>2. Replaced(obj)
    BY <2>1 DEF Replaced
  <2>3. lane'[1].does = "detach" /\ lane'[1].of = obj /\ 1 \in 1..Len(lane')
    BY <1>0, <1>1, <2>2, ReplacedLane
  <2> QED
    BY <1>2, <1>4, <2>3 DEF Detaching
<1>7. ASSUME NEW s \in Subs, Unsubscribe(s), obj' # obj PROVE Detaching'
  <2>1. lane' = Append(lane, [does |-> "detach", of |-> obj])
    BY <1>7 DEF Unsubscribe, DetachOf
  <2>2. Len(lane') = Len(lane) + 1 /\ lane'[Len(lane')].does = "detach" /\ lane'[Len(lane')].of = obj
    BY <1>0, <1>1, <2>1, AppendedLane
  <2>3. Len(lane') \in 1..Len(lane')
    BY <1>0, <2>2, RecordTypes
  <2> QED
    BY <1>2, <1>4, <2>2, <2>3 DEF Detaching
<1> QED
  BY <1>0, <1>1, <1>2, <1>3, <1>5, <1>6, <1>7, ObjLeaves

(* Other steps add to the lane, and only they take from what is attached.   *)
LEMMA LaneGrows ==
  ASSUME TypeInv, Next, ~LaneSteps
  PROVE  lane' = lane \/ \E s \in Subs : Unsubscribe(s) \/ \E create \in BOOLEAN : Attach(s, create)
<1>1. CASE KillSteps
  BY <1>1 DEF KillSteps, KillPrepares, KillProbed, KillNotPrepared, KillRetries, KillConfirmed,
     KillRefused, KillLost, AttemptFails, attachVars
<1>2. CASE SocketSteps
  BY <1>2 DEF SocketSteps, Connect, Resend, Write, ReplayAnswered, ExitArrives, attachVars
<1>3. CASE HostSteps
  BY <1>3, HostLeavesClient DEF attachVars
<1>4. CASE World
  BY <1>4 DEF World, Kill, Breaks, ConnectFails, Ends, TerminationFails,
     RivalCreates, LeaseExpires, attachVars
<1> QED
  BY <1>1, <1>2, <1>3, <1>4 DEF Next

LEMMA JoinedLeaves ==
  ASSUME TypeInv, Next, joined' # joined
  PROVE  \/ AttachAnswered \/ ReplayAnswered \/ ExitArrives \/ KillConfirmed
         \/ \E s \in Subs : Unsubscribe(s)
<1>1. CASE LaneSteps
  BY <1>1 DEF LaneSteps, AttachBegins, AttachAsks, AttachLost, AttachFails, DetachBegins,
     DetachAnswered, DetachLost
<1>2. CASE KillSteps
  BY <1>2 DEF KillSteps, KillPrepares, KillProbed, KillNotPrepared, KillRetries, KillConfirmed,
     KillRefused, KillLost, AttemptFails, attachVars
<1>3. CASE SocketSteps
  BY <1>3 DEF SocketSteps, Connect, Resend, Write, attachVars
<1>4. CASE HostSteps
  BY <1>4, HostLeavesClient DEF attachVars
<1>5. CASE World
  BY <1>5 DEF World, Unsubscribe, Attach, Kill, Breaks, ConnectFails, Ends, TerminationFails,
     RivalCreates, LeaseExpires, attachVars
<1> QED
  BY <1>1, <1>2, <1>3, <1>4, <1>5 DEF Next

(* A detach of what is attached on this connection stays in the lane until  *)
(* it is answered.                                                         *)
LEMMA DetachStays ==
  ASSUME TypeInv, Next, ~DetachAnswered, ~DetachLost, sock # 0, NEW i \in 1..Len(lane),
         lane[i].does = "detach", states[lane[i].of].on = sock
  PROVE  \E j \in 1..Len(lane') : lane'[j] = lane[i]
<1>0. Len(lane) \in Nat /\ lane \in Seq(Job)
  BY RecordTypes
<1>1. CASE LaneSteps
  <2>1. ASSUME i # 1, NEW o \in Asked, Shortened \/ Replaced(o)
        PROVE  \E j \in 1..Len(lane') : lane'[j] = lane[i]
    <3>1. i \in 2..Len(lane)
      BY <1>0, <2>1
    <3>2. CASE Shortened
      BY <3>1, <3>2, ShortenedLane
    <3>3. CASE Replaced(o)
      <4>1. i \in 1..Len(lane') /\ lane'[i] = lane[i]
        BY <3>1, <3>3, ReplacedLane
      <4> QED
        BY <4>1
    <3> QED
      BY <2>1, <3>2, <3>3
  <2>2. lane # <<>> /\ Head(lane) = lane[1]
    BY <1>0
  <2>3. ASSUME NEW a \in Asked, asks[a].state \in Asked, AttachFails(a) \/ AttachSucceeds(a, Head(down).gen)
        PROVE  \E o \in Asked : Shortened \/ Replaced(o)
    BY <2>2, <2>3 DEF AttachFails, AttachSucceeds, TaskDetaches, TaskEnds, Shortened, Replaced
  <2>4. ASSUME AttachBegins \/ AttachAsks \/ AttachAnswered \/ AttachLost
        PROVE  i # 1 /\ (lane' = lane \/ \E o \in Asked : Shortened \/ Replaced(o))
    <3>1. Head(lane).does = "attach"
      BY <2>4 DEF AttachBegins, AttachAsks, AttachAnswered, AttachLost, Runs, Turn
    <3>2. Head(lane).of \in Asked /\ asks[Head(lane).of].state \in Asked
      BY <2>2, <3>1, LaneHeadTypes
    <3>3. AttachAnswered => AttachFails(Head(lane).of) \/ AttachSucceeds(Head(lane).of, Head(down).gen)
      BY DEF AttachAnswered
    <3>4. AttachLost => lane' = lane \/ AttachFails(Head(lane).of)
      BY DEF AttachLost
    <3>5. AttachBegins \/ AttachAsks => lane' = lane \/ Shortened
      BY <2>2 DEF AttachBegins, AttachAsks, TaskEnds, Shortened
    <3> QED
      BY <2>2, <2>3, <2>4, <3>1, <3>2, <3>3, <3>4, <3>5
  <2>5. ASSUME DetachBegins PROVE lane' = lane \/ (i # 1 /\ Shortened)
    <3>1. lane' = lane \/ (Shortened /\ ~(sock # 0 /\ states[Head(lane).of].on = sock))
      BY <2>2, <2>5 DEF DetachBegins, TaskEnds, Shortened
    <3> QED
      BY <2>2, <3>1
  <2>6. lane' = lane \/ (i # 1 /\ \E o \in Asked : Shortened \/ Replaced(o))
    <3>1. Head(lane).of \in Asked
      BY <2>2, LaneHeadTypes
    <3> QED
      BY <1>1, <2>4, <2>5, <3>1 DEF LaneSteps
  <2> QED
    BY <2>1, <2>6
<1>2. CASE ~LaneSteps
  <2>1. lane' = lane \/ \E e : lane' = Append(lane, e)
    BY <1>2, LaneGrows DEF Unsubscribe, Attach
  <2> QED
    BY <1>0, <2>1
<1> QED
  BY <1>1, <1>2

(* A detach that is to come stays to come until the host has done it, and   *)
(* the state object it is of stays attached on this connection.             *)
LEMMA OwnedLeft ==
  ASSUME BaseInv, ViewsInv, Remains, ~OkComing, ~OnSock, Detaching
  PROVE  Detaching'
<1>0. /\ TypeInv /\ NetInv /\ KillInv /\ PartyInv /\ FrameInv /\ TaskAsks /\ LostIsDown /\ ReplayAsks
      /\ ReplayFirst
  BY ViewsParts DEF ViewsInv
<1>1. /\ Next /\ sock' = sock /\ sock # 0 /\ sock \in host.subs /\ ~Connect /\ ~Drops /\ ~ConnectFails
  BY StillHere DEF Sub
<1>2. ~DetachAnswered /\ ~DetachLost
  <2>1. ~DetachLost
    BY <1>0, <1>1 DEF LostIsDown, DetachLost, Who
  <2>2. ASSUME DetachAnswered PROVE FALSE
    <3>1. Hears("lane") /\ Runs("detach")
      BY <2>2 DEF DetachAnswered
    <3>2. 1 \in 1..Len(down) /\ down[1].who = "lane"
      BY <1>0, <3>1, Heard DEF Who
    <3> QED
      BY <1>0, <1>1, <3>1, <3>2 DEF FrameInv, DetachIsDone, TaskAsks, LaneReq, Talks
  <2> QED
    BY <2>1, <2>2
<1>3. ASSUME NEW i \in 1..Len(lane), lane[i].does = "detach", states[lane[i].of].on = sock
      PROVE  Detaching'
  <2> DEFINE o == lane[i].of
  <2>0. o \in Asked
    BY <1>0, RecordTypes
  <2>1. PICK j \in 1..Len(lane') : lane'[j] = lane[i]
    BY <1>0, <1>1, <1>2, <1>3, DetachStays
  <2>2. o # obj
    BY <1>1, <1>3, <2>0, <1>0, RecordTypes DEF OnSock
  <2>3. replay = 0
    BY <1>0, <1>3, <2>0 DEF ReplayFirst
  <2>4. ~ReplayAnswered
    BY <1>0, <2>3, ReplayIs, ReplayHeard
  <2>5. ASSUME KillConfirmed PROVE states'[o].on = sock
    <3>1. states' = states \/ (obj # 0 /\ states' = [states EXCEPT ![obj].on = 0])
      BY <2>5 DEF KillConfirmed
    <3>2. CASE states' = states
      BY <1>3, <3>2
    <3>3. CASE obj # 0 /\ states' = [states EXCEPT ![obj].on = 0]
      <4>1. obj \in Asked
        BY <1>0, <3>3, RecordTypes
      <4>2. states'[o].on = states[o].on
        BY <1>0, <2>0, <2>2, <3>3, <4>1, SetOnly, SetFacts
      <4> QED
        BY <1>3, <4>2
    <3> QED
      BY <3>1, <3>2, <3>3
  <2> HIDE DEF o
  <2>6. states'[o].on = sock
    <3>1. states[o].on = sock
      BY <1>3 DEF o
    <3> QED
      BY <1>0, <1>1, <1>2, <2>0, <2>2, <2>4, <2>5, <3>1, StatesMove
  <2>7. lane'[j].does = "detach" /\ lane'[j].of = o
    BY <1>3, <2>1 DEF o
  <2> QED
    BY <1>1, <2>6, <2>7 DEF Detaching
<1>4. ASSUME replay # 0, pend["replay"].req.cmd = "detach" PROVE Detaching'
  <2>1. ~ReplayAnswered
    <3> SUFFICES ASSUME ReplayAnswered PROVE FALSE
      OBVIOUS
    <3>1. 1 \in 1..Len(down) /\ down[1].who = "replay"
      BY <1>0, ReplayIs, Heard DEF Who
    <3> QED
      BY <1>0, <1>1, <1>4, <3>1 DEF FrameInv, DetachIsDone, Talks
  <2>2. replay' = replay /\ (pend'["replay"] = pend["replay"] \/ Resend("replay") \/ Write("replay"))
    BY <1>0, <1>1, <2>1, Outcomes DEF Outcome, Acts, Who
  <2>3. pend'["replay"].req = pend["replay"].req
    <3>1. CASE Resend("replay")
      <4>1. pend'["replay"] = Unsent(pend["replay"].req)
        BY <1>0, <3>1, ResendIs DEF Who
      <4> QED
        BY <4>1 DEF Unsent
    <3>2. CASE Write("replay")
      BY <1>0, <3>2, WriteIs DEF Who
    <3> QED
      BY <2>2, <3>1, <3>2
  <2> QED
    BY <1>4, <2>2, <2>3 DEF Detaching
<1> QED
  BY <1>3, <1>4 DEF Detaching

LEMMA OwnedStep ==
  ASSUME BaseInv, ViewsInv, GhostInv, Remains
  PROVE  OnSock' \/ Detaching'
<1>1. Sub /\ ~Exempt
  BY StillHere
<1>2. CASE OkComing
  BY <1>2, OwnedOnceHeard
<1>3. CASE ~OkComing /\ OnSock
  BY <1>1, <1>3, OwnedKept DEF Held, GhostInv
<1>4. CASE ~OkComing /\ ~OnSock
  <2>1. Detaching
    BY <1>1, <1>4 DEF GhostInv, Owned
  <2> QED
    BY <1>4, <2>1, OwnedLeft
<1> QED
  BY <1>2, <1>3, <1>4

(* The operation in doubt stays so while the subscription is held: no       *)
(* replacement is attached, and none is confirmed.                         *)
LEMMA DoomedStays ==
  ASSUME BaseInv, ViewsInv, RefusedDoomed, Remains, Held, Doomed
  PROVE  Doomed'
<1>0. TypeInv /\ NetInv /\ KillInv /\ LostIsDown
  BY ViewsParts
<1>1. Next /\ host'.live = host.live /\ host.live # 0 /\ sock # 0 /\ op # 0
  BY StillHere, HeldLive DEF Doomed
<1>2. op' = op
  <2>1. CASE LaneSteps
    <3>1. AttachAnswered => AttachFails(Head(lane).of)
      BY HeldHears
    <3>2. ~AttachLost /\ ~DetachAnswered /\ ~DetachLost
      BY HeldHears
    <3> QED
      BY <2>1, <3>1, <3>2 DEF LaneSteps, AttachBegins, AttachAsks, AttachAnswered, AttachFails,
         DetachBegins, killVars
  <2>2. CASE KillSteps
    <3>1. ~KillConfirmed
      BY NotKilledHere
    <3>2. ~KillNotPrepared
      BY <1>0, <1>1 DEF LostIsDown, KillNotPrepared, Who
    <3> QED
      BY <2>2, <3>1, <3>2 DEF KillSteps, KillPrepares, KillProbed, KillRetries, KillRefused, KillLost,
         AttemptFails, killVars
  <2>3. CASE SocketSteps
    BY <1>0, <2>3, SocketKill DEF killVars
  <2>4. CASE HostSteps
    BY <1>0, <2>4, HostLeavesClient DEF killVars
  <2>5. CASE World
    BY <1>1, <2>5 DEF World, Unsubscribe, Attach, Kill, Breaks, ConnectFails, Ends, TerminationFails,
       RivalCreates, LeaseExpires, killVars
  <2> QED
    BY <1>1, <2>1, <2>2, <2>3, <2>4, <2>5 DEF Next
<1>3. op \in 1..Len(plans)
  <2>1. op <= Len(plans) /\ op \in Op /\ plans \in Seq(Identities)
    BY <1>0 DEF TypeInv, NamesKept, KillTypes
  <2> QED
    BY <1>1, <2>1, SetFacts
<1>4. plans'[op].prepared /\ plans'[op].gen = plans[op].gen
  BY <1>0, <1>1, <1>3, PlansMoves DEF PlansMove, Doomed
<1> QED
  BY <1>1, <1>2, <1>4 DEF Doomed

(* The client owns the subscription after the step because it did before,   *)
(* or because it has just heard of it.                                     *)
LEMMA HeldBefore ==
  ASSUME BaseInv, ViewsInv, Remains, ~OkComing, OnSock'
  PROVE  Held
<1>0. /\ TypeInv /\ NetInv /\ KillInv /\ RecordInv /\ PartyInv /\ ReplayAsks /\ ReplayFirst /\ TakesTrue
  BY ViewsParts DEF ViewsInv
<1>1. Next /\ Sub /\ sock' = sock /\ sock # 0
  BY StillHere
<1>2. obj' = obj /\ obj # 0 /\ obj \in Asked /\ states'[obj].on = sock
  BY <1>0, <1>1, OnSockIs DEF OnSock
<1>3. CASE AttachAnswered
  <2>1. Hears("lane") /\ Runs("attach")
    BY <1>3 DEF AttachAnswered
  <2>2. Head(down) = down[1] /\ 1 \in 1..Len(down) /\ (Head(down).ok => Takes(down[1]))
    BY <1>0, <2>1, AttachHeard
  <2>3. AttachFails(Head(lane).of)
    BY <1>3, <2>2 DEF AttachAnswered, OkComing
  <2>4. states' = states
    BY <2>3 DEF AttachFails
  <2> QED
    BY <1>1, <1>2, <2>4 DEF Held, OnSock
<1>4. CASE ReplayAnswered /\ ReplayRestores(Head(down).gen) /\ obj = replay
  <2>1. pend["replay"].req.cmd # "detach" /\ Head(down).ok
    BY <1>0, <1>1, <1>2, <1>4, RestoresIs
  <2>2. Head(down) = down[1] /\ 1 \in 1..Len(down) /\ down[1].who = "replay"
    BY <1>0, <1>4, ReplayIs, Heard DEF Who
  <2>3. pend["replay"].req.cmd = "existing"
    BY <1>0, <1>2, <1>4, <2>1 DEF ReplayAsks
  <2> QED
    BY <2>1, <2>2, <2>3 DEF OkComing, Takes, Talks
<1>5. CASE OnSock
  BY <1>1, <1>5 DEF Held
<1> QED
  BY <1>0, <1>1, <1>3, <1>4, <1>5, OnSockIs

(* A replay restores the terminals that are attached.                       *)
LEMMA RestoredShows ==
  ASSUME BaseInv, ViewsInv, Remains, OnSock', ReplayAnswered
  PROVE  Attached(joined') # {} /\ UNCHANGED <<joined, lane, task>>
<1>0. /\ TypeInv /\ NetInv /\ RecordInv /\ PartyInv /\ ReplayAsks /\ ReplayFirst
  BY ViewsParts DEF ViewsInv
<1>1. Next /\ sock' = sock /\ sock # 0
  BY StillHere
<1>2. obj' = obj /\ obj # 0 /\ obj \in Asked /\ states'[obj].on = sock
  BY <1>0, <1>1, OnSockIs DEF OnSock
<1>3. replay # 0
  BY <1>0, ReplayIs, ReplayHeard
<1>4. states[obj].on # sock
  BY <1>0, <1>2, <1>3 DEF ReplayFirst
<1>5. ReplayRestores(Head(down).gen) /\ obj = replay
  BY <1>0, <1>1, <1>2, <1>4, OnSockIs DEF OnSock, AttachAnswered, ReplayAnswered, Hears
<1>6. Attached(joined) # {}
  BY <1>0, <1>1, <1>2, <1>3, <1>5, RestoresIs
<1> QED
  BY <1>0, <1>5, <1>6, ReplayIs DEF ReplayRestores

LEMMA AtAskOnceHeard ==
  ASSUME BaseInv, ViewsInv, Remains, OkComing, OnSock', Unasked'
  PROVE  Attached(joined') # {}
<1>0. /\ TypeInv /\ NetInv /\ KillInv /\ RecordInv /\ PartyInv /\ TakesTrue
  BY ViewsParts DEF ViewsInv
<1>1. Next /\ sock' = sock /\ sock # 0 /\ \A o \in Asked : states[o].exited = FALSE
  BY <1>0, StillHere
<1>2. Head(down).ok /\ (AttachAnswered \/ ReplayAnswered)
  BY <1>1, OkHeard DEF Remains
<1>3. CASE AttachAnswered
  <2> DEFINE a == Head(lane).of
             o == asks[a].state
             g == Head(down).gen
  <2>0. Hears("lane") /\ Runs("attach") /\ lane # <<>> /\ Head(lane).does = "attach"
    BY <1>3 DEF AttachAnswered, Runs
  <2>1. o \in Asked /\ asks[a].sub \in Subs
    BY <1>0, <2>0, LaneHeadTypes
  <2>2. g # 0
    BY <1>0, <1>2, <2>0, AttachHeard
  <2>3. AttachSucceeds(a, g)
    BY <1>1, <1>2, <1>3, <2>1 DEF AttachAnswered
  <2>4. CASE Mine(a)
    <3>1. joined' = [joined EXCEPT ![asks[a].sub] = g]
      BY <2>3, <2>4 DEF AttachSucceeds
    <3>2. joined'[asks[a].sub] = g
      BY <1>0, <2>1, <3>1, RecordTypes
    <3> QED
      BY <2>1, <2>2, <3>2 DEF Attached
  <2>5. CASE ~Mine(a)
    <3>1. joined' = joined
      BY <2>3, <2>5 DEF AttachSucceeds
    <3>2. ASSUME Attached(joined) = {} PROVE FALSE
      <4>1. lane' = <<DetachOf(o)>> \o Tail(lane)
        BY <2>3, <2>5, <3>2 DEF AttachSucceeds, TaskDetaches
      <4>2. Replaced(o)
        BY <2>0, <4>1 DEF Replaced
      <4>3. lane'[1].does = "detach"
        BY <1>0, <2>1, <4>2, ReplacedLane
      <4>4. lane' \in Seq(Job)
        <5>1. TypeInv'
          BY <1>0, <1>1, TypeInvStep
        <5> QED
          BY <5>1 DEF TypeInv, ViewTypes
      <4>5. Head(lane') = lane'[1]
        BY <4>4 DEF Unasked
      <4> QED
        BY <4>3, <4>5 DEF Unasked
    <3> QED
      BY <3>1, <3>2
  <2> QED
    BY <2>4, <2>5
<1>4. CASE ReplayAnswered
  BY <1>4, RestoredShows
<1> QED
  BY <1>2, <1>3, <1>4

(* An attach that has still to ask: if terminals are attached, they stay so *)
(* until it does, and if none is, it was begun under a kill in doubt.       *)
LEMMA AtAskKept ==
  ASSUME BaseInv, ViewsInv, GhostInv, Remains, Held, Unasked'
  PROVE  Doomed' \/ Attached(joined') # {}
<1>0. /\ TypeInv /\ NetInv /\ KillInv /\ RecordInv /\ PartyInv /\ TaskAsks /\ LostIsDown /\ LaneOfObj
      /\ Entries
  BY ViewsParts DEF ViewsInv
<1>1. Next /\ sock' = sock /\ ~Exempt
  BY StillHere
<1>2. /\ sock # 0 /\ obj # 0 /\ obj \in Asked /\ states[obj].on = sock /\ replay = 0
  BY HeldLive
<1>3. Doomed => Doomed'
  BY DoomedStays DEF GhostInv
<1>4. Unasked => Doomed \/ Attached(joined) # {}
  BY <1>1 DEF GhostInv, AtAsk
<1>5. /\ ~DetachAnswered /\ ~ReplayAnswered /\ ~ExitArrives /\ ~AttachLost /\ ~DetachLost /\ ~KillConfirmed
      /\ AttachAnswered => Runs("attach") /\ Refusal
  BY HeldHears, NotKilledHere DEF GhostInv
<1>6. CASE LaneSteps
  <2>1. CASE AttachBegins \/ AttachAsks
    <3>1. Unasked /\ joined' = joined
      BY <2>1 DEF AttachBegins, AttachAsks, Unasked, Turn, Runs, LaneReq, Awaits
    <3> QED
      BY <1>3, <1>4, <3>1
  <2>2. CASE AttachAnswered
    BY <1>1, <1>3, <1>5, <2>2 DEF GhostInv, RefusedDoomed
  <2>3. CASE DetachBegins
    <3>1. lane # <<>> /\ Head(lane).does = "detach"
      BY <2>3 DEF DetachBegins, Turn
    <3>2. Head(lane) = lane[1] /\ 1 \in 1..Len(lane)
      BY <1>0, <3>1, RecordTypes
    <3>3. Head(lane).of = obj
      BY <1>2, <3>1, <3>2, <1>0 DEF LaneOfObj, AttachesObj, IsDetach, OnSock
    <3>4. lane' = lane
      BY <1>2, <2>3, <3>3 DEF DetachBegins
    <3> QED
      BY <3>1, <3>4 DEF Unasked
  <2> QED
    BY <1>5, <1>6, <2>1, <2>2, <2>3 DEF LaneSteps
<1>7. CASE ~LaneSteps /\ lane # <<>>
  <2>1. task' = task /\ Head(lane') = Head(lane)
    BY <1>0, <1>1, <1>7, TaskStays
  <2>2. task.on => pend'["lane"].req = LaneReq
    BY <1>0, <1>1, <1>7, LanePend DEF TaskAsks
  <2>3. Unasked
    BY <1>7, <2>1, <2>2 DEF Unasked, LaneReq
  <2>4. ASSUME Settled PROVE FALSE
    <3>1. Runs("attach") /\ LaneReq = NoRequest
      BY <1>7, <2>3, <2>4 DEF Settled, Unasked, Runs
    <3>2. pend["lane"].st \in {"await", "lost"}
      BY <1>0, <3>1 DEF TaskAsks, NoRequest, Request
    <3> QED
      BY <1>2, <2>4, <3>2 DEF Settled, Ready, Who
  <2>5. \A s \in Subs : ~Unsubscribe(s)
    BY <2>4 DEF Unsubscribe, Flushed, Written
  <2>6. joined' = joined
    BY <1>0, <1>1, <1>5, <1>7, <2>5, JoinedLeaves DEF LaneSteps
  <2> QED
    BY <1>3, <1>4, <2>3, <2>6
<1>8. CASE ~LaneSteps /\ lane = <<>>
  <2>0. lane \in Seq(Job) /\ Len(lane) = 0
    BY <1>8
  <2>1. ~\E s \in Subs : Unsubscribe(s) /\ lane' # lane
    <3> SUFFICES ASSUME NEW s \in Subs, Unsubscribe(s), lane' # lane PROVE FALSE
      OBVIOUS
    <3>1. lane' = Append(lane, [does |-> "detach", of |-> obj])
      BY DEF Unsubscribe, DetachOf
    <3>2. Head(lane').does = "detach"
      BY <1>8, <3>1
    <3> QED
      BY <3>2 DEF Unasked
  <2>2. PICK s \in Subs, create \in BOOLEAN : Attach(s, create)
    BY <1>0, <1>1, <1>8, <2>1, LaneGrows DEF Unasked
  <2>3. joined' = joined
    BY <2>2 DEF Attach
  <2>4. PICK t \in Subs : entry[t] # 0
    BY <1>0, <1>2 DEF Entries, Attached
  <2>5. joined[t] # 0
    BY <1>0, <2>0, <2>4 DEF RecordInv, Queued
  <2> QED
    BY <2>3, <2>5 DEF Attached
<1> QED
  BY <1>6, <1>7, <1>8

LEMMA AtAskStep ==
  ASSUME BaseInv, ViewsInv, GhostInv, Remains, OnSock', Unasked'
  PROVE  Doomed' \/ Attached(joined') # {}
BY AtAskOnceHeard, AtAskKept, HeldBefore

(* An attach that joins the attached asks for the process that lives.       *)
JoinsLive ==
  Held /\ Runs("attach") /\ LaneReq # NoRequest /\ Attached(joined) # {} =>
    LaneReq.cmd = "existing" /\ LaneReq.gen = host.live

LEMMA JoinsTheLive == BaseInv /\ ViewsInv => JoinsLive
BY HeldLive DEF ViewsInv, PartyInv, AskedSame, JoinsLive

LEMMA JoinsTheLiveThen == BaseInv' /\ ViewsInv' => JoinsLive'
BY JoinsTheLive, PTL

LEMMA AskedLiveStep ==
  ASSUME BaseInv, ViewsInv, GhostInv, Remains, BaseInv', ViewsInv', OnSock',
         Runs("attach")', LaneReq' # NoRequest
  PROVE  Doomed' \/ (LaneReq'.cmd = "existing" /\ LaneReq'.gen = host'.live)
<1>0. /\ TypeInv /\ NetInv /\ KillInv /\ TaskAsks
  BY ViewsParts
<1>1. Next /\ sock' = sock /\ sock # 0 /\ host'.live = host.live /\ ~Exempt
  BY StillHere
<1>2. ASSUME Attached(joined') # {} PROVE LaneReq'.cmd = "existing" /\ LaneReq'.gen = host'.live
  BY <1>2, JoinsTheLiveThen DEF JoinsLive, Held, Remains
<1>3. CASE OkComing
  <2>1. ~AttachAnswered
    BY <1>0, TaskOver DEF NoTask, Runs
  <2>2. ReplayAnswered
    BY <1>1, <1>3, <2>1, OkHeard DEF Remains
  <2> QED
    BY <1>2, <2>2, RestoredShows
<1>4. CASE ~OkComing
  <2>0. Held
    BY <1>4, HeldBefore
  <2>1. Doomed => Doomed'
    BY <2>0, DoomedStays DEF GhostInv
  <2>2. CASE LaneSteps /\ AttachAsks
    <3>1. Unasked /\ joined' = joined
      BY <2>2 DEF AttachAsks, Unasked, Runs, LaneReq, Awaits
    <3>2. Doomed \/ Attached(joined) # {}
      BY <1>1, <2>0, <3>1 DEF GhostInv, AtAsk
    <3> QED
      BY <1>2, <2>1, <3>1, <3>2
  <2>3. ASSUME Runs("attach"), LaneReq' = LaneReq
        PROVE  Doomed' \/ (LaneReq'.cmd = "existing" /\ LaneReq'.gen = host'.live)
    BY <1>1, <2>0, <2>1, <2>3 DEF GhostInv, AskedLive
  <2>4. CASE LaneSteps /\ ~AttachAsks
    <3>1. pend'["lane"] = Awaits(NoRequest) \/ (pend'["lane"] = Awaits(LaneReq) /\ Runs("attach"))
      BY <1>0, <2>4, LaneTurns
    <3>2. LaneReq' = LaneReq /\ Runs("attach")
      BY <3>1 DEF Awaits, LaneReq
    <3> QED
      BY <2>3, <3>2
  <2>5. CASE ~LaneSteps
    <3>1. task' = task /\ task.on /\ lane # <<>> /\ Head(lane') = Head(lane)
      BY <1>0, <1>1, <2>5, TaskStays DEF Runs
    <3>2. Runs("attach") /\ pend["lane"].st # "none"
      BY <1>0, <3>1 DEF Runs, TaskAsks
    <3>3. LaneReq' = LaneReq
      BY <1>0, <1>1, <2>5, <3>2, LanePend DEF LaneReq
    <3> QED
      BY <2>3, <3>2, <3>3
  <2> QED
    BY <2>2, <2>4, <2>5
<1> QED
  BY <1>3, <1>4

(* An answer to the lane comes from the host, which takes what the lane     *)
(* asked for.                                                              *)
LEMMA RefusalsAre ==
  ASSUME BaseInv, ViewsInv, Next, sock' = sock, sock # 0, NEW i \in 1..Len(down'),
         down'[i].who = "lane", ~down'[i].ok, \A j \in 1..Len(down) : down[j] # down'[i]
  PROVE  /\ HostAttaches(sock) \/ HostAttachesExisting(sock)
         /\ Answers(sock, FALSE, 0)
         /\ Head(up[sock]).req = LaneReq
<1>0. /\ TypeInv /\ NetInv /\ KillInv /\ PartyInv /\ SocketsPast
      /\ down \in Seq(Frames) /\ sock \in Sockets
  BY ViewsParts DEF TypeInv, ConnTypes
<1>1. ~(\A j \in 1..Len(down') : \E k \in 1..Len(down) : down[k] = down'[j])
  OBVIOUS
<1>2. HostSteps \/ Ends \/ TerminationFails \/ RivalCreates \/ LeaseExpires
  <2> SUFFICES ASSUME ~(HostSteps \/ Ends \/ TerminationFails \/ RivalCreates \/ LeaseExpires)
               PROVE FALSE
    OBVIOUS
  <2>1. down' = down \/ (down # <<>> /\ down' = Tail(down)) \/ down' = <<>>
    BY <1>0, ClientFrames
  <2>2. CASE down' = down
    BY <1>1, <2>2
  <2>3. CASE down # <<>> /\ down' = Tail(down)
    <3>1. i + 1 \in 2..Len(down) /\ down'[i] = down[i + 1] /\ Len(down) \in Nat
      BY <1>0, <2>3, TailIs
    <3>2. i + 1 \in 1..Len(down)
      BY <3>1
    <3> QED
      BY <3>1, <3>2
  <2>4. CASE down' = <<>>
    BY <2>4
  <2> QED
    BY <2>1, <2>2, <2>3, <2>4
<1>3. ~RivalCreates /\ ~LeaseExpires
  <2>1. RivalCreates \/ LeaseExpires => down' = down
    BY DEF RivalCreates, LeaseExpires, netVars
  <2> QED
    BY <1>1, <2>1
<1>4. ASSUME NEW ok \in BOOLEAN, NEW f, NEW g \in Gen, f = <<>> \/ f = <<Exit(g)>>, AnswersKill(ok, f)
      PROVE  FALSE
  <2>1. \A j \in 1..Len(down) : down'[j] = down[j]
    BY <1>0, <1>4, AnswersKillIs
  <2>2. i \in 1..Len(down)
    BY <1>0, <1>4, AnswersKillIs
  <2> QED
    BY <2>1, <2>2
<1>5. ~Ends /\ ~TerminationFails
  <2>1. host.live \in Gen
    BY <1>0, HostRecordTypes DEF TypeInv
  <2>2. Ends => AnswersKill(TRUE, <<>>) \/ AnswersKill(TRUE, <<Exit(host.live)>>)
    BY DEF Ends
  <2>3. TerminationFails => AnswersKill(FALSE, <<>>)
    BY DEF TerminationFails
  <2> QED
    BY <1>4, <2>1, <2>2, <2>3
<1>6. ASSUME NEW s \in Sockets, up[s] # <<>>, NEW ok \in BOOLEAN, NEW g \in Gen, Answers(s, ok, g)
      PROVE  s = sock /\ ok = FALSE /\ Head(up[sock]).who = "lane"
  <2> DEFINE f == Reply(Head(up[s]).who, ok, g)
  <2>1. /\ s # sock => down' = down
        /\ s = sock => down' = Append(down, f)
        /\ f.who = Head(up[s]).who /\ f.ok = ok
    BY <1>6, <1>0, AnswersIs
  <2>2. s = sock
    BY <1>1, <2>1
  <2> HIDE DEF f
  <2>3. down'[i] = f
    <3>1. i = Len(down) + 1
      BY <1>0, <2>1, <2>2
    <3> QED
      BY <1>0, <2>1, <2>2, <3>1
  <2> QED
    BY <2>1, <2>2, <2>3
<1>7. ASSUME NEW s \in Sockets, HostAttaches(s) \/ HostAttachesExisting(s)
      PROVE  /\ HostAttaches(sock) \/ HostAttachesExisting(sock)
             /\ Answers(sock, FALSE, 0)
             /\ Head(up[sock]).req = LaneReq
  <2>1. /\ up[s] # <<>>
        /\ (\E g \in Gen : Answers(s, TRUE, g)) \/ Answers(s, FALSE, 0)
    BY <1>0, <1>7, AttachAnswers
  <2>2. s = sock /\ Head(up[sock]).who = "lane" /\ Answers(sock, FALSE, 0)
    BY <1>6, <2>1, SetFacts
  <2>3. Head(up[sock]).req = LaneReq
    BY <1>0, <2>1, <2>2, HeadAsks DEF LaneReq
  <2> QED
    BY <1>7, <2>2, <2>3
<1>8. ASSUME NEW s \in Sockets PROVE ~HostDetaches(s)
  BY <1>6, DetachAnswers, SetFacts, <1>0
<1>9. ASSUME NEW s \in Sockets PROVE ~HostKills(s) /\ ~HostIsProbed(s)
  <2> SUFFICES ASSUME HostKills(s) \/ HostIsProbed(s) PROVE FALSE
    OBVIOUS
  <2>1. /\ up[s] # <<>> /\ Head(up[s]).req.cmd \in {"has", "kill"}
        /\ \/ \E ok \in BOOLEAN, g \in Gen : Answers(s, ok, g)
           \/ down' = down
    BY <1>0, KillAnswers DEF netVars
  <2>2. s = sock /\ Head(up[sock]).who = "lane"
    BY <1>1, <1>6, <2>1
  <2>3. Head(up[sock]).who = "kill"
    BY <1>0, <2>1, <2>2, HeadAsks
  <2> QED
    BY <2>2, <2>3
<1>10. ASSUME NEW s \in Sockets PROVE ~HostCloses(s)
  BY <1>0, <1>1, ClosesIs
<1> QED
  BY <1>2, <1>3, <1>5, <1>7, <1>8, <1>9, <1>10 DEF HostSteps

(* Only a kill in doubt has an attach refused that asks for what lives.     *)
LEMMA RefusedDoomedStep ==
  ASSUME BaseInv, ViewsInv, GhostInv, Remains, OnSock', Runs("attach")', Refusal'
  PROVE  Doomed'
<1>0. /\ TypeInv /\ NetInv /\ KillInv /\ PartyInv /\ TaskAsks /\ ReplayAsks /\ SocketsPast
  BY ViewsParts
<1>1. Next /\ sock' = sock /\ sock # 0 /\ host'.live = host.live /\ ~Exempt
  BY StillHere
<1>2. PICK i \in 1..Len(down') : down'[i].who = "lane" /\ ~down'[i].ok
  BY DEF Refusal
<1>3. ASSUME down # <<>>, down' = Tail(down)
      PROVE  i + 1 \in 2..Len(down) /\ i + 1 \in 1..Len(down) /\ down[i + 1] = down'[i]
  <2>1. i + 1 \in 2..Len(down) /\ down[i + 1] = down'[i] /\ Len(down) \in Nat
    BY <1>0, <1>3, TailIs
  <2> QED
    BY <2>1
<1>4. CASE OkComing
  <2>1. ~AttachAnswered
    BY <1>0, TaskOver DEF NoTask, Runs
  <2>2. ReplayAnswered
    BY <1>1, <1>4, <2>1, OkHeard DEF Remains
  <2>3. down # <<>> /\ down' = Tail(down) /\ pend["replay"].st = "sent"
    BY <1>0, <2>2, ReplayIs, ReplayHeard
  <2>4. pend["lane"].st = "sent"
    BY <1>0, <1>2, <1>3, <2>3, SentOut DEF Who
  <2> QED
    BY <1>0, <2>3, <2>4, OneTalks
<1>5. CASE ~OkComing
  <2>0. Held
    BY <1>5, HeldBefore
  <2>1. Doomed => Doomed'
    BY <2>0, DoomedStays DEF GhostInv
  <2> SUFFICES ASSUME ~Doomed PROVE FALSE
    BY <2>1
  <2>2. ~LaneSteps
    <3> SUFFICES ASSUME LaneSteps PROVE FALSE
      OBVIOUS
    <3>1. /\ pend["lane"].st = "sent" => Hears("lane") /\ down' = Tail(down)
          /\ down' # down => Hears("lane") /\ down' = Tail(down)
      BY <1>0, LaneTurns
    <3>2. CASE Hears("lane") /\ down' = Tail(down)
      <4>1. \A j \in 2..Len(down) : down[j].who # "lane"
        BY <1>0, <3>2, Heard DEF Who
      <4> QED
        BY <1>2, <1>3, <3>2, <4>1 DEF Hears
    <3>3. CASE down' = down /\ pend["lane"].st # "sent"
      BY <1>0, <1>2, <3>3, SentOut DEF Who
    <3> QED
      BY <3>1, <3>2, <3>3
  <2>3. Runs("attach")
    <3>1. task' = task /\ task.on /\ lane # <<>> /\ Head(lane') = Head(lane)
      BY <1>0, <1>1, <2>2, TaskStays DEF Runs
    <3> QED
      BY <3>1 DEF Runs
  <2>4. ~Refusal
    BY <1>1, <2>0, <2>3 DEF GhostInv, RefusedDoomed
  <2>5. \A j \in 1..Len(down) : down[j] # down'[i]
    BY <1>2, <2>4 DEF Refusal
  <2>6. /\ HostAttaches(sock) \/ HostAttachesExisting(sock)
        /\ Answers(sock, FALSE, 0)
        /\ Head(up[sock]).req = LaneReq /\ sock \in Sockets
    BY <1>0, <1>1, <1>2, <2>5, RefusalsAre DEF TypeInv, ConnTypes
  <2>7. up[sock] # <<>> /\ LaneReq.cmd \in {"attach", "existing"}
    BY <1>0, <2>6, AttachAnswers
  <2>8. LaneReq # NoRequest
    BY <2>7 DEF NoRequest, Request
  <2>9. LaneReq.cmd = "existing" /\ LaneReq.gen = host.live
    BY <1>1, <2>0, <2>3, <2>8 DEF GhostInv, AskedLive
  <2>10. ~\E g \in Gen : Answers(sock, TRUE, g)
    <3> SUFFICES ASSUME NEW g \in Gen, Answers(sock, TRUE, g) PROVE FALSE
      OBVIOUS
    <3> DEFINE f == Reply(Head(up[sock]).who, TRUE, g)
               h == Reply(Head(up[sock]).who, FALSE, 0)
    <3>1. down' = Append(down, f) /\ down' = Append(down, h) /\ f.ok = TRUE /\ h.ok = FALSE
          /\ down \in Seq(Frames)
      BY <1>0, <2>6, <2>7, AnswersIs, SetFacts DEF TypeInv, ConnTypes
    <3>2. f \in Frames /\ h \in Frames
      BY <1>0, <2>6, <2>7, AnswersIs, SetFacts
    <3> HIDE DEF f, h
    <3>3. down \in Seq(Frames)
      BY <1>0 DEF TypeInv, ConnTypes
    <3>4. ASSUME NEW x \in Frames PROVE Append(down, x)[Len(down) + 1] = x
      BY <3>3
    <3> QED
      BY <3>1, <3>2, <3>4
  <2>11. host.dying # 0 \/ host.live = 0
    BY <1>0, <2>6, <2>9, <2>10, AttachAnswers
  <2>12. host.live # 0
    BY <2>0, HeldLive
  <2> QED
    BY <1>0, <2>11, <2>12 DEF KillInv, DyingIsTarget, Doomed
<1> QED
  BY <1>4, <1>5

LEMMA GhostStep ==
  ASSUME BaseInv, ViewsInv, GhostInv, Next, BaseInv', ViewsInv'
  PROVE  GhostInv'
<1>1. ASSUME Sub', ~OkComing', ~Exempt' PROVE Remains
  BY <1>1 DEF Remains
<1>2. Owned'
  BY <1>1, OwnedStep DEF Owned
<1>3. AtAsk'
  BY <1>1, AtAskStep DEF AtAsk, Held
<1>4. AskedLive'
  BY <1>1, AskedLiveStep DEF AskedLive, Held
<1>5. RefusedDoomed'
  BY <1>1, RefusedDoomedStep DEF RefusedDoomed, Held
<1> QED
  BY <1>2, <1>3, <1>4, <1>5 DEF GhostInv

LEMMA GhostStutter ==
  ASSUME GhostInv, UNCHANGED vars
  PROVE  GhostInv'
<1>1. /\ UNCHANGED <<sock, tried, replay, pend, up, down, asks, entry, joined, obj, states, lane, task>>
      /\ UNCHANGED <<op, plans, dropped, host>>
  BY DEF vars, netVars, attachVars, killVars
<1>2. /\ Sub' = Sub /\ OnSock' = OnSock /\ OkComing' = OkComing /\ Exempt' = Exempt /\ Doomed' = Doomed
      /\ Detaching' = Detaching /\ Unasked' = Unasked /\ Refusal' = Refusal
      /\ Runs("attach")' = Runs("attach") /\ LaneReq' = LaneReq /\ Attached(joined') = Attached(joined)
  BY <1>1 DEF Sub, OnSock, OkComing, Takes, Exempt, Doomed, Detaching, Unasked, Refusal, Runs, LaneReq
<1> QED
  BY <1>1, <1>2 DEF GhostInv, Owned, AtAsk, AskedLive, RefusedDoomed, Held

LEMMA GhostInit ==
  ASSUME Init
  PROVE  GhostInv
<1>1. ~Sub
  BY DEF Init, Sub
<1> QED
  BY <1>1 DEF GhostInv, Owned, AtAsk, AskedLive, RefusedDoomed, Held

LEMMA QuietNoGhost ==
  ASSUME BaseInv, ViewsInv, GhostInv
  PROVE  NoGhost
<1> SUFFICES ASSUME Quiet, sock \in host.subs, Attached(joined) = {}
             PROVE  Exempt
  BY DEF NoGhost, Exempt
<1>1. /\ replay = 0 /\ sock # 0 /\ Len(lane) = 0 /\ Len(down) = 0
      /\ \A s \in Subs : entry[s] # 0 => joined[s] # 0
  BY WhenQuiet
<1>2. ~OkComing /\ ~Detaching /\ Sub
  BY <1>1 DEF OkComing, Detaching, Sub
<1>3. ~OnSock
  BY <1>1, ViewsParts DEF OnSock, Entries, Attached
<1> QED
  BY <1>2, <1>3 DEF GhostInv, Owned

(* Once all is quiet the host holds no subscription for this client while   *)
(* no terminal is attached, so that a pause ticket or a claim on the size   *)
(* of a view that is gone cannot outlive it (attachSubscriber,              *)
(* teardownRetiredState, restoreSocket), but for the two ways that the      *)
(* property names: the kill that drops a view it did not end                *)
(* (clearLocalSessionState), and the exit that is told before the attach is *)
(* answered (preAckExit).                                                  *)
THEOREM NoGhostRemains == Spec => []NoGhost
<1>1. Init => GhostInv
  BY GhostInit
<1>2. BaseInv /\ ViewsInv /\ GhostInv /\ [Next]_vars /\ BaseInv' /\ ViewsInv' => GhostInv'
  BY GhostStep, GhostStutter
<1>3. BaseInv /\ ViewsInv /\ GhostInv => NoGhost
  BY QuietNoGhost
<1> QED
  BY <1>1, <1>2, <1>3, AllViews, PTL DEF Spec
=============================================================================
