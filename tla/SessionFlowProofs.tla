--------------------------- MODULE SessionFlowProofs ---------------------------
(***************************************************************************)
(* What holds of one terminal and its connections for any connections,     *)
(* widths, water marks and bounds.                                         *)
(*                                                                         *)
(* The tickets, the queue and the size have nothing to do with the turn of *)
(* an attach; what the viewers hold has.  The invariant says of the turn   *)
(* what the rollback relies on: until a close comes between, its socket is *)
(* subscribed exactly if it was before (PrevIsSubs), the screen is still   *)
(* the newest output when it is committed (ScreenIsNew), and whatever the  *)
(* rollback of a socket that has gone puts back is nothing (GoneTurn).     *)
(***************************************************************************)
EXTENDS SessionFlow, TLAPS, SequenceTheorems, FiniteSetTheorems, WellFoundedInduction

Jobs == {"chunk", "geometry"}

(* A width is pending only while a job is queued that will take it off. *)
PendingIsQueued == pending # {} => \E i \in DOMAIN tail : tail[i] = "geometry"

InTurn == attach.stage # "none"

TurnHasSocket == IF InTurn THEN attach.sock \in Sockets ELSE attach = NoTurn

Inv0 ==
  /\ TypeOK
  /\ applied + Chunks <= MaxChunks
  /\ PendingIsQueued
  /\ TurnHasSocket

(* The emulator's ticket is out once the high-water mark is reached. *)
TicketAtHigh == Chunks <= High /\ (~emulator => Chunks < High)

PrevIsSubs == InTurn /\ attach.current => (attach.sock \in subs <=> attach.prev.subscribed)

ScreenIsNew == attach.stage = "screened" => attach.wait = 0 /\ attach.screen = applied

(* An attach whose socket has gone: if the close came first there was      *)
(* nothing to remember, if it came in between there is nothing left.       *)
GoneTurn ==
  InTurn /\ attach.sock \in closed =>
    IF attach.current /\ attach.stage # "undo"
      THEN attach.prev = Nothing
      ELSE attach.sock \notin explicit \union transport /\ claims[attach.sock] = 0

ClosedNeedNoDrain == closed \intersect full = {}

FlowInv ==
  /\ Inv0
  /\ PausedWhileHeld
  /\ TicketAtHigh
  /\ SizeFitsViewers
  /\ PrevIsSubs
  /\ ScreenIsNew
  /\ ScreenThenStream
  /\ ClosedNeedNoDrain
  /\ TicketAwaitsDrain
  /\ GoneTurn
  /\ GoneHoldsNothing

-----------------------------------------------------------------------------
(* A set of numbers has a least one: the smallest claim exists. *)
LEMMA HasLeast ==
  ASSUME NEW S, S \subseteq Nat, S # {}
  PROVE  \E w \in S : \A v \in S : w <= v
<1>1. PICK w \in S : \A v \in S : ~ (<<v, w>> \in OpToRel(<, Nat))
  BY NatLessThanWellFounded, WFMin
<1>2. \A v \in S : ~(v < w)
  BY <1>1 DEF OpToRel
<1> QED
  BY <1>2

(* The effective width is one that somebody asks for, or 0. *)
LEMMA EffectiveType ==
  ASSUME NEW cl \in [Sockets -> Sizes \union {0}]
  PROVE  Effective(cl) \in Sizes \union {0}
<1> DEFINE widths == {cl[s] : s \in Sockets} \ {0}
<1>1. widths \subseteq Sizes /\ widths \subseteq Nat
  BY SizesAssumption
<1>2. CASE widths = {}
  BY <1>2 DEF Effective
<1>3. CASE widths # {}
  <2>1. \E w \in widths : \A v \in widths : w <= v
    BY <1>1, <1>3, HasLeast
  <2>2. Effective(cl) = CHOOSE w \in widths : \A v \in widths : w <= v
    BY <1>3 DEF Effective
  <2>3. Effective(cl) \in widths
    BY <2>1, <2>2
  <2> QED
    BY <1>1, <2>3
<1> QED
  BY <1>2, <1>3

(* A queue that holds a geometry job has a last one. *)
LEMMA LastGeometryExists ==
  ASSUME tail \in Seq(Jobs), \E i \in DOMAIN tail : tail[i] = "geometry"
  PROVE  LastGeometry \in DOMAIN tail
<1> DEFINE Above == {n \in Nat : \A j \in DOMAIN tail : j > n => tail[j] = "chunk"}
<1>1. Len(tail) \in Nat /\ DOMAIN tail = 1..Len(tail) /\ \A i \in DOMAIN tail : tail[i] \in Jobs
  BY LenProperties, ElementOfSeq
<1>2. Len(tail) \in Above
  BY <1>1
<1>3. PICK n \in Above : \A m \in Above : n <= m
  BY <1>2, HasLeast
<1>4. n # 0
  BY <1>1, <1>3
<1>5. n - 1 \in Nat /\ n - 1 \notin Above
  BY <1>3, <1>4
<1>6. PICK j \in DOMAIN tail : j > n - 1 /\ tail[j] # "chunk"
  BY <1>5
<1>7. j = n /\ tail[j] = "geometry"
  BY <1>1, <1>3, <1>6 DEF Jobs
<1>8. \A k \in DOMAIN tail : k > n => tail[k] = "chunk"
  BY <1>3
<1> QED
  BY <1>6, <1>7, <1>8 DEF LastGeometry

(* How many chunks a queue holds after a job was appended, or taken off.   *)
ChunksOf(q) == {i \in DOMAIN q : q[i] = "chunk"}

LEMMA ChunksFinite ==
  ASSUME NEW q \in Seq(Jobs)
  PROVE  IsFiniteSet(ChunksOf(q)) /\ Cardinality(ChunksOf(q)) \in Nat
<1>1. ChunksOf(q) \in SUBSET (1..Len(q)) /\ Len(q) \in Nat
  BY LenProperties DEF ChunksOf
<1>2. IsFiniteSet(1..Len(q))
  BY <1>1, FS_Interval
<1> QED
  BY <1>1, <1>2, FS_Subset, FS_CardinalityType

LEMMA ChunksAppend ==
  ASSUME NEW q \in Seq(Jobs), NEW job \in Jobs
  PROVE  Cardinality(ChunksOf(Append(q, job))) =
           Cardinality(ChunksOf(q)) + (IF job = "chunk" THEN 1 ELSE 0)
<1> DEFINE n == Len(q)
<1>1. /\ n \in Nat /\ DOMAIN q = 1..n /\ DOMAIN Append(q, job) = 1..n+1
      /\ \A i \in 1..n : Append(q, job)[i] = q[i]
      /\ Append(q, job)[n+1] = job
  BY LenProperties, AppendProperties
<1>2. n+1 \notin ChunksOf(q)
  BY <1>1 DEF ChunksOf
<1>3. CASE job = "chunk"
  <2>1. ChunksOf(Append(q, job)) = ChunksOf(q) \cup {n+1}
    BY <1>1, <1>3 DEF ChunksOf
  <2> QED
    BY <1>2, <1>3, <2>1, ChunksFinite, FS_AddElement
<1>4. CASE job # "chunk"
  <2>1. ChunksOf(Append(q, job)) = ChunksOf(q)
    BY <1>1, <1>4 DEF ChunksOf
  <2> QED
    BY <1>4, <2>1, ChunksFinite
<1> QED
  BY <1>3, <1>4

LEMMA ChunksTail ==
  ASSUME NEW q \in Seq(Jobs), q # <<>>
  PROVE  /\ Cardinality(ChunksOf(Tail(q))) =
              Cardinality(ChunksOf(q)) - (IF Head(q) = "chunk" THEN 1 ELSE 0)
         /\ Head(q) = "chunk" => Cardinality(ChunksOf(q)) > 0
<1> DEFINE n == Len(q)
           rest == ChunksOf(q) \ {1}
           f == [i \in ChunksOf(Tail(q)) |-> i + 1]
<1>1. /\ n \in Nat \ {0} /\ DOMAIN q = 1..n /\ DOMAIN Tail(q) = 1..n-1
      /\ \A i \in 1..n-1 : Tail(q)[i] = q[i+1]
      /\ Head(q) = q[1] /\ Tail(q) \in Seq(Jobs)
  BY LenProperties, HeadTailProperties, EmptySeq
<1>2. f \in Bijection(ChunksOf(Tail(q)), rest)
  <2>1. f \in [ChunksOf(Tail(q)) -> rest]
    BY <1>1 DEF ChunksOf
  <2>2. \A i, j \in ChunksOf(Tail(q)) : f[i] = f[j] => i = j
    BY <1>1 DEF ChunksOf
  <2>3. \A k \in rest : \E i \in ChunksOf(Tail(q)) : f[i] = k
    <3>1. TAKE k \in rest
    <3>2. k - 1 \in ChunksOf(Tail(q)) /\ f[k-1] = k
      BY <1>1 DEF ChunksOf
    <3> QED
      BY <3>2
  <2> QED
    BY <2>1, <2>2, <2>3 DEF Bijection, Injection, Surjection, IsInjective
<1>3. Cardinality(rest) = Cardinality(ChunksOf(Tail(q)))
  BY <1>1, <1>2, ChunksFinite, FS_Bijection DEF ExistsBijection
<1>4. 1 \in ChunksOf(q) <=> Head(q) = "chunk"
  BY <1>1 DEF ChunksOf
<1>5. Cardinality(rest) = IF 1 \in ChunksOf(q) THEN Cardinality(ChunksOf(q)) - 1
                                               ELSE Cardinality(ChunksOf(q))
  BY ChunksFinite, FS_RemoveElement
<1>6. Cardinality(ChunksOf(Tail(q))) \in Nat /\ Cardinality(ChunksOf(q)) \in Nat
  BY <1>1, ChunksFinite
<1> QED
  BY <1>3, <1>4, <1>5, <1>6

LEMMA ChunksAreChunksOf == Chunks = Cardinality(ChunksOf(tail))
BY DEF Chunks, ChunksOf

-----------------------------------------------------------------------------
(* What the parts of the actions do to the queue, the claims, the tickets. *)
LEMMA ChunksType ==
  ASSUME TypeOK
  PROVE  tail \in Seq(Jobs) /\ Chunks \in Nat
BY ChunksFinite, ChunksAreChunksOf DEF TypeOK, Jobs

LEMMA EmitEffect ==
  ASSUME Inv0, tail' = Append(tail, "chunk")
  PROVE  /\ tail' \in Seq(Jobs) /\ Chunks' = Chunks + 1
         /\ pending' = pending => PendingIsQueued'
<1>1. tail \in Seq(Jobs) /\ "chunk" \in Jobs
  BY ChunksType DEF Inv0, Jobs
<1>2. tail' \in Seq(Jobs) /\ Len(tail') = Len(tail) + 1
      /\ \A i \in 1..Len(tail) : tail'[i] = tail[i]
  BY <1>1, AppendProperties
<1>3. Chunks' = Cardinality(ChunksOf(tail'))
  BY DEF Chunks, ChunksOf
<1>4. Chunks' = Chunks + 1
  BY <1>1, <1>3, ChunksAppend, ChunksAreChunksOf
<1>5. DOMAIN tail = 1..Len(tail) /\ DOMAIN tail' = 1..Len(tail) + 1 /\ Len(tail) \in Nat
  BY <1>1, <1>2, LenProperties
<1>6. pending' = pending => PendingIsQueued'
  BY <1>2, <1>5 DEF Inv0, PendingIsQueued
<1> QED
  BY <1>2, <1>4, <1>6

LEMMA ClaimEffect ==
  ASSUME Inv0, NEW cl \in [Sockets -> Sizes \union {0}], Claim(cl)
  PROVE  /\ claims' \in [Sockets -> Sizes \union {0}]
         /\ pending' \in SUBSET (Sizes \union {0}) /\ pending' # {}
         /\ tail' \in Seq(Jobs) /\ Chunks' = Chunks /\ PendingIsQueued'
         /\ GeometryAfter(cl) \in Nat
<1>1. tail \in Seq(Jobs) /\ "geometry" \in Jobs
  BY ChunksType DEF Inv0, Jobs
<1>2. Effective(cl) \in Sizes \union {0}
  BY EffectiveType
<1>3. Chunks' = Cardinality(ChunksOf(tail')) /\ Chunks = Cardinality(ChunksOf(tail))
  BY DEF Chunks, ChunksOf
<1>4. DOMAIN tail = 1..Len(tail) /\ Len(tail) \in Nat
  BY <1>1, LenProperties
<1>5. CASE pending = {Effective(cl)}
  <2>1. tail' = tail /\ pending' = pending
    BY <1>5 DEF Claim
  <2>2. \E i \in DOMAIN tail : tail[i] = "geometry"
    BY <1>5 DEF Inv0, PendingIsQueued
  <2>3. GeometryAfter(cl) \in Nat
    BY <1>1, <1>4, <1>5, <2>2, LastGeometryExists DEF GeometryAfter
  <2> QED
    BY <1>1, <1>2, <1>3, <1>5, <2>1, <2>2, <2>3 DEF Claim, PendingIsQueued
<1>6. CASE pending # {Effective(cl)}
  <2>1. tail' = Append(tail, "geometry")
    BY <1>6 DEF Claim
  <2>2. tail' \in Seq(Jobs) /\ Len(tail') = Len(tail) + 1 /\ tail'[Len(tail)+1] = "geometry"
    BY <1>1, <2>1, AppendProperties
  <2>3. DOMAIN tail' = 1..Len(tail) + 1
    BY <2>2, LenProperties
  <2>4. PendingIsQueued'
    BY <1>4, <2>2, <2>3 DEF PendingIsQueued
  <2>5. Chunks \in Nat
    BY ChunksType DEF Inv0
  <2>6. Chunks' = Chunks
    BY <1>1, <1>3, <2>1, <2>5, ChunksAppend
  <2>7. GeometryAfter(cl) \in Nat
    BY <1>4, <1>6 DEF GeometryAfter
  <2> QED
    BY <1>2, <2>2, <2>4, <2>6, <2>7 DEF Claim
<1> QED
  BY <1>5, <1>6

LEMMA AdvanceEffect ==
  ASSUME Inv0, tail # <<>>, tail' = Tail(tail)
  PROVE  /\ tail' \in Seq(Jobs)
         /\ Chunks' = Chunks - (IF Head(tail) = "chunk" THEN 1 ELSE 0)
         /\ Head(tail) = "chunk" => Chunks > 0
         /\ Head(tail) = "chunk" /\ pending' = pending => PendingIsQueued'
         /\ pending' = PendingAfter => PendingIsQueued'
<1>1. tail \in Seq(Jobs)
  BY ChunksType DEF Inv0
<1>2. /\ tail' \in Seq(Jobs) /\ Len(tail') = Len(tail) - 1 /\ Head(tail) = tail[1]
      /\ \A i \in 1..Len(tail') : tail'[i] = tail[i+1]
  BY <1>1, HeadTailProperties
<1>3. /\ DOMAIN tail = 1..Len(tail) /\ Len(tail) \in Nat \ {0}
      /\ DOMAIN tail' = 1..Len(tail) - 1
  BY <1>1, <1>2, LenProperties, EmptySeq
<1>4. Chunks' = Cardinality(ChunksOf(tail')) /\ Chunks = Cardinality(ChunksOf(tail))
  BY DEF Chunks, ChunksOf
<1>5. /\ Chunks' = Chunks - (IF Head(tail) = "chunk" THEN 1 ELSE 0)
      /\ Head(tail) = "chunk" => Chunks > 0
  BY <1>1, <1>4, ChunksTail
<1>6. ASSUME NEW i \in 2..Len(tail), tail[i] = "geometry"
      PROVE  \E j \in DOMAIN tail' : tail'[j] = "geometry"
  <2>1. i - 1 \in DOMAIN tail' /\ tail'[i-1] = "geometry"
    BY <1>2, <1>3, <1>6
  <2> QED
    BY <2>1
<1>7. ASSUME Head(tail) = "chunk", pending' = pending
      PROVE  PendingIsQueued'
  <2>1. \A i \in DOMAIN tail : tail[i] = "geometry" => i \in 2..Len(tail)
    BY <1>2, <1>3, <1>7
  <2> QED
    BY <1>6, <1>7, <2>1 DEF Inv0, PendingIsQueued
<1>8. ASSUME pending' = PendingAfter
      PROVE  PendingIsQueued'
  BY <1>6, <1>8 DEF PendingIsQueued, PendingAfter
<1> QED
  BY <1>2, <1>5, <1>7, <1>8

(* The process is told of every change of whether there is a ticket. *)
LEMMA TicketsEffect ==
  ASSUME PausedWhileHeld, NEW ex, NEW tr, NEW em, Tickets(ex, tr, em)
  PROVE  PausedWhileHeld'
BY DEF PausedWhileHeld, Tickets, HasOwner

LEMMA TicketsType ==
  ASSUME TypeOK, NEW ex \in SUBSET Sockets, NEW tr \in SUBSET Sockets, NEW em \in BOOLEAN,
         Tickets(ex, tr, em)
  PROVE  explicit' \subseteq Sockets /\ transport' \subseteq Sockets
         /\ emulator' \in BOOLEAN /\ paused' \in BOOLEAN
BY DEF TypeOK, Tickets, HasOwner

LEMMA ReleaseEffect ==
  ASSUME Inv0, NEW s \in Sockets, Release(s)
  PROVE  /\ subs' = subs \ {s} /\ explicit' = explicit \ {s} /\ transport' = transport \ {s}
         /\ emulator' = emulator /\ paused' \in BOOLEAN
         /\ seen' = [seen EXCEPT ![s] = 0]
         /\ claims' = [claims EXCEPT ![s] = 0] /\ claims' \in [Sockets -> Sizes \union {0}]
         /\ pending' \in SUBSET (Sizes \union {0})
         /\ tail' \in Seq(Jobs) /\ Chunks' = Chunks /\ PendingIsQueued'
         /\ (claims' = claims /\ pending' = pending) \/ pending' # {}
<1>1. claims \in [Sockets -> Sizes \union {0}] /\ pending \in SUBSET (Sizes \union {0})
      /\ tail \in Seq(Jobs) /\ PendingIsQueued
  BY ChunksType DEF Inv0, TypeOK
<1>2. /\ subs' = subs \ {s} /\ explicit' = explicit \ {s} /\ transport' = transport \ {s}
      /\ emulator' = emulator /\ seen' = [seen EXCEPT ![s] = 0]
  BY DEF Release, Tickets
<1>3. paused' \in BOOLEAN
  BY DEF Release, Tickets, HasOwner, Inv0, TypeOK
<1>4. CASE claims[s] = 0
  <2>1. claims' = claims /\ pending' = pending /\ tail' = tail
    BY <1>4 DEF Release
  <2>2. claims = [claims EXCEPT ![s] = 0]
    BY <1>1, <1>4
  <2>3. Chunks' = Chunks /\ PendingIsQueued'
    BY <1>1, <2>1 DEF Chunks, PendingIsQueued
  <2> QED
    BY <1>1, <1>2, <1>3, <2>1, <2>2, <2>3
<1>5. CASE claims[s] # 0
  <2>1. [claims EXCEPT ![s] = 0] \in [Sockets -> Sizes \union {0}]
    BY <1>1
  <2>2. Claim([claims EXCEPT ![s] = 0])
    BY <1>5 DEF Release
  <2>3. claims' = [claims EXCEPT ![s] = 0]
    BY <2>2 DEF Claim
  <2> QED
    BY <1>2, <1>3, <2>1, <2>2, <2>3, ClaimEffect
<1> QED
  BY <1>4, <1>5

(* What a rollback that has something to put back does. *)
LEMMA RollbackEffect ==
  ASSUME Inv0, Rollback, attach.current, NEW s, s = attach.sock
  PROVE  /\ s \in Sockets
         /\ explicit' = IF attach.prev.paused THEN explicit \union {s} ELSE explicit \ {s}
         /\ transport' = transport /\ emulator' = emulator /\ paused' \in BOOLEAN
         /\ subs' = IF attach.prev.subscribed THEN subs \union {s} ELSE subs \ {s}
         /\ claims' = [claims EXCEPT ![s] = attach.prev.claim]
         /\ claims' \in [Sockets -> Sizes \union {0}]
         /\ pending' \in SUBSET (Sizes \union {0}) /\ pending' # {}
         /\ tail' \in Seq(Jobs) /\ Chunks' = Chunks /\ PendingIsQueued'
         /\ \E n \in Nat : attach' = [attach EXCEPT !.stage = "undo", !.wait = n]
<1> DEFINE cl == [claims EXCEPT ![s] = attach.prev.claim]
<1>1. s \in Sockets
  BY DEF Rollback, Inv0, TurnHasSocket, InTurn
<1>2. cl \in [Sockets -> Sizes \union {0}]
  BY DEF Inv0, TypeOK
<1>3. /\ Tickets(IF attach.prev.paused THEN explicit \union {s} ELSE explicit \ {s},
                 transport, emulator)
      /\ subs' = IF attach.prev.subscribed THEN subs \union {s} ELSE subs \ {s}
      /\ Claim(cl)
      /\ attach' = [attach EXCEPT !.stage = "undo", !.wait = GeometryAfter(cl)]
  BY DEF Rollback
<1>4. paused' \in BOOLEAN
  BY <1>3 DEF Tickets, HasOwner, Inv0, TypeOK
<1>5. claims' = cl
  BY <1>3 DEF Claim
<1>6. /\ pending' \in SUBSET (Sizes \union {0}) /\ pending' # {}
      /\ tail' \in Seq(Jobs) /\ Chunks' = Chunks /\ PendingIsQueued'
      /\ GeometryAfter(cl) \in Nat
  BY <1>2, <1>3, ClaimEffect
<1> QED
  BY <1>1, <1>2, <1>3, <1>4, <1>5, <1>6 DEF Tickets

(* The turn keeps its record type; nobody's turn waits for nothing. *)
AttachType ==
  [sock : Sockets \union {Free}, stage : {"none", "prepare", "snapshot", "screened",
                                          "rejected", "undo"},
   wait : Nat, screen : Nat, current : BOOLEAN,
   prev : [claim : Sizes \union {0}, paused : BOOLEAN, subscribed : BOOLEAN]]

LEMMA NoTurnType == NoTurn \in AttachType /\ NoTurn.stage = "none" /\ NoTurn.sock \notin Sockets
<1>1. Nothing \in [claim : Sizes \union {0}, paused : BOOLEAN, subscribed : BOOLEAN]
  BY DEF Nothing
<1>2. NoTurn.stage = "none" /\ NoTurn.sock = Free
  BY DEF NoTurn
<1> QED
  BY <1>1, <1>2, FreeAssumption DEF NoTurn, AttachType

LEMMA TurnWaits ==
  ASSUME Inv0, attach' = [attach EXCEPT !.wait = IF @ > 0 THEN @ - 1 ELSE 0]
  PROVE  /\ attach' \in AttachType /\ TurnHasSocket'
         /\ (attach').sock = attach.sock /\ (attach').stage = attach.stage
         /\ (attach').screen = attach.screen /\ (attach').current = attach.current
         /\ (attach').prev = attach.prev
         /\ attach.wait = 0 => (attach').wait = 0
<1> DEFINE w == IF attach.wait > 0 THEN attach.wait - 1 ELSE 0
<1>1. attach \in AttachType
  BY DEF Inv0, TypeOK, AttachType
<1>2. w \in Nat /\ (attach.wait = 0 => w = 0) /\ attach' = [attach EXCEPT !.wait = w]
  BY <1>1 DEF AttachType
<1> HIDE DEF w
<1>3. /\ attach' \in AttachType
      /\ (attach').sock = attach.sock /\ (attach').stage = attach.stage
      /\ (attach').screen = attach.screen /\ (attach').current = attach.current
      /\ (attach').prev = attach.prev /\ (attach').wait = w
  BY <1>1, <1>2 DEF AttachType
<1>4. TurnHasSocket'
  <2>1. CASE InTurn
    BY <1>3, <2>1 DEF Inv0, TurnHasSocket, InTurn
  <2>2. CASE ~InTurn
    <3>1. attach = NoTurn /\ attach.wait = 0
      BY <2>2 DEF Inv0, TurnHasSocket, NoTurn
    <3>2. attach' = attach
      BY <1>1, <1>2, <3>1 DEF AttachType
    <3> QED
      BY <3>2 DEF Inv0, TurnHasSocket, InTurn
  <2> QED
    BY <2>1, <2>2
<1> QED
  BY <1>2, <1>3, <1>4

LEMMA TurnFails ==
  ASSUME Inv0, GeometryFails
  PROVE  /\ attach' \in AttachType /\ TurnHasSocket'
         /\ (attach').sock = attach.sock
         /\ \/ (attach').stage = attach.stage
            \/ attach.stage = "prepare" /\ (attach').stage = "rejected"
         /\ (attach').screen = attach.screen /\ (attach').current = attach.current
         /\ (attach').prev = attach.prev
         /\ attach.wait = 0 => (attach').wait = 0
<1>1. attach \in AttachType
  BY DEF Inv0, TypeOK, AttachType
<1>2. CASE attach.stage = "prepare" /\ attach.wait = 1
  <2>1. attach' = [attach EXCEPT !.wait = 0, !.stage = "rejected"]
    BY <1>1, <1>2 DEF GeometryFails, AttachType
  <2> QED
    BY <1>1, <1>2, <2>1 DEF Inv0, TurnHasSocket, InTurn, AttachType
<1>3. CASE ~(attach.stage = "prepare" /\ attach.wait = 1)
  <2>1. attach' = [attach EXCEPT !.wait = IF @ > 0 THEN @ - 1 ELSE 0]
    BY <1>1, <1>3 DEF GeometryFails, AttachType
  <2>2. /\ attach' \in AttachType /\ TurnHasSocket'
        /\ (attach').sock = attach.sock /\ (attach').stage = attach.stage
        /\ (attach').screen = attach.screen /\ (attach').current = attach.current
        /\ (attach').prev = attach.prev
        /\ attach.wait = 0 => (attach').wait = 0
    BY <2>1, TurnWaits
  <2> QED
    BY <2>2
<1> QED
  BY <1>2, <1>3

-----------------------------------------------------------------------------
(* Types, the bound of the emission, and a socket for every turn. *)
LEMMA Inv0Init == Init => Inv0
<1> SUFFICES ASSUME Init PROVE Inv0
  OBVIOUS
<1>1. tail = <<>> /\ tail \in Seq(Jobs) /\ pending = {} /\ applied = 0 /\ attach = NoTurn
  BY DEF Init
<1>2. ChunksOf(tail) = {}
  BY <1>1 DEF ChunksOf
<1>3. Chunks = 0
  BY <1>2, ChunksAreChunksOf, FS_EmptySet
<1>4. TypeOK
  <2>1. attach \in AttachType
    BY <1>1, NoTurnType
  <2>2. PICK s \in Sockets, p \in BOOLEAN :
          /\ size = Spawned /\ misfit = FALSE
          /\ claims = [r \in Sockets |-> IF r = s THEN Spawned ELSE 0]
          /\ subs = {s} /\ explicit = {r \in {s} : p} /\ transport = {} /\ emulator = FALSE
          /\ paused = p
          /\ asked = {} /\ asks = [r \in Sockets |-> 0] /\ closed = {} /\ full = {}
          /\ seen = [r \in Sockets |-> 0]
    BY DEF Init
  <2>3. 0 \in 0..MaxChunks /\ 0 \in 0..MaxAsks
    BY BoundsAssumption
  <2> QED
    BY <1>1, <2>1, <2>2, <2>3, SizesAssumption DEF TypeOK, AttachType, Jobs
<1> QED
  BY <1>1, <1>3, <1>4, BoundsAssumption DEF Inv0, PendingIsQueued, TurnHasSocket, InTurn, NoTurn

LEMMA Inv0Step == Inv0 /\ [Next]_vars => Inv0'
<1> SUFFICES ASSUME Inv0, [Next]_vars PROVE Inv0'
  OBVIOUS
<1>0. TypeOK /\ Chunks \in Nat /\ applied \in Nat /\ tail \in Seq(Jobs) /\ MaxChunks \in Nat
  <2>1. TypeOK /\ MaxChunks \in Nat
    BY BoundsAssumption DEF Inv0
  <2>2. applied \in Nat
    BY <2>1 DEF TypeOK
  <2> QED
    BY <2>1, <2>2, ChunksType
<1>1. CASE Emit
  <2>1. tail' \in Seq(Jobs) /\ Chunks' = Chunks + 1 /\ PendingIsQueued'
    BY <1>1, EmitEffect DEF Emit
  <2>2. explicit' \subseteq Sockets /\ transport' \subseteq Sockets
        /\ emulator' \in BOOLEAN /\ paused' \in BOOLEAN
    BY <1>0, <1>1, TicketsType DEF Emit, TypeOK
  <2> QED
    BY <1>0, <1>1, <2>1, <2>2
    DEF Emit, Inv0, TypeOK, Jobs, TurnHasSocket, InTurn, geometry, peers
<1>2. CASE ChunkWritten
  <2>1. /\ tail' \in Seq(Jobs) /\ PendingIsQueued'
        /\ Chunks' = Chunks - 1 /\ Chunks > 0
    BY <1>2, AdvanceEffect DEF ChunkWritten, Advance, Settled
  <2>2. explicit' \subseteq Sockets /\ transport' \subseteq Sockets
        /\ emulator' \in BOOLEAN /\ paused' \in BOOLEAN
    BY <1>0, <1>2, TicketsType DEF ChunkWritten, TypeOK
  <2>3. applied' \in 0..MaxChunks /\ applied' + Chunks' <= MaxChunks
    BY <1>0, <1>2, <2>1 DEF ChunkWritten, Inv0
  <2>4. seen' \in [Sockets -> Nat]
    BY <1>0, <1>2 DEF ChunkWritten, TypeOK
  <2>5. attach' = [attach EXCEPT !.wait = IF @ > 0 THEN @ - 1 ELSE 0]
    BY <1>2 DEF ChunkWritten, Advance
  <2>6. attach' \in AttachType /\ TurnHasSocket'
    BY <2>5, TurnWaits
  <2> QED
    BY <1>0, <1>2, <2>1, <2>2, <2>3, <2>4, <2>6
    DEF ChunkWritten, Inv0, TypeOK, Jobs, AttachType, geometry, peers
<1>3. CASE GeometryFits
  <2>1. tail' \in Seq(Jobs) /\ PendingIsQueued' /\ Chunks' = Chunks
    BY <1>0, <1>3, AdvanceEffect DEF GeometryFits, Advance
  <2>2. size' \in Sizes
    BY <1>0, <1>3, EffectiveType DEF GeometryFits, TypeOK
  <2>3. attach' = [attach EXCEPT !.wait = IF @ > 0 THEN @ - 1 ELSE 0]
    BY <1>3 DEF GeometryFits, Advance
  <2>4. attach' \in AttachType /\ TurnHasSocket'
    BY <2>3, TurnWaits
  <2> QED
    BY <1>0, <1>3, <2>1, <2>2, <2>4
    DEF GeometryFits, PendingAfter, Inv0, TypeOK, Jobs, AttachType, flow, peers
<1>4. CASE GeometryFails
  <2>1. tail' \in Seq(Jobs) /\ PendingIsQueued' /\ Chunks' = Chunks
    BY <1>0, <1>4, AdvanceEffect DEF GeometryFails
  <2>2. attach' \in AttachType /\ TurnHasSocket'
    BY <1>4, TurnFails
  <2> QED
    BY <1>0, <1>4, <2>1, <2>2
    DEF GeometryFails, PendingAfter, Inv0, TypeOK, Jobs, AttachType, flow, peers
<1>5. CASE Snapshot
  <2>1. Len(tail) \in Nat
    BY <1>0, LenProperties
  <2> QED
    BY <1>0, <1>5, <2>1
    DEF Snapshot, Inv0, TypeOK, PendingIsQueued, Chunks, TurnHasSocket, InTurn,
        queue, geometry, flow, peers
<1>6. CASE TakeScreen
  BY <1>0, <1>6
  DEF TakeScreen, Inv0, TypeOK, PendingIsQueued, Chunks, TurnHasSocket, InTurn,
      queue, geometry, flow, peers
<1>7. CASE Commit
  <2>1. attach.sock \in Sockets
    BY <1>7 DEF Commit, Inv0, TurnHasSocket, InTurn
  <2>2. explicit' \subseteq Sockets /\ transport' \subseteq Sockets
        /\ emulator' \in BOOLEAN /\ paused' \in BOOLEAN
    BY <1>0, <1>7, <2>1 DEF Commit, Tickets, HasOwner, TypeOK
  <2> QED
    BY <1>0, <1>7, <2>1, <2>2, NoTurnType
    DEF Commit, Inv0, TypeOK, PendingIsQueued, Chunks, TurnHasSocket, InTurn, AttachType,
        queue, geometry, peers
<1>8. CASE Rollback
  <2>1. CASE attach.current
    <3> DEFINE k == attach.sock
    <3>1. /\ k \in Sockets
          /\ explicit' = IF attach.prev.paused THEN explicit \union {k} ELSE explicit \ {k}
          /\ transport' = transport /\ emulator' = emulator /\ paused' \in BOOLEAN
          /\ subs' = IF attach.prev.subscribed THEN subs \union {k} ELSE subs \ {k}
          /\ claims' \in [Sockets -> Sizes \union {0}]
          /\ pending' \in SUBSET (Sizes \union {0})
          /\ tail' \in Seq(Jobs) /\ Chunks' = Chunks /\ PendingIsQueued'
          /\ \E n \in Nat : attach' = [attach EXCEPT !.stage = "undo", !.wait = n]
      BY <1>8, <2>1, RollbackEffect
    <3>2. attach' \in AttachType /\ (attach').sock = k /\ (attach').stage = "undo"
      BY <1>0, <3>1 DEF TypeOK, AttachType
    <3>3. UNCHANGED <<applied, size, misfit, peers, seen>>
      BY <1>8 DEF Rollback
    <3> QED
      BY <1>0, <3>1, <3>2, <3>3
      DEF Inv0, TypeOK, Jobs, AttachType, TurnHasSocket, InTurn, peers
  <2>2. CASE ~attach.current
    <3>1. attach' = NoTurn
          /\ UNCHANGED <<tail, pending, claims, flow, applied, size, misfit, peers, seen>>
      BY <1>8, <2>2 DEF Rollback
    <3> QED
      BY <1>0, <3>1, NoTurnType
      DEF Inv0, TypeOK, PendingIsQueued, Chunks, TurnHasSocket, InTurn, AttachType, flow, peers
  <2> QED
    BY <2>1, <2>2
<1>9. CASE Refused
  BY <1>0, <1>9, NoTurnType
  DEF Refused, Inv0, TypeOK, PendingIsQueued, Chunks, TurnHasSocket, InTurn, AttachType,
      queue, geometry, flow, peers
<1>10. ASSUME NEW s \in Sockets, Ask(s)
       PROVE  Inv0'
  <2>1. UNCHANGED <<queue, geometry, flow, attach, closed, full, seen>>
    BY <1>10 DEF Ask
  <2>2. Chunks' = Chunks /\ PendingIsQueued' /\ TurnHasSocket'
    BY <2>1 DEF queue, Chunks, Inv0, PendingIsQueued, TurnHasSocket, InTurn
  <2>3. asked' \subseteq Sockets
    BY <1>0, <1>10 DEF Ask, TypeOK
  <2>4. asks' \in [Sockets -> 0..MaxAsks]
    <3>1. asks \in [Sockets -> 0..MaxAsks] /\ MaxAsks \in Nat
      BY <1>0, BoundsAssumption DEF TypeOK
    <3>2. asks[s] + 1 \in 0..MaxAsks /\ asks' = [asks EXCEPT ![s] = asks[s] + 1]
      BY <1>10, <3>1 DEF Ask
    <3> QED
      BY <3>1, <3>2
  <2>5. TypeOK'
    BY <1>0, <2>1, <2>3, <2>4 DEF TypeOK, queue, geometry, flow
  <2>6. applied' = applied
    BY <2>1 DEF queue
  <2> QED
    BY <2>2, <2>5, <2>6 DEF Inv0
<1>11. ASSUME NEW s \in Sockets, NEW w \in Sizes, NEW p \in BOOLEAN, Prepare(s, w, p)
       PROVE  Inv0'
  <2> DEFINE cl == [claims EXCEPT ![s] = w]
  <2>1. cl \in [Sockets -> Sizes \union {0}] /\ Claim(cl)
    BY <1>0, <1>11 DEF Prepare, TypeOK
  <2>2. /\ claims' \in [Sockets -> Sizes \union {0}]
        /\ pending' \in SUBSET (Sizes \union {0})
        /\ tail' \in Seq(Jobs) /\ Chunks' = Chunks /\ PendingIsQueued'
        /\ GeometryAfter(cl) \in Nat
    BY <2>1, ClaimEffect
  <2>3. explicit' \subseteq Sockets /\ transport' \subseteq Sockets
        /\ emulator' \in BOOLEAN /\ paused' \in BOOLEAN
    BY <1>0, <1>11 DEF Prepare, Tickets, HasOwner, TypeOK
  <2>4. attach' = [sock |-> s, stage |-> "prepare", wait |-> GeometryAfter(cl),
                   screen |-> 0, current |-> TRUE,
                   prev |-> [claim |-> claims[s], paused |-> s \in explicit,
                             subscribed |-> s \in subs]]
    BY <1>11 DEF Prepare
  <2>5. UNCHANGED <<applied, size, misfit, subs, asks, closed, full, seen>>
        /\ asked' = asked \ {s}
    BY <1>11 DEF Prepare
  <2> HIDE DEF cl
  <2> QED
    BY <1>0, <2>2, <2>3, <2>4, <2>5 DEF Inv0, TypeOK, Jobs, TurnHasSocket, InTurn
<1>12. ASSUME NEW s \in Sockets, Detach(s)
       PROVE  Inv0'
  <2>1. Release(s) /\ UNCHANGED <<applied, size, misfit, attach, peers>>
    BY <1>12 DEF Detach
  <2> QED
    <3>1. /\ subs' = subs \ {s} /\ explicit' = explicit \ {s} /\ transport' = transport \ {s}
          /\ emulator' = emulator /\ paused' \in BOOLEAN
          /\ seen' = [seen EXCEPT ![s] = 0]
          /\ claims' \in [Sockets -> Sizes \union {0}]
          /\ pending' \in SUBSET (Sizes \union {0})
          /\ tail' \in Seq(Jobs) /\ Chunks' = Chunks /\ PendingIsQueued'
      BY <2>1, ReleaseEffect
    <3> QED
      BY <1>0, <2>1, <3>1 DEF Inv0, TypeOK, Jobs, TurnHasSocket, InTurn, peers
<1>13. ASSUME NEW s \in Sockets, Close(s)
       PROVE  Inv0'
  <2>1. /\ Release(s) /\ UNCHANGED <<applied, size, misfit, asked, asks>>
        /\ closed' = closed \union {s} /\ full' = full \ {s}
        /\ attach' = IF attach.sock = s THEN [attach EXCEPT !.current = FALSE] ELSE attach
    BY <1>13 DEF Close
  <2>2. /\ subs' = subs \ {s} /\ explicit' = explicit \ {s} /\ transport' = transport \ {s}
        /\ emulator' = emulator /\ paused' \in BOOLEAN
        /\ seen' = [seen EXCEPT ![s] = 0]
        /\ claims' \in [Sockets -> Sizes \union {0}]
        /\ pending' \in SUBSET (Sizes \union {0})
        /\ tail' \in Seq(Jobs) /\ Chunks' = Chunks /\ PendingIsQueued'
    BY <2>1, ReleaseEffect
  <2>3. attach' \in AttachType /\ TurnHasSocket'
    <3>1. CASE attach.sock = s
      <4>1. InTurn /\ attach' = [attach EXCEPT !.current = FALSE]
        BY <2>1, <3>1, FreeAssumption DEF Inv0, TurnHasSocket, NoTurn
      <4> QED
        BY <1>0, <3>1, <4>1 DEF TypeOK, AttachType, TurnHasSocket, InTurn
    <3>2. CASE attach.sock # s
      BY <1>0, <2>1, <3>2 DEF Inv0, TypeOK, AttachType, TurnHasSocket, InTurn
    <3> QED
      BY <3>1, <3>2
  <2> QED
    BY <1>0, <2>1, <2>2, <2>3 DEF Inv0, TypeOK, Jobs, AttachType
<1>14. ASSUME NEW s \in Sockets, Pause(s) \/ Resume(s)
       PROVE  Inv0'
  <2>1. explicit' \subseteq Sockets /\ transport' \subseteq Sockets
        /\ emulator' \in BOOLEAN /\ paused' \in BOOLEAN
    BY <1>0, <1>14 DEF Pause, Resume, Tickets, HasOwner, TypeOK
  <2> QED
    BY <1>0, <1>14, <2>1
    DEF Pause, Resume, Inv0, TypeOK, PendingIsQueued, Chunks, TurnHasSocket, InTurn,
        queue, geometry, peers
<1>15. ASSUME NEW s \in Sockets, NEW w \in Sizes, Resize(s, w)
       PROVE  Inv0'
  <2>1. [claims EXCEPT ![s] = w] \in [Sockets -> Sizes \union {0}]
    BY <1>0 DEF TypeOK
  <2>2. Claim([claims EXCEPT ![s] = w])
        /\ UNCHANGED <<applied, size, misfit, flow, attach, peers, seen>>
    BY <1>15 DEF Resize
  <2>3. /\ claims' \in [Sockets -> Sizes \union {0}]
        /\ pending' \in SUBSET (Sizes \union {0})
        /\ tail' \in Seq(Jobs) /\ Chunks' = Chunks /\ PendingIsQueued'
    BY <2>1, <2>2, ClaimEffect
  <2> QED
    BY <1>0, <2>2, <2>3 DEF Inv0, TypeOK, Jobs, TurnHasSocket, InTurn, flow, peers
<1>16. ASSUME NEW s \in Sockets, Fill(s) \/ Drain(s)
       PROVE  Inv0'
  <2>1. explicit' \subseteq Sockets /\ transport' \subseteq Sockets
        /\ emulator' \in BOOLEAN /\ paused' \in BOOLEAN
    BY <1>0, <1>16 DEF Fill, Drain, Tickets, HasOwner, TypeOK
  <2> QED
    BY <1>0, <1>16, <2>1
    DEF Fill, Drain, Inv0, TypeOK, PendingIsQueued, Chunks, TurnHasSocket, InTurn,
        queue, geometry
<1>17. CASE UNCHANGED vars
  BY <1>17 DEF vars, queue, geometry, flow, peers, Inv0, TypeOK, PendingIsQueued, Chunks,
               TurnHasSocket, InTurn
<1> QED
  BY <1>1, <1>2, <1>3, <1>4, <1>5, <1>6, <1>7, <1>8, <1>9, <1>10, <1>11, <1>12, <1>13, <1>14,
     <1>15, <1>16, <1>17 DEF Next

-----------------------------------------------------------------------------
(* The tickets.  Every action that touches them goes through Tickets. *)
LEMMA PausedStep == PausedWhileHeld /\ [Next]_vars => PausedWhileHeld'
<1> SUFFICES ASSUME PausedWhileHeld, [Next]_vars PROVE PausedWhileHeld'
  OBVIOUS
<1>1. CASE UNCHANGED flow
  BY <1>1 DEF flow, PausedWhileHeld, HasOwner
<1>2. CASE \E ex, tr, em : Tickets(ex, tr, em)
  BY <1>2, TicketsEffect
<1>3. UNCHANGED flow \/ \E ex, tr, em : Tickets(ex, tr, em)
  <2>1. CASE Emit \/ ChunkWritten \/ Commit
    BY <2>1 DEF Emit, ChunkWritten, Commit
  <2>2. CASE Rollback
    BY <2>2 DEF Rollback
  <2>3. CASE GeometryFits \/ GeometryFails \/ Snapshot \/ TakeScreen \/ Refused \/ UNCHANGED vars
    BY <2>3 DEF GeometryFits, GeometryFails, Snapshot, TakeScreen, Refused, vars
  <2>4. ASSUME NEW s \in Sockets, Ask(s) \/ \E w \in Sizes : Resize(s, w)
        PROVE  UNCHANGED flow
    BY <2>4 DEF Ask, Resize
  <2>5. ASSUME NEW s \in Sockets, \E w \in Sizes, p \in BOOLEAN : Prepare(s, w, p)
        PROVE  \E ex, tr, em : Tickets(ex, tr, em)
    BY <2>5 DEF Prepare
  <2>6. ASSUME NEW s \in Sockets, Detach(s) \/ Close(s)
        PROVE  \E ex, tr, em : Tickets(ex, tr, em)
    BY <2>6 DEF Detach, Close, Release
  <2>7. ASSUME NEW s \in Sockets, Pause(s) \/ Resume(s) \/ Fill(s) \/ Drain(s)
        PROVE  \E ex, tr, em : Tickets(ex, tr, em)
    BY <2>7 DEF Pause, Resume, Fill, Drain
  <2> QED
    BY <2>1, <2>2, <2>3, <2>4, <2>5, <2>6, <2>7 DEF Next
<1> QED
  BY <1>1, <1>2, <1>3

(* The emulator's ticket.  Only an emission adds a chunk, and it needs a   *)
(* running process, which needs every ticket back.                         *)
LEMMA WaterStep == Inv0 /\ PausedWhileHeld /\ TicketAtHigh /\ [Next]_vars => TicketAtHigh'
<1> SUFFICES ASSUME Inv0, PausedWhileHeld, TicketAtHigh, [Next]_vars PROVE TicketAtHigh'
  OBVIOUS
<1>0. Chunks \in Nat /\ High \in Nat /\ Low \in Nat /\ Low < High /\ emulator \in BOOLEAN
  BY ChunksType, WatersAssumption DEF Inv0, TypeOK
<1>1. CASE Emit
  <2>1. Chunks' = Chunks + 1
    BY <1>1, EmitEffect DEF Emit
  <2>2. ~emulator /\ (emulator' <=> emulator \/ Chunks + 1 >= High)
    BY <1>1 DEF Emit, Tickets, PausedWhileHeld, HasOwner
  <2> QED
    BY <1>0, <2>1, <2>2 DEF TicketAtHigh
<1>2. CASE ChunkWritten
  <2>1. Chunks' = Chunks - 1
    BY <1>2, AdvanceEffect DEF ChunkWritten, Advance, Settled
  <2>2. emulator' <=> emulator /\ Chunks - 1 > Low
    BY <1>2 DEF ChunkWritten, Tickets
  <2> QED
    BY <1>0, <2>1, <2>2 DEF TicketAtHigh
<1>3. CASE UNCHANGED emulator /\ Chunks' = Chunks
  BY <1>3 DEF TicketAtHigh
<1>4. CASE GeometryFits \/ GeometryFails
  <2>1. Chunks' = Chunks
    BY <1>0, <1>4, AdvanceEffect DEF GeometryFits, GeometryFails, Advance
  <2> QED
    BY <1>3, <1>4, <2>1 DEF GeometryFits, GeometryFails, flow
<1>5. CASE Snapshot \/ TakeScreen \/ Refused \/ UNCHANGED vars
  BY <1>3, <1>5 DEF Snapshot, TakeScreen, Refused, vars, queue, flow, Chunks
<1>6. CASE Commit
  BY <1>3, <1>6 DEF Commit, Tickets, queue, Chunks
<1>7. CASE Rollback
  <2>1. CASE attach.current
    BY <1>3, <1>7, <2>1, RollbackEffect
  <2>2. CASE ~attach.current
    BY <1>3, <1>7, <2>2 DEF Rollback, flow, Chunks
  <2> QED
    BY <2>1, <2>2
<1>8. ASSUME NEW s \in Sockets, Ask(s)
      PROVE  TicketAtHigh'
  BY <1>3, <1>8 DEF Ask, queue, flow, Chunks
<1>9. ASSUME NEW s \in Sockets, NEW w \in Sizes, NEW p \in BOOLEAN, Prepare(s, w, p)
      PROVE  TicketAtHigh'
  <2>1. [claims EXCEPT ![s] = w] \in [Sockets -> Sizes \union {0}]
    BY DEF Inv0, TypeOK
  <2>2. Claim([claims EXCEPT ![s] = w]) /\ UNCHANGED emulator
    BY <1>9 DEF Prepare, Tickets
  <2> QED
    BY <1>3, <2>1, <2>2, ClaimEffect
<1>10. ASSUME NEW s \in Sockets, Detach(s) \/ Close(s)
       PROVE  TicketAtHigh'
  BY <1>3, <1>10, ReleaseEffect DEF Detach, Close
<1>11. ASSUME NEW s \in Sockets, Pause(s) \/ Resume(s) \/ Fill(s) \/ Drain(s)
       PROVE  TicketAtHigh'
  BY <1>3, <1>11 DEF Pause, Resume, Fill, Drain, Tickets, queue, Chunks
<1>12. ASSUME NEW s \in Sockets, NEW w \in Sizes, Resize(s, w)
       PROVE  TicketAtHigh'
  <2>1. [claims EXCEPT ![s] = w] \in [Sockets -> Sizes \union {0}]
    BY DEF Inv0, TypeOK
  <2>2. Claim([claims EXCEPT ![s] = w]) /\ UNCHANGED emulator
    BY <1>12 DEF Resize, flow
  <2> QED
    BY <1>3, <2>1, <2>2, ClaimEffect
<1> QED
  BY <1>1, <1>2, <1>4, <1>5, <1>6, <1>7, <1>8, <1>9, <1>10, <1>11, <1>12 DEF Next

(* The size.  A claim that changes leaves a job behind, and the last job   *)
(* reconciles with the claims there are.                                   *)
LEMMA SizeStep == Inv0 /\ SizeFitsViewers /\ [Next]_vars => SizeFitsViewers'
<1> SUFFICES ASSUME Inv0, SizeFitsViewers, [Next]_vars PROVE SizeFitsViewers'
  OBVIOUS
<1>1. CASE UNCHANGED <<misfit, pending, claims, size>>
  BY <1>1 DEF SizeFitsViewers, Effective
<1>2. CASE pending' # {}
  BY <1>2 DEF SizeFitsViewers
<1>3. CASE GeometryFits
  <2>1. claims' = claims /\ Effective(claims)' = Effective(claims)
    BY <1>3 DEF GeometryFits, Effective
  <2>2. size' = IF Effective(claims) = 0 THEN size ELSE Effective(claims)
    BY <1>3 DEF GeometryFits
  <2> QED
    BY <2>1, <2>2 DEF SizeFitsViewers
<1>4. CASE GeometryFails
  BY <1>4 DEF GeometryFails, SizeFitsViewers
<1>5. CASE Emit \/ ChunkWritten \/ Snapshot \/ TakeScreen \/ Commit \/ Refused \/ UNCHANGED vars
  BY <1>1, <1>5
  DEF Emit, ChunkWritten, Snapshot, TakeScreen, Commit, Refused, vars, queue, geometry
<1>6. CASE Rollback
  <2>1. CASE attach.current
    BY <1>2, <1>6, <2>1, RollbackEffect
  <2>2. CASE ~attach.current
    BY <1>1, <1>6, <2>2 DEF Rollback
  <2> QED
    BY <2>1, <2>2
<1>7. ASSUME NEW s \in Sockets, NEW w \in Sizes, Resize(s, w) \/ \E p \in BOOLEAN : Prepare(s, w, p)
      PROVE  SizeFitsViewers'
  BY <1>2, <1>7 DEF Resize, Prepare, Claim
<1>8. ASSUME NEW s \in Sockets, Detach(s) \/ Close(s)
      PROVE  SizeFitsViewers'
  <2>1. UNCHANGED <<size, misfit>> /\ Release(s)
    BY <1>8 DEF Detach, Close
  <2> QED
    BY <1>1, <1>2, <2>1, ReleaseEffect
<1>9. ASSUME NEW s \in Sockets, Ask(s) \/ Pause(s) \/ Resume(s) \/ Fill(s) \/ Drain(s)
      PROVE  SizeFitsViewers'
  BY <1>1, <1>9 DEF Ask, Pause, Resume, Fill, Drain, queue, geometry
<1> QED
  BY <1>3, <1>4, <1>5, <1>6, <1>7, <1>8, <1>9 DEF Next

-----------------------------------------------------------------------------
(* What the viewers have.  The screen of an attach is committed before     *)
(* anything else can be written, and a rollback does not subscribe anyone  *)
(* who was not a subscriber.                                               *)
Viewers == PrevIsSubs /\ ScreenIsNew /\ ScreenThenStream

LEMMA ViewersStep == Inv0 /\ Viewers /\ [Next]_vars => Viewers'
<1> SUFFICES ASSUME Inv0, Viewers, [Next]_vars PROVE Viewers'
  OBVIOUS
<1>0. /\ TypeOK /\ applied \in Nat /\ attach \in AttachType
      /\ InTurn => attach.sock \in Sockets
  BY DEF Inv0, TypeOK, AttachType, TurnHasSocket
<1>1. CASE UNCHANGED <<applied, subs, attach, seen>>
  BY <1>1 DEF Viewers, PrevIsSubs, ScreenIsNew, ScreenThenStream, InTurn
<1>2. CASE Emit \/ UNCHANGED vars
  BY <1>1, <1>2 DEF Emit, vars, queue, flow
<1>3. CASE ChunkWritten
  <2>1. /\ subs' = subs /\ applied' = applied + 1
        /\ seen' = [s \in Sockets |-> IF s \in subs THEN seen[s] + 1 ELSE seen[s]]
    BY <1>3 DEF ChunkWritten
  <2>2. /\ (attach').sock = attach.sock /\ (attach').stage = attach.stage
        /\ (attach').current = attach.current /\ (attach').prev = attach.prev
    BY <1>3, TurnWaits DEF ChunkWritten, Advance
  <2>3. attach.stage # "screened"
    BY <1>3 DEF ChunkWritten, Settled, Resumable, Viewers, ScreenIsNew
  <2>4. ScreenThenStream'
    BY <1>0, <2>1 DEF TypeOK, Viewers, ScreenThenStream
  <2> QED
    BY <2>1, <2>2, <2>3, <2>4 DEF Viewers, PrevIsSubs, ScreenIsNew, InTurn
<1>4. CASE GeometryFits
  <2>1. /\ (attach').sock = attach.sock /\ (attach').stage = attach.stage
        /\ (attach').current = attach.current /\ (attach').prev = attach.prev
        /\ (attach').screen = attach.screen
        /\ attach.wait = 0 => (attach').wait = 0
    BY <1>4, TurnWaits DEF GeometryFits, Advance
  <2> QED
    BY <1>4, <2>1
    DEF GeometryFits, flow, Viewers, PrevIsSubs, ScreenIsNew, ScreenThenStream, InTurn
<1>5. CASE GeometryFails
  <2>1. /\ (attach').sock = attach.sock
        /\ \/ (attach').stage = attach.stage
           \/ attach.stage = "prepare" /\ (attach').stage = "rejected"
        /\ (attach').current = attach.current /\ (attach').prev = attach.prev
        /\ (attach').screen = attach.screen
        /\ attach.wait = 0 => (attach').wait = 0
    BY <1>5, TurnFails
  <2> QED
    BY <1>5, <2>1
    DEF GeometryFails, flow, Viewers, PrevIsSubs, ScreenIsNew, ScreenThenStream, InTurn
<1>6. CASE Snapshot \/ TakeScreen
  <2>1. /\ (attach').sock = attach.sock /\ (attach').current = attach.current
        /\ (attach').prev = attach.prev /\ InTurn
        /\ \/ (attach').stage = "snapshot"
           \/ (attach').stage = "screened" /\ (attach').wait = 0 /\ (attach').screen = applied
    <3>1. attach \in AttachType
      BY <1>0
    <3>2. CASE Snapshot
      <4>1. attach.stage = "prepare"
            /\ attach' = [attach EXCEPT !.stage = "snapshot", !.wait = Len(tail)]
        BY <3>2 DEF Snapshot
      <4> QED
        BY <3>1, <4>1 DEF InTurn, AttachType
    <3>3. CASE TakeScreen
      <4>1. /\ attach.stage = "snapshot" /\ attach.wait = 0
            /\ attach' = [attach EXCEPT !.stage = "screened", !.screen = applied]
        BY <3>3 DEF TakeScreen
      <4> QED
        BY <3>1, <4>1 DEF InTurn, AttachType
    <3> QED
      BY <1>6, <3>2, <3>3
  <2>2. UNCHANGED <<applied, subs, seen>>
    BY <1>6 DEF Snapshot, TakeScreen, queue, flow
  <2> QED
    BY <2>1, <2>2 DEF Viewers, PrevIsSubs, ScreenIsNew, ScreenThenStream, InTurn
<1>7. CASE Commit
  <2>1. /\ subs' = subs \union {attach.sock} /\ attach' = NoTurn /\ applied' = applied
        /\ seen' = [seen EXCEPT ![attach.sock] = applied]
    BY <1>7 DEF Commit, queue, Viewers, ScreenIsNew
  <2>2. attach.sock \in Sockets /\ seen \in [Sockets -> Nat]
    BY <1>0, <1>7 DEF Commit, InTurn, TypeOK
  <2>3. ScreenThenStream'
    BY <2>1, <2>2 DEF Viewers, ScreenThenStream
  <2> QED
    BY <2>1, <2>3, NoTurnType DEF Viewers, PrevIsSubs, ScreenIsNew, InTurn
<1>8. CASE Rollback
  <2>1. UNCHANGED <<applied, seen>> /\ InTurn
    BY <1>8 DEF Rollback, InTurn
  <2>2. CASE attach.current
    <3>1. subs' = IF attach.prev.subscribed THEN subs \union {attach.sock} ELSE subs \ {attach.sock}
      BY <1>8, <2>2, RollbackEffect
    <3>2. subs' = subs
      BY <2>1, <2>2, <3>1 DEF Viewers, PrevIsSubs
    <3>3. \E n \in Nat : attach' = [attach EXCEPT !.stage = "undo", !.wait = n]
      BY <1>8, <2>2, RollbackEffect
    <3>4. /\ (attach').sock = attach.sock /\ (attach').stage = "undo"
          /\ (attach').current = attach.current /\ (attach').prev = attach.prev
      BY <1>0, <3>3 DEF AttachType
    <3> QED
      BY <2>1, <3>2, <3>4 DEF Viewers, PrevIsSubs, ScreenIsNew, ScreenThenStream, InTurn
  <2>3. CASE ~attach.current
    <3>1. attach' = NoTurn /\ subs' = subs
      BY <1>8, <2>3 DEF Rollback, flow
    <3> QED
      BY <2>1, <3>1, NoTurnType
      DEF Viewers, PrevIsSubs, ScreenIsNew, ScreenThenStream, InTurn
  <2> QED
    BY <2>2, <2>3
<1>9. CASE Refused
  BY <1>9, NoTurnType
  DEF Refused, queue, flow, Viewers, PrevIsSubs, ScreenIsNew, ScreenThenStream, InTurn
<1>10. ASSUME NEW s \in Sockets, NEW w \in Sizes, NEW p \in BOOLEAN, Prepare(s, w, p)
       PROVE  Viewers'
  <2>1. /\ UNCHANGED <<applied, subs, seen>>
        /\ (attach').sock = s /\ (attach').stage = "prepare"
        /\ (attach').prev.subscribed = (s \in subs)
    BY <1>10 DEF Prepare
  <2> QED
    BY <2>1 DEF Viewers, PrevIsSubs, ScreenIsNew, ScreenThenStream, InTurn
<1>11. ASSUME NEW s \in Sockets, Detach(s)
       PROVE  Viewers'
  <2>1. /\ UNCHANGED <<applied, attach>> /\ attach.sock # s
        /\ subs' = subs \ {s} /\ seen' = [seen EXCEPT ![s] = 0]
    BY <1>11 DEF Detach, Served, Release
  <2>2. seen \in [Sockets -> Nat]
    BY <1>0 DEF TypeOK
  <2> QED
    BY <1>0, <2>1, <2>2
    DEF Viewers, PrevIsSubs, ScreenIsNew, ScreenThenStream, InTurn, TypeOK
<1>12. ASSUME NEW s \in Sockets, Close(s)
       PROVE  Viewers'
  <2>1. /\ UNCHANGED applied
        /\ subs' = subs \ {s} /\ seen' = [seen EXCEPT ![s] = 0]
    BY <1>12 DEF Close, Release
  <2>2. /\ (attach').sock = attach.sock /\ (attach').stage = attach.stage
        /\ (attach').prev = attach.prev /\ (attach').screen = attach.screen
        /\ (attach').wait = attach.wait
        /\ (attach').current => attach.current /\ attach.sock # s
    BY <1>0, <1>12 DEF Close, AttachType
  <2>3. ScreenThenStream'
    BY <1>0, <2>1 DEF Viewers, ScreenThenStream, TypeOK
  <2> QED
    BY <2>1, <2>2, <2>3 DEF Viewers, PrevIsSubs, ScreenIsNew, InTurn
<1>13. ASSUME NEW s \in Sockets,
              Ask(s) \/ Pause(s) \/ Resume(s) \/ Fill(s) \/ Drain(s) \/ \E w \in Sizes : Resize(s, w)
       PROVE  Viewers'
  BY <1>1, <1>13 DEF Ask, Pause, Resume, Fill, Drain, Resize, queue, flow
<1> QED
  BY <1>2, <1>3, <1>4, <1>5, <1>6, <1>7, <1>8, <1>9, <1>10, <1>11, <1>12, <1>13 DEF Next

-----------------------------------------------------------------------------
(* The transport tickets.  A rollback takes the subscription only of one   *)
(* who had none, and so no ticket either.                                  *)
Drains == ClosedNeedNoDrain /\ TicketAwaitsDrain

LEMMA DrainsStep == Inv0 /\ PrevIsSubs /\ Drains /\ [Next]_vars => Drains'
<1> SUFFICES ASSUME Inv0, PrevIsSubs, Drains, [Next]_vars PROVE Drains'
  OBVIOUS
<1> USE DEF Drains, ClosedNeedNoDrain, TicketAwaitsDrain
<1>1. CASE UNCHANGED <<transport, subs, full, closed>>
  BY <1>1
<1>2. CASE \/ Emit \/ ChunkWritten \/ GeometryFits \/ GeometryFails \/ Snapshot \/ TakeScreen
           \/ Refused \/ UNCHANGED vars
  BY <1>1, <1>2 DEF Emit, ChunkWritten, GeometryFits, GeometryFails, Snapshot, TakeScreen, Refused,
                    vars, flow, peers, Tickets
<1>3. CASE Commit
  BY <1>3 DEF Commit, Tickets, peers
<1>4. CASE Rollback
  <2>1. UNCHANGED <<full, closed>> /\ InTurn
    BY <1>4 DEF Rollback, peers, InTurn
  <2>2. CASE attach.current
    <3>1. /\ transport' = transport
          /\ subs' = IF attach.prev.subscribed THEN subs \union {attach.sock}
                                               ELSE subs \ {attach.sock}
      BY <1>4, <2>2, RollbackEffect
    <3> QED
      BY <2>1, <2>2, <3>1 DEF PrevIsSubs
  <2>3. CASE ~attach.current
    BY <1>1, <1>4, <2>1, <2>3 DEF Rollback, flow
  <2> QED
    BY <2>2, <2>3
<1>5. ASSUME NEW s \in Sockets, NEW w \in Sizes, Resize(s, w) \/ \E p \in BOOLEAN : Prepare(s, w, p)
      PROVE  Drains'
  BY <1>1, <1>5 DEF Resize, Prepare, Tickets, flow, peers
<1>6. ASSUME NEW s \in Sockets, Detach(s) \/ Close(s) \/ Fill(s) \/ Drain(s)
      PROVE  Drains'
  BY <1>6 DEF Detach, Close, Fill, Drain, Release, Tickets, peers
<1>7. ASSUME NEW s \in Sockets, Ask(s) \/ Pause(s) \/ Resume(s)
      PROVE  Drains'
  BY <1>1, <1>7 DEF Ask, Pause, Resume, Tickets, flow, peers
<1> QED
  BY <1>2, <1>3, <1>4, <1>5, <1>6, <1>7 DEF Next

(* What a connection that has gone still holds.  Served keeps its own      *)
(* requests out; only an attach of its own can give it anything back.      *)
Gone == GoneTurn /\ GoneHoldsNothing

LEMMA GoneStep ==
  Inv0 /\ PrevIsSubs /\ Drains /\ Gone /\ [Next]_vars => Gone'
<1> SUFFICES ASSUME Inv0, PrevIsSubs, Drains, Gone, [Next]_vars PROVE Gone'
  OBVIOUS
<1>0. /\ attach \in AttachType /\ claims \in [Sockets -> Sizes \union {0}] /\ closed \subseteq Sockets
      /\ IF InTurn THEN attach.sock \in Sockets ELSE attach = NoTurn
  BY DEF Inv0, TypeOK, AttachType, TurnHasSocket
<1> USE DEF Gone, GoneTurn, GoneHoldsNothing, InTurn
<1>1. CASE /\ UNCHANGED <<subs, explicit, transport, claims, closed>>
           /\ (attach').sock = attach.sock /\ (attach').current = attach.current
           /\ (attach').prev = attach.prev
           /\ (attach').stage = "undo" <=> attach.stage = "undo"
           /\ (attach').stage = "none" <=> attach.stage = "none"
  BY <1>1
<1>2. CASE Emit \/ UNCHANGED vars
  BY <1>1, <1>2 DEF Emit, vars, geometry, flow, peers, Tickets
<1>3. CASE ChunkWritten
  BY <1>1, <1>3, TurnWaits DEF ChunkWritten, Advance, geometry, peers, Tickets
<1>4. CASE GeometryFits
  BY <1>1, <1>4, TurnWaits DEF GeometryFits, Advance, flow, peers
<1>5. CASE GeometryFails
  <2>1. /\ (attach').sock = attach.sock
        /\ \/ (attach').stage = attach.stage
           \/ attach.stage = "prepare" /\ (attach').stage = "rejected"
        /\ (attach').current = attach.current /\ (attach').prev = attach.prev
    BY <1>5, TurnFails
  <2> QED
    BY <1>1, <1>5, <2>1 DEF GeometryFails, flow, peers
<1>6. CASE Snapshot \/ TakeScreen
  <2>1. /\ (attach').sock = attach.sock /\ (attach').current = attach.current
        /\ (attach').prev = attach.prev
        /\ (attach').stage \notin {"undo", "none"} /\ attach.stage \notin {"undo", "none"}
    BY <1>0, <1>6 DEF Snapshot, TakeScreen, AttachType
  <2> QED
    BY <1>1, <1>6, <2>1 DEF Snapshot, TakeScreen, geometry, flow, peers
<1>7. CASE Commit
  <2>1. /\ subs' = subs \union {attach.sock} /\ explicit' = explicit
        /\ transport' \subseteq transport \union {attach.sock}
        /\ claims' = claims /\ closed' = closed
        /\ attach.sock \notin closed /\ attach' = NoTurn
    BY <1>7 DEF Commit, IsCurrent, Tickets, geometry, peers
  <2> QED
    BY <1>0, <2>1, NoTurnType
<1>8. CASE Rollback
  <2>1. InTurn /\ attach.stage # "undo" /\ closed' = closed
    BY <1>8 DEF Rollback, peers
  <2>2. CASE attach.current
    <3> DEFINE k == attach.sock
    <3>1. /\ k \in Sockets
          /\ explicit' = IF attach.prev.paused THEN explicit \union {k} ELSE explicit \ {k}
          /\ transport' = transport
          /\ subs' = IF attach.prev.subscribed THEN subs \union {k} ELSE subs \ {k}
          /\ claims' = [claims EXCEPT ![k] = attach.prev.claim]
          /\ \E n \in Nat : attach' = [attach EXCEPT !.stage = "undo", !.wait = n]
      BY <1>8, <2>2, RollbackEffect
    <3>2. /\ (attach').sock = k /\ (attach').stage = "undo"
          /\ (attach').current = attach.current /\ (attach').prev = attach.prev
      BY <1>0, <3>1 DEF AttachType
    <3>3. k \in closed => ~attach.prev.paused /\ ~attach.prev.subscribed /\ attach.prev.claim = 0
      BY <2>1, <2>2 DEF Nothing
    <3>4. k \in closed => k \notin transport
      BY DEF Drains, ClosedNeedNoDrain, TicketAwaitsDrain
    <3>5. k \in closed => k \notin explicit' \union transport' /\ (claims')[k] = 0
      BY <1>0, <3>1, <3>3, <3>4
    <3>6. GoneTurn'
      BY <2>1, <3>2, <3>5
    <3>7. GoneHoldsNothing'
      <4> SUFFICES ASSUME NEW s \in closed
                   PROVE  /\ s \notin subs'
                          /\ k # s => s \notin explicit' \union transport' /\ (claims')[s] = 0
        BY <2>1, <3>2
      <4>1. CASE k = s
        BY <3>1, <3>3, <4>1
      <4>2. CASE k # s
        BY <1>0, <3>1, <4>2
      <4> QED
        BY <4>1, <4>2
    <3> QED
      BY <3>6, <3>7
  <2>3. CASE ~attach.current
    <3>1. attach' = NoTurn /\ UNCHANGED <<subs, explicit, transport, claims>>
      BY <1>8, <2>3 DEF Rollback, flow
    <3> QED
      BY <2>1, <2>3, <3>1, NoTurnType
  <2> QED
    BY <2>2, <2>3
<1>9. CASE Refused
  <2>1. attach' = NoTurn /\ UNCHANGED <<subs, explicit, transport, claims, closed>>
        /\ attach.stage = "undo"
    BY <1>9 DEF Refused, geometry, flow, peers
  <2> QED
    BY <2>1, NoTurnType
<1>10. ASSUME NEW s \in Sockets, NEW w \in Sizes, NEW p \in BOOLEAN, Prepare(s, w, p)
       PROVE  Gone'
  <2>1. /\ UNCHANGED <<subs, transport, closed>> /\ attach = NoTurn
        /\ explicit' = IF p THEN explicit \union {s} ELSE explicit \ {s}
        /\ claims' = [claims EXCEPT ![s] = w]
        /\ (attach').sock = s /\ (attach').stage = "prepare" /\ (attach').current
        /\ (attach').prev = [claim |-> claims[s], paused |-> s \in explicit,
                             subscribed |-> s \in subs]
    BY <1>0, <1>10 DEF Prepare, Tickets, Claim
  <2>2. attach.sock \notin Sockets
    BY <2>1, NoTurnType
  <2>3. s \in closed => (attach').prev = Nothing
    <3> SUFFICES ASSUME s \in closed PROVE (attach').prev = Nothing
      OBVIOUS
    <3>1. claims[s] = 0 /\ (s \in explicit) = FALSE /\ (s \in subs) = FALSE
      BY <2>2
    <3> QED
      BY <2>1, <3>1 DEF Nothing
  <2>4. GoneHoldsNothing'
    BY <1>0, <2>1, <2>2
  <2> QED
    BY <2>1, <2>3, <2>4
<1>11. ASSUME NEW s \in Sockets, Detach(s)
       PROVE  Gone'
  <2>1. /\ UNCHANGED <<attach, closed>>
        /\ subs' = subs \ {s} /\ explicit' = explicit \ {s} /\ transport' = transport \ {s}
        /\ claims' = [claims EXCEPT ![s] = 0]
    BY <1>11, ReleaseEffect DEF Detach, peers
  <2> QED
    BY <1>0, <2>1
<1>12. ASSUME NEW s \in Sockets, Close(s)
       PROVE  Gone'
  <2>1. /\ closed' = closed \union {s}
        /\ subs' = subs \ {s} /\ explicit' = explicit \ {s} /\ transport' = transport \ {s}
        /\ claims' = [claims EXCEPT ![s] = 0]
    BY <1>12, ReleaseEffect DEF Close
  <2>2. /\ (attach').sock = attach.sock /\ (attach').stage = attach.stage
        /\ (attach').prev = attach.prev
        /\ IF attach.sock = s THEN ~(attach').current ELSE (attach').current = attach.current
    BY <1>0, <1>12 DEF Close, AttachType
  <2> QED
    BY <1>0, <2>1, <2>2
<1>13. ASSUME NEW s \in Sockets,
              Pause(s) \/ Fill(s) \/ \E w \in Sizes : Resize(s, w)
       PROVE  Gone'
  <2>1. /\ UNCHANGED <<subs, attach, closed>> /\ s \notin closed
        /\ explicit' \subseteq explicit \union {s} /\ transport' \subseteq transport \union {s}
        /\ \A r \in Sockets \ {s} : (claims')[r] = claims[r]
    BY <1>0, <1>13 DEF Pause, Fill, Resize, Served, Claim, Tickets, geometry, flow, peers
  <2> QED
    BY <1>0, <2>1
<1>14. ASSUME NEW s \in Sockets, Ask(s) \/ Resume(s) \/ Drain(s)
       PROVE  Gone'
  <2>1. /\ UNCHANGED <<subs, attach, claims, closed>>
        /\ explicit' \subseteq explicit /\ transport' \subseteq transport
    BY <1>14 DEF Ask, Resume, Drain, Tickets, geometry, flow, peers
  <2> QED
    BY <2>1
<1> QED
  BY <1>2, <1>3, <1>4, <1>5, <1>6, <1>7, <1>8, <1>9, <1>10, <1>11, <1>12, <1>13, <1>14 DEF Next

-----------------------------------------------------------------------------
(* Together. *)
LEMMA FlowInvInit == Init => FlowInv
<1> SUFFICES ASSUME Init PROVE FlowInv
  OBVIOUS
<1>1. PICK s \in Sockets, p \in BOOLEAN :
        /\ tail = <<>> /\ applied = 0 /\ size = Spawned
        /\ claims = [r \in Sockets |-> IF r = s THEN Spawned ELSE 0]
        /\ subs = {s} /\ explicit = {r \in {s} : p} /\ transport = {} /\ emulator = FALSE
        /\ paused = p /\ attach = NoTurn
        /\ closed = {} /\ full = {} /\ seen = [r \in Sockets |-> 0]
  BY DEF Init
<1>2. Inv0
  BY Inv0Init
<1>3. Chunks = 0
  <2>1. ChunksOf(tail) = {}
    BY <1>1 DEF ChunksOf
  <2> QED
    BY <2>1, ChunksAreChunksOf, FS_EmptySet
<1>4. PausedWhileHeld
  BY <1>1 DEF PausedWhileHeld, HasOwner
<1>5. TicketAtHigh
  BY <1>1, <1>3, WatersAssumption DEF TicketAtHigh
<1>6. SizeFitsViewers
  <2> DEFINE widths == {claims[r] : r \in Sockets} \ {0}
  <2>1. widths = {Spawned}
    BY <1>1, SizesAssumption
  <2>2. (CHOOSE w \in widths : \A v \in widths : w <= v) = Spawned
    BY <2>1, SizesAssumption
  <2>3. Effective(claims) = Spawned
    BY <2>1, <2>2 DEF Effective
  <2> QED
    BY <1>1, <2>3 DEF SizeFitsViewers
<1> QED
  BY <1>1, <1>2, <1>4, <1>5, <1>6, NoTurnType
  DEF FlowInv, PrevIsSubs, ScreenIsNew, ScreenThenStream, ClosedNeedNoDrain, TicketAwaitsDrain,
      GoneTurn, GoneHoldsNothing, InTurn

LEMMA FlowInvStep == FlowInv /\ [Next]_vars => FlowInv'
<1> SUFFICES ASSUME FlowInv, [Next]_vars PROVE FlowInv'
  OBVIOUS
<1>1. /\ Inv0' /\ PausedWhileHeld' /\ TicketAtHigh' /\ SizeFitsViewers'
  BY Inv0Step, PausedStep, WaterStep, SizeStep DEF FlowInv
<1>2. Viewers'
  BY ViewersStep DEF FlowInv, Viewers
<1>3. Drains'
  BY DrainsStep DEF FlowInv, Drains
<1>4. Gone'
  BY GoneStep DEF FlowInv, Drains, Gone
<1> QED
  BY <1>1, <1>2, <1>3, <1>4 DEF FlowInv, Viewers, Drains, Gone

(* The invariant all the properties below are parts of. *)
THEOREM FlowInvariant == Spec => []FlowInv
BY FlowInvInit, FlowInvStep, PTL DEF Spec

(* Type correctness of the terminal, its viewers and the attach in turn. *)
THEOREM FlowTypeCorrect == Spec => []TypeOK
<1>1. FlowInv => TypeOK
  BY DEF FlowInv, Inv0
<1> QED
  BY <1>1, FlowInvariant, PTL

(* However attaches, closes, resizes and output interleave, each viewer    *)
(* has all that was written, as its screen or as frames since (attach and  *)
(* activate in host.ts, broadcast in session.ts).                          *)
THEOREM NothingMissedOrRepeated == Spec => []ScreenThenStream
<1>1. FlowInv => ScreenThenStream
  BY DEF FlowInv
<1> QED
  BY <1>1, FlowInvariant, PTL

(* The process is paused if and only if somebody holds a ticket, whatever  *)
(* order tickets come and go in (reconcileProcFlow).                       *)
THEOREM PauseFollowsTickets == Spec => []PausedWhileHeld
<1>1. FlowInv => PausedWhileHeld
  BY DEF FlowInv
<1> QED
  BY <1>1, FlowInvariant, PTL

(* No transport ticket outlives the drain that would return it             *)
(* (socket-flow.ts).                                                       *)
THEOREM DrainReturnsTicket == Spec => []TicketAwaitsDrain
<1>1. FlowInv => TicketAwaitsDrain
  BY DEF FlowInv
<1> QED
  BY <1>1, FlowInvariant, PTL

(* The emulator never has more output waiting than the high-water mark,    *)
(* for any two marks (enqueueOutput).                                      *)
THEOREM EmulatorBacklogBounded == Spec => []OutputIsBounded
<1>1. FlowInv => OutputIsBounded
  BY DEF FlowInv, TicketAtHigh, OutputIsBounded
<1> QED
  BY <1>1, FlowInvariant, PTL

(* A connection that has gone holds no subscription, ticket or claim, at   *)
(* whatever moment of an attach it went (releaseSocket, rollbackAttach).   *)
THEOREM CrashedViewerHoldsNothing == Spec => []GoneHoldsNothing
<1>1. FlowInv => GoneHoldsNothing
  BY DEF FlowInv
<1> QED
  BY <1>1, FlowInvariant, PTL

(* With no reconciliation to come the terminal has the width of its        *)
(* narrowest viewer (applyEffectiveGeometry).                              *)
THEOREM TerminalFitsNarrowest == Spec => []SizeFitsViewers
<1>1. FlowInv => SizeFitsViewers
  BY DEF FlowInv
<1> QED
  BY <1>1, FlowInvariant, PTL
=============================================================================
