-------------------------- MODULE DeliveryQueueProofs --------------------------
(***************************************************************************)
(* What holds of the queue of one target for any messages, capacity and    *)
(* TTL.                                                                    *)
(*                                                                         *)
(* HeldOnce speaks of the array the map knows, but an array that was put   *)
(* aside comes back when the enqueue that has read it resumes.  So the     *)
(* invariant speaks of every array in use, known to the map or read by an  *)
(* enqueue under way: each message is at one place of one of them at most  *)
(* (OnePlace), and is nowhere else in its life (InPlaceIsQueued).          *)
(***************************************************************************)
EXTENDS DeliveryQueue, TLAPS, SequenceTheorems, FiniteSetTheorems

InUse(l) == l = queue \/ \E m \in Messages : read[m] = l

UsedArrays == {l \in Arrays : InUse(l)}

OnePlace ==
  \A l, k \in UsedArrays : \A i \in DOMAIN arrays[l], j \in DOMAIN arrays[k] :
     arrays[l][i] = arrays[k][j] => l = k /\ i = j

InPlaceIsQueued ==
  \A l \in UsedArrays : \A i \in DOMAIN arrays[l] : phase[arrays[l][i]] = "queued"

TimedIsQueued == \A m \in Messages : timer[m] # Off => phase[m] = "queued"

ReadWhileTracing == \A m \in Messages : read[m] # 0 <=> phase[m] = "tracing"

QueueInv ==
  QueueTypeOK /\ OnePlace /\ InPlaceIsQueued /\ TimedIsQueued /\ ReadWhileTracing

-----------------------------------------------------------------------------
(* There is always a number for a new array: at most the enqueues under    *)
(* way hold one each, and a message that has none is asking.               *)
LEMMA FreshExists ==
  ASSUME QueueTypeOK, queue = 0
  PROVE  Fresh \in Arrays /\ Fresh # queue /\ \A m \in Messages : read[m] # Fresh
<1> DEFINE Reads == {l \in Arrays : \E m \in Messages : read[m] = l}
           n == Cardinality(Messages)
           Readers == {m \in Messages : read[m] # 0}
           f == [m \in Readers |-> read[m]]
<1>1. IsFiniteSet(Messages) /\ n \in Nat
  BY MessagesAssumption, FS_CardinalityType
<1>2. IsFiniteSet(Readers) /\ Cardinality(Readers) <= n
  BY <1>1, FS_Subset
<1>3. f \in Surjection(Readers, Reads)
  <2>1. \A m \in Readers : read[m] \in Reads
    BY DEF QueueTypeOK
  <2>2. \A l \in Reads : \E m \in Readers : f[m] = l
    <3>1. TAKE l \in Reads
    <3>2. PICK m \in Messages : read[m] = l
      OBVIOUS
    <3>3. l # 0
      BY <1>1 DEF Arrays
    <3> QED
      BY <3>2, <3>3
  <2>3. f \in [Readers -> Reads]
    BY <2>1
  <2> HIDE DEF f, Readers, Reads
  <2> QED
    BY <2>2, <2>3 DEF Surjection
<1>4. IsFiniteSet(Reads) /\ Cardinality(Reads) <= n /\ Cardinality(Reads) \in Nat
  <2>1. IsFiniteSet(Reads) /\ Cardinality(Reads) <= Cardinality(Readers)
    BY <1>2, <1>3, FS_Surjection
  <2>2. Cardinality(Reads) \in Nat /\ Cardinality(Readers) \in Nat
    BY <1>2, <2>1, FS_CardinalityType
  <2> QED
    BY <1>1, <1>2, <2>1, <2>2
<1>5. Cardinality(Arrays) = n + 1
  BY <1>1, FS_Interval DEF Arrays
<1>6. Reads # Arrays
  <2>1. Cardinality(Reads) # Cardinality(Arrays)
    BY <1>1, <1>4, <1>5
  <2> QED
    BY <2>1
<1>7. PICK l \in Arrays : l \notin Reads
  BY <1>6
<1>8. l # queue /\ \A m \in Messages : read[m] # l
  BY <1>1, <1>7 DEF Arrays
<1> QED
  BY <1>7, <1>8 DEF Fresh

(* The array an operation on the target works on, and what it holds. *)
LEMMA ListOrNewType ==
  ASSUME QueueInv
  PROVE  /\ ListOrNew \in Arrays /\ ListOrNew # 0 /\ Contents \in Seq(Messages)
         /\ queue # 0 => ListOrNew = queue /\ Contents = arrays[queue] /\ queue \in UsedArrays
         /\ queue = 0 => Contents = <<>> /\ ListOrNew \notin UsedArrays
<1>1. Cardinality(Messages) \in Nat
  BY MessagesAssumption, FS_CardinalityType
<1>2. CASE queue = 0
  BY <1>1, <1>2, FreshExists DEF QueueInv, ListOrNew, Contents, UsedArrays, InUse, Arrays
<1>3. CASE queue # 0
  BY <1>1, <1>3 DEF QueueInv, QueueTypeOK, ListOrNew, Contents, UsedArrays, InUse, Arrays
<1> QED
  BY <1>2, <1>3

(* A message that is not queued is at no place in use. *)
LEMMA NotPlaced ==
  ASSUME QueueInv, NEW m \in Messages, phase[m] # "queued",
         NEW l \in UsedArrays, NEW i \in DOMAIN arrays[l]
  PROVE  arrays[l][i] # m
BY DEF QueueInv, InPlaceIsQueued

(* Taking out the k-th moves the ones behind it up. *)
LEMMA RemoveAtEffect ==
  ASSUME NEW q \in Seq(Messages), NEW k \in DOMAIN q
  PROVE  /\ RemoveAt(q, k) \in Seq(Messages)
         /\ Len(RemoveAt(q, k)) = Len(q) - 1
         /\ \A i \in 1..Len(q) - 1 : RemoveAt(q, k)[i] = IF i < k THEN q[i] ELSE q[i+1]
<1> DEFINE a == SubSeq(q, 1, k-1)
           b == SubSeq(q, k+1, Len(q))
<1>1. Len(q) \in Nat /\ DOMAIN q = 1..Len(q) /\ \A i \in 1..Len(q) : q[i] \in Messages
  BY LenProperties, ElementOfSeq
<1>2. RemoveAt(q, k) = a \o b
  BY DEF RemoveAt
<1>3. a \in Seq(Messages) /\ Len(a) = k - 1 /\ \A i \in 1..k-1 : a[i] = q[i]
  <2>1. \A i \in 1..(k-1) : q[i] \in Messages
    BY <1>1
  <2>2. /\ a \in Seq(Messages) /\ Len(a) = IF 1 <= k-1 THEN (k-1)-1+1 ELSE 0
        /\ \A i \in 1..(k-1)-1+1 : a[i] = q[1+i-1]
    BY <1>1, <2>1, SubSeqProperties
  <2> HIDE DEF a
  <2> QED
    BY <1>1, <2>2
<1>4. b \in Seq(Messages) /\ Len(b) = Len(q) - k /\ \A i \in 1..Len(q)-k : b[i] = q[k+i]
  <2>1. \A i \in (k+1)..Len(q) : q[i] \in Messages
    BY <1>1
  <2>2. /\ b \in Seq(Messages) /\ Len(b) = IF k+1 <= Len(q) THEN Len(q)-(k+1)+1 ELSE 0
        /\ \A i \in 1..Len(q)-(k+1)+1 : b[i] = q[(k+1)+i-1]
    BY <1>1, <2>1, SubSeqProperties
  <2> HIDE DEF b
  <2>3. Len(b) = Len(q) - k
    BY <1>1, <2>2
  <2>4. ASSUME NEW i \in 1..Len(q)-k PROVE b[i] = q[k+i]
    <3>1. i \in 1..Len(q)-(k+1)+1 /\ (k+1)+i-1 = k+i
      BY <1>1
    <3>2. b[i] = q[(k+1)+i-1]
      BY <2>2, <3>1
    <3> QED
      BY <3>1, <3>2
  <2> QED
    BY <2>2, <2>3, <2>4
<1> HIDE DEF a, b
<1>5. /\ a \o b \in Seq(Messages) /\ Len(a \o b) = Len(q) - 1
      /\ \A i \in 1..Len(q) - 1 : (a \o b)[i] = IF i <= k-1 THEN a[i] ELSE b[i-(k-1)]
  <2>1. /\ a \o b \in Seq(Messages) /\ Len(a \o b) = Len(a) + Len(b)
        /\ \A i \in 1..Len(a) + Len(b) : (a \o b)[i] = IF i <= Len(a) THEN a[i] ELSE b[i-Len(a)]
    BY <1>3, <1>4, ConcatProperties
  <2>2. Len(a) = k - 1 /\ Len(a) + Len(b) = Len(q) - 1
    BY <1>1, <1>3, <1>4
  <2> QED
    BY <2>1, <2>2
<1>6. ASSUME NEW i \in 1..Len(q) - 1
      PROVE  (a \o b)[i] = IF i < k THEN q[i] ELSE q[i+1]
  <2>1. CASE i < k
    BY <1>1, <1>3, <1>5, <2>1
  <2>2. CASE i >= k
    <3>1. i - (k-1) \in 1..Len(q)-k /\ k + (i - (k-1)) = i + 1
      BY <1>1, <2>2
    <3>2. b[i-(k-1)] = q[k + (i-(k-1))]
      BY <1>4, <3>1
    <3>3. (a \o b)[i] = b[i-(k-1)]
      BY <1>1, <1>5, <2>2
    <3> QED
      BY <1>1, <2>2, <3>1, <3>2, <3>3
  <2>3. i < k \/ i >= k
    BY <1>1
  <2> QED
    BY <2>1, <2>2, <2>3
<1> QED
  BY <1>2, <1>5, <1>6

-----------------------------------------------------------------------------
Phases == {"new", "tracing", "full", "queued", "delivering", "flushed", "expiring", "expired"}

LEMMA InvTypes ==
  ASSUME QueueInv
  PROVE  /\ arrays \in [Arrays -> Seq(Messages)] /\ queue \in Arrays \union {0}
         /\ phase \in [Messages -> Phases] /\ read \in [Messages -> Arrays \union {0}]
         /\ age \in [Messages -> 0..MaxAge] /\ timer \in [Messages -> 0..Off]
         /\ Ttl \in 0..Off /\ Off \in 0..Off /\ 0 \in 0..Off /\ Ttl \in Nat \ {0}
         /\ \A l \in Arrays : /\ Len(arrays[l]) \in Nat /\ DOMAIN arrays[l] = 1..Len(arrays[l])
                              /\ \A i \in DOMAIN arrays[l] : arrays[l][i] \in Messages
<1>1. Ttl \in 0..Off /\ Off \in 0..Off /\ 0 \in 0..Off /\ Ttl \in Nat \ {0}
  BY TtlAssumption DEF Off
<1>2. arrays \in [Arrays -> Seq(Messages)]
  BY DEF QueueInv, QueueTypeOK
<1>3. ASSUME NEW l \in Arrays
      PROVE  /\ Len(arrays[l]) \in Nat /\ DOMAIN arrays[l] = 1..Len(arrays[l])
             /\ \A i \in DOMAIN arrays[l] : arrays[l][i] \in Messages
  BY <1>2, LenProperties, ElementOfSeq
<1> QED
  BY <1>1, <1>2, <1>3 DEF QueueInv, QueueTypeOK, Phases

(* An operation that leaves every place in use as it was. *)
LEMMA SamePlaces ==
  ASSUME QueueInv,
         \A l \in UsedArrays' : \A i \in DOMAIN (arrays')[l] :
            l \in UsedArrays /\ i \in DOMAIN arrays[l] /\ (arrays')[l][i] = arrays[l][i]
  PROVE  /\ OnePlace'
         /\ (\A l \in UsedArrays : \A i \in DOMAIN arrays[l] : (phase')[arrays[l][i]] = "queued")
              => InPlaceIsQueued'
BY DEF QueueInv, OnePlace, InPlaceIsQueued

(* The head of the target's array goes to a flush. *)
LEMMA TakeKeeps ==
  ASSUME QueueInv, Contents # <<>>,
         NEW finished \in [Messages -> Phases],
         \A m \in Messages : /\ phase[m] = "queued" => finished[m] = "queued"
                             /\ phase[m] = "tracing" <=> finished[m] = "tracing",
         Take(queue, finished), UNCHANGED <<queue, read, age>>
  PROVE  QueueInv'
<1> DEFINE q == arrays[queue]
           h == Head(q)
<1>1. /\ queue \in Arrays /\ queue \in UsedArrays /\ q = Contents /\ q \in Seq(Messages)
      /\ q # <<>>
  BY ListOrNewType, InvTypes DEF Contents
<1>2. /\ h \in Messages /\ Tail(q) \in Seq(Messages) /\ Len(Tail(q)) = Len(q) - 1
      /\ \A i \in 1..Len(q)-1 : Tail(q)[i] = q[i+1]
      /\ h = q[1] /\ Len(q) \in Nat \ {0}
  BY <1>1, HeadTailProperties, LenProperties, EmptySeq
<1>3. DOMAIN q = 1..Len(q) /\ DOMAIN Tail(q) = 1..Len(q)-1
  BY <1>1, <1>2, LenProperties
<1>4. /\ arrays' = [arrays EXCEPT ![queue] = Tail(q)]
      /\ phase' = [finished EXCEPT ![h] = "delivering"]
      /\ timer' = [timer EXCEPT ![h] = Off]
  BY DEF Take
<1>5. UsedArrays' = UsedArrays
  BY DEF UsedArrays, InUse
<1>6. phase[h] = "queued"
  BY <1>1, <1>2, <1>3 DEF QueueInv, InPlaceIsQueued
<1> HIDE DEF h
<1>7. QueueTypeOK'
  <2>1. arrays' \in [Arrays -> Seq(Messages)]
    BY <1>1, <1>2, <1>4, InvTypes
  <2>2. phase' \in [Messages -> Phases] /\ timer' \in [Messages -> 0..Off]
    BY <1>4, InvTypes DEF Phases
  <2> QED
    BY <2>1, <2>2, InvTypes DEF QueueTypeOK, Phases
<1>8. \A l \in UsedArrays \ {queue} : (arrays')[l] = arrays[l]
  BY <1>4, InvTypes DEF UsedArrays
<1>9. (arrays')[queue] = Tail(q)
  BY <1>1, <1>4, InvTypes
<1>10. \A i \in DOMAIN (arrays')[queue] :
         i \in 1..Len(q)-1 /\ i+1 \in DOMAIN q /\ (arrays')[queue][i] = q[i+1]
  <2>1. DOMAIN (arrays')[queue] = 1..Len(q)-1
    BY <1>3, <1>9
  <2> QED
    BY <1>2, <1>3, <1>9, <2>1
<1>11. OnePlace'
  <2> SUFFICES ASSUME NEW l \in UsedArrays, NEW k \in UsedArrays,
                      NEW i \in DOMAIN (arrays')[l], NEW j \in DOMAIN (arrays')[k],
                      (arrays')[l][i] = (arrays')[k][j]
               PROVE  l = k /\ i = j
    BY <1>5 DEF OnePlace
  <2>1. CASE l = queue /\ k = queue
    <3>1. i+1 = j+1
      BY <1>1, <1>10, <2>1 DEF QueueInv, OnePlace
    <3>2. i \in 1..Len(q)-1 /\ j \in 1..Len(q)-1
      BY <1>10, <2>1
    <3> QED
      BY <1>2, <2>1, <3>1, <3>2
  <2>2. CASE l = queue /\ k # queue
    BY <1>1, <1>8, <1>10, <2>2 DEF QueueInv, OnePlace
  <2>3. CASE l # queue /\ k = queue
    BY <1>1, <1>8, <1>10, <2>3 DEF QueueInv, OnePlace
  <2>4. CASE l # queue /\ k # queue
    BY <1>8, <2>4 DEF QueueInv, OnePlace
  <2> QED
    BY <2>1, <2>2, <2>3, <2>4
<1>12. InPlaceIsQueued'
  <2> SUFFICES ASSUME NEW l \in UsedArrays, NEW i \in DOMAIN (arrays')[l]
               PROVE  (phase')[(arrays')[l][i]] = "queued"
    BY <1>5 DEF InPlaceIsQueued
  <2>1. (arrays')[l][i] # h
    <3>1. CASE l = queue
      <4>1. i + 1 # 1 /\ 1 \in DOMAIN q
        BY <1>2, <1>3, <1>10, <3>1
      <4>2. q[i+1] # q[1]
        BY <1>1, <1>10, <3>1, <4>1 DEF QueueInv, OnePlace
      <4> QED
        BY <1>2, <1>10, <3>1, <4>2
    <3>2. CASE l # queue
      BY <1>1, <1>2, <1>3, <1>8, <3>2 DEF QueueInv, OnePlace
    <3> QED
      BY <3>1, <3>2
  <2>2. (arrays')[l][i] \in Messages /\ phase[(arrays')[l][i]] = "queued"
    <3>1. CASE l = queue
      BY <1>1, <1>10, <3>1, InvTypes DEF QueueInv, InPlaceIsQueued
    <3>2. CASE l # queue
      BY <1>8, <3>2, InvTypes DEF QueueInv, InPlaceIsQueued, UsedArrays
    <3> QED
      BY <3>1, <3>2
  <2> QED
    BY <1>4, <2>1, <2>2, InvTypes
<1>13. TimedIsQueued'
  BY <1>4, InvTypes DEF QueueInv, TimedIsQueued
<1>14. ReadWhileTracing'
  BY <1>4, <1>6 DEF QueueInv, ReadWhileTracing
<1> QED
  BY <1>7, <1>11, <1>12, <1>13, <1>14 DEF QueueInv

LEMMA EnqueueKeeps ==
  ASSUME QueueInv, NEW m \in Messages, Enqueue(m)
  PROVE  QueueInv'
<1>1. phase[m] = "new" /\ read[m] = 0 /\ UNCHANGED <<queue, age, timer>>
  BY InvTypes DEF Enqueue, QueueInv, ReadWhileTracing
<1>2. CASE Len(Contents) >= Capacity
  <2>1. phase' = [phase EXCEPT ![m] = "full"] /\ UNCHANGED <<arrays, read>>
    BY <1>2 DEF Enqueue
  <2>2. UsedArrays' = UsedArrays
    BY <1>1, <2>1 DEF UsedArrays, InUse
  <2>3. QueueTypeOK'
    BY <1>1, <2>1, InvTypes DEF QueueTypeOK, Phases
  <2>4. OnePlace' /\ InPlaceIsQueued'
    <3>1. \A l \in UsedArrays : \A i \in DOMAIN arrays[l] : (phase')[arrays[l][i]] = "queued"
      BY <1>1, <2>1, InvTypes DEF QueueInv, InPlaceIsQueued, UsedArrays
    <3> QED
      BY <2>1, <2>2, <3>1, SamePlaces
  <2>5. TimedIsQueued' /\ ReadWhileTracing'
    BY <1>1, <2>1, InvTypes DEF QueueInv, TimedIsQueued, ReadWhileTracing
  <2> QED
    BY <2>3, <2>4, <2>5 DEF QueueInv
<1>3. CASE ~(Len(Contents) >= Capacity)
  <2> DEFINE L == ListOrNew
  <2>1. /\ phase' = [phase EXCEPT ![m] = "tracing"]
        /\ read' = [read EXCEPT ![m] = L]
        /\ arrays' = [arrays EXCEPT ![L] = Contents]
    BY <1>3 DEF Enqueue
  <2>2. /\ L \in Arrays /\ L # 0 /\ Contents \in Seq(Messages)
        /\ queue # 0 => L = queue /\ Contents = arrays[queue] /\ queue \in UsedArrays
        /\ queue = 0 => Contents = <<>> /\ L \notin UsedArrays
    BY ListOrNewType
  <2> HIDE DEF L
  <2>3. QueueTypeOK'
    BY <1>1, <2>1, <2>2, InvTypes DEF QueueTypeOK, Phases
  <2>4. ASSUME NEW l \in UsedArrays', NEW i \in DOMAIN (arrays')[l]
        PROVE  l \in UsedArrays /\ i \in DOMAIN arrays[l] /\ (arrays')[l][i] = arrays[l][i]
    <3>1. l \in Arrays /\ (l = L \/ l \in UsedArrays)
      BY <1>1, <2>1, InvTypes DEF UsedArrays, InUse
    <3>2. CASE l # L
      BY <2>1, <3>1, <3>2, InvTypes
    <3>3. CASE l = L
      <4>1. (arrays')[l] = Contents
        BY <2>1, <2>2, <3>3, InvTypes
      <4>2. queue # 0
        BY <2>2, <4>1
      <4> QED
        BY <2>2, <3>3, <4>1, <4>2
    <3> QED
      BY <3>2, <3>3
  <2>5. \A l \in UsedArrays : \A i \in DOMAIN arrays[l] : (phase')[arrays[l][i]] = "queued"
    BY <1>1, <2>1, InvTypes DEF QueueInv, InPlaceIsQueued, UsedArrays
  <2>6. OnePlace' /\ InPlaceIsQueued'
    BY <2>4, <2>5, SamePlaces
  <2>7. TimedIsQueued' /\ ReadWhileTracing'
    BY <1>1, <2>1, <2>2, InvTypes DEF QueueInv, TimedIsQueued, ReadWhileTracing
  <2> QED
    BY <2>3, <2>6, <2>7 DEF QueueInv
<1> QED
  BY <1>2, <1>3

(* The sequence new is that of the array l with m at position p, the       *)
(* others moved by d; of an array not in use there are no others.          *)
Placing(l, new, m, d, p) ==
  /\ p \in Nat /\ d \in {0, 1} /\ new[p] = m
  /\ \A i \in DOMAIN new : i # p => /\ l \in UsedArrays /\ i - d \in DOMAIN arrays[l]
                                    /\ new[i] = arrays[l][i - d]

(* A message that was at no place comes to one end of an array. *)
LEMMA PlaceOne ==
  ASSUME QueueInv, NEW m \in Messages, phase[m] # "queued",
         NEW L \in Arrays, NEW new \in Seq(Messages), NEW d, NEW p, Placing(L, new, m, d, p),
         arrays' = [arrays EXCEPT ![L] = new],
         phase' = [phase EXCEPT ![m] = "queued"],
         \A l \in UsedArrays' \ {L} : l \in UsedArrays
  PROVE  OnePlace' /\ InPlaceIsQueued'
<1>0. L \in Arrays /\ DOMAIN new = 1..Len(new) /\ Len(new) \in Nat
      /\ \A i \in DOMAIN new : new[i] \in Messages
  BY LenProperties, ElementOfSeq
<1>1. (arrays')[L] = new /\ \A l \in UsedArrays' \ {L} : (arrays')[l] = arrays[l]
  BY InvTypes DEF UsedArrays
<1>2. \A l \in UsedArrays' \ {L} : \A i \in DOMAIN (arrays')[l] :
        (arrays')[l][i] = arrays[l][i] /\ arrays[l][i] # m /\ phase[arrays[l][i]] = "queued"
        /\ arrays[l][i] \in Messages
  BY <1>1, NotPlaced, InvTypes DEF QueueInv, InPlaceIsQueued, UsedArrays
<1>3. \A i \in DOMAIN new : i # p => new[i] # m /\ phase[new[i]] = "queued"
  BY NotPlaced, InvTypes DEF QueueInv, InPlaceIsQueued, Placing
<1>4. OnePlace'
  <2> SUFFICES ASSUME NEW l \in UsedArrays', NEW k \in UsedArrays',
                      NEW i \in DOMAIN (arrays')[l], NEW j \in DOMAIN (arrays')[k],
                      (arrays')[l][i] = (arrays')[k][j]
               PROVE  l = k /\ i = j
    BY DEF OnePlace
  <2>1. CASE l = L /\ k = L
    <3>1. i \in DOMAIN new /\ j \in DOMAIN new /\ new[i] = new[j]
      BY <1>1, <2>1
    <3>2. CASE i = p \/ j = p
      BY <1>3, <2>1, <3>1, <3>2 DEF Placing
    <3>3. CASE i # p /\ j # p
      <4>1. i - d = j - d
        BY <3>1, <3>3 DEF QueueInv, OnePlace, Placing
      <4> QED
        BY <1>0, <2>1, <3>1, <4>1 DEF Placing
    <3> QED
      BY <3>2, <3>3
  <2>2. ASSUME NEW a \in UsedArrays' \ {L}, NEW u \in DOMAIN (arrays')[a], NEW v \in DOMAIN new
        PROVE  (arrays')[a][u] # new[v]
    <3>1. CASE v = p
      BY <1>2, <2>2, <3>1 DEF Placing
    <3>2. CASE v # p
      <4>1. a \in UsedArrays /\ u \in DOMAIN arrays[a] /\ (arrays')[a][u] = arrays[a][u]
        BY <1>1
      <4> QED
        BY <3>2, <4>1 DEF QueueInv, OnePlace, Placing
    <3> QED
      BY <3>1, <3>2
  <2>3. CASE l # L /\ k # L
    BY <1>1, <2>3 DEF QueueInv, OnePlace
  <2> QED
    BY <1>1, <2>1, <2>2, <2>3
<1>5. InPlaceIsQueued'
  <2> SUFFICES ASSUME NEW l \in UsedArrays', NEW i \in DOMAIN (arrays')[l]
               PROVE  (phase')[(arrays')[l][i]] = "queued"
    BY DEF InPlaceIsQueued
  <2>1. CASE l = L
    <3>1. i \in DOMAIN new /\ (arrays')[l][i] = new[i]
      BY <1>1, <2>1
    <3> QED
      BY <1>0, <1>3, <3>1, InvTypes DEF Placing
  <2>2. CASE l # L
    BY <1>2, <2>2, InvTypes
  <2> QED
    BY <2>1, <2>2
<1> QED
  BY <1>4, <1>5

LEMMA TracedKeeps ==
  ASSUME QueueInv, NEW m \in Messages, Traced(m)
  PROVE  QueueInv'
<1> DEFINE L == read[m]
           new == Append(arrays[L], m)
           p == Len(arrays[L]) + 1
<1>1. /\ phase[m] = "tracing" /\ arrays' = [arrays EXCEPT ![L] = new] /\ queue' = L
      /\ phase' = [phase EXCEPT ![m] = "queued"] /\ read' = [read EXCEPT ![m] = 0]
      /\ timer' = [timer EXCEPT ![m] = Ttl] /\ age' = age
  BY DEF Traced
<1>2. L \in Arrays /\ L \in UsedArrays /\ arrays[L] \in Seq(Messages)
  BY <1>1, InvTypes DEF QueueInv, ReadWhileTracing, UsedArrays, InUse
<1>3. /\ new \in Seq(Messages) /\ Len(new) = p
      /\ \A i \in 1..Len(arrays[L]) : new[i] = arrays[L][i]
      /\ new[p] = m
  BY <1>2, AppendProperties
<1>4. p \in Nat /\ DOMAIN new = 1..p /\ DOMAIN arrays[L] = 1..Len(arrays[L])
  BY <1>2, <1>3, InvTypes, LenProperties
<1> HIDE DEF L, new
<1>5. \A i \in DOMAIN new : i # p => /\ L \in UsedArrays /\ i - 0 \in DOMAIN arrays[L]
                                     /\ new[i] = arrays[L][i - 0]
  <2> SUFFICES ASSUME NEW i \in DOMAIN new, i # p
               PROVE  i - 0 \in DOMAIN arrays[L] /\ new[i] = arrays[L][i - 0]
    BY <1>2
  <2>1. i - 0 = i /\ i \in 1..Len(arrays[L])
    BY <1>4
  <2> QED
    BY <1>3, <1>4, <2>1
<1>6. \A l \in UsedArrays' \ {L} : l \in UsedArrays
  BY <1>1, InvTypes DEF UsedArrays, InUse, Arrays
<1>7. OnePlace' /\ InPlaceIsQueued'
  <2>1. Placing(L, new, m, 0, p)
    BY <1>3, <1>4, <1>5 DEF Placing
  <2> QED
    BY <1>1, <1>2, <1>3, <1>6, <2>1, PlaceOne
<1>8. QueueTypeOK'
  BY <1>1, <1>2, <1>3, InvTypes DEF QueueTypeOK, Phases
<1>9. TimedIsQueued' /\ ReadWhileTracing'
  BY <1>1, InvTypes DEF QueueInv, TimedIsQueued, ReadWhileTracing
<1> QED
  BY <1>7, <1>8, <1>9 DEF QueueInv

LEMMA RequeueKeeps ==
  ASSUME QueueInv, NEW m \in Messages, Requeue(m)
  PROVE  QueueInv'
<1> DEFINE L == ListOrNew
           new == <<m>> \o Contents
<1>1. /\ phase[m] = "delivering" /\ arrays' = [arrays EXCEPT ![L] = new] /\ queue' = L
      /\ phase' = [phase EXCEPT ![m] = "queued"]
      /\ timer' = [timer EXCEPT ![m] = Left(m)] /\ UNCHANGED <<read, age>>
  BY DEF Requeue
<1>2. /\ L \in Arrays /\ L # 0 /\ Contents \in Seq(Messages)
      /\ queue # 0 => L = queue /\ Contents = arrays[queue] /\ queue \in UsedArrays
      /\ queue = 0 => Contents = <<>> /\ L \notin UsedArrays
  BY ListOrNewType
<1>3. /\ new \in Seq(Messages) /\ Len(new) = 1 + Len(Contents)
      /\ \A i \in 1..1 + Len(Contents) : new[i] = IF i <= 1 THEN m ELSE Contents[i - 1]
  <2>1. <<m>> \in Seq(Messages) /\ Len(<<m>>) = 1 /\ <<m>>[1] = m
    OBVIOUS
  <2>2. /\ new \in Seq(Messages) /\ Len(new) = Len(<<m>>) + Len(Contents)
        /\ \A i \in 1..Len(<<m>>) + Len(Contents) :
             new[i] = IF i <= Len(<<m>>) THEN <<m>>[i] ELSE Contents[i - Len(<<m>>)]
    BY <1>2, <2>1, ConcatProperties
  <2>3. Len(Contents) \in Nat
    BY <1>2, LenProperties
  <2> HIDE DEF new
  <2>4. ASSUME NEW i \in 1..1 + Len(Contents)
        PROVE  new[i] = IF i <= 1 THEN m ELSE Contents[i - 1]
    <3>1. new[i] = IF i <= 1 THEN <<m>>[i] ELSE Contents[i - 1]
      BY <2>1, <2>2
    <3>2. i <= 1 => i = 1
      BY <2>3
    <3> QED
      BY <2>1, <3>1, <3>2
  <2> QED
    BY <2>1, <2>2, <2>4
<1>4. DOMAIN new = 1..1 + Len(Contents) /\ DOMAIN Contents = 1..Len(Contents) /\ Len(Contents) \in Nat
  BY <1>2, <1>3, LenProperties
<1> HIDE DEF L, new
<1>5. \A i \in DOMAIN new : i # 1 => /\ L \in UsedArrays /\ i - 1 \in DOMAIN arrays[L]
                                     /\ new[i] = arrays[L][i - 1]
  <2> SUFFICES ASSUME NEW i \in DOMAIN new, i # 1
               PROVE  L \in UsedArrays /\ i - 1 \in DOMAIN arrays[L] /\ new[i] = arrays[L][i - 1]
    OBVIOUS
  <2>1. i - 1 \in DOMAIN Contents /\ new[i] = Contents[i - 1]
    BY <1>3, <1>4
  <2>2. queue # 0
    BY <1>2, <2>1
  <2> QED
    BY <1>2, <2>1, <2>2
<1>6. \A l \in UsedArrays' \ {L} : l \in UsedArrays
  BY <1>1 DEF UsedArrays, InUse
<1>7. OnePlace' /\ InPlaceIsQueued'
  <2>1. Placing(L, new, m, 1, 1)
    BY <1>3, <1>4, <1>5 DEF Placing
  <2> QED
    BY <1>1, <1>2, <1>3, <1>6, <2>1, PlaceOne
<1>8. Left(m) \in 0..Off
  BY InvTypes DEF Left, Off, MaxAge
<1>9. QueueTypeOK'
  BY <1>1, <1>2, <1>3, <1>8, InvTypes DEF QueueTypeOK, Phases
<1>10. TimedIsQueued' /\ ReadWhileTracing'
  BY <1>1, <1>8, InvTypes DEF QueueInv, TimedIsQueued, ReadWhileTracing
<1> QED
  BY <1>7, <1>9, <1>10 DEF QueueInv

LEMMA ExpireKeeps ==
  ASSUME QueueInv, NEW m \in Messages, Expire(m)
  PROVE  QueueInv'
<1>1. timer' = [timer EXCEPT ![m] = Off] /\ UNCHANGED <<read, age>>
  BY DEF Expire
<1>2. CASE ~Listed(m)
  <2>1. UNCHANGED <<arrays, queue, phase>>
    BY <1>2 DEF Expire
  <2>2. UsedArrays' = UsedArrays
    BY <1>1, <2>1 DEF UsedArrays, InUse
  <2>3. OnePlace' /\ InPlaceIsQueued' /\ ReadWhileTracing'
    BY <1>1, <2>1, <2>2 DEF QueueInv, OnePlace, InPlaceIsQueued, ReadWhileTracing
  <2>4. QueueTypeOK' /\ TimedIsQueued'
    BY <1>1, <2>1, InvTypes DEF QueueInv, QueueTypeOK, TimedIsQueued, Phases
  <2> QED
    BY <2>3, <2>4 DEF QueueInv
<1>3. CASE Listed(m)
  <2> DEFINE q == arrays[queue]
             k == IndexOf(m)
             new == RemoveAt(q, k)
  <2>1. /\ arrays' = [arrays EXCEPT ![queue] = new]
        /\ queue' \in {0, queue} /\ phase' = [phase EXCEPT ![m] = "expiring"]
    BY <1>3 DEF Expire
  <2>2. \E i \in DOMAIN Contents : Contents[i] = m
    BY <1>3 DEF Listed, ToSet
  <2>3. /\ queue \in Arrays /\ queue \in UsedArrays /\ q = Contents /\ q \in Seq(Messages)
        /\ DOMAIN q = 1..Len(q) /\ Len(q) \in Nat
    BY <2>2, ListOrNewType, InvTypes DEF Contents
  <2>4. \A i, j \in DOMAIN q : q[i] = q[j] => i = j
    BY <2>3 DEF QueueInv, OnePlace
  <2>5. k \in DOMAIN q /\ q[k] = m
    <3>1. PICK i \in DOMAIN Contents : Contents[i] = m
      BY <2>2
    <3>2. \A j \in 1..(i-1) : Contents[j] # m
      BY <2>3, <2>4, <3>1
    <3> QED
      BY <2>3, <3>1, <3>2 DEF IndexOf
  <2>6. phase[m] = "queued"
    BY <2>3, <2>5 DEF QueueInv, InPlaceIsQueued
  <2> HIDE DEF k
  <2>7. /\ new \in Seq(Messages) /\ Len(new) = Len(q) - 1
        /\ \A i \in 1..Len(q) - 1 : new[i] = IF i < k THEN q[i] ELSE q[i+1]
    BY <2>3, <2>5, RemoveAtEffect
  <2>8. DOMAIN new = 1..Len(q)-1
    BY <2>7, LenProperties
  <2> DEFINE old(i) == IF i < k THEN i ELSE i + 1
  <2> HIDE DEF new
  <2>9. ASSUME NEW i \in DOMAIN new
        PROVE  old(i) \in DOMAIN q /\ old(i) # k /\ new[i] = q[old(i)] /\ new[i] # m
    BY <2>3, <2>4, <2>5, <2>7, <2>8
  <2>10. UsedArrays' \subseteq UsedArrays
    BY <1>1, <2>1, InvTypes DEF UsedArrays, InUse, Arrays
  <2>11. /\ (arrays')[queue] = new
         /\ \A l \in UsedArrays \ {queue} : (arrays')[l] = arrays[l]
    BY <2>1, <2>3, InvTypes DEF UsedArrays
  <2>12. OnePlace'
    <3> SUFFICES ASSUME NEW l \in UsedArrays, NEW u \in UsedArrays,
                        NEW i \in DOMAIN (arrays')[l], NEW j \in DOMAIN (arrays')[u],
                        (arrays')[l][i] = (arrays')[u][j]
                 PROVE  l = u /\ i = j
      BY <2>10 DEF OnePlace
    <3>1. CASE l = queue /\ u = queue
      <4>1. i \in DOMAIN new /\ j \in DOMAIN new /\ new[i] = new[j]
        BY <2>11, <3>1
      <4>2. old(i) = old(j)
        BY <2>4, <2>9, <4>1
      <4>3. i \in Nat /\ j \in Nat /\ k \in Nat
        BY <2>3, <2>5, <2>8, <4>1
      <4> QED
        BY <3>1, <4>2, <4>3
    <3>2. ASSUME NEW a \in UsedArrays \ {queue}, NEW v \in DOMAIN (arrays')[a],
                 NEW w \in DOMAIN new
          PROVE  (arrays')[a][v] # new[w]
      <4>1. v \in DOMAIN arrays[a] /\ (arrays')[a][v] = arrays[a][v]
        BY <2>11
      <4>2. old(w) \in DOMAIN q /\ new[w] = q[old(w)]
        BY <2>9
      <4> HIDE DEF old
      <4> QED
        BY <2>3, <4>1, <4>2 DEF QueueInv, OnePlace
    <3>3. CASE l # queue /\ u # queue
      BY <2>11, <3>3 DEF QueueInv, OnePlace
    <3> QED
      BY <2>11, <3>1, <3>2, <3>3
  <2>13. InPlaceIsQueued'
    <3> SUFFICES ASSUME NEW l \in UsedArrays, NEW i \in DOMAIN (arrays')[l]
                 PROVE  (phase')[(arrays')[l][i]] = "queued"
      BY <2>10 DEF InPlaceIsQueued
    <3>1. CASE l = queue
      <4>1. i \in DOMAIN new /\ (arrays')[l][i] = new[i]
        BY <2>11, <3>1
      <4>2. old(i) \in DOMAIN q /\ new[i] = q[old(i)] /\ new[i] # m
        BY <2>9, <4>1
      <4> HIDE DEF old
      <4>3. new[i] \in Messages /\ phase[new[i]] = "queued"
        BY <2>3, <4>2, InvTypes DEF QueueInv, InPlaceIsQueued
      <4> QED
        BY <2>1, <4>1, <4>2, <4>3, InvTypes
    <3>2. CASE l # queue
      <4>1. (arrays')[l][i] = arrays[l][i] /\ i \in DOMAIN arrays[l]
        BY <2>11, <3>2
      <4>2. arrays[l][i] # m
        BY <2>3, <2>5, <3>2, <4>1 DEF QueueInv, OnePlace
      <4>3. arrays[l][i] \in Messages /\ phase[arrays[l][i]] = "queued"
        BY <4>1, InvTypes DEF QueueInv, InPlaceIsQueued, UsedArrays
      <4> QED
        BY <2>1, <4>1, <4>2, <4>3, InvTypes
    <3> QED
      BY <3>1, <3>2
  <2>14. QueueTypeOK'
    BY <1>1, <2>1, <2>3, <2>7, InvTypes DEF QueueTypeOK, Phases
  <2>15. TimedIsQueued' /\ ReadWhileTracing'
    BY <1>1, <2>1, <2>6, InvTypes DEF QueueInv, TimedIsQueued, ReadWhileTracing
  <2> QED
    BY <2>12, <2>13, <2>14, <2>15 DEF QueueInv
<1> QED
  BY <1>2, <1>3

-----------------------------------------------------------------------------
LEMMA QueueInvInit == Init => QueueInv
<1> SUFFICES ASSUME Init PROVE QueueInv
  OBVIOUS
<1>1. /\ <<>> \in Seq(Messages) /\ DOMAIN <<>> = {} /\ 0 \in 0..MaxAge /\ Off \in 0..Off
  BY TtlAssumption DEF MaxAge, Off
<1>2. QueueTypeOK
  BY <1>1 DEF Init, QueueTypeOK
<1>3. \A l \in Arrays : DOMAIN arrays[l] = {}
  BY <1>1 DEF Init
<1>4. OnePlace /\ InPlaceIsQueued
  BY <1>3 DEF OnePlace, InPlaceIsQueued, UsedArrays
<1>5. TimedIsQueued /\ ReadWhileTracing
  BY DEF Init, TimedIsQueued, ReadWhileTracing
<1> QED
  BY <1>2, <1>4, <1>5 DEF QueueInv

LEMMA QueueInvStep == QueueInv /\ [Next]_vars => QueueInv'
<1> SUFFICES ASSUME QueueInv, [Next]_vars PROVE QueueInv'
  OBVIOUS
<1>1. CASE TargetIdle
  <2>1. Contents # <<>> /\ Take(queue, phase) /\ UNCHANGED <<queue, read, age>>
    BY <1>1 DEF TargetIdle
  <2> QED
    BY <2>1, TakeKeeps, InvTypes
<1>2. CASE Tick
  <2>1. /\ age' = [m \in Messages |-> IF Waiting(m) /\ age[m] < MaxAge THEN age[m] + 1 ELSE age[m]]
        /\ timer' = [m \in Messages |-> IF timer[m] \in 1..Ttl THEN timer[m] - 1 ELSE timer[m]]
        /\ UNCHANGED <<arrays, queue, phase, read>>
    BY <1>2 DEF Tick
  <2>2. age' \in [Messages -> 0..MaxAge]
    BY <2>1, InvTypes DEF MaxAge
  <2>3. timer' \in [Messages -> 0..Off] /\ \A m \in Messages : (timer')[m] # Off => timer[m] # Off
    BY <2>1, InvTypes DEF Off
  <2> QED
    BY <2>1, <2>2, <2>3
    DEF QueueInv, QueueTypeOK, OnePlace, InPlaceIsQueued, TimedIsQueued, ReadWhileTracing,
        UsedArrays, InUse
<1>3. ASSUME NEW m \in Messages, Enqueue(m) \/ Traced(m) \/ Requeue(m) \/ Expire(m)
      PROVE  QueueInv'
  BY <1>3, EnqueueKeeps, TracedKeeps, RequeueKeeps, ExpireKeeps
<1>4. ASSUME NEW m \in Messages, Flushed(m)
      PROVE  QueueInv'
  <2> DEFINE done == [phase EXCEPT ![m] = "flushed"]
  <2>1. phase[m] = "delivering" /\ UNCHANGED <<read, age>>
    BY <1>4 DEF Flushed
  <2>2. CASE Contents = <<>>
    <3>1. queue' = 0 /\ phase' = done /\ UNCHANGED <<arrays, timer>>
      BY <1>4, <2>2 DEF Flushed
    <3>2. UsedArrays' \subseteq UsedArrays
      BY <2>1, <3>1 DEF UsedArrays, InUse, Arrays
    <3>3. QueueTypeOK'
      BY <2>1, <3>1, InvTypes DEF QueueTypeOK, Phases
    <3>4. OnePlace' /\ InPlaceIsQueued'
      BY <2>1, <3>1, <3>2, InvTypes DEF QueueInv, OnePlace, InPlaceIsQueued, UsedArrays
    <3>5. TimedIsQueued' /\ ReadWhileTracing'
      BY <2>1, <3>1, InvTypes DEF QueueInv, TimedIsQueued, ReadWhileTracing
    <3> QED
      BY <3>3, <3>4, <3>5 DEF QueueInv
  <2>3. CASE Contents # <<>>
    <3>1. Take(queue, done) /\ UNCHANGED queue
      BY <1>4, <2>3 DEF Flushed
    <3>2. done \in [Messages -> Phases]
      BY InvTypes DEF Phases
    <3>3. \A n \in Messages : /\ phase[n] = "queued" => done[n] = "queued"
                              /\ phase[n] = "tracing" <=> done[n] = "tracing"
      BY <2>1, InvTypes
    <3> HIDE DEF done
    <3> QED
      BY <2>1, <2>3, <3>1, <3>2, <3>3, TakeKeeps
  <2> QED
    BY <2>2, <2>3
<1>5. ASSUME NEW m \in Messages, Expired(m)
      PROVE  QueueInv'
  <2>1. /\ phase[m] = "expiring" /\ phase' = [phase EXCEPT ![m] = "expired"]
        /\ UNCHANGED <<arrays, queue, read, age, timer>>
    BY <1>5 DEF Expired
  <2>2. UsedArrays' = UsedArrays
    BY <2>1 DEF UsedArrays, InUse
  <2>3. QueueTypeOK'
    BY <2>1, InvTypes DEF QueueTypeOK, Phases
  <2>4. \A l \in UsedArrays : \A i \in DOMAIN arrays[l] : (phase')[arrays[l][i]] = "queued"
    BY <2>1, InvTypes DEF QueueInv, InPlaceIsQueued, UsedArrays
  <2>5. OnePlace' /\ InPlaceIsQueued'
    BY <2>1, <2>2, <2>4, SamePlaces
  <2>6. TimedIsQueued' /\ ReadWhileTracing'
    BY <2>1, InvTypes DEF QueueInv, TimedIsQueued, ReadWhileTracing
  <2> QED
    BY <2>3, <2>5, <2>6 DEF QueueInv
<1>6. CASE UNCHANGED vars
  BY <1>6 DEF vars, QueueInv, QueueTypeOK, OnePlace, InPlaceIsQueued, TimedIsQueued,
              ReadWhileTracing, UsedArrays, InUse
<1> QED
  BY <1>1, <1>2, <1>3, <1>4, <1>5, <1>6 DEF Next

(* The invariant of the arrays in use. *)
THEOREM QueueInvariant == Spec => []QueueInv
BY QueueInvInit, QueueInvStep, PTL DEF Spec

(* Type correctness of the queue, its arrays and its timers. *)
THEOREM QueueTypeCorrect == Spec => []QueueTypeOK
<1>1. QueueInv => QueueTypeOK
  BY DEF QueueInv
<1> QED
  BY <1>1, QueueInvariant, PTL

(* However enqueues, flushes and timers interleave, no message is queued   *)
(* twice, delivered while it is queued, or timed out after it was taken    *)
(* (onTargetIdle: "must not flush the same entry twice").                  *)
THEOREM OneHandOnly == Spec => []HeldOnce
<1>1. QueueInv => HeldOnce
  <2> SUFFICES ASSUME QueueInv PROVE HeldOnce
    OBVIOUS
  <2>1. \A m \in Messages : timer[m] # Off => phase[m] = "queued"
    BY DEF QueueInv, TimedIsQueued
  <2>2. CASE queue = 0
    <3>1. DOMAIN Contents = {}
      BY <2>2 DEF Contents
    <3> QED
      BY <2>1, <3>1 DEF HeldOnce, Listed, ToSet
  <2>3. CASE queue # 0
    <3>1. Contents = arrays[queue] /\ queue \in UsedArrays
      BY <2>3, ListOrNewType
    <3> QED
      BY <2>1, <3>1 DEF HeldOnce, Listed, ToSet, QueueInv, OnePlace, InPlaceIsQueued
  <2> QED
    BY <2>2, <2>3
<1> QED
  BY <1>1, QueueInvariant, PTL
=============================================================================
