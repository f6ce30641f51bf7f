-------------------------- MODULE CanvasPublishProofs --------------------------
(***************************************************************************)
(* The publisher in front of the ordering rules, for any clients, finite   *)
(* set of nodes, values and number of casts.                               *)
(*                                                                         *)
(* The canvas a client shows may be ahead of what it has cast.  What it    *)
(* has cast, or was told, is the publisher's baseline: the invariant of    *)
(* CanvasSync holds of that (BaseHolds), and the canvas differs from it    *)
(* only by what is still owed (ShownIsBase).                               *)
(*                                                                         *)
(* There is one way to break this, and the code takes it: adopt makes the  *)
(* whole canvas the baseline, with a frame of another node the throttle    *)
(* holds back.  FramesKept says of a step that it does not.  As long as no *)
(* step does, the clients agree; without a drag, or with one node, none    *)
(* can.                                                                    *)
(***************************************************************************)
EXTENDS CanvasPublish, CanvasSyncProofs

-----------------------------------------------------------------------------
(* 1. The invariant. *)

(* The publisher casts nothing that the reflector would refuse. *)
NeverCastsRefused ==
  \A c \in Clients : \A k \in 1..Len(sent[c]) : Castable(sent[c][k].val)

(* The order of casts and deliveries, whatever the canvases show. *)
OrderInv ==
  /\ PubTypeOK
  /\ Fifo
  /\ SeenIsLast
  /\ PendingMatchesInFlight
  /\ SupersededIsStale
  /\ NeverCastsRefused

(* A baseline the reflector would take is what was cast last or, if that   *)
(* is acked or overwritten, what the total order says.                     *)
BaseHolds ==
  \A c \in Clients, n \in Nodes : Castable(base[c][n]) => Holds(c, n, base[c][n])

(* A node that shows something else than the baseline waits for the timer  *)
(* or was refused, and a node that is gone is gone from both.              *)
ShownIsBase ==
  \A c \in Clients, n \in Nodes :
     /\ ~owed[c] /\ Castable(canvas[c][n]) => canvas[c][n] = base[c][n]
     /\ canvas[c][n] = Absent => base[c][n] = Absent

(* A delivery does not take an uncast value of another node for said.      *)
FramesKept ==
  \A c \in Clients : got'[c] # got[c] =>
     \A n \in Nodes :
        n # log[got'[c]].node /\ Castable(canvas[c][n]) /\ canvas[c][n] # base[c][n]
           => base'[c][n] # canvas[c][n]

PubInv == OrderInv /\ ShownIsBase

PubIInv == PubInv /\ BaseHolds

-----------------------------------------------------------------------------
(* 2. What is cast. *)

(* A finite set as a sequence: each member once. *)
LEMMA SetAsSeq ==
  ASSUME NEW S, IsFiniteSet(S)
  PROVE  /\ SetToSeq(S) \in Seq(S)
         /\ \A x \in S : \E i \in 1..Len(SetToSeq(S)) : SetToSeq(S)[i] = x
         /\ \A i, j \in 1..Len(SetToSeq(S)) : SetToSeq(S)[i] = SetToSeq(S)[j] => i = j
<1> DEFINE k == Cardinality(S)
           q == SetToSeq(S)
<1>1. k \in Nat /\ ExistsBijection(1..k, S)
  BY FS_CardinalityType
<1>2. PICK f \in Bijection(1..k, S) : TRUE
  BY <1>1 DEF ExistsBijection
<1>3. f \in [1..k -> S] /\ IsInjective(f)
  BY <1>2 DEF Bijection, Injection, IsInjective
<1>4. q \in [1..k -> S] /\ IsInjective(q)
  BY <1>3 DEF SetToSeq
<1> HIDE DEF q
<1>5. q \in Seq(S) /\ Len(q) = k
  BY <1>1, <1>4
<1>6. q \in Injection(1..k, S)
  BY <1>4 DEF Injection, IsInjective
<1>7. q \in Surjection(1..k, S)
  <2>1. IsFiniteSet(1..k) /\ Cardinality(1..k) = k
    BY <1>1, FS_Interval
  <2> QED
    BY <1>6, <2>1, FS_Injection
<1> QED
  BY <1>4, <1>5, <1>7 DEF Surjection, IsInjective, q

(* The mutations of a set of nodes: one for each, with its new value. *)
Lists(q, D, next) ==
  /\ q \in Seq(Mutation)
  /\ \A i \in 1..Len(q) : q[i].node \in D /\ q[i].val = next[q[i].node]
  /\ \A n \in D : \E i \in 1..Len(q) : q[i].node = n
  /\ \A i, j \in 1..Len(q) : q[i].node = q[j].node => i = j

LEMMA DiffLists ==
  ASSUME NEW D \in SUBSET Nodes, NEW next \in [Nodes -> NodeStates]
  PROVE  Lists(DiffToMutations(D, next), D, next)
<1> DEFINE U == {n \in D : next[n] # Absent}
           R == D \ U
           a == SetToSeq(U)
           b == SetToSeq(R)
           order == a \o b
           q == [i \in DOMAIN order |-> [node |-> order[i], val |-> next[order[i]]]]
<1>1. IsFiniteSet(U) /\ IsFiniteSet(R)
  BY NodesAssumption, FS_Subset
<1>2. /\ a \in Seq(U) /\ \A x \in U : \E i \in 1..Len(a) : a[i] = x
      /\ \A i, j \in 1..Len(a) : a[i] = a[j] => i = j
  BY <1>1, SetAsSeq
<1>3. /\ b \in Seq(R) /\ \A x \in R : \E i \in 1..Len(b) : b[i] = x
      /\ \A i, j \in 1..Len(b) : b[i] = b[j] => i = j
  BY <1>1, SetAsSeq
<1>4. q = DiffToMutations(D, next)
  BY DEF DiffToMutations
<1> HIDE DEF a, b, U
<1>5. /\ order \in Seq(D) /\ Len(order) = Len(a) + Len(b) /\ Len(a) \in Nat /\ Len(b) \in Nat
      /\ \A i \in 1..Len(a) : order[i] = a[i] /\ a[i] \in U
      /\ \A i \in 1..Len(b) : order[Len(a) + i] = b[i] /\ b[i] \in R
  <2>1. a \in Seq(D) /\ b \in Seq(D)
    BY <1>2, <1>3 DEF U
  <2> QED
    BY <1>2, <1>3, <2>1
<1>6. \A n \in D : \E i \in 1..Len(order) : order[i] = n
  <2> SUFFICES ASSUME NEW n \in D PROVE \E i \in 1..Len(order) : order[i] = n
    OBVIOUS
  <2>1. CASE n \in U
    <3>1. PICK i \in 1..Len(a) : a[i] = n
      BY <1>2, <2>1
    <3> QED
      BY <1>5, <3>1
  <2>2. CASE n \in R
    <3>1. PICK i \in 1..Len(b) : b[i] = n
      BY <1>3, <2>2
    <3>2. Len(a) + i \in 1..Len(order) /\ order[Len(a) + i] = n
      BY <1>5, <3>1
    <3> QED
      BY <3>2
  <2> QED
    BY <2>1, <2>2
<1>7. \A i, j \in 1..Len(order) : order[i] = order[j] => i = j
  <2> SUFFICES ASSUME NEW i \in 1..Len(order), NEW j \in 1..Len(order), order[i] = order[j]
               PROVE  i = j
    OBVIOUS
  <2>1. \A x \in 1..Len(order) :
           \/ x \in 1..Len(a) /\ order[x] = a[x] /\ order[x] \in U
           \/ x - Len(a) \in 1..Len(b) /\ order[x] = b[x - Len(a)] /\ order[x] \in R
    <3> TAKE x \in 1..Len(order)
    <3>1. x \in 1..Len(a) \/ x - Len(a) \in 1..Len(b)
      BY <1>5
    <3>2. x - Len(a) \in 1..Len(b) => order[Len(a) + (x - Len(a))] = b[x - Len(a)]
                                      /\ Len(a) + (x - Len(a)) = x
      BY <1>5
    <3> QED
      BY <1>5, <3>1, <3>2
  <2>2. CASE order[i] \in U
    BY <1>2, <2>1, <2>2
  <2>3. CASE order[i] \in R
    <3>1. i - Len(a) \in 1..Len(b) /\ j - Len(a) \in 1..Len(b) /\ b[i - Len(a)] = b[j - Len(a)]
      BY <2>1, <2>3
    <3>2. i - Len(a) = j - Len(a)
      BY <1>3, <3>1
    <3> QED
      BY <1>5, <3>2
  <2> QED
    BY <2>1, <2>2, <2>3
<1> HIDE DEF order
<1>8. DOMAIN order = 1..Len(order) /\ Len(order) \in Nat /\ \A i \in 1..Len(order) : order[i] \in D
  BY <1>5
<1>9. q \in Seq(Mutation) /\ Len(q) = Len(order)
  <2>1. q \in [1..Len(order) -> Mutation]
    BY <1>8 DEF Mutation
  <2> QED
    BY <1>8, <2>1
<1>10. \A i \in 1..Len(q) : q[i].node = order[i] /\ q[i].val = next[order[i]]
  BY <1>8, <1>9
<1> HIDE DEF q
<1> QED
  BY <1>4, <1>6, <1>7, <1>8, <1>9, <1>10 DEF Lists

-----------------------------------------------------------------------------
(* 3. Casting several nodes at once: as an edit of CanvasSync, node by node. *)

Says(c, q, D) ==
  /\ sent' = [sent EXCEPT ![c] = @ \o q]
  /\ ord'  = [ord EXCEPT ![c] = [n \in Nodes |-> IF n \in D THEN OnLocal(@[n]) ELSE @[n]]]
  /\ UNCHANGED <<stamped, log, got>>

(* The channels: the casts of c are appended, everything else is as it was. *)
LEMMA SaysSent ==
  ASSUME TypeOK, NEW c \in Clients, NEW D, NEW q \in Seq(Mutation), Says(c, q, D)
  PROVE  /\ Len(q) \in Nat
         /\ sent' \in [Clients -> Seq(Mutation)]
         /\ Len(sent'[c]) = Len(sent[c]) + Len(q) /\ Len(sent[c]) \in Nat
         /\ \A d \in Clients : d # c => sent'[d] = sent[d]
         /\ \A d \in Clients : \A k \in 1..Len(sent[d]) : sent'[d][k] = sent[d][k]
         /\ \A i \in 1..Len(q) : sent'[c][Len(sent[c]) + i] = q[i]
<1>1. sent \in [Clients -> Seq(Mutation)]
  BY DEF TypeOK
<1>2. sent' = [sent EXCEPT ![c] = sent[c] \o q]
  BY DEF Says
<1>3. \A d \in Clients : sent'[d] = IF d = c THEN sent[c] \o q ELSE sent[d]
  BY <1>1, <1>2
<1>4. /\ sent[c] \o q \in Seq(Mutation) /\ Len(sent[c] \o q) = Len(sent[c]) + Len(q)
      /\ Len(q) \in Nat /\ Len(sent[c]) \in Nat
      /\ \A k \in 1..Len(sent[c]) : (sent[c] \o q)[k] = sent[c][k]
      /\ \A i \in 1..Len(q) : (sent[c] \o q)[Len(sent[c]) + i] = q[i]
  BY <1>1
<1>5. sent' \in [Clients -> Seq(Mutation)]
  BY <1>1, <1>2, <1>4
<1> QED
  BY <1>1, <1>3, <1>4, <1>5

LEMMA SaysOrd ==
  ASSUME TypeOK, NEW c \in Clients, NEW D \in SUBSET Nodes, NEW q, Says(c, q, D)
  PROVE  /\ ord' \in [Clients -> [Nodes -> OrderState]]
         /\ \A d \in Clients, m \in Nodes :
              ord'[d][m] = IF d = c /\ m \in D THEN OnLocal(ord[d][m]) ELSE ord[d][m]
<1> DEFINE new == [n \in Nodes |-> IF n \in D THEN OnLocal(ord[c][n]) ELSE ord[c][n]]
<1>1. ord' = [ord EXCEPT ![c] = new] /\ ord \in [Clients -> [Nodes -> OrderState]]
  BY DEF Says, TypeOK
<1>2. new \in [Nodes -> OrderState]
  <2>1. \A n \in Nodes : ord[c][n] \in OrderState /\ OnLocal(ord[c][n]) \in OrderState
    BY <1>1 DEF OnLocal, OrderState
  <2> QED
    BY <2>1
<1>3. \A m \in Nodes : new[m] = IF m \in D THEN OnLocal(ord[c][m]) ELSE ord[c][m]
  OBVIOUS
<1> HIDE DEF new
<1>4. ord' \in [Clients -> [Nodes -> OrderState]]
  BY <1>1, <1>2
<1>5. \A d \in Clients : ord'[d] = IF d = c THEN new ELSE ord[d]
  BY <1>1
<1> QED
  BY <1>3, <1>4, <1>5

(* Positions behind the first a. *)
LEMMA ShiftBack ==
  ASSUME NEW a \in Nat, NEW b \in Nat
  PROVE  \A k \in (a + 1)..(a + b) :
            /\ k - a \in 1..b /\ a + (k - a) = k
            /\ k > a /\ k \notin 1..a
OBVIOUS

(* A node that is cast has one more cast in flight, and it is the latest. *)
FlightGrows(c, D, next, q, d, m) ==
  IF d = c /\ m \in D
    THEN \E i \in 1..Len(q) : /\ q[i].node = m /\ q[i].val = next[m]
                              /\ InFlight(d, m)' = InFlight(d, m) \cup {Len(sent[c]) + i}
    ELSE InFlight(d, m)' = InFlight(d, m)

LEMMA SaysInFlight ==
  ASSUME TypeOK, Fifo, NEW c \in Clients, NEW D \in SUBSET Nodes,
         NEW next \in [Nodes -> NodeStates], NEW q, Lists(q, D, next), Says(c, q, D),
         NEW d \in Clients, NEW m \in Nodes
  PROVE  FlightGrows(c, D, next, q, d, m)
<1> DEFINE L == Len(sent[c])
           F == InFlight(d, m)
           G == {k \in (L + 1)..(L + Len(q)) : q[k - L].node = m}
<1>1. /\ q \in Seq(Mutation) /\ Len(q) \in Nat /\ L \in Nat
      /\ Len(sent'[c]) = L + Len(q)
      /\ \A x \in Clients : x # c => sent'[x] = sent[x]
      /\ \A k \in 1..L : sent'[c][k] = sent[c][k]
      /\ \A i \in 1..Len(q) : sent'[c][L + i] = q[i]
  <2>1. q \in Seq(Mutation)
    BY DEF Lists
  <2> QED
    BY <2>1, SaysSent
<1>2. stamped' = stamped /\ log' = log /\ got' = got
  BY DEF Says
<1>3. stamped[c] \in Nat /\ stamped[c] <= L
  BY DEF TypeOK, Fifo
<1>4. CASE d # c
  BY <1>1, <1>2, <1>4 DEF InFlight, FlightGrows
<1>5. ASSUME d = c PROVE InFlight(d, m)' = F \cup G
  <2>1. \A k \in 1..(L + Len(q)) : k \in 1..L \/ (k \in (L + 1)..(L + Len(q)) /\ k - L \in 1..Len(q))
    BY <1>1
  <2>2. \A k \in (L + 1)..(L + Len(q)) : sent'[c][k] = q[k - L] /\ k > stamped[c] /\ k \notin 1..L
    <3> TAKE k \in (L + 1)..(L + Len(q))
    <3>1. k - L \in 1..Len(q) /\ L + (k - L) = k /\ k > L /\ k \notin 1..L
      BY <1>1, ShiftBack
    <3>2. sent'[c][L + (k - L)] = q[k - L]
      BY <1>1, <3>1
    <3>3. k > stamped[c]
      BY <1>1, <1>3, <3>1
    <3> QED
      BY <3>1, <3>2, <3>3
  <2>3. \A k \in 1..L : k \in 1..(L + Len(q)) /\ sent'[c][k] = sent[c][k]
    BY <1>1
  <2>4. InFlight(c, m)' = {k \in 1..(L + Len(q)) :
           /\ sent'[c][k].node = m
           /\ \/ k > stamped[c]
              \/ \E j \in (got[c] + 1)..Len(log) : log[j].src = c /\ log[j].idx = k}
    BY <1>1, <1>2 DEF InFlight
  <2>5. F = {k \in 1..L :
           /\ sent[c][k].node = m
           /\ \/ k > stamped[c]
              \/ \E j \in (got[c] + 1)..Len(log) : log[j].src = c /\ log[j].idx = k}
    BY <1>5 DEF InFlight
  <2> HIDE DEF F, L
  <2>6. \A k : k \in InFlight(c, m)' <=> k \in F \/ k \in G
    <3> TAKE k
    <3>1. CASE k \in 1..L
      <4>1. k \in 1..(L + Len(q)) /\ sent'[c][k] = sent[c][k]
        BY <2>3, <3>1
      <4>2. k \in InFlight(c, m)' <=> k \in F
        BY <2>4, <2>5, <3>1, <4>1
      <4>3. k \notin G
        BY <2>2, <3>1
      <4> QED
        BY <4>2, <4>3
    <3>2. CASE k \notin 1..L
      <4>1. k \notin F
        BY <2>5, <3>2
      <4>2. k \in InFlight(c, m)' => k \in (L + 1)..(L + Len(q)) /\ sent'[c][k].node = m
        BY <2>1, <2>4, <3>2
      <4>3. k \in G => k \in 1..(L + Len(q))
        BY <1>1
      <4>4. k \in (L + 1)..(L + Len(q)) => (k \in InFlight(c, m)' <=> k \in G)
        BY <2>2, <2>4, <4>3
      <4>5. k \in G => k \in (L + 1)..(L + Len(q))
        OBVIOUS
      <4> QED
        BY <4>1, <4>2, <4>4, <4>5
    <3> QED
      BY <3>1, <3>2
  <2> QED
    BY <1>5, <2>6
<1>6. CASE d = c /\ m \in D
  <2>1. PICK i \in 1..Len(q) : q[i].node = m
    BY <1>6 DEF Lists
  <2>2. q[i].val = next[m] /\ \A j \in 1..Len(q) : q[j].node = m => j = i
    BY <2>1 DEF Lists
  <2>3. G = {L + i}
    <3>1. L + i \in (L + 1)..(L + Len(q)) /\ (L + i) - L = i
      BY <1>1, <2>1
    <3>2. \A k \in (L + 1)..(L + Len(q)) : k - L \in 1..Len(q) /\ (k - L = i => k = L + i)
      BY <1>1, ShiftBack
    <3> HIDE DEF L
    <3> QED
      BY <2>1, <2>2, <3>1, <3>2
  <2> QED
    BY <1>5, <1>6, <2>1, <2>2, <2>3 DEF FlightGrows
<1>7. CASE d = c /\ m \notin D
  <2>1. \A k \in (L + 1)..(L + Len(q)) : k - L \in 1..Len(q)
    BY <1>1, ShiftBack
  <2>2. G = {}
    BY <1>7, <2>1 DEF Lists
  <2> QED
    BY <1>5, <1>7, <2>2 DEF FlightGrows
<1> QED
  BY <1>4, <1>6, <1>7

-----------------------------------------------------------------------------
(* 4. Each part of the invariant under such a cast. *)

(* More casts are on their way, none is lost or moved. *)
LEMMA SaysFifo ==
  ASSUME TypeOK, Fifo, NEW c \in Clients, NEW D, NEW q \in Seq(Mutation), Says(c, q, D)
  PROVE  Fifo'
<1>1. /\ stamped' = stamped /\ log' = log /\ got' = got
      /\ stamped \in [Clients -> Nat] /\ log \in Seq(Entry)
      /\ \A d \in Clients : Len(sent[d]) \in Nat
  BY DEF Says, TypeOK
<1>2. \A d \in Clients : /\ Len(sent'[d]) \in Nat /\ Len(sent[d]) <= Len(sent'[d])
                         /\ \A k \in 1..Len(sent[d]) : sent'[d][k] = sent[d][k]
  <2> TAKE d \in Clients
  <2>1. \A k \in 1..Len(sent[d]) : sent'[d][k] = sent[d][k]
    BY SaysSent
  <2>2. Len(sent'[d]) \in Nat /\ Len(sent[d]) <= Len(sent'[d])
    <3>1. CASE d = c
      <4>1. Len(sent'[c]) = Len(sent[c]) + Len(q) /\ Len(q) \in Nat
        BY SaysSent
      <4> QED
        BY <1>1, <3>1, <4>1
    <3>2. CASE d # c
      <4>1. sent'[d] = sent[d]
        BY <3>2, SaysSent
      <4> QED
        BY <1>1, <4>1
    <3> QED
      BY <3>1, <3>2
  <2> QED
    BY <2>1, <2>2
<1>3. \A d \in Clients : stamped[d] <= Len(sent[d]) /\ got[d] <= Len(log)
  BY DEF Fifo
<1>4. \A d \in Clients : stamped'[d] <= Len(sent'[d])
  BY <1>1, <1>2, <1>3
<1>5. \A j \in 1..Len(log) : sent'[log[j].src][log[j].idx] = sent[log[j].src][log[j].idx]
  <2> TAKE j \in 1..Len(log)
  <2>1. log[j] \in Entry /\ log[j].src \in Clients /\ log[j].idx \in 1..stamped[log[j].src]
    <3>1. log[j] \in Entry
      BY <1>1
    <3> QED
      BY <3>1 DEF Fifo, Entry
  <2>2. log[j].idx \in 1..Len(sent[log[j].src])
    BY <1>1, <1>3, <2>1
  <2> QED
    BY <1>2, <2>1, <2>2
<1>6. \A j \in 1..Len(log) :
         /\ log[j].idx \in 1..stamped[log[j].src]
         /\ sent'[log[j].src][log[j].idx].node = log[j].node
         /\ sent'[log[j].src][log[j].idx].val = log[j].val
  BY <1>5 DEF Fifo
<1>7. \A i, j \in 1..Len(log) :
         i < j /\ log[i].src = log[j].src => log[i].idx < log[j].idx
  BY DEF Fifo
<1>8. \A d \in Clients : stamped'[d] <= Len(sent'[d]) /\ got'[d] <= Len(log')
  BY <1>1, <1>3, <1>4
<1>9. stamped' = stamped /\ log' = log
  BY <1>1
<1> QED
  BY <1>6, <1>7, <1>8, <1>9 DEF Fifo

(* A cast is no delivery. *)
LEMMA SaysSeen ==
  ASSUME TypeOK, SeenIsLast, NEW c \in Clients, NEW D \in SUBSET Nodes, NEW q, Says(c, q, D)
  PROVE  SeenIsLast'
<1>1. log' = log /\ got' = got
  BY DEF Says
<1>2. \A d \in Clients, m \in Nodes : ord'[d][m].seen = ord[d][m].seen
  <2> TAKE d \in Clients, m \in Nodes
  <2>1. ord[d][m] \in OrderState
    BY DEF TypeOK
  <2>2. ord'[d][m] = ord[d][m] \/ ord'[d][m] = OnLocal(ord[d][m])
    BY SaysOrd
  <2> QED
    BY <2>1, <2>2, SeenField
<1> QED
  BY <1>1, <1>2 DEF SeenIsLast

(* Every node that is cast has one more echo to come. *)
LEMMA SaysCount ==
  ASSUME TypeOK, Fifo, PendingMatchesInFlight, NEW c \in Clients, NEW D \in SUBSET Nodes,
         NEW next \in [Nodes -> NodeStates], NEW q, Lists(q, D, next), Says(c, q, D)
  PROVE  PendingMatchesInFlight'
<1> SUFFICES ASSUME NEW d \in Clients, NEW m \in Nodes
             PROVE  ord'[d][m].count = Cardinality(InFlight(d, m)')
  BY DEF PendingMatchesInFlight
<1> DEFINE F == InFlight(d, m)
<1>0. FlightGrows(c, D, next, q, d, m)
  BY SaysInFlight
<1>1. /\ ord[d][m] \in OrderState /\ ord[d][m].count = Cardinality(F)
      /\ IsFiniteSet(F) /\ F \subseteq 1..Len(sent[d]) /\ Len(sent[d]) \in Nat
  BY InFlightFinite DEF TypeOK, PendingMatchesInFlight
<1>2. CASE d = c /\ m \in D
  <2>1. PICK i \in 1..Len(q) : InFlight(d, m)' = F \cup {Len(sent[c]) + i}
    BY <1>0, <1>2 DEF FlightGrows
  <2>2. Len(sent[c]) + i \notin F
    <3> HIDE DEF F
    <3> QED
      BY <1>1, <1>2
  <2>3. Cardinality(F \cup {Len(sent[c]) + i}) = Cardinality(F) + 1
    BY <1>1, <2>2, FS_AddElement
  <2>4. ord'[d][m] = OnLocal(ord[d][m])
    BY <1>2, SaysOrd
  <2>5. ord'[d][m].count = ord[d][m].count + 1
    BY <2>4 DEF OnLocal
  <2> HIDE DEF F
  <2> QED
    BY <1>1, <2>1, <2>3, <2>5
<1>3. CASE ~(d = c /\ m \in D)
  <2>1. InFlight(d, m)' = F
    BY <1>0, <1>3 DEF FlightGrows
  <2>2. ord'[d][m] = ord[d][m]
    BY <1>3, SaysOrd
  <2> HIDE DEF F
  <2> QED
    BY <1>1, <2>1, <2>2
<1> QED
  BY <1>2, <1>3

(* A cast puts our own value back: nothing is overwritten by it. *)
LEMMA SaysSuperseded ==
  ASSUME TypeOK, SupersededIsStale, NEW c \in Clients, NEW D \in SUBSET Nodes, NEW q,
         Says(c, q, D)
  PROVE  SupersededIsStale'
<1> SUFFICES ASSUME NEW d \in Clients, NEW m \in Nodes, ord'[d][m].superseded
             PROVE  ord'[d][m].stale /\ ord'[d][m].count > 0
  BY DEF SupersededIsStale
<1>1. ord'[d][m] = ord[d][m] \/ ord'[d][m] = OnLocal(ord[d][m])
  <2>1. CASE d = c /\ m \in D
    BY <2>1, SaysOrd
  <2>2. CASE ~(d = c /\ m \in D)
    BY <2>2, SaysOrd
  <2> QED
    BY <2>1, <2>2
<1> QED
  BY <1>1 DEF SupersededIsStale, OnLocal

(* What is cast of a node is held from now on. *)
LEMMA HoldsSays ==
  ASSUME TypeOK, Fifo, SeenIsLast, PendingMatchesInFlight, SupersededIsStale,
         NEW c \in Clients, NEW D \in SUBSET Nodes,
         NEW next \in [Nodes -> NodeStates], NEW q, Lists(q, D, next), Says(c, q, D),
         NEW d \in Clients, NEW m \in Nodes
  PROVE  IF d = c /\ m \in D THEN Holds(d, m, next[m])'
                             ELSE \A b : Holds(d, m, b) => Holds(d, m, b)'
<1> DEFINE F == InFlight(d, m)
<1>0. FlightGrows(c, D, next, q, d, m)
  BY SaysInFlight
<1>1. /\ ord[d][m].count \in Nat /\ F \subseteq 1..Len(sent[d]) /\ Len(sent[d]) \in Nat
      /\ q \in Seq(Mutation) /\ log' = log
  BY NodeFacts DEF TypeOK, Lists, Says
<1>2. CASE d = c /\ m \in D
  <2>1. PICK i \in 1..Len(q) :
           q[i].val = next[m] /\ InFlight(d, m)' = F \cup {Len(sent[c]) + i}
    BY <1>0, <1>2 DEF FlightGrows
  <2> DEFINE k0 == Len(sent[c]) + i
  <2>2. ~ord'[d][m].superseded /\ ord'[d][m].count # 0
    <3>1. ord'[d][m] = OnLocal(ord[d][m])
      BY <1>2, SaysOrd
    <3> QED
      BY <1>1, <3>1 DEF OnLocal
  <2>3. \A k \in F \cup {k0} : (\A x \in F \cup {k0} : x <= k) => k = k0
    <3> HIDE DEF F
    <3>1. k0 \in Nat /\ \A k \in F : k \in Nat /\ k < k0
      BY <1>1, <1>2
    <3> QED
      BY <3>1
  <2>4. sent'[d][k0].val = next[m]
    BY <1>1, <1>2, <2>1, SaysSent
  <2> QED
    BY <1>2, <2>1, <2>2, <2>3, <2>4 DEF Holds
<1>3. CASE ~(d = c /\ m \in D)
  <2> SUFFICES ASSUME NEW b, Holds(d, m, b) PROVE Holds(d, m, b)'
    BY <1>3
  <2>1. InFlight(d, m)' = F
    BY <1>0, <1>3 DEF FlightGrows
  <2>2. ord'[d][m] = ord[d][m]
    BY <1>3, SaysOrd
  <2>3. \A k \in F : sent'[d][k] = sent[d][k]
    <3>1. \A k \in 1..Len(sent[d]) : sent'[d][k] = sent[d][k]
      BY <1>1, SaysSent
    <3> QED
      BY <1>1, <3>1
  <2> QED
    BY <1>1, <2>1, <2>2, <2>3, HoldsFrame DEF OrderedValue
<1> QED
  BY <1>2, <1>3

(* The publisher asks of every mutation what the reflector will ask. *)
LEMMA SaysCastable ==
  ASSUME TypeOK, NeverCastsRefused, NEW c \in Clients, NEW D \in SUBSET Nodes,
         NEW next \in [Nodes -> NodeStates], NEW q, Lists(q, D, next), Says(c, q, D),
         \A n \in D : Castable(next[n])
  PROVE  NeverCastsRefused'
<1> SUFFICES ASSUME NEW d \in Clients, NEW k \in 1..Len(sent'[d])
             PROVE  Castable(sent'[d][k].val)
  BY DEF NeverCastsRefused, Castable
<1>1. q \in Seq(Mutation) /\ \A i \in 1..Len(q) : Castable(q[i].val)
  BY DEF Lists
<1>2. /\ Len(sent[c]) \in Nat /\ Len(sent'[c]) = Len(sent[c]) + Len(q) /\ Len(q) \in Nat
      /\ \A x \in Clients : x # c => sent'[x] = sent[x]
      /\ \A i \in 1..Len(sent[d]) : sent'[d][i] = sent[d][i]
      /\ \A i \in 1..Len(q) : sent'[c][Len(sent[c]) + i] = q[i]
  BY <1>1, SaysSent
<1>3. CASE k \in 1..Len(sent[d])
  BY <1>2, <1>3 DEF NeverCastsRefused
<1>4. CASE k \notin 1..Len(sent[d])
  <2>1. d = c
    BY <1>2, <1>4
  <2>2. k - Len(sent[c]) \in 1..Len(q) /\ Len(sent[c]) + (k - Len(sent[c])) = k
    BY <1>2, <1>4, <2>1
  <2>3. sent'[c][k] = q[k - Len(sent[c])]
    BY <1>2, <2>2
  <2> QED
    BY <1>1, <2>1, <2>2, <2>3
<1> QED
  BY <1>3, <1>4

-----------------------------------------------------------------------------
(* 5. What each action does to the publisher. *)

(* The nodes D of next are cast, and become baseline; what stays behind is *)
(* no news or refused.                                                     *)
Speaks(c, D, prev, next) ==
  /\ Says(c, DiffToMutations(D, next), D)
  /\ base' = [base EXCEPT ![c] = [n \in Nodes |-> IF n \in D THEN next[n] ELSE prev[n]]]
  /\ \A n \in Nodes : IF n \in D THEN Castable(next[n]) ELSE Castable(next[n]) => prev[n] = next[n]

LEMMA EmitSpeaks ==
  ASSUME NEW c \in Clients, NEW prev, NEW next, Emit(c, ord[c], prev, next),
         UNCHANGED <<stamped, log, got>>
  PROVE  \E D \in SUBSET Nodes : Speaks(c, D, prev, next)
<1> DEFINE D == {n \in Changed(prev, next) : Castable(next[n])}
<1>1. D \in SUBSET Nodes
  BY DEF Changed
<1>2. Says(c, DiffToMutations(D, next), D)
  BY DEF Emit, Says
<1>3. \A n \in Nodes : /\ n \in D <=> prev[n] # next[n] /\ Castable(next[n])
                       /\ n \in Refused(prev, next) <=> prev[n] # next[n] /\ ~Castable(next[n])
  BY DEF Changed, Refused, Castable
<1>4. base' = [base EXCEPT ![c] = RebaseRefused(prev, next)]
  BY DEF Emit
<1>5. RebaseRefused(prev, next) = [n \in Nodes |-> IF n \in D THEN next[n] ELSE prev[n]]
  <2> SUFFICES ASSUME NEW n \in Nodes
               PROVE  (IF n \in Refused(prev, next) THEN prev[n] ELSE next[n])
                        = IF n \in D THEN next[n] ELSE prev[n]
    BY DEF RebaseRefused
  <2> QED
    BY <1>3
<1>6. \A n \in Nodes : IF n \in D THEN Castable(next[n]) ELSE Castable(next[n]) => prev[n] = next[n]
  BY <1>3
<1> HIDE DEF D
<1> QED
  BY <1>1, <1>2, <1>4, <1>5, <1>6 DEF Speaks

(* A frame is held back. *)
Withholds(c) ==
  /\ owed' = [owed EXCEPT ![c] = TRUE]
  /\ UNCHANGED <<base, ord, sent, stamped, log, got>>

(* A change of the canvas is cast, or is a drag frame that waits. *)
LEMMA ChangeEffect ==
  ASSUME PubTypeOK, NEW c \in Clients, NEW S \in SUBSET Nodes, NEW v \in NodeStates,
         ChangeCanvas(c, S, v)
  PROVE  \E next \in [Nodes -> NodeStates] :
           /\ canvas' = [canvas EXCEPT ![c] = next]
           /\ \/ /\ Withholds(c)
                 /\ \A n \in Nodes : next[n] = Absent => canvas[c][n] = Absent
              \/ /\ owed' = [owed EXCEPT ![c] = FALSE]
                 /\ \E D \in SUBSET Nodes : Speaks(c, D, base[c], next)
<1> DEFINE next == [n \in Nodes |-> IF n \in S THEN v ELSE canvas[c][n]]
<1>1. base \in [Clients -> [Nodes -> NodeStates]] /\ canvas \in [Clients -> [Nodes -> NodeStates]]
      /\ ord \in [Clients -> [Nodes -> OrderState]]
  BY DEF PubTypeOK, TypeOK
<1>2. /\ canvas' = [canvas EXCEPT ![c] = next] /\ Publish(c, ord[c], base[c], next)
      /\ dragging[c] => v # Absent
      /\ UNCHANGED <<stamped, log, got>>
  BY DEF ChangeCanvas
<1>3. next \in [Nodes -> NodeStates]
  BY <1>1
<1>4. dragging[c] => \A n \in Nodes : next[n] = Absent => canvas[c][n] = Absent
  BY <1>2
<1> HIDE DEF next
<1>5. CASE dragging[c] /\ armed[c]
  <2>1. owed' = [owed EXCEPT ![c] = TRUE] /\ base' = [base EXCEPT ![c] = base[c]]
        /\ ord' = [ord EXCEPT ![c] = ord[c]] /\ UNCHANGED sent
    BY <1>2, <1>5 DEF Publish
  <2>2. base' = base /\ ord' = ord
    BY <1>1, <2>1
  <2>3. Withholds(c)
    BY <1>2, <2>1, <2>2 DEF Withholds
  <2> QED
    BY <1>2, <1>3, <1>4, <1>5, <2>3
<1>6. CASE ~(dragging[c] /\ armed[c])
  <2>1. Emit(c, ord[c], base[c], next) /\ owed' = [owed EXCEPT ![c] = FALSE]
    BY <1>2, <1>6 DEF Publish
  <2>2. \E D \in SUBSET Nodes : Speaks(c, D, base[c], next)
    BY <1>2, <2>1, EmitSpeaks
  <2> QED
    BY <1>2, <1>3, <2>1, <2>2
<1> QED
  BY <1>5, <1>6

(* The window closes: what is owed is cast. *)
LEMMA SettleEffect ==
  ASSUME NEW c \in Clients, Settle(c)
  PROVE  /\ owed' = [owed EXCEPT ![c] = FALSE] /\ canvas' = canvas
         /\ IF owed[c] THEN \E D \in SUBSET Nodes : Speaks(c, D, base[c], canvas[c])
                       ELSE UNCHANGED <<base, ord, sent, stamped, log, got>>
<1>1. CASE owed[c]
  <2>1. Emit(c, ord[c], base[c], canvas[c]) /\ UNCHANGED <<stamped, log, got>>
    BY <1>1 DEF Settle
  <2>2. \E D \in SUBSET Nodes : Speaks(c, D, base[c], canvas[c])
    BY <2>1, EmitSpeaks
  <2> QED
    BY <1>1, <2>2 DEF Settle
<1>2. CASE ~owed[c]
  BY <1>2 DEF Settle
<1> QED
  BY <1>1, <1>2

(* Nothing differs from a canvas just adopted: no cast answers a delivery. *)
LEMMA NothingToSay ==
  ASSUME NEW flow
  PROVE  /\ Changed(flow, flow) = {} /\ Refused(flow, flow) = {}
         /\ DiffToMutations({}, flow) = <<>>
<1>1. Changed(flow, flow) = {} /\ Refused(flow, flow) = {}
  BY DEF Changed, Refused
<1>2. DiffToMutations({}, flow) = <<>>
  <2>1. Len(SetToSeq({})) = 0
    <3>1. IsFiniteSet({})
      BY FS_EmptySet
    <3> DEFINE q == SetToSeq({})
    <3>2. q \in Seq({})
      BY <3>1, SetAsSeq
    <3> HIDE DEF q
    <3>3. Len(q) # 0 => q[1] \in {}
      BY <3>2
    <3> QED
      BY <3>2, <3>3 DEF q
  <2>2. SetToSeq({}) \in Seq({})
    BY SetAsSeq, FS_EmptySet
  <2> DEFINE none == SetToSeq({})
             upserted == {n \in {} : flow[n] # Absent}
             order == SetToSeq(upserted) \o SetToSeq({} \ upserted)
  <2>3. upserted = {} /\ {} \ upserted = {}
    OBVIOUS
  <2>4. none \o none = <<>>
    <3> HIDE DEF none
    <3>1. none \in Seq({}) /\ Len(none) = 0
      BY <2>1, <2>2 DEF none
    <3> QED
      BY <3>1
  <2>5. order = <<>>
    BY <2>3, <2>4
  <2> HIDE DEF order
  <2>6. [i \in DOMAIN order |-> [node |-> order[i], val |-> flow[order[i]]]] = <<>>
    BY <2>5
  <2> QED
    BY <2>6 DEF DiffToMutations, order
<1> QED
  BY <1>1, <1>2

(* A delivery: the ordering rules judge it as in CanvasSync; if it changes *)
(* the canvas, the canvas is the baseline too.  Nothing is cast.           *)
LEMMA PubReceiveEffect ==
  ASSUME PubTypeOK, NEW c \in Clients, PubReceive(c)
  PROVE  LET e    == Heard(c)
             flow == [canvas[c] EXCEPT ![e.node] = e.val]
         IN  /\ Delivers(c)
             /\ IF Applies(c) /\ ~(e.val = Absent /\ flow = canvas[c])
                  THEN canvas' = [canvas EXCEPT ![c] = flow] /\ base' = [base EXCEPT ![c] = flow]
                       /\ (owed' = [owed EXCEPT ![c] = TRUE] \/ owed' = [owed EXCEPT ![c] = FALSE])
                  ELSE UNCHANGED <<canvas, base, owed>>
<1> DEFINE s == got[c] + 1
           e == Heard(c)
           o == ord[c][e.node]
           heard == [ord[c] EXCEPT ![e.node] = IF e.src = c THEN OnAck(o, s) ELSE OnPeer(o, s)]
           flow == [canvas[c] EXCEPT ![e.node] = e.val]
<1>1. /\ got[c] < Len(log) /\ got' = [got EXCEPT ![c] = @ + 1] /\ UNCHANGED <<stamped, log>>
      /\ IF Applies(c) /\ ~(e.val = Absent /\ flow = canvas[c])
           THEN /\ canvas' = [canvas EXCEPT ![c] = flow]
                /\ Publish(c, heard, flow, flow)
           ELSE /\ ord' = [ord EXCEPT ![c] = heard]
                /\ UNCHANGED <<canvas, sent, publisher>>
  BY DEF PubReceive, Heard, Applies, Adopt
<1>2. heard \in [Nodes -> OrderState] /\ flow \in [Nodes -> NodeStates]
      /\ sent \in [Clients -> Seq(Mutation)] /\ ord \in [Clients -> [Nodes -> OrderState]]
  <2>1. TypeOK /\ log \in Seq(Entry) /\ got[c] + 1 \in 1..Len(log)
    BY <1>1 DEF PubTypeOK, TypeOK
  <2>2. e \in Entry /\ s \in Nat
    BY <2>1 DEF Heard, TypeOK
  <2>3. e.node \in Nodes /\ e.val \in NodeStates
    BY <2>2 DEF Entry
  <2>4. o \in OrderState
    BY <2>1, <2>3 DEF TypeOK
  <2>5. OnAck(o, s) \in OrderState /\ OnPeer(o, s) \in OrderState
    BY <2>2, <2>4, OrderTypes
  <2> HIDE DEF e, s, o
  <2> QED
    BY <2>1, <2>3, <2>5 DEF TypeOK
<1>3. ord' = [ord EXCEPT ![c] = heard] => ord' = [ord EXCEPT ![c][Heard(c).node] =
                IF Heard(c).src = c THEN OnAck(@, got[c] + 1) ELSE OnPeer(@, got[c] + 1)]
  OBVIOUS
<1>4. CASE ~(Applies(c) /\ ~(e.val = Absent /\ flow = canvas[c]))
  <2>1. ord' = [ord EXCEPT ![c] = heard] /\ UNCHANGED <<canvas, sent, publisher>>
    BY <1>1, <1>4
  <2>2. Delivers(c)
    BY <1>1, <1>3, <2>1 DEF Delivers
  <2> QED
    BY <1>4, <2>1, <2>2 DEF publisher
<1>5. CASE Applies(c) /\ ~(e.val = Absent /\ flow = canvas[c])
  <2>1. canvas' = [canvas EXCEPT ![c] = flow] /\ Publish(c, heard, flow, flow)
    BY <1>1, <1>5
  <2>2. /\ ord' = [ord EXCEPT ![c] = heard] /\ base' = [base EXCEPT ![c] = flow] /\ sent' = sent
        /\ (owed' = [owed EXCEPT ![c] = TRUE] \/ owed' = [owed EXCEPT ![c] = FALSE])
    <3> HIDE DEF heard, flow
    <3>1. CASE dragging[c] /\ armed[c]
      BY <2>1, <3>1 DEF Publish
    <3>2. CASE ~(dragging[c] /\ armed[c])
      <4>1. Emit(c, heard, flow, flow) /\ owed' = [owed EXCEPT ![c] = FALSE]
        BY <2>1, <3>2 DEF Publish
      <4> DEFINE said == {n \in Changed(flow, flow) : Castable(flow[n])}
      <4>2. said = {}
        BY NothingToSay
      <4>3. sent' = [sent EXCEPT ![c] = sent[c] \o <<>>]
        <5>1. sent' = [sent EXCEPT ![c] = @ \o DiffToMutations(said, flow)]
          BY <4>1 DEF Emit
        <5> HIDE DEF said
        <5> QED
          BY <4>2, <5>1, NothingToSay
      <4>4. ord' = [ord EXCEPT ![c] = [n \in Nodes |-> heard[n]]]
        <5>1. ord' = [ord EXCEPT ![c] = [n \in Nodes |-> IF n \in said THEN OnLocal(heard[n])
                                                         ELSE heard[n]]]
          BY <4>1 DEF Emit
        <5> HIDE DEF said
        <5> QED
          BY <4>2, <5>1
      <4>5. base' = [base EXCEPT ![c] = [n \in Nodes |-> flow[n]]]
        BY <4>1, NothingToSay DEF Emit, RebaseRefused
      <4>6. sent' = sent
        BY <1>2, <4>3
      <4> QED
        BY <1>2, <4>1, <4>4, <4>5, <4>6
    <3> QED
      BY <3>1, <3>2
  <2>3. Delivers(c)
    BY <1>1, <1>3, <2>2 DEF Delivers
  <2> QED
    BY <1>5, <2>1, <2>2, <2>3
<1> QED
  BY <1>4, <1>5

(* The reflector refuses nothing that is cast. *)
LEMMA ReflectStamps ==
  ASSUME PubTypeOK, NeverCastsRefused, NEW c \in Clients, Reflect(c)
  PROVE  Stamp(c) /\ UNCHANGED <<publisher, dragging>>
<1>1. stamped[c] + 1 \in 1..Len(sent[c])
  BY DEF Reflect, PubTypeOK, TypeOK
<1> QED
  BY <1>1 DEF Reflect, NeverCastsRefused, Castable

-----------------------------------------------------------------------------
(* 6. The order of casts and deliveries is kept, drags or not. *)

(* What a step may do to the ordering state and the two channels. *)
Orders(c) ==
  \/ UNCHANGED <<ord, sent, stamped, log, got>>
  \/ \E D \in SUBSET Nodes, next \in [Nodes -> NodeStates] :
        Says(c, DiffToMutations(D, next), D) /\ \A n \in D : Castable(next[n])
  \/ Delivers(c)
  \/ Stamp(c)
  \/ \E n \in Nodes : TtlLapses(c, n)

(* The part of PubTypeOK that CanvasSync's order does not touch. *)
ShownTypes ==
  /\ canvas   \in [Clients -> [Nodes -> NodeStates]]
  /\ base     \in [Clients -> [Nodes -> NodeStates]]
  /\ owed     \in [Clients -> BOOLEAN]
  /\ armed    \in [Clients -> BOOLEAN]
  /\ dragging \in [Clients -> BOOLEAN]

LEMMA SpeaksTypes ==
  ASSUME PubTypeOK, NEW c \in Clients, NEW D \in SUBSET Nodes,
         NEW next \in [Nodes -> NodeStates], Speaks(c, D, base[c], next)
  PROVE  base' \in [Clients -> [Nodes -> NodeStates]] /\ Orders(c)
<1> DEFINE new == [n \in Nodes |-> IF n \in D THEN next[n] ELSE base[c][n]]
<1>1. base \in [Clients -> [Nodes -> NodeStates]] /\ base' = [base EXCEPT ![c] = new]
  BY DEF PubTypeOK, Speaks
<1>2. new \in [Nodes -> NodeStates]
  BY <1>1
<1>3. Orders(c)
  BY DEF Speaks, Orders
<1> HIDE DEF new
<1> QED
  BY <1>1, <1>2, <1>3

(* Publish and Settle set the throttle flags to truth values. *)
LEMMA FlagTypes ==
  ASSUME PubTypeOK, NEW c \in Clients
  PROVE  /\ \A S \in SUBSET Nodes, v \in NodeStates : ChangeCanvas(c, S, v) =>
              armed' \in [Clients -> BOOLEAN] /\ dragging' \in [Clients -> BOOLEAN]
         /\ Settle(c) => armed' \in [Clients -> BOOLEAN]
         /\ PubReceive(c) => armed' \in [Clients -> BOOLEAN] /\ dragging' \in [Clients -> BOOLEAN]
<1>1. armed \in [Clients -> BOOLEAN] /\ dragging \in [Clients -> BOOLEAN]
  BY DEF PubTypeOK
<1>2. \A o, prev, next : Publish(c, o, prev, next) =>
         armed' = armed \/ armed' = [armed EXCEPT ![c] = dragging[c]]
  BY DEF Publish
<1>3. \A o, prev, next : Publish(c, o, prev, next) => armed' \in [Clients -> BOOLEAN]
  BY <1>1, <1>2
<1>4. ASSUME NEW S \in SUBSET Nodes, NEW v \in NodeStates, ChangeCanvas(c, S, v)
      PROVE  armed' \in [Clients -> BOOLEAN] /\ dragging' \in [Clients -> BOOLEAN]
  BY <1>1, <1>3, <1>4 DEF ChangeCanvas
<1>5. Settle(c) => armed' \in [Clients -> BOOLEAN]
  BY <1>1 DEF Settle
<1>6. ASSUME PubReceive(c)
      PROVE  armed' \in [Clients -> BOOLEAN] /\ dragging' \in [Clients -> BOOLEAN]
  <2>1. dragging' = dragging /\ (armed' = armed \/ \E o, prev, next : Publish(c, o, prev, next))
    BY <1>6 DEF PubReceive, publisher
  <2> QED
    BY <1>1, <1>3, <2>1
<1> QED
  BY <1>4, <1>5, <1>6

(* Every action is one of those steps and keeps the types. *)
LEMMA StepOrders ==
  ASSUME PubTypeOK, NeverCastsRefused, PubNext
  PROVE  ShownTypes' /\ \E c \in Clients : Orders(c)
<1>0. /\ canvas \in [Clients -> [Nodes -> NodeStates]] /\ base \in [Clients -> [Nodes -> NodeStates]]
      /\ owed \in [Clients -> BOOLEAN] /\ armed \in [Clients -> BOOLEAN]
      /\ dragging \in [Clients -> BOOLEAN]
  BY DEF PubTypeOK, TypeOK
<1>1. ASSUME NEW c \in Clients, NEW S \in SUBSET Nodes, NEW v \in NodeStates, ChangeCanvas(c, S, v)
      PROVE  ShownTypes' /\ Orders(c)
  <2>1. PICK next \in [Nodes -> NodeStates] :
           /\ canvas' = [canvas EXCEPT ![c] = next]
           /\ \/ Withholds(c)
              \/ /\ owed' = [owed EXCEPT ![c] = FALSE]
                 /\ \E D \in SUBSET Nodes : Speaks(c, D, base[c], next)
    BY <1>1, ChangeEffect
  <2>2. canvas' \in [Clients -> [Nodes -> NodeStates]] /\ armed' \in [Clients -> BOOLEAN]
        /\ dragging' \in [Clients -> BOOLEAN]
    BY <1>0, <1>1, <2>1, FlagTypes
  <2>3. CASE Withholds(c)
    BY <1>0, <2>2, <2>3 DEF Withholds, Orders, ShownTypes
  <2>4. CASE owed' = [owed EXCEPT ![c] = FALSE] /\ \E D \in SUBSET Nodes : Speaks(c, D, base[c], next)
    <3>1. base' \in [Clients -> [Nodes -> NodeStates]] /\ Orders(c)
      BY <2>4, SpeaksTypes
    <3>2. owed' \in [Clients -> BOOLEAN]
      BY <1>0, <2>4
    <3> QED
      BY <2>2, <3>1, <3>2 DEF ShownTypes
  <2> QED
    BY <2>1, <2>3, <2>4
<1>2. ASSUME NEW c \in Clients, DragStart(c)
      PROVE  ShownTypes' /\ Orders(c)
  BY <1>0, <1>2 DEF DragStart, Orders, ShownTypes, vars, publisher
<1>3. ASSUME NEW c \in Clients, Settle(c), dragging' \in [Clients -> BOOLEAN]
      PROVE  ShownTypes' /\ Orders(c)
  <2>1. canvas' = canvas /\ owed' = [owed EXCEPT ![c] = FALSE] /\ armed' \in [Clients -> BOOLEAN]
    BY <1>3, SettleEffect, FlagTypes
  <2>2. base' \in [Clients -> [Nodes -> NodeStates]] /\ Orders(c)
    <3>1. CASE owed[c]
      <4>1. canvas[c] \in [Nodes -> NodeStates]
        BY <1>0
      <4>2. \E D \in SUBSET Nodes : Speaks(c, D, base[c], canvas[c])
        BY <1>3, <3>1, SettleEffect
      <4> QED
        BY <4>1, <4>2, SpeaksTypes
    <3>2. CASE ~owed[c]
      <4>1. UNCHANGED <<base, ord, sent, stamped, log, got>>
        BY <1>3, <3>2, SettleEffect
      <4> QED
        BY <1>0, <4>1 DEF Orders
    <3> QED
      BY <3>1, <3>2
  <2>3. owed' \in [Clients -> BOOLEAN]
    BY <1>0, <2>1
  <2> QED
    BY <1>0, <1>3, <2>1, <2>2, <2>3 DEF ShownTypes
<1>4. ASSUME NEW c \in Clients, DragStop(c)
      PROVE  ShownTypes' /\ Orders(c)
  BY <1>0, <1>3, <1>4 DEF DragStop
<1>5. ASSUME NEW c \in Clients, Timer(c)
      PROVE  ShownTypes' /\ Orders(c)
  BY <1>0, <1>3, <1>5 DEF Timer
<1>6. ASSUME NEW c \in Clients, PubReceive(c)
      PROVE  ShownTypes' /\ Orders(c)
  <2> DEFINE e == Heard(c)
             flow == [canvas[c] EXCEPT ![e.node] = e.val]
  <2>1. Delivers(c)
    BY <1>6, PubReceiveEffect
  <2>2. e.val \in NodeStates /\ e.node \in Nodes
    BY <2>1, HeardType DEF PubTypeOK
  <2>3. flow \in [Nodes -> NodeStates]
    BY <1>0, <2>2
  <2>4. \/ canvas' = [canvas EXCEPT ![c] = flow] /\ base' = [base EXCEPT ![c] = flow]
           /\ (owed' = [owed EXCEPT ![c] = TRUE] \/ owed' = [owed EXCEPT ![c] = FALSE])
        \/ UNCHANGED <<canvas, base, owed>>
    BY <1>6, PubReceiveEffect
  <2>5. armed' \in [Clients -> BOOLEAN] /\ dragging' \in [Clients -> BOOLEAN]
    BY <1>6, FlagTypes
  <2> HIDE DEF flow
  <2>6. /\ canvas' \in [Clients -> [Nodes -> NodeStates]] /\ base' \in [Clients -> [Nodes -> NodeStates]]
        /\ owed' \in [Clients -> BOOLEAN]
    <3>1. CASE UNCHANGED <<canvas, base, owed>>
      BY <1>0, <3>1
    <3>2. CASE canvas' = [canvas EXCEPT ![c] = flow] /\ base' = [base EXCEPT ![c] = flow]
               /\ (owed' = [owed EXCEPT ![c] = TRUE] \/ owed' = [owed EXCEPT ![c] = FALSE])
      BY <1>0, <2>3, <3>2
    <3> QED
      BY <2>4, <3>1, <3>2
  <2> QED
    BY <1>0, <2>1, <2>5, <2>6 DEF ShownTypes, Orders
<1>7. ASSUME NEW c \in Clients, Reflect(c)
      PROVE  ShownTypes' /\ Orders(c)
  <2>1. Stamp(c) /\ UNCHANGED <<publisher, dragging>>
    BY <1>7, ReflectStamps
  <2> QED
    BY <1>0, <2>1 DEF Stamp, Orders, ShownTypes, publisher
<1>8. ASSUME NEW c \in Clients, NEW n \in Nodes, TtlLapses(c, n), UNCHANGED <<publisher, dragging>>
      PROVE  ShownTypes' /\ Orders(c)
  BY <1>0, <1>8 DEF TtlLapses, Orders, ShownTypes, publisher
<1> QED
  BY <1>1, <1>2, <1>4, <1>5, <1>6, <1>7, <1>8 DEF PubNext

(* And each of those steps keeps the order. *)
LEMMA OrdersKeep ==
  ASSUME OrderInv, NEW c \in Clients, Orders(c), ShownTypes'
  PROVE  OrderInv'
<1>0. /\ PubTypeOK /\ TypeOK /\ Fifo /\ SeenIsLast /\ PendingMatchesInFlight
      /\ SupersededIsStale /\ NeverCastsRefused
  BY DEF OrderInv, PubTypeOK
<1>1. ASSUME ord' \in [Clients -> [Nodes -> OrderState]], sent' \in [Clients -> Seq(Mutation)],
             stamped' \in [Clients -> Nat], log' \in Seq(Entry), got' \in [Clients -> Nat]
      PROVE  PubTypeOK'
  BY <1>1 DEF ShownTypes, PubTypeOK, TypeOK
<1>2. CASE UNCHANGED <<ord, sent, stamped, log, got>>
  <2>1. PubTypeOK'
    BY <1>0, <1>1, <1>2 DEF TypeOK
  <2>2. Fifo' /\ SeenIsLast' /\ SupersededIsStale' /\ NeverCastsRefused'
    <3>1. Fifo' /\ SeenIsLast'
      BY <1>0, <1>2 DEF Fifo, SeenIsLast
    <3>2. SupersededIsStale' /\ NeverCastsRefused'
      BY <1>0, <1>2 DEF SupersededIsStale, NeverCastsRefused, Castable
    <3> QED
      BY <3>1, <3>2
  <2>3. PendingMatchesInFlight'
    BY <1>0, <1>2 DEF PendingMatchesInFlight, InFlight
  <2> QED
    BY <2>1, <2>2, <2>3 DEF OrderInv
<1>3. ASSUME NEW D \in SUBSET Nodes, NEW next \in [Nodes -> NodeStates],
             Says(c, DiffToMutations(D, next), D), \A n \in D : Castable(next[n])
      PROVE  OrderInv'
  <2>1. PICK q : q = DiffToMutations(D, next)
    OBVIOUS
  <2>2. Lists(q, D, next) /\ Says(c, q, D) /\ q \in Seq(Mutation)
    <3>1. Lists(q, D, next)
      BY <2>1, DiffLists
    <3>2. q \in Seq(Mutation)
      BY <3>1 DEF Lists
    <3> QED
      BY <1>3, <2>1, <3>1, <3>2
  <2>3. sent' \in [Clients -> Seq(Mutation)]
    BY <1>0, <2>2, SaysSent
  <2>4. ord' \in [Clients -> [Nodes -> OrderState]]
    BY <1>0, <2>2, SaysOrd
  <2>5. PubTypeOK'
    BY <1>0, <1>1, <2>2, <2>3, <2>4 DEF Says, TypeOK
  <2>6. Fifo' /\ SeenIsLast' /\ SupersededIsStale'
    BY <1>0, <2>2, SaysFifo, SaysSeen, SaysSuperseded
  <2>7. PendingMatchesInFlight'
    BY <1>0, <2>2, SaysCount
  <2>8. NeverCastsRefused'
    BY <1>0, <1>3, <2>2, SaysCastable
  <2> QED
    BY <2>5, <2>6, <2>7, <2>8 DEF OrderInv
<1>4. CASE Delivers(c)
  <2>1. sent' = sent /\ stamped' = stamped /\ log' = log /\ got' = [got EXCEPT ![c] = got[c] + 1]
    BY <1>4 DEF Delivers
  <2>2. ord' \in [Clients -> [Nodes -> OrderState]]
    <3> DEFINE e == Heard(c)
               o == ord[c][e.node]
               new == IF e.src = c THEN OnAck(o, got[c] + 1) ELSE OnPeer(o, got[c] + 1)
    <3>1. e.node \in Nodes /\ got[c] + 1 \in Nat
      BY <1>0, <1>4, HeardType
    <3>2. o \in OrderState
      BY <1>0, <3>1 DEF TypeOK
    <3>3. new \in OrderState
      BY <3>1, <3>2, OrderTypes
    <3>4. ord' = [ord EXCEPT ![c][e.node] = new]
      BY <1>4 DEF Delivers
    <3> HIDE DEF new, e
    <3> QED
      BY <1>0, <3>1, <3>3, <3>4 DEF TypeOK
  <2>3. PubTypeOK'
    <3>1. got' \in [Clients -> Nat]
      BY <1>0, <2>1 DEF TypeOK
    <3>2. sent' \in [Clients -> Seq(Mutation)] /\ stamped' \in [Clients -> Nat] /\ log' \in Seq(Entry)
      BY <1>0, <2>1 DEF TypeOK
    <3> QED
      BY <1>1, <2>2, <3>1, <3>2
  <2>4. Fifo' /\ SeenIsLast' /\ SupersededIsStale' /\ PendingMatchesInFlight'
    BY <1>0, <1>4, FifoDelivery, SeenDelivery, SupersededDelivery, CountDelivery
  <2>5. NeverCastsRefused'
    BY <1>0, <2>1 DEF NeverCastsRefused, Castable
  <2> QED
    BY <2>3, <2>4, <2>5 DEF OrderInv
<1>5. ASSUME [Next]_vars, sent' = sent PROVE OrderInv'
  <2>1. TypeOK' /\ Fifo' /\ SeenIsLast' /\ PendingMatchesInFlight' /\ SupersededIsStale'
    BY <1>0, <1>5, TypeStep, FifoStep, SeenStep, CountStep, SupersededStep
  <2>2. NeverCastsRefused'
    BY <1>0, <1>5 DEF NeverCastsRefused, Castable
  <2> QED
    BY <2>1, <2>2 DEF OrderInv, PubTypeOK, ShownTypes
<1>6. CASE Stamp(c)
  BY <1>5, <1>6 DEF Next, Stamp
<1>7. ASSUME NEW n \in Nodes, TtlLapses(c, n) PROVE OrderInv'
  BY <1>5, <1>7 DEF Next, TtlLapses
<1> QED
  BY <1>2, <1>3, <1>4, <1>6, <1>7 DEF Orders

LEMMA OrderInvInit == PubInit => OrderInv
<1> SUFFICES ASSUME PubInit PROVE OrderInv
  OBVIOUS
<1>1. Init
  BY DEF PubInit
<1>2. TypeOK /\ Fifo /\ SeenIsLast /\ PendingMatchesInFlight /\ SupersededIsStale
  BY <1>1, IInvInit DEF IInv
<1>3. PubTypeOK
  BY <1>2, SavedAssumption DEF PubInit, PubTypeOK
<1>4. NeverCastsRefused
  BY <1>1 DEF Init, NeverCastsRefused
<1> QED
  BY <1>2, <1>3, <1>4 DEF OrderInv

LEMMA OrderInvStep == OrderInv /\ [PubNext]_pubVars => OrderInv'
<1> SUFFICES ASSUME OrderInv, [PubNext]_pubVars PROVE OrderInv'
  OBVIOUS
<1>1. CASE PubNext
  BY <1>1, StepOrders, OrdersKeep DEF OrderInv
<1>2. CASE UNCHANGED pubVars
  <2>1. UNCHANGED <<vars, publisher, dragging>>
    BY <1>2 DEF pubVars
  <2>2. PubTypeOK /\ TypeOK /\ Fifo /\ SeenIsLast /\ PendingMatchesInFlight
        /\ SupersededIsStale /\ NeverCastsRefused
    BY DEF OrderInv, PubTypeOK
  <2>3. TypeOK' /\ Fifo' /\ SeenIsLast' /\ PendingMatchesInFlight' /\ SupersededIsStale'
    BY <2>1, <2>2, TypeStep, FifoStep, SeenStep, CountStep, SupersededStep
  <2>4. PubTypeOK'
    BY <2>1, <2>2, <2>3 DEF PubTypeOK, publisher
  <2>5. NeverCastsRefused'
    BY <2>1, <2>2 DEF NeverCastsRefused, Castable, vars
  <2> QED
    BY <2>3, <2>4, <2>5 DEF OrderInv
<1> QED
  BY <1>1, <1>2

-----------------------------------------------------------------------------
(* 7. The canvas and the baseline. *)

(* A remove is never refused. *)
LEMMA AbsentCastable == Castable(Absent)
BY AbsentAssumption, OversizedAssumption DEF Castable

(* After an emission the baseline of a node that could be cast is what the *)
(* canvas shows.                                                           *)
LEMMA SpeaksShown ==
  ASSUME PubTypeOK, NEW c \in Clients, NEW D \in SUBSET Nodes,
         NEW next \in [Nodes -> NodeStates], Speaks(c, D, base[c], next),
         NEW n \in Nodes, Castable(next[n])
  PROVE  base'[c][n] = next[n]
<1>1. base'[c][n] = IF n \in D THEN next[n] ELSE base[c][n]
  BY DEF Speaks, PubTypeOK
<1> QED
  BY <1>1 DEF Speaks

(* What a delivery does to one node of one client. *)
LEMMA DeliveryShown ==
  ASSUME OrderInv, NEW c \in Clients, PubReceive(c), NEW d \in Clients, NEW m \in Nodes
  PROVE  \/ /\ d = c
            /\ canvas'[c][m] = IF m = Heard(c).node THEN Heard(c).val ELSE canvas[c][m]
            /\ base'[c][m] = canvas'[c][m]
            /\ Applies(c)
         \/ /\ canvas'[d][m] = canvas[d][m] /\ base'[d][m] = base[d][m] /\ owed'[d] = owed[d]
            /\ d = c /\ m = Heard(c).node /\ Applies(c) =>
                 Heard(c).val = Absent /\ canvas[c][m] = Absent
<1> DEFINE e == Heard(c)
           flow == [canvas[c] EXCEPT ![e.node] = e.val]
<1>0. /\ canvas \in [Clients -> [Nodes -> NodeStates]] /\ base \in [Clients -> [Nodes -> NodeStates]]
      /\ owed \in [Clients -> BOOLEAN] /\ PubTypeOK
  BY DEF OrderInv, PubTypeOK, TypeOK
<1>1. flow[m] = (IF m = e.node THEN e.val ELSE canvas[c][m])
  BY <1>0
<1>2. CASE Applies(c) /\ ~(e.val = Absent /\ flow = canvas[c])
  <2>1. canvas' = [canvas EXCEPT ![c] = flow] /\ base' = [base EXCEPT ![c] = flow]
        /\ (owed' = [owed EXCEPT ![c] = TRUE] \/ owed' = [owed EXCEPT ![c] = FALSE])
    BY <1>0, <1>2, PubReceiveEffect
  <2> HIDE DEF flow
  <2>2. CASE d = c
    <3>1. canvas'[c][m] = flow[m] /\ base'[c][m] = flow[m]
      BY <1>0, <2>1
    <3> QED
      BY <1>1, <1>2, <2>2, <3>1
  <2>3. CASE d # c
    BY <1>0, <2>1, <2>3
  <2> QED
    BY <2>2, <2>3
<1>3. CASE ~(Applies(c) /\ ~(e.val = Absent /\ flow = canvas[c]))
  <2>1. UNCHANGED <<canvas, base, owed>>
    BY <1>0, <1>3, PubReceiveEffect
  <2>2. m = e.node /\ Applies(c) => e.val = Absent /\ canvas[c][m] = Absent
    BY <1>1, <1>3
  <2> QED
    BY <2>1, <2>2
<1> QED
  BY <1>2, <1>3

(* An uncast difference waits for the timer or was refused. *)
LEMMA ShownStep == OrderInv /\ ShownIsBase /\ [PubNext]_pubVars => ShownIsBase'
<1> SUFFICES ASSUME OrderInv, ShownIsBase, [PubNext]_pubVars, NEW d \in Clients, NEW m \in Nodes
             PROVE  /\ ~owed'[d] /\ Castable(canvas'[d][m]) => canvas'[d][m] = base'[d][m]
                    /\ canvas'[d][m] = Absent => base'[d][m] = Absent
  BY DEF ShownIsBase, Castable
<1> DEFINE Goal == /\ ~owed'[d] /\ Castable(canvas'[d][m]) => canvas'[d][m] = base'[d][m]
                   /\ canvas'[d][m] = Absent => base'[d][m] = Absent
<1>0. /\ canvas \in [Clients -> [Nodes -> NodeStates]] /\ base \in [Clients -> [Nodes -> NodeStates]]
      /\ owed \in [Clients -> BOOLEAN] /\ PubTypeOK /\ NeverCastsRefused
  BY DEF OrderInv, PubTypeOK, TypeOK
<1>1. /\ ~owed[d] /\ Castable(canvas[d][m]) => canvas[d][m] = base[d][m]
      /\ canvas[d][m] = Absent => base[d][m] = Absent
  BY DEF ShownIsBase
<1>2. CASE canvas'[d][m] = canvas[d][m] /\ base'[d][m] = base[d][m] /\ owed'[d] = owed[d]
  BY <1>1, <1>2
(* An emission leaves nothing of c uncast. *)
<1>3. ASSUME NEW c \in Clients, NEW next \in [Nodes -> NodeStates], NEW D \in SUBSET Nodes,
             Speaks(c, D, base[c], next), d = c, canvas'[c] = next
      PROVE  Goal
  <2>1. Castable(next[m]) => base'[d][m] = next[m]
    BY <1>0, <1>3, SpeaksShown
  <2> QED
    BY <1>3, <2>1, AbsentCastable
<1>4. ASSUME NEW c \in Clients, NEW S \in SUBSET Nodes, NEW v \in NodeStates, ChangeCanvas(c, S, v)
      PROVE  Goal
  <2>1. PICK next \in [Nodes -> NodeStates] :
           /\ canvas' = [canvas EXCEPT ![c] = next]
           /\ \/ /\ Withholds(c)
                 /\ \A n \in Nodes : next[n] = Absent => canvas[c][n] = Absent
              \/ /\ owed' = [owed EXCEPT ![c] = FALSE]
                 /\ \E D \in SUBSET Nodes : Speaks(c, D, base[c], next)
    BY <1>0, <1>4, ChangeEffect
  <2>2. CASE d # c
    <3>1. canvas'[d] = canvas[d] /\ owed'[d] = owed[d]
      BY <1>0, <2>1, <2>2 DEF Withholds
    <3>2. base'[d][m] = base[d][m]
      <4>1. CASE Withholds(c)
        BY <4>1 DEF Withholds
      <4>2. ASSUME NEW D \in SUBSET Nodes, Speaks(c, D, base[c], next)
            PROVE  base'[d][m] = base[d][m]
        BY <1>0, <2>2, <4>2 DEF Speaks
      <4> QED
        BY <2>1, <4>1, <4>2
    <3> QED
      BY <1>2, <3>1, <3>2
  <2>3. CASE d = c /\ Withholds(c) /\ \A n \in Nodes : next[n] = Absent => canvas[c][n] = Absent
    <3>1. owed'[d] = TRUE /\ base' = base /\ canvas'[d] = next
      BY <1>0, <2>1, <2>3 DEF Withholds
    <3> QED
      BY <1>1, <2>3, <3>1
  <2>4. CASE d = c /\ \E D \in SUBSET Nodes : Speaks(c, D, base[c], next)
    <3>1. canvas'[c] = next
      BY <1>0, <2>1
    <3> QED
      BY <1>3, <2>4, <3>1
  <2> QED
    BY <2>1, <2>2, <2>3, <2>4
<1>5. ASSUME NEW c \in Clients, Settle(c)
      PROVE  Goal
  <2>1. canvas' = canvas /\ owed' = [owed EXCEPT ![c] = FALSE]
    BY <1>5, SettleEffect
  <2>2. CASE owed[c]
    <3>1. PICK D \in SUBSET Nodes : Speaks(c, D, base[c], canvas[c])
      BY <1>5, <2>2, SettleEffect
    <3>2. canvas[c] \in [Nodes -> NodeStates]
      BY <1>0
    <3>3. CASE d = c
      BY <1>3, <2>1, <3>1, <3>2, <3>3
    <3>4. CASE d # c
      <4>1. base'[d][m] = base[d][m]
        BY <1>0, <3>1, <3>4 DEF Speaks
      <4>2. owed'[d] = owed[d]
        BY <1>0, <2>1, <3>4
      <4> QED
        BY <1>2, <2>1, <4>1, <4>2
    <3> QED
      BY <3>3, <3>4
  <2>3. CASE ~owed[c]
    <3>1. base' = base
      BY <1>5, <2>3, SettleEffect
    <3>2. owed'[d] = owed[d]
      BY <1>0, <2>1, <2>3
    <3> QED
      BY <1>2, <2>1, <3>1, <3>2
  <2> QED
    BY <2>2, <2>3
<1>6. ASSUME NEW c \in Clients, PubReceive(c)
      PROVE  Goal
  <2>1. \/ d = c /\ base'[c][m] = canvas'[c][m]
        \/ canvas'[d][m] = canvas[d][m] /\ base'[d][m] = base[d][m] /\ owed'[d] = owed[d]
    BY <1>6, DeliveryShown
  <2> QED
    BY <1>2, <2>1
<1>7. ASSUME NEW c \in Clients, Reflect(c)
      PROVE  Goal
  <2>1. Stamp(c) /\ UNCHANGED <<publisher, dragging>>
    BY <1>0, <1>7, ReflectStamps
  <2> QED
    BY <1>2, <2>1 DEF Stamp, publisher
<1>8. CASE UNCHANGED <<canvas, base, owed>>
  BY <1>2, <1>8
<1>9. CASE PubNext
  BY <1>4, <1>5, <1>6, <1>7, <1>8, <1>9
     DEF PubNext, DragStart, DragStop, Timer, TtlLapses, vars, publisher
<1>10. CASE UNCHANGED pubVars
  BY <1>8, <1>10 DEF pubVars, vars, publisher
<1> QED
  BY <1>9, <1>10

(* Some value is held of every node: its latest unacked cast, or what the  *)
(* order says.                                                             *)
LEMMA HoldsSome ==
  ASSUME TypeOK, NEW d \in Clients, NEW m \in Nodes
  PROVE  \E b : Holds(d, m, b)
<1>1. CASE ord[d][m].superseded \/ ord[d][m].count = 0
  BY <1>1 DEF Holds
<1>2. CASE ~(ord[d][m].superseded \/ ord[d][m].count = 0)
  <2> DEFINE F == InFlight(d, m)
  <2>1. F \subseteq Nat
    BY DEF InFlight
  <2> HIDE DEF F
  <2>2. CASE \E k \in F : \A i \in F : i <= k
    <3>1. PICK k \in F : \A i \in F : i <= k
      BY <2>2
    <3>2. \A j \in F : (\A i \in F : i <= j) => j = k
      BY <2>1, <3>1
    <3>3. Holds(d, m, sent[d][k].val)
      BY <1>2, <3>2 DEF Holds, F
    <3> QED
      BY <3>3
  <2>3. CASE ~ \E k \in F : \A i \in F : i <= k
    <3>1. Holds(d, m, Absent)
      BY <1>2, <2>3 DEF Holds, F
    <3> QED
      BY <3>1
  <2> QED
    BY <2>2, <2>3
<1> QED
  BY <1>1, <1>2

(* What the baseline says is cast or told, unless an adopt swallows a frame. *)
LEMMA BaseStep == PubIInv /\ FramesKept /\ [PubNext]_pubVars => BaseHolds'
<1> SUFFICES ASSUME PubIInv, FramesKept, [PubNext]_pubVars, NEW d \in Clients, NEW m \in Nodes,
                    NEW w, w = base'[d][m], Castable(w)
             PROVE  Holds(d, m, w)'
  BY DEF BaseHolds, Holds, Castable
<1>0. /\ OrderInv /\ PubTypeOK /\ TypeOK /\ Fifo /\ SeenIsLast /\ PendingMatchesInFlight
      /\ SupersededIsStale /\ NeverCastsRefused /\ ShownIsBase
      /\ canvas \in [Clients -> [Nodes -> NodeStates]]
  BY DEF PubIInv, PubInv, OrderInv, PubTypeOK, TypeOK
<1>1. Castable(base[d][m]) => Holds(d, m, base[d][m])
  BY DEF PubIInv, BaseHolds
<1>2. CASE UNCHANGED <<base, ord, sent, stamped, log, got>>
  <2>1. InFlight(d, m)' = InFlight(d, m)
    BY <1>2 DEF InFlight
  <2> QED
    BY <1>1, <1>2, <2>1, HoldsFrame DEF OrderedValue
<1>3. ASSUME NEW c \in Clients, NEW next \in [Nodes -> NodeStates], NEW D \in SUBSET Nodes,
             Speaks(c, D, base[c], next)
      PROVE  Holds(d, m, w)'
  <2>1. w = IF d = c /\ m \in D THEN next[m] ELSE base[d][m]
    <3> DEFINE new == [n \in Nodes |-> IF n \in D THEN next[n] ELSE base[c][n]]
    <3>1. base' = [base EXCEPT ![c] = new] /\ base \in [Clients -> [Nodes -> NodeStates]]
      BY <1>0, <1>3 DEF Speaks, PubTypeOK
    <3>2. new[m] = IF m \in D THEN next[m] ELSE base[c][m]
      OBVIOUS
    <3> HIDE DEF new
    <3> QED
      BY <3>1, <3>2
  <2>2. PICK q : q = DiffToMutations(D, next)
    OBVIOUS
  <2>3. Lists(q, D, next) /\ Says(c, q, D)
    BY <1>3, <2>2, DiffLists DEF Speaks
  <2>4. IF d = c /\ m \in D THEN Holds(d, m, next[m])'
                            ELSE \A b : Holds(d, m, b) => Holds(d, m, b)'
    BY <1>0, <2>3, HoldsSays
  <2> QED
    BY <1>1, <2>1, <2>4
<1>4. ASSUME NEW c \in Clients, NEW S \in SUBSET Nodes, NEW v \in NodeStates, ChangeCanvas(c, S, v)
      PROVE  Holds(d, m, w)'
  <2>1. \/ Withholds(c)
        \/ \E next \in [Nodes -> NodeStates], D \in SUBSET Nodes : Speaks(c, D, base[c], next)
    BY <1>0, <1>4, ChangeEffect
  <2> QED
    BY <1>2, <1>3, <2>1 DEF Withholds
<1>5. ASSUME NEW c \in Clients, Settle(c)
      PROVE  Holds(d, m, w)'
  <2>1. canvas[c] \in [Nodes -> NodeStates]
    BY <1>0
  <2> QED
    BY <1>2, <1>3, <1>5, <2>1, SettleEffect
<1>6. ASSUME NEW c \in Clients, PubReceive(c)
      PROVE  Holds(d, m, w)'
  <2> DEFINE e == Heard(c)
  <2>1. Delivers(c) /\ e.node \in Nodes
    BY <1>0, <1>6, PubReceiveEffect, HeardType
  <2>2. \A b, x : Holds(d, m, b) /\ x = (IF d = c /\ m = e.node /\ Applies(c) THEN e.val ELSE b)
                    => Holds(d, m, x)'
    BY <1>0, <2>1, HoldsDelivery
  <2>3. CASE /\ d = c /\ base'[c][m] = canvas'[c][m] /\ Applies(c)
             /\ canvas'[c][m] = IF m = e.node THEN e.val ELSE canvas[c][m]
    <3>1. CASE m = e.node
      <4>1. w = e.val
        BY <2>3, <3>1
      <4> QED
        BY <1>0, <2>2, <2>3, <3>1, <4>1, HoldsSome
    (* The loop guard adopts a node the delivery does not address. *)
    <3>2. CASE m # e.node
      <4>1. w = canvas[c][m]
        BY <2>3, <3>2
      <4>2. canvas[c][m] = base[c][m]
        <5>1. got'[c] # got[c] /\ log[got'[c]].node = e.node
          <6>1. got'[c] = got[c] + 1 /\ got[c] \in Nat /\ e = log[got[c] + 1]
            BY <1>0, <2>1 DEF Delivers, TypeOK, Heard
          <6> QED
            BY <6>1
        <5> QED
          BY <2>3, <3>2, <4>1, <5>1 DEF FramesKept
      <4> QED
        BY <1>1, <2>2, <2>3, <3>2, <4>1, <4>2
    <3> QED
      BY <3>1, <3>2
  <2>4. CASE /\ base'[d][m] = base[d][m]
             /\ d = c /\ m = e.node /\ Applies(c) => e.val = Absent /\ canvas[c][m] = Absent
    <3>1. Holds(d, m, w)
      BY <1>1, <2>4
    <3>2. d = c /\ m = e.node /\ Applies(c) => w = e.val
      BY <1>0, <2>4 DEF ShownIsBase
    <3> QED
      BY <2>2, <3>1, <3>2
  <2> QED
    BY <1>0, <1>6, <2>3, <2>4, DeliveryShown
<1>7. ASSUME NEW c \in Clients, Reflect(c)
      PROVE  Holds(d, m, w)'
  <2>1. Stamp(c) /\ base' = base
    BY <1>0, <1>7, ReflectStamps DEF publisher
  <2> QED
    BY <1>0, <1>1, <2>1, HoldsStamp
<1>8. ASSUME NEW c \in Clients, NEW n \in Nodes, TtlLapses(c, n), UNCHANGED <<publisher, dragging>>
      PROVE  Holds(d, m, w)'
  BY <1>0, <1>1, <1>8, HoldsLapse DEF publisher
<1>9. CASE PubNext
  BY <1>2, <1>4, <1>5, <1>6, <1>7, <1>8, <1>9
     DEF PubNext, DragStart, DragStop, Timer, vars, publisher
<1>10. CASE UNCHANGED pubVars
  BY <1>2, <1>10 DEF pubVars, vars, publisher
<1> QED
  BY <1>9, <1>10

-----------------------------------------------------------------------------
(* 8. The theorems. *)

(* The order of casts and deliveries, for every spec of the publisher. *)
LEMMA OrderIsInvariant == PubSpec => []OrderInv
<1>1. PubInit => OrderInv
  BY OrderInvInit
<1>2. OrderInv /\ [PubNext]_pubVars => OrderInv'
  BY OrderInvStep
<1> QED
  BY <1>1, <1>2, PTL DEF PubSpec

(* The publisher's baseline and throttle, and the ordering state behind    *)
(* them, keep their types.                                                 *)
THEOREM PubTypeCorrect == PubSpec => []PubTypeOK
<1>1. OrderInv => PubTypeOK
  BY DEF OrderInv
<1> QED
  BY <1>1, OrderIsInvariant, PTL

(* With casts throttled, coalesced, bundled or refused as well, the        *)
(* pending count of canvas-order.ts is exactly the number of casts whose   *)
(* echo is still due: none is counted that is never cast, and none is cast *)
(* that the reflector drops without an answer.                             *)
THEOREM PendingIsExactWithPublisher == PubSpec => [](PendingMatchesInFlight /\ NeverCastsRefused)
<1>1. OrderInv => PendingMatchesInFlight /\ NeverCastsRefused
  BY DEF OrderInv
<1> QED
  BY <1>1, OrderIsInvariant, PTL

(* The loop guard of canvas-publish.ts: the delivery that patches a canvas *)
(* makes the patched canvas the baseline, and so is never answered by a    *)
(* cast, whatever else the canvas shows.                                   *)
THEOREM DeliveriesAreNotAnswered == PubSpec => NoEcho
<1>1. OrderInv /\ [PubNext]_pubVars => [got' # got => sent' = sent]_pubVars
  <2> SUFFICES ASSUME OrderInv, PubNext, got' # got PROVE sent' = sent
    OBVIOUS
  <2>0. PubTypeOK /\ NeverCastsRefused
    BY DEF OrderInv
  <2>1. ASSUME NEW c \in Clients, NEW S \in SUBSET Nodes, NEW v \in NodeStates, ChangeCanvas(c, S, v)
        PROVE  FALSE
    BY <2>1 DEF ChangeCanvas
  <2>2. ASSUME NEW c \in Clients, Settle(c)
        PROVE  FALSE
    BY <2>2 DEF Settle
  <2>3. ASSUME NEW c \in Clients, PubReceive(c)
        PROVE  sent' = sent
    BY <2>0, <2>3, PubReceiveEffect DEF Delivers
  <2>4. ASSUME NEW c \in Clients, Reflect(c)
        PROVE  FALSE
    BY <2>0, <2>4, ReflectStamps DEF Stamp
  <2> QED
    BY <2>1, <2>2, <2>3, <2>4 DEF PubNext, DragStart, DragStop, Timer, TtlLapses, vars
<1> QED
  BY <1>1, OrderIsInvariant, PTL DEF PubSpec, NoEcho

(* The whole invariant, as long as no delivery swallows a frame. *)
LEMMA PubIInvInit == PubInit => PubIInv
<1> SUFFICES ASSUME PubInit PROVE PubIInv
  OBVIOUS
<1>1. Init /\ OrderInv /\ \A c \in Clients : base[c] = Saved
  BY OrderInvInit DEF PubInit
<1>2. ShownIsBase
  BY <1>1 DEF Init, ShownIsBase
<1>3. BaseHolds
  <2> SUFFICES ASSUME NEW c \in Clients, NEW n \in Nodes PROVE Holds(c, n, base[c][n])
    BY DEF BaseHolds
  <2>1. ord[c][n] = Untouched /\ base[c][n] = Saved[n]
    BY <1>1 DEF Init
  <2> QED
    BY <2>1 DEF Holds, Untouched, OrderedValue
<1> QED
  BY <1>1, <1>2, <1>3 DEF PubIInv, PubInv

LEMMA PubIInvStep == PubIInv /\ FramesKept /\ [PubNext]_pubVars => PubIInv'
BY OrderInvStep, ShownStep, BaseStep DEF PubIInv, PubInv

LEMMA FramesKeptInvariant == PubSpec /\ [][FramesKept]_pubVars => []PubIInv
<1>1. PubInit => PubIInv
  BY PubIInvInit
<1>2. PubIInv /\ [PubNext]_pubVars /\ [FramesKept]_pubVars => PubIInv'
  <2>1. CASE FramesKept
    BY <2>1, PubIInvStep
  <2>2. CASE UNCHANGED pubVars
    <3>1. PubIInv /\ UNCHANGED pubVars => FramesKept
      BY DEF FramesKept, pubVars, vars
    <3> QED
      BY <2>2, <3>1, PubIInvStep
  <2> QED
    BY <2>1, <2>2
<1> QED
  BY <1>1, <1>2, PTL DEF PubSpec

(* A client with nothing owed and no echo due shows what the order says. *)
LEMMA NothingOwedShowsOrder ==
  ASSUME PubIInv, NEW c \in Clients, NEW n \in Nodes, NothingOwed(c, n), InFlight(c, n) = {}
  PROVE  canvas[c][n] = OrderedValue(n, ord[c][n].seen)
<1>1. ~owed[c] /\ Castable(canvas[c][n])
  BY DEF NothingOwed, Castable
<1>2. Holds(c, n, canvas[c][n])
  BY <1>1 DEF PubIInv, PubInv, ShownIsBase, BaseHolds
<1>3. ord[c][n].count = 0
  BY FS_EmptySet DEF PubIInv, PubInv, OrderInv, PendingMatchesInFlight
<1> QED
  BY <1>2, <1>3 DEF Holds

LEMMA EditsReachIfPubIInv == PubIInv => EditsReachTheOrder
BY NothingOwedShowsOrder DEF EditsReachTheOrder

LEMMA AgreementIfPubIInv == PubIInv => Agreement
<1> SUFFICES ASSUME PubIInv, NEW n \in Nodes, SaidAndDone(n), NEW c \in Clients, NEW d \in Clients
             PROVE  canvas[c][n] = canvas[d][n]
  BY DEF Agreement
<1>0. TypeOK /\ Fifo /\ SeenIsLast /\ Quiet(n)
  BY DEF PubIInv, PubInv, OrderInv, PubTypeOK, SaidAndDone
<1>1. ASSUME NEW x \in Clients PROVE canvas[x][n] = OrderedValue(n, ord[x][n].seen)
  BY <1>0, QuietNoEchoDue, NothingOwedShowsOrder DEF SaidAndDone
<1>2. ord[c][n].seen = ord[d][n].seen
  BY <1>0, QuietSameSeen
<1> QED
  BY <1>1, <1>2

(* The clients agree on every node that is said and done, for any number   *)
(* of clients and nodes and through drags, bulk edits and refused casts,   *)
(* provided that no delivery makes a withheld frame the baseline.  That    *)
(* one step is all that stands between canvas-publish.ts and convergence.  *)
THEOREM ClientsAgreeUnlessFrameSwallowed == PubSpec /\ [][FramesKept]_pubVars => []Agreement
BY FramesKeptInvariant, AgreementIfPubIInv, PTL

(* Under the same proviso no edit of a user is lost: what a client shows   *)
(* with nothing owed and no echo due is what the total order says.         *)
THEOREM EditsReachUnlessFrameSwallowed ==
  PubSpec /\ [][FramesKept]_pubVars => []EditsReachTheOrder
BY FramesKeptInvariant, EditsReachIfPubIInv, PTL

(* Who does not drag withholds nothing. *)
OnlyDraggersOwe ==
  \A c \in Clients : (owed[c] => dragging[c]) /\ (dragging[c] => c \in Draggers)

LEMMA OweInit == PubInit => OnlyDraggersOwe
BY DEF PubInit, OnlyDraggersOwe

LEMMA OweStep == OrderInv /\ OnlyDraggersOwe /\ [PubNext]_pubVars => OnlyDraggersOwe'
<1> SUFFICES ASSUME OrderInv, OnlyDraggersOwe, [PubNext]_pubVars, NEW d \in Clients
             PROVE  (owed'[d] => dragging'[d]) /\ (dragging'[d] => d \in Draggers)
  BY DEF OnlyDraggersOwe
<1> DEFINE Goal == (owed'[d] => dragging'[d]) /\ (dragging'[d] => d \in Draggers)
<1>0. /\ owed \in [Clients -> BOOLEAN] /\ dragging \in [Clients -> BOOLEAN]
      /\ PubTypeOK /\ NeverCastsRefused
      /\ (owed[d] => dragging[d]) /\ (dragging[d] => d \in Draggers)
  BY DEF OrderInv, PubTypeOK, OnlyDraggersOwe
<1>1. ASSUME NEW c \in Clients, NEW o, NEW prev, NEW next, Publish(c, o, prev, next)
      PROVE  owed'[d] => owed[d] \/ dragging[d]
  BY <1>0, <1>1 DEF Publish
<1>2. ASSUME NEW c \in Clients, NEW S \in SUBSET Nodes, NEW v \in NodeStates, ChangeCanvas(c, S, v)
      PROVE  Goal
  BY <1>0, <1>1, <1>2 DEF ChangeCanvas
<1>3. ASSUME NEW c \in Clients, DragStart(c)
      PROVE  Goal
  BY <1>0, <1>3 DEF DragStart, publisher
<1>4. ASSUME NEW c \in Clients, Settle(c),
             dragging' = dragging \/ dragging' = [dragging EXCEPT ![c] = FALSE]
      PROVE  Goal
  <2>1. owed' = [owed EXCEPT ![c] = FALSE]
    BY <1>4, SettleEffect
  <2> QED
    BY <1>0, <1>4, <2>1
<1>5. ASSUME NEW c \in Clients, PubReceive(c)
      PROVE  Goal
  <2>1. dragging' = dragging /\ (owed' = owed \/ \E o, prev, next : Publish(c, o, prev, next))
    BY <1>5 DEF PubReceive, publisher
  <2> QED
    BY <1>0, <1>1, <2>1
<1>6. ASSUME NEW c \in Clients, Reflect(c)
      PROVE  Goal
  BY <1>0, <1>6 DEF Reflect, publisher
<1>7. CASE UNCHANGED <<owed, dragging>>
  BY <1>0, <1>7
<1>8. CASE PubNext
  BY <1>2, <1>3, <1>4, <1>5, <1>6, <1>7, <1>8 DEF PubNext, DragStop, Timer, publisher
<1>9. CASE UNCHANGED pubVars
  BY <1>7, <1>9 DEF pubVars, publisher
<1> QED
  BY <1>8, <1>9

(* A delivery to a client that owes nothing, or to the only node there is, *)
(* swallows no frame.                                                      *)
LEMMA NoFrameToSwallow ==
  ASSUME OrderInv, ShownIsBase, OnlyDraggersOwe, Draggers = {} \/ \E n \in Nodes : Nodes = {n},
         PubNext
  PROVE  FramesKept
<1> SUFFICES ASSUME NEW c \in Clients, got'[c] # got[c], NEW n \in Nodes,
                    n # log[got'[c]].node, Castable(canvas[c][n]), canvas[c][n] # base[c][n]
             PROVE  FALSE
  BY DEF FramesKept
<1>0. PubTypeOK /\ TypeOK /\ NeverCastsRefused /\ ~owed[c] => canvas[c][n] = base[c][n]
  BY DEF OrderInv, PubTypeOK, ShownIsBase
<1>1. PubTypeOK /\ TypeOK /\ NeverCastsRefused /\ got \in [Clients -> Nat]
  BY DEF OrderInv, PubTypeOK, TypeOK
<1>2. c \in Draggers
  BY <1>0, <1>1 DEF OnlyDraggersOwe
<1>3. Delivers(c)
  <2>1. ASSUME NEW d \in Clients, PubReceive(d)
        PROVE  Delivers(d) /\ d = c
    <3>1. Delivers(d)
      BY <1>1, <2>1, PubReceiveEffect
    <3>2. got' = [got EXCEPT ![d] = got[d] + 1]
      BY <3>1 DEF Delivers
    <3> QED
      BY <1>1, <3>1, <3>2
  <2>2. ASSUME got' = got
        PROVE  FALSE
    BY <2>2
  <2>3. ASSUME NEW d \in Clients, NEW S \in SUBSET Nodes, NEW v \in NodeStates, ChangeCanvas(d, S, v)
        PROVE  FALSE
    BY <2>2, <2>3 DEF ChangeCanvas
  <2>4. ASSUME NEW d \in Clients, Settle(d) \/ DragStart(d) \/ Reflect(d)
        PROVE  FALSE
    BY <1>1, <2>2, <2>4, ReflectStamps DEF Settle, DragStart, Stamp, vars
  <2> QED
    BY <2>1, <2>2, <2>3, <2>4 DEF PubNext, DragStop, Timer, TtlLapses
<1>4. log[got'[c]].node \in Nodes
  <2>1. got'[c] = got[c] + 1 /\ Heard(c) = log[got[c] + 1] /\ Heard(c).node \in Nodes
    BY <1>1, <1>3, HeardType DEF Delivers
  <2> QED
    BY <2>1
<1> QED
  BY <1>2, <1>4

LEMMA NoSwallowInvariant ==
  (Draggers = {} \/ \E n \in Nodes : Nodes = {n}) /\ PubSpec => [](PubIInv /\ OnlyDraggersOwe)
<1> DEFINE Calm == Draggers = {} \/ \E n \in Nodes : Nodes = {n}
           I == PubIInv /\ OnlyDraggersOwe
<1>1. PubInit => I
  BY PubIInvInit, OweInit
<1>2. Calm /\ I /\ [PubNext]_pubVars => I'
  <2> SUFFICES ASSUME Calm, PubIInv, OnlyDraggersOwe, [PubNext]_pubVars
               PROVE  PubIInv' /\ OnlyDraggersOwe'
    OBVIOUS
  <2>1. OnlyDraggersOwe'
    BY OweStep DEF PubIInv, PubInv
  <2>2. FramesKept
    <3>1. CASE PubNext
      BY <3>1, NoFrameToSwallow DEF PubIInv, PubInv
    <3>2. CASE UNCHANGED pubVars
      BY <3>2 DEF FramesKept, pubVars, vars
    <3> QED
      BY <3>1, <3>2
  <2> QED
    BY <2>1, <2>2, PubIInvStep
<1> HIDE DEF I
<1>3. CASE Calm
  <2>1. I /\ [PubNext]_pubVars => I'
    BY <1>2, <1>3
  <2> QED
    BY <1>1, <2>1, PTL DEF PubSpec, I
<1>4. CASE ~Calm
  BY <1>4
<1> QED
  BY <1>3, <1>4

(* Without a drag nothing is withheld, and the clients agree               *)
(* unconditionally: bulk edits and refused casts alone do no harm.         *)
THEOREM ClientsAgreeWithoutDrags ==
  Draggers = {} /\ PubSpec => [](Agreement /\ EditsReachTheOrder)
<1>1. PubIInv => Agreement /\ EditsReachTheOrder
  BY AgreementIfPubIInv, EditsReachIfPubIInv
<1> QED
  BY <1>1, NoSwallowInvariant, PTL

(* With one node there is no frame of another to swallow: throttling alone *)
(* does no harm either, whoever drags.                                     *)
THEOREM ClientsAgreeOnOneNode ==
  (\E n \in Nodes : Nodes = {n}) /\ PubSpec => [](Agreement /\ EditsReachTheOrder)
<1>1. PubIInv => Agreement /\ EditsReachTheOrder
  BY AgreementIfPubIInv, EditsReachIfPubIInv
<1> QED
  BY <1>1, NoSwallowInvariant, PTL
=============================================================================
