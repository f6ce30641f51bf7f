--------------------------- MODULE CanvasSyncProofs ---------------------------
(***************************************************************************)
(* Proofs about CanvasSync, for any clients, nodes, values and number of   *)
(* casts: the ordering rules of canvas-order.ts converge.                  *)
(*                                                                         *)
(* The argument has three layers.  Fifo says what the two transports keep; *)
(* from it each action changes the set of a client's unacked casts in the  *)
(* obvious way (section 2), so the pending count is exact.  SeenIsLast and *)
(* SupersededIsStale say what the three maps of canvas-order.ts mean, and  *)
(* ShowsOwnOrOrder what the canvas shows; a settled client therefore shows *)
(* what the total order says, and two settled clients the same.            *)
(***************************************************************************)
EXTENDS CanvasSync, FiniteSetTheorems, TLAPS

-----------------------------------------------------------------------------
(* 1. Types. *)

(* What canvas-order.ts does with a node's ordering state keeps its type:  *)
(* in particular the pending count never drops below zero.                 *)
LEMMA OrderTypes ==
  ASSUME NEW o \in OrderState, NEW s \in Nat
  PROVE  /\ OnLocal(o) \in OrderState
         /\ Lapse(o) \in OrderState
         /\ OnAck(o, s) \in OrderState
         /\ OnPeer(o, s) \in OrderState
<1>1. OnLocal(o) \in OrderState
  BY DEF OrderState, OnLocal
<1>2. Lapse(o) \in OrderState
  BY DEF OrderState, Lapse
<1>3. Later(s, o.seen) \in Nat
  BY DEF OrderState, Later
<1>4. OnAck(o, s) \in OrderState
  <2>1. (IF o.count > 0 THEN o.count - 1 ELSE 0) \in Nat
    BY DEF OrderState
  <2>2. (IF o.count > 1 THEN o.stale ELSE FALSE) \in BOOLEAN
    BY DEF OrderState
  <2>3. (IF o.count = 1 THEN FALSE ELSE o.superseded) \in BOOLEAN
    BY DEF OrderState
  <2> QED
    BY <1>3, <2>1, <2>2, <2>3, Zenon DEF OrderState, OnAck
<1>5. OnPeer(o, s) \in OrderState
  BY <1>3 DEF OrderState, OnPeer
<1> QED
  BY <1>1, <1>2, <1>4, <1>5

(* seen moves only by a delivery, and only forward. *)
LEMMA SeenField ==
  ASSUME NEW o \in OrderState, NEW s \in Nat
  PROVE  /\ OnLocal(o).seen = o.seen
         /\ Lapse(o).seen = o.seen
         /\ OnAck(o, s).seen = Later(s, o.seen)
         /\ OnPeer(o, s).seen = Later(s, o.seen)
BY DEF OrderState, OnLocal, Lapse, OnAck, OnPeer

(* Every variable of CanvasSync keeps its type through every step. *)
LEMMA TypeStep == TypeOK /\ [Next]_vars => TypeOK'
<1> SUFFICES ASSUME TypeOK, [Next]_vars PROVE TypeOK'
  OBVIOUS
<1> USE DEF TypeOK
<1>1. ASSUME NEW c \in Clients, NEW n \in Nodes, NEW v \in NodeStates, Edit(c, n, v)
      PROVE  TypeOK'
  <2>1. [node |-> n, val |-> v] \in Mutation
    BY DEF Mutation
  <2>2. ord' \in [Clients -> [Nodes -> OrderState]]
    BY <1>1, OrderTypes, ord[c][n] \in OrderState DEF Edit
  <2> QED
    BY <1>1, <2>1, <2>2 DEF Edit
<1>2. ASSUME NEW c \in Clients, Stamp(c)
      PROVE  TypeOK'
  <2>1. sent[c][stamped[c] + 1] \in Mutation
    BY <1>2 DEF Stamp
  <2>2. log' \in Seq(Entry)
    BY <1>2, <2>1 DEF Stamp, Mutation, Entry
  <2> QED
    BY <1>2, <2>2 DEF Stamp
<1>3. ASSUME NEW c \in Clients, Receive(c)
      PROVE  TypeOK'
  <2> DEFINE m == log[got[c] + 1]
  <2>1. m \in Entry
    BY <1>3 DEF Receive
  <2>2. ord' \in [Clients -> [Nodes -> OrderState]]
    <3> DEFINE s == got[c] + 1
               o == ord[c][m.node]
               new == IF m.src = c THEN OnAck(o, s) ELSE OnPeer(o, s)
    <3>1. o \in OrderState /\ s \in Nat
      BY <2>1, SMTT(20) DEF Entry
    <3>2. new \in OrderState
      BY <3>1, OrderTypes
    <3>3. ord' = [ord EXCEPT ![c][m.node] = new]
      BY <1>3 DEF Receive
    <3> QED
      BY <2>1, <3>2, <3>3 DEF Entry
  <2>3. canvas' \in [Clients -> [Nodes -> NodeStates]]
    BY <1>3, <2>1 DEF Receive, Entry
  <2> QED
    BY <1>3, <2>2, <2>3 DEF Receive
<1>4. ASSUME NEW c \in Clients, NEW n \in Nodes, TtlLapses(c, n)
      PROVE  TypeOK'
  <2>1. ord' \in [Clients -> [Nodes -> OrderState]]
    BY <1>4, OrderTypes, ord[c][n] \in OrderState DEF TtlLapses
  <2> QED
    BY <1>4, <2>1 DEF TtlLapses
<1>5. CASE UNCHANGED vars
  BY <1>5 DEF vars
<1> QED
  BY <1>1, <1>2, <1>3, <1>4, <1>5 DEF Next

(* The initial states are well typed. *)
LEMMA TypeInit == Init => TypeOK
BY SavedAssumption DEF Init, TypeOK, Untouched, OrderState

(* The type invariant of CanvasSync, which covers the record of unacked    *)
(* casts in canvas-order.ts: no ack draws a count below zero.              *)
THEOREM TypeCorrect == Spec => []TypeOK
<1>1. Init => TypeOK
  BY TypeInit
<1>2. TypeOK /\ [Next]_vars => TypeOK'
  BY TypeStep
<1> QED
  BY <1>1, <1>2, PTL DEF Spec

-----------------------------------------------------------------------------
(* 2. What each action does to the set of a client's unacked casts. *)

(* A client has finitely many unacked casts of a node. *)
LEMMA InFlightFinite ==
  ASSUME TypeOK, NEW c \in Clients, NEW n \in Nodes
  PROVE  InFlight(c, n) \subseteq 1..Len(sent[c]) /\ IsFiniteSet(InFlight(c, n))
<1>1. InFlight(c, n) \subseteq 1..Len(sent[c])
  BY DEF InFlight
<1>2. IsFiniteSet(1..Len(sent[c]))
  BY FS_Interval DEF TypeOK
<1> QED
  BY <1>1, <1>2, FS_Subset

(* An edit adds the new cast to the unacked ones of its node, and is the   *)
(* latest of them.                                                         *)
LEMMA EditInFlight ==
  ASSUME TypeOK, Fifo, NEW c \in Clients, NEW n \in Nodes, NEW v \in NodeStates, Edit(c, n, v),
         NEW d \in Clients, NEW m \in Nodes
  PROVE  InFlight(d, m)' = IF d = c /\ m = n THEN InFlight(d, m) \cup {Len(sent[c]) + 1}
                                            ELSE InFlight(d, m)
<1> DEFINE k0 == Len(sent[c]) + 1
<1>1. sent[d] \in Seq(Mutation) /\ sent[c] \in Seq(Mutation) /\ stamped[d] \in Nat
  BY DEF TypeOK
<1>2. stamped' = stamped /\ log' = log /\ got' = got
  BY DEF Edit
<1>3. CASE d # c
  <2>1. sent'[d] = sent[d]
    BY <1>3 DEF Edit, TypeOK
  <2> QED
    BY <1>2, <1>3, <2>1 DEF InFlight
<1>4. CASE d = c
  <2>1. sent'[c] = Append(sent[c], [node |-> n, val |-> v])
    BY DEF Edit, TypeOK
  <2>2. Len(sent'[c]) = k0 /\ sent'[c][k0].node = n
    BY <1>1, <2>1
  <2>3. \A k \in 1..Len(sent[c]) : sent'[c][k] = sent[c][k]
    BY <1>1, <2>1
  <2>4. k0 > stamped[c] /\ 1..k0 = 1..Len(sent[c]) \cup {k0}
    BY <1>1 DEF Fifo, TypeOK
  <2> QED
    BY <1>1, <1>2, <1>4, <2>2, <2>3, <2>4 DEF InFlight
<1> QED
  BY <1>3, <1>4

(* A cast stays unacked while it moves from its channel to the log. *)
LEMMA StampInFlight ==
  ASSUME TypeOK, Fifo, NEW c \in Clients, Stamp(c), NEW d \in Clients, NEW m \in Nodes
  PROVE  InFlight(d, m)' = InFlight(d, m)
<1> DEFINE j0 == Len(log) + 1
           k0 == stamped[c] + 1
<1>1. log \in Seq(Entry) /\ stamped \in [Clients -> Nat] /\ got \in [Clients -> Nat]
  BY DEF TypeOK
<1>2. Len(log') = j0 /\ log'[j0].src = c /\ log'[j0].idx = k0
  BY <1>1 DEF Stamp
<1>3. \A j \in 1..Len(log) : log'[j] = log[j]
  BY <1>1 DEF Stamp
<1>4. sent' = sent /\ got' = got /\ stamped' = [stamped EXCEPT ![c] = k0]
  BY DEF Stamp
<1>5. got[d] <= Len(log) /\ Len(log) \in Nat
  BY <1>1 DEF Fifo
<1>6. \A k \in 1..Len(sent[d]) :
         (\E j \in (got[d] + 1)..j0 : log'[j].src = d /\ log'[j].idx = k)
           <=> \/ \E j \in (got[d] + 1)..Len(log) : log[j].src = d /\ log[j].idx = k
               \/ d = c /\ k = k0
  <2>1. \A j : j \in (got[d] + 1)..j0 <=> j \in (got[d] + 1)..Len(log) \/ j = j0
    BY <1>1, <1>5
  <2>2. \A j \in (got[d] + 1)..Len(log) : log'[j] = log[j]
    BY <1>1, <1>3, <1>5
  <2> QED
    BY <1>2, <2>1, <2>2
<1>7. \A k \in 1..Len(sent[d]) :
         k > stamped'[d] \/ (d = c /\ k = k0) <=> k > stamped[d]
  BY <1>1, <1>4
<1> QED
  BY <1>2, <1>4, <1>6, <1>7 DEF InFlight

(* The stamped mutation that reaches c next, and whether it acks a cast of *)
(* d for n.                                                                *)
Heard(c) == log[got[c] + 1]
Acks(c, d, n) == d = c /\ Heard(c).src = c /\ Heard(c).node = n

(* A delivery, whatever it does to the canvas. *)
Delivers(c) ==
  /\ got[c] < Len(log)
  /\ ord' = [ord EXCEPT ![c][Heard(c).node] =
                IF Heard(c).src = c THEN OnAck(@, got[c] + 1) ELSE OnPeer(@, got[c] + 1)]
  /\ got' = [got EXCEPT ![c] = @ + 1]
  /\ UNCHANGED <<sent, stamped, log>>

LEMMA ReceiveDelivers ==
  ASSUME NEW c \in Clients, Receive(c)
  PROVE  Delivers(c)
BY DEF Receive, Delivers, Heard

(* An echo acks the oldest unacked cast of its node, that one only, and a  *)
(* peer's mutation acks nothing.                                           *)
LEMMA DeliveryInFlight ==
  ASSUME TypeOK, Fifo, NEW c \in Clients, Delivers(c), NEW d \in Clients, NEW n \in Nodes
  PROVE  IF Acks(c, d, n)
           THEN /\ InFlight(d, n)' = InFlight(d, n) \ {Heard(c).idx}
                /\ Heard(c).idx \in InFlight(d, n)
                /\ \A k \in InFlight(d, n) : Heard(c).idx <= k
                /\ sent[d][Heard(c).idx].val = Heard(c).val
           ELSE InFlight(d, n)' = InFlight(d, n)
<1> DEFINE s == got[c] + 1
           e == Heard(c)
<1>1. /\ log \in Seq(Entry) /\ got \in [Clients -> Nat] /\ stamped \in [Clients -> Nat]
      /\ \A x \in Clients : sent[x] \in Seq(Mutation)
  BY DEF TypeOK
<1>2. s \in 1..Len(log) /\ e = log[s] /\ e \in Entry
  BY <1>1 DEF Delivers, Heard
<1>3. sent' = sent /\ stamped' = stamped /\ log' = log /\ got' = [got EXCEPT ![c] = s]
  BY DEF Delivers
<1>4. CASE d # c
  BY <1>1, <1>3, <1>4 DEF InFlight, Acks
<1>5. CASE d = c
  <2>1. \A j : j \in s..Len(log) <=> j = s \/ j \in (s + 1)..Len(log)
    BY <1>1, <1>2
  <2>2. \A k \in 1..Len(sent[c]) :
           k \in InFlight(c, n)
             <=> /\ sent[c][k].node = n
                 /\ \/ k > stamped[c]
                    \/ e.src = c /\ e.idx = k
                    \/ \E j \in (s + 1)..Len(log) : log[j].src = c /\ log[j].idx = k
    BY <1>2, <2>1 DEF InFlight
  <2>3. \A k \in 1..Len(sent[c]) :
           k \in InFlight(c, n)'
             <=> /\ sent[c][k].node = n
                 /\ \/ k > stamped[c]
                    \/ \E j \in (s + 1)..Len(log) : log[j].src = c /\ log[j].idx = k
    BY <1>1, <1>3 DEF InFlight
  <2>4. InFlight(c, n) \subseteq 1..Len(sent[c]) /\ InFlight(c, n)' \subseteq 1..Len(sent[c])
    BY <1>3 DEF InFlight
  <2>5. CASE e.src = c
    <3>1. e.idx \in 1..stamped[c] /\ e.idx \in 1..Len(sent[c]) /\ sent[c][e.idx].node = e.node
          /\ sent[c][e.idx].val = e.val
      BY <1>1, <1>2, <2>5, SMTT(20) DEF Fifo
    <3>2. \A j \in (s + 1)..Len(log) : log[j].src = c => log[j].idx > e.idx
      <4> TAKE j \in (s + 1)..Len(log)
      <4>1. j \in 1..Len(log) /\ s < j /\ log[j] \in Entry
        BY <1>1, <1>2
      <4>2. log[j].src = c => e.idx < log[j].idx
        BY <1>2, <2>5, <4>1 DEF Fifo
      <4> QED
        BY <1>2, <4>1, <4>2 DEF Entry
    <3>3. e.idx \notin InFlight(c, n)'
      BY <1>1, <2>3, <3>1, <3>2, SMTT(20)
    <3>4. CASE e.node = n
      <4>1. e.idx \in InFlight(c, n)
        BY <2>2, <2>5, <3>1, <3>4
      <4>2. \A k \in InFlight(c, n) : e.idx <= k
        <5> TAKE k \in InFlight(c, n)
        <5>1. k \in 1..Len(sent[c])
          BY <2>4
        <5>2. \/ k > stamped[c]
              \/ e.idx = k
              \/ \E j \in (s + 1)..Len(log) : log[j].src = c /\ log[j].idx = k
          BY <2>2, <5>1
        <5>3. stamped[c] \in Nat
          BY <1>1
        <5> QED
          BY <3>1, <3>2, <5>1, <5>2, <5>3
      <4>3. \A k \in 1..Len(sent[c]) : k \in InFlight(c, n)' <=> k \in InFlight(c, n) /\ k # e.idx
        BY <2>2, <2>3, <3>3
      <4>4. InFlight(c, n)' = InFlight(c, n) \ {e.idx}
        BY <2>4, <4>3
      <4> QED
        BY <1>5, <2>5, <3>1, <3>4, <4>1, <4>2, <4>4 DEF Acks
    <3>5. CASE e.node # n
      <4>1. \A k \in 1..Len(sent[c]) : k \in InFlight(c, n)' <=> k \in InFlight(c, n)
        BY <2>2, <2>3, <3>1, <3>5
      <4>2. InFlight(c, n)' = InFlight(c, n)
        BY <2>4, <4>1
      <4> QED
        BY <1>5, <3>5, <4>2 DEF Acks
    <3> QED
      BY <3>4, <3>5
  <2>6. CASE e.src # c
    <3>1. \A k \in 1..Len(sent[c]) : k \in InFlight(c, n)' <=> k \in InFlight(c, n)
      BY <2>2, <2>3, <2>6
    <3>2. InFlight(c, n)' = InFlight(c, n)
      BY <2>4, <3>1
    <3> QED
      BY <1>5, <2>6, <3>2 DEF Acks
  <2> QED
    BY <2>5, <2>6
<1> QED
  BY <1>4, <1>5

-----------------------------------------------------------------------------
(* 3. What each action does to the ordering state and the canvas. *)

(* What an edit does to one client's state of one node: everybody else's is unchanged. *)
LEMMA EditEffect ==
  ASSUME TypeOK, NEW c \in Clients, NEW n \in Nodes, NEW v \in NodeStates, Edit(c, n, v),
         NEW d \in Clients, NEW m \in Nodes
  PROVE  IF d = c /\ m = n
           THEN ord'[d][m] = OnLocal(ord[d][m]) /\ canvas'[d][m] = v
           ELSE ord'[d][m] = ord[d][m] /\ canvas'[d][m] = canvas[d][m]
<1>1. ord' = [ord EXCEPT ![c] = [ord[c] EXCEPT ![n] = OnLocal(ord[c][n])]]
  BY DEF Edit
<1>2. canvas' = [canvas EXCEPT ![c] = [canvas[c] EXCEPT ![n] = v]]
  BY DEF Edit
<1>3. ord \in [Clients -> [Nodes -> OrderState]] /\ canvas \in [Clients -> [Nodes -> NodeStates]]
  BY DEF TypeOK
<1> QED
  BY <1>1, <1>2, <1>3

(* The same for a lapsed TTL: it changes one flag and no canvas. *)
LEMMA LapseEffect ==
  ASSUME TypeOK, NEW c \in Clients, NEW n \in Nodes, TtlLapses(c, n),
         NEW d \in Clients, NEW m \in Nodes
  PROVE  ord'[d][m] = IF d = c /\ m = n THEN Lapse(ord[d][m]) ELSE ord[d][m]
<1>1. ord' = [ord EXCEPT ![c] = [ord[c] EXCEPT ![n] = Lapse(ord[c][n])]]
  BY DEF TtlLapses
<1>2. ord \in [Clients -> [Nodes -> OrderState]]
  BY DEF TypeOK
<1> QED
  BY <1>1, <1>2

(* Whether the mutation that reaches c next is applied. *)
Applies(c) ==
  IF Heard(c).src = c THEN AckApplies(ord[c][Heard(c).node], got[c] + 1)
                      ELSE PeerApplies(ord[c][Heard(c).node], got[c] + 1)

(* The same for a delivery: the node it addresses is judged, the others are left alone. *)
LEMMA DeliveryEffect ==
  ASSUME TypeOK, NEW c \in Clients, Delivers(c), NEW d \in Clients, NEW m \in Nodes
  PROVE  ord'[d][m] = IF d = c /\ m = Heard(c).node
                        THEN IF Heard(c).src = c THEN OnAck(ord[d][m], got[c] + 1)
                                                 ELSE OnPeer(ord[d][m], got[c] + 1)
                        ELSE ord[d][m]
<1> DEFINE e == Heard(c)
           o == ord[c][e.node]
           heard == IF e.src = c THEN OnAck(o, got[c] + 1) ELSE OnPeer(o, got[c] + 1)
<1>1. ord' = [ord EXCEPT ![c] = [ord[c] EXCEPT ![e.node] = heard]]
  BY DEF Delivers
<1>2. ord \in [Clients -> [Nodes -> OrderState]]
  BY DEF TypeOK
<1> HIDE DEF e, heard
<1>3. ord'[d][m] = IF d = c /\ m = e.node THEN heard ELSE ord[d][m]
  BY <1>1, <1>2
<1> QED
  BY <1>3 DEF e, heard

(* And the canvas shows it, if it applies. *)
LEMMA ReceiveEffect ==
  ASSUME TypeOK, NEW c \in Clients, Receive(c), NEW d \in Clients, NEW m \in Nodes
  PROVE  IF d = c /\ m = Heard(c).node
           THEN /\ ord'[d][m] = IF Heard(c).src = c THEN OnAck(ord[d][m], got[c] + 1)
                                                    ELSE OnPeer(ord[d][m], got[c] + 1)
                /\ canvas'[d][m] = IF Applies(c) THEN Heard(c).val ELSE canvas[d][m]
           ELSE ord'[d][m] = ord[d][m] /\ canvas'[d][m] = canvas[d][m]
<1> DEFINE e == Heard(c)
<1>1. canvas' = IF Applies(c) THEN [canvas EXCEPT ![c] = [canvas[c] EXCEPT ![e.node] = e.val]]
                              ELSE canvas
  BY DEF Receive, Heard, Applies
<1>2. canvas \in [Clients -> [Nodes -> NodeStates]]
  BY DEF TypeOK
<1> HIDE DEF e
<1>3. canvas'[d][m] = IF d = c /\ m = e.node /\ Applies(c) THEN e.val ELSE canvas[d][m]
  BY <1>1, <1>2
<1> QED
  BY <1>3, ReceiveDelivers, DeliveryEffect DEF e

(* Where the next mutation stands, and that it is one of the log's. *)
LEMMA HeardType ==
  ASSUME TypeOK, NEW c \in Clients, Delivers(c)
  PROVE  /\ got[c] \in Nat /\ got[c] + 1 \in 1..Len(log) /\ Heard(c) = log[got[c] + 1]
         /\ Heard(c).src \in Clients /\ Heard(c).idx \in Nat
         /\ Heard(c).node \in Nodes /\ Heard(c).val \in NodeStates
<1>1. log \in Seq(Entry) /\ got[c] \in Nat /\ got[c] < Len(log)
  BY DEF TypeOK, Delivers
<1>2. got[c] + 1 \in 1..Len(log)
  BY <1>1
<1>3. Heard(c) \in Entry
  BY <1>1, <1>2 DEF Heard
<1> QED
  BY <1>1, <1>2, <1>3 DEF Heard, Entry

-----------------------------------------------------------------------------
(* 4. Each part of the inductive invariant, step by step. *)

(* A delivery moves nothing but the reader of the log. *)
LEMMA FifoDelivery ==
  ASSUME TypeOK, Fifo, NEW c \in Clients, Delivers(c)
  PROVE  Fifo'
<1>1. got \in [Clients -> Nat] /\ Len(log) \in Nat
  BY DEF TypeOK
<1>2. sent' = sent /\ stamped' = stamped /\ log' = log /\ got' = [got EXCEPT ![c] = got[c] + 1]
      /\ got[c] < Len(log)
  BY DEF Delivers
<1>3. \A d \in Clients : got'[d] <= Len(log)
  BY <1>1, <1>2 DEF Fifo
<1> QED
  BY <1>2, <1>3 DEF Fifo

(* The log keeps each client's casts once each and in order. *)
LEMMA FifoStep == TypeOK /\ Fifo /\ [Next]_vars => Fifo'
<1> SUFFICES ASSUME TypeOK, Fifo, [Next]_vars PROVE Fifo'
  OBVIOUS
<1>0. /\ log \in Seq(Entry) /\ got \in [Clients -> Nat] /\ stamped \in [Clients -> Nat]
      /\ sent \in [Clients -> Seq(Mutation)]
      /\ \A j \in 1..Len(log) : log[j] \in Entry
  BY DEF TypeOK
<1>1. ASSUME NEW c \in Clients, NEW n \in Nodes, NEW v \in NodeStates, Edit(c, n, v)
      PROVE  Fifo'
  <2>1. sent' = [sent EXCEPT ![c] = Append(sent[c], [node |-> n, val |-> v])]
        /\ stamped' = stamped /\ log' = log /\ got' = got
    BY <1>1 DEF Edit
  <2>2. \A d \in Clients : /\ Len(sent[d]) <= Len(sent'[d])
                           /\ \A k \in 1..Len(sent[d]) : sent'[d][k] = sent[d][k]
    BY <1>0, <2>1
  <2>3. \A d \in Clients : stamped[d] <= Len(sent'[d]) /\ got[d] <= Len(log)
    <3> TAKE d \in Clients
    <3>1. stamped[d] <= Len(sent[d]) /\ Len(sent[d]) <= Len(sent'[d]) /\ got[d] <= Len(log)
      BY <2>2 DEF Fifo
    <3>2. stamped[d] \in Nat /\ Len(sent[d]) \in Nat /\ Len(sent'[d]) \in Nat
      BY <1>0, <2>1
    <3> QED
      BY <3>1, <3>2
  <2>4. \A j \in 1..Len(log) : sent'[log[j].src][log[j].idx] = sent[log[j].src][log[j].idx]
    <3> TAKE j \in 1..Len(log)
    <3>1. log[j].src \in Clients /\ log[j].idx \in 1..stamped[log[j].src]
      BY <1>0 DEF Fifo, Entry
    <3>2. stamped[log[j].src] <= Len(sent[log[j].src]) /\ stamped[log[j].src] \in Nat
      BY <1>0, <3>1 DEF Fifo
    <3>3. log[j].idx \in 1..Len(sent[log[j].src])
      BY <1>0, <3>1, <3>2
    <3> QED
      BY <2>2, <3>1, <3>3
  <2>5. stamped' = stamped /\ log' = log /\ got' = got
    BY <2>1
  <2> QED
    BY <2>3, <2>4, <2>5 DEF Fifo
<1>2. ASSUME NEW c \in Clients, Stamp(c)
      PROVE  Fifo'
  <2> DEFINE k == stamped[c] + 1
             j0 == Len(log) + 1
  <2>1. sent' = sent /\ got' = got /\ stamped' = [stamped EXCEPT ![c] = k] /\ k <= Len(sent[c])
    BY <1>0, <1>2 DEF Stamp
  <2>2. /\ Len(log') = j0 /\ log'[j0].src = c /\ log'[j0].idx = k
        /\ log'[j0].node = sent[c][k].node /\ log'[j0].val = sent[c][k].val
    BY <1>0, <1>2 DEF Stamp
  <2>3. \A j \in 1..Len(log) : log'[j] = log[j]
    BY <1>0, <1>2 DEF Stamp
  <2>4. \A d \in Clients : stamped'[d] <= Len(sent[d]) /\ got[d] <= j0 /\ stamped[d] <= stamped'[d]
    BY <1>0, <2>1 DEF Fifo
  <2>5. ASSUME NEW j \in 1..j0
        PROVE  /\ log'[j].idx \in 1..stamped'[log'[j].src]
               /\ sent[log'[j].src][log'[j].idx].node = log'[j].node
               /\ sent[log'[j].src][log'[j].idx].val = log'[j].val
    <3>1. CASE j = j0
      BY <1>0, <2>1, <2>2, <3>1
    <3>2. CASE j # j0
      <4>1. j \in 1..Len(log) /\ log'[j] = log[j]
        BY <1>0, <2>3, <3>2
      <4>2. log[j].src \in Clients /\ log[j].idx \in 1..stamped[log[j].src]
            /\ stamped[log[j].src] <= stamped'[log[j].src]
        BY <1>0, <2>4, <4>1 DEF Fifo, Entry
      <4>3. log[j].idx \in 1..stamped'[log[j].src]
        <5>1. stamped[log[j].src] \in Nat /\ stamped'[log[j].src] \in Nat
          BY <1>0, <2>1, <4>2
        <5> HIDE DEF k, j0
        <5> QED
          BY <4>2, <5>1
      <4> QED
        BY <4>1, <4>3 DEF Fifo
    <3> QED
      BY <3>1, <3>2
  <2>6. ASSUME NEW i \in 1..j0, NEW j \in 1..j0, i < j, log'[i].src = log'[j].src
        PROVE  log'[i].idx < log'[j].idx
    <3>1. i \in 1..Len(log) /\ log'[i] = log[i] /\ log[i].src \in Clients
      BY <1>0, <2>3, <2>6 DEF Entry
    <3>2. CASE j = j0
      <4>1. log[i].src = c /\ log[i].idx \in 1..stamped[c]
        BY <2>2, <2>6, <3>1, <3>2 DEF Fifo
      <4> QED
        BY <1>0, <2>2, <3>1, <3>2, <4>1
    <3>3. CASE j # j0
      <4>1. j \in 1..Len(log) /\ log'[j] = log[j]
        BY <1>0, <2>3, <3>3
      <4> QED
        BY <2>6, <3>1, <4>1 DEF Fifo
    <3> QED
      BY <3>2, <3>3
  <2>7. \A j \in 1..Len(log') :
           /\ log'[j].idx \in 1..stamped'[log'[j].src]
           /\ sent'[log'[j].src][log'[j].idx].node = log'[j].node
           /\ sent'[log'[j].src][log'[j].idx].val = log'[j].val
    BY <2>1, <2>2, <2>5
  <2>8. \A i, j \in 1..Len(log') :
           i < j /\ log'[i].src = log'[j].src => log'[i].idx < log'[j].idx
    BY <2>2, <2>6
  <2>9. \A d \in Clients : stamped'[d] <= Len(sent'[d]) /\ got'[d] <= Len(log')
    BY <2>1, <2>2, <2>4
  <2> QED
    BY <2>7, <2>8, <2>9, Zenon DEF Fifo
<1>3. ASSUME NEW c \in Clients, Receive(c)
      PROVE  Fifo'
  BY <1>3, ReceiveDelivers, FifoDelivery
<1>4. ASSUME NEW c \in Clients, NEW n \in Nodes, TtlLapses(c, n)
      PROVE  Fifo'
  BY <1>4 DEF TtlLapses, Fifo
<1>5. CASE UNCHANGED vars
  BY <1>5 DEF vars, Fifo
<1> QED
  BY <1>1, <1>2, <1>3, <1>4, <1>5 DEF Next

(* A delivery is the last mutation of its node delivered so far. *)
LEMMA SeenDelivery ==
  ASSUME TypeOK, Fifo, SeenIsLast, NEW c \in Clients, Delivers(c)
  PROVE  SeenIsLast'
<1>0. /\ log \in Seq(Entry) /\ got \in [Clients -> Nat]
      /\ \A d \in Clients, m \in Nodes : ord[d][m].seen \in Nat
  BY DEF TypeOK, OrderState
<1> DEFINE s == got[c] + 1
<1>1. log' = log /\ got' = [got EXCEPT ![c] = s]
  BY DEF Delivers
<1> SUFFICES ASSUME NEW d \in Clients, NEW m \in Nodes
             PROVE  /\ ord'[d][m].seen <= got'[d]
                    /\ ord'[d][m].seen > 0 => log[ord'[d][m].seen].node = m
                    /\ \A j \in (ord'[d][m].seen + 1)..got'[d] : log[j].node # m
  BY <1>1 DEF SeenIsLast
<1>2. ord[d][m].seen <= got[d]
  BY DEF SeenIsLast
<1>3. CASE d = c /\ m = Heard(c).node
  <2>1. ord'[d][m].seen = Later(s, ord[d][m].seen)
    <3>1. ord[d][m] \in OrderState /\ s \in Nat
      BY <1>0 DEF TypeOK
    <3>2. ord'[d][m] = OnAck(ord[d][m], s) \/ ord'[d][m] = OnPeer(ord[d][m], s)
      BY <1>3, DeliveryEffect
    <3> QED
      BY <3>1, <3>2, SeenField
  <2>2. ord'[d][m].seen = s
    BY <1>0, <1>2, <1>3, <2>1 DEF Later
  <2>3. log[s].node = m /\ got'[d] = s /\ s \in Nat
    BY <1>0, <1>1, <1>3 DEF Heard
  <2> QED
    BY <2>2, <2>3
<1>4. CASE d = c /\ m # Heard(c).node
  <2>1. ord'[d][m].seen = ord[d][m].seen
    BY <1>4, DeliveryEffect
  <2>2. log[s].node # m /\ got'[d] = s /\ s \in Nat
    BY <1>0, <1>1, <1>4 DEF Heard
  <2>3. \A j \in (ord[d][m].seen + 1)..s : j = s \/ j \in (ord[d][m].seen + 1)..got[d]
    BY <1>0, <1>4
  <2>4. ord[d][m].seen <= s
    BY <1>0, <1>2, <1>4
  <2> QED
    BY <2>1, <2>2, <2>3, <2>4 DEF SeenIsLast
<1>5. CASE d # c
  <2>1. ord'[d][m].seen = ord[d][m].seen
    BY <1>5, DeliveryEffect
  <2>2. got'[d] = got[d]
    BY <1>0, <1>1, <1>5
  <2> QED
    BY <2>1, <2>2 DEF SeenIsLast
<1> QED
  BY <1>3, <1>4, <1>5

(* The recorded position stays that of the last mutation of the node delivered. *)
LEMMA SeenStep == TypeOK /\ Fifo /\ SeenIsLast /\ [Next]_vars => SeenIsLast'
<1> SUFFICES ASSUME TypeOK, Fifo, SeenIsLast, [Next]_vars PROVE SeenIsLast'
  OBVIOUS
<1>0. /\ log \in Seq(Entry) /\ got \in [Clients -> Nat]
      /\ \A d \in Clients, m \in Nodes : ord[d][m].seen \in Nat
  BY DEF TypeOK, OrderState
(* An action that leaves the log, the deliveries and seen alone. *)
<1>1. ASSUME log' = log, got' = got,
             \A d \in Clients, m \in Nodes : ord'[d][m].seen = ord[d][m].seen
      PROVE  SeenIsLast'
  BY <1>1 DEF SeenIsLast
<1>2. ASSUME NEW c \in Clients, NEW n \in Nodes, NEW v \in NodeStates, Edit(c, n, v)
      PROVE  SeenIsLast'
  <2>1. \A d \in Clients, m \in Nodes : ord'[d][m].seen = ord[d][m].seen
    <3> TAKE d \in Clients, m \in Nodes
    <3>1. ord[d][m] \in OrderState
      BY DEF TypeOK
    <3>2. ord'[d][m] = ord[d][m] \/ ord'[d][m] = OnLocal(ord[d][m])
      BY <1>2, EditEffect
    <3> QED
      BY <3>1, <3>2, SeenField
  <2> QED
    BY <1>1, <1>2, <2>1 DEF Edit
<1>3. ASSUME NEW c \in Clients, Stamp(c)
      PROVE  SeenIsLast'
  <2>1. \A j \in 1..Len(log) : log'[j] = log[j]
    BY <1>0, <1>3 DEF Stamp
  <2>2. ord' = ord /\ got' = got
    BY <1>3 DEF Stamp
  <2> SUFFICES ASSUME NEW d \in Clients, NEW m \in Nodes
               PROVE  /\ ord[d][m].seen <= got[d]
                      /\ ord[d][m].seen > 0 => log'[ord[d][m].seen].node = m
                      /\ \A j \in (ord[d][m].seen + 1)..got[d] : log'[j].node # m
    BY <2>2 DEF SeenIsLast
  <2>3. ord[d][m].seen <= got[d] /\ got[d] <= Len(log) /\ Len(log) \in Nat
    BY <1>0 DEF SeenIsLast, Fifo
  <2>4. ord[d][m].seen > 0 => ord[d][m].seen \in 1..Len(log)
    BY <1>0, <2>3
  <2>5. \A j \in (ord[d][m].seen + 1)..got[d] : j \in 1..Len(log)
    BY <1>0, <2>3
  <2> QED
    BY <2>1, <2>3, <2>4, <2>5 DEF SeenIsLast
<1>4. ASSUME NEW c \in Clients, Receive(c)
      PROVE  SeenIsLast'
  BY <1>4, ReceiveDelivers, SeenDelivery
<1>5. ASSUME NEW c \in Clients, NEW n \in Nodes, TtlLapses(c, n)
      PROVE  SeenIsLast'
  <2>1. \A d \in Clients, m \in Nodes : ord'[d][m].seen = ord[d][m].seen
    <3> TAKE d \in Clients, m \in Nodes
    <3>1. ord[d][m] \in OrderState
      BY DEF TypeOK
    <3>2. ord'[d][m] = ord[d][m] \/ ord'[d][m] = Lapse(ord[d][m])
      BY <1>5, LapseEffect
    <3> QED
      BY <3>1, <3>2, SeenField
  <2> QED
    BY <1>1, <1>5, <2>1 DEF TtlLapses
<1>6. CASE UNCHANGED vars
  BY <1>1, <1>6 DEF vars
<1> QED
  BY <1>2, <1>3, <1>4, <1>5, <1>6 DEF Next

(* A peer's delivery overwrites a value only after its TTL has lapsed. *)
LEMMA SupersededDelivery ==
  ASSUME TypeOK, SupersededIsStale, NEW c \in Clients, Delivers(c)
  PROVE  SupersededIsStale'
<1> SUFFICES ASSUME NEW d \in Clients, NEW m \in Nodes, ord'[d][m].superseded
             PROVE  ord'[d][m].stale /\ ord'[d][m].count > 0
  BY DEF SupersededIsStale
<1>0. /\ ord[d][m] \in OrderState
      /\ ord[d][m].superseded => ord[d][m].stale /\ ord[d][m].count > 0
  BY DEF TypeOK, SupersededIsStale
<1>1. CASE ord'[d][m] = ord[d][m]
  BY <1>0, <1>1
<1>2. CASE ord'[d][m] = OnAck(ord[d][m], got[c] + 1)
  BY <1>0, <1>2 DEF OnAck, OrderState
<1>3. CASE ord'[d][m] = OnPeer(ord[d][m], got[c] + 1)
  BY <1>0, <1>3 DEF OnPeer, PeerApplies, Suppressing, OrderState
<1> QED
  BY <1>1, <1>2, <1>3, DeliveryEffect

(* A value is overwritten only after its TTL has lapsed, and only while unacked. *)
LEMMA SupersededStep == TypeOK /\ SupersededIsStale /\ [Next]_vars => SupersededIsStale'
<1> SUFFICES ASSUME TypeOK, SupersededIsStale, [Next]_vars,
                    NEW d \in Clients, NEW m \in Nodes, ord'[d][m].superseded
             PROVE  ord'[d][m].stale /\ ord'[d][m].count > 0
  BY DEF SupersededIsStale
<1>0. /\ ord[d][m] \in OrderState
      /\ ord[d][m].superseded => ord[d][m].stale /\ ord[d][m].count > 0
  BY DEF TypeOK, SupersededIsStale
<1>1. ASSUME NEW c \in Clients, NEW n \in Nodes, NEW v \in NodeStates, Edit(c, n, v)
      PROVE  ord'[d][m].stale /\ ord'[d][m].count > 0
  <2>1. CASE ord'[d][m] = ord[d][m]
    BY <1>0, <2>1
  <2>2. CASE ord'[d][m] = OnLocal(ord[d][m])
    BY <2>2 DEF OnLocal
  <2> QED
    BY <1>1, <2>1, <2>2, EditEffect
<1>2. ASSUME NEW c \in Clients, Stamp(c)
      PROVE  ord'[d][m].stale /\ ord'[d][m].count > 0
  BY <1>0, <1>2 DEF Stamp
<1>3. ASSUME NEW c \in Clients, Receive(c)
      PROVE  ord'[d][m].stale /\ ord'[d][m].count > 0
  BY <1>3, ReceiveDelivers, SupersededDelivery DEF SupersededIsStale
<1>4. ASSUME NEW c \in Clients, NEW n \in Nodes, TtlLapses(c, n)
      PROVE  ord'[d][m].stale /\ ord'[d][m].count > 0
  <2>1. CASE ord'[d][m] = ord[d][m]
    BY <1>0, <2>1
  <2>2. CASE ord'[d][m] = Lapse(ord[d][m])
    BY <1>0, <2>2 DEF Lapse, OrderState
  <2> QED
    BY <1>4, <2>1, <2>2, LapseEffect
<1>5. CASE UNCHANGED vars
  BY <1>0, <1>5 DEF vars
<1> QED
  BY <1>1, <1>2, <1>3, <1>4, <1>5 DEF Next

(* An echo takes one from the count, a peer's mutation none. *)
LEMMA CountDelivery ==
  ASSUME TypeOK, Fifo, PendingMatchesInFlight, NEW c \in Clients, Delivers(c)
  PROVE  PendingMatchesInFlight'
<1> SUFFICES ASSUME NEW d \in Clients, NEW m \in Nodes
             PROVE  ord'[d][m].count = Cardinality(InFlight(d, m)')
  BY DEF PendingMatchesInFlight
<1> DEFINE F == InFlight(d, m)
<1>0. /\ ord[d][m] \in OrderState /\ ord[d][m].count \in Nat
      /\ ord[d][m].count = Cardinality(F)
      /\ IsFiniteSet(F)
  BY InFlightFinite DEF TypeOK, OrderState, PendingMatchesInFlight
<1>1. CASE Acks(c, d, m)
  <2>1. InFlight(d, m)' = F \ {Heard(c).idx} /\ Heard(c).idx \in F
    BY <1>1, DeliveryInFlight
  <2>2. Cardinality(F \ {Heard(c).idx}) = Cardinality(F) - 1
    BY <1>0, <2>1, FS_RemoveElement
  <2>3. Cardinality(F) # 0
    BY <1>0, <2>1, FS_EmptySet
  <2>4. ord'[d][m] = OnAck(ord[d][m], got[c] + 1)
    BY <1>1, DeliveryEffect DEF Acks
  <2>5. OnAck(ord[d][m], got[c] + 1).count = ord[d][m].count - 1
    BY <1>0, <2>3 DEF OnAck
  <2> QED
    BY <1>0, <2>1, <2>2, <2>4, <2>5
<1>2. CASE ~Acks(c, d, m)
  <2>1. InFlight(d, m)' = F
    BY <1>2, DeliveryInFlight
  <2>2. ord'[d][m] = ord[d][m] \/ ord'[d][m] = OnPeer(ord[d][m], got[c] + 1)
    BY <1>2, DeliveryEffect DEF Acks
  <2>3. ord'[d][m].count = ord[d][m].count
    BY <2>2 DEF OnPeer
  <2> QED
    BY <1>0, <2>1, <2>3
<1> QED
  BY <1>1, <1>2

(* The count of unacked casts follows the set of casts in flight. *)
LEMMA CountStep ==
  TypeOK /\ Fifo /\ PendingMatchesInFlight /\ [Next]_vars => PendingMatchesInFlight'
<1> SUFFICES ASSUME TypeOK, Fifo, PendingMatchesInFlight, [Next]_vars,
                    NEW d \in Clients, NEW m \in Nodes
             PROVE  ord'[d][m].count = Cardinality(InFlight(d, m)')
  BY DEF PendingMatchesInFlight
<1> DEFINE F == InFlight(d, m)
<1>0. /\ ord[d][m] \in OrderState /\ ord[d][m].count \in Nat
      /\ ord[d][m].count = Cardinality(F)
      /\ IsFiniteSet(F) /\ F \subseteq 1..Len(sent[d])
  BY InFlightFinite DEF TypeOK, OrderState, PendingMatchesInFlight
<1>1. ASSUME NEW c \in Clients, NEW n \in Nodes, NEW v \in NodeStates, Edit(c, n, v)
      PROVE  ord'[d][m].count = Cardinality(InFlight(d, m)')
  <2>1. CASE d = c /\ m = n
    <3> DEFINE k0 == Len(sent[c]) + 1
    <3>1. InFlight(d, m)' = F \cup {k0}
      BY <1>1, <2>1, EditInFlight
    <3>2. k0 \notin F
      <4>1. Len(sent[c]) \in Nat
        BY DEF TypeOK
      <4> QED
        BY <1>0, <2>1, <4>1
    <3>3. Cardinality(F \cup {k0}) = Cardinality(F) + 1
      BY <1>0, <3>2, FS_AddElement
    <3>4. ord'[d][m].count = ord[d][m].count + 1
      <4>1. ord'[d][m] = OnLocal(ord[d][m])
        BY <1>1, <2>1, EditEffect
      <4> QED
        BY <4>1 DEF OnLocal
    <3> QED
      BY <1>0, <3>1, <3>3, <3>4
  <2>2. CASE ~(d = c /\ m = n)
    BY <1>0, <1>1, <2>2, EditEffect, EditInFlight
  <2> QED
    BY <2>1, <2>2
<1>2. ASSUME NEW c \in Clients, Stamp(c)
      PROVE  ord'[d][m].count = Cardinality(InFlight(d, m)')
  BY <1>0, <1>2, StampInFlight DEF Stamp
<1>3. ASSUME NEW c \in Clients, Receive(c)
      PROVE  ord'[d][m].count = Cardinality(InFlight(d, m)')
  BY <1>3, ReceiveDelivers, CountDelivery DEF PendingMatchesInFlight
<1>4. ASSUME NEW c \in Clients, NEW n \in Nodes, TtlLapses(c, n)
      PROVE  ord'[d][m].count = Cardinality(InFlight(d, m)')
  <2>1. InFlight(d, m)' = F
    BY <1>4 DEF TtlLapses, InFlight
  <2>2. ord'[d][m] = ord[d][m] \/ ord'[d][m] = Lapse(ord[d][m])
    BY <1>4, LapseEffect
  <2>3. ord'[d][m].count = ord[d][m].count
    BY <1>0, <2>2 DEF Lapse, OrderState
  <2> QED
    BY <1>0, <2>1, <2>3
<1>5. CASE UNCHANGED vars
  BY <1>0, <1>5 DEF vars, InFlight
<1> QED
  BY <1>1, <1>2, <1>3, <1>4, <1>5 DEF Next

(* What a client may take for the state of a node: the value of its latest *)
(* unacked cast or, once that is overwritten or there is none, what the    *)
(* total order told it.                                                    *)
Holds(d, m, b) ==
  IF ord[d][m].superseded \/ ord[d][m].count = 0
    THEN b = OrderedValue(m, ord[d][m].seen)
    ELSE \A k \in InFlight(d, m) :
            (\A i \in InFlight(d, m) : i <= k) => b = sent[d][k].val

(* What the four structural parts say of one node of one client. *)
LEMMA NodeFacts ==
  ASSUME TypeOK, Fifo, SeenIsLast, PendingMatchesInFlight, SupersededIsStale,
         NEW d \in Clients, NEW m \in Nodes
  PROVE  /\ ord[d][m] \in OrderState /\ ord[d][m].seen \in Nat /\ ord[d][m].count \in Nat
         /\ got[d] \in Nat /\ Len(log) \in Nat
         /\ ord[d][m].seen <= got[d] /\ got[d] <= Len(log)
         /\ ord[d][m].count = Cardinality(InFlight(d, m)) /\ IsFiniteSet(InFlight(d, m))
         /\ InFlight(d, m) \subseteq 1..Len(sent[d])
         /\ ord[d][m].count = 0 <=> InFlight(d, m) = {}
         /\ ord[d][m].superseded => ord[d][m].stale /\ ord[d][m].count > 0
<1>1. ord[d][m] \in OrderState /\ got[d] \in Nat /\ Len(log) \in Nat
  BY DEF TypeOK
<1>2. ord[d][m].seen \in Nat /\ ord[d][m].count \in Nat
  BY <1>1 DEF OrderState
<1>3. ord[d][m].seen <= got[d] /\ got[d] <= Len(log)
  BY DEF SeenIsLast, Fifo
<1>4. IsFiniteSet(InFlight(d, m)) /\ InFlight(d, m) \subseteq 1..Len(sent[d])
  BY InFlightFinite
<1>5. ord[d][m].count = Cardinality(InFlight(d, m))
  BY DEF PendingMatchesInFlight
<1>6. ord[d][m].count = 0 <=> InFlight(d, m) = {}
  BY <1>4, <1>5, FS_EmptySet
<1> QED
  BY <1>1, <1>2, <1>3, <1>4, <1>5, <1>6 DEF SupersededIsStale

(* A step that leaves what the client waits for and was told alone. *)
LEMMA HoldsFrame ==
  ASSUME NEW d \in Clients, NEW m \in Nodes, NEW b, Holds(d, m, b),
         ord'[d][m].superseded = ord[d][m].superseded,
         ord'[d][m].count = ord[d][m].count,
         InFlight(d, m)' = InFlight(d, m),
         OrderedValue(m, ord[d][m].seen)' = OrderedValue(m, ord[d][m].seen),
         \A k \in InFlight(d, m) : sent'[d][k] = sent[d][k]
  PROVE  Holds(d, m, b)'
BY DEF Holds

(* A stamp tells no client anything. *)
LEMMA HoldsStamp ==
  ASSUME TypeOK, Fifo, SeenIsLast, PendingMatchesInFlight, SupersededIsStale,
         NEW c \in Clients, Stamp(c),
         NEW d \in Clients, NEW m \in Nodes, NEW b, Holds(d, m, b)
  PROVE  Holds(d, m, b)'
<1> DEFINE o == ord[d][m]
<1>1. ord' = ord /\ sent' = sent /\ InFlight(d, m)' = InFlight(d, m)
  BY StampInFlight DEF Stamp
<1>2. o.seen # 0 => log'[o.seen] = log[o.seen]
  <2>1. \A j \in 1..Len(log) : log'[j] = log[j]
    BY DEF Stamp, TypeOK
  <2>2. o.seen # 0 => o.seen \in 1..Len(log)
    BY NodeFacts
  <2> QED
    BY <2>1, <2>2
<1> QED
  BY <1>1, <1>2, HoldsFrame DEF OrderedValue

(* Nor does a lapsed TTL. *)
LEMMA HoldsLapse ==
  ASSUME TypeOK, NEW c \in Clients, NEW n \in Nodes, TtlLapses(c, n),
         NEW d \in Clients, NEW m \in Nodes, NEW b, Holds(d, m, b)
  PROVE  Holds(d, m, b)'
<1>1. sent' = sent /\ log' = log /\ InFlight(d, m)' = InFlight(d, m)
  BY DEF TtlLapses, InFlight
<1>2. ord'[d][m] = ord[d][m] \/ ord'[d][m] = Lapse(ord[d][m])
  BY LapseEffect
<1>3. ord[d][m] \in OrderState
  BY DEF TypeOK
<1>4. /\ ord'[d][m].superseded = ord[d][m].superseded
      /\ ord'[d][m].count = ord[d][m].count
      /\ ord'[d][m].seen = ord[d][m].seen
  BY <1>2, <1>3 DEF Lapse, OrderState
<1> QED
  BY <1>1, <1>4, HoldsFrame DEF OrderedValue

(* A delivery: what applies is held from now on, and what is dropped       *)
(* changes nothing.  The ack of the last unacked cast is what the order    *)
(* says from now on.                                                       *)
LEMMA HoldsDelivery ==
  ASSUME TypeOK, Fifo, SeenIsLast, PendingMatchesInFlight, SupersededIsStale,
         NEW c \in Clients, Delivers(c),
         NEW d \in Clients, NEW m \in Nodes, NEW b, Holds(d, m, b), NEW w,
         w = IF d = c /\ m = Heard(c).node /\ Applies(c) THEN Heard(c).val ELSE b
  PROVE  Holds(d, m, w)'
<1> DEFINE o == ord[d][m]
           F == InFlight(d, m)
           s == got[c] + 1
           e == Heard(c)
<1>1. log' = log /\ sent' = sent
  BY DEF Delivers
<1>2. /\ o \in OrderState /\ o.seen \in Nat /\ o.count \in Nat /\ got[d] \in Nat
      /\ o.seen <= got[d] /\ o.count = Cardinality(F) /\ IsFiniteSet(F)
      /\ o.count = 0 <=> F = {}
      /\ o.superseded => o.stale /\ o.count > 0
  BY NodeFacts
<1>3. CASE ~(d = c /\ m = e.node)
  <2>1. ord'[d][m] = o
    BY <1>3, DeliveryEffect
  <2>2. InFlight(d, m)' = F
    BY <1>3, DeliveryInFlight DEF Acks
  <2>3. w = b
    BY <1>3
  <2> QED
    BY <1>1, <2>1, <2>2, <2>3, HoldsFrame DEF OrderedValue
<1>4. CASE d = c /\ m = e.node
  <2>1. s \in Nat /\ s > o.seen /\ s # 0 /\ log[s] = e
    <3>1. s = got[d] + 1 /\ log[s] = e
      BY <1>4 DEF Heard
    <3> HIDE DEF o, F, s, e
    <3> QED
      BY <1>2, <3>1
  <2>2. ord'[d][m].seen = s => OrderedValue(m, ord[d][m].seen)' = e.val
    BY <1>1, <2>1 DEF OrderedValue
  <2>3. CASE e.src = c
    <3>1. ord'[d][m] = OnAck(o, s) /\ w = IF AckApplies(o, s) THEN e.val ELSE b
      BY <1>4, <2>3, DeliveryEffect DEF Applies
    <3>2. /\ InFlight(d, m)' = F \ {e.idx} /\ e.idx \in F
          /\ \A k \in F : e.idx <= k
          /\ sent[d][e.idx].val = e.val
      BY <1>4, <2>3, DeliveryInFlight DEF Acks
    <3>3. o.count > 0 /\ OnAck(o, s).seen = s /\ OnAck(o, s).count = o.count - 1
      BY <1>2, <2>1, <3>2 DEF OnAck, Later
    <3>4. CASE o.superseded
      <4>1. w = e.val
        BY <2>1, <3>1, <3>4 DEF AckApplies, Current
      <4>2. OnAck(o, s).superseded \/ OnAck(o, s).count = 0
        BY <3>3, <3>4 DEF OnAck
      <4> QED
        BY <2>2, <3>1, <3>3, <4>1, <4>2 DEF Holds
    <3>5. CASE ~o.superseded
      <4>1. w = b /\ ~OnAck(o, s).superseded
        BY <3>1, <3>5 DEF AckApplies, OnAck
      <4>2. \A k \in F : (\A i \in F : i <= k) => b = sent[d][k].val
        BY <3>3, <3>5 DEF Holds
      <4>3. CASE o.count = 1
        <5>1. F \ {e.idx} = {}
          <6> HIDE DEF F
          <6>0. IsFiniteSet(F) /\ Cardinality(F) = 1 /\ e.idx \in F
            BY <1>2, <3>2, <4>3
          <6>1. IsFiniteSet(F \ {e.idx}) /\ Cardinality(F \ {e.idx}) = 1 - 1
            BY <6>0, FS_RemoveElement, Zenon
          <6> QED
            BY <6>1, FS_EmptySet
        <5>2. b = e.val
          BY <3>2, <4>2, <5>1
        <5> QED
          BY <2>2, <3>1, <3>3, <4>1, <4>3, <5>2 DEF Holds
      <4>4. CASE o.count # 1
        <5>1. OnAck(o, s).count # 0
          BY <1>2, <3>3, <4>4
        <5>2. ASSUME NEW k \in F \ {e.idx}, \A i \in F \ {e.idx} : i <= k
              PROVE  b = sent[d][k].val
          BY <3>2, <4>2, <5>2
        <5> QED
          BY <1>1, <3>1, <3>2, <4>1, <5>1, <5>2 DEF Holds
      <4> QED
        BY <4>3, <4>4
    <3> QED
      BY <3>4, <3>5
  <2>4. CASE e.src # c
    <3>1. ord'[d][m] = OnPeer(o, s) /\ w = IF PeerApplies(o, s) THEN e.val ELSE b
      BY <1>4, <2>4, DeliveryEffect DEF Applies
    <3>2. InFlight(d, m)' = F
      BY <2>4, DeliveryInFlight DEF Acks
    <3>3. OnPeer(o, s).seen = s /\ OnPeer(o, s).count = o.count
      BY <1>2, <2>1 DEF OnPeer, Later
    <3>4. CASE PeerApplies(o, s)
      <4>1. OnPeer(o, s).superseded \/ OnPeer(o, s).count = 0
        BY <1>2, <3>3, <3>4 DEF OnPeer
      <4> QED
        BY <2>2, <3>1, <3>3, <3>4, <4>1 DEF Holds
    <3>5. CASE ~PeerApplies(o, s)
      <4>1. o.count > 0 /\ ~o.stale /\ ~o.superseded
        BY <1>2, <2>1, <3>5 DEF PeerApplies, Current, Suppressing
      <4>2. ~OnPeer(o, s).superseded /\ OnPeer(o, s).count # 0
        BY <1>2, <3>3, <3>5, <4>1 DEF OnPeer
      <4> QED
        BY <1>1, <1>2, <3>1, <3>2, <3>5, <4>1, <4>2 DEF Holds
    <3> QED
      BY <3>4, <3>5
  <2> QED
    BY <2>3, <2>4
<1> QED
  BY <1>3, <1>4

(* What a client shows stays its own latest cast or what the order says. *)
LEMMA ShowsStep == IInv /\ [Next]_vars => ShowsOwnOrOrder'
<1> SUFFICES ASSUME IInv, [Next]_vars, NEW d \in Clients, NEW m \in Nodes,
                    NEW b, b = canvas[d][m], NEW w, w = canvas'[d][m]
             PROVE  Holds(d, m, w)'
  BY DEF ShowsOwnOrOrder, Holds
<1> DEFINE o == ord[d][m]
           F == InFlight(d, m)
<1>0. /\ TypeOK /\ Fifo /\ SeenIsLast /\ PendingMatchesInFlight /\ SupersededIsStale
      /\ Holds(d, m, b)
  BY DEF IInv, ShowsOwnOrOrder, Holds
<1>1. ASSUME NEW c \in Clients, NEW n \in Nodes, NEW v \in NodeStates, Edit(c, n, v)
      PROVE  Holds(d, m, w)'
  <2> DEFINE k0 == Len(sent[c]) + 1
  <2>1. log' = log /\ sent' = [sent EXCEPT ![c] = Append(sent[c], [node |-> n, val |-> v])]
        /\ sent \in [Clients -> Seq(Mutation)] /\ F \subseteq 1..Len(sent[d])
    BY <1>0, <1>1, NodeFacts DEF Edit, TypeOK
  <2>2. CASE d = c /\ m = n
    <3>1. ord'[d][m] = OnLocal(o) /\ w = v
      BY <1>0, <1>1, <2>2, EditEffect
    <3>2. ~ord'[d][m].superseded /\ ord'[d][m].count # 0
      BY <1>0, <3>1, NodeFacts DEF OnLocal
    <3>3. InFlight(d, m)' = F \cup {k0}
      BY <1>0, <1>1, <2>2, EditInFlight
    <3>4. \A k \in F \cup {k0} : (\A i \in F \cup {k0} : i <= k) => k = k0
      BY <2>1, <2>2, SMTT(20)
    <3>5. sent'[d][k0].val = v
      BY <2>1, <2>2
    <3> QED
      BY <3>1, <3>2, <3>3, <3>4, <3>5 DEF Holds
  <2>3. CASE ~(d = c /\ m = n)
    <3>1. ord'[d][m] = o /\ w = b /\ InFlight(d, m)' = F
      BY <1>0, <1>1, <2>3, EditEffect, EditInFlight
    <3>2. \A k \in F : sent'[d][k] = sent[d][k]
      BY <2>1
    <3> QED
      BY <1>0, <2>1, <3>1, <3>2, HoldsFrame DEF OrderedValue
  <2> QED
    BY <2>2, <2>3
<1>2. ASSUME NEW c \in Clients, Stamp(c)
      PROVE  Holds(d, m, w)'
  <2>1. w = b
    BY <1>2 DEF Stamp
  <2> QED
    BY <1>0, <1>2, <2>1, HoldsStamp
<1>3. ASSUME NEW c \in Clients, Receive(c)
      PROVE  Holds(d, m, w)'
  <2>1. w = IF d = c /\ m = Heard(c).node /\ Applies(c) THEN Heard(c).val ELSE b
    BY <1>0, <1>3, ReceiveEffect
  <2>2. Delivers(c)
    BY <1>3, ReceiveDelivers
  <2> QED
    BY <1>0, <2>1, <2>2, HoldsDelivery
<1>4. ASSUME NEW c \in Clients, NEW n \in Nodes, TtlLapses(c, n)
      PROVE  Holds(d, m, w)'
  <2>1. w = b
    BY <1>4 DEF TtlLapses
  <2> QED
    BY <1>0, <1>4, <2>1, HoldsLapse
<1>5. CASE UNCHANGED vars
  <2>1. InFlight(d, m)' = F /\ ord' = ord /\ w = b /\ sent' = sent /\ log' = log
    BY <1>5 DEF vars, InFlight
  <2> QED
    BY <1>0, <2>1, HoldsFrame DEF OrderedValue
<1> QED
  BY <1>1, <1>2, <1>3, <1>4, <1>5 DEF Next

-----------------------------------------------------------------------------
(* 5. The theorems. *)

(* The inductive invariant holds initially. *)
LEMMA IInvInit == Init => IInv
<1> SUFFICES ASSUME Init PROVE IInv
  OBVIOUS
<1>1. TypeOK
  BY TypeInit
<1>2. \A c \in Clients, n \in Nodes :
         ord[c][n] = Untouched /\ InFlight(c, n) = {} /\ canvas[c][n] = Saved[n]
  BY DEF Init, InFlight
<1>3. Fifo
  BY DEF Init, Fifo
<1>4. SeenIsLast
  BY <1>2 DEF Init, SeenIsLast, Untouched
<1>5. PendingMatchesInFlight
  <2>1. Cardinality({}) = 0
    BY FS_EmptySet
  <2>2. \A c \in Clients, n \in Nodes : ord[c][n].count = 0
    BY <1>2 DEF Untouched
  <2> QED
    BY <1>2, <2>1, <2>2 DEF PendingMatchesInFlight
<1>6. SupersededIsStale
  BY <1>2 DEF SupersededIsStale, Untouched
<1>7. ShowsOwnOrOrder
  BY <1>2 DEF ShowsOwnOrOrder, Untouched, OrderedValue
<1> QED
  BY <1>1, <1>3, <1>4, <1>5, <1>6, <1>7 DEF IInv

(* Every step preserves the inductive invariant. *)
LEMMA IInvStep == IInv /\ [Next]_vars => IInv'
BY TypeStep, FifoStep, SeenStep, CountStep, SupersededStep, ShowsStep DEF IInv

(* The ordering state of canvas-order.ts, the two channels and the canvas  *)
(* stay in the relation IInv describes, whatever is edited and delivered.  *)
THEOREM Invariant == Spec => []IInv
<1>1. Init => IInv
  BY IInvInit
<1>2. IInv /\ [Next]_vars => IInv'
  BY IInvStep
<1> QED
  BY <1>1, <1>2, PTL DEF Spec

(* The pending count of canvas-order.ts is exactly the number of casts     *)
(* whose echo is still due, so the record is drawn down to nothing.        *)
THEOREM PendingIsExact == Spec => []PendingMatchesInFlight
<1>1. IInv => PendingMatchesInFlight
  BY DEF IInv
<1> QED
  BY <1>1, Invariant, PTL

(* With nothing in flight the count is 0, so the order is shown. *)
LEMMA SettledIfIInv == IInv => SettledShowsOrder
<1> SUFFICES ASSUME IInv, NEW c \in Clients, NEW n \in Nodes, InFlight(c, n) = {}
             PROVE  canvas[c][n] = OrderedValue(n, ord[c][n].seen)
  BY DEF SettledShowsOrder
<1>1. ord[c][n].count = 0
  BY FS_EmptySet DEF IInv, PendingMatchesInFlight
<1> QED
  BY <1>1 DEF IInv, ShowsOwnOrOrder

(* With none of its own echoes of a node due, a client shows what the      *)
(* total order last told it: no lapsed TTL and no late ack leaves it on an *)
(* overruled value (rule 3 of canvas-order.ts).                            *)
THEOREM SettledClientsShowTheOrder == Spec => []SettledShowsOrder
BY Invariant, SettledIfIInv, PTL

(* With nothing about a node under way nobody waits for an echo of it. *)
LEMMA QuietNoEchoDue ==
  ASSUME TypeOK, Fifo, NEW n \in Nodes, Quiet(n), NEW x \in Clients
  PROVE  InFlight(x, n) = {}
<1>1. /\ got[x] \in Nat /\ log \in Seq(Entry) /\ stamped[x] \in Nat
      /\ sent[x] \in Seq(Mutation)
  BY DEF TypeOK
<1> SUFFICES ASSUME NEW k \in InFlight(x, n) PROVE FALSE
  OBVIOUS
<1>2. k \in 1..Len(sent[x]) /\ sent[x][k].node = n
  BY DEF InFlight
<1>3. CASE k > stamped[x]
  BY <1>1, <1>2, <1>3 DEF Quiet
<1>4. CASE \E j \in (got[x] + 1)..Len(log) : log[j].src = x /\ log[j].idx = k
  <2>1. PICK j \in (got[x] + 1)..Len(log) : log[j].src = x /\ log[j].idx = k
    BY <1>4
  <2>2. j \in 1..Len(log)
    BY <1>1, <2>1
  <2>3. log[j].node = n
    BY <1>2, <2>1, <2>2 DEF Fifo
  <2> QED
    BY <2>1, <2>3 DEF Quiet
<1> QED
  BY <1>3, <1>4 DEF InFlight

(* And two clients cannot have seen different last mutations of it. *)
LEMMA QuietSameSeen ==
  ASSUME TypeOK, Fifo, SeenIsLast, NEW n \in Nodes, Quiet(n),
         NEW c \in Clients, NEW d \in Clients
  PROVE  ord[c][n].seen = ord[d][n].seen
<1>1. /\ got \in [Clients -> Nat] /\ log \in Seq(Entry)
      /\ \A x \in Clients : ord[x][n].seen \in Nat
  BY DEF TypeOK, OrderState
<1>2. ASSUME NEW x \in Clients, NEW y \in Clients PROVE ~(ord[x][n].seen < ord[y][n].seen)
  <2> SUFFICES ASSUME ord[x][n].seen < ord[y][n].seen PROVE FALSE
    OBVIOUS
  <2> DEFINE j == ord[y][n].seen
  <2>1. j > 0 /\ j \in Nat /\ ord[x][n].seen + 1 <= j
    BY <1>1, SMTT(20)
  <2>2. log[j].node = n /\ j <= Len(log)
    <3>1. j <= got[y] /\ got[y] <= Len(log) /\ log[j].node = n
      BY <2>1 DEF SeenIsLast, Fifo
    <3> QED
      BY <1>1, <2>1, <3>1
  <2>3. j > got[x]
    BY <1>1, <2>1, <2>2, SMTT(20) DEF SeenIsLast
  <2>4. j \in (got[x] + 1)..Len(log)
    BY <1>1, <2>1, <2>2, <2>3
  <2> QED
    BY <2>2, <2>4 DEF Quiet
<1> QED
  BY <1>1, <1>2

(* If nothing about a node is under way every client shows what the order says. *)
LEMMA ConvergenceIfIInv == IInv => Convergence
<1> SUFFICES ASSUME IInv, NEW n \in Nodes, Quiet(n), NEW c \in Clients, NEW d \in Clients
             PROVE  canvas[c][n] = canvas[d][n]
  BY DEF Convergence
<1>1. ASSUME NEW x \in Clients PROVE canvas[x][n] = OrderedValue(n, ord[x][n].seen)
  BY QuietNoEchoDue, SettledIfIInv DEF SettledShowsOrder, IInv
<1>2. ord[c][n].seen = ord[d][n].seen
  BY QuietSameSeen DEF IInv
<1> QED
  BY <1>1, <1>2

(* Convergence, for any number of clients, nodes and edits: once nothing   *)
(* about a node is in flight, every client shows the same state of it.     *)
THEOREM ClientsConverge == Spec => []Convergence
BY Invariant, ConvergenceIfIInv, PTL

(* Rules 1 and 2 of canvas-order.ts as a property of every step: while an  *)
(* unacked cast of its own suppresses peers, no delivery changes the node. *)
THEOREM NoDeliveryRubberBands == Spec => NoRubberBand
<1>1. IInv /\ [Next]_vars => [\A c \in Clients, n \in Nodes :
                                  Suppressing(ord[c][n]) /\ canvas'[c][n] # canvas[c][n]
                                     => Len(sent'[c]) = Len(sent[c]) + 1]_vars
  <2> SUFFICES ASSUME IInv, Next, NEW d \in Clients, NEW m \in Nodes,
                      Suppressing(ord[d][m]), canvas'[d][m] # canvas[d][m]
               PROVE  Len(sent'[d]) = Len(sent[d]) + 1
    OBVIOUS
  <2>0. TypeOK /\ (ord[d][m].superseded => ord[d][m].stale)
    BY DEF IInv, SupersededIsStale
  <2>1. ASSUME NEW c \in Clients, NEW n \in Nodes, NEW v \in NodeStates, Edit(c, n, v)
        PROVE  Len(sent'[d]) = Len(sent[d]) + 1
    <3>1. d = c
      BY <2>0, <2>1, EditEffect
    <3>2. sent'[c] = Append(sent[c], [node |-> n, val |-> v]) /\ sent[c] \in Seq(Mutation)
      BY <2>0, <2>1 DEF Edit, TypeOK
    <3> QED
      BY <3>1, <3>2
  <2>2. ASSUME NEW c \in Clients, Stamp(c)
        PROVE  Len(sent'[d]) = Len(sent[d]) + 1
    BY <2>2 DEF Stamp
  <2>3. ASSUME NEW c \in Clients, Receive(c)
        PROVE  Len(sent'[d]) = Len(sent[d]) + 1
    <3>1. d = c /\ m = Heard(c).node /\ Applies(c)
      BY <2>0, <2>3, ReceiveEffect
    <3>2. ~PeerApplies(ord[d][m], got[c] + 1) /\ ~AckApplies(ord[d][m], got[c] + 1)
      BY <2>0 DEF PeerApplies, AckApplies, Suppressing
    <3> QED
      BY <3>1, <3>2 DEF Applies
  <2>4. ASSUME NEW c \in Clients, NEW n \in Nodes, TtlLapses(c, n)
        PROVE  Len(sent'[d]) = Len(sent[d]) + 1
    BY <2>4 DEF TtlLapses
  <2> QED
    BY <2>1, <2>2, <2>3, <2>4 DEF Next
<1> QED
  BY <1>1, Invariant, PTL DEF Spec, NoRubberBand
-----------------------------------------------------------------------------
(* 6. CanvasSync implements OptimisticCanvas: every step of it is a step   *)
(* of the promise or changes nothing the promise speaks of.  The inductive *)
(* invariant is needed in two places.  When the last echo of a node comes  *)
(* back the code changes nothing, and the promise says that the client now *)
(* shows that echo: it already does (ShowsOwnOrOrder).  And a client may   *)
(* hold on to a node only while it awaits an echo of it: the count says so *)
(* exactly (PendingMatchesInFlight).                                       *)

(* A client shows its own edit of a node just while OwnEdits says so. *)
LEMMA OwnEditsPrime ==
  ASSUME NEW c \in Clients, NEW n \in Nodes
  PROVE  /\ n \in OwnEdits(c) <=> ord[c][n].count > 0 /\ ~ord[c][n].superseded
         /\ n \in OwnEdits(c)' <=> ord'[c][n].count > 0 /\ ~ord'[c][n].superseded
BY DEF OwnEdits

(* If the ordering state of one node of one client is all that a step      *)
(* changes, the own edits of every other client and node are as before.    *)
LEMMA OwnEditsFrame ==
  ASSUME NEW c \in Clients, NEW n \in Nodes,
         \A d \in Clients, m \in Nodes : ~(d = c /\ m = n) => ord'[d][m] = ord[d][m]
  PROVE  /\ \A d \in Clients : d # c => OwnEdits(d)' = OwnEdits(d)
         /\ n \in OwnEdits(c)' => OwnEdits(c)' = OwnEdits(c) \cup {n}
         /\ n \notin OwnEdits(c)' => OwnEdits(c)' = OwnEdits(c) \ {n}
BY DEF OwnEdits

(* A positive count is an echo still to come. *)
LEMMA CountAwaits ==
  TypeOK /\ PendingMatchesInFlight
     => \A c \in Clients, n \in Nodes : ord[c][n].count > 0 <=> Promise!Awaits(c, n)
<1> SUFFICES ASSUME TypeOK, PendingMatchesInFlight, NEW c \in Clients, NEW n \in Nodes
             PROVE  ord[c][n].count > 0 <=> Promise!Awaits(c, n)
  OBVIOUS
<1>1. Promise!Awaits(c, n) <=> InFlight(c, n) # {}
  BY DEF Promise!Awaits, InFlight
<1>2. IsFiniteSet(InFlight(c, n)) /\ ord[c][n].count = Cardinality(InFlight(c, n))
  BY InFlightFinite DEF PendingMatchesInFlight
<1>3. ord[c][n].count \in Nat
  BY DEF TypeOK, OrderState
<1> QED
  BY <1>1, <1>2, <1>3, FS_EmptySet

(* The same of the state after a step. *)
LEMMA CountAwaitsNext ==
  (TypeOK /\ PendingMatchesInFlight
     => \A c \in Clients, n \in Nodes : ord[c][n].count > 0 <=> Promise!Awaits(c, n))'
BY CountAwaits, PTL

(* The initial states of the two agree: nobody has edited anything. *)
LEMMA PromiseInit == Init => Promise!Init
<1> SUFFICES ASSUME Init PROVE Promise!Init
  OBVIOUS
<1>1. \A c \in Clients : OwnEdits(c) = {}
  BY DEF Init, OwnEdits, Untouched
<1> QED
  BY <1>1 DEF Init, Promise!Init

(* An edit is a write: the node is the author's own from now on. *)
LEMMA EditIsWrite ==
  ASSUME IInv, NEW c \in Clients, NEW n \in Nodes, NEW v \in NodeStates, Edit(c, n, v)
  PROVE  Promise!Write(c, n, v)
<1>0. TypeOK
  BY DEF IInv
<1>1. \A d \in Clients, m \in Nodes :
         IF d = c /\ m = n THEN ord'[d][m] = OnLocal(ord[d][m]) ELSE ord'[d][m] = ord[d][m]
  BY <1>0, EditEffect
<1>2. n \in OwnEdits(c)'
  <2>1. ord'[c][n] = OnLocal(ord[c][n]) /\ ord[c][n].count \in Nat
    BY <1>0, <1>1 DEF TypeOK, OrderState
  <2>2. ord'[c][n].count > 0 /\ ~ord'[c][n].superseded
    BY <2>1 DEF OnLocal
  <2> QED
    BY <2>2, OwnEditsPrime
<1>3. \A d \in Clients : OwnEdits(d)' = IF d = c THEN OwnEdits(c) \cup {n} ELSE OwnEdits(d)
  BY <1>1, <1>2, OwnEditsFrame
<1> DEFINE own == [d \in Clients |-> OwnEdits(d)]
<1>4. own' = [own EXCEPT ![c] = @ \cup {n}]
  BY <1>3
<1> QED
  BY <1>4 DEF Edit, Promise!Write

(* The reflector's stamp is the place in the order. *)
LEMMA StampIsPlace ==
  ASSUME NEW c \in Clients, Stamp(c)
  PROVE  Promise!Place(c)
<1>1. \A d \in Clients : OwnEdits(d)' = OwnEdits(d)
  BY DEF Stamp, OwnEdits
<1> QED
  BY <1>1 DEF Stamp, Promise!Place

(* A delivery is followed or, while a later echo is due, held out against. *)
LEMMA ReceiveIsHear ==
  ASSUME IInv, IInv', NEW c \in Clients, Receive(c)
  PROVE  Promise!Hear(c)
<1>a. Heard(c).node \in Nodes
  BY ReceiveDelivers, HeardType DEF IInv
<1> PICK n \in Nodes : n = Heard(c).node
  BY <1>a
<1> DEFINE e == Heard(c)
           s == got[c] + 1
           o == ord[c][n]
           own == [d \in Clients |-> OwnEdits(d)]
<1>0. TypeOK /\ TypeOK' /\ PendingMatchesInFlight'
  BY DEF IInv
<1>1. /\ got[c] \in Nat /\ s \in 1..Len(log) /\ e = log[s] /\ e.node = n
      /\ e.src \in Clients /\ e.idx \in Nat /\ n \in Nodes /\ e.val \in NodeStates
  BY <1>0, ReceiveDelivers, HeardType
<1>2. /\ ord'[c][n] = IF e.src = c THEN OnAck(o, s) ELSE OnPeer(o, s)
      /\ canvas'[c][n] = IF Applies(c) THEN e.val ELSE canvas[c][n]
  BY <1>0, <1>1, ReceiveEffect
<1>3. \A d \in Clients, m \in Nodes :
         ~(d = c /\ m = n) => ord'[d][m] = ord[d][m] /\ canvas'[d][m] = canvas[d][m]
  BY <1>0, ReceiveEffect
<1>4. /\ \A d \in Clients : d # c => OwnEdits(d)' = OwnEdits(d)
      /\ n \in OwnEdits(c)' => OwnEdits(c)' = OwnEdits(c) \cup {n}
      /\ n \notin OwnEdits(c)' => OwnEdits(c)' = OwnEdits(c) \ {n}
  BY <1>1, <1>3, OwnEditsFrame
<1>5. /\ got[c] < Len(log) /\ got' = [got EXCEPT ![c] = @ + 1]
      /\ sent' = sent /\ stamped' = stamped /\ log' = log
  BY DEF Receive
<1>6. canvas \in [Clients -> [Nodes -> NodeStates]] /\ canvas' \in [Clients -> [Nodes -> NodeStates]]
  BY <1>0 DEF TypeOK
<1>7. /\ o \in OrderState /\ o.count \in Nat /\ o.seen \in Nat /\ o.seen < s
      /\ o.superseded => o.stale /\ o.count > 0
  <2>1. o \in OrderState
    BY <1>0 DEF TypeOK
  <2>2. o.count \in Nat /\ o.seen \in Nat
    BY <2>1 DEF OrderState
  <2>3. o.seen <= got[c] /\ (o.superseded => o.stale /\ o.count > 0)
    BY DEF IInv, SeenIsLast, SupersededIsStale
  <2> QED
    BY <1>1, <2>1, <2>2, <2>3
<1>8. Current(o, s)
  BY <1>1, <1>7 DEF Current
<1>9. Applies(c) <=> IF e.src = c THEN o.superseded ELSE ~Suppressing(o)
  BY <1>8 DEF Applies, AckApplies, PeerApplies
(* What is left as it was is still the client's own, and awaited. *)
<1>10. ASSUME n \in OwnEdits(c)
       PROVE  n \in OwnEdits(c)' \/ canvas'[c][n] = e.val
  <2>1. o.count > 0 /\ ~o.superseded
    BY <1>1, <1>10, OwnEditsPrime
  <2>2. CASE e.src = c
    <3>1. ord'[c][n] = OnAck(o, s)
      BY <1>2, <2>2
    <3>2. ~ord'[c][n].superseded /\ ord'[c][n].count = o.count - 1
      BY <1>7, <2>1, <3>1 DEF OnAck
    <3>3. CASE o.count > 1
      BY <1>1, <1>7, <3>2, <3>3, OwnEditsPrime
    <3>4. CASE o.count = 1
      <4>1. Acks(c, c, n)
        BY <2>2 DEF Acks
      <4>2. /\ InFlight(c, n)' = InFlight(c, n) \ {e.idx}
            /\ e.idx \in InFlight(c, n)
            /\ sent[c][e.idx].val = e.val
        BY <1>0, <1>1, <4>1, ReceiveDelivers, DeliveryInFlight DEF IInv
      <4>3. IsFiniteSet(InFlight(c, n)) /\ Cardinality(InFlight(c, n)) = 1
        BY <1>0, <1>1, <3>4, InFlightFinite DEF IInv, PendingMatchesInFlight
      <4>4. InFlight(c, n) = {e.idx}
        <5> DEFINE F == InFlight(c, n)
        <5> HIDE DEF F
        <5>1. e.idx \in F /\ IsFiniteSet(F) /\ Cardinality(F) = 1
          BY <4>2, <4>3 DEF F
        <5>2. IsFiniteSet(F \ {e.idx}) /\ Cardinality(F \ {e.idx}) = 1 - 1
          BY <5>1, FS_RemoveElement, Zenon
        <5>3. F \ {e.idx} = {}
          BY <5>2, FS_EmptySet
        <5> QED
          BY <5>1, <5>3 DEF F
      <4>5. canvas[c][n] = e.val
        <5>1. \A k \in InFlight(c, n) :
                 (\A i \in InFlight(c, n) : i <= k) => canvas[c][n] = sent[c][k].val
          <6>1. ShowsOwnOrOrder /\ ~(ord[c][n].superseded \/ ord[c][n].count = 0)
            BY <1>7, <2>1 DEF IInv
          <6> QED
            BY <1>1, <6>1 DEF ShowsOwnOrOrder
        <5>2. \A i \in InFlight(c, n) : i <= e.idx
          BY <1>1, <4>4
        <5> QED
          BY <4>2, <5>1, <5>2
      <4> QED
        BY <1>2, <4>5
    <3> QED
      BY <1>7, <2>1, <3>3, <3>4
  <2>3. CASE e.src # c
    <3>1. ord'[c][n] = OnPeer(o, s) /\ ord'[c][n].count = o.count
      BY <1>2, <2>3 DEF OnPeer
    <3>2. CASE Suppressing(o)
      <4>1. ord'[c][n].superseded = o.superseded
        BY <3>1, <3>2 DEF OnPeer, PeerApplies
      <4> QED
        BY <1>1, <2>1, <3>1, <4>1, OwnEditsPrime
    <3>3. CASE ~Suppressing(o)
      BY <1>2, <1>9, <2>3, <3>3
    <3> QED
      BY <3>2, <3>3
  <2> QED
    BY <2>2, <2>3
<1>11. ASSUME n \notin OwnEdits(c)
       PROVE  n \notin OwnEdits(c)' /\ canvas'[c][n] = e.val
  <2>1. o.count = 0 \/ o.superseded
    BY <1>1, <1>7, <1>11, OwnEditsPrime
  <2>2. CASE e.src = c
    <3>1. Acks(c, c, n)
      BY <2>2 DEF Acks
    <3>2. e.idx \in InFlight(c, n)
      BY <1>0, <1>1, <3>1, ReceiveDelivers, DeliveryInFlight DEF IInv
    <3>3. o.count # 0
      <4>1. IsFiniteSet(InFlight(c, n)) /\ o.count = Cardinality(InFlight(c, n))
        BY <1>0, <1>1, InFlightFinite DEF IInv, PendingMatchesInFlight
      <4> QED
        BY <3>2, <4>1, FS_EmptySet
    <3>4. o.superseded
      BY <2>1, <3>3
    <3>5. ord'[c][n] = OnAck(o, s)
      BY <1>2, <2>2
    <3>6. ord'[c][n].count = o.count - 1
          /\ (o.count # 1 => ord'[c][n].superseded = o.superseded)
      BY <1>7, <3>4, <3>5 DEF OnAck
    <3>7. n \notin OwnEdits(c)'
      <4>1. CASE o.count = 1
        BY <3>6, <4>1, OwnEditsPrime
      <4>2. CASE o.count # 1
        BY <3>4, <3>6, <4>2, OwnEditsPrime
      <4> QED
        BY <4>1, <4>2
    <3> QED
      BY <1>2, <1>9, <2>2, <3>4, <3>7
  <2>3. CASE e.src # c
    <3>1. ~Suppressing(o)
      BY <1>7, <2>1 DEF Suppressing
    <3>2. ord'[c][n] = OnPeer(o, s) /\ PeerApplies(o, s)
      BY <1>2, <1>8, <2>3, <3>1 DEF PeerApplies
    <3>3. ord'[c][n].count = o.count /\ (o.count > 0 => ord'[c][n].superseded)
      BY <3>2 DEF OnPeer
    <3>4. n \notin OwnEdits(c)'
      BY <1>1, <1>7, <2>1, <3>3, OwnEditsPrime
    <3> QED
      BY <1>2, <1>9, <2>3, <3>1, <3>4
  <2> QED
    BY <2>2, <2>3
<1>12. CASE n \in OwnEdits(c)' /\ canvas'[c][n] = canvas[c][n]
  <2>1. n \in OwnEdits(c)
    BY <1>11, <1>12
  <2>2. own' = own
    BY <1>4, <1>12, <2>1
  <2>3. canvas' = canvas
    BY <1>3, <1>6, <1>12
  <2>4. Promise!Awaits(c, n)'
    <3>1. ord'[c][n].count > 0
      BY <1>1, <1>12, OwnEditsPrime
    <3> QED
      BY <1>0, <3>1, CountAwaitsNext, Zenon
  <2>5. \E m \in own[c] : log[got[c] + 1].node = m /\ Promise!Awaits(c, m)'
    BY <1>1, <2>1, <2>4
  <2>6. Promise!HoldOn(c)
    BY <1>5, <2>2, <2>3, <2>5 DEF Promise!HoldOn
  <2> QED
    BY <2>6 DEF Promise!Hear
<1>13. CASE n \notin OwnEdits(c)'
  <2>1. canvas'[c][n] = e.val
    BY <1>10, <1>11, <1>13
  <2>2. canvas' = [canvas EXCEPT ![c][n] = e.val]
    BY <1>1, <1>3, <1>6, <2>1
  <2>3. own' = [own EXCEPT ![c] = @ \ {n}]
    BY <1>4, <1>13
  <2>4. Promise!Follow(c)
    BY <1>1, <1>5, <2>2, <2>3 DEF Promise!Follow
  <2> QED
    BY <2>4 DEF Promise!Hear
<1>14. ASSUME n \in OwnEdits(c)', canvas'[c][n] # canvas[c][n]
       PROVE  FALSE
  <2>1. o.count > 0 /\ ~o.superseded /\ Applies(c)
    BY <1>1, <1>2, <1>11, <1>14, OwnEditsPrime
  <2>2. e.src # c /\ ~Suppressing(o)
    BY <1>9, <2>1
  <2>3. ord'[c][n].superseded
    BY <1>2, <1>8, <2>1, <2>2 DEF OnPeer, PeerApplies
  <2> QED
    BY <1>1, <1>14, <2>3, OwnEditsPrime
<1> QED
  BY <1>12, <1>13, <1>14

(* A lapsed TTL changes nothing the promise speaks of. *)
LEMMA LapseIsStutter ==
  ASSUME TypeOK, NEW c \in Clients, NEW n \in Nodes, TtlLapses(c, n)
  PROVE  UNCHANGED Promise!view_etc
<1>1. ASSUME NEW d \in Clients, NEW m \in Nodes
      PROVE  /\ ord'[d][m].count = ord[d][m].count
             /\ ord'[d][m].superseded = ord[d][m].superseded
  <2>1. ord'[d][m] = IF d = c /\ m = n THEN Lapse(ord[d][m]) ELSE ord[d][m]
    BY LapseEffect
  <2>2. ord[d][m] \in OrderState
    BY DEF TypeOK
  <2> QED
    BY <2>1, <2>2 DEF Lapse, OrderState
<1>2. \A d \in Clients : OwnEdits(d)' = OwnEdits(d)
  BY <1>1 DEF OwnEdits
<1> QED
  BY <1>2 DEF TtlLapses, Promise!view_etc

(* The three rules of canvas-order.ts and the reflector implement the      *)
(* promise of OptimisticCanvas: whatever is edited and delivered, a node   *)
(* shows its author's own last edit until he has been told of it, or what  *)
(* the order says, and never goes back on its own from the one to the      *)
(* other.                                                                  *)
THEOREM Refinement == Spec => Promise!Spec
<1>1. Init => Promise!Init
  BY PromiseInit
<1>2. IInv /\ IInv' /\ [Next]_vars => [Promise!Next]_(Promise!view_etc)
  <2> SUFFICES ASSUME IInv, IInv', [Next]_vars
               PROVE  Promise!Next \/ UNCHANGED Promise!view_etc
    OBVIOUS
  <2>1. ASSUME NEW c \in Clients, NEW n \in Nodes, NEW v \in NodeStates, Edit(c, n, v)
        PROVE  Promise!Next
    BY <2>1, EditIsWrite DEF Promise!Next
  <2>2. ASSUME NEW c \in Clients, Stamp(c)
        PROVE  Promise!Next
    BY <2>2, StampIsPlace DEF Promise!Next
  <2>3. ASSUME NEW c \in Clients, Receive(c)
        PROVE  Promise!Next
    BY <2>3, ReceiveIsHear DEF Promise!Next
  <2>4. ASSUME NEW c \in Clients, NEW n \in Nodes, TtlLapses(c, n)
        PROVE  UNCHANGED Promise!view_etc
    BY <2>4, LapseIsStutter DEF IInv
  <2>5. CASE UNCHANGED vars
    BY <2>5 DEF vars, Promise!view_etc, OwnEdits
  <2> QED
    BY <2>1, <2>2, <2>3, <2>4, <2>5 DEF Next
<1> QED
  BY <1>1, <1>2, Invariant, PTL DEF Spec, Promise!Spec
=============================================================================
