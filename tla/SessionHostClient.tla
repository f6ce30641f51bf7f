-------------------------- MODULE SessionHostClient --------------------------
(***************************************************************************)
(* The app's side of the session host (src/src/core/session-host-client.ts)*)
(* for one session name, over connections that break, and the host as the  *)
(* client meets it: SessionHost has the host's own steps, here a request   *)
(* is answered in one, except a kill, which waits for the process to end.  *)
(*                                                                         *)
(* The client is one Node process.  A name has a lane: attaches and        *)
(* detaches run one after the other, each from start to end.  A kill does  *)
(* not take the lane, nor does the replay that restores the attachment on  *)
(* a new connection before any other request may use it.                   *)
(*                                                                         *)
(* A connection that the client drops may still hold requests: the host    *)
(* goes on to take them, unheard, until it sees the connection close.  On  *)
(* the client's connection the host takes a request as soon as it is       *)
(* written, and what happens in between is what happens just before.       *)
(*                                                                         *)
(* Protocol v2.  Pause, size and output are SessionFlow's.  No caller in   *)
(* the app asks for a launch on attach.                                    *)
(***************************************************************************)
EXTENDS Naturals, Sequences, FiniteSets

CONSTANTS
  Subs,         \* the terminals of this app that show the session
  Modes,        \* what a kill may ask for, of KillModes
  Attempts,     \* KILL_CONFIRMATION_ATTEMPTS
  MaxAttaches,  \* bound on the attaches asked for
  MaxKills,     \* bound on the killSession calls
  MaxLosses,    \* bound on the connections and connection attempts lost
  MaxGens       \* bound on the generations spawned

(* The options of killSession: reserve the name for the caller, and expect  *)
(* that nothing lives under it.                                             *)
KillModes == {"plain", "reserve", "absent"}
Reserves(mode) == mode # "plain"

ASSUME ModesAssumption == Modes \subseteq KillModes
ASSUME AttemptsAssumption == Attempts \in Nat \ {0}
ASSUME BoundsAssumption ==
  MaxAttaches \in Nat /\ MaxKills \in Nat /\ MaxLosses \in Nat /\ MaxGens \in Nat

Sockets  == 1..(1 + MaxLosses + MaxKills * (Attempts - 1))
Asked    == 1..MaxAttaches
Gen      == 0..MaxGens
Op       == 0..MaxKills
Who      == {"lane", "kill", "replay"}

VARIABLES
  (* the connection, as the client sees it *)
  sock,       \* this.socket; connections are numbered, 0 is none
  tried,      \* the connections made so far
  losses,     \* those the outside world broke
  replay,     \* the state restoreSocket is restoring; 0 when it is done
  pend,       \* what each party of the client awaits: this.pending
  up,         \* requests on their way, by connection
  down,       \* frames on their way on the client's connection
  (* the client's record of the name *)
  asks,       \* every attachSubscriber call
  entry,      \* state.entries: the call a subscriber's entry is from
  joined,     \* the generation it is attached to, while phase is 'attached'
  obj,        \* sessions.get(name), named by the call that made it
  states,     \* the ClientSessionState objects
  lane,       \* nameTails: the tasks of the name
  task,       \* the locals of the task that runs
  seen,       \* sessionGenerations.get(name)
  token,      \* replacementTokens.get(name)
  barrier,    \* killReplayBarriers.has(name)
  op,         \* killOperations.get(name)
  plans,      \* every KillOperationIdentity
  killing,    \* killsInFlight.get(name): how far, and the attempt
  calls,      \* the killSession calls so far
  (* the host *)
  open,       \* the connections it has not seen closing
  host,       \* its record of the name
  (* history *)
  meant,      \* the generation the kill under way was first aimed at
  dead,       \* the generations the app was told are ended
  dropped     \* the generations a confirmed kill took from their views

netVars    == <<sock, tried, losses, replay, pend, up, down>>
attachVars == <<asks, entry, joined, obj, states, lane, task>>
killVars   == <<token, barrier, op, plans, killing, calls, meant, dead, dropped>>
vars == <<netVars, attachVars, seen, killVars, open, host>>

Request(cmd, arg, gen) == [cmd |-> cmd, arg |-> arg, gen |-> gen]
NoRequest  == Request("none", 0, 0)
Idle       == [st |-> "none", req |-> NoRequest]
Awaits(r)  == [st |-> "await", req |-> r]      \* in ensureConnected
Unsent(r)  == [st |-> "unsent", req |-> r]     \* until the next turn of the loop
NoTask     == [on |-> FALSE, token |-> 0, tries |-> 0]
NoState    == [gen |-> 0, on |-> 0, exited |-> FALSE]
NotKilling == [st |-> "no", op |-> 0, attempt |-> 0]

Init ==
  /\ sock = 0 /\ tried = 0 /\ losses = 0 /\ replay = 0
  /\ pend = [w \in Who |-> Idle]
  /\ up = [s \in Sockets |-> <<>>] /\ down = <<>>
  /\ asks = <<>> /\ lane = <<>> /\ task = NoTask
  /\ entry = [s \in Subs |-> 0] /\ joined = [s \in Subs |-> 0]
  /\ obj = 0 /\ states = [a \in Asked |-> NoState]
  /\ seen = 0 /\ token = 0 /\ barrier = FALSE
  /\ op = 0 /\ plans = <<>> /\ killing = NotKilling /\ calls = 0
  /\ open = {}
  /\ host = [live |-> 0, born |-> 0, by |-> [g \in 1..MaxGens |-> 0], subs |-> {},
             lease |-> 0, dying |-> 0, done |-> {}]
  /\ meant = 0 /\ dead = {} /\ dropped = {}

-----------------------------------------------------------------------------
(* Connections *)

Attached(j) == {s \in Subs : j[s] # 0}
Ready       == sock # 0 /\ replay = 0

(* The connections whose next request is a kill that is under way.          *)
Asks(s, cmd) == s \in open /\ up[s] # <<>> /\ Head(up[s]).req.cmd = cmd
Waiting == {s \in open : Asks(s, "kill") /\ Head(up[s]).req.arg = host.dying}

(* No continuation is left to run; nothing is left to write; the host has   *)
(* nothing to answer, and has seen an idle dropped connection close.        *)
Settled ==
  /\ \A w \in Who : pend[w].st # "lost" /\ (Ready => pend[w].st # "await")
  /\ lane # <<>> => task.on
Written == Settled /\ \A w \in Who : pend[w].st # "unsent"
Flushed ==
  /\ Written
  /\ sock # 0 => up[sock] = <<>> \/ sock \in Waiting
  /\ \A s \in open : s # sock => up[s] # <<>>

Known(o)    == IF o # 0 /\ states[o].gen # 0 THEN states[o].gen ELSE seen

Loses(w) == [pend[w] EXCEPT !.st = "lost"]

(* dropSocket: a request that was written is lost, request() sends one that *)
(* was not on the next connection.  A replay that breaks fails the attempt  *)
(* to connect, and with it whoever awaits it.                               *)
DropSocket_KeepsFrames ==
  /\ sock' = 0
  /\ replay' = 0
  /\ UNCHANGED down

DropSocket ==
  /\ sock' = 0
  /\ replay' = 0
  /\ down' = <<>>

Dropped ==
  [w \in Who |->
     IF w = "replay" THEN Idle
     ELSE CASE pend[w].st = "none" -> Idle
            [] pend[w].st = "await" /\ replay = 0 -> pend[w]
            [] pend[w].st = "unsent" /\ pend[w].req.cmd # "detach" -> Awaits(pend[w].req)
            [] OTHER -> Loses(w)]

Breaks ==
  /\ sock # 0
  /\ losses < MaxLosses
  /\ Settled
  /\ losses' = losses + 1
  /\ DropSocket
  /\ pend' = Dropped
  /\ UNCHANGED <<tried, up, attachVars, seen, killVars, open, host>>

ConnectFails ==
  /\ sock = 0
  /\ losses < MaxLosses
  /\ \E w \in Who : pend[w].st = "await"
  /\ Settled
  /\ losses' = losses + 1
  /\ pend' = [w \in Who |-> IF pend[w].st = "await" THEN Loses(w) ELSE pend[w]]
  /\ UNCHANGED <<sock, tried, replay, up, down, attachVars, seen, killVars, open, host>>

(* ensureConnected, asked for or from the reconnect timer, to where         *)
(* restoreSocket asks the host for the generation it knows, unless a kill   *)
(* may have ended it.                                                       *)
Replays == Attached(joined) # {} /\ ~barrier

Connect ==
  /\ sock = 0
  /\ Attached(joined) # {} \/ \E w \in Who : pend[w].st = "await"
  /\ Settled
  /\ tried' = tried + 1
  /\ sock' = tried + 1
  /\ open' = open \union {tried + 1}
  /\ replay' = IF Replays THEN obj ELSE 0
  /\ pend' = IF Replays
             THEN [pend EXCEPT !["replay"] = Unsent(Request("existing", 0, Known(obj)))]
             ELSE pend
  /\ UNCHANGED <<losses, up, down, attachVars, seen, killVars, host>>

Resend(w) ==
  /\ pend[w].st = "await"
  /\ pend[w].req # NoRequest
  /\ Ready
  /\ pend' = [pend EXCEPT ![w] = Unsent(@.req)]
  /\ UNCHANGED <<sock, tried, losses, replay, up, down, attachVars, seen, killVars, open, host>>

Write(w) ==
  /\ pend[w].st = "unsent"
  /\ Settled
  /\ pend' = [pend EXCEPT ![w].st = "sent"]
  /\ up' = [up EXCEPT ![sock] = Append(@, [who |-> w, req |-> pend[w].req])]
  /\ UNCHANGED <<sock, tried, losses, replay, down, attachVars, seen, killVars, open, host>>

(* The frame at the head of the connection, once it is the client's turn.   *)
Hears(w) == down # <<>> /\ Head(down).who = w /\ Flushed

-----------------------------------------------------------------------------
(* Attaching and detaching: the lane of the name *)

Attach(s, create) ==
  LET a == Len(asks) + 1 IN
  /\ ~barrier
  /\ entry[s] = 0
  /\ Len(asks) < MaxAttaches
  /\ Flushed
  /\ obj'   = IF obj = 0 THEN a ELSE obj
  /\ asks'  = Append(asks, [sub |-> s, create |-> create, state |-> obj'])
  /\ entry' = [entry EXCEPT ![s] = a]
  /\ lane'  = Append(lane, [does |-> "attach", of |-> a])
  /\ UNCHANGED <<netVars, joined, states, task, seen, killVars, open, host>>

DetachOf(o) == [does |-> "detach", of |-> o]

(* unsubscribe *)
Unsubscribe(s) ==
  /\ entry[s] # 0
  /\ Flushed
  /\ entry'  = [entry EXCEPT ![s] = 0]
  /\ joined' = [joined EXCEPT ![s] = 0]
  /\ IF Attached(entry') = {}
     THEN obj' = 0 /\ lane' = Append(lane, DetachOf(obj))
     ELSE UNCHANGED <<obj, lane>>
  /\ UNCHANGED <<netVars, asks, states, task, seen, killVars, open, host>>

Runs(does) == lane # <<>> /\ Head(lane).does = does /\ task.on
Turn(does) == lane # <<>> /\ Head(lane).does = does /\ ~task.on

TaskEnds == task' = NoTask /\ lane' = Tail(lane) /\ pend' = [pend EXCEPT !["lane"] = Idle]

(* teardownRetiredState, in the attach task that owes it *)
TaskDetaches(o) ==
  /\ task' = NoTask
  /\ lane' = <<DetachOf(o)>> \o Tail(lane)
  /\ pend' = [pend EXCEPT !["lane"] = Idle]

Mine(a) == entry[asks[a].sub] = a

AttachBegins ==
  /\ Turn("attach")
  /\ IF Mine(Head(lane).of)
     THEN /\ task' = [NoTask EXCEPT !.on = TRUE]
          /\ pend' = [pend EXCEPT !["lane"] = Awaits(NoRequest)]
          /\ UNCHANGED lane
     ELSE TaskEnds
  /\ UNCHANGED <<sock, tried, losses, replay, up, down, asks, entry, joined, obj, states>>
  /\ UNCHANGED <<seen, killVars, open, host>>

(* The attach, connected: what it asks for is fixed here.                   *)
AttachAsks ==
  /\ Runs("attach")
  /\ pend["lane"] = Awaits(NoRequest)
  /\ Ready
  /\ LET ask  == asks[Head(lane).of]
         warm == ~ask.create \/ (obj = ask.state /\ Attached(joined) # {})
         tok  == IF warm THEN 0 ELSE token
     IN /\ task' = [on |-> TRUE, token |-> tok, tries |-> IF tok # 0 THEN 2 ELSE 1]
        /\ pend' = [pend EXCEPT !["lane"] =
             Unsent(IF warm THEN Request("existing", 0, Known(ask.state))
                            ELSE Request("attach", tok, 0))]
  /\ UNCHANGED <<sock, tried, losses, replay, up, down, asks, entry, joined, obj, states, lane>>
  /\ UNCHANGED <<seen, killVars, open, host>>

(* The catch of the task.                                                   *)
AttachFails(a) ==
  LET o    == asks[a].state
      left == IF Mine(a) THEN [entry EXCEPT ![asks[a].sub] = 0] ELSE entry
      last == obj = o /\ Attached(left) = {}
  IN /\ entry' = left
     /\ obj'   = IF last THEN 0 ELSE obj
     /\ seen'  = IF last /\ states[o].gen \in {0, seen} THEN 0 ELSE seen
     /\ IF last THEN TaskDetaches(o) ELSE TaskEnds
     /\ UNCHANGED <<asks, joined, states, token, op>>

(* The reply.  An attach whose subscriber has left meanwhile is undone,     *)
(* unless another subscriber of the state is attached over the same socket. *)
AttachSucceeds_AlwaysUndone(a, g) ==
  LET o == asks[a].state
      s == asks[a].sub
  IN /\ states' = [states EXCEPT ![o].gen = g, ![o].on = sock]
     /\ seen'   = g
     /\ token'  = IF token = task.token THEN 0 ELSE token
     /\ op'     = IF op = task.token THEN 0 ELSE op
     /\ joined' = IF Mine(a) THEN [joined EXCEPT ![s] = g] ELSE joined
     /\ IF ~Mine(a) THEN TaskDetaches(o) ELSE TaskEnds
     /\ UNCHANGED <<asks, entry, obj>>

AttachSucceeds(a, g) ==
  LET o == asks[a].state
      s == asks[a].sub
  IN /\ states' = [states EXCEPT ![o].gen = g, ![o].on = sock]
     /\ seen'   = g
     /\ token'  = IF token = task.token THEN 0 ELSE token
     /\ op'     = IF op = task.token THEN 0 ELSE op
     /\ joined' = IF Mine(a) THEN [joined EXCEPT ![s] = g] ELSE joined
     /\ IF ~Mine(a) /\ (obj # o \/ Attached(joined) = {}) THEN TaskDetaches(o) ELSE TaskEnds
     /\ UNCHANGED <<asks, entry, obj>>

AttachAnswered ==
  /\ Hears("lane")
  /\ Runs("attach")
  /\ down' = Tail(down)
  /\ LET a == Head(lane).of IN
     IF Head(down).ok /\ ~states[asks[a].state].exited
     THEN AttachSucceeds(a, Head(down).gen)
     ELSE AttachFails(a)
  /\ UNCHANGED <<sock, tried, losses, replay, up, barrier, plans, killing, calls, meant, dead, dropped>>
  /\ UNCHANGED <<open, host>>

(* Only the attach of a reserved replacement is tried again.                *)
AttachLost ==
  /\ Runs("attach")
  /\ pend["lane"].st = "lost"
  /\ IF task.tries > 1
     THEN /\ task' = [task EXCEPT !.tries = @ - 1]
          /\ pend' = [pend EXCEPT !["lane"] = Awaits(@.req)]
          /\ UNCHANGED <<asks, entry, joined, obj, states, lane, seen, token, op>>
     ELSE AttachFails(Head(lane).of)
  /\ UNCHANGED <<sock, tried, losses, replay, up, down, barrier, plans, killing, calls>>
  /\ UNCHANGED <<meant, dead, dropped, open, host>>

DetachBegins ==
  /\ Turn("detach")
  /\ IF sock # 0 /\ states[Head(lane).of].on = sock
     THEN /\ task' = [NoTask EXCEPT !.on = TRUE]
          /\ pend' = [pend EXCEPT !["lane"] = Unsent(Request("detach", 0, 0))]
          /\ UNCHANGED lane
     ELSE TaskEnds
  /\ UNCHANGED <<sock, tried, losses, replay, up, down, asks, entry, joined, obj, states>>
  /\ UNCHANGED <<seen, killVars, open, host>>

DetachAnswered ==
  /\ Hears("lane")
  /\ Runs("detach")
  /\ down' = Tail(down)
  /\ states' = [states EXCEPT ![Head(lane).of].on = 0]
  /\ TaskEnds
  /\ UNCHANGED <<sock, tried, losses, replay, up, asks, entry, joined, obj>>
  /\ UNCHANGED <<seen, killVars, open, host>>

DetachLost ==
  /\ Runs("detach")
  /\ pend["lane"].st = "lost"
  /\ TaskEnds
  /\ UNCHANGED <<sock, tried, losses, replay, up, down, asks, entry, joined, obj, states>>
  /\ UNCHANGED <<seen, killVars, open, host>>

-----------------------------------------------------------------------------
(* Restoring an attachment on a new connection, and its end *)

ReplayEnds == replay' = 0 /\ pend' = [pend EXCEPT !["replay"] = Idle]

ReplayRestores(g) ==
  /\ states' = [states EXCEPT ![replay].gen = g, ![replay].on = sock]
  /\ seen'   = g
  /\ ReplayEnds
  /\ UNCHANGED <<entry, joined, obj>>

ReplayIsStale_Kept == ReplayEnds /\ UNCHANGED <<entry, joined, obj, states, seen>>

(* Its owners left while the host was asked.                                *)
ReplayIsStale ==
  /\ pend' = [pend EXCEPT !["replay"] = Unsent(Request("detach", 0, 0))]
  /\ UNCHANGED <<entry, joined, obj, states, seen, replay>>

(* Every owner of the state is told by onAttachError.                       *)
ReplayRefused ==
  /\ seen'   = 0
  /\ states' = [states EXCEPT ![replay].gen = 0, ![replay].on = 0]
  /\ IF obj = replay
     THEN /\ obj'    = 0
          /\ entry'  = [s \in Subs |-> 0]
          /\ joined' = [s \in Subs |-> 0]
     ELSE UNCHANGED <<entry, joined, obj>>
  /\ ReplayEnds

ReplayAnswered ==
  /\ Hears("replay")
  /\ down' = Tail(down)
  /\ IF pend["replay"].req.cmd = "detach" THEN ReplayEnds /\ UNCHANGED <<entry, joined, obj, states, seen>>
     ELSE IF ~Head(down).ok THEN ReplayRefused
     ELSE IF obj # replay \/ Attached(joined) = {} THEN ReplayIsStale
     ELSE ReplayRestores(Head(down).gen)
  /\ UNCHANGED <<sock, tried, losses, up, asks, lane, task, killVars, open, host>>

(* The attach of this state that waits for its reply: preAckEntries.        *)
PreAck ==
  /\ Runs("attach")
  /\ task.tries > 0
  /\ LET a == Head(lane).of IN Mine(a) /\ asks[a].state = obj

(* handleFrame drops the exit of another generation than the one it knows.  *)
Concerns(g) == obj # 0 /\ (Known(obj) = g \/ (Known(obj) = 0 /\ PreAck))

(* handleExit *)
ExitArrives ==
  /\ Hears("exit")
  /\ down' = Tail(down)
  /\ LET g    == Head(down).gen
         told == Attached(joined)
     IN IF Concerns(g)
        THEN /\ entry'  = [s \in Subs |-> IF s \in told THEN 0 ELSE entry[s]]
             /\ joined' = [s \in Subs |-> 0]
             /\ states' = [states EXCEPT ![obj] =
                  [gen |-> IF told = {} THEN g ELSE 0, on |-> 0,
                   exited |-> @.exited \/ (told = {} /\ PreAck)]]
             /\ seen'   = IF told = {} THEN g ELSE 0
             /\ obj'    = IF Attached(entry') = {} THEN 0 ELSE obj
        ELSE UNCHANGED <<entry, joined, states, seen, obj>>
  /\ UNCHANGED <<sock, tried, losses, replay, pend, up, asks, lane, task, killVars, open, host>>

-----------------------------------------------------------------------------
(* Killing *)

(* killSession: a retry keeps the identity of the operation in doubt, and   *)
(* is refused when it asks for something else.                              *)
Identity(mode) ==
  IF op # 0 THEN plans[op] ELSE [gen |-> Known(obj), mode |-> mode, prepared |-> FALSE]

Kill(mode) ==
  /\ killing = NotKilling
  /\ calls < MaxKills
  /\ op # 0 => plans[op].mode = mode
  /\ Flushed
  /\ calls'   = calls + 1
  /\ barrier' = TRUE
  /\ op'      = IF op = 0 THEN Len(plans) + 1 ELSE op
  /\ plans'   = IF op = 0 THEN Append(plans, Identity(mode))
                ELSE [plans EXCEPT ![op] = Identity(mode)]
  /\ meant'   = IF op = 0 THEN Known(obj) ELSE meant
  /\ killing' = [st |-> "prepare", op |-> op', attempt |-> 0]
  /\ pend'    = [pend EXCEPT !["kill"] = Awaits(NoRequest)]
  /\ UNCHANGED <<sock, tried, losses, replay, up, down, attachVars, seen, token, dead, dropped, open, host>>

Sends(g) ==
  /\ plans'   = [plans EXCEPT ![killing.op].gen = g, ![killing.op].prepared = TRUE]
  /\ meant'   = IF meant = 0 THEN g ELSE meant
  /\ killing' = [killing EXCEPT !.st = "confirm", !.attempt = 1]
  /\ pend'    = [pend EXCEPT !["kill"] = Unsent(Request("kill", killing.op, g))]

(* prepareAndConfirmKillSession.  No attachment known: ask what there is.   *)
Plan   == plans[killing.op]
Probes_Always == Plan.mode # "absent"
Probes == Plan.gen = 0 /\ Plan.mode # "absent"

KillPrepares ==
  /\ killing.st = "prepare"
  /\ pend["kill"] = Awaits(NoRequest)
  /\ Ready
  /\ IF Probes
     THEN /\ pend' = [pend EXCEPT !["kill"] = Unsent(Request("has", 0, 0))]
          /\ UNCHANGED <<plans, meant, killing>>
     ELSE Sends(Plan.gen)
  /\ UNCHANGED <<sock, tried, losses, replay, up, down, attachVars, seen>>
  /\ UNCHANGED <<token, barrier, op, calls, dead, dropped, open, host>>

KillProbed ==
  /\ Hears("kill")
  /\ killing.st = "prepare"
  /\ down' = Tail(down)
  /\ Sends(Head(down).gen)
  /\ seen' = IF Head(down).gen # 0 THEN Head(down).gen ELSE seen
  /\ UNCHANGED <<sock, tried, losses, replay, up, attachVars>>
  /\ UNCHANGED <<token, barrier, op, calls, dead, dropped, open, host>>

(* Nothing destructive was asked of the host yet: the barrier is lifted.    *)
KillNotPrepared ==
  /\ killing.st = "prepare"
  /\ pend["kill"].st = "lost"
  /\ killing' = NotKilling
  /\ pend'    = [pend EXCEPT !["kill"] = Idle]
  /\ IF op = killing.op /\ ~Plan.prepared
     THEN op' = 0 /\ barrier' = FALSE
     ELSE UNCHANGED <<op, barrier>>
  /\ UNCHANGED <<sock, tried, losses, replay, up, down, attachVars, seen>>
  /\ UNCHANGED <<token, plans, calls, meant, dead, dropped, open, host>>

KillRetries ==
  /\ killing.st = "confirm"
  /\ pend["kill"] = Awaits(NoRequest)
  /\ Ready
  /\ pend' = [pend EXCEPT !["kill"] = Unsent(Request("kill", killing.op, Plan.gen))]
  /\ UNCHANGED <<sock, tried, losses, replay, up, down, attachVars, seen, killVars, open, host>>

HostSaysKilled_OrFails == TRUE
HostSaysKilled == Head(down).ok

(* confirmKillSession and clearLocalSessionState: the owners are not told.  *)
KillConfirmed ==
  /\ Hears("kill")
  /\ killing.st = "confirm"
  /\ HostSaysKilled
  /\ down'    = Tail(down)
  /\ token'   = IF Reserves(Plan.mode) THEN killing.op ELSE 0
  /\ op'      = IF op = killing.op /\ ~Reserves(Plan.mode) THEN 0 ELSE op
  /\ barrier' = FALSE
  /\ killing' = NotKilling
  /\ pend'    = [pend EXCEPT !["kill"] = Idle]
  /\ entry'   = [s \in Subs |-> 0]
  /\ joined'  = [s \in Subs |-> 0]
  /\ states'  = IF obj = 0 THEN states ELSE [states EXCEPT ![obj].on = 0]
  /\ obj'     = 0
  /\ seen'    = 0
  /\ dead'    = dead \union ({Plan.gen} \ {0})
  /\ dropped' = dropped \union {joined[s] : s \in Attached(joined)}
  /\ meant'   = 0
  /\ UNCHANGED <<sock, tried, losses, replay, up, asks, lane, task, plans, calls, open, host>>

AttemptFails_OneMore ==
  /\ killing' = IF killing.attempt <= Attempts THEN [killing EXCEPT !.attempt = @ + 1] ELSE NotKilling
  /\ DropSocket
  /\ pend' = [Dropped EXCEPT !["kill"] = Awaits(NoRequest)]
  /\ UNCHANGED <<tried, losses, up, attachVars, seen, token, barrier, op, plans, calls>>
  /\ UNCHANGED <<meant, dead, dropped, open, host>>

(* An attempt fails: the next one goes over a fresh connection.  After the  *)
(* last the barrier and the identity stay.                                  *)
AttemptFails ==
  /\ killing' = IF killing.attempt < Attempts THEN [killing EXCEPT !.attempt = @ + 1] ELSE NotKilling
  /\ IF killing.attempt < Attempts
     THEN /\ DropSocket
          /\ pend' = [Dropped EXCEPT !["kill"] = Awaits(NoRequest)]
     ELSE /\ pend' = [pend EXCEPT !["kill"] = Idle]
          /\ UNCHANGED <<sock, replay>>
  /\ UNCHANGED <<tried, losses, up, attachVars, seen, token, barrier, op, plans, calls, meant, dead, dropped, open, host>>

KillRefused ==
  /\ Hears("kill")
  /\ killing.st = "confirm"
  /\ ~Head(down).ok
  /\ down' = IF killing.attempt < Attempts THEN <<>> ELSE Tail(down)
  /\ AttemptFails

KillLost ==
  /\ killing.st = "confirm"
  /\ pend["kill"].st = "lost"
  /\ down' = IF killing.attempt < Attempts THEN <<>> ELSE down
  /\ AttemptFails

-----------------------------------------------------------------------------
(* The host *)

Reply(w, ok, g) == [who |-> w, ok |-> ok, gen |-> g]
Exit(g)         == [who |-> "exit", ok |-> TRUE, gen |-> g]

(* A connection's requests are answered in order, and only the client's     *)
(* current connection carries the answer to it.                             *)
HostTakes(s, cmd) == Asks(s, cmd) /\ IF s = sock THEN Written ELSE Flushed

Answers(s, ok, g) ==
  /\ up'   = [up EXCEPT ![s] = Tail(@)]
  /\ down' = IF s = sock THEN Append(down, Reply(Head(up[s]).who, ok, g)) ELSE down
  /\ UNCHANGED <<sock, tried, losses, replay, pend, attachVars, seen, killVars, open>>

Refuses(s) == Answers(s, FALSE, 0) /\ UNCHANGED host

Subscribes(s) == Answers(s, TRUE, host.live) /\ host' = [host EXCEPT !.subs = @ \union {s}]

(* handleAttach: joins what lives, unless it is the wrong replacement; else *)
(* spawns, and fails if the name is reserved for another or no longer for it.*)
HostAttaches(s) ==
  /\ HostTakes(s, "attach")
  /\ LET tok == Head(up[s]).req.arg
         g   == host.born + 1
     IN IF host.dying # 0 THEN Refuses(s)
        ELSE IF host.live # 0
        THEN IF tok \in {0, host.by[host.live]} THEN Subscribes(s) ELSE Refuses(s)
        ELSE IF host.lease # tok THEN Refuses(s)
        ELSE \/ /\ g <= MaxGens
                /\ Answers(s, TRUE, g)
                /\ host' = [host EXCEPT !.live = g, !.born = g, !.by[g] = tok,
                                        !.subs = {s}, !.lease = 0]
             \/ /\ Answers(s, FALSE, 0)      \* the process does not start
                /\ host' = [host EXCEPT !.lease = 0]

(* handleAttachExisting *)
HostAttachesExisting(s) ==
  /\ HostTakes(s, "existing")
  /\ IF host.dying = 0 /\ host.live # 0 /\ Head(up[s]).req.gen \in {0, host.live}
     THEN Subscribes(s)
     ELSE Refuses(s)

HostDetaches(s) ==
  /\ HostTakes(s, "detach")
  /\ Answers(s, TRUE, 0)
  /\ host' = [host EXCEPT !.subs = @ \ {s}]

HostIsProbed(s) ==
  /\ HostTakes(s, "has")
  /\ Answers(s, TRUE, host.live)
  /\ UNCHANGED host

(* handleKill.  An operation that was completed is answered again, as long  *)
(* as it expects the same generation; one in progress is waited for.        *)
Completed(o)  == \E d \in host.done : d.op = o
Completes(o, g) == host.done \union {[op |-> o, gen |-> g]}

LeasedToAnother(o) == host.lease \notin {0, o}

HostReplays(s, o, g) ==
  /\ Completed(o)
  /\ IF \/ [op |-> o, gen |-> g] \notin host.done
        \/ Reserves(plans[o].mode) /\ (host.live # 0 \/ LeasedToAnother(o))
     THEN Refuses(s)
     ELSE /\ Answers(s, TRUE, 0)
          /\ host' = [host EXCEPT !.lease = IF Reserves(plans[o].mode) THEN o ELSE @]

HostFindsItGone(s, o, g) ==
  /\ ~Completed(o)
  /\ host.dying = 0
  /\ host.live = 0
  /\ IF Reserves(plans[o].mode) /\ LeasedToAnother(o)
     THEN Refuses(s)
     ELSE /\ Answers(s, TRUE, 0)
          /\ host' = [host EXCEPT !.lease = IF Reserves(plans[o].mode) THEN o ELSE @,
                                  !.done  = Completes(o, g)]

(* Another process than the one meant, or another operation under way.      *)
HostFindsAnother(s, o, g) ==
  /\ ~Completed(o)
  /\ \/ host.dying = 0 /\ host.live \notin {0, g}
     \/ host.dying \notin {0, o}
  /\ IF host.dying # 0 \/ Reserves(plans[o].mode) THEN Refuses(s)
     ELSE Answers(s, TRUE, 0) /\ host' = [host EXCEPT !.done = Completes(o, g)]

HostTerminates(s, o, g) ==
  /\ ~Completed(o)
  /\ host.dying = 0
  /\ host.live # 0
  /\ host.live = g
  /\ host' = [host EXCEPT !.dying = o]
  /\ UNCHANGED <<netVars, attachVars, seen, killVars, open>>

HostKills(s) ==
  /\ HostTakes(s, "kill")
  /\ LET o == Head(up[s]).req.arg
         g == Head(up[s]).req.gen
     IN \/ HostReplays(s, o, g)
        \/ HostFindsItGone(s, o, g)
        \/ HostFindsAnother(s, o, g)
        \/ HostTerminates(s, o, g)

(* Who waits is answered, after the frame f on the client's connection.     *)
AnswersKill(ok, f) ==
  /\ up'   = [s \in Sockets |-> IF s \in Waiting THEN Tail(up[s]) ELSE up[s]]
  /\ down' = down \o f \o (IF sock \in Waiting THEN <<Reply("kill", ok, 0)>> ELSE <<>>)

(* The process ends, by itself or terminated: publishSessionEnd.            *)
Ends ==
  /\ host.live # 0
  /\ Flushed
  /\ AnswersKill(TRUE, IF sock \in host.subs THEN <<Exit(host.live)>> ELSE <<>>)
  /\ host' = [host EXCEPT
       !.live  = 0, !.subs = {}, !.dying = 0,
       !.lease = IF host.dying # 0 /\ Reserves(plans[host.dying].mode) THEN host.dying ELSE @,
       !.done  = IF host.dying # 0 THEN Completes(host.dying, host.live) ELSE @]
  /\ UNCHANGED <<sock, tried, losses, replay, pend, attachVars, seen, killVars, open>>

(* The process tree could not be terminated: failOperation.                 *)
TerminationFails ==
  /\ host.dying # 0
  /\ Flushed
  /\ AnswersKill(FALSE, <<>>)
  /\ host' = [host EXCEPT !.dying = 0]
  /\ UNCHANGED <<sock, tried, losses, replay, pend, attachVars, seen, killVars, open>>

(* Another app creates the session under this name.                         *)
RivalCreates ==
  /\ host.live = 0
  /\ host.lease = 0
  /\ host.born < MaxGens
  /\ Flushed
  /\ host' = [host EXCEPT !.live = host.born + 1, !.born = @ + 1]
  /\ UNCHANGED <<netVars, attachVars, seen, killVars, open>>

LeaseExpires ==
  /\ host.lease # 0
  /\ Flushed
  /\ host' = [host EXCEPT !.lease = 0]
  /\ UNCHANGED <<netVars, attachVars, seen, killVars, open>>

(* The host sees that the client has dropped a connection.                  *)
HostCloses(s) ==
  /\ s \in open
  /\ s # sock
  /\ IF up[s] = <<>> THEN Written ELSE Flushed
  /\ open' = open \ {s}
  /\ up'   = [up EXCEPT ![s] = <<>>]
  /\ host' = [host EXCEPT !.subs = @ \ {s}]
  /\ UNCHANGED <<sock, tried, losses, replay, pend, down, attachVars, seen, killVars>>

-----------------------------------------------------------------------------
LaneSteps   == AttachBegins \/ AttachAsks \/ AttachAnswered \/ AttachLost
               \/ DetachBegins \/ DetachAnswered \/ DetachLost
KillSteps   == KillPrepares \/ KillProbed \/ KillNotPrepared \/ KillRetries
               \/ KillConfirmed \/ KillRefused \/ KillLost
SocketSteps == Connect \/ (\E w \in Who : Resend(w) \/ Write(w)) \/ ReplayAnswered \/ ExitArrives
HostSteps   == \E s \in Sockets : \/ HostAttaches(s) \/ HostAttachesExisting(s)
                                  \/ HostDetaches(s) \/ HostIsProbed(s)
                                  \/ HostKills(s) \/ HostCloses(s)

World ==
  \/ \E s \in Subs : Unsubscribe(s) \/ \E create \in BOOLEAN : Attach(s, create)
  \/ \E mode \in Modes : Kill(mode)
  \/ Breaks \/ ConnectFails
  \/ Ends \/ TerminationFails \/ RivalCreates \/ LeaseExpires

Next == LaneSteps \/ KillSteps \/ SocketSteps \/ HostSteps \/ World

Spec == Init /\ [][Next]_vars

-----------------------------------------------------------------------------
Commands   == [cmd : {"none", "attach", "existing", "detach", "has", "kill"}, arg : Op, gen : Gen]
Identities == [gen : Gen, mode : Modes, prepared : BOOLEAN]
Call       == 0..MaxAttaches

(* The state of one client and of the host's record of the name: an attempt *)
(* to confirm a kill, above all, is never one too many.                     *)
TypeOK ==
  /\ sock \in Sockets \union {0} /\ tried \in Sockets \union {0} /\ losses \in 0..MaxLosses
  /\ replay \in Call
  /\ pend \in [Who -> [st : {"none", "await", "unsent", "sent", "lost"}, req : Commands]]
  /\ up \in [Sockets -> Seq([who : Who, req : Commands])]
  /\ down \in Seq([who : Who \union {"exit"}, ok : BOOLEAN, gen : Gen])
  /\ asks \in Seq([sub : Subs, create : BOOLEAN, state : Asked])
  /\ entry \in [Subs -> Call] /\ joined \in [Subs -> Gen] /\ obj \in Call
  /\ states \in [Asked -> [gen : Gen, on : Sockets \union {0}, exited : BOOLEAN]]
  /\ lane \in Seq([does : {"attach", "detach"}, of : Asked])
  /\ task \in [on : BOOLEAN, token : Op, tries : 0..2]
  /\ seen \in Gen /\ token \in Op /\ barrier \in BOOLEAN /\ op \in Op
  /\ plans \in Seq(Identities) /\ calls \in 0..MaxKills
  /\ killing \in [st : {"no", "prepare", "confirm"}, op : Op, attempt : 0..Attempts]
  /\ open \subseteq Sockets
  /\ host \in [live : Gen, born : Gen, by : [1..MaxGens -> Op], subs : SUBSET Sockets,
               lease : Op, dying : Op, done : SUBSET [op : Op, gen : Gen]]
  /\ meant \in Gen /\ dead \subseteq 1..MaxGens /\ dropped \subseteq 1..MaxGens

(* Nothing is under way between the client and the host.                    *)
Quiet ==
  /\ sock # 0
  /\ lane = <<>> /\ down = <<>> /\ up[sock] = <<>>
  /\ \A w \in Who : pend[w] = Idle

(* Once all is quiet, unless a kill is in doubt, a terminal that has an     *)
(* entry is attached to the process that lives now, the one it was attached *)
(* to in the first place, and the host sends that process's output here:    *)
(* over lost connections, replays, exits, other terminals' attaches and     *)
(* detaches, and other apps that take the name.                             *)
ViewsHear ==
  Quiet /\ ~barrier =>
    \A s \in Subs : entry[s] # 0 => joined[s] \in {host.live} \ {0} /\ sock \in host.subs

(* And the host holds no subscription that nobody here owns, with its pause *)
(* ticket and its claim on the size (docs/windows-session-host.md:278-280). *)
(* There are two ways to one.  A kill that found no process is confirmed    *)
(* while an attach spawns one: clearLocalSessionState drops its view and    *)
(* does not detach.  And preAckExit is never reset: an attach that is still *)
(* queued when another was told of an exit spawns a process and then fails. *)
NoGhost ==
  Quiet /\ sock \in host.subs /\ Attached(joined) = {} =>
    host.live \in dropped \/ \E o \in Asked : states[o].exited

Coming(w) == Cardinality({i \in 1..Len(up[sock]) : up[sock][i].who = w})
             + Cardinality({i \in 1..Len(down) : down[i].who = w})

(* What a party of the client awaits has one request or one answer on its   *)
(* way over this connection: no answer of a connection that was dropped is  *)
(* taken for another, and none is missing.                                  *)
OneAnswerEach ==
  sock # 0 => \A w \in Who : Coming(w) = IF pend[w].st = "sent" THEN 1 ELSE 0

(* A generation the app was told is killed does not live, whatever was lost *)
(* on the way: confirmKillSession takes no doubt for success.               *)
DeadStaysDead == host.live \notin dead

(* A kill that was meant for a generation ends no other: not one another    *)
(* app has created under the name between two attempts.                     *)
KillsOnlyTheMeant ==
  [][host.dying # 0 /\ meant # 0 /\ host.live # 0 /\ host'.live = 0 => host.live = meant]_vars

(* "An uncertain prior operation skips this probe because its original      *)
(* operationId/generation is precisely what makes retry ABA-safe"           *)
(* (session-host-client.ts:1523-1524).  It does not when that operation had *)
(* found no process: the retry asks again, and takes what another app has   *)
(* created since for its target.                                            *)
RetryKeepsTarget ==
  [][op # 0 /\ op' = op /\ plans[op].prepared => plans'[op].gen = plans[op].gen]_vars
=============================================================================
