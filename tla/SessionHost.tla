----------------------------- MODULE SessionHost -----------------------------
(***************************************************************************)
(* The session host's registry for one session name: which process         *)
(* generation owns the name, how it is killed, replaced and attached to    *)
(* (src/src/session-host/host.ts and generation-barrier.ts).  Different    *)
(* names share nothing but the grace timer.                                *)
(*                                                                         *)
(* The host is one Node process: a handler runs until it awaits, and the   *)
(* continuations of a resolved promise run before the next socket frame,   *)
(* process event or timer.  Settled says that no continuation is left to   *)
(* run; the actions of the outside world require it.                       *)
(*                                                                         *)
(* Time is counted in ticks, only as far as the two bounded windows reach: *)
(* the replacement lease and the grace before an empty host exits.         *)
(*                                                                         *)
(* A generation is known by its position in gens, 0 stands for "none".  An *)
(* attach request has a connection of its own.  Clients speak protocol v2  *)
(* and retry a kill with the operation's first expectations, as            *)
(* session-host-client.ts does.                                            *)
(***************************************************************************)
EXTENDS Naturals, Sequences, FiniteSets

CONSTANTS
  Ops,        \* kill operations (operationId), each some client's own
  KillReqs,   \* kill requests: an operation and its retries
  OpOf,       \* the operation a kill request belongs to
  Attaches,   \* attach requests
  None,       \* no operation, no token
  MaxGens,    \* bound on the generations spawned
  Window      \* ticks of REPLACEMENT_RESERVATION_TTL_MS and of GRACE_EXIT_MS

ASSUME OpOfAssumption   == OpOf \in [KillReqs -> Ops]
ASSUME NoneAssumption   == None \notin Ops
ASSUME BoundsAssumption == MaxGens \in Nat \ {0} /\ Window \in Nat \ {0}

VARIABLES
  gens,       \* every generation spawned so far
  registry,   \* sessions.get(name)
  ending,     \* ending.get(name): the operation, and the generation it ends
  plan,       \* what an operation expects and wants, fixed by its first request
  step,       \* how far an operation in inProgressKillIds has come
  completed,  \* completedKillIds
  kills,      \* the kill requests
  attaches,   \* the attach requests
  turns,      \* the coordinator's queue for the name; its head holds the turn
  lease,      \* replacementReservations.get(name), with the ticks it has left
  grace,      \* ticks until the grace timer fires; Off when it is not set
  up          \* the host process runs

killState   == <<ending, plan, step, completed, kills>>
attachState == <<attaches, turns>>
clocks      == <<lease, grace, up>>
vars        == <<gens, registry, killState, attachState, clocks>>

Gen     == 0..MaxGens
Token   == Ops \union {None}
Off     == Window + 1
NotEnding == [op |-> None, gen |-> 0]
NoLease == [token |-> None, left |-> 0]
NoPlan  == [gen |-> 0, reserve |-> FALSE, fixed |-> FALSE]
Unasked == [phase |-> "unsent", create |-> FALSE, token |-> None, expected |-> 0,
            on |-> 0, closed |-> FALSE, told |-> FALSE]

Generation == [st : {"live", "retiring", "exited", "gone"}, by : Token, owner : Token]
Plan       == [gen : Gen, reserve : BOOLEAN, fixed : BOOLEAN]
KillRequest == [st : {"unsent", "waiting", "joined", "ok", "refused"}, on : Gen]
AttachRequest ==
  [phase : {"unsent", "queued", "warm", "cold", "failing", "answered", "refused"},
   create : BOOLEAN, token : Token, expected : Gen, on : Gen, closed : BOOLEAN, told : BOOLEAN]

TypeOK ==
  /\ gens      \in Seq(Generation)
  /\ Len(gens) <= MaxGens
  /\ registry  \in Gen
  /\ ending    \in [op : Token, gen : Gen]
  /\ plan      \in [Ops -> Plan]
  /\ step      \in [Ops -> {"idle", "signalling", "signalled"}]
  /\ completed \in SUBSET Ops
  /\ kills     \in [KillReqs -> KillRequest]
  /\ attaches  \in [Attaches -> AttachRequest]
  /\ turns     \in Seq(Attaches)
  /\ lease     \in [token : Token, left : 0..Window]
  /\ grace     \in 0..Off
  /\ up        \in BOOLEAN

(* The host has just begun to listen. *)
Init ==
  /\ gens      = <<>>
  /\ registry  = 0
  /\ ending    = NotEnding
  /\ plan      = [o \in Ops |-> NoPlan]
  /\ step      = [o \in Ops |-> "idle"]
  /\ completed = {}
  /\ kills     = [r \in KillReqs |-> [st |-> "unsent", on |-> 0]]
  /\ attaches  = [a \in Attaches |-> Unasked]
  /\ turns     = <<>>
  /\ lease     = NoLease
  /\ grace     = Window
  /\ up        = TRUE

-----------------------------------------------------------------------------
Live(g) == g # 0 /\ gens[g].st \in {"live", "retiring"}
Gone(g) == g # 0 /\ gens[g].st = "gone"

(* currentSessionAfterRetirement waits for the generation to be published. *)
Barrier == registry # 0 /\ gens[registry].st # "live"

HoldsTurn(a, phase) == turns # <<>> /\ Head(turns) = a /\ attaches[a].phase = phase

Resumable(r) == kills[r].st = "waiting" /\ Gone(kills[r].on)
AtTurn(a)    == HoldsTurn(a, "queued") /\ ~Barrier
Abandoned(a) == HoldsTurn(a, "failing") /\ Gone(attaches[a].on)

Settled ==
  /\ up
  /\ ~\E r \in KillReqs : Resumable(r)
  /\ ~\E a \in Attaches : AtTurn(a) \/ Abandoned(a)

Leased == lease.left > 0

SetReservation_KeepsGrace(o) ==
  /\ lease' = [token |-> o, left |-> Window]
  /\ UNCHANGED grace

(* A lease restarts the grace window of an empty host and stops any other. *)
SetReservation(o) ==
  /\ lease' = [token |-> o, left |-> Window]
  /\ grace' = IF registry = 0 THEN Window ELSE Off

Reply(r, st) == kills' = [kills EXCEPT ![r].st = st]

Completes(o) == completed' = completed \union {o}
-----------------------------------------------------------------------------
(* What a kill request does once it faces a name that is not retiring: g   *)
(* is the registered generation and p the operation's plan.                *)

(* The name is free: acknowledge, and lease it if that was asked for. *)
KillAbsent(r, o, p) ==
  /\ ~Live(registry)
  /\ IF p.reserve /\ Leased /\ lease.token # o
       THEN Reply(r, "refused") /\ UNCHANGED <<completed, lease, grace>>
       ELSE /\ Reply(r, "ok")
            /\ Completes(o)
            /\ IF p.reserve THEN SetReservation(o) ELSE UNCHANGED <<lease, grace>>
  /\ UNCHANGED <<ending, step>>

(* Somebody else's generation holds the name: it is left alone. *)
KillOther(r, o, p) ==
  /\ Live(registry)
  /\ p.gen # registry
  /\ IF p.reserve
       THEN Reply(r, "refused") /\ UNCHANGED completed
       ELSE Reply(r, "ok") /\ Completes(o)
  /\ UNCHANGED <<ending, step, lease, grace>>

(* The expected generation: register the operation, then signal it. *)
KillExpected(r, o, p) ==
  /\ Live(registry)
  /\ p.gen = registry
  /\ ending' = [op |-> o, gen |-> registry]
  /\ step'   = [step EXCEPT ![o] = "signalling"]
  /\ Reply(r, "joined")
  /\ UNCHANGED <<completed, lease, grace>>

KillDecides_IgnoresGeneration(r, o, p) ==
  \/ KillAbsent(r, o, p)
  \/ KillExpected(r, o, [p EXCEPT !.gen = registry])

KillDecides(r, o, p) ==
  \/ KillAbsent(r, o, p)
  \/ KillOther(r, o, p)
  \/ KillExpected(r, o, p)

KillReplayed_Blind(r, o, p) ==
  /\ o \in completed
  /\ Reply(r, "ok")
  /\ IF p.reserve THEN SetReservation(o) ELSE UNCHANGED <<lease, grace>>
  /\ UNCHANGED <<ending, step, completed>>

(* A retry of a completed operation confirms it, and renews its lease. *)
KillReplayed(r, o, p) ==
  /\ o \in completed
  /\ IF ~p.reserve
       THEN Reply(r, "ok") /\ UNCHANGED <<lease, grace>>
       ELSE IF Live(registry) \/ (Leased /\ lease.token # o)
         THEN Reply(r, "refused") /\ UNCHANGED <<lease, grace>>
         ELSE Reply(r, "ok") /\ SetReservation(o)
  /\ UNCHANGED <<ending, step, completed>>

(* A retry of an operation in progress waits for the same answer. *)
KillJoins(r, o) ==
  /\ o \notin completed
  /\ step[o] # "idle"
  /\ Reply(r, "joined")
  /\ UNCHANGED <<ending, step, completed, lease, grace>>

KillClashes(r, o) ==
  /\ o \notin completed
  /\ step[o] = "idle"
  /\ ending # NotEnding
  /\ Reply(r, "refused")
  /\ UNCHANGED <<ending, step, completed, lease, grace>>

(* The name is retiring: absence counts only once that is published. *)
KillWaits(r, o) ==
  /\ o \notin completed
  /\ step[o] = "idle"
  /\ ending = NotEnding
  /\ Barrier
  /\ kills' = [kills EXCEPT ![r] = [st |-> "waiting", on |-> registry]]
  /\ UNCHANGED <<ending, step, completed, lease, grace>>

(* handleKill, to its first await.  The first request of an operation      *)
(* fixes what it expects: the generation its client saw, however long ago, *)
(* or none.                                                                *)
KillArrives(r) ==
  LET o == OpOf[r]
  IN  /\ Settled
      /\ kills[r].st = "unsent"
      /\ \E p \in IF plan[o].fixed
                    THEN {plan[o]}
                    ELSE [gen : 0..Len(gens), reserve : BOOLEAN, fixed : {TRUE}] :
           /\ plan' = [plan EXCEPT ![o] = p]
           /\ \/ KillReplayed(r, o, p)
              \/ KillJoins(r, o)
              \/ KillClashes(r, o)
              \/ KillWaits(r, o)
              \/ /\ o \notin completed
                 /\ step[o] = "idle"
                 /\ ending = NotEnding
                 /\ ~Barrier
                 /\ KillDecides(r, o, p)
      /\ UNCHANGED <<gens, registry, attachState, up>>

(* The generation a kill request waited for has been published. *)
KillResumes(r) ==
  /\ up
  /\ Resumable(r)
  /\ KillDecides(r, OpOf[r], plan[OpOf[r]])
  /\ UNCHANGED <<gens, registry, plan, attachState, up>>

Retire(g) == gens' = [gens EXCEPT ![g].st = IF @ = "live" THEN "retiring" ELSE @]

Terminates_Acknowledges(o) ==
  /\ Settled
  /\ step[o] = "signalling"
  /\ step' = [step EXCEPT ![o] = "signalled"]
  /\ Retire(ending.gen)
  /\ kills' = [r \in KillReqs |-> IF OpOf[r] = o /\ kills[r].st = "joined"
                                  THEN [kills[r] EXCEPT !.st = "ok"] ELSE kills[r]]
  /\ UNCHANGED <<registry, ending, plan, completed, attachState, clocks>>

(* The signal, or taskkill, has gone through: the name is claimed until    *)
(* the process is seen to exit.                                            *)
Terminates(o) ==
  /\ Settled
  /\ step[o] = "signalling"
  /\ step' = [step EXCEPT ![o] = "signalled"]
  /\ Retire(ending.gen)
  /\ UNCHANGED <<registry, ending, plan, completed, kills, attachState, clocks>>

TerminationFails_ForgetsWaiters(o) ==
  /\ Settled
  /\ step[o] = "signalling"
  /\ ending' = NotEnding
  /\ step'   = [step EXCEPT ![o] = "idle"]
  /\ UNCHANGED <<gens, registry, plan, completed, kills, attachState, clocks>>

(* It has failed: the operation is over, whether or not the process is.    *)
TerminationFails(o) ==
  /\ Settled
  /\ step[o] = "signalling"
  /\ ending' = NotEnding
  /\ step'   = [step EXCEPT ![o] = "idle"]
  /\ kills'  = [r \in KillReqs |-> IF OpOf[r] = o /\ kills[r].st = "joined"
                                   THEN [kills[r] EXCEPT !.st = "refused"] ELSE kills[r]]
  /\ UNCHANGED <<gens, registry, plan, completed, attachState, clocks>>

(* pruneCompletedKills drops an operation, for its age or for the limit. *)
Forget(o) ==
  /\ Settled
  /\ o \in completed
  /\ completed' = completed \ {o}
  /\ UNCHANGED <<gens, registry, ending, plan, step, kills, attachState, clocks>>
-----------------------------------------------------------------------------
ProcessExits_FreesTheName(g) ==
  /\ Settled
  /\ Live(g)
  /\ gens' = [gens EXCEPT ![g].st = "exited",
                          ![g].owner = IF ending.gen = g THEN ending.op ELSE None]
  /\ registry' = 0
  /\ UNCHANGED <<killState, attachState, clocks>>

(* The process of g dies, killed or of itself.  Only an operation already  *)
(* registered for g will own the end that is published.                    *)
ProcessExits(g) ==
  /\ Settled
  /\ Live(g)
  /\ gens' = [gens EXCEPT ![g].st = "exited",
                          ![g].owner = IF ending.gen = g THEN ending.op ELSE None]
  /\ UNCHANGED <<registry, killState, attachState, clocks>>

(* The last output of g has drained: lease the name if a kill asked for    *)
(* it, tell every subscriber, release the name, acknowledge the kill.      *)
Publish(g) ==
  LET o == gens[g].owner
  IN  /\ Settled
      /\ g # 0 /\ gens[g].st = "exited"
      /\ gens' = [gens EXCEPT ![g].st = "gone"]
      /\ registry' = IF registry = g THEN 0 ELSE registry
      /\ attaches' = [a \in Attaches |->
                        IF /\ attaches[a].phase = "answered"
                           /\ attaches[a].on = g
                           /\ ~attaches[a].closed
                        THEN [attaches[a] EXCEPT !.told = TRUE] ELSE attaches[a]]
      /\ lease' = IF o # None /\ plan[o].reserve THEN [token |-> o, left |-> Window] ELSE lease
      /\ grace' = IF registry = g THEN Window ELSE grace
      /\ ending' = IF ending.op = o THEN NotEnding ELSE ending
      /\ completed' = completed \union ({o} \ {None})
      /\ step' = [q \in Ops |-> IF q = o THEN "idle" ELSE step[q]]
      /\ kills' = [r \in KillReqs |-> IF OpOf[r] = o /\ kills[r].st = "joined"
                                      THEN [kills[r] EXCEPT !.st = "ok"] ELSE kills[r]]
      /\ UNCHANGED <<plan, turns, up>>
-----------------------------------------------------------------------------
(* The replacement tokens some client has been given. *)
Granted ==
  {o \in Ops : plan[o].reserve /\ \E r \in KillReqs : OpOf[r] = o /\ kills[r].st = "ok"}

(* A client asks to attach: to create the session if need be, with the     *)
(* token of a replacement it was granted or none, or only to an existing   *)
(* generation, named or not.                                               *)
AttachArrives(a) ==
  /\ Settled
  /\ attaches[a].phase = "unsent"
  /\ \/ \E t \in {None} \union Granted :
          attaches' = [attaches EXCEPT ![a].phase = "queued", ![a].create = TRUE,
                                          ![a].token = t]
     \/ \E e \in 0..Len(gens) :
          attaches' = [attaches EXCEPT ![a].phase = "queued", ![a].expected = e]
  /\ turns' = Append(turns, a)
  /\ UNCHANGED <<gens, registry, killState, clocks>>

(* The answer of the inspection to a request that has the turn. *)
WarmAllowed_AnyGeneration(q) == ending = NotEnding /\ registry # 0

WarmAllowed(q) ==
  /\ ending = NotEnding
  /\ registry # 0
  /\ IF q.create
       THEN q.token \in {None, gens[registry].by}
       ELSE q.expected \in {0, registry}

ColdAllowed(q) ==
  /\ ending = NotEnding
  /\ registry = 0
  /\ q.create
  /\ q.token = IF Leased THEN lease.token ELSE None

Refuse_KeepsTurn(a) ==
  /\ attaches' = [attaches EXCEPT ![a].phase = "refused"]
  /\ UNCHANGED turns

Refuse(a) ==
  /\ attaches' = [attaches EXCEPT ![a].phase = "refused"]
  /\ turns' = Tail(turns)

(* The turn claims the name, which stops the grace timer, and is refused:  *)
(* unless the name is ending or taken, the timer is set again.             *)
TurnRefused(a) ==
  /\ up
  /\ AtTurn(a)
  /\ ~WarmAllowed(attaches[a]) /\ ~ColdAllowed(attaches[a])
  /\ Refuse(a)
  /\ grace' = IF registry = 0 /\ ending = NotEnding THEN Window ELSE Off
  /\ UNCHANGED <<gens, registry, killState, lease, up>>

(* Attach to the running generation: geometry, then a screen snapshot. *)
TurnWarm(a) ==
  /\ up
  /\ AtTurn(a)
  /\ WarmAllowed(attaches[a])
  /\ attaches' = [attaches EXCEPT ![a].phase = "warm", ![a].on = registry]
  /\ grace' = Off
  /\ UNCHANGED <<gens, registry, killState, turns, lease, up>>

(* Spawn a new generation; this uses up the lease. *)
TurnCold(a) ==
  /\ up
  /\ AtTurn(a)
  /\ ColdAllowed(attaches[a])
  /\ Len(gens) < MaxGens
  /\ gens' = Append(gens, [st |-> "live", by |-> attaches[a].token, owner |-> None])
  /\ registry' = Len(gens) + 1
  /\ attaches' = [attaches EXCEPT ![a].phase = "cold", ![a].on = Len(gens) + 1]
  /\ lease' = NoLease
  /\ grace' = Off
  /\ UNCHANGED <<killState, turns, up>>

SpawnFails_LeavesTimerOff(a) ==
  /\ up
  /\ AtTurn(a)
  /\ ColdAllowed(attaches[a])
  /\ Refuse(a)
  /\ lease' = NoLease
  /\ grace' = Off
  /\ UNCHANGED <<gens, registry, killState, up>>

(* No process comes of it: the lease is used up all the same. *)
SpawnFails(a) ==
  /\ up
  /\ AtTurn(a)
  /\ ColdAllowed(attaches[a])
  /\ Refuse(a)
  /\ lease' = NoLease
  /\ grace' = Window
  /\ UNCHANGED <<gens, registry, killState, up>>

Answer(a) ==
  /\ attaches' = [attaches EXCEPT ![a].phase = "answered"]
  /\ turns' = Tail(turns)

WarmReady_SkipsExit(a) ==
  /\ Settled
  /\ HoldsTurn(a, "warm")
  /\ IF attaches[a].closed THEN Refuse(a) ELSE Answer(a)
  /\ UNCHANGED <<gens, registry, killState, clocks>>

(* The snapshot is ready.  If the process has exited meanwhile, the turn   *)
(* is kept and the name inspected again behind the retirement.             *)
WarmReady(a) ==
  LET g == attaches[a].on
  IN  /\ Settled
      /\ HoldsTurn(a, "warm")
      /\ \/ attaches[a].closed /\ Refuse(a)
         \/ /\ ~attaches[a].closed
            /\ Live(g) /\ registry = g
            /\ Answer(a)
         \/ /\ ~attaches[a].closed
            /\ ~(Live(g) /\ registry = g)
            /\ attaches' = [attaches EXCEPT ![a].phase = "queued", ![a].on = 0]
            /\ UNCHANGED turns
      /\ UNCHANGED <<gens, registry, killState, clocks>>

(* The new generation is prepared.  If it has died, or nobody is there to  *)
(* use it, it is killed, and the turn held until its end is published; a   *)
(* kill that throws leaves it running.                                     *)
ColdReady(a) ==
  LET g  == attaches[a].on
      ok == ~attaches[a].closed /\ Live(g) /\ registry = g
  IN  /\ Settled
      /\ HoldsTurn(a, "cold")
      /\ \/ ok /\ Answer(a) /\ UNCHANGED gens
         \/ /\ ~ok
            /\ attaches' = [attaches EXCEPT ![a].phase = "failing"]
            /\ Retire(g)
            /\ UNCHANGED turns
         \/ ~ok /\ gens[g].st = "live" /\ Refuse(a) /\ UNCHANGED gens
      /\ UNCHANGED <<registry, killState, clocks>>

ColdAbandoned(a) ==
  /\ up
  /\ Abandoned(a)
  /\ Refuse(a)
  /\ UNCHANGED <<gens, registry, killState, clocks>>

(* The connection of a closes, before a is answered or while it is         *)
(* subscribed; later it would change nothing.                              *)
Close(a) ==
  /\ Settled
  /\ attaches[a].phase \notin {"unsent", "refused"}
  /\ ~attaches[a].closed /\ ~attaches[a].told
  /\ attaches' = [attaches EXCEPT ![a].closed = TRUE]
  /\ UNCHANGED <<gens, registry, killState, turns, clocks>>
-----------------------------------------------------------------------------
Tick_BelowZero ==
  /\ Settled
  /\ grace # 0
  /\ Leased \/ grace # Off
  /\ lease' = [lease EXCEPT !.left = @ - 1]
  /\ grace' = IF grace = Off THEN Off ELSE grace - 1
  /\ UNCHANGED <<gens, registry, killState, attachState, up>>

(* Time passes; an expired lease counts as none. *)
Tick ==
  /\ Settled
  /\ grace # 0
  /\ Leased \/ grace # Off
  /\ lease' = [lease EXCEPT !.left = IF @ > 0 THEN @ - 1 ELSE 0]
  /\ grace' = IF grace = Off THEN Off ELSE grace - 1
  /\ UNCHANGED <<gens, registry, killState, attachState, up>>

(* The grace timer fires: an empty host exits. *)
GraceFires ==
  /\ Settled
  /\ grace = 0
  /\ grace' = Off
  /\ up' = (registry # 0)
  /\ UNCHANGED <<gens, registry, killState, attachState, lease>>

KillStep(r)   == KillArrives(r) \/ KillResumes(r)
AttachStep(a) == TurnRefused(a) \/ TurnWarm(a) \/ TurnCold(a) \/ SpawnFails(a) \/
                 WarmReady(a) \/ ColdReady(a) \/ ColdAbandoned(a)

Next ==
  \/ \E r \in KillReqs : KillStep(r)
  \/ \E o \in Ops : Terminates(o) \/ TerminationFails(o) \/ Forget(o)
  \/ \E g \in 1..Len(gens) : ProcessExits(g) \/ Publish(g)
  \/ \E a \in Attaches : AttachArrives(a) \/ AttachStep(a) \/ Close(a)
  \/ Tick
  \/ GraceFires

Spec == Init /\ [][Next]_vars

(* The host's own steps are taken: queued continuations run, drained       *)
(* output is published, a termination request returns.  No process has to  *)
(* exit, and no request to arrive.                                         *)
Fairness ==
  /\ \A r \in KillReqs : WF_vars(KillResumes(r))
  /\ \A o \in Ops : WF_vars(Terminates(o) \/ TerminationFails(o))
  /\ \A g \in 1..MaxGens : WF_vars(g <= Len(gens) /\ Publish(g))
  /\ \A a \in Attaches : WF_vars(AttachStep(a))

FairSpec == Spec /\ Fairness

-----------------------------------------------------------------------------
(* At most one generation of the name is on its way: two processes whose   *)
(* frames carry one name never overlap, not even in their last output      *)
(* (generation-barrier.ts: "A same-name PTY can have only one protocol     *)
(* generation at a time").                                                 *)
OneGeneration ==
  \A g, h \in 1..Len(gens) : gens[g].st # "gone" /\ gens[h].st # "gone" => g = h

(* An acknowledged kill is true: the generation the operation named is     *)
(* dead and its exit published, whatever was retried, forgotten, lost to   *)
(* another operation or replaced meanwhile.                                *)
KillIsConfirmed ==
  \A r \in KillReqs :
     kills[r].st = "ok" /\ plan[OpOf[r]].gen # 0 => Gone(plan[OpOf[r]].gen)

(* An answered attach is on the generation it asked for, the replacement   *)
(* its token stands for or the one it expected, also when it had to be     *)
(* retried because the generation it first met died under it.              *)
AttachedAsAsked ==
  \A a \in Attaches :
     attaches[a].phase = "answered" =>
        /\ attaches[a].token \in {None, gens[attaches[a].on].by}
        /\ attaches[a].expected \in {0, attaches[a].on}

(* Nobody is left on a terminal that has ended: whoever was told of a      *)
(* generation is also told of its exit.                                    *)
ExitIsTold ==
  \A a \in Attaches :
     /\ attaches[a].phase = "answered"
     /\ ~attaches[a].closed
     /\ Gone(attaches[a].on)
     => attaches[a].told

(* While a replacement lease runs, no process holds the name: the lease    *)
(* cannot be had for a name in use, and only its owner can use it up.      *)
LeasedNameIsFree == Leased => ~Live(registry)

(* A host without sessions is on its way out: no path that claims the name *)
(* and gives it up again forgets to set the grace timer.                   *)
EmptyHostLeaves == up /\ registry = 0 /\ turns = <<>> => grace # Off

(* The host never exits underneath the owner of a lease                    *)
(* (host.ts, setReplacementReservation).                                   *)
LeaseKeepsHost == [][up /\ ~up' => ~Leased]_vars

(* Only the generation an operation was meant for is signalled, or the one *)
(* a vanished client has just had spawned.                                 *)
KillHitsItsTarget ==
  [][\A g \in 1..Len(gens) :
        gens[g].st = "live" /\ gens'[g].st = "retiring" =>
           \/ \E o \in Ops : step[o] = "signalling" /\ plan[o].gen = g
           \/ \E a \in Attaches : HoldsTurn(a, "cold") /\ attaches[a].closed
                                    /\ attaches[a].on = g]_vars

Dying == registry # 0 /\ gens[registry].st = "retiring"

(* As long as every process that was told to die dies, each kill request   *)
(* is answered: neither a retirement nor an operation joined by a retry    *)
(* is waited for in vain.                                                  *)
KillsAreAnswered ==
  []<>~Dying =>
     \A r \in KillReqs :
        kills[r].st \in {"waiting", "joined"} ~> kills[r].st \in {"ok", "refused"} \/ ~up

(* And each attach: no turn of the coordinator is held for ever. *)
AttachesAreAnswered ==
  []<>~Dying =>
     \A a \in Attaches :
        attaches[a].phase = "queued" ~> attaches[a].phase \in {"answered", "refused"} \/ ~up
-----------------------------------------------------------------------------
(* The inductive invariant behind the safety properties of the registry.   *)

(* The registry holds the one generation that is not gone, the last one. *)
NameIsHeld ==
  /\ registry \in {0, Len(gens)}
  /\ \A g \in 1..Len(gens) : gens[g].st # "gone" <=> g = registry

(* An operation that has been used has its expectations fixed, about a     *)
(* generation that existed then.                                           *)
PlansAreFixed ==
  /\ \A o \in Ops : plan[o].gen <= Len(gens)
  /\ \A o \in Ops : o \in completed \/ step[o] # "idle" => plan[o].fixed
  /\ \A r \in KillReqs : kills[r].st # "unsent" => plan[OpOf[r]].fixed
  /\ \A r \in KillReqs : kills[r].st = "waiting" =>
        plan[OpOf[r]].gen <= kills[r].on /\ kills[r].on \in 1..Len(gens)

(* The operation that ends the name, or has ended it, meant just this      *)
(* generation, and no other operation is in progress.                      *)
EndingIsMeant ==
  /\ ending.op = None => ending.gen = 0
  /\ ending.op # None => ending.gen = plan[ending.op].gen /\ plan[ending.op].fixed
  /\ \A o \in Ops : step[o] # "idle" <=> ending.op = o
  /\ \A g \in 1..Len(gens) : gens[g].owner # None =>
        plan[gens[g].owner].gen = g /\ plan[gens[g].owner].fixed

CompletedIsTrue ==
  \A o \in completed : plan[o].gen # 0 => Gone(plan[o].gen)

(* A kill that waited resumes before anything else can end. *)
ResumesAtOnce ==
  \A r \in KillReqs : Resumable(r) => ~Barrier

HostInv ==
  /\ TypeOK
  /\ NameIsHeld
  /\ PlansAreFixed
  /\ EndingIsMeant
  /\ CompletedIsTrue
  /\ ResumesAtOnce
  /\ KillIsConfirmed
  /\ LeasedNameIsFree
=============================================================================
