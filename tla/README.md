# Formal models of SubSquad

SubSquad is a canvas of terminals: an Electron desktop application and a browser
"Server Edition" over one shared core, where several people and several coding
agents work on one canvas of nodes, each of them a terminal that outlives the
window. This directory holds TLA+ models of the parts of it in which the order
of events decides whether it is right, TLC configurations that check them on
small instances, and TLAPS proofs of their most important properties for
instances of any size.

* `PROJECT.json` ties everything together: which definition models which
  lines, what each run checks, which mistake in the code each property would
  catch, the hazards of the code and the properties that watch them.
* To check a module: `tlc -workers 2 -config CanvasSync.cfg MCCanvasSync`.
  To check proofs: `tlapm CanvasSyncProofs.tla`.

Paths below are relative to `src/src/`.

## 1. Inventory

### Shared canvas (`shared/canvas-order.ts`, `shared/canvas-publish.ts`, `shared/canvas-mutations.ts`, `core/canvas-sync.ts`, and the effects of `renderer/canvas/Canvas.tsx` that drive them)

*State.* Each client has its canvas (React Flow's nodes), the record of its
unacked casts per node, the seq it has last seen per node, and a publisher:
baseline, coalesced snapshot, throttle timer. The core has one counter, the
seq.

*Operations.* A user's edit changes the canvas at once; the publish effect
diffs it against the baseline and casts upserts and removes, at most one batch
per frame while a node is dragged. The reflector stamps a seq on every cast and
sends it to every client, the sender included. A client that hears a stamped
mutation drops it or applies it by three rules (own echo, peer while a cast of
its own is unacked, peer otherwise) and makes the result its new baseline.

*Interaction.* IPC or WebSocket between client and core: FIFO per connection,
no order between connections.

*What is hard.* Two users edit one node at once; an echo that arrives after a
peer's overwrite; the expiry of the unacked record; a frame held back by the
throttle while a peer's mutation rewrites the baseline; mutations the reflector
refuses for their size; echoing what was just received.

*Correct if* all clients come to show the same canvas, every edit is cast in
the end, nothing moves back under the user's hand, and no message is answered by
a message.

### Session host: names and generations (`session-host/host.ts`, `generation-barrier.ts`, `kill-session.ts`)

A process that outlives the application and owns the PTYs. *State:* the session
registry (name to PTY generation), the deletion in progress per name, the
operations in progress and completed, the replacement leases, the queue of
attach turns per name, the grace timer of an empty host. *Operations:* attach
(cold: spawn; warm: join), kill with an operation id, retry of a kill,
replacement lease and its expiry, process exit and publication, connection
closed, exit when empty. *What is hard:* a kill is a chain of awaits, during
which clients attach, retry and vanish; "which process does this name mean now"
is asked again after each; an operation's record is pruned while its client
still retries. *Correct if* one name is one process at a time, an acknowledged
kill is true, a kill ends only what it meant, a lease really reserves the name,
and everyone is answered.

### Session host: terminal flow (`session-host/session.ts`, `socket-flow.ts`, `socket-request-queue.ts`)

*State:* subscribers, claims of size, pause tickets of three kinds of owner
(viewer, full transport, full emulator), the chain of emulator jobs, the
emulator's screen. *Operations:* output, attach (prepare, wait for a screen,
commit or roll back), detach, close, pause and resume, resize, socket full and
drained. *What is hard:* output while an attach waits for its screen; a
connection that closes in the middle; three owners of one pause. *Correct if*
screen plus stream is exactly the output, the process is paused just while
someone wants it so, nobody gone leaves anything behind, and the terminal has
the size its viewers can all show.

### Agent message delivery queue (`core/agents/delivery-queue.ts`)

*State:* per target an array of messages that wait for it to be idle, a timer
per message. *Operations:* enqueue (checks the bound, traces, pushes), a flush
per idle event, expiry. *What is hard:* all three await in the middle. *Correct
if* no accepted message is lost, none is handled twice, each comes to an end
its sender hears of, the bound holds and the order is kept.

### Session host: the client (`core/session-host-client.ts`)

*State:* the socket and the requests pending on it, a state object per session
name with the terminals that show it, the tail of the name's tasks, the last
generation seen, and for a kill its identity, its barrier and its replacement
token. *Operations:* attach, co-attach, detach, kill with its probe and its
retries, the replay that restores attachments on a new connection, exits.
*Interaction:* requests and frames on a socket of the host; several apps share
one host. *What is hard:* a reply that is lost says nothing of what was done;
requests of a dropped connection still arrive; a kill does not wait for the
attaches of its name, nor they for a replay. *Correct if* a terminal hears the
process it shows, the host keeps no subscription nobody owns, a request has
one answer, and a confirmed kill is true and of the process that was meant.

### Triggers (`core/trigger-scheduler.ts`, `trigger-arm-store.ts`, `trigger-service.ts`)

*State:* per trigger node a schedule anchored to its spec, the set in flight,
the sweeps under way; the machine's consent (what is armed for which spec) in
memory, in a file and in a queue of writes. *Operations:* the sweep with a
delivery awaited per due trigger, arm, disarm, edits of the canvas, a restart.
*What is hard:* a sweep goes on after a delivery with a list that other sweeps,
edits and deletions have overtaken; a write that fails after others were queued.
*Correct if* a due slot is delivered once, a one-shot at its instant only, an
armed interval for ever, and consent is what the user was told.

### The other parts

| part | why it matters, and where it stands |
|---|---|
| launch delivery (`session-host/session.ts` 393-445) | a launch line is typed at most once though its request is retried; no caller in the app asks for one, so not modelled |
| host start-up, state file; backend, launcher (`session-host/state-file.ts`, `core/session-host-launcher.ts`, ...) | one host per machine; planned |
| presence hub, WebSocket bridge, relay (`core/presence/hub.ts`, `renderer/bridge`, `main/remote`) | who is here, reconnection; planned, together with the peers gate and `reset()` of the canvas order |
| trigger delivery (`core/trigger-delivery.ts`) | the gates of one delivery and its own queue of messages; planned, over DeliveryQueue |
| approvals, status mirror, hook server | questions of agents and their answers; planned |
| agent browser control (`main/browser-*.ts`) | idle detach against commands in flight; planned |
| workspace store, watcher, atomic files | saves of several clients against reloads; planned |
| GitHub request coordinator | cancellation, rate limits, shared reads; planned |
| pty manager, tmux control | large, most of it talk with tmux; perhaps |
| identity, pairing, push, ssh, usage, accounts, speech, transcripts, settings, trust stores, user interface | credential formats, calls of external programs and services, sequential stores, layout: not modelled |

`PROJECT.json` lists each with its files.

## 2. Modules

```
           OptimisticCanvas                    SessionHost         SessionHostClient
                  |                                 |                     |
CanvasOrder <- CanvasSync <- CanvasPublish   SessionHostProofs   SessionHostClientProofs
                  |                 |                                     |
          CanvasSyncProofs <-+      |           DeliveryQueue     SessionViewsProofs
                              \     |                 |
                          CanvasPublishProofs   DeliveryQueueProofs

                                              SessionFlow          TriggerScheduler
                                                    |                     |
                                            SessionFlowProofs   TriggerSchedulerProofs
```

`MC<module>` holds the definitions a run needs and nothing else.

**CanvasOrder** is the pure part: the record a client keeps of one node and the
three rules `OnLocal`, `OnAck`, `OnPeer` of `createCanvasOrder`. Expiry of the
unacked record is an operator of its own, `Lapse`, since time enters nowhere
else.

**CanvasSync** composes it with the reflector and its transports: `Edit`, `Stamp`,
`Receive`, `TtlLapses`. A channel is a growing sequence and the number of its
elements consumed, so that what is in flight can be spoken of. One edit is one
cast.

**OptimisticCanvas** says what the ordering promises, with no bookkeeping: an
edit shows at once to its author, all edits have one order everyone is told of,
and a node shows its author's last edit or what the order says. How long a
client holds on to its own is left open within two limits. CanvasSync
implements it (`Promise` is the instance, `KeepsPromise` the property): `mine`
is the set of nodes with an unacked cast that no peer has overtaken, `history`
the log, `edits` the casts of a client.

**CanvasPublish** extends CanvasSync with the emitting side: `ChangeCanvas`, `DragStart`,
`DragStop`, `Timer`, `PubReceive`, `Reflect`. An edit may now be cast late, with
others, or not at all. Its variables `base`, `owed`, `armed` and `dragging` are
the publisher's `baseline`, `pending`, `timer` and Canvas.tsx's `draggingRef`.
That the coalesced snapshot is always the present canvas, so that a flag
suffices for it, follows from the publish effect that runs at every change of
nodes. Dragging moves nodes that are there; a drag does not add or remove.

**SessionHost** is one name of the registry. A handler of the code is split
where it awaits, and only there: a kill is `KillArrives` (answered from the
record, joined, refused, waiting, or decided), `KillResumes` after the wait,
`Terminates` or `TerminationFails` after the signal; an attach is
`AttachArrives`, one of `TurnRefused`, `TurnWarm`, `TurnCold` and `SpawnFails`
at its turn, and `WarmReady`, `ColdReady` or `ColdAbandoned` after the screen. A
process is `live`, `retiring` (signalled), `exited`, `gone` (its exit is
published). `Settled` says that no continuation of a settled promise is left to
run; what comes from outside (sockets, processes, timers) requires it, as
Node's event loop does.

**SessionFlow** is one live generation with its connections. `tail` is the
promise chain `outputTail`, `attach` the one attach in flight (the turn queue
of SessionHost allows no second), `explicit`, `transport` and `emulator` the
three kinds of pause tickets. Auxiliary `seen` and `applied` count output, to
compare what a viewer has with what there was.

**SessionHostClient** is the client for one session name, and the host as the
client meets it. A connection is a number; `up` holds what was written on each
(the host goes on to take requests of one that was dropped until it sees it
close), `down` the frames on the present one. `pend` says how far the request
of each of the three parties (the name's lane, the kill, the replay) has come:
waiting for a connection, not yet written, written, lost. Everything the code
does between two awaits is one action; `Settled`, `Written` and `Flushed` keep
what comes from outside behind the continuations that are left to run. Another
app is `RivalCreates`, the lease's timer `LeaseExpires`. `SessionHost` has the
host's own steps: here a request is answered in one, except a kill.

**TriggerScheduler** is the scheduler and the arm store of one machine. A sweep
is `SweepBegins`, then `FireDue` or `PassDue` for each due trigger,
`FireReturns` after each delivery, `SweepEnds`. Times are relative to now, in
intervals of the sweeps, so that no clock grows; a cron expression is an
interval. `Restart` loses all but the file and the canvas. The auxiliary
`overtaken` are the triggers a sweep had still to fire when another began: what
finding 3 is about, and what the other properties exempt.

**DeliveryQueue** is the queue of one target. The array an enqueue has read
before its await is a value it holds on to, so arrays have numbers and the map
holds the number of one; that is what finding 2 needs.

## 3. Runs

Sizes are distinct states. All runs switch the deadlock check off: users stop
typing, processes stop writing, a host exits.

| run | instance | states | what it shows |
|---|---|---|---|
| canvas_sync | 2 clients, 1 node, 3 states, 2 edits each, fairness | 43 417 | `Convergence`: with nothing about a node in flight all show the same; `SettledShowsOrder`: who waits for no echo shows what the order told it; `PendingMatchesInFlight`: the unacked record is exact unless lapsed; `NoRubberBand`: a suppressed peer changes nothing; `EventuallyAgree`; `KeepsPromise`: OptimisticCanvas is implemented, its fairness included |
| canvas_publish | 2 clients dragging 1 node, one value too large | 238 389 | `Agreement`, `EditsReachTheOrder`, `NoEcho` |
| canvas_publish_lost_frame | 2 clients, 2 nodes, one client drags | violation | finding 1 |
| session_host_contend | 2 operations, 2 attaches, 2 generations | 1 004 942 | `OneGeneration`, `KillIsConfirmed`, `KillHitsItsTarget` |
| session_host_retry | 1 operation and its retry, 2 attaches, 1 tick, fairness | 306 727 | `AttachedAsAsked`, `ExitIsTold`, `LeasedNameIsFree`, `EmptyHostLeaves`, `LeaseKeepsHost`, `KillsAreAnswered`, `AttachesAreAnswered` |
| session_flow | 2 connections, 2 widths, 3 chunks, 1 attach each | 117 278 | `ScreenThenStream`, `PausedWhileHeld`, `TicketAwaitsDrain`, `OutputIsBounded`, `GoneHoldsNothing`, `SizeFitsViewers` |
| session_client | 2 terminals, 2 attaches, 1 kill of 2 attempts, 1 lost connection, 2 generations, symmetric | 1 609 469 | `ViewsHear`, `NoGhost`, `OneAnswerEach`, `DeadStaysDead`, `KillsOnlyTheMeant` |
| session_client_retry | 1 terminal, 2 kills, 2 losses | violation | finding 4 |
| delivery_hold | 3 messages, capacity 2, TTL 1, fairness | 80 612 | `HeldOnce`, `AcceptedEnds` |
| delivery_lost | 2 messages | violation | finding 2 |
| trigger_sweeps | 2 triggers of which the user changes 1, an interval of 2 and a one-shot, 2 sweeps under way, 2 writes queued, fairness | 893 259 | `OneDeliveryUnlessOvertaken`, `OneShotsOnTime`, `ConsentSurvives`, `KeepsFiring` |
| trigger_twice | 2 triggers, 2 sweeps, no edits | violation | finding 3 |

Each module states a type invariant too. The runs check those of CanvasSync,
SessionHost, SessionHostClient and TriggerScheduler, whose mutants show what
they say beyond types (a count below zero, a schedule without a time, one
attempt too many).

### Bounds, and why they are enough

* *Canvas.* `MaxCasts` bounds the casts of a client (in CanvasPublish, those its
  log holds and the next change could add). The rules look at one node, one
  client and the last seq seen: what can go wrong needs a cast of one's own, a
  peer's before or after it, and a second one of one's own while the first is
  unacked. Both proofs, of the invariants and of the refinement, lift every
  bound of CanvasSync; those of CanvasPublish lift its bounds too.
* *Session host.* `MaxGens` 2: the generation that is ended and the one that
  takes its name. When it is reached a spawn can only fail, which the code also
  allows. `Window` ticks are the lease and the grace period; what matters is
  which of the two runs out first and whether a retry comes before or after.
  Retries of an operation carry what its first request expected, as the client
  sends them. The proofs lift these bounds for the safety of the registry.
* *Flow.* `MaxChunks`, `MaxAsks` and `MaxJobs` bound output, attaches of a
  connection and the jobs a viewer's resizes may queue. `High` is reached, left
  and reached again in the stream run. The process writes nothing while it is
  paused (the kernel buffers it), so that the high-water mark bounds the queue.
* *Client.* One kill with two attempts, one connection lost and two generations
  are a kill whose reply is lost, retried over a new connection, while another
  app has created the session or the process has lived on. Two terminals are
  needed for one to leave while the other stays. The numbers of attaches, kills
  and losses are bounds on what users and networks do; with 2 kills, 1 terminal
  and 1 attach (328 343 states), and with 3 attaches and no kill (816 881), the
  same properties hold. The proofs lift all these bounds, for every property
  of the run.
* *Triggers.* `Changed` are the triggers the user edits: one that changes beside
  one that does not covers a sweep that is overtaken over either. With both
  changed and `MaxWrites` 1 (1 640 000 states) the properties hold too. Restarts,
  edits and time are not bounded. The proofs lift all bounds for the safety
  properties.
* *Delivery.* Three messages are two that collide and one that comes later;
  ages beyond `MaxAge`, just past the TTL, are not told apart.

### Fairness

* `CanvasSync!Fairness`: each transport delivers what has been handed to it,
  weakly fair per client (`Stamp`, `Receive`); both are event handlers of live
  connections. Users and lapsing timers owe nothing.
* `SessionHost!Fairness`: only the host's own continuations (resumed kills, the
  end of a termination, publication after an exit, the steps of an attach).
  Processes may ignore a signal and clients may be silent; so both liveness
  properties have the premise that a signalled process always dies sooner or
  later, `[]<>~Dying`.
* `TriggerScheduler!Fairness`: time passes, the interval of the sweeps calls back,
  a sweep goes on, and a delivery resolves or throws (each call it makes has a
  time-out of its own). The user and the disk owe nothing. `KeepsFiring` has the
  premise that the host is not restarted for ever.
* `DeliveryQueue!Fairness`: traces and deliveries come back (both are bounded by
  time-outs of their own), time passes, and a timer that is due fires. Strong
  fairness of `Expire` says that idle events cannot win over the timer for ever;
  a timer callback waits for the event loop only, an idle event for a turn of
  the agent. The target need not ever be idle.

## 4. Findings

1. **A held-back drag frame is lost** (`canvas_publish_lost_frame`,
   `renderer/canvas/Canvas.tsx:2956`). When a peer's mutation is applied, the
   whole local canvas becomes the baseline (`adopt`) and the coalesced snapshot
   is dropped. A node being dragged has moved since its last cast frame; if it is
   released where it is, no later diff finds the difference, and the clients
   keep different positions. `canvas-sync.ts` promises that all clients converge.
2. **A message is dropped silently** (`delivery_lost`,
   `core/agents/delivery-queue.ts:194`). Two enqueues for a target without a
   queue each read an empty array of their own, await the trace, and set it; the
   second replaces the first. The header says "never a silent drop".
3. **A due trigger is fired twice** (`trigger_twice`,
   `core/trigger-scheduler.ts:201`). A sweep collects what is due before it awaits
   the first delivery. A trigger further down its list, due as ever and not in
   flight, is fired by the next sweep, and by the first one again when it gets
   there. The header says "a slow delivery cannot double-fire". It is the only
   way (`OneDeliveryUnlessOvertaken`). In the same way a sweep moves on a
   schedule that was anchored anew meanwhile, by the spec it had read.
4. **A retried kill changes its target** (`session_client_retry`,
   `core/session-host-client.ts:1525`). A kill that finds no process has no
   expected generation; asked for again after it stayed in doubt it probes once
   more, and takes what another app has created since for its target, though the
   comment says that an uncertain operation "skips this probe". Between the
   attempts of one call this cannot happen (`KillsOnlyTheMeant`).

Two more sentences of `delivery-queue.ts` do not hold in the model, and no
property states them: "never enqueues past capacity" (line 164; the bound is
checked before the await and not after, nor when a message goes back), and that
what goes back is put "at the FRONT, preserving order" (line 215; two idle
events flush at once, and the younger message goes back last and so comes
first).

Three more things the models show of the code are exempt from a property by
name instead of stated by one. A kill that found no process and is confirmed
while an attach spawns one drops that view without a detach, and `preAckExit`
is never reset, so that an attach that was queued when another was told of an
exit spawns a process and then fails (both: `NoGhost`). Disarming without a
record in memory answers without a write, though the file may still hold the
record after a write that failed (`Disarm`).

What survives the array that is put aside and comes back is checked: a message
is never in two pairs of hands (`HeldOnce`), and one that was not put aside does
come to an end (`AcceptedEnds`).

## 5. Proofs

All theorems hold for any sets of clients, requests, sockets, messages or
triggers and any bounds. What they assume is what the modules assume of their
constants, each by a name of its own: that bounds are natural numbers, that the
marker for "nobody" is not a member of the set it marks the absence in, that the
low-water mark is below the high one, that messages and nodes are finitely many
(a client diffs an array of nodes), that a kill is tried at least once.

**CanvasSyncProofs.** `Convergence` is not inductive: it says nothing while
mutations are in flight. `IInv` adds

* `Fifo`: a client's stamped casts are in the log in their order, the next one
  to be echoed is known;
* `SeenIsLast`: the seq a client has seen of a node is the position of the last
  mutation of it delivered to the client;
* `PendingMatchesInFlight`: the unacked count is the number of echoes to come
  (less, once the record has lapsed);
* `SupersededIsStale`: an unacked cast marked as overtaken by a peer really is
  older than something seen;
* `ShowsOwnOrOrder`: a client shows its own latest unacked cast, or what the log
  says at the seq it has seen.

`Invariant` proves it by one step per action. `SettledClientsShowTheOrder`
follows from the last part, and `ClientsConverge` from it and from the fact that
with nothing in flight all have seen the same last position.
`NoDeliveryRubberBands` is an action property from the same invariant,
`PendingIsExact` and `TypeCorrect` are conjuncts.

Its last section is `Refinement`: CanvasSync implements the safety of
OptimisticCanvas, step by step, from `IInv`. The invariant is needed twice. When
the last echo of a node comes back the code changes nothing, while the promise
says that the client now shows that echo: it already does (`ShowsOwnOrOrder`).
And a client may hold on to a node only while an echo of it is to come: the
count says so exactly (`PendingMatchesInFlight`).

**CanvasPublishProofs.** The canvas may be ahead of what was cast, so
`ShowsOwnOrOrder` is no longer true of it. It is true of the publisher's
baseline, and the canvas differs from that only by what is owed. `PubIInv` is

* `OrderInv`: the parts of `IInv` that speak of casts and deliveries alone, and
  `NeverCastsRefused`, the publisher asks of a mutation what the reflector will
  ask;
* `ShownIsBase`: with no frame held back, a client shows its baseline, except
  where its value is refused for its size;
* `BaseHolds`: the baseline is one's own latest unacked cast, or what the order
  says at the seq one has seen.

The steps of the publisher cast any number of nodes at once (`Says...`, one
lemma per part of the invariant); a diff is a sequence with each changed node
once (`DiffLists`). `OrderInv` is inductive and gives
`PendingIsExactWithPublisher` and, with it, `DeliveriesAreNotAnswered`.
`BaseHolds` is not, because the code does not keep it: `adopt` makes the whole
canvas the baseline, a frame of another node that waits for the timer included.
This is finding 1. `FramesKept` says of a single step that it is not this one: no
delivery takes an uncast value of a node it is not about for the baseline. The
theorems then say how far finding 1 reaches. If no step of a behaviour is of
that kind, all clients agree and no edit is lost, for any sets of clients and
nodes (`ClientsAgreeUnlessFrameSwallowed`, `EditsReachUnlessFrameSwallowed`):
it is the only obstacle. And there is no such step if nobody drags
(`ClientsAgreeWithoutDrags`) or there is one node (`ClientsAgreeOnOneNode`, the
setting of the run canvas_publish; canvas_publish_lost_frame has two): these two
theorems have no proviso on the steps.

**SessionHostProofs.**

* `HostTypeCorrect` is inductive by itself.
* `NameIsHeld` (the registry holds the one generation that is not gone, and that
  is the last) is inductive given types, and gives `OneGenerationAtATime`.
* `HostInv` adds `PlansAreFixed` and `EndingIsMeant` (an operation in progress
  ends the generation its first request expected), `CompletedIsTrue`, and
  `ResumesAtOnce`: a kill whose wait is over runs before anything else can end
  the name, which is what `Settled` is for. The hard case is a kill that resumes
  after a wait: what it expected is at most the generation it waited for, which
  is gone, so the registry's last generation cannot be it and nothing is
  signalled by mistake. From it follow `AcknowledgedKillsAreTrue`,
  `LeaseExcludesUse` and `SignalsHitTheirTarget`.

Sections 5 to 10 extend it to `LifeInv`: for each attach what it asked
for and the generation it is on (`AskedFor`, `OnIt`, `ToldIfGone`), and for the
name `EndingHolds` (the operation that ends it ends the generation that holds
it, and owns its end once the process has died), `TimerIsSet` and
`LeaseWithinGrace`. `AnsweredAsAsked` and `EveryExitIsTold` come from the first
half; a request answered at the very end of a generation is told by the
publication itself or not answered. `EmptyHostIsTimed` needs `EndingHolds`: a
turn that is refused sets the timer again only if nothing ends the name, so
nothing may be ending a name that is free. `LeaseHoldsTheHost` needs
`LeaseWithinGrace`: whatever grants a lease restarts the window or stops it, and
both tick together.

**SessionFlowProofs.** `FlowInv` is two halves. Tickets, queue and size are
nearly inductive as stated; the bound on the queue needs `TicketAtHigh` (the
emulator's ticket is out whenever the mark is reached), the size that a pending
width still has a job to take it off (`PendingIsQueued`). What the viewers hold
needs the turn of the attach: until a close comes between, its socket is
subscribed exactly if it was before (`PrevIsSubs`), the screen is still the
newest output when it is committed (`ScreenIsNew`), and what the rollback of a
socket that has gone puts back is nothing (`GoneTurn`). The six properties of
the run are its conjuncts or follow from them.

**SessionHostClientProofs.** Three layers, each inductive given those before.

* `TypeInv` is the types and what bounds them: `SocketsCounted` (a connection is
  used up by a loss or by a further attempt of a kill), `NamesKept` (what is
  named exists). It gives `TypeCorrect`.
* `NetInv`, which gives `AnswersAreOnesOwn`: a party that awaits an answer has
  one request or one answer on its way, nobody else has any. The steps that
  break a connection are the interesting ones: what was written stays on the old
  connection and is still taken by the host, and the client no longer looks
  there. For that a connection not yet made must carry nothing (`Quieted`), and
  a party without a task must be idle (`IdleWithout`), or a task begun later
  would find its answer there.
* `KillInv`, which gives `DeadStayDead` and `KillsEndTheMeant`. Both are about
  kills the host takes long after the client has given up the connection they
  came on. `Targets`: every kill on any connection, present or past, is of the
  operation in doubt or of one the host has completed, and names that
  operation's generation, if it names one. So what the host takes up late is
  either answered from its record or meant (`DyingIsTarget`). `Ended`: what is
  complete is gone, and the host's word that a kill is done is of the operation
  that waits for it, which is where `NetInv` is needed. Gone is for good: the
  host numbers its generations and uses no number twice (`Born`).
  A kill without a generation is exempt from `KillsOnlyTheMeant`; finding 4 is
  what it may do.

**SessionViewsProofs** is about what is left when all is quiet, and `ViewsHear`
and `NoGhost` say nothing before that. What they need is an invariant that says,
for every state on the way, who has subscribed the connection and who will take
the subscription off again. On the three layers above it has three more.

* `ViewsInv`, for `ViewsAlwaysHear`. `RecordInv` is the client's record of the
  name: whoever is not attached yet is in the lane (`Queued`), what the lane has
  still to do for a retired state object comes before what is for the current
  one (`InOrder`), and while somebody is attached nothing of a retired one is
  left (`LaneOfObj`). `PartyInv` says who may ask what and when: the replay has
  the new connection to itself (`ReplayFirst`), and an attach that joins others
  asks for the generation they show (`AskedSame`). `FrameInv` is about the order
  in which a connection carries what the host says: an answer that grants a
  subscription is true, or the exit comes after it (`TakesTrue`), an exit that
  is still on its way is older than the subscription that holds (`ExitsPast`),
  and an answered detach is done (`DetachIsDone`). From these, `OnLive`: a state
  object that is attached on this connection is subscribed to the process it
  knows, or will hear that it is not; and `JoinedOn`: whoever is attached is so
  on the present connection, unless a replay is to come or a kill is in doubt.
* `GhostInv`, for `NoGhostRemains`. `Owned`: a subscription is still to be heard
  of, belongs to the current state object, or has its detach to come; or one of
  the two ways of the property was taken. It is not inductive. A kill that is
  confirmed takes the state object and sends no detach. If terminals were
  attached, that is the first of the two ways. If the only entry is of an attach
  that is still in the lane, the answer to it is already on its way, behind that
  of the kill; a grant is still to be heard of, so what has to be excluded is a
  refusal. `AtAsk` and `AskedLive`: while
  the state object is subscribed an attach asks for the process that lives,
  unless the kill in doubt is aimed at it (`Doomed`), so `RefusedDoomed`: only
  such a kill has it refused. And a kill that is aimed at what lives is not
  confirmed (`Ended`).

The steps are told once for all three: which frames a step adds to the
connection and which it takes off (`HostFrames`, `ClientFrames`, `DownIs`), what
it does to a state object (`StatesMove`), what becomes of a party's request
(`Outcomes`), and what of the lane (`LaneTurns`, `TaskStays`, `LaneGrows`).

**DeliveryQueueProofs.** `HeldOnce` speaks of the array the map knows, but an
array that was put aside comes back when the enqueue that has read it resumes.
`QueueInv` therefore speaks of all arrays in use, known to the map or read by an
enqueue under way: a message is at one place of one of them at most
(`OnePlace`), and is nowhere else in its life (`InPlaceIsQueued`). That a new
array is in nobody's use is a matter of counting: there is one number more than
there are enqueues to hold one.

**TriggerSchedulerProofs.** The schedules and the consent meet only where a due
trigger is fired, and have an invariant each. `ScheduleInv`: unless a sweep has
begun while another still had the trigger to fire, one sweep has it in hand
(`OneSweepHolds`), it is in flight while it is delivered (`DeliveredIsInFlight`),
and the list agrees with the spec it is anchored to (`DueIsAnchored`).
`ConsentInv`: the last write asked for of a trigger holds what the memory holds
(`LastWriteIsMemory`), and what the user was told has no write to come
(`ToldHasNoWrite`), so that a restart finds it whichever writes fail.

**Only model-checked.** Liveness is out of the prover's reach: `EventuallyAgree`,
the fairness in `KeepsPromise`, `KillsAreAnswered`, `AttachesAreAnswered`,
`AcceptedEnds`, `KeepsFiring`. And of CanvasPublish `Agreement` and
`EditsReachTheOrder` cannot be proved without their proviso, since finding 1
refutes them. Every other property of the
passing runs has its theorem.

## 6. What the models leave out

* *Canvas.* Clients attach before the first edit, and know of each other: the
  peers gate is open. A core that restarts (`reset`, `createReconnectWatch`),
  loads of a project, mutations of a project that is not open (Canvas.tsx
  2925-2936), and React's batching between `setNodes` and the ref it lags are not
  modelled.
* *Session host.* Start-up, authentication, protocol v1, the fingerprint of a
  replayed request and the rejections of malformed ones, the initial launch.
  A publication is atomic: between giving up the name and clearing the deletion
  there is one microtask, in which nothing of the outside runs. A late retry of
  a replacement kill renews the lease even though the replacement has exited;
  the code allows it, and so does the model.
* *Flow.* A write into the emulator that fails ends the session in the code and
  never fails here. Attachment epochs are reduced to whether a close came
  between. Columns and rows are one dimension.
* *Client.* Protocol v1, pause and resume, resize, input, captured and buffered
  output, launches (no caller asks for one). A request that times out is a
  connection that breaks, as the code drops the socket then; that its own frame
  is not resent, should it not have been written by then, is left out. The host
  is its answers, not its own module: a kill is the one request it takes more
  than a step for.
* *Delivery.* Wake-up of a hibernated target, a delivery that rejects, teardown.
* *Triggers.* The delivery itself with its gates and its own queue, the history
  of runs, "run now", requests that arrive while the arm file is being loaded.

The launch ledger (`session.ts` 393-445) is left out on purpose: no caller of
the application passes an initial launch or asks for one to be executed.

## 7. Plan

1. *Presence* with reconnection and the peers gate, composed with CanvasPublish:
   the gate opens late, the core restarts and stamps from 0 again.
2. *HostStartup* (`state-file.ts`, `hello-probe.ts`): one host per machine though
   several applications start at once and hosts crash.
3. *TriggerDelivery* (`core/trigger-delivery.ts`) over DeliveryQueue: the gates
   asked at fire time and again when the target is idle at last.
4. An abstract session name (one holder at a time, kill and replace atomic)
   that SessionHost implements, and SessionHostClient over it.
5. *RequestCoordinator* (`core/github/request-coordinator.ts`), *BrowserLease*,
   *PendingApprovals*, *WorkspaceStore*.
6. Proofs: that SessionHostClient's host is a host of SessionHost (item 4).
