# Shardlands: a TLA+ verification project

Shardlands is the backend of a small multiplayer game, written in Go. Most of its
infrastructure is its own: a consensus library, a storage engine, an event store, an
outbox, an actor library and a lock service under `src/pkg`, and the game (regions,
sessions, matchmaking, trades, arenas) under `src/services`. This directory holds TLA+
modules translated from that source, the TLC configurations that check them on small
instances, and proofs that TLAPS checks for every instance.

`PROJECT.json` is the machine-readable side of this file: which lines a definition
models, what each run checks, the hazards of the code and the properties aimed at them,
and the theorems.

To run a configuration: `tlc -config MCRaft.cfg MCRaft`. To check the proofs: `tlapm` on
each of the modules called `...Proofs` (`tlapm RaftProofs.tla`; section 5).

## 1. The system

```
   client ── gateway (session actors) ── world (region actors, shards) ── shard (raft group)
               │  │  └── matchmaking ── handoff ── dlock ── raft ── raftstore ── storage
               │  └───── arena (match instances; local or on Kubernetes through the operator)
               └──────── trade, inventory ── es (event store) ── storage
                                              └── outbox relay ── bus (JetStream) ── read models
```

| Part | State it keeps | Operations | What makes it correct |
|---|---|---|---|
| raft `pkg/raft` | term, vote, log (persisted); role, commitIndex, nextIndex, matchIndex | election, two RPC handlers, two reply handlers, Propose, restart, Stop | one vote and one leader a term across restarts; committed entries stay |
| raftstore `pkg/raftstore` | the HardState as records of the storage engine | Save, Load, Open | a crash inside Save leaves a state the node could have had |
| storage `pkg/storage` | WAL, memtable, tables, manifest | Put, Delete, Get, flush, compaction, Open | an acknowledged write survives; maintenance is invisible |
| event store `pkg/es` | global log of batches, an index per stream | Append with expected version, ReadStream, ReadAll, Open | an acknowledged event is never changed, lost or renumbered |
| outbox, bus, read models `services/outbox`, `pkg/bus` | checkpoint; stream, dedupe window, consumer position; last applied | publish, checkpoint, deliver, retry, dead-letter | every event is applied once and in order or is in the DLQ |
| inventory `services/inventory` | balances and reservations, folded from a stream | gather, reserve, release, commit, receive | no overdraft; a move is applied once |
| trade `services/trade` | phases of a trade | orchestrated saga, choreographed saga | a trade is a swap or nothing |
| dlock `pkg/dlock` | lease table, replicated by raft | acquire, renew, release | the holder has the largest token |
| handoff `services/handoff`, gateway | place of a player, fencing token of a session, audit trail | ToArena, ToHub, connect, disconnect | one world owns a player; the audit trail says which |
| matchmaking `services/matchmaking` | queues, running sagas, arenas | enqueue, leave, form, provision, assign, cancel, end | one match at a time; no arena leaks; nobody is stranded |
| world `services/world` | entities of a region, availability of shards | join, leave, tick with handoff, shard up and down | a player is simulated in exactly one region and his session knows which |
| actor `pkg/actor`, ringbuf `pkg/ringbuf` | mailbox ring, control queue, children, restarts | send, poison, stop, receive, restart, spawn | nothing lost or reordered while the actor lives; no child outlives its parent |
| resilience `pkg/resilience` | breaker state, places for probes, slots | Guard.Do | a breaker recovers, and lets few probes through |
| shard `services/shard` | a raft group in one process, its partitions; when each peer last answered a leader | Leader, Available, Partition, Heal | without a majority a shard is unavailable; a replaced leader is soon not taken for one |
| arena `services/arena`, `cmd/arena` | the match, the command queue, a sink per player, streams | tick, Push, Play, SetSink, GracefulStop | nobody's commands wait long; a match ends once and the process with it |
| operator `operator/`, K8sProvisioner | Arena record and Pod in the cluster, caches of both | Reconcile, finalize, Provision, Destroy | an arena has one Pod; neither record nor Pod stays for ever |
| ratelimit, clock, crdt, hashring, auth, player, chat, server wiring, observability, experiments | see `components` in PROJECT.json | | not modelled, see section 7 |

Where it is hard: every raft node releases its mutex while an RPC is out and acts on the
reply later; four layers (raftstore, storage, event store, outbox) write several records
for what callers see as one step, and a crash or an I/O error can fall between any two;
the delivery of events is at least once; sagas compensate with calls that may fail
themselves; a player's place is known to a region, a session, a saga and an audit trail at
once, and they learn of a change by messages that cross or, in a full mailbox, are
dropped; actors sleep on coalesced signals over a lock-free ring; the goroutine of a match
delivers to streams that end at the same time; and the operator decides on caches that lag
behind the cluster, with several writes in a turn.

## 2. Modules

| Module | Models | Built on |
|---|---|---|
| `Raft`, `MCRaft` | pkg/raft: node, transport, persistence; proofs in `RaftProofs` | |
| `KVStore` | what a storage engine promises: a durable map | |
| `Storage` | pkg/storage; proofs in `LayersProofs` | implements `KVStore` |
| `RaftStore` | pkg/raftstore: Save as its single writes on a durable map; proofs in `LayersProofs` | |
| `EventStore` | pkg/es; proofs in `OutboxProofs` | |
| `Outbox` | relay, bus, Consume, read models; proofs in `OutboxProofs` | extends `EventStore` |
| `Inventory` | services/inventory over a log of events | |
| `Trade` | the orchestrator and the gateway's ids; proofs, with those of the inventory, in `TradeProofs` | extends `Inventory` |
| `Choreography` | the choreographer and es.Project; proofs in `TradeProofs` | extends `Inventory` |
| `Sagas` | a deployment: one of the two styles of saga on the same inventories | `Trade`, `Choreography` |
| `DLock` | pkg/dlock over the committed log of raft | |
| `Handoff` | services/handoff and the session actor; proofs, with those of the lock, in `LayersProofs` | extends `DLock` |
| `MCLayers` | the engine, or the store of a raft node on it, or the leases and the transfers above | `Storage`, `RaftStore`, `Handoff` |
| `Matchmaking` | services/matchmaking; proofs in `MatchProofs` | |
| `MCMatchmaking` | the players and matches of the run | `Matchmaking` |
| `World` | regions, the router, sessions in the hub; proofs in `WorldProofs` | |
| `Shard` | services/shard over the elections and heartbeats of its raft group, in time; proofs in `WorldProofs` | |
| `MCWorld` | the regions, or the raft group behind a shard | `World`, `Shard` |
| `Fifo` | a bounded queue whose push takes its place and becomes visible later | |
| `RingBuf` | pkg/ringbuf, one step for each memory access; proofs in `ArenaProofs` | implements `Fifo` |
| `Arena` | a match: tick goroutine, Play handlers, the main of its process; proof in `ArenaProofs` | |
| `Operator` | the reconciler, K8sProvisioner in its saga, and the cluster between them; proofs in `ArenaProofs` | |
| `MCArena` | an arena's process, the ring of its commands, or its record and Pod | `Arena`, `RingBuf`, `Operator` |
| `Actor` | a process: mailbox (as `Fifo` has it), signals, supervision, shutdown; proof in `ActorProofs` | |
| `Resilience` | breaker and bulkhead | |
| `MCActor` | an actor and its senders, or a guard and its callers | `Actor`, `Resilience` |

An `MC` module with an "or" puts specifications side by side that share no state: a variable
(`layer`, `view`, `side`, `part`) says from the start which one a behaviour is of,
and the others stay in their initial state. The properties of the others hold in it because
they hold in that state.

Steps are what the code does atomically: a critical section, a single write to a file, a
call on a store, the handling of one message by an actor, or (in `RingBuf`) one access to
memory. Names of definitions are those of the source wherever TLA+ allows it. A
definition called `Mut...` is not part of a specification: it is the changed form of the
definition after it that PROJECT.json names, and shows that a property notices such a
change of the code.

How state corresponds, where it is not plain from the declarations:

* **Raft.** `node[i]` is the struct `Node`, `disk[i]` what `Storage.Save` wrote last; the
  pair (`node`, `disk`) changes together because `persistLocked` runs under the mutex.
  RPCs in flight are four sets; a call may fail at any time, and a reply is handled under
  the conditions its goroutine checks. `ballots`, `elections` and `committed` are history.
  A candidate's counted votes are the closure variable of `startElection`.
* **Storage.** Files are values of `disk`-like variables; `pc` walks through flush,
  compaction and Open one file operation at a time; Crash empties memory; a torn WAL tail
  is `TornRec` in the log, an unfinished table a file that is `Partial`. The refinement maps
  `KVStore`'s durable map to what Open would recover, and leaves out the steps before or
  after which a torn record lies in the log.
* **EventStore and Outbox.** An Append is the check, the Put and the update of the index;
  the Put may fail before or after it takes effect (the second is how `storage` reports a
  failed flush). JetStream is external: it keeps a stream, deduplicates ids within a
  window that can end at any time, and redelivers up to `MaxDeliver` times.
* **Trade, Choreography.** A step is one call on the event store; the fold of the stream
  is `Inventory`'s.
* **DLock.** The replicated log is the sequence of committed commands; a replica has
  applied a prefix; a proposal may be lost, or be committed after its caller gave up.
* **World, Handoff, Matchmaking.** Each takes the others by what it sees of them: World
  takes orders to enter and leave the arena at any time, Matchmaking takes `Assign` and
  `Release` as calls that may fail, Handoff has a player's sessions one by one.
* **World.** A region hands a player over in two sends: `HandOver` is the Join to the next
  region (`region.go:194`), `Tell` the AssignedRegion to his session (`:195`), and other
  actors may run between the two. `late` remembers the players whose session was told by
  the next region first.
* **Handoff.** `Audit` appends the event, or the append fails and is only logged. An ask that
  times out leaves the order in the mailbox of the session (`late`).
* **Matchmaking.** An Assign or Release whose ask times out may leave its order with the session
  (`orders`), which carries it out later (`CarryOut`).
* **Actor.** A message is its sender and a number. `Push` takes a place, `Publish` makes it
  visible, `Signal` signals. The capacity is at least two because `ringbuf.New` rounds up.
* **Resilience.** Time is one fact: whether `OpenDuration` has passed since the trip.
* **Shard.** A unit of time is a heartbeat interval. `acked` is `lastAck` as an age that
  stops to count past the window; an election and the answer to a heartbeat take less than a
  unit, because the network of a group is inside the process. An answer that is on its way
  when the group is cut still arrives. Whether a voter's log lets it grant a vote is left open.
* **Arena.** A tick (drain, simulation, end of match, copy of the sinks) is one step, because
  only the tick goroutine touches that state; each delivery after it is a step of its own.
  `stream[p]` is how far the Play handler of `p` has got: its deferred function removes the
  sink and then closes its channel.
* **Operator.** `seenRec` and `seenPod` are the caches the manager's client reads, each
  brought up to date at any time. A turn of Reconcile with two writes is two steps, with
  `work` between them, and the second may never come (an error, a conflict, a crash). An
  update succeeds only if the record is still the one that was read.

## 3. Runs

Nine runs that pass and three that show a disagreement between the code and its comments or
documents; between them the passing ones fire every action of every module.
`CHECK_DEADLOCK FALSE` stands where the bounds (number of terms, sends, commands, matches,
...) or a shutdown bring the model to an end; that something must happen is then a liveness
property of its own, not the absence of deadlock.

| Run | Instance | Shows |
|---|---|---|
| `raft` | 3 nodes, 2 terms, logs of 2, 2 calls in flight; symmetry and a VIEW | `ElectionSafety`, `StateMachineSafety`, `CommittedNeverCut` |
| `raft_restart` | 2 nodes, 2 terms, logs of 3, a restart; fair | `TypeOK`, `VoteOnce`; `LeaderConverges`: a lasting leader brings the other node to its log and commits it |
| `layers` | engine: 2 keys, compaction at 2 tables, 3 table numbers, one I/O error, one torn record; store: logs of 3 entries in 2 terms, a crash between any two writes; 2 transfers of one player, 2 connections, time 0..2 with leases of 1, 4 commands, one late ask, audit appends that fail | `Refinement` of `KVStore`, `ReadsAreDurableUntorn`; `CrashedSaveKeepsLog`; `NewestHolder`, `AuditTellsPlace` |
| `outbox` | 2 streams, 2 events, reads of 1 or 2, a Put that fails after taking effect, a crash, failing publishes, handlers, checkpoints, acknowledgements; 3 troubles | `AckedForever`, `NeverSkipped`, `AppliedOnceInOrder`, `NeverDropped`, `EventuallyApplied` |
| `trade` | 2 opposite trades over goods for one, both styles of saga, one trouble (a failing call, a crash or a gather) | `AllOrNothing`, `NoOverdraft`, `SettledMeansSwapped`; `ChoreographyAllOrNothing`, `EventuallyDecided` |
| `matchmaking` | 3 players for duels, 2 matches, 3 troubles | `OneMatchAtATime`, `NoArenaLeak`, `NobodyStranded` |
| `world` | 2 players, 3 regions, 2 ticks with handoffs, 1 trouble; 3 replicas, a window of 4 heartbeats, election timeouts from 3, 2 terms, 2 partitions or heals | `InStepInOrder`, `OneOwner`; `CutOffIsUnavailable`, `SplitIsShort` |
| `actor` | 2 senders and a mailbox of 2: 3 sends with both overflow policies, one failure, Stop and a poison pill, or 4 sends that block, alone; 4 callers, 3 slots, 6 errors, one panic; fair | `NothingVanishes` (in order, once, none lost), `SendReturns`, `EverythingRead`; `Recovers` |
| `arena` | a duel of 3 ticks, a queue of 2 of which a tick drains 1, 2 commands besides hanging up; 3 producers with 2 pushes each on a ring of 2 slots; 2 Pods, one fault; fair | `Prompt`, `ArenaEnds`; `NoRace`, `IsFifo` (refinement of `Fifo`); `OnlyTimeoutLeaks`, `FinalStays`, `OnePod`, `EverythingGoes` |
| `storage_torn` | as `layers` | violates `ReadsAreDurable` |
| `arena_hangup` | as `arena` | violates `SurvivesHangUp` |
| `operator_default` | the saga's context ends before the readiness wait, as in the program (15 s, 30 s) | violates `CancelledIsDestroyed` |

Where a bound is called `MaxTrouble` it is one budget for all kinds of things that go wrong,
so that each kind is met, and each pair (or triple) of kinds, without paying for all of them
at once: in `Outbox` for crashes and errors of every kind, in `Trade` and `Choreography` for failing
calls, crashes and gathers, in `Matchmaking` for failing provisions, assignments and
releases, early ends, and players who queue or connect again, in `World` for shards that
flip, dropped messages, matches and lost connections.

Why the bounds are enough to be worth a run: each is the smallest at which the case the
property is about happens. Two terms and one restart give a voter the chance to vote again
in a term; three nodes have two different majorities; two log slots let a follower hold an
entry that must be replaced; compaction at two tables with three numbers merges two flushed tables into a third; a read limit of one cuts a batch of two; goods for one trade make
two trades compete; a ring of two slots with six pushes goes round three times; two ticks
take a player across a border and on across another; two senders
with three sends fill a mailbox of two and one blocks, with a fourth both do; the window and the shortest timeout of
`Shard` are the program's own in heartbeats, and two terms give a leader a successor while it
is still inside its window; a queue longer than a tick drains makes commands wait; a second
Pod number is what `OnePod` is about. One bound is too small for a hazard of the code: the
schedule that makes the commit of an entry of an earlier term unsafe needs four terms, and
`raft` has two. There the theorems `CommitsAgree` and `NeverCut` stand alone.

Symmetry is used where a run has no liveness property: servers, keys, candidates, transfers,
players, and regions other than the one where players spawn (in `MCLayers` keys,
candidates and transfers are swapped together, since a behaviour is about one kind of them). The VIEW of `MCRaft` leaves out the
fields of a node that no guard, handler or property reads before they are overwritten, and
the ballots of terms that are over; `MCRaft.tla` says why that is sound.

Each property has a mutant in PROJECT.json: a plausible bug in one mapped definition under
which TLC violates the property in the same run. The `TypeOK` of the modules other than
`Raft` document what their variables hold and are true in the same instances.

### What the violations show

* `storage_torn`: the engine's log is opened for appending and a torn last record is not cut
  off (`pkg/storage/wal.go:31`), while the replay stops at it. TLC's counterexample is a crash
  inside an append, an Open, and a Put that returns: what Get shows is no longer what the
  files hold for the next Open, so a crash now would lose the Put (the run stops before it).
  The comment on durability (`wal.go:16`) promises that a process crash loses nothing.
* `arena_hangup`: `publishWith` copies the sinks under the lock and delivers after it
  (`services/arena/arena.go:526`); a player who hangs up in between has his channel closed
  (`server.go:72`), and the send on it panics. The match of everybody ends with the process.
* `operator_default`: `runSaga` gives its steps 15 s (`saga.go:243`), `K8sProvisioner` waits
  up to 30 s for the Pod, and at the end of the context it returns without Destroy
  (`k8s_provisioner.go:113`). The saga is cancelled and its arena comes up for nobody; it
  goes when its TTL or its match is over (`EverythingGoes`). That this is the only way is
  `OnlyTimeoutLeaks`, which holds for all timeouts.

### Statements the code does not keep

Comments and documents say more that the code does not keep. The modules state these
sentences beside the properties, under the names below, and the models contain the steps that
break them. They are in no run: the properties that are have a condition instead
(next table). To see the counterexample, make the statement the only property of the
configuration named, with the change given.

| Statement | Where TLC refutes it | What the code does |
|---|---|---|
| `InStep` | `MCWorld.cfg`; with `MaxTrouble = 0` also | a full mailbox drops an AssignedRegion like a frame (`gateway.go:448`); without any trouble, a region hands a player on and tells his session before the region he came from has (`region.go:195`), and the session takes the older message last |
| `GoneForGood` | `MCWorld.cfg` | a player disconnects during a handoff: the Leave goes to the region his session knows of, and his entity stays on the other (`gateway.go:689`, against `:680`) |
| `FailedMovesNobody` | `MCLayers.cfg` | a transfer whose ask timed out is recorded as failed and its lease released (`handoff.go:126`: "nothing was moved"), and the session carries it out |
| `NothingSkipped` | `Outbox.cfg`, `MaxCalls = 3` | the number of a batch whose Put failed behind its record is given again (`es.go:191`); when the relay has published the first, it passes the second by, which was acknowledged |
| `MovedToDlq` | `Outbox.cfg` | the error of the publish to the DLQ is not looked at (`nats.go:198`), and the message is acknowledged |
| `SettledMeansMoved` | `MCTrade.cfg`, `Offers <- MCBack`, `Proposed <- MCBackProposed` | trade ids start over with the process (`gateway.go:388`); a trade under an old id finds its steps taken and settles with nothing of its own moved |
| `CancelledMovesNothing` | `MCTrade.cfg` | a failure inside `settle` leaves what it has moved (`orchestrator.go:81`) |
| `NothingHeld` | `MCTrade.cfg` | a failure of `appendPhase` skips the compensation (`orchestrator.go:53`, against `:26`) |
| `ChoreographySafeToReplay` | `MCTrade.cfg`, `Stock <- MCLateStock`, `MaxTrouble = 2` | after a crash between `releaseProposer` and `cancelled` (`choreographer.go:119`) the replay settles a trade whose reservation is gone |
| `OneMatch` | `MCMatchmaking.cfg` | who queues again while his match is set up is taken twice (`saga.go:164`, against `:190`) |
| `BackInHub` | `MCMatchmaking.cfg` | a failed Release leaves a player in an arena that is gone (`gateway.go:779`) |
| `ExitsWithTheMatch` | `MCArena.cfg` | the process is to exit when the match is over (`cmd/arena/main.go:12`), but `GracefulStop` waits for clients that wait for the server |
| `TTLClears` | `MCArena.cfg` | the TTL counts from StartTime, which is written after Create and never again (`arena_controller.go:131`): if that update fails, an arena whose process does not end by itself is never cleaned up (`arena_types.go:48`) |

### Conditions the properties need

A number of properties state what a comment or document promises under a condition, because
without it the code does something else. The conditions are part of the definitions; the
steps that break them are in the models, so most of what follows can be reproduced by
removing the condition. (The first row is the instance of `Raft` with one server; the second
lies outside the model.)

| Where | Without the condition |
|---|---|
| raft, one node | a cluster of one accepts commands and never commits them: `commitIndex` is advanced on a peer's reply only |
| raft, `Stop` | a reply goroutine of a stopped node can write over the vote that its successor on the same Storage has saved |
| `CrashedSaveKeepsLog`: what both logs share, or a log that only grows | a crash inside a Save that replaces a tail leaves a hole that Load refuses, or new entries before old ones |
| `ReadsAreDurableUntorn`, `Refinement`: no torn record | see `storage_torn`; and a flush that drops the torn record with the WAL brings back what was hidden behind it |
| `NeverSkipped`, `NeverDropped`, `EventuallyApplied`: no failed Put | see `NothingSkipped` |
| `NeverDropped`, `EventuallyApplied`: no failed DLQ publish | see `MovedToDlq` |
| `AllOrNothing`: no failing call, no crash | see `CancelledMovesNothing`, `NothingHeld`, `SettledMeansMoved` |
| `SettledMeansSwapped`: an id given out once | see `SettledMeansMoved` |
| `ChoreographyAllOrNothing`: no failing call, no crash | see `ChoreographySafeToReplay` |
| `EventuallyDecided`: no failed phase append | the error is dropped and the trade waits for the next restart |
| `AuditTellsPlace`: or the destination of a late order, or of one whose event was not written | an order is carried out after its ask timed out (`FailedMovesNobody`); a failed append is only logged |
| handoff, two connections | a new session starts with token 0, so fencing does not reach across a reconnection; the cleanup of the old connection can remove the new session from the registry |
| `OneMatchAtATime`: queues once | see `OneMatch` |
| `NobodyStranded`: no failed Release, no early end, and not the player whose own Assign timed out | he stays in an arena that is gone (`BackInHub`); the saga does not know that he is in it |
| matchmaking, cancel | a player who disconnected is queued again, and a queue that is full again is not served until the next Enqueue |
| `InStepInOrder`: no dropped message, no region overtaken | see `InStep` |
| `InStepInOrder`, `OneOwner`: first connection, no match | orders of a match that cross a handoff leave a player in the hub and in the arena; for a disconnection that crosses one see `GoneForGood` |
| `Recovers`: no panic | a call that panics keeps its place among the probes; calls from before the trip are counted as probes when they report |
| `SplitIsShort`: within the window | a leader that was replaced counts as active for up to four heartbeats after the election of the next, and `Leader` answers with the first of the two |
| `ArenaEnds`: or a panic, or a stream that stays open | see `arena_hangup`, `ExitsWithTheMatch` |
| `OnlyTimeoutLeaks`: no failed call, no end of the context during the wait | an error of Create, Get or Destroy leaves the record; for the times see `operator_default` |
| `OnePod`: no Pod lost | a Pod that is lost is created again as long as the reconciler has seen no final phase, also when its match was over |
| `EverythingGoes`: StartTime written | see `TTLClears` |
| `NothingVanishes`: until the process has exited | a message published after the last drain is neither handled nor counted as a dead letter |

## 4. Fairness

Safety properties need none. The liveness properties assume:

* **Raft** (`FairSpec`): the heartbeat loop keeps calling `replicateTo` for every peer and
  its calls keep getting through (strong fairness for each peer, because a call may be lost
  any number of times); handlers run. Elections and restarts are bounded and not fair.
* **Outbox** (`FairSpec`): the relay's and the consumer's loops run and Open follows a crash.
  Errors are bounded, which is the retry loops' own assumption.
* **Choreography** (`SagaSpec` of `Sagas`): the Project loop runs (`Work`), also after a restart.
* **Arena** (`MCArena`, `ProcessFairness`): the tick goroutine, main and the handlers' deferred
  functions are scheduled. Clients are not fair: they send, hang up or stay as they like.
* **Operator** (`MCArena`, `ClusterFairness`): controller-runtime requeues a turn until it has
  nothing to do, watches deliver in the end, time passes, and the kubelet and the garbage
  collector do their work. A Pod need not start or end, and the saga may stop anywhere.
* **Actor, Resilience** (`MCActor`): goroutines that can take a step are scheduled,
  `Receive` and hooks return (pkg/actor/README.md names this as a limitation), calls through
  the breaker keep coming and return, and time passes. There is no fairness for arriving
  messages or stops. That a blocked sender gets its place is shown for finitely many sends:
  the code gives no queue order to blocked senders.

## 5. Proofs

What TLC checks for one instance, these modules prove for every value of the constants
(every number of nodes, players, goods, capacities, calls, crashes and losses). The bounds of
the models occur in guards only, and the proofs use no more of them than that they are
numbers. Each proof has the same form: an invariant that implies the property and that
every action keeps, one lemma for each action, and the lemmas about the operators of the
model stated once.

| Module | Theorems |
|---|---|
| `RaftProofs` | `TypeCorrect`, `AlwaysDurable` (`Durable`), `VotesOnce` (`VoteOnce`), `OneLeaderPerTerm` (`ElectionSafety`), `CommitsAgree` (`StateMachineSafety`), `NeverCut` (`CommittedNeverCut`, an action property) |
| `LayersProofs` | `StoreTypeCorrect`, `ReadsSurviveCrash` (`ReadsAreDurableUntorn`), `EngineIsDurableMap` (`Refinement` of `KVStore`); `RaftStoreTypeCorrect`, `CrashKeepsLog` (`CrashedSaveKeepsLog`); `HandoffTypeCorrect`, `LeaseHolderIsNewest` (`NewestHolder`), `AuditIsRight` (`AuditTellsPlace`) |
| `MatchProofs` | `MatchTypeCorrect`, `OnlyOneMatch` (`OneMatchAtATime`), `ArenasAreSeenTo` (`NoArenaLeak`), `NobodyLeftBehind` (`NobodyStranded`) |
| `WorldProofs` | `OneRegion` (`OneOwner`), `SessionFollows` (`InStepInOrder`); `GroupTypeCorrect`, `CutOffGroup` (`CutOffIsUnavailable`), `ShortSplit` (`SplitIsShort`) |
| `TradeProofs` | `TradeTypeCorrect`, `NobodyOverdrawn` (`NoOverdraft`), `SettledTellsTheSwap` (`SettledMeansSwapped`), `HappensOrNot` (`AllOrNothing`); `ChoreographyTypeCorrect`, `ChoreographyNobodyOverdrawn` (`NoOverdraft`), `ChoreographyHappensOrNot` (`ChoreographyAllOrNothing`) |
| `ArenaProofs` | `RingTypeCorrect`, `NobodyRaces` (`NoRace`), `RingIsFifo` (`IsFifo`, the refinement of `Fifo`); `CommandsArePrompt` (`Prompt`); `OpTypeCorrect`, `FinalIsFinal` (`FinalStays`), `NoSecondPod` (`OnePod`), `LeaksOnlyAtTimeout` (`OnlyTimeoutLeaks`) |
| `ActorProofs` | `Delivery` (`NothingVanishes`) |
| `OutboxProofs` | `OutboxTypeCorrect`, `AckedStay` (`AckedForever`), `CheckpointSkipsNothing` (`NeverSkipped`), `AppliedInOrder` (`AppliedOnceInOrder`), `NothingDropped` (`NeverDropped`); `OutboxInvariant`, the inductive invariant |

### The arguments

**Raft, elections.** `TypeOK` is not inductive: a leader's walk back of `nextIndex` needs that
`nextIndex` of a leader is at least 1, hence `TypeInv == TypeOK /\ LeaderNext`. The theorems
about votes and elections rest on

```
ElectionInv == Durable /\ VoteOnce /\ BallotsRemembered /\ RepliesHonest
                       /\ VotesReal /\ LeadersElected
```

`BallotsRemembered`: a node's persisted term is at least that of every vote it has granted,
and in that term its vote is the one it granted; without `Durable` a restart would break
it. `RepliesHonest`: a granted reply in flight stands for a real vote. `VotesReal`: the votes
a candidate has counted in its term are real ones. `LeadersElected`: an election won is
backed by a majority of votes. `MajoritiesMeet` (two majorities of a finite set share a
member) turns the last one and `VoteOnce` into `ElectionSafety`.

**Raft, logs.** `SafetyInv` says that there is a history `H`, where `H[t]` is the longest log
the leader of term `t` has had, which explains the state: every log, and every slice of one
that a call carries, is up to each of its entries what the leader of that entry's term had
(log matching). An entry of a leader's own term is `Open` while a majority may still
acknowledge it before it votes for somebody later, and `Fixed` once it is committed. `LaterLeadersHave`
(leader completeness): whoever leads later has all that may be or is committed. It is
inductive only with `AcksHold` and `CommitsHeld`: a node that has acknowledged has the
entries, and so has every candidate it votes for later, which is what the comparison of
logs before a vote is for.

**Storage.** Outside a flush, what is in memory and what is on disk differ in known ways:
`Logged` (the memtable is what the WAL replays to, until a torn record hides some of it),
`Same` (for a key that is not in the memtable, the tables in memory and those of the
manifest show the same), `Flushed` (before the WAL is given up, the tables have its records),
`Doomed` and `Fresh` (a table that is deleted, or whose number is given out, is not in use). The map that a
crash would leave is `KVStore`'s; the proof takes each step of the engine to a step of that
map or to none. It found a case that the run's bounds do not reach: a reset of the WAL that
drops a torn record makes what was hidden behind the record durable, which is not a step
of the map. `Refinement` therefore excludes the steps before or after which a torn record
lies in the log.

**RaftStore.** `SaveInv` says that `ents` is what the first `k` writes of a Save make of the
old log, for some `k`, and `todo` the rest of the writes; the property is about what is left
for each `k`.

**Locks and transfers.** The token of a lease is the index of the log entry that granted it
(`Tokens`); a lease gives way only when it is over (`Succession`); an owner acquires once, and what a client
believes to hold is a lease that was in the table (`Grants`). So an older lease than the
holder's is over. For the audit: the session's token is the largest it has seen
(`Largest`), and comes from a transfer that has told the audit, will tell it, was too late,
or could not write its event (`Source`); `AuditTellsPlace` excepts the last two, each at
the transfer concerned.

**Matchmaking.** `Singles`: who has queued once has one place, in one queue or in one match
that is not cancelled. `Running`: with no match over before its saga, an arena runs from the
first assignment to the end of the match. `Seated`: with no failed Release and no early
end, a player whom the saga counts as assigned to a match, and who is in its arena or whom
an order that was late will take there, has the saga's undoing or the end of the match still
to come to him. A failed Provision or Assign is within it; an Assign that timed out and
is carried out later is not counted, and nobody undoes it (`FailedMovesNobody` is about that case).

**Regions.** `HomeOf`: one region simulates a player or has his `Join` in its mailbox, and
that message is there once. Unless a message was dropped, or the player was handed on before
the region that handed him over had told his session (`InOrder`), it is the region his session will
know of when it has read its mail and whoever owes it an `AssignedRegion` has sent it
(`HeadedFor`).

**Groups.** `Sides`: since the group was cut, contact younger than the cut was on one side.
`Elected`: since a leader's election, a majority has not answered any leader of an earlier
term; so two leaders that both count as active are within the window of the later election.

**Trades.** The balances are folds over the events of a stream; what one more event adds is
proved by induction over the least counterexample. `CanPay`: while an append that will pay
is under way, its expected version is either out of date or the balance covers it
(`NoOverdraft`). `SwapInv`: if a trade id was proposed once, its call
has made the moves before the step it has got to and no later one, and they change each
inventory by that part of the offer in the stream (`Ledger`, `Tells`); so a stream that says
settled has its swap in the inventories (`SettledMeansSwapped`), whatever failed or crashed on
the way. For `AllOrNothing`, `Books`: with no failed call and no crash, the
moves made for a trade id are exactly those its call has got to (`Table`, `Placed`), what they
add up to is known for each of its steps (also when a player trades with himself), and an id
not yet given out has none (`Fresh`).

The choreographed saga makes the same moves in the same order, so it is proved with the same
tables: `Place` says where a call of `Execute` with the moves of a trade behind it would
be. For the trade of the event in hand that is told by the step of the reaction, for all
others by the phase in the log, whatever answers came in between. `Told` is the claim that the
inventories agree with that place, and that no event of a trade with a verdict is in hand. It
holds as long as no call has failed and the process has not died: a dropped error of a
phase append, or a replay in the middle of a reaction, leaves the phase behind the moves.
`ChoreographyNobodyOverdrawn` has no such condition.

**Ring buffer.** The positions `First .. First + Cap - 1` have one slot each. `Marks`: the
sequence of the slot tells whether the position is free, claimed or published. `Exclusive`: a
claim is in the window and of one producer. `Loads`: a position whose slot was found free
stays in the window, which is why the compare-and-swap may come late. Every step is then a
step of `Fifo` or none: the claim takes the place, the publication makes it visible, and
`FreeSlot` (before the counter moves) hands the value over.

**Commands of an arena.** The `i`-th command of the queue satisfies
`i + MaxDrain * (tick - at) <= InputCapacity`: its place shrinks by what a tick drains.

**Operator.** `Behind`: what a cache knows of the end or the deletion of a record is true for
good. `Kept`: while the operator has seen no reason to delete the Pod and no Pod was lost,
the one that was created is there. `Seen`: a record whose finalizer a turn has read goes away
only after the turns have seen its deletion. So the turn that creates a Pod works for a record
that exists, and without a first Pod (`OnePod`).

**Actor.** `Sorted`: the messages handled, the dead letters and the mailbox together are what
the senders have sent; those of a sender are in order along the messages handled followed by
the mailbox, and no dead letter is in either. Each step of a sender or of the process
moves one message at most: into the mailbox or to the dead letters, or from the head of the
mailbox to one of the two others.

**Event store.** `Log` relates a database to an index of it: up to the last number, the
batches lie end to end (`Laid`), each stream's list has its events at their positions
(`Indexed`), and the batch starts are the keys (`Listed`). While the store is open that is
so up to `global`, and beyond there is at most one record, which continues the log
(`Continues`): that of the Append under way, or what a Put has left that returned an error.
The next Append writes over it or a crash makes it part of the log; so at every crash the
database as a whole is a log (`WholeLog`), although `global` may not have got to its end.
`Open` checks each batch by what it has counted before it; `AllFit` says that a log passes
every one of these checks, and `OpenFinds` that the index Open builds is the one the log
determines.

**Outbox.** `Published`: the stream has all numbers up to the checkpoint, in memory and on
disk. It is inductive because a scan starts no later than the batch with the next event
(`Scans`), also when Appends return, or write over a record a failed Put left, between the
choice of the start and the scan; what it returns is therefore numbered on from the
checkpoint without a hole (`ScanIs`, `Ready`). So the stream is `Gapless`: a message has all
smaller numbers before it, repeated ones included. That is what `Consume` needs:
comparing with `lastApplied` is right only if nothing below it is still to come (`Seen`).
All this is about numbers. While no Put has failed, the place of the next batch is free
(`Free`), so a number is given once and every message, and every event on its way to one, is
an event of the database (`RealInv`). The message with the number of an acknowledged event is
then that event: `NeverSkipped` and `NeverDropped` follow.

### Assumptions

Those the modules make on their constants; TLC evaluates them in the runs. Besides naturals and
finite sets: in `Raft`, at least one server, `Nil` is no server and `NoOp` no command; in
`Storage`, `RaftStore` and `Operator`, the values that stand for "nothing" (`None`, `Missing`, `Partial`,
`NoFile`, `Absent`) are no values of another kind, in `EventStore` `NoBatch` is no batch and
`AnyVersion` no number; in `Matchmaking`, at least one mode;
in `Sagas`, what each choreographed trade proposes is one of the offers; in `Operator`, `ReadyTimeout > 0`; in `RingBuf`, `CapAssumption`: the capacity that `New`
computes is at least two (it is `Min` of a set of powers of two from 2 on; TLAPS has no
theory of exponentiation).

### Only model-checked

* Every liveness property: TLAPS has no support for fairness and ENABLED here.
* The types of `World` and `Actor` where they bound a sum over all players or senders; the
  proofs use weaker types without these bounds. The types of `Resilience` and `Arena`.
* What a recursive definition computes in general: the library's induction takes an operator
  as a parameter, which the provers cannot instantiate. The folds above are handled one by
  one, by the least index at which a claim would fail.

## 6. What is left out

* **Raft:** `Stop` (its reply goroutines live on; a restart here is that of a process), the
  applier goroutine, snapshots (the code has none).
  Two calls with the same content in flight count as one.
* **Storage:** the order in which the operating system makes writes durable (with
  `Sync: false`, the default, a power failure can lose more than a process crash; the model
  has process crashes), sizes in bytes, Bloom filter, sparse index, skip list, checksums and
  record encoding: they represent a map.
* **Events:** payloads; the notification channel (the reader's loop is fair instead); the
  inside of JetStream.
* **Trade:** an Append that reports an error and takes effect; `Outbox` has it for the store
  below.
* **DLock:** more than one key (keys do not interact); clocks of callers differ by lateness
  only.
* **Arena, gateway:** a second Play stream of one player, which replaces the sink of the first.
* **World:** positions, physics, gathering nodes, chat; bounded region mailboxes (two
  regions that block on each other's full mailbox are a hazard in PROJECT.json).
* **Actor:** parents and children (only one process with its senders is modelled); actors
  that block on each other.
* **RingBuf:** the wrap of the 64-bit positions.
* **Shard:** logs and crashes of replicas (`Raft` has them), and calls that take longer than
  a heartbeat: a delayed answer would count as contact when it arrives.
* **Arena:** positions, aims and collisions (floating point), the contents of snapshots and
  statistics, `Stop` from outside, two projectiles of one player that end in the same tick.
* **Operator:** more than one arena (records do not interact), a record that is met under a
  name used before (AlreadyExists in Provision), the fields of the Pod.
* **Everywhere:** logging, metrics, tracing, formats.

## 7. Not modelled, and what comes next

Not modelled, with the reason: `ratelimit` (a bucket under one mutex with a floating point
level), `clock` (no service uses it), `crdt` (one replica, nothing is merged), `hashring` (a
pure lookup whose balance is statistical), `auth`, keys and vault (cryptography and I/O),
`player` (a request handler beside a counter), `chat` (a read model as in `Outbox`), the
wiring of `server`, logging, metrics and traces (output), experiments and smoke tests
(drivers), generated code.

Next, in this order:

1. The tree of actors: parents and children, names, restarts of a parent, and the orders in
   which a child's end and its parent's restart meet.
2. Regions and sessions on the bounded mailbox of `Actor`: two regions that block on each
   other's full mailbox.
3. The applier of raft, and `Stop` followed by a new node on the same Storage.
