# TLA+ specifications of Blun.MQ

Blun.MQ is a replicated message queue in Rust. Every node runs two Raft groups
(openraft 0.9): "spam" holds the queues, "nodes" a directory of the cluster.
Each group has a write-ahead log of its own (raft-engine). Producers and
consumers talk gRPC to any node. This directory models the parts of the broker
that carry its own logic, checks them with TLC on small instances, and proves
every safety property the passing runs check with TLAPS, for every instance.

Paths below are relative to the repository (`src/Blun.Mq.*`).

## 1. The system

| Component | State | Operations | Talks to |
|---|---|---|---|
| Queue data, `QueueState` (`Raft/src/state_machine.rs`) | FIFO and offset counter per queue | apply Publish, apply Pop, `depths` | applied by the state machine store; read by the status pages |
| Consume handler (`Host/src/grpc.rs`) | per stream: 32 Pop loops, a channel of 128 items; per node: cached channels to peers | `consume`, the Pop loop, `pop_via_forward` | `client_write` of the spam group; `Consume` of the leader; the client |
| Publish handler (`Host/src/grpc.rs`) | none of its own | `publish`, `propose`, `forward` | `client_write`; `Publish` of the node believed to lead |
| Queue state machine store (`Raft/src/state_machine.rs`) | queue data behind a mutex, last applied position, membership, snapshot | `apply`, `get_snapshot_builder`, `build_snapshot`, `install_snapshot`, `get_current_snapshot` | called by openraft; the builder runs in a task of its own on the same mutex |
| Directory state machine store (`Raft/src/node_state_machine.rs`) | node id -> address, and the same bookkeeping | as above, with one idempotent upsert | openraft |
| Durable log store (`Raft/src/raft_engine_log_store.rs`) | log entries and the keys vote, committed, last_purged in raft-engine | `append`, `truncate`, `purge`, `save_vote`, `save_committed`, the reads | openraft above, raft-engine below |
| Raft transport (`Raft/src/network.rs`, `Host/src/grpc_raft.rs`) | a client per peer | tag an RPC with its group; dispatch it to the group's Raft | both Raft groups |
| Start (`Host/src/main.rs`) | none | open the stores, `bootstrap` on the lowest node, register in the directory until it succeeds | both groups |
| Status (`Host/src/status_http.rs`, `watch_status`) | none | read depths and leaders every 500 ms | the mutex of the queue data |
| Client library (`Client/src/lib.rs`) | none kept | `publish`, `consume` | a node |
| Demo producer, consumer, bench (`demo/*`) | permits and counters; reconnecting workers; per-task quotas | publish at a rate, consume and reconnect, publish a fixed number and report | a node, through the client library |

What is hard here:

* *Concurrency.* A stream has 32 loops that pop at once; each of them may be
  inside a Raft proposal, inside a forwarded stream, or blocked on a full
  channel when leadership moves, the consumer hangs up or a node dies.
* *Forwarding.* A Pop on a follower opens a full Consume stream on the node it
  believes to lead, which again has 32 loops, takes one item and drops it. The
  300 ms timeout races that item. The leader hint may be stale.
* *Abandoned proposals.* A Raft entry may commit after its proposer was told to
  go elsewhere, or died.
* *Restarts.* The queue data are in memory only; the log, the vote, the commit
  position and the purge marker are on disk and written one at a time.
* *Snapshots.* A builder shares the live data and carries a copy of the
  position.

What correctness means for each component:

* delivery: a message is at one place at a time, none is received twice, none
  vanishes unaccounted for, a subscribed consumer keeps being served;
* replicas: the same position means the same queues;
* log store: what was acknowledged survives every crash, and what a restart
  finds is a log openraft accepts;
* publishing: an acknowledged message is in the log, at the offset answered;
* directory: a registration that succeeded is in the directory, and spreads;
* transport: an RPC reaches the group that sent it, and a response means it was
  handled there;
* the group as a whole: a follower catches up by replication alone;
* demos: what they report is true of the cluster, and errors do not stop them.

## 2. Modules

| Module | Models | Uses |
|---|---|---|
| `QueueState` | what a committed request does to the queue data; `Contiguous` | |
| `AtMostOnceDelivery` | abstract: what delivery promises | `QueueState` |
| `MqConsume` | `consume`, Pop loops, `pop_via_forward`, consumers, leader changes, crashes | `QueueState`; refines `AtMostOnceDelivery` |
| `MqConsumeProofs` | the safety properties of the handler and the refinement, proved | `MqConsume`, TLAPS |
| `MqPublish` | `publish`, `propose`, `forward` as chains of nested calls | `QueueState` |
| `MqPublishProofs` | types, right answers and publishing once, proved | `MqPublish`, TLAPS |
| `NodesGroup` | bootstrap and registration tasks of the nodes group | |
| `NodeStateMachineStore` | the directory on every node, fed by the registrations | extends `NodesGroup` |
| `NodeStateMachineStoreProofs` | registrations stand, directories converge | `NodeStateMachineStore`, TLAPS |
| `StateMachineStore` | replicas of the queue data over one committed log | `QueueState` |
| `StateMachineStoreProofs` | replicas agree, stay gap-free, report the right membership | `StateMachineStore`, TLAPS |
| `WalState` | one raft-engine instance: what its writes do, what its reads answer | |
| `RaftEngineLogStore` | the durable log of one group on one node, crash by crash | `WalState` |
| `RaftEngineLogStoreProofs` | durability, order of the markers, no regress | `RaftEngineLogStore`, TLAPS |
| `LogReplication` | the queue group as a whole: logs, queue data and openraft of all nodes | `WalState` |
| `LogReplicationProofs` | committed entries agree, queues are whole prefixes, one leader per term | `LogReplication`, TLAPS |
| `RaftTransport` | the RPCs of both groups between the nodes | |
| `RaftTransportProofs` | routing, genuine responses, order, readable answers | `RaftTransport`, TLAPS |
| `DemoScenario` | producer, consumer and bench on a live cluster | extends `AtMostOnceDelivery` |
| `DemoScenarioProofs` | what the demos report is true | `DemoScenario`, TLAPS |
| `MC*` | model values and symmetry sets for TLC | the module named after |

openraft and raft-engine are not part of the repository. They are modelled from
how the code calls them, and the map marks those definitions as external. What
is assumed of them:

* openraft calls the log store and the state machine store one call at a time;
  saves the commit position before it applies; on startup reads the positions,
  requires the purge marker not to exceed the commit position, and replays the
  committed entries from the state machine's position (none) on; purges only
  what is applied; and, of a snapshot a builder returns, keeps only the meta.
  Between nodes it is Raft: majority votes for a log that is up to date, commits
  of the leader's own term, at most one call at a time on a connection.
* raft-engine makes a write with `sync = true` durable with all before it, cuts
  the old suffix when entries are appended below its end, refuses to read a
  compacted entry, and does not sync `compact_to`.

### MqConsume

`state` is the queue data after the committed prefix of the log: the module
takes agreement of the log from Raft, and `StateMachineStore` asks separately
whether the replicas hold what the log says. `leader` is the node that can
commit, `known[n]` whom node n believes to lead: the two differ while news
travels, so redirects can be stale.

A stream is a call of `consume`; its `rx` says who reads its channel. `chan` is
the mpsc channel followed by what the transport has taken out of it and the
reader has not taken from there: tonic drains the `ReceiverStream` into HTTP/2's
buffers for as long as flow control lets it. Both are FIFO and nothing looks
between them, so they are one queue of `PipeCapacity`: `ChannelCapacity`, the 128
slots of the channel in the code, and `WireCapacity`, which has no number, since
how many messages the wire takes depends on their size. Both are parameters, and
every theorem holds for every value.
A worker is one of its Pop loops; `pc`
follows the awaits of the loop, since only there another task can run:

| `pc` | the code is in |
|---|---|
| `propose` | about to call `client_write` (or asleep before it) |
| `commit` | `client_write(..).await`, the entry is in a leader's log |
| `await` | `pop_via_forward`, from the opened stream to its first item |
| `send` | `tx.send(..).await` |
| `stopped` | returned, or dead with its node |

`ProposePop`, `PopApplied`, `ForwardPop`, `RetryPop`, `ForwardReply`,
`ForwardTimeout`, `SendPopped` and `SendFails` are the steps of the loop.
`Refused` is `client_write` returning an error: `ForwardToLeader` on a node that
does not take itself for the leader, or the fatal error of a Raft core that has
stopped (`CoreStops`, `down`: openraft ends on a storage error while the gRPC
server of the node serves on, perhaps still as the leader it believes in).
`RetryPop` is every arm of the code that ends in the 200 ms sleep; met in
`propose` it changes nothing, hence it is only about a proposal that had been
appended.
`StreamDropped` is the server noticing a reader that is gone, which drops the
receiver and its contents. `lost` and `orphans` are bookkeeping: messages that
left the queue and can reach nobody, and Pop entries nobody waits for.

Sleeps (150, 200, 300 ms) are not timed: a loop may wait any time, and the
timeout may fire at any moment. The inbound Acks are drained and change
nothing. A first message that is no Subscribe ends the call before any state
exists, so it has no action.

The Raft entry of a loop that was redirected after appending may still commit
(`orphans`): with three nodes openraft answers so only once the entry is
overwritten everywhere it can win, with five or more another node may hold it
and lead later. After a crash it may commit with any number of nodes.

### MqPublish

A client's request is a stack of handlers: `path` lists the nodes whose
`publish` it is in, outermost first, and `phase` what the innermost does. A
redirect pushes the node named by the hint (`Forward`) or returns an error
(`RedirectedNowhere`: no leader known, or not in MQ_PEERS); `Reply` pops one
handler and hands its offset or error to the one below. When a connection
breaks or a node dies, the handlers outside see an error and those inside are
cut off, perhaps with an entry in the log. Pops are left out: they change no
offset. The channel cache only saves dialling and has no effect here.

The code limits the hops by nothing; `MaxHops` limits only hops to a node that
does not lead, so the bound never keeps a request from its leader.

### NodesGroup and NodeStateMachineStore

`NodesGroup` has the bootstrap task of the lowest node and the registration task
of each, from `main`. `initialize` is refused by a group that has a log; a write
is refused on all nodes but the leader, and answered once its entry is
committed. Restarts begin both tasks anew, perhaps at another address.

`NodeStateMachineStore` adds each node's copy of the directory: `apply` one entry
at a time, the snapshot builder that copies the position and shares the data,
installation, restart from nothing. A write is answered when the writer itself
has applied it, which ties the tasks to the store. The snapshot may be ahead of
its position, as in the queue's store; here that does no lasting harm, because
an upsert can be repeated, and `CaughtUpDirectoriesAgree` says so.

### StateMachineStore

One committed log, several replicas. `history` is the reference: the queue data
each prefix makes. `apply` takes the mutex once per entry, so a builder's task
can read between any two entries; `ApplyEntry` is therefore one entry.
`GetSnapshotBuilder` copies the position, `BuildSnapshot` reads the data later.
The snapshot a builder makes is stored in the builder, so the store itself
never returns it from `get_current_snapshot`. A snapshot may be brought to any
replica behind it, or to none: the pinned openraft keeps only the meta of what
`build_snapshot` returns, so there only the behaviours without an installation
occur, and `ReplayedReplicasAgree` is the property that holds of them.

### WalState and RaftEngineLogStore

`WalState` holds the operators: entries from an index on, the three keys,
`compact_to`, ranged reads, and what openraft asks on startup. In
`RaftEngineLogStore`, `core` is what openraft has been told, `wal` what
raft-engine holds, `chosen` what the cluster has committed. Every write either
returns (`SaveVote`, `AppendLog`, `SaveCommitted`, `Purge`) or is the last thing
the process does (`...Interrupted`). `Purge` is two writes, the second not
synced: the process can die between them, or after them and lose the second with
the machine. `Truncate` changes what openraft holds and nothing on disk.

### LogReplication

The composition of the two storage halves. Each node has a `wal`, the queue data
(`data`, the entries applied, oldest first) and a position. `Received` is what
`append_entries` leaves on a follower's disk: one new entry over whatever was
there, since a truncation writes nothing, and the leader's commit position.
`Servable` is the read the leader must make for it; where the entries are purged
openraft asks for the current snapshot and the store has none, so no step
follows. `BuildAndPurge` keeps of a snapshot its position and purges the log
behind it (`PurgedUpTo`). `Start` replays what
`StartupAccepted` allows it to read, `StartFails` is the error of `Raft::new`.
A storage call is one step here; `RaftEngineLogStore` takes it apart.

openraft is taken at its protocol. `Elect` is a won election: Q voted, in the
next term after the highest vote in Q. A lost one, which only raises votes, is
left out; votes that differ between nodes come from elections some did not take
part in. An `append_entries` call, what it writes and its acknowledgement are one
step: an acknowledgement that is late or lost differs from one the leader has not
used for a commit only in the retry. `acked` is the leader's progress, and
`Commit` counts acknowledgements made to that leader in that term, not disks that
happen to hold the entry: with five nodes another leader may have spread an entry
in between that is overwritten afterwards.

### RaftTransport

A call is who calls whom, for which group, with which tag, and what kind of
request. The tag alone tells the callee which group is meant: votes, heartbeats
and snapshot chunks parse in either, only entries do not (`Parses`). A request may
be handled after its caller has given up; an unreadable payload or an error of
the Raft instance comes back as a status. `Network::new_client` panics for a
member that MQ_PEERS does not list, and for one whose address there does not
parse as a URI, since `parse_peers` checks no address (`Dialable`,
`NewClientPanics`); either ends that instance (`dead`). One connection is what
openraft makes one client for: the log entries of a replication stream, or its
snapshots; every vote has a new one (`SameConnection`).

### DemoScenario

The cluster is `AtMostOnceDelivery`, whose steps `MqConsume` is shown to
implement, and for publishes what `MqPublish` shows: every call is answered,
an error may hide an accepted message, a redirect may have one accepted twice.
The producer holds a permit per call; a worker of the consumer connects,
streams, sleeps and connects again; a stream a worker left may pop up to
`StreamRest` messages more, one or several for each of its loops (`abandoned`).
The bench divides its count among its tasks. A task panics on its first error
(`panicked`) while the others publish on, until `main`, which joins the handles
in order, comes to it and ends with it (`BenchAbort`). Calls that only differ in payload are counted, not named.

## 3. Runs

Passing runs:

| Run | Instance | Checks |
|---|---|---|
| `consume_failover` | 2 nodes, 1 stream on each, 2 loops each, consumers on both, a channel and a wire of 1 each, 3 messages, 2 elections, 1 crash or stopped Raft core | `TypeOK`, `AtMostOnce`, `Conserved`, `SubscriberKeepsItsWorkers`, `ForwardsArePaired`, `ReorderIsBounded`, `ImplementsDelivery` |
| `consume_service` | 2 nodes, 2 consumers on the first, which leads or forwards to the one stream of the second, 1 loop, a channel of 2 and a wire of 1 each, 5 messages, 1 disconnect | `EveryMessageSettles`, `LossIsBounded` |
| `publish_faults` | 3 nodes, one listing no peer, 2 requests to one queue, 3 hops by stale hints, 2 elections, 1 fault | `TypeOK`, `AnsweredOffsetIsPublished`, `PublishedOnceUndisturbed`, `EveryCallAnswered` |
| `nodes_start` | 2 nodes, 2 addresses, 2 attempts, 2 elections, 1 restart, 1 snapshot builder | `StoreTypeOK`, `EndedTasksAreRegistered`, `CaughtUpDirectoriesAgree`, `RegistrationsSpread` |
| `sm_snapshots` | 2 replicas, 3 entries, snapshots built beside, carried and installed, 1 restart | `TypeOK`, `ReplayedReplicasAgree`, `ReplicasContiguous`, `MembershipIsCurrent` |
| `wal_crash` | 3 terms, 4 entries, batches of 2, 2 crashes | `TypeOK`, `AcknowledgedEntriesSurvive`, `RecoveredLogIsOrdered`, `PositionsStayOrdered`, `NothingSavedRegresses` |
| `replication` | 3 nodes, 2 terms, 3 entries, a snapshot every 2, 1 entry kept, 1 process that dies | `TypeOK`, `CommittedPrefixesAgree`, `QueueIsWholePrefix`, `FollowersCatchUp` |
| `transport` | 3 nodes, one with an incomplete peer list and one with a malformed address, 2 calls, 1 crash | `TypeOK`, `GroupsStayApart`, `ResponsesAreGenuine`, `AnsweredInOrder`, `AnswersAreReadable` |
| `demo` | 2 messages and 1 permit for the producer, 2 consumer workers whose abandoned streams pop up to 2 messages, a bench of 3 messages and 2 tasks, 2 faults | `TypeOK`, `ThroughputIsBacked`, `BenchReportIsTrue`, `ProducerKeepsGoing`, `ConsumerDrainsTheQueue` |

Runs that show a disagreement between the code and what it says of itself:

| Run | Property | What TLC shows |
|---|---|---|
| `forward_loses` | `NothingLostWithoutFault` | a consumer on a follower: the forwarded stream's two loops pop a message each, one is taken, the other is dropped with the stream. No one disconnected and nothing failed. `mq.proto` promises at-least-once, the comment on the loops exactly-once |
| `wal_restart` | `RestartReplaysTheLog` | commit, purge, crash: the log starts above its first entry, the state machine at none, and the node does not start. `main.rs` says the state is rebuilt by replaying the log |
| `nodes_register` | `EveryNodeRegisters` | node 2 is elected and stays: node 1's writes are refused for ever, since the task does not forward. The comment in `main.rs` says every node registers |

Seen while modelling, without a run of their own:

* The loops of a stream whose consumer has hung up notice it only when they send.
  While the queue is empty they propose Pops for ever ("Client disconnected -
  stop this worker", `grpc.rs:195`, comes after a message was popped, which is
  then lost). `LossIsBounded` bounds the messages that costs; the polling itself
  has no end, and no property is about it.
* A malformed address in MQ_PEERS is found when openraft first wants that peer,
  by a panic (`network.rs:57`), not at the start. The same goes for a missing one
  (`network.rs:51`).
* A snapshot of the queue's store may hold entries beyond the position it names
  (`state_machine.rs:168`); whoever installed it would apply them twice. The
  pinned openraft keeps only the meta, so today nobody does;
  `ReplayedReplicasAgree` is therefore about the replicas without an
  installation, and `ReplicasContiguous` and `MembershipIsCurrent` hold of all.
* A follower that lacks what the leader has purged is never served again:
  `get_current_snapshot` is None. `FollowersCatchUp` excludes it as `CutOff`.
* The bench publishes `per_task * concurrency` messages, fewer than MQ_COUNT when
  the division leaves a rest; its report names the number it sent.

### Bounds

Every bound is a constant with `Max` in its name and appears in a guard.

* *Nodes.* Two nodes show a leader, a follower, a deposed leader and a stale
  hint. `consume_failover` has one stream on each node, so a forwarded stream
  finds none left to forward to in turn: chains of forwards, those that return
  to their origin included, are covered by the theorems `ForwardsHaveReaders`
  and `HandlersImplementDelivery` alone.
* *POP_CONCURRENCY.* The code has 32; 2 loops already compete for a message, a
  channel and a stream, and bring two messages in the wrong order. Three messages
  are enough for a message to be followed by two older ones if `ReorderIsBounded`
  failed. The loss bound is linear in the number of loops, so `consume_service`
  has 1 and 5 messages: four fill the wire, the channel and the loop, the fifth
  shows that no more go. `EveryMessageSettles` needs full channels, not two loops.
* *ChannelCapacity, WireCapacity.* The code's channel has four places per loop;
  with few loops a channel that can be full is one of fewer. A wire of one
  message tells the wire from the channel in the loss bound.
* *Offsets.* Two messages are enough for two to be in different places.
* *Elections, crashes, disconnects.* A fault beside a second election reaches
  every combination of a loop's position with the event. A consumer that hangs
  up leaves its stream as `pop_via_forward` leaves one for every message, so that
  `consume_failover` has dropped streams without it; `consume_service` has it.
* *Publishing.* Three nodes allow a circle of two stale nodes beside the leader;
  two requests to one queue can be mixed up; one fault strikes at any depth.
* *Bootstrap and directory.* The code tries 20 times; two attempts have one that
  is retried and a last one. Two nodes at two addresses let a node come back
  elsewhere while the other holds what it wrote before; one builder suffices for
  a snapshot that is ahead of its position to be installed and passed on.
* *Log store.* Three terms let a suffix of an old term return after a crash
  behind an entry of a newer one; four entries and batches of two let an append
  cut more, fewer or as many entries as it adds; the second crash starts from
  what the first left.
* *Replicas.* Three entries are enough for a position copied, an entry applied
  before the data are read, and one applied after the snapshot is installed;
  every order of publish, pop, blank and membership occurs.
* *Replication.* Three nodes have a majority without the third: it can miss an
  entry, or a term, and be met by a leader that has purged. Three entries are the
  membership, the leader's blank and one more, or the blank of a second term;
  with a snapshot every two and one entry kept, the first is purged while others
  still need it. The death of one process may hit any node before or after that.
* *Transport.* Two calls can be on one connection, on two of one group, or of
  different groups; one node lists only itself, another has a malformed address
  for it, and the third can call both.
* *Demo.* One permit makes the loop wait for an answer; two workers show a
  message that survives the stream of one; three messages on two tasks leave a
  rest; two faults let a retry of a worker fail too, or both tasks of the bench
  panic; two messages popped for nobody can be the whole queue.

Symmetry is used for replicas and for the two nodes of `consume_failover`, only in
runs that check no liveness.

Deadlock is not checked where the environment is bounded: when the elections are
used up and the last leader has died, or every stream of a node was used, nothing
can happen.

### Fairness

`FairSpec` assumes weak fairness of each Pop loop (tokio runs a task that is
ready, a stable leader commits what is proposed, a timer fires), of each
consumer's reading, of the server's noticing a closed connection, of nodes
hearing of the leader, and of an election while there is none. Nothing forces a
publish, a subscription, an election against a standing leader or a fault.
`EveryMessageSettles` is about consumers on the leader: on a follower each forwarded
attempt may time out before its first item for ever, and no fairness of the
code excludes that. `MqPublish`, `NodesGroup` and `NodeStateMachineStore` assume
the same of handlers and tasks, and that openraft applies what is committed.

`LogReplication` assumes that a leader keeps calling each follower it can serve,
commits what a majority has, resigns when a higher vote answers, that committed
entries are applied and that a process that is off is started again. No
election, write, snapshot or death is owed. `DemoScenario` assumes that timers
fire, that tasks run and that the cluster accepts, answers and delivers, which
is what `EveryCallAnswered` and `EveryMessageSettles` establish; errors, redirects
and broken streams are never owed. `RaftTransport` and `RaftEngineLogStore` state
safety only.

## 4. Proofs

Every theorem holds for all values of the constants that meet the named ASSUMEs
of its module; those are types of the parameters, non-emptiness, and that bounds
are numbers. `MqConsume` also assumes that a stream has at least one loop and
that the set of streams is finite (a crash counts the entries it orphans). Each
proof finds an inductive invariant, a conjunction of named parts; TLC was run on
each of them as an invariant of the component's run before it was proved. There
is one lemma per action, and under it one step per conjunct the action disturbs.
`LogReplication` also assumes that there are finitely many nodes, since it counts
majorities.

The steps of the handlers that a mutant replaces are operators of a line or two
(`AfterRefusal`, `LeftAfterReply`, ...); the proof modules expand them
everywhere with one `USE DEF` at the top.

### MqConsumeProofs

The lemmas about the queue data come first: a publish and a pop keep `Contiguous`,
what a pop answers is the message at the front offset, and it leaves the other
queues.

* `TypeCorrect` and `DeliveryAtMostOnce` (`AtMostOnce`). That no offset is in
  two places is not inductive: a pop could hand out an offset that is already
  under way. `AtMostOnce` therefore carries `PoppedIsBehind`, all that ever left
  a queue lies below the offset at its front, and `Contiguous`, the queue is a
  gap-free run from that offset to the counter; so what is popped next is new. A
  send puts a held message in a channel, which needs a loop to hold exactly one
  message while it sends and none otherwise (`HeldWhileSending`); a forwarded
  message stays in its own queue's account because a loop awaits only streams of
  its own queue (`AwaitsOwnQueue`); and a stream never opened has no loops
  (`UnusedHasNoWorkers`). `Control`, about the loops, is proved first, and
  `Placed`, about the messages, from it.
* `SubscribersAreServed` (`SubscriberKeepsItsWorkers`) and `ForwardsHaveReaders`
  (`ForwardsArePaired`), from `Lifecycle`: nodes know one leader at most, a loop
  that awaits does so on one stream, elsewhere, and no other loop awaits it; a
  loop only stops once its stream is closed; and a stream that is unused or
  closed has an empty channel. That a forward goes to another node follows from
  knowing one leader: a node that is redirected does not know itself.
* `HandlersImplementDelivery` (`ImplementsDelivery`): initial states map to
  initial states, and each action of the nodes is a step of `AtMostOnceDelivery`
  or leaves its variables alone. `InFlight` and `Received` are unions over all
  loops and streams, so that a step is one because the message it moves is
  nowhere else (`AtMostOnce`).
* `MessagesAreConserved` (`Conserved`) follows from the refinement: each abstract
  step moves what it takes, and only a pop extends the offsets popped, by the one
  at the front.
* `DroppedStreamsCostLittle` (`LossIsBounded`), from `LossInv`: with one election
  and no crash or stopped core no entry is orphaned (`SteadyLeader`), a channel
  and its wire never exceed `PipeCapacity`, and what is lost of a queue is at most
  that for each closed stream and one message for each stopped loop (`LossIsCounted`), of which a
  closed stream has `PopConcurrency`.
* `ConsumersSeeLittleReordering` (`ReorderIsBounded`), from `OrderInv`. What was
  received says nothing about what is still to come, so the invariant is about
  the whole line of a consumer, received and in the channel: for each message on
  it there is a set D of loops such that no loop outside of D can still bring an
  older one, itself or through a stream it awaits, and the older ones behind the
  message together with the loops of the stream in D are fewer than
  `PopConcurrency`. When a loop sends an older message it leaves D, as what it
  pops from then on is newer; when a loop of D opens a stream on another node,
  the loops of that stream start with nothing older.

### MqPublishProofs

* `AnswersAreRight` (`AnsweredOffsetIsPublished`), and `PublishTypeCorrect`. With
  the types the property is inductive: only an applied entry makes an answer, at
  the counter (`PublishAddsOne`), and no later publish moves a message.
* `PublishedOnce` (`PublishedOnceUndisturbed`), from `Steady`: while the first
  leader stays, a node knows it or nobody, hence an entry is waited for on the
  leader itself and a redirect abandons none, so nothing is published but by the
  step that answers.

### RaftTransportProofs

`RpcsReachTheirGroup`, `ResponsesMeanHandled`, `AnswersKeepTheOrder`,
`NoResponsePanics` and `TransportTypes`, all from `TransportInv`: an envelope has
the tag of its caller's group (`Tagged`); a handler that has returned sent a
status, or the method's own response after its instance handled the request
(`RepliesAreBacked`, `HandledHasReturned`); and a connection makes a call only
when the last one has ended, so that one handled after a later call was given up
(`OneAtATime`, `LateOnesWereGivenUp`). `NoResponsePanics` (`AnswersAreReadable`) is
about the `expect` on a response; the panics of `new_client` are a matter of
configuration, and the other theorems hold with them.

### RaftEngineLogStoreProofs

`AppendsAreDurable`, `TruncatedTailsDoNotReturn`, `MarkersStayOrdered`,
`LogStoreTypes`, and the action property `RestartsTakeNothingBack`
(`NothingSavedRegresses`), all from `LogStoreInv`: the engine's log extends the
log openraft was told of (`EngineHoldsTheLog`; the extra suffix is what `truncate`
left), the engine's positions are ordered between any two writes (`Markers`), it
has at least what openraft was told, and exactly that while the node is up
(`ToldIsSaved`), and `truncate` stays above what the cluster committed
(`CommittedIsChosen`).

### StateMachineStoreProofs and NodeStateMachineStoreProofs

* `ReplicasThatReplayAgree`, `ReplicasStayContiguous`, `MembershipsAreCurrent`,
  `StoreTypes`, from `StoreInv`: `history` is what the log makes of the empty
  state, and every bookkeeping that is copied about (node, builder, snapshot) is
  a position of the log with the latest membership below it.
* `RegistrationsStand` (`EndedTasksAreRegistered`), `DirectoriesConverge`
  (`CaughtUpDirectoriesAgree`) and `DirectoryTypes`, from `DirectoryInv`. A command
  that may still be committed is one whose task has got no answer
  (`PendingIsUnanswered`), so that none overwrites the address of a task that has
  ended. A replica's directory is not that of a prefix of the log once it was
  sent a torn snapshot; but each node is listed as in some prefix no shorter than
  the claimed position (`DirectoryOK`, a different one for each node), which at
  the end of the log leaves one choice.

### LogReplicationProofs

`CommittedEntriesAgree` (`CommittedPrefixesAgree`), `QueuesAreWholePrefixes`
(`QueueIsWholePrefix`), `GroupIsTyped` (`TypeOK`) and `LeaderIsUnique` follow from
`ReplicationInvariant`. The invariant `ReplicationInv` has three layers; all but
the types and the queues are stated on plain logs, votes, leaders and progress
(L, V, D, A), so that the storage is dealt with once, where a write is shown to
make of a disk what the protocol says.

* The protocol, `ProtocolInv`. A vote that anyone has, a majority has given or
  passed (`VotesElected`), so that a term has one leader (`OneLeaderPerTerm`);
  terms grow along a log (`LogsOrdered`) and stay below its vote (`LogsVoted`);
  logs with the same term at two positions share everything before the lower
  one (`LogsMatch`); a leader has all there is of its term
  (`LeadersHaveTheirTerm`), and what was acknowledged to it is its log
  (`ProgressIsOfTheLog`).
* `SafeOrLost`, the part that makes commits stable. An entry of a leader's own
  term is either *safe*, that is in every log with a later entry and on all
  who acknowledged it, or *lost*: a majority that has not acknowledged it has
  gone on to a later term, so that it will never have enough acknowledgements.
  A new leader's election is where the first may turn into the second: either
  someone in its majority had acknowledged the entry, and the up-to-date check
  gives it to the new leader, or nobody had.
* The committed entries, `ChosenInv`. What is committed is `Fixed`: a majority has
  it, and so has every log with a later entry. That a node's commit position is
  right is not inductive by itself: an append that replaces a suffix must not cut
  below it. Hence each position is backed by a fixed one at or above it whose
  term is not after the node's vote: a leader that may replace the node's entries
  has them.
* `QueueInv`: a node that is up has applied a prefix of what was chosen. At a start
  this holds because openraft refuses one whose log no longer begins at the first
  entry, so what is replayed is whole.

The attempt to prove `CommittedPrefixesAgree` showed that an earlier form of
`Commit`, which counted every disk with the entry, does not keep it with five
nodes; three, as in the run, do not show the difference. The code is not
concerned, as openraft counts acknowledgements; the model was corrected.

### DemoScenarioProofs

`ThroughputIsTrue` (`ThroughputIsBacked`), `BenchReportsWhatItSent`
(`BenchReportIsTrue`) and `DemoTypes` (`TypeOK`), from `DemoInv`. A permit is free or
with an unanswered call (`PermitsAreHeld`). The upper bound on the history is
inductive once it includes the entries nobody waits for, each of which may yet
be accepted (`HistoryIsAccounted`). For the bench, each task's finished publishes
are the pairs of `Done`: their number and the accepted calls are covered by the
history (`BenchIsAccounted`), whatever panics beside them, and when every task
is through, `Done` is all of them.

### Only model-checked

The liveness properties `EveryMessageSettles`, `EveryCallAnswered`,
`RegistrationsSpread`, `FollowersCatchUp`, `ProducerKeepsGoing` and
`ConsumerDrainsTheQueue`: fairness and ENABLED are out of the prover's reach. The
three runs that expect a violation are refutations and have no theorem. Every
other property of a passing run is stated by a theorem.

## 5. Not modelled

* The implementation of Raft: openraft is a library. Its protocol is modelled,
  as external definitions, where the code's storage meets it (`LogReplication`);
  elsewhere elections and commits are steps of the environment.
* Contents of payloads, JSON and protobuf encodings and the parsing of `MQ_*`.
  Of an address only one thing matters to the control, whether tonic takes it
  for one (`network.rs:57`), and that is in `RaftTransport`.
* The status page and `watch_status`: they copy the queue depths under one lock,
  then ask openraft for the two leaders, and change nothing. What they show is a
  copy that may be old; the code promises no more.
* Wire definitions, build scripts and generated code; the Angular dashboard and
  the Aspire host, which only show and start things.
* Write errors of the disk are not told apart from crashes: openraft stops on
  them.

## 6. What could follow

All components with control of their own are modelled, and all their safety
properties are proved. What this project would gain from next:

1. Read errors and partial reads of the log store inside openraft's replication
   task, which `LogReplication` only knows as `Servable`.
2. Membership changes: the code makes none after `initialize`, so a majority is
   one of the nodes of MQ_PEERS throughout. A release that adds nodes at run time
   would need joint majorities in `LogReplication` and its proof.
3. A snapshot that is kept. Once `get_current_snapshot` answers one, `CutOff`
   followers are served by `InstallSnapshot`; then the torn snapshots that
   `StateMachineStore` allows reach the queues.
