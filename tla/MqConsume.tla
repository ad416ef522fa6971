----------------------------- MODULE MqConsume ------------------------------
(***************************************************************************)
(* The `Consume` handler of the broker (grpc.rs): every subscribed stream  *)
(* is served by POP_CONCURRENCY concurrent Pop loops feeding one bounded   *)
(* channel, and a loop on a node that is not the Raft leader fetches one   *)
(* message at a time by opening a whole Consume stream on the leader       *)
(* (`pop_via_forward`).                                                    *)
(*                                                                         *)
(* The replicated log is external: `state` is the QueueState after the     *)
(* committed prefix, a commit applies one request to it, and `leader` and  *)
(* `known` are what openraft decides and what each node believes.          *)
(* StateMachineStore asks whether the replicas really share that state.    *)
(***************************************************************************)
EXTENDS QueueState, FiniteSets

CONSTANTS Node,             \* brokers
          Slot,             \* tells apart the streams of a queue on each node
          PopConcurrency,   \* POP_CONCURRENCY
          ChannelCapacity,  \* of the outbound channel: POP_CONCURRENCY * 4
          WireCapacity,     \* messages the transport takes ahead of a slow reader
          ClientNode,       \* the nodes that consumers connect to
          MaxOffset,        \* bound: messages published to each queue
          MaxElections,     \* bound: leaders elected
          MaxDisconnects,   \* bound: consumers that hang up
          MaxCrashes        \* bound: nodes that crash or whose Raft core stops

ASSUME ParametersAreSound ==
    /\ {PopConcurrency, ChannelCapacity} \subseteq Nat \ {0} /\ WireCapacity \in Nat
    /\ ClientNode \subseteq Node
    /\ {MaxOffset, MaxElections, MaxDisconnects, MaxCrashes} \subseteq Nat

(* One call of `consume`: the node that serves it and the queue its first  *)
(* message subscribed to.                                                  *)
Stream == UNION {[host : {n}, queue : Queue, slot : Slot[n]] : n \in Node}

ASSUME StreamsAreFinite == IsFiniteSet(Stream)

(* Mutant: `0..=POP_CONCURRENCY` spawns one loop more.                     *)
Worker_OneMore == Stream \X (0..PopConcurrency)

(* The tasks it spawns: worker <<s, i>> is the i-th Pop loop of stream s.  *)
Worker == Stream \X (1..PopConcurrency)

HostOf(w)  == w[1].host
QueueOf(w) == w[1].queue

(* `mpsc::channel`. The transport drains it into its own buffers, the      *)
(* connection and the reader's buffers for as long as flow control lets    *)
(* it. Both ends are FIFO and nobody looks between them, so one queue      *)
(* stands for them.                                                        *)
PipeCapacity == ChannelCapacity + WireCapacity

VARIABLES
    state,       \* the replicated QueueState
    leader,      \* the Raft leader of the group, if there is one
    known,       \* the leader each node believes in
    down,        \* nodes that serve calls although their Raft core has stopped
    rx,          \* who reads the outbound channel of a stream, see RxState
    chan,        \* the outbound channel, then what is on the wire
    pc,          \* where each Pop loop stands, see WorkerState
    held,        \* the message a Pop loop has popped and not yet sent
    awaits,      \* the stream whose first item a `pop_via_forward` awaits
    orphans,     \* Pop entries whose proposer stopped waiting for them
    delivered,   \* what the consumer of a stream received, in order
    lost,        \* messages popped from the queue that nobody will receive
    elections, disconnects, crashes   \* how often the environment acted

vars == <<state, leader, known, down, rx, chan, pc, held, awaits, orphans, delivered,
          lost, elections, disconnects, crashes>>

raftVars   == <<leader, known, down, elections>>
faultVars  == <<disconnects, crashes>>

(* "client": a consumer reads the stream; "forward": a `pop_via_forward`   *)
(* does; "dropped": the reader is gone, the server has not noticed yet;    *)
(* "closed": the receiver is dropped and every send fails.                 *)
RxState == {"unused", "client", "forward", "dropped", "closed"}

(* "propose": about to call `client_write`; "commit": inside it, the entry *)
(* is in the leader's log; "await": inside `pop_via_forward`; "send":      *)
(* inside `tx.send`; "stopped": the task is gone.                          *)
WorkerState == {"off", "propose", "commit", "await", "send", "stopped"}

Contents(c) == {c[i] : i \in DOMAIN c}

TypeOK ==
    /\ state \in QueueStates
    /\ leader \in SUBSET Node
    /\ known \in [Node -> SUBSET Node]
    /\ down \in SUBSET Node
    /\ rx \in [Stream -> RxState]
    /\ chan \in [Stream -> Seq(Message)]
    /\ pc \in [Worker -> WorkerState]
    /\ held \in [Worker -> SUBSET Message]
    /\ awaits \in [Worker -> SUBSET Stream]
    /\ orphans \in [Queue -> Nat]
    /\ delivered \in [Stream -> Seq(Message)]
    /\ lost \in [Queue -> SUBSET Message]
    /\ elections \in Nat /\ disconnects \in Nat /\ crashes \in Nat

Init ==
    /\ state = EmptyState
    /\ leader = {}
    /\ known = [n \in Node |-> {}]
    /\ down = {}
    /\ rx = [s \in Stream |-> "unused"]
    /\ chan = [s \in Stream |-> <<>>]
    /\ pc = [w \in Worker |-> "off"]
    /\ held = [w \in Worker |-> {}]
    /\ awaits = [w \in Worker |-> {}]
    /\ orphans = [q \in Queue |-> 0]
    /\ delivered = [s \in Stream |-> <<>>]
    /\ lost = [q \in Queue |-> {}]
    /\ elections = 0 /\ disconnects = 0 /\ crashes = 0

-----------------------------------------------------------------------------
(* The replicated log: external, as the handlers meet it.                  *)

(* A Publish entry commits (whichever way it reached the leader).          *)
PublishApplied(q, p) ==
    /\ leader # {}
    /\ state.next_offset[q] < MaxOffset
    /\ state' = AfterPublish(state, q, p)
    /\ UNCHANGED <<raftVars, rx, chan, pc, held, awaits, orphans, delivered, lost, faultVars>>

(* A leader is elected; the other nodes, a deposed leader included, keep   *)
(* believing what they did until they hear of it.                          *)
Elect(n) ==
    /\ elections < MaxElections
    /\ leader # {n} /\ n \notin down
    /\ leader' = {n}
    /\ known' = [known EXCEPT ![n] = {n}]
    /\ elections' = elections + 1
    /\ UNCHANGED <<state, down, rx, chan, pc, held, awaits, orphans, delivered, lost, faultVars>>

Learn(n) ==
    /\ known[n] # leader /\ n \notin down
    /\ known' = [known EXCEPT ![n] = leader]
    /\ UNCHANGED <<state, leader, down, elections, rx, chan, pc, held, awaits, orphans, delivered,
                   lost, faultVars>>

(* openraft gives up on node n (its storage failed): from now on every     *)
(* `client_write` there is a Fatal error, while the gRPC server serves on. *)
CoreStops(n) ==
    /\ crashes < MaxCrashes
    /\ n \notin down
    /\ crashes' = crashes + 1
    /\ down' = down \cup {n}
    /\ leader' = leader \ {n}
    /\ UNCHANGED <<state, known, elections, rx, chan, pc, held, awaits, orphans, delivered, lost,
                   disconnects>>

(* A Pop entry commits although the loop that proposed it was redirected   *)
(* or died: the message leaves the queue and no one is there to take it.   *)
OrphanPopApplied(q) ==
    /\ orphans[q] > 0
    /\ orphans' = [orphans EXCEPT ![q] = @ - 1]
    /\ state' = AfterPop(state, q)
    /\ lost' = [lost EXCEPT ![q] = @ \cup PoppedBy(state, q)]
    /\ UNCHANGED <<raftVars, rx, chan, pc, held, awaits, delivered, faultVars>>

-----------------------------------------------------------------------------
(* `consume` and its Pop loops.                                            *)

(* The handler has its Subscribe: it makes the channel and spawns every    *)
(* worker before it answers.                                               *)
OpenStream(s, reader) ==
    /\ rx[s] = "unused"
    /\ rx' = [rx EXCEPT ![s] = reader]

SpawnedBy(s) == [w \in Worker |-> IF w[1] = s THEN "propose" ELSE pc[w]]

Subscribe(s) ==
    /\ s.host \in ClientNode
    /\ OpenStream(s, "client")
    /\ pc' = SpawnedBy(s)
    /\ UNCHANGED <<state, raftVars, chan, held, awaits, orphans, delivered, lost, faultVars>>

(* `client_write` on a node that takes itself for the leader.              *)
ProposePop(w) ==
    /\ pc[w] = "propose"
    /\ known[HostOf(w)] = {HostOf(w)} /\ HostOf(w) \notin down
    /\ pc' = [pc EXCEPT ![w] = "commit"]
    /\ UNCHANGED <<state, raftVars, rx, chan, held, awaits, orphans, delivered, lost, faultVars>>

(* Mutant: the loop ends when it finds the queue empty.                    *)
AfterPopOf_Ends(popped) == IF popped = {} THEN "stopped" ELSE "send"

AfterPopOf(popped) == IF popped = {} THEN "propose" ELSE "send"

(* The entry is committed and applied: `Ok(resp)` carries what it popped.  *)
(* On None the loop sleeps and starts over.                                *)
PopApplied(w) ==
    /\ pc[w] = "commit" /\ HostOf(w) \notin down
    /\ state' = AfterPop(state, QueueOf(w))
    /\ held' = [held EXCEPT ![w] = PoppedBy(state, QueueOf(w))]
    /\ pc' = [pc EXCEPT ![w] = AfterPopOf(PoppedBy(state, QueueOf(w)))]
    /\ UNCHANGED <<raftVars, rx, chan, awaits, orphans, delivered, lost, faultVars>>

(* `client_write` returns an error: ForwardToLeader when the node is not,  *)
(* or no longer, the leader, Fatal when its Raft core has stopped. An      *)
(* entry it had already appended may still commit.                         *)
Refused(w) ==
    /\ pc[w] \in {"propose", "commit"}
    /\ known[HostOf(w)] # {HostOf(w)} \/ HostOf(w) \in down
    /\ orphans' = [orphans EXCEPT ![QueueOf(w)] = IF pc[w] = "commit" THEN @ + 1 ELSE @]

(* `pop_via_forward`: subscribe stream s on the node the redirect names.   *)
ForwardPop(w, s) ==
    /\ Refused(w) /\ HostOf(w) \notin down
    /\ s.host \in known[HostOf(w)]
    /\ s.queue = QueueOf(w)
    /\ OpenStream(s, "forward")
    /\ pc' = [SpawnedBy(s) EXCEPT ![w] = "await"]
    /\ awaits' = [awaits EXCEPT ![w] = {s}]
    /\ UNCHANGED <<state, raftVars, chan, held, delivered, lost, faultVars>>

(* Mutant: `return` instead of `continue` when the write fails.            *)
AfterRefusal_Returns == "stopped"

AfterRefusal == "propose"

(* The redirect names nobody, the call to the peer fails, or the error is  *)
(* no redirect at all: sleep, retry. (In "propose" that changes nothing.)  *)
RetryPop(w) ==
    /\ pc[w] = "commit"
    /\ Refused(w)
    /\ pc' = [pc EXCEPT ![w] = AfterRefusal]
    /\ UNCHANGED <<state, raftVars, rx, chan, held, awaits, delivered, lost, faultVars>>

(* Mutants: the item is looked at and stays in the stream; everything that *)
(* has arrived is taken and the first item kept.                           *)
LeftAfterReply_All(c)  == c
LeftAfterReply_None(c) == <<>>

LeftAfterReply(c) == Tail(c)

(* The first item of the forwarded stream arrives in time. Returning drops *)
(* `inbound`, whatever else that stream has popped or is about to pop.     *)
ForwardReply(w, s) ==
    /\ pc[w] = "await" /\ awaits[w] = {s}
    /\ chan[s] # <<>>
    /\ held' = [held EXCEPT ![w] = {Head(chan[s])}]
    /\ chan' = [chan EXCEPT ![s] = LeftAfterReply(@)]
    /\ rx' = [rx EXCEPT ![s] = "dropped"]
    /\ pc' = [pc EXCEPT ![w] = "send"]
    /\ awaits' = [awaits EXCEPT ![w] = {}]
    /\ UNCHANGED <<state, raftVars, orphans, delivered, lost, faultVars>>

(* Mutant: the stream is kept open after the timeout.                      *)
RxAfterTimeout_Kept(r) == r

(* `inbound` is dropped, unless its host is gone already.                  *)
RxAfterTimeout(r) == IF r = "closed" THEN "closed" ELSE "dropped"

(* The 300 ms run out, or the peer is gone: `_ => Ok(None)`.               *)
ForwardTimeout(w, s) ==
    /\ pc[w] = "await" /\ awaits[w] = {s}
    /\ rx' = [rx EXCEPT ![s] = RxAfterTimeout(@)]
    /\ pc' = [pc EXCEPT ![w] = "propose"]
    /\ awaits' = [awaits EXCEPT ![w] = {}]
    /\ UNCHANGED <<state, raftVars, chan, held, orphans, delivered, lost, faultVars>>

(* `tx.send(..).await` succeeds once the channel has room ...              *)
SendPopped(w) ==
    /\ pc[w] = "send"
    /\ rx[w[1]] # "closed"
    /\ Len(chan[w[1]]) < PipeCapacity
    /\ chan' = [chan EXCEPT ![w[1]] = Append(@, CHOOSE m \in held[w] : TRUE)]
    /\ held' = [held EXCEPT ![w] = {}]
    /\ pc' = [pc EXCEPT ![w] = "propose"]
    /\ UNCHANGED <<state, raftVars, rx, awaits, orphans, delivered, lost, faultVars>>

(* Mutant: the result of `send` is ignored and the loop goes on.           *)
AfterFailedSend_GoesOn == "propose"

AfterFailedSend == "stopped"

(* ... and fails once the receiver is dropped: the worker returns, with    *)
(* the message it had popped.                                              *)
SendFails(w) ==
    /\ pc[w] = "send"
    /\ rx[w[1]] = "closed"
    /\ lost' = [lost EXCEPT ![QueueOf(w)] = @ \cup held[w]]
    /\ held' = [held EXCEPT ![w] = {}]
    /\ pc' = [pc EXCEPT ![w] = AfterFailedSend]
    /\ UNCHANGED <<state, raftVars, rx, chan, awaits, orphans, delivered, faultVars>>

(* The transport notices that the reader is gone and drops the response    *)
(* stream, with everything still in its channel.                           *)
StreamDropped(s) ==
    /\ rx[s] = "dropped"
    /\ rx' = [rx EXCEPT ![s] = "closed"]
    /\ lost' = [lost EXCEPT ![s.queue] = @ \cup Contents(chan[s])]
    /\ chan' = [chan EXCEPT ![s] = <<>>]
    /\ UNCHANGED <<state, raftVars, pc, held, awaits, orphans, delivered, faultVars>>

-----------------------------------------------------------------------------
(* The consumers, and the nodes as processes.                              *)

(* Mutant: the item is handed over and stays to be handed over again.      *)
LeftAfterReceive_All(c) == c

LeftAfterReceive(c) == Tail(c)

Receive(s) ==
    /\ rx[s] = "client"
    /\ chan[s] # <<>>
    /\ delivered' = [delivered EXCEPT ![s] = Append(@, Head(chan[s]))]
    /\ chan' = [chan EXCEPT ![s] = LeftAfterReceive(@)]
    /\ UNCHANGED <<state, raftVars, rx, pc, held, awaits, orphans, lost, faultVars>>

Disconnect(s) ==
    /\ disconnects < MaxDisconnects
    /\ rx[s] = "client"
    /\ rx' = [rx EXCEPT ![s] = "dropped"]
    /\ disconnects' = disconnects + 1
    /\ UNCHANGED <<state, raftVars, chan, pc, held, awaits, orphans, delivered, lost, crashes>>

(* What dies with the process of node n.                                   *)
Dying(n) == {w \in Worker : HostOf(w) = n /\ pc[w] # "off"}

Orphaned(n, q) == {w \in Dying(n) : QueueOf(w) = q /\ pc[w] = "commit"}

HeldAt(n, q)     == UNION {held[w] : w \in {v \in Dying(n) : QueueOf(v) = q}}
BufferedAt(n, q) == UNION {Contents(chan[s]) : s \in {t \in Stream : t.host = n /\ t.queue = q}}

(* Its streams end and its tasks vanish with what they hold, their pending *)
(* entries are orphaned, the streams they were awaiting elsewhere lose     *)
(* their reader. The node restarts with no leader in mind.                 *)
Crash(n) ==
    /\ crashes < MaxCrashes
    /\ crashes' = crashes + 1
    /\ leader' = leader \ {n}
    /\ known' = [known EXCEPT ![n] = {}]
    /\ down' = down \ {n}
    /\ rx' = [s \in Stream |->
                IF rx[s] = "unused" THEN "unused"
                ELSE IF s.host = n THEN "closed"
                ELSE IF rx[s] = "forward" /\ \E w \in Dying(n) : s \in awaits[w] THEN "dropped"
                ELSE rx[s]]
    /\ chan' = [s \in Stream |-> IF s.host = n THEN <<>> ELSE chan[s]]
    /\ pc' = [w \in Worker |-> IF w \in Dying(n) THEN "stopped" ELSE pc[w]]
    /\ held' = [w \in Worker |-> IF w \in Dying(n) THEN {} ELSE held[w]]
    /\ awaits' = [w \in Worker |-> IF w \in Dying(n) THEN {} ELSE awaits[w]]
    /\ orphans' = [q \in Queue |-> orphans[q] + Cardinality(Orphaned(n, q))]
    /\ lost' = [q \in Queue |-> lost[q] \cup HeldAt(n, q) \cup BufferedAt(n, q)]
    /\ UNCHANGED <<state, elections, delivered, disconnects>>

-----------------------------------------------------------------------------

Next ==
    \/ \E q \in Queue, p \in Payload : PublishApplied(q, p)
    \/ \E n \in Node : Elect(n) \/ Learn(n) \/ CoreStops(n) \/ Crash(n)
    \/ \E q \in Queue : OrphanPopApplied(q)
    \/ \E s \in Stream : Subscribe(s) \/ StreamDropped(s) \/ Receive(s) \/ Disconnect(s)
    \/ \E w \in Worker : \/ ProposePop(w) \/ PopApplied(w) \/ RetryPop(w)
                         \/ SendPopped(w) \/ SendFails(w)
    \/ \E w \in Worker, s \in Stream : ForwardPop(w, s) \/ ForwardReply(w, s) \/ ForwardTimeout(w, s)

Spec == Init /\ [][Next]_vars
-----------------------------------------------------------------------------
(* Safety.                                                                 *)

Disjoint(A, B) == \A a \in A, b \in B : a.offset # b.offset

NoRepeat(c) == \A i, j \in DOMAIN c : c[i].offset = c[j].offset => i = j

(* A Pop loop holds a message exactly while it is sending it.              *)
HeldWhileSending ==
    \A w \in Worker : IF pc[w] = "send" THEN \E m \in held[w] : held[w] = {m}
                                       ELSE held[w] = {}

HeldAlone ==
    \A v, w \in Worker :
        QueueOf(v) = QueueOf(w) /\ v # w => Disjoint(held[v], held[w])

HeldNowhereElse ==
    \A w \in Worker : /\ Disjoint(held[w], lost[QueueOf(w)])
                      /\ \A s \in Stream : s.queue = QueueOf(w) =>
                            /\ Disjoint(held[w], Contents(chan[s]))
                            /\ Disjoint(held[w], Contents(delivered[s]))

StreamsApart ==
    \A s, t \in Stream : s.queue = t.queue =>
        /\ Disjoint(Contents(chan[s]), Contents(delivered[t]))
        /\ s # t => /\ Disjoint(Contents(chan[s]), Contents(chan[t]))
                    /\ Disjoint(Contents(delivered[s]), Contents(delivered[t]))

StreamsWithoutRepeat ==
    \A s \in Stream : /\ NoRepeat(chan[s]) /\ NoRepeat(delivered[s])
                      /\ Disjoint(Contents(chan[s]), lost[s.queue])
                      /\ Disjoint(Contents(delivered[s]), lost[s.queue])

(* What has left the queue lies below the offset at its front.             *)
PoppedIsBehind ==
    \A q \in Queue :
        LET Behind(M) == \A m \in M : m.offset < FrontOffset(state, q)
        IN  /\ Behind(lost[q])
            /\ \A w \in Worker : QueueOf(w) = q => Behind(held[w])
            /\ \A s \in Stream : s.queue = q => /\ Behind(Contents(chan[s]))
                                                /\ Behind(Contents(delivered[s]))

(* A published message is in one place only: in its queue, with one Pop    *)
(* loop, once in one channel, once with one consumer, or lost. In          *)
(* particular no two consumers receive it and none receives it twice,      *)
(* whatever the redirects, timeouts, disconnects and crashes.              *)
AtMostOnce ==
    /\ Contiguous(state)
    /\ HeldWhileSending /\ HeldAlone /\ HeldNowhereElse
    /\ StreamsApart /\ StreamsWithoutRepeat
    /\ PoppedIsBehind

InFlight(q) == (UNION {held[w] : w \in {v \in Worker : QueueOf(v) = q}})
               \cup (UNION {Contents(chan[s]) : s \in {t \in Stream : t.queue = q}})

Received(q) == UNION {Contents(delivered[s]) : s \in {t \in Stream : t.queue = q}}

(* No message disappears silently: every offset that has left the queue is *)
(* on its way, received, or was dropped with a stream, a worker or an      *)
(* orphaned entry.                                                         *)
Conserved ==
    \A q \in Queue :
        {m.offset : m \in InFlight(q) \cup Received(q) \cup lost[q]}
            = 0..(FrontOffset(state, q) - 1)

(* While a consumer is connected all of its Pop loops are running: no      *)
(* redirect, failed forward or change of leader ends one.                  *)
SubscriberKeepsItsWorkers ==
    \A w \in Worker : rx[w[1]] = "client" => pc[w] \notin {"off", "stopped"}

(* A forwarded stream is read by one `pop_via_forward` from its opening to *)
(* its drop: the leader never keeps one that nobody waits for.             *)
ForwardsArePaired ==
    /\ \A s \in Stream : rx[s] = "forward" => \E w \in Worker : pc[w] = "await" /\ awaits[w] = {s}
    /\ \A v, w \in Worker : v # w => awaits[v] \cap awaits[w] = {}
    /\ \A w \in Worker :
        /\ pc[w] = "await" <=> awaits[w] # {}
        /\ \A s \in awaits[w] : s.host # HostOf(w) /\ s.queue = QueueOf(w)
                                /\ rx[s] \in {"forward", "closed"}

(* A stream whose reader is gone, a consumer's as well as one a            *)
(* `pop_via_forward` opened, costs at most what its channel and the wire   *)
(* hold and one message for each of its workers.                           *)
LossIsBounded ==
    (elections <= 1 /\ crashes = 0) =>
        \A q \in Queue :
            Cardinality(lost[q]) <=
                (PipeCapacity + PopConcurrency)
                    * Cardinality({s \in Stream : s.queue = q /\ rx[s] = "closed"})

(* The loops of a stream send in any order, yet a consumer who has received*)
(* a message will see at most one older one per other loop: with a single  *)
(* loop the stream is in order.                                            *)
ReorderIsBounded ==
    \A s \in Stream : \A i \in DOMAIN delivered[s] :
        Cardinality({j \in DOMAIN delivered[s] :
                        j > i /\ delivered[s][j].offset < delivered[s][i].offset})
            < PopConcurrency

(* As the comment on the Pop loops and mq.proto have it: as long as no     *)
(* consumer hangs up, no node dies and the leader stays, nothing that was  *)
(* published is lost.                                                      *)
NothingLostWithoutFault ==
    (elections <= 1 /\ crashes = 0 /\ disconnects = 0) => \A q \in Queue : lost[q] = {}

-----------------------------------------------------------------------------
(* Liveness. The scheduler runs every task and a stable leader commits     *)
(* every entry; consumers read; a closed connection is noticed; the timer  *)
(* fires. Publishing, subscribing and every fault are up to the others.    *)

WorkerStep(w) ==
    \/ ProposePop(w) \/ PopApplied(w) \/ RetryPop(w) \/ SendPopped(w) \/ SendFails(w)
    \/ \E s \in Stream : ForwardPop(w, s) \/ ForwardReply(w, s) \/ ForwardTimeout(w, s)

Fairness ==
    /\ \A w \in Worker : WF_vars(WorkerStep(w))
    /\ \A s \in Stream : WF_vars(Receive(s)) /\ WF_vars(StreamDropped(s))
    /\ \A n \in Node : WF_vars(Learn(n)) /\ WF_vars(leader = {} /\ Elect(n))

FairSpec == Spec /\ Fairness

(* A consumer is subscribed on the node that leads the group.              *)
Subscribed(q) == \E s \in Stream : s.queue = q /\ rx[s] = "client" /\ leader = {s.host}

(* While a consumer stays subscribed on the leader, every message that is  *)
(* published reaches a consumer, or a stream that another consumer or a    *)
(* `pop_via_forward` has abandoned.                                        *)
EveryMessageSettles ==
    \A q \in Queue : \A k \in 0..(MaxOffset - 1) :
        (Subscribed(q) /\ state.next_offset[q] > k)
            ~> (k \in {m.offset : m \in Received(q) \cup lost[q]} \/ ~Subscribed(q))

-----------------------------------------------------------------------------
(* The handler implements the abstract delivery.                           *)

Delivery == INSTANCE AtMostOnceDelivery
                WITH inflight <- [q \in Queue |-> InFlight(q)],
                     received <- [q \in Queue |-> Received(q)]

(* Every step of the nodes is a step of AtMostOnceDelivery or none at all. *)
ImplementsDelivery == Delivery!AbstractSpec
=============================================================================
