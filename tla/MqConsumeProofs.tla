--------------------------- MODULE MqConsumeProofs --------------------------
(***************************************************************************)
(* Theorems about MqConsume, for every number of nodes, queues, streams    *)
(* and workers.                                                            *)
(*                                                                         *)
(* Control says where the Pop loops are and what they hold; it implies the *)
(* types and is inductive by itself. Relative to it are inductive: Placed, *)
(* where the messages are, which gives AtMostOnce and the refinement of    *)
(* AtMostOnceDelivery; Lifecycle, who reads and who serves a stream;       *)
(* LossInv, what a dropped stream costs; and OrderInv, which messages may  *)
(* still be overtaken.                                                     *)
(***************************************************************************)
EXTENDS MqConsume, FiniteSetTheorems, SequenceTheorems, TLAPS

(* The one-line choices of the handler are read as what they stand for.    *)
USE DEF AfterPopOf, AfterRefusal, LeftAfterReply, RxAfterTimeout, AfterFailedSend,
        LeftAfterReceive

(* A forwarded Pop waits on a stream of its own queue.                     *)
AwaitsOwnQueue == \A w \in Worker : \A s \in awaits[w] : s.queue = QueueOf(w)

(* A stream that nobody has opened has no tasks.                           *)
UnusedHasNoWorkers == \A w \in Worker : rx[w[1]] = "unused" => pc[w] = "off"

Control == TypeOK /\ HeldWhileSending /\ AwaitsOwnQueue /\ UnusedHasNoWorkers

-----------------------------------------------------------------------------
(* What one request does to the queue data, for every queue and payload.   *)

(* The default QueueState is well formed.                                  *)
LEMMA EmptyStateContiguous == EmptyState \in QueueStates /\ Contiguous(EmptyState)
  BY DEF EmptyState, QueueStates, Contiguous, FrontOffset, Message

(* Publishing keeps a QueueState well typed and its queues gap-free, and   *)
(* moves no front.                                                         *)
LEMMA PublishKeepsContiguous ==
    ASSUME NEW s \in QueueStates, NEW q \in Queue, NEW p \in Payload, Contiguous(s)
    PROVE  /\ AfterPublish(s, q, p) \in QueueStates
           /\ Contiguous(AfterPublish(s, q, p))
           /\ \A r \in Queue : FrontOffset(AfterPublish(s, q, p), r) = FrontOffset(s, r)
<1> DEFINE t == AfterPublish(s, q, p)
           m == [offset |-> s.next_offset[q], payload |-> p]
<1>1. /\ s.queues \in [Queue -> Seq(Message)] /\ s.next_offset \in [Queue -> Nat]
      /\ m \in Message
  BY DEF QueueStates, Message
<1>2. /\ t.queues = [s.queues EXCEPT ![q] = Append(@, m)]
      /\ t.next_offset = [s.next_offset EXCEPT ![q] = @ + 1]
  BY DEF AfterPublish
<1>3. t \in QueueStates
  BY <1>1, <1>2 DEF QueueStates, AfterPublish
<1>4. /\ t.queues[q] = Append(s.queues[q], m) /\ t.next_offset[q] = s.next_offset[q] + 1
      /\ \A r \in Queue \ {q} : t.queues[r] = s.queues[r] /\ t.next_offset[r] = s.next_offset[r]
  BY <1>1, <1>2
<1>5. /\ Len(t.queues[q]) = Len(s.queues[q]) + 1
      /\ \A i \in 1..Len(s.queues[q]) : t.queues[q][i] = s.queues[q][i]
      /\ t.queues[q][Len(s.queues[q]) + 1] = m
  BY <1>1, <1>4, AppendProperties
<1>6. \A r \in Queue : /\ Len(s.queues[r]) \in Nat /\ s.next_offset[r] \in Nat
                       /\ Len(s.queues[r]) <= s.next_offset[r]
  BY <1>1, LenProperties DEF Contiguous
<1>7. ASSUME NEW r \in Queue
      PROVE  FrontOffset(t, r) = FrontOffset(s, r) /\ Len(t.queues[r]) <= t.next_offset[r]
  <2>1. CASE r # q
    BY <2>1, <1>4, <1>6 DEF FrontOffset
  <2>2. CASE r = q
    <3>1. /\ Len(t.queues[r]) = Len(s.queues[r]) + 1
          /\ t.next_offset[r] = s.next_offset[r] + 1
      BY <2>2, <1>4, <1>5
    <3>2. /\ FrontOffset(t, r) = t.next_offset[r] - Len(t.queues[r])
          /\ FrontOffset(s, r) = s.next_offset[r] - Len(s.queues[r])
      BY DEF FrontOffset
    <3>3. \A a, b \in Nat : (a + 1) - (b + 1) = a - b /\ (b <= a => b + 1 <= a + 1)
      OBVIOUS
    <3> HIDE DEF t
    <3> QED BY <3>1, <3>2, <3>3, <1>6
  <2> QED BY <2>1, <2>2
<1>8. ASSUME NEW r \in Queue, NEW i \in 1..Len(t.queues[r])
      PROVE  t.queues[r][i].offset = FrontOffset(t, r) + (i - 1)
  <2>1. CASE r # q
    BY <2>1, <1>4, <1>7 DEF Contiguous
  <2>2. CASE r = q /\ i # Len(s.queues[q]) + 1
    <3>1. i \in 1..Len(s.queues[q])
      BY <2>2, <1>5, <1>6
    <3> QED BY <3>1, <2>2, <1>5, <1>7 DEF Contiguous
  <2>3. CASE r = q /\ i = Len(s.queues[q]) + 1
    <3>1. t.queues[q][i].offset = s.next_offset[q]
      BY <2>3, <1>5
    <3> QED BY <3>1, <2>3, <1>6, <1>7 DEF FrontOffset
  <2> QED BY <2>1, <2>2, <2>3
<1> QED BY <1>3, <1>7, <1>8 DEF Contiguous

(* A Pop on a queue that is not empty answers with the message at the      *)
(* front, whose offset is the front offset, and advances that front by     *)
(* one; every other queue keeps its front, and all stay gap-free.          *)
LEMMA PopKeepsContiguous ==
    ASSUME NEW s \in QueueStates, NEW q \in Queue, Contiguous(s), s.queues[q] # <<>>
    PROVE  /\ AfterPop(s, q) \in QueueStates
           /\ Contiguous(AfterPop(s, q))
           /\ PoppedBy(s, q) = {Head(s.queues[q])}
           /\ Head(s.queues[q]) \in Message
           /\ Head(s.queues[q]).offset = FrontOffset(s, q)
           /\ FrontOffset(AfterPop(s, q), q) = FrontOffset(s, q) + 1
           /\ \A r \in Queue \ {q} : FrontOffset(AfterPop(s, q), r) = FrontOffset(s, r)
           /\ \A r \in Queue : FrontOffset(s, r) \in Nat
<1> DEFINE t == AfterPop(s, q)
           c == s.queues[q]
<1>1. /\ s.queues \in [Queue -> Seq(Message)] /\ s.next_offset \in [Queue -> Nat]
      /\ c \in Seq(Message)
  BY DEF QueueStates
<1>2. t.queues = [s.queues EXCEPT ![q] = Tail(c)] /\ t.next_offset = s.next_offset
  BY <1>1 DEF AfterPop
<1>3. /\ Head(c) = c[1] /\ Tail(c) \in Seq(Message) /\ Len(Tail(c)) = Len(c) - 1
      /\ \A i \in 1..Len(Tail(c)) : Tail(c)[i] = c[i + 1]
      /\ Len(c) \in Nat /\ Len(c) >= 1
  BY <1>1, HeadTailProperties, EmptySeq, LenProperties
<1>4. t \in QueueStates
  BY <1>1, <1>2, <1>3 DEF QueueStates, AfterPop
<1>5. /\ t.queues[q] = Tail(c)
      /\ \A r \in Queue \ {q} : t.queues[r] = s.queues[r]
      /\ \A r \in Queue : t.next_offset[r] = s.next_offset[r]
  BY <1>1, <1>2
<1>6. \A r \in Queue : /\ Len(s.queues[r]) \in Nat /\ s.next_offset[r] \in Nat
                       /\ Len(s.queues[r]) <= s.next_offset[r]
                       /\ FrontOffset(s, r) \in Nat
  BY <1>1, LenProperties DEF Contiguous, FrontOffset
<1>7. /\ FrontOffset(t, q) = FrontOffset(s, q) + 1
      /\ \A r \in Queue \ {q} : FrontOffset(t, r) = FrontOffset(s, r)
  BY <1>3, <1>5, <1>6 DEF FrontOffset
<1>8. \A r \in Queue : \A i \in 1..Len(s.queues[r]) :
            s.queues[r][i].offset = FrontOffset(s, r) + (i - 1)
  BY DEF Contiguous
<1>9. Head(c).offset = FrontOffset(s, q)
  BY <1>3, <1>6, <1>8
<1>10. ASSUME NEW r \in Queue, NEW i \in 1..Len(t.queues[r])
       PROVE  t.queues[r][i].offset = FrontOffset(t, r) + (i - 1)
  <2>1. CASE r # q
    BY <2>1, <1>5, <1>7, <1>8
  <2>2. CASE r = q
    <3>1. i \in 1..(Len(c) - 1) /\ i + 1 \in 1..Len(c) /\ t.queues[r][i] = c[i + 1]
      BY <2>2, <1>3, <1>5
    <3>2. c[i + 1].offset = FrontOffset(s, q) + ((i + 1) - 1)
      BY <3>1, <1>8
    <3> QED BY <3>1, <3>2, <2>2, <1>6, <1>7
  <2> QED BY <2>1, <2>2
<1>11. ASSUME NEW r \in Queue
       PROVE  Len(t.queues[r]) <= t.next_offset[r]
  <2>1. CASE r # q
    BY <2>1, <1>5, <1>6
  <2>2. CASE r = q
    BY <2>2, <1>3, <1>5, <1>6
  <2> QED BY <2>1, <2>2
<1>12. PoppedBy(s, q) = {Head(c)} /\ Head(c) \in Message
  BY <1>1, <1>3 DEF PoppedBy
<1> QED BY <1>4, <1>6, <1>7, <1>9, <1>10, <1>11, <1>12 DEF Contiguous

(* A Pop on an empty queue answers None and changes nothing.               *)
LEMMA PopOfEmpty ==
    ASSUME NEW s \in QueueStates, NEW q \in Queue, s.queues[q] = <<>>
    PROVE  AfterPop(s, q) = s /\ PoppedBy(s, q) = {}
<1>1. /\ s = [queues |-> s.queues, next_offset |-> s.next_offset]
      /\ s.queues = [s.queues EXCEPT ![q] = <<>>]
  BY DEF QueueStates
<1> QED BY <1>1 DEF AfterPop, PoppedBy

-----------------------------------------------------------------------------

(* The parts of a stream and of a worker are what their names say.         *)
LEMMA StreamParts == \A s \in Stream : s.host \in Node /\ s.queue \in Queue
  BY DEF Stream

(* A worker belongs to a stream, and so to a node and a queue.             *)
LEMMA WorkerParts ==
    \A w \in Worker : w[1] \in Stream /\ HostOf(w) \in Node /\ QueueOf(w) \in Queue
  BY StreamParts DEF Worker, HostOf, QueueOf

(* Finitely many streams with POP_CONCURRENCY loops each have finitely many*)
(* loops, so the entries a crash orphans can be counted.                   *)
LEMMA WorkersAreFinite == IsFiniteSet(Worker)
<1>1. PopConcurrency \in Int
  BY ParametersAreSound
<1>2. IsFiniteSet(1..PopConcurrency)
  BY <1>1, FS_Interval
<1> QED BY <1>2, StreamsAreFinite, FS_Product DEF Worker

(* Requests keep the queue data well typed, gap-free or not.               *)
LEMMA RequestsKeepTypes ==
    ASSUME NEW s \in QueueStates, NEW q \in Queue
    PROVE  /\ AfterPop(s, q) \in QueueStates
           /\ PoppedBy(s, q) \in SUBSET Message
           /\ PoppedBy(s, q) # {} => \E m \in Message : PoppedBy(s, q) = {m}
           /\ \A p \in Payload : AfterPublish(s, q, p) \in QueueStates
<1>1. s.queues \in [Queue -> Seq(Message)] /\ s.next_offset \in [Queue -> Nat]
  BY DEF QueueStates
<1>2. s.queues[q] # <<>> => Tail(s.queues[q]) \in Seq(Message) /\ Head(s.queues[q]) \in Message
  BY <1>1, HeadTailProperties
<1>3. AfterPop(s, q) \in QueueStates
  BY <1>1, <1>2 DEF AfterPop, QueueStates
<1>4. /\ PoppedBy(s, q) \in SUBSET Message
      /\ PoppedBy(s, q) # {} => \E m \in Message : PoppedBy(s, q) = {m}
  BY <1>2 DEF PoppedBy
<1>5. ASSUME NEW p \in Payload
      PROVE  AfterPublish(s, q, p) \in QueueStates
  <2>1. Append(s.queues[q], [offset |-> s.next_offset[q], payload |-> p]) \in Seq(Message)
    BY <1>1, AppendProperties DEF Message
  <2> QED BY <1>1, <2>1 DEF AfterPublish, QueueStates
<1> QED BY <1>3, <1>4, <1>5

(* A channel, or what a consumer received, holds messages only.            *)
LEMMA ContentsAreMessages == \A c \in Seq(Message) : Contents(c) \in SUBSET Message
  BY LenProperties DEF Contents

(* What a crash of node n takes from queue q: messages its tasks held and  *)
(* messages in its channels.                                               *)
LEMMA LostToCrash ==
    ASSUME NEW n, NEW q, NEW m
    PROVE  /\ m \in HeldAt(n, q) <=> \E w \in Dying(n) : QueueOf(w) = q /\ m \in held[w]
           /\ m \in BufferedAt(n, q) <=>
                \E s \in Stream : s.host = n /\ s.queue = q /\ m \in Contents(chan[s])
<1>1. m \in HeldAt(n, q) <=> \E w \in Dying(n) : QueueOf(w) = q /\ m \in held[w]
  BY DEF HeldAt
<1>2. m \in BufferedAt(n, q) <=>
            \E s \in Stream : s.host = n /\ s.queue = q /\ m \in Contents(chan[s])
  BY DEF BufferedAt
<1> QED BY <1>1, <1>2

-----------------------------------------------------------------------------

(* The initial state is well typed and no loop holds or awaits anything.   *)
LEMMA InitControl == Init => Control
<1> SUFFICES ASSUME Init PROVE Control
  OBVIOUS
<1>1. state \in QueueStates
  BY EmptyStateContiguous DEF Init
<1>2. TypeOK
  BY <1>1, EmptySeq DEF Init, TypeOK, RxState, WorkerState
<1>3. HeldWhileSending /\ AwaitsOwnQueue /\ UnusedHasNoWorkers
  BY DEF Init, HeldWhileSending, AwaitsOwnQueue, UnusedHasNoWorkers
<1> QED BY <1>2, <1>3 DEF Control

(* Every action keeps the types, and a loop that enters or leaves "send"   *)
(* or "await" takes or gives up its message or its stream with it.         *)
LEMMA NextControl == Control /\ [Next]_vars => Control'
<1> SUFFICES ASSUME Control, [Next]_vars PROVE Control'
  OBVIOUS
<1> USE DEF Control
<1>a. \A w \in Worker : w[1] \in Stream /\ HostOf(w) \in Node /\ QueueOf(w) \in Queue
  BY WorkerParts
<1>b. \A s \in Stream : s.host \in Node /\ s.queue \in Queue
  BY StreamParts
<1>1. ASSUME NEW q \in Queue, NEW p \in Payload, PublishApplied(q, p) PROVE Control'
  <2>1. state' \in QueueStates
    BY <1>1, RequestsKeepTypes DEF PublishApplied, TypeOK
  <2>2. TypeOK'
    BY <1>1, <2>1 DEF PublishApplied, TypeOK, raftVars, faultVars
  <2>3. HeldWhileSending' /\ AwaitsOwnQueue' /\ UnusedHasNoWorkers'
    BY <1>1 DEF PublishApplied, HeldWhileSending, AwaitsOwnQueue, UnusedHasNoWorkers
  <2> QED BY <2>2, <2>3
<1>2. ASSUME NEW n \in Node, Elect(n) PROVE Control'
  <2>1. TypeOK'
    BY <1>2 DEF Elect, TypeOK, faultVars
  <2>2. HeldWhileSending' /\ AwaitsOwnQueue' /\ UnusedHasNoWorkers'
    BY <1>2 DEF Elect, HeldWhileSending, AwaitsOwnQueue, UnusedHasNoWorkers
  <2> QED BY <2>1, <2>2
<1>3. ASSUME NEW n \in Node, Learn(n) PROVE Control'
  <2>1. TypeOK'
    BY <1>3 DEF Learn, TypeOK, faultVars
  <2>2. HeldWhileSending' /\ AwaitsOwnQueue' /\ UnusedHasNoWorkers'
    BY <1>3 DEF Learn, HeldWhileSending, AwaitsOwnQueue, UnusedHasNoWorkers
  <2> QED BY <2>1, <2>2
<1>4. ASSUME NEW q \in Queue, OrphanPopApplied(q) PROVE Control'
  <2>1. state' \in QueueStates /\ PoppedBy(state, q) \in SUBSET Message
    BY <1>4, RequestsKeepTypes DEF OrphanPopApplied, TypeOK
  <2>2. orphans' \in [Queue -> Nat]
    BY <1>4 DEF OrphanPopApplied, TypeOK
  <2>3. lost' \in [Queue -> SUBSET Message]
    BY <1>4, <2>1 DEF OrphanPopApplied, TypeOK
  <2>4. TypeOK'
    BY <1>4, <2>1, <2>2, <2>3 DEF OrphanPopApplied, TypeOK, raftVars, faultVars
  <2>5. HeldWhileSending' /\ AwaitsOwnQueue' /\ UnusedHasNoWorkers'
    BY <1>4 DEF OrphanPopApplied, HeldWhileSending, AwaitsOwnQueue, UnusedHasNoWorkers
  <2> QED BY <2>4, <2>5
<1>5. ASSUME NEW s \in Stream, Subscribe(s) PROVE Control'
  <2>1. pc' \in [Worker -> WorkerState]
    BY <1>5 DEF Subscribe, SpawnedBy, TypeOK, WorkerState
  <2>2. TypeOK'
    BY <1>5, <2>1 DEF Subscribe, OpenStream, TypeOK, RxState, raftVars, faultVars
  <2>3. HeldWhileSending'
    BY <1>5, <1>a DEF Subscribe, OpenStream, SpawnedBy, HeldWhileSending, UnusedHasNoWorkers
  <2>4. AwaitsOwnQueue'
    BY <1>5 DEF Subscribe, AwaitsOwnQueue
  <2>5. UnusedHasNoWorkers'
    BY <1>5, <1>a DEF Subscribe, OpenStream, SpawnedBy, UnusedHasNoWorkers, TypeOK
  <2> QED BY <2>2, <2>3, <2>4, <2>5
<1>6. ASSUME NEW w \in Worker, ProposePop(w) PROVE Control'
  <2>1. TypeOK'
    BY <1>6 DEF ProposePop, TypeOK, WorkerState, raftVars, faultVars
  <2>2. HeldWhileSending' /\ AwaitsOwnQueue' /\ UnusedHasNoWorkers'
    BY <1>6 DEF ProposePop, TypeOK, HeldWhileSending, AwaitsOwnQueue, UnusedHasNoWorkers
  <2> QED BY <2>1, <2>2
<1>7. ASSUME NEW w \in Worker, PopApplied(w) PROVE Control'
  <2> DEFINE popped == PoppedBy(state, QueueOf(w))
  <2>1. /\ state' \in QueueStates /\ popped \in SUBSET Message
        /\ popped # {} => \E m \in Message : popped = {m}
    BY <1>7, <1>a, RequestsKeepTypes DEF PopApplied, TypeOK
  <2>2. /\ pc' \in [Worker -> WorkerState] /\ held' \in [Worker -> SUBSET Message]
        /\ held'[w] = popped /\ pc'[w] = IF popped = {} THEN "propose" ELSE "send"
        /\ \A v \in Worker \ {w} : held'[v] = held[v] /\ pc'[v] = pc[v]
    BY <1>7, <2>1 DEF PopApplied, TypeOK, WorkerState
  <2>3. TypeOK'
    BY <1>7, <2>1, <2>2 DEF PopApplied, TypeOK, raftVars, faultVars
  <2>4. HeldWhileSending'
    BY <2>1, <2>2 DEF HeldWhileSending
  <2>5. AwaitsOwnQueue' /\ UnusedHasNoWorkers'
    BY <1>7, <2>2 DEF PopApplied, AwaitsOwnQueue, UnusedHasNoWorkers
  <2> QED BY <2>3, <2>4, <2>5
<1>8. ASSUME NEW w \in Worker, RetryPop(w) PROVE Control'
  <2>1. orphans' \in [Queue -> Nat]
    BY <1>8, <1>a DEF RetryPop, Refused, TypeOK
  <2>2. TypeOK'
    BY <1>8, <2>1 DEF RetryPop, TypeOK, WorkerState, raftVars, faultVars
  <2>3. HeldWhileSending' /\ AwaitsOwnQueue' /\ UnusedHasNoWorkers'
    BY <1>8 DEF RetryPop, TypeOK, HeldWhileSending, AwaitsOwnQueue, UnusedHasNoWorkers
  <2> QED BY <2>2, <2>3
<1>9. ASSUME NEW w \in Worker, SendPopped(w) PROVE Control'
  <2> DEFINE m == CHOOSE x \in held[w] : TRUE
  <2>1. m \in Message
    BY <1>9 DEF SendPopped, HeldWhileSending, TypeOK
  <2>2. Append(chan[w[1]], m) \in Seq(Message)
    BY <2>1, <1>a, AppendProperties DEF TypeOK
  <2>3. chan' \in [Stream -> Seq(Message)]
    BY <1>9, <2>2 DEF SendPopped, TypeOK
  <2>4. TypeOK'
    BY <1>9, <2>3 DEF SendPopped, TypeOK, WorkerState, raftVars, faultVars
  <2>5. HeldWhileSending' /\ AwaitsOwnQueue' /\ UnusedHasNoWorkers'
    BY <1>9 DEF SendPopped, TypeOK, HeldWhileSending, AwaitsOwnQueue, UnusedHasNoWorkers
  <2> QED BY <2>4, <2>5
<1>10. ASSUME NEW w \in Worker, SendFails(w) PROVE Control'
  <2>1. lost' \in [Queue -> SUBSET Message]
    BY <1>10, <1>a DEF SendFails, TypeOK
  <2>2. TypeOK'
    BY <1>10, <2>1 DEF SendFails, TypeOK, WorkerState, raftVars, faultVars
  <2>3. HeldWhileSending' /\ AwaitsOwnQueue' /\ UnusedHasNoWorkers'
    BY <1>10 DEF SendFails, TypeOK, HeldWhileSending, AwaitsOwnQueue, UnusedHasNoWorkers
  <2> QED BY <2>2, <2>3
<1>11. ASSUME NEW w \in Worker, NEW s \in Stream, ForwardPop(w, s) PROVE Control'
  <2>1. orphans' \in [Queue -> Nat]
    BY <1>11, <1>a DEF ForwardPop, Refused, TypeOK
  <2>2. /\ pc' \in [Worker -> WorkerState] /\ pc'[w] = "await"
        /\ \A v \in Worker \ {w} : pc'[v] = IF v[1] = s THEN "propose" ELSE pc[v]
    BY <1>11 DEF ForwardPop, SpawnedBy, TypeOK, WorkerState
  <2>3. rx' \in [Stream -> RxState] /\ rx'[s] = "forward" /\ \A t \in Stream \ {s} : rx'[t] = rx[t]
    BY <1>11 DEF ForwardPop, OpenStream, TypeOK, RxState
  <2>4. TypeOK'
    BY <1>11, <2>1, <2>2, <2>3 DEF ForwardPop, TypeOK, raftVars, faultVars
  <2>5. HeldWhileSending'
    <3>1. \A v \in Worker : v[1] = s => held[v] = {}
      BY <1>11 DEF ForwardPop, OpenStream, HeldWhileSending, UnusedHasNoWorkers
    <3>2. held[w] = {} /\ held' = held
      BY <1>11 DEF ForwardPop, Refused, HeldWhileSending
    <3> QED BY <2>2, <3>1, <3>2 DEF HeldWhileSending
  <2>6. AwaitsOwnQueue'
    BY <1>11 DEF ForwardPop, AwaitsOwnQueue, TypeOK
  <2>7. UnusedHasNoWorkers'
    <3>1. rx[w[1]] # "unused"
      BY <1>11 DEF ForwardPop, Refused, UnusedHasNoWorkers
    <3> QED BY <3>1, <2>2, <2>3, <1>a DEF UnusedHasNoWorkers
  <2> QED BY <2>4, <2>5, <2>6, <2>7
<1>12. ASSUME NEW w \in Worker, NEW s \in Stream, ForwardReply(w, s) PROVE Control'
  <2>1. Head(chan[s]) \in Message /\ Tail(chan[s]) \in Seq(Message)
    BY <1>12, HeadTailProperties DEF ForwardReply, TypeOK
  <2>2. chan' \in [Stream -> Seq(Message)] /\ held' \in [Worker -> SUBSET Message]
    BY <1>12, <2>1 DEF ForwardReply, TypeOK
  <2>3. rx' \in [Stream -> RxState]
    BY <1>12 DEF ForwardReply, TypeOK, RxState
  <2>4. TypeOK'
    BY <1>12, <2>2, <2>3 DEF ForwardReply, TypeOK, WorkerState, raftVars, faultVars
  <2>5. HeldWhileSending'
    BY <1>12, <2>1 DEF ForwardReply, TypeOK, HeldWhileSending
  <2>6. AwaitsOwnQueue'
    BY <1>12 DEF ForwardReply, TypeOK, AwaitsOwnQueue
  <2>7. UnusedHasNoWorkers'
    BY <1>12, <1>a DEF ForwardReply, TypeOK, UnusedHasNoWorkers
  <2> QED BY <2>4, <2>5, <2>6, <2>7
<1>13. ASSUME NEW w \in Worker, NEW s \in Stream, ForwardTimeout(w, s) PROVE Control'
  <2>1. rx' \in [Stream -> RxState]
    BY <1>13 DEF ForwardTimeout, TypeOK, RxState
  <2>2. TypeOK'
    BY <1>13, <2>1 DEF ForwardTimeout, TypeOK, WorkerState, raftVars, faultVars
  <2>3. HeldWhileSending' /\ AwaitsOwnQueue'
    BY <1>13 DEF ForwardTimeout, TypeOK, HeldWhileSending, AwaitsOwnQueue
  <2>4. UnusedHasNoWorkers'
    BY <1>13, <1>a DEF ForwardTimeout, TypeOK, UnusedHasNoWorkers
  <2> QED BY <2>2, <2>3, <2>4
<1>14. ASSUME NEW s \in Stream, StreamDropped(s) PROVE Control'
  <2>1. Contents(chan[s]) \in SUBSET Message
    BY ContentsAreMessages DEF TypeOK
  <2>2. lost' \in [Queue -> SUBSET Message]
    BY <1>14, <1>b, <2>1 DEF StreamDropped, TypeOK
  <2>3. chan' \in [Stream -> Seq(Message)]
    BY <1>14, EmptySeq DEF StreamDropped, TypeOK
  <2>4. TypeOK'
    BY <1>14, <2>2, <2>3 DEF StreamDropped, TypeOK, RxState, raftVars, faultVars
  <2>5. HeldWhileSending' /\ AwaitsOwnQueue'
    BY <1>14 DEF StreamDropped, HeldWhileSending, AwaitsOwnQueue
  <2>6. UnusedHasNoWorkers'
    BY <1>14, <1>a DEF StreamDropped, TypeOK, UnusedHasNoWorkers
  <2> QED BY <2>4, <2>5, <2>6
<1>15. ASSUME NEW s \in Stream, Receive(s) PROVE Control'
  <2>1. Head(chan[s]) \in Message /\ Tail(chan[s]) \in Seq(Message)
    BY <1>15, HeadTailProperties DEF Receive, TypeOK
  <2>2. Append(delivered[s], Head(chan[s])) \in Seq(Message)
    BY <2>1, AppendProperties DEF TypeOK
  <2>3. chan' \in [Stream -> Seq(Message)] /\ delivered' \in [Stream -> Seq(Message)]
    BY <1>15, <2>1, <2>2 DEF Receive, TypeOK
  <2>4. TypeOK'
    BY <1>15, <2>3 DEF Receive, TypeOK, raftVars, faultVars
  <2>5. HeldWhileSending' /\ AwaitsOwnQueue' /\ UnusedHasNoWorkers'
    BY <1>15 DEF Receive, HeldWhileSending, AwaitsOwnQueue, UnusedHasNoWorkers
  <2> QED BY <2>4, <2>5
<1>16. ASSUME NEW s \in Stream, Disconnect(s) PROVE Control'
  <2>1. TypeOK'
    BY <1>16 DEF Disconnect, TypeOK, RxState, raftVars
  <2>2. HeldWhileSending' /\ AwaitsOwnQueue'
    BY <1>16 DEF Disconnect, HeldWhileSending, AwaitsOwnQueue
  <2>3. UnusedHasNoWorkers'
    BY <1>16, <1>a DEF Disconnect, TypeOK, UnusedHasNoWorkers
  <2> QED BY <2>1, <2>2, <2>3
<1>17. ASSUME NEW n \in Node, Crash(n) PROVE Control'
  <2>1. orphans' \in [Queue -> Nat]
    <3>1. \A q \in Queue : Orphaned(n, q) \in SUBSET Worker
      BY DEF Orphaned, Dying
    <3>2. \A q \in Queue : Cardinality(Orphaned(n, q)) \in Nat
      BY <3>1, WorkersAreFinite, FS_Subset, FS_CardinalityType
    <3> QED BY <1>17, <3>2 DEF Crash, TypeOK
  <2>2. lost' \in [Queue -> SUBSET Message]
    <3>1. \A s \in Stream : Contents(chan[s]) \in SUBSET Message
      BY ContentsAreMessages DEF TypeOK
    <3>2. \A w \in Dying(n) : held[w] \in SUBSET Message
      BY DEF Dying, TypeOK
    <3>3. \A q \in Queue : HeldAt(n, q) \in SUBSET Message /\ BufferedAt(n, q) \in SUBSET Message
      BY <3>1, <3>2, LostToCrash
    <3> QED BY <1>17, <3>3 DEF Crash, TypeOK
  <2>3. /\ rx' \in [Stream -> RxState]
        /\ \A s \in Stream : rx'[s] = "unused" => rx[s] = "unused"
    BY <1>17 DEF Crash, TypeOK, RxState
  <2>4. chan' \in [Stream -> Seq(Message)]
    BY <1>17, EmptySeq DEF Crash, TypeOK
  <2>5. /\ pc' = [w \in Worker |-> IF w \in Dying(n) THEN "stopped" ELSE pc[w]]
        /\ held' = [w \in Worker |-> IF w \in Dying(n) THEN {} ELSE held[w]]
        /\ awaits' = [w \in Worker |-> IF w \in Dying(n) THEN {} ELSE awaits[w]]
    BY <1>17 DEF Crash
  <2>6. /\ pc' \in [Worker -> WorkerState] /\ held' \in [Worker -> SUBSET Message]
        /\ awaits' \in [Worker -> SUBSET Stream]
    BY <2>5 DEF TypeOK, WorkerState
  <2>7. TypeOK'
    BY <1>17, <2>1, <2>2, <2>3, <2>4, <2>6 DEF Crash, TypeOK
  <2>8. HeldWhileSending' /\ AwaitsOwnQueue'
    BY <2>5 DEF HeldWhileSending, AwaitsOwnQueue
  <2>9. UnusedHasNoWorkers'
    BY <2>3, <2>5, <1>a DEF UnusedHasNoWorkers, Dying
  <2> QED BY <2>7, <2>8, <2>9
<1>18. ASSUME NEW n \in Node, CoreStops(n) PROVE Control'
  <2>1. TypeOK'
    BY <1>18 DEF CoreStops, TypeOK
  <2>2. HeldWhileSending' /\ AwaitsOwnQueue' /\ UnusedHasNoWorkers'
    BY <1>18 DEF CoreStops, HeldWhileSending, AwaitsOwnQueue, UnusedHasNoWorkers
  <2> QED BY <2>1, <2>2
<1>19. CASE UNCHANGED vars
  BY <1>19 DEF vars, TypeOK, HeldWhileSending, AwaitsOwnQueue, UnusedHasNoWorkers
<1> QED
  BY <1>1, <1>2, <1>3, <1>4, <1>5, <1>6, <1>7, <1>8, <1>9, <1>10, <1>11, <1>12, <1>13,
     <1>14, <1>15, <1>16, <1>17, <1>18, <1>19 DEF Next

(* Control holds in every reachable state of the handler.                  *)
LEMMA ControlInvariant == Spec => []Control
  BY InitControl, NextControl, PTL DEF Spec

(* Type correctness: no step takes a variable outside its type, in         *)
(* particular the count of abandoned Pop entries stays a natural number    *)
(* and a loop that sends has a message to send.                            *)
THEOREM TypeCorrect == Spec => []TypeOK
  BY ControlInvariant, PTL DEF Control

-----------------------------------------------------------------------------

(* What Append, Tail and the empty channel do to the contents.             *)
LEMMA ContentsOfAppend ==
    ASSUME NEW c \in Seq(Message), NEW m \in Message
    PROVE  /\ Contents(Append(c, m)) = Contents(c) \cup {m}
           /\ NoRepeat(c) /\ Disjoint({m}, Contents(c)) => NoRepeat(Append(c, m))
<1> DEFINE d == Append(c, m)
<1>1. /\ Len(c) \in Nat /\ DOMAIN c = 1..Len(c)
      /\ DOMAIN d = 1..(Len(c) + 1)
      /\ \A i \in 1..Len(c) : d[i] = c[i]
      /\ d[Len(c) + 1] = m
  BY AppendProperties, LenProperties
<1> HIDE DEF d
<1>2. Contents(d) = Contents(c) \cup {m}
  <2>1. \A i \in DOMAIN d : i \in DOMAIN c \/ i = Len(c) + 1
    BY <1>1
  <2>2. ASSUME NEW x \in Contents(d) PROVE x \in Contents(c) \cup {m}
    BY <1>1, <2>1 DEF Contents
  <2>3. ASSUME NEW x \in Contents(c) \cup {m} PROVE x \in Contents(d)
    BY <1>1 DEF Contents
  <2> QED BY <2>2, <2>3
<1>3. ASSUME NoRepeat(c), Disjoint({m}, Contents(c)), NEW i \in DOMAIN d, NEW j \in DOMAIN d,
             d[i].offset = d[j].offset
      PROVE  i = j
  <2>1. \A k \in DOMAIN c : c[k].offset # m.offset
    BY <1>3 DEF Disjoint, Contents
  <2> QED BY <1>1, <1>3, <2>1 DEF NoRepeat
<1> QED BY <1>2, <1>3 DEF NoRepeat, d

(* Taking the first item of a channel removes that item and no other.      *)
LEMMA ContentsOfTail ==
    ASSUME NEW c \in Seq(Message), c # <<>>, NoRepeat(c)
    PROVE  /\ Head(c) \in Message
           /\ Contents(c) = Contents(Tail(c)) \cup {Head(c)}
           /\ Disjoint({Head(c)}, Contents(Tail(c)))
           /\ NoRepeat(Tail(c))
<1> DEFINE d == Tail(c)
<1>1. /\ Len(c) \in Nat /\ Len(c) >= 1 /\ DOMAIN c = 1..Len(c)
      /\ DOMAIN d = 1..(Len(c) - 1)
      /\ \A i \in DOMAIN d : i + 1 \in DOMAIN c /\ d[i] = c[i + 1]
      /\ Head(c) = c[1] /\ 1 \in DOMAIN c /\ Head(c) \in Message
  BY HeadTailProperties, LenProperties, EmptySeq
<1> HIDE DEF d
<1>2. Contents(c) = Contents(d) \cup {Head(c)}
  <2>1. \A i \in DOMAIN c : i = 1 \/ (i - 1 \in DOMAIN d /\ c[i] = d[i - 1])
    BY <1>1
  <2>2. ASSUME NEW x \in Contents(c) PROVE x \in Contents(d) \cup {Head(c)}
    BY <1>1, <2>1 DEF Contents
  <2>3. ASSUME NEW x \in Contents(d) \cup {Head(c)} PROVE x \in Contents(c)
    BY <1>1 DEF Contents
  <2> QED BY <2>2, <2>3
<1>3. Disjoint({Head(c)}, Contents(d))
  <2>1. \A i \in DOMAIN d : c[1].offset # d[i].offset
    BY <1>1 DEF NoRepeat
  <2> QED BY <1>1, <2>1 DEF Disjoint, Contents
<1>4. NoRepeat(d)
  BY <1>1 DEF NoRepeat
<1> QED BY <1>1, <1>2, <1>3, <1>4 DEF d

(* A channel that is new or was dropped holds nothing.                     *)
LEMMA ContentsOfEmpty == Contents(<<>>) = {} /\ NoRepeat(<<>>)
  BY DEF Contents, NoRepeat

-----------------------------------------------------------------------------

(* AtMostOnce without the part that Control already has.                   *)
Placed ==
    /\ Contiguous(state)
    /\ HeldAlone /\ HeldNowhereElse
    /\ StreamsApart /\ StreamsWithoutRepeat
    /\ PoppedIsBehind

(* Before anything is published every place is empty.                      *)
LEMMA InitPlaced == Init => Placed
<1> SUFFICES ASSUME Init PROVE Placed
  OBVIOUS
<1>1. Contiguous(state)
  BY EmptyStateContiguous DEF Init
<1>2. /\ \A w \in Worker : held[w] = {}
      /\ \A s \in Stream : /\ chan[s] = <<>> /\ delivered[s] = <<>>
                           /\ Contents(chan[s]) = {} /\ Contents(delivered[s]) = {}
      /\ \A q \in Queue : lost[q] = {}
  BY ContentsOfEmpty DEF Init
<1>3. HeldAlone /\ HeldNowhereElse /\ StreamsApart
  BY <1>2 DEF HeldAlone, HeldNowhereElse, StreamsApart, Disjoint
<1>4. StreamsWithoutRepeat
  BY <1>2, ContentsOfEmpty DEF StreamsWithoutRepeat, Disjoint
<1>5. PoppedIsBehind
  BY <1>2 DEF PoppedIsBehind
<1> QED BY <1>1, <1>3, <1>4, <1>5 DEF Placed

(* A step that moves no message keeps every message where it is.           *)
LEMMA QuietKeepsPlaced ==
    ASSUME Placed, UNCHANGED <<state, held, chan, delivered, lost>>
    PROVE  Placed'
  BY DEF Placed, HeldAlone, HeldNowhereElse, StreamsApart, StreamsWithoutRepeat, PoppedIsBehind

(* A message that arrives goes to the back of its queue.                   *)
LEMMA PublishKeepsPlaced ==
    ASSUME Control, Placed, NEW q \in Queue, NEW p \in Payload, PublishApplied(q, p)
    PROVE  Placed'
<1>1. Contiguous(state)' /\ \A r \in Queue : FrontOffset(state', r) = FrontOffset(state, r)
  BY PublishKeepsContiguous DEF PublishApplied, Placed, Control, TypeOK
<1>2. UNCHANGED <<held, chan, delivered, lost>>
  BY DEF PublishApplied
<1>3. PoppedIsBehind'
  BY <1>1, <1>2 DEF Placed, PoppedIsBehind
<1>4. (HeldAlone /\ HeldNowhereElse /\ StreamsApart /\ StreamsWithoutRepeat)'
  BY <1>2 DEF Placed, HeldAlone, HeldNowhereElse, StreamsApart, StreamsWithoutRepeat
<1> QED BY <1>1, <1>3, <1>4 DEF Placed

(* Every place holds messages, so their offsets are numbers.               *)
LEMMA PlacesHoldMessages ==
    ASSUME TypeOK
    PROVE  /\ \A w \in Worker : \A x \in held[w] : x.offset \in Nat
           /\ \A s \in Stream : \A x \in Contents(chan[s]) : x.offset \in Nat
           /\ \A s \in Stream : \A x \in Contents(delivered[s]) : x.offset \in Nat
           /\ \A q \in Queue : \A x \in lost[q] : x.offset \in Nat
<1>1. \A x \in Message : x.offset \in Nat
  BY DEF Message
<1>2. /\ \A w \in Worker : held[w] \in SUBSET Message
      /\ \A s \in Stream : Contents(chan[s]) \in SUBSET Message
      /\ \A s \in Stream : Contents(delivered[s]) \in SUBSET Message
      /\ \A q \in Queue : lost[q] \in SUBSET Message
  BY ContentsAreMessages DEF TypeOK
<1> QED BY <1>1, <1>2

(* The message at the front of a queue is in no other place, and after it  *)
(* is popped everything popped is again behind the front.                  *)
LEMMA FrontIsNowhereElse ==
    ASSUME Control, Placed, NEW q \in Queue, state.queues[q] # <<>>,
           state' = AfterPop(state, q)
    PROVE  LET m == Head(state.queues[q])
               New(M) == \A x \in M : x.offset # m.offset /\ x.offset < FrontOffset(state', q)
           IN  /\ Contiguous(state)' /\ PoppedBy(state, q) = {m}
               /\ m.offset < FrontOffset(state', q)
               /\ \A r \in Queue \ {q} : FrontOffset(state', r) = FrontOffset(state, r)
               /\ New(lost[q])
               /\ \A v \in Worker : QueueOf(v) = q => New(held[v])
               /\ \A s \in Stream : s.queue = q => New(Contents(chan[s])) /\ New(Contents(delivered[s]))
<1> DEFINE m == Head(state.queues[q])
<1>1. /\ Contiguous(state)' /\ PoppedBy(state, q) = {m} /\ m.offset = FrontOffset(state, q)
      /\ FrontOffset(state', q) = FrontOffset(state, q) + 1
      /\ \A r \in Queue \ {q} : FrontOffset(state', r) = FrontOffset(state, r)
      /\ FrontOffset(state, q) \in Nat
  BY PopKeepsContiguous DEF Placed, Control, TypeOK
<1>2. ASSUME NEW M, \A x \in M : x.offset \in Nat /\ x.offset < FrontOffset(state, q)
      PROVE  \A x \in M : x.offset # m.offset /\ x.offset < FrontOffset(state', q)
  BY <1>1, <1>2
<1>3. m.offset < FrontOffset(state', q)
  BY <1>1
<1>4. \A x \in lost[q] : x.offset # m.offset /\ x.offset < FrontOffset(state', q)
  BY <1>2, PlacesHoldMessages DEF Placed, PoppedIsBehind, Control
<1>5. ASSUME NEW v \in Worker, QueueOf(v) = q
      PROVE  \A x \in held[v] : x.offset # m.offset /\ x.offset < FrontOffset(state', q)
  BY <1>2, <1>5, PlacesHoldMessages DEF Placed, PoppedIsBehind, Control
<1>6. ASSUME NEW s \in Stream, s.queue = q
      PROVE  /\ \A x \in Contents(chan[s]) :
                    x.offset # m.offset /\ x.offset < FrontOffset(state', q)
             /\ \A x \in Contents(delivered[s]) :
                    x.offset # m.offset /\ x.offset < FrontOffset(state', q)
  BY <1>2, <1>6, PlacesHoldMessages DEF Placed, PoppedIsBehind, Control
<1> QED BY <1>1, <1>3, <1>4, <1>5, <1>6

(* A Pop that answers puts the front message into the hands of one loop.   *)
LEMMA PopKeepsPlaced ==
    ASSUME Control, Placed, NEW w \in Worker, PopApplied(w)
    PROVE  Placed'
<1> DEFINE q == QueueOf(w)
           m == Head(state.queues[q])
<1>1. q \in Queue /\ state \in QueueStates /\ held \in [Worker -> SUBSET Message]
  BY WorkerParts DEF Control, TypeOK
<1>2. UNCHANGED <<chan, delivered, lost>>
  BY DEF PopApplied
<1>3. CASE state.queues[q] = <<>>
  <2>1. state' = state /\ PoppedBy(state, q) = {}
    BY <1>1, <1>3, PopOfEmpty DEF PopApplied
  <2>2. held[w] = {}
    BY DEF PopApplied, Control, HeldWhileSending
  <2>3. held' = held
    BY <1>1, <2>1, <2>2 DEF PopApplied
  <2> QED BY <1>2, <2>1, <2>3, QuietKeepsPlaced
<1>4. CASE state.queues[q] # <<>>
  <2>1. /\ Contiguous(state)' /\ PoppedBy(state, q) = {m}
        /\ m.offset < FrontOffset(state', q)
        /\ \A r \in Queue \ {q} : FrontOffset(state', r) = FrontOffset(state, r)
        /\ \A x \in lost[q] : x.offset # m.offset /\ x.offset < FrontOffset(state', q)
        /\ \A v \in Worker : QueueOf(v) = q =>
              \A x \in held[v] : x.offset # m.offset /\ x.offset < FrontOffset(state', q)
        /\ \A s \in Stream : s.queue = q =>
              /\ \A x \in Contents(chan[s]) :
                    x.offset # m.offset /\ x.offset < FrontOffset(state', q)
              /\ \A x \in Contents(delivered[s]) :
                    x.offset # m.offset /\ x.offset < FrontOffset(state', q)
    BY <1>1, <1>4, FrontIsNowhereElse DEF PopApplied
  <2>2. held'[w] = {m} /\ \A v \in Worker \ {w} : held'[v] = held[v]
    BY <1>1, <2>1 DEF PopApplied
  <2>3. QueueOf(w) = q
    OBVIOUS
  <2> HIDE DEF m, q
  <2>4. HeldAlone'
    BY <2>1, <2>2, <2>3 DEF Placed, HeldAlone, Disjoint
  <2>5. HeldNowhereElse'
    BY <1>2, <2>1, <2>2, <2>3 DEF Placed, HeldNowhereElse, Disjoint
  <2>6. StreamsApart' /\ StreamsWithoutRepeat'
    BY <1>2 DEF Placed, StreamsApart, StreamsWithoutRepeat
  <2>7. PoppedIsBehind'
    BY <1>2, <2>1, <2>2, <2>3 DEF Placed, PoppedIsBehind
  <2> QED BY <2>1, <2>4, <2>5, <2>6, <2>7 DEF Placed
<1> QED BY <1>3, <1>4

(* An orphaned Pop that answers loses the front message, and only that.    *)
LEMMA OrphanPopKeepsPlaced ==
    ASSUME Control, Placed, NEW q \in Queue, OrphanPopApplied(q)
    PROVE  Placed'
<1> DEFINE m == Head(state.queues[q])
<1>1. state \in QueueStates /\ lost \in [Queue -> SUBSET Message]
  BY DEF Control, TypeOK
<1>2. UNCHANGED <<chan, delivered, held>>
  BY DEF OrphanPopApplied
<1>3. CASE state.queues[q] = <<>>
  <2>1. state' = state /\ PoppedBy(state, q) = {}
    BY <1>1, <1>3, PopOfEmpty DEF OrphanPopApplied
  <2>2. lost' = lost
    BY <1>1, <2>1 DEF OrphanPopApplied
  <2> QED BY <1>2, <2>1, <2>2, QuietKeepsPlaced
<1>4. CASE state.queues[q] # <<>>
  <2>1. /\ Contiguous(state)' /\ PoppedBy(state, q) = {m}
        /\ m.offset < FrontOffset(state', q)
        /\ \A r \in Queue \ {q} : FrontOffset(state', r) = FrontOffset(state, r)
        /\ \A x \in lost[q] : x.offset # m.offset /\ x.offset < FrontOffset(state', q)
        /\ \A v \in Worker : QueueOf(v) = q =>
              \A x \in held[v] : x.offset # m.offset /\ x.offset < FrontOffset(state', q)
        /\ \A s \in Stream : s.queue = q =>
              /\ \A x \in Contents(chan[s]) :
                    x.offset # m.offset /\ x.offset < FrontOffset(state', q)
              /\ \A x \in Contents(delivered[s]) :
                    x.offset # m.offset /\ x.offset < FrontOffset(state', q)
    BY <1>4, FrontIsNowhereElse DEF OrphanPopApplied
  <2>2. lost'[q] = lost[q] \cup {m} /\ \A r \in Queue \ {q} : lost'[r] = lost[r]
    BY <1>1, <2>1 DEF OrphanPopApplied
  <2> HIDE DEF m
  <2>3. HeldAlone' /\ StreamsApart'
    BY <1>2 DEF Placed, HeldAlone, StreamsApart
  <2>4. HeldNowhereElse'
    BY <1>2, <2>1, <2>2, WorkerParts DEF Placed, HeldNowhereElse, Disjoint
  <2>5. StreamsWithoutRepeat'
    BY <1>2, <2>1, <2>2, StreamParts DEF Placed, StreamsWithoutRepeat, Disjoint
  <2>6. PoppedIsBehind'
    BY <1>2, <2>1, <2>2 DEF Placed, PoppedIsBehind
  <2> QED BY <2>1, <2>3, <2>4, <2>5, <2>6 DEF Placed
<1> QED BY <1>3, <1>4

(* A message sent leaves the loop for the back of its channel.             *)
LEMMA SendKeepsPlaced ==
    ASSUME Control, Placed, NEW w \in Worker, SendPopped(w)
    PROVE  Placed'
<1> DEFINE s == w[1]
           q == QueueOf(w)
<1>1. PICK m \in Message : held[w] = {m}
  BY DEF SendPopped, Control, HeldWhileSending, TypeOK
<1>2. /\ s \in Stream /\ q \in Queue /\ s.queue = q
      /\ chan[s] \in Seq(Message) /\ chan \in [Stream -> Seq(Message)]
      /\ held \in [Worker -> SUBSET Message]
  BY WorkerParts DEF Control, TypeOK, QueueOf
<1>3. UNCHANGED <<state, delivered, lost>>
  BY DEF SendPopped
<1>4. held'[w] = {} /\ \A v \in Worker \ {w} : held'[v] = held[v]
  BY <1>2 DEF SendPopped
<1>5. chan'[s] = Append(chan[s], m) /\ \A t \in Stream \ {s} : chan'[t] = chan[t]
  BY <1>1, <1>2 DEF SendPopped
<1>6. /\ Disjoint({m}, Contents(chan[s]))
      /\ \A t \in Stream : t.queue = q => /\ Disjoint({m}, Contents(chan[t]))
                                          /\ Disjoint({m}, Contents(delivered[t]))
      /\ Disjoint({m}, lost[q])
      /\ \A v \in Worker \ {w} : QueueOf(v) = q => Disjoint({m}, held[v])
      /\ m.offset < FrontOffset(state, q)
  BY <1>1, <1>2 DEF Placed, HeldAlone, HeldNowhereElse, PoppedIsBehind
<1>7. /\ Contents(chan'[s]) = Contents(chan[s]) \cup {m}
      /\ NoRepeat(chan'[s])
  BY <1>2, <1>5, <1>6, ContentsOfAppend DEF Placed, StreamsWithoutRepeat
<1>8. \A t \in Stream \ {s} : Contents(chan'[t]) = Contents(chan[t])
  BY <1>5
<1>q. QueueOf(w) = q
  OBVIOUS
<1> HIDE DEF s, q
<1>9. HeldAlone'
  BY <1>4 DEF Placed, HeldAlone, Disjoint
<1>10. HeldNowhereElse'
  BY <1>2, <1>3, <1>4, <1>6, <1>7, <1>8 DEF Placed, HeldNowhereElse, Disjoint
<1>11. StreamsApart'
  <2> SUFFICES ASSUME NEW t \in Stream, NEW u \in Stream, t.queue = u.queue
               PROVE  /\ Disjoint(Contents(chan'[t]), Contents(delivered[u]))
                      /\ t # u => /\ Disjoint(Contents(chan'[t]), Contents(chan'[u]))
                                  /\ Disjoint(Contents(delivered[t]), Contents(delivered[u]))
    BY <1>3 DEF StreamsApart
  <2>1. /\ Disjoint(Contents(chan[t]), Contents(delivered[u]))
        /\ t # u => /\ Disjoint(Contents(chan[t]), Contents(chan[u]))
                    /\ Disjoint(Contents(delivered[t]), Contents(delivered[u]))
    BY DEF Placed, StreamsApart
  <2>2. CASE t # s /\ u # s
    BY <2>1, <2>2, <1>8
  <2>3. CASE t = s
    BY <2>1, <2>3, <1>2, <1>6, <1>7, <1>8 DEF Disjoint
  <2>4. CASE t # s /\ u = s
    BY <2>1, <2>4, <1>2, <1>6, <1>7, <1>8 DEF Disjoint
  <2> QED BY <2>2, <2>3, <2>4
<1>12. StreamsWithoutRepeat'
  BY <1>2, <1>3, <1>5, <1>6, <1>7, <1>8 DEF Placed, StreamsWithoutRepeat, Disjoint
<1>13. PoppedIsBehind'
  BY <1>2, <1>3, <1>4, <1>6, <1>7, <1>8 DEF Placed, PoppedIsBehind
<1> QED BY <1>3, <1>9, <1>10, <1>11, <1>12, <1>13 DEF Placed

(* A failed send moves the message from the loop to the lost ones.         *)
LEMMA SendFailureKeepsPlaced ==
    ASSUME Control, Placed, NEW w \in Worker, SendFails(w)
    PROVE  Placed'
<1> DEFINE q == QueueOf(w)
<1>1. q \in Queue /\ held \in [Worker -> SUBSET Message] /\ lost \in [Queue -> SUBSET Message]
  BY WorkerParts DEF Control, TypeOK
<1>2. UNCHANGED <<state, chan, delivered>>
  BY DEF SendFails
<1>3. /\ held'[w] = {} /\ \A v \in Worker \ {w} : held'[v] = held[v]
      /\ lost'[q] = lost[q] \cup held[w] /\ \A r \in Queue \ {q} : lost'[r] = lost[r]
  BY <1>1 DEF SendFails
<1>q. QueueOf(w) = q
  OBVIOUS
<1> HIDE DEF q
<1>4. HeldAlone'
  BY <1>3 DEF Placed, HeldAlone, Disjoint
<1>5. HeldNowhereElse'
  BY <1>q, <1>2, <1>3, WorkerParts DEF Placed, HeldNowhereElse, HeldAlone, Disjoint
<1>6. StreamsApart'
  BY <1>2 DEF Placed, StreamsApart
<1>7. StreamsWithoutRepeat'
  BY <1>q, <1>2, <1>3, StreamParts DEF Placed, StreamsWithoutRepeat, HeldNowhereElse, Disjoint
<1>8. PoppedIsBehind'
  BY <1>q, <1>2, <1>3 DEF Placed, PoppedIsBehind
<1> QED BY <1>2, <1>4, <1>5, <1>6, <1>7, <1>8 DEF Placed

(* The first item of a forwarded stream moves to the loop that awaits it.  *)
LEMMA ReplyKeepsPlaced ==
    ASSUME Control, Placed, NEW w \in Worker, NEW s \in Stream, ForwardReply(w, s)
    PROVE  Placed'
<1> DEFINE q == QueueOf(w)
           m == Head(chan[s])
<1>1. /\ q \in Queue /\ s.queue = q
      /\ chan[s] \in Seq(Message) /\ chan[s] # <<>> /\ chan \in [Stream -> Seq(Message)]
      /\ held \in [Worker -> SUBSET Message]
  BY WorkerParts DEF ForwardReply, Control, AwaitsOwnQueue, TypeOK
<1>2. UNCHANGED <<state, delivered, lost>>
  BY DEF ForwardReply
<1>3. held'[w] = {m} /\ \A v \in Worker \ {w} : held'[v] = held[v]
  BY <1>1 DEF ForwardReply
<1>4. chan'[s] = Tail(chan[s]) /\ \A t \in Stream \ {s} : chan'[t] = chan[t]
  BY <1>1 DEF ForwardReply
<1>5. /\ Contents(chan[s]) = Contents(chan'[s]) \cup {m}
      /\ Disjoint({m}, Contents(chan'[s]))
      /\ NoRepeat(chan'[s])
  BY <1>1, <1>4, ContentsOfTail DEF Placed, StreamsWithoutRepeat
<1>6. \A t \in Stream \ {s} : Contents(chan'[t]) = Contents(chan[t])
  BY <1>4
<1>q. QueueOf(w) = q
  OBVIOUS
<1> HIDE DEF q, m
<1>7. HeldAlone'
  BY <1>q, <1>1, <1>3, <1>5 DEF Placed, HeldAlone, HeldNowhereElse, Disjoint
<1>8. HeldNowhereElse'
  <2>1. /\ Disjoint({m}, lost[q])
        /\ \A t \in Stream : t.queue = q => /\ Disjoint({m}, Contents(delivered[t]))
                                            /\ t # s => Disjoint({m}, Contents(chan[t]))
    BY <1>1, <1>5 DEF Placed, StreamsApart, StreamsWithoutRepeat, Disjoint
  <2>2. \A t \in Stream : Contents(chan'[t]) \subseteq Contents(chan[t])
    BY <1>5, <1>6
  <2>3. ASSUME NEW v \in Worker \ {w}
        PROVE  /\ Disjoint(held[v], lost[QueueOf(v)])
               /\ \A t \in Stream : t.queue = QueueOf(v) =>
                    /\ Disjoint(held[v], Contents(chan'[t]))
                    /\ Disjoint(held[v], Contents(delivered[t]))
    BY <2>2 DEF Placed, HeldNowhereElse, Disjoint
  <2>4. \A t \in Stream : t.queue = q => Disjoint({m}, Contents(chan'[t]))
    BY <2>1, <1>5, <1>6
  <2> QED BY <1>q, <1>2, <1>3, <2>1, <2>3, <2>4 DEF HeldNowhereElse
<1>9. StreamsApart'
  BY <1>2, <1>5, <1>6 DEF Placed, StreamsApart, Disjoint
<1>10. StreamsWithoutRepeat'
  BY <1>2, <1>4, <1>5, <1>6 DEF Placed, StreamsWithoutRepeat, Disjoint
<1>11. PoppedIsBehind'
  BY <1>q, <1>1, <1>2, <1>3, <1>5, <1>6 DEF Placed, PoppedIsBehind
<1> QED BY <1>2, <1>7, <1>8, <1>9, <1>10, <1>11 DEF Placed

(* A dropped stream loses what its channel holds.                          *)
LEMMA DropKeepsPlaced ==
    ASSUME Control, Placed, NEW s \in Stream, StreamDropped(s)
    PROVE  Placed'
<1>1. /\ s.queue \in Queue /\ chan \in [Stream -> Seq(Message)]
      /\ lost \in [Queue -> SUBSET Message]
  BY StreamParts DEF Control, TypeOK
<1>2. UNCHANGED <<state, held, delivered>>
  BY DEF StreamDropped
<1>3. /\ lost'[s.queue] = lost[s.queue] \cup Contents(chan[s])
      /\ \A r \in Queue \ {s.queue} : lost'[r] = lost[r]
  BY <1>1 DEF StreamDropped
<1>4. chan'[s] = <<>> /\ \A t \in Stream \ {s} : chan'[t] = chan[t]
  BY <1>1 DEF StreamDropped
<1>5. /\ Contents(chan'[s]) = {} /\ NoRepeat(chan'[s])
      /\ \A t \in Stream \ {s} : Contents(chan'[t]) = Contents(chan[t])
  BY <1>4, ContentsOfEmpty
<1>6. HeldAlone'
  BY <1>2 DEF Placed, HeldAlone
<1>7. HeldNowhereElse'
  <2>1. ASSUME NEW w \in Worker PROVE Disjoint(held[w], lost'[QueueOf(w)])
    BY <1>3, WorkerParts DEF Placed, HeldNowhereElse, Disjoint
  <2>2. ASSUME NEW w \in Worker, NEW t \in Stream, t.queue = QueueOf(w)
        PROVE  /\ Disjoint(held[w], Contents(chan'[t]))
               /\ Disjoint(held[w], Contents(delivered[t]))
    BY <2>2, <1>5 DEF Placed, HeldNowhereElse, Disjoint
  <2> QED BY <1>2, <2>1, <2>2 DEF HeldNowhereElse
<1>8. StreamsApart'
  BY <1>2, <1>5 DEF Placed, StreamsApart, Disjoint
<1>9. StreamsWithoutRepeat'
  <2> SUFFICES ASSUME NEW t \in Stream
               PROVE  /\ NoRepeat(chan'[t]) /\ NoRepeat(delivered[t])
                      /\ Disjoint(Contents(chan'[t]), lost'[t.queue])
                      /\ Disjoint(Contents(delivered[t]), lost'[t.queue])
    BY <1>2 DEF StreamsWithoutRepeat
  <2>1. NoRepeat(chan'[t]) /\ NoRepeat(delivered[t])
    BY <1>4, <1>5 DEF Placed, StreamsWithoutRepeat
  <2>2. Disjoint(Contents(chan'[t]), lost'[t.queue])
    BY <1>3, <1>5, StreamParts DEF Placed, StreamsApart, StreamsWithoutRepeat, Disjoint
  <2>3. Disjoint(Contents(delivered[t]), lost'[t.queue])
    BY <1>3, StreamParts DEF Placed, StreamsApart, StreamsWithoutRepeat, Disjoint
  <2> QED BY <2>1, <2>2, <2>3
<1>10. PoppedIsBehind'
  BY <1>1, <1>2, <1>3, <1>5 DEF Placed, PoppedIsBehind
<1> QED BY <1>2, <1>6, <1>7, <1>8, <1>9, <1>10 DEF Placed

(* The consumer takes the first item of its channel.                       *)
LEMMA ReceiveKeepsPlaced ==
    ASSUME Control, Placed, NEW s \in Stream, Receive(s)
    PROVE  Placed'
<1> DEFINE q == s.queue
           m == Head(chan[s])
<1>1. /\ q \in Queue /\ chan[s] \in Seq(Message) /\ chan[s] # <<>>
      /\ delivered[s] \in Seq(Message)
      /\ chan \in [Stream -> Seq(Message)] /\ delivered \in [Stream -> Seq(Message)]
  BY StreamParts DEF Receive, Control, TypeOK
<1>2. UNCHANGED <<state, held, lost>>
  BY DEF Receive
<1>3. /\ chan'[s] = Tail(chan[s]) /\ delivered'[s] = Append(delivered[s], m)
      /\ \A t \in Stream \ {s} : chan'[t] = chan[t] /\ delivered'[t] = delivered[t]
  BY <1>1 DEF Receive
<1>4. /\ m \in Message
      /\ Contents(chan[s]) = Contents(chan'[s]) \cup {m}
      /\ Disjoint({m}, Contents(chan'[s]))
      /\ NoRepeat(chan'[s])
  BY <1>1, <1>3, ContentsOfTail DEF Placed, StreamsWithoutRepeat
<1>5. /\ Disjoint({m}, lost[q])
      /\ m.offset < FrontOffset(state, q)
      /\ \A t \in Stream : t.queue = q => /\ Disjoint({m}, Contents(delivered[t]))
                                          /\ t # s => Disjoint({m}, Contents(chan[t]))
      /\ \A w \in Worker : QueueOf(w) = q => Disjoint(held[w], {m})
  BY <1>1, <1>4 DEF Placed, HeldNowhereElse, StreamsApart, StreamsWithoutRepeat, PoppedIsBehind,
                    Disjoint
<1>6. /\ Contents(delivered'[s]) = Contents(delivered[s]) \cup {m}
      /\ NoRepeat(delivered'[s])
  BY <1>1, <1>3, <1>4, <1>5, ContentsOfAppend DEF Placed, StreamsWithoutRepeat
<1>7. \A t \in Stream \ {s} : /\ Contents(chan'[t]) = Contents(chan[t])
                              /\ Contents(delivered'[t]) = Contents(delivered[t])
  BY <1>3
<1>8. \A t \in Stream : Contents(chan'[t]) \subseteq Contents(chan[t])
  BY <1>4, <1>7
<1>9. \A t \in Stream : t.queue = q => Disjoint({m}, Contents(chan'[t]))
  BY <1>4, <1>5, <1>7
<1>q. s.queue = q
  OBVIOUS
<1> HIDE DEF m, q
<1>10. HeldAlone'
  BY <1>2 DEF Placed, HeldAlone
<1>11. HeldNowhereElse'
  BY <1>q, <1>2, <1>5, <1>6, <1>7, <1>8 DEF Placed, HeldNowhereElse, Disjoint
<1>12. StreamsApart'
  <2> SUFFICES ASSUME NEW t \in Stream, NEW u \in Stream, t.queue = u.queue
               PROVE  /\ Disjoint(Contents(chan'[t]), Contents(delivered'[u]))
                      /\ t # u => /\ Disjoint(Contents(chan'[t]), Contents(chan'[u]))
                                  /\ Disjoint(Contents(delivered'[t]), Contents(delivered'[u]))
    BY DEF StreamsApart
  <2>1. /\ Disjoint(Contents(chan[t]), Contents(delivered[u]))
        /\ t # u => /\ Disjoint(Contents(chan[t]), Contents(chan[u]))
                    /\ Disjoint(Contents(delivered[t]), Contents(delivered[u]))
    BY DEF Placed, StreamsApart
  <2>2. Disjoint(Contents(chan'[t]), Contents(delivered'[u]))
    BY <2>1, <1>q, <1>6, <1>7, <1>8, <1>9 DEF Disjoint
  <2>3. t # u => Disjoint(Contents(chan'[t]), Contents(chan'[u]))
    BY <2>1, <1>8 DEF Disjoint
  <2>4. t # u => Disjoint(Contents(delivered'[t]), Contents(delivered'[u]))
    BY <2>1, <1>q, <1>5, <1>6, <1>7 DEF Disjoint
  <2> QED BY <2>2, <2>3, <2>4
<1>13. StreamsWithoutRepeat'
  BY <1>q, <1>2, <1>3, <1>4, <1>5, <1>6, <1>7, <1>8 DEF Placed, StreamsWithoutRepeat, Disjoint
<1>14. PoppedIsBehind'
  BY <1>q, <1>2, <1>5, <1>6, <1>7, <1>8 DEF Placed, PoppedIsBehind
<1> QED BY <1>2, <1>10, <1>11, <1>12, <1>13, <1>14 DEF Placed

(* A crash only moves messages of one node to the lost ones.               *)
LEMMA CrashKeepsPlaced ==
    ASSUME Control, Placed, NEW n \in Node, Crash(n)
    PROVE  Placed'
<1>1. UNCHANGED <<state, delivered>>
  BY DEF Crash
<1>2. /\ \A w \in Dying(n) : held'[w] = {}
      /\ \A w \in Worker \ Dying(n) : held'[w] = held[w]
      /\ \A w \in Worker : held'[w] \subseteq held[w]
      /\ Dying(n) \subseteq Worker
  BY DEF Crash, Dying
<1>3. /\ \A s \in Stream : s.host = n => chan'[s] = <<>>
      /\ \A s \in Stream : s.host # n => chan'[s] = chan[s]
  BY DEF Crash
<1>4. /\ \A s \in Stream : s.host = n => Contents(chan'[s]) = {}
      /\ \A s \in Stream : s.host # n => Contents(chan'[s]) = Contents(chan[s])
      /\ \A s \in Stream : Contents(chan'[s]) \subseteq Contents(chan[s])
      /\ \A s \in Stream : NoRepeat(chan'[s])
  BY <1>3, ContentsOfEmpty DEF Placed, StreamsWithoutRepeat
<1>5. ASSUME NEW q \in Queue, NEW x \in lost'[q]
      PROVE  \/ x \in lost[q]
             \/ \E w \in Dying(n) : QueueOf(w) = q /\ x \in held[w]
             \/ \E s \in Stream : s.host = n /\ s.queue = q /\ x \in Contents(chan[s])
  <2>1. lost'[q] = lost[q] \cup HeldAt(n, q) \cup BufferedAt(n, q)
    BY DEF Crash
  <2> QED BY <1>5, <2>1, LostToCrash
<1>6. HeldAlone'
  BY <1>2 DEF Placed, HeldAlone, Disjoint
<1>7. HeldNowhereElse'
  <2>1. ASSUME NEW w \in Worker PROVE Disjoint(held'[w], lost'[QueueOf(w)])
    <3>1. CASE w \in Dying(n)
      BY <3>1, <1>2 DEF Disjoint
    <3>2. CASE w \notin Dying(n)
      BY <3>2, <1>2, <1>5, WorkerParts DEF Placed, HeldAlone, HeldNowhereElse, Disjoint
    <3> QED BY <3>1, <3>2
  <2>2. ASSUME NEW w \in Worker, NEW s \in Stream, s.queue = QueueOf(w)
        PROVE  /\ Disjoint(held'[w], Contents(chan'[s]))
               /\ Disjoint(held'[w], Contents(delivered[s]))
    BY <2>2, <1>2, <1>4 DEF Placed, HeldNowhereElse, Disjoint
  <2> QED BY <1>1, <2>1, <2>2 DEF HeldNowhereElse
<1>8. StreamsApart'
  BY <1>1, <1>4 DEF Placed, StreamsApart, Disjoint
<1>9. StreamsWithoutRepeat'
  <2>1. ASSUME NEW s \in Stream PROVE Disjoint(Contents(chan'[s]), lost'[s.queue])
    <3>1. CASE s.host = n
      BY <3>1, <1>4 DEF Disjoint
    <3>2. CASE s.host # n
      <4> SUFFICES ASSUME NEW a \in Contents(chan[s]), NEW x \in lost'[s.queue]
                   PROVE  a.offset # x.offset
        BY <3>2, <1>4 DEF Disjoint
      <4>1. x \in lost[s.queue] => a.offset # x.offset
        BY DEF Placed, StreamsWithoutRepeat, Disjoint
      <4>2. ASSUME NEW w \in Dying(n), QueueOf(w) = s.queue, x \in held[w]
            PROVE  a.offset # x.offset
        BY <4>2, <1>2 DEF Placed, HeldNowhereElse, Disjoint
      <4>3. ASSUME NEW t \in Stream, t.host = n, t.queue = s.queue, x \in Contents(chan[t])
            PROVE  a.offset # x.offset
        BY <4>3, <3>2 DEF Placed, StreamsApart, Disjoint
      <4> QED BY <4>1, <4>2, <4>3, <1>5, StreamParts
    <3> QED BY <3>1, <3>2
  <2>2. ASSUME NEW s \in Stream PROVE Disjoint(Contents(delivered[s]), lost'[s.queue])
    BY <1>2, <1>5, StreamParts
       DEF Placed, HeldNowhereElse, StreamsApart, StreamsWithoutRepeat, Disjoint
  <2> QED BY <1>1, <1>4, <2>1, <2>2 DEF Placed, StreamsWithoutRepeat
<1>10. PoppedIsBehind'
  <2>1. ASSUME NEW q \in Queue, NEW x \in lost'[q] PROVE x.offset < FrontOffset(state, q)
    BY <2>1, <1>2, <1>5 DEF Placed, PoppedIsBehind
  <2> QED BY <1>1, <1>2, <1>4, <2>1 DEF Placed, PoppedIsBehind
<1> QED BY <1>1, <1>6, <1>7, <1>8, <1>9, <1>10 DEF Placed

(* Relative to Control, every step keeps each message in one place.        *)
LEMMA NextPlaced == Control /\ Placed /\ [Next]_vars => Placed'
<1> SUFFICES ASSUME Control, Placed, [Next]_vars PROVE Placed'
  OBVIOUS
<1>1. ASSUME NEW q \in Queue, NEW p \in Payload, PublishApplied(q, p) PROVE Placed'
  BY <1>1, PublishKeepsPlaced
<1>2. ASSUME NEW n \in Node, Elect(n) \/ Learn(n) \/ CoreStops(n) PROVE Placed'
  BY <1>2, QuietKeepsPlaced DEF Elect, Learn, CoreStops
<1>3. ASSUME NEW n \in Node, Crash(n) PROVE Placed'
  BY <1>3, CrashKeepsPlaced
<1>4. ASSUME NEW q \in Queue, OrphanPopApplied(q) PROVE Placed'
  BY <1>4, OrphanPopKeepsPlaced
<1>5. ASSUME NEW s \in Stream, Subscribe(s) \/ Disconnect(s) PROVE Placed'
  BY <1>5, QuietKeepsPlaced DEF Subscribe, Disconnect
<1>6. ASSUME NEW s \in Stream, StreamDropped(s) PROVE Placed'
  BY <1>6, DropKeepsPlaced
<1>7. ASSUME NEW s \in Stream, Receive(s) PROVE Placed'
  BY <1>7, ReceiveKeepsPlaced
<1>8. ASSUME NEW w \in Worker, ProposePop(w) \/ RetryPop(w) PROVE Placed'
  BY <1>8, QuietKeepsPlaced DEF ProposePop, RetryPop
<1>9. ASSUME NEW w \in Worker, PopApplied(w) PROVE Placed'
  BY <1>9, PopKeepsPlaced
<1>10. ASSUME NEW w \in Worker, SendPopped(w) PROVE Placed'
  BY <1>10, SendKeepsPlaced
<1>11. ASSUME NEW w \in Worker, SendFails(w) PROVE Placed'
  BY <1>11, SendFailureKeepsPlaced
<1>12. ASSUME NEW w \in Worker, NEW s \in Stream, ForwardPop(w, s) \/ ForwardTimeout(w, s)
       PROVE  Placed'
  BY <1>12, QuietKeepsPlaced DEF ForwardPop, ForwardTimeout
<1>13. ASSUME NEW w \in Worker, NEW s \in Stream, ForwardReply(w, s) PROVE Placed'
  BY <1>13, ReplyKeepsPlaced
<1>14. CASE UNCHANGED vars
  BY <1>14, QuietKeepsPlaced DEF vars
<1> QED
  BY <1>1, <1>2, <1>3, <1>4, <1>5, <1>6, <1>7, <1>8, <1>9, <1>10, <1>11, <1>12, <1>13, <1>14
  DEF Next

(* At-most-once delivery, for any number of nodes, queues, streams and Pop *)
(* loops and any number of elections, disconnects and crashes: a published *)
(* message is in one place only, so no two consumers receive it and none   *)
(* receives it twice.                                                      *)
THEOREM DeliveryAtMostOnce == Spec => []AtMostOnce
<1>1. Init => Control /\ Placed
  BY InitControl, InitPlaced
<1>2. (Control /\ Placed) /\ [Next]_vars => (Control /\ Placed)'
  BY NextControl, NextPlaced
<1>3. Control /\ Placed => AtMostOnce
  BY DEF Control, Placed, AtMostOnce
<1> QED BY <1>1, <1>2, <1>3, PTL DEF Spec

-----------------------------------------------------------------------------
(* Who reads a stream, and who runs it.                                    *)

(* Nobody takes two nodes for the leader.                                  *)
KnowsOneLeader ==
    /\ \A a, b \in leader : a = b
    /\ \A n \in Node : \A a, b \in known[n] : a = b

(* A `pop_via_forward` has one stream open.                                *)
AwaitsOne == \A w \in Worker : pc[w] = "await" => \E s \in Stream : awaits[w] = {s}

(* The three parts of ForwardsArePaired.                                   *)
ForwardIsAwaited ==
    \A s \in Stream : rx[s] = "forward" => \E w \in Worker : pc[w] = "await" /\ awaits[w] = {s}

AwaitedByOne == \A v, w \in Worker : v # w => awaits[v] \cap awaits[w] = {}

AwaitsElsewhere ==
    \A w \in Worker :
        /\ pc[w] = "await" <=> awaits[w] # {}
        /\ \A s \in awaits[w] : s.host # HostOf(w) /\ s.queue = QueueOf(w)
                                /\ rx[s] \in {"forward", "closed"}

(* Only a stream whose receiver is gone has loops that have ended.         *)
StoppedIsClosed == \A w \in Worker : pc[w] = "stopped" => rx[w[1]] = "closed"

(* A stream not yet opened, or closed, has nothing in its channel.         *)
ShutIsEmpty == \A s \in Stream : rx[s] \in {"unused", "closed"} => chan[s] = <<>>

Lifecycle ==
    /\ KnowsOneLeader /\ AwaitsOne /\ ForwardIsAwaited /\ AwaitedByOne /\ AwaitsElsewhere
    /\ StoppedIsClosed /\ SubscriberKeepsItsWorkers /\ ShutIsEmpty

(* Before anything is opened nothing is read.                              *)
LEMMA InitLifecycle == Init => Lifecycle
<1> SUFFICES ASSUME Init PROVE Lifecycle
  OBVIOUS
<1>1. /\ \A w \in Worker : pc[w] = "off" /\ awaits[w] = {}
      /\ \A s \in Stream : rx[s] = "unused" /\ chan[s] = <<>>
      /\ leader = {} /\ \A n \in Node : known[n] = {}
  BY DEF Init
<1>2. KnowsOneLeader /\ AwaitsOne /\ ForwardIsAwaited /\ AwaitedByOne /\ AwaitsElsewhere
  BY <1>1 DEF KnowsOneLeader, AwaitsOne, ForwardIsAwaited, AwaitedByOne, AwaitsElsewhere
<1>3. StoppedIsClosed /\ SubscriberKeepsItsWorkers /\ ShutIsEmpty
  BY <1>1, WorkerParts DEF StoppedIsClosed, SubscriberKeepsItsWorkers, ShutIsEmpty
<1> QED BY <1>2, <1>3 DEF Lifecycle

(* A node learns of the leader from the leader, or forgets it.             *)
LEMMA NextKnowsOneLeader == TypeOK /\ KnowsOneLeader /\ [Next]_vars => KnowsOneLeader'
<1> SUFFICES ASSUME TypeOK, KnowsOneLeader, [Next]_vars PROVE KnowsOneLeader'
  OBVIOUS
<1>k. known \in [Node -> SUBSET Node]
  BY DEF TypeOK
<1>1. ASSUME NEW n \in Node, Elect(n) PROVE KnowsOneLeader'
  <2>1. leader' = {n} /\ known'[n] = {n} /\ \A k \in Node \ {n} : known'[k] = known[k]
    BY <1>1, <1>k DEF Elect
  <2> QED BY <2>1 DEF KnowsOneLeader
<1>2. ASSUME NEW n \in Node, Learn(n) PROVE KnowsOneLeader'
  <2>1. leader' = leader /\ known'[n] = leader /\ \A k \in Node \ {n} : known'[k] = known[k]
    BY <1>2, <1>k DEF Learn
  <2> QED BY <2>1 DEF KnowsOneLeader
<1>3. ASSUME NEW n \in Node, Crash(n) PROVE KnowsOneLeader'
  <2>1. leader' = leader \ {n} /\ known'[n] = {} /\ \A k \in Node \ {n} : known'[k] = known[k]
    BY <1>3, <1>k DEF Crash
  <2> QED BY <2>1 DEF KnowsOneLeader
<1>4. ASSUME NEW n \in Node, CoreStops(n) PROVE KnowsOneLeader'
  <2>1. leader' = leader \ {n} /\ known' = known
    BY <1>4 DEF CoreStops
  <2> QED BY <2>1 DEF KnowsOneLeader
<1>5. ASSUME UNCHANGED <<leader, known>> PROVE KnowsOneLeader'
  BY <1>5 DEF KnowsOneLeader
<1> QED
  BY <1>1, <1>2, <1>3, <1>4, <1>5
  DEF Next, vars, raftVars, PublishApplied, OrphanPopApplied, Subscribe, StreamDropped, Receive,
      Disconnect, ProposePop, PopApplied, RetryPop, SendPopped, SendFails, ForwardPop,
      ForwardReply, ForwardTimeout

(* A step in which no stream changes hands and the loops go on.            *)
LEMMA QuietKeepsReaders ==
    ASSUME Lifecycle, UNCHANGED <<rx, awaits>>,
           \A w \in Worker : \/ pc'[w] = pc[w]
                             \/ {pc[w], pc'[w]} \subseteq {"propose", "commit", "send"}
    PROVE  /\ AwaitsOne' /\ ForwardIsAwaited' /\ AwaitedByOne' /\ AwaitsElsewhere'
           /\ StoppedIsClosed' /\ SubscriberKeepsItsWorkers'
<1>1. \A w \in Worker : pc'[w] = "await" <=> pc[w] = "await"
  OBVIOUS
<1>2. \A w \in Worker : /\ pc'[w] = "stopped" <=> pc[w] = "stopped"
                        /\ pc'[w] = "off" <=> pc[w] = "off"
  OBVIOUS
<1>3. AwaitsOne' /\ AwaitedByOne'
  BY <1>1 DEF Lifecycle, AwaitsOne, AwaitedByOne
<1>4. ForwardIsAwaited' /\ AwaitsElsewhere'
  BY <1>1 DEF Lifecycle, ForwardIsAwaited, AwaitsElsewhere
<1>5. StoppedIsClosed' /\ SubscriberKeepsItsWorkers'
  BY <1>2 DEF Lifecycle, StoppedIsClosed, SubscriberKeepsItsWorkers
<1> QED BY <1>3, <1>4, <1>5

(* A new stream has a reader and all its loops, and nothing in it.         *)
LEMMA OpeningKeepsLifecycle ==
    ASSUME Control, Lifecycle, NEW s \in Stream, Subscribe(s)
    PROVE  /\ AwaitsOne' /\ ForwardIsAwaited' /\ AwaitedByOne' /\ AwaitsElsewhere'
           /\ StoppedIsClosed' /\ SubscriberKeepsItsWorkers' /\ ShutIsEmpty'
<1>1. /\ rx[s] = "unused" /\ rx'[s] = "client" /\ \A t \in Stream \ {s} : rx'[t] = rx[t]
      /\ awaits' = awaits /\ chan' = chan
  BY DEF Subscribe, OpenStream, Control, TypeOK
<1>2. \A w \in Worker : pc'[w] = IF w[1] = s THEN "propose" ELSE pc[w]
  BY DEF Subscribe, SpawnedBy
<1>3. \A w \in Worker : w[1] = s => pc[w] = "off" /\ awaits[w] = {}
  BY <1>1 DEF Control, UnusedHasNoWorkers, Lifecycle, AwaitsElsewhere
<1>4. \A w \in Worker : s \notin awaits[w]
  BY <1>1 DEF Lifecycle, AwaitsElsewhere
<1>5. \A w \in Worker : awaits[w] \in SUBSET Stream /\ w[1] \in Stream
  BY WorkerParts DEF Control, TypeOK
<1>6. \A w \in Worker : pc'[w] = "await" <=> pc[w] = "await"
  BY <1>2, <1>3
<1>7. AwaitsOne' /\ AwaitedByOne'
  BY <1>1, <1>6 DEF Lifecycle, AwaitsOne, AwaitedByOne
<1>8. ForwardIsAwaited'
  BY <1>1, <1>6 DEF Lifecycle, ForwardIsAwaited
<1>9. AwaitsElsewhere'
  BY <1>1, <1>4, <1>5, <1>6 DEF Lifecycle, AwaitsElsewhere
<1>10. StoppedIsClosed'
  BY <1>1, <1>2, <1>5 DEF Lifecycle, StoppedIsClosed
<1>11. SubscriberKeepsItsWorkers'
  BY <1>1, <1>2, <1>5 DEF Lifecycle, SubscriberKeepsItsWorkers
<1>12. ShutIsEmpty'
  BY <1>1 DEF Lifecycle, ShutIsEmpty
<1> QED BY <1>7, <1>8, <1>9, <1>10, <1>11, <1>12

(* A redirect names another node, so a forwarded stream is opened there,   *)
(* and the loop that opens it is the only one to await it.                 *)
LEMMA ForwardKeepsLifecycle ==
    ASSUME Control, Lifecycle, NEW w \in Worker, NEW s \in Stream, ForwardPop(w, s)
    PROVE  /\ AwaitsOne' /\ ForwardIsAwaited' /\ AwaitedByOne' /\ AwaitsElsewhere'
           /\ StoppedIsClosed' /\ SubscriberKeepsItsWorkers' /\ ShutIsEmpty'
<1>1. /\ rx[s] = "unused" /\ rx'[s] = "forward" /\ \A t \in Stream \ {s} : rx'[t] = rx[t]
      /\ chan' = chan
  BY DEF ForwardPop, OpenStream, Control, TypeOK
<1>2. awaits'[w] = {s} /\ \A v \in Worker \ {w} : awaits'[v] = awaits[v]
  BY DEF ForwardPop, Control, TypeOK
<1>3. /\ pc[w] \in {"propose", "commit"} /\ pc'[w] = "await"
      /\ \A v \in Worker \ {w} : pc'[v] = IF v[1] = s THEN "propose" ELSE pc[v]
  BY DEF ForwardPop, Refused, SpawnedBy, Control, TypeOK
<1>4. \A v \in Worker : v[1] = s => pc[v] = "off" /\ awaits[v] = {}
  BY <1>1 DEF Control, UnusedHasNoWorkers, Lifecycle, AwaitsElsewhere
<1>5. \A v \in Worker : s \notin awaits[v]
  BY <1>1 DEF Lifecycle, AwaitsElsewhere
<1>6. \A v \in Worker : awaits[v] \in SUBSET Stream /\ v[1] \in Stream
  BY WorkerParts DEF Control, TypeOK
<1>7. awaits[w] = {} /\ w[1] # s /\ w[1] \in Stream
  BY <1>3, <1>4, <1>6 DEF Lifecycle, AwaitsElsewhere
<1>8. \A v \in Worker \ {w} : pc'[v] = "await" <=> pc[v] = "await"
  BY <1>3, <1>4
<1>9. s.host # HostOf(w) /\ s.queue = QueueOf(w)
  <2>1. /\ known[HostOf(w)] # {HostOf(w)} /\ s.host \in known[HostOf(w)] /\ s.queue = QueueOf(w)
        /\ HostOf(w) \in Node
    BY WorkerParts DEF ForwardPop, Refused
  <2>2. \A a, b \in known[HostOf(w)] : a = b
    BY <2>1 DEF Lifecycle, KnowsOneLeader
  <2> QED BY <2>1, <2>2
<1>10. AwaitsOne'
  BY <1>2, <1>8 DEF Lifecycle, AwaitsOne
<1>11. AwaitedByOne'
  BY <1>2, <1>5 DEF Lifecycle, AwaitedByOne
<1>12. ForwardIsAwaited'
  <2> SUFFICES ASSUME NEW t \in Stream, rx'[t] = "forward"
               PROVE  \E v \in Worker : pc'[v] = "await" /\ awaits'[v] = {t}
    BY DEF ForwardIsAwaited
  <2>1. CASE t = s
    BY <2>1, <1>2, <1>3
  <2>2. CASE t # s
    <3>1. PICK v \in Worker : pc[v] = "await" /\ awaits[v] = {t}
      BY <2>2, <1>1 DEF Lifecycle, ForwardIsAwaited
    <3> QED BY <3>1, <1>2, <1>7, <1>8
  <2> QED BY <2>1, <2>2
<1>13. AwaitsElsewhere'
  <2> SUFFICES ASSUME NEW v \in Worker
               PROVE  /\ pc'[v] = "await" <=> awaits'[v] # {}
                      /\ \A t \in awaits'[v] : /\ t.host # HostOf(v) /\ t.queue = QueueOf(v)
                                               /\ rx'[t] \in {"forward", "closed"}
    BY DEF AwaitsElsewhere
  <2>1. CASE v = w
    BY <2>1, <1>1, <1>2, <1>3, <1>9
  <2>2. CASE v # w
    BY <2>2, <1>1, <1>2, <1>5, <1>6, <1>8 DEF Lifecycle, AwaitsElsewhere
  <2> QED BY <2>1, <2>2
<1>14. StoppedIsClosed'
  BY <1>1, <1>3, <1>6 DEF Lifecycle, StoppedIsClosed
<1>15. SubscriberKeepsItsWorkers'
  BY <1>1, <1>3, <1>6 DEF Lifecycle, SubscriberKeepsItsWorkers
<1>16. ShutIsEmpty'
  BY <1>1 DEF Lifecycle, ShutIsEmpty
<1> QED BY <1>10, <1>11, <1>12, <1>13, <1>14, <1>15, <1>16

(* A `pop_via_forward` that returns, with an item or without, gives up its *)
(* stream: r is what becomes of the reader's end, next where the loop goes.*)
LEMMA ReturnKeepsReaders ==
    ASSUME Control, Lifecycle, NEW w \in Worker, NEW s \in Stream, NEW r, NEW next,
           pc[w] = "await", awaits[w] = {s},
           rx[s] = "closed" => r = "closed", r \in {"dropped", "closed"},
           next \in {"propose", "send"},
           rx' = [rx EXCEPT ![s] = r], pc' = [pc EXCEPT ![w] = next],
           awaits' = [awaits EXCEPT ![w] = {}]
    PROVE  /\ AwaitsOne' /\ ForwardIsAwaited' /\ AwaitedByOne' /\ AwaitsElsewhere'
           /\ StoppedIsClosed' /\ SubscriberKeepsItsWorkers'
<1>1. rx'[s] = r /\ \A t \in Stream \ {s} : rx'[t] = rx[t]
  BY DEF Control, TypeOK
<1>2. awaits'[w] = {} /\ \A v \in Worker \ {w} : awaits'[v] = awaits[v]
  BY DEF Control, TypeOK
<1>3. pc'[w] = next /\ \A v \in Worker \ {w} : pc'[v] = pc[v]
  BY DEF Control, TypeOK
<1>4. \A v \in Worker \ {w} : s \notin awaits[v]
  BY DEF Lifecycle, AwaitedByOne
<1>5. \A v \in Worker : awaits[v] \in SUBSET Stream /\ v[1] \in Stream
  BY WorkerParts DEF Control, TypeOK
<1>6. AwaitsOne' /\ AwaitedByOne'
  BY <1>2, <1>3 DEF Lifecycle, AwaitsOne, AwaitedByOne
<1>7. ForwardIsAwaited'
  <2> SUFFICES ASSUME NEW t \in Stream, rx'[t] = "forward"
               PROVE  \E v \in Worker : pc'[v] = "await" /\ awaits'[v] = {t}
    BY DEF ForwardIsAwaited
  <2>1. t # s /\ rx[t] = "forward"
    BY <1>1
  <2>2. PICK v \in Worker : pc[v] = "await" /\ awaits[v] = {t}
    BY <2>1 DEF Lifecycle, ForwardIsAwaited
  <2>3. v # w
    BY <2>1, <2>2
  <2> QED BY <2>2, <2>3, <1>2, <1>3
<1>8. AwaitsElsewhere'
  <2> SUFFICES ASSUME NEW v \in Worker
               PROVE  /\ pc'[v] = "await" <=> awaits'[v] # {}
                      /\ \A t \in awaits'[v] : /\ t.host # HostOf(v) /\ t.queue = QueueOf(v)
                                               /\ rx'[t] \in {"forward", "closed"}
    BY DEF AwaitsElsewhere
  <2>1. CASE v = w
    BY <2>1, <1>2, <1>3
  <2>2. CASE v # w
    BY <2>2, <1>1, <1>2, <1>3, <1>4, <1>5 DEF Lifecycle, AwaitsElsewhere
  <2> QED BY <2>1, <2>2
<1>9. StoppedIsClosed'
  BY <1>1, <1>3, <1>5 DEF Lifecycle, StoppedIsClosed
<1>10. SubscriberKeepsItsWorkers'
  BY <1>1, <1>3, <1>5 DEF Lifecycle, SubscriberKeepsItsWorkers
<1> QED BY <1>6, <1>7, <1>8, <1>9, <1>10

(* A crash takes the loops of its node with their streams, and leaves the  *)
(* forwards of other nodes with their readers.                             *)
LEMMA CrashKeepsLifecycle ==
    ASSUME Control, Lifecycle, NEW n \in Node, Crash(n)
    PROVE  /\ AwaitsOne' /\ ForwardIsAwaited' /\ AwaitedByOne' /\ AwaitsElsewhere'
           /\ StoppedIsClosed' /\ SubscriberKeepsItsWorkers' /\ ShutIsEmpty'
<1>1. \A s \in Stream :
        rx'[s] = IF rx[s] = "unused" THEN "unused"
                 ELSE IF s.host = n THEN "closed"
                 ELSE IF rx[s] = "forward" /\ \E w \in Dying(n) : s \in awaits[w] THEN "dropped"
                 ELSE rx[s]
  BY DEF Crash
<1>2. \A s \in Stream : chan'[s] = IF s.host = n THEN <<>> ELSE chan[s]
  BY DEF Crash
<1>3. /\ \A w \in Dying(n) : pc'[w] = "stopped" /\ awaits'[w] = {}
      /\ \A w \in Worker \ Dying(n) : pc'[w] = pc[w] /\ awaits'[w] = awaits[w]
      /\ Dying(n) \subseteq Worker
  BY DEF Crash, Dying
<1>4. \A w \in Worker : awaits[w] \in SUBSET Stream /\ w[1] \in Stream
  BY WorkerParts DEF Control, TypeOK
<1>5. \A w \in Dying(n) : w[1].host = n /\ rx[w[1]] # "unused"
  BY DEF Dying, HostOf, Control, UnusedHasNoWorkers
<1>6. \A w \in Worker : (w[1].host = n /\ pc[w] # "off") => w \in Dying(n)
  BY DEF Dying, HostOf
<1>7. AwaitsOne' /\ AwaitedByOne'
  BY <1>3 DEF Lifecycle, AwaitsOne, AwaitedByOne
<1>8. ForwardIsAwaited'
  <2> SUFFICES ASSUME NEW s \in Stream, rx'[s] = "forward"
               PROVE  \E w \in Worker : pc'[w] = "await" /\ awaits'[w] = {s}
    BY DEF ForwardIsAwaited
  <2>1. rx[s] = "forward" /\ \A w \in Dying(n) : s \notin awaits[w]
    BY <1>1
  <2>2. PICK w \in Worker : pc[w] = "await" /\ awaits[w] = {s}
    BY <2>1 DEF Lifecycle, ForwardIsAwaited
  <2>3. w \notin Dying(n)
    BY <2>1, <2>2
  <2> QED BY <2>2, <2>3, <1>3
<1>9. AwaitsElsewhere'
  <2> SUFFICES ASSUME NEW w \in Worker
               PROVE  /\ pc'[w] = "await" <=> awaits'[w] # {}
                      /\ \A t \in awaits'[w] : /\ t.host # HostOf(w) /\ t.queue = QueueOf(w)
                                               /\ rx'[t] \in {"forward", "closed"}
    BY DEF AwaitsElsewhere
  <2>1. CASE w \in Dying(n)
    BY <2>1, <1>3
  <2>2. CASE w \notin Dying(n)
    <3>1. /\ pc[w] = "await" <=> awaits[w] # {}
          /\ \A t \in awaits[w] : /\ t.host # HostOf(w) /\ t.queue = QueueOf(w)
                                  /\ rx[t] \in {"forward", "closed"}
      BY DEF Lifecycle, AwaitsElsewhere
    <3>2. \A t \in awaits[w] : \A v \in Dying(n) : t \notin awaits[v]
      BY <2>2, <1>3 DEF Lifecycle, AwaitedByOne
    <3>3. \A t \in awaits[w] : rx'[t] \in {"forward", "closed"}
      BY <3>1, <3>2, <1>1, <1>4
    <3> QED BY <2>2, <3>1, <3>3, <1>3
  <2> QED BY <2>1, <2>2
<1>10. StoppedIsClosed'
  <2> SUFFICES ASSUME NEW w \in Worker, pc'[w] = "stopped" PROVE rx'[w[1]] = "closed"
    BY DEF StoppedIsClosed
  <2>1. CASE w \in Dying(n)
    BY <2>1, <1>1, <1>4, <1>5
  <2>2. CASE w \notin Dying(n)
    <3>1. rx[w[1]] = "closed"
      BY <2>2, <1>3 DEF Lifecycle, StoppedIsClosed
    <3> QED BY <3>1, <1>1, <1>4
  <2> QED BY <2>1, <2>2
<1>11. SubscriberKeepsItsWorkers'
  <2> SUFFICES ASSUME NEW w \in Worker, rx'[w[1]] = "client"
               PROVE  pc'[w] \notin {"off", "stopped"}
    BY DEF SubscriberKeepsItsWorkers
  <2>1. rx[w[1]] = "client" /\ w[1].host # n
    BY <1>1, <1>4
  <2>2. w \notin Dying(n) /\ pc[w] \notin {"off", "stopped"}
    BY <2>1, <1>5 DEF Lifecycle, SubscriberKeepsItsWorkers
  <2> QED BY <2>2, <1>3
<1>12. ShutIsEmpty'
  BY <1>1, <1>2 DEF Lifecycle, ShutIsEmpty
<1> QED BY <1>7, <1>8, <1>9, <1>10, <1>11, <1>12

(* Every step keeps the pairing of streams, readers and loops.             *)
LEMMA NextLifecycle == Control /\ Lifecycle /\ [Next]_vars => Lifecycle'
<1> SUFFICES ASSUME Control, Lifecycle, [Next]_vars PROVE Lifecycle'
  OBVIOUS
<1> DEFINE Readers == /\ AwaitsOne /\ ForwardIsAwaited /\ AwaitedByOne /\ AwaitsElsewhere
                      /\ StoppedIsClosed /\ SubscriberKeepsItsWorkers
<1>k. KnowsOneLeader'
  BY NextKnowsOneLeader DEF Control, Lifecycle
<1>t. /\ pc \in [Worker -> WorkerState] /\ rx \in [Stream -> RxState]
      /\ chan \in [Stream -> Seq(Message)]
  BY DEF Control, TypeOK
<1>w. \A w \in Worker : w[1] \in Stream
  BY WorkerParts
<1>e. ASSUME UNCHANGED <<rx, chan>> PROVE ShutIsEmpty'
  BY <1>e DEF Lifecycle, ShutIsEmpty
<1>1. ASSUME UNCHANGED <<rx, awaits, pc>> PROVE Readers'
  BY <1>1, QuietKeepsReaders
<1>2. ASSUME NEW q \in Queue, NEW p \in Payload, PublishApplied(q, p) PROVE Readers' /\ ShutIsEmpty'
  BY <1>1, <1>2, <1>e DEF PublishApplied
<1>3. ASSUME NEW n \in Node, Elect(n) \/ Learn(n) \/ CoreStops(n)
      PROVE  Readers' /\ ShutIsEmpty'
  BY <1>1, <1>3, <1>e DEF Elect, Learn, CoreStops
<1>4. ASSUME NEW n \in Node, Crash(n) PROVE Readers' /\ ShutIsEmpty'
  BY <1>4, CrashKeepsLifecycle
<1>5. ASSUME NEW q \in Queue, OrphanPopApplied(q) PROVE Readers' /\ ShutIsEmpty'
  BY <1>1, <1>5, <1>e DEF OrphanPopApplied
<1>6. ASSUME NEW s \in Stream, Subscribe(s) PROVE Readers' /\ ShutIsEmpty'
  BY <1>6, OpeningKeepsLifecycle
<1>7. ASSUME NEW s \in Stream, StreamDropped(s) PROVE Readers' /\ ShutIsEmpty'
  <2>1. /\ rx[s] = "dropped" /\ rx'[s] = "closed" /\ \A t \in Stream \ {s} : rx'[t] = rx[t]
        /\ chan'[s] = <<>> /\ \A t \in Stream \ {s} : chan'[t] = chan[t]
        /\ pc' = pc /\ awaits' = awaits
    BY <1>7, <1>t DEF StreamDropped
  <2>2. AwaitsOne' /\ ForwardIsAwaited' /\ AwaitedByOne'
    BY <2>1 DEF Lifecycle, AwaitsOne, ForwardIsAwaited, AwaitedByOne
  <2>3. AwaitsElsewhere'
    BY <2>1 DEF Control, TypeOK, Lifecycle, AwaitsElsewhere
  <2>4. StoppedIsClosed' /\ SubscriberKeepsItsWorkers'
    BY <2>1, <1>w DEF Lifecycle, StoppedIsClosed, SubscriberKeepsItsWorkers
  <2>5. ShutIsEmpty'
    BY <2>1 DEF Lifecycle, ShutIsEmpty
  <2> QED BY <2>2, <2>3, <2>4, <2>5
<1>8. ASSUME NEW s \in Stream, Receive(s) PROVE Readers' /\ ShutIsEmpty'
  <2>1. /\ rx[s] = "client" /\ \A t \in Stream \ {s} : chan'[t] = chan[t]
        /\ UNCHANGED <<rx, pc, awaits>>
    BY <1>8, <1>t DEF Receive
  <2>2. ShutIsEmpty'
    BY <2>1 DEF Lifecycle, ShutIsEmpty
  <2> QED BY <2>1, <2>2, <1>1
<1>9. ASSUME NEW s \in Stream, Disconnect(s) PROVE Readers' /\ ShutIsEmpty'
  <2>1. /\ rx[s] = "client" /\ rx'[s] = "dropped" /\ \A t \in Stream \ {s} : rx'[t] = rx[t]
        /\ UNCHANGED <<chan, pc, awaits>>
    BY <1>9, <1>t DEF Disconnect
  <2>2. AwaitsOne' /\ ForwardIsAwaited' /\ AwaitedByOne'
    BY <2>1 DEF Lifecycle, AwaitsOne, ForwardIsAwaited, AwaitedByOne
  <2>3. AwaitsElsewhere'
    BY <2>1 DEF Control, TypeOK, Lifecycle, AwaitsElsewhere
  <2>4. StoppedIsClosed' /\ SubscriberKeepsItsWorkers' /\ ShutIsEmpty'
    BY <2>1, <1>w DEF Lifecycle, StoppedIsClosed, SubscriberKeepsItsWorkers, ShutIsEmpty
  <2> QED BY <2>2, <2>3, <2>4
<1>10. ASSUME NEW w \in Worker, ProposePop(w) \/ PopApplied(w) \/ RetryPop(w)
       PROVE  Readers' /\ ShutIsEmpty'
  <2>1. /\ pc[w] \in {"propose", "commit"} /\ pc'[w] \in {"propose", "commit", "send"}
        /\ \A v \in Worker \ {w} : pc'[v] = pc[v]
        /\ UNCHANGED <<rx, awaits, chan>>
    BY <1>10, <1>t DEF ProposePop, PopApplied, RetryPop
  <2> QED BY <2>1, <1>e, QuietKeepsReaders
<1>11. ASSUME NEW w \in Worker, SendPopped(w) PROVE Readers' /\ ShutIsEmpty'
  <2>1. /\ pc[w] = "send" /\ pc'[w] = "propose" /\ \A v \in Worker \ {w} : pc'[v] = pc[v]
        /\ rx[w[1]] # "closed" /\ \A t \in Stream \ {w[1]} : chan'[t] = chan[t]
        /\ UNCHANGED <<rx, awaits>>
    BY <1>11, <1>t, <1>w DEF SendPopped
  <2>2. rx[w[1]] # "unused"
    BY <2>1 DEF Control, UnusedHasNoWorkers
  <2>3. ShutIsEmpty'
    BY <2>1, <2>2 DEF Lifecycle, ShutIsEmpty
  <2> QED BY <2>1, <2>3, QuietKeepsReaders
<1>12. ASSUME NEW w \in Worker, SendFails(w) PROVE Readers' /\ ShutIsEmpty'
  <2>1. /\ pc[w] = "send" /\ pc'[w] = "stopped" /\ \A v \in Worker \ {w} : pc'[v] = pc[v]
        /\ rx[w[1]] = "closed" /\ UNCHANGED <<rx, awaits, chan>>
    BY <1>12, <1>t DEF SendFails
  <2>2. AwaitsOne' /\ ForwardIsAwaited' /\ AwaitedByOne'
    BY <2>1 DEF Lifecycle, AwaitsOne, ForwardIsAwaited, AwaitedByOne
  <2>3. AwaitsElsewhere'
    BY <2>1 DEF Lifecycle, AwaitsElsewhere
  <2>4. StoppedIsClosed' /\ SubscriberKeepsItsWorkers'
    BY <2>1 DEF Lifecycle, StoppedIsClosed, SubscriberKeepsItsWorkers
  <2> QED BY <2>1, <2>2, <2>3, <2>4, <1>e
<1>13. ASSUME NEW w \in Worker, NEW s \in Stream, ForwardPop(w, s) PROVE Readers' /\ ShutIsEmpty'
  BY <1>13, ForwardKeepsLifecycle
<1>14. ASSUME NEW w \in Worker, NEW s \in Stream, ForwardReply(w, s) PROVE Readers' /\ ShutIsEmpty'
  <2>1. /\ pc[w] = "await" /\ awaits[w] = {s} /\ chan[s] # <<>>
        /\ rx' = [rx EXCEPT ![s] = "dropped"] /\ pc' = [pc EXCEPT ![w] = "send"]
        /\ awaits' = [awaits EXCEPT ![w] = {}]
    BY <1>14 DEF ForwardReply
  <2>2. rx[s] # "closed"
    BY <2>1 DEF Lifecycle, ShutIsEmpty
  <2>3. Readers'
    BY <2>1, <2>2, ReturnKeepsReaders
  <2>4. /\ rx'[s] = "dropped" /\ \A t \in Stream \ {s} : rx'[t] = rx[t] /\ chan'[t] = chan[t]
    BY <1>14, <1>t DEF ForwardReply
  <2>5. ShutIsEmpty'
    BY <2>4 DEF Lifecycle, ShutIsEmpty
  <2> QED BY <2>3, <2>5
<1>15. ASSUME NEW w \in Worker, NEW s \in Stream, ForwardTimeout(w, s)
       PROVE  Readers' /\ ShutIsEmpty'
  <2> DEFINE r == IF rx[s] = "closed" THEN "closed" ELSE "dropped"
  <2>1. /\ pc[w] = "await" /\ awaits[w] = {s} /\ chan' = chan
        /\ rx' = [rx EXCEPT ![s] = r] /\ pc' = [pc EXCEPT ![w] = "propose"]
        /\ awaits' = [awaits EXCEPT ![w] = {}]
    BY <1>15 DEF ForwardTimeout
  <2>2. r \in {"dropped", "closed"} /\ (rx[s] = "closed" => r = "closed")
    OBVIOUS
  <2>3. rx'[s] = r /\ \A t \in Stream \ {s} : rx'[t] = rx[t]
    BY <2>1, <1>t
  <2>4. ShutIsEmpty'
    BY <2>1, <2>3 DEF Lifecycle, ShutIsEmpty
  <2> HIDE DEF r
  <2>5. Readers'
    BY <2>1, <2>2, ReturnKeepsReaders
  <2> QED BY <2>4, <2>5
<1>16. ASSUME UNCHANGED vars PROVE Readers' /\ ShutIsEmpty'
  BY <1>1, <1>16, <1>e DEF vars
<1> HIDE DEF Readers
<1>17. Readers' /\ ShutIsEmpty'
  BY <1>2, <1>3, <1>4, <1>5, <1>6, <1>7, <1>8, <1>9, <1>10, <1>11, <1>12, <1>13, <1>14, <1>15,
     <1>16 DEF Next
<1> QED BY <1>k, <1>17 DEF Lifecycle, Readers

(* Lifecycle holds in every reachable state.                               *)
LEMMA LifecycleInvariant == Spec => [](Control /\ Lifecycle)
<1>1. Init => Control /\ Lifecycle
  BY InitControl, InitLifecycle
<1>2. (Control /\ Lifecycle) /\ [Next]_vars => (Control /\ Lifecycle)'
  BY NextControl, NextLifecycle
<1> QED BY <1>1, <1>2, PTL DEF Spec

(* While a consumer is connected all of its Pop loops are running, through *)
(* any redirects, failed forwards, elections and crashes of other nodes.   *)
THEOREM SubscribersAreServed == Spec => []SubscriberKeepsItsWorkers
  BY LifecycleInvariant, PTL DEF Lifecycle

(* A forwarded stream is read by exactly one `pop_via_forward`, on another *)
(* node, from its opening to its drop: no loop forwards to itself and the  *)
(* leader keeps no stream open that nobody waits for.                      *)
THEOREM ForwardsHaveReaders == Spec => []ForwardsArePaired
<1>1. Lifecycle => ForwardsArePaired
  BY DEF Lifecycle, ForwardIsAwaited, AwaitedByOne, AwaitsElsewhere, ForwardsArePaired
<1> QED BY <1>1, LifecycleInvariant, PTL

-----------------------------------------------------------------------------
(* The refinement of AtMostOnceDelivery.                                   *)

(* What is on its way, and what was received, before a step and after it.  *)
LEMMA OnItsWay ==
    ASSUME NEW q, NEW m
    PROVE  /\ m \in InFlight(q) <=> \/ \E w \in Worker : QueueOf(w) = q /\ m \in held[w]
                                    \/ \E s \in Stream : s.queue = q /\ m \in Contents(chan[s])
           /\ m \in InFlight(q)' <=> \/ \E w \in Worker : QueueOf(w) = q /\ m \in held'[w]
                                     \/ \E s \in Stream : s.queue = q /\ m \in Contents(chan'[s])
<1> DEFINE A == UNION {held[w] : w \in {v \in Worker : QueueOf(v) = q}}
           B == UNION {Contents(chan[s]) : s \in {t \in Stream : t.queue = q}}
<1>1. InFlight(q) = A \cup B
  BY Zenon DEF InFlight
<1>p. InFlight(q)' = A' \cup B'
  BY Zenon DEF InFlight, Contents
<1>2. /\ m \in A <=> \E w \in Worker : QueueOf(w) = q /\ m \in held[w]
      /\ m \in B <=> \E s \in Stream : s.queue = q /\ m \in Contents(chan[s])
  OBVIOUS
<1>3. m \in A' <=> \E w \in Worker : QueueOf(w) = q /\ m \in held'[w]
  BY DEF QueueOf
<1>4. m \in B' <=> \E s \in Stream : s.queue = q /\ m \in Contents(chan'[s])
  BY DEF Contents
<1> HIDE DEF A, B
<1>5. /\ m \in InFlight(q) <=> m \in A \/ m \in B
      /\ m \in InFlight(q)' <=> m \in A' \/ m \in B'
  BY <1>1, <1>p
<1> QED BY <1>2, <1>3, <1>4, <1>5

LEMMA WasReceived ==
    ASSUME NEW q, NEW m
    PROVE  /\ m \in Received(q) <=> \E s \in Stream : s.queue = q /\ m \in Contents(delivered[s])
           /\ m \in Received(q)' <=> \E s \in Stream : s.queue = q /\ m \in Contents(delivered'[s])
<1>1. m \in Received(q) <=> \E s \in Stream : s.queue = q /\ m \in Contents(delivered[s])
  BY DEF Received
<1>2. m \in Received(q)' <=> \E s \in Stream : s.queue = q /\ m \in Contents(delivered'[s])
  BY DEF Received, Contents
<1> QED BY <1>1, <1>2

LEMMA ReceivedUnchanged ==
    ASSUME delivered' = delivered PROVE \A q : Received(q)' = Received(q)
  BY DEF Received, Contents

LEMMA InFlightUnchanged ==
    ASSUME held' = held, chan' = chan PROVE \A q : InFlight(q)' = InFlight(q)
  BY DEF InFlight, Contents

(* A step in which messages on their way get lost, or none does, is a Lose *)
(* step.                                                                   *)
LEMMA LosingImplements ==
    ASSUME state' = state, lost \in [Queue -> SUBSET Message], lost' \in [Queue -> SUBSET Message],
           \A q \in Queue : /\ Received(q)' = Received(q)
                            /\ InFlight(q)' \subseteq InFlight(q)
                            /\ lost'[q] = lost[q] \cup (InFlight(q) \ InFlight(q)')
    PROVE  Delivery!AbstractNext
<1> DEFINE gone == [q \in Queue |-> InFlight(q) \ InFlight(q)']
<1>1. \A q \in Queue : gone[q] \subseteq InFlight(q) /\ InFlight(q)' = InFlight(q) \ gone[q]
  OBVIOUS
<1>2. lost' = [q \in Queue |-> lost[q] \cup gone[q]]
  OBVIOUS
<1>3. [q \in Queue |-> InFlight(q)]' = [q \in Queue |-> InFlight(q) \ gone[q]]
  BY <1>1
<1>4. [q \in Queue |-> Received(q)]' = [q \in Queue |-> Received(q)]
  OBVIOUS
<1>5. Delivery!Lose(gone)
  BY <1>1, <1>2, <1>3, <1>4 DEF Delivery!Lose
<1> QED BY <1>5 DEF Delivery!AbstractNext

(* The abstract specification does with the queue data what this one does. *)
LEMMA SameQueueData ==
    ASSUME NEW s, NEW q
    PROVE  /\ Delivery!AfterPop(s, q) = AfterPop(s, q)
           /\ Delivery!PoppedBy(s, q) = PoppedBy(s, q)
           /\ Delivery!EmptyState = EmptyState
           /\ \A p : Delivery!AfterPublish(s, q, p) = AfterPublish(s, q, p)
  BY DEF Delivery!AfterPop, AfterPop, Delivery!PoppedBy, PoppedBy, Delivery!EmptyState, EmptyState,
         Delivery!AfterPublish, AfterPublish

(* A step that moves no message, or only from a loop to a channel or back, *)
(* cannot be seen.                                                         *)
LEMMA HiddenSteps ==
    ASSUME UNCHANGED <<state, lost, delivered>>, \A q \in Queue : InFlight(q)' = InFlight(q)
    PROVE  UNCHANGED Delivery!abstractVars
<1>1. [q \in Queue |-> InFlight(q)]' = [q \in Queue |-> InFlight(q)]
  OBVIOUS
<1>2. [q \in Queue |-> Received(q)]' = [q \in Queue |-> Received(q)]
  BY ReceivedUnchanged
<1> QED BY <1>1, <1>2 DEF Delivery!abstractVars

(* A Publish entry is an Accept.                                           *)
LEMMA PublishImplements ==
    ASSUME NEW q \in Queue, NEW p \in Payload, PublishApplied(q, p)
    PROVE  Delivery!AbstractNext
<1>1. /\ state' = Delivery!AfterPublish(state, q, p) /\ lost' = lost
      /\ held' = held /\ chan' = chan /\ delivered' = delivered
  BY SameQueueData DEF PublishApplied
<1>2. /\ [r \in Queue |-> InFlight(r)]' = [r \in Queue |-> InFlight(r)]
      /\ [r \in Queue |-> Received(r)]' = [r \in Queue |-> Received(r)]
  BY <1>1, InFlightUnchanged, ReceivedUnchanged
<1>3. Delivery!Accept(q, p)
  BY <1>1, <1>2 DEF Delivery!Accept
<1> QED BY <1>3 DEF Delivery!AbstractNext

(* A Pop entry that answers is a Take, one that finds nothing no step.     *)
LEMMA PopImplements ==
    ASSUME Control, NEW w \in Worker, PopApplied(w)
    PROVE  Delivery!AbstractNext \/ UNCHANGED Delivery!abstractVars
<1> DEFINE q == QueueOf(w)
           popped == PoppedBy(state, q)
<1>1. q \in Queue /\ state \in QueueStates /\ held \in [Worker -> SUBSET Message]
  BY WorkerParts DEF Control, TypeOK
<1>2. UNCHANGED <<chan, delivered, lost>> /\ state' = AfterPop(state, q)
  BY DEF PopApplied
<1>3. held[w] = {}
  BY DEF PopApplied, Control, HeldWhileSending
<1>4. held'[w] = popped /\ \A v \in Worker \ {w} : held'[v] = held[v]
  BY <1>1 DEF PopApplied
<1>q. QueueOf(w) = q
  OBVIOUS
<1> HIDE DEF q, popped
<1>5. InFlight(q)' = InFlight(q) \cup popped /\ \A r \in Queue \ {q} : InFlight(r)' = InFlight(r)
  <2>1. ASSUME NEW m PROVE m \in InFlight(q)' <=> m \in InFlight(q) \/ m \in popped
    BY <1>q, <1>2, <1>3, <1>4, OnItsWay
  <2>2. ASSUME NEW r \in Queue \ {q}, NEW m PROVE m \in InFlight(r)' <=> m \in InFlight(r)
    BY <1>q, <1>2, <1>3, <1>4, OnItsWay
  <2> QED BY <2>1, <2>2
<1>6. CASE state.queues[q] = <<>>
  <2>1. state' = state /\ popped = {}
    BY <1>1, <1>2, <1>6, PopOfEmpty DEF popped
  <2>2. \A r \in Queue : InFlight(r)' = InFlight(r)
    BY <1>5, <2>1
  <2> QED BY <1>2, <2>1, <2>2, HiddenSteps
<1>7. CASE state.queues[q] # <<>>
  <2>1. /\ state' = Delivery!AfterPop(state, q) /\ popped = Delivery!PoppedBy(state, q)
    BY <1>2, SameQueueData DEF popped
  <2> DEFINE F == [r \in Queue |-> InFlight(r)]
  <2>2. F' = [F EXCEPT ![q] = @ \cup popped]
    BY <1>1, <1>5
  <2>3. [r \in Queue |-> Received(r)]' = [r \in Queue |-> Received(r)]
    BY <1>2, ReceivedUnchanged
  <2>4. Delivery!Take(q)
    BY <1>2, <1>7, <2>1, <2>2, <2>3 DEF Delivery!Take
  <2> QED BY <1>1, <2>4 DEF Delivery!AbstractNext
<1> QED BY <1>6, <1>7

(* An orphaned entry that answers is a Discard.                            *)
LEMMA OrphanPopImplements ==
    ASSUME Control, NEW q \in Queue, OrphanPopApplied(q)
    PROVE  Delivery!AbstractNext \/ UNCHANGED Delivery!abstractVars
<1>1. state \in QueueStates /\ lost \in [Queue -> SUBSET Message]
  BY DEF Control, TypeOK
<1>2. UNCHANGED <<held, chan, delivered>> /\ state' = AfterPop(state, q)
  BY DEF OrphanPopApplied
<1>3. lost' = [lost EXCEPT ![q] = @ \cup PoppedBy(state, q)]
  BY DEF OrphanPopApplied
<1>4. \A r : InFlight(r)' = InFlight(r) /\ Received(r)' = Received(r)
  BY <1>2, InFlightUnchanged, ReceivedUnchanged
<1>5. CASE state.queues[q] = <<>>
  <2>1. state' = state /\ PoppedBy(state, q) = {}
    BY <1>1, <1>2, <1>5, PopOfEmpty
  <2>2. lost' = lost
    BY <1>1, <1>3, <2>1
  <2> QED BY <1>2, <1>4, <2>1, <2>2, HiddenSteps
<1>6. CASE state.queues[q] # <<>>
  <2>1. /\ state' = Delivery!AfterPop(state, q)
        /\ lost' = [lost EXCEPT ![q] = @ \cup Delivery!PoppedBy(state, q)]
    BY <1>2, <1>3, SameQueueData
  <2>2. /\ [r \in Queue |-> InFlight(r)]' = [r \in Queue |-> InFlight(r)]
        /\ [r \in Queue |-> Received(r)]' = [r \in Queue |-> Received(r)]
    BY <1>4
  <2>3. Delivery!Discard(q)
    BY <1>6, <2>1, <2>2 DEF Delivery!Discard
  <2> QED BY <2>3 DEF Delivery!AbstractNext
<1> QED BY <1>5, <1>6

(* A message sent stays on its way.                                        *)
LEMMA SendImplements ==
    ASSUME Control, NEW w \in Worker, SendPopped(w)
    PROVE  UNCHANGED Delivery!abstractVars
<1> DEFINE s == w[1]
<1>1. PICK m \in Message : held[w] = {m}
  BY DEF SendPopped, Control, HeldWhileSending, TypeOK
<1>2. /\ s \in Stream /\ s.queue = QueueOf(w)
      /\ chan[s] \in Seq(Message) /\ chan \in [Stream -> Seq(Message)]
      /\ held \in [Worker -> SUBSET Message]
  BY WorkerParts DEF Control, TypeOK, QueueOf
<1>3. held'[w] = {} /\ \A v \in Worker \ {w} : held'[v] = held[v]
  BY <1>2 DEF SendPopped
<1>4. chan'[s] = Append(chan[s], m) /\ \A t \in Stream \ {s} : chan'[t] = chan[t]
  BY <1>1, <1>2 DEF SendPopped
<1>5. /\ Contents(chan'[s]) = Contents(chan[s]) \cup {m}
      /\ \A t \in Stream \ {s} : Contents(chan'[t]) = Contents(chan[t])
  BY <1>2, <1>4, ContentsOfAppend
<1> HIDE DEF s
<1>6. ASSUME NEW q \in Queue, NEW x PROVE x \in InFlight(q)' <=> x \in InFlight(q)
  BY <1>1, <1>2, <1>3, <1>5, OnItsWay
<1>7. \A q \in Queue : InFlight(q)' = InFlight(q)
  BY <1>6
<1> QED BY <1>7, HiddenSteps DEF SendPopped

(* So does the item a forward hands over.                                  *)
LEMMA ReplyImplements ==
    ASSUME Control, Placed, NEW w \in Worker, NEW s \in Stream, ForwardReply(w, s)
    PROVE  UNCHANGED Delivery!abstractVars
<1> DEFINE m == Head(chan[s])
<1>1. /\ s.queue = QueueOf(w) /\ held[w] = {}
      /\ chan[s] \in Seq(Message) /\ chan[s] # <<>> /\ chan \in [Stream -> Seq(Message)]
      /\ held \in [Worker -> SUBSET Message]
  BY DEF ForwardReply, Control, AwaitsOwnQueue, HeldWhileSending, TypeOK
<1>2. held'[w] = {m} /\ \A v \in Worker \ {w} : held'[v] = held[v]
  BY <1>1 DEF ForwardReply
<1>3. chan'[s] = Tail(chan[s]) /\ \A t \in Stream \ {s} : chan'[t] = chan[t]
  BY <1>1 DEF ForwardReply
<1>4. /\ Contents(chan[s]) = Contents(chan'[s]) \cup {m}
      /\ \A t \in Stream \ {s} : Contents(chan'[t]) = Contents(chan[t])
  BY <1>1, <1>3, ContentsOfTail DEF Placed, StreamsWithoutRepeat
<1> HIDE DEF m
<1>5. ASSUME NEW q \in Queue, NEW x PROVE x \in InFlight(q)' <=> x \in InFlight(q)
  BY <1>1, <1>2, <1>4, OnItsWay
<1>6. \A q \in Queue : InFlight(q)' = InFlight(q)
  BY <1>5
<1> QED BY <1>6, HiddenSteps DEF ForwardReply

(* A failed send loses the message it was to send ...                      *)
LEMMA SendFailureImplements ==
    ASSUME Control, Control', Placed, NEW w \in Worker, SendFails(w)
    PROVE  Delivery!AbstractNext
<1> DEFINE q == QueueOf(w)
<1>1. /\ q \in Queue /\ held \in [Worker -> SUBSET Message]
      /\ lost \in [Queue -> SUBSET Message] /\ lost' \in [Queue -> SUBSET Message]
  BY WorkerParts DEF Control, TypeOK
<1>2. UNCHANGED <<state, chan, delivered>>
  BY DEF SendFails
<1>3. /\ held'[w] = {} /\ \A v \in Worker \ {w} : held'[v] = held[v]
      /\ lost'[q] = lost[q] \cup held[w] /\ \A r \in Queue \ {q} : lost'[r] = lost[r]
  BY <1>1 DEF SendFails
<1>q. QueueOf(w) = q
  OBVIOUS
<1> HIDE DEF q
<1>4. ASSUME NEW r \in Queue, NEW x
      PROVE  x \in InFlight(r)' <=> x \in InFlight(r) /\ ~(r = q /\ x \in held[w])
  <2>1. \A v \in Worker \ {w} : QueueOf(v) = q => \A y \in held[v] : y \notin held[w]
    BY <1>q DEF Placed, HeldAlone, Disjoint
  <2>2. \A s \in Stream : s.queue = q => \A y \in Contents(chan[s]) : y \notin held[w]
    BY <1>q DEF Placed, HeldNowhereElse, Disjoint
  <2> QED BY <1>q, <1>2, <1>3, <2>1, <2>2, OnItsWay
<1>5. \A x \in held[w] : x \in InFlight(q)
  BY <1>q, OnItsWay
<1>6. ASSUME NEW r \in Queue
      PROVE  /\ InFlight(r)' \subseteq InFlight(r)
             /\ lost'[r] = lost[r] \cup (InFlight(r) \ InFlight(r)')
  <2>1. CASE r = q
    BY <2>1, <1>3, <1>4, <1>5
  <2>2. CASE r # q
    BY <2>2, <1>3, <1>4
  <2> QED BY <2>1, <2>2
<1>7. \A r \in Queue : Received(r)' = Received(r)
  BY <1>2, ReceivedUnchanged
<1> QED BY <1>1, <1>2, <1>6, <1>7, LosingImplements

(* ... a dropped stream what its channel holds ...                         *)
LEMMA DropImplements ==
    ASSUME Control, Control', Placed, NEW s \in Stream, StreamDropped(s)
    PROVE  Delivery!AbstractNext
<1> DEFINE q == s.queue
           C == Contents(chan[s])
<1>1. /\ q \in Queue /\ chan \in [Stream -> Seq(Message)]
      /\ lost \in [Queue -> SUBSET Message] /\ lost' \in [Queue -> SUBSET Message]
  BY StreamParts DEF Control, TypeOK
<1>2. UNCHANGED <<state, held, delivered>>
  BY DEF StreamDropped
<1>3. lost'[q] = lost[q] \cup C /\ \A r \in Queue \ {q} : lost'[r] = lost[r]
  BY <1>1 DEF StreamDropped
<1>4. /\ Contents(chan'[s]) = {}
      /\ \A t \in Stream \ {s} : Contents(chan'[t]) = Contents(chan[t])
  BY <1>1, ContentsOfEmpty DEF StreamDropped
<1>5. /\ \A w \in Worker : QueueOf(w) = q => \A y \in held[w] : y \notin C
      /\ \A t \in Stream \ {s} : t.queue = q => \A y \in Contents(chan[t]) : y \notin C
  BY DEF Placed, HeldNowhereElse, StreamsApart, Disjoint
<1>6. s.queue = q /\ C = Contents(chan[s])
  OBVIOUS
<1> HIDE DEF q, C
<1>7. ASSUME NEW r \in Queue, NEW x
      PROVE  x \in InFlight(r)' <=> x \in InFlight(r) /\ ~(r = q /\ x \in C)
  BY <1>2, <1>4, <1>5, <1>6, OnItsWay
<1>8. \A x \in C : x \in InFlight(q)
  BY <1>6, OnItsWay
<1>9. ASSUME NEW r \in Queue
      PROVE  /\ InFlight(r)' \subseteq InFlight(r)
             /\ lost'[r] = lost[r] \cup (InFlight(r) \ InFlight(r)')
  <2>1. CASE r = q
    BY <2>1, <1>3, <1>7, <1>8
  <2>2. CASE r # q
    BY <2>2, <1>3, <1>7
  <2> QED BY <2>1, <2>2
<1>10. \A r \in Queue : Received(r)' = Received(r)
  BY <1>2, ReceivedUnchanged
<1> QED BY <1>1, <1>2, <1>9, <1>10, LosingImplements

(* ... and a crash what its node held and buffered.                        *)
LEMMA CrashImplements ==
    ASSUME Control, Control', Placed, NEW n \in Node, Crash(n)
    PROVE  Delivery!AbstractNext
<1>1. lost \in [Queue -> SUBSET Message] /\ lost' \in [Queue -> SUBSET Message]
  BY DEF Control, TypeOK
<1>2. UNCHANGED <<state, delivered>>
  BY DEF Crash
<1>3. /\ \A w \in Dying(n) : held'[w] = {}
      /\ \A w \in Worker \ Dying(n) : held'[w] = held[w]
      /\ Dying(n) \subseteq Worker
  BY DEF Crash, Dying
<1>4. /\ \A s \in Stream : s.host = n => Contents(chan'[s]) = {}
      /\ \A s \in Stream : s.host # n => Contents(chan'[s]) = Contents(chan[s])
  BY ContentsOfEmpty DEF Crash
<1>5. ASSUME NEW r \in Queue
      PROVE  lost'[r] = lost[r] \cup (HeldAt(n, r) \cup BufferedAt(n, r))
  BY DEF Crash
<1>6. ASSUME NEW r \in Queue, NEW x
      PROVE  /\ x \in InFlight(r)' => x \in InFlight(r)
             /\ x \in HeldAt(n, r) \cup BufferedAt(n, r) <=> x \in InFlight(r) /\ x \notin InFlight(r)'
  <2>1. /\ x \in HeldAt(n, r) <=> \E w \in Dying(n) : QueueOf(w) = r /\ x \in held[w]
        /\ x \in BufferedAt(n, r) <=>
                \E s \in Stream : s.host = n /\ s.queue = r /\ x \in Contents(chan[s])
    BY LostToCrash
  <2>2. x \in InFlight(r) <=> \/ \E w \in Worker : QueueOf(w) = r /\ x \in held[w]
                              \/ \E s \in Stream : s.queue = r /\ x \in Contents(chan[s])
    BY OnItsWay
  <2>3. x \in InFlight(r)' <=>
            \/ \E w \in Worker \ Dying(n) : QueueOf(w) = r /\ x \in held[w]
            \/ \E s \in Stream : s.host # n /\ s.queue = r /\ x \in Contents(chan[s])
    BY <1>3, <1>4, OnItsWay
  <2>4. ASSUME NEW w \in Worker, QueueOf(w) = r, x \in held[w]
        PROVE  /\ \A v \in Worker : QueueOf(v) = r /\ x \in held[v] => v = w
               /\ \A s \in Stream : s.queue = r => x \notin Contents(chan[s])
    BY <2>4 DEF Placed, HeldAlone, HeldNowhereElse, Disjoint
  <2>5. ASSUME NEW s \in Stream, s.queue = r, x \in Contents(chan[s])
        PROVE  \A t \in Stream : t.queue = r /\ x \in Contents(chan[t]) => t = s
    BY <2>5 DEF Placed, StreamsApart, Disjoint
  <2>6. x \in InFlight(r)' => x \in InFlight(r)
    BY <2>2, <2>3
  <2>7. x \in HeldAt(n, r) => x \in InFlight(r) /\ x \notin InFlight(r)'
    BY <2>1, <2>2, <2>3, <2>4, <1>3
  <2>8. x \in BufferedAt(n, r) => x \in InFlight(r) /\ x \notin InFlight(r)'
    BY <2>1, <2>2, <2>3, <2>4, <2>5
  <2>9. x \in InFlight(r) /\ x \notin InFlight(r)' => x \in HeldAt(n, r) \/ x \in BufferedAt(n, r)
    BY <2>1, <2>2, <2>3
  <2> QED BY <2>6, <2>7, <2>8, <2>9
<1>7. ASSUME NEW r \in Queue
      PROVE  /\ InFlight(r)' \subseteq InFlight(r)
             /\ lost'[r] = lost[r] \cup (InFlight(r) \ InFlight(r)')
  BY <1>5, <1>6
<1>8. \A r \in Queue : Received(r)' = Received(r)
  BY <1>2, ReceivedUnchanged
<1> QED BY <1>1, <1>2, <1>7, <1>8, LosingImplements

(* A consumer's read is a Deliver.                                         *)
LEMMA ReceiveImplements ==
    ASSUME Control, Placed, NEW s \in Stream, Receive(s)
    PROVE  Delivery!AbstractNext
<1> DEFINE q == s.queue
           m == Head(chan[s])
<1>1. /\ q \in Queue /\ chan[s] \in Seq(Message) /\ chan[s] # <<>>
      /\ delivered[s] \in Seq(Message)
      /\ chan \in [Stream -> Seq(Message)] /\ delivered \in [Stream -> Seq(Message)]
  BY StreamParts DEF Receive, Control, TypeOK
<1>2. UNCHANGED <<state, held, lost>>
  BY DEF Receive
<1>3. /\ chan'[s] = Tail(chan[s]) /\ delivered'[s] = Append(delivered[s], m)
      /\ \A t \in Stream \ {s} : chan'[t] = chan[t] /\ delivered'[t] = delivered[t]
  BY <1>1 DEF Receive
<1>4. /\ m \in Message
      /\ Contents(chan[s]) = Contents(chan'[s]) \cup {m}
      /\ m \notin Contents(chan'[s])
  <2>1. Disjoint({m}, Contents(chan'[s]))
    BY <1>1, <1>3, ContentsOfTail DEF Placed, StreamsWithoutRepeat
  <2> QED BY <1>1, <1>3, <2>1, ContentsOfTail DEF Placed, StreamsWithoutRepeat, Disjoint
<1>5. Contents(delivered'[s]) = Contents(delivered[s]) \cup {m}
  BY <1>1, <1>3, <1>4, ContentsOfAppend
<1>6. \A t \in Stream \ {s} : /\ Contents(chan'[t]) = Contents(chan[t])
                              /\ Contents(delivered'[t]) = Contents(delivered[t])
  BY <1>3
<1>7. /\ \A w \in Worker : QueueOf(w) = q => m \notin held[w]
      /\ \A t \in Stream \ {s} : t.queue = q => m \notin Contents(chan[t])
  BY <1>4 DEF Placed, HeldNowhereElse, StreamsApart, Disjoint
<1>q. s.queue = q
  OBVIOUS
<1> HIDE DEF q, m
<1>8. m \in InFlight(q)
  BY <1>q, <1>4, OnItsWay
<1>9. ASSUME NEW r \in Queue, NEW x
      PROVE  x \in InFlight(r)' <=> x \in InFlight(r) /\ ~(r = q /\ x = m)
  BY <1>q, <1>2, <1>4, <1>6, <1>7, OnItsWay
<1>10. ASSUME NEW r \in Queue, NEW x
       PROVE  x \in Received(r)' <=> x \in Received(r) \/ (r = q /\ x = m)
  BY <1>q, <1>5, <1>6, WasReceived
<1> DEFINE F == [r \in Queue |-> InFlight(r)]
           R == [r \in Queue |-> Received(r)]
<1>11. F' = [F EXCEPT ![q] = @ \ {m}]
  <2>1. InFlight(q)' = InFlight(q) \ {m} /\ \A r \in Queue \ {q} : InFlight(r)' = InFlight(r)
    BY <1>1, <1>9
  <2> QED BY <1>1, <2>1
<1>12. R' = [R EXCEPT ![q] = @ \cup {m}]
  <2>1. Received(q)' = Received(q) \cup {m} /\ \A r \in Queue \ {q} : Received(r)' = Received(r)
    BY <1>1, <1>10
  <2> QED BY <1>1, <2>1
<1>13. m \in F[q] /\ q \in Queue
  BY <1>1, <1>8
<1>14. Delivery!Deliver(q, m)
  BY <1>2, <1>11, <1>12, <1>13 DEF Delivery!Deliver
<1> QED BY <1>13, <1>14 DEF Delivery!AbstractNext

(* Every step of the nodes is a step of the abstract delivery or none.     *)
LEMMA NextImplements ==
    ASSUME Control, Placed, Control', [Next]_vars
    PROVE  Delivery!AbstractNext \/ UNCHANGED Delivery!abstractVars
<1> DEFINE Goal == Delivery!AbstractNext \/ UNCHANGED Delivery!abstractVars
<1>1. ASSUME UNCHANGED <<state, held, chan, delivered, lost>> PROVE Goal
  BY <1>1, InFlightUnchanged, HiddenSteps
<1>2. ASSUME NEW q \in Queue, NEW p \in Payload, PublishApplied(q, p) PROVE Goal
  BY <1>2, PublishImplements
<1>3. ASSUME NEW n \in Node, Elect(n) \/ Learn(n) \/ CoreStops(n) PROVE Goal
  BY <1>1, <1>3 DEF Elect, Learn, CoreStops
<1>4. ASSUME NEW n \in Node, Crash(n) PROVE Goal
  BY <1>4, CrashImplements
<1>5. ASSUME NEW q \in Queue, OrphanPopApplied(q) PROVE Goal
  BY <1>5, OrphanPopImplements
<1>6. ASSUME NEW s \in Stream, Subscribe(s) \/ Disconnect(s) PROVE Goal
  BY <1>1, <1>6 DEF Subscribe, Disconnect
<1>7. ASSUME NEW s \in Stream, StreamDropped(s) PROVE Goal
  BY <1>7, DropImplements
<1>8. ASSUME NEW s \in Stream, Receive(s) PROVE Goal
  BY <1>8, ReceiveImplements
<1>9. ASSUME NEW w \in Worker, ProposePop(w) \/ RetryPop(w) PROVE Goal
  BY <1>1, <1>9 DEF ProposePop, RetryPop
<1>10. ASSUME NEW w \in Worker, PopApplied(w) PROVE Goal
  BY <1>10, PopImplements
<1>11. ASSUME NEW w \in Worker, SendPopped(w) PROVE Goal
  BY <1>11, SendImplements
<1>12. ASSUME NEW w \in Worker, SendFails(w) PROVE Goal
  BY <1>12, SendFailureImplements
<1>13. ASSUME NEW w \in Worker, NEW s \in Stream, ForwardPop(w, s) \/ ForwardTimeout(w, s)
       PROVE  Goal
  BY <1>1, <1>13 DEF ForwardPop, ForwardTimeout
<1>14. ASSUME NEW w \in Worker, NEW s \in Stream, ForwardReply(w, s) PROVE Goal
  BY <1>14, ReplyImplements
<1>15. ASSUME UNCHANGED vars PROVE Goal
  BY <1>1, <1>15 DEF vars
<1> HIDE DEF Goal
<1>16. Goal
  BY <1>2, <1>3, <1>4, <1>5, <1>6, <1>7, <1>8, <1>9, <1>10, <1>11, <1>12, <1>13, <1>14, <1>15
  DEF Next
<1> QED BY <1>16 DEF Goal

(* Every place is empty at first, as the abstract delivery has it.         *)
LEMMA InitImplements == Init => Delivery!AbstractInit
<1> SUFFICES ASSUME Init PROVE Delivery!AbstractInit
  OBVIOUS
<1>1. /\ \A w \in Worker : held[w] = {}
      /\ \A s \in Stream : Contents(chan[s]) = {} /\ Contents(delivered[s]) = {}
  BY ContentsOfEmpty DEF Init
<1>2. \A q \in Queue : InFlight(q) = {} /\ Received(q) = {}
  BY <1>1, OnItsWay, WasReceived
<1>3. state = Delivery!EmptyState /\ lost = [q \in Queue |-> {}]
  BY SameQueueData DEF Init
<1> QED BY <1>2, <1>3 DEF Delivery!AbstractInit

(* The consume handlers of all nodes together, with their redirects,       *)
(* forwards, timeouts, disconnects and crashes, implement the delivery     *)
(* that AtMostOnceDelivery describes.                                      *)
THEOREM HandlersImplementDelivery == Spec => ImplementsDelivery
<1>1. Init => Control /\ Placed
  BY InitControl, InitPlaced
<1>2. (Control /\ Placed) /\ [Next]_vars => (Control /\ Placed)'
  BY NextControl, NextPlaced
<1>3. (Control /\ Placed) /\ (Control /\ Placed)' /\ [Next]_vars
        => [Delivery!AbstractNext]_(Delivery!abstractVars)
  BY NextImplements
<1> QED BY <1>1, <1>2, <1>3, InitImplements, PTL DEF Spec, ImplementsDelivery, Delivery!AbstractSpec

(* What was popped from queue q.                                           *)
Popped(q) == InFlight(q) \cup Received(q) \cup lost[q]

(* A step that moves messages only between those places, and leaves the    *)
(* front of every queue where it is, conserves them.                       *)
LEMMA MovesConserve ==
    ASSUME Conserved,
           \A q \in Queue : /\ Popped(q)' = Popped(q)
                            /\ FrontOffset(state', q) = FrontOffset(state, q)
    PROVE  Conserved'
<1>1. \A q \in Queue : {m.offset : m \in Popped(q)} = 0..(FrontOffset(state, q) - 1)
  BY DEF Conserved, Popped
<1>2. \A q \in Queue : {m.offset : m \in Popped(q)'} = 0..(FrontOffset(state', q) - 1)
  BY <1>1
<1> QED BY <1>2 DEF Conserved, Popped

(* A Pop that answers moves the front on by the one message it popped.     *)
LEMMA PopConserves ==
    ASSUME Control, Contiguous(state), Conserved, NEW q \in Queue, state.queues[q] # <<>>,
           state' = AfterPop(state, q),
           Popped(q)' = Popped(q) \cup PoppedBy(state, q),
           \A r \in Queue \ {q} : Popped(r)' = Popped(r)
    PROVE  Conserved'
<1>1. /\ PoppedBy(state, q) = {Head(state.queues[q])}
      /\ Head(state.queues[q]).offset = FrontOffset(state, q)
      /\ FrontOffset(state', q) = FrontOffset(state, q) + 1
      /\ \A r \in Queue \ {q} : FrontOffset(state', r) = FrontOffset(state, r)
      /\ FrontOffset(state, q) \in Nat
  BY PopKeepsContiguous DEF Control, TypeOK
<1>2. \A r \in Queue : {m.offset : m \in Popped(r)} = 0..(FrontOffset(state, r) - 1)
  BY DEF Conserved, Popped
<1>3. {m.offset : m \in Popped(q)'} = {m.offset : m \in Popped(q)} \cup {FrontOffset(state, q)}
  BY <1>1
<1>4. {m.offset : m \in Popped(q)'} = 0..(FrontOffset(state', q) - 1)
  BY <1>1, <1>2, <1>3
<1>5. \A r \in Queue : {m.offset : m \in Popped(r)'} = 0..(FrontOffset(state', r) - 1)
  BY <1>1, <1>2, <1>4
<1> QED BY <1>5 DEF Conserved, Popped

(* What a step of the abstract delivery does to the places of a message.   *)
LEMMA AbstractStepsConserve ==
    ASSUME Control, Contiguous(state), Conserved, Delivery!AbstractNext
    PROVE  Conserved'
<1> DEFINE F == [q \in Queue |-> InFlight(q)]
           R == [q \in Queue |-> Received(q)]
<1>t. lost \in [Queue -> SUBSET Message] /\ state \in QueueStates
  BY DEF Control, TypeOK
<1>p. \A q \in Queue : Popped(q) = F[q] \cup R[q] \cup lost[q] /\ Popped(q)' = F'[q] \cup R'[q] \cup lost'[q]
  BY DEF Popped
<1>f. F' = [q \in Queue |-> F'[q]] /\ DOMAIN F = Queue /\ R' = [q \in Queue |-> R'[q]] /\ DOMAIN R = Queue
  OBVIOUS
<1>1. ASSUME NEW q \in Queue, NEW p \in Payload, Delivery!Accept(q, p) PROVE Conserved'
  <2>1. state' = AfterPublish(state, q, p) /\ F' = F /\ R' = R /\ lost' = lost
    BY <1>1, SameQueueData DEF Delivery!Accept
  <2>2. \A r \in Queue : FrontOffset(state', r) = FrontOffset(state, r)
    BY <1>t, <2>1, PublishKeepsContiguous
  <2> QED BY <1>p, <2>1, <2>2, MovesConserve
<1>2. ASSUME NEW q \in Queue, Delivery!Take(q) PROVE Conserved'
  <2>1. /\ state.queues[q] # <<>> /\ state' = AfterPop(state, q)
        /\ F' = [F EXCEPT ![q] = @ \cup PoppedBy(state, q)] /\ R' = R /\ lost' = lost
    BY <1>2, SameQueueData DEF Delivery!Take
  <2> HIDE DEF F, R
  <2>2. /\ Popped(q)' = Popped(q) \cup PoppedBy(state, q)
        /\ \A r \in Queue \ {q} : Popped(r)' = Popped(r)
    BY <1>f, <1>p, <2>1
  <2> QED BY <2>1, <2>2, PopConserves
<1>3. ASSUME NEW q \in Queue, Delivery!Discard(q) PROVE Conserved'
  <2>1. /\ state.queues[q] # <<>> /\ state' = AfterPop(state, q)
        /\ lost' = [lost EXCEPT ![q] = @ \cup PoppedBy(state, q)] /\ R' = R /\ F' = F
    BY <1>3, SameQueueData DEF Delivery!Discard
  <2> HIDE DEF F, R
  <2>2. /\ Popped(q)' = Popped(q) \cup PoppedBy(state, q)
        /\ \A r \in Queue \ {q} : Popped(r)' = Popped(r)
    BY <1>t, <1>p, <2>1
  <2> QED BY <2>1, <2>2, PopConserves
<1>4. ASSUME NEW q \in Queue, NEW m \in F[q], Delivery!Deliver(q, m) PROVE Conserved'
  <2>1. /\ F' = [F EXCEPT ![q] = @ \ {m}] /\ R' = [R EXCEPT ![q] = @ \cup {m}]
        /\ state' = state /\ lost' = lost
    BY <1>4 DEF Delivery!Deliver
  <2> HIDE DEF F, R
  <2>2. ASSUME NEW r \in Queue PROVE Popped(r)' = Popped(r)
    <3>1. Popped(r) = F[r] \cup R[r] \cup lost[r] /\ Popped(r)' = F'[r] \cup R'[r] \cup lost[r]
      BY <1>p, <2>1
    <3>2. CASE r = q
      <4>1. F'[r] = F[r] \ {m} /\ R'[r] = R[r] \cup {m} /\ m \in F[r]
        BY <1>4, <1>f, <2>1, <3>2
      <4> QED BY <3>1, <4>1
    <3>3. CASE r # q
      <4>1. F'[r] = F[r] /\ R'[r] = R[r]
        BY <1>f, <2>1, <3>3
      <4> QED BY <3>1, <4>1
    <3> QED BY <3>2, <3>3
  <2> QED BY <2>1, <2>2, MovesConserve
<1>5. ASSUME Delivery!Lose([q \in Queue |-> F[q] \ F'[q]]) PROVE Conserved'
  <2> DEFINE gone == [q \in Queue |-> F[q] \ F'[q]]
  <2>1. /\ \A q \in Queue : gone[q] \subseteq F[q]
        /\ F' = [q \in Queue |-> F[q] \ gone[q]]
        /\ lost' = [q \in Queue |-> lost[q] \cup gone[q]]
        /\ state' = state /\ R' = R
    BY <1>5 DEF Delivery!Lose
  <2> HIDE DEF F, R, gone
  <2>2. ASSUME NEW q \in Queue PROVE Popped(q)' = Popped(q)
    <3>1. /\ F'[q] = F[q] \ gone[q] /\ lost'[q] = lost[q] \cup gone[q] /\ R'[q] = R[q]
          /\ gone[q] \subseteq F[q]
      BY <2>1
    <3>2. Popped(q) = F[q] \cup R[q] \cup lost[q] /\ Popped(q)' = F'[q] \cup R'[q] \cup lost'[q]
      BY <1>p
    <3> QED BY <3>1, <3>2
  <2> QED BY <2>1, <2>2, MovesConserve
<1> QED BY <1>1, <1>2, <1>3, <1>4, <1>5 DEF Delivery!AbstractNext

(* Nothing disappears silently, for any number of nodes, streams and       *)
(* faults: what has left a queue is on its way, received or accounted for  *)
(* as lost. It follows from the refinement: no step of the abstract        *)
(* delivery forgets a message.                                             *)
THEOREM MessagesAreConserved == Spec => []Conserved
<1>1. Init => Control /\ Placed /\ Conserved
  <2> SUFFICES ASSUME Init PROVE Conserved
    BY InitControl, InitPlaced
  <2>1. \A q \in Queue : Popped(q) = {}
    <3>1. /\ \A w \in Worker : held[w] = {}
          /\ \A s \in Stream : Contents(chan[s]) = {} /\ Contents(delivered[s]) = {}
          /\ \A q \in Queue : lost[q] = {}
      BY ContentsOfEmpty DEF Init
    <3>2. \A q \in Queue : InFlight(q) = {} /\ Received(q) = {}
      BY <3>1, OnItsWay, WasReceived
    <3> QED BY <3>1, <3>2 DEF Popped
  <2>2. ASSUME NEW q \in Queue PROVE FrontOffset(state, q) = 0
    <3>1. state.queues[q] = <<>> /\ state.next_offset[q] = 0
      BY DEF Init, EmptyState
    <3>2. Len(state.queues[q]) = 0
      BY <3>1
    <3>3. state.next_offset[q] - Len(state.queues[q]) = 0
      <4>1. 0 - 0 = 0
        OBVIOUS
      <4> QED BY <3>1, <3>2, <4>1, Zenon
    <3> QED BY <3>3, Zenon DEF FrontOffset
  <2>3. ASSUME NEW q \in Queue
        PROVE  {m.offset : m \in Popped(q)} = 0..(FrontOffset(state, q) - 1)
    <3>1. {m.offset : m \in Popped(q)} = {}
      BY <2>1
    <3>2. 0..(0 - 1) = {}
      OBVIOUS
    <3> QED BY <2>2, <3>1, <3>2
  <2> QED BY <2>3 DEF Conserved, Popped
<1>2. Control /\ Placed /\ Conserved /\ [Next]_vars => (Control /\ Placed /\ Conserved)'
  <2> SUFFICES ASSUME Control, Placed, Conserved, [Next]_vars PROVE (Control /\ Placed /\ Conserved)'
    OBVIOUS
  <2>1. Control' /\ Placed'
    BY NextControl, NextPlaced
  <2>2. CASE Delivery!AbstractNext
    BY <2>1, <2>2, AbstractStepsConserve DEF Placed
  <2>3. CASE UNCHANGED Delivery!abstractVars
    <3> DEFINE F == [q \in Queue |-> InFlight(q)]
               R == [q \in Queue |-> Received(q)]
    <3>1. F' = F /\ R' = R /\ state' = state /\ lost' = lost
      BY <2>3 DEF Delivery!abstractVars
    <3>2. \A q \in Queue : /\ InFlight(q) = F[q] /\ InFlight(q)' = F'[q]
                           /\ Received(q) = R[q] /\ Received(q)' = R'[q]
      OBVIOUS
    <3>3. \A q \in Queue : Popped(q)' = Popped(q)
      BY <3>1, <3>2 DEF Popped
    <3> QED BY <2>1, <3>1, <3>3, MovesConserve
  <2> QED BY <2>1, <2>2, <2>3, NextImplements
<1> QED BY <1>1, <1>2, PTL DEF Spec

-----------------------------------------------------------------------------
(* How much a dropped stream costs.                                        *)

Undisturbed == elections <= 1 /\ crashes = 0

(* Under the one leader that was elected nobody is redirected who has      *)
(* proposed a Pop, so no entry is orphaned.                                *)
SteadyLeader ==
    Undisturbed =>
        /\ \A q \in Queue : orphans[q] = 0
        /\ down = {}
        /\ (elections = 0) => (leader = {} /\ \A n \in Node : known[n] = {})
        /\ \A n \in Node : known[n] = {n} => leader = {n}
        /\ \A w \in Worker : pc[w] = "commit" => known[HostOf(w)] = {HostOf(w)}

(* The channel of a stream is bounded, and what the wire takes from it.    *)
ChannelsBounded == \A s \in Stream : Len(chan[s]) <= PipeCapacity

ClosedOf(q)  == {s \in Stream : s.queue = q /\ rx[s] = "closed"}
StoppedOf(q) == {w \in Worker : QueueOf(w) = q /\ pc[w] = "stopped"}

(* A closed stream has cost what was in its channel, and a message for     *)
(* every loop that has failed to send since.                               *)
LossIsCounted ==
    Undisturbed =>
        \A q \in Queue :
            /\ IsFiniteSet(lost[q])
            /\ Cardinality(lost[q]) <= PipeCapacity * Cardinality(ClosedOf(q))
                                       + Cardinality(StoppedOf(q))

LossInv == SteadyLeader /\ ChannelsBounded /\ LossIsCounted

(* No Pop is orphaned while the first leader stays.                        *)
LEMMA NextSteadyLeader == Control /\ SteadyLeader /\ [Next]_vars => SteadyLeader'
<1> SUFFICES ASSUME Control, SteadyLeader, [Next]_vars, Undisturbed' PROVE SteadyLeader'
  BY DEF SteadyLeader
<1> DEFINE Steady ==
        /\ \A q \in Queue : orphans[q] = 0
        /\ down = {}
        /\ (elections = 0) => (leader = {} /\ \A n \in Node : known[n] = {})
        /\ \A n \in Node : known[n] = {n} => leader = {n}
        /\ \A w \in Worker : pc[w] = "commit" => known[HostOf(w)] = {HostOf(w)}
<1> SUFFICES Steady'
  BY DEF SteadyLeader
<1>t. /\ elections \in Nat /\ crashes \in Nat /\ known \in [Node -> SUBSET Node]
      /\ orphans \in [Queue -> Nat] /\ pc \in [Worker -> WorkerState]
  BY DEF Control, TypeOK
<1>w. \A w \in Worker : HostOf(w) \in Node /\ QueueOf(w) \in Queue
  BY WorkerParts
<1>1. ASSUME NEW n \in Node, Elect(n) PROVE Steady'
  <2>1. /\ leader' = {n} /\ known'[n] = {n} /\ elections' = elections + 1
        /\ \A k \in Node \ {n} : known'[k] = known[k]
        /\ orphans' = orphans /\ pc' = pc /\ crashes' = crashes /\ down' = down
    BY <1>1, <1>t DEF Elect, faultVars
  <2>2. elections = 0 /\ crashes = 0
    BY <2>1, <1>t DEF Undisturbed
  <2>3. Steady /\ leader = {} /\ \A k \in Node : known[k] = {}
    BY <2>2 DEF SteadyLeader, Undisturbed
  <2>4. \A w \in Worker : pc[w] # "commit"
    BY <2>3, <1>w
  <2>5. elections' # 0
    BY <2>1, <2>2
  <2> QED BY <2>1, <2>3, <2>4, <2>5
<1>2. ASSUME NEW n \in Node, Learn(n) PROVE Steady'
  <2>1. /\ leader' = leader /\ known[n] # leader /\ known'[n] = leader /\ elections' = elections
        /\ \A k \in Node \ {n} : known'[k] = known[k]
        /\ orphans' = orphans /\ pc' = pc /\ crashes' = crashes /\ down' = down
    BY <1>2, <1>t DEF Learn, faultVars
  <2>2. Steady
    BY <2>1 DEF SteadyLeader, Undisturbed
  <2>3. ASSUME NEW w \in Worker, pc[w] = "commit" PROVE known'[HostOf(w)] = {HostOf(w)}
    <3>1. known[HostOf(w)] = {HostOf(w)} /\ leader = {HostOf(w)}
      BY <2>2, <2>3, <1>w
    <3>2. HostOf(w) # n
      BY <3>1, <2>1
    <3> QED BY <3>1, <3>2, <2>1, <1>w
  <2>4. \A k \in Node : known'[k] = {k} => leader' = {k}
    BY <2>1, <2>2
  <2>5. (elections' = 0) => (leader' = {} /\ \A k \in Node : known'[k] = {})
    BY <2>1, <2>2
  <2> QED BY <2>1, <2>2, <2>3, <2>4, <2>5
<1>3. ASSUME NEW n \in Node, Crash(n) \/ CoreStops(n) PROVE Steady'
  <2>1. crashes' = crashes + 1
    BY <1>3 DEF Crash, CoreStops
  <2> QED BY <2>1, <1>t DEF Undisturbed
<1>4. ASSUME UNCHANGED <<leader, known, down, elections, crashes>> PROVE Steady
  BY <1>4 DEF SteadyLeader, Undisturbed
<1>5. ASSUME UNCHANGED <<leader, known, down, elections, crashes>>,
             \A q \in Queue : orphans'[q] = 0,
             \A w \in Worker : pc'[w] = "commit" => known[HostOf(w)] = {HostOf(w)}
      PROVE  Steady'
  BY <1>4, <1>5
<1>6. ASSUME NEW q \in Queue, OrphanPopApplied(q) PROVE Steady'
  <2>1. UNCHANGED <<leader, known, down, elections, crashes>> /\ orphans[q] > 0
    BY <1>6 DEF OrphanPopApplied, raftVars, faultVars
  <2>2. orphans[q] = 0
    BY <2>1, <1>4
  <2> QED BY <2>1, <2>2
<1>7. ASSUME NEW w \in Worker, ProposePop(w) PROVE Steady'
  <2>1. /\ UNCHANGED <<leader, known, down, elections, crashes, orphans>>
        /\ known[HostOf(w)] = {HostOf(w)} /\ \A v \in Worker \ {w} : pc'[v] = pc[v]
    BY <1>7, <1>t DEF ProposePop, raftVars, faultVars
  <2>2. Steady
    BY <2>1, <1>4
  <2> QED BY <2>1, <2>2
<1>8. ASSUME UNCHANGED <<leader, known, down, elections, crashes, orphans>>,
             \A w \in Worker : pc'[w] = pc[w] \/ pc'[w] # "commit"
      PROVE  Steady'
  <2>1. Steady
    BY <1>4, <1>8
  <2> QED BY <2>1, <1>8
<1>9. ASSUME NEW w \in Worker, Refused(w),
             UNCHANGED <<leader, known, down, elections, crashes>>,
             \A v \in Worker : pc'[v] = pc[v] \/ pc'[v] # "commit"
      PROVE  Steady'
  <2>1. Steady
    BY <1>4, <1>9
  <2>2. pc[w] # "commit"
    BY <2>1, <1>9, <1>w DEF Refused
  <2>3. orphans' = orphans
    BY <2>2, <1>9, <1>t, <1>w DEF Refused
  <2> QED BY <2>1, <2>3, <1>9
<1> HIDE DEF Steady
<1>10. ASSUME NEW w \in Worker, RetryPop(w) PROVE Steady'
  <2>1. /\ Refused(w) /\ UNCHANGED <<leader, known, down, elections, crashes>>
        /\ \A v \in Worker : pc'[v] = pc[v] \/ pc'[v] # "commit"
    BY <1>10, <1>t DEF RetryPop, raftVars, faultVars
  <2> QED BY <2>1, <1>9
<1>11. ASSUME NEW w \in Worker, NEW s \in Stream, ForwardPop(w, s) PROVE Steady'
  <2>1. /\ Refused(w) /\ UNCHANGED <<leader, known, down, elections, crashes>>
        /\ \A v \in Worker : pc'[v] = pc[v] \/ pc'[v] # "commit"
    BY <1>11, <1>t DEF ForwardPop, SpawnedBy, raftVars, faultVars
  <2> QED BY <2>1, <1>9
<1>12. ASSUME NEW q \in Queue, NEW p \in Payload, PublishApplied(q, p) PROVE Steady'
  BY <1>8, <1>12 DEF PublishApplied, raftVars, faultVars
<1>13. ASSUME NEW s \in Stream, Subscribe(s) PROVE Steady'
  BY <1>8, <1>13 DEF Subscribe, SpawnedBy, raftVars, faultVars
<1>14. ASSUME NEW s \in Stream, StreamDropped(s) \/ Receive(s) \/ Disconnect(s) PROVE Steady'
  BY <1>8, <1>14 DEF StreamDropped, Receive, Disconnect, raftVars, faultVars
<1>15. ASSUME NEW w \in Worker, PopApplied(w) \/ SendPopped(w) \/ SendFails(w) PROVE Steady'
  <2>1. /\ UNCHANGED <<leader, known, down, elections, crashes, orphans>>
        /\ \A v \in Worker : pc'[v] = pc[v] \/ pc'[v] # "commit"
    BY <1>15, <1>t DEF PopApplied, SendPopped, SendFails, raftVars, faultVars
  <2> QED BY <2>1, <1>8
<1>16. ASSUME NEW w \in Worker, NEW s \in Stream, ForwardReply(w, s) \/ ForwardTimeout(w, s)
       PROVE  Steady'
  <2>1. /\ UNCHANGED <<leader, known, down, elections, crashes, orphans>>
        /\ \A v \in Worker : pc'[v] = pc[v] \/ pc'[v] # "commit"
    BY <1>16, <1>t DEF ForwardReply, ForwardTimeout, raftVars, faultVars
  <2> QED BY <2>1, <1>8
<1>17. ASSUME UNCHANGED vars PROVE Steady'
  BY <1>8, <1>17 DEF vars
<1> QED
  BY <1>1, <1>2, <1>3, <1>6, <1>7, <1>10, <1>11, <1>12, <1>13, <1>14, <1>15, <1>16, <1>17 DEF Next

(* A loop sends only while its channel has room.                           *)
LEMMA NextChannelsBounded == Control /\ ChannelsBounded /\ [Next]_vars => ChannelsBounded'
<1> SUFFICES ASSUME Control, ChannelsBounded, [Next]_vars PROVE ChannelsBounded'
  OBVIOUS
<1>t. chan \in [Stream -> Seq(Message)]
  BY DEF Control, TypeOK
<1>c. PipeCapacity \in Nat
  BY ParametersAreSound DEF PipeCapacity
<1>1. ASSUME NEW s \in Stream, \A t \in Stream \ {s} : chan'[t] = chan[t],
             Len(chan'[s]) <= PipeCapacity
      PROVE  ChannelsBounded'
  BY <1>1 DEF ChannelsBounded
<1>2. ASSUME NEW s \in Stream, chan[s] # <<>>, chan' = [chan EXCEPT ![s] = Tail(@)]
      PROVE  ChannelsBounded'
  <2>1. chan'[s] = Tail(chan[s]) /\ \A t \in Stream \ {s} : chan'[t] = chan[t]
    BY <1>2, <1>t
  <2>2. Len(Tail(chan[s])) = Len(chan[s]) - 1 /\ Len(chan[s]) \in Nat
    BY <1>2, <1>t, HeadTailProperties, LenProperties
  <2>3. Len(chan[s]) <= PipeCapacity
    BY DEF ChannelsBounded
  <2>4. Len(chan'[s]) <= PipeCapacity
    BY <2>1, <2>2, <2>3, <1>c
  <2> QED BY <2>1, <2>4, <1>1
<1>3. ASSUME NEW w \in Worker, SendPopped(w) PROVE ChannelsBounded'
  <2> DEFINE s == w[1]
             m == CHOOSE x \in held[w] : TRUE
  <2>1. s \in Stream /\ chan[s] \in Seq(Message) /\ Len(chan[s]) \in Nat
    BY <1>t, WorkerParts, LenProperties
  <2>2. /\ chan'[s] = Append(chan[s], m) /\ \A t \in Stream \ {s} : chan'[t] = chan[t]
        /\ Len(chan[s]) < PipeCapacity
    BY <1>3, <1>t, <2>1 DEF SendPopped
  <2>3. m \in Message
    BY <1>3 DEF SendPopped, Control, HeldWhileSending, TypeOK
  <2> HIDE DEF s, m
  <2>4. Len(Append(chan[s], m)) = Len(chan[s]) + 1
    BY <2>1, <2>3, AppendProperties
  <2>5. Len(chan'[s]) <= PipeCapacity
    BY <2>1, <2>2, <2>4, <1>c
  <2> QED BY <2>1, <2>2, <2>5, <1>1
<1>4. ASSUME NEW s \in Stream, StreamDropped(s) PROVE ChannelsBounded'
  <2>1. chan'[s] = <<>> /\ \A t \in Stream \ {s} : chan'[t] = chan[t]
    BY <1>4, <1>t DEF StreamDropped
  <2>2. Len(<<>>) <= PipeCapacity
    BY <1>c
  <2> QED BY <2>1, <2>2, <1>1
<1>5. ASSUME NEW n \in Node, Crash(n) PROVE ChannelsBounded'
  <2>1. \A s \in Stream : chan'[s] = <<>> \/ chan'[s] = chan[s]
    BY <1>5 DEF Crash
  <2>2. Len(<<>>) <= PipeCapacity
    BY <1>c
  <2> QED BY <2>1, <2>2 DEF ChannelsBounded
<1>6. ASSUME NEW s \in Stream, Receive(s) PROVE ChannelsBounded'
  BY <1>2, <1>6 DEF Receive
<1>7. ASSUME NEW w \in Worker, NEW s \in Stream, ForwardReply(w, s) PROVE ChannelsBounded'
  BY <1>2, <1>7 DEF ForwardReply
<1>8. ASSUME chan' = chan PROVE ChannelsBounded'
  BY <1>8 DEF ChannelsBounded
<1> QED
  BY <1>3, <1>4, <1>5, <1>6, <1>7, <1>8
  DEF Next, vars, PublishApplied, Elect, Learn, CoreStops, OrphanPopApplied, Subscribe,
      Disconnect, ProposePop, PopApplied, RetryPop, SendFails, ForwardPop, ForwardTimeout

(* A channel holds at most as many messages as it has items.               *)
LEMMA ContentsAreFinite ==
    ASSUME NEW c \in Seq(Message)
    PROVE  IsFiniteSet(Contents(c)) /\ Cardinality(Contents(c)) <= Len(c)
<1>1. Len(c) \in Nat /\ c \in [1..Len(c) -> Message] /\ DOMAIN c = 1..Len(c)
  BY LenProperties
<1>2. c \in Surjection(1..Len(c), Contents(c))
  BY <1>1 DEF Surjection, Contents
<1>3. IsFiniteSet(1..Len(c)) /\ Cardinality(1..Len(c)) = Len(c)
  BY <1>1, FS_Interval
<1> QED BY <1>2, <1>3, FS_Surjection

(* The streams and loops of a queue can be counted.                        *)
LEMMA CountsAreNumbers ==
    ASSUME NEW q
    PROVE  /\ IsFiniteSet(ClosedOf(q)) /\ Cardinality(ClosedOf(q)) \in Nat
           /\ IsFiniteSet(StoppedOf(q)) /\ Cardinality(StoppedOf(q)) \in Nat
<1>1. ClosedOf(q) \in SUBSET Stream /\ StoppedOf(q) \in SUBSET Worker
  BY DEF ClosedOf, StoppedOf
<1> QED BY <1>1, StreamsAreFinite, WorkersAreFinite, FS_Subset, FS_CardinalityType

(* A step that loses nothing and reopens nothing.                          *)
LEMMA QuietKeepsCount ==
    ASSUME LossIsCounted, Undisturbed' => Undisturbed, lost' = lost,
           \A s \in Stream : rx'[s] = "closed" <=> rx[s] = "closed",
           \A w \in Worker : pc'[w] = "stopped" <=> pc[w] = "stopped"
    PROVE  LossIsCounted'
<1>1. \A q \in Queue : ClosedOf(q)' = ClosedOf(q) /\ StoppedOf(q)' = StoppedOf(q)
  BY DEF ClosedOf, StoppedOf
<1> QED BY <1>1 DEF LossIsCounted

(* A dropped stream is one more closed stream, and loses its channel.      *)
LEMMA DropKeepsCount ==
    ASSUME Control, ChannelsBounded, LossIsCounted, NEW s \in Stream, StreamDropped(s),
           Undisturbed' => Undisturbed
    PROVE  LossIsCounted'
<1> SUFFICES ASSUME Undisturbed', NEW q \in Queue
             PROVE  /\ IsFiniteSet(lost'[q])
                    /\ Cardinality(lost'[q]) <= PipeCapacity * Cardinality(ClosedOf(q)')
                                                + Cardinality(StoppedOf(q)')
  BY DEF LossIsCounted
<1>1. /\ IsFiniteSet(lost[q]) /\ Cardinality(lost[q]) \in Nat
      /\ Cardinality(lost[q]) <= PipeCapacity * Cardinality(ClosedOf(q))
                                 + Cardinality(StoppedOf(q))
  BY FS_CardinalityType DEF LossIsCounted
<1>2. StoppedOf(q)' = StoppedOf(q)
  BY DEF StreamDropped, StoppedOf
<1>3. /\ Cardinality(ClosedOf(q)) \in Nat /\ IsFiniteSet(ClosedOf(q))
      /\ Cardinality(StoppedOf(q)) \in Nat /\ PipeCapacity \in Nat
  BY CountsAreNumbers, ParametersAreSound DEF PipeCapacity
<1>4. /\ rx[s] = "dropped" /\ rx'[s] = "closed" /\ \A t \in Stream \ {s} : rx'[t] = rx[t]
      /\ lost'[s.queue] = lost[s.queue] \cup Contents(chan[s])
      /\ \A r \in Queue \ {s.queue} : lost'[r] = lost[r]
      /\ chan[s] \in Seq(Message) /\ s.queue \in Queue
  BY StreamParts DEF StreamDropped, Control, TypeOK
<1>5. CASE q # s.queue
  <2>1. ClosedOf(q)' = ClosedOf(q)
    BY <1>4, <1>5 DEF ClosedOf
  <2> QED BY <1>1, <1>2, <1>4, <1>5, <2>1
<1>6. CASE q = s.queue
  <2>1. ClosedOf(q)' = ClosedOf(q) \cup {s} /\ s \notin ClosedOf(q)
    BY <1>4, <1>6 DEF ClosedOf
  <2>2. Cardinality(ClosedOf(q)') = Cardinality(ClosedOf(q)) + 1
    BY <1>3, <2>1, FS_AddElement
  <2>3. /\ IsFiniteSet(Contents(chan[s])) /\ Cardinality(Contents(chan[s])) <= PipeCapacity
        /\ Cardinality(Contents(chan[s])) \in Nat
    <3>1. Len(chan[s]) \in Nat /\ Len(chan[s]) <= PipeCapacity
      BY <1>4, LenProperties DEF ChannelsBounded
    <3> QED BY <1>3, <1>4, <3>1, ContentsAreFinite, FS_CardinalityType
  <2> DEFINE C == Contents(chan[s])
             L == lost[q]
  <2>4. /\ IsFiniteSet(L \cup C)
        /\ Cardinality(L \cup C) = Cardinality(L) + Cardinality(C) - Cardinality(L \cap C)
    BY <1>1, <2>3, FS_Union
  <2>5. Cardinality(L \cap C) \in Nat
    BY <1>1, FS_Subset, FS_CardinalityType
  <2>6. lost'[q] = L \cup C
    BY <1>4, <1>6
  <2>7. Cardinality(lost'[q]) <= Cardinality(L) + PipeCapacity
    BY <1>1, <1>3, <2>3, <2>4, <2>5, <2>6
  <2> HIDE DEF C, L
  <2>8. ASSUME NEW a \in Nat, NEW k \in Nat PROVE a * (k + 1) = a * k + a
    OBVIOUS
  <2>9. PipeCapacity * Cardinality(ClosedOf(q)')
            = PipeCapacity * Cardinality(ClosedOf(q)) + PipeCapacity
    BY <1>3, <2>2, <2>8
  <2>10. PipeCapacity * Cardinality(ClosedOf(q)) \in Nat
    BY <1>3
  <2>11. IsFiniteSet(lost'[q]) /\ Cardinality(lost'[q]) \in Nat
    BY <2>4, <2>6, FS_CardinalityType
  <2> QED BY <1>1, <1>2, <1>3, <2>7, <2>9, <2>10, <2>11 DEF L
<1> QED BY <1>5, <1>6

(* A loop that fails to send is one more that has stopped, and loses one   *)
(* message.                                                                *)
LEMMA SendFailureKeepsCount ==
    ASSUME Control, LossIsCounted, NEW w \in Worker, SendFails(w), Undisturbed' => Undisturbed
    PROVE  LossIsCounted'
<1> SUFFICES ASSUME Undisturbed', NEW q \in Queue
             PROVE  /\ IsFiniteSet(lost'[q])
                    /\ Cardinality(lost'[q]) <= PipeCapacity * Cardinality(ClosedOf(q)')
                                                + Cardinality(StoppedOf(q)')
  BY DEF LossIsCounted
<1>1. /\ IsFiniteSet(lost[q]) /\ Cardinality(lost[q]) \in Nat
      /\ Cardinality(lost[q]) <= PipeCapacity * Cardinality(ClosedOf(q))
                                 + Cardinality(StoppedOf(q))
  BY FS_CardinalityType DEF LossIsCounted
<1>2. ClosedOf(q)' = ClosedOf(q)
  BY DEF SendFails, ClosedOf
<1>3. /\ Cardinality(ClosedOf(q)) \in Nat /\ IsFiniteSet(StoppedOf(q))
      /\ Cardinality(StoppedOf(q)) \in Nat /\ PipeCapacity \in Nat
  BY CountsAreNumbers, ParametersAreSound DEF PipeCapacity
<1>4. PICK m \in Message : held[w] = {m}
  BY DEF SendFails, Control, HeldWhileSending, TypeOK
<1>5. /\ pc[w] = "send" /\ pc'[w] = "stopped" /\ \A v \in Worker \ {w} : pc'[v] = pc[v]
      /\ lost'[QueueOf(w)] = lost[QueueOf(w)] \cup {m}
      /\ \A r \in Queue \ {QueueOf(w)} : lost'[r] = lost[r]
  BY <1>4, WorkerParts DEF SendFails, Control, TypeOK
<1>6. CASE q # QueueOf(w)
  <2>1. StoppedOf(q)' = StoppedOf(q)
    BY <1>5, <1>6 DEF StoppedOf
  <2> QED BY <1>1, <1>2, <1>5, <1>6, <2>1
<1>7. CASE q = QueueOf(w)
  <2>1. StoppedOf(q)' = StoppedOf(q) \cup {w} /\ w \notin StoppedOf(q)
    BY <1>5, <1>7 DEF StoppedOf
  <2>2. Cardinality(StoppedOf(q)') = Cardinality(StoppedOf(q)) + 1
    BY <1>3, <2>1, FS_AddElement
  <2>3. /\ IsFiniteSet(lost'[q]) /\ Cardinality(lost'[q]) <= Cardinality(lost[q]) + 1
        /\ Cardinality(lost'[q]) \in Nat
    <3>1. lost'[q] = lost[q] \cup {m}
      BY <1>5, <1>7
    <3>2. /\ IsFiniteSet(lost[q] \cup {m})
          /\ Cardinality(lost[q] \cup {m}) = IF m \in lost[q] THEN Cardinality(lost[q])
                                                             ELSE Cardinality(lost[q]) + 1
      BY <1>1, FS_AddElement
    <3> QED BY <3>1, <3>2, <1>1
  <2>4. PipeCapacity * Cardinality(ClosedOf(q)) \in Nat
    BY <1>3
  <2> QED BY <1>1, <1>2, <1>3, <2>2, <2>3, <2>4
<1> QED BY <1>6, <1>7

(* While the leader stays and no node dies, only a dropped stream and the  *)
(* loops it had lose anything.                                             *)
LEMMA NextLossIsCounted ==
    Control /\ Lifecycle /\ LossInv /\ [Next]_vars => LossIsCounted'
<1> SUFFICES ASSUME Control, Lifecycle, LossInv, [Next]_vars PROVE LossIsCounted'
  OBVIOUS
<1>t. /\ elections \in Nat /\ crashes \in Nat
      /\ rx \in [Stream -> RxState] /\ pc \in [Worker -> WorkerState]
      /\ orphans \in [Queue -> Nat]
  BY DEF Control, TypeOK
<1>i. SteadyLeader /\ ChannelsBounded /\ LossIsCounted
  BY DEF LossInv
<1>u. ASSUME elections' = elections, crashes' = crashes PROVE Undisturbed' => Undisturbed
  BY <1>u DEF Undisturbed
<1>1. ASSUME NEW q \in Queue, NEW p \in Payload, PublishApplied(q, p) PROVE LossIsCounted'
  BY <1>1, <1>i, <1>u, QuietKeepsCount DEF PublishApplied, raftVars, faultVars
<1>2. ASSUME NEW n \in Node, Elect(n) PROVE LossIsCounted'
  <2>1. Undisturbed' => Undisturbed
    BY <1>2, <1>t DEF Elect, Undisturbed, faultVars
  <2> QED BY <1>2, <1>i, <2>1, QuietKeepsCount DEF Elect
<1>3. ASSUME NEW n \in Node, Learn(n) PROVE LossIsCounted'
  BY <1>3, <1>i, <1>u, QuietKeepsCount DEF Learn, faultVars
<1>4. ASSUME NEW n \in Node, Crash(n) \/ CoreStops(n) PROVE LossIsCounted'
  <2>1. ~ Undisturbed'
    BY <1>4, <1>t DEF Crash, CoreStops, Undisturbed
  <2> QED BY <2>1 DEF LossIsCounted
<1>5. ASSUME NEW q \in Queue, OrphanPopApplied(q) PROVE LossIsCounted'
  <2>1. elections' = elections /\ crashes' = crashes /\ orphans[q] > 0
    BY <1>5 DEF OrphanPopApplied, raftVars, faultVars
  <2>2. ~ Undisturbed
    BY <2>1, <1>i DEF SteadyLeader
  <2> QED BY <2>1, <2>2, <1>u DEF LossIsCounted
<1>6. ASSUME NEW s \in Stream, Subscribe(s) PROVE LossIsCounted'
  <2>1. /\ rx[s] = "unused" /\ rx'[s] = "client" /\ \A t \in Stream \ {s} : rx'[t] = rx[t]
        /\ \A w \in Worker : pc'[w] = IF w[1] = s THEN "propose" ELSE pc[w]
        /\ lost' = lost /\ elections' = elections /\ crashes' = crashes
    BY <1>6, <1>t DEF Subscribe, OpenStream, SpawnedBy, raftVars, faultVars
  <2>2. \A w \in Worker : w[1] = s => pc[w] = "off"
    BY <2>1 DEF Control, UnusedHasNoWorkers
  <2> QED BY <2>1, <2>2, <1>i, <1>u, QuietKeepsCount
<1>7. ASSUME NEW s \in Stream, StreamDropped(s) PROVE LossIsCounted'
  BY <1>7, <1>i, <1>u, DropKeepsCount DEF StreamDropped, raftVars, faultVars
<1>8. ASSUME NEW s \in Stream, Receive(s) PROVE LossIsCounted'
  BY <1>8, <1>i, <1>u, QuietKeepsCount DEF Receive, raftVars, faultVars
<1>9. ASSUME NEW s \in Stream, Disconnect(s) PROVE LossIsCounted'
  <2>1. /\ rx[s] = "client" /\ rx'[s] = "dropped" /\ \A t \in Stream \ {s} : rx'[t] = rx[t]
        /\ pc' = pc /\ lost' = lost /\ elections' = elections /\ crashes' = crashes
    BY <1>9, <1>t DEF Disconnect, raftVars
  <2> QED BY <2>1, <1>i, <1>u, QuietKeepsCount
<1>10. ASSUME NEW w \in Worker, ProposePop(w) \/ PopApplied(w) \/ RetryPop(w) \/ SendPopped(w)
       PROVE  LossIsCounted'
  <2>1. /\ pc[w] # "stopped" /\ pc'[w] # "stopped" /\ \A v \in Worker \ {w} : pc'[v] = pc[v]
        /\ rx' = rx /\ lost' = lost /\ elections' = elections /\ crashes' = crashes
    BY <1>10, <1>t DEF ProposePop, PopApplied, RetryPop, SendPopped, raftVars, faultVars
  <2> QED BY <2>1, <1>i, <1>u, QuietKeepsCount
<1>11. ASSUME NEW w \in Worker, SendFails(w) PROVE LossIsCounted'
  BY <1>11, <1>i, <1>u, SendFailureKeepsCount DEF SendFails, raftVars, faultVars
<1>12. ASSUME NEW w \in Worker, NEW s \in Stream, ForwardPop(w, s) PROVE LossIsCounted'
  <2>1. /\ rx[s] = "unused" /\ rx'[s] = "forward" /\ \A t \in Stream \ {s} : rx'[t] = rx[t]
        /\ lost' = lost /\ elections' = elections /\ crashes' = crashes
    BY <1>12, <1>t DEF ForwardPop, OpenStream, raftVars, faultVars
  <2>2. /\ pc[w] # "stopped" /\ pc'[w] = "await"
        /\ \A v \in Worker \ {w} : pc'[v] = IF v[1] = s THEN "propose" ELSE pc[v]
    BY <1>12, <1>t DEF ForwardPop, Refused, SpawnedBy
  <2>3. \A v \in Worker : v[1] = s => pc[v] = "off"
    BY <2>1 DEF Control, UnusedHasNoWorkers
  <2> QED BY <2>1, <2>2, <2>3, <1>i, <1>u, QuietKeepsCount
<1>13. ASSUME NEW w \in Worker, NEW s \in Stream, ForwardReply(w, s) PROVE LossIsCounted'
  <2>1. /\ pc[w] = "await" /\ pc'[w] = "send" /\ \A v \in Worker \ {w} : pc'[v] = pc[v]
        /\ rx'[s] = "dropped" /\ \A t \in Stream \ {s} : rx'[t] = rx[t]
        /\ lost' = lost /\ elections' = elections /\ crashes' = crashes /\ chan[s] # <<>>
    BY <1>13, <1>t DEF ForwardReply, raftVars, faultVars
  <2>2. rx[s] # "closed"
    BY <2>1 DEF Lifecycle, ShutIsEmpty
  <2> QED BY <2>1, <2>2, <1>i, <1>u, QuietKeepsCount
<1>14. ASSUME NEW w \in Worker, NEW s \in Stream, ForwardTimeout(w, s) PROVE LossIsCounted'
  <2>1. /\ pc[w] = "await" /\ pc'[w] = "propose" /\ \A v \in Worker \ {w} : pc'[v] = pc[v]
        /\ rx'[s] = (IF rx[s] = "closed" THEN "closed" ELSE "dropped")
        /\ \A t \in Stream \ {s} : rx'[t] = rx[t]
        /\ lost' = lost /\ elections' = elections /\ crashes' = crashes
    BY <1>14, <1>t DEF ForwardTimeout, raftVars, faultVars
  <2> QED BY <2>1, <1>i, <1>u, QuietKeepsCount
<1>15. CASE UNCHANGED vars
  BY <1>15, <1>i, <1>u, QuietKeepsCount DEF vars
<1> QED
  BY <1>1, <1>2, <1>3, <1>4, <1>5, <1>6, <1>7, <1>8, <1>9, <1>10, <1>11, <1>12, <1>13, <1>14,
     <1>15 DEF Next

(* A stream has POP_CONCURRENCY loops.                                     *)
LEMMA LoopNumbers ==
    IsFiniteSet(1..PopConcurrency) /\ Cardinality(1..PopConcurrency) = PopConcurrency
<1>1. 1 \in Int /\ PopConcurrency \in Int /\ PopConcurrency >= 1
  BY ParametersAreSound
<1>2. /\ IsFiniteSet(1..PopConcurrency)
      /\ Cardinality(1..PopConcurrency) = IF 1 > PopConcurrency THEN 0 ELSE PopConcurrency - 1 + 1
  BY <1>1, FS_Interval
<1> QED BY <1>1, <1>2

(* The loops that have stopped are those of closed streams, POP_CONCURRENCY*)
(* for each of them.                                                       *)
LEMMA CountedIsBounded ==
    ASSUME Lifecycle, LossIsCounted PROVE LossIsBounded
<1> SUFFICES ASSUME Undisturbed, NEW q \in Queue
             PROVE  Cardinality(lost[q]) <=
                        (PipeCapacity + PopConcurrency) * Cardinality(ClosedOf(q))
  BY DEF LossIsBounded, Undisturbed, ClosedOf
<1>1. /\ IsFiniteSet(lost[q]) /\ Cardinality(lost[q]) \in Nat
      /\ Cardinality(lost[q]) <= PipeCapacity * Cardinality(ClosedOf(q))
                                 + Cardinality(StoppedOf(q))
  BY FS_CardinalityType DEF LossIsCounted
<1>2. /\ IsFiniteSet(ClosedOf(q)) /\ Cardinality(ClosedOf(q)) \in Nat
      /\ Cardinality(StoppedOf(q)) \in Nat /\ PipeCapacity \in Nat /\ PopConcurrency \in Nat
      /\ PopConcurrency >= 1
  BY CountsAreNumbers, ParametersAreSound DEF PipeCapacity
<1>3. StoppedOf(q) \subseteq ClosedOf(q) \X (1..PopConcurrency)
  <2>1. ASSUME NEW w \in StoppedOf(q) PROVE w \in ClosedOf(q) \X (1..PopConcurrency)
    <3>1. w \in Worker /\ QueueOf(w) = q /\ rx[w[1]] = "closed"
      BY DEF StoppedOf, Lifecycle, StoppedIsClosed
    <3> QED BY <3>1 DEF ClosedOf, Worker, QueueOf
  <2> QED BY <2>1
<1>4. IsFiniteSet(1..PopConcurrency) /\ Cardinality(1..PopConcurrency) = PopConcurrency
  BY LoopNumbers
<1>5. /\ IsFiniteSet(ClosedOf(q) \X (1..PopConcurrency))
      /\ Cardinality(ClosedOf(q) \X (1..PopConcurrency)) = Cardinality(ClosedOf(q)) * PopConcurrency
  BY <1>2, <1>4, FS_Product
<1>6. Cardinality(StoppedOf(q)) <= Cardinality(ClosedOf(q)) * PopConcurrency
  BY <1>3, <1>5, FS_Subset
<1>7. ASSUME NEW a \in Nat, NEW b \in Nat, NEW k \in Nat PROVE (a + b) * k = a * k + k * b
  OBVIOUS
<1>8. (PipeCapacity + PopConcurrency) * Cardinality(ClosedOf(q))
        = PipeCapacity * Cardinality(ClosedOf(q)) + Cardinality(ClosedOf(q)) * PopConcurrency
  BY <1>2, <1>7
<1>9. /\ PipeCapacity * Cardinality(ClosedOf(q)) \in Nat
      /\ Cardinality(ClosedOf(q)) * PopConcurrency \in Nat
  BY <1>2
<1> QED BY <1>1, <1>2, <1>6, <1>8, <1>9

(* At first nothing is lost and nobody leads.                              *)
LEMMA InitLossInv == Init => LossInv
<1> SUFFICES ASSUME Init PROVE LossInv
  OBVIOUS
<1>1. /\ \A q \in Queue : orphans[q] = 0 /\ lost[q] = {}
      /\ \A w \in Worker : pc[w] = "off"
      /\ \A s \in Stream : chan[s] = <<>>
      /\ leader = {} /\ down = {} /\ \A n \in Node : known[n] = {}
  BY DEF Init
<1>2. SteadyLeader
  BY <1>1 DEF SteadyLeader
<1>3. ChannelsBounded
  <2>1. Len(<<>>) <= PipeCapacity
    BY ParametersAreSound DEF PipeCapacity
  <2> QED BY <1>1, <2>1 DEF ChannelsBounded
<1>4. LossIsCounted
  <2> SUFFICES ASSUME NEW q \in Queue
               PROVE  /\ IsFiniteSet(lost[q])
                      /\ Cardinality(lost[q]) <= PipeCapacity * Cardinality(ClosedOf(q))
                                                 + Cardinality(StoppedOf(q))
    BY DEF LossIsCounted
  <2>1. IsFiniteSet(lost[q]) /\ Cardinality(lost[q]) = 0
    BY <1>1, FS_EmptySet
  <2>2. /\ Cardinality(ClosedOf(q)) \in Nat /\ Cardinality(StoppedOf(q)) \in Nat
        /\ PipeCapacity \in Nat
    BY CountsAreNumbers, ParametersAreSound DEF PipeCapacity
  <2>3. PipeCapacity * Cardinality(ClosedOf(q)) \in Nat
    BY <2>2
  <2> QED BY <2>1, <2>2, <2>3
<1> QED BY <1>2, <1>3, <1>4 DEF LossInv

(* While the leader stays and no node dies, a stream that its reader drops *)
(* costs at most the capacity of its channel and of the wire, whatever     *)
(* that is, and one message for each of its loops, for any number of       *)
(* streams and any POP_CONCURRENCY.                                        *)
THEOREM DroppedStreamsCostLittle == Spec => []LossIsBounded
<1> DEFINE I == Control /\ Lifecycle /\ LossInv
<1>1. Init => I
  BY InitControl, InitLifecycle, InitLossInv
<1>2. I /\ [Next]_vars => I'
  BY NextControl, NextLifecycle, NextSteadyLeader, NextChannelsBounded, NextLossIsCounted DEF LossInv
<1>3. I => LossIsBounded
  BY CountedIsBounded DEF LossInv
<1> QED BY <1>1, <1>2, <1>3, PTL DEF Spec

-----------------------------------------------------------------------------
(* How far a message can be overtaken.                                     *)

LoopsOf(s) == {w \in Worker : w[1] = s}

(* What a consumer received and what is still to come, in order.           *)
Line(s) == delivered[s] \o chan[s]

OlderAfter(c, i) == {j \in DOMAIN c : j > i /\ c[j].offset < c[i].offset}

(* Of the loops of queue q only those in D may still bring a message older *)
(* than k: no other holds one, and no other awaits a stream that has one   *)
(* in its channel or may get one from a loop in D.                         *)
OthersAreNewer(q, k, D) ==
    \A w \in Worker \ D : QueueOf(w) = q =>
        /\ \A m \in held[w] : m.offset >= k
        /\ \A t \in awaits[w] : /\ \A m \in Contents(chan[t]) : m.offset >= k
                                /\ \A v \in D : v[1] # t

(* Every message on the line of s has been, or may still be, overtaken by  *)
(* at most one newer message per other loop of the stream.                 *)
FewOvertake(s) ==
    \A i \in DOMAIN Line(s) : \E D \in SUBSET Worker :
        /\ OthersAreNewer(s.queue, Line(s)[i].offset, D)
        /\ Cardinality(OlderAfter(Line(s), i)) + Cardinality(D \cap LoopsOf(s)) < PopConcurrency

OvertakenByFew == \A s \in Stream : rx[s] = "client" => FewOvertake(s)

(* A stream starts with nothing received.                                  *)
StartsAfresh == \A s \in Stream : rx[s] = "unused" => delivered[s] = <<>>

OrderInv == OvertakenByFew /\ StartsAfresh /\ ReorderIsBounded

(* The items after another one can be counted.                             *)
LEMMA OlderAreFinite ==
    ASSUME NEW c \in Seq(Message), NEW i
    PROVE  IsFiniteSet(OlderAfter(c, i)) /\ Cardinality(OlderAfter(c, i)) \in Nat
<1>1. Len(c) \in Nat /\ DOMAIN c = 1..Len(c)
  BY LenProperties
<1>2. IsFiniteSet(1..Len(c)) /\ OlderAfter(c, i) \in SUBSET (1..Len(c))
  BY <1>1, FS_Interval DEF OlderAfter
<1> QED BY <1>2, FS_Subset, FS_CardinalityType

(* An item at the end of a line overtakes nobody and may be older than     *)
(* those before it.                                                        *)
LEMMA OlderAfterAppend ==
    ASSUME NEW c \in Seq(Message), NEW m \in Message
    PROVE  /\ DOMAIN Append(c, m) = DOMAIN c \cup {Len(c) + 1}
           /\ Append(c, m)[Len(c) + 1] = m
           /\ OlderAfter(Append(c, m), Len(c) + 1) = {}
           /\ \A i \in DOMAIN c :
                /\ Append(c, m)[i] = c[i]
                /\ OlderAfter(Append(c, m), i)
                    = OlderAfter(c, i) \cup (IF m.offset < c[i].offset THEN {Len(c) + 1} ELSE {})
                /\ Len(c) + 1 \notin OlderAfter(c, i)
<1> DEFINE d == Append(c, m)
           n == Len(c) + 1
<1>1. Len(c) \in Nat /\ DOMAIN c = 1..Len(c) /\ DOMAIN d = 1..n /\ d[n] = m
  BY AppendProperties, LenProperties
<1>2. \A i \in 1..Len(c) : d[i] = c[i]
  BY AppendProperties
<1> HIDE DEF d
<1>3. DOMAIN d = DOMAIN c \cup {n}
  BY <1>1
<1>4. OlderAfter(d, n) = {}
  BY <1>1 DEF OlderAfter
<1>5. ASSUME NEW i \in DOMAIN c
      PROVE  /\ d[i] = c[i] /\ n \notin OlderAfter(c, i)
             /\ OlderAfter(d, i) = OlderAfter(c, i) \cup (IF m.offset < c[i].offset THEN {n} ELSE {})
  <2>1. d[i] = c[i] /\ n > i /\ n \notin DOMAIN c
    BY <1>1, <1>2
  <2>2. ASSUME NEW j
        PROVE  j \in OlderAfter(d, i) <=> j \in OlderAfter(c, i) \/ (j = n /\ m.offset < c[i].offset)
    <3>1. CASE j = n
      BY <3>1, <2>1, <1>1, <1>3 DEF OlderAfter
    <3>2. CASE j # n /\ j \in DOMAIN c
      <4>1. d[j] = c[j] /\ j \in DOMAIN d
        BY <3>2, <1>1, <1>2, <1>3
      <4> QED BY <3>2, <4>1, <2>1 DEF OlderAfter
    <3>3. CASE j # n /\ j \notin DOMAIN c
      BY <3>3, <1>3 DEF OlderAfter
    <3> QED BY <3>1, <3>2, <3>3
  <2>3. n \notin OlderAfter(c, i)
    BY <2>1 DEF OlderAfter
  <2> QED BY <2>1, <2>2, <2>3
<1> QED BY <1>1, <1>3, <1>4, <1>5 DEF d

(* Sending extends the line at its end; receiving leaves it as it is.      *)
LEMMA LineOfSent ==
    ASSUME NEW d \in Seq(Message), NEW c \in Seq(Message), NEW m \in Message
    PROVE  d \o Append(c, m) = Append(d \o c, m)
  OBVIOUS

LEMMA LineOfReceived ==
    ASSUME NEW d \in Seq(Message), NEW c \in Seq(Message), c # <<>>
    PROVE  Append(d, Head(c)) \o Tail(c) = d \o c
<1> DEFINE a == Append(d, Head(c))
           t == Tail(c)
<1>1. /\ Head(c) \in Message /\ t \in Seq(Message) /\ Len(t) = Len(c) - 1
      /\ \A i \in 1..Len(t) : t[i] = c[i + 1]
      /\ Head(c) = c[1]
  BY HeadTailProperties
<1>2. a \in Seq(Message) /\ Len(a) = Len(d) + 1 /\ a[Len(d) + 1] = c[1]
  BY <1>1, AppendProperties
<1>3. \A i \in 1..Len(d) : a[i] = d[i]
  BY <1>1, AppendProperties
<1>4. Len(c) \in Nat /\ Len(d) \in Nat /\ Len(c) >= 1
  BY LenProperties, EmptySeq
<1> HIDE DEF a, t
<1>5. /\ a \o t \in Seq(Message) /\ Len(a \o t) = Len(a) + Len(t)
      /\ \A i \in 1..(Len(a) + Len(t)) :
            (a \o t)[i] = IF i <= Len(a) THEN a[i] ELSE t[i - Len(a)]
  BY <1>1, <1>2, ConcatProperties
<1>6. /\ d \o c \in Seq(Message) /\ Len(d \o c) = Len(d) + Len(c)
      /\ \A i \in 1..(Len(d) + Len(c)) :
            (d \o c)[i] = IF i <= Len(d) THEN d[i] ELSE c[i - Len(d)]
  BY ConcatProperties
<1>7. Len(a \o t) = Len(d \o c)
  BY <1>1, <1>2, <1>4, <1>5, <1>6
<1>8. ASSUME NEW i \in 1..Len(a \o t) PROVE (a \o t)[i] = (d \o c)[i]
  <2>1. i \in 1..(Len(a) + Len(t)) /\ i \in 1..(Len(d) + Len(c)) /\ i \in Nat
    BY <1>1, <1>2, <1>4, <1>5, <1>6
  <2>2. CASE i <= Len(d)
    <3>1. (d \o c)[i] = d[i] /\ (a \o t)[i] = a[i] /\ i \in 1..Len(d)
      BY <2>1, <2>2, <1>2, <1>4, <1>5, <1>6
    <3> QED BY <3>1, <1>3
  <2>3. CASE i = Len(d) + 1
    <3>1. (d \o c)[i] = c[i - Len(d)] /\ (a \o t)[i] = a[i] /\ i - Len(d) = 1
      BY <2>1, <2>3, <1>2, <1>4, <1>5, <1>6
    <3> QED BY <3>1, <2>3, <1>2
  <2>4. CASE i > Len(d) + 1
    <3>1. (d \o c)[i] = c[i - Len(d)] /\ (a \o t)[i] = t[i - Len(a)]
      BY <2>1, <2>4, <1>2, <1>4, <1>5, <1>6
    <3>2. i - Len(a) \in 1..Len(t) /\ (i - Len(a)) + 1 = i - Len(d)
      BY <2>1, <2>4, <1>1, <1>2, <1>4
    <3> QED BY <3>1, <3>2, <1>1
  <2> QED BY <2>1, <2>2, <2>3, <2>4, <1>4
<1>9. a \o t = d \o c
  BY <1>5, <1>6, <1>7, <1>8, SeqEqual
<1> QED BY <1>9 DEF a, t

(* What was received is overtaken no more often than the whole line.       *)
LEMMA ReceivedPart ==
    ASSUME NEW d \in Seq(Message), NEW c \in Seq(Message), NEW i \in DOMAIN d
    PROVE  i \in DOMAIN (d \o c) /\ Cardinality(OlderAfter(d, i)) <= Cardinality(OlderAfter(d \o c, i))
<1>1. Len(c) \in Nat /\ Len(d) \in Nat /\ DOMAIN d = 1..Len(d)
  BY LenProperties
<1> DEFINE l == d \o c
<1>2. l \in Seq(Message) /\ Len(l) = Len(d) + Len(c) /\ DOMAIN l = 1..Len(l)
  BY ConcatProperties, LenProperties
<1>3. \A j \in 1..(Len(d) + Len(c)) : l[j] = IF j <= Len(d) THEN d[j] ELSE c[j - Len(d)]
  BY ConcatProperties
<1> HIDE DEF l
<1>4. \A j \in DOMAIN d : j \in DOMAIN l /\ l[j] = d[j]
  BY <1>1, <1>2, <1>3
<1>5. OlderAfter(d, i) \in SUBSET OlderAfter(l, i)
  BY <1>4 DEF OlderAfter
<1> QED BY <1>2, <1>4, <1>5, OlderAreFinite, FS_Subset DEF l

(* The line of a stream has messages on it that are behind the front.      *)
LEMMA LineParts ==
    ASSUME Control, Placed, NEW s \in Stream
    PROVE  /\ Line(s) \in Seq(Message) /\ chan[s] \in Seq(Message) /\ delivered[s] \in Seq(Message)
           /\ \A i \in DOMAIN Line(s) : /\ Line(s)[i].offset \in Nat
                                        /\ Line(s)[i].offset < FrontOffset(state, s.queue)
<1>1. chan[s] \in Seq(Message) /\ delivered[s] \in Seq(Message)
  BY DEF Control, TypeOK
<1> DEFINE d == delivered[s]
           c == chan[s]
           l == d \o c
<1>2. /\ Len(c) \in Nat /\ DOMAIN c = 1..Len(c) /\ Len(d) \in Nat /\ DOMAIN d = 1..Len(d)
  BY <1>1, LenProperties
<1>3. l \in Seq(Message) /\ Len(l) = Len(d) + Len(c) /\ DOMAIN l = 1..Len(l)
  BY <1>1, ConcatProperties, LenProperties
<1>4. \A j \in 1..(Len(d) + Len(c)) : l[j] = IF j <= Len(d) THEN d[j] ELSE c[j - Len(d)]
  BY <1>1, ConcatProperties
<1>5. s.queue \in Queue
  BY StreamParts
<1>6. \A x \in Contents(c) \cup Contents(d) : x.offset \in Nat /\ x.offset < FrontOffset(state, s.queue)
  BY <1>5, PlacesHoldMessages DEF Control, Placed, PoppedIsBehind
<1> HIDE DEF l, c, d
<1>7. ASSUME NEW i \in DOMAIN l PROVE l[i] \in Contents(c) \cup Contents(d)
  <2>1. CASE i <= Len(d)
    BY <2>1, <1>2, <1>3, <1>4 DEF Contents
  <2>2. CASE ~(i <= Len(d))
    <3>1. l[i] = c[i - Len(d)] /\ i - Len(d) \in DOMAIN c
      BY <2>2, <1>2, <1>3, <1>4
    <3> QED BY <3>1 DEF Contents
  <2> QED BY <2>1, <2>2
<1> QED BY <1>1, <1>3, <1>6, <1>7 DEF Line, l, c, d

(* A step that gives no loop anything older than what is on the lines, and *)
(* leaves the line of s as it is.                                          *)
LEMMA KeepsFewOvertake ==
    ASSUME Control, Placed, NEW s \in Stream, FewOvertake(s), Line(s)' = Line(s),
           \A q \in Queue, k \in Nat, D \in SUBSET Worker :
                OthersAreNewer(q, k, D) /\ k < FrontOffset(state, q) => OthersAreNewer(q, k, D)'
    PROVE  FewOvertake(s)'
<1> SUFFICES ASSUME NEW i \in DOMAIN Line(s)'
             PROVE  \E D \in SUBSET Worker :
                        /\ OthersAreNewer(s.queue, Line(s)[i].offset, D)'
                        /\ Cardinality(OlderAfter(Line(s)', i)) + Cardinality(D \cap LoopsOf(s))
                                < PopConcurrency
  BY DEF FewOvertake, LoopsOf, OlderAfter
<1>1. i \in DOMAIN Line(s)
  OBVIOUS
<1>2. PICK D \in SUBSET Worker :
            /\ OthersAreNewer(s.queue, Line(s)[i].offset, D)
            /\ Cardinality(OlderAfter(Line(s), i)) + Cardinality(D \cap LoopsOf(s)) < PopConcurrency
  BY <1>1 DEF FewOvertake
<1>3. PICK k : k = Line(s)[i].offset
  OBVIOUS
<1>4. k \in Nat /\ k < FrontOffset(state, s.queue) /\ s.queue \in Queue
  BY <1>1, <1>3, LineParts, StreamParts
<1>5. OthersAreNewer(s.queue, k, D)'
  BY <1>2, <1>3, <1>4
<1>6. k = Line(s)'[i].offset
  BY <1>1, <1>3
<1> QED BY <1>2, <1>5, <1>6

(* Having less to bring brings nothing older.                              *)
LEMMA LessIsNewer ==
    ASSUME Control,
           \A w \in Worker : held'[w] \subseteq held[w] /\ awaits'[w] \subseteq awaits[w],
           \A t \in Stream : Contents(chan'[t]) \subseteq Contents(chan[t])
    PROVE  \A q \in Queue, k \in Nat, D \in SUBSET Worker :
                OthersAreNewer(q, k, D) => OthersAreNewer(q, k, D)'
<1>1. \A w \in Worker : awaits[w] \in SUBSET Stream
  BY DEF Control, TypeOK
<1> SUFFICES ASSUME NEW q \in Queue, NEW k \in Nat, NEW D \in SUBSET Worker, OthersAreNewer(q, k, D),
                    NEW w \in Worker \ D, QueueOf(w) = q
             PROVE  /\ \A m \in held'[w] : m.offset >= k
                    /\ \A t \in awaits'[w] : /\ \A m \in Contents(chan'[t]) : m.offset >= k
                                             /\ \A v \in D : v[1] # t
  BY DEF OthersAreNewer, Contents, QueueOf
<1>2. /\ \A m \in held[w] : m.offset >= k
      /\ \A t \in awaits[w] : /\ \A m \in Contents(chan[t]) : m.offset >= k
                              /\ \A v \in D : v[1] # t
  BY DEF OthersAreNewer
<1> QED BY <1>1, <1>2

(* A popped message is newer than any that was popped before it.           *)
LEMMA PopIsNewer ==
    ASSUME Control, Placed, NEW w \in Worker, PopApplied(w)
    PROVE  \A q \in Queue, k \in Nat, D \in SUBSET Worker :
                OthersAreNewer(q, k, D) /\ k < FrontOffset(state, q) => OthersAreNewer(q, k, D)'
<1> SUFFICES ASSUME NEW q \in Queue, NEW k \in Nat, NEW D \in SUBSET Worker, OthersAreNewer(q, k, D),
                    k < FrontOffset(state, q), NEW v \in Worker \ D, QueueOf(v) = q
             PROVE  /\ \A m \in held'[v] : m.offset >= k
                    /\ \A t \in awaits'[v] : /\ \A m \in Contents(chan'[t]) : m.offset >= k
                                             /\ \A u \in D : u[1] # t
  BY DEF OthersAreNewer, Contents, QueueOf
<1>1. /\ \A m \in held[v] : m.offset >= k
      /\ \A t \in awaits'[v] : /\ \A m \in Contents(chan'[t]) : m.offset >= k
                               /\ \A u \in D : u[1] # t
  <2>1. awaits' = awaits /\ chan' = chan
    BY DEF PopApplied
  <2> QED BY <2>1 DEF OthersAreNewer
<1>2. /\ held'[w] = PoppedBy(state, QueueOf(w)) /\ \A u \in Worker \ {w} : held'[u] = held[u]
      /\ state \in QueueStates /\ Contiguous(state)
  BY DEF PopApplied, Control, TypeOK, Placed
<1>3. CASE v # w
  BY <1>1, <1>2, <1>3
<1>4. CASE v = w /\ state.queues[q] = <<>>
  <2>1. PoppedBy(state, q) = {}
    BY <1>2, <1>4, PopOfEmpty
  <2> QED BY <1>1, <1>2, <1>4, <2>1
<1>5. CASE v = w /\ state.queues[q] # <<>>
  <2>1. /\ PoppedBy(state, q) = {Head(state.queues[q])}
        /\ Head(state.queues[q]).offset = FrontOffset(state, q)
        /\ FrontOffset(state, q) \in Nat
    BY <1>2, <1>5, PopKeepsContiguous
  <2>2. \A m \in held'[v] : m.offset >= k
    BY <1>2, <1>5, <2>1
  <2> QED BY <1>1, <2>2
<1> QED BY <1>3, <1>4, <1>5

(* What a forward hands over was in the channel it awaited.                *)
LEMMA ReplyIsNewer ==
    ASSUME Control, Placed, NEW w \in Worker, NEW s \in Stream, ForwardReply(w, s)
    PROVE  \A q \in Queue, k \in Nat, D \in SUBSET Worker :
                OthersAreNewer(q, k, D) => OthersAreNewer(q, k, D)'
<1>1. /\ held'[w] = {Head(chan[s])} /\ \A v \in Worker \ {w} : held'[v] = held[v]
      /\ awaits[w] = {s} /\ awaits'[w] = {} /\ \A v \in Worker \ {w} : awaits'[v] = awaits[v]
      /\ chan[s] \in Seq(Message) /\ chan[s] # <<>>
      /\ chan'[s] = Tail(chan[s]) /\ \A t \in Stream \ {s} : chan'[t] = chan[t]
  BY DEF ForwardReply, Control, TypeOK
<1>2. Contents(chan[s]) = Contents(chan'[s]) \cup {Head(chan[s])}
  BY <1>1, ContentsOfTail DEF Placed, StreamsWithoutRepeat
<1>3. \A t \in Stream : Contents(chan'[t]) \subseteq Contents(chan[t])
  BY <1>1, <1>2
<1>4. \A v \in Worker : awaits[v] \in SUBSET Stream
  BY DEF Control, TypeOK
<1> SUFFICES ASSUME NEW q \in Queue, NEW k \in Nat, NEW D \in SUBSET Worker, OthersAreNewer(q, k, D),
                    NEW v \in Worker \ D, QueueOf(v) = q
             PROVE  /\ \A m \in held'[v] : m.offset >= k
                    /\ \A t \in awaits'[v] : /\ \A m \in Contents(chan'[t]) : m.offset >= k
                                             /\ \A u \in D : u[1] # t
  BY DEF OthersAreNewer, Contents, QueueOf
<1>5. /\ \A m \in held[v] : m.offset >= k
      /\ \A t \in awaits[v] : /\ \A m \in Contents(chan[t]) : m.offset >= k
                              /\ \A u \in D : u[1] # t
  BY DEF OthersAreNewer
<1>6. CASE v # w
  BY <1>1, <1>3, <1>4, <1>5, <1>6
<1>7. CASE v = w
  <2>1. Head(chan[s]).offset >= k
    BY <1>1, <1>2, <1>5, <1>7
  <2> QED BY <1>1, <1>7, <2>1
<1> QED BY <1>6, <1>7

(* What a loop sends it held, and whoever awaits its stream knew of it.    *)
LEMMA SendIsNewer ==
    ASSUME Control, NEW w \in Worker, SendPopped(w)
    PROVE  \A q \in Queue, k \in Nat, D \in SUBSET Worker :
                OthersAreNewer(q, k, D) => OthersAreNewer(q, k, D)'
<1> DEFINE s == w[1]
<1>1. PICK m \in Message : held[w] = {m}
  BY DEF SendPopped, Control, HeldWhileSending, TypeOK
<1>2. s \in Stream /\ chan[s] \in Seq(Message) /\ s.queue = QueueOf(w)
  BY WorkerParts DEF Control, TypeOK, QueueOf
<1>3. /\ held'[w] = {} /\ \A v \in Worker \ {w} : held'[v] = held[v]
      /\ awaits' = awaits
      /\ chan'[s] = Append(chan[s], m) /\ \A t \in Stream \ {s} : chan'[t] = chan[t]
  BY <1>1, <1>2 DEF SendPopped, Control, TypeOK
<1>4. Contents(chan'[s]) = Contents(chan[s]) \cup {m}
  BY <1>2, <1>3, ContentsOfAppend
<1>5. w[1] = s
  OBVIOUS
<1>6. \A v \in Worker : awaits[v] \in SUBSET Stream
  BY DEF Control, TypeOK
<1> HIDE DEF s
<1> SUFFICES ASSUME NEW q \in Queue, NEW k \in Nat, NEW D \in SUBSET Worker, OthersAreNewer(q, k, D),
                    NEW v \in Worker \ D, QueueOf(v) = q
             PROVE  /\ \A x \in held'[v] : x.offset >= k
                    /\ \A t \in awaits'[v] : /\ \A x \in Contents(chan'[t]) : x.offset >= k
                                             /\ \A u \in D : u[1] # t
  BY DEF OthersAreNewer, Contents, QueueOf
<1>7. \A u \in Worker \ D : QueueOf(u) = q =>
        /\ \A x \in held[u] : x.offset >= k
        /\ \A t \in awaits[u] : /\ \A x \in Contents(chan[t]) : x.offset >= k
                                /\ \A y \in D : y[1] # t
  BY DEF OthersAreNewer
<1>8. \A x \in held'[v] : x.offset >= k
  BY <1>3, <1>7
<1>9. ASSUME NEW t \in awaits[v] PROVE \A x \in Contents(chan'[t]) : x.offset >= k
  <2>1. CASE t # s
    BY <2>1, <1>3, <1>6, <1>7
  <2>2. CASE t = s
    <3>1. w \notin D
      BY <2>2, <1>5, <1>7
    <3>2. QueueOf(w) = q
      BY <2>2, <1>2 DEF Control, AwaitsOwnQueue
    <3>3. m.offset >= k
      BY <3>1, <3>2, <1>1, <1>7
    <3> QED BY <2>2, <3>3, <1>4, <1>7
  <2> QED BY <2>1, <2>2
<1> QED BY <1>3, <1>7, <1>8, <1>9

(* A stream has at most POP_CONCURRENCY loops.                             *)
LEMMA LoopsAreFew ==
    ASSUME NEW s \in Stream
    PROVE  IsFiniteSet(LoopsOf(s)) /\ Cardinality(LoopsOf(s)) <= PopConcurrency
<1>1. LoopsOf(s) \in SUBSET ({s} \X (1..PopConcurrency))
  BY DEF LoopsOf, Worker
<1>2. IsFiniteSet({s}) /\ Cardinality({s}) = 1
  BY FS_Singleton
<1>3. /\ IsFiniteSet({s} \X (1..PopConcurrency))
      /\ Cardinality({s} \X (1..PopConcurrency)) = Cardinality({s}) * Cardinality(1..PopConcurrency)
  <2>1. IsFiniteSet(1..PopConcurrency)
    BY LoopNumbers
  <2> QED BY <1>2, <2>1, FS_Product
<1>4. PopConcurrency \in Nat /\ Cardinality(1..PopConcurrency) = PopConcurrency
  BY ParametersAreSound, LoopNumbers
<1>5. Cardinality({s}) * Cardinality(1..PopConcurrency) = PopConcurrency
  BY <1>2, <1>4
<1>6. IsFiniteSet(LoopsOf(s)) /\ Cardinality(LoopsOf(s)) <= Cardinality({s} \X (1..PopConcurrency))
  BY <1>1, <1>3, FS_Subset
<1> QED BY <1>3, <1>5, <1>6

(* A message that is sent may be older than some of those before it: then  *)
(* its loop was one of the few that might bring one, and is not any more.  *)
(* The others are all that can overtake the message itself.                *)
LEMMA SendKeepsFewOvertake ==
    ASSUME Control, Placed, Lifecycle, NEW w \in Worker, SendPopped(w), FewOvertake(w[1])
    PROVE  FewOvertake(w[1])'
<1> DEFINE s == w[1]
           q == s.queue
<1>1. PICK m \in Message : held[w] = {m}
  BY DEF SendPopped, Control, HeldWhileSending, TypeOK
<1>2. s \in Stream /\ q \in Queue /\ q = QueueOf(w)
  BY WorkerParts DEF QueueOf
<1>3. /\ Line(s) \in Seq(Message) /\ chan[s] \in Seq(Message) /\ delivered[s] \in Seq(Message)
      /\ \A i \in DOMAIN Line(s) : Line(s)[i].offset \in Nat
  BY <1>2, LineParts
<1>4. Line(s)' = Append(Line(s), m)
  <2>1. chan'[s] = Append(chan[s], m) /\ delivered' = delivered
    BY <1>1, <1>2 DEF SendPopped, Control, TypeOK
  <2>2. Line(s)' = delivered'[s] \o chan'[s]
    BY DEF Line
  <2>3. delivered[s] \o Append(chan[s], m) = Append(delivered[s] \o chan[s], m)
    BY <1>3, LineOfSent
  <2> HIDE DEF s
  <2> QED BY <2>1, <2>2, <2>3 DEF Line
<1>5. /\ held'[w] = {} /\ awaits'[w] = {} /\ \A v \in Worker \ {w} : held'[v] = held[v]
      /\ awaits' = awaits
  <2>1. awaits[w] = {}
    BY DEF SendPopped, Lifecycle, AwaitsElsewhere
  <2> QED BY <2>1 DEF SendPopped, Control, TypeOK
<1>6. FewOvertake(s) /\ w \in LoopsOf(s) /\ m.offset \in Nat
  BY DEF LoopsOf, Message
<1>7. IsFiniteSet(LoopsOf(s)) /\ Cardinality(LoopsOf(s)) <= PopConcurrency /\ PopConcurrency \in Nat
  BY <1>2, LoopsAreFew, ParametersAreSound
<1> HIDE DEF s, q
<1>8. SUFFICES ASSUME NEW i \in DOMAIN Line(s)'
               PROVE  \E D \in SUBSET Worker :
                        /\ OthersAreNewer(s.queue, Line(s)[i].offset, D)'
                        /\ Cardinality(OlderAfter(Line(s)', i)) + Cardinality(D \cap LoopsOf(s))
                                < PopConcurrency
  BY DEF FewOvertake, LoopsOf, OlderAfter, s
<1>9. CASE i = Len(Line(s)) + 1
  <2> DEFINE D == Worker \ {w}
  <2>1. Line(s)'[i] = m /\ OlderAfter(Line(s)', i) = {}
    BY <1>3, <1>4, <1>9, OlderAfterAppend
  <2>2. \A k : OthersAreNewer(s.queue, k, D)'
    BY <1>5 DEF OthersAreNewer
  <2>3. Cardinality(D \cap LoopsOf(s)) < PopConcurrency /\ Cardinality(D \cap LoopsOf(s)) \in Nat
    <3>1. D \cap LoopsOf(s) = LoopsOf(s) \ {w}
      BY DEF LoopsOf
    <3>2. /\ IsFiniteSet(LoopsOf(s) \ {w}) /\ Cardinality(LoopsOf(s)) \in Nat
          /\ Cardinality(LoopsOf(s) \ {w}) = Cardinality(LoopsOf(s)) - 1
      BY <1>6, <1>7, FS_RemoveElement, FS_CardinalityType
    <3>3. Cardinality(LoopsOf(s) \ {w}) \in Nat
      BY <3>2, FS_CardinalityType
    <3> QED BY <3>1, <3>2, <3>3, <1>7
  <2>4. Cardinality(OlderAfter(Line(s)', i)) = 0
    BY <2>1, FS_EmptySet
  <2> HIDE DEF D
  <2>5. OthersAreNewer(s.queue, Line(s)[i].offset, D)'
    BY <2>2
  <2>6. D \in SUBSET Worker
    BY DEF D
  <2>7. Cardinality(OlderAfter(Line(s)', i)) + Cardinality(D \cap LoopsOf(s)) < PopConcurrency
    BY <2>3, <2>4
  <2> QED BY <2>5, <2>6, <2>7
<1>10. CASE i # Len(Line(s)) + 1
  <2>1. i \in DOMAIN Line(s) /\ Line(s)'[i] = Line(s)[i]
    BY <1>1, <1>3, <1>4, <1>8, <1>10, OlderAfterAppend
  <2>2. PICK k : k = Line(s)[i].offset
    OBVIOUS
  <2>3. /\ OlderAfter(Line(s)', i) = OlderAfter(Line(s), i)
                                     \cup (IF m.offset < k THEN {Len(Line(s)) + 1} ELSE {})
        /\ Len(Line(s)) + 1 \notin OlderAfter(Line(s), i)
    BY <1>1, <1>3, <1>4, <2>1, <2>2, OlderAfterAppend
  <2>4. PICK D \in SUBSET Worker :
            /\ OthersAreNewer(s.queue, k, D)
            /\ Cardinality(OlderAfter(Line(s), i)) + Cardinality(D \cap LoopsOf(s)) < PopConcurrency
    BY <1>6, <2>1, <2>2 DEF FewOvertake
  <2>5. k \in Nat /\ k = Line(s)'[i].offset
    BY <1>3, <2>1, <2>2
  <2>6. OthersAreNewer(q, k, D)' /\ s.queue = q
    BY <1>2, <2>4, <2>5, SendIsNewer DEF q
  <2>7. CASE ~(m.offset < k)
    <3>1. OlderAfter(Line(s)', i) = OlderAfter(Line(s), i)
      BY <2>3, <2>7
    <3> QED BY <3>1, <2>4, <2>5, <2>6
  <2>8. CASE m.offset < k
    <3> DEFINE E == D \ {w}
    <3>1. w \in D
      BY <1>1, <1>2, <1>6, <2>4, <2>5, <2>6, <2>8 DEF OthersAreNewer
    <3>2. OthersAreNewer(q, k, E)'
      <4> SUFFICES ASSUME NEW v \in Worker \ E, QueueOf(v) = q
                   PROVE  /\ \A x \in held'[v] : x.offset >= k
                          /\ \A t \in awaits'[v] : /\ \A x \in Contents(chan'[t]) : x.offset >= k
                                                   /\ \A u \in E : u[1] # t
        BY DEF OthersAreNewer, Contents, QueueOf
      <4>1. CASE v = w
        BY <4>1, <1>5
      <4>2. CASE v # w
        <5>1. v \in Worker \ D
          BY <4>2
        <5>2. /\ \A x \in held'[v] : x.offset >= k
              /\ \A t \in awaits'[v] : /\ \A x \in Contents(chan'[t]) : x.offset >= k
                                       /\ \A u \in D : u[1] # t
          BY <5>1, <2>6 DEF OthersAreNewer, Contents, QueueOf
        <5> QED BY <5>2
      <4> QED BY <4>1, <4>2
    <3>3. /\ IsFiniteSet(D \cap LoopsOf(s)) /\ Cardinality(D \cap LoopsOf(s)) \in Nat
          /\ w \in D \cap LoopsOf(s)
      BY <1>6, <1>7, <3>1, FS_Subset, FS_CardinalityType
    <3>4. E \cap LoopsOf(s) = (D \cap LoopsOf(s)) \ {w}
      OBVIOUS
    <3>5. Cardinality(E \cap LoopsOf(s)) = Cardinality(D \cap LoopsOf(s)) - 1
      <4> DEFINE L == D \cap LoopsOf(s)
      <4>1. IsFiniteSet(L) /\ w \in L /\ E \cap LoopsOf(s) = L \ {w}
        BY <3>3, <3>4
      <4> HIDE DEF L, E
      <4>2. Cardinality(L \ {w}) = Cardinality(L) - 1
        BY <4>1, FS_RemoveElement
      <4> QED BY <4>1, <4>2 DEF L
    <3>6. IsFiniteSet(OlderAfter(Line(s), i)) /\ Cardinality(OlderAfter(Line(s), i)) \in Nat
      BY <1>3, OlderAreFinite
    <3>7. Cardinality(OlderAfter(Line(s)', i)) = Cardinality(OlderAfter(Line(s), i)) + 1
      <4>1. OlderAfter(Line(s)', i) = OlderAfter(Line(s), i) \cup {Len(Line(s)) + 1}
        BY <2>3, <2>8
      <4> QED BY <2>3, <3>6, <4>1, FS_AddElement
    <3>8. Cardinality(OlderAfter(Line(s)', i)) + Cardinality(E \cap LoopsOf(s)) < PopConcurrency
      BY <2>4, <3>3, <3>5, <3>6, <3>7, <1>7
    <3> HIDE DEF E
    <3>9. E \in SUBSET Worker
      BY DEF E
    <3> QED BY <2>5, <2>6, <3>2, <3>8, <3>9
  <2> QED BY <2>7, <2>8
<1> QED BY <1>9, <1>10

(* A step gives no other loop anything older than what has been popped.    *)
NewerKept ==
    \A q \in Queue, k \in Nat, D \in SUBSET Worker :
        OthersAreNewer(q, k, D) /\ k < FrontOffset(state, q) => OthersAreNewer(q, k, D)'

(* Such a step keeps the order when no consumer's line changes.            *)
LEMMA SameLinesKeepOrder ==
    ASSUME Control, Placed, OvertakenByFew, NewerKept,
           \A s \in Stream : rx'[s] = "client" => rx[s] = "client" /\ Line(s)' = Line(s)
    PROVE  OvertakenByFew'
<1> SUFFICES ASSUME NEW s \in Stream, rx'[s] = "client" PROVE FewOvertake(s)'
  BY DEF OvertakenByFew
<1>1. rx[s] = "client" /\ Line(s)' = Line(s)
  OBVIOUS
<1>2. FewOvertake(s)
  BY <1>1 DEF OvertakenByFew
<1> QED BY <1>1, <1>2, KeepsFewOvertake DEF NewerKept

(* A step that takes from loops, forwards and channels, or nothing at all. *)
LEMMA TakingKeepsNewer ==
    ASSUME Control,
           \A w \in Worker : held'[w] \subseteq held[w] /\ awaits'[w] \subseteq awaits[w],
           \A t \in Stream : Contents(chan'[t]) \subseteq Contents(chan[t])
    PROVE  NewerKept
  BY LessIsNewer DEF NewerKept

(* A stream that is opened has nothing in it, and its loops nothing to     *)
(* bring: they drop out of those that might bring an older message, and    *)
(* the loop that opened it awaits only newer ones.                         *)
LEMMA OpeningIsNewer ==
    ASSUME Control, Lifecycle, NEW w \in Worker, NEW t \in Stream, ForwardPop(w, t),
           NEW q \in Queue, NEW k \in Nat, NEW D \in SUBSET Worker, OthersAreNewer(q, k, D)
    PROVE  OthersAreNewer(q, k, D \ LoopsOf(t))'
<1> DEFINE E == D \ LoopsOf(t)
<1>1. /\ held' = held /\ chan' = chan
      /\ awaits'[w] = {t} /\ \A v \in Worker \ {w} : awaits'[v] = awaits[v]
      /\ rx[t] = "unused" /\ pc[w] \in {"propose", "commit"}
  BY DEF ForwardPop, Refused, OpenStream, Control, TypeOK
<1>2. chan[t] = <<>>
  BY <1>1 DEF Lifecycle, ShutIsEmpty
<1>3. \A u \in LoopsOf(t) : u # w /\ held[u] = {} /\ awaits[u] = {}
  <2> SUFFICES ASSUME NEW u \in LoopsOf(t) PROVE u # w /\ held[u] = {} /\ awaits[u] = {}
    OBVIOUS
  <2>1. u \in Worker /\ pc[u] = "off"
    BY <1>1 DEF LoopsOf, Control, UnusedHasNoWorkers
  <2> QED BY <1>1, <2>1 DEF Control, HeldWhileSending, Lifecycle, AwaitsElsewhere
<1>4. \A u \in E : u[1] # t /\ u \in D
  BY DEF LoopsOf
<1> HIDE DEF E
<1>5. ASSUME NEW v \in Worker \ E, QueueOf(v) = q
      PROVE  /\ \A m \in held'[v] : m.offset >= k
             /\ \A s \in awaits'[v] : /\ \A m \in Contents(chan'[s]) : m.offset >= k
                                      /\ \A u \in E : u[1] # s
  <2>1. CASE v \in LoopsOf(t)
    <3>1. held'[v] = {} /\ awaits'[v] = {}
      BY <2>1, <1>1, <1>3
    <3> QED BY <3>1
  <2>2. CASE v \notin LoopsOf(t)
    <3>1. v \in Worker \ D
      BY <2>2 DEF E
    <3>2. /\ \A m \in held[v] : m.offset >= k
          /\ \A s \in awaits[v] : /\ \A m \in Contents(chan[s]) : m.offset >= k
                                  /\ \A u \in D : u[1] # s
      BY <1>5, <3>1 DEF OthersAreNewer
    <3>3. CASE v = w
      <4>1. Contents(chan'[t]) = {}
        BY <1>1, <1>2, ContentsOfEmpty
      <4> QED BY <3>2, <3>3, <4>1, <1>1, <1>4
    <3>4. CASE v # w
      BY <3>2, <3>4, <1>1, <1>4
    <3> QED BY <3>3, <3>4
  <2> QED BY <2>1, <2>2
<1>6. OthersAreNewer(q, k, E)'
  BY <1>5 DEF OthersAreNewer, Contents, QueueOf
<1> QED BY <1>6 DEF E

LEMMA OpeningKeepsOrder ==
    ASSUME Control, Placed, Lifecycle, OvertakenByFew,
           NEW w \in Worker, NEW t \in Stream, ForwardPop(w, t)
    PROVE  OvertakenByFew'
<1> SUFFICES ASSUME NEW s \in Stream, rx'[s] = "client" PROVE FewOvertake(s)'
  BY DEF OvertakenByFew
<1>1. /\ delivered' = delivered /\ chan' = chan /\ rx[t] = "unused" /\ rx'[t] = "forward"
      /\ \A u \in Stream \ {t} : rx'[u] = rx[u]
  BY DEF ForwardPop, OpenStream, Control, TypeOK
<1>2. s # t /\ rx[s] = "client" /\ FewOvertake(s)
  BY <1>1 DEF OvertakenByFew
<1>3. Line(s)' = Line(s)
  BY <1>1 DEF Line
<1>4. SUFFICES ASSUME NEW i \in DOMAIN Line(s)'
               PROVE  \E D \in SUBSET Worker :
                        /\ OthersAreNewer(s.queue, Line(s)[i].offset, D)'
                        /\ Cardinality(OlderAfter(Line(s)', i)) + Cardinality(D \cap LoopsOf(s))
                                < PopConcurrency
  BY DEF FewOvertake, LoopsOf, OlderAfter
<1>5. i \in DOMAIN Line(s)
  BY <1>3, <1>4
<1>6. PICK D \in SUBSET Worker :
            /\ OthersAreNewer(s.queue, Line(s)[i].offset, D)
            /\ Cardinality(OlderAfter(Line(s), i)) + Cardinality(D \cap LoopsOf(s)) < PopConcurrency
  BY <1>2, <1>5 DEF FewOvertake
<1>7. PICK k : k = Line(s)[i].offset
  OBVIOUS
<1>8. k \in Nat /\ s.queue \in Queue
  BY <1>5, <1>7, LineParts, StreamParts
<1>9. OthersAreNewer(s.queue, k, D \ LoopsOf(t))'
  BY <1>6, <1>7, <1>8, OpeningIsNewer
<1>10. k = Line(s)'[i].offset
  BY <1>3, <1>7
<1>11. (D \ LoopsOf(t)) \cap LoopsOf(s) = D \cap LoopsOf(s)
  BY <1>2 DEF LoopsOf
<1> DEFINE E == D \ LoopsOf(t)
<1>12. /\ E \in SUBSET Worker /\ OthersAreNewer(s.queue, k, E)'
       /\ Cardinality(OlderAfter(Line(s)', i)) + Cardinality(E \cap LoopsOf(s)) < PopConcurrency
  BY <1>3, <1>6, <1>9, <1>11
<1> HIDE DEF E
<1> QED BY <1>10, <1>12

(* A new consumer's line is empty.                                         *)
LEMMA SubscribeKeepsOrder ==
    ASSUME Control, Placed, Lifecycle, OvertakenByFew, StartsAfresh, NEW t \in Stream, Subscribe(t)
    PROVE  OvertakenByFew'
<1>1. /\ held' = held /\ awaits' = awaits /\ chan' = chan /\ delivered' = delivered
      /\ rx[t] = "unused" /\ \A s \in Stream \ {t} : rx'[s] = rx[s]
  BY DEF Subscribe, OpenStream, Control, TypeOK
<1>2. NewerKept
  BY <1>1, TakingKeepsNewer
<1> SUFFICES ASSUME NEW s \in Stream, rx'[s] = "client" PROVE FewOvertake(s)'
  BY DEF OvertakenByFew
<1>3. Line(s)' = Line(s)
  BY <1>1 DEF Line
<1>4. CASE s = t
  <2>1. chan[s] = <<>> /\ delivered[s] = <<>>
    BY <1>1, <1>4 DEF Lifecycle, ShutIsEmpty, StartsAfresh
  <2>2. Line(s)' = <<>>
    <3>1. <<>> \o <<>> = <<>>
      OBVIOUS
    <3> QED BY <1>3, <2>1, <3>1 DEF Line
  <2>3. DOMAIN Line(s)' = {}
    <3>1. DOMAIN <<>> = {}
      OBVIOUS
    <3> QED BY <2>2, <3>1
  <2> QED BY <2>3 DEF FewOvertake
<1>5. CASE s # t
  <2>1. FewOvertake(s)
    BY <1>1, <1>5 DEF OvertakenByFew
  <2> QED BY <1>2, <1>3, <2>1, KeepsFewOvertake DEF NewerKept
<1> QED BY <1>4, <1>5

(* A loop that sends changes the line of its own stream only.              *)
LEMMA SendKeepsOrder ==
    ASSUME Control, Placed, Lifecycle, OvertakenByFew, NEW w \in Worker, SendPopped(w)
    PROVE  OvertakenByFew'
<1>1. w[1] \in Stream
  BY WorkerParts
<1>2. /\ rx' = rx /\ delivered' = delivered /\ \A s \in Stream \ {w[1]} : chan'[s] = chan[s]
  BY <1>1 DEF SendPopped, Control, TypeOK
<1>3. NewerKept
  BY SendIsNewer DEF NewerKept
<1> SUFFICES ASSUME NEW s \in Stream, rx'[s] = "client" PROVE FewOvertake(s)'
  BY DEF OvertakenByFew
<1>4. FewOvertake(s)
  BY <1>2 DEF OvertakenByFew
<1>5. CASE s = w[1]
  BY <1>4, <1>5, SendKeepsFewOvertake
<1>6. CASE s # w[1]
  <2>1. Line(s)' = Line(s)
    BY <1>2, <1>6 DEF Line
  <2> QED BY <1>3, <1>4, <2>1, KeepsFewOvertake DEF NewerKept
<1> QED BY <1>5, <1>6

(* A message that is received stays on the line.                           *)
LEMMA ReceiveKeepsLines ==
    ASSUME Control, Placed, NEW t \in Stream, Receive(t)
    PROVE  /\ \A s \in Stream : Line(s)' = Line(s)
           /\ \A s \in Stream : Contents(chan'[s]) \subseteq Contents(chan[s])
<1>1. /\ chan[t] \in Seq(Message) /\ chan[t] # <<>> /\ delivered[t] \in Seq(Message)
      /\ chan'[t] = Tail(chan[t]) /\ delivered'[t] = Append(delivered[t], Head(chan[t]))
      /\ \A s \in Stream \ {t} : chan'[s] = chan[s] /\ delivered'[s] = delivered[s]
  BY DEF Receive, Control, TypeOK
<1>2. Contents(chan[t]) = Contents(Tail(chan[t])) \cup {Head(chan[t])}
  BY <1>1, ContentsOfTail DEF Placed, StreamsWithoutRepeat
<1>3. Append(delivered[t], Head(chan[t])) \o Tail(chan[t]) = delivered[t] \o chan[t]
  BY <1>1, LineOfReceived
<1>4. ASSUME NEW s \in Stream PROVE Line(s)' = Line(s)
  <2>1. Line(s)' = delivered'[s] \o chan'[s]
    BY DEF Line
  <2>2. CASE s = t
    BY <1>1, <1>3, <2>1, <2>2 DEF Line
  <2>3. CASE s # t
    BY <1>1, <2>1, <2>3 DEF Line
  <2> QED BY <2>2, <2>3
<1>5. \A s \in Stream : Contents(chan'[s]) \subseteq Contents(chan[s])
  BY <1>1, <1>2
<1> QED BY <1>4, <1>5

(* Every step keeps the lines of the consumers in such an order.           *)
LEMMA NextOvertakenByFew ==
    ASSUME Control, Placed, Lifecycle, OvertakenByFew, StartsAfresh, [Next]_vars
    PROVE  OvertakenByFew'
<1>1. ASSUME held' = held, awaits' = awaits, chan' = chan, rx' = rx, delivered' = delivered
      PROVE  OvertakenByFew'
  <2>1. NewerKept
    BY <1>1, TakingKeepsNewer
  <2>2. \A s \in Stream : Line(s)' = Line(s)
    BY <1>1 DEF Line
  <2> QED BY <1>1, <2>1, <2>2, SameLinesKeepOrder
<1>2. ASSUME NEW q \in Queue, NEW p \in Payload, PublishApplied(q, p) PROVE OvertakenByFew'
  BY <1>1, <1>2 DEF PublishApplied
<1>3. ASSUME NEW n \in Node, Elect(n) \/ Learn(n) \/ CoreStops(n) PROVE OvertakenByFew'
  BY <1>1, <1>3 DEF Elect, Learn, CoreStops
<1>4. ASSUME NEW q \in Queue, OrphanPopApplied(q) PROVE OvertakenByFew'
  BY <1>1, <1>4 DEF OrphanPopApplied
<1>5. ASSUME NEW w \in Worker, ProposePop(w) \/ RetryPop(w) PROVE OvertakenByFew'
  BY <1>1, <1>5 DEF ProposePop, RetryPop
<1>6. ASSUME NEW s \in Stream, Subscribe(s) PROVE OvertakenByFew'
  BY <1>6, SubscribeKeepsOrder
<1>7. ASSUME NEW w \in Worker, NEW s \in Stream, ForwardPop(w, s) PROVE OvertakenByFew'
  BY <1>7, OpeningKeepsOrder
<1>8. ASSUME NEW w \in Worker, SendPopped(w) PROVE OvertakenByFew'
  BY <1>8, SendKeepsOrder
<1>9. ASSUME NEW w \in Worker, PopApplied(w) PROVE OvertakenByFew'
  <2>1. NewerKept
    BY <1>9, PopIsNewer DEF NewerKept
  <2>2. rx' = rx /\ chan' = chan /\ delivered' = delivered
    BY <1>9 DEF PopApplied
  <2>3. \A s \in Stream : Line(s)' = Line(s)
    BY <2>2 DEF Line
  <2> QED BY <2>1, <2>2, <2>3, SameLinesKeepOrder
<1>10. ASSUME NEW w \in Worker, SendFails(w) PROVE OvertakenByFew'
  <2>1. /\ rx' = rx /\ chan' = chan /\ delivered' = delivered /\ awaits' = awaits
        /\ \A v \in Worker : held'[v] \subseteq held[v]
    BY <1>10 DEF SendFails, Control, TypeOK
  <2>2. NewerKept
    BY <2>1, TakingKeepsNewer
  <2>3. \A s \in Stream : Line(s)' = Line(s)
    BY <2>1 DEF Line
  <2> QED BY <2>1, <2>2, <2>3, SameLinesKeepOrder
<1>11. ASSUME NEW w \in Worker, NEW t \in Stream, ForwardReply(w, t) PROVE OvertakenByFew'
  <2>1. NewerKept
    BY <1>11, ReplyIsNewer DEF NewerKept
  <2>2. /\ delivered' = delivered /\ rx'[t] = "dropped"
        /\ \A s \in Stream \ {t} : rx'[s] = rx[s] /\ chan'[s] = chan[s]
    BY <1>11 DEF ForwardReply, Control, TypeOK
  <2>3. \A s \in Stream : rx'[s] = "client" => s # t
    BY <2>2
  <2>4. \A s \in Stream : rx'[s] = "client" => rx[s] = "client" /\ Line(s)' = Line(s)
    BY <2>2, <2>3 DEF Line
  <2> QED BY <2>1, <2>4, SameLinesKeepOrder
<1>12. ASSUME NEW w \in Worker, NEW t \in Stream, ForwardTimeout(w, t) PROVE OvertakenByFew'
  <2>1. /\ delivered' = delivered /\ held' = held /\ chan' = chan
        /\ \A v \in Worker : awaits'[v] \subseteq awaits[v]
        /\ \A s \in Stream : rx'[s] = "client" => rx[s] = "client"
    BY <1>12 DEF ForwardTimeout, Control, TypeOK
  <2>2. NewerKept
    BY <2>1, TakingKeepsNewer
  <2>3. \A s \in Stream : Line(s)' = Line(s)
    BY <2>1 DEF Line
  <2> QED BY <2>1, <2>2, <2>3, SameLinesKeepOrder
<1>13. ASSUME NEW t \in Stream, StreamDropped(t) PROVE OvertakenByFew'
  <2>1. /\ delivered' = delivered /\ held' = held /\ awaits' = awaits
        /\ chan'[t] = <<>> /\ rx'[t] = "closed"
        /\ \A s \in Stream \ {t} : rx'[s] = rx[s] /\ chan'[s] = chan[s]
    BY <1>13 DEF StreamDropped, Control, TypeOK
  <2>2. \A s \in Stream : Contents(chan'[s]) \subseteq Contents(chan[s])
    BY <2>1, ContentsOfEmpty
  <2>3. NewerKept
    BY <2>1, <2>2, TakingKeepsNewer
  <2>4. \A s \in Stream : rx'[s] = "client" => s # t
    BY <2>1
  <2>5. \A s \in Stream : rx'[s] = "client" => rx[s] = "client" /\ Line(s)' = Line(s)
    BY <2>1, <2>4 DEF Line
  <2> QED BY <2>3, <2>5, SameLinesKeepOrder
<1>14. ASSUME NEW t \in Stream, Receive(t) PROVE OvertakenByFew'
  <2>1. rx' = rx /\ held' = held /\ awaits' = awaits
    BY <1>14 DEF Receive
  <2>2. NewerKept
    BY <1>14, <2>1, ReceiveKeepsLines, TakingKeepsNewer
  <2> QED BY <1>14, <2>1, <2>2, ReceiveKeepsLines, SameLinesKeepOrder
<1>15. ASSUME NEW t \in Stream, Disconnect(t) PROVE OvertakenByFew'
  <2>1. /\ delivered' = delivered /\ held' = held /\ chan' = chan /\ awaits' = awaits
        /\ \A s \in Stream : rx'[s] = "client" => rx[s] = "client"
    BY <1>15 DEF Disconnect, Control, TypeOK
  <2>2. NewerKept
    BY <2>1, TakingKeepsNewer
  <2>3. \A s \in Stream : Line(s)' = Line(s)
    BY <2>1 DEF Line
  <2> QED BY <2>1, <2>2, <2>3, SameLinesKeepOrder
<1>16. ASSUME NEW n \in Node, Crash(n) PROVE OvertakenByFew'
  <2>1. /\ delivered' = delivered
        /\ \A w \in Worker : held'[w] \subseteq held[w] /\ awaits'[w] \subseteq awaits[w]
        /\ \A s \in Stream : chan'[s] = IF s.host = n THEN <<>> ELSE chan[s]
        /\ \A s \in Stream : rx'[s] = "client" => rx[s] = "client" /\ s.host # n
    BY <1>16 DEF Crash
  <2>2. \A s \in Stream : Contents(chan'[s]) \subseteq Contents(chan[s])
    BY <2>1, ContentsOfEmpty
  <2>3. NewerKept
    BY <2>1, <2>2, TakingKeepsNewer
  <2>4. \A s \in Stream : rx'[s] = "client" => rx[s] = "client" /\ Line(s)' = Line(s)
    BY <2>1 DEF Line
  <2> QED BY <2>3, <2>4, SameLinesKeepOrder
<1>17. CASE UNCHANGED vars
  BY <1>1, <1>17 DEF vars
<1> QED BY <1>2, <1>3, <1>4, <1>5, <1>6, <1>7, <1>8, <1>9, <1>10, <1>11, <1>12, <1>13, <1>14,
           <1>15, <1>16, <1>17 DEF Next

(* Only a consumer receives, and a stream is not opened twice.             *)
LEMMA NextStartsAfresh ==
    ASSUME Control, StartsAfresh, [Next]_vars
    PROVE  StartsAfresh'
<1> SUFFICES ASSUME NEW s \in Stream, rx'[s] = "unused" PROVE delivered'[s] = <<>>
  BY DEF StartsAfresh
<1>1. rx \in [Stream -> RxState] /\ delivered \in [Stream -> Seq(Message)]
  BY DEF Control, TypeOK
<1>2. rx[s] = "unused" /\ delivered'[s] = delivered[s]
  <2>1. ASSUME NEW t \in Stream, Receive(t) PROVE rx[s] = "unused" /\ delivered'[s] = delivered[s]
    BY <2>1, <1>1 DEF Receive
  <2>2. ASSUME NEW t \in Stream, Subscribe(t) \/ StreamDropped(t) \/ Disconnect(t)
        PROVE  rx[s] = "unused" /\ delivered'[s] = delivered[s]
    BY <2>2, <1>1 DEF Subscribe, OpenStream, StreamDropped, Disconnect
  <2>3. ASSUME NEW w \in Worker, NEW t \in Stream,
               ForwardPop(w, t) \/ ForwardReply(w, t) \/ ForwardTimeout(w, t)
        PROVE  rx[s] = "unused" /\ delivered'[s] = delivered[s]
    BY <2>3, <1>1 DEF ForwardPop, OpenStream, ForwardReply, ForwardTimeout
  <2>4. ASSUME NEW n \in Node, Crash(n) PROVE rx[s] = "unused" /\ delivered'[s] = delivered[s]
    BY <2>4, <1>1 DEF Crash
  <2>5. ASSUME rx' = rx, delivered' = delivered
        PROVE  rx[s] = "unused" /\ delivered'[s] = delivered[s]
    BY <2>5
  <2>6. ASSUME NEW w \in Worker,
               ProposePop(w) \/ PopApplied(w) \/ RetryPop(w) \/ SendPopped(w) \/ SendFails(w)
        PROVE  rx[s] = "unused" /\ delivered'[s] = delivered[s]
    BY <2>5, <2>6 DEF ProposePop, PopApplied, RetryPop, SendPopped, SendFails
  <2>7. ASSUME NEW q \in Queue, OrphanPopApplied(q) \/ \E p \in Payload : PublishApplied(q, p)
        PROVE  rx[s] = "unused" /\ delivered'[s] = delivered[s]
    BY <2>5, <2>7 DEF OrphanPopApplied, PublishApplied
  <2>8. ASSUME NEW n \in Node, Elect(n) \/ Learn(n) \/ CoreStops(n)
        PROVE  rx[s] = "unused" /\ delivered'[s] = delivered[s]
    BY <2>5, <2>8 DEF Elect, Learn, CoreStops
  <2>9. CASE UNCHANGED vars
    BY <2>5, <2>9 DEF vars
  <2> QED BY <2>1, <2>2, <2>3, <2>4, <2>6, <2>7, <2>8, <2>9 DEF Next
<1> QED BY <1>2 DEF StartsAfresh

(* Only receiving changes what a consumer has, and what it has then is a   *)
(* part of its line.                                                       *)
LEMMA NextReorderIsBounded ==
    ASSUME Control, Control', OvertakenByFew', ReorderIsBounded, [Next]_vars
    PROVE  ReorderIsBounded'
<1> SUFFICES ASSUME NEW s \in Stream, NEW i \in DOMAIN delivered'[s]
             PROVE  Cardinality(OlderAfter(delivered'[s], i)) < PopConcurrency
  BY DEF ReorderIsBounded, OlderAfter
<1>1. delivered'[s] = delivered[s] \/ rx'[s] = "client"
  <2>1. ASSUME NEW t \in Stream, Receive(t) PROVE delivered'[s] = delivered[s] \/ rx'[s] = "client"
    BY <2>1 DEF Receive, Control, TypeOK
  <2>2. CASE UNCHANGED delivered
    BY <2>2
  <2>3. UNCHANGED delivered \/ \E t \in Stream : Receive(t)
    BY DEF Next, vars, PublishApplied, Elect, Learn, CoreStops, Crash, OrphanPopApplied, Subscribe,
           StreamDropped, Disconnect, ProposePop, PopApplied, RetryPop, SendPopped, SendFails,
           ForwardPop, ForwardReply, ForwardTimeout
  <2> QED BY <2>1, <2>2, <2>3
<1>2. CASE delivered'[s] = delivered[s]
  BY <1>2 DEF ReorderIsBounded, OlderAfter
<1>3. CASE rx'[s] = "client"
  <2> DEFINE d == delivered'[s]
             c == chan'[s]
  <2>1. d \in Seq(Message) /\ c \in Seq(Message)
    BY DEF Control, TypeOK
  <2>2. Line(s)' = d \o c
    BY DEF Line
  <2>3. FewOvertake(s)'
    BY <1>3 DEF OvertakenByFew
  <2> HIDE DEF d, c
  <2>4. /\ i \in DOMAIN (d \o c)
        /\ Cardinality(OlderAfter(d, i)) <= Cardinality(OlderAfter(d \o c, i))
    BY <2>1, ReceivedPart DEF d
  <2>5. PICK D \in SUBSET Worker :
            Cardinality(OlderAfter(Line(s)', i)) + Cardinality(D \cap LoopsOf(s)) < PopConcurrency
    BY <2>2, <2>3, <2>4 DEF FewOvertake, OlderAfter, LoopsOf
  <2>6. Cardinality(D \cap LoopsOf(s)) \in Nat
    BY LoopsAreFew, FS_Subset, FS_CardinalityType
  <2>7. Cardinality(OlderAfter(d, i)) \in Nat /\ Cardinality(OlderAfter(d \o c, i)) \in Nat
    <3>1. d \o c \in Seq(Message)
      BY <2>1, ConcatProperties
    <3> QED BY <2>1, <3>1, OlderAreFinite
  <2>8. PopConcurrency \in Nat
    BY ParametersAreSound
  <2>9. Cardinality(OlderAfter(d, i)) < PopConcurrency
    BY <2>2, <2>4, <2>5, <2>6, <2>7, <2>8
  <2> QED BY <2>9 DEF d
<1> QED BY <1>1, <1>2, <1>3

LEMMA InitOrderInv == Init => OrderInv
<1> SUFFICES ASSUME Init PROVE OrderInv
  OBVIOUS
<1>1. \A s \in Stream : rx[s] = "unused" /\ delivered[s] = <<>>
  BY DEF Init
<1>2. DOMAIN <<>> = {}
  OBVIOUS
<1>3. ReorderIsBounded
  BY <1>1, <1>2 DEF ReorderIsBounded
<1> QED BY <1>1, <1>3 DEF OrderInv, OvertakenByFew, StartsAfresh

(* A consumer who has received a message will see at most one older one    *)
(* for each other Pop loop of its stream, whatever the redirects, elections*)
(* and crashes: a stream with one loop is in order.                        *)
THEOREM ConsumersSeeLittleReordering == Spec => []ReorderIsBounded
<1> DEFINE I == Control /\ Placed /\ Lifecycle /\ OrderInv
<1>1. Init => I
  BY InitControl, InitPlaced, InitLifecycle, InitOrderInv
<1>2. I /\ [Next]_vars => I'
  <2> SUFFICES ASSUME I, [Next]_vars PROVE I'
    OBVIOUS
  <2>1. Control' /\ Placed' /\ Lifecycle'
    BY NextControl, NextPlaced, NextLifecycle
  <2>2. OvertakenByFew' /\ StartsAfresh'
    BY NextOvertakenByFew, NextStartsAfresh DEF OrderInv
  <2>3. ReorderIsBounded'
    BY <2>1, <2>2, NextReorderIsBounded DEF OrderInv
  <2> QED BY <2>1, <2>2, <2>3 DEF OrderInv
<1>3. I => ReorderIsBounded
  BY DEF OrderInv
<1> QED BY <1>1, <1>2, <1>3, PTL DEF Spec
=============================================================================
