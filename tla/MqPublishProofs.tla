--------------------------- MODULE MqPublishProofs --------------------------
(***************************************************************************)
(* Theorems about MqPublish, for every number of nodes, requests and       *)
(* queues, every list of peers and every bound.                            *)
(***************************************************************************)
EXTENDS MqPublish, TLAPS, SequenceTheorems

(* The one-line choices of the handler are read as what they stand for.    *)
USE DEF OffsetOf

(* The message a handler has been told the offset of is where it was: a    *)
(* publish adds one message, at the counter, and moves none.               *)
LEMMA PublishAddsOne ==
    ASSUME state \in QueueStates, NEW c \in Call, Applied(c)
    PROVE  /\ state' \in QueueStates
           /\ \A q \in Queue : \A i \in DOMAIN state.queues[q] :
                /\ i \in DOMAIN state'.queues[q]
                /\ state'.queues[q][i] = state.queues[q][i]
           /\ \E i \in DOMAIN state'.queues[QueueOf[c]] :
                state'.queues[QueueOf[c]][i] = [offset  |-> state.next_offset[QueueOf[c]],
                                                payload |-> c]
<1> DEFINE r == QueueOf[c]
           m == [offset |-> state.next_offset[r], payload |-> c]
<1>1. /\ r \in Queue /\ c \in Payload
      /\ state.queues \in [Queue -> Seq(Message)] /\ state.next_offset \in [Queue -> Nat]
  BY PublishParameters DEF QueueStates, Call
<1>2. m \in Message
  BY <1>1 DEF Message
<1>3. /\ state'.queues = [state.queues EXCEPT ![r] = Append(@, m)]
      /\ state'.next_offset = [state.next_offset EXCEPT ![r] = @ + 1]
      /\ state' = [queues |-> state'.queues, next_offset |-> state'.next_offset]
  BY DEF Applied, AfterPublish
<1>4. /\ Append(state.queues[r], m) \in Seq(Message)
      /\ Len(state.queues[r]) \in Nat
      /\ Len(Append(state.queues[r], m)) = Len(state.queues[r]) + 1
      /\ \A i \in 1..Len(state.queues[r]) : Append(state.queues[r], m)[i] = state.queues[r][i]
      /\ Append(state.queues[r], m)[Len(state.queues[r]) + 1] = m
  BY <1>1, <1>2, AppendProperties, LenProperties
<1> HIDE DEF m
<1>5. state'.queues \in [Queue -> Seq(Message)] /\ state'.next_offset \in [Queue -> Nat]
  BY <1>1, <1>3, <1>4
<1>6. state' \in QueueStates
  BY <1>3, <1>5 DEF QueueStates
<1>7. /\ state'.queues[r] = Append(state.queues[r], m)
      /\ \A q \in Queue \ {r} : state'.queues[q] = state.queues[q]
  BY <1>1, <1>3
<1>8. /\ DOMAIN state.queues[r] = 1..Len(state.queues[r])
      /\ DOMAIN state'.queues[r] = 1..(Len(state.queues[r]) + 1)
  BY <1>1, <1>4, <1>5, <1>7, LenProperties
<1>9. ASSUME NEW q \in Queue, NEW i \in DOMAIN state.queues[q]
      PROVE  i \in DOMAIN state'.queues[q] /\ state'.queues[q][i] = state.queues[q][i]
  <2>1. CASE q # r
    BY <2>1, <1>7
  <2>2. CASE q = r
    <3>1. i \in 1..Len(state.queues[r])
      BY <2>2, <1>8
    <3> QED BY <3>1, <2>2, <1>4, <1>7, <1>8
  <2> QED BY <2>1, <2>2
<1>10. /\ Len(state.queues[r]) + 1 \in DOMAIN state'.queues[r]
       /\ state'.queues[r][Len(state.queues[r]) + 1] = m
  BY <1>4, <1>7, <1>8
<1> QED BY <1>6, <1>9, <1>10 DEF m

(* What a publish adds is published by its own request, and by no other.   *)
LEMMA PublishIsOwn ==
    ASSUME state \in QueueStates, NEW c \in Call, Applied(c)
    PROVE  /\ \E k : Published(c)' = Published(c) \cup {k}
           /\ \A d \in Call \ {c} : Published(d)' = Published(d)
<1> DEFINE r == QueueOf[c]
           m == [offset |-> state.next_offset[r], payload |-> c]
           n == Len(state.queues[r]) + 1
<1>1. /\ r \in Queue /\ c \in Payload
      /\ state.queues \in [Queue -> Seq(Message)] /\ state.next_offset \in [Queue -> Nat]
  BY PublishParameters DEF QueueStates, Call
<1>2. m \in Message /\ m.payload = c
  BY <1>1 DEF Message
<1>3. state'.queues = [state.queues EXCEPT ![r] = Append(@, m)]
  BY DEF Applied, AfterPublish
<1> HIDE DEF m
<1>4. /\ state'.queues[r] = Append(state.queues[r], m)
      /\ \A q \in Queue \ {r} : state'.queues[q] = state.queues[q]
  BY <1>1, <1>3
<1>5. /\ DOMAIN state.queues[r] = 1..Len(state.queues[r]) /\ Len(state.queues[r]) \in Nat
      /\ DOMAIN Append(state.queues[r], m) = 1..n
      /\ \A i \in 1..Len(state.queues[r]) : Append(state.queues[r], m)[i] = state.queues[r][i]
      /\ Append(state.queues[r], m)[n] = m
  BY <1>1, <1>2, AppendProperties, LenProperties
<1>6. ASSUME NEW d \in Call, QueueOf[d] # r PROVE Published(d)' = Published(d) /\ d # c
  <2>1. QueueOf[d] \in Queue
    BY PublishParameters
  <2> QED BY <1>4, <1>6, <2>1 DEF Published
<1>7. ASSUME NEW d \in Call, QueueOf[d] = r
      PROVE  Published(d)' = Published(d) \cup (IF d = c THEN {n} ELSE {})
  <2>1. /\ Published(d)' = {i \in DOMAIN state'.queues[r] : state'.queues[r][i].payload = d}
        /\ Published(d) = {i \in DOMAIN state.queues[r] : state.queues[r][i].payload = d}
    BY <1>7 DEF Published
  <2>2. /\ DOMAIN state'.queues[r] = DOMAIN state.queues[r] \cup {n} /\ n \notin DOMAIN state.queues[r]
        /\ \A i \in DOMAIN state.queues[r] : state'.queues[r][i] = state.queues[r][i]
        /\ state'.queues[r][n] = m
    BY <1>4, <1>5
  <2> HIDE DEF r, n
  <2> QED BY <2>1, <2>2, <1>2
<1>8. Published(c)' = Published(c) \cup {n}
  BY <1>7
<1> QED BY <1>6, <1>7, <1>8

(* A step that leaves the queues alone leaves alone what was published.    *)
LEMMA NothingPublished ==
    ASSUME UNCHANGED state
    PROVE  \A c \in Call : Published(c)' = Published(c)
  BY DEF Published

-----------------------------------------------------------------------------

(* Cutting a path back leaves a path.                                      *)
LEMMA CutPathTypes ==
    ASSUME NEW p \in Seq(Node), NEW i \in Int
    PROVE  i <= Len(p) + 1 => SubSeq(p, 1, i - 1) \in Seq(Node)
<1> SUFFICES ASSUME i <= Len(p) + 1 PROVE SubSeq(p, 1, i - 1) \in Seq(Node)
  OBVIOUS
<1>1. Len(p) \in Nat /\ \A j \in 1..Len(p) : p[j] \in Node
  BY LenProperties, ElementOfSeq
<1> QED BY <1>1, SubSeqProperties

(* The initial state is well typed and nothing has been answered.          *)
LEMMA InitPublish == Init => TypeOK /\ AnsweredOffsetIsPublished
  BY DEF Init, TypeOK, AnsweredOffsetIsPublished, EmptyState, QueueStates, Phase

(* Every step keeps the state well typed.                                  *)
LEMMA NextTyped == TypeOK /\ [Next]_vars => TypeOK'
<1> SUFFICES ASSUME TypeOK, [Next]_vars PROVE TypeOK'
  OBVIOUS
<1> USE DEF TypeOK, raftVars
<1>1. ASSUME NEW n \in Node, Elect(n) PROVE TypeOK'
  BY <1>1 DEF Elect
<1>2. ASSUME NEW n \in Node, Learn(n) PROVE TypeOK'
  BY <1>2 DEF Learn
<1>3. ASSUME NEW n \in Node, Crash(n) PROVE TypeOK'
  <2>1. ASSUME NEW c \in Call, Visits(n, c) # {}
        PROVE  /\ CutPath(c, CHOOSE i \in Visits(n, c) : TRUE) \in Seq(Node)
               /\ CutPhase(CHOOSE i \in Visits(n, c) : TRUE) \in Phase
               /\ CutOrphans(c) \in Nat
    <3> DEFINE i == CHOOSE k \in Visits(n, c) : TRUE
    <3>1. path[c] \in Seq(Node) /\ i \in DOMAIN path[c]
      BY <2>1 DEF Visits
    <3>2. i \in Int /\ i <= Len(path[c]) + 1
      BY <3>1, LenProperties
    <3> HIDE DEF i
    <3>3. CutPath(c, i) \in Seq(Node)
      BY <3>1, <3>2, CutPathTypes DEF CutPath
    <3>4. CutPhase(i) \in Phase /\ CutOrphans(c) \in Nat
      BY DEF CutPhase, CutOrphans, Phase
    <3> QED BY <3>3, <3>4 DEF i
  <2>2. path' \in [Call -> Seq(Node)] /\ phase' \in [Call -> Phase]
    BY <1>3, <2>1 DEF Crash
  <2>3. answer' \in [Call -> SUBSET Nat] /\ orphans' \in [Call -> Nat]
    BY <1>3, <2>1 DEF Crash
  <2> QED BY <1>3, <2>2, <2>3 DEF Crash
<1>4. ASSUME NEW c \in Call, NEW n \in Node, CallPublish(c, n) PROVE TypeOK'
  BY <1>4 DEF CallPublish, Phase
<1>5. ASSUME NEW c \in Call, Propose(c) PROVE TypeOK'
  BY <1>5 DEF Propose, Phase
<1>6. ASSUME NEW c \in Call, PublishApplied(c) PROVE TypeOK'
  <2>1. state' \in QueueStates
    BY <1>6, PublishAddsOne DEF PublishApplied
  <2>2. state.next_offset[QueueOf[c]] \in Nat
    BY PublishParameters DEF QueueStates
  <2> QED BY <1>6, <2>1, <2>2 DEF PublishApplied, Phase
<1>7. ASSUME NEW c \in Call, RedirectedNowhere(c) PROVE TypeOK'
  BY <1>7 DEF RedirectedNowhere, Redirected, Abandon, Phase
<1>8. ASSUME NEW c \in Call, NEW n \in Node, Forward(c, n) PROVE TypeOK'
  <2>1. Append(path[c], n) \in Seq(Node)
    BY AppendProperties
  <2> QED BY <1>8, <2>1 DEF Forward, Redirected, Abandon, Phase
<1>9. ASSUME NEW c \in Call, Reply(c) PROVE TypeOK'
  <2>1. path[c] \in Seq(Node) /\ Len(path[c]) \in Nat
    BY LenProperties
  <2>2. SubSeq(path[c], 1, Len(path[c]) - 1) \in Seq(Node)
    BY <2>1, CutPathTypes
  <2> QED BY <1>9, <2>2 DEF Reply, Phase
<1>10. ASSUME NEW c \in Call, WriteFails(c) PROVE TypeOK'
  BY <1>10 DEF WriteFails, Abandon, Phase
<1>11. ASSUME NEW c \in Call, OrphanApplied(c) PROVE TypeOK'
  <2>1. state' \in QueueStates
    BY <1>11, PublishAddsOne DEF OrphanApplied
  <2> QED BY <1>11, <2>1 DEF OrphanApplied
<1>12. ASSUME NEW c \in Call, NEW i \in DOMAIN path[c], ConnectionBreaks(c, i) PROVE TypeOK'
  <2>1. path[c] \in Seq(Node) /\ i \in Int /\ i <= Len(path[c]) + 1
    BY LenProperties
  <2>2. CutPath(c, i) \in Seq(Node)
    BY <2>1, CutPathTypes DEF CutPath
  <2> QED BY <1>12, <2>2 DEF ConnectionBreaks, CutPhase, CutOrphans, Phase
<1>13. CASE UNCHANGED vars
  BY <1>13 DEF vars
<1> QED BY <1>1, <1>2, <1>3, <1>4, <1>5, <1>6, <1>7, <1>8, <1>9, <1>10, <1>11, <1>12, <1>13
        DEF Next, CallStep

(* Every step keeps the answers right: an offset answered stays that of a  *)
(* message of its request, and a new answer is the offset just handed out. *)
LEMMA NextAnswered ==
    TypeOK /\ AnsweredOffsetIsPublished /\ [Next]_vars => AnsweredOffsetIsPublished'
<1> SUFFICES ASSUME TypeOK, AnsweredOffsetIsPublished, [Next]_vars
             PROVE  AnsweredOffsetIsPublished'
  OBVIOUS
<1>1. state \in QueueStates /\ answer \in [Call -> SUBSET Nat] /\ \A c \in Call : QueueOf[c] \in Queue
  BY PublishParameters DEF TypeOK
<1>2. ASSUME UNCHANGED state, \A c \in Call : answer'[c] \subseteq answer[c]
      PROVE  AnsweredOffsetIsPublished'
  BY <1>2, NothingPublished DEF AnsweredOffsetIsPublished
<1>3. ASSUME NEW c \in Call, Applied(c),
             \A d \in Call \ {c} : answer'[d] = answer[d],
             answer'[c] \subseteq answer[c] \cup {state.next_offset[QueueOf[c]]}
      PROVE  AnsweredOffsetIsPublished'
  <2> SUFFICES ASSUME NEW d \in Call, NEW k \in answer'[d]
               PROVE  \E i \in Published(d)' : state'.queues[QueueOf[d]][i].offset = k
    BY DEF AnsweredOffsetIsPublished
  <2>1. CASE k \in answer[d]
    <3>1. PICK i \in Published(d) : state.queues[QueueOf[d]][i].offset = k
      BY <2>1 DEF AnsweredOffsetIsPublished
    <3>2. /\ i \in DOMAIN state.queues[QueueOf[d]]
          /\ state.queues[QueueOf[d]][i].payload = d
      BY DEF Published
    <3>3. /\ i \in DOMAIN state'.queues[QueueOf[d]]
          /\ state'.queues[QueueOf[d]][i] = state.queues[QueueOf[d]][i]
      BY <1>1, <1>3, <3>2, PublishAddsOne
    <3> QED BY <3>1, <3>2, <3>3 DEF Published
  <2>2. CASE d = c /\ k = state.next_offset[QueueOf[c]]
    <3>1. PICK i \in DOMAIN state'.queues[QueueOf[c]] :
                state'.queues[QueueOf[c]][i] = [offset  |-> state.next_offset[QueueOf[c]],
                                                payload |-> c]
      BY <1>1, <1>3, PublishAddsOne
    <3> QED BY <2>2, <3>1 DEF Published
  <2> QED BY <1>3, <2>1, <2>2
<1>4. ASSUME NEW n \in Node, Elect(n) \/ Learn(n) PROVE AnsweredOffsetIsPublished'
  BY <1>4, <1>2 DEF Elect, Learn
<1>5. ASSUME NEW n \in Node, Crash(n) PROVE AnsweredOffsetIsPublished'
  BY <1>5, <1>2 DEF Crash
<1>6. ASSUME NEW c \in Call, NEW n \in Node, CallPublish(c, n) \/ Forward(c, n)
      PROVE  AnsweredOffsetIsPublished'
  BY <1>6, <1>2 DEF CallPublish, Forward
<1>7. ASSUME NEW c \in Call, Propose(c) \/ RedirectedNowhere(c) \/ Reply(c) \/ WriteFails(c)
      PROVE  AnsweredOffsetIsPublished'
  BY <1>7, <1>2 DEF Propose, RedirectedNowhere, Reply, WriteFails
<1>8. ASSUME NEW c \in Call, PublishApplied(c) PROVE AnsweredOffsetIsPublished'
  <2>1. /\ \A d \in Call \ {c} : answer'[d] = answer[d]
        /\ answer'[c] = {state.next_offset[QueueOf[c]]}
    BY <1>1, <1>8 DEF PublishApplied
  <2> QED BY <1>3, <1>8, <2>1 DEF PublishApplied
<1>9. ASSUME NEW c \in Call, OrphanApplied(c) PROVE AnsweredOffsetIsPublished'
  BY <1>3, <1>9 DEF OrphanApplied
<1>10. ASSUME NEW c \in Call, NEW i \in DOMAIN path[c], ConnectionBreaks(c, i)
       PROVE  AnsweredOffsetIsPublished'
  BY <1>1, <1>2, <1>10 DEF ConnectionBreaks
<1>11. CASE UNCHANGED vars
  BY <1>11, <1>2 DEF vars
<1> QED BY <1>4, <1>5, <1>6, <1>7, <1>8, <1>9, <1>10, <1>11 DEF Next, CallStep

(* The handlers keep their types: in particular a path of nested calls,    *)
(* however it is cut by broken connections and crashes, stays a sequence of*)
(* nodes, and an orphaned entry is never counted below zero.               *)
THEOREM PublishTypeCorrect == Spec => []TypeOK
<1>1. Init => TypeOK
  BY InitPublish
<1> QED BY <1>1, NextTyped, PTL DEF Spec

(* A producer that is told an offset, directly or through any chain of     *)
(* forwards, published the message at that offset: `publish`, `propose`    *)
(* and `forward` never answer with another request's offset.               *)
THEOREM AnswersAreRight == Spec => [](TypeOK /\ AnsweredOffsetIsPublished)
<1>1. Init => TypeOK /\ AnsweredOffsetIsPublished
  BY InitPublish
<1>2. TypeOK /\ AnsweredOffsetIsPublished /\ [Next]_vars => (TypeOK /\ AnsweredOffsetIsPublished)'
  BY NextTyped, NextAnswered
<1> QED BY <1>1, <1>2, PTL DEF Spec

-----------------------------------------------------------------------------
(* While the first leader stays and nothing fails.                         *)

(* A node knows the leader or none, and the leader knows itself.           *)
OneLeader ==
    /\ elections = 0 => leader = {} /\ \A n \in Node : known[n] = {}
    /\ \A n \in Node : known[n] = {} \/ known[n] = leader
    /\ \A n \in leader : known[n] = {n}

(* A request is proposed by some node, and its entry is waited for on the  *)
(* leader until it is applied.                                             *)
EntriesAreAwaited ==
    \A c \in Call : /\ orphans[c] = 0
                    /\ phase[c] \in {"propose", "commit"} => Innermost(c) \in Node
                    /\ phase[c] = "commit" => Innermost(c) \in leader

(* A request has published nothing until it is answered with an offset,    *)
(* and one message then.                                                   *)
PublishedWhenAnswered ==
    \A c \in Call :
        /\ \A i, j \in Published(c) : i = j
        /\ Published(c) # {} => phase[c] \in {"reply", "done"} /\ answer[c] # {}

Steady == Undisturbed => OneLeader /\ EntriesAreAwaited /\ PublishedWhenAnswered

LEMMA InitSteady == Init => Steady
<1> SUFFICES ASSUME Init PROVE Steady
  OBVIOUS
<1>1. \A c \in Call : Published(c) = {}
  <2>1. \A q \in Queue : state.queues[q] = <<>>
    BY DEF Init, EmptyState
  <2>2. DOMAIN <<>> = {}
    OBVIOUS
  <2> QED BY <2>1, <2>2, PublishParameters DEF Published
<1>2. OneLeader /\ EntriesAreAwaited
  BY DEF Init, OneLeader, EntriesAreAwaited
<1>3. PublishedWhenAnswered
  BY <1>1 DEF PublishedWhenAnswered
<1> QED BY <1>2, <1>3 DEF Steady

(* A node that is not the leader has no entry of its own waiting, so that  *)
(* a redirect abandons none.                                               *)
LEMMA RedirectAbandonsNone ==
    ASSUME TypeOK, OneLeader, EntriesAreAwaited, NEW c \in Call, Redirected(c)
    PROVE  phase[c] = "propose" /\ orphans' = orphans /\ Innermost(c) \in Node
<1>1. phase[c] # "commit"
  <2> SUFFICES ASSUME phase[c] = "commit" PROVE FALSE
    OBVIOUS
  <2>1. Innermost(c) \in leader /\ Innermost(c) \in Node
    BY DEF EntriesAreAwaited
  <2>2. known[Innermost(c)] = {Innermost(c)}
    BY <2>1 DEF OneLeader
  <2> QED BY <2>2 DEF Redirected
<1>2. phase[c] = "propose"
  BY <1>1 DEF Redirected
<1>3. orphans' = orphans
  BY <1>2 DEF Redirected, Abandon, TypeOK
<1> QED BY <1>2, <1>3 DEF EntriesAreAwaited

(* The step of one request that leaves the queues and the leader alone and *)
(* abandons no entry.                                                      *)
LEMMA QuietKeepsSteady ==
    ASSUME OneLeader, EntriesAreAwaited, PublishedWhenAnswered, NEW c \in Call,
           UNCHANGED <<state, leader, known, elections, orphans, answer>>,
           \A d \in Call \ {c} : phase'[d] = phase[d] /\ path'[d] = path[d],
           phase[c] \in {"reply", "done"} => phase'[c] \in {"reply", "done"},
           phase'[c] \in {"propose", "commit"} => Innermost(c)' \in Node,
           phase'[c] = "commit" => Innermost(c)' \in leader
    PROVE  OneLeader' /\ EntriesAreAwaited' /\ PublishedWhenAnswered'
<1>1. OneLeader'
  BY DEF OneLeader
<1>2. EntriesAreAwaited'
  <2> SUFFICES ASSUME NEW d \in Call
               PROVE  /\ orphans'[d] = 0
                      /\ phase'[d] \in {"propose", "commit"} => Innermost(d)' \in Node
                      /\ phase'[d] = "commit" => Innermost(d)' \in leader'
    BY DEF EntriesAreAwaited
  <2>1. orphans'[d] = 0
    BY DEF EntriesAreAwaited
  <2>2. CASE d = c
    BY <2>1, <2>2
  <2>3. CASE d # c
    BY <2>1, <2>3 DEF EntriesAreAwaited, Innermost
  <2> QED BY <2>2, <2>3
<1>3. PublishedWhenAnswered'
  BY NothingPublished DEF PublishedWhenAnswered
<1> QED BY <1>1, <1>2, <1>3

(* Every step keeps it so, or is one after which nothing is promised.      *)
LEMMA NextSteady == TypeOK /\ Steady /\ [Next]_vars => Steady'
<1> SUFFICES ASSUME TypeOK, Steady, [Next]_vars, Undisturbed'
             PROVE  OneLeader' /\ EntriesAreAwaited' /\ PublishedWhenAnswered'
  BY DEF Steady
<1> DEFINE Goal == OneLeader' /\ EntriesAreAwaited' /\ PublishedWhenAnswered'
<1>1. elections' <= 1 /\ faults' = 0 /\ elections \in Nat /\ faults \in Nat
  BY DEF Undisturbed, TypeOK
<1>2. ASSUME Undisturbed PROVE OneLeader /\ EntriesAreAwaited /\ PublishedWhenAnswered
  BY <1>2 DEF Steady
<1>3. ASSUME NEW n \in Node, Elect(n) PROVE Goal
  <2>1. elections = 0 /\ faults = 0 /\ elections' = 1
    BY <1>1, <1>3 DEF Elect
  <2>2. OneLeader /\ EntriesAreAwaited /\ PublishedWhenAnswered
    BY <1>2, <2>1 DEF Undisturbed
  <2>3. /\ leader = {} /\ leader' = {n} /\ \A m \in Node : known[m] = {}
        /\ known'[n] = {n} /\ \A m \in Node \ {n} : known'[m] = known[m]
        /\ state' = state /\ path' = path /\ phase' = phase /\ answer' = answer /\ orphans' = orphans
    BY <1>3, <2>1, <2>2 DEF Elect, OneLeader, TypeOK
  <2>4. OneLeader'
    BY <2>1, <2>3 DEF OneLeader
  <2>5. EntriesAreAwaited'
    BY <2>2, <2>3 DEF EntriesAreAwaited, Innermost
  <2>6. PublishedWhenAnswered'
    BY <2>2, <2>3, NothingPublished DEF PublishedWhenAnswered
  <2> QED BY <2>4, <2>5, <2>6
<1>4. ASSUME NEW n \in Node, Learn(n) PROVE Goal
  <2>1. OneLeader /\ EntriesAreAwaited /\ PublishedWhenAnswered
    BY <1>1, <1>2, <1>4 DEF Learn, Undisturbed
  <2>2. /\ leader' = leader /\ known'[n] = leader /\ \A m \in Node \ {n} : known'[m] = known[m]
        /\ elections' = elections
        /\ state' = state /\ path' = path /\ phase' = phase /\ answer' = answer /\ orphans' = orphans
    BY <1>4 DEF Learn, TypeOK
  <2>3. leader \in SUBSET Node
    BY DEF TypeOK
  <2>4. \A m \in leader : leader = {m}
    BY <2>1, <2>3 DEF OneLeader
  <2>5. OneLeader'
    <3>1. ASSUME elections' = 0 PROVE leader' = {} /\ \A m \in Node : known'[m] = {}
      BY <3>1, <2>1, <2>2 DEF OneLeader
    <3>2. ASSUME NEW m \in Node PROVE known'[m] = {} \/ known'[m] = leader'
      BY <2>1, <2>2 DEF OneLeader
    <3>3. ASSUME NEW m \in leader' PROVE known'[m] = {m}
      BY <2>1, <2>2, <2>3, <2>4 DEF OneLeader
    <3> QED BY <3>1, <3>2, <3>3 DEF OneLeader
  <2>6. EntriesAreAwaited'
    BY <2>1, <2>2 DEF EntriesAreAwaited, Innermost
  <2>7. PublishedWhenAnswered'
    BY <2>1, <2>2, NothingPublished DEF PublishedWhenAnswered
  <2> QED BY <2>5, <2>6, <2>7
<1>5. ASSUME NEW c \in Call, NEW n \in Node, CallPublish(c, n) PROVE Goal
  <2>1. OneLeader /\ EntriesAreAwaited /\ PublishedWhenAnswered
    BY <1>1, <1>2, <1>5 DEF CallPublish, raftVars, Undisturbed
  <2>2. /\ phase[c] = "new" /\ phase'[c] = "propose" /\ path'[c] = <<n>>
        /\ \A d \in Call \ {c} : phase'[d] = phase[d] /\ path'[d] = path[d]
        /\ UNCHANGED <<state, leader, known, elections, orphans, answer>>
    BY <1>5 DEF CallPublish, raftVars, TypeOK
  <2>3. Innermost(c)' = n
    <3>1. <<n>>[Len(<<n>>)] = n
      OBVIOUS
    <3> QED BY <2>2, <3>1 DEF Innermost
  <2> QED BY <2>1, <2>2, <2>3, QuietKeepsSteady
<1>6. ASSUME NEW c \in Call, Propose(c) PROVE Goal
  <2>1. OneLeader /\ EntriesAreAwaited /\ PublishedWhenAnswered
    BY <1>1, <1>2, <1>6 DEF Propose, raftVars, Undisturbed
  <2>2. /\ phase[c] = "propose" /\ phase'[c] = "commit" /\ path' = path
        /\ \A d \in Call \ {c} : phase'[d] = phase[d]
        /\ known[Innermost(c)] = {Innermost(c)}
        /\ UNCHANGED <<state, leader, known, elections, orphans, answer>>
    BY <1>6 DEF Propose, raftVars, TypeOK
  <2>3. Innermost(c)' = Innermost(c) /\ Innermost(c) \in Node
    BY <2>1, <2>2 DEF Innermost, EntriesAreAwaited
  <2>4. Innermost(c) \in leader
    BY <2>1, <2>2, <2>3 DEF OneLeader
  <2> QED BY <2>1, <2>2, <2>3, <2>4, QuietKeepsSteady
<1>7. ASSUME NEW c \in Call, PublishApplied(c) PROVE Goal
  <2>1. OneLeader /\ EntriesAreAwaited /\ PublishedWhenAnswered
    BY <1>1, <1>2, <1>7 DEF PublishApplied, raftVars, Undisturbed
  <2>2. /\ phase[c] = "commit" /\ phase'[c] = "reply" /\ path' = path /\ answer'[c] # {}
        /\ \A d \in Call \ {c} : phase'[d] = phase[d] /\ answer'[d] = answer[d]
        /\ UNCHANGED <<leader, known, elections, orphans>>
    BY <1>7 DEF PublishApplied, raftVars, TypeOK
  <2>3. PICK k : Published(c)' = Published(c) \cup {k}
    BY <1>7, PublishIsOwn DEF PublishApplied, TypeOK
  <2>4. \A d \in Call \ {c} : Published(d)' = Published(d)
    BY <1>7, PublishIsOwn DEF PublishApplied, TypeOK
  <2>5. OneLeader'
    BY <2>1, <2>2 DEF OneLeader
  <2>6. EntriesAreAwaited'
    BY <2>1, <2>2 DEF EntriesAreAwaited, Innermost
  <2>7. Published(c) = {}
    BY <2>1, <2>2 DEF PublishedWhenAnswered
  <2>8. PublishedWhenAnswered'
    <3> SUFFICES ASSUME NEW d \in Call
                 PROVE  /\ \A i, j \in Published(d)' : i = j
                        /\ Published(d)' # {} => phase'[d] \in {"reply", "done"} /\ answer'[d] # {}
      BY DEF PublishedWhenAnswered
    <3>1. CASE d = c
      BY <3>1, <2>2, <2>3, <2>7
    <3>2. CASE d # c
      BY <3>2, <2>1, <2>2, <2>4 DEF PublishedWhenAnswered
    <3> QED BY <3>1, <3>2
  <2> QED BY <2>5, <2>6, <2>8
<1>8. ASSUME NEW c \in Call, RedirectedNowhere(c) PROVE Goal
  <2>1. OneLeader /\ EntriesAreAwaited /\ PublishedWhenAnswered
    BY <1>1, <1>2, <1>8 DEF RedirectedNowhere, raftVars, Undisturbed
  <2>2. phase[c] = "propose" /\ orphans' = orphans
    BY <1>8, <2>1, RedirectAbandonsNone DEF RedirectedNowhere
  <2>3. /\ phase'[c] = "reply" /\ path' = path /\ \A d \in Call \ {c} : phase'[d] = phase[d]
        /\ UNCHANGED <<state, leader, known, elections, answer>>
    BY <1>8 DEF RedirectedNowhere, raftVars, TypeOK
  <2> QED BY <2>1, <2>2, <2>3, QuietKeepsSteady
<1>9. ASSUME NEW c \in Call, NEW n \in Node, Forward(c, n) PROVE Goal
  <2>1. OneLeader /\ EntriesAreAwaited /\ PublishedWhenAnswered
    BY <1>1, <1>2, <1>9 DEF Forward, raftVars, Undisturbed
  <2>2. phase[c] = "propose" /\ orphans' = orphans
    BY <1>9, <2>1, RedirectAbandonsNone DEF Forward
  <2>3. /\ phase'[c] = "propose" /\ path'[c] = Append(path[c], n) /\ path[c] \in Seq(Node)
        /\ \A d \in Call \ {c} : phase'[d] = phase[d] /\ path'[d] = path[d]
        /\ UNCHANGED <<state, leader, known, elections, answer>>
    BY <1>9 DEF Forward, raftVars, TypeOK
  <2>4. Innermost(c)' = n
    <3>1. Append(path[c], n)[Len(Append(path[c], n))] = n
      BY <2>3, AppendProperties
    <3> QED BY <2>3, <3>1 DEF Innermost
  <2> QED BY <2>1, <2>2, <2>3, <2>4, QuietKeepsSteady
<1>10. ASSUME NEW c \in Call, Reply(c) PROVE Goal
  <2>1. OneLeader /\ EntriesAreAwaited /\ PublishedWhenAnswered
    BY <1>1, <1>2, <1>10 DEF Reply, raftVars, Undisturbed
  <2>2. /\ phase'[c] \in {"reply", "done"}
        /\ \A d \in Call \ {c} : phase'[d] = phase[d] /\ path'[d] = path[d]
        /\ UNCHANGED <<state, leader, known, elections, orphans, answer>>
    BY <1>10 DEF Reply, raftVars, TypeOK
  <2> QED BY <2>1, <2>2, QuietKeepsSteady
<1>11. ASSUME NEW c \in Call, OrphanApplied(c) PROVE Goal
  <2>1. EntriesAreAwaited
    BY <1>1, <1>2, <1>11 DEF OrphanApplied, raftVars, Undisturbed
  <2> QED BY <1>11, <2>1 DEF OrphanApplied, EntriesAreAwaited
<1>12. ASSUME NEW c \in Call, WriteFails(c) \/ \E i \in DOMAIN path[c] : ConnectionBreaks(c, i)
       PROVE  Goal
  BY <1>1, <1>12 DEF WriteFails, ConnectionBreaks
<1>13. ASSUME NEW n \in Node, Crash(n) PROVE Goal
  <2>1. faults' = faults + 1
    BY <1>13 DEF Crash
  <2> QED BY <1>1, <2>1
<1>14. ASSUME UNCHANGED vars PROVE Goal
  <2>1. OneLeader /\ EntriesAreAwaited /\ PublishedWhenAnswered
    BY <1>1, <1>2, <1>14 DEF vars, Undisturbed
  <2>2. OneLeader' /\ EntriesAreAwaited'
    BY <1>14, <2>1 DEF vars, OneLeader, EntriesAreAwaited, Innermost
  <2>3. PublishedWhenAnswered'
    BY <1>14, <2>1, NothingPublished DEF vars, PublishedWhenAnswered
  <2> QED BY <2>2, <2>3
<1> HIDE DEF Goal
<1>15. Goal
  BY <1>3, <1>4, <1>5, <1>6, <1>7, <1>8, <1>9, <1>10, <1>11, <1>12, <1>13, <1>14 DEF Next, CallStep
<1> QED BY <1>15 DEF Goal

(* While the first leader stays and nothing fails, `publish` publishes a   *)
(* request at most once, however it was forwarded, and a producer that is  *)
(* given an error published nothing.                                       *)
THEOREM PublishedOnce == Spec => []PublishedOnceUndisturbed
<1>1. Init => TypeOK /\ Steady
  BY InitPublish, InitSteady
<1>2. TypeOK /\ Steady /\ [Next]_vars => (TypeOK /\ Steady)'
  BY NextTyped, NextSteady
<1>3. Steady => PublishedOnceUndisturbed
  BY DEF Steady, PublishedWhenAnswered, PublishedOnceUndisturbed
<1> QED BY <1>1, <1>2, <1>3, PTL DEF Spec
=============================================================================
