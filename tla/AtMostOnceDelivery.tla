------------------------- MODULE AtMostOnceDelivery -------------------------
(***************************************************************************)
(* What `Publish` and `Consume` promise together, without nodes, workers   *)
(* or streams: a message leaves its queue from the front, once; then it is *)
(* on its way to exactly one consumer, and ends either delivered or lost,  *)
(* for good.                                                               *)
(***************************************************************************)
EXTENDS QueueState

VARIABLES state,      \* the replicated QueueState
          inflight,   \* for each queue, the messages popped and on their way
          received,   \* for each queue, the messages some consumer received
          lost        \* for each queue, the messages nobody will receive

abstractVars == <<state, inflight, received, lost>>

AbstractInit ==
    /\ state = EmptyState
    /\ inflight = [q \in Queue |-> {}]
    /\ received = [q \in Queue |-> {}]
    /\ lost = [q \in Queue |-> {}]

Accept(q, p) ==
    /\ state' = AfterPublish(state, q, p)
    /\ UNCHANGED <<inflight, received, lost>>

(* The front message goes to one consumer ...                              *)
Take(q) ==
    /\ state.queues[q] # <<>>
    /\ state' = AfterPop(state, q)
    /\ inflight' = [inflight EXCEPT ![q] = @ \cup PoppedBy(state, q)]
    /\ UNCHANGED <<received, lost>>

(* ... or to nobody, when the one who asked for it has gone.               *)
Discard(q) ==
    /\ state.queues[q] # <<>>
    /\ state' = AfterPop(state, q)
    /\ lost' = [lost EXCEPT ![q] = @ \cup PoppedBy(state, q)]
    /\ UNCHANGED <<inflight, received>>

Deliver(q, m) ==
    /\ m \in inflight[q]
    /\ UNCHANGED <<state, lost>>
    /\ received' = [received EXCEPT ![q] = @ \cup {m}]
    /\ inflight' = [inflight EXCEPT ![q] = @ \ {m}]

(* A failure takes any of the messages on their way with it.               *)
Lose(gone) ==
    /\ UNCHANGED <<state, received>>
    /\ \A q \in Queue : gone[q] \subseteq inflight[q]
    /\ lost' = [q \in Queue |-> lost[q] \cup gone[q]]
    /\ inflight' = [q \in Queue |-> inflight[q] \ gone[q]]

(* What a Lose step takes can be read off the step itself.                 *)
AbstractNext ==
    \/ \E q \in Queue, p \in Payload : Accept(q, p)
    \/ \E q \in Queue : Take(q) \/ Discard(q) \/ \E m \in inflight[q] : Deliver(q, m)
    \/ Lose([q \in Queue |-> inflight[q] \ inflight'[q]])

AbstractSpec == AbstractInit /\ [][AbstractNext]_abstractVars
=============================================================================
