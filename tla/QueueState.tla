----------------------------- MODULE QueueState -----------------------------
(***************************************************************************)
(* The replicated queue data (`QueueState` in state_machine.rs): what one  *)
(* committed `QueueRequest` does to it, and what it answers.               *)
(*                                                                         *)
(* A Rust `Option` is the set of its values: None is {}, Some(x) is {x}.   *)
(* The two hash maps are total functions: a name that was never published  *)
(* to has the empty queue and the counter 0. Publishing is the only way a  *)
(* key enters either map and it leaves the counter at 1 or more, so the    *)
(* keys of the map are exactly the names whose counter is not 0.           *)
(***************************************************************************)
EXTENDS Naturals, Sequences

CONSTANTS Queue,    \* queue names
          Payload   \* message bodies

Message == [offset : Nat, payload : Payload]

QueueStates == [queues : [Queue -> Seq(Message)], next_offset : [Queue -> Nat]]

(* `QueueState::default()` *)
EmptyState == [queues      |-> [q \in Queue |-> <<>>],
               next_offset |-> [q \in Queue |-> 0]]

(* `enum QueueRequest` *)
Publish(q, p) == [op |-> "publish", queue |-> q, payload |-> {p}]
Pop(q)        == [op |-> "pop",     queue |-> q, payload |-> {}]

QueueRequest == {Publish(q, p) : q \in Queue, p \in Payload} \cup {Pop(q) : q \in Queue}

(* The counter hands out the offset and is advanced; the message goes to   *)
(* the back of the queue.                                                  *)
AfterPublish(s, q, p) ==
    [queues      |-> [s.queues EXCEPT ![q] = Append(@, [offset |-> s.next_offset[q],
                                                        payload |-> p])],
     next_offset |-> [s.next_offset EXCEPT ![q] = @ + 1]]

(* `pop_front`: the message a Pop answers with (None on an empty queue)    *)
PoppedBy(s, q) == IF s.queues[q] = <<>> THEN {} ELSE {Head(s.queues[q])}

(* Mutant: the counter is taken for the length of the queue.               *)
AfterPop_CountsDown(s, q) ==
    [queues      |-> [s.queues EXCEPT ![q] = IF @ = <<>> THEN @ ELSE Tail(@)],
     next_offset |-> [s.next_offset EXCEPT ![q] = @ - 1]]

(* and what it leaves behind. The counter is never given back.             *)
AfterPop(s, q) ==
    [queues      |-> [s.queues EXCEPT ![q] = IF @ = <<>> THEN @ ELSE Tail(@)],
     next_offset |-> s.next_offset]

(* `QueueState::apply` as a whole.                                         *)
AfterRequest(s, r) ==
    IF r.op = "publish" THEN AfterPublish(s, r.queue, CHOOSE p \in r.payload : TRUE)
                        ELSE AfterPop(s, r.queue)

-----------------------------------------------------------------------------

(* The offset at the front of a queue, or the next one when it is empty.   *)
FrontOffset(s, q) == s.next_offset[q] - Len(s.queues[q])

(* A queue holds a gap-free run of offsets that ends just below its        *)
(* counter: pops only ever removed a prefix of what was published.         *)
Contiguous(s) ==
    \A q \in Queue :
        /\ Len(s.queues[q]) <= s.next_offset[q]
        /\ \A i \in 1..Len(s.queues[q]) : s.queues[q][i].offset = FrontOffset(s, q) + (i - 1)
=============================================================================
