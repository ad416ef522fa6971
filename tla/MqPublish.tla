----------------------------- MODULE MqPublish ------------------------------
(***************************************************************************)
(* The `Publish` handler of the broker (grpc.rs): a node that is not the   *)
(* Raft leader calls `Publish` on the node it takes for the leader, which  *)
(* may do the same. The nested calls of one client request are its path.   *)
(*                                                                         *)
(* The replicated log is external, as in MqConsume: `state` is the         *)
(* QueueState after the committed prefix, `leader` and `known` are what    *)
(* openraft decides and what each node believes. Pops are left out, so     *)
(* that the queues are all that was ever published.                        *)
(***************************************************************************)
EXTENDS QueueState

CONSTANTS Node,           \* brokers
          Peers,          \* the nodes each node finds in its MQ_PEERS
          QueueOf,        \* the queue each request publishes to
          MaxHops,        \* bound: nested calls that follow a stale hint
          MaxElections,   \* bound: leaders elected
          MaxFaults       \* bound: broken connections, failed writes, crashes

(* The requests of the clients, told apart by their payloads.              *)
Call == Payload

ASSUME PublishParameters ==
    /\ Peers \in [Node -> SUBSET Node]
    /\ QueueOf \in [Call -> Queue]
    /\ {MaxHops, MaxElections, MaxFaults} \subseteq Nat

VARIABLES
    state,      \* the replicated QueueState
    leader,     \* the Raft leader of the group, if there is one
    known,      \* the leader each node believes in
    path,       \* the nodes whose handlers a request is in, outermost first
    phase,      \* what the innermost of them does, see Phase
    answer,     \* the offset on its way back or returned: none is an error
    orphans,    \* entries of a request that nobody waits for any more
    elections, faults   \* how often the environment acted

vars == <<state, leader, known, path, phase, answer, orphans, elections, faults>>

raftVars == <<leader, known, elections>>

(* "propose": about to call `client_write`; "commit": inside it, the entry *)
(* is in the leader's log; "reply": the innermost handler returns; "done": *)
(* the client has its result.                                              *)
Phase == {"new", "propose", "commit", "reply", "done"}

TypeOK ==
    /\ state \in QueueStates
    /\ leader \in SUBSET Node
    /\ known \in [Node -> SUBSET Node]
    /\ path \in [Call -> Seq(Node)]
    /\ phase \in [Call -> Phase]
    /\ answer \in [Call -> SUBSET Nat]
    /\ orphans \in [Call -> Nat]
    /\ elections \in Nat /\ faults \in Nat

Init ==
    /\ state = EmptyState
    /\ leader = {}
    /\ known = [n \in Node |-> {}]
    /\ path = [c \in Call |-> <<>>]
    /\ phase = [c \in Call |-> "new"]
    /\ answer = [c \in Call |-> {}]
    /\ orphans = [c \in Call |-> 0]
    /\ elections = 0 /\ faults = 0

-----------------------------------------------------------------------------
(* The replicated log.                                                     *)

Elect(n) ==
    /\ elections < MaxElections
    /\ leader # {n}
    /\ leader' = {n}
    /\ known' = [known EXCEPT ![n] = {n}]
    /\ elections' = elections + 1
    /\ UNCHANGED <<state, path, phase, answer, orphans, faults>>

Learn(n) ==
    /\ known[n] # leader
    /\ known' = [known EXCEPT ![n] = leader]
    /\ UNCHANGED <<state, leader, path, phase, answer, orphans, elections, faults>>

(* The entry of request c is applied.                                      *)
Applied(c) == state' = AfterPublish(state, QueueOf[c], c)

(* An entry commits although its proposer was redirected, cut off or died. *)
OrphanApplied(c) ==
    /\ leader # {}
    /\ orphans[c] > 0
    /\ orphans' = [orphans EXCEPT ![c] = @ - 1]
    /\ Applied(c)
    /\ UNCHANGED <<raftVars, path, phase, answer, faults>>

-----------------------------------------------------------------------------
(* `publish`, `propose` and `forward`.                                     *)

Innermost(c) == path[c][Len(path[c])]

(* `MqClient::publish` on the node the client is connected to.             *)
CallPublish(c, n) ==
    /\ phase[c] = "new"
    /\ path' = [path EXCEPT ![c] = <<n>>]
    /\ phase' = [phase EXCEPT ![c] = "propose"]
    /\ UNCHANGED <<state, raftVars, answer, orphans, faults>>

(* `client_write` on a node that takes itself for the leader.              *)
Propose(c) ==
    /\ phase[c] = "propose"
    /\ known[Innermost(c)] = {Innermost(c)}
    /\ phase' = [phase EXCEPT ![c] = "commit"]
    /\ UNCHANGED <<state, raftVars, path, answer, orphans, faults>>

(* Mutants: the offset is read after the counter was advanced; it is one   *)
(* less than the counter before.                                           *)
OffsetOf_Next(c)     == state.next_offset[QueueOf[c]] + 1
OffsetOf_Previous(c) == state.next_offset[QueueOf[c]] - 1

OffsetOf(c) == state.next_offset[QueueOf[c]]

(* The entry is committed and applied: `Ok(resp)` carries its offset.      *)
PublishApplied(c) ==
    /\ phase[c] = "commit"
    /\ leader # {}
    /\ Applied(c)
    /\ answer' = [answer EXCEPT ![c] = {OffsetOf(c)}]
    /\ phase' = [phase EXCEPT ![c] = "reply"]
    /\ UNCHANGED <<raftVars, path, orphans, faults>>

(* The proposer stops waiting; an entry already appended may still commit. *)
Abandon(c) == orphans' = [orphans EXCEPT ![c] = IF phase[c] = "commit" THEN @ + 1 ELSE @]

(* `client_write` returns ForwardToLeader with what the node believes.     *)
Redirected(c) ==
    /\ phase[c] \in {"propose", "commit"}
    /\ known[Innermost(c)] # {Innermost(c)}
    /\ Abandon(c)

(* Mutant: without a leader the handler waits for one.                     *)
RedirectedNowhere_Waits(c) ==
    /\ phase[c] = "commit"
    /\ Redirected(c)
    /\ known[Innermost(c)] \cap Peers[Innermost(c)] = {}
    /\ phase' = [phase EXCEPT ![c] = "reply"]
    /\ UNCHANGED <<state, raftVars, path, answer, faults>>

(* No leader is known, or its address is not: an error at once.            *)
RedirectedNowhere(c) ==
    /\ Redirected(c)
    /\ known[Innermost(c)] \cap Peers[Innermost(c)] = {}
    /\ phase' = [phase EXCEPT ![c] = "reply"]
    /\ UNCHANGED <<state, raftVars, path, answer, faults>>

(* `forward`: the same RPC on the node the redirect names. Nothing limits  *)
(* the number of hops but MaxHops, which never stops one to the leader.    *)
Forward(c, n) ==
    /\ Redirected(c)
    /\ n \in known[Innermost(c)] \cap Peers[Innermost(c)]
    /\ n \in leader \/ Len(path[c]) < MaxHops
    /\ path' = [path EXCEPT ![c] = Append(@, n)]
    /\ phase' = [phase EXCEPT ![c] = "propose"]
    /\ UNCHANGED <<state, raftVars, answer, faults>>

(* `raft write failed`: the error goes back the way the request came.      *)
WriteFails(c) ==
    /\ faults < MaxFaults
    /\ faults' = faults + 1
    /\ phase[c] \in {"propose", "commit"}
    /\ Abandon(c)
    /\ phase' = [phase EXCEPT ![c] = "reply"]
    /\ UNCHANGED <<state, raftVars, path, answer>>

(* Mutant: an offset of 0, the default on the wire, is taken for none.     *)
Reply_ZeroIsNone(c) ==
    /\ phase[c] = "reply"
    /\ path' = [path EXCEPT ![c] = SubSeq(@, 1, Len(@) - 1)]
    /\ phase' = [phase EXCEPT ![c] = IF Len(path[c]) = 1 THEN "done" ELSE "reply"]
    /\ answer' = [answer EXCEPT ![c] = @ \ {0}]
    /\ UNCHANGED <<state, raftVars, orphans, faults>>

(* A handler returns, and the one that called it with the same offset or   *)
(* error.                                                                  *)
Reply(c) ==
    /\ phase[c] = "reply"
    /\ path' = [path EXCEPT ![c] = SubSeq(@, 1, Len(@) - 1)]
    /\ phase' = [phase EXCEPT ![c] = IF Len(path[c]) = 1 THEN "done" ELSE "reply"]
    /\ UNCHANGED <<state, raftVars, answer, orphans, faults>>

-----------------------------------------------------------------------------
(* Failures between the handlers.                                          *)

(* Request c when the call to its i-th node ends in an error. The handlers *)
(* from there on are cut off: the innermost, unless it had returned, may   *)
(* have appended an entry or be about to.                                  *)
CutPath(c, i)  == SubSeq(path[c], 1, i - 1)
CutPhase(i)    == IF i = 1 THEN "done" ELSE "reply"
CutOrphans(c)  == IF phase[c] \in {"propose", "commit"} THEN orphans[c] + 1 ELSE orphans[c]

ConnectionBreaks(c, i) ==
    /\ faults < MaxFaults
    /\ faults' = faults + 1
    /\ i \in DOMAIN path[c]
    /\ path' = [path EXCEPT ![c] = CutPath(c, i)]
    /\ phase' = [phase EXCEPT ![c] = CutPhase(i)]
    /\ answer' = [answer EXCEPT ![c] = {}]
    /\ orphans' = [orphans EXCEPT ![c] = CutOrphans(c)]
    /\ UNCHANGED <<state, raftVars>>

(* Where node n first appears in the path of c, if it does.                *)
Visits(n, c) == {i \in DOMAIN path[c] : path[c][i] = n /\ \A j \in 1..(i - 1) : path[c][j] # n}

(* Node n dies and starts again with no leader in mind.                    *)
Crash(n) ==
    /\ faults < MaxFaults
    /\ faults' = faults + 1
    /\ leader' = leader \ {n}
    /\ known' = [known EXCEPT ![n] = {}]
    /\ LET hit == {c \in Call : Visits(n, c) # {}}
           at(c) == CHOOSE i \in Visits(n, c) : TRUE
       IN  /\ path' = [c \in Call |-> IF c \in hit THEN CutPath(c, at(c)) ELSE path[c]]
           /\ phase' = [c \in Call |-> IF c \in hit THEN CutPhase(at(c)) ELSE phase[c]]
           /\ answer' = [c \in Call |-> IF c \in hit THEN {} ELSE answer[c]]
           /\ orphans' = [c \in Call |-> IF c \in hit THEN CutOrphans(c) ELSE orphans[c]]
    /\ UNCHANGED <<state, elections>>

-----------------------------------------------------------------------------

CallStep(c) ==
    \/ Propose(c) \/ PublishApplied(c) \/ RedirectedNowhere(c) \/ Reply(c)
    \/ \E n \in Node : Forward(c, n)

Next ==
    \/ \E n \in Node : Elect(n) \/ Learn(n) \/ Crash(n)
    \/ \E c \in Call : \/ \E n \in Node : CallPublish(c, n)
                       \/ CallStep(c) \/ WriteFails(c) \/ OrphanApplied(c)
                       \/ \E i \in DOMAIN path[c] : ConnectionBreaks(c, i)

Spec == Init /\ [][Next]_vars

-----------------------------------------------------------------------------

(* The messages that request c has put into its queue.                     *)
Published(c) == {i \in DOMAIN state.queues[QueueOf[c]] : state.queues[QueueOf[c]][i].payload = c}

(* The offset a handler answers with, through however many forwards, is    *)
(* the offset of a message that very request published.                    *)
AnsweredOffsetIsPublished ==
    \A c \in Call : \A k \in answer[c] :
        \E i \in Published(c) : state.queues[QueueOf[c]][i].offset = k

Undisturbed == elections <= 1 /\ faults = 0

(* While the first leader stays and nothing fails, a request is published  *)
(* at most once, and one that ends in an error not at all.                 *)
PublishedOnceUndisturbed ==
    Undisturbed => \A c \in Call :
        /\ \A i, j \in Published(c) : i = j
        /\ phase[c] = "done" /\ answer[c] = {} => Published(c) = {}

(* The scheduler runs every handler, the standing leader commits, nodes    *)
(* hear of it, and one is elected when there is none.                      *)
FairSpec ==
    /\ Spec
    /\ \A c \in Call : WF_vars(CallStep(c))
    /\ \A n \in Node : WF_vars(Learn(n)) /\ WF_vars(leader = {} /\ Elect(n))

(* Every request is answered, with an offset or an error: stale hints may  *)
(* send it in circles, and the circle ends.                                *)
EveryCallAnswered == \A c \in Call : (phase[c] # "new") ~> (phase[c] = "done")
=============================================================================
