----------------------------- MODULE NodesGroup -----------------------------
(***************************************************************************)
(* What `main` does with the "nodes" group (main.rs): the node with the    *)
(* lowest number initializes the group, and every node's registration task *)
(* writes its address into the replicated directory until a write          *)
(* succeeds. Both tasks run beside each other and start over with the      *)
(* process, which may have been given another address by then.             *)
(*                                                                         *)
(* openraft is external: `initialize` is refused once the group has a log, *)
(* a write is refused on every node but the leader, what is committed      *)
(* stays, and a new leader commits a blank entry, before which the write   *)
(* its predecessor left behind is either committed or gone for good.       *)
(***************************************************************************)
EXTENDS Naturals, Sequences

CONSTANTS Peer,          \* the node numbers in MQ_PEERS
          Addr,          \* the addresses MQ_PEERS may list for a node
          MaxAttempts,   \* the 20 attempts of `bootstrap`
          MaxElections,  \* bound: leaders elected
          MaxRestarts    \* bound: process restarts

ASSUME PeersAreNumbered == Peer \subseteq Nat /\ Peer # {} /\ Addr # {}
ASSUME GroupBounds == {MaxAttempts, MaxElections, MaxRestarts} \subseteq Nat

VARIABLES
    attempt,   \* the bootstrap task's attempt; 0: ended, or not started
    addr,      \* the address each node finds for itself in MQ_PEERS
    leader,    \* the leader of the group, if there is one
    task,      \* the registration task of each node, see TaskState
    waits,     \* the position of the entry whose answer a task waits for
    pending,   \* the write in the leader's log that is not committed yet
    log,       \* the committed entries of the group
    elections, restarts   \* how often the environment acted

vars == <<attempt, addr, leader, task, waits, pending, log, elections, restarts>>

taskVars == <<attempt, addr, task, waits>>

(* `EntryPayload` with `NodeCommand` as its Normal content.                *)
Blank           == [op |-> "blank"]
Membership      == [op |-> "membership"]
UpsertNode(n, a) == [op |-> "upsert", id |-> n, addr |-> a]
NodeCommand     == {UpsertNode(n, a) : n \in Peer, a \in Addr}
Entry           == NodeCommand \cup {Blank, Membership}

(* "retry": about to call `client_write`, or asleep before it; "commit":   *)
(* inside it, the entry is in the leader's log; "apply": committed, not    *)
(* answered; "registered": ended.                                          *)
TaskState == {"retry", "commit", "apply", "registered"}

TypeOK ==
    /\ attempt \in [Peer -> 0..MaxAttempts]
    /\ addr \in [Peer -> Addr]
    /\ leader \in SUBSET Peer
    /\ task \in [Peer -> TaskState]
    /\ waits \in [Peer -> Nat]
    /\ pending \in SUBSET NodeCommand
    /\ log \in Seq(Entry)
    /\ elections \in Nat /\ restarts \in Nat

(* `node_num == lowest_id`                                                 *)
IsLowest(n) == \A m \in Peer : n <= m

(* What `main` spawns on node n: only the lowest node bootstraps.          *)
FirstAttempt(n) == IF IsLowest(n) /\ MaxAttempts > 0 THEN 1 ELSE 0

Init ==
    /\ attempt = [n \in Peer |-> FirstAttempt(n)]
    /\ addr = [n \in Peer |-> CHOOSE a \in Addr : TRUE]
    /\ leader = {}
    /\ task = [n \in Peer |-> "retry"]
    /\ waits = [n \in Peer |-> 0]
    /\ pending = {}
    /\ log = <<>>
    /\ elections = 0 /\ restarts = 0

-----------------------------------------------------------------------------
(* `bootstrap`                                                             *)

(* `initialize` succeeds on a group without a log: `break`.                *)
Initialize(n) ==
    /\ attempt[n] # 0
    /\ log = <<>>
    /\ log' = <<Membership>>
    /\ attempt' = [attempt EXCEPT ![n] = 0]
    /\ UNCHANGED <<addr, leader, task, waits, pending, elections, restarts>>

(* Mutant: one attempt more than there are.                                *)
AttemptAfter_OneMore(k) == IF k > MaxAttempts THEN 0 ELSE k + 1

(* The loop gives up after its last attempt.                               *)
AttemptAfter(k) == IF k = MaxAttempts THEN 0 ELSE k + 1

(* It is refused on one that has a log: sleep and try again.               *)
InitializeRefused(n) ==
    /\ attempt[n] # 0
    /\ log # <<>>
    /\ attempt' = [attempt EXCEPT ![n] = AttemptAfter(@)]
    /\ UNCHANGED <<addr, leader, task, waits, pending, log, elections, restarts>>

(* The group elects a leader once it has members.                          *)
Elect(n) ==
    /\ log # <<>>
    /\ elections < MaxElections
    /\ leader # {n}
    /\ leader' = {n}
    /\ elections' = elections + 1
    /\ \E kept \in {<<>>} \cup {<<c>> : c \in pending} : log' = log \o kept \o <<Blank>>
    /\ pending' = {}
    /\ UNCHANGED <<taskVars, restarts>>

-----------------------------------------------------------------------------
(* The registration task.                                                  *)

(* Mutant: only the node that bootstraps registers.                        *)
Registers_LowestOnly(n) == task[n] = "retry" /\ IsLowest(n)

Registers(n) == task[n] = "retry"

(* `client_write(UpsertNode)` on the leader.                               *)
ProposeSelf(n) ==
    /\ Registers(n)
    /\ n \in leader
    /\ task' = [task EXCEPT ![n] = "commit"]
    /\ pending' = {UpsertNode(n, addr[n])}
    /\ UNCHANGED <<attempt, addr, leader, waits, log, elections, restarts>>

CommitSelf(n) ==
    /\ task[n] = "commit"
    /\ n \in leader
    /\ \E c \in pending : log' = Append(log, c)
    /\ pending' = {}
    /\ task' = [task EXCEPT ![n] = "apply"]
    /\ waits' = [waits EXCEPT ![n] = Len(log')]
    /\ UNCHANGED <<attempt, addr, leader, elections, restarts>>

(* The entry is applied, `client_write` returns Ok and the task ends.      *)
Registered(n) ==
    /\ task[n] = "apply"
    /\ task' = [task EXCEPT ![n] = "registered"]
    /\ waits' = [waits EXCEPT ![n] = 0]
    /\ UNCHANGED <<attempt, addr, leader, pending, log, elections, restarts>>

(* Mutant: any answer of `client_write` ends the loop.                     *)
AfterRefusal_Ends == "registered"

AfterRefusal == "retry"

(* The node is not the leader, or lost the leadership while it waited: the *)
(* write is refused, the task sleeps and tries again, here.                *)
WriteRefused(n) ==
    /\ task[n] \in {"retry", "commit"}
    /\ n \notin leader
    /\ task' = [task EXCEPT ![n] = AfterRefusal]
    /\ UNCHANGED <<attempt, addr, leader, waits, pending, log, elections, restarts>>

(* The process of node n starts again, and with it both tasks.             *)
Restart(n, a) ==
    /\ restarts < MaxRestarts
    /\ restarts' = restarts + 1
    /\ leader' = leader \ {n}
    /\ attempt' = [attempt EXCEPT ![n] = FirstAttempt(n)]
    /\ addr' = [addr EXCEPT ![n] = a]
    /\ task' = [task EXCEPT ![n] = "retry"]
    /\ waits' = [waits EXCEPT ![n] = 0]
    /\ UNCHANGED <<pending, log, elections>>

BootstrapStep(n) == Initialize(n) \/ InitializeRefused(n)

WriteStep(n) == ProposeSelf(n) \/ CommitSelf(n) \/ WriteRefused(n)

Next ==
    \E n \in Peer : \/ BootstrapStep(n) \/ Elect(n) \/ WriteStep(n) \/ Registered(n)
                    \/ \E a \in Addr : Restart(n, a)

(* Both tasks are scheduled, a standing leader commits, and a group with   *)
(* members elects a leader when it has none.                               *)
FairSpec ==
    /\ Init /\ [][Next]_vars
    /\ \A n \in Peer : /\ WF_vars(WriteStep(n)) /\ WF_vars(Registered(n))
                       /\ WF_vars(BootstrapStep(n))
                       /\ WF_vars(leader = {} /\ Elect(n))

-----------------------------------------------------------------------------

(* The first k entries of l that name node n, and the address they leave   *)
(* in the directory for it, if any: that of the last one.                  *)
Upserts(l, k, n) == {i \in 1..k : l[i] \in NodeCommand /\ l[i].id = n}

ListedIn(l, k, n) ==
    {l[i].addr : i \in {i \in Upserts(l, k, n) : \A j \in Upserts(l, k, n) : j <= i}}

(* The address the log leaves in the directory for node n, if any.         *)
Listed(n) == ListedIn(log, Len(log), n)

(* A task that has ended left its node in the directory with the address   *)
(* it has now: no write that an earlier process or a deposed leader left   *)
(* behind comes after it. And the group was initialized only once: a node  *)
(* never registers in a directory that a second one replaces.              *)
EndedTasksAreRegistered ==
    /\ \A i \in DOMAIN log : log[i] = Membership => i = 1
    /\ \A n \in Peer : task[n] = "registered" => Listed(n) = {addr[n]}

(* "Every node registers itself in the "nodes" directory group once it's   *)
(* up".                                                                    *)
EveryNodeRegisters == \A n \in Peer : <>(Listed(n) # {})
=============================================================================
