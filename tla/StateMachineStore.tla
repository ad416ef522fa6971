------------------------- MODULE StateMachineStore --------------------------
(***************************************************************************)
(* The in-memory state machine of the "spam" group on every node           *)
(* (state_machine.rs): applying committed entries, building a snapshot     *)
(* from a builder that shares the live QueueState, installing one, and     *)
(* starting again from nothing.                                            *)
(*                                                                         *)
(* openraft is external: it grows one committed log, hands each node its   *)
(* entries in order, runs a snapshot builder in a task of its own, and may *)
(* bring a node that is behind any snapshot that `build_snapshot` returned *)
(* or `get_current_snapshot` answered, or none.                            *)
(*                                                                         *)
(* `Some(log id at index i)` is i + 1 and None is 0, so that last_applied  *)
(* counts the entries applied.                                             *)
(***************************************************************************)
EXTENDS QueueState, FiniteSets

CONSTANTS Node,
          MaxLog,        \* bound: committed entries
          MaxCarried,    \* bound: no builder is asked for once as many are carried
          MaxRestarts    \* bound: process restarts

ASSUME StoreBounds == {MaxLog, MaxCarried, MaxRestarts} \subseteq Nat

VARIABLES
    log,               \* the committed log
    history,           \* history[i + 1]: the QueueState its first i entries make
    state,             \* each node's Arc<Mutex<QueueState>>
    last_applied,
    last_membership,   \* how far the log reached at the last membership entry
    snapshot,          \* each store's own `snapshot: Option<StoredSnapshot>`
    builder,           \* the builder running beside each store, if any
    carried,           \* the snapshots on their way to a node that is behind
    restarts

vars == <<log, history, state, last_applied, last_membership, snapshot, builder, carried,
          restarts>>

logVars == <<log, history>>

(* `EntryPayload`                                                          *)
Blank      == [op |-> "blank"]
Membership == [op |-> "membership"]
Entry      == QueueRequest \cup {Blank, Membership}

SnapshotMeta   == [last_log_id : Nat, last_membership : Nat]
StoredSnapshot == [meta : SnapshotMeta, data : QueueStates]

TypeOK ==
    /\ log \in Seq(Entry)
    /\ history \in Seq(QueueStates)
    /\ state \in [Node -> QueueStates]
    /\ last_applied \in [Node -> Nat]
    /\ last_membership \in [Node -> Nat]
    /\ snapshot \in [Node -> SUBSET StoredSnapshot]
    /\ builder \in [Node -> SUBSET SnapshotMeta]
    /\ carried \subseteq StoredSnapshot
    /\ restarts \in Nat

Init ==
    /\ log = <<>>
    /\ history = <<EmptyState>>
    /\ state = [n \in Node |-> EmptyState]
    /\ last_applied = [n \in Node |-> 0]
    /\ last_membership = [n \in Node |-> 0]
    /\ snapshot = [n \in Node |-> {}]
    /\ builder = [n \in Node |-> {}]
    /\ carried = {}
    /\ restarts = 0

(* What one entry does to the queue data: Normal requests change it.       *)
AfterEntry(s, e) == IF e \in QueueRequest THEN AfterRequest(s, e) ELSE s

(* openraft commits one more entry.                                        *)
Commit(e) ==
    /\ Len(log) < MaxLog
    /\ log' = Append(log, e)
    /\ history' = Append(history, AfterEntry(history[Len(history)], e))
    /\ UNCHANGED <<state, last_applied, last_membership, snapshot, builder, carried, restarts>>

(* One round of the loop of `apply`: the lock is taken for each entry, so  *)
(* a builder's task may run between any two.                               *)
ApplyEntry(n) ==
    LET i == last_applied[n] + 1
    IN  /\ i <= Len(log)
        /\ last_applied' = [last_applied EXCEPT ![n] = i]
        /\ state' = [state EXCEPT ![n] = AfterEntry(@, log[i])]
        /\ last_membership' = [last_membership EXCEPT ![n] = IF log[i] = Membership THEN i ELSE @]
        /\ UNCHANGED <<logVars, snapshot, builder, carried, restarts>>

(* `get_snapshot_builder`: a second store on the same Arc, with a copy of  *)
(* the bookkeeping as it is now.                                           *)
GetSnapshotBuilder(n) ==
    /\ Cardinality(carried) < MaxCarried
    /\ builder[n] = {}
    /\ builder' = [builder EXCEPT ![n] = {[last_log_id     |-> last_applied[n],
                                           last_membership |-> last_membership[n]]}]
    /\ UNCHANGED <<logVars, state, last_applied, last_membership, snapshot, carried, restarts>>

(* `build_snapshot`, in the builder's task: the data are read now, the     *)
(* meta was copied then. The snapshot is stored in the builder, which goes *)
(* away; the node's own store never sees it.                               *)
BuildSnapshot(n) ==
    \E meta \in builder[n] :
        /\ builder' = [builder EXCEPT ![n] = {}]
        /\ carried' = carried \cup {[meta |-> meta, data |-> state[n]]}
        /\ UNCHANGED <<logVars, state, last_applied, last_membership, snapshot, restarts>>

(* `get_current_snapshot`, when openraft wants one for a node behind.      *)
GetCurrentSnapshot(n) ==
    /\ ~(snapshot[n] \subseteq carried)
    /\ carried' = carried \cup snapshot[n]
    /\ UNCHANGED <<logVars, state, last_applied, last_membership, snapshot, builder, restarts>>

(* Mutant: only the queues are restored, the counters keep running.        *)
InstalledData_KeepsCounters(s, old) == [old EXCEPT !.queues = s.data.queues]

InstalledData(s, old) == s.data

(* Mutant: the membership of the snapshot is not taken over.               *)
InstalledMembership_Old(s, old) == old

InstalledMembership(s, old) == s.meta.last_membership

(* `install_snapshot`; openraft offers only one that is ahead of the node. *)
InstallSnapshot(n, s) ==
    /\ s.meta.last_log_id > last_applied[n]
    /\ state' = [state EXCEPT ![n] = InstalledData(s, @)]
    /\ last_applied' = [last_applied EXCEPT ![n] = s.meta.last_log_id]
    /\ last_membership' = [last_membership EXCEPT ![n] = InstalledMembership(s, @)]
    /\ snapshot' = [snapshot EXCEPT ![n] = {s}]
    /\ carried' = carried \ {s}
    /\ UNCHANGED <<logVars, builder, restarts>>

(* Mutant: the queue data outlive the bookkeeping.                         *)
StateAtStart_Kept(old) == old

(* `QueueState::default()`                                                 *)
StateAtStart(old) == EmptyState

(* The process starts again: `StateMachineStore::new` on a default         *)
(* QueueState; everything is replayed.                                     *)
Restart(n) ==
    /\ restarts < MaxRestarts
    /\ restarts' = restarts + 1
    /\ state' = [state EXCEPT ![n] = StateAtStart(@)]
    /\ last_applied' = [last_applied EXCEPT ![n] = 0]
    /\ last_membership' = [last_membership EXCEPT ![n] = 0]
    /\ snapshot' = [snapshot EXCEPT ![n] = {}]
    /\ builder' = [builder EXCEPT ![n] = {}]
    /\ UNCHANGED <<logVars, carried>>

Next ==
    \/ \E e \in Entry : Commit(e)
    \/ \E n \in Node : \/ ApplyEntry(n) \/ GetSnapshotBuilder(n) \/ BuildSnapshot(n)
                       \/ GetCurrentSnapshot(n) \/ Restart(n)
    \/ \E n \in Node, s \in carried : InstallSnapshot(n, s)

Spec == Init /\ [][Next]_vars

-----------------------------------------------------------------------------

(* A replica that got all it has from the log, over any number of restarts *)
(* and with builders running beside it, holds after i entries what the     *)
(* first i entries make.                                                   *)
ReplayedReplicasAgree ==
    \A n \in Node : snapshot[n] = {} => state[n] = history[last_applied[n] + 1]

(* Whatever a replica holds, by replay or from a snapshot, its queues are  *)
(* gap-free runs of offsets that end below the counter.                    *)
ReplicasContiguous == \A n \in Node : Contiguous(state[n])

MembershipUpTo(i, m) ==
    /\ m <= i
    /\ m > 0 => log[m] = Membership
    /\ \A j \in (m + 1)..i : log[j] # Membership

(* The membership a node reports is the latest in the entries it reports   *)
(* as applied, and so for every snapshot on its way or installed.          *)
MembershipIsCurrent ==
    /\ \A n \in Node : MembershipUpTo(last_applied[n], last_membership[n])
    /\ \A s \in carried \cup UNION {snapshot[n] : n \in Node} :
            MembershipUpTo(s.meta.last_log_id, s.meta.last_membership)
=============================================================================
