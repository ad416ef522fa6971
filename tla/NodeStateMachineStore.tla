------------------------ MODULE NodeStateMachineStore -----------------------
(***************************************************************************)
(* The in-memory directory of the "nodes" group on every node              *)
(* (node_state_machine.rs), fed by the log that the registration tasks of  *)
(* NodesGroup write: applying, building a snapshot from a builder that     *)
(* shares the live directory, installing one, starting again from nothing. *)
(*                                                                         *)
(* As in StateMachineStore, openraft hands each node the committed entries *)
(* in order and may bring a node that is behind any snapshot that was      *)
(* built or is kept; `Some(log id at index i)` is i + 1 and None is 0.     *)
(***************************************************************************)
EXTENDS NodesGroup

CONSTANT MaxBuilders   \* bound: snapshot builders asked for

ASSUME BuildersBound == MaxBuilders \in Nat

VARIABLES
    state,                          \* each node's Arc<Mutex<NodeDirectory>>
    last_applied, last_membership,
    snapshot,                       \* each store's own Option<StoredSnapshot>
    builder,                        \* the builder running beside each store
    carried,                        \* snapshots on their way to a node behind
    builders                        \* how many builders were asked for

storeVars == <<state, last_applied, last_membership, snapshot, builder, carried, builders>>
allVars   == <<vars, storeVars>>

(* `NodeDirectory`: the address of each node id, None for one not in it.   *)
NodeDirectory  == [Peer -> SUBSET Addr]
EmptyDirectory == [n \in Peer |-> {}]

SnapshotMeta   == [last_log_id : Nat, last_membership : Nat]
StoredSnapshot == [meta : SnapshotMeta, data : NodeDirectory]

StoreTypeOK ==
    /\ TypeOK
    /\ state \in [Peer -> NodeDirectory]
    /\ last_applied \in [Peer -> Nat]
    /\ last_membership \in [Peer -> Nat]
    /\ snapshot \in [Peer -> SUBSET StoredSnapshot]
    /\ builder \in [Peer -> SUBSET SnapshotMeta]
    /\ carried \subseteq StoredSnapshot
    /\ builders \in Nat

StoreInit ==
    /\ Init
    /\ state = [n \in Peer |-> EmptyDirectory]
    /\ last_applied = [n \in Peer |-> 0]
    /\ last_membership = [n \in Peer |-> 0]
    /\ snapshot = [n \in Peer |-> {}]
    /\ builder = [n \in Peer |-> {}]
    /\ carried = {} /\ builders = 0

(* Mutant: `entry(id).or_insert(addr)`.                                    *)
AfterCommand_OrInsert(d, c) == [d EXCEPT ![c.id] = IF @ = {} THEN {c.addr} ELSE @]

(* `NodeDirectory::apply`: `insert` replaces what was there.               *)
AfterCommand(d, c) == [d EXCEPT ![c.id] = {c.addr}]

(* `applied_state`, which openraft reads to know where to go on.           *)
NextEntry(n) == last_applied[n] + 1

(* One round of the loop of `apply`.                                       *)
ApplyEntry(n) ==
    LET i == NextEntry(n)
    IN  /\ i <= Len(log)
        /\ last_applied' = [last_applied EXCEPT ![n] = i]
        /\ state' = [state EXCEPT ![n] = IF log[i] \in NodeCommand THEN AfterCommand(@, log[i])
                                                                   ELSE @]
        /\ last_membership' = [last_membership EXCEPT ![n] = IF log[i] = Membership THEN i ELSE @]
        /\ UNCHANGED <<vars, snapshot, builder, carried, builders>>

(* The bookkeeping is copied, the directory is shared.                     *)
GetSnapshotBuilder(n) ==
    /\ builders < MaxBuilders
    /\ builders' = builders + 1
    /\ builder[n] = {}
    /\ builder' = [builder EXCEPT ![n] = {[last_log_id     |-> last_applied[n],
                                           last_membership |-> last_membership[n]]}]
    /\ UNCHANGED <<vars, state, last_applied, last_membership, snapshot, carried>>

(* The builder's task reads the directory as it is now, and goes away with *)
(* the copy of the snapshot it stored in itself.                           *)
BuildSnapshot(n) ==
    \E meta \in builder[n] :
        /\ builder' = [builder EXCEPT ![n] = {}]
        /\ carried' = carried \cup {[meta |-> meta, data |-> state[n]]}
        /\ UNCHANGED <<vars, state, last_applied, last_membership, snapshot, builders>>

(* Mutant: the position moves, the directory stays.                        *)
InstalledData_Ignored(n, s) == state[n]

InstalledData(n, s) == s.data

(* `begin_receiving_snapshot` and `install_snapshot`, of one that is ahead.*)
InstallSnapshot(n, s) ==
    /\ s.meta.last_log_id > last_applied[n]
    /\ state' = [state EXCEPT ![n] = InstalledData(n, s)]
    /\ last_applied' = [last_applied EXCEPT ![n] = s.meta.last_log_id]
    /\ last_membership' = [last_membership EXCEPT ![n] = s.meta.last_membership]
    /\ snapshot' = [snapshot EXCEPT ![n] = {s}]
    /\ carried' = carried \ {s}
    /\ UNCHANGED <<vars, builder, builders>>

(* Another node that is behind asks for what this one installed.           *)
GetCurrentSnapshot(n) ==
    /\ ~(snapshot[n] \subseteq carried)
    /\ carried' = carried \cup snapshot[n]
    /\ UNCHANGED <<vars, state, last_applied, last_membership, snapshot, builder, builders>>

(* `NodeStateMachineStore::new` on a default NodeDirectory.                *)
NewStore(n) ==
    /\ state' = [state EXCEPT ![n] = EmptyDirectory]
    /\ last_applied' = [last_applied EXCEPT ![n] = 0]
    /\ last_membership' = [last_membership EXCEPT ![n] = 0]
    /\ snapshot' = [snapshot EXCEPT ![n] = {}]
    /\ builder' = [builder EXCEPT ![n] = {}]
    /\ UNCHANGED <<carried, builders>>

(* `client_write` answers once this node has applied the entry.            *)
AnswerRegistered(n) ==
    /\ last_applied[n] >= waits[n]
    /\ Registered(n)
    /\ UNCHANGED storeVars

RestartNode(n) == \E a \in Addr : Restart(n, a) /\ NewStore(n)

StoreNext ==
    \/ \E n \in Peer : \/ (BootstrapStep(n) \/ Elect(n) \/ WriteStep(n)) /\ UNCHANGED storeVars
                       \/ AnswerRegistered(n) \/ RestartNode(n)
                       \/ ApplyEntry(n) \/ GetSnapshotBuilder(n) \/ BuildSnapshot(n)
                       \/ GetCurrentSnapshot(n)
    \/ \E n \in Peer, s \in carried : InstallSnapshot(n, s)

(* The fairness of NodesGroup, and openraft applies what is committed.     *)
StoreSpec ==
    /\ StoreInit /\ [][StoreNext]_allVars
    /\ \A n \in Peer :
        /\ WF_allVars(WriteStep(n) /\ UNCHANGED storeVars)
        /\ WF_allVars(BootstrapStep(n) /\ UNCHANGED storeVars)
        /\ WF_allVars(leader = {} /\ Elect(n) /\ UNCHANGED storeVars)
        /\ WF_allVars(AnswerRegistered(n))
        /\ WF_allVars(ApplyEntry(n))

-----------------------------------------------------------------------------

(* A replica that has reached the end of the log lists every node at its   *)
(* latest address, although a snapshot it installed may hold entries       *)
(* beyond its own position that are then applied a second time: an upsert  *)
(* leaves nothing of what it replaces. And it knows the membership.        *)
CaughtUpDirectoriesAgree ==
    \A n \in Peer :
        last_applied[n] = Len(log) =>
            /\ state[n] = [m \in Peer |-> Listed(m)]
            /\ last_applied[n] > 0 => last_membership[n] = 1

(* Once elections and restarts are over, the node that leads has ended its *)
(* registration task, whatever was refused before, and every node that has *)
(* ended it is in the directory of every replica, also of one that was     *)
(* sent a snapshot or started from nothing in between.                     *)
RegistrationsSpread ==
    <>[](\A n, m \in Peer : /\ n \in leader => task[n] = "registered"
                            /\ task[n] = "registered" => state[m][n] # {})
=============================================================================
