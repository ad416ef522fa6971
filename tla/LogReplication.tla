--------------------------- MODULE LogReplication ---------------------------
(***************************************************************************)
(* The queue group as a whole: the durable log of every node (WalState),   *)
(* the queue data each node rebuilds from it, and openraft between them.   *)
(* It asks what the two storage halves are worth together: the log is      *)
(* purged behind a snapshot, and the snapshot is one that nobody keeps     *)
(* (state_machine.rs: `build_snapshot` runs on the clone that              *)
(* `get_snapshot_builder` returned, so the store's own stays None).        *)
(*                                                                         *)
(* openraft is external and taken at its protocol: majority elections with *)
(* the up-to-date check, commits of the leader's own term only, a snapshot *)
(* every `SnapshotEvery` entries and a purge that leaves `LogsToKeep` of   *)
(* them. A storage call is one step here; RaftEngineLogStore takes it      *)
(* apart. The queue data are the entries applied, oldest first.            *)
(***************************************************************************)
EXTENDS WalState, FiniteSets

CONSTANTS Node,           \* the keys of MQ_PEERS
          Lowest,         \* the node that bootstraps the group
          SnapshotEvery,  \* openraft's snapshot policy
          LogsToKeep,     \* openraft's max_in_snapshot_log_to_keep
          MaxTerm,        \* bound: terms
          MaxIndex,       \* bound: length of a log
          MaxStops        \* bound: processes that die

ASSUME ReplicationParameters ==
    /\ IsFiniteSet(Node)
    /\ Lowest \in Node
    /\ {SnapshotEvery, LogsToKeep, MaxTerm, MaxIndex, MaxStops} \subseteq Nat

VARIABLES
    wal,       \* what each node has on disk
    status,    \* "off", "up", or "failed": `Raft::new` returned an error
    data,      \* the queue data of each node: the entries applied to it
    applied,   \* last_applied of each node's state machine
    snap,      \* the position of the last snapshot openraft had built
    leads,     \* the nodes that act as leader, in the term of their vote
    acked,     \* openraft's progress: acked[n][m] is how far m told leader n
               \* that its log is n's. It goes with the lead.
    chosen,    \* the entries committed so far
    stops

vars == <<wal, status, data, applied, snap, leads, acked, chosen, stops>>

Term == 0..MaxTerm

TypeOK ==
    /\ wal \in [Node -> Wal(Term)]
    /\ status \in [Node -> {"off", "up", "failed"}]
    /\ data \in [Node -> Seq(Term)]
    /\ applied \in [Node -> Nat]
    /\ snap \in [Node -> Nat]
    /\ leads \subseteq Node
    /\ acked \in [Node -> [Node -> Nat]]
    /\ chosen \in Seq(Term)
    /\ stops \in 0..MaxStops

NoProgress == [m \in Node |-> 0]

Init ==
    /\ wal = [n \in Node |-> EmptyWal]
    /\ status = [n \in Node |-> "off"]
    /\ data = [n \in Node |-> <<>>]
    /\ applied = [n \in Node |-> 0]
    /\ snap = [n \in Node |-> 0]
    /\ leads = {}
    /\ acked = [n \in Node |-> NoProgress]
    /\ chosen = <<>>
    /\ stops = 0

-----------------------------------------------------------------------------
Log(n)      == wal[n].log
IsMajority(Q) == 2 * Cardinality(Q) > Cardinality(Node)

(* The last index up to which two logs hold the same entries.              *)
Matching(l, k) ==
    CHOOSE i \in 0..Len(l) :
        /\ i <= Len(k) /\ SubSeq(l, 1, i) = SubSeq(k, 1, i)
        /\ i < Len(l) /\ i < Len(k) => l[i + 1] # k[i + 1]

Last(l) == IF l = <<>> THEN 0 ELSE l[Len(l)]

UpToDate(l, k) == Last(l) > Last(k) \/ (Last(l) = Last(k) /\ Len(l) >= Len(k))

(* `bootstrap` of the lowest node: the first membership, at index 0 of     *)
(* term 0. An error where there is a log.                                  *)
Initialize ==
    /\ status[Lowest] = "up"
    /\ wal[Lowest] = EmptyWal
    /\ wal' = [wal EXCEPT ![Lowest] = WithEntries(@, 1, <<0>>)]
    /\ UNCHANGED <<status, data, applied, snap, leads, acked, chosen, stops>>

(* A node that has a membership is voted for by Q and appends a blank entry*)
Elect(n, Q) ==
    /\ IsMajority(Q)
    /\ n \in Q
    /\ Log(n) # <<>> /\ Len(Log(n)) < MaxIndex
    /\ \A m \in Q : status[m] = "up" /\ UpToDate(Log(n), Log(m))
    /\ \E t \in 1..MaxTerm :
        /\ \A m \in Q : wal[m].vote < t
        /\ \E m \in Q : wal[m].vote + 1 = t
        /\ wal' = [m \in Node |->
                     IF m = n THEN WithEntries(WithVote(wal[n], t), Len(Log(n)) + 1, <<t>>)
                     ELSE IF m \in Q THEN WithVote(wal[m], t) ELSE wal[m]]
    /\ leads' = (leads \ Q) \cup {n}
    /\ acked' = [m \in Node |-> IF m \in Q THEN NoProgress ELSE acked[m]]
    /\ UNCHANGED <<status, data, applied, snap, chosen, stops>>

(* `client_write` on the leader                                            *)
ClientWrite(n) ==
    /\ n \in leads
    /\ Len(Log(n)) < MaxIndex
    /\ wal' = [wal EXCEPT ![n] = WithEntries(@, Len(Log(n)) + 1, <<wal[n].vote>>)]
    /\ UNCHANGED <<status, data, applied, snap, leads, acked, chosen, stops>>

(* How far a follower has the leader's log once append_entries brought it  *)
(* the next entry, if there is one: what its answer acknowledges.          *)
Replicated(n, m) ==
    LET k == Matching(Log(n), Log(m)) IN
    IF k < Len(Log(n)) THEN k + 1 ELSE k

(* What append_entries of leader n makes of a follower's log: the next     *)
(* entry over whatever the follower had there, and the leader's commit     *)
(* position as far as the logs now agree.                                  *)
Received(n, m) ==
    LET k == Matching(Log(n), Log(m))
        r == Replicated(n, m)
        v == WithVote(IF r = k THEN wal[m] ELSE WithEntries(wal[m], r, <<Log(n)[r]>>),
                      wal[n].vote)
        c == IF wal[n].committed <= r THEN wal[n].committed ELSE r
    IN  IF c > v.committed THEN WithCommitted(v, c) ELSE v

(* The leader can read what follower m lacks. Where it cannot it asks the  *)
(* state machine store for its current snapshot, which is None.            *)
Servable(n, m) ==
    LET k == Matching(Log(n), Log(m)) IN
    k < Len(Log(n)) => Readable(wal[n], k + 1, k + 1)

AppendEntries(n, m) ==
    /\ n \in leads /\ m # n /\ status[m] = "up"
    /\ wal[m].vote <= wal[n].vote
    /\ Servable(n, m)
    /\ wal' = [wal EXCEPT ![m] = Received(n, m)]
    /\ leads' = leads \ {m}
    /\ acked' = [acked EXCEPT ![n][m] = Replicated(n, m), ![m] = NoProgress]
    /\ UNCHANGED <<status, data, applied, snap, chosen, stops>>

(* A follower answers with a higher vote: the leader takes it and resigns. *)
Rejected(n, m) ==
    /\ n \in leads /\ status[m] = "up"
    /\ wal[m].vote > wal[n].vote
    /\ wal' = [wal EXCEPT ![n] = WithVote(@, wal[m].vote)]
    /\ leads' = leads \ {n}
    /\ acked' = [acked EXCEPT ![n] = NoProgress]
    /\ UNCHANGED <<status, data, applied, snap, chosen, stops>>

(* An entry of the leader's own term is on a majority: on the leader and on*)
(* the nodes that acknowledged it to this leader. That a majority has the  *)
(* entry would not do: a later leader may have spread it, and lose it.     *)
Commit(n, c) ==
    /\ n \in leads
    /\ c \in (wal[n].committed + 1)..Len(Log(n))
    /\ Log(n)[c] = wal[n].vote
    /\ IsMajority({n} \cup {m \in Node : acked[n][m] >= c})
    /\ wal' = [wal EXCEPT ![n] = WithCommitted(@, c)]
    /\ chosen' = IF c > Len(chosen) THEN SubSeq(Log(n), 1, c) ELSE chosen
    /\ UNCHANGED <<status, data, applied, snap, leads, acked, stops>>

(* `apply` of the next committed entry                                     *)
Apply(n) ==
    /\ status[n] = "up"
    /\ applied[n] < wal[n].committed
    /\ Readable(wal[n], applied[n] + 1, applied[n] + 1)
    /\ data' = [data EXCEPT ![n] = Append(@, Log(n)[applied[n] + 1])]
    /\ applied' = [applied EXCEPT ![n] = @ + 1]
    /\ UNCHANGED <<wal, status, snap, leads, acked, chosen, stops>>

(* `purge` up to entry p, if it is not purged already                      *)
PurgedUpTo(w, p) == IF p > w.purged THEN Compacted(WithPurged(w, p), p) ELSE w

(* openraft has a snapshot built, of which only the position remains: the  *)
(* builder goes with its data. Then it purges the log behind it.           *)
BuildAndPurge(n) ==
    LET p == IF applied[n] > LogsToKeep THEN applied[n] - LogsToKeep ELSE 0 IN
    /\ status[n] = "up"
    /\ applied[n] >= snap[n] + SnapshotEvery
    /\ snap' = [snap EXCEPT ![n] = applied[n]]
    /\ wal' = [wal EXCEPT ![n] = PurgedUpTo(@, p)]
    /\ UNCHANGED <<status, data, applied, leads, acked, chosen, stops>>

-----------------------------------------------------------------------------
(* The process dies and its memory is gone.                                *)
Stop(n) ==
    /\ status[n] = "up"
    /\ stops < MaxStops
    /\ stops' = stops + 1
    /\ status' = [status EXCEPT ![n] = "off"]
    /\ data' = [data EXCEPT ![n] = <<>>]
    /\ applied' = [applied EXCEPT ![n] = 0]
    /\ snap' = [snap EXCEPT ![n] = 0]
    /\ leads' = leads \ {n}
    /\ acked' = [acked EXCEPT ![n] = NoProgress]
    /\ UNCHANGED <<wal, chosen>>

(* `main` opens the log, makes an empty state machine and `Raft::new`      *)
(* replays the committed entries into it.                                  *)
Start(n) ==
    /\ status[n] = "off"
    /\ StartupAccepted(wal[n])
    /\ status' = [status EXCEPT ![n] = "up"]
    /\ data' = [data EXCEPT ![n] = SubSeq(Log(n), wal[n].first, wal[n].committed)]
    /\ applied' = [applied EXCEPT ![n] = wal[n].committed]
    /\ UNCHANGED <<wal, snap, leads, acked, chosen, stops>>

StartFails(n) ==
    /\ status[n] = "off"
    /\ ~StartupAccepted(wal[n])
    /\ status' = [status EXCEPT ![n] = "failed"]
    /\ UNCHANGED <<wal, data, applied, snap, leads, acked, chosen, stops>>

Next ==
    \/ Initialize
    \/ \E n \in Node :
        \/ \E Q \in SUBSET Node : Elect(n, Q)
        \/ ClientWrite(n) \/ Apply(n) \/ BuildAndPurge(n)
        \/ \E m \in Node : AppendEntries(n, m) \/ Rejected(n, m)
        \/ \E c \in 1..MaxIndex : Commit(n, c)
        \/ Stop(n) \/ Start(n) \/ StartFails(n)

Spec == Init /\ [][Next]_vars

(* openraft's tasks run on: it answers RPCs, commits, applies, and a node  *)
(* that is off is started by its launcher. Nothing makes anyone write,     *)
(* take a snapshot or die, and no election is owed.                        *)
FairSpec ==
    /\ Spec
    /\ \A n \in Node :
        /\ WF_vars(Apply(n)) /\ WF_vars(Start(n) \/ StartFails(n))
        /\ WF_vars(\E c \in 1..MaxIndex : Commit(n, c))
        /\ WF_vars(\E m \in Node : Rejected(n, m))
        /\ \A m \in Node \ {n} : WF_vars(AppendEntries(n, m))

-----------------------------------------------------------------------------

(* A committed entry is the same on every disk that has it below its own   *)
(* commit position: the suffix that a `truncate` leaves to the next append *)
(* never gets a leader elected that lacks what was committed.              *)
CommittedPrefixesAgree ==
    \A n \in Node :
        /\ wal[n].committed <= Len(chosen)
        /\ SubSeq(Log(n), 1, wal[n].committed) = SubSeq(chosen, 1, wal[n].committed)

(* "only the applied QueueState above is still in-memory and gets rebuilt  *)
(* by replaying the log on startup": a node that is up has every committed *)
(* entry up to its position in its queue, the purged ones included.        *)
QueueIsWholePrefix ==
    \A n \in Node : status[n] = "up" =>
        /\ applied[n] <= Len(chosen)
        /\ data[n] = SubSeq(chosen, 1, applied[n])

(* The leader has purged an entry that m lacks.                            *)
CutOff(n, m) == Matching(Log(n), Log(m)) < wal[n].purged

(* "the others just need to be reachable, they join via normal log         *)
(* replication once a leader is elected": in the end every node that is up *)
(* has applied what a leader has committed, unless it lacks an entry that  *)
(* the leader has purged.                                                  *)
FollowersCatchUp ==
    <>[](\A n \in leads, m \in Node :
            status[m] = "up" => applied[m] >= wal[n].committed \/ CutOff(n, m))
=============================================================================
