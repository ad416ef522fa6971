------------------------- MODULE RaftEngineLogStore -------------------------
(***************************************************************************)
(* The durable log of one Raft group on one node                           *)
(* (raft_engine_log_store.rs): what reaches the disk and in which order,   *)
(* what a crash can leave behind, and what `open` finds afterwards.        *)
(*                                                                         *)
(* openraft (`core`) and raft-engine (`wal`) are external. openraft runs   *)
(* one storage call at a time; raft-engine makes a write with sync = true  *)
(* durable together with all earlier ones, cuts the old suffix when        *)
(* entries are appended below its end, refuses a read that touches a       *)
(* compacted entry, and does not sync a compaction.                        *)
(*                                                                         *)
(* Positions and entries are those of WalState.                            *)
(***************************************************************************)
EXTENDS WalState

CONSTANTS MaxTerm,     \* bound: terms
          MaxIndex,    \* bound: length of the log
          MaxBatch,    \* bound: entries in one append
          MaxCrashes   \* bound: crashes

ASSUME LogStoreBounds == {MaxTerm, MaxIndex, MaxBatch, MaxCrashes} \subseteq Nat

VARIABLES
    core,           \* what openraft was told: log, vote, committed, purged
    chosen,         \* the entries the cluster has committed
    wal,            \* what the engine holds: log, first, vote, committed, purged
    synced_first,   \* the first entry a power failure would leave in the log
    up,             \* "up", "down", or "failed": `Raft::new` returned an error
    crashes

vars == <<core, chosen, wal, synced_first, up, crashes>>

Term == 1..MaxTerm

TypeOK ==
    /\ core \in [log : Seq(Term), vote : Nat, committed : Nat, purged : Nat]
    /\ chosen \in Seq(Term)
    /\ wal \in Wal(Term)
    /\ synced_first \in Nat \ {0}
    /\ up \in {"up", "down", "failed"}
    /\ crashes \in Nat

Init ==
    /\ core = [log |-> <<>>, vote |-> 0, committed |-> 0, purged |-> 0]
    /\ chosen = <<>>
    /\ wal = EmptyWal
    /\ synced_first = 1
    /\ up = "up"
    /\ crashes = 0

-----------------------------------------------------------------------------
(* `engine.write(batch, true)` has returned.                               *)
Write(w) ==
    /\ wal' = w
    /\ synced_first' = w.first

(* The batch reached the disk, the caller never learnt it.                 *)
Interrupted(w) ==
    /\ crashes < MaxCrashes
    /\ crashes' = crashes + 1
    /\ up' = "down"
    /\ Write(w)
    /\ UNCHANGED core

-----------------------------------------------------------------------------
(* The storage calls, with the order openraft makes them in as guards.     *)

VoteAllowed(v) == up = "up" /\ v > core.vote

SaveVote(v) ==
    /\ VoteAllowed(v)
    /\ Write(WithVote(wal, v))
    /\ core' = [core EXCEPT !.vote = v]
    /\ UNCHANGED <<chosen, up, crashes>>

(* Entries of terms up to the node's vote, never older than their           *)
(* predecessor.                                                            *)
AppendAllowed(es) ==
    /\ up = "up"
    /\ es # <<>>
    /\ Len(core.log) + Len(es) <= MaxIndex
    /\ Ordered(core.log \o es)
    /\ es[Len(es)] <= core.vote

NextIndex == Len(core.log) + 1

(* fsync, then the callback. An error takes the other branch and openraft  *)
(* stops: see Crash.                                                       *)
AppendLog(es) ==
    /\ AppendAllowed(es)
    /\ Write(WithEntries(wal, NextIndex, es))
    /\ core' = [core EXCEPT !.log = @ \o es]
    /\ UNCHANGED <<chosen, up, crashes>>

(* A new leader's log differs from index i on, above what is committed. The*)
(* call touches nothing: the append that follows will cut the suffix.      *)
Truncate(i) ==
    /\ up = "up"
    /\ i \in (Len(chosen) + 1)..Len(core.log)
    /\ core' = [core EXCEPT !.log = SubSeq(@, 1, i - 1)]
    /\ UNCHANGED <<chosen, wal, synced_first, up, crashes>>

CommitAllowed(c) == up = "up" /\ c > core.committed /\ c <= Len(core.log)

(* The cluster's committed prefix is at least this.                        *)
ChosenUpTo(c) == chosen' = IF c > Len(chosen) THEN SubSeq(core.log, 1, c) ELSE chosen

SaveCommitted(c) ==
    /\ CommitAllowed(c)
    /\ ChosenUpTo(c)
    /\ Write(WithCommitted(wal, c))
    /\ core' = [core EXCEPT !.committed = c]
    /\ UNCHANGED <<up, crashes>>

(* openraft purges entries that a snapshot covers, hence applied ones.     *)
PurgeAllowed(p) == up = "up" /\ p > core.purged /\ p <= core.committed

(* The marker is synced, the compaction after it is not.                   *)
Purge(p) ==
    /\ PurgeAllowed(p)
    /\ wal' = Compacted(WithPurged(wal, p), p)
    /\ synced_first' = wal.first
    /\ core' = [core EXCEPT !.purged = p]
    /\ UNCHANGED <<chosen, up, crashes>>

-----------------------------------------------------------------------------
(* Crashes and the next start.                                             *)

VoteInterrupted(v) ==
    /\ VoteAllowed(v)
    /\ Interrupted(WithVote(wal, v))
    /\ UNCHANGED chosen

AppendInterrupted(es) ==
    /\ AppendAllowed(es)
    /\ Interrupted(WithEntries(wal, NextIndex, es))
    /\ UNCHANGED chosen

CommitInterrupted(c) ==
    /\ CommitAllowed(c)
    /\ ChosenUpTo(c)
    /\ Interrupted(WithCommitted(wal, c))

(* Mutant: the entries go before the marker.                               *)
PurgeInterrupted_CompactsFirst(p) ==
    /\ PurgeAllowed(p)
    /\ Interrupted(Compacted(wal, p))
    /\ UNCHANGED chosen

(* Between the two writes of `purge`.                                      *)
PurgeInterrupted(p) ==
    /\ PurgeAllowed(p)
    /\ Interrupted(WithPurged(wal, p))
    /\ UNCHANGED chosen

(* The process dies, or stops because a write returned an error; with the  *)
(* machine it also loses a compaction that was not synced.                 *)
Crash ==
    /\ up = "up"
    /\ crashes < MaxCrashes
    /\ crashes' = crashes + 1
    /\ up' = "down"
    /\ \E first \in {synced_first, wal.first} : Write([wal EXCEPT !.first = first])
    /\ UNCHANGED <<core, chosen>>

(* Mutant: the vote is not read back.                                      *)
Recovered_ForgetsVote ==
    [log |-> SubSeq(wal.log, 1, LastLogId(wal)), vote |-> 0,
     committed |-> wal.committed, purged |-> wal.purged]

(* `get_log_state`, `read_vote` and `read_committed`.                      *)
Recovered ==
    [log |-> SubSeq(wal.log, 1, LastLogId(wal)), vote |-> wal.vote,
     committed |-> wal.committed, purged |-> wal.purged]

(* `open`, the reads, and the replay of the committed entries.             *)
Reopen ==
    /\ up = "down"
    /\ StartupAccepted(wal)
    /\ up' = "up"
    /\ core' = Recovered
    /\ UNCHANGED <<chosen, wal, synced_first, crashes>>

(* `Raft::new(..).await?` in `main` fails, and will at the next attempt.   *)
StartupFails ==
    /\ up = "down"
    /\ ~StartupAccepted(wal)
    /\ up' = "failed"
    /\ UNCHANGED <<core, chosen, wal, synced_first, crashes>>

Batch == UNION {[1..n -> Term] : n \in 1..MaxBatch}

Next ==
    \/ \E v \in Term : SaveVote(v) \/ VoteInterrupted(v)
    \/ \E es \in Batch : AppendLog(es) \/ AppendInterrupted(es)
    \/ \E i \in 1..MaxIndex : \/ Truncate(i)
                              \/ SaveCommitted(i) \/ CommitInterrupted(i)
                              \/ Purge(i) \/ PurgeInterrupted(i)
    \/ Crash \/ Reopen \/ StartupFails

Spec == Init /\ [][Next]_vars

-----------------------------------------------------------------------------

(* "a completed append is durable": whatever crashes later, the engine     *)
(* holds every entry whose append was reported complete and that openraft  *)
(* has not truncated since, except the purged ones.                        *)
AcknowledgedEntriesSurvive ==
    /\ Len(core.log) <= Len(wal.log)
    /\ \A i \in wal.first..Len(core.log) : wal.log[i] = core.log[i]

(* What a restart finds is one Raft log: a `truncate` that does nothing    *)
(* never leaves entries of an older term behind newer ones.                *)
RecoveredLogIsOrdered == Ordered(wal.log)

(* "openraft's startup validation requires `purge_upto <= committed`", and *)
(* nothing is missing above the purge marker: at every instant a crash     *)
(* would leave these three positions in order.                             *)
PositionsStayOrdered ==
    /\ wal.first <= wal.purged + 1
    /\ wal.purged <= wal.committed
    /\ wal.committed <= LastLogId(wal)
    /\ synced_first <= wal.first

(* A restart never takes back a vote, a commit position or a purge that    *)
(* openraft was told is saved.                                             *)
NothingSavedRegresses ==
    [][/\ core'.vote >= core.vote
       /\ core'.committed >= core.committed
       /\ core'.purged >= core.purged]_vars

(* "the log (and the vote) survive a node restart - only the applied       *)
(* QueueState above is still in-memory and gets rebuilt by replaying the   *)
(* log on startup".                                                        *)
RestartReplaysTheLog == up # "failed"
=============================================================================
