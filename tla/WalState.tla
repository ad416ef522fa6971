------------------------------ MODULE WalState ------------------------------
(***************************************************************************)
(* The contents of one raft-engine instance as RaftEngineLogStore keeps    *)
(* them (raft_engine_log_store.rs): what each of its writes makes of them  *)
(* and what its reads answer.                                              *)
(*                                                                         *)
(* `Some(log id at index i)` is i + 1 and None is 0. An entry is its term: *)
(* the blob around it is opaque to the engine but for the index. The log   *)
(* keeps compacted entries for reference: those below `first` are gone.    *)
(***************************************************************************)
EXTENDS Naturals, Sequences

Wal(Term) == [log : Seq(Term), first : Nat \ {0}, vote : Nat, committed : Nat, purged : Nat]

(* What `Engine::open` finds in an empty directory.                        *)
EmptyWal == [log |-> <<>>, first |-> 1, vote |-> 0, committed |-> 0, purged |-> 0]

Ordered(l) == \A i, j \in DOMAIN l : i <= j => l[i] <= l[j]

(* Mutant: the new entries are written over the old ones, whose tail stays.*)
WithEntries_InPlace(w, i, es) ==
    [w EXCEPT !.log = SubSeq(w.log, 1, i - 1) \o es \o SubSeq(w.log, i + Len(es), Len(w.log))]

(* Mutant: the suffix is cut one entry too early.                          *)
WithEntries_CutsOneMore(w, i, es) ==
    [w EXCEPT !.log = SubSeq(w.log, 1, i - 2) \o es]

(* `add_entries` from index i: raft-engine drops what it had from there.   *)
WithEntries(w, i, es) == [w EXCEPT !.log = SubSeq(w.log, 1, i - 1) \o es]

(* The three `put_message` keys.                                           *)
WithVote(w, v)      == [w EXCEPT !.vote = v]
WithCommitted(w, c) == [w EXCEPT !.committed = c]
WithPurged(w, p)    == [w EXCEPT !.purged = p]

(* Mutant: `compact_to(index - 1)`, below the first entry there can be.    *)
Compacted_OneBelow(w, p) == [w EXCEPT !.first = p - 1]

(* `compact_to(index + 1)`                                                 *)
Compacted(w, p) == [w EXCEPT !.first = IF p + 1 > @ THEN p + 1 ELSE @]

(* `get_log_state`: the last entry, or the last purged one if there is none*)
LastLogId(w) == IF w.first <= Len(w.log) THEN Len(w.log) ELSE w.purged

(* Mutant: a read that starts below the first entry starts there instead.  *)
Readable_Clamped(w, a, b) == b <= Len(w.log)

(* Mutant: an included end is taken for an excluded one.                   *)
Readable_EndExcluded(w, a, b) == a <= b => w.first <= a /\ b < Len(w.log)

(* `try_get_log_entries(a..=b)` is answered.                               *)
Readable(w, a, b) == a <= b => w.first <= a /\ b <= Len(w.log)

(* What openraft asks of the store on startup: the purge marker is covered *)
(* by the committed one, and the committed entries can be read from the    *)
(* first on, because the state machine is empty.                           *)
StartupAccepted(w) == w.purged <= w.committed /\ Readable(w, 1, w.committed)
=============================================================================
