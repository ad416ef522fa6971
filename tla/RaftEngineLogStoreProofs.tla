---------------------- MODULE RaftEngineLogStoreProofs ----------------------
(***************************************************************************)
(* Proofs about RaftEngineLogStore, for any number of terms, entries and   *)
(* crashes: what openraft was told is saved stays in the engine, the three *)
(* positions of the engine stay in order at every instant a crash may      *)
(* strike, and a restart takes nothing back.                               *)
(***************************************************************************)
EXTENDS RaftEngineLogStore, SequenceTheorems, TLAPS

(* The engine holds every entry openraft was told of; while the entries    *)
(* are kept for reference, the compacted ones agree too.                   *)
EngineHoldsTheLog ==
    /\ Len(core.log) <= Len(wal.log)
    /\ \A i \in 1..Len(core.log) : wal.log[i] = core.log[i]

(* first <= purged + 1 <= committed + 1 <= length + 1                      *)
Markers ==
    /\ wal.first <= wal.purged + 1
    /\ wal.purged <= wal.committed
    /\ wal.committed <= Len(wal.log)
    /\ synced_first <= wal.first

(* openraft is never told of more than the engine has, and while the node  *)
(* runs it knows exactly what the engine has: only an interrupted write is *)
(* on the disk unannounced, and the node is down then.                     *)
ToldIsSaved ==
    /\ core.vote <= wal.vote
    /\ core.committed <= wal.committed
    /\ core.purged <= wal.purged
    /\ up = "up" => /\ core.vote = wal.vote
                    /\ core.committed = wal.committed
                    /\ core.purged = wal.purged

(* A commit position is never ahead of what the cluster has committed,     *)
(* which `truncate` therefore never touches.                               *)
CommittedIsChosen == wal.committed <= Len(chosen) /\ Len(chosen) <= Len(core.log)

LogStoreInv ==
    /\ TypeOK
    /\ EngineHoldsTheLog
    /\ Ordered(wal.log)
    /\ Markers
    /\ ToldIsSaved
    /\ CommittedIsChosen

-----------------------------------------------------------------------------
(* What the writes make of the engine.                                     *)

LEMMA RecordsHaveTheirFields ==
    ASSUME TypeOK
    PROVE  /\ core = [log |-> core.log, vote |-> core.vote,
                      committed |-> core.committed, purged |-> core.purged]
           /\ core.log \in Seq(Term) /\ core.vote \in Nat
           /\ core.committed \in Nat /\ core.purged \in Nat
           /\ wal = [log |-> wal.log, first |-> wal.first, vote |-> wal.vote,
                     committed |-> wal.committed, purged |-> wal.purged]
           /\ wal.log \in Seq(Term) /\ wal.first \in Nat \ {0} /\ wal.vote \in Nat
           /\ wal.committed \in Nat /\ wal.purged \in Nat
           /\ chosen \in Seq(Term) /\ synced_first \in Nat \ {0}
           /\ up \in {"up", "down", "failed"} /\ crashes \in Nat
  BY DEF TypeOK, Wal

(* The entries of a log and what is written behind them: the old suffix is *)
(* gone, whatever it was.                                                  *)
LEMMA WriteReplacesTheSuffix ==
    ASSUME NEW S, NEW l \in Seq(S), NEW old \in Seq(S), NEW es \in Seq(S),
           Len(l) <= Len(old), \A i \in 1..Len(l) : old[i] = l[i]
    PROVE  /\ SubSeq(old, 1, Len(l)) = l
           /\ l \o es \in Seq(S)
           /\ Len(l \o es) = Len(l) + Len(es)
           /\ \A i \in 1..Len(l) : (l \o es)[i] = l[i]
<1>1. Len(l) \in Nat /\ Len(es) \in Nat /\ Len(old) \in Nat
  BY LenProperties
<1>2. \A i \in 1..Len(l) : old[i] \in S
  BY <1>1, ElementOfSeq
<1> DEFINE pre == SubSeq(old, 1, Len(l))
<1>3. /\ pre \in Seq(S) /\ Len(pre) = Len(l)
      /\ \A i \in 1..Len(l) : pre[i] = old[i]
  BY <1>1, <1>2, SubSeqProperties
<1>4. pre = l
  BY <1>3, SeqEqual
<1>6. /\ l \o es \in Seq(S)
      /\ Len(l \o es) = Len(l) + Len(es)
      /\ \A i \in 1 .. Len(l) + Len(es) : (l \o es)[i] =
                     IF i <= Len(l) THEN l[i] ELSE es[i - Len(l)]
  BY ConcatProperties
<1>7. \A i \in 1..Len(l) : i \in 1 .. Len(l) + Len(es) /\ i <= Len(l)
  BY <1>1
<1> QED BY <1>4, <1>6, <1>7

(* A prefix of a log.                                                      *)
LEMMA PrefixOfALog ==
    ASSUME NEW S, NEW l \in Seq(S), NEW n \in Nat, n <= Len(l)
    PROVE  /\ SubSeq(l, 1, n) \in Seq(S)
           /\ Len(SubSeq(l, 1, n)) = n
           /\ \A i \in 1..n : SubSeq(l, 1, n)[i] = l[i]
<1>1. Len(l) \in Nat
  BY LenProperties
<1>2. \A i \in 1..n : l[i] \in S
  BY <1>1, ElementOfSeq
<1> QED BY <1>1, <1>2, SubSeqProperties

-----------------------------------------------------------------------------
(* Each write keeps the invariant, whether openraft learns of it or the    *)
(* node goes down with it on the disk.                                     *)

LEMMA VoteKeepsInv ==
    ASSUME LogStoreInv, NEW v \in Term, VoteAllowed(v), Write(WithVote(wal, v)),
           chosen' = chosen, crashes' \in Nat,
           \/ core' = core /\ up' = "down"
           \/ core' = [core EXCEPT !.vote = v] /\ up' = "up"
    PROVE  LogStoreInv'
<1> USE DEF LogStoreInv
<1>1. v \in Nat /\ v > core.vote /\ up = "up"
  BY DEF VoteAllowed, Term
<1>2. wal' = [wal EXCEPT !.vote = v] /\ synced_first' = wal.first
  BY RecordsHaveTheirFields DEF Write, WithVote
<1>3. /\ wal'.log = wal.log /\ wal'.first = wal.first /\ wal'.vote = v
      /\ wal'.committed = wal.committed /\ wal'.purged = wal.purged
  BY <1>2, RecordsHaveTheirFields
<1>4. /\ core'.log = core.log /\ core'.committed = core.committed
      /\ core'.purged = core.purged
      /\ \/ core'.vote = core.vote /\ up' = "down"
         \/ core'.vote = v /\ up' = "up"
  <2>0. /\ core = [log |-> core.log, vote |-> core.vote,
                   committed |-> core.committed, purged |-> core.purged]
    BY RecordsHaveTheirFields
  <2>1. CASE core' = core /\ up' = "down"
    BY <2>1
  <2>2. CASE core' = [core EXCEPT !.vote = v] /\ up' = "up"
    BY <2>0, <2>2
  <2> QED BY <2>1, <2>2
<1>5. TypeOK'
  BY <1>1, <1>2 DEF TypeOK, Wal
<1>6. EngineHoldsTheLog' /\ Ordered(wal'.log)
  BY <1>3, <1>4 DEF EngineHoldsTheLog
<1>7. Markers'
  BY <1>2, <1>3, RecordsHaveTheirFields DEF Markers
<1>8. ToldIsSaved'
  BY <1>1, <1>3, <1>4, RecordsHaveTheirFields DEF ToldIsSaved
<1>9. CommittedIsChosen'
  BY <1>3, <1>4 DEF CommittedIsChosen
<1> QED BY <1>5, <1>6, <1>7, <1>8, <1>9

LEMMA AppendKeepsInv ==
    ASSUME LogStoreInv, NEW es \in Seq(Term), AppendAllowed(es),
           Write(WithEntries(wal, NextIndex, es)),
           chosen' = chosen, crashes' \in Nat,
           NEW l, l = core.log \o es,
           \/ core' = core /\ up' = "down"
           \/ core' = [core EXCEPT !.log = l] /\ up' = "up"
    PROVE  LogStoreInv'
<1> USE DEF LogStoreInv
<1>1. /\ core.log \in Seq(Term) /\ wal.log \in Seq(Term)
      /\ Len(core.log) <= Len(wal.log) /\ \A i \in 1..Len(core.log) : wal.log[i] = core.log[i]
  BY RecordsHaveTheirFields DEF EngineHoldsTheLog
<1>2. /\ SubSeq(wal.log, 1, NextIndex - 1) \o es = l
      /\ l \in Seq(Term) /\ Len(l) = Len(core.log) + Len(es)
      /\ \A i \in 1..Len(core.log) : l[i] = core.log[i]
  <2>1. NextIndex - 1 = Len(core.log)
    BY <1>1, LenProperties DEF NextIndex
  <2>2. es \in Seq(Term)
    OBVIOUS
  <2> HIDE DEF LogStoreInv
  <2>3. SubSeq(wal.log, 1, Len(core.log)) = core.log
    BY <1>1, <2>2, WriteReplacesTheSuffix
  <2>4. core.log \o es \in Seq(Term) /\ Len(core.log \o es) = Len(core.log) + Len(es)
    BY <1>1, <2>2, WriteReplacesTheSuffix
  <2>5. \A i \in 1..Len(core.log) : (core.log \o es)[i] = core.log[i]
    BY <1>1, <2>2, WriteReplacesTheSuffix
  <2> QED BY <2>1, <2>3, <2>4, <2>5
<1>3. Len(core.log) \in Nat /\ Len(es) \in Nat /\ Len(chosen) \in Nat
  BY RecordsHaveTheirFields, LenProperties
<1>4. wal' = [wal EXCEPT !.log = l] /\ synced_first' = wal.first
  BY <1>2, RecordsHaveTheirFields DEF Write, WithEntries
<1>5. /\ wal'.log = l /\ wal'.first = wal.first /\ wal'.vote = wal.vote
      /\ wal'.committed = wal.committed /\ wal'.purged = wal.purged
  BY <1>4, RecordsHaveTheirFields
<1>6. /\ core'.vote = core.vote /\ core'.committed = core.committed
      /\ core'.purged = core.purged
      /\ \/ core'.log = core.log /\ up' = "down"
         \/ core'.log = l /\ up' = "up"
  <2>0. /\ core = [log |-> core.log, vote |-> core.vote,
                   committed |-> core.committed, purged |-> core.purged]
    BY RecordsHaveTheirFields
  <2>1. CASE core' = core /\ up' = "down"
    BY <2>1
  <2>2. CASE core' = [core EXCEPT !.log = l] /\ up' = "up"
    BY <2>0, <2>2
  <2> QED BY <2>1, <2>2
<1>7. up = "up" /\ Ordered(l)
  BY DEF AppendAllowed
<1>8. TypeOK'
  <2>1. core' = core \/ core' = [core EXCEPT !.log = l]
    OBVIOUS
  <2>2. up' \in {"up", "down", "failed"}
    BY <1>6
  <2> QED BY <1>2, <1>4, <2>1, <2>2 DEF TypeOK, Wal
<1>9. EngineHoldsTheLog'
  <2>1. CASE core'.log = core.log
    BY <1>2, <1>3, <1>5, <2>1 DEF EngineHoldsTheLog
  <2>2. CASE core'.log = l
    BY <1>2, <1>3, <1>5, <2>2 DEF EngineHoldsTheLog
  <2> QED BY <1>6, <2>1, <2>2
<1>10. Ordered(wal'.log)
  BY <1>5, <1>7
<1>11. Markers'
  <2>1. wal.committed <= Len(l)
    BY <1>2, <1>3, RecordsHaveTheirFields DEF CommittedIsChosen
  <2> QED BY <1>4, <1>5, <2>1, RecordsHaveTheirFields DEF Markers
<1>12. ToldIsSaved'
  BY <1>5, <1>6, <1>7, RecordsHaveTheirFields DEF ToldIsSaved
<1>13. CommittedIsChosen'
  BY <1>2, <1>3, <1>5, <1>6, RecordsHaveTheirFields DEF CommittedIsChosen
<1> QED BY <1>8, <1>9, <1>10, <1>11, <1>12, <1>13

LEMMA CommitKeepsInv ==
    ASSUME LogStoreInv, NEW c \in Nat, CommitAllowed(c), ChosenUpTo(c),
           Write(WithCommitted(wal, c)), crashes' \in Nat,
           \/ core' = core /\ up' = "down"
           \/ core' = [core EXCEPT !.committed = c] /\ up' = "up"
    PROVE  LogStoreInv'
<1> USE DEF LogStoreInv
<1>1. /\ up = "up" /\ c > core.committed /\ c <= Len(core.log)
      /\ core.log \in Seq(Term) /\ Len(core.log) \in Nat
      /\ Len(wal.log) \in Nat /\ Len(chosen) \in Nat
  BY RecordsHaveTheirFields, LenProperties DEF CommitAllowed
<1>2. wal' = [wal EXCEPT !.committed = c] /\ synced_first' = wal.first
  BY RecordsHaveTheirFields DEF Write, WithCommitted
<1>3. /\ wal'.log = wal.log /\ wal'.first = wal.first /\ wal'.vote = wal.vote
      /\ wal'.committed = c /\ wal'.purged = wal.purged
  BY <1>2, RecordsHaveTheirFields
<1>4. /\ core'.log = core.log /\ core'.vote = core.vote
      /\ core'.purged = core.purged
      /\ \/ core'.committed = core.committed /\ up' = "down"
         \/ core'.committed = c /\ up' = "up"
  <2>0. /\ core = [log |-> core.log, vote |-> core.vote,
                   committed |-> core.committed, purged |-> core.purged]
    BY RecordsHaveTheirFields
  <2>1. CASE core' = core /\ up' = "down"
    BY <2>1
  <2>2. CASE core' = [core EXCEPT !.committed = c] /\ up' = "up"
    BY <2>0, <2>2
  <2> QED BY <2>1, <2>2
<1>5. /\ chosen' \in Seq(Term) /\ Len(chosen') >= c
      /\ Len(chosen') = Len(chosen) \/ Len(chosen') = c
  <2>1. CASE c > Len(chosen)
    BY <1>1, <2>1, PrefixOfALog DEF ChosenUpTo
  <2>2. CASE ~(c > Len(chosen))
    BY <1>1, <2>2, RecordsHaveTheirFields DEF ChosenUpTo
  <2> QED BY <2>1, <2>2
<1>6. TypeOK'
  BY <1>2, <1>5 DEF TypeOK, Wal
<1>7. EngineHoldsTheLog' /\ Ordered(wal'.log)
  BY <1>3, <1>4 DEF EngineHoldsTheLog
<1>8. Markers'
  <2>1. c <= Len(wal.log) /\ wal.purged <= c
    BY <1>1, RecordsHaveTheirFields DEF EngineHoldsTheLog, Markers, ToldIsSaved
  <2> QED BY <1>2, <1>3, <2>1, RecordsHaveTheirFields DEF Markers
<1>9. ToldIsSaved'
  BY <1>1, <1>3, <1>4, RecordsHaveTheirFields DEF ToldIsSaved
<1>10. CommittedIsChosen'
  BY <1>1, <1>3, <1>4, <1>5 DEF CommittedIsChosen
<1> QED BY <1>6, <1>7, <1>8, <1>9, <1>10

(* `purge` writes the marker and then compacts: in between, and after a    *)
(* power failure too, the compaction is behind the marker.                 *)
LEMMA PurgeKeepsInv ==
    ASSUME LogStoreInv, NEW p \in Nat, PurgeAllowed(p),
           NEW f \in Nat, wal.first <= f, f <= p + 1 \/ f = wal.first,
           wal' = [wal EXCEPT !.purged = p, !.first = f], synced_first' = wal.first,
           chosen' = chosen, crashes' \in Nat,
           \/ core' = core /\ up' = "down"
           \/ core' = [core EXCEPT !.purged = p] /\ up' = "up"
    PROVE  LogStoreInv'
<1> USE DEF LogStoreInv
<1>1. up = "up" /\ p > core.purged /\ p <= core.committed
  BY DEF PurgeAllowed
<1>2. /\ wal'.log = wal.log /\ wal'.first = f /\ wal'.vote = wal.vote
      /\ wal'.committed = wal.committed /\ wal'.purged = p
  BY RecordsHaveTheirFields
<1>3. /\ core'.log = core.log /\ core'.vote = core.vote
      /\ core'.committed = core.committed
      /\ \/ core'.purged = core.purged /\ up' = "down"
         \/ core'.purged = p /\ up' = "up"
  <2>0. /\ core = [log |-> core.log, vote |-> core.vote,
                   committed |-> core.committed, purged |-> core.purged]
    BY RecordsHaveTheirFields
  <2>1. CASE core' = core /\ up' = "down"
    BY <2>1
  <2>2. CASE core' = [core EXCEPT !.purged = p] /\ up' = "up"
    BY <2>0, <2>2
  <2> QED BY <2>1, <2>2
<1>4. f \in Nat \ {0}
  BY RecordsHaveTheirFields
<1>5. TypeOK'
  BY <1>4 DEF TypeOK, Wal
<1>6. EngineHoldsTheLog' /\ Ordered(wal'.log)
  BY <1>2, <1>3 DEF EngineHoldsTheLog
<1>7. Markers'
  BY <1>1, <1>2, RecordsHaveTheirFields DEF Markers, ToldIsSaved
<1>8. ToldIsSaved'
  BY <1>1, <1>2, <1>3, RecordsHaveTheirFields DEF ToldIsSaved
<1>9. CommittedIsChosen'
  BY <1>2, <1>3 DEF CommittedIsChosen
<1> QED BY <1>5, <1>6, <1>7, <1>8, <1>9

(* `truncate` only makes openraft forget entries above the committed ones. *)
LEMMA TruncateKeepsInv ==
    ASSUME LogStoreInv, NEW i \in Nat, Truncate(i)
    PROVE  LogStoreInv'
<1> USE DEF LogStoreInv
<1> DEFINE l == SubSeq(core.log, 1, i - 1)
<1>1. /\ core.log \in Seq(Term) /\ Len(core.log) \in Nat /\ Len(chosen) \in Nat
      /\ Len(wal.log) \in Nat
  BY RecordsHaveTheirFields, LenProperties
<1>2. i - 1 \in Nat /\ i - 1 <= Len(core.log) /\ Len(chosen) <= i - 1 /\ up = "up"
  BY <1>1 DEF Truncate
<1>3. /\ l \in Seq(Term) /\ Len(l) = i - 1 /\ \A j \in 1..(i - 1) : l[j] = core.log[j]
  BY <1>1, <1>2, PrefixOfALog
<1>4. /\ core' = [core EXCEPT !.log = l]
      /\ UNCHANGED <<chosen, wal, synced_first, up, crashes>>
  BY RecordsHaveTheirFields DEF Truncate
<1> HIDE DEF l
<1>5. /\ core'.log = l /\ core'.vote = core.vote /\ core'.committed = core.committed
      /\ core'.purged = core.purged
  BY <1>4, RecordsHaveTheirFields
<1>6. TypeOK'
  BY <1>3, <1>4 DEF TypeOK
<1>7. EngineHoldsTheLog'
  BY <1>1, <1>2, <1>3, <1>4, <1>5 DEF EngineHoldsTheLog
<1>8. Markers' /\ Ordered(wal'.log)
  BY <1>4 DEF Markers
<1>9. ToldIsSaved'
  BY <1>4, <1>5 DEF ToldIsSaved
<1>10. CommittedIsChosen'
  BY <1>1, <1>2, <1>3, <1>4, <1>5 DEF CommittedIsChosen
<1> QED BY <1>6, <1>7, <1>8, <1>9, <1>10

(* With the markers in order the last log id is that of the last entry,    *)
(* also when every entry is compacted.                                     *)
LEMMA LastIsTheLastEntry ==
    ASSUME LogStoreInv
    PROVE  LastLogId(wal) = Len(wal.log)
<1>1. Len(wal.log) \in Nat
  BY RecordsHaveTheirFields, LenProperties DEF LogStoreInv
<1> QED BY <1>1, RecordsHaveTheirFields DEF LastLogId, LogStoreInv, Markers

(* A crash may take an unsynced compaction back, nothing else.             *)
LEMMA CrashKeepsInv ==
    ASSUME LogStoreInv, Crash
    PROVE  LogStoreInv'
<1> USE DEF LogStoreInv
<1>1. PICK f \in {synced_first, wal.first} :
            wal' = [wal EXCEPT !.first = f] /\ synced_first' = wal'.first
  BY DEF Crash, Write
<1>2. f \in Nat \ {0} /\ f <= wal.first
  BY <1>1, RecordsHaveTheirFields DEF Markers
<1>3. /\ wal'.log = wal.log /\ wal'.first = f /\ wal'.vote = wal.vote
      /\ wal'.committed = wal.committed /\ wal'.purged = wal.purged
  BY <1>1, RecordsHaveTheirFields
<1>4. core' = core /\ chosen' = chosen /\ up' = "down"
  BY DEF Crash
<1>5. crashes' \in Nat
  BY RecordsHaveTheirFields DEF Crash
<1>6. TypeOK'
  BY <1>1, <1>2, <1>3, <1>4, <1>5 DEF TypeOK, Wal
<1>7. EngineHoldsTheLog' /\ Ordered(wal'.log) /\ ToldIsSaved' /\ CommittedIsChosen'
  BY <1>3, <1>4 DEF EngineHoldsTheLog, ToldIsSaved, CommittedIsChosen
<1>8. Markers'
  BY <1>1, <1>2, <1>3, RecordsHaveTheirFields DEF Markers
<1> QED BY <1>6, <1>7, <1>8

(* What a start tells openraft is what the engine holds, entry for entry.  *)
LEMMA ReopenKeepsInv ==
    ASSUME LogStoreInv, Reopen
    PROVE  LogStoreInv'
<1> USE DEF LogStoreInv
<1>1. /\ core' = Recovered /\ up' = "up"
      /\ UNCHANGED <<chosen, wal, synced_first, crashes>>
  BY DEF Reopen
<1>2. wal.log \in Seq(Term) /\ Len(wal.log) \in Nat
  BY RecordsHaveTheirFields, LenProperties
<1>3. /\ SubSeq(wal.log, 1, LastLogId(wal)) \in Seq(Term)
      /\ Len(SubSeq(wal.log, 1, LastLogId(wal))) = Len(wal.log)
      /\ \A i \in 1..Len(wal.log) : SubSeq(wal.log, 1, LastLogId(wal))[i] = wal.log[i]
  BY <1>2, LastIsTheLastEntry, PrefixOfALog
<1>4. /\ core'.log \in Seq(Term) /\ Len(core'.log) = Len(wal.log)
      /\ \A i \in 1..Len(wal.log) : core'.log[i] = wal.log[i]
      /\ core'.vote = wal.vote /\ core'.committed = wal.committed /\ core'.purged = wal.purged
  BY <1>1, <1>3 DEF Recovered
<1>5. TypeOK'
  <2>1. core' \in [log : Seq(Term), vote : Nat, committed : Nat, purged : Nat]
    BY <1>1, <1>3, RecordsHaveTheirFields DEF Recovered
  <2> QED BY <1>1, <2>1 DEF TypeOK
<1>6. EngineHoldsTheLog'
  BY <1>1, <1>2, <1>4 DEF EngineHoldsTheLog
<1>7. Markers' /\ Ordered(wal'.log)
  BY <1>1 DEF Markers
<1>8. ToldIsSaved'
  BY <1>1, <1>4, RecordsHaveTheirFields DEF ToldIsSaved
<1>9. CommittedIsChosen'
  <2>1. Len(chosen) \in Nat /\ Len(core.log) \in Nat
    BY RecordsHaveTheirFields, LenProperties
  <2> QED BY <1>1, <1>2, <1>4, <2>1 DEF CommittedIsChosen, EngineHoldsTheLog
<1> QED BY <1>5, <1>6, <1>7, <1>8, <1>9

-----------------------------------------------------------------------------

LEMMA InitLogStore == Init => LogStoreInv
<1> SUFFICES ASSUME Init PROVE LogStoreInv
  OBVIOUS
<1>1. /\ core = [log |-> <<>>, vote |-> 0, committed |-> 0, purged |-> 0]
      /\ chosen = <<>>
      /\ wal = [log |-> <<>>, first |-> 1, vote |-> 0, committed |-> 0, purged |-> 0]
      /\ synced_first = 1 /\ up = "up" /\ crashes = 0
  BY DEF Init, EmptyWal
<1>2. <<>> \in Seq(Term) /\ Len(<<>>) = 0
  OBVIOUS
<1>3. TypeOK
  BY <1>1, <1>2 DEF TypeOK, Wal
<1>4. EngineHoldsTheLog /\ Ordered(wal.log)
  BY <1>1, <1>2 DEF EngineHoldsTheLog, Ordered
<1>5. Markers /\ ToldIsSaved /\ CommittedIsChosen
  BY <1>1, <1>2 DEF Markers, ToldIsSaved, CommittedIsChosen
<1> QED BY <1>3, <1>4, <1>5 DEF LogStoreInv

LEMMA BatchIsASequence == Batch \subseteq Seq(Term)
<1>1. \A n \in 1..MaxBatch : n \in Nat
  BY LogStoreBounds
<1> QED BY <1>1, SeqDef DEF Batch

LEMMA NextLogStore == LogStoreInv /\ [Next]_vars => LogStoreInv'
<1> SUFFICES ASSUME LogStoreInv, [Next]_vars PROVE LogStoreInv'
  OBVIOUS
<1>a. TypeOK
  BY DEF LogStoreInv
<1>b. crashes \in Nat /\ crashes + 1 \in Nat /\ wal.first \in Nat
  BY <1>a, RecordsHaveTheirFields
<1>1. ASSUME NEW v \in Term, SaveVote(v) PROVE LogStoreInv'
  BY <1>1, <1>b, VoteKeepsInv DEF SaveVote, VoteAllowed
<1>2. ASSUME NEW v \in Term, VoteInterrupted(v) PROVE LogStoreInv'
  BY <1>2, <1>b, VoteKeepsInv DEF VoteInterrupted, Interrupted
<1>3. ASSUME NEW es \in Batch, AppendLog(es) PROVE LogStoreInv'
  <2>1. es \in Seq(Term)
    BY BatchIsASequence
  <2>2. /\ AppendAllowed(es) /\ Write(WithEntries(wal, NextIndex, es))
        /\ core' = [core EXCEPT !.log = core.log \o es] /\ UNCHANGED <<chosen, up, crashes>>
        /\ up = "up"
    BY <1>3 DEF AppendLog, AppendAllowed
  <2> QED BY <1>b, <2>1, <2>2, AppendKeepsInv
<1>4. ASSUME NEW es \in Batch, AppendInterrupted(es) PROVE LogStoreInv'
  <2>1. es \in Seq(Term)
    BY BatchIsASequence
  <2>2. /\ AppendAllowed(es) /\ Write(WithEntries(wal, NextIndex, es))
        /\ core' = core /\ chosen' = chosen /\ up' = "down" /\ crashes' = crashes + 1
    BY <1>4 DEF AppendInterrupted, Interrupted
  <2> QED BY <1>b, <2>1, <2>2, AppendKeepsInv
<1>d. \A i \in 1..MaxIndex : i \in Nat
  BY LogStoreBounds
<1>5. ASSUME NEW i \in 1..MaxIndex, Truncate(i) PROVE LogStoreInv'
  BY <1>5, <1>d, TruncateKeepsInv
<1>6. ASSUME NEW i \in 1..MaxIndex, SaveCommitted(i) PROVE LogStoreInv'
  BY <1>6, <1>b, <1>d, CommitKeepsInv DEF SaveCommitted, CommitAllowed
<1>7. ASSUME NEW i \in 1..MaxIndex, CommitInterrupted(i) PROVE LogStoreInv'
  BY <1>7, <1>b, <1>d, CommitKeepsInv DEF CommitInterrupted, Interrupted
<1>8. ASSUME NEW i \in 1..MaxIndex, Purge(i) PROVE LogStoreInv'
  <2> DEFINE f == IF i + 1 > wal.first THEN i + 1 ELSE wal.first
  <2>1. /\ i \in Nat /\ f \in Nat /\ wal.first <= f /\ (f <= i + 1 \/ f = wal.first)
    BY <1>b, <1>d
  <2>2. wal' = [wal EXCEPT !.purged = i, !.first = f]
    BY <1>8, <1>a, RecordsHaveTheirFields DEF Purge, Compacted, WithPurged
  <2>3. /\ PurgeAllowed(i) /\ synced_first' = wal.first /\ up = "up"
        /\ core' = [core EXCEPT !.purged = i] /\ UNCHANGED <<chosen, up, crashes>>
    BY <1>8 DEF Purge, PurgeAllowed
  <2> HIDE DEF f
  <2> QED BY <1>b, <2>1, <2>2, <2>3, PurgeKeepsInv
<1>9. ASSUME NEW i \in 1..MaxIndex, PurgeInterrupted(i) PROVE LogStoreInv'
  <2>1. /\ PurgeAllowed(i) /\ core' = core /\ chosen' = chosen /\ up' = "down"
        /\ crashes' = crashes + 1 /\ wal' = WithPurged(wal, i)
        /\ synced_first' = WithPurged(wal, i).first
    BY <1>9 DEF PurgeInterrupted, Interrupted, Write
  <2>2. /\ wal' = [wal EXCEPT !.purged = i, !.first = wal.first]
        /\ synced_first' = wal.first
    BY <1>a, <2>1, RecordsHaveTheirFields DEF WithPurged
  <2>3. wal.first <= wal.first
    BY <1>b
  <2> QED BY <1>b, <1>d, <2>1, <2>2, <2>3, PurgeKeepsInv
<1>10. CASE Crash
  BY <1>10, CrashKeepsInv
<1>11. CASE Reopen
  BY <1>11, ReopenKeepsInv
<1>12. CASE StartupFails
  <2>1. UNCHANGED <<core, chosen, wal, synced_first, crashes>> /\ up' = "failed"
    BY <1>12 DEF StartupFails
  <2> QED BY <2>1 DEF LogStoreInv, TypeOK, EngineHoldsTheLog, Markers, ToldIsSaved,
                      CommittedIsChosen
<1>13. CASE UNCHANGED vars
  <2>1. UNCHANGED <<core, chosen, wal, synced_first, up, crashes>>
    BY <1>13 DEF vars
  <2> QED BY <2>1 DEF LogStoreInv, TypeOK, EngineHoldsTheLog, Markers, ToldIsSaved,
                      CommittedIsChosen
<1> QED BY <1>1, <1>2, <1>3, <1>4, <1>5, <1>6, <1>7, <1>8, <1>9, <1>10, <1>11, <1>12, <1>13
        DEF Next

LEMMA LogStoreInvariant == Spec => []LogStoreInv
  BY InitLogStore, NextLogStore, PTL DEF Spec

-----------------------------------------------------------------------------

(* The state of the log store is well typed.                               *)
THEOREM LogStoreTypes == Spec => []TypeOK
<1>1. LogStoreInv => TypeOK
  BY DEF LogStoreInv
<1> QED BY <1>1, LogStoreInvariant, PTL

(* After any number of crashes at any of the points between the writes,    *)
(* the engine holds every entry whose append it reported complete and that *)
(* openraft has neither truncated nor purged.                              *)
THEOREM AppendsAreDurable == Spec => []AcknowledgedEntriesSurvive
<1>1. LogStoreInv => AcknowledgedEntriesSurvive
  <2> SUFFICES ASSUME LogStoreInv PROVE AcknowledgedEntriesSurvive
    OBVIOUS
  <2>1. wal.first \in Nat \ {0} /\ Len(core.log) \in Nat
    BY RecordsHaveTheirFields, LenProperties DEF LogStoreInv
  <2>2. \A i \in wal.first..Len(core.log) : i \in 1..Len(core.log)
    BY <2>1
  <2> QED BY <2>2 DEF LogStoreInv, EngineHoldsTheLog, AcknowledgedEntriesSurvive
<1> QED BY <1>1, LogStoreInvariant, PTL

(* The terms in the log a start would find never decrease, although        *)
(* `truncate` leaves the entries it should remove on the disk.             *)
THEOREM TruncatedTailsDoNotReturn == Spec => []RecoveredLogIsOrdered
<1>1. LogStoreInv => RecoveredLogIsOrdered
  BY DEF LogStoreInv, RecoveredLogIsOrdered
<1> QED BY <1>1, LogStoreInvariant, PTL

(* At every instant a crash would leave the compaction behind the purge    *)
(* marker, that behind the commit position, and that within the log.       *)
THEOREM MarkersStayOrdered == Spec => []PositionsStayOrdered
<1>1. LogStoreInv => PositionsStayOrdered
  <2> SUFFICES ASSUME LogStoreInv PROVE PositionsStayOrdered
    OBVIOUS
  <2> QED BY LastIsTheLastEntry DEF LogStoreInv, Markers, PositionsStayOrdered
<1> QED BY <1>1, LogStoreInvariant, PTL

(* No step, a restart least of all, takes back a vote, a commit position   *)
(* or a purge that openraft was told is saved: a node never votes twice in *)
(* a term because it was restarted.                                        *)
THEOREM RestartsTakeNothingBack == Spec => NothingSavedRegresses
<1> DEFINE NoRegress == /\ core'.vote >= core.vote
                        /\ core'.committed >= core.committed
                        /\ core'.purged >= core.purged
<1>1. LogStoreInv /\ [Next]_vars => [NoRegress]_vars
  <2> SUFFICES ASSUME LogStoreInv, Next PROVE NoRegress
    OBVIOUS
  <2>a. TypeOK /\ ToldIsSaved
    BY DEF LogStoreInv
  <2>b. core.vote \in Nat /\ core.committed \in Nat /\ core.purged \in Nat
    BY <2>a, RecordsHaveTheirFields
  <2>c. core = [log |-> core.log, vote |-> core.vote,
                committed |-> core.committed, purged |-> core.purged]
    BY <2>a, RecordsHaveTheirFields
  <2>1. CASE UNCHANGED core
    BY <2>1, <2>b
  <2>2. ASSUME NEW v \in Term, SaveVote(v) PROVE NoRegress
    <3>1. v \in Nat /\ v > core.vote /\ core' = [core EXCEPT !.vote = v]
      BY <2>2 DEF SaveVote, VoteAllowed, Term
    <3> QED BY <2>b, <2>c, <3>1
  <2>3. ASSUME NEW es \in Batch, AppendLog(es) PROVE NoRegress
    <3>1. core' = [core EXCEPT !.log = core.log \o es]
      BY <2>3 DEF AppendLog
    <3> QED BY <2>b, <2>c, <3>1
  <2>4. ASSUME NEW i \in 1..MaxIndex, Truncate(i) PROVE NoRegress
    <3>1. core' = [core EXCEPT !.log = SubSeq(core.log, 1, i - 1)]
      BY <2>4 DEF Truncate
    <3> QED BY <2>b, <2>c, <3>1
  <2>5. ASSUME NEW i \in 1..MaxIndex, SaveCommitted(i) PROVE NoRegress
    <3>1. i > core.committed /\ core' = [core EXCEPT !.committed = i]
      BY <2>5 DEF SaveCommitted, CommitAllowed
    <3> QED BY <2>b, <2>c, <3>1
  <2>6. ASSUME NEW i \in 1..MaxIndex, Purge(i) PROVE NoRegress
    <3>1. i > core.purged /\ core' = [core EXCEPT !.purged = i]
      BY <2>6 DEF Purge, PurgeAllowed
    <3> QED BY <2>b, <2>c, <3>1
  <2>7. CASE Reopen
    <3>1. /\ core'.vote = wal.vote /\ core'.committed = wal.committed
          /\ core'.purged = wal.purged
      BY <2>7 DEF Reopen, Recovered
    <3> QED BY <2>a, <2>b, <3>1, RecordsHaveTheirFields DEF ToldIsSaved
  <2> QED BY <2>1, <2>2, <2>3, <2>4, <2>5, <2>6, <2>7
          DEF Next, VoteInterrupted, AppendInterrupted, CommitInterrupted, PurgeInterrupted,
              Interrupted, Crash, StartupFails
<1> QED BY <1>1, LogStoreInvariant, PTL DEF Spec, NothingSavedRegresses
=============================================================================
