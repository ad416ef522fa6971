----------------------- MODULE StateMachineStoreProofs ----------------------
(***************************************************************************)
(* Proofs about StateMachineStore, for any set of nodes, any log and any   *)
(* number of snapshots and restarts: replicas that replayed the log agree, *)
(* every replica's queues are gap-free, and the membership a node or a     *)
(* snapshot reports is the latest of the entries it reports as applied.    *)
(***************************************************************************)
EXTENDS StateMachineStore, SequenceTheorems, TLAPS

(* history is what the log makes of the empty state.                       *)
HistoryIsTheLog ==
    /\ Len(history) = Len(log) + 1
    /\ history[1] = EmptyState
    /\ \A i \in 1..Len(log) : history[i + 1] = AfterEntry(history[i], log[i])

(* A log position that was reached, with the latest membership below it.   *)
PositionOK(i, m) == i <= Len(log) /\ MembershipUpTo(i, m)

(* A builder's bookkeeping is a copy of its node's: as old, and as right.  *)
PositionsOK ==
    /\ \A n \in Node : PositionOK(last_applied[n], last_membership[n])
    /\ \A n \in Node : \A b \in builder[n] : PositionOK(b.last_log_id, b.last_membership)

SnapshotOK(s) ==
    /\ PositionOK(s.meta.last_log_id, s.meta.last_membership)
    /\ Contiguous(s.data)

(* The data of a snapshot may be newer than its meta, but they are the     *)
(* data of some replica.                                                   *)
SnapshotsOK ==
    /\ \A s \in carried : SnapshotOK(s)
    /\ \A n \in Node : \A s \in snapshot[n] : SnapshotOK(s)

StoreInv ==
    /\ TypeOK
    /\ HistoryIsTheLog
    /\ ReplayedReplicasAgree
    /\ ReplicasContiguous
    /\ PositionsOK
    /\ SnapshotsOK

-----------------------------------------------------------------------------
(* What one entry does to the queue data.                                  *)

LEMMA RequestKeepsType ==
    ASSUME NEW s \in QueueStates, NEW r \in QueueRequest
    PROVE  AfterRequest(s, r) \in QueueStates
<1>1. /\ s.queues \in [Queue -> Seq(Message)] /\ s.next_offset \in [Queue -> Nat]
  BY DEF QueueStates
<1>2. ASSUME NEW q \in Queue, NEW p \in Payload, r = Publish(q, p)
      PROVE  AfterRequest(s, r) \in QueueStates
  <2> DEFINE m == [offset |-> s.next_offset[q], payload |-> p]
  <2>1. m \in Message /\ s.queues[q] \in Seq(Message) /\ s.next_offset[q] + 1 \in Nat
    <3>1. s.next_offset[q] \in Nat /\ s.queues[q] \in Seq(Message)
      BY <1>1
    <3> QED BY <3>1 DEF Message
  <2>2. Append(s.queues[q], m) \in Seq(Message)
    BY <2>1, AppendProperties
  <2>3. (CHOOSE x \in {p} : TRUE) = p
    OBVIOUS
  <2>4. AfterRequest(s, r) = AfterPublish(s, q, p)
    BY <1>2, <2>3 DEF AfterRequest, Publish
  <2> HIDE DEF m
  <2>5. /\ [s.queues EXCEPT ![q] = Append(s.queues[q], m)] \in [Queue -> Seq(Message)]
        /\ [s.next_offset EXCEPT ![q] = s.next_offset[q] + 1] \in [Queue -> Nat]
    BY <1>1, <2>1, <2>2
  <2> QED BY <2>4, <2>5 DEF AfterPublish, QueueStates, m
<1>3. ASSUME NEW q \in Queue, r = Pop(q)
      PROVE  AfterRequest(s, r) \in QueueStates
  <2>1. AfterRequest(s, r) = AfterPop(s, q)
    BY <1>3 DEF AfterRequest, Pop
  <2>2. s.queues[q] # <<>> => Tail(s.queues[q]) \in Seq(Message)
    BY <1>1, HeadTailProperties
  <2> QED BY <1>1, <2>1, <2>2 DEF AfterPop, QueueStates
<1> QED BY <1>2, <1>3 DEF QueueRequest

(* The default QueueState is well formed.                                  *)
LEMMA EmptyStateContiguous == EmptyState \in QueueStates /\ Contiguous(EmptyState)
  BY DEF EmptyState, QueueStates, Contiguous, FrontOffset, Message

(* A queue that runs gap-free up to its counter.                           *)
GapFree(c, k) ==
    Len(c) <= k /\ \A i \in 1..Len(c) : c[i].offset = k - Len(c) + (i - 1)

(* A message with the counter's offset prolongs the run ...                *)
LEMMA AppendKeepsGapFree ==
    ASSUME NEW c \in Seq(Message), NEW k \in Nat, GapFree(c, k),
           NEW m \in Message, m.offset = k
    PROVE  GapFree(Append(c, m), k + 1)
<1>1. /\ Len(c) \in Nat /\ Len(Append(c, m)) = Len(c) + 1
      /\ \A i \in 1..Len(c) : Append(c, m)[i] = c[i]
      /\ Append(c, m)[Len(c) + 1] = m
  BY AppendProperties, LenProperties
<1>2. ASSUME NEW i \in 1..(Len(c) + 1)
      PROVE  Append(c, m)[i].offset = (k + 1) - (Len(c) + 1) + (i - 1)
  <2>1. CASE i = Len(c) + 1
    BY <1>1, <2>1
  <2>2. CASE i # Len(c) + 1
    <3>1. i \in 1..Len(c)
      BY <1>1, <2>2
    <3>2. Append(c, m)[i].offset = k - Len(c) + (i - 1)
      BY <1>1, <3>1 DEF GapFree
    <3> QED BY <1>1, <3>1, <3>2
  <2> QED BY <2>1, <2>2
<1> QED BY <1>1, <1>2 DEF GapFree

(* ... and what is left without its front is one.                          *)
LEMMA TailIsGapFree ==
    ASSUME NEW c \in Seq(Message), NEW k \in Nat, GapFree(c, k), c # <<>>
    PROVE  GapFree(Tail(c), k)
<1>1. /\ Len(c) \in Nat \ {0} /\ Len(Tail(c)) = Len(c) - 1
      /\ \A i \in 1..(Len(c) - 1) : Tail(c)[i] = c[i + 1]
  BY HeadTailProperties, EmptySeq, LenProperties
<1>2. ASSUME NEW i \in 1..(Len(c) - 1)
      PROVE  Tail(c)[i].offset = k - (Len(c) - 1) + (i - 1)
  <2>1. i + 1 \in 1..Len(c)
    BY <1>1
  <2>2. c[i + 1].offset = k - Len(c) + ((i + 1) - 1)
    BY <2>1 DEF GapFree
  <2> QED BY <1>1, <2>2
<1> QED BY <1>1, <1>2 DEF GapFree

LEMMA ContiguousIsGapFree ==
    ASSUME NEW s \in QueueStates
    PROVE  Contiguous(s) <=> \A q \in Queue : GapFree(s.queues[q], s.next_offset[q])
  BY DEF Contiguous, FrontOffset, GapFree

LEMMA RequestKeepsContiguous ==
    ASSUME NEW s \in QueueStates, NEW r \in QueueRequest, Contiguous(s)
    PROVE  Contiguous(AfterRequest(s, r))
<1>1. /\ s.queues \in [Queue -> Seq(Message)] /\ s.next_offset \in [Queue -> Nat]
      /\ \A q \in Queue : GapFree(s.queues[q], s.next_offset[q])
  BY ContiguousIsGapFree DEF QueueStates
<1>2. AfterRequest(s, r) \in QueueStates
  BY RequestKeepsType
<1>3. ASSUME NEW q \in Queue, NEW p \in Payload, r = Publish(q, p), NEW x \in Queue
      PROVE  GapFree(AfterRequest(s, r).queues[x], AfterRequest(s, r).next_offset[x])
  <2> DEFINE m == [offset |-> s.next_offset[q], payload |-> p]
  <2>1. (CHOOSE y \in {p} : TRUE) = p
    OBVIOUS
  <2>2. AfterRequest(s, r) = AfterPublish(s, q, p)
    BY <1>3, <2>1 DEF AfterRequest, Publish
  <2>3. /\ AfterPublish(s, q, p).queues = [s.queues EXCEPT ![q] = Append(@, m)]
        /\ AfterPublish(s, q, p).next_offset = [s.next_offset EXCEPT ![q] = @ + 1]
    BY DEF AfterPublish
  <2>4. CASE x # q
    BY <1>1, <2>2, <2>3, <2>4
  <2>5. CASE x = q
    <3>1. m \in Message /\ m.offset = s.next_offset[q]
      BY <1>1 DEF Message
    <3>2. GapFree(Append(s.queues[q], m), s.next_offset[q] + 1)
      BY <1>1, <3>1, AppendKeepsGapFree
    <3> QED BY <1>1, <2>2, <2>3, <2>5, <3>2
  <2> QED BY <2>4, <2>5
<1>4. ASSUME NEW q \in Queue, r = Pop(q), NEW x \in Queue
      PROVE  GapFree(AfterRequest(s, r).queues[x], AfterRequest(s, r).next_offset[x])
  <2>1. AfterRequest(s, r) = AfterPop(s, q)
    BY <1>4 DEF AfterRequest, Pop
  <2>2. /\ AfterPop(s, q).next_offset = s.next_offset
        /\ AfterPop(s, q).queues[x] \in {s.queues[x]} \cup
             (IF s.queues[x] = <<>> THEN {} ELSE {Tail(s.queues[x])})
    BY <1>1 DEF AfterPop
  <2>3. s.queues[x] # <<>> => GapFree(Tail(s.queues[x]), s.next_offset[x])
    BY <1>1, TailIsGapFree
  <2> QED BY <1>1, <2>1, <2>2, <2>3
<1>5. \A x \in Queue : GapFree(AfterRequest(s, r).queues[x], AfterRequest(s, r).next_offset[x])
  BY <1>3, <1>4 DEF QueueRequest
<1> QED BY <1>2, <1>5, ContiguousIsGapFree

LEMMA EntryKeepsTheQueues ==
    ASSUME NEW s \in QueueStates, NEW e \in Entry
    PROVE  /\ AfterEntry(s, e) \in QueueStates
           /\ Contiguous(s) => Contiguous(AfterEntry(s, e))
  BY RequestKeepsType, RequestKeepsContiguous DEF AfterEntry

-----------------------------------------------------------------------------

LEMMA TypesOfTheStore ==
    ASSUME TypeOK
    PROVE  /\ log \in Seq(Entry) /\ Len(log) \in Nat
           /\ \A i \in 1..Len(log) : log[i] \in Entry
           /\ history \in Seq(QueueStates) /\ Len(history) \in Nat
           /\ \A i \in 1..Len(history) : history[i] \in QueueStates
           /\ \A n \in Node : /\ state[n] \in QueueStates
                              /\ last_applied[n] \in Nat
                              /\ last_membership[n] \in Nat
<1>1. log \in Seq(Entry) /\ history \in Seq(QueueStates)
  BY DEF TypeOK
<1>2. /\ Len(log) \in Nat /\ Len(history) \in Nat
      /\ \A i \in 1..Len(log) : log[i] \in Entry
      /\ \A i \in 1..Len(history) : history[i] \in QueueStates
  BY <1>1, LenProperties, ElementOfSeq
<1> QED BY <1>1, <1>2 DEF TypeOK

LEMMA InitStore == Init => StoreInv
<1> SUFFICES ASSUME Init PROVE StoreInv
  OBVIOUS
<1>1. EmptyState \in QueueStates /\ Contiguous(EmptyState)
  BY EmptyStateContiguous
<1>2. /\ <<EmptyState>> \in Seq(QueueStates) /\ Len(<<EmptyState>>) = 1
      /\ <<EmptyState>>[1] = EmptyState
      /\ <<>> \in Seq(Entry) /\ Len(<<>>) = 0
  BY <1>1
<1>3. TypeOK
  BY <1>1, <1>2 DEF Init, TypeOK
<1>4. HistoryIsTheLog
  BY <1>2 DEF Init, HistoryIsTheLog
<1>5. ReplayedReplicasAgree /\ ReplicasContiguous
  BY <1>1, <1>2 DEF Init, ReplayedReplicasAgree, ReplicasContiguous
<1>6. PositionsOK
  BY <1>2 DEF Init, PositionsOK, PositionOK, MembershipUpTo
<1>7. SnapshotsOK
  BY DEF Init, SnapshotsOK
<1> QED BY <1>3, <1>4, <1>5, <1>6, <1>7 DEF StoreInv

(* A longer log changes nothing at the positions reached so far.           *)
LEMMA PositionsOutliveCommits ==
    ASSUME TypeOK, NEW e \in Entry, log' = Append(log, e),
           NEW i \in Nat, NEW m \in Nat, PositionOK(i, m)
    PROVE  PositionOK(i, m)'
<1>1. log \in Seq(Entry) /\ Len(log) \in Nat
  BY TypesOfTheStore
<1>2. Len(log') = Len(log) + 1 /\ \A j \in 1..Len(log) : log'[j] = log[j]
  BY <1>1, AppendProperties
<1>3. i <= Len(log) /\ m <= i
  BY DEF PositionOK, MembershipUpTo
<1>4. m > 0 => m \in 1..Len(log)
  BY <1>1, <1>3
<1>5. \A j \in (m + 1)..i : j \in 1..Len(log)
  BY <1>1, <1>3
<1> QED BY <1>1, <1>2, <1>3, <1>4, <1>5 DEF PositionOK, MembershipUpTo

LEMMA CommitKeepsStore ==
    ASSUME StoreInv, NEW e \in Entry, Commit(e)
    PROVE  StoreInv'
<1> USE DEF StoreInv
<1> DEFINE h == AfterEntry(history[Len(history)], e)
<1>1. /\ log' = Append(log, e) /\ history' = Append(history, h)
      /\ UNCHANGED <<state, last_applied, last_membership, snapshot, builder, carried, restarts>>
  BY DEF Commit
<1>2. /\ log \in Seq(Entry) /\ history \in Seq(QueueStates)
      /\ Len(log) \in Nat /\ Len(history) = Len(log) + 1
  BY TypesOfTheStore DEF HistoryIsTheLog
<1>3. h \in QueueStates
  <2>1. Len(history) \in 1..Len(history)
    BY <1>2
  <2>2. history[Len(history)] \in QueueStates
    BY <2>1, TypesOfTheStore
  <2> QED BY <2>2, EntryKeepsTheQueues
<1> HIDE DEF h
<1>4. /\ log' \in Seq(Entry) /\ Len(log') = Len(log) + 1
      /\ \A i \in 1..Len(log) : log'[i] = log[i]
      /\ log'[Len(log) + 1] = e
  BY <1>1, <1>2, AppendProperties
<1>5. /\ history' \in Seq(QueueStates) /\ Len(history') = Len(history) + 1
      /\ \A i \in 1..Len(history) : history'[i] = history[i]
      /\ history'[Len(history) + 1] = h
  BY <1>1, <1>2, <1>3, AppendProperties
<1>6. TypeOK'
  BY <1>1, <1>4, <1>5 DEF TypeOK
<1>7. HistoryIsTheLog'
  <2>1. history'[1] = EmptyState
    BY <1>2, <1>5 DEF HistoryIsTheLog
  <2>2. ASSUME NEW i \in 1..Len(log')
        PROVE  history'[i + 1] = AfterEntry(history'[i], log'[i])
    <3>1. CASE i \in 1..Len(log)
      <4>1. i \in 1..Len(history) /\ i + 1 \in 1..Len(history)
        BY <1>2, <3>1
      <4>2. history'[i] = history[i] /\ history'[i + 1] = history[i + 1] /\ log'[i] = log[i]
        BY <1>4, <1>5, <3>1, <4>1
      <4>3. history[i + 1] = AfterEntry(history[i], log[i])
        BY <3>1 DEF HistoryIsTheLog
      <4> QED BY <4>2, <4>3
    <3>2. CASE i = Len(log) + 1
      <4>1. i = Len(history) /\ i \in 1..Len(history)
        BY <1>2, <3>2
      <4>2. history'[i + 1] = h /\ history'[i] = history[Len(history)] /\ log'[i] = e
        BY <1>4, <1>5, <3>2, <4>1
      <4> QED BY <4>2 DEF h
    <3> QED BY <1>2, <1>4, <2>2, <3>1, <3>2
  <2> QED BY <1>2, <1>4, <1>5, <2>1, <2>2 DEF HistoryIsTheLog
<1>8. ReplayedReplicasAgree'
  <2>1. \A n \in Node : last_applied[n] + 1 \in 1..Len(history)
    BY <1>2, TypesOfTheStore DEF PositionsOK, PositionOK
  <2> QED BY <1>1, <1>5, <2>1 DEF ReplayedReplicasAgree
<1>9. ReplicasContiguous'
  BY <1>1 DEF ReplicasContiguous
<1>10. PositionsOK'
  <2>1. \A n \in Node : PositionOK(last_applied[n], last_membership[n])'
    BY <1>1, TypesOfTheStore, PositionsOutliveCommits DEF PositionsOK
  <2>2. \A n \in Node : \A b \in builder[n] :
            PositionOK(b.last_log_id, b.last_membership)'
    BY <1>1, PositionsOutliveCommits DEF PositionsOK, TypeOK, SnapshotMeta
  <2> QED BY <1>1, <2>1, <2>2 DEF PositionsOK
<1>11. SnapshotsOK'
  <2>1. ASSUME NEW s \in StoredSnapshot, SnapshotOK(s) PROVE SnapshotOK(s)'
    <3>1. s.meta.last_log_id \in Nat /\ s.meta.last_membership \in Nat
      BY DEF StoredSnapshot, SnapshotMeta
    <3> QED BY <1>1, <2>1, <3>1, PositionsOutliveCommits DEF SnapshotOK
  <2>2. carried \subseteq StoredSnapshot /\ \A n \in Node : snapshot[n] \subseteq StoredSnapshot
    BY DEF TypeOK
  <2> QED BY <1>1, <2>1, <2>2 DEF SnapshotsOK
<1> QED BY <1>6, <1>7, <1>8, <1>9, <1>10, <1>11

(* One round of the loop of `apply`.                                       *)
LEMMA ApplyKeepsStore ==
    ASSUME StoreInv, NEW n \in Node, ApplyEntry(n)
    PROVE  StoreInv'
<1> USE DEF StoreInv
<1> DEFINE i == last_applied[n] + 1
           t == AfterEntry(state[n], log[i])
           m == IF log[i] = Membership THEN i ELSE last_membership[n]
<1>1. /\ i <= Len(log)
      /\ last_applied' = [last_applied EXCEPT ![n] = i]
      /\ state' = [state EXCEPT ![n] = t]
      /\ last_membership' = [last_membership EXCEPT ![n] = m]
      /\ UNCHANGED <<log, history, snapshot, builder, carried, restarts>>
  BY DEF ApplyEntry, logVars
<1>2. /\ i \in Nat /\ i \in 1..Len(log) /\ last_applied[n] \in Nat /\ last_membership[n] \in Nat
      /\ log[i] \in Entry /\ state[n] \in QueueStates /\ Len(log) \in Nat
  BY <1>1, TypesOfTheStore
<1>3. t \in QueueStates /\ Contiguous(t)
  BY <1>2, EntryKeepsTheQueues DEF ReplicasContiguous
<1>4. m \in Nat /\ PositionOK(i, m)
  <2>1. PositionOK(last_applied[n], last_membership[n])
    BY DEF PositionsOK
  <2>2. CASE log[i] = Membership
    BY <1>2, <2>2 DEF PositionOK, MembershipUpTo
  <2>3. CASE log[i] # Membership
    <3>1. m = last_membership[n] /\ m <= last_applied[n] /\ m <= i
      BY <1>2, <2>1, <2>3 DEF PositionOK, MembershipUpTo
    <3>2. \A j \in (m + 1)..i : j \in (m + 1)..last_applied[n] \/ j = i
      BY <1>2, <3>1
    <3> QED BY <1>2, <2>1, <2>3, <3>1, <3>2 DEF PositionOK, MembershipUpTo
  <2> QED BY <2>2, <2>3
<1>5. snapshot[n] = {} => t = history[i + 1]
  <2>1. history[i + 1] = AfterEntry(history[i], log[i])
    BY <1>2 DEF HistoryIsTheLog
  <2> QED BY <2>1 DEF ReplayedReplicasAgree
<1>6. /\ DOMAIN state = Node /\ DOMAIN last_applied = Node /\ DOMAIN last_membership = Node
  BY DEF TypeOK
<1> HIDE DEF i, t, m
<1>7. /\ state'[n] = t /\ last_applied'[n] = i /\ last_membership'[n] = m
      /\ \A k \in Node \ {n} : /\ state'[k] = state[k]
                               /\ last_applied'[k] = last_applied[k]
                               /\ last_membership'[k] = last_membership[k]
  BY <1>1, <1>6
<1>8. TypeOK'
  BY <1>1, <1>2, <1>3, <1>4 DEF TypeOK
<1>9. HistoryIsTheLog'
  BY <1>1 DEF HistoryIsTheLog
<1>10. ReplayedReplicasAgree'
  BY <1>1, <1>5, <1>7 DEF ReplayedReplicasAgree
<1>11. ReplicasContiguous'
  BY <1>3, <1>7 DEF ReplicasContiguous
<1>12. \A k, l : PositionOK(k, l)' <=> PositionOK(k, l)
  BY <1>1 DEF PositionOK, MembershipUpTo
<1>13. PositionsOK'
  BY <1>1, <1>4, <1>7, <1>12 DEF PositionsOK
<1>14. SnapshotsOK'
  BY <1>1, <1>12 DEF SnapshotsOK, SnapshotOK
<1> QED BY <1>8, <1>9, <1>10, <1>11, <1>13, <1>14

(* Steps on one node that leave the log alone and give it a state, a       *)
(* position and a snapshot that are all right, and a builder that copies   *)
(* a position that is.                                                     *)
LEMMA NodeStepKeepsStore ==
    ASSUME StoreInv, NEW n \in Node, UNCHANGED <<log, history>>, restarts' \in Nat,
           NEW s \in QueueStates, NEW i \in Nat, NEW m \in Nat,
           NEW sn \in SUBSET StoredSnapshot, NEW bs \in SUBSET SnapshotMeta,
           state' = [state EXCEPT ![n] = s],
           last_applied' = [last_applied EXCEPT ![n] = i],
           last_membership' = [last_membership EXCEPT ![n] = m],
           snapshot' = [snapshot EXCEPT ![n] = sn],
           builder' = [builder EXCEPT ![n] = bs],
           carried' \subseteq StoredSnapshot,
           Contiguous(s), PositionOK(i, m), sn = {} => s = history[i + 1],
           \A b \in bs : PositionOK(b.last_log_id, b.last_membership),
           \A c \in sn \cup carried' : SnapshotOK(c)
    PROVE  StoreInv'
<1> USE DEF StoreInv
<1>1. /\ DOMAIN state = Node /\ DOMAIN last_applied = Node /\ DOMAIN last_membership = Node
      /\ DOMAIN snapshot = Node /\ DOMAIN builder = Node
  BY DEF TypeOK
<1>2. /\ state'[n] = s /\ last_applied'[n] = i /\ last_membership'[n] = m
      /\ snapshot'[n] = sn /\ builder'[n] = bs
  BY <1>1
<1>3. \A k \in Node \ {n} :
        /\ state'[k] = state[k] /\ last_applied'[k] = last_applied[k]
        /\ last_membership'[k] = last_membership[k]
        /\ snapshot'[k] = snapshot[k] /\ builder'[k] = builder[k]
  BY <1>1
<1>4. TypeOK'
  BY DEF TypeOK
<1>5. HistoryIsTheLog'
  BY DEF HistoryIsTheLog
<1>6. ReplayedReplicasAgree'
  BY <1>2, <1>3 DEF ReplayedReplicasAgree
<1>7. ReplicasContiguous'
  BY <1>2, <1>3 DEF ReplicasContiguous
<1>8. \A k, l : PositionOK(k, l)' <=> PositionOK(k, l)
  BY DEF PositionOK, MembershipUpTo
<1>9. PositionsOK'
  BY <1>2, <1>3, <1>8 DEF PositionsOK
<1>10. \A c : SnapshotOK(c)' <=> SnapshotOK(c)
  BY <1>8 DEF SnapshotOK
<1>11. SnapshotsOK'
  BY <1>2, <1>3, <1>10 DEF SnapshotsOK
<1> QED BY <1>4, <1>5, <1>6, <1>7, <1>9, <1>11

(* Builders come and go, and snapshots set out, without the stores seeing  *)
(* it.                                                                     *)
LEMMA BuildersKeepStore ==
    ASSUME StoreInv, NEW n \in Node,
           UNCHANGED <<log, history, state, last_applied, last_membership, snapshot, restarts>>,
           NEW bs \in SUBSET SnapshotMeta, builder' = [builder EXCEPT ![n] = bs],
           \A b \in bs : PositionOK(b.last_log_id, b.last_membership),
           carried' \subseteq StoredSnapshot, \A c \in carried' : SnapshotOK(c)
    PROVE  StoreInv'
<1> USE DEF StoreInv
<1>1. builder'[n] = bs /\ \A k \in Node \ {n} : builder'[k] = builder[k]
  BY DEF TypeOK
<1>2. \A k, l : PositionOK(k, l)' <=> PositionOK(k, l)
  BY DEF PositionOK, MembershipUpTo
<1>3. \A c : SnapshotOK(c)' <=> SnapshotOK(c)
  BY <1>2 DEF SnapshotOK
<1>4. TypeOK'
  BY DEF TypeOK
<1>5. HistoryIsTheLog' /\ ReplayedReplicasAgree' /\ ReplicasContiguous'
  BY DEF HistoryIsTheLog, ReplayedReplicasAgree, ReplicasContiguous
<1>6. PositionsOK'
  BY <1>1, <1>2 DEF PositionsOK
<1>7. SnapshotsOK'
  BY <1>3 DEF SnapshotsOK
<1> QED BY <1>4, <1>5, <1>6, <1>7

LEMMA NextStore == StoreInv /\ [Next]_vars => StoreInv'
<1> SUFFICES ASSUME StoreInv, [Next]_vars PROVE StoreInv'
  OBVIOUS
<1>a. TypeOK
  BY DEF StoreInv
<1>b. ASSUME NEW n \in Node
      PROVE  /\ state = [state EXCEPT ![n] = state[n]]
             /\ last_applied = [last_applied EXCEPT ![n] = last_applied[n]]
             /\ last_membership = [last_membership EXCEPT ![n] = last_membership[n]]
             /\ snapshot = [snapshot EXCEPT ![n] = snapshot[n]]
             /\ builder = [builder EXCEPT ![n] = builder[n]]
  BY <1>a DEF TypeOK
<1>c. ASSUME NEW n \in Node
      PROVE  /\ state[n] \in QueueStates /\ last_applied[n] \in Nat /\ last_membership[n] \in Nat
             /\ snapshot[n] \in SUBSET StoredSnapshot /\ builder[n] \in SUBSET SnapshotMeta
             /\ carried \subseteq StoredSnapshot /\ restarts \in Nat
  BY <1>a DEF TypeOK
<1>d. ASSUME NEW n \in Node
      PROVE  /\ Contiguous(state[n])
             /\ PositionOK(last_applied[n], last_membership[n])
             /\ snapshot[n] = {} => state[n] = history[last_applied[n] + 1]
             /\ \A b \in builder[n] : PositionOK(b.last_log_id, b.last_membership)
             /\ \A c \in snapshot[n] \cup carried : SnapshotOK(c)
  BY DEF StoreInv, ReplicasContiguous, PositionsOK, ReplayedReplicasAgree, SnapshotsOK
<1>1. ASSUME NEW e \in Entry, Commit(e) PROVE StoreInv'
  BY <1>1, CommitKeepsStore
<1>2. ASSUME NEW n \in Node, ApplyEntry(n) PROVE StoreInv'
  BY <1>2, ApplyKeepsStore
<1>3. ASSUME NEW n \in Node, GetSnapshotBuilder(n) PROVE StoreInv'
  <2> DEFINE b == [last_log_id |-> last_applied[n], last_membership |-> last_membership[n]]
  <2>1. b \in SnapshotMeta /\ PositionOK(b.last_log_id, b.last_membership)
    BY <1>c, <1>d DEF SnapshotMeta
  <2>2. /\ builder' = [builder EXCEPT ![n] = {b}]
        /\ UNCHANGED <<log, history, state, last_applied, last_membership, snapshot, carried,
                       restarts>>
    BY <1>3 DEF GetSnapshotBuilder, logVars
  <2> HIDE DEF b
  <2>3. /\ {b} \in SUBSET SnapshotMeta
        /\ \A x \in {b} : PositionOK(x.last_log_id, x.last_membership)
    BY <2>1
  <2>4. carried' \subseteq StoredSnapshot /\ \A c \in carried' : SnapshotOK(c)
    BY <1>c, <1>d, <2>2
  <2> QED BY <2>2, <2>3, <2>4, BuildersKeepStore
<1>4. ASSUME NEW n \in Node, BuildSnapshot(n) PROVE StoreInv'
  <2>1. PICK b \in builder[n] :
            /\ builder' = [builder EXCEPT ![n] = {}]
            /\ carried' = carried \cup {[meta |-> b, data |-> state[n]]}
            /\ UNCHANGED <<log, history, state, last_applied, last_membership, snapshot, restarts>>
    BY <1>4 DEF BuildSnapshot, logVars
  <2> DEFINE s == [meta |-> b, data |-> state[n]]
  <2>2. s \in StoredSnapshot /\ SnapshotOK(s)
    BY <1>c, <1>d DEF StoredSnapshot, SnapshotOK
  <2> HIDE DEF s
  <2>3. carried' \subseteq StoredSnapshot /\ \A c \in carried' : SnapshotOK(c)
    BY <1>c, <1>d, <2>1, <2>2 DEF s
  <2>4. {} \in SUBSET SnapshotMeta /\ \A x \in {} : PositionOK(x.last_log_id, x.last_membership)
    OBVIOUS
  <2> QED BY <2>1, <2>3, <2>4, BuildersKeepStore
<1>5. ASSUME NEW n \in Node, GetCurrentSnapshot(n) PROVE StoreInv'
  <2>1. /\ carried' = carried \cup snapshot[n]
        /\ UNCHANGED <<log, history, state, last_applied, last_membership, snapshot, builder,
                       restarts>>
    BY <1>5 DEF GetCurrentSnapshot, logVars
  <2>2. carried' \subseteq StoredSnapshot /\ \A c \in carried' : SnapshotOK(c)
    BY <1>c, <1>d, <2>1
  <2>3. builder' = [builder EXCEPT ![n] = builder[n]]
    BY <1>b, <2>1
  <2>4. builder[n] \in SUBSET SnapshotMeta
    BY <1>c
  <2>5. \A x \in builder[n] : PositionOK(x.last_log_id, x.last_membership)
    BY <1>d
  <2> QED BY <2>1, <2>2, <2>3, <2>4, <2>5, BuildersKeepStore
<1>6. ASSUME NEW n \in Node, Restart(n) PROVE StoreInv'
  <2>1. /\ state' = [state EXCEPT ![n] = EmptyState]
        /\ last_applied' = [last_applied EXCEPT ![n] = 0]
        /\ last_membership' = [last_membership EXCEPT ![n] = 0]
        /\ snapshot' = [snapshot EXCEPT ![n] = {}]
        /\ builder' = [builder EXCEPT ![n] = {}]
        /\ UNCHANGED <<log, history, carried>>
    BY <1>6 DEF Restart, StateAtStart, logVars
  <2>2. restarts' \in Nat
    BY <1>6, <1>c DEF Restart
  <2>3. PositionOK(0, 0)
    <3>1. Len(log) \in Nat
      BY <1>a, TypesOfTheStore
    <3> QED BY <3>1 DEF PositionOK, MembershipUpTo
  <2>4. EmptyState = history[0 + 1]
    BY DEF StoreInv, HistoryIsTheLog
  <2>5. {} \in SUBSET StoredSnapshot /\ {} \in SUBSET SnapshotMeta /\ 0 \in Nat
    OBVIOUS
  <2>6. carried' \subseteq StoredSnapshot /\ \A c \in {} \cup carried' : SnapshotOK(c)
    BY <1>c, <1>d, <2>1
  <2> QED BY <2>1, <2>2, <2>3, <2>4, <2>5, <2>6, EmptyStateContiguous, NodeStepKeepsStore
<1>7. ASSUME NEW n \in Node, NEW s \in carried, InstallSnapshot(n, s) PROVE StoreInv'
  <2>1. /\ state' = [state EXCEPT ![n] = s.data]
        /\ last_applied' = [last_applied EXCEPT ![n] = s.meta.last_log_id]
        /\ last_membership' = [last_membership EXCEPT ![n] = s.meta.last_membership]
        /\ snapshot' = [snapshot EXCEPT ![n] = {s}]
        /\ carried' = carried \ {s}
        /\ UNCHANGED <<log, history, builder, restarts>>
    BY <1>7 DEF InstallSnapshot, InstalledData, InstalledMembership, logVars
  <2>2. s \in StoredSnapshot /\ SnapshotOK(s)
    BY <1>c, <1>d
  <2>3. /\ s.data \in QueueStates /\ s.meta.last_log_id \in Nat /\ s.meta.last_membership \in Nat
        /\ Contiguous(s.data) /\ PositionOK(s.meta.last_log_id, s.meta.last_membership)
    BY <2>2 DEF StoredSnapshot, SnapshotMeta, SnapshotOK
  <2>4. {s} \in SUBSET StoredSnapshot /\ {s} # {}
    BY <2>2
  <2>5. carried' \subseteq StoredSnapshot /\ \A c \in {s} \cup carried' : SnapshotOK(c)
    BY <1>c, <1>d, <2>1, <2>2
  <2>6. builder' = [builder EXCEPT ![n] = builder[n]]
    BY <1>b, <2>1
  <2>7. /\ restarts \in Nat /\ builder[n] \in SUBSET SnapshotMeta
        /\ \A b \in builder[n] : PositionOK(b.last_log_id, b.last_membership)
    BY <1>c, <1>d
  <2> QED BY <2>1, <2>3, <2>4, <2>5, <2>6, <2>7, NodeStepKeepsStore
<1>8. CASE UNCHANGED vars
  <2>1. /\ UNCHANGED <<log, history, state, last_applied, last_membership, snapshot, builder,
                       carried, restarts>>
    BY <1>8 DEF vars
  <2> QED BY <2>1 DEF StoreInv, TypeOK, HistoryIsTheLog, ReplayedReplicasAgree,
                      ReplicasContiguous, PositionsOK, PositionOK, MembershipUpTo,
                      SnapshotsOK, SnapshotOK
<1> QED BY <1>1, <1>2, <1>3, <1>4, <1>5, <1>6, <1>7, <1>8 DEF Next

LEMMA StoreInvariant == Spec => []StoreInv
  BY InitStore, NextStore, PTL DEF Spec

-----------------------------------------------------------------------------

(* The state of the stores is well typed.                                  *)
THEOREM StoreTypes == Spec => []TypeOK
<1>1. StoreInv => TypeOK
  BY DEF StoreInv
<1> QED BY <1>1, StoreInvariant, PTL

(* Replicas that got all they have from the log, however often they were   *)
(* restarted and with builders reading them at any moment, hold exactly    *)
(* what the entries they applied make: two of them that applied equally    *)
(* many entries hold the same queues and counters.                         *)
THEOREM ReplicasThatReplayAgree == Spec => []ReplayedReplicasAgree
<1>1. StoreInv => ReplayedReplicasAgree
  BY DEF StoreInv
<1> QED BY <1>1, StoreInvariant, PTL

(* Although a snapshot's data may be newer than the position it claims, so *)
(* that entries are applied twice on top of it, no replica's queue ever    *)
(* has a gap or repeats an offset.                                         *)
THEOREM ReplicasStayContiguous == Spec => []ReplicasContiguous
<1>1. StoreInv => ReplicasContiguous
  BY DEF StoreInv
<1> QED BY <1>1, StoreInvariant, PTL

(* The membership that a node, or a snapshot on its way to one, reports is *)
(* the latest in the entries it reports as applied.                        *)
THEOREM MembershipsAreCurrent == Spec => []MembershipIsCurrent
<1>1. StoreInv => MembershipIsCurrent
  BY DEF StoreInv, PositionsOK, PositionOK, SnapshotsOK, SnapshotOK, MembershipIsCurrent
<1> QED BY <1>1, StoreInvariant, PTL
=============================================================================
