-------------------- MODULE NodeStateMachineStoreProofs ---------------------
(***************************************************************************)
(* Proofs about the "nodes" group, for any set of nodes and addresses and  *)
(* any number of elections, restarts and snapshots: a registration task    *)
(* that has ended left the address its node has now, and every replica     *)
(* that has reached the end of the log lists the same directory.           *)
(***************************************************************************)
EXTENDS NodeStateMachineStore, SequenceTheorems, TLAPS

(* `initialize` succeeds once, and nothing is committed before it.         *)
OneMembership ==
    /\ log # <<>> => log[1] = Membership
    /\ \A i \in 1..Len(log) : log[i] = Membership => i = 1

(* One leader at a time, and only of a group that has members.             *)
OneLeader ==
    /\ \A n, m \in leader : n = m
    /\ leader # {} => log # <<>>

(* What may still be committed is the leader's own registration, with the  *)
(* address it has now, or was left behind by a process that is gone or was *)
(* deposed. Either way its node's task has not got an answer.              *)
PendingIsUnanswered ==
    /\ \A n \in leader : \A c \in pending : c = UpsertNode(n, addr[n]) /\ task[n] = "commit"
    /\ \A n \in Peer, a \in Addr :
            UpsertNode(n, a) \in pending => task[n] \in {"retry", "commit"}

(* A task whose write is committed has left the address it has now.        *)
CommittedIsListed ==
    \A n \in Peer : task[n] \in {"apply", "registered"} => Listed(n) = {addr[n]}

GroupInv == TypeOK /\ OneMembership /\ OneLeader /\ PendingIsUnanswered /\ CommittedIsListed

(* A position in the log with the membership known there.                  *)
PlaceOK(i, m) == i <= Len(log) /\ (i > 0 => m = 1)

(* A directory that claims position i lists each node as some prefix of    *)
(* the log does that is no shorter: not the same one for every node, once  *)
(* a snapshot was installed whose data are newer than its position.        *)
DirectoryOK(d, i) == \A p \in Peer : \E k \in i..Len(log) : d[p] = ListedIn(log, k, p)

DirectoriesOK ==
    \A n \in Peer : /\ PlaceOK(last_applied[n], last_membership[n])
                    /\ DirectoryOK(state[n], last_applied[n])

(* A builder's position is one its node has reached.                       *)
BuildersOK ==
    \A n \in Peer : \A b \in builder[n] :
        PlaceOK(b.last_log_id, b.last_membership) /\ b.last_log_id <= last_applied[n]

SnapshotOK(s) ==
    /\ PlaceOK(s.meta.last_log_id, s.meta.last_membership)
    /\ DirectoryOK(s.data, s.meta.last_log_id)

SnapshotsOK ==
    /\ \A s \in carried : SnapshotOK(s)
    /\ \A n \in Peer : \A s \in snapshot[n] : SnapshotOK(s)

DirectoryInv == StoreTypeOK /\ GroupInv /\ DirectoriesOK /\ BuildersOK /\ SnapshotsOK

-----------------------------------------------------------------------------
(* What entries leave in the directory.                                    *)

LEMMA CommandsNameTheirNode ==
    /\ Blank \notin NodeCommand /\ Membership \notin NodeCommand /\ Blank # Membership
    /\ \A n, a : UpsertNode(n, a).id = n /\ UpsertNode(n, a).addr = a
    /\ \A n \in Peer, a \in Addr : UpsertNode(n, a) \in NodeCommand
    /\ \A c \in NodeCommand : /\ c.id \in Peer /\ c.addr \in Addr
                              /\ c = UpsertNode(c.id, c.addr)
<1>1. \A n, a : /\ UpsertNode(n, a).op = "upsert"
                /\ UpsertNode(n, a).id = n /\ UpsertNode(n, a).addr = a
  BY DEF UpsertNode
<1>2. Blank.op = "blank" /\ Membership.op = "membership"
  BY DEF Blank, Membership
<1>3. \A c \in NodeCommand : \E n \in Peer, a \in Addr : c = UpsertNode(n, a)
  BY DEF NodeCommand
<1>4. \A n \in Peer, a \in Addr : UpsertNode(n, a) \in NodeCommand
  BY DEF NodeCommand
<1>5. Blank # Membership
  BY <1>2
<1>6. Blank \notin NodeCommand /\ Membership \notin NodeCommand
  BY <1>1, <1>2, <1>3
<1>7. \A c \in NodeCommand : c.id \in Peer /\ c.addr \in Addr /\ c = UpsertNode(c.id, c.addr)
  BY <1>1, <1>3
<1> QED BY <1>1, <1>4, <1>5, <1>6, <1>7

LEMMA ListedOfAPrefix ==
    ASSUME NEW l, NEW m, NEW k \in Nat, NEW p, \A i \in 1..k : l[i] = m[i]
    PROVE  ListedIn(l, k, p) = ListedIn(m, k, p)
<1>1. Upserts(l, k, p) = Upserts(m, k, p)
  BY DEF Upserts
<1>2. \A i \in Upserts(l, k, p) : l[i] = m[i]
  BY DEF Upserts
<1> QED BY <1>1, <1>2 DEF ListedIn

(* The next entry replaces the address of the node it names, and leaves    *)
(* every other one.                                                        *)
LEMMA ListedAfterOneMore ==
    ASSUME NEW l, NEW k \in Nat, NEW p
    PROVE  /\ (l[k + 1] \in NodeCommand /\ l[k + 1].id = p)
                => ListedIn(l, k + 1, p) = {l[k + 1].addr}
           /\ ~(l[k + 1] \in NodeCommand /\ l[k + 1].id = p)
                => ListedIn(l, k + 1, p) = ListedIn(l, k, p)
<1>1. 1..(k + 1) = (1..k) \cup {k + 1} /\ \A i \in 1..(k + 1) : i <= k + 1
  OBVIOUS
<1>2. ASSUME l[k + 1] \in NodeCommand, l[k + 1].id = p
      PROVE  ListedIn(l, k + 1, p) = {l[k + 1].addr}
  <2>1. k + 1 \in Upserts(l, k + 1, p) /\ \A i \in Upserts(l, k + 1, p) : i <= k + 1 /\ i \in Int
    BY <1>1, <1>2 DEF Upserts
  <2>2. {i \in Upserts(l, k + 1, p) : \A j \in Upserts(l, k + 1, p) : j <= i} = {k + 1}
    BY <2>1
  <2> QED BY <2>2 DEF ListedIn
<1>3. ASSUME ~(l[k + 1] \in NodeCommand /\ l[k + 1].id = p)
      PROVE  ListedIn(l, k + 1, p) = ListedIn(l, k, p)
  <2>1. Upserts(l, k + 1, p) = Upserts(l, k, p)
    BY <1>1, <1>3 DEF Upserts
  <2> QED BY <2>1 DEF ListedIn
<1> QED BY <1>2, <1>3

(* One more entry in the log.                                              *)
LEMMA OneMoreEntry ==
    ASSUME NEW l \in Seq(Entry), NEW e \in Entry, NEW m, m = Append(l, e)
    PROVE  /\ m \in Seq(Entry) /\ Len(m) = Len(l) + 1 /\ m # <<>>
           /\ \A i \in 1..Len(l) : m[i] = l[i]
           /\ m[Len(l) + 1] = e
<1>1. Len(l) \in Nat
  BY LenProperties
<1>2. /\ m \in Seq(Entry) /\ Len(m) = Len(l) + 1
      /\ \A i \in 1..Len(l) : m[i] = l[i]
      /\ m[Len(l) + 1] = e
  BY <1>1, AppendProperties
<1> QED BY <1>1, <1>2

(* It lists the node it names, if any, and leaves the others.              *)
LEMMA ItListsItsNode ==
    ASSUME NEW l \in Seq(Entry), NEW e \in Entry, NEW m, m = Append(l, e),
           e \in NodeCommand
    PROVE  ListedIn(m, Len(m), e.id) = {e.addr}
<1>1. /\ Len(l) \in Nat /\ Len(m) = Len(l) + 1 /\ m[Len(l) + 1] = e
  BY LenProperties, OneMoreEntry
<1>2. m[Len(l) + 1] \in NodeCommand /\ m[Len(l) + 1].id = e.id
  BY <1>1
<1>3. ListedIn(m, Len(l) + 1, e.id) = {m[Len(l) + 1].addr}
  BY <1>1, <1>2, ListedAfterOneMore
<1> QED BY <1>1, <1>3

LEMMA ItListsNoOther ==
    ASSUME NEW l, NEW m, Len(l) \in Nat, Len(m) = Len(l) + 1,
           \A i \in 1..Len(l) : m[i] = l[i],
           NEW p, ~(m[Len(l) + 1] \in NodeCommand /\ m[Len(l) + 1].id = p)
    PROVE  ListedIn(m, Len(m), p) = ListedIn(l, Len(l), p)
<1>1. ListedIn(m, Len(l), p) = ListedIn(l, Len(l), p)
  BY ListedOfAPrefix
<1>2. ListedIn(m, Len(l) + 1, p) = ListedIn(m, Len(l), p)
  BY ListedAfterOneMore
<1> QED BY <1>1, <1>2

-----------------------------------------------------------------------------
(* The tasks of NodesGroup.                                                *)

LEMMA TypesOfTheGroup ==
    ASSUME TypeOK
    PROVE  /\ attempt \in [Peer -> 0..MaxAttempts] /\ addr \in [Peer -> Addr]
           /\ leader \in SUBSET Peer /\ task \in [Peer -> TaskState]
           /\ waits \in [Peer -> Nat] /\ pending \in SUBSET NodeCommand
           /\ log \in Seq(Entry) /\ Len(log) \in Nat
           /\ elections \in Nat /\ restarts \in Nat
  BY LenProperties DEF TypeOK

LEMMA FirstAttemptType == \A n \in Peer : FirstAttempt(n) \in 0..MaxAttempts
  BY GroupBounds DEF FirstAttempt

LEMMA InitGroup == Init => GroupInv
<1> SUFFICES ASSUME Init PROVE GroupInv
  OBVIOUS
<1>1. (CHOOSE a \in Addr : TRUE) \in Addr
  BY PeersAreNumbered
<1>2. <<>> \in Seq(Entry) /\ Len(<<>>) = 0
  OBVIOUS
<1>3. TypeOK
  BY <1>1, <1>2, FirstAttemptType DEF Init, TypeOK, TaskState
<1>4. OneMembership /\ OneLeader
  BY <1>2 DEF Init, OneMembership, OneLeader
<1>5. PendingIsUnanswered /\ CommittedIsListed
  BY DEF Init, PendingIsUnanswered, CommittedIsListed
<1> QED BY <1>3, <1>4, <1>5 DEF GroupInv

(* Steps that leave the log, the leader and what is pending alone.         *)
LEMMA BootstrapKeepsGroup ==
    ASSUME GroupInv, NEW n \in Peer, InitializeRefused(n)
    PROVE  GroupInv'
<1> USE DEF GroupInv
<1>1. /\ attempt[n] # 0 /\ attempt' = [attempt EXCEPT ![n] = AttemptAfter(attempt[n])]
      /\ UNCHANGED <<addr, leader, task, waits, pending, log, elections, restarts>>
  BY DEF InitializeRefused
<1>2. AttemptAfter(attempt[n]) \in 0..MaxAttempts
  <2>1. attempt[n] \in 0..MaxAttempts /\ MaxAttempts \in Nat
    BY GroupBounds, TypesOfTheGroup
  <2> QED BY <2>1 DEF AttemptAfter
<1>3. TypeOK'
  BY <1>1, <1>2 DEF TypeOK
<1> QED BY <1>1, <1>3 DEF OneMembership, OneLeader, PendingIsUnanswered, CommittedIsListed, Listed

LEMMA InitializeKeepsGroup ==
    ASSUME GroupInv, NEW n \in Peer, Initialize(n)
    PROVE  GroupInv'
<1> USE DEF GroupInv
<1>1. /\ log = <<>> /\ log' = <<Membership>> /\ attempt' = [attempt EXCEPT ![n] = 0]
      /\ UNCHANGED <<addr, leader, task, waits, pending, elections, restarts>>
  BY DEF Initialize
<1>2. Membership \in Entry /\ log' = Append(log, Membership)
  BY <1>1 DEF Entry
<1>3. /\ log' \in Seq(Entry) /\ Len(log') = 1 /\ log'[1] = Membership
      /\ \A p : ListedIn(log', Len(log'), p) = ListedIn(log, Len(log), p)
  <2>1. log \in Seq(Entry) /\ Membership \notin NodeCommand /\ Len(log) = 0
    BY <1>1, TypesOfTheGroup, CommandsNameTheirNode
  <2>2. log' \in Seq(Entry) /\ Len(log') = Len(log) + 1 /\ log'[Len(log) + 1] = Membership
    BY <1>2, <2>1, OneMoreEntry
  <2>3. \A i \in 1..Len(log) : log'[i] = log[i]
    BY <1>2, <2>1, OneMoreEntry
  <2>4. Len(log) \in Nat /\ log'[Len(log) + 1] \notin NodeCommand
    BY <2>1, <2>2
  <2>5. ASSUME NEW p PROVE ListedIn(log', Len(log'), p) = ListedIn(log, Len(log), p)
    BY <2>2, <2>3, <2>4, ItListsNoOther
  <2> QED BY <2>1, <2>2, <2>5
<1>4. TypeOK'
  <2>1. 0 \in 0..MaxAttempts
    BY GroupBounds
  <2> QED BY <1>1, <1>3, <2>1 DEF TypeOK
<1>5. OneMembership'
  BY <1>3 DEF OneMembership
<1>6. OneLeader'
  BY <1>1 DEF OneLeader
<1>7. PendingIsUnanswered'
  BY <1>1 DEF PendingIsUnanswered
<1>8. CommittedIsListed'
  BY <1>1, <1>3 DEF CommittedIsListed, Listed
<1> QED BY <1>4, <1>5, <1>6, <1>7, <1>8

(* A new leader: what its predecessor left behind is committed or gone.    *)
LEMMA ElectKeepsGroup ==
    ASSUME GroupInv, NEW n \in Peer, Elect(n)
    PROVE  GroupInv' /\ Len(log') > Len(log) /\ \A i \in 1..Len(log) : log'[i] = log[i]
<1> USE DEF GroupInv
<1>1. /\ log # <<>> /\ leader' = {n} /\ elections' = elections + 1 /\ pending' = {}
      /\ UNCHANGED <<attempt, addr, task, waits, restarts>>
  BY DEF Elect, taskVars
<1>2. Blank \in Entry /\ NodeCommand \subseteq Entry /\ log \in Seq(Entry) /\ Len(log) \in Nat
  BY TypesOfTheGroup DEF Entry
<1> DEFINE Kept(l) ==
        /\ log' = Append(l, Blank)
        /\ Len(l) \in Nat /\ Len(l) >= Len(log)
        /\ \A i \in 1..Len(log) : l[i] = log[i]
        /\ \A i \in 1..Len(l) : i \in 1..Len(log) \/ l[i] \in NodeCommand
        /\ \A p \in Peer : task[p] \in {"apply", "registered"}
                                => ListedIn(l, Len(l), p) = ListedIn(log, Len(log), p)
<1>3. \E l \in Seq(Entry) : Kept(l)
  <2>1. CASE log' = log \o <<>> \o <<Blank>>
    <3>1. log' = Append(log, Blank)
      BY <1>2, <2>1, ConcatEmptySeq, AppendIsConcat
    <3>2. Kept(log)
      BY <1>2, <3>1
    <3> QED BY <1>2, <3>2
  <2>2. ASSUME NEW c \in pending, log' = log \o <<c>> \o <<Blank>>
        PROVE  \E l \in Seq(Entry) : Kept(l)
    <3> DEFINE l == Append(log, c)
    <3>1. c \in NodeCommand /\ c \in Entry
      BY <1>2, TypesOfTheGroup
    <3>2. task[c.id] \in {"retry", "commit"}
      <4>1. c.id \in Peer /\ c.addr \in Addr /\ UpsertNode(c.id, c.addr) \in pending
        BY <3>1, CommandsNameTheirNode
      <4> QED BY <4>1 DEF PendingIsUnanswered
    <3>3. l = Append(log, c)
      OBVIOUS
    <3> HIDE DEF l
    <3>4. /\ l \in Seq(Entry) /\ Len(l) = Len(log) + 1
          /\ \A i \in 1..Len(log) : l[i] = log[i]
          /\ l[Len(log) + 1] = c
      BY <1>2, <3>1, <3>3, OneMoreEntry
    <3>5. ASSUME NEW p, c.id # p PROVE ListedIn(l, Len(l), p) = ListedIn(log, Len(log), p)
      BY <1>2, <3>4, <3>5, ItListsNoOther
    <3>6. log' = Append(l, Blank)
      <4>1. l = log \o <<c>>
        BY <1>2, <3>1, <3>3, AppendIsConcat
      <4>2. Append(l, Blank) = l \o <<Blank>>
        BY <1>2, <3>4, AppendIsConcat
      <4> QED BY <2>2, <4>1, <4>2
    <3>7. \A i \in 1..Len(l) : i \in 1..Len(log) \/ l[i] \in NodeCommand
      BY <1>2, <3>1, <3>4
    <3>8. \A p \in Peer : task[p] \in {"apply", "registered"}
                                => ListedIn(l, Len(l), p) = ListedIn(log, Len(log), p)
      BY <3>2, <3>5
    <3>9. Kept(l)
      BY <1>2, <3>4, <3>6, <3>7, <3>8
    <3> QED BY <3>4, <3>9
  <2>3. \/ log' = log \o <<>> \o <<Blank>>
        \/ \E c \in pending : log' = log \o <<c>> \o <<Blank>>
    BY DEF Elect
  <2> QED BY <2>1, <2>2, <2>3
<1>4. PICK l \in Seq(Entry) : Kept(l)
  BY <1>3
<1>5. /\ log' \in Seq(Entry) /\ Len(log') = Len(l) + 1 /\ log' # <<>>
      /\ \A i \in 1..Len(l) : log'[i] = l[i]
      /\ log'[Len(l) + 1] = Blank
      /\ \A p : ListedIn(log', Len(log'), p) = ListedIn(l, Len(l), p)
  <2>1. log' = Append(l, Blank) /\ l \in Seq(Entry) /\ Blank \in Entry /\ Blank \notin NodeCommand
    BY <1>2, <1>4, CommandsNameTheirNode
  <2>2. /\ log' \in Seq(Entry) /\ Len(log') = Len(l) + 1 /\ log' # <<>>
        /\ \A i \in 1..Len(l) : log'[i] = l[i]
        /\ log'[Len(l) + 1] = Blank
    BY <2>1, OneMoreEntry
  <2>3. ASSUME NEW p PROVE ListedIn(log', Len(log'), p) = ListedIn(l, Len(l), p)
    BY <1>4, <2>1, <2>2, ItListsNoOther
  <2> QED BY <2>2, <2>3
<1>6. \A i \in 1..Len(log) : log'[i] = log[i]
  BY <1>2, <1>4, <1>5
<1>7. TypeOK'
  <2>1. elections' \in Nat /\ leader' \in SUBSET Peer /\ pending' \in SUBSET NodeCommand
    BY <1>1, TypesOfTheGroup
  <2> QED BY <1>1, <1>5, <2>1 DEF TypeOK
<1>8. OneMembership'
  <2>1. Len(log) >= 1
    BY <1>1, <1>2, EmptySeq
  <2>2. log'[1] = Membership
    BY <1>1, <1>2, <1>6, <2>1 DEF OneMembership
  <2>3. ASSUME NEW i \in 1..Len(log'), log'[i] = Membership PROVE i = 1
    <3>1. i \in 1..Len(l) \/ i = Len(l) + 1
      BY <1>4, <1>5
    <3>2. i \in 1..Len(log)
      BY <1>4, <1>5, <2>3, <3>1, CommandsNameTheirNode
    <3> QED BY <1>6, <2>3, <3>2 DEF OneMembership
  <2> QED BY <2>2, <2>3 DEF OneMembership
<1>9. OneLeader' /\ PendingIsUnanswered'
  BY <1>1, <1>5 DEF OneLeader, PendingIsUnanswered
<1>10. CommittedIsListed'
  BY <1>1, <1>4, <1>5 DEF CommittedIsListed, Listed
<1>11. Len(log') > Len(log)
  BY <1>2, <1>4, <1>5
<1> QED BY <1>6, <1>7, <1>8, <1>9, <1>10, <1>11

(* The node that leads puts its registration into its log.                 *)
LEMMA ProposeKeepsGroup ==
    ASSUME GroupInv, NEW n \in Peer, ProposeSelf(n)
    PROVE  GroupInv'
<1> USE DEF GroupInv
<1>1. /\ task[n] = "retry" /\ n \in leader /\ task' = [task EXCEPT ![n] = "commit"]
      /\ pending' = {UpsertNode(n, addr[n])}
      /\ UNCHANGED <<attempt, addr, leader, waits, log, elections, restarts>>
  BY DEF ProposeSelf, Registers
<1>2. /\ addr[n] \in Addr /\ task'[n] = "commit"
      /\ \A p \in Peer \ {n} : task'[p] = task[p]
  BY <1>1, TypesOfTheGroup
<1>3. UpsertNode(n, addr[n]) \in NodeCommand
  BY <1>2, CommandsNameTheirNode
<1>4. TypeOK'
  <2>1. task' \in [Peer -> TaskState]
    BY <1>1, TypesOfTheGroup DEF TaskState
  <2>2. pending' \in SUBSET NodeCommand
    BY <1>1, <1>3
  <2> QED BY <1>1, <2>1, <2>2 DEF TypeOK
<1>5. OneMembership' /\ OneLeader'
  BY <1>1 DEF OneMembership, OneLeader
<1>6. PendingIsUnanswered'
  <2>1. \A m \in leader : m = n
    BY <1>1 DEF OneLeader
  <2>2. \A p, a : UpsertNode(p, a) \in pending' => p = n
    BY <1>1, CommandsNameTheirNode
  <2> QED BY <1>1, <1>2, <2>1, <2>2 DEF PendingIsUnanswered
<1>7. CommittedIsListed'
  BY <1>1, <1>2 DEF CommittedIsListed, Listed
<1> QED BY <1>4, <1>5, <1>6, <1>7

LEMMA CommitKeepsGroup ==
    ASSUME GroupInv, NEW n \in Peer, CommitSelf(n)
    PROVE  GroupInv' /\ Len(log') > Len(log) /\ \A i \in 1..Len(log) : log'[i] = log[i]
<1> USE DEF GroupInv
<1>1. PICK c \in pending : log' = Append(log, c)
  BY DEF CommitSelf
<1>2. /\ n \in leader /\ pending' = {} /\ task' = [task EXCEPT ![n] = "apply"]
      /\ waits' = [waits EXCEPT ![n] = Len(log')]
      /\ UNCHANGED <<attempt, addr, leader, elections, restarts>>
  BY DEF CommitSelf
<1>3. /\ c = UpsertNode(n, addr[n]) /\ c \in NodeCommand /\ c \in Entry
      /\ log \in Seq(Entry) /\ Len(log) \in Nat
      /\ c.id = n /\ c.addr = addr[n] /\ c # Membership
  BY <1>1, <1>2, TypesOfTheGroup, CommandsNameTheirNode DEF PendingIsUnanswered, Entry
<1>4. /\ log' \in Seq(Entry) /\ Len(log') = Len(log) + 1 /\ log' # <<>>
      /\ \A i \in 1..Len(log) : log'[i] = log[i]
      /\ log'[Len(log) + 1] = c
  BY <1>1, <1>3, OneMoreEntry
<1>5. ListedIn(log', Len(log'), n) = {addr[n]}
  BY <1>1, <1>3, ItListsItsNode
<1>6. ASSUME NEW p \in Peer, p # n
      PROVE  ListedIn(log', Len(log'), p) = ListedIn(log, Len(log), p)
  BY <1>3, <1>4, <1>6, ItListsNoOther
<1>7. task'[n] = "apply" /\ \A p \in Peer \ {n} : task'[p] = task[p]
  BY <1>2, TypesOfTheGroup
<1>8. TypeOK'
  <2>1. task' \in [Peer -> TaskState]
    BY <1>2, TypesOfTheGroup DEF TaskState
  <2>2. waits' \in [Peer -> Nat]
    BY <1>2, <1>3, <1>4, TypesOfTheGroup
  <2> QED BY <1>2, <1>4, <2>1, <2>2 DEF TypeOK
<1>9. OneMembership'
  <2>1. log # <<>> /\ Len(log) >= 1
    BY <1>2, <1>3, EmptySeq DEF OneLeader
  <2>2. log'[1] = Membership
    BY <1>3, <1>4, <2>1 DEF OneMembership
  <2>3. \A i \in 1..Len(log') : i \in 1..Len(log) \/ i = Len(log) + 1
    BY <1>3, <1>4
  <2> QED BY <1>3, <1>4, <2>2, <2>3 DEF OneMembership
<1>10. OneLeader' /\ PendingIsUnanswered'
  BY <1>2, <1>4 DEF OneLeader, PendingIsUnanswered
<1>11. CommittedIsListed'
  BY <1>2, <1>5, <1>6, <1>7 DEF CommittedIsListed, Listed
<1>12. Len(log') > Len(log)
  BY <1>3, <1>4
<1> QED BY <1>4, <1>8, <1>9, <1>10, <1>11, <1>12

(* An answer, a refusal.                                                   *)
LEMMA AnswersKeepGroup ==
    ASSUME GroupInv, NEW n \in Peer, WriteRefused(n) \/ Registered(n)
    PROVE  GroupInv'
<1> USE DEF GroupInv
<1>1. UNCHANGED <<attempt, addr, leader, pending, log, elections, restarts>>
  BY DEF WriteRefused, Registered
<1>2. \/ /\ task[n] \in {"retry", "commit"} /\ n \notin leader
         /\ task' = [task EXCEPT ![n] = "retry"] /\ waits' = waits
      \/ /\ task[n] = "apply" /\ task' = [task EXCEPT ![n] = "registered"]
         /\ waits' = [waits EXCEPT ![n] = 0]
  BY DEF WriteRefused, Registered, AfterRefusal
<1>3. /\ \A p \in Peer \ {n} : task'[p] = task[p]
      /\ \/ n \notin leader /\ task[n] \in {"retry", "commit"} /\ task'[n] = "retry"
         \/ task[n] = "apply" /\ task'[n] = "registered"
  BY <1>2, TypesOfTheGroup
<1>4. TypeOK'
  <2>1. task' \in [Peer -> TaskState] /\ waits' \in [Peer -> Nat]
    BY <1>2, TypesOfTheGroup DEF TaskState
  <2> QED BY <1>1, <2>1 DEF TypeOK
<1>5. OneMembership' /\ OneLeader'
  BY <1>1 DEF OneMembership, OneLeader
<1>6. PendingIsUnanswered'
  <2>1. ASSUME NEW p \in leader, NEW c \in pending
        PROVE  c = UpsertNode(p, addr[p]) /\ task'[p] = "commit"
    <3>1. c = UpsertNode(p, addr[p]) /\ task[p] = "commit" /\ p \in Peer
      BY TypesOfTheGroup DEF PendingIsUnanswered
    <3> QED BY <1>3, <3>1
  <2>2. ASSUME NEW p \in Peer, NEW a \in Addr, UpsertNode(p, a) \in pending
        PROVE  task'[p] \in {"retry", "commit"}
    BY <1>3, <2>2 DEF PendingIsUnanswered
  <2> QED BY <1>1, <2>1, <2>2 DEF PendingIsUnanswered
<1>7. CommittedIsListed'
  BY <1>1, <1>3 DEF CommittedIsListed, Listed
<1> QED BY <1>4, <1>5, <1>6, <1>7

(* The process starts again, perhaps with another address; the entry it    *)
(* had in the leader's log, if it led, has lost its leader.                *)
LEMMA RestartKeepsGroup ==
    ASSUME GroupInv, NEW n \in Peer, NEW a \in Addr, Restart(n, a)
    PROVE  GroupInv'
<1> USE DEF GroupInv
<1>1. /\ restarts' = restarts + 1 /\ leader' = leader \ {n}
      /\ attempt' = [attempt EXCEPT ![n] = FirstAttempt(n)]
      /\ addr' = [addr EXCEPT ![n] = a]
      /\ task' = [task EXCEPT ![n] = "retry"]
      /\ waits' = [waits EXCEPT ![n] = 0]
      /\ UNCHANGED <<pending, log, elections>>
  BY DEF Restart
<1>2. /\ task'[n] = "retry"
      /\ \A p \in Peer \ {n} : task'[p] = task[p] /\ addr'[p] = addr[p]
  BY <1>1, TypesOfTheGroup
<1>3. TypeOK'
  <2>1. task' \in [Peer -> TaskState] /\ addr' \in [Peer -> Addr]
    BY <1>1, TypesOfTheGroup DEF TaskState
  <2>2. attempt' \in [Peer -> 0..MaxAttempts]
    BY <1>1, TypesOfTheGroup, FirstAttemptType
  <2>3. waits' \in [Peer -> Nat] /\ restarts' \in Nat
    BY <1>1, TypesOfTheGroup
  <2>4. leader' \in SUBSET Peer
    BY <1>1, TypesOfTheGroup
  <2> QED BY <1>1, <2>1, <2>2, <2>3, <2>4 DEF TypeOK
<1>4. OneMembership' /\ OneLeader'
  BY <1>1 DEF OneMembership, OneLeader
<1>5. PendingIsUnanswered'
  <2>1. \A p \in leader' : p \in leader /\ p \in Peer \ {n}
    BY <1>1, TypesOfTheGroup
  <2> QED BY <1>1, <1>2, <2>1 DEF PendingIsUnanswered
<1>6. CommittedIsListed'
  BY <1>1, <1>2 DEF CommittedIsListed, Listed
<1> QED BY <1>3, <1>4, <1>5, <1>6

LEMMA StutterKeepsGroup == GroupInv /\ UNCHANGED vars => GroupInv'
<1> SUFFICES ASSUME GroupInv, UNCHANGED vars PROVE GroupInv'
  OBVIOUS
<1>1. UNCHANGED <<attempt, addr, leader, task, waits, pending, log, elections, restarts>>
  BY DEF vars
<1>2. TypeOK'
  BY <1>1 DEF GroupInv, TypeOK
<1> QED BY <1>1, <1>2 DEF GroupInv, OneMembership, OneLeader, PendingIsUnanswered,
                          CommittedIsListed, Listed

-----------------------------------------------------------------------------
(* The directories.                                                        *)

LEMMA TypesOfTheStores ==
    ASSUME StoreTypeOK
    PROVE  /\ state \in [Peer -> NodeDirectory] /\ last_applied \in [Peer -> Nat]
           /\ last_membership \in [Peer -> Nat] /\ snapshot \in [Peer -> SUBSET StoredSnapshot]
           /\ builder \in [Peer -> SUBSET SnapshotMeta] /\ carried \subseteq StoredSnapshot
           /\ builders \in Nat /\ log \in Seq(Entry) /\ Len(log) \in Nat
  BY TypesOfTheGroup DEF StoreTypeOK

(* Entries that are added to the log leave what its prefixes list.         *)
LEMMA PlacesOutliveCommits ==
    ASSUME Len(log) \in Nat, Len(log') \in Nat, Len(log') >= Len(log),
           \A j \in 1..Len(log) : log'[j] = log[j],
           NEW i \in Nat, NEW m, NEW d
    PROVE  /\ PlaceOK(i, m) => PlaceOK(i, m)'
           /\ DirectoryOK(d, i) => DirectoryOK(d, i)'
<1>1. PlaceOK(i, m) => PlaceOK(i, m)'
  BY DEF PlaceOK
<1>2. ASSUME DirectoryOK(d, i), NEW p \in Peer
      PROVE  \E k \in i..Len(log') : d[p] = ListedIn(log', k, p)
  <2>1. PICK k \in i..Len(log) : d[p] = ListedIn(log, k, p)
    BY <1>2 DEF DirectoryOK
  <2>2. k \in Nat /\ k \in i..Len(log') /\ \A j \in 1..k : log'[j] = log[j]
    OBVIOUS
  <2>3. ListedIn(log', k, p) = ListedIn(log, k, p)
    BY <2>2, ListedOfAPrefix
  <2> QED BY <2>1, <2>2, <2>3
<1> QED BY <1>1, <1>2 DEF DirectoryOK

(* A step of the group that the stores do not see.                         *)
LEMMA GroupStepKeepsStores ==
    ASSUME DirectoryInv, GroupInv', UNCHANGED storeVars,
           Len(log') >= Len(log), \A j \in 1..Len(log) : log'[j] = log[j]
    PROVE  DirectoryInv'
<1>1. UNCHANGED <<state, last_applied, last_membership, snapshot, builder, carried, builders>>
  BY DEF storeVars
<1>2. StoreTypeOK' /\ Len(log) \in Nat /\ Len(log') \in Nat
  BY <1>1, LenProperties DEF DirectoryInv, StoreTypeOK, GroupInv, TypeOK
<1>3. StoreTypeOK
  BY DEF DirectoryInv
<1>4. ASSUME NEW i \in Nat, NEW m, NEW d
      PROVE  /\ PlaceOK(i, m) => PlaceOK(i, m)'
             /\ DirectoryOK(d, i) => DirectoryOK(d, i)'
  BY <1>2, PlacesOutliveCommits
<1>5. DirectoriesOK'
  <2>1. \A n \in Peer : PlaceOK(last_applied[n], last_membership[n])'
    BY <1>1, <1>3, <1>4, TypesOfTheStores DEF DirectoryInv, DirectoriesOK
  <2>2. \A n \in Peer : DirectoryOK(state[n], last_applied[n])'
    BY <1>1, <1>3, <1>4, TypesOfTheStores DEF DirectoryInv, DirectoriesOK
  <2> QED BY <1>1, <2>1, <2>2 DEF DirectoriesOK
<1>6. BuildersOK'
  <2>1. ASSUME NEW n \in Peer, NEW b \in builder[n]
        PROVE  PlaceOK(b.last_log_id, b.last_membership)' /\ b.last_log_id <= last_applied[n]
    <3>1. b.last_log_id \in Nat
      BY <1>3, TypesOfTheStores DEF SnapshotMeta
    <3> QED BY <1>4, <3>1 DEF DirectoryInv, BuildersOK
  <2> QED BY <1>1, <2>1 DEF BuildersOK
<1>7. ASSUME NEW s \in StoredSnapshot, SnapshotOK(s) PROVE SnapshotOK(s)'
  <2>1. s.meta.last_log_id \in Nat
    BY DEF StoredSnapshot, SnapshotMeta
  <2> QED BY <1>4, <1>7, <2>1 DEF SnapshotOK
<1>8. SnapshotsOK'
  BY <1>1, <1>3, <1>7, TypesOfTheStores DEF DirectoryInv, SnapshotsOK
<1> QED BY <1>2, <1>5, <1>6, <1>8 DEF DirectoryInv

(* A step of one node's store that leaves it, its builder and the          *)
(* snapshots on their way in order.                                        *)
LEMMA StoreStepKeepsStores ==
    ASSUME DirectoryInv, GroupInv', StoreTypeOK', log' = log, NEW n \in Peer,
           \A k \in Peer \ {n} :
                /\ state'[k] = state[k] /\ last_applied'[k] = last_applied[k]
                /\ last_membership'[k] = last_membership[k]
                /\ snapshot'[k] = snapshot[k] /\ builder'[k] = builder[k],
           PlaceOK(last_applied'[n], last_membership'[n]),
           DirectoryOK(state'[n], last_applied'[n]),
           \A b \in builder'[n] : /\ PlaceOK(b.last_log_id, b.last_membership)
                                  /\ b.last_log_id <= last_applied'[n],
           \A s \in snapshot'[n] \cup carried' : SnapshotOK(s)
    PROVE  DirectoryInv'
<1> USE DEF DirectoryInv
<1>1. \A i, m : PlaceOK(i, m)' <=> PlaceOK(i, m)
  BY DEF PlaceOK
<1>2. \A d, i : DirectoryOK(d, i)' <=> DirectoryOK(d, i)
  BY DEF DirectoryOK
<1>3. DirectoriesOK'
  BY <1>1, <1>2 DEF DirectoriesOK
<1>4. BuildersOK'
  BY <1>1 DEF BuildersOK
<1>5. \A s : SnapshotOK(s)' <=> SnapshotOK(s)
  BY <1>1, <1>2 DEF SnapshotOK
<1>6. SnapshotsOK'
  BY <1>5 DEF SnapshotsOK
<1> QED BY <1>3, <1>4, <1>6

LEMMA InitStores == StoreInit => DirectoryInv
<1> SUFFICES ASSUME StoreInit PROVE DirectoryInv
  OBVIOUS
<1>1. GroupInv /\ log = <<>>
  BY InitGroup DEF StoreInit, Init
<1>2. Len(log) = 0
  BY <1>1
<1>3. EmptyDirectory \in NodeDirectory
  BY DEF EmptyDirectory, NodeDirectory
<1>4. StoreTypeOK
  BY <1>1, <1>3 DEF GroupInv, StoreTypeOK, StoreInit
<1>5. \A n \in Peer : state[n] = EmptyDirectory /\ last_applied[n] = 0 /\ last_membership[n] = 0
  BY DEF StoreInit
<1>6. PlaceOK(0, 0)
  BY <1>2 DEF PlaceOK
<1>7. DirectoryOK(EmptyDirectory, 0)
  <2>1. ASSUME NEW p \in Peer PROVE EmptyDirectory[p] = ListedIn(log, 0, p)
    BY DEF EmptyDirectory, ListedIn, Upserts
  <2>2. 0 \in 0..Len(log)
    BY <1>2
  <2> QED BY <2>1, <2>2 DEF DirectoryOK
<1>8. DirectoriesOK
  BY <1>5, <1>6, <1>7 DEF DirectoriesOK
<1>9. BuildersOK /\ SnapshotsOK
  BY DEF StoreInit, BuildersOK, SnapshotsOK
<1> QED BY <1>1, <1>4, <1>8, <1>9 DEF DirectoryInv

(* One round of the loop of `apply`, perhaps of an entry whose effect the  *)
(* directory has already.                                                  *)
LEMMA ApplyKeepsStores ==
    ASSUME DirectoryInv, NEW n \in Peer, ApplyEntry(n)
    PROVE  DirectoryInv'
<1> DEFINE i == last_applied[n] + 1
           d == IF log[i] \in NodeCommand THEN AfterCommand(state[n], log[i]) ELSE state[n]
           m == IF log[i] = Membership THEN i ELSE last_membership[n]
<1>1. /\ i <= Len(log)
      /\ last_applied' = [last_applied EXCEPT ![n] = i]
      /\ state' = [state EXCEPT ![n] = d]
      /\ last_membership' = [last_membership EXCEPT ![n] = m]
      /\ UNCHANGED <<vars, snapshot, builder, carried, builders>>
  BY DEF ApplyEntry, NextEntry
<1>2. StoreTypeOK /\ GroupInv /\ DirectoriesOK /\ BuildersOK /\ SnapshotsOK
  BY DEF DirectoryInv
<1>3. GroupInv' /\ log' = log
  BY <1>1, <1>2, StutterKeepsGroup DEF vars
<1>4. /\ last_applied[n] \in Nat /\ last_membership[n] \in Nat /\ state[n] \in NodeDirectory
      /\ Len(log) \in Nat /\ DOMAIN state = Peer /\ DOMAIN last_applied = Peer
      /\ DOMAIN last_membership = Peer
  BY <1>2, TypesOfTheStores
<1>5. i \in Nat /\ i \in 1..Len(log) /\ i > 0
  BY <1>1, <1>4
<1>6. d \in NodeDirectory
  <2>1. CASE log[i] \in NodeCommand
    <3>1. log[i].addr \in Addr /\ d = [state[n] EXCEPT ![log[i].id] = {log[i].addr}]
      BY <2>1, CommandsNameTheirNode DEF AfterCommand
    <3>2. {log[i].addr} \in SUBSET Addr /\ state[n] \in [Peer -> SUBSET Addr]
      BY <1>4, <3>1 DEF NodeDirectory
    <3> HIDE DEF d, i
    <3> QED BY <3>1, <3>2 DEF NodeDirectory
  <2>2. CASE log[i] \notin NodeCommand
    BY <1>4, <2>2
  <2> QED BY <2>1, <2>2
<1>7. m \in Nat /\ PlaceOK(i, m)
  <2>1. CASE i = 1
    <3>1. log # <<>>
      BY <1>4, <1>5
    <3>2. log[i] = Membership
      BY <1>2, <2>1, <3>1 DEF GroupInv, OneMembership
    <3> QED BY <1>1, <1>5, <2>1, <3>2 DEF PlaceOK
  <2>2. CASE i # 1
    <3>1. log[i] # Membership
      BY <1>2, <1>5, <2>2 DEF GroupInv, OneMembership
    <3>2. last_membership[n] = 1
      BY <1>2, <1>4, <2>2 DEF DirectoriesOK, PlaceOK
    <3> QED BY <1>1, <3>1, <3>2 DEF PlaceOK
  <2> QED BY <2>1, <2>2
<1>8. DirectoryOK(d, i)
  <2>1. ASSUME NEW p \in Peer PROVE \E k \in i..Len(log) : d[p] = ListedIn(log, k, p)
    <3>1. i \in i..Len(log)
      BY <1>5
    <3>2. CASE log[i] \in NodeCommand /\ log[i].id = p
      <4>1. ListedIn(log, i, p) = {log[i].addr}
        BY <1>4, <3>2, ListedAfterOneMore
      <4>2. d[p] = {log[i].addr}
        BY <1>4, <3>2 DEF AfterCommand, NodeDirectory
      <4> QED BY <3>1, <4>1, <4>2
    <3>3. CASE ~(log[i] \in NodeCommand /\ log[i].id = p)
      <4>1. ListedIn(log, i, p) = ListedIn(log, last_applied[n], p)
        BY <1>4, <3>3, ListedAfterOneMore
      <4>2. d[p] = state[n][p]
        <5>1. CASE log[i] \in NodeCommand
          BY <1>4, <3>3, <5>1 DEF AfterCommand, NodeDirectory
        <5>2. CASE log[i] \notin NodeCommand
          BY <5>2
        <5> QED BY <5>1, <5>2
      <4>3. PICK k \in last_applied[n]..Len(log) : state[n][p] = ListedIn(log, k, p)
        BY <1>2 DEF DirectoriesOK, DirectoryOK
      <4>4. k = last_applied[n] \/ k \in i..Len(log)
        BY <1>4
      <4> HIDE DEF i, d
      <4> QED BY <3>1, <4>1, <4>2, <4>3, <4>4
    <3> QED BY <3>2, <3>3
  <2> HIDE DEF i, d
  <2> QED BY <2>1 DEF DirectoryOK
<1>9. last_applied[n] <= i
  BY <1>4
<1> HIDE DEF i, d, m
<1>10. /\ state'[n] = d /\ last_applied'[n] = i /\ last_membership'[n] = m
       /\ \A k \in Peer \ {n} : /\ state'[k] = state[k] /\ last_applied'[k] = last_applied[k]
                                /\ last_membership'[k] = last_membership[k]
       /\ snapshot' = snapshot /\ builder' = builder /\ carried' = carried
  BY <1>1, <1>4
<1>11. StoreTypeOK'
  <2>1. state' \in [Peer -> NodeDirectory]
    BY <1>1, <1>2, <1>6, TypesOfTheStores
  <2>2. last_applied' \in [Peer -> Nat] /\ last_membership' \in [Peer -> Nat]
    BY <1>1, <1>2, <1>5, <1>7, TypesOfTheStores
  <2> QED BY <1>1, <1>2, <1>3, <2>1, <2>2 DEF StoreTypeOK, GroupInv
<1>12. \A b \in builder'[n] : /\ PlaceOK(b.last_log_id, b.last_membership)
                              /\ b.last_log_id <= last_applied'[n]
  <2>1. ASSUME NEW b \in builder[n] PROVE b.last_log_id <= i
    <3>1. b.last_log_id \in Nat /\ b.last_log_id <= last_applied[n]
      BY <1>2, TypesOfTheStores DEF BuildersOK, SnapshotMeta
    <3> QED BY <1>4, <1>5, <1>9, <3>1
  <2> QED BY <1>2, <1>10, <2>1 DEF BuildersOK
<1>13. \A s \in snapshot'[n] \cup carried' : SnapshotOK(s)
  BY <1>2, <1>10 DEF SnapshotsOK
<1> QED BY <1>3, <1>7, <1>8, <1>10, <1>11, <1>12, <1>13, StoreStepKeepsStores

LEMMA BuildersKeepStores ==
    ASSUME DirectoryInv, NEW n \in Peer, GetSnapshotBuilder(n)
    PROVE  DirectoryInv'
<1> DEFINE b == [last_log_id |-> last_applied[n], last_membership |-> last_membership[n]]
<1>1. /\ builders' = builders + 1 /\ builder' = [builder EXCEPT ![n] = {b}]
      /\ UNCHANGED <<vars, state, last_applied, last_membership, snapshot, carried>>
  BY DEF GetSnapshotBuilder
<1>2. StoreTypeOK /\ GroupInv /\ DirectoriesOK /\ BuildersOK /\ SnapshotsOK
  BY DEF DirectoryInv
<1>3. GroupInv' /\ log' = log
  BY <1>1, <1>2, StutterKeepsGroup DEF vars
<1>4. last_applied[n] \in Nat /\ last_membership[n] \in Nat /\ DOMAIN builder = Peer
  BY <1>2, TypesOfTheStores
<1>5. b \in SnapshotMeta /\ b.last_log_id = last_applied[n] /\ b.last_membership = last_membership[n]
  BY <1>4 DEF SnapshotMeta
<1> HIDE DEF b
<1>6. builder'[n] = {b} /\ \A k \in Peer \ {n} : builder'[k] = builder[k]
  BY <1>1, <1>4
<1>7. StoreTypeOK'
  <2>1. builder' \in [Peer -> SUBSET SnapshotMeta] /\ builders' \in Nat
    BY <1>1, <1>2, <1>5, TypesOfTheStores
  <2> QED BY <1>1, <1>2, <1>3, <2>1 DEF StoreTypeOK, GroupInv
<1>8. \A x \in builder'[n] : /\ PlaceOK(x.last_log_id, x.last_membership)
                             /\ x.last_log_id <= last_applied'[n]
  BY <1>1, <1>2, <1>4, <1>5, <1>6 DEF DirectoriesOK
<1>9. /\ PlaceOK(last_applied'[n], last_membership'[n])
      /\ DirectoryOK(state'[n], last_applied'[n])
  BY <1>1, <1>2 DEF DirectoriesOK
<1>10. \A s \in snapshot'[n] \cup carried' : SnapshotOK(s)
  BY <1>1, <1>2 DEF SnapshotsOK
<1> QED BY <1>1, <1>3, <1>6, <1>7, <1>8, <1>9, <1>10, StoreStepKeepsStores

(* The data are those of now, the position is one the node had reached     *)
(* when the builder was asked for: no later.                               *)
LEMMA BuildKeepsStores ==
    ASSUME DirectoryInv, NEW n \in Peer, BuildSnapshot(n)
    PROVE  DirectoryInv'
<1>1. PICK b \in builder[n] :
        /\ builder' = [builder EXCEPT ![n] = {}]
        /\ carried' = carried \cup {[meta |-> b, data |-> state[n]]}
        /\ UNCHANGED <<vars, state, last_applied, last_membership, snapshot, builders>>
  BY DEF BuildSnapshot
<1>2. StoreTypeOK /\ GroupInv /\ DirectoriesOK /\ BuildersOK /\ SnapshotsOK
  BY DEF DirectoryInv
<1>3. GroupInv' /\ log' = log
  BY <1>1, <1>2, StutterKeepsGroup DEF vars
<1>4. /\ b \in SnapshotMeta /\ b.last_log_id \in Nat /\ last_applied[n] \in Nat
      /\ state[n] \in NodeDirectory /\ DOMAIN builder = Peer /\ Len(log) \in Nat
  BY <1>2, TypesOfTheStores DEF SnapshotMeta
<1>5. PlaceOK(b.last_log_id, b.last_membership) /\ b.last_log_id <= last_applied[n]
  BY <1>2 DEF BuildersOK
<1>6. DirectoryOK(state[n], b.last_log_id)
  <2>1. \A k \in last_applied[n]..Len(log) : k \in b.last_log_id..Len(log)
    BY <1>4, <1>5
  <2> QED BY <1>2, <2>1 DEF DirectoriesOK, DirectoryOK
<1> DEFINE s == [meta |-> b, data |-> state[n]]
<1>7. s \in StoredSnapshot /\ SnapshotOK(s)
  BY <1>4, <1>5, <1>6 DEF StoredSnapshot, SnapshotOK
<1>8. carried' = carried \cup {s}
  BY <1>1
<1> HIDE DEF s
<1>9. builder'[n] = {} /\ \A k \in Peer \ {n} : builder'[k] = builder[k]
  BY <1>1, <1>4
<1>10. StoreTypeOK'
  <2>1. builder' \in [Peer -> SUBSET SnapshotMeta] /\ carried' \subseteq StoredSnapshot
    BY <1>1, <1>2, <1>7, <1>8, TypesOfTheStores
  <2> QED BY <1>1, <1>2, <1>3, <2>1 DEF StoreTypeOK, GroupInv
<1>11. /\ PlaceOK(last_applied'[n], last_membership'[n])
       /\ DirectoryOK(state'[n], last_applied'[n])
  BY <1>1, <1>2 DEF DirectoriesOK
<1>12. \A x \in snapshot'[n] \cup carried' : SnapshotOK(x)
  BY <1>1, <1>2, <1>7, <1>8 DEF SnapshotsOK
<1> QED BY <1>1, <1>3, <1>9, <1>10, <1>11, <1>12, StoreStepKeepsStores

LEMMA InstallKeepsStores ==
    ASSUME DirectoryInv, NEW n \in Peer, NEW s \in carried, InstallSnapshot(n, s)
    PROVE  DirectoryInv'
<1>1. /\ s.meta.last_log_id > last_applied[n]
      /\ state' = [state EXCEPT ![n] = s.data]
      /\ last_applied' = [last_applied EXCEPT ![n] = s.meta.last_log_id]
      /\ last_membership' = [last_membership EXCEPT ![n] = s.meta.last_membership]
      /\ snapshot' = [snapshot EXCEPT ![n] = {s}]
      /\ carried' = carried \ {s}
      /\ UNCHANGED <<vars, builder, builders>>
  BY DEF InstallSnapshot, InstalledData
<1>2. StoreTypeOK /\ GroupInv /\ DirectoriesOK /\ BuildersOK /\ SnapshotsOK
  BY DEF DirectoryInv
<1>3. GroupInv' /\ log' = log
  BY <1>1, <1>2, StutterKeepsGroup DEF vars
<1>4. s \in StoredSnapshot /\ SnapshotOK(s)
  BY <1>2, TypesOfTheStores DEF SnapshotsOK
<1>5. /\ s.data \in NodeDirectory /\ s.meta.last_log_id \in Nat /\ s.meta.last_membership \in Nat
  BY <1>4 DEF StoredSnapshot, SnapshotMeta
<1>6. /\ state'[n] = s.data /\ last_applied'[n] = s.meta.last_log_id
      /\ last_membership'[n] = s.meta.last_membership /\ snapshot'[n] = {s}
      /\ \A k \in Peer \ {n} : /\ state'[k] = state[k] /\ last_applied'[k] = last_applied[k]
                               /\ last_membership'[k] = last_membership[k]
                               /\ snapshot'[k] = snapshot[k]
  BY <1>1, <1>2, TypesOfTheStores
<1>7. StoreTypeOK'
  <2>1. state' \in [Peer -> NodeDirectory]
    BY <1>1, <1>2, <1>5, TypesOfTheStores
  <2>2. last_applied' \in [Peer -> Nat] /\ last_membership' \in [Peer -> Nat]
    BY <1>1, <1>2, <1>5, TypesOfTheStores
  <2>3. snapshot' \in [Peer -> SUBSET StoredSnapshot] /\ carried' \subseteq StoredSnapshot
    BY <1>1, <1>2, <1>4, TypesOfTheStores
  <2> QED BY <1>1, <1>2, <1>3, <2>1, <2>2, <2>3 DEF StoreTypeOK, GroupInv
<1>8. \A b \in builder'[n] : /\ PlaceOK(b.last_log_id, b.last_membership)
                             /\ b.last_log_id <= last_applied'[n]
  <2>1. ASSUME NEW b \in builder[n] PROVE b.last_log_id <= s.meta.last_log_id
    <3>1. /\ b.last_log_id \in Nat /\ b.last_log_id <= last_applied[n]
          /\ last_applied[n] \in Nat
      BY <1>2, TypesOfTheStores DEF BuildersOK, SnapshotMeta
    <3> QED BY <1>1, <1>5, <3>1
  <2> QED BY <1>1, <1>2, <1>6, <2>1 DEF BuildersOK
<1>9. /\ PlaceOK(last_applied'[n], last_membership'[n])
      /\ DirectoryOK(state'[n], last_applied'[n])
  BY <1>4, <1>6 DEF SnapshotOK
<1>10. \A x \in snapshot'[n] \cup carried' : SnapshotOK(x)
  BY <1>1, <1>2, <1>4, <1>6 DEF SnapshotsOK
<1> QED BY <1>1, <1>3, <1>6, <1>7, <1>8, <1>9, <1>10, StoreStepKeepsStores

LEMMA CurrentSnapshotKeepsStores ==
    ASSUME DirectoryInv, NEW n \in Peer, GetCurrentSnapshot(n)
    PROVE  DirectoryInv'
<1>1. /\ carried' = carried \cup snapshot[n]
      /\ UNCHANGED <<vars, state, last_applied, last_membership, snapshot, builder, builders>>
  BY DEF GetCurrentSnapshot
<1>2. StoreTypeOK /\ GroupInv /\ DirectoriesOK /\ BuildersOK /\ SnapshotsOK
  BY DEF DirectoryInv
<1>3. GroupInv' /\ log' = log
  BY <1>1, <1>2, StutterKeepsGroup DEF vars
<1>4. StoreTypeOK'
  <2>1. carried' \subseteq StoredSnapshot
    BY <1>1, <1>2, TypesOfTheStores
  <2> QED BY <1>1, <1>2, <1>3, <2>1 DEF StoreTypeOK, GroupInv
<1>5. /\ PlaceOK(last_applied'[n], last_membership'[n])
      /\ DirectoryOK(state'[n], last_applied'[n])
      /\ \A b \in builder'[n] : /\ PlaceOK(b.last_log_id, b.last_membership)
                                /\ b.last_log_id <= last_applied'[n]
  BY <1>1, <1>2 DEF DirectoriesOK, BuildersOK
<1>6. \A x \in snapshot'[n] \cup carried' : SnapshotOK(x)
  BY <1>1, <1>2 DEF SnapshotsOK
<1> QED BY <1>1, <1>3, <1>4, <1>5, <1>6, StoreStepKeepsStores

(* A process that starts again has an empty directory at position 0.       *)
LEMMA RestartKeepsStores ==
    ASSUME DirectoryInv, NEW n \in Peer, RestartNode(n)
    PROVE  DirectoryInv'
<1>1. PICK a \in Addr : Restart(n, a) /\ NewStore(n)
  BY DEF RestartNode
<1>2. StoreTypeOK /\ GroupInv /\ DirectoriesOK /\ BuildersOK /\ SnapshotsOK
  BY DEF DirectoryInv
<1>3. GroupInv' /\ log' = log
  BY <1>1, <1>2, RestartKeepsGroup DEF Restart
<1>4. /\ state' = [state EXCEPT ![n] = EmptyDirectory]
      /\ last_applied' = [last_applied EXCEPT ![n] = 0]
      /\ last_membership' = [last_membership EXCEPT ![n] = 0]
      /\ snapshot' = [snapshot EXCEPT ![n] = {}]
      /\ builder' = [builder EXCEPT ![n] = {}]
      /\ UNCHANGED <<carried, builders>>
  BY <1>1 DEF NewStore
<1>5. EmptyDirectory \in NodeDirectory /\ Len(log) \in Nat
  BY <1>2, TypesOfTheStores DEF EmptyDirectory, NodeDirectory
<1>6. /\ state'[n] = EmptyDirectory /\ last_applied'[n] = 0 /\ last_membership'[n] = 0
      /\ snapshot'[n] = {} /\ builder'[n] = {}
      /\ \A k \in Peer \ {n} : /\ state'[k] = state[k] /\ last_applied'[k] = last_applied[k]
                               /\ last_membership'[k] = last_membership[k]
                               /\ snapshot'[k] = snapshot[k] /\ builder'[k] = builder[k]
  BY <1>2, <1>4, TypesOfTheStores
<1>7. StoreTypeOK'
  <2>1. state' \in [Peer -> NodeDirectory]
    BY <1>2, <1>4, <1>5, TypesOfTheStores
  <2>2. last_applied' \in [Peer -> Nat] /\ last_membership' \in [Peer -> Nat]
    BY <1>2, <1>4, TypesOfTheStores
  <2>3. /\ snapshot' \in [Peer -> SUBSET StoredSnapshot]
        /\ builder' \in [Peer -> SUBSET SnapshotMeta]
    BY <1>2, <1>4, TypesOfTheStores
  <2> QED BY <1>2, <1>3, <1>4, <2>1, <2>2, <2>3 DEF StoreTypeOK, GroupInv
<1>8. PlaceOK(0, 0)
  BY <1>5 DEF PlaceOK
<1>9. DirectoryOK(EmptyDirectory, 0)
  <2>1. ASSUME NEW p \in Peer PROVE EmptyDirectory[p] = ListedIn(log, 0, p)
    BY DEF EmptyDirectory, ListedIn, Upserts
  <2>2. 0 \in 0..Len(log)
    BY <1>5
  <2> QED BY <2>1, <2>2 DEF DirectoryOK
<1>10. \A x \in snapshot'[n] \cup carried' : SnapshotOK(x)
  BY <1>2, <1>4, <1>6 DEF SnapshotsOK
<1> QED BY <1>3, <1>6, <1>7, <1>8, <1>9, <1>10, StoreStepKeepsStores

LEMMA NextStores == DirectoryInv /\ [StoreNext]_allVars => DirectoryInv'
<1> SUFFICES ASSUME DirectoryInv, [StoreNext]_allVars PROVE DirectoryInv'
  OBVIOUS
<1>a. GroupInv /\ Len(log) \in Nat
  BY TypesOfTheGroup DEF DirectoryInv, GroupInv
<1>b. ASSUME GroupInv', log' = log, UNCHANGED storeVars PROVE DirectoryInv'
  BY <1>a, <1>b, GroupStepKeepsStores
<1>1. ASSUME NEW n \in Peer, Initialize(n), UNCHANGED storeVars PROVE DirectoryInv'
  <2>1. GroupInv'
    BY <1>1, <1>a, InitializeKeepsGroup
  <2>2. Len(log) = 0 /\ Len(log') = 1
    BY <1>1 DEF Initialize
  <2> QED BY <1>1, <2>1, <2>2, GroupStepKeepsStores
<1>2. ASSUME NEW n \in Peer, InitializeRefused(n), UNCHANGED storeVars PROVE DirectoryInv'
  BY <1>2, <1>a, <1>b, BootstrapKeepsGroup DEF InitializeRefused
<1>3. ASSUME NEW n \in Peer, Elect(n), UNCHANGED storeVars PROVE DirectoryInv'
  <2>1. GroupInv' /\ Len(log') > Len(log) /\ \A i \in 1..Len(log) : log'[i] = log[i]
    BY <1>3, <1>a, ElectKeepsGroup
  <2>2. Len(log') \in Nat
    BY <2>1, LenProperties DEF GroupInv, TypeOK
  <2> QED BY <1>3, <1>a, <2>1, <2>2, GroupStepKeepsStores
<1>4. ASSUME NEW n \in Peer, ProposeSelf(n), UNCHANGED storeVars PROVE DirectoryInv'
  BY <1>4, <1>a, <1>b, ProposeKeepsGroup DEF ProposeSelf
<1>5. ASSUME NEW n \in Peer, CommitSelf(n), UNCHANGED storeVars PROVE DirectoryInv'
  <2>1. GroupInv' /\ Len(log') > Len(log) /\ \A i \in 1..Len(log) : log'[i] = log[i]
    BY <1>5, <1>a, CommitKeepsGroup
  <2>2. Len(log') \in Nat
    BY <2>1, LenProperties DEF GroupInv, TypeOK
  <2> QED BY <1>5, <1>a, <2>1, <2>2, GroupStepKeepsStores
<1>6. ASSUME NEW n \in Peer, WriteRefused(n), UNCHANGED storeVars PROVE DirectoryInv'
  BY <1>6, <1>a, <1>b, AnswersKeepGroup DEF WriteRefused
<1>7. ASSUME NEW n \in Peer, AnswerRegistered(n) PROVE DirectoryInv'
  BY <1>7, <1>a, <1>b, AnswersKeepGroup DEF AnswerRegistered, Registered
<1>8. CASE UNCHANGED allVars
  <2>1. UNCHANGED vars /\ UNCHANGED storeVars /\ log' = log
    BY <1>8 DEF allVars, vars
  <2> QED BY <1>a, <1>b, <2>1, StutterKeepsGroup
<1>9. ASSUME StoreNext PROVE DirectoryInv'
  BY <1>1, <1>2, <1>3, <1>4, <1>5, <1>6, <1>7, <1>9, RestartKeepsStores, ApplyKeepsStores,
     BuildersKeepStores, BuildKeepsStores, CurrentSnapshotKeepsStores, InstallKeepsStores
     DEF StoreNext, BootstrapStep, WriteStep
<1> QED BY <1>8, <1>9

LEMMA StoresInvariant == StoreSpec => []DirectoryInv
  BY InitStores, NextStores, PTL DEF StoreSpec

-----------------------------------------------------------------------------

(* The state of the tasks, of the group and of the stores is well typed.   *)
THEOREM DirectoryTypes == StoreSpec => []StoreTypeOK
<1>1. DirectoryInv => StoreTypeOK
  BY DEF DirectoryInv
<1> QED BY <1>1, StoresInvariant, PTL

(* A registration task only ends once the log leaves its node's present    *)
(* address in the directory, and no write of an earlier process or of a    *)
(* deposed leader can replace it afterwards; and no second `initialize`    *)
(* ever succeeds.                                                          *)
THEOREM RegistrationsStand == StoreSpec => []EndedTasksAreRegistered
<1>1. DirectoryInv => EndedTasksAreRegistered
  <2> SUFFICES ASSUME DirectoryInv PROVE EndedTasksAreRegistered
    OBVIOUS
  <2>1. DOMAIN log = 1..Len(log)
    BY TypesOfTheStores, LenProperties DEF DirectoryInv
  <2> QED BY <2>1 DEF DirectoryInv, GroupInv, OneMembership, CommittedIsListed,
                      EndedTasksAreRegistered
<1> QED BY <1>1, StoresInvariant, PTL

(* Replicas that have reached the end of the log list every node at the    *)
(* same, latest address, whether they replayed the log or were sent a      *)
(* snapshot whose directory is newer than the position it claims.          *)
THEOREM DirectoriesConverge == StoreSpec => []CaughtUpDirectoriesAgree
<1>1. DirectoryInv => CaughtUpDirectoriesAgree
  <2> SUFFICES ASSUME DirectoryInv, NEW n \in Peer, last_applied[n] = Len(log)
               PROVE  /\ state[n] = [p \in Peer |-> Listed(p)]
                      /\ last_applied[n] > 0 => last_membership[n] = 1
    BY DEF CaughtUpDirectoriesAgree
  <2>1. state[n] \in NodeDirectory /\ Len(log) \in Nat
    BY TypesOfTheStores DEF DirectoryInv
  <2>2. ASSUME NEW p \in Peer PROVE state[n][p] = Listed(p)
    <3>1. PICK k \in Len(log)..Len(log) : state[n][p] = ListedIn(log, k, p)
      BY DEF DirectoryInv, DirectoriesOK, DirectoryOK
    <3>2. k = Len(log)
      BY <2>1
    <3> QED BY <3>1, <3>2 DEF Listed
  <2>3. state[n] = [p \in Peer |-> Listed(p)]
    BY <2>1, <2>2 DEF NodeDirectory
  <2> QED BY <2>3 DEF DirectoryInv, DirectoriesOK, PlaceOK
<1> QED BY <1>1, StoresInvariant, PTL
=============================================================================
