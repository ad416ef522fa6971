------------------------ MODULE LogReplicationProofs ------------------------
(***************************************************************************)
(* Proofs about LogReplication, for any number of brokers, terms, entries  *)
(* and restarts: what one node holds as committed is what every node holds *)
(* as committed, and the queue of a node that is up is that prefix.        *)
(***************************************************************************)
EXTENDS LogReplication, FiniteSetTheorems, SequenceTheorems, WellFoundedInduction, TLAPS

(* The invariant is about the logs L, the votes V, the leaders D and their *)
(* progress A.                                                             *)
Logs  == [n \in Node |-> wal[n].log]
Votes == [n \in Node |-> wal[n].vote]

(* The first p entries of s are the first p entries of l.                  *)
Contains(l, s, p) == p <= Len(l) /\ \A i \in 1..p : l[i] = s[i]

(* A log with an entry later than s[p] has everything up to s[p].          *)
Covered(L, s, p) ==
    \A x \in Node : (\E i \in 1..Len(L[x]) : L[x][i] > s[p]) => Contains(L[x], s, p)

-----------------------------------------------------------------------------
(* No entry is later than the vote of the node that has it.                *)
LogsVoted(L, V) == \A n \in Node : \A i \in 1..Len(L[n]) : L[n][i] <= V[n]

LogsOrdered(L) ==
    \A n \in Node : \A i, j \in 1..Len(L[n]) : i <= j => L[n][i] <= L[n][j]

(* Only the membership that `bootstrap` wrote is of term 0.                *)
ZeroIsFirst(L) == \A n \in Node : \A i \in 1..Len(L[n]) : L[n][i] = 0 => i = 1

(* Two logs that have an entry of the same term are the same up to the     *)
(* first of the two.                                                       *)
LogsMatch(L) ==
    \A a, b \in Node : \A i \in 1..Len(L[a]), j \in 1..Len(L[b]) :
        i <= j /\ L[a][i] = L[b][j] => Contains(L[b], L[a], i)

(* A vote that anyone has, a majority has given or passed.                 *)
VotesElected(V) ==
    \A m \in Node : V[m] > 0 => IsMajority({x \in Node : V[x] >= V[m]})

OneLeaderPerTerm(V, D) == \A n, m \in D : V[n] = V[m] => n = m

(* A leader has written in its term, and has all that anyone has of it.    *)
LeadersHaveTheirTerm(L, V, D) ==
    \A n \in D :
        /\ Len(L[n]) > 0 /\ L[n][Len(L[n])] = V[n] /\ V[n] > 0
        /\ \A b \in Node : \A i \in 1..Len(L[b]) :
            L[b][i] = V[n] => i <= Len(L[n]) /\ L[n][i] = V[n]

ProgressIsOfTheLog(L, D, A) == \A n \in D, x \in Node : A[n][x] <= Len(L[n])

(* Entry c of leader n is safe where it was acknowledged ...               *)
Safe(L, A, n, c) ==
    /\ Covered(L, L[n], c)
    /\ \A x \in Node : A[n][x] >= c => Contains(L[x], L[n], c)

(* ... or a majority that has moved on will never acknowledge it.          *)
Lost(V, A, n, c) ==
    \E Q \in SUBSET Node :
        IsMajority(Q) /\ \A x \in Q : V[x] > V[n] /\ A[n][x] < c

SafeOrLost(L, V, D, A) ==
    \A n \in D : \A c \in 1..Len(L[n]) :
        L[n][c] = V[n] => Safe(L, A, n, c) \/ Lost(V, A, n, c)

Typed(L, V, D, A) ==
    /\ L \in [Node -> Seq(Nat)] /\ V \in [Node -> Nat]
    /\ D \subseteq Node /\ A \in [Node -> [Node -> Nat]]

ProtocolInv(L, V, D, A) ==
    /\ Typed(L, V, D, A)
    /\ LogsVoted(L, V) /\ LogsOrdered(L) /\ ZeroIsFirst(L) /\ LogsMatch(L)
    /\ VotesElected(V) /\ OneLeaderPerTerm(V, D)
    /\ LeadersHaveTheirTerm(L, V, D) /\ ProgressIsOfTheLog(L, D, A)
    /\ SafeOrLost(L, V, D, A)

-----------------------------------------------------------------------------
(* s[1..p] can no longer be lost: a majority has it, and so has every log  *)
(* with a later entry.                                                     *)
Fixed(L, s, p) ==
    /\ Covered(L, s, p)
    /\ IsMajority({x \in Node : Contains(L[x], s, p)})

(* All that is committed is fixed, and a node that holds a position as     *)
(* committed has voted in a term that fixed it.                            *)
ChosenInv(L, V, C, s) ==
    /\ s # <<>> => Fixed(L, s, Len(s))
    /\ \A m \in Node :
        /\ C[m] <= Len(s)
        /\ Contains(L[m], s, C[m])
        /\ C[m] > 0 => \E r \in C[m]..Len(s) : Fixed(L, s, r) /\ s[r] <= V[m]

Committed == [n \in Node |-> wal[n].committed]

QueueInv ==
    \A n \in Node : status[n] = "up" =>
        /\ applied[n] <= wal[n].committed
        /\ data[n] = SubSeq(chosen, 1, applied[n])

ReplicationInv ==
    /\ TypeOK
    /\ ProtocolInv(Logs, Votes, leads, acked)
    /\ ChosenInv(Logs, Votes, Committed, chosen)
    /\ QueueInv
-----------------------------------------------------------------------------
(* Majorities, and the least of a set of numbers.                          *)

LEMMA MajoritiesMeet ==
    ASSUME NEW P \in SUBSET Node, NEW Q \in SUBSET Node, IsMajority(P), IsMajority(Q)
    PROVE  \E x \in P : x \in Q
<1>1. /\ IsFiniteSet(P) /\ IsFiniteSet(Q) /\ IsFiniteSet(Node)
      /\ Cardinality(P) \in Nat /\ Cardinality(Q) \in Nat /\ Cardinality(Node) \in Nat
  BY ReplicationParameters, FS_Subset, FS_CardinalityType
<1>2. Cardinality(P) + Cardinality(Q) > Cardinality(Node)
  BY <1>1 DEF IsMajority
<1>3. P \cap Q # {}
  BY <1>1, <1>2, FS_MajoritiesIntersect
<1> QED BY <1>3

LEMMA MoreThanAMajority ==
    ASSUME NEW P \in SUBSET Node, NEW Q \in SUBSET Node, IsMajority(P), P \subseteq Q
    PROVE  IsMajority(Q)
<1>1. /\ IsFiniteSet(P) /\ IsFiniteSet(Q) /\ IsFiniteSet(Node)
      /\ Cardinality(P) \in Nat /\ Cardinality(Q) \in Nat /\ Cardinality(Node) \in Nat
  BY ReplicationParameters, FS_Subset, FS_CardinalityType
<1>2. Cardinality(P) <= Cardinality(Q)
  BY <1>1, FS_Subset
<1> QED BY <1>1, <1>2 DEF IsMajority

LEMMA MajorityIsNotEmpty ==
    ASSUME NEW P \in SUBSET Node, IsMajority(P)
    PROVE  \E x \in P : TRUE
<1> QED BY MajoritiesMeet

LEMMA LeastExists ==
    ASSUME NEW S \in SUBSET Nat, S # {}
    PROVE  \E x \in S : \A y \in S : x <= y
<1>1. PICK x \in S : \A y \in S : ~ (<<y, x>> \in OpToRel(<, Nat))
  BY NatLessThanWellFounded, WFMin
<1>2. \A y \in S : ~ (y < x)
  BY <1>1 DEF OpToRel
<1> QED BY <1>2

(* `Matching` finds what it looks for.                                     *)
LEMMA MatchingIsFound ==
    ASSUME NEW l \in Seq(Nat), NEW k \in Seq(Nat)
    PROVE  /\ Matching(l, k) \in 0..Len(l)
           /\ Matching(l, k) <= Len(k)
           /\ \A i \in 1..Matching(l, k) : l[i] = k[i]
           /\ Matching(l, k) < Len(l) /\ Matching(l, k) < Len(k)
                => l[Matching(l, k) + 1] # k[Matching(l, k) + 1]
<1> DEFINE Found(i) == /\ i <= Len(k) /\ SubSeq(l, 1, i) = SubSeq(k, 1, i)
                       /\ i < Len(l) /\ i < Len(k) => l[i + 1] # k[i + 1]
           Same(i) == i <= Len(k) /\ \A j \in 1..i : l[j] = k[j]
<1>1. \E i \in 0..Len(l) : /\ Same(i)
                           /\ i < Len(l) /\ i < Len(k) => l[i + 1] # k[i + 1]
  <2> DEFINE S == {j \in Nat : j < Len(l) /\ j < Len(k) /\ l[j + 1] # k[j + 1]}
  <2>1. CASE S = {}
    <3>1. \A j \in 1..Len(l) : j <= Len(k) => l[j] = k[j]
      <4> TAKE j \in 1..Len(l)
      <4> HAVE j <= Len(k)
      <4>1. j - 1 \in Nat /\ j - 1 < Len(l) /\ j - 1 < Len(k) /\ (j - 1) + 1 = j
        OBVIOUS
      <4> QED BY <2>1, <4>1
    <3>2. CASE Len(l) <= Len(k)
      <4>1. Same(Len(l)) /\ Len(l) \in 0..Len(l) /\ ~(Len(l) < Len(l))
        BY <3>1, <3>2
      <4> HIDE DEF Same
      <4> QED BY <4>1
    <3>3. CASE Len(k) < Len(l)
      <4>1. Len(k) \in 0..Len(l) /\ ~(Len(k) < Len(k))
        BY <3>3
      <4>2. Same(Len(k))
        BY <3>1, <3>3
      <4> HIDE DEF Same
      <4> QED BY <4>1, <4>2
    <3>4. Len(l) <= Len(k) \/ Len(k) < Len(l)
      OBVIOUS
    <3> QED BY <3>2, <3>3, <3>4
  <2>2. CASE S # {}
    <3>1. PICK i \in S : \A y \in S : i <= y
      <4> S \in SUBSET Nat OBVIOUS
      <4> QED BY <2>2, LeastExists
    <3>2. \A j \in 1..i : l[j] = k[j]
      <4> TAKE j \in 1..i
      <4>1. j - 1 \in Nat /\ j - 1 < Len(l) /\ j - 1 < Len(k) /\ (j - 1) + 1 = j /\ j - 1 < i
        BY <3>1
      <4>2. j - 1 \notin S
        <5>1. i \in Nat /\ ~(i <= j - 1)
          BY <3>1, <4>1
        <5> HIDE DEF S
        <5> QED BY <3>1, <5>1
      <4> QED BY <4>1, <4>2
    <3>3. i \in 0..Len(l) /\ Same(i)
      BY <3>1, <3>2
    <3>4. l[i + 1] # k[i + 1]
      BY <3>1
    <3> HIDE DEF S, Same
    <3> QED BY <3>3, <3>4
  <2> QED BY <2>1, <2>2
<1>2. \A i \in 0..Len(l) : i <= Len(k) =>
        (SubSeq(l, 1, i) = SubSeq(k, 1, i) <=> \A j \in 1..i : l[j] = k[j])
  <2> TAKE i \in 0..Len(l)
  <2> HAVE i <= Len(k)
  <2>1. /\ SubSeq(l, 1, i) \in Seq(Nat) /\ SubSeq(k, 1, i) \in Seq(Nat)
        /\ Len(SubSeq(l, 1, i)) = i /\ Len(SubSeq(k, 1, i)) = i
        /\ \A j \in 1..i : SubSeq(l, 1, i)[j] = l[j] /\ SubSeq(k, 1, i)[j] = k[j]
    <3>1. \A j \in 1..i : l[j] \in Nat /\ k[j] \in Nat
      OBVIOUS
    <3>2. /\ SubSeq(l, 1, i) \in Seq(Nat) /\ Len(SubSeq(l, 1, i)) = i
          /\ \A j \in 1..i : SubSeq(l, 1, i)[j] = l[j]
      BY <3>1, SubSeqProperties
    <3>3. /\ SubSeq(k, 1, i) \in Seq(Nat) /\ Len(SubSeq(k, 1, i)) = i
          /\ \A j \in 1..i : SubSeq(k, 1, i)[j] = k[j]
      BY <3>1, SubSeqProperties
    <3> QED BY <3>2, <3>3
  <2>2. ASSUME \A j \in 1..i : l[j] = k[j] PROVE SubSeq(l, 1, i) = SubSeq(k, 1, i)
    BY <2>1, <2>2, SeqEqual
  <2> QED BY <2>1, <2>2
<1>3. \E i \in 0..Len(l) : Found(i)
  BY <1>1, <1>2
<1>4. Matching(l, k) = CHOOSE i \in 0..Len(l) : Found(i)
  BY DEF Matching
<1>5. Matching(l, k) \in 0..Len(l) /\ Found(Matching(l, k))
  <2> HIDE DEF Found
  <2> QED BY <1>3, <1>4
<1> QED BY <1>2, <1>5

-----------------------------------------------------------------------------
(* What the invariant says of a leader and of a candidate.                 *)

LEMMA LogsAreSequences ==
    ASSUME NEW L \in [Node -> Seq(Nat)], NEW n \in Node
    PROVE  /\ L[n] \in Seq(Nat) /\ Len(L[n]) \in Nat
           /\ \A i \in 1..Len(L[n]) : L[n][i] \in Nat
  OBVIOUS

(* A leader whose term is not before that of s[p] has all of s[1..p], if   *)
(* anyone has.                                                             *)
LEMMA LeaderContains ==
    ASSUME NEW L, NEW V, NEW D, NEW A, ProtocolInv(L, V, D, A),
           NEW s, NEW p \in Nat \ {0}, s[p] \in Nat, Covered(L, s, p),
           NEW x \in Node, Contains(L[x], s, p),
           NEW n \in D, s[p] <= V[n]
    PROVE  Contains(L[n], s, p)
<1>1. n \in Node /\ V[n] \in Nat /\ L \in [Node -> Seq(Nat)]
  BY DEF ProtocolInv, Typed
<1>2. /\ Len(L[n]) \in Nat /\ Len(L[n]) > 0 /\ L[n][Len(L[n])] = V[n]
      /\ \A i \in 1..Len(L[x]) : L[x][i] = V[n] => i <= Len(L[n]) /\ L[n][i] = V[n]
  BY <1>1, LogsAreSequences DEF ProtocolInv, LeadersHaveTheirTerm
<1>3. p \in 1..Len(L[x]) /\ L[x][p] = s[p]
  BY <1>1, LogsAreSequences DEF Contains
<1>4. CASE V[n] > s[p]
  <2> Len(L[n]) \in 1..Len(L[n]) BY <1>2
  <2> QED BY <1>1, <1>2, <1>4 DEF Covered
<1>5. CASE V[n] = s[p]
  <2>1. p \in 1..Len(L[n]) /\ L[n][p] = L[x][p]
    BY <1>2, <1>3, <1>5
  <2>2. Contains(L[n], L[x], p)
    BY <1>1, <1>3, <2>1 DEF ProtocolInv, LogsMatch
  <2> QED BY <2>2 DEF Contains
<1> QED BY <1>1, <1>4, <1>5

(* A candidate that is up to date with a node has what that node has of    *)
(* what is covered.                                                        *)
LEMMA CandidateContains ==
    ASSUME NEW L, NEW V, NEW D, NEW A, ProtocolInv(L, V, D, A),
           NEW s, NEW p \in Nat \ {0}, s[p] \in Nat, Covered(L, s, p),
           NEW x \in Node, Contains(L[x], s, p),
           NEW n \in Node, L[n] # <<>>, UpToDate(L[n], L[x])
    PROVE  Contains(L[n], s, p)
<1>1. L \in [Node -> Seq(Nat)]
  BY DEF ProtocolInv, Typed
<1> DEFINE ln == Len(L[n])
           lx == Len(L[x])
<1>2. /\ ln \in Nat /\ lx \in Nat /\ ln > 0
      /\ \A i \in 1..ln : L[n][i] \in Nat
      /\ \A i \in 1..lx : L[x][i] \in Nat
  BY <1>1, LogsAreSequences, EmptySeq
<1>3. p \in 1..lx /\ L[x][p] = s[p]
  BY <1>2 DEF Contains
<1>4. L[x] # <<>>
  BY <1>2, <1>3
<1>5. s[p] <= L[x][lx]
  <2>1. \A i, j \in 1..lx : i <= j => L[x][i] <= L[x][j]
    BY DEF ProtocolInv, LogsOrdered
  <2> lx \in 1..lx /\ p <= lx BY <1>2, <1>3
  <2> QED BY <2>1, <1>3
<1>6. L[n][ln] > L[x][lx] \/ (L[n][ln] = L[x][lx] /\ ln >= lx)
  BY <1>4 DEF UpToDate, Last
<1>7. ln \in 1..ln /\ lx \in 1..lx /\ L[n][ln] \in Nat /\ L[x][lx] \in Nat
  BY <1>2, <1>3
<1>8. CASE L[n][ln] > s[p]
  BY <1>7, <1>8 DEF Covered
<1>9. CASE ~(L[n][ln] > s[p])
  <2>1. L[n][ln] = L[x][lx] /\ lx <= ln /\ L[x][lx] = s[p]
    BY <1>2, <1>5, <1>6, <1>7, <1>9
  <2>2. Contains(L[n], L[x], lx)
    <3>1. \A i \in 1..lx, j \in 1..ln : i <= j /\ L[x][i] = L[n][j] => Contains(L[n], L[x], i)
      BY DEF ProtocolInv, LogsMatch
    <3> HIDE DEF ln, lx
    <3> QED BY <1>7, <2>1, <3>1
  <2> QED BY <1>2, <1>3, <2>1, <2>2 DEF Contains
<1> QED BY <1>8, <1>9

(* What append_entries makes of m's log, of which k entries were the       *)
(* leader's and r are now.                                                 *)
Appended(L, L2, n, m, k, r) ==
    /\ k \in 0..Len(L[n]) /\ k <= Len(L[m])
    /\ \A i \in 1..k : L[n][i] = L[m][i]
    /\ k < Len(L[n]) /\ k < Len(L[m]) => L[n][k + 1] # L[m][k + 1]
    /\ r = IF k < Len(L[n]) THEN k + 1 ELSE k
    /\ L2 \in [Node -> Seq(Nat)]
    /\ \A x \in Node \ {m} : L2[x] = L[x]
    /\ r = k => L2[m] = L[m]
    /\ r # k => Len(L2[m]) = r /\ \A i \in 1..r : L2[m][i] = L[n][i]

LEMMA AppendedLog ==
    ASSUME NEW L \in [Node -> Seq(Nat)], NEW L2, NEW n \in Node, NEW m \in Node \ {n},
           NEW k, NEW r, Appended(L, L2, n, m, k, r)
    PROVE  /\ r \in 0..Len(L[n]) /\ Contains(L2[m], L[n], r)
           /\ \/ L2[m] = L[m]
              \/ Contains(L[n], L2[m], Len(L2[m]))
           /\ L2[n] = L[n]
<1>1. Len(L[n]) \in Nat /\ Len(L[m]) \in Nat
  BY LogsAreSequences
<1>2. k \in Nat /\ r \in Nat /\ r \in 0..Len(L[n]) /\ L2[n] = L[n]
  BY <1>1 DEF Appended
<1>3. CASE r = k
  BY <1>1, <1>2, <1>3 DEF Appended, Contains
<1>4. CASE r # k
  BY <1>1, <1>2, <1>4 DEF Appended, Contains
<1> QED BY <1>3, <1>4

(* A prefix that the leader and the follower share is not cut.             *)
LEMMA AppendedKeeps ==
    ASSUME NEW L \in [Node -> Seq(Nat)], NEW L2, NEW n \in Node, NEW m \in Node \ {n},
           NEW k, NEW r, Appended(L, L2, n, m, k, r),
           NEW s, NEW p \in Nat, Contains(L[n], s, p), Contains(L[m], s, p)
    PROVE  Contains(L2[m], s, p)
<1>1. Len(L[n]) \in Nat /\ Len(L[m]) \in Nat
  BY LogsAreSequences
<1>2. k \in Nat /\ r \in Nat
  BY <1>1 DEF Appended
<1>3. CASE r = k
  BY <1>3 DEF Appended
<1>4. CASE r # k
  <2>1. p <= k
    <3> SUFFICES ASSUME p > k PROVE FALSE
      BY <1>2
    <3>1. k + 1 \in 1..p /\ k < Len(L[n]) /\ k < Len(L[m])
      BY <1>1, <1>2 DEF Contains
    <3>2. L[n][k + 1] = s[k + 1] /\ L[m][k + 1] = s[k + 1]
      BY <3>1 DEF Contains
    <3> QED BY <3>1, <3>2 DEF Appended
  <2>2. /\ r = k + 1 /\ Len(L2[m]) = r /\ \A i \in 1..r : L2[m][i] = L[n][i]
    BY <1>2, <1>4 DEF Appended
  <2>3. \A i \in 1..p : i \in 1..r /\ L[n][i] = s[i]
    <3>1. \A i \in 1..p : i \in 1..r
      BY <1>2, <2>1, <2>2
    <3>2. \A i \in 1..p : L[n][i] = s[i]
      BY DEF Contains
    <3> QED BY <3>1, <3>2
  <2> QED BY <1>2, <2>1, <2>2, <2>3 DEF Contains
<1> QED BY <1>3, <1>4

-----------------------------------------------------------------------------
(* A step that appends nothing: votes may rise and leaders resign.         *)

LEMMA ContainsLess ==
    ASSUME NEW l, NEW s, NEW p \in Nat, NEW q \in 0..p, Len(l) \in Nat, Contains(l, s, p)
    PROVE  Contains(l, s, q)
<1>1. \A i \in 1..q : i \in 1..p
  OBVIOUS
<1> QED BY <1>1 DEF Contains

LEMMA LostStays ==
    ASSUME NEW V \in [Node -> Nat], NEW V2 \in [Node -> Nat], NEW A, NEW A2,
           NEW n \in Node, NEW c, \A x \in Node : V2[x] >= V[x], V2[n] = V[n],
           \A x \in Node : V[x] > V[n] => A2[n][x] = A[n][x],
           Lost(V, A, n, c)
    PROVE  Lost(V2, A2, n, c)
<1>1. PICK Q \in SUBSET Node : IsMajority(Q) /\ \A x \in Q : V[x] > V[n] /\ A[n][x] < c
  BY DEF Lost
<1>2. \A x \in Q : V2[x] > V2[n] /\ A2[n][x] < c
  <2> TAKE x \in Q
  <2>1. V[x] \in Nat /\ V2[x] \in Nat /\ V[n] \in Nat /\ V2[x] >= V[x] /\ V[x] > V[n]
    BY <1>1
  <2>2. A2[n][x] = A[n][x] /\ A[n][x] < c
    BY <1>1
  <2> QED BY <2>1, <2>2
<1> QED BY <1>1, <1>2 DEF Lost

Quiet(V, D, A, V2, D2, A2) ==
    /\ V2 \in [Node -> Nat] /\ D2 \subseteq D /\ A2 \in [Node -> [Node -> Nat]]
    /\ \A n \in Node : V2[n] >= V[n]
    /\ \A n \in D2 : V2[n] = V[n] /\ A2[n] = A[n]
    /\ VotesElected(V2)

LEMMA QuietKeepsProtocol ==
    ASSUME NEW L, NEW V, NEW D, NEW A, ProtocolInv(L, V, D, A),
           NEW V2, NEW D2, NEW A2, Quiet(V, D, A, V2, D2, A2)
    PROVE  ProtocolInv(L, V2, D2, A2)
<1> /\ V2 \in [Node -> Nat] /\ D2 \subseteq D /\ A2 \in [Node -> [Node -> Nat]]
    /\ \A n \in Node : V2[n] >= V[n]
    /\ \A n \in D2 : V2[n] = V[n] /\ A2[n] = A[n]
    /\ VotesElected(V2)
  BY DEF Quiet
<1>1. Typed(L, V, D, A)
  BY DEF ProtocolInv
<1>2. Typed(L, V2, D2, A2)
  BY <1>1 DEF Typed
<1>3. LogsVoted(L, V2)
  <2> SUFFICES ASSUME NEW n \in Node, NEW i \in 1..Len(L[n]) PROVE L[n][i] <= V2[n]
    BY DEF LogsVoted
  <2>1. L[n][i] <= V[n]
    BY DEF ProtocolInv, LogsVoted
  <2>2. L[n][i] \in Nat /\ V[n] \in Nat /\ V2[n] \in Nat
    BY <1>1, LogsAreSequences DEF Typed
  <2> QED BY <2>1, <2>2
<1>4. OneLeaderPerTerm(V2, D2)
  BY DEF ProtocolInv, OneLeaderPerTerm
<1>5. LeadersHaveTheirTerm(L, V2, D2)
  BY DEF ProtocolInv, LeadersHaveTheirTerm
<1>6. ProgressIsOfTheLog(L, D2, A2)
  BY DEF ProtocolInv, ProgressIsOfTheLog
<1>7. SafeOrLost(L, V2, D2, A2)
  <2> SUFFICES ASSUME NEW n \in D2, NEW c \in 1..Len(L[n]), L[n][c] = V2[n]
               PROVE  Safe(L, A2, n, c) \/ Lost(V2, A2, n, c)
    BY DEF SafeOrLost
  <2>1. n \in D /\ n \in Node /\ V2[n] = V[n] /\ A2[n] = A[n]
    BY <1>1 DEF Typed
  <2>2. Safe(L, A, n, c) \/ Lost(V, A, n, c)
    BY <2>1 DEF ProtocolInv, SafeOrLost
  <2>3. CASE Safe(L, A, n, c)
    BY <2>1, <2>3 DEF Safe
  <2>4. CASE Lost(V, A, n, c)
    <3> V \in [Node -> Nat] BY <1>1 DEF Typed
    <3> QED BY <2>1, <2>4, LostStays
  <2> QED BY <2>2, <2>3, <2>4
<1> QED BY <1>2, <1>3, <1>4, <1>5, <1>6, <1>7 DEF ProtocolInv

-----------------------------------------------------------------------------
(* One entry e more at the end of n's log.                                 *)

Grown(L, L2, n, e) ==
    /\ L2 \in [Node -> Seq(Nat)]
    /\ \A x \in Node \ {n} : L2[x] = L[x]
    /\ Len(L2[n]) = Len(L[n]) + 1
    /\ \A i \in 1..Len(L[n]) : L2[n][i] = L[n][i]
    /\ L2[n][Len(L[n]) + 1] = e

GrownByOne(L, L2, n, e) ==
    \A x \in Node :
        /\ Len(L2[x]) \in Nat /\ Len(L[x]) \in Nat /\ Len(L[x]) <= Len(L2[x])
        /\ \A i \in 1..Len(L[x]) : i \in 1..Len(L2[x]) /\ L2[x][i] = L[x][i] /\ L[x][i] \in Nat
        /\ \A i \in 1..Len(L2[x]) :
             i \in 1..Len(L[x]) \/ (x = n /\ i = Len(L[x]) + 1 /\ L2[x][i] = e)

LEMMA GrownEntries ==
    ASSUME NEW L \in [Node -> Seq(Nat)], NEW L2, NEW n \in Node, NEW e \in Nat,
           Grown(L, L2, n, e)
    PROVE  GrownByOne(L, L2, n, e)
<1> SUFFICES ASSUME NEW x \in Node
             PROVE  /\ Len(L2[x]) \in Nat /\ Len(L[x]) \in Nat /\ Len(L[x]) <= Len(L2[x])
                    /\ \A i \in 1..Len(L[x]) : /\ i \in 1..Len(L2[x])
                                               /\ L2[x][i] = L[x][i] /\ L[x][i] \in Nat
                    /\ \A i \in 1..Len(L2[x]) :
                         i \in 1..Len(L[x]) \/ (x = n /\ i = Len(L[x]) + 1 /\ L2[x][i] = e)
  BY DEF GrownByOne
<1>1. Len(L2[x]) \in Nat /\ Len(L[x]) \in Nat /\ \A i \in 1..Len(L[x]) : L[x][i] \in Nat
  BY LogsAreSequences DEF Grown
<1>2. CASE x = n
  BY <1>1, <1>2 DEF Grown
<1>3. CASE x # n
  BY <1>1, <1>3 DEF Grown
<1> QED BY <1>2, <1>3

LEMMA GrownKeeps ==
    ASSUME NEW L \in [Node -> Seq(Nat)], NEW L2, NEW n \in Node, NEW e \in Nat,
           Grown(L, L2, n, e), NEW x \in Node, NEW s, NEW p \in Nat, Contains(L[x], s, p)
    PROVE  Contains(L2[x], s, p)
<1>1. /\ Len(L2[x]) \in Nat /\ Len(L[x]) \in Nat /\ Len(L[x]) <= Len(L2[x])
      /\ \A i \in 1..Len(L[x]) : L2[x][i] = L[x][i]
  BY GrownEntries DEF GrownByOne
<1> QED BY <1>1 DEF Contains

(* Where one sequence is the other up to p, it is the same to contain one  *)
(* as the other.                                                           *)
LEMMA CoveredIsOfPrefix ==
    ASSUME NEW L, NEW s, NEW z, NEW p \in Nat \ {0}, \A i \in 1..p : z[i] = s[i], Covered(L, s, p)
    PROVE  Covered(L, z, p)
<1>1. z[p] = s[p]
  OBVIOUS
<1> QED BY <1>1 DEF Covered, Contains

LEMMA GrownCovered ==
    ASSUME NEW L \in [Node -> Seq(Nat)], NEW L2, NEW n \in Node, NEW e \in Nat,
           Grown(L, L2, n, e), NEW s, NEW p \in Nat, s[p] \in Nat, Covered(L, s, p),
           e > s[p] => Contains(L[n], s, p)
    PROVE  Covered(L2, s, p)
<1> SUFFICES ASSUME NEW x \in Node, NEW i \in 1..Len(L2[x]), L2[x][i] > s[p]
             PROVE  Contains(L2[x], s, p)
  BY DEF Covered
<1>1. Contains(L[x], s, p)
  <2>1. CASE i \in 1..Len(L[x])
    <3>1. GrownByOne(L, L2, n, e)
      BY GrownEntries
    <3>2. L2[x][i] = L[x][i]
      BY <2>1, <3>1 DEF GrownByOne
    <3> QED BY <2>1, <3>2 DEF Covered
  <2>2. CASE x = n /\ L2[x][i] = e
    BY <2>2
  <2> QED BY <2>1, <2>2, GrownEntries DEF GrownByOne
<1> QED BY <1>1, GrownKeeps

(* All that anyone has of e's term is what n now has.                      *)
HasAllOf(L, L2, n, e) ==
    \A b \in Node : \A j \in 1..Len(L[b]) :
        L[b][j] = e => j <= Len(L[n]) + 1 /\ Contains(L2[n], L[b], j)

LEMMA GrownLogsMatch ==
    ASSUME NEW L \in [Node -> Seq(Nat)], NEW L2, NEW n \in Node, NEW e \in Nat,
           Grown(L, L2, n, e), LogsMatch(L), HasAllOf(L, L2, n, e)
    PROVE  LogsMatch(L2)
<1>0. \A x \in Node :
        /\ Len(L2[x]) \in Nat /\ Len(L[x]) \in Nat
        /\ \A h \in 1..Len(L[x]) : L2[x][h] = L[x][h]
        /\ \A h \in 1..Len(L2[x]) :
             h \in 1..Len(L[x]) \/ (x = n /\ h = Len(L[x]) + 1 /\ L2[x][h] = e)
  <2>1. GrownByOne(L, L2, n, e)
    BY GrownEntries
  <2> QED BY <2>1 DEF GrownByOne
<1> SUFFICES ASSUME NEW a \in Node, NEW b \in Node,
                    NEW i \in 1..Len(L2[a]), NEW j \in 1..Len(L2[b]),
                    i <= j, L2[a][i] = L2[b][j]
             PROVE  Contains(L2[b], L2[a], i)
  BY DEF LogsMatch
<1>1. /\ Len(L2[a]) \in Nat /\ Len(L[a]) \in Nat
      /\ Len(L2[b]) \in Nat /\ Len(L[b]) \in Nat
      /\ \A h \in 1..Len(L[a]) : L2[a][h] = L[a][h]
      /\ \A h \in 1..Len(L[b]) : L2[b][h] = L[b][h]
  BY <1>0
<1>a. i \in Nat /\ j \in Nat /\ i <= Len(L2[a]) /\ j <= Len(L2[b]) /\ 1 <= i
  BY <1>1
<1>2. CASE i \in 1..Len(L[a]) /\ j \in 1..Len(L[b])
  <2>1. Contains(L[b], L[a], i)
    <3> L[a][i] = L[b][j] BY <1>1, <1>2
    <3> QED BY <1>2 DEF LogsMatch
  <2>2. Contains(L2[b], L[a], i)
    BY <1>a, <2>1, GrownKeeps
  <2>3. \A h \in 1..i : h \in 1..Len(L[a])
    BY <1>1, <1>2
  <2> QED BY <1>1, <2>2, <2>3 DEF Contains
<1>3. CASE i \in 1..Len(L[a]) /\ b = n /\ j = Len(L[b]) + 1 /\ L2[b][j] = e
  <2>1. Contains(L2[b], L[a], i)
    <3> L[a][i] = e BY <1>1, <1>3
    <3> QED BY <1>3 DEF HasAllOf
  <2>2. \A h \in 1..i : h \in 1..Len(L[a])
    BY <1>1, <1>3
  <2> QED BY <1>1, <2>1, <2>2 DEF Contains
<1>4. CASE a = n /\ i = Len(L[a]) + 1 /\ L2[a][i] = e /\ j \in 1..Len(L[b])
  <2>1. j <= Len(L[a]) + 1 /\ Contains(L2[a], L[b], j)
    <3> L[b][j] = e BY <1>1, <1>4
    <3> QED BY <1>4 DEF HasAllOf
  <2>2. i = j
    BY <1>1, <1>4, <1>a, <2>1
  <2>3. \A h \in 1..i : h \in 1..Len(L[b])
    BY <1>1, <1>4, <2>2
  <2>4. \A h \in 1..i : L2[b][h] = L[b][h] /\ L2[a][h] = L[b][h]
    BY <1>1, <2>1, <2>2, <2>3 DEF Contains
  <2> QED BY <1>a, <2>2, <2>4 DEF Contains
<1>5. CASE a = n /\ b = n /\ i = Len(L[a]) + 1 /\ j = Len(L[b]) + 1
  BY <1>1, <1>5 DEF Contains
<1>6. i \in 1..Len(L[a]) \/ (a = n /\ i = Len(L[a]) + 1 /\ L2[a][i] = e)
  BY <1>0
<1>7. j \in 1..Len(L[b]) \/ (b = n /\ j = Len(L[b]) + 1 /\ L2[b][j] = e)
  BY <1>0
<1> QED BY <1>2, <1>3, <1>4, <1>5, <1>6, <1>7

(* What an entry e more does to the other leaders: theirs are other terms, *)
(* and what they may still commit is in n's log or beyond them.            *)
OthersLead(L, V, D, A, V2, D2, A2, n, e) ==
    \A d \in D2 \ {n} :
        /\ d \in D /\ V2[d] = V[d] /\ A2[d] = A[d] /\ V[d] # e
        /\ \A c \in 1..Len(L[d]) :
             L[d][c] = V[d] /\ Safe(L, A, d, c) /\ e > V[d]
                => Contains(L[n], L[d], c) \/ Lost(V2, A2, d, c)

(* What it takes for n to lead with e as its last entry.                   *)
Leads(L, V, D, A, V2, A2, n, e) ==
    /\ V2[n] = e /\ e > 0
    /\ \A x \in Node : A2[n][x] <= Len(L[n])
    /\ \A c \in 1..Len(L[n]) : L[n][c] = e => n \in D /\ V[n] = e /\ A2[n] = A[n]
    /\ (\E x \in Node : \E i \in 1..Len(L[x]) : L[x][i] > e)
         => \E Q \in SUBSET Node : IsMajority(Q) /\ \A x \in Q : V2[x] > e

LEMMA GrownKeepsProtocol ==
    ASSUME NEW L, NEW V, NEW D, NEW A, ProtocolInv(L, V, D, A),
           NEW L2, NEW V2, NEW D2, NEW A2, Typed(L2, V2, D2, A2),
           NEW n \in Node, NEW e \in Nat, Grown(L, L2, n, e),
           \A x \in Node : V2[x] >= V[x], VotesElected(V2), OneLeaderPerTerm(V2, D2),
           \A i \in 1..Len(L[n]) : L[n][i] <= e, e <= V2[n], e = 0 => Len(L[n]) = 0,
           HasAllOf(L, L2, n, e),
           OthersLead(L, V, D, A, V2, D2, A2, n, e),
           n \in D2 => Leads(L, V, D, A, V2, A2, n, e)
    PROVE  ProtocolInv(L2, V2, D2, A2)
<1>1. /\ L \in [Node -> Seq(Nat)] /\ L2 \in [Node -> Seq(Nat)] /\ V \in [Node -> Nat]
      /\ V2 \in [Node -> Nat] /\ D2 \subseteq Node /\ A2 \in [Node -> [Node -> Nat]]
      /\ A \in [Node -> [Node -> Nat]]
  BY DEF ProtocolInv, Typed
<1>2. \A x \in Node :
        /\ Len(L2[x]) \in Nat /\ Len(L[x]) \in Nat /\ Len(L[x]) <= Len(L2[x])
        /\ \A i \in 1..Len(L[x]) : i \in 1..Len(L2[x]) /\ L2[x][i] = L[x][i] /\ L[x][i] \in Nat
        /\ \A i \in 1..Len(L2[x]) :
             i \in 1..Len(L[x]) \/ (x = n /\ i = Len(L[x]) + 1 /\ L2[x][i] = e)
  <2> GrownByOne(L, L2, n, e) BY <1>1, GrownEntries
  <2> QED BY DEF GrownByOne
<1>3. /\ Len(L2[n]) = Len(L[n]) + 1 /\ L2[n][Len(L[n]) + 1] = e
      /\ \A x \in Node \ {n} : L2[x] = L[x]
  BY DEF Grown
<1>4. LogsVoted(L2, V2)
  <2> SUFFICES ASSUME NEW x \in Node, NEW i \in 1..Len(L2[x]) PROVE L2[x][i] <= V2[x]
    BY DEF LogsVoted
  <2>1. CASE i \in 1..Len(L[x])
    <3>1. L[x][i] <= V[x]
      BY <2>1 DEF ProtocolInv, LogsVoted
    <3>2. V[x] \in Nat /\ V2[x] \in Nat /\ V2[x] >= V[x] /\ L2[x][i] = L[x][i] /\ L[x][i] \in Nat
      BY <1>1, <1>2, <2>1
    <3> QED BY <3>1, <3>2
  <2>2. CASE x = n /\ L2[x][i] = e
    BY <2>2
  <2> QED BY <1>2, <2>1, <2>2
<1>5. LogsOrdered(L2)
  <2> SUFFICES ASSUME NEW x \in Node, NEW i \in 1..Len(L2[x]), NEW j \in 1..Len(L2[x]), i <= j
               PROVE  L2[x][i] <= L2[x][j]
    BY DEF LogsOrdered
  <2>1. CASE j \in 1..Len(L[x])
    <3>1. i \in 1..Len(L[x])
      BY <1>2, <2>1
    <3>2. L[x][i] <= L[x][j]
      BY <2>1, <3>1 DEF ProtocolInv, LogsOrdered
    <3> QED BY <1>2, <2>1, <3>1, <3>2
  <2>2. CASE x = n /\ L2[x][j] = e
    <3>1. CASE i \in 1..Len(L[x])
      <4> L2[x][i] = L[x][i] BY <1>2, <3>1
      <4> QED BY <2>2, <3>1
    <3>2. CASE L2[x][i] = e
      BY <2>2, <3>2
    <3> QED BY <1>2, <3>1, <3>2
  <2>3. j \in 1..Len(L[x]) \/ (x = n /\ L2[x][j] = e)
    BY <1>2
  <2> QED BY <2>1, <2>2, <2>3
<1>6. ZeroIsFirst(L2)
  <2> SUFFICES ASSUME NEW x \in Node, NEW i \in 1..Len(L2[x]), L2[x][i] = 0 PROVE i = 1
    BY DEF ZeroIsFirst
  <2>1. CASE i \in 1..Len(L[x])
    <3> L[x][i] = 0 BY <1>2, <2>1
    <3> QED BY <2>1 DEF ProtocolInv, ZeroIsFirst
  <2>2. CASE x = n /\ i = Len(L[x]) + 1 /\ L2[x][i] = e
    BY <2>2
  <2> QED BY <1>2, <2>1, <2>2
<1>7. LogsMatch(L2)
  BY <1>1, GrownLogsMatch DEF ProtocolInv
<1>8. LeadersHaveTheirTerm(L2, V2, D2)
  <2> SUFFICES ASSUME NEW d \in D2
               PROVE  /\ Len(L2[d]) > 0 /\ L2[d][Len(L2[d])] = V2[d] /\ V2[d] > 0
                      /\ \A b \in Node : \A i \in 1..Len(L2[b]) :
                           L2[b][i] = V2[d] => i <= Len(L2[d]) /\ L2[d][i] = V2[d]
    BY DEF LeadersHaveTheirTerm
  <2>1. CASE d = n
    <3>1. V2[n] = e /\ e > 0
      BY <2>1 DEF Leads
    <3>2. ASSUME NEW b \in Node, NEW i \in 1..Len(L2[b]), L2[b][i] = e
          PROVE  i <= Len(L2[n]) /\ L2[n][i] = e
      <4>1. CASE i \in 1..Len(L[b])
        <5>1. L[b][i] = e
          BY <1>2, <3>2, <4>1
        <5>2. i <= Len(L[n]) + 1 /\ Contains(L2[n], L[b], i)
          BY <4>1, <5>1 DEF HasAllOf
        <5>3. i \in 1..i
          BY <4>1
        <5> QED BY <1>3, <5>1, <5>2, <5>3 DEF Contains
      <4>2. CASE b = n
        BY <1>2, <3>2, <4>2
      <4> QED BY <1>2, <4>1, <4>2
    <3> QED BY <1>2, <1>3, <2>1, <3>1, <3>2
  <2>2. CASE d # n
    <3>1. d \in D /\ d \in Node /\ V2[d] = V[d] /\ V[d] # e /\ L2[d] = L[d]
      BY <1>1, <1>3, <2>2 DEF OthersLead
    <3>2. /\ Len(L[d]) > 0 /\ L[d][Len(L[d])] = V[d] /\ V[d] > 0
          /\ \A b \in Node : \A i \in 1..Len(L[b]) :
               L[b][i] = V[d] => i <= Len(L[d]) /\ L[d][i] = V[d]
      BY <3>1 DEF ProtocolInv, LeadersHaveTheirTerm
    <3>3. ASSUME NEW b \in Node, NEW i \in 1..Len(L2[b]), L2[b][i] = V[d]
          PROVE  i <= Len(L[d]) /\ L[d][i] = V[d]
      <4>1. i \in 1..Len(L[b]) /\ L[b][i] = V[d]
        BY <1>2, <3>1, <3>3
      <4> QED BY <3>2, <4>1
    <3> QED BY <3>1, <3>2, <3>3
  <2> QED BY <2>1, <2>2
<1>9. ProgressIsOfTheLog(L2, D2, A2)
  <2> SUFFICES ASSUME NEW d \in D2, NEW x \in Node PROVE A2[d][x] <= Len(L2[d])
    BY DEF ProgressIsOfTheLog
  <2>1. CASE d = n
    <3>1. A2[n][x] <= Len(L[n]) /\ A2[n][x] \in Nat
      BY <1>1, <2>1 DEF Leads
    <3> QED BY <1>2, <2>1, <3>1
  <2>2. CASE d # n
    <3>1. d \in D /\ A2[d] = A[d] /\ L2[d] = L[d]
      BY <1>1, <1>3, <2>2 DEF OthersLead
    <3> QED BY <3>1 DEF ProtocolInv, ProgressIsOfTheLog
  <2> QED BY <2>1, <2>2
<1>10. SafeOrLost(L2, V2, D2, A2)
  <2> SUFFICES ASSUME NEW d \in D2, NEW c \in 1..Len(L2[d]), L2[d][c] = V2[d]
               PROVE  Safe(L2, A2, d, c) \/ Lost(V2, A2, d, c)
    BY DEF SafeOrLost
  <2>0. d \in Node
    BY <1>1
  <2>1. ASSUME c \in 1..Len(L[d]), d \in D, V2[d] = V[d], A2[d] = A[d], Safe(L, A, d, c),
               e > V[d] => Contains(L[n], L[d], c)
        PROVE  Safe(L2, A2, d, c)
    <3>1. c \in Nat \ {0} /\ L[d][c] = V[d] /\ L[d][c] \in Nat
          /\ \A i \in 1..c : L2[d][i] = L[d][i]
      BY <1>2, <2>0, <2>1
    <3>2. Covered(L, L[d], c)
      BY <2>1 DEF Safe
    <3>3. Covered(L2, L[d], c)
      BY <1>1, <2>1, <3>1, <3>2, GrownCovered
    <3>4. Covered(L2, L2[d], c)
      BY <3>1, <3>3, CoveredIsOfPrefix
    <3>5. ASSUME NEW x \in Node, A2[d][x] >= c PROVE Contains(L2[x], L2[d], c)
      <4>1. Contains(L[x], L[d], c)
        BY <2>1, <3>5 DEF Safe
      <4>2. Contains(L2[x], L[d], c)
        BY <1>1, <3>1, <4>1, GrownKeeps
      <4> QED BY <3>1, <4>2 DEF Contains
    <3> QED BY <3>4, <3>5 DEF Safe
  <2>2. ASSUME c \in 1..Len(L[d]), d \in D, V2[d] = V[d], A2[d] = A[d], Lost(V, A, d, c)
        PROVE  Lost(V2, A2, d, c)
    BY <1>1, <2>0, <2>2, LostStays
  <2>3. CASE d # n
    <3>1. d \in D /\ V2[d] = V[d] /\ A2[d] = A[d] /\ L2[d] = L[d]
      BY <1>3, <2>0, <2>3 DEF OthersLead
    <3>2. Safe(L, A, d, c) \/ Lost(V, A, d, c)
      BY <3>1 DEF ProtocolInv, SafeOrLost
    <3>3. Safe(L, A, d, c) /\ e > V[d] => Contains(L[n], L[d], c) \/ Lost(V2, A2, d, c)
      BY <2>3, <3>1 DEF OthersLead
    <3> QED BY <2>1, <2>2, <3>1, <3>2, <3>3
  <2>4. CASE d = n /\ c \in 1..Len(L[n])
    <3>1. V2[n] = e /\ L[n][c] = e
      BY <1>2, <2>4 DEF Leads
    <3>2. n \in D /\ V[n] = e /\ A2[n] = A[n]
      BY <2>4, <3>1 DEF Leads
    <3>3. Safe(L, A, n, c) \/ Lost(V, A, n, c)
      BY <2>4, <3>1, <3>2 DEF ProtocolInv, SafeOrLost
    <3> QED BY <2>1, <2>2, <2>4, <3>1, <3>2, <3>3
  <2>5. CASE d = n /\ c = Len(L[n]) + 1
    <3>1. V2[n] = e /\ \A x \in Node : A2[n][x] < c /\ A2[n][x] \in Nat
      <4>1. V2[n] = e
        BY <2>5 DEF Leads
      <4>2. \A x \in Node : A2[n][x] \in Nat
        BY <1>1, <1>2, <2>5
      <4>3. \A x \in Node : A2[n][x] <= Len(L[n])
        BY <2>5 DEF Leads
      <4>4. Len(L[n]) \in Nat
        BY <1>1, LogsAreSequences
      <4>5. \A x \in Node : A2[n][x] < c
        BY <2>5, <4>2, <4>3, <4>4
      <4> QED BY <4>1, <4>2, <4>5
    <3>2. CASE \E x \in Node : \E i \in 1..Len(L[x]) : L[x][i] > e
      <4>1. PICK Q \in SUBSET Node : IsMajority(Q) /\ \A x \in Q : V2[x] > e
        BY <2>5, <3>2 DEF Leads
      <4> QED BY <2>5, <3>1, <4>1 DEF Lost
    <3>3. CASE ~ \E x \in Node : \E i \in 1..Len(L[x]) : L[x][i] > e
      <4>1. \A x \in Node : \A i \in 1..Len(L2[x]) : ~(L2[x][i] > e)
        <5> TAKE x \in Node
        <5> TAKE i \in 1..Len(L2[x])
        <5>1. CASE i \in 1..Len(L[x])
          BY <1>2, <3>3, <5>1
        <5>2. CASE L2[x][i] = e
          BY <5>2
        <5> QED BY <1>2, <5>1, <5>2
      <4>2. Covered(L2, L2[n], c)
        BY <1>3, <2>5, <4>1 DEF Covered
      <4>3. \A x \in Node : ~(A2[n][x] >= c)
        BY <1>2, <2>5, <3>1
      <4> QED BY <2>5, <4>2, <4>3 DEF Safe
    <3> QED BY <3>2, <3>3
  <2> QED BY <1>2, <2>0, <2>3, <2>4, <2>5
<1> QED
  BY <1>4, <1>5, <1>6, <1>7, <1>8, <1>9, <1>10 DEF ProtocolInv

(* `bootstrap` writes the first membership into an empty log.              *)
LEMMA InitializeKeepsProtocol ==
    ASSUME NEW L, NEW V, NEW D, NEW A, ProtocolInv(L, V, D, A),
           NEW n \in Node, L[n] = <<>>, NEW L2, Grown(L, L2, n, 0)
    PROVE  ProtocolInv(L2, V, D, A) /\ n \notin D
<1>1. /\ L \in [Node -> Seq(Nat)] /\ L2 \in [Node -> Seq(Nat)] /\ V \in [Node -> Nat]
      /\ D \subseteq Node /\ A \in [Node -> [Node -> Nat]]
  BY DEF ProtocolInv, Typed, Grown
<1>2. Len(L[n]) = 0
  OBVIOUS
<1>3. n \notin D
  BY <1>2 DEF ProtocolInv, LeadersHaveTheirTerm
<1>4. Typed(L2, V, D, A)
  BY <1>1 DEF Typed
<1>5. HasAllOf(L, L2, n, 0)
  <2> SUFFICES ASSUME NEW b \in Node, NEW j \in 1..Len(L[b]), L[b][j] = 0
               PROVE  j <= Len(L[n]) + 1 /\ Contains(L2[n], L[b], j)
    BY DEF HasAllOf
  <2>1. j = 1
    BY DEF ProtocolInv, ZeroIsFirst
  <2>2. Len(L2[n]) = 1 /\ L2[n][1] = 0
    BY <1>2 DEF Grown
  <2> QED BY <1>2, <2>1, <2>2 DEF Contains
<1>6. OthersLead(L, V, D, A, V, D, A, n, 0)
  <2> SUFFICES ASSUME NEW d \in D
               PROVE  V[d] # 0 /\ ~(0 > V[d])
    BY <1>1 DEF OthersLead
  <2> QED BY <1>1 DEF ProtocolInv, LeadersHaveTheirTerm
<1>7. \A x \in Node : V[x] >= V[x] /\ 0 <= V[x]
  BY <1>1
<1>8. VotesElected(V) /\ OneLeaderPerTerm(V, D)
  BY DEF ProtocolInv
<1>9. \A i \in 1..Len(L[n]) : L[n][i] <= 0
  BY <1>2
<1> QED
  BY <1>2, <1>3, <1>4, <1>5, <1>6, <1>7, <1>8, <1>9, GrownKeepsProtocol

(* A leader writes in its own term.                                        *)
LEMMA WriteKeepsProtocol ==
    ASSUME NEW L, NEW V, NEW D, NEW A, ProtocolInv(L, V, D, A),
           NEW n \in D, NEW L2, Grown(L, L2, n, V[n])
    PROVE  ProtocolInv(L2, V, D, A)
<1>1. /\ L \in [Node -> Seq(Nat)] /\ L2 \in [Node -> Seq(Nat)] /\ V \in [Node -> Nat]
      /\ D \subseteq Node /\ A \in [Node -> [Node -> Nat]] /\ n \in Node
  BY DEF ProtocolInv, Typed, Grown
<1>2. /\ Len(L[n]) > 0 /\ L[n][Len(L[n])] = V[n] /\ V[n] > 0
      /\ \A b \in Node : \A i \in 1..Len(L[b]) :
           L[b][i] = V[n] => i <= Len(L[n]) /\ L[n][i] = V[n]
  BY DEF ProtocolInv, LeadersHaveTheirTerm
<1>3. Typed(L2, V, D, A)
  BY <1>1 DEF Typed
<1>4. Len(L[n]) \in Nat /\ Len(L[n]) \in 1..Len(L[n])
  BY <1>1, <1>2, LogsAreSequences
<1>5. HasAllOf(L, L2, n, V[n])
  <2> SUFFICES ASSUME NEW b \in Node, NEW j \in 1..Len(L[b]), L[b][j] = V[n]
               PROVE  j <= Len(L[n]) + 1 /\ Contains(L2[n], L[b], j)
    BY DEF HasAllOf
  <2>1. j \in Nat /\ j \in 1..Len(L[n]) /\ L[n][j] = L[b][j]
    <3>1. j \in Nat /\ 1 <= j
      BY <1>1, LogsAreSequences
    <3>2. j <= Len(L[n]) /\ L[n][j] = V[n]
      BY <1>2
    <3> QED BY <1>4, <3>1, <3>2
  <2>2. Contains(L[n], L[b], j)
    <3>1. \A i \in 1..Len(L[b]), h \in 1..Len(L[n]) :
            i <= h /\ L[b][i] = L[n][h] => Contains(L[n], L[b], i)
      BY <1>1 DEF ProtocolInv, LogsMatch
    <3> QED BY <2>1, <3>1
  <2>3. Contains(L2[n], L[b], j)
    <3>1. V[n] \in Nat
      BY <1>1
    <3> QED BY <1>1, <2>1, <2>2, <3>1, GrownKeeps
  <2> QED BY <1>4, <2>1, <2>3
<1>6. OthersLead(L, V, D, A, V, D, A, n, V[n])
  <2> SUFFICES ASSUME NEW d \in D \ {n}
               PROVE  /\ V[d] # V[n]
                      /\ \A c \in 1..Len(L[d]) :
                           L[d][c] = V[d] /\ Safe(L, A, d, c) /\ V[n] > V[d]
                             => Contains(L[n], L[d], c)
    BY <1>1 DEF OthersLead
  <2>1. V[d] # V[n]
    BY DEF ProtocolInv, OneLeaderPerTerm
  <2>2. ASSUME NEW c \in 1..Len(L[d]), L[d][c] = V[d], Safe(L, A, d, c), V[n] > V[d]
        PROVE  Contains(L[n], L[d], c)
    BY <1>1, <1>2, <1>4, <2>2 DEF Safe, Covered
  <2> QED BY <2>1, <2>2
<1>7. Leads(L, V, D, A, V, A, n, V[n])
  <2>1. \A x \in Node : A[n][x] <= Len(L[n])
    BY DEF ProtocolInv, ProgressIsOfTheLog
  <2>2. ASSUME NEW x \in Node, NEW i \in 1..Len(L[x]), L[x][i] > V[n]
        PROVE  \E Q \in SUBSET Node : IsMajority(Q) /\ \A z \in Q : V[z] > V[n]
    <3>1. L[x][i] <= V[x]
      BY DEF ProtocolInv, LogsVoted
    <3>2. L[x][i] \in Nat /\ V[x] \in Nat /\ V[n] \in Nat
      BY <1>1, LogsAreSequences
    <3>3. V[x] > V[n] /\ V[x] > 0
      BY <2>2, <3>1, <3>2
    <3> DEFINE Q == {z \in Node : V[z] >= V[x]}
    <3>4. IsMajority(Q)
      BY <3>3 DEF ProtocolInv, VotesElected
    <3>5. \A z \in Q : V[z] > V[n]
      BY <1>1, <3>3
    <3> QED BY <3>4, <3>5
  <2> QED BY <1>2, <2>1, <2>2 DEF Leads
<1>8. /\ \A x \in Node : V[x] >= V[x]
      /\ V[n] <= V[n] /\ V[n] \in Nat /\ (V[n] = 0 => Len(L[n]) = 0)
  BY <1>1, <1>2
<1>9. VotesElected(V) /\ OneLeaderPerTerm(V, D)
  BY DEF ProtocolInv
<1>10. \A i \in 1..Len(L[n]) : L[n][i] <= V[n]
  BY <1>1 DEF ProtocolInv, LogsVoted
<1> QED
  BY <1>1, <1>3, <1>5, <1>6, <1>7, <1>8, <1>9, <1>10, GrownKeepsProtocol

(* A term that a majority has not seen nobody has seen.                    *)
LEMMA NewTermIsNew ==
    ASSUME NEW L, NEW V, NEW D, NEW A, ProtocolInv(L, V, D, A),
           NEW Q \in SUBSET Node, IsMajority(Q), NEW t \in Nat \ {0}, \A m \in Q : V[m] < t
    PROVE  \A x \in Node : V[x] < t /\ \A i \in 1..Len(L[x]) : L[x][i] < t
<1> TAKE x \in Node
<1>1. V \in [Node -> Nat] /\ L \in [Node -> Seq(Nat)]
  BY DEF ProtocolInv, Typed
<1>2. V[x] < t
  <2>1. CASE V[x] = 0
    BY <2>1
  <2>2. CASE V[x] # 0
    <3> DEFINE P == {z \in Node : V[z] >= V[x]}
    <3>1. IsMajority(P)
      BY <1>1, <2>2 DEF ProtocolInv, VotesElected
    <3>2. P \in SUBSET Node
      OBVIOUS
    <3>3. PICK z \in P : z \in Q
      <4> HIDE DEF P
      <4> QED BY <3>1, <3>2, MajoritiesMeet
    <3>4. V[z] >= V[x] /\ V[z] < t /\ V[z] \in Nat /\ V[x] \in Nat
      BY <1>1, <3>3
    <3> QED BY <3>4
  <2> QED BY <2>1, <2>2
<1>3. \A i \in 1..Len(L[x]) : L[x][i] <= V[x] /\ L[x][i] \in Nat
  BY <1>1, LogsAreSequences DEF ProtocolInv, LogsVoted
<1>4. V[x] \in Nat
  BY <1>1
<1> QED BY <1>2, <1>3, <1>4

(* The votes, the leaders and their progress once Q has elected n.         *)
ElectedBy(V, D, A, V2, D2, A2, Q, n, t) ==
    /\ \A m \in Q : V[m] < t
    /\ V2 \in [Node -> Nat] /\ \A x \in Node : V2[x] = IF x \in Q THEN t ELSE V[x]
    /\ D2 = (D \ Q) \cup {n}
    /\ A2 \in [Node -> [Node -> Nat]]
    /\ \A x \in Node : A2[x] = IF x \in Q THEN NoProgress ELSE A[x]

(* A candidate that a majority votes for.                                  *)
LEMMA ElectKeepsProtocol ==
    ASSUME NEW L, NEW V, NEW D, NEW A, ProtocolInv(L, V, D, A),
           NEW Q \in SUBSET Node, IsMajority(Q), NEW n \in Q, L[n] # <<>>,
           \A m \in Q : UpToDate(L[n], L[m]),
           NEW t \in Nat \ {0}, NEW L2, Grown(L, L2, n, t),
           NEW V2, NEW D2, NEW A2, ElectedBy(V, D, A, V2, D2, A2, Q, n, t)
    PROVE  ProtocolInv(L2, V2, D2, A2)
<1> /\ \A m \in Q : V[m] < t
    /\ V2 \in [Node -> Nat] /\ \A x \in Node : V2[x] = IF x \in Q THEN t ELSE V[x]
    /\ D2 = (D \ Q) \cup {n}
    /\ A2 \in [Node -> [Node -> Nat]]
    /\ \A x \in Node : A2[x] = IF x \in Q THEN NoProgress ELSE A[x]
  BY DEF ElectedBy
<1>1. /\ L \in [Node -> Seq(Nat)] /\ L2 \in [Node -> Seq(Nat)] /\ V \in [Node -> Nat]
      /\ D \subseteq Node /\ A \in [Node -> [Node -> Nat]] /\ n \in Node
  BY DEF ProtocolInv, Typed, Grown
<1>2. \A x \in Node : V[x] < t /\ \A i \in 1..Len(L[x]) : L[x][i] < t
  BY NewTermIsNew
<1>3. Typed(L2, V2, D2, A2)
  BY <1>1 DEF Typed
<1>4. \A x \in Node : V2[x] >= V[x]
  <2> TAKE x \in Node
  <2>1. V[x] \in Nat /\ V[x] < t
    BY <1>1, <1>2
  <2>2. V2[x] = t \/ V2[x] = V[x]
    OBVIOUS
  <2> QED BY <2>1, <2>2
<1>5. VotesElected(V2)
  <2> SUFFICES ASSUME NEW m \in Node, V2[m] > 0
               PROVE  IsMajority({x \in Node : V2[x] >= V2[m]})
    BY DEF VotesElected
  <2> DEFINE P == {x \in Node : V2[x] >= V2[m]}
             R == {x \in Node : V[x] >= V[m]}
  <2>0. P \in SUBSET Node /\ R \in SUBSET Node
    OBVIOUS
  <2>1. CASE m \in Q
    <3>1. Q \subseteq P
      BY <2>1
    <3>2. IsMajority(P)
      <4> HIDE DEF P
      <4> QED BY <2>0, <3>1, MoreThanAMajority
    <3> QED BY <3>2
  <2>2. CASE m \notin Q
    <3>1. V2[m] = V[m]
      BY <2>2
    <3>2. IsMajority(R)
      BY <3>1 DEF ProtocolInv, VotesElected
    <3>3. R \subseteq P
      <4> SUFFICES ASSUME NEW x \in Node, V[x] >= V[m] PROVE V2[x] >= V2[m]
        OBVIOUS
      <4> V[x] \in Nat /\ V[m] \in Nat /\ V2[x] \in Nat /\ V2[x] >= V[x] BY <1>1, <1>4
      <4> QED BY <3>1
    <3>4. IsMajority(P)
      <4> HIDE DEF P, R
      <4> QED BY <2>0, <3>2, <3>3, MoreThanAMajority
    <3> QED BY <3>4
  <2> QED BY <2>1, <2>2
<1>6. OneLeaderPerTerm(V2, D2)
  <2> SUFFICES ASSUME NEW a \in D2, NEW b \in D2, V2[a] = V2[b] PROVE a = b
    BY DEF OneLeaderPerTerm
  <2>1. \A d \in D2 : d # n => d \in D /\ d \in Node /\ d \notin Q /\ V2[d] = V[d] /\ V[d] # t
    BY <1>1, <1>2
  <2>2. V2[n] = t
    BY <1>1
  <2>3. \A x, y \in D : V[x] = V[y] => x = y
    BY DEF ProtocolInv, OneLeaderPerTerm
  <2> QED BY <2>1, <2>2, <2>3
<1>7. HasAllOf(L, L2, n, t)
  <2> SUFFICES ASSUME NEW b \in Node, NEW j \in 1..Len(L[b]) PROVE L[b][j] # t
    BY DEF HasAllOf
  <2>1. L[b][j] < t
    BY <1>2
  <2> QED BY <2>1
<1>8. OthersLead(L, V, D, A, V2, D2, A2, n, t)
  <2> SUFFICES ASSUME NEW d \in D2 \ {n}
               PROVE  /\ d \in D /\ V2[d] = V[d] /\ A2[d] = A[d] /\ V[d] # t
                      /\ \A c \in 1..Len(L[d]) :
                           L[d][c] = V[d] /\ Safe(L, A, d, c) /\ t > V[d]
                             => Contains(L[n], L[d], c) \/ Lost(V2, A2, d, c)
    BY DEF OthersLead
  <2>1. d \in D /\ d \in Node /\ d \notin Q /\ V2[d] = V[d] /\ A2[d] = A[d] /\ V[d] # t
    BY <1>1, <1>2
  <2>2. ASSUME NEW c \in 1..Len(L[d]), L[d][c] = V[d], Safe(L, A, d, c),
               ~Contains(L[n], L[d], c)
        PROVE  Lost(V2, A2, d, c)
    <3>1. c \in Nat \ {0} /\ L[d][c] \in Nat
      <4>1. L[d][c] \in Nat
        BY <1>1, <2>1, <2>2
      <4> QED BY <4>1
    <3>2. ASSUME NEW x \in Q PROVE V2[x] > V2[d] /\ A2[d][x] < c
      <4>1. V2[x] = t /\ V[d] < t /\ V[d] \in Nat
        BY <1>1, <1>2, <2>1
      <4>2. ~(A[d][x] >= c)
        <5> SUFFICES ASSUME A[d][x] >= c PROVE FALSE
          OBVIOUS
        <5>1. Covered(L, L[d], c) /\ Contains(L[x], L[d], c)
          BY <2>2 DEF Safe
        <5>2. UpToDate(L[n], L[x])
          OBVIOUS
        <5>3. Contains(L[n], L[d], c)
          BY <1>1, <3>1, <5>1, <5>2, CandidateContains
        <5> QED BY <2>2, <5>3
      <4>3. A[d][x] \in Nat
        BY <1>1, <2>1
      <4> QED BY <2>1, <3>1, <4>1, <4>2, <4>3
    <3> QED BY <3>2 DEF Lost
  <2> QED BY <2>1, <2>2
<1>9. Leads(L, V, D, A, V2, A2, n, t)
  <2>1. V2[n] = t /\ t > 0
    BY <1>1
  <2>2. \A x \in Node : A2[n][x] <= Len(L[n])
    <3> Len(L[n]) \in Nat BY <1>1, LogsAreSequences
    <3> QED BY <1>1 DEF NoProgress
  <2>3. \A x \in Node : \A i \in 1..Len(L[x]) : L[x][i] # t /\ ~(L[x][i] > t)
    <3> TAKE x \in Node
    <3> TAKE i \in 1..Len(L[x])
    <3> L[x][i] \in Nat /\ L[x][i] < t BY <1>1, <1>2, LogsAreSequences
    <3> QED OBVIOUS
  <2> QED BY <1>1, <2>1, <2>2, <2>3 DEF Leads
<1>10. \A i \in 1..Len(L[n]) : L[n][i] <= t
  <2> TAKE i \in 1..Len(L[n])
  <2> L[n][i] \in Nat /\ L[n][i] < t BY <1>1, <1>2, LogsAreSequences
  <2> QED OBVIOUS
<1>11. t \in Nat /\ t <= V2[n] /\ t # 0
  BY <1>1
<1> QED
  BY <1>1, <1>3, <1>4, <1>5, <1>6, <1>7, <1>8, <1>9, <1>10, <1>11, GrownKeepsProtocol

-----------------------------------------------------------------------------
(* append_entries of leader n to follower m.                               *)

(* The follower's vote and log, and the leader's progress, after it.       *)
Followed(L, V, A, L2, V2, A2, n, m, k, r) ==
    /\ V[m] <= V[n]
    /\ Appended(L, L2, n, m, k, r)
    /\ V2 \in [Node -> Nat] /\ V2[m] = V[n] /\ \A x \in Node \ {m} : V2[x] = V[x]
    /\ A2 \in [Node -> [Node -> Nat]]
    /\ A2[n][m] = r /\ \A x \in Node \ {m} : A2[n][x] = A[n][x]
    /\ \A d \in Node \ {n, m} : A2[d] = A[d]

LEMMA IntervalWithin ==
    ASSUME NEW p \in Nat, NEW q \in Nat, p <= q
    PROVE  \A h \in 1..p : h \in 1..q
  OBVIOUS

(* No log holds what no log held.                                          *)
LEMMA PrefixesKeepOrder ==
    ASSUME NEW L \in [Node -> Seq(Nat)], NEW L2 \in [Node -> Seq(Nat)],
           LogsOrdered(L), ZeroIsFirst(L), LogsMatch(L),
           \A x \in Node : \E y \in Node : Contains(L[y], L2[x], Len(L2[x]))
    PROVE  LogsOrdered(L2) /\ ZeroIsFirst(L2) /\ LogsMatch(L2)
<1>0. \A x \in Node : Len(L[x]) \in Nat /\ Len(L2[x]) \in Nat
  BY LogsAreSequences
<1>1. ASSUME NEW x \in Node
      PROVE  \E y \in Node : /\ Len(L2[x]) <= Len(L[y])
                             /\ \A i \in 1..Len(L2[x]) : L2[x][i] = L[y][i] /\ i \in 1..Len(L[y])
  <2>1. PICK y \in Node : Contains(L[y], L2[x], Len(L2[x]))
    OBVIOUS
  <2>2. Len(L2[x]) \in Nat /\ Len(L[y]) \in Nat
    BY LogsAreSequences
  <2> QED BY <2>1, <2>2 DEF Contains
<1>2. LogsOrdered(L2)
  <2> SUFFICES ASSUME NEW x \in Node, NEW i \in 1..Len(L2[x]), NEW j \in 1..Len(L2[x]), i <= j
               PROVE  L2[x][i] <= L2[x][j]
    BY DEF LogsOrdered
  <2>1. PICK y \in Node : \A h \in 1..Len(L2[x]) : L2[x][h] = L[y][h] /\ h \in 1..Len(L[y])
    BY <1>1
  <2>2. L[y][i] <= L[y][j]
    BY <2>1 DEF LogsOrdered
  <2> QED BY <2>1, <2>2
<1>3. ZeroIsFirst(L2)
  <2> SUFFICES ASSUME NEW x \in Node, NEW i \in 1..Len(L2[x]), L2[x][i] = 0 PROVE i = 1
    BY DEF ZeroIsFirst
  <2>1. PICK y \in Node : \A h \in 1..Len(L2[x]) : L2[x][h] = L[y][h] /\ h \in 1..Len(L[y])
    BY <1>1
  <2> QED BY <2>1 DEF ZeroIsFirst
<1>4. LogsMatch(L2)
  <2> SUFFICES ASSUME NEW a \in Node, NEW b \in Node,
                      NEW i \in 1..Len(L2[a]), NEW j \in 1..Len(L2[b]),
                      i <= j, L2[a][i] = L2[b][j]
               PROVE  Contains(L2[b], L2[a], i)
    BY DEF LogsMatch
  <2>1. PICK y \in Node : \A h \in 1..Len(L2[a]) : L2[a][h] = L[y][h] /\ h \in 1..Len(L[y])
    BY <1>1
  <2>2. PICK z \in Node : \A h \in 1..Len(L2[b]) : L2[b][h] = L[z][h] /\ h \in 1..Len(L[z])
    BY <1>1
  <2>3. L[y][i] = L[z][j] /\ i \in 1..Len(L[y]) /\ j \in 1..Len(L[z])
    BY <2>1, <2>2
  <2>4. Contains(L[z], L[y], i)
    BY <2>3 DEF LogsMatch
  <2>5. i \in Nat /\ i <= Len(L2[b])
    BY <1>0
  <2>6. \A h \in 1..i : h \in 1..Len(L2[a]) /\ h \in 1..Len(L2[b])
    <3>1. Len(L2[a]) \in Nat /\ Len(L2[b]) \in Nat
      BY <1>0
    <3>2. i <= Len(L2[a])
      OBVIOUS
    <3>3. \A h \in 1..i : h \in 1..Len(L2[a])
      BY <2>5, <3>1, <3>2, IntervalWithin
    <3>4. \A h \in 1..i : h \in 1..Len(L2[b])
      BY <2>5, <3>1, IntervalWithin
    <3> QED BY <3>3, <3>4
  <2>7. \A h \in 1..i : L2[b][h] = L2[a][h]
    <3> TAKE h \in 1..i
    <3>1. L[z][h] = L[y][h]
      BY <2>4 DEF Contains
    <3> QED BY <2>1, <2>2, <2>6, <3>1
  <2> QED BY <2>5, <2>7 DEF Contains
<1> QED BY <1>2, <1>3, <1>4

LEMMA FollowedPrefixes ==
    ASSUME NEW L, NEW V, NEW D, NEW A, ProtocolInv(L, V, D, A),
           NEW n \in D, NEW m \in Node \ {n}, NEW L2, NEW V2, NEW A2, NEW k, NEW r,
           Followed(L, V, A, L2, V2, A2, n, m, k, r)
    PROVE  \A x \in Node : \E y \in {x, n} :
               Contains(L[y], L2[x], Len(L2[x])) /\ (x # m => y = x)
<1> TAKE x \in Node
<1>1. L \in [Node -> Seq(Nat)] /\ L2 \in [Node -> Seq(Nat)] /\ n \in Node
  BY DEF ProtocolInv, Typed, Followed, Appended
<1>2. L2[x] = L[x] => Contains(L[x], L2[x], Len(L2[x]))
  <2> Len(L[x]) \in Nat BY <1>1, LogsAreSequences
  <2> QED BY DEF Contains
<1>3. CASE x # m
  <2> L2[x] = L[x] BY <1>3 DEF Followed, Appended
  <2> QED BY <1>2, <1>3
<1>4. CASE x = m
  <2>1. L2[m] = L[m] \/ Contains(L[n], L2[m], Len(L2[m]))
    BY <1>1, AppendedLog DEF Followed
  <2> QED BY <1>2, <1>4, <2>1
<1> QED BY <1>3, <1>4

(* What is covered stays covered ...                                       *)
LEMMA FollowedCovered ==
    ASSUME NEW L, NEW V, NEW D, NEW A, ProtocolInv(L, V, D, A),
           NEW n \in D, NEW m \in Node \ {n}, NEW L2, NEW V2, NEW A2, NEW k, NEW r,
           Followed(L, V, A, L2, V2, A2, n, m, k, r),
           NEW s, NEW p \in Nat \ {0}, s[p] \in Nat, Covered(L, s, p)
    PROVE  Covered(L2, s, p)
<1> SUFFICES ASSUME NEW x \in Node, NEW i \in 1..Len(L2[x]), L2[x][i] > s[p]
             PROVE  Contains(L2[x], s, p)
  BY DEF Covered
<1>1. L \in [Node -> Seq(Nat)] /\ L2 \in [Node -> Seq(Nat)] /\ n \in Node
  BY DEF ProtocolInv, Typed, Followed, Appended
<1>2. CASE L2[x] = L[x]
  BY <1>2 DEF Covered
<1>3. CASE L2[x] # L[x]
  <2>1. x = m /\ Contains(L[n], L2[x], Len(L2[x]))
    <3>1. x = m
      BY <1>3 DEF Followed, Appended
    <3> QED BY <1>1, <1>3, <3>1, AppendedLog DEF Followed
  <2>2. Len(L[n]) \in Nat /\ Len(L2[x]) \in Nat
    BY <1>1, LogsAreSequences
  <2>3. i \in 1..Len(L[n]) /\ L[n][i] = L2[x][i]
    BY <2>1, <2>2 DEF Contains
  <2>4. Contains(L[n], s, p)
    BY <1>1, <2>3 DEF Covered
  <2>5. p \in 1..Len(L[n]) /\ L[n][p] = s[p]
    BY <2>2, <2>4 DEF Contains
  <2>6. ~(i <= p)
    <3>1. i <= p => L[n][i] <= L[n][p]
      BY <1>1, <2>3, <2>5 DEF ProtocolInv, LogsOrdered
    <3>2. L[n][i] \in Nat
      BY <1>1, <2>3, LogsAreSequences
    <3> QED BY <2>3, <2>5, <3>1, <3>2
  <2>7. p <= Len(L2[x]) /\ \A h \in 1..p : h \in 1..Len(L2[x])
    BY <2>2, <2>6
  <2> QED BY <2>1, <2>4, <2>7 DEF Contains
<1> QED BY <1>2, <1>3

(* ... and whoever has it keeps it: the leader has it too.                 *)
LEMMA FollowedKeeps ==
    ASSUME NEW L, NEW V, NEW D, NEW A, ProtocolInv(L, V, D, A),
           NEW n \in D, NEW m \in Node \ {n}, NEW L2, NEW V2, NEW A2, NEW k, NEW r,
           Followed(L, V, A, L2, V2, A2, n, m, k, r),
           NEW s, NEW p \in Nat \ {0}, s[p] \in Nat, Covered(L, s, p),
           NEW x \in Node, Contains(L[x], s, p)
    PROVE  Contains(L2[x], s, p)
<1>1. /\ L \in [Node -> Seq(Nat)] /\ n \in Node /\ V[m] \in Nat /\ V[n] \in Nat /\ V[m] <= V[n]
      /\ Appended(L, L2, n, m, k, r)
  BY DEF ProtocolInv, Typed, Followed
<1>2. CASE x # m
  BY <1>1, <1>2 DEF Appended
<1>3. CASE x = m
  <2>1. Len(L[m]) \in Nat
    BY <1>1, LogsAreSequences
  <2>2. p \in 1..Len(L[m]) /\ L[m][p] = s[p]
    BY <1>3, <2>1 DEF Contains
  <2>3. s[p] <= V[m]
    BY <2>2 DEF ProtocolInv, LogsVoted
  <2>4. s[p] <= V[n]
    BY <1>1, <2>3
  <2>5. Contains(L[n], s, p)
    BY <2>4, LeaderContains
  <2> QED BY <1>1, <1>3, <2>5, AppendedKeeps
<1> QED BY <1>2, <1>3

LEMMA FollowedKeepsProtocol ==
    ASSUME NEW L, NEW V, NEW D, NEW A, ProtocolInv(L, V, D, A),
           NEW n \in D, NEW m \in Node \ {n}, NEW L2, NEW V2, NEW A2, NEW k, NEW r,
           Followed(L, V, A, L2, V2, A2, n, m, k, r)
    PROVE  ProtocolInv(L2, V2, D \ {m}, A2)
<1>1. /\ L \in [Node -> Seq(Nat)] /\ L2 \in [Node -> Seq(Nat)] /\ V \in [Node -> Nat]
      /\ V2 \in [Node -> Nat] /\ D \subseteq Node /\ A2 \in [Node -> [Node -> Nat]]
      /\ A \in [Node -> [Node -> Nat]] /\ n \in Node
  BY DEF ProtocolInv, Typed, Followed, Appended
<1>2. Typed(L2, V2, D \ {m}, A2)
  BY <1>1 DEF Typed
<1>3. \A x \in Node : \E y \in {x, n} :
        Contains(L[y], L2[x], Len(L2[x])) /\ (x # m => y = x)
  BY FollowedPrefixes
<1>4. /\ \A x \in Node : V2[x] >= V[x]
      /\ V2[m] = V[n] /\ \A x \in Node \ {m} : V2[x] = V[x] /\ L2[x] = L[x]
  <2>1. V2[m] = V[n] /\ V[m] <= V[n] /\ \A x \in Node \ {m} : V2[x] = V[x] /\ L2[x] = L[x]
    BY DEF Followed, Appended
  <2>2. ASSUME NEW x \in Node PROVE V2[x] >= V[x]
    <3> V[x] \in Nat /\ V[n] \in Nat BY <1>1
    <3> CASE x = m BY <2>1
    <3> CASE x # m BY <2>1
    <3> QED OBVIOUS
  <2> QED BY <2>1, <2>2
<1>5. \A x \in Node : \A i \in 1..Len(L2[x]) :
        \E y \in {x, n} : i \in 1..Len(L[y]) /\ L2[x][i] = L[y][i] /\ (x # m => y = x)
  <2> TAKE x \in Node
  <2> TAKE i \in 1..Len(L2[x])
  <2>1. PICK y \in {x, n} : Contains(L[y], L2[x], Len(L2[x])) /\ (x # m => y = x)
    BY <1>3
  <2>2. Len(L[y]) \in Nat /\ Len(L2[x]) \in Nat
    BY <1>1, LogsAreSequences
  <2>3. i \in 1..Len(L[y]) /\ L2[x][i] = L[y][i]
    BY <2>1, <2>2 DEF Contains
  <2> QED BY <2>1, <2>3
<1>6. LogsVoted(L2, V2)
  <2> SUFFICES ASSUME NEW x \in Node, NEW i \in 1..Len(L2[x]) PROVE L2[x][i] <= V2[x]
    BY DEF LogsVoted
  <2>1. PICK y \in {x, n} : i \in 1..Len(L[y]) /\ L2[x][i] = L[y][i] /\ (x # m => y = x)
    BY <1>5
  <2>0. y \in Node /\ V[y] \in Nat /\ V2[x] \in Nat
    BY <1>1
  <2>2. L[y][i] <= V[y] /\ L[y][i] \in Nat
    <3>1. L[y][i] <= V[y]
      BY <2>0, <2>1 DEF ProtocolInv, LogsVoted
    <3>2. L[y][i] \in Nat
      BY <1>1, <2>0, <2>1, LogsAreSequences
    <3> QED BY <3>1, <3>2
  <2>3. V[y] <= V2[x]
    <3>1. CASE x = m
      BY <1>1, <1>4, <3>1
    <3>2. CASE x # m
      BY <1>1, <1>4, <2>1, <3>2
    <3> QED BY <3>1, <3>2
  <2> QED BY <2>0, <2>1, <2>2, <2>3
<1>7. LogsOrdered(L2) /\ ZeroIsFirst(L2) /\ LogsMatch(L2)
  <2>1. \A x \in Node : \E y \in Node : Contains(L[y], L2[x], Len(L2[x]))
    BY <1>1, <1>3
  <2> QED BY <1>1, <2>1, PrefixesKeepOrder DEF ProtocolInv
<1>8. VotesElected(V2)
  <2> SUFFICES ASSUME NEW x \in Node, V2[x] > 0
               PROVE  IsMajority({z \in Node : V2[z] >= V2[x]})
    BY DEF VotesElected
  <2>1. PICK y \in Node : V2[x] = V[y]
    BY <1>1, <1>4
  <2> DEFINE P == {z \in Node : V2[z] >= V2[x]}
             R == {z \in Node : V[z] >= V[y]}
  <2>2. IsMajority(R)
    BY <2>1 DEF ProtocolInv, VotesElected
  <2>3. R \subseteq P
    <3> SUFFICES ASSUME NEW z \in Node, V[z] >= V[y] PROVE V2[z] >= V2[x]
      OBVIOUS
    <3> V[z] \in Nat /\ V[y] \in Nat /\ V2[z] \in Nat /\ V2[z] >= V[z] BY <1>1, <1>4
    <3> QED BY <2>1
  <2>4. P \in SUBSET Node /\ R \in SUBSET Node
    OBVIOUS
  <2>5. IsMajority(P)
    <3> HIDE DEF P, R
    <3> QED BY <2>2, <2>3, <2>4, MoreThanAMajority
  <2> QED BY <2>5
<1>9. OneLeaderPerTerm(V2, D \ {m})
  BY <1>1, <1>4 DEF ProtocolInv, OneLeaderPerTerm
<1>10. LeadersHaveTheirTerm(L2, V2, D \ {m})
  <2> SUFFICES ASSUME NEW d \in D \ {m}
               PROVE  /\ Len(L2[d]) > 0 /\ L2[d][Len(L2[d])] = V2[d] /\ V2[d] > 0
                      /\ \A b \in Node : \A i \in 1..Len(L2[b]) :
                           L2[b][i] = V2[d] => i <= Len(L2[d]) /\ L2[d][i] = V2[d]
    BY DEF LeadersHaveTheirTerm
  <2>1. L2[d] = L[d] /\ V2[d] = V[d]
    BY <1>1, <1>4
  <2>2. /\ Len(L[d]) > 0 /\ L[d][Len(L[d])] = V[d] /\ V[d] > 0
        /\ \A b \in Node : \A i \in 1..Len(L[b]) :
             L[b][i] = V[d] => i <= Len(L[d]) /\ L[d][i] = V[d]
    BY DEF ProtocolInv, LeadersHaveTheirTerm
  <2>3. ASSUME NEW b \in Node, NEW i \in 1..Len(L2[b]), L2[b][i] = V[d]
        PROVE  i <= Len(L[d]) /\ L[d][i] = V[d]
    <3>1. PICK y \in {b, n} : i \in 1..Len(L[y]) /\ L2[b][i] = L[y][i]
      BY <1>5
    <3> QED BY <1>1, <2>2, <2>3, <3>1
  <2> QED BY <2>1, <2>2, <2>3
<1>11. r \in 0..Len(L[n]) /\ Contains(L2[m], L[n], r)
  BY <1>1, AppendedLog DEF Followed
<1>12. ProgressIsOfTheLog(L2, D \ {m}, A2)
  <2> SUFFICES ASSUME NEW d \in D \ {m}, NEW x \in Node PROVE A2[d][x] <= Len(L2[d])
    BY DEF ProgressIsOfTheLog
  <2>1. A[d][x] <= Len(L[d]) /\ L2[d] = L[d] /\ d \in Node
    BY <1>1, <1>4 DEF ProtocolInv, ProgressIsOfTheLog
  <2>2. CASE d = n /\ x = m
    <3> A2[d][x] = r BY <2>2 DEF Followed
    <3> Len(L[n]) \in Nat BY <1>1, LogsAreSequences
    <3> QED BY <1>11, <2>1, <2>2
  <2>3. CASE ~(d = n /\ x = m)
    <3> A2[d][x] = A[d][x] BY <2>1, <2>3 DEF Followed
    <3> QED BY <2>1
  <2> QED BY <2>2, <2>3
<1>13. SafeOrLost(L2, V2, D \ {m}, A2)
  <2> SUFFICES ASSUME NEW d \in D \ {m}, NEW c \in 1..Len(L2[d]), L2[d][c] = V2[d]
               PROVE  Safe(L2, A2, d, c) \/ Lost(V2, A2, d, c)
    BY DEF SafeOrLost
  <2>1. d \in D /\ d \in Node /\ L2[d] = L[d] /\ V2[d] = V[d]
    BY <1>1, <1>4
  <2>2. c \in Nat \ {0} /\ L[d][c] \in Nat
    <3> L[d][c] \in Nat BY <1>1, <2>1
    <3> QED OBVIOUS
  <2>3. Safe(L, A, d, c) \/ Lost(V, A, d, c)
    BY <2>1 DEF ProtocolInv, SafeOrLost
  <2>4. CASE Safe(L, A, d, c)
    <3>1. Covered(L, L[d], c)
      BY <2>4 DEF Safe
    <3>2. Covered(L2, L[d], c)
      BY <2>2, <3>1, FollowedCovered
    <3>3. ASSUME NEW x \in Node, A2[d][x] >= c PROVE Contains(L2[x], L[d], c)
      <4>1. CASE d = n /\ x = m
        <5>1. A2[d][x] = r /\ r \in Nat
          BY <1>11, <4>1 DEF Followed
        <5>2. c \in 0..r
          BY <2>2, <3>3, <5>1
        <5>3. Len(L2[x]) \in Nat
          BY <1>1, LogsAreSequences
        <5> QED BY <1>11, <4>1, <5>1, <5>2, <5>3, ContainsLess
      <4>2. CASE ~(d = n /\ x = m)
        <5>1. A2[d][x] = A[d][x]
          BY <2>1, <4>2 DEF Followed
        <5>2. Contains(L[x], L[d], c)
          BY <2>4, <3>3, <5>1 DEF Safe
        <5> QED BY <2>2, <3>1, <5>2, FollowedKeeps
      <4> QED BY <4>1, <4>2
    <3> QED BY <2>1, <3>2, <3>3 DEF Safe
  <2>5. CASE Lost(V, A, d, c)
    <3>1. \A x \in Node : V[x] > V[d] => A2[d][x] = A[d][x]
      <4> SUFFICES ASSUME NEW x \in Node, V[x] > V[d] PROVE A2[d][x] = A[d][x]
        OBVIOUS
      <4>1. ~(d = n /\ x = m)
        <5> V[m] \in Nat /\ V[n] \in Nat /\ V[m] <= V[n] BY <1>1 DEF Followed
        <5> QED OBVIOUS
      <4> QED BY <2>1, <4>1 DEF Followed
    <3> QED BY <1>1, <1>4, <2>1, <2>5, <3>1, LostStays
  <2> QED BY <2>3, <2>4, <2>5
<1> QED
  BY <1>2, <1>6, <1>7, <1>8, <1>9, <1>10, <1>12, <1>13 DEF ProtocolInv

-----------------------------------------------------------------------------
(* What is fixed stays fixed.                                              *)

LEMMA SomeoneContains ==
    ASSUME NEW L, NEW s, NEW p, Fixed(L, s, p)
    PROVE  \E x \in Node : Contains(L[x], s, p)
<1> DEFINE P == {x \in Node : Contains(L[x], s, p)}
<1>1. P \in SUBSET Node /\ IsMajority(P)
  BY DEF Fixed
<1>2. \E x \in P : TRUE
  <2> HIDE DEF P
  <2> QED BY <1>1, MajorityIsNotEmpty
<1> QED BY <1>2

LEMMA FixedIsKept ==
    ASSUME NEW L, NEW L2, NEW s, NEW p, Fixed(L, s, p), Covered(L2, s, p),
           \A x \in Node : Contains(L[x], s, p) => Contains(L2[x], s, p)
    PROVE  Fixed(L2, s, p)
<1> DEFINE P == {x \in Node : Contains(L[x], s, p)}
           R == {x \in Node : Contains(L2[x], s, p)}
<1>1. P \in SUBSET Node /\ R \in SUBSET Node /\ IsMajority(P) /\ P \subseteq R
  BY DEF Fixed
<1>2. IsMajority(R)
  <2> HIDE DEF P, R
  <2> QED BY <1>1, MoreThanAMajority
<1> QED BY <1>2 DEF Fixed

SamePrefix(z, s, p) == \A i \in 1..p : z[i] = s[i]

LEMMA FixedIsOfPrefix ==
    ASSUME NEW L, NEW s, NEW z, NEW p \in Nat \ {0}, SamePrefix(z, s, p), Fixed(L, s, p)
    PROVE  Fixed(L, z, p)
<1> DEFINE P == {x \in Node : Contains(L[x], s, p)}
           R == {x \in Node : Contains(L[x], z, p)}
<1>1. P \in SUBSET Node /\ R \in SUBSET Node /\ IsMajority(P)
  BY DEF Fixed
<1>2. P \subseteq R
  BY DEF Contains, SamePrefix
<1>3. IsMajority(R)
  <2> HIDE DEF P, R
  <2> QED BY <1>1, <1>2, MoreThanAMajority
<1>4. Covered(L, z, p)
  BY CoveredIsOfPrefix DEF Fixed, SamePrefix
<1> QED BY <1>3, <1>4 DEF Fixed

LEMMA GrownFixed ==
    ASSUME NEW L \in [Node -> Seq(Nat)], NEW L2, NEW n \in Node, NEW e \in Nat,
           Grown(L, L2, n, e), NEW s, NEW p \in Nat \ {0}, s[p] \in Nat, Fixed(L, s, p),
           e > s[p] => Contains(L[n], s, p)
    PROVE  Fixed(L2, s, p)
<1>1. Covered(L2, s, p)
  BY GrownCovered DEF Fixed
<1>2. ASSUME NEW x \in Node, Contains(L[x], s, p) PROVE Contains(L2[x], s, p)
  BY <1>2, GrownKeeps
<1> QED BY <1>1, <1>2, FixedIsKept

LEMMA FollowedFixed ==
    ASSUME NEW L, NEW V, NEW D, NEW A, ProtocolInv(L, V, D, A),
           NEW n \in D, NEW m \in Node \ {n}, NEW L2, NEW V2, NEW A2, NEW k, NEW r,
           Followed(L, V, A, L2, V2, A2, n, m, k, r),
           NEW s, NEW p \in Nat \ {0}, s[p] \in Nat, Fixed(L, s, p)
    PROVE  Fixed(L2, s, p)
<1>0. Covered(L, s, p)
  BY DEF Fixed
<1>1. Covered(L2, s, p)
  BY <1>0, FollowedCovered
<1>2. ASSUME NEW x \in Node, Contains(L[x], s, p) PROVE Contains(L2[x], s, p)
  BY <1>0, <1>2, FollowedKeeps
<1> QED BY <1>1, <1>2, FixedIsKept

-----------------------------------------------------------------------------
(* What is committed stays committed.                                      *)

(* A step that commits nothing and fixes no less.                          *)
LEMMA ChosenIsKept ==
    ASSUME NEW L, NEW L2, NEW V \in [Node -> Nat], NEW V2 \in [Node -> Nat],
           NEW C \in [Node -> Nat], NEW s \in Seq(Nat), ChosenInv(L, V, C, s),
           \A x \in Node : V2[x] >= V[x],
           \A p \in 1..Len(s) : Fixed(L, s, p) => Fixed(L2, s, p),
           \A x \in Node : Contains(L2[x], s, C[x])
    PROVE  ChosenInv(L2, V2, C, s)
<1>1. s # <<>> => Fixed(L2, s, Len(s))
  <2> SUFFICES ASSUME s # <<>> PROVE Fixed(L2, s, Len(s))
    OBVIOUS
  <2>1. Len(s) \in 1..Len(s)
    BY EmptySeq
  <2> QED BY <2>1 DEF ChosenInv
<1>2. ASSUME NEW m \in Node, C[m] > 0
      PROVE  \E r \in C[m]..Len(s) : Fixed(L2, s, r) /\ s[r] <= V2[m]
  <2>1. PICK r \in C[m]..Len(s) : Fixed(L, s, r) /\ s[r] <= V[m]
    BY <1>2 DEF ChosenInv
  <2>2. C[m] \in Nat /\ r \in 1..Len(s)
    BY <1>2, <2>1
  <2>3. s[r] \in Nat /\ V[m] \in Nat /\ V2[m] \in Nat /\ V2[m] >= V[m]
    BY <2>2
  <2>4. s[r] <= V2[m]
    BY <2>1, <2>3
  <2> QED BY <2>1, <2>2, <2>4
<1>3. \A m \in Node : C[m] <= Len(s)
  BY DEF ChosenInv
<1> QED BY <1>1, <1>2, <1>3 DEF ChosenInv

(* One entry more, of a node that has what is fixed below it.              *)
LEMMA GrownKeepsChosen ==
    ASSUME NEW L \in [Node -> Seq(Nat)], NEW V \in [Node -> Nat], NEW V2 \in [Node -> Nat],
           NEW C \in [Node -> Nat], NEW s \in Seq(Nat), ChosenInv(L, V, C, s),
           \A x \in Node : V2[x] >= V[x],
           NEW L2, NEW n \in Node, NEW e \in Nat, Grown(L, L2, n, e),
           \A p \in 1..Len(s) : Fixed(L, s, p) /\ e > s[p] => Contains(L[n], s, p)
    PROVE  ChosenInv(L2, V2, C, s)
<1>1. ASSUME NEW p \in 1..Len(s), Fixed(L, s, p) PROVE Fixed(L2, s, p)
  <2>1. s[p] \in Nat /\ p \in Nat \ {0}
    OBVIOUS
  <2>2. e > s[p] => Contains(L[n], s, p)
    BY <1>1
  <2> QED BY <1>1, <2>1, <2>2, GrownFixed
<1>2. ASSUME NEW x \in Node PROVE Contains(L2[x], s, C[x])
  <2>1. Contains(L[x], s, C[x]) /\ C[x] \in Nat
    BY DEF ChosenInv
  <2> QED BY <2>1, GrownKeeps
<1> QED BY <1>1, <1>2, ChosenIsKept

LEMMA InitializeKeepsChosen ==
    ASSUME NEW L \in [Node -> Seq(Nat)], NEW V \in [Node -> Nat],
           NEW C \in [Node -> Nat], NEW s \in Seq(Nat), ChosenInv(L, V, C, s),
           NEW n \in Node, NEW L2, Grown(L, L2, n, 0)
    PROVE  ChosenInv(L2, V, C, s)
<1>1. \A p \in 1..Len(s) : ~(0 > s[p])
  OBVIOUS
<1>2. \A x \in Node : V[x] >= V[x]
  OBVIOUS
<1> QED BY <1>1, <1>2, GrownKeepsChosen

LEMMA WriteKeepsChosen ==
    ASSUME NEW L, NEW V, NEW D, NEW A, ProtocolInv(L, V, D, A),
           NEW C \in [Node -> Nat], NEW s \in Seq(Nat), ChosenInv(L, V, C, s),
           NEW n \in D, NEW L2, Grown(L, L2, n, V[n])
    PROVE  ChosenInv(L2, V, C, s)
<1>1. /\ L \in [Node -> Seq(Nat)] /\ V \in [Node -> Nat] /\ n \in Node /\ V[n] \in Nat
  BY DEF ProtocolInv, Typed
<1>2. Len(L[n]) \in 1..Len(L[n]) /\ L[n][Len(L[n])] = V[n]
  BY <1>1, LogsAreSequences DEF ProtocolInv, LeadersHaveTheirTerm
<1>3. ASSUME NEW p \in 1..Len(s), Fixed(L, s, p), V[n] > s[p] PROVE Contains(L[n], s, p)
  BY <1>1, <1>2, <1>3 DEF Fixed, Covered
<1>4. \A x \in Node : V[x] >= V[x]
  BY <1>1
<1> QED BY <1>1, <1>3, <1>4, GrownKeepsChosen

LEMMA ElectKeepsChosen ==
    ASSUME NEW L, NEW V, NEW D, NEW A, ProtocolInv(L, V, D, A),
           NEW C \in [Node -> Nat], NEW s \in Seq(Nat), ChosenInv(L, V, C, s),
           NEW Q \in SUBSET Node, IsMajority(Q), NEW n \in Q, L[n] # <<>>,
           \A m \in Q : UpToDate(L[n], L[m]),
           NEW t \in Nat, NEW L2, Grown(L, L2, n, t),
           NEW V2 \in [Node -> Nat], \A x \in Node : V2[x] >= V[x]
    PROVE  ChosenInv(L2, V2, C, s)
<1>1. /\ L \in [Node -> Seq(Nat)] /\ V \in [Node -> Nat] /\ n \in Node
  BY DEF ProtocolInv, Typed
<1>2. ASSUME NEW p \in 1..Len(s), Fixed(L, s, p) PROVE Contains(L[n], s, p)
  <2> DEFINE P == {x \in Node : Contains(L[x], s, p)}
  <2>1. P \in SUBSET Node /\ IsMajority(P) /\ Covered(L, s, p)
    BY <1>2 DEF Fixed
  <2>2. \E x \in P : x \in Q
    <3> HIDE DEF P
    <3> QED BY <2>1, MajoritiesMeet
  <2>3. PICK x \in Q : x \in Node /\ Contains(L[x], s, p)
    BY <2>2
  <2>4. p \in Nat \ {0} /\ s[p] \in Nat /\ UpToDate(L[n], L[x])
    OBVIOUS
  <2> QED BY <1>1, <2>1, <2>3, <2>4, CandidateContains
<1> QED BY <1>1, <1>2, GrownKeepsChosen

(* append_entries may move the follower's commit position as far as the    *)
(* leader's and as the logs agree.                                         *)
CommitFollows(C, C2, n, m, r) ==
    /\ C2 \in [Node -> Nat] /\ \A x \in Node \ {m} : C2[x] = C[x]
    /\ C2[m] = C[m] \/ (C2[m] <= C[n] /\ C2[m] <= r)

LEMMA FollowedKeepsChosen ==
    ASSUME NEW L, NEW V, NEW D, NEW A, ProtocolInv(L, V, D, A),
           NEW C \in [Node -> Nat], NEW s \in Seq(Nat), ChosenInv(L, V, C, s),
           NEW n \in D, NEW m \in Node \ {n}, NEW L2, NEW V2, NEW A2, NEW k, NEW r,
           Followed(L, V, A, L2, V2, A2, n, m, k, r),
           NEW C2, CommitFollows(C, C2, n, m, r)
    PROVE  ChosenInv(L2, V2, C2, s)
<1> /\ C2 \in [Node -> Nat] /\ \A x \in Node \ {m} : C2[x] = C[x]
    /\ C2[m] = C[m] \/ (C2[m] <= C[n] /\ C2[m] <= r)
  BY DEF CommitFollows
<1>1. /\ L \in [Node -> Seq(Nat)] /\ V \in [Node -> Nat] /\ n \in Node
      /\ Appended(L, L2, n, m, k, r) /\ V2 \in [Node -> Nat]
      /\ V2[m] = V[n] /\ V[m] <= V[n] /\ \A x \in Node \ {m} : V2[x] = V[x]
      /\ L2 \in [Node -> Seq(Nat)] /\ \A x \in Node \ {m} : L2[x] = L[x]
  BY DEF ProtocolInv, Typed, Followed, Appended
<1>2. ASSUME NEW p \in 1..Len(s), Fixed(L, s, p) PROVE Fixed(L2, s, p)
  <2>1. s[p] \in Nat /\ p \in Nat \ {0}
    OBVIOUS
  <2> QED BY <1>2, <2>1, FollowedFixed
<1>3. s # <<>> => Fixed(L2, s, Len(s))
  <2> SUFFICES ASSUME s # <<>> PROVE Fixed(L2, s, Len(s))
    OBVIOUS
  <2>1. Len(s) \in 1..Len(s)
    BY EmptySeq
  <2> QED BY <1>2, <2>1 DEF ChosenInv
<1>4. \A x \in Node : C[x] \in Nat /\ C[x] <= Len(s) /\ Contains(L[x], s, C[x])
  BY DEF ChosenInv
<1>5. ASSUME NEW x \in Node, C[x] > 0
      PROVE  \E p \in C[x]..Len(s) : p \in 1..Len(s) /\ Fixed(L, s, p) /\ Fixed(L2, s, p) /\ s[p] <= V[x]
  <2>1. PICK p \in C[x]..Len(s) : Fixed(L, s, p) /\ s[p] <= V[x]
    BY <1>5 DEF ChosenInv
  <2>2. p \in 1..Len(s)
    BY <1>4, <1>5, <2>1
  <2> QED BY <1>2, <2>1, <2>2
<1>6. ASSUME NEW x \in Node
      PROVE  /\ C2[x] <= Len(s) /\ Contains(L2[x], s, C2[x])
             /\ C2[x] > 0 => \E p \in C2[x]..Len(s) : Fixed(L2, s, p) /\ s[p] <= V2[x]
  <2>1. CASE x # m
    <3>1. C2[x] = C[x] /\ L2[x] = L[x] /\ V2[x] = V[x]
      BY <1>1, <2>1
    <3> QED BY <1>4, <1>5, <3>1
  <2>2. CASE x = m /\ C2[m] = C[m] /\ C[m] = 0
    <3>1. Len(L2[m]) \in Nat
      BY <1>1, LogsAreSequences
    <3>2. Contains(L2[m], s, 0)
      BY <3>1 DEF Contains
    <3> QED BY <2>2, <3>2
  <2>3. CASE x = m /\ C2[m] = C[m] /\ C[m] > 0
    <3>1. PICK p \in C[m]..Len(s) : p \in 1..Len(s) /\ Fixed(L, s, p) /\ Fixed(L2, s, p) /\ s[p] <= V[m]
      BY <1>5, <2>3
    <3>2. p \in Nat \ {0} /\ s[p] \in Nat /\ s[p] <= V[n] /\ C[m] \in 0..p
      <4> V[m] \in Nat /\ V[n] \in Nat /\ V[m] <= V[n] BY <1>1
      <4> s[p] \in Nat BY <3>1
      <4> QED BY <1>4, <3>1
    <3>3. PICK y \in Node : Contains(L[y], s, p)
      BY <3>1, SomeoneContains
    <3>4. Contains(L[n], s, p)
      BY <3>1, <3>2, <3>3, LeaderContains DEF Fixed
    <3>5. Contains(L[n], s, C[m])
      <4> Len(L[n]) \in Nat BY <1>1, LogsAreSequences
      <4> QED BY <3>2, <3>4, ContainsLess
    <3>6. Contains(L2[m], s, C[m])
      BY <1>1, <1>4, <3>5, AppendedKeeps
    <3> QED BY <1>1, <1>4, <2>3, <3>1, <3>2, <3>6
  <2>4. CASE x = m /\ C2[m] <= C[n] /\ C2[m] <= r
    <3>1. r \in 0..Len(L[n]) /\ Contains(L2[m], L[n], r) /\ Len(L[n]) \in Nat /\ Len(L2[m]) \in Nat
      BY <1>1, AppendedLog, LogsAreSequences
    <3>2. C[n] \in Nat /\ C[n] <= Len(s) /\ Contains(L[n], s, C[n]) /\ C2[m] \in Nat /\ r \in Nat
      BY <1>1, <1>4, <3>1
    <3>3. Contains(L[n], s, C2[m]) /\ Contains(L2[m], L[n], C2[m])
      <4>1. C2[m] \in 0..C[n] /\ C2[m] \in 0..r
        BY <2>4, <3>2
      <4> QED BY <3>1, <3>2, <4>1, ContainsLess
    <3>4. Contains(L2[m], s, C2[m])
      BY <3>3 DEF Contains
    <3>5. ASSUME C2[m] > 0 PROVE \E p \in C2[m]..Len(s) : Fixed(L2, s, p) /\ s[p] <= V2[m]
      <4>1. C[n] > 0
        BY <2>4, <3>2, <3>5
      <4>2. PICK p \in C[n]..Len(s) : Fixed(L2, s, p) /\ s[p] <= V[n]
        BY <1>1, <1>5, <4>1
      <4>3. p \in C2[m]..Len(s)
        BY <2>4, <3>2, <4>2
      <4> QED BY <1>1, <4>2, <4>3
    <3> QED BY <2>4, <3>2, <3>4, <3>5
  <2>5. C[m] = 0 \/ C[m] > 0
    BY <1>4
  <2> QED BY <2>1, <2>2, <2>3, <2>4, <2>5
<1> QED BY <1>3, <1>6 DEF ChosenInv

-----------------------------------------------------------------------------
(* A leader commits entry c of its own term, which a majority acknowledged *)
(* to it.                                                                  *)

LEMMA AcknowledgedIsFixed ==
    ASSUME NEW L, NEW V, NEW D, NEW A, ProtocolInv(L, V, D, A),
           NEW n \in D, NEW c \in 1..Len(L[n]), L[n][c] = V[n],
           IsMajority({n} \cup {m \in Node : A[n][m] >= c})
    PROVE  Fixed(L, L[n], c)
<1> DEFINE P == {n} \cup {m \in Node : A[n][m] >= c}
           R == {x \in Node : Contains(L[x], L[n], c)}
<1>1. /\ L \in [Node -> Seq(Nat)] /\ V \in [Node -> Nat] /\ n \in Node
      /\ A \in [Node -> [Node -> Nat]]
  BY DEF ProtocolInv, Typed
<1>2. P \in SUBSET Node /\ R \in SUBSET Node /\ IsMajority(P)
  BY <1>1
<1>3. ~Lost(V, A, n, c)
  <2> SUFFICES ASSUME Lost(V, A, n, c) PROVE FALSE
    OBVIOUS
  <2>1. PICK Q \in SUBSET Node : IsMajority(Q) /\ \A x \in Q : V[x] > V[n] /\ A[n][x] < c
    BY DEF Lost
  <2>2. PICK x \in P : x \in Q
    <3> HIDE DEF P
    <3> QED BY <1>2, <2>1, MajoritiesMeet
  <2>3. V[x] > V[n] /\ A[n][x] < c /\ x \in Node
    BY <2>1, <2>2
  <2>4. A[n][x] \in Nat /\ V[x] \in Nat /\ c \in Nat
    BY <1>1, <2>3
  <2> QED BY <2>2, <2>3, <2>4
<1>4. Safe(L, A, n, c)
  BY <1>3 DEF ProtocolInv, SafeOrLost
<1>5. P \subseteq R
  <2>1. Contains(L[n], L[n], c)
    <3> Len(L[n]) \in Nat BY <1>1, LogsAreSequences
    <3> QED BY DEF Contains
  <2> QED BY <1>1, <1>4, <2>1 DEF Safe
<1>6. IsMajority(R)
  <2> HIDE DEF P, R
  <2> QED BY <1>2, <1>5, MoreThanAMajority
<1> QED BY <1>4, <1>6 DEF Fixed, Safe

(* What n commits agrees with all that was committed before.               *)
LEMMA CommittedAgrees ==
    ASSUME NEW L, NEW V, NEW D, NEW A, ProtocolInv(L, V, D, A),
           NEW s \in Seq(Nat), s # <<>>, Fixed(L, s, Len(s)),
           NEW n \in D, NEW c \in 1..Len(L[n]), L[n][c] = V[n], Fixed(L, L[n], c)
    PROVE  /\ c <= Len(s) => \A i \in 1..c : s[i] = L[n][i]
           /\ c > Len(s) => Contains(L[n], s, Len(s))
<1>1. /\ L \in [Node -> Seq(Nat)] /\ V \in [Node -> Nat] /\ n \in Node
  BY DEF ProtocolInv, Typed
<1> DEFINE q == Len(s)
<1>2. q \in Nat \ {0} /\ s[q] \in Nat /\ V[n] \in Nat /\ c \in Nat
  <2> q \in 1..Len(s) BY EmptySeq
  <2> QED BY <1>1
<1>3. PICK x \in Node : Contains(L[x], s, q)
  BY SomeoneContains
<1>4. CASE s[q] <= V[n]
  <2>1. Contains(L[n], s, q)
    <3> HIDE DEF q
    <3> Covered(L, s, q) BY DEF Fixed, q
    <3> QED BY <1>2, <1>3, <1>4, LeaderContains
  <2>2. ASSUME c <= q PROVE \A i \in 1..c : s[i] = L[n][i]
    <3> \A i \in 1..c : i \in 1..q BY <1>2, <2>2
    <3> QED BY <2>1 DEF Contains
  <2> QED BY <2>1, <2>2
<1>5. CASE ~(s[q] <= V[n])
  <2>1. Len(L[x]) \in Nat
    BY <1>1, LogsAreSequences
  <2>2. q \in 1..Len(L[x]) /\ L[x][q] = s[q]
    BY <1>2, <1>3, <2>1 DEF Contains
  <2>3. L[x][q] > L[n][c]
    BY <1>2, <1>5, <2>2
  <2>4. Contains(L[x], L[n], c)
    <3> Covered(L, L[n], c) BY DEF Fixed
    <3> QED BY <2>2, <2>3 DEF Covered
  <2>5. c \in 1..Len(L[x]) /\ L[x][c] = V[n]
    BY <2>1, <2>4 DEF Contains
  <2>6. ~(q <= c)
    <3>1. q <= c => L[x][q] <= L[x][c]
      BY <2>2, <2>5 DEF ProtocolInv, LogsOrdered
    <3> QED BY <1>2, <1>5, <2>2, <2>5, <3>1
  <2>7. \A i \in 1..c : i \in 1..q
    BY <1>2, <2>6
  <2>8. \A i \in 1..c : s[i] = L[n][i]
    BY <1>3, <2>4, <2>7 DEF Contains
  <2> QED BY <1>2, <2>6, <2>8
<1> QED BY <1>4, <1>5

(* n's commit position and what is committed, once n has committed c.      *)
Commits(l, C, C2, s, z, n, c) ==
    /\ C2 \in [Node -> Nat] /\ C2[n] = c /\ \A x \in Node \ {n} : C2[x] = C[x]
    /\ z = IF c > Len(s) THEN SubSeq(l, 1, c) ELSE s

Extends(z, s) ==
    z \in Seq(Nat) /\ Len(s) <= Len(z) /\ \A i \in 1..Len(s) : z[i] = s[i]

LEMMA CommitKeepsChosen ==
    ASSUME NEW L, NEW V, NEW D, NEW A, ProtocolInv(L, V, D, A),
           NEW C \in [Node -> Nat], NEW s \in Seq(Nat), ChosenInv(L, V, C, s),
           NEW n \in D, NEW c \in 1..Len(L[n]), L[n][c] = V[n],
           IsMajority({n} \cup {m \in Node : A[n][m] >= c}),
           NEW C2, NEW z, Commits(L[n], C, C2, s, z, n, c)
    PROVE  Extends(z, s) /\ ChosenInv(L, V, C2, z)
<1> /\ C2 \in [Node -> Nat] /\ C2[n] = c /\ \A x \in Node \ {n} : C2[x] = C[x]
    /\ z = IF c > Len(s) THEN SubSeq(L[n], 1, c) ELSE s
  BY DEF Commits
<1>1. /\ L \in [Node -> Seq(Nat)] /\ V \in [Node -> Nat] /\ n \in Node
      /\ Len(L[n]) \in Nat /\ c \in Nat \ {0} /\ L[n][c] \in Nat /\ Len(s) \in Nat
  BY LogsAreSequences DEF ProtocolInv, Typed
<1>2. Fixed(L, L[n], c)
  BY AcknowledgedIsFixed
<1>3. s # <<>> => /\ c <= Len(s) => \A i \in 1..c : s[i] = L[n][i]
                  /\ c > Len(s) => Contains(L[n], s, Len(s))
  BY <1>2, CommittedAgrees DEF ChosenInv
<1>4. /\ z \in Seq(Nat) /\ Len(s) <= Len(z) /\ c <= Len(z)
      /\ \A i \in 1..Len(s) : z[i] = s[i]
      /\ \A i \in 1..c : z[i] = L[n][i]
      /\ c > Len(s) => Len(z) = c
      /\ c <= Len(s) => z = s
  <2>1. CASE c > Len(s)
    <3>1. \A i \in 1..c : L[n][i] \in Nat
      <4> \A i \in 1..c : i \in 1..Len(L[n]) BY <1>1
      <4> QED BY <1>1, LogsAreSequences
    <3>2. /\ z \in Seq(Nat) /\ Len(z) = c /\ \A i \in 1..c : z[i] = L[n][i]
      BY <1>1, <2>1, <3>1, SubSeqProperties
    <3>3. \A i \in 1..Len(s) : i \in 1..c
      BY <1>1, <2>1
    <3>4. CASE s = <<>>
      <4> Len(s) = 0 BY <3>4
      <4> QED BY <1>1, <2>1, <3>2
    <3>5. CASE s # <<>>
      <4> \A i \in 1..Len(s) : L[n][i] = s[i] BY <1>3, <2>1, <3>5 DEF Contains
      <4> QED BY <1>1, <2>1, <3>2, <3>3
    <3> QED BY <3>4, <3>5
  <2>2. CASE ~(c > Len(s))
    <3>1. s # <<>> /\ c <= Len(s)
      BY <1>1, <2>2
    <3> QED BY <1>1, <1>3, <2>2, <3>1
  <2> QED BY <2>1, <2>2
<1>5. Fixed(L, z, c) /\ z[c] = V[n]
  <2>1. \A i \in 1..c : z[i] = L[n][i]
    BY <1>4
  <2>2. c \in Nat \ {0} /\ c \in 1..c
    BY <1>1
  <2>3. Fixed(L, z, c)
    <3>1. SamePrefix(z, L[n], c)
      BY <2>1 DEF SamePrefix
    <3> QED BY <1>2, <2>2, <3>1, FixedIsOfPrefix
  <2> QED BY <2>1, <2>2, <2>3
<1>6. Fixed(L, z, Len(z))
  <2>1. CASE c > Len(s)
    BY <1>4, <1>5, <2>1
  <2>2. CASE c <= Len(s)
    <3> s # <<>> BY <1>1, <2>2
    <3> QED BY <1>4, <2>2 DEF ChosenInv
  <2> QED BY <1>1, <2>1, <2>2
<1>7. ASSUME NEW m \in Node
      PROVE  /\ C2[m] <= Len(z) /\ Contains(L[m], z, C2[m])
             /\ C2[m] > 0 => \E r \in C2[m]..Len(z) : Fixed(L, z, r) /\ z[r] <= V[m]
  <2>1. CASE m = n
    <3>1. Contains(L[n], z, c)
      <4>1. c <= Len(L[n])
        BY <1>1
      <4>2. \A i \in 1..c : L[n][i] = z[i]
        BY <1>4
      <4> QED BY <4>1, <4>2 DEF Contains
    <3>2. c \in c..Len(z) /\ z[c] <= V[n]
      <4>1. c \in Nat /\ Len(z) \in Nat /\ c <= Len(z)
        BY <1>1, <1>4
      <4>2. V[n] \in Nat
        BY <1>1
      <4> QED BY <1>5, <4>1, <4>2
    <3> QED BY <1>4, <1>5, <2>1, <3>1, <3>2
  <2>2. CASE m # n
    <3>1. C2[m] = C[m] /\ C[m] \in Nat /\ C[m] <= Len(s) /\ Contains(L[m], s, C[m])
      BY <2>2 DEF ChosenInv
    <3>2. \A i \in 1..C[m] : i \in 1..Len(s)
      BY <1>1, <3>1
    <3>3. Contains(L[m], z, C[m])
      BY <1>4, <3>1, <3>2 DEF Contains
    <3>4. ASSUME C[m] > 0 PROVE \E r \in C[m]..Len(z) : Fixed(L, z, r) /\ z[r] <= V[m]
      <4>1. PICK r \in C[m]..Len(s) : Fixed(L, s, r) /\ s[r] <= V[m]
        BY <3>4 DEF ChosenInv
      <4>2. r \in Nat \ {0} /\ r \in 1..Len(s) /\ r \in C[m]..Len(z)
        BY <1>1, <1>4, <3>1, <3>4
      <4>3. \A i \in 1..r : i \in 1..Len(s)
        BY <1>1, <4>2
      <4>4. Fixed(L, z, r)
        <5>1. SamePrefix(z, s, r)
          BY <1>4, <4>3 DEF SamePrefix
        <5>2. r \in Nat \ {0} /\ Fixed(L, s, r)
          BY <4>1, <4>2
        <5> QED BY <5>1, <5>2, FixedIsOfPrefix
      <4> QED BY <1>4, <4>1, <4>2, <4>4
    <3>5. C2[m] <= Len(z)
      <4>1. Len(z) \in Nat /\ Len(s) <= Len(z)
        BY <1>4
      <4> QED BY <1>1, <3>1, <4>1
    <3> QED BY <3>1, <3>3, <3>4, <3>5
  <2> QED BY <2>1, <2>2
<1> QED BY <1>4, <1>6, <1>7 DEF ChosenInv, Extends

-----------------------------------------------------------------------------
(* What the writes of the log store make of a node's disk.                 *)

LEMMA TermsAreNumbers ==
    ASSUME NEW s \in Seq(Term)
    PROVE  s \in Seq(Nat)
<1>1. Len(s) \in Nat /\ s \in [1..Len(s) -> Term]
  BY LenProperties
<1>2. s \in [1..Len(s) -> Nat]
  BY <1>1 DEF Term
<1> QED BY <1>1, <1>2, SeqDef

LEMMA WalFields ==
    ASSUME NEW w \in Wal(Term)
    PROVE  /\ w.log \in Seq(Term) /\ w.log \in Seq(Nat) /\ Len(w.log) \in Nat
           /\ \A i \in 1..Len(w.log) : w.log[i] \in Term /\ w.log[i] \in Nat
           /\ w.first \in Nat \ {0} /\ w.vote \in Nat /\ w.committed \in Nat /\ w.purged \in Nat
<1>1. /\ w.log \in Seq(Term)
      /\ w.first \in Nat \ {0} /\ w.vote \in Nat /\ w.committed \in Nat /\ w.purged \in Nat
  BY DEF Wal
<1>2. Term \subseteq Nat
  BY DEF Term
<1>3. w.log \in Seq(Nat)
  BY <1>1, TermsAreNumbers
<1> QED BY <1>1, <1>2, <1>3

(* u is w with e at i for its last entry.                                  *)
EndsWith(u, w, i, e) ==
    /\ u \in Wal(Term)
    /\ Len(u.log) = i /\ u.log[i] = e
    /\ \A j \in 1..i : u.log[j] = IF j = i THEN e ELSE w.log[j]
    /\ u.vote = w.vote /\ u.committed = w.committed

LEMMA EntryWritten ==
    ASSUME NEW w \in Wal(Term), NEW i \in 1..(Len(w.log) + 1), NEW e \in Term
    PROVE  EndsWith(WithEntries(w, i, <<e>>), w, i, e)
<1> DEFINE h == SubSeq(w.log, 1, i - 1)
           l == h \o <<e>>
<1>1. w.log \in Seq(Term) /\ Len(w.log) \in Nat /\ i \in Nat /\ i - 1 \in Int
  BY WalFields
<1>2. h \in Seq(Term) /\ Len(h) = i - 1 /\ \A j \in 1..(i - 1) : h[j] = w.log[j]
  <2>1. \A j \in 1..(i - 1) : w.log[j] \in Term
    BY <1>1
  <2>2. /\ h \in Seq(Term)
        /\ Len(h) = IF 1 <= i - 1 THEN (i - 1) - 1 + 1 ELSE 0
        /\ \A j \in 1..((i - 1) - 1 + 1) : h[j] = w.log[1 + j - 1]
    BY <1>1, <2>1, SubSeqProperties
  <2>3. (i - 1) - 1 + 1 = i - 1
    BY <1>1
  <2>4. \A j \in 1..(i - 1) : 1 + j - 1 = j
    OBVIOUS
  <2> HIDE DEF h
  <2> QED BY <1>1, <2>2, <2>3, <2>4
<1>3. l \in Seq(Term) /\ Len(l) = i /\ \A j \in 1..i : l[j] = IF j = i THEN e ELSE w.log[j]
  <2> HIDE DEF h
  <2>1. <<e>> \in Seq(Term) /\ Len(<<e>>) = 1 /\ <<e>>[1] = e
    OBVIOUS
  <2>2. /\ l \in Seq(Term) /\ Len(l) = Len(h) + 1
        /\ \A j \in 1..(Len(h) + 1) : l[j] = IF j <= Len(h) THEN h[j] ELSE <<e>>[j - Len(h)]
    BY <1>2, <2>1, ConcatProperties
  <2>3. Len(h) + 1 = i /\ Len(l) = i
    BY <1>1, <1>2, <2>2
  <2>4. ASSUME NEW j \in 1..i PROVE l[j] = IF j = i THEN e ELSE w.log[j]
    <3>1. CASE j = i
      <4>1. ~(j <= Len(h)) /\ j - Len(h) = 1
        BY <1>1, <1>2, <3>1
      <4> QED BY <2>1, <2>2, <2>3, <3>1, <4>1
    <3>2. CASE j # i
      <4>1. j <= Len(h) /\ j \in 1..(i - 1)
        BY <1>1, <1>2, <3>2
      <4> QED BY <1>2, <2>2, <2>3, <3>2, <4>1
    <3> QED BY <3>1, <3>2
  <2> QED BY <2>2, <2>3, <2>4
<1>4. WithEntries(w, i, <<e>>) = [w EXCEPT !.log = l]
  BY DEF WithEntries
<1> HIDE DEF l, h
<1>5. /\ WithEntries(w, i, <<e>>) \in Wal(Term) /\ WithEntries(w, i, <<e>>).log = l
      /\ WithEntries(w, i, <<e>>).vote = w.vote
      /\ WithEntries(w, i, <<e>>).committed = w.committed
  BY <1>3, <1>4 DEF Wal
<1>6. i \in 1..i
  OBVIOUS
<1> QED BY <1>3, <1>5, <1>6 DEF EndsWith

LEMMA VoteWritten ==
    ASSUME NEW w \in Wal(Term), NEW v \in Nat
    PROVE  /\ WithVote(w, v) \in Wal(Term) /\ WithVote(w, v).log = w.log
           /\ WithVote(w, v).vote = v /\ WithVote(w, v).committed = w.committed
  BY DEF Wal, WithVote

LEMMA CommittedWritten ==
    ASSUME NEW w \in Wal(Term), NEW c \in Nat
    PROVE  /\ WithCommitted(w, c) \in Wal(Term) /\ WithCommitted(w, c).log = w.log
           /\ WithCommitted(w, c).vote = w.vote /\ WithCommitted(w, c).committed = c
  BY DEF Wal, WithCommitted

LEMMA PurgeWritten ==
    ASSUME NEW w \in Wal(Term), NEW p \in Nat
    PROVE  /\ Compacted(WithPurged(w, p), p) \in Wal(Term)
           /\ Compacted(WithPurged(w, p), p).log = w.log
           /\ Compacted(WithPurged(w, p), p).vote = w.vote
           /\ Compacted(WithPurged(w, p), p).committed = w.committed
<1> DEFINE u == WithPurged(w, p)
<1>1. u \in Wal(Term) /\ u.log = w.log /\ u.vote = w.vote /\ u.committed = w.committed
  BY DEF Wal, WithPurged
<1> HIDE DEF u
<1>2. /\ Compacted(u, p) \in Wal(Term) /\ Compacted(u, p).log = u.log
      /\ Compacted(u, p).vote = u.vote /\ Compacted(u, p).committed = u.committed
  <2>1. u.first \in Nat \ {0}
    BY <1>1, WalFields
  <2>2. (IF p + 1 > u.first THEN p + 1 ELSE u.first) \in Nat \ {0}
    BY <2>1
  <2> QED BY <1>1, <2>2 DEF Wal, Compacted
<1> QED BY <1>1, <1>2 DEF u

-----------------------------------------------------------------------------
(* The state as the lemmas above see it.                                   *)

LEMMA StateIsTyped ==
    ASSUME NEW w \in [Node -> Wal(Term)]
    PROVE  /\ [n \in Node |-> w[n].log] \in [Node -> Seq(Nat)]
           /\ [n \in Node |-> w[n].vote] \in [Node -> Nat]
           /\ [n \in Node |-> w[n].committed] \in [Node -> Nat]
<1>1. \A n \in Node : w[n].log \in Seq(Nat) /\ w[n].vote \in Nat /\ w[n].committed \in Nat
  <2> TAKE n \in Node
  <2> QED BY WalFields
<1> QED BY <1>1

LEMMA StateFacts ==
    ASSUME TypeOK
    PROVE  /\ Logs \in [Node -> Seq(Nat)] /\ Votes \in [Node -> Nat]
           /\ Committed \in [Node -> Nat]
           /\ chosen \in Seq(Nat) /\ leads \subseteq Node /\ acked \in [Node -> [Node -> Nat]]
<1>1. wal \in [Node -> Wal(Term)] /\ chosen \in Seq(Term) /\ leads \subseteq Node
      /\ acked \in [Node -> [Node -> Nat]]
  BY DEF TypeOK
<1>3. chosen \in Seq(Nat)
  BY <1>1, TermsAreNumbers
<1> QED BY <1>1, <1>3, StateIsTyped DEF Logs, Votes, Committed

LEMMA NextStateFacts ==
    ASSUME TypeOK'
    PROVE  /\ Logs' \in [Node -> Seq(Nat)] /\ Votes' \in [Node -> Nat]
           /\ Committed' \in [Node -> Nat]
           /\ chosen' \in Seq(Nat) /\ leads' \subseteq Node /\ acked' \in [Node -> [Node -> Nat]]
<1>1. wal' \in [Node -> Wal(Term)] /\ chosen' \in Seq(Term) /\ leads' \subseteq Node
      /\ acked' \in [Node -> [Node -> Nat]]
  BY DEF TypeOK
<1>3. chosen' \in Seq(Nat)
  BY <1>1, TermsAreNumbers
<1> QED BY <1>1, <1>3, StateIsTyped DEF Logs, Votes, Committed

(* A node's queue depends on its status, its commit position and what is   *)
(* committed.                                                              *)
LEMMA QueueIsKept ==
    ASSUME TypeOK, QueueInv, UNCHANGED <<status, data, applied, chosen>>,
           Committed' \in [Node -> Nat],
           \A n \in Node : Committed'[n] >= Committed[n]
    PROVE  QueueInv'
<1> SUFFICES ASSUME NEW n \in Node, status[n] = "up"
             PROVE  applied[n] <= Committed'[n] /\ data[n] = SubSeq(chosen, 1, applied[n])
  BY DEF QueueInv, Committed
<1>1. applied[n] <= Committed[n] /\ data[n] = SubSeq(chosen, 1, applied[n])
  BY DEF QueueInv, Committed
<1>2. applied[n] \in Nat /\ Committed[n] \in Nat /\ Committed'[n] \in Nat
  BY StateFacts DEF TypeOK
<1> QED BY <1>1, <1>2

-----------------------------------------------------------------------------
(* Every action keeps the invariant.                                       *)

LEMMA InitiallyReplicated == Init => ReplicationInv
<1> SUFFICES ASSUME Init PROVE ReplicationInv
  OBVIOUS
<1>1. EmptyWal \in Wal(Term) /\ EmptyWal.log = <<>> /\ EmptyWal.vote = 0 /\ EmptyWal.committed = 0
  BY DEF Wal, EmptyWal
<1>2. TypeOK
  BY <1>1, ReplicationParameters DEF Init, TypeOK, NoProgress
<1>3. \A n \in Node : Logs[n] = <<>> /\ Len(Logs[n]) = 0 /\ Votes[n] = 0 /\ Committed[n] = 0
  BY <1>1 DEF Init, Logs, Votes, Committed
<1>4. leads = {} /\ chosen = <<>> /\ status = [n \in Node |-> "off"]
  BY DEF Init
<1>5. Typed(Logs, Votes, leads, acked)
  BY <1>2, StateFacts DEF Typed
<1>6. LogsVoted(Logs, Votes) /\ LogsOrdered(Logs) /\ ZeroIsFirst(Logs)
  BY <1>3 DEF LogsVoted, LogsOrdered, ZeroIsFirst
<1>7. LogsMatch(Logs)
  BY <1>3 DEF LogsMatch
<1>8. VotesElected(Votes) /\ OneLeaderPerTerm(Votes, leads)
  BY <1>3, <1>4 DEF VotesElected, OneLeaderPerTerm
<1>9. /\ LeadersHaveTheirTerm(Logs, Votes, leads) /\ ProgressIsOfTheLog(Logs, leads, acked)
      /\ SafeOrLost(Logs, Votes, leads, acked)
  BY <1>4 DEF LeadersHaveTheirTerm, ProgressIsOfTheLog, SafeOrLost
<1>10. ProtocolInv(Logs, Votes, leads, acked)
  BY <1>5, <1>6, <1>7, <1>8, <1>9 DEF ProtocolInv
<1>11. ChosenInv(Logs, Votes, Committed, chosen)
  <2> \A n \in Node : Contains(Logs[n], chosen, 0) BY <1>3 DEF Contains
  <2> Len(chosen) = 0 BY <1>4
  <2> QED BY <1>3, <1>4 DEF ChosenInv
<1>12. QueueInv
  BY <1>4 DEF QueueInv
<1> QED BY <1>2, <1>10, <1>11, <1>12 DEF ReplicationInv

(* A step of a single node that touches no log and no commit position.     *)
LEMMA QuietStep ==
    ASSUME ReplicationInv, TypeOK', Logs' = Logs, Committed' = Committed, chosen' = chosen,
           \A n \in Node : Votes'[n] >= Votes[n], VotesElected(Votes'),
           leads' \subseteq leads,
           \A n \in leads' : Votes'[n] = Votes[n] /\ acked'[n] = acked[n]
    PROVE  /\ ProtocolInv(Logs', Votes', leads', acked')
           /\ ChosenInv(Logs', Votes', Committed', chosen')
<1>1. /\ ProtocolInv(Logs, Votes, leads, acked) /\ ChosenInv(Logs, Votes, Committed, chosen)
      /\ TypeOK
  BY DEF ReplicationInv
<1>2. /\ Votes \in [Node -> Nat] /\ Votes' \in [Node -> Nat] /\ Committed \in [Node -> Nat]
      /\ chosen \in Seq(Nat) /\ acked' \in [Node -> [Node -> Nat]]
  BY <1>1, StateFacts, NextStateFacts
<1>3. ProtocolInv(Logs, Votes', leads', acked')
  <2>1. Quiet(Votes, leads, acked, Votes', leads', acked')
    BY <1>2 DEF Quiet
  <2> QED BY <1>1, <2>1, QuietKeepsProtocol
<1>4. \A x \in Node : Contains(Logs[x], chosen, Committed[x])
  BY <1>1 DEF ChosenInv
<1>5. ChosenInv(Logs, Votes', Committed, chosen)
  BY <1>1, <1>2, <1>4, ChosenIsKept
<1> QED BY <1>3, <1>5

LEMMA InitializeIsSafe ==
    ASSUME ReplicationInv, Initialize
    PROVE  ReplicationInv'
<1>1. /\ ProtocolInv(Logs, Votes, leads, acked) /\ ChosenInv(Logs, Votes, Committed, chosen)
      /\ TypeOK /\ QueueInv
  BY DEF ReplicationInv
<1>2. /\ wal \in [Node -> Wal(Term)] /\ Lowest \in Node /\ 0 \in Term
  BY <1>1, ReplicationParameters DEF TypeOK, Term
<1>3. wal[Lowest] = EmptyWal /\ EmptyWal.log = <<>> /\ Len(EmptyWal.log) = 0
  BY DEF Initialize, EmptyWal
<1> DEFINE u == WithEntries(wal[Lowest], 1, <<0>>)
<1>4. /\ u \in Wal(Term) /\ Len(u.log) = 1 /\ u.log[1] = 0
      /\ u.vote = wal[Lowest].vote /\ u.committed = wal[Lowest].committed
  <2>1. wal[Lowest] \in Wal(Term) /\ 1 \in 1..(Len(wal[Lowest].log) + 1)
    BY <1>2, <1>3
  <2>2. EndsWith(u, wal[Lowest], 1, 0)
    BY <1>2, <2>1, EntryWritten
  <2> HIDE DEF u
  <2> QED BY <2>2 DEF EndsWith
<1>5. /\ wal' = [wal EXCEPT ![Lowest] = u]
      /\ UNCHANGED <<status, data, applied, snap, leads, acked, chosen, stops>>
  BY DEF Initialize
<1> HIDE DEF u
<1>6. wal' \in [Node -> Wal(Term)] /\ wal'[Lowest] = u /\ \A x \in Node \ {Lowest} : wal'[x] = wal[x]
  BY <1>2, <1>4, <1>5
<1>7. TypeOK'
  BY <1>1, <1>5, <1>6 DEF TypeOK
<1>8. Votes' = Votes /\ Committed' = Committed
  <2> \A x \in Node : wal'[x].vote = wal[x].vote /\ wal'[x].committed = wal[x].committed
    BY <1>4, <1>6
  <2> QED BY DEF Votes, Committed
<1>9. Grown(Logs, Logs', Lowest, 0) /\ Logs[Lowest] = <<>>
  <2>1. Logs' \in [Node -> Seq(Nat)]
    BY <1>7, NextStateFacts
  <2>2. Logs[Lowest] = <<>> /\ Len(Logs[Lowest]) = 0 /\ Logs'[Lowest] = u.log
    BY <1>2, <1>3, <1>6 DEF Logs
  <2>3. \A x \in Node \ {Lowest} : Logs'[x] = Logs[x]
    BY <1>6 DEF Logs
  <2> QED BY <1>4, <2>1, <2>2, <2>3 DEF Grown
<1>10. ProtocolInv(Logs', Votes', leads', acked')
  BY <1>1, <1>2, <1>5, <1>8, <1>9, InitializeKeepsProtocol
<1>11. ChosenInv(Logs', Votes', Committed', chosen')
  BY <1>1, <1>2, <1>5, <1>8, <1>9, StateFacts, InitializeKeepsChosen
<1>12. QueueInv'
  <2> \A n \in Node : Committed'[n] >= Committed[n] BY <1>1, <1>8, StateFacts
  <2> QED BY <1>1, <1>5, <1>7, NextStateFacts, QueueIsKept
<1> QED BY <1>7, <1>10, <1>11, <1>12 DEF ReplicationInv

LEMMA ElectIsSafe ==
    ASSUME ReplicationInv, NEW n \in Node, NEW Q \in SUBSET Node, Elect(n, Q)
    PROVE  ReplicationInv'
<1>1. /\ ProtocolInv(Logs, Votes, leads, acked) /\ ChosenInv(Logs, Votes, Committed, chosen)
      /\ TypeOK /\ QueueInv
  BY DEF ReplicationInv
<1>2. /\ IsMajority(Q) /\ n \in Q /\ Log(n) # <<>>
      /\ \A m \in Q : UpToDate(Log(n), Log(m))
      /\ leads' = (leads \ Q) \cup {n}
      /\ acked' = [m \in Node |-> IF m \in Q THEN NoProgress ELSE acked[m]]
      /\ UNCHANGED <<status, data, applied, snap, chosen, stops>>
  BY DEF Elect
<1>3. PICK t \in 1..MaxTerm :
        /\ \A m \in Q : wal[m].vote < t
        /\ wal' = [m \in Node |->
                     IF m = n THEN WithEntries(WithVote(wal[n], t), Len(Log(n)) + 1, <<t>>)
                     ELSE IF m \in Q THEN WithVote(wal[m], t) ELSE wal[m]]
  BY DEF Elect
<1>4. wal \in [Node -> Wal(Term)] /\ t \in Term /\ t \in Nat \ {0}
  <2>1. wal \in [Node -> Wal(Term)]
    BY <1>1 DEF TypeOK
  <2>2. MaxTerm \in Nat
    BY ReplicationParameters
  <2>3. t \in 0..MaxTerm /\ t \in Nat \ {0}
    BY <2>2
  <2> QED BY <2>1, <2>3 DEF Term
<1> DEFINE v == WithVote(wal[n], t)
           u == WithEntries(v, Len(Log(n)) + 1, <<t>>)
<1>5. v \in Wal(Term) /\ v.log = Log(n) /\ v.vote = t /\ v.committed = wal[n].committed
  BY <1>4, VoteWritten DEF Log
<1>6. /\ u \in Wal(Term) /\ Len(u.log) = Len(Log(n)) + 1
      /\ \A j \in 1..(Len(Log(n)) + 1) :
           u.log[j] = IF j = Len(Log(n)) + 1 THEN t ELSE Log(n)[j]
      /\ u.vote = t /\ u.committed = wal[n].committed
  <2> HIDE DEF v
  <2>1. Len(v.log) \in Nat
    BY <1>5, WalFields
  <2>2. Len(v.log) + 1 \in 1..(Len(v.log) + 1)
    BY <2>1
  <2>3. EndsWith(u, v, Len(v.log) + 1, t)
    BY <1>4, <1>5, <2>1, <2>2, EntryWritten
  <2> HIDE DEF u
  <2> QED BY <1>5, <2>3 DEF EndsWith
<1> HIDE DEF v, u
<1>7. wal' = [m \in Node |-> IF m = n THEN u ELSE IF m \in Q THEN WithVote(wal[m], t) ELSE wal[m]]
  BY <1>3 DEF u, v
<1>8. ASSUME NEW x \in Node
      PROVE  /\ wal'[x] \in Wal(Term) /\ wal'[x].committed = wal[x].committed
             /\ wal'[x].vote = IF x \in Q THEN t ELSE wal[x].vote
             /\ x # n => wal'[x].log = wal[x].log
  <2>1. CASE x = n
    BY <1>2, <1>6, <1>7, <2>1
  <2>2. CASE x # n /\ x \in Q
    <3> wal'[x] = WithVote(wal[x], t) BY <1>7, <2>2
    <3> QED BY <1>4, <2>2, VoteWritten
  <2>3. CASE x # n /\ x \notin Q
    BY <1>4, <1>7, <2>3
  <2> QED BY <2>1, <2>2, <2>3
<1>9. wal' \in [Node -> Wal(Term)] /\ wal'[n] = u
  BY <1>7, <1>8
<1>10. TypeOK'
  <2>1. NoProgress \in [Node -> Nat]
    BY DEF NoProgress
  <2>2. acked' \in [Node -> [Node -> Nat]] /\ leads' \subseteq Node
    BY <1>1, <1>2, <2>1 DEF TypeOK
  <2> QED BY <1>1, <1>2, <1>9, <2>2 DEF TypeOK
<1>11. /\ Logs \in [Node -> Seq(Nat)] /\ Logs' \in [Node -> Seq(Nat)]
       /\ Votes \in [Node -> Nat] /\ Votes' \in [Node -> Nat]
       /\ Committed \in [Node -> Nat] /\ chosen \in Seq(Nat) /\ acked' \in [Node -> [Node -> Nat]]
  BY <1>1, <1>10, StateFacts, NextStateFacts
<1>12. Committed' = Committed
  BY <1>8 DEF Committed
<1>13. \A x \in Node : Votes'[x] = IF x \in Q THEN t ELSE Votes[x]
  BY <1>8 DEF Votes
<1>14. Grown(Logs, Logs', n, t)
  <2>1. Logs[n] = Log(n) /\ Logs'[n] = u.log
    BY <1>9 DEF Logs, Log
  <2>2. \A x \in Node \ {n} : Logs'[x] = Logs[x]
    BY <1>8 DEF Logs
  <2>3. Len(Log(n)) \in Nat
    BY <1>4, WalFields DEF Log
  <2>4. u.log[Len(Log(n)) + 1] = t /\ \A i \in 1..Len(Log(n)) : u.log[i] = Log(n)[i]
    BY <1>6, <2>3
  <2> QED BY <1>6, <1>11, <2>1, <2>2, <2>4 DEF Grown
<1>15. /\ Logs[n] # <<>> /\ \A m \in Q : UpToDate(Logs[n], Logs[m])
       /\ \A m \in Q : Votes[m] < t
       /\ \A x \in Node : acked'[x] = IF x \in Q THEN NoProgress ELSE acked[x]
  BY <1>2, <1>3 DEF Logs, Log, Votes
<1>16. \A x \in Node : Votes'[x] >= Votes[x]
  <2> TAKE x \in Node
  <2>1. CASE x \in Q
    <3> Votes[x] < t /\ Votes[x] \in Nat BY <1>11, <1>15, <2>1
    <3> QED BY <1>4, <1>13, <2>1
  <2>2. CASE x \notin Q
    BY <1>11, <1>13, <2>2
  <2> QED BY <2>1, <2>2
<1>17. ProtocolInv(Logs', Votes', leads', acked')
  <2>1. ElectedBy(Votes, leads, acked, Votes', leads', acked', Q, n, t)
    BY <1>2, <1>11, <1>13, <1>15 DEF ElectedBy
  <2>2. \A m \in Q : UpToDate(Logs[n], Logs[m])
    BY <1>15
  <2> QED BY <1>1, <1>2, <1>4, <1>14, <1>15, <2>1, <2>2, ElectKeepsProtocol
<1>18. ChosenInv(Logs', Votes', Committed', chosen')
  BY <1>1, <1>2, <1>4, <1>11, <1>12, <1>14, <1>15, <1>16, ElectKeepsChosen
<1>19. QueueInv'
  <2> \A x \in Node : Committed'[x] >= Committed[x] BY <1>11, <1>12
  <2> QED BY <1>1, <1>2, <1>11, <1>12, QueueIsKept
<1> QED BY <1>10, <1>17, <1>18, <1>19 DEF ReplicationInv

LEMMA ClientWriteIsSafe ==
    ASSUME ReplicationInv, NEW n \in Node, ClientWrite(n)
    PROVE  ReplicationInv'
<1>1. /\ ProtocolInv(Logs, Votes, leads, acked) /\ ChosenInv(Logs, Votes, Committed, chosen)
      /\ TypeOK /\ QueueInv
  BY DEF ReplicationInv
<1> DEFINE u == WithEntries(wal[n], Len(Log(n)) + 1, <<wal[n].vote>>)
<1>2. /\ n \in leads /\ wal' = [wal EXCEPT ![n] = u]
      /\ UNCHANGED <<status, data, applied, snap, leads, acked, chosen, stops>>
  BY DEF ClientWrite
<1>3. wal \in [Node -> Wal(Term)] /\ Len(Log(n)) \in Nat
  BY <1>1, WalFields DEF TypeOK, Log
<1>4. wal[n].vote \in Term
  <2>1. Logs[n] = Log(n) /\ Votes[n] = wal[n].vote
    BY DEF Logs, Votes, Log
  <2>2. Len(Log(n)) > 0 /\ Log(n)[Len(Log(n))] = wal[n].vote
    BY <1>1, <1>2, <2>1 DEF ProtocolInv, LeadersHaveTheirTerm
  <2> QED BY <1>3, <2>2, WalFields DEF Log
<1>5. /\ u \in Wal(Term) /\ Len(u.log) = Len(Log(n)) + 1
      /\ \A j \in 1..(Len(Log(n)) + 1) :
           u.log[j] = IF j = Len(Log(n)) + 1 THEN wal[n].vote ELSE Log(n)[j]
      /\ u.vote = wal[n].vote /\ u.committed = wal[n].committed
  <2>1. Len(wal[n].log) + 1 \in 1..(Len(wal[n].log) + 1)
    BY <1>3 DEF Log
  <2>2. EndsWith(u, wal[n], Len(Log(n)) + 1, wal[n].vote)
    BY <1>3, <1>4, <2>1, EntryWritten DEF Log
  <2> HIDE DEF u
  <2> QED BY <2>2 DEF EndsWith, Log
<1> HIDE DEF u
<1>6. wal' \in [Node -> Wal(Term)] /\ wal'[n] = u /\ \A x \in Node \ {n} : wal'[x] = wal[x]
  BY <1>2, <1>3, <1>5
<1>7. TypeOK'
  BY <1>1, <1>2, <1>6 DEF TypeOK
<1>8. Votes' = Votes /\ Committed' = Committed
  <2> \A x \in Node : wal'[x].vote = wal[x].vote /\ wal'[x].committed = wal[x].committed
    BY <1>5, <1>6
  <2> QED BY DEF Votes, Committed
<1>9. Grown(Logs, Logs', n, Votes[n])
  <2>1. Logs[n] = Log(n) /\ Logs'[n] = u.log /\ Votes[n] = wal[n].vote
    BY <1>6 DEF Logs, Log, Votes
  <2>2. \A x \in Node \ {n} : Logs'[x] = Logs[x]
    BY <1>6 DEF Logs
  <2>3. u.log[Len(Log(n)) + 1] = wal[n].vote /\ \A i \in 1..Len(Log(n)) : u.log[i] = Log(n)[i]
    BY <1>3, <1>5
  <2>4. Logs' \in [Node -> Seq(Nat)]
    BY <1>7, NextStateFacts
  <2> QED BY <1>5, <2>1, <2>2, <2>3, <2>4 DEF Grown
<1>10. ProtocolInv(Logs', Votes', leads', acked')
  BY <1>1, <1>2, <1>8, <1>9, WriteKeepsProtocol
<1>11. ChosenInv(Logs', Votes', Committed', chosen')
  BY <1>1, <1>2, <1>8, <1>9, StateFacts, WriteKeepsChosen
<1>12. QueueInv'
  <2> \A x \in Node : Committed'[x] >= Committed[x] BY <1>1, <1>8, StateFacts
  <2> QED BY <1>1, <1>2, <1>7, NextStateFacts, QueueIsKept
<1> QED BY <1>7, <1>10, <1>11, <1>12 DEF ReplicationInv

LEMMA AppendEntriesIsSafe ==
    ASSUME ReplicationInv, NEW n \in Node, NEW m \in Node, AppendEntries(n, m)
    PROVE  ReplicationInv'
<1>1. /\ ProtocolInv(Logs, Votes, leads, acked) /\ ChosenInv(Logs, Votes, Committed, chosen)
      /\ TypeOK /\ QueueInv
  BY DEF ReplicationInv
<1> DEFINE k == Matching(Log(n), Log(m))
           r == Replicated(n, m)
           b == IF r = k THEN wal[m] ELSE WithEntries(wal[m], r, <<Log(n)[r]>>)
           v == WithVote(b, wal[n].vote)
           c == IF wal[n].committed <= r THEN wal[n].committed ELSE r
           u == IF c > v.committed THEN WithCommitted(v, c) ELSE v
<1>2. /\ n \in leads /\ m # n /\ wal[m].vote <= wal[n].vote
      /\ wal' = [wal EXCEPT ![m] = u]
      /\ leads' = leads \ {m}
      /\ acked' = [acked EXCEPT ![n][m] = r, ![m] = NoProgress]
      /\ UNCHANGED <<status, data, applied, snap, chosen, stops>>
  BY DEF AppendEntries, Received
<1>3. /\ wal \in [Node -> Wal(Term)] /\ wal[n] \in Wal(Term) /\ wal[m] \in Wal(Term)
      /\ Log(n) \in Seq(Nat) /\ Log(m) \in Seq(Nat) /\ Len(Log(n)) \in Nat /\ Len(Log(m)) \in Nat
      /\ wal[n].vote \in Nat /\ wal[n].committed \in Nat /\ wal[m].committed \in Nat
  BY <1>1, WalFields DEF TypeOK, Log
<1>4. /\ k \in 0..Len(Log(n)) /\ k <= Len(Log(m))
      /\ \A i \in 1..k : Log(n)[i] = Log(m)[i]
      /\ k < Len(Log(n)) /\ k < Len(Log(m)) => Log(n)[k + 1] # Log(m)[k + 1]
  BY <1>3, MatchingIsFound
<1>5. r = IF k < Len(Log(n)) THEN k + 1 ELSE k
  BY DEF Replicated
<1> HIDE DEF k, r
<1>6. r \in Nat /\ k \in Nat /\ (r # k => r \in 1..Len(Log(n)) /\ r \in 1..(Len(Log(m)) + 1) /\ r = k + 1)
  BY <1>3, <1>4, <1>5
<1>7. /\ b \in Wal(Term) /\ b.committed = wal[m].committed
      /\ r = k => b.log = Log(m)
      /\ r # k => Len(b.log) = r /\ \A i \in 1..r : b.log[i] = Log(n)[i]
  <2>1. CASE r = k
    BY <1>3, <2>1 DEF Log
  <2>2. CASE r # k
    <3>1. Log(n)[r] \in Term
      BY <1>3, <1>6, <2>2, WalFields DEF Log
    <3>2. EndsWith(WithEntries(wal[m], r, <<Log(n)[r]>>), wal[m], r, Log(n)[r])
      BY <1>3, <1>6, <2>2, <3>1, EntryWritten DEF Log
    <3>3. EndsWith(b, wal[m], r, Log(n)[r])
      BY <2>2, <3>2
    <3> HIDE DEF b
    <3>4. /\ b \in Wal(Term) /\ b.committed = wal[m].committed /\ Len(b.log) = r
          /\ \A i \in 1..r : b.log[i] = IF i = r THEN Log(n)[r] ELSE Log(m)[i]
      BY <3>3 DEF EndsWith, Log
    <3>5. ASSUME NEW i \in 1..r, i # r PROVE Log(n)[i] = Log(m)[i]
      <4> i \in 1..k BY <1>6, <2>2, <3>5
      <4> QED BY <1>4
    <3> QED BY <2>2, <3>4, <3>5
  <2> QED BY <2>1, <2>2
<1> HIDE DEF b
<1>8. v \in Wal(Term) /\ v.log = b.log /\ v.vote = wal[n].vote /\ v.committed = wal[m].committed
  BY <1>3, <1>7, VoteWritten
<1> HIDE DEF v
<1>9. c \in Nat /\ c <= wal[n].committed /\ c <= r
  BY <1>3, <1>6
<1> HIDE DEF c
<1>10. /\ u \in Wal(Term) /\ u.log = b.log /\ u.vote = wal[n].vote
       /\ u.committed \in Nat /\ u.committed >= wal[m].committed
       /\ \/ u.committed = wal[m].committed
          \/ u.committed <= wal[n].committed /\ u.committed <= r
  <2>1. CASE c > v.committed
    <3>1. u = WithCommitted(v, c)
      BY <2>1
    <3>2. u \in Wal(Term) /\ u.log = v.log /\ u.vote = v.vote /\ u.committed = c
      BY <1>8, <1>9, <3>1, CommittedWritten
    <3> HIDE DEF u
    <3> QED BY <1>3, <1>8, <1>9, <2>1, <3>2
  <2>2. CASE ~(c > v.committed)
    <3>1. u = v
      BY <2>2
    <3> HIDE DEF u
    <3> QED BY <1>3, <1>8, <3>1
  <2> QED BY <2>1, <2>2
<1> HIDE DEF u
<1>11. wal' \in [Node -> Wal(Term)] /\ wal'[m] = u /\ \A x \in Node \ {m} : wal'[x] = wal[x]
  BY <1>2, <1>3, <1>10
<1>12. acked \in [Node -> [Node -> Nat]] /\ NoProgress \in [Node -> Nat]
  BY <1>1 DEF TypeOK, NoProgress
<1>13. /\ acked' \in [Node -> [Node -> Nat]]
       /\ acked'[n][m] = r /\ \A x \in Node \ {m} : acked'[n][x] = acked[n][x]
       /\ \A d \in Node \ {n, m} : acked'[d] = acked[d]
  BY <1>2, <1>6, <1>12
<1>14. TypeOK'
  <2> leads' \subseteq Node BY <1>1, <1>2 DEF TypeOK
  <2> QED BY <1>1, <1>2, <1>11, <1>13 DEF TypeOK
<1>15. /\ Logs' \in [Node -> Seq(Nat)] /\ Votes' \in [Node -> Nat]
       /\ Committed \in [Node -> Nat] /\ Committed' \in [Node -> Nat] /\ chosen \in Seq(Nat)
  BY <1>1, <1>14, StateFacts, NextStateFacts
<1>16. /\ Logs[n] = Log(n) /\ Logs[m] = Log(m) /\ Votes[n] = wal[n].vote /\ Votes[m] = wal[m].vote
       /\ Committed[n] = wal[n].committed /\ Committed[m] = wal[m].committed
       /\ Logs'[m] = u.log /\ Votes'[m] = u.vote /\ Committed'[m] = u.committed
  BY <1>11 DEF Logs, Log, Votes, Committed
<1>17. \A x \in Node \ {m} :
         Logs'[x] = Logs[x] /\ Votes'[x] = Votes[x] /\ Committed'[x] = Committed[x]
  BY <1>11 DEF Logs, Votes, Committed
<1>18. Appended(Logs, Logs', n, m, k, r)
  <2>1. /\ \A x \in Node \ {m} : Logs'[x] = Logs[x]
        /\ r = k => Logs'[m] = Logs[m]
        /\ r # k => Len(Logs'[m]) = r /\ \A i \in 1..r : Logs'[m][i] = Logs[n][i]
    BY <1>7, <1>10, <1>16, <1>17
  <2>2. /\ k \in 0..Len(Logs[n]) /\ k <= Len(Logs[m])
        /\ \A i \in 1..k : Logs[n][i] = Logs[m][i]
        /\ k < Len(Logs[n]) /\ k < Len(Logs[m]) => Logs[n][k + 1] # Logs[m][k + 1]
        /\ r = IF k < Len(Logs[n]) THEN k + 1 ELSE k
    BY <1>4, <1>5, <1>16
  <2> QED BY <1>15, <2>1, <2>2 DEF Appended
<1>19. Followed(Logs, Votes, acked, Logs', Votes', acked', n, m, k, r)
  <2>1. Votes[m] <= Votes[n] /\ Votes'[m] = Votes[n]
    BY <1>2, <1>10, <1>16
  <2> QED BY <1>13, <1>15, <1>17, <1>18, <2>1 DEF Followed
<1>20. m \in Node \ {n}
  BY <1>2
<1>21. ProtocolInv(Logs', Votes', leads', acked')
  BY <1>1, <1>2, <1>19, <1>20, FollowedKeepsProtocol
<1>22. ChosenInv(Logs', Votes', Committed', chosen')
  <2>1. \A x \in Node \ {m} : Committed'[x] = Committed[x]
    BY <1>17
  <2>2. Committed'[m] = Committed[m] \/ (Committed'[m] <= Committed[n] /\ Committed'[m] <= r)
    BY <1>10, <1>16
  <2>3. ChosenInv(Logs', Votes', Committed', chosen)
    <3>1. CommitFollows(Committed, Committed', n, m, r)
      BY <1>15, <2>1, <2>2 DEF CommitFollows
    <3> QED BY <1>1, <1>2, <1>15, <1>19, <1>20, <3>1, FollowedKeepsChosen
  <2> QED BY <1>2, <2>3
<1>23. QueueInv'
  <2>1. ASSUME NEW x \in Node PROVE Committed'[x] >= Committed[x]
    <3>1. CASE x = m
      BY <1>10, <1>16, <3>1
    <3>2. CASE x # m
      BY <1>15, <1>17, <3>2
    <3> QED BY <3>1, <3>2
  <2> QED BY <1>1, <1>2, <1>15, <2>1, QueueIsKept
<1> QED BY <1>14, <1>21, <1>22, <1>23 DEF ReplicationInv

LEMMA RejectedIsSafe ==
    ASSUME ReplicationInv, NEW n \in Node, NEW m \in Node, Rejected(n, m)
    PROVE  ReplicationInv'
<1>1. /\ ProtocolInv(Logs, Votes, leads, acked) /\ TypeOK /\ QueueInv
  BY DEF ReplicationInv
<1> DEFINE u == WithVote(wal[n], wal[m].vote)
<1>2. /\ wal[m].vote > wal[n].vote /\ wal' = [wal EXCEPT ![n] = u]
      /\ leads' = leads \ {n} /\ acked' = [acked EXCEPT ![n] = NoProgress]
      /\ UNCHANGED <<status, data, applied, snap, chosen, stops>>
  BY DEF Rejected
<1>3. /\ wal \in [Node -> Wal(Term)] /\ wal[n] \in Wal(Term)
      /\ wal[m].vote \in Nat /\ wal[n].vote \in Nat
      /\ acked \in [Node -> [Node -> Nat]] /\ NoProgress \in [Node -> Nat]
  BY <1>1, WalFields DEF TypeOK, NoProgress
<1>4. u \in Wal(Term) /\ u.log = wal[n].log /\ u.vote = wal[m].vote /\ u.committed = wal[n].committed
  BY <1>3, VoteWritten
<1> HIDE DEF u
<1>5. wal' \in [Node -> Wal(Term)] /\ wal'[n] = u /\ \A x \in Node \ {n} : wal'[x] = wal[x]
  BY <1>2, <1>3, <1>4
<1>6. TypeOK'
  <2>1. leads' \subseteq Node
    BY <1>1, <1>2 DEF TypeOK
  <2>2. acked' \in [Node -> [Node -> Nat]]
    BY <1>2, <1>3
  <2> QED BY <1>1, <1>2, <1>5, <2>1, <2>2 DEF TypeOK
<1>7. Logs' = Logs /\ Committed' = Committed
  <2> \A x \in Node : wal'[x].log = wal[x].log /\ wal'[x].committed = wal[x].committed
    BY <1>4, <1>5
  <2> QED BY DEF Logs, Committed
<1>8. Votes'[n] = Votes[m] /\ Votes[m] > Votes[n] /\ \A x \in Node \ {n} : Votes'[x] = Votes[x]
  BY <1>2, <1>4, <1>5 DEF Votes
<1>9. Votes \in [Node -> Nat] /\ Votes' \in [Node -> Nat]
  BY <1>1, <1>6, StateFacts, NextStateFacts
<1>10. \A x \in Node : Votes'[x] >= Votes[x] /\ \E y \in Node : Votes'[x] = Votes[y]
  <2> TAKE x \in Node
  <2>1. CASE x = n
    BY <1>8, <1>9, <2>1
  <2>2. CASE x # n
    BY <1>8, <1>9, <2>2
  <2> QED BY <2>1, <2>2
<1>11. VotesElected(Votes')
  <2> SUFFICES ASSUME NEW x \in Node, Votes'[x] > 0
               PROVE  IsMajority({z \in Node : Votes'[z] >= Votes'[x]})
    BY DEF VotesElected
  <2>1. PICK y \in Node : Votes'[x] = Votes[y]
    BY <1>10
  <2> DEFINE P == {z \in Node : Votes'[z] >= Votes'[x]}
             R == {z \in Node : Votes[z] >= Votes[y]}
  <2>2. IsMajority(R)
    BY <1>1, <2>1 DEF ProtocolInv, VotesElected
  <2>3. R \subseteq P
    <3> SUFFICES ASSUME NEW z \in Node, Votes[z] >= Votes[y] PROVE Votes'[z] >= Votes'[x]
      OBVIOUS
    <3>1. /\ Votes[z] \in Nat /\ Votes[y] \in Nat /\ Votes'[z] \in Nat
          /\ Votes'[z] >= Votes[z]
      BY <1>9, <1>10
    <3> QED BY <2>1, <3>1
  <2>4. P \in SUBSET Node /\ R \in SUBSET Node
    OBVIOUS
  <2>5. IsMajority(P)
    <3> HIDE DEF P, R
    <3> QED BY <2>2, <2>3, <2>4, MoreThanAMajority
  <2> QED BY <2>5
<1>12. ASSUME NEW x \in leads' PROVE Votes'[x] = Votes[x] /\ acked'[x] = acked[x]
  <2> x \in Node \ {n} BY <1>1, <1>2 DEF TypeOK
  <2> QED BY <1>2, <1>3, <1>8
<1>13. leads' \subseteq leads
  BY <1>2
<1>14. /\ ProtocolInv(Logs', Votes', leads', acked')
       /\ ChosenInv(Logs', Votes', Committed', chosen')
  <2> chosen' = chosen BY <1>2
  <2> QED BY <1>6, <1>7, <1>10, <1>11, <1>12, <1>13, QuietStep
<1>15. QueueInv'
  <2> Committed' \in [Node -> Nat] /\ \A x \in Node : Committed'[x] >= Committed[x]
    BY <1>1, <1>7, StateFacts
  <2> QED BY <1>1, <1>2, QueueIsKept
<1> QED BY <1>6, <1>14, <1>15 DEF ReplicationInv

LEMMA ExtensionHasPrefix ==
    ASSUME NEW s \in Seq(Nat), NEW z \in Seq(Nat), NEW a \in Nat, a <= Len(s), a <= Len(z),
           \A i \in 1..a : z[i] = s[i]
    PROVE  SubSeq(z, 1, a) = SubSeq(s, 1, a)
<1>1. /\ SubSeq(s, 1, a) \in Seq(Nat) /\ SubSeq(z, 1, a) \in Seq(Nat)
      /\ Len(SubSeq(s, 1, a)) = a /\ Len(SubSeq(z, 1, a)) = a
      /\ \A j \in 1..a : SubSeq(s, 1, a)[j] = s[j] /\ SubSeq(z, 1, a)[j] = z[j]
  <2>1. \A j \in 1..a : s[j] \in Nat /\ z[j] \in Nat
    OBVIOUS
  <2>2. /\ SubSeq(s, 1, a) \in Seq(Nat) /\ Len(SubSeq(s, 1, a)) = a
        /\ \A j \in 1..a : SubSeq(s, 1, a)[j] = s[j]
    BY <2>1, SubSeqProperties
  <2>3. /\ SubSeq(z, 1, a) \in Seq(Nat) /\ Len(SubSeq(z, 1, a)) = a
        /\ \A j \in 1..a : SubSeq(z, 1, a)[j] = z[j]
    BY <2>1, SubSeqProperties
  <2> QED BY <2>2, <2>3
<1> QED BY <1>1, SeqEqual

LEMMA CommitIsSafe ==
    ASSUME ReplicationInv, NEW n \in Node, NEW c \in 1..MaxIndex, Commit(n, c)
    PROVE  ReplicationInv'
<1>1. /\ ProtocolInv(Logs, Votes, leads, acked) /\ ChosenInv(Logs, Votes, Committed, chosen)
      /\ TypeOK /\ QueueInv
  BY DEF ReplicationInv
<1> DEFINE u == WithCommitted(wal[n], c)
<1>2. /\ n \in leads /\ c \in (wal[n].committed + 1)..Len(Log(n)) /\ Log(n)[c] = wal[n].vote
      /\ IsMajority({n} \cup {m \in Node : acked[n][m] >= c})
      /\ wal' = [wal EXCEPT ![n] = u]
      /\ chosen' = IF c > Len(chosen) THEN SubSeq(Log(n), 1, c) ELSE chosen
      /\ UNCHANGED <<status, data, applied, snap, leads, acked, stops>>
  BY DEF Commit
<1>3. /\ wal \in [Node -> Wal(Term)] /\ wal[n] \in Wal(Term) /\ Len(Log(n)) \in Nat
      /\ Log(n) \in Seq(Term) /\ wal[n].committed \in Nat
  BY <1>1, WalFields DEF TypeOK, Log
<1>4. c \in Nat \ {0} /\ c \in 1..Len(Log(n)) /\ c > wal[n].committed
  BY <1>2, <1>3
<1>5. u \in Wal(Term) /\ u.log = wal[n].log /\ u.vote = wal[n].vote /\ u.committed = c
  BY <1>3, <1>4, CommittedWritten
<1> HIDE DEF u
<1>6. wal' \in [Node -> Wal(Term)] /\ wal'[n] = u /\ \A x \in Node \ {n} : wal'[x] = wal[x]
  BY <1>2, <1>3, <1>5
<1>7. chosen' \in Seq(Term)
  <2>1. CASE c > Len(chosen)
    <3>1. \A i \in 1..c : Log(n)[i] \in Term
      BY <1>3, <1>4
    <3>2. SubSeq(Log(n), 1, c) \in Seq(Term)
      BY <1>4, <3>1, SubSeqProperties
    <3> QED BY <1>2, <2>1, <3>2
  <2>2. CASE ~(c > Len(chosen))
    BY <1>1, <1>2, <2>2 DEF TypeOK
  <2> QED BY <2>1, <2>2
<1>8. TypeOK'
  BY <1>1, <1>2, <1>6, <1>7 DEF TypeOK
<1>9. Logs' = Logs /\ Votes' = Votes
  <2> \A x \in Node : wal'[x].log = wal[x].log /\ wal'[x].vote = wal[x].vote
    BY <1>5, <1>6
  <2> QED BY DEF Logs, Votes
<1>10. Committed'[n] = c /\ \A x \in Node \ {n} : Committed'[x] = Committed[x]
  BY <1>5, <1>6 DEF Committed
<1>11. /\ Committed \in [Node -> Nat] /\ Committed' \in [Node -> Nat] /\ chosen \in Seq(Nat)
  BY <1>1, <1>8, StateFacts, NextStateFacts
<1>12. Logs[n] = Log(n) /\ Votes[n] = wal[n].vote /\ Committed[n] = wal[n].committed
  BY DEF Logs, Votes, Committed, Log
<1>13. /\ chosen' \in Seq(Nat) /\ Len(chosen) <= Len(chosen')
       /\ \A i \in 1..Len(chosen) : chosen'[i] = chosen[i]
       /\ ChosenInv(Logs, Votes, Committed', chosen')
  <2>1. c \in 1..Len(Logs[n]) /\ Logs[n][c] = Votes[n]
    BY <1>2, <1>4, <1>12
  <2>2. chosen' = IF c > Len(chosen) THEN SubSeq(Logs[n], 1, c) ELSE chosen
    BY <1>2, <1>12
  <2>3. Commits(Logs[n], Committed, Committed', chosen, chosen', n, c)
    BY <1>10, <1>11, <2>2 DEF Commits
  <2>4. Extends(chosen', chosen) /\ ChosenInv(Logs, Votes, Committed', chosen')
    BY <1>1, <1>2, <1>11, <2>1, <2>3, CommitKeepsChosen
  <2> QED BY <2>4 DEF Extends
<1>14. ProtocolInv(Logs', Votes', leads', acked')
  BY <1>1, <1>2, <1>9
<1>15. QueueInv'
  <2> SUFFICES ASSUME NEW x \in Node, status[x] = "up"
               PROVE  applied[x] <= Committed'[x] /\ data[x] = SubSeq(chosen', 1, applied[x])
    BY <1>2 DEF QueueInv, Committed
  <2>1. applied[x] <= Committed[x] /\ data[x] = SubSeq(chosen, 1, applied[x])
    BY <1>1 DEF QueueInv, Committed
  <2>2. applied[x] \in Nat /\ Committed[x] \in Nat /\ Committed'[x] \in Nat /\ Committed[x] <= Len(chosen)
    BY <1>1, <1>11 DEF TypeOK, ChosenInv
  <2>3. Committed'[x] >= Committed[x]
    <3>1. CASE x = n
      BY <1>4, <1>10, <1>12, <2>2, <3>1
    <3>2. CASE x # n
      BY <1>10, <2>2, <3>2
    <3> QED BY <3>1, <3>2
  <2>4. Len(chosen) \in Nat /\ Len(chosen') \in Nat
    BY <1>11, <1>13
  <2>5. applied[x] <= Len(chosen) /\ applied[x] <= Len(chosen')
    BY <1>13, <2>1, <2>2, <2>4
  <2>6. \A i \in 1..applied[x] : chosen'[i] = chosen[i]
    <3> \A i \in 1..applied[x] : i \in 1..Len(chosen) BY <2>2, <2>4, <2>5
    <3> QED BY <1>13
  <2>7. SubSeq(chosen', 1, applied[x]) = SubSeq(chosen, 1, applied[x])
    BY <1>11, <1>13, <2>2, <2>5, <2>6, ExtensionHasPrefix
  <2> QED BY <2>1, <2>2, <2>3, <2>7
<1> QED BY <1>8, <1>9, <1>13, <1>14, <1>15 DEF ReplicationInv

(* The steps of one node on its own disk and in its own memory.            *)
LEMMA LocalStep ==
    ASSUME ReplicationInv, TypeOK', Logs' = Logs, Votes' = Votes, Committed' = Committed,
           chosen' = chosen, leads' \subseteq leads, \A x \in leads' : acked'[x] = acked[x]
    PROVE  /\ ProtocolInv(Logs', Votes', leads', acked')
           /\ ChosenInv(Logs', Votes', Committed', chosen')
<1>1. TypeOK /\ VotesElected(Votes)
  BY DEF ReplicationInv, ProtocolInv
<1>2. VotesElected(Votes')
  BY <1>1
<1>3. \A x \in Node : Votes'[x] >= Votes[x]
  BY <1>1, StateFacts
<1> QED BY <1>2, <1>3, QuietStep

LEMMA ApplyIsSafe ==
    ASSUME ReplicationInv, NEW n \in Node, Apply(n)
    PROVE  ReplicationInv'
<1>1. TypeOK /\ QueueInv /\ ChosenInv(Logs, Votes, Committed, chosen)
  BY DEF ReplicationInv
<1> DEFINE a == applied[n] + 1
           e == Log(n)[a]
<1>2. /\ status[n] = "up" /\ applied[n] < wal[n].committed /\ Readable(wal[n], a, a)
      /\ data' = [data EXCEPT ![n] = Append(data[n], e)]
      /\ applied' = [applied EXCEPT ![n] = a]
      /\ UNCHANGED <<wal, status, snap, leads, acked, chosen, stops>>
  BY DEF Apply
<1>3. /\ wal[n] \in Wal(Term) /\ wal[n].committed \in Nat /\ Len(Log(n)) \in Nat
      /\ applied \in [Node -> Nat] /\ applied[n] \in Nat /\ data \in [Node -> Seq(Term)]
      /\ data[n] \in Seq(Term) /\ chosen \in Seq(Term) /\ Len(chosen) \in Nat
  BY <1>1, WalFields DEF TypeOK, Log
<1>4. a \in Nat \ {0} /\ a \in 1..Len(Log(n)) /\ a <= wal[n].committed
  BY <1>2, <1>3 DEF Readable, Log
<1>5. e \in Term
  BY <1>3, <1>4, WalFields DEF Log
<1>6. e = chosen[a] /\ a <= Len(chosen)
  <2>1. /\ Logs[n] = Log(n) /\ Committed[n] = wal[n].committed
    BY DEF Logs, Log, Committed
  <2>2. wal[n].committed <= Len(chosen) /\ Contains(Log(n), chosen, wal[n].committed)
    BY <1>1, <2>1 DEF ChosenInv
  <2>3. a \in 1..wal[n].committed
    BY <1>3, <1>4
  <2> HIDE DEF a
  <2> QED BY <1>3, <1>4, <2>2, <2>3 DEF Contains
<1> HIDE DEF e
<1>7. /\ data' \in [Node -> Seq(Term)] /\ applied' \in [Node -> Nat]
      /\ data'[n] = Append(data[n], e) /\ applied'[n] = a
      /\ \A x \in Node \ {n} : data'[x] = data[x] /\ applied'[x] = applied[x]
  <2> Append(data[n], e) \in Seq(Term) BY <1>3, <1>5
  <2> QED BY <1>2, <1>3
<1>8. TypeOK'
  BY <1>1, <1>2, <1>7 DEF TypeOK
<1>9. Append(data[n], e) = SubSeq(chosen, 1, a)
  <2>1. data[n] = SubSeq(chosen, 1, applied[n])
    BY <1>1, <1>2 DEF QueueInv
  <2>2. SubSeq(chosen, 1, a) = SubSeq(chosen, 1, a - 1) \o <<chosen[a]>>
    <3>1. 1 \in 1..Len(chosen) /\ a \in 1..Len(chosen)
      BY <1>3, <1>4, <1>6
    <3> HIDE DEF a
    <3> QED BY <1>3, <3>1, SubSeqRecursiveSecond
  <2>3. a - 1 = applied[n]
    BY <1>3
  <2>4. Append(data[n], e) = data[n] \o <<e>>
    BY <1>3, <1>5, AppendIsConcat
  <2> HIDE DEF a
  <2> QED BY <1>6, <2>1, <2>2, <2>3, <2>4
<1>10. QueueInv'
  <2> SUFFICES ASSUME NEW x \in Node, status[x] = "up"
               PROVE  applied'[x] <= wal[x].committed /\ data'[x] = SubSeq(chosen, 1, applied'[x])
    BY <1>2 DEF QueueInv
  <2> HIDE DEF a
  <2>1. CASE x = n
    BY <1>4, <1>7, <1>9, <2>1
  <2>2. CASE x # n
    BY <1>1, <1>7, <2>2 DEF QueueInv
  <2> QED BY <2>1, <2>2
<1>11. Logs' = Logs /\ Votes' = Votes /\ Committed' = Committed
  BY <1>2 DEF Logs, Votes, Committed
<1>12. /\ ProtocolInv(Logs', Votes', leads', acked')
       /\ ChosenInv(Logs', Votes', Committed', chosen')
  <2> chosen' = chosen /\ leads' \subseteq leads /\ \A x \in leads' : acked'[x] = acked[x]
    BY <1>2
  <2> QED BY <1>8, <1>11, LocalStep
<1> QED BY <1>8, <1>10, <1>12 DEF ReplicationInv

LEMMA BuildAndPurgeIsSafe ==
    ASSUME ReplicationInv, NEW n \in Node, BuildAndPurge(n)
    PROVE  ReplicationInv'
<1>1. TypeOK /\ QueueInv
  BY DEF ReplicationInv
<1> DEFINE p == IF applied[n] > LogsToKeep THEN applied[n] - LogsToKeep ELSE 0
           u == IF p > wal[n].purged THEN Compacted(WithPurged(wal[n], p), p) ELSE wal[n]
<1>2. /\ snap' = [snap EXCEPT ![n] = applied[n]]
      /\ wal' = [wal EXCEPT ![n] = u]
      /\ UNCHANGED <<status, data, applied, leads, acked, chosen, stops>>
  BY DEF BuildAndPurge, PurgedUpTo
<1>3. /\ wal \in [Node -> Wal(Term)] /\ wal[n] \in Wal(Term) /\ applied[n] \in Nat
      /\ snap \in [Node -> Nat]
  BY <1>1 DEF TypeOK
<1>4. p \in Nat
  BY <1>3, ReplicationParameters
<1> HIDE DEF p
<1>5. /\ u \in Wal(Term) /\ u.log = wal[n].log /\ u.vote = wal[n].vote
      /\ u.committed = wal[n].committed
  BY <1>3, <1>4, PurgeWritten
<1> HIDE DEF u
<1>6. /\ wal' \in [Node -> Wal(Term)] /\ wal'[n] = u /\ \A x \in Node \ {n} : wal'[x] = wal[x]
      /\ snap' \in [Node -> Nat]
  BY <1>2, <1>3, <1>5
<1>7. TypeOK'
  BY <1>1, <1>2, <1>6 DEF TypeOK
<1>8. Logs' = Logs /\ Votes' = Votes /\ Committed' = Committed
  <2> \A x \in Node : /\ wal'[x].log = wal[x].log /\ wal'[x].vote = wal[x].vote
                      /\ wal'[x].committed = wal[x].committed
    BY <1>5, <1>6
  <2> QED BY DEF Logs, Votes, Committed
<1>9. /\ ProtocolInv(Logs', Votes', leads', acked')
      /\ ChosenInv(Logs', Votes', Committed', chosen')
  <2> chosen' = chosen /\ leads' \subseteq leads /\ \A x \in leads' : acked'[x] = acked[x]
    BY <1>2
  <2> QED BY <1>7, <1>8, LocalStep
<1>10. QueueInv'
  <2> Committed' \in [Node -> Nat] /\ \A x \in Node : Committed'[x] >= Committed[x]
    BY <1>1, <1>8, StateFacts
  <2> QED BY <1>1, <1>2, QueueIsKept
<1> QED BY <1>7, <1>9, <1>10 DEF ReplicationInv

LEMMA StopIsSafe ==
    ASSUME ReplicationInv, NEW n \in Node, Stop(n)
    PROVE  ReplicationInv'
<1>1. TypeOK /\ QueueInv
  BY DEF ReplicationInv
<1>2. /\ stops < MaxStops /\ stops' = stops + 1
      /\ status' = [status EXCEPT ![n] = "off"]
      /\ data' = [data EXCEPT ![n] = <<>>] /\ applied' = [applied EXCEPT ![n] = 0]
      /\ snap' = [snap EXCEPT ![n] = 0] /\ leads' = leads \ {n}
      /\ acked' = [acked EXCEPT ![n] = NoProgress]
      /\ UNCHANGED <<wal, chosen>>
  BY DEF Stop
<1>3. /\ status \in [Node -> {"off", "up", "failed"}] /\ data \in [Node -> Seq(Term)]
      /\ applied \in [Node -> Nat] /\ snap \in [Node -> Nat] /\ leads \subseteq Node
      /\ acked \in [Node -> [Node -> Nat]] /\ stops \in 0..MaxStops /\ MaxStops \in Nat
      /\ NoProgress \in [Node -> Nat]
  BY <1>1, ReplicationParameters DEF TypeOK, NoProgress
<1>4. TypeOK'
  <2>1. stops' \in 0..MaxStops
    BY <1>2, <1>3
  <2>2. /\ status' \in [Node -> {"off", "up", "failed"}] /\ data' \in [Node -> Seq(Term)]
        /\ applied' \in [Node -> Nat] /\ snap' \in [Node -> Nat] /\ leads' \subseteq Node
        /\ acked' \in [Node -> [Node -> Nat]]
    BY <1>2, <1>3
  <2> QED BY <1>1, <1>2, <2>1, <2>2 DEF TypeOK
<1>5. Logs' = Logs /\ Votes' = Votes /\ Committed' = Committed
  BY <1>2 DEF Logs, Votes, Committed
<1>6. /\ ProtocolInv(Logs', Votes', leads', acked')
      /\ ChosenInv(Logs', Votes', Committed', chosen')
  <2> chosen' = chosen /\ leads' \subseteq leads /\ \A x \in leads' : acked'[x] = acked[x]
    BY <1>2, <1>3
  <2> QED BY <1>4, <1>5, LocalStep
<1>7. QueueInv'
  <2> SUFFICES ASSUME NEW x \in Node, status'[x] = "up"
               PROVE  applied'[x] <= wal[x].committed /\ data'[x] = SubSeq(chosen, 1, applied'[x])
    BY <1>2 DEF QueueInv
  <2>1. x # n /\ status[x] = "up" /\ applied'[x] = applied[x] /\ data'[x] = data[x]
    BY <1>2, <1>3
  <2> QED BY <1>1, <2>1 DEF QueueInv
<1> QED BY <1>4, <1>6, <1>7 DEF ReplicationInv

(* The replay of `Raft::new` starts at entry 1 or there is none: then the  *)
(* queue it makes is what is committed.                                    *)
LEMMA StartIsSafe ==
    ASSUME ReplicationInv, NEW n \in Node, Start(n)
    PROVE  ReplicationInv'
<1>1. TypeOK /\ QueueInv /\ ChosenInv(Logs, Votes, Committed, chosen)
  BY DEF ReplicationInv
<1> DEFINE d == SubSeq(Log(n), wal[n].first, wal[n].committed)
           c == wal[n].committed
<1>2. /\ Readable(wal[n], 1, c)
      /\ status' = [status EXCEPT ![n] = "up"]
      /\ data' = [data EXCEPT ![n] = d]
      /\ applied' = [applied EXCEPT ![n] = c]
      /\ UNCHANGED <<wal, snap, leads, acked, chosen, stops>>
  BY DEF Start, StartupAccepted
<1>3. /\ wal[n] \in Wal(Term) /\ c \in Nat /\ Len(Log(n)) \in Nat /\ wal[n].first \in Nat \ {0}
      /\ Log(n) \in Seq(Term) /\ Log(n) \in Seq(Nat) /\ chosen \in Seq(Nat) /\ chosen \in Seq(Term)
      /\ Len(chosen) \in Nat
      /\ status \in [Node -> {"off", "up", "failed"}] /\ data \in [Node -> Seq(Term)]
      /\ applied \in [Node -> Nat]
  <2>1. /\ wal[n] \in Wal(Term) /\ chosen \in Seq(Term)
        /\ status \in [Node -> {"off", "up", "failed"}] /\ data \in [Node -> Seq(Term)]
        /\ applied \in [Node -> Nat]
    BY <1>1 DEF TypeOK
  <2>2. /\ Log(n) \in Seq(Term) /\ Log(n) \in Seq(Nat) /\ Len(Log(n)) \in Nat
        /\ wal[n].first \in Nat \ {0} /\ c \in Nat
    BY <2>1, WalFields DEF Log
  <2>3. chosen \in Seq(Nat) /\ Len(chosen) \in Nat
    BY <1>1, StateFacts
  <2> QED BY <2>1, <2>2, <2>3
<1>4. c <= Len(chosen) /\ Contains(Log(n), chosen, c)
  <2>1. Logs[n] = Log(n) /\ Committed[n] = c
    BY DEF Logs, Log, Committed
  <2> QED BY <1>1, <2>1 DEF ChosenInv
<1>5. d \in Seq(Term) /\ d = SubSeq(chosen, 1, c)
  <2>1. CASE c = 0
    <3>1. d = <<>> /\ SubSeq(chosen, 1, c) = <<>>
      <4>1. wal[n].first \in Int /\ c \in Int /\ c < wal[n].first /\ c < 1
        BY <1>3, <2>1
      <4> QED BY <4>1, SubSeqEmpty
    <3>2. <<>> \in Seq(Term)
      OBVIOUS
    <3> HIDE DEF d, c
    <3> QED BY <3>1, <3>2
  <2>2. CASE c # 0
    <3>1. wal[n].first = 1 /\ c <= Len(Log(n))
      <4>1. 1 <= c
        BY <1>3, <2>2
      <4>2. wal[n].first <= 1 /\ c <= Len(wal[n].log)
        BY <1>2, <4>1 DEF Readable
      <4>3. wal[n].first \in Nat \ {0}
        BY <1>3
      <4>4. wal[n].first = 1
        BY <4>2, <4>3
      <4>5. Log(n) = wal[n].log
        BY DEF Log
      <4> HIDE DEF c
      <4> QED BY <4>2, <4>4, <4>5
    <3>2. SubSeq(Log(n), 1, c) = SubSeq(chosen, 1, c)
      <4>1. \A i \in 1..c : Log(n)[i] = chosen[i]
        BY <1>4 DEF Contains
      <4> HIDE DEF c
      <4> QED BY <1>3, <1>4, <3>1, <4>1, ExtensionHasPrefix
    <3>3. SubSeq(Log(n), 1, c) \in Seq(Term)
      <4> HIDE DEF c
      <4>1. \A i \in 1..c : Log(n)[i] \in Term
        BY <1>3, <3>1
      <4> QED BY <1>3, <4>1, SubSeqProperties
    <3> QED BY <3>1, <3>2, <3>3
  <2> QED BY <2>1, <2>2
<1> HIDE DEF d, c
<1>6. /\ status' \in [Node -> {"off", "up", "failed"}] /\ data' \in [Node -> Seq(Term)]
      /\ applied' \in [Node -> Nat] /\ data'[n] = d /\ applied'[n] = c
      /\ \A x \in Node \ {n} :
           data'[x] = data[x] /\ applied'[x] = applied[x] /\ status'[x] = status[x]
  BY <1>2, <1>3, <1>5
<1>7. TypeOK'
  BY <1>1, <1>2, <1>6 DEF TypeOK
<1>8. Logs' = Logs /\ Votes' = Votes /\ Committed' = Committed
  BY <1>2 DEF Logs, Votes, Committed
<1>9. /\ ProtocolInv(Logs', Votes', leads', acked')
      /\ ChosenInv(Logs', Votes', Committed', chosen')
  <2> chosen' = chosen /\ leads' \subseteq leads /\ \A x \in leads' : acked'[x] = acked[x]
    BY <1>2
  <2> QED BY <1>7, <1>8, LocalStep
<1>10. QueueInv'
  <2> SUFFICES ASSUME NEW x \in Node, status'[x] = "up"
               PROVE  applied'[x] <= wal[x].committed /\ data'[x] = SubSeq(chosen, 1, applied'[x])
    BY <1>2 DEF QueueInv
  <2>1. CASE x = n
    <3> c <= wal[n].committed BY <1>3 DEF c
    <3> QED BY <1>5, <1>6, <2>1
  <2>2. CASE x # n
    BY <1>1, <1>6, <2>2 DEF QueueInv
  <2> QED BY <2>1, <2>2
<1> QED BY <1>7, <1>9, <1>10 DEF ReplicationInv

LEMMA StartFailsIsSafe ==
    ASSUME ReplicationInv, NEW n \in Node, StartFails(n)
    PROVE  ReplicationInv'
<1>1. TypeOK /\ QueueInv
  BY DEF ReplicationInv
<1>2. /\ status' = [status EXCEPT ![n] = "failed"]
      /\ UNCHANGED <<wal, data, applied, snap, leads, acked, chosen, stops>>
  BY DEF StartFails
<1>3. /\ status \in [Node -> {"off", "up", "failed"}]
  BY <1>1 DEF TypeOK
<1>4. TypeOK'
  BY <1>1, <1>2, <1>3 DEF TypeOK
<1>5. Logs' = Logs /\ Votes' = Votes /\ Committed' = Committed
  BY <1>2 DEF Logs, Votes, Committed
<1>6. /\ ProtocolInv(Logs', Votes', leads', acked')
      /\ ChosenInv(Logs', Votes', Committed', chosen')
  <2> chosen' = chosen /\ leads' \subseteq leads /\ \A x \in leads' : acked'[x] = acked[x]
    BY <1>2
  <2> QED BY <1>4, <1>5, LocalStep
<1>7. QueueInv'
  <2> SUFFICES ASSUME NEW x \in Node, status'[x] = "up"
               PROVE  applied[x] <= wal[x].committed /\ data[x] = SubSeq(chosen, 1, applied[x])
    BY <1>2 DEF QueueInv
  <2> status[x] = "up" BY <1>2, <1>3
  <2> QED BY <1>1 DEF QueueInv
<1> QED BY <1>4, <1>6, <1>7 DEF ReplicationInv

LEMMA StutterIsSafe ==
    ASSUME ReplicationInv, UNCHANGED vars
    PROVE  ReplicationInv'
<1>1. UNCHANGED <<wal, status, data, applied, snap, leads, acked, chosen, stops>>
  BY DEF vars
<1>2. TypeOK' /\ QueueInv'
  BY <1>1 DEF ReplicationInv, TypeOK, QueueInv
<1>3. Logs' = Logs /\ Votes' = Votes /\ Committed' = Committed
  BY <1>1 DEF Logs, Votes, Committed
<1>4. /\ ProtocolInv(Logs', Votes', leads', acked')
      /\ ChosenInv(Logs', Votes', Committed', chosen')
  BY <1>1, <1>3 DEF ReplicationInv
<1> QED BY <1>2, <1>4 DEF ReplicationInv

-----------------------------------------------------------------------------
(* The inductive invariant, for any number of brokers and of terms: the    *)
(* logs, the votes, the leaders' progress and the queues stay consistent   *)
(* under elections, replication, commits, purges and restarts.             *)
THEOREM ReplicationInvariant == Spec => []ReplicationInv
<1>1. ReplicationInv /\ [Next]_vars => ReplicationInv'
  <2> SUFFICES ASSUME ReplicationInv, [Next]_vars PROVE ReplicationInv'
    OBVIOUS
  <2>1. CASE Initialize
    BY <2>1, InitializeIsSafe
  <2>2. ASSUME NEW n \in Node, NEW Q \in SUBSET Node, Elect(n, Q) PROVE ReplicationInv'
    BY <2>2, ElectIsSafe
  <2>3. ASSUME NEW n \in Node, ClientWrite(n) PROVE ReplicationInv'
    BY <2>3, ClientWriteIsSafe
  <2>4. ASSUME NEW n \in Node, Apply(n) PROVE ReplicationInv'
    BY <2>4, ApplyIsSafe
  <2>5. ASSUME NEW n \in Node, BuildAndPurge(n) PROVE ReplicationInv'
    BY <2>5, BuildAndPurgeIsSafe
  <2>6. ASSUME NEW n \in Node, NEW m \in Node, AppendEntries(n, m) PROVE ReplicationInv'
    BY <2>6, AppendEntriesIsSafe
  <2>7. ASSUME NEW n \in Node, NEW m \in Node, Rejected(n, m) PROVE ReplicationInv'
    BY <2>7, RejectedIsSafe
  <2>8. ASSUME NEW n \in Node, NEW c \in 1..MaxIndex, Commit(n, c) PROVE ReplicationInv'
    BY <2>8, CommitIsSafe
  <2>9. ASSUME NEW n \in Node, Stop(n) PROVE ReplicationInv'
    BY <2>9, StopIsSafe
  <2>10. ASSUME NEW n \in Node, Start(n) PROVE ReplicationInv'
    BY <2>10, StartIsSafe
  <2>11. ASSUME NEW n \in Node, StartFails(n) PROVE ReplicationInv'
    BY <2>11, StartFailsIsSafe
  <2>12. CASE UNCHANGED vars
    BY <2>12, StutterIsSafe
  <2> QED
    BY <2>1, <2>2, <2>3, <2>4, <2>5, <2>6, <2>7, <2>8, <2>9, <2>10, <2>11, <2>12 DEF Next
<1> QED BY <1>1, InitiallyReplicated, PTL DEF Spec

(* Every value has its type, in particular the vote that a leader writes   *)
(* as the term of its entries.                                             *)
THEOREM GroupIsTyped == Spec => []TypeOK
<1>1. ReplicationInv => TypeOK
  BY DEF ReplicationInv
<1> QED BY <1>1, ReplicationInvariant, PTL

(* What a node holds as committed is what the group has committed: no      *)
(* election, no overwritten suffix and no restart loses or changes it.     *)
THEOREM CommittedEntriesAgree == Spec => []CommittedPrefixesAgree
<1>1. ReplicationInv => CommittedPrefixesAgree
  <2> SUFFICES ASSUME ReplicationInv, NEW n \in Node
               PROVE  /\ wal[n].committed <= Len(chosen)
                      /\ SubSeq(Log(n), 1, wal[n].committed) = SubSeq(chosen, 1, wal[n].committed)
    BY DEF CommittedPrefixesAgree
  <2>1. Logs[n] = Log(n) /\ Committed[n] = wal[n].committed
    BY DEF Logs, Log, Committed
  <2>2. wal[n].committed <= Len(chosen) /\ Contains(Log(n), chosen, wal[n].committed)
    BY <2>1 DEF ReplicationInv, ChosenInv
  <2>3. Log(n) \in Seq(Nat) /\ chosen \in Seq(Nat) /\ wal[n].committed \in Nat
    BY <2>1, StateFacts DEF ReplicationInv
  <2> QED BY <2>2, <2>3, ExtensionHasPrefix DEF Contains
<1> QED BY <1>1, ReplicationInvariant, PTL

(* The queue of a node that is up is a prefix of what the group has        *)
(* committed, whatever it has purged and however often it was restarted: a *)
(* node that cannot replay the whole log does not come up.                 *)
THEOREM QueuesAreWholePrefixes == Spec => []QueueIsWholePrefix
<1>1. ReplicationInv => QueueIsWholePrefix
  <2> SUFFICES ASSUME ReplicationInv, NEW n \in Node, status[n] = "up"
               PROVE  applied[n] <= Len(chosen) /\ data[n] = SubSeq(chosen, 1, applied[n])
    BY DEF QueueIsWholePrefix
  <2>1. TypeOK /\ QueueInv /\ ChosenInv(Logs, Votes, Committed, chosen)
    BY DEF ReplicationInv
  <2>2. applied[n] <= wal[n].committed /\ data[n] = SubSeq(chosen, 1, applied[n])
    BY <2>1 DEF QueueInv
  <2>3. Committed[n] = wal[n].committed
    BY DEF Committed
  <2>4. wal[n].committed <= Len(chosen)
    BY <2>1, <2>3 DEF ChosenInv
  <2>5. applied[n] \in Nat /\ wal[n].committed \in Nat /\ Len(chosen) \in Nat
    BY <2>1, <2>3, StateFacts DEF TypeOK
  <2> QED BY <2>2, <2>4, <2>5
<1> QED BY <1>1, ReplicationInvariant, PTL

(* There is one leader in a term.                                          *)
THEOREM LeaderIsUnique ==
    Spec => [](\A n, m \in leads : wal[n].vote = wal[m].vote => n = m)
<1>1. ReplicationInv => \A n, m \in leads : wal[n].vote = wal[m].vote => n = m
  <2> SUFFICES ASSUME ReplicationInv, NEW n \in leads, NEW m \in leads,
                      wal[n].vote = wal[m].vote
               PROVE  n = m
    OBVIOUS
  <2>1. n \in Node /\ m \in Node
    BY DEF ReplicationInv, TypeOK
  <2>2. Votes[n] = Votes[m]
    BY <2>1 DEF Votes
  <2> QED BY <2>2 DEF ReplicationInv, ProtocolInv, OneLeaderPerTerm
<1> QED BY <1>1, ReplicationInvariant, PTL
=============================================================================
