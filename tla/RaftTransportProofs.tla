------------------------ MODULE RaftTransportProofs -------------------------
(***************************************************************************)
(* Theorems about RaftTransport, for every set of nodes, every list of     *)
(* peers and any number of calls and crashes.                              *)
(***************************************************************************)
EXTENDS RaftTransport, TLAPS, SequenceTheorems

(* The one-line choices of caller and callee are read as what they are.    *)
USE DEF TagOf, group_of, AfterParsing, to_status, Waiting

(* Every envelope carries the tag of the group that made the call.         *)
Tagged == \A i \in DOMAIN calls : calls[i].tag = calls[i].group

(* The Raft instance an RPC is meant for.                                  *)
MeantFor(i) == <<calls[i].to, calls[i].group>>

Handled(i) == \E k \in DOMAIN handled[MeantFor(i)] : handled[MeantFor(i)][k] = i

(* A handler that awaits its instance will send the method's own response; *)
(* one that has returned sent that or a status, and that only once the     *)
(* request was handled.                                                    *)
RepliesAreBacked ==
    \A i \in DOMAIN calls :
        /\ server[i] = "raft" => reply[i] = MethodOf(calls[i].req)
        /\ server[i] = "replied" => \/ reply[i] = "status"
                                    \/ reply[i] = MethodOf(calls[i].req) /\ Handled(i)
        /\ outcome[i] = "ok" => server[i] = "replied" /\ Handled(i)

(* What an instance has handled, its handler has returned from.            *)
HandledHasReturned ==
    \A r \in Instance : \A k \in DOMAIN handled[r] :
        /\ handled[r][k] \in DOMAIN calls
        /\ server[handled[r][k]] = "replied"

(* A connection makes a call only when the one before it has ended.        *)
OneAtATime ==
    \A i, j \in DOMAIN calls :
        i < j /\ SameConnection(calls[i], calls[j]) => outcome[i] # "waiting"

(* A request handled after a later one of its connection was given up.     *)
LateOnesWereGivenUp ==
    \A r \in Instance : \A j, k \in DOMAIN handled[r] :
        LET a == handled[r][j]
            b == handled[r][k]
        IN  (j < k /\ b < a /\ SameConnection(calls[a], calls[b])) => outcome[b] # "ok"

Routing == TypeOK /\ Tagged /\ RepliesAreBacked /\ HandledHasReturned /\ GroupsStayApart

TransportInv ==
    /\ Routing
    /\ ResponsesAreGenuine
    /\ OneAtATime /\ LateOnesWereGivenUp
    /\ AnswersAreReadable

-----------------------------------------------------------------------------

(* A function on the positions of a sequence grows as the sequence does.   *)
LEMMA AppendToPositions ==
    ASSUME NEW N \in Nat, NEW S, NEW f \in [1..N -> S], NEW x \in S
    PROVE  /\ Append(f, x) \in [1..(N + 1) -> S]
           /\ \A i \in 1..N : Append(f, x)[i] = f[i]
           /\ Append(f, x)[N + 1] = x
<1>1. f \in Seq(S) /\ Len(f) = N
  BY SeqDef
<1>2. /\ Append(f, x) \in Seq(S) /\ Len(Append(f, x)) = N + 1
      /\ \A i \in 1..N : Append(f, x)[i] = f[i]
      /\ Append(f, x)[N + 1] = x
  BY <1>1, AppendProperties
<1> QED BY <1>2, LenProperties

(* The positions of the calls, and what is where.                          *)
LEMMA Positions ==
    ASSUME TypeOK
    PROVE  /\ Len(calls) \in Nat /\ DOMAIN calls = 1..Len(calls)
           /\ \A i \in DOMAIN calls :
                /\ calls[i] \in Call /\ i \in Nat /\ i \in CallId
                /\ MeantFor(i) \in Instance
           /\ \A r \in Instance : /\ Len(handled[r]) \in Nat
                                  /\ DOMAIN handled[r] = 1..Len(handled[r])
<1>1. Len(calls) \in Nat /\ DOMAIN calls = 1..Len(calls) /\ MaxCalls \in Nat
  BY LenProperties, TransportParameters DEF TypeOK
<1>2. ASSUME NEW i \in DOMAIN calls
      PROVE  /\ calls[i] \in Call /\ i \in Nat /\ i \in CallId
             /\ MeantFor(i) \in Instance
  <2>1. calls[i] \in Call
    BY <1>1, ElementOfSeq DEF TypeOK
  <2>2. i \in Nat /\ i \in CallId
    <3>1. Len(calls) <= MaxCalls
      BY DEF TypeOK
    <3> QED BY <1>1, <3>1 DEF CallId
  <2>3. calls[i].to \in Node /\ calls[i].group \in Group
    BY <2>1 DEF Call
  <2> QED BY <2>1, <2>2, <2>3 DEF MeantFor, Instance
<1>3. ASSUME NEW r \in Instance
      PROVE  Len(handled[r]) \in Nat /\ DOMAIN handled[r] = 1..Len(handled[r])
  BY LenProperties DEF TypeOK
<1> QED BY <1>1, <1>2, <1>3

(* A call adds one position to each of the four sequences.                 *)
LEMMA SendAddsOne ==
    ASSUME TypeOK, NEW n \in Node, NEW m \in Node, NEW g \in Group, NEW req \in Request,
           SendEnvelope(n, m, g, req)
    PROVE  LET N == Len(calls) + 1
               c == [from |-> n, to |-> m, group |-> g, tag |-> g, req |-> req]
           IN  /\ calls' \in Seq(Call) /\ Len(calls') = N /\ N <= MaxCalls
               /\ DOMAIN calls' = 1..N /\ DOMAIN calls = 1..(N - 1) /\ N \in Nat
               /\ server' \in [DOMAIN calls' -> ServerState]
               /\ outcome' \in [DOMAIN calls' -> Outcome]
               /\ reply' \in [DOMAIN calls' ->
                                {"", "status", "append_entries", "install_snapshot", "vote"}]
               /\ \A i \in DOMAIN calls :
                    /\ calls'[i] = calls[i] /\ server'[i] = server[i]
                    /\ reply'[i] = reply[i] /\ outcome'[i] = outcome[i]
               /\ calls'[N] = c /\ server'[N] = "wire" /\ outcome'[N] = "waiting"
               /\ ~Busy(c)
               /\ UNCHANGED <<handled, dead, crashes>>
<1> DEFINE N == Len(calls) + 1
           c == [from |-> n, to |-> m, group |-> g, tag |-> g, req |-> req]
<1>1. /\ Len(calls) \in Nat /\ DOMAIN calls = 1..Len(calls) /\ MaxCalls \in Nat
  BY Positions, TransportParameters
<1>2. c \in Call
  BY DEF Call
<1>3. /\ calls' = Append(calls, c) /\ Len(calls) < MaxCalls /\ ~Busy(c)
      /\ server' = Append(server, "wire")
      /\ reply' = Append(reply, "")
      /\ outcome' = Append(outcome, "waiting")
      /\ UNCHANGED <<handled, dead, crashes>>
  BY DEF SendEnvelope
<1> HIDE DEF c
<1>4. /\ calls' \in Seq(Call) /\ Len(calls') = N /\ calls'[N] = c
      /\ \A i \in 1..Len(calls) : calls'[i] = calls[i]
  <2>1. calls \in Seq(Call)
    BY DEF TypeOK
  <2> QED BY <1>2, <1>3, <2>1, AppendProperties
<1>5. DOMAIN calls' = 1..N
  BY <1>4, LenProperties
<1>l. Len(calls) \in Nat
  BY <1>1
<1>6. /\ server' \in [1..N -> ServerState] /\ server'[N] = "wire"
      /\ \A i \in 1..Len(calls) : server'[i] = server[i]
  <2>1. server \in [1..Len(calls) -> ServerState] /\ "wire" \in ServerState
    BY <1>1 DEF TypeOK, ServerState
  <2>2. Append(server, "wire") \in [1..N -> ServerState]
    BY <1>l, <2>1, AppendToPositions
  <2>3. ASSUME NEW i \in 1..Len(calls) PROVE Append(server, "wire")[i] = server[i]
    BY <1>l, <2>1
  <2>4. Append(server, "wire")[N] = "wire"
    BY <1>l, <2>1
  <2> QED BY <1>3, <2>2, <2>3, <2>4
<1>7. /\ outcome' \in [1..N -> Outcome] /\ outcome'[N] = "waiting"
      /\ \A i \in 1..Len(calls) : outcome'[i] = outcome[i]
  <2>1. outcome \in [1..Len(calls) -> Outcome] /\ "waiting" \in Outcome
    BY <1>1 DEF TypeOK, Outcome
  <2>2. Append(outcome, "waiting") \in [1..N -> Outcome]
    BY <1>l, <2>1, AppendToPositions
  <2>3. ASSUME NEW i \in 1..Len(calls) PROVE Append(outcome, "waiting")[i] = outcome[i]
    BY <1>l, <2>1
  <2>4. Append(outcome, "waiting")[N] = "waiting"
    BY <1>l, <2>1
  <2> QED BY <1>3, <2>2, <2>3, <2>4
<1>8. /\ reply' \in [1..N -> {"", "status", "append_entries", "install_snapshot", "vote"}]
      /\ \A i \in 1..Len(calls) : reply'[i] = reply[i]
  <2> DEFINE R == {"", "status", "append_entries", "install_snapshot", "vote"}
             none == ""
  <2>1. reply \in [1..Len(calls) -> R] /\ none \in R
    BY <1>1 DEF TypeOK
  <2>2. reply' = Append(reply, none)
    BY <1>3
  <2> HIDE DEF R, none
  <2>3. Append(reply, none) \in [1..N -> R]
    BY <1>l, <2>1, AppendToPositions
  <2>4. ASSUME NEW i \in 1..Len(calls) PROVE Append(reply, none)[i] = reply[i]
    BY <1>l, <2>1, AppendToPositions
  <2> QED BY <2>2, <2>3, <2>4 DEF R
<1>9. N \in Nat /\ N <= MaxCalls /\ DOMAIN calls = 1..(N - 1)
  <2>1. Len(calls) < MaxCalls
    BY <1>3
  <2>2. N \in Nat /\ N <= MaxCalls
    BY <1>1, <2>1
  <2>3. N - 1 = Len(calls)
    BY <1>1
  <2> QED BY <1>1, <2>2, <2>3
<1> QED BY <1>1, <1>3, <1>4, <1>5, <1>6, <1>7, <1>8, <1>9 DEF c

-----------------------------------------------------------------------------

(* Nothing has been called and nobody has panicked.                        *)
LEMMA InitTransport == Init => TransportInv
<1> SUFFICES ASSUME Init PROVE TransportInv
  OBVIOUS
<1>1. DOMAIN calls = {} /\ Len(calls) = 0 /\ MaxCalls \in Nat
  BY TransportParameters DEF Init
<1>2. \A r \in Instance : DOMAIN handled[r] = {}
  BY DEF Init
<1>3. TypeOK
  <2>1. calls \in Seq(Call) /\ Len(calls) <= MaxCalls
    BY <1>1 DEF Init
  <2>2. handled \in [Instance -> Seq(CallId)]
    BY DEF Init
  <2>3. /\ server \in [{} -> ServerState] /\ outcome \in [{} -> Outcome]
        /\ reply \in [{} -> {"", "status", "append_entries", "install_snapshot", "vote"}]
    BY DEF Init
  <2> QED BY <1>1, <2>1, <2>2, <2>3 DEF Init, TypeOK
<1>4. Tagged /\ RepliesAreBacked /\ OneAtATime
  BY <1>1 DEF Tagged, RepliesAreBacked, OneAtATime
<1>5. HandledHasReturned /\ GroupsStayApart /\ LateOnesWereGivenUp
  BY <1>2 DEF HandledHasReturned, GroupsStayApart, LateOnesWereGivenUp
<1>6. ResponsesAreGenuine
  BY <1>1, <1>2 DEF ResponsesAreGenuine
<1>7. AnswersAreReadable
  BY <1>1 DEF Init, AnswersAreReadable
<1> QED BY <1>3, <1>4, <1>5, <1>6, <1>7 DEF TransportInv, Routing

(* A call is made on a connection that has none waiting, with the tag of   *)
(* its group; what was handled stays where it is.                          *)
LEMMA SendKeepsTransport ==
    ASSUME TransportInv, NEW n \in Node, NEW m \in Node, NEW g \in Group, NEW req \in Request,
           SendEnvelope(n, m, g, req)
    PROVE  TransportInv'
<1> DEFINE N == Len(calls) + 1
           c == [from |-> n, to |-> m, group |-> g, tag |-> g, req |-> req]
<1> USE DEF TransportInv, Routing
<1>1. /\ calls' \in Seq(Call) /\ Len(calls') = N /\ N <= MaxCalls
      /\ DOMAIN calls' = 1..N /\ DOMAIN calls = 1..(N - 1) /\ N \in Nat
      /\ server' \in [DOMAIN calls' -> ServerState]
      /\ outcome' \in [DOMAIN calls' -> Outcome]
      /\ reply' \in [DOMAIN calls' ->
                        {"", "status", "append_entries", "install_snapshot", "vote"}]
      /\ \A i \in DOMAIN calls :
            /\ calls'[i] = calls[i] /\ server'[i] = server[i]
            /\ reply'[i] = reply[i] /\ outcome'[i] = outcome[i]
      /\ calls'[N] = c /\ server'[N] = "wire" /\ outcome'[N] = "waiting"
      /\ ~Busy(c)
      /\ UNCHANGED <<handled, dead, crashes>>
  BY SendAddsOne
<1> HIDE DEF N, c
<1>a. DOMAIN calls' = 1..N /\ DOMAIN calls = 1..(N - 1) /\ N \in Nat
  BY <1>1
<1>b. /\ \A i \in DOMAIN calls :
            /\ calls'[i] = calls[i] /\ server'[i] = server[i]
            /\ reply'[i] = reply[i] /\ outcome'[i] = outcome[i]
      /\ calls'[N] = c /\ server'[N] = "wire" /\ outcome'[N] = "waiting"
      /\ handled' = handled
  BY <1>1
<1>2. \A i \in DOMAIN calls' : i \in DOMAIN calls \/ i = N
  BY <1>a
<1>3. \A i \in DOMAIN calls : i \in DOMAIN calls' /\ i \in Nat /\ i < N
  BY <1>a
<1>4. TypeOK'
  BY <1>1 DEF TypeOK
<1>5. Tagged'
  BY <1>b, <1>2 DEF Tagged, c
<1>6. \A i \in DOMAIN calls : (MeantFor(i))' = MeantFor(i) /\ (Handled(i))' = Handled(i)
  BY <1>1 DEF MeantFor, Handled
<1>7. RepliesAreBacked'
  BY <1>1, <1>2, <1>6 DEF RepliesAreBacked
<1>8. HandledHasReturned'
  BY <1>1, <1>3 DEF HandledHasReturned
<1>9. GroupsStayApart' /\ LateOnesWereGivenUp'
  BY <1>b DEF GroupsStayApart, LateOnesWereGivenUp, HandledHasReturned
<1>10. ResponsesAreGenuine'
  BY <1>b, <1>2 DEF ResponsesAreGenuine
<1>11. OneAtATime'
  <2> SUFFICES ASSUME NEW i \in DOMAIN calls', NEW j \in DOMAIN calls',
                      i < j, SameConnection(calls'[i], calls'[j])
               PROVE  outcome'[i] # "waiting"
    BY DEF OneAtATime
  <2>1. i \in DOMAIN calls
    <3>1. j <= N /\ j \in Nat /\ i \in Nat /\ N \in Nat
      BY <1>a
    <3> QED BY <1>2, <3>1
  <2>2. CASE j \in DOMAIN calls
    BY <1>1, <2>1, <2>2 DEF OneAtATime
  <2>3. CASE j = N
    BY <1>1, <2>1, <2>3 DEF Busy
  <2> QED BY <1>2, <2>2, <2>3
<1>12. AnswersAreReadable'
  BY <1>1, <1>2 DEF AnswersAreReadable
<1> QED BY <1>4, <1>5, <1>7, <1>8, <1>9, <1>10, <1>11, <1>12

(* "status" is the response of no method.                                  *)
LEMMA MethodsAreNoStatus ==
    \A req \in Request : MethodOf(req) \in {"append_entries", "install_snapshot", "vote"}
  BY DEF Request, MethodOf

(* A call ends, and successfully only with its method's own response.      *)
LEMMA EndKeepsTransport ==
    ASSUME TransportInv, NEW i \in DOMAIN calls, NEW how \in Outcome, Ends(i, how),
           how \notin {"waiting", "panic"},
           how = "ok" => server[i] = "replied" /\ reply[i] = MethodOf(calls[i].req)
    PROVE  TransportInv'
<1> USE DEF TransportInv, Routing
<1>1. /\ outcome[i] = "waiting" /\ outcome' = [outcome EXCEPT ![i] = how]
      /\ UNCHANGED <<calls, server, reply, handled, dead, crashes>>
  BY DEF Ends
<1>2. outcome' \in [DOMAIN calls -> Outcome] /\ outcome'[i] = how
  BY <1>1 DEF TypeOK
<1>3. \A j \in DOMAIN calls : j # i => outcome'[j] = outcome[j]
  BY <1>1 DEF TypeOK
<1>4. TypeOK'
  BY <1>1, <1>2 DEF TypeOK
<1>5. Tagged' /\ HandledHasReturned' /\ GroupsStayApart'
  BY <1>1 DEF Tagged, HandledHasReturned, GroupsStayApart
<1>6. \A j : (Handled(j))' = Handled(j)
  BY <1>1 DEF Handled, MeantFor
<1>7. RepliesAreBacked'
  <2>1. how = "ok" => Handled(i)
    <3>1. calls[i].req \in Request
      BY Positions DEF Call
    <3> QED BY <3>1, MethodsAreNoStatus DEF RepliesAreBacked
  <2> QED BY <1>1, <1>2, <1>3, <1>6, <2>1 DEF RepliesAreBacked
<1>8. ResponsesAreGenuine'
  BY <1>1, <1>7 DEF ResponsesAreGenuine, RepliesAreBacked, Handled, MeantFor
<1>9. OneAtATime'
  BY <1>1, <1>2, <1>3 DEF OneAtATime
<1>10. LateOnesWereGivenUp'
  <2> SUFFICES ASSUME NEW r \in Instance, NEW j \in DOMAIN handled[r], NEW k \in DOMAIN handled[r],
                      j < k, handled[r][k] < handled[r][j],
                      SameConnection(calls[handled[r][j]], calls[handled[r][k]])
               PROVE  outcome'[handled[r][k]] # "ok"
    BY <1>1 DEF LateOnesWereGivenUp
  <2>1. handled[r][j] \in DOMAIN calls /\ handled[r][k] \in DOMAIN calls
    BY DEF HandledHasReturned
  <2>2. outcome[handled[r][k]] # "waiting"
    BY <2>1 DEF OneAtATime, SameConnection
  <2>3. handled[r][k] # i /\ outcome[handled[r][k]] # "ok"
    BY <1>1, <2>2 DEF LateOnesWereGivenUp
  <2> QED BY <1>3, <2>1, <2>3
<1>11. AnswersAreReadable'
  BY <1>1, <1>2, <1>3 DEF AnswersAreReadable
<1> QED BY <1>4, <1>5, <1>7, <1>8, <1>9, <1>10, <1>11

(* Handlers go on without handing anything to their instances: they wait   *)
(* with the response they will send, return a status, or die; and calls    *)
(* are given up.                                                           *)
LEMMA ServerKeepsTransport ==
    ASSUME TransportInv, UNCHANGED <<calls, handled>>,
           server' \in [DOMAIN calls -> ServerState],
           reply' \in [DOMAIN calls ->
                          {"", "status", "append_entries", "install_snapshot", "vote"}],
           outcome' \in [DOMAIN calls -> Outcome],
           \A i \in DOMAIN calls :
                \/ server'[i] = server[i] /\ reply'[i] = reply[i]
                \/ /\ server[i] \in {"wire", "raft"}
                   /\ \/ server'[i] = "gone"
                      \/ server'[i] = "raft" /\ reply'[i] = MethodOf(calls[i].req)
                      \/ server'[i] = "replied" /\ reply'[i] = "status",
           \A i \in DOMAIN calls : outcome'[i] \in {outcome[i], "abandoned"},
           dead' \subseteq Instance, crashes' \in Nat
    PROVE  TransportInv'
<1> USE DEF TransportInv, Routing
<1>1. TypeOK'
  BY DEF TypeOK
<1>2. Tagged' /\ GroupsStayApart'
  BY DEF Tagged, GroupsStayApart
<1>3. AnswersAreReadable'
  BY DEF AnswersAreReadable
<1>4. HandledHasReturned'
  BY DEF HandledHasReturned
<1>5. \A j : (Handled(j))' = Handled(j)
  BY DEF Handled, MeantFor
<1>6. RepliesAreBacked'
  BY <1>5 DEF RepliesAreBacked
<1>7. ResponsesAreGenuine'
  <2>1. \A r \in Instance : \A j, k \in DOMAIN handled'[r] :
            handled'[r][j] = handled'[r][k] => j = k
    BY DEF ResponsesAreGenuine
  <2>2. ASSUME NEW i \in DOMAIN calls', outcome'[i] = "ok" PROVE (Handled(i))'
    <3>1. i \in DOMAIN calls /\ outcome[i] = "ok"
      BY <2>2
    <3>2. Handled(i)
      BY <3>1 DEF ResponsesAreGenuine, Handled, MeantFor
    <3> QED BY <1>5, <3>2
  <2> QED BY <2>1, <2>2 DEF ResponsesAreGenuine, Handled, MeantFor
<1>8. OneAtATime'
  BY DEF OneAtATime
<1>9. LateOnesWereGivenUp'
  <2>1. \A r \in Instance : \A k \in DOMAIN handled[r] :
            outcome'[handled[r][k]] = "ok" => outcome[handled[r][k]] = "ok"
    BY DEF HandledHasReturned
  <2> SUFFICES ASSUME NEW r \in Instance, NEW j \in DOMAIN handled[r], NEW k \in DOMAIN handled[r],
                      j < k, handled[r][k] < handled[r][j],
                      SameConnection(calls[handled[r][j]], calls[handled[r][k]])
               PROVE  outcome'[handled[r][k]] # "ok"
    BY DEF LateOnesWereGivenUp
  <2>2. outcome[handled[r][k]] # "ok"
    BY DEF LateOnesWereGivenUp
  <2> QED BY <2>1, <2>2
<1> QED BY <1>1, <1>2, <1>3, <1>4, <1>6, <1>7, <1>8, <1>9

(* An instance handles a request, for the first time: the request comes    *)
(* from its own group, and one that is overtaken had been given up.        *)
LEMMA HandlingKeepsTransport ==
    ASSUME TransportInv, NEW i \in DOMAIN calls, RaftHandles(i)
    PROVE  TransportInv'
<1> USE DEF TransportInv, Routing
<1> DEFINE r == MeantFor(i)
           L == Len(handled[r])
<1>1. /\ Len(calls) \in Nat /\ DOMAIN calls = 1..Len(calls)
      /\ calls[i] \in Call /\ i \in Nat /\ i \in CallId /\ r \in Instance
      /\ L \in Nat /\ DOMAIN handled[r] = 1..L
  BY Positions
<1>2. Target(i) = r
  BY <1>1 DEF Target, MeantFor, Tagged, Call
<1>3. /\ server[i] = "raft" /\ server' = [server EXCEPT ![i] = "replied"]
      /\ handled' = [handled EXCEPT ![r] = Append(@, i)]
      /\ UNCHANGED <<calls, reply, outcome, dead, crashes>>
  BY <1>2 DEF RaftHandles
<1> HIDE DEF r
<1>4. /\ Append(handled[r], i) \in Seq(CallId)
      /\ Len(Append(handled[r], i)) = L + 1
      /\ \A k \in 1..L : Append(handled[r], i)[k] = handled[r][k]
      /\ Append(handled[r], i)[L + 1] = i
  <2>1. handled[r] \in Seq(CallId)
    BY <1>1 DEF TypeOK
  <2> QED BY <1>1, <2>1, AppendProperties
<1>5. handled' \in [Instance -> Seq(CallId)] /\ handled'[r] = Append(handled[r], i)
  BY <1>1, <1>3, <1>4 DEF TypeOK
<1>6. \A q \in Instance : q # r => handled'[q] = handled[q]
  BY <1>3 DEF TypeOK
<1>7. DOMAIN handled'[r] = 1..(L + 1)
  BY <1>1, <1>4, <1>5, LenProperties
<1>8. \A k \in DOMAIN handled'[r] :
            \/ k \in DOMAIN handled[r] /\ handled'[r][k] = handled[r][k] /\ k < L + 1
            \/ k = L + 1 /\ handled'[r][k] = i
  BY <1>1, <1>4, <1>5, <1>7
<1>9. server' \in [DOMAIN calls -> ServerState] /\ server'[i] = "replied"
  BY <1>3 DEF TypeOK, ServerState
<1>10. \A j \in DOMAIN calls : j # i => server'[j] = server[j]
  BY <1>3 DEF TypeOK
<1>11. TypeOK'
  BY <1>3, <1>5, <1>9 DEF TypeOK
<1>12. Tagged' /\ OneAtATime' /\ AnswersAreReadable'
  BY <1>3 DEF Tagged, OneAtATime, AnswersAreReadable
<1>13. HandledHasReturned'
  BY <1>3, <1>6, <1>8, <1>9, <1>10 DEF HandledHasReturned
<1>14. GroupsStayApart'
  BY <1>3, <1>6, <1>8 DEF GroupsStayApart, MeantFor, r
<1>15. ASSUME NEW j \in DOMAIN calls, Handled(j) PROVE (Handled(j))'
  <2>1. MeantFor(j) \in Instance /\ (MeantFor(j))' = MeantFor(j)
    BY <1>3, Positions DEF MeantFor
  <2>2. PICK k \in DOMAIN handled[MeantFor(j)] : handled[MeantFor(j)][k] = j
    BY <1>15 DEF Handled
  <2>3. k \in DOMAIN handled'[MeantFor(j)] /\ handled'[MeantFor(j)][k] = j
    <3>1. CASE MeantFor(j) = r
      <4>1. k \in 1..L /\ handled[r][k] = j
        BY <1>1, <2>2, <3>1
      <4> QED BY <1>1, <1>4, <1>5, <1>7, <3>1, <4>1
    <3>2. CASE MeantFor(j) # r
      BY <1>6, <2>1, <2>2, <3>2
    <3> QED BY <3>1, <3>2
  <2> QED BY <2>1, <2>3 DEF Handled
<1>16. (Handled(i))'
  <2>1. (MeantFor(i))' = r
    BY <1>3 DEF MeantFor, r
  <2>2. L + 1 \in DOMAIN handled'[r] /\ handled'[r][L + 1] = i
    BY <1>1, <1>4, <1>5, <1>7
  <2> QED BY <2>1, <2>2 DEF Handled
<1>17. RepliesAreBacked'
  BY <1>3, <1>9, <1>10, <1>15, <1>16 DEF RepliesAreBacked
<1>18. \A q \in Instance : \A k \in DOMAIN handled[q] : handled[q][k] # i
  BY <1>3 DEF HandledHasReturned
<1>19. ResponsesAreGenuine'
  <2>1. ASSUME NEW q \in Instance, NEW j \in DOMAIN handled'[q], NEW k \in DOMAIN handled'[q],
               handled'[q][j] = handled'[q][k]
        PROVE  j = k
    BY <1>1, <1>6, <1>8, <1>18, <2>1 DEF ResponsesAreGenuine
  <2> QED BY <1>3, <1>17, <2>1 DEF ResponsesAreGenuine, RepliesAreBacked, Handled, MeantFor
<1>20. LateOnesWereGivenUp'
  <2> SUFFICES ASSUME NEW q \in Instance, NEW j \in DOMAIN handled'[q], NEW k \in DOMAIN handled'[q],
                      j < k, handled'[q][k] < handled'[q][j],
                      SameConnection(calls[handled'[q][j]], calls[handled'[q][k]])
               PROVE  outcome[handled'[q][k]] # "ok"
    BY <1>3 DEF LateOnesWereGivenUp
  <2>1. CASE q # r
    BY <1>6, <2>1 DEF LateOnesWereGivenUp
  <2>2. CASE q = r /\ k \in DOMAIN handled[r]
    <3>1. j \in DOMAIN handled[r] /\ handled'[r][j] = handled[r][j] /\ handled'[r][k] = handled[r][k]
      BY <1>1, <1>4, <1>5, <1>7, <2>2
    <3> QED BY <1>1, <2>2, <3>1 DEF LateOnesWereGivenUp
  <2>3. CASE q = r /\ k = L + 1
    BY <1>3, <1>8, <2>3 DEF RepliesAreBacked
  <2> QED BY <1>8, <2>1, <2>2, <2>3
<1> QED BY <1>11, <1>12, <1>13, <1>14, <1>17, <1>19, <1>20

(* Every step of callers, callees and the environment.                     *)
LEMMA NextTransport == TransportInv /\ [Next]_vars => TransportInv'
<1> SUFFICES ASSUME TransportInv, [Next]_vars PROVE TransportInv'
  OBVIOUS
<1> USE DEF TransportInv, Routing
<1>a. /\ Len(calls) \in Nat /\ DOMAIN calls = 1..Len(calls)
      /\ \A i \in DOMAIN calls : calls[i] \in Call /\ i \in Nat /\ i \in CallId
  BY Positions
<1>1. ASSUME NEW n \in Node, NEW m \in Node, NEW g \in Group,
             AppendEntries(n, m, g) \/ Vote(n, m, g) \/ InstallSnapshot(n, m, g)
      PROVE  TransportInv'
  <2>1. PICK req \in Request : SendEnvelope(n, m, g, req)
    BY <1>1 DEF AppendEntries, Vote, InstallSnapshot, Request
  <2> QED BY <2>1, SendKeepsTransport
<1>2. ASSUME NEW n \in Node, NEW m \in Node, NEW g \in Group, NewClientPanics(n, m, g)
      PROVE  TransportInv'
  <2>1. /\ dead' = dead \cup {<<n, g>>}
        /\ UNCHANGED <<calls, server, reply, outcome, handled, crashes>>
    BY <1>2 DEF NewClientPanics
  <2>2. dead' \subseteq Instance
    <3>1. <<n, g>> \in Instance
      BY DEF Instance
    <3> QED BY <2>1, <3>1 DEF TypeOK
  <2>3. /\ server \in [DOMAIN calls -> ServerState] /\ outcome \in [DOMAIN calls -> Outcome]
        /\ reply \in [DOMAIN calls ->
                         {"", "status", "append_entries", "install_snapshot", "vote"}]
        /\ crashes \in Nat
    BY DEF TypeOK
  <2> QED BY <2>1, <2>2, <2>3, ServerKeepsTransport
<1>3. ASSUME NEW i \in DOMAIN calls, Answered(i) PROVE TransportInv'
  <2> DEFINE how == CASE reply[i] = "status"               -> "error"
                      [] reply[i] = MethodOf(calls[i].req) -> "ok"
                      [] OTHER                             -> "panic"
  <2>1. server[i] = "replied" /\ Ends(i, how)
    BY <1>3 DEF Answered
  <2>2. reply[i] = "status" \/ reply[i] = MethodOf(calls[i].req)
    BY <2>1 DEF RepliesAreBacked
  <2>3. MethodOf(calls[i].req) # "status"
    BY <1>a, MethodsAreNoStatus DEF Call
  <2>4. how \in {"error", "ok"} /\ (how = "ok" => reply[i] = MethodOf(calls[i].req))
    BY <2>2, <2>3
  <2> HIDE DEF how
  <2> QED BY <2>1, <2>4, EndKeepsTransport DEF Outcome
<1>4. ASSUME NEW i \in DOMAIN calls, ConnectionBreaks(i) \/ TimesOut(i) PROVE TransportInv'
  BY <1>4, EndKeepsTransport DEF ConnectionBreaks, TimesOut, Outcome
<1>5. ASSUME NEW i \in DOMAIN calls,
             ServeAppendEntries(i) \/ ServeVote(i) \/ ServeInstallSnapshot(i)
      PROVE  TransportInv'
  <2>1. Dispatch(i)
    BY <1>5 DEF ServeAppendEntries, ServeVote, ServeInstallSnapshot
  <2>2. MethodOf(calls[i].req) \in {"append_entries", "install_snapshot", "vote"}
    BY <1>a, MethodsAreNoStatus DEF Call
  <2>3. /\ server' \in [DOMAIN calls -> ServerState]
        /\ reply' \in [DOMAIN calls ->
                          {"", "status", "append_entries", "install_snapshot", "vote"}]
        /\ UNCHANGED <<calls, outcome, handled, dead, crashes>>
        /\ \A j \in DOMAIN calls : j # i => server'[j] = server[j] /\ reply'[j] = reply[j]
        /\ server[i] = "wire"
        /\ \/ server'[i] = "raft" /\ reply'[i] = MethodOf(calls[i].req)
           \/ server'[i] = "replied" /\ reply'[i] = "status"
    BY <2>1, <2>2 DEF Dispatch, TypeOK, ServerState
  <2>4. outcome \in [DOMAIN calls -> Outcome] /\ dead \subseteq Instance /\ crashes \in Nat
    BY DEF TypeOK
  <2> QED BY <2>3, <2>4, ServerKeepsTransport
<1>6. ASSUME NEW i \in DOMAIN calls, RaftHandles(i) PROVE TransportInv'
  BY <1>6, HandlingKeepsTransport
<1>7. ASSUME NEW i \in DOMAIN calls, RaftFails(i) PROVE TransportInv'
  <2>1. /\ server' \in [DOMAIN calls -> ServerState]
        /\ reply' \in [DOMAIN calls ->
                          {"", "status", "append_entries", "install_snapshot", "vote"}]
        /\ UNCHANGED <<calls, outcome, handled, dead, crashes>>
        /\ \A j \in DOMAIN calls : j # i => server'[j] = server[j] /\ reply'[j] = reply[j]
        /\ server[i] = "raft" /\ server'[i] = "replied" /\ reply'[i] = "status"
    BY <1>7 DEF RaftFails, TypeOK, ServerState
  <2>2. outcome \in [DOMAIN calls -> Outcome] /\ dead \subseteq Instance /\ crashes \in Nat
    BY DEF TypeOK
  <2> QED BY <2>1, <2>2, ServerKeepsTransport
<1>8. ASSUME NEW n \in Node, Crash(n) PROVE TransportInv'
  <2>1. /\ DOMAIN server = DOMAIN calls /\ DOMAIN outcome = DOMAIN calls
        /\ crashes \in Nat /\ dead \subseteq Instance
        /\ reply \in [DOMAIN calls ->
                         {"", "status", "append_entries", "install_snapshot", "vote"}]
    BY DEF TypeOK
  <2>2. /\ server' \in [DOMAIN calls -> ServerState]
        /\ \A j \in DOMAIN calls : \/ server'[j] = server[j]
                                   \/ server[j] = "raft" /\ server'[j] = "gone"
    BY <1>8, <2>1 DEF Crash, TypeOK, ServerState
  <2>3. /\ outcome' \in [DOMAIN calls -> Outcome]
        /\ \A j \in DOMAIN calls : outcome'[j] \in {outcome[j], "abandoned"}
    BY <1>8, <2>1 DEF Crash, TypeOK, Outcome
  <2>4. /\ UNCHANGED <<calls, reply, handled>> /\ crashes' \in Nat
        /\ dead' \subseteq Instance
    <3>1. UNCHANGED <<calls, reply, handled>> /\ dead' \subseteq dead
      BY <1>8 DEF Crash
    <3>2. crashes' \in Nat
      <4>1. crashes' = crashes + 1
        BY <1>8 DEF Crash
      <4>2. crashes \in Nat
        BY <2>1
      <4> QED BY <4>1, <4>2
    <3>3. dead' \subseteq Instance
      BY <2>1, <3>1, Zenon
    <3> QED BY <3>1, <3>2, <3>3
  <2> QED BY <2>1, <2>2, <2>3, <2>4, ServerKeepsTransport
<1>9. CASE UNCHANGED vars
  <2>1. /\ UNCHANGED <<calls, server, reply, outcome, handled, dead, crashes>>
    BY <1>9 DEF vars
  <2>2. /\ server \in [DOMAIN calls -> ServerState] /\ outcome \in [DOMAIN calls -> Outcome]
        /\ reply \in [DOMAIN calls ->
                         {"", "status", "append_entries", "install_snapshot", "vote"}]
        /\ crashes \in Nat /\ dead \subseteq Instance
    BY DEF TypeOK
  <2> QED BY <2>1, <2>2, ServerKeepsTransport
<1> QED BY <1>1, <1>2, <1>3, <1>4, <1>5, <1>6, <1>7, <1>8, <1>9 DEF Next

(* The invariant holds of every run of the transport.                      *)
LEMMA TransportInvariant == Spec => []TransportInv
<1>1. Init => TransportInv
  BY InitTransport
<1>2. TransportInv /\ [Next]_vars => TransportInv'
  BY NextTransport
<1> QED BY <1>1, <1>2, PTL DEF Spec

-----------------------------------------------------------------------------

(* No RPC is ever handled by the Raft instance of the other group, however *)
(* calls are lost, delayed, given up or repeated: the tag that `Network`   *)
(* puts on an envelope is the group that `RaftRpcImpl` dispatches it to.   *)
THEOREM RpcsReachTheirGroup == Spec => []GroupsStayApart
<1>1. TransportInv => GroupsStayApart
  BY DEF TransportInv, Routing
<1> QED BY <1>1, TransportInvariant, PTL

(* A caller that gets a response from `append_entries`, `vote` or          *)
(* `install_snapshot` knows that the instance it meant has handled the     *)
(* request, once; no error path of the handlers ends in a response.        *)
THEOREM ResponsesMeanHandled == Spec => []ResponsesAreGenuine
<1>1. TransportInv => ResponsesAreGenuine
  BY DEF TransportInv
<1> QED BY <1>1, TransportInvariant, PTL

(* Because a connection's methods take `&mut self`, the answered calls of  *)
(* a connection were handled in the order they were made, although the     *)
(* ones that were given up may be handled at any later time.               *)
THEOREM AnswersKeepTheOrder == Spec => []AnsweredInOrder
<1>1. TransportInv => AnsweredInOrder
  <2> SUFFICES ASSUME TransportInv,
                      NEW r \in Instance, NEW j \in DOMAIN handled[r], NEW k \in DOMAIN handled[r],
                      j < k, outcome[handled[r][j]] = "ok", outcome[handled[r][k]] = "ok",
                      SameConnection(calls[handled[r][j]], calls[handled[r][k]])
               PROVE  handled[r][j] < handled[r][k]
    BY DEF AnsweredInOrder
  <2> USE DEF TransportInv, Routing
  <2>1. handled[r][j] \in Nat /\ handled[r][k] \in Nat /\ j \in Nat /\ k \in Nat
    BY Positions DEF HandledHasReturned
  <2>2. handled[r][j] # handled[r][k]
    BY <2>1 DEF ResponsesAreGenuine
  <2>3. ~(handled[r][k] < handled[r][j])
    BY DEF LateOnesWereGivenUp
  <2> QED BY <2>1, <2>2, <2>3
<1> QED BY <1>1, TransportInvariant, PTL

(* The `expect` of `append_entries`, `vote` and `install_snapshot` on the  *)
(* payload of a response never fires, whoever refuses, dies or is late.    *)
THEOREM NoResponsePanics == Spec => []AnswersAreReadable
<1>1. TransportInv => AnswersAreReadable
  BY DEF TransportInv
<1> QED BY <1>1, TransportInvariant, PTL

(* Type correctness of the transport.                                      *)
THEOREM TransportTypes == Spec => []TypeOK
<1>1. TransportInv => TypeOK
  BY DEF TransportInv, Routing
<1> QED BY <1>1, TransportInvariant, PTL
=============================================================================
