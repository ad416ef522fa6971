---------------------------- MODULE RaftTransport ---------------------------
(***************************************************************************)
(* The Raft RPCs between the nodes: `Network` and its connections on the   *)
(* caller's side (network.rs), `RaftRpcImpl` on the other (grpc_raft.rs).  *)
(* Both Raft groups of a node share one service; an envelope carries the   *)
(* tag of its group and a payload that says nothing of it, and most        *)
(* payloads can be read by either group.                                   *)
(*                                                                         *)
(* openraft is external: it decides which RPCs are made, gives up on one   *)
(* that takes too long, and answers each request it is handed, perhaps     *)
(* with an error. A request the caller has given up on may still be served.*)
(***************************************************************************)
EXTENDS Naturals, Sequences

CONSTANTS Node,        \* the members of both groups
          Peers,       \* the nodes each node finds in its MQ_PEERS
          WellFormed,  \* the nodes whose address there tonic takes for one
          MaxCalls,    \* bound: RPCs made
          MaxCrashes   \* bound: node crashes

ASSUME TransportParameters ==
    /\ Peers \in [Node -> SUBSET Node] /\ WellFormed \in [Node -> SUBSET Node]
    /\ MaxCalls \in Nat /\ MaxCrashes \in Nat

(* `enum RaftGroup`                                                        *)
Group == {"nodes", "spam"}

CallId == 1..MaxCalls

(* What openraft sends. Entries hold commands of their group's own type;   *)
(* votes, heartbeats and snapshot chunks look the same in both.            *)
Request == {"heartbeat", "entries", "snapshot", "vote"}

(* The method that carries it.                                             *)
MethodOf(req) == CASE req \in {"heartbeat", "entries"} -> "append_entries"
                   [] req = "snapshot"                 -> "install_snapshot"
                   [] req = "vote"                     -> "vote"

VARIABLES
    calls,     \* the RPCs made, in order: who calls whom, for which group
    server,    \* how far the callee is with each, see ServerState
    reply,     \* the payload of the response, or "status" for an error
    outcome,   \* what the caller has of each, see Outcome
    handled,   \* the calls each Raft instance has handled, in order
    dead,      \* the Raft instances that ended in a panic
    crashes

vars == <<calls, server, reply, outcome, handled, dead, crashes>>

Call == [from : Node, to : Node, group : Group, tag : Group, req : Request]

Instance == Node \X Group

(* "wire": not yet with the handler; "raft": the handler awaits the Raft   *)
(* instance; "replied": the handler has returned; "gone": died with it.    *)
ServerState == {"wire", "raft", "replied", "gone"}

Outcome == {"waiting", "ok", "error", "abandoned", "panic"}

TypeOK ==
    /\ calls \in Seq(Call) /\ Len(calls) <= MaxCalls
    /\ server \in [DOMAIN calls -> ServerState]
    /\ reply \in [DOMAIN calls -> {"", "status", "append_entries", "install_snapshot", "vote"}]
    /\ outcome \in [DOMAIN calls -> Outcome]
    /\ handled \in [Instance -> Seq(CallId)]
    /\ dead \subseteq Instance
    /\ crashes \in Nat

Init ==
    /\ calls = <<>> /\ server = <<>> /\ reply = <<>> /\ outcome = <<>>
    /\ handled = [r \in Instance |-> <<>>]
    /\ dead = {}
    /\ crashes = 0

-----------------------------------------------------------------------------
(* The caller: `Network` and `NetworkConnection`.                          *)

(* Mutants: the field is left at its default on the wire; a number that is *)
(* no member of the enum.                                                  *)
TagOf_Default(g)    == "nodes"
TagOf_Renumbered(g) == IF g = "spam" THEN "queue" ELSE g

(* `Network::new(peers, group)` in `main`, handed on by `new_client`.      *)
TagOf(g) == g

(* openraft makes a client of its own for the log entries and one for the  *)
(* snapshots of each replication stream, and a new one for every vote.     *)
SameConnection(c, d) ==
    /\ <<c.from, c.to, c.group>> = <<d.from, d.to, d.group>>
    /\ MethodOf(c.req) = MethodOf(d.req) /\ "vote" \notin {c.req, d.req}

(* Mutant: the methods take `&self`.                                       *)
Busy_Never(c) == FALSE

(* The methods take `&mut self`: one call at a time on a connection.       *)
Busy(c) == \E i \in DOMAIN calls : outcome[i] = "waiting" /\ SameConnection(calls[i], c)

(* `new_client` finds an address and `Channel::from_shared` takes it;      *)
(* `parse_peers` has looked at neither.                                    *)
Dialable(n, m) == m \in Peers[n] /\ m \in WellFormed[n]

(* Wrap the payload, add the tag, make the gRPC call.                      *)
SendEnvelope(n, m, g, req) ==
    LET c == [from |-> n, to |-> m, group |-> g, tag |-> TagOf(g), req |-> req]
    IN  /\ Len(calls) < MaxCalls
        /\ n # m /\ Dialable(n, m)
        /\ <<n, g>> \notin dead
        /\ ~Busy(c)
        /\ calls' = Append(calls, c)
        /\ server' = Append(server, "wire")
        /\ reply' = Append(reply, "")
        /\ outcome' = Append(outcome, "waiting")
        /\ UNCHANGED <<handled, dead, crashes>>

AppendEntries(n, m, g)   == \E req \in {"heartbeat", "entries"} : SendEnvelope(n, m, g, req)
Vote(n, m, g)            == SendEnvelope(n, m, g, "vote")
InstallSnapshot(n, m, g) == SendEnvelope(n, m, g, "snapshot")

(* `new_client` for a member that MQ_PEERS does not list, or lists with    *)
(* something that is no address: either panic ends the Raft instance.      *)
NewClientPanics(n, m, g) ==
    /\ n # m /\ ~Dialable(n, m)
    /\ <<n, g>> \notin dead
    /\ dead' = dead \cup {<<n, g>>}
    /\ UNCHANGED <<calls, server, reply, outcome, handled, crashes>>

Waiting(i) == outcome[i] = "waiting"

Ends(i, how) ==
    /\ Waiting(i)
    /\ outcome' = [outcome EXCEPT ![i] = how]
    /\ UNCHANGED <<calls, server, reply, handled, dead, crashes>>

(* A status becomes a NetworkError, a payload of the wrong type a panic.   *)
Answered(i) ==
    /\ server[i] = "replied"
    /\ Ends(i, CASE reply[i] = "status"                -> "error"
                 [] reply[i] = MethodOf(calls[i].req)  -> "ok"
                 [] OTHER                              -> "panic")

(* The connection breaks, before or after the request has arrived.         *)
ConnectionBreaks(i) == Ends(i, "error")

(* openraft's own timeout drops the call; `_option` is not looked at.      *)
TimesOut(i) == Ends(i, "abandoned")

-----------------------------------------------------------------------------
(* The callee: `RaftRpcImpl`.                                              *)

(* Mutant: everything goes to the queue's group.                           *)
group_of_Spam(tag) == "spam"

(* A tag it does not know counts as "spam".                                *)
group_of(tag) == IF tag \in Group THEN tag ELSE "spam"

(* `serde_json::from_slice` into a request of group g.                     *)
Parses(c, g) == c.req = "entries" => c.group = g

Target(i) == <<calls[i].to, group_of(calls[i].tag)>>

(* Mutant: the response does not wait for the Raft instance.               *)
AfterParsing_Replies == "replied"

AfterParsing == "raft"

(* Mutant: an error is answered with an empty payload.                     *)
to_status_Empty == ""

to_status == "status"

(* Read the payload; one that cannot be read is answered with an error.    *)
Dispatch(i) ==
    /\ server[i] = "wire"
    /\ IF Parses(calls[i], Target(i)[2])
         THEN /\ server' = [server EXCEPT ![i] = AfterParsing]
              /\ reply' = [reply EXCEPT ![i] = MethodOf(calls[i].req)]
         ELSE /\ server' = [server EXCEPT ![i] = "replied"]
              /\ reply' = [reply EXCEPT ![i] = to_status]
    /\ UNCHANGED <<calls, outcome, handled, dead, crashes>>

ServeAppendEntries(i)   == MethodOf(calls[i].req) = "append_entries" /\ Dispatch(i)
ServeVote(i)            == MethodOf(calls[i].req) = "vote" /\ Dispatch(i)
ServeInstallSnapshot(i) == MethodOf(calls[i].req) = "install_snapshot" /\ Dispatch(i)

(* The instance handles the request and the handler sends its answer back. *)
RaftHandles(i) ==
    /\ server[i] = "raft"
    /\ Target(i) \notin dead
    /\ handled' = [handled EXCEPT ![Target(i)] = Append(@, i)]
    /\ server' = [server EXCEPT ![i] = "replied"]
    /\ UNCHANGED <<calls, reply, outcome, dead, crashes>>

(* It refuses, or is dead.                                                 *)
RaftFails(i) ==
    /\ server[i] = "raft"
    /\ server' = [server EXCEPT ![i] = "replied"]
    /\ reply' = [reply EXCEPT ![i] = to_status]
    /\ UNCHANGED <<calls, outcome, handled, dead, crashes>>

(* Node n dies and starts again: the requests it was serving are gone, its *)
(* own calls too, and its Raft instances are new ones.                     *)
Crash(n) ==
    /\ crashes < MaxCrashes
    /\ crashes' = crashes + 1
    /\ server' = [i \in DOMAIN server |->
                    IF calls[i].to = n /\ server[i] = "raft" THEN "gone" ELSE server[i]]
    /\ outcome' = [i \in DOMAIN outcome |->
                    IF calls[i].from = n /\ Waiting(i) THEN "abandoned" ELSE outcome[i]]
    /\ dead' = {r \in dead : r[1] # n}
    /\ UNCHANGED <<calls, reply, handled>>

-----------------------------------------------------------------------------

Next ==
    \/ \E n, m \in Node, g \in Group :
            \/ AppendEntries(n, m, g) \/ Vote(n, m, g) \/ InstallSnapshot(n, m, g)
            \/ NewClientPanics(n, m, g)
    \/ \E i \in DOMAIN calls : \/ Answered(i) \/ ConnectionBreaks(i) \/ TimesOut(i)
                               \/ ServeAppendEntries(i) \/ ServeVote(i) \/ ServeInstallSnapshot(i)
                               \/ RaftHandles(i) \/ RaftFails(i)
    \/ \E n \in Node : Crash(n)

Spec == Init /\ [][Next]_vars

-----------------------------------------------------------------------------

(* A Raft instance only ever handles requests that an instance of the same *)
(* group sent to its node: a vote or a heartbeat of one group would be     *)
(* taken for one of the other without any error.                           *)
GroupsStayApart ==
    \A r \in Instance : \A k \in DOMAIN handled[r] :
        LET c == calls[handled[r][k]] IN r = <<c.to, c.group>>

(* No request is handled twice, and a call that returned a response was    *)
(* handled, by the instance it was meant for. An error or a timeout tells  *)
(* the caller nothing.                                                     *)
ResponsesAreGenuine ==
    /\ \A r \in Instance : \A j, k \in DOMAIN handled[r] : handled[r][j] = handled[r][k] => j = k
    /\ \A i \in DOMAIN calls :
        outcome[i] = "ok" => \E k \in DOMAIN handled[<<calls[i].to, calls[i].group>>] :
                                handled[<<calls[i].to, calls[i].group>>][k] = i

(* Calls on one connection that were answered were handled in the order    *)
(* they were made, although one that was given up may be handled later.    *)
AnsweredInOrder ==
    \A r \in Instance : \A j, k \in DOMAIN handled[r] :
        LET a == handled[r][j]
            b == handled[r][k]
        IN  (j < k /\ outcome[a] = "ok" /\ outcome[b] = "ok" /\ SameConnection(calls[a], calls[b]))
                => a < b

(* Whatever the callee answers, the `expect` on the response does not      *)
(* fire: an unreadable request, a refusal and the death of an instance all *)
(* reach the caller as an error that openraft can retry.                   *)
AnswersAreReadable == \A i \in DOMAIN calls : outcome[i] # "panic"
=============================================================================
