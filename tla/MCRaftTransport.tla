-------------------------- MODULE MCRaftTransport ---------------------------
(* RaftTransport on small instances. *)
EXTENDS RaftTransport

(* One node was started with the default MQ_PEERS, which only has itself.  *)
Lonely == CHOOSE n \in Node : TRUE

Incomplete == [n \in Node |-> IF n = Lonely THEN {n} ELSE Node]

(* Another has something that is no URI for the address of the first one.  *)
Careless == CHOOSE n \in Node : n # Lonely

Misspelt == [n \in Node |-> IF n = Careless THEN Node \ {Lonely} ELSE Node]
=============================================================================
