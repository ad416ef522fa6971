---------------------------- MODULE MCMqConsume -----------------------------
(* MqConsume on small instances. *)
EXTENDS MqConsume, TLC

(* A node serves one stream, or the consumers' own node has two. *)
OneEach == [n \in Node |-> {1}]
TwoForClients == [n \in Node |-> IF n \in ClientNode THEN {1, 2} ELSE {1}]

(* Where both nodes have consumers nothing tells them apart; used for safety alone. *)
NodesAlike == Permutations(Node)
=============================================================================
