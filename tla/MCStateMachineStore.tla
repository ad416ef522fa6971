------------------------ MODULE MCStateMachineStore -------------------------
(* StateMachineStore on small instances. *)
EXTENDS StateMachineStore, TLC

NodeSymmetry == Permutations(Node)
=============================================================================
