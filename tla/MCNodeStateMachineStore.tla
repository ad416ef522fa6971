---------------------- MODULE MCNodeStateMachineStore -----------------------
(* NodeStateMachineStore, with the tasks of NodesGroup, on small instances.*)
EXTENDS NodeStateMachineStore
=============================================================================
