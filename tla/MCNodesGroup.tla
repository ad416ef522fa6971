---- MODULE MCNodesGroup ----
(* Small instances of NodesGroup.                                          *)
EXTENDS NodesGroup
====
