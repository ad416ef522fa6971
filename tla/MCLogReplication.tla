-------------------------- MODULE MCLogReplication --------------------------
EXTENDS LogReplication

(* Three brokers, as the AppHost starts them.                              *)
CONSTANTS n1, n2, n3
=============================================================================
