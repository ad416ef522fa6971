------------------------ MODULE MCRaftEngineLogStore ------------------------
(* RaftEngineLogStore on small instances. *)
EXTENDS RaftEngineLogStore
=============================================================================
