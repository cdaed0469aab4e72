------------------------ MODULE MCAgentArtifactStage ------------------------
(* Small instances of AgentArtifactStage. *)
EXTENDS AgentArtifactStage

=============================================================================
