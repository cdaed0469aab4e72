-------------------------- MODULE MCPipelineRunner --------------------------
(* Instance of PipelineRunner: three stages, of which the last depends on the *)
(* first only, so that it still runs when the second one fails.               *)
EXTENDS PipelineRunner

MCDependsOn == <<{}, {1}, {1}>>

MCTargets ==
    { [mode |-> "pipeline", at |-> 1, provided |-> {}],
      [mode |-> "stage", at |-> 0, provided |-> {}],
      [mode |-> "stage", at |-> 2, provided |-> {1}],
      [mode |-> "stage", at |-> 2, provided |-> {}],
      [mode |-> "stage", at |-> 1, provided |-> {}],
      [mode |-> "from_stage", at |-> 2, provided |-> {1}] }
=============================================================================
