------------------------ MODULE MCComponentWorkflow ------------------------
(***************************************************************************)
(* Two runs of each pipeline, one repair in each, one publication with a   *)
(* model and one stop of the server.                                       *)
(***************************************************************************)
EXTENDS ComponentWorkflow
=============================================================================
