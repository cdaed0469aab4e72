------------------------ MODULE MCModelRunLifecycle ------------------------
(* Small instances of ModelRunLifecycle. *)
EXTENDS ModelRunLifecycle, TLC

=============================================================================
