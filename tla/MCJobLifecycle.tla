--------------------------- MODULE MCJobLifecycle ---------------------------
(* Small instances of JobLifecycle. *)
EXTENDS JobLifecycle, TLC

=============================================================================
