----------------------------- MODULE MCJobRetry -----------------------------
(* Small instances of JobRetry. *)
EXTENDS JobRetry, TLC

=============================================================================
