--------------------------- MODULE MCProcessRunner ---------------------------
(* The requests of the runs of ProcessRunner. *)
EXTENDS ProcessRunner

AllRequests == RequestForms

\* An absolute deadline and an observer; the idle check only ends a run earlier.
DeadlineRequests == {q \in RequestForms : q.detached /\ q.wall /\ ~q.idle /\ ~q.heartbeats}

==============================================================================
