---------------------------- MODULE ProcessRunner ----------------------------
(***************************************************************************)
(* BunProcessRunner.run (src/server/infrastructure/process/                *)
(* process-runner.ts): one supervised child process.  The promise of run   *)
(* races the child's exit and its two output streams against a             *)
(* termination, which cancellation, the idle check and the wall timer may  *)
(* start.  A termination sends SIGTERM and arms a timer for SIGKILL; run   *)
(* then gives the child's tasks two seconds to settle.                     *)
(*                                                                         *)
(* The child, its descendant and the output observer owe the runner        *)
(* nothing: they may ignore SIGTERM, hold the pipes open, write for ever,  *)
(* fail or hang.                                                           *)
(***************************************************************************)

CONSTANT
    Requests      \* the requests run is given

\* The optional parts of a request that change what run does.
RequestForms == [detached : BOOLEAN, wall : BOOLEAN, idle : BOOLEAN,
                 heartbeats : BOOLEAN, observer : BOOLEAN]

ASSUME RequestsAssumption == Requests \subseteq RequestForms

VARIABLES
    req,          \* the request
    phase,        \* where run stands: new, race, settle, closing, returned
    outcome,      \* "ok" or the ProcessErrorCode run ended with
    aborted,      \* request.signal.aborted
    leader,       \* the child: none, running, ok (exit code 0), failed
    descendant,   \* a process of the child's group: none, holding the pipes, quiet
    signalled,    \* signals that were really sent: SIGTERM, SIGKILL
    stream,       \* each readStream task
    withheld,     \* history: a chunk was not handed to on_output
    termination,  \* termination
    settled,      \* is_settled
    wallTimer,    \* wall_timer: off, armed, fired
    killTimer,    \* force_kill_timer, likewise
    check,        \* the idle check: off, idle, running
    seen,         \* last_heartbeat is defined
    beat,         \* a heartbeat file changed since last_heartbeat was read
    snapshot,     \* the signature the running check read differs
    quiet         \* the idle timeout has passed since last_activity_at

child == <<leader, descendant, signalled>>
idleVars == <<check, seen, beat, snapshot, quiet>>
vars == <<req, phase, outcome, aborted, child, stream, withheld, termination,
          settled, wallTimer, killTimer, idleVars>>

Streams == {"stdout", "stderr"}
Reasons == {"cancelled", "idle_timeout", "wall_timeout"}
Code(reason) == IF reason = "cancelled" THEN "process_cancelled"
                ELSE IF reason = "idle_timeout" THEN "process_idle_timeout"
                ELSE "process_wall_timeout"

Exited == leader \in {"ok", "failed"}

\* Promise.all(process_tasks) is fulfilled; it is rejected.
TasksDone == Exited /\ \A s \in Streams : stream[s] = "closed"
TasksFailed == \E s \in Streams : stream[s] \in {"handler_failed", "read_failed"}

\* Every task has settled, one way or the other.
TasksSettled == Exited /\ \A s \in Streams : stream[s] \notin {"open", "handling"}

Init ==
    /\ req \in Requests
    /\ phase = "new"
    /\ outcome = "none"
    /\ aborted = FALSE
    /\ leader = "none"
    /\ descendant = "none"
    /\ signalled = {}
    /\ stream = [s \in Streams |-> "open"]
    /\ withheld = FALSE
    /\ termination = "none"
    /\ settled = FALSE
    /\ wallTimer = "off"
    /\ killTimer = "off"
    /\ check = "off"
    /\ seen = FALSE
    /\ beat = FALSE
    /\ snapshot = FALSE
    /\ quiet = FALSE

-----------------------------------------------------------------------------
(* signalProcess and terminate *)

\* Mutant of SignalProcess: the exit of the child is not looked at.
SignalProcessBlind(sig) ==
    /\ signalled' = signalled \cup {sig}
    /\ descendant' = IF sig = "SIGKILL" /\ req.detached THEN "none" ELSE descendant

\* The members of the process group that a SIGKILL reaches die: the descendant
\* at once, the child, whose exit is an event of its own, in LeaderExits.
SignalProcess(sig) ==
    IF leader = "running"
    THEN /\ signalled' = signalled \cup {sig}
         /\ descendant' = IF sig = "SIGKILL" /\ req.detached THEN "none" ELSE descendant
    ELSE UNCHANGED <<signalled, descendant>>

\* Chunks that wait for on_output are let go.
Released == [s \in Streams |-> IF stream[s] = "handling" THEN "open" ELSE stream[s]]

Terminate(reason) ==
    IF termination # "none" \/ settled
    THEN UNCHANGED <<termination, stream, signalled, descendant, killTimer>>
    ELSE /\ termination' = reason
         /\ stream' = Released
         /\ SignalProcess("SIGTERM")
         /\ killTimer' = "armed"

-----------------------------------------------------------------------------
(* run *)

\* The synchronous beginning of run; a spawn may fail.
Start ==
    /\ phase = "new"
    /\ \/ /\ phase' = "returned"
          /\ outcome' = IF aborted THEN "process_cancelled" ELSE "process_spawn_failed"
          /\ settled' = TRUE
          /\ UNCHANGED <<leader, wallTimer, check>>
       \/ /\ ~aborted
          /\ phase' = "race"
          /\ leader' = "running"
          /\ wallTimer' = IF req.wall THEN "armed" ELSE "off"
          /\ check' = IF req.idle THEN "idle" ELSE "off"
          /\ UNCHANGED <<outcome, settled>>
    /\ UNCHANGED <<req, aborted, descendant, signalled, stream, withheld,
                   termination, killTimer, seen, beat, snapshot, quiet>>

\* The finally block of run, with the result the caller gets.
Return(result) ==
    /\ phase' = "returned"
    /\ outcome' = result
    /\ settled' = TRUE
    /\ wallTimer' = "off"
    /\ killTimer' = "off"
    /\ check' = IF check = "running" THEN "running" ELSE "off"
    /\ UNCHANGED <<req, aborted, child, withheld, termination, seen, beat,
                   snapshot, quiet>>

\* Mutant of Completed: a termination that loses the race is forgotten.
CompletedForgets ==
    /\ phase = "race"
    /\ TasksDone
    /\ Return(IF leader = "failed" THEN "process_exit_failed" ELSE "ok")
    /\ UNCHANGED stream

\* Cancellation takes precedence over a timeout, a timeout over the exit code.
Completed ==
    /\ phase = "race"
    /\ TasksDone
    /\ Return(IF termination = "cancelled" \/ aborted THEN "process_cancelled"
              ELSE IF termination # "none" THEN Code(termination)
              ELSE IF leader = "failed" THEN "process_exit_failed" ELSE "ok")
    /\ UNCHANGED stream

\* The race is decided by termination_started: settleProcessTasks begins.
Terminated ==
    /\ phase = "race"
    /\ termination # "none"
    /\ phase' = "settle"
    /\ UNCHANGED <<req, outcome, aborted, child, stream, withheld, termination,
                   settled, wallTimer, killTimer, idleVars>>

\* The race is rejected by a stream: the catch block, up to its await.
Rejected ==
    /\ phase = "race"
    /\ TasksFailed
    /\ phase' = "closing"
    /\ settled' = TRUE
    /\ stream' = Released
    /\ SignalProcess("SIGKILL")
    /\ UNCHANGED <<req, outcome, aborted, leader, withheld, termination, wallTimer,
                   killTimer, idleVars>>

\* What the two waits end in.  No abort goes without a termination while run
\* races, so the catch block's own look at the signal adds nothing.
Failure ==
    IF phase = "settle"
    THEN IF termination = "cancelled" \/ aborted
         THEN "process_cancelled" ELSE Code(termination)
    ELSE IF termination # "none" THEN Code(termination)
    ELSE IF \E s \in Streams : stream[s] = "handler_failed"
         THEN "process_output_handler_failed"
    ELSE "process_exit_failed"

\* Promise.allSettled wins the race of settleProcessTasks.
TasksSettle ==
    /\ phase \in {"settle", "closing"}
    /\ TasksSettled
    /\ Return(Failure)
    /\ UNCHANGED stream

\* Mutant of SettleTimeout: it does not wait for the force-kill timer.
SettleTimeoutEarly ==
    /\ phase \in {"settle", "closing"}
    /\ Return(Failure)
    /\ UNCHANGED stream

\* Mutant of SettleTimeout: the tasks are awaited without a limit.
SettleTimeoutMissing ==
    /\ phase \in {"settle", "closing"}
    /\ TasksSettled
    /\ Return(Failure)
    /\ UNCHANGED stream

\* Its timer wins.  The force-kill timer has the same two seconds and was armed
\* first, by the termination that the wait follows, so it has fired.
SettleTimeout ==
    /\ phase \in {"settle", "closing"}
    /\ killTimer # "armed" \/ phase = "closing"
    /\ Return(Failure)
    /\ UNCHANGED stream

-----------------------------------------------------------------------------
(* Signals and timers *)

Abort ==
    /\ ~aborted
    /\ phase # "returned"
    /\ aborted' = TRUE
    /\ IF phase = "new"
       THEN UNCHANGED <<termination, stream, signalled, descendant, killTimer>>
       ELSE Terminate("cancelled")
    /\ UNCHANGED <<req, phase, outcome, leader, withheld, settled, wallTimer, idleVars>>

WallTimer ==
    /\ wallTimer = "armed"
    /\ wallTimer' = "fired"
    /\ Terminate("wall_timeout")
    /\ UNCHANGED <<req, phase, outcome, aborted, leader, withheld, settled, idleVars>>

ForceKillTimer ==
    /\ killTimer = "armed"
    /\ killTimer' = "fired"
    /\ SignalProcess("SIGKILL")
    /\ UNCHANGED <<req, phase, outcome, aborted, leader, stream, withheld,
                   termination, settled, wallTimer, idleVars>>

\* The idle interval: one check at a time, which first reads the heartbeats.
IdleCheckStarts ==
    /\ check = "idle"
    /\ ~settled
    /\ check' = "running"
    /\ snapshot' = beat
    /\ beat' = FALSE
    /\ UNCHANGED <<req, phase, outcome, aborted, child, stream, withheld,
                   termination, settled, wallTimer, killTimer, seen, quiet>>

\* The check when its stat calls return.  The first one only takes a baseline.
IdleCheckEnds ==
    /\ check = "running"
    /\ snapshot' = FALSE
    /\ IF settled
       THEN /\ check' = "off"
            /\ UNCHANGED <<seen, quiet, termination, stream, signalled, descendant, killTimer>>
       ELSE /\ check' = "idle"
            /\ seen' = TRUE
            /\ quiet' = (quiet /\ IF seen THEN ~snapshot ELSE ~req.heartbeats)
            /\ IF quiet' /\ leader = "running" THEN Terminate("idle_timeout")
               ELSE UNCHANGED <<termination, stream, signalled, descendant, killTimer>>
    /\ UNCHANGED <<req, phase, outcome, aborted, leader, withheld, settled, wallTimer, beat>>

-----------------------------------------------------------------------------
(* The output streams: readStream and on_chunk *)

\* A chunk: activity, the tail, and the observer unless it must not be called.
Chunk(s) ==
    /\ phase # "returned"
    /\ leader # "none"
    /\ stream[s] = "open"
    /\ quiet' = FALSE
    /\ IF req.observer /\ termination = "none" /\ ~settled
       THEN stream' = [stream EXCEPT ![s] = "handling"] /\ UNCHANGED withheld
       ELSE withheld' = (withheld \/ req.observer) /\ UNCHANGED stream
    /\ UNCHANGED <<req, phase, outcome, aborted, child, termination, settled,
                   wallTimer, killTimer, check, seen, beat, snapshot>>

\* Mutant of ObserverAnswers: a failure of on_output is swallowed.
ObserverAnswersQuietly(s) ==
    /\ stream[s] = "handling"
    /\ stream' = [stream EXCEPT ![s] = "open"]
    /\ withheld' \in {withheld, TRUE}
    /\ UNCHANGED <<req, phase, outcome, aborted, child, termination, settled,
                   wallTimer, killTimer, idleVars>>

\* The promise of on_output is fulfilled or, the chunk not delivered, rejected.
ObserverAnswers(s) ==
    /\ stream[s] = "handling"
    /\ \/ stream' = [stream EXCEPT ![s] = "open"] /\ UNCHANGED withheld
       \/ stream' = [stream EXCEPT ![s] = "handler_failed"] /\ withheld' = TRUE
    /\ UNCHANGED <<req, phase, outcome, aborted, child, termination, settled,
                   wallTimer, killTimer, idleVars>>

\* The stream ends when nobody holds its other end, or breaks.
StreamEnds(s) ==
    /\ stream[s] = "open"
    /\ leader # "none"
    /\ \/ Exited /\ descendant # "holding" /\ stream' = [stream EXCEPT ![s] = "closed"]
       \/ stream' = [stream EXCEPT ![s] = "read_failed"]
    /\ UNCHANGED <<req, phase, outcome, aborted, child, withheld, termination,
                   settled, wallTimer, killTimer, idleVars>>

-----------------------------------------------------------------------------
(* The child, its group and time: external *)

LeaderExits ==
    /\ leader = "running"
    /\ leader' \in {"ok", "failed"}
    /\ ("SIGKILL" \in signalled) => leader' = "failed"
    /\ UNCHANGED <<req, phase, outcome, aborted, descendant, signalled, stream,
                   withheld, termination, settled, wallTimer, killTimer, idleVars>>

DescendantStarts ==
    /\ leader = "running"
    /\ "SIGKILL" \notin signalled
    /\ descendant = "none"
    /\ descendant' \in {"holding", "quiet"}
    /\ UNCHANGED <<req, phase, outcome, aborted, leader, signalled, stream,
                   withheld, termination, settled, wallTimer, killTimer, idleVars>>

DescendantExits ==
    /\ descendant # "none"
    /\ descendant' = "none"
    /\ UNCHANGED <<req, phase, outcome, aborted, leader, signalled, stream,
                   withheld, termination, settled, wallTimer, killTimer, idleVars>>

HeartbeatChanges ==
    /\ req.heartbeats /\ ~beat /\ leader = "running"
    /\ beat' = TRUE
    /\ UNCHANGED <<req, phase, outcome, aborted, child, stream, withheld,
                   termination, settled, wallTimer, killTimer, check, seen, snapshot, quiet>>

IdleTimePasses ==
    /\ req.idle /\ ~quiet /\ phase # "returned" /\ leader # "none"
    /\ quiet' = TRUE
    /\ UNCHANGED <<req, phase, outcome, aborted, child, stream, withheld,
                   termination, settled, wallTimer, killTimer, check, seen, beat, snapshot>>

Runner == Completed \/ Terminated \/ Rejected \/ TasksSettle

Next ==
    \/ Start \/ Runner \/ SettleTimeout
    \/ Abort \/ WallTimer \/ ForceKillTimer \/ IdleCheckStarts \/ IdleCheckEnds
    \/ \E s \in Streams : Chunk(s) \/ ObserverAnswers(s) \/ StreamEnds(s)
    \/ LeaderExits \/ DescendantStarts \/ DescendantExits \/ HeartbeatChanges
    \/ IdleTimePasses

Spec == Init /\ [][Next]_vars

\* Promises that are settled are delivered and timers fire.  Nothing is assumed
\* of the child, its descendant, the observer, the streams or the heartbeats.
FairSpec ==
    /\ Spec
    /\ WF_vars(Start) /\ WF_vars(Runner) /\ WF_vars(SettleTimeout)
    /\ WF_vars(WallTimer) /\ WF_vars(ForceKillTimer)

-----------------------------------------------------------------------------
TypeOK ==
    /\ req \in Requests
    /\ phase \in {"new", "race", "settle", "closing", "returned"}
    /\ outcome \in {"none", "ok", "process_spawn_failed", "process_exit_failed",
                    "process_output_handler_failed", "process_cancelled",
                    "process_idle_timeout", "process_wall_timeout"}
    /\ leader \in {"none", "running", "ok", "failed"}
    /\ descendant \in {"none", "holding", "quiet"}
    /\ signalled \subseteq {"SIGTERM", "SIGKILL"}
    /\ stream \in [Streams -> {"open", "handling", "closed", "handler_failed", "read_failed"}]
    /\ termination \in Reasons \cup {"none"}
    /\ wallTimer \in {"off", "armed", "fired"}
    /\ killTimer \in {"off", "armed", "fired"}
    /\ check \in {"off", "idle", "running"}
    /\ aborted \in BOOLEAN /\ withheld \in BOOLEAN /\ settled \in BOOLEAN
    /\ seen \in BOOLEAN /\ beat \in BOOLEAN /\ snapshot \in BOOLEAN /\ quiet \in BOOLEAN

\* run never returns and leaves its child running with nothing but a SIGTERM it
\* may ignore: the timer that sends SIGKILL is cleared on return, so it must have
\* fired by then, on each of the ways out (process-runner.ts:163-169, 303-312, 362).
ChildNotAbandoned ==
    phase = "returned" /\ leader = "running" => "SIGKILL" \in signalled

\* What run reports when it returns is what happened: success only of a child that
\* exited with code 0, its output read to the end, no termination begun and no
\* cancellation pending; a cancellation that came first is reported as one, and a
\* timeout as itself unless a cancellation joins it (process-runner.ts:232-356).
OutcomeIsFaithful ==
    [][ (phase # "new" /\ phase # "returned" /\ phase' = "returned") =>
          /\ (outcome' = "ok") =>
                 (leader = "ok" /\ TasksDone /\ termination = "none" /\ ~aborted)
          /\ (termination = "cancelled") => (outcome' = "process_cancelled")
          /\ (termination # "none") =>
                 (outcome' \in {Code(termination), "process_cancelled"}) ]_vars

\* Every chunk of a successful run was delivered to on_output, which persists it
\* (process-runner.ts:207-217): neither a termination nor a failed or forgotten
\* call lets the run succeed with a gap in its log.
SuccessMeansDelivered == outcome = "ok" => ~withheld

\* A signal is sent to nobody but the child the run started, and never once run has
\* returned, when the pid may belong to another process (process-runner.ts:62, 357-363).
NoSignalAfterReturn ==
    [][signalled' # signalled => leader = "running" /\ phase # "returned"]_vars

\* A run that has returned leaves no child it should have killed, and no chunk of a
\* success behind.
NothingLeftBehind == ChildNotAbandoned /\ SuccessMeansDelivered

\* And it speaks the truth about its child, and to nobody else's.
ReturnIsFaithful == OutcomeIsFaithful /\ NoSignalAfterReturn

\* A run with an absolute deadline returns, whatever the child, its descendant and
\* the observer do (process-runner.ts:75-87, 175-178; the deadline tests).
DeadlineHolds == (phase = "new" /\ req.wall) ~> phase = "returned"

==============================================================================
