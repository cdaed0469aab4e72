------------------------- MODULE ProcessRunnerProofs -------------------------
(***************************************************************************)
(* Proofs about ProcessRunner: whatever the requests, run does not abandon *)
(* a child that ignores SIGTERM, a success has no gap in its log, and no   *)
(* signal is sent after the return.                                        *)
(***************************************************************************)
EXTENDS ProcessRunner, TLAPS

\* The part of TypeOK the argument needs.
Types ==
    /\ stream \in [Streams -> {"open", "handling", "closed", "handler_failed", "read_failed"}]
    /\ req \in RequestForms
    /\ aborted \in BOOLEAN
    /\ withheld \in BOOLEAN
    /\ settled \in BOOLEAN

\* Where run stands, in terms of is_settled, the outcome and the child.
PhaseOK ==
    /\ phase \in {"new", "race", "settle", "closing", "returned"}
    /\ phase = "new" => leader = "none" /\ termination = "none" /\ killTimer = "off"
                       /\ wallTimer = "off"
                       /\ \A s \in Streams : stream[s] = "open"
    /\ phase = "settle" => termination # "none"
    /\ phase \in {"new", "race", "settle"} => ~settled
    /\ phase \in {"closing", "returned"} => settled
    /\ outcome # "none" => phase = "returned"
    /\ killTimer = "armed" => phase # "returned"

\* A child that still runs has been sent SIGKILL when run is past waiting for the
\* force-kill timer; before that, once a termination has begun, the timer is armed.
KillComes ==
    leader = "running" =>
        /\ phase \in {"closing", "returned"} => "SIGKILL" \in signalled
        /\ ~settled /\ termination # "none" => killTimer = "armed" \/ "SIGKILL" \in signalled

\* A chunk that on_output did not get is accounted for by a termination or by a
\* task that keeps Promise.all from being fulfilled; nobody waits for on_output
\* once a termination has begun or run has settled.
GapExplained ==
    /\ ~settled /\ withheld => termination # "none" \/ TasksFailed
    /\ \A s \in Streams : stream[s] = "handling" => termination = "none" /\ ~settled
    /\ SuccessMeansDelivered

IInv == Types /\ PhaseOK /\ KillComes /\ GapExplained

\* The state before the call of run satisfies the inductive invariant.
LEMMA InitIInv == Init => IInv
  BY RequestsAssumption DEF Init, IInv, Types, PhaseOK, KillComes, GapExplained,
         SuccessMeansDelivered,
     Streams, TasksFailed

\* The steps of the promise of run preserve it.
LEMMA RunIInv ==
  ASSUME IInv, Start \/ Runner \/ SettleTimeout
  PROVE  IInv'
<1> USE DEF IInv, Types, PhaseOK, KillComes, GapExplained, SuccessMeansDelivered,
        RequestForms, Streams, TasksFailed, Exited, child, idleVars
<1>1. CASE Start
  <2>1. CASE phase' = "returned"
    <3>1. outcome' # "ok" /\ leader' = "none"
      BY <1>1, <2>1 DEF Start
    <3> QED
      BY <1>1, <2>1, <3>1 DEF Start
  <2>2. CASE phase' = "race"
    <3>1. wallTimer' \in {"armed", "off"}
      BY <1>1, <2>2 DEF Start
    <3> QED
      BY <1>1, <2>2, <3>1 DEF Start
  <2> QED
    BY <1>1, <2>1, <2>2 DEF Start
<1>2. CASE Completed
  BY <1>2 DEF Completed, Return, TasksDone, Code
<1>3. CASE Terminated
  BY <1>3 DEF Terminated
<1>4. CASE Rejected
  BY <1>4 DEF Rejected, SignalProcess, Released
<1>5. CASE TasksSettle
  BY <1>5 DEF TasksSettle, Return, TasksSettled, Failure, Code
<1>6. CASE SettleTimeout
  BY <1>6 DEF SettleTimeout, Return, Failure, Code
<1> QED
  BY <1>1, <1>2, <1>3, <1>4, <1>5, <1>6 DEF Runner

\* So do cancellation, the timers and the idle check.
LEMMA TimerIInv ==
  ASSUME IInv, Abort \/ WallTimer \/ ForceKillTimer \/ IdleCheckStarts \/ IdleCheckEnds
  PROVE  IInv'
<1> USE DEF IInv, Types, PhaseOK, KillComes, GapExplained, SuccessMeansDelivered,
        RequestForms, Streams, TasksFailed, Exited, child, idleVars
<1>1. CASE Abort
  BY <1>1 DEF Abort, Terminate, SignalProcess, Released
<1>2. CASE WallTimer
  BY <1>2 DEF WallTimer, Terminate, SignalProcess, Released
<1>3. CASE ForceKillTimer
  BY <1>3 DEF ForceKillTimer, SignalProcess
<1>4. CASE IdleCheckStarts
  BY <1>4 DEF IdleCheckStarts
<1>5. CASE IdleCheckEnds
  BY <1>5 DEF IdleCheckEnds, Terminate, SignalProcess, Released
<1> QED
  BY <1>1, <1>2, <1>3, <1>4, <1>5

\* So do the streams, the observer, the child and the passing of time.
LEMMA EnvironmentIInv ==
  ASSUME IInv,
         \/ \E s \in Streams : Chunk(s) \/ ObserverAnswers(s) \/ StreamEnds(s)
         \/ LeaderExits \/ DescendantStarts \/ DescendantExits \/ HeartbeatChanges
         \/ IdleTimePasses
  PROVE  IInv'
<1> USE DEF IInv, Types, PhaseOK, KillComes, GapExplained, SuccessMeansDelivered,
        RequestForms, Streams, TasksFailed, Exited, child, idleVars
<1>1. ASSUME NEW s \in Streams, Chunk(s) PROVE IInv'
  <2>1. withheld' \in BOOLEAN /\ (withheld' # withheld => ~(termination = "none" /\ ~settled))
    BY <1>1 DEF Chunk
  <2>2. CASE stream' = stream
    BY <1>1, <2>1, <2>2 DEF Chunk
  <2>3. CASE stream' = [stream EXCEPT ![s] = "handling"] /\ termination = "none" /\ ~settled
    BY <1>1, <2>3 DEF Chunk
  <2> QED
    BY <1>1, <2>2, <2>3 DEF Chunk
<1>2. ASSUME NEW s \in Streams, ObserverAnswers(s) PROVE IInv'
  <2>1. CASE stream' = [stream EXCEPT ![s] = "open"] /\ withheld' = withheld
    <3>1. ~settled /\ termination = "none" /\ outcome # "ok"
      BY <1>2 DEF ObserverAnswers
    <3>2. TasksFailed => TasksFailed'
      BY <1>2, <2>1 DEF ObserverAnswers
    <3> QED
      BY <1>2, <2>1, <3>1, <3>2 DEF ObserverAnswers
  <2>2. CASE stream' = [stream EXCEPT ![s] = "handler_failed"] /\ withheld' = TRUE
    <3>1. ~settled /\ termination = "none" /\ outcome # "ok"
      BY <1>2 DEF ObserverAnswers
    <3>2. TasksFailed'
      BY <1>2, <2>2 DEF ObserverAnswers
    <3> QED
      BY <1>2, <2>2, <3>1, <3>2 DEF ObserverAnswers
  <2> QED
    BY <1>2, <2>1, <2>2 DEF ObserverAnswers
<1>3. ASSUME NEW s \in Streams, StreamEnds(s) PROVE IInv'
  BY <1>3 DEF StreamEnds
<1>4. CASE LeaderExits
  BY <1>4 DEF LeaderExits
<1>5. CASE DescendantStarts \/ DescendantExits
  BY <1>5 DEF DescendantStarts, DescendantExits
<1>6. CASE HeartbeatChanges \/ IdleTimePasses
  BY <1>6 DEF HeartbeatChanges, IdleTimePasses
<1> QED
  BY <1>1, <1>2, <1>3, <1>4, <1>5, <1>6

\* The invariant is inductive.
THEOREM RunInductive == Spec => []IInv
<1>1. IInv /\ [Next]_vars => IInv'
  <2> SUFFICES ASSUME IInv, [Next]_vars PROVE IInv'
    OBVIOUS
  <2>1. CASE Next
    BY <2>1, RunIInv, TimerIInv, EnvironmentIInv DEF Next
  <2>2. CASE UNCHANGED vars
    BY <2>2 DEF vars, child, idleVars, IInv, Types, PhaseOK, KillComes, GapExplained,
       SuccessMeansDelivered, Streams, TasksFailed
  <2> QED
    BY <2>1, <2>2
<1> QED
  BY <1>1, InitIInv, PTL DEF Spec

\* The Boolean variables, apart from the others: no prover does both at once.
Switches ==
    /\ aborted \in BOOLEAN /\ withheld \in BOOLEAN /\ settled \in BOOLEAN
    /\ seen \in BOOLEAN /\ beat \in BOOLEAN /\ snapshot \in BOOLEAN /\ quiet \in BOOLEAN

\* The others but for stream, which the inductive invariant types, and outcome.
Values ==
    /\ req \in Requests
    /\ phase \in {"new", "race", "settle", "closing", "returned"}
    /\ leader \in {"none", "running", "ok", "failed"}
    /\ descendant \in {"none", "holding", "quiet"}
    /\ signalled \subseteq {"SIGTERM", "SIGKILL"}
    /\ termination \in Reasons \cup {"none"}
    /\ wallTimer \in {"off", "armed", "fired"}
    /\ killTimer \in {"off", "armed", "fired"}
    /\ check \in {"off", "idle", "running"}

OutcomeOK ==
    outcome \in {"none", "ok", "process_spawn_failed", "process_exit_failed",
                "process_output_handler_failed", "process_cancelled",
                "process_idle_timeout", "process_wall_timeout"}

\* Every step leaves the Boolean variables Boolean.
LEMMA SwitchTypes == Switches /\ [Next]_vars => Switches'
<1> SUFFICES ASSUME Switches, [Next]_vars PROVE Switches'
  OBVIOUS
<1> USE DEF Switches, child, idleVars
<1>1. CASE Start \/ Terminated \/ Rejected
  BY <1>1, Zenon DEF Start, Terminated, Rejected
<1>2. CASE Completed \/ TasksSettle \/ SettleTimeout
  BY <1>2, Zenon DEF Completed, TasksSettle, SettleTimeout, Return
<1>3. CASE Abort \/ WallTimer \/ ForceKillTimer \/ IdleCheckStarts
  BY <1>3, Zenon DEF Abort, WallTimer, ForceKillTimer, IdleCheckStarts
<1>4. CASE IdleCheckEnds
  <2>1. seen' \in BOOLEAN /\ quiet' \in BOOLEAN
    BY <1>4 DEF IdleCheckEnds
  <2> QED
    BY <1>4, <2>1, Zenon DEF IdleCheckEnds
<1>5. ASSUME NEW s \in Streams, Chunk(s) \/ ObserverAnswers(s) \/ StreamEnds(s)
      PROVE  Switches'
  <2>1. withheld' \in BOOLEAN /\ quiet' \in BOOLEAN
    BY <1>5 DEF Chunk, ObserverAnswers, StreamEnds
  <2> QED
    BY <1>5, <2>1, Zenon DEF Chunk, ObserverAnswers, StreamEnds
<1>6. CASE LeaderExits \/ DescendantStarts \/ DescendantExits \/ HeartbeatChanges \/ IdleTimePasses
  BY <1>6, Zenon DEF LeaderExits, DescendantStarts, DescendantExits, HeartbeatChanges,
     IdleTimePasses
<1>7. CASE UNCHANGED vars
  BY <1>7, Zenon DEF vars
<1> QED
  BY <1>1, <1>2, <1>3, <1>4, <1>5, <1>6, <1>7 DEF Next, Runner

\* Every variable has its type; in particular run ends with "ok" or an error code.
THEOREM RunTypes == Spec => []TypeOK
<1>1. Init => Values /\ OutcomeOK /\ Switches
  BY DEF Init, Switches, Values, OutcomeOK
<1>2. Values /\ [Next]_vars => Values'
  <2> SUFFICES ASSUME Values, [Next]_vars PROVE Values'
    OBVIOUS
  <2> USE DEF Values, Reasons, child, idleVars
  <2>1. CASE Start
    BY <2>1 DEF Start
  <2>2. CASE Completed \/ TasksSettle \/ SettleTimeout
    BY <2>2 DEF Completed, TasksSettle, SettleTimeout, Return
  <2>3. CASE Terminated \/ Rejected
    BY <2>3 DEF Terminated, Rejected, SignalProcess
  <2>4. CASE Abort
    BY <2>4 DEF Abort, Terminate, SignalProcess
  <2>5. CASE WallTimer
    BY <2>5 DEF WallTimer, Terminate, SignalProcess
  <2>6. CASE ForceKillTimer
    BY <2>6 DEF ForceKillTimer, SignalProcess
  <2>7. CASE IdleCheckStarts
    BY <2>7 DEF IdleCheckStarts
  <2>8. CASE IdleCheckEnds
    BY <2>8 DEF IdleCheckEnds, Terminate, SignalProcess
  <2>9. CASE \E s \in Streams : Chunk(s) \/ ObserverAnswers(s) \/ StreamEnds(s)
    BY <2>9 DEF Chunk, ObserverAnswers, StreamEnds
  <2>10. CASE LeaderExits \/ DescendantStarts \/ DescendantExits
    BY <2>10 DEF LeaderExits, DescendantStarts, DescendantExits
  <2>11. CASE HeartbeatChanges \/ IdleTimePasses
    BY <2>11 DEF HeartbeatChanges, IdleTimePasses
  <2>12. CASE UNCHANGED vars
    BY <2>12 DEF vars
  <2> QED
    BY <2>1, <2>2, <2>3, <2>4, <2>5, <2>6, <2>7, <2>8, <2>9, <2>10, <2>11, <2>12
       DEF Next, Runner
<1>3. Values /\ OutcomeOK /\ [Next]_vars => OutcomeOK'
  <2> SUFFICES ASSUME Values, OutcomeOK, [Next]_vars PROVE OutcomeOK'
    OBVIOUS
  <2> USE DEF Values, Reasons, OutcomeOK
  <2>1. CASE Completed \/ TasksSettle \/ SettleTimeout
    BY <2>1 DEF Completed, TasksSettle, SettleTimeout, Return, Failure, Code
  <2>2. CASE Start
    BY <2>2 DEF Start
  <2>3. CASE outcome' = outcome
    BY <2>3
  <2> QED
    BY <2>1, <2>2, <2>3 DEF Next, Runner, Terminated, Rejected, Abort, WallTimer,
       ForceKillTimer, IdleCheckStarts, IdleCheckEnds, Chunk, ObserverAnswers, StreamEnds,
       LeaderExits, DescendantStarts, DescendantExits, HeartbeatChanges, IdleTimePasses, vars
<1>4. IInv /\ Values /\ OutcomeOK /\ Switches => TypeOK
  BY DEF IInv, Types, Switches, Values, OutcomeOK, TypeOK
<1> QED
  BY <1>1, <1>2, <1>3, <1>4, SwitchTypes, RunInductive, PTL DEF Spec

\* run never returns and leaves a child running that was not sent SIGKILL, though
\* it clears the timer that would send it.
THEOREM ChildIsKilled == Spec => []ChildNotAbandoned
<1>1. IInv => ChildNotAbandoned
  BY DEF IInv, PhaseOK, KillComes, ChildNotAbandoned
<1> QED
  BY <1>1, RunInductive, PTL

\* A run that succeeds has handed every chunk to on_output.
THEOREM SuccessIsDelivered == Spec => []SuccessMeansDelivered
<1>1. IInv => SuccessMeansDelivered
  BY DEF IInv, GapExplained
<1> QED
  BY <1>1, RunInductive, PTL

\* What run returns is what happened to the child, on each of its ways out.
THEOREM OutcomeTold == Spec => OutcomeIsFaithful
<1> DEFINE Told ==
      (phase # "new" /\ phase # "returned" /\ phase' = "returned") =>
        /\ (outcome' = "ok") =>
             (leader = "ok" /\ TasksDone /\ termination = "none" /\ ~aborted)
        /\ (termination = "cancelled") => (outcome' = "process_cancelled")
        /\ (termination # "none") =>
             (outcome' \in {Code(termination), "process_cancelled"})
<1>1. IInv /\ [Next]_vars => [Told]_vars
  <2> SUFFICES ASSUME IInv, Next PROVE Told
    OBVIOUS
  <2>1. CASE Completed
    BY <2>1 DEF Completed, Return, TasksDone, Exited, Code, IInv, PhaseOK
  <2>2. CASE TasksSettle \/ SettleTimeout
    BY <2>2 DEF TasksSettle, SettleTimeout, Return, Failure, Code, IInv, PhaseOK
  <2>3. CASE Start \/ Terminated \/ Rejected
    BY <2>3 DEF Start, Terminated, Rejected
  <2>4. CASE Abort \/ WallTimer \/ ForceKillTimer \/ IdleCheckStarts \/ IdleCheckEnds
    BY <2>4 DEF Abort, WallTimer, ForceKillTimer, IdleCheckStarts, IdleCheckEnds
  <2>5. CASE \/ \E s \in Streams : Chunk(s) \/ ObserverAnswers(s) \/ StreamEnds(s)
             \/ LeaderExits \/ DescendantStarts \/ DescendantExits \/ HeartbeatChanges
             \/ IdleTimePasses
    BY <2>5 DEF Chunk, ObserverAnswers, StreamEnds, LeaderExits, DescendantStarts,
       DescendantExits, HeartbeatChanges, IdleTimePasses
  <2> QED
    BY <2>1, <2>2, <2>3, <2>4, <2>5 DEF Next, Runner
<1>2. Spec => [][Told]_vars
  BY <1>1, RunInductive, PTL DEF Spec
<1> QED
  BY <1>2, PTL DEF OutcomeIsFaithful

\* No signal is sent to a child that has exited, nor after run has returned.
THEOREM NoLateSignal == Spec => NoSignalAfterReturn
<1> DEFINE Timely == signalled' # signalled => leader = "running" /\ phase # "returned"
<1>1. IInv /\ [Next]_vars => [Timely]_vars
  <2> SUFFICES ASSUME IInv, Next PROVE Timely
    OBVIOUS
  <2>1. CASE Completed \/ TasksSettle \/ SettleTimeout \/ Start \/ Terminated
    BY <2>1 DEF Completed, TasksSettle, SettleTimeout, Return, child, Start, Terminated
  <2>2. CASE Rejected \/ ForceKillTimer
    BY <2>2 DEF Rejected, ForceKillTimer, SignalProcess, IInv, PhaseOK
  <2>3. CASE Abort \/ WallTimer \/ IdleCheckStarts \/ IdleCheckEnds
    BY <2>3 DEF Abort, WallTimer, IdleCheckStarts, IdleCheckEnds, Terminate, SignalProcess,
       IInv, PhaseOK, child
  <2>4. CASE \/ \E s \in Streams : Chunk(s) \/ ObserverAnswers(s) \/ StreamEnds(s)
             \/ LeaderExits \/ DescendantStarts \/ DescendantExits \/ HeartbeatChanges
             \/ IdleTimePasses
    BY <2>4 DEF Chunk, ObserverAnswers, StreamEnds, LeaderExits, DescendantStarts,
       DescendantExits, HeartbeatChanges, IdleTimePasses, child
  <2> QED
    BY <2>1, <2>2, <2>3, <2>4 DEF Next, Runner
<1>2. Spec => [][Timely]_vars
  BY <1>1, RunInductive, PTL DEF Spec
<1> QED
  BY <1>2, PTL DEF NoSignalAfterReturn

\* A return of run leaves no child running that was not sent SIGKILL, and a
\* successful one no output its observer did not get.
THEOREM LeavesNothing == Spec => []NothingLeftBehind
BY ChildIsKilled, SuccessIsDelivered, PTL DEF NothingLeftBehind

\* On every way out run tells what became of the child, and after it no signal
\* is sent to a pid that may belong to another process (signalProcess).
THEOREM ReturnTold == Spec => ReturnIsFaithful
BY OutcomeTold, NoLateSignal DEF ReturnIsFaithful

==============================================================================
