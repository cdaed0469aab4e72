-------------------------- MODULE ModelRunLifecycle --------------------------
(***************************************************************************)
(* The SPICE model run of one job: createModelRun, retryModelRun,          *)
(* extendModelRun, cancelModelRun, the runner runModel, an in-place local  *)
(* run, and deleteJob as far as it concerns the model run.  ModelRunStore  *)
(* holds the record and the set of claimed executions; the deletion lease  *)
(* lives in JobStore.                                                      *)
(*                                                                         *)
(* An action is a handler from one await to the next.  A checkpoint write  *)
(* may fail, at most MaxFaults times.  The pipeline is reduced to the      *)
(* phases other components can see: before repair, repair, after it.       *)
(***************************************************************************)
EXTENDS Naturals

CONSTANTS
    Creators,   \* concurrent create requests
    MaxEffort,  \* the largest effort multiplier (8 in the code)
    MaxFaults   \* how many checkpoint writes may fail

ASSUME ModelRunAssumption ==
    /\ MaxEffort \in Nat \ {0}
    /\ MaxFaults \in Nat

VARIABLES
    job,        \* the job is registered in JobStore
    lease,      \* a deletion lease is held
    exists,     \* run_map has the run
    status,     \* status ("working": setting_up, running, waiting_for_component)
    complete,   \* is_complete
    aborted,    \* the cancellation_controller has fired
    effort,     \* effort_multiplier
    budget,     \* repair_budget_ms in units of 30 minutes
    exec,       \* active_execution_ids has the run
    creator,    \* the await each create request stands at
    extender,   \* the await of extendModelRun
    runner,     \* the await of runModel
    granted,    \* repair_budget_ms in the context of the pipeline
    phase,      \* how far the pipeline is
    verdict,    \* the status runModel is about to publish
    local,      \* the in-place local run
    deleter,    \* the await of deleteJob
    recovering, \* the calls of recordUnexpectedRunnerFailure that await their log
    asked,      \* history: cancelled while the running invocation could see it
    overtaken,  \* history: one of those calls has ended the run an execution works on
    faults

vars == <<job, lease, exists, status, complete, aborted, effort, budget, exec,
          creator, extender, runner, granted, phase, verdict, local, deleter,
          recovering, asked, overtaken, faults>>

Active == {"queued", "working", "validating", "cancelling"}
Restartable == {"cancelled", "complete", "unsupported", "failed"}
Status == Active \cup Restartable
Phases == {"none", "early", "repair", "late", "published"}

\* The awaits at which runModel is at work on the run; at "release" the result
\* is published and only the finally block is left.
Working == {"setup", "pipeline", "committed", "settle", "catch"}
Runner == Working \cup {"idle", "release"}

-----------------------------------------------------------------------------
(* ModelRunStore *)

\* mutateAndPublish: the record changes after its checkpoint is written.
Mutate(st, isComplete) ==
    /\ exists
    /\ status' = st
    /\ complete' = isComplete
    /\ UNCHANGED faults

\* The checkpoint is not written, or requireRecord finds no run.
MutateThrows ==
    /\ exists => faults < MaxFaults
    /\ faults' = IF exists THEN faults + 1 ELSE faults
    /\ UNCHANGED <<status, complete>>

\* Mutant of Claimable: the set of active executions is not consulted.
ClaimableTwice == exists

Claimable == exists /\ ~exec

Unlaunched == UNCHANGED <<exec, aborted, granted, runner, verdict, phase, asked, overtaken>>

\* runModel up to its first await: claimModelExecution, which replaces a
\* controller that has fired and does not look at the deletion lease, then the
\* context of the pipeline.
Launch ==
    IF Claimable
    THEN /\ exec' = TRUE
         /\ aborted' = FALSE
         /\ granted' = effort'
         /\ runner' = "setup"
         /\ verdict' = "none"
         /\ phase' = "early"
         /\ asked' = FALSE
         /\ overtaken' = FALSE
    ELSE Unlaunched

\* requestCancellation, when there is something to cancel.
RequestCancellation ==
    /\ aborted' = TRUE
    /\ asked' = (asked \/ (runner \in Working /\ verdict = "none"))
    /\ \/ status' = "cancelling" /\ UNCHANGED faults
       \/ faults < MaxFaults /\ faults' = faults + 1 /\ UNCHANGED status

-----------------------------------------------------------------------------
Init ==
    /\ job = TRUE
    /\ lease = FALSE
    /\ exists = FALSE
    /\ status = "queued"
    /\ complete = FALSE
    /\ aborted = FALSE
    /\ effort = 1
    /\ budget = 1
    /\ exec = FALSE
    /\ creator = [c \in Creators |-> "idle"]
    /\ extender = "idle"
    /\ runner = "idle"
    /\ granted = 0
    /\ phase = "none"
    /\ verdict = "none"
    /\ local = "idle"
    /\ deleter = "idle"
    /\ recovering = 0
    /\ asked = FALSE
    /\ overtaken = FALSE
    /\ faults = 0

\* What every handler of the model-run API asks before it goes on.
Admitted == job /\ ~lease

-----------------------------------------------------------------------------
(* createModelRun and launchModelRun *)

CreateRequest(c) ==
    /\ creator[c] = "idle"
    /\ Admitted /\ ~exists
    /\ creator' = [creator EXCEPT ![c] = "reading"]
    /\ UNCHANGED <<job, lease, exists, status, complete, aborted, effort, budget,
                   exec, extender, runner, granted, phase, verdict, local,
                   deleter, asked, faults, recovering, overtaken>>

CreateModelRunIfAbsent ==
    /\ \E e \in 1 .. MaxEffort : effort' = e /\ budget' = e
    /\ exists' = TRUE
    /\ status' = "queued"
    /\ complete' = FALSE
    /\ aborted' = FALSE

\* The body has been read: the job, the lease and the run are looked at again,
\* and the run is created.
CreateRun(c) ==
    /\ creator[c] = "reading"
    /\ \/ /\ Admitted /\ ~exists
          /\ CreateModelRunIfAbsent
          /\ creator' = [creator EXCEPT ![c] = "commit"]
       \/ /\ ~Admitted \/ exists \/ faults < MaxFaults
          /\ creator' = [creator EXCEPT ![c] = "idle"]
          /\ UNCHANGED <<exists, status, complete, aborted, effort, budget>>
    /\ faults' = IF Admitted /\ ~exists /\ ~exists' THEN faults + 1 ELSE faults
    /\ UNCHANGED <<job, lease, exec, extender, runner, granted, phase, verdict,
                   local, deleter, asked, recovering, overtaken>>

\* getRuntimeSourceCommit has answered; nothing is looked at again.
LaunchCreated(c) ==
    /\ creator[c] = "commit"
    /\ creator' = [creator EXCEPT ![c] = "idle"]
    /\ UNCHANGED effort
    /\ Launch
    /\ UNCHANGED <<job, lease, exists, status, complete, budget, extender, local,
                   deleter, faults, recovering>>

-----------------------------------------------------------------------------
(* retryModelRun, extendModelRun, cancelModelRun *)

Retryable == status \in Restartable /\ ~exec

\* Mutant of RetryRun: is_complete is not reset.
RetryRunStaysComplete ==
    /\ Admitted /\ exists /\ complete
    /\ Retryable
    /\ Mutate("queued", complete)
    /\ UNCHANGED effort
    /\ Launch
    /\ UNCHANGED <<job, lease, exists, budget, creator, extender, local, deleter,
                   recovering>>

RetryRun ==
    /\ Admitted /\ exists /\ complete
    /\ Retryable
    /\ UNCHANGED effort
    /\ \/ Mutate("queued", FALSE) /\ Launch
       \/ MutateThrows /\ Unlaunched
    /\ UNCHANGED <<job, lease, exists, budget, creator, extender, local, deleter,
                   recovering>>

ExtendRequest ==
    /\ extender = "idle"
    /\ Admitted /\ exists
    /\ status \notin {"validating", "cancelling"}
    /\ extender' = "reading"
    /\ UNCHANGED <<job, lease, exists, status, complete, aborted, effort, budget,
                   exec, creator, runner, granted, phase, verdict, local, deleter,
                   asked, faults, recovering, overtaken>>

\* extendModelRun of the store refuses a phase that cannot be extended and a
\* finished run whose execution is still claimed.
Extensible ==
    /\ Admitted /\ exists
    /\ status \notin {"validating", "cancelling"}
    /\ status \in Active \/ ~exec

AddEffort(more) == effort' = effort + more /\ budget' = effort + more

\* Mutant of ExtendRun: the effort is judged before the body is read only.
ExtendRunStaleEffort ==
    /\ extender = "reading"
    /\ extender' = "idle"
    /\ Extensible
    /\ effort' = effort + 1
    /\ budget' = effort'
    /\ UNCHANGED <<job, lease, exists, status, complete, aborted, exec, creator,
                   runner, granted, phase, verdict, local, deleter, asked, faults,
                   recovering, overtaken>>

\* The body has been read: more effort for an active run, or a new run with it
\* for a finished one.
ExtendRun ==
    /\ extender = "reading"
    /\ extender' = "idle"
    /\ \E more \in 1 .. MaxEffort :
          \/ /\ Extensible /\ effort + more <= MaxEffort
             /\ AddEffort(more)
             /\ IF status \in Active
                THEN Mutate(status, complete) /\ Unlaunched
                ELSE Mutate("queued", FALSE) /\ Launch
          \/ /\ IF Extensible /\ effort + more <= MaxEffort
                THEN MutateThrows
                ELSE UNCHANGED <<status, complete, faults>>
             /\ UNCHANGED <<effort, budget>> /\ Unlaunched
    /\ UNCHANGED <<job, lease, exists, creator, local, deleter, recovering>>

CancelRun ==
    /\ exists /\ ~complete /\ ~aborted
    /\ RequestCancellation
    /\ UNCHANGED <<job, lease, exists, complete, effort, budget, exec, creator,
                   extender, runner, granted, phase, verdict, local, deleter,
                   recovering, overtaken>>

-----------------------------------------------------------------------------
(* runModel *)

\* The catch block of runModel up to its log: the signal is read here.
EnterCatch ==
    IF exists /\ ~complete
    THEN runner' = "catch" /\ verdict' = IF aborted THEN "cancelled" ELSE "failed"
    ELSE runner' = "release" /\ UNCHANGED verdict

\* The rest of runClaimedModel before the pipeline; any step of it may throw.
StartPipeline ==
    /\ runner = "setup"
    /\ \/ runner' = "pipeline" /\ UNCHANGED verdict
       \/ EnterCatch
    /\ UNCHANGED <<job, lease, exists, status, complete, aborted, effort, budget,
                   exec, creator, extender, granted, phase, local, deleter, asked,
                   faults, recovering, overtaken>>

\* The pipeline is at work, in the runner or in a local run.
PipelineRuns == local = "running" \/ (runner = "pipeline" /\ phase # "published")

\* find_reference_graphs, which starts the segment, and the two waits of
\* before_stage_start reset is_complete.
WaitUpdate == Mutate("working", FALSE)

\* run_simulations writes the status alone, as repair_spice_model does for each
\* candidate: is_complete stays what it is.
ValidatingUpdate == Mutate("validating", complete)
RepairUpdate == \E st \in {"working", "validating"} : Mutate(st, complete)

\* Status updates of the stages and of before_stage_start.
StageUpdate ==
    /\ PipelineRuns
    /\ \/ WaitUpdate
       \/ (runner = "pipeline" => phase = "early") /\ ValidatingUpdate
       \/ (runner = "pipeline" => phase = "repair") /\ RepairUpdate
    /\ UNCHANGED <<job, lease, exists, aborted, effort, budget, exec, creator,
                   extender, runner, granted, phase, verdict, local, deleter,
                   asked, recovering, overtaken>>

StartRepairBudget == budget' = granted

\* repair_spice_model: startRepairBudget overwrites the budget of the record
\* with the one the pipeline was launched with.
StartRepair ==
    /\ runner = "pipeline" /\ phase = "early"
    /\ exists
    /\ phase' = "repair"
    /\ StartRepairBudget
    /\ UNCHANGED <<job, lease, exists, status, complete, aborted, effort, exec,
                   creator, extender, runner, granted, verdict, local, deleter,
                   asked, faults, recovering, overtaken>>

EndRepair ==
    /\ runner = "pipeline" /\ phase \in {"early", "repair"}
    /\ phase' = "late"
    /\ UNCHANGED <<job, lease, exists, status, complete, aborted, effort, budget,
                   exec, creator, extender, runner, granted, verdict, local,
                   deleter, asked, faults, recovering, overtaken>>

\* The publication pointer is in place: the last stage is past its commit
\* barrier, and runPipeline will return completed (PipelineRunner).
PublishModel ==
    /\ runner = "pipeline" /\ phase = "late"
    /\ phase' = "published"
    /\ UNCHANGED <<job, lease, exists, status, complete, aborted, effort, budget,
                   exec, creator, extender, runner, granted, verdict, local,
                   deleter, asked, faults, recovering, overtaken>>

\* Mutant of Outcome: the signal is looked at before the publication.
OutcomeSignalFirst(result) ==
    IF aborted THEN "cancelled" ELSE IF result = "completed" THEN "complete" ELSE result

\* Mutant of Outcome: the signal is not looked at.
OutcomeIgnoresSignal(result) == IF result = "completed" THEN "complete" ELSE result

\* What runClaimedModel makes of the result of the pipeline.
Outcome(result) ==
    IF result = "completed" THEN "complete"
    ELSE IF result = "cancelled" \/ aborted THEN "cancelled"
    ELSE result

\* runPipeline returns, and the outcome is prepared up to the log; runPipeline
\* or an update on the way may throw instead.
PipelineEnds ==
    /\ runner = "pipeline"
    /\ \/ /\ phase = "published"
          /\ verdict' = Outcome("completed")
          /\ runner' = "committed"
       \/ /\ phase # "published"
          /\ \E result \in {"completed", "failed", "unsupported", "cancelled"} :
                /\ result = "completed" => phase = "late"
                /\ result = "cancelled" => aborted
                /\ verdict' = Outcome(result)
          /\ runner' = "settle"
       \/ phase # "published" /\ EnterCatch
    /\ UNCHANGED <<job, lease, exists, status, complete, aborted, effort, budget,
                   exec, creator, extender, granted, phase, local, deleter, asked,
                   faults, recovering, overtaken>>

\* finishCommittedSegment: a failed checkpoint does not change the outcome.
FinishCommitted ==
    /\ runner = "committed"
    /\ runner' = "release"
    /\ IF exists
       THEN status' = verdict /\ complete' = TRUE
       ELSE UNCHANGED <<status, complete>>
    /\ faults' \in {faults, faults + 1} \cap 0 .. MaxFaults
    /\ UNCHANGED <<job, lease, exists, aborted, effort, budget, exec, creator,
                   extender, granted, phase, verdict, local, deleter, asked,
                   recovering, overtaken>>

\* finishSegment after the log.
FinishSegment ==
    /\ runner = "settle"
    /\ \/ Mutate(verdict, TRUE) /\ runner' = "release" /\ UNCHANGED verdict
       \/ MutateThrows /\ EnterCatch
    /\ UNCHANGED <<job, lease, exists, aborted, effort, budget, exec, creator,
                   extender, granted, phase, local, deleter, asked, recovering,
                   overtaken>>

\* Mutant of FinishCaught: a failure that could not be written is left at that.
FinishCaughtGivesUp ==
    /\ runner = "catch"
    /\ \/ Mutate(verdict, TRUE) /\ runner' = "release" /\ UNCHANGED exec
       \/ MutateThrows /\ runner' = "idle" /\ exec' = FALSE
    /\ UNCHANGED <<job, lease, exists, aborted, effort, budget, creator, extender,
                   granted, phase, verdict, local, deleter, asked, overtaken,
                   recovering>>

\* finishSegment in the catch block; if it throws too, the claim is released
\* and recordUnexpectedRunnerFailure finds the run unfinished, up to its log.
FinishCaught ==
    /\ runner = "catch"
    /\ \/ Mutate(verdict, TRUE) /\ runner' = "release" /\ UNCHANGED <<exec, recovering>>
       \/ /\ MutateThrows
          /\ runner' = "idle"
          /\ exec' = FALSE
          /\ recovering' = IF exists /\ ~complete THEN recovering + 1 ELSE recovering
    /\ UNCHANGED <<job, lease, exists, aborted, effort, budget, creator, extender,
                   granted, phase, verdict, local, deleter, asked, overtaken>>

\* recordUnexpectedRunnerFailure after the log: the run is looked at again, but
\* not whether it is still the execution that failed.
RecordUnexpected ==
    /\ recovering > 0
    /\ recovering' = recovering - 1
    /\ \/ /\ exists /\ ~complete
          /\ Mutate("failed", TRUE)
          /\ overtaken' = (overtaken \/ runner \in Working \/ local = "running")
       \/ exists /\ ~complete /\ MutateThrows /\ UNCHANGED overtaken
       \/ (~exists \/ complete) /\ UNCHANGED <<status, complete, faults, overtaken>>
    /\ UNCHANGED <<job, lease, exists, aborted, effort, budget, exec, creator,
                   extender, runner, granted, phase, verdict, local, deleter,
                   asked>>

ReleaseExecution ==
    /\ runner = "release"
    /\ runner' = "idle"
    /\ exec' = FALSE
    /\ UNCHANGED <<job, lease, exists, status, complete, aborted, effort, budget,
                   creator, extender, granted, phase, verdict, local, deleter,
                   asked, faults, recovering, overtaken>>

-----------------------------------------------------------------------------
(* createPipelineJobRun for spice_generation *)

\* The lease is looked at before the input files are retained.
LocalPrepare ==
    /\ local = "idle"
    /\ Admitted /\ exists /\ phase # "none"
    /\ local' = "preparing"
    /\ UNCHANGED <<job, lease, exists, status, complete, aborted, effort, budget,
                   exec, creator, extender, runner, granted, phase, verdict,
                   deleter, asked, faults, recovering, overtaken>>

\* claimModelExecution and startSegment, which leaves a run alone whose segment
\* was never finished (such a run is not complete); the claim may be refused,
\* startSegment may throw, and so may the update after it, when the run is
\* already marked as working.
LocalClaim ==
    /\ local = "preparing"
    /\ \/ /\ Claimable
          /\ exec' = TRUE
          /\ aborted' = FALSE
          /\ \E st \in {"working"} \cup (IF complete THEN {} ELSE {status}) : Mutate(st, FALSE)
          /\ overtaken' = FALSE
          /\ local' = "running"
       \/ /\ Claimable
          /\ aborted' = FALSE
          /\ \/ MutateThrows
             \/ /\ exists /\ faults < MaxFaults
                /\ faults' = faults + 1
                /\ status' = "working"
                /\ complete' = FALSE
          /\ local' = "idle"
          /\ UNCHANGED <<exec, overtaken>>
       \/ /\ local' = "idle"
          /\ UNCHANGED <<exec, aborted, status, complete, overtaken, faults>>
    /\ UNCHANGED <<job, lease, exists, effort, budget, creator, extender, runner,
                   granted, phase, verdict, deleter, asked, recovering>>

\* finishSegment with the result, else with the failure unless the run is
\* complete; then the claim goes.
LocalEnds ==
    /\ local = "running"
    /\ local' = "idle"
    /\ exec' = FALSE
    /\ \/ \E st \in {"complete", "failed", "cancelled"} :
             (st = "cancelled" => aborted) /\ Mutate(st, TRUE)
       \/ MutateThrows
       \/ complete /\ UNCHANGED <<status, complete, faults>>
    /\ UNCHANGED <<job, lease, exists, aborted, effort, budget, creator, extender,
                   runner, granted, phase, verdict, deleter, asked, recovering,
                   overtaken>>

-----------------------------------------------------------------------------
(* deleteJob, as far as the model run is concerned *)

DeleteStart ==
    /\ deleter = "idle"
    /\ Admitted
    /\ \/ /\ exists /\ ~complete /\ ~aborted
          /\ RequestCancellation
          /\ IF faults' = faults
             THEN lease' = TRUE /\ deleter' = "wait"
             ELSE UNCHANGED <<lease, deleter>>
       \/ /\ exists /\ ~complete /\ aborted
          /\ lease' = TRUE
          /\ deleter' = "wait"
          /\ UNCHANGED <<status, aborted, asked, faults>>
       \/ /\ ~exists \/ complete
          /\ lease' = TRUE
          /\ deleter' = "job"
          /\ UNCHANGED <<status, aborted, asked, faults>>
    /\ UNCHANGED <<job, exists, complete, effort, budget, exec, creator, extender,
                   runner, granted, phase, verdict, local, recovering, overtaken>>

\* Mutant of RunStopped: the five seconds are taken for success.
RunStoppedAnyway ==
    /\ deleter = "wait"
    /\ deleter' = "job"
    /\ UNCHANGED <<job, lease, exists, status, complete, aborted, effort, budget,
                   exec, creator, extender, runner, granted, phase, verdict,
                   local, asked, faults, recovering, overtaken>>

\* waitForModelRunCompletion: the completion, or model_stop_timeout before it.
RunStopped ==
    /\ deleter = "wait"
    /\ \/ complete /\ deleter' = "job" /\ UNCHANGED lease
       \/ ~complete /\ deleter' = "idle" /\ lease' = FALSE
    /\ UNCHANGED <<job, exists, status, complete, aborted, effort, budget, exec,
                   creator, extender, runner, granted, phase, verdict, local,
                   asked, faults, recovering, overtaken>>

\* The job itself is stopped and dropped with its model run, or is kept.
DropJob ==
    /\ deleter = "job"
    /\ deleter' = "idle"
    /\ lease' = FALSE
    /\ \/ job' = FALSE /\ exists' = FALSE
       \/ UNCHANGED <<job, exists>>
    /\ UNCHANGED <<status, complete, aborted, effort, budget, exec, creator,
                   extender, runner, granted, phase, verdict, local, asked,
                   faults, recovering, overtaken>>

-----------------------------------------------------------------------------
RunnerStep ==
    \/ StartPipeline \/ PipelineEnds \/ FinishCommitted \/ FinishSegment
    \/ FinishCaught \/ RecordUnexpected \/ ReleaseExecution

Launches == \E c \in Creators : LaunchCreated(c)

Next ==
    \/ \E c \in Creators : CreateRequest(c) \/ CreateRun(c)
    \/ Launches
    \/ RetryRun \/ ExtendRequest \/ ExtendRun \/ CancelRun
    \/ RunnerStep \/ StageUpdate \/ StartRepair \/ EndRepair \/ PublishModel
    \/ LocalPrepare \/ LocalClaim \/ LocalEnds
    \/ DeleteStart \/ RunStopped \/ DropJob

Spec == Init /\ [][Next]_vars

\* Awaits return, pipelines end (PipelineRunner), waits are bounded by timers.
FairSpec ==
    /\ Spec
    /\ WF_vars(Launches)
    /\ WF_vars(RunnerStep)
    /\ WF_vars(LocalEnds)
    /\ WF_vars(RunStopped \/ DropJob)
-----------------------------------------------------------------------------
(* Properties *)

\* Every variable has its type; the effort stays within its limit although it
\* is judged again after an await.
TypeOK ==
    /\ job \in BOOLEAN
    /\ lease \in BOOLEAN
    /\ exists \in BOOLEAN
    /\ status \in Status
    /\ complete \in BOOLEAN
    /\ aborted \in BOOLEAN
    /\ effort \in 1 .. MaxEffort
    /\ budget \in 1 .. MaxEffort
    /\ exec \in BOOLEAN
    /\ creator \in [Creators -> {"idle", "reading", "commit"}]
    /\ extender \in {"idle", "reading"}
    /\ runner \in Runner
    /\ granted \in 0 .. MaxEffort
    /\ phase \in Phases
    /\ verdict \in Restartable \cup {"none"}
    /\ local \in {"idle", "preparing", "running"}
    /\ deleter \in {"idle", "wait", "job"}
    /\ recovering \in 0 .. MaxFaults
    /\ asked \in BOOLEAN
    /\ overtaken \in BOOLEAN
    /\ faults \in 0 .. MaxFaults

\* One execution at a time: the runner and a local run never overlap, and each
\* holds the claim as long as it works.
ExecutionExclusive ==
    /\ runner \in Working \cup {"release"} => exec /\ local # "running"
    /\ local = "running" => exec

\* is_complete and status tell the same story, whichever handler wrote last, and
\* while an execution works the run is incomplete, so that neither retry nor
\* delete takes it for finished. Only where the recovery of an earlier runner,
\* whose failure could not be written, ends the run under the execution can a
\* stage that writes its status alone leave a complete run "validating" or
\* "running"; no run is ever shown with a final status and incomplete.
CompletionMatchesStatus ==
    exists =>
        /\ status \in Restartable => complete
        /\ complete /\ ~overtaken => status \in Restartable
        /\ runner \in Working \/ local = "running" => overtaken \/ ~complete

\* deleteJob goes on to the job only when no runner is at work on the model.
DeletionSafe ==
    deleter = "job" /\ ~overtaken => runner \notin Working

\* A model run has one execution at a time, which its record shows, and its job is
\* not deleted under it.
RunIntegrity ==
    TypeOK /\ ExecutionExclusive /\ CompletionMatchesStatus /\ DeletionSafe

\* A published model is reported complete, whatever was cancelled or failed to
\* be written after the commit; and a cancellation that reaches a working runner
\* in time is not reported as a failure or as an unsupported datasheet.
OutcomeHonoured ==
    [][(runner \in Working /\ runner' = "release" /\ exists) =>
          /\ phase = "published" => status' = "complete" /\ complete'
          /\ asked /\ ~overtaken => status' \in {"cancelled", "complete"}]_vars

\* A launched run comes to an end although the write of its end fails: the catch
\* block records the failure, or else the handler of the launch does; the run is
\* left open only when a second write fails too.
RunSettles ==
    runner \in Working ~> (complete \/ ~exists \/ faults > 1)

=============================================================================
