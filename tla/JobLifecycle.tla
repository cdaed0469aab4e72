---------------------------- MODULE JobLifecycle ----------------------------
(***************************************************************************)
(* The life of one job in the server: createJobFromRequest registers it,   *)
(* runJob runs its two pipelines in one workspace, cancelJob and deleteJob *)
(* interrupt it, an in-place local run executes a pipeline again, and a    *)
(* restart restores it from job.json.  JobStore is the state they share:   *)
(* the record, its cancellation controller, the deletion lease and the set *)
(* of pipelines whose execution is claimed.                                *)
(*                                                                         *)
(* JavaScript runs each handler from one await to the next without         *)
(* interruption; that is one action here.  A write of job.json (persist)   *)
(* may fail, at most MaxFaults times in a behaviour.                       *)
(***************************************************************************)
EXTENDS Naturals, FiniteSets

CONSTANTS
    Deleters,       \* concurrent DELETE requests for the job
    NoLease,        \* the absence of a deletion lease
    MaxFaults,      \* how many writes or renames may fail
    MaxRestarts     \* how many times the server may stop and start again

Pipelines == {"component_generation", "typical_application"}

ASSUME JobAssumption ==
    /\ NoLease \notin Deleters
    /\ MaxFaults \in Nat
    /\ MaxRestarts \in Nat

VARIABLES
    creator,    \* the await createJobFromRequest stands at
    present,    \* job_map has the job
    status,     \* display_status ("working": agent_running or building)
    complete,   \* is_complete
    ready,      \* component_ready
    aborted,    \* the current cancellation_controller has fired
    stale,      \* the controller runJob holds has fired and was replaced
    lease,      \* job_deletion_lease_map: the DELETE that holds the lease
    active,     \* active_pipeline_execution_map
    runner,     \* the await runJob stands at
    verdict,    \* the status runJob is about to publish
    pipe,       \* the two invocations of runPipeline
    local,      \* the in-place local run
    deleter,    \* the await each DELETE stands at
    saved,      \* display_status in job.json of the job directory
    tomb,       \* display_status in job.json of the tombstone directory
    asked,      \* history: a cancellation was requested while the execution could see it
    deleted,    \* history: deleteJob removed the job from the store
    torn,       \* history: runJob let go of the job before all of it had ended
    faults,
    restarts

vars == <<creator, present, status, complete, ready, aborted, stale, lease,
          active, runner, verdict, pipe, local, deleter, saved, tomb, asked,
          deleted, torn, faults, restarts>>

Final == {"complete", "failed", "cancelled"}
Status == {"queued", "working", "cancelling"} \cup Final
OnDisk == Status \cup {"none"}
Results == {"completed", "failed", "cancelled", "threw"}

\* The awaits of runJob during which it owns both pipelines.
Running == {"setup", "running", "settle", "catch"}
\* The awaits of deleteJob during which it owns the lease.
Deleting == {"model", "modelOnly", "wait", "rename", "drop", "restore"}

\* The signal runJob read before it claimed the execution.
Signal == aborted \/ stale

-----------------------------------------------------------------------------
(* JobStore *)

\* updateJob when persist succeeds: the checkpoint is written, creating the
\* directory if need be, before the record changes.
Update(st, isComplete) ==
    /\ present
    /\ status' = st
    /\ complete' = isComplete
    /\ saved' = st
    /\ UNCHANGED faults

\* updateJob when it throws: the job is gone, or the checkpoint is not written.
UpdateThrows ==
    /\ present => faults < MaxFaults
    /\ faults' = IF present THEN faults + 1 ELSE faults
    /\ UNCHANGED <<status, complete, saved>>

\* Mutant of Claimable: a claim does not exclude the other pipeline.
ClaimableBeside == present /\ lease = NoLease

Claimable == present /\ lease = NoLease /\ active = {}

\* Mutant of Claim: the execution inherits the controller that has fired.
ClaimKeepsController(pipelines) ==
    /\ Claimable
    /\ active' = pipelines
    /\ UNCHANGED <<stale, aborted>>

\* claimPipelineExecution and claimCoordinatedPipelineExecutions: a controller
\* that has fired is replaced.
Claim(pipelines) ==
    /\ Claimable
    /\ active' = pipelines
    /\ stale' = (stale \/ aborted)
    /\ aborted' = FALSE

\* The execution has not settled its outcome yet.
InTime == verdict = "none" \/ local = "running"

\* requestCancellation: a completed or already aborted job is left alone.
RequestCancellation ==
    IF complete \/ aborted
    THEN UNCHANGED <<status, saved, aborted, asked>>
    ELSE /\ status' = "cancelling"
         /\ saved' = "cancelling"
         /\ aborted' = TRUE
         /\ asked' = (asked \/ InTime)

\* Mutant of RequestCancellationThrows: the record changes before the checkpoint.
RequestCancellationThrowsDirty ==
    /\ ~complete /\ ~aborted
    /\ faults < MaxFaults
    /\ faults' = faults + 1
    /\ aborted' = TRUE
    /\ asked' = (asked \/ InTime)
    /\ status' = "cancelling"
    /\ UNCHANGED saved

\* persist failed: the controller fires all the same and the error is thrown.
RequestCancellationThrows ==
    /\ ~complete /\ ~aborted
    /\ faults < MaxFaults
    /\ faults' = faults + 1
    /\ aborted' = TRUE
    /\ asked' = (asked \/ InTime)
    /\ UNCHANGED <<status, saved>>

-----------------------------------------------------------------------------
(* createJobFromRequest and the launch of the runner *)

Init ==
    /\ creator = "idle"
    /\ present = FALSE
    /\ status = "queued"
    /\ complete = FALSE
    /\ ready = FALSE
    /\ aborted = FALSE
    /\ stale = FALSE
    /\ lease = NoLease
    /\ active = {}
    /\ runner = "none"
    /\ verdict = "none"
    /\ pipe = [p \in Pipelines |-> "idle"]
    /\ local = "idle"
    /\ deleter = [d \in Deleters |-> "idle"]
    /\ saved = "none"
    /\ tomb = "none"
    /\ asked = FALSE
    /\ deleted = FALSE
    /\ torn = FALSE
    /\ faults = 0
    /\ restarts = 0

\* createJob; the upload is logged before anything else happens to the job.
CreateJob ==
    /\ creator = "idle"
    /\ \/ /\ creator' = "logging"
          /\ present' = TRUE
          /\ saved' = "queued"
          /\ UNCHANGED faults
       \/ /\ faults < MaxFaults
          /\ faults' = faults + 1
          /\ creator' = "done"
          /\ UNCHANGED <<present, saved>>
    /\ UNCHANGED <<status, complete, ready, aborted, stale, lease, active,
                   runner, verdict, pipe, local, deleter, tomb, asked, deleted,
                   torn, restarts>>

\* create_pspice_model: launchModelRun looks at the lease, then awaits the
\* source commit; when the job is gone or being deleted the request ends and
\* the component runner is never launched.
LaunchModel ==
    /\ creator = "logging"
    /\ creator' = IF present /\ lease = NoLease THEN "model" ELSE "done"
    /\ UNCHANGED <<present, status, complete, ready, aborted, stale, lease,
                   active, runner, verdict, pipe, local, deleter, saved, tomb,
                   asked, deleted, faults, torn, restarts>>

\* Mutant of LaunchRunner: the signal is read after the claim.
LaunchRunnerClaimsFirst ==
    /\ creator \in {"logging", "model"}
    /\ creator' = "done"
    /\ \/ /\ Claimable
          /\ active' = Pipelines
          /\ aborted' = FALSE
          /\ stale' = FALSE
          /\ runner' = "setup"
       \/ ~Claimable /\ UNCHANGED <<active, stale, aborted, runner>>
    /\ UNCHANGED <<present, status, complete, ready, lease, verdict, pipe, local,
                   deleter, saved, tomb, asked, deleted, faults, torn, restarts>>

\* launchJobRunner and runJob up to its first await.  The signal is read before
\* the claim, which replaces a controller that has already fired.
LaunchRunner ==
    /\ creator \in {"logging", "model"}
    /\ creator' = "done"
    /\ \/ Claim(Pipelines) /\ runner' = "setup"
       \/ ~Claimable /\ UNCHANGED <<active, stale, aborted, runner>>
    /\ UNCHANGED <<present, status, complete, ready, lease, verdict, pipe, local,
                   deleter, saved, tomb, asked, deleted, faults, torn, restarts>>

-----------------------------------------------------------------------------
(* runJob *)

Caught == IF Signal THEN "cancelled" ELSE "failed"

\* The two invocation directories, then both pipelines start.
StartPipelines ==
    /\ runner = "setup"
    /\ \/ /\ runner' = "running"
          /\ pipe' = [p \in Pipelines |-> "running"]
          /\ UNCHANGED verdict
       \/ /\ runner' = "catch"
          /\ verdict' = Caught
          /\ UNCHANGED pipe
    /\ UNCHANGED <<creator, present, status, complete, ready, aborted, stale,
                   lease, active, local, deleter, saved, tomb, asked, deleted,
                   faults, torn, restarts>>

\* What a stage or the snapshot observer of a running pipeline writes into the
\* job: progress, and the milestones of the component pipeline, whose first
\* stage marks the job incomplete and whose last one marks the component ready.
StageUpdate(p) ==
    /\ pipe[p] = "running"
    /\ \/ \E st \in {status, "working"} : Update(st, complete) /\ UNCHANGED ready
       \/ p = "component_generation" /\ ~ready /\ Update("working", FALSE) /\ UNCHANGED ready
       \/ p = "component_generation" /\ Update("working", complete) /\ ready' = TRUE
    /\ UNCHANGED <<creator, present, aborted, stale, lease, active, runner,
                   verdict, pipe, local, deleter, tomb, asked, deleted, torn, restarts>>

\* runPipeline returns or throws.  It is cancelled only if the signal fired,
\* and neither pipeline completes without a validated component.
PipelineEnds(p) ==
    /\ pipe[p] = "running"
    /\ \E r \in Results :
          /\ r = "cancelled" => Signal
          /\ r = "completed" => ready
          /\ pipe' = [pipe EXCEPT ![p] = r]
    /\ UNCHANGED <<creator, present, status, complete, ready, aborted, stale,
                   lease, active, runner, verdict, local, deleter, saved, tomb,
                   asked, deleted, faults, torn, restarts>>

\* The last update of runJob, and the finally block in the same turn.
Publish(st) ==
    /\ Update(st, TRUE)
    /\ active' = {}
    /\ runner' = "done"

EnterCatch ==
    /\ UpdateThrows
    /\ runner' = "catch"
    /\ verdict' = Caught
    /\ UNCHANGED active

Joined ==
    IF Signal \/ \E p \in Pipelines : pipe[p] = "cancelled" THEN "cancelled"
    ELSE IF \E p \in Pipelines : pipe[p] = "failed" THEN "failed"
    ELSE "complete"

\* Promise.all: every pipeline returned, or one of them threw while the other
\* may still be running.  Success is published at once, the rest after a log.
JoinPipelines ==
    /\ runner = "running"
    /\ \/ /\ \A p \in Pipelines : pipe[p] \in Results \ {"threw"}
          /\ \/ /\ Joined = "complete"
                /\ \/ verdict' = Joined /\ Publish("complete")
                   \/ EnterCatch
             \/ /\ Joined # "complete"
                /\ verdict' = Joined
                /\ runner' = "settle"
                /\ UNCHANGED <<active, status, complete, saved, faults>>
       \/ /\ \E p \in Pipelines : pipe[p] = "threw"
          /\ verdict' = Caught
          /\ runner' = "catch"
          /\ UNCHANGED <<active, status, complete, saved, faults>>
    /\ UNCHANGED <<creator, present, ready, aborted, stale, lease, pipe, local,
                   deleter, tomb, asked, deleted, torn, restarts>>

Settle ==
    /\ runner = "settle"
    /\ \/ Publish(verdict) /\ UNCHANGED verdict
       \/ EnterCatch
    /\ UNCHANGED <<creator, present, ready, aborted, stale, lease, pipe, local,
                   deleter, tomb, asked, deleted, torn, restarts>>

\* Mutant of Catch: a failure that could not be written is left at that.
CatchGivesUp ==
    /\ runner = "catch"
    /\ active' = {}
    /\ runner' = "done"
    /\ torn' = TRUE
    /\ Update(verdict, TRUE) \/ UpdateThrows
    /\ UNCHANGED <<creator, present, ready, aborted, stale, lease, verdict, pipe,
                   local, deleter, tomb, asked, deleted, restarts>>

\* The catch block.  When its update throws too, the execution is released and
\* recordUnexpectedRunnerFailure looks at the job in the same turn.
Catch ==
    /\ runner = "catch"
    /\ \/ /\ Publish(verdict)
          /\ torn' = (torn \/ \E p \in Pipelines : pipe[p] = "running")
          /\ UNCHANGED verdict
       \/ /\ UpdateThrows
          /\ active' = {}
          /\ torn' = TRUE
          /\ IF present /\ ~complete
             THEN runner' = "unexpected" /\ verdict' = IF ready THEN "complete" ELSE "failed"
             ELSE runner' = "done" /\ UNCHANGED verdict
    /\ UNCHANGED <<creator, present, ready, aborted, stale, lease, pipe, local,
                   deleter, tomb, asked, deleted, restarts>>

\* recordUnexpectedRunnerFailure after its log.
RecordUnexpected ==
    /\ runner = "unexpected"
    /\ runner' = "done"
    /\ Update(verdict, TRUE) \/ UpdateThrows
    /\ UNCHANGED <<creator, present, ready, aborted, stale, lease, active,
                   verdict, pipe, local, deleter, tomb, asked, deleted, torn, restarts>>

-----------------------------------------------------------------------------
(* createPipelineJobRun in place *)

\* The lease is looked at before the input files are retained.
LocalPrepare ==
    /\ local = "idle"
    /\ present /\ lease = NoLease
    /\ \E p \in Pipelines : pipe[p] # "idle"
    /\ local' = "preparing"
    /\ UNCHANGED <<creator, present, status, complete, ready, aborted, stale,
                   lease, active, runner, verdict, pipe, deleter, saved, tomb,
                   asked, deleted, faults, torn, restarts>>

\* The claim is refused, or the job is marked incomplete in the same turn.
LocalClaim ==
    /\ local = "preparing"
    /\ \/ /\ \E p \in Pipelines : Claim({p})
          /\ Update("working", FALSE)
          /\ local' = "running"
          /\ asked' = FALSE
       \/ /\ Claimable
          /\ stale' = (stale \/ aborted)
          /\ aborted' = FALSE
          /\ UpdateThrows
          /\ local' = "idle"
          /\ UNCHANGED <<active, asked>>
       \/ /\ local' = "idle"
          /\ UNCHANGED <<active, stale, aborted, status, complete, saved, faults, asked>>
    /\ UNCHANGED <<creator, present, ready, lease, runner, verdict, pipe,
                   deleter, tomb, deleted, torn, restarts>>

LocalUpdate ==
    /\ local = "running"
    /\ \E st \in {status, "working"} : Update(st, complete)
    /\ ready' \in {ready, TRUE}
    /\ UNCHANGED <<creator, present, aborted, stale, lease, active, runner,
                   verdict, pipe, local, deleter, tomb, asked, deleted, torn, restarts>>

\* Mutant of TerminalJobStatus: the status of the pipeline is published as it is.
TerminalJobStatusRaw(r) == r

TerminalJobStatus(r) == IF r = "completed" THEN "complete" ELSE r

\* The result is published; if that throws, the failure is; both throw once the
\* job is gone.  The execution is released in every case.
LocalEnds ==
    /\ local = "running"
    /\ local' = "idle"
    /\ active' = {}
    /\ \/ \E r \in {"completed", "failed", "cancelled"} :
             /\ r = "cancelled" => aborted
             /\ Update(TerminalJobStatus(r), TRUE)
       \/ /\ present
          /\ faults < MaxFaults
          /\ faults' = faults + 1
          /\ status' = "failed"
          /\ saved' = "failed"
          /\ complete' = TRUE
       \/ UpdateThrows
    /\ UNCHANGED <<creator, present, ready, aborted, stale, lease, runner,
                   verdict, pipe, deleter, tomb, asked, deleted, torn, restarts>>

-----------------------------------------------------------------------------
(* cancelJob and deleteJob *)

CancelJob ==
    /\ present /\ ~complete /\ ~aborted
    /\ \/ RequestCancellation /\ UNCHANGED faults
       \/ RequestCancellationThrows
    /\ UNCHANGED <<creator, present, complete, ready, stale, lease, active,
                   runner, verdict, pipe, local, deleter, tomb, deleted, torn, restarts>>

Goto(d, label) == deleter' = [deleter EXCEPT ![d] = label]
Release(d) == lease' = NoLease /\ Goto(d, "idle")

\* The job is stopped unless it was complete when deleteJob first looked.
StopJob(d, seenComplete) ==
    IF seenComplete
    THEN /\ Goto(d, "rename")
         /\ lease' = d
         /\ UNCHANGED <<status, saved, aborted, asked, faults>>
    ELSE \/ /\ RequestCancellation
            /\ Goto(d, "wait")
            /\ lease' = d
            /\ UNCHANGED faults
         \/ RequestCancellationThrows /\ Release(d)

\* Mutant of AcquireLease: the map is not consulted.
AcquireLeaseBlindly(d) ==
    deleter[d] = "idle" /\ present

AcquireLease(d) ==
    deleter[d] = "idle" /\ present /\ lease = NoLease

\* acquireJobDeletionLease, then the job or, first, its model run is stopped.
DeleteStart(d) ==
    /\ AcquireLease(d)
    /\ \/ /\ Goto(d, IF complete THEN "modelOnly" ELSE "model")
          /\ lease' = d
          /\ UNCHANGED <<status, saved, aborted, asked, faults>>
       \/ StopJob(d, complete)
    /\ UNCHANGED <<creator, present, complete, ready, stale, active, runner,
                   verdict, pipe, local, tomb, deleted, torn, restarts>>

\* The model run completed, or model_stop_timeout.
ModelStopped(d) ==
    /\ deleter[d] \in {"model", "modelOnly"}
    /\ \/ StopJob(d, deleter[d] = "modelOnly")
       \/ Release(d) /\ UNCHANGED <<status, saved, aborted, asked, faults>>
    /\ UNCHANGED <<creator, present, complete, ready, stale, active, runner,
                   verdict, pipe, local, tomb, deleted, torn, restarts>>

\* Mutant of JobStopped: the five seconds are taken for success.
JobStoppedAnyway(d) ==
    /\ deleter[d] = "wait"
    /\ Goto(d, "rename")
    /\ UNCHANGED <<creator, present, status, complete, ready, aborted, stale,
                   lease, active, runner, verdict, pipe, local, saved, tomb,
                   asked, deleted, faults, torn, restarts>>

\* waitForJobCompletion: the completion event, or job_stop_timeout before it.
JobStopped(d) ==
    /\ deleter[d] = "wait"
    /\ \/ complete /\ Goto(d, "rename") /\ UNCHANGED lease
       \/ ~complete /\ Release(d)
    /\ UNCHANGED <<creator, present, status, complete, ready, aborted, stale,
                   active, runner, verdict, pipe, local, saved, tomb, asked,
                   deleted, faults, torn, restarts>>

\* Mutant of Rename: the directory is copied and its checkpoint stays behind.
RenameCopies(d) ==
    /\ deleter[d] = "rename"
    /\ tomb' = saved
    /\ Goto(d, "drop")
    /\ UNCHANGED <<creator, present, status, complete, ready, aborted, stale,
                   lease, active, runner, verdict, pipe, local, saved, asked,
                   deleted, faults, torn, restarts>>

\* The job directory becomes a tombstone.
Rename(d) ==
    /\ deleter[d] = "rename"
    /\ \/ /\ tomb' = saved
          /\ saved' = "none"
          /\ Goto(d, "drop")
          /\ UNCHANGED <<lease, faults>>
       \/ /\ faults < MaxFaults
          /\ faults' = faults + 1
          /\ Release(d)
          /\ UNCHANGED <<saved, tomb>>
    /\ UNCHANGED <<creator, present, status, complete, ready, aborted, stale,
                   active, runner, verdict, pipe, local, asked, deleted, torn, restarts>>

\* JobStore.deleteJob drops the record, the lease and the claims together.
Drop(d) ==
    /\ deleter[d] = "drop"
    /\ IF complete
       THEN /\ present' = FALSE
            /\ lease' = NoLease
            /\ active' = {}
            /\ deleted' = TRUE
            /\ Goto(d, "purge")
       ELSE /\ Goto(d, "restore")
            /\ UNCHANGED <<present, lease, active, deleted>>
    /\ UNCHANGED <<creator, status, complete, ready, aborted, stale, runner,
                   verdict, pipe, local, saved, tomb, asked, faults, torn, restarts>>

\* job_delete_conflict: the tombstone is renamed back.  When that fails, which
\* it does if the directory exists again, the lease is never released.
RestoreDirectory(d) ==
    /\ deleter[d] = "restore"
    /\ \/ /\ saved = "none"
          /\ saved' = tomb
          /\ tomb' = "none"
          /\ Release(d)
          /\ UNCHANGED faults
       \/ /\ saved = "none" => faults < MaxFaults
          /\ faults' = IF saved = "none" THEN faults + 1 ELSE faults
          /\ Goto(d, "idle")
          /\ UNCHANGED <<saved, tomb, lease>>
    /\ UNCHANGED <<creator, present, status, complete, ready, aborted, stale,
                   active, runner, verdict, pipe, local, asked, deleted, torn, restarts>>

\* The tombstone is removed; a failure is ignored.
Purge(d) ==
    /\ deleter[d] = "purge"
    /\ Goto(d, "idle")
    /\ tomb' \in {tomb, "none"}
    /\ UNCHANGED <<creator, present, status, complete, ready, aborted, stale,
                   lease, active, runner, verdict, pipe, local, saved, asked,
                   deleted, faults, torn, restarts>>

-----------------------------------------------------------------------------
\* restoreJobDirectory: an unfinished job is failed, unless the component it
\* had published can be recovered; a completed one needs that component too.
Restored(st) ==
    CASE st = "complete" -> {IF ready THEN "complete" ELSE "failed"}
      [] st \in Final \ {"complete"} -> {st}
      [] OTHER -> {"failed"} \cup (IF ready THEN {"complete"} ELSE {})

\* The server stops at any point, removes the tombstones it finds and restores
\* the jobs that have a job.json; one whose checkpoint cannot be written again
\* is left out of the store.
Restart ==
    /\ creator # "idle"
    /\ restarts < MaxRestarts
    /\ restarts' = restarts + 1
    /\ \/ /\ saved # "none"
          /\ present' = TRUE
          /\ \E st \in Restored(saved) : status' = st /\ saved' = st
          /\ UNCHANGED faults
       \/ /\ present' = FALSE
          /\ saved # "none" => faults < MaxFaults
          /\ faults' = IF saved # "none" THEN faults + 1 ELSE faults
          /\ UNCHANGED <<status, saved>>
    /\ complete' = TRUE
    /\ creator' = "done"
    /\ aborted' = FALSE
    /\ stale' = FALSE
    /\ lease' = NoLease
    /\ active' = {}
    /\ runner' = "done"
    /\ verdict' = "none"
    /\ pipe' = [p \in Pipelines |-> IF pipe[p] = "running" THEN "threw" ELSE pipe[p]]
    /\ local' = "idle"
    /\ deleter' = [d \in Deleters |-> "idle"]
    /\ asked' = FALSE
    /\ tomb' \in {tomb, "none"}
    /\ UNCHANGED <<ready, deleted, torn>>

RunnerStep ==
    \/ StartPipelines \/ JoinPipelines \/ Settle \/ Catch \/ RecordUnexpected
    \/ \E p \in Pipelines : PipelineEnds(p)

DeleterStep(d) ==
    \/ ModelStopped(d) \/ JobStopped(d) \/ Rename(d) \/ Drop(d)
    \/ RestoreDirectory(d) \/ Purge(d)

Next ==
    \/ CreateJob \/ LaunchModel \/ LaunchRunner
    \/ RunnerStep
    \/ \E p \in Pipelines : StageUpdate(p)
    \/ LocalPrepare \/ LocalClaim \/ LocalUpdate \/ LocalEnds
    \/ CancelJob
    \/ \E d \in Deleters : DeleteStart(d) \/ DeleterStep(d)
    \/ Restart

Spec == Init /\ [][Next]_vars

\* Awaited file operations and logs return, pipelines end (PipelineRunner), and
\* the waits of deleteJob are bounded by timers.
FairSpec ==
    /\ Spec
    /\ WF_vars(LaunchRunner)
    /\ WF_vars(RunnerStep)
    /\ WF_vars(LocalEnds)
    /\ \A d \in Deleters : WF_vars(DeleterStep(d))
-----------------------------------------------------------------------------
(* Properties *)

\* Every variable has its type.
TypeOK ==
    /\ creator \in {"idle", "logging", "model", "done"}
    /\ present \in BOOLEAN
    /\ status \in Status
    /\ complete \in BOOLEAN
    /\ ready \in BOOLEAN
    /\ aborted \in BOOLEAN
    /\ stale \in BOOLEAN
    /\ lease \in Deleters \cup {NoLease}
    /\ active \in SUBSET Pipelines
    /\ runner \in Running \cup {"none", "unexpected", "done"}
    /\ verdict \in Final \cup {"none"}
    /\ pipe \in [Pipelines -> Results \cup {"idle", "running"}]
    /\ local \in {"idle", "preparing", "running"}
    /\ deleter \in [Deleters -> Deleting \cup {"idle", "purge"}]
    /\ saved \in OnDisk
    /\ tomb \in OnDisk
    /\ asked \in BOOLEAN
    /\ deleted \in BOOLEAN
    /\ torn \in BOOLEAN
    /\ faults \in 0 .. MaxFaults
    /\ restarts \in 0 .. MaxRestarts

\* One execution at a time: while runJob is under way it holds both pipelines
\* and no local run executes, and a local run holds exactly its own.  The
\* claims survive cancellation, deletion attempts and failed writes, and a
\* claimed job is registered and incomplete: that is what makes deleteJob wait
\* for the execution, and what lets a cancellation reach it.
ExecutionExclusive ==
    ~torn =>
        /\ runner \in Running => active = Pipelines /\ local # "running"
        /\ local = "running" => Cardinality(active) = 1
        /\ active # {} => present /\ ~complete

\* Two DELETE requests never work on the job at the same time, and one that has
\* decided to rename the directory finds no execution under way, nor does one
\* start until it has dropped the job or given up.
DeletionSafe ==
    \A d \in Deleters :
        /\ deleter[d] \in Deleting => lease = d
        /\ ~torn /\ deleter[d] \in {"rename", "drop"} =>
               active = {} /\ runner \notin Running /\ local # "running"

\* A deleted job does not come back, neither in the store nor, after a restart,
\* from a checkpoint left in its directory.
DeletionIsFinal ==
    deleted /\ ~torn => ~present /\ saved = "none"

\* The live record and job.json never disagree, although each write of the
\* checkpoint may fail: the record follows only a successful write.
RecordMatchesCheckpoint ==
    present /\ ~torn /\ (\A d \in Deleters : deleter[d] \notin {"drop", "restore"})
        => saved = status

\* A job has one execution or one deletion at a time, a deletion is for good, and
\* the record and its checkpoint agree, whichever requests, local runs, failed
\* writes and restarts interleave.
JobIntegrity ==
    /\ TypeOK /\ ExecutionExclusive /\ DeletionSafe /\ DeletionIsFinal
    /\ RecordMatchesCheckpoint

\* A cancellation requested before runJob settled its outcome is honoured: if
\* the job is still there, it ends cancelled, even when the request arrived
\* before the runner was launched and the claim replaced the controller.
\* A local run is cancelled only by a cancellation requested during that run,
\* never by the one that stopped the job before.
CancelHonoured ==
    [][/\ (runner \in Running /\ runner' = "done" /\ present /\ asked /\ restarts' = restarts)
              => (status' = "cancelled")
       /\ (local = "running" /\ local' = "idle" /\ status' = "cancelled") => asked]_vars

\* Every created job comes to an end although the write of its end fails: the
\* catch block, or else recordUnexpectedRunnerFailure, records the failure. It is
\* left open only when a second write fails too, or when a DELETE held the lease
\* as its runner was launched.
JobSettles ==
    creator = "logging" ~>
        \/ complete \/ ~present \/ faults > 1
        \/ creator = "done" /\ runner = "none"

=============================================================================
