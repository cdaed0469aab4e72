--------------------------- MODULE PipelineRunner ---------------------------
(***************************************************************************)
(* runPipeline (src/server/pipeline/pipeline-runner.ts): one invocation    *)
(* that walks an ordered list of stages, executes the ones whose           *)
(* dependencies completed, and records every change of status in three     *)
(* places: the result table in memory, the debug bundle of the stage on    *)
(* disk, and the append-only event log whose every line is followed by a   *)
(* snapshot handed to an observer.                                         *)
(*                                                                         *)
(* A label of pc is an await: between two steps the caller may abort the   *)
(* signal, and the file operation a step waits for may fail.  What a stage *)
(* computes is abstracted to the kind of outcome it returns.               *)
(***************************************************************************)
EXTENDS Naturals, Sequences

CONSTANTS
    N,          \* number of stages; stage s is definition.stages[s - 1]
    DependsOn,  \* DependsOn[s]: the stages named by depends_on of stage s
    Targets     \* the execution targets the caller may ask for

Stages == 1 .. N
Modes == {"pipeline", "stage", "from_stage"}

\* A target names a mode, the stage it points at (1 in pipeline mode, 0 when the
\* pipeline has no stage of that id) and the dependencies whose outputs the
\* caller supplies in dependency_outputs.
TargetType == [mode : Modes, at : 0 .. N, provided : SUBSET Stages]

\* validatePipelineDefinition refuses every other definition.
ASSUME StagesAssumption ==
    /\ N \in Nat \ {0}
    /\ DependsOn \in [Stages -> SUBSET Stages]
    /\ \A s \in Stages : \A d \in DependsOn[s] : d < s

ASSUME TargetsAssumption ==
    /\ Targets \subseteq TargetType
    /\ \A t \in Targets : t.mode = "pipeline" => t.at = 1 /\ t.provided = {}

VARIABLES
    pc,         \* the await runPipeline stands at
    stage,      \* stage_index + 1 of the loop; N + 1 after the last one
    target,     \* options.target
    aborted,    \* signal.aborted
    results,    \* mutable_results: the status of every stage
    bundle,     \* the status the debug bundle of a stage shows on disk
    flags,      \* which of has_failed_stage, has_cancelled_stage,
                \* has_committed_stage are set
    outcome,    \* what stage.execute returned, while its result is recorded
    block,      \* the block around the await: none, try or catch
    sequence,   \* the event counter of emit
    events,     \* events.ndjson
    observed,   \* stage statuses of the last snapshot the observer took
    committed,  \* history: stages that returned commit_state "committed"
    runStatus   \* run_status

vars == <<pc, stage, target, aborted, results, bundle, flags, outcome, block,
          sequence, events, observed, committed, runStatus>>

TerminalStatus == {"completed", "failed", "cancelled", "skipped"}
Status == {"pending", "running"} \cup TerminalStatus
BundleStatus == {"none"} \cup Status
Outcomes == {"none", "completed", "committed", "skipped"}
Flags == {"failed", "cancelled", "committed"}
Blocks == {"none", "try", "catch"}
RunStatus == {"running", "completed", "failed", "cancelled"}
PC == {"start", "loop", "record", "before", "retain", "open", "announce",
       "execute", "snapshot", "close", "emit", "finish", "returned", "threw"}
Ended == {"returned", "threw"}

\* A line of the log: the stage it is about (0: the whole pipeline), the status
\* it reports and its sequence number.
Event == [stage : 0 .. N, status : Status, seq : Nat]

-----------------------------------------------------------------------------
(* Selection and dependencies *)

Selected(s) ==
    \/ target.mode = "pipeline"
    \/ s = target.at
    \/ target.mode = "from_stage" /\ s > target.at

\* getDependencyState with provided_outputs throws unless the keys supplied are
\* exactly the declared dependencies.
InputMismatch(s) ==
    target.mode # "pipeline" /\ s = target.at /\ target.provided # DependsOn[s]

\* Mutant of Incomplete: a skipped dependency counts as done.
IncompleteButSkipped(s) ==
    {d \in DependsOn[s] : results[d] \notin {"completed", "skipped"} /\ d \notin target.provided}

\* incomplete_dependencies: neither completed in this invocation nor supplied.
\* With provided_outputs (the target stage itself) none is incomplete.
Incomplete(s) ==
    IF target.mode # "pipeline" /\ s = target.at
    THEN {}
    ELSE {d \in DependsOn[s] : results[d] # "completed" /\ d \notin target.provided}

-----------------------------------------------------------------------------
(* emit and the two debug-bundle writers *)

\* emit: the sequence number is taken before the append, so a failed append
\* loses it; the snapshot observer runs after a successful append, and its own
\* failure or timeout is written to observer-errors.ndjson and forgotten.
EmitOk(s, status) ==
    /\ sequence' = sequence + 1
    /\ events' = Append(events, [stage |-> s, status |-> status, seq |-> sequence + 1])
    /\ observed' \in {observed, results}

\* Mutant of EmitFails: the observer is called although the append failed.
EmitFailsAfterObserver ==
    /\ sequence' = sequence + 1
    /\ observed' \in {observed, results}
    /\ UNCHANGED events

EmitFails ==
    /\ sequence' = sequence + 1
    /\ UNCHANGED <<events, observed>>

Throw == pc' = "threw"

NextStage ==
    /\ stage' = stage + 1
    /\ pc' = IF stage = N THEN "finish" ELSE "loop"
    /\ outcome' = "none"
    /\ block' = "none"

SetResult(status) == results' = [results EXCEPT ![stage] = status]
SetBundle(status) == bundle' = [bundle EXCEPT ![stage] = status]

-----------------------------------------------------------------------------
Init ==
    /\ pc = "start"
    /\ stage = 1
    /\ target \in Targets
    /\ aborted \in BOOLEAN
    /\ results = [s \in Stages |-> "pending"]
    /\ bundle = [s \in Stages |-> "none"]
    /\ flags = {}
    /\ outcome = "none"
    /\ block = "none"
    /\ sequence = 0
    /\ events = << >>
    /\ observed = results
    /\ committed = {}
    /\ runStatus = "running"

\* The caller's AbortController fires at any await.
Abort ==
    /\ ~aborted
    /\ pc \notin Ended
    /\ aborted' = TRUE
    /\ UNCHANGED <<pc, stage, target, results, bundle, flags, outcome, block,
                   sequence, events, observed, committed, runStatus>>

\* target_index, the directory of the stages, and pipeline_started
Start ==
    /\ pc = "start"
    /\ \/ target.at # 0 /\ EmitOk(0, "running") /\ pc' = "loop"
       \/ target.at # 0 /\ EmitFails /\ Throw
       \/ Throw /\ UNCHANGED <<sequence, events, observed>>
    /\ UNCHANGED <<stage, target, aborted, results, bundle, flags, outcome,
                   block, committed, runStatus>>

\* The verdict on a stage that does not execute: its result is set, and the
\* bundles and the event follow outside any try.
Settle(status) ==
    /\ SetResult(status)
    /\ flags' = flags \cup ({"cancelled"} \cap {status})
    /\ pc' = "record"

\* Head of the loop, up to the first await of the stage.
NotSelected ==
    /\ ~Selected(stage)
    /\ \/ Settle("skipped")
       \/ /\ stage > target.at          \* retaining its input files may fail
          /\ Incomplete(stage) = {}
          /\ Throw
          /\ UNCHANGED <<results, flags>>

RefuseInput ==
    /\ Selected(stage)
    /\ InputMismatch(stage)
    /\ Throw
    /\ UNCHANGED <<results, flags>>

Resolve ==
    /\ Selected(stage)
    /\ ~InputMismatch(stage)
    /\ IF aborted \/ "cancelled" \in flags
       THEN Settle("cancelled")
       ELSE IF Incomplete(stage) # {}
            THEN Settle("skipped")
            ELSE pc' = "before" /\ UNCHANGED <<results, flags>>

Loop ==
    /\ pc = "loop"
    /\ NotSelected \/ RefuseInput \/ Resolve
    /\ UNCHANGED <<stage, target, aborted, bundle, outcome, block, sequence,
                   events, observed, committed, runStatus>>

\* writeInitialDebugBundle and writeTerminalDebugBundle of a stage that did not
\* execute; a failed write leaves the bundle absent, pending or terminal.
RecordBundle ==
    /\ pc = "record"
    /\ \/ SetBundle(results[stage]) /\ pc' = "emit"
       \/ /\ \E b \in {bundle[stage], "pending", results[stage]} : SetBundle(b)
          /\ Throw
    /\ UNCHANGED <<stage, target, aborted, results, flags, outcome, block,
                   sequence, events, observed, committed, runStatus>>

\* before_stage_start, then the second look at the signal.
BeforeStageStart ==
    /\ pc = "before"
    /\ \/ aborted /\ Settle("cancelled")
       \/ ~aborted /\ pc' = "retain" /\ UNCHANGED <<results, flags>>
       \/ Throw /\ UNCHANGED <<results, flags>>
    /\ UNCHANGED <<stage, target, aborted, bundle, outcome, block, sequence,
                   events, observed, committed, runStatus>>

\* retainPipelineTaskInputFiles, then the stage is running.
RetainInputs ==
    /\ pc = "retain"
    /\ \/ SetResult("running") /\ pc' = "open"
       \/ Throw /\ UNCHANGED results
    /\ UNCHANGED <<stage, target, aborted, bundle, flags, outcome, block,
                   sequence, events, observed, committed, runStatus>>

OpenBundle ==
    /\ pc = "open"
    /\ \/ SetBundle("running") /\ pc' = "announce"
       \/ \E b \in {bundle[stage], "running"} : SetBundle(b) /\ Throw
    /\ UNCHANGED <<stage, target, aborted, results, flags, outcome, block,
                   sequence, events, observed, committed, runStatus>>

\* stage_started
Announce ==
    /\ pc = "announce"
    /\ \/ EmitOk(stage, "running") /\ pc' = "execute" /\ block' = "try"
       \/ EmitFails /\ Throw /\ UNCHANGED block
    /\ UNCHANGED <<stage, target, aborted, results, bundle, flags, outcome,
                   committed, runStatus>>

-----------------------------------------------------------------------------
(* The try block around stage.execute, and its catch *)

\* Mutant of Catch: a committed stage whose record fails is failed like any other.
CatchForgetsCommit(wasCommitted, written) ==
    /\ SetResult("failed")
    /\ flags' = flags \cup {"failed"}
    /\ block' = "catch"
    /\ pc' = "close"
    /\ \E b \in written : SetBundle(b)
    /\ UNCHANGED <<stage, outcome>>

\* The catch block on entry, up to its first await.  A stage past its commit
\* barrier is completed whatever was thrown, and nothing is emitted for it.
\* written: the statuses the interrupted write may have left in the bundle.
Catch(wasCommitted, written) ==
    IF wasCommitted
    THEN /\ SetResult("completed")
         /\ SetBundle("completed") \/ UNCHANGED bundle
         /\ NextStage
         /\ UNCHANGED flags
    ELSE /\ IF aborted
            THEN /\ SetResult("cancelled")
                 /\ flags' = flags \cup {"cancelled"}
            ELSE /\ SetResult("failed")
                 /\ flags' = flags \cup {"failed"}
         /\ block' = "catch"
         /\ pc' = "close"
         /\ \E b \in written : SetBundle(b)
         /\ UNCHANGED <<stage, outcome>>

\* stage.execute threw.
ExecuteThrows ==
    /\ Catch(FALSE, {bundle[stage]})
    /\ UNCHANGED committed

\* stage.execute returned o: cancellation is honoured unless o is committed.
ExecuteReturns(o) ==
    /\ committed' = IF o = "committed" THEN committed \cup {stage} ELSE committed
    /\ IF aborted /\ o # "committed"
       THEN /\ SetResult("cancelled")
            /\ flags' = flags \cup {"cancelled"}
            /\ pc' = "close"
       ELSE /\ UNCHANGED results
            /\ flags' = flags \cup ({"committed"} \cap {o})
            /\ pc' = "snapshot"
    /\ outcome' = o
    /\ UNCHANGED <<stage, bundle, block>>

Execute ==
    /\ pc = "execute"
    /\ \/ ExecuteThrows
       \/ \E o \in Outcomes \ {"none"} : ExecuteReturns(o)
    /\ UNCHANGED <<target, aborted, sequence, events, observed, runStatus>>

\* validateArtifacts and snapshotPipelineArtifacts, then the result of the try.
SnapshotArtifacts ==
    /\ pc = "snapshot"
    /\ \/ /\ SetResult(IF outcome = "skipped" THEN "skipped" ELSE "completed")
          /\ pc' = "close"
          /\ UNCHANGED <<stage, bundle, flags, outcome, block>>
       \/ Catch(outcome = "committed", {bundle[stage]})
    /\ UNCHANGED <<target, aborted, sequence, events, observed, committed, runStatus>>

\* A write of the terminal record failed: inside the try the catch block takes
\* over, elsewhere the error leaves runPipeline.
RecordingFails(written) ==
    IF block = "try"
    THEN Catch(outcome = "committed", written)
    ELSE /\ Throw
         /\ \E b \in written : SetBundle(b)
         /\ UNCHANGED <<stage, results, flags, outcome, block>>

\* Mutant of CloseBundle: the record of a committed stage is retried until written.
CloseBundleRetries ==
    /\ pc = "close"
    /\ \/ SetBundle(results[stage]) /\ pc' = "emit"
       \/ outcome = "committed" /\ pc' = "snapshot" /\ UNCHANGED bundle
    /\ UNCHANGED <<stage, target, aborted, results, flags, outcome, block,
                   sequence, events, observed, committed, runStatus>>

\* writeTerminalDebugBundle of a stage that executed.
CloseBundle ==
    /\ pc = "close"
    /\ \/ /\ SetBundle(results[stage])
          /\ pc' = "emit"
          /\ UNCHANGED <<stage, results, flags, outcome, block>>
       \/ RecordingFails({bundle[stage], results[stage]})
    /\ UNCHANGED <<target, aborted, sequence, events, observed, committed, runStatus>>

\* Mutant of EmitTerminal: the observer's failure is taken for a failed record.
EmitTerminalObserverFails ==
    /\ pc = "emit"
    /\ EmitOk(stage, results[stage])
    /\ IF block = "none"
       THEN NextStage /\ UNCHANGED <<results, bundle, flags>>
       ELSE RecordingFails({bundle[stage]})
    /\ UNCHANGED <<target, aborted, committed, runStatus>>

\* The terminal event of a stage.
EmitTerminal ==
    /\ pc = "emit"
    /\ \/ /\ EmitOk(stage, results[stage])
          /\ NextStage
          /\ UNCHANGED <<results, bundle, flags>>
       \/ /\ EmitFails
          /\ RecordingFails({bundle[stage]})
    /\ UNCHANGED <<target, aborted, committed, runStatus>>

-----------------------------------------------------------------------------
\* The end of the run: cancelled before failed before completed.  A failed
\* append is forgiven once a stage has committed.
FinalStatus ==
    IF "cancelled" \in flags THEN "cancelled" ELSE IF "failed" \in flags THEN "failed" ELSE "completed"

\* Mutant of Finish: a lost terminal event is an error for a committed run too.
FinishRethrows ==
    /\ pc = "finish"
    /\ runStatus' = FinalStatus
    /\ \/ EmitOk(0, FinalStatus) /\ pc' = "returned"
       \/ EmitFails /\ pc' = "threw"
    /\ UNCHANGED <<stage, target, aborted, results, bundle, flags, outcome,
                   block, committed>>

Finish ==
    /\ pc = "finish"
    /\ runStatus' = FinalStatus
    /\ \/ EmitOk(0, FinalStatus) /\ pc' = "returned"
       \/ EmitFails /\ pc' = IF "committed" \in flags THEN "returned" ELSE "threw"
    /\ UNCHANGED <<stage, target, aborted, results, bundle, flags, outcome,
                   block, committed>>

Step ==
    \/ Start \/ Loop \/ RecordBundle \/ BeforeStageStart \/ RetainInputs
    \/ OpenBundle \/ Announce \/ Execute \/ SnapshotArtifacts \/ CloseBundle
    \/ EmitTerminal \/ Finish

\* The promise has settled; nothing happens any more.
Settled ==
    /\ pc \in Ended
    /\ UNCHANGED vars

Next == Step \/ Abort \/ Settled

Spec == Init /\ [][Next]_vars

\* Every await settles: file operations return, the observer is raced against
\* its timeout, and stages poll the signal and bound their own processes.
FairSpec == Spec /\ WF_vars(Step)
-----------------------------------------------------------------------------
(* Properties *)

\* Every variable has its type.
TypeOK ==
    /\ pc \in PC
    /\ stage \in 1 .. N + 1
    /\ target \in Targets
    /\ aborted \in BOOLEAN
    /\ results \in [Stages -> Status]
    /\ bundle \in [Stages -> BundleStatus]
    /\ flags \subseteq Flags
    /\ outcome \in Outcomes
    /\ block \in Blocks
    /\ sequence \in Nat
    /\ events \in Seq(Event)
    /\ observed \in [Stages -> Status]
    /\ committed \in SUBSET Stages
    /\ runStatus \in RunStatus

\* The commit barrier: a stage that returned commit_state "committed" is never
\* reported failed, cancelled or skipped, whatever is aborted or fails to be
\* written afterwards, and it is completed once the loop has moved past it.
CommitIsFinal ==
    \A s \in committed :
        /\ results[s] \in {"running", "completed"}
        /\ s < stage => results[s] = "completed"

\* No error leaves runPipeline between the commit of a stage and the end of
\* that stage; in particular a pipeline whose last stage has committed (a
\* publication) always returns a result to its caller.
PublicationReturns ==
    pc = "threw" => stage \notin committed /\ N \notin committed

\* The event log is never contradicted: a terminal event of a stage reports
\* the status the stage keeps, although a result may be replaced (completed
\* by failed, skipped by cancelled) as long as its event is not written.
EventsMatchResults ==
    \A k \in DOMAIN events :
        events[k].stage # 0 /\ events[k].status \in TerminalStatus =>
            results[events[k].stage] = events[k].status

\* A stage that executes, or executed, had each of its dependencies completed
\* in this run or supplied by the caller, and none is reclassified later.
DependenciesHold ==
    \A s \in Stages : results[s] \in {"running", "completed", "failed"} =>
        \A d \in DependsOn[s] : results[d] = "completed" \/ d \in target.provided

\* A run never contradicts itself: what it committed, what its log tells and what
\* its stages ran on stand, whatever is cancelled or fails to be written, and a
\* pipeline that published returns.
RunIsConsistent ==
    CommitIsFinal /\ PublicationReturns /\ EventsMatchResults /\ DependenciesHold

\* The observer (the job store and the user interface behind it) never sees a
\* stage leave a terminal status.
ObservedIsMonotone ==
    [][\A s \in Stages : observed[s] \in TerminalStatus => observed'[s] = observed[s]]_vars

\* Every run ends: runPipeline returns or throws.
Termination == <>(pc \in Ended)
=============================================================================
