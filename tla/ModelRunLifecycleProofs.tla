------------------------ MODULE ModelRunLifecycleProofs ------------------------
(***************************************************************************)
(* Proofs about ModelRunLifecycle: for any number of create requests,      *)
(* units of effort and failed writes, a model run has one execution at a   *)
(* time, which its record shows, its job is not deleted under a runner,    *)
(* and a publication or a cancellation is what the run ends with.          *)
(*                                                                         *)
(* The second part is about what runs inside that execution, the stages of *)
(* ModelWorkflow: the agent's search keeps its best candidate, and the     *)
(* candidate shown, kept and handed to publication is the best promoted    *)
(* one, for any number of candidates, runs of the pipeline and restarts.   *)
(* The third is about two parts those stages rest on: the pool that        *)
(* digitises the reference graphs, and the order that ranks candidates.    *)
(***************************************************************************)
EXTENDS ModelRunLifecycle, ModelWorkflow, GraphWorkerPool, QualityOrder, SequenceTheorems,
        FiniteSetTheorems, TLAPS

\* The run of a job is created once, and nothing happens to it before the request that
\* created it launches the runner.
Birth ==
    /\ phase = "none" => runner = "idle" /\ local = "idle" /\ recovering = 0 /\ ~exec /\ ~complete
    /\ phase # "none" => exists \/ ~job
    /\ \A c \in Creators : creator[c] = "commit" =>
          /\ exists \/ ~job
          /\ exists => phase = "none"
          /\ \A d \in Creators : creator[d] = "commit" => d = c

\* A deletion holds the lease, and stops the run before it goes on to the job.
Lease ==
    /\ deleter \in {"wait", "job"} => lease
    /\ deleter = "wait" => exists
    /\ deleter = "job" /\ exists => phase # "none"

\* The outcome is settled once, and a cancellation that came before is in it.
Settled ==
    /\ runner = "setup" => phase = "early"
    /\ runner \in {"settle", "catch"} => verdict # "none" /\ phase # "published"
    /\ runner = "committed" => verdict = "complete"
    /\ runner \in Working => granted # 0
    /\ runner \in Working /\ asked => aborted
    /\ runner \in {"settle", "catch"} /\ asked => verdict \in {"cancelled", "complete"}

\* Each failure that is still to be recorded has cost a write.
Recoveries == recovering <= faults

IInv == /\ TypeOK /\ Birth /\ Lease /\ Settled /\ Recoveries
        /\ ExecutionExclusive /\ CompletionMatchesStatus /\ DeletionSafe

\* What retry and extend do to a finished run, and what a write that fails leaves.
Relaunch ==
    /\ status' = "queued" /\ complete' = FALSE /\ exec' = TRUE /\ aborted' = FALSE
    /\ granted' = effort' /\ runner' = "setup" /\ verdict' = "none" /\ phase' = "early"
    /\ asked' = FALSE /\ overtaken' = FALSE /\ UNCHANGED faults

NotWritten ==
    /\ Unlaunched /\ UNCHANGED <<status, complete>>
    /\ UNCHANGED faults \/ (faults < MaxFaults /\ faults' = faults + 1)

-----------------------------------------------------------------------------
(* One lemma per kind of step *)

\* A create request, up to the launch of the runner, preserves the invariant.
LEMMA CreateIInv ==
  ASSUME IInv, NEW c \in Creators,
         \/ CreateRequest(c) \/ CreateRun(c) \/ LaunchCreated(c)
  PROVE  IInv'
<1> USE ModelRunAssumption DEF IInv, Working
<1>1. CASE CreateRequest(c)
  <2>1. TypeOK' /\ Recoveries'
    BY <1>1 DEF CreateRequest, Admitted, TypeOK, Recoveries, Settled, Runner, Status, Active,
                Restartable, Phases
  <2>2. Birth'
    BY <1>1 DEF CreateRequest, Admitted, Birth, TypeOK
  <2>3. Lease'
    BY <1>1 DEF CreateRequest, Admitted, Lease, Birth, TypeOK
  <2>4. Settled'
    BY <1>1 DEF CreateRequest, Admitted, Settled, Birth, ExecutionExclusive, TypeOK
  <2>5. ExecutionExclusive'
    BY <1>1 DEF CreateRequest, Admitted, ExecutionExclusive, TypeOK
  <2>6. CompletionMatchesStatus'
    BY <1>1 DEF CreateRequest, Admitted, CompletionMatchesStatus, ExecutionExclusive, Settled,
                Birth, TypeOK,
           Status, Active, Restartable
  <2>7. DeletionSafe'
    BY <1>1 DEF CreateRequest, Admitted, DeletionSafe, CompletionMatchesStatus, Lease, Birth,
                TypeOK
  <2> QED
    BY <2>1, <2>2, <2>3, <2>4, <2>5, <2>6, <2>7
<1>2. CASE CreateRun(c)
  <2>1. TypeOK' /\ Recoveries'
    <3>1. status' \in Status /\ runner' \in Runner /\ phase' \in Phases
          /\ extender' \in {"idle", "reading"} /\ local' \in {"idle", "preparing", "running"}
          /\ deleter' \in {"idle", "wait", "job"} /\ verdict' \in Restartable \cup {"none"}
          /\ creator' \in [Creators -> {"idle", "reading", "commit"}]
      BY <1>2 DEF CreateRun, CreateModelRunIfAbsent, Admitted, TypeOK, Settled, Runner, Status,
                  Active, Restartable, Phases
    <3>2. job' \in BOOLEAN /\ lease' \in BOOLEAN /\ exists' \in BOOLEAN /\ complete' \in BOOLEAN
          /\ aborted' \in BOOLEAN /\ exec' \in BOOLEAN /\ asked' \in BOOLEAN
          /\ overtaken' \in BOOLEAN
      BY <1>2 DEF CreateRun, CreateModelRunIfAbsent, Admitted, TypeOK
    <3>3. effort' \in 1 .. MaxEffort /\ budget' \in 1 .. MaxEffort /\ granted' \in 0 .. MaxEffort
      BY <1>2 DEF CreateRun, CreateModelRunIfAbsent, Admitted, TypeOK, Settled
    <3>4. faults' \in 0 .. MaxFaults /\ recovering' \in 0 .. MaxFaults /\ recovering' <= faults'
      BY <1>2 DEF CreateRun, CreateModelRunIfAbsent, Admitted, TypeOK, Recoveries
    <3> QED
      BY <3>1, <3>2, <3>3, <3>4 DEF TypeOK, Recoveries
  <2>2. Birth'
    BY <1>2 DEF CreateRun, CreateModelRunIfAbsent, Admitted, Birth, TypeOK
  <2>3. Lease'
    BY <1>2 DEF CreateRun, CreateModelRunIfAbsent, Admitted, Lease, Birth, TypeOK
  <2>4. Settled'
    BY <1>2 DEF CreateRun, CreateModelRunIfAbsent, Admitted, Settled, Birth, ExecutionExclusive,
                TypeOK
  <2>5. ExecutionExclusive'
    BY <1>2 DEF CreateRun, CreateModelRunIfAbsent, Admitted, ExecutionExclusive, TypeOK
  <2>6. CompletionMatchesStatus'
    BY <1>2 DEF CreateRun, CreateModelRunIfAbsent, Admitted, CompletionMatchesStatus,
                ExecutionExclusive, Settled, Birth, TypeOK,
           Status, Active, Restartable
  <2>7. DeletionSafe'
    BY <1>2 DEF CreateRun, CreateModelRunIfAbsent, Admitted, DeletionSafe,
                CompletionMatchesStatus, Lease, Birth, TypeOK
  <2> QED
    BY <2>1, <2>2, <2>3, <2>4, <2>5, <2>6, <2>7
<1>3. CASE LaunchCreated(c)
  <2>1. TypeOK' /\ Recoveries'
    <3>1. status' \in Status /\ runner' \in Runner /\ phase' \in Phases
          /\ extender' \in {"idle", "reading"} /\ local' \in {"idle", "preparing", "running"}
          /\ deleter' \in {"idle", "wait", "job"} /\ verdict' \in Restartable \cup {"none"}
          /\ creator' \in [Creators -> {"idle", "reading", "commit"}]
      BY <1>3 DEF LaunchCreated, Launch, Unlaunched, Claimable, TypeOK, Settled, Runner, Status,
                  Active, Restartable, Phases
    <3>2. job' \in BOOLEAN /\ lease' \in BOOLEAN /\ exists' \in BOOLEAN /\ complete' \in BOOLEAN
          /\ aborted' \in BOOLEAN /\ exec' \in BOOLEAN /\ asked' \in BOOLEAN
          /\ overtaken' \in BOOLEAN
      BY <1>3 DEF LaunchCreated, Launch, Unlaunched, Claimable, TypeOK
    <3>3. effort' \in 1 .. MaxEffort /\ budget' \in 1 .. MaxEffort /\ granted' \in 0 .. MaxEffort
      BY <1>3 DEF LaunchCreated, Launch, Unlaunched, Claimable, TypeOK, Settled
    <3>4. faults' \in 0 .. MaxFaults /\ recovering' \in 0 .. MaxFaults /\ recovering' <= faults'
      BY <1>3 DEF LaunchCreated, Launch, Unlaunched, Claimable, TypeOK, Recoveries
    <3> QED
      BY <3>1, <3>2, <3>3, <3>4 DEF TypeOK, Recoveries
  <2>2. Birth'
    BY <1>3 DEF LaunchCreated, Launch, Unlaunched, Claimable, Birth, TypeOK
  <2>3. Lease'
    BY <1>3 DEF LaunchCreated, Launch, Unlaunched, Claimable, Lease, Birth, TypeOK
  <2>4. Settled'
    BY <1>3 DEF LaunchCreated, Launch, Unlaunched, Claimable, Settled, Birth,
                ExecutionExclusive, TypeOK
  <2>5. ExecutionExclusive'
    BY <1>3 DEF LaunchCreated, Launch, Unlaunched, Claimable, ExecutionExclusive, TypeOK
  <2>6. CompletionMatchesStatus'
    BY <1>3 DEF LaunchCreated, Launch, Unlaunched, Claimable, CompletionMatchesStatus,
                ExecutionExclusive, Settled, Birth, TypeOK,
           Status, Active, Restartable
  <2>7. DeletionSafe'
    BY <1>3 DEF LaunchCreated, Launch, Unlaunched, Claimable, DeletionSafe,
                CompletionMatchesStatus, Lease, Birth, TypeOK
  <2> QED
    BY <2>1, <2>2, <2>3, <2>4, <2>5, <2>6, <2>7
<1> QED
  BY <1>1, <1>2, <1>3

\* So do retry, extend and cancel.
LEMMA RequestIInv ==
  ASSUME IInv, \/ RetryRun \/ ExtendRequest \/ ExtendRun \/ CancelRun
  PROVE  IInv'
<1> USE ModelRunAssumption DEF IInv, Working
<1>1. CASE RetryRun
  <2>a. \/ Relaunch /\ exists /\ job /\ ~lease /\ ~exec /\ phase # "none"
        \/ NotWritten
    BY <1>1 DEF RetryRun, Admitted, Retryable, Mutate, MutateThrows, Launch, Unlaunched,
                Claimable, Relaunch, NotWritten, TypeOK, Status, Active, Restartable, Birth
  <2>b. UNCHANGED <<job, lease, exists, effort, budget, creator, extender, local, deleter,
                    recovering>>
    BY <1>1 DEF RetryRun, Admitted, Retryable, Mutate, MutateThrows, Launch, Unlaunched,
                Claimable, TypeOK
  <2>1. TypeOK' /\ Recoveries'
    <3>1. status' \in Status /\ runner' \in Runner /\ phase' \in Phases
          /\ extender' \in {"idle", "reading"} /\ local' \in {"idle", "preparing", "running"}
          /\ deleter' \in {"idle", "wait", "job"} /\ verdict' \in Restartable \cup {"none"}
          /\ creator' \in [Creators -> {"idle", "reading", "commit"}]
      BY <2>a, <2>b DEF Relaunch, NotWritten, Unlaunched, TypeOK, Settled, Runner, Status,
                        Active, Restartable, Phases
    <3>2. job' \in BOOLEAN /\ lease' \in BOOLEAN /\ exists' \in BOOLEAN /\ complete' \in BOOLEAN
          /\ aborted' \in BOOLEAN /\ exec' \in BOOLEAN /\ asked' \in BOOLEAN
          /\ overtaken' \in BOOLEAN
      BY <2>a, <2>b DEF Relaunch, NotWritten, Unlaunched, TypeOK
    <3>3. effort' \in 1 .. MaxEffort /\ budget' \in 1 .. MaxEffort /\ granted' \in 0 .. MaxEffort
      BY <2>a, <2>b DEF Relaunch, NotWritten, Unlaunched, TypeOK, Settled
    <3>4. faults' \in 0 .. MaxFaults /\ recovering' \in 0 .. MaxFaults /\ recovering' <= faults'
      BY <2>a, <2>b DEF Relaunch, NotWritten, Unlaunched, TypeOK, Recoveries
    <3> QED
      BY <3>1, <3>2, <3>3, <3>4 DEF TypeOK, Recoveries
  <2>2. Birth'
    BY <2>a, <2>b DEF Relaunch, NotWritten, Unlaunched, Birth, TypeOK
  <2>3. Lease'
    BY <2>a, <2>b DEF Relaunch, NotWritten, Unlaunched, Lease, Birth, TypeOK
  <2>4. Settled'
    BY <2>a, <2>b DEF Relaunch, NotWritten, Unlaunched, Settled, Birth, ExecutionExclusive,
                      TypeOK
  <2>5. ExecutionExclusive'
    BY <2>a, <2>b DEF Relaunch, NotWritten, Unlaunched, ExecutionExclusive, TypeOK
  <2>6. CompletionMatchesStatus'
    BY <2>a, <2>b DEF Relaunch, NotWritten, Unlaunched, CompletionMatchesStatus,
                      ExecutionExclusive, Settled, Birth, TypeOK,
           Status, Active, Restartable
  <2>7. DeletionSafe'
    BY <2>a, <2>b DEF Relaunch, NotWritten, Unlaunched, DeletionSafe, CompletionMatchesStatus,
                      Lease, Birth, TypeOK
  <2> QED
    BY <2>1, <2>2, <2>3, <2>4, <2>5, <2>6, <2>7
<1>2. CASE ExtendRequest
  <2>1. TypeOK' /\ Recoveries'
    BY <1>2 DEF ExtendRequest, Admitted, TypeOK, Recoveries, Settled, Runner, Status, Active,
                Restartable, Phases
  <2>2. Birth'
    BY <1>2 DEF ExtendRequest, Admitted, Birth, TypeOK
  <2>3. Lease'
    BY <1>2 DEF ExtendRequest, Admitted, Lease, Birth, TypeOK
  <2>4. Settled'
    BY <1>2 DEF ExtendRequest, Admitted, Settled, Birth, ExecutionExclusive, TypeOK
  <2>5. ExecutionExclusive'
    BY <1>2 DEF ExtendRequest, Admitted, ExecutionExclusive, TypeOK
  <2>6. CompletionMatchesStatus'
    BY <1>2 DEF ExtendRequest, Admitted, CompletionMatchesStatus, ExecutionExclusive, Settled,
                Birth, TypeOK,
           Status, Active, Restartable
  <2>7. DeletionSafe'
    BY <1>2 DEF ExtendRequest, Admitted, DeletionSafe, CompletionMatchesStatus, Lease, Birth,
                TypeOK
  <2> QED
    BY <2>1, <2>2, <2>3, <2>4, <2>5, <2>6, <2>7
<1>3. CASE ExtendRun
  <2>a. \/ Relaunch /\ exists /\ job /\ ~lease /\ ~exec /\ phase # "none"
        \/ NotWritten
    BY <1>3 DEF ExtendRun, Extensible, Admitted, AddEffort, Mutate, MutateThrows, Launch,
                Unlaunched, Claimable, Relaunch, NotWritten, TypeOK, Status, Active,
                Restartable, Birth,
           CompletionMatchesStatus
  <2>b. /\ UNCHANGED <<job, lease, exists, creator, local, deleter, recovering>>
        /\ effort' \in 1 .. MaxEffort /\ budget' \in 1 .. MaxEffort /\ extender' = "idle"
    BY <1>3 DEF ExtendRun, Extensible, Admitted, AddEffort, Mutate, MutateThrows, Launch,
                Unlaunched, Claimable, TypeOK
  <2>1. TypeOK' /\ Recoveries'
    <3>1. status' \in Status /\ runner' \in Runner /\ phase' \in Phases
          /\ extender' \in {"idle", "reading"} /\ local' \in {"idle", "preparing", "running"}
          /\ deleter' \in {"idle", "wait", "job"} /\ verdict' \in Restartable \cup {"none"}
          /\ creator' \in [Creators -> {"idle", "reading", "commit"}]
      BY <2>a, <2>b DEF Relaunch, NotWritten, Unlaunched, TypeOK, Settled, Runner, Status,
                        Active, Restartable, Phases
    <3>2. job' \in BOOLEAN /\ lease' \in BOOLEAN /\ exists' \in BOOLEAN /\ complete' \in BOOLEAN
          /\ aborted' \in BOOLEAN /\ exec' \in BOOLEAN /\ asked' \in BOOLEAN
          /\ overtaken' \in BOOLEAN
      BY <2>a, <2>b DEF Relaunch, NotWritten, Unlaunched, TypeOK
    <3>3. effort' \in 1 .. MaxEffort /\ budget' \in 1 .. MaxEffort /\ granted' \in 0 .. MaxEffort
      BY <2>a, <2>b DEF Relaunch, NotWritten, Unlaunched, TypeOK, Settled
    <3>4. faults' \in 0 .. MaxFaults /\ recovering' \in 0 .. MaxFaults /\ recovering' <= faults'
      BY <2>a, <2>b DEF Relaunch, NotWritten, Unlaunched, TypeOK, Recoveries
    <3> QED
      BY <3>1, <3>2, <3>3, <3>4 DEF TypeOK, Recoveries
  <2>2. Birth'
    BY <2>a, <2>b DEF Relaunch, NotWritten, Unlaunched, Birth, TypeOK
  <2>3. Lease'
    BY <2>a, <2>b DEF Relaunch, NotWritten, Unlaunched, Lease, Birth, TypeOK
  <2>4. Settled'
    BY <2>a, <2>b DEF Relaunch, NotWritten, Unlaunched, Settled, Birth, ExecutionExclusive,
                      TypeOK
  <2>5. ExecutionExclusive'
    BY <2>a, <2>b DEF Relaunch, NotWritten, Unlaunched, ExecutionExclusive, TypeOK
  <2>6. CompletionMatchesStatus'
    BY <2>a, <2>b DEF Relaunch, NotWritten, Unlaunched, CompletionMatchesStatus,
                      ExecutionExclusive, Settled, Birth, TypeOK,
           Status, Active, Restartable
  <2>7. DeletionSafe'
    BY <2>a, <2>b DEF Relaunch, NotWritten, Unlaunched, DeletionSafe, CompletionMatchesStatus,
                      Lease, Birth, TypeOK
  <2> QED
    BY <2>1, <2>2, <2>3, <2>4, <2>5, <2>6, <2>7
<1>4. CASE CancelRun
  <2>1. TypeOK' /\ Recoveries'
    BY <1>4 DEF CancelRun, RequestCancellation, TypeOK, Recoveries, Settled, Runner, Status,
                Active, Restartable, Phases
  <2>2. Birth'
    BY <1>4 DEF CancelRun, RequestCancellation, Birth, TypeOK
  <2>3. Lease'
    BY <1>4 DEF CancelRun, RequestCancellation, Lease, Birth, TypeOK
  <2>4. Settled'
    BY <1>4 DEF CancelRun, RequestCancellation, Settled, Birth, ExecutionExclusive, TypeOK
  <2>5. ExecutionExclusive'
    BY <1>4 DEF CancelRun, RequestCancellation, ExecutionExclusive, TypeOK
  <2>6. CompletionMatchesStatus'
    BY <1>4 DEF CancelRun, RequestCancellation, CompletionMatchesStatus, ExecutionExclusive,
                Settled, Birth, TypeOK,
           Status, Active, Restartable
  <2>7. DeletionSafe'
    BY <1>4 DEF CancelRun, RequestCancellation, DeletionSafe, CompletionMatchesStatus, Lease,
                Birth, TypeOK
  <2> QED
    BY <2>1, <2>2, <2>3, <2>4, <2>5, <2>6, <2>7
<1> QED
  BY <1>1, <1>2, <1>3, <1>4

\* So do the steps of runModel while its pipeline runs.
LEMMA PipelineIInv ==
  ASSUME IInv,
         \/ StartPipeline \/ StageUpdate \/ StartRepair \/ EndRepair \/ PublishModel
         \/ PipelineEnds
  PROVE  IInv'
<1> USE ModelRunAssumption DEF IInv, Working
<1>1. CASE StartPipeline
  <2>1. TypeOK' /\ Recoveries'
    BY <1>1 DEF StartPipeline, EnterCatch, TypeOK, Recoveries, Settled, Runner, Status, Active,
                Restartable, Phases
  <2>2. Birth'
    BY <1>1 DEF StartPipeline, EnterCatch, Birth, TypeOK
  <2>3. Lease'
    BY <1>1 DEF StartPipeline, EnterCatch, Lease, Birth, TypeOK
  <2>4. Settled'
    BY <1>1 DEF StartPipeline, EnterCatch, Settled, Birth, ExecutionExclusive, TypeOK
  <2>5. ExecutionExclusive'
    BY <1>1 DEF StartPipeline, EnterCatch, ExecutionExclusive, TypeOK
  <2>6. CompletionMatchesStatus'
    BY <1>1 DEF StartPipeline, EnterCatch, CompletionMatchesStatus, ExecutionExclusive, Settled,
                Birth, TypeOK,
           Status, Active, Restartable
  <2>7. DeletionSafe'
    BY <1>1 DEF StartPipeline, EnterCatch, DeletionSafe, CompletionMatchesStatus, Lease, Birth,
                TypeOK
  <2> QED
    BY <2>1, <2>2, <2>3, <2>4, <2>5, <2>6, <2>7
<1>2. CASE StageUpdate
  <2>1. TypeOK' /\ Recoveries'
    <3>1. status' \in Status /\ runner' \in Runner /\ phase' \in Phases
          /\ extender' \in {"idle", "reading"} /\ local' \in {"idle", "preparing", "running"}
          /\ deleter' \in {"idle", "wait", "job"} /\ verdict' \in Restartable \cup {"none"}
          /\ creator' \in [Creators -> {"idle", "reading", "commit"}]
      BY <1>2 DEF StageUpdate, PipelineRuns, WaitUpdate, ValidatingUpdate, RepairUpdate, Mutate,
                  TypeOK, Settled, Runner, Status, Active, Restartable,
                  Phases
    <3>2. job' \in BOOLEAN /\ lease' \in BOOLEAN /\ exists' \in BOOLEAN /\ complete' \in BOOLEAN
          /\ aborted' \in BOOLEAN /\ exec' \in BOOLEAN /\ asked' \in BOOLEAN
          /\ overtaken' \in BOOLEAN
      BY <1>2 DEF StageUpdate, PipelineRuns, WaitUpdate, ValidatingUpdate, RepairUpdate, Mutate,
                  TypeOK
    <3>3. effort' \in 1 .. MaxEffort /\ budget' \in 1 .. MaxEffort /\ granted' \in 0 .. MaxEffort
      BY <1>2 DEF StageUpdate, PipelineRuns, WaitUpdate, ValidatingUpdate, RepairUpdate, Mutate,
                  TypeOK, Settled
    <3>4. faults' \in 0 .. MaxFaults /\ recovering' \in 0 .. MaxFaults /\ recovering' <= faults'
      BY <1>2 DEF StageUpdate, PipelineRuns, WaitUpdate, ValidatingUpdate, RepairUpdate, Mutate,
                  TypeOK, Recoveries
    <3> QED
      BY <3>1, <3>2, <3>3, <3>4 DEF TypeOK, Recoveries
  <2>2. Birth'
    BY <1>2 DEF StageUpdate, PipelineRuns, WaitUpdate, ValidatingUpdate, RepairUpdate, Mutate,
                Birth, TypeOK
  <2>3. Lease'
    BY <1>2 DEF StageUpdate, PipelineRuns, WaitUpdate, ValidatingUpdate, RepairUpdate, Mutate,
                Lease, Birth, TypeOK
  <2>4. Settled'
    BY <1>2 DEF StageUpdate, PipelineRuns, WaitUpdate, ValidatingUpdate, RepairUpdate, Mutate,
                Settled, Birth, ExecutionExclusive, TypeOK
  <2>5. ExecutionExclusive'
    BY <1>2 DEF StageUpdate, PipelineRuns, WaitUpdate, ValidatingUpdate, RepairUpdate, Mutate,
                ExecutionExclusive, TypeOK
  <2>6. CompletionMatchesStatus'
    BY <1>2 DEF StageUpdate, PipelineRuns, WaitUpdate, ValidatingUpdate, RepairUpdate, Mutate,
                CompletionMatchesStatus, ExecutionExclusive, Settled,
                Birth, TypeOK,
           Status, Active, Restartable
  <2>7. DeletionSafe'
    BY <1>2 DEF StageUpdate, PipelineRuns, WaitUpdate, ValidatingUpdate, RepairUpdate, Mutate,
                DeletionSafe, CompletionMatchesStatus, Lease, Birth, TypeOK
  <2> QED
    BY <2>1, <2>2, <2>3, <2>4, <2>5, <2>6, <2>7
<1>3. CASE StartRepair
  <2>1. TypeOK' /\ Recoveries'
    BY <1>3 DEF StartRepair, StartRepairBudget, TypeOK, Recoveries, Settled, Runner, Status,
                Active, Restartable, Phases
  <2>2. Birth'
    BY <1>3 DEF StartRepair, StartRepairBudget, Birth, TypeOK
  <2>3. Lease'
    BY <1>3 DEF StartRepair, StartRepairBudget, Lease, Birth, TypeOK
  <2>4. Settled'
    BY <1>3 DEF StartRepair, StartRepairBudget, Settled, Birth, ExecutionExclusive, TypeOK
  <2>5. ExecutionExclusive'
    BY <1>3 DEF StartRepair, StartRepairBudget, ExecutionExclusive, TypeOK
  <2>6. CompletionMatchesStatus'
    BY <1>3 DEF StartRepair, StartRepairBudget, CompletionMatchesStatus, ExecutionExclusive,
                Settled, Birth, TypeOK,
           Status, Active, Restartable
  <2>7. DeletionSafe'
    BY <1>3 DEF StartRepair, StartRepairBudget, DeletionSafe, CompletionMatchesStatus, Lease,
                Birth, TypeOK
  <2> QED
    BY <2>1, <2>2, <2>3, <2>4, <2>5, <2>6, <2>7
<1>4. CASE EndRepair
  <2>1. TypeOK' /\ Recoveries'
    BY <1>4 DEF EndRepair, TypeOK, Recoveries, Settled, Runner, Status, Active, Restartable,
                Phases
  <2>2. Birth'
    BY <1>4 DEF EndRepair, Birth, TypeOK
  <2>3. Lease'
    BY <1>4 DEF EndRepair, Lease, Birth, TypeOK
  <2>4. Settled'
    BY <1>4 DEF EndRepair, Settled, Birth, ExecutionExclusive, TypeOK
  <2>5. ExecutionExclusive'
    BY <1>4 DEF EndRepair, ExecutionExclusive, TypeOK
  <2>6. CompletionMatchesStatus'
    BY <1>4 DEF EndRepair, CompletionMatchesStatus, ExecutionExclusive, Settled, Birth, TypeOK,
           Status, Active, Restartable
  <2>7. DeletionSafe'
    BY <1>4 DEF EndRepair, DeletionSafe, CompletionMatchesStatus, Lease, Birth, TypeOK
  <2> QED
    BY <2>1, <2>2, <2>3, <2>4, <2>5, <2>6, <2>7
<1>5. CASE PublishModel
  <2>1. TypeOK' /\ Recoveries'
    BY <1>5 DEF PublishModel, TypeOK, Recoveries, Settled, Runner, Status, Active, Restartable,
                Phases
  <2>2. Birth'
    BY <1>5 DEF PublishModel, Birth, TypeOK
  <2>3. Lease'
    BY <1>5 DEF PublishModel, Lease, Birth, TypeOK
  <2>4. Settled'
    BY <1>5 DEF PublishModel, Settled, Birth, ExecutionExclusive, TypeOK
  <2>5. ExecutionExclusive'
    BY <1>5 DEF PublishModel, ExecutionExclusive, TypeOK
  <2>6. CompletionMatchesStatus'
    BY <1>5 DEF PublishModel, CompletionMatchesStatus, ExecutionExclusive, Settled, Birth,
                TypeOK,
           Status, Active, Restartable
  <2>7. DeletionSafe'
    BY <1>5 DEF PublishModel, DeletionSafe, CompletionMatchesStatus, Lease, Birth, TypeOK
  <2> QED
    BY <2>1, <2>2, <2>3, <2>4, <2>5, <2>6, <2>7
<1>6. CASE PipelineEnds
  <2>1. TypeOK' /\ Recoveries'
    BY <1>6 DEF PipelineEnds, Outcome, EnterCatch, TypeOK, Recoveries, Settled, Runner, Status,
                Active, Restartable, Phases
  <2>2. Birth'
    BY <1>6 DEF PipelineEnds, Outcome, EnterCatch, Birth, TypeOK
  <2>3. Lease'
    BY <1>6 DEF PipelineEnds, Outcome, EnterCatch, Lease, Birth, TypeOK
  <2>4. Settled'
    BY <1>6 DEF PipelineEnds, Outcome, EnterCatch, Settled, Birth, ExecutionExclusive, TypeOK
  <2>5. ExecutionExclusive'
    BY <1>6 DEF PipelineEnds, Outcome, EnterCatch, ExecutionExclusive, TypeOK
  <2>6. CompletionMatchesStatus'
    BY <1>6 DEF PipelineEnds, Outcome, EnterCatch, CompletionMatchesStatus, ExecutionExclusive,
                Settled, Birth, TypeOK,
           Status, Active, Restartable
  <2>7. DeletionSafe'
    BY <1>6 DEF PipelineEnds, Outcome, EnterCatch, DeletionSafe, CompletionMatchesStatus, Lease,
                Birth, TypeOK
  <2> QED
    BY <2>1, <2>2, <2>3, <2>4, <2>5, <2>6, <2>7
<1> QED
  BY <1>1, <1>2, <1>3, <1>4, <1>5, <1>6

\* So does the end of runModel, however it comes.
LEMMA FinishIInv ==
  ASSUME IInv,
         \/ FinishCommitted \/ FinishSegment \/ FinishCaught \/ RecordUnexpected
         \/ ReleaseExecution
  PROVE  IInv'
<1> USE ModelRunAssumption DEF IInv, Working
<1>1. CASE FinishCommitted
  <2>1. TypeOK' /\ Recoveries'
    <3>1. status' \in Status /\ runner' \in Runner /\ phase' \in Phases
          /\ extender' \in {"idle", "reading"} /\ local' \in {"idle", "preparing", "running"}
          /\ deleter' \in {"idle", "wait", "job"} /\ verdict' \in Restartable \cup {"none"}
          /\ creator' \in [Creators -> {"idle", "reading", "commit"}]
      BY <1>1 DEF FinishCommitted, TypeOK, Settled, Runner, Status, Active, Restartable, Phases
    <3>2. job' \in BOOLEAN /\ lease' \in BOOLEAN /\ exists' \in BOOLEAN /\ complete' \in BOOLEAN
          /\ aborted' \in BOOLEAN /\ exec' \in BOOLEAN /\ asked' \in BOOLEAN
          /\ overtaken' \in BOOLEAN
      BY <1>1 DEF FinishCommitted, TypeOK
    <3>3. effort' \in 1 .. MaxEffort /\ budget' \in 1 .. MaxEffort /\ granted' \in 0 .. MaxEffort
      BY <1>1 DEF FinishCommitted, TypeOK, Settled
    <3>4. faults' \in 0 .. MaxFaults /\ recovering' \in 0 .. MaxFaults /\ recovering' <= faults'
      BY <1>1 DEF FinishCommitted, TypeOK, Recoveries
    <3> QED
      BY <3>1, <3>2, <3>3, <3>4 DEF TypeOK, Recoveries
  <2>2. Birth'
    BY <1>1 DEF FinishCommitted, Birth, TypeOK
  <2>3. Lease'
    BY <1>1 DEF FinishCommitted, Lease, Birth, TypeOK
  <2>4. Settled'
    BY <1>1 DEF FinishCommitted, Settled, Birth, ExecutionExclusive, TypeOK
  <2>5. ExecutionExclusive'
    BY <1>1 DEF FinishCommitted, ExecutionExclusive, TypeOK
  <2>6. CompletionMatchesStatus'
    BY <1>1 DEF FinishCommitted, CompletionMatchesStatus, ExecutionExclusive, Settled, Birth,
                TypeOK,
           Status, Active, Restartable
  <2>7. DeletionSafe'
    BY <1>1 DEF FinishCommitted, DeletionSafe, CompletionMatchesStatus, Lease, Birth, TypeOK
  <2> QED
    BY <2>1, <2>2, <2>3, <2>4, <2>5, <2>6, <2>7
<1>2. CASE FinishSegment
  <2>1. TypeOK' /\ Recoveries'
    <3>1. status' \in Status /\ runner' \in Runner /\ phase' \in Phases
          /\ extender' \in {"idle", "reading"} /\ local' \in {"idle", "preparing", "running"}
          /\ deleter' \in {"idle", "wait", "job"} /\ verdict' \in Restartable \cup {"none"}
          /\ creator' \in [Creators -> {"idle", "reading", "commit"}]
      BY <1>2 DEF FinishSegment, EnterCatch, Mutate, MutateThrows, TypeOK, Settled, Runner,
                  Status, Active, Restartable, Phases
    <3>2. job' \in BOOLEAN /\ lease' \in BOOLEAN /\ exists' \in BOOLEAN /\ complete' \in BOOLEAN
          /\ aborted' \in BOOLEAN /\ exec' \in BOOLEAN /\ asked' \in BOOLEAN
          /\ overtaken' \in BOOLEAN
      BY <1>2 DEF FinishSegment, EnterCatch, Mutate, MutateThrows, TypeOK
    <3>3. effort' \in 1 .. MaxEffort /\ budget' \in 1 .. MaxEffort /\ granted' \in 0 .. MaxEffort
      BY <1>2 DEF FinishSegment, EnterCatch, Mutate, MutateThrows, TypeOK, Settled
    <3>4. faults' \in 0 .. MaxFaults /\ recovering' \in 0 .. MaxFaults /\ recovering' <= faults'
      BY <1>2 DEF FinishSegment, EnterCatch, Mutate, MutateThrows, TypeOK, Recoveries
    <3> QED
      BY <3>1, <3>2, <3>3, <3>4 DEF TypeOK, Recoveries
  <2>2. Birth'
    BY <1>2 DEF FinishSegment, EnterCatch, Mutate, MutateThrows, Birth, TypeOK
  <2>3. Lease'
    BY <1>2 DEF FinishSegment, EnterCatch, Mutate, MutateThrows, Lease, Birth, TypeOK
  <2>4. Settled'
    BY <1>2 DEF FinishSegment, EnterCatch, Mutate, MutateThrows, Settled, Birth,
                ExecutionExclusive, TypeOK
  <2>5. ExecutionExclusive'
    BY <1>2 DEF FinishSegment, EnterCatch, Mutate, MutateThrows, ExecutionExclusive, TypeOK
  <2>6. CompletionMatchesStatus'
    BY <1>2 DEF FinishSegment, EnterCatch, Mutate, MutateThrows, CompletionMatchesStatus,
                ExecutionExclusive, Settled, Birth, TypeOK,
           Status, Active, Restartable
  <2>7. DeletionSafe'
    BY <1>2 DEF FinishSegment, EnterCatch, Mutate, MutateThrows, DeletionSafe,
                CompletionMatchesStatus, Lease, Birth, TypeOK
  <2> QED
    BY <2>1, <2>2, <2>3, <2>4, <2>5, <2>6, <2>7
<1>3. CASE FinishCaught
  <2>1. TypeOK' /\ Recoveries'
    <3>1. status' \in Status /\ runner' \in Runner /\ phase' \in Phases
          /\ extender' \in {"idle", "reading"} /\ local' \in {"idle", "preparing", "running"}
          /\ deleter' \in {"idle", "wait", "job"} /\ verdict' \in Restartable \cup {"none"}
          /\ creator' \in [Creators -> {"idle", "reading", "commit"}]
      BY <1>3 DEF FinishCaught, Mutate, MutateThrows, TypeOK, Settled, Runner, Status, Active,
                  Restartable, Phases
    <3>2. job' \in BOOLEAN /\ lease' \in BOOLEAN /\ exists' \in BOOLEAN /\ complete' \in BOOLEAN
          /\ aborted' \in BOOLEAN /\ exec' \in BOOLEAN /\ asked' \in BOOLEAN
          /\ overtaken' \in BOOLEAN
      BY <1>3 DEF FinishCaught, Mutate, MutateThrows, TypeOK
    <3>3. effort' \in 1 .. MaxEffort /\ budget' \in 1 .. MaxEffort /\ granted' \in 0 .. MaxEffort
      BY <1>3 DEF FinishCaught, Mutate, MutateThrows, TypeOK, Settled
    <3>4. faults' \in 0 .. MaxFaults /\ recovering' \in 0 .. MaxFaults /\ recovering' <= faults'
      BY <1>3 DEF FinishCaught, Mutate, MutateThrows, TypeOK, Recoveries
    <3> QED
      BY <3>1, <3>2, <3>3, <3>4 DEF TypeOK, Recoveries
  <2>2. Birth'
    BY <1>3 DEF FinishCaught, Mutate, MutateThrows, Birth, TypeOK
  <2>3. Lease'
    BY <1>3 DEF FinishCaught, Mutate, MutateThrows, Lease, Birth, TypeOK
  <2>4. Settled'
    BY <1>3 DEF FinishCaught, Mutate, MutateThrows, Settled, Birth, ExecutionExclusive, TypeOK
  <2>5. ExecutionExclusive'
    BY <1>3 DEF FinishCaught, Mutate, MutateThrows, ExecutionExclusive, TypeOK
  <2>6. CompletionMatchesStatus'
    BY <1>3 DEF FinishCaught, Mutate, MutateThrows, CompletionMatchesStatus, ExecutionExclusive,
                Settled, Birth, TypeOK,
           Status, Active, Restartable
  <2>7. DeletionSafe'
    BY <1>3 DEF FinishCaught, Mutate, MutateThrows, DeletionSafe, CompletionMatchesStatus,
                Lease, Birth, TypeOK
  <2> QED
    BY <2>1, <2>2, <2>3, <2>4, <2>5, <2>6, <2>7
<1>4. CASE RecordUnexpected
  <2>1. TypeOK' /\ Recoveries'
    <3>1. status' \in Status /\ runner' \in Runner /\ phase' \in Phases
          /\ extender' \in {"idle", "reading"} /\ local' \in {"idle", "preparing", "running"}
          /\ deleter' \in {"idle", "wait", "job"} /\ verdict' \in Restartable \cup {"none"}
          /\ creator' \in [Creators -> {"idle", "reading", "commit"}]
      BY <1>4 DEF RecordUnexpected, Mutate, MutateThrows, TypeOK, Settled, Runner, Status,
                  Active, Restartable, Phases
    <3>2. job' \in BOOLEAN /\ lease' \in BOOLEAN /\ exists' \in BOOLEAN /\ complete' \in BOOLEAN
          /\ aborted' \in BOOLEAN /\ exec' \in BOOLEAN /\ asked' \in BOOLEAN
          /\ overtaken' \in BOOLEAN
      BY <1>4 DEF RecordUnexpected, Mutate, MutateThrows, TypeOK
    <3>3. effort' \in 1 .. MaxEffort /\ budget' \in 1 .. MaxEffort /\ granted' \in 0 .. MaxEffort
      BY <1>4 DEF RecordUnexpected, Mutate, MutateThrows, TypeOK, Settled
    <3>4. faults' \in 0 .. MaxFaults /\ recovering' \in 0 .. MaxFaults /\ recovering' <= faults'
      BY <1>4 DEF RecordUnexpected, Mutate, MutateThrows, TypeOK, Recoveries
    <3> QED
      BY <3>1, <3>2, <3>3, <3>4 DEF TypeOK, Recoveries
  <2>2. Birth'
    BY <1>4 DEF RecordUnexpected, Mutate, MutateThrows, Birth, TypeOK
  <2>3. Lease'
    BY <1>4 DEF RecordUnexpected, Mutate, MutateThrows, Lease, Birth, TypeOK
  <2>4. Settled'
    BY <1>4 DEF RecordUnexpected, Mutate, MutateThrows, Settled, Birth, ExecutionExclusive,
                TypeOK
  <2>5. ExecutionExclusive'
    BY <1>4 DEF RecordUnexpected, Mutate, MutateThrows, ExecutionExclusive, TypeOK
  <2>6. CompletionMatchesStatus'
    BY <1>4 DEF RecordUnexpected, Mutate, MutateThrows, CompletionMatchesStatus,
                ExecutionExclusive, Settled, Birth, TypeOK,
           Status, Active, Restartable
  <2>7. DeletionSafe'
    BY <1>4 DEF RecordUnexpected, Mutate, MutateThrows, DeletionSafe, CompletionMatchesStatus,
                Lease, Birth, TypeOK
  <2> QED
    BY <2>1, <2>2, <2>3, <2>4, <2>5, <2>6, <2>7
<1>5. CASE ReleaseExecution
  <2>1. TypeOK' /\ Recoveries'
    <3>1. status' \in Status /\ runner' \in Runner /\ phase' \in Phases
          /\ extender' \in {"idle", "reading"} /\ local' \in {"idle", "preparing", "running"}
          /\ deleter' \in {"idle", "wait", "job"} /\ verdict' \in Restartable \cup {"none"}
          /\ creator' \in [Creators -> {"idle", "reading", "commit"}]
      BY <1>5 DEF ReleaseExecution, TypeOK, Settled, Runner, Status, Active, Restartable, Phases
    <3>2. job' \in BOOLEAN /\ lease' \in BOOLEAN /\ exists' \in BOOLEAN /\ complete' \in BOOLEAN
          /\ aborted' \in BOOLEAN /\ exec' \in BOOLEAN /\ asked' \in BOOLEAN
          /\ overtaken' \in BOOLEAN
      BY <1>5 DEF ReleaseExecution, TypeOK
    <3>3. effort' \in 1 .. MaxEffort /\ budget' \in 1 .. MaxEffort /\ granted' \in 0 .. MaxEffort
      BY <1>5 DEF ReleaseExecution, TypeOK, Settled
    <3>4. faults' \in 0 .. MaxFaults /\ recovering' \in 0 .. MaxFaults /\ recovering' <= faults'
      BY <1>5 DEF ReleaseExecution, TypeOK, Recoveries
    <3> QED
      BY <3>1, <3>2, <3>3, <3>4 DEF TypeOK, Recoveries
  <2>2. Birth'
    BY <1>5 DEF ReleaseExecution, Birth, TypeOK
  <2>3. Lease'
    BY <1>5 DEF ReleaseExecution, Lease, Birth, TypeOK
  <2>4. Settled'
    BY <1>5 DEF ReleaseExecution, Settled, Birth, ExecutionExclusive, TypeOK
  <2>5. ExecutionExclusive'
    BY <1>5 DEF ReleaseExecution, ExecutionExclusive, TypeOK
  <2>6. CompletionMatchesStatus'
    BY <1>5 DEF ReleaseExecution, CompletionMatchesStatus, ExecutionExclusive, Settled, Birth,
                TypeOK,
           Status, Active, Restartable
  <2>7. DeletionSafe'
    BY <1>5 DEF ReleaseExecution, DeletionSafe, CompletionMatchesStatus, Lease, Birth, TypeOK
  <2> QED
    BY <2>1, <2>2, <2>3, <2>4, <2>5, <2>6, <2>7
<1> QED
  BY <1>1, <1>2, <1>3, <1>4, <1>5

\* So does a local run.
LEMMA LocalIInv ==
  ASSUME IInv, \/ LocalPrepare \/ LocalClaim \/ LocalEnds
  PROVE  IInv'
<1> USE ModelRunAssumption DEF IInv, Working
<1>1. CASE LocalPrepare
  <2>1. TypeOK' /\ Recoveries'
    BY <1>1 DEF LocalPrepare, Admitted, TypeOK, Recoveries, Settled, Runner, Status, Active,
                Restartable, Phases
  <2>2. Birth'
    BY <1>1 DEF LocalPrepare, Admitted, Birth, TypeOK
  <2>3. Lease'
    BY <1>1 DEF LocalPrepare, Admitted, Lease, Birth, TypeOK
  <2>4. Settled'
    BY <1>1 DEF LocalPrepare, Admitted, Settled, Birth, ExecutionExclusive, TypeOK
  <2>5. ExecutionExclusive'
    BY <1>1 DEF LocalPrepare, Admitted, ExecutionExclusive, TypeOK
  <2>6. CompletionMatchesStatus'
    BY <1>1 DEF LocalPrepare, Admitted, CompletionMatchesStatus, ExecutionExclusive, Settled,
                Birth, TypeOK,
           Status, Active, Restartable
  <2>7. DeletionSafe'
    BY <1>1 DEF LocalPrepare, Admitted, DeletionSafe, CompletionMatchesStatus, Lease, Birth,
                TypeOK
  <2> QED
    BY <2>1, <2>2, <2>3, <2>4, <2>5, <2>6, <2>7
<1>2. CASE LocalClaim
  <2>1. TypeOK' /\ Recoveries'
    <3>1. status' \in Status /\ runner' \in Runner /\ phase' \in Phases
          /\ extender' \in {"idle", "reading"} /\ local' \in {"idle", "preparing", "running"}
          /\ deleter' \in {"idle", "wait", "job"} /\ verdict' \in Restartable \cup {"none"}
          /\ creator' \in [Creators -> {"idle", "reading", "commit"}]
      BY <1>2 DEF LocalClaim, Claimable, Mutate, MutateThrows, TypeOK, Settled, Runner, Status,
                  Active, Restartable, Phases
    <3>2. job' \in BOOLEAN /\ lease' \in BOOLEAN /\ exists' \in BOOLEAN /\ complete' \in BOOLEAN
          /\ aborted' \in BOOLEAN /\ exec' \in BOOLEAN /\ asked' \in BOOLEAN
          /\ overtaken' \in BOOLEAN
      BY <1>2 DEF LocalClaim, Claimable, Mutate, MutateThrows, TypeOK
    <3>3. effort' \in 1 .. MaxEffort /\ budget' \in 1 .. MaxEffort /\ granted' \in 0 .. MaxEffort
      BY <1>2 DEF LocalClaim, Claimable, Mutate, MutateThrows, TypeOK, Settled
    <3>4. faults' \in 0 .. MaxFaults /\ recovering' \in 0 .. MaxFaults /\ recovering' <= faults'
      BY <1>2 DEF LocalClaim, Claimable, Mutate, MutateThrows, TypeOK, Recoveries
    <3> QED
      BY <3>1, <3>2, <3>3, <3>4 DEF TypeOK, Recoveries
  <2>2. Birth'
    BY <1>2 DEF LocalClaim, Claimable, Mutate, MutateThrows, Birth, TypeOK
  <2>3. Lease'
    BY <1>2 DEF LocalClaim, Claimable, Mutate, MutateThrows, Lease, Birth, TypeOK
  <2>4. Settled'
    BY <1>2 DEF LocalClaim, Claimable, Mutate, MutateThrows, Settled, Birth, ExecutionExclusive,
                TypeOK
  <2>5. ExecutionExclusive'
    BY <1>2 DEF LocalClaim, Claimable, Mutate, MutateThrows, ExecutionExclusive, TypeOK
  <2>6. CompletionMatchesStatus'
    BY <1>2 DEF LocalClaim, Claimable, Mutate, MutateThrows, CompletionMatchesStatus,
                ExecutionExclusive, Settled, Birth, TypeOK,
           Status, Active, Restartable
  <2>7. DeletionSafe'
    BY <1>2 DEF LocalClaim, Claimable, Mutate, MutateThrows, DeletionSafe, ExecutionExclusive,
                CompletionMatchesStatus, Lease, Birth, TypeOK
  <2> QED
    BY <2>1, <2>2, <2>3, <2>4, <2>5, <2>6, <2>7
<1>3. CASE LocalEnds
  <2>1. TypeOK' /\ Recoveries'
    <3>1. status' \in Status /\ runner' \in Runner /\ phase' \in Phases
          /\ extender' \in {"idle", "reading"} /\ local' \in {"idle", "preparing", "running"}
          /\ deleter' \in {"idle", "wait", "job"} /\ verdict' \in Restartable \cup {"none"}
          /\ creator' \in [Creators -> {"idle", "reading", "commit"}]
      BY <1>3 DEF LocalEnds, Mutate, MutateThrows, TypeOK, Settled, Runner, Status, Active,
                  Restartable, Phases
    <3>2. job' \in BOOLEAN /\ lease' \in BOOLEAN /\ exists' \in BOOLEAN /\ complete' \in BOOLEAN
          /\ aborted' \in BOOLEAN /\ exec' \in BOOLEAN /\ asked' \in BOOLEAN
          /\ overtaken' \in BOOLEAN
      BY <1>3 DEF LocalEnds, Mutate, MutateThrows, TypeOK
    <3>3. effort' \in 1 .. MaxEffort /\ budget' \in 1 .. MaxEffort /\ granted' \in 0 .. MaxEffort
      BY <1>3 DEF LocalEnds, Mutate, MutateThrows, TypeOK, Settled
    <3>4. faults' \in 0 .. MaxFaults /\ recovering' \in 0 .. MaxFaults /\ recovering' <= faults'
      BY <1>3 DEF LocalEnds, Mutate, MutateThrows, TypeOK, Recoveries
    <3> QED
      BY <3>1, <3>2, <3>3, <3>4 DEF TypeOK, Recoveries
  <2>2. Birth'
    BY <1>3 DEF LocalEnds, Mutate, MutateThrows, Birth, TypeOK
  <2>3. Lease'
    BY <1>3 DEF LocalEnds, Mutate, MutateThrows, Lease, Birth, TypeOK
  <2>4. Settled'
    BY <1>3 DEF LocalEnds, Mutate, MutateThrows, Settled, Birth, ExecutionExclusive, TypeOK
  <2>5. ExecutionExclusive'
    BY <1>3 DEF LocalEnds, Mutate, MutateThrows, ExecutionExclusive, TypeOK
  <2>6. CompletionMatchesStatus'
    BY <1>3 DEF LocalEnds, Mutate, MutateThrows, CompletionMatchesStatus, ExecutionExclusive,
                Settled, Birth, TypeOK,
           Status, Active, Restartable
  <2>7. DeletionSafe'
    BY <1>3 DEF LocalEnds, Mutate, MutateThrows, DeletionSafe, CompletionMatchesStatus, Lease,
                Birth, TypeOK
  <2> QED
    BY <2>1, <2>2, <2>3, <2>4, <2>5, <2>6, <2>7
<1> QED
  BY <1>1, <1>2, <1>3

\* So does the deletion of the job.
LEMMA DeleteIInv ==
  ASSUME IInv, \/ DeleteStart \/ RunStopped \/ DropJob
  PROVE  IInv'
<1> USE ModelRunAssumption DEF IInv, Working
<1>1. CASE DeleteStart
  <2>1. TypeOK' /\ Recoveries'
    <3>1. status' \in Status /\ runner' \in Runner /\ phase' \in Phases
          /\ extender' \in {"idle", "reading"} /\ local' \in {"idle", "preparing", "running"}
          /\ deleter' \in {"idle", "wait", "job"} /\ verdict' \in Restartable \cup {"none"}
          /\ creator' \in [Creators -> {"idle", "reading", "commit"}]
      BY <1>1 DEF DeleteStart, RequestCancellation, Admitted, TypeOK, Settled, Runner, Status,
                  Active, Restartable, Phases
    <3>2. job' \in BOOLEAN /\ lease' \in BOOLEAN /\ exists' \in BOOLEAN /\ complete' \in BOOLEAN
          /\ aborted' \in BOOLEAN /\ exec' \in BOOLEAN /\ asked' \in BOOLEAN
          /\ overtaken' \in BOOLEAN
      BY <1>1 DEF DeleteStart, RequestCancellation, Admitted, TypeOK
    <3>3. effort' \in 1 .. MaxEffort /\ budget' \in 1 .. MaxEffort /\ granted' \in 0 .. MaxEffort
      BY <1>1 DEF DeleteStart, RequestCancellation, Admitted, TypeOK, Settled
    <3>4. faults' \in 0 .. MaxFaults /\ recovering' \in 0 .. MaxFaults /\ recovering' <= faults'
      BY <1>1 DEF DeleteStart, RequestCancellation, Admitted, TypeOK, Recoveries
    <3> QED
      BY <3>1, <3>2, <3>3, <3>4 DEF TypeOK, Recoveries
  <2>2. Birth'
    BY <1>1 DEF DeleteStart, RequestCancellation, Admitted, Birth, TypeOK
  <2>3. Lease'
    BY <1>1 DEF DeleteStart, RequestCancellation, Admitted, Lease, Birth, TypeOK
  <2>4. Settled'
    BY <1>1 DEF DeleteStart, RequestCancellation, Admitted, Settled, Birth, ExecutionExclusive,
                TypeOK
  <2>5. ExecutionExclusive'
    BY <1>1 DEF DeleteStart, RequestCancellation, Admitted, ExecutionExclusive, TypeOK
  <2>6. CompletionMatchesStatus'
    BY <1>1 DEF DeleteStart, RequestCancellation, Admitted, CompletionMatchesStatus,
                ExecutionExclusive, Settled, Birth, TypeOK,
           Status, Active, Restartable
  <2>7. DeletionSafe'
    BY <1>1 DEF DeleteStart, RequestCancellation, Admitted, DeletionSafe,
                CompletionMatchesStatus, Lease, Birth, TypeOK
  <2> QED
    BY <2>1, <2>2, <2>3, <2>4, <2>5, <2>6, <2>7
<1>2. CASE RunStopped
  <2>1. TypeOK' /\ Recoveries'
    <3>1. status' \in Status /\ runner' \in Runner /\ phase' \in Phases
          /\ extender' \in {"idle", "reading"} /\ local' \in {"idle", "preparing", "running"}
          /\ deleter' \in {"idle", "wait", "job"} /\ verdict' \in Restartable \cup {"none"}
          /\ creator' \in [Creators -> {"idle", "reading", "commit"}]
      BY <1>2 DEF RunStopped, TypeOK, Settled, Runner, Status, Active, Restartable, Phases
    <3>2. job' \in BOOLEAN /\ lease' \in BOOLEAN /\ exists' \in BOOLEAN /\ complete' \in BOOLEAN
          /\ aborted' \in BOOLEAN /\ exec' \in BOOLEAN /\ asked' \in BOOLEAN
          /\ overtaken' \in BOOLEAN
      BY <1>2 DEF RunStopped, TypeOK
    <3>3. effort' \in 1 .. MaxEffort /\ budget' \in 1 .. MaxEffort /\ granted' \in 0 .. MaxEffort
      BY <1>2 DEF RunStopped, TypeOK, Settled
    <3>4. faults' \in 0 .. MaxFaults /\ recovering' \in 0 .. MaxFaults /\ recovering' <= faults'
      BY <1>2 DEF RunStopped, TypeOK, Recoveries
    <3> QED
      BY <3>1, <3>2, <3>3, <3>4 DEF TypeOK, Recoveries
  <2>2. Birth'
    BY <1>2 DEF RunStopped, Birth, TypeOK
  <2>3. Lease'
    BY <1>2 DEF RunStopped, Lease, Birth, TypeOK
  <2>4. Settled'
    BY <1>2 DEF RunStopped, Settled, Birth, ExecutionExclusive, TypeOK
  <2>5. ExecutionExclusive'
    BY <1>2 DEF RunStopped, ExecutionExclusive, TypeOK
  <2>6. CompletionMatchesStatus'
    BY <1>2 DEF RunStopped, CompletionMatchesStatus, ExecutionExclusive, Settled, Birth, TypeOK,
           Status, Active, Restartable
  <2>7. DeletionSafe'
    BY <1>2 DEF RunStopped, DeletionSafe, CompletionMatchesStatus, Lease, Birth, TypeOK
  <2> QED
    BY <2>1, <2>2, <2>3, <2>4, <2>5, <2>6, <2>7
<1>3. CASE DropJob
  <2>1. TypeOK' /\ Recoveries'
    <3>1. status' \in Status /\ runner' \in Runner /\ phase' \in Phases
          /\ extender' \in {"idle", "reading"} /\ local' \in {"idle", "preparing", "running"}
          /\ deleter' \in {"idle", "wait", "job"} /\ verdict' \in Restartable \cup {"none"}
          /\ creator' \in [Creators -> {"idle", "reading", "commit"}]
      BY <1>3 DEF DropJob, TypeOK, Settled, Runner, Status, Active, Restartable, Phases
    <3>2. job' \in BOOLEAN /\ lease' \in BOOLEAN /\ exists' \in BOOLEAN /\ complete' \in BOOLEAN
          /\ aborted' \in BOOLEAN /\ exec' \in BOOLEAN /\ asked' \in BOOLEAN
          /\ overtaken' \in BOOLEAN
      BY <1>3 DEF DropJob, TypeOK
    <3>3. effort' \in 1 .. MaxEffort /\ budget' \in 1 .. MaxEffort /\ granted' \in 0 .. MaxEffort
      BY <1>3 DEF DropJob, TypeOK, Settled
    <3>4. faults' \in 0 .. MaxFaults /\ recovering' \in 0 .. MaxFaults /\ recovering' <= faults'
      BY <1>3 DEF DropJob, TypeOK, Recoveries
    <3> QED
      BY <3>1, <3>2, <3>3, <3>4 DEF TypeOK, Recoveries
  <2>2. Birth'
    BY <1>3 DEF DropJob, Birth, TypeOK
  <2>3. Lease'
    BY <1>3 DEF DropJob, Lease, Birth, TypeOK
  <2>4. Settled'
    BY <1>3 DEF DropJob, Settled, Birth, ExecutionExclusive, TypeOK
  <2>5. ExecutionExclusive'
    BY <1>3 DEF DropJob, ExecutionExclusive, TypeOK
  <2>6. CompletionMatchesStatus'
    BY <1>3 DEF DropJob, CompletionMatchesStatus, ExecutionExclusive, Settled, Birth, TypeOK,
           Status, Active, Restartable
  <2>7. DeletionSafe'
    BY <1>3 DEF DropJob, DeletionSafe, CompletionMatchesStatus, Lease, Birth, TypeOK
  <2> QED
    BY <2>1, <2>2, <2>3, <2>4, <2>5, <2>6, <2>7
<1> QED
  BY <1>1, <1>2, <1>3

-----------------------------------------------------------------------------
(* The theorems *)

\* A job without a model run satisfies the invariant.
LEMMA InitIInv == Init => IInv
<1> SUFFICES ASSUME Init PROVE IInv
  OBVIOUS
<1>1. TypeOK /\ Recoveries
  <2>1. /\ effort \in 1 .. MaxEffort /\ budget \in 1 .. MaxEffort /\ granted \in 0 .. MaxEffort
        /\ faults \in 0 .. MaxFaults /\ recovering \in 0 .. MaxFaults /\ recovering <= faults
    BY ModelRunAssumption DEF Init
  <2>2. /\ creator \in [Creators -> {"idle", "reading", "commit"}]
        /\ status \in Status /\ runner \in Runner /\ phase \in Phases
    BY DEF Init, Status, Active, Runner, Phases
  <2> QED
    BY <2>1, <2>2 DEF Init, TypeOK, Recoveries
<1>2. Birth /\ Lease /\ Settled
  BY DEF Init, Birth, Lease, Settled, Working
<1>3. ExecutionExclusive /\ CompletionMatchesStatus /\ DeletionSafe
  BY DEF Init, ExecutionExclusive, CompletionMatchesStatus, DeletionSafe, Working
<1> QED
  BY <1>1, <1>2, <1>3 DEF IInv

\* The claim, the record and the lease stay in the relation that the handlers of the
\* model-run API, runModel and deleteJob rely on.
THEOREM ModelRunInductive == Spec => []IInv
<1>1. IInv /\ [Next]_vars => IInv'
  <2> SUFFICES ASSUME IInv, [Next]_vars PROVE IInv'
    OBVIOUS
  <2>1. CASE Launches \/ \E c \in Creators : CreateRequest(c) \/ CreateRun(c)
    BY <2>1, CreateIInv DEF Launches
  <2>2. CASE RetryRun \/ ExtendRequest \/ ExtendRun \/ CancelRun
    BY <2>2, RequestIInv
  <2>3. CASE RunnerStep \/ StageUpdate \/ StartRepair \/ EndRepair \/ PublishModel
    BY <2>3, PipelineIInv, FinishIInv DEF RunnerStep
  <2>4. CASE LocalPrepare \/ LocalClaim \/ LocalEnds
    BY <2>4, LocalIInv
  <2>5. CASE DeleteStart \/ RunStopped \/ DropJob
    BY <2>5, DeleteIInv
  <2>6. CASE UNCHANGED vars
    BY <2>6 DEF vars, IInv, TypeOK, Birth, Lease, Settled, Recoveries, ExecutionExclusive,
                CompletionMatchesStatus, DeletionSafe
  <2> QED
    BY <2>1, <2>2, <2>3, <2>4, <2>5, <2>6 DEF Next
<1> QED
  BY <1>1, InitIInv, PTL DEF Spec

\* A model run has one execution at a time, its record shows whether it is finished,
\* and deleteJob goes on to the job only when no runner works on the model.
THEOREM ModelRunIsSafe == Spec => []RunIntegrity
<1>1. IInv => RunIntegrity
  BY DEF IInv, RunIntegrity
<1> QED
  BY <1>1, ModelRunInductive, PTL

\* runModel reports a published model as complete, and a run cancelled in time as
\* cancelled unless it completed.
THEOREM OutcomeIsHonoured == Spec => OutcomeHonoured
<1>1. IInv /\ [Next]_vars =>
        [(runner \in Working /\ runner' = "release" /\ exists) =>
            /\ phase = "published" => status' = "complete" /\ complete'
            /\ asked /\ ~overtaken => status' \in {"cancelled", "complete"}]_vars
  <2> SUFFICES ASSUME IInv, Next, runner \in Working, runner' = "release", exists
               PROVE  /\ phase = "published" => status' = "complete" /\ complete'
                      /\ asked /\ ~overtaken => status' \in {"cancelled", "complete"}
    OBVIOUS
  <2> USE DEF IInv, Settled, CompletionMatchesStatus
  <2>1. CASE Launches \/ \E c \in Creators : CreateRequest(c) \/ CreateRun(c)
    BY <2>1 DEF Launches, CreateRequest, CreateRun, LaunchCreated, Launch, Unlaunched, Working
  <2>2. CASE RetryRun \/ ExtendRequest \/ ExtendRun \/ CancelRun
    BY <2>2 DEF RetryRun, ExtendRequest, ExtendRun, CancelRun, Launch, Unlaunched, Working
  <2>3. CASE StartPipeline
    BY <2>3 DEF StartPipeline, EnterCatch
  <2>4. CASE PipelineEnds
    BY <2>4 DEF PipelineEnds, EnterCatch
  <2>5. CASE FinishCommitted
    BY <2>5 DEF FinishCommitted
  <2>6. CASE FinishSegment
    BY <2>6 DEF FinishSegment, Mutate, MutateThrows, EnterCatch
  <2>7. CASE FinishCaught
    BY <2>7 DEF FinishCaught, Mutate
  <2>8. CASE RecordUnexpected \/ ReleaseExecution
    BY <2>8 DEF RecordUnexpected, ReleaseExecution, Working
  <2>9. CASE StageUpdate \/ StartRepair \/ EndRepair \/ PublishModel
    BY <2>9 DEF StageUpdate, StartRepair, EndRepair, PublishModel, Working
  <2>10. CASE LocalPrepare \/ LocalClaim \/ LocalEnds \/ DeleteStart \/ RunStopped \/ DropJob
    BY <2>10 DEF LocalPrepare, LocalClaim, LocalEnds, DeleteStart, RunStopped, DropJob, Working
  <2> QED
    BY <2>1, <2>2, <2>3, <2>4, <2>5, <2>6, <2>7, <2>8, <2>9, <2>10 DEF Next, RunnerStep
<1> QED
  BY <1>1, ModelRunInductive, PTL DEF Spec, OutcomeHonoured

-----------------------------------------------------------------------------
(***************************************************************************)
(* The agent's search (ModelCandidateSearch).                              *)
(***************************************************************************)
\* The files of an agent's workspace, and the pairs its receipts name.
Pairs == [src : Int, card : Int]

SearchTypes ==
    /\ lib \in Int /\ card \in Int /\ arg \in Int
    /\ crec \in Pairs /\ trec \in Pairs /\ best \in Pairs
    /\ tool = "none" => step = "idle"
    /\ step \in {"static", "train", "consider"} => tool = "check"
    /\ step = "fit" => tool = "fit"

\* How far the removal of the receipts and the restoration of the best have come.
Halfway ==
    /\ step = "drop" => /\ "crec" \in todo \/ crec = NoPair
                        /\ "trec" \in todo \/ trec = NoPair
    /\ step = "restore" => /\ "lib" \in todo \/ lib = best.src
                           /\ "card" \in todo \/ card = best.card
    /\ step = "receipts" => Current = best

\* Where no check is at work, the receipt of the static check is gone, or tells of a
\* failure, or the workspace holds the retained best.
Kept ==
    plan /\ ready /\ best # NoPair
    /\ (tool = "none" \/ step = "fit" \/ (tool = "fit" /\ step = "restore"))
        => crec \in {NoPair, Failed} \/ Current = best

SearchInv == SearchTypes /\ Halfway /\ Kept

\* A tool call of the agent, and the loss of its process, preserve the search's invariant.
LEMMA SearchStepInv ==
  ASSUME SearchInv, SearchNext
  PROVE  SearchInv'
<1> USE SearchAssumption DEF SearchInv, SearchTypes, Halfway, Kept, Current, Pairs, NoPair, Failed,
        None, Torn, workspace, session, call
<1>1. ASSUME NEW f \in {"lib", "card"}, NEW v \in Int, WriteOutput(f, v) PROVE SearchInv'
  BY <1>1 DEF WriteOutput, Initialize, Best, Seed
<1>2. CASE WriteFile
  BY <1>2 DEF WriteFile
<1>3. ASSUME NEW f \in {"crec", "trec"}, DropReceipt(f) PROVE SearchInv'
  BY <1>3 DEF DropReceipt, Finished
<1>4. CASE CheckCandidate
  BY <1>4 DEF CheckCandidate, Initialize, Best, Seed, Finished
<1>5. CASE StaticCheck
  BY <1>5 DEF StaticCheck, Finished
<1>6. CASE CheckThrows
  BY <1>6 DEF CheckThrows, RestoreOr, FailedReceipt, Finished
<1>7. CASE TrainingReport \/ Consider
  BY <1>7 DEF TrainingReport, Consider, Finished
<1>8. ASSUME NEW f \in {"lib", "card"}, RestoreFile(f) PROVE SearchInv'
  BY <1>8 DEF RestoreFile
<1>9. ASSUME NEW f \in {"crec", "trec"}, RestoreReceipt(f) PROVE SearchInv'
  BY <1>9 DEF RestoreReceipt, Finished
<1>10. CASE RestoreFails
  BY <1>10 DEF RestoreFails, FailedReceipt, Finished
<1>11. ASSUME NEW r \in Requests, FitParameters(r) PROVE SearchInv'
  BY <1>11 DEF FitParameters, Initialize, Best, Seed, Finished
<1>12. ASSUME NEW s \in Sources, FitRuns(s) PROVE SearchInv'
  BY <1>12 DEF FitRuns
<1>13. CASE FitThrows
  BY <1>13 DEF FitThrows, Finished
<1>14. CASE Kill
  BY <1>14 DEF Kill, Finished
<1>15. Sources \subseteq Int /\ Cards \subseteq Int
  BY DEF Cards
<1> QED
  BY <1>1, <1>2, <1>3, <1>4, <1>5, <1>6, <1>7, <1>8, <1>9, <1>10, <1>11, <1>12, <1>13, <1>14,
     <1>15 DEF SearchNext

\* A workspace begins in the invariant.
LEMMA ResetInv ==
  ASSUME ResetSearch
  PROVE  SearchInv'
BY DEF ResetSearch, SearchInv, SearchTypes, Halfway, Kept, Current, Pairs, NoPair, None

\* For every set of sources and every order of tool calls, failed writes and killed
\* processes, the search's invariant holds in the whole model pipeline.
THEOREM SearchInductive == WorkflowSpec => []SearchInv
<1>1. WorkflowInit => SearchInv
  BY DEF WorkflowInit, SearchInit, SearchInv, SearchTypes, Halfway, Kept, Current, Pairs,
         NoPair, None
<1>2. SearchInv /\ [WorkflowNext]_workflowVars => SearchInv'
  <2> SUFFICES ASSUME SearchInv, [WorkflowNext]_workflowVars PROVE SearchInv'
    OBVIOUS
  <2>1. CASE Search
    BY <2>1, SearchStepInv DEF Search
  <2>2. CASE StartInference \/ Cancel \/ Stop
    BY <2>2, ResetInv DEF StartInference, Cancel, Stop, EndSearch
  <2>3. CASE FinishInference
    <3>1. CASE EndSearch
      BY <3>1, ResetInv DEF EndSearch
    <3>2. CASE ~EndSearch
      <4>1. /\ trec' = NoPair /\ ready' = FALSE /\ best' = NoPair
            /\ UNCHANGED <<lib, card, crec, tool, step, todo, arg, plan>>
            /\ tool = "none"
        BY <2>3, <3>2 DEF FinishInference, call
      <4> QED
        BY <4>1 DEF SearchInv, SearchTypes, Halfway, Kept, Current, Pairs, NoPair, None
    <3> QED
      BY <3>1, <3>2
  <2>4. CASE UNCHANGED searchVars
    BY <2>4 DEF searchVars, workspace, session, call, SearchInv, SearchTypes, Halfway, Kept,
                Current
  <2>5. CASE Work /\ ~(StartInference \/ FinishInference)
    <3>1. UNCHANGED searchVars
      BY <2>5 DEF Work, FindReferenceGraphs, WaitForModelEvidence, CreateComparisonGraphs,
         ReuseCandidate, CreateSimulationTsx, RunSimulations, CompareSimulationOutputs,
         RemoveBundle, PlaceBundle, WriteMarker, WriteRecord, ProjectionExpires, EnterRepair,
         StartAttempt, AttemptExpires, Decide, BudgetSpent, WaitForComponent
    <3> QED
      BY <2>4, <3>1
  <2>6. CASE \/ Attempt \/ Tick \/ Extend \/ JobStep \/ Restart \/ Retry \/ Ended
             \/ UNCHANGED workflowVars
    <3>1. UNCHANGED searchVars
      BY <2>6 DEF Attempt, GenerateRepair, ValidateRepair, AttemptFails, Tick, Extend, JobStep,
                  Restart,
         Retry, Ended, workflowVars
    <3> QED
      BY <2>4, <3>1
  <2> QED
    BY <2>1, <2>2, <2>3, <2>5, <2>6 DEF WorkflowNext
<1> QED
  BY <1>1, <1>2, PTL DEF WorkflowSpec

\* check_model_candidate and fit_model_parameters: what the server would accept between
\* two tool calls is the best candidate the session retained, or as good.
THEOREM AcceptableKept == WorkflowSpec => []AcceptableIsBest
<1>1. SearchInv => AcceptableIsBest
  <2> SUFFICES ASSUME SearchInv, tool = "none", ready, best # NoPair, ServerAccepts, plan
               PROVE  TrainingQuality[lib] <= TrainingQuality[best.src]
    BY DEF AcceptableIsBest
  <2>1. lib \in Sources /\ crec = Current
    BY SearchAssumption DEF ServerAccepts, StaticallyValid
  <2>2. crec \notin {NoPair, Failed}
    BY <2>1, SearchAssumption DEF Current, NoPair, Failed, None, Torn
  <2>3. best.src = lib
    BY <2>2 DEF SearchInv, Kept, Current
  <2> QED
    BY <2>1, <2>3, SearchAssumption
<1> QED
  BY <1>1, SearchInductive, PTL

-----------------------------------------------------------------------------
(***************************************************************************)
(* The stages of the model pipeline (ModelWorkflow).                       *)
(***************************************************************************)
Fates == {"new", "promoted", "rejected"}
CandidateDirs == [rev : Sources, tsx : 0..1, q : Nat, val : BOOLEAN, fate : Fates]
Snapshots == [cand : Nat, q : Nat]
Projections == {"project", "marker", "record"}
Repairing == {"loop", "generate", "validate", "decide", "component", "publish"}
Pcs == {"find", "wait_evidence", "graphs", "infer", "search", "tsx", "simulate", "compare",
        "repair", "failed", "stopped"} \cup Projections \cup Repairing

WorkflowTypes ==
    /\ pc \in Pcs /\ after \in {"none", "repair", "failed", "restored", "improved"}
    /\ invocation \in 1..MaxInvocations
    /\ cands \in Seq(CandidateDirs)
    /\ cur \in 0..Len(cands) /\ incumbent \in 0..Len(cands)
    /\ bundles \in [Generations -> Snapshots]
    /\ marker \in Generations \cup {NoGeneration}
    /\ record \in [rev : Nat, shown : Snapshots, dev : Nat]

Promoted(c) == c \in 1..Len(cands) /\ cands[c].fate = "promoted"

\* Whatever can be shown, by the record or by a bundle, is a promoted candidate of the
\* revision it is filed under.
OnlyPromoted ==
    /\ record.shown = Nothing \/ Promoted(record.shown.cand)
    /\ record.rev = 0 \/ \E c \in 1..Len(cands) : Promoted(c) /\ cands[c].rev = record.rev
    /\ \A g \in Generations : bundles[g] # Nothing =>
          Promoted(bundles[g].cand) /\ cands[bundles[g].cand].rev = g[2]

\* The marker is of this run of the pipeline only once a projection has begun, and what
\* a restart would show then is no worse than what is shown.
MarkerSafe ==
    /\ marker[1] <= invocation
    /\ pc \in {"find", "wait_evidence", "graphs", "infer", "search", "tsx", "simulate", "compare"}
          => marker[1] < invocation
    /\ marker[1] = invocation /\ bundles[marker] # Nothing /\ record.shown # Nothing
          => bundles[marker].q <= record.shown.q

\* A projection is of a promoted candidate, as good as what is shown, and its three
\* places are written in order.
Projection ==
    /\ pc \in {"tsx", "simulate", "compare", "repair"} \cup Projections => cur # 0
    /\ pc \in {"simulate", "compare"} => record.shown = Nothing
    /\ pc \in Projections <=> after # "none"
    /\ pc \in Projections \cup {"repair"} =>
          /\ Promoted(cur) /\ cands[cur].val
          /\ record.shown = Nothing \/ cands[cur].q <= record.shown.q
    /\ pc \in {"marker", "record"} => bundles[Generation] = Snapshot(cur)
    /\ pc = "record" => marker = Generation

\* From the first projection of the repair on, the incumbent is what is shown, and the
\* attempt at hand is another candidate, not judged yet.
Handed ==
    /\ pc \in Repairing =>
          /\ incumbent # 0 /\ Promoted(incumbent) /\ cands[incumbent].val
          /\ record.shown = Snapshot(incumbent)
          /\ record.rev = cands[incumbent].rev /\ record.dev = record.rev
          /\ marker = <<invocation, record.rev>>
          /\ bundles[marker] = record.shown
    /\ pc \in {"validate", "decide"} => cur # 0 /\ cands[cur].fate = "new"
    /\ pc = "decide" => cands[cur].val

WorkflowInv == WorkflowTypes /\ OnlyPromoted /\ MarkerSafe /\ Projection /\ Handed

\* The run of the pipeline a marker is of, and the place of the candidate at hand.
LEMMA Places ==
  ASSUME WorkflowTypes
  PROVE  /\ marker[1] \in Nat
         /\ \A c \in 1..Len(cands) : cands[c] \in CandidateDirs
         /\ cur # 0 => /\ Generation \in Generations /\ Generation[1] = invocation
                       /\ Generation[2] = cands[cur].rev /\ Snapshot(cur) \in Snapshots
<1>1. MaxInvocations \in Nat
  BY WorkflowAssumption
<1>2. marker[1] \in Nat
  BY <1>1 DEF WorkflowTypes, Generations, NoGeneration
<1>3. \A c \in 1..Len(cands) : cands[c] \in CandidateDirs
  BY DEF WorkflowTypes
<1>4. ASSUME cur # 0
      PROVE  /\ Generation \in Generations /\ Generation[1] = invocation
             /\ Generation[2] = cands[cur].rev /\ Snapshot(cur) \in Snapshots
  <2>1. cur \in 1..Len(cands)
    BY <1>4 DEF WorkflowTypes
  <2>2. cands[cur] \in CandidateDirs
    BY <1>3, <2>1
  <2> QED
    BY <2>1, <2>2 DEF WorkflowTypes, Generation, Generations, CandidateDirs, Revisions,
                      Snapshot,
                      Snapshots
<1> QED
  BY <1>2, <1>3, <1>4

\* The steps that leave the candidates and the three places of a preview alone.
LEMMA MoveInv ==
  ASSUME WorkflowInv,
         \/ WaitForModelEvidence \/ StartInference \/ RunSimulations \/ ProjectionExpires
         \/ EnterRepair \/ StartAttempt \/ AttemptExpires \/ AttemptFails \/ BudgetSpent
         \/ WaitForComponent \/ Cancel \/ Stop \/ Retry
  PROVE  WorkflowInv'
<1> USE DEF WorkflowInv, WorkflowTypes, OnlyPromoted, MarkerSafe, Projection, Handed, Promoted,
        Snapshot, Generation, Pcs, Projections, Repairing, Stage, previewVars
<1>1. CASE WaitForModelEvidence
  BY <1>1 DEF WaitForModelEvidence
<1>2. CASE StartInference
  BY <1>2 DEF StartInference
<1>3. CASE RunSimulations
  BY <1>3 DEF RunSimulations
<1>4. CASE ProjectionExpires
  BY <1>4 DEF ProjectionExpires
<1>5. CASE EnterRepair
  BY <1>5 DEF EnterRepair
<1>6. CASE StartAttempt
  BY <1>6 DEF StartAttempt
<1>7. CASE AttemptExpires \/ AttemptFails
  BY <1>7 DEF AttemptExpires, AttemptFails
<1>8. CASE BudgetSpent \/ WaitForComponent
  BY <1>8 DEF BudgetSpent, WaitForComponent
<1>9. CASE Cancel \/ Stop
  BY <1>9 DEF Cancel, Stop
<1>10. CASE Retry
  <2>1. /\ pc = "failed" /\ pc' = "find" /\ invocation < MaxInvocations
        /\ invocation' = invocation + 1 /\ cur' = 0 /\ incumbent' = 0
        /\ UNCHANGED <<cands, after, bundles, marker, record>>
    BY <1>10 DEF Retry
  <2>2. MaxInvocations \in Nat /\ marker[1] \in Nat
    BY WorkflowAssumption, Places
  <2>3. WorkflowTypes'
    BY <2>1, <2>2
  <2>4. OnlyPromoted' /\ Projection' /\ Handed'
    BY <2>1
  <2>5. marker[1] < invocation'
    BY <2>1, <2>2
  <2>6. MarkerSafe'
    BY <2>1, <2>2, <2>5
  <2> QED
    BY <2>3, <2>4, <2>6
<1> QED
  BY <1>1, <1>2, <1>3, <1>4, <1>5, <1>6, <1>7, <1>8, <1>9, <1>10

\* The steps that write the bundle, the marker or the record.
LEMMA PreviewInv ==
  ASSUME WorkflowInv,
         \/ FindReferenceGraphs \/ CreateComparisonGraphs \/ ReuseCandidate \/ RemoveBundle
         \/ PlaceBundle \/ WriteMarker \/ WriteRecord \/ Restart
  PROVE  WorkflowInv'
<1> USE DEF WorkflowInv, Pcs, Projections, Repairing, Stage
<1>1. CASE FindReferenceGraphs \/ CreateComparisonGraphs
  BY <1>1 DEF FindReferenceGraphs, CreateComparisonGraphs, WorkflowTypes, OnlyPromoted,
              MarkerSafe,
     Projection, Handed, Promoted, Snapshot, Generation, Snapshots, Nothing
<1>2. CASE ReuseCandidate
  <2>0. DOMAIN cands = 1..Len(cands)
    BY DEF WorkflowTypes
  <2>1. PICK c \in 1..Len(cands) :
          /\ cur' = c /\ record' = [record EXCEPT !.dev = cands[c].rev]
          /\ pc = "infer" /\ pc' = "tsx"
          /\ UNCHANGED <<invocation, cands, incumbent, after, bundles, marker>>
    BY <1>2, <2>0 DEF ReuseCandidate, Retained
  <2>2. cands[c].rev \in Nat
    BY Places, SearchAssumption DEF CandidateDirs
  <2>3. WorkflowTypes'
    BY <2>1, <2>2 DEF WorkflowTypes
  <2>4. record'.shown = record.shown /\ record'.rev = record.rev
    BY <2>1 DEF WorkflowTypes
  <2>5. OnlyPromoted' /\ MarkerSafe'
    BY <2>1, <2>4 DEF OnlyPromoted, MarkerSafe, Promoted
  <2>6. Projection' /\ Handed'
    BY <2>1, <2>4 DEF Projection, Handed
  <2> QED
    BY <2>3, <2>5, <2>6
<1>3. CASE RemoveBundle
  <2>1. /\ pc = "project" /\ cur # 0 /\ bundles' = [bundles EXCEPT ![Generation] = Nothing]
        /\ UNCHANGED <<pc, invocation, cands, cur, incumbent, after, marker, record>>
    BY <1>3 DEF RemoveBundle, Projecting, stageVars, Projection
  <2>2. Generation \in Generations
    BY <2>1, Places
  <2>3. WorkflowTypes'
    BY <2>1, <2>2 DEF WorkflowTypes, Snapshots, Nothing
  <2>4. \A g \in Generations : bundles'[g] \in {bundles[g], Nothing}
    BY <2>1, <2>2 DEF WorkflowTypes
  <2>5. OnlyPromoted'
    BY <2>1, <2>4 DEF OnlyPromoted, Promoted
  <2>6. marker[1] = invocation => marker \in Generations
    BY DEF WorkflowTypes, NoGeneration
  <2>7. MarkerSafe'
    BY <2>1, <2>4, <2>6 DEF MarkerSafe
  <2>8. Projection' /\ Handed'
    BY <2>1 DEF Projection, Handed, Promoted
  <2> QED
    BY <2>3, <2>5, <2>7, <2>8
<1>4. CASE PlaceBundle
  <2>1. /\ pc = "project" /\ cur # 0 /\ bundles' = [bundles EXCEPT ![Generation] = Snapshot(cur)]
        /\ pc' = "marker"
        /\ UNCHANGED <<invocation, cands, cur, incumbent, after, marker, record>>
    BY <1>4 DEF PlaceBundle, Projecting, Projection
  <2>2. Generation \in Generations /\ Snapshot(cur) \in Snapshots /\ Generation[2] = cands[cur].rev
    BY <2>1, Places
  <2>3. Promoted(cur) /\ (record.shown = Nothing \/ cands[cur].q <= record.shown.q)
    BY <2>1 DEF Projection
  <2>4. WorkflowTypes'
    BY <2>1, <2>2 DEF WorkflowTypes
  <2>5. \A g \in Generations : bundles'[g] = IF g = Generation THEN Snapshot(cur) ELSE bundles[g]
    BY <2>1, <2>2 DEF WorkflowTypes
  <2>6. Snapshot(cur).cand = cur /\ Snapshot(cur).q = cands[cur].q
    BY DEF Snapshot
  <2>7. OnlyPromoted'
    BY <2>1, <2>2, <2>3, <2>5, <2>6 DEF OnlyPromoted, Promoted
  <2>8. marker[1] = invocation => marker \in Generations
    BY DEF WorkflowTypes, NoGeneration
  <2>9. MarkerSafe'
    BY <2>1, <2>3, <2>5, <2>6, <2>8 DEF MarkerSafe
  <2>10. Projection' /\ Handed'
    BY <2>1, <2>2, <2>5 DEF Projection, Handed, Promoted, Generation, Snapshot
  <2> QED
    BY <2>4, <2>7, <2>9, <2>10
<1>5. CASE WriteMarker
  <2>1. /\ pc = "marker" /\ cur # 0 /\ marker' = Generation /\ pc' = "record"
        /\ UNCHANGED <<invocation, cands, cur, incumbent, after, bundles, record>>
    BY <1>5 DEF WriteMarker, Projecting, Projection
  <2>2. Generation \in Generations /\ Generation[1] = invocation
    BY <2>1, Places
  <2>3. /\ bundles[Generation] = Snapshot(cur)
        /\ record.shown = Nothing \/ cands[cur].q <= record.shown.q
    BY <2>1 DEF Projection
  <2>4. Snapshot(cur).q = cands[cur].q
    BY DEF Snapshot
  <2>5. WorkflowTypes' /\ OnlyPromoted'
    BY <2>1, <2>2 DEF WorkflowTypes, OnlyPromoted, Promoted
  <2>6. MarkerSafe'
    BY <2>1, <2>2, <2>3, <2>4 DEF MarkerSafe, WorkflowTypes
  <2>7. Projection' /\ Handed'
    BY <2>1 DEF Projection, Handed, Promoted, Generation, Snapshot
  <2> QED
    BY <2>5, <2>6, <2>7
<1>6. CASE WriteRecord
  <2>1. /\ pc = "record" /\ cur # 0 /\ after # "none"
        /\ record'.rev = cands[cur].rev /\ record'.shown = Snapshot(cur)
        /\ after' = "none" /\ UNCHANGED <<invocation, cands, cur, bundles, marker>>
    BY <1>6 DEF WriteRecord, Projecting, Projection
  <2>2. \/ /\ after \in {"repair", "failed"} /\ pc' = after /\ incumbent' = incumbent
           /\ record'.dev = record.dev
        \/ /\ after \in {"restored", "improved"} /\ pc' \in {"component", "loop"}
           /\ incumbent' = cur /\ record'.dev = cands[cur].rev
    BY <1>6, <2>1 DEF WriteRecord, WorkflowTypes
  <2>3. /\ Generation \in Generations /\ Generation[1] = invocation /\ Snapshot(cur) \in Snapshots
        /\ cands[cur] \in CandidateDirs
    BY <2>1, Places DEF WorkflowTypes
  <2>4. /\ Promoted(cur) /\ cands[cur].val /\ bundles[Generation] = Snapshot(cur)
        /\ marker = Generation
    BY <2>1 DEF Projection
  <2>5. Snapshot(cur).cand = cur /\ Snapshot(cur).q = cands[cur].q /\ cands[cur].rev \in Nat
    BY <2>3, SearchAssumption DEF Snapshot, CandidateDirs
  <2>6. record' \in [rev : Nat, shown : Snapshots, dev : Nat]
    BY <1>6, <2>3, <2>5 DEF WriteRecord, WorkflowTypes
  <2>7. WorkflowTypes'
    BY <2>1, <2>2, <2>6 DEF WorkflowTypes
  <2>8. OnlyPromoted'
    BY <2>1, <2>4, <2>5 DEF OnlyPromoted, Promoted
  <2>9. MarkerSafe'
    BY <2>1, <2>2, <2>3, <2>4, <2>5 DEF MarkerSafe, CandidateDirs
  <2>10. Projection'
    BY <2>1, <2>2, <2>3, <2>4, <2>5 DEF Projection, Promoted, CandidateDirs
  <2>11. Handed'
    BY <2>1, <2>2, <2>4, <2>5 DEF Handed, Promoted, Generation, Snapshot
  <2> QED
    BY <2>7, <2>8, <2>9, <2>10, <2>11
<1>7. CASE Restart
  <2>1. /\ pc = "stopped" /\ pc' = "failed" /\ after = "none"
        /\ UNCHANGED <<invocation, cands, cur, incumbent, after, bundles, marker>>
    BY <1>7 DEF Restart, Projection
  <2>2. CASE record' = record
    BY <2>1, <2>2 DEF WorkflowTypes, OnlyPromoted, MarkerSafe, Projection, Handed, Promoted
  <2>3. CASE record' # record
    <3>1. /\ marker[1] = invocation /\ bundles[marker] # Nothing
          /\ record' = [record EXCEPT !.rev = marker[2], !.shown = bundles[marker]]
      BY <1>7, <2>3 DEF Restart, Projected
    <3>2. marker \in Generations
      BY <3>1 DEF WorkflowTypes, NoGeneration
    <3>3. marker[2] \in Nat /\ bundles[marker] \in Snapshots
      BY <3>2, SearchAssumption DEF Generations, Revisions, WorkflowTypes
    <3>4. record'.rev = marker[2] /\ record'.shown = bundles[marker]
      BY <3>1 DEF WorkflowTypes
    <3>5. WorkflowTypes'
      BY <2>1, <3>1, <3>3 DEF WorkflowTypes
    <3>6. OnlyPromoted'
      BY <2>1, <3>1, <3>2, <3>4 DEF OnlyPromoted, Promoted
    <3>7. MarkerSafe'
      BY <2>1, <3>3, <3>4 DEF MarkerSafe, Snapshots
    <3>8. Projection' /\ Handed'
      BY <2>1 DEF Projection, Handed
    <3> QED
      BY <3>5, <3>6, <3>7, <3>8
  <2> QED
    BY <2>2, <2>3
<1> QED
  BY <1>1, <1>2, <1>3, <1>4, <1>5, <1>6, <1>7

\* The steps that create a candidate directory.
LEMMA CreateInv ==
  ASSUME WorkflowInv, FinishInference \/ GenerateRepair
  PROVE  WorkflowInv'
<1> USE DEF WorkflowInv, Pcs, Projections, Repairing
<1>1. ASSUME NEW rev \in Static, NEW tsx \in 0..1, cands' = Append(cands, NewCandidate(rev, tsx))
      PROVE  /\ cands' \in Seq(CandidateDirs) /\ Len(cands') = Len(cands) + 1
             /\ Len(cands) \in Nat
             /\ \A c \in 1..Len(cands) : cands'[c] = cands[c]
             /\ cands'[Len(cands')].fate = "new"
             /\ \A c \in 1..Len(cands) : Promoted(c) => Promoted(c)'
             /\ OnlyPromoted /\ record'.shown = record.shown /\ record'.rev = record.rev
                    /\ bundles' = bundles => OnlyPromoted'
  <2>1. NewCandidate(rev, tsx) \in CandidateDirs /\ NewCandidate(rev, tsx).fate = "new"
    BY SearchAssumption, WorkflowAssumption DEF NewCandidate, CandidateDirs, Fates
  <2>2. cands \in Seq(CandidateDirs) /\ Len(cands) \in Nat
    BY DEF WorkflowTypes
  <2>3. /\ cands' \in Seq(CandidateDirs) /\ Len(cands') = Len(cands) + 1
        /\ \A c \in 1..Len(cands) : cands'[c] = cands[c]
        /\ cands'[Len(cands')].fate = "new"
    BY <1>1, <2>1, <2>2, AppendProperties
  <2>4. \A c \in 1..Len(cands) : Promoted(c) => Promoted(c)'
    BY <2>2, <2>3 DEF Promoted
  <2>5. \A c : Promoted(c) => Promoted(c)' /\ cands'[c] = cands[c]
    BY <2>3, <2>4 DEF Promoted
  <2>6. ASSUME OnlyPromoted, record'.shown = record.shown, record'.rev = record.rev,
               bundles' = bundles
        PROVE  OnlyPromoted'
    <3>1. record'.rev = 0 \/ \E c \in 1..Len(cands') : Promoted(c)' /\ cands'[c].rev = record'.rev
      BY <2>2, <2>3, <2>5, <2>6 DEF OnlyPromoted
    <3>2. record'.shown = Nothing \/ Promoted(record.shown.cand)'
      BY <2>5, <2>6 DEF OnlyPromoted
    <3>3. \A g \in Generations : bundles[g] # Nothing =>
             Promoted(bundles[g].cand)' /\ cands'[bundles[g].cand].rev = g[2]
      BY <2>5, <2>6 DEF OnlyPromoted
    <3> QED
      BY <2>6, <3>1, <3>2, <3>3 DEF OnlyPromoted, Promoted
  <2> QED
    BY <2>2, <2>3, <2>4, <2>6
<1>2. CASE FinishInference /\ ServerAccepts
  <2>1. /\ lib \in Static /\ cands' = Append(cands, NewCandidate(lib, 0)) /\ cur' = Len(cands')
        /\ record' = [record EXCEPT !.dev = lib] /\ pc = "search" /\ pc' = "tsx"
        /\ UNCHANGED <<invocation, incumbent, after, bundles, marker>>
    BY <1>2 DEF FinishInference, ServerAccepts, StaticallyValid
  <2>2. record' \in [rev : Nat, shown : Snapshots, dev : Nat] /\ record'.shown = record.shown
           /\ record'.rev = record.rev
    BY <2>1, SearchAssumption DEF WorkflowTypes
  <2>3. /\ cands' \in Seq(CandidateDirs) /\ Len(cands') = Len(cands) + 1 /\ Len(cands) \in Nat
        /\ OnlyPromoted'
    BY <1>1, <2>1, <2>2
  <2>4. WorkflowTypes'
    BY <2>1, <2>2, <2>3 DEF WorkflowTypes
  <2>5. MarkerSafe' /\ Projection' /\ Handed'
    BY <2>1, <2>2, <2>3 DEF MarkerSafe, Projection, Handed
  <2> QED
    BY <2>3, <2>4, <2>5
<1>3. CASE FinishInference /\ ~ServerAccepts
  <2>1. /\ pc = "search" /\ pc' \in {"search", "failed"}
        /\ UNCHANGED <<invocation, cands, cur, record, incumbent, after, bundles, marker>>
    BY <1>3 DEF FinishInference
  <2> QED
    BY <2>1 DEF WorkflowTypes, OnlyPromoted, Promoted, MarkerSafe, Projection, Handed
<1>4. CASE GenerateRepair
  <2>1. PICK rev \in Static, tsx \in 0..1 : cands' = Append(cands, NewCandidate(rev, tsx))
    BY <1>4 DEF GenerateRepair
  <2>2. /\ pc = "generate" /\ pc' = "validate" /\ cur' = Len(cands')
        /\ UNCHANGED <<invocation, incumbent, after, bundles, marker, record>>
    BY <1>4 DEF GenerateRepair, previewVars
  <2>3. /\ cands' \in Seq(CandidateDirs) /\ Len(cands') = Len(cands) + 1 /\ Len(cands) \in Nat
        /\ \A c \in 1..Len(cands) : cands'[c] = cands[c]
        /\ cands'[Len(cands')].fate = "new"
        /\ \A c \in 1..Len(cands) : Promoted(c) => Promoted(c)'
        /\ OnlyPromoted'
    BY <1>1, <2>1, <2>2
  <2>4. WorkflowTypes'
    BY <2>2, <2>3 DEF WorkflowTypes
  <2>5. MarkerSafe' /\ Projection'
    BY <2>2 DEF MarkerSafe, Projection
  <2>6. incumbent \in 1..Len(cands) /\ Promoted(incumbent) /\ cands[incumbent].val
    BY <2>2 DEF Handed, Promoted
  <2>7. Promoted(incumbent)' /\ cands'[incumbent] = cands[incumbent]
    BY <2>2, <2>3, <2>6 DEF Promoted
  <2>8. Handed'
    BY <2>2, <2>3, <2>6, <2>7 DEF Handed, Snapshot
  <2> QED
    BY <2>3, <2>4, <2>5, <2>8
<1> QED
  BY <1>2, <1>3, <1>4

\* What a step does that rewrites the directory of the candidate at hand.
LEMMA Rewritten ==
  ASSUME WorkflowInv, NEW dir \in CandidateDirs, cur # 0, cands' = [cands EXCEPT ![cur] = dir],
         dir.rev = cands[cur].rev, cands[cur].fate = "promoted" => dir.fate = "promoted",
         record'.shown \in {record.shown, Nothing}, record'.rev = record.rev, bundles' = bundles
  PROVE  /\ cands' \in Seq(CandidateDirs) /\ Len(cands') = Len(cands) /\ cur \in 1..Len(cands)
         /\ cands'[cur] = dir /\ \A c \in 1..Len(cands) \ {cur} : cands'[c] = cands[c]
         /\ \A c : Promoted(c) => Promoted(c)'
         /\ OnlyPromoted'
<1> USE DEF WorkflowInv
<1>1. cands \in Seq(CandidateDirs) /\ Len(cands) \in Nat /\ cur \in 1..Len(cands)
  BY DEF WorkflowTypes
<1>2. /\ cands' \in Seq(CandidateDirs) /\ Len(cands') = Len(cands)
      /\ \A c \in 1..Len(cands) : cands'[c] = IF c = cur THEN dir ELSE cands[c]
  BY <1>1, ExceptSeq
<1>3. \A c : Promoted(c) => Promoted(c)' /\ cands'[c].rev = cands[c].rev
  BY <1>1, <1>2 DEF Promoted
<1>4. record'.rev = 0 \/ \E c \in 1..Len(cands') : Promoted(c)' /\ cands'[c].rev = record'.rev
  BY <1>2, <1>3 DEF OnlyPromoted
<1>5. record'.shown = Nothing \/ Promoted(record.shown.cand)'
  BY <1>3 DEF OnlyPromoted, Promoted
<1>6. \A g \in Generations : bundles[g] # Nothing =>
         Promoted(bundles[g].cand)' /\ cands'[bundles[g].cand].rev = g[2]
  BY <1>3 DEF OnlyPromoted
<1>7. OnlyPromoted'
  BY <1>4, <1>5, <1>6 DEF OnlyPromoted, Promoted
<1> QED
  BY <1>1, <1>2, <1>3, <1>7

\* The steps that rewrite the directory of the candidate at hand.
LEMMA RewriteInv ==
  ASSUME WorkflowInv,
         CreateSimulationTsx \/ CompareSimulationOutputs \/ ValidateRepair \/ Decide
  PROVE  WorkflowInv'
<1> USE DEF WorkflowInv, Pcs, Projections, Repairing, Stage
<1>1. CASE CreateSimulationTsx
  <2> DEFINE dir == [cands[cur] EXCEPT !.tsx = 0]
  <2>1. /\ pc = "tsx" /\ pc' = "simulate" /\ cur # 0
        /\ record' = [record EXCEPT !.shown = Nothing]
        /\ UNCHANGED <<invocation, cur, incumbent, after, bundles, marker>>
    BY <1>1 DEF CreateSimulationTsx, Projection
  <2>2. cands[cur] \in CandidateDirs
    BY <2>1, Places DEF WorkflowTypes
  <2>3. cands' = [cands EXCEPT ![cur] = dir]
    BY <1>1, <2>1, <2>2 DEF CreateSimulationTsx, WorkflowTypes
  <2>4. dir \in CandidateDirs /\ dir.rev = cands[cur].rev /\ dir.fate = cands[cur].fate
    BY <2>2 DEF CandidateDirs
  <2>5. /\ record' \in [rev : Nat, shown : Snapshots, dev : Nat]
        /\ record'.shown = Nothing /\ record'.rev = record.rev
    BY <2>1 DEF WorkflowTypes, Snapshots, Nothing
  <2> HIDE DEF dir
  <2>6. cands' \in Seq(CandidateDirs) /\ Len(cands') = Len(cands) /\ OnlyPromoted'
    BY <2>1, <2>3, <2>4, <2>5, Rewritten
  <2>7. WorkflowTypes' /\ MarkerSafe' /\ Projection' /\ Handed'
    BY <2>1, <2>5, <2>6 DEF WorkflowTypes, MarkerSafe, Projection, Handed
  <2> QED
    BY <2>6, <2>7
<1>2. CASE CompareSimulationOutputs
  <2>1. /\ pc = "compare" /\ pc' = "project" /\ after' \in {"repair", "failed"} /\ cur # 0
        /\ UNCHANGED <<invocation, cur, incumbent, bundles, marker, record>>
    BY <1>2 DEF CompareSimulationOutputs, Projection, previewVars
  <2>2. cands[cur] \in CandidateDirs
    BY <2>1, Places DEF WorkflowTypes
  <2>3. PICK q \in 0..MaxQuality :
          cands' = [cands EXCEPT ![cur].q = q, ![cur].val = TRUE, ![cur].fate = "promoted"]
    BY <1>2 DEF CompareSimulationOutputs
  <2> DEFINE dir == [cands[cur] EXCEPT !.q = q, !.val = TRUE, !.fate = "promoted"]
  <2>4. cands' = [cands EXCEPT ![cur] = dir]
    BY <2>1, <2>2, <2>3 DEF WorkflowTypes
  <2>5. /\ dir \in CandidateDirs /\ dir.rev = cands[cur].rev /\ dir.fate = "promoted"
        /\ dir.val
    <3>1. q \in Nat
      BY WorkflowAssumption
    <3> QED
      BY <2>2, <3>1 DEF CandidateDirs, Fates
  <2> HIDE DEF dir
  <2>6. /\ cands' \in Seq(CandidateDirs) /\ Len(cands') = Len(cands) /\ OnlyPromoted'
        /\ cands'[cur] = dir /\ cur \in 1..Len(cands)
    BY <2>1, <2>4, <2>5, Rewritten
  <2>7. WorkflowTypes'
    BY <2>1, <2>6 DEF WorkflowTypes
  <2>8. marker[1] < invocation /\ record.shown = Nothing
    BY <2>1 DEF MarkerSafe, Projection
  <2>9. MarkerSafe'
    BY <2>1, <2>8, Places DEF MarkerSafe, WorkflowTypes
  <2>10. Projection' /\ Handed'
    BY <2>1, <2>5, <2>6, <2>8 DEF Projection, Handed, Promoted
  <2> QED
    BY <2>6, <2>7, <2>9, <2>10
<1>3. CASE ValidateRepair
  <2>1. /\ pc = "validate" /\ pc' = "decide" /\ cur # 0 /\ cands[cur].fate = "new"
        /\ UNCHANGED <<invocation, cur, incumbent, after, bundles, marker, record>>
    BY <1>3 DEF ValidateRepair, Handed, previewVars
  <2>2. cands[cur] \in CandidateDirs
    BY <2>1, Places DEF WorkflowTypes
  <2>3. PICK q \in 0..MaxQuality : cands' = [cands EXCEPT ![cur].q = q, ![cur].val = TRUE]
    BY <1>3 DEF ValidateRepair
  <2> DEFINE dir == [cands[cur] EXCEPT !.q = q, !.val = TRUE]
  <2>4. cands' = [cands EXCEPT ![cur] = dir]
    BY <2>1, <2>2, <2>3 DEF WorkflowTypes
  <2>5. dir \in CandidateDirs /\ dir.rev = cands[cur].rev /\ dir.fate = "new" /\ dir.val
    <3>1. q \in Nat
      BY WorkflowAssumption
    <3> QED
      BY <2>1, <2>2, <3>1 DEF CandidateDirs, Fates
  <2> HIDE DEF dir
  <2>6. /\ cands' \in Seq(CandidateDirs) /\ Len(cands') = Len(cands) /\ OnlyPromoted'
        /\ cands'[cur] = dir /\ \A c \in 1..Len(cands) \ {cur} : cands'[c] = cands[c]
        /\ \A c : Promoted(c) => Promoted(c)'
    BY <2>1, <2>4, <2>5, Rewritten
  <2>7. WorkflowTypes' /\ MarkerSafe' /\ Projection'
    BY <2>1, <2>6 DEF WorkflowTypes, MarkerSafe, Projection
  <2>8. incumbent \in 1..Len(cands) \ {cur} /\ Promoted(incumbent)
    BY <2>1 DEF Handed, Promoted
  <2>9. cands'[incumbent] = cands[incumbent] /\ Promoted(incumbent)'
    BY <2>1, <2>6, <2>8 DEF Promoted
  <2>10. Handed'
    BY <2>1, <2>5, <2>6, <2>9 DEF Handed, Snapshot
  <2> QED
    BY <2>6, <2>7, <2>10
<1>4. CASE Decide
  <2>1. /\ pc = "decide" /\ cur # 0 /\ cands[cur].fate = "new" /\ cands[cur].val
        /\ UNCHANGED <<invocation, cur, incumbent, bundles, marker, record>>
    BY <1>4 DEF Decide, Handed, previewVars
  <2>2. cands[cur] \in CandidateDirs /\ cur \in 1..Len(cands)
    BY <2>1, Places DEF WorkflowTypes
  <2>3. /\ incumbent \in 1..Len(cands) \ {cur} /\ Promoted(incumbent)
        /\ record.shown = Snapshot(incumbent)
    BY <2>1 DEF Handed, Promoted
  <2>4. CASE Improved
    <3> DEFINE dir == [cands[cur] EXCEPT !.fate = "promoted"]
    <3>1. cands' = [cands EXCEPT ![cur] = dir] /\ pc' = "project" /\ after' = "improved"
      BY <1>4, <2>2, <2>4 DEF Decide, WorkflowTypes
    <3>2. /\ dir \in CandidateDirs /\ dir.rev = cands[cur].rev /\ dir.fate = "promoted" /\ dir.val
          /\ dir.q = cands[cur].q
      BY <2>1, <2>2 DEF CandidateDirs, Fates
    <3> HIDE DEF dir
    <3>3. /\ cands' \in Seq(CandidateDirs) /\ Len(cands') = Len(cands) /\ OnlyPromoted'
          /\ cands'[cur] = dir
      BY <2>1, <3>1, <3>2, Rewritten
    <3>4. WorkflowTypes' /\ MarkerSafe' /\ Handed'
      BY <2>1, <3>1, <3>3 DEF WorkflowTypes, MarkerSafe, Handed
    <3>5. cands[incumbent] \in CandidateDirs /\ record.shown.q = cands[incumbent].q
      BY <2>3, Places DEF Snapshot
    <3>6. dir.q <= record.shown.q
      BY <2>2, <2>4, <3>2, <3>5 DEF Improved, CandidateDirs
    <3>7. Projection'
      BY <2>1, <2>2, <3>1, <3>2, <3>3, <3>6 DEF Projection, Promoted
    <3> QED
      BY <3>3, <3>4, <3>7
  <2>5. CASE ~Improved
    <3> DEFINE dir == [cands[cur] EXCEPT !.val = FALSE, !.fate = "rejected"]
    <3>1. cands' = [cands EXCEPT ![cur] = dir] /\ pc' = "loop" /\ after' = after
      BY <1>4, <2>2, <2>5 DEF Decide, WorkflowTypes
    <3>2. dir \in CandidateDirs /\ dir.rev = cands[cur].rev
      BY <2>2 DEF CandidateDirs, Fates
    <3> HIDE DEF dir
    <3>3. /\ cands' \in Seq(CandidateDirs) /\ Len(cands') = Len(cands) /\ OnlyPromoted'
          /\ \A c \in 1..Len(cands) \ {cur} : cands'[c] = cands[c]
          /\ \A c : Promoted(c) => Promoted(c)'
      BY <2>1, <3>1, <3>2, Rewritten
    <3>4. WorkflowTypes' /\ MarkerSafe' /\ Projection'
      BY <2>1, <3>1, <3>3 DEF WorkflowTypes, MarkerSafe, Projection
    <3>5. cands'[incumbent] = cands[incumbent] /\ Promoted(incumbent)'
      BY <2>1, <2>3, <3>3 DEF Promoted
    <3>6. Handed'
      BY <2>1, <3>1, <3>5 DEF Handed, Snapshot
    <3> QED
      BY <3>3, <3>4, <3>6
  <2> QED
    BY <2>4, <2>5
<1> QED
  BY <1>1, <1>2, <1>3, <1>4

\* The stages of the model pipeline, its projections and its restarts keep the invariant,
\* for any number of candidates, runs, stops and ticks of the repair's budget.
THEOREM WorkflowInductive == WorkflowSpec => []WorkflowInv
<1>1. WorkflowInit => WorkflowInv
  <2> SUFFICES ASSUME WorkflowInit PROVE WorkflowInv
    OBVIOUS
  <2>1. 1 \in 1..MaxInvocations
    BY WorkflowAssumption
  <2>2. WorkflowTypes
    BY <2>1 DEF WorkflowInit, WorkflowTypes, Pcs, Nothing, Snapshots, NoGeneration
  <2>3. OnlyPromoted
    BY DEF WorkflowInit, OnlyPromoted
  <2>4. MarkerSafe /\ Projection /\ Handed
    BY DEF WorkflowInit, MarkerSafe, Projection, Handed, NoGeneration, Projections, Repairing
  <2> QED
    BY <2>2, <2>3, <2>4 DEF WorkflowInv
<1>2. WorkflowInv /\ [WorkflowNext]_workflowVars => WorkflowInv'
  <2> SUFFICES ASSUME WorkflowInv, [WorkflowNext]_workflowVars PROVE WorkflowInv'
    OBVIOUS
  <2>1. CASE \/ Search \/ Tick \/ Extend \/ JobStep \/ Ended \/ UNCHANGED workflowVars
    <3>1. UNCHANGED <<pc, invocation, cands, cur, incumbent, after, bundles, marker, record>>
      BY <2>1 DEF Search, Tick, Extend, JobStep, Ended, workflowVars, stageVars, previewVars
    <3> QED
      BY <3>1 DEF WorkflowInv, WorkflowTypes, OnlyPromoted, MarkerSafe, Projection, Handed,
                  Promoted,
         Snapshot, Generation
  <2> QED
    BY <2>1, MoveInv, PreviewInv, CreateInv, RewriteInv DEF WorkflowNext, Work, Attempt
<1> QED
  BY <1>1, <1>2, PTL DEF WorkflowSpec

\* BestIsShown: whatever the order of projections, rejections, expired attempts, stops,
\* restarts and retries, the evaluation shown within a run never gets worse, a rejected
\* candidate is never shown, and what is handed to publication is what is shown.
THEOREM ShownNeverWorse == WorkflowSpec => BestIsShown
<1>1. ASSUME WorkflowInv, WorkflowInv', [WorkflowNext]_workflowVars,
             record.shown # Nothing, record'.shown # Nothing, invocation' = invocation
      PROVE  record'.shown.q <= record.shown.q /\ cands[record'.shown.cand].fate # "rejected"
  <2>1. CASE record'.shown = record.shown
    <3>1. record.shown.q \in Nat
      BY <1>1 DEF WorkflowInv, WorkflowTypes, Snapshots
    <3>2. Promoted(record.shown.cand)
      BY <1>1 DEF WorkflowInv, OnlyPromoted
    <3> QED
      BY <2>1, <3>1, <3>2 DEF Promoted
  <2>2. CASE record'.shown # record.shown
    <3>1. ~UNCHANGED record
      BY <2>2
    <3>2. \/ FindReferenceGraphs \/ CreateComparisonGraphs \/ ReuseCandidate \/ FinishInference
          \/ CreateSimulationTsx \/ WriteRecord \/ Restart
      <4>1. \/ FindReferenceGraphs \/ CreateComparisonGraphs \/ ReuseCandidate
            \/ FinishInference \/ CreateSimulationTsx \/ WriteRecord \/ Restart
            \/ UNCHANGED record
        BY <1>1 DEF WorkflowNext, Work, Attempt, WaitForModelEvidence, StartInference,
           RunSimulations, CompareSimulationOutputs, RemoveBundle, PlaceBundle, WriteMarker,
           ProjectionExpires, EnterRepair, StartAttempt, AttemptExpires, Decide, BudgetSpent,
           WaitForComponent, GenerateRepair, ValidateRepair, AttemptFails, Search, Tick, Extend,
           JobStep, Cancel, Stop, Retry, Ended, workflowVars, previewVars
      <4> QED
        BY <3>1, <4>1
    <3>3. record \in [rev : Nat, shown : Snapshots, dev : Nat]
      BY <1>1 DEF WorkflowInv, WorkflowTypes
    <3>4. ~(FindReferenceGraphs \/ CreateComparisonGraphs \/ CreateSimulationTsx)
      BY <1>1, <3>3 DEF FindReferenceGraphs, CreateComparisonGraphs, CreateSimulationTsx
    <3>5. ~(ReuseCandidate \/ FinishInference)
      BY <2>2, <3>3 DEF ReuseCandidate, FinishInference
    <3>6. CASE WriteRecord
      BY <1>1, <3>6 DEF WriteRecord, Projecting, Snapshot, WorkflowInv, Projection, Projections,
         Promoted
    <3>7. CASE Restart
      <4>1. /\ marker[1] = invocation /\ bundles[marker] # Nothing
            /\ record' = [record EXCEPT !.rev = marker[2], !.shown = bundles[marker]]
        BY <3>1, <3>7 DEF Restart, Projected
      <4>2. record'.shown = bundles[marker]
        BY <3>3, <4>1
      <4>3. marker \in Generations
        BY <1>1, <4>1 DEF WorkflowInv, WorkflowTypes, NoGeneration
      <4> QED
        BY <1>1, <4>1, <4>2, <4>3 DEF WorkflowInv, MarkerSafe, OnlyPromoted, Promoted
    <3> QED
      BY <3>2, <3>4, <3>5, <3>6, <3>7
  <2> QED
    BY <2>1, <2>2
<1>2. WorkflowInv => HandedOnIsShown
  BY DEF WorkflowInv, Handed, HandedOnIsShown, Repairing
<1>3. WorkflowInv /\ WorkflowInv' /\ [WorkflowNext]_workflowVars =>
        [ /\ HandedOnIsShown'
          /\ (record.shown # Nothing /\ record'.shown # Nothing /\ invocation' = invocation)
                 => /\ record'.shown.q <= record.shown.q
                    /\ cands[record'.shown.cand].fate # "rejected" ]_workflowVars
  <2>1. WorkflowInv' => HandedOnIsShown'
    BY DEF WorkflowInv, Handed, HandedOnIsShown, Repairing, Snapshot
  <2> QED
    BY <1>1, <2>1
<1> QED
  BY <1>3, WorkflowInductive, PTL DEF WorkflowSpec, BestIsShown

\* ReuseNeverRejected: a retried run starts from an earlier candidate only if that one was
\* promoted, whatever repairs of the same revision the directories hold.
THEOREM ReusePromoted == WorkflowSpec => ReuseNeverRejected
<1>1. ASSUME WorkflowInv, [WorkflowNext]_workflowVars, pc = "infer", pc' = "tsx"
      PROVE  cands[cur'].fate = "promoted"
  <2>1. ReuseCandidate
    BY <1>1 DEF WorkflowNext, Work, Attempt, Stage, FindReferenceGraphs, WaitForModelEvidence,
       CreateComparisonGraphs, StartInference, FinishInference, CreateSimulationTsx, RunSimulations,
       CompareSimulationOutputs, RemoveBundle, PlaceBundle, WriteMarker, WriteRecord, Projecting,
       ProjectionExpires, EnterRepair, StartAttempt, AttemptExpires, Decide, BudgetSpent,
       WaitForComponent, GenerateRepair, ValidateRepair, AttemptFails, Search, Tick, Extend,
       JobStep, Cancel, Stop, Restart, Retry, Ended, workflowVars, stageVars
  <2>2. DOMAIN cands = 1..Len(cands) /\ Len(cands) \in Nat
    BY <1>1 DEF WorkflowInv, WorkflowTypes
  <2>3. IsFiniteSet(Retained)
    <3>1. Retained \subseteq 1..Len(cands)
      BY <2>2 DEF Retained
    <3> QED
      <4>1. IsFiniteSet(1..Len(cands))
        BY <2>2, FS_Interval
      <4> QED
        BY <3>1, <4>1, FS_Subset
  <2>4. PICK only : Retained = {only}
    BY <2>1, <2>3, FS_Singleton DEF ReuseCandidate
  <2>5. cur' = only /\ record.rev # 0
    BY <2>1, <2>4 DEF ReuseCandidate, Retained
  <2>6. PICK c \in 1..Len(cands) : Promoted(c) /\ cands[c].rev = record.rev
    BY <1>1, <2>5 DEF WorkflowInv, OnlyPromoted
  <2>7. c \in Retained
    BY <2>2, <2>5, <2>6 DEF Retained
  <2> QED
    BY <2>4, <2>5, <2>6, <2>7 DEF Promoted
<1>2. WorkflowInv /\ [WorkflowNext]_workflowVars =>
        [ (pc = "infer" /\ pc' = "tsx") => cands[cur'].fate = "promoted" ]_workflowVars
  BY <1>1
<1> QED
  BY <1>2, WorkflowInductive, PTL DEF WorkflowSpec, ReuseNeverRejected

-----------------------------------------------------------------------------
\* A set of naturals has a least element (no operator of the induction theorems is needed
\* here: the sets 0..n are ordered by inclusion, which is well-founded).
LEMMA LeastNatural ==
  ASSUME NEW S \in SUBSET Nat, S # {}
  PROVE  Min(S) \in S /\ \A y \in S : Min(S) <= y
<1> DEFINE Down == {0..x : x \in S}
<1>1. Down \subseteq FiniteSubsetsOf(Nat) /\ Down # {}
  <2>1. \A x \in S : 0..x \in SUBSET Nat /\ IsFiniteSet(0..x)
    BY FS_Interval
  <2> QED
    BY <2>1 DEF FiniteSubsetsOf
<1>2. PICK U \in Down : \A V \in Down : <<V, U>> \notin StrictSubsetOrdering(Nat)
  <2> HIDE DEF Down
  <2> QED
    BY <1>1, FS_StrictSubsetOrderingWellFounded, WFMin
<1>3. PICK x \in S : U = 0..x
  OBVIOUS
<1>4. ASSUME NEW y \in S, y < x PROVE FALSE
  <2>1. 0..y \in Down
    OBVIOUS
  <2>2. 0..y \subseteq 0..x /\ x \in 0..x /\ x \notin 0..y
    BY <1>4
  <2>3. 0..y \in SUBSET Nat /\ 0..x \in SUBSET Nat
    OBVIOUS
  <2>4. <<0..y, 0..x>> \in StrictSubsetOrdering(Nat)
    BY <2>2, <2>3 DEF StrictSubsetOrdering
  <2> QED
    BY <1>2, <1>3, <2>1, <2>4
<1>5. \A y \in S : x <= y
  BY <1>4
<1> QED
  BY <1>5 DEF Min

-----------------------------------------------------------------------------
(***************************************************************************)
(* The pool of graph workers (GraphWorkerPool).                            *)
(***************************************************************************)
GraphStates == {"waiting", "running", "completed", "failed", "dropped"}

PoolTypes ==
    /\ DOMAIN slots \subseteq Nat \ {0}
    /\ slots \in [DOMAIN slots -> GraphStates]
    /\ crew \in [DOMAIN crew -> DOMAIN slots \cup {AtRest}]
    /\ poolAborted \in BOOLEAN /\ cancelled \in BOOLEAN

\* A worker and the graph it is at belong to each other alone.
Crewed ==
    /\ \A w \in DOMAIN crew : crew[w] # AtRest => slots[crew[w]] = "running"
    /\ \A g \in DOMAIN slots : slots[g] = "running" => \E w \in DOMAIN crew : crew[w] = g
    /\ \A v, w \in DOMAIN crew : crew[v] = crew[w] /\ crew[v] # AtRest => v = w

\* Graphs are taken in order, and no worker rests while a graph waits, unless the pool
\* was stopped.
InOrder ==
    /\ \A g, h \in DOMAIN slots : slots[g] = "waiting" /\ g < h => slots[h] = "waiting"
    /\ outcome.is = "running" => DOMAIN crew # {}
    /\ outcome.is = "running" /\ ~poolAborted /\ Waiting(slots) # {}
          => \A w \in DOMAIN crew : crew[w] # AtRest

\* Only the caller or a graph that failed by itself stops the pool, and nothing is lost in
\* a pool that was not stopped.
Blame ==
    /\ poolAborted => cancelled \/ primary # AtRest
    /\ primary # AtRest => primary \in DOMAIN slots /\ slots[primary] = "failed" /\ poolAborted
    /\ \A g \in DOMAIN slots : slots[g] \in {"failed", "dropped"} => poolAborted

\* What the answer says of the graphs.
Told ==
    /\ outcome.is \in Answered \cup {"running"}
    /\ outcome.is = "idle" => DOMAIN slots = {} /\ DOMAIN crew = {} /\ primary = AtRest
    /\ outcome.is \in Answered => \A g \in DOMAIN slots : slots[g] # "running"
    /\ outcome.is = "results" => \A g \in DOMAIN slots : slots[g] = "completed"
    /\ outcome.is = "failed" =>
          outcome.graph \in DOMAIN slots /\ slots[outcome.graph] = "failed" /\ ~cancelled

PoolInv == PoolTypes /\ Crewed /\ InOrder /\ Blame /\ Told

\* A pool is started for any number of graphs.
LEMMA StartInv ==
  ASSUME PoolInv, NEW n \in Nat, StartPool(n)
  PROVE  PoolInv'
<1> DEFINE size == Min({Concurrency, n})
<1>1. CASE n = 0
  <2>1. /\ outcome.is = "idle" /\ outcome'.is = "results"
        /\ UNCHANGED <<slots, crew, cancelled, poolAborted, primary>>
    BY <1>1 DEF StartPool
  <2> QED
    BY <2>1 DEF PoolInv, PoolTypes, Crewed, InOrder, Blame, Told, Answered
<1>2. CASE n # 0
  <2>1. /\ outcome.is = "idle" /\ outcome'.is = "running"
        /\ slots' = [g \in 1..n |-> IF g <= size THEN "running" ELSE "waiting"]
        /\ crew' = [w \in 1..size |-> w]
        /\ UNCHANGED <<cancelled, poolAborted, primary>>
    <3>1. /\ slots' = [g \in 1..n |-> IF g <= size THEN "running" ELSE "waiting"]
          /\ crew' = [w \in 1..size |-> w]
          /\ outcome' = [is |-> "running", graph |-> AtRest]
      BY <1>2, Zenon DEF StartPool
    <3>2. outcome.is = "idle" /\ UNCHANGED <<cancelled, poolAborted, primary>>
      BY DEF StartPool
    <3> QED
      BY <3>1, <3>2
  <2>2. size \in 1..n
    <3>1. {Concurrency, n} \in SUBSET Nat
      BY PoolConcurrency
    <3> QED
      BY <1>2, <3>1, LeastNatural, PoolConcurrency
  <2> HIDE DEF size
  <2>3. /\ DOMAIN slots' = 1..n /\ DOMAIN crew' = 1..size
        /\ \A g \in 1..n : slots'[g] = IF g <= size THEN "running" ELSE "waiting"
        /\ \A w \in 1..size : crew'[w] = w
    BY <2>1
  <2>4. primary = AtRest
    BY <2>1 DEF PoolInv, Told
  <2>5. PoolTypes'
    BY <2>1, <2>2, <2>3 DEF PoolInv, PoolTypes, GraphStates, AtRest
  <2>6. Crewed'
    BY <2>2, <2>3 DEF Crewed, AtRest
  <2>7. InOrder'
    BY <2>2, <2>3 DEF InOrder, AtRest
  <2>8. Blame'
    BY <2>1, <2>3, <2>4 DEF PoolInv, Blame
  <2>9. Told'
    BY <2>1 DEF Told, Answered
  <2> QED
    BY <2>5, <2>6, <2>7, <2>8, <2>9 DEF PoolInv
<1> QED
  BY <1>1, <1>2

\* A graph ends and its worker takes the next one, or rests.
LEMMA SettleInv ==
  ASSUME PoolInv, NEW w \in DOMAIN crew, NEW how \in {"completed", "failed", "dropped"},
         SettleGraph(w, how)
  PROVE  PoolInv'
<1> DEFINE g == crew[w]
           ended == [slots EXCEPT ![g] = how]
           more == ~(poolAborted \/ StopsPool(how)) /\ Waiting(ended) # {}
           next == Min(Waiting(ended))
<1>1. /\ outcome.is = "running" /\ g # AtRest /\ (how = "dropped" => poolAborted)
      /\ slots' = IF more THEN [ended EXCEPT ![next] = "running"] ELSE ended
      /\ crew' = [crew EXCEPT ![w] = IF more THEN next ELSE AtRest]
      /\ primary' = IF StopsPool(how) THEN g ELSE primary
      /\ poolAborted' = (poolAborted \/ StopsPool(how))
      /\ cancelled' = cancelled /\ outcome' = outcome
  BY DEF SettleGraph
<1>2. /\ g \in DOMAIN slots /\ slots[g] = "running"
      /\ \A v \in DOMAIN crew : crew[v] = g => v = w
  BY <1>1 DEF PoolInv, PoolTypes, Crewed
<1>3. DOMAIN ended = DOMAIN slots /\ Waiting(ended) = Waiting(slots)
      /\ \A h \in DOMAIN slots : ended[h] = IF h = g THEN how ELSE slots[h]
  BY <1>2 DEF PoolInv, PoolTypes, Waiting
<1>4. more => /\ next \in DOMAIN slots /\ slots[next] = "waiting" /\ next # g
              /\ \A h \in DOMAIN slots : slots[h] = "waiting" => next <= h
  <2>1. Waiting(ended) \in SUBSET Nat
    BY <1>3 DEF PoolInv, PoolTypes, Waiting
  <2>2. more => next \in Waiting(ended) /\ \A h \in Waiting(ended) : next <= h
    BY <2>1, LeastNatural
  <2> QED
    BY <1>2, <1>3, <2>2 DEF Waiting
<1>5. StopsPool(how) => how = "failed"
  BY <1>1 DEF StopsPool
<1>6. how # "completed" => poolAborted'
  BY <1>1 DEF StopsPool
<1>7. more => ~poolAborted /\ ~poolAborted' /\ how = "completed"
  BY <1>1, <1>6
<1>8. ~more /\ ~poolAborted' => Waiting(slots) = {}
  BY <1>1, <1>3
<1>9. /\ DOMAIN slots' = DOMAIN slots /\ DOMAIN crew' = DOMAIN crew
      /\ \A h \in DOMAIN slots : slots'[h] = IF more /\ h = next THEN "running"
                                             ELSE IF h = g THEN how ELSE slots[h]
      /\ \A v \in DOMAIN crew : crew'[v] = IF v # w THEN crew[v]
                                           ELSE IF more THEN next ELSE AtRest
  BY <1>1, <1>3, <1>4 DEF PoolInv, PoolTypes
<1>10. slots' \in [DOMAIN slots -> GraphStates]
  <2>1. ended \in [DOMAIN slots -> GraphStates]
    BY <1>2 DEF PoolInv, PoolTypes, GraphStates
  <2>2. [ended EXCEPT ![next] = "running"] \in [DOMAIN slots -> GraphStates]
    BY <2>1 DEF GraphStates
  <2> QED
    BY <1>1, <2>1, <2>2
<1>11. crew' \in [DOMAIN crew -> DOMAIN slots \cup {AtRest}]
  BY <1>1, <1>4 DEF PoolInv, PoolTypes
<1> HIDE DEF g, ended, more, next
<1>12. PoolTypes'
  BY <1>1, <1>9, <1>10, <1>11 DEF PoolInv, PoolTypes
<1>13. Crewed'
  <2>1. ASSUME NEW v \in DOMAIN crew, crew'[v] # AtRest PROVE slots'[crew'[v]] = "running"
    BY <1>2, <1>4, <1>9, <2>1 DEF PoolInv, PoolTypes, Crewed
  <2>2. ASSUME NEW h \in DOMAIN slots, slots'[h] = "running"
        PROVE  \E v \in DOMAIN crew : crew'[v] = h
    <3>1. CASE more /\ h = next
      BY <1>9, <3>1
    <3>2. CASE ~(more /\ h = next)
      <4>1. h # g /\ slots[h] = "running"
        BY <1>9, <2>2, <3>2
      <4>2. PICK v \in DOMAIN crew : crew[v] = h
        BY <4>1 DEF PoolInv, Crewed
      <4>3. v # w
        BY <4>1, <4>2 DEF g
      <4> QED
        BY <1>9, <4>2, <4>3
    <3> QED
      BY <3>1, <3>2
  <2>3. ASSUME NEW u \in DOMAIN crew, NEW v \in DOMAIN crew, crew'[u] = crew'[v], crew'[u] # AtRest
        PROVE  u = v
    <3>1. \A x \in DOMAIN crew : crew[x] # AtRest => slots[crew[x]] = "running"
      BY DEF PoolInv, Crewed
    <3>2. \A x \in DOMAIN crew : more => crew[x] # next
      BY <1>1, <1>4, <3>1 DEF PoolInv, PoolTypes, AtRest
    <3> QED
      BY <1>9, <2>3, <3>2 DEF PoolInv, Crewed
  <2> QED
    BY <1>9, <2>1, <2>2, <2>3 DEF Crewed
<1>14. InOrder'
  <2>1. ASSUME NEW h \in DOMAIN slots, NEW k \in DOMAIN slots, slots'[h] = "waiting", h < k
        PROVE  slots'[k] = "waiting"
    <3>1. slots[h] = "waiting" /\ slots[k] = "waiting"
      BY <1>9, <2>1 DEF PoolInv, InOrder
    <3>2. k # g
      BY <1>2, <3>1
    <3>3. ~(more /\ k = next)
      BY <1>4, <2>1, <3>1 DEF PoolInv, PoolTypes
    <3> QED
      BY <1>9, <3>1, <3>2, <3>3
  <2>2. DOMAIN crew' # {}
    BY <1>9
  <2>3. ASSUME ~poolAborted', Waiting(slots') # {} PROVE \A v \in DOMAIN crew' : crew'[v] # AtRest
    <3>1. Waiting(slots') \subseteq Waiting(slots)
      BY <1>9 DEF Waiting
    <3>2. more /\ ~poolAborted /\ Waiting(slots) # {}
      BY <1>7, <1>8, <2>3, <3>1
    <3>3. \A v \in DOMAIN crew : crew[v] # AtRest
      BY <1>1, <3>2 DEF PoolInv, InOrder
    <3>4. next # AtRest
      BY <1>4, <3>2 DEF PoolInv, PoolTypes, AtRest
    <3> QED
      BY <1>9, <3>2, <3>3, <3>4
  <2> QED
    BY <1>9, <2>1, <2>2, <2>3 DEF InOrder
<1>15. Blame'
  <2>1. poolAborted' => cancelled' \/ primary' # AtRest
    BY <1>1 DEF PoolInv, Blame
  <2>2. ASSUME primary' # AtRest
        PROVE  primary' \in DOMAIN slots' /\ slots'[primary'] = "failed" /\ poolAborted'
    <3>1. CASE StopsPool(how)
      BY <1>1, <1>2, <1>4, <1>5, <1>7, <1>9, <3>1
    <3>2. CASE ~StopsPool(how)
      <4>1. /\ primary' = primary /\ primary \in DOMAIN slots /\ slots[primary] = "failed"
            /\ poolAborted
        BY <1>1, <2>2, <3>2 DEF PoolInv, Blame
      <4>2. primary # g /\ ~more
        BY <1>2, <1>7, <4>1
      <4> QED
        BY <1>1, <1>9, <4>1, <4>2
    <3> QED
      BY <3>1, <3>2
  <2>3. ASSUME NEW h \in DOMAIN slots, slots'[h] \in {"failed", "dropped"} PROVE poolAborted'
    BY <1>1, <1>6, <1>9, <2>3 DEF PoolInv, Blame
  <2> QED
    BY <1>9, <2>1, <2>2, <2>3 DEF Blame
<1>16. Told'
  BY <1>1 DEF Told, Answered
<1> QED
  BY <1>12, <1>13, <1>14, <1>15, <1>16 DEF PoolInv

\* The pool answers.
LEMMA ReturnInv ==
  ASSUME PoolInv, ReturnPool
  PROVE  PoolInv'
<1>1. /\ outcome.is = "running" /\ \A w \in DOMAIN crew : crew[w] = AtRest
      /\ UNCHANGED <<slots, crew, cancelled, poolAborted, primary>>
  BY DEF ReturnPool
<1>2. \A h \in DOMAIN slots : slots[h] # "running"
  BY <1>1 DEF PoolInv, PoolTypes, Crewed, AtRest
<1>3. ~poolAborted => /\ primary = AtRest /\ \A h \in DOMAIN slots : slots[h] = "completed"
  <2> SUFFICES ASSUME ~poolAborted
               PROVE  primary = AtRest /\ \A h \in DOMAIN slots : slots[h] = "completed"
    OBVIOUS
  <2>1. Waiting(slots) = {}
    BY <1>1 DEF PoolInv, InOrder
  <2> QED
    BY <1>2, <2>1 DEF PoolInv, PoolTypes, GraphStates, Blame, Waiting
<1>4. \/ cancelled /\ outcome'.is = "cancelled"
      \/ ~cancelled /\ primary # AtRest /\ outcome'.is = "failed" /\ outcome'.graph = primary
      \/ ~cancelled /\ ~poolAborted /\ outcome'.is = "results"
  <2>1. ~cancelled /\ primary = AtRest =>
           ~poolAborted /\ {h \in DOMAIN slots : slots[h] \in {"failed", "dropped"}} = {}
    BY DEF PoolInv, Blame
  <2> QED
    BY <2>1 DEF ReturnPool
<1>5. Told'
  BY <1>1, <1>2, <1>3, <1>4 DEF PoolInv, Told, Blame, Answered
<1>6. PoolTypes' /\ Crewed' /\ Blame'
  BY <1>1 DEF PoolInv, PoolTypes, Crewed, Blame
<1>7. InOrder'
  BY <1>1, <1>4 DEF PoolInv, InOrder
<1> QED
  BY <1>5, <1>6, <1>7 DEF PoolInv

\* Starting, settling, cancelling and answering keep the pool's invariant, for any
\* concurrency and any number of graphs.
THEOREM PoolInductive == PoolSpec => []PoolInv
<1>1. PoolInit => PoolInv
  <2> SUFFICES ASSUME PoolInit PROVE PoolInv
    OBVIOUS
  <2>1. /\ DOMAIN slots = {} /\ DOMAIN crew = {} /\ outcome.is = "idle"
        /\ cancelled = FALSE /\ poolAborted = FALSE /\ primary = AtRest
    BY DEF PoolInit
  <2>2. PoolTypes
    BY <2>1 DEF PoolInit, PoolTypes
  <2>3. Crewed /\ InOrder /\ Blame /\ Told
    BY <2>1 DEF Crewed, InOrder, Blame, Told, Answered
  <2> QED
    BY <2>2, <2>3 DEF PoolInv
<1>2. PoolInv /\ [PoolNext \/ \E n \in Nat : StartPool(n)]_poolVars => PoolInv'
  <2> SUFFICES ASSUME PoolInv, [PoolNext \/ \E n \in Nat : StartPool(n)]_poolVars PROVE PoolInv'
    OBVIOUS
  <2>1. CASE CancelPool
    BY <2>1 DEF CancelPool, PoolInv, PoolTypes, Crewed, InOrder, Blame, Told, Answered
  <2>2. CASE UNCHANGED poolVars
    BY <2>2 DEF poolVars, PoolInv, PoolTypes, Crewed, InOrder, Blame, Told, Waiting
  <2> QED
    BY <2>1, <2>2, StartInv, SettleInv, ReturnInv DEF PoolNext
<1> QED
  BY <1>1, <1>2, PTL DEF PoolSpec

\* runReferenceGraphWorkerPool, for any concurrency and any number of graphs: each graph is
\* at one worker, the results are of all graphs, and the failure told is of the first graph
\* that failed by itself.
THEOREM PoolAnswers == PoolSpec => []PoolAnswersForAll
<1>1. PoolInv => PoolAnswersForAll
  <2> SUFFICES ASSUME PoolInv PROVE PoolAnswersForAll
    OBVIOUS
  <2>1. ASSUME NEW g \in DOMAIN slots, slots[g] = "running"
        PROVE  Cardinality({w \in DOMAIN crew : crew[w] = g}) = 1
    <3>1. PICK v \in DOMAIN crew : crew[v] = g
      BY <2>1 DEF PoolInv, Crewed
    <3>2. g # AtRest
      BY DEF PoolInv, PoolTypes, AtRest
    <3>3. {w \in DOMAIN crew : crew[w] = g} = {v}
      BY <3>1, <3>2 DEF PoolInv, Crewed
    <3> QED
      BY <3>3, FS_Singleton
  <2> QED
    BY <2>1 DEF PoolAnswersForAll, PoolInv, InOrder, Told, Blame
<1> QED
  BY <1>1, PoolInductive, PTL

-----------------------------------------------------------------------------
(***************************************************************************)
(* The rank of a candidate (QualityOrder).                                 *)
(***************************************************************************)
\* Gates are compared from the first to the last: two different lists are ordered one way
\* or the other, and not both.
LEMMA GatesAreOrdered ==
  ASSUME NEW a \in [1..6 -> Nat], NEW b \in [1..6 -> Nat], NEW c \in [1..6 -> Nat]
  PROVE  /\ ~LexBelow(a, a)
         /\ LexBelow(a, b) /\ LexBelow(b, c) => LexBelow(a, c)
         /\ a = b \/ LexBelow(a, b) \/ LexBelow(b, a)
<1>1. ~LexBelow(a, a)
  BY DEF LexBelow
<1>2. ASSUME LexBelow(a, b), LexBelow(b, c) PROVE LexBelow(a, c)
  <2>1. PICK i \in 1..6 : a[i] < b[i] /\ \A j \in 1..(i - 1) : a[j] = b[j]
    BY <1>2 DEF LexBelow
  <2>2. PICK k \in 1..6 : b[k] < c[k] /\ \A j \in 1..(k - 1) : b[j] = c[j]
    BY <1>2 DEF LexBelow
  <2>3. CASE i <= k
    <3>1. a[i] < c[i] /\ \A j \in 1..(i - 1) : a[j] = c[j]
      BY <2>1, <2>2, <2>3
    <3> QED
      BY <3>1 DEF LexBelow
  <2>4. CASE k < i
    <3>1. a[k] < c[k] /\ \A j \in 1..(k - 1) : a[j] = c[j]
      BY <2>1, <2>2, <2>4
    <3> QED
      BY <3>1 DEF LexBelow
  <2> QED
    BY <2>3, <2>4
<1>3. ASSUME a # b PROVE LexBelow(a, b) \/ LexBelow(b, a)
  <2> DEFINE Differ == {i \in 1..6 : a[i] # b[i]}
             first == Min(Differ)
  <2>1. Differ \in SUBSET Nat /\ Differ # {}
    BY <1>3
  <2>2. first \in Differ /\ \A i \in Differ : first <= i
    BY <2>1, LeastNatural
  <2> HIDE DEF first
  <2>3. first \in 1..6 /\ a[first] # b[first] /\ \A j \in 1..(first - 1) : a[j] = b[j]
    BY <2>2
  <2>4. a[first] < b[first] \/ b[first] < a[first]
    BY <2>3
  <2> QED
    BY <2>3, <2>4 DEF LexBelow
<1> QED
  BY <1>1, <1>2, <1>3

\* Fractions over positive denominators are compared by cross multiplication.
LEMMA CrossMultiply ==
  ASSUME NEW s \in Nat, NEW t \in Nat, NEW u \in Nat,
         NEW k \in Nat \ {0}, NEW m \in Nat \ {0}, NEW n \in Nat \ {0}
  PROVE  /\ s * m < t * k /\ t * n <= u * m => s * n < u * k
         /\ s * m <= t * k /\ t * n <= u * m => s * n <= u * k
         /\ s * m <= t * k /\ t * n < u * m => s * n < u * k
<1>1. /\ (s * m) * n = (s * n) * m /\ (t * k) * n = (t * n) * k
      /\ (u * m) * k = (u * k) * m
  OBVIOUS
<1>2. \A x, y \in Nat, z \in Nat \ {0} : /\ x < y => x * z < y * z
                                         /\ x <= y => x * z <= y * z
                                         /\ x * z < y * z => x < y
                                         /\ x * z <= y * z => x <= y
  OBVIOUS
<1>3. /\ s * m \in Nat /\ t * k \in Nat /\ t * n \in Nat /\ u * m \in Nat /\ s * n \in Nat
      /\ u * k \in Nat
  OBVIOUS
<1>4. ASSUME s * m < t * k, t * n <= u * m PROVE s * n < u * k
  <2>1. (s * m) * n < (t * k) * n /\ (t * n) * k <= (u * m) * k
    BY <1>2, <1>3, <1>4
  <2>2. (s * n) * m < (u * k) * m
    BY <1>1, <2>1
  <2> QED
    BY <1>2, <1>3, <2>2
<1>5. ASSUME s * m <= t * k, t * n <= u * m PROVE s * n <= u * k
  <2>1. (s * m) * n <= (t * k) * n /\ (t * n) * k <= (u * m) * k
    BY <1>2, <1>3, <1>5
  <2>2. (s * n) * m <= (u * k) * m
    BY <1>1, <2>1
  <2> QED
    BY <1>2, <1>3, <2>2
<1>6. ASSUME s * m <= t * k, t * n < u * m PROVE s * n < u * k
  <2>1. (s * m) * n <= (t * k) * n /\ (t * n) * k < (u * m) * k
    BY <1>2, <1>3, <1>6
  <2>2. (s * n) * m < (u * k) * m
    BY <1>1, <2>1
  <2> QED
    BY <1>2, <1>3, <2>2
<1> QED
  BY <1>4, <1>5, <1>6

\* The means are ordered, with Infinity for nothing scored.
LEMMA MeansAreOrdered ==
  ASSUME NEW a \in Qualities, NEW b \in Qualities, NEW c \in Qualities
  PROVE  /\ ~MeanBelow(a, a)
         /\ MeanBelow(a, b) /\ MeanBelow(b, c) => MeanBelow(a, c)
         /\ MeanBelow(a, c) => MeanBelow(a, b) \/ MeanBelow(b, c)
<1>1. /\ a.total \in Nat /\ b.total \in Nat /\ c.total \in Nat
      /\ a.count \in Nat /\ b.count \in Nat /\ c.count \in Nat
  BY DEF Qualities
<1>2. \A x, y \in Nat : x * y \in Nat
  OBVIOUS
<1>3. ~MeanBelow(a, a)
  BY <1>1, <1>2 DEF MeanBelow
<1>4. ASSUME MeanBelow(a, b), MeanBelow(b, c) PROVE MeanBelow(a, c)
  <2>1. a.count # 0 /\ b.count # 0
    BY <1>4 DEF MeanBelow
  <2>2. CASE c.count = 0
    BY <2>1, <2>2 DEF MeanBelow
  <2>3. CASE c.count # 0
    <3>1. a.total * b.count < b.total * a.count /\ b.total * c.count < c.total * b.count
      BY <1>4, <2>1, <2>3 DEF MeanBelow
    <3>2. b.total * c.count <= c.total * b.count
      BY <1>1, <1>2, <3>1
    <3>3. a.total * c.count < c.total * a.count
      BY <1>1, <2>1, <2>3, <3>1, <3>2, CrossMultiply
    <3> QED
      BY <2>1, <3>3 DEF MeanBelow
  <2> QED
    BY <2>2, <2>3
<1>5. ASSUME MeanBelow(a, c), ~MeanBelow(a, b), ~MeanBelow(b, c) PROVE FALSE
  <2>1. a.count # 0 /\ b.count # 0 /\ c.count # 0
    BY <1>5 DEF MeanBelow
  <2>2. /\ a.total * c.count < c.total * a.count
        /\ ~(a.total * b.count < b.total * a.count) /\ ~(b.total * c.count < c.total * b.count)
    BY <1>5, <2>1 DEF MeanBelow
  <2>3. b.total * a.count <= a.total * b.count /\ c.total * b.count <= b.total * c.count
    BY <1>1, <1>2, <2>2
  <2>4. c.total * a.count <= a.total * c.count
    BY <1>1, <2>1, <2>3, CrossMultiply
  <2> QED
    BY <1>1, <1>2, <2>2, <2>4
<1> QED
  BY <1>3, <1>4, <1>5

\* compareCandidateQuality ranks candidates: "better" has no cycle, and two candidates
\* neither of which is better are interchangeable.  The ranks 0..MaxQuality that stand for
\* a candidate's quality in ModelWorkflow rest on this.
THEOREM QualityIsRank ==
  \A a, b, c \in Qualities :
    /\ ~Better(a, a)
    /\ Better(a, b) /\ Better(b, c) => Better(a, c)
    /\ Better(a, c) => Better(a, b) \/ Better(b, c)
<1> SUFFICES ASSUME NEW a \in Qualities, NEW b \in Qualities, NEW c \in Qualities
             PROVE  /\ ~Better(a, a)
                    /\ Better(a, b) /\ Better(b, c) => Better(a, c)
                    /\ Better(a, c) => Better(a, b) \/ Better(b, c)
  OBVIOUS
<1>1. /\ a.passed \in BOOLEAN /\ b.passed \in BOOLEAN /\ c.passed \in BOOLEAN
      /\ a.gates \in [1..6 -> Nat] /\ b.gates \in [1..6 -> Nat] /\ c.gates \in [1..6 -> Nat]
  BY DEF Qualities
<1>2. /\ ~LexBelow(a.gates, a.gates)
      /\ LexBelow(a.gates, b.gates) /\ LexBelow(b.gates, c.gates) => LexBelow(a.gates, c.gates)
  BY <1>1, GatesAreOrdered
<1>3. /\ ~MeanBelow(a, a)
      /\ MeanBelow(a, b) /\ MeanBelow(b, c) => MeanBelow(a, c)
      /\ MeanBelow(a, c) => MeanBelow(a, b) \/ MeanBelow(b, c)
  BY MeansAreOrdered
<1>4. ~Better(a, a)
  BY <1>2, <1>3 DEF Better
<1>5. ASSUME Better(a, b), Better(b, c) PROVE Better(a, c)
  BY <1>1, <1>2, <1>3, <1>5 DEF Better
<1>6. LexBelow(a.gates, c.gates) => LexBelow(a.gates, b.gates) \/ LexBelow(b.gates, c.gates)
  <2>1. /\ a.gates = b.gates \/ LexBelow(a.gates, b.gates) \/ LexBelow(b.gates, a.gates)
        /\ LexBelow(b.gates, a.gates) /\ LexBelow(a.gates, c.gates) => LexBelow(b.gates, c.gates)
    BY <1>1, GatesAreOrdered
  <2> QED
    BY <2>1
<1>7. a.gates = c.gates =>
        a.gates = b.gates \/ LexBelow(a.gates, b.gates) \/ LexBelow(b.gates, c.gates)
  BY <1>1, GatesAreOrdered
<1>8. ASSUME Better(a, c) PROVE Better(a, b) \/ Better(b, c)
  BY <1>1, <1>3, <1>6, <1>7, <1>8 DEF Better
<1> QED
  BY <1>4, <1>5, <1>8

===============================================================================
