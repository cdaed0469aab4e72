-------------------------- MODULE JobLifecycleProofs --------------------------
(***************************************************************************)
(* Proofs about JobLifecycle: for any number of DELETE requests, failed    *)
(* writes and restarts, a job has one execution or one deletion at a time, *)
(* a deletion is final, the record agrees with its checkpoint, and a       *)
(* cancellation that arrives in time is what the job ends with.            *)
(***************************************************************************)
EXTENDS JobLifecycle, FiniteSetTheorems, TLAPS

\* Before createJob nothing of the job exists, and until the runner is launched the
\* job is incomplete and nothing executes; a cancellation is kept in its controller.
Unlaunched ==
    /\ creator = "idle" => /\ ~present /\ status = "queued" /\ saved = "none" /\ ~deleted
                           /\ \A d \in Deleters : deleter[d] = "idle"
    /\ creator \in {"idle", "logging", "model"} =>
          /\ ~complete /\ ~torn /\ runner = "none" /\ verdict = "none"
          /\ active = {} /\ local = "idle"
          /\ \A p \in Pipelines : pipe[p] = "idle"
          /\ asked => Signal

\* The claims tell what executes, and only an incomplete job of the store is claimed.
Claims ==
    ~torn =>
        /\ runner \in Running => active = Pipelines /\ local # "running"
        /\ local = "running" => \E p \in Pipelines : active = {p}
        /\ active # {} => present /\ ~complete
        /\ \A p \in Pipelines : pipe[p] = "running" => runner \in {"running", "catch"}

\* runJob lets go of a pipeline only as it ends, and settles its outcome once.
Runner ==
    /\ runner \in Running => ~torn
    /\ runner = "unexpected" => torn /\ verdict \in {"complete", "failed"}
    /\ runner \in {"settle", "catch"} => verdict # "none"

\* A deletion owns the lease of a job that is in the store; from the moment it takes
\* the job for complete, nothing executes and nothing starts.
Deletion ==
    \A d \in Deleters :
        /\ deleter[d] \in Deleting => lease = d /\ present
        /\ ~torn => /\ deleter[d] \in {"modelOnly", "rename", "drop"} => active = {} /\ complete
                    /\ deleter[d] # "restore"
                    /\ deleter[d] = "drop" => saved = "none"

\* A cancellation that runJob could see is in its signal, and in the outcome once that
\* is settled; one that a local run could see is not older than the run.
Cancellation ==
    /\ runner \in Running /\ asked => Signal /\ verdict \in {"none", "cancelled"}
    /\ local = "running" =>
          /\ aborted => asked
          /\ status # "cancelled" /\ saved # "cancelled"
          /\ \A d \in Deleters : deleter[d] \in {"drop", "restore"} => tomb # "cancelled"

IInv == /\ TypeOK /\ Unlaunched /\ Claims /\ Runner /\ Deletion /\ Cancellation
        /\ DeletionIsFinal /\ RecordMatchesCheckpoint

-----------------------------------------------------------------------------
(* One lemma per kind of step *)

\* The creation of the job and the launch of its runner preserve the invariant.
LEMMA LaunchIInv ==
  ASSUME IInv, \/ CreateJob \/ LaunchModel \/ LaunchRunner
  PROVE  IInv'
<1> USE JobAssumption DEF IInv, Running, Deleting
<1>1. CASE CreateJob
  <2>1. TypeOK'
    <3>1. creator' \in {"idle", "logging", "model", "done"} /\ lease' \in Deleters \cup {NoLease}
          /\ active' \in SUBSET Pipelines /\ local' \in {"idle", "preparing", "running"}
          /\ runner' \in Running \cup {"none", "unexpected", "done"}
      BY <1>1 DEF CreateJob, TypeOK
    <3>2. status' \in Status /\ saved' \in OnDisk /\ tomb' \in OnDisk
          /\ verdict' \in Final \cup {"none"}
      BY <1>1 DEF CreateJob, TypeOK, Status, OnDisk, Final, Runner, Unlaunched
    <3>3. present' \in BOOLEAN /\ complete' \in BOOLEAN /\ ready' \in BOOLEAN
          /\ aborted' \in BOOLEAN /\ stale' \in BOOLEAN /\ asked' \in BOOLEAN
          /\ deleted' \in BOOLEAN /\ torn' \in BOOLEAN
      BY <1>1 DEF CreateJob, TypeOK, InTime
    <3>4. faults' \in 0 .. MaxFaults /\ restarts' \in 0 .. MaxRestarts
      BY <1>1 DEF CreateJob, TypeOK
    <3>5. pipe' \in [Pipelines -> Results \cup {"idle", "running"}]
          /\ deleter' \in [Deleters -> Deleting \cup {"idle", "purge"}]
      BY <1>1 DEF CreateJob, TypeOK, Results
    <3> QED
      BY <3>1, <3>2, <3>3, <3>4, <3>5 DEF TypeOK
  <2>2. Unlaunched'
    BY <1>1 DEF CreateJob, Unlaunched, Signal, TypeOK
  <2>3. Claims'
    BY <1>1 DEF CreateJob, Claims, TypeOK
  <2>4. Runner'
    BY <1>1 DEF CreateJob, Runner, TypeOK, Final
  <2>5. Deletion'
    BY <1>1 DEF CreateJob, Deletion, TypeOK, Unlaunched
  <2>6. Cancellation'
    BY <1>1 DEF CreateJob, Cancellation, Signal, TypeOK
  <2>7. DeletionIsFinal' /\ RecordMatchesCheckpoint'
    BY <1>1 DEF CreateJob, DeletionIsFinal, RecordMatchesCheckpoint, TypeOK, Unlaunched
  <2> QED
    BY <2>1, <2>2, <2>3, <2>4, <2>5, <2>6, <2>7
<1>2. CASE LaunchModel
  <2>1. TypeOK'
    BY <1>2 DEF LaunchModel, TypeOK, Status, OnDisk, Final, Results
  <2>2. Unlaunched'
    BY <1>2 DEF LaunchModel, Unlaunched, Signal, TypeOK
  <2>3. Claims'
    BY <1>2 DEF LaunchModel, Claims, TypeOK
  <2>4. Runner'
    BY <1>2 DEF LaunchModel, Runner, TypeOK, Final
  <2>5. Deletion'
    BY <1>2 DEF LaunchModel, Deletion, TypeOK
  <2>6. Cancellation'
    BY <1>2 DEF LaunchModel, Cancellation, Signal, TypeOK
  <2>7. DeletionIsFinal' /\ RecordMatchesCheckpoint'
    BY <1>2 DEF LaunchModel, DeletionIsFinal, RecordMatchesCheckpoint, TypeOK
  <2> QED
    BY <2>1, <2>2, <2>3, <2>4, <2>5, <2>6, <2>7
<1>3. CASE LaunchRunner
  <2>1. TypeOK'
    <3>1. creator' \in {"idle", "logging", "model", "done"} /\ lease' \in Deleters \cup {NoLease}
          /\ active' \in SUBSET Pipelines /\ local' \in {"idle", "preparing", "running"}
          /\ runner' \in Running \cup {"none", "unexpected", "done"}
      BY <1>3 DEF LaunchRunner, Claim, Claimable, TypeOK
    <3>2. status' \in Status /\ saved' \in OnDisk /\ tomb' \in OnDisk
          /\ verdict' \in Final \cup {"none"}
      BY <1>3 DEF LaunchRunner, Claim, Claimable, TypeOK, Status, OnDisk, Final, Runner,
                  Unlaunched
    <3>3. present' \in BOOLEAN /\ complete' \in BOOLEAN /\ ready' \in BOOLEAN
          /\ aborted' \in BOOLEAN /\ stale' \in BOOLEAN /\ asked' \in BOOLEAN
          /\ deleted' \in BOOLEAN /\ torn' \in BOOLEAN
      BY <1>3 DEF LaunchRunner, Claim, Claimable, TypeOK, InTime
    <3>4. faults' \in 0 .. MaxFaults /\ restarts' \in 0 .. MaxRestarts
      BY <1>3 DEF LaunchRunner, Claim, Claimable, TypeOK
    <3>5. pipe' \in [Pipelines -> Results \cup {"idle", "running"}]
          /\ deleter' \in [Deleters -> Deleting \cup {"idle", "purge"}]
      BY <1>3 DEF LaunchRunner, Claim, Claimable, TypeOK, Results
    <3> QED
      BY <3>1, <3>2, <3>3, <3>4, <3>5 DEF TypeOK
  <2>2. Unlaunched'
    BY <1>3 DEF LaunchRunner, Claim, Claimable, Unlaunched, Signal, TypeOK
  <2>3. Claims'
    BY <1>3 DEF LaunchRunner, Claim, Claimable, Claims, TypeOK, Unlaunched
  <2>4. Runner'
    BY <1>3 DEF LaunchRunner, Claim, Claimable, Runner, TypeOK, Final, Unlaunched
  <2>5. Deletion'
    BY <1>3 DEF LaunchRunner, Claim, Claimable, Deletion, TypeOK
  <2>6. Cancellation'
    BY <1>3 DEF LaunchRunner, Claim, Claimable, Cancellation, Signal, TypeOK, Unlaunched
  <2>7. DeletionIsFinal' /\ RecordMatchesCheckpoint'
    BY <1>3 DEF LaunchRunner, Claim, Claimable, DeletionIsFinal, RecordMatchesCheckpoint, TypeOK
  <2> QED
    BY <2>1, <2>2, <2>3, <2>4, <2>5, <2>6, <2>7
<1> QED
  BY <1>1, <1>2, <1>3

\* So do the steps of runJob and of its pipelines.
LEMMA RunnerIInv ==
  ASSUME IInv, NEW p \in Pipelines,
         \/ StartPipelines \/ JoinPipelines \/ Settle \/ Catch \/ RecordUnexpected
         \/ PipelineEnds(p) \/ StageUpdate(p)
  PROVE  IInv'
<1> USE JobAssumption DEF IInv, Running, Deleting
<1>1. CASE StartPipelines
  <2>1. TypeOK'
    BY <1>1 DEF StartPipelines, Caught, TypeOK, Status, OnDisk, Final, Results
  <2>2. Unlaunched'
    BY <1>1 DEF StartPipelines, Caught, Unlaunched, Signal, TypeOK
  <2>3. Claims'
    BY <1>1 DEF StartPipelines, Caught, Claims, TypeOK
  <2>4. Runner'
    BY <1>1 DEF StartPipelines, Caught, Runner, TypeOK, Final
  <2>5. Deletion'
    BY <1>1 DEF StartPipelines, Caught, Deletion, TypeOK
  <2>6. Cancellation'
    BY <1>1 DEF StartPipelines, Caught, Cancellation, Signal, TypeOK
  <2>7. DeletionIsFinal' /\ RecordMatchesCheckpoint'
    BY <1>1 DEF StartPipelines, Caught, DeletionIsFinal, RecordMatchesCheckpoint, TypeOK
  <2> QED
    BY <2>1, <2>2, <2>3, <2>4, <2>5, <2>6, <2>7
<1>2. CASE JoinPipelines
  <2>1. TypeOK'
    <3>1. creator' \in {"idle", "logging", "model", "done"} /\ lease' \in Deleters \cup {NoLease}
          /\ active' \in SUBSET Pipelines /\ local' \in {"idle", "preparing", "running"}
          /\ runner' \in Running \cup {"none", "unexpected", "done"}
      BY <1>2 DEF JoinPipelines, Joined, Caught, Publish, EnterCatch, Update, UpdateThrows,
                  TypeOK
    <3>2. status' \in Status /\ saved' \in OnDisk /\ tomb' \in OnDisk
          /\ verdict' \in Final \cup {"none"}
      BY <1>2 DEF JoinPipelines, Joined, Caught, Publish, EnterCatch, Update, UpdateThrows,
                  TypeOK, Status, OnDisk, Final, Runner, Unlaunched
    <3>3. present' \in BOOLEAN /\ complete' \in BOOLEAN /\ ready' \in BOOLEAN
          /\ aborted' \in BOOLEAN /\ stale' \in BOOLEAN /\ asked' \in BOOLEAN
          /\ deleted' \in BOOLEAN /\ torn' \in BOOLEAN
      BY <1>2 DEF JoinPipelines, Joined, Caught, Publish, EnterCatch, Update, UpdateThrows,
                  TypeOK, InTime
    <3>4. faults' \in 0 .. MaxFaults /\ restarts' \in 0 .. MaxRestarts
      BY <1>2 DEF JoinPipelines, Joined, Caught, Publish, EnterCatch, Update, UpdateThrows,
                  TypeOK
    <3>5. pipe' \in [Pipelines -> Results \cup {"idle", "running"}]
          /\ deleter' \in [Deleters -> Deleting \cup {"idle", "purge"}]
      BY <1>2 DEF JoinPipelines, Joined, Caught, Publish, EnterCatch, Update, UpdateThrows,
                  TypeOK, Results
    <3> QED
      BY <3>1, <3>2, <3>3, <3>4, <3>5 DEF TypeOK
  <2>2. Unlaunched'
    BY <1>2 DEF JoinPipelines, Joined, Caught, Publish, EnterCatch, Update, UpdateThrows,
                Unlaunched, Signal, TypeOK
  <2>3. Claims'
    <3>1. CASE \A q \in Pipelines : pipe[q] # "running"
      <4>1. runner' \in {"settle", "catch"} => active' = active /\ complete' = complete
        BY <1>2 DEF JoinPipelines, Publish, EnterCatch, Update, UpdateThrows
      <4>2. runner' \in {"settle", "catch", "done"} /\ (runner' = "done" => active' = {})
        BY <1>2 DEF JoinPipelines, Publish, EnterCatch
      <4>3. UNCHANGED <<present, local, pipe, torn>> /\ runner = "running"
        BY <1>2 DEF JoinPipelines
      <4> QED
        BY <3>1, <4>1, <4>2, <4>3 DEF Claims, Runner
    <3>2. CASE \E q \in Pipelines : pipe[q] = "running"
      <4>1. runner' = "catch" /\ runner = "running"
            /\ UNCHANGED <<active, complete, present, local, pipe, torn>>
        BY <1>2, <3>2 DEF JoinPipelines, Results
      <4> QED
        BY <4>1 DEF Claims
    <3> QED
      BY <3>1, <3>2
  <2>4. Runner'
    BY <1>2 DEF JoinPipelines, Joined, Caught, Publish, EnterCatch, Update, UpdateThrows,
                Runner, TypeOK, Final
  <2>5. Deletion'
    BY <1>2 DEF JoinPipelines, Joined, Caught, Publish, EnterCatch, Update, UpdateThrows,
                Deletion, TypeOK, Claims, Runner
  <2>6. Cancellation'
    BY <1>2 DEF JoinPipelines, Joined, Caught, Publish, EnterCatch, Update, UpdateThrows,
                Cancellation, Signal, TypeOK
  <2>7. DeletionIsFinal' /\ RecordMatchesCheckpoint'
    BY <1>2 DEF JoinPipelines, Joined, Caught, Publish, EnterCatch, Update, UpdateThrows,
                DeletionIsFinal, RecordMatchesCheckpoint, TypeOK
  <2> QED
    BY <2>1, <2>2, <2>3, <2>4, <2>5, <2>6, <2>7
<1>3. CASE Settle
  <2>1. TypeOK'
    <3>1. creator' \in {"idle", "logging", "model", "done"} /\ lease' \in Deleters \cup {NoLease}
          /\ active' \in SUBSET Pipelines /\ local' \in {"idle", "preparing", "running"}
          /\ runner' \in Running \cup {"none", "unexpected", "done"}
      BY <1>3 DEF Settle, Caught, Publish, EnterCatch, Update, UpdateThrows, TypeOK
    <3>2. status' \in Status /\ saved' \in OnDisk /\ tomb' \in OnDisk
          /\ verdict' \in Final \cup {"none"}
      BY <1>3 DEF Settle, Caught, Publish, EnterCatch, Update, UpdateThrows, TypeOK, Status,
                  OnDisk, Final, Runner, Unlaunched
    <3>3. present' \in BOOLEAN /\ complete' \in BOOLEAN /\ ready' \in BOOLEAN
          /\ aborted' \in BOOLEAN /\ stale' \in BOOLEAN /\ asked' \in BOOLEAN
          /\ deleted' \in BOOLEAN /\ torn' \in BOOLEAN
      BY <1>3 DEF Settle, Caught, Publish, EnterCatch, Update, UpdateThrows, TypeOK, InTime
    <3>4. faults' \in 0 .. MaxFaults /\ restarts' \in 0 .. MaxRestarts
      BY <1>3 DEF Settle, Caught, Publish, EnterCatch, Update, UpdateThrows, TypeOK
    <3>5. pipe' \in [Pipelines -> Results \cup {"idle", "running"}]
          /\ deleter' \in [Deleters -> Deleting \cup {"idle", "purge"}]
      BY <1>3 DEF Settle, Caught, Publish, EnterCatch, Update, UpdateThrows, TypeOK, Results
    <3> QED
      BY <3>1, <3>2, <3>3, <3>4, <3>5 DEF TypeOK
  <2>2. Unlaunched'
    BY <1>3 DEF Settle, Caught, Publish, EnterCatch, Update, UpdateThrows, Unlaunched, Signal,
                TypeOK
  <2>3. Claims'
    BY <1>3 DEF Settle, Caught, Publish, EnterCatch, Update, UpdateThrows, Claims, TypeOK
  <2>4. Runner'
    BY <1>3 DEF Settle, Caught, Publish, EnterCatch, Update, UpdateThrows, Runner, TypeOK, Final
  <2>5. Deletion'
    BY <1>3 DEF Settle, Caught, Publish, EnterCatch, Update, UpdateThrows, Deletion, TypeOK,
                Claims, Runner
  <2>6. Cancellation'
    BY <1>3 DEF Settle, Caught, Publish, EnterCatch, Update, UpdateThrows, Cancellation, Signal,
                TypeOK, Claims, Runner
  <2>7. DeletionIsFinal' /\ RecordMatchesCheckpoint'
    BY <1>3 DEF Settle, Caught, Publish, EnterCatch, Update, UpdateThrows, DeletionIsFinal,
                RecordMatchesCheckpoint, TypeOK
  <2> QED
    BY <2>1, <2>2, <2>3, <2>4, <2>5, <2>6, <2>7
<1>4. CASE Catch
  <2>1. TypeOK'
    <3>1. creator' \in {"idle", "logging", "model", "done"} /\ lease' \in Deleters \cup {NoLease}
          /\ active' \in SUBSET Pipelines /\ local' \in {"idle", "preparing", "running"}
          /\ runner' \in Running \cup {"none", "unexpected", "done"}
      BY <1>4 DEF Catch, Publish, Update, UpdateThrows, TypeOK
    <3>2. status' \in Status /\ saved' \in OnDisk /\ tomb' \in OnDisk
          /\ verdict' \in Final \cup {"none"}
      BY <1>4 DEF Catch, Publish, Update, UpdateThrows, TypeOK, Status, OnDisk, Final, Runner,
                  Unlaunched
    <3>3. present' \in BOOLEAN /\ complete' \in BOOLEAN /\ ready' \in BOOLEAN
          /\ aborted' \in BOOLEAN /\ stale' \in BOOLEAN /\ asked' \in BOOLEAN
          /\ deleted' \in BOOLEAN /\ torn' \in BOOLEAN
      BY <1>4 DEF Catch, Publish, Update, UpdateThrows, TypeOK, InTime
    <3>4. faults' \in 0 .. MaxFaults /\ restarts' \in 0 .. MaxRestarts
      BY <1>4 DEF Catch, Publish, Update, UpdateThrows, TypeOK
    <3>5. pipe' \in [Pipelines -> Results \cup {"idle", "running"}]
          /\ deleter' \in [Deleters -> Deleting \cup {"idle", "purge"}]
      BY <1>4 DEF Catch, Publish, Update, UpdateThrows, TypeOK, Results
    <3> QED
      BY <3>1, <3>2, <3>3, <3>4, <3>5 DEF TypeOK
  <2>2. Unlaunched'
    BY <1>4 DEF Catch, Publish, Update, UpdateThrows, Unlaunched, Signal, TypeOK
  <2>3. Claims'
    BY <1>4 DEF Catch, Publish, Update, UpdateThrows, Claims, TypeOK
  <2>4. Runner'
    BY <1>4 DEF Catch, Publish, Update, UpdateThrows, Runner, TypeOK, Final
  <2>5. Deletion'
    BY <1>4 DEF Catch, Publish, Update, UpdateThrows, Deletion, TypeOK, Claims, Runner
  <2>6. Cancellation'
    BY <1>4 DEF Catch, Publish, Update, UpdateThrows, Cancellation, Signal, TypeOK, Claims,
                Runner
  <2>7. DeletionIsFinal' /\ RecordMatchesCheckpoint'
    BY <1>4 DEF Catch, Publish, Update, UpdateThrows, DeletionIsFinal, RecordMatchesCheckpoint,
                TypeOK
  <2> QED
    BY <2>1, <2>2, <2>3, <2>4, <2>5, <2>6, <2>7
<1>5. CASE RecordUnexpected
  <2>1. TypeOK'
    <3>1. creator' \in {"idle", "logging", "model", "done"} /\ lease' \in Deleters \cup {NoLease}
          /\ active' \in SUBSET Pipelines /\ local' \in {"idle", "preparing", "running"}
          /\ runner' \in Running \cup {"none", "unexpected", "done"}
      BY <1>5 DEF RecordUnexpected, Update, UpdateThrows, TypeOK
    <3>2. status' \in Status /\ saved' \in OnDisk /\ tomb' \in OnDisk
          /\ verdict' \in Final \cup {"none"}
      BY <1>5 DEF RecordUnexpected, Update, UpdateThrows, TypeOK, Status, OnDisk, Final, Runner,
                  Unlaunched
    <3>3. present' \in BOOLEAN /\ complete' \in BOOLEAN /\ ready' \in BOOLEAN
          /\ aborted' \in BOOLEAN /\ stale' \in BOOLEAN /\ asked' \in BOOLEAN
          /\ deleted' \in BOOLEAN /\ torn' \in BOOLEAN
      BY <1>5 DEF RecordUnexpected, Update, UpdateThrows, TypeOK, InTime
    <3>4. faults' \in 0 .. MaxFaults /\ restarts' \in 0 .. MaxRestarts
      BY <1>5 DEF RecordUnexpected, Update, UpdateThrows, TypeOK
    <3>5. pipe' \in [Pipelines -> Results \cup {"idle", "running"}]
          /\ deleter' \in [Deleters -> Deleting \cup {"idle", "purge"}]
      BY <1>5 DEF RecordUnexpected, Update, UpdateThrows, TypeOK, Results
    <3> QED
      BY <3>1, <3>2, <3>3, <3>4, <3>5 DEF TypeOK
  <2>2. Unlaunched'
    BY <1>5 DEF RecordUnexpected, Update, UpdateThrows, Unlaunched, Signal, TypeOK
  <2>3. Claims'
    BY <1>5 DEF RecordUnexpected, Update, UpdateThrows, Claims, TypeOK, Runner
  <2>4. Runner'
    BY <1>5 DEF RecordUnexpected, Update, UpdateThrows, Runner, TypeOK, Final
  <2>5. Deletion'
    BY <1>5 DEF RecordUnexpected, Update, UpdateThrows, Deletion, TypeOK, Claims, Runner
  <2>6. Cancellation'
    BY <1>5 DEF RecordUnexpected, Update, UpdateThrows, Cancellation, Signal, TypeOK, Claims,
                Runner
  <2>7. DeletionIsFinal' /\ RecordMatchesCheckpoint'
    BY <1>5 DEF RecordUnexpected, Update, UpdateThrows, DeletionIsFinal,
                RecordMatchesCheckpoint, TypeOK
  <2> QED
    BY <2>1, <2>2, <2>3, <2>4, <2>5, <2>6, <2>7
<1>6. CASE PipelineEnds(p)
  <2>1. TypeOK'
    BY <1>6 DEF PipelineEnds, TypeOK, Status, OnDisk, Final, Results
  <2>2. Unlaunched'
    BY <1>6 DEF PipelineEnds, Unlaunched, Signal, TypeOK
  <2>3. Claims'
    BY <1>6 DEF PipelineEnds, Claims, TypeOK
  <2>4. Runner'
    BY <1>6 DEF PipelineEnds, Runner, TypeOK, Final
  <2>5. Deletion'
    BY <1>6 DEF PipelineEnds, Deletion, TypeOK
  <2>6. Cancellation'
    BY <1>6 DEF PipelineEnds, Cancellation, Signal, TypeOK
  <2>7. DeletionIsFinal' /\ RecordMatchesCheckpoint'
    BY <1>6 DEF PipelineEnds, DeletionIsFinal, RecordMatchesCheckpoint, TypeOK
  <2> QED
    BY <2>1, <2>2, <2>3, <2>4, <2>5, <2>6, <2>7
<1>7. CASE StageUpdate(p)
  <2>1. TypeOK'
    <3>1. creator' \in {"idle", "logging", "model", "done"} /\ lease' \in Deleters \cup {NoLease}
          /\ active' \in SUBSET Pipelines /\ local' \in {"idle", "preparing", "running"}
          /\ runner' \in Running \cup {"none", "unexpected", "done"}
      BY <1>7 DEF StageUpdate, Update, TypeOK
    <3>2. status' \in Status /\ saved' \in OnDisk /\ tomb' \in OnDisk
          /\ verdict' \in Final \cup {"none"}
      BY <1>7 DEF StageUpdate, Update, TypeOK, Status, OnDisk, Final, Runner, Unlaunched
    <3>3. present' \in BOOLEAN /\ complete' \in BOOLEAN /\ ready' \in BOOLEAN
          /\ aborted' \in BOOLEAN /\ stale' \in BOOLEAN /\ asked' \in BOOLEAN
          /\ deleted' \in BOOLEAN /\ torn' \in BOOLEAN
      BY <1>7 DEF StageUpdate, Update, TypeOK, InTime
    <3>4. faults' \in 0 .. MaxFaults /\ restarts' \in 0 .. MaxRestarts
      BY <1>7 DEF StageUpdate, Update, TypeOK
    <3>5. pipe' \in [Pipelines -> Results \cup {"idle", "running"}]
          /\ deleter' \in [Deleters -> Deleting \cup {"idle", "purge"}]
      BY <1>7 DEF StageUpdate, Update, TypeOK, Results
    <3> QED
      BY <3>1, <3>2, <3>3, <3>4, <3>5 DEF TypeOK
  <2>2. Unlaunched'
    BY <1>7 DEF StageUpdate, Update, Unlaunched, Signal, TypeOK
  <2>3. Claims'
    BY <1>7 DEF StageUpdate, Update, Claims, TypeOK
  <2>4. Runner'
    BY <1>7 DEF StageUpdate, Update, Runner, TypeOK, Final
  <2>5. Deletion'
    BY <1>7 DEF StageUpdate, Update, Deletion, TypeOK, Claims, Runner
  <2>6. Cancellation'
    BY <1>7 DEF StageUpdate, Update, Cancellation, Signal, TypeOK
  <2>7. DeletionIsFinal' /\ RecordMatchesCheckpoint'
    BY <1>7 DEF StageUpdate, Update, DeletionIsFinal, RecordMatchesCheckpoint, TypeOK
  <2> QED
    BY <2>1, <2>2, <2>3, <2>4, <2>5, <2>6, <2>7
<1> QED
  BY <1>1, <1>2, <1>3, <1>4, <1>5, <1>6, <1>7

\* So does a local run.
LEMMA LocalIInv ==
  ASSUME IInv, \/ LocalPrepare \/ LocalClaim \/ LocalUpdate \/ LocalEnds
  PROVE  IInv'
<1> USE JobAssumption DEF IInv, Running, Deleting
<1>1. CASE LocalPrepare
  <2>1. TypeOK'
    BY <1>1 DEF LocalPrepare, TypeOK, Status, OnDisk, Final, Results
  <2>2. Unlaunched'
    BY <1>1 DEF LocalPrepare, Unlaunched, Signal, TypeOK
  <2>3. Claims'
    BY <1>1 DEF LocalPrepare, Claims, TypeOK
  <2>4. Runner'
    BY <1>1 DEF LocalPrepare, Runner, TypeOK, Final
  <2>5. Deletion'
    BY <1>1 DEF LocalPrepare, Deletion, TypeOK
  <2>6. Cancellation'
    BY <1>1 DEF LocalPrepare, Cancellation, Signal, TypeOK
  <2>7. DeletionIsFinal' /\ RecordMatchesCheckpoint'
    BY <1>1 DEF LocalPrepare, DeletionIsFinal, RecordMatchesCheckpoint, TypeOK
  <2> QED
    BY <2>1, <2>2, <2>3, <2>4, <2>5, <2>6, <2>7
<1>2. CASE LocalClaim
  <2>1. TypeOK'
    <3>1. creator' \in {"idle", "logging", "model", "done"} /\ lease' \in Deleters \cup {NoLease}
          /\ active' \in SUBSET Pipelines /\ local' \in {"idle", "preparing", "running"}
          /\ runner' \in Running \cup {"none", "unexpected", "done"}
      BY <1>2 DEF LocalClaim, Claim, Claimable, Update, UpdateThrows, TypeOK
    <3>2. status' \in Status /\ saved' \in OnDisk /\ tomb' \in OnDisk
          /\ verdict' \in Final \cup {"none"}
      BY <1>2 DEF LocalClaim, Claim, Claimable, Update, UpdateThrows, TypeOK, Status, OnDisk,
                  Final, Runner, Unlaunched
    <3>3. present' \in BOOLEAN /\ complete' \in BOOLEAN /\ ready' \in BOOLEAN
          /\ aborted' \in BOOLEAN /\ stale' \in BOOLEAN /\ asked' \in BOOLEAN
          /\ deleted' \in BOOLEAN /\ torn' \in BOOLEAN
      BY <1>2 DEF LocalClaim, Claim, Claimable, Update, UpdateThrows, TypeOK, InTime
    <3>4. faults' \in 0 .. MaxFaults /\ restarts' \in 0 .. MaxRestarts
      BY <1>2 DEF LocalClaim, Claim, Claimable, Update, UpdateThrows, TypeOK
    <3>5. pipe' \in [Pipelines -> Results \cup {"idle", "running"}]
          /\ deleter' \in [Deleters -> Deleting \cup {"idle", "purge"}]
      BY <1>2 DEF LocalClaim, Claim, Claimable, Update, UpdateThrows, TypeOK, Results
    <3> QED
      BY <3>1, <3>2, <3>3, <3>4, <3>5 DEF TypeOK
  <2>2. Unlaunched'
    BY <1>2 DEF LocalClaim, Claim, Claimable, Update, UpdateThrows, Unlaunched, Signal, TypeOK
  <2>3. Claims'
    BY <1>2 DEF LocalClaim, Claim, Claimable, Update, UpdateThrows, Claims, TypeOK
  <2>4. Runner'
    BY <1>2 DEF LocalClaim, Claim, Claimable, Update, UpdateThrows, Runner, TypeOK, Final
  <2>5. Deletion'
    BY <1>2 DEF LocalClaim, Claim, Claimable, Update, UpdateThrows, Deletion, TypeOK
  <2>6. Cancellation'
    BY <1>2 DEF LocalClaim, Claim, Claimable, Update, UpdateThrows, Cancellation, Signal,
                TypeOK, Claims, Runner, Deletion
  <2>7. DeletionIsFinal' /\ RecordMatchesCheckpoint'
    BY <1>2 DEF LocalClaim, Claim, Claimable, Update, UpdateThrows, DeletionIsFinal,
                RecordMatchesCheckpoint, TypeOK
  <2> QED
    BY <2>1, <2>2, <2>3, <2>4, <2>5, <2>6, <2>7
<1>3. CASE LocalUpdate
  <2>1. TypeOK'
    <3>1. creator' \in {"idle", "logging", "model", "done"} /\ lease' \in Deleters \cup {NoLease}
          /\ active' \in SUBSET Pipelines /\ local' \in {"idle", "preparing", "running"}
          /\ runner' \in Running \cup {"none", "unexpected", "done"}
      BY <1>3 DEF LocalUpdate, Update, TypeOK
    <3>2. status' \in Status /\ saved' \in OnDisk /\ tomb' \in OnDisk
          /\ verdict' \in Final \cup {"none"}
      BY <1>3 DEF LocalUpdate, Update, TypeOK, Status, OnDisk, Final, Runner, Unlaunched
    <3>3. present' \in BOOLEAN /\ complete' \in BOOLEAN /\ ready' \in BOOLEAN
          /\ aborted' \in BOOLEAN /\ stale' \in BOOLEAN /\ asked' \in BOOLEAN
          /\ deleted' \in BOOLEAN /\ torn' \in BOOLEAN
      BY <1>3 DEF LocalUpdate, Update, TypeOK, InTime
    <3>4. faults' \in 0 .. MaxFaults /\ restarts' \in 0 .. MaxRestarts
      BY <1>3 DEF LocalUpdate, Update, TypeOK
    <3>5. pipe' \in [Pipelines -> Results \cup {"idle", "running"}]
          /\ deleter' \in [Deleters -> Deleting \cup {"idle", "purge"}]
      BY <1>3 DEF LocalUpdate, Update, TypeOK, Results
    <3> QED
      BY <3>1, <3>2, <3>3, <3>4, <3>5 DEF TypeOK
  <2>2. Unlaunched'
    BY <1>3 DEF LocalUpdate, Update, Unlaunched, Signal, TypeOK
  <2>3. Claims'
    BY <1>3 DEF LocalUpdate, Update, Claims, TypeOK
  <2>4. Runner'
    BY <1>3 DEF LocalUpdate, Update, Runner, TypeOK, Final
  <2>5. Deletion'
    BY <1>3 DEF LocalUpdate, Update, Deletion, TypeOK, Claims, Runner
  <2>6. Cancellation'
    BY <1>3 DEF LocalUpdate, Update, Cancellation, Signal, TypeOK
  <2>7. DeletionIsFinal' /\ RecordMatchesCheckpoint'
    BY <1>3 DEF LocalUpdate, Update, DeletionIsFinal, RecordMatchesCheckpoint, TypeOK
  <2> QED
    BY <2>1, <2>2, <2>3, <2>4, <2>5, <2>6, <2>7
<1>4. CASE LocalEnds
  <2>1. TypeOK'
    <3>1. creator' \in {"idle", "logging", "model", "done"} /\ lease' \in Deleters \cup {NoLease}
          /\ active' \in SUBSET Pipelines /\ local' \in {"idle", "preparing", "running"}
          /\ runner' \in Running \cup {"none", "unexpected", "done"}
      BY <1>4 DEF LocalEnds, TerminalJobStatus, Update, UpdateThrows, TypeOK
    <3>2. status' \in Status /\ saved' \in OnDisk /\ tomb' \in OnDisk
          /\ verdict' \in Final \cup {"none"}
      BY <1>4 DEF LocalEnds, TerminalJobStatus, Update, UpdateThrows, TypeOK, Status, OnDisk,
                  Final, Runner, Unlaunched
    <3>3. present' \in BOOLEAN /\ complete' \in BOOLEAN /\ ready' \in BOOLEAN
          /\ aborted' \in BOOLEAN /\ stale' \in BOOLEAN /\ asked' \in BOOLEAN
          /\ deleted' \in BOOLEAN /\ torn' \in BOOLEAN
      BY <1>4 DEF LocalEnds, TerminalJobStatus, Update, UpdateThrows, TypeOK, InTime
    <3>4. faults' \in 0 .. MaxFaults /\ restarts' \in 0 .. MaxRestarts
      BY <1>4 DEF LocalEnds, TerminalJobStatus, Update, UpdateThrows, TypeOK
    <3>5. pipe' \in [Pipelines -> Results \cup {"idle", "running"}]
          /\ deleter' \in [Deleters -> Deleting \cup {"idle", "purge"}]
      BY <1>4 DEF LocalEnds, TerminalJobStatus, Update, UpdateThrows, TypeOK, Results
    <3> QED
      BY <3>1, <3>2, <3>3, <3>4, <3>5 DEF TypeOK
  <2>2. Unlaunched'
    BY <1>4 DEF LocalEnds, TerminalJobStatus, Update, UpdateThrows, Unlaunched, Signal, TypeOK
  <2>3. Claims'
    BY <1>4 DEF LocalEnds, TerminalJobStatus, Update, UpdateThrows, Claims, TypeOK
  <2>4. Runner'
    BY <1>4 DEF LocalEnds, TerminalJobStatus, Update, UpdateThrows, Runner, TypeOK, Final
  <2>5. Deletion'
    BY <1>4 DEF LocalEnds, TerminalJobStatus, Update, UpdateThrows, Deletion, TypeOK, Claims,
                Runner
  <2>6. Cancellation'
    BY <1>4 DEF LocalEnds, TerminalJobStatus, Update, UpdateThrows, Cancellation, Signal, TypeOK
  <2>7. DeletionIsFinal' /\ RecordMatchesCheckpoint'
    BY <1>4 DEF LocalEnds, TerminalJobStatus, Update, UpdateThrows, DeletionIsFinal,
                RecordMatchesCheckpoint, TypeOK
  <2> QED
    BY <2>1, <2>2, <2>3, <2>4, <2>5, <2>6, <2>7
<1> QED
  BY <1>1, <1>2, <1>3, <1>4

\* So does a cancellation.
LEMMA CancelIInv ==
  ASSUME IInv, CancelJob
  PROVE  IInv'
<1> USE JobAssumption DEF IInv, Running, Deleting
<1>1. CASE CancelJob
  <2>1. TypeOK'
    <3>1. creator' \in {"idle", "logging", "model", "done"} /\ lease' \in Deleters \cup {NoLease}
          /\ active' \in SUBSET Pipelines /\ local' \in {"idle", "preparing", "running"}
          /\ runner' \in Running \cup {"none", "unexpected", "done"}
      BY <1>1 DEF CancelJob, RequestCancellation, RequestCancellationThrows, InTime, TypeOK
    <3>2. status' \in Status /\ saved' \in OnDisk /\ tomb' \in OnDisk
          /\ verdict' \in Final \cup {"none"}
      BY <1>1 DEF CancelJob, RequestCancellation, RequestCancellationThrows, InTime, TypeOK,
                  Status, OnDisk, Final, Runner, Unlaunched
    <3>3. present' \in BOOLEAN /\ complete' \in BOOLEAN /\ ready' \in BOOLEAN
          /\ aborted' \in BOOLEAN /\ stale' \in BOOLEAN /\ asked' \in BOOLEAN
          /\ deleted' \in BOOLEAN /\ torn' \in BOOLEAN
      BY <1>1 DEF CancelJob, RequestCancellation, RequestCancellationThrows, InTime, TypeOK,
                  InTime
    <3>4. faults' \in 0 .. MaxFaults /\ restarts' \in 0 .. MaxRestarts
      BY <1>1 DEF CancelJob, RequestCancellation, RequestCancellationThrows, InTime, TypeOK
    <3>5. pipe' \in [Pipelines -> Results \cup {"idle", "running"}]
          /\ deleter' \in [Deleters -> Deleting \cup {"idle", "purge"}]
      BY <1>1 DEF CancelJob, RequestCancellation, RequestCancellationThrows, InTime, TypeOK,
                  Results
    <3> QED
      BY <3>1, <3>2, <3>3, <3>4, <3>5 DEF TypeOK
  <2>2. Unlaunched'
    BY <1>1 DEF CancelJob, RequestCancellation, RequestCancellationThrows, InTime, Unlaunched,
                Signal, TypeOK
  <2>3. Claims'
    BY <1>1 DEF CancelJob, RequestCancellation, RequestCancellationThrows, InTime, Claims,
                TypeOK
  <2>4. Runner'
    BY <1>1 DEF CancelJob, RequestCancellation, RequestCancellationThrows, InTime, Runner,
                TypeOK, Final
  <2>5. Deletion'
    BY <1>1 DEF CancelJob, RequestCancellation, RequestCancellationThrows, InTime, Deletion,
                TypeOK
  <2>6. Cancellation'
    <3>1. UNCHANGED <<stale, runner, verdict, local, torn>>
      BY <1>1 DEF CancelJob, RequestCancellation, RequestCancellationThrows, InTime
    <3>2. asked' => asked \/ (aborted' /\ InTime)
      BY <1>1 DEF CancelJob, RequestCancellation, RequestCancellationThrows, InTime, TypeOK
    <3>3. aborted => aborted'
      BY <1>1 DEF CancelJob, RequestCancellation, RequestCancellationThrows, InTime, TypeOK
    <3>4. runner' \in Running /\ asked' => Signal' /\ verdict' \in {"none", "cancelled"}
      BY <3>1, <3>2, <3>3 DEF Cancellation, Signal, InTime, Claims, Runner
    <3>5. local' = "running" /\ aborted' => asked'
      BY <1>1 DEF CancelJob, RequestCancellation, RequestCancellationThrows, InTime, TypeOK,
                  Cancellation
    <3>6. local' = "running" => status' # "cancelled" /\ saved' # "cancelled"
      BY <1>1 DEF CancelJob, RequestCancellation, RequestCancellationThrows, InTime,
                  Cancellation
    <3>7. \A e \in Deleters :
            local' = "running" /\ deleter'[e] \in {"drop", "restore"} => tomb' # "cancelled"
      BY <1>1 DEF CancelJob, RequestCancellation, RequestCancellationThrows, InTime, TypeOK,
                  Cancellation
    <3> QED
      BY <3>4, <3>5, <3>6, <3>7 DEF Cancellation
  <2>7. DeletionIsFinal' /\ RecordMatchesCheckpoint'
    BY <1>1 DEF CancelJob, RequestCancellation, RequestCancellationThrows, InTime,
                DeletionIsFinal, RecordMatchesCheckpoint, TypeOK
  <2> QED
    BY <2>1, <2>2, <2>3, <2>4, <2>5, <2>6, <2>7
<1> QED
  BY <1>1

\* So do the steps of a deletion.
LEMMA DeleteIInv ==
  ASSUME IInv, NEW d \in Deleters,
         \/ DeleteStart(d) \/ ModelStopped(d) \/ JobStopped(d) \/ Rename(d) \/ Drop(d)
         \/ RestoreDirectory(d) \/ Purge(d)
  PROVE  IInv'
<1> USE JobAssumption DEF IInv, Running, Deleting
<1>1. CASE DeleteStart(d)
  <2>1. TypeOK'
    <3>1. creator' \in {"idle", "logging", "model", "done"} /\ lease' \in Deleters \cup {NoLease}
          /\ active' \in SUBSET Pipelines /\ local' \in {"idle", "preparing", "running"}
          /\ runner' \in Running \cup {"none", "unexpected", "done"}
      BY <1>1 DEF DeleteStart, AcquireLease, StopJob, Goto, Release, RequestCancellation,
                  RequestCancellationThrows, InTime, TypeOK
    <3>2. status' \in Status /\ saved' \in OnDisk /\ tomb' \in OnDisk
          /\ verdict' \in Final \cup {"none"}
      BY <1>1 DEF DeleteStart, AcquireLease, StopJob, Goto, Release, RequestCancellation,
                  RequestCancellationThrows, InTime, TypeOK, Status, OnDisk, Final, Runner,
                  Unlaunched
    <3>3. present' \in BOOLEAN /\ complete' \in BOOLEAN /\ ready' \in BOOLEAN
          /\ aborted' \in BOOLEAN /\ stale' \in BOOLEAN /\ asked' \in BOOLEAN
          /\ deleted' \in BOOLEAN /\ torn' \in BOOLEAN
      BY <1>1 DEF DeleteStart, AcquireLease, StopJob, Goto, Release, RequestCancellation,
                  RequestCancellationThrows, InTime, TypeOK, InTime
    <3>4. faults' \in 0 .. MaxFaults /\ restarts' \in 0 .. MaxRestarts
      BY <1>1 DEF DeleteStart, AcquireLease, StopJob, Goto, Release, RequestCancellation,
                  RequestCancellationThrows, InTime, TypeOK
    <3>5. pipe' \in [Pipelines -> Results \cup {"idle", "running"}]
          /\ deleter' \in [Deleters -> Deleting \cup {"idle", "purge"}]
      BY <1>1 DEF DeleteStart, AcquireLease, StopJob, Goto, Release, RequestCancellation,
                  RequestCancellationThrows, InTime, TypeOK, Results
    <3> QED
      BY <3>1, <3>2, <3>3, <3>4, <3>5 DEF TypeOK
  <2>2. Unlaunched'
    BY <1>1 DEF DeleteStart, AcquireLease, StopJob, Goto, Release, RequestCancellation,
                RequestCancellationThrows, InTime, Unlaunched, Signal, TypeOK
  <2>3. Claims'
    BY <1>1 DEF DeleteStart, AcquireLease, StopJob, Goto, Release, RequestCancellation,
                RequestCancellationThrows, InTime, Claims, TypeOK
  <2>4. Runner'
    BY <1>1 DEF DeleteStart, AcquireLease, StopJob, Goto, Release, RequestCancellation,
                RequestCancellationThrows, InTime, Runner, TypeOK, Final
  <2>5. Deletion'
    BY <1>1 DEF DeleteStart, AcquireLease, StopJob, Goto, Release, RequestCancellation,
                RequestCancellationThrows, InTime, Deletion, TypeOK, Claims, Runner
  <2>6. Cancellation'
    <3>1. UNCHANGED <<stale, runner, verdict, local, torn>>
      BY <1>1 DEF DeleteStart, AcquireLease, StopJob, Goto, Release, RequestCancellation,
                  RequestCancellationThrows, InTime
    <3>2. asked' => asked \/ (aborted' /\ InTime)
      BY <1>1 DEF DeleteStart, AcquireLease, StopJob, Goto, Release, RequestCancellation,
                  RequestCancellationThrows, InTime, TypeOK
    <3>3. aborted => aborted'
      BY <1>1 DEF DeleteStart, AcquireLease, StopJob, Goto, Release, RequestCancellation,
                  RequestCancellationThrows, InTime, TypeOK
    <3>4. runner' \in Running /\ asked' => Signal' /\ verdict' \in {"none", "cancelled"}
      BY <3>1, <3>2, <3>3 DEF Cancellation, Signal, InTime, Claims, Runner
    <3>5. local' = "running" /\ aborted' => asked'
      BY <1>1 DEF DeleteStart, AcquireLease, StopJob, Goto, Release, RequestCancellation,
                  RequestCancellationThrows, InTime, TypeOK, Cancellation
    <3>6. local' = "running" => status' # "cancelled" /\ saved' # "cancelled"
      BY <1>1 DEF DeleteStart, AcquireLease, StopJob, Goto, Release, RequestCancellation,
                  RequestCancellationThrows, InTime, Cancellation
    <3>7. \A e \in Deleters :
            local' = "running" /\ deleter'[e] \in {"drop", "restore"} => tomb' # "cancelled"
      BY <1>1 DEF DeleteStart, AcquireLease, StopJob, Goto, Release, RequestCancellation,
                  RequestCancellationThrows, InTime, TypeOK, Cancellation
    <3> QED
      BY <3>4, <3>5, <3>6, <3>7 DEF Cancellation
  <2>7. DeletionIsFinal' /\ RecordMatchesCheckpoint'
    BY <1>1 DEF DeleteStart, AcquireLease, StopJob, Goto, Release, RequestCancellation,
                RequestCancellationThrows, InTime, DeletionIsFinal, RecordMatchesCheckpoint,
                TypeOK
  <2> QED
    BY <2>1, <2>2, <2>3, <2>4, <2>5, <2>6, <2>7
<1>2. CASE ModelStopped(d)
  <2>1. TypeOK'
    <3>1. creator' \in {"idle", "logging", "model", "done"} /\ lease' \in Deleters \cup {NoLease}
          /\ active' \in SUBSET Pipelines /\ local' \in {"idle", "preparing", "running"}
          /\ runner' \in Running \cup {"none", "unexpected", "done"}
      BY <1>2 DEF ModelStopped, StopJob, Goto, Release, RequestCancellation,
                  RequestCancellationThrows, InTime, TypeOK
    <3>2. status' \in Status /\ saved' \in OnDisk /\ tomb' \in OnDisk
          /\ verdict' \in Final \cup {"none"}
      BY <1>2 DEF ModelStopped, StopJob, Goto, Release, RequestCancellation,
                  RequestCancellationThrows, InTime, TypeOK, Status, OnDisk, Final, Runner,
                  Unlaunched
    <3>3. present' \in BOOLEAN /\ complete' \in BOOLEAN /\ ready' \in BOOLEAN
          /\ aborted' \in BOOLEAN /\ stale' \in BOOLEAN /\ asked' \in BOOLEAN
          /\ deleted' \in BOOLEAN /\ torn' \in BOOLEAN
      BY <1>2 DEF ModelStopped, StopJob, Goto, Release, RequestCancellation,
                  RequestCancellationThrows, InTime, TypeOK, InTime
    <3>4. faults' \in 0 .. MaxFaults /\ restarts' \in 0 .. MaxRestarts
      BY <1>2 DEF ModelStopped, StopJob, Goto, Release, RequestCancellation,
                  RequestCancellationThrows, InTime, TypeOK
    <3>5. pipe' \in [Pipelines -> Results \cup {"idle", "running"}]
          /\ deleter' \in [Deleters -> Deleting \cup {"idle", "purge"}]
      BY <1>2 DEF ModelStopped, StopJob, Goto, Release, RequestCancellation,
                  RequestCancellationThrows, InTime, TypeOK, Results
    <3> QED
      BY <3>1, <3>2, <3>3, <3>4, <3>5 DEF TypeOK
  <2>2. Unlaunched'
    BY <1>2 DEF ModelStopped, StopJob, Goto, Release, RequestCancellation,
                RequestCancellationThrows, InTime, Unlaunched, Signal, TypeOK
  <2>3. Claims'
    BY <1>2 DEF ModelStopped, StopJob, Goto, Release, RequestCancellation,
                RequestCancellationThrows, InTime, Claims, TypeOK
  <2>4. Runner'
    BY <1>2 DEF ModelStopped, StopJob, Goto, Release, RequestCancellation,
                RequestCancellationThrows, InTime, Runner, TypeOK, Final
  <2>5. Deletion'
    BY <1>2 DEF ModelStopped, StopJob, Goto, Release, RequestCancellation,
                RequestCancellationThrows, InTime, Deletion, TypeOK
  <2>6. Cancellation'
    BY <1>2 DEF ModelStopped, StopJob, Goto, Release, RequestCancellation,
                RequestCancellationThrows, InTime, Cancellation, Signal, TypeOK, Claims, Runner,
                Deletion
  <2>7. DeletionIsFinal' /\ RecordMatchesCheckpoint'
    BY <1>2 DEF ModelStopped, StopJob, Goto, Release, RequestCancellation,
                RequestCancellationThrows, InTime, DeletionIsFinal, RecordMatchesCheckpoint,
                TypeOK, Deletion
  <2> QED
    BY <2>1, <2>2, <2>3, <2>4, <2>5, <2>6, <2>7
<1>3. CASE JobStopped(d)
  <2>1. TypeOK'
    BY <1>3 DEF JobStopped, Goto, Release, TypeOK, Status, OnDisk, Final, Results
  <2>2. Unlaunched'
    BY <1>3 DEF JobStopped, Goto, Release, Unlaunched, Signal, TypeOK
  <2>3. Claims'
    BY <1>3 DEF JobStopped, Goto, Release, Claims, TypeOK
  <2>4. Runner'
    BY <1>3 DEF JobStopped, Goto, Release, Runner, TypeOK, Final
  <2>5. Deletion'
    BY <1>3 DEF JobStopped, Goto, Release, Deletion, TypeOK, Claims, Runner
  <2>6. Cancellation'
    BY <1>3 DEF JobStopped, Goto, Release, Cancellation, Signal, TypeOK
  <2>7. DeletionIsFinal' /\ RecordMatchesCheckpoint'
    BY <1>3 DEF JobStopped, Goto, Release, DeletionIsFinal, RecordMatchesCheckpoint, TypeOK
  <2> QED
    BY <2>1, <2>2, <2>3, <2>4, <2>5, <2>6, <2>7
<1>4. CASE Rename(d)
  <2>1. TypeOK'
    BY <1>4 DEF Rename, Goto, Release, TypeOK, Status, OnDisk, Final, Results
  <2>2. Unlaunched'
    BY <1>4 DEF Rename, Goto, Release, Unlaunched, Signal, TypeOK
  <2>3. Claims'
    BY <1>4 DEF Rename, Goto, Release, Claims, TypeOK
  <2>4. Runner'
    BY <1>4 DEF Rename, Goto, Release, Runner, TypeOK, Final
  <2>5. Deletion'
    BY <1>4 DEF Rename, Goto, Release, Deletion, TypeOK
  <2>6. Cancellation'
    BY <1>4 DEF Rename, Goto, Release, Cancellation, Signal, TypeOK
  <2>7. DeletionIsFinal' /\ RecordMatchesCheckpoint'
    BY <1>4 DEF Rename, Goto, Release, DeletionIsFinal, RecordMatchesCheckpoint, TypeOK
  <2> QED
    BY <2>1, <2>2, <2>3, <2>4, <2>5, <2>6, <2>7
<1>5. CASE Drop(d)
  <2>1. TypeOK'
    <3>1. creator' \in {"idle", "logging", "model", "done"} /\ lease' \in Deleters \cup {NoLease}
          /\ active' \in SUBSET Pipelines /\ local' \in {"idle", "preparing", "running"}
          /\ runner' \in Running \cup {"none", "unexpected", "done"}
      BY <1>5 DEF Drop, Goto, TypeOK
    <3>2. status' \in Status /\ saved' \in OnDisk /\ tomb' \in OnDisk
          /\ verdict' \in Final \cup {"none"}
      BY <1>5 DEF Drop, Goto, TypeOK, Status, OnDisk, Final, Runner, Unlaunched
    <3>3. present' \in BOOLEAN /\ complete' \in BOOLEAN /\ ready' \in BOOLEAN
          /\ aborted' \in BOOLEAN /\ stale' \in BOOLEAN /\ asked' \in BOOLEAN
          /\ deleted' \in BOOLEAN /\ torn' \in BOOLEAN
      BY <1>5 DEF Drop, Goto, TypeOK, InTime
    <3>4. faults' \in 0 .. MaxFaults /\ restarts' \in 0 .. MaxRestarts
      BY <1>5 DEF Drop, Goto, TypeOK
    <3>5. pipe' \in [Pipelines -> Results \cup {"idle", "running"}]
          /\ deleter' \in [Deleters -> Deleting \cup {"idle", "purge"}]
      BY <1>5 DEF Drop, Goto, TypeOK, Results
    <3> QED
      BY <3>1, <3>2, <3>3, <3>4, <3>5 DEF TypeOK
  <2>2. Unlaunched'
    BY <1>5 DEF Drop, Goto, Unlaunched, Signal, TypeOK
  <2>3. Claims'
    BY <1>5 DEF Drop, Goto, Claims, TypeOK
  <2>4. Runner'
    BY <1>5 DEF Drop, Goto, Runner, TypeOK, Final
  <2>5. Deletion'
    BY <1>5 DEF Drop, Goto, Deletion, TypeOK
  <2>6. Cancellation'
    BY <1>5 DEF Drop, Goto, Cancellation, Signal, TypeOK
  <2>7. DeletionIsFinal' /\ RecordMatchesCheckpoint'
    BY <1>5 DEF Drop, Goto, DeletionIsFinal, RecordMatchesCheckpoint, TypeOK, Deletion
  <2> QED
    BY <2>1, <2>2, <2>3, <2>4, <2>5, <2>6, <2>7
<1>6. CASE RestoreDirectory(d)
  <2>1. TypeOK'
    BY <1>6 DEF RestoreDirectory, Goto, Release, TypeOK, Status, OnDisk, Final, Results
  <2>2. Unlaunched'
    BY <1>6 DEF RestoreDirectory, Goto, Release, Unlaunched, Signal, TypeOK
  <2>3. Claims'
    BY <1>6 DEF RestoreDirectory, Goto, Release, Claims, TypeOK
  <2>4. Runner'
    BY <1>6 DEF RestoreDirectory, Goto, Release, Runner, TypeOK, Final
  <2>5. Deletion'
    BY <1>6 DEF RestoreDirectory, Goto, Release, Deletion, TypeOK
  <2>6. Cancellation'
    BY <1>6 DEF RestoreDirectory, Goto, Release, Cancellation, Signal, TypeOK
  <2>7. DeletionIsFinal' /\ RecordMatchesCheckpoint'
    BY <1>6 DEF RestoreDirectory, Goto, Release, DeletionIsFinal, RecordMatchesCheckpoint,
                TypeOK, Deletion
  <2> QED
    BY <2>1, <2>2, <2>3, <2>4, <2>5, <2>6, <2>7
<1>7. CASE Purge(d)
  <2>1. TypeOK'
    BY <1>7 DEF Purge, Goto, TypeOK, Status, OnDisk, Final, Results
  <2>2. Unlaunched'
    BY <1>7 DEF Purge, Goto, Unlaunched, Signal, TypeOK
  <2>3. Claims'
    BY <1>7 DEF Purge, Goto, Claims, TypeOK
  <2>4. Runner'
    BY <1>7 DEF Purge, Goto, Runner, TypeOK, Final
  <2>5. Deletion'
    BY <1>7 DEF Purge, Goto, Deletion, TypeOK
  <2>6. Cancellation'
    BY <1>7 DEF Purge, Goto, Cancellation, Signal, TypeOK
  <2>7. DeletionIsFinal' /\ RecordMatchesCheckpoint'
    BY <1>7 DEF Purge, Goto, DeletionIsFinal, RecordMatchesCheckpoint, TypeOK
  <2> QED
    BY <2>1, <2>2, <2>3, <2>4, <2>5, <2>6, <2>7
<1> QED
  BY <1>1, <1>2, <1>3, <1>4, <1>5, <1>6, <1>7

\* So does a restart.
LEMMA RestartIInv ==
  ASSUME IInv, Restart
  PROVE  IInv'
<1> USE JobAssumption DEF IInv, Running, Deleting
<1>1. CASE Restart
  <2>1. TypeOK'
    <3>1. creator' \in {"idle", "logging", "model", "done"} /\ lease' \in Deleters \cup {NoLease}
          /\ active' \in SUBSET Pipelines /\ local' \in {"idle", "preparing", "running"}
          /\ runner' \in Running \cup {"none", "unexpected", "done"}
      BY <1>1 DEF Restart, Restored, TypeOK
    <3>2. status' \in Status /\ saved' \in OnDisk /\ tomb' \in OnDisk
          /\ verdict' \in Final \cup {"none"}
      BY <1>1 DEF Restart, Restored, TypeOK, Status, OnDisk, Final, Runner, Unlaunched
    <3>3. present' \in BOOLEAN /\ complete' \in BOOLEAN /\ ready' \in BOOLEAN
          /\ aborted' \in BOOLEAN /\ stale' \in BOOLEAN /\ asked' \in BOOLEAN
          /\ deleted' \in BOOLEAN /\ torn' \in BOOLEAN
      BY <1>1 DEF Restart, Restored, TypeOK, InTime
    <3>4. faults' \in 0 .. MaxFaults /\ restarts' \in 0 .. MaxRestarts
      BY <1>1 DEF Restart, Restored, TypeOK
    <3>5. pipe' \in [Pipelines -> Results \cup {"idle", "running"}]
          /\ deleter' \in [Deleters -> Deleting \cup {"idle", "purge"}]
      BY <1>1 DEF Restart, Restored, TypeOK, Results
    <3> QED
      BY <3>1, <3>2, <3>3, <3>4, <3>5 DEF TypeOK
  <2>2. Unlaunched'
    BY <1>1 DEF Restart, Restored, Unlaunched, Signal, TypeOK
  <2>3. Claims'
    BY <1>1 DEF Restart, Restored, Claims, TypeOK
  <2>4. Runner'
    BY <1>1 DEF Restart, Restored, Runner, TypeOK, Final
  <2>5. Deletion'
    BY <1>1 DEF Restart, Restored, Deletion, TypeOK
  <2>6. Cancellation'
    BY <1>1 DEF Restart, Restored, Cancellation, Signal, TypeOK
  <2>7. DeletionIsFinal' /\ RecordMatchesCheckpoint'
    BY <1>1 DEF Restart, Restored, DeletionIsFinal, RecordMatchesCheckpoint, TypeOK
  <2> QED
    BY <2>1, <2>2, <2>3, <2>4, <2>5, <2>6, <2>7
<1> QED
  BY <1>1

-----------------------------------------------------------------------------
(* The theorems *)

\* The store is empty and the job is incomplete before the request.
LEMMA InitIInv == Init => IInv
<1> SUFFICES ASSUME Init PROVE IInv
  OBVIOUS
<1>1. TypeOK
  <2>1. pipe \in [Pipelines -> Results \cup {"idle", "running"}]
        /\ deleter \in [Deleters -> Deleting \cup {"idle", "purge"}]
    BY DEF Init
  <2>2. faults \in 0 .. MaxFaults /\ restarts \in 0 .. MaxRestarts
    BY JobAssumption DEF Init
  <2> QED
    BY <2>1, <2>2 DEF Init, TypeOK, Status, OnDisk, Final
<1>2. Unlaunched /\ Deletion
  BY DEF Init, Unlaunched, Deletion, Deleting
<1>3. Claims /\ Runner /\ Cancellation
  BY DEF Init, Claims, Runner, Cancellation, Running
<1>4. DeletionIsFinal /\ RecordMatchesCheckpoint
  BY DEF Init, DeletionIsFinal, RecordMatchesCheckpoint
<1> QED
  BY <1>1, <1>2, <1>3, <1>4 DEF IInv

\* The claims, the lease and the checkpoint stay in the relation that createJob,
\* runJob, the local runs, deleteJob and the restorer rely on.
THEOREM JobInductive == Spec => []IInv
<1>1. IInv /\ [Next]_vars => IInv'
  <2> SUFFICES ASSUME IInv, [Next]_vars PROVE IInv'
    OBVIOUS
  <2>1. CASE CreateJob \/ LaunchModel \/ LaunchRunner
    BY <2>1, LaunchIInv
  <2>2. CASE RunnerStep \/ \E p \in Pipelines : StageUpdate(p)
    <3>1. PICK p \in Pipelines : \/ StartPipelines \/ JoinPipelines \/ Settle \/ Catch
                                 \/ RecordUnexpected \/ PipelineEnds(p) \/ StageUpdate(p)
      BY <2>2 DEF RunnerStep, Pipelines
    <3> QED
      BY <3>1, RunnerIInv
  <2>3. CASE LocalPrepare \/ LocalClaim \/ LocalUpdate \/ LocalEnds
    BY <2>3, LocalIInv
  <2>4. CASE CancelJob
    BY <2>4, CancelIInv
  <2>5. CASE \E d \in Deleters : DeleteStart(d) \/ DeleterStep(d)
    BY <2>5, DeleteIInv DEF DeleterStep
  <2>6. CASE Restart
    BY <2>6, RestartIInv
  <2>7. CASE UNCHANGED vars
    BY <2>7 DEF vars, IInv, TypeOK, Unlaunched, Claims, Runner, Deletion, Cancellation,
                Signal, DeletionIsFinal, RecordMatchesCheckpoint
  <2> QED
    BY <2>1, <2>2, <2>3, <2>4, <2>5, <2>6, <2>7 DEF Next
<1> QED
  BY <1>1, InitIInv, PTL DEF Spec

\* Whatever requests, local runs, failed writes and restarts interleave, runJob, a
\* local run and a DELETE never work on the job together, a deleted job stays deleted
\* and job.json agrees with the record.
THEOREM JobIsSafe == Spec => []JobIntegrity
<1>1. IInv => JobIntegrity
  <2> SUFFICES ASSUME IInv PROVE JobIntegrity
    OBVIOUS
  <2>1. ExecutionExclusive
    <3>1. ASSUME NEW p PROVE Cardinality({p}) = 1
      BY FS_Singleton
    <3> QED
      BY <3>1 DEF IInv, Claims, ExecutionExclusive
  <2>2. DeletionSafe
    BY DEF IInv, Deletion, DeletionSafe, Claims, TypeOK, Pipelines, Deleting
  <2> QED
    BY <2>1, <2>2 DEF IInv, JobIntegrity
<1> QED
  BY <1>1, JobInductive, PTL

\* runJob ends a job that was cancelled in time as cancelled, and a local run ends
\* cancelled only on a cancellation of its own.
THEOREM CancellationHonoured == Spec => CancelHonoured
<1>1. IInv /\ [Next]_vars =>
        [/\ (runner \in Running /\ runner' = "done" /\ present /\ asked /\ restarts' = restarts)
                => (status' = "cancelled")
         /\ (local = "running" /\ local' = "idle" /\ status' = "cancelled") => asked]_vars
  <2> SUFFICES ASSUME IInv, Next
               PROVE  /\ (runner \in Running /\ runner' = "done" /\ present /\ asked
                          /\ restarts' = restarts) => (status' = "cancelled")
                      /\ (local = "running" /\ local' = "idle" /\ status' = "cancelled") => asked
    OBVIOUS
  <2> USE DEF IInv
  <2>1. CASE CreateJob \/ LaunchModel \/ LaunchRunner
    BY <2>1 DEF CreateJob, LaunchModel, LaunchRunner, Running
  <2>2. CASE \/ StartPipelines \/ RecordUnexpected
             \/ \E p \in Pipelines : PipelineEnds(p) \/ StageUpdate(p)
    BY <2>2 DEF StartPipelines, RecordUnexpected, PipelineEnds, StageUpdate, Running
  <2>3. CASE JoinPipelines
    BY <2>3 DEF JoinPipelines, Joined, Publish, EnterCatch, Update, Cancellation
  <2>4. CASE Settle
    BY <2>4 DEF Settle, Publish, EnterCatch, Update, Cancellation, Runner
  <2>5. CASE Catch
    <3>1. present /\ runner \in Running => ~complete
      BY DEF Claims, Runner, Pipelines
    <3> QED
      BY <2>5, <3>1 DEF Catch, Publish, Update, Cancellation, Runner
  <2>6. CASE LocalPrepare \/ LocalClaim \/ LocalUpdate
    BY <2>6 DEF LocalPrepare, LocalClaim, LocalUpdate, Running
  <2>7. CASE LocalEnds
    BY <2>7 DEF LocalEnds, TerminalJobStatus, Update, UpdateThrows, Cancellation, Running
  <2>8. CASE CancelJob \/ \E d \in Deleters : DeleteStart(d) \/ DeleterStep(d)
    BY <2>8 DEF CancelJob, DeleteStart, DeleterStep, ModelStopped, JobStopped, Rename, Drop,
                RestoreDirectory, Purge, Running
  <2>9. CASE Restart
    <3>1. restarts' # restarts
      BY <2>9 DEF Restart, TypeOK
    <3>2. local = "running" => status' # "cancelled"
      <4>1. ASSUME NEW st \in Restored(saved), saved # "cancelled" PROVE st # "cancelled"
        BY <4>1 DEF Restored, Final
      <4> QED
        BY <2>9, <4>1 DEF Restart, Cancellation
    <3> QED
      BY <3>1, <3>2
  <2> QED
    BY <2>1, <2>2, <2>3, <2>4, <2>5, <2>6, <2>7, <2>8, <2>9 DEF Next, RunnerStep
<1> QED
  BY <1>1, JobInductive, PTL DEF Spec, CancelHonoured

===============================================================================
