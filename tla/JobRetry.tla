------------------------------ MODULE JobRetry ------------------------------
(***************************************************************************)
(* retryJob (src/server/job-api/retry-job.ts): a stopped or unsuccessful   *)
(* task, the source, is retried as a new job that copies its datasheet.    *)
(* Requests for one source share a promise in pending_retries, the new     *)
(* workspace is built outside the restorer's namespace and exposed by a    *)
(* rename, and the source is looked at again before the job is created,    *)
(* since it may have been deleted in the meantime.                         *)
(*                                                                         *)
(* One source.  A retry is named by the id of the job it creates.  What    *)
(* happens to a job once launched is JobLifecycle's subject: here it runs, *)
(* ends, and may be resumed by a local run or deleted.                     *)
(***************************************************************************)
EXTENDS Naturals

CONSTANTS
    Requests,     \* retry requests
    Retries,      \* ids of the jobs they may create
    None,         \* no retry
    MaxFaults,    \* how many file operations may fail
    MaxRestarts   \* how often the server is restarted

ASSUME RetryAssumption ==
    /\ None \notin Retries
    /\ MaxFaults \in Nat
    /\ MaxRestarts \in Nat

VARIABLES
    source,     \* the source job: stopped (cancelled, unsupported, failed),
                \* active, complete, or gone
    lease,      \* a deletion lease is held on the source
    pending,    \* pending_retries.get(source_job_id)
    waiting,    \* the promise each request awaits
    setup,      \* the await the promise of a retry stands at
    retry,      \* the record of a retry in JobStore
    dir,        \* its directory: none, .creating-, exposed, with job.json
    resumed,    \* history: retries a local run started again
    leaked,     \* history: directories whose removal failed or was lost
    faults,
    restarts

vars == <<source, lease, pending, waiting, setup, retry, dir, resumed, leaked,
          faults, restarts>>

Setup == {"none", "read", "mkdir", "staging", "exposed", "discard"}

Registered == {r \in Retries : retry[r] \in {"active", "ended"}}

\* Ids nobody has used: crypto.randomUUID never repeats one.
Fresh == {r \in Retries : retry[r] = "new" /\ setup[r] = "none" /\ dir[r] = "none"
                             /\ r \notin leaked}

\* getActiveRetryForSource
ActiveRetries == {r \in Retries : retry[r] = "active"}

\* requireRetrySource does not throw.
SourceAvailable == source # "gone" /\ ~lease

Init ==
    /\ source = "stopped"
    /\ lease = FALSE
    /\ pending = None
    /\ waiting = [q \in Requests |-> None]
    /\ setup = [r \in Retries |-> "none"]
    /\ retry = [r \in Retries |-> "new"]
    /\ dir = [r \in Retries |-> "none"]
    /\ resumed = {}
    /\ leaked = {}
    /\ faults = 0
    /\ restarts = 0

-----------------------------------------------------------------------------
(* retryJob *)

\* Mutant of RetryRequest: pending_retries is not consulted.
RetryRequestUnshared(q) ==
    /\ waiting[q] = None
    /\ SourceAvailable /\ source = "stopped"
    /\ ActiveRetries = {}
    /\ \E r \in Fresh :
          /\ setup' = [setup EXCEPT ![r] = "read"]
          /\ pending' = r
          /\ waiting' = [waiting EXCEPT ![q] = r]
    /\ UNCHANGED <<source, lease, retry, dir, resumed, leaked, faults, restarts>>

\* A request up to its await; a request that finds an active retry, or a source
\* it may not retry, is answered at once and changes nothing.
RetryRequest(q) ==
    /\ waiting[q] = None
    /\ SourceAvailable /\ source = "stopped"
    /\ ActiveRetries = {}
    /\ \/ /\ pending = None
          /\ \E r \in Fresh :
                /\ setup' = [setup EXCEPT ![r] = "read"]
                /\ pending' = r
                /\ waiting' = [waiting EXCEPT ![q] = r]
       \/ /\ pending # None
          /\ waiting' = [waiting EXCEPT ![q] = pending]
          /\ UNCHANGED <<setup, pending>>
    /\ UNCHANGED <<source, lease, retry, dir, resumed, leaked, faults, restarts>>

\* Mutant of Settle: only a promise that is fulfilled is taken off the map.
SettleKeepsFailure(r) ==
    /\ setup' = [setup EXCEPT ![r] = "none"]
    /\ waiting' = IF retry'[r] = "active"
                  THEN [q \in Requests |-> IF waiting[q] = r THEN None ELSE waiting[q]]
                  ELSE waiting
    /\ pending' = IF pending = r THEN None ELSE pending

\* The promise of r is settled: the requests that wait for it answer, and the
\* first of them takes it off pending_retries, before any other handler runs.
Settle(r) ==
    /\ setup' = [setup EXCEPT ![r] = "none"]
    /\ waiting' = [q \in Requests |-> IF waiting[q] = r THEN None ELSE waiting[q]]
    /\ pending' = IF pending = r THEN None ELSE pending

Await(r, label) ==
    /\ setup' = [setup EXCEPT ![r] = label]
    /\ UNCHANGED <<waiting, pending>>

\* readCommittedRetrySourcePdf
ReadSource(r) ==
    /\ setup[r] = "read"
    /\ \/ Await(r, "mkdir") /\ UNCHANGED faults
       \/ /\ faults < MaxFaults
          /\ faults' = faults + 1
          /\ UNCHANGED retry
          /\ Settle(r)
    /\ UNCHANGED <<source, lease, retry, dir, resumed, leaked, restarts>>

\* prepareJobWorkspace up to the private directory, which it owns from then on.
CreateStaging(r) ==
    /\ setup[r] = "mkdir"
    /\ \/ dir' = [dir EXCEPT ![r] = "staging"] /\ Await(r, "staging") /\ UNCHANGED faults
       \/ /\ faults < MaxFaults
          /\ faults' = faults + 1
          /\ UNCHANGED <<dir, retry>>
          /\ Settle(r)
    /\ UNCHANGED <<source, lease, retry, resumed, leaked, restarts>>

\* The rest of prepareJobWorkspace: the scaffold, the datasheet and the rename.
\* On a failure, copying the datasheet of a source that is gone among them, the
\* private directory is removed, and a failure of that is ignored.
ExposeWorkspace(r) ==
    /\ setup[r] = "staging"
    /\ \/ /\ dir' = [dir EXCEPT ![r] = "exposed"]
          /\ Await(r, "exposed")
          /\ UNCHANGED <<leaked, faults>>
       \/ /\ source = "gone" \/ faults < MaxFaults
          /\ UNCHANGED retry
          /\ Settle(r)
          /\ \/ /\ dir' = [dir EXCEPT ![r] = "none"]
                /\ faults' = IF source = "gone" THEN faults ELSE faults + 1
                /\ UNCHANGED leaked
             \/ /\ faults < MaxFaults
                /\ faults' = faults + 1
                /\ leaked' = leaked \cup {r}
                /\ UNCHANGED dir
    /\ UNCHANGED <<source, lease, retry, resumed, restarts>>

\* Mutant of CreateJob: the source is not looked at again.
CreateJobUnchecked(r) ==
    /\ setup[r] = "exposed"
    /\ retry' = [retry EXCEPT ![r] = "active"]
    /\ dir' = [dir EXCEPT ![r] = "registered"]
    /\ Settle(r)
    /\ UNCHANGED <<source, lease, resumed, leaked, faults, restarts>>

\* Mutant of CreateJob: a workspace whose job cannot be created is forgotten.
CreateJobForgets(r) ==
    /\ setup[r] = "exposed"
    /\ IF SourceAvailable
       THEN /\ retry' = [retry EXCEPT ![r] = "active"]
            /\ dir' = [dir EXCEPT ![r] = "registered"]
       ELSE UNCHANGED <<retry, dir>>
    /\ Settle(r)
    /\ UNCHANGED <<source, lease, resumed, leaked, faults, restarts>>

\* The final synchronous boundary: the source is looked at again, job.json is
\* written, the job registered and its runner launched; or the workspace is
\* discarded.
CreateJob(r) ==
    /\ setup[r] = "exposed"
    /\ \/ /\ SourceAvailable
          /\ retry' = [retry EXCEPT ![r] = "active"]
          /\ dir' = [dir EXCEPT ![r] = "registered"]
          /\ Settle(r)
          /\ UNCHANGED faults
       \/ /\ ~SourceAvailable
          /\ Await(r, "discard")
          /\ UNCHANGED <<retry, dir, faults>>
       \/ /\ SourceAvailable /\ faults < MaxFaults
          /\ faults' = faults + 1
          /\ Await(r, "discard")
          /\ UNCHANGED <<retry, dir>>
    /\ UNCHANGED <<source, lease, resumed, leaked, restarts>>

\* workspace.discard, whose failure is ignored; then the promise is rejected.
Discard(r) ==
    /\ setup[r] = "discard"
    /\ UNCHANGED retry
    /\ Settle(r)
    /\ \/ dir' = [dir EXCEPT ![r] = "none"] /\ UNCHANGED <<leaked, faults>>
       \/ /\ faults < MaxFaults
          /\ faults' = faults + 1
          /\ leaked' = leaked \cup {r}
          /\ UNCHANGED dir
    /\ UNCHANGED <<source, lease, resumed, restarts>>

-----------------------------------------------------------------------------
(* The jobs themselves *)

RetryEnds(r) ==
    /\ retry[r] = "active"
    /\ retry' = [retry EXCEPT ![r] = "ended"]
    /\ UNCHANGED <<source, lease, pending, waiting, setup, dir, resumed, leaked,
                   faults, restarts>>

\* An in-place local run makes a finished job incomplete again.
ResumeRetry(r) ==
    /\ retry[r] = "ended"
    /\ retry' = [retry EXCEPT ![r] = "active"]
    /\ resumed' = resumed \cup {r}
    /\ UNCHANGED <<source, lease, pending, waiting, setup, dir, leaked, faults,
                   restarts>>

DeleteRetry(r) ==
    /\ retry[r] = "ended"
    /\ retry' = [retry EXCEPT ![r] = "deleted"]
    /\ dir' = [dir EXCEPT ![r] = "none"]
    /\ UNCHANGED <<source, lease, pending, waiting, setup, resumed, leaked,
                   faults, restarts>>

\* An in-place local run of the source.
ResumeSource ==
    /\ source \in {"stopped", "complete"} /\ ~lease
    /\ source' = "active"
    /\ UNCHANGED <<lease, pending, waiting, setup, retry, dir, resumed, leaked,
                   faults, restarts>>

SourceEnds ==
    /\ source = "active"
    /\ source' \in {"stopped", "complete"}
    /\ UNCHANGED <<lease, pending, waiting, setup, retry, dir, resumed, leaked,
                   faults, restarts>>

\* deleteJob of the source: the lease first, then the job, unless it is kept.
AcquireLease ==
    /\ source # "gone" /\ ~lease
    /\ lease' = TRUE
    /\ UNCHANGED <<source, pending, waiting, setup, retry, dir, resumed, leaked,
                   faults, restarts>>

EndDeletion ==
    /\ lease
    /\ lease' = FALSE
    /\ \/ source # "active" /\ source' = "gone"
       \/ UNCHANGED source
    /\ UNCHANGED <<pending, waiting, setup, retry, dir, resumed, leaked, faults,
                   restarts>>

\* Mutant of Restored: a directory counts as a job before its job.json is there.
RestoredExposed(r) ==
    IF dir[r] \in {"exposed", "registered"} THEN "ended" ELSE retry[r]

\* restorePersistedJobs: job.json is the marker of a job, and a job that was
\* running is restored as failed.
Restored(r) ==
    IF dir[r] = "registered" THEN "ended" ELSE retry[r]

\* The server goes down and comes up again; private directories are removed, and
\* a failure of that is ignored.
Restart ==
    /\ restarts < MaxRestarts
    /\ restarts' = restarts + 1
    /\ source' = IF source = "active" THEN "stopped" ELSE source
    /\ lease' = FALSE
    /\ pending' = None
    /\ waiting' = [q \in Requests |-> None]
    /\ setup' = [r \in Retries |-> "none"]
    /\ retry' = [r \in Retries |-> Restored(r)]
    /\ \/ /\ dir' = [r \in Retries |-> IF dir[r] = "staging" THEN "none" ELSE dir[r]]
          /\ UNCHANGED faults
       \/ /\ faults < MaxFaults
          /\ faults' = faults + 1
          /\ UNCHANGED dir
    /\ leaked' = leaked \cup {r \in Retries : setup[r] # "none"}
    /\ UNCHANGED resumed

-----------------------------------------------------------------------------
SetupStep(r) ==
    \/ ReadSource(r) \/ CreateStaging(r) \/ ExposeWorkspace(r)
    \/ CreateJob(r) \/ Discard(r)

Next ==
    \/ \E q \in Requests : RetryRequest(q)
    \/ \E r \in Retries :
          \/ SetupStep(r)
          \/ RetryEnds(r) \/ ResumeRetry(r) \/ DeleteRetry(r)
    \/ ResumeSource \/ SourceEnds
    \/ AcquireLease \/ EndDeletion
    \/ Restart

Spec == Init /\ [][Next]_vars

\* File operations return.
FairSpec == Spec /\ \A r \in Retries : WF_vars(SetupStep(r))
-----------------------------------------------------------------------------
(* Properties *)

\* Every variable has its type.
TypeOK ==
    /\ source \in {"stopped", "active", "complete", "gone"}
    /\ lease \in BOOLEAN
    /\ pending \in Retries \cup {None}
    /\ waiting \in [Requests -> Retries \cup {None}]
    /\ setup \in [Retries -> Setup]
    /\ retry \in [Retries -> {"new", "active", "ended", "deleted"}]
    /\ dir \in [Retries -> {"none", "staging", "exposed", "registered"}]
    /\ resumed \in SUBSET Retries
    /\ leaked \in SUBSET Retries
    /\ faults \in 0 .. MaxFaults
    /\ restarts \in 0 .. MaxRestarts

\* However many requests arrive, and whenever, the source has at most one active
\* retry, unless a local run started a finished one again.
OneActiveRetry ==
    \A r, s \in Retries \ resumed :
        retry[r] = "active" /\ retry[s] = "active" => r = s

\* job.json marks exactly the registered retries: neither a restart nor a
\* failure leaves a job half created.
MarkerMeansRegistered ==
    \A r \in Retries : dir[r] = "registered" <=> r \in Registered

\* A directory on disk belongs to a registered retry or to a setup at work,
\* unless its removal failed or was lost in a restart.
WorkspaceAccounted ==
    \A r \in Retries \ leaked :
        dir[r] # "none" => r \in Registered \/ setup[r] # "none"

\* The three together: at most one retry at work, and nothing on disk that is not
\* accounted for, whichever requests, failures and restarts interleave.
RetryIsConsistent == OneActiveRetry /\ MarkerMeansRegistered /\ WorkspaceAccounted

\* tests/job-api01.test.ts: "a source that starts deleting during retry setup
\* cannot publish or launch the retry".
SourceNotDeleted ==
    [][\A r \in Retries : (retry[r] = "new" /\ retry'[r] = "active")
            => (source # "gone" /\ ~lease)]_vars

\* Every request is answered, whatever fails on the way.
RequestsAnswered ==
    \A q \in Requests : waiting[q] # None ~> waiting[q] = None

=============================================================================
