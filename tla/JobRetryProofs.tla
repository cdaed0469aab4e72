--------------------------- MODULE JobRetryProofs ---------------------------
(***************************************************************************)
(* Proofs about JobRetry: for any number of requests, retries, failed file *)
(* operations and restarts, the source has at most one active retry,       *)
(* job.json marks exactly the registered retries, and no retry is created  *)
(* from a source under deletion.                                           *)
(***************************************************************************)
EXTENDS JobRetry, LocalRuns, TLAPS

\* The part of TypeOK the argument needs.
Types ==
    /\ setup \in [Retries -> Setup]
    /\ retry \in [Retries -> {"new", "active", "ended", "deleted"}]
    /\ dir \in [Retries -> {"none", "staging", "exposed", "registered"}]

\* What makes OneActiveRetry inductive: the promise on pending_retries is the only
\* one at work, its job does not exist yet, and no retry is active beside it but
\* those a local run started again.
OnePromise ==
    \A r \in Retries : setup[r] # "none" =>
        /\ pending = r
        /\ retry[r] = "new"
        /\ ActiveRetries \subseteq resumed

\* What makes MarkerMeansRegistered inductive: a promise that has exposed a
\* workspace or is about to owns no job.json.
SetupOwnsDirectory ==
    \A r \in Retries :
        /\ setup[r] \in {"read", "mkdir"} => dir[r] = "none"
        /\ setup[r] = "staging" => dir[r] = "staging"
        /\ setup[r] \in {"exposed", "discard"} => dir[r] = "exposed"

IInv ==
    /\ Types
    /\ OnePromise
    /\ OneActiveRetry
    /\ SetupOwnsDirectory
    /\ MarkerMeansRegistered
    /\ WorkspaceAccounted

\* The initial state of createJobApiHandler satisfies the inductive invariant.
LEMMA InitIInv == Init => IInv
  BY RetryAssumption DEF Init, IInv, Types, OnePromise, OneActiveRetry, SetupOwnsDirectory,
     MarkerMeansRegistered, WorkspaceAccounted,
     Registered, ActiveRetries, Setup

\* The steps of one promise preserve it: between the request and the creation of
\* its job nobody else creates one.
LEMMA SetupStepIInv ==
  ASSUME IInv, NEW r \in Retries, SetupStep(r)
  PROVE  IInv'
<1> USE RetryAssumption
<1>1. CASE ReadSource(r)
  BY <1>1 DEF ReadSource, Settle, Await, IInv, Types, OnePromise, OneActiveRetry,
     SetupOwnsDirectory, MarkerMeansRegistered, WorkspaceAccounted,
     Registered, ActiveRetries, Setup
<1>2. CASE CreateStaging(r)
  BY <1>2 DEF CreateStaging, Settle, Await, IInv, Types, OnePromise, OneActiveRetry,
     SetupOwnsDirectory, MarkerMeansRegistered, WorkspaceAccounted,
     Registered, ActiveRetries, Setup
<1>3. CASE ExposeWorkspace(r)
  BY <1>3 DEF ExposeWorkspace, Settle, Await, IInv, Types, OnePromise, OneActiveRetry,
     SetupOwnsDirectory, MarkerMeansRegistered, WorkspaceAccounted,
     Registered, ActiveRetries, Setup
<1>4. CASE CreateJob(r)
  BY <1>4 DEF CreateJob, Settle, Await, IInv, Types, OnePromise, OneActiveRetry,
     SetupOwnsDirectory, MarkerMeansRegistered, WorkspaceAccounted,
     Registered, ActiveRetries, Setup
<1>5. CASE Discard(r)
  BY <1>5 DEF Discard, Settle, IInv, Types, OnePromise, OneActiveRetry,
     SetupOwnsDirectory, MarkerMeansRegistered, WorkspaceAccounted,
     Registered, ActiveRetries, Setup
<1> QED
  BY <1>1, <1>2, <1>3, <1>4, <1>5 DEF SetupStep

\* So do the steps of the jobs once they are launched.
LEMMA JobStepIInv ==
  ASSUME IInv, NEW r \in Retries, RetryEnds(r) \/ ResumeRetry(r) \/ DeleteRetry(r)
  PROVE  IInv'
<1>1. CASE RetryEnds(r)
  BY <1>1 DEF RetryEnds, IInv, Types, OnePromise, OneActiveRetry, SetupOwnsDirectory,
     MarkerMeansRegistered, WorkspaceAccounted,
     Registered, ActiveRetries, Setup
<1>2. CASE ResumeRetry(r)
  BY <1>2 DEF ResumeRetry, IInv, Types, OnePromise, OneActiveRetry, SetupOwnsDirectory,
     MarkerMeansRegistered, WorkspaceAccounted,
     Registered, ActiveRetries, Setup
<1>3. CASE DeleteRetry(r)
  BY <1>3 DEF DeleteRetry, IInv, Types, OnePromise, OneActiveRetry, SetupOwnsDirectory,
     MarkerMeansRegistered, WorkspaceAccounted,
     Registered, ActiveRetries, Setup
<1> QED
  BY <1>1, <1>2, <1>3

\* Every step of the specification preserves the inductive invariant.
LEMMA NextIInv == IInv /\ [Next]_vars => IInv'
<1> SUFFICES ASSUME IInv, [Next]_vars PROVE IInv'
  OBVIOUS
<1> USE RetryAssumption
<1>1. CASE \E q \in Requests : RetryRequest(q)
  BY <1>1 DEF RetryRequest, Fresh, IInv, Types, OnePromise, OneActiveRetry,
     SetupOwnsDirectory, MarkerMeansRegistered, WorkspaceAccounted,
     Registered, ActiveRetries, Setup
<1>2. CASE \E r \in Retries : SetupStep(r) \/ RetryEnds(r) \/ ResumeRetry(r) \/ DeleteRetry(r)
  BY <1>2, SetupStepIInv, JobStepIInv
<1>3. CASE ResumeSource \/ SourceEnds \/ AcquireLease \/ EndDeletion
  BY <1>3 DEF ResumeSource, SourceEnds, AcquireLease, EndDeletion, IInv, Types, OnePromise,
     OneActiveRetry, SetupOwnsDirectory, MarkerMeansRegistered, WorkspaceAccounted,
     Registered, ActiveRetries, Setup
<1>4. CASE Restart
  BY <1>4 DEF Restart, Restored, IInv, Types, OnePromise,
     OneActiveRetry, SetupOwnsDirectory, MarkerMeansRegistered, WorkspaceAccounted,
     Registered, ActiveRetries, Setup
<1>5. CASE UNCHANGED vars
  BY <1>5 DEF vars, IInv, Types, OnePromise,
     OneActiveRetry, SetupOwnsDirectory, MarkerMeansRegistered, WorkspaceAccounted,
     Registered, ActiveRetries, Setup
<1> QED
  BY <1>1, <1>2, <1>3, <1>4, <1>5 DEF Next

\* The inductive invariant holds throughout every behaviour of retryJob.
THEOREM RetryInductive == Spec => []IInv
  BY InitIInv, NextIInv, PTL DEF Spec

\* The part of TypeOK the inductive invariant leaves out.
OtherTypes ==
    /\ source \in {"stopped", "active", "complete", "gone"}
    /\ lease \in BOOLEAN
    /\ pending \in Retries \cup {None}
    /\ waiting \in [Requests -> Retries \cup {None}]
    /\ resumed \in SUBSET Retries
    /\ leaked \in SUBSET Retries
    /\ faults \in 0 .. MaxFaults
    /\ restarts \in 0 .. MaxRestarts

\* Every variable has its type; the directories lost are those of retries.
THEOREM RetryTypes == Spec => []TypeOK
<1>1. Init => OtherTypes
  <2> SUFFICES ASSUME Init PROVE OtherTypes
    OBVIOUS
  <2>1. faults \in 0 .. MaxFaults /\ restarts \in 0 .. MaxRestarts
    BY RetryAssumption DEF Init
  <2>2. waiting \in [Requests -> Retries \cup {None}]
    BY DEF Init
  <2> QED
    BY <2>1, <2>2, Zenon DEF Init, OtherTypes
<1>2. IInv /\ OtherTypes /\ [Next]_vars => OtherTypes'
  <2> SUFFICES ASSUME IInv, OtherTypes, [Next]_vars PROVE OtherTypes'
    OBVIOUS
  <2> USE RetryAssumption DEF OtherTypes
  <2>1. CASE \E q \in Requests : RetryRequest(q)
    BY <2>1 DEF RetryRequest, Fresh
  <2>2. ASSUME NEW r \in Retries, SetupStep(r) PROVE OtherTypes'
    <3>1. CASE ReadSource(r) \/ CreateStaging(r)
      BY <3>1 DEF ReadSource, CreateStaging, Settle, Await
    <3>2. CASE ExposeWorkspace(r)
      BY <3>2 DEF ExposeWorkspace, Settle, Await
    <3>3. CASE CreateJob(r) \/ Discard(r)
      BY <3>3 DEF CreateJob, Discard, Settle, Await
    <3> QED
      BY <2>2, <3>1, <3>2, <3>3 DEF SetupStep
  <2>3. CASE \E r \in Retries : RetryEnds(r) \/ ResumeRetry(r) \/ DeleteRetry(r)
    BY <2>3 DEF RetryEnds, ResumeRetry, DeleteRetry
  <2>4. CASE ResumeSource \/ SourceEnds \/ AcquireLease \/ EndDeletion
    <3>1. source' \in {"stopped", "active", "complete", "gone"}
      BY <2>4 DEF ResumeSource, SourceEnds, AcquireLease, EndDeletion
    <3> QED
      BY <2>4, <3>1, Zenon DEF ResumeSource, SourceEnds, AcquireLease, EndDeletion
  <2>5. CASE Restart
    <3>1. source' \in {"stopped", "active", "complete", "gone"}
      BY <2>5 DEF Restart
    <3>2. /\ waiting' \in [Requests -> Retries \cup {None}]
          /\ leaked' \in SUBSET Retries
      BY <2>5 DEF Restart
    <3>3. faults' \in 0 .. MaxFaults /\ restarts' \in 0 .. MaxRestarts
      BY <2>5 DEF Restart
    <3> QED
      BY <2>5, <3>1, <3>2, <3>3, Zenon DEF Restart
  <2>6. CASE UNCHANGED vars
    BY <2>6, Zenon DEF vars
  <2> QED
    BY <2>1, <2>2, <2>3, <2>4, <2>5, <2>6 DEF Next
<1>3. IInv /\ OtherTypes => TypeOK
  BY DEF IInv, Types, OtherTypes, TypeOK
<1> QED
  BY <1>1, <1>2, <1>3, RetryInductive, PTL DEF Spec

\* However many requests for a retry of one source overlap, at most one of the
\* jobs they create is active.
THEOREM RetryIsUnique == Spec => []OneActiveRetry
<1>1. IInv => OneActiveRetry
  BY DEF IInv
<1> QED
  BY RetryInductive, <1>1, PTL

\* job.json is the commit marker of a retry: it is there exactly for the jobs the
\* store knows, across failures and restarts.
THEOREM MarkerIsFaithful == Spec => []MarkerMeansRegistered
<1>1. IInv => MarkerMeansRegistered
  BY DEF IInv
<1> QED
  BY RetryInductive, <1>1, PTL

\* A directory on disk is a registered retry's, a promise's at work, or one whose
\* removal failed or was cut short by a restart: no other path leaves one behind.
THEOREM NoStrayWorkspace == Spec => []WorkspaceAccounted
<1>1. IInv => WorkspaceAccounted
  BY DEF IInv
<1> QED
  BY RetryInductive, <1>1, PTL

\* A retry is never created from a source that is under deletion or deleted.
THEOREM DeletedSourceRefused == Spec => SourceNotDeleted
<1> DEFINE Step == \A r \in Retries : (retry[r] = "new" /\ retry'[r] = "active")
                      => (source # "gone" /\ ~lease)
<1>1. IInv /\ [Next]_vars => [Step]_vars
  <2> SUFFICES ASSUME IInv, Next, NEW r \in Retries, retry[r] = "new", retry'[r] = "active"
               PROVE  source # "gone" /\ ~lease
    BY DEF Step
  <2>1. ASSUME NEW s \in Retries, CreateJob(s) PROVE source # "gone" /\ ~lease
    BY <2>1 DEF CreateJob, SourceAvailable, IInv, Types
  <2>2. ASSUME NEW s \in Retries, SetupStep(s), ~CreateJob(s) PROVE FALSE
    BY <2>2 DEF SetupStep, ReadSource, CreateStaging, ExposeWorkspace, Discard
  <2>3. ASSUME NEW s \in Retries, RetryEnds(s) \/ ResumeRetry(s) \/ DeleteRetry(s) PROVE FALSE
    BY <2>3 DEF RetryEnds, ResumeRetry, DeleteRetry, IInv, Types
  <2>4. ASSUME Restart PROVE FALSE
    BY <2>4 DEF Restart, Restored, IInv, Types
  <2>5. ASSUME \/ \E q \in Requests : RetryRequest(q)
               \/ ResumeSource \/ SourceEnds \/ AcquireLease \/ EndDeletion
        PROVE FALSE
    BY <2>5 DEF RetryRequest, ResumeSource, SourceEnds, AcquireLease, EndDeletion
  <2> QED
    BY <2>1, <2>2, <2>3, <2>4, <2>5 DEF Next
<1>2. [Step]_vars => [\A r \in Retries : (retry[r] = "new" /\ retry'[r] = "active")
                      => (source # "gone" /\ ~lease)]_vars
  OBVIOUS
<1> QED
  BY RetryInductive, <1>1, <1>2, PTL DEF Spec, SourceNotDeleted

\* The three invariants of the retry together.
THEOREM RetryConsistent == Spec => []RetryIsConsistent
BY RetryIsUnique, MarkerIsFaithful, NoStrayWorkspace, PTL DEF RetryIsConsistent

-----------------------------------------------------------------------------
(* Local runs of a job, which resume it where a retry would copy it.  The  *)
(* argument is about time: a summary of a process that has not missed its  *)
(* heartbeat is never as old as the reconciliation wants it.               *)

RunStates == {"idle", "running", "ended", "dead"}

LocalTypes ==
    /\ pc \in [Runs -> RunStates]
    /\ disk \in [Runs -> {"none", "running"} \cup Terminal]
    /\ age \in [Runs -> Nat]
    /\ reading \in [Callers -> Runs \cup {NoRun}]

\* A process that was never late has a fresh summary while it works and its own result
\* once it ended, and whoever is about to declare it interrupted has seen it dead.
Punctual(r) ==
    /\ pc[r] = "idle" => disk[r] = "none" /\ age[r] = 0
    /\ pc[r] = "running" => disk[r] = "running" /\ age[r] <= 1
    /\ pc[r] = "ended" => disk[r] \in {"completed", "failed"}
    /\ \A c \in Callers : reading[c] = r => pc[r] = "dead"

LocalInv == LocalTypes /\ \A r \in Runs \ late : Punctual(r)

\* The steps of the processes preserve it.
LEMMA ProcessLocalInv ==
  ASSUME LocalInv, NEW r \in Runs,
         \/ \E who \in Callers : StartRun(r, who) \/ StartFails(r, who)
         \/ Heartbeat(r) \/ Finish(r) \/ FinishFails(r) \/ CliCrash(r)
  PROVE  LocalInv'
<1> USE LocalAssumption DEF LocalInv, LocalTypes, Punctual, RunStates, Terminal, Running, disks
<1>1. CASE \E who \in Callers : StartRun(r, who)
  BY <1>1 DEF StartRun, Claim, Update
<1>2. CASE \E who \in Callers : StartFails(r, who)
  BY <1>2 DEF StartFails, Claim, WriteTerminal
<1>3. CASE Heartbeat(r)
  BY <1>3 DEF Heartbeat
<1>4. CASE Finish(r) \/ FinishFails(r)
  <2>1. /\ pc' = [pc EXCEPT ![r] = "ended"] /\ age' = [age EXCEPT ![r] = 0]
        /\ \E status \in {"completed", "failed"} : disk' = [disk EXCEPT ![r] = status]
        /\ pc[r] = "running" /\ UNCHANGED <<late, reading>>
    BY <1>4 DEF Finish, FinishFails, WriteTerminal
  <2> QED
    BY <2>1
<1>5. CASE CliCrash(r)
  BY <1>5 DEF CliCrash
<1> QED
  BY <1>1, <1>2, <1>3, <1>4, <1>5

\* So do the passing of time, the reconciliations and the stops of the server.
LEMMA ListLocalInv ==
  ASSUME LocalInv,
         \/ Tick \/ ServerCrash
         \/ \E c \in Callers : ReconcileWrite(c) \/ \E r \in Runs : ReconcileRead(c, r)
  PROVE  LocalInv'
<1> USE LocalAssumption DEF LocalInv, LocalTypes, Punctual, RunStates, Terminal, Running, disks
<1>1. CASE Tick
  BY <1>1 DEF Tick
<1>2. CASE ServerCrash
  BY <1>2 DEF ServerCrash, NoRun, Callers
<1>3. CASE \E c \in Callers : ReconcileWrite(c)
  <2>1. PICK c \in Callers : ReconcileWrite(c)
    BY <1>3
  <2>2. reading[c] \in Runs
    BY <2>1 DEF ReconcileWrite
  <2> QED
    BY <2>1, <2>2 DEF ReconcileWrite, WriteTerminal, NoRun
<1>4. CASE \E c \in Callers, r \in Runs : ReconcileRead(c, r)
  <2>1. PICK c \in Callers, r \in Runs : ReconcileRead(c, r)
    BY <1>4
  <2>2. r \in late \/ pc[r] = "dead"
    BY <2>1 DEF ReconcileRead
  <2> QED
    BY <2>1, <2>2 DEF ReconcileRead
<1> QED
  BY <1>1, <1>2, <1>3, <1>4

\* The invariant of the local runs is inductive.
THEOREM LocalInductive == LocalSpec => []LocalInv
<1>1. LocalInit => LocalInv
  BY DEF LocalInit, LocalInv, LocalTypes, Punctual, RunStates, NoRun, Callers, Terminal
<1>2. LocalInv /\ [LocalNext]_localVars => LocalInv'
  <2> SUFFICES ASSUME LocalInv, [LocalNext]_localVars PROVE LocalInv'
    OBVIOUS
  <2>1. CASE \E r \in Runs : \/ \E who \in Callers : StartRun(r, who) \/ StartFails(r, who)
                             \/ Heartbeat(r) \/ Finish(r) \/ FinishFails(r) \/ CliCrash(r)
    BY <2>1, ProcessLocalInv
  <2>2. CASE \/ Tick \/ ServerCrash
             \/ \E c \in Callers : ReconcileWrite(c) \/ \E r \in Runs : ReconcileRead(c, r)
    BY <2>2, ListLocalInv
  <2>3. CASE \/ SyncApply \/ Connect \/ Deliver \/ LoadArrives \/ CancelTask \/ ReplyArrives
             \/ RestartServer \/ UNCHANGED localVars \/ \E r \in Runs : SyncRead(r)
    <3>1. UNCHANGED <<pc, disk, age, late, reading>>
      BY <2>3 DEF SyncApply, Connect, Deliver, LoadArrives, CancelTask, ReplyArrives, RestartServer,
                  SyncRead, localVars, disks
    <3> QED
      BY <3>1 DEF LocalInv, LocalTypes, Punctual
  <2> QED
    BY <2>1, <2>2, <2>3 DEF LocalNext, List, Latest, Callers
<1> QED
  BY <1>1, <1>2, PTL DEF LocalSpec

\* refreshHeartbeat, the terminal write and reconcileInterruptedLocalRun: the result of
\* a process that kept its heartbeat stays, and such a process is never declared
\* interrupted while it works.
THEOREM LocalResultKept == LocalSpec => []ResultKept
<1>1. LocalInv => ResultKept
  BY DEF LocalInv, Punctual, ResultKept, Running, Terminal
<1> QED
  BY <1>1, LocalInductive, PTL

=============================================================================
