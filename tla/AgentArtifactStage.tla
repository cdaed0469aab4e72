-------------------------- MODULE AgentArtifactStage -------------------------
(***************************************************************************)
(* runAgentArtifactStage (src/server/infrastructure/agent/                 *)
(* artifact-stage.ts) with TsciAgentClient.run (agent-client.ts) inside.   *)
(* Each attempt gets a workspace of its own, which may start from the      *)
(* candidate rejected before it; the agent runs there, retried by the      *)
(* client when the provider's transport fails; the server validates what   *)
(* it wrote, and either retains it as rejected and tries again with all    *)
(* diagnostics so far, or promotes the declared files, all at once.        *)
(*                                                                         *)
(* Each promotion is the subject of ArtifactPromotion, the agent's process *)
(* that of ProcessRunner.  An attempt stands for its diagnostic.           *)
(***************************************************************************)
EXTENDS Naturals

CONSTANTS
    Files,           \* the files promote publishes, in one Promise.all
    MaxAttempts,     \* max_artifact_attempts, clamped to 1..8
    MaxTransport,    \* the client's max_attempts, clamped to 1..6
    Reuse            \* reuse_rejected_artifacts !== false

ASSUME StageAssumption ==
    /\ MaxAttempts \in 1..8
    /\ MaxTransport \in 1..6
    /\ Reuse \in BOOLEAN

VARIABLES
    pc,         \* the await the stage stands at
    attempt,
    tries,      \* the client's attempt, 0 outside its run
    aborted,    \* signal.aborted
    live,       \* the attempts whose workspace exists
    leaked,     \* history: the attempts whose workspace could not be removed
    base,       \* the attempt the workspace was seeded from, 0 if none
    failures,   \* the attempts on failures, in order of their number
    retained,   \* the attempts whose candidate is under rejected-attempts/
    prompted,   \* the failures the agent was told of
    typed,      \* validate threw a PipelineError or a ProcessError
    file,       \* each promotion: idle, reading, writing, promoted, failed
    result      \* none, continue, or how the stage ends

progress == <<attempt, tries, base, failures, retained, prompted, typed>>
vars == <<pc, aborted, live, leaked, file, result, progress>>

Attempts == 1..MaxAttempts

Init ==
    /\ pc = "top"
    /\ attempt = 1
    /\ tries = 0
    /\ aborted = FALSE
    /\ live = {}
    /\ leaked = {}
    /\ base = 0
    /\ failures = {}
    /\ retained = {}
    /\ prompted = {}
    /\ typed = FALSE
    /\ file = [f \in Files |-> "idle"]
    /\ result = "none"

\* The finally block of the attempt follows.
Exit(r) == pc' = "dispose" /\ result' = r

-----------------------------------------------------------------------------
(* One attempt up to the agent *)

Begin ==
    /\ pc = "top"
    /\ IF aborted THEN pc' = "returned" /\ result' = "cancelled"
       ELSE pc' = "create" /\ UNCHANGED result
    /\ UNCHANGED <<aborted, live, leaked, file, progress>>

\* create_workspace removes what it made when it fails, and the stage ends.
CreateWorkspace ==
    /\ pc = "create"
    /\ \/ pc' = "seed" /\ live' = live \cup {attempt} /\ UNCHANGED result
       \/ pc' = "returned" /\ result' = "failed" /\ UNCHANGED live
    /\ UNCHANGED <<aborted, leaked, file, progress>>

\* The candidates the workspace may be seeded from: the one rejected just before,
\* if it was retained.
SeedSources ==
    IF Reuse THEN {a \in failures \cap retained : a = attempt - 1} ELSE {}

\* seedStageWorkspaceFromRejection finds nothing, or copies the candidate, of which a
\* write that fails leaves a part; then the signal is looked at and the prompt built.
Seed ==
    /\ pc = "seed"
    /\ base' \in SeedSources \cup {0}
    /\ IF aborted
       THEN Exit("cancelled") /\ UNCHANGED <<tries, prompted>>
       ELSE /\ pc' = "launch"
            /\ tries' = 1
            /\ prompted' = failures
            /\ UNCHANGED result
    /\ UNCHANGED <<aborted, live, leaked, file, attempt, failures, retained, typed>>

-----------------------------------------------------------------------------
(* TsciAgentClient.run *)

\* The process runner refuses to start after a cancellation.
Launch ==
    /\ pc = "launch"
    /\ IF aborted THEN Exit("process_failed") ELSE pc' = "agent" /\ UNCHANGED result
    /\ UNCHANGED <<aborted, live, leaked, file, progress>>

AgentSucceeds ==
    /\ pc = "agent"
    /\ IF aborted THEN Exit("cancelled") ELSE pc' = "validate" /\ UNCHANGED result
    /\ UNCHANGED <<aborted, live, leaked, file, progress>>

\* A failure that is not the transport's: exit, timeout, cancellation, observer.
AgentFails ==
    /\ pc = "agent"
    /\ Exit("process_failed")
    /\ UNCHANGED <<aborted, live, leaked, file, progress>>

\* The process exited with a transient transport failure in its output.
TransportFails ==
    /\ pc = "agent"
    /\ IF aborted THEN Exit("process_failed")
       ELSE IF tries >= MaxTransport THEN Exit("transport_failed")
       ELSE pc' = "backoff" /\ UNCHANGED result
    /\ UNCHANGED <<aborted, live, leaked, file, progress>>

\* Mutant of Backoff: the retries of the transport are not counted.
BackoffUncounted ==
    /\ pc = "backoff"
    /\ pc' = "launch"
    /\ UNCHANGED <<aborted, live, leaked, file, result, progress>>

\* waitForRetry ends, early if the signal is aborted.
Backoff ==
    /\ pc = "backoff"
    /\ pc' = "launch"
    /\ tries' = tries + 1
    /\ UNCHANGED <<aborted, live, leaked, file, result, attempt, base, failures,
                   retained, prompted, typed>>

-----------------------------------------------------------------------------
(* Validation and retention *)

Accept ==
    /\ pc = "validate"
    /\ IF aborted THEN Exit("cancelled") /\ UNCHANGED file
       ELSE /\ pc' = "promote"
            /\ file' = [f \in Files |-> "reading"]
            /\ UNCHANGED result
    /\ UNCHANGED <<aborted, live, leaked, progress>>

Reject ==
    /\ pc = "validate"
    /\ typed' \in BOOLEAN
    /\ IF aborted THEN Exit("cancelled") ELSE pc' = "retain" /\ UNCHANGED result
    /\ UNCHANGED <<aborted, live, leaked, file, attempt, tries, base, failures, retained, prompted>>

\* Mutant of Retain: an attempt that could not be retained is not remembered.
RetainForgets ==
    /\ pc = "retain"
    /\ \/ retained' = retained \cup {attempt} /\ failures' = failures \cup {attempt}
       \/ UNCHANGED <<retained, failures>>
    /\ Exit(IF aborted THEN "cancelled"
            ELSE IF typed THEN "typed_failure"
            ELSE IF attempt >= MaxAttempts THEN "artifact_invalid" ELSE "continue")
    /\ UNCHANGED <<aborted, live, leaked, file, attempt, tries, base, prompted, typed>>

\* Mutant of Retain: the signal is not looked at after the retention.
RetainMasks ==
    /\ pc = "retain"
    /\ retained' \in {retained, retained \cup {attempt}}
    /\ failures' = failures \cup {attempt}
    /\ Exit(IF typed THEN "typed_failure"
            ELSE IF attempt >= MaxAttempts THEN "artifact_invalid" ELSE "continue")
    /\ UNCHANGED <<aborted, live, leaked, file, attempt, tries, base, prompted, typed>>

\* retainAttemptFailure: the candidate is retained whole, by a rename, or not at all;
\* the failure is remembered either way.
Retain ==
    /\ pc = "retain"
    /\ retained' \in {retained, retained \cup {attempt}}
    /\ failures' = failures \cup {attempt}
    /\ Exit(IF aborted THEN "cancelled"
            ELSE IF typed THEN "typed_failure"
            ELSE IF attempt >= MaxAttempts THEN "artifact_invalid" ELSE "continue")
    /\ UNCHANGED <<aborted, live, leaked, file, attempt, tries, base, prompted, typed>>

-----------------------------------------------------------------------------
(* Promotion: the files run on their own, also when the stage no longer waits. *)

\* The candidate's bytes are read, unless the workspace is already gone.
ReadFile(f) ==
    /\ file[f] = "reading"
    /\ \/ attempt \in live /\ ~aborted /\ file' = [file EXCEPT ![f] = "writing"]
       \/ file' = [file EXCEPT ![f] = "failed"]
    /\ UNCHANGED <<pc, aborted, live, leaked, result, progress>>

WriteFile(f) ==
    /\ file[f] = "writing"
    /\ \/ ~aborted /\ file' = [file EXCEPT ![f] = "promoted"]
       \/ file' = [file EXCEPT ![f] = "failed"]
    /\ UNCHANGED <<pc, aborted, live, leaked, result, progress>>

\* Promise.all is fulfilled; what promote does after it may still fail.
PromotionSucceeds ==
    /\ pc = "promote"
    /\ \A f \in Files : file[f] = "promoted"
    /\ Exit("ok") \/ Exit("promotion_failed")
    /\ UNCHANGED <<aborted, live, leaked, file, progress>>

\* Mutant of PromotionFails: a failed promotion is retried like a rejection.
PromotionFailsRetries ==
    /\ pc = "promote"
    /\ \E f \in Files : file[f] = "failed"
    /\ Exit(IF attempt < MaxAttempts THEN "continue" ELSE "promotion_failed")
    /\ UNCHANGED <<aborted, live, leaked, file, progress>>

\* Promise.all is rejected by the first promotion that fails: the others go on.
PromotionFails ==
    /\ pc = "promote"
    /\ \E f \in Files : file[f] = "failed"
    /\ Exit("promotion_failed") \/ (aborted /\ Exit("cancelled"))
    /\ UNCHANGED <<aborted, live, leaked, file, progress>>

\* Mutant of Dispose: only the last workspace is removed.
DisposeLast ==
    /\ pc = "dispose"
    /\ IF result = "continue" THEN UNCHANGED live ELSE live' = live \ {attempt}
    /\ UNCHANGED leaked
    /\ IF result = "continue"
       THEN pc' = "top" /\ result' = "none" /\ attempt' = attempt + 1 /\ base' = 0 /\ tries' = 0
       ELSE pc' = "returned" /\ UNCHANGED <<result, attempt, base, tries>>
    /\ UNCHANGED <<aborted, file, failures, retained, prompted, typed>>

\* The finally block; a workspace that cannot be removed is only logged.
Dispose ==
    /\ pc = "dispose"
    /\ \/ live' = live \ {attempt} /\ UNCHANGED leaked
       \/ leaked' = leaked \cup {attempt} /\ UNCHANGED live
    /\ IF result = "continue"
       THEN pc' = "top" /\ result' = "none" /\ attempt' = attempt + 1 /\ base' = 0 /\ tries' = 0
       ELSE pc' = "returned" /\ UNCHANGED <<result, attempt, base, tries>>
    /\ UNCHANGED <<aborted, file, failures, retained, prompted, typed>>

Abort ==
    /\ ~aborted
    /\ aborted' = TRUE
    /\ UNCHANGED <<pc, live, leaked, file, result, progress>>

Stage ==
    \/ Begin \/ CreateWorkspace \/ Seed \/ Launch
    \/ AgentSucceeds \/ AgentFails \/ TransportFails \/ Backoff
    \/ Accept \/ Reject \/ Retain
    \/ PromotionSucceeds \/ PromotionFails \/ Dispose

Promoting(f) == ReadFile(f) \/ WriteFile(f)

Next == Stage \/ Abort \/ \E f \in Files : Promoting(f)

Spec == Init /\ [][Next]_vars

\* Awaited file operations return, and so does the agent's process, whatever it does
\* (ProcessRunner); nothing makes the signal fire.
FairSpec ==
    /\ Spec
    /\ WF_vars(Stage)
    /\ \A f \in Files : WF_vars(Promoting(f))

-----------------------------------------------------------------------------
TypeOK ==
    /\ pc \in {"top", "create", "seed", "launch", "agent", "backoff", "validate", "retain",
               "promote", "dispose", "returned"}
    /\ attempt \in Attempts
    /\ tries \in 0..MaxTransport
    /\ base \in 0..MaxAttempts
    /\ aborted \in BOOLEAN
    /\ typed \in BOOLEAN
    /\ live \subseteq Attempts
    /\ leaked \subseteq Attempts
    /\ retained \subseteq failures
    /\ file \in [Files -> {"idle", "reading", "writing", "promoted", "failed"}]
    /\ result \in {"none", "continue", "ok", "cancelled", "failed", "process_failed",
                   "transport_failed", "typed_failure", "artifact_invalid", "promotion_failed"}

\* Nothing of a rejected attempt is promoted: once a promotion has begun, its attempt
\* is neither rejected nor followed by another, so a promotion the stage no longer
\* waits for cannot mix with a later candidate (artifact-stage.ts:270-351).
RejectedNotPromoted ==
    (\E f \in Files : file[f] # "idle") =>
        attempt \notin failures /\ pc \in {"promote", "dispose", "returned"} /\ result # "continue"

\* The agent is told of every attempt before its own, whether or not its candidate
\* could be retained, so also why the candidate it starts from was rejected
\* (artifact-stage.ts:149, 256: cumulativeFeedback).
FeedbackIsCumulative ==
    pc \in {"launch", "agent", "backoff", "validate"} =>
        prompted = 1..(attempt - 1) /\ base \in prompted \cup {0}

\* An attempt is rejected or promoted, never both, and the next one knows of it.
RejectionIsFinal == RejectedNotPromoted /\ FeedbackIsCumulative

\* The stage comes to an end, and nothing of it goes on after that for ever: both
\* retry loops are bounded although each rejection and each transport failure may be
\* followed by another, and the promotions the stage no longer waits for end too
\* (artifact-stage.ts:220-363, agent-client.ts:91-182).
StageReturns ==
    <>[](pc = "returned" /\ \A f \in Files : file[f] \notin {"reading", "writing"})

\* No workspace outlives its attempt but those whose removal failed
\* (artifact-stage.ts:352-362).
WorkspacesDisposed ==
    live \subseteq leaked \cup (IF pc \in {"top", "returned"} THEN {} ELSE {attempt})

\* A cancellation that arrives while a rejected candidate is retained is not replaced
\* with an artifact-invalid or typed result (artifact-stage.ts:286-289).
CancellationPreserved ==
    [][result' \in {"artifact_invalid", "typed_failure", "continue"} /\ result' # result
          => ~aborted]_vars

==============================================================================
