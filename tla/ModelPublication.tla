--------------------------- MODULE ModelPublication ---------------------------
(***************************************************************************)
(* The publication of a validated model: the publish stage of the model    *)
(* pipeline (src/server/model-workflow/stages/publish-model.ts), which     *)
(* prepares two immutable bundles and then switches one pointer file to    *)
(* them; the readers of the pointer (src/server/modeling/                  *)
(* model-publication); and the restart (src/server/job-restorer/           *)
(* restore-model-directory.ts), which rebuilds a model run from its        *)
(* checkpoint and the pointer.                                             *)
(*                                                                         *)
(* The server and a command line run on the same job are two processes     *)
(* with a store each: nothing but the job's directory is common to them.   *)
(* Any file operation may fail, any process may be killed between two      *)
(* steps, power may be lost, and a bundle may be damaged on the disk.      *)
(* Every invocation draws a generation of its own (publication_id and      *)
(* invocation_id are fresh UUIDs).                                         *)
(***************************************************************************)
EXTENDS Integers

CONSTANTS
    Process,        \* the processes that have the job open
    Reader,         \* requests for the published files
    MaxGeneration,  \* bound: invocations
    MaxFaults,      \* bound: kills, losses of power and damaged bundles together
    BaseKept        \* component.circuit.tsx exists; workspaces of old versions have none

ASSUME PublicationAssumption == MaxGeneration \in Nat /\ MaxFaults \in Nat /\ BaseKept \in BOOLEAN

None == 0
Generation == 1 .. MaxGeneration

\* Answers other than a generation, and the outcome of a read that fails.
Base == -1
Error == -2
Invalid == -3

VARIABLES
    (* the job's directory *)
    pointer,      \* the generation published-model.json selects
    safe,         \* the generation it selects after a loss of power
    accepted,     \* spice/accepted-revisions/<snapshot>: absent, whole, damaged
    published,    \* published-models/<snapshot>: absent, whole, damaged
    rootLib,      \* generation of the legacy mirror spice/model.lib
    rootIndex,    \* generation of the legacy mirror index.circuit.tsx, None: the base
    checkpoint,   \* spice/model-run.json
    faults,       \* faults so far
    drawn,        \* generations drawn so far
    history,      \* history variable: the generations the pointer ever selected
    (* a process *)
    pc,           \* where its publish stage stands
    gen,          \* the generation of its invocation
    aborted,      \* signal.aborted
    saved,        \* the checkpoint its restore has read
    run,          \* its live record of the model run
    (* a request *)
    at,           \* look, validate, fetch, done
    seen,         \* the generation the pointer selected when it looked
    answer        \* a generation, Base, Error, None: not answered

directory == <<pointer, safe, accepted, published, rootLib, rootIndex,
               checkpoint, faults, drawn, history>>
process == <<pc, gen, aborted, saved, run>>
reader == <<at, seen, answer>>
vars == <<directory, process, reader>>

\* A model run as far as the publication goes: publish is the status of the
\* publish stage in its pipeline snapshot, model the accepted model it shows.
Record(status, invocation, publish, model) ==
    [status |-> status, invocation |-> invocation, publish |-> publish, model |-> model]

Fresh == Record("absent", None, "pending", None)

Init ==
    /\ pointer = None /\ safe = None
    /\ accepted = [g \in Generation |-> "absent"]
    /\ published = [g \in Generation |-> "absent"]
    /\ rootLib = None /\ rootIndex = None
    /\ checkpoint = Fresh
    /\ faults = 0 /\ drawn = 0 /\ history = {}
    /\ pc = [p \in Process |-> "idle"]
    /\ gen = [p \in Process |-> None]
    /\ aborted = [p \in Process |-> FALSE]
    /\ saved = [p \in Process |-> Fresh]
    /\ run = [p \in Process |-> Fresh]
    /\ at = [r \in Reader |-> "look"]
    /\ seen = [r \in Reader |-> None]
    /\ answer = [r \in Reader |-> None]

-----------------------------------------------------------------------------
(* Reading the publication *)

\* validatePublicationBundle: the bundle holds exactly the files of its manifest, each
\* with its hash, and the manifest has the hash the commit names.
WholeBundle(bundle) == bundle = "whole"

\* validateResolvedModelPublication: both bundles are whole, and they agree with each
\* other and with the commit.
Readable(g) == WholeBundle(accepted[g]) /\ WholeBundle(published[g])

\* readModelPublication, from the generation the pointer file named when it was read.
Resolve(g) == IF g = None THEN None ELSE IF Readable(g) THEN g ELSE Invalid

\* modelCheckpointRequiresPublicationPointer
RequiresPointer(record) == record.publish = "completed"

-----------------------------------------------------------------------------
(* The publish stage *)

Goto(p, label) == pc' = [pc EXCEPT ![p] = label]

Kept(p) == UNCHANGED <<gen, aborted, saved, run>>

\* What the repair stage hands over: whether the result passed, whether the
\* manifest derives from contract and model, which hashes of the result are those
\* of the files, whether the contract binds a stimulus and which causality receipt
\* the result carries.
Handover == [passed : BOOLEAN, manifest : BOOLEAN, hashes : SUBSET {"plan", "model", "manifest"},
             bound : BOOLEAN, receipt : {"absent", "passed", "stale"}]

\* parsePassedResult: every case and series passed, and a receipt exactly when the
\* contract binds a stimulus, of the very inputs the result names.
ParsePassedResult(a) == a.passed /\ a.receipt = (IF a.bound THEN "passed" ELSE "absent")

\* validateModelCompletionIntegrity
CompletionIntegrity(a) ==
    /\ a.manifest
    /\ ParsePassedResult(a)
    /\ a.hashes = {"plan", "model", "manifest"}

Verdicts == {CompletionIntegrity(a) : a \in Handover}

\* Mutant: the candidate is shown as the accepted model.
Start_Shows(p) ==
    /\ pc[p] = "idle" /\ run[p].status # "running" /\ drawn < MaxGeneration
    /\ drawn' = drawn + 1
    /\ Goto(p, "repaired")
    /\ gen' = [gen EXCEPT ![p] = drawn + 1]
    /\ run' = [run EXCEPT ![p] = Record("running", drawn + 1, "pending", drawn + 1)]
    /\ checkpoint' = run'[p]
    /\ UNCHANGED <<pointer, safe, accepted, published, rootLib, rootIndex, faults,
                   history, aborted, saved, reader>>

\* startSegment and the new invocation id; an earlier accepted model stays shown.
Start(p) ==
    /\ pc[p] = "idle" /\ run[p].status # "running" /\ drawn < MaxGeneration
    /\ drawn' = drawn + 1
    /\ Goto(p, "repaired")
    /\ gen' = [gen EXCEPT ![p] = drawn + 1]
    /\ run' = [run EXCEPT ![p] = Record("running", drawn + 1, "pending", @.model)]
    /\ checkpoint' = run'[p]
    /\ UNCHANGED <<pointer, safe, accepted, published, rootLib, rootIndex, faults,
                   history, aborted, saved, reader>>

\* The handover is read, its integrity required, the wrapper built and every viewer
\* graph checked; an abort is seen before anything is prepared.
ReadInputs(p) ==
    /\ pc[p] = "repaired"
    /\ \/ Goto(p, "skipped")                                  \* the repair did not pass
       \/ Goto(p, "failed")                                   \* an artifact, a build or a check failed
       \/ \E valid \in Verdicts : Goto(p, IF valid /\ ~aborted[p] THEN "prepare" ELSE "failed")
    /\ Kept(p) /\ UNCHANGED <<directory, reader>>

\* prepareModelPublication up to the promotions: the fixture is compiled again, the
\* case set and the references are checked again, both bundles are built in a
\* temporary workspace and sealed with their manifests.
Prepare(p) ==
    /\ pc[p] = "prepare"
    /\ \/ Goto(p, "failed")
       \/ ~aborted[p] /\ Goto(p, "promote")
    /\ Kept(p) /\ UNCHANGED <<directory, reader>>

\* The two promoteStageDirectory calls under Promise.allSettled: each may fail.
Promote(p) ==
    /\ pc[p] = "promote"
    /\ \E one, other \in BOOLEAN :
         /\ accepted' = [accepted EXCEPT ![gen[p]] = IF one THEN "whole" ELSE @]
         /\ published' = [published EXCEPT ![gen[p]] = IF other THEN "whole" ELSE @]
         /\ Goto(p, IF one /\ other THEN "prepared" ELSE "unpromote")
    /\ Kept(p)
    /\ UNCHANGED <<pointer, safe, rootLib, rootIndex, checkpoint, faults, drawn, history, reader>>

\* Mutant: the parent directories go.
RemoveBundles_All(g) ==
    /\ accepted' = [h \in Generation |-> "absent"]
    /\ published' = [h \in Generation |-> "absent"]
    /\ UNCHANGED <<pointer, safe, rootLib, rootIndex, checkpoint, faults, drawn, history>>

\* rm of both bundles of generation g, either of which may fail unnoticed.
RemoveBundles(g) ==
    /\ accepted' \in {accepted, [accepted EXCEPT ![g] = "absent"]}
    /\ published' \in {published, [published EXCEPT ![g] = "absent"]}
    /\ UNCHANGED <<pointer, safe, rootLib, rootIndex, checkpoint, faults, drawn, history>>

\* One failure takes both bundles away again.
Unpromote(p) ==
    /\ pc[p] = "unpromote"
    /\ RemoveBundles(gen[p])
    /\ Goto(p, "failed")
    /\ Kept(p) /\ UNCHANGED reader

\* The artifacts are hashed, the workspace is disposed of, and the abort is looked
\* at again here and at the entry of commitPreparedModelPublication.
HashArtifacts(p) ==
    /\ pc[p] = "prepared"
    /\ \/ Goto(p, "discard")
       \/ ~aborted[p] /\ Goto(p, "validate")
    /\ Kept(p) /\ UNCHANGED <<directory, reader>>

\* assertCurrentPublicationIdentity, from the store of this process.
CurrentIdentity(p) == run[p].invocation = gen[p]

\* The prepared bundles are validated as a reader would; nine artifacts are read
\* back and compared with what the stage holds.
ValidatePrepared(p) ==
    /\ pc[p] = "validate"
    /\ Goto(p, IF Readable(gen[p]) /\ CurrentIdentity(p) THEN "commit" ELSE "discard")
    /\ Kept(p) /\ UNCHANGED <<directory, reader>>

\* commitModelPublication and the projections, in one piece without an await.  The
\* rename is visible at once; the sync of the directory or the write of the
\* checkpoint may fail, which is a warning.
Commit(p) ==
    /\ pc[p] = "commit" /\ ~aborted[p] /\ CurrentIdentity(p)
    /\ pointer' = gen[p]
    /\ safe' \in {safe, gen[p]}
    /\ history' = history \cup {gen[p]}
    /\ run' = [run EXCEPT ![p] = Record(@.status, @.invocation, @.publish, gen[p])]
    /\ checkpoint' \in {checkpoint, run'[p]}
    /\ Goto(p, "mirror")
    /\ UNCHANGED <<accepted, published, rootLib, rootIndex, faults, drawn,
                   gen, aborted, saved, reader>>

\* The signal, the identity or the write of the pointer throws.
CommitRefused(p) ==
    /\ pc[p] = "commit"
    /\ Goto(p, "discard")
    /\ Kept(p) /\ UNCHANGED <<directory, reader>>

\* Mutant: Promise.all, so that a failed mirror rejects the commit.
Mirror_All(p) ==
    /\ pc[p] = "mirror"
    /\ rootLib' \in {rootLib, gen[p]}
    /\ rootIndex' \in {rootIndex, gen[p]}
    /\ Goto(p, IF rootLib' = gen[p] THEN "committed" ELSE "discard")
    /\ Kept(p)
    /\ UNCHANGED <<pointer, safe, accepted, published, checkpoint, faults, drawn, history, reader>>

\* The legacy mirrors under Promise.allSettled; a failure is a warning.
Mirror(p) ==
    /\ pc[p] = "mirror"
    /\ rootLib' \in {rootLib, gen[p]}
    /\ rootIndex' \in {rootIndex, gen[p]}
    /\ Goto(p, "committed")
    /\ Kept(p)
    /\ UNCHANGED <<pointer, safe, accepted, published, checkpoint, faults, drawn, history, reader>>

\* discardPreparedModelPublication reads the pointer: the generation it selects, and
\* every one while it cannot be read, is preserved.
DiscardLook(p) ==
    /\ pc[p] = "discard"
    /\ Goto(p, IF Resolve(pointer) \in {gen[p], Invalid} THEN "failed" ELSE "remove")
    /\ Kept(p) /\ UNCHANGED <<directory, reader>>

DiscardRemove(p) ==
    /\ pc[p] = "remove"
    /\ RemoveBundles(gen[p])
    /\ Goto(p, "failed")
    /\ Kept(p) /\ UNCHANGED reader

-----------------------------------------------------------------------------
(* The end of the invocation: run-model.ts *)

\* The next invocation starts from a new controller.
Released(p) ==
    /\ aborted' = [aborted EXCEPT ![p] = FALSE]

\* finishCommittedSegment keeps the live outcome when its checkpoint cannot be written.
FinishCommitted(p) ==
    /\ pc[p] = "committed"
    /\ run' = [run EXCEPT ![p] = Record("complete", @.invocation, "completed", @.model)]
    /\ checkpoint' \in {checkpoint, run'[p]}
    /\ Released(p) /\ Goto(p, "idle")
    /\ UNCHANGED <<pointer, safe, accepted, published, rootLib, rootIndex, faults,
                   drawn, history, gen, saved, reader>>

\* finishSegment of an invocation that published nothing.
FinishUncommitted(p) ==
    /\ pc[p] \in {"skipped", "failed"}
    /\ LET status == IF pc[p] = "skipped" THEN "complete"
                     ELSE IF aborted[p] THEN "cancelled" ELSE "failed"
       IN run' = [run EXCEPT ![p] = Record(status, @.invocation, @.publish, @.model)]
    /\ checkpoint' = run'[p]
    /\ Released(p) /\ Goto(p, "idle")
    /\ UNCHANGED <<pointer, safe, accepted, published, rootLib, rootIndex, faults,
                   drawn, history, gen, saved, reader>>

\* A cancellation, at any time.
Cancel(p) ==
    /\ run[p].status = "running" /\ ~aborted[p]
    /\ aborted' = [aborted EXCEPT ![p] = TRUE]
    /\ UNCHANGED <<directory, pc, gen, saved, run, reader>>

-----------------------------------------------------------------------------
(* Faults *)

Forgotten(p) ==
    /\ gen' = [gen EXCEPT ![p] = None]
    /\ aborted' = [aborted EXCEPT ![p] = FALSE]
    /\ saved' = [saved EXCEPT ![p] = Fresh]
    /\ run' = [run EXCEPT ![p] = Fresh]

\* The server is stopped, or a command line run ends.
Crash(p) ==
    /\ pc[p] # "down" /\ faults < MaxFaults
    /\ faults' = faults + 1
    /\ Goto(p, "down") /\ Forgotten(p)
    /\ UNCHANGED <<pointer, safe, accepted, published, rootLib, rootIndex, checkpoint, drawn,
                   history, reader>>

PowerLoss ==
    /\ faults < MaxFaults
    /\ faults' = faults + 1
    /\ pointer' \in {pointer, safe}
    /\ safe' = pointer'
    /\ pc' = [p \in Process |-> "down"]
    /\ gen' = [p \in Process |-> None]
    /\ aborted' = [p \in Process |-> FALSE]
    /\ saved' = [p \in Process |-> Fresh]
    /\ run' = [p \in Process |-> Fresh]
    /\ at' = [r \in Reader |-> "done"]
    /\ UNCHANGED <<accepted, published, rootLib, rootIndex, checkpoint, drawn, history, seen, answer>>

Damage ==
    /\ faults < MaxFaults
    /\ faults' = faults + 1
    /\ \E g \in Generation :
         \/ accepted[g] = "whole" /\ accepted' = [accepted EXCEPT ![g] = "damaged"] /\ UNCHANGED published
         \/ published[g] = "whole" /\ published' = [published EXCEPT ![g] = "damaged"] /\ UNCHANGED accepted
    /\ UNCHANGED <<pointer, safe, rootLib, rootIndex, checkpoint, drawn, history, process, reader>>

-----------------------------------------------------------------------------
(* The restart *)

\* restorePublicationIntegrityFailure: what cannot be verified is not shown.
IntegrityFailure(c) == Record("failed", c.invocation, c.publish, None)

\* The run as restoreModelDirectory rebuilds it from the checkpoint c and the
\* publication pub it has read.
Restored(c, pub) ==
    LET known == c.status # "absent"
        matches == pub # None /\ c.invocation = pub
        recovered == pub # None /\ (~known \/ matches \/ c.invocation = None)
        uncommitted == pub # None /\ known /\ c.status = "complete" /\ c.invocation # None /\ ~matches
        partial == c.status = "complete" /\ c.publish # "completed"
        status == IF uncommitted THEN "failed"
                  ELSE IF recovered THEN "complete"
                  ELSE IF c.status \in {"running", "absent"} THEN "failed"
                  ELSE c.status
        model == IF partial THEN None
                 ELSE IF pub # None THEN pub
                 ELSE IF rootLib # None THEN rootLib ELSE c.model
    IN  IF pub = Invalid \/ (pub = None /\ RequiresPointer(c))
        THEN IntegrityFailure(c)
        ELSE Record(status, IF recovered THEN pub ELSE c.invocation, c.publish, model)

\* The checkpoint is read before the pointer is.
RestoreRead(p) ==
    /\ pc[p] = "down"
    /\ saved' = [saved EXCEPT ![p] = checkpoint]
    /\ Goto(p, "restore")
    /\ UNCHANGED <<directory, gen, aborted, run, reader>>

\* The publication is resolved, the accepted files are read through it, and the
\* record is put into the store.  Without a checkpoint an invalid publication
\* restores nothing.
Restore(p) ==
    /\ pc[p] = "restore"
    /\ LET pub == Resolve(pointer)
           absent == saved[p].status = "absent"
       IN run' = [run EXCEPT ![p] =
                    IF absent /\ (pub = Invalid \/ (pub = None /\ rootLib = None)) THEN Fresh
                    ELSE Restored(saved[p], pub)]
    /\ saved' = [saved EXCEPT ![p] = Fresh]
    /\ Goto(p, "idle")
    /\ UNCHANGED <<directory, gen, aborted, reader>>

-----------------------------------------------------------------------------
(* Requests: resolve-job-file-artifact.ts, create-job-download-package.ts,  *)
(* get-model-run-file.ts                                                     *)

Kind == {"component", "package", "model"}

Answered(r, value) ==
    /\ at' = [at EXCEPT ![r] = "done"]
    /\ answer' = [answer EXCEPT ![r] = value]
    /\ UNCHANGED seen

\* readBaseComponentSource: the preserved base, or in a workspace that never had one
\* the root index, which may be a mirror, unless a publication failed to verify.
BaseSource(allowIndex) ==
    IF BaseKept THEN Base
    ELSE IF allowIndex THEN (IF rootIndex = None THEN Base ELSE rootIndex)
    ELSE Error

\* The pointer file is read.
Look(r) ==
    /\ at[r] = "look"
    /\ at' = [at EXCEPT ![r] = "validate"]
    /\ seen' = [seen EXCEPT ![r] = pointer]
    /\ UNCHANGED <<directory, process, answer>>

\* What a request of each kind is answered when no publication was found: the
\* package and the component are the base, the model is the legacy root file unless
\* the record says that there must be a publication.
WithoutPublication(k) ==
    IF k # "model" THEN {BaseSource(TRUE)}
    ELSE {IF RequiresPointer(run[p]) \/ rootLib = None THEN Error ELSE rootLib :
            p \in {q \in Process : pc[q] # "down"}}

\* Mutant: the root index stands in for a publication that does not verify.
WithInvalidPublication_Index(k) == IF k = "component" THEN BaseSource(TRUE) ELSE Error

\* Only the component falls back on its base when a publication does not verify.
WithInvalidPublication(k) == IF k = "component" THEN BaseSource(FALSE) ELSE Error

\* The publication it selects is validated as a whole.
Validate(r) ==
    /\ at[r] = "validate"
    /\ \E k \in Kind :
         LET pub == Resolve(seen[r]) IN
         IF pub = None THEN \E a \in WithoutPublication(k) : Answered(r, a)
         ELSE IF pub = Invalid THEN Answered(r, WithInvalidPublication(k))
         ELSE at' = [at EXCEPT ![r] = "fetch"] /\ UNCHANGED <<seen, answer>>
    /\ UNCHANGED <<directory, process>>

\* readVerifiedPublicationArtifact: every file is hashed again when it is served.
Fetch(r) ==
    /\ at[r] = "fetch"
    /\ \E k \in Kind :
         LET bundle == IF k = "model" THEN accepted ELSE published
             g == seen[r]
         IN Answered(r, IF bundle[g] = "whole" THEN g ELSE WithInvalidPublication(k))
    /\ UNCHANGED <<directory, process>>

-----------------------------------------------------------------------------
Stage(p) ==
    \/ Start(p) \/ ReadInputs(p) \/ Prepare(p) \/ Promote(p) \/ Unpromote(p) \/ HashArtifacts(p)
    \/ ValidatePrepared(p) \/ Commit(p) \/ CommitRefused(p) \/ Mirror(p) \/ DiscardLook(p)
    \/ DiscardRemove(p) \/ FinishCommitted(p) \/ FinishUncommitted(p)

Next ==
    \/ \E p \in Process : Stage(p) \/ Cancel(p) \/ Crash(p) \/ RestoreRead(p) \/ Restore(p)
    \/ \E r \in Reader : Look(r) \/ Validate(r) \/ Fetch(r)
    \/ PowerLoss \/ Damage

Spec == Init /\ [][Next]_vars

-----------------------------------------------------------------------------
(* Properties *)

\* A bundle that was ever selected is never removed, neither by the clean-up of a
\* failed invocation nor by that of a concurrent one (publication-prepare.ts:354):
\* a request that has looked at the pointer finds the files it names.
AcceptedNeverDeleted ==
    \A g \in history : accepted[g] # "absent" /\ published[g] # "absent"

\* An invocation ends as published exactly when the pointer was switched to it:
\* what is cancelled after the switch stays published, what failed before it was
\* never visible (publish-model.ts:183-219, run-model.ts:172).  And no record, in a
\* store or on the disk, calls a publication complete or shows a model that was
\* never accepted, whatever was killed, lost or damaged in between
\* (restore-model-directory.ts:360-400).
RecordsAreHonest ==
    /\ \A p \in Process :
          pc[p] = "idle" /\ gen[p] # None =>
            (run[p].publish = "completed" <=> gen[p] \in history)
    /\ \A c \in {checkpoint} \cup {run[p] : p \in Process} :
          /\ c.model \in history \cup {None}
          /\ c.status = "complete" /\ c.publish = "completed" => c.invocation \in history

Register == INSTANCE PublicationRegister WITH
    current <- pointer,
    Refusal <- {Base, Error},
    asked <- seen

\* The publication implements the register: acceptance is one step, and every
\* answer is the generation the request saw, or a refusal (commit.ts:23,
\* reader.ts:35, artifact-reader.ts:63).
RefinesRegister == Register!Spec
=============================================================================
