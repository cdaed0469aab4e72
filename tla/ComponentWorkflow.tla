-------------------------- MODULE ComponentWorkflow --------------------------
(***************************************************************************)
(* The component and the application pipeline of one job                   *)
(* (src/server/component-workflow): what their stages read from and write  *)
(* to the job's directory and its record, while both run at the same time. *)
(* The component pipeline extracts evidence, commits it, generates a       *)
(* candidate, builds and validates it once per footprint, repairs it and   *)
(* publishes two files; the application pipeline waits for these two       *)
(* files, plans, generates, builds, validates, repairs and publishes.      *)
(*                                                                         *)
(* A file written with Bun.write is truncated first and whole later; a     *)
(* promoted file or a renamed marker changes in one step.  The server may  *)
(* stop between any two steps; the restart (src/server/job-restorer/       *)
(* restore-job-directory.ts) rebuilds the record from job.json and the     *)
(* directory.  Either pipeline may be run again in place by a local run.   *)
(* The job's model run takes the published component and publishes it with *)
(* a model (ModelWorkflow, ModelPublication): here only what that reads    *)
(* and writes of the job is modelled.                                      *)
(* Candidates, drafts and evidence revisions are numbered in the order in  *)
(* which they are made; which of them is valid is a free choice.           *)
(***************************************************************************)
EXTENDS Naturals, FiniteSets

CONSTANTS
    MaxRepairs,    \* repairs of a source in one run (2)
    MaxRuns,       \* bound: runs of each pipeline
    MaxCandidate,  \* bound: component sources generated
    MaxDraft,      \* bound: application sources generated
    MaxCrashes,    \* bound: stops of the server
    MaxModels      \* bound: publications of the component with a model

ASSUME WorkflowAssumption ==
    {MaxRepairs, MaxRuns, MaxCandidate, MaxDraft, MaxCrashes, MaxModels} \subseteq Nat

None == 0
Partial == MaxCandidate + MaxModels + 1     \* a truncated or half-written file

Pipeline == {"component", "application"}
Footprint == {"default", "variant"}
File == {"source", "json"}      \* component.circuit.tsx and component.circuit.json

VARIABLES
    (* the job's directory *)
    marker,     \* the evidence revision each commit marker selects
    dirs,       \* the evidence revisions that are whole
    index,      \* candidate in index.circuit.tsx
    dist,       \* candidate whose Circuit JSON is in dist/index
    built,      \* component-build.json: candidate, and whether it built
    validation, \* component-validation.json and the variants': candidate, footprints that fail
    published,  \* the two files of the published component
    catalog,    \* application evidence application-plan-catalog.json was made from
    appSource,  \* draft in the application's source file
    appBuild,   \* the application's build result: draft, built or not
    appResult,  \* the application's validation record: draft, passed or not
    (* the record, saved to job.json at every update *)
    record,
    (* the two runs *)
    pc, runs, aborted, repairs,
    pending,    \* the published pair publish_component holds in memory
    seen,       \* the pair of the files the wait recorded
    checked,    \* files the wait has read, or the generation has compared
    (* bounds and history *)
    candidates, drafts, crashes,
    passed,     \* candidates that passed with every footprint
    approved,   \* drafts that passed
    preview,    \* the record shows a candidate that is not (yet) published
    overlap,    \* the generation compared its input during or after a torn publication
    stopped,    \* where a draft stands whose run stopped before its validation: directory, record
    (* the model run *)
    model,      \* how far it is, and the component source it captured
    bundle,     \* candidate of the component in the committed model publication
    models,     \* bound
    crossed     \* history: its wrapper replaced a source that was built and not yet published

disk == <<marker, dirs, index, dist, built, validation, published>>
appDisk == <<catalog, appSource, appBuild, appResult>>
history == <<candidates, drafts, crashes, passed, approved, preview, overlap, stopped>>
modelVars == <<model, bundle, models, crossed>>
vars == <<modelVars, disk, appDisk, record, pc, runs, aborted, repairs, pending, seen, checked, history>>

Pair(v) == [f \in File |-> v]
NoModel == [at |-> "none", source |-> None]

Init ==
    /\ marker = [p \in Pipeline |-> None] /\ dirs = [p \in Pipeline |-> {}]
    /\ index = None /\ dist = None
    /\ built = [candidate |-> None, ok |-> FALSE]
    /\ validation = [candidate |-> None, failing |-> Footprint]
    /\ published = Pair(None)
    /\ catalog = None /\ appSource = None
    /\ appBuild = [draft |-> None, ok |-> FALSE]
    /\ appResult = [draft |-> None, passed |-> FALSE]
    /\ record = [status |-> "active", ready |-> FALSE, code |-> None, circuit |-> None,
                 component |-> "pending", application |-> "pending",
                 shown |-> None, shownJson |-> None,
                 pipelines |-> [p \in Pipeline |-> "none"]]
    /\ pc = [p \in Pipeline |-> "idle"] /\ runs = [p \in Pipeline |-> 0]
    /\ aborted = FALSE /\ repairs = [p \in Pipeline |-> 0]
    /\ pending = Pair(None) /\ seen = Pair(None) /\ checked = {}
    /\ candidates = 0 /\ drafts = 0 /\ crashes = 0
    /\ passed = {} /\ approved = {}
    /\ preview = FALSE /\ overlap = FALSE /\ stopped = {}
    /\ model = NoModel /\ bundle = None /\ models = 0 /\ crossed = FALSE

-----------------------------------------------------------------------------
(* Steps common to both pipelines *)

\* A stage of pipeline p at `from` starts: runPipeline starts none once the signal
\* is aborted.
Stage(p, from, to) ==
    /\ pc[p] = from /\ ~aborted
    /\ pc' = [pc EXCEPT ![p] = to]
    /\ UNCHANGED <<runs, aborted, crashes>>

\* runJob: both pipelines of a new job start together.
StartJob ==
    /\ \A p \in Pipeline : pc[p] = "idle" /\ runs[p] = 0
    /\ pc' = [p \in Pipeline |-> "extract"]
    /\ runs' = [p \in Pipeline |-> 1]
    /\ record' = [record EXCEPT !.status = "active", !.component = "pending", !.application = "pending",
                                !.pipelines = [p \in Pipeline |-> "running"]]
    /\ UNCHANGED <<disk, appDisk, aborted, repairs, pending, seen, checked, history>>

\* createPipelineJobRun: a local run of one pipeline in place, once runJob has released
\* its claims.  The component's first stage clears the validation of the record.
Rerun(p) ==
    /\ pc[p] = "idle" /\ runs[p] \in 1 .. MaxRuns - 1
    /\ \A q \in Pipeline : runs[q] = 1 => pc[q] = "idle"
    /\ pc' = [pc EXCEPT ![p] = "extract"]
    /\ runs' = [runs EXCEPT ![p] = @ + 1]
    /\ aborted' = (aborted /\ \E q \in Pipeline : pc[q] # "idle")
    /\ record' =
         [record EXCEPT !.status = "active", !.pipelines[p] = "running",
                        !.component = IF p = "component" THEN "pending" ELSE @,
                        !.application = IF p = "component" THEN "pending" ELSE @]
    /\ UNCHANGED <<disk, appDisk, repairs, pending, seen, checked, history>>

\* The job's status when a run ends: of both pipelines after runJob, of the one that ran
\* after a local run.
Status(p, outcome, other) ==
    IF runs[p] > 1 THEN outcome
    ELSE IF other = "running" THEN "active"
    ELSE IF "cancelled" \in {outcome, other} THEN "cancelled"
    ELSE IF "failed" \in {outcome, other} THEN "failed" ELSE "complete"

End(p, outcome) ==
    LET other == CHOOSE q \in Pipeline : q # p
        result == IF outcome = "completed" THEN "complete" ELSE outcome
    IN  [record EXCEPT !.pipelines[p] = outcome,
                       !.status = Status(p, result, record.pipelines[other])]

\* What a run of p holds in memory ends with it.
Forget(P) ==
    /\ repairs' = [p \in Pipeline |-> IF p \in P THEN 0 ELSE repairs[p]]
    /\ pending' = IF "component" \in P THEN Pair(None) ELSE pending
    /\ seen' = IF "application" \in P THEN Pair(None) ELSE seen
    /\ checked' = IF "application" \in P THEN {} ELSE checked
    /\ overlap' = (overlap /\ "application" \notin P)

\* The application's draft is not validated yet.
Undecided == pc["application"] \in {"build", "validate"}

\* A stage throws: the agent gives up, a file operation fails, a check of the stage
\* refuses what it reads, the process runner fails, or the signal is aborted.
Fail(p) ==
    /\ pc[p] # "idle"
    /\ pc' = [pc EXCEPT ![p] = "idle"]
    /\ record' = End(p, IF aborted THEN "cancelled" ELSE "failed")
    /\ stopped' = IF p = "application" /\ Undecided THEN stopped \union {"directory"} ELSE stopped
    /\ dirs' = [dirs EXCEPT ![p] = IF pc[p] = "commit" THEN @ \ ({runs[p]} \ {marker[p]}) ELSE @]
    /\ Forget({p})
    /\ UNCHANGED <<marker, index, dist, built, validation, published, appDisk, runs, aborted,
                   candidates, drafts, crashes, passed, approved, preview>>

\* cancelJob
Cancel ==
    /\ ~aborted /\ \E p \in Pipeline : pc[p] # "idle"
    /\ aborted' = TRUE
    /\ UNCHANGED <<disk, appDisk, record, pc, runs, repairs, pending, seen, checked, history>>

\* Mutant: the marker is renamed before the revision is in place.
PrepareEvidence_Marker(p) ==
    /\ Stage(p, "extract", "commit")
    /\ marker' = [marker EXCEPT ![p] = runs[p]]
    /\ UNCHANGED <<dirs, index, dist, built, validation, published, appDisk, record, repairs, pending,
                   seen, checked, candidates, drafts, passed, approved, preview, overlap, stopped>>

\* prepareEvidencePublication: the accepted evidence is staged and promoted to a
\* revision of its own.
PrepareEvidence(p) ==
    /\ Stage(p, "extract", "commit")
    /\ dirs' = [dirs EXCEPT ![p] = @ \union {runs[p]}]
    /\ UNCHANGED <<marker, index, dist, built, validation, published, appDisk, record, repairs, pending,
                   seen, checked, candidates, drafts, passed, approved, preview, overlap, stopped>>

\* writeApplicationEvidenceCommit writes its revision in place; nothing selects it yet.
PrepareApplicationEvidence == PrepareEvidence("application")

\* The marker is renamed over the old one.
SelectRevision(p) ==
    /\ runs[p] \in dirs[p]
    /\ marker' = [marker EXCEPT ![p] = runs[p]]
    /\ UNCHANGED <<dirs, index, dist, built, validation, published, appDisk, record, repairs, pending,
                   seen, checked, candidates, drafts, passed, approved, preview, overlap, stopped>>

\* commitPreparedEvidencePublication: the revision is read back and validated first.
CommitEvidence == Stage("component", "commit", "generate") /\ SelectRevision("component")

CommitApplicationEvidence == Stage("application", "commit", "wait") /\ SelectRevision("application")

\* loadCommittedEvidence: the marker's revision, if it is whole.
Committed(p) == marker[p] # None /\ marker[p] \in dirs[p]

\* readApprovedEvidence, readApprovedApplicationEvidence: both, for the stages that bind
\* the application to the component.
Approved == \A p \in Pipeline : Committed(p)

-----------------------------------------------------------------------------
(* The component pipeline *)

\* generateComponentSource: the agent's source is promoted to index.circuit.tsx.
GenerateComponentSource ==
    /\ Committed("component") /\ candidates < MaxCandidate
    /\ candidates' = candidates + 1
    /\ index' = candidates + 1
    /\ UNCHANGED <<marker, dirs, dist, built, validation, published, appDisk, record, pending,
                   seen, checked, drafts, passed, approved, preview, overlap, stopped>>

GenerateComponent == Stage("component", "generate", "build") /\ UNCHANGED repairs /\ GenerateComponentSource

\* repair_component: at most MaxRepairs new sources, each built and validated again.
RepairComponent ==
    /\ Stage("component", "repair", "build")
    /\ repairs["component"] < MaxRepairs
    /\ repairs' = [repairs EXCEPT !["component"] = @ + 1]
    /\ GenerateComponentSource

\* buildComponentCandidate: an error of the build or of the board check is a result like
\* any other; only a failure of the process runner throws.
ComponentBuilds == {[candidate |-> index, ok |-> ok] : ok \in BOOLEAN}

\* buildTscircuitSource first removes what an earlier build left.
ClearBuildOutput ==
    /\ Stage("component", "build", "build")
    /\ Committed("component") /\ dist # None
    /\ dist' = None
    /\ UNCHANGED <<marker, dirs, index, built, validation, published, appDisk, record, repairs, pending,
                   seen, checked, candidates, drafts, passed, approved, preview, overlap, stopped>>

\* Then it checks, builds and renders: whatever is wrong beside the Circuit JSON is left
\* to the validation, and without Circuit JSON there is no build.
BuildOutput(ok) == IF ok THEN index ELSE None

\* buildComponentFootprintCandidates
BuildComponent ==
    /\ Stage("component", "build", "validate")
    /\ Committed("component") /\ dist = None
    /\ built' \in ComponentBuilds
    /\ dist' = BuildOutput(built'.ok)
    /\ UNCHANGED <<marker, dirs, index, validation, published, appDisk, record, repairs, pending,
                   seen, checked, candidates, drafts, passed, approved, preview, overlap, stopped>>

\* validateBuiltComponent on each footprint: the footprints whose pins, pads, schematic
\* or build do not fit the evidence; nothing fits a candidate that did not build.
FailingFootprints == IF built.ok THEN SUBSET Footprint ELSE {Footprint}

\* validateComponentFootprintCandidates: one verdict per footprint.  The record takes
\* the verdict of the default footprint, and shows the candidate whatever it is.
ValidateComponent ==
    \E failing \in FailingFootprints :
      /\ Stage("component", "validate", IF failing = {} THEN "publish" ELSE "repair")
      /\ Committed("component")
      /\ validation' = [candidate |-> built.candidate, failing |-> failing]
      /\ passed' = IF failing = {} THEN passed \union {built.candidate} ELSE passed
      /\ record' = [record EXCEPT !.component = IF "default" \in failing THEN "failed" ELSE "passed",
                                  !.code = index,
                                  !.circuit = IF built.ok THEN built.candidate ELSE None]
      /\ preview' = TRUE
      /\ UNCHANGED <<marker, dirs, index, dist, built, published, appDisk, repairs, pending,
                     seen, checked, candidates, drafts, approved, overlap, stopped>>

\* publish_component, up to its last look at the signal.
ReadPublication ==
    /\ Stage("component", "publish", "write")
    /\ Committed("component") /\ validation.failing = {}
    /\ pending' = [source |-> index, json |-> validation.candidate]
    /\ UNCHANGED <<disk, appDisk, record, repairs, seen, checked, candidates, drafts,
                   passed, approved, preview, overlap, stopped>>

\* The two files are written at the same time, each truncated before it is whole.
WriteFile(f) ==
    /\ pc["component"] = "write"
    /\ published[f] # pending[f]
    /\ published' = [published EXCEPT ![f] = IF @ = Partial THEN pending[f] ELSE Partial]
    /\ UNCHANGED <<marker, dirs, index, dist, built, validation, appDisk, record, pc, runs, aborted,
                   repairs, pending, seen, checked, history>>

\* The record is updated once both are whole.
FinishPublication ==
    /\ pc["component"] = "write" /\ published = pending
    /\ pc' = [pc EXCEPT !["component"] = "idle"]
    /\ record' = [End("component", "completed") EXCEPT
                    !.ready = TRUE, !.code = pending["source"], !.circuit = pending["json"]]
    /\ preview' = FALSE
    /\ Forget({"component"})
    /\ UNCHANGED <<disk, appDisk, runs, aborted, candidates, drafts, crashes, passed, approved, stopped>>

-----------------------------------------------------------------------------
(* The application pipeline *)

Exists(f) == published[f] # None

\* wait_for_component finds both files and starts to read them.
WaitFound ==
    /\ Stage("application", "wait", "read")
    /\ \A f \in File : Exists(f)
    /\ checked' = {}
    /\ UNCHANGED <<disk, appDisk, record, repairs, pending, seen, candidates, drafts,
                   passed, approved, preview, overlap, stopped>>

\* The two reads are concurrent.  A truncated Circuit JSON does not parse; a truncated
\* source may still contain everything validateGeneratedSource looks for.
WaitRead(f) ==
    /\ pc["application"] = "read" /\ f \notin checked
    /\ f = "json" => published[f] # Partial
    /\ seen' = [seen EXCEPT ![f] = published[f]]
    /\ checked' = IF checked \union {f} = File THEN {} ELSE checked \union {f}
    /\ pc' = [pc EXCEPT !["application"] = IF checked \union {f} = File THEN "plan" ELSE @]
    /\ UNCHANGED <<disk, appDisk, record, runs, aborted, repairs, pending, history>>

\* The poll sees that the component pipeline ended without publishing.
WaitRefused ==
    /\ pc["application"] = "wait" /\ \E f \in File : ~Exists(f)
    /\ record.pipelines["component"] \in {"failed", "cancelled"}
    /\ Fail("application")

\* WAIT_TIMEOUT_MS is over.
WaitTimeout == pc["application"] = "wait" /\ Fail("application")

\* planGeneratedApplications
PlanApplications ==
    /\ Stage("application", "plan", "check")
    /\ Approved
    /\ catalog' = marker["application"]
    /\ checked' = {} /\ overlap' = FALSE
    /\ UNCHANGED <<disk, appSource, appBuild, appResult, record, repairs, pending, seen,
                   candidates, drafts, passed, approved, preview, stopped>>

\* readApplicationPlanCatalog: the catalog must fit the committed evidence.
CatalogReadable == Approved /\ catalog = marker["application"]

\* Both files are whole and of one candidate.
Whole == published["source"] = published["json"] /\ published["source"] \notin {None, Partial}

\* A publication is under way, or was cut short.
Torn == pc["component"] = "write" \/ ~Whole

\* Mutant: the generation trusts the hashes of the wait.
CheckInput_Trusts(f) ==
    /\ pc["application"] = "check" /\ ~aborted /\ f \notin checked
    /\ Exists(f)
    /\ checked' = checked \union {f}
    /\ overlap' = (overlap \/ Torn)
    /\ pc' = [pc EXCEPT !["application"] = IF checked' = File THEN "draft" ELSE @]
    /\ UNCHANGED <<disk, appDisk, record, runs, aborted, repairs, pending, seen,
                   candidates, drafts, crashes, passed, approved, preview, stopped>>

\* generate_application reads both files again, at the same time, and compares each
\* with what the wait recorded.
CheckInput(f) ==
    /\ pc["application"] = "check" /\ ~aborted /\ f \notin checked
    /\ published[f] = seen[f]
    /\ checked' = checked \union {f}
    /\ overlap' = (overlap \/ Torn)
    /\ pc' = [pc EXCEPT !["application"] = IF checked' = File THEN "draft" ELSE @]
    /\ UNCHANGED <<disk, appDisk, record, runs, aborted, repairs, pending, seen,
                   candidates, drafts, crashes, passed, approved, preview, stopped>>

\* generateApplicationSource: the agent's source is promoted to the application's file.
GenerateApplicationSource ==
    /\ CatalogReadable /\ drafts < MaxDraft
    /\ drafts' = drafts + 1
    /\ appSource' = drafts + 1
    /\ UNCHANGED <<disk, catalog, appBuild, appResult, record, pending, seen, checked,
                   candidates, passed, approved, preview, overlap, stopped>>

GenerateApplication == Stage("application", "draft", "build") /\ UNCHANGED repairs /\ GenerateApplicationSource

\* repair_application: at most MaxRepairs new sources.  The component is not compared again.
RepairApplication ==
    /\ Stage("application", "repair", "build")
    /\ repairs["application"] < MaxRepairs
    /\ repairs' = [repairs EXCEPT !["application"] = @ + 1]
    /\ GenerateApplicationSource

\* buildApplicationCandidate: the source imports the component as it is now.
ApplicationBuilds ==
    {[draft |-> appSource, ok |-> ok /\ published["source"] \notin {None, Partial}] : ok \in BOOLEAN}

BuildApplication ==
    /\ Stage("application", "build", "validate")
    /\ CatalogReadable
    /\ appBuild' \in ApplicationBuilds
    /\ UNCHANGED <<disk, catalog, appSource, appResult, record, repairs, pending, seen, checked,
                   candidates, drafts, passed, approved, preview, overlap, stopped>>

\* validateBuiltApplication compares the component in the build with the Circuit JSON
\* published now; another candidate may or may not have the same pins and pads.
ApplicationVerdicts == {ok \in BOOLEAN : ok => appBuild.ok /\ published["json"] \notin {None, Partial}}

ValidateApplication ==
    \E ok \in ApplicationVerdicts :
      /\ Stage("application", "validate", IF ok THEN "publish" ELSE "repair")
      /\ CatalogReadable
      /\ appResult' = [draft |-> appBuild.draft, passed |-> ok]
      /\ approved' = IF ok THEN approved \union {appBuild.draft} ELSE approved
      /\ record' = [record EXCEPT !.application = IF ok THEN "passed" ELSE "failed"]
      /\ stopped' = stopped \ {"directory"}
      /\ UNCHANGED <<disk, catalog, appSource, appBuild, repairs, pending, seen, checked,
                     candidates, drafts, passed, preview, overlap>>

\* repair_application gives up: the rejected source and its build are removed.
RejectApplication ==
    /\ Stage("application", "repair", "publish")
    /\ repairs["application"] = MaxRepairs
    /\ appSource' = None
    /\ appBuild' = [appBuild EXCEPT !.ok = FALSE]
    /\ record' = [record EXCEPT !.application = "warning"]
    /\ UNCHANGED <<disk, catalog, appResult, repairs, pending, seen, checked, candidates,
                   drafts, passed, approved, preview, overlap, stopped>>

\* Mutant: the verdict of the repair is not looked at.
PublishApplication_Any ==
    /\ pc["application"] = "publish" /\ ~aborted
    /\ CatalogReadable
    /\ pc' = [pc EXCEPT !["application"] = "idle"]
    /\ record' = [End("application", "completed") EXCEPT !.shown = appBuild.draft, !.shownJson = appBuild.draft]
    /\ stopped' = stopped \ {"record"}
    /\ Forget({"application"})
    /\ UNCHANGED <<disk, appDisk, runs, aborted, candidates, drafts, crashes, passed, approved, preview>>

\* publish_application: the sources that passed, with the Circuit JSON of their validation.
PublishApplication ==
    /\ pc["application"] = "publish" /\ ~aborted
    /\ CatalogReadable
    /\ pc' = [pc EXCEPT !["application"] = "idle"]
    /\ record' = [End("application", "completed") EXCEPT
                    !.shown = IF appResult.passed THEN appSource ELSE None,
                    !.shownJson = IF appResult.passed THEN appResult.draft ELSE None]
    /\ stopped' = stopped \ {"record"}
    /\ Forget({"application"})
    /\ UNCHANGED <<disk, appDisk, runs, aborted, candidates, drafts, crashes, passed, approved, preview>>

-----------------------------------------------------------------------------
(* The model run *)

\* inspectComponentReadiness: the component is published and nothing says otherwise.
ComponentReady ==
    /\ record.ready
    /\ \/ record.status = "complete"
       \/ record.status = "active" /\ record.pipelines["component"] = "completed"

\* wait_for_component of the model pipeline
InspectComponent ==
    /\ model.at = "none" /\ models < MaxModels
    /\ ComponentReady
    /\ model' = [at |-> "copy", source |-> None]
    /\ UNCHANGED <<bundle, models, crossed, disk, appDisk, record, pc, runs, aborted, repairs, pending,
                   seen, checked, history>>

\* It parses the Circuit JSON and copies the source, whatever these are by now.
CaptureComponent ==
    /\ model.at = "copy"
    /\ published["json"] \notin {None, Partial}
    /\ model' = [at |-> "captured", source |-> IF Exists("source") THEN published["source"] ELSE index]
    /\ UNCHANGED <<bundle, models, crossed, disk, appDisk, record, pc, runs, aborted, repairs, pending,
                   seen, checked, history>>

\* commitPreparedModelPublication: the copy built with the model, whose source and Circuit
\* JSON the pointer selects, is shown by the record in the same step.
PublishModel ==
    /\ model.at = "captured" /\ model.source \notin {None, Partial}
    /\ bundle' = model.source
    /\ record' = [record EXCEPT !.code = model.source, !.circuit = model.source]
    /\ preview' = FALSE
    /\ model' = [at |-> "mirror", source |-> None]
    /\ models' = models + 1
    /\ UNCHANGED <<crossed, disk, appDisk, pc, runs, aborted, repairs, pending, seen, checked,
                   candidates, drafts, crashes, passed, approved, overlap, stopped>>

\* Then its source is copied over index.circuit.tsx, as one more source there, though a
\* component run may be at work on what it replaces.
MirrorModel ==
    /\ model.at = "mirror" /\ candidates + 1 < Partial
    /\ candidates' = candidates + 1 /\ index' = candidates + 1
    /\ crossed' = (crossed \/ pc["component"] \in {"validate", "publish"})
    /\ model' = NoModel
    /\ UNCHANGED <<bundle, models, marker, dirs, dist, built, validation, published, appDisk, record, pc,
                   runs, aborted, repairs, pending, seen, checked, drafts, crashes, passed, approved,
                   preview, overlap, stopped>>

\* The model run fails before its commit, or the copy after it does, which is a warning.
EndModel ==
    /\ model.at # "none"
    /\ model' = NoModel
    /\ UNCHANGED <<bundle, models, crossed, disk, appDisk, record, pc, runs, aborted, repairs, pending,
                   seen, checked, history>>

-----------------------------------------------------------------------------
(* Stop and restart *)

\* Mutant: the restart prefers the candidate.
BaseSource_Candidate == IF index # None THEN index ELSE published["source"]

\* readBaseComponentSource: the published file, else the candidate, which may not stand in
\* when a model publication is there and cannot be read.
BaseSource == IF published["source"] # None \/ bundle # None THEN published["source"] ELSE index

\* readRestoredCircuitJson: a Circuit JSON that does not parse is none.
BaseCircuit == IF published["json"] \notin {None, Partial} THEN published["json"] ELSE dist

\* readComponentArtifacts: the component of a usable model publication, else the base.
RestoredSource(usable) == IF usable THEN bundle ELSE BaseSource
RestoredCircuit(usable) == IF usable THEN bundle ELSE BaseCircuit

\* component_ready in restoreJobDirectory.  A truncated source may contain its default
\* export.
RestoredReady(usable, exports) ==
    /\ RestoredSource(usable) # None /\ (RestoredSource(usable) = Partial => exports)
    /\ RestoredCircuit(usable) # None
    /\ \/ usable
       \/ record.component = "passed"
       \/ record.status = "complete" /\ record.ready
       \/ record.application = "passed" /\ appSource # None /\ appBuild.ok

\* typical_applications in restoreJobDirectory: source file and validation record.
RestoredApplication == CatalogReadable /\ appSource # None /\ appResult.passed

\* display_status in restoreJobDirectory.
RestoredStatus(usable, ready) ==
    IF record.status = "complete" THEN (IF ready THEN "complete" ELSE "failed")
    ELSE IF record.status # "active" THEN record.status
    ELSE IF ready /\ (usable \/ "completed" \in {record.pipelines[p] : p \in Pipeline})
         THEN "complete" ELSE "failed"

\* The server stops and restores the job; a model publication there is may be damaged.
Restart ==
    /\ crashes < MaxCrashes /\ runs["component"] > 0
    /\ crashes' = crashes + 1
    /\ pc' = [p \in Pipeline |-> "idle"]
    /\ aborted' = FALSE
    /\ \E exports \in BOOLEAN, usable \in {u \in BOOLEAN : u => bundle # None} :
         record' = [record EXCEPT
                      !.ready = RestoredReady(usable, exports),
                      !.code = RestoredSource(usable), !.circuit = RestoredCircuit(usable),
                      !.status = RestoredStatus(usable, RestoredReady(usable, exports)),
                      !.shown = IF RestoredApplication THEN appSource ELSE None,
                      !.shownJson = IF RestoredApplication THEN appResult.draft ELSE None]
    /\ preview' = FALSE
    /\ stopped' = IF Undecided \/ "directory" \in stopped THEN {"directory", "record"} ELSE {}
    /\ model' = NoModel
    /\ Forget(Pipeline)
    /\ UNCHANGED <<bundle, models, crossed, disk, appDisk, runs, candidates, drafts, passed, approved>>

-----------------------------------------------------------------------------
ComponentStep ==
    \/ PrepareEvidence("component") \/ CommitEvidence
    \/ GenerateComponent \/ ClearBuildOutput \/ BuildComponent \/ ValidateComponent \/ RepairComponent
    \/ ReadPublication \/ (\E f \in File : WriteFile(f)) \/ FinishPublication

ApplicationStep ==
    \/ PrepareApplicationEvidence \/ CommitApplicationEvidence
    \/ WaitFound \/ (\E f \in File : WaitRead(f)) \/ WaitRefused \/ WaitTimeout
    \/ PlanApplications \/ (\E f \in File : CheckInput(f))
    \/ GenerateApplication \/ BuildApplication \/ ValidateApplication
    \/ RepairApplication \/ RejectApplication \/ PublishApplication

RunStep == StartJob \/ Cancel \/ \E p \in Pipeline : Rerun(p) \/ Fail(p)

ModelStep == InspectComponent \/ CaptureComponent \/ PublishModel \/ MirrorModel \/ EndModel

Next ==
    \/ (RunStep \/ ComponentStep \/ ApplicationStep) /\ UNCHANGED modelVars
    \/ ModelStep
    \/ Restart

Spec == Init /\ [][Next]_vars

-----------------------------------------------------------------------------
(* Properties *)

\* publish-component.ts:67 and generate-application.ts:45: the source and the Circuit
\* JSON an application is generated for are those of one candidate, one that passed
\* with every footprint, although the two files are written, found, read and compared
\* separately; only a publication that at the comparison is under way, was cut short, or
\* has the source a model run put in place of the validated one can give it two
\* different ones.
AcceptedComponentIsOne ==
    pc["application"] \in {"draft", "build", "validate", "repair", "publish"} /\ ~overlap
      => seen["source"] = seen["json"] /\ seen["source"] \in passed

\* restore-job-directory.ts:350: once a component is published whole, a job that says its
\* component is ready shows the source and the Circuit JSON of one candidate, the published
\* one or the one published with a model, and it passed with every footprint, through any
\* number of failed reruns, cancellations and restarts.  The exceptions are the candidate
\* a rerun shows from its validation on, and a component of a model that was published
\* from a source another model run had put in place of the validated one.
\* publish.ts:21 and
\* restore-job-directory.ts:307: an application the job shows passed its validation,
\* and the code is the one that was validated, unless a run was stopped between a new
\* draft and its validation and the restart read the old validation record with it.
ShownIsAccepted ==
    /\ record.ready /\ ~preview /\ Whole
         => /\ record.code = record.circuit
            /\ record.code = published["source"] \/ (record.code = bundle /\ bundle # None)
            /\ record.code \in passed \/ (record.code = bundle /\ crossed)
    /\ record.shown # None => /\ record.shownJson \in approved
                              /\ record.shown = record.shownJson \/ "record" \in stopped

\* evidence-commit.ts:932: a commit marker selects a revision that is whole, whatever
\* failed, was cancelled or stopped before, between or after the two steps of a commit.
MarkerSelectsRevision == \A p \in Pipeline : marker[p] # None => marker[p] \in dirs[p]
=============================================================================
