---------------------------- MODULE ModelWorkflow ----------------------------
(***************************************************************************)
(* The stages of the model pipeline (src/server/model-workflow): find the  *)
(* reference graphs, wait for the job's evidence, create the comparison    *)
(* graphs, infer a SPICE model (ModelCandidateSearch is the agent's        *)
(* session inside), render and run the simulations, compare, repair within *)
(* a budget, wait for the component.  Publication is ModelPublication.     *)
(*                                                                         *)
(* A candidate is a directory candidates/<revision>-<uuid>: its revision   *)
(* is the model's source, so a repair of the TSX alone makes a second      *)
(* directory of the same revision.  A preview is shown to the user from    *)
(* three places written one after the other: the bundle                    *)
(* current-previews/<invocation>-<revision>, the marker current-preview    *)
(* .json that selects it, and the run's record.  The record is durable     *)
(* before it is visible (ModelRunLifecycle), and the server may stop       *)
(* between any two of these writes.                                        *)
(*                                                                         *)
(* A candidate's quality is its rank under compareCandidateQuality (see    *)
(* CandidateQuality): 0 is a candidate that passed.                        *)
(***************************************************************************)
EXTENDS ModelCandidateSearch, Sequences

CONSTANTS
    MaxQuality,         \* bound: ranks 0..MaxQuality
    MaxInvocations,     \* bound: runs of the pipeline
    MaxArtifact,        \* max_artifact_attempts of infer_spice_model
    InitialBudget,      \* the repair budget of each run, in clock ticks
    MaxBudget,          \* bound: the budget its extensions may reach (effort <= 8)
    MarginCap,          \* the largest variability margin, in ticks
    MaxStops            \* bound: server restarts

ASSUME WorkflowAssumption ==
    /\ {MaxQuality, MaxInvocations, MaxArtifact, MarginCap, MaxStops} \subseteq Nat
    /\ MaxInvocations > 0
    /\ {MaxWrites, MaxKills, InitialBudget, MaxBudget} \subseteq [1..MaxInvocations -> Nat]
    /\ \A i \in 1..MaxInvocations : InitialBudget[i] \in 1..MaxBudget[i]

VARIABLES
    pc,             \* the stage of the run, or the await it stands at
    invocation,
    artifact,       \* attempts of the agent stage so far
    jobView,        \* what the job's record says to the two waits
    cands,          \* the candidate directories, in order of creation
    cur,            \* the candidate at hand
    incumbent,      \* previous_candidate of the repair loop
    after,          \* what follows the projection in progress
    bundles,        \* generation -> the snapshot under current-previews/
    marker,         \* the generation current-preview.json names
    record,         \* validation and previews of the run's record
    repairBudget,   \* repair_budget_ms of the live record
    deadline,       \* when the attempt's signal expires
    clock,          \* ticks since the repair began
    began,          \* when the attempt began
    slowest,        \* the slowest evaluated attempt, 0 if none
    stops

repairVars == <<repairBudget, deadline, clock, began, slowest>>
previewVars == <<bundles, marker, record>>
stageVars == <<pc, invocation, artifact, cands, cur, incumbent, after>>
workflowVars == <<searchVars, stageVars, previewVars, repairVars, jobView, stops>>

Revisions == Sources
Generations == (1..MaxInvocations) \X Revisions
Nothing == [cand |-> 0, q |-> 0]        \* no candidate's preview
NoGeneration == <<0, 0>>

(* The candidate's snapshot: the validation and previews of one evaluation *)
Snapshot(c) == [cand |-> c, q |-> cands[c].q]

-----------------------------------------------------------------------------
(* What the waits read of the job *)
JobViews ==
    [exists : BOOLEAN, evidence : BOOLEAN, app_evidence : BOOLEAN,
     pipeline : {"running", "completed", "failed"}, ready : BOOLEAN, errors : BOOLEAN]

(* The views a job goes through: its evidence is committed, its component  *)
(* is published, its pipeline fails, or the user deletes it.               *)
JobStart == [exists |-> TRUE, evidence |-> FALSE, app_evidence |-> FALSE,
             pipeline |-> "running", ready |-> FALSE, errors |-> FALSE]
JobCommitted == [JobStart EXCEPT !.evidence = TRUE, !.app_evidence = TRUE]
JobReady == [JobCommitted EXCEPT !.pipeline = "completed", !.ready = TRUE]
JobFails(j) == [j EXCEPT !.pipeline = "failed", !.errors = TRUE]

(* Only the two waits read the job, so its steps are interleaved there and *)
(* commute with every other step.                                          *)
JobStep ==
    /\ pc \in {"wait_evidence", "component"}
    /\ jobView' \in CASE jobView = JobStart -> {JobCommitted, JobFails(JobStart)}
                      [] jobView = JobCommitted -> {JobReady, JobFails(JobCommitted)}
                      [] jobView.exists -> {[jobView EXCEPT !.exists = FALSE]}
                      [] OTHER -> {}
    /\ UNCHANGED <<searchVars, stageVars, previewVars, repairVars, stops>>

inspectModelEvidenceReadiness ==
    IF ~jobView.exists THEN "failed"
    ELSE IF jobView.evidence /\ jobView.app_evidence THEN "ready"
    ELSE IF jobView.pipeline = "failed" THEN "failed"
    ELSE "waiting"

inspectComponentReadiness ==
    IF ~jobView.exists \/ jobView.pipeline = "failed" THEN "failed"
    ELSE IF jobView.pipeline = "completed"
         THEN IF ~jobView.errors /\ jobView.ready THEN "ready" ELSE "failed"
    ELSE "waiting"

-----------------------------------------------------------------------------
WorkflowInit ==
    /\ SearchInit
    /\ pc = "find" /\ invocation = 1 /\ artifact = 0
    /\ jobView = JobStart
    /\ cands = <<>> /\ cur = 0 /\ incumbent = 0 /\ after = "none"
    /\ bundles = [g \in Generations |-> Nothing]
    /\ marker = NoGeneration
    /\ record = [rev |-> 0, shown |-> Nothing, dev |-> 0]
    /\ repairBudget = InitialBudget[1] /\ deadline = 0 /\ clock = 0 /\ began = 0 /\ slowest = 0
    /\ stops = 0

Stage(from, to) == pc = from /\ pc' = to

(* find_reference_graphs projects the found references: previews of an     *)
(* earlier run disappear from the record, its validation stays.            *)
FindReferenceGraphs ==
    /\ Stage("find", "wait_evidence")
    /\ record' = [record EXCEPT !.shown = Nothing]
    /\ UNCHANGED <<searchVars, invocation, artifact, cands, cur, incumbent, after,
                   bundles, marker, repairVars, jobView, stops>>

WaitForModelEvidence ==
    /\ pc = "wait_evidence" /\ inspectModelEvidenceReadiness # "waiting"
    /\ pc' = IF inspectModelEvidenceReadiness = "ready" THEN "graphs" ELSE "failed"
    /\ UNCHANGED <<searchVars, invocation, artifact, cands, cur, incumbent, after,
                   previewVars, repairVars, jobView, stops>>

(* create_comparison_graphs digitizes the references, characterizes them   *)
(* and shows the draft of each graph without a circuit.                    *)
CreateComparisonGraphs ==
    /\ Stage("graphs", "infer")
    /\ record' = [record EXCEPT !.shown = Nothing]
    /\ UNCHANGED <<searchVars, invocation, artifact, cands, cur, incumbent, after,
                   bundles, marker, repairVars, jobView, stops>>

-----------------------------------------------------------------------------
(* retainedCandidateForRetry: the directories of the revision the record   *)
(* validated as a candidate.                                               *)
Retained == {c \in DOMAIN cands : record.rev # 0 /\ cands[c].rev = record.rev}

ReuseAny ==
    /\ pc = "infer" /\ Retained # {}
    /\ \E c \in Retained : cur' = c /\ record' = [record EXCEPT !.dev = cands[c].rev]
    /\ pc' = "tsx"
    /\ UNCHANGED <<searchVars, invocation, artifact, cands, incumbent, after,
                   bundles, marker, repairVars, jobView, stops>>

(* There is one, and it fits the contract of this run *)
ReuseCandidate ==
    /\ pc = "infer" /\ Cardinality(Retained) = 1
    /\ \E c \in Retained : cur' = c /\ record' = [record EXCEPT !.dev = cands[c].rev]
    /\ pc' = "tsx"
    /\ UNCHANGED <<searchVars, invocation, artifact, cands, incumbent, after,
                   bundles, marker, repairVars, jobView, stops>>

ResetSearch ==
    /\ lib' = None /\ card' = None /\ crec' = NoPair /\ trec' = NoPair
    /\ tool' = "none" /\ step' = "idle" /\ todo' = {} /\ arg' = None
    /\ ready' = FALSE /\ best' = NoPair /\ used' = FreshSession

EndSearch == ResetSearch /\ plan' = FALSE /\ writes' = 0 /\ kills' = 0

(* An attempt of the agent starts in a workspace of its own: there is no   *)
(* single directory of the revision, or its source, card or manifest does  *)
(* not fit the contract this run made, which any of them may fail to.      *)
StartInference ==
    /\ pc = "infer"
    /\ pc' = "search" /\ artifact' = 1
    /\ ResetSearch /\ plan' \in BOOLEAN
    /\ writes' = MaxWrites[invocation] /\ kills' = MaxKills[invocation]
    /\ UNCHANGED <<invocation, cands, cur, incumbent, after, previewVars, repairVars,
                   jobView, stops>>

Search ==
    /\ pc = "search"
    /\ SearchNext
    /\ UNCHANGED <<stageVars, previewVars, repairVars, jobView, stops>>

NewCandidate(rev, tsx) == [rev |-> rev, tsx |-> tsx, q |-> MaxQuality, val |-> FALSE,
                           fate |-> "new"]

(* The agent ends its turn: the server validates and promotes what it      *)
(* left, or refuses it and lets it try again with the files it left.       *)
FinishInference ==
    /\ pc = "search" /\ tool = "none"
    /\ IF ServerAccepts
       THEN /\ cands' = Append(cands, NewCandidate(lib, 0))
            /\ cur' = Len(cands')
            /\ record' = [record EXCEPT !.dev = lib]
            /\ pc' = "tsx" /\ artifact' = 0
            /\ EndSearch
       ELSE /\ UNCHANGED <<cands, cur, record>>
            /\ IF artifact < MaxArtifact
               THEN /\ artifact' = artifact + 1 /\ UNCHANGED pc
                    /\ trec' = NoPair
                    /\ ready' = FALSE /\ best' = NoPair /\ used' = FreshSession
                    /\ UNCHANGED <<lib, card, crec, call, plan, writes, kills>>
               ELSE pc' = "failed" /\ artifact' = 0 /\ EndSearch
    /\ UNCHANGED <<invocation, incumbent, after, bundles, marker, repairVars, jobView, stops>>

-----------------------------------------------------------------------------
(* create_simulation_tsx renders every case into the candidate's directory *)
CreateSimulationTsx ==
    /\ Stage("tsx", "simulate")
    /\ cands' = [cands EXCEPT ![cur].tsx = 0]
    /\ record' = [record EXCEPT !.shown = Nothing]
    /\ UNCHANGED <<searchVars, invocation, artifact, cur, incumbent, after, bundles,
                   marker, repairVars, jobView, stops>>

(* run_simulations: a case the simulator cannot run is a result, a case    *)
(* tsci cannot build fails the stage.                                      *)
RunSimulations ==
    /\ pc = "simulate"
    /\ pc' \in {"compare", "failed"}
    /\ UNCHANGED <<searchVars, invocation, artifact, cands, cur, incumbent, after,
                   previewVars, repairVars, jobView, stops>>

(* compare_simulation_outputs persists the evaluation, projects it, and    *)
(* only then refuses a failure outside the model.                          *)
CompareSimulationOutputs ==
    /\ pc = "compare"
    /\ \E q \in 0..MaxQuality :
         cands' = [cands EXCEPT ![cur].q = q, ![cur].val = TRUE, ![cur].fate = "promoted"]
    /\ after' \in {"repair", "failed"}
    /\ pc' = "project"
    /\ UNCHANGED <<searchVars, invocation, artifact, cur, incumbent, previewVars,
                   repairVars, jobView, stops>>

-----------------------------------------------------------------------------
(* projectCandidateValidationUi: the bundle, the marker, the record.  The  *)
(* bundle's directory is replaced by two renames when a bundle of the same *)
(* invocation and revision is there.                                       *)
Generation == <<invocation, cands[cur].rev>>

SignalExpired == after = "improved" /\ clock >= deadline

Projecting(at) == pc = at /\ ~SignalExpired

RemoveBundle ==
    /\ Projecting("project") /\ bundles[Generation] # Nothing
    /\ bundles' = [bundles EXCEPT ![Generation] = Nothing]
    /\ UNCHANGED <<searchVars, stageVars, marker, record, repairVars, jobView, stops>>

PlaceBundle ==
    /\ Projecting("project") /\ bundles[Generation] = Nothing
    /\ bundles' = [bundles EXCEPT ![Generation] = Snapshot(cur)]
    /\ pc' = "marker"
    /\ UNCHANGED <<searchVars, invocation, artifact, cands, cur, incumbent, after, marker,
                   record, repairVars, jobView, stops>>

WriteMarker ==
    /\ Projecting("marker")
    /\ marker' = Generation
    /\ pc' = "record"
    /\ UNCHANGED <<searchVars, invocation, artifact, cands, cur, incumbent, after,
                   bundles, record, repairVars, jobView, stops>>

(* projectCandidateValidation, and what the stage does after it *)
WriteRecord ==
    /\ Projecting("record")
    /\ record' = [rev |-> cands[cur].rev, shown |-> Snapshot(cur),
                  dev |-> IF after \in {"restored", "improved"} THEN cands[cur].rev
                                                                ELSE record.dev]
    /\ incumbent' = IF after \in {"restored", "improved"} THEN cur ELSE incumbent
    /\ pc' = CASE after \in {"repair", "failed"} -> after
               [] OTHER -> IF cands[cur].q = 0 THEN "component" ELSE "loop"
    /\ after' = "none"
    /\ UNCHANGED <<searchVars, invocation, artifact, cands, cur, bundles, marker,
                   repairVars, jobView, stops>>

(* The attempt's signal expires before the improved candidate is shown:    *)
(* the projection throws, and so does the stage.                           *)
ProjectionExpires ==
    /\ pc \in {"project", "marker", "record"} /\ SignalExpired
    /\ pc' = "failed" /\ after' = "none"
    /\ UNCHANGED <<searchVars, invocation, artifact, cands, cur, incumbent, previewVars,
                   repairVars, jobView, stops>>

-----------------------------------------------------------------------------
(* repair_spice_model projects the compared candidate again, then repairs  *)
(* it unless it passed.                                                    *)
EnterRepair ==
    /\ Stage("repair", "project")
    /\ after' = "restored"
    /\ repairBudget' = InitialBudget[invocation] /\ deadline' = 0 /\ clock' = 0 /\ began' = 0 /\ slowest' = 0
    /\ UNCHANGED <<searchVars, invocation, artifact, cands, cur, incumbent, previewVars,
                   jobView, stops>>

(* hasRepairCandidateBudget *)
Margin == Min({MarginCap, (slowest + 3) \div 4})
HasBudget ==
    /\ repairBudget - clock > 0
    /\ slowest = 0 \/ repairBudget - clock > slowest + Margin

StartAttempt ==
    /\ Stage("loop", "generate")
    /\ HasBudget
    /\ deadline' = repairBudget /\ began' = clock
    /\ UNCHANGED <<searchVars, invocation, artifact, cands, cur, incumbent, after,
                   previewVars, repairBudget, clock, slowest, jobView, stops>>

SimulatorExpired == pc = "validate" /\ clock >= deadline

Expired == clock >= deadline

(* generateRepairCandidate: the diagnosis names the model, the TSX or      *)
(* both, and the files changed are the ones it named.                      *)
GenerateRepair ==
    /\ pc = "generate" /\ ~Expired
    /\ \E rev \in Static, tsx \in 0..1 :
         /\ rev # cands[incumbent].rev \/ tsx # cands[incumbent].tsx
         /\ cands' = Append(cands, NewCandidate(rev, tsx))
    /\ cur' = Len(cands')
    /\ pc' = "validate"
    /\ UNCHANGED <<searchVars, invocation, artifact, incumbent, after, previewVars,
                   repairVars, jobView, stops>>

(* validateCandidate simulates, compares and persists the evaluation; an   *)
(* attempt takes at least one tick.                                        *)
ValidateRepair ==
    /\ pc = "validate" /\ ~Expired /\ clock > began
    /\ \E q \in 0..MaxQuality : cands' = [cands EXCEPT ![cur].q = q, ![cur].val = TRUE]
    /\ slowest' = Max({slowest, clock - began})
    /\ pc' = "decide"
    /\ UNCHANGED <<searchVars, invocation, artifact, cur, incumbent, after, previewVars,
                   repairBudget, deadline, clock, began, jobView, stops>>

(* The signal expires while the agent or the simulator works: the loop     *)
(* ends, the incumbent stays.                                              *)
AdoptUnfinished ==
    /\ pc \in {"generate", "validate"} /\ Expired
    /\ pc' = "component" /\ incumbent' = cur
    /\ UNCHANGED <<searchVars, invocation, artifact, cands, cur, after,
                   previewVars, repairVars, jobView, stops>>

AttemptExpires ==
    /\ pc \in {"generate", "validate"} /\ Expired
    /\ pc' = "component"
    /\ UNCHANGED <<searchVars, invocation, artifact, cands, cur, incumbent, after,
                   previewVars, repairVars, jobView, stops>>

(* Any other error of the attempt fails the stage *)
AttemptFails ==
    /\ pc \in {"generate", "validate"} /\ ~Expired
    /\ pc' = "failed"
    /\ UNCHANGED <<searchVars, invocation, artifact, cands, cur, incumbent, after,
                   previewVars, repairVars, jobView, stops>>

EveryEvaluated == cands[cur].val

Improved == cands[cur].q < cands[incumbent].q

Decide ==
    /\ pc = "decide"
    /\ IF Improved
       THEN /\ cands' = [cands EXCEPT ![cur].fate = "promoted"]
            /\ pc' = "project" /\ after' = "improved"
       ELSE /\ cands' = [cands EXCEPT ![cur].val = FALSE, ![cur].fate = "rejected"]
            /\ pc' = "loop" /\ UNCHANGED after
    /\ UNCHANGED <<searchVars, invocation, artifact, cur, incumbent, previewVars,
                   repairVars, jobView, stops>>

(* Nothing more fits the budget: the best candidate is handed on with a    *)
(* warning.                                                                *)
BudgetSpent ==
    /\ pc = "loop" /\ ~HasBudget
    /\ pc' = "component"
    /\ UNCHANGED <<searchVars, invocation, artifact, cands, cur, incumbent, after,
                   previewVars, repairVars, jobView, stops>>

InAttempt == pc \in {"generate", "validate"} \/ after = "improved"

Tick ==
    /\ InAttempt /\ clock < deadline
    /\ clock' = clock + 1
    /\ UNCHANGED <<searchVars, stageVars, previewVars, repairBudget, deadline, began, slowest,
                   jobView, stops>>

(* The user extends the run while the agent works; the attempt in progress *)
(* keeps its deadline.                                                     *)
Extend ==
    /\ pc = "generate" /\ repairBudget < MaxBudget[invocation]
    /\ repairBudget' = repairBudget + 1
    /\ UNCHANGED <<searchVars, stageVars, previewVars, deadline, clock, began, slowest,
                   jobView, stops>>

(* wait_for_component *)
WaitForComponent ==
    /\ pc = "component" /\ inspectComponentReadiness # "waiting"
    /\ pc' = IF inspectComponentReadiness = "ready" THEN "publish" ELSE "failed"
    /\ UNCHANGED <<searchVars, invocation, artifact, cands, cur, incumbent, after,
                   previewVars, repairVars, jobView, stops>>

-----------------------------------------------------------------------------
Running == pc \notin {"failed", "publish", "stopped"}

(* A cancel, or an error of a stage that has no other outcome here *)
Cancel ==
    /\ Running
    /\ pc' = "failed" /\ after' = "none" /\ cur' = 0 /\ incumbent' = 0 /\ artifact' = 0
    /\ EndSearch
    /\ UNCHANGED <<invocation, cands, previewVars, repairVars, jobView, stops>>

Stop ==
    /\ Running /\ stops < MaxStops
    /\ stops' = stops + 1
    /\ pc' = "stopped" /\ after' = "none" /\ cur' = 0 /\ incumbent' = 0 /\ artifact' = 0
    /\ EndSearch
    /\ UNCHANGED <<invocation, cands, previewVars, repairVars, jobView>>

(* restoreModelDirectory of an interrupted run: the bundle the marker of   *)
(* this invocation names, or what the record's checkpoint says.            *)
Projected ==
    IF marker[1] = invocation THEN bundles[marker] ELSE Nothing

Restart ==
    /\ Stage("stopped", "failed")
    /\ record' = IF Projected # Nothing
                 THEN [record EXCEPT !.rev = marker[2], !.shown = Projected]
                 ELSE record
    /\ UNCHANGED <<searchVars, invocation, artifact, cands, cur, incumbent, after,
                   bundles, marker, repairVars, jobView, stops>>

Retry ==
    /\ pc = "failed" /\ invocation < MaxInvocations
    /\ pc' = "find" /\ invocation' = invocation + 1
    /\ cur' = 0 /\ incumbent' = 0
    /\ repairBudget' = InitialBudget[invocation'] /\ deadline' = 0 /\ clock' = 0 /\ began' = 0 /\ slowest' = 0
    /\ UNCHANGED <<searchVars, artifact, cands, after, previewVars, jobView, stops>>

Ended == pc \in {"failed", "publish"} /\ UNCHANGED workflowVars

Work ==
    \/ FindReferenceGraphs \/ WaitForModelEvidence \/ CreateComparisonGraphs
    \/ ReuseCandidate \/ StartInference \/ FinishInference
    \/ CreateSimulationTsx \/ RunSimulations \/ CompareSimulationOutputs
    \/ RemoveBundle \/ PlaceBundle \/ WriteMarker \/ WriteRecord \/ ProjectionExpires
    \/ EnterRepair \/ StartAttempt \/ AttemptExpires \/ Decide \/ BudgetSpent
    \/ WaitForComponent

(* The agent and the simulator of an attempt, which may hang *)
Attempt == GenerateRepair \/ ValidateRepair \/ AttemptFails

WorkflowNext ==
    \/ Work \/ Attempt \/ Search \/ Tick \/ Extend \/ JobStep
    \/ Cancel \/ Stop \/ Restart \/ Retry \/ Ended

(* The stages run on the server's event loop, the clock advances, and a    *)
(* stopped server is started again.  Nothing is assumed of the job, of the *)
(* user, of what the agent does with its tools, or of the agent and the    *)
(* simulator of a repair attempt.                                          *)
Fairness == WF_workflowVars(Work) /\ WF_workflowVars(Tick) /\ WF_workflowVars(Restart)

WorkflowSpec == WorkflowInit /\ [][WorkflowNext]_workflowVars
FairWorkflowSpec == WorkflowSpec /\ Fairness

-----------------------------------------------------------------------------
(* What the model pipeline hands to publication is what the user sees: the *)
(* record, the marker's bundle and the incumbent are one candidate, and    *)
(* its evaluation is still on disk, whichever attempts were rejected, cut  *)
(* off by the budget or extended in between (repair-model.ts, "The best    *)
(* complete candidate remains visible").                                   *)
HandedOnIsShown ==
    pc \in {"component", "publish"} =>
        /\ incumbent # 0 /\ cands[incumbent].val
        /\ record.shown = Snapshot(incumbent)
        /\ record.rev = cands[incumbent].rev /\ record.dev = record.rev
        /\ marker = <<invocation, record.rev>>
        /\ bundles[marker] = record.shown

(* Within one run of the pipeline the evaluation shown never gets worse,   *)
(* a restart in the middle of a projection included, a rejected candidate  *)
(* is never shown (repair-model.ts: "the live TSX, simulation, and plots   *)
(* were left unchanged"), and HandedOnIsShown.                             *)
BestIsShown ==
    [][ /\ HandedOnIsShown'
        /\ (record.shown # Nothing /\ record'.shown # Nothing /\ invocation' = invocation)
               => /\ record'.shown.q <= record.shown.q
                  /\ cands[record'.shown.cand].fate # "rejected" ]_workflowVars

(* A retried run starts from an earlier candidate only if that one was     *)
(* shown as validated, never from a rejected or unevaluated repair, which  *)
(* may have the same revision (retainedCandidateForRetry).                 *)
ReuseNeverRejected ==
    [][ (pc = "infer" /\ pc' = "tsx") => cands[cur'].fate = "promoted" ]_workflowVars

(* The repair stage ends, with a candidate handed on or with the run's     *)
(* failure, even if the agent or the simulator of an attempt never         *)
(* answers and the user extends the budget meanwhile (the effort is        *)
(* bounded).                                                               *)
RepairEnds == pc = "loop" ~> pc \in {"component", "failed", "stopped"}
=============================================================================
