----------------------- MODULE ComponentWorkflowProofs -----------------------
(***************************************************************************)
(* Proofs about ComponentWorkflow: for any number of runs, candidates,     *)
(* drafts and stops of the server, a commit marker selects a whole         *)
(* revision, what a job shows was accepted, and an application is made for *)
(* one component.                                                          *)
(***************************************************************************)
EXTENDS ComponentWorkflow, TLAPS

Verdicts == {"pending", "passed", "failed", "warning"}
Statuses == {"active", "complete", "failed", "cancelled"}
Outcomes == {"none", "running", "completed", "failed", "cancelled"}

Recorded ==
    [status : Statuses, ready : BOOLEAN, code : Nat, circuit : Nat, component : Verdicts,
     application : Verdicts, shown : Nat, shownJson : Nat, pipelines : [Pipeline -> Outcomes]]

Labels == {"idle", "extract", "commit", "generate", "build", "validate", "repair", "publish",
           "write", "wait", "read", "plan", "check", "draft"}

Numbers == 0..(MaxCandidate + MaxModels)

TypeOK ==
    /\ candidates \in Numbers /\ drafts \in Nat
    /\ index = candidates /\ dist \in Numbers
    /\ built \in [candidate : Numbers, ok : BOOLEAN]
    /\ validation \in [candidate : Numbers, failing : SUBSET Footprint]
    /\ published \in [File -> Nat] /\ pending \in [File -> Nat] /\ seen \in [File -> Nat]
    /\ appSource \in Nat
    /\ appBuild \in [draft : Nat, ok : BOOLEAN]
    /\ appResult \in [draft : Nat, passed : BOOLEAN]
    /\ marker \in [Pipeline -> Nat] /\ dirs \in [Pipeline -> SUBSET Nat]
    /\ record \in Recorded
    /\ pc \in [Pipeline -> Labels] /\ runs \in [Pipeline -> Nat]
    /\ checked \subseteq File /\ overlap \in BOOLEAN
    /\ model \in [at : {"none", "copy", "captured", "mirror"}, source : Nat]
    /\ bundle \in Nat /\ crossed \in BOOLEAN

\* No file of the publication, and none the application run has seen of it, is newer
\* than candidate c, unless it is only part of one.
Fresh(c) ==
    /\ c \in 1..candidates
    /\ \A f \in File : /\ published[f] # Partial => published[f] <= c
                       /\ seen[f] # Partial => seen[f] <= c

\* The candidate that is built, validated and published is newer than what is published,
\* the one published passed with every footprint, and its source is the one in the
\* source file unless a model run replaced that.
Candidate ==
    /\ pc["component"] = "build" => index > 0
    /\ pc["component"] = "validate" => Fresh(built.candidate) /\ (crossed \/ built.candidate = index)
    /\ pc["component"] = "publish" =>
          /\ Fresh(validation.candidate) /\ validation.candidate \in passed
          /\ crossed \/ validation.candidate = index
    /\ pc["component"] = "write" =>
          /\ pending["json"] \in passed /\ pending["json"] > 0
          /\ pending["json"] <= pending["source"] /\ pending["source"] <= candidates
          /\ crossed \/ pending["source"] = pending["json"]
          /\ \A f \in File : /\ published[f] # Partial => published[f] <= pending[f]
                             /\ seen[f] # Partial => seen[f] <= pending[f]

\* The published Circuit JSON is part of a candidate or one that passed, so is the source
\* as long as no model run came across, and neither is older than what the application run
\* has seen of it.
Publication ==
    /\ published["json"] \in passed \cup {None, Partial}
    /\ crossed \/ published["source"] \in passed \cup {None, Partial}
    /\ \A f \in File :
         /\ published[f] # Partial => published[f] <= candidates
         /\ seen[f] # Partial => seen[f] <= candidates
         /\ seen[f] # Partial /\ published[f] # Partial => seen[f] <= published[f]

\* A file compared while no publication was torn holds a candidate that passed, the
\* newest the run has seen, and the publication never goes back behind it.
Compared ==
    pc["application"] = "check" /\ ~overlap =>
      \A f \in checked :
        /\ seen[f] \in passed /\ seen[f] # Partial
        /\ \A g \in File : published[g] # Partial => seen[f] <= published[g]
        /\ \A g \in File : seen[g] # Partial => seen[g] <= seen[f]
        /\ pc["component"] = "write" => seen[f] <= pending["json"]

\* The record shows the component of the model publication.
ShowsModel == bundle # None /\ record.code = bundle /\ record.circuit = bundle

\* A ready job shows what is published, alone or with a model, once the preview of a
\* candidate is over.
Ready ==
    /\ pc["component"] \in {"publish", "write"} => preview \/ ShowsModel
    /\ record.ready /\ ~preview /\ Whole =>
         ShowsModel \/ (record.code = published["source"] /\ record.circuit = published["json"])

\* A model run takes a component that passed, unless one came across its publication.
Model ==
    /\ model.at = "captured" /\ model.source \notin {None, Partial} => model.source \in passed \/ crossed
    /\ bundle # None => bundle \in passed \/ crossed

Supplied == {"read", "plan", "check", "draft", "build", "validate", "repair", "publish"}

\* A run completed, an application run found the component, or a model run took it.
Used ==
    \/ record.status = "complete" \/ record.pipelines["component"] = "completed"
    \/ record.pipelines["application"] = "completed" \/ pc["application"] \in Supplied
    \/ model.at # "none" \/ bundle # None

\* Both files of a component in use are there.
Present == Used => \A f \in File : published[f] # None

\* A validation record that says passed is of an approved draft, the one in the source
\* file unless a run is about to validate another or was stopped before it did.
Verdict ==
    /\ pc["application"] = "validate" => appBuild.draft = appSource
    /\ pc["application"] = "repair" => ~appResult.passed
    /\ pc["application"] = "publish" /\ appResult.passed => appSource = appResult.draft
    /\ appResult.passed => appResult.draft \in approved
    /\ appResult.passed /\ appSource \notin {None, appResult.draft} =>
          "directory" \in stopped \/ Undecided

\* What the record shows of an application was approved.
Shown ==
    record.shown # None => /\ record.shownJson \in approved
                           /\ record.shown = record.shownJson \/ "record" \in stopped

IInv == /\ TypeOK /\ Candidate /\ Publication /\ Compared /\ Ready /\ Verdict /\ Shown
        /\ Model /\ Present /\ MarkerSelectsRevision /\ AcceptedComponentIsOne

-----------------------------------------------------------------------------
\* A new job satisfies the invariant.
LEMMA InitIInv == Init => IInv
<1> SUFFICES ASSUME Init PROVE IInv
  OBVIOUS
<1>1. MaxCandidate \in Nat /\ MaxModels \in Nat /\ 0 \in Numbers
  BY WorkflowAssumption DEF Numbers
<1>2. record \in Recorded
  BY DEF Init, Recorded, None, Verdicts, Statuses, Outcomes
<1>3. TypeOK
  <2>1. /\ built \in [candidate : Numbers, ok : BOOLEAN]
        /\ validation \in [candidate : Numbers, failing : SUBSET Footprint]
        /\ appBuild \in [draft : Nat, ok : BOOLEAN] /\ appResult \in [draft : Nat, passed : BOOLEAN]
    BY <1>1 DEF Init, None
  <2>2. published \in [File -> Nat] /\ pending \in [File -> Nat] /\ seen \in [File -> Nat]
    BY DEF Init, None, Pair
  <2>3. /\ marker \in [Pipeline -> Nat] /\ dirs \in [Pipeline -> SUBSET Nat]
        /\ pc \in [Pipeline -> Labels] /\ runs \in [Pipeline -> Nat]
    BY DEF Init, None, Labels
  <2> QED
    BY <1>1, <1>2, <2>1, <2>2, <2>3 DEF Init, TypeOK, NoModel, None
<1>4. ~record.ready /\ record.shown = None
  BY DEF Init
<1>5. Candidate /\ Compared /\ Ready /\ Verdict /\ Shown
  BY <1>4 DEF Init, Candidate, Compared, Ready, Verdict, Shown, Pipeline
<1>8. Model /\ Present
  BY DEF Init, NoModel, Model, Present, Used, Supplied, Pipeline
<1>6. Publication
  BY <1>1 DEF Init, Publication, Pair, File, None, Partial
<1>7. MarkerSelectsRevision /\ AcceptedComponentIsOne
  BY DEF Init, MarkerSelectsRevision, AcceptedComponentIsOne, Pipeline
<1> QED
  BY <1>3, <1>5, <1>6, <1>7, <1>8 DEF IInv

\* The end of a run changes nothing the job shows, and only a run that completed makes the
\* job complete.
LEMMA EndRecord ==
  ASSUME record \in Recorded, NEW p \in Pipeline, NEW outcome \in {"completed", "cancelled", "failed"}
  PROVE  /\ End(p, outcome) \in Recorded
         /\ End(p, outcome).ready = record.ready
         /\ End(p, outcome).code = record.code /\ End(p, outcome).circuit = record.circuit
         /\ End(p, outcome).shown = record.shown /\ End(p, outcome).shownJson = record.shownJson
         /\ outcome # "completed" =>
               /\ End(p, outcome).status # "complete"
               /\ \A q \in Pipeline : End(p, outcome).pipelines[q] = "completed"
                                      => record.pipelines[q] = "completed"
<1> DEFINE other == CHOOSE q \in Pipeline : q # p
           result == IF outcome = "completed" THEN "complete" ELSE outcome
           status == Status(p, result, record.pipelines[other])
<1>1. status \in Statuses /\ (outcome # "completed" => status # "complete")
  BY DEF Status, Statuses
<1>2. End(p, outcome) = [record EXCEPT !.pipelines[p] = outcome, !.status = status]
  BY DEF End
<1>3. outcome \in Outcomes
  BY DEF Outcomes
<1> HIDE DEF status
<1> QED
  BY <1>1, <1>2, <1>3 DEF Recorded

-----------------------------------------------------------------------------
(* One lemma per kind of step *)

\* The commits of the evidence preserve the invariant: a revision is whole before its marker
\* selects it.
LEMMA EvidenceIInv ==
  ASSUME IInv, UNCHANGED modelVars, NEW p \in Pipeline,
         PrepareEvidence(p) \/ CommitEvidence \/ CommitApplicationEvidence
  PROVE  IInv'
<1> USE DEF IInv, Pipeline, File, disk, appDisk, history, modelVars, Numbers
<1>0. MaxCandidate \in Nat /\ MaxModels \in Nat /\ Partial = MaxCandidate + MaxModels + 1
  BY WorkflowAssumption DEF Partial
<1>1. CASE PrepareEvidence(p)
  <2>1. TypeOK'
    BY <1>1 DEF PrepareEvidence, Stage, TypeOK, Labels
  <2>2. Candidate'
    BY <1>1 DEF PrepareEvidence, Stage, Candidate, Fresh, TypeOK
  <2>3. Publication'
    BY <1>1 DEF PrepareEvidence, Stage, Publication, TypeOK
  <2>4. Compared'
    BY <1>1 DEF PrepareEvidence, Stage, Compared, TypeOK
  <2>5. Ready' /\ Shown'
    BY <1>1 DEF PrepareEvidence, Stage, Ready, ShowsModel, Shown, Whole, TypeOK, Recorded
  <2>6. Verdict'
    BY <1>1 DEF PrepareEvidence, Stage, Verdict, Undecided, TypeOK
  <2>7. MarkerSelectsRevision' /\ AcceptedComponentIsOne'
    BY <1>1 DEF PrepareEvidence, Stage, MarkerSelectsRevision, AcceptedComponentIsOne, TypeOK
  <2>8. Model' /\ Present'
    BY <1>1 DEF PrepareEvidence, Stage, Model, Present, Used, Supplied, TypeOK
  <2> QED
    BY <2>1, <2>2, <2>3, <2>4, <2>5, <2>6, <2>7, <2>8
<1>2. CASE CommitEvidence
  <2>1. TypeOK'
    BY <1>2 DEF CommitEvidence, Stage, SelectRevision, TypeOK, Labels
  <2>2. Candidate'
    BY <1>2 DEF CommitEvidence, Stage, SelectRevision, Candidate, Fresh, TypeOK
  <2>3. Publication'
    BY <1>2 DEF CommitEvidence, Stage, SelectRevision, Publication, TypeOK
  <2>4. Compared'
    BY <1>2 DEF CommitEvidence, Stage, SelectRevision, Compared, TypeOK
  <2>5. Ready' /\ Shown'
    BY <1>2 DEF CommitEvidence, Stage, SelectRevision, Ready, ShowsModel, Shown, Whole, TypeOK,
                Recorded
  <2>6. Verdict'
    BY <1>2 DEF CommitEvidence, Stage, SelectRevision, Verdict, Undecided, TypeOK
  <2>7. MarkerSelectsRevision' /\ AcceptedComponentIsOne'
    BY <1>2 DEF CommitEvidence, Stage, SelectRevision, MarkerSelectsRevision,
                AcceptedComponentIsOne, TypeOK
  <2>8. Model' /\ Present'
    BY <1>2 DEF CommitEvidence, Stage, SelectRevision, Model, Present, Used, Supplied, TypeOK
  <2> QED
    BY <2>1, <2>2, <2>3, <2>4, <2>5, <2>6, <2>7, <2>8
<1>3. CASE CommitApplicationEvidence
  <2>1. TypeOK'
    BY <1>3 DEF CommitApplicationEvidence, Stage, SelectRevision, TypeOK, Labels
  <2>2. Candidate'
    BY <1>3 DEF CommitApplicationEvidence, Stage, SelectRevision, Candidate, Fresh, TypeOK
  <2>3. Publication'
    BY <1>3 DEF CommitApplicationEvidence, Stage, SelectRevision, Publication, TypeOK
  <2>4. Compared'
    BY <1>3 DEF CommitApplicationEvidence, Stage, SelectRevision, Compared, TypeOK
  <2>5. Ready' /\ Shown'
    BY <1>3 DEF CommitApplicationEvidence, Stage, SelectRevision, Ready, ShowsModel, Shown,
                Whole, TypeOK,
                Recorded
  <2>6. Verdict'
    BY <1>3 DEF CommitApplicationEvidence, Stage, SelectRevision, Verdict, Undecided, TypeOK
  <2>7. MarkerSelectsRevision' /\ AcceptedComponentIsOne'
    BY <1>3 DEF CommitApplicationEvidence, Stage, SelectRevision, MarkerSelectsRevision,
                AcceptedComponentIsOne, TypeOK
  <2>8. Model' /\ Present'
    BY <1>3 DEF CommitApplicationEvidence, Stage, SelectRevision, Model, Present, Used,
                Supplied,
                TypeOK
  <2> QED
    BY <2>1, <2>2, <2>3, <2>4, <2>5, <2>6, <2>7, <2>8
<1> QED
  BY <1>1, <1>2, <1>3

\* So do the steps that make, build and validate a candidate: only the last shows it.
LEMMA CandidateIInv ==
  ASSUME IInv, UNCHANGED modelVars,
         \/ GenerateComponent \/ RepairComponent \/ ClearBuildOutput
         \/ BuildComponent \/ ValidateComponent
  PROVE  IInv'
<1> USE DEF IInv, Pipeline, File, disk, appDisk, history, modelVars, Numbers
<1>0. MaxCandidate \in Nat /\ MaxModels \in Nat /\ Partial = MaxCandidate + MaxModels + 1
  BY WorkflowAssumption DEF Partial
<1>1. CASE GenerateComponent
  <2>1. TypeOK'
    BY <1>0, <1>1 DEF GenerateComponent, GenerateComponentSource, Stage, TypeOK, Labels
  <2>2. Candidate'
    BY <1>1 DEF GenerateComponent, GenerateComponentSource, Stage, Candidate, Fresh, TypeOK
  <2>3. Publication'
    BY <1>1 DEF GenerateComponent, GenerateComponentSource, Stage, Publication, TypeOK
  <2>4. Compared'
    BY <1>1 DEF GenerateComponent, GenerateComponentSource, Stage, Compared, TypeOK
  <2>5. Ready' /\ Shown'
    BY <1>1 DEF GenerateComponent, GenerateComponentSource, Stage, Ready, ShowsModel, Shown,
                Whole, TypeOK,
                Recorded
  <2>6. Verdict'
    BY <1>1 DEF GenerateComponent, GenerateComponentSource, Stage, Verdict, Undecided, TypeOK
  <2>7. MarkerSelectsRevision' /\ AcceptedComponentIsOne'
    BY <1>1 DEF GenerateComponent, GenerateComponentSource, Stage, MarkerSelectsRevision,
                AcceptedComponentIsOne, TypeOK
  <2>8. Model' /\ Present'
    BY <1>1 DEF GenerateComponent, GenerateComponentSource, Stage, Model, Present, Used,
                Supplied,
                TypeOK
  <2> QED
    BY <2>1, <2>2, <2>3, <2>4, <2>5, <2>6, <2>7, <2>8
<1>2. CASE RepairComponent
  <2>1. TypeOK'
    BY <1>0, <1>2 DEF RepairComponent, GenerateComponentSource, Stage, TypeOK, Labels
  <2>2. Candidate'
    BY <1>2 DEF RepairComponent, GenerateComponentSource, Stage, Candidate, Fresh, TypeOK
  <2>3. Publication'
    BY <1>2 DEF RepairComponent, GenerateComponentSource, Stage, Publication, TypeOK
  <2>4. Compared'
    BY <1>2 DEF RepairComponent, GenerateComponentSource, Stage, Compared, TypeOK
  <2>5. Ready' /\ Shown'
    BY <1>2 DEF RepairComponent, GenerateComponentSource, Stage, Ready, ShowsModel, Shown,
                Whole, TypeOK,
                Recorded
  <2>6. Verdict'
    BY <1>2 DEF RepairComponent, GenerateComponentSource, Stage, Verdict, Undecided, TypeOK
  <2>7. MarkerSelectsRevision' /\ AcceptedComponentIsOne'
    BY <1>2 DEF RepairComponent, GenerateComponentSource, Stage, MarkerSelectsRevision,
                AcceptedComponentIsOne, TypeOK
  <2>8. Model' /\ Present'
    BY <1>2 DEF RepairComponent, GenerateComponentSource, Stage, Model, Present, Used, Supplied,
                TypeOK
  <2> QED
    BY <2>1, <2>2, <2>3, <2>4, <2>5, <2>6, <2>7, <2>8
<1>3. CASE ClearBuildOutput
  <2>1. TypeOK'
    BY <1>0, <1>3 DEF ClearBuildOutput, Stage, None, TypeOK, Labels
  <2>2. Candidate'
    BY <1>3 DEF ClearBuildOutput, Stage, Candidate, Fresh, TypeOK
  <2>3. Publication'
    BY <1>3 DEF ClearBuildOutput, Stage, Publication, TypeOK
  <2>4. Compared'
    BY <1>3 DEF ClearBuildOutput, Stage, Compared, TypeOK
  <2>5. Ready' /\ Shown'
    BY <1>3 DEF ClearBuildOutput, Stage, Ready, ShowsModel, Shown, Whole, TypeOK, Recorded
  <2>6. Verdict'
    BY <1>3 DEF ClearBuildOutput, Stage, Verdict, Undecided, TypeOK
  <2>7. MarkerSelectsRevision' /\ AcceptedComponentIsOne'
    BY <1>3 DEF ClearBuildOutput, Stage, MarkerSelectsRevision, AcceptedComponentIsOne, TypeOK
  <2>8. Model' /\ Present'
    BY <1>3 DEF ClearBuildOutput, Stage, Model, Present, Used, Supplied, TypeOK
  <2> QED
    BY <2>1, <2>2, <2>3, <2>4, <2>5, <2>6, <2>7, <2>8
<1>4. CASE BuildComponent
  <2>1. TypeOK'
    <3>1. built' \in [candidate : Numbers, ok : BOOLEAN]
      BY <1>4 DEF BuildComponent, ComponentBuilds, TypeOK
    <3>2. dist' \in Numbers
      BY <1>0, <1>4 DEF BuildComponent, BuildOutput, None, TypeOK
    <3> QED
      BY <1>4, <3>1, <3>2 DEF BuildComponent, Stage, TypeOK, Labels
  <2>2. Candidate'
    <3>1. /\ pc["component"] = "build" /\ built'.candidate = index
          /\ pc' = [pc EXCEPT !["component"] = "validate"]
          /\ UNCHANGED <<index, candidates, published, seen>>
      BY <1>4 DEF BuildComponent, ComponentBuilds, Stage
    <3>2. index \in 1..candidates
      BY <1>0, <3>1 DEF Candidate, TypeOK
    <3>3. \A f \in File : /\ published[f] # Partial => published[f] <= index
                          /\ seen[f] # Partial => seen[f] <= index
      BY DEF Publication, TypeOK
    <3>4. Fresh(built.candidate)'
      BY <3>1, <3>2, <3>3 DEF Fresh
    <3> QED
      BY <3>1, <3>4 DEF Candidate, TypeOK
  <2>3. Publication'
    BY <1>4 DEF BuildComponent, ComponentBuilds, BuildOutput, Stage, Publication, TypeOK
  <2>4. Compared'
    BY <1>4 DEF BuildComponent, ComponentBuilds, BuildOutput, Stage, Compared, TypeOK
  <2>5. Ready' /\ Shown'
    BY <1>4 DEF BuildComponent, ComponentBuilds, BuildOutput, Stage, Ready, ShowsModel, Shown,
                Whole,
                TypeOK, Recorded
  <2>6. Verdict'
    BY <1>4 DEF BuildComponent, ComponentBuilds, BuildOutput, Stage, Verdict, Undecided, TypeOK
  <2>7. MarkerSelectsRevision' /\ AcceptedComponentIsOne'
    BY <1>4 DEF BuildComponent, ComponentBuilds, BuildOutput, Stage, MarkerSelectsRevision,
                AcceptedComponentIsOne, TypeOK
  <2>8. Model' /\ Present'
    BY <1>4 DEF BuildComponent, ComponentBuilds, BuildOutput, Stage, Model, Present, Used,
                Supplied,
                TypeOK
  <2> QED
    BY <2>1, <2>2, <2>3, <2>4, <2>5, <2>6, <2>7, <2>8
<1>5. CASE ValidateComponent
  <2>a. PICK failing \in FailingFootprints :
          /\ pc' = [pc EXCEPT !["component"] = IF failing = {} THEN "publish" ELSE "repair"]
          /\ validation' = [candidate |-> built.candidate, failing |-> failing]
          /\ passed' = IF failing = {} THEN passed \union {built.candidate} ELSE passed
          /\ record' = [record EXCEPT !.component = IF "default" \in failing THEN "failed" ELSE "passed",
                                      !.code = index,
                                      !.circuit = IF built.ok THEN built.candidate ELSE None]
    BY <1>5 DEF ValidateComponent, Stage
  <2>b. /\ pc["component"] = "validate" /\ preview' = TRUE
        /\ UNCHANGED <<marker, dirs, index, dist, built, published, appDisk, runs, repairs, pending,
                       seen, checked, candidates, drafts, approved, overlap, stopped>>
    BY <1>5 DEF ValidateComponent, Stage
  <2>c. /\ record' \in Recorded
        /\ record'.shown = record.shown /\ record'.shownJson = record.shownJson
        /\ record'.status = record.status /\ record'.pipelines = record.pipelines
    <3>1. index \in Nat /\ (IF built.ok THEN built.candidate ELSE None) \in Nat
      BY <1>0 DEF TypeOK, None
    <3>2. (IF "default" \in failing THEN "failed" ELSE "passed") \in Verdicts
      BY DEF Verdicts
    <3> QED
      BY <2>a, <3>1, <3>2 DEF TypeOK, Recorded
  <2>d. failing \subseteq Footprint
    BY <2>a DEF FailingFootprints
  <2>1. TypeOK'
    BY <2>a, <2>b, <2>c, <2>d DEF TypeOK, Labels
  <2>2. Candidate'
    BY <2>a, <2>b, <2>c, <2>d DEF Candidate, Fresh, TypeOK
  <2>3. Publication'
    BY <2>a, <2>b, <2>c, <2>d DEF Publication, TypeOK
  <2>4. Compared'
    BY <2>a, <2>b, <2>c, <2>d DEF Compared, TypeOK
  <2>5. Ready' /\ Shown'
    BY <2>b, <2>c DEF Ready, ShowsModel, Shown
  <2>6. Verdict'
    BY <2>a, <2>b, <2>c, <2>d DEF Verdict, Undecided, TypeOK
  <2>7. MarkerSelectsRevision' /\ AcceptedComponentIsOne'
    BY <2>a, <2>b, <2>c, <2>d DEF MarkerSelectsRevision, AcceptedComponentIsOne, TypeOK
  <2>8. Model' /\ Present'
    BY <2>a, <2>b, <2>c, <2>d DEF Model, Present, Used, Supplied, TypeOK
  <2> QED
    BY <2>1, <2>2, <2>3, <2>4, <2>5, <2>6, <2>7, <2>8
<1> QED
  BY <1>1, <1>2, <1>3, <1>4, <1>5

\* So does the publication of the two files, in whatever order they are written.
LEMMA PublicationIInv ==
  ASSUME IInv, UNCHANGED modelVars, NEW f \in File,
         ReadPublication \/ WriteFile(f) \/ FinishPublication
  PROVE  IInv'
<1> USE DEF IInv, Pipeline, File, disk, appDisk, history, modelVars, Numbers
<1>0. MaxCandidate \in Nat /\ MaxModels \in Nat /\ Partial = MaxCandidate + MaxModels + 1
  BY WorkflowAssumption DEF Partial
<1>1. CASE ReadPublication
  <2>a. /\ pc["component"] = "publish" /\ pc' = [pc EXCEPT !["component"] = "write"]
        /\ pending' = [source |-> index, json |-> validation.candidate]
        /\ pending'["source"] = index /\ pending'["json"] = validation.candidate
        /\ UNCHANGED <<disk, appDisk, record, seen, checked, candidates, passed, overlap>>
    BY <1>1 DEF ReadPublication, Stage
  <2>b. /\ Fresh(validation.candidate) /\ validation.candidate \in passed
        /\ crossed \/ validation.candidate = index
        /\ validation.candidate \in Nat /\ index \in Nat /\ candidates = index
    BY <1>0, <2>a DEF Candidate, TypeOK
  <2>d. \A g \in File : /\ published[g] \in Nat /\ seen[g] \in Nat
                        /\ published[g] # Partial => published[g] <= validation.candidate
                        /\ seen[g] # Partial => seen[g] <= validation.candidate
    <3>1. \A g \in File : published[g] \in Nat /\ seen[g] \in Nat
      BY DEF TypeOK
    <3>2. Fresh(validation.candidate) /\ validation.candidate \in Nat
      BY <2>b
    <3> HIDE DEF IInv
    <3> QED
      BY <1>0, <3>1, <3>2 DEF Fresh
  <2>c. pc'["component"] = "write" /\ pc'["application"] = pc["application"]
    BY <2>a DEF TypeOK
  <2>1. TypeOK'
    BY <1>1, <2>b DEF ReadPublication, Stage, TypeOK, Labels
  <2>2. Candidate'
    <3>1. validation.candidate > 0 /\ validation.candidate <= index
      BY <2>b DEF Fresh
    <3>2. \A g \in File : pending'[g] \in Nat /\ validation.candidate <= pending'[g]
      BY <2>a, <2>b, <3>1
    <3>3. \A g \in File : /\ published[g] # Partial => published[g] <= pending'[g]
                          /\ seen[g] # Partial => seen[g] <= pending'[g]
      <4> SUFFICES ASSUME NEW g \in File
                   PROVE  /\ published[g] # Partial => published[g] <= pending'[g]
                          /\ seen[g] # Partial => seen[g] <= pending'[g]
        OBVIOUS
      <4>1. /\ published[g] \in Nat /\ seen[g] \in Nat
            /\ published[g] # Partial => published[g] <= validation.candidate
            /\ seen[g] # Partial => seen[g] <= validation.candidate
        BY <2>d
      <4>2. pending'[g] \in Nat /\ validation.candidate <= pending'[g]
        BY <3>2
      <4> HIDE DEF IInv, File
      <4> QED
        BY <2>b, <4>1, <4>2
    <3> QED
      BY <2>a, <2>b, <2>c, <3>1, <3>3 DEF Candidate
  <2>3. Publication'
    BY <2>a DEF Publication
  <2>4. Compared'
    <3>1. checked \subseteq File /\ Compared
      BY DEF TypeOK
    <3>2. ASSUME NEW h \in checked, seen[h] # Partial PROVE seen[h] <= pending'["json"]
      BY <2>a, <2>d, <3>1, <3>2
    <3> HIDE DEF IInv, File
    <3> QED
      BY <2>a, <2>c, <3>1, <3>2 DEF Compared
  <2>5. Ready' /\ Shown'
    BY <1>1 DEF ReadPublication, Stage, Pair, Ready, ShowsModel, Shown, Whole, TypeOK, Recorded
  <2>6. Verdict'
    BY <1>1 DEF ReadPublication, Stage, Pair, Verdict, Undecided, TypeOK
  <2>7. MarkerSelectsRevision' /\ AcceptedComponentIsOne'
    BY <1>1 DEF ReadPublication, Stage, Pair, MarkerSelectsRevision, AcceptedComponentIsOne,
                TypeOK
  <2>8. Model' /\ Present'
    BY <1>1 DEF ReadPublication, Stage, Pair, Model, Present, Used, Supplied, TypeOK
  <2> QED
    BY <2>1, <2>2, <2>3, <2>4, <2>5, <2>6, <2>7, <2>8
<1>2. CASE WriteFile(f)
  <2>a. /\ pc["component"] = "write" /\ (preview \/ ShowsModel)
        /\ published' = [published EXCEPT ![f] = IF @ = Partial THEN pending[f] ELSE Partial]
        /\ UNCHANGED <<marker, dirs, index, dist, built, validation, appDisk, record, pc, runs, aborted,
                       repairs, pending, seen, checked, history>>
    BY <1>2 DEF WriteFile, Ready
  <2>b. PICK v \in {Partial, pending[f]} :
          published'[f] = v /\ \A g \in File : g # f => published'[g] = published[g]
    BY <2>a DEF TypeOK
  <2>c. \A g \in File : pending[g] \in Nat /\ published[g] \in Nat /\ seen[g] \in Nat
    BY DEF TypeOK
  <2>d. candidates \in Nat /\ Partial \in Nat /\ Partial > 0
    BY <1>0 DEF TypeOK
  <2>e. \A g \in File : pending["json"] <= pending[g] /\ pending[g] > 0 /\ pending[g] <= candidates
    BY <2>a, <2>c, <2>d DEF Candidate
  <2>f. \A g \in File : /\ published[g] # Partial => published[g] <= pending[g]
                        /\ seen[g] # Partial => seen[g] <= pending[g]
    BY <2>a DEF Candidate
  <2>g. v \in Nat /\ v > 0 /\ (v # Partial => v = pending[f])
    BY <2>b, <2>c, <2>d, <2>e
  <2>h. "source" \in File /\ "json" \in File /\ checked \subseteq File
    BY DEF TypeOK
  <2>1. TypeOK'
    BY <2>a, <2>c, <2>d DEF TypeOK, Labels
  <2>2. Candidate'
    <3>1. \A g \in File : published'[g] # Partial => published'[g] <= pending[g]
      <4>1. ASSUME NEW g \in File, published'[g] # Partial PROVE published'[g] <= pending[g]
        <5>1. CASE g = f
          BY <2>b, <2>c, <2>g, <4>1, <5>1
        <5>2. CASE g # f
          BY <2>b, <2>f, <4>1, <5>2
        <5> QED
          BY <5>1, <5>2
      <4> QED
        BY <4>1
    <3>2. UNCHANGED <<pc, pending, passed, candidates, seen>> /\ pc["component"] = "write" /\ Candidate
      BY <2>a
    <3> HIDE DEF IInv, File
    <3> QED
      BY <3>1, <3>2 DEF Candidate
  <2>3. Publication'
    <3>1. published'["json"] \in passed \cup {None, Partial}
      BY <2>a, <2>b, <2>g DEF Publication, Candidate
    <3>2. crossed \/ published'["source"] \in passed \cup {None, Partial}
      BY <2>a, <2>b, <2>g DEF Publication, Candidate
    <3>3. \A g \in File : /\ published'[g] # Partial => published'[g] <= candidates
                          /\ seen[g] # Partial => seen[g] <= candidates
                          /\ seen[g] # Partial /\ published'[g] # Partial => seen[g] <= published'[g]
      <4>1. \A g \in File : /\ published[g] # Partial => published[g] <= candidates
                            /\ seen[g] # Partial => seen[g] <= candidates
                            /\ seen[g] # Partial /\ published[g] # Partial => seen[g] <= published[g]
        BY DEF Publication
      <4>2. ASSUME NEW g \in File
            PROVE  /\ published'[g] # Partial => published'[g] <= candidates
                   /\ seen[g] # Partial /\ published'[g] # Partial => seen[g] <= published'[g]
        <5>1. CASE g = f
          <6>1. pending[g] <= candidates /\ (seen[g] # Partial => seen[g] <= pending[g])
            BY <2>e, <2>f, <4>2
          <6>2. published'[g] # Partial => published'[g] = pending[g]
            BY <2>b, <2>g, <5>1
          <6> QED
            BY <6>1, <6>2
        <5>2. CASE g # f
          BY <2>b, <4>1, <4>2, <5>2
        <5> QED
          BY <5>1, <5>2
      <4> QED
        BY <4>1, <4>2
    <3>4. UNCHANGED <<passed, candidates, seen>>
      BY <2>a
    <3> HIDE DEF IInv, File
    <3> QED
      BY <3>1, <3>2, <3>3, <3>4 DEF Publication
  <2>4. Compared'
    <3>1. Compared
      OBVIOUS
    <3> HIDE DEF IInv, File
    <3>2. ASSUME NEW h \in checked, pc["application"] = "check", ~overlap
          PROVE  \A g \in File : published'[g] # Partial => seen[h] <= published'[g]
      <4>1. /\ h \in File /\ seen[h] <= pending["json"]
            /\ \A g \in File : published[g] # Partial => seen[h] <= published[g]
        BY <2>a, <2>h, <3>1, <3>2 DEF Compared
      <4>2. \A g \in File : seen[h] <= pending[g]
        BY <2>c, <2>e, <2>h, <4>1
      <4> QED
        BY <2>b, <2>g, <4>1, <4>2
    <3> QED
      BY <2>a, <3>1, <3>2 DEF Compared
  <2>5. Ready' /\ Shown'
    BY <2>a DEF Ready, ShowsModel, Shown
  <2>6. Verdict'
    BY <2>a DEF Verdict, Undecided
  <2>7. MarkerSelectsRevision' /\ AcceptedComponentIsOne'
    BY <2>a DEF MarkerSelectsRevision, AcceptedComponentIsOne
  <2>8. Model' /\ Present'
    BY <2>a, <2>b, <2>g DEF Model, Present, Used, None
  <2> QED
    BY <2>1, <2>2, <2>3, <2>4, <2>5, <2>6, <2>7, <2>8
<1>3. CASE FinishPublication
  <2>a. /\ pc["component"] = "write" /\ published = pending
        /\ pc' = [pc EXCEPT !["component"] = "idle"]
        /\ record' = [End("component", "completed") EXCEPT
                        !.ready = TRUE, !.code = pending["source"], !.circuit = pending["json"]]
        /\ pending' = Pair(None)
        /\ UNCHANGED <<disk, appDisk, runs, aborted, seen, checked, overlap, candidates, drafts,
                       crashes, passed, approved, stopped>>
    BY <1>3 DEF FinishPublication, Forget, TypeOK
  <2>b. /\ record' \in Recorded
        /\ record'.code = pending["source"] /\ record'.circuit = pending["json"]
        /\ record'.shown = record.shown /\ record'.shownJson = record.shownJson
    <3> DEFINE ended == End("component", "completed")
    <3>1. ended \in Recorded /\ ended.shown = record.shown /\ ended.shownJson = record.shownJson
      BY EndRecord DEF TypeOK
    <3>2. record' = [ended EXCEPT !.ready = TRUE, !.code = pending["source"], !.circuit = pending["json"]]
      BY <2>a
    <3>3. pending["source"] \in Nat /\ pending["json"] \in Nat
      BY DEF TypeOK
    <3> HIDE DEF ended
    <3> QED
      BY <3>1, <3>2, <3>3 DEF Recorded
  <2>1. TypeOK'
    BY <2>a, <2>b DEF Pair, None, TypeOK, Labels
  <2>2. Candidate'
    BY <2>a, <2>b DEF Candidate, Fresh, TypeOK
  <2>3. Publication'
    BY <2>a, <2>b DEF Publication, TypeOK
  <2>4. Compared'
    BY <2>a, <2>b DEF Compared, TypeOK
  <2>5. Ready' /\ Shown'
    BY <2>a, <2>b DEF Ready, ShowsModel, Shown, Whole, TypeOK
  <2>6. Verdict'
    BY <2>a, <2>b DEF Verdict, Undecided, TypeOK
  <2>7. MarkerSelectsRevision' /\ AcceptedComponentIsOne'
    BY <2>a, <2>b DEF MarkerSelectsRevision, AcceptedComponentIsOne, TypeOK
  <2>8. Model' /\ Present'
    <3>1. \A g \in File : pending[g] > 0
      BY <1>0, <2>a DEF Candidate, TypeOK
    <3>2. \A g \in File : published'[g] # None
      BY <2>a, <3>1 DEF None
    <3> QED
      BY <2>a, <3>2 DEF Model, Present
  <2> QED
    BY <2>1, <2>2, <2>3, <2>4, <2>5, <2>6, <2>7, <2>8
<1> QED
  BY <1>1, <1>2, <1>3

\* So do the steps by which an application run finds, reads and compares the component.
LEMMA InputIInv ==
  ASSUME IInv, UNCHANGED modelVars, NEW f \in File,
         WaitFound \/ WaitRead(f) \/ PlanApplications \/ CheckInput(f)
  PROVE  IInv'
<1> USE DEF IInv, Pipeline, File, disk, appDisk, history, modelVars, Numbers
<1>0. MaxCandidate \in Nat /\ MaxModels \in Nat /\ Partial = MaxCandidate + MaxModels + 1
  BY WorkflowAssumption DEF Partial
<1>1. CASE WaitFound
  <2>1. TypeOK'
    BY <1>1 DEF WaitFound, Stage, TypeOK, Labels
  <2>2. Candidate'
    BY <1>1 DEF WaitFound, Stage, Candidate, Fresh, TypeOK
  <2>3. Publication'
    BY <1>1 DEF WaitFound, Stage, Publication, TypeOK
  <2>4. Compared'
    BY <1>1 DEF WaitFound, Stage, Compared, TypeOK
  <2>5. Ready' /\ Shown'
    BY <1>1 DEF WaitFound, Stage, Ready, ShowsModel, Shown, Whole, TypeOK, Recorded
  <2>6. Verdict'
    BY <1>1 DEF WaitFound, Stage, Verdict, Undecided, TypeOK
  <2>7. MarkerSelectsRevision' /\ AcceptedComponentIsOne'
    BY <1>1 DEF WaitFound, Stage, MarkerSelectsRevision, AcceptedComponentIsOne, TypeOK
  <2>8. Model' /\ Present'
    BY <1>1 DEF WaitFound, Exists, Stage, Model, Present
  <2> QED
    BY <2>1, <2>2, <2>3, <2>4, <2>5, <2>6, <2>7, <2>8
<1>2. CASE WaitRead(f)
  <2>1. TypeOK'
    BY <1>2 DEF WaitRead, TypeOK, Labels
  <2>2. Candidate'
    BY <1>2 DEF WaitRead, Candidate, Fresh, TypeOK
  <2>3. Publication'
    BY <1>2 DEF WaitRead, Publication, TypeOK
  <2>4. Compared'
    BY <1>2 DEF WaitRead, Compared, TypeOK
  <2>5. Ready' /\ Shown'
    BY <1>2 DEF WaitRead, Ready, ShowsModel, Shown, Whole, TypeOK, Recorded
  <2>6. Verdict'
    BY <1>2 DEF WaitRead, Verdict, Undecided, TypeOK
  <2>7. MarkerSelectsRevision' /\ AcceptedComponentIsOne'
    BY <1>2 DEF WaitRead, MarkerSelectsRevision, AcceptedComponentIsOne, TypeOK
  <2>8. Model' /\ Present'
    BY <1>2 DEF WaitRead, Model, Present, Used, Supplied, TypeOK
  <2> QED
    BY <2>1, <2>2, <2>3, <2>4, <2>5, <2>6, <2>7, <2>8
<1>3. CASE PlanApplications
  <2>1. TypeOK'
    BY <1>3 DEF PlanApplications, Stage, TypeOK, Labels
  <2>2. Candidate'
    BY <1>3 DEF PlanApplications, Stage, Candidate, Fresh, TypeOK
  <2>3. Publication'
    BY <1>3 DEF PlanApplications, Stage, Publication, TypeOK
  <2>4. Compared'
    BY <1>3 DEF PlanApplications, Stage, Compared, TypeOK
  <2>5. Ready' /\ Shown'
    BY <1>3 DEF PlanApplications, Stage, Ready, ShowsModel, Shown, Whole, TypeOK, Recorded
  <2>6. Verdict'
    BY <1>3 DEF PlanApplications, Stage, Verdict, Undecided, TypeOK
  <2>7. MarkerSelectsRevision' /\ AcceptedComponentIsOne'
    BY <1>3 DEF PlanApplications, Stage, MarkerSelectsRevision, AcceptedComponentIsOne, TypeOK
  <2>8. Model' /\ Present'
    BY <1>3 DEF PlanApplications, Stage, Model, Present, Used, Supplied, TypeOK
  <2> QED
    BY <2>1, <2>2, <2>3, <2>4, <2>5, <2>6, <2>7, <2>8
<1>4. CASE CheckInput(f)
  <2>a. /\ pc["application"] = "check" /\ published[f] = seen[f] /\ checked' = checked \union {f}
        /\ overlap' = (overlap \/ Torn)
        /\ pc' = [pc EXCEPT !["application"] = IF checked' = File THEN "draft" ELSE @]
        /\ UNCHANGED <<disk, appDisk, record, runs, aborted, repairs, pending, seen,
                       candidates, drafts, crashes, passed, approved, preview, stopped>>
    BY <1>4 DEF CheckInput
  <2>b. \A g \in File : seen[g] \in Nat /\ published[g] \in Nat
    BY DEF TypeOK
  <2>c. ~overlap' => /\ published["source"] = published["json"] /\ published["source"] \in passed
                     /\ published["source"] # Partial
    BY <2>a DEF Torn, Whole, Publication
  <2>d. ~overlap' =>
          \A h \in checked' :
            /\ seen[h] \in passed /\ seen[h] # Partial
            /\ \A g \in File : published[g] # Partial => seen[h] <= published[g]
            /\ \A g \in File : seen[g] # Partial => seen[g] <= seen[h]
            /\ pc["component"] # "write"
    <3>1. ASSUME ~overlap'
          PROVE  /\ seen[f] \in passed /\ seen[f] # Partial
                 /\ \A g \in File : published[g] = seen[f]
                 /\ \A g \in File : seen[g] # Partial => seen[g] <= seen[f]
                 /\ pc["component"] # "write"
      BY <2>a, <2>b, <2>c, <3>1 DEF Publication, Torn
    <3>2. ~overlap' => ~overlap
      BY <2>a
    <3> QED
      BY <2>a, <2>b, <3>1, <3>2 DEF Compared, TypeOK
  <2>e. /\ UNCHANGED <<seen, passed, published>> /\ overlap' \in {overlap, TRUE}
        /\ pc'["application"] = "check" => checked' # File
        /\ pc'["component"] = pc["component"]
    BY <2>a DEF TypeOK, Torn
  <2>1. TypeOK'
    BY <2>a DEF TypeOK, Labels
  <2>2. Candidate'
    BY <2>a DEF Candidate, Fresh, TypeOK
  <2>3. Publication'
    BY <2>a DEF Publication, TypeOK
  <2>4. Compared'
    BY <2>d, <2>e DEF Compared
  <2>5. Ready' /\ Shown'
    BY <2>a DEF Ready, ShowsModel, Shown, Whole, TypeOK, Recorded
  <2>6. Verdict'
    BY <2>a DEF Verdict, Undecided, TypeOK
  <2>7. MarkerSelectsRevision' /\ AcceptedComponentIsOne'
    <3>1. MarkerSelectsRevision'
      BY <2>a DEF MarkerSelectsRevision
    <3>2. ASSUME ~overlap', pc'["application"] = "draft"
          PROVE  seen["source"] = seen["json"] /\ seen["source"] \in passed
      <4>1. checked' = File
        BY <2>a, <3>2 DEF TypeOK
      <4>2. /\ seen["source"] \in passed /\ seen["source"] # Partial /\ seen["json"] # Partial
            /\ seen["source"] <= seen["json"] /\ seen["json"] <= seen["source"]
        BY <2>d, <3>2, <4>1
      <4> QED
        BY <2>b, <4>2
    <3>3. pc'["application"] \in {"check", "draft"}
      BY <2>a DEF TypeOK
    <3> QED
      BY <2>e, <3>1, <3>2, <3>3 DEF AcceptedComponentIsOne
  <2>8. Model' /\ Present'
    BY <2>a DEF Model, Present, Used, Supplied, TypeOK
  <2> QED
    BY <2>1, <2>2, <2>3, <2>4, <2>5, <2>6, <2>7, <2>8
<1> QED
  BY <1>1, <1>2, <1>3, <1>4

\* So do the steps that make, build, validate, repair and publish an application.
LEMMA ApplicationIInv ==
  ASSUME IInv, UNCHANGED modelVars,
         \/ GenerateApplication \/ RepairApplication \/ BuildApplication
         \/ ValidateApplication \/ RejectApplication \/ PublishApplication
  PROVE  IInv'
<1> USE DEF IInv, Pipeline, File, disk, appDisk, history, modelVars, Numbers
<1>0. MaxCandidate \in Nat /\ MaxModels \in Nat /\ Partial = MaxCandidate + MaxModels + 1
  BY WorkflowAssumption DEF Partial
<1>1. CASE GenerateApplication
  <2>1. TypeOK'
    BY <1>1 DEF GenerateApplication, GenerateApplicationSource, Stage, TypeOK, Labels
  <2>2. Candidate'
    BY <1>1 DEF GenerateApplication, GenerateApplicationSource, Stage, Candidate, Fresh, TypeOK
  <2>3. Publication'
    BY <1>1 DEF GenerateApplication, GenerateApplicationSource, Stage, Publication, TypeOK
  <2>4. Compared'
    BY <1>1 DEF GenerateApplication, GenerateApplicationSource, Stage, Compared, TypeOK
  <2>5. Ready' /\ Shown'
    BY <1>1 DEF GenerateApplication, GenerateApplicationSource, Stage, Ready, ShowsModel, Shown,
                Whole,
                TypeOK, Recorded
  <2>6. Verdict'
    BY <1>1 DEF GenerateApplication, GenerateApplicationSource, Stage, Verdict, Undecided,
                TypeOK
  <2>7. MarkerSelectsRevision' /\ AcceptedComponentIsOne'
    BY <1>1 DEF GenerateApplication, GenerateApplicationSource, Stage, MarkerSelectsRevision,
                AcceptedComponentIsOne, TypeOK
  <2>8. Model' /\ Present'
    BY <1>1 DEF GenerateApplication, GenerateApplicationSource, Stage, Model, Present, Used,
                Supplied,
                TypeOK
  <2> QED
    BY <2>1, <2>2, <2>3, <2>4, <2>5, <2>6, <2>7, <2>8
<1>2. CASE RepairApplication
  <2>1. TypeOK'
    BY <1>2 DEF RepairApplication, GenerateApplicationSource, Stage, TypeOK, Labels
  <2>2. Candidate'
    BY <1>2 DEF RepairApplication, GenerateApplicationSource, Stage, Candidate, Fresh, TypeOK
  <2>3. Publication'
    BY <1>2 DEF RepairApplication, GenerateApplicationSource, Stage, Publication, TypeOK
  <2>4. Compared'
    BY <1>2 DEF RepairApplication, GenerateApplicationSource, Stage, Compared, TypeOK
  <2>5. Ready' /\ Shown'
    BY <1>2 DEF RepairApplication, GenerateApplicationSource, Stage, Ready, ShowsModel, Shown,
                Whole,
                TypeOK, Recorded
  <2>6. Verdict'
    BY <1>2 DEF RepairApplication, GenerateApplicationSource, Stage, Verdict, Undecided, TypeOK
  <2>7. MarkerSelectsRevision' /\ AcceptedComponentIsOne'
    BY <1>2 DEF RepairApplication, GenerateApplicationSource, Stage, MarkerSelectsRevision,
                AcceptedComponentIsOne, TypeOK
  <2>8. Model' /\ Present'
    BY <1>2 DEF RepairApplication, GenerateApplicationSource, Stage, Model, Present, Used,
                Supplied,
                TypeOK
  <2> QED
    BY <2>1, <2>2, <2>3, <2>4, <2>5, <2>6, <2>7, <2>8
<1>3. CASE BuildApplication
  <2>1. TypeOK'
    <3>1. PICK ok \in BOOLEAN : appBuild' = [draft |-> appSource, ok |-> ok]
      <4>1. PICK b \in BOOLEAN :
              appBuild' = [draft |-> appSource, ok |-> b /\ published["source"] \notin {None, Partial}]
        BY <1>3 DEF BuildApplication, ApplicationBuilds
      <4>2. (b /\ published["source"] \notin {None, Partial}) \in BOOLEAN
        OBVIOUS
      <4> QED
        BY <4>1, <4>2
    <3> QED
      BY <1>3, <3>1 DEF BuildApplication, Stage, TypeOK, Labels
  <2>2. Candidate'
    BY <1>3 DEF BuildApplication, ApplicationBuilds, Stage, Candidate, Fresh, TypeOK
  <2>3. Publication'
    BY <1>3 DEF BuildApplication, ApplicationBuilds, Stage, Publication, TypeOK
  <2>4. Compared'
    BY <1>3 DEF BuildApplication, ApplicationBuilds, Stage, Compared, TypeOK
  <2>5. Ready' /\ Shown'
    BY <1>3 DEF BuildApplication, ApplicationBuilds, Stage, Ready, ShowsModel, Shown, Whole,
                TypeOK,
                Recorded
  <2>6. Verdict'
    BY <1>3 DEF BuildApplication, ApplicationBuilds, Stage, Verdict, Undecided, TypeOK
  <2>7. MarkerSelectsRevision' /\ AcceptedComponentIsOne'
    BY <1>3 DEF BuildApplication, ApplicationBuilds, Stage, MarkerSelectsRevision,
                AcceptedComponentIsOne, TypeOK
  <2>8. Model' /\ Present'
    BY <1>3 DEF BuildApplication, ApplicationBuilds, Stage, Model, Present, Used, Supplied,
                TypeOK
  <2> QED
    BY <2>1, <2>2, <2>3, <2>4, <2>5, <2>6, <2>7, <2>8
<1>4. CASE ValidateApplication
  <2>a. PICK ok \in BOOLEAN :
          /\ pc["application"] = "validate"
          /\ pc' = [pc EXCEPT !["application"] = IF ok THEN "publish" ELSE "repair"]
          /\ appResult' = [draft |-> appBuild.draft, passed |-> ok]
          /\ approved' = IF ok THEN approved \union {appBuild.draft} ELSE approved
          /\ record' = [record EXCEPT !.application = IF ok THEN "passed" ELSE "failed"]
          /\ stopped' = stopped \ {"directory"}
          /\ UNCHANGED <<disk, catalog, appSource, appBuild, runs, repairs, pending, seen, checked,
                         candidates, drafts, passed, preview, overlap>>
    BY <1>4 DEF ValidateApplication, ApplicationVerdicts, Stage
  <2>b. /\ record' \in Recorded /\ record'.ready = record.ready /\ record'.code = record.code
        /\ record'.circuit = record.circuit
        /\ record'.shown = record.shown /\ record'.shownJson = record.shownJson
        /\ record'.status = "complete" => record.status = "complete"
        /\ \A q \in Pipeline : record'.pipelines[q] = "completed" => record.pipelines[q] = "completed"
    <3>1. (IF ok THEN "passed" ELSE "failed") \in Verdicts
      BY DEF Verdicts
    <3> QED
      BY <2>a, <3>1 DEF TypeOK, Recorded
  <2>1. TypeOK'
    BY <2>a, <2>b DEF TypeOK, Labels
  <2>2. Candidate'
    BY <2>a, <2>b DEF Candidate, Fresh, TypeOK
  <2>3. Publication'
    BY <2>a, <2>b DEF Publication, TypeOK
  <2>4. Compared'
    BY <2>a, <2>b DEF Compared, TypeOK
  <2>5. Ready' /\ Shown'
    BY <2>a, <2>b DEF Ready, ShowsModel, Shown, Whole
  <2>6. Verdict'
    BY <2>a, <2>b DEF Verdict, Undecided, TypeOK
  <2>7. MarkerSelectsRevision' /\ AcceptedComponentIsOne'
    BY <2>a, <2>b DEF MarkerSelectsRevision, AcceptedComponentIsOne, TypeOK
  <2>8. Model' /\ Present'
    BY <2>a, <2>b DEF Model, Present, Used, Supplied, TypeOK
  <2> QED
    BY <2>1, <2>2, <2>3, <2>4, <2>5, <2>6, <2>7, <2>8
<1>5. CASE RejectApplication
  <2>a. /\ record' \in Recorded /\ record'.ready = record.ready /\ record'.code = record.code
        /\ record'.circuit = record.circuit
        /\ record'.shown = record.shown /\ record'.shownJson = record.shownJson
        /\ record'.status = "complete" => record.status = "complete"
        /\ \A q \in Pipeline : record'.pipelines[q] = "completed" => record.pipelines[q] = "completed"
    BY <1>5 DEF RejectApplication, TypeOK, Recorded, Verdicts
  <2>b. appBuild' \in [draft : Nat, ok : BOOLEAN] /\ appBuild'.draft = appBuild.draft
    BY <1>5 DEF RejectApplication, TypeOK
  <2>1. TypeOK'
    BY <1>5, <2>a, <2>b DEF RejectApplication, Stage, None, TypeOK, Labels
  <2>2. Candidate'
    BY <1>5, <2>a, <2>b DEF RejectApplication, Stage, Candidate, Fresh, TypeOK
  <2>3. Publication'
    BY <1>5, <2>a, <2>b DEF RejectApplication, Stage, Publication, TypeOK
  <2>4. Compared'
    BY <1>5, <2>a, <2>b DEF RejectApplication, Stage, Compared, TypeOK
  <2>5. Ready' /\ Shown'
    <3>1. pc'["component"] = pc["component"] /\ UNCHANGED <<preview, published, approved, stopped>>
      BY <1>5 DEF RejectApplication, Stage, TypeOK
    <3> QED
      BY <2>a, <3>1 DEF Ready, ShowsModel, Shown, Whole
  <2>6. Verdict'
    BY <1>5, <2>a, <2>b DEF RejectApplication, Stage, Verdict, Undecided, TypeOK
  <2>7. MarkerSelectsRevision' /\ AcceptedComponentIsOne'
    BY <1>5, <2>a, <2>b DEF RejectApplication, Stage, MarkerSelectsRevision,
           AcceptedComponentIsOne, TypeOK
  <2>8. Model' /\ Present'
    BY <1>5, <2>a, <2>b DEF RejectApplication, Stage, Model, Present, Used, Supplied, TypeOK
  <2> QED
    BY <2>1, <2>2, <2>3, <2>4, <2>5, <2>6, <2>7, <2>8
<1>6. CASE PublishApplication
  <2>a. /\ pc["application"] = "publish" /\ pc' = [pc EXCEPT !["application"] = "idle"]
        /\ record' = [End("application", "completed") EXCEPT
                        !.shown = IF appResult.passed THEN appSource ELSE None,
                        !.shownJson = IF appResult.passed THEN appResult.draft ELSE None]
        /\ stopped' = stopped \ {"record"} /\ pending' = pending
        /\ seen' = Pair(None) /\ checked' = {} /\ overlap' = FALSE
        /\ UNCHANGED <<disk, appDisk, runs, candidates, drafts, passed, approved, preview>>
    BY <1>6 DEF PublishApplication, Forget
  <2>b. /\ record' \in Recorded
        /\ record'.ready = record.ready /\ record'.code = record.code /\ record'.circuit = record.circuit
        /\ record'.shown = IF appResult.passed THEN appSource ELSE None
        /\ record'.shownJson = IF appResult.passed THEN appResult.draft ELSE None
    <3> DEFINE ended == End("application", "completed")
               shown == IF appResult.passed THEN appSource ELSE None
               shownJson == IF appResult.passed THEN appResult.draft ELSE None
    <3>1. /\ ended \in Recorded /\ ended.ready = record.ready
          /\ ended.code = record.code /\ ended.circuit = record.circuit
      BY EndRecord DEF TypeOK
    <3>2. record' = [ended EXCEPT !.shown = shown, !.shownJson = shownJson]
      BY <2>a
    <3>3. shown \in Nat /\ shownJson \in Nat
      BY DEF TypeOK, None
    <3> HIDE DEF ended, shown, shownJson
    <3>4. /\ record' \in Recorded
          /\ record'.ready = record.ready /\ record'.code = record.code /\ record'.circuit = record.circuit
          /\ record'.shown = shown /\ record'.shownJson = shownJson
      BY <3>1, <3>2, <3>3 DEF Recorded
    <3> QED
      BY <3>4 DEF shown, shownJson
  <2>1. TypeOK'
    BY <2>a, <2>b DEF Pair, None, TypeOK, Labels
  <2>2. Candidate'
    <3>1. pc'["component"] = pc["component"]
      BY <2>a DEF TypeOK
    <3>2. \A f \in File : seen'[f] = 0
      BY <2>a DEF Pair, None
    <3>3. \A c : Fresh(c) => Fresh(c)'
      BY <2>a, <3>2 DEF Fresh
    <3>4. pending["source"] \in Nat /\ pending["json"] \in Nat
      BY DEF TypeOK
    <3> QED
      BY <2>a, <3>1, <3>2, <3>3, <3>4 DEF Candidate
  <2>3. Publication'
    BY <1>0, <2>a DEF Publication, TypeOK, Pair, None
  <2>4. Compared'
    BY <2>a, <2>b DEF Compared, TypeOK
  <2>5. Ready' /\ Shown'
    BY <2>a, <2>b DEF Ready, ShowsModel, Shown, Whole, Verdict
  <2>6. Verdict'
    BY <2>a, <2>b DEF Verdict, Undecided, TypeOK
  <2>7. MarkerSelectsRevision' /\ AcceptedComponentIsOne'
    BY <2>a, <2>b DEF MarkerSelectsRevision, AcceptedComponentIsOne, TypeOK
  <2>8. Model' /\ Present'
    BY <2>a, <2>b DEF Model, Present, Used, Supplied, TypeOK
  <2> QED
    BY <2>1, <2>2, <2>3, <2>4, <2>5, <2>6, <2>7, <2>8
<1> QED
  BY <1>1, <1>2, <1>3, <1>4, <1>5, <1>6

\* So do the beginning, the failure and the cancellation of the runs.
LEMMA RunIInv ==
  ASSUME IInv, UNCHANGED modelVars, NEW p \in Pipeline,
         StartJob \/ Rerun(p) \/ Fail(p) \/ Cancel
  PROVE  IInv'
<1> USE DEF IInv, Pipeline, File, disk, appDisk, history, modelVars, Numbers
<1>0. MaxCandidate \in Nat /\ MaxModels \in Nat /\ Partial = MaxCandidate + MaxModels + 1
  BY WorkflowAssumption DEF Partial
<1>1. CASE StartJob
  <2>a. /\ record' \in Recorded /\ record'.ready = record.ready /\ record'.code = record.code
        /\ record'.circuit = record.circuit
        /\ record'.shown = record.shown /\ record'.shownJson = record.shownJson
        /\ record'.status = "complete" => record.status = "complete"
        /\ \A q \in Pipeline : record'.pipelines[q] = "completed" => record.pipelines[q] = "completed"
    BY <1>1 DEF StartJob, TypeOK, Recorded, Verdicts, Statuses, Outcomes
  <2>1. TypeOK'
    BY <1>1, <2>a DEF StartJob, TypeOK, Labels
  <2>2. Candidate'
    BY <1>1, <2>a DEF StartJob, Candidate, Fresh, TypeOK
  <2>3. Publication'
    BY <1>1, <2>a DEF StartJob, Publication, TypeOK
  <2>4. Compared'
    BY <1>1, <2>a DEF StartJob, Compared, TypeOK
  <2>5. Ready' /\ Shown'
    BY <1>1, <2>a DEF StartJob, Ready, ShowsModel, Shown, Whole
  <2>6. Verdict'
    BY <1>1, <2>a DEF StartJob, Verdict, Undecided, TypeOK
  <2>7. MarkerSelectsRevision' /\ AcceptedComponentIsOne'
    BY <1>1, <2>a DEF StartJob, MarkerSelectsRevision, AcceptedComponentIsOne, TypeOK
  <2>8. Model' /\ Present'
    BY <1>1, <2>a DEF StartJob, Model, Present, Used, Supplied, TypeOK
  <2> QED
    BY <2>1, <2>2, <2>3, <2>4, <2>5, <2>6, <2>7, <2>8
<1>2. CASE Rerun(p)
  <2>a. /\ record' \in Recorded /\ record'.ready = record.ready /\ record'.code = record.code
        /\ record'.circuit = record.circuit
        /\ record'.shown = record.shown /\ record'.shownJson = record.shownJson
        /\ record'.status = "complete" => record.status = "complete"
        /\ \A q \in Pipeline : record'.pipelines[q] = "completed" => record.pipelines[q] = "completed"
    <3> DEFINE component == IF p = "component" THEN "pending" ELSE record.component
               application == IF p = "component" THEN "pending" ELSE record.application
    <3>1. component \in Verdicts /\ application \in Verdicts
      BY DEF TypeOK, Recorded, Verdicts
    <3>2. record' = [record EXCEPT !.status = "active", !.pipelines[p] = "running",
                                  !.component = component, !.application = application]
      BY <1>2 DEF Rerun
    <3>3. "active" \in Statuses /\ "running" \in Outcomes
      BY DEF Statuses, Outcomes
    <3> HIDE DEF component, application
    <3> QED
      BY <3>1, <3>2, <3>3 DEF TypeOK, Recorded
  <2>1. TypeOK'
    BY <1>2, <2>a DEF Rerun, TypeOK, Labels
  <2>2. Candidate'
    BY <1>2, <2>a DEF Rerun, Candidate, Fresh, TypeOK
  <2>3. Publication'
    BY <1>2, <2>a DEF Rerun, Publication, TypeOK
  <2>4. Compared'
    BY <1>2, <2>a DEF Rerun, Compared, TypeOK
  <2>5. Ready' /\ Shown'
    BY <1>2, <2>a DEF Rerun, Ready, ShowsModel, Shown, Whole
  <2>6. Verdict'
    BY <1>2, <2>a DEF Rerun, Verdict, Undecided, TypeOK
  <2>7. MarkerSelectsRevision' /\ AcceptedComponentIsOne'
    BY <1>2, <2>a DEF Rerun, MarkerSelectsRevision, AcceptedComponentIsOne, TypeOK
  <2>8. Model' /\ Present'
    BY <1>2, <2>a DEF Rerun, Model, Present, Used, Supplied, TypeOK
  <2> QED
    BY <2>1, <2>2, <2>3, <2>4, <2>5, <2>6, <2>7, <2>8
<1>3. CASE Fail(p)
  <2>a. /\ pc' = [pc EXCEPT ![p] = "idle"]
        /\ stopped' = IF p = "application" /\ Undecided THEN stopped \union {"directory"} ELSE stopped
        /\ dirs' = [dirs EXCEPT ![p] = IF pc[p] = "commit" THEN @ \ ({runs[p]} \ {marker[p]}) ELSE @]
        /\ IF p = "component" THEN pending' = Pair(None) ELSE pending' = pending
        /\ p = "application" => seen' = Pair(None) /\ checked' = {} /\ overlap' = FALSE
        /\ p = "component" => seen' = seen /\ checked' = checked /\ overlap' = overlap
        /\ UNCHANGED <<marker, index, dist, built, validation, published, appDisk, runs, aborted,
                       candidates, drafts, crashes, passed, approved, preview>>
    BY <1>3 DEF Fail, Forget, TypeOK
  <2>b. /\ record' \in Recorded /\ record'.ready = record.ready /\ record'.code = record.code
        /\ record'.circuit = record.circuit
        /\ record'.shown = record.shown /\ record'.shownJson = record.shownJson
        /\ record'.status = "complete" => record.status = "complete"
        /\ \A q \in Pipeline : record'.pipelines[q] = "completed" => record.pipelines[q] = "completed"
    BY <1>3, EndRecord DEF Fail, TypeOK
  <2>1. TypeOK'
    <3>1. pending' \in [File -> Nat] /\ seen' \in [File -> Nat] /\ checked' \subseteq File
      <4>1. CASE p = "component"
        <5>1. seen' = seen /\ checked' = checked /\ pending' = Pair(None)
          BY <2>a, <4>1
        <5> QED
          BY <5>1 DEF Pair, None, TypeOK
      <4>2. CASE p = "application"
        BY <2>a, <4>2 DEF Pair, None, TypeOK
      <4> QED
        BY <4>1, <4>2
    <3>2. dirs' \in [Pipeline -> SUBSET Nat] /\ pc' \in [Pipeline -> Labels]
      BY <2>a DEF TypeOK, Labels
    <3> QED
      BY <2>a, <2>b, <3>1, <3>2 DEF TypeOK
  <2>2. Candidate'
    <3>1. CASE p = "component"
      BY <2>a, <3>1 DEF Candidate, TypeOK
    <3>2. CASE p = "application"
      <4>1. pc'["component"] = pc["component"] /\ pending' = pending
        BY <2>a, <3>2 DEF TypeOK
      <4>2. \A f \in File : seen'[f] = 0
        BY <2>a, <3>2 DEF Pair, None
      <4>3. \A c : Fresh(c) => Fresh(c)'
        BY <2>a, <4>2 DEF Fresh
      <4>4. pending["source"] \in Nat /\ pending["json"] \in Nat
        BY DEF TypeOK
      <4> QED
        BY <2>a, <4>1, <4>2, <4>3, <4>4 DEF Candidate
    <3> QED
      BY <3>1, <3>2
  <2>3. Publication'
    BY <1>0, <2>a DEF Publication, TypeOK, Pair, None
  <2>4. Compared'
    <3>1. CASE p = "component"
      <4>1. /\ UNCHANGED <<passed, published, seen, checked>> /\ (overlap' <=> overlap)
            /\ pc'["application"] = pc["application"] /\ pc'["component"] = "idle"
        BY <2>a, <3>1 DEF TypeOK
      <4> QED
        BY <4>1 DEF Compared
    <3>2. CASE p = "application"
      BY <2>a, <3>2 DEF Compared, TypeOK
    <3> QED
      BY <3>1, <3>2
  <2>5. Ready' /\ Shown'
    BY <2>a, <2>b DEF Ready, ShowsModel, Shown, Whole
  <2>6. Verdict'
    BY <2>a, <2>b DEF Verdict, Undecided, TypeOK
  <2>7. MarkerSelectsRevision' /\ AcceptedComponentIsOne'
    BY <2>a, <2>b DEF MarkerSelectsRevision, AcceptedComponentIsOne, TypeOK
  <2>8. Model' /\ Present'
    BY <2>a, <2>b DEF Model, Present, Used, Supplied, TypeOK
  <2> QED
    BY <2>1, <2>2, <2>3, <2>4, <2>5, <2>6, <2>7, <2>8
<1>4. CASE Cancel
  <2>1. TypeOK'
    BY <1>4 DEF Cancel, TypeOK, Labels
  <2>2. Candidate'
    BY <1>4 DEF Cancel, Candidate, Fresh, TypeOK
  <2>3. Publication'
    BY <1>4 DEF Cancel, Publication, TypeOK
  <2>4. Compared'
    BY <1>4 DEF Cancel, Compared, TypeOK
  <2>5. Ready' /\ Shown'
    BY <1>4 DEF Cancel, Ready, ShowsModel, Shown, Whole, TypeOK, Recorded
  <2>6. Verdict'
    BY <1>4 DEF Cancel, Verdict, Undecided, TypeOK
  <2>7. MarkerSelectsRevision' /\ AcceptedComponentIsOne'
    BY <1>4 DEF Cancel, MarkerSelectsRevision, AcceptedComponentIsOne, TypeOK
  <2>8. Model' /\ Present'
    BY <1>4 DEF Cancel, Model, Present, Used, Supplied, TypeOK
  <2> QED
    BY <2>1, <2>2, <2>3, <2>4, <2>5, <2>6, <2>7, <2>8
<1> QED
  BY <1>1, <1>2, <1>3, <1>4

\* So does the restart of the server, whichever component it finds.
LEMMA RestartIInv == ASSUME IInv, Restart PROVE IInv'
<1> USE DEF IInv, Pipeline, File, disk, appDisk, history, Numbers
<1>0. MaxCandidate \in Nat /\ MaxModels \in Nat /\ Partial = MaxCandidate + MaxModels + 1
  BY WorkflowAssumption DEF Partial
<1>a. PICK exports \in BOOLEAN, usable \in {u \in BOOLEAN : u => bundle # None} :
        record' = [record EXCEPT
                    !.ready = RestoredReady(usable, exports),
                    !.code = RestoredSource(usable), !.circuit = RestoredCircuit(usable),
                    !.status = RestoredStatus(usable, RestoredReady(usable, exports)),
                    !.shown = IF RestoredApplication THEN appSource ELSE None,
                    !.shownJson = IF RestoredApplication THEN appResult.draft ELSE None]
  BY DEF Restart
<1>b. /\ pc' = [q \in Pipeline |-> "idle"] /\ preview' = FALSE
      /\ stopped' = IF Undecided \/ "directory" \in stopped THEN {"directory", "record"} ELSE {}
      /\ pending' = Pair(None) /\ seen' = Pair(None) /\ checked' = {} /\ overlap' = FALSE
      /\ model' = NoModel
      /\ UNCHANGED <<bundle, crossed, disk, appDisk, runs, candidates, drafts, passed, approved>>
  BY DEF Restart, Forget
<1>c. /\ record' \in Recorded /\ record'.pipelines = record.pipelines
      /\ record'.code = RestoredSource(usable) /\ record'.circuit = RestoredCircuit(usable)
      /\ record'.status = RestoredStatus(usable, RestoredReady(usable, exports))
      /\ record'.shown = IF RestoredApplication THEN appSource ELSE None
      /\ record'.shownJson = IF RestoredApplication THEN appResult.draft ELSE None
  <2> DEFINE ready == RestoredReady(usable, exports)
             code == RestoredSource(usable)
             circuit == RestoredCircuit(usable)
             status == RestoredStatus(usable, ready)
             shown == IF RestoredApplication THEN appSource ELSE None
             shownJson == IF RestoredApplication THEN appResult.draft ELSE None
  <2>1. ready \in BOOLEAN
    BY DEF RestoredReady
  <2>2. code \in Nat /\ circuit \in Nat
    BY <1>0 DEF RestoredSource, RestoredCircuit, BaseSource, BaseCircuit, TypeOK
  <2>3. status \in Statuses
    BY DEF RestoredStatus, Statuses, TypeOK, Recorded
  <2>4. shown \in Nat /\ shownJson \in Nat
    BY DEF TypeOK, None
  <2>5. record' = [record EXCEPT !.ready = ready, !.code = code, !.circuit = circuit,
                                !.status = status, !.shown = shown, !.shownJson = shownJson]
    BY <1>a
  <2> HIDE DEF ready, code, circuit, status, shown, shownJson
  <2>6. /\ record' \in Recorded /\ record'.pipelines = record.pipelines
        /\ record'.code = code /\ record'.circuit = circuit /\ record'.status = status
        /\ record'.shown = shown /\ record'.shownJson = shownJson
    BY <2>1, <2>2, <2>3, <2>4, <2>5 DEF TypeOK, Recorded
  <2> QED
    BY <2>6 DEF ready, code, circuit, status, shown, shownJson
<1>1. TypeOK'
  BY <1>b, <1>c DEF Pair, NoModel, None, TypeOK, Labels
<1>2. Candidate'
  BY <1>b DEF Candidate
<1>3. Publication'
  BY <1>0, <1>b DEF Publication, TypeOK, Pair, None
<1>4. Compared' /\ AcceptedComponentIsOne'
  BY <1>b DEF Compared, AcceptedComponentIsOne
<1>5. Ready'
  <2>1. usable => ShowsModel'
    BY <1>a, <1>b, <1>c DEF ShowsModel, RestoredSource, RestoredCircuit
  <2>2. ~usable /\ Whole' => record'.code = published'["source"] /\ record'.circuit = published'["json"]
    BY <1>b, <1>c DEF Whole, RestoredSource, RestoredCircuit, BaseSource, BaseCircuit
  <2> QED
    BY <1>b, <2>1, <2>2 DEF Ready
<1>6. Shown'
  BY <1>b, <1>c DEF Shown, RestoredApplication, Verdict
<1>7. Verdict'
  BY <1>b DEF Verdict, Undecided
<1>8. Model'
  BY <1>b DEF Model, NoModel
<1>9. Present'
  <2>1. record'.status = "complete" =>
          \/ record.status = "complete" \/ bundle # None
          \/ record.pipelines["component"] = "completed" \/ record.pipelines["application"] = "completed"
    BY <1>a, <1>c DEF RestoredStatus
  <2> QED
    BY <1>b, <1>c, <2>1 DEF Present, Used, NoModel, Supplied
<1>10. MarkerSelectsRevision'
  BY <1>b DEF MarkerSelectsRevision
<1> QED
  BY <1>1, <1>2, <1>3, <1>4, <1>5, <1>6, <1>7, <1>8, <1>9, <1>10

\* So does a model run: it takes a source that was published, shows it with its model, and
\* puts a newer source in the place of the candidate.
LEMMA ModelIInv == ASSUME IInv, ModelStep PROVE IInv'
<1> USE DEF IInv, Pipeline, File, disk, appDisk, history, Numbers
<1>0. MaxCandidate \in Nat /\ MaxModels \in Nat /\ Partial = MaxCandidate + MaxModels + 1
  BY WorkflowAssumption DEF Partial
<1>1. CASE InspectComponent \/ CaptureComponent \/ EndModel
  <2>a. UNCHANGED <<bundle, crossed, disk, appDisk, record, pc, runs, aborted, repairs, pending,
                    seen, checked, history>>
    BY <1>1 DEF InspectComponent, CaptureComponent, EndModel
  <2>b. /\ model' \in [at : {"none", "copy", "captured", "mirror"}, source : Nat]
        /\ model'.at = "captured" => model.at = "copy" /\ CaptureComponent
        /\ model'.at = "copy" => ComponentReady
        /\ model'.at # "mirror"
    BY <1>0, <1>1 DEF InspectComponent, CaptureComponent, EndModel, NoModel, None, TypeOK,
                      Numbers
  <2>1. TypeOK'
    BY <2>a, <2>b DEF TypeOK
  <2>2. Candidate'
    BY <2>a DEF Candidate, Fresh
  <2>3. Publication'
    BY <2>a DEF Publication
  <2>4. Compared' /\ AcceptedComponentIsOne'
    BY <2>a DEF Compared, AcceptedComponentIsOne
  <2>5. Ready' /\ Shown'
    BY <2>a DEF Ready, ShowsModel, Whole, Shown
  <2>6. Verdict'
    BY <2>a DEF Verdict, Undecided
  <2>7. Model'
    <3>1. ASSUME model'.at = "captured", model'.source \notin {None, Partial}
          PROVE  model'.source \in passed \/ crossed
      <4>1. \A f \in File : published[f] # None
        BY <2>b, <3>1 DEF Present, Used
      <4>2. model'.source = published["source"]
        BY <2>b, <3>1, <4>1 DEF CaptureComponent, Exists
      <4> QED
        BY <3>1, <4>2 DEF Publication
    <3> QED
      BY <2>a, <3>1 DEF Model
  <2>8. Present'
    <3>1. ComponentReady => \A f \in File : published[f] # None
      BY DEF ComponentReady, Present, Used
    <3>2. model'.at # "none" => \A f \in File : published[f] # None
      BY <2>b, <3>1 DEF Present, Used
    <3> QED
      BY <2>a, <3>2 DEF Present, Used
  <2>9. MarkerSelectsRevision'
    BY <2>a DEF MarkerSelectsRevision
  <2> QED
    BY <2>1, <2>2, <2>3, <2>4, <2>5, <2>6, <2>7, <2>8, <2>9
<1>2. CASE PublishModel
  <2>a. /\ model.at = "captured" /\ model.source \notin {None, Partial} /\ bundle' = model.source
        /\ record' = [record EXCEPT !.code = model.source, !.circuit = model.source]
        /\ preview' = FALSE /\ model' = [at |-> "mirror", source |-> None]
        /\ UNCHANGED <<crossed, disk, appDisk, pc, runs, aborted, repairs, pending, seen, checked,
                       candidates, drafts, crashes, passed, approved, overlap, stopped>>
    BY <1>2 DEF PublishModel
  <2>b. /\ record' \in Recorded /\ record'.code = model.source /\ record'.circuit = model.source
        /\ record'.status = record.status /\ record'.pipelines = record.pipelines
        /\ record'.shown = record.shown /\ record'.shownJson = record.shownJson
    <3>1. model.source \in Nat
      BY DEF TypeOK
    <3> QED
      BY <2>a, <3>1 DEF TypeOK, Recorded
  <2>1. TypeOK'
    BY <2>a, <2>b DEF TypeOK, None
  <2>2. Candidate'
    BY <2>a DEF Candidate, Fresh
  <2>3. Publication'
    BY <2>a DEF Publication
  <2>4. Compared' /\ AcceptedComponentIsOne'
    BY <2>a DEF Compared, AcceptedComponentIsOne
  <2>5. Ready' /\ Shown'
    BY <2>a, <2>b DEF Ready, ShowsModel, Shown
  <2>6. Verdict'
    BY <2>a DEF Verdict, Undecided
  <2>7. Model'
    BY <2>a DEF Model
  <2>8. Present'
    BY <2>a, <2>b DEF Present, Used
  <2>9. MarkerSelectsRevision'
    BY <2>a DEF MarkerSelectsRevision
  <2> QED
    BY <2>1, <2>2, <2>3, <2>4, <2>5, <2>6, <2>7, <2>8, <2>9
<1>3. CASE MirrorModel
  <2>a. /\ candidates + 1 < Partial /\ candidates' = candidates + 1 /\ index' = candidates + 1
        /\ crossed' = (crossed \/ pc["component"] \in {"validate", "publish"})
        /\ model' = NoModel
        /\ UNCHANGED <<bundle, marker, dirs, dist, built, validation, published, appDisk, record, pc,
                       runs, aborted, repairs, pending, seen, checked, drafts, crashes, passed,
                       approved, preview, overlap, stopped>>
    BY <1>3 DEF MirrorModel
  <2>b. candidates \in Nat /\ crossed' \in BOOLEAN /\ (crossed => crossed')
    BY <1>0, <2>a DEF TypeOK
  <2>1. TypeOK'
    <3>1. candidates' \in Numbers
      BY <1>0, <2>a, <2>b DEF Numbers
    <3> QED
      BY <2>a, <2>b, <3>1 DEF TypeOK, NoModel, None
  <2>2. Candidate'
    <3>1. Fresh(built.candidate) => Fresh(built.candidate)'
      BY <2>a, <2>b DEF Fresh
    <3>2. Fresh(validation.candidate) => Fresh(validation.candidate)'
      BY <2>a, <2>b DEF Fresh
    <3>3. pc["component"] = "write" => pending["source"] <= candidates'
      BY <1>0, <2>a, <2>b DEF Candidate, TypeOK
    <3>4. Candidate /\ index' > 0
      BY <2>a, <2>b
    <3>5. /\ UNCHANGED <<built, validation, published, pc, pending, seen, passed>>
          /\ crossed' = (crossed \/ pc["component"] \in {"validate", "publish"})
      BY <2>a
    <3> HIDE DEF IInv
    <3> QED
      BY <3>1, <3>2, <3>3, <3>4, <3>5 DEF Candidate
  <2>3. Publication'
    <3>1. \A f \in File : published[f] \in Nat /\ seen[f] \in Nat
      BY DEF TypeOK
    <3> QED
      BY <2>a, <2>b, <3>1 DEF Publication
  <2>4. Compared' /\ AcceptedComponentIsOne'
    BY <2>a DEF Compared, AcceptedComponentIsOne
  <2>5. Ready' /\ Shown'
    BY <2>a DEF Ready, ShowsModel, Whole, Shown
  <2>6. Verdict'
    BY <2>a DEF Verdict, Undecided
  <2>7. Model' /\ Present'
    BY <2>a, <2>b DEF Model, Present, Used, NoModel
  <2>8. MarkerSelectsRevision'
    BY <2>a DEF MarkerSelectsRevision
  <2> QED
    BY <2>1, <2>2, <2>3, <2>4, <2>5, <2>6, <2>7, <2>8
<1> QED
  BY <1>1, <1>2, <1>3 DEF ModelStep

-----------------------------------------------------------------------------
\* The invariant is inductive.
THEOREM WorkflowInductive == Spec => []IInv
<1>1. IInv /\ [Next]_vars => IInv'
  <2> SUFFICES ASSUME IInv, [Next]_vars PROVE IInv'
    OBVIOUS
  <2>1. CASE RunStep /\ UNCHANGED modelVars
    BY <2>1, RunIInv DEF RunStep, Pipeline
  <2>2. CASE ComponentStep /\ UNCHANGED modelVars
    BY <2>2, EvidenceIInv, CandidateIInv, PublicationIInv DEF ComponentStep, Pipeline, File
  <2>3. CASE ApplicationStep /\ UNCHANGED modelVars
    <3>1. CASE WaitRefused \/ WaitTimeout
      BY <2>3, <3>1, RunIInv DEF WaitRefused, WaitTimeout, Pipeline
    <3>2. CASE PrepareApplicationEvidence \/ CommitApplicationEvidence
      BY <2>3, <3>2, EvidenceIInv DEF PrepareApplicationEvidence, Pipeline
    <3>3. CASE ~(WaitRefused \/ WaitTimeout \/ PrepareApplicationEvidence \/ CommitApplicationEvidence)
      BY <2>3, <3>3, InputIInv, ApplicationIInv DEF ApplicationStep, File
    <3> QED
      BY <3>1, <3>2, <3>3
  <2>4. CASE ModelStep \/ Restart
    BY <2>4, ModelIInv, RestartIInv
  <2>5. CASE UNCHANGED vars
    BY <2>5 DEF vars, disk, appDisk, history, modelVars, IInv, TypeOK, Candidate, Fresh,
                Publication,
                Compared, Ready, ShowsModel, Whole, Verdict, Undecided, Shown, Model, Present, Used,
                MarkerSelectsRevision, AcceptedComponentIsOne
  <2> QED
    BY <2>1, <2>2, <2>3, <2>4, <2>5 DEF Next
<1> QED
  BY <1>1, InitIInv, PTL DEF Spec

\* Files, results and the record keep their types, and the source file always holds the
\* newest candidate.
THEOREM WorkflowTypes == Spec => []TypeOK
<1>1. IInv => TypeOK
  BY DEF IInv
<1> QED
  BY <1>1, WorkflowInductive, PTL

\* A commit marker selects a revision that is whole.
THEOREM MarkerIsWhole == Spec => []MarkerSelectsRevision
<1>1. IInv => MarkerSelectsRevision
  BY DEF IInv
<1> QED
  BY <1>1, WorkflowInductive, PTL

\* The source and the Circuit JSON an application is made for are of one candidate that
\* passed with every footprint, unless a publication was torn when they were compared.
THEOREM ComponentIsOne == Spec => []AcceptedComponentIsOne
<1>1. IInv => AcceptedComponentIsOne
  BY DEF IInv
<1> QED
  BY <1>1, WorkflowInductive, PTL

\* A ready job shows one component, the published one or the one published with a model,
\* which passed, and an application it shows was approved.
THEOREM ShownAccepted == Spec => []ShownIsAccepted
<1>1. IInv => ShownIsAccepted
  <2> SUFFICES ASSUME IInv PROVE ShownIsAccepted
    OBVIOUS
  <2>1. Whole => published["source"] \in passed /\ published["source"] = published["json"]
    BY DEF IInv, Publication, Whole
  <2> QED
    BY <2>1 DEF IInv, Ready, ShowsModel, Model, Shown, ShownIsAccepted
<1> QED
  BY <1>1, WorkflowInductive, PTL

=============================================================================
