----------------------- MODULE AgentArtifactStageProofs -----------------------
(***************************************************************************)
(* Proofs about AgentArtifactStage: for any set of files and any limits,   *)
(* feedback is cumulative, a correction starts from the rejection before   *)
(* it, nothing of a rejected attempt is promoted, the counters stay within *)
(* their limits, the workspaces are removed, and a cancellation is kept.   *)
(* The second part is about ArtifactPromotion, one promotion of the stage; *)
(* the last two are about what the server reads in the files it promotes:  *)
(* the waveforms of a simulation (ViewerSimulation) and the inventory of   *)
(* reference graphs (ReferenceInventory).                                  *)
(***************************************************************************)
EXTENDS AgentArtifactStage, ArtifactPromotion, ViewerSimulation, ReferenceInventory,
        FiniteSetTheorems, TLAPS

\* Every attempt before this one has failed, and this one has from its retention on;
\* a stage that goes on has another attempt left.
FailuresSoFar ==
    /\ pc \notin {"dispose", "returned"} => failures = 1..(attempt - 1) /\ result # "continue"
    /\ failures \in {1..(attempt - 1), 1..attempt}
    /\ result = "continue" => failures = 1..attempt /\ attempt < MaxAttempts

\* Only an accepted attempt starts promotions, and it is the last.
Promotions ==
    (\E f \in Files : file[f] # "idle") =>
        /\ pc \in {"promote", "dispose", "returned"}
        /\ failures = 1..(attempt - 1)
        /\ result # "continue"

\* The client counts within its limit, and has an attempt left when it waits.
Transport == pc = "backoff" => tries < MaxTransport

\* The candidate an attempt starts from is the one rejected just before.
Seeded == base # 0 => base = attempt - 1 /\ base \in failures \cap retained

IInv == TypeOK /\ FailuresSoFar /\ Promotions /\ Transport /\ FeedbackIsCumulative
             /\ Seeded

\* The first attempt satisfies the inductive invariant.
LEMMA InitIInv == Init => IInv
<1> SUFFICES ASSUME Init PROVE IInv
  OBVIOUS
<1>1. failures = 1..(attempt - 1)
  BY DEF Init
<1>2. TypeOK
  <2>1. attempt \in Attempts /\ tries \in 0..MaxTransport /\ base \in 0..MaxAttempts
    BY StageAssumption DEF Init, Attempts
  <2>2. /\ file \in [Files -> {"idle", "reading", "writing", "promoted", "failed"}]
        /\ retained \subseteq failures /\ live \subseteq Attempts /\ leaked \subseteq Attempts
    BY DEF Init
  <2> QED
    BY <2>1, <2>2 DEF Init, TypeOK
<1>3. FailuresSoFar
  BY <1>1 DEF Init, FailuresSoFar
<1>4. Promotions /\ Transport /\ FeedbackIsCumulative /\ Seeded
  BY DEF Init, Promotions, Transport, FeedbackIsCumulative, Seeded
<1> QED
  BY <1>2, <1>3, <1>4 DEF IInv

\* The steps of an attempt up to the validation preserve it.
LEMMA AgentIInv ==
  ASSUME IInv, \/ Begin \/ CreateWorkspace \/ Seed \/ Launch
               \/ AgentSucceeds \/ AgentFails \/ TransportFails \/ Backoff
  PROVE  IInv'
<1> USE StageAssumption DEF IInv, TypeOK, Attempts, FailuresSoFar, Promotions, Transport,
     FeedbackIsCumulative, Seeded, progress, Exit
<1>1. CASE Begin
  BY <1>1 DEF Begin
<1>2. CASE CreateWorkspace
  BY <1>2 DEF CreateWorkspace
<1>3. CASE Seed
  <2>1. base' # 0 => base' = attempt - 1 /\ base' \in failures \cap retained
    BY <1>3 DEF Seed, SeedSources
  <2>2. base' \in 0..MaxAttempts
    BY <1>3, <2>1 DEF Seed
  <2>3. /\ attempt' = attempt /\ failures' = failures /\ retained' = retained
        /\ prompted' \in {prompted, failures} /\ tries' \in {tries, 1}
    BY <1>3 DEF Seed
  <2>4. CASE aborted
    BY <1>3, <2>1, <2>2, <2>3, <2>4 DEF Seed
  <2>5. CASE ~aborted
    BY <1>3, <2>1, <2>2, <2>3, <2>5 DEF Seed
  <2> QED
    BY <2>4, <2>5
<1>4. CASE Launch
  BY <1>4 DEF Launch
<1>5. CASE AgentSucceeds
  BY <1>5 DEF AgentSucceeds
<1>6. CASE AgentFails
  BY <1>6 DEF AgentFails
<1>7. CASE TransportFails
  BY <1>7 DEF TransportFails
<1>8. CASE Backoff
  BY <1>8 DEF Backoff
<1> QED
  BY <1>1, <1>2, <1>3, <1>4, <1>5, <1>6, <1>7, <1>8

\* So do validation, retention, promotion and the end of the attempt.
LEMMA CandidateIInv ==
  ASSUME IInv, \/ Accept \/ Reject \/ Retain
               \/ PromotionSucceeds \/ PromotionFails \/ Dispose
               \/ Abort \/ \E f \in Files : Promoting(f)
  PROVE  IInv'
<1> USE StageAssumption DEF IInv, TypeOK, Attempts, FailuresSoFar, Promotions, Transport,
     FeedbackIsCumulative, Seeded, progress, Exit
<1>1. CASE Accept
  BY <1>1 DEF Accept
<1>2. CASE Reject
  BY <1>2 DEF Reject
<1>3. CASE Retain
  BY <1>3 DEF Retain
<1>4. CASE PromotionSucceeds
  BY <1>4 DEF PromotionSucceeds
<1>5. CASE PromotionFails
  BY <1>5 DEF PromotionFails
<1>6. CASE Dispose
  <2>1. CASE result = "continue"
    <3>1. /\ attempt \in Nat /\ attempt' = attempt + 1 /\ attempt < MaxAttempts
          /\ failures' = 1..attempt /\ pc' = "top" /\ result' = "none" /\ base' = 0 /\ tries' = 0
      BY <1>6, <2>1 DEF Dispose
    <3>2. attempt' - 1 = attempt /\ attempt' \in 1..MaxAttempts
      BY <3>1
    <3>3. \A f \in Files : file'[f] = "idle"
      BY <1>6, <2>1 DEF Dispose
    <3>4. TypeOK'
      <4>1. attempt' \in Attempts' /\ tries' \in 0..MaxTransport /\ base' \in 0..MaxAttempts
        BY <3>1, <3>2
      <4>2. live' \subseteq Attempts /\ leaked' \subseteq Attempts
        BY <1>6 DEF Dispose
      <4>3. UNCHANGED <<aborted, typed, retained, failures, file>>
        BY <1>6 DEF Dispose
      <4> QED
        BY <3>1, <4>1, <4>2, <4>3
    <3>5. failures' = 1..(attempt' - 1)
      BY <3>1, <3>2
    <3>6. FailuresSoFar'
      BY <3>1, <3>5
    <3>7. (Promotions /\ Transport /\ FeedbackIsCumulative /\ Seeded)'
      BY <3>1, <3>3
    <3> QED
      BY <3>4, <3>6, <3>7
  <2>2. CASE result # "continue"
    BY <1>6, <2>2 DEF Dispose
  <2> QED
    BY <2>1, <2>2
<1>7. CASE Abort
  BY <1>7 DEF Abort
<1>8. ASSUME NEW f \in Files, Promoting(f) PROVE IInv'
  BY <1>8 DEF Promoting, ReadFile, WriteFile
<1> QED
  BY <1>1, <1>2, <1>3, <1>4, <1>5, <1>6, <1>7, <1>8

\* The invariant is inductive.
THEOREM StageInductive == Spec => []IInv
<1>1. IInv /\ [Next]_vars => IInv'
  <2> SUFFICES ASSUME IInv, [Next]_vars PROVE IInv'
    OBVIOUS
  <2>1. CASE Next
    BY <2>1, AgentIInv, CandidateIInv DEF Next, Stage
  <2>2. CASE UNCHANGED vars
    BY <2>2 DEF vars, progress, IInv, TypeOK, Attempts, FailuresSoFar, Promotions, Transport,
       FeedbackIsCumulative, Seeded
  <2> QED
    BY <2>1, <2>2
<1> QED
  BY <1>1, InitIInv, PTL DEF Spec

\* The counters of both retry loops stay within their limits.
THEOREM StageTypes == Spec => []TypeOK
<1>1. IInv => TypeOK
  BY DEF IInv
<1> QED
  BY <1>1, StageInductive, PTL

\* Each prompt names every attempt rejected before it.
THEOREM FeedbackComplete == Spec => []FeedbackIsCumulative
<1>1. IInv => FeedbackIsCumulative
  BY DEF IInv
<1> QED
  BY <1>1, StageInductive, PTL

\* Nothing of a rejected attempt is promoted, and no attempt follows a promotion.
THEOREM PromotedIsAccepted == Spec => []RejectedNotPromoted
<1>1. IInv => RejectedNotPromoted
  BY StageAssumption DEF IInv, TypeOK, Attempts, Promotions, RejectedNotPromoted
<1> QED
  BY <1>1, StageInductive, PTL

\* Promotion and rejection exclude each other, and every rejection is told.
THEOREM RejectionKept == Spec => []RejectionIsFinal
BY PromotedIsAccepted, FeedbackComplete, PTL DEF RejectionIsFinal

-----------------------------------------------------------------------------
\* Between attempts, and until the next workspace exists, only the workspaces that
\* could not be removed are left.
Workspaces ==
    live \subseteq leaked \cup (IF pc \in {"top", "create", "returned"} THEN {} ELSE {attempt})

\* No workspace outlives its attempt but those whose removal failed.
THEOREM WorkspacesRemoved == Spec => []WorkspacesDisposed
<1>1. Init => Workspaces
  BY DEF Init, Workspaces
<1>2. Workspaces /\ [Next]_vars => Workspaces'
  <2> SUFFICES ASSUME Workspaces, [Next]_vars PROVE Workspaces'
    OBVIOUS
  <2> USE DEF Workspaces, progress, Exit
  <2>1. CASE Begin \/ CreateWorkspace \/ Seed \/ Launch
    BY <2>1 DEF Begin, CreateWorkspace, Seed, Launch
  <2>2. CASE AgentSucceeds \/ AgentFails \/ TransportFails \/ Backoff
    BY <2>2 DEF AgentSucceeds, AgentFails, TransportFails, Backoff
  <2>3. CASE Accept \/ Reject \/ Retain \/ PromotionSucceeds \/ PromotionFails
    BY <2>3 DEF Accept, Reject, Retain, PromotionSucceeds, PromotionFails
  <2>4. CASE Dispose
    <3>1. live \subseteq leaked \cup {attempt}
      BY <2>4 DEF Dispose
    <3>2. live' \subseteq leaked' /\ pc' \in {"top", "returned"}
      BY <2>4, <3>1 DEF Dispose
    <3> QED
      BY <3>2
  <2>5. CASE Abort \/ \E f \in Files : Promoting(f)
    BY <2>5 DEF Abort, Promoting, ReadFile, WriteFile
  <2>6. CASE UNCHANGED vars
    BY <2>6 DEF vars
  <2> QED
    BY <2>1, <2>2, <2>3, <2>4, <2>5, <2>6 DEF Next, Stage
<1>3. Workspaces => WorkspacesDisposed
  BY DEF Workspaces, WorkspacesDisposed
<1> QED
  BY <1>1, <1>2, <1>3, PTL DEF Spec

\* A rejection that is retained while the run is cancelled ends as the cancellation,
\* and no other step answers with a rejection.
THEOREM CancellationKept == Spec => CancellationPreserved
<1>1. [Next]_vars =>
        [result' \in {"artifact_invalid", "typed_failure", "continue"} /\ result' # result
            => ~aborted]_vars
  <2> SUFFICES ASSUME Next, result' \in {"artifact_invalid", "typed_failure", "continue"},
                      result' # result
               PROVE  ~aborted
    OBVIOUS
  <2> USE DEF Exit
  <2>1. CASE Begin \/ CreateWorkspace \/ Seed \/ Launch
    BY <2>1 DEF Begin, CreateWorkspace, Seed, Launch
  <2>2. CASE AgentSucceeds \/ AgentFails \/ TransportFails \/ Backoff
    BY <2>2 DEF AgentSucceeds, AgentFails, TransportFails, Backoff
  <2>3. CASE Accept \/ Reject \/ Retain \/ PromotionSucceeds \/ PromotionFails
    BY <2>3 DEF Accept, Reject, Retain, PromotionSucceeds, PromotionFails
  <2>4. CASE Dispose
    BY <2>4 DEF Dispose
  <2>5. CASE Abort \/ \E f \in Files : Promoting(f)
    BY <2>5 DEF Abort, Promoting, ReadFile, WriteFile
  <2> QED
    BY <2>1, <2>2, <2>3, <2>4, <2>5 DEF Next, Stage
<1> QED
  BY <1>1, PTL DEF Spec, CancellationPreserved

-----------------------------------------------------------------------------
(* The promotion of one artifact, which Promoting(f) takes as a step.      *)
(* Whatever operation fails and whenever the process or the machine stops, *)
(* it is safe.  Its invariant says, for each await, which names hold what  *)
(* and which flags say so; the rollback can be trusted only as far as its  *)
(* flags tell what was done.                                               *)

\* What a loss of power may leave is never torn, and never without the old value.
Sound(n) ==
    /\ n[1] \notin {"fresh", "torn"}
    /\ original = "old" => n[1] \in {"old", "new"} \/ n[3] = "old"

\* The directory as it is may also be what the disk has.
Disk == <<dest, temp, prev>> \in onDisk /\ \A n \in onDisk : Sound(n)

\* Until the old value is moved the destination is untouched, on the disk too.
Untouched ==
    step \in {"read", "write", "syncTemporary", "inspect", "moveOld"} =>
        /\ dest = original /\ \A n \in onDisk : n[1] = original
        /\ ~published /\ ~moved /\ ~unrolled

\* The candidate is renamed in only once it is synced, over nothing, and only a
\* regular value is moved out of its way.
Candidate ==
    /\ step \in {"inspect", "moveOld", "syncOld", "publish"} => temp = "new"
    /\ step = "syncTemporary" => temp = "fresh"
    /\ step = "moveOld" => original = "old"
    /\ step = "syncOld" => dest = "absent" /\ moved /\ ~published /\ ~unrolled
    /\ step = "publish" =>
          dest = "absent" /\ (moved \/ original = "absent") /\ ~published /\ ~unrolled
    /\ step = "syncNew" => dest = "new" /\ (moved \/ original = "absent") /\ published /\ ~unrolled
    /\ step \in {"dropOld", "syncDrop", "cleanup"} => \A n \in onDisk : n[1] = "new"

\* The flag of the value kept aside is true to the names.
Aside ==
    moved /\ step \notin {"dropOld", "done", "lost"} => prev = "old" /\ original = "old"

\* What the flags of the rollback say of the destination.
Rollback ==
    /\ step = "unpublish" =>
          /\ ~unrolled
          /\ dest = IF published THEN "new" ELSE IF moved THEN "absent" ELSE original
          /\ published => moved \/ original = "absent"
    /\ step = "restore" =>
          /\ unrolled => published
          /\ ~unrolled => dest = IF moved THEN "absent" ELSE original
    /\ step = "syncRollback" /\ ~unrolled => dest = original
    /\ step = "rethrow" /\ ~unrolled => dest = original /\ \A n \in onDisk : n[1] = original

Ended == outcome # "none" => step \in {"done", "lost"}

PromotionInv ==
    /\ Disk /\ Untouched /\ Candidate /\ Aside /\ Rollback /\ Ended
    /\ SuccessIsDurable /\ FailureKeepsOriginal
    /\ original \in {"absent", "old", "irregular"}

\* A promotion begins in the invariant.
LEMMA InitPromotion == PromotionInit => PromotionInv
BY DEF PromotionInit, PromotionInv, Disk, Sound, Untouched, Candidate, Aside, Rollback, Ended,
       SuccessIsDurable, FailureKeepsOriginal

\* The steps of the try block preserve it.
LEMMA TryPromotion ==
  ASSUME PromotionInv,
         \/ ReadCandidate \/ WriteTemporary \/ SyncTemporary
         \/ Inspect \/ MoveOld \/ SyncOld \/ Publish
         \/ SyncNew \/ DropOld \/ SyncDrop \/ Cleanup
  PROVE  PromotionInv'
<1> USE DEF PromotionInv, Disk, Sound, Untouched, Candidate, Aside, Rollback, Ended,
            SuccessIsDurable, FailureKeepsOriginal, Visible,
            Synced, Unmoved, Goto, Throw, End,
            Finally, RollbackFails, flags
<1>1. CASE ReadCandidate
  BY <1>1 DEF ReadCandidate
<1>2. CASE WriteTemporary
  BY <1>2 DEF WriteTemporary
<1>3. CASE SyncTemporary
  <2>1. CASE Throw
    BY <1>3, <2>1 DEF SyncTemporary
  <2>2. CASE ~Throw
    <3>1. /\ onDisk' = {<<n[1], IF n[2] = "fresh" THEN "new" ELSE n[2], n[3]>> : n \in onDisk}
          /\ step' = "inspect" /\ temp' = "new"
          /\ UNCHANGED <<kind, original, dest, prev, signal, published, moved, unrolled, outcome>>
      BY <1>3, <2>2 DEF SyncTemporary
    <3>2. temp = "fresh"
      BY <1>3 DEF SyncTemporary
    <3>3. <<dest', temp', prev'>> \in onDisk'
      BY <3>1, <3>2
    <3>4. \A m \in onDisk' : m[1] = original /\ Sound(m)
      BY <1>3, <3>1 DEF SyncTemporary
    <3>5. \A m \in onDisk' : Sound(m)'
      BY <3>1, <3>4
    <3> QED
      BY <1>3, <3>1, <3>3, <3>4, <3>5 DEF SyncTemporary
  <2> QED
    BY <2>1, <2>2
<1>4. CASE Inspect
  BY <1>4 DEF Inspect
<1>5. CASE MoveOld
  BY <1>5 DEF MoveOld
<1>6. CASE SyncOld
  <2>1. CASE Throw
    BY <1>6, <2>1 DEF SyncOld
  <2>2. CASE ~Throw
    <3>1. /\ onDisk' = {<<dest, temp, prev>>}
          /\ step' = "publish"
          /\ UNCHANGED <<original, dest, temp, prev, published, moved, unrolled, outcome>>
      BY <1>6, <2>2 DEF SyncOld
    <3>2. \A n \in onDisk' : Sound(n)' /\ n[1] = dest
      BY <3>1
    <3> QED
      BY <1>6, <3>1, <3>2 DEF SyncOld
  <2> QED
    BY <2>1, <2>2
<1>7. CASE Publish
  BY <1>7 DEF Publish
<1>8. CASE SyncNew
  <2>1. CASE Throw
    BY <1>8, <2>1 DEF SyncNew
  <2>2. CASE ~Throw
    <3>1. /\ onDisk' = {<<dest, temp, prev>>}
          /\ step' = IF moved THEN "dropOld" ELSE "cleanup"
          /\ UNCHANGED <<original, dest, temp, prev, published, moved, unrolled, outcome>>
      BY <1>8, <2>2 DEF SyncNew
    <3>2. \A n \in onDisk' : Sound(n)' /\ n[1] = dest
      BY <3>1
    <3> QED
      BY <1>8, <3>1, <3>2 DEF SyncNew
  <2> QED
    BY <2>1, <2>2
<1>9. CASE DropOld
  BY <1>9 DEF DropOld
<1>10. CASE SyncDrop
  BY <1>10 DEF SyncDrop
<1>11. CASE Cleanup
  BY <1>11 DEF Cleanup
<1> QED
  BY <1>1, <1>2, <1>3, <1>4, <1>5, <1>6, <1>7, <1>8, <1>9, <1>10, <1>11

\* So do the rollback, a cancellation, a kill and a loss of power.
LEMMA RollbackPromotion ==
  ASSUME PromotionInv,
         \/ Unpublish \/ RestoreOld \/ SyncRollback \/ Rethrow
         \/ AbortPromotion \/ Killed \/ PowerLoss
  PROVE  PromotionInv'
<1> USE DEF PromotionInv, Disk, Sound, Untouched, Candidate, Aside, Rollback, Ended,
            SuccessIsDurable, FailureKeepsOriginal, Visible,
            Synced, Unmoved, Goto, Throw, End,
            Finally, RollbackFails, flags
<1>1. CASE Unpublish
  BY <1>1 DEF Unpublish
<1>2. CASE RestoreOld
  BY <1>2 DEF RestoreOld
<1>3. CASE SyncRollback
  BY <1>3 DEF SyncRollback
<1>4. CASE Rethrow
  BY <1>4 DEF Rethrow
<1>5. CASE AbortPromotion
  BY <1>5 DEF AbortPromotion
<1>6. CASE Killed
  BY <1>6 DEF Killed
<1>7. CASE PowerLoss
  BY <1>7 DEF PowerLoss
<1> QED
  BY <1>1, <1>2, <1>3, <1>4, <1>5, <1>6, <1>7

\* The invariant is inductive.
THEOREM PromotionInductive == PromotionSpec => []PromotionInv
<1>1. PromotionInv /\ [PromotionNext]_promotionVars => PromotionInv'
  <2> SUFFICES ASSUME PromotionInv, [PromotionNext]_promotionVars PROVE PromotionInv'
    OBVIOUS
  <2>1. CASE PromotionNext
    BY <2>1, TryPromotion, RollbackPromotion DEF PromotionNext, Promotion
  <2>2. CASE UNCHANGED promotionVars
    BY <2>2 DEF promotionVars, flags, PromotionInv, Disk, Sound, Untouched, Candidate,
                Aside, Rollback, Ended, SuccessIsDurable, FailureKeepsOriginal
  <2> QED
    BY <2>1, <2>2
<1> QED
  BY <1>1, InitPromotion, PTL DEF PromotionSpec

\* A promotion is safe: never torn, durable when it succeeds, without effect when it
\* fails, and the old value outlives everything else, at every step of every run.
THEOREM PromotionSafe == PromotionSpec => []PromotionIsSafe
<1>1. PromotionInv => PromotionIsSafe
  <2> SUFFICES ASSUME PromotionInv PROVE PromotionIsSafe
    OBVIOUS
  <2>1. Sound(<<dest, temp, prev>>) /\ \A n \in onDisk \cup {<<dest, temp, prev>>} : Sound(n)
    BY DEF PromotionInv, Disk
  <2>2. NeverTorn /\ OldNotLost
    BY <2>1 DEF Sound, NeverTorn, OldNotLost
  <2> QED
    BY <2>2 DEF PromotionInv, PromotionIsSafe
<1> QED
  BY <1>1, PromotionInductive, PTL

-----------------------------------------------------------------------------
(***************************************************************************)
(* The waveforms that a simulation shows                                   *)
(***************************************************************************)

\* What the server can rely on: a plan and a Circuit JSON are finite, and the ids in them
\* are positive and each of one observation or probe.
WellIdentified(case, circuit) ==
    /\ IsFiniteSet(case.observations) /\ IsFiniteSet(circuit.graphs)
    /\ IsFiniteSet(circuit.probes) /\ IsFiniteSet(circuit.experiments)
    /\ \A o, p \in case.observations : o.id = p.id => o = p
    /\ \A p, q \in circuit.probes : p.id = q.id => p = q
    /\ \A e \in circuit.experiments : e.id \in Nat \ {0} /\ e.transient \in BOOLEAN

\* probeForObservation: the probe of an observation bears its name.
LEMMA ProbeIsNamed ==
  ASSUME NEW circuit, NEW o, IsFiniteSet(circuit.probes), ProbeFor(circuit, o) # 0
  PROVE  \E p \in circuit.probes : p.id = ProbeFor(circuit, o) /\ p.name = o.id
<1> DEFINE probes == {p \in circuit.probes : p.name = o.id /\ p.kind = o.kind}
<1>1. Cardinality(probes) = 1 /\ ProbeFor(circuit, o) = (CHOOSE p \in probes : TRUE).id
  BY DEF ProbeFor
<1>2. IsFiniteSet(probes)
  BY FS_Subset
<1>3. probes # {}
  BY <1>1, <1>2, FS_Singleton
<1>4. (CHOOSE p \in probes : TRUE) \in probes
  BY <1>3
<1> QED
  BY <1>1, <1>4

\* The experiment of a circuit that has one, and that is transient.
LEMMA TheExperiment ==
  ASSUME NEW circuit, IsFiniteSet(circuit.experiments), Cardinality(circuit.experiments) = 1,
         \A e \in circuit.experiments : e.id \in Nat \ {0} /\ e.transient
  PROVE  {e.id : e \in circuit.experiments} = {Experiment(circuit)} /\ Experiment(circuit) # 0
<1>1. PICK e : circuit.experiments = {e}
  BY FS_Singleton
<1>2. {x \in circuit.experiments : x.transient} = {e}
  BY <1>1
<1>3. (CHOOSE x \in {e} : \A f \in {e} : x.id <= f.id) = e
  BY <1>1
<1>4. Experiment(circuit) = e.id
  BY <1>2, <1>3, Zenon DEF Experiment
<1> QED
  BY <1>1, <1>4

\* validateViewerSimulation: a simulation that passes shows exactly the waveforms that were
\* judged, one for each planned observation, for any plan and any circuit.
THEOREM PassedShowsJudged ==
  ASSUME NEW case, NEW circuit, NEW policy, WellIdentified(case, circuit)
  PROVE  OneWaveformEach(case, circuit, policy)
<1> DEFINE observations == case.observations
           Of(o) == GraphsFor(circuit, o, Experiment(circuit), ProbeFor(circuit, o))
           shown == [o \in observations |-> CHOOSE g \in Of(o) : TRUE]
<1> SUFFICES ASSUME ValidateViewer(case, circuit, policy).passed
             PROVE  /\ Cardinality(circuit.graphs) = Cardinality(observations)
                    /\ \A o \in observations : \E g \in circuit.graphs :
                          /\ \E p \in circuit.probes : p.id = g.probe /\ p.name = o.id
                          /\ {e.id : e \in circuit.experiments} = {g.exp}
  BY DEF OneWaveformEach
<1>1. /\ StructureValid(case, circuit, policy)
      /\ \A o \in observations : SeriesOf(case, circuit, o).kind = "comparison"
  BY DEF ValidateViewer
<1>2. {e.id : e \in circuit.experiments} = {Experiment(circuit)}
  BY <1>1, TheExperiment DEF StructureValid, WellIdentified
<1>3. \A o \in observations : ProbeFor(circuit, o) # 0 /\ Cardinality(Of(o)) = 1
  BY <1>1 DEF SeriesOf, NoSeries
<1>4. \A o \in observations : shown[o] \in Of(o) /\ Of(o) = {shown[o]}
  <2> SUFFICES ASSUME NEW o \in observations PROVE shown[o] \in Of(o) /\ Of(o) = {shown[o]}
    OBVIOUS
  <2>1. IsFiniteSet(Of(o))
    <3>1. Of(o) \subseteq circuit.graphs
      BY DEF GraphsFor
    <3> QED
      BY <3>1, FS_Subset DEF WellIdentified
  <2>2. PICK g : Of(o) = {g}
    BY <1>3, <2>1, FS_Singleton
  <2>3. shown[o] = g
    BY <2>2
  <2> QED
    BY <2>2, <2>3
<1>5. \A o \in observations : /\ shown[o] \in circuit.graphs /\ shown[o].exp = Experiment(circuit)
                              /\ shown[o].probe = ProbeFor(circuit, o)
  BY <1>4 DEF GraphsFor
<1>6. \A o \in observations : \E p \in circuit.probes : p.id = shown[o].probe /\ p.name = o.id
  <2> SUFFICES ASSUME NEW o \in observations
               PROVE  \E p \in circuit.probes : p.id = shown[o].probe /\ p.name = o.id
    OBVIOUS
  <2>1. IsFiniteSet(circuit.probes)
    BY DEF WellIdentified
  <2>2. \E p \in circuit.probes : p.id = ProbeFor(circuit, o) /\ p.name = o.id
    BY <1>3, <2>1, ProbeIsNamed
  <2> QED
    BY <1>5, <2>2
<1> HIDE DEF shown
<1>7. shown \in [observations -> circuit.graphs]
  BY <1>5 DEF shown
<1>8. \A o, p \in observations : shown[o] = shown[p] => o = p
  BY <1>6 DEF WellIdentified
<1>9. \A g \in circuit.graphs : \E o \in observations : shown[o] = g
  <2> SUFFICES ASSUME NEW g \in circuit.graphs PROVE \E o \in observations : shown[o] = g
    OBVIOUS
  <2>1. g \in MatchedGraphs(circuit, observations)
    BY <1>1 DEF StructureValid
  <2>2. PICK o \in observations : g \in Of(o)
    BY <2>1 DEF MatchedGraphs
  <2> QED
    BY <1>4, <2>2
<1>10. ExistsBijection(observations, circuit.graphs)
  <2>1. shown \in Bijection(observations, circuit.graphs)
    BY <1>7, <1>8, <1>9 DEF Bijection, Injection, Surjection, IsInjective
  <2> QED
    BY <2>1 DEF ExistsBijection
<1>11. Cardinality(circuit.graphs) = Cardinality(observations)
  BY <1>10, FS_Bijection DEF WellIdentified
<1> QED
  BY <1>2, <1>5, <1>6, <1>11

-----------------------------------------------------------------------------
(***************************************************************************)
(* The inventory of reference graphs                                       *)
(***************************************************************************)

\* A graph as parseGraph returns it: these fields, whatever their values.
IsGraph(g) ==
    g = [id |-> g.id, page |-> g.page, figure |-> g.figure, voltage |-> g.voltage,
         public |-> g.public, numeric |-> g.numeric, reproducible |-> g.reproducible,
         reason |-> g.reason, binding |-> g.binding, channels |-> g.channels]

\* What no canonicalisation changes: the graph is the same one, on the same signal.
SameGraph(g, h) ==
    IsGraph(h) /\ h.id = g.id /\ h.voltage = g.voltage /\ h.public = g.public /\ h.numeric = g.numeric

\* A graph without a binding does not give one.
LEMMA Unbound == NoBinding.given = FALSE
BY DEF NoBinding

\* A graph with another binding is the same graph.
LEMMA Rebound ==
  ASSUME NEW g, IsGraph(g), NEW b
  PROVE  SameGraph(g, [g EXCEPT !.binding = b]) /\ [g EXCEPT !.binding = b].reproducible = g.reproducible
BY DEF IsGraph, SameGraph

\* A graph without its comparison is the same graph.
LEMMA Uncompared ==
  ASSUME NEW g, IsGraph(g)
  PROVE  /\ SameGraph(g, WithoutComparisonState(g))
         /\ WithoutComparisonState(g).reproducible = g.reproducible
         /\ WithoutComparisonState(g).binding = NoBinding
<1> DEFINE h == [g EXCEPT !.binding = NoBinding]
<1>1. WithoutComparisonState(g) = [h EXCEPT !.channels = NoChannels]
  BY DEF IsGraph, WithoutComparisonState
<1>2. SameGraph(g, h) /\ h.reproducible = g.reproducible /\ h.binding = NoBinding
  BY Rebound DEF IsGraph
<1> HIDE DEF h
<1>3. /\ SameGraph(h, [h EXCEPT !.channels = NoChannels])
      /\ [h EXCEPT !.channels = NoChannels].reproducible = h.reproducible
      /\ [h EXCEPT !.channels = NoChannels].binding = h.binding
  BY <1>2 DEF IsGraph, SameGraph
<1> QED
  BY <1>1, <1>2, <1>3 DEF SameGraph

\* A graph that is declared reproducible or not is the same graph.
LEMMA Declared ==
  ASSUME NEW g, IsGraph(g), NEW v
  PROVE  /\ SameGraph(g, [g EXCEPT !.reproducible = v])
         /\ [g EXCEPT !.reproducible = v].reproducible = v
         /\ [g EXCEPT !.reproducible = v].binding = g.binding
BY DEF IsGraph, SameGraph

\* And so is one that is declared so with a reason.
LEMMA DeclaredWithReason ==
  ASSUME NEW g, IsGraph(g), NEW v, NEW r
  PROVE  /\ SameGraph(g, [g EXCEPT !.reproducible = v, !.reason = r])
         /\ [g EXCEPT !.reproducible = v, !.reason = r].reproducible = v
<1> DEFINE h == [g EXCEPT !.reproducible = v]
<1>1. [g EXCEPT !.reproducible = v, !.reason = r] = [h EXCEPT !.reason = r]
  BY DEF IsGraph
<1>2. SameGraph(g, h) /\ h.reproducible = v
  BY Declared
<1> HIDE DEF h
<1>3. /\ SameGraph(h, [h EXCEPT !.reason = r])
      /\ [h EXCEPT !.reason = r].reproducible = h.reproducible
  BY <1>2 DEF IsGraph, SameGraph
<1> QED
  BY <1>1, <1>2, <1>3 DEF SameGraph

\* A graph that is ruled out is the same graph, and not found.
LEMMA DemotedIsOut ==
  ASSUME NEW g, IsGraph(g), NEW r
  PROVE  SameGraph(g, Demoted(g, r)) /\ ~IsFound(Demoted(g, r)) /\ Demoted(g, r).binding = g.binding
<1>1. SameGraph(g, Demoted(g, r)) /\ Demoted(g, r).reproducible = FALSE
  BY DeclaredWithReason DEF Demoted
<1>2. Demoted(g, r).binding = g.binding
  BY DEF IsGraph, Demoted
<1> QED
  BY <1>1, <1>2 DEF IsFound

\* What the source says of a graph, whatever the agent says of it.
SaidBySource(g, hints) ==
    /\ g.voltage /\ g.public /\ SourceForbids(hints) = "nothing"
    /\ PrintedFixtureEvidence(hints) # {} \/ g.numeric

\* canonicalizeObservedGraphSource keeps the graph, takes up no graph that was ruled out,
\* and finds a graph the first time only where the source says so; what is found is unbound.
LEMMA CanonicalKeeps ==
  ASSUME NEW g, IsGraph(g), NEW hints, NEW world, NEW phase, NEW canonical \in BOOLEAN,
         NEW h \in CanonicalizeObservedGraphSource(g, hints, world, phase, canonical)
  PROVE  /\ SameGraph(g, h)
         /\ IsFound(h) /\ (canonical \/ phase # "find") => IsFound(g)
         /\ IsFound(h) /\ phase = "find" => SaidBySource(g, hints)
         /\ phase = "find" => h.binding = NoBinding
<1> DEFINE bare == WithoutComparisonState(g)
<1>0. SameGraph(g, bare) /\ bare.reproducible = g.reproducible /\ bare.binding = NoBinding /\ IsGraph(bare)
  BY Uncompared DEF SameGraph
<1>1. CASE SourceForbids(hints) # "nothing"
  <2> HIDE DEF bare
  <2>1. h = Demoted(bare, SourceForbids(hints))
    BY <1>1 DEF CanonicalizeObservedGraphSource, bare
  <2>2. SameGraph(bare, h) /\ ~IsFound(h) /\ h.binding = bare.binding
    BY <2>1, <1>0, DemotedIsOut
  <2> QED
    BY <1>0, <2>2 DEF SameGraph
<1>2. CASE /\ SourceForbids(hints) = "nothing"
           /\ canonical /\ ((phase = "find" /\ ~g.reproducible) \/ IsSourceCalibrationIneligible(g))
  <2>1. h = bare /\ ~g.reproducible
    BY <1>2 DEF CanonicalizeObservedGraphSource, IsSourceCalibrationIneligible
  <2> QED
    BY <1>0, <2>1 DEF IsFound
<1>3. CASE /\ SourceForbids(hints) = "nothing" /\ phase = "find"
           /\ ~(canonical /\ (~g.reproducible \/ IsSourceCalibrationIneligible(g)))
  <2>1. h = CanonicalFound(g, hints, world) /\ (canonical => g.reproducible)
    BY <1>3 DEF CanonicalizeObservedGraphSource
  <2>3. \/ h = [bare EXCEPT !.reproducible = FALSE]
        \/ \E r : h = Demoted(bare, r)
        \/ /\ \E r : h = [bare EXCEPT !.reproducible = TRUE, !.reason = r]
           /\ g.voltage /\ g.public /\ (PrintedFixtureEvidence(hints) # {} \/ g.numeric)
    BY <2>1 DEF CanonicalFound
  <2> HIDE DEF bare
  <2>4. CASE h = [bare EXCEPT !.reproducible = FALSE]
    <3>1. SameGraph(bare, h) /\ h.reproducible = FALSE /\ h.binding = bare.binding
      BY <1>0, <2>4, Declared
    <3> QED
      BY <1>0, <3>1 DEF SameGraph, IsFound
  <2>5. CASE \E r : h = Demoted(bare, r)
    <3>1. PICK r : h = Demoted(bare, r)
      BY <2>5
    <3>2. SameGraph(bare, h) /\ ~IsFound(h) /\ h.binding = bare.binding
      BY <1>0, <3>1, DemotedIsOut
    <3> QED
      BY <1>0, <3>2 DEF SameGraph
  <2>6. CASE /\ \E r : h = [bare EXCEPT !.reproducible = TRUE, !.reason = r]
             /\ g.voltage /\ g.public /\ (PrintedFixtureEvidence(hints) # {} \/ g.numeric)
    <3>1. PICK r : h = [bare EXCEPT !.reproducible = TRUE, !.reason = r]
      BY <2>6
    <3>2. SameGraph(bare, h)
      BY <1>0, <3>1, DeclaredWithReason
    <3>3. h.binding = bare.binding
      BY <1>0, <3>1 DEF IsGraph
    <3> QED
      BY <1>3, <2>1, <1>0, <2>6, <3>2, <3>3 DEF SameGraph, IsFound, SaidBySource
  <2> QED
    BY <2>3, <2>4, <2>5, <2>6
<1>4. CASE /\ SourceForbids(hints) = "nothing" /\ phase # "find"
           /\ ~(canonical /\ IsSourceCalibrationIneligible(g))
  <2> DEFINE unbound == [g EXCEPT !.binding = NoBinding]
  <2>1. h \in CanonicalComparison(g, hints, world)
    BY <1>4 DEF CanonicalizeObservedGraphSource
  <2>2. \/ h = g \/ \E r : h = Demoted(unbound, r)
        \/ IsFound(g) /\ h \in BindApplication(g, world.contract)
    BY <2>1 DEF CanonicalComparison
  <2>3. CASE h = g
    BY <1>4, <2>3 DEF SameGraph
  <2>4. CASE \E r : h = Demoted(unbound, r)
    <3>1. SameGraph(g, unbound)
      BY Rebound
    <3> HIDE DEF unbound
    <3>2. PICK r : h = Demoted(unbound, r)
      BY <2>4
    <3>3. SameGraph(unbound, h) /\ ~IsFound(h)
      BY <3>1, <3>2, DemotedIsOut DEF SameGraph
    <3> QED
      BY <3>1, <3>3, <1>4 DEF SameGraph
  <2>5. CASE IsFound(g) /\ h \in BindApplication(g, world.contract)
    <3>1. h = g \/ \E b : h = [g EXCEPT !.binding = b]
      BY <2>5 DEF BindApplication
    <3>2. CASE \E b : h = [g EXCEPT !.binding = b]
      <4>1. PICK b : h = [g EXCEPT !.binding = b]
        BY <3>2
      <4> QED
        BY <4>1, <2>5, <1>4, Rebound
    <3> QED
      BY <1>4, <2>5, <2>3, <3>1, <3>2
  <2> QED
    BY <2>2, <2>3, <2>4, <2>5
<1> QED
  BY <1>1, <1>2, <1>3, <1>4

\* parseReferenceGraphObservationWithPointPolicy: an observation that is parsed has the
\* graphs of the answer, each canonicalised with its own hints.
LEMMA ParsedIsCanonical ==
  ASSUME NEW graphs, NEW hints, NEW reviews, NEW world, NEW phase, NEW canonical,
         NEW o \in ParseObservation(graphs, hints, reviews, world, phase, canonical)
  PROVE  /\ DOMAIN o = DOMAIN graphs
         /\ \A k \in DOMAIN graphs :
               o[k] \in CanonicalizeObservedGraphSource(graphs[k], GraphHints(graphs[k], hints, reviews),
                                                        world, phase, canonical)
         /\ \A k \in DOMAIN graphs : ParseGraph(graphs[k], world, phase)
         /\ \A j, k \in DOMAIN graphs : graphs[j].id = graphs[k].id => j = k
<1> DEFINE Canonical(k) == CanonicalizeObservedGraphSource(graphs[k], GraphHints(graphs[k], hints, reviews),
                                                           world, phase, canonical)
           parsed == [k \in DOMAIN graphs |-> Canonical(k)]
<1>1. /\ o \in UnlessOneThrows(parsed)
      /\ \A k \in DOMAIN graphs : ParseGraph(graphs[k], world, phase)
      /\ \A j, k \in DOMAIN graphs : graphs[j].id = graphs[k].id => j = k
  BY DEF ParseObservation
<1> HIDE DEF Canonical
<1>2. {} \notin ToSet(parsed) /\ o = [k \in DOMAIN parsed |-> CHOOSE g \in parsed[k] : TRUE]
  BY <1>1 DEF UnlessOneThrows
<1>3. \A k \in DOMAIN graphs : parsed[k] # {}
  BY <1>2 DEF ToSet
<1>4. \A k \in DOMAIN graphs : o[k] \in Canonical(k)
  BY <1>2, <1>3
<1> QED
  BY <1>1, <1>2, <1>4 DEF Canonical

\* parseReferenceGraphObservationWithPointPolicy: when the reviews are accepted, a hint of
\* the datasheet that has a caption is the hint of exactly one graph, and a graph has only
\* hints of its page and figure, for any graphs, hints and reviews with ids of their own.
THEOREM CaptionsAreOwned ==
  ASSUME NEW graphs, NEW hints, NEW reviews, HintsReviewed(graphs, hints, reviews),
         \A j, k \in DOMAIN graphs : graphs[j].id = graphs[k].id => j = k,
         \A g, h \in hints : g.id = h.id => g = h,
         NEW h \in hints
  PROVE  /\ ~h.axis => \E g \in ToSet(graphs) : h \in GraphHints(g, hints, reviews)
         /\ \A f, g \in ToSet(graphs) :
               h \in GraphHints(f, hints, reviews) /\ h \in GraphHints(g, hints, reviews) => f = g
         /\ \A g \in ToSet(graphs) : h \in GraphHints(g, hints, reviews) =>
               g.page = h.page /\ (h.figure # "" => g.figure = h.figure)
<1>1. PICK k \in DOMAIN reviews : reviews[k].hint = h.id
  BY DEF HintsReviewed
<1>2. \A j \in DOMAIN reviews : reviews[j].hint = h.id => j = k
  BY <1>1 DEF HintsReviewed
<1>3. IF reviews[k].disposition = "graph"
      THEN \E g \in ToSet(graphs) : /\ g.id = reviews[k].graph /\ g.page = h.page
                                    /\ h.figure # "" => g.figure = h.figure
      ELSE reviews[k].graph = "" /\ h.axis
  <2>1. ReviewFits(graphs, hints, reviews[k])
    BY DEF HintsReviewed
  <2>2. {x \in hints : x.id = reviews[k].hint} = {h}
    BY <1>1
  <2> QED
    BY <2>1, <2>2 DEF ReviewFits
<1>4. \A g : h \in GraphHints(g, hints, reviews) <=>
                reviews[k].disposition = "graph" /\ reviews[k].graph = g.id
  BY <1>1, <1>2 DEF GraphHints, ToSet
<1>5. \A f, g \in ToSet(graphs) : f.id = g.id => f = g
  BY DEF ToSet
<1>6. ~h.axis => \E g \in ToSet(graphs) : h \in GraphHints(g, hints, reviews)
  BY <1>3, <1>4
<1>7. \A f, g \in ToSet(graphs) :
         h \in GraphHints(f, hints, reviews) /\ h \in GraphHints(g, hints, reviews) => f = g
  BY <1>4, <1>5
<1>8. \A g \in ToSet(graphs) : h \in GraphHints(g, hints, reviews) =>
         g.page = h.page /\ (h.figure # "" => g.figure = h.figure)
  <2> SUFFICES ASSUME NEW g \in ToSet(graphs), h \in GraphHints(g, hints, reviews)
               PROVE  g.page = h.page /\ (h.figure # "" => g.figure = h.figure)
    OBVIOUS
  <2>1. reviews[k].disposition = "graph" /\ reviews[k].graph = g.id
    BY <1>4
  <2>2. PICK f \in ToSet(graphs) : /\ f.id = reviews[k].graph /\ f.page = h.page
                                   /\ h.figure # "" => f.figure = h.figure
    BY <1>3, <2>1
  <2>3. f = g
    BY <1>5, <2>1, <2>2
  <2> QED
    BY <2>2, <2>3
<1> QED
  BY <1>6, <1>7, <1>8

\* findReferenceGraphs: a graph that the last attempt leaves found is one of the answer that
\* the source speaks for, whose caption the PDF has and whose preflight succeeded.
LEMMA FoundIsBacked ==
  ASSUME NEW answer, NEW hints, NEW reviews, NEW world, NEW pdf, NEW nth,
         \A k \in DOMAIN answer : IsGraph(answer[k]),
         NEW o \in FindReferenceGraphs(answer, hints, reviews, world, pdf, nth)
  PROVE  /\ DOMAIN o = DOMAIN answer
         /\ \A k \in DOMAIN answer :
               /\ IsGraph(o[k]) /\ o[k].id = answer[k].id
               /\ IsFound(o[k]) => /\ SaidBySource(answer[k], GraphHints(answer[k], hints, reviews))
                                   /\ answer[k].id \in pdf.captioned \cap pdf.calibrated
<1> DEFINE found(graphs) == {g.id : g \in {h \in ToSet(graphs) : IsFound(h)}}
           missing(graphs) == found(graphs) \ pdf.calibrated
<1>1. PICK p \in ParseObservation(answer, hints, reviews, BeforeInterface(world), "find", FALSE) :
         /\ found(p) \subseteq pdf.captioned
         /\ o = RetainCalibrationFailuresAsReferences(p, missing(p))
  BY DEF FindReferenceGraphs
<1>2. DOMAIN p = DOMAIN answer
  <2>1. PICK canonical : canonical = FALSE
    OBVIOUS
  <2>2. p \in ParseObservation(answer, hints, reviews, BeforeInterface(world), "find", canonical)
    BY <2>1
  <2> QED
    BY <2>2, ParsedIsCanonical
<1>3. \A k \in DOMAIN answer :
         /\ SameGraph(answer[k], p[k])
         /\ IsFound(p[k]) => SaidBySource(answer[k], GraphHints(answer[k], hints, reviews))
  <2> SUFFICES ASSUME NEW k \in DOMAIN answer
               PROVE  /\ SameGraph(answer[k], p[k])
                      /\ IsFound(p[k]) => SaidBySource(answer[k], GraphHints(answer[k], hints, reviews))
    OBVIOUS
  <2>1. p[k] \in CanonicalizeObservedGraphSource(answer[k], GraphHints(answer[k], hints, reviews),
                                                 BeforeInterface(world), "find", FALSE)
    BY ParsedIsCanonical
  <2> QED
    BY <2>1, CanonicalKeeps
<1>4. /\ DOMAIN o = DOMAIN p
      /\ \A k \in DOMAIN p : o[k] = IF p[k].id \in missing(p)
                                    THEN Demoted(WithoutComparisonState(p[k]), "retained") ELSE p[k]
  BY <1>1 DEF RetainCalibrationFailuresAsReferences
<1>5. \A k \in DOMAIN p : IsFound(p[k]) => p[k].id \in found(p)
  BY DEF ToSet
<1> HIDE DEF found
<1>6. ASSUME NEW k \in DOMAIN answer
      PROVE  /\ IsGraph(o[k]) /\ o[k].id = answer[k].id
             /\ IsFound(o[k]) => /\ SaidBySource(answer[k], GraphHints(answer[k], hints, reviews))
                                 /\ answer[k].id \in pdf.captioned \cap pdf.calibrated
  <2>1. IsGraph(p[k]) /\ p[k].id = answer[k].id
    BY <1>3 DEF SameGraph
  <2>2. CASE p[k].id \in missing(p)
    <3>1. o[k] = Demoted(WithoutComparisonState(p[k]), "retained")
      BY <1>2, <1>4, <2>2
    <3>2. SameGraph(p[k], WithoutComparisonState(p[k])) /\ IsGraph(WithoutComparisonState(p[k]))
      BY <2>1, Uncompared DEF SameGraph
    <3>3. SameGraph(WithoutComparisonState(p[k]), o[k]) /\ ~IsFound(o[k])
      BY <3>1, <3>2, DemotedIsOut
    <3> QED
      BY <2>1, <3>2, <3>3 DEF SameGraph
  <2>3. CASE p[k].id \notin missing(p)
    <3>1. o[k] = p[k]
      BY <1>2, <1>4, <2>3
    <3>2. IsFound(p[k]) => p[k].id \in pdf.captioned \cap pdf.calibrated
      BY <1>1, <1>2, <1>5, <2>3
    <3> QED
      BY <1>3, <2>1, <3>1, <3>2
  <2> QED
    BY <2>2, <2>3
<1> QED
  BY <1>2, <1>4, <1>6

\* What the work on a found graph may answer: a drawing of an agent or a graph that an
\* earlier run stored, accepted with some hints.
WorkedOut(found, g, world, pdf) ==
    \E stored, drawing, hints :
        /\ IsGraph(drawing) /\ \A s \in stored : IsGraph(s.graph)
        /\ g \in DigitizeGraph(found, stored, drawing, hints, world, pdf)

\* A graph that is worked out is the found one, and proved if it is eligible, whether it
\* was drawn now or stored by an earlier run.
LEMMA WorkedOutIsFound ==
  ASSUME NEW f, IsGraph(f), NEW g, NEW world, NEW pdf, WorkedOut(f, g, world, pdf)
  PROVE  IsGraph(g) /\ g.id = f.id /\ IsFound(g) = IsFound(f) /\ (IsEligible(g) => g.id \in pdf.proved)
<1>1. PICK stored, drawing, hints :
         /\ IsGraph(drawing) /\ \A s \in stored : IsGraph(s.graph)
         /\ g \in DigitizeGraph(f, stored, drawing, hints, world, pdf)
  BY DEF WorkedOut
<1>2. \E graph : IsGraph(graph) /\ g \in ComparisonAccepted(f, graph, hints, world, pdf.proved)
  <2>1. CASE g \in ComparisonAccepted(f, drawing, hints, world, pdf.proved)
    BY <1>1, <2>1
  <2>2. CASE \E s \in stored : g \in ReuseCheckpoint(s, f, hints, world, pdf)
    BY <1>1, <2>2 DEF ReuseCheckpoint
  <2> QED
    BY <1>1, <2>1, <2>2 DEF DigitizeGraph, ReusedOr
<1>3. PICK graph : IsGraph(graph) /\ g \in ComparisonAccepted(f, graph, hints, world, pdf.proved)
  BY <1>2
<1>4. /\ g \in CanonicalizeObservedGraphSource(graph, hints, world, "comparison", FALSE)
      /\ PreservesDiscovery(f, g) /\ (IsEligible(g) => g.id \in pdf.proved)
  BY <1>3 DEF ComparisonAccepted
<1>5. IsGraph(g)
  BY <1>3, <1>4, CanonicalKeeps DEF SameGraph
<1>6. WithoutComparisonState(g) = WithoutComparisonState(f)
  BY <1>4 DEF PreservesDiscovery
<1>7. /\ SameGraph(f, WithoutComparisonState(f)) /\ WithoutComparisonState(f).reproducible = f.reproducible
      /\ SameGraph(g, WithoutComparisonState(g)) /\ WithoutComparisonState(g).reproducible = g.reproducible
  BY <1>5, Uncompared
<1> QED
  BY <1>4, <1>5, <1>6, <1>7 DEF SameGraph, IsFound

\* The inventory, from the answer of the finder to the combined observation: a graph that
\* ends up eligible is the graph of the answer at its place, which the source speaks for,
\* whose caption the PDF has, whose axes were calibrated and whose drawing was proved,
\* whatever the agents answered and whichever stored graphs were reused.
THEOREM EligibleWasFound ==
  ASSUME NEW answer, NEW hints, NEW reviews, NEW world, NEW pdf, NEW nth,
         \A k \in DOMAIN answer : IsGraph(answer[k]),
         NEW o \in FindReferenceGraphs(answer, hints, reviews, world, pdf, nth),
         NEW a \in FoundAgain(o, hints, reviews, world),
         NEW results,
         \A i \in DOMAIN results : \E j \in DOMAIN a : a[j].id = i /\ WorkedOut(a[j], results[i], world, pdf),
         NEW c \in CombinedObservation(a, hints, reviews, world, results),
         NEW k \in DOMAIN c, IsEligible(c[k])
  PROVE  /\ c[k].id = answer[k].id
         /\ SaidBySource(answer[k], GraphHints(answer[k], hints, reviews))
         /\ answer[k].id \in pdf.captioned \cap pdf.calibrated \cap pdf.proved
<1> DEFINE all == CombineGraphs(a, results)
           Hints(g) == GraphHints(g, hints, reviews)
<1>1. /\ DOMAIN o = DOMAIN answer
      /\ \A j \in DOMAIN answer :
            /\ IsGraph(o[j]) /\ o[j].id = answer[j].id
            /\ IsFound(o[j]) => /\ SaidBySource(answer[j], Hints(answer[j]))
                                /\ answer[j].id \in pdf.captioned \cap pdf.calibrated
  BY FoundIsBacked
<1>2. /\ DOMAIN a = DOMAIN o
      /\ \A j \in DOMAIN o : a[j] \in CanonicalizeObservedGraphSource(o[j], Hints(o[j]), world, "find", TRUE)
      /\ \A i, j \in DOMAIN o : o[i].id = o[j].id => i = j
  <2>1. PICK canonical : canonical = TRUE
    OBVIOUS
  <2>2. a \in ParseObservation(o, hints, reviews, world, "find", canonical)
    BY <2>1 DEF FoundAgain
  <2>3. /\ DOMAIN a = DOMAIN o
        /\ \A j \in DOMAIN o : a[j] \in CanonicalizeObservedGraphSource(o[j], Hints(o[j]), world, "find", canonical)
        /\ \A i, j \in DOMAIN o : o[i].id = o[j].id => i = j
    BY <2>2, ParsedIsCanonical
  <2> QED
    BY <2>1, <2>3
<1>3. ASSUME NEW j \in DOMAIN o
      PROVE  SameGraph(o[j], a[j]) /\ (IsFound(a[j]) => IsFound(o[j])) /\ a[j].binding = NoBinding
  <2>1. IsGraph(o[j]) /\ a[j] \in CanonicalizeObservedGraphSource(o[j], Hints(o[j]), world, "find", TRUE)
    BY <1>1, <1>2
  <2>2. PICK canonical \in BOOLEAN : canonical = TRUE
    OBVIOUS
  <2>3. a[j] \in CanonicalizeObservedGraphSource(o[j], Hints(o[j]), world, "find", canonical)
    BY <2>1, <2>2
  <2>4. /\ SameGraph(o[j], a[j])
        /\ IsFound(a[j]) /\ canonical => IsFound(o[j])
    BY <2>1, <2>3, CanonicalKeeps
  <2>5. a[j].binding = NoBinding
    BY <2>1, <2>3, CanonicalKeeps
  <2> QED
    BY <2>2, <2>4, <2>5
<1>4. /\ DOMAIN c = DOMAIN all
      /\ c[k] \in CanonicalizeObservedGraphSource(all[k], Hints(all[k]), world, "comparison", TRUE)
      /\ ParseGraph(all[k], world, "comparison")
  <2>1. PICK canonical : canonical = TRUE
    OBVIOUS
  <2>2. c \in ParseObservation(all, hints, reviews, world, "comparison", canonical)
    BY <2>1 DEF CombinedObservation
  <2> HIDE DEF all
  <2>3. /\ DOMAIN c = DOMAIN all
        /\ c[k] \in CanonicalizeObservedGraphSource(all[k], Hints(all[k]), world, "comparison", canonical)
        /\ ParseGraph(all[k], world, "comparison")
    BY <2>2, ParsedIsCanonical
  <2> QED
    BY <2>1, <2>3
<1>5. /\ DOMAIN all = DOMAIN a
      /\ all[k] = IF a[k].id \in DOMAIN results THEN results[a[k].id] ELSE a[k]
  BY <1>4 DEF CombineGraphs
<1> HIDE DEF all
<1>6. k \in DOMAIN answer /\ k \in DOMAIN o /\ k \in DOMAIN a
  BY <1>1, <1>2, <1>4, <1>5
<1>7. IsGraph(a[k]) /\ a[k].id = answer[k].id
  BY <1>1, <1>3, <1>6 DEF SameGraph
<1>8. IsFound(c[k])
  BY DEF IsEligible
<1>9. CASE a[k].id \notin DOMAIN results
  <2>1. all[k] = a[k]
    BY <1>5, <1>9
  <2>2. IsFound(a[k])
    BY <1>4, <1>7, <1>8, <2>1, CanonicalKeeps
  <2>3. a[k].binding.given = TRUE
    BY <1>4, <2>1, <2>2 DEF ParseGraph
  <2>4. a[k].binding.given = FALSE
    <3>1. a[k].binding = NoBinding
      BY <1>3, <1>6
    <3> QED
      BY <3>1, Unbound
  <2> QED
    BY <2>3, <2>4
<1>10. CASE a[k].id \in DOMAIN results
  <2> DEFINE g == results[a[k].id]
  <2>1. PICK j \in DOMAIN a : a[j].id = a[k].id /\ WorkedOut(a[j], g, world, pdf)
    BY <1>10
  <2>2. j = k
    BY <1>2, <1>3, <1>6, <2>1 DEF SameGraph
  <2>3. all[k] = g
    BY <1>5, <1>10
  <2> HIDE DEF g
  <2>4. IsGraph(g) /\ g.id = a[k].id /\ IsFound(g) = IsFound(a[k]) /\ (IsEligible(g) => g.id \in pdf.proved)
    BY <1>7, <2>1, <2>2, WorkedOutIsFound
  <2>5. SameGraph(g, c[k]) /\ IsFound(g)
    BY <1>4, <1>8, <2>3, <2>4, CanonicalKeeps
  <2>6. IsEligible(g)
    BY <1>4, <2>3, <2>5 DEF ParseGraph, IsEligible
  <2>7. IsFound(o[k])
    BY <1>3, <1>6, <2>4, <2>5
  <2> QED
    BY <1>1, <1>6, <1>7, <2>4, <2>5, <2>6, <2>7 DEF SameGraph
<1> QED
  BY <1>9, <1>10
===============================================================================
