------------------------ MODULE PipelineRunnerProofs ------------------------
(***************************************************************************)
(* Proofs about PipelineRunner for every number of stages, every acyclic   *)
(* dependency relation and every set of targets.                           *)
(***************************************************************************)
EXTENDS PipelineRunner, TLAPS

\* Where the loop stands: stages before it are terminal, stages after it are
\* pending, and the stage under the loop has the status its await implies.
Frontier ==
    /\ pc \notin Ended \cup {"finish"} => stage \in Stages
    /\ pc = "start" => stage = 1
    /\ pc = "finish" => stage = N + 1
    /\ \A s \in Stages : s < stage => results[s] \in TerminalStatus
    /\ \A s \in Stages : s > stage => results[s] = "pending"
    /\ pc \in {"start", "loop", "before", "retain"} => results[stage] = "pending"
    /\ pc \in {"open", "announce", "execute", "snapshot"} => results[stage] = "running"
    /\ pc \in {"record", "close", "emit"} => results[stage] \in TerminalStatus

\* The life of a committed stage: while it is under the loop its outcome is
\* remembered, and the catch block is not yet recording another result for it.
Barrier ==
    /\ \A s \in committed : s <= stage
    /\ \A s \in committed : s < stage => results[s] = "completed"
    /\ stage \in committed => outcome = "committed"
    /\ outcome = "committed" =>
           /\ pc \in {"snapshot", "close", "emit"}
           /\ block = "try"
           /\ pc # "snapshot" => results[stage] = "completed"
    /\ pc \in {"start", "loop", "record", "before", "retain", "open", "announce", "finish"} =>
           outcome = "none" /\ block = "none"
    /\ pc = "execute" => outcome = "none" /\ block = "try"
    /\ committed # {} => "committed" \in flags
    /\ pc = "threw" => N \notin committed

\* Terminal events, and terminal statuses seen by the observer, belong to
\* stages the loop has left; their results do not change any more.
Trace ==
    /\ \A k \in DOMAIN events :
           events[k].stage # 0 /\ events[k].status \in TerminalStatus =>
               events[k].stage < stage /\ results[events[k].stage] = events[k].status
    /\ \A s \in Stages : observed[s] \in TerminalStatus =>
           s < stage /\ results[s] = observed[s]

\* The dependencies of a stage on its way to execution are settled.
Ready ==
    /\ pc \in {"before", "retain", "open", "announce"} \/ block # "none" =>
           \A d \in DependsOn[stage] : results[d] = "completed" \/ d \in target.provided
    /\ DependenciesHold

IInv == TypeOK /\ Frontier /\ Barrier /\ Trace /\ Ready

-----------------------------------------------------------------------------
(* Types *)

\* What the status sets contain.
LEMMA StatusFacts ==
    /\ TerminalStatus \subseteq Status
    /\ Status \subseteq BundleStatus
    /\ {"completed", "failed", "cancelled", "skipped"} \subseteq TerminalStatus
    /\ {"pending", "running", "completed", "failed", "cancelled"} \subseteq Status
    /\ "skipped" \in Status
    BY DEF TerminalStatus, Status, BundleStatus

\* A result or a bundle written for the stage under the loop keeps its type.
LEMMA WriteTypes ==
    ASSUME TypeOK, stage \in Stages
    PROVE  /\ \A st \in Status : SetResult(st) => results' \in [Stages -> Status]
           /\ \A b \in BundleStatus : SetBundle(b) => bundle' \in [Stages -> BundleStatus]
    BY DEF TypeOK, SetResult, SetBundle

\* An emit, successful or not, keeps the types of what it changes.
LEMMA EmitTypes ==
    ASSUME TypeOK, NEW s \in 0 .. N, NEW st \in Status, EmitOk(s, st) \/ EmitFails
    PROVE  sequence' \in Nat /\ events' \in Seq(Event) /\ observed' \in [Stages -> Status]
<1>1. [stage |-> s, status |-> st, seq |-> sequence + 1] \in Event
    BY DEF TypeOK, Event
<1>2. CASE EmitOk(s, st)
    BY <1>1, <1>2 DEF TypeOK, EmitOk
<1>3. CASE EmitFails
    BY <1>3 DEF TypeOK, EmitFails
<1> QED
    BY <1>2, <1>3

\* The end of a stage moves the loop by one.
LEMMA NextStageTypes ==
    ASSUME stage \in Stages, NextStage
    PROVE  stage' \in 1 .. N + 1 /\ pc' \in PC /\ outcome' \in Outcomes /\ block' \in Blocks
    BY StagesAssumption DEF NextStage, Stages, PC, Outcomes, Blocks

\* The catch block keeps the types of what it changes.
LEMMA CatchTypes ==
    ASSUME TypeOK, stage \in Stages, NEW c, NEW W \in SUBSET BundleStatus, Catch(c, W)
    PROVE  /\ results' \in [Stages -> Status]
           /\ bundle' \in [Stages -> BundleStatus]
           /\ flags' \subseteq Flags
           /\ stage' \in 1 .. N + 1
           /\ pc' \in PC /\ outcome' \in Outcomes /\ block' \in Blocks
<1> USE StatusFacts, WriteTypes
<1>1. CASE c
    BY <1>1, NextStageTypes DEF Catch, TypeOK
<1>2. CASE ~c
    BY <1>2 DEF Catch, TypeOK, Flags, PC, Blocks
<1> QED
    BY <1>1, <1>2

\* TypeOK is preserved by every step, given that the loop stands at a stage.
LEMMA TypeStep == TypeOK /\ Frontier /\ [Next]_vars => TypeOK'
<1> SUFFICES ASSUME TypeOK, Frontier, [Next]_vars PROVE TypeOK'
    OBVIOUS
<1> USE StagesAssumption, StatusFacts
<1>0. pc \notin {"finish", "returned", "threw"} => stage \in Stages
    BY DEF Frontier, Ended
<1>1. CASE Start
    <2>1. sequence' \in Nat /\ events' \in Seq(Event) /\ observed' \in [Stages -> Status]
        BY <1>1, EmitTypes DEF Start, TypeOK
    <2> QED
        BY <1>1, <2>1 DEF Start, Throw, TypeOK, PC
<1>2. CASE Loop
    BY <1>0, <1>2, WriteTypes
    DEF Loop, NotSelected, RefuseInput, Resolve, Settle, Throw, TypeOK, PC, Flags
<1>3. CASE RecordBundle
    <2>1. results[stage] \in BundleStatus /\ bundle[stage] \in BundleStatus
        BY <1>0, <1>3 DEF RecordBundle, TypeOK
    <2>2. bundle' \in [Stages -> BundleStatus]
        BY <1>0, <1>3, <2>1, WriteTypes DEF RecordBundle
    <2> QED
        BY <1>3, <2>2 DEF RecordBundle, Throw, TypeOK, PC
<1>4. CASE BeforeStageStart
    BY <1>0, <1>4, WriteTypes DEF BeforeStageStart, Settle, Throw, TypeOK, PC, Flags
<1>5. CASE RetainInputs
    BY <1>0, <1>5, WriteTypes DEF RetainInputs, Throw, TypeOK, PC
<1>6. CASE OpenBundle
    <2>1. bundle[stage] \in BundleStatus
        BY <1>0, <1>6 DEF OpenBundle, TypeOK
    <2>2. bundle' \in [Stages -> BundleStatus]
        BY <1>0, <1>6, <2>1, WriteTypes DEF OpenBundle
    <2> QED
        BY <1>6, <2>2 DEF OpenBundle, Throw, TypeOK, PC
<1>7. CASE Announce
    <2>1. stage \in 0 .. N
        BY <1>0, <1>7 DEF Announce, Stages
    <2>2. sequence' \in Nat /\ events' \in Seq(Event) /\ observed' \in [Stages -> Status]
        BY <1>7, <2>1, EmitTypes DEF Announce
    <2> QED
        BY <1>7, <2>2 DEF Announce, Throw, TypeOK, PC, Blocks
<1>8. CASE Execute
    <2>0. stage \in Stages /\ bundle[stage] \in BundleStatus
        BY <1>0, <1>8 DEF Execute, TypeOK
    <2>1. CASE ExecuteThrows
        BY <1>8, <2>0, <2>1, CatchTypes DEF Execute, ExecuteThrows, TypeOK
    <2>2. ASSUME NEW o \in Outcomes, ExecuteReturns(o) PROVE TypeOK'
        BY <1>8, <2>0, <2>2, WriteTypes DEF Execute, ExecuteReturns, TypeOK, Flags, PC
    <2> QED
        BY <1>8, <2>1, <2>2 DEF Execute
<1>9. CASE SnapshotArtifacts
    <2>0. stage \in Stages /\ bundle[stage] \in BundleStatus
        BY <1>0, <1>9 DEF SnapshotArtifacts, TypeOK
    <2>1. CASE Catch(outcome = "committed", {bundle[stage]})
        BY <1>9, <2>0, <2>1, CatchTypes DEF SnapshotArtifacts, TypeOK
    <2> QED
        BY <1>9, <2>0, <2>1, WriteTypes DEF SnapshotArtifacts, TypeOK, PC
<1>10. CASE CloseBundle
    <2>0. stage \in Stages /\ {bundle[stage], results[stage]} \in SUBSET BundleStatus
        BY <1>0, <1>10 DEF CloseBundle, TypeOK
    <2>1. CASE RecordingFails({bundle[stage], results[stage]})
        BY <1>10, <2>0, <2>1, CatchTypes, WriteTypes
        DEF CloseBundle, RecordingFails, Throw, TypeOK, PC
    <2> QED
        BY <1>10, <2>0, <2>1, WriteTypes DEF CloseBundle, TypeOK, PC
<1>11. CASE EmitTerminal
    <2>0. stage \in Stages /\ stage \in 0 .. N
        BY <1>0, <1>11 DEF EmitTerminal, Stages
    <2>1. results[stage] \in Status /\ {bundle[stage]} \in SUBSET BundleStatus
        BY <2>0 DEF TypeOK
    <2>2. sequence' \in Nat /\ events' \in Seq(Event) /\ observed' \in [Stages -> Status]
        BY <1>11, <2>0, <2>1, EmitTypes DEF EmitTerminal
    <2>3. CASE RecordingFails({bundle[stage]})
        BY <1>11, <2>0, <2>1, <2>2, <2>3, CatchTypes, WriteTypes
        DEF EmitTerminal, RecordingFails, Throw, TypeOK, PC
    <2> QED
        BY <1>11, <2>0, <2>2, <2>3, NextStageTypes DEF EmitTerminal, TypeOK
<1>12. CASE Finish
    <2>1. FinalStatus \in Status /\ FinalStatus \in RunStatus
        BY DEF FinalStatus, RunStatus
    <2>2. sequence' \in Nat /\ events' \in Seq(Event) /\ observed' \in [Stages -> Status]
        BY <1>12, <2>1, EmitTypes DEF Finish
    <2> QED
        BY <1>12, <2>1, <2>2 DEF Finish, TypeOK, PC
<1>13. CASE Abort
    BY <1>13 DEF Abort, TypeOK
<1>14. CASE Settled
    BY <1>14 DEF Settled, vars, TypeOK
<1>15. CASE UNCHANGED vars
    BY <1>15 DEF vars, TypeOK
<1> QED
    BY <1>1, <1>2, <1>3, <1>4, <1>5, <1>6, <1>7, <1>8, <1>9, <1>10, <1>11, <1>12,
       <1>13, <1>14, <1>15 DEF Next, Step
\* Where the loop stands is preserved by every step.
LEMMA FrontierStep == TypeOK /\ Frontier /\ [Next]_vars => Frontier'
<1> SUFFICES ASSUME TypeOK, Frontier, [Next]_vars PROVE Frontier'
    OBVIOUS
<1> USE StagesAssumption DEF TypeOK, Frontier, Ended, Stages, TerminalStatus
<1>1. CASE Start
    BY <1>1 DEF Start, Throw
<1>2. CASE Loop
    BY <1>2 DEF Loop, NotSelected, RefuseInput, Resolve, Settle, SetResult, Throw
<1>3. CASE RecordBundle
    BY <1>3 DEF RecordBundle, Throw
<1>4. CASE BeforeStageStart
    BY <1>4 DEF BeforeStageStart, Settle, SetResult, Throw
<1>5. CASE RetainInputs
    BY <1>5 DEF RetainInputs, SetResult, Throw
<1>6. CASE OpenBundle
    BY <1>6 DEF OpenBundle, Throw
<1>7. CASE Announce
    BY <1>7 DEF Announce, Throw
<1>8. CASE Execute
    BY <1>8 DEF Execute, ExecuteThrows, ExecuteReturns, Outcomes, Catch, SetResult, NextStage
<1>9. CASE SnapshotArtifacts
    BY <1>9 DEF SnapshotArtifacts, Catch, SetResult, NextStage
<1>10. CASE CloseBundle
    BY <1>10 DEF CloseBundle, RecordingFails, Throw, Catch, SetResult, NextStage
<1>11. CASE EmitTerminal
    BY <1>11 DEF EmitTerminal, RecordingFails, Throw, Catch, SetResult, NextStage
<1>12. CASE Finish
    BY <1>12 DEF Finish
<1>13. CASE Abort
    BY <1>13 DEF Abort
<1>14. CASE Settled \/ UNCHANGED vars
    BY <1>14 DEF Settled, vars
<1> QED
    BY <1>1, <1>2, <1>3, <1>4, <1>5, <1>6, <1>7, <1>8, <1>9, <1>10, <1>11, <1>12, <1>13, <1>14 DEF
           Next, Step

\* The commit barrier is preserved by every step.
LEMMA BarrierStep == TypeOK /\ Frontier /\ Barrier /\ [Next]_vars => Barrier'
<1> SUFFICES ASSUME TypeOK, Frontier, Barrier, [Next]_vars PROVE Barrier'
    OBVIOUS
<1> USE StagesAssumption DEF TypeOK, Frontier, Barrier, Ended, Stages
<1>1. CASE Start
    BY <1>1 DEF Start, Throw
<1>2. CASE Loop
    BY <1>2 DEF Loop, NotSelected, RefuseInput, Resolve, Settle, SetResult, Throw
<1>3. CASE RecordBundle
    BY <1>3 DEF RecordBundle, Throw
<1>4. CASE BeforeStageStart
    BY <1>4 DEF BeforeStageStart, Settle, SetResult, Throw
<1>5. CASE RetainInputs
    BY <1>5 DEF RetainInputs, SetResult, Throw
<1>6. CASE OpenBundle
    BY <1>6 DEF OpenBundle, Throw
<1>7. CASE Announce
    BY <1>7 DEF Announce, Throw
<1>8. CASE Execute
    <2>1. CASE ExecuteThrows
        BY <1>8, <2>1 DEF Execute, ExecuteThrows, Catch, SetResult
    <2>2. ASSUME NEW o \in Outcomes \ {"none"}, ExecuteReturns(o) PROVE Barrier'
        <3>1. CASE o = "committed"
            BY <1>8, <2>2, <3>1 DEF Execute, ExecuteReturns
        <3>2. CASE o # "committed"
            BY <1>8, <2>2, <3>2 DEF Execute, ExecuteReturns, SetResult
        <3> QED
            BY <3>1, <3>2
    <2> QED
        BY <1>8, <2>1, <2>2 DEF Execute
<1>9. CASE SnapshotArtifacts
    BY <1>9 DEF SnapshotArtifacts, Catch, SetResult, NextStage
<1>10. CASE CloseBundle
    BY <1>10 DEF CloseBundle, RecordingFails, Throw, Catch, SetResult, NextStage
<1>11. CASE EmitTerminal
    BY <1>11 DEF EmitTerminal, RecordingFails, Throw, Catch, SetResult, NextStage
<1>12. CASE Finish
    BY <1>12 DEF Finish
<1>13. CASE Abort
    BY <1>13 DEF Abort
<1>14. CASE Settled \/ UNCHANGED vars
    BY <1>14 DEF Settled, vars
<1> QED
    BY <1>1, <1>2, <1>3, <1>4, <1>5, <1>6, <1>7, <1>8, <1>9, <1>10, <1>11, <1>12, <1>13, <1>14 DEF
           Next, Step

\* A step never moves the loop back nor touches a result behind it.
LEMMA StepFrame ==
    TypeOK /\ Frontier /\ [Next]_vars =>
        stage' >= stage /\ \A s \in Stages : s < stage => results'[s] = results[s]
<1> SUFFICES ASSUME TypeOK, Frontier, [Next]_vars
             PROVE  stage' >= stage /\ \A s \in Stages : s < stage => results'[s] = results[s]
    OBVIOUS
<1> USE StagesAssumption DEF TypeOK, Frontier, Ended, Stages
<1>1. CASE Start
    BY <1>1 DEF Start, Throw
<1>2. CASE Loop
    BY <1>2 DEF Loop, NotSelected, RefuseInput, Resolve, Settle, SetResult, Throw
<1>3. CASE RecordBundle
    BY <1>3 DEF RecordBundle, Throw
<1>4. CASE BeforeStageStart
    BY <1>4 DEF BeforeStageStart, Settle, SetResult, Throw
<1>5. CASE RetainInputs
    BY <1>5 DEF RetainInputs, SetResult, Throw
<1>6. CASE OpenBundle
    BY <1>6 DEF OpenBundle, Throw
<1>7. CASE Announce
    BY <1>7 DEF Announce, Throw
<1>8. CASE Execute
    BY <1>8 DEF Execute, ExecuteThrows, ExecuteReturns, Outcomes, Catch, SetResult, NextStage
<1>9. CASE SnapshotArtifacts
    BY <1>9 DEF SnapshotArtifacts, Catch, SetResult, NextStage
<1>10. CASE CloseBundle
    BY <1>10 DEF CloseBundle, RecordingFails, Throw, Catch, SetResult, NextStage
<1>11. CASE EmitTerminal
    BY <1>11 DEF EmitTerminal, RecordingFails, Throw, Catch, SetResult, NextStage
<1>12. CASE Finish
    BY <1>12 DEF Finish
<1>13. CASE Abort
    BY <1>13 DEF Abort
<1>14. CASE Settled \/ UNCHANGED vars
    BY <1>14 DEF Settled, vars
<1> QED
    BY <1>1, <1>2, <1>3, <1>4, <1>5, <1>6, <1>7, <1>8, <1>9, <1>10, <1>11, <1>12, <1>13, <1>14 DEF
           Next, Step

\* The trace is preserved by a step that writes nothing to it.
LEMMA TraceQuiet ==
    ASSUME TypeOK, Frontier, Trace, [Next]_vars, UNCHANGED <<events, observed>>
    PROVE  Trace'
<1>1. stage' >= stage /\ \A s \in Stages : s < stage => results'[s] = results[s]
    BY StepFrame
<1>2. \A k \in DOMAIN events : events[k].stage \in 0 .. N
    <2>1. \A k \in DOMAIN events : events[k] \in Event
        BY DEF TypeOK
    <2> QED
        BY <2>1 DEF Event
<1>3. stage \in Nat /\ stage' \in Nat
    BY TypeStep, StagesAssumption DEF TypeOK
<1>4. ASSUME NEW k \in DOMAIN events', events'[k].stage # 0,
             events'[k].status \in TerminalStatus
      PROVE  events'[k].stage < stage' /\ results'[events'[k].stage] = events'[k].status
    <2>1. /\ events[k].stage < stage /\ results[events[k].stage] = events[k].status
          /\ events[k].stage \in Stages
        BY <1>2, <1>4, StagesAssumption DEF Trace, Stages
    <2> QED
        BY <1>1, <1>3, <2>1, StagesAssumption DEF Stages
<1>5. ASSUME NEW s \in Stages, observed'[s] \in TerminalStatus
      PROVE  s < stage' /\ results'[s] = observed'[s]
    BY <1>1, <1>3, <1>5, StagesAssumption DEF Trace, Stages
<1> QED
    BY <1>4, <1>5 DEF Trace

\* The trace is preserved by an emit that, if it reports the end of a stage,
\* reports the stage under the loop and moves the loop past it.
LEMMA TraceEmit ==
    ASSUME TypeOK, Frontier, Trace, [Next]_vars,
           NEW x \in 0 .. N, NEW st \in Status, EmitOk(x, st), results' = results,
           x # 0 /\ st \in TerminalStatus => x < stage' /\ st = results[x],
           \A s \in Stages : results[s] \in TerminalStatus => s < stage'
    PROVE  Trace'
<1>1. stage' >= stage
    BY StepFrame
<1>2. \A k \in DOMAIN events : events[k].stage \in 0 .. N
    <2>1. \A k \in DOMAIN events : events[k] \in Event
        BY DEF TypeOK
    <2> QED
        BY <2>1 DEF Event
<1>3. stage \in Nat /\ stage' \in Nat
    BY TypeStep, StagesAssumption DEF TypeOK
<1>4. ASSUME NEW k \in DOMAIN events', events'[k].stage # 0,
             events'[k].status \in TerminalStatus
      PROVE  events'[k].stage < stage' /\ results[events'[k].stage] = events'[k].status
    <2> DEFINE e == [stage |-> x, status |-> st, seq |-> sequence + 1]
    <2>1. events' = Append(events, e) /\ events \in Seq(Event)
        BY DEF EmitOk, TypeOK
    <2>2. CASE k \in DOMAIN events
        <3>1. events'[k] = events[k]
            BY <2>1, <2>2
        <3> QED
            BY <1>1, <1>2, <1>3, <1>4, <2>2, <3>1 DEF Trace
    <2>3. CASE k \notin DOMAIN events
        <3>1. events'[k] = e
            BY <2>1, <2>3
        <3> QED
            BY <1>4, <3>1
    <2> QED
        BY <2>2, <2>3
<1>5. ASSUME NEW s \in Stages, observed'[s] \in TerminalStatus
      PROVE  s < stage' /\ results[s] = observed'[s]
    <2>1. CASE observed' = observed
        BY <1>1, <1>3, <1>5, <2>1, StagesAssumption DEF Trace, Stages
    <2>2. CASE observed' = results
        BY <1>5, <2>2
    <2> QED
        BY <2>1, <2>2 DEF EmitOk
<1> QED
    BY <1>4, <1>5 DEF Trace

\* The trace is preserved by every step.
LEMMA TraceStep == TypeOK /\ Frontier /\ Trace /\ [Next]_vars => Trace'
<1> SUFFICES ASSUME TypeOK, Frontier, Trace, [Next]_vars PROVE Trace'
    OBVIOUS
<1> USE StagesAssumption, StatusFacts
<1>0. CASE UNCHANGED <<events, observed>>
    BY <1>0, TraceQuiet
<1>1. CASE Start
    <2>1. \A s \in Stages : results[s] = "pending"
        BY <1>1 DEF Start, Frontier, Stages, TypeOK
    <2>2. CASE EmitOk(0, "running")
        BY <1>1, <2>1, <2>2, TraceEmit DEF Start, TerminalStatus
    <2> QED
        BY <1>0, <1>1, <2>2 DEF Start, EmitFails
<1>2. CASE Announce
    <2>1. stage \in 0 .. N /\ \A s \in Stages : results[s] \in TerminalStatus => s < stage
        BY <1>2 DEF Announce, Frontier, Ended, Stages, TerminalStatus, TypeOK
    <2>2. CASE EmitOk(stage, "running")
        BY <1>2, <2>1, <2>2, TraceEmit DEF Announce, TerminalStatus
    <2> QED
        BY <1>0, <1>2, <2>2 DEF Announce, EmitFails
<1>3. CASE EmitTerminal
    <2>1. /\ stage \in 0 .. N /\ stage \in Stages /\ results[stage] \in Status
          /\ \A s \in Stages : results[s] \in TerminalStatus => s < stage + 1
        BY <1>3 DEF EmitTerminal, Frontier, Ended, Stages, TerminalStatus, TypeOK
    <2>2. CASE EmitOk(stage, results[stage]) /\ NextStage /\ UNCHANGED results
        <3>1. stage' = stage + 1 /\ stage < stage + 1
            BY <2>1, <2>2 DEF NextStage
        <3> QED
            BY <2>1, <2>2, <3>1, TraceEmit
    <2> QED
        BY <1>0, <1>3, <2>2 DEF EmitTerminal, EmitFails
<1>4. CASE Finish
    <2>1. stage = N + 1 /\ stage' = stage /\ results' = results
        BY <1>4 DEF Finish, Frontier
    <2>2. FinalStatus \in Status /\ \A s \in Stages : s < stage'
        BY <2>1 DEF FinalStatus, Stages
    <2>3. CASE EmitOk(0, FinalStatus)
        BY <2>1, <2>2, <2>3, TraceEmit
    <2> QED
        BY <1>0, <1>4, <2>3 DEF Finish, EmitFails
<1>5. CASE Loop \/ RecordBundle \/ BeforeStageStart \/ RetainInputs \/ OpenBundle \/ Execute
           \/ SnapshotArtifacts \/ CloseBundle \/ Abort
    BY <1>0, <1>5 DEF Loop, RecordBundle, BeforeStageStart, RetainInputs, OpenBundle, Execute,
       SnapshotArtifacts, CloseBundle, Abort
<1>6. CASE Settled \/ UNCHANGED vars
    BY <1>0, <1>6 DEF Settled, vars
<1> QED
    BY <1>1, <1>2, <1>3, <1>4, <1>5, <1>6 DEF Next, Step

\* Writing the result of the stage under the loop, once its dependencies are
\* settled, disturbs the dependencies of no stage that executed.
LEMMA ReadyWrite ==
    ASSUME TypeOK, Frontier, Ready, UNCHANGED target, stage \in Stages,
           NEW st, SetResult(st),
           \A d \in DependsOn[stage] : results[d] = "completed" \/ d \in target.provided
    PROVE  /\ DependenciesHold'
           /\ \A d \in DependsOn[stage] : results'[d] = "completed" \/ d \in target'.provided
<1> USE StagesAssumption DEF Stages
<1>1. \A s \in Stages : \A d \in DependsOn[s] : d \in Stages /\ d < s /\ d # s
    OBVIOUS
<1>2. \A s \in Stages : s # stage => results'[s] = results[s]
    BY DEF SetResult, TypeOK
<1>3. \A d \in DependsOn[stage] : results'[d] = "completed" \/ d \in target'.provided
    BY <1>1, <1>2
<1>4. ASSUME NEW s \in Stages, results'[s] \in {"running", "completed", "failed"}
      PROVE  \A d \in DependsOn[s] : results'[d] = "completed" \/ d \in target'.provided
    <2>1. CASE s < stage
        BY <1>1, <1>2, <1>4, <2>1 DEF Ready, DependenciesHold
    <2>2. CASE s = stage
        BY <1>3, <2>2
    <2>3. CASE s > stage
        BY <1>2, <1>4, <2>3 DEF Frontier
    <2> QED
        BY <2>1, <2>2, <2>3
<1> QED
    BY <1>3, <1>4 DEF DependenciesHold

\* Settled dependencies stay settled.
LEMMA ReadyStep == TypeOK /\ Frontier /\ Ready /\ [Next]_vars => Ready'
<1> SUFFICES ASSUME TypeOK, Frontier, Ready, [Next]_vars PROVE Ready'
    OBVIOUS
<1> USE StagesAssumption DEF TypeOK, Frontier, Ready, DependenciesHold, Ended, Stages, TerminalStatus
<1>1. CASE Start
    BY <1>1 DEF Start, Throw
<1>2. CASE Loop
    BY <1>2 DEF Loop, NotSelected, RefuseInput, Resolve, Settle, SetResult, Throw,
                InputMismatch, Incomplete
<1>3. CASE RecordBundle
    BY <1>3 DEF RecordBundle, Throw
<1>4. CASE BeforeStageStart
    BY <1>4 DEF BeforeStageStart, Settle, SetResult, Throw
<1>5. CASE RetainInputs
    BY <1>5 DEF RetainInputs, SetResult, Throw
<1>6. CASE OpenBundle
    BY <1>6 DEF OpenBundle, Throw
<1>7. CASE Announce
    BY <1>7 DEF Announce, Throw
<1>8. CASE Execute
    BY <1>8 DEF Execute, ExecuteThrows, ExecuteReturns, Outcomes, Catch, SetResult, NextStage
<1>9. CASE SnapshotArtifacts
    BY <1>9 DEF SnapshotArtifacts, Catch, SetResult, NextStage
<1>10. CASE CloseBundle
    <2>0. stage \in Stages /\ UNCHANGED target
        BY <1>10 DEF CloseBundle
    <2>1. CASE block = "try" /\ Catch(outcome = "committed", {bundle[stage], results[stage]})
        BY <2>0, <2>1, ReadyWrite DEF Catch, NextStage
    <2>2. CASE UNCHANGED <<results, stage, block>> /\ pc' \in {"emit", "threw"}
        BY <2>0, <2>2
    <2> QED
        BY <1>10, <2>1, <2>2 DEF CloseBundle, RecordingFails, Throw
<1>11. CASE EmitTerminal
    <2>0. stage \in Stages /\ UNCHANGED target
        BY <1>11 DEF EmitTerminal
    <2>1. CASE block = "try" /\ Catch(outcome = "committed", {bundle[stage]})
        BY <2>0, <2>1, ReadyWrite DEF Catch, NextStage
    <2>2. CASE UNCHANGED <<results, stage, block>> /\ pc' = "threw"
        BY <2>0, <2>2
    <2>3. CASE UNCHANGED results /\ NextStage
        BY <2>0, <2>3 DEF NextStage
    <2> QED
        BY <1>11, <2>1, <2>2, <2>3 DEF EmitTerminal, RecordingFails, Throw
<1>12. CASE Finish
    BY <1>12 DEF Finish
<1>13. CASE Abort
    BY <1>13 DEF Abort
<1>14. CASE Settled \/ UNCHANGED vars
    BY <1>14 DEF Settled, vars
<1> QED
    BY <1>1, <1>2, <1>3, <1>4, <1>5, <1>6, <1>7, <1>8, <1>9, <1>10, <1>11, <1>12, <1>13, <1>14 DEF
           Next, Step

-----------------------------------------------------------------------------
(* Theorems *)

\* The inductive invariant holds at the start of runPipeline.
LEMMA InitIInv == Init => IInv
    BY StagesAssumption
    DEF Init, IInv, TypeOK, Frontier, Barrier, Trace, Ready, DependenciesHold, Stages, Status,
        BundleStatus, TerminalStatus, PC, Outcomes, Blocks, Flags, RunStatus, Ended

\* The inductive invariant holds throughout a run.
THEOREM Inductive == Spec => []IInv
<1>1. IInv /\ [Next]_vars => IInv'
    BY TypeStep, FrontierStep, BarrierStep, TraceStep, ReadyStep DEF IInv
<1> QED
    BY <1>1, InitIInv, PTL DEF Spec

\* The variables of runPipeline keep their types.
THEOREM TypeCorrect == Spec => []TypeOK
<1>1. IInv => TypeOK
    BY DEF IInv
<1> QED
    BY <1>1, Inductive, PTL

\* The commit barrier of runPipeline, for every pipeline: a committed stage is
\* never reclassified by an abort or by a failed write of its trace.
THEOREM CommitBarrier == Spec => []CommitIsFinal
<1>1. IInv => CommitIsFinal
    <2> SUFFICES ASSUME IInv, NEW s \in committed
                 PROVE  /\ results[s] \in {"running", "completed"}
                        /\ s < stage => results[s] = "completed"
        BY DEF CommitIsFinal
    <2>1. s < stage => results[s] = "completed"
        BY DEF IInv, Barrier
    <2>2. CASE s = stage
        BY <2>2 DEF IInv, Barrier, Frontier
    <2>3. s \in Nat /\ stage \in Nat /\ s <= stage
        BY StagesAssumption DEF IInv, TypeOK, Barrier, Stages
    <2> QED
        BY <2>1, <2>2, <2>3
<1> QED
    BY <1>1, Inductive, PTL

\* A pipeline whose last stage has committed returns: no later write failure
\* escapes runPipeline.
THEOREM CommittedRunReturns == Spec => []PublicationReturns
<1>1. IInv => PublicationReturns
    BY DEF IInv, Barrier, PublicationReturns
<1> QED
    BY <1>1, Inductive, PTL

\* The event log agrees with the results runPipeline keeps and returns.
THEOREM EventLogAgrees == Spec => []EventsMatchResults
<1>1. IInv => EventsMatchResults
    BY DEF IInv, Trace, EventsMatchResults
<1> QED
    BY <1>1, Inductive, PTL

\* No stage executes on dependencies that did not complete and were not given.
THEOREM DependenciesRespected == Spec => []DependenciesHold
<1>1. IInv => DependenciesHold
    BY DEF IInv, Ready
<1> QED
    BY <1>1, Inductive, PTL

\* A snapshot observer never sees a stage leave a terminal status.
THEOREM ObserverMonotone == Spec => ObservedIsMonotone
<1>1. IInv /\ [Next]_vars =>
          [\A s \in Stages : observed[s] \in TerminalStatus => observed'[s] = observed[s]]_vars
    <2> SUFFICES ASSUME IInv, Next, NEW s \in Stages, observed[s] \in TerminalStatus
                 PROVE  observed'[s] = observed[s]
        OBVIOUS
    <2>1. results[s] = observed[s]
        BY DEF IInv, Trace
    <2>2. observed' \in {observed, results}
        BY DEF Next, Step, Start, Loop, RecordBundle, BeforeStageStart, RetainInputs,
               OpenBundle,
               Announce, Execute, SnapshotArtifacts, CloseBundle, EmitTerminal, Finish, Abort,
               Settled, vars, EmitOk, EmitFails
    <2> QED
        BY <2>1, <2>2
<1> QED
    BY <1>1, Inductive, PTL DEF Spec, ObservedIsMonotone

\* The four invariants of runPipeline together.
THEOREM RunConsistent == Spec => []RunIsConsistent
BY CommitBarrier, CommittedRunReturns, EventLogAgrees, DependenciesRespected, PTL DEF
       RunIsConsistent

=============================================================================
