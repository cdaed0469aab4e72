------------------------ MODULE ModelCandidateSearch ------------------------
(***************************************************************************)
(* The tools a model agent works with (src/server/infrastructure/agent/    *)
(* model-candidate-tools-extension.ts) and the bounded search behind them  *)
(* (src/server/model-workflow/model-candidate-search.ts).                  *)
(*                                                                         *)
(* The workspace holds model.lib, model-card.md and two receipts of the    *)
(* check tool, one of the static check and one of the public training      *)
(* run.  The search session lives in the memory of the agent's process: it *)
(* counts checks, fits and topologies, and keeps the best candidate the    *)
(* training run ranked.  A failed provider transport kills the process at  *)
(* any write; the next process starts a new session on the same files.     *)
(*                                                                         *)
(* A source stands for the bytes of model.lib, a card for those of         *)
(* model-card.md; a receipt is the pair it was issued for.  Tool calls are *)
(* sequential (executionMode "sequential").  The pipeline prepares the     *)
(* workspace without a training plan at present; the tools handle both.    *)
(***************************************************************************)
EXTENDS Integers, FiniteSets, FiniteSetsExt

CONSTANTS
    Sources,            \* what the agent may write to model.lib
    Topology,           \* modelCandidateTopologyFingerprint of a source
    TrainingQuality,    \* rank of its training report, 0 is the best
    Static,             \* the sources that satisfy the model contract
    MaxChecks, MaxTopologies, MaxFitCalls, MaxFitPerTopology,
    MaxFitEvaluations, MaxFitPerCall,
    Requests,           \* values of max_evaluations a fit asks for
    MaxWrites,          \* bound: writes of the agent, for each run of the pipeline
    MaxKills            \* bound: transport failures, for each run of the pipeline

Cards == 1..2
None == 0               \* no file
Torn == -1              \* a file whose write was cut off
NoPair == [src |-> None, card |-> None]     \* no receipt, no retained best
Failed == [src |-> Torn, card |-> Torn]     \* the receipt of a failed check

ASSUME SearchAssumption ==
    /\ Sources \subseteq Nat \ {0}
    /\ Topology \in [Sources -> Nat]
    /\ TrainingQuality \in [Sources -> Nat]
    /\ Static \subseteq Sources
    /\ \A n \in {MaxChecks, MaxTopologies, MaxFitCalls, MaxFitPerTopology,
                 MaxFitEvaluations, MaxFitPerCall} : n \in Nat
    /\ Requests \subseteq Nat

VARIABLES
    lib, card,      \* the two files
    crec, trec,     \* the receipts of the static check and of the training run
    tool,           \* the tool call in progress: none, write, check or fit
    step,           \* where it stands
    todo,           \* the files of a Promise.all still to be written or removed
    arg,            \* the argument of a write
    ready,          \* ensureSearchInitialized has run in this process
    best,           \* the retained snapshot
    used,           \* the session's counters
    plan,           \* model-training-plan.json is in the workspace
    writes, kills   \* how many of them are left

workspace == <<lib, card, crec, trec>>
session == <<ready, best, used>>
call == <<tool, step, todo, arg>>
searchVars == <<workspace, session, call, plan, writes, kills>>

Topologies == {Topology[s] : s \in Sources}
FreshSession == [checks |-> 0, fits |-> 0, evals |-> 0,
                 by |-> [t \in Topologies |-> 0], tops |-> {}]

SearchInit ==
    /\ lib = None /\ card = None
    /\ crec = NoPair /\ trec = NoPair
    /\ tool = "none" /\ step = "idle" /\ todo = {} /\ arg = None
    /\ ready = FALSE /\ best = NoPair /\ used = FreshSession
    /\ plan = FALSE /\ writes = 0 /\ kills = 0

Current == [src |-> lib, card |-> card]

(* ensureSearchInitialized: a receipt that names the bytes of both files   *)
(* seeds the search; anything else is ignored.                             *)
Seed == IF trec = Current THEN trec ELSE NoPair

Best == IF ready THEN best ELSE Seed
SeedTopologies == IF ~ready /\ Seed # NoPair THEN {Topology[Seed.src]} ELSE {}
Tops == used.tops \cup SeedTopologies

Initialize ==
    /\ ready' = TRUE
    /\ best' = Best

(* A missing, unreadable or torn source has a fingerprint of its own: 0    *)
Fingerprint == IF lib \in Sources THEN Topology[lib] ELSE 0

NewTopologyDenied == Fingerprint \notin Tops /\ Cardinality(Tops) >= MaxTopologies

CheckAllowed == ~NewTopologyDenied /\ used.checks < MaxChecks

(* The evaluations a fit is granted: at least 3 are asked for, the call    *)
(* and the session bound them.                                             *)
Granted(request) ==
    Min({Max({3, request}), MaxFitPerCall, MaxFitEvaluations - used.evals})

FitCalls == IF Fingerprint \in Topologies THEN used.by[Fingerprint] ELSE 0

FitAllowed(request) ==
    /\ ~NewTopologyDenied
    /\ used.fits < MaxFitCalls
    /\ FitCalls < MaxFitPerTopology
    /\ Granted(request) >= 3

(* restoreBest, called with a retained best or without one *)
RestoreOr(otherwise) ==
    IF Best # NoPair
    THEN step' = "restore" /\ todo' = {"lib", "card"} /\ UNCHANGED <<tool, crec>>
    ELSE otherwise

Finished == tool' = "none" /\ step' = "idle" /\ todo' = {}

(* A failed check without a retained candidate leaves a failed receipt *)
FailedReceipt == crec' = Failed /\ Finished


-----------------------------------------------------------------------------
(* model_output_write *)
WriteOutput(file, value) ==
    /\ tool = "none" /\ writes > 0
    /\ Initialize
    /\ writes' = writes - 1 /\ used' = [used EXCEPT !.tops = Tops]
    /\ tool' = "write" /\ step' = "write" /\ todo' = {file} /\ arg' = value
    /\ UNCHANGED <<workspace, plan, kills>>

WriteFile ==
    /\ step = "write"
    /\ lib' = IF "lib" \in todo THEN arg ELSE lib
    /\ card' = IF "card" \in todo THEN arg ELSE card
    /\ step' = "drop" /\ todo' = {"crec", "trec"} /\ arg' = None
    /\ UNCHANGED <<crec, trec, tool, session, plan, writes, kills>>

(* invalidateReceipts removes both receipts in one Promise.all *)
DropReceipt(file) ==
    /\ step = "drop" /\ file \in todo
    /\ crec' = IF file = "crec" THEN NoPair ELSE crec
    /\ trec' = IF file = "trec" THEN NoPair ELSE trec
    /\ IF todo # {file} THEN todo' = todo \ {file} /\ UNCHANGED <<tool, step>>
       ELSE IF tool = "check"
            THEN step' = "static" /\ todo' = {} /\ UNCHANGED tool
            ELSE Finished
    /\ UNCHANGED <<lib, card, arg, session, plan, writes, kills>>

-----------------------------------------------------------------------------
(* check_model_candidate: the budget comes first *)
CheckCandidate ==
    /\ tool = "none"
    /\ Initialize
    /\ IF CheckAllowed
       THEN /\ used' = [used EXCEPT !.checks = @ + 1, !.tops = Tops \cup {Fingerprint}]
            /\ tool' = "check" /\ step' = "drop" /\ todo' = {"crec", "trec"}
       ELSE /\ used' = [used EXCEPT !.tops = Tops]
            /\ IF Best # NoPair
               THEN tool' = "check" /\ step' = "restore" /\ todo' = {"lib", "card"}
               ELSE Finished
    /\ UNCHANGED <<workspace, arg, plan, writes, kills>>

StaticallyValid == lib \in Static /\ card \in Cards

StaticCheck ==
    /\ step = "static" /\ StaticallyValid
    /\ crec' = Current
    /\ IF plan THEN step' = "train" /\ UNCHANGED <<tool, todo>> ELSE Finished
    /\ UNCHANGED <<lib, card, trec, arg, session, plan, writes, kills>>

(* The check or the training run throws: a retained best is put back, and  *)
(* without one the failure becomes the receipt.                            *)
CheckThrows ==
    /\ \/ step = "static" /\ ~StaticallyValid
       \/ step = "train"
    /\ RestoreOr(FailedReceipt)
    /\ UNCHANGED <<lib, card, trec, arg, session, plan, writes, kills>>

TrainingReport ==
    /\ step = "train"
    /\ trec' = Current
    /\ step' = "consider"
    /\ UNCHANGED <<lib, card, crec, tool, todo, arg, session, plan, writes, kills>>

Improves == best = NoPair \/ TrainingQuality[lib] < TrainingQuality[best.src]

KeepEdit ==
    /\ step = "consider"
    /\ best' = IF Improves THEN Current ELSE best
    /\ Finished
    /\ UNCHANGED <<workspace, arg, ready, used, plan, writes, kills>>

Consider ==
    /\ step = "consider"
    /\ IF Improves
       THEN best' = Current /\ Finished
       ELSE best' = best /\ step' = "restore" /\ todo' = {"lib", "card"} /\ UNCHANGED tool
    /\ UNCHANGED <<workspace, arg, ready, used, plan, writes, kills>>

-----------------------------------------------------------------------------
(* restoreBest writes both files, then both receipts *)
RestoreFile(file) ==
    /\ step = "restore" /\ file \in todo
    /\ lib' = IF file = "lib" THEN best.src ELSE lib
    /\ card' = IF file = "card" THEN best.card ELSE card
    /\ IF todo = {file} THEN step' = "receipts" /\ todo' = {"crec", "trec"}
                        ELSE todo' = todo \ {file} /\ UNCHANGED step
    /\ UNCHANGED <<crec, trec, tool, arg, session, plan, writes, kills>>

RestoreReceipt(file) ==
    /\ step = "receipts" /\ file \in todo
    /\ crec' = IF file = "crec" THEN best ELSE crec
    /\ trec' = IF file = "trec" THEN best ELSE trec
    /\ IF todo = {file} THEN Finished ELSE todo' = todo \ {file} /\ UNCHANGED <<tool, step>>
    /\ UNCHANGED <<lib, card, arg, session, plan, writes, kills>>

(* A write of restoreBest fails and so does the second try the catch makes *)
RestoreFails ==
    /\ step \in {"restore", "receipts"}
    /\ IF tool = "fit" THEN crec' = crec /\ Finished ELSE FailedReceipt
    /\ UNCHANGED <<lib, card, trec, arg, session, plan, writes, kills>>

-----------------------------------------------------------------------------
(* fit_model_parameters *)
FitParameters(request) ==
    /\ tool = "none"
    /\ Initialize
    /\ IF FitAllowed(request)
       THEN /\ used' = [used EXCEPT !.fits = @ + 1,
                                    !.evals = @ + Granted(request),
                                    !.by = [t \in Topologies |->
                                              @[t] + IF t = Fingerprint THEN 1 ELSE 0],
                                    !.tops = Tops \cup {Fingerprint}]
            /\ tool' = "fit" /\ step' = "fit" /\ UNCHANGED todo
       ELSE /\ used' = [used EXCEPT !.tops = Tops]
            /\ IF Best # NoPair THEN tool' = "fit" /\ step' = "restore" /\ todo' = {"lib", "card"}
                              ELSE Finished
    /\ UNCHANGED <<workspace, arg, plan, writes, kills>>

(* The fitter writes the best values it found into the same topology, or   *)
(* puts the source back when the static check refuses them; the receipts   *)
(* go either way.                                                          *)
FitRuns(s) ==
    /\ step = "fit" /\ plan /\ StaticallyValid
    /\ Topology[s] = Topology[lib]
    /\ lib' = IF s \in Static THEN s ELSE lib
    /\ step' = "drop" /\ todo' = {"crec", "trec"}
    /\ UNCHANGED <<card, crec, trec, tool, arg, session, plan, writes, kills>>

FitThrows ==
    /\ step = "fit" /\ (~plan \/ ~StaticallyValid)
    /\ Finished
    /\ UNCHANGED <<workspace, arg, session, plan, writes, kills>>

-----------------------------------------------------------------------------
(* The agent's process dies: a file being written may be cut off, and the  *)
(* session with its counters and its best is gone.                         *)
Kill ==
    /\ kills > 0
    /\ kills' = kills - 1
    /\ lib' \in IF step \in {"write", "restore"} /\ "lib" \in todo THEN {lib, Torn} ELSE {lib}
    /\ card' \in IF step \in {"write", "restore"} /\ "card" \in todo THEN {card, Torn} ELSE {card}
    /\ Finished /\ arg' = None
    /\ ready' = FALSE /\ best' = NoPair /\ used' = FreshSession
    /\ UNCHANGED <<crec, trec, plan, writes>>

SearchNext ==
    \/ \E s \in Sources : WriteOutput("lib", s) \/ FitRuns(s)
    \/ \E c \in Cards : WriteOutput("card", c)
    \/ WriteFile \/ CheckCandidate \/ StaticCheck \/ CheckThrows
    \/ TrainingReport \/ Consider \/ RestoreFails \/ FitThrows \/ Kill
    \/ \E f \in {"crec", "trec"} : DropReceipt(f) \/ RestoreReceipt(f)
    \/ \E f \in {"lib", "card"} : RestoreFile(f)
    \/ \E r \in Requests : FitParameters(r)

(* generateModelCandidate's validate: the server repeats the static check  *)
(* and the agent's receipt must name the same bytes.                       *)
ServerAccepts == StaticallyValid /\ crec = Current

-----------------------------------------------------------------------------
(* Between two tool calls, a candidate the server would accept is at least *)
(* as good as the best one the session retained: no order of writes,       *)
(* checks, fits, failed restores and restarts of the agent lets a worse    *)
(* edit keep the receipt that gets it accepted                             *)
(* (model-candidate-tools-extension.ts, "This edit did not improve ...").  *)
AcceptableIsBest ==
    tool = "none" /\ ready /\ best # NoPair /\ ServerAccepts /\ plan
        => TrainingQuality[lib] <= TrainingQuality[best.src]
=============================================================================
