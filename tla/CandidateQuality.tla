--------------------------- MODULE CandidateQuality ---------------------------
(***************************************************************************)
(* How a model candidate is ranked (src/server/model-workflow): the cases  *)
(* are simulated by tscircuit and saved with a receipt, each is judged     *)
(* (ViewerSimulation), a replay without the stimulus tells whether the     *)
(* model responds to it, and the result is ranked against the candidate    *)
(* at hand.  The first candidate is compared by a stage of its own, from   *)
(* the saved simulations; a repaired one in the process that ran it.       *)
(*                                                                         *)
(* A case's outcome is what tsci left: infra and no_json are build errors, *)
(* simulation is an error of the model inside valid Circuit JSON, done is  *)
(* a simulation to judge.  A series passed, missed its tolerance, did not  *)
(* reach the reference's range, or is missing; a scored one has an error   *)
(* (one number for its maximum and its mean square).                       *)
(***************************************************************************)
EXTENDS QualityOrder, Sequences, FiniteSets, Folds, SequencesExt

Infinity == 1000        \* no finite error at all

-----------------------------------------------------------------------------
(* validation-circuit-previews.ts, tscircuit-simulation-artifacts.ts *)

BuildError(o) == o.build \in {"infra", "no_json"}

(* writeTscircuitSimulationArtifacts and readTscircuitSimulationArtifacts: *)
(* the receipt keeps the kind of a failure and the Circuit JSON there is.  *)
WriteReceipt(o) ==
    [status |-> IF o.build = "done" THEN "completed" ELSE "failed",
     failure_kind |-> IF BuildError(o) THEN "build" ELSE "simulation",
     file |-> IF o.build = "no_json" THEN "none" ELSE o.json]

ReadReceipt(r) ==
    [json |-> r.file,
     build_error |-> r.status = "failed" /\ r.failure_kind = "build",
     simulation_error |-> r.status = "failed" /\ r.failure_kind = "simulation"]

(* Mutant: a failed simulation is passed on as if it could be judged *)
ForgetfulMemory(o) ==
    [json |-> IF o.build = "no_json" THEN "none" ELSE o.json,
     build_error |-> BuildError(o),
     simulation_error |-> FALSE]

(* The same three maps when no receipt is in between *)
InMemory(o) ==
    [json |-> IF o.build = "no_json" THEN "none" ELSE o.json,
     build_error |-> BuildError(o),
     simulation_error |-> o.build = "simulation"]

(* validateViewerSimulation's verdict on the Circuit JSON at hand *)
Valid(v) == v.structure /\ \A i \in DOMAIN v.series : v.series[i].result # "missing"
Passed(v) == Valid(v) /\ \A i \in DOMAIN v.series : v.series[i].result = "pass"

NotJudged == [structure |-> FALSE, series |-> <<>>]

(* compareOneTscircuitSimulation *)
Compare(run, o) ==
    LET judged == ~run.build_error /\ ~run.simulation_error /\ run.json # "none" /\ o.embeds
    IN  [judged |-> judged,
         viewer |-> IF judged THEN o.viewer ELSE NotJudged,
         error |-> ~judged \/ ~Passed(o.viewer),
         model_error |-> run.simulation_error /\ ~run.build_error]

-----------------------------------------------------------------------------
(* candidate-validation.ts and compare-simulation-outputs.ts: the result   *)
(* of the cases, from what each run left.                                  *)
Sum(f, S) == FoldSet(LAMBDA x, acc : f[x] + acc, 0, S)
Count(seq, Test(_)) == Cardinality({i \in DOMAIN seq : Test(seq[i])})

(* isModelRepairableValidationError of the errors of one case *)
NonRepairableErrors(c) ==
    IF c.model_error \/ ~c.judged THEN 0
    ELSE (IF c.viewer.structure THEN 0 ELSE 1)
         + Count(c.viewer.series, LAMBDA s : s.result \in {"range", "missing"})

(* createStimulusCausalityPlan and evaluateStimulusCausality: a bound case *)
(* whose replay without the step is missing, or looks the same, is         *)
(* affected; one error stands for all of them.                             *)
Affected(cand, compared) ==
    {k \in cand.bound : ~compared[k].judged \/ compared[k].viewer.series = <<>> \/ ~cand.responds[k]}

(* attachStimulusCausalityCheck *)
Result(cand, compared) ==
    [cases |-> compared,
     causality_failures |-> IF Affected(cand, compared) # {} THEN 1 ELSE 0,
     non_repairable |-> Sum([k \in DOMAIN compared |-> NonRepairableErrors(compared[k])],
                            DOMAIN compared),
     passed |-> /\ \A k \in DOMAIN compared : compared[k].judged /\ Passed(compared[k].viewer)
                /\ Affected(cand, compared) = {}]

(* As repair judges its candidates *)
InProcess(cand) == Result(cand, [k \in DOMAIN cand.cases |-> Compare(InMemory(cand.cases[k]), cand.cases[k])])

(* As compare_simulation_outputs judges the first candidate *)
FromReceipts(cand) ==
    Result(cand, [k \in DOMAIN cand.cases |->
                    Compare(ReadReceipt(WriteReceipt(cand.cases[k])), cand.cases[k])])

(* getViewerPreviewFailures: validation.passed of a repaired candidate *)
ValidationPassed(result) ==
    result.passed /\ \A k \in DOMAIN result.cases : ~result.cases[k].error

(* classifyValidationInfrastructureFailure *)
InfrastructureFailure(result) ==
    \/ result.non_repairable > 0
    \/ \E k \in DOMAIN result.cases :
         LET c == result.cases[k]
         IN  c.error /\ ~c.model_error /\ (~c.judged \/ ~Valid(c.viewer))

-----------------------------------------------------------------------------
(* candidate-quality.ts *)

Scored(seq) == SelectSeq(seq, LAMBDA s : s.result \in {"pass", "tolerance"})

(* createCandidateQuality: the counts; the direct series and the viewer's series are   *)
(* the same ones in this pipeline, and both are counted.                   *)
Counts(result, available) ==
    LET cases == DOMAIN result.cases
        Series(k) == result.cases[k].viewer.series
        failed == {k \in cases : ~(result.cases[k].judged /\ Passed(result.cases[k].viewer))}
                  \cup {k \in cases : k \notin available
                                      \/ \E i \in DOMAIN Series(k) : Series(k)[i].result # "pass"}
        failed_series == 2 * Sum([k \in cases |-> Count(Series(k), LAMBDA s : s.result # "pass")], cases)
        errors == UNION {{Scored(Series(k))[i].err : i \in DOMAIN Scored(Series(k))} : k \in cases}
        count == Sum([k \in cases |-> Len(Scored(Series(k)))], cases)
        total == Sum([k \in cases |-> FoldFunction(LAMBDA s, acc : s.err + acc, 0, Scored(Series(k)))],
                     cases)
    IN  [passed |-> result.passed /\ cases \subseteq available /\ failed = {} /\ failed_series = 0,
         unavailable |-> Cardinality(cases \ available), failed_cases |-> Cardinality(failed),
         failed_series |-> failed_series,
         max_error |-> IF errors = {} THEN Infinity ELSE CHOOSE e \in errors : \A f \in errors : f <= e,
         total |-> total, count |-> count]

(* Mutant: accuracy is ranked before what can be looked at *)
AccuracyFirst(result, available) ==
    LET c == Counts(result, available)
    IN  [passed |-> c.passed, total |-> c.total, count |-> c.count,
         gates |-> <<result.non_repairable, result.causality_failures,
                     c.failed_cases, c.failed_series, c.max_error, c.unavailable>>]

(* The counts in the order they are compared *)
CreateQuality(result, available) ==
    LET c == Counts(result, available)
    IN  [passed |-> c.passed, total |-> c.total, count |-> c.count,
         gates |-> <<result.non_repairable, result.causality_failures, c.unavailable,
                     c.failed_cases, c.failed_series, c.max_error>>]

(* viewerQualityCasesFromValidation, for a repaired candidate *)
Quality(result) ==
    CreateQuality(result, {k \in DOMAIN result.cases :
                              result.cases[k].judged /\ Valid(result.cases[k].viewer)})

(* The first candidate's rank, from the stored result *)
BaselineQuality(result) ==
    CreateQuality(result, {k \in DOMAIN result.cases : result.cases[k].viewer.series # <<>>})

(* repair-model.ts: what promotes a repaired candidate *)
Promotes(cand, incumbent) ==
    ValidationPassed(InProcess(cand)) \/ Better(Quality(InProcess(cand)), incumbent)

(* createRepairEffectivenessReport *)
Outcome(final, baseline) ==
    IF final.passed THEN "target_met" ELSE IF Better(final, baseline) THEN "improved" ELSE "unchanged"

(* Mutant: a case without a simulation to judge is not reported *)
SilentFeedback(result, affected) ==
    LET Failing(r) == {k \in DOMAIN result.cases :
            \E i \in DOMAIN result.cases[k].viewer.series : result.cases[k].viewer.series[i].result = r}
    IN  [curve_mismatch |-> Failing("tolerance"),
         comparison_failure |-> Failing("range"),
         convergence_failure |-> {k \in DOMAIN result.cases : result.cases[k].model_error},
         stimulus_insensitive |-> affected]

(* createModelRepairFeedback: the cases each category counts *)
Feedback(result, affected) ==
    LET failed == {k \in DOMAIN result.cases : ~(result.cases[k].judged /\ Passed(result.cases[k].viewer))}
        With(r) == {k \in failed : \E i \in DOMAIN result.cases[k].viewer.series :
                                      result.cases[k].viewer.series[i].result = r}
    IN  [curve_mismatch |-> With("tolerance"),
         comparison_failure |-> With("range"),
         viewer_curve_mismatch |-> {k \in failed : Valid(result.cases[k].viewer)},
         convergence_failure |-> {k \in failed : result.cases[k].model_error},
         stimulus_insensitive |-> affected,
         validation_failure |->
            {k \in failed : /\ ~result.cases[k].model_error
                            /\ \/ ~result.cases[k].judged \/ ~result.cases[k].viewer.structure
                               \/ k \in With("missing")}]

-----------------------------------------------------------------------------
(* model-parameter-fit.ts: a bounded search in units of the ranges, on a   *)
(* grid of Units steps so that every Halton point of bases 2 and 3 and     *)
(* every refinement step used is exact.                                    *)
Units == 1152

RECURSIVE Halton(_, _, _)
Halton(index, base, fraction) ==
    IF index = 0 THEN 0
    ELSE (fraction \div base) * (index % base) + Halton(index \div base, base, fraction \div base)

Primes == <<2, 3>>

(* accept: a strictly better score replaces the best *)
Evaluate(f, search, units) ==
    [search EXCEPT !.evaluations = @ + 1,
                   !.best = IF f[units] < f[search.best] THEN units ELSE search.best,
                   !.seen = @ \cup {units}]

RECURSIVE Explore(_, _, _, _)
Explore(f, search, index, budget) ==
    IF search.evaluations >= budget THEN search
    ELSE Explore(f, Evaluate(f, search, [d \in DOMAIN search.best |-> Halton(index, Primes[d], Units)]),
                 index + 1, budget)

Clamp(u) == IF u < 0 THEN 0 ELSE IF u > Units THEN Units ELSE u

(* Mutant: the budget is only looked at between rounds *)
OvershootMove(f, search, d, center, delta, max) ==
    IF Clamp(center + delta) = center THEN search
    ELSE Evaluate(f, search, [search.best EXCEPT ![d] = Clamp(center + delta)])

(* One move of a coordinate, unless the budget is spent or the bound holds *)
Move(f, search, d, center, delta, max) ==
    IF search.evaluations >= max \/ Clamp(center + delta) = center THEN search
    ELSE Evaluate(f, search, [search.best EXCEPT ![d] = Clamp(center + delta)])

RECURSIVE Round(_, _, _, _, _)
Round(f, search, d, step, max) ==
    IF d > Len(search.best) \/ search.evaluations >= max THEN search
    ELSE LET center == search.best[d]
         IN  Round(f, Move(f, Move(f, search, d, center, -step, max), d, center, step, max),
                   d + 1, step, max)

RECURSIVE Refine(_, _, _, _)
Refine(f, search, step, max) ==
    IF search.evaluations >= max \/ step < Units \div 128 THEN search
    ELSE LET after == Round(f, search, 1, step, max)
         IN  Refine(f, after, IF after.best = search.best THEN step \div 2 ELSE step, max)

Least(a, b) == IF a < b THEN a ELSE b
Most(a, b) == IF a > b THEN a ELSE b

(* searchModelParameters, from the source's own values *)
SearchParameters(f, initial, requested) ==
    LET max == Most(3, Least(64, requested))
        explore == Least(Most(3 * Len(initial), 6), max \div 2)
        first == [evaluations |-> 1, best |-> initial, seen |-> {initial}]
    IN  Refine(f, Explore(f, first, 1, explore), Units \div 4, max)

-----------------------------------------------------------------------------
(* The two answers to "did the candidate pass" agree: the loop ends on     *)
(* validation.passed and ranks by quality.passed, and a disagreement would *)
(* hand on a failed candidate or never recognise a good one.               *)
PassedAgrees(cand) ==
    ValidationPassed(InProcess(cand)) <=> Quality(InProcess(cand)).passed

(* Like is ranked with like: a first candidate that may be repaired has    *)
(* the same rank whether it is read back from its receipts and its stored  *)
(* result or judged the way its repairs are.                               *)
BaselineJudgedAlike(cand) ==
    ~InfrastructureFailure(FromReceipts(cand)) =>
        BaselineQuality(FromReceipts(cand)) = Quality(InProcess(cand))

(* A candidate with fewer simulations to look at never displaces one whose *)
(* only fault is accuracy (createCandidateQuality: "a non-runnable         *)
(* candidate can never displace a slightly less accurate but inspectable   *)
(* one").                                                                  *)
NonRunnableNeverDisplaces(incumbent, cand) ==
    LET old == FromReceipts(incumbent)
        lost == {k \in DOMAIN cand.cases : ~InProcess(cand).cases[k].judged}
    IN  /\ ~InfrastructureFailure(old) /\ Affected(incumbent, old.cases) = {}
        /\ Cardinality(lost) > Cardinality({k \in DOMAIN old.cases : ~old.cases[k].judged})
        => ~Promotes(cand, BaselineQuality(old))

(* What is promoted is reported as met or improved, never as unchanged *)
PromotionIsReported(incumbent, cand) ==
    LET baseline == BaselineQuality(FromReceipts(incumbent))
    IN  Promotes(cand, baseline) <=> Outcome(Quality(InProcess(cand)), baseline) # "unchanged"

(* The agent is told of every case that failed *)
FailureIsExplained(cand) ==
    LET result == InProcess(cand)
        affected == Affected(cand, result.cases)
        told == Feedback(result, affected)
    IN  UNION {told[c] : c \in DOMAIN told}
            = affected \cup {k \in DOMAIN result.cases : result.cases[k].error}

(* A fit spends no more simulator runs than it was granted, stays in the   *)
(* agent's ranges, and never ends worse than the source it began with.     *)
FitWithinGrant(f, initial, granted) ==
    LET search == SearchParameters(f, initial, granted)
    IN  /\ search.evaluations <= granted
        /\ \A u \in search.seen : \A d \in DOMAIN u : u[d] \in 0..Units
        /\ \A u \in search.seen : f[search.best] <= f[u]
===============================================================================
