--------------------------- MODULE MCServerChecks ---------------------------
(***************************************************************************)
(* The server's pure checks on bounded inputs: each state holds one input, *)
(* and an invariant compares what the check answers on it with a reference *)
(* statement of what the check is for.                                     *)
(***************************************************************************)
EXTENDS ViewerSimulation, CandidateQuality, ApplicationCircuit, ReferenceSamples, InventorySamples, GraphWorkerPool

CONSTANT PoolGraphs

VARIABLE sample

-----------------------------------------------------------------------------
(* Waveform timing: instants are tenths of a step apart at the end of the  *)
(* interval, where the simulator may sample twice.                         *)
Instants == {0, 9, 10, 19, 20, 21, 24, 25}
TimingSamples ==
    [kind : {"timing"}, start : {0}, step : {10}, stop : {19, 20, 24, 25},
     times : UNION {[1..n -> Instants] : n \in 2..4}]

(* Curves: up to three samples in any order and two reference points *)
Levels == {0, 1, 2, 4}
Point == [x : 0..2, y : Levels]
ScoreSamples ==
    {[kind |-> "score", scale |-> scale, reference |-> reference,
      tolerance |-> <<1, 4>>, points |-> points] :
        scale \in {"linear", "log"},
        reference \in {<<[x |-> 0, y |-> a], [x |-> 1, y |-> b]>> : a \in {0, 1, 4}, b \in {1, 2}},
        points \in {<<>>, <<[x |-> 0, y |-> NonFinite], [x |-> 1, y |-> 1]>>}
                   \cup UNION {[1..n -> Point] : n \in 1..3}}

(* A planned voltage across a pin of the device and ground, and a current; *)
(* circuits with up to two probes, two graphs and two experiments.         *)
Curve == <<[x |-> 0, y |-> 1], [x |-> 10, y |-> 2]>>
Voltage == [id |-> "v", kind |-> "voltage", positive |-> [kind |-> "pin", name |-> "OUT"],
            negative |-> [kind |-> "gnd", name |-> "GND"], reference |-> Curve]
Current == [id |-> "i", kind |-> "current", positive |-> [kind |-> "gnd", name |-> "GND"],
            negative |-> [kind |-> "gnd", name |-> "GND"], reference |-> Curve]
PlannedCase(observations) ==
    [start |-> 0, step |-> 10, stop |-> 10, tolerance |-> <<1, 4>>, transient |-> TRUE,
     curves |-> TRUE, observations |-> observations]

Side(port, net) == [port |-> port, net |-> net]
Probes ==
    {[id |-> id, name |-> name, kind |-> kind, inline |-> inline,
      positive |-> positive, negative |-> negative] :
        id \in {1, 2}, name \in {"v", "i"}, kind \in {"voltage", "current"},
        inline \in BOOLEAN, positive \in {Side(7, Omitted), Side(8, Omitted)},
        negative \in {Side(Omitted, Omitted), Side(Omitted, 5), Side(Omitted, 6)}}
GoodVoltageProbe ==
    [id |-> 1, name |-> "v", kind |-> "voltage", inline |-> FALSE,
     positive |-> Side(7, Omitted), negative |-> Side(Omitted, 5)]
Graphs ==
    [id : {1, 2}, kind : {"voltage", "current"}, exp : {1, 2}, probe : {1, 2},
     timing : {TRUE}, times : {<<0, 10>>}, levels : {<<1, 2>>, <<1, 4>>}]
Circuit(probes, graphs, experiments, models) ==
    [nets |-> {[id |-> 5, name |-> "GND", ground |-> TRUE], [id |-> 6, name |-> "VCC", ground |-> FALSE]},
     ports |-> {[id |-> 7, name |-> "OUT"], [id |-> 8, name |-> "IN"]},
     duts |-> 1, models |-> models, probes |-> probes, graphs |-> graphs,
     experiments |-> experiments, fixtures |-> TRUE, failed |-> FALSE]
FirstExperiment == {[id |-> 1, transient |-> TRUE, timing |-> TRUE]}
Experiments == {FirstExperiment, FirstExperiment \cup {[id |-> 2, transient |-> FALSE, timing |-> TRUE]}}
Models == {{}, {[OUT |-> 7]}, {[OUT |-> 8]}}

ViewerSamples ==
    {[kind |-> "viewer", case |-> PlannedCase(observations), circuit |-> Circuit(probes, graphs, e, m)] :
        observations \in {{Voltage}, {Voltage, Current}},
        probes \in {{GoodVoltageProbe, p} : p \in Probes},
        graphs \in {{g, h} : g \in {x \in Graphs : x.id = 1 /\ x.exp = 1},
                             h \in {x \in Graphs : x.id = 2 \/ (x.probe = 1 /\ x.exp = 1)}},
        e \in Experiments, m \in Models}

-----------------------------------------------------------------------------
(* Candidates: two cases, each with what tsci left and one or two series *)
Series == {[result |-> r, err |-> e] : r \in {"pass"}, e \in {1}}
          \cup {[result |-> r, err |-> e] : r \in {"tolerance"}, e \in {2, 3}}
          \cup {[result |-> r, err |-> 0] : r \in {"range", "missing"}}
Viewers == [structure : BOOLEAN, series : {<<>>} \cup {<<s>> : s \in Series}
                                          \cup {<<[result |-> "pass", err |-> 1], s>> : s \in Series}]
Cases == {[build |-> b, json |-> "json", embeds |-> e, viewer |-> NotJudged] :
            b \in {"infra", "no_json", "simulation"}, e \in {TRUE}}
         \cup {[build |-> "done", json |-> "json", embeds |-> e, viewer |-> v] :
            e \in BOOLEAN, v \in {w \in Viewers : w.structure => w.series # <<>>}}
Candidates ==
    {[cases |-> <<a, b>>, bound |-> bound, responds |-> [k \in 1..2 |-> responds]] :
        a \in Cases, b \in Cases, bound \in {{}, {1}}, responds \in BOOLEAN}

(* Incumbents a repair may start from, and candidates that lost a case *)
Accurate == [build |-> "done", json |-> "json", embeds |-> TRUE,
             viewer |-> [structure |-> TRUE, series |-> <<[result |-> "pass", err |-> 1]>>]]
Inaccurate(e) == [Accurate EXCEPT !.viewer.series = <<[result |-> "tolerance", err |-> e]>>]
Broken == [build |-> "simulation", json |-> "json", embeds |-> TRUE, viewer |-> NotJudged]
Incumbents ==
    {[cases |-> <<a, b>>, bound |-> {1}, responds |-> [k \in 1..2 |-> TRUE]] :
        a \in {Accurate, Inaccurate(2), Inaccurate(3), Broken},
        b \in {Accurate, Inaccurate(2), Inaccurate(3), Broken}}

(* Parameter fits: a valley on a line or in the plane, and a ceiling *)
Far(a, b) == IF a > b THEN a - b ELSE b - a
Fits == [kind : {"fit"}, initial : {<<0>>, <<600>>, <<1152>>, <<0, 1152>>, <<300, 300>>},
         valley : {0, 288, 700, 1152}, granted : 3..20]
ScoreOf(fit) == [u \in Seq(0..Units) |-> FoldFunction(LAMBDA x, acc : Far(x, fit.valley) + acc, 0, u)]

-----------------------------------------------------------------------------
(* Drawings of a target, a resistor and a terminal, or a port that stands  *)
(* for the terminal; reviews of them, with a pin by number or by a label   *)
(* of one or of both pins.                                                 *)
Drawings(E) ==
    {{{e \in E : f[e] = 1}, {e \in E : f[e] = 2}} \ {{}} : f \in [E -> 0..2]}
Part(ref, kind, value, mpn) == [ref |-> ref, kind |-> kind, value |-> value, mpn |-> mpn]
Source(page, image) == [page |-> page, image |-> image, method |-> "pdf_visual"]
Sources == <<Source(1, None)>>
TwoPins == [known |-> TRUE, role |-> ("1" :> "power" @@ "2" :> "power"),
            labels |-> ("1" :> {"A", "X"} @@ "2" :> {"X"}), names |-> {"family", "order"}]
SparePin == [TwoPins EXCEPT !.role["2"] = "no_connect"]
NotKnown == [TwoPins EXCEPT !.known = FALSE]
Family == [part |-> "family", selected |-> "order"]

Plans ==
    {p \in [components : {{Part("X1", "regulator", "family", None), Part("R1", kind, "1k", None),
                            Part("J1", "input_port", "V", None)} : kind \in {"resistor", "chip_resistor"}},
            nodes : Drawings({Port("X1", "1"), Port("X1", "2"), Port("R1", "1"), Port("R1", "2"),
                              Port("J1", "1"), Terminal("V")}),
            sources : {Sources}] : PlanAccepted(p, Family)}
Reviews ==
    {r \in [components : {{Part("U1", "regulator", None, mpn), Part("R1", kind, "1k", None)} :
                             kind \in {"resistor", "chip_resistor"}, mpn \in {"family", "other"}},
            nodes : Drawings({Port("U1", "1"), Port("U1", "A"), Port("U1", "2"), Port("R1", "1"), Port("R1", "2"),
                              Terminal("V")}),
            source : {Source(1, None)}] : ReviewAccepted(r)}
ReviewSamples ==
    [kind : {"review"}, plan : Plans, review : Reviews, evidence : {TwoPins, SparePin, NotKnown}]

SourceSamples ==
    [kind : {"source"}, page : 1..2, before : {Sources, <<Source(2, "crop")>>, <<Source(1, None), Source(2, "crop")>>},
     after : {Sources, <<Source(2, "crop")>>, <<Source(1, None), Source(2, "crop")>>}]

(* Circuits of two passives whose pins may be exchanged, a pin and a net,  *)
(* in up to two nodes of the plan.                                         *)
PlannedEnds == <<Port("R1", "1"), Port("R1", "2"), Port("C1", "1"), Port("C1", "2"), Port("U1", "1"), Terminal("V")>>
Connections ==
    {<<[net |-> "N1", pins |-> a], [net |-> "N2", pins |-> b]>> :
        <<a, b>> \in {<<SelectSeq(PlannedEnds, LAMBDA e : f[e] = 1), SelectSeq(PlannedEnds, LAMBDA e : f[e] = 2)>> :
                        f \in {g \in [ToSet(PlannedEnds) -> 0..2] :
                                 /\ \A e \in DOMAIN g : e.comp \in {"R1", "C1"} => g[e] > 0
                                 /\ \A k \in 1..2 : Cardinality({e \in DOMAIN g : g[e] = k}) > 1}}}
Circuits ==
    {[ports |-> SubSeq(PlannedEnds, 1, 5), nets |-> {Terminal("V")} \cup extra,
      interchangeable |-> {"R1", "C1"},
      joined |-> {{e \in ToSet(PlannedEnds) : f[e] = k} : k \in 1..3} \cup {{Port("R1", "1")} \cup extra}] :
        f \in {g \in [ToSet(PlannedEnds) -> 0..3] : g[Port("R1", "1")] \in 0..1 /\ g[Port("R1", "2")] \in 0..2},
        extra \in {{}, {Terminal("N1")}}}
CircuitSamples == [kind : {"circuit"}, connections : Connections, circuit : Circuits]

ScopeSamples ==
    [kind : {"scope"},
     scope : [parent : [{"g1", "g2"} -> {None, "g1", "g2", "gone"}], owned : {{}, {"g1"}, {"g2"}},
              group : [{"U1", "R1", "Z1"} -> {None, "g1", "g2"}]]]

-----------------------------------------------------------------------------
(* A behaviour takes up one of the checks, and then an input of it *)
Init == sample \in [kind : {"none"}, check : 1..14] /\ PoolInit

Takes(check) == sample.kind = "none" /\ sample.check = check /\ UNCHANGED poolVars

CheckTiming == Takes(1) /\ sample' \in TimingSamples
CheckScore == Takes(2) /\ sample' \in ScoreSamples
CheckViewer == Takes(3) /\ sample' \in ViewerSamples
CheckCandidate == Takes(4) /\ \E c \in Candidates : sample' = [kind |-> "candidate", cand |-> c]
CheckPair ==
    /\ Takes(5)
    /\ \E old \in Incumbents, new \in {c \in Candidates : c.bound = {1}} :
          sample' = [kind |-> "pair", old |-> old, cand |-> new]
CheckFit == Takes(6) /\ sample' \in Fits
CheckReview == Takes(7) /\ sample' \in ReviewSamples \cup SourceSamples
CheckCircuit == Takes(8) /\ sample' \in CircuitSamples
CheckScope == Takes(9) /\ sample' \in ScopeSamples
CheckGrid == Takes(10) /\ sample' \in GridSamples
CheckAxis == Takes(11) /\ sample' \in AxisSamples
CheckInventory == Takes(12) /\ sample' \in InventorySamples \cup ReviewedSamples
CheckFixture == Takes(13) /\ sample' \in FixtureSamples \cup EdgeSamples \cup PlotSamples

(* The pool of graph workers runs by itself *)
RunPool ==
    /\ sample.kind = "none" /\ sample.check = 14 /\ UNCHANGED sample
    /\ PoolNext \/ \E n \in 0..PoolGraphs : StartPool(n)

Next == CheckTiming \/ CheckScore \/ CheckViewer \/ CheckCandidate \/ CheckPair \/ CheckFit
        \/ CheckReview \/ CheckCircuit \/ CheckScope \/ CheckGrid \/ CheckAxis \/ CheckInventory
        \/ CheckFixture \/ RunPool
Spec == Init /\ [][Next]_<<sample, poolVars>>

-----------------------------------------------------------------------------
(* timing.ts, scoring.ts and the orchestrator of the simulations: a        *)
(* waveform has one sample per planned instant, its score is its deviation *)
(* from the reference curve, and a case that passes shows exactly the      *)
(* waveforms that were judged (WaveformCovers, ScoreIsDeviation and        *)
(* OneWaveformEach).                                                       *)
WaveformsAreJudged ==
    /\ sample.kind = "timing" => WaveformCovers(sample.start, sample.step, sample.stop, sample.times)
    /\ sample.kind = "score" =>
          ScoreIsDeviation(sample.scale, sample.reference, sample.tolerance, sample.points)
    /\ sample.kind = "viewer" => OneWaveformEach(sample.case, sample.circuit, "exact")

(* candidate-quality.ts: a candidate has one verdict and one rank,         *)
(* whichever stage asks; no failed case is left out of the feedback; and a *)
(* candidate that lost a simulation never takes the place of one that had  *)
(* it (PassedAgrees, BaselineJudgedAlike, FailureIsExplained,              *)
(* NonRunnableNeverDisplaces and PromotionIsReported).                     *)
CandidatesJudged ==
    /\ sample.kind = "candidate" => /\ PassedAgrees(sample.cand) /\ BaselineJudgedAlike(sample.cand)
                                    /\ FailureIsExplained(sample.cand)
    /\ sample.kind = "pair" => /\ NonRunnableNeverDisplaces(sample.old, sample.cand)
                               /\ PromotionIsReported(sample.old, sample.cand)

(* model-parameter-fit.ts, see FitWithinGrant: a fit asks for no more      *)
(* evaluations than it was granted, stays in range and is never worse than *)
(* where it began.                                                         *)
FitsWithinGrant ==
    sample.kind = "fit" => FitWithinGrant(ScoreOf(sample), sample.initial, sample.granted)

(* The verification of an application's connectivity and circuit: the      *)
(* extractor and the reviewer agree on one drawing of one page, what is    *)
(* built is what was planned, and no component escapes the comparison      *)
(* (AgreementIsSameDrawing, ReviewStaysBound, CircuitIsPlanned and         *)
(* ScopeHidesNothing).                                                     *)
DrawingsKept ==
    /\ sample.kind = "review" =>
          AgreementIsSameDrawing(sample.plan, Family, sample.review, sample.evidence)
    /\ sample.kind = "source" =>
          ReviewStaysBound(Source(sample.page, None), [sources |-> sample.before], [sources |-> sample.after])
    /\ sample.kind = "circuit" => CircuitIsPlanned(sample.connections, {"R1", "C1", "U1"}, sample.circuit)
    /\ sample.kind = "scope" => ScopeHidesNothing(sample.scope, {"U1", "R1"})

(* The axis proof of a reference graph: a stray stroke or a hidden line    *)
(* does not change a grid, and an axis that is proved, published or let    *)
(* through by the preflight is the printed one (GridFound, AxesPrinted and *)
(* PreflightIsAccepted).                                                   *)
AxesArePrinted ==
    /\ sample.kind = "grid" =>
          GridFound(sample.lines, sample.hidden, sample.profile, sample.pale, sample.away)
    /\ sample.kind = "axis" => AxesPrinted(sample.picture, sample.graph)

(* The inventory of reference graphs, from the answer of the finder to the *)
(* combined observation, and the pool that digitises them (InventoryKept,  *)
(* CaptionsCannotBeDismissed, PrintedEdgesShown, PlottedPulseAccepted,     *)
(* NoBranchOrphaned and PoolAnswersForAll).                                *)
ReferencesKept ==
    /\ sample.kind = "inventory" =>
          InventoryKept(sample.graphs, sample.hints, sample.world, sample.calibrated)
    /\ sample.kind = "reviewed" => CaptionsCannotBeDismissed(sample.reviews)
    /\ sample.kind = "edges" => PrintedEdgesShown(sample.pulse, sample.from, sample.to)
    /\ sample.kind = "plot" => PlottedPulseAccepted(sample.pulse, sample.points, sample.printed, sample.other)
    /\ sample.kind = "fixture" => NoBranchOrphaned(sample.contract, sample.binding)
    /\ PoolAnswersForAll
=============================================================================
