--------------------------- MODULE ViewerSimulation ---------------------------
(***************************************************************************)
(* How the server judges one simulation that tscircuit ran (src/server/    *)
(* modeling/viewer-simulation and src/server/spice-validation/scoring.ts): *)
(* the probes must measure what the plan says, the waveform must cover the *)
(* planned interval, and its samples are scored against the digitized      *)
(* curve of the datasheet.                                                 *)
(*                                                                         *)
(* Times and values are integers.  Fractions are compared by cross         *)
(* multiplication; a tolerance is a pair <<numerator, denominator>>.  Two  *)
(* times within Slack of each other are the same instant to the server     *)
(* (its relative tolerances are far below a time step).                    *)
(***************************************************************************)
EXTENDS Integers, Sequences, FiniteSets, SequencesExt

CONSTANTS
    Slack,          \* millisecondsApproximatelyEqual, in time units
    NonFinite       \* a sample that is not a finite number

Abs(n) == IF n < 0 THEN -n ELSE n
Near(a, b) == Abs(a - b) <= Slack

-----------------------------------------------------------------------------
(* timing.ts *)

(* Mutant: the grid alone, which may stop short of the end *)
GridTimes(start, step, stop) ==
    [i \in 1..((stop - start) \div step + 1) |-> start + (i - 1) * step]

(* expectedTransientTimestamps: the regular grid, and the end of the       *)
(* interval when the grid does not reach it.                               *)
ExpectedTimes(start, step, stop) ==
    LET grid == [i \in 1..((stop - start) \div step + 1) |->
                    IF start + (i - 1) * step > stop THEN stop ELSE start + (i - 1) * step]
    IN  IF Near(Last(grid), stop) THEN grid ELSE Append(grid, stop)

(* redundantTerminalSampleIndex: the simulator's last regular sample may   *)
(* fall just short of the end, which it then samples as well.  0: none.    *)
RedundantSample(times, expected) ==
    LET n == Len(times)
    IN  IF /\ n = Len(expected) + 1 /\ Len(expected) >= 2
           /\ \A i \in 1..(n - 2) : Near(times[i], expected[i])
           /\ Near(times[n - 1], Last(expected)) /\ Near(times[n], Last(expected))
           /\ times[n] > times[n - 1]
        THEN n - 1 ELSE 0

(* normalizeTransientBoundaryPoint *)
NormalizeBoundary(points, expected) ==
    LET redundant == RedundantSample([i \in DOMAIN points |-> points[i].x], expected)
    IN  IF redundant = 0 THEN points ELSE RemoveAt(points, redundant)

(* validateTransientGraphTiming, once the metadata agree with the plan *)
CoverageMatches(times, expected) ==
    \/ Len(times) = Len(expected) /\ \A i \in DOMAIN times : Near(times[i], expected[i])
    \/ RedundantSample(times, expected) # 0

-----------------------------------------------------------------------------
(* waveform-probes.ts: the planned endpoints of an observation are ground, *)
(* a net by its name, or a pin of the device under test.  A circuit lists  *)
(* its nets (id, name, ground), the components named DUT, the models       *)
(* embedded in them (pin -> port) and their ports (id, name).              *)
Unresolved == [kind |-> "none", ids |-> {}]

ResolveEndpoint(circuit, endpoint) ==
    LET named == {net \in circuit.nets : net.name = endpoint.name}
        mapped == {port \in circuit.ports :
                     \E model \in circuit.models :
                        endpoint.name \in DOMAIN model /\ model[endpoint.name] = port.id}
        hinted == {port \in circuit.ports : port.name = endpoint.name}
        pins == IF circuit.models # {} THEN mapped ELSE hinted
    IN  CASE endpoint.kind = "gnd" ->
               [kind |-> "ground", ids |-> {net.id : net \in {n \in circuit.nets : n.ground}}]
          [] endpoint.kind = "net" ->
               IF Cardinality(named) = 1
               THEN [kind |-> "net", ids |-> {net.id : net \in named}] ELSE Unresolved
          [] OTHER ->
               IF circuit.duts = 1 /\ Cardinality(circuit.models) <= 1 /\ Cardinality(pins) = 1
               THEN [kind |-> "port", ids |-> {port.id : port \in pins}] ELSE Unresolved

(* probeEndpointMatches: a probe names a port, a net, or neither; without  *)
(* a reference it measures against ground.                                 *)
Omitted == 0
EndpointMatches(side, resolved, port, net) ==
    CASE resolved.kind = "none" -> FALSE
      [] resolved.kind = "ground" /\ side = "negative" /\ port = Omitted /\ net = Omitted -> TRUE
      [] resolved.kind = "port" -> port \in resolved.ids /\ net = Omitted
      [] OTHER -> net \in resolved.ids /\ port = Omitted

(* probeForObservation and currentProbeForObservation: exactly one probe   *)
(* of the observation's kind and name, whose sides match the plan or whose *)
(* ammeter is the component of that name.  0 is no probe.                  *)
ProbeFor(circuit, observation) ==
    LET probes == {p \in circuit.probes : p.name = observation.id /\ p.kind = observation.kind}
        Matches(p) ==
            IF observation.kind = "current" THEN p.inline
            ELSE \A side \in {"positive", "negative"} :
                   EndpointMatches(side, ResolveEndpoint(circuit, observation[side]),
                                   p[side].port, p[side].net)
    IN  IF Cardinality(probes) = 1 /\ \A p \in probes : Matches(p)
        THEN (CHOOSE p \in probes : TRUE).id ELSE 0

-----------------------------------------------------------------------------
(* graphPoints: aligned, finite samples at strictly increasing times *)
GraphPoints(times, levels) ==
    IF /\ Len(times) >= 2 /\ Len(levels) = Len(times)
       /\ \A i \in DOMAIN times : times[i] # NonFinite /\ levels[i] # NonFinite
       /\ \A i \in 1..(Len(times) - 1) : times[i] < times[i + 1]
    THEN [ok |-> TRUE, points |-> [i \in DOMAIN times |-> [x |-> times[i], y |-> levels[i]]]]
    ELSE [ok |-> FALSE, points |-> <<>>]

-----------------------------------------------------------------------------
(* scoring.ts *)

(* Powers of two stand for the values of a logarithmic axis *)
Log2(y) == CHOOSE k \in 0..y : 2 ^ k = y
Scaled(scale, y) == IF scale = "log" THEN Log2(y) ELSE y

(* interpolate walks the ordered samples; the value at x is a fraction     *)
(* <<numerator, denominator>>, and <<0, 0>> where the simulation did not   *)
(* reach.                                                                  *)
Nowhere == <<0, 0>>

Interpolate(points, x) ==
    LET n == Len(points)
        walk[i \in 1..(n + 1)] ==
            IF i > n THEN Nowhere
            ELSE IF points[i].x = x THEN <<points[i].y, 1>>
            ELSE IF i = n \/ x > points[i + 1].x THEN walk[i + 1]
            ELSE LET width == points[i + 1].x - points[i].x
                 IN  <<points[i].y * width + (x - points[i].x) * (points[i + 1].y - points[i].y),
                       width>>
    IN  CASE n = 0 -> Nowhere
          [] n = 1 -> IF points[1].x = x THEN <<points[1].y, 1>> ELSE Nowhere
          [] OTHER -> IF x < points[1].x \/ x > points[n].x THEN Nowhere ELSE walk[1]

(* Mutant: the samples as they came *)
Unordered(points) == points

Ordered(points) == SortSeq(points, LAMBDA a, b : a.x < b.x)

(* The span of the curve, its largest value where the curve is flat *)
Normalization(ys) ==
    LET top == CHOOSE y \in ys : \A z \in ys : z <= y
        bottom == CHOOSE y \in ys : \A z \in ys : y <= z
        magnitude == CHOOSE m \in {Abs(y) : y \in ys} : \A y \in ys : Abs(y) <= m
    IN  IF top > bottom THEN top - bottom ELSE magnitude

Score(passed, code) == [passed |-> passed, code |-> code]

(* scoreCurve: every reference point is met within the tolerance *)
ScoreCurve(scale, reference, tolerance, points) ==
    LET ordered == Ordered(points)
        samples == [i \in DOMAIN ordered |->
                      [x |-> ordered[i].x, y |-> Scaled(scale, ordered[i].y)]]
        wanted == [i \in DOMAIN reference |->
                      [x |-> reference[i].x, y |-> Scaled(scale, reference[i].y)]]
        at == [i \in DOMAIN wanted |-> Interpolate(samples, wanted[i].x)]
        span == Normalization({wanted[i].y : i \in DOMAIN wanted})
        Within(i) == Abs(at[i][1] - wanted[i].y * at[i][2]) * tolerance[2]
                        <= tolerance[1] * span * at[i][2]
    IN  IF \E i, j \in DOMAIN points : i # j /\ points[i].x = points[j].x
        THEN Score(FALSE, "duplicate_series_x")
        ELSE IF \E i \in DOMAIN at : at[i] = Nowhere
        THEN Score(FALSE, "curve_outside_simulation_range")
        ELSE IF \A i \in DOMAIN at : Within(i) THEN Score(TRUE, "none")
        ELSE Score(FALSE, "curve_tolerance_exceeded")

(* scoreObservation of a curve *)
ScoreObservation(scale, reference, tolerance, points) ==
    IF points = <<>> THEN Score(FALSE, "empty_series")
    ELSE IF \E i \in DOMAIN points : NonFinite \in {points[i].x, points[i].y}
    THEN Score(FALSE, "non_finite_series")
    ELSE IF scale = "log" /\ \E i \in DOMAIN points : points[i].y <= 0
    THEN Score(FALSE, "invalid_log_sample")
    ELSE IF scale = "log" /\ \E i \in DOMAIN reference : reference[i].y <= 0
    THEN Score(FALSE, "invalid_log_reference")
    ELSE ScoreCurve(scale, reference, tolerance, points)

-----------------------------------------------------------------------------
(* orchestrator.ts *)

(* graphsForProbe *)
GraphsFor(circuit, observation, experiment, probe) ==
    {g \in circuit.graphs : g.kind = observation.kind /\ g.exp = experiment /\ g.probe = probe}

(* The first transient experiment: 0 is none *)
Experiment(circuit) ==
    LET transient == {e \in circuit.experiments : e.transient}
    IN  IF transient = {} THEN 0 ELSE (CHOOSE e \in transient : \A f \in transient : e.id <= f.id).id

NoSeries == [passed |-> FALSE, kind |-> "simulator", length |-> 0]

(* What becomes of one observation: the waveform of its probe is scored *)
SeriesOf(case, circuit, observation) ==
    LET experiment == Experiment(circuit)
        probe == ProbeFor(circuit, observation)
        graphs == GraphsFor(circuit, observation, experiment, probe)
        graph == CHOOSE g \in graphs : TRUE
        samples == GraphPoints(graph.times, graph.levels)
        points == NormalizeBoundary(samples.points, ExpectedTimes(case.start, case.step, case.stop))
        score == ScoreObservation("linear", observation.reference, case.tolerance, points)
    IN  IF experiment = 0 \/ probe = 0 \/ Cardinality(graphs) # 1 THEN NoSeries
        ELSE IF ~samples.ok THEN NoSeries
        ELSE [passed |-> score.passed, kind |-> "comparison", length |-> Len(points)]

(* The graphs that are the waveform of a planned observation *)
MatchedGraphs(circuit, observations) ==
    UNION {LET graphs == GraphsFor(circuit, o, Experiment(circuit), ProbeFor(circuit, o))
           IN  IF Cardinality(graphs) = 1 THEN graphs ELSE {}
             : o \in {p \in observations : ProbeFor(circuit, p) # 0}}

(* Mutant: graphs nobody planned are let through *)
ExtraGraphsValid(case, circuit, policy) ==
    /\ case.transient /\ case.curves /\ ~circuit.failed
    /\ Cardinality(circuit.experiments) = 1
    /\ \A e \in circuit.experiments : e.transient /\ e.timing
    /\ \A g \in circuit.graphs :
          g.timing /\ CoverageMatches(g.times, ExpectedTimes(case.start, case.step, case.stop))

(* Errors that make the simulation itself invalid *)
StructureValid(case, circuit, policy) ==
    /\ case.transient /\ case.curves
    /\ policy = "repairable" \/ circuit.fixtures
    /\ Cardinality(circuit.experiments) = 1
    /\ \A e \in circuit.experiments : e.transient /\ e.timing
    /\ ~circuit.failed
    /\ \A g \in circuit.graphs : g.kind \in {"voltage", "current"}
    /\ circuit.graphs \subseteq MatchedGraphs(circuit, case.observations)
    /\ \A g \in circuit.graphs :
          g.timing /\ CoverageMatches(g.times, ExpectedTimes(case.start, case.step, case.stop))

(* validateViewerSimulation *)
ValidateViewer(case, circuit, policy) ==
    LET series == [o \in case.observations |-> SeriesOf(case, circuit, o)]
        valid == /\ StructureValid(case, circuit, policy)
                 /\ \A o \in case.observations :
                       series[o].kind = "comparison" /\ series[o].length >= 2
    IN  [valid |-> valid,
         passed |-> valid /\ \A o \in case.observations : series[o].passed]

-----------------------------------------------------------------------------
(* A waveform the timing check accepts, and that has usable samples, is    *)
(* scored on exactly one sample per planned instant, from the start to the *)
(* end of the interval: neither a grid that stops short of the end nor the *)
(* simulator's duplicate last sample is missed or counted twice.           *)
WaveformCovers(start, step, stop, times) ==
    LET expected == ExpectedTimes(start, step, stop)
        samples == GraphPoints(times, times)
        kept == NormalizeBoundary(samples.points, expected)
    IN  samples.ok /\ CoverageMatches(times, expected) =>
            /\ Near(kept[1].x, start) /\ Near(Last(kept).x, stop)
            /\ \A k \in 0..((stop - start) \div step) :
                  Cardinality({i \in DOMAIN kept : Near(kept[i].x, start + k * step)}) = 1
            /\ \A i \in 1..(Len(kept) - 1) : kept[i + 1].x - kept[i].x <= step + 2 * Slack

(* The score is the geometric statement: a curve passes exactly if the     *)
(* samples have distinct instants and, in whatever order they came, each   *)
(* reference point lies on a sample or between two neighbouring samples,   *)
(* within the tolerance of the straight line through them.                 *)
ScoreIsDeviation(scale, reference, tolerance, points) ==
    LET Y(p) == Scaled(scale, p.y)
        samples == {points[i] : i \in DOMAIN points}
        span == Normalization({Y(reference[i]) : i \in DOMAIN reference})
        Close(p, a, b) ==
            LET width == IF a = b THEN 1 ELSE b.x - a.x
            IN  Abs((Y(a) - Y(p)) * width + (p.x - a.x) * (Y(b) - Y(a))) * tolerance[2]
                    <= tolerance[1] * span * width
        Neighbours(a, b) == a.x < b.x /\ ~\E c \in samples : a.x < c.x /\ c.x < b.x
    IN  ScoreObservation(scale, reference, tolerance, points).passed <=>
            /\ points # <<>> /\ NonFinite \notin UNION {{p.x, p.y} : p \in samples}
            /\ scale = "log" => \A p \in samples \cup {reference[i] : i \in DOMAIN reference} : p.y > 0
            /\ Cardinality({p.x : p \in samples}) = Len(points)
            /\ \A i \in DOMAIN reference :
                 LET p == reference[i]
                 IN  \/ \E a \in samples : a.x = p.x /\ Close(p, a, a)
                     \/ \E a, b \in samples : /\ Neighbours(a, b) /\ a.x < p.x /\ p.x < b.x
                                              /\ Close(p, a, b)

(* A simulation that passes shows the user nothing that was not judged:    *)
(* the graphs in the Circuit JSON and the planned observations are one to  *)
(* one, each measured at its planned endpoints by the one experiment.      *)
OneWaveformEach(case, circuit, policy) ==
    ValidateViewer(case, circuit, policy).passed =>
        /\ Cardinality(circuit.graphs) = Cardinality(case.observations)
        /\ \A o \in case.observations : \E g \in circuit.graphs :
              /\ \E p \in circuit.probes : p.id = g.probe /\ p.name = o.id
              /\ {e.id : e \in circuit.experiments} = {g.exp}
===============================================================================
