-------------------------- MODULE ReferenceFixture --------------------------
(***************************************************************************)
(* The electrical side of a reference graph: which pins the printed signal *)
(* names stand for, whether the pulse of an experiment is the printed or   *)
(* the plotted one, and whether the passives printed with the graph are    *)
(* those of the application (reference-graph-observation:                  *)
(* fixture-reconciliation.ts).                                             *)
(*                                                                         *)
(* A pin is [node, labels, role, index]; a signal [aliases, kind], with    *)
(* the aliases under which a label may name it.  A resolution is a set, of *)
(* one element or, when it is not unique, of none.  Times and levels are   *)
(* whole numbers; medians and midpoints are kept doubled.                  *)
(***************************************************************************)
EXTENDS Integers, Sequences, FiniteSets, FiniteSetsExt, SequencesExt, TLC

Apart(a, b) == IF a > b THEN a - b ELSE b - a

-----------------------------------------------------------------------------
(* matchingPublicPins: pins by label, or else by the role of the signal *)
PreferredRoles(kind) ==
    CASE kind = "output_voltage" -> <<"power_output", "output">>
      [] kind = "input_voltage" -> <<"power_input", "input">>
      [] OTHER -> <<>>

MatchingPublicPins(pins, signal) ==
    LET exact == {p \in pins : p.labels \cap signal.aliases # {}}
        roles == PreferredRoles(signal.kind)
        HasRole(k) == {p \in pins : p.role = roles[k]}
        used == {k \in DOMAIN roles : HasRole(k) # {}}
    IN  IF exact # {} THEN exact ELSE IF used = {} THEN {} ELSE HasRole(Min(used))

UniquePrintedSignalEndpoint(pins, signal) ==
    LET matches == MatchingPublicPins(pins, signal)
    IN  IF Cardinality(matches) = 1 THEN {p.node : p \in matches} ELSE {}

(* resolvePrintedFixtureEndpoints: every printed signal on one public pin; *)
(* a load hangs on the response, and a control that is high needs one      *)
(* input supply to be tied to.                                             *)
FixtureOn(named, response, supplies, c) ==
    LET At(nodes, to) == {[type |-> c.kind, at |-> n, to |-> to, value |-> c.value, state |-> c.state] : n \in nodes}
    IN  CASE c.kind = "dc_voltage" -> At(named, "gnd")
          [] c.kind = "dc_current" -> At(IF c.signal.kind = "load_current" THEN response ELSE named, "gnd")
          [] c.kind = "resistance" -> At(response, "gnd")
          [] c.kind = "logic" /\ c.state = "low" -> At(named, "gnd")
          [] OTHER -> IF Cardinality(supplies) = 1 THEN At(named, CHOOSE s \in supplies : TRUE) ELSE {}

AuxiliaryFixture(pins, response, supplies, c) ==
    FixtureOn(UniquePrintedSignalEndpoint(pins, c.signal), response, supplies, c)

DrivenEndpoint(pins, stimulus, response) ==
    IF stimulus.type = "current_step" /\ stimulus.signal.kind = "load_current"
    THEN response ELSE UniquePrintedSignalEndpoint(pins, stimulus.signal)

SupplyEndpoints(pins, evidence, driven) ==
    LET stimulus == evidence.stimulus
        inputs == {c \in ToSet(evidence.auxiliary) : c.kind = "dc_voltage" /\ c.signal.kind = "input_voltage"}
    IN  UNION {UniquePrintedSignalEndpoint(pins, c.signal) : c \in inputs}
        \cup (IF stimulus.type = "voltage_step" /\ stimulus.signal.kind = "input_voltage" THEN driven ELSE {})

FixturesOf(pins, evidence, response, supplies) ==
    [k \in DOMAIN evidence.auxiliary |->
        AuxiliaryFixture(pins, response, supplies, evidence.auxiliary[k])]

EndpointsOf(response, driven, fixtures) ==
    IF {} \in {response, driven} \/ {} \in ToSet(fixtures) THEN {}
    ELSE {[response |-> CHOOSE n \in response : TRUE, stimulus |-> CHOOSE n \in driven : TRUE,
           auxiliary |-> [k \in DOMAIN fixtures |-> CHOOSE f \in fixtures[k] : TRUE]]}

EndpointsDrivenAt(pins, evidence, response, driven) ==
    EndpointsOf(response, driven, FixturesOf(pins, evidence, response, SupplyEndpoints(pins, evidence, driven)))

EndpointsFrom(pins, evidence, response) ==
    EndpointsDrivenAt(pins, evidence, response, DrivenEndpoint(pins, evidence.stimulus, response))

ResolvePrintedFixtureEndpoints(pins, evidence) ==
    EndpointsFrom(pins, evidence, UniquePrintedSignalEndpoint(pins, evidence.response))

-----------------------------------------------------------------------------
(* Mutant: the next period may start inside the window *)
PulseInWindowOnce(pulse, from, to) ==
    LET falls == pulse.delay + pulse.rise + pulse.width
    IN  /\ from >= 0 /\ from <= pulse.delay /\ pulse.delay + pulse.rise <= to
        /\ falls + pulse.fall <= to \/ falls >= to

(* assertBindingMatchesPrintedFixture: the printed edge is inside the time *)
(* window, and nothing of the next one is there by halves.                 *)
PulseInWindow(pulse, from, to) ==
    LET falls == pulse.delay + pulse.rise + pulse.width
    IN  /\ from >= 0 /\ from <= pulse.delay /\ pulse.delay <= to /\ pulse.delay + pulse.rise <= to
        /\ falls + pulse.fall <= to \/ falls >= to
        /\ pulse.period > to

PrintedPulse(pulse) == [low |-> pulse.low, high |-> pulse.high, rise |-> pulse.rise, fall |-> pulse.fall]

MatchWith(resolved, evidence, binding, window) ==
    LET Expected(r) ==
            /\ binding.response = r.response /\ binding.nominal = evidence.nominal
            /\ binding.auxiliary = r.auxiliary
            /\ binding.type = evidence.stimulus.type /\ binding.stimulus = r.stimulus
            /\ PrintedPulse(binding.pulse) = evidence.stimulus.pulse
    IN  IF resolved = {} THEN "unresolved"
        ELSE IF \A r \in resolved : Expected(r) /\ PulseInWindow(binding.pulse, window.from, window.to)
        THEN "matches" ELSE "differs"

PrintedMatch(pins, evidence, binding, window) ==
    MatchWith(ResolvePrintedFixtureEndpoints(pins, evidence), evidence, binding, window)

-----------------------------------------------------------------------------
(* visibleCurveLevels, visibleTransitions: the two levels of a plotted     *)
(* step and the times at which the trace passes between them.              *)
DoubleMedian(s) ==
    LET middle == Len(s) \div 2
    IN  IF Len(s) % 2 = 0 THEN s[middle] + s[middle + 1] ELSE 2 * s[middle + 1]

SortedLevels(points) == SortSeq([k \in DOMAIN points |-> points[k].y], LAMBDA a, b : a < b)

VisibleCurveLevels(points) ==
    LET levels == SortedLevels(points)
        n == Max({2, Len(points) \div 5})
    IN  [low |-> DoubleMedian(SubSeq(levels, 1, n)),
         high |-> DoubleMedian(SubSeq(levels, Len(points) - n + 1, Len(points)))]

TransitionsBetween(levels, points, rising) ==
    LET Over(k) == 4 * points[k].y >= levels.low + levels.high
        edges == SelectSeq([k \in 1..(Len(points) - 1) |-> k + 1],
                           LAMBDA k : Over(k) # Over(k - 1) /\ Over(k) = rising)
    IN  [e \in DOMAIN edges |-> points[edges[e] - 1].x + points[edges[e]].x]

VisibleTransitions(points, rising) == TransitionsBetween(VisibleCurveLevels(points), points, rising)

ApproximatelyEqual(left, right, scale) == 100 * Apart(left, right) <= 12 * scale

(* assertVisiblePulseTiming: printed is the period of the frequency the    *)
(* datasheet prints, NoPeriod when it prints none.  When neither a second  *)
(* edge nor a frequency is there, nothing is asked of the period.          *)
NoPeriod == 0

VisiblePeriod(rising) ==
    LET periods == [k \in 1..(Len(rising) - 1) |-> [x |-> k, y |-> rising[k + 1] - rising[k]]]
    IN  IF periods = <<>> THEN NoPeriod ELSE DoubleMedian(SortedLevels(periods)) \div 2

PulseShown(points, printed, pulse, levels, rising, falling, visible) ==
    LET span == levels.high - levels.low
        source == 2 * printed
        expected == IF printed # NoPeriod THEN source ELSE visible
        scale == IF expected # NoPeriod THEN expected ELSE 2 * (Last(points).x - points[1].x)
        after == {falling[k] : k \in {j \in DOMAIN falling : falling[j] > rising[1]}}
    IN  /\ span > 0
        /\ ApproximatelyEqual(2 * pulse.low, levels.low, span) /\ ApproximatelyEqual(2 * pulse.high, levels.high, span)
        /\ rising # <<>> /\ falling # <<>>
        /\ expected # NoPeriod => ApproximatelyEqual(2 * pulse.period, expected, expected)
        /\ visible # NoPeriod /\ printed # NoPeriod => ApproximatelyEqual(visible, source, source)
        /\ ApproximatelyEqual(2 * pulse.delay, rising[1], scale)
        /\ after # {} => ApproximatelyEqual(2 * pulse.width, Min(after) - rising[1], scale)
        /\ 8 * (pulse.rise + pulse.fall) <= scale

PulseWithEdges(points, printed, pulse, rising, falling) ==
    PulseShown(points, printed, pulse, VisibleCurveLevels(points), rising, falling, VisiblePeriod(rising))

VisiblePulse(points, printed, pulse) ==
    PulseWithEdges(points, printed, pulse, VisibleTransitions(points, TRUE), VisibleTransitions(points, FALSE))

-----------------------------------------------------------------------------
(* assertBindingMatchesVisibleScopeGraph: an experiment that is only seen, *)
(* on the signals, supplies and controls of a documented application.  A   *)
(* group of nodes is [ends, external, volts], volts the documented ones.   *)
GroupsOf(contract, node) == {g \in contract.groups : node \in g.ends}

VisibleMatchAt(levels, pins, contract, binding, curves) ==
    LET IndexOf(node) == {p.index : p \in {q \in pins : q.node = node}} \ {0}
        fixtures == ToSet(binding.auxiliary)
        Supplies(node) == {f \in fixtures : f.type = "dc_voltage" /\ f.at = node /\ f.to = "gnd"}
        Controls(node) == {f \in fixtures : f.type = "logic" /\ f.at = node}
    IN  /\ contract.availability = "documented"
        /\ binding.type = "voltage_step"
        /\ VisiblePulse(curves.stimulus, curves.printed, binding.pulse)
        /\ levels.high > levels.low
        /\ ApproximatelyEqual(2 * binding.nominal, levels.high, levels.high - levels.low)
        /\ \A node \in {binding.stimulus, binding.response} :
              Cardinality(GroupsOf(contract, node)) = 1 /\ \A g \in GroupsOf(contract, node) : g.external
        /\ \A i \in IndexOf(binding.stimulus), j \in IndexOf(binding.response) : i = j
        /\ \A p \in {q \in pins : q.role = "power_input"} :
              LET documented == UNION {g.volts : g \in GroupsOf(contract, p.node)}
              IN  /\ Cardinality(GroupsOf(contract, p.node)) = 1 /\ Cardinality(documented) = 1
                  /\ Cardinality(Supplies(p.node)) = 1 /\ {f.value : f \in Supplies(p.node)} = documented
        /\ \A p \in {q \in pins : q.role = "input"} :
              /\ Cardinality(Controls(p.node)) = 1
              /\ \A c \in Controls(p.node) : c.state = "high" => Supplies(c.to) # {}

VisibleMatch(pins, contract, binding, curves) ==
    VisibleMatchAt(VisibleCurveLevels(curves.response), pins, contract, binding, curves)

(* assertCurrentChannelsUseResolvedFixtures *)
CurrentsResolved(elements, fixtures) == elements \subseteq fixtures \cup {"stimulus"}

-----------------------------------------------------------------------------
(* applicationPassiveCandidates: the passives of the application a printed *)
(* value may be of, by their reference, or by what their label says.       *)
JoinsToGround(contract, fixture, side) ==
    \E k \in 1..2 : fixture.ends[3 - k] = "gnd" /\ fixture.ends[k] \in contract.nodes[side]

PassiveCandidates(contract, c) ==
    LET same == {f \in contract.passives : f.type = c.type}
        exact == {f \in same : f.reference = c.label}
    IN  CASE exact # {} -> exact
          [] exact = {} /\ c.says \in {"input", "output"} -> {f \in same : JoinsToGround(contract, f, c.says)}
          [] exact = {} /\ c.says = "generic" -> same
          [] OTHER -> {}

PassiveConstraintFails(contract, constraints) ==
    /\ constraints # {}
    /\ \/ contract.availability # "documented"
       \/ \E c \in constraints : \/ Cardinality(PassiveCandidates(contract, c)) # 1
                                 \/ {f.value : f \in PassiveCandidates(contract, c)} # {c.value}
=============================================================================
