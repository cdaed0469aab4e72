-------------------------- MODULE InventorySamples --------------------------
(***************************************************************************)
(* Datasheets, devices, applications and answers of agents for the         *)
(* inventory of reference graphs, and what the inventory owes to them.     *)
(***************************************************************************)
EXTENDS ReferenceInventory, TLC

(* A regulator, with one output or with two that cannot be told apart, and *)
(* a level translator whose experiment is only plotted.                    *)
Pin(node, role, index) == [node |-> node, labels |-> {node}, role |-> role, index |-> index]
RegulatorPins == {Pin("OUT", "power_output", 0), Pin("IN", "power_input", 0), Pin("EN", "input", 0)}
TwinPins == RegulatorPins \cup {Pin("OUT2", "power_output", 0)}
TranslatorPins == {Pin("VCC", "power_input", 0), Pin("OE", "input", 0), Pin("A1", "other", 1), Pin("B1", "other", 1)}

(* Its application; one where the control hangs on a resistor, one that a  *)
(* later run has revised, and none.                                        *)
Group(id, ends, volts) == [id |-> id, ground |-> id = "gnd", ends |-> ends, external |-> id # "gnd", volts |-> volts]
Passive(type, reference, value, a, b) == [type |-> type, reference |-> reference, value |-> value, ends |-> <<a, b>>]
Application(sha, groups, passives) ==
    [availability |-> "documented", sha |-> sha, groups |-> groups \cup {Group("gnd", {}, {})},
     passives |-> passives, nodes |-> [input |-> {"nin"}, output |-> {"nout"}]]
Capacitors == {Passive("capacitor", "C1", 10, "nin", "gnd"), Passive("capacitor", "C2", 22, "nout", "gnd")}
Typical == Application(1, {Group("nin", {"IN", "EN"}, {5}), Group("nout", {"OUT"}, {})}, Capacitors)
PulledUp == Application(2, {Group("nin", {"IN"}, {5}), Group("nen", {"EN"}, {}), Group("nout", {"OUT"}, {})},
                        Capacitors \cup {Passive("resistor", "R1", 1, "nen", "nin")})
Revised == [Typical EXCEPT !.sha = 3, !.groups = @ \cup {Group("nfb", {}, {})}]
NotPresent == [Typical EXCEPT !.availability = "not_present", !.sha = 0, !.groups = {}, !.passives = {}]
Translator == Application(4, {Group("nin", {"VCC", "OE"}, {3}), Group("na", {"A1"}, {}), Group("nout", {"B1"}, {})}, {})
WorldOf(pins, contract) == [known |-> TRUE, pins |-> pins, contract |-> contract]
Worlds == {WorldOf(p, c) : p \in {RegulatorPins, TwinPins}, c \in {Typical, PulledUp, Revised, NotPresent}}
          \cup {WorldOf(TranslatorPins, c) : c \in {Translator, NotPresent}}

(* A load step, a line step and an experiment without a change *)
Signal(alias, kind) == [aliases |-> {alias}, kind |-> kind]
Condition(kind, signal, value, state) == [kind |-> kind, signal |-> signal, value |-> value, state |-> state]
Stepped(type, signal, low, high, auxiliary) ==
    [response |-> Signal("VOUT", "output_voltage"), nominal |-> 3, auxiliary |-> auxiliary,
     stimulus |-> [type |-> type, signal |-> signal, pulse |-> [low |-> low, high |-> high, rise |-> 1, fall |-> 1]]]
Supplied == Condition("dc_voltage", Signal("VIN", "input_voltage"), 5, "")
Enabled == Condition("logic", Signal("EN", "control"), 0, "high")
LoadStep == Stepped("current_step", Signal("IOUT", "load_current"), 0, 1, <<Supplied, Enabled>>)
LineStep == Stepped("voltage_step", Signal("VIN", "input_voltage"), 4, 6, <<>>)
Steady == Stepped("steady_state", Signal("VIN", "input_voltage"), 0, 0, <<Supplied>>)

Says(type, label, value) == [type |-> type, label |-> label, says |-> "output", value |-> value]
Hint(id, evidence, constraints) ==
    [id |-> id, page |-> 1, figure |-> IF id = "axis" THEN "" ELSE "F1", axis |-> id = "axis", unsupported |-> FALSE,
     evidence |-> evidence, constraints |-> constraints, switching |-> FALSE, period |-> NoPeriod]
PlainHints == {Hint("caption", e, c) : e \in {{}, {LoadStep}, {LineStep}, {Steady}},
                                       c \in {{}, {Says("capacitor", "COUT", 22)}, {Says("capacitor", "COUT", 23)}}}
HintSets == {{}} \cup {{h} : h \in PlainHints} \cup {{[h EXCEPT !.switching = TRUE]} : h \in PlainHints}
            \cup {{h, Hint("axis", e, {})} : h \in PlainHints, e \in {{}, {LineStep}}}
            \cup {{[h EXCEPT !.unsupported = TRUE]} : h \in PlainHints}

(* What an agent reports of a graph, and the reviews that tie the hints *)
Reported == {[id |-> "g1", page |-> 1, figure |-> "F1", voltage |-> v, public |-> p, numeric |-> n,
              reproducible |-> r, reason |-> reason, binding |-> NoBinding, channels |-> NoChannels] :
                v \in BOOLEAN, p \in BOOLEAN, n \in BOOLEAN, r \in BOOLEAN, reason \in {"observer", "retained"}}
Other == [id |-> "g2", page |-> 2, figure |-> "F2", voltage |-> TRUE, public |-> TRUE, numeric |-> FALSE,
          reproducible |-> FALSE, reason |-> "observer", binding |-> NoBinding, channels |-> NoChannels]
ReviewsOf(hints) ==
    LET Tied(id) == [hint |-> id, disposition |-> "graph", graph |-> "g1"]
        tied == {h.id : h \in hints}
    IN  IF tied = {} THEN <<>> ELSE IF tied = {"caption"} THEN <<Tied("caption")>>
        ELSE <<Tied("axis"), Tied("caption")>>

PdfOf(calibrated) == [sha |-> 1, captioned |-> {"g1"}, calibrated |-> calibrated, proved |-> {"g1"}]
InventorySamples ==
    [kind : {"inventory"}, graphs : {<<g>> : g \in Reported} \cup {<<g, Other>> : g \in {r \in Reported : r.voltage /\ r.public}},
     hints : HintSets, world : Worlds, calibrated : {{}, {"g1"}}]

(* The drawings of an agent: the experiment the hints print, or the one    *)
(* that is plotted, with a falling edge inside the window or cut by it,    *)
(* and digests that are left out or those of one of the applications.      *)
Plotted(low, high) == [k \in 1..11 |-> [x |-> k - 1, y |-> IF k \in 4..7 THEN high ELSE low]]
Auxiliary(type, at, to, value, state) == [type |-> type, at |-> at, to |-> to, value |-> value, state |-> state]
Drawn(type, response, stimulus, low, high, width, auxiliary) ==
    [given |-> TRUE, response |-> response, nominal |-> 3, type |-> type, stimulus |-> stimulus,
     pulse |-> [low |-> low, high |-> high, rise |-> 1, fall |-> 1, delay |-> 2, width |-> width, period |-> 20],
     auxiliary |-> auxiliary, digests |-> {}]
Bindings ==
    UNION {{Drawn("current_step", "OUT", "OUT", 0, 1, width, <<Auxiliary("dc_voltage", "IN", "gnd", 5, ""), Auxiliary("logic", "EN", "IN", 0, "high")>>),
            Drawn("voltage_step", "OUT", "IN", 4, 6, width, <<>>),
            Drawn("voltage_step", "B1", "A1", 4, 6, width, <<Auxiliary("dc_voltage", "VCC", "gnd", 3, ""), Auxiliary("logic", "OE", "VCC", 0, "high")>>)} :
           width \in {4, 7}}
DrawingsOf(graph) ==
    {[graph EXCEPT !.binding = [b EXCEPT !.digests = d],
                   !.channels = [elements |-> e, response |-> Plotted(1, 3), stimulus |-> Plotted(4, 6)]] :
        <<b, d>> \in {<<x, {}>> : x \in Bindings} \cup {<<x, ResolveApplicationFixtureForBinding(Typical, x)>> : x \in Bindings},
        e \in {{}, {"C1"}}}
Contracts(world) == IF world.pins = TranslatorPins THEN {Translator, NotPresent} ELSE {Typical, Revised, NotPresent}

-----------------------------------------------------------------------------
(* findReferenceGraphs: what is a reference graph is what the source says, *)
(* not what the agent says of it, and a calibration that fails is kept.    *)
FoundByTheSource(graph, hints, calibrated) ==
    /\ graph.voltage /\ graph.public /\ SourceForbids(hints) = "nothing"
    /\ PrintedFixtureEvidence(hints) # {} \/ graph.numeric
    /\ graph.id \in calibrated

(* digitizeReferenceGraphs: when every worker has its graph, the combined  *)
(* observation parses, changes nothing, and its eligible graphs are those  *)
(* that were found; a stored graph is used only where the same drawing     *)
(* would be accepted now, with the same result; and a printed experiment   *)
(* that fits the device and the application has a drawing that is accepted.*)
InventoryKept(graphs, hints, world, calibrated) ==
    LET pdf == PdfOf(calibrated)
        reviews == ReviewsOf(hints)
        Accepted(found, drawing, w) == ComparisonAccepted(found, drawing, hints, w, pdf.proved)
    IN  \A o \in FindReferenceGraphs(graphs, hints, reviews, world, pdf, FindAttempts) :
          /\ IsFound(o[1]) = FoundByTheSource(graphs[1], hints, calibrated)
          /\ FoundAgain(o, hints, reviews, world) # {}
          /\ \A a \in FoundAgain(o, hints, reviews, world) :
               LET drawings == IF IsFound(a[1]) THEN DrawingsOf(a[1]) ELSE {}
                   results == IF IsFound(a[1]) THEN {("g1" :> g) : g \in UNION {Accepted(a[1], d, world) : d \in drawings}}
                              ELSE {<<>>}
                   Stored(w, d) == UNION {{Checkpoint(pdf, b[1], g) : g \in Accepted(b[1], d, w)} :
                                            b \in FoundAgain(o, hints, reviews, w)}
               IN  /\ IsFound(a[1]) => IsFound(o[1])
                   /\ \A r \in results :
                        LET all == CombineGraphs(a, r)
                        IN  /\ CombinedObservation(a, hints, reviews, world, r) = {all}
                            /\ \A k \in DOMAIN all : IsEligible(all[k]) = IsFound(a[k])
                   /\ \A d \in drawings, c \in Contracts(world) : \A s \in Stored(WorldOf(world.pins, c), d) :
                        DigitizeGraph(a[1], {s}, d, hints, world, pdf) = Accepted(a[1], d, world)
                   /\ IsFound(a[1]) /\ PrintedFixtureEvidence(hints) # {}
                      /\ world.contract \in {Typical, Revised, NotPresent} => results # {}

-----------------------------------------------------------------------------
(* Reviews of a captioned hint and of one that is only an axis *)
Reviewed == <<[Other EXCEPT !.id = "g1", !.page = 1, !.figure = "F1"], Other, [Other EXCEPT !.id = "g3", !.page = 1]>>
AReview == [hint : {"caption", "axis", "none"}, disposition : {"graph", "not_time_graph"}, graph : {"g1", "g2", "g3", ""}]
TwoHints == {Hint("caption", {}, {}), Hint("axis", {}, {})}
ReviewedSamples == [kind : {"reviewed"}, reviews : UNION {[1..n -> AReview] : n \in 0..3}]

(* parseReferenceGraphObservationWithPointPolicy: a captioned time graph   *)
(* of the datasheet cannot be dropped, and its conditions are those of the *)
(* one graph of its page and figure.                                       *)
CaptionsCannotBeDismissed(reviews) ==
    HintsReviewed(Reviewed, TwoHints, reviews) =>
        \A h \in TwoHints :
            LET owners == {g \in ToSet(Reviewed) : h \in GraphHints(g, TwoHints, reviews)}
            IN  /\ Cardinality(owners) <= 1 /\ (owners = {} => h.figure = "")
                /\ \A g \in owners : g.page = h.page /\ h.figure \in {"", g.figure}

-----------------------------------------------------------------------------
(* Pulses, and the edges of the periodic source that a PULSE stands for *)
APulse == {p \in [low : {0}, high : {10}, rise : 1..2, fall : 1..2, delay : 0..6, width : 1..8, period : 3..16] :
              p.rise + p.width + p.fall <= p.period}
EdgeSamples == [kind : {"edges"}, pulse : APulse, from : {0, 2}, to : {8, 10, 14}]
PlotSamples == [kind : {"plot"}, pulse : {p \in APulse : p.rise = 1 /\ p.fall = 1 /\ p.period >= 9}, points : {26},
                printed : {NoPeriod, 9, 12, 16}, other : {9, 12, 16}]
PulseTimes(p, until) ==
    LET starts == {p.delay + k * p.period : k \in 0..(until \div p.period)}
    IN  [rising |-> {[from |-> s, to |-> s + p.rise] : s \in starts},
         falling |-> {[from |-> s + p.rise + p.width, to |-> s + p.rise + p.width + p.fall] : s \in starts}]
HighAt(p, x) == \E s \in {p.delay + k * p.period : k \in 0..(x \div p.period)} :
                    x >= s + p.rise /\ x <= s + p.rise + p.width
PlotOf(p, n) == [k \in 1..n |-> [x |-> k - 1, y |-> IF HighAt(p, k - 1) THEN p.high ELSE p.low]]

(* assertBindingMatchesPrintedFixture: the window of the graph shows one   *)
(* rising edge and no edge that it cuts.                                   *)
PrintedEdgesShown(pulse, from, to) ==
    LET times == PulseTimes(pulse, to)
        Begun(edges) == {e \in edges : e.from < to}
    IN  PulseInWindow(pulse, from, to) =>
            /\ Cardinality(Begun(times.rising)) <= 1 /\ \E e \in times.rising : e.to <= to
            /\ \A e \in Begun(times.rising) \cup Begun(times.falling) : e.from >= from /\ e.to <= to

(* assertVisiblePulseTiming: the pulse that was plotted is accepted when   *)
(* each level shows on a fifth of the points and both edges show; one of   *)
(* another period is not when two rising edges show it, and a printed      *)
(* frequency that the plot contradicts is refused.                         *)
PlottedPulseAccepted(pulse, n, printed, other) ==
    LET points == PlotOf(pulse, n)
        highs == Cardinality({k \in 1..n : points[k].y = pulse.high})
        shown == n \div 5 <= highs /\ n \div 5 <= n - highs
        rising == VisibleTransitions(points, TRUE)
        falling == VisibleTransitions(points, FALSE)
        clear == 5 * Apart(other, pulse.period) > pulse.period
    IN  /\ shown /\ rising # <<>> /\ falling # <<>> /\ printed \in {NoPeriod, pulse.period} => VisiblePulse(points, printed, pulse)
        /\ Len(rising) >= 2 /\ clear => ~VisiblePulse(points, NoPeriod, [pulse EXCEPT !.period = other])
        /\ Len(rising) >= 2 /\ printed # NoPeriod /\ 5 * Apart(printed, pulse.period) > pulse.period =>
              ~VisiblePulse(points, printed, pulse)

-----------------------------------------------------------------------------
(* Applications of three nodes and the controls that are taken off them *)
Controls == {Auxiliary("logic", at, to, 0, IF to = "gnd" THEN "low" ELSE "high") : at \in {"P", "Q"}, to \in {"gnd", "P", "S"}}
FixtureSamples ==
    {[kind |-> "fixture", contract |-> Application(1, {Group("na", na, {}), Group("nb", nb, {}), Group("nc", {}, {})}, passives),
      binding |-> [NoBinding EXCEPT !.type = "voltage_step", !.stimulus = stimulus, !.auxiliary = auxiliary]] :
        na \in SUBSET {"P", "Q", "S"}, nb \in SUBSET {"P", "Q"}, stimulus \in {"P", "S"},
        passives \in SUBSET {Passive("capacitor", "C1", 1, "na", "gnd"), Passive("resistor", "R1", 1, "na", "nc"),
                             Passive("resistor", "R2", 1, "nb", "nc")},
        auxiliary \in {<<>>} \cup {<<Auxiliary("dc_voltage", "S", "gnd", 5, ""), c>> : c \in Controls}
                      \cup {<<c, d>> : c \in Controls, d \in Controls}}
=============================================================================
