-------------------------- MODULE ReferenceSamples --------------------------
(***************************************************************************)
(* Pictures of oscilloscope captures, the traces of observers of them, and *)
(* what the axis proof owes to both.                                       *)
(***************************************************************************)
EXTENDS ReferenceAxis

-----------------------------------------------------------------------------
(* A grid of lines one period apart, drawn on columns of the OCR render.   *)
(* One line may be hidden, or one stroke drawn where there is no line; a   *)
(* line may be two columns thick, and pale.                                *)
Period == 120
LineColumns(n) == {Period * k : k \in 1..n}
GridProfile(n, hidden, stroke, strength, thick) ==
    [c \in (LineColumns(n) \ hidden) \cup stroke \cup {l + 1 : l \in (LineColumns(n) \ hidden) \cap thick}
        |-> IF c \in stroke THEN strength ELSE IF c % Period = 0 THEN strength ELSE strength - 1]
GridSamples ==
    {[kind |-> "grid", lines |-> n, hidden |-> h, profile |-> GridProfile(n, h, s, strength, LineColumns(thick)),
      pale |-> strength < 8, away |-> away] :
        n \in 4..6, <<h, s>> \in {<<{}, {}>>} \cup {<<{l}, {}>> : l \in LineColumns(6)}
                                \cup {<<{}, {x}>> : x \in {180, 200, 299, 301, 420, 500, 660}},
        strength \in {4, 20}, thick \in {0, 2}, away \in {-12, 0, 12}}

(* dominantGridSpacing, dominantGridLineRun and dominantGrid: one stroke,  *)
(* or one line that is not seen, never changes the period of a grid, and   *)
(* an anchor near a line that has a neighbour is put on that line.         *)
GridOf(n, hidden, away, lines) ==
    LET period == OcrPixel * Period
        seen == {OcrPixel * l : l \in LineColumns(n) \ hidden}
        regular == {l \in seen : {l - period, l + period} \cap seen # {}}
        first == Min(regular)
        last == Max(regular)
    IN  Cardinality(seen) >= 4 =>
            /\ DominantGrid(lines, first + away * OcrPixel, last - away * OcrPixel)
                  = [spacing |-> period, lines |-> CanonicalGridLineCenters(lines, period), first |-> first, second |-> last]
            /\ hidden = {} => DominantGridLineRun(lines, period) = Ascending(seen)

GridFound(n, hidden, profile, pale, away) ==
    GridOf(n, hidden, away, NeutralGridLines(IF pale THEN [c \in {} |-> 0] ELSE profile, profile))

-----------------------------------------------------------------------------
(* Captures of a plot with lines every 40 pixels, 100 units per division   *)
(* on both axes, 0 V at the third line, the output at 100 units.           *)
Division == Px(40)
Unit == 100
PlotLines == {Px(40 * k) : k \in 1..5}
Word(number, prefix, unit, div, x, y, conf, faint) ==
    [number |-> number, prefix |-> prefix, unit |-> unit, conf |-> conf, div |-> div,
     x |-> Px(x), y |-> Px(y), faint |-> faint]
TimeWord(faint) == Word(1, "u", "s", TRUE, 240, 20, 60, faint)
BareTime == Word(1, "none", "s", TRUE, 240, 20, 60, FALSE)
TimeBelow == Word(7, "u", "s", FALSE, 240, 34, 60, FALSE)
CursorTime == Word(2, "u", "s", FALSE, 250, 50, 40, FALSE)
CompactTime == Word(1, "u", "s", FALSE, 240, 20, 60, FALSE)
WrongTime(conf) == Word(2, "u", "s", TRUE, 250, 40, conf, FALSE)
VoltWord(faint) == Word(1, "u", "V", TRUE, 220, 70, 60, faint)
WrongVolt(y) == Word(2, "u", "V", TRUE, 220, y, 60, FALSE)
VoltControl(number, x) == Word(number, "u", "V", FALSE, x, 70, 60, FALSE)

TimeWords == {{}, {TimeWord(FALSE)}, {TimeWord(TRUE)}, {BareTime, TimeBelow}, {TimeWord(FALSE), CursorTime},
              {CompactTime, CursorTime}, {TimeWord(FALSE), WrongTime(40)}, {TimeWord(FALSE), WrongTime(10)},
              {WrongTime(40)}}
VoltWords == {{}, {VoltWord(FALSE)}, {VoltWord(TRUE)}, {VoltWord(FALSE), WrongVolt(240)}, {WrongVolt(90)},
              {VoltControl(1, 200)}, {VoltControl(1, 200), VoltControl(2, 220)}}

Tick(unit, value, at, row) == [unit |-> unit, value |-> value, conf |-> 60, at |-> at, row |-> row]
TimeTicks == {Tick("s", Unit * (k - 1), 40 * k, 220) : k \in {1, 2, 4, 5}}
VoltTicks == {Tick("V", Unit * (3 - k), 40 * k, 20) : k \in {1, 3, 5}}

ZeroMarker == {[id |-> "out", pixels |-> 40, width |-> Px(10), height |-> Px(10), right |-> Px(20), center |-> Px(120)]}

Pictures ==
    {[bounded |-> TRUE, identity |-> TRUE, words |-> times \cup volts, headings |-> {}, ticks |-> ticks,
      width |-> Px(width), height |-> Px(300), xlines |-> PlotLines, ylines |-> PlotLines,
      pdf |-> IF nominal = "pdf" THEN Unit ELSE NoVolts, experiment |-> IF nominal = "experiment" THEN Unit ELSE NoVolts,
      markers |-> markers,
      badges |-> {[id |-> "out", x |-> Px(200), count |-> 40], [id |-> "out", x |-> Px(220), count |-> 25]}] :
        times \in TimeWords, volts \in VoltWords,
        ticks \in {{}, TimeTicks, TimeTicks \cup VoltTicks}, width \in {260, 300},
        <<nominal, markers>> \in {<<"pdf", {}>>, <<"experiment", {}>>, <<"none", ZeroMarker>>, <<"pdf", ZeroMarker>>}}

(* Traces: anchors on or near lines, the scale printed or another *)
TracePoints(first) == [k \in 1..12 |-> [x |-> Px(first + 14 * (k - 1)), y |-> IF k \in {6, 7} THEN Px(110) ELSE Px(80)]]
TimeAxis(first, second, high) == [first |-> Px(first), second |-> Px(second), low |-> 0, high |-> high, den |-> 1]
VoltAxis(first, low, high) == [first |-> Px(first), second |-> Px(40), low |-> low, high |-> high, den |-> 1]
PrintedTime == TimeAxis(40, 200, 4 * Unit)
PrintedVolt == VoltAxis(200, -200, 200)
Trace(time, volt) ==
    [time |-> time, nominal |-> Unit,
     channels |-> {[id |-> "out", primary |-> TRUE, volt |-> volt, points |-> TracePoints(42)]}]
Traces ==
    {Trace(PrintedTime, volt) : volt \in {PrintedVolt, VoltAxis(198, -195, 200), VoltAxis(200, -400, 400)}}
    \cup {Trace(time, PrintedVolt) : time \in {TimeAxis(42, 200, 4 * Unit), TimeAxis(40, 200, 408),
                                              TimeAxis(40, 200, 8 * Unit), TimeAxis(60, 200, 350)}}

AxisSamples == [kind : {"axis"}, picture : Pictures, graph : Traces]

(* The printed axes, and the axis of an observer who read the right scale *)
PrintedRate == <<Unit, Division>>
AxesOf(graph) == {graph.time, PrimaryOf(graph).volt}
Honest(graph) == \A a \in AxesOf(graph) : RelativeScaleAgreement(RateOf(a), PrintedRate)

(* proveGraphAxis: a scale that was misread, or belongs to something else, *)
(* is not proved of an observer who read the right one; what the server    *)
(* puts in place of the axes has the printed scales and its zero, for a    *)
(* nominal voltage exactly and for a marker within eight pixels of it.     *)
CalibrationIsPrinted(graph, proof) ==
    Honest(graph) /\ proof.algorithm # "explicit_ticks" =>
        \A g \in Calibrated(graph, proof) :
            /\ \A a \in AxesOf(g) : SameScale(RateOf(a), PrintedRate)
            /\ \A zero \in AxisZeroReferencePixel(PrimaryOf(g).volt) :
                  Gap(zero, Px(120)) <= IF proof.by = "markers" THEN Px(8) ELSE 0

(* "Rebuilding it from the canonicalized observation": a calibrated graph  *)
(* is proved again and calibrated to itself, though the receipt may be     *)
(* another one (labels or a marker may now be where the anchors are).      *)
CalibratesToItself(graph, proof) == Verified(proof) /\ \E g \in Calibrated(graph, proof) : SameGraph(graph, g)
ProofIsStable(picture, graph, proof, selected) ==
    \A g \in Calibrated(graph, proof) : CalibratesToItself(g, ProveGraphAxis(picture, g, selected))

(* revalidateModelReferencePublication: what is published is on a scale    *)
(* that is printed, whoever traced it, to within the eight pixels that the *)
(* labels of two anchors may be off.                                       *)
OnPrintedScale(picture, axis, proof) ==
    LET printed == {PrintedRate} \cup {<<ScaleValue(w), Division>> : w \in picture.words}
        rate == RateOf(axis)
        OffBy(r) == Gap(rate[1] * r[2], r[1] * rate[2])
        slack == IF proof.algorithm = "explicit_ticks" THEN Px(8) ELSE 0
    IN  \E r \in printed : OffBy(r) * Gap(axis.first, axis.second) <= slack * r[1] * rate[2]

(* A graph traced as it is printed is published when its picture has one   *)
(* scale to be read.                                                       *)
Unambiguous(picture, graph) ==
    /\ picture.words = {TimeWord(FALSE), VoltWord(FALSE)} /\ NominalSource(picture, graph) # "none"
    /\ SameAxis(graph.time, PrintedTime) /\ SameAxis(PrimaryOf(graph).volt, PrintedVolt)

PublishedIsPrinted(picture, graph, proof, published) ==
    /\ published => \A a \in AxesOf(graph) : OnPrintedScale(picture, a, proof)
    /\ Unambiguous(picture, graph) => published

ProvedIsPrinted(picture, graph, proof, selected) ==
    /\ Kept(picture, graph, proof) =>
          CalibrationIsPrinted(graph, proof) /\ ProofIsStable(picture, graph, proof, selected)
    /\ PublishedIsPrinted(picture, graph, proof, Published(picture, graph, proof))

(* analyzeReferenceGraphPreflight: an observer who takes the anchors and   *)
(* the only scales the preflight offers has no axis rejected, when the     *)
(* voltage is not printed as ticks alone.  The preflight does not ask for  *)
(* the panels of the scope or for a level, which the proof may miss.       *)
PreflightIsAccepted(picture, graph, flight) ==
    LET seconds == CHOOSE r \in flight.seconds : TRUE
        volts == CHOOSE r \in flight.volts : TRUE
        left == flight.xanchors[1]
        right == Last(flight.xanchors)
        up == flight.yanchors[1]
        down == Last(flight.yanchors)
        advised == [graph EXCEPT
            !.time = [first |-> left, second |-> right, low |-> 0,
                      high |-> (right - left) * seconds[1], den |-> seconds[2]],
            !.channels = {[c EXCEPT !.volt = [first |-> down, second |-> up, low |-> 0,
                                              high |-> (down - up) * volts[1], den |-> volts[2]]] : c \in @}]
    IN  /\ graph = Trace(PrintedTime, PrintedVolt)
        /\ DiscoveryErrors(flight) = {} /\ Cardinality(flight.seconds) = 1 /\ Cardinality(flight.volts) = 1
        /\ \A t \in picture.ticks : t.unit # "V"
        /\ flight.xanchors # <<>> /\ flight.yanchors # <<>>
        => ProveGraphAxis(picture, advised, flight.scale).missing
              \subseteq {"printed_output_nominal_voltage_or_visible_channel_zero_markers", "oscilloscope_panels"}

(* The axis proof after a preflight of the same picture *)
AxesProvedAfter(picture, graph, flight) ==
    /\ ProvedIsPrinted(picture, graph, ProveGraphAxis(picture, graph, flight.scale), flight.scale)
    /\ PreflightIsAccepted(picture, graph, flight)
AxesPrinted(picture, graph) == AxesProvedAfter(picture, graph, Preflight(picture))
=============================================================================
