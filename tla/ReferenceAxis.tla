---------------------------- MODULE ReferenceAxis ----------------------------
(***************************************************************************)
(* The proof that the axes an observer traced are the printed ones, and    *)
(* the calibration the server puts in their place                          *)
(* (reference-graph-axis-proof: builder.ts, preflight.ts, parser.ts,       *)
(* eligibility.ts; reference-graph-observation/schema.ts).                 *)
(*                                                                         *)
(* A picture is what rendering and OCR find in a crop.  An axis has two    *)
(* anchors, at pixels first and second, with the values low / den and      *)
(* high / den; a rate is a fraction <<value, positions>>.                  *)
(***************************************************************************)
EXTENDS ReferenceGrid

Ocr(n) == OcrPixel * n
NoVolts == 0

RateOf(axis) ==
    LET rise == LowestTerms(<<Gap(axis.high, axis.low), axis.den>>)
    IN  LowestTerms(<<rise[1], rise[2] * Gap(axis.first, axis.second)>>)
SameAxis(a, b) ==
    /\ a.first = b.first /\ a.second = b.second
    /\ a.low * b.den = b.low * a.den /\ a.high * b.den = b.high * a.den

PrimaryOf(graph) == CHOOSE c \in graph.channels : c.primary

-----------------------------------------------------------------------------
(* ocrScopePanels: where the controls of an oscilloscope are read again.   *)
(* They are at the heading "Horizontal", at the right of the plot, or, on  *)
(* a compact capture, beside the lowest time that is printed.              *)
FullWords(picture) == {w \in picture.words : ~w.faint}

TimesOf(picture) ==
    {[x |-> w.x, y |-> w.y, conf |-> w.conf] : w \in {v \in Trusted(FullWords(picture), "s") : ~v.div}}
    \cup {[x |-> Px(t.at), y |-> Px(t.row), conf |-> t.conf] : t \in Trusted(picture.ticks, "s")}

LowestTime(times) ==
    CHOOSE t \in times : \A o \in times :
        \/ t.y > o.y
        \/ t.y = o.y /\ (t.conf > o.conf \/ (t.conf = o.conf /\ t.x <= o.x))

Region(picture, left, top, width, height) ==
    [left |-> left, top |-> top,
     width |-> Min({width, picture.width - left}), height |-> Min({height, picture.height - top})]

WordsIn(picture, region) ==
    {w \in picture.words : /\ region.left <= w.x /\ w.x < region.left + region.width
                           /\ region.top <= w.y /\ w.y < region.top + region.height}

AtLeastZero(n) == Max({0, n})
HasRightEdgeScopeControlStrip(picture, right) == picture.width - right >= Px(80)

NoPanels == [found |-> FALSE, horizontal |-> {}, channel |-> {}]

OcrScopePanels(picture, right, preferRight) ==
    LET times == TimesOf(picture)
        compact == times # {} /\ ~preferRight /\ ~HasRightEdgeScopeControlStrip(picture, right)
        beside == AtLeastZero(Min({picture.width - Ocr(384), right - Ocr(24)}))
        corner == IF picture.headings # {}
                  THEN CHOOSE h \in picture.headings : TRUE
                  ELSE LowestTime(times)
        margin == IF picture.headings # {} THEN Ocr(24) ELSE Ocr(48)
        located == picture.headings # {} \/ compact
        left == IF located THEN AtLeastZero(corner.x - margin) ELSE beside
        top == IF located THEN AtLeastZero(corner.y - margin) ELSE 0
        bottom == AtLeastZero(picture.height - Ocr(420))
        horizontal == IF compact THEN Region(picture, left, top, Ocr(1500), Ocr(360))
                      ELSE Region(picture, left, top, Ocr(640), Ocr(450))
        channel == IF compact
                   THEN {Region(picture, 0, bottom, picture.width, picture.height - bottom),
                         Region(picture, beside, 0, Ocr(640), Ocr(1210))}
                   ELSE {Region(picture, left, top + Ocr(180), Ocr(640), Ocr(760))}
    IN  IF \/ Cardinality(picture.headings) > 1
           \/ picture.headings = {} /\ times = {} /\ picture.width > Px(1024)
           \/ \E r \in {horizontal} \cup channel : r.width < Ocr(80) \/ r.height < Ocr(80)
        THEN NoPanels
        ELSE [found |-> TRUE, horizontal |-> WordsIn(picture, horizontal),
              channel |-> UNION {WordsIn(picture, r) : r \in channel}]

(* The time per division of the controls.  Labelled ticks are preferred to *)
(* a value that has no "/div".                                             *)
DivisionsOf(words) == {w \in words : w.div}
ControlsOf(panels) == ScopeControlScales(panels.horizontal, panels.channel)

TimeScaleOf(picture, panels, explicit) ==
    LET preferred == PreferredTimeDivisionScale(DivisionsOf(FullWords(picture)), DivisionsOf(panels.horizontal),
                                                DivisionsOf(panels.channel), ControlsOf(panels))
        scale == RecoverMissingTimeDivisionPrefix(preferred, panels.horizontal)
    IN  IF explicit # NoFit /\ ~scale.div THEN NoScale ELSE scale

ExplicitTime(picture) == ExplicitAxisCalibration(picture.ticks, "s")
TimeRate(scale, spacing, explicit) ==
    IF scale # NoScale /\ spacing # NoSpacing THEN {<<ScaleValue(scale), spacing>>}
    ELSE IF explicit # NoFit THEN {<<explicit.rate[1], Px(1) * explicit.rate[2]>>}
    ELSE {}

-----------------------------------------------------------------------------
(* analyzeReferenceGraphPreflight: what a crop shows before anyone traces  *)
(* it; the scale it selects is the one the later proof uses.               *)
LongEnough(run) == IF Len(run) < 3 THEN <<>> ELSE run
RunOfSpacing(lines, spacing) ==
    IF spacing = NoSpacing THEN <<>> ELSE LongEnough(DominantGridLineRun(lines, spacing))
LineRun(lines) == RunOfSpacing(lines, DominantGridSpacing(lines))

PreflightReading(picture, run, explicit, upright, panels, scale, spacing) ==
    LET read == DivisionsOf(FullWords(picture) \cup panels.horizontal \cup panels.channel) \cup ControlsOf(panels)
        volts == Trusted(read, "V")
    IN  [identity |-> picture.identity, scale |-> scale,
         xanchors |-> run, yanchors |-> LineRun(picture.ylines),
         seconds |-> IF scale # NoScale
                     THEN TimeRate(scale, DominantGridSpacing(picture.xlines), NoFit)
                     ELSE TimeRate(scale, NoSpacing, explicit),
         timed |-> Trusted(read, "s") # {} \/ (scale = NoScale /\ explicit # NoFit),
         volts |-> {<<ScaleValue(v), spacing>> : v \in {u \in volts : spacing # NoSpacing}}
                   \cup (IF upright # NoFit THEN {<<upright.rate[1], Px(1) * upright.rate[2]>>} ELSE {}),
         scaled |-> volts # {} \/ upright # NoFit]

PreflightPanels(picture, run, explicit) ==
    OcrScopePanels(picture, IF run = <<>> THEN picture.width - Ocr(360) ELSE Last(run), explicit # NoFit)

PreflightOnPanels(picture, run, explicit, panels) ==
    PreflightReading(picture, run, explicit, ExplicitAxisCalibration(picture.ticks, "V"), panels,
                     TimeScaleOf(picture, panels, explicit), DominantGridSpacing(picture.ylines))

PreflightOnRun(picture, run, explicit) ==
    PreflightOnPanels(picture, run, explicit, PreflightPanels(picture, run, explicit))

Preflight(picture) == PreflightOnRun(picture, LineRun(picture.xlines), ExplicitTime(picture))

(* referenceGraphDiscoveryPreflightErrors *)
DiscoveryErrors(preflight) ==
    (IF preflight.identity THEN {} ELSE {"figure_identity"})
    \cup (IF preflight.seconds # {} \/ preflight.timed THEN {} ELSE {"elapsed_time"})
    \cup (IF preflight.volts # {} \/ preflight.scaled THEN {} ELSE {"voltage"})

-----------------------------------------------------------------------------
(* axisTicks: a label of the anchor's value within four pixels of it, for  *)
(* each of the four anchors, those of an axis in one row.                  *)
SourceTick(ticks, unit, pixel, value, den) ==
    {t \in ticks : /\ t.unit = unit /\ t.conf >= 35 /\ t.value * den = value
                   /\ Gap(Px(t.at), pixel) <= AnchorPixelTolerance}
NearestTick(ticks, pixel) ==
    CHOOSE t \in ticks : \A o \in ticks :
        \/ Gap(Px(t.at), pixel) < Gap(Px(o.at), pixel)
        \/ Gap(Px(t.at), pixel) = Gap(Px(o.at), pixel) /\ t.conf >= o.conf

AxisTicked(ticks, unit, axis) ==
    LET ends == <<SourceTick(ticks, unit, axis.first, axis.low, axis.den),
                  SourceTick(ticks, unit, axis.second, axis.high, axis.den)>>
        first == NearestTick(ends[1], axis.first)
        second == NearestTick(ends[2], axis.second)
    IN  {} \notin ToSet(ends) /\ SameRow(first, second) /\ first # second

-----------------------------------------------------------------------------
(* stableTraceEdgeBaseline: the level on which the ends of a trace lie.    *)
EdgeIndexes(points) == {1, 2, Len(points) - 1, Len(points)}

EdgeCluster(points, index, spacing) ==
    {k \in EdgeIndexes(points) : 100 * Gap(points[k].y, points[index].y) <= 15 * spacing}

(* The median of the levels, each counted once per point *)
LevelOf(points, indexes) ==
    LET n == Cardinality(indexes)
        Ranked(m) == CHOOSE y \in {points[k].y : k \in indexes} :
                        /\ Cardinality({k \in indexes : points[k].y < y}) < m
                        /\ Cardinality({k \in indexes : points[k].y <= y}) >= m
    IN  MedianOf([m \in 1..n |-> Ranked(m)])

SpreadOf(points, indexes) == Max({points[k].y : k \in indexes}) - Min({points[k].y : k \in indexes})

(* The levels, at most one, and the points of the trace that are on it *)
StableTraceEdgeBaseline(points, spacing) ==
    LET edges == EdgeIndexes(points)
        cluster == [k \in edges |-> EdgeCluster(points, k, spacing)]
        Size(k) == Cardinality(cluster[k])
        Spread(k) == SpreadOf(points, cluster[k])
        best == CHOOSE k \in edges : \A o \in edges :
                    \/ Size(k) > Size(o)
                    \/ Size(k) = Size(o) /\ (Spread(k) < Spread(o) \/ (Spread(k) = Spread(o) /\ k <= o))
        level == LevelOf(points, cluster[best])
        on == {k \in DOMAIN points : 100 * Gap(points[k].y, level) <= 15 * spacing}
    IN  IF Len(points) < 2 \/ spacing = NoSpacing \/ Size(best) < 2 \/ Cardinality(on) < 2 THEN {} ELSE {level}

-----------------------------------------------------------------------------
(* scopeChannelControlDivisionScales: the control whose badge has the      *)
(* colour of the channel, when no other has nearly as much of it.  A badge *)
(* is the number of such pixels left of the control at x.                  *)
BadgePixels(picture, channel, control) ==
    Max({0} \cup {b.count : b \in {c \in picture.badges : c.id = channel.id /\ c.x = control.x}})

ChannelControlScale(picture, panels, channel) ==
    LET controls == {c \in ControlsOf(panels) : c.unit = "V"}
        Pixels(c) == BadgePixels(picture, channel, c)
        best == CHOOSE c \in controls : \A o \in controls :
                    Pixels(c) > Pixels(o) \/ (Pixels(c) = Pixels(o) /\ c.x <= o.x)
    IN  IF \/ controls = {}
           \/ Pixels(best) < 20
           \/ \E o \in controls \ {best} : 4 * Pixels(o) > 3 * Pixels(best)
        THEN NoScale ELSE best

(* axisZeroReferencePixel: where the axis has 0 V, at most eight pixels    *)
(* beyond its anchors.                                                     *)
AxisZeroReferencePixel(axis) ==
    LET zero == axis.first - (axis.low * (axis.second - axis.first)) \div (axis.high - axis.low)
    IN  {p \in {zero} : /\ p >= Min({axis.first, axis.second}) - OrthogonalTolerance
                        /\ p <= Max({axis.first, axis.second}) + OrthogonalTolerance}

(* visibleScopeZeroMarker: a patch of the colour of the channel, left of   *)
(* its trace and beside the zero.                                          *)
VisibleScopeZeroMarker(picture, graph, channel, zero) ==
    LET left == Min({graph.time.first} \cup {channel.points[k].x : k \in DOMAIN channel.points})
    IN  \E m \in picture.markers :
            /\ m.id = channel.id /\ m.pixels >= 30 /\ m.width >= Ocr(18) /\ m.height >= Ocr(24)
            /\ m.right < left - Px(2) /\ Gap(m.center, zero) <= Px(8)

(* The channels whose scale and zero are both read off the picture *)
ZeroOnGrid(picture, graph, channel, scale, grid) ==
    LET axis == channel.volt
        rate == <<ScaleValue(scale), grid.spacing>>
    IN  IF scale = NoScale \/ grid = NoGrid THEN {}
        ELSE {[id |-> channel.id, first |-> grid.first, second |-> grid.second, at |-> zero,
               value |-> 0, rate |-> rate, lines |-> Len(grid.lines)] :
                zero \in {z \in AxisZeroReferencePixel(axis) :
                            /\ VisibleScopeZeroMarker(picture, graph, channel, z)
                            /\ RelativeScaleAgreement(RateOf(axis), rate)
                            /\ axis.first > axis.second}}

ZeroCalibrated(picture, panels, graph, channel) ==
    ZeroOnGrid(picture, graph, channel, ChannelControlScale(picture, panels, channel),
               DominantGrid(picture.ylines, channel.volt.first, channel.volt.second))

OfEveryChannel(graph, calibrated) ==
    IF Cardinality(calibrated) = Cardinality(graph.channels) THEN calibrated ELSE {}

VisibleZeroChannels(picture, panels, graph) ==
    OfEveryChannel(graph, UNION {ZeroCalibrated(picture, panels, graph, c) : c \in graph.channels})

VoltageScaleOf(picture, panels, points) ==
    LET printed == DivisionsOf(FullWords(picture))
        shown == DivisionsOf(panels.channel) \cup ControlsOf(panels)
        ys == {points[k].y : k \in DOMAIN points}
    IN  Otherwise(DivisionScaleNearestTrace(printed \cup DivisionsOf(panels.horizontal) \cup shown, Min(ys), Max(ys)),
                  Otherwise(UniqueDivisionScale(shown, "V"), UniqueDivisionScale(printed, "V")))

(* The output voltage printed beside the figure, or with the experiment *)
NominalSource(picture, graph) ==
    IF picture.pdf # NoVolts /\ picture.pdf = graph.nominal THEN "pdf"
    ELSE IF picture.experiment # NoVolts /\ picture.experiment = graph.nominal THEN "experiment"
    ELSE "none"

-----------------------------------------------------------------------------
(* proveGraphAxis.  The receipt of labelled ticks leaves the axes as they  *)
(* are; a receipt of divisions replaces them.                              *)
Unproven(missing) ==
    [algorithm |-> "none", by |-> "none", first |-> 0, second |-> 0, lines |-> 0,
     rate |-> <<0, 1>>, ticks |-> NoFit, volts |-> {}, missing |-> missing]

TickReceipt(graph) == [Unproven({}) EXCEPT !.algorithm = "explicit_ticks", !.rate = RateOf(graph.time)]

(* What is read off the picture beside the traces of the graph *)
ReadingOf(picture, graph, explicit, panels, scale, volts, xgrid, ygrid) ==
    [explicit |-> explicit, panels |-> panels.found, scale |-> scale, volts |-> volts,
     xgrid |-> xgrid, ygrid |-> ygrid, nominal |-> NominalSource(picture, graph),
     level |-> StableTraceEdgeBaseline(PrimaryOf(graph).points, ygrid.spacing),
     seconds |-> TimeRate(scale, xgrid.spacing, explicit),
     voltage |-> IF volts # NoScale /\ ygrid # NoGrid THEN {<<ScaleValue(volts), ygrid.spacing>>} ELSE {},
     zeros |-> VisibleZeroChannels(picture, panels, graph)]

ScopeOnPanels(picture, graph, selected, explicit, panels) ==
    LET primary == PrimaryOf(graph)
    IN  ReadingOf(picture, graph, explicit, panels,
                  Otherwise(selected, TimeScaleOf(picture, panels, explicit)),
                  VoltageScaleOf(picture, panels, primary.points),
                  DominantGrid(picture.xlines, graph.time.first, graph.time.second),
                  DominantGrid(picture.ylines, primary.volt.first, primary.volt.second))

ScopeReading(picture, graph, selected) ==
    LET points == PrimaryOf(graph).points
        right == Max({graph.time.first, graph.time.second} \cup {points[k].x : k \in DOMAIN points})
    IN  ScopeOnPanels(picture, graph, selected, ExplicitTime(picture), OcrScopePanels(picture, right, FALSE))

MissingProofs(picture, graph, r) ==
    LET Missing(name, holds) == IF holds THEN {} ELSE {name}
        time == graph.time
        volt == PrimaryOf(graph).volt
    IN  UNION {Missing("adjacent_figure_identity", picture.identity),
               Missing("oscilloscope_panels", r.panels),
               Missing("unique_printed_time_per_division_or_aligned_time_ticks",
                       r.scale # NoScale \/ r.explicit # NoFit),
               Missing("unique_printed_voltage_per_division", r.volts # NoScale),
               Missing("time_grid_and_anchor_alignment", r.xgrid # NoGrid),
               Missing("voltage_grid_and_anchor_alignment", r.ygrid # NoGrid),
               Missing("printed_output_nominal_voltage_or_visible_channel_zero_markers",
                       r.nominal # "none" \/ r.zeros # {}),
               Missing("server_elapsed_time_zero_origin", time.low = 0),
               Missing("time_axis_screen_orientation", time.first < time.second),
               Missing("voltage_axis_screen_orientation", volt.first > volt.second),
               Missing("nominal_voltage_trace_baseline", r.nominal = "none" \/ r.level # {}),
               Missing("declared_time_scale_matches_source",
                       \E s \in r.seconds : RelativeScaleAgreement(RateOf(time), s)),
               Missing("declared_voltage_scale_matches_source",
                       \E v \in r.voltage : RelativeScaleAgreement(RateOf(volt), v))}

(* Markers are preferred to a nominal voltage, divisions to ticks *)
ScopeReceipt(graph, r) ==
    LET NominalAxis(base, rate) ==
            [id |-> PrimaryOf(graph).id, first |-> r.ygrid.first, second |-> r.ygrid.second, at |-> base,
             value |-> graph.nominal, rate |-> rate, lines |-> Len(r.ygrid.lines)]
    IN  [algorithm |-> IF r.scale = NoScale THEN "explicit_time" ELSE "divisions",
         by |-> IF r.zeros # {} THEN "markers" ELSE r.nominal,
         first |-> r.xgrid.first, second |-> r.xgrid.second, lines |-> Len(r.xgrid.lines),
         rate |-> CHOOSE s \in r.seconds : TRUE,
         ticks |-> IF r.scale = NoScale THEN r.explicit ELSE NoFit,
         volts |-> IF r.zeros # {} THEN r.zeros
                   ELSE {NominalAxis(base, rate) : base \in r.level, rate \in r.voltage},
         missing |-> {}]

ProofFrom(picture, graph, r) ==
    LET missing == MissingProofs(picture, graph, r)
    IN  IF missing = {} THEN ScopeReceipt(graph, r) ELSE Unproven(missing)

ScopeProof(picture, graph, selected) == ProofFrom(picture, graph, ScopeReading(picture, graph, selected))

ProveGraphAxis(picture, graph, selected) ==
    LET primary == PrimaryOf(graph)
    IN  IF ~picture.bounded THEN Unproven({"bounded_tesseract_tsv"})
        ELSE IF /\ picture.identity
                /\ AxisTicked(picture.ticks, "s", graph.time)
                /\ AxisTicked(picture.ticks, "V", primary.volt)
        THEN TickReceipt(graph)
        ELSE ScopeProof(picture, graph, selected)

Verified(receipt) == receipt.algorithm # "none"

(* parseAxisReceipt: what the parser asks of a receipt it reads back *)
AxisReceiptParses(receipt) ==
    /\ receipt.algorithm \in {"divisions", "explicit_time"} => receipt.lines >= 3
    /\ \A v \in receipt.volts : v.lines >= 3
    /\ receipt.algorithm = "explicit_time" =>
          LET t == receipt.ticks
              span == <<Gap(t.value[2], t.value[1]), Px(Gap(t.second, t.first))>>
          IN  t.count >= 3 /\ span[1] > 0 /\ RelativeScaleAgreement(receipt.rate, span)

-----------------------------------------------------------------------------
(* applyServerOwnedScopeCalibration: the axes of a scope are put on the    *)
(* lines of the grid, with the printed rates.  No graph when it throws.    *)
CalibratedTime(receipt) ==
    [first |-> receipt.first, second |-> receipt.second, low |-> 0,
     high |-> (receipt.second - receipt.first) * receipt.rate[1], den |-> receipt.rate[2]]

CalibratedVolt(v) ==
    LET VoltsAtPixel(p) == v.value * v.rate[2] + (v.at - p) * v.rate[1]
    IN  [first |-> v.first, second |-> v.second, low |-> VoltsAtPixel(v.first),
         high |-> VoltsAtPixel(v.second), den |-> v.rate[2]]

Calibrated(graph, receipt) ==
    LET time == CalibratedTime(receipt)
        Upright(c) == LET own == {v \in receipt.volts : v.id = c.id}
                      IN  IF own = {} THEN c.volt ELSE CalibratedVolt(CHOOSE v \in own : TRUE)
        channels == {[c EXCEPT !.volt = Upright(c)] : c \in graph.channels}
    IN  IF receipt.algorithm = "explicit_ticks" THEN {graph}
        ELSE IF time.high > 0 /\ \A v \in receipt.volts : CalibratedVolt(v).high > CalibratedVolt(v).low
        THEN {[graph EXCEPT !.time = time, !.channels = channels]}
        ELSE {}

SameGraph(g, h) ==
    /\ SameAxis(g.time, h.time)
    /\ \A c \in g.channels : \E d \in h.channels : c.id = d.id /\ SameAxis(c.volt, d.volt)

-----------------------------------------------------------------------------
(* parseDigitizedCurve: the traces an observer may hand in.  A point up to *)
(* one pixel before the zero of elapsed time is at zero.                   *)
MinimumTracePointCount(span) == Min({96, Max({8, (span + Px(14) - 1) \div Px(14)})})

Inside(axis, limit) == {axis.first, axis.second} \subseteq 0..(limit - 1) /\ axis.first # axis.second

ElapsedPositions(time, points) ==
    [k \in DOMAIN points |->
        LET offset == IF time.second > time.first THEN points[k].x - time.first ELSE time.first - points[k].x
        IN  IF time.low = 0 /\ offset \in (-Px(1))..0 THEN 0 ELSE offset]

CurveAccepted(picture, time, channel) ==
    LET points == channel.points
        span == Gap(time.first, time.second)
        offset == [k \in DOMAIN points |-> IF time.second > time.first THEN points[k].x - time.first
                                           ELSE time.first - points[k].x]
        at == ElapsedPositions(time, points)
        stops == <<0>> \o SelectSeq(offset, LAMBDA o : o > 0 /\ o < span) \o <<span>>
    IN  /\ time.low >= 0 /\ time.high > time.low /\ channel.volt.high > channel.volt.low
        /\ Inside(time, picture.width) /\ Inside(channel.volt, picture.height)
        /\ Len(points) \in MinimumTracePointCount(span)..96
        /\ \A k \in DOMAIN points : /\ points[k].x \in 0..(picture.width - 1)
                                    /\ points[k].y \in 0..(picture.height - 1)
                                    /\ time.low * span + at[k] * (time.high - time.low) >= 0
        /\ \A k \in 2..Len(points) : at[k] > at[k - 1] /\ offset[k] > offset[k - 1]
        /\ 10 * offset[1] <= span /\ 10 * Last(offset) >= 9 * span
        /\ \A k \in 2..Len(stops) : 5 * (stops[k] - stops[k - 1]) <= span

-----------------------------------------------------------------------------
(* digitizeReferenceGraphs keeps a graph whose traces parse and whose axes *)
(* are proved, with the scale of its preflight; the graph is kept as it    *)
(* was traced, and characterized from that.                                *)
Kept(picture, graph, proof) ==
    Verified(proof) /\ \A c \in graph.channels : CurveAccepted(picture, graph.time, c)

(* revalidateModelReferencePublication: the proof is made again, without   *)
(* the preflight, and the characterization compared with the graph as the  *)
(* server calibrates it.                                                   *)
Published(picture, graph, stored) ==
    /\ Kept(picture, graph, stored)
    /\ AxisReceiptParses(stored)
    /\ stored = ProveGraphAxis(picture, graph, NoScale)
    /\ \E g \in Calibrated(graph, stored) : SameGraph(g, graph)
=============================================================================
