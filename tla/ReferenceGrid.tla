---------------------------- MODULE ReferenceGrid ----------------------------
(***************************************************************************)
(* What the server reads off the picture of a reference graph: the lines   *)
(* of its grid and their spacing, the scale printed per division, and the  *)
(* scale of a row of labelled ticks                                        *)
(* (reference-graph-axis-proof: scope-divisions.ts, explicit-ticks.ts,     *)
(* ocr-extraction.ts).                                                     *)
(*                                                                         *)
(* Positions are in twelfths of a pixel of the observer's crop, so that    *)
(* the thirds of the OCR render, the medians of lines and the midpoints of *)
(* medians are whole numbers.  A scale is a fraction <<value, pixels>>.    *)
(***************************************************************************)
EXTENDS Integers, Sequences, FiniteSets, FiniteSetsExt, SequencesExt

Px(n) == 12 * n
OcrPixel == 4
AnchorPixelTolerance == Px(4)
OrthogonalTolerance == Px(8)
NoSpacing == 0

Gap(a, b) == IF a > b THEN a - b ELSE b - a
Ascending(S) ==
    [n \in 1..Cardinality(S) |-> CHOOSE x \in S : Cardinality({y \in S : y < x}) = n - 1]

(* d is within permille of s, a tolerance kept between low and high *)
WithinPart(d, s, permille, low, high) ==
    \/ d <= low
    \/ d <= high /\ 1000 * d <= permille * s

MedianOf(s) ==
    LET middle == Len(s) \div 2
    IN  IF Len(s) % 2 = 0 THEN (s[middle] + s[middle + 1]) \div 2 ELSE s[middle + 1]

(* The lines of a sorted sequence, grouped while they are at most gap apart *)
ClustersOf(lines, gap) ==
    FoldLeft(LAMBDA groups, line :
                IF groups # <<>> /\ line - Last(Last(groups)) <= gap
                THEN Front(groups) \o <<Append(Last(groups), line)>>
                ELSE Append(groups, <<line>>),
             <<>>, lines)

MediansOf(groups) == [k \in DOMAIN groups |-> MedianOf(groups[k])]

-----------------------------------------------------------------------------
(* neutralGridProfileWithColorTolerance: score[p] is the share, in percent,*)
(* of column p of the OCR render that has the colour of a grid; columns    *)
(* not in its domain have none.  Each run of columns over the threshold is *)
(* one line, at its best column.                                           *)
OverThreshold(score, minimum, relative, maximum) ==
    LET best == Max({0} \cup {score[p] : p \in DOMAIN score})
    IN  {p \in DOMAIN score : /\ score[p] >= minimum
                              /\ (100 * score[p] >= best * relative \/ score[p] >= maximum)}

LinesOfProfile(score, minimum, relative, maximum) ==
    LET over == OverThreshold(score, minimum, relative, maximum)
        runs == ClustersOf(Ascending(over), 1)
        BestColumn(run) ==
            CHOOSE p \in ToSet(run) :
                /\ \A q \in ToSet(run) : score[q] <= score[p]
                /\ \A q \in ToSet(run) : q < p => score[q] < score[p]
    IN  {OcrPixel * BestColumn(runs[k]) : k \in DOMAIN runs}

-----------------------------------------------------------------------------
(* Mutant: only neighbouring lines are compared *)
AdjacentPairs(centers) ==
    {<<i, i + 1>> : i \in {k \in 1..(Len(centers) - 1) : centers[k + 1] - centers[k] >= Px(8)}}

(* dominantGridSpacing: the distance that most pairs of lines have.  Every *)
(* pair counts, so that a stroke between two lines does not win.           *)
PairsOf(centers) ==
    {<<i, j>> \in (1..Len(centers)) \X (1..Len(centers)) : i < j /\ centers[j] - centers[i] >= Px(8)}

SpacingSupport(spacing, pairs, d) ==
    {p \in pairs : WithinPart(Gap(d[p], spacing), spacing, 15, 18, Px(4))}

MostCommonSpacing(pairs, d) ==
    LET votes == [p \in pairs |-> Cardinality(SpacingSupport(d[p], pairs, d))]
        best == CHOOSE p \in pairs : \A q \in pairs :
                    votes[p] > votes[q] \/ (votes[p] = votes[q] /\ d[p] <= d[q])
        supported == SpacingSupport(d[best], pairs, d)
    IN  IF Cardinality(supported) < 2 THEN NoSpacing
        ELSE Min({d[p] : p \in {q \in supported :
                     2 * Cardinality({r \in supported : d[r] <= d[q]}) > Cardinality(supported)}})

SpacingOf(centers) ==
    LET pairs == PairsOf(centers)
    IN  IF Len(centers) < 3 \/ Cardinality(pairs) < 2 THEN NoSpacing
        ELSE MostCommonSpacing(pairs, [p \in pairs |-> centers[p[2]] - centers[p[1]]])

DominantGridSpacing(lines) == SpacingOf(MediansOf(ClustersOf(Ascending(lines), Px(12))))

(* neutralGridProfileInBand: pale grids only when dark ones have no period *)
NeutralGridLines(strict, pale) ==
    LET lines == LinesOfProfile(strict, 8, 34, 101)
    IN  IF DominantGridSpacing(lines) # NoSpacing THEN lines ELSE LinesOfProfile(pale, 3, 13, 7)

(* canonicalGridLineCenters: lines with a neighbour one period away, when  *)
(* there are three of them, and the edges of one line taken together.      *)
CanonicalGridLineCenters(lines, spacing) ==
    LET SupportedBy(d) == WithinPart(d, spacing, 80, Px(2), Px(4))
        supported == {l \in lines : \E o \in lines \ {l} : SupportedBy(Gap(Gap(o, l), spacing))}
        candidates == IF Cardinality(supported) >= 3 THEN supported ELSE lines
        tolerance == Max({Px(2), Min({Px(4), (80 * spacing) \div 1000})})
    IN  MediansOf(ClustersOf(Ascending(candidates), tolerance))

(* dominantGridLineRun: the longest regular sequence of lines *)
LongerRun(r, s) ==
    \/ Len(r) > Len(s)
    \/ Len(r) = Len(s) /\ Last(r) - r[1] > Last(s) - s[1]
    \/ Len(r) = Len(s) /\ Last(r) - r[1] = Last(s) - s[1] /\ r[1] <= s[1]

LongestRun(runs) == CHOOSE r \in runs : \A s \in runs : LongerRun(r, s)

DominantGridLineRun(lines, spacing) ==
    LET Extend(runs, center) ==
            LET before == {r \in runs : WithinPart(Gap(center - Last(r), spacing), spacing, 40, 18, Px(3))}
            IN  runs \cup {IF before = {} THEN <<center>> ELSE Append(LongestRun(before), center)}
    IN  LongestRun(FoldLeft(Extend, {}, CanonicalGridLineCenters(lines, spacing)))

(* dominantGrid: the anchors of the observer are moved to lines at most    *)
(* four pixels away, or to the middle of a thick line read as two.         *)
NoGrid == [spacing |-> NoSpacing, lines |-> <<>>, first |-> 0, second |-> 0]

SnapsTo(anchor, centers, spacing) ==
    LET NearestOf(S) == CHOOSE l \in S : \A o \in S :
                            Gap(l, anchor) < Gap(o, anchor) \/ (Gap(l, anchor) = Gap(o, anchor) /\ l <= o)
        direct == NearestOf(ToSet(centers))
        thick == {(l + r) \div 2 : <<l, r>> \in {p \in ToSet(centers) \X ToSet(centers) :
                     p[1] < p[2] /\ p[1] <= anchor /\ anchor <= p[2] /\ 5 * (p[2] - p[1]) <= spacing}}
        Close(l) == Gap(l, anchor) <= AnchorPixelTolerance
    IN  IF Close(direct) THEN {direct}
        ELSE IF thick # {} /\ Close(NearestOf(thick)) THEN {NearestOf(thick)}
        ELSE {}

SnappedGrid(centers, spacing, left, right) ==
    IF {} \in {left, right} THEN NoGrid
    ELSE [spacing |-> spacing, lines |-> centers,
          first |-> CHOOSE l \in left : TRUE, second |-> CHOOSE l \in right : TRUE]

GridOnCenters(centers, spacing, first, second) ==
    SnappedGrid(centers, spacing, SnapsTo(first, centers, spacing), SnapsTo(second, centers, spacing))

GridOfSpacing(lines, spacing, first, second) ==
    IF spacing = NoSpacing THEN NoGrid
    ELSE GridOnCenters(CanonicalGridLineCenters(lines, spacing), spacing, first, second)

DominantGrid(lines, first, second) == GridOfSpacing(lines, DominantGridSpacing(lines), first, second)

-----------------------------------------------------------------------------
(* Fractions, in lowest terms or compared without division *)
Gcd[a \in Nat, b \in Nat] == IF b = 0 THEN a ELSE Gcd[b, a % b]
LowestTerms(f) == LET g == Gcd[f[1], f[2]] IN IF g = 0 THEN f ELSE <<f[1] \div g, f[2] \div g>>
SameScale(a, b) == a[1] * b[2] = b[1] * a[2]

(* Mutant: the difference is not compared with a part of the source *)
ScaleAgreementUnscaled(declared, source) ==
    Gap(declared[1] * source[2], source[1] * declared[2]) <= source[1] * declared[2]

(* relativeScaleAgreement: within four percent of the source.  Its floor   *)
(* of 1e-12 is below what is compared here.                                *)
RelativeScaleAgreement(declared, source) ==
    Gap(declared[1] * source[2], source[1] * declared[2]) <= (source[1] * declared[2]) \div 25

(* Prefixes of a unit: stand-ins for 1e-12, 1e-9, 1e-6 and 1, further      *)
(* apart than the agreement above.                                         *)
Factor(prefix) == CASE prefix = "p" -> 1 [] prefix = "n" -> 10 [] prefix = "u" -> 100 [] OTHER -> 1000
ScaleValue(s) == s.number * Factor(s.prefix)

(* A printed value: its place, and whether only a focused reading sees it *)
NoScale == [number |-> 0, prefix |-> "none", unit |-> "none", conf |-> 0, div |-> FALSE,
            x |-> 0, y |-> 0, faint |-> FALSE]

(* uniqueDivisionScale: one value among the readings the OCR trusts *)
MinimumTokenConfidence == 15
Trusted(candidates, unit) == {c \in candidates : c.unit = unit /\ c.conf >= MinimumTokenConfidence}
MostTrusted(candidates) == CHOOSE c \in candidates : \A o \in candidates : o.conf <= c.conf

UniqueDivisionScale(candidates, unit) ==
    LET relevant == Trusted(candidates, unit)
    IN  IF Cardinality({ScaleValue(c) : c \in relevant}) = 1 THEN MostTrusted(relevant) ELSE NoScale

Otherwise(scale, other) == IF scale # NoScale THEN scale ELSE other

(* preferredTimeDivisionScale: a printed "/div" first, then the controls *)
PreferredTimeDivisionScale(full, horizontal, channel, control) ==
    Otherwise(UniqueDivisionScale({c \in full \cup horizontal \cup channel : c.div}, "s"),
              Otherwise(UniqueDivisionScale(horizontal \cup channel \cup control, "s"),
                        UniqueDivisionScale(full, "s")))

(* divisionScaleNearestTrace: the scale printed beside the trace, when no  *)
(* other value is printed as near.                                         *)
DivisionScaleNearestTrace(candidates, top, bottom) ==
    LET Away(c) == IF c.y < top THEN top - c.y ELSE IF c.y > bottom THEN c.y - bottom ELSE 0
        relevant == Trusted(candidates, "V")
        nearest == Min({Away(c) : c \in relevant})
        local == {c \in relevant : Away(c) <= nearest + Px(8)}
    IN  IF relevant = {} \/ nearest > Px(48) \/ Cardinality({ScaleValue(c) : c \in local}) # 1
        THEN NoScale
        ELSE MostTrusted({c \in local : Away(c) = nearest})

(* scopeControlDivisionScaleCandidates: a compact panel prints its values  *)
(* without "/div"; the topmost time is the timebase, voltages to its left  *)
(* are those of the channels.                                              *)
ScopeControlScales(horizontal, channel) ==
    LET times == {m \in Trusted(horizontal \cup channel, "s") : ~m.div /\ m.number > 0}
        timebase == CHOOSE m \in times : \A o \in times :
                        m.y < o.y \/ (m.y = o.y /\ (m.x < o.x \/ (m.x = o.x /\ m.conf >= o.conf)))
    IN  IF times = {} THEN {}
        ELSE {timebase} \cup {m \in Trusted(channel, "V") : ~m.div /\ m.number > 0 /\ m.x < timebase.x}

(* recoverMissingTimeDivisionPrefix: a prefix the OCR dropped, or read as  *)
(* a pico with no confidence, is taken from a time printed right below.    *)
RecoverMissingTimeDivisionPrefix(scale, horizontal) ==
    LET divisions == {c \in horizontal : c.unit = "s" /\ c.div}
        focused == IF Cardinality({ScaleValue(c) : c \in divisions}) = 1 THEN MostTrusted(divisions) ELSE NoScale
        context == Otherwise(focused, scale)
        suspect == context.prefix = "none" \/ (context.prefix = "p" /\ context.conf < MinimumTokenConfidence)
        below == {m \in horizontal : m.unit = "s" /\ ~m.div /\ m.number > 0 /\ m.prefix # "none"
                                     /\ m.x = context.x /\ m.y - context.y \in 1..Px(20)}
        next == Min({m.y : m \in below})
        near == {m \in below : m.y <= next + 2 * OcrPixel}
    IN  IF context.unit = "s" /\ suspect /\ below # {} /\ {m.prefix : m \in near} = {"u"}
        THEN [context EXCEPT !.prefix = "u"]
        ELSE scale

-----------------------------------------------------------------------------
(* alignedExplicitAxisCalibration.  A tick is a labelled position, in      *)
(* whole pixels: at is along the axis and row across it, and no label is   *)
(* read twice.  Three must lie on one line; the fit is by least squares.   *)
NoFit == [first |-> 0, second |-> 0, value |-> <<0, 0>>, rate |-> <<0, 1>>, count |-> 0]

SameRow(a, b) == Gap(a.row, b.row) <= 8
OnLine(t, a, b) ==
    LET run == b.at - a.at
        rise == b.value - a.value
    IN  2 * Gap(a.value * run + rise * (t.at - a.at), t.value * run) <= 5 * Gap(rise, 0)

SupportOf(ticks, a, b) == {t \in ticks : SameRow(t, a) /\ OnLine(t, a, b)}
SpanOf(ticks) == Max({t.at : t \in ticks}) - Min({t.at : t \in ticks})
TotalOf(ticks, F(_)) == FoldSet(LAMBDA t, sum : sum + F(t), 0, ticks)

LeastSquares(ticks) ==
    LET n == Cardinality(ticks)
        Moment(G(_), H(_)) == n * TotalOf(ticks, LAMBDA t : G(t) * H(t)) - TotalOf(ticks, G) * TotalOf(ticks, H)
        At(t) == t.at
        Level(t) == t.value
    IN  <<Moment(At, Level), Moment(At, At)>>

BestFit(fits) ==
    CHOOSE s \in fits : \A o \in fits :
        \/ Cardinality(s) > Cardinality(o)
        \/ Cardinality(s) = Cardinality(o) /\ SpanOf(s) > SpanOf(o)
        \/ /\ Cardinality(s) = Cardinality(o) /\ SpanOf(s) = SpanOf(o)
           /\ TotalOf(s, LAMBDA t : t.conf) >= TotalOf(o, LAMBDA t : t.conf)

RateOfSlope(slope) == LowestTerms(<<Gap(slope[1], 0), slope[2]>>)

FitOn(ticks) ==
    LET first == CHOOSE t \in ticks : \A o \in ticks : t.at <= o.at
        second == CHOOSE t \in ticks : \A o \in ticks : t.at >= o.at
    IN  [first |-> first.at, second |-> second.at, value |-> <<first.value, second.value>>,
         rate |-> RateOfSlope(LeastSquares(ticks)), count |-> Cardinality(ticks)]

FitsOf(ticks, unit) ==
    LET tried == {p \in ticks \X ticks : /\ p[1].at + 8 <= p[2].at /\ SameRow(p[1], p[2])
                                         /\ (unit = "s" => p[1].value < p[2].value) /\ p[1].value # p[2].value}
    IN  {s \in {SupportOf(ticks, p[1], p[2]) : p \in tried} : Cardinality(s) >= 3}

CalibrationBy(fits) == IF fits = {} THEN NoFit ELSE FitOn(BestFit(fits))

ExplicitAxisCalibration(measurements, unit) ==
    CalibrationBy(FitsOf({t \in measurements : t.unit = unit /\ t.conf >= 35}, unit))
=============================================================================
