------------------------- MODULE ReferenceInventory -------------------------
(***************************************************************************)
(* The inventory of reference graphs of a datasheet: an agent finds them,  *)
(* the server canonicalises what it found, one worker per graph digitises  *)
(* it, and the results are combined and parsed again                       *)
(* (characterization/source-inventory.ts, reference-graph-worker-pool.ts;  *)
(* reference-graph-observation: artifact.ts, schema.ts, eligibility.ts,    *)
(* source-canonicalization.ts).                                            *)
(*                                                                         *)
(* A graph is [id, page, figure, voltage, public, numeric, reproducible,   *)
(* reason, binding, channels]; a hint [id, page, figure, axis, unsupported,*)
(* evidence, constraints, switching, period], evidence a set of at most    *)
(* one element; a review [hint, disposition, graph].  The world is         *)
(* [known, pins, contract]: the model interface, when it is known, and the *)
(* contract of the application.  Whatever throws answers the empty set.    *)
(***************************************************************************)
EXTENDS ReferenceFixture, ApplicationFixture

NoBinding == [given |-> FALSE, response |-> "", nominal |-> 0, type |-> "", stimulus |-> "",
              pulse |-> [low |-> 0, high |-> 0, rise |-> 0, fall |-> 0, delay |-> 0, width |-> 0, period |-> 0],
              auxiliary |-> <<>>, digests |-> {}]
NoChannels == [elements |-> {}, response |-> <<>>, stimulus |-> <<>>]

(* foundObservedGraphs, eligibleObservedGraphs *)
IsFound(graph) == graph.voltage /\ graph.public /\ graph.reproducible
IsEligible(graph) == IsFound(graph) /\ graph.binding.given /\ graph.channels # NoChannels

(* parseGraph: only the comparison of an eligible graph has a binding and  *)
(* channels; the binding is on pins of the model interface.                *)
BoundNodes(binding) ==
    {binding.response, binding.stimulus} \cup {f.at : f \in ToSet(binding.auxiliary)}
    \cup {f.to : f \in ToSet(binding.auxiliary)}
ParseGraph(graph, world, phase) ==
    LET bound == phase = "comparison" /\ IsFound(graph)
    IN  /\ graph.binding.given = bound /\ (graph.channels # NoChannels) = bound
        /\ bound => world.known /\ BoundNodes(graph.binding) \subseteq {p.node : p \in world.pins} \cup {"gnd"}

-----------------------------------------------------------------------------
WithoutComparisonState(graph) == [graph EXCEPT !.binding = NoBinding, !.channels = NoChannels]
Demoted(graph, reason) == [graph EXCEPT !.reproducible = FALSE, !.reason = reason]

(* The one experiment the hints of a graph print, if they print just one *)
PrintedFixtureEvidence(hints) ==
    LET all == UNION {h.evidence : h \in hints}
    IN  IF Cardinality(all) = 1 THEN all ELSE {}
SourceFrequency(hints) ==
    LET all == {h.period : h \in hints} \ {NoPeriod}
    IN  IF Cardinality(all) = 1 THEN CHOOSE p \in all : TRUE ELSE NoPeriod
DescribesAutonomousSwitchingWaveform(hints) ==
    (\A h \in hints : h.evidence = {}) /\ (\E h \in hints : h.switching)
IsSourceCalibrationIneligible(graph) == ~graph.reproducible /\ graph.reason = "retained"

(* What the source alone rules out, whatever the agent says *)
SourceForbids(hints) ==
    CASE \E h \in hints : h.unsupported -> "unsupported"
      [] (\A h \in hints : ~h.unsupported)
         /\ \E e \in PrintedFixtureEvidence(hints) : e.stimulus.type = "steady_state" -> "steady"
      [] (\A h \in hints : ~h.unsupported) /\ DescribesAutonomousSwitchingWaveform(hints) -> "switching"
      [] OTHER -> "nothing"

(* What the model interface and the application rule out *)
FixtureForbids(hints, world) ==
    CASE PassiveConstraintFails(world.contract, UNION {h.constraints : h \in hints}) -> "passive"
      [] ~PassiveConstraintFails(world.contract, UNION {h.constraints : h \in hints})
         /\ \E e \in PrintedFixtureEvidence(hints) : ResolvePrintedFixtureEndpoints(world.pins, e) = {} -> "endpoints"
      [] OTHER -> "nothing"

CanonicalFound(graph, hints, world) ==
    LET found == WithoutComparisonState(graph)
        printed == PrintedFixtureEvidence(hints)
        usable == graph.voltage /\ graph.public /\ (printed # {} \/ graph.numeric)
        forbids == FixtureForbids(hints, world)
        Usable(reason) == [found EXCEPT !.reproducible = TRUE, !.reason = reason]
    IN  CASE ~usable -> [found EXCEPT !.reproducible = FALSE]
          [] usable /\ printed = {} -> Usable("deferred_visible")
          [] usable /\ printed # {} /\ ~world.known -> Usable("deferred_printed")
          [] usable /\ printed # {} /\ world.known /\ forbids # "nothing" -> Demoted(found, forbids)
          [] OTHER -> Usable("resolved")

(* The binding is put into the application it belongs to *)
BindApplication(graph, contract) ==
    LET elements == graph.channels.elements
        resolved == ResolveApplicationFixtureForBinding(contract, graph.binding)
        Uses(r) == CurrentsResolved(elements, {f.reference : f \in r.fixtures})
    IN  IF contract.availability = "not_present"
        THEN {g \in {graph} : g.binding.digests = {} /\ CurrentsResolved(elements, {})}
        ELSE {[graph EXCEPT !.binding.digests = {r}] :
                r \in {s \in resolved : Uses(s) /\ graph.binding.digests \subseteq {s}}}

CanonicalComparison(graph, hints, world) ==
    LET printed == PrintedFixtureEvidence(hints)
        forbids == FixtureForbids(hints, world)
        unbound == [graph EXCEPT !.binding = NoBinding]
        response == graph.channels.response
        window == [from |-> response[1].x, to |-> Last(response).x]
        curves == [response |-> response, stimulus |-> graph.channels.stimulus, printed |-> SourceFrequency(hints)]
        matches == IF printed # {}
                   THEN \A e \in printed : PrintedMatch(world.pins, e, graph.binding, window) = "matches"
                   ELSE VisibleMatch(world.pins, world.contract, graph.binding, curves)
    IN  CASE ~world.known -> {}
          [] world.known /\ ~IsFound(graph) ->
                IF printed = {} \/ ~graph.voltage \/ ~graph.public THEN {graph}
                ELSE IF forbids # "nothing" THEN {Demoted(unbound, forbids)} ELSE {}
          [] world.known /\ IsFound(graph) /\ hints = {} -> {}
          [] world.known /\ IsFound(graph) /\ hints # {} /\ forbids # "nothing" -> {Demoted(unbound, forbids)}
          [] OTHER -> IF matches THEN BindApplication(graph, world.contract) ELSE {}

(* Mutant: the second parse forgets what the first one retained *)
CanonicalizeAfresh(graph, hints, world, phase, canonical) ==
    IF SourceForbids(hints) # "nothing"
    THEN {Demoted(WithoutComparisonState(graph), SourceForbids(hints))}
    ELSE IF phase = "find" /\ canonical /\ ~graph.reproducible THEN {WithoutComparisonState(graph)}
    ELSE IF phase = "find" THEN {CanonicalFound(graph, hints, world)}
    ELSE CanonicalComparison(graph, hints, world)

(* canonicalizeObservedGraphSource: a graph that the server has already    *)
(* ruled out is not taken up again when its own artifact is parsed.        *)
CanonicalizeObservedGraphSource(graph, hints, world, phase, canonical) ==
    LET ruledOut == canonical /\ ((phase = "find" /\ ~graph.reproducible) \/ IsSourceCalibrationIneligible(graph))
    IN  IF SourceForbids(hints) # "nothing"
        THEN {Demoted(WithoutComparisonState(graph), SourceForbids(hints))}
        ELSE IF ruledOut THEN {WithoutComparisonState(graph)}
        ELSE IF phase = "find" THEN {CanonicalFound(graph, hints, world)}
        ELSE CanonicalComparison(graph, hints, world)

-----------------------------------------------------------------------------
CONSTANTS MaxObservedGraphs, MaxEligibleGraphs
ASSUME GraphLimits == MaxObservedGraphs \in Nat /\ MaxEligibleGraphs \in Nat

(* A hint is tied to a graph of its page and figure; only a hint that has  *)
(* no caption may be dismissed.                                            *)
ReviewFits(graphs, hints, review) ==
    \E h \in {x \in hints : x.id = review.hint} :
        IF review.disposition = "graph"
        THEN \E g \in ToSet(graphs) : /\ g.id = review.graph /\ g.page = h.page
                                      /\ h.figure # "" => g.figure = h.figure
        ELSE review.graph = "" /\ h.axis
HintsReviewed(graphs, hints, reviews) ==
    /\ \A k \in DOMAIN reviews : ReviewFits(graphs, hints, reviews[k])
    /\ {reviews[k].hint : k \in DOMAIN reviews} = {h.id : h \in hints}
    /\ \A j, k \in DOMAIN reviews : reviews[j].hint = reviews[k].hint => j = k
GraphHints(graph, hints, reviews) ==
    {h \in hints : \E r \in ToSet(reviews) : r.hint = h.id /\ r.disposition = "graph" /\ r.graph = graph.id}

UnlessOneThrows(parsed) ==
    IF {} \in ToSet(parsed) THEN {} ELSE {[k \in DOMAIN parsed |-> CHOOSE g \in parsed[k] : TRUE]}

(* parseReferenceGraphObservationWithPointPolicy *)
ParseObservation(graphs, hints, reviews, world, phase, canonical) ==
    LET counted == SelectSeq(graphs, LAMBDA g : IF phase = "find" THEN IsFound(g) ELSE IsEligible(g))
    IN  IF /\ Len(graphs) <= MaxObservedGraphs /\ Len(counted) <= MaxEligibleGraphs
           /\ \A k \in DOMAIN graphs : ParseGraph(graphs[k], world, phase)
           /\ \A j, k \in DOMAIN graphs : graphs[j].id = graphs[k].id => j = k
           /\ HintsReviewed(graphs, hints, reviews)
        THEN UnlessOneThrows([k \in DOMAIN graphs |->
                CanonicalizeObservedGraphSource(graphs[k], GraphHints(graphs[k], hints, reviews),
                                                world, phase, canonical)])
        ELSE {}

-----------------------------------------------------------------------------
(* findReferenceGraphs: one attempt of the finder.  captioned and          *)
(* calibrated are the graphs whose caption the PDF has and whose preflight *)
(* succeeds; a missing calibration is sent back, and retained by the last  *)
(* attempt.  The model interface is not known yet.                         *)
FindAttempts == 4
BeforeInterface(world) == [world EXCEPT !.known = FALSE]

RetainCalibrationFailuresAsReferences(graphs, failures) ==
    [k \in DOMAIN graphs |-> IF graphs[k].id \in failures
                             THEN Demoted(WithoutComparisonState(graphs[k]), "retained") ELSE graphs[k]]

FindReferenceGraphs(answer, hints, reviews, world, pdf, attempt) ==
    LET found(graphs) == {g.id : g \in {h \in ToSet(graphs) : IsFound(h)}}
        failures(graphs) == found(graphs) \ pdf.calibrated
    IN  {RetainCalibrationFailuresAsReferences(graphs, failures(graphs)) :
            graphs \in {o \in ParseObservation(answer, hints, reviews, BeforeInterface(world), "find", FALSE) :
                          /\ found(o) \subseteq pdf.captioned
                          /\ failures(o) # {} => attempt = FindAttempts}}

(* assertComparisonGraphPreservesDiscovery *)
PreservesDiscovery(found, graph) == WithoutComparisonState(found) = WithoutComparisonState(graph)

(* parseReferenceGraphCheckpoint and the validation of an answer: the same *)
(* checks, of a graph that an earlier run stored and of one just drawn.    *)
(* proved are the graphs whose pixels and axes verify.                     *)
ComparisonAccepted(found, graph, hints, world, proved) ==
    IF graph.id # found.id \/ ~ParseGraph(graph, world, "comparison") THEN {}
    ELSE {g \in CanonicalizeObservedGraphSource(graph, hints, world, "comparison", FALSE) :
            PreservesDiscovery(found, g) /\ (IsEligible(g) => g.id \in proved)}

Checkpoint(pdf, found, graph) == [pdf |-> pdf.sha, found |-> found, graph |-> graph]
ReuseCheckpoint(checkpoint, found, hints, world, pdf) ==
    IF checkpoint.pdf # pdf.sha \/ checkpoint.found # found THEN {}
    ELSE ComparisonAccepted(found, checkpoint.graph, hints, world, pdf.proved)

(* The work on one graph: a stored graph that still holds is used, and     *)
(* else the agent draws it until a drawing is accepted, and that is stored.*)
ReusedOr(reused, drawn) == IF reused # {} THEN reused ELSE drawn
DigitizeGraph(found, stored, drawing, hints, world, pdf) ==
    ReusedOr(UNION {ReuseCheckpoint(s, found, hints, world, pdf) : s \in stored},
             ComparisonAccepted(found, drawing, hints, world, pdf.proved))

(* digitizeReferenceGraphs: what was found is parsed again, now with the   *)
(* model interface, and the digitised graphs take the place of the found.  *)
FoundAgain(graphs, hints, reviews, world) == ParseObservation(graphs, hints, reviews, world, "find", TRUE)
CombineGraphs(graphs, results) ==
    [k \in DOMAIN graphs |-> IF graphs[k].id \in DOMAIN results THEN results[graphs[k].id] ELSE graphs[k]]
CombinedObservation(graphs, hints, reviews, world, results) ==
    ParseObservation(CombineGraphs(graphs, results), hints, reviews, world, "comparison", TRUE)
=============================================================================
