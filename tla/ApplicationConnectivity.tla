----------------------- MODULE ApplicationConnectivity -----------------------
(***************************************************************************)
(* The documented application circuit: how an extracted plan is made       *)
(* canonical (application-plan.ts), compared with an independent review of *)
(* the same datasheet (application-connectivity-verification.ts), and how  *)
(* a built circuit is compared with the plan (job-artifact-validator).     *)
(*                                                                         *)
(* A node is the set of its endpoints; an endpoint is a port of a          *)
(* component or an external terminal.  Names, values and part numbers are  *)
(* taken as already normalised.                                            *)
(***************************************************************************)
EXTENDS Integers, Sequences, FiniteSets, SequencesExt

External == "external"
None == "none"
Port(ref, port) == [comp |-> ref, port |-> port]
Terminal(name) == [comp |-> External, port |-> name]
IsTerminal(e) == e.comp = External

Endpoints(nodes) == UNION nodes
Nodes(e, nodes) == {n \in nodes : e \in n}

-----------------------------------------------------------------------------
(* Kinds, as printed; the inventory compares families of them *)
InventoryKind(kind) ==
    CASE kind = "chip_resistor" -> "resistor"
      [] kind = "ceramic_capacitor" -> "capacitor"
      [] kind = "regulator" -> "integrated_circuit"
      [] OTHER -> kind

SymmetricKinds == {"resistor", "ceramic_capacitor", "inductor"}
IsPassive(kind) == InventoryKind(kind) \in {"resistor", "capacitor", "inductor", "diode"}
IsInterface(c) == c.kind = "input_port"

-----------------------------------------------------------------------------
(* parseTypicalApplicationPlan.  The target is known by its family and its *)
(* orderable number, which may be the same, or not at all.                 *)
IsTarget(c, target) ==
    LET known == {target.part, target.selected}
    IN  /\ c.mpn \in known \cup {None}
        /\ IF target.part # target.selected
           THEN c.value \in known \/ (c.value = None /\ (c.mpn # None \/ c.ref \in known))
           ELSE c.mpn # None \/ c.ref = target.part \/ c.value = target.part

Targets(plan, target) ==
    IF target.part = None THEN {c \in plan.components : c.ref = "U1"}
    ELSE {c \in plan.components : IsTarget(c, target)}

Renamed(ref, plan, target) == IF \E c \in Targets(plan, target) : c.ref = ref THEN "U1" ELSE ref

CanonicalPlanEndpoint(e, plan, target) ==
    IF \E c \in plan.components : IsInterface(c) /\ c.ref = e.comp
    THEN Terminal((CHOOSE c \in plan.components : IsInterface(c) /\ c.ref = e.comp).value)
    ELSE [e EXCEPT !.comp = Renamed(@, plan, target)]

CanonicalComponent(c, plan, target) ==
    LET named == [c EXCEPT !.ref = Renamed(@, plan, target)]
    IN  IF named.ref # "U1" \/ target.part = None THEN named
        ELSE [named EXCEPT !.value = IF target.part # target.selected THEN target.part ELSE @,
                           !.mpn = target.selected]

CanonicalPlan(plan, target) ==
    [components |-> {CanonicalComponent(c, plan, target) : c \in {d \in plan.components : ~IsInterface(d)}},
     nodes |-> {{CanonicalPlanEndpoint(e, plan, target) : e \in n} : n \in plan.nodes},
     sources |-> plan.sources]

TerminalsOf(ref, nodes) == {e \in Endpoints(nodes) : e.comp = ref}

(* What the parser demands of a documented plan, before and after *)
PlanAccepted(plan, target) ==
    LET canonical == CanonicalPlan(plan, target)
        refs == {c.ref : c \in canonical.components}
        mapped == {<<e, n>> \in Endpoints(plan.nodes) \X plan.nodes : e \in n}
    IN  /\ Cardinality(Targets(plan, target)) = 1
        /\ \A c \in plan.components : IsInterface(c) => c.value # None
        /\ Cardinality(refs) = Cardinality({c \in plan.components : ~IsInterface(c)})
        /\ "U1" \in refs /\ plan.nodes # {}
        /\ Cardinality(Endpoints(canonical.nodes)) = Cardinality(mapped)
        /\ \A n \in canonical.nodes : Cardinality(n) > 1 /\ \E e \in n : ~IsTerminal(e)
        /\ \A e \in Endpoints(canonical.nodes) : e.comp \in refs \cup {External}
        /\ \A c \in canonical.components :
              LET used == TerminalsOf(c.ref, canonical.nodes)
              IN  used # {} /\ (IsPassive(c.kind) => Cardinality(used) = 2)

(* parseApplicationConnectivityReview *)
ReviewAccepted(review) ==
    /\ review.components # {} /\ review.nodes # {}
    /\ \A n \in review.nodes : Cardinality(n) > 1
    /\ {e.comp : e \in Endpoints(review.nodes)} \ {External} = {c.ref : c \in review.components}

-----------------------------------------------------------------------------
(* canonicalEndpoint: a port of U1 is a physical pin, or the label of one. *)
(* When the evidence of the component is not known, labels stay as drawn.  *)
PinsOf(port, evidence) ==
    IF port \in DOMAIN evidence.role THEN {port}
    ELSE {p \in DOMAIN evidence.role : port \in evidence.labels[p]}

Resolved(e, evidence) ==
    IF e.comp # "U1" \/ ~evidence.known THEN {e}
    ELSE LET pins == PinsOf(e.port, evidence)
         IN  IF Cardinality(pins) = 1 THEN {Port("U1", p) : p \in pins} ELSE {}

Identity(e, evidence) == CHOOSE i \in Resolved(e, evidence) : TRUE

IsSymmetric(ref, components) == \E c \in components : c.ref = ref /\ c.kind \in SymmetricKinds

Token(e, components) ==
    IF IsSymmetric(e.comp, components) THEN Port(e.comp, "symmetric_terminal") ELSE e

GraphIsValid(nodes, evidence) ==
    /\ \A n \in nodes : Cardinality(n) > 1 /\ \A e \in n : Resolved(e, evidence) # {}
    /\ \A e, f \in Endpoints(nodes) : e # f => Identity(e, evidence) # Identity(f, evidence)

Identities(n, evidence) == {Identity(e, evidence) : e \in n}

(* Mutant: the tokens of a node are deduplicated *)
TokensOnce(n, components, evidence) ==
    [t \in {Token(i, components) : i \in Identities(n, evidence)} |-> 1]

(* A node by its tokens with their multiplicity, and a graph by its nodes  *)
(* with theirs.                                                            *)
Tokens(n, components, evidence) ==
    [t \in {Token(i, components) : i \in Identities(n, evidence)} |->
        Cardinality({i \in Identities(n, evidence) : Token(i, components) = t})]

CanonicalGraph(drawing, evidence) ==
    LET tokens == {Tokens(n, drawing.components, evidence) : n \in drawing.nodes}
    IN  [t \in tokens |-> Cardinality({n \in drawing.nodes : Tokens(n, drawing.components, evidence) = t})]

(* getApplicationTargetPinCoverageErrors *)
CoversTarget(nodes, evidence) ==
    evidence.known =>
    \A p \in DOMAIN evidence.role :
        LET used == {e \in Endpoints(nodes) : Port("U1", p) \in Resolved(e, evidence)}
        IN  Cardinality(used) = IF evidence.role[p] = "no_connect" THEN 0 ELSE 1

(* compareApplicationComponentInventories: the reviewer may leave out a    *)
(* value or a part number, and may print either identity of the target.    *)
FactsAgree(extracted, reviewed, evidence) ==
    LET isTarget == evidence.known /\ extracted.ref = "U1"
    IN  /\ InventoryKind(extracted.kind) = InventoryKind(reviewed.kind)
        /\ \/ reviewed.value \in {None, extracted.value}
           \/ isTarget /\ reviewed.value \in evidence.names
        /\ \/ reviewed.mpn \in {None, extracted.mpn}
           \/ isTarget /\ reviewed.mpn \in evidence.names \cup {extracted.value}

InventoriesAgree(plan, review, evidence) ==
    /\ {c.ref : c \in plan.components} = {c.ref : c \in review.components}
    /\ \A c \in plan.components, d \in review.components : c.ref = d.ref => FactsAgree(c, d, evidence)

(* extractorApplicationSource: the crop, else a drawing, else the first *)
IsCrop(s) == s.image = "crop"
ExtractorSource(plan) ==
    LET first(P(_)) == SelectInSeq(plan.sources, P)
    IN  IF first(IsCrop) > 0 THEN plan.sources[first(IsCrop)]
        ELSE IF first(LAMBDA s : s.method = "pdf_visual") > 0
        THEN plan.sources[first(LAMBDA s : s.method = "pdf_visual")]
        ELSE plan.sources[1]

(* compareApplicationGraphs *)
Agreed(plan, review, evidence) ==
    /\ ExtractorSource(plan).page = review.source.page
    /\ InventoriesAgree(plan, review, evidence)
    /\ CoversTarget(plan.nodes, evidence) /\ CoversTarget(review.nodes, evidence)
    /\ GraphIsValid(plan.nodes, evidence) /\ GraphIsValid(review.nodes, evidence)
    /\ CanonicalGraph(plan, evidence) = CanonicalGraph(review, evidence)

(* installApplicationConnectivityObservation: the crop of the server is    *)
(* cited exactly when the review is about the page of the plan.            *)
Bound(source, plan) ==
    IF ExtractorSource(plan).page = source.page
    THEN [source EXCEPT !.image = "crop"] ELSE [source EXCEPT !.image = None]

(* parseApplicationConnectivityReview of an installed review *)
SourceIsBound(source, plan) ==
    IF ExtractorSource(plan).page = source.page THEN source.image = "crop" ELSE source.image = None

(* Whatever page the extractor selects in the end, a cached review can be  *)
(* installed and read back; an agreement is about one page.                *)
ReviewStaysBound(source, before, after) ==
    SourceIsBound(Bound(Bound(source, before), after), after)

(* The drawing of one is the drawing of the other when the ends of some    *)
(* components that have no polarity are exchanged.                         *)
Exchange(i, swapped) ==
    IF i.comp \notin swapped THEN i ELSE [i EXCEPT !.port = IF @ = "1" THEN "2" ELSE "1"]

SameDrawing(plan, review, evidence) ==
    LET free == {c.ref : c \in {d \in plan.components : IsSymmetric(d.ref, plan.components)
                                                        /\ IsSymmetric(d.ref, review.components)}}
    IN  \E swapped \in SUBSET free :
           {{Exchange(i, swapped) : i \in Identities(n, evidence)} : n \in plan.nodes}
             = {Identities(n, evidence) : n \in review.nodes}

(* An agreement means the same drawing, with every connectable pin of the  *)
(* target wired once; and a reviewer who transcribes the same drawing with *)
(* the same kinds is not rejected.                                         *)
AgreementIsSameDrawing(raw, target, review, evidence) ==
    LET plan == CanonicalPlan(raw, target)
        sameKinds == \A c \in plan.components, d \in review.components : c.ref = d.ref => c.kind = d.kind
    IN  PlanAccepted(raw, target) /\ ReviewAccepted(review) =>
        /\ Agreed(plan, review, evidence) => SameDrawing(plan, review, evidence)
        /\ (/\ sameKinds /\ InventoriesAgree(plan, review, evidence)
            /\ GraphIsValid(plan.nodes, evidence) /\ GraphIsValid(review.nodes, evidence)
            /\ CoversTarget(plan.nodes, evidence)
            /\ ExtractorSource(plan).page = review.source.page
            /\ SameDrawing(plan, review, evidence)) => Agreed(plan, review, evidence)
==============================================================================
