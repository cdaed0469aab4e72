-------------------------- MODULE ApplicationCircuit --------------------------
(***************************************************************************)
(* A built application circuit against the plan (job-artifact-validator):  *)
(* which records belong to the application, what is connected, and a       *)
(* greedy assignment of the pins that may be exchanged.                    *)
(*                                                                         *)
(* A circuit is its ports in the order of the Circuit JSON, its named      *)
(* nets, the sets of ports and nets that share a connectivity key or a     *)
(* trace, and the components whose pins are interchangeable.               *)
(***************************************************************************)
EXTENDS ApplicationConnectivity, FiniteSetsExt

(* resolveTypicalApplicationCircuitScope: the groups above a component are *)
(* walked up to a root; not into a child subcircuit, and a parent that is  *)
(* missing or a cycle is an error.                                         *)
Unscoped == "unscoped"
Child == "child"
BrokenAncestry == "broken_ancestry"

StepUp(scope, g) ==
    IF g \in {Child, BrokenAncestry} THEN g
    ELSE IF g \notin DOMAIN scope.parent THEN BrokenAncestry
    ELSE IF g \in scope.owned THEN Child
    ELSE IF scope.parent[g] = None THEN g ELSE scope.parent[g]

ApplicationRoot(scope, g) ==
    LET size == Cardinality(DOMAIN scope.parent)
        up[n \in 0..size + 1] == IF n = 0 THEN g ELSE StepUp(scope, up[n - 1])
        top == up[size + 1]
    IN  IF g = None THEN Unscoped
        ELSE IF StepUp(scope, top) = top THEN top ELSE BrokenAncestry

RootGroups(scope) == {g \in DOMAIN scope.parent \ scope.owned : scope.parent[g] = None}

Members(scope, root) == {c \in DOMAIN scope.group : ApplicationRoot(scope, scope.group[c]) = root}

(* The groups with most of the planned components *)
Selected(scope, planned) ==
    LET candidates == IF RootGroups(scope) = {} THEN {Unscoped} ELSE RootGroups(scope)
        score(g) == Cardinality(Members(scope, g) \cap planned)
    IN  {g \in candidates : \A h \in candidates : score(h) <= score(g)}

(* Mutant: components outside the selected group are not looked at *)
ScopeOfSelected(scope, planned) == Cardinality(Selected(scope, planned)) = 1

(* No error, and the component records that are judged *)
ScopeIsClear(scope, planned) ==
    /\ Cardinality(Selected(scope, planned)) = 1
    /\ \A c \in DOMAIN scope.group :
          ApplicationRoot(scope, scope.group[c]) \in Selected(scope, planned) \cup {Child}

(* A component is judged, or some group above it, itself included, belongs *)
(* to a child subcircuit, or the scope is reported.                        *)
ScopeHidesNothing(scope, planned) ==
    LET parents(G) == {scope.parent[g] : g \in G \cap DOMAIN scope.parent}
        above(g) == {g} \cup parents({g}) \cup parents(parents({g}))
    IN  ScopeIsClear(scope, planned) =>
            \A c \in DOMAIN scope.group :
                \/ \E g \in Selected(scope, planned) : c \in Members(scope, g)
                \/ above(scope.group[c]) \cap scope.owned # {}

-----------------------------------------------------------------------------
(* PortConnectivity: connect joins the groups its members are in *)
Ids(circuit) == ToSet(circuit.ports) \cup circuit.nets

Join(group, blocks) ==
    LET touched == {b \in blocks : b \cap group # {}}
    IN  (blocks \ touched) \cup {UNION touched}

Blocks(circuit) ==
    FoldSet(Join, {{i} : i \in Ids(circuit)},
            {g \cap Ids(circuit) : g \in circuit.joined} \ {{}})

BlockOf(i, blocks) == CHOOSE b \in blocks : i \in b

PortsOf(ref, circuit) == SelectSeq(circuit.ports, LAMBDA p : p.comp = ref)

(* The ports an endpoint of the plan may stand for, in order *)
CandidatePorts(e, circuit, assigned) ==
    IF e.comp \in circuit.interchangeable
    THEN SelectSeq(PortsOf(e.comp, circuit), LAMBDA p : p \notin assigned)
    ELSE <<e>>

BlocksOf(ports, blocks) == [k \in DOMAIN ports |-> BlockOf(ports[k], blocks)]

(* The first block all the endpoints may be in, that no net has taken *)
FreeBlock(candidates, used) ==
    LET free == SelectSeq(candidates, LAMBDA b : b \notin used)
    IN  IF free = <<>> THEN <<>> ELSE <<free[1]>>

(* Mutant: one pin of the circuit stands for both ends of a passive *)
AssignTwice(pins, circuit, assigned, block) ==
    LET ports(e) == SelectSeq(CandidatePorts(e, circuit, assigned), LAMBDA p : p \in block)
        take(acc, e) ==
            IF e.comp \notin circuit.interchangeable THEN Append(acc, e)
            ELSE IF ports(e) = <<>> THEN acc ELSE Append(acc, ports(e)[1])
    IN  FoldLeft(take, <<>>, pins)

(* One port of the block for each exchangeable endpoint *)
Assign(pins, circuit, assigned, block) ==
    LET ports(e) == SelectSeq(CandidatePorts(e, circuit, assigned), LAMBDA p : p \in block)
        take(acc, e) ==
            IF e.comp \notin circuit.interchangeable THEN Append(acc, e)
            ELSE LET left == SelectSeq(ports(e), LAMBDA p : p \notin ToSet(acc))
                 IN  IF left = <<>> THEN acc ELSE Append(acc, left[1])
    IN  FoldLeft(take, <<>>, pins)

(* One connection of the plan *)
MatchConnection(circuit, blocks, st, connection) ==
    LET pins == connection.pins
        options == [k \in DOMAIN pins |-> CandidatePorts(pins[k], circuit, st.assigned)]
        inAll == SelectSeq(BlocksOf(options[1], blocks),
                           LAMBDA b : \A k \in DOMAIN pins : b \in ToSet(BlocksOf(options[k], blocks)))
        block == FreeBlock(inAll, {m.block : m \in st.matched})
        known == st.known \cup UNION {ToSet(options[k]) : k \in DOMAIN pins}
    IN  IF \E k \in DOMAIN pins : pins[k] \notin Ids(circuit) THEN [st EXCEPT !.ok = FALSE]
        ELSE IF block = <<>> THEN [st EXCEPT !.ok = FALSE, !.known = known]
        ELSE LET chosen == Assign(pins, circuit, st.assigned, block[1])
             IN  IF Len(chosen) < Len(pins) THEN [st EXCEPT !.ok = FALSE, !.known = known]
                 ELSE [ok |-> st.ok, known |-> known,
                       assigned |-> st.assigned \cup {p \in ToSet(chosen) : p.comp \in circuit.interchangeable},
                       matched |-> st.matched \cup
                           {[block |-> block[1], allowed |-> ToSet(chosen) \cup {Terminal(connection.net)}]}]

(* getTypicalApplicationConnectivityErrors finds nothing *)
CircuitAccepted(connections, components, circuit) ==
    LET blocks == Blocks(circuit)
        end == FoldLeft(LAMBDA st, c : MatchConnection(circuit, blocks, st, c),
                        [ok |-> TRUE, assigned |-> {}, matched |-> {},
                         known |-> {Terminal(connections[k].net) : k \in DOMAIN connections} \cap Ids(circuit)],
                        connections)
    IN  /\ end.ok
        /\ components = {p.comp : p \in ToSet(circuit.ports)}
        /\ \A b \in {x \in blocks : Cardinality(x) > 1} :
              LET matches == {m \in end.matched : m.block = b}
              IN  IF matches # {} THEN \A m \in matches : b \subseteq m.allowed
                  ELSE b \subseteq end.known

(* The circuit wires what the plan wires, up to exchanged pins; the name   *)
(* of a node may appear as a net in it.                                    *)
SameWiring(connections, circuit) ==
    LET blocks == Blocks(circuit)
        wired(swapped, c) == {Exchange(e, swapped) : e \in ToSet(c.pins)}
    IN  \E swapped \in SUBSET circuit.interchangeable :
          /\ \A k \in DOMAIN connections :
                LET pins == wired(swapped, connections[k])
                IN  /\ pins \subseteq Ids(circuit)
                    /\ \E b \in blocks : pins \subseteq b /\ b \subseteq pins \cup {Terminal(connections[k].net)}
          /\ \A b \in blocks :
                Cardinality(b) > 1 => \E k \in DOMAIN connections : wired(swapped, connections[k]) \subseteq b

(* A circuit that passes wires what the plan says: no short, no open, no   *)
(* extra connection.  A circuit that does is accepted when every node of   *)
(* the plan has an end that cannot be exchanged: the assignment of the     *)
(* others is greedy.                                                       *)
CircuitIsPlanned(connections, components, circuit) ==
    LET same == SameWiring(connections, circuit)
        accepted == CircuitAccepted(connections, components, circuit)
        anchored == \A k \in DOMAIN connections :
                        \E e \in ToSet(connections[k].pins) : e.comp \notin circuit.interchangeable
    IN  components = {p.comp : p \in ToSet(circuit.ports)} =>
            (accepted => same) /\ (anchored /\ same => accepted)
==============================================================================
