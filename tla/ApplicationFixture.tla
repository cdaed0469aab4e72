------------------------- MODULE ApplicationFixture -------------------------
(***************************************************************************)
(* The application circuit an experiment runs in: the documented one, with *)
(* the pins that the experiment drives taken off their nodes               *)
(* (modeling/application-fixture-contract/resolver.ts).                    *)
(*                                                                         *)
(* A contract holds groups of nodes, [id, ground, ends, external, volts]   *)
(* with ends the pins of the device, and passives, [type, reference, value,*)
(* ends] with ends the two groups they join, "gnd" for the ground.  The    *)
(* digest of a topology stands for the topology: it is kept as such.       *)
(***************************************************************************)
EXTENDS Integers, Sequences, FiniteSets, SequencesExt

FixtureGroupIds(fixture) == ToSet(fixture.ends) \ {"gnd"}

(* Mutant: any node may lose its last pin *)
AlwaysAnchored(contract, group) == group \in {group}

(* hasExecutableAnchorAfterDetach *)
HasExecutableAnchorAfterDetach(contract, group) ==
    \/ group.ground \/ group.ends # {}
    \/ \A f \in contract.passives : group.id \notin FixtureGroupIds(f)

DetachEndpoint(contract, state, endpoint) ==
    LET home == {g \in state.groups : endpoint \in g.ends}
        left == {[g EXCEPT !.ends = @ \ {endpoint}] : g \in home}
    IN  [ok |-> /\ state.ok /\ endpoint # "gnd" /\ endpoint \notin state.conditioned
                /\ Cardinality(home) = 1
                /\ \A g \in left : HasExecutableAnchorAfterDetach(contract, g),
         groups |-> (state.groups \ home) \cup left,
         conditioned |-> state.conditioned \cup {endpoint},
         overlays |-> Append(state.overlays, [endpoint |-> endpoint, from |-> {g.id : g \in home}])]

InTopology(groups, endpoint) == endpoint = "gnd" \/ \E g \in groups : endpoint \in g.ends

(* A control is tied to ground when low, to a pin of the circuit when high *)
LogicOverlay(contract, state, f) ==
    LET tied == /\ f.to # f.at /\ (f.to = "gnd") = (f.state = "low")
                /\ InTopology(state.groups, f.to)
    IN  IF f.type # "logic" THEN state
        ELSE DetachEndpoint(contract, [state EXCEPT !.ok = @ /\ tied], f.at)

(* executableApplicationProjection: what hangs on the pins of the device *)
ExecutableApplicationProjection(contract, groups) ==
    LET passive == UNION {FixtureGroupIds(f) : f \in contract.passives}
        roots == {g.id : g \in {h \in groups : \/ h.ground \/ Cardinality(h.ends) >= 2
                                               \/ h.ends # {} /\ h.id \in passive}}
        ClosedUnder(S) == \A f \in contract.passives :
                              FixtureGroupIds(f) \cap S = {} \/ FixtureGroupIds(f) \subseteq S
        retained == CHOOSE S \in SUBSET {g.id : g \in groups} :
                        /\ roots \subseteq S /\ ClosedUnder(S)
                        /\ \A T \in SUBSET S : roots \subseteq T /\ ClosedUnder(T) => T = S
    IN  [groups |-> {g \in groups : g.id \in retained},
         fixtures |-> {f \in contract.passives : FixtureGroupIds(f) \subseteq retained}]

(* resolveApplicationFixtureForBinding: the topology, or none *)
ResolveApplicationFixtureForBinding(contract, binding) ==
    LET documented == [ok |-> contract.availability = "documented", groups |-> contract.groups,
                       conditioned |-> {}, overlays |-> <<>>]
        controlled == FoldLeft(LAMBDA s, f : LogicOverlay(contract, s, f), documented, binding.auxiliary)
        supplied == \E f \in ToSet(binding.auxiliary) : f.type = "dc_voltage" /\ f.at # binding.stimulus
        driven == IF binding.type = "voltage_step" /\ supplied
                  THEN DetachEndpoint(contract, controlled, binding.stimulus) ELSE controlled
        anchored == \A f \in ToSet(binding.auxiliary) : f.type = "logic" => InTopology(driven.groups, f.to)
        executable == ExecutableApplicationProjection(contract, driven.groups)
    IN  IF driven.ok /\ anchored
        THEN {[contract |-> contract.sha, groups |-> executable.groups, fixtures |-> executable.fixtures,
               overlays |-> driven.overlays]}
        ELSE {}

-----------------------------------------------------------------------------
(* resolveApplicationFixtureForBinding: driving pins never loses a passive *)
(* of the documented circuit or leaves one hanging in the air, every       *)
(* driven pin is off its node, and what a control is tied to is not.       *)
NoBranchOrphaned(contract, binding) ==
    LET before == ExecutableApplicationProjection(contract, contract.groups)
    IN  \A r \in ResolveApplicationFixtureForBinding(contract, binding) :
            /\ r.fixtures = before.fixtures
            /\ \A g \in r.groups : \/ g.ground \/ g.ends # {}
                                   \/ \E b \in before.groups : b.id = g.id /\ b.ends = {}
            /\ \A f \in ToSet(binding.auxiliary) : f.type = "logic" =>
                  /\ \A g \in r.groups : f.at \notin g.ends
                  /\ f.to # "gnd" => f.to \in UNION {g.ends : g \in contract.groups}
                                              \ {o.endpoint : o \in ToSet(r.overlays)}
=============================================================================
