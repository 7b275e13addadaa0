--------------------------- MODULE MCConfiguration ---------------------------
(***************************************************************************)
(* Instances of Configuration for TLC.                                     *)
(***************************************************************************)
EXTENDS Configuration

CONSTANTS g1, g2, f1, f2, c1, c2, s1, s2, v1, v2

MCOrder == <<"discoveryMode", "backendUpdatesEnabled">>
MCValues == [s \in {"discoveryMode", "backendUpdatesEnabled", "serviceSettings", "simulationFile"} |->
               IF s = "discoveryMode" THEN {Default, v1, v2} ELSE {Default, v2}]
MCInitial == [s \in DOMAIN MCValues |-> IF s = "discoveryMode" THEN v1 ELSE Default]
MCGroupOf == [o \in {s1, s2} |-> g1]

InGroup(g, values) == <<[group |-> g, values |-> values]>>
Override(g, s, v) == <<[group |-> g, setting |-> s, value |-> v]>>

MCFiles == {<<>>,
    InGroup(g1, [s \in {"discoveryMode", "serviceSettings"} |-> v2]),
    InGroup(g1, [s \in {"simulationFile"} |-> v2])
        \o InGroup(g2, [s \in {"discoveryMode"} |-> Malformed])}

MCEnvironments == {<<>>,
    Override(g1, "simulationFile", v2) \o Override(g1, "discoveryMode", v2)
        \o Override(g1, "discoveryMode", Malformed),
    Override(g2, "simulationFile", Malformed) \o Override(g1, "discoveryMode", v1)
        \o Override(g1, "discoveryMode", v2)}

Symmetry == Permutations({f1, f2}) \cup Permutations({c1, c2}) \cup Permutations({s1, s2})
=============================================================================
