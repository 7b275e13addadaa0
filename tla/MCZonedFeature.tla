---------------------------- MODULE MCZonedFeature ----------------------------
(* Small instances of ZonedFeature for TLC. *)
EXTENDS ZonedFeature, TLC

CONSTANTS prod, sim, d1, f2, media, radio, left, right

\* A plugin file and a plugin linked into the program.  The feature accepts the
\* service objects of sim, and refuses that of prod.
MCContent == d1 :> <<prod>>
MCStatic == <<sim>>
MCName == [p \in Plugins |-> p]
MCListeners == <<f2>>
MCImplements == [p \in Plugins |-> Interfaces]
MCProvides == [p \in Plugins |-> IF p = prod THEN {media} ELSE Interfaces]
MCFeatureInterface == [f \in ListenerSet |-> radio]
MCPreferences == {<<>>, << {}, {prod} >>}
MCZoneLists == [p \in Plugins |-> IF p = sim THEN {{left}, {left, right}} ELSE {{right}}]
=============================================================================
