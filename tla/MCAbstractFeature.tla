-------------------------- MODULE MCAbstractFeature --------------------------
(* Small instances of AbstractFeature for TLC. *)
EXTENDS AbstractFeature, TLC

CONSTANTS prod, bad, sim, d1, f1, f2, media, radio

\* One directory with a plugin that does not load, a production and a simulation
\* backend.
MCContentDiscover == d1 :> <<bad, prod, sim>>
MCNone == <<>>
MCName == [p \in Plugins |-> p]
MCListeners == <<f1, f2>>

\* Every plugin's metadata names both interfaces.  The service object of prod
\* provides media only, so f2, which needs radio, refuses it.
MCImplements == [p \in Plugins |-> Interfaces]
MCProvides == [p \in Plugins |-> IF p = prod THEN {media} ELSE Interfaces]
MCFeatureInterface == [f \in ListenerSet |-> IF f = f2 THEN radio ELSE media]
MCNoPreferences == {<<>>}

\* The application adds a directory and starts discoveries, and sets nothing.
SearchNext ==
    \/ ManagerKeeps
    \/ ServiceObjectsDestroyed
    \/ FeatureInternal
    \/ \E f \in Features : StartAutoDiscovery(f)
    \/ \E p \in Plugins : InitializationDone(p)

SearchSpec == Init /\ [][SearchNext]_vars /\ Fairness
=============================================================================
