----------------------------- MODULE ZonedFeature -----------------------------
(***************************************************************************)
(* QIfAbstractZonedFeature: features that make a child feature for every   *)
(* zone of their backend (src/interfaceframework/                          *)
(* qifabstractzonedfeature.cpp).  A child calls the backend of its parent, *)
(* and has got a copy of the parent's service object.                      *)
(***************************************************************************)
EXTENDS AbstractFeature

CONSTANTS
    ZoneLists,          \* [Plugins -> the lists its availableZones() may be]
    OwnZones,           \* values of the features' own zone; General has none
    General,
    ReplacesDirectly    \* may a service object be set where another is set

Zones == UNION (UNION {ZoneLists[p] : p \in Plugins})

ASSUME ZoneAssumption ==
    /\ \A p \in Plugins : ZoneLists[p] # {}
    /\ General \in OwnZones
    /\ ReplacesDirectly \in BOOLEAN

VARIABLES
    available,          \* [Plugins -> availableZones() of its backend]
    ownZone,            \* [Features -> m_zone]
    zones               \* [Features -> m_zoneFeatures]

zoneVars == <<available, ownZone, zones>>
zonedVars == <<vars, zoneVars>>

\* A child, with the copy of m_serviceObject that it gets
ZoneFeature(z, so) == [zone |-> z, so |-> so]
ZonesOf(children) == {c.zone : c \in children}

\* initializeZones(): a feature of one zone has no children.
InitializeZones(f, children, so, list) ==
    IF ownZone[f] # General THEN children
    ELSE children \cup {ZoneFeature(z, so) : z \in list \ ZonesOf(children)}

\* Mutant: only a service object that is destroyed takes the children along.
ClearsWhenDestroyed(f) == feature[f].so # none /\ feature[f].so \notin proxies'

\* clearServiceObject() is called of a feature that has lost its service object
\* or has refused a new one.
Clears(f) == feature[f].so # none /\ feature'[f].so = none

\* connectToServiceObject() with a backend
Connects(f) ==
    feature'[f].attached /\ (~feature[f].attached \/ feature'[f].so # feature[f].so)

\* What the steps of AbstractFeature do to the children
ZonesFollowStep ==
    /\ zones' = [f \in Features |->
                    LET kept == IF Clears(f) THEN {} ELSE zones[f]
                        so == feature'[f].so
                    IN  IF Connects(f) THEN InitializeZones(f, kept, so, available[so[1]])
                        ELSE kept]
    /\ UNCHANGED <<available, ownZone>>

\* The features whose initializeZones() is connected to the backend of p
Hearing(p) == {f \in Features : feature[f].attached /\ feature[f].so[1] = p}

\* The backend of p emits availableZonesChanged().
AvailableZonesChanged(p) ==
    /\ AtEventLoop
    /\ p \in Registered
    /\ \E list \in ZoneLists[p] \ {available[p]} :
          /\ available' = [available EXCEPT ![p] = list]
          /\ zones' = [f \in Features |->
                          IF f \in Hearing(p)
                          THEN InitializeZones(f, zones[f], feature[f].so, list)
                          ELSE zones[f]]
    /\ UNCHANGED <<vars, ownZone>>

\* setZone() of a feature without a backend
SetZone(f, z) ==
    /\ MayCall("zone")
    /\ feature[f].so # none => feature[f].so[1] \in Instanceless
    /\ ownZone[f] # z
    /\ ownZone' = [ownZone EXCEPT ![f] = z]
    /\ UNCHANGED <<vars, available, zones>>

ZonedInit ==
    /\ Init
    /\ available \in {a \in [Plugins -> UNION {ZoneLists[p] : p \in Plugins}] :
                        \A p \in Plugins : a[p] \in ZoneLists[p]}
    /\ ownZone = [f \in Features |-> General]
    /\ zones = [f \in Features |-> {}]

ReplacedByNone ==
    ReplacesDirectly \/ \A f \in Features :
        feature[f].so # none => feature'[f].so \in {feature[f].so, none}

ZonedNext ==
    \/ Next /\ ReplacedByNone /\ ZonesFollowStep
    \/ \E p \in Plugins : AvailableZonesChanged(p)
    \/ \E f \in Features, z \in OwnZones : SetZone(f, z)

ZonedSpec == ZonedInit /\ [][ZonedNext]_zonedVars

-----------------------------------------------------------------------------
(* Properties *)

\* Types of the zoned features.
ZonedTypeOK ==
    /\ available \in [Plugins -> SUBSET Zones]
    /\ ownZone \in [Features -> OwnZones]
    /\ zones \in [Features ->
            SUBSET [zone : Zones, so : ServiceObjects \cup {none}]]

\* Every child has the service object of its parent: none is left from before a
\* reload, a refusal, an unload or a pause of the updates, and so none is deleted
\* ("uses parent for the backend connection", qifabstractzonedfeature.cpp:120).
ZonesFollowTheFeature ==
    \A f \in Features : \A c \in zones[f] : c.so = feature[f].so

\* A feature that hears its backend has a child for each zone there is, however
\* the zones have changed meanwhile (zoneAt()).  There may be more children: that
\* of a zone the backend no longer names stays until the binding is cleared, since
\* initializeZones() removes none, though availableZones is said to hold the
\* zones available currently (qifabstractzonedfeature.cpp:86, 294).
EveryZoneIsThere ==
    \A f \in Features : feature[f].attached /\ ownZone[f] = General =>
        available[feature[f].so[1]] \subseteq ZonesOf(zones[f])

\* No zone of the backend a feature is connected to lacks its child, and no child
\* has another service object than the feature.
ZonesAreRight == ZonedTypeOK /\ ZonesFollowTheFeature /\ EveryZoneIsThere
=============================================================================
