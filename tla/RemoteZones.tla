----------------------------- MODULE RemoteZones -----------------------------
(***************************************************************************)
(* The properties of a zoned backend behind Qt Remote Objects (the         *)
(* templates backend_qtro, server_qtro_simulator and backend_simulation of *)
(* the code generator), over the connections of RemoteReply.  A backend    *)
(* that is connected asks for the zones, then for each property of each    *)
(* zone, and hears of changes meanwhile; when all is read it tells its     *)
(* feature, which then is initialized.                                     *)
(***************************************************************************)
EXTENDS RemoteReply

CONSTANTS
    Zones, General,  \* the zones with a name; QString()
    Props,           \* the properties of the interface that are no models
    Values, Default, \* Default: default_type_value of the generator
    Unknown,         \* what a feature shows before it is told
    ZoneLists,       \* the zones a server may come up with
    SwitchesAnyTime, \* FALSE: a URL changes only while the backend is not synced
    MaxChanges       \* bound on the values set

Cells == (Zones \cup {General}) \X Props

ASSUME ZonesAssumption ==
    /\ General \notin Zones
    /\ Props # {}
    /\ Default \in Values
    /\ Unknown \notin Values
    /\ ZoneLists \subseteq SUBSET Zones
    /\ ZoneLists # {}
    /\ SwitchesAnyTime \in BOOLEAN
    /\ MaxChanges \in Nat

VARIABLES
    served,     \* [Sources -> the zones and values of the backend it serves]
    asks,       \* [Replicas -> its calls and settings on their way to the source]
    inbox,      \* [Replicas -> answers and signals on their way to the replica]
    client,     \* [Replicas -> the backend with its zone objects, and its feature]
    read,       \* [Replicas -> the cells that were read over this connection]
    changes     \* counts the values set

zoneVars == <<served, asks, inbox, client, read, changes>>
zonedVars == <<vars, zoneVars>>

NewServed(zones) == [zones |-> zones, value |-> [c \in Cells |-> Default]]
Clients == [zones : SUBSET Zones, known : SUBSET (Zones \cup {General}),
            value : [Cells -> Values], toSync : SUBSET Cells, synced : BOOLEAN,
            shown : [Cells -> Values \cup {Unknown}], waits : BOOLEAN]

\* A feature has connected to the backend and called initialize().
NewClient ==
    [zones |-> {}, known |-> {General}, value |-> [c \in Cells |-> Default],
     toSync |-> {}, synced |-> FALSE,
     shown |-> [c \in Cells |-> Unknown], waits |-> TRUE]

ZonedInit ==
    /\ Init
    /\ served \in [Sources -> {NewServed(zones) : zones \in ZoneLists}]
    /\ asks = [r \in Replicas |-> <<>>]
    /\ inbox = [r \in Replicas |-> <<>>]
    /\ client = [r \in Replicas |-> NewClient]
    /\ read = [r \in Replicas |-> {}]
    /\ changes = 0

Source(r) == replica[r].source
IsOpen(r) == replica[r].state = "Valid"

-----------------------------------------------------------------------------
(* The backend: what each handler makes of its data *)

\* The properties of zones, as isSyncing() counts them
CellsOf(zones) == zones \X Props

\* Mutant: one zone that is done is enough.
FirstDone(b) ==
    IF \A z \in b.known : \E p \in Props : <<z, p>> \in b.toSync THEN b
    ELSE [b EXCEPT !.synced = TRUE, !.waits = FALSE,
                   !.shown = [c \in Cells |-> IF c[1] \in b.known THEN b.value[c] ELSE @[c]]]

\* onZoneSyncDone() with emitCurrentState() of each zone
OnZoneSyncDone(b) ==
    IF b.toSync # {} THEN b
    ELSE [b EXCEPT !.synced = TRUE, !.waits = FALSE,
                   !.shown = [c \in Cells |-> IF c[1] \in b.known THEN b.value[c] ELSE @[c]]]

\* The answer to availableZones(), in syncZones(); each zone begins to sync().
GotZones(b, zones) ==
    IF b.synced THEN OnZoneSyncDone(b)
    ELSE [b EXCEPT !.zones = zones, !.known = @ \cup zones,
                   !.toSync = @ \cup CellsOf(b.known \cup zones)]

\* Mutant: an answer that changes nothing is not counted.
NotCounted(b, c, v) ==
    IF v = b.value[c] THEN b
    ELSE OnZoneSyncDone([b EXCEPT !.value[c] = v, !.toSync = @ \ {c}])

\* The answer of a getter, in sync(), and checkSync()
GotValue(b, c, v) == OnZoneSyncDone([b EXCEPT !.value[c] = v, !.toSync = @ \ {c}])

\* Mutant: a change is taken once everything is read.
TakenWhenSynced(b, c, v) ==
    IF b.synced THEN [b EXCEPT !.value[c] = v, !.shown[c] = v] ELSE b

\* The changed signal of a property, in setupConnections(), and the zone's setter
GotChange(b, c, v) ==
    IF c[1] \in b.known THEN [b EXCEPT !.value[c] = v, !.shown[c] = v] ELSE b

\* initialize()
Initialized(b) == IF b.synced THEN OnZoneSyncDone(b) ELSE b

\* The replica is Suspect.
NotSynced(b) == [b EXCEPT !.synced = FALSE]

-----------------------------------------------------------------------------
(* The calls of the backend, and the server *)

Asks == [op : {"zones", "get", "set"}, cells : SUBSET Cells, value : Values]
Signals == [kind : {"zones", "value", "changed"}, zones : SUBSET Zones, cell : Cells,
            value : Values]

AskZones == [op |-> "zones", cells |-> {}, value |-> Default]
AskCells(cells) == [op |-> "get", cells |-> cells, value |-> Default]
AskSet(c, v) == [op |-> "set", cells |-> {c}, value |-> v]
AnyCell == CHOOSE c \in Cells : TRUE
ZonesAre(zones) == [kind |-> "zones", zones |-> zones, cell |-> AnyCell, value |-> Default]
ValueIs(kind, c, v) == [kind |-> kind, zones |-> {}, cell |-> c, value |-> v]

\* A setter of the generated backend; without a connection the call is lost.
SetProperty(r, c, v) ==
    /\ changes < MaxChanges
    /\ changes' = changes + 1
    /\ c[1] \in client[r].zones \cup {General}
    /\ asks' = IF IsOpen(r) THEN [asks EXCEPT ![r] = Append(@, AskSet(c, v))] ELSE asks
    /\ UNCHANGED <<vars, served, inbox, client, read>>

\* The setter of the backend in the server: the adapter signals a change to every
\* replica that is connected.  There is no setting a zone that the server has not.
SetOn(s, c, v) ==
    IF c[1] \in served[s].zones \cup {General} /\ served[s].value[c] # v
    THEN /\ served' = [served EXCEPT ![s].value[c] = v]
         /\ inbox' = [r \in Replicas |->
              IF r \in Connected(s) THEN Append(inbox[r], ValueIs("changed", c, v))
              ELSE inbox[r]]
    ELSE UNCHANGED <<served, inbox>>

\* The simulation, or another program, sets a value.
ChangeOnServer(s, c, v) ==
    /\ changes < MaxChanges
    /\ changes' = changes + 1
    /\ SetOn(s, c, v)
    /\ UNCHANGED <<vars, asks, client, read>>

\* The getters of the backend in the server; a zone that it has not has the default.
ValueOn(s, c) == served[s].value[c]

ServeZones(r) ==
    /\ Head(asks[r]).op = "zones"
    /\ asks' = [asks EXCEPT ![r] = Tail(@)]
    /\ inbox' = [inbox EXCEPT ![r] = Append(@, ZonesAre(served[Source(r)].zones))]
    /\ UNCHANGED served

\* One of the getters that sync() has called; the zones are in no particular order.
ServeValue(r, c) ==
    LET ask == Head(asks[r])
        rest == ask.cells \ {c}
    IN  /\ ask.op = "get"
        /\ c \in ask.cells
        /\ asks' = [asks EXCEPT ![r] =
                      (IF rest = {} THEN <<>> ELSE <<AskCells(rest)>>) \o Tail(@)]
        /\ inbox' = [inbox EXCEPT ![r] =
                       Append(@, ValueIs("value", c, ValueOn(Source(r), c)))]
        /\ UNCHANGED served

ServeSet(r, c) ==
    /\ Head(asks[r]).op = "set"
    /\ c \in Head(asks[r]).cells
    /\ asks' = [asks EXCEPT ![r] = Tail(@)]
    /\ SetOn(Source(r), c, Head(asks[r]).value)

\* The slots of the adapter
ServeAsk(r) ==
    /\ asks[r] # <<>>
    /\ ServeZones(r) \/ \E c \in Cells : ServeValue(r, c) \/ ServeSet(r, c)
    /\ UNCHANGED <<vars, client, read, changes>>

-----------------------------------------------------------------------------
(* The backend *)

\* An answer or a signal arrives.
Hear(r) ==
    LET m == Head(inbox[r])
        b == client[r]
    IN  /\ inbox[r] # <<>>
        /\ inbox' = [inbox EXCEPT ![r] = Tail(@)]
        /\ client' = [client EXCEPT ![r] =
                        CASE m.kind = "zones"   -> GotZones(b, m.zones)
                          [] m.kind = "value"   -> GotValue(b, m.cell, m.value)
                          [] m.kind = "changed" -> GotChange(b, m.cell, m.value)]
        /\ asks' = IF m.kind = "zones" /\ ~b.synced
                   THEN [asks EXCEPT ![r] = Append(@, AskCells(CellsOf(b.known \cup m.zones)))]
                   ELSE asks
        /\ read' = IF m.kind = "value" THEN [read EXCEPT ![r] = @ \cup {m.cell}] ELSE read
        /\ UNCHANGED <<vars, served, changes>>

\* Another feature of the program connects, and calls initialize().
Initialize(r) ==
    /\ client' = [client EXCEPT ![r] =
                    Initialized([@ EXCEPT !.shown = [c \in Cells |-> Unknown],
                                          !.waits = TRUE])]
    /\ UNCHANGED <<vars, served, asks, inbox, read, changes>>

\* initialized of the replica: syncZones()
ZonedConnect(r) ==
    /\ Connect(r)
    /\ asks' = IF replica'[r].state = "Valid"
               THEN [asks EXCEPT ![r] = Append(@, AskZones)] ELSE asks
    /\ UNCHANGED <<served, inbox, client, read, changes>>

\* What is on its way to and from the replicas R is lost.
Dropped(R) ==
    /\ asks' = [r \in Replicas |-> IF r \in R THEN <<>> ELSE asks[r]]
    /\ inbox' = [r \in Replicas |-> IF r \in R THEN <<>> ELSE inbox[r]]
    /\ read' = [r \in Replicas |-> IF r \in R THEN {} ELSE read[r]]
    /\ UNCHANGED changes

Suspected(R) ==
    client' = [r \in Replicas |-> IF r \in R THEN NotSynced(client[r]) ELSE client[r]]

ZonedConnectionLost(r) ==
    ConnectionLost(r) /\ Dropped({r}) /\ Suspected({r}) /\ UNCHANGED served

\* A server comes up with the values it begins with, and maybe with other zones.
ZonedSourceRestarts(s) ==
    /\ SourceRestarts(s)
    /\ Dropped(Connected(s))
    /\ Suspected(Connected(s))
    /\ \E zones \in ZoneLists : served' = [served EXCEPT ![s] = NewServed(zones)]

\* connectToNode() with another URL: m_synced and the zone objects stay.
ZonedUpdateServiceSettings(r, s) ==
    /\ SwitchesAnyTime \/ ~client[r].synced
    /\ UpdateServiceSettings(r, s)
    /\ Dropped({r})
    /\ UNCHANGED <<served, client>>

-----------------------------------------------------------------------------
ZonedNext ==
    \/ CallSteps /\ UNCHANGED zoneVars
    \/ \E r \in Replicas :
         \/ ServeAsk(r) \/ Hear(r) \/ Initialize(r)
         \/ \E c \in Cells, v \in Values : SetProperty(r, c, v)
         \/ ZonedConnect(r) \/ ZonedConnectionLost(r)
         \/ \E s \in Sources : ZonedUpdateServiceSettings(r, s)
    \/ \E s \in Sources :
         \/ \E c \in Cells, v \in Values : ChangeOnServer(s, c, v)
         \/ ZonedSourceRestarts(s)

\* The event loops of the server and the program handle what has come.
ZonedFairness == \A r \in Replicas : WF_zonedVars(ServeAsk(r)) /\ WF_zonedVars(Hear(r))

ZonedSpec == ZonedInit /\ [][ZonedNext]_zonedVars /\ ZonedFairness

-----------------------------------------------------------------------------
(* Properties *)

\* Each variable has its type.
ZonesTypeOK ==
    /\ served \in [Sources -> [zones : SUBSET Zones, value : [Cells -> Values]]]
    /\ asks \in [Replicas -> Seq(Asks)]
    /\ inbox \in [Replicas -> Seq(Signals)]
    /\ client \in [Replicas -> Clients]
    /\ read \in [Replicas -> SUBSET Cells]
    /\ changes \in Nat

\* A feature is initialized only with what was read over the connection there is:
\* the zones of this server and each of their properties, also when connections
\* were lost in the middle (syncZones(), checkSync(), onZoneSyncDone()).
SyncedIsRead ==
    \A r \in Replicas : client[r].synced =>
        /\ IsOpen(r)
        /\ client[r].zones = served[Source(r)].zones
        /\ read[r] = CellsOf(client[r].known)
        /\ ~client[r].waits

\* When nothing is on its way, a synced backend and its feature have the values of
\* the server, though changes came between the reads, in any order, and before the
\* zones were known; a zone that the server has no more has the default.
ShowsTheServer ==
    \A r \in Replicas : client[r].synced /\ inbox[r] = <<>> =>
        \A c \in CellsOf(client[r].known) :
          /\ client[r].value[c] = served[Source(r)].value[c]
          /\ client[r].shown[c] = served[Source(r)].value[c]

\* A feature that waits is told that the backend is initialized, unless the
\* connection is lost (sync(), onZoneSyncDone()).
SyncEnds ==
    \A r \in Replicas :
        (IsOpen(r) /\ client[r].waits) ~> (~client[r].waits \/ ~IsOpen(r))
=============================================================================
