---------------------------- MODULE AbstractFeature ----------------------------
(***************************************************************************)
(* QIfAbstractFeature: the features of a program and how each discovers,   *)
(* connects to and loses the service object it is bound to                 *)
(* (src/interfaceframework/qifabstractfeature.cpp), composed with the      *)
(* service manager they share.                                             *)
(*                                                                         *)
(* A feature is a receiver of serviceObjectLoaded.  Its calls are frames   *)
(* on the manager's stack: "discover" and "choose" are the two halves of   *)
(* loadServiceObject() around the search for handles, "load" the rest of   *)
(* it, "notify" is onServiceObjectLoaded().                                *)
(***************************************************************************)
EXTENDS ServiceManager

CONSTANTS
    FeatureInterface,   \* [ListenerSet -> Interfaces]: interfaceName()
    Provides,           \* [Plugins -> SUBSET Interfaces]: the object's interfaces()
    Instanceless,       \* plugins whose interfaceInstance() returns null
    Demanding,          \* features whose connectToServiceObject() returns early
                        \* without an interface instance (QIfPagingModel)
    Preferences,        \* values of preferredBackends: Seq(SUBSET Plugins)
    InitialModes,       \* discovery modes the features are created with
    InitialAsync        \* values of asynchronousBackendLoading at creation

VARIABLES
    feature,            \* [ListenerSet -> the feature's private data]
    initializing        \* plugins that owe an initializationDone

featureVars == <<feature, initializing>>
vars == <<managerVars, featureVars>>

Features == ListenerSet
DiscoveryModes == {"NoAutoDiscovery", "AutoDiscovery",
                   "LoadOnlyProductionBackends", "LoadOnlySimulationBackends"}
DiscoveryResults == {"NoResult", "ErrorWhileLoading", "ProductionBackendLoaded",
                     "SimulationBackendLoaded"}
none == <<>>

ASSUME FeatureAssumption ==
    /\ FeatureInterface \in [ListenerSet -> Interfaces]
    /\ Provides \in [Plugins -> SUBSET Interfaces]
    /\ Demanding \subseteq ListenerSet
    /\ InitialModes \subseteq DiscoveryModes
    /\ InitialAsync \subseteq BOOLEAN
    /\ none \in Preferences

\* m_serviceHandles and m_currentServiceHandleIndex are handles and index, which
\* counts from 1; index 0 is the code's -1.  attached says that the backend's
\* signals are connected to the feature, watching that destroyed() of the
\* service object is.
NewFeature(mode, async) ==
    [so |-> none, mode |-> mode, result |-> "NoResult", search |-> "production",
     handles |-> <<>>, index |-> 0, preferred |-> <<>>, async |-> async,
     updates |-> TRUE, initialized |-> FALSE, connected |-> FALSE,
     attached |-> FALSE, watching |-> FALSE]

-----------------------------------------------------------------------------
(* Binding a service object *)

\* connectToServiceObject() and disconnectFromServiceObject()
Connected(f, r) ==
    IF f \in Demanding /\ r.so[1] \in Instanceless THEN r
    ELSE [r EXCEPT !.connected = TRUE, !.attached = r.so[1] \notin Instanceless]

\* Mutant: m_isInitialized survives the disconnect.
StillInitialized(r) == [r EXCEPT !.connected = FALSE, !.attached = FALSE]

Disconnected(r) ==
    [r EXCEPT !.initialized = FALSE, !.connected = FALSE, !.attached = FALSE]

\* acceptServiceObject()
Accepts(f, so) == FeatureInterface[f] \in Provides[so[1]]

\* Mutant: destroyed() is only connected along with the other signals.
WatchesWhenConnected(r, con) == r.updates /\ con.connected

\* Whether destroyed() of the new service object gets connected: not if the
\* feature should have connected to it and did not.
Watches(r, con) == r.updates => con.connected

\* setServiceObject(so): the feature afterwards, and whether it returns true.
Unbound(r) ==
    IF r.so = none THEN r
    ELSE [Disconnected(r) EXCEPT !.so = none, !.watching = FALSE]
Bound(f, r, so) ==
    LET set == [Unbound(r) EXCEPT !.so = so]
        con == IF so # none /\ r.updates THEN Connected(f, set) ELSE set
    IN  [con EXCEPT !.watching = so # none /\ Watches(r, con)]

AfterSet(f, r, so) ==
    IF r.so = so THEN r
    ELSE IF so # none /\ ~Accepts(f, so)
    THEN Unbound(r)
    ELSE Bound(f, r, so)
SetReturnsTrue(f, r, so) ==
    /\ r.so # so
    /\ so # none =>
         /\ Accepts(f, so)
         /\ r.updates => Bound(f, r, so).connected

\* backend->initialize() of what a feature has just attached to.
Initializes(old, new) ==
    initializing' = initializing \cup
        (IF new.attached /\ (~old.attached \/ old.so # new.so)
         THEN {new.so[1]} ELSE {})

SetServiceObject(f, so) ==
    /\ MayCall("setServiceObject")
    /\ so \in proxies \cup {none}
    /\ so # feature[f].so
    /\ feature' = [feature EXCEPT ![f] = AfterSet(f, feature[f], so)]
    /\ Initializes(feature[f], feature'[f])
    /\ UNCHANGED managerVars

SetBackendUpdatesEnabled(f) ==
    /\ MayCall("updates")
    /\ LET r == [feature[f] EXCEPT !.updates = ~@]
       IN  feature' = [feature EXCEPT ![f] =
                         IF r.so = none THEN r
                         ELSE IF r.updates THEN Connected(f, r) ELSE Disconnected(r)]
    /\ Initializes(feature[f], feature'[f])
    /\ UNCHANGED managerVars

\* The backend emits initializationDone some time after initialize(); every
\* feature attached to it hears it (onInitializationDone()).
InitializationDone(p) ==
    /\ AtEventLoop
    /\ p \in initializing
    /\ p \in Registered
    /\ initializing' = initializing \ {p}
    /\ feature' = [f \in Features |->
                     IF feature[f].attached /\ feature[f].so[1] = p
                     THEN [feature[f] EXCEPT !.initialized = TRUE]
                     ELSE feature[f]]
    /\ UNCHANGED managerVars

\* serviceObjectDestroyed() of every feature that watches a deleted object.  It
\* leaves m_isConnected alone.
Abandoned(r) ==
    [r EXCEPT !.so = none, !.initialized = FALSE, !.attached = FALSE,
              !.watching = FALSE]
ServiceObjectsDestroyed ==
    /\ ManagerDeletes
    /\ feature' = [f \in Features |->
                     IF feature[f].watching /\ feature[f].so \notin proxies'
                     THEN Abandoned(feature[f]) ELSE feature[f]]
    /\ initializing' = {p \in initializing : \E i \in DOMAIN m_backends' : m_backends'[i] = p}

-----------------------------------------------------------------------------
(* Discovery *)

Call(op, f) == Frame(op, Nowhere, <<f>>, {})
Caller == Head(stack).to[1]

Kind(search) == {search}

StartAutoDiscovery(f) ==
    /\ MayCall("discover")
    /\ LET r == feature[f]
       IN  IF r.so # none \/ r.mode = "NoAutoDiscovery"
           THEN /\ feature' = [feature EXCEPT ![f].result = "NoResult"]
                /\ UNCHANGED stack
           ELSE /\ feature' = [feature EXCEPT ![f].search =
                     IF r.mode = "LoadOnlySimulationBackends" THEN "simulation"
                     ELSE "production"]
                /\ stack' = <<Call("discover", f)>> \o stack
    /\ UNCHANGED <<registry, libraryPaths, backend, proxies,
                   running, posted, waiting, fault, initializing>>

\* loadServiceObject(): handles are looked for unless a search is under way.
Discover ==
    /\ Top("discover")
    /\ stack' = (IF feature[Caller].index = 0
                 THEN <<SearchFrame, Call("choose", Caller)>>
                 ELSE <<Call("load", Caller)>>) \o Tail(stack)
    /\ UNCHANGED <<registry, libraryPaths, backend, proxies,
                   running, posted, waiting, fault, featureVars>>

ChooseHandles ==
    /\ Top("choose")
    /\ LET f == Caller
           found == Found(Matching(FeatureInterface[f], Kind(feature[f].search)),
                          feature[f].preferred)
       IN  /\ feature' = [feature EXCEPT
                            ![f].handles = [i \in DOMAIN found |-> HandleOf(found[i])],
                            ![f].index = IF found = <<>> THEN 0 ELSE 1]
           /\ stack' = <<Call("load", f)>> \o Tail(stack)
    /\ UNCHANGED <<registry, libraryPaths, backend, proxies,
                   running, posted, waiting, fault, initializing>>

\* onServiceObjectFailure(): what the feature becomes, and what it does next.
FallsBack(r) == r.search = "production" /\ r.mode = "AutoDiscovery"

AfterFailure(r) ==
    IF FallsBack(r) THEN [r EXCEPT !.index = 0, !.search = "simulation"]
    ELSE [r EXCEPT !.index = 0, !.handles = <<>>, !.result = "ErrorWhileLoading"]
NextAfterFailure(f, r) == IF FallsBack(r) THEN <<Call("discover", f)>> ELSE <<>>

LoadCurrentHandle ==
    /\ Top("load")
    /\ LET f == Caller
           r == feature[f]
           h == r.handles[r.index]
       IN  IF r.handles = <<>>
           THEN /\ feature' = [feature EXCEPT ![f] = AfterFailure(r)]
                /\ stack' = NextAfterFailure(f, r) \o Tail(stack)
                /\ UNCHANGED <<backend, running, posted, waiting>>
           ELSE /\ UNCHANGED feature
                /\ IF IsLoaded(h)
                   THEN /\ stack' = <<Frame("notify", h, <<f>>, {})>> \o Tail(stack)
                        /\ UNCHANGED <<backend, running, posted, waiting>>
                   ELSE LoadServiceObject(h, r.async, Tail(stack))
    /\ UNCHANGED <<registry, libraryPaths, proxies, fault, initializing>>

\* Mutant: the last handle is never tried.
HasNextButOne(r) == r.index + 1 < Len(r.handles)

\* Mutant: compared before it is incremented.
HasNextOneMore(r) == r.index <= Len(r.handles)

\* ++m_currentServiceHandleIndex < m_serviceHandles.count()
HasNext(r) == r.index + 1 <= Len(r.handles)

\* onServiceObjectLoaded()
ServiceObjectOf(h) == IF IsLoaded(h) THEN ProxyOf(h[1]) ELSE none
IsAwaited(r, h) == r.index \in DOMAIN r.handles /\ r.handles[r.index] = h

OnServiceObjectLoaded ==
    /\ Top("notify")
    /\ LET f == Caller
           h == Head(stack).h
           r == feature[f]
           so == ServiceObjectOf(h)
           set == AfterSet(f, r, so)
           next == [set EXCEPT !.index = @ + 1]
       IN  \/ /\ ~IsAwaited(r, h)
              /\ stack' = Tail(stack)
              /\ UNCHANGED featureVars
           \/ /\ IsAwaited(r, h)
              /\ SetReturnsTrue(f, r, so)
              /\ feature' = [feature EXCEPT ![f] =
                   [set EXCEPT !.index = 0, !.handles = <<>>,
                               !.result = IF r.search = "production"
                                          THEN "ProductionBackendLoaded"
                                          ELSE "SimulationBackendLoaded"]]
              /\ stack' = Tail(stack)
              /\ Initializes(r, set)
           \/ /\ IsAwaited(r, h)
              /\ ~SetReturnsTrue(f, r, so)
              /\ HasNext(r)
              /\ feature' = [feature EXCEPT ![f] = next]
              /\ stack' = <<Call("load", f)>> \o Tail(stack)
              /\ Initializes(r, set)
           \/ /\ IsAwaited(r, h)
              /\ ~SetReturnsTrue(f, r, so)
              /\ ~HasNext(r)
              /\ feature' = [feature EXCEPT ![f] = AfterFailure(next)]
              /\ stack' = NextAfterFailure(f, next) \o Tail(stack)
              /\ Initializes(r, set)
    /\ UNCHANGED <<registry, libraryPaths, backend, proxies,
                   running, posted, waiting, fault>>

\* setDiscoveryMode(), setAsynchronousBackendLoading(), setPreferredBackends()
SetDiscoveryMode(f, mode) ==
    /\ MayCall("mode")
    /\ mode # feature[f].mode
    /\ feature' = [feature EXCEPT ![f].mode = mode]
    /\ UNCHANGED <<managerVars, initializing>>

SetAsynchronousBackendLoading(f) ==
    /\ MayCall("async")
    /\ feature' = [feature EXCEPT ![f].async = ~@]
    /\ UNCHANGED <<managerVars, initializing>>

SetPreferredBackends(f, wildcards) ==
    /\ MayCall("preferred")
    /\ wildcards # feature[f].preferred
    /\ feature' = [feature EXCEPT ![f].preferred = wildcards]
    /\ UNCHANGED <<managerVars, initializing>>

-----------------------------------------------------------------------------
Init ==
    /\ ManagerInit
    /\ initializing = {}
    /\ \E mode \in InitialModes, async \in [Features -> InitialAsync] :
         feature = [f \in Features |-> NewFeature(mode, async[f])]

FeatureInternal ==
    Discover \/ ChooseHandles \/ LoadCurrentHandle \/ OnServiceObjectLoaded

FeatureCalls ==
    \E f \in Features :
        \/ StartAutoDiscovery(f)
        \/ \E so \in proxies \cup {none} : SetServiceObject(f, so)
        \/ SetBackendUpdatesEnabled(f)
        \/ \E mode \in DiscoveryModes : SetDiscoveryMode(f, mode)
        \/ SetAsynchronousBackendLoading(f)
        \/ \E wildcards \in Preferences : SetPreferredBackends(f, wildcards)

\* What the manager does without deleting a service object.
ManagerKeeps ==
    (ManagerInternal \/ ManagerCalls \/ Threads \/ HandlePosted) /\ UNCHANGED featureVars

Next ==
    \/ ManagerKeeps
    \/ ServiceObjectsDestroyed
    \/ FeatureInternal
    \/ FeatureCalls
    \/ \E p \in Plugins : InitializationDone(p)

\* As ManagerFairness; a backend that was initialized says so in the end.
MainThread ==
    (ManagerInternal \/ FeatureInternal \/ AddBackend) /\ Next
Fairness ==
    /\ WF_vars(MainThread)
    /\ SF_vars(HandlePosted /\ UNCHANGED featureVars)
    /\ SF_vars(SpinDone /\ UNCHANGED featureVars)
    /\ \A h \in Handles : WF_vars(ThreadLoads(h) /\ UNCHANGED featureVars)
    /\ \A p \in Plugins : SF_vars(InitializationDone(p))

Spec == Init /\ [][Next]_vars /\ Fairness

-----------------------------------------------------------------------------
(* Properties *)

ServiceObjects == Plugins \X Nat \X Nat

\* Every variable has its type.
TypeOK ==
    /\ ManagerTypeOK
    /\ initializing \subseteq Plugins
    /\ feature \in [Features ->
         [so : ServiceObjects \cup {none}, mode : DiscoveryModes,
          result : DiscoveryResults, search : {"production", "simulation"},
          handles : Seq(Plugins \X Nat), index : Nat,
          preferred : Preferences, async : BOOLEAN, updates : BOOLEAN,
          initialized : BOOLEAN, connected : BOOLEAN, attached : BOOLEAN,
          watching : BOOLEAN]]

\* No feature keeps a pointer to a service object that was deleted, through
\* every unload, replacement and nested load (serviceObjectDestroyed()).
NoDanglingServiceObject ==
    \A f \in Features : feature[f].so # none => feature[f].so \in proxies

\* The service object a feature is bound to still has its backend: the interface
\* its calls go to was not deleted under it.
BackendIsAlive ==
    \A f \in Features : feature[f].so # none =>
        IsValid(<<feature[f].so[1], feature[f].so[2]>>)

\* The index is a position of the handle list whenever the list is read, and no
\* search is left half forgotten: at the event loop a feature has a handle it
\* waits for, or neither index nor handles.
SearchIsConsistent ==
    /\ Top("load") => \/ feature[Caller].handles = <<>>
                      \/ feature[Caller].index \in DOMAIN feature[Caller].handles
    /\ stack = <<>> => \A f \in Features :
          \/ feature[f].index = 0 /\ feature[f].handles = <<>>
          \/ feature[f].index \in DOMAIN feature[f].handles

\* A feature that waits for a handle at the event loop waits for a backend that
\* is being loaded: the signal that takes the discovery further is to come.
SearchIsUnderWay ==
    stack = <<>> => \A f \in Features : feature[f].index # 0 =>
        LET h == feature[f].handles[feature[f].index]
        IN  IsValid(h) /\ backend[h[1]].loading

\* What a feature is bound to is there, with the backend that implements it
\* (m_serviceObject, setServiceObject(), serviceObjectDestroyed()).
BoundIsAlive == NoDanglingServiceObject /\ BackendIsAlive

\* A search never reads a handle that is not in its list, and never stays under
\* way without a load that takes it further (m_currentServiceHandleIndex).
SearchIsSound == TypeOK /\ SearchIsConsistent /\ SearchIsUnderWay

\* A feature is initialized only while it hears the backend it is bound to.
InitializedMeansAttached ==
    \A f \in Features : feature[f].initialized =>
        feature[f].so # none /\ feature[f].attached

\* A production backend is always preferred: a feature in AutoDiscovery gets a
\* simulation backend only if no registered production backend can be used,
\* whatever loads fail or are refused on the way and whoever else loads.
Usable(f, p) ==
    /\ p \in Loadable \cup Resident
    /\ FeatureInterface[f] \in Implements[p] \cap Provides[p]
    /\ ~(f \in Demanding /\ p \in Instanceless)
ProductionIsPreferred ==
    [][\A f \in Features :
         ( /\ feature[f].mode = "AutoDiscovery"
           /\ feature'[f].so \notin {none, feature[f].so}
           /\ feature'[f].so[1] \in Simulation ) =>
         \A p \in Registered \ Simulation : ~Usable(f, p)]_vars

\* Every discovery ends, with a service object or with an error.
DiscoveryEnds ==
    \A f \in Features : feature[f].index # 0 ~> feature[f].index = 0

=============================================================================
