---------------------------- MODULE ServiceManager ----------------------------
(***************************************************************************)
(* QIfServiceManager: the registry of backends, their loading in the main  *)
(* thread or in a thread of their own, and the service objects (proxies)   *)
(* it creates for them (src/interfaceframework/qifservicemanager.cpp).     *)
(*                                                                         *)
(* The main thread is an event loop.  What it is in the middle of is the   *)
(* variable stack, the innermost call first: a call that can run foreign   *)
(* code (a signal emission, a createServiceObject() that waits in a nested *)
(* event loop) is a frame, and one step runs or finishes the topmost one.  *)
(* posted is the main thread's event queue, running the loader threads.    *)
(***************************************************************************)
EXTENDS Integers, Sequences, FiniteSets, Selection

CONSTANTS
    Plugins,        \* the backends the program may ever know
    Dirs,           \* the directories that can be on the library path
    Content,        \* [Dirs -> Seq(Plugins)]: the plugin files of a directory
    StaticPlugins,  \* Seq(Plugins): the plugins linked into the program
    Objects,        \* the backends registered with registerService()
    Interfaces,     \* interface names
    Implements,     \* [Plugins -> SUBSET Interfaces]: the metadata's list
    Loadable,       \* the plugin files whose library loads and casts
    Simulation,     \* the backends isSimulation() recognises
    Name,           \* [Plugins -> class names]
    Base,           \* [Plugins -> file base names]
    DebugBuild,     \* the plugins whose metadata says debug
    LoadDebug,      \* qtif_helper::loadDebug: the configuration of this build
    Listeners,      \* Seq: the objects connected to serviceObjectLoaded
    UserCalls,      \* the calls the application makes
    MaxLives,       \* bound: Backend objects made for one plugin
    MaxTries,       \* bound: asynchronous loads begun for one Backend object
    MaxDepth        \* bound: frames on the stack when the application calls

VARIABLES
    m_backends,     \* Seq(Plugins), the registered backends in order
    m_loadedPaths,  \* the directories searchPlugins() has read
    m_staticLoaded, \* whether it has gone through the static plugins
    m_interfaceNames, \* the interfaces hasInterface() answers for
    libraryPaths,   \* Seq(Dirs), QCoreApplication::libraryPaths()
    life,           \* [Plugins -> number of Backend objects made so far]
    backend,        \* [Plugins -> the newest Backend object of the plugin]
    proxies,        \* the QIfProxyServiceObjects that exist
    running,        \* handles of the Backends a loader thread runs for
    posted,         \* events posted to the main thread, oldest first
    stack,          \* what the main thread is doing, innermost call first
    waiting,        \* handles whose loadServiceObject() awaits its signal
    fault           \* "none", or the illegal thing the program has done

registry == <<m_backends, m_loadedPaths, m_staticLoaded, m_interfaceNames, life>>
managerVars == <<registry, libraryPaths, backend, proxies, running, posted,
                 stack, waiting, fault>>

Resident == Objects \cup {StaticPlugins[i] : i \in DOMAIN StaticPlugins}
Handles == Plugins \X (0..MaxLives)
ListenerSet == {Listeners[i] : i \in DOMAIN Listeners}

\* A backend is a file, linked into the program once, or an object.
ASSUME PluginsAssumption ==
    /\ \A d \in Dirs : \A k \in DOMAIN Content[d] : Content[d][k] \notin Resident
    /\ \A i, j \in DOMAIN StaticPlugins : i # j => StaticPlugins[i] # StaticPlugins[j]
    /\ \A i \in DOMAIN StaticPlugins : StaticPlugins[i] \notin Objects

ASSUME PluginsThere == Plugins # {}

ASSUME ManagerAssumption ==
    /\ Content \in [Dirs -> Seq(Plugins)]
    /\ StaticPlugins \in Seq(Plugins)
    /\ Listeners \in Seq(ListenerSet)
    /\ Objects \subseteq Plugins
    /\ Implements \in [Plugins -> SUBSET Interfaces]
    /\ MaxLives \in Nat
    /\ MaxTries \in Nat
    /\ MaxDepth \in Nat

-----------------------------------------------------------------------------
(* Handles, the objects behind them, and frames *)

\* struct Backend as `new Backend` leaves it; registerStaticBackend() and
\* registerBackend(QObject*) set the interface at once.
NewBackend(p) ==
    [interface |-> p \in Resident, proxy |-> 0, made |-> 0, tries |-> 0,
     loading |-> FALSE, thread |-> FALSE]

Registered == {m_backends[i] : i \in DOMAIN m_backends}
HandleOf(p) == <<p, life[p]>>
ProxyOf(p) == <<p, life[p], backend[p].proxy>>

\* verifyHandle(): the Backend the handle names is still in the list.
IsValid(h) == h[1] \in Registered /\ h[2] = life[h[1]]

\* QIfServiceObjectHandle::isLoaded()
IsLoaded(h) == IsValid(h) /\ backend[h[1]].proxy # 0

Frame(op, h, to, match) == [op |-> op, h |-> h, to |-> to, match |-> match]
Nowhere == <<CHOOSE p \in Plugins : TRUE, 0>>
CreateFrame(h) == Frame("create", h, <<>>, {})
RegisterFrames(ps) == [i \in DOMAIN ps |-> Frame("register", <<ps[i], 0>>, <<>>, {})]
SearchFrame == Frame("search", Nowhere, <<>>, {})
Emission(h) == Frame("emit", h, Listeners, {})

Top(op) == fault = "none" /\ stack # <<>> /\ Head(stack).op = op

\* The application runs when nothing is on the stack, or from within the
\* processEvents() of a synchronous load (frame "spin").
AtEventLoop == fault = "none" /\ (stack # <<>> => Head(stack).op = "spin")
MayCall(call) == AtEventLoop /\ call \in UserCalls /\ Len(stack) < MaxDepth

-----------------------------------------------------------------------------
(* Searching and registering *)

\* searchPlugins(): the files of every directory of the library path not yet
\* in m_loadedPaths, then the static plugins once.
NewDirs == {i \in DOMAIN libraryPaths : libraryPaths[i] \notin m_loadedPaths}

SearchPlugins ==
    /\ Top("search")
    /\ \/ /\ \E i \in NewDirs :
             /\ \A j \in NewDirs : i <= j
             /\ m_loadedPaths' = m_loadedPaths \cup {libraryPaths[i]}
             /\ stack' = RegisterFrames(Content[libraryPaths[i]]) \o stack
          /\ UNCHANGED m_staticLoaded
       \/ /\ NewDirs = {}
          /\ m_staticLoaded' = TRUE
          /\ stack' = (IF m_staticLoaded THEN <<>>
                       ELSE RegisterFrames(StaticPlugins)) \o Tail(stack)
          /\ UNCHANGED m_loadedPaths
    /\ UNCHANGED <<m_backends, m_interfaceNames, life, libraryPaths, backend,
                   proxies, running, posted, waiting, fault>>

\* addBackend(): the first registered file of the same class name and base
\* name decides.  (The code compares the new backend's interfaces with
\* themselves, so the interfaces never tell two backends apart.)
SamePlugin(p, q) == q \notin Resident /\ Name[p] = Name[q] /\ Base[p] = Base[q]
Rivals(p) == {i \in DOMAIN m_backends : p \notin Resident /\ SamePlugin(p, m_backends[i])}
FirstRival(p) == CHOOSE i \in Rivals(p) : \A j \in Rivals(p) : i <= j

\* Mutant: the newcomer always wins, whatever its configuration.
ReplacedAlways(p) == Rivals(p) # {} /\ m_backends[FirstRival(p)] # p

IsReplaced(p) ==
    /\ Rivals(p) # {}
    /\ m_backends[FirstRival(p)] # p
    /\ (m_backends[FirstRival(p)] \in DebugBuild) # LoadDebug
IsSkipped(p) == Rivals(p) # {} /\ ~IsReplaced(p)

\* Backend::~Backend() for the Backends of ps: the interface and the current
\* proxy go; a proxy made earlier for the same Backend does not.
Deleted(ps) == {ProxyOf(p) : p \in ps}

AddBackend ==
    /\ Top("register")
    /\ LET p == Head(stack).h[1]
       IN  /\ stack' = Tail(stack)
           /\ IF IsSkipped(p)
              THEN UNCHANGED <<m_backends, m_interfaceNames, life, backend, proxies>>
              ELSE /\ m_interfaceNames' = m_interfaceNames \cup Implements[p]
                   /\ life' = [life EXCEPT ![p] = @ + 1]
                   /\ backend' = [backend EXCEPT ![p] = NewBackend(p)]
                   /\ IF IsReplaced(p)
                      THEN /\ m_backends' = [m_backends EXCEPT ![FirstRival(p)] = p]
                           /\ proxies' = proxies \ Deleted({m_backends[FirstRival(p)]})
                      ELSE /\ m_backends' = Append(m_backends, p)
                           /\ UNCHANGED proxies
    /\ UNCHANGED <<m_loadedPaths, m_staticLoaded, libraryPaths, running, posted,
                   waiting, fault>>

\* registerService() -> registerBackend(QObject*): no file name, no rivals.
\* The application registers an object once.
RegisterService(p) ==
    /\ MayCall("register")
    /\ p \in Objects \ Registered
    /\ life[p] < MaxLives
    /\ stack' = RegisterFrames(<<p>>) \o stack
    /\ UNCHANGED <<registry, libraryPaths, backend, proxies,
                   running, posted, waiting, fault>>

\* QCoreApplication::addLibraryPath()
AddLibraryPath(d) ==
    /\ MayCall("path")
    /\ d \notin {libraryPaths[i] : i \in DOMAIN libraryPaths}
    /\ libraryPaths' = <<d>> \o libraryPaths
    /\ UNCHANGED <<registry, backend, proxies, running, posted,
                   stack, waiting, fault>>

-----------------------------------------------------------------------------
(* Finding *)

\* The backends whose metadata names the interface and has a wanted kind.
Matching(iface, flags) ==
    {p \in Plugins : /\ iface \in Implements[p]
                     /\ \/ p \in Simulation /\ "simulation" \in flags
                        \/ p \notin Simulation /\ "production" \in flags}

\* findServiceByInterface(): each wildcard of preferred stands for the set of
\* backends it matches; the first that matches a found one decides.
Found(match, preferred) ==
    LET found == Chosen(m_backends, match)
        Pick(w) == Chosen(found, preferred[w])
        hits == {w \in DOMAIN preferred : Pick(w) # <<>>}
    IN  IF hits = {} THEN found
        ELSE Pick(CHOOSE w \in hits : \A v \in hits : w <= v)

\* The public findServiceByInterface(): search, then create what was found.
FindServiceByInterface(iface, flags) ==
    /\ MayCall("find")
    /\ stack' = <<SearchFrame,
                  Frame("createAll", Nowhere, <<>>, Matching(iface, flags))>> \o stack
    /\ UNCHANGED <<registry, libraryPaths, backend, proxies,
                   running, posted, waiting, fault>>

\* createServiceObject() of one handle after the other
Creations(handles) ==
    IF handles = <<>> THEN <<>>
    ELSE <<CreateFrame(Head(handles))>> \o
         (IF Tail(handles) = <<>> THEN <<>>
          ELSE <<Frame("createEach", Nowhere, Tail(handles), {})>>)

CreateAll ==
    /\ Top("createAll")
    /\ LET found == Found(Head(stack).match, <<>>)
           handles == [i \in DOMAIN found |-> HandleOf(found[i])]
       IN  stack' = Creations(handles) \o Tail(stack)
    /\ UNCHANGED <<registry, libraryPaths, backend, proxies,
                   running, posted, waiting, fault>>

CreateEach ==
    /\ Top("createEach")
    /\ stack' = Creations(Head(stack).to) \o Tail(stack)
    /\ UNCHANGED <<registry, libraryPaths, backend, proxies,
                   running, posted, waiting, fault>>

-----------------------------------------------------------------------------
(* Creating and loading *)

\* createServiceObject() up to the wait: a Backend that is being loaded by a
\* thread is waited for, and the code asserts that there is a thread.
WaitForLoad ==
    /\ Top("create")
    /\ IsValid(Head(stack).h)
    /\ backend[Head(stack).h[1]].loading
    /\ IF backend[Head(stack).h[1]].thread
       THEN /\ stack' = <<Frame("wait", Head(stack).h, <<>>, {})>> \o Tail(stack)
            /\ UNCHANGED fault
       ELSE /\ fault' = "no thread to wait for"
            /\ UNCHANGED stack
    /\ UNCHANGED <<registry, libraryPaths, backend, proxies,
                   running, posted, waiting>>

\* thread->wait() returns; the nested event loop starts.
ThreadJoined ==
    /\ Top("wait")
    /\ Head(stack).h \notin running
    /\ stack' = <<Frame("spin", Head(stack).h, <<>>, {})>> \o Tail(stack)
    /\ UNCHANGED <<registry, libraryPaths, backend, proxies,
                   running, posted, waiting, fault>>

\* while (backend->loading) is over.
SpinDone ==
    /\ Top("spin")
    /\ IsValid(Head(stack).h)
    /\ ~backend[Head(stack).h[1]].loading
    /\ stack' = <<CreateFrame(Head(stack).h)>> \o Tail(stack)
    /\ UNCHANGED <<registry, libraryPaths, backend, proxies,
                   running, posted, waiting, fault>>

\* The proxy of a Backend whose interface is there.  (Its registration with the
\* configuration manager, addServiceObject(), is left out: the manager's list
\* holds QPointers, which become null with the object, see Configuration.)
WithProxy(b) == [b EXCEPT !.proxy = b.made + 1, !.made = b.made + 1]
AddProxies(ps) ==
    proxies' = proxies \cup {<<p, life[p], backend'[p].proxy>> :
                               p \in {q \in ps : backend'[q].proxy # 0}}

\* The Backend after `if (!backend->proxyServiceObject)`, where interface says
\* whether there is an interface now.
ProxyMadeOnce(b, interface) ==
    IF b.proxy = 0 /\ interface
    THEN WithProxy([b EXCEPT !.interface = TRUE]) ELSE b

\* createServiceObject(): load in the main thread if need be, make the proxy
\* once.
CreateServiceObject ==
    /\ Top("create")
    /\ IsValid(Head(stack).h)
    /\ LET p == Head(stack).h[1]
           b == backend[p]
       IN  /\ ~b.loading
           /\ backend' = [backend EXCEPT ![p] =
                            ProxyMadeOnce(b, b.interface \/ p \in Loadable)]
           /\ AddProxies({p})
    /\ stack' = Tail(stack)
    /\ UNCHANGED <<registry, libraryPaths, running, posted, waiting, fault>>

\* The caller of createServiceObject(), or its loop, uses a Backend that was
\* deleted while it waited.
UseDeletedBackend ==
    /\ Top("create") \/ Top("spin")
    /\ ~IsValid(Head(stack).h)
    /\ fault' = "deleted backend"
    /\ UNCHANGED <<registry, libraryPaths, backend, proxies,
                   running, posted, stack, waiting>>

\* data(ServiceObjectRole) of a row of the model.
ReadServiceObjectRole(p) ==
    /\ MayCall("data")
    /\ p \in Registered
    /\ stack' = <<CreateFrame(HandleOf(p))>> \o stack
    /\ UNCHANGED <<registry, libraryPaths, backend, proxies,
                   running, posted, waiting, fault>>

\* Mutant: a load under way is not noticed.
NeverUnderWay(b) == FALSE

LoadUnderWay(b) == b.loading

\* loadServiceBackendInterfaceAsync(): nothing if it is already loading; a
\* loaded interface is announced from the event queue, without a thread.
BeginAsyncLoad(p) ==
    LET b == backend[p]
    IN  IF LoadUnderWay(b) THEN UNCHANGED <<backend, running, posted>>
        ELSE IF b.interface
        THEN /\ backend' = [backend EXCEPT ![p] = [b EXCEPT !.loading = TRUE,
                                                          !.tries = @ + 1]]
             /\ posted' = Append(posted, [h |-> HandleOf(p), interface |-> TRUE])
             /\ UNCHANGED running
        ELSE /\ backend' = [backend EXCEPT ![p] = [b EXCEPT !.loading = TRUE,
                                                          !.thread = TRUE,
                                                          !.tries = @ + 1]]
             /\ running' = running \cup {HandleOf(p)}
             /\ UNCHANGED posted

CreateThenEmit(h) == <<CreateFrame(h), Emission(h)>>

\* loadServiceObject() of a handle: frames is what the caller still has to do.
LoadServiceObject(h, async, frames) ==
    /\ waiting' = waiting \cup {h}
    /\ IF ~IsValid(h)
       THEN /\ stack' = frames
            /\ UNCHANGED <<backend, running, posted>>
       ELSE IF async
       THEN /\ stack' = frames
            /\ BeginAsyncLoad(h[1])
       ELSE /\ stack' = CreateThenEmit(h) \o frames
            /\ UNCHANGED <<backend, running, posted>>

\* The application loads a handle it once got.  Loading a backend again that
\* has its service object already is a call of its own ("reload").
UserLoad(h, async) ==
    /\ MayCall(IF IsLoaded(h) /\ async THEN "reload" ELSE "load")
    /\ h[2] \in 1..life[h[1]]
    /\ async /\ IsValid(h) => backend[h[1]].tries < MaxTries
    /\ ~IsValid(h) => "stale" \in UserCalls
    /\ LoadServiceObject(h, async, stack)
    /\ UNCHANGED <<registry, libraryPaths, proxies, fault>>

-----------------------------------------------------------------------------
(* The loader thread and the event it posts *)

Posts(h) == <<[h |-> h, interface |-> h[1] \in Loadable]>>

\* The thread has run loadPlugin() and posts the result to the main thread.
ThreadLoads(h) ==
    /\ fault = "none"
    /\ h \in running
    /\ running' = running \ {h}
    /\ posted' = posted \o Posts(h)
    /\ UNCHANGED <<registry, libraryPaths, backend, proxies, stack,
                   waiting, fault>>

ThreadHasReported(p) == ~backend[p].loading

\* The finished thread object is deleted some time after its event was handled.
ThreadDeleted(p) ==
    /\ AtEventLoop
    /\ backend[p].thread
    /\ ThreadHasReported(p)
    /\ backend' = [backend EXCEPT ![p].thread = FALSE]
    /\ UNCHANGED <<registry, libraryPaths, proxies, running, posted,
                   stack, waiting, fault>>

\* ~Backend() deletes a thread that still runs: QThread aborts the program.
RunningThreadDeleted(h) ==
    /\ AtEventLoop
    /\ h \in running
    /\ ~IsValid(h)
    /\ fault' = "running thread deleted"
    /\ UNCHANGED <<registry, libraryPaths, backend, proxies,
                   running, posted, stack, waiting>>

\* Mutant: only a successful load is announced.
SignalOnSuccess(h, interface) == IF interface THEN <<Emission(h)>> ELSE <<>>

Signal(h, interface) == <<Emission(h)>>

\* The posted lambda and emitServiceObjectLoaded(): a new proxy whenever the
\* interface is there, then the signal.
HandlePosted ==
    /\ AtEventLoop
    /\ posted # <<>>
    /\ LET h == Head(posted).h
           b == [backend[h[1]] EXCEPT !.loading = FALSE,
                                      !.interface = Head(posted).interface]
       IN  IF IsValid(h)
           THEN /\ backend' = [backend EXCEPT ![h[1]] =
                                 IF b.interface THEN WithProxy(b) ELSE b]
                /\ AddProxies({h[1]})
                /\ stack' = Signal(h, b.interface) \o stack
                /\ UNCHANGED fault
           ELSE /\ fault' = "deleted backend"
                /\ UNCHANGED <<backend, proxies, stack>>
    /\ posted' = Tail(posted)
    /\ UNCHANGED <<registry, libraryPaths, running, waiting>>

\* One receiver of serviceObjectLoaded after the other; a receiver that is a
\* feature is the frame "notify", which module AbstractFeature runs.
EmitServiceObjectLoaded ==
    /\ Top("emit")
    /\ LET e == Head(stack)
       IN  /\ waiting' = waiting \ {e.h}
           /\ stack' = IF e.to = <<>> THEN Tail(stack)
                       ELSE <<Frame("notify", e.h, <<Head(e.to)>>, {}),
                              Frame("emit", e.h, Tail(e.to), {})>> \o Tail(stack)
    /\ UNCHANGED <<registry, libraryPaths, backend, proxies,
                   running, posted, fault>>

-----------------------------------------------------------------------------
(* Unloading *)

\* Mutant: the directories count as searched although their backends are gone.
StillSearched == m_loadedPaths

NotSearched == {}

UnloadAllBackends ==
    /\ MayCall("unload")
    /\ \A p \in Plugins : life[p] < MaxLives
    /\ proxies' = proxies \ Deleted(Registered)
    /\ m_backends' = <<>>
    /\ m_interfaceNames' = {}
    /\ m_loadedPaths' = NotSearched
    /\ m_staticLoaded' = FALSE
    /\ UNCHANGED <<life, libraryPaths, backend, running, posted, stack, waiting,
                   fault>>

-----------------------------------------------------------------------------
(* The constructor searches the plugins, on the library path the program    *)
(* has by then.                                                             *)
ManagerInit ==
    /\ m_backends = <<>>
    /\ m_loadedPaths = {}
    /\ m_staticLoaded = FALSE
    /\ m_interfaceNames = {}
    /\ libraryPaths \in {<<>>} \cup {<<d>> : d \in Dirs}
    /\ life = [p \in Plugins |-> 0]
    /\ backend = [p \in Plugins |-> NewBackend(p)]
    /\ proxies = {}
    /\ running = {}
    /\ posted = <<>>
    /\ stack = <<SearchFrame>>
    /\ waiting = {}
    /\ fault = "none"

\* Steps of the manager that no object outside the manager takes part in.
ManagerInternal ==
    \/ SearchPlugins
    \/ CreateAll
    \/ CreateEach
    \/ WaitForLoad
    \/ ThreadJoined
    \/ SpinDone
    \/ CreateServiceObject
    \/ UseDeletedBackend
    \/ EmitServiceObjectLoaded

ManagerCalls ==
    \/ \E p \in Plugins : RegisterService(p) \/ ReadServiceObjectRole(p)
    \/ \E d \in Dirs : AddLibraryPath(d)
    \/ \E i \in Interfaces, flags \in (SUBSET {"production", "simulation"}) \ {{}} :
          FindServiceByInterface(i, flags)
    \/ \E h \in Handles, async \in BOOLEAN : UserLoad(h, async)

\* Steps that delete service objects: the features bound to them notice.
ManagerDeletes == AddBackend \/ UnloadAllBackends

Threads ==
    \/ \E h \in Handles : ThreadLoads(h) \/ RunningThreadDeleted(h)
    \/ \E p \in Plugins : ThreadDeleted(p)

ManagerNext ==
    ManagerInternal \/ ManagerCalls \/ ManagerDeletes \/ Threads \/ HandlePosted

\* The main thread runs on; a loader thread ends (loadPlugin() returns); the
\* event loop comes back to the posted events in order however often the
\* application's own calls run in between.
ManagerFairness ==
    /\ WF_managerVars(ManagerInternal \/ AddBackend)
    /\ SF_managerVars(HandlePosted)
    /\ SF_managerVars(SpinDone)
    /\ \A h \in Handles : WF_managerVars(ThreadLoads(h))

ManagerSpec == ManagerInit /\ [][ManagerNext]_managerVars /\ ManagerFairness

-----------------------------------------------------------------------------
(* Properties *)

Events == [h : Plugins \X Nat, interface : BOOLEAN]
Ops == {"search", "register", "create", "createAll", "createEach", "wait", "spin",
        "emit", "notify", "discover", "choose", "load"}
Faults == {"none", "no thread to wait for", "deleted backend",
           "running thread deleted"}

\* Every variable has its type.
ManagerTypeOK ==
    /\ m_backends \in Seq(Plugins)
    /\ m_loadedPaths \subseteq Dirs
    /\ m_staticLoaded \in BOOLEAN
    /\ m_interfaceNames \subseteq Interfaces
    /\ libraryPaths \in Seq(Dirs)
    /\ life \in [Plugins -> Nat]
    /\ backend \in [Plugins -> [interface : BOOLEAN, proxy : Nat, made : Nat,
                                tries : Nat, loading : BOOLEAN, thread : BOOLEAN]]
    /\ proxies \subseteq Plugins \X Nat \X Nat
    /\ running \subseteq Plugins \X Nat
    /\ posted \in Seq(Events)
    /\ stack \in Seq([op : Ops, h : Plugins \X Nat, to : Seq(ListenerSet \cup (Plugins \X Nat)),
                      match : SUBSET Plugins])
    /\ waiting \subseteq Plugins \X Nat
    /\ fault \in Faults

\* A Backend marked as loading has exactly one completion on its way, a thread
\* that still runs or an event that is posted; any other Backend has none.
\* (The nested loop of createServiceObject() waits for that one event, and a
\* second one would make a second service object.)
Completions(h) ==
    Cardinality({i \in DOMAIN posted : posted[i].h = h}) +
    (IF h \in running THEN 1 ELSE 0)
OneCompletion ==
    \A p \in Registered :
        Completions(HandleOf(p)) = (IF backend[p].loading THEN 1 ELSE 0)

\* When serviceObjectLoaded(handle) is emitted the loading is over, and the
\* handle has a service object exactly if the backend can be loaded.
SignalIsHonest ==
    (Top("emit") /\ Head(stack).to = Listeners /\ IsValid(Head(stack).h)) =>
        LET p == Head(stack).h[1]
        IN  /\ ~backend[p].loading
            /\ backend[p].proxy # 0 <=> p \in Loadable \cup Resident

\* The application, which gets the service object from the handle, from the
\* model and from findServiceByInterface(), always gets the same one.
OneServiceObject ==
    \A x, y \in proxies : x[1] = y[1] /\ x[2] = y[2] => x = y

\* hasInterface() answers for the interfaces of the registered backends and for
\* no others, whatever was replaced and unloaded; and for every interface a
\* searched directory offers, so that an unloaded one is found again.
InterfacesAreKnown ==
    /\ m_interfaceNames = UNION {Implements[p] : p \in Registered}
    /\ ~Top("register") =>
          \A d \in m_loadedPaths : \A k \in DOMAIN Content[d] :
             Implements[Content[d][k]] \subseteq m_interfaceNames

\* The same plugin is never in the list in two configurations, and the one of
\* this build is used as soon as a search has seen it.
OneConfiguration ==
    /\ \A i, j \in DOMAIN m_backends :
          i # j => /\ m_backends[i] # m_backends[j]
                   /\ m_backends[i] \notin Resident =>
                        ~SamePlugin(m_backends[i], m_backends[j])
    /\ ~Top("register") =>
          \A d \in m_loadedPaths : \A k \in DOMAIN Content[d] :
             \A p \in Registered \ Resident :
                ( /\ SamePlugin(Content[d][k], p)
                  /\ (Content[d][k] \in DebugBuild) = LoadDebug )
                => (p \in DebugBuild) = LoadDebug

\* createServiceObject() waits for a load only if there is a thread to wait for
\* (Q_ASSERT(backend->thread)).
WaitsForAThread == fault # "no thread to wait for"

\* However loads of a backend meet, by the thread, the model and the nested event
\* loop of createServiceObject() (qifservicemanager.cpp:107-146, 445-532): it has
\* one completion on its way, that is waited for only where there is a thread, that
\* tells the truth and leaves one service object.
LoadsAreRight == OneCompletion /\ SignalIsHonest /\ OneServiceObject /\ WaitsForAThread

\* The signal serviceObjectLoaded follows every loadServiceObject().
LoadIsAnswered ==
    \A h \in Handles : h \in waiting ~> h \notin waiting

\* A synchronous call returns to the event loop, also when it has to wait for
\* an asynchronous load in a nested one.
CallsReturn == (stack # <<>>) ~> (stack = <<>>)

\* Every load ends, for the one who waits for its signal and for the one who waits
\* for its return.
EveryLoadEnds == LoadIsAnswered /\ CallsReturn
=============================================================================
