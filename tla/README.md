# Qt Interface Framework: specifications

TLA+ modules of the run-time library of Qt Interface Framework
(`src/src/interfaceframework` and `src/src/helper/remoteobjects`), TLC
configurations that check them on small instances, and TLAPS proofs of theorems
about them. Paths below are relative to `src/src/interfaceframework` where they
name a file only.

## The system

A *feature* (`QIfAbstractFeature`) is the API an application uses. Its
implementation is a *backend* in a plugin. `QIfServiceManager` finds plugins,
loads them and wraps each in a *service object*; a feature discovers a service
object and talks to it. Calls come back through *pending replies*; lists come
from *paging models* that fetch a chunk of rows at a time, and are filtered and
browsed by *queries*. A *configuration* sets features and service objects of a
group up. Backends may live in the same process, in a QML simulation, or behind
Qt Remote Objects.

Everything runs in the main thread except the loading of a plugin file. The
hard part is therefore not shared memory but re-entrancy (signals, callbacks,
nested event loops) and order (what arrives late, what was reset meanwhile).

| Component | State | Operations | Interacts with | What makes it correct | Modules |
| --- | --- | --- | --- | --- | --- |
| Service manager `qifservicemanager.cpp` | the backends with their loader thread, proxy and flags; what was searched | search, register, find, load now or in a thread, read the model, unload | features by `serviceObjectLoaded`, configuration manager, threads | one completion per load, one service object per backend, every load answered, one build of a plugin, the known interfaces those of the list | `ServiceManager` |
| Abstract feature `qifabstractfeature.cpp` | service object, discovery mode and result, candidates and index, initialized and connected flags | set service object, discover, fall back, initialize, lose the service object | manager, service object, backend interface | nothing deleted is kept, each search ends, with the best usable backend | `AbstractFeature` |
| Zoned feature `qifabstractzonedfeature.cpp` | a child feature per zone | `initializeZones()`, `setZone()` | feature, zoned backend | each zone of the backend has a child, each child the service object of its parent | `ZonedFeature` |
| Pending reply `qifpendingreply.*` | result, functors, connections | set success or failure, `then()` in C++ and in scripts, delivery | slots and callbacks, which call it again | resolved once, everybody told once and truthfully | `PendingReply`, `Promise` |
| Paging model `qifpagingmodel.cpp` | rows, marks of the chunks, count fetched, identifier, settings | `data()`, `fetchMore()`, `reload()`, settings, service object, the backend's five signals | view, application, backend | rows in place, all shown, none twice; fetches only once registered | `PagingModel` |
| Filter and browse model `qiffilterandbrowsemodel.cpp` | query and its term, content type asked for and shown, what can be entered | `setQuery()`, `setContentType()`, `goForward()`, `goBack()`, service object, destruction | paging model, query parser, pending replies | what is shown is what was asked for last, through the filter of the query | `FilterAndBrowse` |
| Query parser `queryparser/` | symbols, terms, operators, conjunctions | shift, reduce, send, receive | filter and browse model, remote objects | precedence and negation as written; only identifiers that are allowed | `QueryParser`, `QueryMeaning` |
| Configuration `qifconfiguration.cpp` | settings per group, what the environment overrides, members, configurations by name | reading, setters, joining and leaving, QML creation | features, service objects, slots of the application | members agree with their group; overrides stand; names give configurations that exist | `Configuration` |
| Remote objects helpers `../helper/remoteobjects` | replies by number, state of the connection | call, result now or later, connect, lose, restart | pending replies, `QtRemoteObjects` | a result reaches its own reply; a lost connection is reported | `RemoteReply`, `RemoteCalls` |
| Generated remote backend and its server `../tools/ifcodegen/templates` (`backend_qtro`, `server_qtro_simulator`, `common/backend_simulation`) | zones and the value of each property of each, what is still to be read, `m_synced` | read the zones and then the values, hear of changes, set, connect again | features, the helpers, the simulation in the server | initialized when all is read over this connection, which happens; then it has what the server has | `RemoteZones` |
| List model feature `qifabstractfeaturelistmodel.cpp` | a helper feature | forwards | feature | the feature's | not modelled |
| Simulation `qifsimulation*.cpp` | QML engine, recursion guard, list of QML objects, domains of properties | call, emit, read, write, check against a domain | QML, slots of the frontend | the guard stops recursion only; values stay in their domain | `Simulation` (calls and signals) |
| Items, conversions, module registration | none | | | | not modelled |
| Code generator and templates `../tools/ifcodegen` | none at run time | writes text | | backends of the templates keep the promises of the interface | the simulation of a paging model in `PagingModel`, the operations of a remote backend in `RemoteReply` |

`PROJECT.json` lists the hazards of this code line by line under `hazards`, with
the properties that cover each and a note on what is left.

## The modules

Operators marked *Mutant* are not part of a specification: each is a plausible
bug in the definition that follows it, listed under `mutants` in `PROJECT.json`
with the property that TLC finds violated when it takes that definition's place.

### ServiceManager

The main thread is an event loop, and what it is in the middle of is `stack`: a
sequence of frames, innermost first. Each call that may run foreign code is a
frame, so the model can interleave what really interleaves: the receivers of
`serviceObjectLoaded`, the creation of one service object after the other in
`findServiceByInterface()`, and, in the frame `spin`, everything that runs in
the `processEvents()` of a synchronous load that waits for an asynchronous one.
Loader threads are `running`, events posted to the main thread `posted`. A
`Backend` object is named by its plugin and a number (`life`), since a plugin
can be unloaded and found again: a handle that names an old life is stale.

`AddBackend` is `addBackend()` with its replacement of debug by release builds;
`LoadServiceObject`, `BeginAsyncLoad`, `ThreadLoads`, `HandlePosted` and
`ThreadDeleted` are the steps of a load; `WaitForLoad`, `ThreadJoined`,
`SpinDone` and `CreateServiceObject` those of `createServiceObject()`;
`UnloadAllBackends` is the call of that name. `m_interfaceNames` is the set behind
`hasInterface()`, which `addBackend()` fills beside the list. The configuration manager,
to which a loaded proxy is given, is not part of this module: its list holds `QPointer`s
(`qifconfiguration_p.h:54`), which are null once the proxy is deleted and are skipped
(`qifconfiguration.cpp:270-272`), so a replacement or an unload leaves nothing in it that
a setting could reach; `Configuration` models that list and the nulling. `fault` says what illegal thing
the program has done (waited without a thread, used a deleted backend, deleted a
running thread) and stops the model.
`PluginsAssumption` says what a backend is: a
file of a directory, a plugin linked into the program once, or an object;
`PluginsThere` that there is any. `Selection` has the loops that keep some of the
entries of a list in their order: what `findServiceByInterface()` finds, and what
`removeAll()` leaves in `Configuration`.

### AbstractFeature (composes with ServiceManager)

Extends `ServiceManager`: features are the receivers of `serviceObjectLoaded`,
and their calls are frames on the same stack. `Discover`, `ChooseHandles` and
`LoadCurrentHandle` are the parts of `loadServiceObject()`, which searches,
takes the handles and starts to load; `OnServiceObjectLoaded` is the handler,
with its next candidate, its fall back to simulation backends and its end.
`SetServiceObject` contains the whole chain of `setServiceObject()`: accepting,
disconnecting from the old object, connecting to the new one, watching its
destruction. `ServiceObjectsDestroyed` composes with `UnloadAllBackends`: the
deletion of the proxies and `serviceObjectDestroyed()` in each feature are one
step.

### ZonedFeature (composes with AbstractFeature)

Adds the children of a feature to `AbstractFeature`. Each step of that module is
taken together with `ZonesFollowStep`, which says what the overridden
`connectToServiceObject()` and `clearServiceObject()` make of the children,
wherever the feature calls them (`Connects`, `Clears`). The backend may change
its zones at any time (`AvailableZonesChanged`), which a feature hears while it is
connected. A child is its zone and the copy of the service object it got when
it was made.

### PendingReply and Promise

`setSuccess()` emits `valueChanged`, then `replySuccess`, then calls the
script's functor, and each of these runs code that may call the reply again.
`stack` holds what is left of the deliveries under way. `Callbacks` are the
calls of `then()`: some by C++, which checks the result and calls or connects,
some by scripts, whose functors the watcher stores. `Promise` is the abstract
specification: a result that is set once and does not change, and callers that
are told at most once and never before. `ImplementsPromise` is the refinement,
with the C++ callers as `Callbacks` and the result of the watcher as `outcome`.
A receiver of a signal is called in any order: a superset of Qt's order of
connection. `m_type` is the kind of the reply's type. `Converted` is what the untyped
`setSuccess()` makes of a value: converted if it can be, and then compared with the type
unless this is an enum or a flag (`Accepts`, `qifpendingreply.cpp:464-480`). `Held` is
what a successful reply can hold as a result.

### PagingModel

Rows and marks are what a handler makes of them: `Counted`, `Fetched`,
`Edited`, `FetchData`, `Reset` map a record of rows to the next, including what
the handler sends (`sent`) and whether an assertion or an index out of range
ends the program (`bad`). This allows a step to chain handlers as the code does:
`Answer` is capabilities, count and data, in the order in which a backend
emits them; `InsertRow` is the data and then the count. A backend answers late
and in order, as behind Qt Remote Objects; a backend that answers within
`fetchData()`, as the tests' does, is the behaviour in which `Answer` follows
immediately. `NewIdentifier` numbers the `QUuid`s.

### FilterAndBrowse

`Models` are the models of an application, the second of which `goForward()`
makes in its navigation out of the model. The backend takes a call at once and
tells the model later: `events` are the signals on their way to a model, in
order, and `replies` the navigations that are not answered yet. Terms are
objects: `heap` says which query each holds, or that it is freed, so that a
backend can hold a term that is gone. `Deliver` contains the chain that hangs on
`onContentTypeChanged()`: the query is parsed, the backend told, the old term
deleted, the rows reset and the first page fetched. `asked` is a history
variable, what a user expects to see. Here a page is answered within
`fetchData()`; late pages are `PagingModel`'s subject.

### QueryParser and QueryMeaning

`QueryParser` is the generated `parse()` with the actions of the grammar, and the
stream operators of the terms. A state of the automaton is given by the symbols
under it, so `MayShift` and the forms of the rules stand for the tables. Tokens
come one by one, so the model reads every query there is; `ParseAgain` gives the
same parser another, with what the last one has left on the stacks that
`parse()` does not clear. A term is the sequence of its nodes as a walk from the left
meets them, each with the number of terms that belong to it (`Within`): this is the
order in which `operator<<` writes them, it needs no recursive operator, and
`handleConjunction()`, which takes the terms of one conjunction into another, joins two
sequences. `operator>>` calls itself for each of these terms; `Read` counts how many
are still to come. The left-most term is the first node that is no conjunction.

`QueryMeaning` says what a query means without terms: `Says` evaluates its tokens for a
row, one by one from the end, since an operator has everything up to the end of its
parentheses on its right and `!` is about no more than what follows it (`Heard`); and
`MeansWhatItSays` compares this with `Matches`, the evaluation of the nodes, for
every set of filters that may hold of a row.

### Configuration

A call of a setter goes through the members of its group one at a time
(`ApplyNext`), a member that joins gets the settings one at a time (`AddNext`), and
`componentComplete()` of a QML configuration copies them one at a time
(`CopyNext`). Each change of a value emits a signal in whose slot the application
may call again: `stack` holds these rounds and the slots above them. The settings
file and the environment are read at the start (`ReadInitialSettings`), with the
malformed value that ends the reading. `ClassBegin` and `ComponentComplete` are
those of the features, `ConfigurationClassBegin` and `ConfigurationComplete` those
of configurations. A round of `serviceSettings` needs two service objects to go
wrong, which the run has: a value that is set in the slot of the first would be
overwritten by the outer call at the second.

### RemoteReply and RemoteCalls

`Serve` is a slot of the source's adapter: it has the value at once, fails, or
numbers the result (`m_replyCounter` is the length of `issued`); `Finish` signals
the result of a number to every replica that is connected; `Receive` is the end of
a call or the signal, at the replica, which keeps who waits under which number
(`waiting`). `packets` and `requests` are in order and lost when the connection is
(`Cut`). `SourceRestarts` is a crash of the server, `UpdateServiceSettings` a
change of the URL, `Connect` and `ConnectionLost` what Qt Remote Objects reports to
`onReplicaStateChanged()`.

`RemoteCalls` is the abstract specification, what a caller may rely on: a call fails at
once or is pending, and what is pending is answered once, with the result of this call or
with a failure, or never. It knows no numbers, packets or servers. `ImplementsCalls`
is the refinement, with the same `result`. `Resolve` sets a reply without asking
whether it has a result already, which `setSuccess()` and `setFailed()` refuse
(`PendingReply`): the refinement shows that this never happens here.

### RemoteZones (composes with RemoteReply)

The generated backend of a zoned interface behind Qt Remote Objects, and the server
that serves a simulation of it. It adds to the connections and calls of `RemoteReply`
what is under way for zones and properties: `asks` to the source, `inbox` to the
replica, each in order and dropped with the connection. `client` is the backend: the
zones the server has told (`m_zones`), the zone objects (`known`, which only grow,
`m_zoneMap`), their values, what is to be read (`m_propertiesToSync`) and `m_synced`;
with what its feature shows and whether that waits for `initializationDone()`. `Hear`
is the answer to `availableZones()`, whose zones begin to `sync()`, the answer of a
getter with `checkSync()` and `onZoneSyncDone()`, or a changed signal. `ServeAsk` are
the slots of the adapter. The getters that zones call have no order among each other,
so `ServeValue` takes any of them. Each step of a connection is one of `RemoteReply`
and what it makes of the zones; `CallSteps` leaves them alone. `read` is a history
variable: what was answered over this connection.

### Simulation

A function of the C++ instance asks the QML objects that declare it before its own
code runs, and QML calls functions, writes properties and emits signals of the
instance. All of it is on one thread, so the state is the `stack` of what is under way:
functions of the instance (`cpp`, with the `RecursionGuard` on their C++ frame: what it
has `saved`, and whether it `prevented` the call of QML), QML functions, emissions,
handlers, slots of the frontend and scripts of timers. `Enter` is
`QIF_SIMULATION_TRY_CALL_FUNC()`, whose `GuardAfter` is `trySet()` and
`saveAndRelease()`, and `Restored` is `~RecursionGuard()`. `AskAll` are the functions
whose code does not return after a QML function has run, so that the next object is
asked too. `Deliver` and `EmitFromQml` are the two sides of `qt_metacall()` for signals.

## Assumptions

Some of these components have flaws that a program around them must avoid. They
are not modelled away; each is behind a constant, and a guard of the action it
is about.

| Constant | What is assumed | Without it |
| --- | --- | --- |
| `PagingModel!Assumed` `"resets"` | `reload()`, `setLoadingType()` and a fetch by the view come once the model is initialized and, for the first two, waits for no answer; the chunk size changes while the model is empty; one service object directly replaces another only while the model is empty, of the default loading type | rows come twice (`qifpagingmodel.cpp:92`); a backend that the model has not registered with is asked for rows (679) |
| `PagingModel!Assumed` `"edits"` | a backend inserts, removes and moves rows when the model shows all | the next fetch starts at the wrong row (105) |
| `PagingModel!Assumed` `"counts"` | a backend that announces new rows by their count alone does so before the model is initialized | a count that goes from n to n + 1 leaves 2n + 1 rows (122) |
| `RemoteReply!RestartsAnyTime = FALSE` | a server restarts, and a URL changes, only while no reply concerned waits | a reply gets another call's result: `RemoteReply_restart` |
| `RemoteZones!SwitchesAnyTime = FALSE` | the URL changes only while the backend is not synced | `connectToNode()` leaves `m_synced` set (`backend.cpp.tpl:326-347`), so the answer of the new server about its zones is not taken (196) and its values are not read |
| `RemoteZones!Props # {}` | a zoned interface has a property that is not a model | only the answer of a getter calls `checkSync()` (`backend.cpp.tpl:71`), so `initializationDone()` never comes |
| `Configuration!AbortedCreation = FALSE` | a feature neither goes nor changes its group during its QML creation, unless the group exists | `Q_ASSERT(so)` in `removeAbstractFeature()` fails (`qifconfiguration.cpp:259`): during QML creation `setConfigurationId()` remembers the group only, but it and the destructor leave it |
| `Configuration!NestedServiceSettings = FALSE` | in the slots of a round of `serviceSettings` these are set again neither by a setter nor by a QML configuration that completes (`MaySetService`) | the outer call passes its argument on after the inner one (`qifconfiguration.cpp:264-277`), so the service objects disagree with their group |
| `ZonedFeature!ReplacesDirectly = FALSE` | a zoned feature's service object is set to null before another is set | the children keep the old one (`qifabstractfeature.cpp:377`, `clearServiceObject()` is not called) |
| `Simulation!ClassBegin`, `Destroy` | QML objects come and go while no function of `AskAll` goes through the list of objects | the loop goes on over a list that has changed (`qifsimulationproxy.h:222`) |
| `FilterAndBrowse!ModelsGo = FALSE` | no model with a filter is destroyed | the backend keeps a pointer to the deleted term (`qiffilterandbrowsemodel.cpp:28`) |
| `AbstractFeature!Instanceless`, `Demanding` empty | no feature returns early from `connectToServiceObject()`, before its base implementation | it does not watch the service object it keeps (`qifabstractfeature.cpp:402`), and `BoundIsAlive` fails |
| `SameInterfaces` of the proofs, true of the run's `MCImplements` | the builds of a plugin offer the same interfaces | `addBackend()` compares the interfaces of the new backend with themselves (`qifservicemanager.cpp:375-377`), so a build that offers others still replaces the first, whose interfaces `hasInterface()` goes on naming, or is skipped, and its own are not found; `InterfacesAreKnown` fails |
| `ServiceManager!Objects`, `StaticPlugins` empty where `LoadsAreRight` is checked | no backend that needs no thread is loaded synchronously while it is loaded asynchronously | `Q_ASSERT(backend->thread)` fails (`qifservicemanager.cpp:117`) |
| `"reload"` not in `ServiceManager!UserCalls` (`NoReload` of the proofs) | the application does not load a backend asynchronously that has its service object | the load makes a second service object, and the first stays with those who have it (`qifservicemanager.cpp:452`) |
| `"unload"` not in `ServiceManager!UserCalls` and every file wanted, where `SearchIsSound` is checked (`BackendsStay` of the proofs) | backends neither go nor are replaced while features search | the load that a search waits for names a deleted backend (`qifservicemanager.cpp:486`), and nobody takes the search on |
| `AbstractFeature_discover`: one directory and no linked plugins; no `"setServiceObject"`, `"mode"`, `"preferred"` and `"register"` in `UserCalls` (`OnlySearches` of the proofs) | the application adds no backends to a search that is over, and sets neither what a feature is bound to nor how it searches while it does | a production backend that is registered after `loadServiceObject()` has asked for handles is not tried before a simulation backend (`qifabstractfeature.cpp:112`), and one that is not preferred not at all; `ProductionIsPreferred` fails |

Two things the models do contain, and the properties allow, though the documentation says
otherwise. The untyped `setSuccess()` is said to need a value of the reply's type or
convertible to it (`qifpendingreply.cpp:431`); but a reply of a flag takes a value that
does not convert, and so does one of an enum if the value's `toInt()`, 0 for what is no
number, has a key (464-475). The reply succeeds and holds the value with its own type, and
C++ callers are given a default from `value<T>()`; `Held` says so. And `availableZones` is
said to hold the zones available currently (`qifabstractzonedfeature.cpp:86-88, 294-302`);
but `initializeZones()` only adds (263-285), so a zone that the backend no longer names
keeps its child and its place in the list until the binding is cleared. `ZonesAreRight`
therefore asks for a child of every zone, and not that every child's zone be there.

Beyond these the runs contain no behaviour of the following, which the code gets
wrong: a discovery started while one waits overwrites what is searched for, and a
simulation backend is reported as `ProductionBackendLoaded`
(`qifabstractfeature.cpp:109`; no property is about the result); a `then()` that
gives a failed callback only has it called for a reply that has succeeded already
(`qifpendingreply.h:120`, against `qifpendingreply.cpp:839`; `CalledTruthfully`
excepts it); `FilterAndBrowse`'s backend informs of rows it has sent, since
`onCanGoForwardChanged()` writes past its list for others (116);
in queries, `5 == a` ends the program (`qifqueryparser.cpp:337`, the result
`aborted` of the model), an order without a filter, and two orders in brackets of
their own, are rejected though `query-language.qdoc:110-131` shows them, and the
identifiers of an order are not checked; a malformed value in a settings file drops
the overrides of the environment with what comes after it (`qifconfiguration.cpp:112`;
`OverridesHold` is stated for well-formed files).

Two things that the documentation of the simulation says do not hold, and `Simulation`
models what the code does. `Base.f()` is said to be the original
(`qifsimulationengine.cpp:176`); but `Base` is the instance, and the guard stops only the
function that QML is in (`qifsimulationproxy.h:193`), so in the QML function of `g`, in a
handler or a timer it calls the QML function. Two QML functions that call each other so
never end. And a signal that QML emits in a handler of the same signal of the instance
cannot be told from its delivery (`qifsimulationproxy.cpp:77`): it is told to the
handlers of this object, and not emitted by the instance. A second instance of one type
would share the guard and the list of the first (`qifsimulationproxy.h:145`); one is
modelled.

## The runs

| Run | Distinct states | What it checks and shows |
| --- | --- | --- |
| `ServiceManager_register` | 2.6 million | two directories with two builds of a plugin in either order, a registered object, searching, finding, reading, unloading, stale handles: `OneConfiguration` (one build is kept, this one as soon as it was seen), `InterfacesAreKnown` (`hasInterface()` answers for the interfaces of the listed backends and no others, and for all that the searched directories offer) |
| `AbstractFeature_discover` | 21 thousand | two features, one of which refuses the production backend, over a broken, a production and a simulation backend, one load waiting in a nested event loop for another: `SearchIsSound`, `ProductionIsPreferred`, and, with fairness, `DiscoveryEnds` and `EveryLoadEnds`; `LoadsAreRight` (one completion, one service object, honest signals) |
| `ZonedFeature_rebind` | 1.6 million | one feature whose settings, service object, zone and backends come and go, with loads in nested event loops, over a plugin file and a static plugin whose zones change: `ZonesAreRight` (each zone of the backend has a child, and each child, also that of a zone that is gone, the service object of the feature), `BoundIsAlive` (no deleted service object and no dead backend is kept), `InitializedMeansAttached` |
| `PendingReply_deliver` | 46 thousand | a reply of each kind of type, three C++ and two script callers, seven frames deep; untyped values that are of the type, convert, do not, and do not but have the number of a key: `TypeOK`, `CalledTruthfully`, `NobodyForgotten`, the refinement `ImplementsPromise`, and `EveryoneHears` |
| `PagingModel_view` | 160 thousand | five rows with a count and two without, in chunks of two and three: `RowsAreRight`, `MarksAreRight`, `RegistrationIsHeld`, `FetchesAreRegistered`, and `EverythingIsShown` |
| `FilterAndBrowse_browse` | 58 thousand | two models on two levels of content, three queries of which one does not parse and one is not allowed on one level: `ShowsWhatWasAsked`, `FilterIsRight`, `RowsAreRight`, and `NavigationEnds` |
| `QueryParser_meaning` | 6.8 million | every query of twelve tokens, every wrong one of five, with what is left of another: `MeansWhatItSays`, `FiltersAreAllowed`, `ArrivesAsSent` |
| `Configuration_apply` | 2.0 million | two groups, two features, two service objects, two configurations, three files, three environments: `MembersAgree`, `MembersBelong`, `OverridesHold`, `RegisteredIsUsable` |
| `Simulation_calls` | 1.0 million | three functions, one of which asks every object, a signal, two QML objects that come and go and one of another engine, eight calls deep: `OriginalIsReached` (a QML function that calls its own function of the instance reaches the original) and `CallsAreSimulated` (nothing else keeps a call from QML, and no guard is left over) |
| `RemoteReply_deliver` | 420 thousand | two programs, three calls, two servers: the refinement `ImplementsCalls` (each call is answered at most once, and with its own result) and `EveryCallIsAnswered` |
| `RemoteZones_sync` | 310 thousand | a program, two servers with one or two zones, two settings from either side, a lost connection, restart or other URL: `SyncedIsRead` (a feature is initialized with the zones of this server, all of whose properties were read), `ShowsTheServer` (and then it has the server's values, as soon as nothing is on its way), and `SyncEnds` |
| `RemoteReply_restart` | 76 thousand until it stops | refutes `ResultIsItsOwn` when a server restarts while a reply waits |

The type invariants of `PendingReply` and `QueryParser` are properties of their runs; in
`SearchIsSound`, `MembersBelong` and the `RowsAreRight` of `FilterAndBrowse` the type is
the first conjunct. Those of the other modules are proved, or part of the invariants that
are.

The refutation is the finding in `PROJECT.json`: *a restarted server answers for
another call.* `m_replyCounter` (`qifremoteobjectssourcehelper_p.h:53`) starts from
zero with each server, while the replica keeps its `m_pendingReplies` when the
connection is lost. A reply that waited under number 1 before the crash gets the
result of whichever call is numbered 1 after it, of any program.

**Bounds.** `MaxLives` 2 lets a handle be stale once, which is all a handle can be;
it is 1 where nothing is unloaded. `MaxTries` 2 allows a load that is repeated.
`MaxDepth` limits how deep the application calls from nested event loops, slots or
callbacks: three or four frames hold a wait within an emission within a wait, or a
slot of a setter within a slot of another; seven frames in `PendingReply` a
delivery, a callback of it that registers, and a callback of that. `MaxCalls` 4 or
5 allows a binding, a change of a setting or rows, an unbinding and a new binding,
or content, query, navigation, its answer and a change meanwhile; in
`Configuration`, a join, a setter, another in its slot and a leave. `MaxRows` 6
gives three chunks of two, so that a row is in a chunk that was not asked for, in
the last chunk, and past a boundary after an insertion. `MaxDepth` 8 in `Simulation` holds
a QML function, the original it calls, its signal, a slot of the frontend, and a second
round of these from there. `MaxEvents` 1 is a
connection that is lost, a node error, a restart or another URL, before, between
and after the steps of all calls; more of them are in the proofs, which have no
bound. `MaxChanges` 2 is a
change that another follows, from the other side or while the first is on its way. `MaxTokens` 12 holds three filters with two conjunctions, or two with
scope and negation, or a filter with two orders; `MaxWrong` 5 and `MaxLeft` 1 a wrong
query that leaves an operator to the next. `ProductionIsPreferred` is checked with
one directory, since a directory that appears between the search and the choice
could hold a better backend that no code claims to see.

**Deadlock** is not checked: an application may stop calling.

**Symmetry** is used in `Configuration_apply` only, for the features and for the
configurations, of which no constant tells one from another; that run has no
liveness property.

**Fairness.** `ManagerFairness` and `Fairness` of `AbstractFeature`: a loader thread
ends, the event loop handles what is posted, and the frames on the stack go on,
since a call of C++ goes on until it returns. Handling is strongly fair where the
application's own nested calls may come in between. `PendingReply` is fair in the
steps of a delivery for the same reason. `PagingModel` is fair in the answers of
the backends (they come to their end with each call, as the interface's
documentation asks), in `initializationDone()`, and in `data()` for each row: a
view keeps reading what it shows. `FilterAndBrowse` is fair in the delivery of
signals and in the first of the replies, so that each is answered. `RemoteReply` is
fair in `Receive` and `Serve`, and for each call in `Finish`: event loops run, and a
backend finishes its replies. `RemoteZones` is fair in `ServeAsk` and `Hear`: the event
loops of the server and the program handle what has come. Neither is fair in `Connect`:
a connection may stay away. Nothing is assumed of the application. `EverythingIsShown` is stated for
models that are, in the end, bound to a backend that can serve their loading type.

## The proofs

Proved with TLAPS for all values of the constants that satisfy the assumptions of
the modules; none of the bounds above is used as a bound.

- `PendingReply_proofs`
  - `TypeCorrect`: `Spec => []TypeOK`. A successful reply of a plain type has a value of
    it; one of an enum a value of it or one that has the number of a key. For a flag or a
    `QVariant` nothing is claimed, since `setSuccess()` takes whatever it is given.
  - `Truthful`: `Spec => []CalledTruthfully`. The invariant adds that whatever is
    still to be called by a delivery is called with the result that is set, and
    that there is a delivery on the stack only if there is a result.
  - `NobodyIsForgotten`: `Spec => []NobodyForgotten`. That everyone was told when
    the stack is empty is not inductive; the invariant says, for a stack in any
    state, what each caller still has before it: its connection and an `emit`, its
    place among the receivers and a `deliver`, or a `script` frame.
  - `Refines`: `Spec => ImplementsPromise`. Initial states map to initial states,
    and each step maps to one of the promise or to a stuttering step: setting the
    result to `Resolve`, `then()` to `Ask` or at once to `Tell`, a call of a
    receiver to `Tell`.
- `PagingModel_proofs`
  - `TypeCorrect`: `Spec => []TypeOK`. Needs that the identifier does not exceed the
    number of calls, and, per handler, a lemma on what it makes of rows of the right
    type. Rows without data occur in the loading type `DataChanged` only, which is
    why a change of the loading type has to leave no rows.
  - `RegistrationHolds`: `Spec => []RegistrationIsHeld`, with no assumption on the
    environment. The invariant adds that an initialized model has a service object;
    all but two actions leave binding and identifier alone.
  - `FetchesOnceRegistered`: `Spec => FetchesAreRegistered` if `"resets"` and
    `"edits"` are assumed. The invariant `IInv` adds that every call under way
    bears an identifier that was the model's (so that a new one is new), and that a
    model that is not initialized shows nothing, waits for nothing and is of the
    default loading type; then nothing but `initializationDone()` makes it fetch.
  - `RowsStayRight` and `MarksStayRight`: `Spec => []RowsAreRight` and
    `Spec => []MarksAreRight` if `"resets"`, `"edits"` and `"counts"` are assumed; without
    any of them the table of assumptions names what goes wrong. The invariant adds
    `RInv` to `IInv`, and with it what the calls under way will bring (`Good`). In the
    loading type `FetchMore` the rows are the first of the backend and at most one call is
    under way, for the rows after them (`OneAtATime`). In `DataChanged` there are no rows
    yet, or as many as the backend has, each with its data or none (`Fits`), and a
    marked row without data is in a call that brings it (`Marks`). In both the model
    asks for whole chunks, so that the answer to one call leaves the rows of
    the others to theirs; and no backend but the present one has a call under the
    present identifier (`Elsewhere`), so that a late answer of an earlier one is turned
    away. There is one lemma per handler on what it makes of rows that are `Good`.
- `RemoteReply_proofs`
  - `TypeCorrect`: `Spec => []TypeOK`.
  - `OwnResults`: `Spec => []ResultIsItsOwn` (and that nobody waits under a number
    that will be signalled for another call) if `~RestartsAnyTime`. That a result is
    right is not inductive. The invariant `IInv` adds `NumbersAreTrue`: at a source,
    in the packets of each of its replicas and in what these wait for, a number means
    the call that the source issued it for; and `NothingUnderWay`: a replica that is
    not connected has no packets. A restart breaks `NumbersAreTrue` for whatever
    waits, which is why the assumption is needed, and `RemoteReply_restart` shows
    what happens.
  - `AnsweredOnce`: `Spec => AnswersStay`, a reply that has its result or has failed
    keeps it, with no assumption on restarts. The invariant `OnceInv` says of each program
    that what it has under way are calls of its own that are pending, and each in one
    place only: in a request, in a packet that answers it, or waiting under a number. A
    signalled result is none of these, and answers who waits under its number, if
    anybody does. So even a restart, which may answer a call with another's result,
    answers none twice.
  - `CallsImplemented`: `Spec => ImplementsCalls` if `~RestartsAnyTime`. Initial states map
    to initial states; `CallOperation` maps to `Call`, and what `Receive` answers to
    `Answer`: `OnceInv` says that the call is still pending, and `IInv` that the result is
    its own. Every other step is a stuttering one.
  - `LossReported`: `Spec => []LossIsReported`, with no assumption.
  - `ZonesAreRead`: `ZonedSpec => [](ZonesTypeOK /\ SyncedIsRead /\ ShowsTheServer)` if
    `~SwitchesAnyTime`. That a synced backend has read everything is not inductive, nor
    that it has the server's values. The invariant `ZonesInv` says that nothing is under
    way without a connection, and, of each replica that is connected: while the zones are
    asked for or answered, nothing else is (`Progress`), and afterwards each cell has been
    read or is in `m_propertiesToSync`; and the last news of a cell on its way has the
    value of the server, or, with no news of a cell that was read, the backend has it
    (`Current`).
  - `ZonedOwnResults` and `ZonedCallsImplemented`: `ZonedSpec => []ResultIsItsOwn` and
    `ZonedSpec => ImplementsCalls` if `~RestartsAnyTime`: each step of the composition is a
    step of `RemoteReply` or leaves its state alone, so that `IInv` and `OnceInv`
    hold of it too.
- `Selection_proofs`: what is chosen of a list are its entries that are in the set, in
  their order (`Chosen`). This needs induction, and the library's theorems for that take an
  operator. `LeastExists` derives from the well-foundedness of the numbers (`WFMin`, which
  is about sets) that a nonempty set of numbers has a least element, and `InductionUpTo`
  is induction for membership of a set, which the provers can use.
- `Configuration_proofs`
  - `OverridesStand`: `Spec => []OverridesHold`. The invariant adds that a group's
    override set is the one read at the start; each step then *keeps* groups: it
    forgets no setting and changes no value that has an override (`StepKeeps`, with a
    lemma per operator that changes a group).
  - `NamesAreUsable`: `Spec => []RegisteredIsUsable`. The invariant adds that only a
    configuration whose creation is over changes a group, so that the one registered
    is not one that QML still creates.
  - `ListsAndIds`: `Spec => []MembersBelong` if `~AbortedCreation`. `Base` adds the types
    of every frame on the stack (`Held`), and that every member in a list has the
    identifier of its group in the middle of calls too (`ListsOK`); `removeAll()` is
    `Without`, which leaves what `Selection_proofs` says.
  - `ValuesArrive`: `Spec => []MembersAgree` if `~NestedServiceSettings`. In the middle of
    calls members do not agree. `Fine` says for each member and setting of its group:
    it has the value, or has been given one of its own, or some frame on the stack
    *owes* it the value: a setter that has not come to it, or a joining that has not
    come to the setting. A setter passes on the value that the group has when it comes
    to the member, so an inner call does no harm; that of `serviceSettings` passes on its
    argument, and `ServiceOK` says that this is the value of the group.
- `Simulation_proofs`
  - `TypeCorrect`, `OriginalReached`, `Simulated`: `Spec => []TypeOK`,
    `[]OriginalIsReached`, `[]CallsAreSimulated`, for any number of functions, objects and
    nested calls. What the guard is cannot be told from the top of the stack. The
    invariant `Chain` goes through all of it: every function of the instance has saved
    what the innermost one below it has set, and the guard is what the innermost one of
    all has set; so each destructor restores the guard of the call it returns to.

- `AbstractFeature_proofs`, on `ServiceManager`
  - `OneConfigurationHolds`: `ManagerSpec => []OneConfiguration`, for any directories,
    builds and library paths. The file that decides is the first of the list with the
    name of the new one; the invariant `RegistryInv` says that it is the only one. It
    follows the backends a search has still to register: every file of a directory that
    was read is pending or represented by a build that is wanted if it is, and a backend
    without a file is pending once and then registered.
  - `LoadsAreRightHolds`: `ManagerSpec => []LoadsAreRight` if `NoReload` and
    `Resident = {}`. `LoadInv` says that a registered backend is loading exactly while
    one completion of it is under way (a thread that runs, or an event that is posted),
    and what the flags of a backend mean together (`Sound`); `ProxyInv` that the service
    objects are the current ones of the registered backends. That a signal is honest
    is not inductive, since it is emitted after its load: `SignalInv` says for every frame
    on the stack that announces a load that the load is over, or that the frame stands
    right behind the one that ends it. What is below a nested event loop must be settled,
    and the lemmas `JoinedSettled` and `StackSettled` carry this over calls and returns.
  - `InterfacesAreKnownHolds`: `ManagerSpec => []InterfacesAreKnown` if the builds of a
    plugin offer the same interfaces (`SameInterfaces`). `NamesInv` says that the names
    are those of the list, which a replacement keeps since the build that goes and the one
    that comes have the same; `RegistryInv` gives for every file of a searched directory a
    registered build of it.
- `AbstractFeature_proofs`, on `AbstractFeature` and `ZonedFeature`
  - `SharedLoadsAreRight`: `Spec => []LoadsAreRight` with the assumptions of
    `LoadsAreRightHolds`. What features push on the stack registers nothing and announces
    nothing (`Quiet`), so their steps keep the invariant of the manager; the loads they
    start are `loadServiceObject()`, whose lemmas are those of the manager.
  - `InitializedAreAttached`: `Spec => []InitializedMeansAttached`, with no assumption.
    `FeaturesSane`: initialized features are attached, and attached ones are bound, with
    updates enabled.
  - `BoundAreAlive`: `Spec => []BoundIsAlive` if `NoReload` and `AlwaysConnects`.
    `FeaturesAlive` adds that a bound feature watches its service object, which exists;
    so whoever deletes it, also in the middle of a discovery, clears the pointer.
    That its backend is alive then follows from `ProxyInv`.
  - `SearchesAreSound`: `Spec => []SearchIsSound` if `NoReload` and `BackendsStay`.
    `SystemTypes` are the types of the whole system, frames included; `SearchOrder` that
    the index of a search is within its handles, and that a call that is made at once
    (`discover`, `load`) is the innermost frame of all. `OwedInv` says of a feature that
    searches, in any state of the stack: it has a call of its own on it, or a frame that
    tells it of its candidate (`notify`), or the candidate is being loaded, which
    `LoadInv` ties to a completion that will tell it. When the stack is empty,
    only the last remains, and this is the property.
  - `PreferenceHolds`: `Spec => ProductionIsPreferred` if `NoReload`, `BackendsStay` and
    `OnlySearches`. The step that binds a feature sees one handle; what makes it right
    happened since the search began, and `PrefersInv` remembers it for each feature:
    every production backend it can use is among the handles still to be tried, and if
    one of these is a simulation there is no such backend (`StillToTry`, `Hopeless`).
    That holds because handles are chosen when everything is registered (`Searched`:
    between the end of the search and the choice there are only registrations on the
    stack), because calls of features never interrupt each other (`CallsOnTop`), and
    because a handle that is passed over could not be used: what a feature is told of
    has its service object if its plugin loads (`Delivered`), and `setServiceObject()`
    of one that can be used succeeds (`SetPrefers`). The steps of the manager leave all
    this alone (`ManagerRests`), but for the search and the registrations themselves.
  - `ZonesFollow`: `ZonedSpec => []ZonesAreRight` if `~ReplacesDirectly`. `ZonesInv` adds to
    the property that a feature with no service object has no children. Every step is
    one of `AbstractFeature` with `ZonesFollowStep`, so it is enough that features stay
    sane (`FeaturesSane`), and that what this step does where a feature connects, clears
    or does neither keeps the children with their parent.
- `FilterAndBrowse_proofs`
  - `Shows`: `Spec => []ShowsWhatWasAsked`. While signals are on their way nothing can be
    said of the content type that is shown. The invariant `ShowInv` says what it will
    be: the last signal tells the content type that is requested. `Answers` is a
    sequence that ends with it, which the lemmas on sequences carry through
    `ResetModel` and `Deliver`. A model that is not alive requests nothing, so that one
    made by `goForward()` begins with what its backend tells it.
  - `FilterRight`: `Spec => []FilterIsRight` if `~ModelsGo`. `FilterInv` adds that the
    backend has the term of its model, that no two models share one, and that every
    term that is not freed belongs to a model: so there is one to make
    (`TermsAssumption`: terms are not exhausted), and freeing the old one of a model
    takes it from nobody else. That a backend that was told everything has parsed the
    query with the identifiers of the content type rests on `ShowInv`: identifiers are
    never the last thing to arrive.
  - `RowsRight`: `Spec => []RowsAreRight`, whatever models are destroyed. `PagesInv` says
    that a connected model is registered for the content type it requests, and that the
    rows of one that has been told everything begin those of its backend
    (`Begins`, `Knows`): a page goes on where the rows end (`PageFollows`), and
    only the last signal, the content type, starts anew. The filter of one model is
    left alone by the others because their terms are `TermsApart`, also from one a
    destroyed model leaves in its backend, which `FilterInv` excludes. Theorem
    `Shows` says that the content type is the one the backend answers for.
- `FilterAndBrowse_proofs`, on `QueryParser` and `QueryMeaning`: how a model's queries become
  terms. There is one invariant, `ParserInv`, for queries of any length and depth, and for
  what earlier queries have left (`ParserInvariant`). It says of the middle of a query: the
  symbols on the stack can be gone through from the bottom with a *frame* for each (`Stack`),
  in which a symbol adds to the tokens that were read and to the stacks of terms, operators,
  conjunctions and orders what it stands for (`Adds`), and the last frame is what was read and
  what is on the stacks. A reduction takes the last frames away and adds one that has the
  same tokens (one lemma `...Onward` per rule); a shift adds one for the token. What a
  `complex_clause` stands for is tokens and a term that mean the same (`MeansEither`):
  for every row, all that is heard of the tokens is a group that says what the term has
  as its value, and with the first of it denied what the term has when its left-most term is
  negated. For a `parenthesed_clause` the group keeps what was heard behind it (`MeansOne`).
  That `!` before a conjunction is about its first term on both sides, and that a
  conjunction taken into another of its kind leaves the value, are lemmas about these.
  - `ParserTypeCorrect`: `ParserSpec => []ParserTypeOK`: the frames count the symbols
    (`StacksCounted`), so no rule finds its stack empty.
  - `QueriesMean`: `ParserSpec => []MeansWhatItSays`. Both evaluations are folds, which
    go on where another has ended (`ValuesOfBoth`, `GroupsOfBoth`), so the meaning of a part
    does not depend on what is around it.
  - `FiltersStayAllowed`: `ParserSpec => []FiltersAreAllowed`: every node on the stacks is about
    an identifier that `checkIdentifier()` has let through.
  - `QueriesArrive`: `ParserSpec => []ArrivesAsSent`. What the parser returns is one term
    (`Are(term, 1)`: after each node, so many terms are still to come, and none after the
    last), and of one term `Read` takes exactly what `Written` has put there (`ReadsBack`).

  The kinds of tokens are assumed to be apart (`TokensAssumption`): the lexer returns
  identifiers, numbers and texts with a kind, so that none of them is taken for another or for
  an operator.

Only model-checked:

- The properties under fairness (`EveryLoadEnds`, `DiscoveryEnds`, `EveryoneHears`,
  `EverythingIsShown`, `NavigationEnds`, `EveryCallIsAnswered`, `SyncEnds`): TLAPS does not prove
  liveness. Every other property of a passing run is a theorem.

## What is not modelled

- **Simulation**: the QML engine itself, the meta object that an object is given, and the
  simulation data (`qifsimulationglobalobject.cpp`: defaults, minimum, maximum, range,
  domain), which the QML functions of a simulation may ask for.
- **List model feature**, **items and QML conversions**: forwarding and values without
  state of their own.
- **Generator and templates**, but for what `PagingModel`, `RemoteReply` and `RemoteZones`
  take from them. The properties of an interface without zones are kept equal by Qt
  Remote Objects itself; models in zones and the remote adapter of the paging model
  forward what they get.
- Of the generated remote backend: a URL that cannot be connected to (after which a
  second `initialize()` goes on without a replica), and a server that changes its zones
  while it runs, of which its adapter tells nobody.
- Of the query parser: the automaton of the lexer and the tables of the parser are
  generated; the rules they are generated from are in the model. The parser's error
  texts.
- Of `FilterAndBrowse`: `insert()`, `remove()`, `move()` and `indexOf()`, which pass the
  call to the backend; a backend that answers a page late.
- Of `PagingModel`: service objects that are refused, destroyed or without the
  interface (`AbstractFeature` has them), a backend that restarts or loses calls, and
  more than one model on a backend.
- Of `PendingReply`: the life of the watcher that copies share, `QIfPendingReply<void>`,
  and what a script engine does; a script's functors are called as often as the code
  calls them, and only at least once is asked of it, since a `then()` in a slot of
  `valueChanged` is answered twice.
- Of `Configuration`: `startAutoDiscovery()` of a group, which calls that of each feature;
  slots that change the list of members a setter is going through, since the code
  iterates over the list itself.
- Of `AbstractFeature` and `ServiceManager`: errors and their texts, roles of the model,
  the schema of the metadata.

## What could be added

1. A paging model over a connection that loses calls: `PagingModel` composed with the
   connection of `RemoteReply`.
2. The simulation data (`qifsimulationglobalobject.cpp`) as functions against what the
   documentation says of `minimum`, `maximum`, `range`, `domain` and zones: a `range` that
   has no list for the zone ends the check before `unsupported` is looked at (397).

To check: `tlc -config X.cfg M` with the module and configuration of a run in
`PROJECT.json`, and `tlapm M_proofs.tla`.
