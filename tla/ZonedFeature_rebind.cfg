\* One zoned feature whose service object is set, refused, updated, discovered and
\* unloaded while its mode, its zone and the zones of its backends change.
SPECIFICATION ZonedSpec
CONSTANTS
    prod = prod
    sim = sim
    d1 = d1
    f2 = f2
    media = media
    radio = radio
    left = left
    right = right
    Plugins = {prod, sim}
    Dirs = {d1}
    Content <- MCContent
    StaticPlugins <- MCStatic
    Objects = {}
    Interfaces = {media, radio}
    Implements <- MCImplements
    Loadable = {prod, sim}
    Simulation = {sim}
    Name <- MCName
    Base <- MCName
    DebugBuild = {}
    LoadDebug = FALSE
    Listeners <- MCListeners
    FeatureInterface <- MCFeatureInterface
    Provides <- MCProvides
    Instanceless = {}
    Demanding = {}
    Preferences <- MCPreferences
    InitialModes = {"AutoDiscovery"}
    InitialAsync = {FALSE}
    UserCalls = {"data", "discover", "setServiceObject", "updates", "mode", "async", "preferred", "unload", "zone"}
    MaxLives = 2
    MaxTries = 2
    MaxDepth = 2
    ZoneLists <- MCZoneLists
    OwnZones = {General, left}
    General = General
    ReplacesDirectly = FALSE
INVARIANTS
    ZonesAreRight
    BoundIsAlive
    InitializedMeansAttached
\* The application may stop calling, or the program may have aborted.
CHECK_DEADLOCK FALSE
