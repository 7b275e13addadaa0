\* Two features discover, each loading synchronously or asynchronously; the one
\* refuses what the other prefers.
SPECIFICATION SearchSpec
CONSTANTS
    prod = prod
    bad = bad
    sim = sim
    d1 = d1
    f1 = f1
    f2 = f2
    media = media
    radio = radio
    Plugins = {bad, prod, sim}
    Dirs = {d1}
    Content <- MCContentDiscover
    StaticPlugins <- MCNone
    Objects = {}
    Interfaces = {media, radio}
    Implements <- MCImplements
    Loadable = {prod, sim}
    Simulation = {sim}
    Name <- MCName
    Base <- MCName
    DebugBuild = {}
    LoadDebug = FALSE
    Listeners <- MCListeners
    FeatureInterface <- MCFeatureInterface
    Provides <- MCProvides
    Instanceless = {}
    Demanding = {}
    Preferences <- MCNoPreferences
    InitialModes = {"AutoDiscovery"}
    InitialAsync = {TRUE, FALSE}
    UserCalls = {"path", "discover"}
    MaxLives = 1
    MaxTries = 2
    MaxDepth = 4
INVARIANTS
    SearchIsSound
    LoadsAreRight
PROPERTIES
    ProductionIsPreferred
    DiscoveryEnds
    EveryLoadEnds
\* The application may stop calling, or the program may have aborted.
CHECK_DEADLOCK FALSE
