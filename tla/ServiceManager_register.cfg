\* Searching, registering, finding, loading and unloading in any order, with two
\* builds of one plugin and one registered object.
SPECIFICATION ManagerSpec
CONSTANTS
    rel = rel
    dbg = dbg
    obj = obj
    d1 = d1
    d2 = d2
    Plugins = {rel, dbg, obj}
    Dirs = {d1, d2}
    Content <- MCContent
    StaticPlugins <- MCNone
    Objects = {obj}
    Interfaces = {"media", "radio"}
    Implements <- MCImplements
    Loadable = {rel, dbg}
    Simulation = {}
    Name <- MCName
    Base <- MCBase
    DebugBuild = {dbg}
    LoadDebug = TRUE
    Listeners <- MCNone
    UserCalls = {"path", "find", "data", "load", "register", "unload", "stale"}
    MaxLives = 2
    MaxTries = 2
    MaxDepth = 3
INVARIANTS
    InterfacesAreKnown
    OneConfiguration
\* The application may stop calling, or the program may have aborted.
CHECK_DEADLOCK FALSE
