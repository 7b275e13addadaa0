\* Functions of the instance, QML functions, signals and their handlers call each
\* other while the QML objects come and go.
SPECIFICATION Spec
CONSTANTS
    set = set
    get = get
    zones = zones
    changed = changed
    q1 = q1
    q2 = q2
    wrong = wrong
    Functions = {set, get, zones}
    AskAll = {zones}
    Signals = {changed}
    Proxies = {q1, q2, wrong}
    Foreign = {wrong}
    Defines <- MCDefines
    Frontend = Frontend
    MaxDepth = 8
    None = None
INVARIANTS
    OriginalIsReached
    CallsAreSimulated
\* The application may stop calling, or the program may have aborted.
CHECK_DEADLOCK FALSE
