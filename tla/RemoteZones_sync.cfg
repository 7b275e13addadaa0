\* A program reads the zones of a server and their values while these change, the
\* connection is lost, the server restarts with other zones or the URL changes.
SPECIFICATION ZonedSpec
CONSTANTS
    r1 = r1
    left = left
    right = right
    Calls = {}
    Replicas = {r1}
    Sources = {s1, s2}
    Home = s1
    Caller <- MCCaller
    RestartsAnyTime = FALSE
    MaxEvents = 1
    Pending = Pending
    Failed = Failed
    NotCalled = NotCalled
    Zones = {left, right}
    General = General
    Props = {p}
    Values = {Default, v}
    Default = Default
    Unknown = Unknown
    ZoneLists <- MCZoneLists
    SwitchesAnyTime = FALSE
    MaxChanges = 2
INVARIANTS
    SyncedIsRead
    ShowsTheServer
PROPERTIES
    SyncEnds
\* The application may stop calling, or the program may have aborted.
CHECK_DEADLOCK FALSE
