\* Two programs call a server; connections are lost and come back, and servers
\* restart and URLs change while no reply waits.
SPECIFICATION Spec
CONSTANTS
    c1 = c1
    c2 = c2
    c3 = c3
    r1 = r1
    r2 = r2
    Calls = {c1, c2, c3}
    Replicas = {r1, r2}
    Sources = {s1, s2}
    Home = s1
    Caller <- MCCaller
    RestartsAnyTime = FALSE
    MaxEvents = 1
    Pending = Pending
    Failed = Failed
    NotCalled = NotCalled
PROPERTIES
    ImplementsCalls
    EveryCallIsAnswered
\* The application may stop calling, or the program may have aborted.
CHECK_DEADLOCK FALSE
