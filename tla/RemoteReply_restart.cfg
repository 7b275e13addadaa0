\* As RemoteReply_deliver, with restarts of the server at any time.
SPECIFICATION Spec
CONSTANTS
    c1 = c1
    c2 = c2
    c3 = c3
    r1 = r1
    r2 = r2
    Calls = {c1, c2, c3}
    Replicas = {r1, r2}
    Sources = {s1, s2}
    Home = s1
    Caller <- MCCaller
    RestartsAnyTime = TRUE
    MaxEvents = 1
    Pending = Pending
    Failed = Failed
    NotCalled = NotCalled
INVARIANTS
    ResultIsItsOwn
\* The application may stop calling, or the program may have aborted.
CHECK_DEADLOCK FALSE
