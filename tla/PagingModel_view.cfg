\* A view over two backends, one of which announces its count; the application
\* resets the model, and the backends change their rows, as assumed.
SPECIFICATION Spec
CONSTANTS
    sized = sized
    unsized = unsized
    a1 = a1
    a2 = a2
    a3 = a3
    a4 = a4
    a5 = a5
    b1 = b1
    b2 = b2
    extra = extra
    Backends = {sized, unsized}
    Items = {a1, a2, a3, a4, a5, b1, b2, extra}
    Empty = Empty
    InitialList <- MCInitialList
    SupportsGetSize = {sized}
    DefaultChunkSize = 2
    ChunkSizes = {2, 3}
    DefaultThreshold = 1
    Thresholds = {1, 2}
    Assumed = {"resets", "edits", "counts"}
    MaxRows = 6
    MaxCalls = 4
    None = None
INVARIANTS
    RowsAreRight
    MarksAreRight
    RegistrationIsHeld
PROPERTIES
    FetchesAreRegistered
    EverythingIsShown
\* The application may stop calling, or the program may have aborted.
CHECK_DEADLOCK FALSE
