\* Two models over a backend with two levels: content types, queries and
\* navigation, with answers that come late.
SPECIFICATION Spec
CONSTANTS
    artists = artists
    albums = albums
    a1 = a1
    a2 = a2
    a3 = a3
    b1 = b1
    b2 = b2
    few = few
    wrong = wrong
    Models = {m1, m2}
    Root = m1
    ContentTypes = {artists, albums}
    NoType = NoType
    Rows <- MCRows
    Parent <- MCParent
    Child <- MCChild
    NoChild = NoChild
    Queries = {NoQuery, few, wrong}
    NoQuery = NoQuery
    Broken = {wrong}
    Uses <- MCUses
    Passes <- MCPasses
    Identifiers <- MCIdentifiers
    Capabilities = {"filter", "stateless"}
    ChunkSize = 2
    Terms = {t1, t2, t3}
    NoTerm = NoTerm
    Freed = Freed
    Failed = Failed
    ModelsGo = FALSE
    MaxCalls = 5
INVARIANTS
    ShowsWhatWasAsked
    FilterIsRight
    RowsAreRight
PROPERTIES
    NavigationEnds
\* The application may stop calling, or the program may have aborted.
CHECK_DEADLOCK FALSE
