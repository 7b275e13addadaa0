----------------------------- MODULE PagingModel -----------------------------
(***************************************************************************)
(* A QIfPagingModel and the backends it is connected to                    *)
(* (src/interfaceframework/qifpagingmodel.cpp).  The model asks a backend  *)
(* for rows, a chunk at a time, and the backend answers later, in order,   *)
(* as the backends behind Qt Remote Objects do; meanwhile the view goes on *)
(* reading rows and the application reloads the model, switches its        *)
(* loading type, its chunk size and its service object.                    *)
(*                                                                         *)
(* What a backend emits arrives in the order of its emission, so the model *)
(* sees a signal in the step that emits it.  Rows and chunks count from 0  *)
(* in the code and from 1 in the sequences.                                *)
(***************************************************************************)
EXTENDS Integers, Sequences, SequencesExt

CONSTANTS
    Backends,           \* instances of QIfPagingModelInterface
    None,               \* no service object
    Items,
    Empty,              \* a row without data: QVariant()
    InitialList,        \* [Backends -> Seq(Items)]
    SupportsGetSize,    \* the backends with this capability
    DefaultChunkSize, ChunkSizes,       \* 30 and what setChunkSize() is given
    DefaultThreshold, Thresholds,       \* 10 and what setFetchMoreThreshold() is given
    Assumed,            \* what is assumed of the program around the model, below
    MaxRows,            \* bound: rows of a backend
    MaxCalls            \* bound: calls of the application, changes in a backend

VARIABLES
    m_serviceObject,    \* the backend, or None
    m_isInitialized,
    m_identifier,       \* a QUuid, numbered
    m_capabilities,     \* whether they have SupportsGetSize
    m_loadingType,
    m_chunkSize,
    m_fetchMoreThreshold,
    m_moreAvailable,
    m_fetchedDataCount,
    m_itemList,
    m_availableChunks,  \* a sequence of BOOLEAN: QBitArray
    undefined,          \* an assertion failed or an index was out of range, the end
    list,               \* [Backends -> the backend's rows]
    registered,         \* [Backends -> the identifiers registered with it]
    requests,           \* [Backends -> the calls of fetchData() to answer]
    calls               \* how many calls and changes there were

rowVars == <<m_moreAvailable, m_fetchedDataCount, m_itemList, m_availableChunks,
             undefined, requests>>
settings == <<m_identifier, m_capabilities, m_loadingType, m_chunkSize,
              m_fetchMoreThreshold>>
binding == <<m_serviceObject, m_isInitialized, registered>>
vars == <<rowVars, settings, binding, list, calls>>

\* "resets": the model is reset only once it is initialized and all it asked for
\* has come; its chunk size is set while it is empty, and one service object is
\* replaced by another while it is empty and of the default loading type; the view
\* fetches from initialized models.  "edits": a backend inserts, removes and moves
\* rows only when the model shows them all in the loading type FetchMore.
\* "counts": a backend that adds rows it announces with countChanged() alone does
\* so only before the model is initialized.
ASSUME PagingAssumption ==
    /\ None \notin Backends
    /\ Empty \notin Items
    /\ InitialList \in [Backends -> Seq(Items)]
    /\ SupportsGetSize \subseteq Backends
    /\ DefaultChunkSize \in ChunkSizes /\ ChunkSizes \subseteq Nat \ {0}
    /\ DefaultThreshold \in Thresholds /\ Thresholds \subseteq Nat
    /\ Assumed \subseteq {"resets", "edits", "counts"}
    /\ MaxRows \in Nat /\ MaxCalls \in Nat

-----------------------------------------------------------------------------
(* The rows: each operator is what a handler makes of them.               *)

Rows == [items |-> m_itemList, chunks |-> m_availableChunks,
         fetched |-> m_fetchedDataCount, more |-> m_moreAvailable,
         sent |-> <<>>, bad |-> FALSE]

Becomes(m) ==
    /\ ~undefined
    /\ m_itemList' = m.items
    /\ m_availableChunks' = m.chunks
    /\ m_fetchedDataCount' = m.fetched
    /\ m_moreAvailable' = m.more
    /\ undefined' = m.bad
    /\ requests' = IF m_serviceObject = None THEN requests
                   ELSE [requests EXCEPT ![m_serviceObject] = @ \o m.sent]

RequestFrom(start) == [id |-> m_identifier, start |-> start, count |-> m_chunkSize]

\* fetchData()
FetchData(m, start) ==
    LET chunk == start \div m_chunkSize + 1
    IN  IF m_serviceObject = None THEN m
        ELSE [m EXCEPT !.more = FALSE,
                       !.chunks = IF chunk <= Len(@) THEN [@ EXCEPT ![chunk] = TRUE] ELSE @,
                       !.sent = Append(@, RequestFrom(start))]

\* QIfPagingModel::fetchMore()
FetchMore(m) ==
    IF m_serviceObject # None /\ m.more THEN FetchData(m, m.fetched) ELSE m

\* Mutant: the marks of the chunks survive.
ChunksKept(m) == [m EXCEPT !.items = <<>>, !.fetched = 0, !.more = TRUE]

\* Mutant: nothing lets fetchMore() do the first fetch.
NoFirstFetch(m) == [m EXCEPT !.items = <<>>, !.chunks = <<>>, !.fetched = 0]

Cleared(m) == [m EXCEPT !.items = <<>>, !.chunks = <<>>, !.fetched = 0, !.more = TRUE]

\* resetModel()
Reset(m) == FetchMore(Cleared(m))

ChunksFor(n) == n \div m_chunkSize + 1

Counts(m, n) == m_loadingType = "DataChanged" /\ Len(m.items) # n

\* onCountChanged(): n rows are appended to those there are.
Counted(m, n) ==
    IF ~Counts(m, n) THEN m
    ELSE [m EXCEPT !.items = @ \o [i \in 1..n |-> Empty],
                   !.chunks = [c \in 1..ChunksFor(n) |-> c <= Len(@) /\ @[c]]]

\* onDataFetched(), with its two assertions; start is only used by DataChanged.
Fetched(m, items, start, more) ==
    LET size == start + Len(items)
        chunk == start \div m_chunkSize + 1
    IN  IF \/ Len(items) > m_chunkSize
           \/ (size - 1) \div m_chunkSize # start \div m_chunkSize
        THEN [m EXCEPT !.bad = TRUE]
        ELSE IF m_loadingType = "FetchMore"
        THEN [m EXCEPT !.more = more,
                       !.items = @ \o items,
                       !.fetched = Len(m.items) + Len(items)]
        ELSE IF Len(m.items) < size \/ Len(m.chunks) < size \div m_chunkSize
        THEN [m EXCEPT !.more = more]
        ELSE [m EXCEPT !.more = more,
                       !.fetched = size,
                       !.items = [i \in 1..Len(@) |-> IF i > start /\ i <= size
                                                      THEN items[i - start] ELSE @[i]],
                       !.chunks = IF chunk <= Len(@) THEN [@ EXCEPT ![chunk] = TRUE] ELSE @,
                       !.bad = chunk > Len(m.chunks)]

\* onDataChanged(): count rows from start are replaced by data.  The rest of a
\* longer data is inserted, that of a shorter one removed, one row too far when
\* rows were replaced before; each removal shifts the rows the next ones name.
Edited(m, data, start, count) ==
    LET updateCount == IF Len(data) < count THEN Len(data) ELSE count
        from == start + (IF updateCount > 0 THEN updateCount + 1 ELSE 0)
        excess == count - Len(data)
        updated == [i \in 1..Len(m.items) |->
                       IF i > start /\ i <= start + updateCount
                       THEN data[i - start] ELSE m.items[i]]
        Remaining(i) == IF i <= from THEN i
                        ELSE IF i < from + excess THEN 2 * i - from ELSE i + excess
    IN  IF start > Len(m.items) \/ count > Len(m.items) - start THEN m
        ELSE IF excess = 0 THEN [m EXCEPT !.items = updated]
        ELSE IF excess < 0
        THEN IF updateCount > 0 THEN [m EXCEPT !.bad = TRUE]
             ELSE [m EXCEPT !.items = SubSeq(@, 1, start) \o data
                                      \o SubSeq(@, start + 1, Len(@))]
        ELSE IF from + 2 * (excess - 1) >= Len(m.items) THEN [m EXCEPT !.bad = TRUE]
        ELSE [m EXCEPT !.items = [i \in 1..(Len(@) - excess) |-> updated[Remaining(i)]]]

-----------------------------------------------------------------------------
(* The view *)

\* data(): a row whose chunk is not there, or one near the last that was fetched.
Read(row) ==
    LET chunk == row \div m_chunkSize + 1
    IN  IF m_loadingType = "DataChanged" /\ chunk > Len(m_availableChunks)
        THEN [Rows EXCEPT !.bad = TRUE]
        ELSE IF m_loadingType = "DataChanged" /\ ~m_availableChunks[chunk]
        THEN FetchData(Rows, (chunk - 1) * m_chunkSize)
        ELSE IF row >= m_fetchedDataCount - m_fetchMoreThreshold THEN FetchMore(Rows)
        ELSE Rows

Data(row) ==
    /\ row < Len(m_itemList)
    /\ Becomes(Read(row))
    /\ UNCHANGED <<settings, binding, list, calls>>

\* A view may call fetchMore() itself.
ViewFetchesMore ==
    /\ "resets" \in Assumed => m_isInitialized
    /\ Becomes(FetchMore(Rows))
    /\ UNCHANGED <<settings, binding, list, calls>>

-----------------------------------------------------------------------------
(* The application *)

Call == ~undefined /\ calls < MaxCalls /\ calls' = calls + 1

InFlight == \E b \in Backends : \E i \in DOMAIN requests[b] : requests[b][i].id = m_identifier

MayReset == "resets" \in Assumed => m_isInitialized /\ ~InFlight

Reload ==
    /\ Call /\ MayReset
    /\ Becomes(Reset(Rows))
    /\ UNCHANGED <<settings, binding, list>>

SetLoadingType(type) ==
    /\ Call /\ MayReset
    /\ type # m_loadingType
    /\ type = "DataChanged" => m_capabilities
    /\ m_loadingType' = type
    /\ Becomes(Reset(Rows))
    /\ UNCHANGED <<m_identifier, m_capabilities, m_chunkSize, m_fetchMoreThreshold,
                   binding, list>>

\* Nothing is reset: the marks stay those of the chunks there were.
SetChunkSize(size) ==
    /\ Call
    /\ "resets" \in Assumed => ~InFlight /\ m_itemList = <<>>
    /\ size # m_chunkSize
    /\ m_chunkSize' = size
    /\ UNCHANGED <<rowVars, m_identifier, m_capabilities, m_loadingType,
                   m_fetchMoreThreshold, binding, list>>

SetFetchMoreThreshold(threshold) ==
    /\ Call
    /\ threshold # m_fetchMoreThreshold
    /\ m_fetchMoreThreshold' = threshold
    /\ UNCHANGED <<rowVars, m_identifier, m_capabilities, m_loadingType, m_chunkSize,
                   binding, list>>

\* Mutant: the identifier stays.
SameIdentifier == m_identifier

NewIdentifier == m_identifier + 1

\* clearToDefaults(), the service object being gone already.
ClearToDefaults ==
    /\ m_chunkSize' = DefaultChunkSize
    /\ m_identifier' = NewIdentifier
    /\ m_fetchMoreThreshold' = DefaultThreshold
    /\ m_loadingType' = "FetchMore"
    /\ m_capabilities' = FALSE
    /\ m_itemList' = <<>>
    /\ m_availableChunks' = <<>>
    /\ m_fetchedDataCount' = 0
    /\ m_moreAvailable' = TRUE
    /\ UNCHANGED <<undefined, requests>>

\* Mutant: the backend is not told.
StaysRegistered == registered

\* disconnectFromServiceObject()
Unregistered ==
    IF m_serviceObject = None THEN registered
    ELSE [registered EXCEPT ![m_serviceObject] = @ \ {m_identifier}]

\* setServiceObject(): only without a new service object is the model cleared.
SetServiceObject(so) ==
    /\ Call
    /\ so # m_serviceObject
    /\ (so # None /\ m_serviceObject # None /\ "resets" \in Assumed) =>
          ~InFlight /\ m_itemList = <<>> /\ m_loadingType = "FetchMore"
    /\ registered' = Unregistered
    /\ m_serviceObject' = so
    /\ m_isInitialized' = FALSE
    /\ IF so = None THEN ClearToDefaults ELSE UNCHANGED <<rowVars, settings>>
    /\ UNCHANGED list

-----------------------------------------------------------------------------
(* The backends *)

\* Mutant: the model does not register itself.
RegistersNothing == registered

Registered == [registered EXCEPT ![m_serviceObject] = @ \cup {m_identifier}]

\* The first initializationDone(); the model ignores any other.
InitializationDone ==
    /\ m_serviceObject # None /\ ~m_isInitialized
    /\ m_isInitialized' = TRUE
    /\ registered' = Registered
    /\ Becomes(Reset(Rows))
    /\ UNCHANGED <<m_serviceObject, settings, list, calls>>

\* A backend answers the oldest call of fetchData(): its capabilities, its count
\* if it has the capability, and the data, moreAvailable if there is more.
Addressed(b, id) == b = m_serviceObject /\ id = m_identifier

Announced(b) == IF b \in SupportsGetSize THEN Counted(Rows, Len(list[b])) ELSE Rows

Answered(b, request) ==
    LET last == request.start + request.count
        size == Len(list[b])
        items == SubSeq(list[b], request.start + 1, IF last < size THEN last ELSE size)
    IN  IF items = <<>> THEN Announced(b)
        ELSE Fetched(Announced(b), items, request.start, last < size)

Answer(b) ==
    /\ ~undefined
    /\ requests[b] # <<>>
    /\ requests' = [requests EXCEPT ![b] = Tail(@)]
    /\ LET m == Answered(b, Head(requests[b])) IN
       IF Addressed(b, Head(requests[b]).id)
       THEN /\ m_capabilities' = (b \in SupportsGetSize)
            /\ m_itemList' = m.items
            /\ m_availableChunks' = m.chunks
            /\ m_fetchedDataCount' = m.fetched
            /\ m_moreAvailable' = m.more
            /\ undefined' = m.bad
       ELSE UNCHANGED <<m_capabilities, m_itemList, m_availableChunks, undefined,
                        m_fetchedDataCount, m_moreAvailable>>
    /\ UNCHANGED <<m_identifier, m_loadingType, m_chunkSize, m_fetchMoreThreshold,
                   binding, list, calls>>

\* Rows change in a backend, which tells every model (a null identifier).
Change(b, rows, m) ==
    /\ Call
    /\ list' = [list EXCEPT ![b] = rows]
    /\ IF b = m_serviceObject THEN Becomes(m) ELSE UNCHANGED rowVars
    /\ UNCHANGED <<settings, binding>>

Fresh == Items \ UNION {{list[b][i] : i \in DOMAIN list[b]} : b \in Backends}

\* The model shows all there is.
Complete(b) ==
    /\ m_isInitialized /\ m_loadingType = "FetchMore" /\ ~InFlight
    /\ ~m_moreAvailable /\ Len(m_itemList) = Len(list[b])

MayEdit(b) == b = m_serviceObject /\ "edits" \in Assumed => Complete(b)

\* insert() and remove() announce the new count after the change, which a model
\* that has followed it ignores.
InsertRow(b, index) ==
    /\ MayEdit(b)
    /\ Len(list[b]) < MaxRows /\ index <= Len(list[b])
    /\ \E item \in Fresh :
          Change(b, InsertAt(list[b], index + 1, item),
                 Counted(Edited(Rows, <<item>>, index, 0), Len(list[b]) + 1))

RemoveRow(b, index) ==
    /\ MayEdit(b)
    /\ index < Len(list[b])
    /\ Change(b, RemoveAt(list[b], index + 1),
              Counted(Edited(Rows, <<>>, index, 1), Len(list[b]) - 1))

\* move(): the rows between the two places are replaced.
MoveRow(b, from, to) ==
    /\ MayEdit(b)
    /\ {from, to} \subseteq 0..(Len(list[b]) - 1) /\ from # to
    /\ LET min == IF from < to THEN from ELSE to
           max == IF from < to THEN to ELSE from
           moved == InsertAt(RemoveAt(list[b], from + 1), to + 1, list[b][from + 1])
       IN  Change(b, moved,
                  Edited(Rows, SubSeq(moved, min + 1, max + 1), min, max - min + 1))

UpdateRow(b, index) ==
    /\ index < Len(list[b])
    /\ \E item \in Fresh :
          Change(b, ReplaceAt(list[b], index + 1, item), Edited(Rows, <<item>>, index, 1))

\* A backend that announces new rows at its end by their count.
Grow(b) ==
    /\ b = m_serviceObject /\ "counts" \in Assumed => ~m_isInitialized
    /\ b \in SupportsGetSize /\ Len(list[b]) < MaxRows
    /\ \E item \in Fresh :
          Change(b, Append(list[b], item), Counted(Rows, Len(list[b]) + 1))

-----------------------------------------------------------------------------
Init ==
    /\ m_serviceObject = None
    /\ m_isInitialized = FALSE
    /\ m_identifier = 0
    /\ m_capabilities = FALSE
    /\ m_loadingType = "FetchMore"
    /\ m_chunkSize = DefaultChunkSize
    /\ m_fetchMoreThreshold = DefaultThreshold
    /\ m_moreAvailable = FALSE
    /\ m_fetchedDataCount = 0
    /\ m_itemList = <<>>
    /\ m_availableChunks = <<>>
    /\ undefined = FALSE
    /\ list = InitialList
    /\ registered = [b \in Backends |-> {}]
    /\ requests = [b \in Backends |-> <<>>]
    /\ calls = 0

View == ViewFetchesMore \/ \E row \in 0..(Len(m_itemList) - 1) : Data(row)

Application ==
    \/ Reload
    \/ \E type \in {"FetchMore", "DataChanged"} : SetLoadingType(type)
    \/ \E size \in ChunkSizes : SetChunkSize(size)
    \/ \E threshold \in Thresholds : SetFetchMoreThreshold(threshold)
    \/ \E so \in Backends \cup {None} : SetServiceObject(so)

Backend(b) ==
    \/ Answer(b)
    \/ Grow(b)
    \/ \E i \in 0..MaxRows :
          InsertRow(b, i) \/ RemoveRow(b, i) \/ UpdateRow(b, i) \/ \E j \in 0..MaxRows : MoveRow(b, i, j)

Next == View \/ Application \/ InitializationDone \/ \E b \in Backends : Backend(b)

\* The view goes on reading its rows, and a backend comes to its end with what it
\* was asked.
Fairness ==
    /\ WF_vars(InitializationDone)
    /\ \A b \in Backends : WF_vars(Answer(b))
    /\ \A row \in 0..(MaxRows - 1) : WF_vars(Data(row))

Spec == Init /\ [][Next]_vars /\ Fairness

-----------------------------------------------------------------------------
(* Properties *)

Cells == IF m_loadingType = "FetchMore" THEN Items ELSE Items \cup {Empty}
Request == [id : 0..MaxCalls, start : Nat, count : ChunkSizes]

\* Every variable has its type, and only the loading type DataChanged has rows
\* without data.
TypeOK ==
    /\ m_serviceObject \in Backends \cup {None}
    /\ m_isInitialized \in BOOLEAN
    /\ m_identifier \in 0..MaxCalls
    /\ m_capabilities \in BOOLEAN
    /\ m_loadingType \in {"FetchMore", "DataChanged"}
    /\ m_chunkSize \in ChunkSizes
    /\ m_fetchMoreThreshold \in Thresholds
    /\ m_moreAvailable \in BOOLEAN
    /\ m_fetchedDataCount \in Nat
    /\ m_itemList \in Seq(Cells)
    /\ m_availableChunks \in Seq(BOOLEAN)
    /\ undefined \in BOOLEAN
    /\ list \in [Backends -> Seq(Items)]
    /\ registered \in [Backends -> SUBSET (0..MaxCalls)]
    /\ requests \in [Backends -> Seq(Request)]
    /\ calls \in 0..MaxCalls

\* Each row of an initialized model that has data has that of the backend's row
\* at its place: no answer for an earlier binding, loading type or identifier, and
\* no change in the backend, puts it elsewhere.
RowsInPlace ==
    m_isInitialized =>
        \A row \in DOMAIN m_itemList :
            m_itemList[row] # Empty =>
                /\ row \in DOMAIN list[m_serviceObject]
                /\ m_itemList[row] = list[m_serviceObject][row]

\* In the loading type DataChanged a model that has rows has as many as the
\* backend that announced its count.
CountIsTheBackends ==
    (m_isInitialized /\ m_loadingType = "DataChanged" /\ m_itemList # <<>>) =>
        Len(m_itemList) = Len(list[m_serviceObject])

\* The marks of the chunks cover all rows data() is asked for, what a backend
\* returns lies within the chunk that was asked for, and no handler of its signals
\* reads or writes a row there is not.
IndicesInRange == ~undefined

\* A chunk that is marked has its data, or a call of fetchData() brings it: data()
\* will not ask for it again.
MarkedIsComing ==
    m_isInitialized =>
        \A row \in DOMAIN m_itemList :
            LET chunk == (row - 1) \div m_chunkSize + 1 IN
            (chunk \in DOMAIN m_availableChunks /\ m_availableChunks[chunk]
             /\ m_itemList[row] = Empty) =>
                \E i \in DOMAIN requests[m_serviceObject] :
                    LET r == requests[m_serviceObject][i] IN
                    r.id = m_identifier /\ row - 1 \in r.start..(r.start + r.count - 1)

\* The rows there are, and those that have their data, are the backend's, through
\* every reset, binding, count and edit (onDataFetched(), onCountChanged()).
RowsAreRight == RowsInPlace /\ CountIsTheBackends

\* The marks of the chunks (m_availableChunks) are there for each row that is read,
\* and none keeps its data from being fetched.
MarksAreRight == IndicesInRange /\ MarkedIsComing

\* The backend the model is connected to, and it alone, keeps data for the model,
\* under its present identifier, from its initialization on.
RegistrationIsHeld ==
    \A b \in Backends :
        registered[b] = IF b = m_serviceObject /\ m_isInitialized
                        THEN {m_identifier} ELSE {}

\* No backend is asked for rows by a model that has not registered with it.
FetchesAreRegistered ==
    [][\A b \in Backends :
          Len(requests'[b]) > Len(requests[b]) => m_identifier \in registered'[b]]_vars

\* A view that goes on reading what it shows comes to show all rows of the backend,
\* unless that backend cannot serve the loading type set for an earlier one.
Served == /\ m_serviceObject # None
          /\ m_loadingType = "DataChanged" => m_serviceObject \in SupportsGetSize
AllShown == m_serviceObject # None => m_itemList = list[m_serviceObject]
EverythingIsShown == <>[]Served => <>[]AllShown
=============================================================================
