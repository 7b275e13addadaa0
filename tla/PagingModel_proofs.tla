-------------------------- MODULE PagingModel_proofs --------------------------
(***************************************************************************)
(* Proofs about PagingModel: its types, that a model is registered with    *)
(* the backend it is connected to and with no other, that it fetches       *)
(* only from a backend it has registered with, if it is not reset before,  *)
(* and that the rows it shows are the backend's, each where it belongs,    *)
(* and marked only if they are there or on their way.                      *)
(***************************************************************************)
EXTENDS PagingModel, SequenceTheorems, TLAPS

-----------------------------------------------------------------------------
(* The types of what the handlers make of the rows *)

RowsType ==
    [items : Seq(Cells), chunks : Seq(BOOLEAN), fetched : Nat, more : BOOLEAN,
     sent : Seq(Request), bad : BOOLEAN]

\* A function on the first numbers is a sequence.
LEMMA FunctionIsSeq ==
    ASSUME NEW S, NEW n \in Nat, NEW f \in [1..n -> S]
    PROVE  f \in Seq(S) /\ Len(f) = n
OBVIOUS

\* What a state gives the operators on rows.
Given ==
    /\ m_serviceObject \in Backends \cup {None}
    /\ m_identifier \in 0..MaxCalls
    /\ m_chunkSize \in ChunkSizes
    /\ m_loadingType \in {"FetchMore", "DataChanged"}

\* What rows are made of.
LEMMA RowsTyped ==
    ASSUME TypeOK
    PROVE  Given /\ Rows \in RowsType
BY DEF TypeOK, Given, Rows, RowsType, Cells, Request

\* fetchData() keeps the type of the rows.
LEMMA FetchDataType ==
    ASSUME Given, NEW m \in RowsType, NEW start \in Nat
    PROVE  FetchData(m, start) \in RowsType /\ FetchData(m, start).items = m.items
<1> DEFINE chunk == start \div m_chunkSize + 1
           marked == [m.chunks EXCEPT ![chunk] = TRUE]
           chunks == IF chunk <= Len(m.chunks) THEN marked ELSE m.chunks
<1>1. m_chunkSize \in Nat \ {0} BY PagingAssumption DEF Given
<1>2. chunk \in Nat \ {0} BY <1>1
<1>3. RequestFrom(start) \in Request BY DEF RequestFrom, Request, Given
<1>4. m.chunks \in Seq(BOOLEAN) /\ m.sent \in Seq(Request) BY DEF RowsType
<1>5. chunks \in Seq(BOOLEAN)
  <2>1. CASE chunk <= Len(m.chunks)
    <3>1. chunk \in 1..Len(m.chunks) BY <1>2, <1>4, <2>1
    <3>2. marked \in Seq(BOOLEAN) BY <1>4, <3>1, ExceptSeq
    <3>3. QED BY <2>1, <3>2
  <2>2. CASE ~(chunk <= Len(m.chunks)) BY <2>2, <1>4
  <2>3. QED BY <2>1, <2>2
<1>6. Append(m.sent, RequestFrom(start)) \in Seq(Request) BY <1>3, <1>4
<1>7. FetchData(m, start) =
        IF m_serviceObject = None THEN m
        ELSE [m EXCEPT !.more = FALSE, !.chunks = chunks,
                       !.sent = Append(m.sent, RequestFrom(start))]
  BY DEF FetchData
<1> HIDE DEF chunk, marked, chunks
<1>8. QED BY <1>4, <1>5, <1>6, <1>7 DEF RowsType

\* fetchMore() keeps it.
LEMMA FetchMoreType ==
    ASSUME Given, NEW m \in RowsType
    PROVE  FetchMore(m) \in RowsType /\ FetchMore(m).items = m.items
<1>1. m.fetched \in Nat BY DEF RowsType
<1>2. QED BY <1>1, FetchDataType DEF FetchMore

\* resetModel() keeps it.
LEMMA ResetType ==
    ASSUME Given, NEW m \in RowsType
    PROVE  Reset(m) \in RowsType /\ Reset(m).items = <<>>
<1>1. <<>> \in Seq(Cells) /\ <<>> \in Seq(BOOLEAN) BY EmptySeq
<1>2. Cleared(m) \in RowsType /\ Cleared(m).items = <<>>
  BY <1>1 DEF Cleared, RowsType
<1>3. QED BY <1>2, FetchMoreType DEF Reset

\* onCountChanged() keeps it.
LEMMA CountedType ==
    ASSUME Given, NEW m \in RowsType, NEW n \in Nat
    PROVE  Counted(m, n) \in RowsType /\ Counted(m, n).sent = m.sent
<1> DEFINE rows == [i \in 1..n |-> Empty]
           marks == [c \in 1..ChunksFor(n) |-> c <= Len(m.chunks) /\ m.chunks[c]]
<1>1. m_chunkSize \in Nat \ {0} BY PagingAssumption DEF Given
<1>2. ChunksFor(n) \in Nat BY <1>1 DEF ChunksFor
<1>3. m.chunks \in Seq(BOOLEAN) /\ m.items \in Seq(Cells) BY DEF RowsType
<1>4. CASE ~Counts(m, n) BY <1>4 DEF Counted
<1>5. CASE Counts(m, n)
  <2>1. Empty \in Cells BY <1>5 DEF Counts, Cells
  <2>2. rows \in Seq(Cells) BY <2>1, FunctionIsSeq
  <2>3. m.items \o rows \in Seq(Cells) BY <1>3, <2>2
  <2>4. marks \in [1..ChunksFor(n) -> BOOLEAN] BY <1>2, <1>3
  <2>5. marks \in Seq(BOOLEAN) BY <1>2, <2>4, FunctionIsSeq
  <2>6. Counted(m, n) = [m EXCEPT !.items = m.items \o rows, !.chunks = marks]
    BY <1>5 DEF Counted
  <2> HIDE DEF rows, marks
  <2>7. QED BY <2>3, <2>5, <2>6 DEF RowsType
<1>6. QED BY <1>4, <1>5

\* onDataFetched() keeps it.
LEMMA FetchedType ==
    ASSUME Given, NEW m \in RowsType, NEW items \in Seq(Items), NEW start \in Nat,
           NEW more \in BOOLEAN
    PROVE  Fetched(m, items, start, more) \in RowsType
<1> DEFINE size == start + Len(items)
           chunk == start \div m_chunkSize + 1
           marked == [m.chunks EXCEPT ![chunk] = TRUE]
           chunks == IF chunk <= Len(m.chunks) THEN marked ELSE m.chunks
           filled == [i \in 1..Len(m.items) |-> IF i > start /\ i <= size
                                                THEN items[i - start] ELSE m.items[i]]
<1>1. m_chunkSize \in Nat \ {0} BY PagingAssumption DEF Given
<1>2. /\ size \in Nat /\ chunk \in Nat \ {0}
      /\ m.chunks \in Seq(BOOLEAN) /\ m.items \in Seq(Cells)
      /\ Len(m.items) \in Nat
  <2>1. m.chunks \in Seq(BOOLEAN) /\ m.items \in Seq(Cells) BY DEF RowsType
  <2>2. Len(items) \in Nat /\ Len(m.items) \in Nat BY <2>1, LenProperties
  <2>3. chunk \in Nat \ {0} BY <1>1
  <2>4. QED BY <2>1, <2>2, <2>3
<1>3. chunks \in Seq(BOOLEAN)
  <2>1. CASE chunk <= Len(m.chunks)
    <3>1. chunk \in 1..Len(m.chunks) BY <1>2, <2>1
    <3>2. marked \in Seq(BOOLEAN) BY <1>2, <3>1, ExceptSeq
    <3>3. QED BY <2>1, <3>2
  <2>2. CASE ~(chunk <= Len(m.chunks)) BY <2>2, <1>2
  <2>3. QED BY <2>1, <2>2
<1>4. filled \in Seq(Cells)
  <2>1. \A i \in 1..Len(m.items) : i > start /\ i <= size => items[i - start] \in Items
    BY <1>2
  <2>2. \A i \in 1..Len(m.items) : m.items[i] \in Cells BY <1>2
  <2>3. Items \subseteq Cells BY DEF Cells
  <2>4. filled \in [1..Len(m.items) -> Cells] BY <2>1, <2>2, <2>3
  <2>5. QED BY <1>2, <2>4, FunctionIsSeq
<1>5. m.items \o items \in Seq(Cells)
  <2>1. items \in Seq(Cells) BY DEF Cells
  <2>2. QED BY <1>2, <2>1
<1>6. (chunk > Len(m.chunks)) \in BOOLEAN OBVIOUS
<1>7. \/ Fetched(m, items, start, more) = [m EXCEPT !.bad = TRUE]
      \/ Fetched(m, items, start, more) =
            [m EXCEPT !.more = more, !.items = m.items \o items,
                      !.fetched = Len(m.items) + Len(items)]
      \/ Fetched(m, items, start, more) = [m EXCEPT !.more = more]
      \/ Fetched(m, items, start, more) =
            [m EXCEPT !.more = more, !.fetched = size, !.items = filled,
                      !.chunks = chunks, !.bad = chunk > Len(m.chunks)]
  BY DEF Fetched
<1>8. Len(m.items) + Len(items) \in Nat BY <1>2
<1> HIDE DEF size, chunk, marked, chunks, filled
<1>9. QED BY <1>2, <1>3, <1>4, <1>5, <1>6, <1>7, <1>8 DEF RowsType

\* onDataChanged() keeps it.
LEMMA EditedType ==
    ASSUME Given, NEW m \in RowsType, NEW data \in Seq(Items), NEW start \in Nat,
           NEW count \in Nat
    PROVE  /\ Edited(m, data, start, count) \in RowsType
           /\ Edited(m, data, start, count).sent = m.sent
<1> DEFINE updateCount == IF Len(data) < count THEN Len(data) ELSE count
           from == start + (IF updateCount > 0 THEN updateCount + 1 ELSE 0)
           excess == count - Len(data)
           updated == [i \in 1..Len(m.items) |->
                          IF i > start /\ i <= start + updateCount
                          THEN data[i - start] ELSE m.items[i]]
           Remaining(i) == IF i <= from THEN i
                           ELSE IF i < from + excess THEN 2 * i - from ELSE i + excess
           inserted == SubSeq(m.items, 1, start) \o data
                       \o SubSeq(m.items, start + 1, Len(m.items))
           removed == [i \in 1..(Len(m.items) - excess) |-> updated[Remaining(i)]]
<1>1. /\ m.items \in Seq(Cells) /\ data \in Seq(Cells)
      /\ Len(data) \in Nat /\ Len(m.items) \in Nat
  BY DEF RowsType, Cells
<1>2. updateCount \in Nat /\ from \in Nat /\ excess \in Int
  BY <1>1
<1>3. updated \in [1..Len(m.items) -> Cells]
  <2>1. \A i \in 1..Len(m.items) :
           i > start /\ i <= start + updateCount => data[i - start] \in Cells
    BY <1>1
  <2>2. QED BY <1>1, <2>1
<1>4. updated \in Seq(Cells) BY <1>1, <1>3, FunctionIsSeq
<1>5. start <= Len(m.items) => inserted \in Seq(Cells)
  <2>1. HAVE start <= Len(m.items)
  <2>2. /\ \A i \in 1..start : m.items[i] \in Cells
        /\ \A i \in (start + 1)..Len(m.items) : m.items[i] \in Cells
    BY <1>1, <2>1
  <2>3. SubSeq(m.items, 1, start) \in Seq(Cells) BY <2>2, SubSeqProperties
  <2>4. SubSeq(m.items, start + 1, Len(m.items)) \in Seq(Cells)
    BY <1>1, <2>2, SubSeqProperties
  <2>5. QED BY <1>1, <2>3, <2>4
<1>6. (excess > 0 /\ from + 2 * (excess - 1) < Len(m.items)) => removed \in Seq(Cells)
  <2>1. HAVE excess > 0 /\ from + 2 * (excess - 1) < Len(m.items)
  <2> HIDE DEF updateCount, from, excess, updated
  <2>2. Len(m.items) - excess \in Nat BY <1>1, <1>2, <2>1
  <2>3. \A i \in 1..(Len(m.items) - excess) : Remaining(i) \in 1..Len(m.items)
    BY <1>1, <1>2, <2>1, <2>2
  <2>4. removed \in [1..(Len(m.items) - excess) -> Cells] BY <1>3, <2>3
  <2>5. QED BY <2>2, <2>4, FunctionIsSeq
<1>7. \/ Edited(m, data, start, count) = m
      \/ Edited(m, data, start, count) = [m EXCEPT !.items = updated]
      \/ Edited(m, data, start, count) = [m EXCEPT !.bad = TRUE]
      \/ /\ start <= Len(m.items)
         /\ Edited(m, data, start, count) = [m EXCEPT !.items = inserted]
      \/ /\ excess > 0 /\ from + 2 * (excess - 1) < Len(m.items)
         /\ Edited(m, data, start, count) = [m EXCEPT !.items = removed]
  <2>1. CASE start > Len(m.items) \/ count > Len(m.items) - start
    BY <2>1 DEF Edited
  <2>2. CASE /\ ~(start > Len(m.items) \/ count > Len(m.items) - start)
             /\ excess = 0
    BY <2>2 DEF Edited
  <2>3. CASE /\ ~(start > Len(m.items) \/ count > Len(m.items) - start)
             /\ excess < 0
    <3>1. Edited(m, data, start, count) =
            IF updateCount > 0 THEN [m EXCEPT !.bad = TRUE]
            ELSE [m EXCEPT !.items = inserted]
      BY <2>3 DEF Edited
    <3>2. start <= Len(m.items) BY <1>1, <2>3
    <3> HIDE DEF updateCount, inserted
    <3>3. QED BY <3>1, <3>2
  <2>4. CASE /\ ~(start > Len(m.items) \/ count > Len(m.items) - start)
             /\ excess > 0
    <3>1. ~(excess = 0) /\ ~(excess < 0) BY <1>2, <2>4
    <3>2. Edited(m, data, start, count) =
            IF from + 2 * (excess - 1) >= Len(m.items) THEN [m EXCEPT !.bad = TRUE]
            ELSE [m EXCEPT !.items = removed]
      BY <2>4, <3>1 DEF Edited
    <3> HIDE DEF updateCount, from, excess, updated, inserted, removed
    <3>3. from + 2 * (excess - 1) >= Len(m.items) \/ from + 2 * (excess - 1) < Len(m.items)
      BY <1>1, <1>2
    <3>4. QED BY <2>4, <3>2, <3>3
  <2> HIDE DEF updateCount, from, excess, updated, Remaining, inserted, removed
  <2>5. QED BY <1>2, <2>1, <2>2, <2>3, <2>4
<1> HIDE DEF updateCount, from, excess, updated, Remaining, inserted, removed
<1>8. QED BY <1>4, <1>5, <1>6, <1>7 DEF RowsType

\* data() keeps it.
LEMMA ReadType ==
    ASSUME TypeOK, NEW row \in Nat
    PROVE  Read(row) \in RowsType
<1>1. Given /\ Rows \in RowsType BY RowsTyped
<1>2. m_chunkSize \in Nat \ {0} BY <1>1, PagingAssumption DEF Given
<1> DEFINE chunk == row \div m_chunkSize + 1
           far == m_loadingType = "DataChanged" /\ chunk > Len(m_availableChunks)
<1>3. (chunk - 1) * m_chunkSize \in Nat
  <2>1. row \div m_chunkSize \in Nat BY <1>2
  <2>2. \A x, y \in Nat : (x + 1 - 1) * y \in Nat
    <3>1. \A x \in Nat : x + 1 - 1 = x OBVIOUS
    <3>2. \A x, y \in Nat : x * y \in Nat OBVIOUS
    <3>3. QED BY <3>1, <3>2
  <2>3. QED BY <1>2, <2>1, <2>2
<1>4. [Rows EXCEPT !.bad = TRUE] \in RowsType BY <1>1 DEF RowsType
<1>5. FetchMore(Rows) \in RowsType BY <1>1, FetchMoreType
<1>6. FetchData(Rows, (chunk - 1) * m_chunkSize) \in RowsType
  <2> HIDE DEF chunk
  <2>1. QED BY <1>1, <1>3, FetchDataType
<1>7. CASE far
  <2>1. Read(row) = [Rows EXCEPT !.bad = TRUE] BY <1>7 DEF Read, Rows
  <2>2. QED BY <1>4, <2>1
<1>8. CASE ~far /\ m_loadingType = "DataChanged"
  <2>1. chunk \in 1..Len(m_availableChunks)
    <3>1. chunk \in Nat \ {0} BY <1>2
    <3>2. Len(m_availableChunks) \in Nat BY DEF TypeOK
    <3>3. QED BY <1>8, <3>1, <3>2
  <2>2. m_availableChunks[chunk] \in BOOLEAN BY <2>1 DEF TypeOK
  <2>3. CASE ~m_availableChunks[chunk]
    <3>1. Read(row) = FetchData(Rows, (chunk - 1) * m_chunkSize) BY <1>8, <2>3 DEF Read
    <3> HIDE DEF chunk
    <3>2. QED BY <1>6, <3>1
  <2>4. CASE m_availableChunks[chunk]
    <3>1. Read(row) = FetchMore(Rows) \/ Read(row) = Rows BY <1>8, <2>4 DEF Read
    <3>2. QED BY <1>1, <1>5, <3>1
  <2>5. QED BY <2>2, <2>3, <2>4
<1>9. CASE m_loadingType # "DataChanged"
  <2>1. Read(row) = FetchMore(Rows) \/ Read(row) = Rows BY <1>9 DEF Read
  <2>2. QED BY <1>1, <1>5, <2>1
<1>10. QED BY <1>7, <1>8, <1>9

-----------------------------------------------------------------------------
(* Type correctness *)

\* The bound of the identifiers: each call takes at most one.
Typed == TypeOK /\ m_identifier <= calls

\* What a handler makes of the rows is of the type.
LEMMA BecomesType ==
    ASSUME TypeOK, NEW m \in RowsType, Becomes(m)
    PROVE  /\ m_availableChunks' \in Seq(BOOLEAN)
           /\ m_fetchedDataCount' \in Nat
           /\ m_moreAvailable' \in BOOLEAN
           /\ undefined' \in BOOLEAN
           /\ requests' \in [Backends -> Seq(Request)]
           /\ m_itemList' = m.items /\ m.items \in Seq(Cells)
<1>1. m.sent \in Seq(Request) BY DEF RowsType
<1>2. ASSUME NEW b \in Backends PROVE requests[b] \o m.sent \in Seq(Request)
  BY <1>1 DEF TypeOK
<1>3. requests' \in [Backends -> Seq(Request)]
  BY <1>2 DEF Becomes, TypeOK
<1>4. QED BY <1>3 DEF Becomes, RowsType

\* The types are right initially.
LEMMA InitTyped == Init => Typed
<1> SUFFICES ASSUME Init PROVE Typed OBVIOUS
<1>1. m_itemList \in Seq(Cells) /\ m_availableChunks \in Seq(BOOLEAN) BY DEF Init
<1>2. requests \in [Backends -> Seq(Request)] BY DEF Init
<1>3. registered \in [Backends -> SUBSET (0..MaxCalls)] BY DEF Init
<1>4. m_chunkSize \in ChunkSizes /\ m_fetchMoreThreshold \in Thresholds
  BY PagingAssumption DEF Init
<1>5. m_identifier \in 0..MaxCalls /\ calls \in 0..MaxCalls /\ m_identifier <= calls
  BY PagingAssumption DEF Init
<1>6. list \in [Backends -> Seq(Items)] BY PagingAssumption DEF Init
<1>7. QED BY <1>1, <1>2, <1>3, <1>4, <1>5, <1>6 DEF Init, Typed, TypeOK

\* A step that changes rows only.
LEMMA RowsStepTyped ==
    ASSUME TypeOK, m_identifier <= calls, NEW m \in RowsType, Becomes(m),
           UNCHANGED <<settings, list>>,
           m_serviceObject' \in Backends \cup {None}, m_isInitialized' \in BOOLEAN,
           registered' \in [Backends -> SUBSET (0..MaxCalls)],
           calls' \in {calls, calls + 1} \cap (0..MaxCalls)
    PROVE  Typed'
<1>1. Cells' = Cells BY DEF Cells, settings
<1>2. Request' = Request BY DEF Request
<1>3. m_identifier' <= calls' BY DEF TypeOK, settings
<1>4. QED BY <1>1, <1>2, <1>3, BecomesType DEF Typed, TypeOK, settings

\* The calls that a handler makes are calls.
LEMMA CallsTyped ==
    ASSUME TypeOK, Call
    PROVE  calls' \in {calls, calls + 1} \cap (0..MaxCalls) /\ calls' = calls + 1
BY PagingAssumption DEF TypeOK, Call

\* A backend changes its rows.
LEMMA ChangeTyped ==
    ASSUME Typed, NEW b \in Backends, NEW rows \in Seq(Items), NEW m \in RowsType,
           Change(b, rows, m)
    PROVE  Typed'
<1>1. TypeOK /\ m_identifier <= calls BY DEF Typed
<1>2. calls' \in 0..MaxCalls /\ m_identifier' <= calls'
  BY <1>1, CallsTyped DEF Change, settings, TypeOK
<1>3. list' \in [Backends -> Seq(Items)] BY <1>1 DEF TypeOK, Change
<1>4. Cells' = Cells BY DEF Cells, Change, settings
<1>5. Request' = Request BY DEF Request
<1>6. CASE b = m_serviceObject /\ Becomes(m)
  BY <1>1, <1>2, <1>3, <1>4, <1>5, <1>6, BecomesType
     DEF Typed, TypeOK, Change, settings, binding
<1>7. CASE UNCHANGED rowVars
  BY <1>1, <1>2, <1>3, <1>4, <1>5, <1>7
     DEF Typed, TypeOK, Change, settings, binding, rowVars
<1>8. QED BY <1>6, <1>7 DEF Change

\* Sequences that are joined.
LEMMA ConcatTyped ==
    ASSUME NEW S, NEW p \in Seq(S), NEW q \in Seq(S)
    PROVE  p \o q \in Seq(S) /\ Len(p \o q) = Len(p) + Len(q)
OBVIOUS

\* A sequence with an element more.
LEMMA InsertTyped ==
    ASSUME NEW s \in Seq(Items), NEW i \in 1..(Len(s) + 1), NEW e \in Items
    PROVE  InsertAt(s, i, e) \in Seq(Items) /\ Len(InsertAt(s, i, e)) = Len(s) + 1
<1>1. /\ \A k \in 1..(i - 1) : s[k] \in Items
      /\ \A k \in i..Len(s) : s[k] \in Items
  OBVIOUS
<1>2. /\ SubSeq(s, 1, i - 1) \in Seq(Items) /\ Len(SubSeq(s, 1, i - 1)) = i - 1
      /\ SubSeq(s, i, Len(s)) \in Seq(Items) /\ Len(SubSeq(s, i, Len(s))) = Len(s) - i + 1
  BY <1>1, SubSeqProperties
<1>3. <<e>> \in Seq(Items) /\ Len(<<e>>) = 1 OBVIOUS
<1> DEFINE first == SubSeq(s, 1, i - 1)
           last == SubSeq(s, i, Len(s))
<1>4. InsertAt(s, i, e) = (first \o <<e>>) \o last BY DEF InsertAt
<1>5. Len(s) \in Nat /\ i \in Nat BY LenProperties
<1> HIDE DEF first, last
<1>6. first \o <<e>> \in Seq(Items) /\ Len(first \o <<e>>) = i
  BY <1>2, <1>3, <1>5, ConcatTyped DEF first
<1>7. last \in Seq(Items) /\ Len(last) = Len(s) - i + 1 BY <1>2 DEF last
<1>8. /\ (first \o <<e>>) \o last \in Seq(Items)
      /\ Len((first \o <<e>>) \o last) = Len(first \o <<e>>) + Len(last)
  BY <1>6, <1>7, ConcatTyped
<1>9. i + (Len(s) - i + 1) = Len(s) + 1 BY <1>5
<1>10. Len((first \o <<e>>) \o last) = Len(s) + 1 BY <1>6, <1>7, <1>8, <1>9
<1>11. QED BY <1>4, <1>8, <1>10, Zenon

\* A sequence with an element less.
LEMMA RemoveTyped ==
    ASSUME NEW s \in Seq(Items), NEW i \in 1..Len(s)
    PROVE  RemoveAt(s, i) \in Seq(Items) /\ Len(RemoveAt(s, i)) = Len(s) - 1
<1>1. /\ \A k \in 1..(i - 1) : s[k] \in Items
      /\ \A k \in (i + 1)..Len(s) : s[k] \in Items
  OBVIOUS
<1>2. /\ SubSeq(s, 1, i - 1) \in Seq(Items) /\ Len(SubSeq(s, 1, i - 1)) = i - 1
      /\ SubSeq(s, i + 1, Len(s)) \in Seq(Items)
      /\ Len(SubSeq(s, i + 1, Len(s))) = Len(s) - i
  BY <1>1, SubSeqProperties
<1>3. Len(s) \in Nat /\ i \in Nat BY LenProperties
<1>4. RemoveAt(s, i) = SubSeq(s, 1, i - 1) \o SubSeq(s, i + 1, Len(s)) BY DEF RemoveAt
<1>5. /\ RemoveAt(s, i) \in Seq(Items)
      /\ Len(RemoveAt(s, i)) = (i - 1) + (Len(s) - i)
  BY <1>2, <1>3, <1>4, ConcatTyped
<1>6. QED BY <1>3, <1>5

\* A part of a sequence.
LEMMA SliceTyped ==
    ASSUME NEW s \in Seq(Items), NEW from \in Nat, NEW to \in Int, to <= Len(s)
    PROVE  SubSeq(s, from + 1, to) \in Seq(Items)
<1>1. \A k \in (from + 1)..to : s[k] \in Items OBVIOUS
<1>2. QED BY <1>1, SubSeqProperties

\* What a backend answers with.
LEMMA AnsweredTyped ==
    ASSUME TypeOK, NEW b \in Backends, NEW request \in Request
    PROVE  Answered(b, request) \in RowsType
<1> DEFINE start == request.start
           last == start + request.count
           size == Len(list[b])
           end == IF last < size THEN last ELSE size
           items == SubSeq(list[b], start + 1, end)
<1>1. Given /\ Rows \in RowsType BY RowsTyped
<1>2. list[b] \in Seq(Items) BY DEF TypeOK
<1>3. size \in Nat BY <1>2, LenProperties
<1>4. start \in Nat /\ last \in Nat
  <2>1. request.start \in Nat /\ request.count \in ChunkSizes BY DEF Request
  <2>2. request.count \in Nat BY <2>1, PagingAssumption
  <2>3. QED BY <2>1, <2>2
<1>5. Announced(b) \in RowsType BY <1>1, <1>3, CountedType DEF Announced
<1>6. items \in Seq(Items)
  <2>1. end \in Int /\ end <= size BY <1>3, <1>4
  <2> HIDE DEF start, last, end
  <2>2. QED BY <1>2, <1>4, <2>1, SliceTyped
<1>7. Answered(b, request) =
        IF items = <<>> THEN Announced(b)
        ELSE Fetched(Announced(b), items, start, last < size)
  BY DEF Answered
<1>8. (last < size) \in BOOLEAN OBVIOUS
<1> HIDE DEF start, last, size, end, items
<1>9. QED BY <1>1, <1>4, <1>5, <1>6, <1>7, <1>8, FetchedType

\* The registrations that are left when the model has unregistered.
LEMMA UnregisteredTyped ==
    ASSUME TypeOK
    PROVE  Unregistered \in [Backends -> SUBSET (0..MaxCalls)]
BY DEF TypeOK, Unregistered

\* What the view does keeps the types.
LEMMA ViewTyped == Typed /\ View => Typed'
<1> SUFFICES ASSUME Typed, View PROVE Typed' OBVIOUS
<1>1. TypeOK /\ m_identifier <= calls BY DEF Typed
<1>2. Given /\ Rows \in RowsType BY <1>1, RowsTyped
<1>3. CASE ViewFetchesMore
  <2>1. FetchMore(Rows) \in RowsType BY <1>2, FetchMoreType
  <2>2. QED BY <1>1, <1>3, <2>1, RowsStepTyped DEF ViewFetchesMore, TypeOK, binding
<1>4. ASSUME NEW row \in 0..(Len(m_itemList) - 1), Data(row) PROVE Typed'
  <2>1. row \in Nat BY <1>1 DEF TypeOK
  <2>2. Read(row) \in RowsType BY <1>1, <2>1, ReadType
  <2>3. QED BY <1>1, <1>4, <2>2, RowsStepTyped DEF Data, TypeOK, binding
<1>5. QED BY <1>3, <1>4 DEF View

\* reload() keeps the types.
LEMMA ReloadTyped == Typed /\ Reload => Typed'
<1> SUFFICES ASSUME Typed, Reload PROVE Typed' OBVIOUS
<1>1. TypeOK /\ m_identifier <= calls BY DEF Typed
<1>2. Reset(Rows) \in RowsType BY <1>1, RowsTyped, ResetType
<1>3. QED BY <1>1, <1>2, CallsTyped, RowsStepTyped DEF Reload, TypeOK, binding

\* Rows of another loading type have other cells: there are none left.
LEMMA SetLoadingTypeTyped ==
    ASSUME Typed, NEW type \in {"FetchMore", "DataChanged"}, SetLoadingType(type)
    PROVE  Typed'
<1>1. TypeOK /\ m_identifier <= calls BY DEF Typed
<1>2. Reset(Rows) \in RowsType /\ Reset(Rows).items = <<>>
  BY <1>1, RowsTyped, ResetType
<1>3. Becomes(Reset(Rows)) BY DEF SetLoadingType
<1>4. m_itemList' \in Seq(Cells') BY <1>2, <1>3, EmptySeq DEF Becomes
<1>5. calls' \in 0..MaxCalls /\ m_identifier' <= calls'
  BY <1>1, CallsTyped DEF SetLoadingType, TypeOK
<1>6. Request' = Request BY DEF Request
<1>7. QED BY <1>1, <1>2, <1>3, <1>4, <1>5, <1>6, BecomesType
          DEF Typed, TypeOK, SetLoadingType, binding

\* The setters of the loading type and the chunk size keep the types.
LEMMA SettingsTyped ==
    ASSUME Typed,
           \/ \E size \in ChunkSizes : SetChunkSize(size)
           \/ \E threshold \in Thresholds : SetFetchMoreThreshold(threshold)
    PROVE  Typed'
<1>1. TypeOK /\ m_identifier <= calls BY DEF Typed
<1>2. calls' \in 0..MaxCalls /\ m_identifier' <= calls'
  BY <1>1, CallsTyped DEF SetChunkSize, SetFetchMoreThreshold, TypeOK
<1>3. Cells' = Cells BY DEF Cells, SetChunkSize, SetFetchMoreThreshold
<1>4. Request' = Request BY DEF Request
<1>5. CASE \E size \in ChunkSizes : SetChunkSize(size)
  BY <1>1, <1>2, <1>3, <1>4, <1>5 DEF Typed, TypeOK, SetChunkSize, rowVars, binding
<1>6. CASE \E threshold \in Thresholds : SetFetchMoreThreshold(threshold)
  BY <1>1, <1>2, <1>3, <1>4, <1>6
     DEF Typed, TypeOK, SetFetchMoreThreshold, rowVars, binding
<1>7. QED BY <1>5, <1>6

\* setServiceObject() keeps the types.
LEMMA SetServiceObjectTyped ==
    ASSUME Typed, NEW so \in Backends \cup {None}, SetServiceObject(so)
    PROVE  Typed'
<1>1. TypeOK /\ m_identifier <= calls BY DEF Typed
<1>2. calls' \in 0..MaxCalls /\ calls' = calls + 1
  BY <1>1, CallsTyped DEF SetServiceObject
<1>3. /\ registered' \in [Backends -> SUBSET (0..MaxCalls)]
      /\ m_serviceObject' \in Backends \cup {None}
      /\ m_isInitialized' \in BOOLEAN /\ list' \in [Backends -> Seq(Items)]
  BY <1>1, UnregisteredTyped DEF SetServiceObject, TypeOK
<1>4. Request' = Request BY DEF Request
<1>5. CASE so = None /\ ClearToDefaults
  <2>1. m_identifier' \in 0..MaxCalls /\ m_identifier' <= calls'
    BY <1>1, <1>2, <1>5, PagingAssumption DEF ClearToDefaults, NewIdentifier, TypeOK
  <2>2. m_chunkSize' \in ChunkSizes /\ m_fetchMoreThreshold' \in Thresholds
    BY <1>5, PagingAssumption DEF ClearToDefaults
  <2>3. /\ m_itemList' \in Seq(Cells') /\ m_availableChunks' \in Seq(BOOLEAN)
        /\ m_fetchedDataCount' \in Nat /\ m_moreAvailable' \in BOOLEAN
        /\ m_loadingType' \in {"FetchMore", "DataChanged"} /\ m_capabilities' \in BOOLEAN
    BY <1>5, EmptySeq DEF ClearToDefaults
  <2>4. requests' \in [Backends -> Seq(Request')] /\ undefined' \in BOOLEAN
    BY <1>1, <1>4, <1>5 DEF ClearToDefaults, TypeOK
  <2>5. QED BY <1>2, <1>3, <2>1, <2>2, <2>3, <2>4 DEF Typed, TypeOK
<1>6. CASE UNCHANGED <<rowVars, settings>>
  <2>1. Cells' = Cells BY <1>6 DEF Cells, settings
  <2>2. m_identifier' <= calls' BY <1>1, <1>2, <1>6 DEF settings, TypeOK
  <2>3. QED BY <1>1, <1>2, <1>3, <1>4, <1>6, <2>1, <2>2
            DEF Typed, TypeOK, settings, rowVars
<1>7. QED BY <1>5, <1>6 DEF SetServiceObject

\* initializationDone() keeps the types.
LEMMA InitializationDoneTyped == Typed /\ InitializationDone => Typed'
<1> SUFFICES ASSUME Typed, InitializationDone PROVE Typed' OBVIOUS
<1>1. TypeOK /\ m_identifier <= calls BY DEF Typed
<1>2. Reset(Rows) \in RowsType BY <1>1, RowsTyped, ResetType
<1>3. registered' \in [Backends -> SUBSET (0..MaxCalls)]
  BY <1>1 DEF InitializationDone, Registered, TypeOK
<1>4. calls' \in {calls, calls + 1} \cap (0..MaxCalls)
  BY <1>1 DEF InitializationDone, TypeOK
<1>5. QED BY <1>1, <1>2, <1>3, <1>4, RowsStepTyped DEF InitializationDone, TypeOK

\* An answer of the backend keeps the types.
LEMMA AnswerTyped ==
    ASSUME Typed, NEW b \in Backends, Answer(b)
    PROVE  Typed'
<1>1. TypeOK /\ m_identifier <= calls BY DEF Typed
<1> DEFINE m == Answered(b, Head(requests[b]))
<1>2. requests[b] \in Seq(Request) /\ requests[b] # <<>> BY <1>1 DEF TypeOK, Answer
<1>3. Head(requests[b]) \in Request /\ Tail(requests[b]) \in Seq(Request)
  BY <1>2, HeadTailProperties
<1>4. m \in RowsType BY <1>1, <1>3, AnsweredTyped
<1>5. requests' \in [Backends -> Seq(Request)] BY <1>1, <1>3 DEF TypeOK, Answer
<1>6. Cells' = Cells BY DEF Cells, Answer
<1>7. Request' = Request BY DEF Request
<1>8. m_identifier' <= calls' BY <1>1 DEF Answer
<1>9. /\ m_capabilities' \in BOOLEAN /\ m_itemList' \in Seq(Cells)
      /\ m_availableChunks' \in Seq(BOOLEAN) /\ m_fetchedDataCount' \in Nat
      /\ m_moreAvailable' \in BOOLEAN /\ undefined' \in BOOLEAN
  <2>1. CASE Addressed(b, Head(requests[b]).id)
    <3>1. /\ m_capabilities' = (b \in SupportsGetSize) /\ m_itemList' = m.items
          /\ m_availableChunks' = m.chunks /\ m_fetchedDataCount' = m.fetched
          /\ m_moreAvailable' = m.more /\ undefined' = m.bad
      BY <2>1 DEF Answer
    <3> HIDE DEF m
    <3>2. QED BY <1>4, <3>1 DEF RowsType
  <2>2. CASE ~Addressed(b, Head(requests[b]).id)
    BY <1>1, <2>2 DEF Answer, TypeOK
  <2>3. QED BY <2>1, <2>2
<1>10. QED BY <1>1, <1>5, <1>6, <1>7, <1>8, <1>9 DEF Typed, TypeOK, Answer, binding

\* A change in a backend, which makes the model fetch nothing.
IsChange(b) ==
    \E rows \in Seq(Items), m \in RowsType : m.sent = <<>> /\ Change(b, rows, m)

\* A row that the backend inserts.
LEMMA InsertRowChanges ==
    ASSUME Typed, NEW b \in Backends, NEW index \in Nat, InsertRow(b, index)
    PROVE  IsChange(b)
<1>1. TypeOK BY DEF Typed
<1>2. Given /\ Rows \in RowsType BY <1>1, RowsTyped
<1>3. list[b] \in Seq(Items) /\ Len(list[b]) \in Nat BY <1>1, LenProperties DEF TypeOK
<1>4. PICK item \in Fresh : Change(b, InsertAt(list[b], index + 1, item),
                 Counted(Edited(Rows, <<item>>, index, 0), Len(list[b]) + 1))
  BY DEF InsertRow
<1>5. item \in Items BY <1>4 DEF Fresh
<1>6. index + 1 \in 1..(Len(list[b]) + 1) BY <1>3 DEF InsertRow
<1>7. InsertAt(list[b], index + 1, item) \in Seq(Items) BY <1>3, <1>5, <1>6, InsertTyped
<1>8. <<item>> \in Seq(Items) BY <1>5
<1>9. Edited(Rows, <<item>>, index, 0) \in RowsType BY <1>2, <1>8, EditedType
<1>10. Counted(Edited(Rows, <<item>>, index, 0), Len(list[b]) + 1) \in RowsType
  BY <1>2, <1>3, <1>9, CountedType
<1>11. Rows.sent = <<>> BY DEF Rows
<1>12. Counted(Edited(Rows, <<item>>, index, 0), Len(list[b]) + 1).sent = <<>>
  <2>1. Edited(Rows, <<item>>, index, 0).sent = <<>> BY <1>2, <1>8, <1>11, EditedType
  <2> DEFINE edited == Edited(Rows, <<item>>, index, 0)
             count == Len(list[b]) + 1
  <2>2. count \in Nat BY <1>3
  <2> HIDE DEF edited, count
  <2>3. Counted(edited, count).sent = edited.sent BY <1>2, <1>9, <2>2, CountedType DEF edited
  <2>4. QED BY <2>1, <2>3 DEF edited, count
<1>13. QED BY <1>4, <1>7, <1>10, <1>12 DEF IsChange

\* A row that the backend removes.
LEMMA RemoveRowChanges ==
    ASSUME Typed, NEW b \in Backends, NEW index \in Nat, RemoveRow(b, index)
    PROVE  IsChange(b)
<1>1. TypeOK BY DEF Typed
<1>2. Given /\ Rows \in RowsType BY <1>1, RowsTyped
<1>3. list[b] \in Seq(Items) /\ Len(list[b]) \in Nat BY <1>1, LenProperties DEF TypeOK
<1>4. index + 1 \in 1..Len(list[b]) /\ Len(list[b]) - 1 \in Nat BY <1>3 DEF RemoveRow
<1>5. RemoveAt(list[b], index + 1) \in Seq(Items) BY <1>3, <1>4, RemoveTyped
<1>6. <<>> \in Seq(Items) BY EmptySeq
<1>7. Edited(Rows, <<>>, index, 1) \in RowsType BY <1>2, <1>6, EditedType
<1>8. Counted(Edited(Rows, <<>>, index, 1), Len(list[b]) - 1) \in RowsType
  BY <1>2, <1>4, <1>7, CountedType
<1>9. Rows.sent = <<>> BY DEF Rows
<1>10. Counted(Edited(Rows, <<>>, index, 1), Len(list[b]) - 1).sent = <<>>
  <2>1. Edited(Rows, <<>>, index, 1).sent = <<>> BY <1>2, <1>6, <1>9, EditedType
  <2>2. QED BY <1>2, <1>4, <1>7, <2>1, CountedType
<1>11. QED BY <1>5, <1>8, <1>10 DEF RemoveRow, IsChange

\* A row that the backend moves.
LEMMA MoveRowChanges ==
    ASSUME Typed, NEW b \in Backends, NEW from \in Nat, NEW to \in Nat,
           MoveRow(b, from, to)
    PROVE  IsChange(b)
<1> DEFINE min == IF from < to THEN from ELSE to
           max == IF from < to THEN to ELSE from
           item == list[b][from + 1]
           moved == InsertAt(RemoveAt(list[b], from + 1), to + 1, item)
           data == SubSeq(moved, min + 1, max + 1)
<1>1. TypeOK BY DEF Typed
<1>2. Given /\ Rows \in RowsType BY <1>1, RowsTyped
<1>3. list[b] \in Seq(Items) /\ Len(list[b]) \in Nat BY <1>1, LenProperties DEF TypeOK
<1>4. from + 1 \in 1..Len(list[b]) /\ to + 1 \in 1..Len(list[b]) BY <1>3 DEF MoveRow
<1>5. item \in Items BY <1>3, <1>4, ElementOfSeq
<1>6. /\ RemoveAt(list[b], from + 1) \in Seq(Items)
      /\ Len(RemoveAt(list[b], from + 1)) = Len(list[b]) - 1
  BY <1>3, <1>4, RemoveTyped
<1> HIDE DEF item
<1>7. moved \in Seq(Items) /\ Len(moved) = Len(list[b])
  <2>1. to + 1 \in 1..(Len(RemoveAt(list[b], from + 1)) + 1) BY <1>3, <1>4, <1>6
  <2>2. moved \in Seq(Items) /\ Len(moved) = Len(RemoveAt(list[b], from + 1)) + 1
    BY <1>5, <1>6, <2>1, InsertTyped
  <2> HIDE DEF moved
  <2>3. QED BY <1>3, <1>6, <2>2
<1>8. min \in Nat /\ max + 1 \in Int /\ max + 1 <= Len(list[b]) /\ max - min + 1 \in Nat
  BY <1>3, <1>4
<1>9. Change(b, moved, Edited(Rows, data, min, max - min + 1)) BY DEF MoveRow, item
<1> HIDE DEF min, max, moved
<1>10. data \in Seq(Items) BY <1>7, <1>8, SliceTyped
<1> HIDE DEF data
<1>11. Rows.sent = <<>> BY DEF Rows
<1>12. /\ Edited(Rows, data, min, max - min + 1) \in RowsType
       /\ Edited(Rows, data, min, max - min + 1).sent = <<>>
  BY <1>2, <1>8, <1>10, <1>11, EditedType
<1>13. QED BY <1>7, <1>9, <1>12 DEF IsChange

\* A row that the backend changes.
LEMMA UpdateRowChanges ==
    ASSUME Typed, NEW b \in Backends, NEW index \in Nat, UpdateRow(b, index)
    PROVE  IsChange(b)
<1>1. TypeOK BY DEF Typed
<1>2. Given /\ Rows \in RowsType BY <1>1, RowsTyped
<1>3. list[b] \in Seq(Items) /\ Len(list[b]) \in Nat BY <1>1, LenProperties DEF TypeOK
<1>4. PICK item \in Fresh : Change(b, ReplaceAt(list[b], index + 1, item),
                                   Edited(Rows, <<item>>, index, 1))
  BY DEF UpdateRow
<1>5. item \in Items /\ <<item>> \in Seq(Items) BY <1>4 DEF Fresh
<1>6. ReplaceAt(list[b], index + 1, item) \in Seq(Items)
  <2>1. ReplaceAt(list[b], index + 1, item) = [list[b] EXCEPT ![index + 1] = item]
    BY DEF ReplaceAt
  <2>2. index + 1 \in 1..Len(list[b]) BY <1>3 DEF UpdateRow
  <2>3. [list[b] EXCEPT ![index + 1] = item] \in Seq(Items) BY <1>3, <1>5, <2>2, ExceptSeq
  <2>4. QED BY <2>1, <2>3
<1>7. Rows.sent = <<>> BY DEF Rows
<1>8. /\ Edited(Rows, <<item>>, index, 1) \in RowsType
      /\ Edited(Rows, <<item>>, index, 1).sent = <<>>
  BY <1>2, <1>5, <1>7, EditedType
<1>9. QED BY <1>4, <1>6, <1>8 DEF IsChange

\* A list of the backend that grows at its end.
LEMMA GrowChanges ==
    ASSUME Typed, NEW b \in Backends, Grow(b)
    PROVE  IsChange(b)
<1>1. TypeOK BY DEF Typed
<1>2. Given /\ Rows \in RowsType BY <1>1, RowsTyped
<1>3. list[b] \in Seq(Items) /\ Len(list[b]) + 1 \in Nat BY <1>1, LenProperties DEF TypeOK
<1>4. PICK item \in Fresh :
         Change(b, Append(list[b], item), Counted(Rows, Len(list[b]) + 1))
  BY DEF Grow
<1>5. item \in Items BY <1>4 DEF Fresh
<1>6. Append(list[b], item) \in Seq(Items) BY <1>3, <1>5, AppendProperties
<1>7. Rows.sent = <<>> BY DEF Rows
<1>8. /\ Counted(Rows, Len(list[b]) + 1) \in RowsType
      /\ Counted(Rows, Len(list[b]) + 1).sent = <<>>
  BY <1>2, <1>3, <1>7, CountedType
<1>9. QED BY <1>4, <1>6, <1>8 DEF IsChange

\* What a backend does by itself.
LEMMA BackendCases ==
    ASSUME Typed, NEW b \in Backends, Backend(b)
    PROVE  Answer(b) \/ IsChange(b)
<1>1. 0..MaxRows \subseteq Nat BY PagingAssumption
<1>2. ASSUME NEW i \in 0..MaxRows,
             InsertRow(b, i) \/ RemoveRow(b, i) \/ UpdateRow(b, i)
                \/ \E j \in 0..MaxRows : MoveRow(b, i, j)
      PROVE  IsChange(b)
  BY <1>1, <1>2, InsertRowChanges, RemoveRowChanges, UpdateRowChanges, MoveRowChanges
<1>3. QED BY <1>2, GrowChanges DEF Backend

\* Every step keeps the types.
LEMMA NextTyped == Typed /\ [Next]_vars => Typed'
<1> SUFFICES ASSUME Typed, [Next]_vars PROVE Typed' OBVIOUS
<1>1. CASE View BY <1>1, ViewTyped
<1>2. CASE Application
  BY <1>2, ReloadTyped, SetLoadingTypeTyped, SettingsTyped, SetServiceObjectTyped
     DEF Application
<1>3. CASE InitializationDone BY <1>3, InitializationDoneTyped
<1>4. ASSUME NEW b \in Backends, Backend(b) PROVE Typed'
  <2>1. CASE Answer(b) BY <2>1, AnswerTyped
  <2>2. CASE IsChange(b) BY <2>2, ChangeTyped DEF IsChange
  <2>3. QED BY <1>4, <2>1, <2>2, BackendCases
<1>5. CASE UNCHANGED vars
  BY <1>5 DEF Typed, TypeOK, Cells, Request, vars, rowVars, settings, binding
<1>6. QED BY <1>1, <1>2, <1>3, <1>4, <1>5 DEF Next

\* Every reachable state is type-correct: whatever the backends answer and change
\* and the application sets, the handlers of QIfPagingModel leave rows, marks,
\* counters and calls of fetchData() of their types.
THEOREM TypeCorrect == Spec => []TypeOK
<1>1. Typed => TypeOK BY DEF Typed
<1>2. QED BY <1>1, InitTyped, NextTyped, PTL DEF Spec

-----------------------------------------------------------------------------
(* The registration with a backend *)

\* Only a model with a service object is initialized.
Bound == m_isInitialized => m_serviceObject # None

Held == Bound /\ RegistrationIsHeld

\* The invariant of the registration holds initially.
LEMMA InitHeld == Init => Held
BY DEF Init, Held, Bound, RegistrationIsHeld

\* setServiceObject() keeps it.
LEMMA SetServiceObjectHeld ==
    ASSUME TypeOK, Held, NEW so \in Backends \cup {None}, SetServiceObject(so)
    PROVE  Held'
<1>1. ~m_isInitialized' BY DEF SetServiceObject
<1>2. registered' = Unregistered BY DEF SetServiceObject
<1>3. \A b \in Backends : Unregistered[b] = {}
  BY DEF TypeOK, Held, Bound, RegistrationIsHeld, Unregistered
<1>4. QED BY <1>1, <1>2, <1>3 DEF Held, Bound, RegistrationIsHeld

\* initializationDone() keeps it.
LEMMA InitializationDoneHeld ==
    ASSUME TypeOK, Held, InitializationDone
    PROVE  Held'
<1>1. /\ m_isInitialized' /\ m_serviceObject' # None
      /\ m_serviceObject' = m_serviceObject /\ m_identifier' = m_identifier
  BY DEF InitializationDone, settings
<1>2. \A b \in Backends : registered[b] = {}
  BY DEF InitializationDone, Held, RegistrationIsHeld
<1>3. registered' = [registered EXCEPT ![m_serviceObject] = @ \cup {m_identifier}]
  BY DEF InitializationDone, Registered
<1>4. \A b \in Backends :
         registered'[b] = IF b = m_serviceObject THEN {m_identifier} ELSE {}
  BY <1>2, <1>3 DEF TypeOK
<1>5. QED BY <1>1, <1>4 DEF Held, Bound, RegistrationIsHeld

\* Every other step leaves the binding and the identifier alone.
OtherStep ==
    \/ View \/ Reload
    \/ \E type \in {"FetchMore", "DataChanged"} : SetLoadingType(type)
    \/ \E size \in ChunkSizes : SetChunkSize(size)
    \/ \E threshold \in Thresholds : SetFetchMoreThreshold(threshold)
    \/ \E b \in Backends : Backend(b)
    \/ UNCHANGED vars

\* The other steps leave the binding alone.
LEMMA OtherStepKeepsBinding == OtherStep => UNCHANGED <<binding, m_identifier>>
<1> SUFFICES ASSUME OtherStep PROVE UNCHANGED <<binding, m_identifier>> OBVIOUS
<1>1. CASE View BY <1>1 DEF View, ViewFetchesMore, Data, settings
<1>2. CASE Reload BY <1>2 DEF Reload, settings
<1>3. CASE \E type \in {"FetchMore", "DataChanged"} : SetLoadingType(type)
  BY <1>3 DEF SetLoadingType
<1>4. CASE \E size \in ChunkSizes : SetChunkSize(size) BY <1>4 DEF SetChunkSize
<1>5. CASE \E threshold \in Thresholds : SetFetchMoreThreshold(threshold)
  BY <1>5 DEF SetFetchMoreThreshold
<1>6. ASSUME NEW b \in Backends, Backend(b) PROVE UNCHANGED <<binding, m_identifier>>
  <2>1. CASE Answer(b) BY <2>1 DEF Answer
  <2>2. ASSUME NEW rows, NEW m, Change(b, rows, m)
        PROVE  UNCHANGED <<binding, m_identifier>>
    BY <2>2 DEF Change, settings
  <2>3. QED BY <1>6, <2>1, <2>2
            DEF Backend, Grow, InsertRow, RemoveRow, MoveRow, UpdateRow
<1>7. CASE UNCHANGED vars BY <1>7 DEF vars, settings
<1>8. QED BY <1>1, <1>2, <1>3, <1>4, <1>5, <1>6, <1>7 DEF OtherStep

\* The steps, by what they do to the binding.
LEMMA NextCases ==
    ASSUME [Next]_vars
    PROVE  \/ OtherStep
           \/ InitializationDone
           \/ \E so \in Backends \cup {None} : SetServiceObject(so)
BY DEF Next, Application, OtherStep

\* Every step keeps the invariant of the registration.
LEMMA NextHeld == TypeOK /\ Held /\ [Next]_vars => Held'
<1> SUFFICES ASSUME TypeOK, Held, [Next]_vars PROVE Held' OBVIOUS
<1>1. CASE OtherStep
  BY <1>1, OtherStepKeepsBinding DEF Held, Bound, RegistrationIsHeld, binding
<1>2. QED BY <1>1, NextCases, SetServiceObjectHeld, InitializationDoneHeld

\* The backend a model is connected to holds its registration, under the identifier
\* the model has now, and no other backend holds one: disconnectFromServiceObject()
\* takes the registration back before clearToDefaults() renews the identifier.
THEOREM RegistrationHolds == Spec => []RegistrationIsHeld
<1>1. Held => RegistrationIsHeld BY DEF Held
<1>2. QED BY <1>1, InitHeld, NextHeld, TypeCorrect, PTL DEF Spec

-----------------------------------------------------------------------------
(* The calls of fetchData() *)

\* What a handler sends bears the identifier of the model.
Ours(m) == \A i \in 1..Len(m.sent) : m.sent[i].id = m_identifier

\* fetchData() sends at most one call, under the identifier it is given.
LEMMA FetchDataSends ==
    ASSUME Given, NEW m \in RowsType, NEW start \in Nat, Ours(m)
    PROVE  Ours(FetchData(m, start))
<1>1. m.sent \in Seq(Request) BY DEF RowsType
<1>2. CASE m_serviceObject = None BY <1>2 DEF FetchData
<1>3. CASE m_serviceObject # None
  <2>1. FetchData(m, start).sent = Append(m.sent, RequestFrom(start))
    BY <1>3 DEF FetchData, RowsType
  <2>2. RequestFrom(start).id = m_identifier BY DEF RequestFrom
  <2>3. \A i \in 1..Len(Append(m.sent, RequestFrom(start))) :
           Append(m.sent, RequestFrom(start))[i].id = m_identifier
    BY <1>1, <2>2 DEF Ours
  <2>4. QED BY <2>1, <2>3 DEF Ours
<1>4. QED BY <1>2, <1>3

\* So does fetchMore().
LEMMA FetchMoreSends ==
    ASSUME Given, NEW m \in RowsType, Ours(m)
    PROVE  Ours(FetchMore(m))
<1>1. m.fetched \in Nat BY DEF RowsType
<1>2. QED BY <1>1, FetchDataSends DEF FetchMore

\* And so do the handlers of the backend.
LEMMA RowsSend ==
    ASSUME TypeOK
    PROVE  Ours(Rows) /\ Ours(Reset(Rows)) /\ Ours(FetchMore(Rows))
<1>1. Given /\ Rows \in RowsType BY RowsTyped
<1>2. Ours(Rows) BY DEF Ours, Rows
<1>3. <<>> \in Seq(Cells) /\ <<>> \in Seq(BOOLEAN) BY EmptySeq
<1>4. Cleared(Rows) \in RowsType /\ Cleared(Rows).sent = Rows.sent
  BY <1>1, <1>3 DEF Cleared, RowsType
<1>5. Ours(Cleared(Rows)) BY <1>2, <1>4 DEF Ours
<1>6. QED BY <1>1, <1>2, <1>4, <1>5, FetchMoreSends DEF Reset

\* And data().
LEMMA ReadSends ==
    ASSUME TypeOK, NEW row \in Nat
    PROVE  Ours(Read(row))
<1> DEFINE chunk == row \div m_chunkSize + 1
           start == (chunk - 1) * m_chunkSize
<1>1. Given /\ Rows \in RowsType /\ Ours(Rows) /\ Ours(FetchMore(Rows))
  BY RowsTyped, RowsSend
<1>2. start \in Nat
  <2>1. m_chunkSize \in Nat \ {0} BY <1>1, PagingAssumption DEF Given
  <2>2. row \div m_chunkSize \in Nat BY <2>1
  <2>3. \A x, y \in Nat : (x + 1 - 1) * y \in Nat
    <3>1. \A x \in Nat : x + 1 - 1 = x OBVIOUS
    <3>2. \A x, y \in Nat : x * y \in Nat OBVIOUS
    <3>3. QED BY <3>1, <3>2
  <2>4. QED BY <2>1, <2>2, <2>3
<1>3. Ours([Rows EXCEPT !.bad = TRUE])
  <2>1. \A m \in RowsType : Ours(m) => Ours([m EXCEPT !.bad = TRUE])
    BY DEF Ours, RowsType
  <2>2. QED BY <1>1, <2>1, Zenon
<1>4. \/ Read(row) = [Rows EXCEPT !.bad = TRUE]
      \/ Read(row) = FetchData(Rows, start)
      \/ Read(row) = FetchMore(Rows)
      \/ Read(row) = Rows
  BY DEF Read
<1> HIDE DEF chunk, start
<1>5. Ours(FetchData(Rows, start)) BY <1>1, <1>2, FetchDataSends
<1>6. QED BY <1>1, <1>3, <1>4, <1>5

\* The elements of sequences that are joined.
LEMMA ConcatElements ==
    ASSUME NEW S, NEW p \in Seq(S), NEW q \in Seq(S), NEW i \in 1..Len(p \o q)
    PROVE  \/ i \in 1..Len(p) /\ (p \o q)[i] = p[i]
           \/ i - Len(p) \in 1..Len(q) /\ (p \o q)[i] = q[i - Len(p)]
<1>1. Len(p) \in Nat /\ Len(q) \in Nat /\ i \in 1..(Len(p) + Len(q))
  BY LenProperties, ConcatTyped
<1>2. (p \o q)[i] = IF i <= Len(p) THEN p[i] ELSE q[i - Len(p)]
  BY <1>1, ConcatProperties
<1>3. QED BY <1>1, <1>2

\* The requests after a handler are those before it and the model's own.
LEMMA BecomesRequests ==
    ASSUME TypeOK, NEW m \in RowsType, Ours(m), Becomes(m), NEW b \in Backends
    PROVE  /\ b # m_serviceObject => requests'[b] = requests[b]
           /\ \A i \in 1..Len(requests'[b]) :
                 \/ i \in 1..Len(requests[b]) /\ requests'[b][i] = requests[b][i]
                 \/ requests'[b][i].id = m_identifier
<1>1. m.sent \in Seq(Request) /\ requests[b] \in Seq(Request) BY DEF RowsType, TypeOK
<1>2. CASE b # m_serviceObject
  <2>1. requests'[b] = requests[b] BY <1>2 DEF Becomes, TypeOK
  <2>2. QED BY <1>2, <2>1
<1>3. CASE b = m_serviceObject
  <2>1. requests'[b] = requests[b] \o m.sent
    BY <1>3, PagingAssumption DEF Becomes, TypeOK
  <2>2. \A i \in 1..Len(requests[b] \o m.sent) :
           \/ i \in 1..Len(requests[b]) /\ (requests[b] \o m.sent)[i] = requests[b][i]
           \/ (requests[b] \o m.sent)[i].id = m_identifier
    <3>1. TAKE i \in 1..Len(requests[b] \o m.sent)
    <3>2. \/ i \in 1..Len(requests[b]) /\ (requests[b] \o m.sent)[i] = requests[b][i]
          \/ /\ i - Len(requests[b]) \in 1..Len(m.sent)
             /\ (requests[b] \o m.sent)[i] = m.sent[i - Len(requests[b])]
      BY <1>1, ConcatElements
    <3>3. QED BY <3>2, Zenon DEF Ours
  <2>3. QED BY <1>3, <2>1, <2>2
<1>4. QED BY <1>2, <1>3

\* Every call of fetchData() bears an identifier the model has had.
IdsKnown ==
    \A b \in Backends : \A i \in 1..Len(requests[b]) : requests[b][i].id <= m_identifier

\* Before it is initialized a model has asked for nothing and shows nothing.
Quiet ==
    ~m_isInitialized => /\ ~InFlight
                        /\ m_itemList = <<>>
                        /\ m_loadingType = "FetchMore"

IInv == Typed /\ Held /\ IdsKnown /\ Quiet

\* A handler that fetches does so for the model, from its service object.
Fetches ==
    /\ m_identifier' = m_identifier
    /\ \E m \in RowsType : Ours(m) /\ Becomes(m)

\* A fetch keeps the identifiers of the calls under way known.
LEMMA FetchesKeepIds ==
    ASSUME TypeOK, IdsKnown, Fetches
    PROVE  IdsKnown'
<1>1. PICK m \in RowsType : Ours(m) /\ Becomes(m) BY DEF Fetches
<1>2. ASSUME NEW b \in Backends, NEW i \in 1..Len(requests'[b])
      PROVE  requests'[b][i].id <= m_identifier
  <2>1. m_identifier \in Nat BY PagingAssumption DEF TypeOK
  <2>2. QED BY <1>1, <2>1, BecomesRequests DEF IdsKnown
<1>3. QED BY <1>2 DEF IdsKnown, Fetches

\* Which steps fetch, and when.
LEMMA ViewFetches ==
    ASSUME TypeOK, Quiet, "resets" \in Assumed, View
    PROVE  Fetches /\ m_isInitialized
<1>1. Given /\ Rows \in RowsType BY RowsTyped
<1>2. CASE ViewFetchesMore
  BY <1>1, <1>2, FetchMoreType, RowsSend DEF ViewFetchesMore, Fetches, settings
<1>3. ASSUME NEW row \in 0..(Len(m_itemList) - 1), Data(row)
      PROVE  Fetches /\ m_isInitialized
  <2>1. row \in Nat /\ m_itemList # <<>> BY <1>3 DEF TypeOK
  <2>2. Read(row) \in RowsType /\ Ours(Read(row)) BY <2>1, ReadType, ReadSends
  <2>3. QED BY <1>3, <2>1, <2>2 DEF Data, Fetches, settings, Quiet
<1>4. QED BY <1>2, <1>3 DEF View

\* reload() and another loading type fetch for a model that is initialized.
LEMMA ResetFetches ==
    ASSUME TypeOK, "resets" \in Assumed,
           Reload \/ \E type \in {"FetchMore", "DataChanged"} : SetLoadingType(type)
    PROVE  Fetches /\ m_isInitialized /\ m_isInitialized'
<1>1. Reset(Rows) \in RowsType /\ Ours(Reset(Rows)) BY RowsTyped, ResetType, RowsSend
<1>2. QED BY <1>1 DEF Reload, SetLoadingType, MayReset, Fetches, settings, binding

\* initializationDone() fetches for a model that is initialized then.
LEMMA InitializationFetches ==
    ASSUME TypeOK, InitializationDone
    PROVE  Fetches /\ m_isInitialized'
<1>1. Reset(Rows) \in RowsType /\ Ours(Reset(Rows)) BY RowsTyped, ResetType, RowsSend
<1>2. QED BY <1>1 DEF InitializationDone, Fetches, settings

\* An answer takes a call of fetchData() away.
LEMMA AnswerTakes ==
    ASSUME TypeOK, NEW b \in Backends, Answer(b), NEW c \in Backends
    PROVE  /\ Len(requests'[c]) <= Len(requests[c])
           /\ \A i \in 1..Len(requests'[c]) :
                 \E j \in 1..Len(requests[c]) : requests'[c][i] = requests[c][j]
<1>1. requests[b] \in Seq(Request) /\ requests[b] # <<>> BY DEF TypeOK, Answer
<1>2. requests' = [requests EXCEPT ![b] = Tail(@)] BY DEF Answer
<1>3. /\ Len(Tail(requests[b])) = Len(requests[b]) - 1 /\ Len(requests[b]) \in Nat
      /\ \A i \in 1..Len(Tail(requests[b])) : Tail(requests[b])[i] = requests[b][i + 1]
  BY <1>1, HeadTailProperties, LenProperties
<1>4. CASE c = b
  <2>1. requests'[c] = Tail(requests[b]) BY <1>2, <1>4 DEF TypeOK
  <2>2. \A i \in 1..Len(Tail(requests[b])) : i + 1 \in 1..Len(requests[b]) BY <1>3
  <2>3. QED BY <1>3, <1>4, <2>1, <2>2
<1>5. CASE c # b
  <2>1. requests'[c] = requests[c] BY <1>2, <1>5 DEF TypeOK
  <2>2. Len(requests[c]) \in Nat BY LenProperties DEF TypeOK
  <2>3. QED BY <2>1, <2>2
<1>6. QED BY <1>4, <1>5

\* A change in a backend leaves the calls alone.
LEMMA ChangeTakesNothing ==
    ASSUME TypeOK, NEW b \in Backends, IsChange(b)
    PROVE  requests' = requests /\ m_identifier' = m_identifier
<1>1. PICK rows \in Seq(Items), m \in RowsType : m.sent = <<>> /\ Change(b, rows, m)
  BY DEF IsChange
<1>2. m_identifier' = m_identifier BY <1>1 DEF Change, settings
<1>3. CASE UNCHANGED rowVars BY <1>2, <1>3 DEF rowVars
<1>4. CASE b = m_serviceObject /\ Becomes(m)
  <2>1. requests[b] \o <<>> = requests[b] BY ConcatEmptySeq DEF TypeOK
  <2>2. m_serviceObject # None BY <1>4, PagingAssumption
  <2>3. requests' = [requests EXCEPT ![m_serviceObject] = @ \o m.sent]
    BY <1>4, <2>2 DEF Becomes
  <2>4. requests' = requests BY <1>1, <1>4, <2>1, <2>3 DEF TypeOK
  <2>5. QED BY <1>2, <2>4
<1>5. QED BY <1>1, <1>3, <1>4 DEF Change

\* Every step keeps the identifiers known.
LEMMA NextIds == Typed /\ IdsKnown /\ [Next]_vars => IdsKnown'
<1> SUFFICES ASSUME Typed, IdsKnown, [Next]_vars PROVE IdsKnown' OBVIOUS
<1>1. TypeOK BY DEF Typed
<1>2. Given /\ Rows \in RowsType /\ Ours(Rows) /\ Reset(Rows) \in RowsType
      /\ Ours(Reset(Rows)) /\ Ours(FetchMore(Rows)) /\ FetchMore(Rows) \in RowsType
  BY <1>1, RowsTyped, RowsSend, ResetType, FetchMoreType
<1>3. CASE Fetches BY <1>1, <1>3, FetchesKeepIds
<1>4. CASE View
  <2>1. CASE ViewFetchesMore BY <1>2, <1>3, <2>1 DEF ViewFetchesMore, Fetches, settings
  <2>2. ASSUME NEW row \in 0..(Len(m_itemList) - 1), Data(row) PROVE Fetches
    <3>1. row \in Nat BY <1>1 DEF TypeOK
    <3>2. QED BY <1>1, <2>2, <3>1, ReadType, ReadSends DEF Data, Fetches, settings
  <2>3. QED BY <1>3, <1>4, <2>1, <2>2 DEF View
<1>5. CASE Reload \/ \E type \in {"FetchMore", "DataChanged"} : SetLoadingType(type)
  BY <1>2, <1>3, <1>5 DEF Reload, SetLoadingType, Fetches, settings
<1>6. CASE InitializationDone BY <1>1, <1>3, <1>6, InitializationFetches
<1>7. CASE m_identifier' >= m_identifier /\ requests' = requests /\ m_identifier' \in Nat
  <2>1. ASSUME NEW b \in Backends, NEW i \in 1..Len(requests[b])
        PROVE  requests[b][i].id <= m_identifier'
    <3>1. requests[b] \in Seq(Request) /\ m_identifier \in 0..MaxCalls
      BY <1>1 DEF TypeOK
    <3>2. requests[b][i] \in Request BY <3>1, ElementOfSeq
    <3>3. requests[b][i].id \in 0..MaxCalls BY <3>2 DEF Request
    <3>4. requests[b][i].id <= m_identifier BY DEF IdsKnown
    <3>5. QED BY <1>7, <3>1, <3>3, <3>4, PagingAssumption
  <2>2. QED BY <1>7, <2>1 DEF IdsKnown
<1>8. CASE \/ \E size \in ChunkSizes : SetChunkSize(size)
           \/ \E threshold \in Thresholds : SetFetchMoreThreshold(threshold)
           \/ UNCHANGED vars
  BY <1>1, <1>7, <1>8 DEF SetChunkSize, SetFetchMoreThreshold, vars, rowVars, settings, TypeOK
<1>9. ASSUME NEW so \in Backends \cup {None}, SetServiceObject(so) PROVE IdsKnown'
  BY <1>1, <1>7, <1>9
     DEF SetServiceObject, ClearToDefaults, NewIdentifier, rowVars, settings, TypeOK
<1>10. ASSUME NEW b \in Backends, Backend(b) PROVE IdsKnown'
  <2>1. CASE IsChange(b) BY <1>1, <1>7, <2>1, ChangeTakesNothing DEF TypeOK
  <2>2. CASE Answer(b)
    <3>1. m_identifier' = m_identifier BY <2>2 DEF Answer
    <3>2. QED BY <1>1, <2>2, <3>1, AnswerTakes DEF IdsKnown
  <2>3. QED BY <1>10, <2>1, <2>2, BackendCases
<1>11. QED BY <1>4, <1>5, <1>6, <1>8, <1>9, <1>10 DEF Next, Application

\* Without service object or initialization nothing that arrives changes the rows.
LEMMA QuietAnswer ==
    ASSUME TypeOK, Quiet, ~m_isInitialized, NEW b \in Backends, Answer(b)
    PROVE  Quiet'
<1>1. requests[b] \in Seq(Request) /\ requests[b] # <<>> BY DEF TypeOK, Answer
<1>2. 1 \in DOMAIN requests[b] /\ Head(requests[b]) = requests[b][1] BY <1>1
<1>3. ~Addressed(b, Head(requests[b]).id) BY <1>2 DEF Quiet, InFlight, Addressed
<1>4. UNCHANGED <<m_itemList, m_loadingType, m_identifier>> BY <1>3 DEF Answer
<1>5. ~InFlight'
  <2>1. \A c \in Backends : requests[c] \in Seq(Request) /\ requests'[c] \in Seq(Request)
    BY <1>1, HeadTailProperties DEF TypeOK, Answer
  <2>2. ASSUME NEW c \in Backends, NEW i \in 1..Len(requests'[c])
        PROVE  requests'[c][i].id # m_identifier
    <3>1. PICK j \in 1..Len(requests[c]) : requests'[c][i] = requests[c][j]
      BY AnswerTakes
    <3>2. j \in DOMAIN requests[c] BY <2>1
    <3>3. requests[c][j].id # m_identifier BY <3>2 DEF Quiet, InFlight
    <3>4. QED BY <3>1, <3>3
  <2>3. QED BY <1>4, <2>1, <2>2 DEF InFlight
<1>6. QED BY <1>4, <1>5 DEF Quiet

\* A backend that changes leaves a model that is not initialized as it is.
LEMMA QuietChange ==
    ASSUME Typed, Quiet, ~m_isInitialized, "edits" \in Assumed,
           NEW b \in Backends, Backend(b), IsChange(b)
    PROVE  Quiet'
<1>1. TypeOK /\ m_itemList = <<>> /\ m_loadingType = "FetchMore" /\ ~InFlight
  BY DEF Typed, Quiet
<1>2. requests' = requests /\ m_identifier' = m_identifier
  BY <1>1, ChangeTakesNothing
<1>3. ~InFlight' BY <1>1, <1>2 DEF InFlight
<1>4. PICK rows, m : Change(b, rows, m) BY DEF IsChange
<1>5. m_loadingType' = m_loadingType BY <1>4 DEF Change, settings
<1>6. CASE b # m_serviceObject
  BY <1>1, <1>3, <1>4, <1>5, <1>6 DEF Change, rowVars, Quiet
<1>7. CASE b = m_serviceObject
  <2>1. ~MayEdit(b) BY <1>7 DEF MayEdit, Complete
  <2>2. ASSUME NEW s, Change(b, s, Rows) PROVE m_itemList' = <<>>
    BY <1>1, <1>7, <2>2 DEF Change, Becomes, Rows
  <2>3. ASSUME NEW i \in 0..MaxRows, UpdateRow(b, i) PROVE m_itemList' = <<>>
    <3>1. PICK item \in Fresh :
             Change(b, ReplaceAt(list[b], i + 1, item), Edited(Rows, <<item>>, i, 1))
      BY <2>3 DEF UpdateRow
    <3>2. Len(Rows.items) = 0 BY <1>1 DEF Rows
    <3>3. i \in Nat BY PagingAssumption
    <3>4. i > Len(Rows.items) \/ 1 > Len(Rows.items) - i BY <3>2, <3>3
    <3>5. Edited(Rows, <<item>>, i, 1) = Rows BY <3>4 DEF Edited
    <3>6. QED BY <2>2, <3>1, <3>5
  <2>4. ASSUME Grow(b) PROVE m_itemList' = <<>>
    <3>1. PICK item \in Fresh :
             Change(b, Append(list[b], item), Counted(Rows, Len(list[b]) + 1))
      BY <2>4 DEF Grow
    <3>2. Counted(Rows, Len(list[b]) + 1) = Rows BY <1>1 DEF Counted, Counts
    <3>3. QED BY <2>2, <3>1, <3>2
  <2>5. ASSUME Answer(b) PROVE FALSE
    <3>1. requests[b] \in Seq(Request) /\ requests[b] # <<>>
      BY <1>1, <2>5 DEF TypeOK, Answer
    <3>2. requests'[b] = Tail(requests[b]) BY <1>1, <2>5 DEF TypeOK, Answer
    <3>3. Len(requests'[b]) # Len(requests[b])
      BY <3>1, <3>2, HeadTailProperties, LenProperties
    <3>4. QED BY <1>2, <3>3
  <2>6. m_itemList' = <<>>
    <3>1. \A i, j : ~InsertRow(b, i) /\ ~RemoveRow(b, i) /\ ~MoveRow(b, i, j)
      BY <2>1 DEF InsertRow, RemoveRow, MoveRow
    <3>2. QED BY <2>3, <2>4, <2>5, <3>1, Zenon DEF Backend
  <2>7. QED BY <1>1, <1>3, <1>5, <2>6 DEF Quiet
<1>8. QED BY <1>6, <1>7

\* A model that gets another service object shows nothing.
LEMMA QuietServiceObject ==
    ASSUME Typed, Held, IdsKnown, Quiet, "resets" \in Assumed,
           NEW so \in Backends \cup {None}, SetServiceObject(so)
    PROVE  Quiet'
<1>1. TypeOK BY DEF Typed
<1>2. CASE so = None
  <2>1. ClearToDefaults BY <1>2 DEF SetServiceObject
  <2>2. /\ m_itemList' = <<>> /\ m_loadingType' = "FetchMore"
        /\ m_identifier' = m_identifier + 1 /\ requests' = requests
    BY <2>1 DEF ClearToDefaults, NewIdentifier
  <2>3. ASSUME NEW b \in Backends, NEW i \in DOMAIN requests[b]
        PROVE  requests[b][i].id # m_identifier + 1
    <3>1. requests[b] \in Seq(Request) /\ m_identifier \in 0..MaxCalls
      BY <1>1 DEF TypeOK
    <3>2. i \in 1..Len(requests[b]) /\ requests[b][i] \in Request
      BY <3>1, ElementOfSeq
    <3>3. requests[b][i].id \in 0..MaxCalls BY <3>2 DEF Request
    <3>4. requests[b][i].id <= m_identifier BY <3>2 DEF IdsKnown
    <3>5. QED BY <3>1, <3>3, <3>4, PagingAssumption
  <2>4. ~InFlight' BY <2>2, <2>3 DEF InFlight
  <2>5. QED BY <2>2, <2>4 DEF Quiet
<1>3. CASE so # None
  <2>1. UNCHANGED <<m_itemList, m_loadingType, m_identifier, requests>>
    BY <1>3 DEF SetServiceObject, rowVars, settings
  <2>2. ~InFlight /\ m_itemList = <<>> /\ m_loadingType = "FetchMore"
    <3>1. CASE m_serviceObject = None BY <3>1 DEF Held, Bound, Quiet
    <3>2. CASE m_serviceObject # None BY <1>3, <3>2 DEF SetServiceObject
    <3>3. QED BY <3>1, <3>2
  <2>3. ~InFlight' BY <2>1, <2>2 DEF InFlight
  <2>4. QED BY <2>1, <2>2, <2>3 DEF Quiet
<1>4. QED BY <1>2, <1>3

\* Every step keeps models that are not initialized quiet.
LEMMA NextQuiet ==
    ASSUME {"resets", "edits"} \subseteq Assumed, IInv, [Next]_vars
    PROVE  Quiet'
<1>1. Typed /\ TypeOK /\ Held /\ IdsKnown /\ Quiet BY DEF IInv, Typed
<1> SUFFICES ASSUME ~m_isInitialized' PROVE Quiet' BY DEF Quiet
<1>2. CASE OtherStep
  <2>1. ~m_isInitialized BY <1>2, OtherStepKeepsBinding DEF binding
  <2>2. ~View BY <1>1, <2>1, ViewFetches
  <2>3. /\ ~Reload
        /\ ~ \E type \in {"FetchMore", "DataChanged"} : SetLoadingType(type)
    BY <1>1, <2>1, ResetFetches
  <2>4. CASE UNCHANGED <<m_itemList, m_loadingType, m_identifier, requests>>
    BY <1>1, <2>1, <2>4 DEF Quiet, InFlight
  <2>5. CASE \/ \E size \in ChunkSizes : SetChunkSize(size)
             \/ \E threshold \in Thresholds : SetFetchMoreThreshold(threshold)
             \/ UNCHANGED vars
    BY <2>4, <2>5 DEF SetChunkSize, SetFetchMoreThreshold, vars, rowVars, settings
  <2>6. ASSUME NEW b \in Backends, Backend(b) PROVE Quiet'
    BY <1>1, <2>1, <2>6, BackendCases, QuietAnswer, QuietChange
  <2>7. QED BY <1>2, <2>2, <2>3, <2>5, <2>6 DEF OtherStep
<1>3. CASE InitializationDone BY <1>3 DEF InitializationDone
<1>4. ASSUME NEW so \in Backends \cup {None}, SetServiceObject(so) PROVE Quiet'
  BY <1>1, <1>4, QuietServiceObject
<1>5. QED BY <1>2, <1>3, <1>4, NextCases

\* The invariant holds initially.
LEMMA InitIInv == Init => IInv
<1> SUFFICES ASSUME Init PROVE IInv OBVIOUS
<1>1. requests = [b \in Backends |-> <<>>] BY DEF Init
<1>2. IdsKnown /\ ~InFlight BY <1>1 DEF IdsKnown, InFlight
<1>3. Quiet BY <1>2 DEF Quiet, Init
<1>4. QED BY <1>2, <1>3, InitTyped, InitHeld DEF IInv

\* Every step keeps the invariant.
LEMMA NextIInv ==
    ASSUME {"resets", "edits"} \subseteq Assumed, IInv, [Next]_vars
    PROVE  IInv'
BY NextTyped, NextHeld, NextIds, NextQuiet DEF IInv, Typed

\* A step after which a backend has more calls to answer is one that fetches.
LEMMA GrowthIsFetching ==
    ASSUME {"resets", "edits"} \subseteq Assumed, IInv, [Next]_vars, NEW b \in Backends,
           Len(requests'[b]) > Len(requests[b])
    PROVE  Fetches /\ m_isInitialized'
<1>1. Typed /\ TypeOK /\ Held /\ Quiet BY DEF IInv, Typed
<1>2. requests' # requests
  <2>1. Len(requests[b]) \in Nat BY <1>1, LenProperties DEF TypeOK
  <2>2. QED BY <2>1
<1>3. CASE View
  BY <1>1, <1>3, ViewFetches, OtherStepKeepsBinding DEF OtherStep, binding
<1>4. CASE Reload \/ \E type \in {"FetchMore", "DataChanged"} : SetLoadingType(type)
  BY <1>1, <1>4, ResetFetches
<1>5. CASE InitializationDone BY <1>1, <1>5, InitializationFetches
<1>6. CASE \/ \E size \in ChunkSizes : SetChunkSize(size)
           \/ \E threshold \in Thresholds : SetFetchMoreThreshold(threshold)
           \/ \E so \in Backends \cup {None} : SetServiceObject(so)
           \/ UNCHANGED vars
  BY <1>2, <1>6 DEF SetChunkSize, SetFetchMoreThreshold, SetServiceObject,
                    ClearToDefaults, vars, rowVars
<1>7. ASSUME NEW c \in Backends, Backend(c) PROVE FALSE
  <2>1. CASE IsChange(c) BY <1>1, <1>2, <2>1, ChangeTakesNothing
  <2>2. CASE Answer(c)
    <3>1. Len(requests'[b]) <= Len(requests[b]) BY <1>1, <2>2, AnswerTakes
    <3>2. requests'[b] \in Seq(Request) /\ requests[b] \in Seq(Request)
      BY <1>1, NextTyped DEF TypeOK, Typed, Request
    <3>3. Len(requests'[b]) \in Nat /\ Len(requests[b]) \in Nat BY <3>2, LenProperties
    <3>4. QED BY <3>1, <3>3
  <2>3. QED BY <1>1, <1>7, <2>1, <2>2, BackendCases
<1>8. QED BY <1>3, <1>4, <1>5, <1>6, <1>7 DEF Next, Application

\* Every step fetches under a registered identifier.
LEMMA StepsAreRegistered ==
    ASSUME {"resets", "edits"} \subseteq Assumed, IInv, [Next]_vars, NEW b \in Backends,
           Len(requests'[b]) > Len(requests[b])
    PROVE  m_identifier \in registered'[b]
<1>1. TypeOK BY DEF IInv, Typed
<1>2. Fetches /\ m_isInitialized' BY GrowthIsFetching
<1>3. PICK m \in RowsType : Ours(m) /\ Becomes(m) BY <1>2 DEF Fetches
<1>4. Len(requests[b]) \in Nat BY <1>1, LenProperties DEF TypeOK
<1>5. b = m_serviceObject BY <1>1, <1>3, <1>4, BecomesRequests
<1>6. m_serviceObject' = m_serviceObject
  <2>1. CASE OtherStep BY <2>1, OtherStepKeepsBinding DEF binding
  <2>2. CASE InitializationDone BY <2>2 DEF InitializationDone
  <2>3. ~ \E so \in Backends \cup {None} : SetServiceObject(so)
    BY <1>2 DEF SetServiceObject
  <2>4. QED BY <2>1, <2>2, <2>3, NextCases
<1>7. RegistrationIsHeld' BY NextIInv DEF IInv, Held
<1>8. registered'[b] = {m_identifier'} BY <1>2, <1>5, <1>6, <1>7 DEF RegistrationIsHeld
<1>9. QED BY <1>2, <1>8 DEF Fetches

\* A backend is asked for rows only by a model that is registered with it, if the
\* program around the model never resets it before the backend is initialized, nor
\* replaces its service object while it shows rows or waits for some, and backends
\* edit only what the model shows.
THEOREM FetchesOnceRegistered ==
    ASSUME {"resets", "edits"} \subseteq Assumed
    PROVE  Spec => FetchesAreRegistered
<1>1. ASSUME IInv, [Next]_vars
      PROVE  [\A b \in Backends :
                 Len(requests'[b]) > Len(requests[b]) => m_identifier \in registered'[b]]_vars
  BY <1>1, StepsAreRegistered
<1>2. IInv /\ [Next]_vars => IInv' BY NextIInv
<1>3. QED BY <1>1, <1>2, InitIInv, PTL DEF Spec, FetchesAreRegistered

-----------------------------------------------------------------------------
(* Chunks *)

\* The number of the chunk that a row is in, rows counted from 0.
Chunk(row, c) == row \div c + 1

\* The first row of a chunk.
Aligned(s, c) == s \in Nat /\ (s \div c) * c = s

\* A row is in its chunk.
LEMMA DivBounds ==
    ASSUME NEW x \in Nat, NEW c \in Nat \ {0}
    PROVE  x \div c \in Nat /\ (x \div c) * c <= x /\ x < (x \div c) * c + c
<1>1. x \div c \in Nat OBVIOUS
<1>2. c * (x \div c) <= x OBVIOUS
<1>3. x < c * (x \div c) + c OBVIOUS
<1> DEFINE d == x \div c
<1> HIDE DEF d
<1>4. d \in Nat /\ c * d <= x /\ x < c * d + c BY <1>1, <1>2, <1>3 DEF d
<1>5. c * d = d * c BY <1>4
<1>6. d \in Nat /\ d * c <= x /\ x < d * c + c BY <1>4, <1>5
<1>7. QED BY <1>6 DEF d

\* Multiples are ordered as their factors are.
LEMMA Multiples ==
    ASSUME NEW a \in Nat, NEW b \in Nat, NEW c \in Nat \ {0}, a * c < b * c + c
    PROVE  a <= b
<1> SUFFICES ASSUME a > b PROVE FALSE OBVIOUS
<1>1. PICK n \in Nat : a = b + 1 + n
  <2>1. a - b - 1 \in Nat /\ a = b + 1 + (a - b - 1) OBVIOUS
  <2>2. QED BY <2>1
<1>2. a * c = b * c + c + n * c BY <1>1
<1>3. n * c \in Nat /\ b * c \in Nat OBVIOUS
<1>4. QED BY <1>2, <1>3

\* A row between two multiples of the chunk size is in the chunk of the first.
LEMMA Between ==
    ASSUME NEW k \in Nat, NEW c \in Nat \ {0}, NEW x \in Nat, k * c <= x, x < k * c + c
    PROVE  x \div c = k
<1> DEFINE d == x \div c
<1>1. d \in Nat /\ d * c <= x /\ x < d * c + c BY DivBounds
<1> HIDE DEF d
<1>2. d * c \in Nat /\ k * c \in Nat BY <1>1
<1>3. d <= k
  <2>1. d * c < k * c + c BY <1>1, <1>2
  <2>2. QED BY <1>1, <2>1, Multiples
<1>4. k <= d
  <2>1. k * c < d * c + c BY <1>1, <1>2
  <2>2. QED BY <1>1, <2>1, Multiples
<1>5. QED BY <1>1, <1>3, <1>4 DEF d

\* The chunk of its first row has as many rows as a chunk may have.
LEMMA ChunkRows ==
    ASSUME NEW s, NEW c \in Nat \ {0}, Aligned(s, c), NEW x \in Nat
    PROVE  Chunk(x, c) = Chunk(s, c) <=> s <= x /\ x < s + c
<1> DEFINE k == s \div c
           d == x \div c
<1>1. s \in Nat /\ k \in Nat /\ k * c = s BY DivBounds DEF Aligned
<1>2. d \in Nat /\ d * c <= x /\ x < d * c + c BY DivBounds
<1> HIDE DEF k, d
<1>3. s <= x /\ x < s + c => d = k BY <1>1, Between DEF d
<1>4. d = k => s <= x /\ x < s + c BY <1>1, <1>2
<1>5. d + 1 = k + 1 <=> d = k BY <1>1, <1>2
<1>6. QED BY <1>3, <1>4, <1>5 DEF Chunk, d, k

\* The row after a whole chunk is the first of the next.
LEMMA NextAligned ==
    ASSUME NEW s, NEW c \in Nat \ {0}, Aligned(s, c)
    PROVE  Aligned(s + c, c)
<1> DEFINE k == s \div c
<1>1. s \in Nat /\ k \in Nat /\ k * c = s BY DivBounds DEF Aligned
<1> HIDE DEF k
<1>2. (k + 1) * c = s + c /\ k + 1 \in Nat /\ s + c \in Nat BY <1>1
<1>3. (k + 1) * c <= s + c /\ s + c < (k + 1) * c + c BY <1>1, <1>2
<1>4. (s + c) \div c = k + 1 BY <1>2, <1>3, Between
<1>5. QED BY <1>2, <1>4 DEF Aligned

\* Row 0 is the first of its chunk.
LEMMA ZeroAligned ==
    ASSUME NEW c \in Nat \ {0}
    PROVE  Aligned(0, c)
<1>1. 0 * c = 0 OBVIOUS
<1>2. 0 \div c = 0 BY <1>1, Between
<1>3. QED BY <1>1, <1>2 DEF Aligned

\* data() asks for the first row of the chunk it finds missing.
LEMMA ChunkAligned ==
    ASSUME NEW x \in Nat, NEW c \in Nat \ {0}
    PROVE  Aligned((Chunk(x, c) - 1) * c, c)
<1> DEFINE k == x \div c
<1>1. k \in Nat BY DivBounds
<1> HIDE DEF k
<1>2. k * c \in Nat /\ k + 1 - 1 = k BY <1>1
<1>3. k * c <= k * c /\ k * c < k * c + c BY <1>2
<1>4. (k * c) \div c = k BY <1>1, <1>2, <1>3, Between
<1>5. Aligned(k * c, c) BY <1>2, <1>4 DEF Aligned
<1>6. QED BY <1>2, <1>5 DEF Chunk, k

\* Later rows are in later chunks.
LEMMA ChunkMonotone ==
    ASSUME NEW x \in Nat, NEW y \in Nat, NEW c \in Nat \ {0}, x <= y
    PROVE  /\ Chunk(x, c) \in Nat \ {0} /\ Chunk(y, c) \in Nat \ {0}
           /\ Chunk(x, c) <= Chunk(y, c)
<1> DEFINE d == x \div c
           e == y \div c
<1>1. d \in Nat /\ d * c <= x /\ e \in Nat /\ y < e * c + c BY DivBounds
<1> HIDE DEF d, e
<1>2. d * c \in Nat /\ e * c \in Nat BY <1>1
<1>3. d * c < e * c + c BY <1>1, <1>2
<1>4. d <= e BY <1>1, <1>3, Multiples
<1>5. d + 1 \in Nat \ {0} /\ e + 1 \in Nat \ {0} /\ d + 1 <= e + 1 BY <1>1, <1>4
<1>6. QED BY <1>5 DEF Chunk, d, e

-----------------------------------------------------------------------------
(* What the rows are of an initialized model *)

\* None of the calls in q is the model's.
NoneOf(q, id) == \A i \in 1..Len(q) : q[i].id # id

\* A call in q that brings the data of a row, rows counted from 0.
Brings(r, id, row) == r.id = id /\ r.start <= row /\ row < r.start + r.count
Comes(q, id, row) == \E i \in 1..Len(q) : Brings(q[i], id, row)

\* The model asks for whole chunks.
Fitting(q, id, c) ==
    \A i \in 1..Len(q) : q[i].id = id => q[i].count = c /\ Aligned(q[i].start, c)

Begins(p, q) == Len(p) <= Len(q) /\ \A i \in 1..Len(p) : p[i] = q[i]

\* FetchMore: the model shows the first rows of the backend, and at most one call is
\* under way, for the rows after them; while one is, no other is made.
Shows(m, rows) ==
    /\ m.chunks = <<>>
    /\ m.more => m.fetched = Len(m.items)
    /\ Begins(m.items, rows)

OneAtATime(m, q, id) ==
    /\ m.more => NoneOf(q, id)
    /\ \A i \in 1..Len(q) : q[i].id = id => q[i].start = Len(m.items)
    /\ \A i, j \in 1..Len(q) : q[i].id = id /\ q[j].id = id => i = j

\* DataChanged: the model has no rows yet, or as many as the backend, each with the
\* backend's data or none, and marks for all of them.
Fits(m, rows, c) ==
    \/ m.items = <<>> /\ m.chunks = <<>> /\ m.fetched = 0
    \/ /\ m.items # <<>> /\ Len(m.items) = Len(rows)
       /\ Len(m.chunks) = Chunk(Len(rows), c)
       /\ \A i \in 1..Len(m.items) : m.items[i] # Empty => m.items[i] = rows[i]

\* A row without data that is marked is under way.
Marks(m, q, id, c) ==
    \A i \in 1..Len(m.items) :
        m.chunks[Chunk(i - 1, c)] = TRUE /\ m.items[i] = Empty => Comes(q, id, i - 1)

\* The rows, what the backend has and what it is asked for fit together.
Good(m, rows, q, id, type, c) ==
    /\ ~m.bad
    /\ m.more => Aligned(m.fetched, c)
    /\ Fitting(q, id, c)
    /\ type = "FetchMore" => Shows(m, rows) /\ OneAtATime(m, q, id)
    /\ type = "DataChanged" => Fits(m, rows, c) /\ Marks(m, q, id, c)

\* Calls with a call more.
LEMMA OneMore ==
    ASSUME NEW q \in Seq(Request), NEW r \in Request
    PROVE  /\ q \o <<r>> \in Seq(Request) /\ Len(q \o <<r>>) = Len(q) + 1
           /\ \A i \in 1..Len(q) : (q \o <<r>>)[i] = q[i]
           /\ (q \o <<r>>)[Len(q) + 1] = r
BY DEF Request

\* What fetchData() does to the rows.
LEMMA FetchDataFields ==
    ASSUME Given, m_serviceObject # None, NEW m \in RowsType, m.sent = <<>>,
           NEW start \in Nat
    PROVE  /\ FetchData(m, start).sent = <<RequestFrom(start)>>
           /\ FetchData(m, start).items = m.items
           /\ FetchData(m, start).fetched = m.fetched
           /\ FetchData(m, start).more = FALSE
           /\ FetchData(m, start).bad = m.bad
           /\ Len(FetchData(m, start).chunks) = Len(m.chunks)
           /\ \A k \in 1..Len(m.chunks) :
                 FetchData(m, start).chunks[k] = TRUE =>
                    m.chunks[k] = TRUE \/ k = Chunk(start, m_chunkSize)
<1> DEFINE chunk == Chunk(start, m_chunkSize)
           marked == [m.chunks EXCEPT ![chunk] = TRUE]
           chunks == IF chunk <= Len(m.chunks) THEN marked ELSE m.chunks
           r == [m EXCEPT !.more = FALSE, !.chunks = chunks, !.sent = <<RequestFrom(start)>>]
<1>1. m_chunkSize \in Nat \ {0} BY PagingAssumption DEF Given
<1>2. m.chunks \in Seq(BOOLEAN) BY DEF RowsType
<1>3. Append(m.sent, RequestFrom(start)) = <<RequestFrom(start)>> OBVIOUS
<1>4. FetchData(m, start) = r
  <2>1. FetchData(m, start) =
        [m EXCEPT !.more = FALSE, !.chunks = chunks, !.sent = Append(m.sent, RequestFrom(start))]
    BY DEF FetchData, Chunk
  <2>2. QED BY <1>3, <2>1
<1>5. /\ Len(chunks) = Len(m.chunks)
      /\ \A k \in 1..Len(m.chunks) : chunks[k] = TRUE => m.chunks[k] = TRUE \/ k = chunk
  <2> HIDE DEF chunk
  <2>1. Len(marked) = Len(m.chunks) BY <1>2
  <2>2. \A k \in 1..Len(m.chunks) : k # chunk => marked[k] = m.chunks[k] BY <1>2
  <2> HIDE DEF marked
  <2>3. CASE chunk <= Len(m.chunks) BY <2>1, <2>2, <2>3
  <2>4. CASE ~(chunk <= Len(m.chunks)) BY <2>4
  <2>5. QED BY <2>3, <2>4
<1> HIDE DEF chunk, marked, chunks
<1>6. /\ r.sent = <<RequestFrom(start)>> /\ r.items = m.items /\ r.fetched = m.fetched
      /\ r.more = FALSE /\ r.bad = m.bad /\ r.chunks = chunks
  BY DEF RowsType
<1> HIDE DEF r
<1>7. QED BY <1>4, <1>5, <1>6 DEF chunk

\* An empty sequence of marks has no mark.
LEMMA NoMarks ==
    ASSUME NEW S, NEW s \in Seq(S), Len(s) = 0
    PROVE  s = <<>>
BY EmptySeq

\* fetchData() asks for what is not under way.
LEMMA FetchDataGood ==
    ASSUME Given, m_serviceObject # None, NEW m \in RowsType, m.sent = <<>>,
           NEW start, Aligned(start, m_chunkSize),
           NEW rows \in Seq(Items), NEW q \in Seq(Request), NEW type,
           Good(m, rows, q, m_identifier, type, m_chunkSize),
           type = "FetchMore" => NoneOf(q, m_identifier) /\ start = Len(m.items)
    PROVE  Good(FetchData(m, start), rows, q \o FetchData(m, start).sent,
                m_identifier, type, m_chunkSize)
<1> DEFINE c == m_chunkSize
           id == m_identifier
           r == FetchData(m, start)
           req == RequestFrom(start)
           p == q \o <<req>>
<1>1. c \in Nat \ {0} BY PagingAssumption DEF Given
<1>2. start \in Nat BY DEF Aligned
<1>3. /\ r \in RowsType
      /\ r.sent = <<req>> /\ r.items = m.items /\ r.fetched = m.fetched
      /\ r.more = FALSE /\ r.bad = m.bad /\ Len(r.chunks) = Len(m.chunks)
      /\ \A k \in 1..Len(m.chunks) :
            r.chunks[k] = TRUE => m.chunks[k] = TRUE \/ k = Chunk(start, c)
  BY <1>2, FetchDataFields, FetchDataType
<1>4. req \in Request /\ req.id = id /\ req.start = start /\ req.count = c
  BY <1>2 DEF RequestFrom, Request, Given
<1>5. m.items \in Seq(Cells) /\ m.chunks \in Seq(BOOLEAN) /\ r.chunks \in Seq(BOOLEAN)
  BY <1>3 DEF RowsType
<1> HIDE DEF r, req
<1>6. /\ Len(q) \in Nat /\ Len(p) = Len(q) + 1
      /\ \A i \in 1..Len(q) : p[i] = q[i]
      /\ p[Len(q) + 1] = req
  <2>1. q \o <<req>> \in Seq(Request) /\ Len(q \o <<req>>) = Len(q) + 1
        /\ \A i \in 1..Len(q) : (q \o <<req>>)[i] = q[i]
        /\ (q \o <<req>>)[Len(q) + 1] = req
    BY <1>4, OneMore
  <2>2. Len(q) \in Nat OBVIOUS
  <2>3. QED BY <2>1, <2>2
<1> HIDE DEF p, c, id
<1>7. ASSUME NEW i \in 1..Len(p)
      PROVE  \/ i \in 1..Len(q) /\ p[i] = q[i]
             \/ i = Len(q) + 1 /\ p[i] = req
  BY <1>6
<1>8. Good(m, rows, q, id, type, c) BY DEF c, id
<1>9. ~r.bad /\ (r.more => Aligned(r.fetched, c)) BY <1>3, <1>8 DEF Good
<1>10. Fitting(p, id, c)
  <2>1. Aligned(start, c) BY DEF c
  <2>2. QED BY <1>4, <1>7, <1>8, <2>1 DEF Good, Fitting
<1>11. type = "FetchMore" => Shows(r, rows) /\ OneAtATime(r, p, id)
  <2>1. HAVE type = "FetchMore"
  <2>2. Shows(m, rows) /\ NoneOf(q, id) /\ start = Len(m.items)
    BY <1>8, <2>1 DEF Good, id
  <2>3. Shows(r, rows)
    <3>1. Len(m.chunks) = 0 BY <2>2 DEF Shows
    <3>2. r.chunks = <<>> BY <1>3, <1>5, <3>1, NoMarks
    <3>3. QED BY <1>3, <2>2, <3>2 DEF Shows
  <2>4. \A i \in 1..Len(p) : p[i].id = id => i = Len(q) + 1 /\ p[i] = req
    BY <1>7, <2>2 DEF NoneOf
  <2>5. QED BY <1>3, <1>4, <2>2, <2>3, <2>4 DEF OneAtATime
<1>12. type = "DataChanged" => Fits(r, rows, c) /\ Marks(r, p, id, c)
  <2>1. HAVE type = "DataChanged"
  <2>2. Fits(m, rows, c) /\ Marks(m, q, id, c) BY <1>8, <2>1 DEF Good
  <2>3. CASE m.items = <<>> /\ m.chunks = <<>> /\ m.fetched = 0
    <3>1. Len(m.chunks) = 0 BY <2>3
    <3>2. r.chunks = <<>> BY <1>3, <1>5, <3>1, NoMarks
    <3>3. Len(r.items) = 0 BY <1>3, <2>3
    <3>4. Marks(r, p, id, c) BY <3>3 DEF Marks
    <3>5. QED BY <1>3, <2>3, <3>2, <3>4 DEF Fits
  <2>4. CASE /\ m.items # <<>> /\ Len(m.items) = Len(rows)
             /\ Len(m.chunks) = Chunk(Len(rows), c)
             /\ \A i \in 1..Len(m.items) : m.items[i] # Empty => m.items[i] = rows[i]
    <3>1. Fits(r, rows, c) BY <1>3, <2>4 DEF Fits
    <3>2. ASSUME NEW i \in 1..Len(r.items), r.chunks[Chunk(i - 1, c)] = TRUE,
                 r.items[i] = Empty
          PROVE  Comes(p, id, i - 1)
      <4>1. i \in 1..Len(m.items) /\ m.items[i] = Empty /\ i - 1 \in Nat
            /\ Len(rows) \in Nat /\ i - 1 <= Len(rows)
        BY <1>3, <1>5, <2>4, <3>2
      <4>2. Chunk(i - 1, c) \in 1..Len(m.chunks)
        <5>1. /\ Chunk(i - 1, c) \in Nat \ {0} /\ Chunk(Len(rows), c) \in Nat \ {0}
              /\ Chunk(i - 1, c) <= Chunk(Len(rows), c)
          BY <1>1, <4>1, ChunkMonotone
        <5>2. QED BY <2>4, <5>1
      <4>3. CASE m.chunks[Chunk(i - 1, c)] = TRUE
        <5>1. Comes(q, id, i - 1) BY <2>2, <4>1, <4>3 DEF Marks
        <5>2. PICK j \in 1..Len(q) : Brings(q[j], id, i - 1) BY <5>1 DEF Comes
        <5>3. j \in 1..Len(p) /\ p[j] = q[j] BY <1>6
        <5>4. QED BY <5>2, <5>3 DEF Comes
      <4>4. CASE Chunk(i - 1, c) = Chunk(start, c)
        <5>1. Aligned(start, c) BY DEF c
        <5>2. start <= i - 1 /\ i - 1 < start + c
          BY <1>1, <4>1, <4>4, <5>1, ChunkRows
        <5>3. Brings(req, id, i - 1) BY <1>4, <5>2 DEF Brings, c, id
        <5>4. Len(q) + 1 \in 1..Len(p) /\ p[Len(q) + 1] = req BY <1>6
        <5>5. QED BY <5>3, <5>4 DEF Comes
      <4>5. QED BY <1>3, <3>2, <4>2, <4>3, <4>4
    <3>3. Marks(r, p, id, c) BY <3>2 DEF Marks
    <3>4. QED BY <3>1, <3>3
  <2>5. QED BY <2>2, <2>3, <2>4 DEF Fits
<1>13. Good(r, rows, p, id, type, c) BY <1>9, <1>10, <1>11, <1>12 DEF Good
<1>14. q \o FetchData(m, start).sent = p BY <1>3 DEF p, r
<1>15. QED BY <1>13, <1>14 DEF r, c, id

\* Rows that have sent nothing leave the calls as they are.
LEMMA NothingSent ==
    ASSUME NEW q \in Seq(Request), NEW s, s = <<>>
    PROVE  q \o s = q
BY ConcatEmptySeq

\* fetchMore() asks for the rows after those that were fetched.
LEMMA FetchMoreGood ==
    ASSUME Given, m_serviceObject # None, NEW m \in RowsType, m.sent = <<>>,
           NEW rows \in Seq(Items), NEW q \in Seq(Request), NEW type,
           Good(m, rows, q, m_identifier, type, m_chunkSize)
    PROVE  Good(FetchMore(m), rows, q \o FetchMore(m).sent,
                m_identifier, type, m_chunkSize)
<1>1. CASE m.more
  <2>1. FetchMore(m) = FetchData(m, m.fetched) BY <1>1 DEF FetchMore
  <2>2. Aligned(m.fetched, m_chunkSize) BY <1>1 DEF Good
  <2>3. type = "FetchMore" => NoneOf(q, m_identifier) /\ m.fetched = Len(m.items)
    BY <1>1 DEF Good, Shows, OneAtATime
  <2>4. Good(FetchData(m, m.fetched), rows, q \o FetchData(m, m.fetched).sent,
             m_identifier, type, m_chunkSize)
    BY <2>2, <2>3, FetchDataGood
  <2>5. QED BY <2>1, <2>4
<1>2. CASE ~m.more
  <2>1. FetchMore(m) = m BY <1>2 DEF FetchMore
  <2>2. q \o m.sent = q BY NothingSent
  <2>3. QED BY <2>1, <2>2
<1>3. QED BY <1>1, <1>2 DEF RowsType

\* resetModel() clears the rows and fetches the first chunk, when nothing the model
\* asked for is under way.
LEMMA ResetGood ==
    ASSUME Given, m_serviceObject # None, NEW m \in RowsType, m.sent = <<>>, ~m.bad,
           NEW rows \in Seq(Items), NEW q \in Seq(Request), NEW type,
           NoneOf(q, m_identifier)
    PROVE  Good(Reset(m), rows, q \o Reset(m).sent, m_identifier, type, m_chunkSize)
<1> DEFINE c == m_chunkSize
           n == Cleared(m)
           none == <<>>
<1>1. c \in Nat \ {0} BY PagingAssumption DEF Given
<1>2. none \in Seq(Cells) /\ none \in Seq(BOOLEAN) /\ Len(none) = 0 BY EmptySeq
<1>3. n = [m EXCEPT !.items = none, !.chunks = none, !.fetched = 0, !.more = TRUE]
  BY DEF Cleared
<1>4. m.sent = <<>> OBVIOUS
<1> HIDE DEF n, none
<1>5. n \in RowsType BY <1>2, <1>3 DEF RowsType
<1>6. /\ n.items = none /\ n.chunks = none /\ n.fetched = 0 /\ n.more = TRUE
      /\ n.sent = <<>> /\ ~n.bad
  BY <1>3, <1>4 DEF RowsType
<1>7. Fitting(q, m_identifier, c) BY DEF Fitting, NoneOf
<1>8. Aligned(n.fetched, c) BY <1>1, <1>6, ZeroAligned
<1>9. Shows(n, rows)
  <2>1. Begins(none, rows) BY <1>2 DEF Begins
  <2>2. QED BY <1>2, <1>6, <2>1 DEF Shows, none
<1>10. OneAtATime(n, q, m_identifier) BY DEF OneAtATime, NoneOf
<1>11. Fits(n, rows, c) BY <1>6 DEF Fits, none
<1>12. Marks(n, q, m_identifier, c) BY <1>2, <1>6 DEF Marks
<1>13. Good(n, rows, q, m_identifier, type, c)
  BY <1>6, <1>7, <1>8, <1>9, <1>10, <1>11, <1>12 DEF Good
<1> HIDE DEF c
<1>14. Good(FetchMore(n), rows, q \o FetchMore(n).sent, m_identifier, type, c)
  BY <1>5, <1>6, <1>13, FetchMoreGood DEF c
<1>15. Reset(m) = FetchMore(n) BY DEF Reset, n
<1>16. QED BY <1>14, <1>15 DEF c

\* data() finds a mark for each row it is asked for, and asks for whole chunks.
LEMMA ReadGood ==
    ASSUME TypeOK, m_serviceObject # None,
           NEW rows \in Seq(Items), NEW q \in Seq(Request),
           Good(Rows, rows, q, m_identifier, m_loadingType, m_chunkSize),
           NEW row \in 0..(Len(m_itemList) - 1)
    PROVE  Good(Read(row), rows, q \o Read(row).sent, m_identifier,
                m_loadingType, m_chunkSize)
<1> DEFINE c == m_chunkSize
           chunk == Chunk(row, c)
           start == (chunk - 1) * c
<1>1. Given /\ Rows \in RowsType /\ Rows.sent = <<>> BY RowsTyped DEF Rows
<1>2. c \in Nat \ {0} BY <1>1, PagingAssumption DEF Given
<1>3. row \in Nat BY DEF TypeOK
<1>4. Good(FetchMore(Rows), rows, q \o FetchMore(Rows).sent, m_identifier, m_loadingType, c)
  BY <1>1, FetchMoreGood
<1>5. Good(Rows, rows, q \o Rows.sent, m_identifier, m_loadingType, c)
  <2>1. q \o Rows.sent = q BY <1>1, NothingSent
  <2>2. QED BY <2>1
<1>6. CASE m_loadingType = "DataChanged"
  <2>1. ~(chunk > Len(m_availableChunks))
    <3>1. Fits(Rows, rows, c) BY <1>6 DEF Good
    <3>2. Rows.items = m_itemList /\ Rows.chunks = m_availableChunks BY DEF Rows
    <3>3. m_itemList # <<>> /\ Len(m_itemList) \in Nat
      BY DEF TypeOK
    <3>4. Len(m_itemList) = Len(rows) /\ Len(m_availableChunks) = Chunk(Len(rows), c)
      BY <3>1, <3>2, <3>3 DEF Fits
    <3>5. row <= Len(rows) /\ Len(rows) \in Nat BY <3>3, <3>4
    <3>6. /\ chunk \in Nat \ {0} /\ Chunk(Len(rows), c) \in Nat \ {0}
          /\ chunk <= Chunk(Len(rows), c)
      BY <1>2, <1>3, <3>5, ChunkMonotone
    <3>7. QED BY <3>4, <3>6
  <2>2. Aligned(start, c) BY <1>2, <1>3, ChunkAligned
  <2>3. \/ Read(row) = FetchData(Rows, start)
        \/ Read(row) = FetchMore(Rows)
        \/ Read(row) = Rows
    <3>1. chunk = row \div m_chunkSize + 1 BY DEF Chunk
    <3> HIDE DEF chunk
    <3>2. Read(row) =
            IF m_loadingType = "DataChanged" /\ chunk > Len(m_availableChunks)
            THEN [Rows EXCEPT !.bad = TRUE]
            ELSE IF m_loadingType = "DataChanged" /\ ~m_availableChunks[chunk]
            THEN FetchData(Rows, (chunk - 1) * m_chunkSize)
            ELSE IF row >= m_fetchedDataCount - m_fetchMoreThreshold THEN FetchMore(Rows)
            ELSE Rows
      BY <3>1 DEF Read
    <3>3. QED BY <2>1, <3>2
  <2> HIDE DEF start, c
  <2>4. m_loadingType = "FetchMore" => NoneOf(q, m_identifier) /\ start = Len(Rows.items)
    BY <1>6
  <2>5. Aligned(start, m_chunkSize) BY <2>2 DEF c
  <2>6. Good(FetchData(Rows, start), rows, q \o FetchData(Rows, start).sent,
             m_identifier, m_loadingType, m_chunkSize)
    BY <1>1, <2>4, <2>5, FetchDataGood
  <2>7. QED BY <1>4, <1>5, <2>3, <2>6 DEF c
<1>7. CASE m_loadingType # "DataChanged"
  <2>1. Read(row) = FetchMore(Rows) \/ Read(row) = Rows BY <1>7 DEF Read
  <2>2. QED BY <1>4, <1>5, <2>1
<1>8. QED BY <1>6, <1>7

-----------------------------------------------------------------------------
(* The answers of the backend *)

\* The rows that a backend answers a call with, up to the last there is.
Upto(r, n) == IF r.start + r.count < n THEN r.start + r.count ELSE n
Part(r, rows) == SubSeq(rows, r.start + 1, Upto(r, Len(rows)))

\* What they are.
LEMMA PartIs ==
    ASSUME NEW r \in Request, NEW rows \in Seq(Items)
    PROVE  /\ Upto(r, Len(rows)) \in Nat /\ r.start \in Nat /\ r.count \in Nat \ {0}
           /\ Part(r, rows) \in Seq(Items)
           /\ Len(Part(r, rows)) = IF r.start < Upto(r, Len(rows))
                                   THEN Upto(r, Len(rows)) - r.start ELSE 0
           /\ \A i \in 1..Len(Part(r, rows)) : Part(r, rows)[i] = rows[r.start + i]
<1> DEFINE s == r.start
           u == Upto(r, Len(rows))
           p == Part(r, rows)
<1>1. s \in Nat /\ r.count \in Nat \ {0} BY PagingAssumption DEF Request
<1>2. Len(rows) \in Nat BY LenProperties
<1>3. u \in Nat /\ u <= Len(rows) BY <1>1, <1>2 DEF Upto
<1>4. p = SubSeq(rows, s + 1, u) BY DEF Part
<1> HIDE DEF s, u, p
<1>5. \A i \in (s + 1)..u : rows[i] \in Items BY <1>1, <1>2, <1>3
<1>6. s + 1 \in Int /\ u \in Int BY <1>1, <1>3
<1>7. /\ p \in Seq(Items)
      /\ Len(p) = IF s + 1 <= u THEN u - (s + 1) + 1 ELSE 0
      /\ \A i \in 1..(u - (s + 1) + 1) : p[i] = rows[s + 1 + i - 1]
  BY <1>4, <1>5, <1>6, SubSeqProperties
<1>8. Len(p) = IF s < u THEN u - s ELSE 0 BY <1>1, <1>3, <1>7
<1>9. ASSUME NEW i \in 1..Len(p) PROVE p[i] = rows[s + i]
  <2>1. i \in 1..(u - (s + 1) + 1) /\ s + 1 + i - 1 = s + i BY <1>1, <1>3, <1>8
  <2>2. QED BY <1>7, <2>1
<1>10. QED BY <1>1, <1>3, <1>7, <1>8, <1>9 DEF s, u, p

\* Rows that onDataFetched() does not refuse.
InOneChunk(items, start, c) ==
    Len(items) <= c /\ (start + Len(items) - 1) \div c = start \div c

\* They lie within the chunk that was asked for.
LEMMA PartFits ==
    ASSUME NEW c \in Nat \ {0}, NEW r \in Request, r.count = c, Aligned(r.start, c),
           NEW rows \in Seq(Items), Part(r, rows) # <<>>
    PROVE  /\ r.start < Len(rows) /\ r.start < Upto(r, Len(rows))
           /\ r.start + Len(Part(r, rows)) = Upto(r, Len(rows))
           /\ InOneChunk(Part(r, rows), r.start, c)
<1> DEFINE s == r.start
           u == Upto(r, Len(rows))
           p == Part(r, rows)
<1>1. /\ u \in Nat /\ s \in Nat
      /\ p \in Seq(Items) /\ Len(p) = IF s < u THEN u - s ELSE 0
  BY PartIs
<1>2. Len(rows) \in Nat BY LenProperties
<1>3. u <= s + c /\ u <= Len(rows) BY <1>1, <1>2 DEF Upto
<1>4. p # <<>> OBVIOUS
<1> HIDE DEF s, u, p
<1>5. Len(p) # 0 BY <1>1, <1>4, EmptySeq
<1>6. s < u /\ Len(p) = u - s BY <1>1, <1>5
<1>7. u - 1 \in Nat /\ s <= u - 1 /\ u - 1 < s + c BY <1>1, <1>3, <1>6
<1>8. Chunk(u - 1, c) = Chunk(s, c) BY <1>7, ChunkRows DEF s
<1>9. (u - 1) \div c = s \div c
  <2> DEFINE d == (u - 1) \div c
             e == s \div c
  <2>1. d \in Nat /\ e \in Nat BY <1>1, <1>7, DivBounds
  <2>2. d + 1 = e + 1 BY <1>8 DEF Chunk
  <2> HIDE DEF d, e
  <2>3. d = e BY <2>1, <2>2
  <2>4. QED BY <2>3 DEF d, e
<1>10. Len(p) <= c /\ s + Len(p) = u BY <1>1, <1>3, <1>6
<1>11. InOneChunk(p, s, c)
  <2>1. s + Len(p) - 1 = u - 1 BY <1>1, <1>10
  <2>2. (s + Len(p) - 1) \div c = s \div c BY <1>9, <2>1, Zenon
  <2>3. QED BY <1>10, <2>2 DEF InOneChunk
<1>12. QED BY <1>1, <1>2, <1>3, <1>6, <1>10, <1>11 DEF s, u, p

\* What is left of the calls when the first has been answered.
LEMMA TheRest ==
    ASSUME NEW q \in Seq(Request), q # <<>>
    PROVE  /\ Head(q) = q[1] /\ 1 \in 1..Len(q) /\ q[1] \in Request
           /\ Tail(q) \in Seq(Request)
           /\ \A i \in 1..Len(Tail(q)) : i + 1 \in 1..Len(q) /\ Tail(q)[i] = q[i + 1]
           /\ \A j \in 1..Len(q) : j # 1 => j - 1 \in 1..Len(Tail(q)) /\ Tail(q)[j - 1] = q[j]
<1>1. /\ Head(q) \in Request /\ Tail(q) \in Seq(Request) /\ Len(Tail(q)) = Len(q) - 1
      /\ \A i \in 1..Len(Tail(q)) : Tail(q)[i] = q[i + 1]
  BY HeadTailProperties
<1>2. Head(q) = q[1] /\ 1 \in 1..Len(q) OBVIOUS
<1>3. Len(q) \in Nat OBVIOUS
<1>4. \A i \in 1..Len(Tail(q)) : i + 1 \in 1..Len(q) BY <1>1, <1>3
<1>5. ASSUME NEW j \in 1..Len(q), j # 1
      PROVE  j - 1 \in 1..Len(Tail(q)) /\ Tail(q)[j - 1] = q[j]
  <2>1. j - 1 \in 1..Len(Tail(q)) /\ (j - 1) + 1 = j BY <1>1, <1>3, <1>5
  <2>2. QED BY <1>1, <2>1
<1>6. QED BY <1>1, <1>2, <1>4, <1>5

\* They fit as before, and bring all that the first does not.
LEMMA RestFits ==
    ASSUME NEW q \in Seq(Request), q # <<>>, NEW id, NEW c, NEW m
    PROVE  /\ Fitting(q, id, c) => Fitting(Tail(q), id, c)
           /\ NoneOf(q, id) => NoneOf(Tail(q), id)
           /\ OneAtATime(m, q, id) => OneAtATime(m, Tail(q), id)
           /\ OneAtATime(m, q, id) /\ q[1].id = id => NoneOf(Tail(q), id)
           /\ \A row : Comes(q, id, row) /\ ~Brings(q[1], id, row) => Comes(Tail(q), id, row)
<1> DEFINE t == Tail(q)
<1>1. /\ 1 \in 1..Len(q)
      /\ \A i \in 1..Len(t) : i + 1 \in 1..Len(q) /\ t[i] = q[i + 1]
      /\ \A j \in 1..Len(q) : j # 1 => j - 1 \in 1..Len(t) /\ t[j - 1] = q[j]
  BY TheRest
<1>2. Len(t) \in Nat BY TheRest, LenProperties
<1> HIDE DEF t
<1>3. Fitting(q, id, c) => Fitting(t, id, c) BY <1>1 DEF Fitting
<1>4. NoneOf(q, id) => NoneOf(t, id) BY <1>1 DEF NoneOf
<1>5. OneAtATime(m, q, id) => OneAtATime(m, t, id)
  <2>1. HAVE OneAtATime(m, q, id)
  <2>2. m.more => NoneOf(t, id) BY <1>4, <2>1 DEF OneAtATime
  <2>3. \A i \in 1..Len(t) : t[i].id = id => t[i].start = Len(m.items)
    BY <1>1, <2>1 DEF OneAtATime
  <2>4. ASSUME NEW i \in 1..Len(t), NEW j \in 1..Len(t), t[i].id = id, t[j].id = id
        PROVE  i = j
    <3>1. i + 1 = j + 1 BY <1>1, <2>1, <2>4 DEF OneAtATime
    <3>2. QED BY <1>2, <3>1
  <2>5. QED BY <2>2, <2>3, <2>4 DEF OneAtATime
<1>6. OneAtATime(m, q, id) /\ q[1].id = id => NoneOf(t, id)
  <2>1. HAVE OneAtATime(m, q, id) /\ q[1].id = id
  <2>2. ASSUME NEW i \in 1..Len(t), t[i].id = id PROVE FALSE
    <3>1. i + 1 = 1 BY <1>1, <2>1, <2>2 DEF OneAtATime
    <3>2. QED BY <1>2, <3>1
  <2>3. QED BY <2>2 DEF NoneOf
<1>7. ASSUME NEW row, Comes(q, id, row), ~Brings(q[1], id, row) PROVE Comes(t, id, row)
  <2>1. PICK j \in 1..Len(q) : Brings(q[j], id, row) BY <1>7 DEF Comes
  <2>2. j # 1 BY <1>7, <2>1
  <2>3. QED BY <1>1, <2>1, <2>2 DEF Comes
<1>8. QED BY <1>3, <1>4, <1>5, <1>6, <1>7 DEF t

\* The first rows with those after them are first rows.
LEMMA BeginsMore ==
    ASSUME NEW p \in Seq(Items), NEW q \in Seq(Items), NEW rows \in Seq(Items),
           Begins(p, rows), Len(p) + Len(q) <= Len(rows),
           \A i \in 1..Len(q) : q[i] = rows[Len(p) + i]
    PROVE  Begins(p \o q, rows) /\ Len(p \o q) = Len(p) + Len(q)
<1>1. /\ Len(p) \in Nat /\ Len(q) \in Nat
      /\ Len(p \o q) = Len(p) + Len(q)
      /\ \A i \in 1..(Len(p) + Len(q)) : (p \o q)[i] = IF i <= Len(p) THEN p[i] ELSE q[i - Len(p)]
  BY ConcatProperties, LenProperties
<1>2. ASSUME NEW i \in 1..(Len(p) + Len(q)) PROVE (p \o q)[i] = rows[i]
  <2>1. CASE i <= Len(p)
    <3>1. i \in 1..Len(p) BY <1>1, <2>1
    <3>2. QED BY <1>1, <2>1, <3>1 DEF Begins
  <2>2. CASE ~(i <= Len(p))
    <3>1. i - Len(p) \in 1..Len(q) /\ Len(p) + (i - Len(p)) = i BY <1>1, <2>2
    <3>2. QED BY <1>1, <2>2, <3>1
  <2>3. QED BY <2>1, <2>2
<1>3. QED BY <1>1, <1>2 DEF Begins

\* What onDataFetched() makes of the rows, its assertions holding.
Appending(m, items, more) ==
    [m EXCEPT !.more = more, !.items = m.items \o items,
              !.fetched = Len(m.items) + Len(items)]

Filling(m, items, start, more) ==
    [m EXCEPT !.more = more, !.fetched = start + Len(items),
              !.items = [i \in 1..Len(m.items) |->
                            IF i > start /\ i <= start + Len(items)
                            THEN items[i - start] ELSE m.items[i]],
              !.chunks = IF Chunk(start, m_chunkSize) <= Len(m.chunks)
                         THEN [m.chunks EXCEPT ![Chunk(start, m_chunkSize)] = TRUE]
                         ELSE m.chunks,
              !.bad = Chunk(start, m_chunkSize) > Len(m.chunks)]

TooFew(m, items, start) ==
    \/ Len(m.items) < start + Len(items)
    \/ Len(m.chunks) < (start + Len(items)) \div m_chunkSize

\* It appends, ignores or puts in place what it is given.
LEMMA FetchedIs ==
    ASSUME NEW m, NEW items \in Seq(Items), NEW start \in Nat, NEW more,
           m_chunkSize \in Nat \ {0}, InOneChunk(items, start, m_chunkSize)
    PROVE  /\ m_loadingType = "FetchMore" =>
                 Fetched(m, items, start, more) = Appending(m, items, more)
           /\ m_loadingType = "DataChanged" /\ TooFew(m, items, start) =>
                 Fetched(m, items, start, more) = [m EXCEPT !.more = more]
           /\ m_loadingType = "DataChanged" /\ ~TooFew(m, items, start) =>
                 Fetched(m, items, start, more) = Filling(m, items, start, more)
<1> DEFINE size == start + Len(items)
           far == \/ Len(items) > m_chunkSize
                  \/ (size - 1) \div m_chunkSize # start \div m_chunkSize
           same == [m EXCEPT !.more = more]
<1>1. ~far
  <2>1. ~(Len(items) > m_chunkSize) BY DEF InOneChunk
  <2>2. (size - 1) \div m_chunkSize = start \div m_chunkSize BY DEF InOneChunk
  <2> HIDE DEF size
  <2>3. QED BY <2>1, <2>2, Zenon
<1>2. Fetched(m, items, start, more) =
        IF far THEN [m EXCEPT !.bad = TRUE]
        ELSE IF m_loadingType = "FetchMore" THEN Appending(m, items, more)
        ELSE IF TooFew(m, items, start) THEN same ELSE Filling(m, items, start, more)
  BY Zenon DEF Fetched, Appending, TooFew, Filling, Chunk
<1> HIDE DEF far, same
<1>3. m_loadingType = "FetchMore" =>
         Fetched(m, items, start, more) = Appending(m, items, more)
  BY <1>1, <1>2
<1>4. m_loadingType = "DataChanged" /\ TooFew(m, items, start) =>
         Fetched(m, items, start, more) = same
  BY <1>1, <1>2
<1>5. m_loadingType = "DataChanged" /\ ~TooFew(m, items, start) =>
         Fetched(m, items, start, more) = Filling(m, items, start, more)
  BY <1>1, <1>2
<1>6. QED BY <1>3, <1>4, <1>5 DEF same

\* It puts in place what it has room for.
LEMMA FetchedFills ==
    ASSUME NEW m, NEW items \in Seq(Items), NEW start \in Nat, NEW more,
           m_chunkSize \in Nat \ {0}, InOneChunk(items, start, m_chunkSize),
           m_loadingType = "DataChanged", ~TooFew(m, items, start)
    PROVE  Fetched(m, items, start, more) = Filling(m, items, start, more)
BY FetchedIs

\* onDataFetched() appends what was asked for to the rows there are.
LEMMA AppendedGood ==
    ASSUME Given, m_loadingType = "FetchMore", NEW m \in RowsType,
           NEW rows \in Seq(Items), NEW q \in Seq(Request), q # <<>>,
           q[1].id = m_identifier,
           Good(m, rows, q, m_identifier, m_loadingType, m_chunkSize),
           Part(q[1], rows) # <<>>
    PROVE  Good(Fetched(m, Part(q[1], rows), q[1].start, q[1].start + q[1].count < Len(rows)),
                rows, Tail(q), m_identifier, m_loadingType, m_chunkSize)
<1> DEFINE c == m_chunkSize
           id == m_identifier
           r == q[1]
           s == r.start
           p == Part(r, rows)
           u == Upto(r, Len(rows))
           more == s + r.count < Len(rows)
           n == [m EXCEPT !.more = more, !.items = m.items \o p,
                          !.fetched = Len(m.items) + Len(p)]
<1>1. c \in Nat \ {0} BY PagingAssumption DEF Given
<1>2. 1 \in 1..Len(q) /\ r \in Request BY TheRest
<1>3. Fitting(q, id, c) /\ Shows(m, rows) /\ OneAtATime(m, q, id) /\ ~m.bad
  BY DEF Good
<1>4. r.count = c /\ Aligned(s, c) /\ s = Len(m.items)
  BY <1>2, <1>3 DEF Fitting, OneAtATime
<1>5. NoneOf(Tail(q), id) BY <1>3, RestFits
<1>6. /\ s \in Nat /\ u \in Nat
      /\ p \in Seq(Items) /\ \A i \in 1..Len(p) : p[i] = rows[s + i]
  BY <1>2, PartIs
<1>7. s < u /\ s + Len(p) = u /\ InOneChunk(p, s, c)
  BY <1>1, <1>2, <1>4, PartFits
<1>8. Len(rows) \in Nat /\ Len(p) \in Nat BY <1>6, LenProperties
<1>9. u <= Len(rows) /\ (more => u = s + c) BY <1>1, <1>4, <1>6, <1>8 DEF Upto
<1>10. m.items \in Seq(Items) BY DEF RowsType, Cells
<1>11. more \in BOOLEAN OBVIOUS
<1> HIDE DEF r, s, p, u, c, id
<1>12. Fetched(m, p, s, more) = n
  <2> HIDE DEF more, n
  <2>1. InOneChunk(p, s, m_chunkSize) BY <1>7 DEF c
  <2>2. Fetched(m, p, s, more) = Appending(m, p, more)
    BY <1>1, <1>6, <2>1, FetchedIs DEF c
  <2>3. QED BY <2>2 DEF n, Appending
<1>13. /\ n.more = more /\ n.items = m.items \o p /\ n.fetched = Len(m.items) + Len(p)
       /\ n.chunks = m.chunks /\ n.bad = m.bad
  BY DEF RowsType
<1> HIDE DEF n, more
<1>14. Begins(n.items, rows) /\ Len(n.items) = Len(m.items) + Len(p)
  <2>1. Begins(m.items, rows) BY <1>3 DEF Shows
  <2>2. /\ Len(m.items) + Len(p) <= Len(rows)
        /\ \A i \in 1..Len(p) : p[i] = rows[Len(m.items) + i]
    BY <1>4, <1>6, <1>7, <1>9
  <2>3. Begins(m.items \o p, rows) /\ Len(m.items \o p) = Len(m.items) + Len(p)
    BY <1>6, <1>10, <2>1, <2>2, BeginsMore
  <2>4. QED BY <1>13, <2>3
<1>15. Shows(n, rows) BY <1>3, <1>13, <1>14 DEF Shows
<1>16. n.more => Aligned(n.fetched, c)
  <2>1. HAVE n.more
  <2>2. n.fetched = s + c BY <1>4, <1>7, <1>9, <1>13, <2>1
  <2>3. QED BY <1>1, <1>4, <2>2, NextAligned
<1>17. OneAtATime(n, Tail(q), id) BY <1>5 DEF OneAtATime, NoneOf
<1>18. Fitting(Tail(q), id, c) BY <1>5 DEF Fitting, NoneOf
<1>19. Good(n, rows, Tail(q), id, m_loadingType, c)
  BY <1>3, <1>13, <1>15, <1>16, <1>17, <1>18 DEF Good
<1>20. Good(Fetched(m, p, s, more), rows, Tail(q), id, m_loadingType, c)
  BY <1>12, <1>19
<1>21. QED BY <1>20 DEF r, s, p, c, id, more

\* onDataFetched() puts what was asked for into the rows there are.
LEMMA FilledGood ==
    ASSUME Given, m_loadingType = "DataChanged", NEW m \in RowsType,
           NEW rows \in Seq(Items), NEW q \in Seq(Request), q # <<>>,
           q[1].id = m_identifier,
           Good(m, rows, q, m_identifier, m_loadingType, m_chunkSize),
           Part(q[1], rows) # <<>>
    PROVE  Good(Fetched(m, Part(q[1], rows), q[1].start, q[1].start + q[1].count < Len(rows)),
                rows, Tail(q), m_identifier, m_loadingType, m_chunkSize)
<1> DEFINE c == m_chunkSize
           id == m_identifier
           r == q[1]
           s == r.start
           p == Part(r, rows)
           u == Upto(r, Len(rows))
           more == s + r.count < Len(rows)
           chunk == Chunk(s, c)
           filled == [i \in 1..Len(m.items) |-> IF i > s /\ i <= u THEN p[i - s] ELSE m.items[i]]
           chunks == [m.chunks EXCEPT ![chunk] = TRUE]
           n == [m EXCEPT !.more = more, !.fetched = u, !.items = filled, !.chunks = chunks,
                          !.bad = FALSE]
           o == [m EXCEPT !.more = more]
<1>1. c \in Nat \ {0} BY PagingAssumption DEF Given
<1>2. 1 \in 1..Len(q) /\ r \in Request BY TheRest
<1>3. Fitting(q, id, c) /\ Fits(m, rows, c) /\ Marks(m, q, id, c) /\ ~m.bad
  BY DEF Good
<1>4. r.count = c /\ Aligned(s, c) /\ r.id = id BY <1>2, <1>3 DEF Fitting
<1>5. Fitting(Tail(q), id, c) BY <1>3, RestFits
<1>6. /\ s \in Nat /\ u \in Nat
      /\ p \in Seq(Items) /\ \A i \in 1..Len(p) : p[i] = rows[s + i]
  BY <1>2, PartIs
<1>7. s < u /\ s < Len(rows) /\ s + Len(p) = u /\ InOneChunk(p, s, c)
  BY <1>1, <1>2, <1>4, PartFits
<1>8. Len(rows) \in Nat /\ Len(p) \in Nat BY <1>6, LenProperties
<1>9. u <= Len(rows) /\ (more => u = s + c) /\ (u = Len(rows) \/ u = s + c)
  BY <1>1, <1>4, <1>6, <1>8 DEF Upto
<1>10. m.items \in Seq(Cells) /\ m.chunks \in Seq(BOOLEAN)
       /\ Len(m.items) \in Nat /\ Len(m.chunks) \in Nat
  BY LenProperties DEF RowsType
<1>11. more \in BOOLEAN OBVIOUS
<1>12. (m.more => Aligned(m.fetched, c)) /\ Aligned(0, c) BY <1>1, ZeroAligned DEF Good
<1>13. \A row : Comes(q, id, row) /\ ~Brings(r, id, row) => Comes(Tail(q), id, row)
  BY RestFits
<1> HIDE DEF r, s, p, u, c, id, more
<1>14. InOneChunk(p, s, m_chunkSize) BY <1>7 DEF c
<1>15. ~(m_loadingType = "FetchMore") OBVIOUS
<1>16. CASE m.items = <<>> /\ m.chunks = <<>> /\ m.fetched = 0
  <2>1. Len(m.items) < s + Len(p) BY <1>6, <1>7, <1>16
  <2>2. Fetched(m, p, s, more) = o
    <3>1. TooFew(m, p, s) BY <2>1 DEF TooFew
    <3>2. Fetched(m, p, s, more) = [m EXCEPT !.more = more]
      BY <1>1, <1>6, <1>14, <3>1, FetchedIs DEF c
    <3>3. QED BY <3>2
  <2>3. o.items = m.items /\ o.chunks = m.chunks /\ o.fetched = m.fetched /\ o.bad = m.bad
    BY DEF RowsType
  <2> HIDE DEF o
  <2>4. Fits(o, rows, c) BY <1>16, <2>3 DEF Fits
  <2>5. Len(o.items) = 0 BY <1>16, <2>3
  <2>6. Marks(o, Tail(q), id, c) BY <2>5 DEF Marks
  <2>7. Good(o, rows, Tail(q), id, m_loadingType, c)
    BY <1>3, <1>5, <1>12, <1>15, <1>16, <2>3, <2>4, <2>6 DEF Good
  <2>8. Good(Fetched(m, p, s, more), rows, Tail(q), id, m_loadingType, c)
    BY <2>2, <2>7
  <2>9. QED BY <2>8 DEF r, s, p, c, id, more
<1>17. CASE /\ m.items # <<>> /\ Len(m.items) = Len(rows)
            /\ Len(m.chunks) = Chunk(Len(rows), c)
            /\ \A i \in 1..Len(m.items) : m.items[i] # Empty => m.items[i] = rows[i]
  <2>1. ~(Len(m.items) < s + Len(p)) BY <1>6, <1>7, <1>8, <1>9, <1>17
  <2>2. /\ chunk \in Nat \ {0} /\ Len(m.chunks) \in Nat \ {0} /\ chunk <= Len(m.chunks)
        /\ Chunk(u, c) <= Len(m.chunks) /\ Chunk(u, c) \in Nat
    <3>1. s <= Len(rows) BY <1>6, <1>7, <1>8
    <3>2. /\ Chunk(s, c) \in Nat \ {0} /\ Chunk(Len(rows), c) \in Nat \ {0}
          /\ Chunk(s, c) <= Chunk(Len(rows), c)
      BY <1>1, <1>6, <1>8, <3>1, ChunkMonotone
    <3>3. /\ Chunk(u, c) \in Nat \ {0} /\ Chunk(Len(rows), c) \in Nat \ {0}
          /\ Chunk(u, c) <= Chunk(Len(rows), c)
      BY <1>1, <1>6, <1>8, <1>9, ChunkMonotone
    <3> HIDE DEF chunk
    <3>4. QED BY <1>17, <3>2, <3>3 DEF chunk
  <2>3. ~(Len(m.chunks) < (s + Len(p)) \div m_chunkSize)
    <3>1. u \div c \in Nat BY <1>1, <1>6, DivBounds
    <3>2. u \div c <= Len(m.chunks) BY <2>2, <3>1 DEF Chunk
    <3>3. QED BY <1>7, <2>2, <3>1, <3>2 DEF c
  <2>4. Fetched(m, p, s, more) = n
    <3> HIDE DEF chunk, chunks, filled, n
    <3>1. ~TooFew(m, p, s) BY <2>1, <2>3 DEF TooFew
    <3>2. Fetched(m, p, s, more) = Filling(m, p, s, more)
      <4>1. m_chunkSize \in Nat \ {0} BY <1>1 DEF c
      <4>2. m_loadingType = "DataChanged" OBVIOUS
      <4>3. p \in Seq(Items) /\ s \in Nat BY <1>6
      <4>4. QED BY <1>14, <3>1, <4>1, <4>2, <4>3, FetchedFills
    <3>3. /\ (IF chunk <= Len(m.chunks) THEN [m.chunks EXCEPT ![chunk] = TRUE]
              ELSE m.chunks) = chunks
          /\ (chunk > Len(m.chunks)) = FALSE
      BY <2>2 DEF chunks
    <3>4. filled = [i \in 1..Len(m.items) |-> IF i > s /\ i <= s + Len(p)
                                              THEN p[i - s] ELSE m.items[i]]
      BY <1>7 DEF filled
    <3>5. chunk = Chunk(s, m_chunkSize) BY DEF chunk, c
    <3>6. Filling(m, p, s, more) =
            [m EXCEPT !.more = more, !.fetched = u, !.items = filled,
                      !.chunks = IF chunk <= Len(m.chunks)
                                 THEN [m.chunks EXCEPT ![chunk] = TRUE] ELSE m.chunks,
                      !.bad = chunk > Len(m.chunks)]
      BY <1>7, <3>4, <3>5, Zenon DEF Filling
    <3>7. QED BY <3>2, <3>3, <3>6, Zenon DEF n
  <2>5. /\ Len(chunks) = Len(m.chunks) /\ chunks \in Seq(BOOLEAN)
        /\ \A k \in 1..Len(m.chunks) : k # chunk => chunks[k] = m.chunks[k]
    <3> HIDE DEF chunk
    <3>1. chunk \in 1..Len(m.chunks) BY <2>2
    <3>2. QED BY <1>10, <3>1, ExceptSeq
  <2>6. /\ Len(filled) = Len(m.items)
        /\ \A i \in 1..Len(m.items) :
              filled[i] = IF i > s /\ i <= u THEN p[i - s] ELSE m.items[i]
    BY <1>10
  <2> HIDE DEF chunks, filled, chunk
  <2>7. /\ n.more = more /\ n.fetched = u /\ n.items = filled /\ n.chunks = chunks
        /\ n.bad = FALSE
    BY DEF RowsType
  <2> HIDE DEF n
  <2>8. ASSUME NEW i \in 1..Len(m.items), i > s, i <= u
        PROVE  filled[i] = rows[i] /\ filled[i] # Empty
    <3>1. i - s \in 1..Len(p) /\ s + (i - s) = i BY <1>6, <1>7, <1>8, <2>8
    <3>2. filled[i] = p[i - s] BY <2>6, <2>8
    <3>3. p[i - s] \in Items BY <1>6, <3>1, ElementOfSeq
    <3>4. QED BY <1>6, <3>1, <3>2, <3>3, PagingAssumption
  <2>9. ASSUME NEW i \in 1..Len(m.items), ~(i > s /\ i <= u)
        PROVE  filled[i] = m.items[i]
    BY <2>6, <2>9
  <2>10. Fits(n, rows, c)
    <3>1. \A i \in 1..Len(m.items) : filled[i] # Empty => filled[i] = rows[i]
      BY <1>17, <2>8, <2>9
    <3>2. Len(filled) = Len(rows) /\ filled # <<>>
      <4>1. Len(m.items) # 0 BY <1>10, <1>17, EmptySeq
      <4>2. QED BY <1>17, <2>6, <4>1
    <3>3. QED BY <1>17, <2>5, <2>6, <2>7, <3>1, <3>2 DEF Fits
  <2>11. ASSUME NEW i \in 1..Len(m.items), chunks[Chunk(i - 1, c)] = TRUE, filled[i] = Empty
         PROVE  Comes(Tail(q), id, i - 1)
    <3>1. ~(i > s /\ i <= u) /\ m.items[i] = Empty BY <2>8, <2>9, <2>11
    <3>2. i - 1 \in Nat /\ i - 1 <= Len(rows) /\ i <= Len(rows) BY <1>8, <1>10, <1>17
    <3>3. Chunk(i - 1, c) \in 1..Len(m.chunks)
      <4>1. /\ Chunk(i - 1, c) \in Nat \ {0} /\ Chunk(Len(rows), c) \in Nat \ {0}
            /\ Chunk(i - 1, c) <= Chunk(Len(rows), c)
        BY <1>1, <1>8, <3>2, ChunkMonotone
      <4>2. QED BY <1>17, <4>1
    <3>4. ~(s <= i - 1 /\ i - 1 < s + c) BY <1>1, <1>6, <1>8, <1>9, <3>1, <3>2
    <3>5. Chunk(i - 1, c) # chunk BY <1>1, <1>4, <3>2, <3>4, ChunkRows DEF chunk
    <3>6. m.chunks[Chunk(i - 1, c)] = TRUE BY <2>5, <2>11, <3>3, <3>5
    <3>7. Comes(q, id, i - 1) BY <1>3, <3>1, <3>6 DEF Marks
    <3>8. ~Brings(r, id, i - 1) BY <1>4, <3>4 DEF Brings, s
    <3>9. QED BY <1>13, <3>7, <3>8
  <2>12. Marks(n, Tail(q), id, c) BY <2>6, <2>7, <2>11 DEF Marks
  <2>13. n.more => Aligned(n.fetched, c)
    BY <1>1, <1>4, <1>9, <2>7, NextAligned
  <2>14. Good(n, rows, Tail(q), id, m_loadingType, c)
    BY <1>5, <1>15, <2>7, <2>10, <2>12, <2>13 DEF Good
  <2>15. Good(Fetched(m, p, s, more), rows, Tail(q), id, m_loadingType, c)
    BY <2>4, <2>14
  <2>16. QED BY <2>15 DEF r, s, p, c, id, more
<1>18. QED BY <1>3, <1>16, <1>17 DEF Fits

\* What onCountChanged() does to a model that has no rows yet.
LEMMA CountedFields ==
    ASSUME Given, NEW m \in RowsType, NEW n \in Nat, Counts(m, n), m.items = <<>>, m.chunks = <<>>
    PROVE  /\ Len(Counted(m, n).items) = n
           /\ \A i \in 1..n : Counted(m, n).items[i] = Empty
           /\ Len(Counted(m, n).chunks) = Chunk(n, m_chunkSize)
           /\ \A k \in 1..Chunk(n, m_chunkSize) : Counted(m, n).chunks[k] = FALSE
           /\ Counted(m, n).fetched = m.fetched /\ Counted(m, n).more = m.more
           /\ Counted(m, n).bad = m.bad
<1> DEFINE rows == [i \in 1..n |-> Empty]
           size == ChunksFor(n)
           marks == [c \in 1..size |-> c <= Len(m.chunks) /\ m.chunks[c]]
           r == [m EXCEPT !.items = m.items \o rows, !.chunks = marks]
<1>1. m_chunkSize \in Nat \ {0} BY PagingAssumption DEF Given
<1>2. size = Chunk(n, m_chunkSize) BY DEF ChunksFor, Chunk
<1>3. size \in Nat BY <1>1, <1>2, ChunkMonotone
<1> HIDE DEF size
<1>4. rows \in Seq({Empty}) /\ Len(rows) = n /\ \A i \in 1..n : rows[i] = Empty
  <2>1. rows \in [1..n -> {Empty}] OBVIOUS
  <2>2. QED BY <2>1, FunctionIsSeq
<1>5. m.items \o rows = rows
  <2> HIDE DEF rows
  <2>1. QED BY <1>4, ConcatEmptySeq
<1>6. \A c \in 1..size : (c <= Len(m.chunks) /\ m.chunks[c]) = FALSE
  <2>1. Len(m.chunks) = 0 OBVIOUS
  <2>2. \A c \in 1..size : ~(c <= Len(m.chunks)) BY <1>3, <2>1
  <2>3. QED BY <2>2
<1>7. marks = [c \in 1..size |-> FALSE] BY <1>6
<1>8. Len(marks) = size /\ \A k \in 1..size : marks[k] = FALSE
  <2>1. marks \in [1..size -> BOOLEAN] BY <1>7
  <2>2. Len(marks) = size BY <1>3, <2>1, FunctionIsSeq
  <2>3. QED BY <1>7, <2>2
<1>9. Counted(m, n) = r
  <2>1. Counted(m, n) = [m EXCEPT !.items = m.items \o rows, !.chunks = marks]
    BY DEF Counted, size
  <2>2. QED BY <2>1
<1> HIDE DEF rows, marks
<1>10. /\ r.items = m.items \o rows /\ r.chunks = marks /\ r.fetched = m.fetched
       /\ r.more = m.more /\ r.bad = m.bad
  BY DEF RowsType
<1> HIDE DEF r
<1>11. QED BY <1>2, <1>4, <1>5, <1>8, <1>9, <1>10

\* onCountChanged() gives a model that has no rows those of the backend, without data.
LEMMA CountedGood ==
    ASSUME Given, NEW m \in RowsType, NEW rows \in Seq(Items), NEW q \in Seq(Request),
           Good(m, rows, q, m_identifier, m_loadingType, m_chunkSize)
    PROVE  Good(Counted(m, Len(rows)), rows, q, m_identifier, m_loadingType, m_chunkSize)
<1> DEFINE n == Len(rows)
           c == m_chunkSize
           id == m_identifier
           r == Counted(m, n)
<1>1. n \in Nat BY LenProperties
<1>2. CASE ~Counts(m, n)
  <2>1. r = m BY <1>2 DEF Counted
  <2>2. QED BY <2>1
<1>3. CASE Counts(m, n)
  <2>1. m_loadingType = "DataChanged" /\ Len(m.items) # n BY <1>3 DEF Counts
  <2>2. c \in Nat \ {0} BY PagingAssumption DEF Given
  <2>3. /\ ~m.bad /\ (m.more => Aligned(m.fetched, c)) /\ Fitting(q, id, c)
        /\ Fits(m, rows, c)
    BY <2>1 DEF Good
  <2>4. m.items = <<>> /\ m.chunks = <<>> /\ m.fetched = 0 BY <2>1, <2>3 DEF Fits
  <2>5. n # 0 BY <2>1, <2>4
  <2>6. /\ Len(r.items) = n /\ (\A i \in 1..n : r.items[i] = Empty)
        /\ Len(r.chunks) = Chunk(n, c) /\ (\A k \in 1..Chunk(n, c) : r.chunks[k] = FALSE)
        /\ r.fetched = m.fetched /\ r.more = m.more /\ r.bad = m.bad
    BY <1>1, <1>3, <2>4, CountedFields
  <2> HIDE DEF r
  <2>7. Fits(r, rows, c)
    <3>1. r.items # <<>> BY <2>5, <2>6
    <3>2. QED BY <2>6, <3>1 DEF Fits
  <2>8. ASSUME NEW i \in 1..Len(r.items), r.chunks[Chunk(i - 1, c)] = TRUE PROVE FALSE
    <3>1. i - 1 \in Nat /\ i - 1 <= n BY <1>1, <2>6
    <3>2. /\ Chunk(i - 1, c) \in Nat \ {0} /\ Chunk(n, c) \in Nat \ {0}
          /\ Chunk(i - 1, c) <= Chunk(n, c)
      BY <1>1, <2>2, <3>1, ChunkMonotone
    <3>3. Chunk(i - 1, c) \in 1..Chunk(n, c) BY <3>2
    <3>4. QED BY <2>6, <2>8, <3>3
  <2>9. Marks(r, q, id, c) BY <2>8 DEF Marks
  <2>10. ~(m_loadingType = "FetchMore") BY <2>1
  <2>11. Good(r, rows, q, id, m_loadingType, c)
    BY <2>3, <2>6, <2>7, <2>9, <2>10 DEF Good
  <2>12. QED BY <2>11 DEF r
<1>4. QED BY <1>2, <1>3

\* An answer without rows brought none.
LEMMA NothingCame ==
    ASSUME Given, NEW m \in RowsType, NEW rows \in Seq(Items), NEW q \in Seq(Request),
           q # <<>>, q[1].id = m_identifier,
           Good(m, rows, q, m_identifier, m_loadingType, m_chunkSize),
           Part(q[1], rows) = <<>>
    PROVE  Good(m, rows, Tail(q), m_identifier, m_loadingType, m_chunkSize)
<1> DEFINE c == m_chunkSize
           id == m_identifier
           r == q[1]
<1>1. c \in Nat \ {0} BY PagingAssumption DEF Given
<1>2. 1 \in 1..Len(q) /\ r \in Request BY TheRest
<1>3. /\ ~m.bad /\ (m.more => Aligned(m.fetched, c)) /\ Fitting(q, id, c)
      /\ m_loadingType = "FetchMore" => Shows(m, rows) /\ OneAtATime(m, q, id)
      /\ m_loadingType = "DataChanged" => Fits(m, rows, c) /\ Marks(m, q, id, c)
  BY DEF Good
<1>4. Fitting(Tail(q), id, c) BY <1>3, RestFits
<1>5. m_loadingType = "FetchMore" => OneAtATime(m, Tail(q), id) BY <1>3, RestFits
<1>6. m_loadingType = "DataChanged" => Marks(m, Tail(q), id, c)
  <2>1. HAVE m_loadingType = "DataChanged"
  <2>2. Fits(m, rows, c) /\ Marks(m, q, id, c) BY <1>3, <2>1
  <2>3. CASE m.items = <<>>
    <3>1. Len(m.items) = 0 BY <2>3
    <3>2. QED BY <3>1 DEF Marks
  <2>4. CASE m.items # <<>>
    <3>1. Len(m.items) = Len(rows) /\ Len(rows) \in Nat BY <2>2, <2>4, LenProperties DEF Fits
    <3>2. Len(rows) <= r.start
      <4>1. /\ Upto(r, Len(rows)) \in Nat /\ r.start \in Nat /\ r.count \in Nat \ {0}
            /\ Len(Part(r, rows)) = IF r.start < Upto(r, Len(rows))
                                    THEN Upto(r, Len(rows)) - r.start ELSE 0
        BY <1>2, PartIs
      <4>2. Len(Part(r, rows)) = 0 OBVIOUS
      <4>3. ~(r.start < Upto(r, Len(rows))) BY <4>1, <4>2
      <4>4. QED BY <3>1, <4>1, <4>3 DEF Upto
    <3>3. r.start \in Nat BY <1>2 DEF Request
    <3>4. ASSUME NEW i \in 1..Len(m.items), m.chunks[Chunk(i - 1, c)] = TRUE, m.items[i] = Empty
          PROVE  Comes(Tail(q), id, i - 1)
      <4>1. Comes(q, id, i - 1) BY <2>2, <3>4 DEF Marks
      <4>2. ~(r.start <= i - 1) BY <3>1, <3>2, <3>3
      <4>3. ~Brings(r, id, i - 1) BY <4>2 DEF Brings
      <4>4. QED BY <4>1, <4>3, RestFits
    <3>5. QED BY <3>4 DEF Marks
  <2>5. QED BY <2>3, <2>4
<1>7. QED BY <1>3, <1>4, <1>5, <1>6 DEF Good

\* An answer to another model's call, or for an earlier identifier, brought nothing.
LEMMA OtherCame ==
    ASSUME NEW m, NEW rows, NEW q \in Seq(Request), q # <<>>, NEW id, NEW type, NEW c,
           q[1].id # id, Good(m, rows, q, id, type, c)
    PROVE  Good(m, rows, Tail(q), id, type, c)
<1>1. \A row : ~Brings(q[1], id, row) BY DEF Brings
<1>2. \A row : Comes(q, id, row) => Comes(Tail(q), id, row) BY <1>1, RestFits
<1>3. Marks(m, q, id, c) => Marks(m, Tail(q), id, c) BY <1>2 DEF Marks
<1>4. /\ Fitting(q, id, c) => Fitting(Tail(q), id, c)
      /\ OneAtATime(m, q, id) => OneAtATime(m, Tail(q), id)
  BY RestFits
<1>5. QED BY <1>3, <1>4 DEF Good

\* The answer of the backend, with its count and the rows it has.
LEMMA AnsweredGood ==
    ASSUME TypeOK, NEW b \in Backends, requests[b] # <<>>,
           requests[b][1].id = m_identifier,
           Good(Rows, list[b], requests[b], m_identifier, m_loadingType, m_chunkSize)
    PROVE  Good(Answered(b, Head(requests[b])), list[b], Tail(requests[b]), m_identifier,
                m_loadingType, m_chunkSize)
<1> DEFINE q == requests[b]
           rows == list[b]
           m == Announced(b)
           r == q[1]
           more == r.start + r.count < Len(rows)
<1>1. Given /\ Rows \in RowsType BY RowsTyped
<1>2. q \in Seq(Request) /\ rows \in Seq(Items) /\ Len(rows) \in Nat
  BY LenProperties DEF TypeOK
<1>3. m \in RowsType BY <1>1, <1>2, CountedType DEF Announced
<1>4. Good(m, rows, q, m_identifier, m_loadingType, m_chunkSize)
  BY <1>1, <1>2, CountedGood DEF Announced
<1>5. Head(q) = r BY <1>2, TheRest
<1>6. Answered(b, r) =
        IF Part(r, rows) = <<>> THEN m ELSE Fetched(m, Part(r, rows), r.start, more)
  BY DEF Answered, Part, Upto
<1>7. m_loadingType = "FetchMore" \/ m_loadingType = "DataChanged" BY DEF TypeOK
<1>8. q # <<>> /\ r.id = m_identifier OBVIOUS
<1> HIDE DEF q, rows, m
<1>9. CASE Part(r, rows) = <<>>
  <2>1. Good(m, rows, Tail(q), m_identifier, m_loadingType, m_chunkSize)
    BY <1>1, <1>2, <1>3, <1>4, <1>8, <1>9, NothingCame
  <2>2. QED BY <1>5, <1>6, <1>9, <2>1 DEF q, rows
<1>10. CASE Part(r, rows) # <<>>
  <2>1. Good(Fetched(m, Part(r, rows), r.start, more), rows, Tail(q), m_identifier,
             m_loadingType, m_chunkSize)
    BY <1>1, <1>2, <1>3, <1>4, <1>7, <1>8, <1>10, AppendedGood, FilledGood
  <2>2. QED BY <1>5, <1>6, <1>10, <2>1 DEF q, rows
<1>11. QED BY <1>9, <1>10

-----------------------------------------------------------------------------
(* The edits in the backend *)

\* The rows that onDataChanged() replaces by as many.
Updated(m, data, start) ==
    [i \in 1..Len(m.items) |-> IF i > start /\ i <= start + Len(data)
                               THEN data[i - start] ELSE m.items[i]]

\* What onDataChanged() does, when as many rows come as go.
LEMMA EditedUpdates ==
    ASSUME NEW m \in RowsType, NEW data \in Seq(Items), NEW start \in Nat
    PROVE  \/ /\ ~(start + Len(data) <= Len(m.items))
              /\ Edited(m, data, start, Len(data)) = m
           \/ /\ start + Len(data) <= Len(m.items)
              /\ Edited(m, data, start, Len(data)) = [m EXCEPT !.items = Updated(m, data, start)]
<1> DEFINE count == Len(data)
           updateCount == IF Len(data) < count THEN Len(data) ELSE count
           excess == count - Len(data)
           updated == [i \in 1..Len(m.items) |->
                          IF i > start /\ i <= start + updateCount
                          THEN data[i - start] ELSE m.items[i]]
           outside == start > Len(m.items) \/ count > Len(m.items) - start
<1>1. count \in Nat /\ Len(m.items) \in Nat
  <2>1. m.items \in Seq(Cells) BY DEF RowsType
  <2>2. QED BY <2>1, LenProperties
<1>2. excess = 0 /\ updateCount = Len(data) BY <1>1
<1>3. updated = Updated(m, data, start) BY <1>2 DEF Updated
<1>4. outside <=> ~(start + Len(data) <= Len(m.items)) BY <1>1
<1>5. CASE outside BY <1>4, <1>5 DEF Edited
<1>6. CASE ~outside
  <2>1. Edited(m, data, start, count) = [m EXCEPT !.items = updated]
    BY <1>2, <1>6 DEF Edited
  <2> HIDE DEF updated, outside
  <2>2. QED BY <1>3, <1>4, <1>6, <2>1
<1>7. QED BY <1>5, <1>6

\* When rows come.
LEMMA EditedInserts ==
    ASSUME NEW m \in RowsType, NEW item \in Items, NEW start \in Nat, start <= Len(m.items)
    PROVE  Edited(m, <<item>>, start, 0) =
              [m EXCEPT !.items = InsertAt(m.items, start + 1, item)]
<1> DEFINE data == <<item>>
           updateCount == IF Len(data) < 0 THEN Len(data) ELSE 0
           excess == 0 - Len(data)
           outside == start > Len(m.items) \/ 0 > Len(m.items) - start
           inserted == SubSeq(m.items, 1, start) \o data
                       \o SubSeq(m.items, start + 1, Len(m.items))
<1>1. Len(data) = 1 OBVIOUS
<1>2. Len(m.items) \in Nat
  <2>1. m.items \in Seq(Cells) BY DEF RowsType
  <2>2. QED BY <2>1, LenProperties
<1> HIDE DEF data
<1>3. excess < 0 /\ ~(excess = 0) /\ ~(updateCount > 0) /\ ~outside BY <1>1, <1>2
<1>4. Edited(m, data, start, 0) = [m EXCEPT !.items = inserted]
  BY <1>3 DEF Edited
<1>5. inserted = InsertAt(m.items, start + 1, item)
  <2> DEFINE s == m.items
             i == start + 1
             k == i - 1
  <2>1. k = start OBVIOUS
  <2>2. inserted = SubSeq(s, 1, start) \o data \o SubSeq(s, i, Len(s)) OBVIOUS
  <2>3. InsertAt(s, i, item) = SubSeq(s, 1, k) \o data \o SubSeq(s, i, Len(s))
    <3> HIDE DEF s, i, inserted
    <3>1. QED BY DEF InsertAt, data
  <2> HIDE DEF k, s, inserted
  <2>4. InsertAt(s, i, item) = inserted BY <2>1, <2>2, <2>3
  <2>5. QED BY <2>4 DEF s
<1> HIDE DEF inserted
<1>6. QED BY <1>4, <1>5 DEF data

\* When a row goes.
LEMMA EditedRemoves ==
    ASSUME NEW m \in RowsType, NEW start \in Nat, start < Len(m.items)
    PROVE  Edited(m, <<>>, start, 1) =
              [m EXCEPT !.items = [i \in 1..(Len(m.items) - 1) |->
                                      IF i <= start THEN m.items[i] ELSE m.items[i + 1]]]
<1> DEFINE data == <<>>
           updateCount == IF Len(data) < 1 THEN Len(data) ELSE 1
           from == start + (IF updateCount > 0 THEN updateCount + 1 ELSE 0)
           excess == 1 - Len(data)
           outside == start > Len(m.items) \/ 1 > Len(m.items) - start
           updated == [i \in 1..Len(m.items) |->
                          IF i > start /\ i <= start + updateCount
                          THEN data[i - start] ELSE m.items[i]]
           Remaining(i) == IF i <= from THEN i
                           ELSE IF i < from + excess THEN 2 * i - from ELSE i + excess
           removed == [i \in 1..(Len(m.items) - excess) |-> updated[Remaining(i)]]
           left == [i \in 1..(Len(m.items) - 1) |->
                       IF i <= start THEN m.items[i] ELSE m.items[i + 1]]
           late == from + 2 * (excess - 1) >= Len(m.items)
<1>1. Len(data) = 0 OBVIOUS
<1>2. Len(m.items) \in Nat
  <2>1. m.items \in Seq(Cells) BY DEF RowsType
  <2>2. QED BY <2>1, LenProperties
<1> HIDE DEF data
<1>3. updateCount = 0 /\ excess = 1 BY <1>1
<1>4. from = start BY <1>3
<1>5. ~outside /\ ~late
  <2>1. ~outside BY <1>2
  <2> HIDE DEF from, excess
  <2>2. from + 2 * (excess - 1) = start BY <1>3, <1>4
  <2>3. QED BY <1>2, <2>1, <2>2
<1>6. Edited(m, data, start, 1) =
        IF outside THEN m
        ELSE IF excess = 0 THEN [m EXCEPT !.items = updated]
        ELSE IF excess < 0
        THEN IF updateCount > 0 THEN [m EXCEPT !.bad = TRUE]
             ELSE [m EXCEPT !.items = SubSeq(m.items, 1, start) \o data
                                      \o SubSeq(m.items, start + 1, Len(m.items))]
        ELSE IF late THEN [m EXCEPT !.bad = TRUE]
        ELSE [m EXCEPT !.items = removed]
  BY Zenon DEF Edited
<1>7. removed = left
  <2>1. \A i \in 1..Len(m.items) : updated[i] = m.items[i]
    <3> HIDE DEF updateCount
    <3>1. QED BY <1>3
  <2> HIDE DEF updated, updateCount, from, excess
  <2>2. ASSUME NEW i \in 1..(Len(m.items) - 1)
        PROVE  updated[Remaining(i)] = IF i <= start THEN m.items[i] ELSE m.items[i + 1]
    <3>1. Remaining(i) = IF i <= start THEN i ELSE i + 1 BY <1>2, <1>3, <1>4, <2>2
    <3> HIDE DEF Remaining
    <3>2. Remaining(i) \in 1..Len(m.items) BY <1>2, <2>2, <3>1
    <3>3. QED BY <2>1, <3>1, <3>2
  <2>3. Len(m.items) - excess = Len(m.items) - 1 BY <1>3
  <2>4. QED BY <2>2, <2>3
<1> HIDE DEF outside, updated, updateCount, removed, left, late, excess, from
<1>8. ~(excess = 0) /\ ~(excess < 0) BY <1>3
<1>9. Edited(m, data, start, 1) = [m EXCEPT !.items = removed]
  BY <1>5, <1>6, <1>8
<1>10. QED BY <1>7, <1>9 DEF left, data

\* The elements of a sequence with an element more.
LEMMA InsertedElements ==
    ASSUME NEW s \in Seq(Items), NEW i \in 1..(Len(s) + 1), NEW e \in Items,
           NEW k \in 1..(Len(s) + 1)
    PROVE  InsertAt(s, i, e)[k] = IF k < i THEN s[k] ELSE IF k = i THEN e ELSE s[k - 1]
<1> DEFINE first == SubSeq(s, 1, i - 1)
           last == SubSeq(s, i, Len(s))
           one == <<e>>
<1>1. Len(s) \in Nat /\ i \in Nat /\ k \in Nat BY LenProperties
<1>2. /\ \A j \in 1..(i - 1) : s[j] \in Items
      /\ \A j \in i..Len(s) : s[j] \in Items
  OBVIOUS
<1>3. 1 \in Int /\ i - 1 \in Int /\ i \in Int /\ Len(s) \in Int BY <1>1
<1>4. /\ first \in Seq(Items) /\ Len(first) = IF 1 <= i - 1 THEN i - 1 - 1 + 1 ELSE 0
      /\ \A j \in 1..(i - 1 - 1 + 1) : first[j] = s[1 + j - 1]
  BY <1>2, <1>3, SubSeqProperties
<1>5. /\ last \in Seq(Items) /\ Len(last) = IF i <= Len(s) THEN Len(s) - i + 1 ELSE 0
      /\ \A j \in 1..(Len(s) - i + 1) : last[j] = s[i + j - 1]
  BY <1>2, <1>3, SubSeqProperties
<1>6. one \in Seq(Items) /\ Len(one) = 1 /\ one[1] = e OBVIOUS
<1>7. InsertAt(s, i, e) = (first \o one) \o last BY DEF InsertAt
<1> HIDE DEF first, last, one
<1>8. Len(first) = i - 1 /\ Len(last) = Len(s) - i + 1 BY <1>1, <1>4, <1>5
<1>9. /\ first \o one \in Seq(Items) /\ Len(first \o one) = i
      /\ \A j \in 1..i : (first \o one)[j] = IF j <= i - 1 THEN first[j] ELSE one[j - (i - 1)]
  <2>1. /\ first \o one \in Seq(Items) /\ Len(first \o one) = Len(first) + Len(one)
        /\ \A j \in 1..(Len(first) + Len(one)) :
              (first \o one)[j] = IF j <= Len(first) THEN first[j] ELSE one[j - Len(first)]
    BY <1>4, <1>6, ConcatProperties
  <2>2. Len(first) + Len(one) = i BY <1>1, <1>6, <1>8
  <2>3. QED BY <1>8, <2>1, <2>2
<1> DEFINE start == first \o one
<1> HIDE DEF start
<1>10. /\ start \in Seq(Items) /\ Len(start) = i
       /\ \A j \in 1..i : start[j] = IF j <= i - 1 THEN first[j] ELSE one[j - (i - 1)]
  BY <1>9 DEF start
<1>11. \A j \in 1..(Len(start) + Len(last)) :
          (start \o last)[j] = IF j <= Len(start) THEN start[j] ELSE last[j - Len(start)]
  BY <1>5, <1>10, ConcatProperties
<1>12. Len(start) + Len(last) = Len(s) + 1 BY <1>1, <1>8, <1>10
<1>13. (start \o last)[k] = IF k <= i THEN start[k] ELSE last[k - i]
  BY <1>10, <1>11, <1>12
<1>14. CASE k < i
  <2>1. start[k] = first[k] BY <1>1, <1>10, <1>14
  <2>2. k \in 1..(i - 1 - 1 + 1) /\ 1 + k - 1 = k BY <1>1, <1>14
  <2>3. first[k] = s[k] BY <1>4, <2>2
  <2>4. QED BY <1>1, <1>7, <1>13, <1>14, <2>1, <2>3 DEF start
<1>15. CASE k = i
  <2>1. start[k] = one[k - (i - 1)] BY <1>1, <1>10, <1>15
  <2>2. k - (i - 1) = 1 BY <1>1, <1>15
  <2>3. QED BY <1>1, <1>6, <1>7, <1>13, <1>15, <2>1, <2>2 DEF start
<1>16. CASE k > i
  <2>1. k - i \in 1..(Len(s) - i + 1) /\ i + (k - i) - 1 = k - 1 BY <1>1, <1>16
  <2>2. last[k - i] = s[k - 1] BY <1>5, <2>1
  <2>3. QED BY <1>1, <1>7, <1>13, <1>16, <2>2 DEF start
<1>17. QED BY <1>1, <1>14, <1>15, <1>16

\* The elements of a sequence with an element less.
LEMMA RemovedElements ==
    ASSUME NEW s \in Seq(Items), NEW i \in 1..Len(s), NEW k \in 1..(Len(s) - 1)
    PROVE  RemoveAt(s, i)[k] = IF k < i THEN s[k] ELSE s[k + 1]
<1> DEFINE first == SubSeq(s, 1, i - 1)
           last == SubSeq(s, i + 1, Len(s))
<1>1. Len(s) \in Nat /\ i \in Nat /\ k \in Nat BY LenProperties
<1>2. /\ \A j \in 1..(i - 1) : s[j] \in Items
      /\ \A j \in (i + 1)..Len(s) : s[j] \in Items
  OBVIOUS
<1>3. 1 \in Int /\ i - 1 \in Int /\ i + 1 \in Int /\ Len(s) \in Int BY <1>1
<1>4. /\ first \in Seq(Items) /\ Len(first) = IF 1 <= i - 1 THEN i - 1 - 1 + 1 ELSE 0
      /\ \A j \in 1..(i - 1 - 1 + 1) : first[j] = s[1 + j - 1]
  BY <1>2, <1>3, SubSeqProperties
<1>5. /\ last \in Seq(Items)
      /\ Len(last) = IF i + 1 <= Len(s) THEN Len(s) - (i + 1) + 1 ELSE 0
      /\ \A j \in 1..(Len(s) - (i + 1) + 1) : last[j] = s[i + 1 + j - 1]
  BY <1>2, <1>3, SubSeqProperties
<1>6. RemoveAt(s, i) = first \o last BY DEF RemoveAt
<1> HIDE DEF first, last
<1>7. Len(first) = i - 1 /\ Len(last) = Len(s) - i BY <1>1, <1>4, <1>5
<1>8. \A j \in 1..(Len(first) + Len(last)) :
          (first \o last)[j] = IF j <= Len(first) THEN first[j] ELSE last[j - Len(first)]
  BY <1>4, <1>5, ConcatProperties
<1>9. Len(first) + Len(last) = Len(s) - 1 BY <1>1, <1>7
<1>10. (first \o last)[k] = IF k <= i - 1 THEN first[k] ELSE last[k - (i - 1)]
  BY <1>7, <1>8, <1>9
<1>11. CASE k < i
  <2>1. k \in 1..(i - 1 - 1 + 1) /\ 1 + k - 1 = k BY <1>1, <1>11
  <2>2. first[k] = s[k] BY <1>4, <2>1
  <2>3. QED BY <1>1, <1>6, <1>10, <1>11, <2>2
<1>12. CASE ~(k < i)
  <2>1. k - (i - 1) \in 1..(Len(s) - (i + 1) + 1) /\ i + 1 + (k - (i - 1)) - 1 = k + 1
    BY <1>1, <1>12
  <2>2. last[k - (i - 1)] = s[k + 1] BY <1>5, <2>1
  <2>3. QED BY <1>1, <1>6, <1>10, <1>12, <2>2
<1>13. QED BY <1>11, <1>12

\* A model that shows all there is.
LEMMA CompleteRows ==
    ASSUME TypeOK, NEW b \in Backends, Complete(b),
           Good(Rows, list[b], requests[b], m_identifier, m_loadingType, m_chunkSize)
    PROVE  /\ m_loadingType = "FetchMore" /\ m_itemList = list[b] /\ m_itemList \in Seq(Items)
           /\ m_availableChunks = <<>> /\ m_moreAvailable = FALSE
           /\ NoneOf(requests[b], m_identifier)
<1>1. m_loadingType = "FetchMore" /\ ~m_moreAvailable /\ Len(m_itemList) = Len(list[b])
  BY DEF Complete
<1>2. m_itemList \in Seq(Items) /\ list[b] \in Seq(Items) BY <1>1 DEF TypeOK, Cells
<1>3. Rows.items = m_itemList /\ Rows.chunks = m_availableChunks BY DEF Rows
<1>4. Shows(Rows, list[b]) BY <1>1 DEF Good
<1>5. m_availableChunks = <<>> /\ \A i \in 1..Len(m_itemList) : m_itemList[i] = list[b][i]
  BY <1>3, <1>4 DEF Shows, Begins
<1>6. m_itemList = list[b] BY <1>1, <1>2, <1>5, SeqEqual
<1>7. m_moreAvailable = FALSE BY <1>1 DEF TypeOK
<1>8. requests[b] \in Seq(Request) BY DEF TypeOK
<1>9. \A i \in 1..Len(requests[b]) : requests[b][i].id # m_identifier
  <2>1. ~InFlight BY DEF Complete
  <2>2. DOMAIN requests[b] = 1..Len(requests[b]) BY <1>8
  <2>3. QED BY <2>1, <2>2 DEF InFlight
<1>10. QED BY <1>1, <1>2, <1>5, <1>6, <1>7, <1>9 DEF NoneOf

\* It shows all there is after a change that it follows.
LEMMA FollowedGood ==
    ASSUME NEW q, NEW id, NEW c, NoneOf(q, id), NEW m, NEW rows,
           ~m.bad, m.more = FALSE, m.chunks = <<>>, Begins(m.items, rows)
    PROVE  Good(m, rows, q, id, "FetchMore", c)
<1>1. Fitting(q, id, c) BY DEF Fitting, NoneOf
<1>2. OneAtATime(m, q, id) BY DEF OneAtATime, NoneOf
<1>3. Shows(m, rows) BY DEF Shows
<1>4. QED BY <1>1, <1>2, <1>3 DEF Good

\* The rows of such a model, with other items.
LEMMA OtherItems ==
    ASSUME TypeOK, NEW items
    PROVE  /\ [Rows EXCEPT !.items = items].items = items
           /\ [Rows EXCEPT !.items = items].chunks = m_availableChunks
           /\ [Rows EXCEPT !.items = items].more = m_moreAvailable
           /\ [Rows EXCEPT !.items = items].fetched = m_fetchedDataCount
           /\ [Rows EXCEPT !.items = items].bad = FALSE
           /\ [Rows EXCEPT !.items = items].sent = <<>>
BY DEF Rows

\* The same rows are first rows.
LEMMA BeginsItself ==
    ASSUME NEW s \in Seq(Items)
    PROVE  Begins(s, s)
BY LenProperties DEF Begins

\* A row that is inserted is inserted into the model.
LEMMA InsertGood ==
    ASSUME TypeOK, NEW b \in Backends, Complete(b), NEW index \in Nat,
           index <= Len(list[b]), NEW item \in Items, NEW n,
           Good(Rows, list[b], requests[b], m_identifier, m_loadingType, m_chunkSize)
    PROVE  Good(Counted(Edited(Rows, <<item>>, index, 0), n),
                InsertAt(list[b], index + 1, item), requests[b], m_identifier,
                m_loadingType, m_chunkSize)
<1> DEFINE rows == InsertAt(list[b], index + 1, item)
           m == [Rows EXCEPT !.items = rows]
<1>1. /\ m_loadingType = "FetchMore" /\ m_itemList = list[b] /\ m_itemList \in Seq(Items)
      /\ m_availableChunks = <<>> /\ m_moreAvailable = FALSE
      /\ NoneOf(requests[b], m_identifier)
  BY CompleteRows
<1>2. Rows \in RowsType /\ Rows.items = list[b] BY <1>1, RowsTyped DEF Rows
<1>3. Edited(Rows, <<item>>, index, 0) = m BY <1>2, EditedInserts
<1>4. Counted(m, n) = m BY <1>1 DEF Counted, Counts
<1>5. rows \in Seq(Items)
  <2>1. list[b] \in Seq(Items) /\ index + 1 \in 1..(Len(list[b]) + 1) BY <1>1, LenProperties
  <2>2. QED BY <2>1, InsertTyped
<1>6. /\ m.items = rows /\ m.chunks = <<>> /\ m.more = FALSE /\ ~m.bad
  BY <1>1, OtherItems
<1> HIDE DEF rows, m
<1>7. Good(m, rows, requests[b], m_identifier, "FetchMore", m_chunkSize)
  BY <1>1, <1>5, <1>6, BeginsItself, FollowedGood
<1>8. QED BY <1>1, <1>3, <1>4, <1>7 DEF rows

\* A row that is removed is removed from the model.
LEMMA RemoveGood ==
    ASSUME TypeOK, NEW b \in Backends, Complete(b), NEW index \in Nat,
           index < Len(list[b]), NEW n,
           Good(Rows, list[b], requests[b], m_identifier, m_loadingType, m_chunkSize)
    PROVE  Good(Counted(Edited(Rows, <<>>, index, 1), n),
                RemoveAt(list[b], index + 1), requests[b], m_identifier,
                m_loadingType, m_chunkSize)
<1> DEFINE s == list[b]
           rows == RemoveAt(s, index + 1)
           left == [i \in 1..(Len(s) - 1) |-> IF i <= index THEN s[i] ELSE s[i + 1]]
           m == [Rows EXCEPT !.items = left]
<1>1. /\ m_loadingType = "FetchMore" /\ m_itemList = s /\ s \in Seq(Items)
      /\ m_availableChunks = <<>> /\ m_moreAvailable = FALSE
      /\ NoneOf(requests[b], m_identifier)
  BY CompleteRows
<1>2. Rows \in RowsType /\ Rows.items = s BY <1>1, RowsTyped DEF Rows
<1>3. Edited(Rows, <<>>, index, 1) = m
  <2> HIDE DEF s
  <2>1. index < Len(Rows.items) BY <1>2 DEF s
  <2>2. QED BY <1>2, <2>1, EditedRemoves
<1>4. Counted(m, n) = m BY <1>1 DEF Counted, Counts
<1>5. Len(s) \in Nat /\ index + 1 \in 1..Len(s) BY <1>1, LenProperties
<1>6. rows \in Seq(Items) /\ Len(rows) = Len(s) - 1 BY <1>1, <1>5, RemoveTyped
<1>7. Len(left) = Len(s) - 1 /\ \A i \in 1..(Len(s) - 1) : left[i] = rows[i]
  <2> HIDE DEF s
  <2>1. Len(s) - 1 \in Nat BY <1>5
  <2>2. left \in [1..(Len(s) - 1) -> Items]
    <3>1. \A i \in 1..(Len(s) - 1) : s[i] \in Items /\ s[i + 1] \in Items
      BY <1>1, <1>5
    <3>2. QED BY <3>1
  <2>3. Len(left) = Len(s) - 1 BY <2>1, <2>2, FunctionIsSeq
  <2>4. ASSUME NEW i \in 1..(Len(s) - 1) PROVE left[i] = rows[i]
    <3>1. rows[i] = IF i < index + 1 THEN s[i] ELSE s[i + 1]
      BY <1>1, <1>5, RemovedElements
    <3>2. i < index + 1 <=> i <= index BY <1>5
    <3> HIDE DEF rows
    <3>3. QED BY <3>1, <3>2
  <2>5. QED BY <2>3, <2>4
<1>8. /\ m.items = left /\ m.chunks = <<>> /\ m.more = FALSE /\ ~m.bad
  BY <1>1, OtherItems
<1> HIDE DEF rows, left, m, s
<1>9. Begins(left, rows) BY <1>5, <1>6, <1>7 DEF Begins
<1>10. Good(m, rows, requests[b], m_identifier, "FetchMore", m_chunkSize)
  BY <1>1, <1>8, <1>9, FollowedGood
<1>11. QED BY <1>1, <1>3, <1>4, <1>10 DEF rows, s

\* A row that is moved leaves those before and after the two places where they are.
LEMMA MovedElements ==
    ASSUME NEW s \in Seq(Items), NEW f \in 1..Len(s), NEW t \in 1..Len(s)
    PROVE  LET moved == InsertAt(RemoveAt(s, f), t, s[f]) IN
           /\ moved \in Seq(Items) /\ Len(moved) = Len(s)
           /\ \A k \in 1..Len(s) :
                 (k < f /\ k < t) \/ (k > f /\ k > t) => moved[k] = s[k]
<1> DEFINE r == RemoveAt(s, f)
           e == s[f]
           moved == InsertAt(r, t, e)
<1>1. r \in Seq(Items) /\ Len(r) = Len(s) - 1 BY RemoveTyped
<1>2. \A k \in 1..(Len(s) - 1) : r[k] = IF k < f THEN s[k] ELSE s[k + 1]
  BY RemovedElements
<1>3. e \in Items /\ Len(s) \in Nat /\ f \in Nat /\ t \in Nat BY LenProperties, ElementOfSeq
<1> HIDE DEF r, e
<1>4. t \in 1..(Len(r) + 1) /\ Len(r) + 1 = Len(s) BY <1>1, <1>3
<1>5. moved \in Seq(Items) /\ Len(moved) = Len(s) BY <1>1, <1>3, <1>4, InsertTyped
<1>6. \A k \in 1..Len(s) :
         moved[k] = IF k < t THEN r[k] ELSE IF k = t THEN e ELSE r[k - 1]
  BY <1>1, <1>3, <1>4, InsertedElements
<1> HIDE DEF moved
<1>7. ASSUME NEW k \in 1..Len(s), k < f, k < t PROVE moved[k] = s[k]
  <2>1. k \in 1..(Len(s) - 1) BY <1>3, <1>7
  <2>2. QED BY <1>2, <1>6, <1>7, <2>1
<1>8. ASSUME NEW k \in 1..Len(s), k > f, k > t PROVE moved[k] = s[k]
  <2>1. k - 1 \in 1..(Len(s) - 1) /\ ~(k - 1 < f) /\ k - 1 + 1 = k BY <1>3, <1>8
  <2>2. r[k - 1] = s[k] BY <1>2, <2>1
  <2>3. ~(k < t) /\ k # t BY <1>3, <1>8
  <2>4. QED BY <1>6, <2>2, <2>3
<1>9. QED BY <1>5, <1>7, <1>8 DEF moved, r, e

\* The rows between the two places are replaced by what is there after the move.
LEMMA MoveGood ==
    ASSUME TypeOK, NEW b \in Backends, Complete(b), NEW min \in Nat, NEW max \in Nat,
           min <= max, max < Len(list[b]),
           NEW moved \in Seq(Items), Len(moved) = Len(list[b]),
           \A k \in 1..Len(moved) : k <= min \/ k > max + 1 => moved[k] = list[b][k],
           Good(Rows, list[b], requests[b], m_identifier, m_loadingType, m_chunkSize)
    PROVE  Good(Edited(Rows, SubSeq(moved, min + 1, max + 1), min, max - min + 1),
                moved, requests[b], m_identifier, m_loadingType, m_chunkSize)
<1> DEFINE s == list[b]
           data == SubSeq(moved, min + 1, max + 1)
           updated == Updated(Rows, data, min)
           m == [Rows EXCEPT !.items = updated]
<1>1. /\ m_loadingType = "FetchMore" /\ m_itemList = s /\ s \in Seq(Items)
      /\ m_availableChunks = <<>> /\ m_moreAvailable = FALSE
      /\ NoneOf(requests[b], m_identifier)
  BY CompleteRows
<1>2. Rows \in RowsType /\ Rows.items = s BY <1>1, RowsTyped DEF Rows
<1>3. /\ Len(s) \in Nat /\ max + 1 <= Len(s) /\ Len(moved) = Len(s)
      /\ \A k \in 1..Len(s) : k <= min \/ k > max + 1 => moved[k] = s[k]
  BY <1>1, LenProperties
<1>4. /\ data \in Seq(Items) /\ Len(data) = max - min + 1
      /\ \A i \in 1..(max - min + 1) : data[i] = moved[min + i]
  <2> HIDE DEF s
  <2>1. \A i \in (min + 1)..(max + 1) : moved[i] \in Items BY <1>3
  <2>2. /\ data \in Seq(Items)
        /\ Len(data) = IF min + 1 <= max + 1 THEN max + 1 - (min + 1) + 1 ELSE 0
        /\ \A i \in 1..(max + 1 - (min + 1) + 1) : data[i] = moved[min + 1 + i - 1]
    <3>1. min + 1 \in Int /\ max + 1 \in Int OBVIOUS
    <3>2. QED BY <2>1, <3>1, SubSeqProperties
  <2> HIDE DEF data
  <2>3. Len(data) = max - min + 1 BY <2>2
  <2>4. ASSUME NEW i \in 1..(max - min + 1) PROVE data[i] = moved[min + i]
    <3>1. i \in 1..(max + 1 - (min + 1) + 1) /\ min + 1 + i - 1 = min + i OBVIOUS
    <3>2. QED BY <2>2, <3>1
  <2>5. QED BY <2>2, <2>3, <2>4
<1> HIDE DEF s, data
<1>5. updated = [i \in 1..Len(s) |-> IF i > min /\ i <= min + Len(data)
                                     THEN data[i - min] ELSE s[i]]
  BY <1>2 DEF Updated
<1> HIDE DEF updated
<1>6. ASSUME NEW i \in 1..Len(s) PROVE updated[i] = moved[i]
  <2>1. CASE i > min /\ i <= max + 1
    <3>1. i - min \in 1..(max - min + 1) /\ min + (i - min) = i /\ i <= min + Len(data)
      BY <1>3, <1>4, <2>1
    <3>2. QED BY <1>4, <1>5, <2>1, <3>1
  <2>2. CASE ~(i > min /\ i <= max + 1)
    <3>1. ~(i > min /\ i <= min + Len(data)) /\ (i <= min \/ i > max + 1)
      BY <1>3, <1>4, <2>2
    <3>2. QED BY <1>3, <1>5, <3>1
  <2>3. QED BY <2>1, <2>2
<1>7. Len(updated) = Len(s)
  <2>1. updated \in [1..Len(s) -> Items]
    <3>1. \A i \in 1..Len(s) : moved[i] \in Items BY <1>3
    <3>2. QED BY <1>5, <1>6, <3>1
  <2>2. QED BY <1>3, <2>1, FunctionIsSeq
<1>8. Edited(Rows, data, min, Len(data)) = m
  <2>1. min + Len(data) <= Len(Rows.items) BY <1>2, <1>3, <1>4
  <2>2. QED BY <1>2, <1>4, <2>1, EditedUpdates DEF updated
<1>9. m.items = updated /\ m.chunks = <<>> /\ m.more = FALSE /\ ~m.bad
  BY <1>1, OtherItems
<1> HIDE DEF m
<1>10. Begins(updated, moved) BY <1>3, <1>6, <1>7 DEF Begins
<1>11. Good(m, moved, requests[b], m_identifier, "FetchMore", m_chunkSize)
  BY <1>1, <1>9, <1>10, FollowedGood
<1>12. QED BY <1>1, <1>4, <1>8, <1>11 DEF data

\* A row of the backend that is replaced.
LEMMA ReplacedElements ==
    ASSUME NEW s \in Seq(Items), NEW index \in Nat, index < Len(s), NEW item \in Items
    PROVE  /\ ReplaceAt(s, index + 1, item) \in Seq(Items)
           /\ Len(ReplaceAt(s, index + 1, item)) = Len(s)
           /\ \A k \in 1..Len(s) :
                 ReplaceAt(s, index + 1, item)[k] = IF k = index + 1 THEN item ELSE s[k]
<1>1. index + 1 \in 1..Len(s) BY LenProperties
<1>2. ReplaceAt(s, index + 1, item) = [s EXCEPT ![index + 1] = item] BY DEF ReplaceAt
<1>3. QED BY <1>1, <1>2, ExceptSeq

\* It is replaced in the model, if the model has come so far.
LEMMA UpdateGood ==
    ASSUME TypeOK, NEW b \in Backends, NEW index \in Nat, index < Len(list[b]),
           NEW item \in Items,
           Good(Rows, list[b], requests[b], m_identifier, m_loadingType, m_chunkSize)
    PROVE  Good(Edited(Rows, <<item>>, index, 1), ReplaceAt(list[b], index + 1, item),
                requests[b], m_identifier, m_loadingType, m_chunkSize)
<1> DEFINE s == list[b]
           q == requests[b]
           c == m_chunkSize
           id == m_identifier
           rows == ReplaceAt(s, index + 1, item)
           data == <<item>>
           updated == Updated(Rows, data, index)
           m == [Rows EXCEPT !.items = updated]
<1>1. /\ s \in Seq(Items) /\ Len(s) \in Nat /\ index < Len(s)
      /\ m_itemList \in Seq(Cells) /\ Len(m_itemList) \in Nat
  BY LenProperties DEF TypeOK
<1> HIDE DEF s
<1>2. /\ Len(rows) = Len(s)
      /\ \A k \in 1..Len(s) : rows[k] = IF k = index + 1 THEN item ELSE s[k]
  BY <1>1, ReplacedElements
<1>3. data \in Seq(Items) /\ Len(data) = 1 /\ data[1] = item OBVIOUS
<1>4. /\ Rows \in RowsType /\ Rows.items = m_itemList /\ Rows.chunks = m_availableChunks
      /\ Rows.more = m_moreAvailable /\ Rows.fetched = m_fetchedDataCount /\ Rows.bad = FALSE
  BY RowsTyped DEF Rows
<1>5. /\ Rows.more => Aligned(Rows.fetched, c)
      /\ Fitting(q, id, c)
      /\ m_loadingType = "FetchMore" => Shows(Rows, s) /\ OneAtATime(Rows, q, id)
      /\ m_loadingType = "DataChanged" => Fits(Rows, s, c) /\ Marks(Rows, q, id, c)
  BY DEF Good, s
<1> HIDE DEF q, c, id, rows, data
<1>6. CASE ~(index + 1 <= Len(m_itemList))
  <2>1. Edited(Rows, data, index, 1) = Rows
    BY <1>3, <1>4, <1>6, EditedUpdates
  <2>2. m_loadingType = "FetchMore" => Shows(Rows, rows)
    <3>1. HAVE m_loadingType = "FetchMore"
    <3>2. Begins(m_itemList, s) BY <1>4, <1>5, <3>1 DEF Shows
    <3>3. \A i \in 1..Len(m_itemList) : i \in 1..Len(s) /\ i # index + 1
      BY <1>1, <1>6, <3>2 DEF Begins
    <3>4. Begins(m_itemList, rows) BY <1>2, <3>2, <3>3 DEF Begins
    <3>5. QED BY <1>4, <1>5, <3>1, <3>4 DEF Shows
  <2>3. m_loadingType = "DataChanged" => Fits(Rows, rows, c)
    <3>1. HAVE m_loadingType = "DataChanged"
    <3>2. Len(m_itemList) # Len(s) BY <1>1, <1>6 DEF s
    <3>3. QED BY <1>4, <1>5, <3>1, <3>2 DEF Fits
  <2>4. Good(Rows, rows, q, id, m_loadingType, c)
    BY <1>4, <1>5, <2>2, <2>3 DEF Good
  <2>5. QED BY <2>1, <2>4 DEF s, q, c, id, rows, data
<1>7. CASE index + 1 <= Len(m_itemList)
  <2>1. Edited(Rows, data, index, 1) = m
    BY <1>3, <1>4, <1>7, EditedUpdates
  <2>2. updated = [i \in 1..Len(m_itemList) |-> IF i > index /\ i <= index + Len(data)
                                                THEN data[i - index] ELSE m_itemList[i]]
    BY <1>4 DEF Updated
  <2> HIDE DEF updated
  <2>3. ASSUME NEW i \in 1..Len(m_itemList)
        PROVE  updated[i] = IF i = index + 1 THEN item ELSE m_itemList[i]
    <3>1. CASE i = index + 1
      <4>1. i > index /\ i <= index + Len(data) /\ i - index = 1 BY <1>3, <3>1
      <4>2. QED BY <1>3, <2>2, <3>1, <4>1
    <3>2. CASE i # index + 1
      <4>1. ~(i > index /\ i <= index + Len(data)) BY <1>1, <1>3, <3>2
      <4>2. QED BY <2>2, <3>2, <4>1
    <3>3. QED BY <3>1, <3>2
  <2>4. Len(updated) = Len(m_itemList)
    <3>1. \A i \in 1..Len(m_itemList) : updated[i] \in Cells \cup Items
      BY <1>1, <2>3
    <3>2. updated \in [1..Len(m_itemList) -> Cells \cup Items] BY <2>2, <3>1
    <3>3. QED BY <1>1, <3>2, FunctionIsSeq
  <2>5. /\ m.items = updated /\ m.chunks = m_availableChunks /\ m.more = m_moreAvailable
        /\ m.fetched = m_fetchedDataCount /\ m.bad = FALSE
    BY OtherItems
  <2> HIDE DEF m
  <2>6. item # Empty BY PagingAssumption
  <2>7. m_loadingType = "FetchMore" => Shows(m, rows) /\ OneAtATime(m, q, id)
    <3>1. HAVE m_loadingType = "FetchMore"
    <3>2. Shows(Rows, s) /\ OneAtATime(Rows, q, id) BY <1>5, <3>1
    <3>3. Begins(m_itemList, s) BY <1>4, <3>2 DEF Shows
    <3>4. \A i \in 1..Len(m_itemList) : i \in 1..Len(s) BY <1>1, <3>3 DEF Begins
    <3>5. Begins(updated, rows) BY <1>2, <2>3, <2>4, <3>3, <3>4 DEF Begins
    <3>6. Shows(m, rows) BY <1>4, <2>4, <2>5, <3>2, <3>5 DEF Shows
    <3>7. OneAtATime(m, q, id) BY <1>4, <2>4, <2>5, <3>2 DEF OneAtATime
    <3>8. QED BY <3>6, <3>7
  <2>8. m_loadingType = "DataChanged" => Fits(m, rows, c) /\ Marks(m, q, id, c)
    <3>1. HAVE m_loadingType = "DataChanged"
    <3>2. Fits(Rows, s, c) /\ Marks(Rows, q, id, c) BY <1>5, <3>1
    <3>3. m_itemList # <<>> BY <1>7
    <3>4. /\ Len(m_itemList) = Len(s) /\ Len(m_availableChunks) = Chunk(Len(s), c)
          /\ \A i \in 1..Len(m_itemList) : m_itemList[i] # Empty => m_itemList[i] = s[i]
      BY <1>4, <3>2, <3>3 DEF Fits
    <3>5. updated # <<>> BY <1>1, <1>7, <2>4
    <3>6. \A i \in 1..Len(updated) : updated[i] # Empty => updated[i] = rows[i]
      BY <1>2, <2>3, <2>4, <3>4
    <3>7. Fits(m, rows, c) BY <1>2, <2>4, <2>5, <3>4, <3>5, <3>6 DEF Fits
    <3>8. \A i \in 1..Len(updated) : updated[i] = Empty => m_itemList[i] = Empty
      BY <2>3, <2>4, <2>6
    <3>9. Marks(m, q, id, c) BY <1>4, <2>4, <2>5, <3>2, <3>8 DEF Marks
    <3>10. QED BY <3>7, <3>9
  <2>9. Good(m, rows, q, id, m_loadingType, c)
    BY <1>4, <1>5, <2>5, <2>7, <2>8 DEF Good
  <2>10. QED BY <2>1, <2>9 DEF s, q, c, id, rows, data
<1>8. QED BY <1>6, <1>7

-----------------------------------------------------------------------------
(* The steps *)

\* No backend but the one the model is connected to is asked for its rows.
Elsewhere ==
    \A b \in Backends : b # m_serviceObject => NoneOf(requests[b], m_identifier)

Fit == m_isInitialized =>
          Good(Rows, list[m_serviceObject], requests[m_serviceObject], m_identifier,
               m_loadingType, m_chunkSize)

\* The invariant of the rows.
RInv == ~undefined /\ Elsewhere /\ Fit

\* What is asked of the fields of rows.
LEMMA GoodFields ==
    ASSUME NEW m, NEW n, NEW rows, NEW q, NEW id, NEW type, NEW c,
           Good(m, rows, q, id, type, c),
           n.items = m.items, n.chunks = m.chunks, n.fetched = m.fetched, n.more = m.more,
           ~n.bad
    PROVE  Good(n, rows, q, id, type, c)
<1>1. Shows(m, rows) => Shows(n, rows) BY DEF Shows
<1>2. OneAtATime(m, q, id) => OneAtATime(n, q, id) BY DEF OneAtATime
<1>3. Fits(m, rows, c) => Fits(n, rows, c) BY DEF Fits
<1>4. Marks(m, q, id, c) => Marks(n, q, id, c) BY DEF Marks
<1>5. QED BY <1>1, <1>2, <1>3, <1>4 DEF Good

\* No call for the model is under way.
LEMMA NotInFlight ==
    ASSUME TypeOK, ~InFlight, NEW b \in Backends
    PROVE  NoneOf(requests[b], m_identifier)
<1>1. requests[b] \in Seq(Request) BY DEF TypeOK
<1>2. DOMAIN requests[b] = 1..Len(requests[b]) BY <1>1
<1>3. QED BY <1>2 DEF InFlight, NoneOf

\* A handler that leaves the rows good.
LEMMA BecomesGood ==
    ASSUME TypeOK, Elsewhere, m_serviceObject \in Backends,
           NEW m \in RowsType, Ours(m), Becomes(m),
           UNCHANGED <<m_serviceObject, m_identifier, m_chunkSize>>,
           Good(m, list'[m_serviceObject], requests[m_serviceObject] \o m.sent,
                m_identifier, m_loadingType', m_chunkSize)
    PROVE  RInv'
<1> DEFINE b == m_serviceObject
           n == Rows'
<1>1. ~m.bad BY DEF Good
<1>2. ~undefined' BY <1>1 DEF Becomes
<1>3. requests'[b] = requests[b] \o m.sent
  BY PagingAssumption DEF Becomes, TypeOK
<1>4. /\ n.items = m.items /\ n.chunks = m.chunks /\ n.fetched = m.fetched
      /\ n.more = m.more /\ n.bad = FALSE
  BY DEF Becomes, Rows
<1>5. Elsewhere'
  <2>1. ASSUME NEW a \in Backends, a # b PROVE requests'[a] = requests[a]
    BY <2>1, BecomesRequests
  <2>2. QED BY <2>1 DEF Elsewhere
<1> HIDE DEF n
<1>6. Good(n, list'[b], requests'[b], m_identifier, m_loadingType', m_chunkSize)
  BY <1>3, <1>4, GoodFields
<1>7. Fit' BY <1>6 DEF Fit, n
<1>8. QED BY <1>2, <1>5, <1>7 DEF RInv

\* The view.
LEMMA ViewGood ==
    ASSUME IInv, RInv, "resets" \in Assumed, View
    PROVE  RInv'
<1>1. TypeOK /\ Quiet /\ Held BY DEF IInv, Typed
<1>2. m_isInitialized BY <1>1, ViewFetches
<1>3. m_serviceObject \in Backends /\ m_serviceObject # None
  BY <1>1, <1>2 DEF Held, Bound, TypeOK
<1> DEFINE rows == list[m_serviceObject]
           q == requests[m_serviceObject]
<1>4. rows \in Seq(Items) /\ q \in Seq(Request) BY <1>1, <1>3 DEF TypeOK
<1>5. Given /\ Rows \in RowsType /\ Rows.sent = <<>> /\ Ours(FetchMore(Rows))
  BY <1>1, RowsTyped, RowsSend DEF Rows
<1>6. Elsewhere /\ Good(Rows, rows, q, m_identifier, m_loadingType, m_chunkSize)
  BY <1>2 DEF RInv, Fit
<1>7. CASE ViewFetchesMore
  <2>1. FetchMore(Rows) \in RowsType BY <1>5, FetchMoreType
  <2>2. Good(FetchMore(Rows), rows, q \o FetchMore(Rows).sent, m_identifier,
             m_loadingType, m_chunkSize)
    <3> HIDE DEF rows, q
    <3>1. QED BY <1>3, <1>4, <1>5, <1>6, FetchMoreGood
  <2>3. /\ Becomes(FetchMore(Rows)) /\ list' = list
        /\ UNCHANGED <<m_serviceObject, m_identifier, m_chunkSize, m_loadingType>>
    BY <1>7 DEF ViewFetchesMore, settings, binding
  <2>4. QED BY <1>1, <1>3, <1>5, <1>6, <2>1, <2>2, <2>3, BecomesGood
<1>8. ASSUME NEW row \in 0..(Len(m_itemList) - 1), Data(row) PROVE RInv'
  <2>1. row \in Nat BY <1>1 DEF TypeOK
  <2>2. Read(row) \in RowsType /\ Ours(Read(row)) BY <1>1, <2>1, ReadType, ReadSends
  <2>3. Good(Read(row), rows, q \o Read(row).sent, m_identifier,
             m_loadingType, m_chunkSize)
    <3> HIDE DEF rows, q
    <3>1. QED BY <1>1, <1>3, <1>4, <1>6, ReadGood
  <2>4. /\ Becomes(Read(row)) /\ list' = list
        /\ UNCHANGED <<m_serviceObject, m_identifier, m_chunkSize, m_loadingType>>
    BY <1>8 DEF Data, settings, binding
  <2>5. QED BY <1>1, <1>3, <1>6, <2>2, <2>3, <2>4, BecomesGood
<1>9. QED BY <1>7, <1>8 DEF View

\* A reset, of a model with a service object.
LEMMA ResetsGood ==
    ASSUME TypeOK, RInv, m_serviceObject # None, ~InFlight, Becomes(Reset(Rows)),
           UNCHANGED <<m_serviceObject, m_identifier, m_chunkSize, list>>
    PROVE  RInv'
<1> DEFINE rows == list[m_serviceObject]
           q == requests[m_serviceObject]
<1>1. m_serviceObject \in Backends BY DEF TypeOK
<1>2. rows \in Seq(Items) /\ q \in Seq(Request) BY <1>1 DEF TypeOK
<1>3. /\ Given /\ Rows \in RowsType /\ Rows.sent = <<>> /\ ~Rows.bad
      /\ Ours(Reset(Rows)) /\ Reset(Rows) \in RowsType
  BY RowsTyped, RowsSend, ResetType DEF Rows
<1>4. NoneOf(q, m_identifier) BY <1>1, NotInFlight
<1>5. Good(Reset(Rows), rows, q \o Reset(Rows).sent, m_identifier, m_loadingType', m_chunkSize)
  <2> HIDE DEF rows, q
  <2>1. QED BY <1>2, <1>3, <1>4, ResetGood
<1>6. Elsewhere BY DEF RInv
<1>7. QED BY <1>1, <1>3, <1>5, <1>6, BecomesGood

\* initializationDone(), reload() and setLoadingType() reset the model.
LEMMA ResetStepsGood ==
    ASSUME IInv, RInv, "resets" \in Assumed,
           \/ InitializationDone \/ Reload
           \/ \E type \in {"FetchMore", "DataChanged"} : SetLoadingType(type)
    PROVE  RInv'
<1>1. TypeOK /\ Quiet /\ Held BY DEF IInv, Typed
<1>2. CASE InitializationDone
  <2>1. m_serviceObject # None /\ ~InFlight BY <1>1, <1>2 DEF InitializationDone, Quiet
  <2>2. /\ Becomes(Reset(Rows))
        /\ UNCHANGED <<m_serviceObject, m_identifier, m_chunkSize, list>>
    BY <1>2 DEF InitializationDone, settings
  <2>3. QED BY <1>1, <2>1, <2>2, ResetsGood
<1>3. CASE Reload \/ \E type \in {"FetchMore", "DataChanged"} : SetLoadingType(type)
  <2>1. m_isInitialized /\ ~InFlight BY <1>3 DEF Reload, SetLoadingType, MayReset
  <2>2. m_serviceObject # None BY <1>1, <2>1 DEF Held, Bound
  <2>3. /\ Becomes(Reset(Rows))
        /\ UNCHANGED <<m_serviceObject, m_identifier, m_chunkSize, list>>
    BY <1>3 DEF Reload, SetLoadingType, settings, binding
  <2>4. QED BY <1>1, <2>1, <2>2, <2>3, ResetsGood
<1>4. QED BY <1>2, <1>3

\* A model that has no rows and waits for none takes any chunk size.
LEMMA EmptyGood ==
    ASSUME NEW m, NEW rows \in Seq(Items), NEW q, NEW id, NEW type, NEW c, NEW d \in Nat \ {0},
           NoneOf(q, id), m.items = <<>>, Good(m, rows, q, id, type, c),
           type \in {"FetchMore", "DataChanged"}
    PROVE  Good(m, rows, q, id, type, d)
<1>1. Len(m.items) = 0 OBVIOUS
<1>2. Aligned(0, d) BY ZeroAligned
<1>3. Fitting(q, id, d) BY DEF Fitting, NoneOf
<1>4. CASE type = "FetchMore"
  <2>1. Shows(m, rows) /\ OneAtATime(m, q, id) /\ ~m.bad BY <1>4 DEF Good
  <2>2. m.more => m.fetched = 0 BY <1>1, <2>1 DEF Shows
  <2>3. QED BY <1>2, <1>3, <1>4, <2>1, <2>2 DEF Good
<1>5. CASE type = "DataChanged"
  <2>1. Fits(m, rows, c) /\ ~m.bad BY <1>5 DEF Good
  <2>2. Fits(m, rows, d) /\ m.fetched = 0 BY <2>1 DEF Fits
  <2>3. Marks(m, q, id, d) BY <1>1 DEF Marks
  <2>4. QED BY <1>2, <1>3, <1>5, <2>1, <2>2, <2>3 DEF Good
<1>6. QED BY <1>4, <1>5

\* The settings of the chunk size and the threshold.
LEMMA SettingsGood ==
    ASSUME IInv, RInv, "resets" \in Assumed,
           \/ \E size \in ChunkSizes : SetChunkSize(size)
           \/ \E threshold \in Thresholds : SetFetchMoreThreshold(threshold)
           \/ UNCHANGED vars
    PROVE  RInv'
<1>1. TypeOK /\ Held BY DEF IInv, Typed
<1>2. /\ UNCHANGED <<rowVars, m_serviceObject, m_isInitialized, m_identifier, m_loadingType, list>>
      /\ \/ UNCHANGED m_chunkSize
         \/ ~InFlight /\ m_itemList = <<>> /\ m_chunkSize' \in ChunkSizes
  BY DEF SetChunkSize, SetFetchMoreThreshold, vars, binding, settings
<1>3. Rows' = Rows BY <1>2 DEF Rows, rowVars
<1>4. requests' = requests /\ undefined' = undefined BY <1>2 DEF rowVars
<1>5. ~undefined' /\ Elsewhere' BY <1>2, <1>4 DEF RInv, Elsewhere
<1>6. Fit'
  <2>1. SUFFICES ASSUME m_isInitialized
                 PROVE  Good(Rows, list[m_serviceObject], requests[m_serviceObject],
                             m_identifier, m_loadingType, m_chunkSize')
    BY <1>2, <1>3, <1>4 DEF Fit
  <2>2. Good(Rows, list[m_serviceObject], requests[m_serviceObject], m_identifier,
             m_loadingType, m_chunkSize)
    BY <2>1 DEF RInv, Fit
  <2>3. CASE m_chunkSize' = m_chunkSize BY <2>2, <2>3
  <2>4. CASE ~InFlight /\ m_itemList = <<>> /\ m_chunkSize' \in ChunkSizes
    <3>1. m_serviceObject \in Backends BY <1>1, <2>1 DEF Held, Bound, TypeOK
    <3>2. NoneOf(requests[m_serviceObject], m_identifier) BY <1>1, <2>4, <3>1, NotInFlight
    <3>3. m_chunkSize' \in Nat \ {0} BY <2>4, PagingAssumption
    <3>4. Rows.items = <<>> BY <2>4 DEF Rows
    <3>5. list[m_serviceObject] \in Seq(Items) /\ m_loadingType \in {"FetchMore", "DataChanged"}
      BY <1>1, <3>1 DEF TypeOK
    <3>6. QED BY <2>2, <3>2, <3>3, <3>4, <3>5, EmptyGood
  <2>5. QED BY <1>2, <2>3, <2>4
<1>7. QED BY <1>5, <1>6 DEF RInv

\* Another service object.
LEMMA SetServiceObjectGood ==
    ASSUME IInv, RInv, {"resets", "edits"} \subseteq Assumed,
           NEW so \in Backends \cup {None}, SetServiceObject(so)
    PROVE  RInv'
<1>1. Typed /\ TypeOK /\ Held /\ IdsKnown /\ Quiet BY DEF IInv, Typed
<1>2. ~m_isInitialized' BY DEF SetServiceObject
<1>3. Quiet' BY <1>1, QuietServiceObject
<1>4. ~InFlight' BY <1>2, <1>3 DEF Quiet
<1>5. requests' = requests /\ undefined' = undefined
  BY DEF SetServiceObject, ClearToDefaults, rowVars
<1>6. ASSUME NEW b \in Backends PROVE NoneOf(requests'[b], m_identifier')
  <2>1. requests[b] \in Seq(Request) BY <1>1 DEF TypeOK
  <2>2. DOMAIN requests'[b] = 1..Len(requests'[b]) BY <1>5, <2>1
  <2>3. QED BY <1>4, <2>2 DEF InFlight, NoneOf
<1>7. QED BY <1>2, <1>5, <1>6 DEF RInv, Elsewhere, Fit

\* An answer is for the oldest call, and for this model or for another.
LEMMA AnswerGood ==
    ASSUME IInv, RInv, NEW b \in Backends, Answer(b)
    PROVE  RInv'
<1> DEFINE q == requests[b]
           m == Answered(b, Head(q))
           a == m_serviceObject
<1>1. TypeOK /\ Quiet /\ Held BY DEF IInv, Typed
<1>2. q \in Seq(Request) /\ q # <<>> BY <1>1 DEF TypeOK, Answer
<1>3. Head(q) = q[1] /\ 1 \in 1..Len(q) BY <1>2, TheRest
<1>4. requests'[b] = Tail(q) /\ \A d \in Backends : d # b => requests'[d] = requests[d]
  BY <1>1 DEF Answer, TypeOK
<1>5. /\ UNCHANGED <<m_serviceObject, m_isInitialized, m_identifier, m_loadingType,
                     m_chunkSize, list>>
      /\ Addressed(b, Head(q).id) =>
            /\ m_itemList' = m.items /\ m_availableChunks' = m.chunks
            /\ m_fetchedDataCount' = m.fetched /\ m_moreAvailable' = m.more
            /\ undefined' = m.bad
      /\ ~Addressed(b, Head(q).id) =>
            UNCHANGED <<m_itemList, m_availableChunks, undefined, m_fetchedDataCount,
                        m_moreAvailable>>
  BY DEF Answer, binding
<1>6. Elsewhere'
  <2>1. SUFFICES ASSUME NEW d \in Backends, d # a PROVE NoneOf(requests'[d], m_identifier)
    BY <1>5 DEF Elsewhere
  <2>2. NoneOf(requests[d], m_identifier) BY <2>1 DEF RInv, Elsewhere
  <2>3. CASE d = b
    <3>1. NoneOf(Tail(q), m_identifier) BY <1>2, <2>2, <2>3, RestFits
    <3>2. QED BY <1>4, <2>3, <3>1
  <2>4. CASE d # b BY <1>4, <2>2, <2>4
  <2>5. QED BY <2>3, <2>4
<1> HIDE DEF m
<1>7. CASE Addressed(b, Head(q).id)
  <2>1. b = a /\ q[1].id = m_identifier BY <1>3, <1>7 DEF Addressed
  <2>2. m_isInitialized
    <3>1. 1 \in DOMAIN requests[b] BY <1>2
    <3>2. InFlight BY <2>1, <3>1 DEF InFlight
    <3>3. QED BY <1>1, <3>2 DEF Quiet
  <2>3. Good(Rows, list[b], q, m_identifier, m_loadingType, m_chunkSize)
    BY <2>1, <2>2 DEF RInv, Fit
  <2>4. Good(m, list[b], Tail(q), m_identifier, m_loadingType, m_chunkSize)
    BY <1>1, <1>2, <2>1, <2>3, AnsweredGood DEF m
  <2>5. ~m.bad BY <2>4 DEF Good
  <2>6. /\ Rows'.items = m.items /\ Rows'.chunks = m.chunks /\ Rows'.fetched = m.fetched
        /\ Rows'.more = m.more /\ Rows'.bad = FALSE /\ ~undefined'
    BY <1>5, <1>7, <2>5 DEF Rows
  <2> DEFINE n == Rows'
  <2> HIDE DEF n
  <2>7. Good(n, list[b], Tail(q), m_identifier, m_loadingType, m_chunkSize)
    BY <2>4, <2>6, GoodFields DEF n
  <2>8. Fit' BY <1>4, <1>5, <2>1, <2>7 DEF Fit, n
  <2>9. QED BY <1>6, <2>6, <2>8 DEF RInv
<1>8. CASE ~Addressed(b, Head(q).id)
  <2>1. Rows' = Rows /\ ~undefined' BY <1>5, <1>8 DEF Rows, RInv
  <2>2. Fit'
    <3>1. SUFFICES ASSUME m_isInitialized
                   PROVE  Good(Rows, list[a], requests'[a], m_identifier, m_loadingType,
                               m_chunkSize)
      BY <1>5, <2>1 DEF Fit
    <3>2. a \in Backends BY <1>1, <3>1 DEF Held, Bound, TypeOK
    <3>3. Good(Rows, list[a], requests[a], m_identifier, m_loadingType, m_chunkSize)
      BY <3>1 DEF RInv, Fit
    <3>4. CASE a # b BY <1>4, <3>2, <3>3, <3>4
    <3>5. CASE a = b
      <4>1. q[1].id # m_identifier BY <1>3, <1>8, <3>5 DEF Addressed
      <4>2. Good(Rows, list[b], Tail(q), m_identifier, m_loadingType, m_chunkSize)
        <5> DEFINE rows == list[b]
                   n == Rows
        <5>1. Good(n, rows, q, m_identifier, m_loadingType, m_chunkSize) BY <3>3, <3>5
        <5> HIDE DEF q, n, rows
        <5>2. Good(n, rows, Tail(q), m_identifier, m_loadingType, m_chunkSize)
          BY <1>2, <4>1, <5>1, OtherCame
        <5>3. QED BY <5>2 DEF n, rows
      <4>3. QED BY <1>4, <3>5, <4>2
    <3>6. QED BY <3>4, <3>5
  <2>3. QED BY <1>6, <2>1, <2>2 DEF RInv
<1>9. QED BY <1>7, <1>8

\* A change in a backend, which the model follows.
LEMMA ChangedGood ==
    ASSUME TypeOK, RInv, NEW b \in Backends, NEW rows, NEW m, Change(b, rows, m),
           b = m_serviceObject =>
              /\ m.sent = <<>> /\ ~m.bad
              /\ m_isInitialized =>
                    Good(m, rows, requests[b], m_identifier, m_loadingType, m_chunkSize)
    PROVE  RInv'
<1> DEFINE a == m_serviceObject
<1>1. /\ UNCHANGED <<m_serviceObject, m_isInitialized, m_identifier, m_loadingType, m_chunkSize>>
      /\ list' = [list EXCEPT ![b] = rows]
  BY DEF Change, settings, binding
<1>2. CASE b # a
  <2>1. UNCHANGED rowVars BY <1>2 DEF Change
  <2>2. Rows' = Rows /\ requests' = requests /\ undefined' = undefined
    BY <2>1 DEF rowVars, Rows
  <2>3. list'[a] = list[a] BY <1>1, <1>2 DEF TypeOK
  <2>4. QED BY <1>1, <2>2, <2>3 DEF RInv, Elsewhere, Fit
<1>3. CASE b = a
  <2>1. Becomes(m) BY <1>3 DEF Change
  <2>2. m.sent = <<>> /\ ~m.bad BY <1>3
  <2>3. requests' = requests
    <3>1. requests[b] \o m.sent = requests[b] BY <2>2, NothingSent DEF TypeOK
    <3>2. requests' = [requests EXCEPT ![b] = requests[b] \o m.sent]
      BY <1>3, <2>1, PagingAssumption DEF Becomes
    <3>3. QED BY <3>1, <3>2 DEF TypeOK
  <2>4. list'[b] = rows BY <1>1 DEF TypeOK
  <2>5. /\ Rows'.items = m.items /\ Rows'.chunks = m.chunks /\ Rows'.fetched = m.fetched
        /\ Rows'.more = m.more /\ Rows'.bad = FALSE /\ ~undefined'
    BY <2>1, <2>2 DEF Rows, Becomes
  <2>6. Elsewhere' BY <1>1, <2>3 DEF RInv, Elsewhere
  <2>7. Fit'
    <3> DEFINE n == Rows'
    <3>1. SUFFICES ASSUME m_isInitialized
                   PROVE  Good(n, rows, requests[b], m_identifier, m_loadingType, m_chunkSize)
      BY <1>1, <1>3, <2>3, <2>4 DEF Fit
    <3>2. Good(m, rows, requests[b], m_identifier, m_loadingType, m_chunkSize)
      BY <1>3, <3>1
    <3> HIDE DEF n
    <3>3. QED BY <2>5, <3>2, GoodFields DEF n
  <2>8. QED BY <2>5, <2>6, <2>7 DEF RInv
<1>4. QED BY <1>2, <1>3

\* Edits fetch nothing.
LEMMA EditsSend ==
    ASSUME TypeOK, NEW data \in Seq(Items), NEW start \in Nat, NEW count \in Nat, NEW n \in Nat
    PROVE  /\ Edited(Rows, data, start, count).sent = <<>>
           /\ Counted(Edited(Rows, data, start, count), n).sent = <<>>
<1> DEFINE m == Edited(Rows, data, start, count)
<1>1. Given /\ Rows \in RowsType /\ Rows.sent = <<>> BY RowsTyped DEF Rows
<1>2. m \in RowsType /\ m.sent = <<>> BY <1>1, EditedType
<1> HIDE DEF m
<1>3. Counted(m, n).sent = <<>> BY <1>1, <1>2, CountedType
<1>4. QED BY <1>2, <1>3 DEF m

\* A backend that inserts, removes or moves a row of a model that shows them all.
LEMMA EditGood ==
    ASSUME IInv, RInv, {"resets", "edits", "counts"} \subseteq Assumed, NEW b \in Backends,
           NEW i \in Nat, NEW j \in Nat,
           InsertRow(b, i) \/ RemoveRow(b, i) \/ MoveRow(b, i, j)
    PROVE  RInv'
<1> DEFINE s == list[b]
<1>1. TypeOK BY DEF IInv, Typed
<1>2. s \in Seq(Items) /\ Len(s) \in Nat BY <1>1, LenProperties DEF TypeOK
<1>3. MayEdit(b) BY DEF InsertRow, RemoveRow, MoveRow
<1>4. b = m_serviceObject =>
         /\ Complete(b)
         /\ Good(Rows, s, requests[b], m_identifier, m_loadingType, m_chunkSize)
  BY <1>3 DEF MayEdit, Complete, RInv, Fit
<1>5. \A m, rows : Good(m, rows, requests[b], m_identifier, m_loadingType, m_chunkSize) => ~m.bad
  BY DEF Good
<1> HIDE DEF s
<1>6. CASE InsertRow(b, i)
  <2>1. i <= Len(s) BY <1>6 DEF InsertRow, s
  <2>2. PICK item \in Fresh : Change(b, InsertAt(s, i + 1, item),
                 Counted(Edited(Rows, <<item>>, i, 0), Len(s) + 1))
    BY <1>6 DEF InsertRow, s
  <2>3. item \in Items /\ <<item>> \in Seq(Items) /\ Len(s) + 1 \in Nat BY <1>2 DEF Fresh
  <2> DEFINE m == Counted(Edited(Rows, <<item>>, i, 0), Len(s) + 1)
             rows == InsertAt(s, i + 1, item)
  <2>4. m.sent = <<>> BY <1>1, <2>3, EditsSend
  <2>5. b = m_serviceObject =>
           Good(m, rows, requests[b], m_identifier, m_loadingType, m_chunkSize)
    BY <1>1, <1>4, <2>1, <2>3, InsertGood DEF s
  <2>6. Change(b, rows, m) BY <2>2
  <2> HIDE DEF m, rows
  <2>7. QED BY <1>1, <1>5, <2>4, <2>5, <2>6, ChangedGood
<1>7. CASE RemoveRow(b, i)
  <2>1. i < Len(s) BY <1>7 DEF RemoveRow, s
  <2> DEFINE m == Counted(Edited(Rows, <<>>, i, 1), Len(s) - 1)
             rows == RemoveAt(s, i + 1)
  <2>2. Change(b, rows, m) BY <1>7 DEF RemoveRow, s
  <2>3. <<>> \in Seq(Items) /\ Len(s) - 1 \in Nat BY <1>2, <2>1, EmptySeq
  <2>4. m.sent = <<>> BY <1>1, <2>3, EditsSend
  <2>5. b = m_serviceObject =>
           Good(m, rows, requests[b], m_identifier, m_loadingType, m_chunkSize)
    BY <1>1, <1>4, <2>1, RemoveGood DEF s
  <2> HIDE DEF m, rows
  <2>6. QED BY <1>1, <1>5, <2>2, <2>4, <2>5, ChangedGood
<1>8. CASE MoveRow(b, i, j)
  <2> DEFINE min == IF i < j THEN i ELSE j
             max == IF i < j THEN j ELSE i
             moved == InsertAt(RemoveAt(s, i + 1), j + 1, s[i + 1])
             data == SubSeq(moved, min + 1, max + 1)
             m == Edited(Rows, data, min, max - min + 1)
  <2>1. i + 1 \in 1..Len(s) /\ j + 1 \in 1..Len(s) BY <1>2, <1>8 DEF MoveRow, s
  <2>2. /\ min \in Nat /\ max \in Nat /\ min <= max /\ max < Len(s) /\ max - min + 1 \in Nat
        /\ min + 1 <= i + 1 /\ min + 1 <= j + 1 /\ i + 1 <= max + 1 /\ j + 1 <= max + 1
    BY <1>2, <2>1
  <2>3. /\ moved \in Seq(Items) /\ Len(moved) = Len(s)
        /\ \A k \in 1..Len(s) :
              (k < i + 1 /\ k < j + 1) \/ (k > i + 1 /\ k > j + 1) => moved[k] = s[k]
    BY <1>2, <2>1, MovedElements
  <2>4. Change(b, moved, m) BY <1>8 DEF MoveRow, s
  <2> HIDE DEF min, max, moved
  <2>5. \A k \in 1..Len(moved) : k <= min \/ k > max + 1 => moved[k] = s[k]
    <3>1. TAKE k \in 1..Len(moved)
    <3>2. HAVE k <= min \/ k > max + 1
    <3>3. (k < i + 1 /\ k < j + 1) \/ (k > i + 1 /\ k > j + 1)
      BY <1>2, <2>2, <2>3, <3>2
    <3>4. QED BY <2>3, <3>3
  <2>6. data \in Seq(Items)
    <3>1. max + 1 \in Int /\ max + 1 <= Len(moved) BY <1>2, <2>2, <2>3
    <3>2. QED BY <2>2, <2>3, <3>1, SliceTyped
  <2>7. m.sent = <<>>
    <3> HIDE DEF data
    <3>1. QED BY <1>1, <1>2, <2>2, <2>6, EditsSend
  <2>8. b = m_serviceObject =>
           Good(m, moved, requests[b], m_identifier, m_loadingType, m_chunkSize)
    BY <1>1, <1>4, <2>2, <2>3, <2>5, MoveGood DEF s
  <2> HIDE DEF m, data
  <2>9. QED BY <1>1, <1>5, <2>4, <2>7, <2>8, ChangedGood
<1>9. QED BY <1>6, <1>7, <1>8

\* A backend that replaces a row.
LEMMA UpdateRowGood ==
    ASSUME IInv, RInv, NEW b \in Backends, NEW i \in Nat, UpdateRow(b, i)
    PROVE  RInv'
<1>1. TypeOK BY DEF IInv, Typed
<1>2. i < Len(list[b]) BY DEF UpdateRow
<1>3. PICK item \in Fresh :
         Change(b, ReplaceAt(list[b], i + 1, item), Edited(Rows, <<item>>, i, 1))
  BY DEF UpdateRow
<1>4. item \in Items /\ <<item>> \in Seq(Items) /\ Len(<<item>>) = 1 BY <1>3 DEF Fresh
<1> DEFINE m == Edited(Rows, <<item>>, i, 1)
           rows == ReplaceAt(list[b], i + 1, item)
<1>5. m.sent = <<>> /\ ~m.bad
  <2>1. Rows \in RowsType /\ Rows.sent = <<>> /\ ~Rows.bad BY <1>1, RowsTyped DEF Rows
  <2>2. m = Rows \/ m = [Rows EXCEPT !.items = Updated(Rows, <<item>>, i)]
    BY <1>4, <2>1, EditedUpdates
  <2> HIDE DEF m
  <2>3. QED BY <1>1, <2>1, <2>2, OtherItems
<1>6. b = m_serviceObject /\ m_isInitialized =>
         Good(m, rows, requests[b], m_identifier, m_loadingType, m_chunkSize)
  <2>1. HAVE b = m_serviceObject /\ m_isInitialized
  <2>2. Good(Rows, list[b], requests[b], m_identifier, m_loadingType, m_chunkSize)
    BY <2>1 DEF RInv, Fit
  <2>3. QED BY <1>1, <1>2, <1>4, <2>2, UpdateGood
<1> HIDE DEF m, rows
<1>7. Change(b, rows, m) BY <1>3 DEF m, rows
<1>8. QED BY <1>1, <1>5, <1>6, <1>7, ChangedGood

\* A backend that announces new rows does so before the model is initialized.
LEMMA GrowGood ==
    ASSUME IInv, RInv, {"resets", "edits", "counts"} \subseteq Assumed, NEW b \in Backends,
           Grow(b)
    PROVE  RInv'
<1>1. TypeOK /\ Quiet BY DEF IInv, Typed
<1>2. b = m_serviceObject => ~m_isInitialized BY DEF Grow
<1>3. PICK item \in Fresh :
         Change(b, Append(list[b], item), Counted(Rows, Len(list[b]) + 1))
  BY DEF Grow
<1>4. b = m_serviceObject => Counted(Rows, Len(list[b]) + 1) = Rows
  BY <1>1, <1>2 DEF Quiet, Counted, Counts
<1>5. Rows.sent = <<>> /\ ~Rows.bad BY DEF Rows
<1> DEFINE m == Counted(Rows, Len(list[b]) + 1)
           rows == Append(list[b], item)
<1> HIDE DEF m, rows
<1>6. Change(b, rows, m) /\ (b = m_serviceObject => m = Rows) BY <1>3, <1>4 DEF m, rows
<1>7. b = m_serviceObject => m.sent = <<>> /\ ~m.bad BY <1>5, <1>6
<1>8. QED BY <1>1, <1>2, <1>6, <1>7, ChangedGood

\* The invariant of the rows holds initially.
LEMMA InitRInv == Init => RInv
<1> SUFFICES ASSUME Init PROVE RInv OBVIOUS
<1>1. ~undefined /\ ~m_isInitialized /\ requests = [b \in Backends |-> <<>>] BY DEF Init
<1>2. \A b \in Backends : Len(requests[b]) = 0 BY <1>1
<1>3. QED BY <1>1, <1>2 DEF RInv, Elsewhere, Fit, NoneOf

\* Every step keeps it.
LEMMA NextRInv ==
    ASSUME {"resets", "edits", "counts"} \subseteq Assumed, IInv, RInv, [Next]_vars
    PROVE  RInv'
<1>1. CASE View BY <1>1, ViewGood
<1>2. CASE \/ InitializationDone \/ Reload
           \/ \E type \in {"FetchMore", "DataChanged"} : SetLoadingType(type)
  BY <1>2, ResetStepsGood
<1>3. CASE \/ \E size \in ChunkSizes : SetChunkSize(size)
           \/ \E threshold \in Thresholds : SetFetchMoreThreshold(threshold)
           \/ UNCHANGED vars
  BY <1>3, SettingsGood
<1>4. CASE \E so \in Backends \cup {None} : SetServiceObject(so)
  BY <1>4, SetServiceObjectGood
<1>5. ASSUME NEW b \in Backends, Backend(b) PROVE RInv'
  <2>1. 0..MaxRows \subseteq Nat BY PagingAssumption
  <2>2. CASE Answer(b) BY <2>2, AnswerGood
  <2>3. CASE Grow(b) BY <2>3, GrowGood
  <2>4. ASSUME NEW i \in 0..MaxRows,
               InsertRow(b, i) \/ RemoveRow(b, i) \/ UpdateRow(b, i)
                  \/ \E j \in 0..MaxRows : MoveRow(b, i, j)
        PROVE  RInv'
    <3>1. i \in Nat BY <2>1
    <3>2. CASE UpdateRow(b, i) BY <3>1, <3>2, UpdateRowGood
    <3>3. CASE InsertRow(b, i) \/ RemoveRow(b, i) BY <3>1, <3>3, EditGood
    <3>4. ASSUME NEW j \in 0..MaxRows, MoveRow(b, i, j) PROVE RInv'
      <4>1. j \in Nat BY <2>1
      <4>2. QED BY <3>1, <3>4, <4>1, EditGood
    <3>5. QED BY <2>4, <3>2, <3>3, <3>4
  <2>5. QED BY <1>5, <2>2, <2>3, <2>4 DEF Backend
<1>6. QED BY <1>1, <1>2, <1>3, <1>4, <1>5 DEF Next, Application

\* What the invariant says of the rows and of the marks.
LEMMA RInvIsRight ==
    ASSUME TypeOK, Held, RInv
    PROVE  RowsAreRight /\ MarksAreRight
<1> DEFINE a == m_serviceObject
           c == m_chunkSize
           s == list[a]
           q == requests[a]
<1>1. IndicesInRange BY DEF RInv, IndicesInRange
<1>2. SUFFICES ASSUME m_isInitialized
               PROVE  RowsInPlace /\ CountIsTheBackends /\ MarkedIsComing
  BY <1>1 DEF RowsAreRight, MarksAreRight, RowsInPlace, CountIsTheBackends, MarkedIsComing
<1>3. a \in Backends BY <1>2 DEF TypeOK, Held, Bound
<1>4. s \in Seq(Items) /\ q \in Seq(Request) /\ m_itemList \in Seq(Cells)
      /\ m_availableChunks \in Seq(BOOLEAN) /\ c \in Nat \ {0}
  BY <1>3, PagingAssumption DEF TypeOK
<1>5. /\ DOMAIN s = 1..Len(s) /\ DOMAIN q = 1..Len(q) /\ DOMAIN m_itemList = 1..Len(m_itemList)
      /\ Len(s) \in Nat /\ Len(m_itemList) \in Nat
  BY <1>4
<1>6. Good(Rows, s, q, m_identifier, m_loadingType, c) BY <1>2 DEF RInv, Fit
<1>7. /\ Rows.items = m_itemList /\ Rows.chunks = m_availableChunks
      /\ Rows.fetched = m_fetchedDataCount
  BY DEF Rows
<1>8. \A i \in 1..Len(q) : q[i].start \in Nat /\ q[i].count \in Nat
  <2>1. TAKE i \in 1..Len(q)
  <2>2. q[i] \in Request BY <1>4, ElementOfSeq
  <2>3. QED BY <2>2, PagingAssumption DEF Request
<1> HIDE DEF s, q, c
<1>9. RowsInPlace
  <2>1. ASSUME NEW row \in 1..Len(m_itemList), m_itemList[row] # Empty
        PROVE  row \in 1..Len(s) /\ m_itemList[row] = s[row]
    <3>1. CASE m_loadingType = "FetchMore"
      <4>1. Begins(m_itemList, s) BY <1>6, <1>7, <3>1 DEF Good, Shows
      <4>2. QED BY <1>5, <4>1 DEF Begins
    <3>2. CASE m_loadingType = "DataChanged"
      <4>1. Fits(Rows, s, c) BY <1>6, <3>2 DEF Good
      <4>2. m_itemList # <<>> BY <2>1
      <4>3. QED BY <1>7, <2>1, <4>1, <4>2 DEF Fits
    <3>3. QED BY <3>1, <3>2 DEF TypeOK
  <2>2. QED BY <1>5, <2>1 DEF RowsInPlace, s
<1>10. CountIsTheBackends
  <2>1. m_loadingType = "DataChanged" /\ m_itemList # <<>> => Len(m_itemList) = Len(s)
    BY <1>6, <1>7 DEF Good, Fits
  <2>2. QED BY <2>1 DEF CountIsTheBackends, s
<1>11. MarkedIsComing
  <2>1. ASSUME NEW row \in 1..Len(m_itemList), NEW chunk, chunk = (row - 1) \div m_chunkSize + 1,
               chunk \in DOMAIN m_availableChunks, m_availableChunks[chunk],
               m_itemList[row] = Empty
        PROVE  \E i \in 1..Len(q) :
                  q[i].id = m_identifier /\ row - 1 \in q[i].start..(q[i].start + q[i].count - 1)
    <3>1. m_loadingType = "DataChanged"
      <4>1. m_loadingType = "FetchMore" => m_itemList \in Seq(Items) BY DEF TypeOK, Cells
      <4>2. m_loadingType = "FetchMore" => m_itemList[row] # Empty
        BY <4>1, PagingAssumption
      <4>3. QED BY <2>1, <4>2 DEF TypeOK
    <3>2. Marks(Rows, q, m_identifier, c) BY <1>6, <3>1 DEF Good
    <3>3. chunk = Chunk(row - 1, c) BY <2>1 DEF Chunk, c
    <3>4. m_availableChunks[chunk] = TRUE BY <1>4, <2>1
    <3>5. Comes(q, m_identifier, row - 1) BY <1>7, <2>1, <3>2, <3>3, <3>4 DEF Marks
    <3>6. PICK i \in 1..Len(q) : Brings(q[i], m_identifier, row - 1) BY <3>5 DEF Comes
    <3>7. q[i].start \in Nat /\ q[i].count \in Nat /\ row - 1 \in Nat BY <1>5, <1>8
    <3>8. row - 1 \in q[i].start..(q[i].start + q[i].count - 1)
      BY <3>6, <3>7 DEF Brings
    <3>9. QED BY <3>6, <3>8 DEF Brings
  <2>2. QED BY <1>5, <2>1 DEF MarkedIsComing, q
<1>12. QED BY <1>9, <1>10, <1>11

\* The rows of an initialized model are the backend's, and in the loading type
\* DataChanged there are as many, for every order of answers, edits, resets and
\* bindings: onDataFetched() and onDataChanged() put what comes where it belongs,
\* as resetModel() waits for what is under way and the backend edits what is shown.
THEOREM RowsStayRight ==
    ASSUME {"resets", "edits", "counts"} \subseteq Assumed
    PROVE  Spec => []RowsAreRight
<1>1. {"resets", "edits"} \subseteq Assumed OBVIOUS
<1>2. IInv /\ RInv /\ [Next]_vars => IInv' /\ RInv' BY <1>1, NextIInv, NextRInv
<1>3. IInv /\ RInv => RowsAreRight BY RInvIsRight DEF IInv, Typed
<1>4. QED BY <1>2, <1>3, InitIInv, InitRInv, PTL DEF Spec

\* The marks of the chunks are there for each row that data() reads, no handler
\* leaves the bounds or fails an assertion, and what is marked and has no data yet is
\* asked for under the identifier the model has, so that it is not lost.
THEOREM MarksStayRight ==
    ASSUME {"resets", "edits", "counts"} \subseteq Assumed
    PROVE  Spec => []MarksAreRight
<1>1. {"resets", "edits"} \subseteq Assumed OBVIOUS
<1>2. IInv /\ RInv /\ [Next]_vars => IInv' /\ RInv' BY <1>1, NextIInv, NextRInv
<1>3. IInv /\ RInv => MarksAreRight BY RInvIsRight DEF IInv, Typed
<1>4. QED BY <1>2, <1>3, InitIInv, InitRInv, PTL DEF Spec
=============================================================================
