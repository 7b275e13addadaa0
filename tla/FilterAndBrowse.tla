--------------------------- MODULE FilterAndBrowse ---------------------------
(***************************************************************************)
(* The models of qiffilterandbrowsemodel.cpp over one backend: content     *)
(* types, queries and navigation.  A backend takes a call at once and      *)
(* tells the model later, in order; it fills the pages it is asked for at  *)
(* once.  How pages are fetched and kept is modelled in PagingModel, the   *)
(* queries in QueryParser: here a query is parsed or it is not.            *)
(***************************************************************************)
EXTENDS Naturals, Sequences, SequencesExt, Selection

CONSTANTS
    Models, Root,   \* the models; the first, which the application makes
    ContentTypes, NoType,
    Rows,           \* [ContentTypes -> the rows a content type has]
    Parent, Child,  \* goBack() from a content type; goForward() at a row
    NoChild,        \* nothing there
    Queries, NoQuery,
    Broken,         \* the queries that do not parse
    Uses,           \* [Queries -> the identifiers they name]
    Passes,         \* [Queries -> the rows that pass]
    Identifiers,    \* [ContentTypes -> the identifiers that a query may name]
    Capabilities,   \* a subset of {"filter", "stateless"}
    ChunkSize,
    Terms, NoTerm,  \* the objects of parsed queries
    Freed, Failed,
    ModelsGo,       \* may a model with a filter be destroyed
    MaxCalls

Types == ContentTypes \cup {NoType}

ASSUME BrowseAssumption ==
    /\ Root \in Models /\ NoType \notin ContentTypes /\ NoTerm \notin Terms
    /\ NoQuery \in Queries /\ Broken \subseteq Queries \ {NoQuery}
    /\ ChunkSize \in Nat \ {0} /\ Failed \notin Types /\ Freed \notin Queries
    /\ Rows \in [ContentTypes -> Seq(DOMAIN Child)]
    /\ Parent \in [ContentTypes -> Types]
    /\ \A r \in DOMAIN Child : Child[r] \in ContentTypes \cup {NoChild}

\* A term that is made is another object than the terms there are.
ASSUME TermsAssumption ==
    \A f \in [Models -> Terms \cup {NoTerm}] : \E t \in Terms : \A m \in Models : f[m] # t

VARIABLES
    model,          \* [Models -> QIfFilterAndBrowseModelPrivate]
    heap,           \* [Terms -> the query of the term, or Freed]
    backend,        \* [Models -> what the backend keeps for the registered model]
    events,         \* [Models -> the signals on their way to it]
    replies,        \* the pending replies: the model to change and the answer
    asked,          \* [Models -> the content type last asked for]
    calls

vars == <<model, heap, backend, events, replies, asked, calls>>

NewModel == [alive |-> FALSE, attached |-> FALSE, query |-> NoQuery, identifiers |-> {},
    type |-> NoType, requested |-> NoType, canGoBack |-> FALSE, forward |-> <<>>,
    rows |-> <<>>, more |-> FALSE, term |-> NoTerm]
Unregistered == [registered |-> FALSE, type |-> NoType, term |-> NoTerm]

Init ==
    /\ model = [m \in Models |-> [NewModel EXCEPT !.alive = (m = Root)]]
    /\ heap = [t \in Terms |-> Freed]
    /\ backend = [m \in Models |-> Unregistered]
    /\ events = [m \in Models |-> <<>>]
    /\ replies = <<>>
    /\ asked = [m \in Models |-> NoType]
    /\ calls = 0

MayCall == calls < MaxCalls /\ calls' = calls + 1

-----------------------------------------------------------------------------
(* The backend *)

\* What passes a filter, whose terms are those of h
Passing(t, h) == {r \in DOMAIN Child : t = NoTerm \/ (h[t] # Freed /\ r \in Passes[h[t]])}

\* What is fetched of a content type through the filter t
Content(ct, t, h) == IF ct = NoType THEN <<>> ELSE Chosen(Rows[ct], Passing(t, h))

Told(kind, ct) == [kind |-> kind, type |-> ct]
Answers(ct) ==
    (IF ct # NoType /\ Parent[ct] # NoType THEN <<Told("canGoBack", ct)>> ELSE <<>>)
        \o <<Told("identifiers", ct), Told("contentType", ct)>>

\* resetModel(): nothing happens before the backend answers.
ResetModel(m, ct) ==
    IF model[m].attached
    THEN /\ backend' = [backend EXCEPT ![m].type = ct]
         /\ events' = [events EXCEPT ![m] = @ \o Answers(ct)]
    ELSE UNCHANGED <<backend, events>>

-----------------------------------------------------------------------------
(* The pages of a model: the backend informs of the rows it has sent. *)

Resized(list, n) == [i \in 1..n |-> IF i <= Len(list) THEN list[i] ELSE FALSE]

\* onCanGoForwardChanged() for a page that begins after start, with n rows there
ForwardWith(list, n, page, start) ==
    [i \in 1..n |-> IF i \in start + 1 .. start + Len(page)
                    THEN Child[page[i - start]] # NoChild ELSE Resized(list, n)[i]]

\* fetchData() and its answers, for the record d of the model and the backend's state b
Fetched(d, b) ==
    LET all == Content(b.type, b.term, heap')
        start == Len(d.rows)
        end == IF start + ChunkSize < Len(all) THEN start + ChunkSize ELSE Len(all)
        page == SubSeq(all, start + 1, end)
    IN  IF page = <<>> THEN [d EXCEPT !.more = FALSE]
        ELSE [d EXCEPT !.rows = @ \o page, !.more = end < Len(all),
                       !.forward = ForwardWith(@, end, page, start)]

\* QIfPagingModelPrivate::resetModel()
Reset(d, b) == Fetched([d EXCEPT !.rows = <<>>], b)

\* The view reaches the end of the rows.
FetchMore(m) ==
    /\ model[m].attached /\ model[m].more
    /\ UNCHANGED heap
    /\ model' = [model EXCEPT ![m] = Fetched(@, backend[m])]
    /\ UNCHANGED <<backend, events, replies, asked, calls>>

-----------------------------------------------------------------------------
(* The filter *)

Parses(q, ids) == q \notin Broken /\ (ids = {} \/ Uses[q] \subseteq ids)
Unused == {t \in Terms : heap[t] = Freed /\ \A m \in Models : backend[m].term # t}
Freeing(t) == [u \in Terms |-> IF u = t THEN Freed ELSE heap[u]]

\* setupFilter(): the backend is told, then the old term is deleted.
SetupFilter(m, t, q) ==
    /\ backend' = [backend EXCEPT ![m].term = t]
    /\ heap' = [u \in Terms |-> IF u = t THEN q ELSE Freeing(model[m].term)[u]]

\* Mutant: the old term goes before the new query has been parsed.
ParseQueryEarly(m, d) ==
    IF d.query # NoQuery /\ "filter" \in Capabilities /\ ~Parses(d.query, d.identifiers)
    THEN heap' = Freeing(d.term) /\ UNCHANGED backend
    ELSE SetupFilter(m, IF d.query = NoQuery THEN NoTerm ELSE CHOOSE t \in Unused : TRUE, d.query)

\* parseQuery(): a query that is not understood leaves the old filter.
ParseQuery(m, d) ==
    CASE d.query = NoQuery -> SetupFilter(m, NoTerm, NoQuery)
      [] d.query # NoQuery /\ "filter" \in Capabilities /\ Parses(d.query, d.identifiers) ->
            SetupFilter(m, CHOOSE t \in Unused : TRUE, d.query)
      [] OTHER -> UNCHANGED <<backend, heap>>

-----------------------------------------------------------------------------
(* What the backend tells *)

\* Mutant: the rows are fetched before the filter is set.
FetchesFirst(m, ct) ==
    /\ ParseQuery(m, model[m])
    /\ model' = [model EXCEPT ![m] =
            [Reset([@ EXCEPT !.type = ct], backend[m]) EXCEPT !.term = backend'[m].term]]

\* onContentTypeChanged(): the filter is set, then the rows are fetched.
OnContentTypeChanged(m, ct) ==
    /\ ParseQuery(m, model[m])
    /\ model' = [model EXCEPT ![m] =
            [Reset([@ EXCEPT !.type = ct], backend'[m]) EXCEPT !.term = backend'[m].term]]

\* A signal arrives.  onCanGoBackChanged(), onQueryIdentifiersChanged()
Deliver(m) ==
    /\ events[m] # <<>>
    /\ events' = [events EXCEPT ![m] = Tail(@)]
    /\ LET e == Head(events[m]) IN
       CASE e.kind = "canGoBack" ->
              model' = [model EXCEPT ![m].canGoBack = TRUE] /\ UNCHANGED <<heap, backend>>
         [] e.kind = "identifiers" ->
              /\ model' = [model EXCEPT ![m].identifiers =
                              IF e.type = NoType THEN {} ELSE Identifiers[e.type]]
              /\ UNCHANGED <<heap, backend>>
         [] e.kind = "contentType" -> OnContentTypeChanged(m, e.type)
    /\ UNCHANGED <<replies, asked, calls>>

-----------------------------------------------------------------------------
(* The application *)

SetQuery(m, q) ==
    /\ MayCall
    /\ model[m].alive /\ model[m].query # q
    /\ model' = [model EXCEPT ![m].query = q]
    /\ ResetModel(m, model[m].requested)
    /\ UNCHANGED <<heap, replies, asked>>

Reload(m) ==
    /\ MayCall
    /\ model[m].attached
    /\ ResetModel(m, model[m].requested)
    /\ UNCHANGED <<model, heap, replies, asked>>

\* updateContentType(): the query and what can be navigated are forgotten.
UpdateContentType(m, ct) ==
    /\ model' = [model EXCEPT ![m] = [@ EXCEPT !.query = NoQuery, !.identifiers = {},
                    !.requested = ct, !.forward = <<>>, !.canGoBack = FALSE]]
    /\ ResetModel(m, ct)

\* Mutant: the content type that is shown is compared.
IsNotShown(m, ct) == model[m].type # ct
IsNews(m, ct) == model[m].requested # ct

SetContentType(m, ct) ==
    /\ MayCall
    /\ model[m].alive
    /\ asked' = [asked EXCEPT ![m] = ct]
    /\ IF IsNews(m, ct) THEN UpdateContentType(m, ct)
       ELSE UNCHANGED <<model, backend, events>>
    /\ UNCHANGED <<heap, replies>>

Reply(m, ct, new) == [model |-> m, type |-> ct, new |-> new]

\* The backend may also fail to find the way.
GoBack(m) ==
    /\ MayCall
    /\ model[m].attached /\ model[m].canGoBack /\ backend[m].type # NoType
    /\ \E ct \in {Parent[backend[m].type], Failed} \ {NoType} :
          replies' = Append(replies, Reply(m, ct, FALSE))
    /\ UNCHANGED <<model, heap, backend, events, asked>>

CanGoForward(m, i) == i \in 1..Len(model[m].rows) /\ i <= Len(model[m].forward) /\ model[m].forward[i]

\* The rows change while forward does not: the row may have no child any more.
Destination(r) == {IF Child[r] = NoChild THEN Failed ELSE Child[r], Failed}

GoForward(m, i) ==
    /\ MayCall
    /\ model[m].attached /\ CanGoForward(m, i)
    /\ \E ct \in Destination(model[m].rows[i]) : replies' = Append(replies, Reply(m, ct, FALSE))
    /\ UNCHANGED <<model, heap, backend, events, asked>>

\* goForward() with OutOfModelNavigation: new is connected to the service object.
GoForwardInto(m, i, new) ==
    /\ MayCall
    /\ model[m].attached /\ CanGoForward(m, i)
    /\ "stateless" \in Capabilities /\ ~model[new].alive /\ ~backend[new].registered
    /\ \E ct \in Destination(model[m].rows[i]) : replies' = Append(replies, Reply(new, ct, TRUE))
    /\ model' = [model EXCEPT ![new].alive = TRUE, ![new].attached = TRUE]
    /\ backend' = [backend EXCEPT ![new].registered = TRUE]
    /\ events' = [events EXCEPT ![new] = Answers(NoType)]
    /\ UNCHANGED <<heap, asked>>

\* then() of goBack() and goForward(); the reply of a new model sets its content type.
Navigate(i) ==
    LET r == replies[i] IN
    /\ i \in DOMAIN replies
    /\ replies' = RemoveAt(replies, i)
    /\ IF r.type # Failed
       THEN /\ asked' = [asked EXCEPT ![r.model] = r.type]
            /\ IF r.new /\ ~IsNews(r.model, r.type) THEN UNCHANGED <<model, backend, events>>
               ELSE UpdateContentType(r.model, r.type)
       ELSE UNCHANGED <<model, backend, events, asked>>
    /\ UNCHANGED <<heap, calls>>

-----------------------------------------------------------------------------
(* The service object *)

\* The backend is initialized at once and knows what it is capable of.
Attach(m) ==
    /\ MayCall
    /\ model[m].alive /\ ~model[m].attached
    /\ model' = [model EXCEPT ![m].attached = TRUE]
    /\ backend' = [backend EXCEPT ![m] = [Unregistered EXCEPT !.registered = TRUE,
                                                              !.type = model[m].requested]]
    /\ events' = [events EXCEPT ![m] = Answers(model[m].requested)]
    /\ UNCHANGED <<heap, replies, asked>>

\* disconnectFromServiceObject(), then clearToDefaults(): a new identifier, so
\* that what the backend still tells is not heard, but the identifiers stay.
Detach(m) ==
    /\ MayCall
    /\ model[m].attached
    /\ backend' = [backend EXCEPT ![m] = Unregistered]
    /\ heap' = Freeing(model[m].term)
    /\ model' = [model EXCEPT ![m] = [NewModel EXCEPT !.alive = TRUE,
                                        !.identifiers = model[m].identifiers]]
    /\ events' = [events EXCEPT ![m] = <<>>]
    /\ asked' = [asked EXCEPT ![m] = NoType]
    /\ UNCHANGED replies

\* The destructors: the backend is not told.  No reply for the model is pending.
Destroy(m) ==
    /\ MayCall
    /\ model[m].alive /\ m # Root
    /\ \A i \in DOMAIN replies : replies[i].model # m
    /\ ModelsGo \/ model[m].term = NoTerm
    /\ heap' = Freeing(model[m].term)
    /\ model' = [model EXCEPT ![m] = NewModel]
    /\ events' = [events EXCEPT ![m] = <<>>]
    /\ asked' = [asked EXCEPT ![m] = NoType]
    /\ UNCHANGED <<backend, replies>>

Next ==
    \/ \E m \in Models :
        \/ FetchMore(m) \/ Deliver(m) \/ Reload(m) \/ GoBack(m)
        \/ Attach(m) \/ Detach(m) \/ Destroy(m)
        \/ \E q \in Queries : SetQuery(m, q)
        \/ \E ct \in ContentTypes : SetContentType(m, ct)
        \/ \E i \in 1..Len(model[m].rows) :
            GoForward(m, i) \/ \E new \in Models : GoForwardInto(m, i, new)
    \/ \E i \in 1..Len(replies) : Navigate(i)

Spec == Init /\ [][Next]_vars
        /\ \A m \in Models : WF_vars(Deliver(m))
        /\ WF_vars(Navigate(1))

-----------------------------------------------------------------------------
(* Properties *)

ModelState == [alive : BOOLEAN, attached : BOOLEAN, query : Queries,
    identifiers : SUBSET UNION {Identifiers[ct] : ct \in ContentTypes}, type : Types, requested : Types,
    canGoBack : BOOLEAN, forward : Seq(BOOLEAN), rows : Seq(DOMAIN Child), more : BOOLEAN,
    term : Terms \cup {NoTerm}]

\* Types of the models and of what the backend keeps
\* (qiffilterandbrowsemodel_p.h).
TypeOK ==
    /\ model \in [Models -> ModelState]
    /\ heap \in [Terms -> Queries \cup {Freed}]
    /\ backend \in [Models -> [registered : BOOLEAN, type : Types, term : Terms \cup {NoTerm}]]
    /\ asked \in [Models -> Types]

Quiet(m) == model[m].attached /\ events[m] = <<>>

\* The content type shown is in the end the one that was last asked for, by
\* setContentType() or by a navigation (m_contentTypeRequested and
\* onContentTypeChanged(), qiffilterandbrowsemodel.cpp:137).
ShowsWhatWasAsked == \A m \in Models : Quiet(m) => model[m].type = asked[m]

\* When the backend has told everything, it filters by the query of the model,
\* if that can be parsed (parseQuery(), qiffilterandbrowsemodel.cpp:43).
FilterIsTheQuery ==
    \A m \in Models : Quiet(m) =>
        LET d == model[m]
            t == backend[m].term
        IN  /\ d.query = NoQuery => t = NoTerm
            /\ (d.query # NoQuery /\ "filter" \in Capabilities /\ Parses(d.query, d.identifiers)) =>
                    t # NoTerm /\ heap[t] = d.query

\* When the backend has told everything, the rows shown are the first of the
\* content type and of the filter: none of what was shown before, none twice.
RowsAreTheContents ==
    \A m \in Models : Quiet(m) =>
        IsPrefix(model[m].rows, Content(model[m].type, backend[m].term, heap))

\* canGoForward() answers for the row that is there (m_canGoForward).
ForwardIsTheRows ==
    \A m \in Models : Quiet(m) =>
        \A i \in 1..Len(model[m].rows) : CanGoForward(m, i) <=> Child[model[m].rows[i]] # NoChild

\* "Now it's safe to delete the old filter" (qiffilterandbrowsemodel.cpp:80):
\* the backend holds no term that has been deleted.
TermIsAlive ==
    \A m \in Models : backend[m].term # NoTerm => heap[backend[m].term] # Freed

\* The backend filters by the query, with a term that is there.
FilterIsRight == FilterIsTheQuery /\ TermIsAlive

\* The rows, and what is known of each of them, are those of what is shown.
RowsAreRight == TypeOK /\ RowsAreTheContents /\ ForwardIsTheRows

\* Once the application has stopped calling, every model that is connected
\* comes to show what it was asked for, and what a navigation answers.
NavigationEnds == <>[](\A m \in Models : model[m].attached => model[m].type = asked[m])
=============================================================================
