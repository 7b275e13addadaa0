------------------------- MODULE FilterAndBrowse_proofs -------------------------
(***************************************************************************)
(* Proofs about FilterAndBrowse: a model comes to show what was asked for  *)
(* last, its rows are those of the content type and the filter, and, if no *)
(* model with a filter is destroyed, its backend filters by the query of   *)
(* the model, with a term that has not been deleted; and about the parser  *)
(* that makes such a term of a query, QueryParser: the term matches what   *)
(* the tokens of the query say (QueryMeaning), names identifiers that are  *)
(* allowed, and is in another process what it was.                         *)
(***************************************************************************)
EXTENDS FilterAndBrowse, QueryMeaning, Selection_proofs, SequenceTheorems,
        FiniteSetTheorems, TLAPS

ModelFields == {"alive", "attached", "query", "identifiers", "type", "requested",
                "canGoBack", "forward", "rows", "more", "term"}
PageFields == {"forward", "rows", "more"}

IsModel(d) == DOMAIN d = ModelFields
IsSequence(q) == \E S : q \in Seq(S)

Kinds == {"canGoBack", "identifiers", "contentType"}
IsSignals(q) == \E S : q \in Seq([kind : Kinds, type : S])

-----------------------------------------------------------------------------
(* Pages and signals *)

\* Fetching a page changes the rows and what is known of them only.
LEMMA FetchedFields ==
    ASSUME NEW d, IsModel(d), NEW b
    PROVE  /\ IsModel(Fetched(d, b))
           /\ \A f \in ModelFields \ PageFields : Fetched(d, b)[f] = d[f]
  <1>1. \A x : /\ DOMAIN [d EXCEPT !.more = x] = ModelFields
               /\ \A f \in ModelFields \ PageFields : [d EXCEPT !.more = x][f] = d[f]
    BY DEF IsModel, ModelFields, PageFields
  <1>2. \A x, y, z :
          LET e == [d EXCEPT !.rows = x, !.more = y, !.forward = z]
          IN  /\ DOMAIN e = ModelFields
              /\ \A f \in ModelFields \ PageFields : e[f] = d[f]
    BY DEF IsModel, ModelFields, PageFields
  <1> QED BY <1>1, <1>2 DEF Fetched, IsModel

\* So does fetching from the start.
LEMMA ResetFields ==
    ASSUME NEW d, IsModel(d), NEW b
    PROVE  /\ IsModel(Reset(d, b))
           /\ \A f \in ModelFields \ PageFields : Reset(d, b)[f] = d[f]
  <1> DEFINE e == [d EXCEPT !.rows = <<>>]
  <1>1. IsModel(e) /\ \A f \in ModelFields \ PageFields : e[f] = d[f]
    BY DEF IsModel, ModelFields, PageFields
  <1> HIDE DEF e
  <1>2. IsModel(Fetched(e, b)) /\ \A f \in ModelFields \ PageFields : Fetched(e, b)[f] = e[f]
    BY <1>1, FetchedFields
  <1>3. Reset(d, b) = Fetched(e, b) BY DEF Reset, e
  <1> QED BY <1>1, <1>2, <1>3

\* What concatenation makes of sequences.
LEMMA Joined ==
    ASSUME NEW S, NEW q \in Seq(S), NEW r \in Seq(S)
    PROVE  /\ q \o r \in Seq(S)
           /\ Len(q) \in Nat /\ Len(r) \in Nat
           /\ Len(q \o r) = Len(q) + Len(r)
           /\ \A k \in 1..Len(r) : (q \o r)[Len(q) + k] = r[k]
  OBVIOUS

\* The last of the answers of a backend tells the content type.
LEMMA AnswersEnd ==
    ASSUME NEW q, IsSignals(q), NEW ct
    PROVE  /\ IsSignals(Answers(ct)) /\ Answers(ct) # <<>>
           /\ Answers(ct)[Len(Answers(ct))] = Told("contentType", ct)
           /\ IsSignals(q \o Answers(ct)) /\ q \o Answers(ct) # <<>>
           /\ (q \o Answers(ct))[Len(q \o Answers(ct))] = Told("contentType", ct)
  <1> DEFINE a == Told("canGoBack", ct)
             b == Told("identifiers", ct)
             c == Told("contentType", ct)
  <1>1. PICK S : q \in Seq([kind : Kinds, type : S]) BY DEF IsSignals
  <1> DEFINE T == [kind : Kinds, type : S \cup {ct}]
  <1>2. q \in Seq(T) /\ a \in T /\ b \in T /\ c \in T
    <2>1. a \in T /\ b \in T /\ c \in T BY DEF Told, Kinds
    <2> DEFINE U == [kind : Kinds, type : S]
    <2>2. U \subseteq T OBVIOUS
    <2>3. q \in Seq(U) BY <1>1
    <2> HIDE DEF T, U
    <2>4. q \in Seq(T) BY <2>2, <2>3
    <2> QED BY <2>1, <2>4
  <1>10. \A p : p \in Seq(T) => IsSignals(p) BY DEF IsSignals
  <1> HIDE DEF T
  <1>3. PICK x \in {<<a>>, <<>>} : Answers(ct) = x \o <<b, c>>
    BY DEF Answers
  <1> DEFINE y == <<b, c>>
             z == x \o y
  <1> HIDE DEF a, b, c
  <1>4. y \in Seq(T) /\ Len(y) = 2 /\ y[2] = c
    BY <1>2
  <1>5. x \in Seq(T)
    <2>1. <<>> \in Seq(T) /\ <<a>> \in Seq(T) BY <1>2
    <2> QED BY <2>1
  <1> HIDE DEF y
  <1>6. z \in Seq(T) /\ Len(z) = Len(x) + 2 /\ Len(x) \in Nat /\ z[Len(z)] = c
    <2>1. /\ z \in Seq(T) /\ Len(z) = Len(x) + Len(y) /\ Len(x) \in Nat
          /\ \A k \in 1..Len(y) : z[Len(x) + k] = y[k]
      <3> HIDE DEF y
      <3>1. y \in Seq(T) BY <1>4
      <3> QED BY <3>1, <1>5, Joined
    <2> QED BY <1>4, <2>1
  <1> HIDE DEF z
  <1>7. /\ q \o z \in Seq(T) /\ Len(q \o z) = Len(q) + Len(z) /\ Len(q) \in Nat
        /\ (q \o z)[Len(q) + Len(z)] = z[Len(z)]
    <2>1. \A k \in 1..Len(z) : (q \o z)[Len(q) + k] = z[k] BY <1>2, <1>6, Joined
    <2>2. Len(z) \in 1..Len(z) BY <1>6
    <2> QED BY <1>2, <1>6, <2>1, <2>2, Joined
  <1>8. Answers(ct) = z BY <1>3 DEF y, z
  <1>9. z # <<>> /\ q \o z # <<>>
    BY <1>6, <1>7
  <1> QED BY <1>6, <1>7, <1>8, <1>9, <1>10 DEF c

\* Hearing a signal leaves the last one the last.
LEMMA TailEnd ==
    ASSUME NEW q, IsSignals(q), q # <<>>
    PROVE  /\ IsSignals(Tail(q)) /\ Head(q).kind \in Kinds
           /\ Tail(q) = <<>> => Head(q) = q[Len(q)]
           /\ Tail(q) # <<>> => Tail(q)[Len(Tail(q))] = q[Len(q)]
  <1>1. PICK S : q \in Seq([kind : Kinds, type : S]) BY DEF IsSignals
  <1> DEFINE T == [kind : Kinds, type : S]
  <1>7. \A p : p \in Seq(T) => IsSignals(p) BY DEF IsSignals
  <1>8. q \in Seq(T) BY <1>1
  <1> HIDE DEF T
  <1>2. Tail(q) \in Seq(T) /\ Len(q) \in Nat \ {0} /\ Len(Tail(q)) = Len(q) - 1 /\ Head(q) = q[1]
    BY <1>8
  <1>5. Head(q) \in T BY <1>2, <1>8
  <1>6. Head(q).kind \in Kinds BY <1>5 DEF T
  <1>3. \A k \in 1..Len(Tail(q)) : Tail(q)[k] = q[k + 1] BY <1>8
  <1>4. Tail(q) = <<>> <=> Len(Tail(q)) = 0 BY <1>2
  <1>9. Len(Tail(q)) \in Nat BY <1>2
  <1>10. Tail(q) = <<>> => Head(q) = q[Len(q)] BY <1>2, <1>4
  <1>11. Tail(q) # <<>> => Tail(q)[Len(Tail(q))] = q[Len(q)] BY <1>2, <1>3, <1>4, <1>9
  <1> QED BY <1>2, <1>6, <1>7, <1>10, <1>11

\* Appending an element adds it to the others.
LEMMA AppendedElements ==
    ASSUME NEW q, IsSequence(q), NEW x
    PROVE  /\ IsSequence(Append(q, x))
           /\ \A k \in 1..Len(Append(q, x)) :
                \/ \E j \in 1..Len(q) : Append(q, x)[k] = q[j]
                \/ Append(q, x)[k] = x
  <1>1. PICK S : q \in Seq(S) BY DEF IsSequence
  <1>2. q \in Seq(S \cup {x}) BY <1>1
  <1>3. /\ Append(q, x) \in Seq(S \cup {x}) /\ Len(Append(q, x)) = Len(q) + 1 /\ Len(q) \in Nat
        /\ \A k \in 1..Len(q) : Append(q, x)[k] = q[k]
        /\ Append(q, x)[Len(q) + 1] = x
    BY <1>2
  <1> QED BY <1>3 DEF IsSequence

\* Removing an element leaves a sequence of others.
LEMMA RemoveAtElements ==
    ASSUME NEW q, IsSequence(q), NEW i \in 1..Len(q)
    PROVE  /\ IsSequence(RemoveAt(q, i))
           /\ \A k \in 1..Len(RemoveAt(q, i)) : \E j \in 1..Len(q) : RemoveAt(q, i)[k] = q[j]
  <1>1. PICK S : q \in Seq(S) BY DEF IsSequence
  <1> DEFINE T == {q[j] : j \in 1..Len(q)}
             l == SubSeq(q, 1, i - 1)
             r == SubSeq(q, i + 1, Len(q))
  <1>2. l \in Seq(T) /\ r \in Seq(T) BY <1>1
  <1> HIDE DEF l, r, T
  <1>3. l \o r \in Seq(T) BY <1>2
  <1>4. RemoveAt(q, i) = l \o r BY DEF RemoveAt, l, r
  <1>5. \A k \in 1..Len(l \o r) : (l \o r)[k] \in T BY <1>3
  <1> QED BY <1>3, <1>4, <1>5 DEF IsSequence, T

-----------------------------------------------------------------------------
(* What is asked for is shown *)

Shape ==
    /\ model = [m \in Models |-> model[m]] /\ \A m \in Models : IsModel(model[m])
    /\ events = [m \in Models |-> events[m]] /\ \A m \in Models : IsSignals(events[m])
    /\ asked = [m \in Models |-> asked[m]]
    /\ IsSequence(replies)

\* The model of a reply is there, and waits for nothing that was asked before it was.
RepliesAreForModels ==
    \A i \in 1..Len(replies) :
        replies[i].model \in Models /\ model[replies[i].model].alive

\* The last thing a backend will tell is the content type that is asked for.
LastIsAsked(m) ==
    IF events[m] = <<>> THEN model[m].type = model[m].requested
    ELSE events[m][Len(events[m])] = Told("contentType", model[m].requested)

ShowInv ==
    /\ Shape
    /\ RepliesAreForModels
    /\ \A m \in Models :
        /\ asked[m] = model[m].requested
        /\ ~model[m].alive => model[m].requested = NoType
        /\ model[m].attached => model[m].alive /\ LastIsAsked(m)

\* A backend that is asked answers with the content type it is asked for.
LEMMA ResetModelAnswers ==
    ASSUME Shape, NEW m \in Models, NEW ct, ResetModel(m, ct)
    PROVE  /\ events' = [n \in Models |-> events'[n]]
           /\ \A n \in Models : IsSignals(events'[n])
           /\ \A n \in Models \ {m} : events'[n] = events[n]
           /\ model[m].attached =>
                  /\ events'[m] # <<>>
                  /\ events'[m][Len(events'[m])] = Told("contentType", ct)
  <1>1. CASE model[m].attached
    <2>1. events' = [events EXCEPT ![m] = @ \o Answers(ct)] BY <1>1 DEF ResetModel
    <2>2. events'[m] = events[m] \o Answers(ct) BY <2>1 DEF Shape
    <2>3. IsSignals(events[m]) BY DEF Shape
    <2> QED BY <2>1, <2>2, <2>3, AnswersEnd DEF Shape
  <1>2. CASE ~model[m].attached
    BY <1>2 DEF ResetModel, Shape
  <1> QED BY <1>1, <1>2

\* What updateContentType() changes.
LEMMA UpdateFields ==
    ASSUME Shape, NEW m \in Models, NEW ct, UpdateContentType(m, ct)
    PROVE  /\ model' = [n \in Models |-> model'[n]]
           /\ \A n \in Models : IsModel(model'[n])
           /\ \A n \in Models \ {m} : model'[n] = model[n]
           /\ \A f \in {"alive", "attached", "type", "term"} : model'[m][f] = model[m][f]
           /\ model'[m].requested = ct
           /\ model'[m].query = NoQuery
  BY DEF UpdateContentType, Shape, IsModel, ModelFields

\* So updating the content type leaves it the last thing to be told.
LEMMA UpdateKeeps ==
    ASSUME ShowInv, NEW m \in Models, NEW ct, model[m].alive, UpdateContentType(m, ct),
           asked' = [asked EXCEPT ![m] = ct], IsSequence(replies'),
           \A i \in 1..Len(replies') : \E j \in 1..Len(replies) : replies'[i] = replies[j]
    PROVE  ShowInv'
  <1>1. ResetModel(m, ct) BY DEF UpdateContentType
  <1>2. Shape BY DEF ShowInv
  <1>3. asked' = [n \in Models |-> asked'[n]] /\ \A n \in Models : asked'[n] = model'[n].requested
    BY <1>2, UpdateFields DEF ShowInv, Shape
  <1>4. Shape' BY <1>1, <1>2, <1>3, UpdateFields, ResetModelAnswers DEF Shape
  <1>5. \A n \in Models : model'[n].alive = model[n].alive /\ model'[n].attached = model[n].attached
    BY <1>2, UpdateFields
  <1>6. RepliesAreForModels' BY <1>5 DEF ShowInv, RepliesAreForModels
  <1>7. \A n \in Models : model'[n].attached => LastIsAsked(n)'
    <2>1. LastIsAsked(m)' \/ ~model'[m].attached
      BY <1>1, <1>2, <1>5, UpdateFields, ResetModelAnswers DEF LastIsAsked
    <2>2. \A n \in Models \ {m} : model'[n].attached => LastIsAsked(n)'
      BY <1>1, <1>2, UpdateFields, ResetModelAnswers DEF LastIsAsked, ShowInv
    <2> QED BY <2>1, <2>2
  <1>8. \A n \in Models : ~model'[n].alive => model'[n].requested = NoType
    BY <1>2, <1>5, UpdateFields DEF ShowInv
  <1> QED BY <1>3, <1>4, <1>5, <1>6, <1>7, <1>8 DEF ShowInv

\* The replies of a step are those there were, or for m.
RepliesStay(m) ==
    /\ IsSequence(replies')
    /\ \A i \in 1..Len(replies') :
        \/ \E j \in 1..Len(replies) : replies'[i] = replies[j]
        \/ replies'[i].model = m /\ model[m].alive

\* Replies that do not change stay.
LEMMA SameReplies ==
    ASSUME Shape, UNCHANGED replies, NEW m
    PROVE  RepliesStay(m)
  <1>1. \A i \in 1..Len(replies) : \E j \in 1..Len(replies) : replies[i] = replies[j]
    OBVIOUS
  <1>2. replies' = replies OBVIOUS
  <1>3. IsSequence(replies') BY <1>2 DEF Shape, IsSequence
  <1>4. \A i \in 1..Len(replies') : \E j \in 1..Len(replies) : replies'[i] = replies[j]
    BY <1>1, <1>2
  <1> QED BY <1>3, <1>4 DEF RepliesStay

\* An action that leaves what is shown and asked for, and asks a backend again at most.
LEMMA AskedAgainKeeps ==
    ASSUME ShowInv, NEW m \in Models,
           model' = [n \in Models |-> model'[n]],
           \A n \in Models : IsModel(model'[n]),
           \A n \in Models : \A f \in {"alive", "attached", "type", "requested"} :
                model'[n][f] = model[n][f],
           UNCHANGED events \/ ResetModel(m, model[m].requested),
           UNCHANGED asked, RepliesStay(m)
    PROVE  ShowInv'
  <1>1. Shape BY DEF ShowInv
  <1>2. \A n \in Models : /\ model'[n].alive = model[n].alive
                          /\ model'[n].attached = model[n].attached
                          /\ model'[n].type = model[n].type
                          /\ model'[n].requested = model[n].requested
    OBVIOUS
  <1>3. RepliesAreForModels' BY <1>2 DEF ShowInv, RepliesAreForModels, RepliesStay
  <1>4. Shape' /\ \A n \in Models : model'[n].attached => LastIsAsked(n)'
    <2>1. CASE UNCHANGED events
      BY <1>1, <1>2, <2>1 DEF ShowInv, Shape, LastIsAsked, RepliesStay
    <2>2. CASE ResetModel(m, model[m].requested)
      <3>1. Shape' BY <1>1, <2>2, ResetModelAnswers DEF Shape, RepliesStay
      <3>2. model'[m].attached => LastIsAsked(m)'
        BY <1>1, <1>2, <2>2, ResetModelAnswers DEF LastIsAsked
      <3>3. \A n \in Models \ {m} : model'[n].attached => LastIsAsked(n)'
        BY <1>1, <1>2, <2>2, ResetModelAnswers DEF LastIsAsked, ShowInv
      <3> QED BY <3>1, <3>2, <3>3
    <2> QED BY <2>1, <2>2
  <1>5. \A n \in Models : asked'[n] = model'[n].requested /\ (~model'[n].alive => model'[n].requested = NoType)
    BY <1>2 DEF ShowInv
  <1> QED BY <1>2, <1>3, <1>4, <1>5 DEF ShowInv

\* The calls that change nothing of this.
LEMMA CallsKeepShow ==
    ASSUME ShowInv, NEW m \in Models, NEW q, NEW i,
           \/ FetchMore(m) \/ Reload(m) \/ SetQuery(m, q) \/ GoBack(m) \/ GoForward(m, i)
    PROVE  ShowInv'
  <1>1. Shape BY DEF ShowInv
  <1>2. CASE FetchMore(m)
    <2>1. IsModel(model[m]) BY <1>1 DEF Shape
    <2>2. /\ IsModel(Fetched(model[m], backend[m]))
          /\ \A f \in ModelFields \ PageFields : Fetched(model[m], backend[m])[f] = model[m][f]
      BY <2>1, FetchedFields
    <2>3. model' = [model EXCEPT ![m] = Fetched(model[m], backend[m])]
          /\ UNCHANGED <<events, replies, asked>>
      BY <1>2 DEF FetchMore
    <2>4. {"alive", "attached", "type", "requested"} \subseteq ModelFields \ PageFields
      BY DEF ModelFields, PageFields
    <2>5. /\ model' = [n \in Models |-> model'[n]]
          /\ \A n \in Models : IsModel(model'[n])
          /\ \A n \in Models : \A f \in {"alive", "attached", "type", "requested"} :
                model'[n][f] = model[n][f]
      BY <1>1, <2>2, <2>3, <2>4 DEF Shape
    <2>6. RepliesStay(m) BY <1>1, <2>3, SameReplies
    <2> QED BY <2>3, <2>5, <2>6, AskedAgainKeeps
  <1>3. CASE Reload(m)
    <2>1. ResetModel(m, model[m].requested) /\ UNCHANGED <<model, replies, asked>>
      BY <1>3 DEF Reload
    <2>2. RepliesStay(m) BY <1>1, <2>1, SameReplies
    <2>3. /\ model' = [n \in Models |-> model'[n]]
          /\ \A n \in Models : IsModel(model'[n])
          /\ \A n \in Models : \A f \in {"alive", "attached", "type", "requested"} :
                model'[n][f] = model[n][f]
      BY <1>1, <2>1 DEF Shape
    <2> QED BY <2>1, <2>2, <2>3, AskedAgainKeeps
  <1>4. CASE SetQuery(m, q)
    <2>1. model' = [model EXCEPT ![m].query = q] /\ ResetModel(m, model[m].requested)
          /\ UNCHANGED <<replies, asked>>
      BY <1>4 DEF SetQuery
    <2>2. /\ model' = [n \in Models |-> model'[n]]
          /\ \A n \in Models : IsModel(model'[n])
          /\ \A n \in Models : \A f \in {"alive", "attached", "type", "requested"} :
                model'[n][f] = model[n][f]
      BY <1>1, <2>1 DEF Shape, IsModel, ModelFields
    <2>3. RepliesStay(m) BY <1>1, <2>1, SameReplies
    <2> QED BY <2>1, <2>2, <2>3, AskedAgainKeeps
  <1>5. CASE GoBack(m) \/ GoForward(m, i)
    <2>1. PICK r : replies' = Append(replies, r) /\ r.model = m
      <3>1. \E ct : replies' = Append(replies, Reply(m, ct, FALSE))
        BY <1>5 DEF GoBack, GoForward
      <3>2. \A ct : Reply(m, ct, FALSE).model = m BY DEF Reply
      <3> QED BY <3>1, <3>2
    <2>2. model[m].alive BY <1>5 DEF GoBack, GoForward, ShowInv
    <2>3. UNCHANGED <<model, events, asked>> BY <1>5 DEF GoBack, GoForward
    <2>4. RepliesStay(m)
      <3>1. IsSequence(replies) BY <1>1 DEF Shape
      <3>2. /\ IsSequence(Append(replies, r))
            /\ \A k \in 1..Len(Append(replies, r)) :
                \/ \E j \in 1..Len(replies) : Append(replies, r)[k] = replies[j]
                \/ Append(replies, r)[k] = r
        BY <3>1, AppendedElements
      <3> QED BY <2>1, <2>2, <3>2 DEF RepliesStay
    <2>5. /\ model' = [n \in Models |-> model'[n]]
          /\ \A n \in Models : IsModel(model'[n])
          /\ \A n \in Models : \A f \in {"alive", "attached", "type", "requested"} :
                model'[n][f] = model[n][f]
      BY <1>1, <2>3 DEF Shape
    <2> QED BY <2>3, <2>4, <2>5, AskedAgainKeeps
  <1> QED BY <1>2, <1>3, <1>4, <1>5

\* A signal that arrives: the last one shows what is asked for.
LEMMA DeliverKeepsShow ==
    ASSUME ShowInv, NEW m \in Models, Deliver(m)
    PROVE  ShowInv'
  <1> DEFINE e == Head(events[m])
  <1>1. Shape BY DEF ShowInv
  <1>2. /\ events[m] # <<>> /\ events' = [events EXCEPT ![m] = Tail(@)]
        /\ UNCHANGED <<replies, asked>>
    BY DEF Deliver
  <1>3. /\ IsSignals(events[m])
        /\ events'[m] = Tail(events[m])
        /\ \A n \in Models \ {m} : events'[n] = events[n]
    BY <1>1, <1>2 DEF Shape
  <1>4. /\ IsSignals(events'[m]) /\ e.kind \in Kinds
        /\ events'[m] = <<>> => e = events[m][Len(events[m])]
        /\ events'[m] # <<>> => events'[m][Len(events'[m])] = events[m][Len(events[m])]
    BY <1>2, <1>3, TailEnd
  <1>5. /\ model' = [n \in Models |-> model'[n]]
        /\ \A n \in Models : IsModel(model'[n])
        /\ \A n \in Models \ {m} : model'[n] = model[n]
        /\ \A f \in {"alive", "attached", "requested"} : model'[m][f] = model[m][f]
        /\ e.kind = "contentType" => model'[m].type = e.type
    <2>1. CASE e.kind = "contentType"
      <3>1. OnContentTypeChanged(m, e.type) BY <2>1 DEF Deliver
      <3> DEFINE d == [model[m] EXCEPT !.type = e.type]
                 r == Reset(d, backend'[m])
      <3>2. IsModel(d) /\ d.type = e.type /\ \A f \in ModelFields \ {"type"} : d[f] = model[m][f]
        BY <1>1 DEF Shape, IsModel, ModelFields
      <3>3. model' = [model EXCEPT ![m] = [r EXCEPT !.term = backend'[m].term]]
        BY <3>1 DEF OnContentTypeChanged
      <3> HIDE DEF d, e
      <3>4. IsModel(r) /\ \A f \in ModelFields \ PageFields : r[f] = d[f]
        BY <3>2, ResetFields
      <3> HIDE DEF r
      <3>5. /\ r.type = e.type
            /\ \A f \in {"alive", "attached", "requested"} : r[f] = model[m][f]
        BY <3>2, <3>4 DEF ModelFields, PageFields
      <3>6. DOMAIN model = Models BY <1>1 DEF Shape
      <3>7. model'[m] = [r EXCEPT !.term = backend'[m].term] /\ IsModel(model'[m])
        BY <3>3, <3>4, <3>6 DEF IsModel
      <3>8. /\ model' = [n \in Models |-> model'[n]]
            /\ \A n \in Models \ {m} : model'[n] = model[n]
        BY <3>3, <3>6
      <3>9. \A f \in {"alive", "attached", "requested", "type"} : model'[m][f] = r[f]
        BY <3>4, <3>7 DEF IsModel, ModelFields
      <3> QED BY <1>1, <3>5, <3>7, <3>8, <3>9 DEF Shape
    <2>2. CASE e.kind # "contentType"
      <3>1. CASE e.kind = "canGoBack"
        <4>1. model' = [model EXCEPT ![m].canGoBack = TRUE] BY <3>1 DEF Deliver
        <4> QED BY <1>1, <2>2, <4>1 DEF Shape, IsModel, ModelFields
      <3>2. CASE e.kind = "identifiers"
        <4>1. PICK x : model' = [model EXCEPT ![m].identifiers = x] BY <3>2 DEF Deliver
        <4> QED BY <1>1, <2>2, <4>1 DEF Shape, IsModel, ModelFields
      <3> QED BY <1>4, <2>2, <3>1, <3>2 DEF Kinds
    <2> QED BY <2>1, <2>2
  <1>6. \A n \in Models : model'[n].alive = model[n].alive /\ model'[n].attached = model[n].attached
                         /\ model'[n].requested = model[n].requested
    BY <1>5
  <1>7. Shape' BY <1>1, <1>2, <1>3, <1>4, <1>5 DEF Shape
  <1>8. model'[m].attached => LastIsAsked(m)'
    <2> SUFFICES ASSUME model'[m].attached PROVE LastIsAsked(m)' OBVIOUS
    <2>1. events[m][Len(events[m])] = Told("contentType", model[m].requested)
      BY <1>2, <1>6 DEF ShowInv, LastIsAsked
    <2>2. CASE events'[m] # <<>> BY <1>4, <1>6, <2>1, <2>2 DEF LastIsAsked
    <2>3. CASE events'[m] = <<>>
      <3>1. e.kind = "contentType" /\ e.type = model[m].requested
        BY <1>4, <2>1, <2>3 DEF Told
      <3> QED BY <1>5, <1>6, <2>3, <3>1 DEF LastIsAsked
    <2> QED BY <2>2, <2>3
  <1>9. \A n \in Models \ {m} : model'[n].attached => LastIsAsked(n)'
    BY <1>3, <1>5 DEF LastIsAsked, ShowInv
  <1>10. RepliesAreForModels' BY <1>2, <1>6 DEF ShowInv, RepliesAreForModels
  <1>11. \A n \in Models : asked'[n] = model'[n].requested /\ (~model'[n].alive => model'[n].requested = NoType)
    BY <1>2, <1>6 DEF ShowInv
  <1> QED BY <1>6, <1>7, <1>8, <1>9, <1>10, <1>11 DEF ShowInv

\* Setting the content type.
LEMMA SetContentTypeKeepsShow ==
    ASSUME ShowInv, NEW m \in Models, NEW ct, SetContentType(m, ct)
    PROVE  ShowInv'
  <1>1. Shape BY DEF ShowInv
  <1>2. \A n \in Models : asked[n] = model[n].requested BY DEF ShowInv
  <1>3. /\ model[m].alive /\ asked' = [asked EXCEPT ![m] = ct] /\ UNCHANGED replies
        /\ IF IsNews(m, ct) THEN UpdateContentType(m, ct) ELSE UNCHANGED <<model, backend, events>>
    BY DEF SetContentType
  <1>4. CASE IsNews(m, ct)
    <2>1. UpdateContentType(m, ct) BY <1>3, <1>4
    <2>2. IsSequence(replies') /\ \A k \in 1..Len(replies') : \E j \in 1..Len(replies) : replies'[k] = replies[j]
      <3>1. replies' = replies BY <1>3
      <3>2. \A k \in 1..Len(replies) : \E j \in 1..Len(replies) : replies[k] = replies[j] OBVIOUS
      <3>3. IsSequence(replies') BY <1>1, <3>1 DEF Shape, IsSequence
      <3> QED BY <3>1, <3>2, <3>3
    <2> QED BY <1>3, <2>1, <2>2, UpdateKeeps
  <1>5. CASE ~IsNews(m, ct)
    <2>1. asked' = asked BY <1>1, <1>2, <1>3, <1>5 DEF IsNews, Shape
    <2> QED BY <1>3, <1>5, <2>1 DEF ShowInv, Shape, RepliesAreForModels, LastIsAsked
  <1> QED BY <1>4, <1>5

\* The answer of a navigation.
LEMMA NavigateKeepsShow ==
    ASSUME ShowInv, NEW i \in 1..Len(replies), Navigate(i)
    PROVE  ShowInv'
  <1>1. Shape BY DEF ShowInv
  <1>2. \A n \in Models : asked[n] = model[n].requested BY DEF ShowInv
  <1> DEFINE r == replies[i]
             n == r.model
  <1>3. /\ replies' = RemoveAt(replies, i)
        /\ IF r.type # Failed
           THEN /\ asked' = [asked EXCEPT ![n] = r.type]
                /\ IF r.new /\ ~IsNews(n, r.type) THEN UNCHANGED <<model, backend, events>>
                   ELSE UpdateContentType(n, r.type)
           ELSE UNCHANGED <<model, backend, events, asked>>
    BY DEF Navigate
  <1>4. n \in Models /\ model[n].alive BY DEF ShowInv, RepliesAreForModels
  <1> DEFINE ty == r.type
  <1> HIDE DEF n, ty
  <1>5. IsSequence(replies') /\ \A k \in 1..Len(replies') : \E j \in 1..Len(replies) : replies'[k] = replies[j]
    <2>1. IsSequence(replies) BY <1>1 DEF Shape
    <2> QED BY <1>3, <2>1, RemoveAtElements
  <1>6. CASE UpdateContentType(n, ty) /\ asked' = [asked EXCEPT ![n] = ty]
    BY <1>4, <1>5, <1>6, UpdateKeeps
  <1>7. CASE UNCHANGED <<model, events, asked>>
    <2>1. RepliesAreForModels' BY <1>5, <1>7 DEF ShowInv, RepliesAreForModels
    <2> QED BY <1>5, <1>7, <2>1 DEF ShowInv, Shape, LastIsAsked
  <1>8. CASE UNCHANGED <<model, events>> /\ asked' = [asked EXCEPT ![n] = ty] /\ ~IsNews(n, ty)
    <2>1. asked' = asked BY <1>1, <1>2, <1>4, <1>8 DEF IsNews, Shape
    <2> QED BY <1>7, <1>8, <2>1
  <1> QED BY <1>3, <1>6, <1>7, <1>8 DEF n, ty

\* A model that is made by a navigation, connected, left or destroyed.
LEMMA LifeKeepsShow ==
    ASSUME ShowInv, NEW m \in Models, NEW new \in Models, NEW i,
           \/ GoForwardInto(m, i, new) \/ Attach(m) \/ Detach(m) \/ Destroy(m)
    PROVE  ShowInv'
  <1>1. Shape BY DEF ShowInv
  <1>2. IsSequence(replies) BY <1>1 DEF Shape
  <1>3. IsSignals(<<>>) BY DEF IsSignals
  <1>4. \A ct : /\ IsSignals(Answers(ct)) /\ Answers(ct) # <<>>
                /\ Answers(ct)[Len(Answers(ct))] = Told("contentType", ct)
    BY <1>3, AnswersEnd
  <1>5. IsModel(NewModel) BY DEF IsModel, NewModel, ModelFields
  <1>6. CASE GoForwardInto(m, i, new)
    <2>1. /\ ~model[new].alive
          /\ model' = [model EXCEPT ![new].alive = TRUE, ![new].attached = TRUE]
          /\ events' = [events EXCEPT ![new] = Answers(NoType)]
          /\ UNCHANGED asked
      BY <1>6 DEF GoForwardInto
    <2>2. PICK r : replies' = Append(replies, r) /\ r.model = new
      <3>1. \E ct : replies' = Append(replies, Reply(new, ct, TRUE))
        BY <1>6 DEF GoForwardInto
      <3>2. \A ct : Reply(new, ct, TRUE).model = new BY DEF Reply
      <3> QED BY <3>1, <3>2
    <2>3. /\ model' = [n \in Models |-> model'[n]] /\ \A n \in Models : IsModel(model'[n])
          /\ \A n \in Models \ {new} : model'[n] = model[n]
          /\ model'[new].alive /\ model'[new].attached
          /\ model'[new].requested = model[new].requested
      BY <1>1, <2>1 DEF Shape, IsModel, ModelFields
    <2>4. model[new].requested = NoType BY <2>1 DEF ShowInv
    <2>5. /\ IsSequence(replies')
          /\ \A k \in 1..Len(replies') :
                \/ \E j \in 1..Len(replies) : replies'[k] = replies[j]
                \/ replies'[k] = r
      BY <1>2, <2>2, AppendedElements
    <2>6. RepliesAreForModels'
      BY <2>2, <2>3, <2>5 DEF ShowInv, RepliesAreForModels
    <2>7. Shape' BY <1>1, <1>4, <2>1, <2>3, <2>5 DEF Shape
    <2>8. LastIsAsked(new)'
      <3>1. events'[new] = Answers(NoType) BY <1>1, <2>1 DEF Shape
      <3> QED BY <1>4, <2>3, <2>4, <3>1 DEF LastIsAsked
    <2>9. \A n \in Models \ {new} : model'[n].attached => LastIsAsked(n)'
      BY <1>1, <2>1, <2>3 DEF ShowInv, LastIsAsked, Shape
    <2> QED BY <2>1, <2>3, <2>6, <2>7, <2>8, <2>9 DEF ShowInv
  <1>7. CASE Attach(m)
    <2>1. /\ model[m].alive /\ model' = [model EXCEPT ![m].attached = TRUE]
          /\ events' = [events EXCEPT ![m] = Answers(model[m].requested)]
          /\ UNCHANGED asked /\ replies' = replies
      BY <1>7 DEF Attach
    <2>2. /\ model' = [n \in Models |-> model'[n]] /\ \A n \in Models : IsModel(model'[n])
          /\ \A n \in Models \ {m} : model'[n] = model[n]
          /\ model'[m].alive /\ model'[m].attached
          /\ model'[m].requested = model[m].requested
      BY <1>1, <2>1 DEF Shape, IsModel, ModelFields
    <2>3. RepliesAreForModels' BY <2>1, <2>2 DEF ShowInv, RepliesAreForModels
    <2>4. Shape' BY <1>1, <1>4, <2>1, <2>2 DEF Shape
    <2>5. LastIsAsked(m)'
      <3>1. events'[m] = Answers(model[m].requested) BY <1>1, <2>1 DEF Shape
      <3> QED BY <1>4, <2>2, <3>1 DEF LastIsAsked
    <2>6. \A n \in Models \ {m} : model'[n].attached => LastIsAsked(n)'
      BY <1>1, <2>1, <2>2 DEF ShowInv, LastIsAsked, Shape
    <2> QED BY <2>1, <2>2, <2>3, <2>4, <2>5, <2>6 DEF ShowInv
  <1>8. CASE Detach(m) \/ Destroy(m)
    <2>1. PICK d : /\ model' = [model EXCEPT ![m] = d] /\ IsModel(d)
                   /\ d.attached = FALSE /\ d.requested = NoType
                   /\ d.alive \/ \A k \in 1..Len(replies) : replies[k].model # m
      <3>1. CASE Detach(m)
        <4> DEFINE d == [NewModel EXCEPT !.alive = TRUE, !.identifiers = model[m].identifiers]
        <4>1. model' = [model EXCEPT ![m] = d] BY <3>1 DEF Detach
        <4>2. IsModel(d) /\ d.attached = FALSE /\ d.requested = NoType /\ d.alive
          BY DEF IsModel, NewModel, ModelFields
        <4> HIDE DEF d
        <4> QED BY <4>1, <4>2
      <3>2. CASE Destroy(m)
        <4>1. model' = [model EXCEPT ![m] = NewModel] BY <3>2 DEF Destroy
        <4>2. NewModel.attached = FALSE /\ NewModel.requested = NoType BY DEF NewModel
        <4>3. \A k \in 1..Len(replies) : replies[k].model # m
          <5>1. \A k \in DOMAIN replies : replies[k].model # m BY <3>2 DEF Destroy
          <5>2. DOMAIN replies = 1..Len(replies) BY <1>2 DEF IsSequence
          <5> QED BY <5>1, <5>2
        <4> QED BY <1>5, <4>1, <4>2, <4>3
      <3> QED BY <1>8, <3>1, <3>2
    <2>2. /\ events' = [events EXCEPT ![m] = <<>>] /\ asked' = [asked EXCEPT ![m] = NoType]
          /\ replies' = replies
      BY <1>8 DEF Detach, Destroy
    <2>3. /\ model' = [n \in Models |-> model'[n]] /\ \A n \in Models : IsModel(model'[n])
          /\ \A n \in Models \ {m} : model'[n] = model[n]
          /\ model'[m] = d
      BY <1>1, <2>1 DEF Shape
    <2>4. RepliesAreForModels'
      BY <2>1, <2>2, <2>3 DEF ShowInv, RepliesAreForModels
    <2>5. Shape' BY <1>1, <1>3, <2>2, <2>3 DEF Shape
    <2>6. \A n \in Models \ {m} : model'[n].attached => LastIsAsked(n)'
      BY <1>1, <2>2, <2>3 DEF ShowInv, LastIsAsked, Shape
    <2>7. \A n \in Models : asked'[n] = model'[n].requested
      BY <1>1, <2>1, <2>2, <2>3 DEF ShowInv, Shape
    <2> QED BY <2>1, <2>3, <2>4, <2>5, <2>6, <2>7 DEF ShowInv
  <1> QED BY <1>6, <1>7, <1>8

\* The invariant holds initially.
LEMMA ShowInit == Init => ShowInv
  <1> SUFFICES ASSUME Init PROVE ShowInv OBVIOUS
  <1>1. IsSequence(<<>>) /\ IsSignals(<<>>) BY DEF IsSequence, IsSignals
  <1>2. \A m \in Models : model[m] = [NewModel EXCEPT !.alive = (m = Root)] BY DEF Init
  <1>3. \A m \in Models : IsModel(model[m]) /\ model[m].requested = NoType /\ model[m].attached = FALSE
    BY <1>2 DEF IsModel, NewModel, ModelFields
  <1>4. model = [m \in Models |-> model[m]] BY DEF Init
  <1>5. Shape BY <1>1, <1>3, <1>4 DEF Init, Shape
  <1>6. RepliesAreForModels BY DEF Init, RepliesAreForModels
  <1> QED BY <1>3, <1>5, <1>6 DEF Init, ShowInv

\* Every step keeps the invariant.
LEMMA ShowStep == ShowInv /\ [Next]_vars => ShowInv'
  <1> SUFFICES ASSUME ShowInv, [Next]_vars PROVE ShowInv' OBVIOUS
  <1>1. CASE UNCHANGED vars
    BY <1>1 DEF vars, ShowInv, Shape, RepliesAreForModels, LastIsAsked
  <1>2. ASSUME NEW m \in Models, NEW q, NEW i,
               FetchMore(m) \/ Reload(m) \/ SetQuery(m, q) \/ GoBack(m) \/ GoForward(m, i)
        PROVE  ShowInv'
    BY <1>2, CallsKeepShow
  <1>3. ASSUME NEW m \in Models, NEW new \in Models, NEW i,
               GoForwardInto(m, i, new) \/ Attach(m) \/ Detach(m) \/ Destroy(m)
        PROVE  ShowInv'
    BY <1>3, LifeKeepsShow
  <1>4. ASSUME NEW m \in Models, NEW ct, SetContentType(m, ct) PROVE ShowInv'
    BY <1>4, SetContentTypeKeepsShow
  <1>5. ASSUME NEW i \in 1..Len(replies), Navigate(i) PROVE ShowInv'
    BY <1>5, NavigateKeepsShow
  <1>6. ASSUME NEW m \in Models, Deliver(m) PROVE ShowInv'
    BY <1>6, DeliverKeepsShow
  <1> QED BY <1>1, <1>2, <1>3, <1>4, <1>5, <1>6 DEF Next

\* A model whose backend has told everything shows the content type that was
\* asked for last: by the application, or by a navigation of the model
\* (setContentType() and onContentTypeChanged(), qiffilterandbrowsemodel.cpp).
THEOREM Shows == Spec => []ShowsWhatWasAsked
  <1>1. ShowInv => ShowsWhatWasAsked
    BY DEF ShowInv, LastIsAsked, ShowsWhatWasAsked, Quiet
  <1> QED BY <1>1, ShowInit, ShowStep, PTL DEF Spec

-----------------------------------------------------------------------------
(* The backend filters by the query *)

BackendFields == {"registered", "type", "term"}

BackendShape ==
    /\ backend = [m \in Models |-> backend[m]]
    /\ \A m \in Models : DOMAIN backend[m] = BackendFields

\* What FilterIsTheQuery says of one model
Filters(m) ==
    LET d == model[m]
        t == backend[m].term
    IN  /\ d.query = NoQuery => t = NoTerm
        /\ (d.query # NoQuery /\ "filter" \in Capabilities /\ Parses(d.query, d.identifiers)) =>
                t # NoTerm /\ heap[t] = d.query

\* Every model has the term of its backend, for itself, and every term its model.
TermInv ==
    /\ \A m \in Models : backend[m].term = model[m].term
    /\ \A m \in Models : backend[m].term # NoTerm =>
            backend[m].term \in Terms /\ heap[backend[m].term] # Freed
    /\ \A m, n \in Models : m # n /\ backend[m].term = backend[n].term => backend[m].term = NoTerm
    /\ \A t \in Terms : heap[t] # Freed => \E m \in Models : backend[m].term = t

LifeInv ==
    \A m \in Models :
        /\ model[m].query \in Queries
        /\ ~model[m].alive => ~model[m].attached
        /\ ~model[m].attached => events[m] = <<>> /\ model[m].term = NoTerm

FilterInv == BackendShape /\ TermInv /\ LifeInv /\ \A m \in Models : Quiet(m) => Filters(m)

\* A backend that is asked again keeps its term; a model without one is told nothing.
LEMMA ResetModelKeepsTerms ==
    ASSUME BackendShape, Shape, NEW m \in Models, NEW ct, ResetModel(m, ct)
    PROVE  /\ BackendShape'
           /\ \A n \in Models : backend'[n].term = backend[n].term
           /\ \A n \in Models \ {m} : events'[n] = events[n]
           /\ ~model[m].attached => events'[m] = events[m]
  <1>1. CASE model[m].attached
    <2>1. backend' = [backend EXCEPT ![m].type = ct] BY <1>1 DEF ResetModel
    <2> QED BY <1>1, <2>1, ResetModelAnswers DEF BackendShape, BackendFields
  <1>2. CASE ~model[m].attached
    BY <1>2 DEF ResetModel, BackendShape
  <1> QED BY <1>1, <1>2

\* A step that leaves the terms, and what decides on the filter of a model that
\* has been told everything.
LEMMA SameTermsKeep ==
    ASSUME FilterInv, BackendShape', heap' = heap,
           \A n \in Models : backend'[n].term = backend[n].term /\ model'[n].term = model[n].term,
           LifeInv',
           \A n \in Models : Quiet(n)' => /\ Quiet(n)
                                          /\ model'[n].query = model[n].query
                                          /\ model'[n].identifiers = model[n].identifiers
    PROVE  FilterInv'
  <1>1. TermInv' BY DEF FilterInv, TermInv
  <1>2. ASSUME NEW n \in Models, Quiet(n)' PROVE Filters(n)'
    <2>1. Quiet(n) /\ Filters(n) BY <1>2 DEF FilterInv
    <2>2. /\ model'[n].query = model[n].query /\ model'[n].identifiers = model[n].identifiers
          /\ backend'[n].term = backend[n].term
      BY <1>2
    <2> QED BY <2>1, <2>2 DEF Filters, Parses
  <1> QED BY <1>1, <1>2 DEF FilterInv

\* A step that gives the model m another term, or none, and deletes the old one.
LEMMA NewTermKeeps ==
    ASSUME FilterInv, BackendShape', NEW m \in Models, NEW t, NEW q,
           t = NoTerm \/ (t \in Unused /\ q # Freed),
           \A u \in Terms : heap'[u] = IF u = t THEN q
                                       ELSE IF u = model[m].term THEN Freed ELSE heap[u],
           backend'[m].term = t, model'[m].term = t,
           \A n \in Models \ {m} : /\ backend'[n].term = backend[n].term
                                   /\ model'[n] = model[n]
                                   /\ events'[n] = events[n],
           LifeInv', Quiet(m)' => Filters(m)'
    PROVE  FilterInv'
  <1> DEFINE old == backend[m].term
  <1>1. /\ old = model[m].term
        /\ old # NoTerm => old \in Terms
        /\ \A n \in Models \ {m} : backend[n].term # NoTerm =>
                /\ backend[n].term \in Terms /\ heap[backend[n].term] # Freed
                /\ backend[n].term # old /\ backend[n].term # t
    BY DEF FilterInv, TermInv, Unused
  <1>2. t # NoTerm => t \in Terms BY DEF Unused
  <1>3. \A n \in Models \ {m} : backend[n].term # NoTerm => heap'[backend[n].term] = heap[backend[n].term]
    BY <1>1
  <1>4. TermInv'
    <2>1. \A n \in Models : backend'[n].term = model'[n].term BY <1>1 DEF FilterInv, TermInv
    <2>2. \A n \in Models : backend'[n].term # NoTerm =>
              backend'[n].term \in Terms /\ heap'[backend'[n].term] # Freed
      <3>1. t # NoTerm => t \in Terms /\ heap'[t] # Freed BY <1>2
      <3> QED BY <1>1, <1>3, <3>1
    <2>3. \A n, o \in Models : n # o /\ backend'[n].term = backend'[o].term => backend'[n].term = NoTerm
      BY <1>1 DEF FilterInv, TermInv
    <2>4. \A u \in Terms : heap'[u] # Freed => \E n \in Models : backend'[n].term = u
      <3> SUFFICES ASSUME NEW u \in Terms, heap'[u] # Freed PROVE \E n \in Models : backend'[n].term = u
        OBVIOUS
      <3>1. CASE u = t BY <3>1
      <3>2. CASE u # t
        <4>1. u # old /\ heap[u] # Freed BY <1>1, <3>2
        <4>2. PICK n \in Models : backend[n].term = u BY <4>1 DEF FilterInv, TermInv
        <4> QED BY <4>1, <4>2
      <3> QED BY <3>1, <3>2
    <2> QED BY <2>1, <2>2, <2>3, <2>4 DEF TermInv
  <1>5. ASSUME NEW n \in Models \ {m}, Quiet(n)' PROVE Filters(n)'
    <2>1. Quiet(n) BY <1>5 DEF Quiet
    <2>2. Filters(n) BY <2>1 DEF FilterInv
    <2>3. model'[n] = model[n] /\ backend'[n].term = backend[n].term OBVIOUS
    <2> QED BY <1>3, <2>2, <2>3 DEF Filters, Parses
  <1> QED BY <1>4, <1>5 DEF FilterInv

\* A step that deletes the term of m.
LEMMA NoTermKeeps ==
    ASSUME FilterInv, BackendShape', NEW m \in Models,
           \A u \in Terms : heap'[u] = IF u = model[m].term THEN Freed ELSE heap[u],
           backend'[m].term = NoTerm, model'[m].term = NoTerm,
           \A n \in Models \ {m} : /\ backend'[n].term = backend[n].term
                                   /\ model'[n] = model[n]
                                   /\ events'[n] = events[n],
           LifeInv', ~Quiet(m)'
    PROVE  FilterInv'
  <1>1. \A u \in Terms : heap'[u] = IF u = NoTerm THEN NoQuery
                                    ELSE IF u = model[m].term THEN Freed ELSE heap[u]
    BY BrowseAssumption
  <1> QED BY <1>1, NewTermKeeps

\* updateContentType() leaves the terms, and a model that is told again has not
\* been told everything.
LEMMA UpdateKeepsFilter ==
    ASSUME ShowInv, FilterInv, NEW m \in Models, NEW ct, UpdateContentType(m, ct), heap' = heap
    PROVE  FilterInv'
  <1>1. Shape /\ BackendShape BY DEF ShowInv, FilterInv
  <1>2. ResetModel(m, ct) BY DEF UpdateContentType
  <1>3. /\ BackendShape'
        /\ \A n \in Models : backend'[n].term = backend[n].term
        /\ \A n \in Models \ {m} : events'[n] = events[n]
        /\ ~model[m].attached => events'[m] = events[m]
        /\ model[m].attached => events'[m] # <<>>
    BY <1>1, <1>2, ResetModelKeepsTerms, ResetModelAnswers
  <1>4. /\ \A n \in Models \ {m} : model'[n] = model[n]
        /\ model'[m].alive = model[m].alive /\ model'[m].attached = model[m].attached
        /\ model'[m].term = model[m].term /\ model'[m].query = NoQuery
    BY <1>1, UpdateFields
  <1>5. LifeInv' BY <1>3, <1>4, BrowseAssumption DEF LifeInv, FilterInv
  <1>6. \A n \in Models : Quiet(n)' => Quiet(n) /\ model'[n] = model[n]
    BY <1>3, <1>4 DEF Quiet
  <1> QED BY <1>3, <1>4, <1>5, <1>6, SameTermsKeep

\* The application's calls, and the backend that fills a page.
LEMMA CallsKeepFilter ==
    ASSUME ShowInv, FilterInv, NEW m \in Models, NEW q \in Queries, NEW ct, NEW i,
           \/ FetchMore(m) \/ Reload(m) \/ SetQuery(m, q) \/ SetContentType(m, ct)
           \/ GoBack(m) \/ GoForward(m, i)
    PROVE  FilterInv'
  <1>1. Shape /\ BackendShape BY DEF ShowInv, FilterInv
  <1>2. CASE FetchMore(m)
    <2>1. IsModel(model[m]) BY <1>1 DEF Shape
    <2>2. /\ IsModel(Fetched(model[m], backend[m]))
          /\ \A f \in ModelFields \ PageFields : Fetched(model[m], backend[m])[f] = model[m][f]
      BY <2>1, FetchedFields
    <2>3. model' = [model EXCEPT ![m] = Fetched(model[m], backend[m])]
          /\ UNCHANGED <<heap, backend, events>>
      BY <1>2 DEF FetchMore
    <2>4. \A n \in Models : \A f \in ModelFields \ PageFields : model'[n][f] = model[n][f]
      BY <1>1, <2>2, <2>3 DEF Shape
    <2>5. \A n \in Models :
            /\ model'[n].alive = model[n].alive /\ model'[n].attached = model[n].attached
            /\ model'[n].query = model[n].query /\ model'[n].identifiers = model[n].identifiers
            /\ model'[n].term = model[n].term
      BY <2>4 DEF ModelFields, PageFields
    <2>6. LifeInv' BY <2>3, <2>5 DEF LifeInv, FilterInv
    <2>7. \A n \in Models : Quiet(n)' => Quiet(n) BY <2>3, <2>5 DEF Quiet
    <2>8. BackendShape' BY <1>1, <2>3 DEF BackendShape
    <2> QED BY <2>3, <2>5, <2>6, <2>7, <2>8, SameTermsKeep
  <1>3. CASE Reload(m) \/ SetQuery(m, q)
    <2>1. ResetModel(m, model[m].requested) /\ heap' = heap
      BY <1>3 DEF Reload, SetQuery
    <2>2. /\ \A n \in Models \ {m} : model'[n] = model[n]
          /\ model'[m].alive = model[m].alive /\ model'[m].attached = model[m].attached
          /\ model'[m].term = model[m].term /\ model'[m].query \in Queries
          /\ model[m].attached \/ model'[m].attached = model[m].attached
      <3>1. CASE Reload(m) BY <3>1 DEF Reload, FilterInv, LifeInv
      <3>2. CASE SetQuery(m, q)
        <4>1. model' = [model EXCEPT ![m].query = q] BY <3>2 DEF SetQuery
        <4> QED BY <1>1, <4>1 DEF Shape, IsModel, ModelFields
      <3> QED BY <1>3, <3>1, <3>2
    <2>3. /\ BackendShape'
          /\ \A n \in Models : backend'[n].term = backend[n].term
          /\ \A n \in Models \ {m} : events'[n] = events[n]
          /\ ~model[m].attached => events'[m] = events[m]
          /\ model[m].attached => events'[m] # <<>>
      BY <1>1, <2>1, ResetModelKeepsTerms, ResetModelAnswers
    <2>4. LifeInv' BY <2>2, <2>3 DEF LifeInv, FilterInv
    <2>5. \A n \in Models : Quiet(n)' => Quiet(n) /\ model'[n] = model[n]
      BY <2>2, <2>3 DEF Quiet
    <2> QED BY <2>1, <2>2, <2>3, <2>4, <2>5, SameTermsKeep
  <1>4. CASE SetContentType(m, ct) /\ IsNews(m, ct)
    BY <1>4, UpdateKeepsFilter DEF SetContentType
  <1>5. CASE \/ SetContentType(m, ct) /\ ~IsNews(m, ct)
             \/ GoBack(m) \/ GoForward(m, i)
    <2>1. UNCHANGED <<model, heap, backend, events>>
      BY <1>5 DEF SetContentType, GoBack, GoForward
    <2> QED BY <2>1 DEF FilterInv, BackendShape, TermInv, LifeInv, Quiet, Filters, Parses
  <1> QED BY <1>2, <1>3, <1>4, <1>5

\* Navigations.
LEMMA NavigationKeepsFilter ==
    ASSUME ShowInv, FilterInv,
           \/ \E i \in 1..Len(replies) : Navigate(i)
           \/ \E m, new \in Models : \E i : GoForwardInto(m, i, new)
    PROVE  FilterInv'
  <1>1. Shape /\ BackendShape BY DEF ShowInv, FilterInv
  <1>2. ASSUME NEW i \in 1..Len(replies), Navigate(i) PROVE FilterInv'
    <2> DEFINE n == replies[i].model
    <2>1. n \in Models BY DEF ShowInv, RepliesAreForModels
    <2>2. heap' = heap
          /\ (UNCHANGED <<model, backend, events>> \/ UpdateContentType(n, replies[i].type))
      BY <1>2 DEF Navigate
    <2>3. CASE UNCHANGED <<model, backend, events>>
      BY <2>2, <2>3 DEF FilterInv, BackendShape, TermInv, LifeInv, Quiet, Filters, Parses
    <2>4. CASE UpdateContentType(n, replies[i].type)
      BY <2>1, <2>2, <2>4, UpdateKeepsFilter
    <2> QED BY <2>2, <2>3, <2>4
  <1>3. ASSUME NEW m \in Models, NEW new \in Models, NEW i, GoForwardInto(m, i, new)
        PROVE  FilterInv'
    <2>1. /\ ~model[new].alive /\ heap' = heap
          /\ model' = [model EXCEPT ![new].alive = TRUE, ![new].attached = TRUE]
          /\ backend' = [backend EXCEPT ![new].registered = TRUE]
          /\ events' = [events EXCEPT ![new] = Answers(NoType)]
      BY <1>3 DEF GoForwardInto
    <2>2. /\ \A n \in Models : /\ model'[n].query = model[n].query
                               /\ model'[n].identifiers = model[n].identifiers
                               /\ model'[n].term = model[n].term
          /\ \A n \in Models \ {new} : model'[n] = model[n] /\ events'[n] = events[n]
          /\ model'[new].alive = TRUE /\ model'[new].attached = TRUE
      BY <1>1, <2>1 DEF Shape, IsModel, ModelFields
    <2>3. BackendShape' /\ \A n \in Models : backend'[n].term = backend[n].term
      BY <1>1, <2>1 DEF BackendShape, BackendFields
    <2>4. events'[new] # <<>>
      <3>1. events'[new] = Answers(NoType) BY <1>1, <2>1 DEF Shape
      <3>2. IsSignals(<<>>) BY DEF IsSignals
      <3> QED BY <3>1, <3>2, AnswersEnd
    <2>5. LifeInv' BY <2>2 DEF LifeInv, FilterInv
    <2>6. \A n \in Models : Quiet(n)' => Quiet(n) BY <2>2, <2>4 DEF Quiet
    <2> QED BY <2>1, <2>2, <2>3, <2>5, <2>6, SameTermsKeep
  <1> QED BY <1>2, <1>3

\* Connecting, leaving and destroying a model: none with a filter is destroyed.
LEMMA LifeKeepsFilter ==
    ASSUME ~ModelsGo, ShowInv, FilterInv, NEW m \in Models, Attach(m) \/ Detach(m) \/ Destroy(m)
    PROVE  FilterInv'
  <1>1. Shape /\ BackendShape BY DEF ShowInv, FilterInv
  <1>2. NoQuery \in Queries /\ NoTerm \notin Terms BY BrowseAssumption
  <1>3. /\ DOMAIN Unregistered = BackendFields /\ Unregistered.term = NoTerm
        /\ \A ct : LET b == [Unregistered EXCEPT !.registered = TRUE, !.type = ct]
                   IN  DOMAIN b = BackendFields /\ b.term = NoTerm
    BY DEF Unregistered, BackendFields
  <1>4. CASE Attach(m)
    <2>1. /\ model[m].alive /\ ~model[m].attached /\ heap' = heap
          /\ model' = [model EXCEPT ![m].attached = TRUE]
          /\ events' = [events EXCEPT ![m] = Answers(model[m].requested)]
          /\ backend' = [backend EXCEPT ![m] = [Unregistered EXCEPT !.registered = TRUE,
                                                              !.type = model[m].requested]]
      BY <1>4 DEF Attach
    <2>2. /\ \A n \in Models : /\ model'[n].query = model[n].query
                               /\ model'[n].identifiers = model[n].identifiers
                               /\ model'[n].term = model[n].term
                               /\ model'[n].alive = model[n].alive
          /\ \A n \in Models \ {m} : model'[n] = model[n] /\ events'[n] = events[n]
          /\ model'[m].attached = TRUE
      BY <1>1, <2>1 DEF Shape, IsModel, ModelFields
    <2>3. backend[m].term = NoTerm BY <2>1 DEF FilterInv, TermInv, LifeInv
    <2>4. BackendShape' /\ \A n \in Models : backend'[n].term = backend[n].term
      BY <1>1, <1>3, <2>1, <2>3 DEF BackendShape
    <2>5. events'[m] # <<>>
      <3>1. events'[m] = Answers(model[m].requested) BY <1>1, <2>1 DEF Shape
      <3>2. IsSignals(<<>>) BY DEF IsSignals
      <3> QED BY <3>1, <3>2, AnswersEnd
    <2>6. LifeInv' BY <2>1, <2>2 DEF LifeInv, FilterInv
    <2>7. \A n \in Models : Quiet(n)' => Quiet(n) BY <2>2, <2>5 DEF Quiet
    <2> QED BY <2>1, <2>2, <2>4, <2>6, <2>7, SameTermsKeep
  <1>5. CASE Detach(m)
    <2> DEFINE d == [NewModel EXCEPT !.alive = TRUE, !.identifiers = model[m].identifiers]
    <2>1. /\ backend' = [backend EXCEPT ![m] = Unregistered]
          /\ heap' = Freeing(model[m].term)
          /\ model' = [model EXCEPT ![m] = d] /\ events' = [events EXCEPT ![m] = <<>>]
      BY <1>5 DEF Detach
    <2>2. d.alive = TRUE /\ d.attached = FALSE /\ d.term = NoTerm /\ d.query = NoQuery
      BY DEF NewModel
    <2> HIDE DEF d
    <2>3. /\ \A n \in Models \ {m} : /\ model'[n] = model[n] /\ events'[n] = events[n]
                                     /\ backend'[n].term = backend[n].term
          /\ model'[m] = d /\ events'[m] = <<>> /\ backend'[m].term = NoTerm
      BY <1>1, <1>3, <2>1 DEF Shape, BackendShape
    <2>4. BackendShape' BY <1>1, <1>3, <2>1 DEF BackendShape
    <2>5. LifeInv' BY <1>2, <2>2, <2>3 DEF LifeInv, FilterInv
    <2>6. \A u \in Terms : heap'[u] = IF u = model[m].term THEN Freed ELSE heap[u]
      BY <1>2, <2>1 DEF Freeing
    <2>7. ~Quiet(m)' BY <2>2, <2>3 DEF Quiet
    <2>8. model'[m].term = NoTerm BY <2>2, <2>3
    <2> QED BY <2>3, <2>4, <2>5, <2>6, <2>7, <2>8, NoTermKeeps
  <1>6. CASE Destroy(m)
    <2>1. /\ model[m].term = NoTerm /\ UNCHANGED backend /\ heap' = Freeing(model[m].term)
          /\ model' = [model EXCEPT ![m] = NewModel] /\ events' = [events EXCEPT ![m] = <<>>]
      BY <1>6 DEF Destroy
    <2>2. NewModel.attached = FALSE /\ NewModel.term = NoTerm /\ NewModel.query = NoQuery
      BY DEF NewModel
    <2>3. /\ \A n \in Models \ {m} : /\ model'[n] = model[n] /\ events'[n] = events[n]
                                     /\ backend'[n].term = backend[n].term
          /\ model'[m] = NewModel /\ events'[m] = <<>>
      BY <1>1, <2>1 DEF Shape
    <2>4. backend'[m].term = NoTerm BY <2>1 DEF FilterInv, TermInv
    <2>5. BackendShape' BY <1>1, <2>1 DEF BackendShape
    <2>6. LifeInv' BY <1>2, <2>2, <2>3 DEF LifeInv, FilterInv
    <2>7. \A u \in Terms : heap'[u] = IF u = model[m].term THEN Freed ELSE heap[u]
      BY <1>2, <2>1 DEF Freeing
    <2>8. ~Quiet(m)' BY <2>2, <2>3 DEF Quiet
    <2>9. model'[m].term = NoTerm BY <2>2, <2>3
    <2> QED BY <2>3, <2>4, <2>5, <2>6, <2>7, <2>8, <2>9, NoTermKeeps
  <1> QED BY <1>4, <1>5, <1>6

\* A term that is made is one that is not in use.
LEMMA UnusedTerm ==
    ASSUME FilterInv
    PROVE  (CHOOSE t \in Unused : TRUE) \in Unused
  <1> DEFINE f == [m \in Models |-> backend[m].term]
  <1>1. f \in [Models -> Terms \cup {NoTerm}] BY DEF FilterInv, TermInv
  <1>2. PICK t \in Terms : \A m \in Models : f[m] # t BY <1>1, TermsAssumption
  <1>3. \A m \in Models : backend[m].term # t BY <1>2
  <1>4. heap[t] = Freed BY <1>3 DEF FilterInv, TermInv
  <1>5. t \in Unused BY <1>3, <1>4 DEF Unused
  <1> QED BY <1>5

\* parseQuery() for a model that is told its content type: the backend comes to
\* filter by the query, or a query that is not understood leaves the old term.
LEMMA ParseQuerySets ==
    ASSUME FilterInv, NEW m \in Models, ParseQuery(m, model[m])
    PROVE  /\ BackendShape'
           /\ \A n \in Models \ {m} : backend'[n] = backend[n]
           /\ \/ /\ UNCHANGED <<backend, heap>> /\ model[m].query # NoQuery
                 /\ ~("filter" \in Capabilities /\ Parses(model[m].query, model[m].identifiers))
              \/ \E t : /\ \/ t = NoTerm /\ model[m].query = NoQuery
                           \/ t \in Unused /\ model[m].query # NoQuery
                        /\ backend'[m].term = t
                        /\ \A u \in Terms : heap'[u] = IF u = t THEN model[m].query
                                       ELSE IF u = model[m].term THEN Freed ELSE heap[u]
  <1>1. BackendShape BY DEF FilterInv
  <1> DEFINE q == model[m].query
  <1>2. ASSUME NEW t, SetupFilter(m, t, q)
        PROVE  /\ BackendShape' /\ \A n \in Models \ {m} : backend'[n] = backend[n]
               /\ backend'[m].term = t
               /\ \A u \in Terms : heap'[u] = IF u = t THEN q
                                       ELSE IF u = model[m].term THEN Freed ELSE heap[u]
    BY <1>1, <1>2 DEF SetupFilter, Freeing, BackendShape, BackendFields
  <1>3. CASE q = NoQuery
    <2>1. SetupFilter(m, NoTerm, q) BY <1>3 DEF ParseQuery
    <2> QED BY <1>2, <1>3, <2>1
  <1>4. CASE q # NoQuery /\ "filter" \in Capabilities /\ Parses(q, model[m].identifiers)
    <2> DEFINE t == CHOOSE x \in Unused : TRUE
    <2>1. SetupFilter(m, t, q) BY <1>4 DEF ParseQuery
    <2>2. t \in Unused BY UnusedTerm
    <2> HIDE DEF t
    <2> QED BY <1>2, <1>4, <2>1, <2>2
  <1>5. CASE q # NoQuery /\ ~("filter" \in Capabilities /\ Parses(q, model[m].identifiers))
    <2>1. UNCHANGED <<backend, heap>> BY <1>5 DEF ParseQuery
    <2> QED BY <1>1, <1>5, <2>1 DEF BackendShape
  <1> QED BY <1>3, <1>4, <1>5

\* The content type arrives: from then on the backend filters by the query.
LEMMA TypeKeepsFilter ==
    ASSUME ShowInv, FilterInv, NEW m \in Models, NEW ct, OnContentTypeChanged(m, ct),
           events[m] # <<>>, events' = [events EXCEPT ![m] = Tail(@)]
    PROVE  FilterInv'
  <1>1. Shape /\ BackendShape BY DEF ShowInv, FilterInv
  <1> DEFINE d == [model[m] EXCEPT !.type = ct]
             r == Reset(d, backend'[m])
             new == [r EXCEPT !.term = backend'[m].term]
  <1>2. ParseQuery(m, model[m]) /\ model' = [model EXCEPT ![m] = new]
    BY DEF OnContentTypeChanged
  <1>3. IsModel(d) /\ \A f \in ModelFields \ {"type"} : d[f] = model[m][f]
    BY <1>1 DEF Shape, IsModel, ModelFields
  <1> HIDE DEF d
  <1>4. IsModel(r) /\ \A f \in ModelFields \ PageFields : r[f] = d[f]
    BY <1>3, ResetFields
  <1> HIDE DEF r
  <1>5. /\ new.term = backend'[m].term
        /\ new.alive = model[m].alive /\ new.attached = model[m].attached
        /\ new.query = model[m].query /\ new.identifiers = model[m].identifiers
    BY <1>3, <1>4 DEF IsModel, ModelFields, PageFields
  <1> HIDE DEF new
  <1>6. /\ \A n \in Models \ {m} : model'[n] = model[n] /\ events'[n] = events[n]
        /\ model'[m] = new
    BY <1>1, <1>2 DEF Shape
  <1>7. model[m].alive /\ model[m].attached BY DEF FilterInv, LifeInv
  <1>8. LifeInv' BY <1>5, <1>6, <1>7 DEF LifeInv, FilterInv
  <1>9. BackendShape' /\ \A n \in Models \ {m} : backend'[n] = backend[n]
    BY <1>2, ParseQuerySets
  <1>10. CASE /\ UNCHANGED <<backend, heap>> /\ model[m].query # NoQuery
              /\ ~("filter" \in Capabilities /\ Parses(model[m].query, model[m].identifiers))
    <2>1. backend'[m].term = model[m].term /\ model'[m].term = model[m].term
      BY <1>5, <1>6, <1>10 DEF FilterInv, TermInv
    <2>2. TermInv' BY <1>6, <1>10, <2>1 DEF TermInv, FilterInv
    <2>3. Filters(m)' BY <1>5, <1>6, <1>10 DEF Filters, Parses
    <2>4. \A n \in Models \ {m} : Quiet(n)' => Filters(n)'
      <3>1. ASSUME NEW n \in Models \ {m}, Quiet(n)' PROVE Filters(n)'
        <4>1. Quiet(n) BY <1>6, <3>1 DEF Quiet
        <4>2. Filters(n) BY <4>1 DEF FilterInv
        <4>3. model'[n] = model[n] BY <1>6
        <4> QED BY <1>10, <4>2, <4>3 DEF Filters, Parses
      <3> QED BY <3>1
    <2> QED BY <1>8, <1>9, <2>2, <2>3, <2>4 DEF FilterInv
  <1>11. ASSUME NEW t, (t = NoTerm /\ model[m].query = NoQuery)
                       \/ (t \in Unused /\ model[m].query # NoQuery),
                backend'[m].term = t,
                \A u \in Terms : heap'[u] = IF u = t THEN model[m].query
                                       ELSE IF u = model[m].term THEN Freed ELSE heap[u]
         PROVE  FilterInv'
    <2>1. model[m].query # Freed BY BrowseAssumption DEF FilterInv, LifeInv
    <2>2. model'[m].term = t BY <1>5, <1>6, <1>11
    <2>3. Filters(m)' BY <1>5, <1>6, <1>11, BrowseAssumption DEF Filters, Unused
    <2>4. \A n \in Models \ {m} : backend'[n].term = backend[n].term BY <1>9
    <2>5. t = NoTerm \/ (t \in Unused /\ model[m].query # Freed) BY <1>11, <2>1
    <2>6. Quiet(m)' => Filters(m)' BY <2>3
    <2>7. \A n \in Models \ {m} : /\ backend'[n].term = backend[n].term
                                  /\ model'[n] = model[n]
                                  /\ events'[n] = events[n]
      BY <1>6, <2>4
    <2>8. \E q : /\ t = NoTerm \/ (t \in Unused /\ q # Freed)
                 /\ \A u \in Terms : heap'[u] = IF u = t THEN q
                                       ELSE IF u = model[m].term THEN Freed ELSE heap[u]
      BY <1>11, <2>5
    <2>9. BackendShape' /\ backend'[m].term = t BY <1>9, <1>11
    <2> QED BY <1>8, <2>2, <2>6, <2>7, <2>8, <2>9, NewTermKeeps
  <1> QED BY <1>2, <1>10, <1>11, ParseQuerySets

\* What else is told is never the last thing that is told.
LEMMA DeliverKeepsFilter ==
    ASSUME ShowInv, FilterInv, NEW m \in Models, Deliver(m)
    PROVE  FilterInv'
  <1> DEFINE e == Head(events[m])
  <1>1. Shape /\ BackendShape BY DEF ShowInv, FilterInv
  <1>2. events[m] # <<>> /\ events' = [events EXCEPT ![m] = Tail(@)] BY DEF Deliver
  <1>3. CASE e.kind = "contentType"
    <2>1. OnContentTypeChanged(m, e.type) BY <1>3 DEF Deliver
    <2> QED BY <1>2, <2>1, TypeKeepsFilter
  <1>4. CASE e.kind # "contentType"
    <2>1. IsSignals(events[m]) BY <1>1 DEF Shape
    <2>2. e.kind \in Kinds /\ (Tail(events[m]) = <<>> => e = events[m][Len(events[m])])
      BY <1>2, <2>1, TailEnd
    <2>3. model[m].attached BY <1>2 DEF FilterInv, LifeInv
    <2>4. events[m][Len(events[m])].kind = "contentType"
      <3>1. LastIsAsked(m) BY <2>3 DEF ShowInv
      <3>2. events[m][Len(events[m])] = Told("contentType", model[m].requested)
        BY <1>2, <3>1 DEF LastIsAsked
      <3> QED BY <3>2 DEF Told
    <2>5. events'[m] # <<>> BY <1>1, <1>2, <1>4, <2>2, <2>4 DEF Shape
    <2>6. heap' = heap /\ backend' = backend BY <1>4, <2>2 DEF Deliver, Kinds
    <2>7. /\ \A n \in Models \ {m} : model'[n] = model[n] /\ events'[n] = events[n]
          /\ model'[m].alive = model[m].alive /\ model'[m].attached = model[m].attached
          /\ model'[m].query = model[m].query /\ model'[m].term = model[m].term
      <3>1. CASE e.kind = "canGoBack"
        <4>1. model' = [model EXCEPT ![m].canGoBack = TRUE] BY <3>1 DEF Deliver
        <4> QED BY <1>1, <1>2, <4>1 DEF Shape, IsModel, ModelFields
      <3>2. CASE e.kind = "identifiers"
        <4>1. PICK x : model' = [model EXCEPT ![m].identifiers = x] BY <3>2 DEF Deliver
        <4> QED BY <1>1, <1>2, <4>1 DEF Shape, IsModel, ModelFields
      <3> QED BY <1>4, <2>2, <3>1, <3>2 DEF Kinds
    <2>8. LifeInv' BY <2>3, <2>7 DEF LifeInv, FilterInv
    <2>9. \A n \in Models : Quiet(n)' => Quiet(n) /\ model'[n] = model[n]
      BY <2>5, <2>7 DEF Quiet
    <2>10. BackendShape' BY <1>1, <2>6 DEF BackendShape
    <2> QED BY <2>6, <2>7, <2>8, <2>9, <2>10, SameTermsKeep
  <1> QED BY <1>3, <1>4

\* The invariant of the terms holds initially.
LEMMA FilterInit == Init => FilterInv
  <1> SUFFICES ASSUME Init PROVE FilterInv OBVIOUS
  <1>1. \A m \in Models : model[m] = [NewModel EXCEPT !.alive = (m = Root)] BY DEF Init
  <1>2. \A m \in Models : model[m].attached = FALSE /\ model[m].term = NoTerm /\ model[m].query = NoQuery
    BY <1>1 DEF NewModel
  <1>3. LifeInv BY <1>2, BrowseAssumption DEF Init, LifeInv
  <1>4. \A m \in Models : backend[m] = Unregistered BY DEF Init
  <1>5. BackendShape BY DEF Init, BackendShape, BackendFields, Unregistered
  <1>6. TermInv BY <1>2, <1>4 DEF Init, TermInv, Unregistered
  <1> QED BY <1>2, <1>3, <1>5, <1>6 DEF FilterInv, Quiet

\* Every step keeps the invariant of the terms.
LEMMA FilterStep ==
    ASSUME ~ModelsGo, ShowInv, FilterInv, [Next]_vars
    PROVE  FilterInv'
  <1>1. CASE UNCHANGED vars
    BY <1>1 DEF vars, FilterInv, BackendShape, TermInv, LifeInv, Quiet, Filters, Parses
  <1>2. ASSUME NEW m \in Models, NEW q \in Queries, NEW ct, NEW i,
               \/ FetchMore(m) \/ Reload(m) \/ SetQuery(m, q) \/ SetContentType(m, ct)
               \/ GoBack(m) \/ GoForward(m, i)
        PROVE  FilterInv'
    BY <1>2, CallsKeepFilter
  <1>3. NoQuery \in Queries BY BrowseAssumption
  <1>4. ASSUME \/ \E i \in 1..Len(replies) : Navigate(i)
               \/ \E m, new \in Models : \E i : GoForwardInto(m, i, new)
        PROVE  FilterInv'
    BY <1>4, NavigationKeepsFilter
  <1>5. ASSUME NEW m \in Models, Attach(m) \/ Detach(m) \/ Destroy(m) PROVE FilterInv'
    BY <1>5, LifeKeepsFilter
  <1>6. ASSUME NEW m \in Models, Deliver(m) PROVE FilterInv' BY <1>6, DeliverKeepsFilter
  <1> QED BY <1>1, <1>2, <1>3, <1>4, <1>5, <1>6 DEF Next

\* If no model with a filter is destroyed, a backend that has told everything
\* filters by the query of its model, and no backend ever holds a term that has
\* been deleted (parseQuery() and setupFilter(), qiffilterandbrowsemodel.cpp).
THEOREM FilterRight == ~ModelsGo => (Spec => []FilterIsRight)
  <1> SUFFICES ASSUME ~ModelsGo PROVE Spec => []FilterIsRight OBVIOUS
  <1>1. ShowInv /\ FilterInv => FilterIsRight
    BY DEF FilterInv, TermInv, Filters, FilterIsRight, FilterIsTheQuery, TermIsAlive
  <1>2. ShowInv /\ FilterInv /\ [Next]_vars => FilterInv'
    BY FilterStep
  <1> QED BY <1>1, <1>2, ShowInit, ShowStep, FilterInit, PTL DEF Spec

-----------------------------------------------------------------------------
(* The rows are those of the content type and the filter *)

RowSet == DOMAIN Child
HasChild(r) == Child[r] # NoChild

Begins(p, q) == Len(p) <= Len(q) /\ \A i \in 1..Len(p) : p[i] = q[i]

\* What canGoForward() needs to know of the rows
Knows(forward, rows) ==
    /\ Len(rows) <= Len(forward)
    /\ \A i \in 1..Len(rows) : forward[i] = HasChild(rows[i])


\* What a content type has that passes a filter are rows.
LEMMA ContentTyped ==
    ASSUME NEW ct \in Types, NEW t, NEW h
    PROVE  Content(ct, t, h) \in Seq(RowSet)
  <1>1. CASE ct = NoType BY <1>1 DEF Content
  <1>2. CASE ct # NoType
    <2>1. Rows[ct] \in Seq(RowSet) BY <1>2, BrowseAssumption DEF Types, RowSet
    <2>2. Chosen(Rows[ct], Passing(t, h)) \in Seq(RowSet \cap Passing(t, h))
      BY <2>1, ChosenEntries
    <2> DEFINE q == Chosen(Rows[ct], Passing(t, h))
               P == RowSet \cap Passing(t, h)
    <2>3. P \subseteq RowSet OBVIOUS
    <2>4. q \in Seq(P) BY <2>2
    <2> HIDE DEF q, P
    <2>5. q \in Seq(RowSet) BY <2>3, <2>4
    <2> QED BY <1>2, <2>5 DEF Content, q
  <1> QED BY <1>1, <1>2

\* What onCanGoForwardChanged() makes of what is known: a value per row, those of
\* the page, and those there were before it.
LEMMA ForwardIs ==
    ASSUME NEW list \in Seq(BOOLEAN), NEW start \in Nat, NEW page \in Seq(RowSet)
    PROVE  LET n == start + Len(page)
               f == ForwardWith(list, n, page, start)
           IN  /\ f \in Seq(BOOLEAN) /\ Len(f) = n
               /\ \A i \in 1..start : i <= Len(list) => f[i] = list[i]
               /\ \A i \in 1..Len(page) : f[start + i] = HasChild(page[i])
  <1> DEFINE n == start + Len(page)
             f == ForwardWith(list, n, page, start)
             here == start + 1 .. start + Len(page)
             old == Resized(list, n)
  <1>1. n \in Nat /\ Len(list) \in Nat /\ Len(page) \in Nat OBVIOUS
  <1>2. f = [i \in 1..n |-> IF i \in here THEN HasChild(page[i - start]) ELSE old[i]]
    BY DEF ForwardWith, HasChild
  <1>3. old = [i \in 1..n |-> IF i <= Len(list) THEN list[i] ELSE FALSE] BY DEF Resized
  <1> HIDE DEF old
  <1>4. \A i \in 1..n : old[i] \in BOOLEAN
    <2>1. ASSUME NEW i \in 1..n, i <= Len(list) PROVE old[i] = list[i] BY <1>3, <2>1, Zenon
    <2>2. ASSUME NEW i \in 1..n, ~(i <= Len(list)) PROVE old[i] = FALSE BY <1>3, <2>2, Zenon
    <2>3. \A i \in 1..n : i <= Len(list) => list[i] \in BOOLEAN BY <1>1
    <2> QED BY <2>1, <2>2, <2>3, Zenon
  <1>5. \A i \in 1..start : i <= Len(list) => old[i] = list[i]
    <2>1. \A i \in 1..start : i \in 1..n BY <1>1
    <2> QED BY <1>3, <2>1, Zenon
  <1>6. \A r : HasChild(r) \in BOOLEAN BY DEF HasChild
  <1> HIDE DEF here
  <1>7. ASSUME NEW i \in 1..n, i \in here PROVE f[i] = HasChild(page[i - start])
    BY <1>2, <1>7, Zenon
  <1>8. ASSUME NEW i \in 1..n, i \notin here PROVE f[i] = old[i]
    BY <1>2, <1>8, Zenon
  <1>9. \A i \in 1..n : f[i] \in BOOLEAN 
    BY <1>4, <1>6, <1>7, <1>8, Zenon
  <1>10. f \in [1..n -> BOOLEAN] BY <1>2, <1>9, Zenon
  <1> HIDE DEF f
  <1>11. f \in Seq(BOOLEAN) /\ Len(f) = n BY <1>1, <1>10
  <1>12. \A i \in 1..start : i <= Len(list) => f[i] = list[i]
    <2>1. \A i \in 1..start : i \in 1..n /\ i \notin here BY <1>1 DEF here
    <2> QED BY <1>5, <1>8, <2>1, Zenon
  <1>13. \A i \in 1..Len(page) : f[start + i] = HasChild(page[i])
    <2>1. \A i \in 1..Len(page) : start + i \in 1..n /\ start + i \in here /\ start + i - start = i
      BY <1>1 DEF here
    <2> HIDE DEF n
    <2>2. ASSUME NEW i \in 1..Len(page) PROVE f[start + i] = HasChild(page[i])
      <3>1. PICK k : k = start + i OBVIOUS
      <3>2. k - start = i BY <2>1, <3>1
      <3>3. f[k] = HasChild(page[k - start]) BY <1>7, <2>1, <3>1
      <3>4. f[k] = HasChild(page[i]) BY <3>2, <3>3, Zenon
      <3> QED BY <3>1, <3>4, Zenon
    <2> QED BY <2>2, Zenon
  <1> QED BY <1>11, <1>12, <1>13, Zenon DEF f

\* A page that follows the rows that are shown
LEMMA PageFollows ==
    ASSUME NEW all \in Seq(RowSet), NEW rows \in Seq(RowSet), NEW forward \in Seq(BOOLEAN),
           NEW end \in Nat, end <= Len(all)
    PROVE  LET start == Len(rows)
               page == SubSeq(all, start + 1, end)
               f == ForwardWith(forward, end, page, start)
           IN  page # <<>> =>
                 /\ rows \o page \in Seq(RowSet) /\ f \in Seq(BOOLEAN)
                 /\ Begins(rows, all) => Begins(rows \o page, all)
                 /\ Knows(forward, rows) => Knows(f, rows \o page)
  <1> DEFINE start == Len(rows)
             page == SubSeq(all, start + 1, end)
             f == ForwardWith(forward, end, page, start)
             r == rows \o page
  <1> SUFFICES ASSUME page # <<>>
               PROVE  /\ r \in Seq(RowSet) /\ f \in Seq(BOOLEAN)
                      /\ Begins(rows, all) => Begins(r, all)
                      /\ Knows(forward, rows) => Knows(f, r)
    OBVIOUS
  <1>1. start \in Nat /\ Len(all) \in Nat /\ Len(forward) \in Nat OBVIOUS
  <1>2. page \in Seq(RowSet) BY <1>1
  <1>3. start < end BY <1>1
  <1>4. Len(page) = end - start /\ \A i \in 1..Len(page) : page[i] = all[start + i]
    BY <1>1, <1>3
  <1> HIDE DEF page
  <1>5. /\ r \in Seq(RowSet) /\ Len(r) = end
        /\ \A i \in 1..start : r[i] = rows[i]
        /\ \A i \in 1..Len(page) : r[start + i] = page[i]
    BY <1>1, <1>2, <1>3, <1>4
  <1> HIDE DEF r
  <1>6. end = start + Len(page) BY <1>1, <1>4
  <1>7. /\ f \in Seq(BOOLEAN) /\ Len(f) = end
        /\ \A i \in 1..start : i <= Len(forward) => f[i] = forward[i]
        /\ \A i \in 1..Len(page) : f[start + i] = HasChild(page[i])
    BY <1>1, <1>2, <1>6, ForwardIs
  <1> HIDE DEF f
  <1>8. \A i \in 1..end : i \in 1..start \/ (i - start \in 1..Len(page) /\ start + (i - start) = i)
    BY <1>1, <1>3, <1>4
  <1>9. ASSUME Begins(rows, all) PROVE Begins(r, all)
    <2>1. ASSUME NEW i \in 1..Len(r) PROVE r[i] = all[i]
      <3>1. CASE i \in 1..start BY <1>5, <1>9, <3>1 DEF Begins
      <3>2. CASE i - start \in 1..Len(page) /\ start + (i - start) = i
        <4>1. r[start + (i - start)] = page[i - start] /\ page[i - start] = all[start + (i - start)]
          BY <1>4, <1>5, <3>2
        <4> QED BY <3>2, <4>1
      <3> QED BY <1>5, <1>8, <3>1, <3>2
    <2> QED BY <1>5, <2>1 DEF Begins
  <1>10. ASSUME Knows(forward, rows) PROVE Knows(f, r)
    <2>1. ASSUME NEW i \in 1..Len(r) PROVE f[i] = HasChild(r[i])
      <3>1. CASE i \in 1..start
        <4>1. i <= Len(forward) /\ forward[i] = HasChild(rows[i])
          BY <1>1, <1>10, <3>1 DEF Knows
        <4> QED BY <1>5, <1>7, <3>1, <4>1
      <3>2. CASE i - start \in 1..Len(page) /\ start + (i - start) = i
        <4>1. /\ r[start + (i - start)] = page[i - start]
              /\ f[start + (i - start)] = HasChild(page[i - start])
          BY <1>5, <1>7, <3>2
        <4> QED BY <3>2, <4>1
      <3> QED BY <1>5, <1>8, <3>1, <3>2
    <2> QED BY <1>5, <1>7, <2>1 DEF Knows
  <1> QED BY <1>5, <1>7, <1>9, <1>10

\* fetchData() and its answers: the rows that are shown go on with what the backend
\* has.
LEMMA FetchedPages ==
    ASSUME NEW d \in ModelState, NEW b, NEW all \in Seq(RowSet),
           all = Content(b.type, b.term, heap')
    PROVE  /\ Fetched(d, b) \in ModelState
           /\ Begins(d.rows, all) => Begins(Fetched(d, b).rows, all)
           /\ Knows(d.forward, d.rows) => Knows(Fetched(d, b).forward, Fetched(d, b).rows)
  <1> DEFINE start == Len(d.rows)
             end == IF start + ChunkSize < Len(all) THEN start + ChunkSize ELSE Len(all)
             page == SubSeq(all, start + 1, end)
             f == ForwardWith(d.forward, end, page, start)
             r == d.rows \o page
  <1>1. /\ d.rows \in Seq(RowSet) /\ d.forward \in Seq(BOOLEAN)
        /\ start \in Nat /\ Len(all) \in Nat
    BY DEF ModelState, RowSet
  <1>2. end \in Nat /\ end <= Len(all) BY <1>1, BrowseAssumption
  <1>3. (end < Len(all)) \in BOOLEAN OBVIOUS
  <1>4. page # <<>> =>
                 /\ r \in Seq(RowSet) /\ f \in Seq(BOOLEAN)
                 /\ Begins(d.rows, all) => Begins(r, all)
                 /\ Knows(d.forward, d.rows) => Knows(f, r)
    <2> HIDE DEF end
    <2> QED BY <1>1, <1>2, PageFollows
  <1>5. Fetched(d, b) = IF page = <<>> THEN [d EXCEPT !.more = FALSE]
                        ELSE [d EXCEPT !.rows = r, !.more = end < Len(all), !.forward = f]
    BY DEF Fetched
  <1> HIDE DEF page, r, f, end
  <1>6. CASE page = <<>>
    <2>1. Fetched(d, b) = [d EXCEPT !.more = FALSE] BY <1>5, <1>6
    <2>2. Fetched(d, b) \in ModelState BY <2>1 DEF ModelState
    <2>3. Fetched(d, b).rows = d.rows /\ Fetched(d, b).forward = d.forward
      BY <2>1 DEF ModelState
    <2> QED BY <2>2, <2>3
  <1>7. CASE page # <<>>
    <2>1. PICK more \in BOOLEAN : more = (end < Len(all)) BY <1>3
    <2>2. Fetched(d, b) = [d EXCEPT !.rows = r, !.more = more, !.forward = f] BY <1>5, <1>7, <2>1
    <2>3. r \in Seq(DOMAIN Child) /\ f \in Seq(BOOLEAN) BY <1>4, <1>7 DEF RowSet
    <2>4. Fetched(d, b) \in ModelState BY <2>1, <2>2, <2>3 DEF ModelState
    <2>5. Fetched(d, b).rows = r /\ Fetched(d, b).forward = f BY <2>2 DEF ModelState
    <2> QED BY <1>4, <1>7, <2>4, <2>5
  <1> QED BY <1>6, <1>7

\* So do they after a reset, which begins with none.
LEMMA ResetPages ==
    ASSUME NEW d \in ModelState, NEW b, NEW all \in Seq(RowSet),
           all = Content(b.type, b.term, heap')
    PROVE  /\ Reset(d, b) \in ModelState
           /\ Begins(Reset(d, b).rows, all)
           /\ Knows(Reset(d, b).forward, Reset(d, b).rows)
  <1> DEFINE e == [d EXCEPT !.rows = <<>>]
  <1>1. e \in ModelState /\ e.rows = <<>> /\ e.forward = d.forward
    <2> DEFINE S == Seq(DOMAIN Child)
               none == <<>>
    <2>1. none \in S OBVIOUS
    <2> HIDE DEF none
    <2>2. [d EXCEPT !.rows = none] \in ModelState BY <2>1 DEF ModelState
    <2>3. e = [d EXCEPT !.rows = none] BY DEF none
    <2>4. e.rows = none /\ e.forward = d.forward BY <2>3 DEF ModelState
    <2> QED BY <2>2, <2>3, <2>4 DEF none
  <1>2. Len(<<>>) = 0 OBVIOUS
  <1>3. d.forward \in Seq(BOOLEAN) /\ Len(d.forward) \in Nat /\ Len(all) \in Nat
    BY DEF ModelState
  <1> HIDE DEF e
  <1>4. Begins(e.rows, all) /\ Knows(e.forward, e.rows)
    BY <1>1, <1>2, <1>3 DEF Begins, Knows
  <1>5. Reset(d, b) = Fetched(e, b) BY DEF Reset, e
  <1> QED BY <1>1, <1>4, <1>5, FetchedPages

\* What is told and what is answered have their types.
Signals == [kind : Kinds, type : Types]
Answered == [model : Models, type : ContentTypes \cup {Failed}, new : BOOLEAN]
BackendState == [registered : BOOLEAN, type : Types, term : Terms \cup {NoTerm}]

TypedInv == TypeOK /\ events \in [Models -> Seq(Signals)] /\ replies \in Seq(Answered)

\* The answers of a backend are typed.
LEMMA AnswersTyped ==
    ASSUME NEW ct \in Types
    PROVE  Answers(ct) \in Seq(Signals)
  <1> DEFINE a == Told("canGoBack", ct)
             b == Told("identifiers", ct)
             c == Told("contentType", ct)
  <1>1. a \in Signals /\ b \in Signals /\ c \in Signals BY DEF Told, Signals, Kinds
  <1>2. PICK x \in {<<a>>, <<>>} : Answers(ct) = x \o <<b, c>> BY DEF Answers
  <1> HIDE DEF a, b, c
  <1>3. <<a>> \in Seq(Signals) /\ <<>> \in Seq(Signals) /\ <<b, c>> \in Seq(Signals) BY <1>1
  <1>4. x \in Seq(Signals) BY <1>3
  <1> DEFINE y == <<b, c>>
  <1>5. y \in Seq(Signals) BY <1>3
  <1> HIDE DEF y
  <1>6. x \o y \in Seq(Signals) BY <1>4, <1>5
  <1> QED BY <1>2, <1>6 DEF y

\* So is what a backend that is asked keeps and tells.
LEMMA ResetModelTyped ==
    ASSUME TypedInv, NEW m \in Models, NEW ct \in Types, ResetModel(m, ct)
    PROVE  backend' \in [Models -> BackendState] /\ events' \in [Models -> Seq(Signals)]
  <1>1. backend \in [Models -> BackendState] /\ events \in [Models -> Seq(Signals)]
    BY DEF TypedInv, TypeOK, BackendState
  <1>2. CASE ~model[m].attached BY <1>1, <1>2 DEF ResetModel
  <1>3. CASE model[m].attached
    <2>1. backend' = [backend EXCEPT ![m].type = ct] BY <1>3 DEF ResetModel
    <2>2. events' = [events EXCEPT ![m] = @ \o Answers(ct)] BY <1>3 DEF ResetModel
    <2>3. Answers(ct) \in Seq(Signals) BY AnswersTyped
    <2>4. events[m] \in Seq(Signals) BY <1>1
    <2> HIDE DEF Signals
    <2>5. events[m] \o Answers(ct) \in Seq(Signals) BY <2>3, <2>4
    <2>6. events' \in [Models -> Seq(Signals)] BY <1>1, <2>2, <2>5
    <2>7. backend' \in [Models -> BackendState] BY <1>1, <2>1 DEF BackendState
    <2> QED BY <2>6, <2>7
  <1> QED BY <1>2, <1>3

\* updateContentType() keeps the types.
LEMMA UpdateTyped ==
    ASSUME TypedInv, NEW m \in Models, NEW ct \in Types, UpdateContentType(m, ct),
           heap' = heap, asked' \in [Models -> Types], replies' \in Seq(Answered)
    PROVE  TypedInv'
  <1>1. model \in [Models -> ModelState] BY DEF TypedInv, TypeOK
  <1> DEFINE none == <<>>
             d == [model[m] EXCEPT !.query = NoQuery, !.identifiers = {},
                    !.requested = ct, !.forward = none, !.canGoBack = FALSE]
  <1>2. model' = [model EXCEPT ![m] = d] BY DEF UpdateContentType
  <1>3. none \in Seq(BOOLEAN) OBVIOUS
  <1>4. NoQuery \in Queries BY BrowseAssumption
  <1> HIDE DEF none
  <1>5. d \in ModelState BY <1>1, <1>3, <1>4 DEF ModelState
  <1> HIDE DEF d
  <1>6. model' \in [Models -> ModelState] BY <1>1, <1>2, <1>5
  <1>7. backend' \in [Models -> BackendState] /\ events' \in [Models -> Seq(Signals)]
    BY ResetModelTyped DEF UpdateContentType
  <1> QED BY <1>6, <1>7 DEF TypedInv, TypeOK, BackendState

\* What a backend answers to a navigation is a content type, or nothing.
LEMMA AnsweredTyped ==
    ASSUME TypedInv, NEW m \in Models, NEW ct \in ContentTypes \cup {Failed}, NEW new \in BOOLEAN
    PROVE  Append(replies, Reply(m, ct, new)) \in Seq(Answered)
  <1>1. Reply(m, ct, new) \in Answered BY DEF Reply, Answered
  <1>2. replies \in Seq(Answered) BY DEF TypedInv
  <1> HIDE DEF Answered
  <1> QED BY <1>1, <1>2

\* The rows lead to content types.
LEMMA DestinationTyped ==
    ASSUME TypedInv, NEW m \in Models, NEW i, CanGoForward(m, i), NEW ct \in Destination(model[m].rows[i])
    PROVE  ct \in ContentTypes \cup {Failed}
  <1>1. model[m] \in ModelState BY DEF TypedInv, TypeOK
  <1>2. model[m].rows \in Seq(DOMAIN Child) BY <1>1 DEF ModelState
  <1>3. model[m].rows[i] \in DOMAIN Child BY <1>2 DEF CanGoForward
  <1> QED BY <1>3, BrowseAssumption DEF Destination

\* The navigations keep the types.
LEMMA NavigationsTyped ==
    ASSUME TypedInv, NEW m \in Models, NEW new \in Models, NEW i,
           GoBack(m) \/ GoForward(m, i) \/ GoForwardInto(m, i, new)
    PROVE  TypedInv'
  <1>1. /\ model \in [Models -> ModelState] /\ backend \in [Models -> BackendState]
        /\ events \in [Models -> Seq(Signals)]
    BY DEF TypedInv, TypeOK, BackendState
  <1>2. CASE GoBack(m)
    <2>1. PICK ct \in {Parent[backend[m].type], Failed} \ {NoType} :
             replies' = Append(replies, Reply(m, ct, FALSE))
      BY <1>2 DEF GoBack
    <2>2. backend[m].type \in ContentTypes
      <3>1. backend[m].type # NoType BY <1>2 DEF GoBack
      <3> QED BY <1>1, <3>1 DEF BackendState, Types
    <2>3. ct \in ContentTypes \cup {Failed} BY <2>1, <2>2, BrowseAssumption DEF Types
    <2>4. replies' \in Seq(Answered) BY <2>1, <2>3, AnsweredTyped
    <2>5. UNCHANGED <<model, heap, backend, events, asked>> BY <1>2 DEF GoBack
    <2> QED BY <2>4, <2>5 DEF TypedInv, TypeOK
  <1>3. CASE GoForward(m, i)
    <2>1. PICK ct \in Destination(model[m].rows[i]) : replies' = Append(replies, Reply(m, ct, FALSE))
      BY <1>3 DEF GoForward
    <2>2. ct \in ContentTypes \cup {Failed} BY <1>3, <2>1, DestinationTyped DEF GoForward
    <2>3. replies' \in Seq(Answered) BY <2>1, <2>2, AnsweredTyped
    <2>4. UNCHANGED <<model, heap, backend, events, asked>> BY <1>3 DEF GoForward
    <2> QED BY <2>3, <2>4 DEF TypedInv, TypeOK
  <1>4. CASE GoForwardInto(m, i, new)
    <2>1. PICK ct \in Destination(model[m].rows[i]) : replies' = Append(replies, Reply(new, ct, TRUE))
      BY <1>4 DEF GoForwardInto
    <2>2. ct \in ContentTypes \cup {Failed} BY <1>4, <2>1, DestinationTyped DEF GoForwardInto
    <2>3. replies' \in Seq(Answered) BY <2>1, <2>2, AnsweredTyped
    <2>4. /\ model' = [model EXCEPT ![new].alive = TRUE, ![new].attached = TRUE]
          /\ backend' = [backend EXCEPT ![new].registered = TRUE]
          /\ events' = [events EXCEPT ![new] = Answers(NoType)] /\ UNCHANGED <<heap, asked>>
      BY <1>4 DEF GoForwardInto
    <2>5. model' \in [Models -> ModelState]
      <3> DEFINE d == [model[new] EXCEPT !.alive = TRUE, !.attached = TRUE]
      <3>1. d \in ModelState BY <1>1 DEF ModelState
      <3>2. model' = [model EXCEPT ![new] = d] BY <1>1, <2>4 DEF ModelState
      <3> HIDE DEF d
      <3> QED BY <1>1, <3>1, <3>2
    <2>6. backend' \in [Models -> BackendState] BY <1>1, <2>4 DEF BackendState
    <2>7. Answers(NoType) \in Seq(Signals) BY AnswersTyped DEF Types
    <2>8. events' \in [Models -> Seq(Signals)] BY <1>1, <2>4, <2>7
    <2> QED BY <2>3, <2>4, <2>5, <2>6, <2>8 DEF TypedInv, TypeOK, BackendState
  <1> QED BY <1>2, <1>3, <1>4

\* So does the answer of one.
LEMMA NavigateTyped ==
    ASSUME TypedInv, NEW i \in 1..Len(replies), Navigate(i)
    PROVE  TypedInv'
  <1> DEFINE r == replies[i]
  <1>1. replies \in Seq(Answered) BY DEF TypedInv
  <1>2. r \in Answered BY <1>1
  <1>3. r.model \in Models /\ r.type \in ContentTypes \cup {Failed} BY <1>2 DEF Answered
  <1>4. replies' \in Seq(Answered)
    <2>1. replies' = RemoveAt(replies, i) BY DEF Navigate
    <2> DEFINE p == SubSeq(replies, 1, i - 1)
               q == SubSeq(replies, i + 1, Len(replies))
    <2> HIDE DEF Answered
    <2>2. p \in Seq(Answered) /\ q \in Seq(Answered) BY <1>1
    <2> HIDE DEF p, q
    <2>3. p \o q \in Seq(Answered) BY <2>2
    <2> QED BY <2>1, <2>3 DEF RemoveAt, p, q
  <1> DEFINE n == r.model
             ty == r.type
  <1>5. /\ IF ty # Failed
           THEN /\ asked' = [asked EXCEPT ![n] = ty]
                /\ IF r.new /\ ~IsNews(n, ty) THEN UNCHANGED <<model, backend, events>>
                   ELSE UpdateContentType(n, ty)
           ELSE UNCHANGED <<model, backend, events, asked>>
        /\ heap' = heap
    BY DEF Navigate
  <1>6. n \in Models /\ ty \in ContentTypes \cup {Failed} BY <1>3
  <1> HIDE DEF n, ty
  <1>7. ty # Failed => asked' \in [Models -> Types]
    <2>1. ty # Failed => ty \in Types BY <1>6 DEF Types
    <2>2. asked \in [Models -> Types] BY DEF TypedInv, TypeOK
    <2> QED BY <1>5, <2>1, <2>2
  <1>8. CASE ty # Failed /\ UpdateContentType(n, ty)
    <2>1. ty \in Types BY <1>6, <1>8 DEF Types
    <2> QED BY <1>4, <1>5, <1>6, <1>7, <1>8, <2>1, UpdateTyped
  <1>9. CASE UNCHANGED <<model, backend, events>> /\ (ty # Failed \/ asked' = asked)
    BY <1>4, <1>5, <1>7, <1>9 DEF TypedInv, TypeOK
  <1> QED BY <1>5, <1>8, <1>9

\* Asking the backend again keeps the types.
LEMMA AskedTyped ==
    ASSUME TypedInv, NEW m \in Models, NEW q \in Queries, Reload(m) \/ SetQuery(m, q)
    PROVE  TypedInv'
  <1>1. model \in [Models -> ModelState] BY DEF TypedInv, TypeOK
  <1>2. model[m].requested \in Types BY <1>1 DEF ModelState
  <1>3. ResetModel(m, model[m].requested) /\ UNCHANGED <<heap, replies, asked>>
    BY DEF Reload, SetQuery
  <1>4. backend' \in [Models -> BackendState] /\ events' \in [Models -> Seq(Signals)]
    BY <1>2, <1>3, ResetModelTyped
  <1>5. model' \in [Models -> ModelState]
    <2>1. CASE Reload(m) BY <1>1, <2>1 DEF Reload
    <2>2. CASE SetQuery(m, q)
      <3>1. model' = [model EXCEPT ![m].query = q] BY <2>2 DEF SetQuery
      <3> QED BY <1>1, <3>1 DEF ModelState
    <2> QED BY <2>1, <2>2
  <1> QED BY <1>3, <1>4, <1>5 DEF TypedInv, TypeOK, BackendState

\* So does setting the content type.
LEMMA SetContentTypeTyped ==
    ASSUME TypedInv, NEW m \in Models, NEW ct \in ContentTypes, SetContentType(m, ct)
    PROVE  TypedInv'
  <1>1. /\ asked' = [asked EXCEPT ![m] = ct] /\ UNCHANGED <<heap, replies>>
        /\ IF IsNews(m, ct) THEN UpdateContentType(m, ct) ELSE UNCHANGED <<model, backend, events>>
    BY DEF SetContentType
  <1>2. ct \in Types BY DEF Types
  <1>3. asked' \in [Models -> Types] BY <1>1, <1>2 DEF TypedInv, TypeOK
  <1>4. replies' \in Seq(Answered) BY <1>1 DEF TypedInv
  <1>5. CASE UpdateContentType(m, ct) BY <1>1, <1>2, <1>3, <1>4, <1>5, UpdateTyped
  <1>6. CASE UNCHANGED <<model, backend, events>> BY <1>1, <1>3, <1>6 DEF TypedInv, TypeOK
  <1> QED BY <1>1, <1>5, <1>6

\* Every backend has the term of its model, or one that is not any more, and no
\* other backend has it: a term that is made is in use nowhere.
TermsApart ==
    /\ \A m \in Models : \/ backend[m].term = model[m].term
                         \/ model[m].term = NoTerm /\ heap[backend[m].term] = Freed
    /\ \A m, n \in Models : m # n /\ backend[m].term = backend[n].term => backend[m].term = NoTerm
    /\ \A t \in Terms : heap[t] # Freed => \E m \in Models : backend[m].term = t

\* What a model knows of its backend
Connected(d, b) ==
    /\ d.attached => b.registered /\ b.type = d.requested
    /\ ~b.registered => b.type = NoType
    /\ ~d.alive => ~d.attached
    /\ ~d.attached => d.term = NoTerm

\* The rows of a model are those of its backend.
Shown(d, b, h) ==
    /\ Begins(d.rows, Content(b.type, b.term, h))
    /\ Knows(d.forward, d.rows)

PagesInv ==
    /\ TypedInv /\ TermsApart
    /\ \A m \in Models :
        /\ Connected(model[m], backend[m])
        /\ ~model[m].attached => events[m] = <<>>
        /\ Quiet(m) => Shown(model[m], backend[m], heap)

\* Two filters with terms of the same query let the same through.
LEMMA SameContent ==
    ASSUME NEW ct, NEW t, NEW h, NEW g, t = NoTerm \/ h[t] = g[t]
    PROVE  Content(ct, t, h) = Content(ct, t, g)
  <1>1. Passing(t, h) = Passing(t, g) BY DEF Passing
  <1> QED BY <1>1 DEF Content

\* What a step leaves of a model
Left(m) == model'[m] = model[m] /\ backend'[m] = backend[m] /\ events'[m] = events[m]

\* A step that changes no term, and after which the model m, which it is about,
\* waits for its backend.
LEMMA SameTermsPages ==
    ASSUME PagesInv, TypedInv', heap' = heap, NEW m \in Models,
           \A n \in Models : backend'[n].term = backend[n].term /\ model'[n].term = model[n].term,
           \A n \in Models \ {m} : Left(n),
           Connected(model'[m], backend'[m]), ~model'[m].attached => events'[m] = <<>>,
           Quiet(m)' => Shown(model'[m], backend'[m], heap)
    PROVE  PagesInv'
  <1>1. TermsApart' BY DEF PagesInv, TermsApart
  <1>2. ASSUME NEW n \in Models
        PROVE  /\ Connected(model'[n], backend'[n])
               /\ ~model'[n].attached => events'[n] = <<>>
               /\ Quiet(n)' => Shown(model'[n], backend'[n], heap)
    <2>1. CASE n = m BY <2>1
    <2>2. CASE n # m
      <3>1. model'[n] = model[n] /\ backend'[n] = backend[n] /\ events'[n] = events[n]
        BY <2>2 DEF Left
      <3>2. Quiet(n)' => Quiet(n) BY <3>1 DEF Quiet
      <3> QED BY <3>1, <3>2 DEF PagesInv
    <2> QED BY <2>1, <2>2
  <1> QED BY <1>1, <1>2 DEF PagesInv

\* The terms h become g: t is one of the query q, and the old one is deleted.
Replaced(h, g, old, t, q) ==
    \A u \in Terms : g[u] = IF u = t THEN q ELSE IF u = old THEN Freed ELSE h[u]

\* A step that gives the model m another term, or none, and deletes the old one.
LEMMA NewTermPages ==
    ASSUME PagesInv, TypedInv', NEW m \in Models, NEW t, NEW q,
           t = NoTerm \/ t \in Unused,
           Replaced(heap, heap', model[m].term, t, q),
           backend'[m].term = t, model'[m].term = t,
           \A n \in Models \ {m} : Left(n),
           Connected(model'[m], backend'[m]), ~model'[m].attached => events'[m] = <<>>,
           Quiet(m)' => Shown(model'[m], backend'[m], heap')
    PROVE  PagesInv'
  <1> DEFINE old == model[m].term
  <1>1. NoTerm \notin Terms BY BrowseAssumption
  <1>2. \A n \in Models : backend[n].term \in Terms \cup {NoTerm}
    BY DEF PagesInv, TypedInv, TypeOK
  <1>3. \A n \in Models \ {m} : /\ backend'[n] = backend[n] /\ model'[n] = model[n]
                                /\ events'[n] = events[n]
    BY DEF Left
  <1>4. TermsApart BY DEF PagesInv
  <1>5. t # NoTerm => t \in Terms /\ \A n \in Models : backend[n].term # t BY DEF Unused
  <1>6. \A n \in Models \ {m} : backend[n].term # NoTerm => backend[n].term # old
    <2>1. old = NoTerm \/ old = backend[m].term BY <1>4 DEF TermsApart
    <2> QED BY <1>4, <2>1 DEF TermsApart
  <1>7. \A n \in Models \ {m} : backend[n].term # NoTerm => heap'[backend[n].term] = heap[backend[n].term]
    BY <1>2, <1>5, <1>6 DEF Replaced
  <1>8. TermsApart'
    <2>1. ASSUME NEW n \in Models
          PROVE  \/ backend'[n].term = model'[n].term
                 \/ model'[n].term = NoTerm /\ heap'[backend'[n].term] = Freed
      <3>1. CASE n = m BY <3>1
      <3>2. CASE n # m BY <1>3, <1>4, <1>7, <3>2 DEF TermsApart
      <3> QED BY <3>1, <3>2
    <2>2. \A n, o \in Models : n # o /\ backend'[n].term = backend'[o].term => backend'[n].term = NoTerm
      BY <1>3, <1>4, <1>5 DEF TermsApart
    <2>3. ASSUME NEW u \in Terms, heap'[u] # Freed PROVE \E n \in Models : backend'[n].term = u
      <3>1. CASE u = t BY <3>1
      <3>2. CASE u # t
        <4>1. u # old /\ heap[u] # Freed BY <2>3, <3>2 DEF Replaced
        <4>2. PICK n \in Models : backend[n].term = u BY <1>4, <4>1 DEF TermsApart
        <4>3. n # m BY <1>4, <4>1, <4>2 DEF TermsApart
        <4> QED BY <1>3, <4>2, <4>3
      <3> QED BY <3>1, <3>2
    <2> QED BY <2>1, <2>2, <2>3 DEF TermsApart
  <1>9. ASSUME NEW n \in Models
        PROVE  /\ Connected(model'[n], backend'[n])
               /\ ~model'[n].attached => events'[n] = <<>>
               /\ Quiet(n)' => Shown(model'[n], backend'[n], heap')
    <2>1. CASE n = m BY <2>1
    <2>2. CASE n # m
      <3>1. model'[n] = model[n] /\ backend'[n] = backend[n] /\ events'[n] = events[n]
        BY <1>3, <2>2
      <3>2. Connected(model[n], backend[n]) /\ (~model[n].attached => events[n] = <<>>)
        BY DEF PagesInv
      <3>3. Quiet(n)' => Shown(model[n], backend[n], heap)
        BY <3>1 DEF PagesInv, Quiet
      <3> DEFINE b == backend[n]
      <3>4. Content(b.type, b.term, heap') = Content(b.type, b.term, heap)
        <4>1. b.term = NoTerm \/ heap'[b.term] = heap[b.term] BY <1>7, <2>2
        <4> HIDE DEF b
        <4> QED BY <4>1, SameContent
      <3>5. Quiet(n)' => Shown(model[n], backend[n], heap') BY <3>3, <3>4 DEF Shown
      <3> QED BY <3>1, <3>2, <3>5
    <2> QED BY <2>1, <2>2
  <1> QED BY <1>8, <1>9 DEF PagesInv

\* The view that reaches the end of the rows gets the next ones.
LEMMA FetchMorePages ==
    ASSUME PagesInv, NEW m \in Models, FetchMore(m)
    PROVE  PagesInv'
  <1> DEFINE b == backend[m]
             all == Content(b.type, b.term, heap')
             d == Fetched(model[m], b)
  <1>1. /\ model[m].attached /\ heap' = heap /\ model' = [model EXCEPT ![m] = d]
        /\ UNCHANGED <<backend, events, replies, asked>>
    BY DEF FetchMore
  <1>2. /\ model \in [Models -> ModelState] /\ backend \in [Models -> BackendState]
    BY DEF PagesInv, TypedInv, TypeOK, BackendState
  <1>3. b.type \in Types BY <1>2 DEF BackendState
  <1> HIDE DEF b
  <1>4. all \in Seq(RowSet) BY <1>3, ContentTyped
  <1>5. model[m] \in ModelState /\ IsModel(model[m]) BY <1>2 DEF IsModel, ModelState, ModelFields
  <1>6. /\ d \in ModelState
        /\ Begins(model[m].rows, all) => Begins(d.rows, all)
        /\ Knows(model[m].forward, model[m].rows) => Knows(d.forward, d.rows)
    BY <1>4, <1>5, FetchedPages
  <1>7. \A f \in ModelFields \ PageFields : d[f] = model[m][f] BY <1>5, FetchedFields
  <1>8. /\ d.attached = model[m].attached /\ d.requested = model[m].requested
        /\ d.alive = model[m].alive /\ d.term = model[m].term
    BY <1>7 DEF ModelFields, PageFields
  <1> HIDE DEF d, all
  <1>9. model' \in [Models -> ModelState] /\ model'[m] = d /\ \A n \in Models \ {m} : model'[n] = model[n]
    BY <1>1, <1>2, <1>6
  <1>10. TypedInv' BY <1>1, <1>9 DEF PagesInv, TypedInv, TypeOK
  <1>11. Connected(model'[m], backend'[m]) BY <1>1, <1>8, <1>9 DEF PagesInv, Connected
  <1>12. Quiet(m)' => Shown(model'[m], backend'[m], heap)
    <2> SUFFICES ASSUME Quiet(m)' PROVE Shown(model'[m], backend'[m], heap) OBVIOUS
    <2>1. Quiet(m) BY <1>1 DEF Quiet
    <2>2. Shown(model[m], b, heap) BY <2>1 DEF PagesInv, b
    <2>3. Shown(d, b, heap) BY <1>1, <1>6, <2>2 DEF Shown, all
    <2> QED BY <1>1, <1>9, <2>3 DEF b
  <1>13. \A n \in Models \ {m} : Left(n) BY <1>1, <1>9 DEF Left
  <1>14. \A n \in Models : backend'[n].term = backend[n].term /\ model'[n].term = model[n].term
    BY <1>1, <1>8, <1>9
  <1>15. model'[m].attached BY <1>1, <1>8, <1>9
  <1> QED BY <1>1, <1>10, <1>11, <1>12, <1>13, <1>14, <1>15, SameTermsPages

\* A backend that is asked again: the model has not been told everything.
LEMMA AskedAgain ==
    ASSUME PagesInv, TypedInv', heap' = heap, NEW m \in Models, NEW ct \in Types, ResetModel(m, ct),
           \A n \in Models \ {m} : model'[n] = model[n],
           model'[m].attached = model[m].attached, model'[m].alive = model[m].alive,
           model'[m].term = model[m].term, model'[m].requested = ct
    PROVE  PagesInv'
  <1>1. backend \in [Models -> BackendState] /\ events \in [Models -> Seq(Signals)]
    BY DEF PagesInv, TypedInv, TypeOK, BackendState
  <1>2. Connected(model[m], backend[m]) /\ (~model[m].attached => events[m] = <<>>)
    BY DEF PagesInv
  <1>3. CASE model[m].attached
    <2>1. backend' = [backend EXCEPT ![m].type = ct] /\ events' = [events EXCEPT ![m] = @ \o Answers(ct)]
      BY <1>3 DEF ResetModel
    <2>2. /\ backend'[m].type = ct /\ backend'[m].term = backend[m].term
          /\ backend'[m].registered = backend[m].registered
          /\ \A n \in Models \ {m} : backend'[n] = backend[n] /\ events'[n] = events[n]
      BY <1>1, <2>1 DEF BackendState
    <2>3. events'[m] # <<>>
      <3>1. events'[m] = events[m] \o Answers(ct) BY <1>1, <2>1
      <3>2. events[m] \in Seq([kind : Kinds, type : Types]) BY <1>1 DEF Signals
      <3>3. IsSignals(events[m]) BY <3>2 DEF IsSignals
      <3> QED BY <3>1, <3>3, AnswersEnd
    <2>4. ~Quiet(m)' BY <2>3 DEF Quiet
    <2>5. Connected(model'[m], backend'[m]) BY <1>2, <1>3, <2>2 DEF Connected
    <2>6. \A n \in Models \ {m} : Left(n) BY <2>2 DEF Left
    <2>7. \A n \in Models : backend'[n].term = backend[n].term /\ model'[n].term = model[n].term
      BY <2>2
    <2> QED BY <1>3, <2>4, <2>5, <2>6, <2>7, SameTermsPages
  <1>4. CASE ~model[m].attached
    <2>1. UNCHANGED <<backend, events>> BY <1>4 DEF ResetModel
    <2>2. ~Quiet(m)' BY <1>4 DEF Quiet
    <2>3. Connected(model'[m], backend'[m]) BY <1>2, <1>4, <2>1 DEF Connected
    <2>4. \A n \in Models \ {m} : Left(n) BY <2>1 DEF Left
    <2>5. \A n \in Models : backend'[n].term = backend[n].term /\ model'[n].term = model[n].term
      BY <2>1
    <2> QED BY <1>2, <1>4, <2>1, <2>2, <2>3, <2>4, <2>5, SameTermsPages
  <1> QED BY <1>3, <1>4

\* The content type that is asked for.
LEMMA UpdatePages ==
    ASSUME PagesInv, TypedInv', heap' = heap, NEW m \in Models, NEW ct \in Types,
           UpdateContentType(m, ct)
    PROVE  PagesInv'
  <1>1. model \in [Models -> ModelState] BY DEF PagesInv, TypedInv, TypeOK
  <1>2. ResetModel(m, ct) BY DEF UpdateContentType
  <1>3. /\ \A n \in Models \ {m} : model'[n] = model[n]
        /\ model'[m].attached = model[m].attached /\ model'[m].alive = model[m].alive
        /\ model'[m].term = model[m].term /\ model'[m].requested = ct
    BY <1>1 DEF UpdateContentType, ModelState
  <1> QED BY <1>2, <1>3, AskedAgain

\* A step that leaves the models and their backends.
LEMMA SamePages ==
    ASSUME PagesInv, TypedInv', UNCHANGED <<model, heap, backend, events>>
    PROVE  PagesInv'
  <1>1. TermsApart' BY DEF PagesInv, TermsApart
  <1>2. \A n \in Models : Quiet(n)' => Quiet(n) BY DEF Quiet
  <1> QED BY <1>1, <1>2 DEF PagesInv

\* A model that is asked to show the same anew, or with another query.
LEMMA AskedPages ==
    ASSUME PagesInv, NEW m \in Models, NEW q \in Queries, Reload(m) \/ SetQuery(m, q)
    PROVE  PagesInv'
  <1>1. TypedInv' BY AskedTyped DEF PagesInv
  <1>2. model \in [Models -> ModelState] BY DEF PagesInv, TypedInv, TypeOK
  <1>3. model[m].requested \in Types BY <1>2 DEF ModelState
  <1>4. ResetModel(m, model[m].requested) /\ heap' = heap BY DEF Reload, SetQuery
  <1>5. /\ \A n \in Models \ {m} : model'[n] = model[n]
        /\ model'[m].attached = model[m].attached /\ model'[m].alive = model[m].alive
        /\ model'[m].term = model[m].term /\ model'[m].requested = model[m].requested
    <2>1. CASE Reload(m) BY <2>1 DEF Reload
    <2>2. CASE SetQuery(m, q)
      <3>1. model' = [model EXCEPT ![m].query = q] BY <2>2 DEF SetQuery
      <3> QED BY <1>2, <3>1 DEF ModelState
    <2> QED BY <2>1, <2>2
  <1> QED BY <1>1, <1>3, <1>4, <1>5, AskedAgain

\* A model that is asked to show another content type.
LEMMA SetContentTypePages ==
    ASSUME PagesInv, NEW m \in Models, NEW ct \in ContentTypes, SetContentType(m, ct)
    PROVE  PagesInv'
  <1>1. TypedInv' BY SetContentTypeTyped DEF PagesInv
  <1>2. heap' = heap /\ (UpdateContentType(m, ct) \/ UNCHANGED <<model, backend, events>>)
    BY DEF SetContentType
  <1>3. ct \in Types BY DEF Types
  <1> QED BY <1>1, <1>2, <1>3, UpdatePages, SamePages

\* The navigations.
LEMMA NavigationsPages ==
    ASSUME ShowInv, PagesInv, NEW m \in Models, NEW new \in Models, NEW i,
           GoBack(m) \/ GoForward(m, i) \/ GoForwardInto(m, i, new)
    PROVE  PagesInv'
  <1>1. TypedInv' BY NavigationsTyped DEF PagesInv
  <1>2. /\ model \in [Models -> ModelState] /\ backend \in [Models -> BackendState]
        /\ events \in [Models -> Seq(Signals)]
    BY DEF PagesInv, TypedInv, TypeOK, BackendState
  <1>3. CASE GoBack(m) \/ GoForward(m, i)
    <2>1. UNCHANGED <<model, heap, backend, events>> BY <1>3 DEF GoBack, GoForward
    <2> QED BY <1>1, <2>1, SamePages
  <1>4. CASE GoForwardInto(m, i, new)
    <2>1. /\ ~model[new].alive /\ ~backend[new].registered /\ heap' = heap
          /\ model' = [model EXCEPT ![new].alive = TRUE, ![new].attached = TRUE]
          /\ backend' = [backend EXCEPT ![new].registered = TRUE]
          /\ events' = [events EXCEPT ![new] = Answers(NoType)]
      BY <1>4 DEF GoForwardInto
    <2>2. /\ \A n \in Models \ {new} : model'[n] = model[n] /\ backend'[n] = backend[n]
                                       /\ events'[n] = events[n]
          /\ events'[new] = Answers(NoType)
          /\ backend'[new].registered = TRUE
          /\ backend'[new].type = backend[new].type /\ backend'[new].term = backend[new].term
      BY <1>2, <2>1 DEF BackendState
    <2>3. /\ model'[new].alive = TRUE /\ model'[new].attached = TRUE
          /\ model'[new].requested = model[new].requested /\ model'[new].term = model[new].term
      BY <1>2, <2>1 DEF ModelState
    <2>4. events'[new] # <<>>
      <3>1. IsSignals(<<>>) BY DEF IsSignals
      <3> QED BY <2>2, <3>1, AnswersEnd
    <2>5. Connected(model[new], backend[new]) BY DEF PagesInv
    <2>6. model[new].requested = NoType BY <2>1 DEF ShowInv
    <2>7. Connected(model'[new], backend'[new]) BY <2>1, <2>2, <2>3, <2>5, <2>6 DEF Connected
    <2>8. ~Quiet(new)' BY <2>4 DEF Quiet
    <2>9. \A n \in Models \ {new} : Left(n) BY <2>2 DEF Left
    <2>10. \A n \in Models : backend'[n].term = backend[n].term /\ model'[n].term = model[n].term
      BY <2>2, <2>3
    <2> QED BY <1>1, <2>1, <2>3, <2>7, <2>8, <2>9, <2>10, SameTermsPages
  <1> QED BY <1>3, <1>4

\* The answer of a navigation.
LEMMA NavigatePages ==
    ASSUME PagesInv, NEW i \in 1..Len(replies), Navigate(i)
    PROVE  PagesInv'
  <1>1. TypedInv' BY NavigateTyped DEF PagesInv
  <1> DEFINE r == replies[i]
  <1>2. replies \in Seq(Answered) BY DEF PagesInv, TypedInv
  <1>3. r \in Answered BY <1>2
  <1>4. r.model \in Models /\ r.type \in ContentTypes \cup {Failed} BY <1>3 DEF Answered
  <1>5. heap' = heap
        /\ (UNCHANGED <<model, backend, events>>
              \/ (r.type # Failed /\ UpdateContentType(r.model, r.type)))
    BY DEF Navigate
  <1>6. r.type # Failed => r.type \in Types BY <1>4 DEF Types
  <1> HIDE DEF r
  <1> QED BY <1>1, <1>4, <1>5, <1>6, UpdatePages, SamePages

\* There is always a term to be made.
LEMMA TermIsThere ==
    ASSUME PagesInv
    PROVE  (CHOOSE t \in Unused : TRUE) \in Unused
  <1> DEFINE f == [m \in Models |-> backend[m].term]
  <1>1. f \in [Models -> Terms \cup {NoTerm}] BY DEF PagesInv, TypedInv, TypeOK
  <1>2. PICK t \in Terms : \A m \in Models : f[m] # t BY <1>1, TermsAssumption
  <1>3. \A m \in Models : backend[m].term # t BY <1>2
  <1>4. heap[t] = Freed BY <1>3 DEF PagesInv, TermsApart
  <1>5. t \in Unused BY <1>3, <1>4 DEF Unused
  <1> QED BY <1>5

\* parseQuery() gives the backend another term, or leaves everything.
LEMMA ParseQueryPages ==
    ASSUME PagesInv, NEW m \in Models, ParseQuery(m, model[m])
    PROVE  /\ backend' \in [Models -> BackendState] /\ heap' \in [Terms -> Queries \cup {Freed}]
           /\ \A n \in Models \ {m} : backend'[n] = backend[n]
           /\ backend'[m].type = backend[m].type /\ backend'[m].registered = backend[m].registered
           /\ \/ UNCHANGED <<backend, heap>>
              \/ /\ backend'[m].term = NoTerm \/ backend'[m].term \in Unused
                 /\ \A u \in Terms : heap'[u] = IF u = backend'[m].term THEN model[m].query
                                       ELSE IF u = model[m].term THEN Freed ELSE heap[u]
  <1>1. /\ backend \in [Models -> BackendState] /\ heap \in [Terms -> Queries \cup {Freed}]
        /\ model[m] \in ModelState
    BY DEF PagesInv, TypedInv, TypeOK, BackendState
  <1> DEFINE q == model[m].query
  <1>2. q \in Queries BY <1>1 DEF ModelState
  <1> HIDE DEF q
  <1>3. ASSUME NEW t, t = NoTerm \/ t \in Unused, SetupFilter(m, t, q)
        PROVE  /\ backend' \in [Models -> BackendState] /\ heap' \in [Terms -> Queries \cup {Freed}]
               /\ \A n \in Models \ {m} : backend'[n] = backend[n]
               /\ backend'[m].type = backend[m].type /\ backend'[m].registered = backend[m].registered
               /\ backend'[m].term = t
               /\ \A u \in Terms : heap'[u] = IF u = t THEN q
                                       ELSE IF u = model[m].term THEN Freed ELSE heap[u]
    <2>1. t \in Terms \cup {NoTerm} BY <1>3 DEF Unused
    <2>2. backend' = [backend EXCEPT ![m].term = t] BY <1>3 DEF SetupFilter
    <2>3. heap' = [u \in Terms |-> IF u = t THEN q ELSE Freeing(model[m].term)[u]]
      BY <1>3 DEF SetupFilter
    <2>4. /\ backend' \in [Models -> BackendState]
          /\ \A n \in Models \ {m} : backend'[n] = backend[n]
          /\ backend'[m].type = backend[m].type /\ backend'[m].registered = backend[m].registered
          /\ backend'[m].term = t
      BY <1>1, <2>1, <2>2 DEF BackendState
    <2>5. \A u \in Terms : heap'[u] = IF u = t THEN q
                                       ELSE IF u = model[m].term THEN Freed ELSE heap[u]
      BY <2>3 DEF Freeing
    <2>6. heap' \in [Terms -> Queries \cup {Freed}] BY <1>1, <1>2, <2>3, <2>5
    <2> QED BY <2>4, <2>5, <2>6
  <1>4. CASE q = NoQuery
    <2>1. SetupFilter(m, NoTerm, q) BY <1>4 DEF ParseQuery, q
    <2> QED BY <1>3, <2>1 DEF q
  <1>5. CASE q # NoQuery /\ "filter" \in Capabilities /\ Parses(q, model[m].identifiers)
    <2> DEFINE t == CHOOSE x \in Unused : TRUE
    <2>1. SetupFilter(m, t, q) BY <1>5 DEF ParseQuery, q
    <2>2. t \in Unused BY TermIsThere
    <2> HIDE DEF t
    <2> QED BY <1>3, <2>1, <2>2 DEF q
  <1>6. CASE q # NoQuery /\ ~("filter" \in Capabilities /\ Parses(q, model[m].identifiers))
    <2>1. UNCHANGED <<backend, heap>> BY <1>6 DEF ParseQuery, q
    <2> QED BY <1>1, <2>1
  <1> QED BY <1>4, <1>5, <1>6

\* The content type arrives: the rows are fetched anew, through the filter.
LEMMA TypePages ==
    ASSUME PagesInv, NEW m \in Models, model[m].attached, NEW ct \in Types,
           OnContentTypeChanged(m, ct), events' \in [Models -> Seq(Signals)],
           \A n \in Models \ {m} : events'[n] = events[n], UNCHANGED <<replies, asked>>
    PROVE  PagesInv'
  <1> DEFINE d == [model[m] EXCEPT !.type = ct]
             b == backend'[m]
             r == Reset(d, b)
             new == [r EXCEPT !.term = b.term]
             all == Content(b.type, b.term, heap')
  <1>1. ParseQuery(m, model[m]) /\ model' = [model EXCEPT ![m] = new]
    BY DEF OnContentTypeChanged
  <1>2. /\ backend' \in [Models -> BackendState] /\ heap' \in [Terms -> Queries \cup {Freed}]
        /\ \A n \in Models \ {m} : backend'[n] = backend[n]
        /\ backend'[m].type = backend[m].type /\ backend'[m].registered = backend[m].registered
        /\ \/ UNCHANGED <<backend, heap>>
           \/ /\ backend'[m].term = NoTerm \/ backend'[m].term \in Unused
              /\ \A u \in Terms : heap'[u] = IF u = backend'[m].term THEN model[m].query
                                       ELSE IF u = model[m].term THEN Freed ELSE heap[u]
    BY <1>1, ParseQueryPages
  <1>3. model \in [Models -> ModelState] BY DEF PagesInv, TypedInv, TypeOK
  <1>4. /\ d \in ModelState /\ IsModel(d)
        /\ \A f \in ModelFields \ {"type"} : d[f] = model[m][f]
    BY <1>3 DEF ModelState, IsModel, ModelFields
  <1> HIDE DEF d
  <1>5. b.type \in Types /\ b.term \in Terms \cup {NoTerm} BY <1>2 DEF BackendState
  <1> HIDE DEF b
  <1>6. all \in Seq(RowSet) BY <1>5, ContentTyped
  <1>7. /\ r \in ModelState /\ Begins(r.rows, all) /\ Knows(r.forward, r.rows)
        /\ \A f \in ModelFields \ PageFields : r[f] = d[f]
    BY <1>4, <1>6, ResetPages, ResetFields
  <1> HIDE DEF r, all
  <1>8. /\ new \in ModelState /\ new.term = b.term /\ new.rows = r.rows /\ new.forward = r.forward
        /\ new.attached = r.attached /\ new.alive = r.alive /\ new.requested = r.requested
    BY <1>5, <1>7 DEF ModelState
  <1>9. new.attached = TRUE /\ new.alive = model[m].alive /\ new.requested = model[m].requested
    <2>1. \A f \in {"attached", "alive", "requested"} : r[f] = model[m][f]
      BY <1>4, <1>7 DEF ModelFields, PageFields
    <2>2. model[m].attached \in BOOLEAN BY <1>3 DEF ModelState
    <2> QED BY <1>8, <2>1, <2>2
  <1> HIDE DEF new
  <1>10. /\ model' \in [Models -> ModelState] /\ model'[m] = new
         /\ \A n \in Models \ {m} : model'[n] = model[n]
    BY <1>1, <1>3, <1>8
  <1>11. TypedInv' BY <1>2, <1>10 DEF PagesInv, TypedInv, TypeOK, BackendState
  <1>12. \A n \in Models \ {m} : Left(n) BY <1>2, <1>10 DEF Left
  <1>13. Connected(model'[m], backend'[m])
    <2>1. Connected(model[m], backend[m]) BY DEF PagesInv
    <2> QED BY <1>2, <1>8, <1>9, <1>10, <2>1 DEF Connected
  <1>14. Shown(model'[m], backend'[m], heap')
    BY <1>7, <1>8, <1>10 DEF Shown, all, b
  <1>15. model'[m].attached BY <1>9, <1>10
  <1>16. CASE UNCHANGED <<backend, heap>>
    <2>1. TermsApart'
      <3>1. model'[m].term = backend'[m].term BY <1>8, <1>10 DEF b
      <3> QED BY <1>10, <1>16, <3>1 DEF PagesInv, TermsApart
    <2>2. ASSUME NEW n \in Models
          PROVE  /\ Connected(model'[n], backend'[n])
                 /\ ~model'[n].attached => events'[n] = <<>>
                 /\ Quiet(n)' => Shown(model'[n], backend'[n], heap')
      <3>1. CASE n = m BY <1>13, <1>14, <1>15, <3>1
      <3>2. CASE n # m
        <4>1. model'[n] = model[n] /\ backend'[n] = backend[n] /\ events'[n] = events[n]
          BY <1>12, <3>2 DEF Left
        <4>2. Quiet(n)' => Quiet(n) BY <4>1 DEF Quiet
        <4> QED BY <1>16, <4>1, <4>2 DEF PagesInv
      <3> QED BY <3>1, <3>2
    <2> QED BY <1>11, <2>1, <2>2 DEF PagesInv
  <1>17. CASE /\ backend'[m].term = NoTerm \/ backend'[m].term \in Unused
              /\ \A u \in Terms : heap'[u] = IF u = backend'[m].term THEN model[m].query
                                       ELSE IF u = model[m].term THEN Freed ELSE heap[u]
    <2>1. PICK t : t = backend'[m].term OBVIOUS
    <2>2. PICK q : q = model[m].query OBVIOUS
    <2>3. model'[m].term = t BY <1>8, <1>10, <2>1 DEF b
    <2>4. t = NoTerm \/ t \in Unused BY <1>17, <2>1
    <2>5. Replaced(heap, heap', model[m].term, t, q) BY <1>17, <2>1, <2>2 DEF Replaced
    <2>6. backend'[m].term = t BY <2>1
    <2>7. /\ Quiet(m)' => Shown(model'[m], backend'[m], heap')
          /\ ~model'[m].attached => events'[m] = <<>>
      BY <1>14, <1>15
    <2> QED BY <1>11, <1>12, <1>13, <2>3, <2>4, <2>5, <2>6, <2>7, NewTermPages
  <1> QED BY <1>2, <1>16, <1>17

\* A signal arrives: only the content type is the last of them.
LEMMA DeliverPages ==
    ASSUME ShowInv, PagesInv, NEW m \in Models, Deliver(m)
    PROVE  PagesInv'
  <1> DEFINE e == Head(events[m])
  <1>1. /\ events[m] # <<>> /\ events' = [events EXCEPT ![m] = Tail(@)]
        /\ UNCHANGED <<replies, asked>>
    BY DEF Deliver
  <1>2. /\ model \in [Models -> ModelState] /\ events \in [Models -> Seq(Signals)]
        /\ model[m].attached
    BY <1>1 DEF PagesInv, TypedInv, TypeOK
  <1>3. e \in Signals /\ Tail(events[m]) \in Seq(Signals)
    <2>1. events[m] \in Seq(Signals) /\ events[m] # <<>> BY <1>1, <1>2
    <2> HIDE DEF Signals
    <2> QED BY <2>1
  <1>4. e.type \in Types /\ e.kind \in Kinds BY <1>3 DEF Signals
  <1>5. /\ events' \in [Models -> Seq(Signals)] /\ events'[m] = Tail(events[m])
        /\ \A n \in Models \ {m} : events'[n] = events[n]
    BY <1>1, <1>2, <1>3
  <1>6. CASE e.kind = "contentType"
    <2>1. OnContentTypeChanged(m, e.type) BY <1>6 DEF Deliver
    <2> QED BY <1>1, <1>2, <1>4, <1>5, <2>1, TypePages
  <1>7. CASE e.kind # "contentType"
    <2>1. IsSignals(events[m]) BY DEF ShowInv, Shape
    <2>2. Tail(events[m]) = <<>> => e = events[m][Len(events[m])] BY <1>1, <2>1, TailEnd
    <2>3. events[m][Len(events[m])].kind = "contentType"
      <3>1. LastIsAsked(m) BY <1>2 DEF ShowInv
      <3>2. events[m][Len(events[m])] = Told("contentType", model[m].requested)
        BY <1>1, <3>1 DEF LastIsAsked
      <3> QED BY <3>2 DEF Told
    <2>4. ~Quiet(m)' BY <1>5, <1>7, <2>2, <2>3 DEF Quiet
    <2>5. heap' = heap /\ backend' = backend BY <1>4, <1>7 DEF Deliver, Kinds
    <2>6. /\ model' \in [Models -> ModelState] /\ \A n \in Models \ {m} : model'[n] = model[n]
          /\ model'[m].alive = model[m].alive /\ model'[m].attached = model[m].attached
          /\ model'[m].requested = model[m].requested /\ model'[m].term = model[m].term
      <3>1. CASE e.kind = "canGoBack"
        <4>1. model' = [model EXCEPT ![m].canGoBack = TRUE] BY <3>1 DEF Deliver
        <4> QED BY <1>2, <4>1 DEF ModelState
      <3>2. CASE e.kind = "identifiers"
        <4> DEFINE I == UNION {Identifiers[ct] : ct \in ContentTypes}
        <4>1. PICK x : x = (IF e.type = NoType THEN {} ELSE Identifiers[e.type]) OBVIOUS
        <4>2. model' = [model EXCEPT ![m].identifiers = x] BY <3>2, <4>1 DEF Deliver
        <4>3. x \in SUBSET I BY <1>4, <4>1 DEF Types
        <4> QED BY <1>2, <4>2, <4>3 DEF ModelState
      <3> QED BY <1>4, <1>7, <3>1, <3>2 DEF Kinds
    <2>7. TypedInv' BY <1>1, <1>5, <2>5, <2>6 DEF PagesInv, TypedInv, TypeOK
    <2>8. Connected(model'[m], backend'[m]) BY <2>5, <2>6 DEF PagesInv, Connected
    <2>9. \A n \in Models \ {m} : Left(n) BY <1>5, <2>5, <2>6 DEF Left
    <2>10. \A n \in Models : backend'[n].term = backend[n].term /\ model'[n].term = model[n].term
      BY <2>5, <2>6
    <2>11. model'[m].attached BY <1>2, <2>6
    <2> QED BY <2>4, <2>5, <2>7, <2>8, <2>9, <2>10, <2>11, SameTermsPages
  <1> QED BY <1>6, <1>7

\* A new model is typed.
LEMMA NewModelTyped ==
    /\ NewModel \in ModelState
    /\ NewModel.attached = FALSE /\ NewModel.term = NoTerm /\ NewModel.alive = FALSE
  <1> DEFINE none == <<>>
  <1>1. none \in Seq(BOOLEAN) /\ none \in Seq(DOMAIN Child) OBVIOUS
  <1>2. NoQuery \in Queries /\ NoType \in Types BY BrowseAssumption DEF Types
  <1>3. NewModel = [alive |-> FALSE, attached |-> FALSE, query |-> NoQuery, identifiers |-> {},
            type |-> NoType, requested |-> NoType, canGoBack |-> FALSE, forward |-> none,
            rows |-> none, more |-> FALSE, term |-> NoTerm]
    BY DEF NewModel
  <1> HIDE DEF none
  <1>4. NewModel \in ModelState BY <1>1, <1>2, <1>3 DEF ModelState
  <1> QED BY <1>3, <1>4

\* A backend that has no model yet.
LEMMA UnregisteredTyped ==
    /\ Unregistered \in BackendState /\ Unregistered.registered = FALSE
    /\ Unregistered.type = NoType /\ Unregistered.term = NoTerm
  BY DEF Unregistered, BackendState, Types

\* The service object is set or goes.
LEMMA ServiceObjectPages ==
    ASSUME ShowInv, PagesInv, NEW m \in Models, Attach(m) \/ Detach(m)
    PROVE  PagesInv'
  <1>1. /\ model \in [Models -> ModelState] /\ backend \in [Models -> BackendState]
        /\ events \in [Models -> Seq(Signals)] /\ asked \in [Models -> Types]
        /\ heap \in [Terms -> Queries \cup {Freed}]
    BY DEF PagesInv, TypedInv, TypeOK, BackendState
  <1>2. model[m].requested \in Types /\ model[m].term \in Terms \cup {NoTerm} BY <1>1 DEF ModelState
  <1>3. CASE Attach(m)
    <2> DEFINE b == [Unregistered EXCEPT !.registered = TRUE, !.type = model[m].requested]
               signals == Answers(model[m].requested)
    <2>1. /\ model[m].alive /\ ~model[m].attached /\ UNCHANGED <<heap, replies, asked>>
          /\ model' = [model EXCEPT ![m].attached = TRUE]
          /\ backend' = [backend EXCEPT ![m] = b]
          /\ events' = [events EXCEPT ![m] = signals]
      BY <1>3 DEF Attach
    <2>2. /\ b \in BackendState /\ b.registered = TRUE /\ b.type = model[m].requested
          /\ b.term = NoTerm
      BY <1>2, UnregisteredTyped DEF BackendState
    <2>3. signals \in Seq(Signals) /\ signals # <<>>
      <3>1. IsSignals(<<>>) BY DEF IsSignals
      <3> QED BY <1>2, <3>1, AnswersTyped, AnswersEnd
    <2> HIDE DEF b, signals
    <2>4. /\ model' \in [Models -> ModelState] /\ \A n \in Models \ {m} : model'[n] = model[n]
          /\ model'[m].attached = TRUE /\ model'[m].alive = model[m].alive
          /\ model'[m].requested = model[m].requested /\ model'[m].term = model[m].term
      <3> DEFINE d == [model[m] EXCEPT !.attached = TRUE]
      <3>1. /\ d \in ModelState /\ d.attached = TRUE /\ d.alive = model[m].alive
            /\ d.requested = model[m].requested /\ d.term = model[m].term
        BY <1>1 DEF ModelState
      <3>2. model' = [model EXCEPT ![m] = d] BY <2>1
      <3> HIDE DEF d
      <3> QED BY <1>1, <3>1, <3>2
    <2>5. /\ backend' \in [Models -> BackendState] /\ backend'[m] = b
          /\ \A n \in Models \ {m} : backend'[n] = backend[n]
          /\ events' \in [Models -> Seq(Signals)] /\ events'[m] = signals
          /\ \A n \in Models \ {m} : events'[n] = events[n]
      BY <1>1, <2>1, <2>2, <2>3
    <2>6. TypedInv' BY <2>1, <2>4, <2>5 DEF PagesInv, TypedInv, TypeOK, BackendState
    <2>7. Connected(model'[m], backend'[m]) BY <2>1, <2>2, <2>4, <2>5 DEF Connected
    <2>8. ~Quiet(m)' BY <2>3, <2>5 DEF Quiet
    <2>9. \A n \in Models \ {m} : Left(n) BY <2>4, <2>5 DEF Left
    <2>10. model[m].term = NoTerm BY <2>1 DEF PagesInv, Connected
    <2>11. backend'[m].term = NoTerm /\ model'[m].term = NoTerm BY <2>2, <2>4, <2>5, <2>10
    <2>12. Replaced(heap, heap', model[m].term, NoTerm, NoQuery)
      BY <2>1, <2>10, BrowseAssumption DEF Replaced
    <2> QED BY <2>4, <2>6, <2>7, <2>8, <2>9, <2>11, <2>12, NewTermPages
  <1>4. CASE Detach(m)
    <2> DEFINE d == [NewModel EXCEPT !.alive = TRUE, !.identifiers = model[m].identifiers]
               none == <<>>
    <2>1. /\ backend' = [backend EXCEPT ![m] = Unregistered] /\ heap' = Freeing(model[m].term)
          /\ model' = [model EXCEPT ![m] = d] /\ events' = [events EXCEPT ![m] = none]
          /\ asked' = [asked EXCEPT ![m] = NoType] /\ UNCHANGED replies
      BY <1>4 DEF Detach
    <2>2. /\ d \in ModelState /\ d.alive = TRUE /\ d.attached = FALSE /\ d.term = NoTerm
      <3>1. model[m].identifiers \in SUBSET UNION {Identifiers[ct] : ct \in ContentTypes}
        BY <1>1 DEF ModelState
      <3> QED BY <3>1, NewModelTyped DEF ModelState
    <2>3. none \in Seq(Signals) /\ none = <<>> OBVIOUS
    <2> HIDE DEF d, none
    <2>4. /\ model' \in [Models -> ModelState] /\ model'[m] = d
          /\ \A n \in Models \ {m} : model'[n] = model[n]
      BY <1>1, <2>1, <2>2
    <2>5. /\ backend' \in [Models -> BackendState] /\ backend'[m] = Unregistered
          /\ \A n \in Models \ {m} : backend'[n] = backend[n]
      BY <1>1, <2>1, UnregisteredTyped
    <2>6. /\ events' \in [Models -> Seq(Signals)] /\ events'[m] = <<>>
          /\ \A n \in Models \ {m} : events'[n] = events[n]
      BY <1>1, <2>1, <2>3
    <2>7. /\ heap' \in [Terms -> Queries \cup {Freed}]
          /\ \A u \in Terms : heap'[u] = IF u = model[m].term THEN Freed ELSE heap[u]
      BY <1>1, <2>1 DEF Freeing
    <2>8. asked' \in [Models -> Types] BY <1>1, <2>1 DEF Types
    <2>9. TypedInv' BY <2>1, <2>4, <2>5, <2>6, <2>7, <2>8 DEF PagesInv, TypedInv, TypeOK, BackendState
    <2>10. Connected(model'[m], backend'[m])
      BY <2>2, <2>4, <2>5, UnregisteredTyped DEF Connected
    <2>11. ~Quiet(m)' BY <2>2, <2>4 DEF Quiet
    <2>12. \A n \in Models \ {m} : Left(n) BY <2>4, <2>5, <2>6 DEF Left
    <2>13. backend'[m].term = NoTerm /\ model'[m].term = NoTerm
      BY <2>2, <2>4, <2>5, UnregisteredTyped
    <2>14. Replaced(heap, heap', model[m].term, NoTerm, NoQuery)
      BY <2>7, BrowseAssumption DEF Replaced
    <2> QED BY <2>6, <2>9, <2>10, <2>11, <2>12, <2>13, <2>14, NewTermPages
  <1> QED BY <1>3, <1>4

\* A model goes, and its term with it, which the backend keeps.
LEMMA DestroyPages ==
    ASSUME PagesInv, NEW m \in Models, Destroy(m)
    PROVE  PagesInv'
  <1> DEFINE none == <<>>
             old == model[m].term
  <1>1. /\ model \in [Models -> ModelState] /\ backend \in [Models -> BackendState]
        /\ events \in [Models -> Seq(Signals)] /\ asked \in [Models -> Types]
        /\ heap \in [Terms -> Queries \cup {Freed}]
    BY DEF PagesInv, TypedInv, TypeOK, BackendState
  <1>2. /\ backend' = backend /\ replies' = replies /\ heap' = Freeing(old)
        /\ model' = [model EXCEPT ![m] = NewModel] /\ events' = [events EXCEPT ![m] = none]
        /\ asked' = [asked EXCEPT ![m] = NoType]
    BY DEF Destroy
  <1>3. none \in Seq(Signals) /\ none = <<>> OBVIOUS
  <1> HIDE DEF none
  <1>4. /\ model' \in [Models -> ModelState] /\ model'[m] = NewModel
        /\ \A n \in Models \ {m} : model'[n] = model[n]
        /\ events' \in [Models -> Seq(Signals)] /\ events'[m] = <<>>
        /\ \A n \in Models \ {m} : events'[n] = events[n]
    BY <1>1, <1>2, <1>3, NewModelTyped
  <1>5. /\ heap' \in [Terms -> Queries \cup {Freed}]
        /\ \A u \in Terms : heap'[u] = IF u = old THEN Freed ELSE heap[u]
    BY <1>1, <1>2 DEF Freeing
  <1>6. asked' \in [Models -> Types] BY <1>1, <1>2 DEF Types
  <1>7. TypedInv' BY <1>1, <1>2, <1>4, <1>5, <1>6 DEF PagesInv, TypedInv, TypeOK, BackendState
  <1>8. TermsApart /\ \A n \in Models : backend[n].term \in Terms \cup {NoTerm}
    BY <1>1 DEF PagesInv, BackendState
  <1>9. \A n \in Models \ {m} : backend[n].term = NoTerm \/ backend[n].term # old
    BY <1>8 DEF TermsApart
  <1>10. \A n \in Models \ {m} : backend[n].term = NoTerm \/ heap'[backend[n].term] = heap[backend[n].term]
    BY <1>5, <1>8, <1>9
  <1>11. TermsApart'
    <2>1. ASSUME NEW n \in Models
          PROVE  \/ backend'[n].term = model'[n].term
                 \/ model'[n].term = NoTerm /\ heap'[backend'[n].term] = Freed
      <3>1. CASE n = m
        <4>1. model'[m].term = NoTerm BY <1>4, NewModelTyped
        <4>2. backend[m].term = NoTerm \/ heap'[backend[m].term] = Freed
          BY <1>5, <1>8 DEF TermsApart
        <4> QED BY <1>2, <3>1, <4>1, <4>2
      <3>2. CASE n # m BY <1>2, <1>4, <1>8, <1>10, <3>2 DEF TermsApart
      <3> QED BY <3>1, <3>2
    <2>2. \A u \in Terms : heap'[u] # Freed => \E n \in Models : backend'[n].term = u
      BY <1>2, <1>5, <1>8 DEF TermsApart
    <2>3. \A n, o \in Models : n # o /\ backend'[n].term = backend'[o].term => backend'[n].term = NoTerm
      BY <1>2, <1>8 DEF TermsApart
    <2> QED BY <2>1, <2>2, <2>3 DEF TermsApart
  <1>12. ASSUME NEW n \in Models
         PROVE  /\ Connected(model'[n], backend'[n])
                /\ ~model'[n].attached => events'[n] = <<>>
                /\ Quiet(n)' => Shown(model'[n], backend'[n], heap')
    <2>1. CASE n = m
      <3>1. ~Quiet(m)' BY <1>4, NewModelTyped DEF Quiet
      <3>2. Connected(model'[m], backend'[m])
        BY <1>2, <1>4, NewModelTyped DEF PagesInv, Connected
      <3> QED BY <1>4, <2>1, <3>1, <3>2
    <2>2. CASE n # m
      <3> DEFINE b == backend[n]
      <3>1. model'[n] = model[n] /\ backend'[n] = b /\ events'[n] = events[n]
        BY <1>2, <1>4, <2>2
      <3>2. Content(b.type, b.term, heap') = Content(b.type, b.term, heap)
        <4>1. b.term = NoTerm \/ heap'[b.term] = heap[b.term] BY <1>10, <2>2
        <4> HIDE DEF b
        <4> QED BY <4>1, SameContent
      <3>3. Quiet(n)' => Quiet(n) BY <3>1 DEF Quiet
      <3>4. Quiet(n)' => Shown(model[n], backend[n], heap) BY <3>3 DEF PagesInv
      <3>5. Quiet(n)' => Shown(model[n], backend[n], heap') BY <3>2, <3>4 DEF Shown
      <3> QED BY <3>1, <3>5 DEF PagesInv
    <2> QED BY <2>1, <2>2
  <1> QED BY <1>7, <1>11, <1>12 DEF PagesInv

\* The invariant of the pages holds initially.
LEMMA PagesInit == Init => PagesInv
  <1> SUFFICES ASSUME Init PROVE PagesInv OBVIOUS
  <1> DEFINE none == <<>>
  <1>1. none \in Seq(Signals) /\ none \in Seq(Answered) /\ none = <<>> OBVIOUS
  <1>2. events = [m \in Models |-> none] /\ replies = none BY DEF Init
  <1> HIDE DEF none
  <1>3. events \in [Models -> Seq(Signals)] /\ replies \in Seq(Answered)
        /\ \A m \in Models : events[m] = <<>>
    BY <1>1, <1>2
  <1>4. \A m \in Models : [NewModel EXCEPT !.alive = (m = Root)] \in ModelState
    <2> TAKE m \in Models
    <2>1. PICK x \in BOOLEAN : x = (m = Root) OBVIOUS
    <2>2. [NewModel EXCEPT !.alive = x] \in ModelState BY NewModelTyped DEF ModelState
    <2> QED BY <2>1, <2>2
  <1>5. model \in [Models -> ModelState] BY <1>4 DEF Init
  <1>6. \A m \in Models : model[m].attached = FALSE /\ model[m].term = NoTerm
    <2>1. \A m \in Models : model[m] = [NewModel EXCEPT !.alive = (m = Root)] BY DEF Init
    <2> QED BY <2>1 DEF NewModel
  <1>7. backend \in [Models -> BackendState] /\ \A m \in Models : backend[m] = Unregistered
    BY UnregisteredTyped DEF Init
  <1>8. heap \in [Terms -> Queries \cup {Freed}] /\ asked \in [Models -> Types]
        /\ \A t \in Terms : heap[t] = Freed
    BY DEF Init, Types
  <1>9. TypedInv BY <1>3, <1>5, <1>7, <1>8 DEF TypedInv, TypeOK, BackendState
  <1>10. TermsApart BY <1>6, <1>7, <1>8, UnregisteredTyped DEF TermsApart
  <1>11. \A m \in Models : Connected(model[m], backend[m]) /\ ~Quiet(m)
    BY <1>6, <1>7, UnregisteredTyped DEF Connected, Quiet
  <1> QED BY <1>3, <1>9, <1>10, <1>11 DEF PagesInv

\* Every step keeps it.
LEMMA PagesStep == ShowInv /\ PagesInv /\ [Next]_vars => PagesInv'
  <1> SUFFICES ASSUME ShowInv, PagesInv, [Next]_vars PROVE PagesInv' OBVIOUS
  <1>1. CASE UNCHANGED vars
    <2>1. UNCHANGED <<model, heap, backend, events, replies, asked>> BY <1>1 DEF vars
    <2>2. TypedInv' BY <2>1 DEF PagesInv, TypedInv, TypeOK
    <2> QED BY <2>1, <2>2, SamePages
  <1>2. ASSUME NEW m \in Models, FetchMore(m) PROVE PagesInv' BY <1>2, FetchMorePages
  <1>3. ASSUME NEW m \in Models, Deliver(m) PROVE PagesInv' BY <1>3, DeliverPages
  <1>4. NoQuery \in Queries BY BrowseAssumption
  <1>5. ASSUME NEW m \in Models, NEW q \in Queries, Reload(m) \/ SetQuery(m, q) PROVE PagesInv'
    BY <1>5, AskedPages
  <1>7. ASSUME NEW m \in Models, NEW ct \in ContentTypes, SetContentType(m, ct) PROVE PagesInv'
    BY <1>7, SetContentTypePages
  <1>8. ASSUME NEW m \in Models, NEW new \in Models, NEW i,
               GoBack(m) \/ GoForward(m, i) \/ GoForwardInto(m, i, new)
        PROVE  PagesInv'
    BY <1>8, NavigationsPages
  <1>9. ASSUME NEW i \in 1..Len(replies), Navigate(i) PROVE PagesInv' BY <1>9, NavigatePages
  <1>10. ASSUME NEW m \in Models, Attach(m) \/ Detach(m) PROVE PagesInv'
    BY <1>10, ServiceObjectPages
  <1>11. ASSUME NEW m \in Models, Destroy(m) PROVE PagesInv' BY <1>11, DestroyPages
  <1> QED BY <1>1, <1>2, <1>3, <1>4, <1>5, <1>7, <1>8, <1>9, <1>10, <1>11 DEF Next

\* Once the backend has told everything, the rows of a model are the first of the
\* content type and the filter, and canGoForward() is right about each of them;
\* every model and what its backend keeps has its type (fetchData() and
\* onCanGoForwardChanged(), qifpagingmodel.cpp; onContentTypeChanged(),
\* qiffilterandbrowsemodel.cpp).
THEOREM RowsRight == Spec => []RowsAreRight
  <1>1. ASSUME ShowInv, PagesInv PROVE RowsAreRight
    <2>1. TypeOK BY <1>1 DEF PagesInv, TypedInv
    <2>2. /\ model \in [Models -> ModelState] /\ backend \in [Models -> BackendState]
      BY <2>1 DEF TypeOK, BackendState
    <2>3. ASSUME NEW m \in Models, Quiet(m)
          PROVE  /\ Begins(model[m].rows, Content(model[m].type, backend[m].term, heap))
                 /\ Knows(model[m].forward, model[m].rows)
      <3>1. model[m].attached /\ events[m] = <<>> BY <2>3 DEF Quiet
      <3>2. model[m].type = model[m].requested BY <1>1, <3>1 DEF ShowInv, LastIsAsked
      <3>3. backend[m].type = model[m].requested BY <1>1, <3>1 DEF PagesInv, Connected
      <3>4. Shown(model[m], backend[m], heap) BY <1>1, <2>3 DEF PagesInv
      <3> QED BY <3>2, <3>3, <3>4 DEF Shown
    <2>4. RowsAreTheContents
      <3> SUFFICES ASSUME NEW m \in Models, Quiet(m)
                   PROVE  IsPrefix(model[m].rows, Content(model[m].type, backend[m].term, heap))
        BY DEF RowsAreTheContents
      <3> DEFINE p == model[m].rows
                 q == Content(model[m].type, backend[m].term, heap)
      <3>1. Begins(p, q) BY <2>3
      <3>2. model[m].type \in Types BY <2>2 DEF ModelState
      <3>3. p \in Seq(RowSet) /\ q \in Seq(RowSet)
        BY <2>2, <3>2, ContentTyped DEF ModelState, RowSet
      <3> HIDE DEF p, q
      <3>4. SubSeq(p, 1, Len(p)) = SubSeq(q, 1, Len(p)) BY <3>1, <3>3 DEF Begins
      <3>5. IsPrefix(p, q) BY <3>1, <3>4 DEF IsPrefix, Begins
      <3> QED BY <3>5 DEF p, q
    <2>5. ForwardIsTheRows
      <3> SUFFICES ASSUME NEW m \in Models, Quiet(m), NEW i \in 1..Len(model[m].rows)
                   PROVE  CanGoForward(m, i) <=> Child[model[m].rows[i]] # NoChild
        BY DEF ForwardIsTheRows
      <3>1. Knows(model[m].forward, model[m].rows) BY <2>3
      <3>2. model[m].rows \in Seq(RowSet) /\ model[m].forward \in Seq(BOOLEAN)
        BY <2>2 DEF ModelState, RowSet
      <3>3. i <= Len(model[m].forward) BY <3>1, <3>2 DEF Knows
      <3>4. model[m].forward[i] = HasChild(model[m].rows[i]) BY <3>1 DEF Knows
      <3> QED BY <3>3, <3>4 DEF CanGoForward, HasChild
    <2> QED BY <2>1, <2>4, <2>5 DEF RowsAreRight
  <1>2. ShowInv /\ PagesInv => RowsAreRight BY <1>1
  <1>3. ShowInv /\ PagesInv /\ [Next]_vars => PagesInv' BY PagesStep
  <1> QED BY <1>2, <1>3, ShowInit, ShowStep, PagesInit, PTL DEF Spec

-----------------------------------------------------------------------------
(* The folds that read a term and a query *)

\* One round of Values(): what nodes give of which the last n were read.
ValuesRound(list, start, row, k, n) ==
    IF n = 0 THEN start ELSE Valued(list[Len(list) + 1 - n], k[n - 1], row)

\* Values() is defined: its rounds exist.
LEMMA ValuesRoundsExist ==
    ASSUME NEW T, NEW list \in Seq(T), NEW start, NEW row
    PROVE  \E k : k = [n \in 0..Len(list) |-> ValuesRound(list, start, row, k, n)]
  <1> DEFINE N == Len(list)
             E == {m \in 0..N : \E k : k = [n \in 0..m |-> ValuesRound(list, start, row, k, n)]}
  <1>1. N \in Nat OBVIOUS
  <1>2. 0 \in E
    <2> DEFINE k == [n \in 0..0 |-> start]
    <2>1. \A n \in 0..0 : ValuesRound(list, start, row, k, n) = start BY DEF ValuesRound
    <2>2. k = [n \in 0..0 |-> ValuesRound(list, start, row, k, n)] BY <2>1
    <2> QED BY <2>2
  <1>3. ASSUME NEW m \in 0..(N - 1), m \in E PROVE m + 1 \in E
    <2>1. PICK k : k = [n \in 0..m |-> ValuesRound(list, start, row, k, n)] BY <1>3
    <2> DEFINE h == [n \in 0..(m + 1) |->
                       IF n <= m THEN k[n] ELSE ValuesRound(list, start, row, k, n)]
    <2>2. \A n \in 0..(m + 1) : h[n] = ValuesRound(list, start, row, h, n)
      <3> TAKE n \in 0..(m + 1)
      <3>1. ValuesRound(list, start, row, h, n) = ValuesRound(list, start, row, k, n)
        <4>1. CASE n = 0 BY <4>1 DEF ValuesRound
        <4>2. CASE n # 0
          <5>1. n - 1 \in 0..m /\ h[n - 1] = k[n - 1] BY <4>2
          <5> HIDE DEF h, N
          <5> QED BY <4>2, <5>1 DEF ValuesRound
        <4> QED BY <4>1, <4>2
      <3>2. n <= m => k[n] = ValuesRound(list, start, row, k, n) BY <2>1
      <3> QED BY <3>1, <3>2
    <2>3. h = [n \in 0..(m + 1) |-> ValuesRound(list, start, row, h, n)] BY <2>2
    <2>4. m + 1 \in 0..N OBVIOUS
    <2> HIDE DEF h
    <2> QED BY <2>3, <2>4
  <1> HIDE DEF E, N
  <1>4. \A m \in 0..N : m \in E BY <1>1, <1>2, <1>3, InductionUpTo
  <1>5. N \in E BY <1>1, <1>4
  <1> QED BY <1>5 DEF E, N

ValuesAt(list, start, row) ==
    CHOOSE k : k = [n \in 0..Len(list) |-> ValuesRound(list, start, row, k, n)]

LEMMA ValuesRounds ==
    ASSUME NEW T, NEW list \in Seq(T), NEW start, NEW row
    PROVE  /\ ValuesAt(list, start, row)[0] = start
           /\ ValuesAt(list, start, row)[Len(list)] = Values(list, start, row)
           /\ \A n \in 1..Len(list) : ValuesAt(list, start, row)[n] =
                 Valued(list[Len(list) + 1 - n], ValuesAt(list, start, row)[n - 1], row)
  <1> DEFINE N == Len(list)
             k == ValuesAt(list, start, row)
  <1>1. k = [n \in 0..N |-> ValuesRound(list, start, row, k, n)] BY ValuesRoundsExist DEF ValuesAt
  <1>2. Values(list, start, row) = k[N] BY DEF Values, ValuesRound, ValuesAt
  <1>3. N \in Nat OBVIOUS
  <1> HIDE DEF k
  <1>4. k[0] = start BY <1>1, <1>3 DEF ValuesRound
  <1>5. \A n \in 1..N : k[n] = Valued(list[N + 1 - n], k[n - 1], row)
    <2> TAKE n \in 1..N
    <2>1. n \in 0..N /\ n # 0 OBVIOUS
    <2>2. k[n] = ValuesRound(list, start, row, k, n) BY <1>1, <2>1
    <2> QED BY <2>1, <2>2 DEF ValuesRound
  <1> QED BY <1>2, <1>4, <1>5 DEF k

\* One node gives what Valued() says.
LEMMA ValuesOfOne ==
    ASSUME NEW x, NEW start, NEW row
    PROVE  Values(<<x>>, start, row) = Valued(x, start, row)
  <1>1. <<x>> \in Seq({x}) /\ Len(<<x>>) = 1 /\ <<x>>[1] = x OBVIOUS
  <1>2. PICK list : list = <<x>> OBVIOUS
  <1>3. list \in Seq({x}) /\ Len(list) = 1 /\ list[1] = x BY <1>1, <1>2
  <1>4. PICK k : k = ValuesAt(list, start, row) OBVIOUS
  <1>5. /\ k[0] = start /\ k[Len(list)] = Values(list, start, row)
        /\ \A n \in 1..Len(list) : k[n] = Valued(list[Len(list) + 1 - n], k[n - 1], row)
    <2>1. ValuesAt(list, start, row)[0] = start BY <1>3, ValuesRounds
    <2>2. ValuesAt(list, start, row)[Len(list)] = Values(list, start, row) BY <1>3, ValuesRounds
    <2>3. ASSUME NEW i \in 1..Len(list)
          PROVE  ValuesAt(list, start, row)[i] =
                    Valued(list[Len(list) + 1 - i], ValuesAt(list, start, row)[i - 1], row)
      BY <1>3, ValuesRounds
    <2> QED BY <2>1, <2>2, <2>3, <1>3, <1>4
  <1>6. 1 \in 1..Len(list) /\ Len(list) + 1 - 1 = 1 /\ 1 - 1 = 0 BY <1>3
  <1>7. k[1] = Valued(list[Len(list) + 1 - 1], k[1 - 1], row) BY <1>5, <1>6
  <1>8. k[1] = Valued(x, start, row) BY <1>3, <1>5, <1>6, <1>7
  <1> QED BY <1>2, <1>3, <1>5, <1>8

\* Nodes in front of others go on with what these have given.
LEMMA ValuesOfBoth ==
    ASSUME NEW T, NEW p \in Seq(T), NEW q \in Seq(T), NEW start, NEW row
    PROVE  Values(p \o q, start, row) = Values(p, Values(q, start, row), row)
  <1>1. PICK n \in Nat, m \in Nat : n = Len(p) /\ m = Len(q) OBVIOUS
  <1>2. PICK list \in Seq(T) : list = p \o q
    <2>1. p \o q \in Seq(T) OBVIOUS
    <2> QED BY <2>1
  <1>3. Len(list) = n + m BY <1>1, <1>2
  <1>4. /\ \A i \in 1..n : list[i] = p[i]
        /\ \A i \in 1..m : list[n + i] = q[i]
    BY <1>1, <1>2
  <1>5. PICK k : k = ValuesAt(list, start, row) OBVIOUS
  <1>6. PICK h : h = ValuesAt(q, start, row) OBVIOUS
  <1>7. PICK g : g = ValuesAt(p, h[m], row) OBVIOUS
  <1>8. /\ k[0] = start /\ k[n + m] = Values(list, start, row)
        /\ \A i \in 1..(n + m) : k[i] = Valued(list[n + m + 1 - i], k[i - 1], row)
    <2>1. ValuesAt(list, start, row)[0] = start BY ValuesRounds
    <2>2. ValuesAt(list, start, row)[Len(list)] = Values(list, start, row) BY ValuesRounds
    <2>3. ASSUME NEW i \in 1..Len(list)
          PROVE  ValuesAt(list, start, row)[i] =
                    Valued(list[Len(list) + 1 - i], ValuesAt(list, start, row)[i - 1], row)
      BY ValuesRounds
    <2> QED BY <2>1, <2>2, <2>3, <1>3, <1>5
  <1>9. /\ h[0] = start /\ h[m] = Values(q, start, row)
        /\ \A i \in 1..m : h[i] = Valued(q[m + 1 - i], h[i - 1], row)
    <2>1. ValuesAt(q, start, row)[0] = start BY ValuesRounds
    <2>2. ValuesAt(q, start, row)[Len(q)] = Values(q, start, row) BY ValuesRounds
    <2>3. ASSUME NEW i \in 1..Len(q)
          PROVE  ValuesAt(q, start, row)[i] =
                    Valued(q[Len(q) + 1 - i], ValuesAt(q, start, row)[i - 1], row)
      BY ValuesRounds
    <2> QED BY <2>1, <2>2, <2>3, <1>1, <1>6
  <1>10. /\ g[0] = h[m] /\ g[n] = Values(p, h[m], row)
         /\ \A i \in 1..n : g[i] = Valued(p[n + 1 - i], g[i - 1], row)
    <2>1. ValuesAt(p, h[m], row)[0] = h[m] BY ValuesRounds
    <2>2. ValuesAt(p, h[m], row)[Len(p)] = Values(p, h[m], row) BY ValuesRounds
    <2>3. ASSUME NEW i \in 1..Len(p)
          PROVE  ValuesAt(p, h[m], row)[i] =
                    Valued(p[Len(p) + 1 - i], ValuesAt(p, h[m], row)[i - 1], row)
      BY ValuesRounds
    <2> QED BY <2>1, <2>2, <2>3, <1>1, <1>7
  <1>11. \A i \in 0..m : k[i] = h[i]
    <2> DEFINE E == {i \in 0..m : k[i] = h[i]}
    <2>1. 0 \in E BY <1>8, <1>9
    <2>2. ASSUME NEW i \in 0..(m - 1), i \in E PROVE i + 1 \in E
      <3>1. PICK j \in 1..m : j = i + 1 OBVIOUS
      <3>2. j \in 1..(n + m) /\ j - 1 = i BY <3>1
      <3>3. m + 1 - j \in 1..m /\ n + m + 1 - j = n + (m + 1 - j) BY <3>1
      <3>4. list[n + m + 1 - j] = q[m + 1 - j] BY <1>4, <3>3
      <3>5. k[j] = Valued(list[n + m + 1 - j], k[j - 1], row) BY <1>8, <3>2
      <3>6. h[j] = Valued(q[m + 1 - j], h[j - 1], row) BY <1>9, <3>1
      <3>7. k[j - 1] = h[j - 1] BY <2>2, <3>2
      <3>8. k[j] = h[j] BY <3>4, <3>5, <3>6, <3>7
      <3> QED BY <3>1, <3>8
    <2> HIDE DEF E
    <2>3. \A i \in 0..m : i \in E BY <2>1, <2>2, InductionUpTo
    <2> QED BY <2>3 DEF E
  <1>12. \A i \in 0..n : k[m + i] = g[i]
    <2> DEFINE E == {i \in 0..n : k[m + i] = g[i]}
    <2>1. 0 \in E
      <3>1. m \in 0..m /\ m + 0 = m OBVIOUS
      <3> QED BY <1>10, <1>11, <3>1
    <2>2. ASSUME NEW i \in 0..(n - 1), i \in E PROVE i + 1 \in E
      <3>1. PICK j \in 1..n : j = i + 1 OBVIOUS
      <3>2. PICK r \in 1..(n + m) : r = m + j OBVIOUS
      <3>3. j - 1 = i /\ r - 1 = m + i BY <3>1, <3>2
      <3>4. n + 1 - j \in 1..n /\ n + m + 1 - r = n + 1 - j BY <3>1, <3>2
      <3>5. list[n + m + 1 - r] = p[n + 1 - j] BY <1>4, <3>4
      <3>6. k[r] = Valued(list[n + m + 1 - r], k[r - 1], row) BY <1>8, <3>2
      <3>7. g[j] = Valued(p[n + 1 - j], g[j - 1], row) BY <1>10, <3>1
      <3>8. k[r - 1] = g[j - 1] BY <2>2, <3>3
      <3>9. k[r] = g[j] BY <3>5, <3>6, <3>7, <3>8
      <3> QED BY <3>1, <3>2, <3>9
    <2> HIDE DEF E
    <2>3. \A i \in 0..n : i \in E BY <2>1, <2>2, InductionUpTo
    <2> QED BY <2>3 DEF E
  <1>13. n \in 0..n /\ m + n = n + m OBVIOUS
  <1>14. k[n + m] = g[n] BY <1>12, <1>13
  <1> QED BY <1>2, <1>8, <1>9, <1>10, <1>14

\* One round of Groups(): what tokens give of which the last n were read.
GroupsRound(list, start, row, k, n) ==
    IF n = 0 THEN start ELSE Heard(list[Len(list) + 1 - n], k[n - 1], row)

\* Groups() is defined: its rounds exist.
LEMMA GroupsRoundsExist ==
    ASSUME NEW T, NEW list \in Seq(T), NEW start, NEW row
    PROVE  \E k : k = [n \in 0..Len(list) |-> GroupsRound(list, start, row, k, n)]
  <1> DEFINE N == Len(list)
             E == {m \in 0..N : \E k : k = [n \in 0..m |-> GroupsRound(list, start, row, k, n)]}
  <1>1. N \in Nat OBVIOUS
  <1>2. 0 \in E
    <2> DEFINE k == [n \in 0..0 |-> start]
    <2>1. \A n \in 0..0 : GroupsRound(list, start, row, k, n) = start BY DEF GroupsRound
    <2>2. k = [n \in 0..0 |-> GroupsRound(list, start, row, k, n)] BY <2>1
    <2> QED BY <2>2
  <1>3. ASSUME NEW m \in 0..(N - 1), m \in E PROVE m + 1 \in E
    <2>1. PICK k : k = [n \in 0..m |-> GroupsRound(list, start, row, k, n)] BY <1>3
    <2> DEFINE h == [n \in 0..(m + 1) |->
                       IF n <= m THEN k[n] ELSE GroupsRound(list, start, row, k, n)]
    <2>2. \A n \in 0..(m + 1) : h[n] = GroupsRound(list, start, row, h, n)
      <3> TAKE n \in 0..(m + 1)
      <3>1. GroupsRound(list, start, row, h, n) = GroupsRound(list, start, row, k, n)
        <4>1. CASE n = 0 BY <4>1 DEF GroupsRound
        <4>2. CASE n # 0
          <5>1. n - 1 \in 0..m /\ h[n - 1] = k[n - 1] BY <4>2
          <5> HIDE DEF h, N
          <5> QED BY <4>2, <5>1 DEF GroupsRound
        <4> QED BY <4>1, <4>2
      <3>2. n <= m => k[n] = GroupsRound(list, start, row, k, n) BY <2>1
      <3> QED BY <3>1, <3>2
    <2>3. h = [n \in 0..(m + 1) |-> GroupsRound(list, start, row, h, n)] BY <2>2
    <2>4. m + 1 \in 0..N OBVIOUS
    <2> HIDE DEF h
    <2> QED BY <2>3, <2>4
  <1> HIDE DEF E, N
  <1>4. \A m \in 0..N : m \in E BY <1>1, <1>2, <1>3, InductionUpTo
  <1>5. N \in E BY <1>1, <1>4
  <1> QED BY <1>5 DEF E, N

GroupsAt(list, start, row) ==
    CHOOSE k : k = [n \in 0..Len(list) |-> GroupsRound(list, start, row, k, n)]

LEMMA GroupsRounds ==
    ASSUME NEW T, NEW list \in Seq(T), NEW start, NEW row
    PROVE  /\ GroupsAt(list, start, row)[0] = start
           /\ GroupsAt(list, start, row)[Len(list)] = Groups(list, start, row)
           /\ \A n \in 1..Len(list) : GroupsAt(list, start, row)[n] =
                 Heard(list[Len(list) + 1 - n], GroupsAt(list, start, row)[n - 1], row)
  <1> DEFINE N == Len(list)
             k == GroupsAt(list, start, row)
  <1>1. k = [n \in 0..N |-> GroupsRound(list, start, row, k, n)] BY GroupsRoundsExist DEF GroupsAt
  <1>2. Groups(list, start, row) = k[N] BY DEF Groups, GroupsRound, GroupsAt
  <1>3. N \in Nat OBVIOUS
  <1> HIDE DEF k
  <1>4. k[0] = start BY <1>1, <1>3 DEF GroupsRound
  <1>5. \A n \in 1..N : k[n] = Heard(list[N + 1 - n], k[n - 1], row)
    <2> TAKE n \in 1..N
    <2>1. n \in 0..N /\ n # 0 OBVIOUS
    <2>2. k[n] = GroupsRound(list, start, row, k, n) BY <1>1, <2>1
    <2> QED BY <2>1, <2>2 DEF GroupsRound
  <1> QED BY <1>2, <1>4, <1>5 DEF k

\* One token is heard as Heard() says.
LEMMA GroupsOfOne ==
    ASSUME NEW x, NEW start, NEW row
    PROVE  Groups(<<x>>, start, row) = Heard(x, start, row)
  <1>1. <<x>> \in Seq({x}) /\ Len(<<x>>) = 1 /\ <<x>>[1] = x OBVIOUS
  <1>2. PICK list : list = <<x>> OBVIOUS
  <1>3. list \in Seq({x}) /\ Len(list) = 1 /\ list[1] = x BY <1>1, <1>2
  <1>4. PICK k : k = GroupsAt(list, start, row) OBVIOUS
  <1>5. /\ k[0] = start /\ k[Len(list)] = Groups(list, start, row)
        /\ \A n \in 1..Len(list) : k[n] = Heard(list[Len(list) + 1 - n], k[n - 1], row)
    <2>1. GroupsAt(list, start, row)[0] = start BY <1>3, GroupsRounds
    <2>2. GroupsAt(list, start, row)[Len(list)] = Groups(list, start, row) BY <1>3, GroupsRounds
    <2>3. ASSUME NEW i \in 1..Len(list)
          PROVE  GroupsAt(list, start, row)[i] =
                    Heard(list[Len(list) + 1 - i], GroupsAt(list, start, row)[i - 1], row)
      BY <1>3, GroupsRounds
    <2> QED BY <2>1, <2>2, <2>3, <1>3, <1>4
  <1>6. 1 \in 1..Len(list) /\ Len(list) + 1 - 1 = 1 /\ 1 - 1 = 0 BY <1>3
  <1>7. k[1] = Heard(list[Len(list) + 1 - 1], k[1 - 1], row) BY <1>5, <1>6
  <1>8. k[1] = Heard(x, start, row) BY <1>3, <1>5, <1>6, <1>7
  <1> QED BY <1>2, <1>3, <1>5, <1>8

\* Tokens in front of others go on with what these have given.
LEMMA GroupsOfBoth ==
    ASSUME NEW T, NEW p \in Seq(T), NEW q \in Seq(T), NEW start, NEW row
    PROVE  Groups(p \o q, start, row) = Groups(p, Groups(q, start, row), row)
  <1>1. PICK n \in Nat, m \in Nat : n = Len(p) /\ m = Len(q) OBVIOUS
  <1>2. PICK list \in Seq(T) : list = p \o q
    <2>1. p \o q \in Seq(T) OBVIOUS
    <2> QED BY <2>1
  <1>3. Len(list) = n + m BY <1>1, <1>2
  <1>4. /\ \A i \in 1..n : list[i] = p[i]
        /\ \A i \in 1..m : list[n + i] = q[i]
    BY <1>1, <1>2
  <1>5. PICK k : k = GroupsAt(list, start, row) OBVIOUS
  <1>6. PICK h : h = GroupsAt(q, start, row) OBVIOUS
  <1>7. PICK g : g = GroupsAt(p, h[m], row) OBVIOUS
  <1>8. /\ k[0] = start /\ k[n + m] = Groups(list, start, row)
        /\ \A i \in 1..(n + m) : k[i] = Heard(list[n + m + 1 - i], k[i - 1], row)
    <2>1. GroupsAt(list, start, row)[0] = start BY GroupsRounds
    <2>2. GroupsAt(list, start, row)[Len(list)] = Groups(list, start, row) BY GroupsRounds
    <2>3. ASSUME NEW i \in 1..Len(list)
          PROVE  GroupsAt(list, start, row)[i] =
                    Heard(list[Len(list) + 1 - i], GroupsAt(list, start, row)[i - 1], row)
      BY GroupsRounds
    <2> QED BY <2>1, <2>2, <2>3, <1>3, <1>5
  <1>9. /\ h[0] = start /\ h[m] = Groups(q, start, row)
        /\ \A i \in 1..m : h[i] = Heard(q[m + 1 - i], h[i - 1], row)
    <2>1. GroupsAt(q, start, row)[0] = start BY GroupsRounds
    <2>2. GroupsAt(q, start, row)[Len(q)] = Groups(q, start, row) BY GroupsRounds
    <2>3. ASSUME NEW i \in 1..Len(q)
          PROVE  GroupsAt(q, start, row)[i] =
                    Heard(q[Len(q) + 1 - i], GroupsAt(q, start, row)[i - 1], row)
      BY GroupsRounds
    <2> QED BY <2>1, <2>2, <2>3, <1>1, <1>6
  <1>10. /\ g[0] = h[m] /\ g[n] = Groups(p, h[m], row)
         /\ \A i \in 1..n : g[i] = Heard(p[n + 1 - i], g[i - 1], row)
    <2>1. GroupsAt(p, h[m], row)[0] = h[m] BY GroupsRounds
    <2>2. GroupsAt(p, h[m], row)[Len(p)] = Groups(p, h[m], row) BY GroupsRounds
    <2>3. ASSUME NEW i \in 1..Len(p)
          PROVE  GroupsAt(p, h[m], row)[i] =
                    Heard(p[Len(p) + 1 - i], GroupsAt(p, h[m], row)[i - 1], row)
      BY GroupsRounds
    <2> QED BY <2>1, <2>2, <2>3, <1>1, <1>7
  <1>11. \A i \in 0..m : k[i] = h[i]
    <2> DEFINE E == {i \in 0..m : k[i] = h[i]}
    <2>1. 0 \in E BY <1>8, <1>9
    <2>2. ASSUME NEW i \in 0..(m - 1), i \in E PROVE i + 1 \in E
      <3>1. PICK j \in 1..m : j = i + 1 OBVIOUS
      <3>2. j \in 1..(n + m) /\ j - 1 = i BY <3>1
      <3>3. m + 1 - j \in 1..m /\ n + m + 1 - j = n + (m + 1 - j) BY <3>1
      <3>4. list[n + m + 1 - j] = q[m + 1 - j] BY <1>4, <3>3
      <3>5. k[j] = Heard(list[n + m + 1 - j], k[j - 1], row) BY <1>8, <3>2
      <3>6. h[j] = Heard(q[m + 1 - j], h[j - 1], row) BY <1>9, <3>1
      <3>7. k[j - 1] = h[j - 1] BY <2>2, <3>2
      <3>8. k[j] = h[j] BY <3>4, <3>5, <3>6, <3>7
      <3> QED BY <3>1, <3>8
    <2> HIDE DEF E
    <2>3. \A i \in 0..m : i \in E BY <2>1, <2>2, InductionUpTo
    <2> QED BY <2>3 DEF E
  <1>12. \A i \in 0..n : k[m + i] = g[i]
    <2> DEFINE E == {i \in 0..n : k[m + i] = g[i]}
    <2>1. 0 \in E
      <3>1. m \in 0..m /\ m + 0 = m OBVIOUS
      <3> QED BY <1>10, <1>11, <3>1
    <2>2. ASSUME NEW i \in 0..(n - 1), i \in E PROVE i + 1 \in E
      <3>1. PICK j \in 1..n : j = i + 1 OBVIOUS
      <3>2. PICK r \in 1..(n + m) : r = m + j OBVIOUS
      <3>3. j - 1 = i /\ r - 1 = m + i BY <3>1, <3>2
      <3>4. n + 1 - j \in 1..n /\ n + m + 1 - r = n + 1 - j BY <3>1, <3>2
      <3>5. list[n + m + 1 - r] = p[n + 1 - j] BY <1>4, <3>4
      <3>6. k[r] = Heard(list[n + m + 1 - r], k[r - 1], row) BY <1>8, <3>2
      <3>7. g[j] = Heard(p[n + 1 - j], g[j - 1], row) BY <1>10, <3>1
      <3>8. k[r - 1] = g[j - 1] BY <2>2, <3>3
      <3>9. k[r] = g[j] BY <3>5, <3>6, <3>7, <3>8
      <3> QED BY <3>1, <3>2, <3>9
    <2> HIDE DEF E
    <2>3. \A i \in 0..n : i \in E BY <2>1, <2>2, InductionUpTo
    <2> QED BY <2>3 DEF E
  <1>13. n \in 0..n /\ m + n = n + m OBVIOUS
  <1>14. k[n + m] = g[n] BY <1>12, <1>13
  <1> QED BY <1>2, <1>8, <1>9, <1>10, <1>14

-----------------------------------------------------------------------------
(* Terms *)

Comparisons == NumberOps \cup MultiOps \cup StringOps
\* The identifiers that checkIdentifier() lets through
Known == IF Allowed = {} THEN Names ELSE Allowed

FilterNodes == [type : {"filter"}, property : Known, operator : Comparisons,
                value : Numbers \cup Texts, negated : BOOLEAN]
ScopeNodes == [type : {"scope"}, negated : BOOLEAN]
ConjunctionNodes == [type : {"conjunction"}, conjunction : {"And", "Or"}, terms : Nat \ {0}]
Leaves == FilterNodes \cup ScopeNodes
Nodes == Leaves \cup ConjunctionNodes

\* A filter or a scope; and what a complex_clause may be: also a conjunction that
\* begins with one.
Simple(term) == term \in Seq(Nodes) /\ term # <<>> /\ term[1] \in Leaves
Complex(term) ==
    \/ Simple(term)
    \/ /\ term \in Seq(Nodes) /\ term # <<>>
       /\ term[1] \in ConjunctionNodes /\ Simple(Tail(term))

\* What nodes make of the values of the terms after them: they put their own before.
Gives(nodes, vs, row) ==
    \A others \in Seq(BOOLEAN) : Values(nodes, others, row) = vs \o others

\* The value of a conjunction
Together(c, vs) ==
    IF c = "And" THEN \A i \in DOMAIN vs : vs[i] ELSE \E i \in DOMAIN vs : vs[i]

\* A term has the value v.
Has(term, v, row) ==
    /\ v \in BOOLEAN /\ Gives(term, <<v>>, row)
    /\ term[1].type = "conjunction" =>
         \E vs \in Seq(BOOLEAN) :
            /\ Len(vs) = term[1].terms /\ Gives(Tail(term), vs, row)
            /\ v = Together(term[1].conjunction, vs)

\* Each kind of node has its fields.
LEMMA NodeTypes ==
    /\ \A x \in Leaves : x.type \in {"filter", "scope"} /\ x.negated \in BOOLEAN
    /\ \A x \in ConjunctionNodes : /\ x.type = "conjunction" /\ x.conjunction \in {"And", "Or"}
                                   /\ x.terms \in Nat \ {0}
    /\ \A x \in Nodes : x.type = "conjunction" <=> x \in ConjunctionNodes
    /\ \A x \in Nodes : x.type = "filter" <=> x \in FilterNodes
  BY DEF Nodes, Leaves, FilterNodes, ScopeNodes, ConjunctionNodes

\* Nodes before others put their values before.
LEMMA GivesBoth ==
    ASSUME NEW T, NEW p \in Seq(T), NEW q \in Seq(T), NEW row,
           NEW vs \in Seq(BOOLEAN), NEW ws \in Seq(BOOLEAN),
           Gives(p, vs, row), Gives(q, ws, row)
    PROVE  Gives(p \o q, vs \o ws, row)
  <1> SUFFICES ASSUME NEW others \in Seq(BOOLEAN)
               PROVE  Values(p \o q, others, row) = (vs \o ws) \o others
    BY DEF Gives
  <1>1. Values(p \o q, others, row) = Values(p, Values(q, others, row), row)
    BY ValuesOfBoth
  <1>2. Values(q, others, row) = ws \o others BY DEF Gives
  <1>3. ws \o others \in Seq(BOOLEAN) OBVIOUS
  <1>4. Values(p, ws \o others, row) = vs \o (ws \o others) BY <1>3 DEF Gives
  <1>5. vs \o (ws \o others) = (vs \o ws) \o others BY ConcatAssociative
  <1> QED BY <1>1, <1>2, <1>4, <1>5

\* A node before others
LEMMA GivesBefore ==
    ASSUME NEW T, NEW x \in T, NEW q \in Seq(T), NEW row,
           NEW ws \in Seq(BOOLEAN), Gives(q, ws, row), NEW others \in Seq(BOOLEAN)
    PROVE  Values(<<x>> \o q, others, row) = Valued(x, ws \o others, row)
  <1>1. PICK p \in Seq(T) : p = <<x>>
    <2>1. <<x>> \in Seq(T) OBVIOUS
    <2> QED BY <2>1
  <1>2. Values(p \o q, others, row) = Values(p, Values(q, others, row), row)
    BY ValuesOfBoth
  <1>3. Values(q, others, row) = ws \o others BY DEF Gives
  <1> QED BY <1>1, <1>2, <1>3, ValuesOfOne

\* A filter has the value of its row.
LEMMA FilterHas ==
    ASSUME NEW x \in FilterNodes, NEW row
    PROVE  Has(<<x>>, (Atom(x) \in row) # x.negated, row)
  <1>1. x.type = "filter" BY DEF FilterNodes
  <1>2. PICK v \in BOOLEAN : v = ((Atom(x) \in row) # x.negated) OBVIOUS
  <1>3. ASSUME NEW others \in Seq(BOOLEAN) PROVE Values(<<x>>, others, row) = <<v>> \o others
    BY <1>1, <1>2, ValuesOfOne DEF Valued
  <1>4. Gives(<<x>>, <<v>>, row) BY <1>3 DEF Gives
  <1>5. <<x>>[1].type # "conjunction" BY <1>1
  <1> QED BY <1>2, <1>4, <1>5 DEF Has

\* A scope has the value of the term in it.
LEMMA ScopeHas ==
    ASSUME NEW x \in ScopeNodes, NEW term \in Seq(Nodes), NEW v, NEW row, Has(term, v, row)
    PROVE  Has(<<x>> \o term, v # x.negated, row)
  <1>1. x.type = "scope" /\ x \in Nodes BY DEF ScopeNodes, Nodes, Leaves
  <1>2. v \in BOOLEAN /\ Gives(term, <<v>>, row) BY DEF Has
  <1>3. PICK w \in BOOLEAN : w = (v # x.negated) OBVIOUS
  <1>4. ASSUME NEW others \in Seq(BOOLEAN)
        PROVE  Values(<<x>> \o term, others, row) = <<w>> \o others
    <2>1. <<v>> \in Seq(BOOLEAN) BY <1>2
    <2>2. Values(<<x>> \o term, others, row) = Valued(x, <<v>> \o others, row)
      BY <1>1, <1>2, <2>1, GivesBefore
    <2>3. (<<v>> \o others)[1] = v /\ Tail(<<v>> \o others) = others BY <1>2
    <2>4. Valued(x, <<v>> \o others, row) = <<v # x.negated>> \o others
      BY <1>1, <2>3 DEF Valued
    <2> QED BY <1>3, <2>2, <2>4
  <1>5. Gives(<<x>> \o term, <<w>>, row) BY <1>4 DEF Gives
  <1>6. (<<x>> \o term)[1] = x OBVIOUS
  <1>7. (<<x>> \o term)[1].type # "conjunction" BY <1>1, <1>6
  <1> QED BY <1>3, <1>5, <1>7 DEF Has

\* A term and the parts of another, put together by a conjunction
Both(left, r, c) ==
    <<ConjunctionNode(c, 1 + Count(r, c))>> \o (left \o Parts(r, c))

\* One of two values and another, put together
Combined(c, u, v) == IF c = "And" THEN u /\ v ELSE u \/ v

\* handleConjunction() on a simple term on the left
LEMMA HandleConjunctionIsBoth ==
    ASSUME NEW left, Simple(left), NEW right, NEW c, NEW bang
    PROVE  HandleConjunction(left, right, c, bang)
              = Both(left, IF bang THEN Negated(right) ELSE right, c)
  <1>1. ~Joins(left, c)
    BY NodeTypes DEF Simple, Joins
  <1>2. Parts(left, c) = left /\ Count(left, c) = 1 BY <1>1 DEF Parts, Count
  <1> QED BY <1>1, <1>2 DEF HandleConjunction, Both

\* What the parts of a term are
LEMMA PartsOf ==
    ASSUME NEW r \in Seq(Nodes), r # <<>>, NEW c
    PROVE  /\ Parts(r, c) \in Seq(Nodes)
           /\ Count(r, c) \in Nat \ {0}
  <1>1. r[1] \in Nodes BY ElementOfSeq
  <1>2. CASE Joins(r, c)
    <2>1. r[1].terms \in Nat \ {0} BY <1>1, <1>2, NodeTypes DEF Joins
    <2> QED BY <1>2, <2>1 DEF Parts, Count
  <1>3. CASE ~Joins(r, c) BY <1>3 DEF Parts, Count
  <1> QED BY <1>2, <1>3

\* The parts of a term have values that come together to that of the term.
LEMMA PartsGive ==
    ASSUME NEW r \in Seq(Nodes), r # <<>>, NEW c \in {"And", "Or"}, NEW v, NEW row,
           Has(r, v, row)
    PROVE  \E vs \in Seq(BOOLEAN) :
              /\ Len(vs) = Count(r, c) /\ Gives(Parts(r, c), vs, row)
              /\ v = Together(c, vs)
  <1>1. CASE Joins(r, c)
    <2>1. r[1].type = "conjunction" /\ r[1].conjunction = c BY <1>1 DEF Joins
    <2>2. PICK vs \in Seq(BOOLEAN) : /\ Len(vs) = r[1].terms /\ Gives(Tail(r), vs, row)
                                     /\ v = Together(r[1].conjunction, vs)
      BY <2>1 DEF Has
    <2>3. Parts(r, c) = Tail(r) /\ Count(r, c) = r[1].terms BY <1>1 DEF Parts, Count
    <2> QED BY <2>1, <2>2, <2>3
  <1>2. CASE ~Joins(r, c)
    <2>1. v \in BOOLEAN /\ Gives(r, <<v>>, row) BY DEF Has
    <2>2. Parts(r, c) = r /\ Count(r, c) = 1 BY <1>2 DEF Parts, Count
    <2>3. PICK vs \in Seq(BOOLEAN) : vs = <<v>>
      <3>1. <<v>> \in Seq(BOOLEAN) BY <2>1
      <3> QED BY <3>1
    <2>4. Len(vs) = 1 /\ DOMAIN vs = {1} /\ vs[1] = v BY <2>3
    <2>5. v = Together(c, vs) BY <2>1, <2>4 DEF Together
    <2> QED BY <2>1, <2>2, <2>3, <2>4, <2>5
  <1> QED BY <1>1, <1>2

LEMMA TogetherWithOne ==
    ASSUME NEW c \in {"And", "Or"}, NEW u \in BOOLEAN, NEW vs \in Seq(BOOLEAN)
    PROVE  Together(c, <<u>> \o vs) = Combined(c, u, Together(c, vs))
  <1> DEFINE ws == <<u>> \o vs
  <1>1. /\ DOMAIN ws = 1..(1 + Len(vs)) /\ DOMAIN vs = 1..Len(vs) /\ Len(vs) \in Nat
        /\ ws[1] = u /\ \A i \in 1..Len(vs) : ws[i + 1] = vs[i]
    OBVIOUS
  <1> HIDE DEF ws
  <1>2. \A i \in DOMAIN ws : i = 1 \/ (i - 1 \in DOMAIN vs /\ ws[i] = vs[i - 1])
    <2> TAKE i \in DOMAIN ws
    <2>1. i = 1 \/ (i - 1 \in 1..Len(vs) /\ i - 1 + 1 = i) BY <1>1
    <2> QED BY <1>1, <2>1
  <1>3. \A i \in DOMAIN vs : i + 1 \in DOMAIN ws /\ ws[i + 1] = vs[i] BY <1>1
  <1>4. 1 \in DOMAIN ws BY <1>1
  <1>5. (\A i \in DOMAIN ws : ws[i]) <=> (u /\ \A i \in DOMAIN vs : vs[i])
    BY <1>1, <1>2, <1>3, <1>4, Zenon
  <1>6. (\E i \in DOMAIN ws : ws[i]) <=> (u \/ \E i \in DOMAIN vs : vs[i])
    BY <1>1, <1>2, <1>3, <1>4, Zenon
  <1>7. \A i \in DOMAIN ws : ws[i] \in BOOLEAN BY DEF ws
  <1>8. Together(c, ws) \in BOOLEAN /\ Combined(c, u, Together(c, vs)) \in BOOLEAN
    BY DEF Together, Combined
  <1>9. Together(c, ws) <=> Combined(c, u, Together(c, vs))
    BY <1>5, <1>6, Zenon DEF Together, Combined
  <1> QED BY <1>8, <1>9 DEF ws

\* The conjunction of two terms has their values put together.
LEMMA ConjunctionHas ==
    ASSUME NEW left \in Seq(Nodes), left # <<>>, NEW r \in Seq(Nodes), r # <<>>,
           NEW c \in {"And", "Or"}, NEW row, NEW u, NEW v, Has(left, u, row), Has(r, v, row)
    PROVE  Has(Both(left, r, c), Combined(c, u, v), row)
  <1>1. u \in BOOLEAN /\ v \in BOOLEAN /\ Gives(left, <<u>>, row) BY DEF Has
  <1>2. PICK vs \in Seq(BOOLEAN) :
            Len(vs) = Count(r, c) /\ Gives(Parts(r, c), vs, row) /\ v = Together(c, vs)
    BY PartsGive
  <1>3. Parts(r, c) \in Seq(Nodes) /\ Count(r, c) \in Nat \ {0} BY PartsOf
  <1>4. PICK body : body = left \o Parts(r, c) OBVIOUS
  <1>5. body \in Seq(Nodes) BY <1>3, <1>4
  <1>6. PICK ws \in Seq(BOOLEAN) : ws = <<u>> \o vs
    <2>1. <<u>> \o vs \in Seq(BOOLEAN) BY <1>1
    <2> QED BY <2>1
  <1>7. Len(ws) = 1 + Count(r, c) BY <1>1, <1>2, <1>6
  <1>8. Gives(body, ws, row)
    <2>1. <<u>> \in Seq(BOOLEAN) BY <1>1
    <2> QED BY <1>1, <1>2, <1>3, <1>4, <1>6, <2>1, GivesBoth
  <1>9. PICK x : x = ConjunctionNode(c, 1 + Count(r, c)) OBVIOUS
  <1>10. /\ x \in Nodes /\ x.type = "conjunction" /\ x.conjunction = c
         /\ x.terms = 1 + Count(r, c)
    BY <1>3, <1>9 DEF ConjunctionNode, Nodes, ConjunctionNodes
  <1>11. PICK w \in BOOLEAN : w = Combined(c, u, v) BY <1>1 DEF Combined
  <1>12. w = Together(c, ws) BY <1>1, <1>2, <1>6, <1>11, TogetherWithOne
  <1>13. ASSUME NEW others \in Seq(BOOLEAN)
         PROVE  Values(<<x>> \o body, others, row) = <<w>> \o others
    <2>1. Values(<<x>> \o body, others, row) = Valued(x, ws \o others, row)
      BY <1>5, <1>8, <1>10, GivesBefore
    <2>2. SubSeq(ws \o others, 1, x.terms) = ws BY <1>7, <1>10
    <2>3. SubSeq(ws \o others, x.terms + 1, Len(ws \o others)) = others BY <1>7, <1>10
    <2>4. Valued(x, ws \o others, row) = <<Together(c, ws)>> \o others
      BY <1>10, <2>2, <2>3 DEF Valued, Together
    <2> QED BY <1>12, <2>1, <2>4
  <1>14. Gives(<<x>> \o body, <<w>>, row) BY <1>13 DEF Gives
  <1>15. (<<x>> \o body)[1] = x /\ Tail(<<x>> \o body) = body BY <1>5
  <1>16. Has(<<x>> \o body, w, row)
    BY <1>7, <1>8, <1>10, <1>12, <1>14, <1>15 DEF Has
  <1> QED BY <1>4, <1>9, <1>11, <1>16 DEF Both

Turned(x) == [x EXCEPT !.negated = TRUE]

\* A leaf stays what it is when it is negated.
LEMMA TurnedTypes ==
    /\ \A x \in FilterNodes : Turned(x) \in FilterNodes /\ Turned(x).negated = TRUE
    /\ \A x \in ScopeNodes : Turned(x) \in ScopeNodes /\ Turned(x).negated = TRUE
    /\ \A x \in Leaves : Turned(x) \in Leaves
  BY DEF Turned, FilterNodes, ScopeNodes, Leaves

\* Where the left most term is
LEMMA LeftMostSimple ==
    ASSUME NEW term, Simple(term)
    PROVE  LeftMost(term) = 1
  <1> DEFINE P(i) == /\ term[i].type # "conjunction"
                     /\ \A j \in 1..(i - 1) : term[j].type = "conjunction"
  <1>1. term \in Seq(Nodes) /\ term # <<>> /\ term[1] \in Leaves BY DEF Simple
  <1>2. 1 \in DOMAIN term /\ DOMAIN term \subseteq Nat \ {0} BY <1>1
  <1>3. term[1].type # "conjunction" BY <1>1, NodeTypes
  <1>4. P(1) BY <1>3
  <1>5. \A i \in DOMAIN term : P(i) => i = 1
    <2> TAKE i \in DOMAIN term
    <2> HAVE P(i)
    <2>1. i # 1 => 1 \in 1..(i - 1) BY <1>2
    <2> QED BY <1>3, <2>1
  <1>6. LeftMost(term) = CHOOSE i \in DOMAIN term : P(i) BY DEF LeftMost
  <1> HIDE DEF P
  <1> QED BY <1>2, <1>4, <1>5, <1>6

\* The left most term is the first node, or the second.
LEMMA LeftMostComplex ==
    ASSUME NEW term \in Seq(Nodes), term # <<>>, term[1] \in ConjunctionNodes,
           Simple(Tail(term))
    PROVE  LeftMost(term) = 2 /\ 2 \in DOMAIN term /\ term[2] \in Leaves
  <1> DEFINE P(i) == /\ term[i].type # "conjunction"
                     /\ \A j \in 1..(i - 1) : term[j].type = "conjunction"
  <1>1. Tail(term) \in Seq(Nodes) /\ Tail(term) # <<>> /\ Tail(term)[1] \in Leaves
    BY DEF Simple
  <1>2. 2 \in DOMAIN term /\ DOMAIN term \subseteq Nat \ {0} /\ term[2] = Tail(term)[1]
    BY <1>1
  <1>3. term[1].type = "conjunction" /\ term[2].type # "conjunction"
    BY <1>1, <1>2, NodeTypes
  <1>4. P(2) BY <1>3
  <1>5. \A i \in DOMAIN term : P(i) => i = 2
    <2> TAKE i \in DOMAIN term
    <2> HAVE P(i)
    <2>1. i # 1 BY <1>3
    <2>2. i # 1 /\ i # 2 => 2 \in 1..(i - 1) BY <1>2
    <2> QED BY <1>3, <2>1, <2>2
  <1>6. LeftMost(term) = CHOOSE i \in DOMAIN term : P(i) BY DEF LeftMost
  <1> HIDE DEF P
  <1>7. LeftMost(term) = 2 BY <1>2, <1>4, <1>5, <1>6
  <1> QED BY <1>1, <1>2, <1>7

\* A sequence that is not empty
LEMMA Parted ==
    ASSUME NEW T, NEW s \in Seq(T), s # <<>>
    PROVE  s[1] \in T /\ Tail(s) \in Seq(T) /\ s = <<s[1]>> \o Tail(s)
  OBVIOUS

\* A sequence of which one element is another
Changed(term, i, y) == [term EXCEPT ![i] = y]

LEMMA OtherFirst ==
    ASSUME NEW T, NEW x \in T, NEW y \in T, NEW q \in Seq(T)
    PROVE  Changed(<<x>> \o q, 1, y) = <<y>> \o q
  <1>0. PICK term \in Seq(T) : term = <<x>> \o q
    <2>1. <<x>> \in Seq(T) OBVIOUS
    <2>2. <<x>> \o q \in Seq(T) BY <2>1
    <2> QED BY <2>2
  <1>1. PICK n \in Nat : n = Len(q) OBVIOUS
  <1>2. Len(term) = n + 1 /\ \A i \in 1..n : term[i + 1] = q[i] BY <1>0, <1>1
  <1>3. 1 \in 1..Len(term) BY <1>1, <1>2
  <1>4. PICK s \in Seq(T) :
          /\ s = Changed(term, 1, y) /\ Len(s) = n + 1
          /\ \A i \in 1..(n + 1) : s[i] = IF i = 1 THEN y ELSE term[i]
    <2>1. Changed(term, 1, y) \in Seq(T) BY <1>3, ExceptSeq DEF Changed
    <2>2. Len(Changed(term, 1, y)) = Len(term) BY <1>3, ExceptSeq DEF Changed
    <2>3. \A i \in DOMAIN term : Changed(term, 1, y)[i] = IF i = 1 THEN y ELSE term[i]
      BY Zenon DEF Changed
    <2>4. DOMAIN term = 1..Len(term) OBVIOUS
    <2> QED BY <1>2, <2>1, <2>2, <2>3, <2>4
  <1>5. PICK r \in Seq(T) : r = <<y>> \o q
    <2>1. <<y>> \in Seq(T) OBVIOUS
    <2>2. <<y>> \o q \in Seq(T) BY <2>1
    <2> QED BY <2>2
  <1>6. Len(r) = n + 1 /\ r[1] = y /\ \A i \in 1..n : r[i + 1] = q[i] BY <1>1, <1>5
  <1>7. \A i \in 1..Len(s) : s[i] = r[i]
    <2> TAKE i \in 1..Len(s)
    <2>1. CASE i = 1 BY <2>1, <1>4, <1>6
    <2>2. CASE i # 1
      <3>1. PICK j \in 1..n : j = i - 1 BY <2>2, <1>4
      <3>2. i = j + 1 /\ i \in 1..(n + 1) BY <3>1
      <3>3. s[i] = term[j + 1] BY <1>4, <2>2, <3>2
      <3>4. r[i] = q[j] BY <1>6, <3>2
      <3> QED BY <1>2, <3>3, <3>4
    <2> QED BY <2>1, <2>2
  <1>8. Len(s) = Len(r) BY <1>4, <1>6
  <1>9. s = r BY <1>7, <1>8, SeqEqual
  <1> QED BY <1>0, <1>4, <1>5, <1>9

LEMMA OtherSecond ==
    ASSUME NEW T, NEW w \in T, NEW body \in Seq(T), NEW y \in T, body # <<>>
    PROVE  Changed(<<w>> \o body, 2, y) = <<w>> \o Changed(body, 1, y)
  <1>b. PICK term \in Seq(T) : term = <<w>> \o body
    <2>1. <<w>> \in Seq(T) OBVIOUS
    <2>2. <<w>> \o body \in Seq(T) BY <2>1
    <2> QED BY <2>2
  <1>0. PICK x \in T, q \in Seq(T) : body = <<x>> \o q BY Parted
  <1>0a. Changed(body, 1, y) = <<y>> \o q BY <1>0, OtherFirst
  <1>1. PICK n \in Nat : n = Len(q) OBVIOUS
  <1>2. Len(term) = n + 2 /\ term[1] = w /\ \A i \in 1..n : term[i + 2] = q[i] BY <1>b, <1>0, <1>1
  <1>3. 2 \in 1..Len(term) BY <1>1, <1>2
  <1>4. PICK s \in Seq(T) :
          /\ s = Changed(term, 2, y) /\ Len(s) = n + 2
          /\ \A i \in 1..(n + 2) : s[i] = IF i = 2 THEN y ELSE term[i]
    <2>1. Changed(term, 2, y) \in Seq(T) BY <1>3, ExceptSeq DEF Changed
    <2>2. Len(Changed(term, 2, y)) = Len(term) BY <1>3, ExceptSeq DEF Changed
    <2>3. \A i \in DOMAIN term : Changed(term, 2, y)[i] = IF i = 2 THEN y ELSE term[i]
      BY Zenon DEF Changed
    <2>4. DOMAIN term = 1..Len(term) OBVIOUS
    <2> QED BY <1>2, <2>1, <2>2, <2>3, <2>4
  <1>5. PICK r \in Seq(T) : r = <<w>> \o (<<y>> \o q)
    <2>1. <<y>> \in Seq(T) /\ <<w>> \in Seq(T) OBVIOUS
    <2>2. <<y>> \o q \in Seq(T) BY <2>1
    <2>3. <<w>> \o (<<y>> \o q) \in Seq(T) BY <2>1, <2>2
    <2> QED BY <2>3
  <1>6. Len(r) = n + 2 /\ r[1] = w /\ r[2] = y /\ \A i \in 1..n : r[i + 2] = q[i] BY <1>1, <1>5
  <1>7. \A i \in 1..Len(s) : s[i] = r[i]
    <2> TAKE i \in 1..Len(s)
    <2>1. CASE i = 1 BY <2>1, <1>2, <1>4, <1>6
    <2>2. CASE i = 2 BY <2>2, <1>4, <1>6
    <2>3. CASE i # 1 /\ i # 2
      <3>1. i \in 1..(n + 2) BY <1>4
      <3>2. i - 2 \in 1..n BY <2>3, <3>1
      <3>3. PICK j \in 1..n : j = i - 2 BY <3>2
      <3>4. i = j + 2 BY <3>1, <3>3
      <3>5. s[i] = term[j + 2] BY <1>4, <2>3, <3>1, <3>4
      <3>6. r[i] = q[j] BY <1>6, <3>4
      <3> QED BY <1>2, <3>5, <3>6
    <2> QED BY <2>1, <2>2, <2>3
  <1>8. Len(s) = Len(r) BY <1>4, <1>6
  <1>9. s = r BY <1>7, <1>8, SeqEqual
  <1> QED BY <1>b, <1>0a, <1>4, <1>5, <1>9

\* The negation of a filter or a scope, and of a conjunction that begins with one
LEMMA NegatedSimple ==
    ASSUME NEW x \in Leaves, NEW q \in Seq(Nodes)
    PROVE  Negated(<<x>> \o q) = <<Turned(x)>> \o q
  <1>1. PICK term \in Seq(Nodes) : term = <<x>> \o q
    <2>1. <<x>> \in Seq(Nodes) BY DEF Nodes
    <2>2. <<x>> \o q \in Seq(Nodes) BY <2>1
    <2> QED BY <2>2
  <1>2. term # <<>> /\ term[1] = x BY <1>1
  <1>3. Simple(term) BY <1>2 DEF Simple
  <1>4. LeftMost(term) = 1 BY <1>3, LeftMostSimple
  <1>5. Negated(term) = Changed(term, 1, Turned(x)) BY <1>2, <1>4 DEF Negated, Turned, Changed
  <1>6. x \in Nodes /\ Turned(x) \in Nodes BY TurnedTypes DEF Nodes
  <1>7. PICK y \in Nodes : y = Turned(x) BY <1>6
  <1>8. Changed(term, 1, y) = <<y>> \o q BY <1>1, <1>6, OtherFirst
  <1> QED BY <1>1, <1>5, <1>7, <1>8

\* Only that node is changed.
LEMMA NegatedComplex ==
    ASSUME NEW y \in ConjunctionNodes, NEW x \in Leaves, NEW q \in Seq(Nodes)
    PROVE  Negated(<<y>> \o (<<x>> \o q)) = <<y>> \o (<<Turned(x)>> \o q)
  <1>1. PICK body \in Seq(Nodes) : body = <<x>> \o q
    <2>1. <<x>> \in Seq(Nodes) BY DEF Nodes
    <2>2. <<x>> \o q \in Seq(Nodes) BY <2>1
    <2> QED BY <2>2
  <1>2. PICK term \in Seq(Nodes) : term = <<y>> \o body
    <2>1. <<y>> \in Seq(Nodes) BY DEF Nodes
    <2>2. <<y>> \o body \in Seq(Nodes) BY <2>1
    <2> QED BY <2>2
  <1>3. body # <<>> /\ body[1] = x BY <1>1
  <1>4. Simple(body) BY <1>3 DEF Simple
  <1>5. term # <<>> /\ term[1] = y /\ Tail(term) = body /\ term[2] = x BY <1>1, <1>2
  <1>6. LeftMost(term) = 2 BY <1>4, <1>5, LeftMostComplex
  <1>7. Negated(term) = Changed(term, 2, Turned(x)) BY <1>5, <1>6 DEF Negated, Turned, Changed
  <1>8. x \in Nodes /\ y \in Nodes /\ Turned(x) \in Nodes BY TurnedTypes DEF Nodes
  <1>9. PICK z \in Nodes : z = Turned(x) BY <1>8
  <1>10. Changed(term, 2, z) = <<y>> \o Changed(body, 1, z) BY <1>2, <1>3, <1>8, OtherSecond
  <1>11. Changed(body, 1, z) = <<z>> \o q BY <1>1, <1>8, OtherFirst
  <1> QED BY <1>1, <1>2, <1>7, <1>9, <1>10, <1>11

LEMMA NegatedStaysSimple ==
    ASSUME NEW term, Simple(term)
    PROVE  Simple(Negated(term))
  <1>1. term \in Seq(Nodes) /\ term # <<>> /\ term[1] \in Leaves BY DEF Simple
  <1>2. Tail(term) \in Seq(Nodes) /\ term = <<term[1]>> \o Tail(term) BY <1>1, Parted
  <1>3. Negated(term) = <<Turned(term[1])>> \o Tail(term) BY <1>1, <1>2, NegatedSimple
  <1>4. Turned(term[1]) \in Leaves BY <1>1, TurnedTypes
  <1>5. PICK x \in Leaves : x = Turned(term[1]) BY <1>4
  <1>6. <<x>> \o Tail(term) \in Seq(Nodes)
    <2>1. <<x>> \in Seq(Nodes) BY DEF Nodes
    <2> QED BY <1>2, <2>1
  <1>7. (<<x>> \o Tail(term))[1] = x /\ <<x>> \o Tail(term) # <<>> BY <1>2
  <1> QED BY <1>3, <1>5, <1>6, <1>7 DEF Simple

LEMMA NegatedStaysComplex ==
    ASSUME NEW term, Complex(term)
    PROVE  Complex(Negated(term)) /\ Negated(term) \in Seq(Nodes) /\ Negated(term) # <<>>
  <1>1. CASE Simple(term) BY <1>1, NegatedStaysSimple DEF Complex, Simple
  <1>2. CASE ~Simple(term)
    <2>1. /\ term \in Seq(Nodes) /\ term # <<>>
          /\ term[1] \in ConjunctionNodes /\ Simple(Tail(term))
      BY <1>2 DEF Complex
    <2>2. PICK y \in ConjunctionNodes : y = term[1] BY <2>1
    <2>3. PICK body \in Seq(Nodes) : body = Tail(term) /\ term = <<y>> \o body
      BY <2>1, <2>2, Parted
    <2>4. body # <<>> /\ body[1] \in Leaves /\ Simple(body) BY <2>1, <2>3 DEF Simple
    <2>5. PICK x \in Leaves, q \in Seq(Nodes) : body = <<x>> \o q BY <2>4, Parted
    <2>6. Negated(<<y>> \o (<<x>> \o q)) = <<y>> \o (<<Turned(x)>> \o q) BY NegatedComplex
    <2>7. Negated(<<x>> \o q) = <<Turned(x)>> \o q BY NegatedSimple
    <2>8. PICK b \in Seq(Nodes) : b = Negated(body) /\ Simple(b)
      BY <2>4, NegatedStaysSimple DEF Simple
    <2>9. Negated(term) = <<y>> \o b BY <2>3, <2>5, <2>6, <2>7, <2>8
    <2>10. <<y>> \o b \in Seq(Nodes)
      <3>1. <<y>> \in Seq(Nodes) BY DEF Nodes
      <3> QED BY <3>1
    <2>11. (<<y>> \o b)[1] = y /\ Tail(<<y>> \o b) = b /\ <<y>> \o b # <<>> OBVIOUS
    <2> QED BY <2>8, <2>9, <2>10, <2>11 DEF Complex
  <1> QED BY <1>1, <1>2

\* Such a term has nodes, and a first one.
LEMMA ComplexIs ==
    ASSUME NEW term, Complex(term)
    PROVE  term \in Seq(Nodes) /\ term # <<>> /\ term[1] \in Nodes
  <1>1. term \in Seq(Nodes) /\ term # <<>> BY DEF Complex, Simple
  <1> QED BY <1>1

\* A conjunction begins with its left term, and it is this that is negated.
LEMMA BothIs ==
    ASSUME NEW left, Simple(left), NEW r \in Seq(Nodes), r # <<>>, NEW c \in {"And", "Or"}
    PROVE  Complex(Both(left, r, c)) /\ Negated(Both(left, r, c)) = Both(Negated(left), r, c)
  <1>1. left \in Seq(Nodes) /\ left # <<>> /\ left[1] \in Leaves BY DEF Simple
  <1>2. PICK x \in Leaves, p \in Seq(Nodes) : left = <<x>> \o p BY <1>1, Parted
  <1>3. PICK q \in Seq(Nodes) : q = Parts(r, c) BY PartsOf
  <1>4. PICK y \in ConjunctionNodes : y = ConjunctionNode(c, 1 + Count(r, c))
    <2>1. Count(r, c) \in Nat \ {0} BY PartsOf
    <2>2. 1 + Count(r, c) \in Nat \ {0} BY <2>1
    <2>3. ConjunctionNode(c, 1 + Count(r, c)) \in ConjunctionNodes
      BY <2>2 DEF ConjunctionNodes, ConjunctionNode
    <2> QED BY <2>3
  <1>5. Both(left, r, c) = <<y>> \o (left \o q) BY <1>3, <1>4 DEF Both
  <1>6. left \o q = <<x>> \o (p \o q) BY <1>2
  <1>7. p \o q \in Seq(Nodes) OBVIOUS
  <1>8. Negated(Both(left, r, c)) = <<y>> \o (<<Turned(x)>> \o (p \o q))
    <2>1. Negated(<<y>> \o (<<x>> \o (p \o q))) = <<y>> \o (<<Turned(x)>> \o (p \o q))
      BY <1>7, NegatedComplex
    <2> QED BY <1>5, <1>6, <2>1
  <1>9. Negated(left) = <<Turned(x)>> \o p BY <1>2, NegatedSimple
  <1>10. Negated(left) \o q = <<Turned(x)>> \o (p \o q) BY <1>9
  <1>11. Negated(Both(left, r, c)) = Both(Negated(left), r, c)
    BY <1>3, <1>4, <1>8, <1>10 DEF Both
  <1>12. Complex(Both(left, r, c))
    <2>1. PICK body \in Seq(Nodes) : body = left \o q
      <3>1. left \o q \in Seq(Nodes) BY <1>1
      <3> QED BY <3>1
    <2>2. body # <<>> /\ body[1] = left[1] BY <1>1, <2>1
    <2>3. Simple(body) BY <1>1, <2>2 DEF Simple
    <2>4. <<y>> \o body \in Seq(Nodes)
      <3>1. <<y>> \in Seq(Nodes) BY DEF Nodes
      <3> QED BY <3>1
    <2>5. (<<y>> \o body)[1] = y /\ Tail(<<y>> \o body) = body /\ <<y>> \o body # <<>>
      OBVIOUS
    <2> QED BY <1>5, <2>1, <2>3, <2>4, <2>5 DEF Complex
  <1> QED BY <1>11, <1>12

-----------------------------------------------------------------------------
(* How many terms nodes are, and that they are read back *)

\* Nodes are k terms, one after the other: after each node, so many are still to come.
Waits(p, m, k) ==
    /\ m \in [0..Len(p) -> Nat] /\ m[0] = k /\ m[Len(p)] = 0
    /\ \A i \in 1..Len(p) : m[i - 1] # 0 /\ m[i] = m[i - 1] - 1 + Within(p[i])
Are(p, k) == \E m : Waits(p, m, k)

\* How many terms a node waits for
LEMMA WithinNodes ==
    /\ \A x \in Nodes : Within(x) \in Nat
    /\ \A x \in FilterNodes : Within(x) = 0
    /\ \A x \in ScopeNodes : Within(x) = 1
    /\ \A x \in ConjunctionNodes : Within(x) = x.terms
    /\ \A x \in Leaves : Within(Turned(x)) = Within(x)
  <1>1. /\ \A x \in FilterNodes : Within(x) = 0
        /\ \A x \in ScopeNodes : Within(x) = 1
        /\ \A x \in ConjunctionNodes : Within(x) = x.terms /\ x.terms \in Nat
    BY DEF Within, FilterNodes, ScopeNodes, ConjunctionNodes
  <1> QED BY <1>1, TurnedTypes DEF Nodes, Leaves

\* No nodes are no terms.
LEMMA AreNone == Are(<<>>, 0)
  <1> DEFINE m == [i \in 0..0 |-> 0]
  <1>1. Len(<<>>) = 0 OBVIOUS
  <1>2. m \in [0..Len(<<>>) -> Nat] BY <1>1
  <1>3. Waits(<<>>, m, 0) BY <1>1, <1>2 DEF Waits
  <1> HIDE DEF m
  <1> QED BY <1>3 DEF Are

\* A node before the terms it waits for is one term.
LEMMA AreBefore ==
    ASSUME NEW x \in Nodes, NEW q \in Seq(Nodes), Are(q, Within(x))
    PROVE  Are(<<x>> \o q, 1)
  <1>1. PICK h : Waits(q, h, Within(x)) BY DEF Are
  <1>2. PICK n \in Nat : n = Len(q) OBVIOUS
  <1>3. PICK p : p = <<x>> \o q OBVIOUS
  <1>4. Len(p) = n + 1 /\ p[1] = x /\ \A i \in 1..n : p[i + 1] = q[i] BY <1>2, <1>3
  <1>5. /\ h \in [0..n -> Nat] /\ h[0] = Within(x) /\ h[n] = 0
        /\ \A i \in 1..n : h[i - 1] # 0 /\ h[i] = h[i - 1] - 1 + Within(q[i])
    BY <1>1, <1>2 DEF Waits
  <1> DEFINE m == [i \in 0..(n + 1) |-> IF i = 0 THEN 1 ELSE h[i - 1]]
  <1>6. m \in [0..(n + 1) -> Nat] BY <1>5
  <1>7. m[0] = 1 /\ \A i \in 1..(n + 1) : m[i] = h[i - 1] OBVIOUS
  <1> HIDE DEF m
  <1>8. m[n + 1] = 0
    <2>1. PICK j \in 1..(n + 1) : j = n + 1 OBVIOUS
    <2>2. m[j] = h[j - 1] /\ j - 1 = n BY <1>7, <2>1
    <2> QED BY <1>5, <2>1, <2>2
  <1>9. ASSUME NEW i \in 1..(n + 1)
        PROVE  m[i - 1] # 0 /\ m[i] = m[i - 1] - 1 + Within(p[i])
    <2>1. m[i] = h[i - 1] BY <1>7
    <2>2. CASE i = 1
      <3>1. m[i - 1] = 1 /\ h[i - 1] = Within(x) /\ p[i] = x BY <1>4, <1>5, <1>7, <2>2
      <3>2. Within(x) \in Nat BY WithinNodes
      <3> QED BY <2>1, <3>1, <3>2
    <2>3. CASE i # 1
      <3>1. PICK j \in 1..n : j = i - 1 BY <2>3
      <3>2. j \in 1..(n + 1) /\ i = j + 1 BY <3>1
      <3>3. m[i - 1] = h[j - 1] BY <1>7, <3>1, <3>2
      <3>4. h[j - 1] # 0 /\ h[j] = h[j - 1] - 1 + Within(q[j]) BY <1>5
      <3>5. p[i] = q[j] BY <1>4, <3>2
      <3> QED BY <2>1, <3>1, <3>3, <3>4, <3>5
    <2> QED BY <2>2, <2>3
  <1>10. Waits(p, m, 1) BY <1>4, <1>6, <1>7, <1>8, <1>9 DEF Waits
  <1> QED BY <1>3, <1>10 DEF Are

\* Terms one after the other are so many more.
LEMMA AreBoth ==
    ASSUME NEW p \in Seq(Nodes), NEW k \in Nat, Are(p, k),
           NEW q \in Seq(Nodes), NEW l \in Nat, Are(q, l)
    PROVE  Are(p \o q, k + l)
  <1>1. PICK g : Waits(p, g, k) BY DEF Are
  <1>2. PICK h : Waits(q, h, l) BY DEF Are
  <1>3. PICK a \in Nat, b \in Nat : a = Len(p) /\ b = Len(q) OBVIOUS
  <1>4. PICK r \in Seq(Nodes) : r = p \o q
    <2>1. p \o q \in Seq(Nodes) OBVIOUS
    <2> QED BY <2>1
  <1>5. Len(r) = a + b /\ (\A i \in 1..a : r[i] = p[i]) /\ \A i \in 1..b : r[a + i] = q[i]
    BY <1>3, <1>4
  <1>6. /\ g \in [0..a -> Nat] /\ g[0] = k /\ g[a] = 0
        /\ \A i \in 1..a : g[i - 1] # 0 /\ g[i] = g[i - 1] - 1 + Within(p[i])
    BY <1>1, <1>3 DEF Waits
  <1>7. /\ h \in [0..b -> Nat] /\ h[0] = l /\ h[b] = 0
        /\ \A i \in 1..b : h[i - 1] # 0 /\ h[i] = h[i - 1] - 1 + Within(q[i])
    BY <1>2, <1>3 DEF Waits
  <1> DEFINE m == [i \in 0..(a + b) |-> IF i <= a THEN g[i] + l ELSE h[i - a]]
  <1>8. m \in [0..(a + b) -> Nat] BY <1>6, <1>7
  <1>9. (\A i \in 0..a : m[i] = g[i] + l) /\ \A i \in (a + 1)..(a + b) : m[i] = h[i - a]
    OBVIOUS
  <1> HIDE DEF m
  <1>10. m[0] = k + l BY <1>6, <1>9
  <1>11. \A j \in 0..b : \A i \in Nat : i = a + j => m[i] = h[j]
    <2> TAKE j \in 0..b
    <2> TAKE i \in Nat
    <2> HAVE i = a + j
    <2>1. CASE j = 0
      <3>1. i = a /\ a \in 0..a BY <2>1
      <3>2. m[a] = g[a] + l BY <1>9
      <3> QED BY <1>6, <1>7, <2>1, <3>1, <3>2
    <2>2. CASE j # 0
      <3>1. i \in (a + 1)..(a + b) /\ i - a = j BY <2>2
      <3>2. m[i] = h[i - a] BY <1>9, <3>1
      <3> QED BY <3>1, <3>2
    <2> QED BY <2>1, <2>2
  <1>12. m[a + b] = 0
    <2>1. PICK i \in Nat : i = a + b OBVIOUS
    <2>2. m[i] = h[b] BY <1>11, <2>1
    <2> QED BY <1>7, <2>1, <2>2
  <1>13. ASSUME NEW i \in 1..(a + b)
         PROVE  m[i - 1] # 0 /\ m[i] = m[i - 1] - 1 + Within(r[i])
    <2>1. CASE i <= a
      <3>1. PICK j \in 0..a : j = i - 1 BY <2>1
      <3>2. i \in 1..a /\ i \in 0..a BY <2>1
      <3>3. m[i] = g[i] + l BY <1>9, <3>2
      <3>4. m[j] = g[j] + l BY <1>9
      <3>5. r[i] = p[i] BY <1>5, <3>2
      <3>6. g[i - 1] # 0 /\ g[i] = g[i - 1] - 1 + Within(p[i]) BY <1>6, <3>2
      <3>7. g[j] \in Nat BY <1>6
      <3>8. p[i] \in Nodes BY <1>3, <3>2
      <3>9. Within(p[i]) \in Nat BY <3>8, WithinNodes
      <3> QED BY <3>1, <3>3, <3>4, <3>5, <3>6, <3>7, <3>9
    <2>2. CASE ~(i <= a)
      <3>1. PICK j \in 1..b : j = i - a BY <2>2
      <3>2. PICK w \in 0..b, v \in Nat : w = j - 1 /\ v = i - 1 BY <3>1
      <3>3. i \in Nat /\ i = a + j /\ j \in 0..b /\ v = a + w BY <3>1, <3>2
      <3>4. m[i] = h[j] BY <1>11, <3>3
      <3>5. m[v] = h[w] BY <1>11, <3>3
      <3>6. r[i] = q[j] BY <1>5, <3>3
      <3>7. h[j - 1] # 0 /\ h[j] = h[j - 1] - 1 + Within(q[j]) BY <1>7
      <3> QED BY <3>2, <3>4, <3>5, <3>6, <3>7
    <2> QED BY <2>1, <2>2
  <1>14. Waits(r, m, k + l) BY <1>5, <1>8, <1>10, <1>12, <1>13 DEF Waits
  <1> QED BY <1>4, <1>14 DEF Are

\* A term without its first node
LEMMA AreAfter ==
    ASSUME NEW r \in Seq(Nodes), r # <<>>, Are(r, 1)
    PROVE  Are(Tail(r), Within(r[1]))
  <1>1. PICK h : Waits(r, h, 1) BY DEF Are
  <1>2. PICK n \in Nat : n + 1 = Len(r)
    <2>1. Len(r) \in Nat /\ Len(r) # 0 OBVIOUS
    <2>2. Len(r) - 1 \in Nat BY <2>1
    <2> QED BY <2>1, <2>2
  <1>3. PICK q \in Seq(Nodes) : q = Tail(r) BY HeadTailProperties
  <1>4. Len(q) = n /\ \A i \in 1..n : q[i] = r[i + 1] BY <1>2, <1>3
  <1>5. /\ h \in [0..(n + 1) -> Nat] /\ h[0] = 1 /\ h[n + 1] = 0
        /\ \A i \in 1..(n + 1) : h[i - 1] # 0 /\ h[i] = h[i - 1] - 1 + Within(r[i])
    BY <1>1, <1>2 DEF Waits
  <1> DEFINE m == [i \in 0..n |-> h[i + 1]]
  <1>6. m \in [0..n -> Nat] BY <1>5
  <1>7. \A i \in 0..n : m[i] = h[i + 1] OBVIOUS
  <1> HIDE DEF m
  <1>8. m[0] = Within(r[1])
    <2>1. PICK j \in 1..(n + 1) : j = 1 OBVIOUS
    <2>2. h[j] = h[j - 1] - 1 + Within(r[j]) BY <1>5
    <2>3. r[1] \in Nodes BY ElementOfSeq
    <2>4. Within(r[1]) \in Nat BY <2>3, WithinNodes
    <2>5. h[1] = Within(r[1]) BY <1>5, <2>1, <2>2, <2>4
    <2>6. m[0] = h[0 + 1] BY <1>7
    <2> QED BY <2>5, <2>6
  <1>9. m[n] = 0 BY <1>5, <1>7
  <1>10. ASSUME NEW i \in 1..n
         PROVE  m[i - 1] # 0 /\ m[i] = m[i - 1] - 1 + Within(q[i])
    <2>1. PICK j \in 1..(n + 1) : j = i + 1 OBVIOUS
    <2>2. h[j - 1] # 0 /\ h[j] = h[j - 1] - 1 + Within(r[j]) BY <1>5
    <2>3. m[i] = h[j] BY <1>7, <2>1
    <2>4. PICK w \in 0..n : w = i - 1 OBVIOUS
    <2>5. m[w] = h[w + 1] /\ w + 1 = j - 1 BY <1>7, <2>1, <2>4
    <2>6. q[i] = r[j] BY <1>4, <2>1
    <2> QED BY <2>2, <2>3, <2>4, <2>5, <2>6
  <1>11. Waits(q, m, Within(r[1])) BY <1>4, <1>6, <1>8, <1>9, <1>10 DEF Waits
  <1> QED BY <1>3, <1>11 DEF Are

LEMMA AreParts ==
    ASSUME NEW r \in Seq(Nodes), r # <<>>, NEW c, Are(r, 1)
    PROVE  Are(Parts(r, c), Count(r, c))
  <1>1. CASE Joins(r, c)
    <2>1. r[1] \in Nodes BY ElementOfSeq
    <2>2. r[1] \in ConjunctionNodes BY <1>1, <2>1, NodeTypes DEF Joins
    <2>3. Within(r[1]) = r[1].terms BY <2>2, WithinNodes
    <2>4. Are(Tail(r), Within(r[1])) BY AreAfter
    <2> QED BY <1>1, <2>3, <2>4 DEF Parts, Count
  <1>2. CASE ~Joins(r, c) BY <1>2 DEF Parts, Count
  <1> QED BY <1>1, <1>2

\* A conjunction of terms is one term.
LEMMA AreConjunction ==
    ASSUME NEW left \in Seq(Nodes), Are(left, 1), NEW r \in Seq(Nodes), r # <<>>,
           Are(r, 1), NEW c \in {"And", "Or"}
    PROVE  Are(Both(left, r, c), 1)
  <1>1. PICK n \in Nat \ {0} : n = Count(r, c) BY PartsOf
  <1>2. PICK q \in Seq(Nodes) : q = Parts(r, c) BY PartsOf
  <1>3. Are(q, n) BY <1>1, <1>2, AreParts
  <1>4. PICK body \in Seq(Nodes) : body = left \o q
    <2>1. left \o q \in Seq(Nodes) OBVIOUS
    <2> QED BY <2>1
  <1>5. 1 \in Nat /\ n \in Nat OBVIOUS
  <1>6. Are(body, 1 + n) BY <1>3, <1>4, <1>5, AreBoth
  <1>7. PICK y \in ConjunctionNodes : y = ConjunctionNode(c, 1 + n)
    <2>1. 1 + n \in Nat \ {0} OBVIOUS
    <2>2. ConjunctionNode(c, 1 + n) \in ConjunctionNodes
      BY <2>1 DEF ConjunctionNodes, ConjunctionNode
    <2> QED BY <2>2
  <1>8. Within(y) = 1 + n
    <2>1. y.terms = 1 + n BY <1>7 DEF ConjunctionNode
    <2> QED BY <2>1, WithinNodes
  <1>9. y \in Nodes BY DEF Nodes
  <1>10. Are(<<y>> \o body, 1) BY <1>6, <1>8, <1>9, AreBefore
  <1> QED BY <1>1, <1>2, <1>4, <1>7, <1>10 DEF Both

\* A change of a node that has as many terms
LEMMA AreChanged ==
    ASSUME NEW x \in Leaves, NEW q \in Seq(Nodes), NEW k, Are(<<x>> \o q, k)
    PROVE  Are(<<Turned(x)>> \o q, k)
  <1>1. PICK h : Waits(<<x>> \o q, h, k) BY DEF Are
  <1>2. PICK p : p = <<x>> \o q OBVIOUS
  <1>3. PICK r : r = <<Turned(x)>> \o q OBVIOUS
  <1>4. Len(r) = Len(p) /\ Len(p) \in Nat /\ \A i \in 1..Len(p) : i # 1 => r[i] = p[i]
    BY <1>2, <1>3
  <1>5. p[1] = x /\ r[1] = Turned(x) BY <1>2, <1>3
  <1>6. \A i \in 1..Len(p) : Within(r[i]) = Within(p[i]) BY <1>4, <1>5, WithinNodes
  <1>7. Waits(p, h, k) BY <1>1, <1>2
  <1>8. Waits(r, h, k) BY <1>4, <1>6, <1>7 DEF Waits
  <1> QED BY <1>3, <1>8 DEF Are

\* The negation of a term is as many terms.
LEMMA AreNegated ==
    ASSUME NEW term, Complex(term), Are(term, 1)
    PROVE  Are(Negated(term), 1)
  <1>1. CASE Simple(term)
    <2>1. term \in Seq(Nodes) /\ term # <<>> /\ term[1] \in Leaves BY <1>1 DEF Simple
    <2>2. PICK x \in Leaves, q \in Seq(Nodes) : term = <<x>> \o q BY <2>1, Parted
    <2>3. Negated(<<x>> \o q) = <<Turned(x)>> \o q BY NegatedSimple
    <2>4. Are(<<x>> \o q, 1) BY <2>2
    <2>5. Are(<<Turned(x)>> \o q, 1) BY <2>4, AreChanged
    <2> QED BY <2>2, <2>3, <2>5
  <1>2. CASE ~Simple(term)
    <2>1. /\ term \in Seq(Nodes) /\ term # <<>>
          /\ term[1] \in ConjunctionNodes /\ Simple(Tail(term))
      BY <1>2 DEF Complex
    <2>2. PICK y \in ConjunctionNodes : y = term[1] BY <2>1
    <2>3. PICK body \in Seq(Nodes) : body = Tail(term) /\ term = <<y>> \o body
      BY <2>1, <2>2, Parted
    <2>4. body # <<>> /\ body[1] \in Leaves BY <2>1, <2>3 DEF Simple
    <2>5. PICK x \in Leaves, q \in Seq(Nodes) : body = <<x>> \o q BY <2>4, Parted
    <2>6. Negated(<<y>> \o (<<x>> \o q)) = <<y>> \o (<<Turned(x)>> \o q) BY NegatedComplex
    <2>7. Are(body, Within(y)) BY <2>1, <2>2, <2>3, AreAfter
    <2>8. Are(<<x>> \o q, Within(y)) BY <2>5, <2>7
    <2>9. Are(<<Turned(x)>> \o q, Within(y)) BY <2>8, AreChanged
    <2>10. PICK b \in Seq(Nodes) : b = <<Turned(x)>> \o q
      <3>1. <<Turned(x)>> \in Seq(Nodes) BY TurnedTypes DEF Nodes
      <3>2. <<Turned(x)>> \o q \in Seq(Nodes) BY <3>1
      <3> QED BY <3>2
    <2>11. y \in Nodes BY DEF Nodes
    <2>12. Are(<<y>> \o b, 1) BY <2>9, <2>10, <2>11, AreBefore
    <2> QED BY <2>3, <2>5, <2>6, <2>10, <2>12
  <1> QED BY <1>1, <1>2

\* The concatenation of sequences by a name: the solver uses facts about it more easily.
Then(a, b) == a \o b

LEMMA Regrouped ==
    ASSUME NEW T, NEW a \in Seq(T), NEW b \in Seq(T), NEW c \in Seq(T)
    PROVE  Then(Then(a, b), c) = Then(a, Then(b, c))
  BY ConcatAssociative DEF Then

\* Two ends of a sequence after the same beginning
LEMMA SameEnd ==
    ASSUME NEW T, NEW a \in Seq(T), NEW b \in Seq(T), NEW c \in Seq(T), NEW d \in Seq(T),
           Then(a, d) = Then(Then(a, b), c)
    PROVE  d = Then(b, c)
  <1>1. PICK e \in Seq(T) : e = b \o c
    <2>1. b \o c \in Seq(T) OBVIOUS
    <2> QED BY <2>1
  <1>2. a \o d = a \o e BY <1>1, Regrouped DEF Then
  <1>3. \A S : \A s, t, v \in Seq(S) : s \o t = s \o v => t = v BY ConcatSimplifications
  <1>4. d = e BY <1>2, <1>3
  <1> QED BY <1>1, <1>4 DEF Then

\* Pieces put together: what FlattenSeq() makes, and what is left of it after each piece.
PiecesRound(pieces, k, n) == IF n = 1 THEN pieces[n] ELSE k[n - 1] \o pieces[n]

LEMMA PiecesRoundsExist ==
    ASSUME NEW N \in Nat, NEW pieces
    PROVE  \E k : k = [n \in 1..N |-> PiecesRound(pieces, k, n)]
  <1> DEFINE E == {m \in 0..N : \E k : k = [n \in 1..m |-> PiecesRound(pieces, k, n)]}
  <1>2. 0 \in E
    <2> DEFINE k == [n \in 1..0 |-> <<>>]
    <2>1. \A n \in 1..0 : PiecesRound(pieces, k, n) = <<>> OBVIOUS
    <2>2. k = [n \in 1..0 |-> PiecesRound(pieces, k, n)] BY <2>1
    <2>3. 0 \in 0..N OBVIOUS
    <2> HIDE DEF k
    <2> QED BY <2>2, <2>3
  <1>3. ASSUME NEW m \in 0..(N - 1), m \in E PROVE m + 1 \in E
    <2>1. PICK k : k = [n \in 1..m |-> PiecesRound(pieces, k, n)] BY <1>3
    <2> DEFINE h == [n \in 1..(m + 1) |->
                       IF n <= m THEN k[n] ELSE PiecesRound(pieces, k, n)]
    <2>2. \A n \in 1..(m + 1) : h[n] = PiecesRound(pieces, h, n)
      <3> TAKE n \in 1..(m + 1)
      <3>1. PiecesRound(pieces, h, n) = PiecesRound(pieces, k, n)
        <4>1. CASE n = 1 BY <4>1 DEF PiecesRound
        <4>2. CASE n # 1
          <5>1. n - 1 \in 1..m /\ h[n - 1] = k[n - 1] BY <4>2
          <5> HIDE DEF h
          <5> QED BY <4>2, <5>1 DEF PiecesRound
        <4> QED BY <4>1, <4>2
      <3>2. n <= m => k[n] = PiecesRound(pieces, k, n) BY <2>1
      <3> QED BY <3>1, <3>2
    <2>3. h = [n \in 1..(m + 1) |-> PiecesRound(pieces, h, n)] BY <2>2
    <2>4. m + 1 \in 0..N OBVIOUS
    <2> HIDE DEF h
    <2> QED BY <2>3, <2>4
  <1> HIDE DEF E
  <1>4. \A m \in 0..N : m \in E BY <1>2, <1>3, InductionUpTo
  <1>5. N \in E BY <1>4
  <1> QED BY <1>5 DEF E

LEMMA FlattenedFromTheLeft ==
    ASSUME NEW T, NEW U, U = Seq(T), NEW pieces \in Seq(U), pieces # <<>>
    PROVE  \E w \in [0..Len(pieces) -> U] :
              /\ w[0] = <<>> /\ w[Len(pieces)] = FlattenSeq(pieces)
              /\ \A n \in 1..Len(pieces) : w[n] = w[n - 1] \o pieces[n]
  <1>1. PICK N \in Nat : N = Len(pieces) /\ N # 0 OBVIOUS
  <1> DEFINE k == CHOOSE k : k = [n \in 1..N |-> PiecesRound(pieces, k, n)]
  <1>2. k = [n \in 1..N |-> PiecesRound(pieces, k, n)] BY PiecesRoundsExist
  <1>3. FlattenSeq(pieces) = k[N] BY <1>1 DEF FlattenSeq, PiecesRound
  <1> HIDE DEF k
  <1>4. \A n \in 1..N : k[n] = PiecesRound(pieces, k, n) BY <1>2
  <1> DEFINE w == [n \in 0..N |-> IF n = 0 THEN <<>> ELSE k[n]]
             E == {n \in 0..N : n # 0 => k[n] \in U}
  <1>5. \A n \in 1..N : pieces[n] \in U BY <1>1
  <1>6. 0 \in E OBVIOUS
  <1>7. ASSUME NEW n \in 0..(N - 1), n \in E PROVE n + 1 \in E
    <2>1. PICK j \in 1..N : j = n + 1 OBVIOUS
    <2>2. k[j] = PiecesRound(pieces, k, j) BY <1>4
    <2>3. CASE n = 0 BY <1>5, <2>1, <2>2, <2>3 DEF PiecesRound
    <2>4. CASE n # 0
      <3>0. j # 1 /\ j - 1 = n BY <2>1, <2>4
      <3>1. k[j] = k[n] \o pieces[j] BY <2>2, <3>0 DEF PiecesRound
      <3>2. k[n] \in U BY <1>7, <2>4
      <3>3. k[j] \in U BY <1>5, <3>1, <3>2
      <3> QED BY <2>1, <3>3
    <2> QED BY <2>3, <2>4
  <1>8. \A n \in 0..N : n \in E
    <2> HIDE DEF E
    <2> QED BY <1>6, <1>7, InductionUpTo
  <1>9. w \in [0..N -> U] BY <1>8
  <1>10. w[0] = <<>> /\ w[N] = FlattenSeq(pieces) BY <1>1, <1>3
  <1>11. ASSUME NEW n \in 1..N PROVE w[n] = w[n - 1] \o pieces[n]
    <2>1. k[n] = PiecesRound(pieces, k, n) BY <1>4
    <2>2. CASE n = 1
      <3>1. w[n - 1] = <<>> /\ w[n] = pieces[n] BY <2>1, <2>2 DEF PiecesRound
      <3>2. <<>> \o pieces[n] = pieces[n] BY <1>5
      <3> QED BY <3>1, <3>2
    <2>3. CASE n # 1
      <3>1. PICK i \in 0..N : i = n - 1 /\ i # 0 BY <2>3
      <3>2. w[i] = k[i] /\ w[n] = k[n] BY <3>1
      <3>3. k[n] = k[i] \o pieces[n] BY <2>1, <2>3, <3>1 DEF PiecesRound
      <3> QED BY <3>1, <3>2, <3>3
    <2> QED BY <2>2, <2>3
  <1> HIDE DEF w
  <1> QED BY <1>1, <1>9, <1>10, <1>11

LEMMA FlattenedFromTheRight ==
    ASSUME NEW T, NEW U, U = Seq(T), NEW pieces \in Seq(U), pieces # <<>>
    PROVE  \E r \in [0..Len(pieces) -> U] :
              /\ r[0] = FlattenSeq(pieces) /\ r[Len(pieces)] = <<>>
              /\ \A n \in 1..Len(pieces) : r[n - 1] = pieces[n] \o r[n]
  <1>1. PICK N \in Nat : N = Len(pieces) /\ N # 0 OBVIOUS
  <1>2. PICK w \in [0..N -> U] :
              /\ w[0] = <<>> /\ w[N] = FlattenSeq(pieces)
              /\ \A n \in 1..N : w[n] = w[n - 1] \o pieces[n]
    BY <1>1, FlattenedFromTheLeft
  <1>3. \A n \in 1..N : pieces[n] \in U BY <1>1
  <1>4. PICK all \in U : all = w[N] BY <1>2
  <1> DEFINE Rest(n, s) == s \in U /\ all = w[n] \o s
             E == {d \in 0..N : \E s : Rest(N - d, s)}
  <1>5. 0 \in E
    <2>1. w[N] \o <<>> = w[N] BY <1>2
    <2>2. N - 0 = N /\ <<>> \in U OBVIOUS
    <2>3. Rest(N, <<>>) BY <1>4, <2>1, <2>2
    <2>4. 0 \in 0..N OBVIOUS
    <2> HIDE DEF Rest
    <2> QED BY <2>2, <2>3, <2>4
  <1>6. ASSUME NEW d \in 0..(N - 1), d \in E PROVE d + 1 \in E
    <2>1. PICK s : Rest(N - d, s) BY <1>6
    <2>2. PICK n \in 1..N : n = N - d OBVIOUS
    <2>3. PICK i \in 0..N : i = n - 1 OBVIOUS
    <2>4. N - (d + 1) = i /\ d + 1 \in 0..N BY <2>2, <2>3
    <2>5. s \in U /\ all = w[n] \o s BY <2>1, <2>2
    <2>6. w[n] = w[i] \o pieces[n] BY <1>2, <2>3
    <2>7. w[i] \in U /\ pieces[n] \in U BY <1>2, <1>3
    <2>8. all = w[i] \o (pieces[n] \o s)
      <3>1. Then(Then(w[i], pieces[n]), s) = Then(w[i], Then(pieces[n], s))
        BY <2>5, <2>7, Regrouped
      <3> QED BY <2>5, <2>6, <3>1 DEF Then
    <2>9. pieces[n] \o s \in U BY <2>5, <2>7
    <2>10. Rest(i, pieces[n] \o s) BY <2>8, <2>9
    <2> QED BY <2>4, <2>10
  <1>7. \A d \in 0..N : d \in E
    <2> HIDE DEF E
    <2> QED BY <1>5, <1>6, InductionUpTo
  <1>8. \A n \in 0..N : \E s : Rest(n, s)
    <2> TAKE n \in 0..N
    <2>1. PICK d \in 0..N : d = N - n OBVIOUS
    <2>2. N - d = n BY <2>1
    <2> HIDE DEF Rest
    <2>3. \E s : Rest(N - d, s) BY <1>7
    <2> QED BY <2>2, <2>3
  <1> DEFINE r == [n \in 0..N |-> CHOOSE s : Rest(n, s)]
  <1>9. \A n \in 0..N : Rest(n, r[n])
    <2> HIDE DEF Rest
    <2> QED BY <1>8
  <1>10. r \in [0..N -> U] BY <1>9
  <1>11. \A n \in 0..N : all = w[n] \o r[n] BY <1>9
  <1> HIDE DEF r, Rest, E
  <1>12. r[0] = all
    <2>1. 0 \in 0..N OBVIOUS
    <2>2. all = <<>> \o r[0] BY <1>2, <1>11, <2>1
    <2>3. r[0] \in U BY <1>10, <2>1
    <2> QED BY <2>2, <2>3, ConcatEmptySeq
  <1>13. r[N] = <<>>
    <2>1. N \in 0..N OBVIOUS
    <2>2. PICK s \in U : s = r[N] BY <1>10, <2>1
    <2>3. all \o s = all BY <1>4, <1>11, <2>1, <2>2
    <2>4. s = <<>> BY <2>3, ConcatEqualIffEmpty
    <2> QED BY <2>2, <2>4
  <1>14. ASSUME NEW n \in 1..N PROVE r[n - 1] = pieces[n] \o r[n]
    <2>1. PICK i \in 0..N : i = n - 1 OBVIOUS
    <2>2. PICK a \in U, b \in U, c \in U, d \in U :
              a = w[i] /\ b = pieces[n] /\ c = r[n] /\ d = r[i]
      <3>1. w[i] \in U BY <1>2
      <3>2. pieces[n] \in U BY <1>3
      <3>3. r[n] \in U /\ r[i] \in U BY <1>10
      <3> QED BY <3>1, <3>2, <3>3
    <2>3. all = a \o d BY <1>11, <2>2
    <2>4. all = w[n] \o c
      <3>1. n \in 0..N OBVIOUS
      <3> QED BY <1>11, <2>2, <3>1
    <2>5. w[n] = a \o b BY <1>2, <2>1, <2>2
    <2>6. Then(a, d) = Then(Then(a, b), c) BY <2>3, <2>4, <2>5 DEF Then
    <2>7. d = Then(b, c) BY <2>6, SameEnd
    <2>8. Then(b, c) = b \o c BY DEF Then
    <2> QED BY <2>1, <2>2, <2>7, <2>8
  <1> QED BY <1>1, <1>2, <1>4, <1>10, <1>12, <1>13, <1>14

-----------------------------------------------------------------------------
\* What is written of nodes
Sent == {"filter", "scope", "conjunction", "And", "Or"} \cup Comparisons
          \cup Known \cup Numbers \cup Texts \cup BOOLEAN \cup Nat

\* The first value of a node tells its kind, and NodeOf() makes the node of its values.
LEMMA FieldsOf ==
    ASSUME NEW x \in Nodes
    PROVE  /\ Fields(x) \in Seq(Sent) /\ Len(Fields(x)) \in Nat \ {0}
           /\ \A rest \in Seq(Sent) : NodeOf(Fields(x) \o rest) = x
  <1>1. CASE x \in FilterNodes
    <2>1. x.type = "filter" BY <1>1 DEF FilterNodes
    <2>2. Fields(x) = <<"filter", x.operator, x.value, x.property, x.negated>>
      BY <2>1 DEF Fields
    <2>3. /\ "filter" \in Sent /\ x.operator \in Sent /\ x.value \in Sent
          /\ x.property \in Sent /\ x.negated \in Sent
      BY <1>1 DEF FilterNodes, Sent
    <2>4. Fields(x) \in Seq(Sent) /\ Len(Fields(x)) = 5 BY <2>2, <2>3
    <2>5. ASSUME NEW rest \in Seq(Sent) PROVE NodeOf(Fields(x) \o rest) = x
      <3>1. PICK in : in = Fields(x) \o rest OBVIOUS
      <3>2. /\ in[1] = "filter" /\ in[2] = x.operator /\ in[3] = x.value
            /\ in[4] = x.property /\ in[5] = x.negated
        BY <2>2, <2>4, <3>1
      <3>3. x = [type |-> "filter", operator |-> x.operator, value |-> x.value,
                 property |-> x.property, negated |-> x.negated]
        BY <1>1 DEF FilterNodes
      <3> QED BY <3>1, <3>2, <3>3 DEF NodeOf
    <2> QED BY <2>4, <2>5
  <1>2. CASE x \in ScopeNodes
    <2>1. x.type = "scope" BY <1>2 DEF ScopeNodes
    <2>2. Fields(x) = <<"scope", x.negated>> BY <2>1 DEF Fields
    <2>3. "scope" \in Sent /\ x.negated \in Sent BY <1>2 DEF ScopeNodes, Sent
    <2>4. Fields(x) \in Seq(Sent) /\ Len(Fields(x)) = 2 BY <2>2, <2>3
    <2>5. ASSUME NEW rest \in Seq(Sent) PROVE NodeOf(Fields(x) \o rest) = x
      <3>1. PICK in : in = Fields(x) \o rest OBVIOUS
      <3>2. in[1] = "scope" /\ in[2] = x.negated BY <2>2, <2>4, <3>1
      <3>3. x = [type |-> "scope", negated |-> x.negated] BY <1>2 DEF ScopeNodes
      <3> QED BY <3>1, <3>2, <3>3 DEF NodeOf
    <2> QED BY <2>4, <2>5
  <1>3. CASE x \in ConjunctionNodes
    <2>1. x.type = "conjunction" BY <1>3 DEF ConjunctionNodes
    <2>2. Fields(x) = <<"conjunction", x.conjunction, x.terms>> BY <2>1 DEF Fields
    <2>3. "conjunction" \in Sent /\ x.conjunction \in Sent /\ x.terms \in Sent
      BY <1>3 DEF ConjunctionNodes, Sent
    <2>4. Fields(x) \in Seq(Sent) /\ Len(Fields(x)) = 3 BY <2>2, <2>3
    <2>5. ASSUME NEW rest \in Seq(Sent) PROVE NodeOf(Fields(x) \o rest) = x
      <3>1. PICK in : in = Fields(x) \o rest OBVIOUS
      <3>2. in[1] = "conjunction" /\ in[2] = x.conjunction /\ in[3] = x.terms
        BY <2>2, <2>4, <3>1
      <3>3. x = [type |-> "conjunction", conjunction |-> x.conjunction, terms |-> x.terms]
        BY <1>3 DEF ConjunctionNodes
      <3> QED BY <3>1, <3>2, <3>3 DEF NodeOf, ConjunctionNode
    <2> QED BY <2>4, <2>5
  <1> QED BY <1>1, <1>2, <1>3 DEF Nodes, Leaves

LEMMA WrittenOf ==
    ASSUME NEW p \in Seq(Nodes), p # <<>>
    PROVE  \E r \in [0..Len(p) -> Seq(Sent)] :
              /\ r[0] = Written(p) /\ r[Len(p)] = <<>>
              /\ \A n \in 1..Len(p) : r[n - 1] = Fields(p[n]) \o r[n]
  <1> DEFINE pieces == [i \in DOMAIN p |-> Fields(p[i])]
  <1>1. DOMAIN p = 1..Len(p) /\ Len(p) \in Nat /\ Len(p) # 0 OBVIOUS
  <1>2. \A i \in 1..Len(p) : p[i] \in Nodes OBVIOUS
  <1>3. \A i \in 1..Len(p) : Fields(p[i]) \in Seq(Sent) BY <1>2, FieldsOf
  <1>4. pieces \in Seq(Seq(Sent)) /\ Len(pieces) = Len(p) /\ pieces # <<>> BY <1>1, <1>3
  <1>5. \A i \in 1..Len(p) : pieces[i] = Fields(p[i]) OBVIOUS
  <1>6. Written(p) = FlattenSeq(pieces) BY DEF Written
  <1> HIDE DEF pieces
  <1>7. PICK U : U = Seq(Sent) OBVIOUS
  <1>8. PICK r \in [0..Len(pieces) -> U] :
              /\ r[0] = FlattenSeq(pieces) /\ r[Len(pieces)] = <<>>
              /\ \A n \in 1..Len(pieces) : r[n - 1] = pieces[n] \o r[n]
    <2>1. pieces \in Seq(U) BY <1>4, <1>7
    <2> QED BY <1>4, <1>7, <2>1, FlattenedFromTheRight
  <1> QED BY <1>4, <1>5, <1>6, <1>7, <1>8

\* One round of Read()
ReadRound(in, k, n) ==
    IF n = 0 THEN [term |-> <<>>, in |-> in, missing |-> 1]
    ELSE LET s == k[n - 1] IN IF s.missing = 0 THEN s ELSE ReadNode(s)

\* Read() is defined: its rounds exist.
LEMMA ReadRoundsExist ==
    ASSUME NEW N \in Nat, NEW in
    PROVE  \E k : k = [n \in 0..N |-> ReadRound(in, k, n)]
  <1> DEFINE E == {m \in 0..N : \E k : k = [n \in 0..m |-> ReadRound(in, k, n)]}
  <1>1. 0 \in E
    <2> DEFINE k == [n \in 0..0 |-> [term |-> <<>>, in |-> in, missing |-> 1]]
    <2>1. \A n \in 0..0 : ReadRound(in, k, n) = [term |-> <<>>, in |-> in, missing |-> 1]
      BY DEF ReadRound
    <2>2. k = [n \in 0..0 |-> ReadRound(in, k, n)] BY <2>1
    <2>3. 0 \in 0..N OBVIOUS
    <2> HIDE DEF k
    <2> QED BY <2>2, <2>3
  <1>2. ASSUME NEW m \in 0..(N - 1), m \in E PROVE m + 1 \in E
    <2>1. PICK k : k = [n \in 0..m |-> ReadRound(in, k, n)] BY <1>2
    <2> DEFINE h == [n \in 0..(m + 1) |->
                       IF n <= m THEN k[n] ELSE ReadRound(in, k, n)]
    <2>2. \A n \in 0..(m + 1) : h[n] = ReadRound(in, h, n)
      <3> TAKE n \in 0..(m + 1)
      <3>1. ReadRound(in, h, n) = ReadRound(in, k, n)
        <4>1. CASE n = 0 BY <4>1 DEF ReadRound
        <4>2. CASE n # 0
          <5>1. n - 1 \in 0..m /\ h[n - 1] = k[n - 1] BY <4>2
          <5> HIDE DEF h
          <5> QED BY <4>2, <5>1 DEF ReadRound
        <4> QED BY <4>1, <4>2
      <3>2. n <= m => k[n] = ReadRound(in, k, n) BY <2>1
      <3> QED BY <3>1, <3>2
    <2>3. h = [n \in 0..(m + 1) |-> ReadRound(in, h, n)] BY <2>2
    <2>4. m + 1 \in 0..N OBVIOUS
    <2> HIDE DEF h
    <2> QED BY <2>3, <2>4
  <1> HIDE DEF E
  <1>3. \A m \in 0..N : m \in E BY <1>1, <1>2, InductionUpTo
  <1>4. N \in E BY <1>3
  <1> QED BY <1>4 DEF E

\* What one call of operator>> takes from what is left
LEMMA ReadsOneNode ==
    ASSUME NEW x \in Nodes, NEW rest \in Seq(Sent), NEW s, s.in = Fields(x) \o rest
    PROVE  ReadNode(s) = [term |-> Append(s.term, x), in |-> rest,
                          missing |-> s.missing - 1 + Within(x)]
  <1>1. PICK f \in Seq(Sent) : f = Fields(x) BY FieldsOf
  <1>2. PICK in \in Seq(Sent) : in = f \o rest
    <2>1. f \o rest \in Seq(Sent) OBVIOUS
    <2> QED BY <2>1
  <1>3. NodeOf(in) = x BY <1>1, <1>2, FieldsOf
  <1>4. SubSeq(in, Len(f) + 1, Len(in)) = rest BY <1>2
  <1>5. s.in = in BY <1>1, <1>2
  <1> QED BY <1>1, <1>3, <1>4, <1>5 DEF ReadNode

\* One more element of a beginning
LEMMA OneMore ==
    ASSUME NEW T, NEW s \in Seq(T), NEW i \in 0..Len(s), NEW j \in 1..Len(s), j = i + 1
    PROVE  Append(SubSeq(s, 1, i), s[j]) = SubSeq(s, 1, j)
  <1>1. PICK a \in Seq(T) : a = SubSeq(s, 1, i)
    <2>1. SubSeq(s, 1, i) \in Seq(T) OBVIOUS
    <2> QED BY <2>1
  <1>2. PICK b \in Seq(T) : b = SubSeq(s, 1, j)
    <2>1. SubSeq(s, 1, j) \in Seq(T) OBVIOUS
    <2> QED BY <2>1
  <1>3. Len(a) = i /\ \A n \in 1..i : a[n] = s[n] BY <1>1
  <1>4. Len(b) = j /\ \A n \in 1..j : b[n] = s[n] BY <1>2
  <1>5. s[j] \in T OBVIOUS
  <1>6. PICK c \in Seq(T) : c = Append(a, s[j])
    <2>1. Append(a, s[j]) \in Seq(T) BY <1>5
    <2> QED BY <2>1
  <1>7. Len(c) = j /\ c[j] = s[j] /\ \A n \in 1..i : c[n] = a[n] BY <1>3, <1>6
  <1>8. \A n \in 1..Len(c) : c[n] = b[n] BY <1>3, <1>4, <1>7
  <1>9. Len(c) = Len(b) BY <1>4, <1>7
  <1>10. c = b BY <1>8, <1>9, SeqEqual
  <1> QED BY <1>1, <1>2, <1>6, <1>10

\* A term that is sent is there what it was here.
LEMMA ReadsBack ==
    ASSUME NEW p \in Seq(Nodes), Are(p, 1)
    PROVE  Read(Written(p)) = <<p, <<>>>>
  <1>1. PICK N \in Nat : N = Len(p) OBVIOUS
  <1>2. PICK m : Waits(p, m, 1) BY DEF Are
  <1>3. /\ m[0] = 1 /\ m[N] = 0
        /\ \A i \in 1..N : m[i - 1] # 0 /\ m[i] = m[i - 1] - 1 + Within(p[i])
    BY <1>1, <1>2 DEF Waits
  <1>4. N # 0 /\ p # <<>> BY <1>1, <1>3
  <1>5. PICK U : U = Seq(Sent) OBVIOUS
  <1>6. PICK r \in [0..N -> U] :
              /\ r[0] = Written(p) /\ r[N] = <<>>
              /\ \A n \in 1..N : r[n - 1] = Fields(p[n]) \o r[n]
    BY <1>1, <1>4, <1>5, WrittenOf
  <1>7. \A n \in 1..N : p[n] \in Nodes BY <1>1
  <1>8. PICK in : in = Written(p) OBVIOUS
  <1>9. PICK M \in Nat : M = Len(in)
    <2>1. in \in U BY <1>6, <1>8
    <2> QED BY <1>5, <2>1
  <1>10. N <= M
    <2> DEFINE E == {d \in 0..N : \A n \in 0..N : n = N - d => Len(r[n]) >= d}
    <2>1. 0 \in E
      <3>1. Len(r[N]) = 0 BY <1>6
      <3> QED BY <3>1
    <2>2. ASSUME NEW d \in 0..(N - 1), d \in E PROVE d + 1 \in E
      <3>1. PICK j \in 1..N, i \in 0..N : j = N - d /\ i = j - 1 OBVIOUS
      <3>2. j \in 0..N OBVIOUS
      <3>3. Len(r[j]) >= d BY <2>2, <3>1, <3>2
      <3>4. PICK f \in Seq(Sent) : f = Fields(p[j]) BY <1>7, FieldsOf
      <3>5. Len(f) \in Nat \ {0} BY <1>7, <3>4, FieldsOf
      <3>6. PICK s \in Seq(Sent) : s = r[j] BY <1>5, <1>6, <3>2
      <3>7. r[i] = f \o s BY <1>6, <3>1, <3>4, <3>6
      <3>8. Len(r[i]) = Len(f) + Len(s) BY <3>7
      <3>9. Len(r[i]) >= d + 1 BY <3>3, <3>5, <3>6, <3>8
      <3>10. i = N - (d + 1) /\ d + 1 \in 0..N BY <3>1
      <3> QED BY <3>9, <3>10
    <2>3. N \in E
      <3> HIDE DEF E
      <3>1. \A d \in 0..N : d \in E BY <2>1, <2>2, InductionUpTo
      <3> QED BY <3>1
    <2>4. Len(r[0]) >= N BY <2>3
    <2> QED BY <1>6, <1>8, <1>9, <2>4
  <1> DEFINE k == CHOOSE k : k = [n \in 0..M |-> ReadRound(in, k, n)]
  <1>11. k = [n \in 0..M |-> ReadRound(in, k, n)] BY ReadRoundsExist
  <1>12. Read(in) = <<k[M].term, k[M].in>> BY <1>9 DEF Read, ReadRound
  <1> HIDE DEF k
  <1>13. \A n \in 0..M : k[n] = ReadRound(in, k, n) BY <1>11
  <1> DEFINE At(n) == [term |-> SubSeq(p, 1, n), in |-> r[n], missing |-> m[n]]
             E == {n \in 0..N : k[n] = At(n)}
  <1>14. 0 \in E
    <2>1. k[0] = [term |-> <<>>, in |-> in, missing |-> 1] BY <1>13 DEF ReadRound
    <2>2. SubSeq(p, 1, 0) = <<>> OBVIOUS
    <2>3. k[0] = At(0) BY <1>3, <1>6, <1>8, <2>1, <2>2
    <2> HIDE DEF At
    <2> QED BY <2>3
  <1>15. ASSUME NEW n \in 0..(N - 1), n \in E PROVE n + 1 \in E
    <2>1. PICK j \in 1..N : j = n + 1 OBVIOUS
    <2>2. k[n] = At(n) BY <1>15
    <2>3. j \in 0..M /\ j # 0 /\ j - 1 = n /\ n \in 0..N BY <1>10, <2>1
    <2>4. m[n] # 0 /\ m[j] = m[n] - 1 + Within(p[j]) BY <1>3, <2>1, <2>3
    <2>5. k[j] = ReadRound(in, k, j) BY <1>13, <2>3
    <2>6. At(n).missing = m[n] OBVIOUS
    <2>7. k[j] = ReadNode(At(n))
      <3> HIDE DEF At
      <3> QED BY <2>2, <2>3, <2>4, <2>5, <2>6 DEF ReadRound
    <2>8. PICK x \in Nodes : x = p[j] BY <1>7
    <2>9. PICK rest \in Seq(Sent) : rest = r[j] BY <1>5, <1>6
    <2>10. r[n] = Fields(x) \o rest BY <1>6, <2>1, <2>3, <2>8, <2>9
    <2>11. PICK t, w : t = SubSeq(p, 1, n) /\ w = m[n] OBVIOUS
    <2>12. PICK s : s = At(n) /\ s.term = t /\ s.missing = w /\ s.in = Fields(x) \o rest
      <3>1. At(n).term = t /\ At(n).missing = w /\ At(n).in = r[n] BY <2>11
      <3> HIDE DEF At
      <3> QED BY <2>10, <3>1
    <2>13. k[j] = [term |-> Append(t, x), in |-> rest, missing |-> w - 1 + Within(x)]
      <3> HIDE DEF At
      <3>1. ReadNode(s) = [term |-> Append(s.term, x), in |-> rest,
                           missing |-> s.missing - 1 + Within(x)]
        BY <2>12, ReadsOneNode
      <3> QED BY <2>7, <2>12, <3>1
    <2>14. Append(t, x) = SubSeq(p, 1, j) BY <1>1, <2>1, <2>3, <2>8, <2>11, OneMore
    <2>15. w - 1 + Within(x) = m[j] BY <2>4, <2>8, <2>11
    <2>16. k[j] = At(j) BY <2>9, <2>13, <2>14, <2>15
    <2> HIDE DEF At
    <2> QED BY <2>1, <2>16
  <1>16. N \in E
    <2> HIDE DEF E
    <2>1. \A n \in 0..N : n \in E BY <1>14, <1>15, InductionUpTo
    <2> QED BY <2>1
  <1>17. k[N] = [term |-> p, in |-> <<>>, missing |-> 0]
    <2>1. SubSeq(p, 1, N) = p BY <1>1
    <2> QED BY <1>3, <1>6, <1>16, <2>1
  <1> HIDE DEF E
  <1> DEFINE F == {d \in 0..(M - N) : \A n \in 0..M : n = N + d => k[n] = k[N]}
  <1>18. 0 \in F BY <1>10
  <1>19. ASSUME NEW d \in 0..(M - N - 1), d \in F PROVE d + 1 \in F
    <2>1. PICK i \in 0..M, j \in 1..M : i = N + d /\ j = i + 1 BY <1>10
    <2>2. k[i] = k[N] BY <1>19, <2>1
    <2>3. j \in 0..M /\ j # 0 /\ j - 1 = i BY <2>1
    <2>4. k[j] = ReadRound(in, k, j) BY <1>13, <2>3
    <2>5. k[i].missing = 0 BY <1>17, <2>2
    <2>6. k[j] = k[i] BY <2>3, <2>4, <2>5 DEF ReadRound
    <2>7. d + 1 \in 0..(M - N) /\ j = N + (d + 1) BY <2>1
    <2> QED BY <2>2, <2>6, <2>7
  <1>20. k[M] = k[N]
    <2>1. PICK D \in Nat : D = M - N BY <1>10
    <2>2. \A d \in 0..D : d \in F
      <3>1. \A d \in 0..(D - 1) : d \in F => d + 1 \in F BY <1>19, <2>1
      <3>2. 0 \in F BY <1>18
      <3> HIDE DEF F
      <3> QED BY <3>1, <3>2, InductionUpTo
    <2>3. D \in F BY <2>2
    <2>4. M = N + D /\ M \in 0..M BY <2>1
    <2> QED BY <2>3, <2>4
  <1> QED BY <1>8, <1>12, <1>17, <1>20

-----------------------------------------------------------------------------
(* What is heard of tokens *)

\* The tokens of a filter; those that a query of filters has; and what is heard of them.
FilterTerms == Names \cup Numbers \cup Texts \cup Comparisons
Spoken == FilterTerms \cup ConjunctionOps \cup {"!", "(", ")"}
GroupRecords == [tokens : Seq(FilterTerms), said : BOOLEAN, op : {"And", "Or"}, right : BOOLEAN]

\* A group that says something else, or the opposite
Saying(g, v) == [g EXCEPT !.said = v]
Denied(g) == Saying(g, ~g.said)
Following(c, v) == [Nothing EXCEPT !.op = c, !.right = v]

\* A group before the others, by a name
On(g, rest) == <<g>> \o rest

\* What is heard is a group.
LEMMA GroupTypes ==
    /\ Nothing \in GroupRecords
    /\ \A g \in GroupRecords : Whole(g) \in BOOLEAN /\ Denied(g) \in GroupRecords
    /\ \A g \in GroupRecords : \A v \in BOOLEAN : Saying(g, v) \in GroupRecords
    /\ \A c \in {"And", "Or"} : \A v \in BOOLEAN : Following(c, v) \in GroupRecords
  <1>1. Nothing \in GroupRecords
    <2>1. <<>> \in Seq(FilterTerms) OBVIOUS
    <2> QED BY <2>1 DEF Nothing, GroupRecords
  <1>2. ASSUME NEW g \in GroupRecords PROVE Whole(g) \in BOOLEAN BY DEF Whole, GroupRecords
  <1>3. ASSUME NEW g \in GroupRecords, NEW v \in BOOLEAN PROVE Saying(g, v) \in GroupRecords
    BY DEF Saying, GroupRecords
  <1>4. ASSUME NEW g \in GroupRecords PROVE Denied(g) \in GroupRecords
    <2>1. PICK v \in BOOLEAN : v = ~g.said OBVIOUS
    <2> QED BY <1>3, <2>1 DEF Denied
  <1>5. ASSUME NEW c \in {"And", "Or"}, NEW v \in BOOLEAN
        PROVE  Following(c, v) \in GroupRecords
    BY <1>1 DEF Following, GroupRecords
  <1> QED BY <1>1, <1>2, <1>3, <1>4, <1>5

LEMMA SayingIs ==
    /\ \A g \in GroupRecords : \A v \in BOOLEAN :
          /\ Saying(g, v).said = v /\ Saying(g, v).tokens = g.tokens
          /\ Saying(g, v).op = g.op /\ Saying(g, v).right = g.right
    /\ \A c \in {"And", "Or"} : \A v \in BOOLEAN :
          /\ Following(c, v).tokens = <<>> /\ Following(c, v).op = c
          /\ Following(c, v).right = v
    /\ Nothing.tokens = <<>> /\ Nothing.op = "And" /\ Nothing.right = TRUE
  BY DEF Saying, Following, Nothing, GroupRecords

\* What is heard of a token
LEMMA HeardOfToken ==
    ASSUME NEW g \in GroupRecords, NEW rest \in Seq(GroupRecords), NEW row
    PROVE  /\ Heard(")", On(g, rest), row) = On(Nothing, On(g, rest))
           /\ Heard("!", On(g, rest), row) = On(Denied(g), rest)
           /\ \A t \in ConjunctionOps : Heard(t, On(g, rest), row)
                 = On(Following(ConjunctionOf(t), Whole(g)), rest)
  <1>1. PICK groups : groups = On(g, rest) OBVIOUS
  <1>2. groups[1] = g /\ Tail(groups) = rest BY <1>1 DEF On
  <1>3. Heard(")", groups, row) = On(Nothing, groups) BY DEF Heard, ConjunctionOps, On
  <1>4. Heard("!", groups, row) = On(Denied(g), rest)
    BY <1>2 DEF Heard, Denied, Saying, ConjunctionOps, On
  <1>5. ASSUME NEW t \in ConjunctionOps
        PROVE  Heard(t, groups, row) = On(Following(ConjunctionOf(t), Whole(g)), rest)
    BY <1>2 DEF Heard, Following, ConjunctionOps, On
  <1> QED BY <1>1, <1>3, <1>4, <1>5

\* A "(" leaves the group that its ")" began.
LEMMA HeardOfParenthesis ==
    ASSUME NEW h \in GroupRecords, NEW g \in GroupRecords, NEW rest \in Seq(GroupRecords), NEW row
    PROVE  Heard("(", On(h, On(g, rest)), row) = On(Saying(g, Whole(h)), rest)
  <1>1. PICK groups : groups = On(h, On(g, rest)) OBVIOUS
  <1>2. groups[1] = h /\ groups[2] = g /\ SubSeq(groups, 3, Len(groups)) = rest BY <1>1 DEF On
  <1>3. Heard("(", groups, row) = On(Saying(g, Whole(h)), rest)
    BY <1>2 DEF Heard, Saying, ConjunctionOps, On
  <1> QED BY <1>1, <1>3

LEMMA OtherTokens ==
    \A t \in FilterTerms : t \notin ConjunctionOps \cup {"!", "(", ")", "[", "]", "/", "\\", "end"}
  BY TokensAssumption DEF FilterTerms, Comparisons, ConjunctionOps, NumberOps, MultiOps, StringOps, Symbols

Taking(g, tokens) == [g EXCEPT !.tokens = tokens]
Longer(t, g) == <<t>> \o g.tokens

\* A token of a filter is kept until there are three.
LEMMA HeardOfFilter ==
    ASSUME NEW t \in FilterTerms, NEW g \in GroupRecords, NEW rest \in Seq(GroupRecords), NEW row,
           NEW filter, filter = Longer(t, g)
    PROVE  /\ Len(filter) < 3 => Heard(t, On(g, rest), row) = On(Taking(g, filter), rest)
           /\ ~(Len(filter) < 3) => Heard(t, On(g, rest), row)
                 = On(Saying(Taking(g, <<>>), FilterOf(filter) \in row), rest)
  <1>1. PICK groups : groups = On(g, rest) OBVIOUS
  <1>2. groups[1] = g /\ Tail(groups) = rest BY <1>1 DEF On
  <1>3. t \notin ConjunctionOps /\ t # ")" /\ t # "(" /\ t # "!" BY OtherTokens
  <1>4. Heard(t, groups, row)
          = <<IF Len(filter) < 3 THEN [g EXCEPT !.tokens = filter]
              ELSE [g EXCEPT !.tokens = <<>>, !.said = FilterOf(filter) \in row]>> \o rest
    BY <1>2, <1>3 DEF Heard, Longer
  <1>5. Len(filter) < 3 => Heard(t, groups, row) = On(Taking(g, filter), rest)
    BY <1>4 DEF Taking, On
  <1>6. [g EXCEPT !.tokens = <<>>, !.said = FilterOf(filter) \in row]
          = Saying(Taking(g, <<>>), FilterOf(filter) \in row)
    BY DEF Saying, Taking, GroupRecords
  <1>7. ~(Len(filter) < 3) => Heard(t, groups, row)
           = On(Saying(Taking(g, <<>>), FilterOf(filter) \in row), rest)
    BY <1>4, <1>6 DEF On
  <1> QED BY <1>1, <1>5, <1>7

LEMMA GroupsOfThree ==
    ASSUME NEW a, NEW o, NEW b, NEW start, NEW row
    PROVE  Groups(<<a, o, b>>, start, row) = Heard(a, Heard(o, Heard(b, start, row), row), row)
  <1>1. <<a, o, b>> \in Seq({a, o, b}) OBVIOUS
  <1>2. PICK list \in Seq({a, o, b}) : list = <<a, o, b>> BY <1>1
  <1>3. Len(list) = 3 /\ list[1] = a /\ list[2] = o /\ list[3] = b BY <1>2
  <1>4. PICK k : k = GroupsAt(list, start, row) OBVIOUS
  <1>5. /\ k[0] = start /\ k[Len(list)] = Groups(list, start, row)
        /\ \A n \in 1..Len(list) : k[n] = Heard(list[Len(list) + 1 - n], k[n - 1], row)
    <2>1. GroupsAt(list, start, row)[0] = start BY GroupsRounds
    <2>2. GroupsAt(list, start, row)[Len(list)] = Groups(list, start, row) BY GroupsRounds
    <2>3. ASSUME NEW i \in 1..Len(list)
          PROVE  GroupsAt(list, start, row)[i] =
                    Heard(list[Len(list) + 1 - i], GroupsAt(list, start, row)[i - 1], row)
      BY GroupsRounds
    <2> QED BY <2>1, <2>2, <2>3, <1>4
  <1>6. k[1] = Heard(list[3], k[0], row)
    <2>1. 1 \in 1..Len(list) /\ Len(list) + 1 - 1 = 3 /\ 1 - 1 = 0 BY <1>3
    <2>2. k[1] = Heard(list[Len(list) + 1 - 1], k[1 - 1], row) BY <1>5, <2>1
    <2> QED BY <2>1, <2>2
  <1>7. k[2] = Heard(list[2], k[1], row)
    <2>1. 2 \in 1..Len(list) /\ Len(list) + 1 - 2 = 2 /\ 2 - 1 = 1 BY <1>3
    <2>2. k[2] = Heard(list[Len(list) + 1 - 2], k[2 - 1], row) BY <1>5, <2>1
    <2> QED BY <2>1, <2>2
  <1>8. k[3] = Heard(list[1], k[2], row)
    <2>1. 3 \in 1..Len(list) /\ Len(list) + 1 - 3 = 1 /\ 3 - 1 = 2 BY <1>3
    <2>2. k[3] = Heard(list[Len(list) + 1 - 3], k[3 - 1], row) BY <1>5, <2>1
    <2> QED BY <2>1, <2>2
  <1> QED BY <1>2, <1>3, <1>5, <1>6, <1>7, <1>8

LEMMA OneBefore ==
    ASSUME NEW T, NEW a \in T, NEW o \in T, NEW b \in T
    PROVE  <<b>> \o <<>> = <<b>> /\ <<o>> \o <<b>> = <<o, b>> /\ <<a>> \o <<o, b>> = <<a, o, b>>
  <1>1. <<b>> \o <<>> = <<b>> OBVIOUS
  <1>2. <<o>> \o <<b>> = <<o, b>>
    <2>1. PICK s \in Seq(T), r \in Seq(T) : s = <<o>> /\ r = <<b>>
      <3>1. <<o>> \in Seq(T) /\ <<b>> \in Seq(T) OBVIOUS
      <3> QED BY <3>1
    <2>2. PICK l \in Seq(T) : l = s \o r
      <3>1. s \o r \in Seq(T) OBVIOUS
      <3> QED BY <3>1
    <2>3. PICK m \in Seq(T) : m = <<o, b>>
      <3>1. <<o, b>> \in Seq(T) OBVIOUS
      <3> QED BY <3>1
    <2>4. Len(l) = 2 /\ l[1] = o /\ l[2] = b BY <2>1, <2>2
    <2>5. Len(m) = 2 /\ m[1] = o /\ m[2] = b BY <2>3
    <2>6. \A i \in 1..Len(l) : l[i] = m[i] BY <2>4, <2>5
    <2>7. l = m BY <2>4, <2>5, <2>6, SeqEqual
    <2> QED BY <2>1, <2>2, <2>3, <2>7
  <1>3. <<a>> \o <<o, b>> = <<a, o, b>>
    <2>1. PICK s \in Seq(T), r \in Seq(T) : s = <<a>> /\ r = <<o, b>>
      <3>1. <<a>> \in Seq(T) /\ <<o, b>> \in Seq(T) OBVIOUS
      <3> QED BY <3>1
    <2>2. PICK l \in Seq(T) : l = s \o r
      <3>1. s \o r \in Seq(T) OBVIOUS
      <3> QED BY <3>1
    <2>3. PICK m \in Seq(T) : m = <<a, o, b>>
      <3>1. <<a, o, b>> \in Seq(T) OBVIOUS
      <3> QED BY <3>1
    <2>4. Len(l) = 3 /\ l[1] = a /\ l[2] = o /\ l[3] = b BY <2>1, <2>2
    <2>5. Len(m) = 3 /\ m[1] = a /\ m[2] = o /\ m[3] = b BY <2>3
    <2>6. \A i \in 1..Len(l) : l[i] = m[i] BY <2>4, <2>5
    <2>7. l = m BY <2>4, <2>5, <2>6, SeqEqual
    <2> QED BY <2>1, <2>2, <2>3, <2>7
  <1> QED BY <1>1, <1>2, <1>3

\* Three tokens are a filter.
Three(a, o, b) == <<a, o, b>>

\* Three tokens that are a filter are heard as it.
LEMMA GroupsOfFilter ==
    ASSUME NEW a \in FilterTerms, NEW o \in FilterTerms, NEW b \in FilterTerms,
           NEW g \in GroupRecords, g.tokens = <<>>, NEW rest \in Seq(GroupRecords), NEW row
    PROVE  Groups(Three(a, o, b), On(g, rest), row)
             = On(Saying(g, FilterOf(Three(a, o, b)) \in row), rest)
  <1> DEFINE f1 == <<b>>
             f2 == <<o, b>>
             f3 == <<a, o, b>>
  <1>1. /\ f1 \in Seq(FilterTerms) /\ Len(f1) < 3 /\ f2 \in Seq(FilterTerms) /\ Len(f2) < 3
        /\ ~(Len(f3) < 3)
    OBVIOUS
  <1>2. <<b>> \o <<>> = f1 /\ <<o>> \o f1 = f2 /\ <<a>> \o f2 = f3
    <2>1. <<b>> \o <<>> = <<b>> OBVIOUS
    <2>2. <<o>> \o <<b>> = <<o, b>> BY OneBefore
    <2>3. <<a>> \o <<o, b>> = <<a, o, b>> BY OneBefore
    <2> QED BY <2>1, <2>2, <2>3, Zenon
  <1>3. Groups(f3, On(g, rest), row) = Heard(a, Heard(o, Heard(b, On(g, rest), row), row), row)
    BY GroupsOfThree
  <1>4. f3 = Three(a, o, b) BY DEF Three
  <1> HIDE DEF f1, f2, f3
  <1>5. PICK g1 \in GroupRecords : g1 = Taking(g, f1) /\ g1.tokens = f1
    <2>1. Taking(g, f1) \in GroupRecords /\ Taking(g, f1).tokens = f1
      BY <1>1 DEF Taking, GroupRecords
    <2> QED BY <2>1
  <1>6. PICK g2 \in GroupRecords : g2 = Taking(g1, f2) /\ g2.tokens = f2
    <2>1. Taking(g1, f2) \in GroupRecords /\ Taking(g1, f2).tokens = f2
      BY <1>1 DEF Taking, GroupRecords
    <2> QED BY <2>1
  <1>7. Taking(g2, <<>>) = g BY <1>5, <1>6 DEF Taking, GroupRecords
  <1>8. Heard(b, On(g, rest), row) = On(g1, rest)
    <2>1. f1 = Longer(b, g) BY <1>2 DEF Longer
    <2> QED BY <1>1, <1>5, <2>1, HeardOfFilter
  <1>9. Heard(o, On(g1, rest), row) = On(g2, rest)
    <2>1. f2 = Longer(o, g1) BY <1>2, <1>5 DEF Longer
    <2> QED BY <1>1, <1>6, <2>1, HeardOfFilter
  <1>10. Heard(a, On(g2, rest), row) = On(Saying(Taking(g2, <<>>), FilterOf(f3) \in row), rest)
    <2>1. f3 = Longer(a, g2) BY <1>2, <1>6 DEF Longer
    <2> QED BY <1>1, <2>1, HeardOfFilter
  <1>11. Heard(a, On(g2, rest), row) = On(Saying(g, FilterOf(f3) \in row), rest)
    BY <1>7, <1>10
  <1> QED BY <1>3, <1>8, <1>9, <1>4, <1>11

-----------------------------------------------------------------------------
(* Tokens and terms that mean the same *)

LEMMA GroupsOfThen ==
    ASSUME NEW T, NEW p \in Seq(T), NEW q \in Seq(T), NEW start, NEW row
    PROVE  Groups(Then(p, q), start, row) = Groups(p, Groups(q, start, row), row)
  BY GroupsOfBoth DEF Then

LEMMA GroupsOfToken ==
    ASSUME NEW T, NEW x \in T, NEW q \in Seq(T), NEW start, NEW row
    PROVE  Groups(Then(<<x>>, q), start, row) = Heard(x, Groups(q, start, row), row)
  <1>1. PICK p \in Seq(T) : p = <<x>>
    <2>1. <<x>> \in Seq(T) OBVIOUS
    <2> QED BY <2>1
  <1>2. Groups(Then(p, q), start, row) = Groups(p, Groups(q, start, row), row)
    BY GroupsOfThen
  <1>3. Groups(p, Groups(q, start, row), row) = Heard(x, Groups(q, start, row), row)
    BY <1>1, GroupsOfOne
  <1> QED BY <1>1, <1>2, <1>3

\* Tokens that are heard as a filter or parentheses that say v, and others that leave
\* a group behind when nothing was heard before them.
HeardAsOne(t, v, row) ==
    /\ v \in BOOLEAN
    /\ \A g \in GroupRecords : \A rest \in Seq(GroupRecords) :
          g.tokens = <<>> => Groups(t, On(g, rest), row) = On(Saying(g, v), rest)
HeardAs(t, h, row) ==
    /\ h \in GroupRecords /\ h.tokens = <<>>
    /\ \A rest \in Seq(GroupRecords) : Groups(t, On(Nothing, rest), row) = On(h, rest)

\* Tokens and a term that mean the same: of a parenthesed_clause, a complex_clause, and
\* with a "!" or without.
MeansOne(t, term) ==
    /\ t \in Seq(Spoken) /\ Simple(term) /\ Are(term, 1)
    /\ \A row : \E v : /\ HeardAsOne(t, v, row)
                       /\ Has(term, v, row) /\ Has(Negated(term), ~v, row)
MeansEither(t, term) ==
    /\ t \in Seq(Spoken) /\ Complex(term) /\ Are(term, 1)
    /\ \A row : \E h : /\ HeardAs(t, h, row) /\ Has(term, Whole(h), row)
                       /\ Has(Negated(term), Whole(Denied(h)), row)
Means(t, term) ==
    /\ t \in Seq(Spoken) /\ Complex(term) /\ Are(term, 1)
    /\ \A row : \E h : HeardAs(t, h, row) /\ Has(term, Whole(h), row)

\* A complex_clause may be a query.
LEMMA EitherMeans ==
    ASSUME NEW t, NEW term, MeansEither(t, term)
    PROVE  Means(t, term)
  BY DEF MeansEither, Means

\* complex_clause ::= parenthesed_clause
LEMMA OneMeansEither ==
    ASSUME NEW t, NEW term, MeansOne(t, term)
    PROVE  MeansEither(t, term)
  <1>1. t \in Seq(Spoken) /\ Complex(term) /\ Are(term, 1) BY DEF MeansOne, Complex
  <1>2. ASSUME NEW row
        PROVE  \E h : /\ HeardAs(t, h, row) /\ Has(term, Whole(h), row)
                      /\ Has(Negated(term), Whole(Denied(h)), row)
    <2>1. PICK v : HeardAsOne(t, v, row) /\ Has(term, v, row) /\ Has(Negated(term), ~v, row)
      BY DEF MeansOne
    <2>2. v \in BOOLEAN BY <2>1 DEF HeardAsOne
    <2>3. PICK h \in GroupRecords : h = Saying(Nothing, v) BY <2>2, GroupTypes
    <2>4. /\ h.said = v /\ h.tokens = <<>> /\ h.op = "And" /\ h.right = TRUE
      BY <2>2, <2>3, GroupTypes, SayingIs
    <2>5. Whole(h) = v BY <2>2, <2>4 DEF Whole
    <2>6. Whole(Denied(h)) = ~v
      <3>1. PICK w \in BOOLEAN : w = ~h.said OBVIOUS
      <3>2. Denied(h) = Saying(h, w) BY <3>1 DEF Denied
      <3>3. Denied(h).said = w /\ Denied(h).op = "And" /\ Denied(h).right = TRUE
        BY <2>4, <3>2, SayingIs
      <3> QED BY <2>2, <2>4, <3>1, <3>3 DEF Whole
    <2>7. HeardAs(t, h, row)
      <3>1. Nothing \in GroupRecords /\ Nothing.tokens = <<>> BY GroupTypes, SayingIs
      <3> QED BY <2>1, <2>3, <2>4, <3>1 DEF HeardAsOne, HeardAs
    <2>8. Has(term, Whole(h), row) BY <2>1, <2>5
    <2>9. Has(Negated(term), Whole(Denied(h)), row) BY <2>1, <2>6
    <2> QED BY <2>7, <2>8, <2>9
  <1> QED BY <1>1, <1>2 DEF MeansEither

\* A "!" before a complex_clause
LEMMA BangMeans ==
    ASSUME NEW t, NEW term, MeansEither(t, term)
    PROVE  Means(Then(<<"!">>, t), Negated(term))
  <1>1. t \in Seq(Spoken) /\ Complex(term) /\ Are(term, 1) BY DEF MeansEither
  <1>2. "!" \in Spoken BY DEF Spoken
  <1>3. Then(<<"!">>, t) \in Seq(Spoken)
    <2>1. <<"!">> \in Seq(Spoken) BY <1>2
    <2> QED BY <1>1, <2>1 DEF Then
  <1>4. Complex(Negated(term)) BY <1>1, NegatedStaysComplex
  <1>5. Are(Negated(term), 1) BY <1>1, AreNegated
  <1>6. ASSUME NEW row
        PROVE  \E h : HeardAs(Then(<<"!">>, t), h, row) /\ Has(Negated(term), Whole(h), row)
    <2>1. PICK h : HeardAs(t, h, row) /\ Has(Negated(term), Whole(Denied(h)), row)
      BY DEF MeansEither
    <2>2. h \in GroupRecords /\ h.tokens = <<>> BY <2>1 DEF HeardAs
    <2>3. Denied(h) \in GroupRecords BY <2>2, GroupTypes
    <2>4. Denied(h).tokens = <<>>
      <3>1. PICK w \in BOOLEAN : w = ~h.said OBVIOUS
      <3>2. Denied(h) = Saying(h, w) BY <3>1 DEF Denied
      <3> QED BY <2>2, <3>2, SayingIs
    <2>5. ASSUME NEW rest \in Seq(GroupRecords)
          PROVE  Groups(Then(<<"!">>, t), On(Nothing, rest), row) = On(Denied(h), rest)
      <3>1. Groups(Then(<<"!">>, t), On(Nothing, rest), row)
              = Heard("!", Groups(t, On(Nothing, rest), row), row)
        BY <1>1, <1>2, GroupsOfToken
      <3>2. Groups(t, On(Nothing, rest), row) = On(h, rest) BY <2>1 DEF HeardAs
      <3>3. Heard("!", On(h, rest), row) = On(Denied(h), rest) BY <2>2, HeardOfToken
      <3> QED BY <3>1, <3>2, <3>3
    <2>6. HeardAs(Then(<<"!">>, t), Denied(h), row) BY <2>3, <2>4, <2>5 DEF HeardAs
    <2> QED BY <2>1, <2>6
  <1> QED BY <1>3, <1>4, <1>5, <1>6 DEF Means

\* literal number_operator IDENTIFIER and the like
LEMMA FilterMeansOne ==
    ASSUME NEW a \in FilterTerms, NEW o \in FilterTerms, NEW b \in FilterTerms,
           NEW x \in FilterNodes, x = FilterOf(Three(a, o, b)), x.negated = FALSE
    PROVE  MeansOne(Three(a, o, b), <<x>>)
  <1>1. Three(a, o, b) \in Seq(Spoken)
    <2>1. a \in Spoken /\ o \in Spoken /\ b \in Spoken BY DEF Spoken
    <2> QED BY <2>1 DEF Three
  <1>2. x \in Leaves /\ x \in Nodes BY DEF Leaves, Nodes
  <1>3. Simple(<<x>>)
    <2>1. <<x>> \in Seq(Nodes) /\ <<x>> # <<>> /\ <<x>>[1] = x BY <1>2
    <2> QED BY <1>2, <2>1 DEF Simple
  <1>4. <<x>> \o <<>> = <<x>> /\ <<>> \in Seq(Nodes) OBVIOUS
  <1>5. Are(<<x>>, 1)
    <2>1. Within(x) = 0 BY WithinNodes
    <2>2. PICK q \in Seq(Nodes) : q = <<>> BY <1>4
    <2>3. Are(q, Within(x)) BY <2>1, <2>2, AreNone
    <2>4. Are(<<x>> \o q, 1) BY <1>2, <2>3, AreBefore
    <2> QED BY <1>4, <2>2, <2>4
  <1>6. Negated(<<x>>) = <<Turned(x)>>
    <2>1. PICK q \in Seq(Nodes) : q = <<>> BY <1>4
    <2>2. Negated(<<x>> \o q) = <<Turned(x)>> \o q BY <1>2, NegatedSimple
    <2>3. <<Turned(x)>> \o <<>> = <<Turned(x)>> OBVIOUS
    <2> QED BY <1>4, <2>1, <2>2, <2>3
  <1>7. Atom(x) = x BY DEF Atom, FilterNodes
  <1>8. PICK y \in FilterNodes : y = Turned(x) /\ y.negated = TRUE BY TurnedTypes
  <1>9. Atom(y) = x BY <1>8 DEF Atom, Turned, FilterNodes
  <1>10. ASSUME NEW row
         PROVE  \E v : /\ HeardAsOne(Three(a, o, b), v, row)
                       /\ Has(<<x>>, v, row) /\ Has(Negated(<<x>>), ~v, row)
    <2>1. PICK v \in BOOLEAN : v = (x \in row)
      <3>1. (x \in row) \in BOOLEAN OBVIOUS
      <3> QED BY <3>1
    <2>2. v = (FilterOf(Three(a, o, b)) \in row) BY <2>1
    <2>3. ASSUME NEW g \in GroupRecords, NEW rest \in Seq(GroupRecords), g.tokens = <<>>
          PROVE  Groups(Three(a, o, b), On(g, rest), row) = On(Saying(g, v), rest)
      <3>1. Groups(Three(a, o, b), On(g, rest), row)
              = On(Saying(g, FilterOf(Three(a, o, b)) \in row), rest)
        BY <2>3, GroupsOfFilter
      <3> QED BY <2>2, <3>1
    <2>10. HeardAsOne(Three(a, o, b), v, row) BY <2>3 DEF HeardAsOne
    <2>4. ((Atom(x) \in row) # x.negated) = v BY <1>7, <2>1
    <2>5. Has(<<x>>, (Atom(x) \in row) # x.negated, row) BY FilterHas
    <2>6. Has(<<x>>, v, row) BY <2>4, <2>5
    <2>7. ((Atom(y) \in row) # y.negated) = ~v BY <1>8, <1>9, <2>1
    <2>8. Has(<<y>>, (Atom(y) \in row) # y.negated, row) BY FilterHas
    <2>9. Has(Negated(<<x>>), ~v, row) BY <1>6, <1>8, <2>7, <2>8
    <2> QED BY <2>6, <2>9, <2>10
  <1> QED BY <1>1, <1>3, <1>5, <1>10 DEF MeansOne

\* Parentheses around a complex_clause, with a "!" or without
LEMMA ScopeMeansOne ==
    ASSUME NEW t, NEW term, Means(t, term)
    PROVE  MeansOne(Then(<<"(">>, Then(t, <<")">>)), Then(<<ScopeNode>>, term))
  <1>1. t \in Seq(Spoken) /\ Complex(term) /\ Are(term, 1) BY DEF Means
  <1>2. "(" \in Spoken /\ ")" \in Spoken BY DEF Spoken
  <1>3. PICK o \in Seq(Spoken), c \in Seq(Spoken) : o = <<"(">> /\ c = <<")">>
    <2>1. <<"(">> \in Seq(Spoken) /\ <<")">> \in Seq(Spoken) BY <1>2
    <2> QED BY <2>1
  <1>4. PICK s \in Seq(Spoken) : s = Then(t, c)
    <2>1. t \o c \in Seq(Spoken) BY <1>1
    <2> QED BY <2>1 DEF Then
  <1>5. PICK u \in Seq(Spoken) : u = Then(o, s)
    <2>1. o \o s \in Seq(Spoken) OBVIOUS
    <2> QED BY <2>1 DEF Then
  <1>6. PICK x \in ScopeNodes : x = ScopeNode /\ x.negated = FALSE
    <2>1. ScopeNode \in ScopeNodes /\ ScopeNode.negated = FALSE BY DEF ScopeNode, ScopeNodes
    <2> QED BY <2>1
  <1>7. x \in Leaves /\ x \in Nodes BY DEF Leaves, Nodes
  <1>8. term \in Seq(Nodes) /\ term # <<>> BY <1>1, ComplexIs
  <1>9. PICK y \in ScopeNodes : y = Turned(x) /\ y.negated = TRUE BY TurnedTypes
  <1>10. PICK all \in Seq(Nodes) : all = <<x>> \o term
    <2>1. <<x>> \in Seq(Nodes) BY <1>7
    <2>2. <<x>> \o term \in Seq(Nodes) BY <1>8, <2>1
    <2> QED BY <2>2
  <1>11. Simple(all)
    <2>1. all # <<>> /\ all[1] = x BY <1>8, <1>10
    <2> QED BY <1>7, <2>1 DEF Simple
  <1>12. Are(all, 1)
    <2>1. Within(x) = 1 BY WithinNodes
    <2>2. Are(term, Within(x)) BY <1>1, <2>1
    <2> QED BY <1>7, <1>8, <1>10, <2>2, AreBefore
  <1>13. Negated(all) = <<y>> \o term BY <1>7, <1>8, <1>9, <1>10, NegatedSimple
  <1>14. ASSUME NEW row
         PROVE  \E v : /\ HeardAsOne(u, v, row)
                       /\ Has(all, v, row) /\ Has(Negated(all), ~v, row)
    <2>1. PICK h : HeardAs(t, h, row) /\ Has(term, Whole(h), row) BY DEF Means
    <2>2. h \in GroupRecords BY <2>1 DEF HeardAs
    <2>3. PICK v \in BOOLEAN : v = Whole(h) BY <2>2, GroupTypes
    <2>4. Has(term, v, row) BY <2>1, <2>3
    <2>5. Has(all, v, row)
      <3>1. Has(<<x>> \o term, v # x.negated, row) BY <1>8, <2>4, ScopeHas
      <3>2. (v # x.negated) = v BY <1>6
      <3> QED BY <1>10, <3>1, <3>2
    <2>6. Has(Negated(all), ~v, row)
      <3>1. Has(<<y>> \o term, v # y.negated, row) BY <1>8, <2>4, ScopeHas
      <3>2. (v # y.negated) = ~v BY <1>9
      <3> QED BY <1>13, <3>1, <3>2
    <2>7. ASSUME NEW g \in GroupRecords, NEW rest \in Seq(GroupRecords)
          PROVE  Groups(u, On(g, rest), row) = On(Saying(g, v), rest)
      <3>1. Groups(u, On(g, rest), row) = Heard("(", Groups(s, On(g, rest), row), row)
        BY <1>2, <1>3, <1>5, GroupsOfToken
      <3>2. Groups(s, On(g, rest), row) = Groups(t, Groups(c, On(g, rest), row), row)
        BY <1>1, <1>4, GroupsOfThen
      <3>3. Groups(c, On(g, rest), row) = Heard(")", On(g, rest), row)
        BY <1>3, GroupsOfOne
      <3>4. Heard(")", On(g, rest), row) = On(Nothing, On(g, rest)) BY HeardOfToken
      <3>5. On(g, rest) \in Seq(GroupRecords)
        <4>1. <<g>> \in Seq(GroupRecords) OBVIOUS
        <4> QED BY <4>1 DEF On
      <3>6. Groups(t, On(Nothing, On(g, rest)), row) = On(h, On(g, rest))
        BY <2>1, <3>5 DEF HeardAs
      <3>7. Heard("(", On(h, On(g, rest)), row) = On(Saying(g, v), rest)
        BY <2>2, <2>3, HeardOfParenthesis
      <3> QED BY <3>1, <3>2, <3>3, <3>4, <3>6, <3>7
    <2>8. HeardAsOne(u, v, row) BY <2>7 DEF HeardAsOne
    <2> QED BY <2>5, <2>6, <2>8
  <1>15. MeansOne(u, all) BY <1>11, <1>12, <1>14 DEF MeansOne
  <1> QED BY <1>3, <1>4, <1>5, <1>6, <1>10, <1>15 DEF Then

\* complex_clause ::= parenthesed_clause complex_operator complex_clause
LEMMA ConjunctionMeansEither ==
    ASSUME NEW p, NEW left, MeansOne(p, left), NEW t, NEW r, Means(t, r),
           NEW op \in ConjunctionOps, NEW c, c = ConjunctionOf(op)
    PROVE  MeansEither(Then(p, Then(<<op>>, t)), Both(left, r, c))
  <1>1. p \in Seq(Spoken) /\ Simple(left) /\ Are(left, 1) BY DEF MeansOne
  <1>2. t \in Seq(Spoken) /\ Complex(r) /\ Are(r, 1) BY DEF Means
  <1>3. left \in Seq(Nodes) /\ left # <<>> BY <1>1 DEF Simple
  <1>4. r \in Seq(Nodes) /\ r # <<>> BY <1>2, ComplexIs
  <1>5. c \in {"And", "Or"} BY DEF ConjunctionOf
  <1>6. op \in Spoken BY DEF Spoken
  <1>7. PICK s \in Seq(Spoken) : s = Then(<<op>>, t)
    <2>1. <<op>> \in Seq(Spoken) BY <1>6
    <2>2. <<op>> \o t \in Seq(Spoken) BY <1>2, <2>1
    <2> QED BY <2>2 DEF Then
  <1>8. PICK u \in Seq(Spoken) : u = Then(p, s)
    <2>1. p \o s \in Seq(Spoken) BY <1>1
    <2> QED BY <2>1 DEF Then
  <1>9. Complex(Both(left, r, c)) BY <1>1, <1>4, <1>5, BothIs
  <1>10. Negated(Both(left, r, c)) = Both(Negated(left), r, c) BY <1>1, <1>4, <1>5, BothIs
  <1>11. Are(Both(left, r, c), 1) BY <1>1, <1>2, <1>3, <1>4, <1>5, AreConjunction
  <1>12. PICK other \in Seq(Nodes) : other = Negated(left) /\ other # <<>>
    <2>1. Simple(Negated(left)) BY <1>1, NegatedStaysSimple
    <2> QED BY <2>1 DEF Simple
  <1>13. ASSUME NEW row
         PROVE  \E h : /\ HeardAs(u, h, row) /\ Has(Both(left, r, c), Whole(h), row)
                       /\ Has(Negated(Both(left, r, c)), Whole(Denied(h)), row)
    <2>1. PICK v : HeardAsOne(p, v, row) /\ Has(left, v, row) /\ Has(Negated(left), ~v, row)
      BY DEF MeansOne
    <2>2. v \in BOOLEAN BY <2>1 DEF HeardAsOne
    <2>3. PICK g : HeardAs(t, g, row) /\ Has(r, Whole(g), row) BY DEF Means
    <2>4. g \in GroupRecords BY <2>3 DEF HeardAs
    <2>5. PICK w \in BOOLEAN : w = Whole(g) BY <2>4, GroupTypes
    <2>6. PICK f \in GroupRecords : f = Following(c, w) BY <1>5, GroupTypes
    <2>7. f.tokens = <<>> /\ f.op = c /\ f.right = w BY <1>5, <2>6, SayingIs
    <2>8. PICK h \in GroupRecords : h = Saying(f, v) BY <2>2, GroupTypes
    <2>9. h.said = v /\ h.tokens = <<>> /\ h.op = c /\ h.right = w
      BY <2>2, <2>7, <2>8, SayingIs
    <2>10. PICK n \in BOOLEAN : n = ~v OBVIOUS
    <2>11. Denied(h) = Saying(h, n) BY <2>9, <2>10 DEF Denied
    <2>12. Denied(h).said = n /\ Denied(h).op = c /\ Denied(h).right = w
      BY <2>9, <2>11, SayingIs
    <2>13. Whole(h) = Combined(c, v, w)
      <3>1. Whole(h) = IF c = "And" THEN v /\ w ELSE v \/ w BY <2>9 DEF Whole
      <3> QED BY <3>1 DEF Combined
    <2>14. Whole(Denied(h)) = Combined(c, n, w)
      <3>1. Whole(Denied(h)) = IF c = "And" THEN n /\ w ELSE n \/ w BY <2>12 DEF Whole
      <3> QED BY <3>1 DEF Combined
    <2>15. Has(r, w, row) BY <2>3, <2>5
    <2>16. Has(Both(left, r, c), Combined(c, v, w), row)
      BY <1>3, <1>4, <1>5, <2>1, <2>15, ConjunctionHas
    <2>17. Has(other, n, row) BY <1>12, <2>1, <2>10
    <2>18. Has(Both(other, r, c), Combined(c, n, w), row)
      BY <1>4, <1>5, <1>12, <2>15, <2>17, ConjunctionHas
    <2>19. ASSUME NEW rest \in Seq(GroupRecords)
           PROVE  Groups(u, On(Nothing, rest), row) = On(h, rest)
      <3>1. Groups(u, On(Nothing, rest), row) = Groups(p, Groups(s, On(Nothing, rest), row), row)
        BY <1>1, <1>8, GroupsOfThen
      <3>2. Groups(s, On(Nothing, rest), row)
              = Heard(op, Groups(t, On(Nothing, rest), row), row)
        BY <1>2, <1>6, <1>7, GroupsOfToken
      <3>3. Groups(t, On(Nothing, rest), row) = On(g, rest) BY <2>3 DEF HeardAs
      <3>4. Heard(op, On(g, rest), row) = On(Following(ConjunctionOf(op), Whole(g)), rest)
        BY <2>4, HeardOfToken
      <3>5. Following(ConjunctionOf(op), Whole(g)) = f BY <2>5, <2>6
      <3>6. Groups(p, On(f, rest), row) = On(Saying(f, v), rest)
        BY <2>1, <2>7 DEF HeardAsOne
      <3> QED BY <2>8, <3>1, <3>2, <3>3, <3>4, <3>5, <3>6
    <2>20. HeardAs(u, h, row) BY <2>9, <2>19 DEF HeardAs
    <2>21. Has(Both(left, r, c), Whole(h), row) BY <2>13, <2>16
    <2>22. Has(Negated(Both(left, r, c)), Whole(Denied(h)), row)
      BY <1>10, <1>12, <2>14, <2>18
    <2> QED BY <2>20, <2>21, <2>22
  <1>14. MeansEither(u, Both(left, r, c)) BY <1>9, <1>11, <1>13 DEF MeansEither
  <1> QED BY <1>7, <1>8, <1>14

\* A term that means what tokens say matches the rows that these say.
LEMMA MeansMatches ==
    ASSUME NEW t, NEW term, Means(t, term), NEW row
    PROVE  Matches(term, row) = Says(t, row)
  <1>1. PICK h : HeardAs(t, h, row) /\ Has(term, Whole(h), row) BY DEF Means
  <1>2. h \in GroupRecords BY <1>1 DEF HeardAs
  <1>3. PICK v \in BOOLEAN : v = Whole(h) BY <1>2, GroupTypes
  <1>4. PICK rest \in Seq(GroupRecords) : rest = <<>>
    <2>1. <<>> \in Seq(GroupRecords) OBVIOUS
    <2> QED BY <2>1
  <1>5. On(Nothing, rest) = <<Nothing>> BY <1>4 DEF On
  <1>6. Groups(t, On(Nothing, rest), row) = On(h, rest) BY <1>1 DEF HeardAs
  <1>7. On(h, rest)[1] = h BY <1>4 DEF On
  <1>8. Says(t, row) = v BY <1>3, <1>5, <1>6, <1>7 DEF Says
  <1>9. Gives(term, <<v>>, row) BY <1>1, <1>3 DEF Has
  <1>10. <<>> \in Seq(BOOLEAN) OBVIOUS
  <1>11. Values(term, <<>>, row) = <<v>> \o <<>> BY <1>9, <1>10 DEF Gives
  <1>12. (<<v>> \o <<>>)[1] = v OBVIOUS
  <1>13. Matches(term, row) = v BY <1>11, <1>12 DEF Matches
  <1> QED BY <1>8, <1>13

-----------------------------------------------------------------------------
(* What a symbol of the parser stands for *)

\* What was read and what is on the stacks when a number of symbols are
AllTokens == FilterTerms \cup ConjunctionOps \cup {"!", "(", ")", "[", "]", "/", "\\"}
AllSymbols == AllTokens \cup
    {"number_operator", "multi_operator", "string_operator", "complex_operator",
     "parenthesed_clause", "complex_clause", "bang_clause", "order_clause", "order_term"}
OrderRecords == [ascending : BOOLEAN, propertyName : Names]
TokenLists == Seq(AllTokens)
NodeLists == Seq(Nodes)
TermLists == Seq(NodeLists)
OperatorLists == Seq(Comparisons)
ConjunctionLists == Seq({"And", "Or"})
OrderLists == Seq(OrderRecords)
Frames == [tokens : TokenLists, terms : TermLists, operators : OperatorLists,
           conjunctions : ConjunctionLists, orders : OrderLists]

\* What a symbol adds
More(f, t) == [f EXCEPT !.tokens = Then(@, t)]
WithTerm(f, t, term) == [f EXCEPT !.tokens = Then(@, t), !.terms = Append(@, term)]
WithOperator(f, t) ==
    [f EXCEPT !.tokens = Then(@, <<t>>), !.operators = Append(@, OperatorOf(t))]
WithConjunction(f, t) ==
    [f EXCEPT !.tokens = Then(@, <<t>>), !.conjunctions = Append(@, ConjunctionOf(t))]
WithOrders(f, t, o) == [f EXCEPT !.tokens = Then(@, t), !.orders = Then(@, o)]

\* Tokens that name what to sort by
Orders(t, o) ==
    /\ t \in TokenLists /\ o \in OrderLists /\ Len(t) = 2 * Len(o)
    /\ \A i \in 1..Len(o) :
          o[i] = [ascending |-> t[2 * i - 1] = "/", propertyName |-> t[2 * i]]

OperatorSymbols == {"number_operator", "multi_operator", "string_operator"}
Adds(f, s, g) ==
    \/ s \in AllTokens /\ g = More(f, <<s>>)
    \/ s \in OperatorSymbols /\ \E t \in Comparisons : g = WithOperator(f, t)
    \/ s = "complex_operator" /\ \E t \in ConjunctionOps : g = WithConjunction(f, t)
    \/ s = "parenthesed_clause" /\ \E t, term : MeansOne(t, term) /\ g = WithTerm(f, t, term)
    \/ s = "complex_clause" /\ \E t, term : MeansEither(t, term) /\ g = WithTerm(f, t, term)
    \/ s = "bang_clause" /\ \E t, term : Means(t, term) /\ g = WithTerm(f, t, term)
    \/ s = "order_clause" /\ \E t, o : Orders(t, o) /\ g = WithOrders(f, t, o)
    \/ s = "order_term" /\ \E t, o : Orders(t, o)
                              /\ g = WithOrders(f, Then(<<"[">>, Then(t, <<"]">>)), o)

\* No nonterminal is a token.
LEMMA NotTokens ==
    /\ OperatorSymbols \cap AllTokens = {}
    /\ {"complex_operator", "parenthesed_clause", "complex_clause", "bang_clause",
        "order_clause", "order_term", "end"} \cap AllTokens = {}
  BY TokensAssumption DEF OperatorSymbols, AllTokens, FilterTerms, Comparisons, NumberOps,
     MultiOps, StringOps, ConjunctionOps, Symbols

\* What each kind of symbol adds
LEMMA AddsIs ==
    ASSUME NEW f, NEW s, NEW g, Adds(f, s, g)
    PROVE  /\ s \in AllTokens => g = More(f, <<s>>)
           /\ s \in OperatorSymbols => \E t \in Comparisons : g = WithOperator(f, t)
           /\ s = "complex_operator" => \E t \in ConjunctionOps : g = WithConjunction(f, t)
           /\ s = "parenthesed_clause" =>
                 \E t, term : MeansOne(t, term) /\ g = WithTerm(f, t, term)
           /\ s = "complex_clause" =>
                 \E t, term : MeansEither(t, term) /\ g = WithTerm(f, t, term)
           /\ s = "bang_clause" => \E t, term : Means(t, term) /\ g = WithTerm(f, t, term)
           /\ s = "order_clause" => \E t, o : Orders(t, o) /\ g = WithOrders(f, t, o)
           /\ s = "order_term" => \E t, o : Orders(t, o)
                                     /\ g = WithOrders(f, Then(<<"[">>, Then(t, <<"]">>)), o)
  <1>1. /\ s \in OperatorSymbols => s \notin AllTokens
        /\ s \in OperatorSymbols =>
             s \notin {"complex_operator", "parenthesed_clause", "complex_clause",
                       "bang_clause", "order_clause", "order_term"}
        /\ s \in {"complex_operator", "parenthesed_clause", "complex_clause",
                  "bang_clause", "order_clause", "order_term"} =>
             s \notin AllTokens /\ s \notin OperatorSymbols
    BY NotTokens DEF OperatorSymbols
  <1>2. s \in AllTokens => g = More(f, <<s>>) BY <1>1 DEF Adds
  <1>3. s \in OperatorSymbols => \E t \in Comparisons : g = WithOperator(f, t) BY <1>1 DEF Adds
  <1>4. s = "complex_operator" => \E t \in ConjunctionOps : g = WithConjunction(f, t)
    BY <1>1 DEF Adds
  <1>5. s = "parenthesed_clause" =>
                 \E t, term : MeansOne(t, term) /\ g = WithTerm(f, t, term)
    BY <1>1 DEF Adds
  <1>6. s = "complex_clause" =>
                 \E t, term : MeansEither(t, term) /\ g = WithTerm(f, t, term)
    BY <1>1 DEF Adds
  <1>7. s = "bang_clause" => \E t, term : Means(t, term) /\ g = WithTerm(f, t, term)
    BY <1>1 DEF Adds
  <1>8. s = "order_clause" => \E t, o : Orders(t, o) /\ g = WithOrders(f, t, o)
    BY <1>1 DEF Adds
  <1>9. s = "order_term" => \E t, o : Orders(t, o)
                                     /\ g = WithOrders(f, Then(<<"[">>, Then(t, <<"]">>)), o)
    BY <1>1 DEF Adds
  <1> QED BY <1>2, <1>3, <1>4, <1>5, <1>6, <1>7, <1>8, <1>9

\* The lists that are put together
LEMMA ListTypes ==
    /\ \A a \in TokenLists : \A b \in TokenLists : Then(a, b) \in TokenLists
    /\ \A x \in AllTokens : <<x>> \in TokenLists
    /\ \A t \in Seq(Spoken) : t \in TokenLists
    /\ \A l \in TermLists : \A x \in NodeLists : Append(l, x) \in TermLists
    /\ \A l \in OperatorLists : \A x \in Comparisons : Append(l, x) \in OperatorLists
    /\ \A l \in ConjunctionLists : \A x \in {"And", "Or"} : Append(l, x) \in ConjunctionLists
    /\ \A a \in OrderLists : \A b \in OrderLists : Then(a, b) \in OrderLists
  <1>1. \A a \in TokenLists : \A b \in TokenLists : Then(a, b) \in TokenLists
    BY DEF TokenLists, Then
  <1>2. \A x \in AllTokens : <<x>> \in TokenLists BY DEF TokenLists
  <1>3. ASSUME NEW t \in Seq(Spoken) PROVE t \in TokenLists
    <2>1. Spoken \subseteq AllTokens BY DEF Spoken, AllTokens
    <2>2. \A i \in 1..Len(t) : t[i] \in AllTokens BY <2>1
    <2> QED BY <2>2 DEF TokenLists
  <1>4. \A l \in TermLists : \A x \in NodeLists : Append(l, x) \in TermLists BY DEF TermLists
  <1>5. \A l \in OperatorLists : \A x \in Comparisons : Append(l, x) \in OperatorLists
    BY DEF OperatorLists
  <1>6. \A l \in ConjunctionLists : \A x \in {"And", "Or"} : Append(l, x) \in ConjunctionLists
    BY DEF ConjunctionLists
  <1>7. \A a \in OrderLists : \A b \in OrderLists : Then(a, b) \in OrderLists
    BY DEF OrderLists, Then
  <1> QED BY <1>1, <1>2, <1>3, <1>4, <1>5, <1>6, <1>7

LEMMA OperatorTypes ==
    /\ \A t \in Comparisons : OperatorOf(t) \in Comparisons
    /\ \A t \in ConjunctionOps : ConjunctionOf(t) \in {"And", "Or"}
    /\ \A op : Mirrored(op) # None => Mirrored(op) \in Comparisons
    /\ None \notin Comparisons
  <1>1. \A t \in Comparisons : OperatorOf(t) \in Comparisons
    BY DEF Comparisons, NumberOps, MultiOps, StringOps, OperatorOf
  <1>2. \A t \in ConjunctionOps : ConjunctionOf(t) \in {"And", "Or"} BY DEF ConjunctionOf
  <1>3. ASSUME NEW op, Mirrored(op) # None PROVE Mirrored(op) \in Comparisons
    BY <1>3 DEF Mirrored, Comparisons, NumberOps
  <1>4. None \notin Comparisons BY TokensAssumption DEF Symbols, Comparisons
  <1> QED BY <1>1, <1>2, <1>3, <1>4

LEMMA FrameFields ==
    \A f \in Frames :
       /\ f.tokens \in TokenLists /\ f.terms \in TermLists /\ f.operators \in OperatorLists
       /\ f.conjunctions \in ConjunctionLists /\ f.orders \in OrderLists
  BY DEF Frames

LEMMA MoreIs ==
    ASSUME NEW f \in Frames, NEW t \in TokenLists
    PROVE  /\ More(f, t) \in Frames /\ More(f, t).tokens = Then(f.tokens, t)
           /\ More(f, t).terms = f.terms /\ More(f, t).operators = f.operators
           /\ More(f, t).conjunctions = f.conjunctions /\ More(f, t).orders = f.orders
  BY ListTypes DEF More, Frames

LEMMA WithTermIs ==
    ASSUME NEW f \in Frames, NEW t \in TokenLists, NEW term \in NodeLists,
           NEW g, g = WithTerm(f, t, term)
    PROVE  /\ g \in Frames /\ g.tokens = Then(f.tokens, t)
           /\ g.terms = Append(f.terms, term) /\ g.operators = f.operators
           /\ g.conjunctions = f.conjunctions /\ g.orders = f.orders
  BY ListTypes DEF WithTerm, Frames

LEMMA WithOperatorIs ==
    ASSUME NEW f \in Frames, NEW t \in Comparisons, NEW g, g = WithOperator(f, t)
    PROVE  /\ g \in Frames /\ g.tokens = Then(f.tokens, <<t>>)
           /\ g.terms = f.terms /\ g.operators = Append(f.operators, OperatorOf(t))
           /\ g.conjunctions = f.conjunctions /\ g.orders = f.orders
  <1>1. t \in AllTokens BY DEF AllTokens, FilterTerms
  <1>2. PICK l \in TokenLists : l = <<t>> BY <1>1, ListTypes
  <1>3. PICK o \in Comparisons : o = OperatorOf(t) BY OperatorTypes
  <1>4. g = [f EXCEPT !.tokens = Then(@, l), !.operators = Append(@, o)]
    BY <1>2, <1>3 DEF WithOperator
  <1>5. /\ g \in Frames /\ g.tokens = Then(f.tokens, l)
        /\ g.terms = f.terms /\ g.operators = Append(f.operators, o)
        /\ g.conjunctions = f.conjunctions /\ g.orders = f.orders
    BY <1>4, ListTypes DEF Frames
  <1> QED BY <1>2, <1>3, <1>5

LEMMA WithConjunctionIs ==
    ASSUME NEW f \in Frames, NEW t \in ConjunctionOps, NEW g, g = WithConjunction(f, t)
    PROVE  /\ g \in Frames /\ g.tokens = Then(f.tokens, <<t>>)
           /\ g.terms = f.terms /\ g.operators = f.operators
           /\ g.conjunctions = Append(f.conjunctions, ConjunctionOf(t)) /\ g.orders = f.orders
  <1>1. t \in AllTokens BY DEF AllTokens
  <1>2. PICK l \in TokenLists : l = <<t>> BY <1>1, ListTypes
  <1>3. PICK c \in {"And", "Or"} : c = ConjunctionOf(t) BY OperatorTypes
  <1>4. g = [f EXCEPT !.tokens = Then(@, l), !.conjunctions = Append(@, c)]
    BY <1>2, <1>3 DEF WithConjunction
  <1>5. /\ g \in Frames /\ g.tokens = Then(f.tokens, l)
        /\ g.terms = f.terms /\ g.operators = f.operators
        /\ g.conjunctions = Append(f.conjunctions, c) /\ g.orders = f.orders
    BY <1>4, ListTypes DEF Frames
  <1> QED BY <1>2, <1>3, <1>5

LEMMA WithOrdersIs ==
    ASSUME NEW f \in Frames, NEW t \in TokenLists, NEW o \in OrderLists,
           NEW g, g = WithOrders(f, t, o)
    PROVE  /\ g \in Frames /\ g.tokens = Then(f.tokens, t)
           /\ g.terms = f.terms /\ g.operators = f.operators
           /\ g.conjunctions = f.conjunctions /\ g.orders = Then(f.orders, o)
  BY ListTypes DEF WithOrders, Frames

\* What means something are tokens and nodes.
LEMMA MeansTypes ==
    /\ \A t, term : Means(t, term) => t \in TokenLists /\ term \in NodeLists
    /\ \A t, term : MeansEither(t, term) => t \in TokenLists /\ term \in NodeLists
    /\ \A t, term : MeansOne(t, term) => t \in TokenLists /\ term \in NodeLists
  <1>1. ASSUME NEW t, NEW term, Means(t, term) PROVE t \in TokenLists /\ term \in NodeLists
    BY <1>1, ListTypes, ComplexIs DEF Means, NodeLists
  <1> QED BY <1>1, EitherMeans, OneMeansEither

-----------------------------------------------------------------------------
(* The stack of symbols *)

SymbolLists == Seq(AllSymbols)
Empty(f) == f.tokens = <<>> /\ f.terms = <<>> /\ f.orders = <<>>
Stack(s, fs) ==
    /\ fs \in [0..Len(s) -> Frames] /\ Empty(fs[0])
    /\ \A n \in 1..Len(s) : Adds(fs[n - 1], s[n], fs[n])
Stacked(s, f) == s \in SymbolLists /\ \E fs : Stack(s, fs) /\ f = fs[Len(s)]
Below(s, n) == SubSeq(s, 1, Len(s) - n)
Put(s, x) == Append(s, x)

\* No symbols stand for an empty frame.
LEMMA StackedNone ==
    ASSUME NEW f \in Frames, Empty(f)
    PROVE  Stacked(<<>>, f)
  <1> DEFINE fs == [n \in 0..0 |-> f]
  <1>1. Len(<<>>) = 0 /\ <<>> \in SymbolLists BY DEF SymbolLists
  <1>2. fs[0] = f OBVIOUS
  <1>3. fs \in [0..Len(<<>>) -> Frames] BY <1>1
  <1>4. \A n \in 1..Len(<<>>) : FALSE BY <1>1
  <1>5. Stack(<<>>, fs) BY <1>2, <1>3, <1>4 DEF Stack
  <1>6. f = fs[Len(<<>>)] BY <1>1, <1>2
  <1> HIDE DEF fs
  <1> QED BY <1>1, <1>5, <1>6 DEF Stacked

\* Symbols stand for a frame.
LEMMA StackedFrame ==
    ASSUME NEW s, NEW f, Stacked(s, f)
    PROVE  f \in Frames /\ s \in SymbolLists
  <1>1. s \in SymbolLists BY DEF Stacked
  <1>2. PICK fs : Stack(s, fs) /\ f = fs[Len(s)] BY DEF Stacked
  <1>3. PICK N \in Nat : N = Len(s) BY <1>1 DEF SymbolLists
  <1>4. fs \in [0..N -> Frames] BY <1>2, <1>3 DEF Stack
  <1>5. fs[N] \in Frames BY <1>4
  <1> QED BY <1>1, <1>2, <1>3, <1>5

LEMMA PutIs ==
    ASSUME NEW s \in SymbolLists, NEW x \in AllSymbols
    PROVE  /\ Put(s, x) \in SymbolLists /\ Len(Put(s, x)) = Len(s) + 1
           /\ Put(s, x)[Len(s) + 1] = x
           /\ \A n \in 1..Len(s) : Put(s, x)[n] = s[n]
  BY DEF SymbolLists, Put

\* One more symbol stands for what it adds.
LEMMA StackedOn ==
    ASSUME NEW s, NEW f, Stacked(s, f), NEW x \in AllSymbols, NEW g \in Frames, Adds(f, x, g)
    PROVE  Stacked(Put(s, x), g)
  <1>1. s \in SymbolLists BY DEF Stacked
  <1>2. PICK fs : Stack(s, fs) /\ f = fs[Len(s)] BY DEF Stacked
  <1>3. PICK N \in Nat : N = Len(s) BY <1>1 DEF SymbolLists
  <1>4. PICK r \in SymbolLists : r = Put(s, x) BY <1>1, PutIs
  <1>5. Len(r) = N + 1 /\ r[N + 1] = x /\ \A n \in 1..N : r[n] = s[n]
    BY <1>1, <1>3, <1>4, PutIs
  <1>6. /\ fs \in [0..N -> Frames] /\ Empty(fs[0]) /\ f = fs[N]
        /\ \A n \in 1..N : Adds(fs[n - 1], s[n], fs[n])
    BY <1>2, <1>3 DEF Stack
  <1> DEFINE gs == [n \in 0..(N + 1) |-> IF n = N + 1 THEN g ELSE fs[n]]
  <1>7. gs \in [0..(N + 1) -> Frames]
    <2>1. ASSUME NEW n \in 0..(N + 1) PROVE (IF n = N + 1 THEN g ELSE fs[n]) \in Frames
      <3>1. n # N + 1 => n \in 0..N BY <1>3
      <3> QED BY <1>6, <3>1
    <2> QED BY <2>1
  <1>8. gs[N + 1] = g BY <1>3
  <1>9. \A n \in 0..N : gs[n] = fs[n] BY <1>3
  <1>10. gs[0] = fs[0] BY <1>9
  <1>11. ASSUME NEW n \in 1..(N + 1) PROVE Adds(gs[n - 1], r[n], gs[n])
    <2>1. CASE n = N + 1
      <3>1. n - 1 = N /\ N \in 0..N BY <2>1
      <3>2. gs[n - 1] = f BY <3>1, <1>6, <1>9
      <3>3. r[n] = x /\ gs[n] = g BY <2>1, <1>5, <1>8
      <3> QED BY <3>2, <3>3
    <2>2. CASE n # N + 1
      <3>1. n \in 1..N /\ n \in 0..N /\ n - 1 \in 0..N BY <2>2
      <3>2. gs[n - 1] = fs[n - 1] /\ gs[n] = fs[n] /\ r[n] = s[n] BY <3>1, <1>5, <1>9
      <3> QED BY <1>6, <3>1, <3>2
    <2> QED BY <2>1, <2>2
  <1> HIDE DEF gs
  <1>12. Stack(r, gs) BY <1>5, <1>6, <1>7, <1>10, <1>11 DEF Stack
  <1> QED BY <1>4, <1>5, <1>8, <1>12 DEF Stacked

LEMMA BelowIs ==
    ASSUME NEW s \in SymbolLists, NEW n \in 0..Len(s)
    PROVE  /\ Below(s, n) \in SymbolLists /\ Len(Below(s, n)) = Len(s) - n
           /\ \A i \in 1..(Len(s) - n) : Below(s, n)[i] = s[i]
  BY DEF SymbolLists, Below

\* The last symbol was added to what the others stand for.
LEMMA StackedBelow ==
    ASSUME NEW s, NEW g, Stacked(s, g), s # <<>>
    PROVE  \E f \in Frames : Stacked(Below(s, 1), f) /\ Adds(f, s[Len(s)], g)
  <1>1. s \in SymbolLists BY DEF Stacked
  <1>2. PICK fs : Stack(s, fs) /\ g = fs[Len(s)] BY DEF Stacked
  <1>3. PICK N \in Nat : N + 1 = Len(s)
    <2>1. Len(s) \in Nat /\ Len(s) # 0 BY <1>1 DEF SymbolLists
    <2>2. Len(s) - 1 \in Nat BY <2>1
    <2> QED BY <2>1, <2>2
  <1>4. Len(s) - 1 = N /\ 1 \in 0..Len(s) BY <1>3
  <1>5. PICK r \in SymbolLists : r = Below(s, 1) BY <1>1, <1>4, BelowIs
  <1>6. Len(r) = N /\ \A i \in 1..N : r[i] = s[i] BY <1>1, <1>4, <1>5, BelowIs
  <1>7. /\ fs \in [0..(N + 1) -> Frames] /\ Empty(fs[0]) /\ g = fs[N + 1]
        /\ \A n \in 1..(N + 1) : Adds(fs[n - 1], s[n], fs[n])
    BY <1>2, <1>3 DEF Stack
  <1> DEFINE gs == [n \in 0..N |-> fs[n]]
  <1>8. \A n \in 0..N : n \in 0..(N + 1) BY <1>3
  <1>9. gs \in [0..N -> Frames] BY <1>7, <1>8
  <1>10. gs[0] = fs[0] /\ gs[N] = fs[N] BY <1>3
  <1>11. ASSUME NEW n \in 1..N PROVE Adds(gs[n - 1], r[n], gs[n])
    <2>1. n \in 1..(N + 1) /\ n \in 0..N /\ n - 1 \in 0..N BY <1>3
    <2>2. gs[n - 1] = fs[n - 1] /\ gs[n] = fs[n] /\ r[n] = s[n] BY <2>1, <1>6
    <2> QED BY <1>7, <2>1, <2>2
  <1>12. fs[N] \in Frames BY <1>7, <1>8
  <1>13. Adds(fs[N], s[N + 1], g)
    <2>1. N + 1 \in 1..(N + 1) /\ (N + 1) - 1 = N BY <1>3
    <2>2. Adds(fs[(N + 1) - 1], s[N + 1], fs[N + 1]) BY <1>7, <2>1
    <2> QED BY <1>7, <2>1, <2>2
  <1> HIDE DEF gs
  <1>14. Stack(r, gs) BY <1>6, <1>7, <1>9, <1>10, <1>11 DEF Stack
  <1>15. Stacked(r, fs[N]) BY <1>6, <1>10, <1>14 DEF Stacked
  <1> QED BY <1>3, <1>5, <1>12, <1>13, <1>15

LEMMA BelowBelow ==
    ASSUME NEW s \in SymbolLists, NEW n \in 0..(Len(s) - 1), NEW m \in 1..Len(s), m = n + 1
    PROVE  /\ Below(Below(s, n), 1) = Below(s, m) /\ Below(s, n) # <<>>
           /\ Below(s, n)[Len(Below(s, n))] = s[Len(s) - n]
  <1>1. PICK N \in Nat : N = Len(s) BY DEF SymbolLists
  <1>2. n \in 0..N /\ m \in 0..N /\ N - n \in 1..N /\ n < N BY <1>1
  <1>3. PICK a \in SymbolLists : a = Below(s, n) BY <1>1, <1>2, BelowIs
  <1>4. Len(a) = N - n /\ \A i \in 1..(N - n) : a[i] = s[i] BY <1>1, <1>2, <1>3, BelowIs
  <1>5. 1 \in 0..Len(a) BY <1>2, <1>4
  <1>6. PICK b \in SymbolLists : b = Below(a, 1) BY <1>5, BelowIs
  <1>7. Len(b) = N - n - 1 /\ \A i \in 1..(N - n - 1) : b[i] = a[i]
    BY <1>4, <1>5, <1>6, BelowIs
  <1>8. PICK c \in SymbolLists : c = Below(s, m) BY <1>1, <1>2, BelowIs
  <1>9. Len(c) = N - m /\ \A i \in 1..(N - m) : c[i] = s[i]
    BY <1>1, <1>2, <1>8, BelowIs
  <1>10. N - m = N - n - 1 BY <1>1
  <1>11. Len(b) = Len(c) BY <1>7, <1>9, <1>10
  <1>12. \A i \in 1..(N - m) : b[i] = c[i]
    <2>1. \A i \in 1..(N - m) : i \in 1..(N - n) /\ i \in 1..(N - n - 1) BY <1>2, <1>10
    <2> QED BY <1>4, <1>7, <1>9, <2>1
  <1>13. b = c
    <2>1. b \in Seq(AllSymbols) /\ c \in Seq(AllSymbols) BY DEF SymbolLists
    <2>2. Len(b) = Len(c) /\ \A i \in 1..Len(b) : b[i] = c[i] BY <1>9, <1>11, <1>12
    <2> QED BY <2>1, <2>2, SeqEqual
  <1>14. a # <<>> BY <1>2, <1>4
  <1>15. a[Len(a)] = s[N - n] BY <1>2, <1>4
  <1> QED BY <1>1, <1>3, <1>6, <1>8, <1>13, <1>14, <1>15

\* The symbols above some
LEMMA LastOne ==
    ASSUME NEW s, NEW g, Stacked(s, g), Len(s) >= 1
    PROVE  \E f \in Frames : Stacked(Below(s, 1), f) /\ Adds(f, s[Len(s)], g)
  <1>1. s # <<>> OBVIOUS
  <1> QED BY <1>1, StackedBelow

\* The last two symbols, and what they were added to
LEMMA LastTwo ==
    ASSUME NEW s, NEW g, Stacked(s, g), Len(s) >= 2
    PROVE  \E f, f1 \in Frames :
              /\ Stacked(Below(s, 2), f) /\ Adds(f, s[Len(s) - 1], f1) /\ Adds(f1, s[Len(s)], g)
  <1>1. s \in SymbolLists /\ Len(s) \in Nat BY DEF Stacked, SymbolLists
  <1>2. PICK f1 \in Frames : Stacked(Below(s, 1), f1) /\ Adds(f1, s[Len(s)], g)
    BY <1>1, LastOne
  <1>3. 1 \in 0..(Len(s) - 1) /\ 2 \in 1..Len(s) /\ 2 = 1 + 1 BY <1>1
  <1>4. /\ Below(Below(s, 1), 1) = Below(s, 2) /\ Below(s, 1) # <<>>
        /\ Below(s, 1)[Len(Below(s, 1))] = s[Len(s) - 1]
    BY <1>1, <1>3, BelowBelow
  <1>5. PICK f \in Frames : /\ Stacked(Below(Below(s, 1), 1), f)
                            /\ Adds(f, Below(s, 1)[Len(Below(s, 1))], f1)
    BY <1>2, <1>4, StackedBelow
  <1> QED BY <1>2, <1>4, <1>5

\* The last three
LEMMA LastThree ==
    ASSUME NEW s, NEW g, Stacked(s, g), Len(s) >= 3
    PROVE  \E f, f1, f2 \in Frames :
              /\ Stacked(Below(s, 3), f) /\ Adds(f, s[Len(s) - 2], f1)
              /\ Adds(f1, s[Len(s) - 1], f2) /\ Adds(f2, s[Len(s)], g)
  <1>1. s \in SymbolLists /\ Len(s) \in Nat BY DEF Stacked, SymbolLists
  <1>2. PICK f1, f2 \in Frames : /\ Stacked(Below(s, 2), f1) /\ Adds(f1, s[Len(s) - 1], f2)
                                 /\ Adds(f2, s[Len(s)], g)
    BY <1>1, LastTwo
  <1>3. 2 \in 0..(Len(s) - 1) /\ 3 \in 1..Len(s) /\ 3 = 2 + 1 BY <1>1
  <1>4. /\ Below(Below(s, 2), 1) = Below(s, 3) /\ Below(s, 2) # <<>>
        /\ Below(s, 2)[Len(Below(s, 2))] = s[Len(s) - 2]
    BY <1>1, <1>3, BelowBelow
  <1>5. PICK f \in Frames : /\ Stacked(Below(Below(s, 2), 1), f)
                            /\ Adds(f, Below(s, 2)[Len(Below(s, 2))], f1)
    BY <1>2, <1>4, StackedBelow
  <1> QED BY <1>2, <1>4, <1>5

\* The last four
LEMMA LastFour ==
    ASSUME NEW s, NEW g, Stacked(s, g), Len(s) >= 4
    PROVE  \E f, f1, f2, f3 \in Frames :
              /\ Stacked(Below(s, 4), f) /\ Adds(f, s[Len(s) - 3], f1)
              /\ Adds(f1, s[Len(s) - 2], f2)
              /\ Adds(f2, s[Len(s) - 1], f3) /\ Adds(f3, s[Len(s)], g)
  <1>1. s \in SymbolLists /\ Len(s) \in Nat BY DEF Stacked, SymbolLists
  <1>2. PICK f1, f2, f3 \in Frames :
            /\ Stacked(Below(s, 3), f1) /\ Adds(f1, s[Len(s) - 2], f2)
            /\ Adds(f2, s[Len(s) - 1], f3) /\ Adds(f3, s[Len(s)], g)
    BY <1>1, LastThree
  <1>3. 3 \in 0..(Len(s) - 1) /\ 4 \in 1..Len(s) /\ 4 = 3 + 1 BY <1>1
  <1>4. /\ Below(Below(s, 3), 1) = Below(s, 4) /\ Below(s, 3) # <<>>
        /\ Below(s, 3)[Len(Below(s, 3))] = s[Len(s) - 3]
    BY <1>1, <1>3, BelowBelow
  <1>5. PICK f \in Frames : /\ Stacked(Below(Below(s, 3), 1), f)
                            /\ Adds(f, Below(s, 3)[Len(Below(s, 3))], f1)
    BY <1>2, <1>4, StackedBelow
  <1> QED BY <1>2, <1>4, <1>5

\* What is next to what
Fits(s, n) ==
    /\ s[n] \in ConjunctionOps \cup {"complex_operator"} => n > 1 /\ s[n - 1] = "parenthesed_clause"
    /\ s[n] \in {"/", "\\"} => n > 1 /\ s[n - 1] \in {"[", "order_clause"}
Beside(s) == \A n \in 1..Len(s) : Fits(s, n)

LEMMA BesideNone == Beside(<<>>)
  BY DEF Beside

\* What is next to what does not change when symbols are taken away.
LEMMA BesideBelow ==
    ASSUME NEW s \in SymbolLists, Beside(s), NEW n \in 0..Len(s)
    PROVE  Beside(Below(s, n))
  <1>1. PICK r \in SymbolLists : r = Below(s, n) BY BelowIs
  <1>2. Len(r) = Len(s) - n /\ Len(s) \in Nat /\ \A i \in 1..(Len(s) - n) : r[i] = s[i]
    BY <1>1, BelowIs DEF SymbolLists
  <1>3. ASSUME NEW i \in 1..Len(r) PROVE Fits(r, i)
    <2>1. i \in 1..Len(s) /\ r[i] = s[i] BY <1>2
    <2>2. i > 1 => r[i - 1] = s[i - 1] BY <1>2
    <2>3. Fits(s, i) BY <2>1 DEF Beside
    <2> QED BY <2>1, <2>2, <2>3 DEF Fits
  <1> QED BY <1>1, <1>3 DEF Beside

\* Nor when another is put there that may be where it is.
LEMMA BesideOn ==
    ASSUME NEW s \in SymbolLists, Beside(s), NEW x \in AllSymbols,
           x \in ConjunctionOps \cup {"complex_operator"}
              => s # <<>> /\ s[Len(s)] = "parenthesed_clause",
           x \in {"/", "\\"} => s # <<>> /\ s[Len(s)] \in {"[", "order_clause"}
    PROVE  Beside(Put(s, x))
  <1>1. PICK r \in SymbolLists : r = Put(s, x) BY PutIs
  <1>2. /\ Len(r) = Len(s) + 1 /\ Len(s) \in Nat /\ r[Len(s) + 1] = x
        /\ \A i \in 1..Len(s) : r[i] = s[i]
    <2>1. Len(s) \in Nat BY DEF SymbolLists
    <2> QED BY <1>1, <2>1, PutIs
  <1>3. s # <<>> => Len(s) # 0 BY DEF SymbolLists
  <1>4. ASSUME NEW i \in 1..Len(r) PROVE Fits(r, i)
    <2>1. CASE i = Len(s) + 1
      <3>1. r[i] = x /\ i - 1 = Len(s) BY <1>2, <2>1
      <3>2. s # <<>> => i > 1 /\ r[i - 1] = s[Len(s)] BY <1>2, <1>3, <2>1
      <3> QED BY <3>1, <3>2 DEF Fits
    <2>2. CASE i # Len(s) + 1
      <3>1. i \in 1..Len(s) /\ r[i] = s[i] BY <1>2, <2>2
      <3>2. i > 1 => r[i - 1] = s[i - 1] BY <1>2, <3>1
      <3>3. Fits(s, i) BY <3>1 DEF Beside
      <3> QED BY <3>1, <3>2, <3>3 DEF Fits
    <2> QED BY <2>1, <2>2
  <1> QED BY <1>1, <1>4 DEF Beside

-----------------------------------------------------------------------------
(* What is on top *)

LEMMA FrontOf ==
    ASSUME NEW T, NEW l \in Seq(T), NEW x \in T, NEW m, m = Append(l, x)
    PROVE  Front(m) = l /\ Last(m) = x /\ m # <<>> /\ m \in Seq(T) /\ Len(m) = Len(l) + 1
  BY DEF Front, Last

LEMMA GroupedThree ==
    ASSUME NEW z \in TokenLists, NEW a \in TokenLists, NEW b \in TokenLists, NEW c \in TokenLists
    PROVE  /\ Then(Then(Then(z, a), b), c) = Then(z, Then(a, Then(b, c)))
           /\ Then(a, Then(b, c)) \in TokenLists
  <1>1. \A d, e, h \in TokenLists : Then(Then(d, e), h) = Then(d, Then(e, h))
    BY Regrouped DEF TokenLists
  <1>2. \A d, e \in TokenLists : Then(d, e) \in TokenLists BY ListTypes
  <1>3. Then(z, a) \in TokenLists /\ Then(b, c) \in TokenLists BY <1>2
  <1>4. Then(Then(Then(z, a), b), c) = Then(Then(z, a), Then(b, c)) BY <1>1, <1>3
  <1> QED BY <1>1, <1>2, <1>3, <1>4

\* number_operator ::= GREATER and so on
LEMMA OperatorOnTop ==
    ASSUME NEW f \in Frames, NEW s \in Comparisons, NEW g, Adds(f, s, g), NEW x \in OperatorSymbols
    PROVE  \E h \in Frames :
              /\ Adds(f, x, h) /\ h.tokens = g.tokens /\ h.terms = g.terms
              /\ h.operators = Append(g.operators, OperatorOf(s))
              /\ h.conjunctions = g.conjunctions /\ h.orders = g.orders
  <1>1. s \in AllTokens BY DEF AllTokens, FilterTerms
  <1>2. PICK t \in TokenLists : t = <<s>> BY <1>1, ListTypes
  <1>3. g = More(f, t) BY <1>1, <1>2, AddsIs
  <1>4. /\ g.tokens = Then(f.tokens, t) /\ g.terms = f.terms /\ g.operators = f.operators
        /\ g.conjunctions = f.conjunctions /\ g.orders = f.orders
    BY <1>3, MoreIs
  <1>5. PICK h : h = WithOperator(f, s) OBVIOUS
  <1>6. /\ h \in Frames /\ h.tokens = Then(f.tokens, t)
        /\ h.terms = f.terms /\ h.operators = Append(f.operators, OperatorOf(s))
        /\ h.conjunctions = f.conjunctions /\ h.orders = f.orders
    BY <1>2, <1>5, WithOperatorIs
  <1>7. Adds(f, x, h) BY <1>5 DEF Adds
  <1> QED BY <1>4, <1>6, <1>7

LEMMA ConjunctionOnTop ==
    ASSUME NEW f \in Frames, NEW s \in ConjunctionOps, NEW g, Adds(f, s, g)
    PROVE  \E h \in Frames :
              /\ Adds(f, "complex_operator", h) /\ h.tokens = g.tokens /\ h.terms = g.terms
              /\ h.operators = g.operators
              /\ h.conjunctions = Append(g.conjunctions, ConjunctionOf(s))
              /\ h.orders = g.orders
  <1>1. s \in AllTokens BY DEF AllTokens
  <1>2. PICK t \in TokenLists : t = <<s>> BY <1>1, ListTypes
  <1>3. g = More(f, t) BY <1>1, <1>2, AddsIs
  <1>4. /\ g.tokens = Then(f.tokens, t) /\ g.terms = f.terms /\ g.operators = f.operators
        /\ g.conjunctions = f.conjunctions /\ g.orders = f.orders
    BY <1>3, MoreIs
  <1>5. PICK h : h = WithConjunction(f, s) OBVIOUS
  <1>6. /\ h \in Frames /\ h.tokens = Then(f.tokens, t)
        /\ h.terms = f.terms /\ h.operators = f.operators
        /\ h.conjunctions = Append(f.conjunctions, ConjunctionOf(s)) /\ h.orders = f.orders
    BY <1>2, <1>5, WithConjunctionIs
  <1>7. Adds(f, "complex_operator", h) BY <1>5 DEF Adds
  <1> QED BY <1>4, <1>6, <1>7

\* What a token and a term add
LEMMA TokenAdds ==
    ASSUME NEW f \in Frames, NEW s \in AllTokens, NEW g, Adds(f, s, g)
    PROVE  /\ <<s>> \in TokenLists /\ g.tokens = Then(f.tokens, <<s>>)
           /\ g.terms = f.terms /\ g.operators = f.operators
           /\ g.conjunctions = f.conjunctions /\ g.orders = f.orders
  <1>1. PICK t \in TokenLists : t = <<s>> BY ListTypes
  <1>2. g = More(f, t) BY <1>1, AddsIs
  <1> QED BY <1>1, <1>2, MoreIs

TermAdded(f, g, t, term) ==
    /\ t \in TokenLists /\ term \in NodeLists
    /\ g.tokens = Then(f.tokens, t) /\ g.terms = Append(f.terms, term)
    /\ g.operators = f.operators /\ g.conjunctions = f.conjunctions /\ g.orders = f.orders

LEMMA EitherAdds ==
    ASSUME NEW f \in Frames, NEW g, Adds(f, "complex_clause", g)
    PROVE  \E t, term : MeansEither(t, term) /\ TermAdded(f, g, t, term)
  <1>1. PICK t, term : MeansEither(t, term) /\ g = WithTerm(f, t, term)
    <2>1. "complex_clause" \notin AllTokens /\ "complex_clause" \notin OperatorSymbols
      BY NotTokens DEF OperatorSymbols
    <2> QED BY <2>1 DEF Adds
  <1>2. t \in TokenLists /\ term \in NodeLists BY <1>1, MeansTypes
  <1>3. /\ g.tokens = Then(f.tokens, t) /\ g.terms = Append(f.terms, term)
        /\ g.operators = f.operators /\ g.conjunctions = f.conjunctions /\ g.orders = f.orders
    BY <1>1, <1>2, WithTermIs
  <1> QED BY <1>1, <1>2, <1>3 DEF TermAdded

LEMMA OneAdds ==
    ASSUME NEW f \in Frames, NEW g, Adds(f, "parenthesed_clause", g)
    PROVE  \E t, term : MeansOne(t, term) /\ TermAdded(f, g, t, term)
  <1>1. PICK t, term : MeansOne(t, term) /\ g = WithTerm(f, t, term)
    <2>1. "parenthesed_clause" \notin AllTokens /\ "parenthesed_clause" \notin OperatorSymbols
      BY NotTokens DEF OperatorSymbols
    <2> QED BY <2>1 DEF Adds
  <1>2. t \in TokenLists /\ term \in NodeLists BY <1>1, MeansTypes
  <1>3. /\ g.tokens = Then(f.tokens, t) /\ g.terms = Append(f.terms, term)
        /\ g.operators = f.operators /\ g.conjunctions = f.conjunctions /\ g.orders = f.orders
    BY <1>1, <1>2, WithTermIs
  <1> QED BY <1>1, <1>2, <1>3 DEF TermAdded

LEMMA BangAdds ==
    ASSUME NEW f \in Frames, NEW g, Adds(f, "bang_clause", g)
    PROVE  \E t, term : Means(t, term) /\ TermAdded(f, g, t, term)
  <1>1. PICK t, term : Means(t, term) /\ g = WithTerm(f, t, term)
    <2>1. "bang_clause" \notin AllTokens /\ "bang_clause" \notin OperatorSymbols
      BY NotTokens DEF OperatorSymbols
    <2> QED BY <2>1 DEF Adds
  <1>2. t \in TokenLists /\ term \in NodeLists BY <1>1, MeansTypes
  <1>3. /\ g.tokens = Then(f.tokens, t) /\ g.terms = Append(f.terms, term)
        /\ g.operators = f.operators /\ g.conjunctions = f.conjunctions /\ g.orders = f.orders
    BY <1>1, <1>2, WithTermIs
  <1> QED BY <1>1, <1>2, <1>3 DEF TermAdded

\* ... and what has them added
LEMMA AddsOne ==
    ASSUME NEW f \in Frames, NEW t, NEW term, MeansOne(t, term)
    PROVE  \E h \in Frames : Adds(f, "parenthesed_clause", h) /\ TermAdded(f, h, t, term)
  <1>1. t \in TokenLists /\ term \in NodeLists BY MeansTypes
  <1>2. PICK h : h = WithTerm(f, t, term) OBVIOUS
  <1>3. /\ h \in Frames /\ h.tokens = Then(f.tokens, t) /\ h.terms = Append(f.terms, term)
        /\ h.operators = f.operators /\ h.conjunctions = f.conjunctions /\ h.orders = f.orders
    BY <1>1, <1>2, WithTermIs
  <1>4. Adds(f, "parenthesed_clause", h) BY <1>2 DEF Adds
  <1> QED BY <1>1, <1>3, <1>4 DEF TermAdded

LEMMA AddsEither ==
    ASSUME NEW f \in Frames, NEW t, NEW term, MeansEither(t, term)
    PROVE  \E h \in Frames : Adds(f, "complex_clause", h) /\ TermAdded(f, h, t, term)
  <1>1. t \in TokenLists /\ term \in NodeLists BY MeansTypes
  <1>2. PICK h : h = WithTerm(f, t, term) OBVIOUS
  <1>3. /\ h \in Frames /\ h.tokens = Then(f.tokens, t) /\ h.terms = Append(f.terms, term)
        /\ h.operators = f.operators /\ h.conjunctions = f.conjunctions /\ h.orders = f.orders
    BY <1>1, <1>2, WithTermIs
  <1>4. Adds(f, "complex_clause", h) BY <1>2 DEF Adds
  <1> QED BY <1>1, <1>3, <1>4 DEF TermAdded

LEMMA AddsBang ==
    ASSUME NEW f \in Frames, NEW t, NEW term, Means(t, term)
    PROVE  \E h \in Frames : Adds(f, "bang_clause", h) /\ TermAdded(f, h, t, term)
  <1>1. t \in TokenLists /\ term \in NodeLists BY MeansTypes
  <1>2. PICK h : h = WithTerm(f, t, term) OBVIOUS
  <1>3. /\ h \in Frames /\ h.tokens = Then(f.tokens, t) /\ h.terms = Append(f.terms, term)
        /\ h.operators = f.operators /\ h.conjunctions = f.conjunctions /\ h.orders = f.orders
    BY <1>1, <1>2, WithTermIs
  <1>4. Adds(f, "bang_clause", h) BY <1>2 DEF Adds
  <1> QED BY <1>1, <1>3, <1>4 DEF TermAdded

\* What is on top of the terms
LEMMA TermOnTop ==
    ASSUME NEW f \in Frames, NEW g, NEW t, NEW term, TermAdded(f, g, t, term)
    PROVE  Front(g.terms) = f.terms /\ Last(g.terms) = term
  <1>1. f.terms \in TermLists BY FrameFields
  <1>2. term \in NodeLists /\ g.terms = Append(f.terms, term) BY DEF TermAdded
  <1>3. PICK l \in Seq(NodeLists) : l = f.terms BY <1>1 DEF TermLists
  <1>4. PICK m : m = g.terms OBVIOUS
  <1>5. term \in NodeLists /\ m = Append(l, term) BY <1>2, <1>3, <1>4
  <1>6. Front(m) = l /\ Last(m) = term BY ONLY <1>5, FrontOf
  <1> QED BY <1>3, <1>4, <1>6

LEMMA ParenthesedOnTop ==
    ASSUME NEW f \in Frames, NEW g, Adds(f, "parenthesed_clause", g)
    PROVE  Adds(f, "complex_clause", g)
  <1>1. PICK t, term : MeansOne(t, term) /\ g = WithTerm(f, t, term)
    <2>1. "parenthesed_clause" \notin AllTokens /\ "parenthesed_clause" \notin OperatorSymbols
      BY NotTokens DEF OperatorSymbols
    <2> QED BY <2>1 DEF Adds
  <1>2. MeansEither(t, term) BY <1>1, OneMeansEither
  <1> QED BY <1>1, <1>2 DEF Adds

\* bang_clause ::= complex_clause, ::= BANG complex_clause
LEMMA ClauseOnTop ==
    ASSUME NEW f \in Frames, NEW g, Adds(f, "complex_clause", g)
    PROVE  Adds(f, "bang_clause", g)
  <1>1. PICK t, term : MeansEither(t, term) /\ g = WithTerm(f, t, term)
    <2>1. "complex_clause" \notin AllTokens /\ "complex_clause" \notin OperatorSymbols
      BY NotTokens DEF OperatorSymbols
    <2> QED BY <2>1 DEF Adds
  <1>2. Means(t, term) BY <1>1, EitherMeans
  <1> QED BY <1>1, <1>2 DEF Adds

LEMMA BangOnTop ==
    ASSUME NEW f \in Frames, NEW f1 \in Frames, NEW g, Adds(f, "!", f1),
           Adds(f1, "complex_clause", g)
    PROVE  \E t, term : /\ Means(Then(<<"!">>, t), Negated(term))
                        /\ TermAdded(f, g, Then(<<"!">>, t), term)
  <1>1. PICK t, term : MeansEither(t, term) /\ TermAdded(f1, g, t, term) BY EitherAdds
  <1>2. "!" \in AllTokens BY DEF AllTokens
  <1>3. /\ <<"!">> \in TokenLists /\ f1.tokens = Then(f.tokens, <<"!">>)
        /\ f1.terms = f.terms /\ f1.operators = f.operators
        /\ f1.conjunctions = f.conjunctions /\ f1.orders = f.orders
    BY <1>2, TokenAdds
  <1>4. Means(Then(<<"!">>, t), Negated(term)) BY <1>1, BangMeans
  <1>5. PICK b \in TokenLists : b = <<"!">> BY <1>3
  <1>6. t \in TokenLists /\ f.tokens \in TokenLists BY <1>1, FrameFields DEF TermAdded
  <1>7. Then(Then(f.tokens, b), t) = Then(f.tokens, Then(b, t))
    BY <1>6, Regrouped DEF TokenLists
  <1>8. Then(b, t) \in TokenLists BY <1>6, ListTypes
  <1>9. TermAdded(f, g, Then(b, t), term) BY <1>1, <1>3, <1>5, <1>7, <1>8 DEF TermAdded
  <1> QED BY <1>4, <1>5, <1>9

-----------------------------------------------------------------------------
(* What the rules of the grammar make *)

\* A frame with the tokens and orders of another, and other stacks
Same(g, h) ==
    h.tokens = g.tokens /\ h.conjunctions = g.conjunctions /\ h.orders = g.orders

LEMMA FilterOfThree ==
    ASSUME NEW a, NEW o, NEW b
    PROVE  FilterOf(Three(a, o, b))
             = IF b \in Names
               THEN Filter(b, IF a \in Numbers THEN Mirrored(OperatorOf(o)) ELSE OperatorOf(o), a)
               ELSE Filter(a, OperatorOf(o), b)
  BY DEF FilterOf, Three

LEMMA ThreeTokens ==
    ASSUME NEW a, NEW o, NEW b
    PROVE  Then(<<a>>, Then(<<o>>, <<b>>)) = Three(a, o, b)
  <1>1. PICK T : T = {a, o, b} OBVIOUS
  <1>2. PICK x \in Seq(T), y \in Seq(T), z \in Seq(T) : x = <<a>> /\ y = <<o>> /\ z = <<b>>
    <2>1. <<a>> \in Seq(T) /\ <<o>> \in Seq(T) /\ <<b>> \in Seq(T) BY <1>1
    <2> QED BY <2>1
  <1>3. Len(x) = 1 /\ x[1] = a /\ Len(y) = 1 /\ y[1] = o /\ Len(z) = 1 /\ z[1] = b BY <1>2
  <1>4. PICK u \in Seq(T) : u = y \o z
    <2>1. y \o z \in Seq(T) OBVIOUS
    <2> QED BY <2>1
  <1>5. Len(u) = 2 /\ u[1] = o /\ u[2] = b
    <2>1. /\ Len(u) = Len(y) + Len(z)
          /\ \A i \in 1..(Len(y) + Len(z)) : u[i] = IF i <= Len(y) THEN y[i] ELSE z[i - Len(y)]
      BY <1>4, ConcatProperties
    <2> QED BY <1>3, <2>1
  <1>6. PICK v \in Seq(T) : v = x \o u
    <2>1. x \o u \in Seq(T) OBVIOUS
    <2> QED BY <2>1
  <1>7. Len(v) = 3 /\ v[1] = a /\ v[2] = o /\ v[3] = b
    <2>1. /\ Len(v) = Len(x) + Len(u)
          /\ \A i \in 1..(Len(x) + Len(u)) : v[i] = IF i <= Len(x) THEN x[i] ELSE u[i - Len(x)]
      BY <1>6, ConcatProperties
    <2> QED BY <1>3, <1>5, <2>1
  <1>8. v = <<a, o, b>> BY <1>7
  <1> QED BY <1>2, <1>4, <1>6, <1>8 DEF Then, Three

LEMMA FilterIs ==
    ASSUME NEW name \in Known, NEW op \in Comparisons, NEW value \in Numbers \cup Texts
    PROVE  Filter(name, op, value) \in FilterNodes /\ Filter(name, op, value).negated = FALSE
  BY DEF Filter, FilterNodes

\* The filter that tokens are may be put on a frame, in the place of another.
Filtered(f, g, t) ==
    \A x \in FilterNodes : x = FilterOf(t) /\ x.negated = FALSE =>
        \E h \in Frames :
           /\ Adds(f, "parenthesed_clause", h) /\ Same(g, h)
           /\ h.terms = Append(g.terms, <<x>>)
           /\ h.operators = Front(g.operators)

\* clause ::= IDENTIFIER number_operator literal and so on
LEMMA ClauseReduced ==
    ASSUME NEW f \in Frames, NEW f1 \in Frames, NEW f2 \in Frames, NEW g \in Frames,
           NEW a \in FilterTerms, NEW s \in OperatorSymbols, NEW b \in FilterTerms,
           Adds(f, a, f1), Adds(f1, s, f2), Adds(f2, b, g)
    PROVE  \E o \in Comparisons :
              /\ Last(g.operators) = OperatorOf(o)
              /\ Filtered(f, g, Three(a, o, b))
  <1>1. a \in AllTokens /\ b \in AllTokens BY DEF AllTokens
  <1>2. PICK ta \in TokenLists, tb \in TokenLists : ta = <<a>> /\ tb = <<b>>
    BY <1>1, ListTypes
  <1>3. /\ f1.tokens = Then(f.tokens, ta)
        /\ f1.terms = f.terms /\ f1.operators = f.operators
        /\ f1.conjunctions = f.conjunctions /\ f1.orders = f.orders
    BY <1>1, <1>2, TokenAdds
  <1>4. PICK o \in Comparisons : f2 = WithOperator(f1, o)
    <2>1. /\ s \notin AllTokens
          /\ s \notin {"complex_operator", "parenthesed_clause", "complex_clause",
                       "bang_clause", "order_clause", "order_term"}
      BY NotTokens DEF OperatorSymbols
    <2> QED BY <2>1 DEF Adds
  <1>5. o \in FilterTerms /\ o \in AllTokens BY DEF FilterTerms, AllTokens
  <1>6. PICK to \in TokenLists : to = <<o>> BY <1>5, ListTypes
  <1>7. /\ f2.tokens = Then(f1.tokens, to)
        /\ f2.terms = f1.terms /\ f2.operators = Append(f1.operators, OperatorOf(o))
        /\ f2.conjunctions = f1.conjunctions /\ f2.orders = f1.orders
    BY <1>4, <1>6, WithOperatorIs
  <1>8. /\ g.tokens = Then(f2.tokens, tb)
        /\ g.terms = f2.terms /\ g.operators = f2.operators
        /\ g.conjunctions = f2.conjunctions /\ g.orders = f2.orders
    BY <1>1, <1>2, TokenAdds
  <1>9. f.tokens \in TokenLists /\ f.operators \in OperatorLists BY FrameFields
  <1>10. Then(Then(Then(f.tokens, ta), to), tb) = Then(f.tokens, Then(ta, Then(to, tb)))
    <2>1. PICK z \in TokenLists : z = f.tokens BY <1>9
    <2>2. Then(Then(Then(z, ta), to), tb) = Then(z, Then(ta, Then(to, tb))) BY GroupedThree
    <2> QED BY <2>1, <2>2
  <1>11. Then(ta, Then(to, tb)) = Three(a, o, b)
    BY <1>2, <1>6, ThreeTokens
  <1>12. g.tokens = Then(f.tokens, Three(a, o, b)) BY <1>3, <1>7, <1>8, <1>10, <1>11
  <1>13. Front(g.operators) = f.operators /\ Last(g.operators) = OperatorOf(o)
    <2>1. PICK l \in Seq(Comparisons) : l = f.operators BY <1>9 DEF OperatorLists
    <2>2. PICK m : m = g.operators OBVIOUS
    <2>3. PICK c \in Comparisons : c = OperatorOf(o) BY OperatorTypes
    <2>4. m = Append(l, c) BY <1>3, <1>7, <1>8, <2>1, <2>2, <2>3
    <2>5. Front(m) = l /\ Last(m) = c BY ONLY <2>4, FrontOf
    <2> QED BY <2>1, <2>2, <2>3, <2>5
  <1>14. ASSUME NEW x \in FilterNodes, x = FilterOf(Three(a, o, b)), x.negated = FALSE
         PROVE  \E h \in Frames :
                   /\ Adds(f, "parenthesed_clause", h) /\ Same(g, h)
                   /\ h.terms = Append(g.terms, <<x>>)
                   /\ h.operators = Front(g.operators)
    <2>1. MeansOne(Three(a, o, b), <<x>>) BY <1>5, <1>14, FilterMeansOne
    <2>2. PICK t, term : t = Three(a, o, b) /\ term = <<x>> OBVIOUS
    <2>3. MeansOne(t, term) BY <2>1, <2>2
    <2>4. PICK h \in Frames : Adds(f, "parenthesed_clause", h) /\ TermAdded(f, h, t, term)
      BY <2>3, AddsOne
    <2>5. Same(g, h) BY <1>3, <1>7, <1>8, <1>12, <2>2, <2>4 DEF Same, TermAdded
    <2>6. h.terms = Append(g.terms, <<x>>) BY <1>3, <1>7, <1>8, <2>2, <2>4 DEF TermAdded
    <2>7. h.operators = Front(g.operators) BY <1>13, <2>4 DEF TermAdded
    <2> QED BY <2>4, <2>5, <2>6, <2>7
  <1>15. Filtered(f, g, Three(a, o, b)) BY <1>14 DEF Filtered
  <1> QED BY <1>13, <1>15

\* A term, or one after a "!", and what it is then
LEMMA ScopeReduced ==
    ASSUME NEW f \in Frames, NEW f1 \in Frames, NEW f2 \in Frames, NEW g \in Frames,
           Adds(f, "(", f1), NEW t, NEW old, NEW term, Means(t, term), TermAdded(f1, f2, t, old),
           Adds(f2, ")", g)
    PROVE  /\ Last(g.terms) = old
           /\ \E h \in Frames :
                 /\ Adds(f, "parenthesed_clause", h) /\ Same(g, h)
                 /\ h.terms = Append(Front(g.terms), <<ScopeNode>> \o term)
                 /\ h.operators = g.operators
  <1>1. "(" \in AllTokens /\ ")" \in AllTokens BY DEF AllTokens
  <1>2. PICK a \in TokenLists, c \in TokenLists : a = <<"(">> /\ c = <<")">>
    BY <1>1, ListTypes
  <1>3. /\ f1.tokens = Then(f.tokens, a)
        /\ f1.terms = f.terms /\ f1.operators = f.operators
        /\ f1.conjunctions = f.conjunctions /\ f1.orders = f.orders
    BY <1>1, <1>2, TokenAdds
  <1>4. /\ t \in TokenLists /\ f2.tokens = Then(f1.tokens, t)
        /\ f2.operators = f1.operators /\ f2.conjunctions = f1.conjunctions
        /\ f2.orders = f1.orders
    BY DEF TermAdded
  <1>5. Front(f2.terms) = f1.terms /\ Last(f2.terms) = old BY TermOnTop
  <1>6. /\ g.tokens = Then(f2.tokens, c)
        /\ g.terms = f2.terms /\ g.operators = f2.operators
        /\ g.conjunctions = f2.conjunctions /\ g.orders = f2.orders
    BY <1>1, <1>2, TokenAdds
  <1>7. f.tokens \in TokenLists BY FrameFields
  <1>8. g.tokens = Then(f.tokens, Then(a, Then(t, c)))
    <2>1. Then(Then(Then(f.tokens, a), t), c) = Then(f.tokens, Then(a, Then(t, c)))
      BY <1>4, <1>7, GroupedThree
    <2> QED BY <1>3, <1>4, <1>6, <2>1
  <1>9. MeansOne(Then(a, Then(t, c)), Then(<<ScopeNode>>, term)) BY <1>2, ScopeMeansOne
  <1>10. PICK u, scope : u = Then(a, Then(t, c)) /\ scope = Then(<<ScopeNode>>, term) OBVIOUS
  <1>11. PICK h \in Frames : Adds(f, "parenthesed_clause", h) /\ TermAdded(f, h, u, scope)
    BY <1>9, <1>10, AddsOne
  <1>12. Same(g, h) BY <1>3, <1>4, <1>6, <1>8, <1>10, <1>11 DEF Same, TermAdded
  <1>13. h.terms = Append(Front(g.terms), <<ScopeNode>> \o term)
    BY <1>3, <1>5, <1>6, <1>10, <1>11 DEF TermAdded, Then
  <1>14. h.operators = g.operators BY <1>3, <1>4, <1>6, <1>11 DEF TermAdded
  <1> QED BY <1>5, <1>6, <1>11, <1>12, <1>13, <1>14

\* What is denied or not
LEMMA ClauseMeans ==
    ASSUME NEW f \in Frames, NEW g, Adds(f, "complex_clause", g)
    PROVE  \E t, term : Means(t, term) /\ TermAdded(f, g, t, term)
  <1>1. PICK t, term : MeansEither(t, term) /\ TermAdded(f, g, t, term) BY EitherAdds
  <1> QED BY <1>1, EitherMeans

\* complex_clause ::= parenthesed_clause complex_operator complex_clause
LEMMA ConjunctionReduced ==
    ASSUME NEW f \in Frames, NEW f1 \in Frames, NEW f2 \in Frames, NEW g \in Frames,
           Adds(f, "parenthesed_clause", f1), Adds(f1, "complex_operator", f2),
           NEW t, NEW old, NEW term, Means(t, term), TermAdded(f2, g, t, old)
    PROVE  \E left \in NodeLists :
              /\ Simple(left) /\ old \in NodeLists /\ g.terms = Append(Append(f.terms, left), old)
              /\ \E h \in Frames :
                    /\ Adds(f, "complex_clause", h) /\ h.tokens = g.tokens
                    /\ h.terms = Append(f.terms, Both(left, term, Last(g.conjunctions)))
                    /\ h.operators = g.operators /\ h.conjunctions = Front(g.conjunctions)
                    /\ h.orders = g.orders
  <1>1. PICK p, left : MeansOne(p, left) /\ TermAdded(f, f1, p, left) BY OneAdds
  <1>2. /\ p \in TokenLists /\ left \in NodeLists /\ f1.tokens = Then(f.tokens, p)
        /\ f1.terms = Append(f.terms, left) /\ f1.operators = f.operators
        /\ f1.conjunctions = f.conjunctions /\ f1.orders = f.orders
    BY <1>1 DEF TermAdded
  <1>3. PICK op \in ConjunctionOps : f2 = WithConjunction(f1, op)
    <2>1. "complex_operator" \notin AllTokens /\ "complex_operator" \notin OperatorSymbols
      BY NotTokens DEF OperatorSymbols
    <2> QED BY <2>1 DEF Adds
  <1>4. op \in AllTokens BY DEF AllTokens
  <1>5. PICK o \in TokenLists : o = <<op>> BY <1>4, ListTypes
  <1>6. PICK c \in {"And", "Or"} : c = ConjunctionOf(op) BY OperatorTypes
  <1>7. /\ f2.tokens = Then(f1.tokens, o) /\ f2.terms = f1.terms
        /\ f2.operators = f1.operators /\ f2.conjunctions = Append(f1.conjunctions, c)
        /\ f2.orders = f1.orders
    BY <1>3, <1>5, <1>6, WithConjunctionIs
  <1>8. /\ t \in TokenLists /\ old \in NodeLists /\ g.tokens = Then(f2.tokens, t)
        /\ g.terms = Append(f2.terms, old) /\ g.operators = f2.operators
        /\ g.conjunctions = f2.conjunctions /\ g.orders = f2.orders
    BY DEF TermAdded
  <1>9. f.tokens \in TokenLists /\ f.conjunctions \in ConjunctionLists BY FrameFields
  <1>10. g.tokens = Then(f.tokens, Then(p, Then(o, t)))
    <2>1. PICK z \in TokenLists : z = f.tokens BY <1>9
    <2>2. Then(Then(Then(z, p), o), t) = Then(z, Then(p, Then(o, t)))
      BY <1>2, <1>8, GroupedThree
    <2> QED BY <1>2, <1>7, <1>8, <2>1, <2>2
  <1>11. Front(g.conjunctions) = f.conjunctions /\ Last(g.conjunctions) = c
    <2>0. PICK C : C = {"And", "Or"} OBVIOUS
    <2>1. PICK l \in Seq(C) : l = f.conjunctions BY <1>9, <2>0 DEF ConjunctionLists
    <2>2. PICK m : m = g.conjunctions OBVIOUS
    <2>3. c \in C /\ m = Append(l, c) BY <2>0,  <1>2, <1>7, <1>8, <2>1, <2>2
    <2>4. Front(m) = l /\ Last(m) = c BY ONLY <2>3, FrontOf
    <2> QED BY <2>1, <2>2, <2>4
  <1>12. MeansEither(Then(p, Then(o, t)), Both(left, term, c))
    BY <1>1, <1>5, <1>6, ConjunctionMeansEither
  <1>13. PICK u, both : u = Then(p, Then(o, t)) /\ both = Both(left, term, c) OBVIOUS
  <1>14. PICK h \in Frames : Adds(f, "complex_clause", h) /\ TermAdded(f, h, u, both)
    BY <1>12, <1>13, AddsEither
  <1>15. /\ h.tokens = g.tokens /\ h.terms = Append(f.terms, Both(left, term, Last(g.conjunctions)))
         /\ h.operators = g.operators /\ h.conjunctions = Front(g.conjunctions)
         /\ h.orders = g.orders
    BY <1>2, <1>7, <1>8, <1>10, <1>11, <1>13, <1>14 DEF TermAdded
  <1>16. Simple(left) BY <1>1 DEF MeansOne
  <1> QED BY <1>2, <1>7, <1>8, <1>14, <1>15, <1>16

\* bang_clause ::= BANG complex_clause
LEMMA BangReduced ==
    ASSUME NEW f \in Frames, NEW f1 \in Frames, NEW g \in Frames, Adds(f, "!", f1),
           Adds(f1, "complex_clause", g)
    PROVE  \E h \in Frames :
              /\ Adds(f, "bang_clause", h) /\ Same(g, h)
              /\ h.terms = Append(Front(g.terms), Negated(Last(g.terms)))
              /\ h.operators = g.operators
  <1>1. PICK t, term : /\ Means(Then(<<"!">>, t), Negated(term))
                       /\ TermAdded(f, g, Then(<<"!">>, t), term)
    BY BangOnTop
  <1>2. PICK u, denied : u = Then(<<"!">>, t) /\ denied = Negated(term) OBVIOUS
  <1>3. PICK h \in Frames : Adds(f, "bang_clause", h) /\ TermAdded(f, h, u, denied)
    BY <1>1, <1>2, AddsBang
  <1>4. Front(g.terms) = f.terms /\ Last(g.terms) = term BY <1>1, TermOnTop
  <1>5. Same(g, h) BY <1>1, <1>2, <1>3 DEF Same, TermAdded
  <1>6. h.terms = Append(Front(g.terms), Negated(Last(g.terms)))
    BY <1>2, <1>3, <1>4 DEF TermAdded
  <1>7. h.operators = g.operators BY <1>1, <1>3 DEF TermAdded
  <1> QED BY <1>3, <1>5, <1>6, <1>7

-----------------------------------------------------------------------------
(* Orders *)

Directions == {"/", "\\"}
OrderOf(d, name) == [ascending |-> d = "/", propertyName |-> name]
Named(d, name) == <<d, name>>

LEMMA NamedIs ==
    ASSUME NEW d \in Directions, NEW name \in Names
    PROVE  /\ Named(d, name) \in TokenLists /\ Len(Named(d, name)) = 2
           /\ Named(d, name)[1] = d /\ Named(d, name)[2] = name
           /\ Named(d, name) = Then(<<d>>, <<name>>)
           /\ d \in AllTokens /\ name \in AllTokens
  <1>1. d \in AllTokens BY DEF AllTokens, Directions
  <1>2. name \in AllTokens BY DEF AllTokens, FilterTerms
  <1>3. Named(d, name) \in TokenLists BY <1>1, <1>2 DEF TokenLists, Named
  <1>4. Len(Named(d, name)) = 2 /\ Named(d, name)[1] = d /\ Named(d, name)[2] = name
    BY DEF Named
  <1>5. PICK x \in TokenLists, y \in TokenLists : x = <<d>> /\ y = <<name>>
    BY <1>1, <1>2, ListTypes
  <1>6. Len(x) = 1 /\ x[1] = d /\ Len(y) = 1 /\ y[1] = name BY <1>5
  <1>7. PICK u \in TokenLists : u = x \o y
    <2>1. Then(x, y) \in TokenLists BY ListTypes
    <2> QED BY <2>1 DEF Then
  <1>8. Len(u) = 2 /\ u[1] = d /\ u[2] = name
    <2>1. /\ Len(u) = Len(x) + Len(y)
          /\ \A i \in 1..(Len(x) + Len(y)) : u[i] = IF i <= Len(x) THEN x[i] ELSE y[i - Len(x)]
      BY <1>7, ConcatProperties DEF TokenLists
    <2> QED BY <1>6, <2>1
  <1>9. u = <<d, name>> BY <1>8 DEF TokenLists
  <1> QED BY <1>1, <1>2, <1>3, <1>4, <1>5, <1>7, <1>9 DEF Then, Named

LEMMA OrderIs ==
    ASSUME NEW d \in Directions, NEW name \in Names
    PROVE  OrderOf(d, name) \in OrderRecords /\ <<OrderOf(d, name)>> \in OrderLists
  <1>1. PICK r : r = OrderOf(d, name) OBVIOUS
  <1>2. r \in OrderRecords BY <1>1 DEF OrderOf, OrderRecords
  <1>3. <<r>> \in OrderLists BY <1>2 DEF OrderLists
  <1> QED BY <1>1, <1>2, <1>3

LEMMA OrdersNone == Orders(<<>>, <<>>)
  BY DEF Orders, TokenLists, OrderLists

LEMMA OrdersMore ==
    ASSUME NEW t, NEW o, Orders(t, o), NEW d \in Directions, NEW name \in Names
    PROVE  Orders(Then(t, Named(d, name)), Then(o, <<OrderOf(d, name)>>))
  <1>1. PICK x \in TokenLists : x = t BY DEF Orders
  <1>2. PICK l \in OrderLists : l = o BY DEF Orders
  <1>3. PICK n \in Nat : Len(l) = n /\ Len(x) = 2 * n BY <1>1, <1>2 DEF Orders, OrderLists
  <1>4. \A i \in 1..n : l[i] = OrderOf(x[2 * i - 1], x[2 * i])
    BY <1>1, <1>2, <1>3 DEF Orders, OrderOf
  <1>5. PICK y \in TokenLists : y = Named(d, name) BY NamedIs
  <1>6. Len(y) = 2 /\ y[1] = d /\ y[2] = name BY <1>5, NamedIs
  <1>7. PICK r \in OrderRecords, m \in OrderLists : r = OrderOf(d, name) /\ m = <<r>> BY OrderIs
  <1>8. Len(m) = 1 /\ m[1] = r BY <1>7
  <1>9. PICK u \in TokenLists : u = Then(x, y) BY ListTypes
  <1>10. PICK v \in OrderLists : v = Then(l, m) BY ListTypes
  <1>11. Len(u) = 2 * n + 2 /\ (\A i \in 1..(2 * n) : u[i] = x[i])
         /\ u[2 * n + 1] = d /\ u[2 * n + 2] = name
    <2>1. /\ Len(u) = Len(x) + Len(y)
          /\ \A i \in 1..(Len(x) + Len(y)) : u[i] = IF i <= Len(x) THEN x[i] ELSE y[i - Len(x)]
      BY <1>9, ConcatProperties DEF TokenLists, Then
    <2>2. Len(u) = 2 * n + 2 BY <1>3, <1>6, <2>1
    <2>3. \A i \in 1..(2 * n) : u[i] = x[i] BY <1>3, <1>6, <2>1
    <2>4. PICK k \in Nat : k = 2 * n BY <1>3
    <2>5. u[k + 1] = y[1] /\ u[k + 2] = y[2]
      <3>1. \A i \in 1..(k + 2) : u[i] = IF i <= k THEN x[i] ELSE y[i - k]
        BY <1>3, <1>6, <2>1, <2>4
      <3>2. k + 1 \in 1..(k + 2) /\ k + 2 \in 1..(k + 2) /\ ~(k + 1 <= k) /\ ~(k + 2 <= k)
            /\ (k + 1) - k = 1 /\ (k + 2) - k = 2
        BY <2>4
      <3> QED BY <3>1, <3>2
    <2> QED BY <1>6, <2>2, <2>3, <2>4, <2>5
  <1>12. Len(v) = n + 1 /\ (\A i \in 1..n : v[i] = l[i]) /\ v[n + 1] = r
    <2>1. /\ Len(v) = Len(l) + Len(m)
          /\ \A i \in 1..(Len(l) + Len(m)) : v[i] = IF i <= Len(l) THEN l[i] ELSE m[i - Len(l)]
      BY <1>10, ConcatProperties DEF OrderLists, Then
    <2> QED BY <1>3, <1>8, <2>1
  <1>13. Len(u) = 2 * Len(v) BY <1>3, <1>11, <1>12
  <1>14. ASSUME NEW i \in 1..(n + 1) PROVE v[i] = OrderOf(u[2 * i - 1], u[2 * i])
    <2>1. CASE i = n + 1
      <3>1. 2 * i - 1 = 2 * n + 1 /\ 2 * i = 2 * n + 2 BY <1>3, <2>1
      <3> QED BY <1>7, <1>11, <1>12, <2>1, <3>1
    <2>2. CASE i # n + 1
      <3>1. i \in 1..n /\ 2 * i - 1 \in 1..(2 * n) /\ 2 * i \in 1..(2 * n) BY <1>3, <2>2
      <3> QED BY <1>4, <1>11, <1>12, <3>1
    <2> QED BY <2>1, <2>2
  <1>15. Orders(u, v) BY <1>12, <1>13, <1>14 DEF Orders, OrderOf
  <1> QED BY <1>1, <1>2, <1>5, <1>7, <1>9, <1>10, <1>15

\* order_clause ::= order_clause SORT_ASCENDING IDENTIFIER and so on
LEMMA OrderAdded ==
    ASSUME NEW f \in Frames, NEW f1 \in Frames, NEW g \in Frames, NEW d \in Directions,
           NEW name \in Names, Adds(f, d, f1), Adds(f1, name, g)
    PROVE  /\ g.tokens = Then(f.tokens, Named(d, name)) /\ g.terms = f.terms
           /\ g.operators = f.operators /\ g.conjunctions = f.conjunctions
           /\ g.orders = f.orders
  <1>1. /\ d \in AllTokens /\ name \in AllTokens /\ Named(d, name) = Then(<<d>>, <<name>>)
    BY NamedIs
  <1>2. PICK a \in TokenLists, b \in TokenLists : a = <<d>> /\ b = <<name>>
    BY <1>1, ListTypes
  <1>3. /\ f1.tokens = Then(f.tokens, a)
        /\ f1.terms = f.terms /\ f1.operators = f.operators
        /\ f1.conjunctions = f.conjunctions /\ f1.orders = f.orders
    BY <1>1, <1>2, TokenAdds
  <1>4. /\ g.tokens = Then(f1.tokens, b)
        /\ g.terms = f1.terms /\ g.operators = f1.operators
        /\ g.conjunctions = f1.conjunctions /\ g.orders = f1.orders
    BY <1>1, <1>2, TokenAdds
  <1>5. Then(Then(f.tokens, a), b) = Then(f.tokens, Then(a, b))
    <2>1. PICK z \in TokenLists : z = f.tokens BY FrameFields
    <2>2. Then(Then(z, a), b) = Then(z, Then(a, b)) BY Regrouped DEF TokenLists
    <2> QED BY <2>1, <2>2
  <1> QED BY <1>1, <1>2, <1>3, <1>4, <1>5

Sorted(g, h, o) ==
    /\ h.tokens = g.tokens /\ h.terms = g.terms /\ h.operators = g.operators
    /\ h.conjunctions = g.conjunctions /\ h.orders = o

LEMMA FirstOrder ==
    ASSUME NEW f \in Frames, NEW f1 \in Frames, NEW g \in Frames, NEW d \in Directions,
           NEW name \in Names, Adds(f, d, f1), Adds(f1, name, g)
    PROVE  \E h \in Frames : /\ Adds(f, "order_clause", h)
                             /\ Sorted(g, h, Append(g.orders, OrderOf(d, name)))
  <1>1. /\ g.tokens = Then(f.tokens, Named(d, name)) /\ g.terms = f.terms
        /\ g.operators = f.operators /\ g.conjunctions = f.conjunctions
        /\ g.orders = f.orders
    BY OrderAdded
  <1>2. PICK t \in TokenLists : t = Named(d, name) BY NamedIs
  <1>3. PICK r \in OrderRecords, o \in OrderLists : r = OrderOf(d, name) /\ o = <<r>> BY OrderIs
  <1>4. Orders(t, o)
    <2>1. Orders(Then(<<>>, Named(d, name)), Then(<<>>, <<OrderOf(d, name)>>))
      BY OrdersNone, OrdersMore
    <2>2. Then(<<>>, t) = t BY DEF Then, TokenLists
    <2>3. Then(<<>>, o) = o BY DEF Then, OrderLists
    <2> QED BY <1>2, <1>3, <2>1, <2>2, <2>3
  <1>5. PICK h : h = WithOrders(f, t, o) OBVIOUS
  <1>6. /\ h \in Frames /\ h.tokens = Then(f.tokens, t)
        /\ h.terms = f.terms /\ h.operators = f.operators
        /\ h.conjunctions = f.conjunctions /\ h.orders = Then(f.orders, o)
    BY <1>5, WithOrdersIs
  <1>7. Adds(f, "order_clause", h) BY <1>4, <1>5 DEF Adds
  <1>8. Then(f.orders, o) = Append(f.orders, r)
    <2>1. PICK z \in Seq(OrderRecords) : z = f.orders BY FrameFields DEF OrderLists
    <2>2. z \o <<r>> = Append(z, r) OBVIOUS
    <2> QED BY <1>3, <2>1, <2>2 DEF Then
  <1> QED BY <1>1, <1>2, <1>3, <1>6, <1>7, <1>8 DEF Sorted

LEMMA NextOrder ==
    ASSUME NEW e \in Frames, NEW f \in Frames, NEW f1 \in Frames, NEW g \in Frames,
           NEW d \in Directions, NEW name \in Names,
           Adds(e, "order_clause", f), Adds(f, d, f1), Adds(f1, name, g)
    PROVE  \E h \in Frames : /\ Adds(e, "order_clause", h)
                             /\ Sorted(g, h, Append(g.orders, OrderOf(d, name)))
  <1>1. /\ g.tokens = Then(f.tokens, Named(d, name)) /\ g.terms = f.terms
        /\ g.operators = f.operators /\ g.conjunctions = f.conjunctions
        /\ g.orders = f.orders
    BY OrderAdded
  <1>2. PICK t \in TokenLists : t = Named(d, name) BY NamedIs
  <1>3. PICK r \in OrderRecords, o \in OrderLists : r = OrderOf(d, name) /\ o = <<r>> BY OrderIs
  <1>4. PICK u, v : Orders(u, v) /\ f = WithOrders(e, u, v)
    <2>1. "order_clause" \notin AllTokens /\ "order_clause" \notin OperatorSymbols
      BY NotTokens DEF OperatorSymbols
    <2> QED BY <2>1 DEF Adds
  <1>5. u \in TokenLists /\ v \in OrderLists BY <1>4 DEF Orders
  <1>6. /\ f.tokens = Then(e.tokens, u)
        /\ f.terms = e.terms /\ f.operators = e.operators
        /\ f.conjunctions = e.conjunctions /\ f.orders = Then(e.orders, v)
    BY <1>4, <1>5, WithOrdersIs
  <1>7. PICK x \in TokenLists, y \in OrderLists : x = Then(u, t) /\ y = Then(v, o)
    BY <1>5, ListTypes
  <1>8. Orders(x, y) BY <1>2, <1>3, <1>4, <1>7, OrdersMore
  <1>9. PICK h : h = WithOrders(e, x, y) OBVIOUS
  <1>10. /\ h \in Frames /\ h.tokens = Then(e.tokens, x)
         /\ h.terms = e.terms /\ h.operators = e.operators
         /\ h.conjunctions = e.conjunctions /\ h.orders = Then(e.orders, y)
    BY <1>9, WithOrdersIs
  <1>11. Adds(e, "order_clause", h) BY <1>8, <1>9 DEF Adds
  <1>12. h.tokens = g.tokens
    <2>1. PICK z \in TokenLists : z = e.tokens BY FrameFields
    <2>2. Then(Then(z, u), t) = Then(z, Then(u, t)) BY <1>5, Regrouped DEF TokenLists
    <2> QED BY <1>1, <1>2, <1>6, <1>7, <1>10, <2>1, <2>2
  <1>13. h.orders = Append(g.orders, r)
    <2>1. PICK z \in OrderLists : z = e.orders BY FrameFields
    <2>2. PICK w \in OrderLists : w = v BY <1>5
    <2>3. Then(Then(z, w), o) = Then(z, Then(w, o)) BY Regrouped DEF OrderLists
    <2>4. PICK k \in OrderLists : k = Then(z, w) BY ListTypes
    <2>5. k \o <<r>> = Append(k, r) BY DEF OrderLists
    <2>6. Then(k, o) = Append(k, r) BY <1>3, <2>5 DEF Then
    <2> QED BY <1>1, <1>6, <1>7, <1>10, <2>1, <2>2, <2>3, <2>4, <2>6
  <1> QED BY <1>1, <1>3, <1>6, <1>10, <1>11, <1>12, <1>13 DEF Sorted

\* order_term ::= ORDER_OPEN order_clause ORDER_CLOSE
LEMMA OrderTermReduced ==
    ASSUME NEW f \in Frames, NEW f1 \in Frames, NEW f2 \in Frames, NEW g \in Frames,
           Adds(f, "[", f1), Adds(f1, "order_clause", f2), Adds(f2, "]", g)
    PROVE  \E h \in Frames : Adds(f, "order_term", h) /\ Sorted(g, h, g.orders)
  <1>1. "[" \in AllTokens /\ "]" \in AllTokens BY DEF AllTokens
  <1>2. PICK a \in TokenLists, c \in TokenLists : a = <<"[">> /\ c = <<"]">>
    BY <1>1, ListTypes
  <1>3. /\ f1.tokens = Then(f.tokens, a)
        /\ f1.terms = f.terms /\ f1.operators = f.operators
        /\ f1.conjunctions = f.conjunctions /\ f1.orders = f.orders
    BY <1>1, <1>2, TokenAdds
  <1>4. PICK u, v : Orders(u, v) /\ f2 = WithOrders(f1, u, v)
    <2>1. "order_clause" \notin AllTokens /\ "order_clause" \notin OperatorSymbols
      BY NotTokens DEF OperatorSymbols
    <2> QED BY <2>1 DEF Adds
  <1>5. u \in TokenLists /\ v \in OrderLists BY <1>4 DEF Orders
  <1>6. /\ f2.tokens = Then(f1.tokens, u)
        /\ f2.terms = f1.terms /\ f2.operators = f1.operators
        /\ f2.conjunctions = f1.conjunctions /\ f2.orders = Then(f1.orders, v)
    BY <1>4, <1>5, WithOrdersIs
  <1>7. /\ g.tokens = Then(f2.tokens, c)
        /\ g.terms = f2.terms /\ g.operators = f2.operators
        /\ g.conjunctions = f2.conjunctions /\ g.orders = f2.orders
    BY <1>1, <1>2, TokenAdds
  <1>8. PICK x : x = Then(a, Then(u, c)) OBVIOUS
  <1>9. x \in TokenLists /\ g.tokens = Then(f.tokens, x)
    <2>1. PICK z \in TokenLists : z = f.tokens BY FrameFields
    <2>2. /\ Then(Then(Then(z, a), u), c) = Then(z, Then(a, Then(u, c)))
          /\ Then(a, Then(u, c)) \in TokenLists
      BY <1>5, GroupedThree
    <2> QED BY <1>3, <1>6, <1>7, <1>8, <2>1, <2>2
  <1>10. PICK h : h = WithOrders(f, x, v) OBVIOUS
  <1>11. /\ h \in Frames /\ h.tokens = Then(f.tokens, x)
         /\ h.terms = f.terms /\ h.operators = f.operators
         /\ h.conjunctions = f.conjunctions /\ h.orders = Then(f.orders, v)
    BY <1>5, <1>9, <1>10, WithOrdersIs
  <1>12. Adds(f, "order_term", h) BY <1>2, <1>4, <1>8, <1>10 DEF Adds
  <1> QED BY <1>3, <1>6, <1>7, <1>9, <1>11, <1>12 DEF Sorted

-----------------------------------------------------------------------------
(* How long the stacks are *)

TermSymbols == {"parenthesed_clause", "complex_clause", "bang_clause"}
Among(s, m, K) == {i \in 1..m : s[i] \in K}

\* A number that grows by one at each symbol of a kind counts them.
LEMMA CountedUpTo ==
    ASSUME NEW s, NEW N \in Nat, NEW K, NEW l \in [0..N -> Nat],
           \A m \in 1..N : l[m] = l[m - 1] + (IF s[m] \in K THEN 1 ELSE 0)
    PROVE  l[N] = l[0] + Cardinality(Among(s, N, K))
  <1> DEFINE E == {m \in 0..N : /\ IsFiniteSet(Among(s, m, K))
                                /\ l[m] = l[0] + Cardinality(Among(s, m, K))}
  <1>1. 0 \in E
    <2>1. Among(s, 0, K) = {} BY DEF Among
    <2>2. IsFiniteSet({}) /\ Cardinality({}) = 0 BY FS_EmptySet
    <2>3. 0 \in 0..N /\ l[0] \in Nat OBVIOUS
    <2>4. l[0] = l[0] + 0 BY <2>3
    <2> QED BY <2>1, <2>2, <2>3, <2>4
  <1>2. ASSUME NEW n \in 0..(N - 1), n \in E PROVE n + 1 \in E
    <2>1. PICK k \in 1..N : k = n + 1 BY <1>2
    <2>2. k - 1 = n /\ n \in 0..N BY <2>1
    <2>3. PICK A : A = Among(s, n, K) OBVIOUS
    <2>4. IsFiniteSet(A) /\ l[n] = l[0] + Cardinality(A) BY <1>2, <2>3
    <2>5. Cardinality(A) \in Nat BY <2>4, FS_CardinalityType
    <2>6. l[k] = l[n] + (IF s[k] \in K THEN 1 ELSE 0) BY <2>2
    <2>7. l[0] \in Nat /\ l[n] \in Nat BY <2>2
    <2>8. k \notin A BY <2>1, <2>3 DEF Among
    <2>9. 1..k = (1..n) \cup {k} BY <2>1, <2>2
    <2>10. CASE s[k] \in K
      <3>1. Among(s, k, K) = A \cup {k} BY <2>3, <2>9, <2>10 DEF Among
      <3>2. /\ IsFiniteSet(A \cup {k})
            /\ Cardinality(A \cup {k}) = Cardinality(A) + 1
        BY <2>4, <2>8, FS_AddElement
      <3>3. l[k] = l[0] + (Cardinality(A) + 1) BY <2>4, <2>5, <2>6, <2>7, <2>10
      <3>4. k \in 0..N OBVIOUS
      <3>5. k \in E BY <3>1, <3>2, <3>3, <3>4
      <3> QED BY <2>1, <3>5
    <2>11. CASE s[k] \notin K
      <3>1. Among(s, k, K) = A BY <2>3, <2>9, <2>11 DEF Among
      <3>3. l[k] = l[0] + Cardinality(A) BY <2>4, <2>5, <2>6, <2>7, <2>11
      <3>4. k \in 0..N OBVIOUS
      <3>5. k \in E BY <2>4, <3>1, <3>3, <3>4
      <3> QED BY <2>1, <3>5
    <2> QED BY <2>10, <2>11
  <1> HIDE DEF E
  <1>3. \A m \in 0..N : m \in E BY <1>1, <1>2, InductionUpTo
  <1>4. N \in E BY <1>3
  <1> QED BY <1>4 DEF E

\* What the stacks have more with a symbol
LEMMA LengthsAdd ==
    ASSUME NEW f \in Frames, NEW s, NEW g \in Frames, Adds(f, s, g)
    PROVE  /\ Len(g.terms) = Len(f.terms) + (IF s \in TermSymbols THEN 1 ELSE 0)
           /\ Len(g.operators) = Len(f.operators) + (IF s \in OperatorSymbols THEN 1 ELSE 0)
           /\ Len(g.conjunctions) = Len(f.conjunctions) + (IF s \in {"complex_operator"} THEN 1 ELSE 0)
  <1>1. /\ Len(f.terms) \in Nat /\ Len(f.operators) \in Nat /\ Len(f.conjunctions) \in Nat
    BY FrameFields DEF TermLists, OperatorLists, ConjunctionLists
  <1>2. /\ s \in AllTokens => s \notin OperatorSymbols /\ s \notin TermSymbols
                              /\ s # "complex_operator"
        /\ s \in OperatorSymbols => s \notin TermSymbols /\ s # "complex_operator"
        /\ s \in TermSymbols => s \notin OperatorSymbols /\ s # "complex_operator"
        /\ s \in {"complex_operator", "order_clause", "order_term"} =>
              s \notin OperatorSymbols /\ s \notin TermSymbols
    BY NotTokens DEF OperatorSymbols, TermSymbols
  <1>3. CASE s \in AllTokens
    <2>1. /\ g.terms = f.terms /\ g.operators = f.operators /\ g.conjunctions = f.conjunctions
      BY <1>3, TokenAdds
    <2> QED BY <1>1, <1>2, <1>3, <2>1
  <1>4. CASE s \in OperatorSymbols
    <2>1. PICK t \in Comparisons : g = WithOperator(f, t)
      <3>1. /\ s \notin AllTokens
            /\ s \notin {"complex_operator", "parenthesed_clause", "complex_clause",
                         "bang_clause", "order_clause", "order_term"}
        BY <1>4, NotTokens DEF OperatorSymbols
      <3> QED BY <3>1 DEF Adds
    <2>2. /\ g.terms = f.terms /\ g.operators = Append(f.operators, OperatorOf(t))
          /\ g.conjunctions = f.conjunctions
      BY <2>1, WithOperatorIs
    <2>3. Len(g.operators) = Len(f.operators) + 1
      <3>1. PICK l \in Seq(Comparisons) : l = f.operators BY FrameFields DEF OperatorLists
      <3> QED BY <2>2, <3>1
    <2> QED BY <1>1, <1>2, <1>4, <2>2, <2>3
  <1>5. CASE s = "complex_operator"
    <2>1. PICK op \in ConjunctionOps : g = WithConjunction(f, op)
      <3>1. "complex_operator" \notin AllTokens /\ "complex_operator" \notin OperatorSymbols
        BY NotTokens DEF OperatorSymbols
      <3> QED BY <1>5, <3>1 DEF Adds
    <2>2. /\ g.terms = f.terms /\ g.operators = f.operators
          /\ g.conjunctions = Append(f.conjunctions, ConjunctionOf(op))
      BY <2>1, WithConjunctionIs
    <2>3. Len(g.conjunctions) = Len(f.conjunctions) + 1
      <3>0. PICK C : C = {"And", "Or"} OBVIOUS
      <3>1. PICK l \in Seq(C) : l = f.conjunctions BY <3>0, FrameFields DEF ConjunctionLists
      <3> QED BY <2>2, <3>1
    <2> QED BY <1>1, <1>2, <1>5, <2>2, <2>3
  <1>6. CASE s \in TermSymbols
    <2>1. \E t, term : TermAdded(f, g, t, term)
      <3>1. CASE s = "parenthesed_clause" BY <3>1, OneAdds
      <3>2. CASE s = "complex_clause" BY <3>2, EitherAdds
      <3>3. CASE s = "bang_clause" BY <3>3, BangAdds
      <3> QED BY <1>6, <3>1, <3>2, <3>3 DEF TermSymbols
    <2>2. PICK t, term : TermAdded(f, g, t, term) BY <2>1
    <2>3. /\ term \in NodeLists /\ g.terms = Append(f.terms, term) /\ g.operators = f.operators
          /\ g.conjunctions = f.conjunctions
      BY <2>2 DEF TermAdded
    <2>4. Len(g.terms) = Len(f.terms) + 1
      <3>1. PICK l \in Seq(NodeLists) : l = f.terms BY FrameFields DEF TermLists
      <3> QED BY <2>3, <3>1
    <2> QED BY <1>1, <1>2, <1>6, <2>3, <2>4
  <1>7. CASE s \in {"order_clause", "order_term"}
    <2>1. s \notin AllTokens /\ s \notin OperatorSymbols
      BY <1>7, NotTokens DEF OperatorSymbols
    <2>2. PICK t \in TokenLists, o \in OrderLists : g = WithOrders(f, t, o)
      <3>1. CASE s = "order_clause"
        <4>1. PICK t, o : Orders(t, o) /\ g = WithOrders(f, t, o) BY <2>1, <3>1 DEF Adds
        <4> QED BY <4>1 DEF Orders
      <3>2. CASE s = "order_term"
        <4>1. PICK t, o : Orders(t, o) /\ g = WithOrders(f, Then(<<"[">>, Then(t, <<"]">>)), o)
          BY <2>1, <3>2 DEF Adds
        <4>2. t \in TokenLists /\ o \in OrderLists BY <4>1 DEF Orders
        <4>3. "[" \in AllTokens /\ "]" \in AllTokens BY DEF AllTokens
        <4>4. PICK u : u = Then(<<"[">>, Then(t, <<"]">>)) OBVIOUS
        <4>5. u \in TokenLists BY <4>2, <4>3, <4>4, ListTypes
        <4> QED BY <4>1, <4>2, <4>4, <4>5
      <3> QED BY <1>7, <3>1, <3>2
    <2>3. /\ g.terms = f.terms /\ g.operators = f.operators /\ g.conjunctions = f.conjunctions
      BY <2>2, WithOrdersIs
    <2>4. s \notin TermSymbols /\ s \notin {"complex_operator"} BY <1>7 DEF TermSymbols
    <2> QED BY <1>1, <2>1, <2>3, <2>4
  <1> QED BY <1>3, <1>4, <1>5, <1>6, <1>7 DEF Adds, TermSymbols

\* The stacks have one for every symbol that stands for one.
LEMMA StacksCounted ==
    ASSUME NEW s, NEW f, Stacked(s, f)
    PROVE  /\ Len(f.terms) = Cardinality(Among(s, Len(s), TermSymbols))
           /\ Len(f.operators) >= Cardinality(Among(s, Len(s), OperatorSymbols))
           /\ Len(f.conjunctions) >= Cardinality(Among(s, Len(s), {"complex_operator"}))
  <1>1. PICK fs : Stack(s, fs) /\ f = fs[Len(s)] BY DEF Stacked
  <1>2. PICK N \in Nat : N = Len(s) BY DEF Stacked, SymbolLists
  <1>3. /\ fs \in [0..N -> Frames] /\ Empty(fs[0]) /\ f = fs[N]
        /\ \A n \in 1..N : Adds(fs[n - 1], s[n], fs[n])
    BY <1>1, <1>2 DEF Stack
  <1>4. \A n \in 0..N : /\ Len(fs[n].terms) \in Nat /\ Len(fs[n].operators) \in Nat
                        /\ Len(fs[n].conjunctions) \in Nat
    <2>1. \A x \in Frames : /\ Len(x.terms) \in Nat /\ Len(x.operators) \in Nat
                            /\ Len(x.conjunctions) \in Nat
      BY FrameFields DEF TermLists, OperatorLists, ConjunctionLists
    <2> QED BY <1>3, <2>1
  <1>5. ASSUME NEW m \in 1..N
        PROVE  /\ Len(fs[m].terms)
                    = Len(fs[m - 1].terms) + (IF s[m] \in TermSymbols THEN 1 ELSE 0)
               /\ Len(fs[m].operators)
                    = Len(fs[m - 1].operators) + (IF s[m] \in OperatorSymbols THEN 1 ELSE 0)
               /\ Len(fs[m].conjunctions) = Len(fs[m - 1].conjunctions)
                    + (IF s[m] \in {"complex_operator"} THEN 1 ELSE 0)
    <2>1. m \in 0..N /\ m - 1 \in 0..N BY <1>2
    <2>2. PICK x \in Frames, y \in Frames : x = fs[m - 1] /\ y = fs[m] BY <1>3, <2>1
    <2>3. Adds(x, s[m], y) BY <1>3, <2>2
    <2> QED BY <2>2, <2>3, LengthsAdd
  <1> DEFINE l == [n \in 0..N |-> Len(fs[n].terms)]
             o == [n \in 0..N |-> Len(fs[n].operators)]
             c == [n \in 0..N |-> Len(fs[n].conjunctions)]
  <1>6. l \in [0..N -> Nat] /\ o \in [0..N -> Nat] /\ c \in [0..N -> Nat] BY <1>4
  <1>7. ASSUME NEW m \in 1..N
        PROVE  /\ l[m] = l[m - 1] + (IF s[m] \in TermSymbols THEN 1 ELSE 0)
               /\ o[m] = o[m - 1] + (IF s[m] \in OperatorSymbols THEN 1 ELSE 0)
               /\ c[m] = c[m - 1] + (IF s[m] \in {"complex_operator"} THEN 1 ELSE 0)
    <2>1. m \in 0..N /\ m - 1 \in 0..N BY <1>2
    <2> QED BY <1>5, <2>1
  <1>8. 0 \in 0..N /\ N \in 0..N BY <1>2
  <1>9. /\ l[0] = 0 /\ l[N] = Len(f.terms) /\ o[N] = Len(f.operators)
        /\ c[N] = Len(f.conjunctions)
    BY <1>3, <1>8 DEF Empty
  <1>10. o[0] \in Nat /\ c[0] \in Nat BY <1>4, <1>8
  <1> HIDE DEF l, o, c
  <1>11. l[N] = l[0] + Cardinality(Among(s, N, TermSymbols)) BY <1>6, <1>7, CountedUpTo
  <1>12. o[N] = o[0] + Cardinality(Among(s, N, OperatorSymbols)) BY <1>6, <1>7, CountedUpTo
  <1>13. c[N] = c[0] + Cardinality(Among(s, N, {"complex_operator"}))
    BY <1>6, <1>7, CountedUpTo
  <1>14. /\ Cardinality(Among(s, N, TermSymbols)) \in Nat
         /\ Cardinality(Among(s, N, OperatorSymbols)) \in Nat
         /\ Cardinality(Among(s, N, {"complex_operator"})) \in Nat
    <2>1. IsFiniteSet(1..N) BY FS_Interval
    <2>2. ASSUME NEW K PROVE Cardinality(Among(s, N, K)) \in Nat
      <3>1. Among(s, N, K) \subseteq 1..N BY DEF Among
      <3>2. IsFiniteSet(Among(s, N, K)) BY <2>1, <3>1, FS_Subset
      <3> QED BY <3>2, FS_CardinalityType
    <2> QED BY <2>2
  <1> QED BY <1>2, <1>9, <1>10, <1>11, <1>12, <1>13, <1>14

-----------------------------------------------------------------------------
(* Reductions *)

\* What a frame has is on the stacks.
Holds(f) ==
    /\ f.terms = m_termStack /\ f.operators = m_operatorStack
    /\ f.conjunctions = m_conjunctionStack /\ f.orders = m_orderList
\* A reduction leaves the tokens as they are.
Onward(f) ==
    \E h : /\ Stacked(symbols', h) /\ Beside(symbols') /\ h.tokens = f.tokens
           /\ h.terms = m_termStack' /\ h.operators = m_operatorStack'
           /\ h.conjunctions = m_conjunctionStack' /\ h.orders = m_orderList'

LEMMA NoneIsNot ==
    /\ Tokens \subseteq AllTokens /\ None # "end"
    /\ None \notin AllTokens /\ None \notin AllSymbols /\ None \notin Tokens
  <1>1. None \notin AllTokens
    BY TokensAssumption DEF AllTokens, FilterTerms, Comparisons, Symbols
  <1>2. None \notin AllSymbols BY <1>1, TokensAssumption DEF AllSymbols, Symbols
  <1>3. Tokens \subseteq AllTokens
    BY ParserAssumption DEF Tokens, AllTokens, FilterTerms, Comparisons
  <1>4. None # "end" BY TokensAssumption DEF Symbols
  <1> QED BY <1>1, <1>2, <1>3, <1>4

\* The symbol on top is the last.
LEMMA TopIs ==
    ASSUME symbols \in SymbolLists, TopSymbol # None
    PROVE  /\ symbols # <<>> /\ Len(symbols) >= 1 /\ Len(symbols) \in Nat
           /\ TopSymbol = symbols[Len(symbols)] /\ TopSymbol \in AllSymbols
  <1>1. symbols # <<>> BY DEF TopSymbol
  <1>2. TopSymbol = symbols[Len(symbols)] BY <1>1 DEF TopSymbol, Last
  <1>3. PICK n \in Nat : n = Len(symbols) BY DEF SymbolLists
  <1>4. n # 0 BY <1>1, <1>3 DEF SymbolLists
  <1>5. symbols[n] \in AllSymbols BY <1>3, <1>4 DEF SymbolLists
  <1> QED BY <1>1, <1>2, <1>3, <1>4, <1>5

\* The last symbols are of the kinds that a rule has.
LEMMA EndsTwo ==
    ASSUME symbols \in SymbolLists, NEW a, NEW b, Ends(<<a, b>>)
    PROVE  /\ Len(symbols) >= 2 /\ Len(symbols) \in Nat
           /\ symbols[Len(symbols) - 1] \in a /\ symbols[Len(symbols)] \in b
  <1>1. PICK k : k = <<a, b>> OBVIOUS
  <1>2. Len(k) = 2 /\ DOMAIN k = 1..2 /\ k[1] = a /\ k[2] = b BY <1>1
  <1>3. PICK n \in Nat : n = Len(symbols) BY DEF SymbolLists
  <1>4. n >= 2 /\ \A i \in 1..2 : symbols[n - 2 + i] \in k[i] BY <1>1, <1>2, <1>3 DEF Ends
  <1>5. n - 2 + 1 = n - 1 /\ n - 2 + 2 = n BY <1>3
  <1>6. symbols[n - 2 + 1] \in a /\ symbols[n - 2 + 2] \in b BY <1>2, <1>4
  <1> QED BY <1>3, <1>4, <1>5, <1>6

LEMMA EndsThree ==
    ASSUME symbols \in SymbolLists, NEW a, NEW b, NEW c, Ends(<<a, b, c>>)
    PROVE  /\ Len(symbols) >= 3 /\ Len(symbols) \in Nat
           /\ symbols[Len(symbols) - 2] \in a /\ symbols[Len(symbols) - 1] \in b
           /\ symbols[Len(symbols)] \in c
  <1>1. PICK k : k = <<a, b, c>> OBVIOUS
  <1>2. Len(k) = 3 /\ DOMAIN k = 1..3 /\ k[1] = a /\ k[2] = b /\ k[3] = c BY <1>1
  <1>3. PICK n \in Nat : n = Len(symbols) BY DEF SymbolLists
  <1>4. n >= 3 /\ \A i \in 1..3 : symbols[n - 3 + i] \in k[i] BY <1>1, <1>2, <1>3 DEF Ends
  <1>5. n - 3 + 1 = n - 2 /\ n - 3 + 2 = n - 1 /\ n - 3 + 3 = n BY <1>3
  <1>6. symbols[n - 3 + 1] \in a /\ symbols[n - 3 + 2] \in b /\ symbols[n - 3 + 3] \in c
    BY <1>2, <1>4
  <1> QED BY <1>3, <1>4, <1>5, <1>6

LEMMA EndsFour ==
    ASSUME symbols \in SymbolLists, NEW a, NEW b, NEW c, NEW d, Ends(<<a, b, c, d>>)
    PROVE  /\ Len(symbols) >= 4 /\ Len(symbols) \in Nat
           /\ symbols[Len(symbols) - 3] \in a /\ symbols[Len(symbols) - 2] \in b
           /\ symbols[Len(symbols) - 1] \in c /\ symbols[Len(symbols)] \in d
  <1>1. PICK k : k = <<a, b, c, d>> OBVIOUS
  <1>2. Len(k) = 4 /\ DOMAIN k = 1..4 /\ k[1] = a /\ k[2] = b /\ k[3] = c /\ k[4] = d BY <1>1
  <1>3. PICK n \in Nat : n = Len(symbols) BY DEF SymbolLists
  <1>4. n >= 4 /\ \A i \in 1..4 : symbols[n - 4 + i] \in k[i] BY <1>1, <1>2, <1>3 DEF Ends
  <1>5. n - 4 + 1 = n - 3 /\ n - 4 + 2 = n - 2 /\ n - 4 + 3 = n - 1 /\ n - 4 + 4 = n BY <1>3
  <1>6. /\ symbols[n - 4 + 1] \in a /\ symbols[n - 4 + 2] \in b /\ symbols[n - 4 + 3] \in c
        /\ symbols[n - 4 + 4] \in d
    BY <1>2, <1>4
  <1> QED BY <1>3, <1>4, <1>5, <1>6

LEMMA SymIs ==
    ASSUME Len(symbols) \in Nat
    PROVE  /\ Sym(1, 2) = symbols[Len(symbols) - 1] /\ Sym(2, 2) = symbols[Len(symbols)]
           /\ Sym(0, 2) = symbols[Len(symbols) - 2]
           /\ Sym(1, 3) = symbols[Len(symbols) - 2] /\ Sym(3, 3) = symbols[Len(symbols)]
  <1>1. PICK n \in Nat : n = Len(symbols) OBVIOUS
  <1>2. /\ n - 2 + 1 = n - 1 /\ n - 2 + 2 = n /\ n - 2 + 0 = n - 2
        /\ n - 3 + 1 = n - 2 /\ n - 3 + 3 = n
    BY <1>1
  <1> QED BY <1>1, <1>2 DEF Sym

\* A symbol in the place of some
LEMMA SymbolsReplaced ==
    ASSUME NEW s \in SymbolLists, Beside(s), NEW n \in 0..Len(s), NEW x \in AllSymbols,
           NEW f \in Frames, Stacked(Below(s, n), f), NEW h \in Frames, Adds(f, x, h),
           x \notin ConjunctionOps \cup {"complex_operator", "/", "\\"}
    PROVE  Stacked(Put(Below(s, n), x), h) /\ Beside(Put(Below(s, n), x))
  <1>1. Stacked(Put(Below(s, n), x), h) BY StackedOn
  <1>2. PICK b \in SymbolLists : b = Below(s, n) BY BelowIs
  <1>3. Beside(b) BY <1>2, BesideBelow
  <1>4. Beside(Put(b, x)) BY <1>3, BesideOn
  <1> QED BY <1>1, <1>2, <1>4

\* The symbols that rules put on the stack
LEMMA GrammarSymbols ==
    /\ {"parenthesed_clause", "complex_clause", "bang_clause", "order_clause", "order_term"}
          \subseteq AllSymbols
    /\ OperatorSymbols \subseteq AllSymbols /\ "complex_operator" \in AllSymbols
    /\ AllTokens \subseteq AllSymbols
    /\ \A x \in {"parenthesed_clause", "complex_clause", "bang_clause", "order_clause", "order_term"}
               \cup OperatorSymbols :
          x \notin ConjunctionOps \cup {"complex_operator", "/", "\\"}
  BY DEF AllSymbols, OperatorSymbols, ConjunctionOps

LEMMA ReducesTo ==
    ASSUME NEW n, NEW x, Reduces(n, x)
    PROVE  symbols' = Put(Below(symbols, n), x)
  BY DEF Reduces, Put, Below

\* An operator token has become an operator.
LEMMA ReduceOperatorOnward ==
    ASSUME NEW f, Stacked(symbols, f), Holds(f), Beside(symbols), ReduceOperator
    PROVE  Onward(f)
  <1>1. symbols \in SymbolLists /\ f \in Frames BY StackedFrame
  <1>2. TopSymbol \in Comparisons BY DEF ReduceOperator, Comparisons
  <1>3. PICK t \in Comparisons : t = TopSymbol BY <1>2
  <1>4. t # None /\ t \notin ConjunctionOps
    BY TokensAssumption DEF Comparisons, NumberOps, MultiOps, StringOps, ConjunctionOps, Symbols
  <1>5. Len(symbols) >= 1 /\ Len(symbols) \in Nat /\ t = symbols[Len(symbols)]
    BY <1>1, <1>3, <1>4, TopIs
  <1>6. PICK e \in Frames : Stacked(Below(symbols, 1), e) /\ Adds(e, symbols[Len(symbols)], f)
    BY <1>5, LastOne
  <1>7. PICK x \in OperatorSymbols : Reduces(1, x)
    <2>1. PICK x : /\ x = (CASE t \in NumberOps -> "number_operator"
                              [] t \in MultiOps -> "multi_operator"
                              [] OTHER -> "string_operator")
                   /\ Reduces(1, x)
      BY <1>3 DEF ReduceOperator
    <2>2. x \in OperatorSymbols
      <3>1. CASE t \in NumberOps
        <4>1. t \notin MultiOps BY <3>1 DEF NumberOps, MultiOps
        <4> QED BY <2>1, <3>1, <4>1 DEF OperatorSymbols
      <3>2. CASE t \notin NumberOps BY <2>1, <3>2 DEF OperatorSymbols
      <3> QED BY <3>1, <3>2
    <2> QED BY <2>1, <2>2
  <1>8. PICK h \in Frames :
              /\ Adds(e, x, h) /\ h.tokens = f.tokens /\ h.terms = f.terms
              /\ h.operators = Append(f.operators, OperatorOf(t))
              /\ h.conjunctions = f.conjunctions /\ h.orders = f.orders
    BY <1>5, <1>6, OperatorOnTop
  <1>9. x \in AllSymbols /\ x \notin ConjunctionOps \cup {"complex_operator", "/", "\\"}
    BY GrammarSymbols
  <1>10. 1 \in 0..Len(symbols) BY <1>5
  <1>11. Stacked(symbols', h) /\ Beside(symbols')
    BY <1>1, <1>6, <1>7, <1>8, <1>9, <1>10, SymbolsReplaced, ReducesTo
  <1>12. /\ h.terms = m_termStack' /\ h.operators = m_operatorStack'
         /\ h.conjunctions = m_conjunctionStack' /\ h.orders = m_orderList'
    BY <1>3, <1>8 DEF Holds, ReduceOperator
  <1> QED BY <1>8, <1>11, <1>12 DEF Onward

\* An operator between two terms has become one.
LEMMA ReduceComplexOperatorOnward ==
    ASSUME NEW f, Stacked(symbols, f), Holds(f), Beside(symbols), ReduceComplexOperator
    PROVE  Onward(f)
  <1>1. symbols \in SymbolLists /\ f \in Frames BY StackedFrame
  <1>2. TopSymbol \in ConjunctionOps BY DEF ReduceComplexOperator
  <1>3. PICK t \in ConjunctionOps : t = TopSymbol BY <1>2
  <1>4. t # None BY TokensAssumption DEF ConjunctionOps, Symbols
  <1>5. Len(symbols) >= 1 /\ Len(symbols) \in Nat /\ t = symbols[Len(symbols)]
    BY <1>1, <1>3, <1>4, TopIs
  <1>6. PICK e \in Frames : Stacked(Below(symbols, 1), e) /\ Adds(e, symbols[Len(symbols)], f)
    BY <1>5, LastOne
  <1>7. Reduces(1, "complex_operator") BY DEF ReduceComplexOperator
  <1>8. PICK h \in Frames :
              /\ Adds(e, "complex_operator", h) /\ h.tokens = f.tokens /\ h.terms = f.terms
              /\ h.operators = f.operators
              /\ h.conjunctions = Append(f.conjunctions, ConjunctionOf(t))
              /\ h.orders = f.orders
    BY <1>5, <1>6, ConjunctionOnTop
  <1>9. PICK b \in SymbolLists : b = Below(symbols, 1) BY <1>1, <1>5, BelowIs
  <1>10. b # <<>> /\ b[Len(b)] = "parenthesed_clause" /\ Beside(b)
    <2>1. PICK n \in Nat : n = Len(symbols) BY <1>5
    <2>2. Fits(symbols, n) BY <1>5, <2>1 DEF Beside
    <2>3. n > 1 /\ symbols[n - 1] = "parenthesed_clause" BY <1>5, <2>1, <2>2 DEF Fits
    <2>4. 1 \in 0..Len(symbols) BY <2>1, <2>3
    <2>5. Len(b) = n - 1 /\ \A i \in 1..(n - 1) : b[i] = symbols[i]
      BY <1>1, <1>9, <2>1, <2>4, BelowIs
    <2>6. n - 1 \in 1..(n - 1) BY <2>1, <2>3
    <2>7. b[n - 1] = symbols[n - 1] BY <2>5, <2>6
    <2>8. Len(<<>>) = 0 /\ n - 1 # 0 BY <2>1, <2>3
    <2>9. Beside(b) BY <1>1, <1>9, <2>4, BesideBelow
    <2> QED BY <2>3, <2>5, <2>7, <2>8, <2>9
  <1>11. PICK x \in AllSymbols : x = "complex_operator" BY GrammarSymbols
  <1>12. Stacked(Put(b, x), h) BY <1>6, <1>8, <1>9, <1>11, StackedOn
  <1>13. Beside(Put(b, x)) BY <1>10, <1>11, BesideOn
  <1>14. symbols' = Put(b, x) BY <1>7, <1>9, <1>11, ReducesTo
  <1>15. /\ h.terms = m_termStack' /\ h.operators = m_operatorStack'
         /\ h.conjunctions = m_conjunctionStack' /\ h.orders = m_orderList'
    BY <1>3, <1>8 DEF Holds, ReduceComplexOperator
  <1> QED BY <1>8, <1>12, <1>13, <1>14, <1>15 DEF Onward

\* The forms of a clause
LEMMA FormsAre ==
    ASSUME symbols \in SymbolLists, \E form \in ClauseForms : Ends(form)
    PROVE  \E a, b \in FilterTerms : \E s \in OperatorSymbols :
              /\ Len(symbols) >= 3 /\ Len(symbols) \in Nat
              /\ symbols[Len(symbols) - 2] = a /\ symbols[Len(symbols) - 1] = s
              /\ symbols[Len(symbols)] = b
              /\ IF b \in Names THEN a \in Numbers \cup Texts
                 ELSE a \in Names /\ b \in Numbers \cup Texts
  <1>1. PICK x, y, z : /\ <<x, y, z>> \in ClauseForms /\ Ends(<<x, y, z>>)
    BY DEF ClauseForms
  <1>2. /\ Len(symbols) >= 3 /\ Len(symbols) \in Nat
        /\ symbols[Len(symbols) - 2] \in x /\ symbols[Len(symbols) - 1] \in y
        /\ symbols[Len(symbols)] \in z
    BY <1>1, EndsThree
  <1>3. \/ x = Names /\ z \in {Numbers, Texts}
        \/ x \in {Numbers, Texts} /\ z = Names
    BY <1>1 DEF ClauseForms
  <1>4. y \in {ForNumbers, ForStrings} BY <1>1 DEF ClauseForms
  <1>5. y \subseteq OperatorSymbols BY <1>4 DEF ForNumbers, ForStrings, OperatorSymbols
  <1>6. PICK a, s, b : /\ a = symbols[Len(symbols) - 2] /\ s = symbols[Len(symbols) - 1]
                       /\ b = symbols[Len(symbols)]
    OBVIOUS
  <1>7. a \in x /\ s \in y /\ b \in z BY <1>2, <1>6
  <1>8. IF b \in Names THEN a \in Numbers \cup Texts ELSE a \in Names /\ b \in Numbers \cup Texts
    BY <1>3, <1>7, TokensAssumption
  <1>9. a \in FilterTerms /\ b \in FilterTerms BY <1>3, <1>7 DEF FilterTerms
  <1>10. s \in OperatorSymbols BY <1>5, <1>7
  <1> QED BY <1>2, <1>6, <1>8, <1>9, <1>10

\* The clause is rejected, the program is aborted, or there is a filter more.
LEMMA ReduceClauseOnward ==
    ASSUME NEW f, Stacked(symbols, f), Holds(f), Beside(symbols), ReduceClause,
           result = "parsing"
    PROVE  \/ result' = "rejected" /\ UNCHANGED <<m_operatorStack, m_conjunctionStack>>
           \/ result' = "aborted"
           \/ result' = "parsing" /\ Onward(f)
  <1>1. symbols \in SymbolLists /\ f \in Frames BY StackedFrame
  <1>2. \E form \in ClauseForms : Ends(form) BY DEF ReduceClause
  <1>3. PICK a \in FilterTerms, b \in FilterTerms, s \in OperatorSymbols :
              /\ Len(symbols) >= 3 /\ Len(symbols) \in Nat
              /\ symbols[Len(symbols) - 2] = a /\ symbols[Len(symbols) - 1] = s
              /\ symbols[Len(symbols)] = b
              /\ IF b \in Names THEN a \in Numbers \cup Texts
                 ELSE a \in Names /\ b \in Numbers \cup Texts
    BY <1>1, <1>2, FormsAre
  <1>4. PICK e, f1, f2 \in Frames :
              /\ Stacked(Below(symbols, 3), e) /\ Adds(e, a, f1)
              /\ Adds(f1, s, f2) /\ Adds(f2, b, f)
    BY <1>3, LastThree
  <1>5. PICK o \in Comparisons :
              /\ Last(f.operators) = OperatorOf(o)
              /\ Filtered(e, f, Three(a, o, b))
    BY <1>1, <1>4, ClauseReduced
  <1>6. PICK op0 \in Comparisons : op0 = OperatorOf(o) BY OperatorTypes
  <1>7. Sym(1, 3) = a /\ Sym(3, 3) = b BY <1>3, SymIs
  <1>8. Top(m_operatorStack) = op0 BY <1>5, <1>6 DEF Holds, Top
  <1> DEFINE mirrored == b \in Names
             name == IF mirrored THEN b ELSE a
             value == IF mirrored THEN a ELSE b
             op == IF value \in Numbers /\ mirrored THEN Mirrored(op0) ELSE op0
  <1>9. \/ result' = "rejected" /\ UNCHANGED <<symbols, stacks>>
        \/ result' = "aborted"
        \/ /\ CheckIdentifier(name) /\ op # None
           /\ m_operatorStack' = Front(m_operatorStack) /\ UNCHANGED m_conjunctionStack
           /\ m_termStack' = Append(m_termStack, <<Filter(name, op, value)>>)
           /\ Reduces(3, "parenthesed_clause")
           /\ UNCHANGED result
    BY <1>7, <1>8 DEF ReduceClause
  <1>10. CASE result' = "rejected" /\ UNCHANGED <<symbols, stacks>>
    BY <1>10 DEF stacks
  <1>11. CASE /\ CheckIdentifier(name) /\ op # None
              /\ m_operatorStack' = Front(m_operatorStack) /\ UNCHANGED m_conjunctionStack
              /\ m_termStack' = Append(m_termStack, <<Filter(name, op, value)>>)
              /\ Reduces(3, "parenthesed_clause")
              /\ UNCHANGED result
    <2>1. name \in Names BY <1>3
    <2>2. name \in Known BY <1>11, <2>1 DEF CheckIdentifier, Known
    <2>3. value \in Numbers \cup Texts BY <1>3
    <2>4. op \in Comparisons BY <1>11, OperatorTypes
    <2>5. PICK x \in FilterNodes : x = Filter(name, op, value) /\ x.negated = FALSE
      BY <2>2, <2>3, <2>4, FilterIs
    <2>6. x = FilterOf(Three(a, o, b)) BY <1>6, <2>5, FilterOfThree
    <2>7. PICK h \in Frames :
                       /\ Adds(e, "parenthesed_clause", h) /\ Same(f, h)
                       /\ h.terms = Append(f.terms, <<x>>)
                       /\ h.operators = Front(f.operators)
      BY <1>5, <2>5, <2>6 DEF Filtered
    <2>8. 3 \in 0..Len(symbols) BY <1>3
    <2>9. PICK lhs \in AllSymbols :
              /\ lhs = "parenthesed_clause"
              /\ lhs \notin ConjunctionOps \cup {"complex_operator", "/", "\\"}
      BY GrammarSymbols
    <2>10. Adds(e, lhs, h) /\ symbols' = Put(Below(symbols, 3), lhs)
      BY <1>11, <2>7, <2>9, ReducesTo
    <2>11. Stacked(symbols', h) /\ Beside(symbols') BY <1>1, <1>4, <2>8, <2>9, <2>10, SymbolsReplaced
    <2>12. /\ h.terms = m_termStack' /\ h.operators = m_operatorStack'
           /\ h.conjunctions = m_conjunctionStack' /\ h.orders = m_orderList'
      BY <1>11, <2>5, <2>7 DEF Holds, Same, ReduceClause
    <2>13. h.tokens = f.tokens BY <2>7 DEF Same
    <2>14. Onward(f) BY <2>11, <2>12, <2>13 DEF Onward
    <2> QED BY <1>11, <2>14
  <1> HIDE DEF name, value, op
  <1> QED BY <1>9, <1>10, <1>11

\* Parentheses have become a scope.
LEMMA ReduceScopeOnward ==
    ASSUME NEW f, Stacked(symbols, f), Holds(f), Beside(symbols), ReduceScope
    PROVE  Onward(f)
  <1>1. symbols \in SymbolLists /\ f \in Frames BY StackedFrame
  <1>2. PICK lhs \in AllSymbols :
              /\ lhs = "parenthesed_clause"
              /\ lhs \notin ConjunctionOps \cup {"complex_operator", "/", "\\"}
    BY GrammarSymbols
  <1>3. CASE Ends(<<{"("}, {"complex_clause"}, {")"}>>)
    <2>1. /\ Len(symbols) >= 3 /\ Len(symbols) \in Nat
          /\ symbols[Len(symbols) - 2] = "(" /\ symbols[Len(symbols) - 1] = "complex_clause"
          /\ symbols[Len(symbols)] = ")"
      BY <1>1, <1>3, EndsThree
    <2>2. PICK e, f1, f2 \in Frames :
              /\ Stacked(Below(symbols, 3), e) /\ Adds(e, "(", f1)
              /\ Adds(f1, "complex_clause", f2) /\ Adds(f2, ")", f)
      BY <2>1, LastThree
    <2>3. PICK t, term : Means(t, term) /\ TermAdded(f1, f2, t, term) BY <2>2, ClauseMeans
    <2>4. /\ Last(f.terms) = term
          /\ \E h \in Frames :
                 /\ Adds(e, "parenthesed_clause", h) /\ Same(f, h)
                 /\ h.terms = Append(Front(f.terms), <<ScopeNode>> \o term)
                 /\ h.operators = f.operators
      BY <1>1, <2>2, <2>3, ScopeReduced
    <2>5. PICK h \in Frames :
                 /\ Adds(e, "parenthesed_clause", h) /\ Same(f, h)
                 /\ h.terms = Append(Front(f.terms), <<ScopeNode>> \o term)
                 /\ h.operators = f.operators
      BY <2>4
    <2>6. Sym(1, 3) = "(" BY <2>1, SymIs
    <2>7. /\ m_termStack' = Append(Front(m_termStack), HandleScope(Top(m_termStack), FALSE))
          /\ Reduces(3, "parenthesed_clause")
      BY <2>6 DEF ReduceScope
    <2>8. 3 \in 0..Len(symbols) BY <2>1
    <2>9. Adds(e, lhs, h) /\ symbols' = Put(Below(symbols, 3), lhs)
      BY <1>2, <2>5, <2>7, ReducesTo
    <2>10. Stacked(symbols', h) /\ Beside(symbols') BY <1>1, <1>2, <2>2, <2>8, <2>9, SymbolsReplaced
    <2>11. h.terms = m_termStack' BY <2>4, <2>5, <2>7 DEF Holds, HandleScope, Top
    <2>12. /\ h.operators = m_operatorStack' /\ h.tokens = f.tokens
           /\ h.conjunctions = m_conjunctionStack' /\ h.orders = m_orderList'
      BY <2>5 DEF Holds, Same, ReduceScope
    <2> QED BY <2>10, <2>11, <2>12 DEF Onward
  <1>4. CASE Ends(<<{"("}, {"!"}, {"complex_clause"}, {")"}>>)
    <2>1. /\ Len(symbols) >= 4 /\ Len(symbols) \in Nat
          /\ symbols[Len(symbols) - 3] = "(" /\ symbols[Len(symbols) - 2] = "!"
          /\ symbols[Len(symbols) - 1] = "complex_clause"
          /\ symbols[Len(symbols)] = ")"
      BY <1>1, <1>4, EndsFour
    <2>2. PICK e, f1, f2, f3 \in Frames :
              /\ Stacked(Below(symbols, 4), e) /\ Adds(e, "(", f1) /\ Adds(f1, "!", f2)
              /\ Adds(f2, "complex_clause", f3) /\ Adds(f3, ")", f)
      BY <2>1, LastFour
    <2>3. PICK t, old : /\ Means(Then(<<"!">>, t), Negated(old))
                        /\ TermAdded(f1, f3, Then(<<"!">>, t), old)
      BY <2>2, BangOnTop
    <2>3a. PICK u, term : u = Then(<<"!">>, t) /\ term = Negated(old) OBVIOUS
    <2>3b. Means(u, term) /\ TermAdded(f1, f3, u, old) BY <2>3, <2>3a
    <2>4. /\ Last(f.terms) = old
          /\ \E h \in Frames :
                 /\ Adds(e, "parenthesed_clause", h) /\ Same(f, h)
                 /\ h.terms = Append(Front(f.terms), <<ScopeNode>> \o term)
                 /\ h.operators = f.operators
      BY <1>1, <2>2, <2>3b, ScopeReduced
    <2>5. PICK h \in Frames :
                 /\ Adds(e, "parenthesed_clause", h) /\ Same(f, h)
                 /\ h.terms = Append(Front(f.terms), <<ScopeNode>> \o term)
                 /\ h.operators = f.operators
      BY <2>4
    <2>6. Sym(1, 3) = "!" BY <2>1, SymIs
    <2>7. /\ m_termStack' = Append(Front(m_termStack), HandleScope(Top(m_termStack), TRUE))
          /\ Reduces(4, "parenthesed_clause")
      BY <2>6 DEF ReduceScope
    <2>8. 4 \in 0..Len(symbols) BY <2>1
    <2>9. Adds(e, lhs, h) /\ symbols' = Put(Below(symbols, 4), lhs)
      BY <1>2, <2>5, <2>7, ReducesTo
    <2>10. Stacked(symbols', h) /\ Beside(symbols') BY <1>1, <1>2, <2>2, <2>8, <2>9, SymbolsReplaced
    <2>11. h.terms = m_termStack' BY <2>3a, <2>4, <2>5, <2>7 DEF Holds, HandleScope, Top
    <2>12. /\ h.operators = m_operatorStack' /\ h.tokens = f.tokens
           /\ h.conjunctions = m_conjunctionStack' /\ h.orders = m_orderList'
      BY <2>5 DEF Holds, Same, ReduceScope
    <2> QED BY <2>10, <2>11, <2>12 DEF Onward
  <1> QED BY <1>3, <1>4 DEF ReduceScope

\* A parenthesed_clause has become a complex_clause.
LEMMA ReduceParenthesedOnward ==
    ASSUME NEW f, Stacked(symbols, f), Holds(f), Beside(symbols), ReduceParenthesed
    PROVE  Onward(f)
  <1>1. symbols \in SymbolLists /\ f \in Frames BY StackedFrame
  <1>2. TopSymbol = "parenthesed_clause" BY DEF ReduceParenthesed
  <1>3. TopSymbol # None BY <1>2, TokensAssumption DEF Symbols
  <1>4. Len(symbols) >= 1 /\ Len(symbols) \in Nat /\ symbols[Len(symbols)] = "parenthesed_clause"
    BY <1>1, <1>2, <1>3, TopIs
  <1>5. PICK e \in Frames : Stacked(Below(symbols, 1), e) /\ Adds(e, "parenthesed_clause", f)
    BY <1>4, LastOne
  <1>6. Adds(e, "complex_clause", f) BY <1>5, ParenthesedOnTop
  <1>7. PICK lhs \in AllSymbols :
              /\ lhs = "complex_clause"
              /\ lhs \notin ConjunctionOps \cup {"complex_operator", "/", "\\"}
    BY GrammarSymbols
  <1>8. 1 \in 0..Len(symbols) BY <1>4
  <1>9. Reduces(1, "complex_clause") BY DEF ReduceParenthesed
  <1>10. Adds(e, lhs, f) /\ symbols' = Put(Below(symbols, 1), lhs)
    BY <1>6, <1>7, <1>9, ReducesTo
  <1>11. Stacked(symbols', f) /\ Beside(symbols') BY <1>1, <1>5, <1>7, <1>8, <1>10, SymbolsReplaced
  <1>12. /\ f.terms = m_termStack' /\ f.operators = m_operatorStack'
         /\ f.conjunctions = m_conjunctionStack' /\ f.orders = m_orderList'
    BY DEF Holds, ReduceParenthesed, stacks
  <1> QED BY <1>11, <1>12 DEF Onward

\* The two terms on top of the others
LEMMA TwoTerms ==
    ASSUME NEW l \in TermLists, NEW x \in NodeLists, NEW y \in NodeLists, NEW m,
           m = Append(Append(l, x), y)
    PROVE  /\ SubSeq(m, 1, Len(m) - 2) = l /\ m[Len(m) - 1] = x /\ m[Len(m)] = y
  <1>1. PICK k \in TermLists : k = Append(l, x) BY ListTypes
  <1>2. PICK r \in TermLists : r = Append(k, y) BY ListTypes
  <1>3. PICK n \in Nat : n = Len(l) BY DEF TermLists
  <1>4. Len(k) = n + 1 /\ k[n + 1] = x /\ \A i \in 1..n : k[i] = l[i]
    BY <1>1, <1>3 DEF TermLists
  <1>5. Len(r) = n + 2 /\ r[n + 2] = y /\ \A i \in 1..(n + 1) : r[i] = k[i]
    BY <1>2, <1>4 DEF TermLists
  <1>6. Len(r) - 2 = n /\ Len(r) - 1 = n + 1 /\ n + 1 \in 1..(n + 1) BY <1>3, <1>5
  <1>7. r[n + 1] = x BY <1>4, <1>5, <1>6
  <1>8. PICK s \in TermLists : s = SubSeq(r, 1, n)
    <2>1. SubSeq(r, 1, n) \in TermLists BY <1>3, <1>5 DEF TermLists
    <2> QED BY <2>1
  <1>9. Len(s) = n /\ \A i \in 1..n : s[i] = r[i] BY <1>3, <1>5, <1>8 DEF TermLists
  <1>10. \A i \in 1..n : s[i] = l[i]
    <2>1. \A i \in 1..n : i \in 1..(n + 1) BY <1>3
    <2> QED BY <1>4, <1>5, <1>9, <2>1
  <1>11. s = l
    <2>1. s \in Seq(NodeLists) /\ l \in Seq(NodeLists) BY DEF TermLists
    <2>2. Len(s) = Len(l) /\ \A i \in 1..Len(s) : s[i] = l[i] BY <1>3, <1>9, <1>10
    <2> QED BY <2>1, <2>2, SeqEqual
  <1> QED BY <1>1, <1>2, <1>5, <1>6, <1>7, <1>8, <1>11

\* What handleConjunction() makes of the terms on top
Handled(l, c, bang) ==
    Append(SubSeq(l, 1, Len(l) - 2), HandleConjunction(l[Len(l) - 1], l[Len(l)], c, bang))

NegatedIf(bang, term) == IF bang THEN Negated(term) ELSE term
With(l, left, old) == Append(Append(l, left), old)

LEMMA ConjunctionHandled ==
    ASSUME NEW l \in TermLists, NEW left \in NodeLists, Simple(left), NEW old \in NodeLists,
           NEW c, NEW bang
    PROVE  Handled(With(l, left, old), c, bang) = Append(l, Both(left, NegatedIf(bang, old), c))
  <1>1. PICK m : m = With(l, left, old) OBVIOUS
  <1>2. m = Append(Append(l, left), old) BY <1>1 DEF With
  <1>3. SubSeq(m, 1, Len(m) - 2) = l /\ m[Len(m) - 1] = left /\ m[Len(m)] = old
    BY <1>2, TwoTerms
  <1>4. HandleConjunction(left, old, c, bang) = Both(left, NegatedIf(bang, old), c)
    BY HandleConjunctionIsBoth DEF NegatedIf
  <1> QED BY <1>1, <1>3, <1>4 DEF Handled

\* Two terms have become a conjunction, or more of one.
LEMMA ReduceConjunctionOnward ==
    ASSUME NEW f, Stacked(symbols, f), Holds(f), Beside(symbols), ReduceConjunction
    PROVE  Onward(f)
  <1>1. symbols \in SymbolLists /\ f \in Frames BY StackedFrame
  <1>2. PICK lhs \in AllSymbols :
              /\ lhs = "complex_clause"
              /\ lhs \notin ConjunctionOps \cup {"complex_operator", "/", "\\"}
    BY GrammarSymbols
  <1>3. CASE Ends(<<{"complex_operator"}, {"complex_clause"}>>)
    <2>1. /\ Len(symbols) >= 2 /\ Len(symbols) \in Nat
          /\ symbols[Len(symbols) - 1] = "complex_operator"
          /\ symbols[Len(symbols)] = "complex_clause"
      BY <1>1, <1>3, EndsTwo
    <2>2. Len(symbols) >= 3 /\ symbols[Len(symbols) - 2] = "parenthesed_clause"
      <3>1. PICK n \in Nat : n + 1 = Len(symbols)
        <4>1. Len(symbols) - 1 \in Nat BY <2>1
        <4> QED BY <2>1, <4>1
      <3>2. n \in 1..Len(symbols) /\ Len(symbols) - 1 = n BY <2>1, <3>1
      <3>3. Fits(symbols, n) BY <3>2 DEF Beside
      <3>4. n > 1 /\ symbols[n - 1] = "parenthesed_clause" BY <2>1, <3>2, <3>3 DEF Fits
      <3>5. n - 1 = Len(symbols) - 2 BY <3>1
      <3> QED BY <3>1, <3>4, <3>5
    <2>3. PICK e, f1, f2 \in Frames :
              /\ Stacked(Below(symbols, 3), e) /\ Adds(e, "parenthesed_clause", f1)
              /\ Adds(f1, "complex_operator", f2) /\ Adds(f2, "complex_clause", f)
      BY <2>1, <2>2, LastThree
    <2>4. PICK t, term : Means(t, term) /\ TermAdded(f2, f, t, term) BY <2>3, ClauseMeans
    <2>5. PICK left \in NodeLists :
              /\ Simple(left) /\ term \in NodeLists /\ f.terms = Append(Append(e.terms, left), term)
              /\ \E h \in Frames :
                    /\ Adds(e, "complex_clause", h) /\ h.tokens = f.tokens
                    /\ h.terms = Append(e.terms, Both(left, term, Last(f.conjunctions)))
                    /\ h.operators = f.operators /\ h.conjunctions = Front(f.conjunctions)
                    /\ h.orders = f.orders
      BY <1>1, <2>3, <2>4, ConjunctionReduced
    <2>6. PICK h \in Frames :
                    /\ Adds(e, "complex_clause", h) /\ h.tokens = f.tokens
                    /\ h.terms = Append(e.terms, Both(left, term, Last(f.conjunctions)))
                    /\ h.operators = f.operators /\ h.conjunctions = Front(f.conjunctions)
                    /\ h.orders = f.orders
      BY <2>5
    <2>7. Sym(1, 2) # "!" BY <2>1, SymIs
    <2>8. /\ m_termStack' = Handled(m_termStack, Top(m_conjunctionStack), FALSE)
          /\ Reduces(3, "complex_clause")
      BY <2>7 DEF ReduceConjunction, Handled
    <2>9. 3 \in 0..Len(symbols) BY <2>1, <2>2
    <2>10. Adds(e, lhs, h) /\ symbols' = Put(Below(symbols, 3), lhs)
      BY <1>2, <2>6, <2>8, ReducesTo
    <2>11. Stacked(symbols', h) /\ Beside(symbols') BY <1>1, <1>2, <2>3, <2>9, <2>10, SymbolsReplaced
    <2>12. Handled(f.terms, Last(f.conjunctions), FALSE)
             = Append(e.terms, Both(left, term, Last(f.conjunctions)))
      <3>1. PICK c, bang : c = Last(f.conjunctions) /\ bang = FALSE OBVIOUS
      <3>1a. Simple(left) /\ term \in NodeLists /\ f.terms = With(e.terms, left, term)
        BY <2>5 DEF With
      <3>1b. PICK l \in TermLists : l = e.terms BY FrameFields
      <3>2. Handled(With(l, left, term), c, bang)
             = Append(l, Both(left, NegatedIf(bang, term), c))
        BY <3>1a, ConjunctionHandled
      <3> QED BY <3>1, <3>1a, <3>1b, <3>2 DEF NegatedIf
    <2>13. h.terms = m_termStack' BY <2>6, <2>8, <2>12 DEF Holds, Top
    <2>14. /\ h.operators = m_operatorStack' /\ h.tokens = f.tokens
           /\ h.conjunctions = m_conjunctionStack' /\ h.orders = m_orderList'
      BY <2>6 DEF Holds, ReduceConjunction, PopConjunction
    <2> QED BY <2>11, <2>13, <2>14 DEF Onward
  <1>4. CASE Ends(<<{"complex_operator"}, {"!"}, {"complex_clause"}>>)
    <2>1. /\ Len(symbols) >= 3 /\ Len(symbols) \in Nat
          /\ symbols[Len(symbols) - 2] = "complex_operator"
          /\ symbols[Len(symbols) - 1] = "!"
          /\ symbols[Len(symbols)] = "complex_clause"
      BY <1>1, <1>4, EndsThree
    <2>2. Len(symbols) >= 4 /\ symbols[Len(symbols) - 3] = "parenthesed_clause"
      <3>1. PICK n \in Nat : n + 2 = Len(symbols)
        <4>1. Len(symbols) - 2 \in Nat BY <2>1
        <4> QED BY <2>1, <4>1
      <3>2. n \in 1..Len(symbols) /\ Len(symbols) - 2 = n BY <2>1, <3>1
      <3>3. Fits(symbols, n) BY <3>2 DEF Beside
      <3>4. n > 1 /\ symbols[n - 1] = "parenthesed_clause" BY <2>1, <3>2, <3>3 DEF Fits
      <3>5. n - 1 = Len(symbols) - 3 BY <3>1
      <3> QED BY <3>1, <3>4, <3>5
    <2>3. PICK e, f1, f2, f3 \in Frames :
              /\ Stacked(Below(symbols, 4), e) /\ Adds(e, "parenthesed_clause", f1)
              /\ Adds(f1, "complex_operator", f2) /\ Adds(f2, "!", f3)
              /\ Adds(f3, "complex_clause", f)
      BY <2>1, <2>2, LastFour
    <2>4. PICK t, old : /\ Means(Then(<<"!">>, t), Negated(old))
                        /\ TermAdded(f2, f, Then(<<"!">>, t), old)
      BY <2>3, BangOnTop
    <2>4a. PICK u, term : u = Then(<<"!">>, t) /\ term = Negated(old) OBVIOUS
    <2>4b. Means(u, term) /\ TermAdded(f2, f, u, old) BY <2>4, <2>4a
    <2>5. PICK left \in NodeLists :
              /\ Simple(left) /\ old \in NodeLists /\ f.terms = Append(Append(e.terms, left), old)
              /\ \E h \in Frames :
                    /\ Adds(e, "complex_clause", h) /\ h.tokens = f.tokens
                    /\ h.terms = Append(e.terms, Both(left, term, Last(f.conjunctions)))
                    /\ h.operators = f.operators /\ h.conjunctions = Front(f.conjunctions)
                    /\ h.orders = f.orders
      BY <1>1, <2>3, <2>4b, ConjunctionReduced
    <2>6. PICK h \in Frames :
                    /\ Adds(e, "complex_clause", h) /\ h.tokens = f.tokens
                    /\ h.terms = Append(e.terms, Both(left, term, Last(f.conjunctions)))
                    /\ h.operators = f.operators /\ h.conjunctions = Front(f.conjunctions)
                    /\ h.orders = f.orders
      BY <2>5
    <2>7. Sym(1, 2) = "!" BY <2>1, SymIs
    <2>8. /\ m_termStack' = Handled(m_termStack, Top(m_conjunctionStack), TRUE)
          /\ Reduces(4, "complex_clause")
      BY <2>7 DEF ReduceConjunction, Handled
    <2>9. 4 \in 0..Len(symbols) BY <2>1, <2>2
    <2>10. Adds(e, lhs, h) /\ symbols' = Put(Below(symbols, 4), lhs)
      BY <1>2, <2>6, <2>8, ReducesTo
    <2>11. Stacked(symbols', h) /\ Beside(symbols') BY <1>1, <1>2, <2>3, <2>9, <2>10, SymbolsReplaced
    <2>12. Handled(f.terms, Last(f.conjunctions), TRUE)
             = Append(e.terms, Both(left, term, Last(f.conjunctions)))
      <3>1. PICK c, bang : c = Last(f.conjunctions) /\ bang = TRUE OBVIOUS
      <3>1a. Simple(left) /\ old \in NodeLists /\ f.terms = With(e.terms, left, old)
        BY <2>5 DEF With
      <3>1b. PICK l \in TermLists : l = e.terms BY FrameFields
      <3>2. Handled(With(l, left, old), c, bang)
             = Append(l, Both(left, NegatedIf(bang, old), c))
        BY <3>1a, ConjunctionHandled
      <3> QED BY <2>4a, <3>1, <3>1a, <3>1b, <3>2 DEF NegatedIf
    <2>13. h.terms = m_termStack' BY <2>6, <2>8, <2>12 DEF Holds, Top
    <2>14. /\ h.operators = m_operatorStack' /\ h.tokens = f.tokens
           /\ h.conjunctions = m_conjunctionStack' /\ h.orders = m_orderList'
      BY <2>6 DEF Holds, ReduceConjunction, PopConjunction
    <2> QED BY <2>11, <2>13, <2>14 DEF Onward
  <1> QED BY <1>3, <1>4 DEF ReduceConjunction

LEMMA PutFirst ==
    ASSUME NEW x \in AllSymbols
    PROVE  Put(<<>>, x) = <<x>>
  <1>1. PICK k \in Seq(AllSymbols) : k = <<>>
    <2>1. <<>> \in Seq(AllSymbols) OBVIOUS
    <2> QED BY <2>1
  <1>2. PICK r \in Seq(AllSymbols) : r = Append(k, x)
    <2>1. Append(k, x) \in Seq(AllSymbols) OBVIOUS
    <2> QED BY <2>1
  <1>3. Len(r) = 1 /\ r[1] = x BY <1>1, <1>2
  <1>4. r = <<x>> BY <1>3
  <1> QED BY <1>1, <1>2, <1>4 DEF Put

\* The whole of the terms has become a bang_clause.
LEMMA ReduceBangOnward ==
    ASSUME NEW f, Stacked(symbols, f), Holds(f), Beside(symbols), ReduceBang
    PROVE  Onward(f)
  <1>1. symbols \in SymbolLists /\ f \in Frames BY StackedFrame
  <1>2. PICK lhs \in AllSymbols :
              /\ lhs = "bang_clause"
              /\ lhs \notin ConjunctionOps \cup {"complex_operator", "/", "\\"}
    BY GrammarSymbols
  <1>3. symbols' = <<lhs>> BY <1>2 DEF ReduceBang
  <1>4. CASE symbols = <<"complex_clause">>
    <2>1. Len(symbols) = 1 /\ symbols[1] = "complex_clause" BY <1>4
    <2>2. PICK e \in Frames : Stacked(Below(symbols, 1), e) /\ Adds(e, "complex_clause", f)
      BY <2>1, LastOne
    <2>3. Adds(e, lhs, f) BY <1>2, <2>2, ClauseOnTop
    <2>4. 1 \in 0..Len(symbols) BY <2>1
    <2>5. Put(Below(symbols, 1), lhs) = <<lhs>>
      <3>1. Below(symbols, 1) = <<>> BY <1>4 DEF Below
      <3> QED BY <3>1, PutFirst
    <2>6. Stacked(symbols', f) /\ Beside(symbols')
      BY <1>1, <1>2, <1>3, <2>2, <2>3, <2>4, <2>5, SymbolsReplaced
    <2>7. m_termStack' = m_termStack BY <2>1 DEF ReduceBang
    <2>8. /\ f.terms = m_termStack' /\ f.operators = m_operatorStack'
          /\ f.conjunctions = m_conjunctionStack' /\ f.orders = m_orderList'
      BY <2>7 DEF Holds, ReduceBang
    <2> QED BY <2>6, <2>8 DEF Onward
  <1>5. CASE symbols = <<"!", "complex_clause">>
    <2>1. Len(symbols) = 2 /\ symbols[1] = "!" /\ symbols[2] = "complex_clause" BY <1>5
    <2>2. PICK e, f1 \in Frames : /\ Stacked(Below(symbols, 2), e) /\ Adds(e, "!", f1)
                                  /\ Adds(f1, "complex_clause", f)
      BY <2>1, LastTwo
    <2>3. PICK h \in Frames :
              /\ Adds(e, "bang_clause", h) /\ Same(f, h)
              /\ h.terms = Append(Front(f.terms), Negated(Last(f.terms)))
              /\ h.operators = f.operators
      BY <1>1, <2>2, BangReduced
    <2>4. 2 \in 0..Len(symbols) BY <2>1
    <2>5. Put(Below(symbols, 2), lhs) = <<lhs>>
      <3>1. Below(symbols, 2) = <<>> BY <1>5 DEF Below
      <3> QED BY <3>1, PutFirst
    <2>6. Stacked(symbols', h) /\ Beside(symbols')
      BY <1>1, <1>2, <1>3, <2>2, <2>3, <2>4, <2>5, SymbolsReplaced
    <2>7. m_termStack' = Append(Front(m_termStack), Negated(Last(m_termStack)))
      BY <2>1 DEF ReduceBang, Top
    <2>8. /\ h.terms = m_termStack' /\ h.operators = m_operatorStack' /\ h.tokens = f.tokens
          /\ h.conjunctions = m_conjunctionStack' /\ h.orders = m_orderList'
      BY <2>3, <2>7 DEF Holds, Same, ReduceBang
    <2> QED BY <2>6, <2>8 DEF Onward
  <1> QED BY <1>4, <1>5 DEF ReduceBang

\* One more identifier to sort by
LEMMA ReduceOrderOnward ==
    ASSUME NEW f, Stacked(symbols, f), Holds(f), Beside(symbols), ReduceOrder
    PROVE  Onward(f)
  <1>1. symbols \in SymbolLists /\ f \in Frames BY StackedFrame
  <1>2. PICK lhs \in AllSymbols :
              /\ lhs = "order_clause"
              /\ lhs \notin ConjunctionOps \cup {"complex_operator", "/", "\\"}
    BY GrammarSymbols
  <1>3. Ends(<<{"/", "\\"}, Names>>) BY DEF ReduceOrder
  <1>4. /\ Len(symbols) >= 2 /\ Len(symbols) \in Nat
        /\ symbols[Len(symbols) - 1] \in {"/", "\\"} /\ symbols[Len(symbols)] \in Names
    BY <1>1, <1>3, EndsTwo
  <1>5. PICK d \in Directions, name \in Names :
              d = symbols[Len(symbols) - 1] /\ name = symbols[Len(symbols)]
    BY <1>4 DEF Directions
  <1>6. Len(symbols) >= 3 /\ symbols[Len(symbols) - 2] \in {"[", "order_clause"}
    <2>1. PICK n \in Nat : n + 1 = Len(symbols)
      <3>1. Len(symbols) - 1 \in Nat BY <1>4
      <3> QED BY <1>4, <3>1
    <2>2. n \in 1..Len(symbols) /\ Len(symbols) - 1 = n BY <1>4, <2>1
    <2>3. Fits(symbols, n) BY <2>2 DEF Beside
    <2>4. n > 1 /\ symbols[n - 1] \in {"[", "order_clause"} BY <1>4, <2>2, <2>3 DEF Fits
    <2>5. n - 1 = Len(symbols) - 2 BY <2>1
    <2> QED BY <2>1, <2>4, <2>5
  <1>7. /\ Sym(1, 2) = d /\ Sym(2, 2) = name /\ Sym(0, 2) = symbols[Len(symbols) - 2]
    BY <1>4, <1>5, SymIs
  <1>8. m_orderList' = Append(m_orderList, OrderOf(d, name))
    BY <1>7 DEF ReduceOrder, OrderOf
  <1>9. PICK h : /\ Sorted(f, h, Append(f.orders, OrderOf(d, name)))
                 /\ Stacked(symbols', h) /\ Beside(symbols')
    <2>1. CASE symbols[Len(symbols) - 2] = "order_clause"
      <3>1. PICK e, f1, f2 \in Frames :
                /\ Stacked(Below(symbols, 3), e) /\ Adds(e, "order_clause", f1)
                /\ Adds(f1, d, f2) /\ Adds(f2, name, f)
        BY <1>4, <1>5, <1>6, <2>1, LastThree
      <3>2. PICK h \in Frames : /\ Adds(e, "order_clause", h)
                                /\ Sorted(f, h, Append(f.orders, OrderOf(d, name)))
        BY <1>1, <3>1, NextOrder
      <3>3. Reduces(3, "order_clause") BY <1>7, <2>1 DEF ReduceOrder
      <3>4. 3 \in 0..Len(symbols) BY <1>4, <1>6
      <3>5. Adds(e, lhs, h) /\ symbols' = Put(Below(symbols, 3), lhs)
        BY <1>2, <3>2, <3>3, ReducesTo
      <3>6. Stacked(symbols', h) /\ Beside(symbols') BY <1>1, <1>2, <3>1, <3>4, <3>5, SymbolsReplaced
      <3> QED BY <3>2, <3>6
    <2>2. CASE symbols[Len(symbols) - 2] # "order_clause"
      <3>1. PICK e, f1 \in Frames :
                Stacked(Below(symbols, 2), e) /\ Adds(e, d, f1) /\ Adds(f1, name, f)
        BY <1>4, <1>5, LastTwo
      <3>2. PICK h \in Frames : /\ Adds(e, "order_clause", h)
                                /\ Sorted(f, h, Append(f.orders, OrderOf(d, name)))
        BY <1>1, <3>1, FirstOrder
      <3>3. Reduces(2, "order_clause") BY <1>7, <2>2 DEF ReduceOrder
      <3>4. 2 \in 0..Len(symbols) BY <1>4
      <3>5. Adds(e, lhs, h) /\ symbols' = Put(Below(symbols, 2), lhs)
        BY <1>2, <3>2, <3>3, ReducesTo
      <3>6. Stacked(symbols', h) /\ Beside(symbols') BY <1>1, <1>2, <3>1, <3>4, <3>5, SymbolsReplaced
      <3> QED BY <3>2, <3>6
    <2> QED BY <2>1, <2>2
  <1>10. /\ h.terms = m_termStack' /\ h.operators = m_operatorStack' /\ h.tokens = f.tokens
         /\ h.conjunctions = m_conjunctionStack' /\ h.orders = m_orderList'
    BY <1>8, <1>9 DEF Holds, Sorted, ReduceOrder, stacks
  <1> QED BY <1>9, <1>10 DEF Onward

\* The order has been closed.
LEMMA ReduceOrderTermOnward ==
    ASSUME NEW f, Stacked(symbols, f), Holds(f), Beside(symbols), ReduceOrderTerm
    PROVE  Onward(f)
  <1>1. symbols \in SymbolLists /\ f \in Frames BY StackedFrame
  <1>2. PICK lhs \in AllSymbols :
              /\ lhs = "order_term"
              /\ lhs \notin ConjunctionOps \cup {"complex_operator", "/", "\\"}
    BY GrammarSymbols
  <1>3. Ends(<<{"["}, {"order_clause"}, {"]"}>>) BY DEF ReduceOrderTerm
  <1>4. /\ Len(symbols) >= 3 /\ Len(symbols) \in Nat
        /\ symbols[Len(symbols) - 2] = "[" /\ symbols[Len(symbols) - 1] = "order_clause"
        /\ symbols[Len(symbols)] = "]"
    BY <1>1, <1>3, EndsThree
  <1>5. PICK e, f1, f2 \in Frames :
            /\ Stacked(Below(symbols, 3), e) /\ Adds(e, "[", f1)
            /\ Adds(f1, "order_clause", f2) /\ Adds(f2, "]", f)
    BY <1>4, LastThree
  <1>6. PICK h \in Frames : Adds(e, "order_term", h) /\ Sorted(f, h, f.orders)
    BY <1>1, <1>5, OrderTermReduced
  <1>7. Reduces(3, "order_term") BY DEF ReduceOrderTerm
  <1>8. 3 \in 0..Len(symbols) BY <1>4
  <1>9. Adds(e, lhs, h) /\ symbols' = Put(Below(symbols, 3), lhs)
    BY <1>2, <1>6, <1>7, ReducesTo
  <1>10. Stacked(symbols', h) /\ Beside(symbols') BY <1>1, <1>2, <1>5, <1>8, <1>9, SymbolsReplaced
  <1>11. /\ h.terms = m_termStack' /\ h.operators = m_operatorStack' /\ h.tokens = f.tokens
         /\ h.conjunctions = m_conjunctionStack' /\ h.orders = m_orderList'
    BY <1>6 DEF Holds, Sorted, ReduceOrderTerm, stacks
  <1> QED BY <1>10, <1>11 DEF Onward

-----------------------------------------------------------------------------
(* The parts of a query *)

Brackets(r) == {i \in 1..Len(r) : r[i] = "["}

\* The first "[" of what was read
LEMMA FilterPartIs ==
    FilterPart = IF Brackets(read) # {} THEN Min(Brackets(read)) ELSE 0
  BY DEF FilterPart, SelectInSeq, Brackets

\* The parts of a query are those of what was read.
LEMMA PartsStay ==
    ASSUME read' = read
    PROVE  FilterTokens' = FilterTokens /\ OrderTokens' = OrderTokens
  <1>1. FilterPart' = FilterPart BY DEF FilterPart, SelectInSeq
  <1> QED BY <1>1 DEF FilterTokens, OrderTokens

LEMMA LeastIs ==
    ASSUME NEW S \in SUBSET Nat, NEW m \in S, \A y \in S : m <= y
    PROVE  Min(S) = m
  <1>1. \E x \in S : \A y \in S : x =< y OBVIOUS
  <1>2. Min(S) \in S /\ \A y \in S : Min(S) =< y BY <1>1 DEF Min
  <1>3. PICK c \in S : c = Min(S) BY <1>2
  <1>4. c \in Nat /\ m \in Nat /\ c <= m /\ m <= c BY <1>2, <1>3
  <1>5. c = m BY <1>4
  <1> QED BY <1>3, <1>5

LEMMA BracketIsNotSpoken == "[" \notin Spoken
  BY OtherTokens DEF Spoken, ConjunctionOps

\* A query without order
LEMMA BareQuery ==
    ASSUME NEW t \in Seq(Spoken), read = t
    PROVE  FilterPart = 0 /\ FilterTokens = t /\ OrderTokens = <<>>
  <1>1. \A i \in 1..Len(t) : t[i] \in Spoken OBVIOUS
  <1>2. Brackets(read) = {} BY <1>1, BracketIsNotSpoken DEF Brackets
  <1>3. FilterPart = 0 BY <1>2, FilterPartIs
  <1> QED BY <1>3 DEF FilterTokens, OrderTokens

\* A query with one
LEMMA SortedQuery ==
    ASSUME NEW t \in Seq(Spoken), NEW u \in TokenLists,
           read = Then(t, Then(<<"[">>, Then(u, <<"]">>)))
    PROVE  FilterTokens = t /\ OrderTokens = u
  <1>1. "[" \in AllTokens /\ "]" \in AllTokens BY DEF AllTokens
  <1>2. PICK a \in TokenLists, c \in TokenLists : a = <<"[">> /\ c = <<"]">>
    BY <1>1, ListTypes
  <1>3. Len(a) = 1 /\ a[1] = "[" /\ Len(c) = 1 /\ c[1] = "]" BY <1>2
  <1>4. PICK v \in TokenLists : v = t BY ListTypes
  <1>5. PICK x \in TokenLists : x = Then(u, c) BY ListTypes
  <1>6. PICK y \in TokenLists : y = Then(a, x) BY ListTypes
  <1>7. PICK r \in TokenLists : r = Then(v, y) BY ListTypes
  <1>8. r = read BY <1>2, <1>4, <1>5, <1>6, <1>7
  <1>9. PICK n \in Nat, k \in Nat : n = Len(v) /\ k = Len(u) BY DEF TokenLists
  <1>10. Len(x) = k + 1 /\ \A i \in 1..k : x[i] = u[i]
    <2>1. /\ Len(x) = Len(u) + Len(c)
          /\ \A i \in 1..(Len(u) + Len(c)) : x[i] = IF i <= Len(u) THEN u[i] ELSE c[i - Len(u)]
      BY <1>5, ConcatProperties DEF TokenLists, Then
    <2>2. \A i \in 1..k : i \in 1..(k + 1) /\ i <= k BY <1>9
    <2> QED BY <1>3, <1>9, <2>1, <2>2
  <1>11. Len(y) = k + 2 /\ y[1] = "[" /\ \A i \in 1..k : y[i + 1] = u[i]
    <2>1. /\ Len(y) = Len(a) + Len(x)
          /\ \A i \in 1..(Len(a) + Len(x)) : y[i] = IF i <= Len(a) THEN a[i] ELSE x[i - Len(a)]
      BY <1>6, ConcatProperties DEF TokenLists, Then
    <2>2. Len(y) = k + 2 /\ \A i \in 1..(k + 2) : y[i] = IF i <= 1 THEN a[i] ELSE x[i - 1]
      BY <1>3, <1>9, <1>10, <2>1
    <2>3. y[1] = "[" BY <1>3, <1>9, <2>2
    <2>4. ASSUME NEW i \in 1..k PROVE y[i + 1] = u[i]
      <3>1. i + 1 \in 1..(k + 2) /\ ~(i + 1 <= 1) /\ (i + 1) - 1 = i BY <1>9
      <3> QED BY <1>10, <2>2, <3>1
    <2> QED BY <2>2, <2>3, <2>4
  <1>12. /\ Len(r) = n + (k + 2) /\ (\A i \in 1..n : r[i] = v[i])
         /\ \A i \in 1..(k + 2) : r[n + i] = y[i]
    <2>1. /\ Len(r) = Len(v) + Len(y)
          /\ \A i \in 1..(Len(v) + Len(y)) : r[i] = IF i <= Len(v) THEN v[i] ELSE y[i - Len(v)]
      BY <1>7, ConcatProperties DEF TokenLists, Then
    <2>2. /\ Len(r) = n + (k + 2)
          /\ \A i \in 1..(n + (k + 2)) : r[i] = IF i <= n THEN v[i] ELSE y[i - n]
      BY <1>9, <1>11, <2>1
    <2>3. \A i \in 1..n : r[i] = v[i]
      <3>1. \A i \in 1..n : i \in 1..(n + (k + 2)) /\ i <= n BY <1>9
      <3> QED BY <2>2, <3>1
    <2>4. ASSUME NEW i \in 1..(k + 2) PROVE r[n + i] = y[i]
      <3>1. n + i \in 1..(n + (k + 2)) /\ ~(n + i <= n) /\ (n + i) - n = i BY <1>9
      <3> QED BY <2>2, <3>1
    <2> QED BY <2>2, <2>3, <2>4
  <1>13. FilterPart = n + 1
    <2>1. 1 \in 1..(k + 2) /\ n + 1 \in 1..(n + (k + 2)) BY <1>9
    <2>2. r[n + 1] = "[" BY <1>11, <1>12, <2>1
    <2>3. PICK S : S = Brackets(r) OBVIOUS
    <2>4. S \in SUBSET Nat BY <2>3 DEF Brackets
    <2>5. n + 1 \in S BY <1>12, <2>1, <2>2, <2>3 DEF Brackets
    <2>6. ASSUME NEW i \in S PROVE n + 1 <= i
      <3>1. r[i] = "[" /\ i \in Nat /\ i >= 1 BY <2>3, <2>4 DEF Brackets
      <3>2. ASSUME i <= n PROVE FALSE
        <4>1. i \in 1..n BY <1>9, <3>1, <3>2
        <4>2. v[i] = "[" BY <1>12, <3>1, <4>1
        <4>3. t[i] \in Spoken BY <1>4, <1>9, <4>1
        <4> QED BY <1>4, <4>2, <4>3, BracketIsNotSpoken
      <3> QED BY <1>9, <3>1, <3>2
    <2>7. Min(S) = n + 1 BY <2>4, <2>5, <2>6, LeastIs
    <2> QED BY <1>8, <2>3, <2>5, <2>7, FilterPartIs
  <1>14. n + 1 # 0 /\ (n + 1) - 1 = n /\ (n + 1) + 1 = n + 2 BY <1>9
  <1>15. FilterTokens = v
    <2>1. FilterTokens = SubSeq(r, 1, n) BY <1>8, <1>13, <1>14 DEF FilterTokens
    <2>2. PICK s \in TokenLists : s = SubSeq(r, 1, n)
      <3>1. SubSeq(r, 1, n) \in TokenLists BY <1>9, <1>12 DEF TokenLists
      <3> QED BY <3>1
    <2>3. Len(s) = n /\ \A i \in 1..n : s[i] = r[i] BY <1>9, <1>12, <2>2 DEF TokenLists
    <2>4. s \in Seq(AllTokens) /\ v \in Seq(AllTokens) BY DEF TokenLists
    <2>5. Len(s) = Len(v) /\ \A i \in 1..Len(s) : s[i] = v[i] BY <1>9, <1>12, <2>3
    <2>6. s = v BY <2>4, <2>5, SeqEqual
    <2> QED BY <2>1, <2>2, <2>6
  <1>16. OrderTokens = u
    <2>1. Len(r) - 1 = n + k + 1 BY <1>9, <1>12
    <2>2. OrderTokens = SubSeq(r, n + 2, n + k + 1) BY <1>8, <1>13, <1>14, <2>1 DEF OrderTokens
    <2>3. PICK m \in Nat, l \in Nat : m = n + 2 /\ l = n + k + 1 BY <1>9
    <2>4. l <= Len(r) /\ m >= 1 /\ l - m + 1 = k BY <1>9, <1>12, <2>3
    <2>5. PICK s \in TokenLists : s = SubSeq(r, m, l)
      <3>1. \A i \in m..l : r[i] \in AllTokens BY <1>9, <2>3, <2>4 DEF TokenLists
      <3>2. SubSeq(r, m, l) \in TokenLists BY <2>4, <3>1 DEF TokenLists
      <3> QED BY <3>2
    <2>6. Len(s) = k /\ \A i \in 1..k : s[i] = r[m + i - 1]
      BY <1>9, <2>3, <2>4, <2>5 DEF TokenLists
    <2>7. ASSUME NEW i \in 1..k PROVE s[i] = u[i]
      <3>1. PICK j \in 1..(k + 2) : j = i + 1 BY <1>9
      <3>2. m + i - 1 = n + j BY <1>9, <2>3, <3>1
      <3>3. s[i] = r[n + j] BY <2>6, <3>2
      <3>4. r[n + j] = y[j] BY <1>12
      <3>5. y[i + 1] = u[i] BY <1>11
      <3> QED BY <3>1, <3>3, <3>4, <3>5
    <2>8. s \in Seq(AllTokens) /\ u \in Seq(AllTokens) BY DEF TokenLists
    <2>9. Len(s) = Len(u) /\ \A i \in 1..Len(s) : s[i] = u[i] BY <1>9, <2>6, <2>7
    <2>10. s = u BY <2>8, <2>9, SeqEqual
    <2> QED BY <2>2, <2>3, <2>5, <2>10
  <1> QED BY <1>4, <1>15, <1>16

\* Whether the tokens of an order are read as it says
LEMMA OrdersSort ==
    ASSUME NEW o, Orders(OrderTokens, o), m_orderList = o
    PROVE  SortsAsItSays
  <1>1. PICK t \in TokenLists : t = OrderTokens BY DEF Orders
  <1>2. PICK l \in OrderLists : l = o BY DEF Orders
  <1>3. PICK n \in Nat : n = Len(l) BY DEF OrderLists
  <1>4. Len(t) = 2 * n BY <1>1, <1>2, <1>3 DEF Orders
  <1>5. Len(t) \div 2 = n BY <1>3, <1>4
  <1>6. \A i \in 1..n : l[i] = [ascending |-> t[2 * i - 1] = "/", propertyName |-> t[2 * i]]
    BY <1>1, <1>2, <1>3 DEF Orders
  <1>7. l = [i \in 1..n |-> [ascending |-> t[2 * i - 1] = "/", propertyName |-> t[2 * i]]]
    <2>1. l = [i \in 1..n |-> l[i]] BY <1>3 DEF OrderLists
    <2> QED BY <1>6, <2>1
  <1> QED BY <1>1, <1>2, <1>5, <1>7 DEF SortsAsItSays

-----------------------------------------------------------------------------
(* The steps of the parser *)

Reads(tokens) == read = IF lookahead \in Tokens THEN Append(tokens, lookahead) ELSE tokens
Parsing == \E f : Stacked(symbols, f) /\ Beside(symbols) /\ Holds(f) /\ Reads(f.tokens)
Parsed == Means(FilterTokens, parsed) /\ SortsAsItSays
Results == {"parsing", "parsed", "rejected", "aborted"}
ParserTypes ==
    /\ result \in Results
    /\ read \in Seq(Tokens) /\ Len(read) <= MaxTokens
    /\ lookahead \in Tokens \cup {None, "end"}
    /\ result # "aborted" =>
          m_operatorStack \in OperatorLists /\ m_conjunctionStack \in ConjunctionLists
ParserInv ==
    /\ ParserTypes
    /\ result = "parsing" => Parsing
    /\ result = "parsed" => Parsed

\* What earlier queries have left is below all that is parsed.
LEMMA NewFrame ==
    ASSUME NEW o \in OperatorLists, NEW c \in ConjunctionLists
    PROVE  \E f \in Frames :
              /\ Stacked(<<>>, f) /\ f.tokens = <<>> /\ f.terms = <<>> /\ f.operators = o
              /\ f.conjunctions = c /\ f.orders = <<>>
  <1>1. <<>> \in TokenLists /\ <<>> \in TermLists /\ <<>> \in OrderLists
    BY DEF TokenLists, TermLists, OrderLists
  <1>2. PICK t \in TokenLists, l \in TermLists, r \in OrderLists :
            t = <<>> /\ l = <<>> /\ r = <<>>
    BY <1>1
  <1>3. PICK f : f = [tokens |-> t, terms |-> l, operators |-> o, conjunctions |-> c,
                      orders |-> r]
    OBVIOUS
  <1>4. f \in Frames BY <1>3 DEF Frames
  <1>5. /\ f.tokens = t /\ f.terms = l /\ f.operators = o /\ f.conjunctions = c
        /\ f.orders = r
    BY <1>3
  <1>6. Stacked(<<>>, f) BY <1>2, <1>4, <1>5, StackedNone DEF Empty
  <1> QED BY <1>2, <1>4, <1>5, <1>6

\* A new query
LEMMA QueryBegins ==
    ASSUME m_operatorStack \in OperatorLists, m_conjunctionStack \in ConjunctionLists,
           read = <<>>, lookahead = None, symbols = <<>>, m_termStack = <<>>, m_orderList = <<>>
    PROVE  Parsing
  <1>1. PICK f \in Frames :
              /\ Stacked(<<>>, f) /\ f.tokens = <<>> /\ f.terms = <<>>
              /\ f.operators = m_operatorStack
              /\ f.conjunctions = m_conjunctionStack /\ f.orders = <<>>
    BY NewFrame
  <1>2. Reads(f.tokens) BY <1>1, NoneIsNot DEF Reads
  <1>3. Holds(f) BY <1>1 DEF Holds
  <1>4. Stacked(symbols, f) /\ Beside(symbols) BY <1>1, BesideNone
  <1> QED BY <1>2, <1>3, <1>4 DEF Parsing

LEMMA ParserInitInv ==
    ASSUME ParserInit
    PROVE  ParserInv
  <1>1. m_operatorStack \in OperatorLists /\ m_conjunctionStack \in ConjunctionLists
    BY DEF ParserInit, OperatorLists, ConjunctionLists
  <1>2. Parsing BY <1>1, QueryBegins DEF ParserInit
  <1>3. read \in Seq(Tokens) /\ Len(read) <= MaxTokens
    BY ParserAssumption DEF ParserInit
  <1> QED BY <1>1, <1>2, <1>3 DEF ParserInit, ParserInv, ParserTypes, Results

LEMMA EndIsNoToken == "end" \notin Tokens /\ "end" \notin AllTokens
  BY NotTokens, NoneIsNot

\* A token that is looked at has not been shifted.
LEMMA NextTokenInv ==
    ASSUME ParserInv, NextToken
    PROVE  ParserInv'
  <1>1. result = "parsing" /\ lookahead = None /\ result' = "parsing" BY DEF NextToken
  <1>2. PICK t \in Tokens \cup {"end"} :
          /\ t # "end" => Len(read) < MaxTokens
          /\ lookahead' = t
          /\ read' = IF t = "end" THEN read ELSE Append(read, t)
    BY DEF NextToken
  <1>3. PICK f : Stacked(symbols, f) /\ Beside(symbols) /\ Holds(f) /\ Reads(f.tokens)
    BY <1>1 DEF ParserInv, Parsing
  <1>4. read = f.tokens BY <1>1, <1>3, NoneIsNot DEF Reads
  <1>5. UNCHANGED <<symbols, m_termStack, m_operatorStack, m_conjunctionStack, m_orderList>>
    BY DEF NextToken, stacks
  <1>6. Reads(f.tokens)' BY <1>2, <1>4, EndIsNoToken DEF Reads
  <1>7. Holds(f)' BY <1>3, <1>5 DEF Holds
  <1>8. Parsing' BY <1>3, <1>5, <1>6, <1>7 DEF Parsing
  <1>9. read' \in Seq(Tokens) /\ Len(read') <= MaxTokens
    <2>1. read \in Seq(Tokens) /\ Len(read) <= MaxTokens /\ MaxTokens \in Nat
      BY ParserAssumption DEF ParserInv, ParserTypes
    <2>2. CASE t = "end" BY <1>2, <2>1, <2>2
    <2>3. CASE t # "end"
      <3>1. t \in Tokens /\ read' = Append(read, t) /\ Len(read) < MaxTokens BY <1>2, <2>3
      <3>2. Append(read, t) \in Seq(Tokens) /\ Len(Append(read, t)) = Len(read) + 1
        BY <2>1, <3>1
      <3>3. Len(read) \in Nat BY <2>1
      <3> QED BY <2>1, <3>1, <3>2, <3>3
    <2> QED BY <2>2, <2>3
  <1>10. ParserTypes' BY <1>1, <1>2, <1>5, <1>9 DEF ParserInv, ParserTypes
  <1> QED BY <1>1, <1>8, <1>10 DEF ParserInv

\* What may be shifted is a token, and it is next to what it may be next to.
LEMMA ShiftsToken ==
    ASSUME symbols \in SymbolLists, NEW t, MayShift(t)
    PROVE  /\ t \in AllTokens
           /\ t \in ConjunctionOps \cup {"complex_operator"} =>
                 symbols # <<>> /\ symbols[Len(symbols)] = "parenthesed_clause"
           /\ t \in {"/", "\\"} =>
                 symbols # <<>> /\ symbols[Len(symbols)] \in {"[", "order_clause"}
  <1>1. \A x \in FilterTerms :
            x \in AllTokens /\ x \notin ConjunctionOps /\ x \notin {"/", "\\", "complex_operator"}
    <2>1. "complex_operator" \notin AllTokens BY NotTokens
    <2> QED BY <2>1, OtherTokens DEF AllTokens
  <1>2. \/ t \in FilterTerms \cup {"(", "!", ")", "[", "]"}
        \/ TopSymbol = "parenthesed_clause" /\ t \in ConjunctionOps
        \/ TopSymbol \in {"[", "order_clause"} /\ t \in {"/", "\\"}
    <2>1. ASSUME NEW form \in ClauseForms, t \in form[3] PROVE t \in FilterTerms
      BY <2>1 DEF ClauseForms, FilterTerms
    <2> QED BY <2>1 DEF MayShift, FilterTerms, Comparisons
  <1>3. CASE t \in FilterTerms BY <1>1, <1>3
  <1>4. CASE t \in {"(", "!", ")", "[", "]"} BY <1>4 DEF AllTokens, ConjunctionOps
  <1>5. CASE TopSymbol = "parenthesed_clause" /\ t \in ConjunctionOps
    <2>1. TopSymbol # None BY <1>5, TokensAssumption DEF Symbols
    <2>2. symbols # <<>> /\ symbols[Len(symbols)] = "parenthesed_clause" BY <1>5, <2>1, TopIs
    <2>3. t \in AllTokens /\ t \notin {"/", "\\"} BY <1>5 DEF AllTokens, ConjunctionOps
    <2> QED BY <2>2, <2>3
  <1>6. CASE TopSymbol \in {"[", "order_clause"} /\ t \in {"/", "\\"}
    <2>1. TopSymbol # None BY <1>6, TokensAssumption DEF Symbols
    <2>2. symbols # <<>> /\ symbols[Len(symbols)] \in {"[", "order_clause"}
      BY <1>6, <2>1, TopIs
    <2>3. t \in AllTokens /\ t \notin ConjunctionOps \cup {"complex_operator"}
      BY <1>6 DEF AllTokens, ConjunctionOps
    <2> QED BY <2>2, <2>3
  <1> QED BY <1>2, <1>3, <1>4, <1>5, <1>6

\* A token that is shifted stands for itself.
LEMMA ShiftInv ==
    ASSUME NEW f, Stacked(symbols, f), Beside(symbols), Holds(f), Reads(f.tokens),
           lookahead \in Tokens \cup {None, "end"}, lookahead # None, MayShift(lookahead),
           symbols' = Append(symbols, lookahead), lookahead' = None, read' = read,
           UNCHANGED <<m_termStack, m_operatorStack, m_conjunctionStack, m_orderList>>
    PROVE  Parsing'
  <1>1. symbols \in SymbolLists /\ f \in Frames BY StackedFrame
  <1>2. PICK t \in AllTokens :
            /\ t = lookahead
            /\ t \in ConjunctionOps \cup {"complex_operator"} =>
                 symbols # <<>> /\ symbols[Len(symbols)] = "parenthesed_clause"
            /\ t \in {"/", "\\"} =>
                 symbols # <<>> /\ symbols[Len(symbols)] \in {"[", "order_clause"}
    BY <1>1, ShiftsToken
  <1>3. t \in Tokens BY <1>2, EndIsNoToken
  <1>4. t \in AllSymbols BY GrammarSymbols
  <1>5. PICK l \in TokenLists : l = <<t>> BY ListTypes
  <1>6. PICK g : g = More(f, l) OBVIOUS
  <1>7. /\ g \in Frames /\ g.tokens = Then(f.tokens, l)
        /\ g.terms = f.terms /\ g.operators = f.operators
        /\ g.conjunctions = f.conjunctions /\ g.orders = f.orders
    BY <1>1, <1>6, MoreIs
  <1>8. Adds(f, t, g) BY <1>5, <1>6 DEF Adds
  <1>9. symbols' = Put(symbols, t) BY <1>2 DEF Put
  <1>10. Stacked(symbols', g) BY <1>4, <1>7, <1>8, <1>9, StackedOn
  <1>11. Beside(symbols') BY <1>1, <1>2, <1>4, <1>9, BesideOn
  <1>12. g.tokens = read
    <2>1. PICK z \in TokenLists : z = f.tokens BY <1>1, FrameFields
    <2>2. z \o <<t>> = Append(z, t) BY DEF TokenLists
    <2>3. read = Append(z, t) BY <1>2, <1>3, <2>1 DEF Reads
    <2> QED BY <1>5, <1>7, <2>1, <2>2, <2>3 DEF Then
  <1>13. Reads(g.tokens)' BY <1>12, NoneIsNot DEF Reads
  <1>14. Holds(g)' BY <1>7 DEF Holds
  <1> QED BY <1>10, <1>11, <1>13, <1>14 DEF Parsing

\* No symbols stand for nothing.
LEMMA EmptyFrame ==
    ASSUME NEW e, Stacked(<<>>, e)
    PROVE  e \in Frames /\ Empty(e)
  <1>1. e \in Frames BY StackedFrame
  <1>2. PICK fs : Stack(<<>>, fs) /\ e = fs[Len(<<>>)] BY DEF Stacked
  <1>3. Len(<<>>) = 0 OBVIOUS
  <1>4. Empty(fs[0]) BY <1>2 DEF Stack
  <1> QED BY <1>1, <1>2, <1>3, <1>4

\* The term of an empty frame with a bang_clause on it
LEMMA FirstTerm ==
    ASSUME NEW e, Stacked(<<>>, e), NEW f \in Frames, Adds(e, "bang_clause", f)
    PROVE  \E t, term : /\ Means(t, term) /\ f.tokens = t /\ Last(f.terms) = term
                        /\ f.orders = <<>>
  <1>1. e \in Frames /\ Empty(e) BY EmptyFrame
  <1>2. PICK t, term : Means(t, term) /\ TermAdded(e, f, t, term) BY <1>1, BangAdds
  <1>3. Last(f.terms) = term BY <1>1, <1>2, TermOnTop
  <1>4. f.tokens = Then(<<>>, t) /\ f.orders = <<>> /\ t \in TokenLists
    BY <1>1, <1>2 DEF TermAdded, Empty
  <1>5. Then(<<>>, t) = t BY <1>4 DEF Then, TokenLists
  <1> QED BY <1>2, <1>3, <1>4, <1>5

\* A query that is complete means what it says.
LEMMA CompleteMeans ==
    ASSUME NEW f, Stacked(symbols, f), Holds(f), read = f.tokens, Complete
    PROVE  Means(FilterTokens, Last(m_termStack)) /\ SortsAsItSays
  <1>1. symbols \in SymbolLists /\ f \in Frames BY StackedFrame
  <1>2. CASE symbols = <<"bang_clause">>
    <2>1. Len(symbols) = 1 /\ symbols[1] = "bang_clause" BY <1>2
    <2>2. PICK e \in Frames : Stacked(Below(symbols, 1), e) /\ Adds(e, "bang_clause", f)
      BY <2>1, LastOne
    <2>3. Below(symbols, 1) = <<>> BY <1>2 DEF Below
    <2>4. PICK t, term : /\ Means(t, term) /\ f.tokens = t /\ Last(f.terms) = term
                         /\ f.orders = <<>>
      BY <1>1, <2>2, <2>3, FirstTerm
    <2>5. PICK q \in Seq(Spoken) : q = t BY <2>4 DEF Means
    <2>6. FilterTokens = q /\ OrderTokens = <<>> BY <2>4, <2>5, BareQuery
    <2>7. SortsAsItSays
      <3>1. m_orderList = <<>> BY <2>4 DEF Holds
      <3> QED BY <2>6, <3>1, OrdersNone, OrdersSort
    <2> QED BY <2>4, <2>5, <2>6, <2>7 DEF Holds
  <1>3. CASE symbols = <<"bang_clause", "order_term">>
    <2>1. Len(symbols) = 2 /\ symbols[1] = "bang_clause" /\ symbols[2] = "order_term" BY <1>3
    <2>2. PICK e, f1 \in Frames : /\ Stacked(Below(symbols, 2), e) /\ Adds(e, "bang_clause", f1)
                                  /\ Adds(f1, "order_term", f)
      BY <2>1, LastTwo
    <2>3. Below(symbols, 2) = <<>> BY <1>3 DEF Below
    <2>4. PICK t, term : /\ Means(t, term) /\ f1.tokens = t /\ Last(f1.terms) = term
                         /\ f1.orders = <<>>
      BY <2>2, <2>3, FirstTerm
    <2>5. PICK q \in Seq(Spoken) : q = t BY <2>4 DEF Means
    <2>6. PICK u, o : /\ Orders(u, o)
                      /\ f = WithOrders(f1, Then(<<"[">>, Then(u, <<"]">>)), o)
      <3>1. "order_term" \notin AllTokens /\ "order_term" \notin OperatorSymbols
        BY NotTokens DEF OperatorSymbols
      <3> QED BY <2>2, <3>1 DEF Adds
    <2>7. PICK l \in TokenLists, r \in OrderLists : l = u /\ r = o BY <2>6 DEF Orders
    <2>8. PICK x : x = Then(<<"[">>, Then(u, <<"]">>)) OBVIOUS
    <2>9. x \in TokenLists
      <3>1. "[" \in AllTokens /\ "]" \in AllTokens BY DEF AllTokens
      <3> QED BY <2>7, <2>8, <3>1, ListTypes
    <2>10. f.tokens = Then(f1.tokens, x) /\ f.terms = f1.terms /\ f.orders = Then(f1.orders, o)
      BY <2>2, <2>6, <2>7, <2>8, <2>9, WithOrdersIs
    <2>11. f.orders = o BY <2>4, <2>7, <2>10 DEF Then, OrderLists
    <2>12. read = Then(q, Then(<<"[">>, Then(l, <<"]">>))) BY <2>4, <2>5, <2>7, <2>8, <2>10
    <2>13. FilterTokens = q /\ OrderTokens = l BY <2>12, SortedQuery
    <2>14. SortsAsItSays
      <3>1. m_orderList = o BY <2>11 DEF Holds
      <3> QED BY <2>6, <2>7, <2>13, <3>1, OrdersSort
    <2> QED BY <2>4, <2>5, <2>10, <2>13, <2>14 DEF Holds
  <1> QED BY <1>2, <1>3 DEF Complete

LEMMA FrameTypes ==
    ASSUME NEW f, Stacked(symbols, f), Holds(f)
    PROVE  m_operatorStack \in OperatorLists /\ m_conjunctionStack \in ConjunctionLists
  BY StackedFrame, FrameFields DEF Holds

\* What a reduction leaves is parsed on.
LEMMA OnwardParsing ==
    ASSUME ParserInv, result = "parsing", result' = "parsing",
           UNCHANGED <<read, lookahead>>,
           NEW f, Reads(f.tokens), Onward(f)
    PROVE  ParserInv'
  <1>1. PICK h : /\ Stacked(symbols', h) /\ Beside(symbols') /\ h.tokens = f.tokens
                 /\ h.terms = m_termStack' /\ h.operators = m_operatorStack'
                 /\ h.conjunctions = m_conjunctionStack' /\ h.orders = m_orderList'
    BY DEF Onward
  <1>2. Holds(h)' BY <1>1 DEF Holds
  <1>3. Reads(h.tokens)' BY <1>1 DEF Reads
  <1>4. Parsing' BY <1>1, <1>2, <1>3 DEF Parsing
  <1>5. m_operatorStack' \in OperatorLists /\ m_conjunctionStack' \in ConjunctionLists
    BY <1>1, StackedFrame, FrameFields
  <1>6. /\ read' \in Seq(Tokens) /\ Len(read') <= MaxTokens
        /\ lookahead' \in Tokens \cup {None, "end"}
    BY DEF ParserInv, ParserTypes
  <1>7. ParserTypes' BY <1>5, <1>6 DEF ParserTypes, Results
  <1> QED BY <1>4, <1>7 DEF ParserInv

\* Every rule keeps the invariant.
LEMMA ReduceInv ==
    ASSUME ParserInv, Reduce
    PROVE  ParserInv'
  <1>1. result = "parsing" /\ UNCHANGED <<read, lookahead>> BY DEF Reduce
  <1>2. PICK f : Stacked(symbols, f) /\ Beside(symbols) /\ Holds(f) /\ Reads(f.tokens)
    BY <1>1 DEF ParserInv, Parsing
  <1>3. CASE ReduceOperator
    <2>1. result' = "parsing" BY <1>1, <1>3 DEF ReduceOperator
    <2> QED BY <1>1, <1>2, <1>3, <2>1, ReduceOperatorOnward, OnwardParsing
  <1>4. CASE ReduceComplexOperator
    <2>1. result' = "parsing" BY <1>1, <1>4 DEF ReduceComplexOperator
    <2> QED BY <1>1, <1>2, <1>4, <2>1, ReduceComplexOperatorOnward, OnwardParsing
  <1>5. CASE ReduceClause
    <2>1. /\ read' \in Seq(Tokens) /\ Len(read') <= MaxTokens
          /\ lookahead' \in Tokens \cup {None, "end"}
      BY <1>1 DEF ParserInv, ParserTypes
    <2>2. CASE result' = "rejected" /\ UNCHANGED <<m_operatorStack, m_conjunctionStack>>
      <3>1. m_operatorStack' \in OperatorLists /\ m_conjunctionStack' \in ConjunctionLists
        BY <1>2, <2>2, FrameTypes
      <3>2. ParserTypes' BY <2>1, <2>2, <3>1 DEF ParserTypes, Results
      <3> QED BY <2>2, <3>2 DEF ParserInv
    <2>3. CASE result' = "aborted"
      <3>1. ParserTypes' BY <2>1, <2>3 DEF ParserTypes, Results
      <3> QED BY <2>3, <3>1 DEF ParserInv
    <2>4. CASE result' = "parsing" /\ Onward(f) BY <1>1, <1>2, <2>4, OnwardParsing
    <2> QED BY <1>1, <1>2, <1>5, <2>2, <2>3, <2>4, ReduceClauseOnward
  <1>6. CASE ReduceScope
    <2>1. result' = "parsing" BY <1>1, <1>6 DEF ReduceScope
    <2> QED BY <1>1, <1>2, <1>6, <2>1, ReduceScopeOnward, OnwardParsing
  <1>7. CASE ReduceParenthesed
    <2>1. result' = "parsing" BY <1>1, <1>7 DEF ReduceParenthesed
    <2> QED BY <1>1, <1>2, <1>7, <2>1, ReduceParenthesedOnward, OnwardParsing
  <1>8. CASE ReduceConjunction
    <2>1. result' = "parsing" BY <1>1, <1>8 DEF ReduceConjunction
    <2> QED BY <1>1, <1>2, <1>8, <2>1, ReduceConjunctionOnward, OnwardParsing
  <1>9. CASE ReduceBang
    <2>1. result' = "parsing" BY <1>1, <1>9 DEF ReduceBang
    <2> QED BY <1>1, <1>2, <1>9, <2>1, ReduceBangOnward, OnwardParsing
  <1>10. CASE ReduceOrder
    <2>1. result' = "parsing" BY <1>1, <1>10 DEF ReduceOrder
    <2> QED BY <1>1, <1>2, <1>10, <2>1, ReduceOrderOnward, OnwardParsing
  <1>11. CASE ReduceOrderTerm
    <2>1. result' = "parsing" BY <1>1, <1>11 DEF ReduceOrderTerm
    <2> QED BY <1>1, <1>2, <1>11, <2>1, ReduceOrderTermOnward, OnwardParsing
  <1> QED BY <1>3, <1>4, <1>5, <1>6, <1>7, <1>8, <1>9, <1>10, <1>11 DEF Reduce

\* So does a token, also the last one.
LEMMA HandleTokenInv ==
    ASSUME ParserInv, HandleToken
    PROVE  ParserInv'
  <1>1. /\ result = "parsing" /\ lookahead # None
        /\ UNCHANGED <<read, m_operatorStack, m_conjunctionStack, m_orderList>>
    BY DEF HandleToken
  <1>2. PICK f : Stacked(symbols, f) /\ Beside(symbols) /\ Holds(f) /\ Reads(f.tokens)
    BY <1>1 DEF ParserInv, Parsing
  <1>3. /\ read' \in Seq(Tokens) /\ Len(read') <= MaxTokens
        /\ lookahead \in Tokens \cup {None, "end"}
    BY <1>1 DEF ParserInv, ParserTypes
  <1>4. m_operatorStack' \in OperatorLists /\ m_conjunctionStack' \in ConjunctionLists
    BY <1>1, <1>2, FrameTypes
  <1>5. CASE /\ MayShift(lookahead) /\ symbols' = Append(symbols, lookahead)
             /\ lookahead' = None /\ UNCHANGED <<m_termStack, result, parsed>>
    <2>1. Parsing' BY <1>1, <1>2, <1>3, <1>5, ShiftInv
    <2>2. ParserTypes' BY <1>1, <1>3, <1>4, <1>5 DEF ParserTypes, Results
    <2> QED BY <1>1, <1>5, <2>1, <2>2 DEF ParserInv
  <1>6. CASE /\ lookahead = "end" /\ Complete /\ result' = "parsed"
             /\ parsed' = Top(m_termStack) /\ UNCHANGED <<symbols, lookahead>>
    <2>1. read = f.tokens BY <1>2, <1>6, EndIsNoToken DEF Reads
    <2>2. Means(FilterTokens, Last(m_termStack)) /\ SortsAsItSays
      BY <1>2, <1>6, <2>1, CompleteMeans
    <2>3. FilterTokens' = FilterTokens /\ OrderTokens' = OrderTokens BY <1>1, PartsStay
    <2>4. parsed' = Last(m_termStack) BY <1>6 DEF Top
    <2>5. SortsAsItSays' BY <1>1, <2>2, <2>3 DEF SortsAsItSays
    <2>6. Parsed' BY <2>2, <2>3, <2>4, <2>5 DEF Parsed
    <2>7. ParserTypes' BY <1>3, <1>4, <1>6 DEF ParserTypes, Results
    <2> QED BY <1>6, <2>6, <2>7 DEF ParserInv
  <1>7. CASE result' = "rejected" /\ UNCHANGED <<symbols, lookahead>>
    <2>1. ParserTypes' BY <1>3, <1>4, <1>7 DEF ParserTypes, Results
    <2> QED BY <1>7, <2>1 DEF ParserInv
  <1> QED BY <1>5, <1>6, <1>7 DEF HandleToken

\* So does the next query, with what is left of the stacks.
LEMMA ParseAgainInv ==
    ASSUME ParserInv, ParseAgain
    PROVE  ParserInv'
  <1>1. /\ read' = <<>> /\ lookahead' = None /\ symbols' = <<>>
        /\ m_termStack' = <<>> /\ m_orderList' = <<>> /\ result' = "parsing"
        /\ UNCHANGED <<m_operatorStack, m_conjunctionStack>>
    BY DEF ParseAgain
  <1>2. m_operatorStack \in OperatorLists /\ m_conjunctionStack \in ConjunctionLists
    BY DEF ParserInv, ParserTypes, ParseAgain
  <1>3. PICK f \in Frames :
              /\ Stacked(<<>>, f) /\ f.tokens = <<>> /\ f.terms = <<>>
              /\ f.operators = m_operatorStack
              /\ f.conjunctions = m_conjunctionStack /\ f.orders = <<>>
    BY <1>2, NewFrame
  <1>4. Reads(f.tokens)' BY <1>1, <1>3, NoneIsNot DEF Reads
  <1>5. Holds(f)' BY <1>1, <1>3 DEF Holds
  <1>6. Stacked(symbols', f) /\ Beside(symbols') BY <1>1, <1>3, BesideNone
  <1>7. Parsing' BY <1>4, <1>5, <1>6 DEF Parsing
  <1>8. read' \in Seq(Tokens) /\ Len(read') <= MaxTokens BY <1>1, ParserAssumption
  <1>9. ParserTypes' BY <1>1, <1>2, <1>8 DEF ParserTypes, Results
  <1> QED BY <1>1, <1>7, <1>9 DEF ParserInv

LEMMA ParserStutterInv ==
    ASSUME ParserInv, UNCHANGED parserVars
    PROVE  ParserInv'
  <1>1. UNCHANGED <<read, lookahead, symbols, m_termStack, m_operatorStack, m_conjunctionStack,
                    m_orderList, result, parsed>>
    BY DEF parserVars, stacks
  <1>2. ParserTypes' BY <1>1 DEF ParserInv, ParserTypes
  <1>3. result = "parsing" => Parsing' BY <1>1 DEF ParserInv, Parsing, Holds, Reads
  <1>4. result = "parsed" => Parsed'
    <2>1. FilterTokens' = FilterTokens /\ OrderTokens' = OrderTokens BY <1>1, PartsStay
    <2> QED BY <1>1, <2>1 DEF ParserInv, Parsed, SortsAsItSays
  <1> QED BY <1>1, <1>2, <1>3, <1>4 DEF ParserInv

\* While a query is parsed, each symbol on the stack stands for the tokens that it was
\* made of, and the stacks of terms, operators, conjunctions and orders have, in the
\* same order, what these tokens mean; after it, what was returned means the query
\* (yyparse() of qifqueryparser.g and the actions of its rules).
THEOREM ParserInvariant == ParserSpec => []ParserInv
  <1>1. ParserInit => ParserInv BY ParserInitInv
  <1>2. ParserInv /\ [ParserNext]_parserVars => ParserInv'
    <2> SUFFICES ASSUME ParserInv, [ParserNext]_parserVars PROVE ParserInv'
      OBVIOUS
    <2>1. CASE NextToken BY <2>1, NextTokenInv
    <2>2. CASE HandleToken BY <2>2, HandleTokenInv
    <2>3. CASE Reduce BY <2>3, ReduceInv
    <2>4. CASE ParseAgain BY <2>4, ParseAgainInv
    <2>5. CASE UNCHANGED parserVars BY <2>5, ParserStutterInv
    <2> QED BY <2>1, <2>2, <2>3, <2>4, <2>5 DEF ParserNext
  <1> QED BY <1>1, <1>2, PTL DEF ParserSpec

\* The types of the parser follow from its invariant.
LEMMA ParserTypesHold ==
    ASSUME ParserInv
    PROVE  ParserTypeOK
  <1>1. /\ result \in Results /\ read \in Seq(Tokens) /\ Len(read) <= MaxTokens
    BY DEF ParserInv, ParserTypes
  <1>2. ASSUME result = "parsing"
        PROVE  /\ Len(m_termStack) = HowMany(TermSymbols)
               /\ Len(m_operatorStack) >= HowMany(OperatorSymbols)
               /\ Len(m_conjunctionStack) >= HowMany({"complex_operator"})
    <2>1. PICK f : Stacked(symbols, f) /\ Holds(f) BY <1>2 DEF ParserInv, Parsing
    <2>2. symbols \in SymbolLists BY <2>1, StackedFrame
    <2>3. DOMAIN symbols = 1..Len(symbols) BY <2>2 DEF SymbolLists
    <2>4. \A K : HowMany(K) = Cardinality(Among(symbols, Len(symbols), K))
      BY <2>3 DEF HowMany, Among
    <2> QED BY <2>1, <2>4, StacksCounted DEF Holds
  <1> QED BY <1>1, <1>2 DEF ParserTypeOK, Results, TermSymbols, OperatorSymbols

\* Every stack of the parser has an element for each symbol that stands for one: no
\* rule takes one from an empty stack, whatever the parser has read before (setQuery()
\* and parse(), qifqueryparser.g).
THEOREM ParserTypeCorrect == ParserSpec => []ParserTypeOK
  BY ParserInvariant, ParserTypesHold, PTL

\* The term of a query matches a row, of which any filters hold, just if the tokens of
\* the query say so, whatever parentheses, negations and conjunctions it has and
\* however deep; and the order of the query is what it names (handleConjunction(),
\* handleScope() and negateLeftMostTerm(), qifqueryparser.g).
THEOREM QueriesMean == ParserSpec => []MeansWhatItSays
  <1>1. ParserInv => MeansWhatItSays
    <2> SUFFICES ASSUME ParserInv, result = "parsed" PROVE MatchesAsItSays /\ SortsAsItSays
      BY DEF MeansWhatItSays
    <2>1. Means(FilterTokens, parsed) /\ SortsAsItSays BY DEF ParserInv, Parsed
    <2>2. \A row : Matches(parsed, row) = Says(FilterTokens, row) BY <2>1, MeansMatches
    <2> QED BY <2>1, <2>2 DEF MatchesAsItSays
  <1> QED BY <1>1, ParserInvariant, PTL

\* If the backend has told identifiers, no filter of a term is about another
\* (checkIdentifier() and setAllowedIdentifiers(), qifqueryparser.g).
THEOREM FiltersStayAllowed == ParserSpec => []FiltersAreAllowed
  <1>1. ParserInv => FiltersAreAllowed
    <2> SUFFICES ASSUME ParserInv, result = "parsed", Allowed # {}, NEW a \in Atoms(parsed)
                 PROVE  a.property \in Allowed
      BY DEF FiltersAreAllowed
    <2>1. Means(FilterTokens, parsed) BY DEF ParserInv, Parsed
    <2>2. parsed \in Seq(Nodes) BY <2>1, ComplexIs DEF Means
    <2>3. PICK i \in DOMAIN parsed : parsed[i].type = "filter" /\ a = Atom(parsed[i])
      BY DEF Atoms
    <2>4. parsed[i] \in Nodes BY <2>2
    <2>5. parsed[i] \in FilterNodes
      BY <2>3, <2>4 DEF Nodes, Leaves, ScopeNodes, ConjunctionNodes
    <2>6. parsed[i].property \in Allowed BY <2>5 DEF FilterNodes, Known
    <2>7. a.property = parsed[i].property BY <2>3, <2>5 DEF Atom, FilterNodes
    <2> QED BY <2>6, <2>7
  <1> QED BY <1>1, ParserInvariant, PTL

\* What operator>> reads of what operator<< has written of a term is the term, and
\* nothing is left (qifqueryterm.cpp).
THEOREM QueriesArrive == ParserSpec => []ArrivesAsSent
  <1>1. ParserInv => ArrivesAsSent
    <2> SUFFICES ASSUME ParserInv, result = "parsed"
                 PROVE  Read(Written(parsed)) = <<parsed, <<>>>>
      BY DEF ArrivesAsSent
    <2>1. Means(FilterTokens, parsed) BY DEF ParserInv, Parsed
    <2>2. parsed \in Seq(Nodes) /\ Are(parsed, 1) BY <2>1, ComplexIs DEF Means
    <2> QED BY <2>2, ReadsBack
  <1> QED BY <1>1, ParserInvariant, PTL
=============================================================================
