-------------------------- MODULE RemoteReply_proofs --------------------------
(***************************************************************************)
(* Proofs about RemoteReply: type correctness, and, if servers restart and *)
(* URLs change only while nothing waits, that each reply gets its own      *)
(* result; that a reply is answered once, so that the replies are those of *)
(* RemoteCalls; and about RemoteZones: a backend that is synced has read   *)
(* what its server has, and shows it.                                      *)
(***************************************************************************)
EXTENDS RemoteZones, TLAPS

\* A nonempty sequence has a head of the type of its elements, and a tail.
LEMMA HeadAndTail ==
    ASSUME NEW S, NEW q \in Seq(S), q # <<>>
    PROVE  /\ Head(q) \in S
           /\ Tail(q) \in Seq(S)
           /\ Len(q) \in Nat \ {0}
           /\ Head(q) = q[1]
           /\ Len(Tail(q)) = Len(q) - 1
           /\ \A k \in 1..Len(Tail(q)) : Tail(q)[k] = q[k + 1]
  <1>1. Len(q) \in Nat \ {0} OBVIOUS
  <1> QED BY <1>1

\* What Append() makes of a sequence.
LEMMA Appended ==
    ASSUME NEW S, NEW q \in Seq(S), NEW x \in S
    PROVE  /\ Append(q, x) \in Seq(S)
           /\ Len(Append(q, x)) = Len(q) + 1
           /\ Append(q, x)[Len(q) + 1] = x
           /\ \A k \in 1..Len(q) : Append(q, x)[k] = q[k]
  OBVIOUS

-----------------------------------------------------------------------------
(* Type correctness *)

\* The replica of a call that enters a state has an error of the right type.
LEMMA EntersType ==
    ASSUME TypeOK, NEW r \in Replicas, NEW state \in States
    PROVE  Enters(r, state) \in [source : Sources, state : States, error : Errors]
  <1>1. ErrorIn(replica[r].error, state) \in Errors
    BY DEF ErrorIn, TypeOK, States, Errors
  <1> QED BY <1>1 DEF Enters, TypeOK

\* Resolving a reply with a result keeps the types of what it changes.
LEMMA ResolveType ==
    ASSUME RemoteAssumption, TypeOK, NEW c \in Calls, NEW res \in Results, Resolve(c, res)
    PROVE  /\ result' \in [Calls -> Results]
           /\ replica' \in [Replicas -> [source : Sources, state : States, error : Errors]]
           /\ \A r \in Replicas : replica'[r].source = replica[r].source
           /\ \A r \in Replicas : replica'[r].state = replica[r].state
  <1>1. Caller[c] \in Replicas BY DEF RemoteAssumption
  <1> QED BY <1>1 DEF Resolve, TypeOK, Errors

\* The packets of a replica are packets.
LEMMA PacketType ==
    ASSUME NEW kind \in Kinds, NEW id \in Nat, NEW c \in Calls, NEW ok \in BOOLEAN,
           kind = "pending" => id \in Ids
    PROVE  Packet(kind, id, c, ok) \in Packets
  BY DEF Packet, Packets

\* Cutting connections keeps the types.
LEMMA CutType ==
    ASSUME TypeOK, NEW R, Cut(R)
    PROVE  /\ requests' \in [Replicas -> Seq(Calls)]
           /\ packets' \in [Replicas -> Seq(Packets)]
           /\ waiting' \in [Replicas -> SUBSET (Ids \X Calls)]
           /\ result' \in [Calls -> Results]
           /\ lost' \subseteq Calls
  <1>1. \A S : <<>> \in Seq(S) OBVIOUS
  <1> QED BY <1>1 DEF Cut, TypeOK

\* Receive() keeps the types, and leaves the sources and states of the replicas.
LEMMA ReceiveType ==
    ASSUME RemoteAssumption, TypeOK, NEW r \in Replicas, Receive(r)
    PROVE  TypeOK'
  <1> DEFINE m == Head(packets[r])
  <1>1. /\ packets[r] \in Seq(Packets)
        /\ packets[r] # <<>>
    BY DEF TypeOK, Receive
  <1>2. m \in Packets /\ Tail(packets[r]) \in Seq(Packets)
    BY <1>1, HeadAndTail
  <1>3. /\ m.kind \in Kinds /\ m.id \in Nat /\ m.call \in Calls /\ m.ok \in BOOLEAN
        /\ m.kind = "pending" => m.id \in Ids
    BY <1>2 DEF Packets
  <1>4. packets' \in [Replicas -> Seq(Packets)]
    BY <1>2 DEF Receive, TypeOK
  <1>5. Failed \in Results /\ m.call \in Results
    BY <1>3 DEF Results
  <1>6. UNCHANGED <<issued, serving, requests, lost, events>>
    BY DEF Receive, sourceVars
  <1>7. CASE m.kind = "result"
    <2>1. OnPendingResultAvailable(r, m) BY <1>7 DEF Receive
    <2>2. CASE \E e \in waiting[r] : e[1] = m.id
      <3>1. PICK e \in waiting[r] :
              /\ e[1] = m.id
              /\ waiting' = [waiting EXCEPT ![r] = @ \ {e}]
              /\ Resolve(e[2], IF m.ok THEN m.call ELSE Failed)
        BY <2>1, <2>2 DEF OnPendingResultAvailable
      <3>2. e[2] \in Calls BY DEF TypeOK
      <3>3. waiting' \in [Replicas -> SUBSET (Ids \X Calls)]
        BY <3>1 DEF TypeOK
      <3>4. (IF m.ok THEN m.call ELSE Failed) \in Results BY <1>5
      <3> HIDE DEF m
      <3>5. /\ result' \in [Calls -> Results]
            /\ replica' \in [Replicas -> [source : Sources, state : States, error : Errors]]
        BY <3>1, <3>2, <3>4, ResolveType
      <3> QED BY <1>4, <1>6, <3>3, <3>5 DEF TypeOK
    <2>3. CASE ~ \E e \in waiting[r] : e[1] = m.id
      <3>1. UNCHANGED <<result, replica, waiting>>
        BY <2>1, <2>3 DEF OnPendingResultAvailable
      <3> QED BY <1>4, <1>6, <3>1 DEF TypeOK
    <2> QED BY <2>2, <2>3
  <1>8. CASE m.kind # "result"
    <2>1. Finished(r, m) BY <1>8 DEF Receive
    <2> HIDE DEF m
    <2>2. CASE m.kind = "pending"
      <3>1. /\ waiting' = [waiting EXCEPT ![r] = Inserted(@, m.id, m.call)]
            /\ UNCHANGED <<result, replica>>
        BY <2>1, <2>2 DEF Finished
      <3>2. Inserted(waiting[r], m.id, m.call) \subseteq Ids \X Calls
        BY <1>3, <2>2 DEF Inserted, TypeOK
      <3>3. waiting' \in [Replicas -> SUBSET (Ids \X Calls)]
        BY <3>1, <3>2 DEF TypeOK
      <3> QED BY <1>4, <1>6, <3>1, <3>3 DEF TypeOK
    <2>3. CASE m.kind \in {"value", "failed"}
      <3>1. /\ Resolve(m.call, IF m.kind = "value" THEN m.call ELSE Failed)
            /\ UNCHANGED waiting
        BY <2>1, <2>3 DEF Finished
      <3>2. /\ result' \in [Calls -> Results]
            /\ replica' \in [Replicas -> [source : Sources, state : States, error : Errors]]
        BY <1>3, <1>5, <3>1, ResolveType
      <3> QED BY <1>4, <1>6, <3>1, <3>2 DEF TypeOK
    <2> QED BY <1>3, <1>8, <2>2, <2>3 DEF Kinds
  <1> QED BY <1>7, <1>8

\* Serve() keeps the types.
LEMMA ServeType ==
    ASSUME TypeOK, NEW r \in Replicas, NEW kind \in Kinds, Serve(r, kind)
    PROVE  TypeOK'
  <1> DEFINE s == replica[r].source
             c == Head(requests[r])
             n == Numbered(s, c, kind)
  <1>1. s \in Sources /\ requests[r] \in Seq(Calls) /\ issued[s] \in Seq(Calls)
    BY DEF TypeOK
  <1>2. c \in Calls /\ Tail(requests[r]) \in Seq(Calls)
    BY <1>1, HeadAndTail DEF Serve
  <1>3. n \in Seq(Calls) /\ Len(n) \in Nat /\ (kind = "pending" => Len(n) \in Ids)
    <2>1. Append(issued[s], c) \in Seq(Calls) /\ Len(Append(issued[s], c)) = Len(issued[s]) + 1
      BY <1>1, <1>2, Appended
    <2>2. Len(issued[s]) \in Nat BY <1>1
    <2> QED BY <1>1, <2>1, <2>2 DEF Numbered, Ids
  <1>4. Packet(kind, Len(n), c, FALSE) \in Packets
    BY <1>2, <1>3, PacketType
  <1> HIDE DEF n, c
  <1>5. issued' \in [Sources -> Seq(Calls)]
    BY <1>1, <1>3 DEF Serve, TypeOK, n, c
  <1>6. serving' \in [Sources -> SUBSET (Ids \X Calls)]
    <2>1. kind = "pending" => <<Len(n), c>> \in Ids \X Calls BY <1>2, <1>3
    <2>2. serving' = [serving EXCEPT ![s] =
                         IF kind = "pending" THEN @ \cup {<<Len(n), c>>} ELSE @]
      BY DEF Serve, n, c
    <2> QED BY <1>1, <2>1, <2>2 DEF TypeOK
  <1>7. requests' \in [Replicas -> Seq(Calls)]
    BY <1>2 DEF Serve, TypeOK
  <1>8. packets' \in [Replicas -> Seq(Packets)]
    <2>1. packets' = [packets EXCEPT ![r] = Append(@, Packet(kind, Len(n), c, FALSE))]
      BY DEF Serve, n, c
    <2>2. packets[r] \in Seq(Packets) BY DEF TypeOK
    <2>3. Append(packets[r], Packet(kind, Len(n), c, FALSE)) \in Seq(Packets)
      BY <1>4, <2>2, Appended
    <2> QED BY <2>1, <2>3 DEF TypeOK
  <1> QED BY <1>5, <1>6, <1>7, <1>8 DEF Serve, TypeOK

\* Finish() keeps the types.
LEMMA FinishType ==
    ASSUME TypeOK, NEW s \in Sources, NEW e \in serving[s], NEW ok \in BOOLEAN,
           Finish(s, e, ok)
    PROVE  TypeOK'
  <1>1. e \in Ids \X Calls BY DEF TypeOK
  <1>2. Packet("result", e[1], e[2], ok) \in Packets
    BY <1>1, PacketType DEF Kinds, Ids
  <1>3. packets' \in [Replicas -> Seq(Packets)]
    <2>1. SUFFICES ASSUME NEW r \in Replicas
                   PROVE  /\ packets[r] \in Seq(Packets)
                          /\ Append(packets[r], Packet("result", e[1], e[2], ok)) \in Seq(Packets)
      BY DEF Finish
    <2> QED BY <1>2, Appended DEF TypeOK
  <1> QED BY <1>3 DEF Finish, TypeOK

\* What happens to a connection keeps the types.
LEMMA ConnectionType ==
    ASSUME RemoteAssumption, TypeOK, NEW r \in Replicas, NEW s \in Sources,
           \/ Connect(r) \/ ConnectionLost(r) \/ OnNodeError(r)
           \/ UpdateServiceSettings(r, s) \/ SourceRestarts(s)
    PROVE  TypeOK'
  <1>1. CASE Connect(r)
    <2>1. PICK state \in {"Valid", "SignatureMismatch"} :
            replica' = [replica EXCEPT ![r] = Enters(r, state)]
      BY <1>1 DEF Connect
    <2>2. Enters(r, state) \in [source : Sources, state : States, error : Errors]
      BY EntersType DEF States
    <2> QED BY <1>1, <2>1, <2>2 DEF Connect, TypeOK, sourceVars
  <1>2. CASE ConnectionLost(r)
    <2>1. Enters(r, "Suspect") \in [source : Sources, state : States, error : Errors]
      BY EntersType DEF States
    <2>2. replica' \in [Replicas -> [source : Sources, state : States, error : Errors]]
      BY <1>2, <2>1 DEF ConnectionLost, TypeOK
    <2>3. Cut({r}) /\ UNCHANGED sourceVars /\ events' = events + 1
      BY <1>2 DEF ConnectionLost, Event
    <2>4. /\ requests' \in [Replicas -> Seq(Calls)]
          /\ packets' \in [Replicas -> Seq(Packets)]
          /\ waiting' \in [Replicas -> SUBSET (Ids \X Calls)]
          /\ result' \in [Calls -> Results]
          /\ lost' \subseteq Calls
      BY <2>3, CutType
    <2>5. issued' = issued /\ serving' = serving BY <2>3 DEF sourceVars
    <2>6. events' \in Nat BY <2>3 DEF TypeOK
    <2> QED BY <2>2, <2>4, <2>5, <2>6 DEF TypeOK
  <1>3. CASE OnNodeError(r)
    <2>1. replica' \in [Replicas -> [source : Sources, state : States, error : Errors]]
      BY <1>3 DEF OnNodeError, TypeOK, Errors
    <2> QED BY <1>3, <2>1 DEF OnNodeError, Event, TypeOK, sourceVars
  <1>4. CASE UpdateServiceSettings(r, s)
    <2>1. replica' \in [Replicas -> [source : Sources, state : States, error : Errors]]
      BY <1>4 DEF UpdateServiceSettings, TypeOK, States
    <2>2. Cut({r}) /\ UNCHANGED sourceVars /\ events' = events + 1
      BY <1>4 DEF UpdateServiceSettings, Event
    <2>4. /\ requests' \in [Replicas -> Seq(Calls)]
          /\ packets' \in [Replicas -> Seq(Packets)]
          /\ waiting' \in [Replicas -> SUBSET (Ids \X Calls)]
          /\ result' \in [Calls -> Results]
          /\ lost' \subseteq Calls
      BY <2>2, CutType
    <2>5. issued' = issued /\ serving' = serving BY <2>2 DEF sourceVars
    <2>6. events' \in Nat BY <2>2 DEF TypeOK
    <2> QED BY <2>1, <2>4, <2>5, <2>6 DEF TypeOK
  <1>5. CASE SourceRestarts(s)
    <2>1. \A q \in Replicas :
             Enters(q, "Suspect") \in [source : Sources, state : States, error : Errors]
      BY EntersType DEF States
    <2>2. replica' \in [Replicas -> [source : Sources, state : States, error : Errors]]
      BY <1>5, <2>1 DEF SourceRestarts, TypeOK
    <2>3. Cut(Connected(s)) /\ events' = events + 1
      BY <1>5 DEF SourceRestarts, Event
    <2>4. <<>> \in Seq(Calls) OBVIOUS
    <2>5. /\ issued' \in [Sources -> Seq(Calls)]
          /\ serving' \in [Sources -> SUBSET (Ids \X Calls)]
      BY <1>5, <2>4 DEF SourceRestarts, TypeOK
    <2>6. /\ requests' \in [Replicas -> Seq(Calls)]
          /\ packets' \in [Replicas -> Seq(Packets)]
          /\ waiting' \in [Replicas -> SUBSET (Ids \X Calls)]
          /\ result' \in [Calls -> Results]
          /\ lost' \subseteq Calls
      BY <2>3, CutType
    <2>7. events' \in Nat BY <2>3 DEF TypeOK
    <2> QED BY <2>2, <2>5, <2>6, <2>7 DEF TypeOK
  <1> QED BY <1>1, <1>2, <1>3, <1>4, <1>5

\* CallOperation() keeps the types.
LEMMA CallType ==
    ASSUME RemoteAssumption, TypeOK, NEW c \in Calls, CallOperation(c)
    PROVE  TypeOK'
  <1>1. Caller[c] \in Replicas BY DEF RemoteAssumption
  <1>2. Append(requests[Caller[c]], c) \in Seq(Calls)
    BY <1>1, Appended DEF TypeOK
  <1>3. requests' \in [Replicas -> Seq(Calls)]
    BY <1>1, <1>2 DEF CallOperation, TypeOK
  <1>4. result' \in [Calls -> Results]
    BY DEF CallOperation, TypeOK, Results
  <1> QED BY <1>3, <1>4 DEF CallOperation, TypeOK, sourceVars

\* Every step keeps the types.
LEMMA TypeStep ==
    ASSUME RemoteAssumption, TypeOK, [Next]_vars
    PROVE  TypeOK'
  <1>1. CASE \E c \in Calls : CallOperation(c) BY <1>1, CallType
  <1>2. CASE \E r \in Replicas : Receive(r) BY <1>2, ReceiveType
  <1>3. CASE \E r \in Replicas, kind \in Kinds : Serve(r, kind) BY <1>3, ServeType
  <1>4. CASE \E r \in Replicas : Connect(r) \/ ConnectionLost(r) \/ OnNodeError(r)
    <2>1. Home \in Sources BY DEF RemoteAssumption
    <2> QED BY <1>4, <2>1, ConnectionType
  <1>5. CASE \E r \in Replicas, s \in Sources : UpdateServiceSettings(r, s)
    BY <1>5, ConnectionType
  <1>6. CASE \E s \in Sources : SourceRestarts(s)
    <2>1. CASE Replicas = {}
      <3>1. TypeOK' BY <1>6, <2>1 DEF SourceRestarts, Cut, Event, TypeOK, Connected
      <3> QED BY <3>1
    <2>2. CASE Replicas # {} BY <1>6, <2>2, ConnectionType
    <2> QED BY <2>1, <2>2
  <1>7. CASE \E s \in Sources : \E e \in serving[s], ok \in BOOLEAN : Finish(s, e, ok)
    BY <1>7, FinishType
  <1>8. CASE UNCHANGED vars BY <1>8 DEF vars, sourceVars, TypeOK
  <1> QED BY <1>1, <1>2, <1>3, <1>4, <1>5, <1>6, <1>7, <1>8 DEF Next, CallSteps

\* The initial states are of the right type.
LEMMA TypeInit == ASSUME RemoteAssumption, Init PROVE TypeOK
  <1>1. \A S : <<>> \in Seq(S) OBVIOUS
  <1> QED BY <1>1 DEF Init, TypeOK, RemoteAssumption, States, Errors, Results

\* The state of servers, connections and replies is always of its type.
THEOREM TypeCorrect == Spec => []TypeOK
  <1>1. Init => TypeOK BY RemoteAssumption, TypeInit
  <1>2. TypeOK /\ [Next]_vars => TypeOK' BY RemoteAssumption, TypeStep
  <1> QED BY <1>1, <1>2, PTL DEF Spec

-----------------------------------------------------------------------------
(* Each reply gets its own result *)

\* A source that has numbered these calls has given the number id to c.
IsNumber(calls, id, c) == id \in 1..Len(calls) /\ calls[id] = c

\* Wherever a number occurs, it is the one the source has given to that call.
NumbersAreTrue ==
    /\ \A s \in Sources : \A e \in serving[s] : IsNumber(issued[s], e[1], e[2])
    /\ \A r \in Replicas : \A e \in waiting[r] : IsNumber(issued[replica[r].source], e[1], e[2])
    /\ \A r \in Replicas : \A k \in 1..Len(packets[r]) :
         packets[r][k].kind \in {"pending", "result"} =>
           IsNumber(issued[replica[r].source], packets[r][k].id, packets[r][k].call)

\* Nothing is under way to or from a replica that is not connected.
NothingUnderWay ==
    \A r \in Replicas :
      replica[r].state # "Valid" => packets[r] = <<>> /\ requests[r] = <<>>

IInv == TypeOK /\ NumbersAreTrue /\ NothingUnderWay /\ ResultIsItsOwn

\* The invariant says what was to be shown: of two calls that bear one number of
\* one source, both are the call it was given to.
LEMMA Implies == ASSUME IInv PROVE ResultIsItsOwn /\ WaitsForItsOwn
  <1>1. ResultIsItsOwn BY DEF IInv
  <1>2. ASSUME NEW r \in Replicas, NEW e \in waiting[r],
               NEW f \in serving[replica[r].source], f[1] = e[1]
        PROVE  f[2] = e[2]
    <2>1. replica[r].source \in Sources BY DEF IInv, TypeOK
    <2>2. IsNumber(issued[replica[r].source], e[1], e[2]) BY DEF IInv, NumbersAreTrue
    <2>3. IsNumber(issued[replica[r].source], f[1], f[2]) BY <2>1 DEF IInv, NumbersAreTrue
    <2> QED BY <1>2, <2>2, <2>3 DEF IsNumber
  <1> QED BY <1>1, <1>2 DEF WaitsForItsOwn

\* A number stays true while a source goes on.
LEMMA NumbersStay ==
    ASSUME TypeOK, NEW s \in Sources, NEW id, NEW c \in Calls, IsNumber(issued[s], id, c),
           \/ issued' = issued
           \/ \E t \in Sources, d \in Calls :
                issued' = [issued EXCEPT ![t] = Append(@, d)]
    PROVE  IsNumber(issued'[s], id, c)
  <1>1. CASE issued' = issued BY <1>1 DEF IsNumber
  <1>2. ASSUME NEW t \in Sources, NEW d \in Calls,
               issued' = [issued EXCEPT ![t] = Append(@, d)]
        PROVE  IsNumber(issued'[s], id, c)
    <2>1. CASE s = t
      <3>1. issued[s] \in Seq(Calls) /\ issued'[s] = Append(issued[s], d)
        BY <1>2, <2>1 DEF TypeOK
      <3>2. /\ Len(issued'[s]) = Len(issued[s]) + 1
            /\ \A k \in 1..Len(issued[s]) : issued'[s][k] = issued[s][k]
        BY <3>1, Appended
      <3>3. Len(issued[s]) \in Nat BY <3>1
      <3> QED BY <3>2, <3>3 DEF IsNumber
    <2>2. CASE s # t BY <1>2, <2>2 DEF IsNumber, TypeOK
    <2> QED BY <2>1, <2>2
  <1> QED BY <1>1, <1>2

\* Receive(): what is received bears a true number, and what is answered with it is
\* what waits under that number.
LEMMA ReceiveStep ==
    ASSUME RemoteAssumption, IInv, NEW r \in Replicas, Receive(r)
    PROVE  NumbersAreTrue' /\ NothingUnderWay' /\ ResultIsItsOwn'
  <1> DEFINE m == Head(packets[r])
  <1>1. /\ packets[r] \in Seq(Packets)
        /\ packets[r] # <<>>
        /\ packets' = [packets EXCEPT ![r] = Tail(@)]
        /\ UNCHANGED <<issued, serving, requests>>
    BY DEF IInv, TypeOK, Receive, sourceVars
  <1>2. /\ m \in Packets
        /\ m = packets[r][1]
        /\ 1 \in 1..Len(packets[r])
        /\ \A k \in 1..Len(packets'[r]) :
             k + 1 \in 1..Len(packets[r]) /\ packets'[r][k] = packets[r][k + 1]
    <2>1. packets'[r] = Tail(packets[r]) BY <1>1 DEF IInv, TypeOK
    <2>2. Len(packets[r]) \in Nat \ {0} BY <1>1, HeadAndTail
    <2> DEFINE q == packets[r]
    <2>6. q \in Seq(Packets) /\ q # <<>> BY <1>1
    <2> HIDE DEF q
    <2>7. /\ Head(q) \in Packets
          /\ Head(q) = q[1]
          /\ Len(Tail(q)) = Len(q) - 1
          /\ \A k \in 1..Len(Tail(q)) : Tail(q)[k] = q[k + 1]
      BY <2>6, HeadAndTail
    <2>3. /\ m \in Packets
          /\ m = packets[r][1]
          /\ Len(packets'[r]) = Len(packets[r]) - 1
          /\ \A k \in 1..Len(packets'[r]) : packets'[r][k] = packets[r][k + 1]
      BY <2>1, <2>7 DEF q
    <2>4. \A k \in 1..Len(packets'[r]) : k + 1 \in 1..Len(packets[r]) BY <2>2, <2>3
    <2>5. 1 \in 1..Len(packets[r]) BY <2>2
    <2> QED BY <2>3, <2>4, <2>5
  <1>3. m.call \in Calls /\ m.kind \in Kinds BY <1>2 DEF Packets
  <1>4. m.kind \in {"pending", "result"} => IsNumber(issued[replica[r].source], m.id, m.call)
    BY <1>2 DEF IInv, NumbersAreTrue
  <1> HIDE DEF m
  <1>5. /\ \A q \in Replicas : /\ replica'[q].source = replica[q].source
                               /\ replica'[q].state = replica[q].state
        /\ \A q \in Replicas : \A e \in waiting'[q] :
             e \in waiting[q] \/ (q = r /\ m.kind = "pending" /\ e = <<m.id, m.call>>)
        /\ ResultIsItsOwn'
    <2>1. CASE m.kind = "result"
      <3>1. OnPendingResultAvailable(r, m) BY <2>1 DEF Receive, m
      <3>2. CASE \E e \in waiting[r] : e[1] = m.id
        <4>1. PICK e \in waiting[r] :
                /\ e[1] = m.id
                /\ waiting' = [waiting EXCEPT ![r] = @ \ {e}]
                /\ Resolve(e[2], IF m.ok THEN m.call ELSE Failed)
          BY <3>1, <3>2 DEF OnPendingResultAvailable
        <4>2. e[2] \in Calls BY DEF IInv, TypeOK
        <4>3. e[2] = m.call
          <5>1. IsNumber(issued[replica[r].source], e[1], e[2]) BY DEF IInv, NumbersAreTrue
          <5> QED BY <1>4, <2>1, <4>1, <5>1 DEF IsNumber
        <4>4. m.call \in Results /\ Failed \in Results BY <1>3 DEF Results
        <4>5. \A q \in Replicas : /\ replica'[q].source = replica[q].source
                                  /\ replica'[q].state = replica[q].state
          <5>1. (IF m.ok THEN m.call ELSE Failed) \in Results BY <4>4
          <5> QED BY <4>1, <4>2, <5>1, ResolveType DEF IInv
        <4>6. ResultIsItsOwn'
          BY <4>1, <4>2, <4>3, RemoteAssumption
          DEF Resolve, ResultIsItsOwn, IInv, TypeOK, RemoteAssumption
        <4>7. \A q \in Replicas : waiting'[q] \subseteq waiting[q]
          BY <4>1 DEF IInv, TypeOK
        <4> QED BY <4>5, <4>6, <4>7
      <3>3. CASE ~ \E e \in waiting[r] : e[1] = m.id
        <4>1. UNCHANGED <<result, replica, waiting>>
          BY <3>1, <3>3 DEF OnPendingResultAvailable
        <4> QED BY <4>1 DEF IInv, ResultIsItsOwn
      <3> QED BY <3>2, <3>3
    <2>2. CASE m.kind = "pending"
      <3>1. /\ waiting' = [waiting EXCEPT ![r] = Inserted(@, m.id, m.call)]
            /\ UNCHANGED <<result, replica>>
        BY <2>2 DEF Receive, Finished, m
      <3>2. \A q \in Replicas : \A e \in waiting'[q] :
              e \in waiting[q] \/ (q = r /\ e = <<m.id, m.call>>)
        BY <3>1 DEF IInv, TypeOK, Inserted
      <3> QED BY <2>2, <3>1, <3>2 DEF IInv, ResultIsItsOwn
    <2>3. CASE m.kind \in {"value", "failed"}
      <3>1. /\ Resolve(m.call, IF m.kind = "value" THEN m.call ELSE Failed)
            /\ UNCHANGED waiting
        BY <2>3 DEF Receive, Finished, m
      <3>2. (IF m.kind = "value" THEN m.call ELSE Failed) \in Results
        BY <1>3 DEF Results
      <3>3. \A q \in Replicas : /\ replica'[q].source = replica[q].source
                                /\ replica'[q].state = replica[q].state
        BY <1>3, <3>1, <3>2, ResolveType DEF IInv
      <3>4. ResultIsItsOwn'
        BY <1>3, <3>1 DEF Resolve, ResultIsItsOwn, IInv, TypeOK, RemoteAssumption
      <3> QED BY <3>1, <3>3, <3>4
    <2> QED BY <1>3, <2>1, <2>2, <2>3 DEF Kinds
  <1>6. NumbersAreTrue'
    <2>1. \A s \in Sources : \A e \in serving'[s] : IsNumber(issued'[s], e[1], e[2])
      BY <1>1 DEF IInv, NumbersAreTrue, IsNumber
    <2>2. \A q \in Replicas : \A e \in waiting'[q] : IsNumber(issued'[replica'[q].source], e[1], e[2])
      BY <1>1, <1>4, <1>5 DEF IInv, NumbersAreTrue, IsNumber
    <2>3. ASSUME NEW q \in Replicas, NEW k \in 1..Len(packets'[q]),
                 packets'[q][k].kind \in {"pending", "result"}
          PROVE  IsNumber(issued'[replica'[q].source], packets'[q][k].id, packets'[q][k].call)
      <3>1. CASE q = r
        <4>1. /\ k + 1 \in 1..Len(packets[r])
              /\ packets'[q][k] = packets[r][k + 1]
          BY <1>2, <2>3, <3>1
        <4>2. IsNumber(issued[replica[r].source], packets[r][k + 1].id, packets[r][k + 1].call)
          BY <2>3, <4>1 DEF IInv, NumbersAreTrue
        <4> QED BY <1>1, <1>5, <3>1, <4>1, <4>2
      <3>2. CASE q # r
        <4>1. packets'[q] = packets[q] BY <1>1, <3>2 DEF IInv, TypeOK
        <4> QED BY <1>1, <1>5, <2>3, <4>1 DEF IInv, NumbersAreTrue, IsNumber
      <3> QED BY <3>1, <3>2
    <2> QED BY <2>1, <2>2, <2>3 DEF NumbersAreTrue
  <1>7. NothingUnderWay'
    <2>1. SUFFICES ASSUME NEW q \in Replicas, replica'[q].state # "Valid"
                   PROVE  packets'[q] = <<>> /\ requests'[q] = <<>>
      BY DEF NothingUnderWay
    <2>2. packets[q] = <<>> /\ requests[q] = <<>>
      BY <1>5, <2>1 DEF IInv, NothingUnderWay
    <2> QED BY <1>1, <2>2 DEF IInv, TypeOK
  <1> QED BY <1>5, <1>6, <1>7

\* Serve(): a new number is that of the call served.
LEMMA ServeStep ==
    ASSUME IInv, NEW r \in Replicas, NEW kind \in Kinds, Serve(r, kind)
    PROVE  NumbersAreTrue' /\ NothingUnderWay' /\ ResultIsItsOwn'
  <1> DEFINE s == replica[r].source
             c == Head(requests[r])
             n == Numbered(s, c, kind)
  <1>1. /\ s \in Sources
        /\ c \in Calls
        /\ issued[s] \in Seq(Calls)
        /\ requests[r] # <<>>
    <2>1. requests[r] \in Seq(Calls) /\ requests[r] # <<>> BY DEF IInv, TypeOK, Serve
    <2> QED BY <2>1, HeadAndTail DEF IInv, TypeOK
  <1>2. /\ issued' = [issued EXCEPT ![s] = n]
        /\ issued'[s] = n
        /\ kind = "pending" => IsNumber(n, Len(n), c)
        /\ issued' = issued \/ issued' = [issued EXCEPT ![s] = Append(@, c)]
    <2>1. /\ Append(issued[s], c)[Len(issued[s]) + 1] = c
          /\ Len(Append(issued[s], c)) = Len(issued[s]) + 1
          /\ Len(issued[s]) \in Nat
      BY <1>1, Appended
    <2>2. IsNumber(Append(issued[s], c), Len(Append(issued[s], c)), c)
      BY <2>1 DEF IsNumber
    <2>3. issued' = [issued EXCEPT ![s] = n] BY DEF Serve
    <2> QED BY <1>1, <2>2, <2>3 DEF Numbered, IInv, TypeOK
  <1> HIDE DEF c, n
  <1>3. \A t \in Sources, d \in Calls : \A id :
          IsNumber(issued[t], id, d) => IsNumber(issued'[t], id, d)
    BY <1>1, <1>2, NumbersStay DEF IInv
  <1>4. /\ serving' = [serving EXCEPT ![s] = IF kind = "pending" THEN @ \cup {<<Len(n), c>>} ELSE @]
        /\ requests' = [requests EXCEPT ![r] = Tail(@)]
        /\ packets' = [packets EXCEPT ![r] = Append(@, Packet(kind, Len(n), c, FALSE))]
        /\ kind # "result"
        /\ UNCHANGED <<replica, waiting, result>>
    BY DEF Serve, c, n
  <1> HIDE DEF s
  <1>5. ASSUME NEW t \in Sources, NEW e \in serving'[t]
        PROVE  IsNumber(issued'[t], e[1], e[2])
    <2>1. CASE e \in serving[t]
      <3>1. IsNumber(issued[t], e[1], e[2]) BY <2>1 DEF IInv, NumbersAreTrue
      <3>2. e[2] \in Calls BY <2>1 DEF IInv, TypeOK
      <3> QED BY <1>3, <3>1, <3>2
    <2>2. CASE e \notin serving[t]
      <3>1. t = s /\ kind = "pending" /\ e = <<Len(n), c>>
        BY <1>1, <1>4, <1>5, <2>2 DEF IInv, TypeOK
      <3> QED BY <1>2, <3>1
    <2> QED BY <2>1, <2>2
  <1>6. ASSUME NEW q \in Replicas, NEW e \in waiting'[q]
        PROVE  IsNumber(issued'[replica'[q].source], e[1], e[2])
    <2>1. /\ replica'[q].source = replica[q].source
          /\ replica[q].source \in Sources
          /\ e \in waiting[q] /\ e[2] \in Calls
      BY <1>4, <1>6 DEF IInv, TypeOK
    <2>2. IsNumber(issued[replica[q].source], e[1], e[2]) BY <2>1 DEF IInv, NumbersAreTrue
    <2> QED BY <1>3, <2>1, <2>2
  <1>7. ASSUME NEW q \in Replicas, NEW k \in 1..Len(packets'[q]),
               packets'[q][k].kind \in {"pending", "result"}
        PROVE  IsNumber(issued'[replica'[q].source], packets'[q][k].id, packets'[q][k].call)
    <2> DEFINE old == packets[q]
    <2>1. /\ replica'[q].source = replica[q].source /\ replica[q].source \in Sources
          /\ old \in Seq(Packets)
      BY <1>4 DEF IInv, TypeOK
    <2>2. CASE k \in 1..Len(old) /\ packets'[q][k] = old[k]
      <3>1. IsNumber(issued[replica[q].source], old[k].id, old[k].call)
        BY <1>7, <2>2 DEF IInv, NumbersAreTrue
      <3>2. old[k] \in Packets BY <2>1, <2>2
      <3>3. old[k].call \in Calls BY <3>2 DEF Packets
      <3> QED BY <1>3, <2>1, <2>2, <3>1, <3>3
    <2>3. CASE ~(k \in 1..Len(old) /\ packets'[q][k] = old[k])
      <3>1. q = r BY <1>4, <1>7, <2>3 DEF IInv, TypeOK
      <3>2. packets'[q] = Append(old, Packet(kind, Len(n), c, FALSE))
        BY <1>4, <3>1 DEF IInv, TypeOK
      <3>3. Len(n) \in Nat BY <1>1 DEF n, Numbered
      <3>4. Packet(kind, Len(n), c, FALSE) \in Packets
        <4>1. kind = "pending" => Len(n) \in Ids BY <1>2, <3>3 DEF IsNumber, Ids
        <4> QED BY <1>1, <3>3, <4>1, PacketType
      <3> DEFINE pkt == Packet(kind, Len(n), c, FALSE)
      <3>5. /\ Len(packets'[q]) = Len(old) + 1
            /\ packets'[q][Len(old) + 1] = pkt
            /\ \A j \in 1..Len(old) : packets'[q][j] = old[j]
        <4>1. pkt \in Packets /\ packets'[q] = Append(old, pkt) BY <3>2, <3>4
        <4> HIDE DEF pkt, old
        <4> QED BY <2>1, <4>1, Appended
      <3>6. k = Len(old) + 1 BY <1>7, <2>1, <2>3, <3>5
      <3>7. packets'[q][k].kind = kind /\ packets'[q][k].id = Len(n) /\ packets'[q][k].call = c
        BY <3>5, <3>6 DEF Packet
      <3>8. replica'[q].source = s BY <2>1, <3>1 DEF s
      <3> QED BY <1>2, <1>4, <1>7, <3>7, <3>8
    <2> QED BY <2>2, <2>3
  <1>8. NothingUnderWay'
    <2>1. SUFFICES ASSUME NEW q \in Replicas, replica'[q].state # "Valid"
                   PROVE  packets'[q] = <<>> /\ requests'[q] = <<>>
      BY DEF NothingUnderWay
    <2>2. packets[q] = <<>> /\ requests[q] = <<>>
      BY <1>4, <2>1 DEF IInv, NothingUnderWay
    <2>3. q # r BY <1>1, <2>2
    <2> QED BY <1>4, <2>2, <2>3 DEF IInv, TypeOK
  <1> QED BY <1>4, <1>5, <1>6, <1>7, <1>8 DEF NumbersAreTrue, IInv, ResultIsItsOwn

\* Finish(): the signal bears the number of what was served.
LEMMA FinishStep ==
    ASSUME IInv, NEW s \in Sources, NEW e \in serving[s], NEW ok \in BOOLEAN,
           Finish(s, e, ok)
    PROVE  NumbersAreTrue' /\ NothingUnderWay' /\ ResultIsItsOwn'
  <1> DEFINE m == Packet("result", e[1], e[2], ok)
  <1>1. /\ UNCHANGED <<issued, replica, requests, waiting, result>>
        /\ \A t \in Sources : serving'[t] \subseteq serving[t]
        /\ packets' = [r \in Replicas |->
             IF r \in Connected(s) THEN Append(packets[r], m) ELSE packets[r]]
    BY DEF Finish, IInv, TypeOK
  <1>2. e \in Ids \X Calls /\ IsNumber(issued[s], e[1], e[2])
    BY DEF IInv, TypeOK, NumbersAreTrue
  <1>3. m \in Packets BY <1>2, PacketType DEF Kinds, Ids
  <1>4. m.id = e[1] /\ m.call = e[2] BY DEF Packet
  <1> HIDE DEF m
  <1>5. ASSUME NEW q \in Replicas, NEW k \in 1..Len(packets'[q]),
               packets'[q][k].kind \in {"pending", "result"}
        PROVE  IsNumber(issued'[replica'[q].source], packets'[q][k].id, packets'[q][k].call)
    <2>1. packets[q] \in Seq(Packets) BY DEF IInv, TypeOK
    <2>2. CASE q \in Connected(s)
      <3>1. packets'[q] = Append(packets[q], m) BY <1>1, <2>2
      <3>2. /\ Len(packets'[q]) = Len(packets[q]) + 1
            /\ packets'[q][Len(packets[q]) + 1] = m
            /\ \A j \in 1..Len(packets[q]) : packets'[q][j] = packets[q][j]
        BY <1>3, <2>1, <3>1, Appended
      <3>3. CASE k = Len(packets[q]) + 1
        <4>1. replica[q].source = s BY <2>2 DEF Connected
        <4> QED BY <1>1, <1>2, <1>4, <3>2, <3>3, <4>1
      <3>4. CASE k # Len(packets[q]) + 1
        <4>1. Len(packets[q]) \in Nat BY <2>1
        <4>2. k \in 1..Len(packets[q]) BY <1>5, <3>2, <3>4, <4>1
        <4> QED BY <1>1, <1>5, <3>2, <4>2 DEF IInv, NumbersAreTrue
      <3> QED BY <3>3, <3>4
    <2>3. CASE q \notin Connected(s)
      <3>1. packets'[q] = packets[q] BY <1>1, <2>3
      <3> QED BY <1>1, <1>5, <3>1 DEF IInv, NumbersAreTrue
    <2> QED BY <2>2, <2>3
  <1>6. ASSUME NEW t \in Sources, NEW f \in serving'[t]
        PROVE  IsNumber(issued'[t], f[1], f[2])
    BY <1>1, <1>6 DEF IInv, NumbersAreTrue
  <1>7. ASSUME NEW q \in Replicas, NEW f \in waiting'[q]
        PROVE  IsNumber(issued'[replica'[q].source], f[1], f[2])
    BY <1>1, <1>7 DEF IInv, NumbersAreTrue
  <1>8. NothingUnderWay'
    <2>1. SUFFICES ASSUME NEW q \in Replicas, replica'[q].state # "Valid"
                   PROVE  packets'[q] = <<>> /\ requests'[q] = <<>>
      BY DEF NothingUnderWay
    <2>2. q \notin Connected(s) BY <1>1, <2>1 DEF Connected
    <2> QED BY <1>1, <2>1, <2>2 DEF IInv, NothingUnderWay
  <1> QED BY <1>1, <1>5, <1>6, <1>7, <1>8 DEF NumbersAreTrue, IInv, ResultIsItsOwn

\* A replica whose connection is lost, or that gets another, has nothing under way;
\* if it gets another source, or its source starts again, nothing waits.
LEMMA CutStep ==
    ASSUME IInv, NEW R \in SUBSET Replicas, Cut(R),
           replica' \in [Replicas -> [source : Sources, state : States, error : Errors]],
           \A q \in Replicas \ R : replica'[q] = replica[q],
           \A t \in Sources : serving'[t] = serving[t] \/ serving'[t] = {},
           \A t \in Sources : issued'[t] = issued[t] \/ serving'[t] = {},
           \A q \in Replicas : waiting[q] # {} =>
             issued'[replica'[q].source] = issued[replica[q].source],
           \A q \in Replicas \ R : packets[q] # <<>> =>
             issued'[replica'[q].source] = issued[replica[q].source]
    PROVE  NumbersAreTrue' /\ NothingUnderWay' /\ ResultIsItsOwn'
  <1>1. /\ UNCHANGED <<waiting, result>>
        /\ \A q \in R : packets'[q] = <<>> /\ requests'[q] = <<>>
        /\ \A q \in Replicas \ R : packets'[q] = packets[q] /\ requests'[q] = requests[q]
    BY DEF Cut
  <1>2. ASSUME NEW t \in Sources, NEW f \in serving'[t]
        PROVE  IsNumber(issued'[t], f[1], f[2])
    BY <1>2 DEF IInv, NumbersAreTrue
  <1>3. ASSUME NEW q \in Replicas, NEW f \in waiting'[q]
        PROVE  IsNumber(issued'[replica'[q].source], f[1], f[2])
    BY <1>1, <1>3 DEF IInv, NumbersAreTrue
  <1>4. ASSUME NEW q \in Replicas, NEW k \in 1..Len(packets'[q]),
               packets'[q][k].kind \in {"pending", "result"}
        PROVE  IsNumber(issued'[replica'[q].source], packets'[q][k].id, packets'[q][k].call)
    <2>1. packets'[q] # <<>> BY <1>4
    <2>2. q \notin R /\ packets'[q] = packets[q] BY <1>1, <2>1
    <2>3. issued'[replica'[q].source] = issued[replica[q].source] BY <2>1, <2>2
    <2> QED BY <1>4, <2>2, <2>3 DEF IInv, NumbersAreTrue
  <1>5. NothingUnderWay' BY <1>1 DEF IInv, NothingUnderWay
  <1> QED BY <1>1, <1>2, <1>3, <1>4, <1>5 DEF NumbersAreTrue, IInv, ResultIsItsOwn

\* The invariant holds initially.
LEMMA InvInit == ASSUME RemoteAssumption, Init PROVE IInv
  <1>1. TypeOK BY TypeInit
  <1>2. NumbersAreTrue /\ NothingUnderWay BY DEF Init, NumbersAreTrue, NothingUnderWay
  <1>3. ResultIsItsOwn BY DEF Init, ResultIsItsOwn, RemoteAssumption
  <1> QED BY <1>1, <1>2, <1>3 DEF IInv

\* Every step keeps the invariant, if servers restart and URLs change only while
\* nothing waits.
LEMMA InvStep ==
    ASSUME RemoteAssumption, ~RestartsAnyTime, IInv, [Next]_vars
    PROVE  IInv'
  <1>1. TypeOK' BY TypeStep DEF IInv
  <1>2. CASE \E c \in Calls : CallOperation(c)
    <2>1. PICK c \in Calls : CallOperation(c) BY <1>2
    <2>2. UNCHANGED <<issued, serving, replica, packets, waiting>>
      BY <2>1 DEF CallOperation, sourceVars
    <2>3. NumbersAreTrue' BY <2>2 DEF IInv, NumbersAreTrue
    <2>4. NothingUnderWay' BY <2>1, <2>2 DEF IInv, TypeOK, NothingUnderWay, CallOperation
    <2>5. ResultIsItsOwn'
      BY <2>1 DEF IInv, TypeOK, ResultIsItsOwn, CallOperation, RemoteAssumption
    <2> QED BY <1>1, <2>3, <2>4, <2>5 DEF IInv
  <1>3. CASE \E r \in Replicas : Receive(r) BY <1>1, <1>3, ReceiveStep DEF IInv
  <1>4. CASE \E r \in Replicas, kind \in Kinds : Serve(r, kind)
    BY <1>1, <1>4, ServeStep DEF IInv
  <1>5. CASE \E r \in Replicas : Connect(r) \/ OnNodeError(r)
    <2>1. PICK r \in Replicas : Connect(r) \/ OnNodeError(r) BY <1>5
    <2>2. /\ UNCHANGED <<issued, serving, requests, packets, waiting, result>>
          /\ \A q \in Replicas : replica'[q].source = replica[q].source
          /\ \A q \in Replicas : replica'[q].state # "Valid" => replica[q].state # "Valid"
      <3>1. CASE Connect(r)
        <4>1. PICK state \in States : replica' = [replica EXCEPT ![r] = Enters(r, state)]
          BY <3>1 DEF Connect, States
        <4>2. Enters(r, state).source = replica[r].source
          BY DEF Enters, IInv, TypeOK
        <4>3. replica[r].state # "Valid" BY <3>1 DEF Connect
        <4> QED BY <3>1, <4>1, <4>2, <4>3 DEF Connect, sourceVars, IInv, TypeOK
      <3>2. CASE OnNodeError(r)
        BY <3>2 DEF OnNodeError, sourceVars, IInv, TypeOK
      <3> QED BY <2>1, <3>1, <3>2
    <2>4. NumbersAreTrue' BY <2>2 DEF IInv, NumbersAreTrue
    <2> QED BY <1>1, <2>2, <2>4 DEF IInv, NothingUnderWay, ResultIsItsOwn
  <1>6. CASE \E r \in Replicas : ConnectionLost(r)
    <2>1. PICK r \in Replicas : ConnectionLost(r) BY <1>6
    <2>2. /\ UNCHANGED <<issued, serving>>
          /\ Cut({r})
          /\ \A q \in Replicas : replica'[q].source = replica[q].source
          /\ \A q \in Replicas \ {r} : replica'[q] = replica[q]
      BY <2>1 DEF ConnectionLost, Enters, sourceVars, IInv, TypeOK
    <2> QED BY <1>1, <2>2, CutStep DEF IInv, TypeOK
  <1>7. CASE \E r \in Replicas, s \in Sources : UpdateServiceSettings(r, s)
    <2>1. PICK r \in Replicas, s \in Sources : UpdateServiceSettings(r, s) BY <1>7
    <2>2. /\ UNCHANGED <<issued, serving>>
          /\ Cut({r})
          /\ waiting[r] = {}
          /\ \A q \in Replicas \ {r} : replica'[q] = replica[q]
      BY <2>1 DEF UpdateServiceSettings, Quiet, sourceVars, IInv, TypeOK
    <2> QED BY <1>1, <2>2, CutStep DEF IInv, TypeOK
  <1>8. CASE \E s \in Sources : SourceRestarts(s)
    <2>1. PICK s \in Sources : SourceRestarts(s) BY <1>8
    <2>2. /\ Cut(Connected(s))
          /\ Connected(s) \in SUBSET Replicas
          /\ \A q \in Replicas : replica'[q].source = replica[q].source
          /\ \A q \in Replicas \ Connected(s) : replica'[q] = replica[q]
          /\ \A t \in Sources : t # s => issued'[t] = issued[t] /\ serving'[t] = serving[t]
          /\ serving'[s] = {}
      BY <2>1 DEF SourceRestarts, Connected, Enters, IInv, TypeOK
    <2>3. \A q \in Replicas : waiting[q] # {} => replica[q].source # s
      BY <2>1 DEF SourceRestarts, Quiet
    <2>4. \A q \in Replicas \ Connected(s) : packets[q] # <<>> => replica[q].source # s
      BY DEF IInv, NothingUnderWay, Connected
    <2>5. \A q \in Replicas : replica[q].source \in Sources BY DEF IInv, TypeOK
    <2> HIDE DEF Connected
    <2>6. /\ \A t \in Sources : serving'[t] = serving[t] \/ serving'[t] = {}
          /\ \A t \in Sources : issued'[t] = issued[t] \/ serving'[t] = {}
          /\ \A q \in Replicas : waiting[q] # {} =>
               issued'[replica'[q].source] = issued[replica[q].source]
          /\ \A q \in Replicas \ Connected(s) : packets[q] # <<>> =>
               issued'[replica'[q].source] = issued[replica[q].source]
      BY <2>2, <2>3, <2>4, <2>5
    <2>7. NumbersAreTrue' /\ NothingUnderWay' /\ ResultIsItsOwn'
      BY <1>1, <2>2, <2>6, CutStep DEF TypeOK
    <2> QED BY <1>1, <2>7 DEF IInv
  <1>9. CASE \E s \in Sources : \E e \in serving[s], ok \in BOOLEAN : Finish(s, e, ok)
    BY <1>1, <1>9, FinishStep DEF IInv
  <1>10. CASE UNCHANGED vars
    <2>1. UNCHANGED <<issued, serving, replica, requests, packets, waiting, result>>
      BY <1>10 DEF vars, sourceVars
    <2> QED BY <1>1, <2>1 DEF IInv, NumbersAreTrue, NothingUnderWay, ResultIsItsOwn
  <1> QED BY <1>2, <1>3, <1>4, <1>5, <1>6, <1>7, <1>8, <1>9, <1>10 DEF Next, CallSteps

\* If servers restart, and URLs change, only while nothing waits, every reply that
\* succeeds does so with the result of its own call, and nobody waits under a number
\* that will be used for another.
THEOREM OwnResults ==
    ASSUME ~RestartsAnyTime
    PROVE  Spec => [](ResultIsItsOwn /\ WaitsForItsOwn)
  <1>1. Init => IInv BY RemoteAssumption, InvInit
  <1>2. IInv /\ [Next]_vars => IInv' BY RemoteAssumption, InvStep
  <1>3. IInv => ResultIsItsOwn /\ WaitsForItsOwn BY Implies
  <1> QED BY <1>1, <1>2, <1>3, PTL DEF Spec

\* A feature that has lost its connection has an error.
THEOREM LossReported == Spec => []LossIsReported
  <1> DEFINE I == TypeOK /\ LossIsReported
  <1>1. Init => I BY RemoteAssumption, TypeInit DEF Init, LossIsReported
  <1>2. I /\ [Next]_vars => I'
    <2>1. SUFFICES ASSUME I, [Next]_vars, NEW q \in Replicas,
                          replica'[q].state \in {"Suspect", "SignatureMismatch"}
                   PROVE  replica'[q].error # "NoError"
      BY RemoteAssumption, TypeStep DEF LossIsReported
    <2>2. CASE replica'[q] = replica[q] BY <2>1, <2>2 DEF LossIsReported
    <2>3. ASSUME NEW c \in Calls, NEW res, Resolve(c, res) PROVE replica'[q].error # "NoError"
      BY <2>1, <2>3 DEF Resolve, TypeOK, LossIsReported
    <2>4. ASSUME NEW r \in Replicas, Receive(r) PROVE replica'[q].error # "NoError"
      <3> DEFINE m == Head(packets[r])
      <3>1. m \in Packets BY <2>1, <2>4, HeadAndTail DEF TypeOK, Receive
      <3>2. m.call \in Calls /\ m.kind \in Kinds BY <3>1 DEF Packets
      <3> HIDE DEF m
      <3>3. CASE m.kind = "result"
        <4>1. OnPendingResultAvailable(r, m) BY <2>4, <3>3 DEF Receive, m
        <4>2. \A e \in waiting[r] : e[2] \in Calls BY <2>1 DEF TypeOK
        <4> QED BY <2>2, <2>3, <4>1, <4>2 DEF OnPendingResultAvailable
      <3>4. CASE m.kind = "pending" BY <2>2, <2>4, <3>4 DEF Receive, Finished, m
      <3>5. CASE m.kind = "value" BY <2>3, <2>4, <3>2, <3>5 DEF Receive, Finished, m
      <3>6. CASE m.kind = "failed" BY <2>3, <2>4, <3>2, <3>6 DEF Receive, Finished, m
      <3> QED BY <3>2, <3>3, <3>4, <3>5, <3>6 DEF Kinds
    <2>5. ASSUME NEW r \in Replicas,
                 Connect(r) \/ ConnectionLost(r) \/ OnNodeError(r)
          PROVE  replica'[q].error # "NoError"
      BY <2>1, <2>2, <2>5 DEF Connect, ConnectionLost, OnNodeError, Enters, ErrorIn, TypeOK
    <2>6. ASSUME NEW r \in Replicas, NEW s \in Sources, UpdateServiceSettings(r, s)
          PROVE  replica'[q].error # "NoError"
      BY <2>1, <2>2, <2>6 DEF UpdateServiceSettings, TypeOK
    <2>7. ASSUME NEW s \in Sources, SourceRestarts(s) PROVE replica'[q].error # "NoError"
      BY <2>1, <2>2, <2>7 DEF SourceRestarts, Enters, ErrorIn, TypeOK
    <2>8. CASE UNCHANGED replica BY <2>2, <2>8
    <2> QED BY <2>1, <2>4, <2>5, <2>6, <2>7, <2>8
            DEF Next, CallSteps, CallOperation, Serve, Finish, vars
  <1>3. I => LossIsReported OBVIOUS
  <1> QED BY <1>1, <1>2, <1>3, PTL DEF Spec

-----------------------------------------------------------------------------
(* Each call is answered once *)

\* The call c of the program r has no answer yet.
Open(r, c) == c \in Calls /\ Caller[c] = r /\ result[c] = Pending

\* The places of the packets that answer a call with a result, a failure or a number.
Answers(r) == {k \in 1..Len(packets[r]) : packets[r][k].kind # "result"}

\* What a program has under way are calls of its own that wait for their answer, and
\* each is in one place: on its way to the source, on its way back, or waiting
\* under a number.
Once(r) ==
    /\ \A k \in 1..Len(requests[r]) : Open(r, requests[r][k])
    /\ \A k \in Answers(r) : Open(r, packets[r][k].call)
    /\ \A e \in waiting[r] : Open(r, e[2])
    /\ \A j, k \in 1..Len(requests[r]) : requests[r][j] = requests[r][k] => j = k
    /\ \A j, k \in Answers(r) : packets[r][j].call = packets[r][k].call => j = k
    /\ \A e, f \in waiting[r] : e[2] = f[2] => e = f
    /\ \A j \in 1..Len(requests[r]), k \in Answers(r) : requests[r][j] # packets[r][k].call
    /\ \A j \in 1..Len(requests[r]), e \in waiting[r] : requests[r][j] # e[2]
    /\ \A k \in Answers(r), e \in waiting[r] : packets[r][k].call # e[2]

OnceInv == TypeOK /\ \A r \in Replicas : Once(r)

\* What a step may do to the answers: nothing, call, or answer what waits.
Answering ==
    \/ UNCHANGED result
    \/ \E c \in Calls : Promised!Call(c)
    \/ \E c \in Calls, res \in Calls \cup {Failed} :
         result[c] = Pending /\ result' = [result EXCEPT ![c] = res]

\* A program that loses nothing but what is on its way, and whose calls stay open,
\* keeps them once.
LEMMA OnceKeeps ==
    ASSUME NEW q \in Replicas, Once(q),
           requests'[q] = requests[q] \/ requests'[q] = <<>>,
           packets'[q] = packets[q] \/ packets'[q] = <<>>,
           waiting'[q] = waiting[q],
           \A c \in Calls : Open(q, c) => result'[c] = Pending
    PROVE  Once(q)'
  <1>1. \A k \in 1..Len(requests'[q]) :
          k \in 1..Len(requests[q]) /\ requests'[q][k] = requests[q][k]
    OBVIOUS
  <1>2. \A k \in Answers(q)' : k \in Answers(q) /\ packets'[q][k] = packets[q][k]
    BY DEF Answers
  <1>3. \A c : Open(q, c) => Open(q, c)' BY DEF Open
  <1> HIDE DEF Open, Answers
  <1> QED BY <1>1, <1>2, <1>3 DEF Once

\* A new call is nowhere yet.
LEMMA CallOnce ==
    ASSUME RemoteAssumption, OnceInv, NEW c \in Calls, CallOperation(c)
    PROVE  Answering /\ \A q \in Replicas : Once(q)'
  <1> DEFINE r == Caller[c]
  <1>1. /\ r \in Replicas
        /\ result[c] = NotCalled
        /\ UNCHANGED <<packets, waiting>>
        /\ \A d \in Calls : d # c => result'[d] = result[d]
        /\ Promised!Call(c)
    BY DEF CallOperation, RemoteAssumption, OnceInv, TypeOK, Promised!Call
  <1>2. \A q \in Replicas : \A d : Open(q, d) => d # c /\ Open(q, d)'
    BY <1>1, RemoteAssumption DEF Open, RemoteAssumption
  <1>3. \A q \in Replicas : requests'[q] # requests[q] =>
          /\ q = r
          /\ requests'[q] = Append(requests[q], c)
          /\ result'[c] = Pending
    BY DEF CallOperation, OnceInv, TypeOK
  <1>4. ASSUME NEW q \in Replicas PROVE Once(q)'
    <2>1. CASE requests'[q] = requests[q]
      <3>1. \A d \in Calls : Open(q, d) => result'[d] = Pending BY <1>2 DEF Open
      <3> QED BY <1>1, <2>1, <3>1, OnceKeeps DEF OnceInv
    <2>2. CASE requests'[q] # requests[q]
      <3> DEFINE old == requests[q]
      <3>1. old \in Seq(Calls) /\ requests'[q] = Append(old, c) BY <1>3, <2>2 DEF OnceInv, TypeOK
      <3>2. /\ Len(requests'[q]) = Len(old) + 1
            /\ requests'[q][Len(old) + 1] = c
            /\ \A k \in 1..Len(old) : requests'[q][k] = old[k]
            /\ Len(old) \in Nat
        BY <3>1, Appended
      <3>3. \A k \in 1..Len(requests'[q]) :
              \/ k \in 1..Len(old) /\ requests'[q][k] = old[k]
              \/ k = Len(old) + 1 /\ requests'[q][k] = c
        BY <3>2
      <3>4. Answers(q)' = Answers(q) BY <1>1 DEF Answers
      <3>5. Open(q, c)' BY <1>3, <2>2 DEF Open
      <3>6. Once(q) BY DEF OnceInv
      <3> HIDE DEF old
      <3>7. \A k \in 1..Len(old) : old[k] # c BY <1>2, <3>6 DEF Once, old
      <3>8. \A k \in Answers(q) : packets[q][k].call # c BY <1>2, <3>6 DEF Once
      <3>9. \A e \in waiting[q] : e[2] # c BY <1>2, <3>6 DEF Once
      <3>10. waiting'[q] = waiting[q] /\ packets'[q] = packets[q] BY <1>1
      <3>11. /\ \A e, f \in waiting[q] : e[2] = f[2] => e = f
             /\ \A j, k \in Answers(q) : packets[q][j].call = packets[q][k].call => j = k
             /\ \A k \in Answers(q), e \in waiting[q] : packets[q][k].call # e[2]
        BY <3>6 DEF Once
      <3>12. \A j, k \in 1..Len(requests'[q]) : requests'[q][j] = requests'[q][k] => j = k
        <4>1. SUFFICES ASSUME NEW j \in 1..Len(requests'[q]), NEW k \in 1..Len(requests'[q]),
                              requests'[q][j] = requests'[q][k]
                       PROVE  j = k
          OBVIOUS
        <4>2. \A i, l \in 1..Len(old) : old[i] = old[l] => i = l BY <3>6 DEF Once, old
        <4> QED BY <3>3, <3>7, <4>1, <4>2
      <3>13. /\ \A j \in 1..Len(requests'[q]), k \in Answers(q) :
                  requests'[q][j] # packets[q][k].call
             /\ \A j \in 1..Len(requests'[q]), e \in waiting[q] : requests'[q][j] # e[2]
        BY <3>3, <3>6, <3>8, <3>9 DEF Once, old
      <3>14. /\ \A k \in 1..Len(requests'[q]) : Open(q, requests[q][k])'
             /\ \A k \in Answers(q)' : Open(q, packets[q][k].call)'
             /\ \A e \in waiting'[q] : Open(q, e[2])'
        <4>1. \A k \in 1..Len(requests'[q]) :
                \/ requests'[q][k] = c
                \/ k \in 1..Len(old) /\ requests'[q][k] = old[k] /\ Open(q, old[k])
          BY <3>3, <3>6 DEF Once, old
        <4>2. \A k \in 1..Len(requests'[q]) : Open(q, requests[q][k])' BY <1>2, <3>5, <4>1
        <4>3. \A k \in Answers(q)' : Open(q, packets[q][k].call)'
          BY <1>2, <3>4, <3>6, <3>10 DEF Once
        <4>4. \A e \in waiting'[q] : Open(q, e[2])' BY <1>2, <3>6, <3>10 DEF Once
        <4> QED BY <4>2, <4>3, <4>4
      <3> HIDE DEF Open, Answers
      <3> QED BY <3>4, <3>10, <3>11, <3>12, <3>13, <3>14 DEF Once
    <2> QED BY <2>1, <2>2
  <1> QED BY <1>1, <1>4 DEF Answering

\* What is served is answered, and no longer asked for.
LEMMA ServeOnce ==
    ASSUME OnceInv, NEW r \in Replicas, NEW kind \in Kinds, Serve(r, kind)
    PROVE  Answering /\ \A q \in Replicas : Once(q)'
  <1> DEFINE old == requests[r]
             c == Head(old)
             id == Len(Numbered(replica[r].source, c, kind))
             pkt == Packet(kind, id, c, FALSE)
             pks == packets[r]
  <1>1. /\ old \in Seq(Calls) /\ old # <<>>
        /\ pks \in Seq(Packets)
        /\ requests' = [requests EXCEPT ![r] = Tail(@)]
        /\ packets' = [packets EXCEPT ![r] = Append(@, pkt)]
        /\ kind # "result"
        /\ UNCHANGED <<waiting, result>>
    BY DEF Serve, OnceInv, TypeOK
  <1>2. /\ requests'[r] = Tail(old)
        /\ packets'[r] = Append(pks, pkt)
        /\ \A q \in Replicas \ {r} : requests'[q] = requests[q] /\ packets'[q] = packets[q]
    BY <1>1 DEF OnceInv, TypeOK
  <1>3. pkt.kind = kind /\ pkt.call = c BY DEF Packet
  <1> HIDE DEF pkt, id
  <1> HIDE DEF c
  <1>4. /\ c \in Calls
        /\ c = old[1]
        /\ 1 \in 1..Len(old)
        /\ \A k \in 1..Len(requests'[r]) :
             k + 1 \in 1..Len(old) /\ requests'[r][k] = old[k + 1]
    <2> HIDE DEF old
    <2>1. /\ Head(old) \in Calls
          /\ Len(old) \in Nat \ {0}
          /\ Head(old) = old[1]
          /\ Len(Tail(old)) = Len(old) - 1
          /\ \A k \in 1..Len(Tail(old)) : Tail(old)[k] = old[k + 1]
      BY <1>1, HeadAndTail
    <2>2. \A k \in 1..Len(requests'[r]) : k + 1 \in 1..Len(old) BY <1>2, <2>1
    <2>3. 1 \in 1..Len(old) BY <2>1
    <2> QED BY <1>2, <2>1, <2>2, <2>3 DEF c
  <1>5. /\ Len(packets'[r]) = Len(pks) + 1
        /\ packets'[r][Len(pks) + 1] = pkt
        /\ \A k \in 1..Len(pks) : packets'[r][k] = pks[k]
        /\ Len(pks) \in Nat
    BY <1>1, <1>2
  <1>6. \A k \in Answers(r)' :
          \/ k \in Answers(r) /\ packets'[r][k] = packets[r][k]
          \/ k = Len(pks) + 1 /\ packets'[r][k].call = c
    BY <1>3, <1>5 DEF Answers
  <1>7. Once(r) BY DEF OnceInv
  <1>8. \A q \in Replicas : \A d : Open(q, d) => Open(q, d)' BY <1>1 DEF Open
  <1>9. /\ Open(r, c)
        /\ \A k \in 1..Len(old) : k # 1 => old[k] # c
        /\ \A k \in Answers(r) : packets[r][k].call # c
        /\ \A e \in waiting[r] : e[2] # c
    BY <1>4, <1>7 DEF Once
  <1>10. Once(r)'
    <2> HIDE DEF pks
    <2>1. \A k \in 1..Len(requests'[r]) : requests'[r][k] # c
      <3>1. ASSUME NEW k \in 1..Len(requests'[r]) PROVE requests'[r][k] # c
        <4>1. k + 1 \in 1..Len(old) /\ requests'[r][k] = old[k + 1] BY <1>4, <3>1
        <4>2. k + 1 # 1 BY <3>1
        <4> QED BY <1>9, <4>1, <4>2
      <3> QED BY <3>1
    <2>2. /\ \A k \in 1..Len(requests'[r]) : Open(r, requests[r][k])'
          /\ \A k \in Answers(r)' : Open(r, packets[r][k].call)'
          /\ \A e \in waiting'[r] : Open(r, e[2])'
      BY <1>1, <1>4, <1>6, <1>7, <1>8, <1>9 DEF Once
    <2>3. \A j, k \in 1..Len(requests'[r]) : requests'[r][j] = requests'[r][k] => j = k
      <3>1. ASSUME NEW j \in 1..Len(requests'[r]), NEW k \in 1..Len(requests'[r]),
                   requests'[r][j] = requests'[r][k]
            PROVE  j = k
        <4>1. j + 1 = k + 1 BY <1>4, <1>7, <3>1 DEF Once
        <4> QED BY <3>1, <4>1
      <3> QED BY <3>1
    <2>4. \A j, k \in Answers(r)' : packets'[r][j].call = packets'[r][k].call => j = k
      <3>1. SUFFICES ASSUME NEW j \in Answers(r)', NEW k \in Answers(r)',
                            packets'[r][j].call = packets'[r][k].call
                     PROVE  j = k
        OBVIOUS
      <3>2. \A i, l \in Answers(r) : packets[r][i].call = packets[r][l].call => i = l
        BY <1>7 DEF Once
      <3> QED BY <1>6, <1>9, <3>1, <3>2
    <2>5. /\ \A e, f \in waiting'[r] : e[2] = f[2] => e = f
          /\ \A j \in 1..Len(requests'[r]), k \in Answers(r)' :
               requests'[r][j] # packets'[r][k].call
          /\ \A j \in 1..Len(requests'[r]), e \in waiting'[r] : requests'[r][j] # e[2]
          /\ \A k \in Answers(r)', e \in waiting'[r] : packets'[r][k].call # e[2]
      <3>1. waiting'[r] = waiting[r] BY <1>1
      <3>2. /\ \A e, f \in waiting[r] : e[2] = f[2] => e = f
            /\ \A j \in 1..Len(old), k \in Answers(r) : old[j] # packets[r][k].call
            /\ \A j \in 1..Len(old), e \in waiting[r] : old[j] # e[2]
            /\ \A k \in Answers(r), e \in waiting[r] : packets[r][k].call # e[2]
        BY <1>7 DEF Once
      <3>3. \A j \in 1..Len(requests'[r]), k \in Answers(r)' :
              requests'[r][j] # packets'[r][k].call
        BY <1>4, <1>6, <2>1, <3>2
      <3>4. \A j \in 1..Len(requests'[r]), e \in waiting[r] : requests'[r][j] # e[2]
        BY <1>4, <3>2
      <3>5. \A k \in Answers(r)', e \in waiting[r] : packets'[r][k].call # e[2]
        BY <1>6, <1>9, <3>2
      <3> QED BY <3>1, <3>2, <3>3, <3>4, <3>5
    <2> HIDE DEF Open, Answers, old
    <2>6. Once(r)'
      BY <2>2, <2>3, <2>4, <2>5 DEF Once
    <2> QED BY <2>6
  <1>11. ASSUME NEW q \in Replicas \ {r} PROVE Once(q)'
    BY <1>1, <1>2, OnceKeeps DEF OnceInv, Open
  <1> QED BY <1>1, <1>10, <1>11 DEF Answering

\* A signal is not the answer to a call.
LEMMA FinishOnce ==
    ASSUME OnceInv, NEW s \in Sources, NEW e \in serving[s], NEW ok \in BOOLEAN,
           Finish(s, e, ok)
    PROVE  Answering /\ \A q \in Replicas : Once(q)'
  <1> DEFINE m == Packet("result", e[1], e[2], ok)
  <1>1. /\ UNCHANGED <<requests, waiting, result>>
        /\ \A q \in Replicas : packets'[q] = packets[q] \/ packets'[q] = Append(packets[q], m)
        /\ \A q \in Replicas : packets[q] \in Seq(Packets)
    BY DEF Finish, OnceInv, TypeOK
  <1>2. m \in Packets /\ m.kind = "result"
    <2>1. e \in Ids \X Calls BY DEF OnceInv, TypeOK
    <2> QED BY <2>1, PacketType DEF Kinds, Ids, Packet
  <1> HIDE DEF m
  <1>3. ASSUME NEW q \in Replicas PROVE Once(q)'
    <2> DEFINE pks == packets[q]
    <2>1. CASE packets'[q] = pks BY <1>1, <2>1, OnceKeeps DEF OnceInv, Open
    <2>2. CASE packets'[q] = Append(pks, m)
      <3>1. /\ Len(packets'[q]) = Len(pks) + 1
            /\ packets'[q][Len(pks) + 1] = m
            /\ \A k \in 1..Len(pks) : packets'[q][k] = pks[k]
            /\ Len(pks) \in Nat
        BY <1>1, <1>2, <2>2
      <3>2. /\ Answers(q)' = Answers(q)
            /\ \A k \in Answers(q) : packets'[q][k] = packets[q][k]
        BY <1>2, <3>1 DEF Answers
      <3>3. \A d : Open(q, d) => Open(q, d)' BY <1>1 DEF Open
      <3>4. Once(q) BY DEF OnceInv
      <3> QED BY <1>1, <3>2, <3>3, <3>4 DEF Once
    <2> QED BY <1>1, <2>1, <2>2
  <1> QED BY <1>1, <1>3 DEF Answering

\* What is left when a packet is received is under way once, if its calls stay open.
LEMMA LeftOnce ==
    ASSUME NEW r \in Replicas, Once(r),
           requests'[r] = requests[r],
           waiting'[r] \subseteq waiting[r],
           \A k \in Answers(r)' : /\ k + 1 \in Answers(r) /\ k \in Nat
                                  /\ packets'[r][k] = packets[r][k + 1],
           \A k \in 1..Len(requests[r]) : result'[requests[r][k]] = Pending,
           \A k \in Answers(r)' : result'[packets'[r][k].call] = Pending,
           \A e \in waiting'[r] : result'[e[2]] = Pending
    PROVE  Once(r)'
  <1>1. \A d : Open(r, d) /\ result'[d] = Pending => Open(r, d)' BY DEF Open
  <1>2. \A k \in 1..Len(requests'[r]) : Open(r, requests[r][k])' BY <1>1 DEF Once
  <1>3. \A k \in Answers(r)' : Open(r, packets[r][k].call)' BY <1>1 DEF Once
  <1>4. \A e \in waiting'[r] : Open(r, e[2])' BY <1>1 DEF Once
  <1>5. \A j, k \in Answers(r)' : packets'[r][j].call = packets'[r][k].call => j = k
    <2>1. SUFFICES ASSUME NEW j \in Answers(r)', NEW k \in Answers(r)',
                          packets'[r][j].call = packets'[r][k].call
                   PROVE  j = k
      OBVIOUS
    <2>2. j + 1 = k + 1 BY <2>1 DEF Once
    <2> QED BY <2>2
  <1>6. /\ \A j, k \in 1..Len(requests'[r]) : requests'[r][j] = requests'[r][k] => j = k
        /\ \A e, f \in waiting'[r] : e[2] = f[2] => e = f
        /\ \A j \in 1..Len(requests'[r]), k \in Answers(r)' :
             requests'[r][j] # packets'[r][k].call
        /\ \A j \in 1..Len(requests'[r]), e \in waiting'[r] : requests'[r][j] # e[2]
        /\ \A k \in Answers(r)', e \in waiting'[r] : packets'[r][k].call # e[2]
    BY DEF Once
  <1> HIDE DEF Open, Answers
  <1> QED BY <1>2, <1>3, <1>4, <1>5, <1>6 DEF Once

\* What is received answers a call that waits, and no other has its place.
LEMMA ReceiveOnce ==
    ASSUME RemoteAssumption, OnceInv, NEW r \in Replicas, Receive(r)
    PROVE  Answering /\ \A q \in Replicas : Once(q)'
  <1> DEFINE p == packets[r]
             m == Head(p)
  <1>1. /\ p \in Seq(Packets) /\ p # <<>>
        /\ packets' = [packets EXCEPT ![r] = Tail(@)]
        /\ UNCHANGED requests
    BY DEF OnceInv, TypeOK, Receive
  <1>2. /\ packets'[r] = Tail(p)
        /\ \A q \in Replicas \ {r} : packets'[q] = packets[q]
    BY <1>1 DEF OnceInv, TypeOK
  <1>3. /\ m \in Packets
        /\ m = p[1]
        /\ 1 \in 1..Len(p)
        /\ \A k \in 1..Len(packets'[r]) : k + 1 \in 1..Len(p) /\ packets'[r][k] = p[k + 1]
    <2> HIDE DEF p
    <2>1. /\ Head(p) \in Packets
          /\ Len(p) \in Nat \ {0}
          /\ Head(p) = p[1]
          /\ Len(Tail(p)) = Len(p) - 1
          /\ \A k \in 1..Len(Tail(p)) : Tail(p)[k] = p[k + 1]
      BY <1>1, HeadAndTail
    <2>2. \A k \in 1..Len(packets'[r]) : k + 1 \in 1..Len(p) BY <1>2, <2>1
    <2>3. 1 \in 1..Len(p) BY <2>1
    <2> QED BY <1>2, <2>1, <2>2, <2>3
  <1>4. m.call \in Calls /\ m.kind \in Kinds BY <1>3 DEF Packets
  <1>5. \A k \in Answers(r)' : /\ k + 1 \in Answers(r) /\ k \in Nat /\ k + 1 # 1
                               /\ packets'[r][k] = packets[r][k + 1]
    BY <1>3 DEF Answers
  <1>6. m.kind # "result" => 1 \in Answers(r) /\ packets[r][1] = m BY <1>3 DEF Answers
  <1>7. Once(r) BY DEF OnceInv
  <1>8. \A d : Open(r, d) => d \in Calls /\ result[d] = Pending BY DEF Open
  <1>9. /\ result \in [Calls -> Results]
        /\ waiting \in [Replicas -> SUBSET (Ids \X Calls)]
    BY DEF OnceInv, TypeOK
  <1>10. CASE UNCHANGED <<result, waiting>>
    <2>1. /\ \A k \in 1..Len(requests[r]) : result'[requests[r][k]] = Pending
          /\ \A k \in Answers(r)' : result'[packets'[r][k].call] = Pending
          /\ \A e \in waiting'[r] : result'[e[2]] = Pending
      BY <1>5, <1>7, <1>8, <1>10 DEF Once
    <2>2. Once(r)' BY <1>1, <1>5, <1>7, <1>10, <2>1, LeftOnce
    <2>3. ASSUME NEW q \in Replicas \ {r} PROVE Once(q)'
      BY <1>1, <1>2, <1>10, OnceKeeps DEF OnceInv, Open
    <2> QED BY <1>10, <2>2, <2>3 DEF Answering
  <1>11. ASSUME NEW c \in Calls, NEW res \in Calls \cup {Failed}, Open(r, c),
                result' = [result EXCEPT ![c] = res],
                waiting'[r] \subseteq waiting[r],
                \A q \in Replicas \ {r} : waiting'[q] = waiting[q],
                \A k \in 1..Len(requests[r]) : requests[r][k] # c,
                \A k \in Answers(r) : k # 1 => packets[r][k].call # c,
                \A e \in waiting'[r] : e[2] # c
         PROVE  Answering /\ \A q \in Replicas : Once(q)'
    <2>1. \A d \in Calls : d # c => result'[d] = result[d] BY <1>9, <1>11
    <2>2. /\ \A k \in 1..Len(requests[r]) : result'[requests[r][k]] = Pending
          /\ \A k \in Answers(r)' : result'[packets'[r][k].call] = Pending
          /\ \A e \in waiting'[r] : result'[e[2]] = Pending
      BY <1>5, <1>7, <1>8, <1>11, <2>1 DEF Once
    <2>3. Once(r)' BY <1>1, <1>5, <1>7, <1>11, <2>2, LeftOnce
    <2>4. ASSUME NEW q \in Replicas \ {r} PROVE Once(q)'
      <3>1. \A d \in Calls : Open(q, d) => result'[d] = Pending
        BY <1>11, <2>1, <2>4 DEF Open
      <3> QED BY <1>1, <1>2, <1>11, <3>1, OnceKeeps DEF OnceInv
    <2>5. Answering BY <1>8, <1>11 DEF Answering
    <2> QED BY <2>3, <2>4, <2>5
  <1> HIDE DEF m, p
  <1>12. CASE m.kind = "result"
    <2>1. OnPendingResultAvailable(r, m) BY <1>12 DEF Receive, m, p
    <2>2. CASE \E e \in waiting[r] : e[1] = m.id
      <3>1. PICK e \in waiting[r] :
              /\ waiting' = [waiting EXCEPT ![r] = @ \ {e}]
              /\ Resolve(e[2], IF m.ok THEN m.call ELSE Failed)
        BY <2>1, <2>2 DEF OnPendingResultAvailable
      <3>2. /\ Open(r, e[2]) /\ e[2] \in Calls
            /\ \A k \in 1..Len(requests[r]) : requests[r][k] # e[2]
            /\ \A k \in Answers(r) : packets[r][k].call # e[2]
            /\ \A f \in waiting[r] : f[2] = e[2] => f = e
        BY <1>7, <1>8 DEF Once
      <3>3. /\ waiting'[r] = waiting[r] \ {e}
            /\ \A q \in Replicas \ {r} : waiting'[q] = waiting[q]
        BY <1>9, <3>1
      <3>4. PICK res \in Calls \cup {Failed} : result' = [result EXCEPT ![e[2]] = res]
        BY <1>4, <3>1 DEF Resolve
      <3> QED BY <1>11, <3>2, <3>3, <3>4
    <2>3. CASE ~ \E e \in waiting[r] : e[1] = m.id
      BY <1>10, <2>1, <2>3 DEF OnPendingResultAvailable
    <2> QED BY <2>2, <2>3
  <1>13. CASE m.kind \in {"value", "failed"}
    <2>1. /\ UNCHANGED waiting
          /\ \E res \in Calls \cup {Failed} : result' = [result EXCEPT ![m.call] = res]
      BY <1>4, <1>13 DEF Receive, Finished, Resolve, m, p
    <2>2. 1 \in Answers(r) /\ packets[r][1] = m BY <1>6, <1>13
    <2>3. /\ Open(r, m.call)
          /\ \A k \in 1..Len(requests[r]) : requests[r][k] # m.call
          /\ \A k \in Answers(r) : k # 1 => packets[r][k].call # m.call
          /\ \A e \in waiting[r] : e[2] # m.call
      BY <1>7, <2>2 DEF Once
    <2> QED BY <1>4, <1>11, <2>1, <2>3
  <1>14. CASE m.kind = "pending"
    <2>1. /\ waiting' = [waiting EXCEPT ![r] = Inserted(@, m.id, m.call)]
          /\ UNCHANGED result
      BY <1>14 DEF Receive, Finished, m, p
    <2>2. /\ \A e \in waiting'[r] : e \in waiting[r] \/ e = <<m.id, m.call>>
          /\ \A q \in Replicas \ {r} : waiting'[q] = waiting[q]
      BY <1>9, <2>1 DEF Inserted
    <2>3. 1 \in Answers(r) /\ packets[r][1] = m BY <1>6, <1>14
    <2>4. /\ Open(r, m.call)
          /\ \A k \in 1..Len(requests[r]) : requests[r][k] # m.call
          /\ \A k \in Answers(r) : k # 1 => packets[r][k].call # m.call
          /\ \A e \in waiting[r] : e[2] # m.call
      BY <1>7, <2>3 DEF Once
    <2>5. \A d : Open(r, d) => Open(r, d)' BY <2>1 DEF Open
    <2>6. \A e \in waiting'[r] : e \in waiting[r] \/ (e = <<m.id, m.call>> /\ e[2] = m.call)
      BY <2>2
    <2>7. /\ \A k \in 1..Len(requests'[r]) : Open(r, requests[r][k])'
          /\ \A e \in waiting'[r] : Open(r, e[2])'
      BY <1>1, <1>7, <2>4, <2>5, <2>6 DEF Once
    <2>8. \A k \in Answers(r)' : Open(r, packets[r][k].call)'
      <3>1. \A k \in Answers(r)' : Open(r, packets'[r][k].call) BY <1>5, <1>7 DEF Once
      <3> QED BY <2>1, <3>1 DEF Open
    <2>9. \A j, k \in Answers(r)' : packets'[r][j].call = packets'[r][k].call => j = k
      <3>1. SUFFICES ASSUME NEW j \in Answers(r)', NEW k \in Answers(r)',
                            packets'[r][j].call = packets'[r][k].call
                     PROVE  j = k
        OBVIOUS
      <3>2. j + 1 = k + 1 BY <1>5, <1>7, <3>1 DEF Once
      <3> QED BY <1>5, <3>2
    <2>10. \A e, f \in waiting'[r] : e[2] = f[2] => e = f BY <1>7, <2>4, <2>6 DEF Once
    <2>11. /\ \A j, k \in 1..Len(requests'[r]) : requests'[r][j] = requests'[r][k] => j = k
           /\ \A j \in 1..Len(requests'[r]), k \in Answers(r)' :
                requests'[r][j] # packets'[r][k].call
           /\ \A j \in 1..Len(requests'[r]), e \in waiting'[r] : requests'[r][j] # e[2]
           /\ \A k \in Answers(r)', e \in waiting'[r] : packets'[r][k].call # e[2]
      <3>1. /\ \A j, k \in 1..Len(requests[r]) : requests[r][j] = requests[r][k] => j = k
            /\ \A j \in 1..Len(requests[r]), k \in Answers(r) :
                 requests[r][j] # packets[r][k].call
            /\ \A j \in 1..Len(requests[r]), e \in waiting[r] : requests[r][j] # e[2]
            /\ \A k \in Answers(r), e \in waiting[r] : packets[r][k].call # e[2]
        BY <1>7 DEF Once
      <3>2. requests'[r] = requests[r] BY <1>1
      <3>3. \A j \in 1..Len(requests[r]), e \in waiting'[r] : requests[r][j] # e[2]
        BY <2>4, <2>6, <3>1
      <3>4. \A k \in Answers(r)', e \in waiting'[r] : packets'[r][k].call # e[2]
        BY <1>5, <2>4, <2>6, <3>1
      <3>5. \A j \in 1..Len(requests[r]), k \in Answers(r)' :
              requests[r][j] # packets'[r][k].call
        BY <1>5, <3>1
      <3> QED BY <3>1, <3>2, <3>3, <3>4, <3>5
    <2>12. Once(r)'
      <3> HIDE DEF Open, Answers
      <3> QED BY <2>7, <2>8, <2>9, <2>10, <2>11 DEF Once
    <2>13. ASSUME NEW q \in Replicas \ {r} PROVE Once(q)'
      BY <1>1, <1>2, <2>1, <2>2, OnceKeeps DEF OnceInv, Open
    <2> QED BY <2>1, <2>12, <2>13 DEF Answering
  <1> QED BY <1>4, <1>12, <1>13, <1>14 DEF Kinds


\* What a program loses with its connection is under way no more.
LEMMA CutOnce ==
    ASSUME OnceInv, NEW R \in SUBSET Replicas, Cut(R)
    PROVE  Answering /\ \A q \in Replicas : Once(q)'
  <1>1. ASSUME NEW q \in Replicas PROVE Once(q)'
    <2>1. /\ requests'[q] = requests[q] \/ requests'[q] = <<>>
          /\ packets'[q] = packets[q] \/ packets'[q] = <<>>
          /\ waiting'[q] = waiting[q]
          /\ \A c \in Calls : Open(q, c) => result'[c] = Pending
      BY DEF Cut, Open
    <2> QED BY <2>1, OnceKeeps DEF OnceInv
  <1> QED BY <1>1 DEF Cut, Answering

\* Every step keeps the calls once, whenever servers restart and URLs change.
LEMMA OnceStep ==
    ASSUME RemoteAssumption, OnceInv, [Next]_vars
    PROVE  Answering /\ OnceInv'
  <1>1. TypeOK' BY TypeStep DEF OnceInv
  <1>2. CASE \E c \in Calls : CallOperation(c) BY <1>1, <1>2, CallOnce DEF OnceInv
  <1>3. CASE \E r \in Replicas : Receive(r) BY <1>1, <1>3, ReceiveOnce DEF OnceInv
  <1>4. CASE \E r \in Replicas, kind \in Kinds : Serve(r, kind)
    BY <1>1, <1>4, ServeOnce DEF OnceInv
  <1>5. CASE \E s \in Sources : \E e \in serving[s], ok \in BOOLEAN : Finish(s, e, ok)
    BY <1>1, <1>5, FinishOnce DEF OnceInv
  <1>6. CASE \E R \in SUBSET Replicas : Cut(R) BY <1>1, <1>6, CutOnce DEF OnceInv
  <1>7. CASE UNCHANGED <<requests, packets, waiting, result>>
    <2>1. \A q \in Replicas : Once(q)' BY <1>7, OnceKeeps DEF OnceInv, Open
    <2> QED BY <1>1, <1>7, <2>1 DEF OnceInv, Answering
  <1>8. CASE \E r \in Replicas : Connect(r) \/ OnNodeError(r) BY <1>7, <1>8 DEF Connect, OnNodeError
  <1>9. CASE \E r \in Replicas : ConnectionLost(r) BY <1>6, <1>9 DEF ConnectionLost
  <1>10. CASE \E r \in Replicas, s \in Sources : UpdateServiceSettings(r, s)
    BY <1>6, <1>10 DEF UpdateServiceSettings
  <1>11. CASE \E s \in Sources : SourceRestarts(s)
    <2>1. \A s \in Sources : Connected(s) \in SUBSET Replicas BY DEF Connected
    <2> QED BY <1>6, <1>11, <2>1 DEF SourceRestarts
  <1>12. CASE UNCHANGED vars BY <1>7, <1>12 DEF vars
  <1> QED BY <1>2, <1>3, <1>4, <1>5, <1>8, <1>9, <1>10, <1>11, <1>12 DEF Next, CallSteps

\* Nothing is under way initially.
LEMMA OnceInit == ASSUME RemoteAssumption, Init PROVE OnceInv
  <1>1. TypeOK BY TypeInit
  <1>2. \A r \in Replicas : requests[r] = <<>> /\ packets[r] = <<>> /\ waiting[r] = {}
    BY DEF Init
  <1> QED BY <1>1, <1>2 DEF OnceInv, Once, Answers

\* A reply that has its result, or has failed, keeps it (onPendingResultAvailable()
\* takes who waits from m_pendingReplies).
AnswersStay ==
    [][\A c \in Calls : result[c] \in Calls \cup {Failed} => result'[c] = result[c]]_vars

\* A call is answered once, whenever servers restart and URLs change: what comes under
\* an old number may be another's result, but answers nobody twice.
THEOREM AnsweredOnce == Spec => AnswersStay
  <1> DEFINE Stays == \A c \in Calls : result[c] \in Calls \cup {Failed} => result'[c] = result[c]
  <1>1. Init => OnceInv BY RemoteAssumption, OnceInit
  <1>2. OnceInv /\ [Next]_vars => OnceInv' BY RemoteAssumption, OnceStep
  <1>3. OnceInv /\ [Next]_vars => [Stays]_vars
    <2>1. SUFFICES ASSUME OnceInv, [Next]_vars PROVE Stays OBVIOUS
    <2>2. Answering BY <2>1, RemoteAssumption, OnceStep
    <2>3. result \in [Calls -> Results] BY <2>1 DEF OnceInv, TypeOK
    <2> QED BY <2>2, <2>3, RemoteAssumption DEF Answering, Promised!Call, RemoteAssumption
  <1> QED BY <1>1, <1>2, <1>3, PTL DEF Spec, AnswersStay

\* An answer that is the call's own is one that RemoteCalls gives.
LEMMA AnsweringImplements ==
    ASSUME TypeOK, Answering, ResultIsItsOwn'
    PROVE  [Promised!Next]_result
  <1>1. ASSUME NEW c \in Calls, NEW res \in Calls \cup {Failed},
               result[c] = Pending, result' = [result EXCEPT ![c] = res]
        PROVE  Promised!Answer(c)
    <2>1. result'[c] = res BY <1>1 DEF TypeOK
    <2>2. res \in {c, Failed} BY <2>1 DEF ResultIsItsOwn
    <2> QED BY <1>1, <2>2 DEF Promised!Answer
  <1> QED BY <1>1 DEF Answering, Promised!Next

\* Every step of the replies is one of RemoteCalls, or leaves the answers alone.
LEMMA CallsStep ==
    ASSUME RemoteAssumption, ~RestartsAnyTime, IInv, OnceInv, [Next]_vars
    PROVE  [Promised!Next]_result
  <1>1. ResultIsItsOwn' BY InvStep DEF IInv
  <1>2. Answering BY OnceStep
  <1> QED BY <1>1, <1>2, AnsweringImplements DEF IInv

\* If servers restart, and URLs change, only while nothing waits, the replies are those
\* of RemoteCalls (toQIfPendingReply(), onPendingResultAvailable()): each is answered
\* once, with the result of its own call or a failure.
THEOREM CallsImplemented ==
    ASSUME ~RestartsAnyTime
    PROVE  Spec => ImplementsCalls
  <1>1. Init => IInv /\ OnceInv /\ Promised!Init
    BY RemoteAssumption, InvInit, OnceInit DEF Init, Promised!Init
  <1>2. IInv /\ OnceInv /\ [Next]_vars => IInv' /\ OnceInv' /\ [Promised!Next]_result
    BY RemoteAssumption, InvStep, OnceStep, CallsStep
  <1> QED BY <1>1, <1>2, PTL DEF Spec, ImplementsCalls, Promised!Spec

-----------------------------------------------------------------------------
(* The zones of a backend: what is on its way over one connection *)

ServedType == [zones : SUBSET Zones, value : [Cells -> Values]]

\* What the handlers keep of the type of a client.
LEMMA HandlersType ==
    ASSUME ZonesAssumption, NEW b \in Clients
    PROVE  /\ OnZoneSyncDone(b) \in Clients
           /\ \A zones \in SUBSET Zones : GotZones(b, zones) \in Clients
           /\ \A c \in Cells, v \in Values : GotValue(b, c, v) \in Clients
           /\ \A c \in Cells, v \in Values : GotChange(b, c, v) \in Clients
           /\ NotSynced(b) \in Clients
           /\ Initialized([b EXCEPT !.shown = [c \in Cells |-> Unknown], !.waits = TRUE])
                \in Clients
  <1>1. ASSUME NEW d \in Clients PROVE OnZoneSyncDone(d) \in Clients
    <2> DEFINE f == [c \in Cells |-> IF c[1] \in d.known THEN d.value[c] ELSE d.shown[c]]
    <2>1. f \in [Cells -> Values \cup {Unknown}] BY DEF Clients
    <2>2. OnZoneSyncDone(d) = IF d.toSync # {} THEN d
                              ELSE [d EXCEPT !.synced = TRUE, !.waits = FALSE, !.shown = f]
      BY DEF OnZoneSyncDone
    <2>3. ASSUME NEW g \in [Cells -> Values \cup {Unknown}]
          PROVE  [d EXCEPT !.synced = TRUE, !.waits = FALSE, !.shown = g] \in Clients
      BY DEF Clients
    <2> QED BY <2>1, <2>2, <2>3
  <1>2. ASSUME NEW zones \in SUBSET Zones PROVE GotZones(b, zones) \in Clients
    <2>1. CellsOf(b.known \cup zones) \subseteq Cells BY DEF CellsOf, Cells, Clients
    <2> QED BY <1>1, <2>1 DEF GotZones, Clients
  <1>3. ASSUME NEW c \in Cells, NEW v \in Values PROVE GotValue(b, c, v) \in Clients
    <2>1. [b EXCEPT !.value[c] = v, !.toSync = @ \ {c}] \in Clients BY DEF Clients
    <2> QED BY <1>1, <2>1 DEF GotValue
  <1>4. \A c \in Cells, v \in Values : GotChange(b, c, v) \in Clients BY DEF GotChange, Clients
  <1>5. NotSynced(b) \in Clients BY DEF NotSynced, Clients
  <1>6. [b EXCEPT !.shown = [c \in Cells |-> Unknown], !.waits = TRUE] \in Clients BY DEF Clients
  <1> QED BY <1>1, <1>2, <1>3, <1>4, <1>5, <1>6 DEF Initialized

\* The calls on their way, q, and the answers, i, of one connection
Asked(q) == \E k \in 1..Len(q) : q[k].op = "zones"
Answered(i) == \E k \in 1..Len(i) : i[k].kind = "zones"
About(m, c) == m.kind # "zones" /\ m.cell = c
NoNews(i, c) == \A k \in 1..Len(i) : ~About(i[k], c)
LastNews(i, c, k) == About(i[k], c) /\ \A j \in (k + 1)..Len(i) : ~About(i[j], c)

\* The zones come once, before anything is read; then what is read and what is
\* to be read are the cells of the zones the backend knows.
Progress(b, q, i, R, srv) ==
    /\ \A k \in 1..Len(i) : i[k].kind = "zones" => i[k].zones = srv.zones
    /\ \A j, k \in 1..Len(q) : q[j].op = "zones" /\ q[k].op = "zones" => j = k
    /\ \A j, k \in 1..Len(i) : i[j].kind = "zones" /\ i[k].kind = "zones" => j = k
    /\ ~(Asked(q) /\ Answered(i))
    /\ Asked(q) \/ Answered(i) =>
          /\ ~b.synced
          /\ R = {}
          /\ \A k \in 1..Len(q) : q[k].op # "get"
          /\ \A k \in 1..Len(i) : i[k].kind # "value"
    /\ ~Asked(q) /\ ~Answered(i) =>
          b.zones = srv.zones /\ R \cup b.toSync = CellsOf(b.known)
    /\ \A k \in 1..Len(q) : q[k].op = "get" => q[k].cells \subseteq CellsOf(b.known)
    /\ \A k \in 1..Len(i) : i[k].kind = "value" => i[k].cell \in CellsOf(b.known)
    /\ b.toSync \subseteq CellsOf(b.known)
    /\ b.synced =>
          /\ b.toSync = {} /\ ~b.waits
          /\ \A c \in CellsOf(b.known) : b.shown[c] = b.value[c]

\* The last news of a cell is what the server has; so is what was read, if there is none.
Current(b, i, R, srv) ==
    /\ \A c \in Cells : \A k \in 1..Len(i) : LastNews(i, c, k) => i[k].value = srv.value[c]
    /\ \A c \in R : NoNews(i, c) => b.value[c] = srv.value[c]

Session(b, q, i, R, srv) == Progress(b, q, i, R, srv) /\ Current(b, i, R, srv)

\* A signal of a change is appended.
LEMMA ChangeKeeps ==
    ASSUME ZonesAssumption, NEW b \in Clients, NEW q \in Seq(Asks), NEW i \in Seq(Signals),
           NEW R \in SUBSET Cells, NEW srv \in ServedType, Session(b, q, i, R, srv),
           NEW c \in Cells, NEW v \in Values
    PROVE  Session(b, q, Append(i, ValueIs("changed", c, v)), R, [srv EXCEPT !.value[c] = v])
  <1> DEFINE m == ValueIs("changed", c, v)
             i1 == Append(i, m)
             srv1 == [srv EXCEPT !.value[c] = v]
  <1>1. m \in Signals /\ m.kind = "changed" /\ m.cell = c /\ m.value = v
    BY DEF ValueIs, Signals
  <1>2. /\ i1 \in Seq(Signals) /\ Len(i1) = Len(i) + 1 /\ i1[Len(i) + 1] = m
        /\ \A k \in 1..Len(i) : i1[k] = i[k]
        /\ Len(i) \in Nat
    BY <1>1, Appended
  <1>3. srv1.zones = srv.zones /\ srv1.value = [srv.value EXCEPT ![c] = v]
        /\ srv.value \in [Cells -> Values]
    BY DEF ServedType
  <1> HIDE DEF i1, m, srv1
  <1>4. Answered(i1) <=> Answered(i)
    BY <1>1, <1>2 DEF Answered
  <1>5. Progress(b, q, i1, R, srv1)
    <2>1. Progress(b, q, i, R, srv) BY DEF Session
    <2>2. \A k \in 1..Len(i1) : i1[k].kind = "zones" => k \in 1..Len(i) /\ i1[k] = i[k]
      BY <1>1, <1>2
    <2>3. \A k \in 1..Len(i1) : i1[k].kind = "value" => k \in 1..Len(i) /\ i1[k] = i[k]
      BY <1>1, <1>2
    <2> QED BY <1>3, <1>4, <2>1, <2>2, <2>3 DEF Progress
  <1>6. ASSUME NEW d \in Cells, NEW k \in 1..Len(i1), LastNews(i1, d, k)
        PROVE  i1[k].value = srv1.value[d]
    <2>1. CASE k = Len(i) + 1 BY <1>1, <1>2, <1>3, <1>6, <2>1 DEF LastNews, About
    <2>2. CASE k \in 1..Len(i)
      <3>1. d # c BY <1>1, <1>2, <1>6, <2>2 DEF LastNews, About
      <3>2. LastNews(i, d, k) BY <1>2, <1>6, <2>2 DEF LastNews
      <3> QED BY <1>2, <1>3, <2>2, <3>1, <3>2 DEF Session, Current
    <2> QED BY <1>2, <2>1, <2>2
  <1>7. ASSUME NEW d \in R, NoNews(i1, d) PROVE b.value[d] = srv1.value[d]
    <2>1. d # c BY <1>1, <1>2, <1>7 DEF NoNews, About
    <2>2. NoNews(i, d) BY <1>2, <1>7 DEF NoNews
    <2> QED BY <1>3, <2>1, <2>2 DEF Session, Current
  <1> QED BY <1>5, <1>6, <1>7 DEF Session, Current, i1, m, srv1

\* A setting is asked.
LEMMA SetAskKeeps ==
    ASSUME ZonesAssumption, NEW b \in Clients, NEW q \in Seq(Asks), NEW i \in Seq(Signals),
           NEW R \in SUBSET Cells, NEW srv \in ServedType, Session(b, q, i, R, srv),
           NEW c \in Cells, NEW v \in Values
    PROVE  Session(b, Append(q, AskSet(c, v)), i, R, srv)
  <1> DEFINE q1 == Append(q, AskSet(c, v))
  <1>1. AskSet(c, v) \in Asks /\ AskSet(c, v).op = "set" BY DEF AskSet, Asks
  <1>2. /\ Len(q1) = Len(q) + 1 /\ q1[Len(q) + 1] = AskSet(c, v) /\ Len(q) \in Nat
        /\ \A k \in 1..Len(q) : q1[k] = q[k]
    BY <1>1, Appended
  <1> HIDE DEF q1
  <1>3. Asked(q1) <=> Asked(q) BY <1>1, <1>2 DEF Asked
  <1>4. Progress(b, q1, i, R, srv) BY <1>1, <1>2, <1>3 DEF Session, Progress
  <1> QED BY <1>4 DEF Session, q1

\* A call that does not ask for the zones is served.
LEMMA ServedKeeps ==
    ASSUME ZonesAssumption, NEW b \in Clients, NEW q \in Seq(Asks), NEW i \in Seq(Signals),
           NEW R \in SUBSET Cells, NEW srv \in ServedType, Session(b, q, i, R, srv),
           q # <<>>, Head(q).op # "zones"
    PROVE  Session(b, Tail(q), i, R, srv)
  <1> DEFINE q1 == Tail(q)
  <1>1. /\ q1 \in Seq(Asks) /\ Len(q) \in Nat \ {0} /\ Head(q) = q[1] /\ Len(q1) = Len(q) - 1
        /\ \A k \in 1..Len(q1) : q1[k] = q[k + 1]
    BY HeadAndTail
  <1> HIDE DEF q1
  <1>2. \A k \in 1..Len(q1) : k + 1 \in 1..Len(q) BY <1>1
  <1>3. Asked(q1) => Asked(q) BY <1>1, <1>2 DEF Asked
  <1>4. Asked(q) => Asked(q1)
    <2> SUFFICES ASSUME NEW k \in 1..Len(q), q[k].op = "zones" PROVE Asked(q1)
      BY DEF Asked
    <2>1. k # 1 BY <1>1
    <2>2. k - 1 \in 1..Len(q1) /\ q1[k - 1] = q[k] BY <1>1, <2>1
    <2> QED BY <2>2 DEF Asked
  <1>5. Progress(b, q, i, R, srv) BY DEF Session
  <1>6. ASSUME NEW j \in 1..Len(q1), NEW k \in 1..Len(q1),
               q1[j].op = "zones", q1[k].op = "zones"
        PROVE  j = k
    <2>1. \A x, y \in 1..Len(q) : q[x].op = "zones" /\ q[y].op = "zones" => x = y
      BY <1>5 DEF Progress
    <2>2. j + 1 = k + 1 BY <1>1, <1>2, <1>6, <2>1
    <2> QED BY <2>2
  <1>7. \A k \in 1..Len(q1) : q1[k].op = "get" => q1[k].cells \subseteq CellsOf(b.known)
    BY <1>1, <1>2, <1>5 DEF Progress
  <1>8. (\A k \in 1..Len(q) : q[k].op # "get") => \A k \in 1..Len(q1) : q1[k].op # "get"
    BY <1>1, <1>2
  <1>9. Progress(b, q1, i, R, srv) BY <1>3, <1>4, <1>5, <1>6, <1>7, <1>8 DEF Progress
  <1> QED BY <1>9 DEF Session, q1

\* There is a cell.
LEMMA CellsThere == ASSUME ZonesAssumption PROVE AnyCell \in Cells
  <1>1. PICK p \in Props : TRUE BY DEF ZonesAssumption
  <1>2. <<General, p>> \in Cells BY DEF Cells
  <1> QED BY <1>2 DEF AnyCell

\* The zones are served.
LEMMA ZonesServedKeeps ==
    ASSUME ZonesAssumption, NEW b \in Clients, NEW q \in Seq(Asks), NEW i \in Seq(Signals),
           NEW R \in SUBSET Cells, NEW srv \in ServedType, Session(b, q, i, R, srv),
           q # <<>>, Head(q).op = "zones"
    PROVE  Session(b, Tail(q), Append(i, ZonesAre(srv.zones)), R, srv)
  <1> DEFINE q1 == Tail(q)
             m == ZonesAre(srv.zones)
             i1 == Append(i, m)
  <1>1. /\ q1 \in Seq(Asks) /\ Len(q) \in Nat \ {0} /\ Head(q) = q[1] /\ Len(q1) = Len(q) - 1
        /\ \A k \in 1..Len(q1) : q1[k] = q[k + 1]
    BY HeadAndTail
  <1>2. m \in Signals /\ m.kind = "zones" /\ m.zones = srv.zones
    <2>1. AnyCell \in Cells BY CellsThere
    <2> QED BY <2>1 DEF ZonesAre, Signals, ServedType, ZonesAssumption
  <1>3. /\ i1 \in Seq(Signals) /\ Len(i1) = Len(i) + 1 /\ i1[Len(i) + 1] = m
        /\ \A k \in 1..Len(i) : i1[k] = i[k]
        /\ Len(i) \in Nat
    BY <1>2, Appended
  <1> HIDE DEF q1, m, i1
  <1>4. \A k \in 1..Len(q1) : k + 1 \in 1..Len(q) BY <1>1
  <1>5. Progress(b, q, i, R, srv) BY DEF Session
  <1>6. 1 \in 1..Len(q) /\ q[1].op = "zones" BY <1>1
  <1>7. Asked(q) /\ ~Answered(i) BY <1>5, <1>6 DEF Asked, Progress
  <1>8. /\ ~b.synced /\ R = {}
        /\ \A k \in 1..Len(q) : q[k].op # "get"
        /\ \A k \in 1..Len(i) : i[k].kind # "value" /\ i[k].kind # "zones"
    BY <1>5, <1>7 DEF Progress, Answered
  <1>9. \A k \in 1..Len(q1) : q1[k].op # "zones" /\ q1[k].op # "get"
    <2> TAKE k \in 1..Len(q1)
    <2>1. k + 1 \in 1..Len(q) /\ k + 1 # 1 /\ q1[k] = q[k + 1] BY <1>1, <1>4
    <2>2. q[k + 1].op # "zones" BY <1>5, <1>6, <2>1 DEF Progress
    <2> QED BY <1>8, <2>1, <2>2
  <1>10. \A k \in 1..Len(i1) : /\ i1[k].kind # "value"
                               /\ i1[k].kind = "zones" => k = Len(i) + 1 /\ i1[k] = m
    BY <1>2, <1>3, <1>8
  <1>11. ~Asked(q1) BY <1>9 DEF Asked
  <1>12. Answered(i1) BY <1>2, <1>3 DEF Answered
  <1>13. Progress(b, q1, i1, R, srv)
    <2>1. \A k \in 1..Len(i1) : i1[k].kind = "zones" => i1[k].zones = srv.zones
      BY <1>2, <1>10
    <2>2. \A j, k \in 1..Len(i1) : i1[j].kind = "zones" /\ i1[k].kind = "zones" => j = k
      BY <1>10
    <2>3. b.toSync \subseteq CellsOf(b.known) BY <1>5 DEF Progress
    <2>4. /\ \A k \in 1..Len(q1) : q1[k].op # "zones" /\ q1[k].op # "get"
          /\ \A k \in 1..Len(i1) : i1[k].kind # "value"
      BY <1>9, <1>10
    <2>5. ~b.synced /\ R = {} BY <1>8
    <2> QED BY <1>11, <1>12, <2>1, <2>2, <2>3, <2>4, <2>5 DEF Progress
  <1>14. ASSUME NEW d \in Cells, NEW k \in 1..Len(i1), LastNews(i1, d, k)
         PROVE  i1[k].value = srv.value[d]
    <2>1. k \in 1..Len(i) BY <1>2, <1>3, <1>14 DEF LastNews, About
    <2>2. LastNews(i, d, k) BY <1>3, <1>14, <2>1 DEF LastNews
    <2> QED BY <1>3, <2>1, <2>2 DEF Session, Current
  <1> QED BY <1>8, <1>13, <1>14 DEF Session, Current, q1, i1, m

\* A getter is served.
LEMMA ValueServedKeeps ==
    ASSUME ZonesAssumption, NEW b \in Clients, NEW q \in Seq(Asks), NEW i \in Seq(Signals),
           NEW R \in SUBSET Cells, NEW srv \in ServedType, Session(b, q, i, R, srv),
           q # <<>>, Head(q).op = "get", NEW c \in Head(q).cells,
           NEW left, left \in {<<>>, <<AskCells(Head(q).cells \ {c})>>}
    PROVE  /\ left \o Tail(q) \in Seq(Asks)
           /\ Session(b, left \o Tail(q),
                      Append(i, ValueIs("value", c, srv.value[c])), R, srv)
  <1> DEFINE t == Tail(q)
             q1 == left \o t
             a == AskCells(Head(q).cells \ {c})
             m == ValueIs("value", c, srv.value[c])
             i1 == Append(i, m)
  <1>1. /\ t \in Seq(Asks) /\ Len(q) \in Nat \ {0} /\ Head(q) = q[1] /\ Len(t) = Len(q) - 1
        /\ \A k \in 1..Len(t) : t[k] = q[k + 1]
        /\ Head(q) \in Asks
    BY HeadAndTail
  <1>2. a \in Asks /\ a.op = "get" /\ a.cells = Head(q).cells \ {c}
    BY <1>1 DEF AskCells, Asks, ZonesAssumption
  <1>3. c \in Cells BY <1>1 DEF Asks
  <1>4. m \in Signals /\ m.kind = "value" /\ m.cell = c /\ m.value = srv.value[c]
    BY <1>3 DEF ValueIs, Signals, ServedType
  <1>5. /\ i1 \in Seq(Signals) /\ Len(i1) = Len(i) + 1 /\ i1[Len(i) + 1] = m
        /\ \A k \in 1..Len(i) : i1[k] = i[k]
        /\ Len(i) \in Nat
    BY <1>4, Appended
  <1>6. /\ left \in Seq(Asks) /\ Len(left) \in 0..1
        /\ \A k \in 1..Len(left) : left[k] = a
    <2>1. CASE left = <<>> BY <2>1
    <2>2. CASE left = <<a>>
      <3>1. a \in Asks BY <1>2
      <3> HIDE DEF a
      <3>2. <<a>> \in Seq(Asks) BY <3>1
      <3>3. Len(<<a>>) = 1 /\ <<a>>[1] = a OBVIOUS
      <3>4. left \in Seq(Asks) BY <2>2, <3>2
      <3>5. Len(left) = 1 /\ left[1] = a BY <2>2, <3>3
      <3> QED BY <3>4, <3>5
    <2> QED BY <2>1, <2>2
  <1>7. /\ q1 \in Seq(Asks) /\ Len(q1) = Len(left) + Len(t)
        /\ \A k \in 1..Len(q1) : q1[k] = IF k <= Len(left) THEN left[k] ELSE t[k - Len(left)]
    BY <1>1, <1>6
  <1>8. Progress(b, q, i, R, srv) BY DEF Session
  <1>9. 1 \in 1..Len(q) /\ q[1].op = "get" BY <1>1
  <1>10. ~Asked(q) /\ ~Answered(i) BY <1>8, <1>9 DEF Progress
  <1>11. Head(q).cells \subseteq CellsOf(b.known) BY <1>1, <1>8, <1>9 DEF Progress
  <1> HIDE DEF q1, m, i1, a, t
  <1>12. \A k \in 1..Len(q1) : q1[k] = a \/ \E j \in 1..Len(q) : q1[k] = q[j]
    <2> TAKE k \in 1..Len(q1)
    <2>1. CASE k <= Len(left) BY <1>6, <1>7, <2>1
    <2>2. CASE ~(k <= Len(left))
      <3>1. k - Len(left) \in 1..Len(t) BY <1>1, <1>6, <1>7, <2>2
      <3>2. k - Len(left) + 1 \in 1..Len(q) BY <1>1, <1>6, <3>1
      <3>3. q1[k] = t[k - Len(left)] BY <1>7, <2>2
      <3>4. t[k - Len(left)] = q[k - Len(left) + 1] BY <1>1, <3>1
      <3> QED BY <3>2, <3>3, <3>4
    <2> QED BY <2>1, <2>2
  <1>13. \A k \in 1..Len(q1) : /\ q1[k].op # "zones"
                               /\ q1[k].op = "get" => q1[k].cells \subseteq CellsOf(b.known)
    BY <1>2, <1>8, <1>10, <1>11, <1>12 DEF Progress, Asked
  <1>14. \A k \in 1..Len(i1) : /\ i1[k].kind # "zones"
                               /\ i1[k].kind = "value" => i1[k].cell \in CellsOf(b.known)
    <2> TAKE k \in 1..Len(i1)
    <2>1. CASE k = Len(i) + 1 BY <1>4, <1>5, <1>11, <2>1
    <2>2. CASE k \in 1..Len(i) BY <1>5, <1>8, <1>10, <2>2 DEF Progress, Answered
    <2> QED BY <1>5, <2>1, <2>2
  <1>15. ~Asked(q1) /\ ~Answered(i1) BY <1>13, <1>14 DEF Asked, Answered
  <1>16. Progress(b, q1, i1, R, srv)
    <2>1. b.zones = srv.zones /\ R \cup b.toSync = CellsOf(b.known)
      BY <1>8, <1>10 DEF Progress
    <2>2. b.synced => /\ b.toSync = {} /\ ~b.waits
                      /\ \A d \in CellsOf(b.known) : b.shown[d] = b.value[d]
      BY <1>8 DEF Progress
    <2>3. b.toSync \subseteq CellsOf(b.known) BY <1>8 DEF Progress
    <2>4. /\ \A k \in 1..Len(q1) : q1[k].op = "get" => q1[k].cells \subseteq CellsOf(b.known)
          /\ \A j, k \in 1..Len(q1) : q1[j].op = "zones" /\ q1[k].op = "zones" => j = k
      BY <1>13
    <2>5. /\ \A k \in 1..Len(i1) : i1[k].kind = "value" => i1[k].cell \in CellsOf(b.known)
          /\ \A k \in 1..Len(i1) : i1[k].kind = "zones" => i1[k].zones = srv.zones
          /\ \A j, k \in 1..Len(i1) : i1[j].kind = "zones" /\ i1[k].kind = "zones" => j = k
      BY <1>14
    <2> QED BY <1>15, <2>1, <2>2, <2>3, <2>4, <2>5 DEF Progress
  <1>17. ASSUME NEW d \in Cells, NEW k \in 1..Len(i1), LastNews(i1, d, k)
         PROVE  i1[k].value = srv.value[d]
    <2>1. CASE k = Len(i) + 1 BY <1>4, <1>5, <1>17, <2>1 DEF LastNews, About
    <2>2. CASE k \in 1..Len(i)
      <3>1. LastNews(i, d, k) BY <1>5, <1>17, <2>2 DEF LastNews
      <3> QED BY <1>5, <2>2, <3>1 DEF Session, Current
    <2> QED BY <1>5, <2>1, <2>2
  <1>18. ASSUME NEW d \in R, NoNews(i1, d) PROVE b.value[d] = srv.value[d]
    <2>1. NoNews(i, d) BY <1>5, <1>18 DEF NoNews
    <2> QED BY <2>1 DEF Session, Current
  <1>19. q1 \in Seq(Asks) /\ Session(b, q1, i1, R, srv)
    BY <1>7, <1>16, <1>17, <1>18 DEF Session, Current
  <1> QED BY <1>19 DEF q1, i1, m, t
\* What the news that are left say of those there were.
LEMMA TailNews ==
    ASSUME NEW i \in Seq(Signals), i # <<>>, NEW c
    PROVE  /\ NoNews(Tail(i), c) /\ ~About(Head(i), c) => NoNews(i, c)
           /\ NoNews(Tail(i), c) /\ About(Head(i), c) => 1 \in 1..Len(i) /\ LastNews(i, c, 1)
           /\ \A k \in 1..Len(Tail(i)) :
                LastNews(Tail(i), c, k) => /\ k + 1 \in 1..Len(i)
                                           /\ LastNews(i, c, k + 1)
                                           /\ Tail(i)[k] = i[k + 1]
  <1> DEFINE t == Tail(i)
  <1>1. /\ t \in Seq(Signals) /\ Len(i) \in Nat \ {0} /\ Head(i) = i[1]
        /\ Len(t) = Len(i) - 1
        /\ \A k \in 1..Len(t) : t[k] = i[k + 1]
    BY HeadAndTail
  <1> HIDE DEF t
  <1>2. ASSUME NEW k \in 1..Len(i), k # 1 PROVE k - 1 \in 1..Len(t) /\ i[k] = t[k - 1]
    BY <1>1, <1>2
  <1>3. NoNews(t, c) => \A k \in 1..Len(i) : k # 1 => ~About(i[k], c)
    BY <1>2 DEF NoNews
  <1>4. NoNews(t, c) /\ ~About(Head(i), c) => NoNews(i, c)
    BY <1>1, <1>3 DEF NoNews
  <1>5. NoNews(t, c) /\ About(Head(i), c) => 1 \in 1..Len(i) /\ LastNews(i, c, 1)
    BY <1>1, <1>3 DEF LastNews
  <1>6. ASSUME NEW k \in 1..Len(t), LastNews(t, c, k)
        PROVE  k + 1 \in 1..Len(i) /\ LastNews(i, c, k + 1) /\ t[k] = i[k + 1]
    <2>1. k + 1 \in 1..Len(i) /\ t[k] = i[k + 1] BY <1>1
    <2>2. ASSUME NEW j \in ((k + 1) + 1)..Len(i) PROVE ~About(i[j], c)
      <3>1. j - 1 \in (k + 1)..Len(t) /\ i[j] = t[j - 1] BY <1>1, <1>2
      <3> QED BY <1>6, <3>1 DEF LastNews
    <2> QED BY <1>6, <2>1, <2>2 DEF LastNews
  <1> QED BY <1>4, <1>5, <1>6 DEF t

\* The zones are heard.
LEMMA ZonesHeardKeeps ==
    ASSUME ZonesAssumption, NEW b \in Clients, NEW q \in Seq(Asks), NEW i \in Seq(Signals),
           NEW R \in SUBSET Cells, NEW srv \in ServedType, Session(b, q, i, R, srv),
           i # <<>>, Head(i).kind = "zones"
    PROVE  /\ ~b.synced
           /\ Append(q, AskCells(CellsOf(b.known \cup Head(i).zones))) \in Seq(Asks)
           /\ Session(GotZones(b, Head(i).zones),
                      Append(q, AskCells(CellsOf(b.known \cup Head(i).zones))),
                      Tail(i), R, srv)
  <1> DEFINE t == Tail(i)
             zones == Head(i).zones
             a == AskCells(CellsOf(b.known \cup zones))
             q1 == Append(q, a)
             b1 == GotZones(b, zones)
  <1>1. /\ t \in Seq(Signals) /\ Len(i) \in Nat \ {0} /\ Head(i) = i[1]
        /\ Len(t) = Len(i) - 1
        /\ \A k \in 1..Len(t) : t[k] = i[k + 1]
        /\ Head(i) \in Signals
    BY HeadAndTail
  <1>2. /\ zones \in SUBSET Zones
        /\ b.known \subseteq Zones \cup {General}
    BY <1>1 DEF Signals, Clients
  <1>3. CellsOf(b.known \cup zones) \subseteq Cells BY <1>2 DEF CellsOf, Cells
  <1>4. a \in Asks /\ a.op = "get" /\ a.cells = CellsOf(b.known \cup zones)
    BY <1>3 DEF AskCells, Asks, ZonesAssumption
  <1> HIDE DEF a
  <1>5. /\ q1 \in Seq(Asks) /\ Len(q1) = Len(q) + 1 /\ q1[Len(q) + 1] = a /\ Len(q) \in Nat
        /\ \A k \in 1..Len(q) : q1[k] = q[k]
    BY <1>4, Appended
  <1>6. Progress(b, q, i, R, srv) BY DEF Session
  <1>7. 1 \in 1..Len(i) /\ i[1].kind = "zones" /\ i[1].zones = zones BY <1>1
  <1>8. Answered(i) BY <1>7 DEF Answered
  <1>9. /\ ~b.synced /\ R = {} /\ ~Asked(q) /\ zones = srv.zones
        /\ \A k \in 1..Len(q) : q[k].op # "get"
        /\ \A k \in 1..Len(i) : i[k].kind # "value"
    BY <1>6, <1>7, <1>8 DEF Progress
  <1>10. b.toSync \subseteq CellsOf(b.known) BY <1>6 DEF Progress
  <1>11. /\ b1.zones = srv.zones /\ b1.known = b.known \cup zones
         /\ b1.toSync = CellsOf(b.known \cup zones) /\ ~b1.synced
    <2>1. b1 = [b EXCEPT !.zones = zones, !.known = @ \cup zones,
                         !.toSync = @ \cup CellsOf(b.known \cup zones)]
      BY <1>9 DEF GotZones
    <2>2. b.toSync \subseteq CellsOf(b.known \cup zones) BY <1>10 DEF CellsOf
    <2>3. b.toSync \cup CellsOf(b.known \cup zones) = CellsOf(b.known \cup zones) BY <2>2
    <2> HIDE DEF b1, zones
    <2> QED BY <1>9, <2>1, <2>3 DEF Clients
  <1> HIDE DEF t, zones, q1, b1
  <1>12. \A k \in 1..Len(t) : t[k].kind # "zones" /\ t[k].kind # "value"
    <2> TAKE k \in 1..Len(t)
    <2>1. k + 1 \in 1..Len(i) /\ k + 1 # 1 /\ t[k] = i[k + 1] BY <1>1
    <2>2. i[k + 1].kind # "zones" BY <1>6, <1>7, <2>1 DEF Progress
    <2> QED BY <1>9, <2>1, <2>2
  <1>13. \A k \in 1..Len(q1) :
           q1[k].op # "zones" /\ (q1[k].op = "get" => q1[k].cells \subseteq CellsOf(b1.known))
    <2> TAKE k \in 1..Len(q1)
    <2>1. CASE k = Len(q) + 1 BY <1>4, <1>5, <1>11, <2>1
    <2>2. CASE k \in 1..Len(q) BY <1>5, <1>9, <2>2 DEF Asked
    <2> QED BY <1>5, <2>1, <2>2
  <1>14. ~Asked(q1) /\ ~Answered(t) BY <1>12, <1>13 DEF Asked, Answered
  <1>15. Progress(b1, q1, t, R, srv)
    <2>1. /\ \A k \in 1..Len(t) : t[k].kind = "zones" => t[k].zones = srv.zones
          /\ \A j, k \in 1..Len(t) : t[j].kind = "zones" /\ t[k].kind = "zones" => j = k
          /\ \A k \in 1..Len(t) : t[k].kind = "value" => t[k].cell \in CellsOf(b1.known)
      BY <1>12
    <2>2. /\ \A k \in 1..Len(q1) : q1[k].op = "get" => q1[k].cells \subseteq CellsOf(b1.known)
          /\ \A j, k \in 1..Len(q1) : q1[j].op = "zones" /\ q1[k].op = "zones" => j = k
      BY <1>13
    <2>3. b1.zones = srv.zones /\ R \cup b1.toSync = CellsOf(b1.known) BY <1>9, <1>11
    <2> QED BY <1>11, <1>14, <2>1, <2>2, <2>3 DEF Progress
  <1>16. ASSUME NEW d \in Cells, NEW k \in 1..Len(t), LastNews(t, d, k)
         PROVE  t[k].value = srv.value[d]
    <2>1. k + 1 \in 1..Len(i) /\ LastNews(i, d, k + 1) /\ t[k] = i[k + 1]
      BY <1>16, TailNews DEF t
    <2> QED BY <2>1 DEF Session, Current
  <1>17. q1 \in Seq(Asks) /\ Session(b1, q1, t, R, srv)
    BY <1>5, <1>9, <1>15, <1>16 DEF Session, Current
  <1> QED BY <1>9, <1>17 DEF t, q1, b1, a, zones

\* A value is heard: it was read, or it has changed.
LEMMA ValueHeardKeeps ==
    ASSUME ZonesAssumption, NEW b \in Clients, NEW q \in Seq(Asks), NEW i \in Seq(Signals),
           NEW R \in SUBSET Cells, NEW srv \in ServedType, Session(b, q, i, R, srv),
           i # <<>>, Head(i).kind = "value"
    PROVE  Session(GotValue(b, Head(i).cell, Head(i).value), q, Tail(i),
                   R \cup {Head(i).cell}, srv)
  <1> DEFINE t == Tail(i)
             c == Head(i).cell
             v == Head(i).value
             R1 == R \cup {c}
             e == [b EXCEPT !.value[c] = v, !.toSync = @ \ {c}]
             b1 == GotValue(b, c, v)
  <1>1. /\ t \in Seq(Signals) /\ Len(i) \in Nat \ {0} /\ Head(i) = i[1]
        /\ Len(t) = Len(i) - 1
        /\ \A k \in 1..Len(t) : t[k] = i[k + 1]
        /\ Head(i) \in Signals
    BY HeadAndTail
  <1>2. c \in Cells /\ v \in Values BY <1>1 DEF Signals
  <1> HIDE DEF c, v
  <1>3. /\ e.value = [b.value EXCEPT ![c] = v] /\ e.toSync = b.toSync \ {c}
        /\ e.zones = b.zones /\ e.known = b.known /\ e.synced = b.synced
        /\ e.shown = b.shown /\ e.waits = b.waits /\ e \in Clients
        /\ b.value \in [Cells -> Values]
    BY <1>2 DEF Clients
  <1> HIDE DEF e
  <1>4. b1 = OnZoneSyncDone(e) BY DEF GotValue, e
  <1> HIDE DEF b1
  <1>5. /\ b1.zones = b.zones /\ b1.known = b.known /\ b1.toSync = b.toSync \ {c}
        /\ b1.value = [b.value EXCEPT ![c] = v]
    BY <1>3, <1>4 DEF OnZoneSyncDone, Clients
  <1>6. Progress(b, q, i, R, srv) BY DEF Session
  <1>7. 1 \in 1..Len(i) /\ i[1].kind = "value" /\ i[1].cell = c /\ i[1].value = v
    BY <1>1 DEF c, v
  <1>8. ~Asked(q) /\ ~Answered(i) /\ c \in CellsOf(b.known) BY <1>6, <1>7 DEF Progress
  <1>9. b1.synced => /\ b1.toSync = {} /\ ~b1.waits
                     /\ \A d \in CellsOf(b1.known) : b1.shown[d] = b1.value[d]
    <2>1. CASE e.toSync = {}
      <3> DEFINE f == [d \in Cells |-> IF d[1] \in e.known THEN e.value[d] ELSE e.shown[d]]
      <3>1. b1 = [e EXCEPT !.synced = TRUE, !.waits = FALSE, !.shown = f]
        BY <1>4, <2>1 DEF OnZoneSyncDone
      <3>2. b1.toSync = {} /\ ~b1.waits /\ b1.shown = f /\ b1.value = e.value /\ b1.known = e.known
        BY <1>3, <2>1, <3>1 DEF Clients
      <3>3. \A d \in CellsOf(e.known) : d \in Cells /\ d[1] \in e.known
        BY <1>3 DEF Clients, CellsOf, Cells
      <3> QED BY <3>2, <3>3
    <2>2. CASE e.toSync # {}
      <3>1. b1 = e BY <1>4, <2>2 DEF OnZoneSyncDone
      <3>2. ~b.synced BY <1>3, <1>6, <2>2 DEF Progress
      <3> QED BY <1>3, <3>1, <3>2
    <2> QED BY <2>1, <2>2
  <1> HIDE DEF t, R1
  <1>10. \A k \in 1..Len(t) : k + 1 \in 1..Len(i) /\ t[k] = i[k + 1] BY <1>1
  <1>11. \A k \in 1..Len(t) : /\ t[k].kind # "zones"
                              /\ t[k].kind = "value" => t[k].cell \in CellsOf(b.known)
    BY <1>6, <1>8, <1>10 DEF Progress, Answered
  <1>12. ~Answered(t) BY <1>11 DEF Answered
  <1>13. Progress(b1, q, t, R1, srv)
    <2>1. /\ \A k \in 1..Len(t) : t[k].kind = "zones" => t[k].zones = srv.zones
          /\ \A j, k \in 1..Len(t) : t[j].kind = "zones" /\ t[k].kind = "zones" => j = k
          /\ \A k \in 1..Len(t) : t[k].kind = "value" => t[k].cell \in CellsOf(b1.known)
      BY <1>5, <1>11
    <2>2. /\ \A k \in 1..Len(q) : q[k].op = "get" => q[k].cells \subseteq CellsOf(b1.known)
          /\ \A j, k \in 1..Len(q) : q[j].op = "zones" /\ q[k].op = "zones" => j = k
      BY <1>5, <1>6 DEF Progress
    <2>3. b.zones = srv.zones /\ R \cup b.toSync = CellsOf(b.known) BY <1>6, <1>8 DEF Progress
    <2>4. b1.zones = srv.zones /\ R1 \cup b1.toSync = CellsOf(b1.known)
      BY <1>5, <1>8, <2>3 DEF R1
    <2>5. b1.toSync \subseteq CellsOf(b1.known) BY <2>4
    <2> QED BY <1>8, <1>9, <1>12, <2>1, <2>2, <2>4, <2>5 DEF Progress
  <1>14. ASSUME NEW d \in Cells, NEW k \in 1..Len(t), LastNews(t, d, k)
         PROVE  t[k].value = srv.value[d]
    <2>1. k + 1 \in 1..Len(i) /\ LastNews(i, d, k + 1) /\ t[k] = i[k + 1]
      BY <1>14, TailNews DEF t
    <2> QED BY <2>1 DEF Session, Current
  <1>15. ASSUME NEW d \in R1, NoNews(t, d) PROVE b1.value[d] = srv.value[d]
    <2>1. CASE d = c
      <3>1. About(Head(i), c) BY <1>1, <1>7 DEF About
      <3>2. LastNews(i, c, 1) BY <1>15, <2>1, <3>1, TailNews DEF t
      <3>3. v = srv.value[c] BY <1>2, <1>7, <3>2 DEF Session, Current
      <3> QED BY <1>2, <1>3, <1>5, <2>1, <3>3
    <2>2. CASE d # c
      <3>1. ~About(Head(i), d) BY <1>1, <1>7, <2>2 DEF About
      <3>2. NoNews(i, d) BY <1>15, <3>1, TailNews DEF t
      <3>3. d \in R BY <1>15, <2>2 DEF R1
      <3>4. b.value[d] = srv.value[d] BY <3>2, <3>3 DEF Session, Current
      <3> QED BY <1>3, <1>5, <2>2, <3>3, <3>4
    <2> QED BY <2>1, <2>2
  <1> QED BY <1>13, <1>14, <1>15 DEF Session, Current, t, R1, c, v, b1

\* A change is heard.
LEMMA ChangeHeardKeeps ==
    ASSUME ZonesAssumption, NEW b \in Clients, NEW q \in Seq(Asks), NEW i \in Seq(Signals),
           NEW R \in SUBSET Cells, NEW srv \in ServedType, Session(b, q, i, R, srv),
           i # <<>>, Head(i).kind = "changed"
    PROVE  Session(GotChange(b, Head(i).cell, Head(i).value), q, Tail(i), R, srv)
  <1> DEFINE t == Tail(i)
             c == Head(i).cell
             v == Head(i).value
             b1 == GotChange(b, c, v)
  <1>1. /\ t \in Seq(Signals) /\ Len(i) \in Nat \ {0} /\ Head(i) = i[1]
        /\ Len(t) = Len(i) - 1
        /\ \A k \in 1..Len(t) : t[k] = i[k + 1]
        /\ Head(i) \in Signals
    BY HeadAndTail
  <1>2. c \in Cells /\ v \in Values BY <1>1 DEF Signals
  <1>3. 1 \in 1..Len(i) /\ i[1].kind = "changed" /\ i[1].cell = c /\ i[1].value = v
    BY <1>1
  <1> HIDE DEF c, v
  <1>4. b.value \in [Cells -> Values] /\ b.shown \in [Cells -> Values \cup {Unknown}]
    BY DEF Clients
  <1>5. /\ b1.zones = b.zones /\ b1.known = b.known /\ b1.toSync = b.toSync
        /\ b1.synced = b.synced /\ b1.waits = b.waits
        /\ b1.value = IF c[1] \in b.known THEN [b.value EXCEPT ![c] = v] ELSE b.value
        /\ b1.shown = IF c[1] \in b.known THEN [b.shown EXCEPT ![c] = v] ELSE b.shown
    BY DEF GotChange, Clients
  <1> HIDE DEF t, b1
  <1>6. Progress(b, q, i, R, srv) BY DEF Session
  <1>7. \A k \in 1..Len(t) : k + 1 \in 1..Len(i) /\ t[k] = i[k + 1] BY <1>1
  <1>8. Answered(t) <=> Answered(i)
    <2>1. Answered(t) => Answered(i) BY <1>7 DEF Answered
    <2>2. ASSUME NEW k \in 1..Len(i), i[k].kind = "zones" PROVE Answered(t)
      <3>1. k # 1 BY <1>3, <2>2
      <3>2. k - 1 \in 1..Len(t) /\ t[k - 1] = i[k] BY <1>1, <3>1
      <3> QED BY <2>2, <3>2 DEF Answered
    <2> QED BY <2>1, <2>2 DEF Answered
  <1>9. CellsOf(b.known) \subseteq Cells BY DEF CellsOf, Cells, Clients
  <1>10. Progress(b1, q, t, R, srv)
    <2>1. \A k \in 1..Len(t) : t[k].kind = "zones" => t[k].zones = srv.zones
      BY <1>6, <1>7 DEF Progress
    <2>2. ASSUME NEW j \in 1..Len(t), NEW k \in 1..Len(t),
                 t[j].kind = "zones", t[k].kind = "zones"
          PROVE  j = k
      <3>1. \A x, y \in 1..Len(i) : i[x].kind = "zones" /\ i[y].kind = "zones" => x = y
        BY <1>6 DEF Progress
      <3>2. j + 1 = k + 1 BY <1>7, <2>2, <3>1
      <3> QED BY <3>2
    <2>3. \A k \in 1..Len(t) : t[k].kind = "value" => t[k].cell \in CellsOf(b1.known)
      BY <1>5, <1>6, <1>7 DEF Progress
    <2>4. (\A k \in 1..Len(i) : i[k].kind # "value") => \A k \in 1..Len(t) : t[k].kind # "value"
      BY <1>7
    <2>5. b1.synced => \A d \in CellsOf(b1.known) : b1.shown[d] = b1.value[d]
      <3>1. b.synced => \A d \in CellsOf(b.known) : b.shown[d] = b.value[d]
        BY <1>6 DEF Progress
      <3> QED BY <1>4, <1>5, <1>9, <3>1
    <2>6. /\ \A k \in 1..Len(q) : q[k].op = "get" => q[k].cells \subseteq CellsOf(b1.known)
          /\ \A j, k \in 1..Len(q) : q[j].op = "zones" /\ q[k].op = "zones" => j = k
      BY <1>5, <1>6 DEF Progress
    <2>7. /\ ~(Asked(q) /\ Answered(t))
          /\ Asked(q) \/ Answered(t) =>
               /\ ~b1.synced /\ R = {}
               /\ \A k \in 1..Len(q) : q[k].op # "get"
               /\ \A k \in 1..Len(t) : t[k].kind # "value"
          /\ ~Asked(q) /\ ~Answered(t) =>
               b1.zones = srv.zones /\ R \cup b1.toSync = CellsOf(b1.known)
          /\ b1.toSync \subseteq CellsOf(b1.known)
          /\ b1.synced => b1.toSync = {} /\ ~b1.waits
      BY <1>5, <1>6, <1>8, <2>4 DEF Progress
    <2> QED BY <2>1, <2>2, <2>3, <2>5, <2>6, <2>7 DEF Progress
  <1>11. ASSUME NEW d \in Cells, NEW k \in 1..Len(t), LastNews(t, d, k)
         PROVE  t[k].value = srv.value[d]
    <2>1. k + 1 \in 1..Len(i) /\ LastNews(i, d, k + 1) /\ t[k] = i[k + 1]
      BY <1>11, TailNews DEF t
    <2> QED BY <2>1 DEF Session, Current
  <1>12. R \subseteq CellsOf(b.known) BY <1>6 DEF Progress
  <1>13. ASSUME NEW d \in R, NoNews(t, d) PROVE b1.value[d] = srv.value[d]
    <2>0. d[1] \in b.known BY <1>12 DEF CellsOf
    <2>1. CASE d = c
      <3>1. About(Head(i), c) BY <1>1, <1>3 DEF About
      <3>2. LastNews(i, c, 1) BY <1>13, <2>1, <3>1, TailNews DEF t
      <3>3. v = srv.value[c] BY <1>2, <1>3, <3>2 DEF Session, Current
      <3> QED BY <1>2, <1>4, <1>5, <2>0, <2>1, <3>3
    <2>2. CASE d # c
      <3>1. ~About(Head(i), d) BY <1>1, <1>3, <2>2 DEF About
      <3>2. NoNews(i, d) BY <1>13, <3>1, TailNews DEF t
      <3>3. b.value[d] = srv.value[d] BY <3>2 DEF Session, Current
      <3> QED BY <1>4, <1>5, <2>2, <3>3
    <2> QED BY <2>1, <2>2
  <1> QED BY <1>10, <1>11, <1>13 DEF Session, Current, t, b1, c, v
-----------------------------------------------------------------------------
(* The steps of the zones *)

\* A replica that is connected is in a session; one that is not has nothing under way.
Link(open, b, q, i, R, srv) ==
    IF open THEN Session(b, q, i, R, srv)
    ELSE /\ q = <<>> /\ i = <<>> /\ R = {} /\ ~b.synced
         /\ b.toSync \subseteq CellsOf(b.known)

ZonesInv ==
    \A r \in Replicas :
      Link(IsOpen(r), client[r], asks[r], inbox[r], read[r], served[Source(r)])

\* What the types say of one replica.
LEMMA ZonesAt ==
    ASSUME TypeOK, ZonesTypeOK, NEW r \in Replicas
    PROVE  /\ client[r] \in Clients /\ asks[r] \in Seq(Asks) /\ inbox[r] \in Seq(Signals)
           /\ read[r] \in SUBSET Cells /\ served[Source(r)] \in ServedType
           /\ Source(r) \in Sources
  BY DEF TypeOK, ZonesTypeOK, Source, ServedType

\* A step of one replica leaves the links of the others.
LEMMA LinksStay ==
    ASSUME ZonesInv, NEW r \in Replicas, UNCHANGED served,
           \A x \in Replicas \ {r} :
             /\ replica'[x] = replica[x] /\ client'[x] = client[x] /\ asks'[x] = asks[x]
             /\ inbox'[x] = inbox[x] /\ read'[x] = read[x],
           Link(IsOpen(r)', client'[r], asks'[r], inbox'[r], read'[r], served'[Source(r)'])
    PROVE  ZonesInv'
  <1>1. ASSUME NEW x \in Replicas \ {r}
        PROVE  Link(IsOpen(x)', client'[x], asks'[x], inbox'[x], read'[x], served'[Source(x)'])
    <2>1. IsOpen(x)' = IsOpen(x) /\ Source(x)' = Source(x) BY DEF IsOpen, Source
    <2> QED BY <2>1 DEF ZonesInv
  <1> QED BY <1>1 DEF ZonesInv

\* A value is set on a server, if it has the zone, and its replicas are told.
LEMMA SetOnKeeps ==
    ASSUME RemoteAssumption, ZonesAssumption, TypeOK, ZonesTypeOK,
           NEW s \in Sources, NEW c \in Cells, NEW v \in Values, SetOn(s, c, v)
    PROVE  /\ served' \in [Sources -> ServedType]
           /\ inbox' \in [Replicas -> Seq(Signals)]
           /\ \A r \in Replicas : \A q \in Seq(Asks) :
                Link(IsOpen(r), client[r], q, inbox[r], read[r], served[Source(r)]) =>
                Link(IsOpen(r), client[r], q, inbox'[r], read[r], served'[Source(r)])
  <1>1. CASE ~(c[1] \in served[s].zones \cup {General} /\ served[s].value[c] # v)
    <2>1. UNCHANGED <<served, inbox>> BY <1>1 DEF SetOn
    <2> QED BY <2>1 DEF ZonesTypeOK, ServedType
  <1>2. CASE c[1] \in served[s].zones \cup {General} /\ served[s].value[c] # v
    <2> DEFINE m == ValueIs("changed", c, v)
    <2>1. /\ served' = [served EXCEPT ![s].value[c] = v]
          /\ inbox' = [r \in Replicas |->
               IF r \in Connected(s) THEN Append(inbox[r], m) ELSE inbox[r]]
      BY <1>2 DEF SetOn
    <2>2. m \in Signals BY DEF ValueIs, Signals
    <2>3. served \in [Sources -> ServedType] BY DEF ZonesTypeOK, ServedType
    <2>4. /\ served' \in [Sources -> ServedType]
          /\ served'[s] = [served[s] EXCEPT !.value[c] = v]
          /\ \A x \in Sources : x # s => served'[x] = served[x]
      <3>1. served[s] \in ServedType BY <2>3
      <3>2. [served[s] EXCEPT !.value[c] = v] \in ServedType BY <3>1 DEF ServedType
      <3> QED BY <2>1, <2>3, <3>2
    <2> HIDE DEF m
    <2>5. inbox' \in [Replicas -> Seq(Signals)]
      <3>1. \A r \in Replicas : Append(inbox[r], m) \in Seq(Signals)
        BY <2>2, Appended DEF ZonesTypeOK
      <3> QED BY <2>1, <3>1 DEF ZonesTypeOK
    <2>6. ASSUME NEW r \in Replicas, NEW q \in Seq(Asks),
                 Link(IsOpen(r), client[r], q, inbox[r], read[r], served[Source(r)])
          PROVE  Link(IsOpen(r), client[r], q, inbox'[r], read[r], served'[Source(r)])
      <3>1. /\ client[r] \in Clients /\ inbox[r] \in Seq(Signals)
            /\ read[r] \in SUBSET Cells /\ served[Source(r)] \in ServedType
            /\ Source(r) \in Sources
        BY ZonesAt
      <3>2. r \in Connected(s) <=> Source(r) = s /\ IsOpen(r)
        BY DEF Connected, Source, IsOpen
      <3>3. CASE Source(r) = s /\ IsOpen(r)
        <4>1. Session(client[r], q, inbox[r], read[r], served[s]) BY <2>6, <3>3 DEF Link
        <4>2. Session(client[r], q, Append(inbox[r], m), read[r],
                      [served[s] EXCEPT !.value[c] = v])
          BY <3>1, <3>3, <4>1, ChangeKeeps DEF m
        <4>3. inbox'[r] = Append(inbox[r], m) BY <2>1, <3>2, <3>3
        <4> QED BY <2>4, <3>3, <4>2, <4>3 DEF Link
      <3>4. CASE ~(Source(r) = s /\ IsOpen(r))
        <4>1. inbox'[r] = inbox[r] BY <2>1, <3>2, <3>4
        <4>2. CASE IsOpen(r) BY <2>4, <2>6, <3>1, <3>4, <4>1, <4>2
        <4>3. CASE ~IsOpen(r) BY <2>6, <4>1, <4>3 DEF Link
        <4> QED BY <4>2, <4>3
      <3> QED BY <3>3, <3>4
    <2> QED BY <2>4, <2>5, <2>6
  <1> QED BY <1>1, <1>2

\* A change on a server keeps the links.
LEMMA ChangeOnServerStep ==
    ASSUME RemoteAssumption, ZonesAssumption, TypeOK, ZonesTypeOK, ZonesInv,
           NEW s \in Sources, NEW c \in Cells, NEW v \in Values, ChangeOnServer(s, c, v)
    PROVE  ZonesTypeOK' /\ ZonesInv'
  <1>1. /\ UNCHANGED <<replica, asks, client, read>> /\ SetOn(s, c, v)
        /\ changes' = changes + 1
    BY DEF ChangeOnServer, vars
  <1>2. ZonesTypeOK' BY <1>1, SetOnKeeps DEF ZonesTypeOK, ServedType
  <1>3. ASSUME NEW r \in Replicas
        PROVE  Link(IsOpen(r)', client'[r], asks'[r], inbox'[r], read'[r], served'[Source(r)'])
    <2>1. IsOpen(r)' = IsOpen(r) /\ Source(r)' = Source(r) BY <1>1 DEF IsOpen, Source
    <2>2. Link(IsOpen(r), client[r], asks[r], inbox[r], read[r], served[Source(r)])
      BY DEF ZonesInv
    <2>3. asks[r] \in Seq(Asks) BY ZonesAt
    <2>4. Link(IsOpen(r), client[r], asks[r], inbox'[r], read[r], served'[Source(r)])
      BY <1>1, <2>2, <2>3, SetOnKeeps
    <2> QED BY <1>1, <2>1, <2>4
  <1> QED BY <1>2, <1>3 DEF ZonesInv

\* A setter of the backend keeps the links.
LEMMA SetPropertyStep ==
    ASSUME RemoteAssumption, ZonesAssumption, TypeOK, ZonesTypeOK, ZonesInv,
           NEW r \in Replicas, NEW c \in Cells, NEW v \in Values, SetProperty(r, c, v)
    PROVE  ZonesTypeOK' /\ ZonesInv'
  <1>1. /\ UNCHANGED <<replica, served, inbox, client, read>> /\ changes' = changes + 1
        /\ asks' = IF IsOpen(r) THEN [asks EXCEPT ![r] = Append(@, AskSet(c, v))] ELSE asks
    BY DEF SetProperty, vars
  <1>2. AskSet(c, v) \in Asks BY DEF AskSet, Asks
  <1>3. /\ client[r] \in Clients /\ asks[r] \in Seq(Asks) /\ inbox[r] \in Seq(Signals)
        /\ read[r] \in SUBSET Cells /\ served[Source(r)] \in ServedType
    BY ZonesAt
  <1>4. Append(asks[r], AskSet(c, v)) \in Seq(Asks) BY <1>2, <1>3, Appended
  <1>5. ZonesTypeOK' BY <1>1, <1>4 DEF ZonesTypeOK
  <1>6. Link(IsOpen(r)', client'[r], asks'[r], inbox'[r], read'[r], served'[Source(r)'])
    <2>1. IsOpen(r)' = IsOpen(r) /\ Source(r)' = Source(r) BY <1>1 DEF IsOpen, Source
    <2>2. Link(IsOpen(r), client[r], asks[r], inbox[r], read[r], served[Source(r)])
      BY DEF ZonesInv
    <2>3. CASE IsOpen(r)
      <3>1. Session(client[r], asks[r], inbox[r], read[r], served[Source(r)])
        BY <2>2, <2>3 DEF Link
      <3>2. Session(client[r], Append(asks[r], AskSet(c, v)), inbox[r], read[r],
                    served[Source(r)])
        BY <1>3, <3>1, SetAskKeeps
      <3>3. asks'[r] = Append(asks[r], AskSet(c, v)) BY <1>1, <2>3 DEF ZonesTypeOK
      <3> QED BY <1>1, <2>1, <2>3, <3>2, <3>3 DEF Link
    <2>4. CASE ~IsOpen(r) BY <1>1, <2>1, <2>2, <2>4
    <2> QED BY <2>3, <2>4
  <1>7. \A x \in Replicas \ {r} : asks'[x] = asks[x] BY <1>1 DEF ZonesTypeOK
  <1>8. ZonesInv' BY <1>1, <1>6, <1>7, LinksStay
  <1> QED BY <1>5, <1>8

\* A slot of the adapter keeps the links.
LEMMA ServeAskStep ==
    ASSUME RemoteAssumption, ZonesAssumption, TypeOK, ZonesTypeOK, ZonesInv,
           NEW r \in Replicas, ServeAsk(r)
    PROVE  ZonesTypeOK' /\ ZonesInv'
  <1> DEFINE q == asks[r]
             srv == served[Source(r)]
  <1>1. UNCHANGED <<replica, client, read, changes>> /\ q # <<>>
    BY DEF ServeAsk, vars
  <1>2. /\ client[r] \in Clients /\ q \in Seq(Asks) /\ inbox[r] \in Seq(Signals)
        /\ read[r] \in SUBSET Cells /\ srv \in ServedType /\ Source(r) \in Sources
    BY ZonesAt
  <1>3. IsOpen(r) /\ Session(client[r], q, inbox[r], read[r], srv)
    BY <1>1 DEF ZonesInv, Link
  <1>4. Head(q) \in Asks /\ Tail(q) \in Seq(Asks) BY <1>1, <1>2, HeadAndTail
  <1>5. IsOpen(r)' = IsOpen(r) /\ Source(r)' = Source(r) BY <1>1 DEF IsOpen, Source
  <1>6. CASE ServeZones(r)
    <2> DEFINE m == ZonesAre(srv.zones)
    <2>1. /\ asks' = [asks EXCEPT ![r] = Tail(q)] /\ inbox' = [inbox EXCEPT ![r] = Append(@, m)]
          /\ served' = served /\ Head(q).op = "zones"
      BY <1>6 DEF ServeZones
    <2>2. m \in Signals
      <3>1. AnyCell \in Cells BY CellsThere
      <3> QED BY <1>2, <3>1 DEF ZonesAre, Signals, ServedType, ZonesAssumption
    <2>3. Append(inbox[r], m) \in Seq(Signals) BY <1>2, <2>2, Appended
    <2>4. Session(client[r], Tail(q), Append(inbox[r], m), read[r], srv)
      BY <1>1, <1>2, <1>3, <2>1, ZonesServedKeeps
    <2>5. ZonesTypeOK' BY <1>1, <1>4, <2>1, <2>3 DEF ZonesTypeOK
    <2>6. asks'[r] = Tail(q) /\ inbox'[r] = Append(inbox[r], m) BY <2>1 DEF ZonesTypeOK
    <2>7. Link(IsOpen(r)', client'[r], asks'[r], inbox'[r], read'[r], served'[Source(r)'])
      BY <1>1, <1>3, <1>5, <2>1, <2>4, <2>6 DEF Link
    <2>8. \A x \in Replicas \ {r} : asks'[x] = asks[x] /\ inbox'[x] = inbox[x]
      BY <2>1 DEF ZonesTypeOK
    <2>9. ZonesInv' BY <1>1, <2>1, <2>7, <2>8, LinksStay
    <2> QED BY <2>5, <2>9
  <1>7. ASSUME NEW c \in Cells, ServeValue(r, c) PROVE ZonesTypeOK' /\ ZonesInv'
    <2> DEFINE cells == Head(q).cells \ {c}
               rest == IF cells = {} THEN <<>> ELSE <<AskCells(cells)>>
               m == ValueIs("value", c, srv.value[c])
    <2>1. /\ asks' = [asks EXCEPT ![r] = rest \o Tail(q)]
          /\ inbox' = [inbox EXCEPT ![r] = Append(@, m)]
          /\ served' = served /\ Head(q).op = "get" /\ c \in Head(q).cells
      BY <1>7 DEF ServeValue, ValueOn
    <2>2. m \in Signals BY <1>2 DEF ValueIs, Signals, ServedType
    <2>3. Append(inbox[r], m) \in Seq(Signals) BY <1>2, <2>2, Appended
    <2>4. rest \in {<<>>, <<AskCells(Head(q).cells \ {c})>>} OBVIOUS
    <2> HIDE DEF rest, m
    <2>5. /\ rest \o Tail(q) \in Seq(Asks)
          /\ Session(client[r], rest \o Tail(q), Append(inbox[r], m), read[r], srv)
      BY <1>1, <1>2, <1>3, <2>1, <2>4, ValueServedKeeps DEF m
    <2>6. ZonesTypeOK' BY <1>1, <2>1, <2>3, <2>5 DEF ZonesTypeOK
    <2>7. asks'[r] = rest \o Tail(q) /\ inbox'[r] = Append(inbox[r], m)
      BY <2>1 DEF ZonesTypeOK
    <2>8. Link(IsOpen(r)', client'[r], asks'[r], inbox'[r], read'[r], served'[Source(r)'])
      BY <1>1, <1>3, <1>5, <2>1, <2>5, <2>7 DEF Link
    <2>9. \A x \in Replicas \ {r} : asks'[x] = asks[x] /\ inbox'[x] = inbox[x]
      BY <2>1 DEF ZonesTypeOK
    <2>10. ZonesInv' BY <1>1, <2>1, <2>8, <2>9, LinksStay
    <2> QED BY <2>6, <2>10
  <1>8. ASSUME NEW c \in Cells, ServeSet(r, c) PROVE ZonesTypeOK' /\ ZonesInv'
    <2> DEFINE v == Head(q).value
    <2>1. /\ asks' = [asks EXCEPT ![r] = Tail(q)] /\ SetOn(Source(r), c, v)
          /\ Head(q).op = "set"
      BY <1>8 DEF ServeSet
    <2>2. v \in Values BY <1>4 DEF Asks
    <2> HIDE DEF v
    <2>3. /\ served' \in [Sources -> ServedType]
          /\ inbox' \in [Replicas -> Seq(Signals)]
          /\ \A x \in Replicas : \A p \in Seq(Asks) :
               Link(IsOpen(x), client[x], p, inbox[x], read[x], served[Source(x)]) =>
               Link(IsOpen(x), client[x], p, inbox'[x], read[x], served'[Source(x)])
      BY <1>2, <2>1, <2>2, SetOnKeeps
    <2>4. asks' \in [Replicas -> Seq(Asks)] BY <1>4, <2>1 DEF ZonesTypeOK
    <2>5. ZonesTypeOK' BY <1>1, <2>3, <2>4 DEF ZonesTypeOK, ServedType
    <2>6. ASSUME NEW x \in Replicas
          PROVE  Link(IsOpen(x), client[x], asks'[x], inbox[x], read[x], served[Source(x)])
      <3>1. CASE x = r
        <4>1. Session(client[r], Tail(q), inbox[r], read[r], srv)
          BY <1>1, <1>2, <1>3, <2>1, ServedKeeps
        <4> QED BY <1>3, <2>1, <3>1, <4>1 DEF Link, ZonesTypeOK
      <3>2. CASE x # r
        <4>1. asks'[x] = asks[x] BY <2>1, <3>2 DEF ZonesTypeOK
        <4> QED BY <4>1 DEF ZonesInv
      <3> QED BY <3>1, <3>2
    <2>7. ASSUME NEW x \in Replicas
          PROVE  Link(IsOpen(x)', client'[x], asks'[x], inbox'[x], read'[x], served'[Source(x)'])
      <3>1. IsOpen(x)' = IsOpen(x) /\ Source(x)' = Source(x) BY <1>1 DEF IsOpen, Source
      <3>2. asks'[x] \in Seq(Asks) BY <2>4
      <3>3. Link(IsOpen(x), client[x], asks'[x], inbox'[x], read[x], served'[Source(x)])
        BY <2>3, <2>6, <3>2
      <3> QED BY <1>1, <3>1, <3>3
    <2> QED BY <2>5, <2>7 DEF ZonesInv
  <1> QED BY <1>6, <1>7, <1>8 DEF ServeAsk

\* What a backend hears keeps the links.
LEMMA HearStep ==
    ASSUME RemoteAssumption, ZonesAssumption, TypeOK, ZonesTypeOK, ZonesInv,
           NEW r \in Replicas, Hear(r)
    PROVE  ZonesTypeOK' /\ ZonesInv'
  <1> DEFINE m == Head(inbox[r])
             b == client[r]
             srv == served[Source(r)]
  <1>1. /\ UNCHANGED <<replica, served, changes>> /\ inbox[r] # <<>>
        /\ inbox' = [inbox EXCEPT ![r] = Tail(@)]
    BY DEF Hear, vars
  <1>2. /\ b \in Clients /\ asks[r] \in Seq(Asks) /\ inbox[r] \in Seq(Signals)
        /\ read[r] \in SUBSET Cells /\ srv \in ServedType
    BY ZonesAt
  <1>3. IsOpen(r) /\ Session(b, asks[r], inbox[r], read[r], srv)
    BY <1>1 DEF ZonesInv, Link
  <1>4. m \in Signals /\ Tail(inbox[r]) \in Seq(Signals) BY <1>1, <1>2, HeadAndTail
  <1>5. IsOpen(r)' = IsOpen(r) /\ Source(r)' = Source(r) BY <1>1 DEF IsOpen, Source
  <1>6. m.kind \in {"zones", "value", "changed"} /\ m.zones \in SUBSET Zones
        /\ m.cell \in Cells /\ m.value \in Values
    BY <1>4 DEF Signals
  <1>7. SUFFICES ASSUME NEW b1 \in Clients, NEW q1 \in Seq(Asks), NEW R1 \in SUBSET Cells,
                        client' = [client EXCEPT ![r] = b1], asks' = [asks EXCEPT ![r] = q1],
                        read' = [read EXCEPT ![r] = R1],
                        Session(b1, q1, Tail(inbox[r]), R1, srv)
                 PROVE  ZonesTypeOK' /\ ZonesInv'
    <2>1. asks = [asks EXCEPT ![r] = asks[r]] /\ read = [read EXCEPT ![r] = read[r]]
      BY DEF ZonesTypeOK
    <2>2. CASE m.kind = "zones"
      <3> DEFINE a == AskCells(CellsOf(b.known \cup m.zones))
      <3>1. ~b.synced /\ Append(asks[r], a) \in Seq(Asks)
            /\ Session(GotZones(b, m.zones), Append(asks[r], a), Tail(inbox[r]), read[r], srv)
        BY <1>1, <1>2, <1>3, <2>2, ZonesHeardKeeps
      <3>2. GotZones(b, m.zones) \in Clients BY <1>2, <1>6, HandlersType
      <3>3. /\ client' = [client EXCEPT ![r] = GotZones(b, m.zones)]
            /\ asks' = [asks EXCEPT ![r] = Append(asks[r], a)] /\ read' = read
        BY <2>2, <3>1 DEF Hear
      <3> HIDE DEF a, m, b, srv
      <3> QED BY <1>2, <1>7, <2>1, <3>1, <3>2, <3>3
    <2>3. CASE m.kind = "value"
      <3>1. Session(GotValue(b, m.cell, m.value), asks[r], Tail(inbox[r]),
                    read[r] \cup {m.cell}, srv)
        BY <1>1, <1>2, <1>3, <2>3, ValueHeardKeeps
      <3>2. GotValue(b, m.cell, m.value) \in Clients BY <1>2, <1>6, HandlersType
      <3>3. /\ client' = [client EXCEPT ![r] = GotValue(b, m.cell, m.value)]
            /\ asks' = asks /\ read' = [read EXCEPT ![r] = read[r] \cup {m.cell}]
        BY <2>3 DEF Hear
      <3>4. read[r] \cup {m.cell} \in SUBSET Cells BY <1>2, <1>6
      <3> HIDE DEF m, b, srv
      <3> QED BY <1>2, <1>7, <2>1, <3>1, <3>2, <3>3, <3>4
    <2>4. CASE m.kind = "changed"
      <3>1. Session(GotChange(b, m.cell, m.value), asks[r], Tail(inbox[r]), read[r], srv)
        BY <1>1, <1>2, <1>3, <2>4, ChangeHeardKeeps
      <3>2. GotChange(b, m.cell, m.value) \in Clients BY <1>2, <1>6, HandlersType
      <3>3. /\ client' = [client EXCEPT ![r] = GotChange(b, m.cell, m.value)]
            /\ asks' = asks /\ read' = read
        BY <2>4 DEF Hear
      <3> HIDE DEF m, b, srv
      <3> QED BY <1>2, <1>7, <2>1, <3>1, <3>2, <3>3
    <2> QED BY <1>6, <2>2, <2>3, <2>4
  <1>8. ZonesTypeOK' BY <1>1, <1>4, <1>7 DEF ZonesTypeOK
  <1>9. client'[r] = b1 /\ asks'[r] = q1 /\ read'[r] = R1 /\ inbox'[r] = Tail(inbox[r])
    BY <1>1, <1>7 DEF ZonesTypeOK
  <1>10. Link(IsOpen(r)', client'[r], asks'[r], inbox'[r], read'[r], served'[Source(r)'])
    BY <1>1, <1>3, <1>5, <1>7, <1>9 DEF Link
  <1>11. \A x \in Replicas \ {r} : /\ client'[x] = client[x] /\ asks'[x] = asks[x]
                                   /\ read'[x] = read[x] /\ inbox'[x] = inbox[x]
    BY <1>1, <1>7 DEF ZonesTypeOK
  <1>12. ZonesInv' BY <1>1, <1>10, <1>11, LinksStay
  <1> QED BY <1>8, <1>12
\* Another feature keeps the links.
LEMMA InitializeStep ==
    ASSUME RemoteAssumption, ZonesAssumption, TypeOK, ZonesTypeOK, ZonesInv,
           NEW r \in Replicas, Initialize(r)
    PROVE  ZonesTypeOK' /\ ZonesInv'
  <1> DEFINE b == client[r]
             e == [b EXCEPT !.shown = [c \in Cells |-> Unknown], !.waits = TRUE]
             b1 == Initialized(e)
  <1>1. /\ UNCHANGED <<replica, served, asks, inbox, read, changes>>
        /\ client' = [client EXCEPT ![r] = b1]
    BY DEF Initialize, vars
  <1>2. b \in Clients BY ZonesAt
  <1>3. b1 \in Clients BY <1>2, HandlersType
  <1>4. /\ e.zones = b.zones /\ e.known = b.known /\ e.toSync = b.toSync
        /\ e.value = b.value /\ e.synced = b.synced /\ e \in Clients
    BY <1>2 DEF Clients
  <1>5. Link(IsOpen(r), b, asks[r], inbox[r], read[r], served[Source(r)])
    BY DEF ZonesInv
  <1> HIDE DEF e
  <1>6. Link(IsOpen(r), b1, asks[r], inbox[r], read[r], served[Source(r)])
    <2>1. CASE ~b.synced
      <3>1. b1 = e BY <1>4, <2>1 DEF Initialized
      <3>2. CASE IsOpen(r)
        <4>1. Progress(b, asks[r], inbox[r], read[r], served[Source(r)])
              /\ Current(b, inbox[r], read[r], served[Source(r)])
          BY <1>5, <3>2 DEF Link, Session
        <4> HIDE DEF b, b1
        <4>2. Progress(b1, asks[r], inbox[r], read[r], served[Source(r)])
          BY <1>4, <2>1, <3>1, <4>1 DEF Progress
        <4>3. Current(b1, inbox[r], read[r], served[Source(r)])
          BY <1>4, <3>1, <4>1 DEF Current
        <4> QED BY <3>2, <4>2, <4>3 DEF Link, Session
      <3>3. CASE ~IsOpen(r)
        <4> HIDE DEF b, b1
        <4> QED BY <1>4, <1>5, <3>1, <3>3 DEF Link
      <3> QED BY <3>2, <3>3
    <2>2. CASE b.synced
      <3> DEFINE q == asks[r]
                 i == inbox[r]
                 R == read[r]
                 srv == served[Source(r)]
      <3>1. IsOpen(r) /\ Progress(b, q, i, R, srv) /\ Current(b, i, R, srv)
        BY <1>5, <2>2 DEF Link, Session
      <3> HIDE DEF q, i, R, srv
      <3>2. b.toSync = {} BY <2>2, <3>1 DEF Progress
      <3> DEFINE f == [d \in Cells |-> IF d[1] \in e.known THEN e.value[d] ELSE e.shown[d]]
      <3>3. b1 = [e EXCEPT !.synced = TRUE, !.waits = FALSE, !.shown = f]
        BY <1>4, <2>2, <3>2 DEF Initialized, OnZoneSyncDone
      <3> HIDE DEF b1, b
      <3>4. /\ b1.zones = b.zones /\ b1.known = b.known /\ b1.toSync = b.toSync
            /\ b1.value = b.value /\ b1.synced /\ ~b1.waits /\ b1.shown = f
        BY <1>4, <3>3 DEF Clients
      <3>5. \A d \in CellsOf(b.known) : d \in Cells /\ d[1] \in b.known
        BY <1>2 DEF Clients, CellsOf, Cells
      <3>6. \A d \in CellsOf(b1.known) : b1.shown[d] = b1.value[d]
        BY <1>4, <3>4, <3>5
      <3> HIDE DEF f
      <3>7. Progress(b1, q, i, R, srv)
        BY <2>2, <3>1, <3>2, <3>4, <3>6 DEF Progress
      <3>8. Current(b1, i, R, srv) BY <3>1, <3>4 DEF Current
      <3> QED BY <3>1, <3>7, <3>8 DEF Link, Session, q, i, R, srv
    <2> QED BY <2>1, <2>2
  <1>7. ZonesTypeOK' BY <1>1, <1>3 DEF ZonesTypeOK
  <1>8. client'[r] = b1 /\ \A x \in Replicas \ {r} : client'[x] = client[x]
    BY <1>1 DEF ZonesTypeOK
  <1>9. Link(IsOpen(r)', client'[r], asks'[r], inbox'[r], read'[r], served'[Source(r)'])
    <2>1. IsOpen(r)' = IsOpen(r) /\ Source(r)' = Source(r) BY <1>1 DEF IsOpen, Source
    <2> QED BY <1>1, <1>6, <1>8, <2>1
  <1>10. ZonesInv' BY <1>1, <1>8, <1>9, LinksStay
  <1> QED BY <1>7, <1>10

\* A replica that connects begins with the zones to be asked for.
LEMMA ZonedConnectStep ==
    ASSUME RemoteAssumption, ZonesAssumption, TypeOK, ZonesTypeOK, ZonesInv,
           NEW r \in Replicas, ZonedConnect(r)
    PROVE  ZonesTypeOK' /\ ZonesInv'
  <1>1. PICK state \in {"Valid", "SignatureMismatch"} :
          replica' = [replica EXCEPT ![r] = Enters(r, state)]
    BY DEF ZonedConnect, Connect
  <1>2. /\ UNCHANGED <<served, inbox, client, read, changes>>
        /\ asks' = IF replica'[r].state = "Valid" THEN [asks EXCEPT ![r] = Append(@, AskZones)]
                   ELSE asks
        /\ ~IsOpen(r)
    BY DEF ZonedConnect, Connect, IsOpen
  <1>3. /\ replica'[r].state = state /\ replica'[r].source = replica[r].source
        /\ \A x \in Replicas \ {r} : replica'[x] = replica[x]
    BY <1>1 DEF Enters, TypeOK
  <1>4. /\ asks[r] = <<>> /\ inbox[r] = <<>> /\ read[r] = {} /\ ~client[r].synced
        /\ client[r].toSync \subseteq CellsOf(client[r].known)
    BY <1>2 DEF ZonesInv, Link
  <1>5. AskZones \in Asks BY DEF AskZones, Asks, ZonesAssumption
  <1>6. /\ Append(asks[r], AskZones) \in Seq(Asks)
        /\ Len(Append(asks[r], AskZones)) = 1
        /\ Append(asks[r], AskZones)[1] = AskZones
    BY <1>4, <1>5, Appended
  <1>7. ZonesTypeOK' BY <1>2, <1>6 DEF ZonesTypeOK
  <1>8. \A x \in Replicas \ {r} : asks'[x] = asks[x] BY <1>2 DEF ZonesTypeOK
  <1>9. Link(IsOpen(r)', client'[r], asks'[r], inbox'[r], read'[r], served'[Source(r)'])
    <2>1. CASE state = "Valid"
      <3> DEFINE q == Append(asks[r], AskZones)
                 b == client[r]
                 srv == served[Source(r)]
      <3>1. asks'[r] = q BY <1>2, <1>3, <2>1 DEF ZonesTypeOK
      <3>2. IsOpen(r)' /\ Source(r)' = Source(r) BY <1>3, <2>1 DEF IsOpen, Source
      <3>3. Len(q) = 1 /\ q[1].op = "zones" BY <1>6 DEF AskZones
      <3>4. ~b.synced /\ b.toSync \subseteq CellsOf(b.known) BY <1>4
      <3>5. Len(<<>>) = 0 OBVIOUS
      <3> HIDE DEF q, b, srv
      <3>6. Asked(q) /\ ~Answered(<<>>) BY <3>3, <3>5 DEF Asked, Answered
      <3>7. \A k \in 1..Len(q) : k = 1 /\ q[k].op # "get" BY <3>3
      <3>8. \A k \in 1..Len(<<>>) : FALSE BY <3>5
      <3>9. Progress(b, q, <<>>, {}, srv)
        BY <3>4, <3>6, <3>7, <3>8 DEF Progress
      <3>10. Current(b, <<>>, {}, srv) BY <3>8 DEF Current
      <3> QED BY <1>2, <1>4, <3>1, <3>2, <3>9, <3>10 DEF Link, Session, b, srv
    <2>2. CASE state # "Valid"
      <3>1. ~IsOpen(r)' BY <1>3, <2>2 DEF IsOpen
      <3>2. asks'[r] = asks[r] BY <1>2, <1>3, <2>2
      <3> QED BY <1>2, <1>4, <3>1, <3>2 DEF Link
    <2> QED BY <2>1, <2>2
  <1>10. ZonesInv' BY <1>2, <1>3, <1>8, <1>9, LinksStay
  <1> QED BY <1>7, <1>10

\* The connections of R are cut.
LEMMA DroppedStep ==
    ASSUME RemoteAssumption, ZonesAssumption, TypeOK, ZonesTypeOK, ZonesInv,
           NEW R, Dropped(R), client' \in [Replicas -> Clients],
           \A x \in Replicas : x \in R =>
             /\ replica'[x].state # "Valid" /\ ~client'[x].synced
             /\ client'[x].known = client[x].known /\ client'[x].toSync = client[x].toSync,
           \A x \in Replicas : x \notin R =>
             /\ replica'[x] = replica[x] /\ client'[x] = client[x]
             /\ IsOpen(x) => served'[Source(x)] = served[Source(x)],
           served' \in [Sources -> ServedType]
    PROVE  ZonesTypeOK' /\ ZonesInv'
  <1>1. /\ asks' = [x \in Replicas |-> IF x \in R THEN <<>> ELSE asks[x]]
        /\ inbox' = [x \in Replicas |-> IF x \in R THEN <<>> ELSE inbox[x]]
        /\ read' = [x \in Replicas |-> IF x \in R THEN {} ELSE read[x]]
        /\ changes' = changes
    BY DEF Dropped
  <1>2. /\ asks' \in [Replicas -> Seq(Asks)] /\ inbox' \in [Replicas -> Seq(Signals)]
        /\ read' \in [Replicas -> SUBSET Cells]
    <2>1. \A S : <<>> \in Seq(S) OBVIOUS
    <2> QED BY <1>1, <2>1 DEF ZonesTypeOK
  <1>3. ZonesTypeOK' BY <1>1, <1>2 DEF ZonesTypeOK, ServedType
  <1>4. ASSUME NEW x \in Replicas
        PROVE  Link(IsOpen(x)', client'[x], asks'[x], inbox'[x], read'[x], served'[Source(x)'])
    <2>1. Link(IsOpen(x), client[x], asks[x], inbox[x], read[x], served[Source(x)])
      BY DEF ZonesInv
    <2>2. CASE x \in R
      <3>1. ~IsOpen(x)' BY <2>2 DEF IsOpen
      <3>2. client[x].toSync \subseteq CellsOf(client[x].known)
        BY <2>1 DEF Link, Session, Progress
      <3>3. asks'[x] = <<>> /\ inbox'[x] = <<>> /\ read'[x] = {} BY <1>1, <2>2
      <3> QED BY <2>2, <3>1, <3>2, <3>3 DEF Link
    <2>3. CASE x \notin R
      <3>1. asks'[x] = asks[x] /\ inbox'[x] = inbox[x] /\ read'[x] = read[x] BY <1>1, <2>3
      <3>2. IsOpen(x)' = IsOpen(x) /\ Source(x)' = Source(x) /\ client'[x] = client[x]
        BY <2>3 DEF IsOpen, Source
      <3>3. CASE IsOpen(x)
        <4>1. served'[Source(x)] = served[Source(x)] BY <2>3, <3>3
        <4> QED BY <2>1, <3>1, <3>2, <4>1
      <3>4. CASE ~IsOpen(x) BY <2>1, <3>1, <3>2, <3>4 DEF Link
      <3> QED BY <3>3, <3>4
    <2> QED BY <2>2, <2>3
  <1> QED BY <1>3, <1>4 DEF ZonesInv

\* A backend that is suspected is not synced.
LEMMA SuspectedIs ==
    ASSUME ZonesTypeOK, NEW R, Suspected(R)
    PROVE  /\ client' \in [Replicas -> Clients]
           /\ \A x \in Replicas : x \notin R => client'[x] = client[x]
           /\ \A x \in Replicas : x \in R =>
                /\ ~client'[x].synced
                /\ client'[x].known = client[x].known /\ client'[x].toSync = client[x].toSync
  <1>1. \A x \in Replicas : /\ NotSynced(client[x]) \in Clients
                            /\ ~NotSynced(client[x]).synced
                            /\ NotSynced(client[x]).known = client[x].known
                            /\ NotSynced(client[x]).toSync = client[x].toSync
    BY DEF ZonesTypeOK, NotSynced, Clients
  <1> QED BY <1>1 DEF Suspected, ZonesTypeOK

\* A lost connection, a restart and a change of the URL keep the links.
LEMMA CutsStep ==
    ASSUME RemoteAssumption, ZonesAssumption, ~SwitchesAnyTime, TypeOK, ZonesTypeOK, ZonesInv,
           \/ \E r \in Replicas : ZonedConnectionLost(r)
           \/ \E s \in Sources : ZonedSourceRestarts(s)
           \/ \E r \in Replicas, s \in Sources : ZonedUpdateServiceSettings(r, s)
    PROVE  ZonesTypeOK' /\ ZonesInv'
  <1>0. served \in [Sources -> ServedType] /\ client \in [Replicas -> Clients]
    BY DEF ZonesTypeOK, ServedType
  <1>1. ASSUME NEW r \in Replicas, ZonedConnectionLost(r) PROVE ZonesTypeOK' /\ ZonesInv'
    <2>1. /\ replica' = [replica EXCEPT ![r] = Enters(r, "Suspect")]
          /\ Dropped({r}) /\ Suspected({r}) /\ served' = served
      BY <1>1 DEF ZonedConnectionLost, ConnectionLost
    <2>2. /\ replica'[r].state = "Suspect"
          /\ \A x \in Replicas : x \notin {r} => replica'[x] = replica[x]
      BY <2>1 DEF Enters, TypeOK
    <2> QED BY <1>0, <2>1, <2>2, SuspectedIs, DroppedStep
  <1>2. ASSUME NEW s \in Sources, ZonedSourceRestarts(s) PROVE ZonesTypeOK' /\ ZonesInv'
    <2>1. PICK zones \in ZoneLists : served' = [served EXCEPT ![s] = NewServed(zones)]
      BY <1>2 DEF ZonedSourceRestarts
    <2>2. /\ replica' = [x \in Replicas |->
                           IF x \in Connected(s) THEN Enters(x, "Suspect") ELSE replica[x]]
          /\ Dropped(Connected(s)) /\ Suspected(Connected(s))
      BY <1>2 DEF ZonedSourceRestarts, SourceRestarts
    <2>3. \A x \in Replicas : x \in Connected(s) => replica'[x].state # "Valid"
      <3>1. \A x \in Replicas : Enters(x, "Suspect").state = "Suspect" BY DEF Enters, TypeOK
      <3> QED BY <2>2, <3>1
    <2>4. NewServed(zones) \in ServedType BY DEF NewServed, ServedType, ZonesAssumption
    <2>5. served' \in [Sources -> ServedType] BY <1>0, <2>1, <2>4
    <2>6. \A x \in Replicas : x \notin Connected(s) =>
            /\ replica'[x] = replica[x]
            /\ IsOpen(x) => served'[Source(x)] = served[Source(x)]
      <3> TAKE x \in Replicas
      <3> HAVE x \notin Connected(s)
      <3>1. replica'[x] = replica[x] BY <2>2
      <3>2. IsOpen(x) => Source(x) # s BY DEF Connected, IsOpen, Source
      <3>3. Source(x) # s => served'[Source(x)] = served[Source(x)]
        BY <1>0, <2>1, ZonesAt
      <3> QED BY <3>1, <3>2, <3>3
    <2>7. /\ client' \in [Replicas -> Clients]
          /\ \A x \in Replicas : x \notin Connected(s) => client'[x] = client[x]
          /\ \A x \in Replicas : x \in Connected(s) =>
               /\ ~client'[x].synced
               /\ client'[x].known = client[x].known /\ client'[x].toSync = client[x].toSync
      BY <2>2, SuspectedIs
    <2> QED BY <2>2, <2>3, <2>5, <2>6, <2>7, DroppedStep
  <1>3. ASSUME NEW r \in Replicas, NEW s \in Sources, ZonedUpdateServiceSettings(r, s)
        PROVE  ZonesTypeOK' /\ ZonesInv'
    <2>1. /\ replica' = [replica EXCEPT ![r].source = s, ![r].state = "Default"]
          /\ Dropped({r}) /\ served' = served /\ client' = client /\ ~client[r].synced
      BY <1>3 DEF ZonedUpdateServiceSettings, UpdateServiceSettings
    <2>2. /\ replica'[r].state = "Default"
          /\ \A x \in Replicas : x \notin {r} => replica'[x] = replica[x]
      BY <2>1 DEF TypeOK
    <2> QED BY <1>0, <2>1, <2>2, DroppedStep
  <1> QED BY <1>1, <1>2, <1>3

\* What a feature calls, and what becomes of the calls, does not change connections.
LEMMA CallsKeepConnections ==
    ASSUME RemoteAssumption, TypeOK, CallSteps, NEW q \in Replicas
    PROVE  replica'[q].source = replica[q].source /\ replica'[q].state = replica[q].state
  <1>1. ASSUME NEW c \in Calls, NEW res, Resolve(c, res)
        PROVE  replica'[q].source = replica[q].source /\ replica'[q].state = replica[q].state
    BY <1>1 DEF Resolve, TypeOK
  <1>2. ASSUME NEW r \in Replicas, Receive(r)
        PROVE  replica'[q].source = replica[q].source /\ replica'[q].state = replica[q].state
    <2> DEFINE m == Head(packets[r])
    <2>1. m \in Packets BY <1>2, HeadAndTail DEF TypeOK, Receive
    <2>2. m.call \in Calls /\ m.kind \in Kinds BY <2>1 DEF Packets
    <2> HIDE DEF m
    <2>3. CASE m.kind = "result"
      <3>1. OnPendingResultAvailable(r, m) BY <1>2, <2>3 DEF Receive, m
      <3>2. \A e \in waiting[r] : e[2] \in Calls BY DEF TypeOK
      <3> QED BY <1>1, <3>1, <3>2 DEF OnPendingResultAvailable
    <2>4. CASE m.kind = "pending" BY <1>2, <2>4 DEF Receive, Finished, m
    <2>5. CASE m.kind = "value" BY <1>1, <1>2, <2>2, <2>5 DEF Receive, Finished, m
    <2>6. CASE m.kind = "failed" BY <1>1, <1>2, <2>2, <2>6 DEF Receive, Finished, m
    <2> QED BY <2>2, <2>3, <2>4, <2>5, <2>6 DEF Kinds
  <1>3. ASSUME NEW r \in Replicas, OnNodeError(r)
        PROVE  replica'[q].source = replica[q].source /\ replica'[q].state = replica[q].state
    BY <1>3 DEF OnNodeError, TypeOK
  <1> QED BY <1>2, <1>3 DEF CallSteps, CallOperation, Serve, Finish

\* A step of the zoned backends is one of the connections and the replies, or none.
LEMMA ZonedIsReply == ASSUME [ZonedNext]_zonedVars PROVE [Next]_vars
  <1>1. CASE CallSteps BY <1>1 DEF Next
  <1>2. CASE UNCHANGED vars BY <1>2
  <1>3. ASSUME NEW r \in Replicas, ZonedConnect(r) PROVE Next BY <1>3 DEF Next, ZonedConnect
  <1>4. ASSUME NEW r \in Replicas, ZonedConnectionLost(r) PROVE Next
    BY <1>4 DEF Next, ZonedConnectionLost
  <1>5. ASSUME NEW s \in Sources, ZonedSourceRestarts(s) PROVE Next
    BY <1>5 DEF Next, ZonedSourceRestarts
  <1>6. ASSUME NEW r \in Replicas, NEW s \in Sources, ZonedUpdateServiceSettings(r, s)
        PROVE  Next
    BY <1>6 DEF Next, ZonedUpdateServiceSettings
  <1> QED BY <1>1, <1>2, <1>3, <1>4, <1>5, <1>6
          DEF ZonedNext, zonedVars, ServeAsk, Hear, Initialize, SetProperty, ChangeOnServer

\* Every step keeps the links.
LEMMA ZonedSteps ==
    ASSUME RemoteAssumption, ZonesAssumption, ~SwitchesAnyTime, TypeOK, ZonesTypeOK, ZonesInv,
           [ZonedNext]_zonedVars
    PROVE  ZonesTypeOK' /\ ZonesInv'
  <1>1. CASE CallSteps /\ UNCHANGED zoneVars
    <2>1. UNCHANGED <<served, asks, inbox, client, read, changes>> BY <1>1 DEF zoneVars
    <2>2. \A x \in Replicas : IsOpen(x)' = IsOpen(x) /\ Source(x)' = Source(x)
      BY <1>1, CallsKeepConnections DEF IsOpen, Source
    <2>3. ZonesInv' BY <2>1, <2>2 DEF ZonesInv
    <2> QED BY <2>1, <2>3 DEF ZonesTypeOK
  <1>2. ASSUME NEW r \in Replicas, ServeAsk(r) PROVE ZonesTypeOK' /\ ZonesInv'
    BY <1>2, ServeAskStep
  <1>3. ASSUME NEW r \in Replicas, Hear(r) PROVE ZonesTypeOK' /\ ZonesInv'
    BY <1>3, HearStep
  <1>4. ASSUME NEW r \in Replicas, Initialize(r)
        PROVE  ZonesTypeOK' /\ ZonesInv'
    BY <1>4, InitializeStep
  <1>5. ASSUME NEW r \in Replicas, NEW c \in Cells, NEW v \in Values, SetProperty(r, c, v)
        PROVE  ZonesTypeOK' /\ ZonesInv'
    BY <1>5, SetPropertyStep
  <1>6. ASSUME NEW r \in Replicas, ZonedConnect(r)
        PROVE  ZonesTypeOK' /\ ZonesInv'
    BY <1>6, ZonedConnectStep
  <1>7. ASSUME NEW s \in Sources, NEW c \in Cells, NEW v \in Values, ChangeOnServer(s, c, v)
        PROVE  ZonesTypeOK' /\ ZonesInv'
    BY <1>7, ChangeOnServerStep
  <1>8. CASE \/ \E r \in Replicas : ZonedConnectionLost(r)
             \/ \E s \in Sources : ZonedSourceRestarts(s)
             \/ \E r \in Replicas, s \in Sources : ZonedUpdateServiceSettings(r, s)
    BY <1>8, CutsStep
  <1>9. CASE UNCHANGED zonedVars
    <2>1. UNCHANGED <<replica, served, asks, inbox, client, read, changes>>
      BY <1>9 DEF zonedVars, zoneVars, vars
    <2>2. \A x \in Replicas : IsOpen(x)' = IsOpen(x) /\ Source(x)' = Source(x)
      BY <2>1 DEF IsOpen, Source
    <2> QED BY <2>1, <2>2 DEF ZonesInv, ZonesTypeOK
  <1> QED BY <1>1, <1>2, <1>3, <1>4, <1>5, <1>6, <1>7, <1>8, <1>9 DEF ZonedNext

\* Nothing is linked in the beginning.
LEMMA ZonesStart ==
    ASSUME RemoteAssumption, ZonesAssumption, ZonedInit
    PROVE  TypeOK /\ ZonesTypeOK /\ ZonesInv
  <1>1. TypeOK BY TypeInit DEF ZonedInit
  <1>2. \A zones \in ZoneLists : NewServed(zones) \in ServedType
    BY DEF NewServed, ServedType, ZonesAssumption
  <1>3. served \in [Sources -> ServedType] BY <1>2 DEF ZonedInit
  <1>4. NewClient \in Clients BY DEF NewClient, Clients, ZonesAssumption
  <1>5. \A S : <<>> \in Seq(S) OBVIOUS
  <1>6. ZonesTypeOK BY <1>3, <1>4, <1>5 DEF ZonedInit, ZonesTypeOK, ServedType
  <1>7. \A r \in Replicas : ~IsOpen(r) BY DEF ZonedInit, Init, IsOpen
  <1>8. ZonesInv BY <1>7 DEF ZonesInv, Link, ZonedInit, NewClient
  <1> QED BY <1>1, <1>6, <1>8

\* A backend that is synced has read what its server has; its feature shows it.
LEMMA ZonesImply ==
    ASSUME TypeOK, ZonesTypeOK, ZonesInv
    PROVE  SyncedIsRead /\ ShowsTheServer
  <1>1. ASSUME NEW r \in Replicas, client[r].synced
        PROVE  /\ IsOpen(r)
               /\ client[r].zones = served[Source(r)].zones
               /\ read[r] = CellsOf(client[r].known)
               /\ ~client[r].waits
               /\ inbox[r] = <<>> => \A c \in CellsOf(client[r].known) :
                    /\ client[r].value[c] = served[Source(r)].value[c]
                    /\ client[r].shown[c] = served[Source(r)].value[c]
    <2> DEFINE b == client[r]
               srv == served[Source(r)]
    <2>1. IsOpen(r) /\ Session(b, asks[r], inbox[r], read[r], srv)
      BY <1>1 DEF ZonesInv, Link
    <2> HIDE DEF b, srv
    <2>2. Progress(b, asks[r], inbox[r], read[r], srv) /\ Current(b, inbox[r], read[r], srv)
      BY <2>1 DEF Session
    <2>3. b.synced BY <1>1 DEF b
    <2>4. ~Asked(asks[r]) /\ ~Answered(inbox[r]) BY <2>2, <2>3 DEF Progress
    <2>5. /\ b.zones = srv.zones /\ read[r] \cup b.toSync = CellsOf(b.known)
          /\ b.toSync = {} /\ ~b.waits
          /\ \A c \in CellsOf(b.known) : b.shown[c] = b.value[c]
      BY <2>2, <2>3, <2>4 DEF Progress
    <2>6. read[r] = CellsOf(b.known) BY <2>5
    <2>7. inbox[r] = <<>> => \A c : NoNews(inbox[r], c) BY DEF NoNews
    <2>8. inbox[r] = <<>> => \A c \in CellsOf(b.known) :
            b.value[c] = srv.value[c] /\ b.shown[c] = srv.value[c]
      BY <2>2, <2>5, <2>6, <2>7 DEF Current
    <2> QED BY <2>1, <2>5, <2>6, <2>8 DEF b, srv
  <1> QED BY <1>1 DEF SyncedIsRead, ShowsTheServer

\* If a URL changes only while the backend is not synced, a feature is initialized
\* only with what was read over the connection there is, and a synced backend shows
\* what its server has when nothing is on its way (syncZones(), onZoneSyncDone()).
THEOREM ZonesAreRead ==
    ASSUME ~SwitchesAnyTime
    PROVE  ZonedSpec => [](ZonesTypeOK /\ SyncedIsRead /\ ShowsTheServer)
  <1> DEFINE I == TypeOK /\ ZonesTypeOK /\ ZonesInv
  <1>1. ZonedInit => I BY RemoteAssumption, ZonesAssumption, ZonesStart
  <1>2. I /\ [ZonedNext]_zonedVars => I'
    BY RemoteAssumption, ZonesAssumption, ZonedSteps, ZonedIsReply, TypeStep
  <1>3. I => ZonesTypeOK /\ SyncedIsRead /\ ShowsTheServer BY ZonesImply
  <1> QED BY <1>1, <1>2, <1>3, PTL DEF ZonedSpec

\* The replies of zoned backends get their own results too: their steps are those of
\* RemoteReply, and what the zones do leaves its variables alone.
THEOREM ZonedOwnResults ==
    ASSUME ~RestartsAnyTime
    PROVE  ZonedSpec => [](ResultIsItsOwn /\ WaitsForItsOwn)
  <1>1. ZonedInit => IInv BY RemoteAssumption, InvInit DEF ZonedInit
  <1>2. IInv /\ [ZonedNext]_zonedVars => IInv' BY RemoteAssumption, InvStep, ZonedIsReply
  <1>3. IInv => ResultIsItsOwn /\ WaitsForItsOwn BY Implies
  <1> QED BY <1>1, <1>2, <1>3, PTL DEF ZonedSpec

\* And so are the replies of zoned backends, whose zones and properties share the
\* connection (syncZones(), setupConnections()).
THEOREM ZonedCallsImplemented ==
    ASSUME ~RestartsAnyTime
    PROVE  ZonedSpec => ImplementsCalls
  <1>1. ZonedInit => IInv /\ OnceInv /\ Promised!Init
    BY RemoteAssumption, InvInit, OnceInit DEF ZonedInit, Init, Promised!Init
  <1>2. IInv /\ OnceInv /\ [ZonedNext]_zonedVars =>
          IInv' /\ OnceInv' /\ [Promised!Next]_result
    BY RemoteAssumption, InvStep, OnceStep, CallsStep, ZonedIsReply
  <1> QED BY <1>1, <1>2, PTL DEF ZonedSpec, ImplementsCalls, Promised!Spec
=============================================================================
