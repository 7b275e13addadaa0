----------------------------- MODULE RemoteReply -----------------------------
(***************************************************************************)
(* The replies of a backend behind Qt Remote Objects                       *)
(* (src/helper/remoteobjects, the templates backend_qtro and               *)
(* server_qtro_simulator of the code generator).  A source numbers the     *)
(* results it does not have yet; each replica keeps the replies that wait  *)
(* under these numbers.  Connections are lost and come back, sources       *)
(* restart, and a change of the settings takes a replica to another URL.   *)
(***************************************************************************)
EXTENDS Naturals, Sequences

CONSTANTS
    Calls,          \* the operations called, each once
    Replicas,       \* the backends of the client programs
    Sources,        \* the servers, each at a URL of its own
    Home,           \* the source the replicas are first connected to
    Caller,         \* [Calls -> Replicas]
    RestartsAnyTime,\* FALSE: a server restarts, and a URL changes, only while
                    \* no reply of the replicas concerned waits
    MaxEvents,      \* bound on the events of the connections
    Pending, Failed, NotCalled

ASSUME RemoteAssumption ==
    /\ Home \in Sources
    /\ Caller \in [Calls -> Replicas]
    /\ RestartsAnyTime \in BOOLEAN
    /\ MaxEvents \in Nat
    /\ {Pending, Failed, NotCalled} \cap Calls = {}
    /\ Pending # Failed /\ Pending # NotCalled /\ Failed # NotCalled

VARIABLES
    issued,     \* [Sources -> the calls it numbered]: m_replyCounter is the length
    serving,    \* [Sources -> the <<id, call>> whose result is to be signalled]
    replica,    \* [Replicas -> its source, its state and the feature's error]
    requests,   \* [Replicas -> the calls on their way to the source]
    packets,    \* [Replicas -> what the source has sent to it]
    waiting,    \* [Replicas -> m_pendingReplies as pairs <<id, call>>]
    result,     \* [Calls -> the reply; the value of call c is c]
    lost,       \* the calls that were pending when their connection was lost
    events      \* counts what happened to connections

sourceVars == <<issued, serving>>
vars == <<issued, serving, replica, requests, packets, waiting, result, lost, events>>

Ids == Nat \ {0}
Kinds == {"value", "failed", "pending", "result"}
Packets == {m \in [kind : Kinds, id : Nat, call : Calls, ok : BOOLEAN] :
              m.kind = "pending" => m.id \in Ids}
Results == Calls \cup {Pending, Failed, NotCalled}
States == {"Default", "Valid", "Suspect", "SignatureMismatch"}
Errors == {"NoError", "Unknown", "InvalidOperation"}

Packet(kind, id, c, ok) == [kind |-> kind, id |-> id, call |-> c, ok |-> ok]
Connected(s) == {r \in Replicas : replica[r].source = s /\ replica[r].state = "Valid"}

Init ==
    /\ issued = [s \in Sources |-> <<>>]
    /\ serving = [s \in Sources |-> {}]
    /\ replica = [r \in Replicas |->
                    [source |-> Home, state |-> "Default", error |-> "NoError"]]
    /\ requests = [r \in Replicas |-> <<>>]
    /\ packets = [r \in Replicas |-> <<>>]
    /\ waiting = [r \in Replicas |-> {}]
    /\ result = [c \in Calls |-> NotCalled]
    /\ lost = {}
    /\ events = 0

-----------------------------------------------------------------------------
(* The replica *)

\* An operation of the generated backend
CallOperation(c) ==
    LET r == Caller[c]
    IN  /\ result[c] = NotCalled
        /\ IF replica[r].state = "Valid"
           THEN /\ result' = [result EXCEPT ![c] = Pending]
                /\ requests' = [requests EXCEPT ![r] = Append(@, c)]
           ELSE /\ result' = [result EXCEPT ![c] = Failed]
                /\ UNCHANGED requests
        /\ UNCHANGED <<sourceVars, replica, packets, waiting, lost, events>>

\* Mutant: a result that has failed is not passed on.
ResolvesIfSuccessful(c, res) ==
    /\ result' = IF res = Failed THEN result ELSE [result EXCEPT ![c] = res]
    /\ UNCHANGED replica

\* setSuccess() or setFailed() on the reply of c; the backend reports a failure.
Resolve(c, res) ==
    /\ result' = [result EXCEPT ![c] = res]
    /\ replica' = IF res = Failed
                  THEN [replica EXCEPT ![Caller[c]].error = "InvalidOperation"]
                  ELSE replica

\* m_pendingReplies.insert() replaces what is there.
Inserted(entries, id, c) == {e \in entries : e[1] # id} \cup {<<id, c>>}

\* The finished() of a call, in toQIfPendingReply()
Finished(r, m) ==
    /\ CASE m.kind = "value"   -> Resolve(m.call, m.call) /\ UNCHANGED waiting
         [] m.kind = "failed"  -> Resolve(m.call, Failed) /\ UNCHANGED waiting
         [] m.kind = "pending" ->
              /\ waiting' = [waiting EXCEPT ![r] = Inserted(@, m.id, m.call)]
              /\ UNCHANGED <<result, replica>>

\* onPendingResultAvailable()
OnPendingResultAvailable(r, m) ==
    IF \E e \in waiting[r] : e[1] = m.id
    THEN \E e \in waiting[r] :
           /\ e[1] = m.id
           /\ waiting' = [waiting EXCEPT ![r] = @ \ {e}]
           /\ Resolve(e[2], IF m.ok THEN m.call ELSE Failed)
    ELSE UNCHANGED <<result, replica, waiting>>

Receive(r) ==
    /\ packets[r] # <<>>
    /\ packets' = [packets EXCEPT ![r] = Tail(@)]
    /\ LET m == Head(packets[r])
       IN  IF m.kind = "result" THEN OnPendingResultAvailable(r, m) ELSE Finished(r, m)
    /\ UNCHANGED <<sourceVars, requests, lost, events>>

-----------------------------------------------------------------------------
(* The source *)

\* Mutant: the number is that of the call before.
NotAdvanced(s, c, kind) == issued[s]

\* ++m_replyCounter
Numbered(s, c, kind) ==
    IF kind = "value" THEN issued[s] ELSE Append(issued[s], c)

\* A slot of the adapter and fromPendingReply()
Serve(r, kind) ==
    LET s == replica[r].source
        c == Head(requests[r])
        id == Len(Numbered(s, c, kind))
    IN  /\ requests[r] # <<>>
        /\ kind \in Kinds \ {"result"}
        /\ issued' = [issued EXCEPT ![s] = Numbered(s, c, kind)]
        /\ serving' = [serving EXCEPT ![s] =
                         IF kind = "pending" THEN @ \cup {<<id, c>>} ELSE @]
        /\ requests' = [requests EXCEPT ![r] = Tail(@)]
        /\ packets' = [packets EXCEPT ![r] = Append(@, Packet(kind, id, c, FALSE))]
        /\ UNCHANGED <<replica, waiting, result, lost, events>>

\* valueChanged of a pending reply: the signal goes to every replica.
Finish(s, e, ok) ==
    /\ e \in serving[s]
    /\ serving' = [serving EXCEPT ![s] = @ \ {e}]
    /\ packets' = [r \in Replicas |->
         IF r \in Connected(s) THEN Append(packets[r], Packet("result", e[1], e[2], ok))
         ELSE packets[r]]
    /\ UNCHANGED <<issued, replica, requests, waiting, result, lost, events>>

-----------------------------------------------------------------------------
(* The connection: what Qt Remote Objects does to it, and the handlers *)

Event == events < MaxEvents /\ events' = events + 1

\* onReplicaStateChanged()
ErrorIn(error, state) ==
    CASE state = "Valid" -> "NoError"
      [] state \in {"Suspect", "SignatureMismatch"} -> "Unknown"
      [] OTHER -> error

Enters(r, state) ==
    [replica[r] EXCEPT !.state = state, !.error = ErrorIn(@, state)]

\* The replicas R lose what is under way between them and their source.
Cut(R) ==
    /\ requests' = [r \in Replicas |-> IF r \in R THEN <<>> ELSE requests[r]]
    /\ packets' = [r \in Replicas |-> IF r \in R THEN <<>> ELSE packets[r]]
    /\ lost' = lost \cup {c \in Calls : Caller[c] \in R /\ result[c] = Pending}
    /\ UNCHANGED <<waiting, result>>

Quiet(R) == RestartsAnyTime \/ \A r \in R : waiting[r] = {}

Connect(r) ==
    /\ replica[r].state \in {"Default", "Suspect"}
    /\ \E state \in {"Valid", "SignatureMismatch"} :
         /\ state = "SignatureMismatch" => replica[r].state = "Default"
         /\ replica' = [replica EXCEPT ![r] = Enters(r, state)]
    /\ UNCHANGED <<sourceVars, requests, packets, waiting, result, lost, events>>

ConnectionLost(r) ==
    /\ Event
    /\ replica[r].state = "Valid"
    /\ replica' = [replica EXCEPT ![r] = Enters(r, "Suspect")]
    /\ Cut({r})
    /\ UNCHANGED sourceVars

\* onNodeError()
OnNodeError(r) ==
    /\ Event
    /\ replica' = [replica EXCEPT ![r].error = "Unknown"]
    /\ UNCHANGED <<sourceVars, requests, packets, waiting, result, lost>>

\* The server of s crashes and is started again.
SourceRestarts(s) ==
    /\ Event
    /\ Quiet({r \in Replicas : replica[r].source = s})
    /\ issued' = [issued EXCEPT ![s] = <<>>]
    /\ serving' = [serving EXCEPT ![s] = {}]
    /\ replica' = [r \in Replicas |->
                     IF r \in Connected(s) THEN Enters(r, "Suspect") ELSE replica[r]]
    /\ Cut(Connected(s))

\* updateServiceSettings() with another URL: connectToNode() deletes the node and
\* makes another, with a new replica; the helper stays.
UpdateServiceSettings(r, s) ==
    /\ Event
    /\ replica[r].source # s
    /\ Quiet({r})
    /\ replica' = [replica EXCEPT ![r].source = s, ![r].state = "Default"]
    /\ Cut({r})
    /\ UNCHANGED sourceVars

-----------------------------------------------------------------------------
\* What changes neither a connection nor a server's life.
CallSteps ==
    \/ \E c \in Calls : CallOperation(c)
    \/ \E r \in Replicas :
         Receive(r) \/ (\E kind \in Kinds : Serve(r, kind)) \/ OnNodeError(r)
    \/ \E s \in Sources : \E e \in serving[s], ok \in BOOLEAN : Finish(s, e, ok)

Next ==
    \/ CallSteps
    \/ \E r \in Replicas :
         Connect(r) \/ ConnectionLost(r) \/ \E s \in Sources : UpdateServiceSettings(r, s)
    \/ \E s \in Sources : SourceRestarts(s)

\* Event loops handle what has come, and a backend finishes each of its replies.
Fairness ==
    /\ \A r \in Replicas :
         /\ WF_vars(Receive(r))
         /\ WF_vars(\E kind \in Kinds : Serve(r, kind))
    /\ \A s \in Sources, c \in Calls :
         WF_vars(\E e \in serving[s], ok \in BOOLEAN : e[2] = c /\ Finish(s, e, ok))

Spec == Init /\ [][Next]_vars /\ Fairness

-----------------------------------------------------------------------------
(* Properties *)

\* Each variable has its type.
TypeOK ==
    /\ issued \in [Sources -> Seq(Calls)]
    /\ serving \in [Sources -> SUBSET (Ids \X Calls)]
    /\ replica \in [Replicas -> [source : Sources, state : States, error : Errors]]
    /\ requests \in [Replicas -> Seq(Calls)]
    /\ packets \in [Replicas -> Seq(Packets)]
    /\ waiting \in [Replicas -> SUBSET (Ids \X Calls)]
    /\ result \in [Calls -> Results]
    /\ lost \subseteq Calls
    /\ events \in Nat

\* A reply that succeeds does so with the result of its own call, though results
\* are signalled to all replicas by number (onPendingResultAvailable()).
ResultIsItsOwn == \A c \in Calls : result[c] \in Calls => result[c] = c

\* What the caller sees of the numbers, packets and connections is RemoteCalls: a call
\* is answered once, at once or by onPendingResultAvailable(), with its own result or
\* with a failure, and the answer stays.
Promised == INSTANCE RemoteCalls
ImplementsCalls == Promised!Spec

\* Nobody waits under a number that the source will use to signal the result of
\* another call, whatever connection was lost in between.
WaitsForItsOwn ==
    \A r \in Replicas : \A e \in waiting[r] :
      \A f \in serving[replica[r].source] : f[1] = e[1] => f[2] = e[2]

\* A feature whose connection is lost is not left without an error, whatever
\* calls and errors came before (onReplicaStateChanged()).
LossIsReported ==
    \A r \in Replicas :
      replica[r].state \in {"Suspect", "SignatureMismatch"} => replica[r].error # "NoError"

\* A call is answered unless its connection is lost while it is pending.
EveryCallIsAnswered ==
    \A c \in Calls : (result[c] = Pending) ~> (result[c] # Pending \/ c \in lost)
=============================================================================
