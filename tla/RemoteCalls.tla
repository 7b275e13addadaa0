----------------------------- MODULE RemoteCalls -----------------------------
(***************************************************************************)
(* What a backend promises of the operations it is asked to carry out: a   *)
(* call that is answered is answered once, with the result of this call or *)
(* with a failure, and the answer stays.                                   *)
(***************************************************************************)
CONSTANTS
    Calls,          \* the operations called, each once
    Pending, Failed, NotCalled

VARIABLE result     \* [Calls -> the reply; the value of call c is c]

Init == result = [c \in Calls |-> NotCalled]

\* A backend that is not connected fails the call at once.
Call(c) ==
    /\ result[c] = NotCalled
    /\ \E res \in {Pending, Failed} : result' = [result EXCEPT ![c] = res]

Answer(c) ==
    /\ result[c] = Pending
    /\ \E res \in {c, Failed} : result' = [result EXCEPT ![c] = res]

Next == \E c \in Calls : Call(c) \/ Answer(c)

Spec == Init /\ [][Next]_result
=============================================================================
