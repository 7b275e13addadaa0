------------------------------- MODULE Promise -------------------------------
(***************************************************************************)
(* What the documentation of QIfPendingReply promises: a result is set at  *)
(* most once and stays, and a callback given to then() hears of it once,   *)
(* never before there is one.                                              *)
(***************************************************************************)
EXTENDS Naturals

CONSTANTS
    Callbacks,  \* the calls of then()
    Outcomes,   \* what a reply can come to
    Pending     \* no result yet

VARIABLES
    outcome,    \* Pending, or the result
    asked,      \* the callbacks then() was called with so far
    told        \* [Callbacks -> how often the callback was called]

promise == <<outcome, asked, told>>

Init ==
    /\ outcome = Pending
    /\ asked = {}
    /\ told = [b \in Callbacks |-> 0]

Resolve ==
    /\ outcome = Pending
    /\ outcome' \in Outcomes
    /\ UNCHANGED <<asked, told>>

Ask(b) ==
    /\ b \notin asked
    /\ asked' = asked \cup {b}
    /\ UNCHANGED <<outcome, told>>

Tell(b) ==
    /\ outcome # Pending
    /\ told[b] = 0
    /\ told' = [told EXCEPT ![b] = 1]
    /\ asked' \in {asked, asked \cup {b}}
    /\ b \in asked'
    /\ UNCHANGED outcome

Next == Resolve \/ \E b \in Callbacks : Ask(b) \/ Tell(b)

Spec == Init /\ [][Next]_promise
=============================================================================
