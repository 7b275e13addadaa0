---------------------------- MODULE PendingReply ----------------------------
(***************************************************************************)
(* A QIfPendingReply: the result its copies share, the callbacks that C++  *)
(* and scripts register with then(), and the delivery of the result to     *)
(* them (src/interfaceframework/qifpendingreply.cpp, qifpendingreply.h).   *)
(*                                                                         *)
(* Delivery runs foreign code: the slots of valueChanged, the C++ callbacks*)
(* and the script's functor.  That code may call the reply again, so what  *)
(* is left of a delivery is a stack: "slot" is foreign code running, "emit"*)
(* the emission of replySuccess or replyFailed, "deliver" its remaining    *)
(* receivers, "script" the call of the script's functor.                   *)
(***************************************************************************)
EXTENDS Integers, Sequences

CONSTANTS
    Callbacks,      \* the calls of then() a run can make
    Scripts,        \* those made by a script: QIfPendingReplyWatcher::then()
    WithSuccess,    \* those that pass a success callback
    WithFailed,     \* those that pass a callback for the failure
    Types,          \* the kinds of the reply's type: "plain", an "enum", a
                    \* "flag" or "variant", a QVariant
    Typed,          \* values of the reply's type
    Given,          \* values passed to the untyped setSuccess()
    Convert,        \* [Given -> what QVariant::convert() makes of it, or Rejected]
    Keys,           \* the values, of any type, whose toInt() has a key in the enum
    Rejected,
    NoValue,        \* a default constructed QVariant
    None,           \* no callback
    MaxDepth        \* bound: frames on the stack when the reply is called

VARIABLES
    m_type,         \* the kind of the type the reply was made for
    m_resultAvailable,
    m_success,
    m_data,
    m_functor,      \* the then() whose functors the watcher stores
    connections,    \* the C++ callbacks connected to the watcher's signals
    toCall,         \* receivers the emission under way has not called yet
    stack,          \* what the reply is in the middle of, innermost first
    asked,          \* the calls of then() made so far
    calledSuccess,  \* [Callbacks -> how often its success callback was called]
    calledFailed    \* [Callbacks -> how often its failed callback was called]

result == <<m_type, m_resultAvailable, m_success, m_data>>
calls == <<calledSuccess, calledFailed>>
vars == <<result, m_functor, connections, toCall, stack, asked, calls>>

ASSUME ReplyAssumption ==
    /\ Scripts \subseteq Callbacks
    /\ WithSuccess \subseteq Callbacks
    /\ WithFailed \subseteq Callbacks
    /\ None \notin Callbacks
    /\ MaxDepth \in Nat

ASSUME ValuesAssumption ==
    /\ Types \subseteq {"plain", "enum", "flag", "variant"}
    /\ Convert \in [Given -> Typed \cup {Rejected}]
    /\ Rejected \notin Typed \cup Given
    /\ NoValue \notin Typed \cup Given \cup {Rejected}

-----------------------------------------------------------------------------
(* Setting the result *)

\* Foreign code runs at the event loop and in the slots and callbacks.
MayCall == (stack # <<>> => Head(stack) = "slot") /\ Len(stack) < MaxDepth

\* Mutant: whether there is a result is not checked.
NeverSet == FALSE

ResultIsSet == m_resultAvailable

\* The values an untyped setSuccess() takes: any for a QVariant; of an enum or a
\* flag the type is not compared, and only an enum's number has to have a key,
\* which is 0 for a value that is no number.
Accepts(var) ==
    \/ m_type = "plain" /\ var \in Typed
    \/ m_type = "enum" /\ var \in Keys
    \/ m_type \in {"flag", "variant"}

\* The value an untyped setSuccess() stores: the converted one, if it converts.
\* Mutant: a value that does not convert is always taken as it is.
Unchecked(v) == IF Convert[v] = Rejected THEN v ELSE Convert[v]

Converted(v) ==
    LET var == IF m_type # "variant" /\ Convert[v] # Rejected THEN Convert[v] ELSE v
    IN  IF Accepts(var) THEN var ELSE Rejected

\* valueChanged, then replySuccess or replyFailed, then the script's functor.
\* Mutant: the signal is not emitted.
OnlyScript == <<"slot", "script">>

Delivery == <<"slot", "emit", "script">>

\* setSuccess() of the watcher's private, which setSuccessNoCheck() calls.
SetSuccess(v) ==
    IF ResultIsSet \/ v = Rejected THEN UNCHANGED <<result, stack>>
    ELSE /\ m_resultAvailable' = TRUE
         /\ m_success' = TRUE
         /\ m_data' = v
         /\ UNCHANGED m_type
         /\ stack' = Delivery \o stack

\* The typed setSuccess(const T &) and the untyped setSuccess(const QVariant &).
UserSetSuccess ==
    /\ MayCall
    /\ \/ \E v \in Typed : SetSuccess(v)
       \/ \E v \in Given : SetSuccess(Converted(v))
    /\ UNCHANGED <<m_functor, connections, toCall, asked, calls>>

UserSetFailed ==
    /\ MayCall
    /\ IF ResultIsSet THEN UNCHANGED <<result, stack>>
       ELSE /\ m_resultAvailable' = TRUE
            /\ stack' = Delivery \o stack
            /\ m_success' = FALSE
            /\ UNCHANGED <<m_type, m_data>>
    /\ UNCHANGED <<m_functor, connections, toCall, asked, calls>>

-----------------------------------------------------------------------------
(* Registering callbacks *)

SucceedsFor(b) == m_success /\ b \in WithSuccess

\* C++ then() once the result is there: the failed callback is called in every
\* case in which the success callback is not.
FailsFor(b) == ~SucceedsFor(b) /\ b \in WithFailed

\* A script's functors: the failed one only for a failed reply.
\* Mutant: as in C++.
ScriptFailsAsCpp(b) == FailsFor(b)

ScriptFailsFor(b) == ~m_success /\ b \in WithFailed

\* Call a callback of b: frames is what follows it.
Run(b, succeeds, fails, frames) ==
    /\ stack' = (IF succeeds \/ fails THEN <<"slot">> ELSE <<>>) \o frames
    /\ calledSuccess' = [calledSuccess EXCEPT ![b] = @ + (IF succeeds THEN 1 ELSE 0)]
    /\ calledFailed' = [calledFailed EXCEPT ![b] = @ + (IF fails THEN 1 ELSE 0)]

\* Mutant: C++ then() connects in any case.
AlwaysConnects(b) == TRUE

Connects(b) == ~m_resultAvailable

\* QIfPendingReply<T>::then()
ThenCpp(b) ==
    /\ MayCall
    /\ b \in Callbacks \ (Scripts \cup asked)
    /\ asked' = asked \cup {b}
    /\ connections' = IF Connects(b) THEN connections \cup {b} ELSE connections
    /\ IF m_resultAvailable THEN Run(b, SucceedsFor(b), FailsFor(b), stack)
       ELSE UNCHANGED <<stack, calls>>
    /\ UNCHANGED <<result, m_functor, toCall>>

\* QIfPendingReplyWatcher::then(): the functors replace the ones there were.
ThenScript(b) ==
    /\ MayCall
    /\ b \in Scripts \ asked
    /\ asked' = asked \cup {b}
    /\ m_functor' = b
    /\ IF m_resultAvailable THEN Run(b, SucceedsFor(b), ScriptFailsFor(b), stack)
       ELSE UNCHANGED <<stack, calls>>
    /\ UNCHANGED <<result, connections, toCall>>

-----------------------------------------------------------------------------
(* Delivering the result *)

Top(op) == stack # <<>> /\ Head(stack) = op

\* A slot or a callback returns.
SlotReturns ==
    /\ Top("slot")
    /\ stack' = Tail(stack)
    /\ UNCHANGED <<result, m_functor, connections, toCall, asked, calls>>

\* The receivers of the signal.
Receivers == IF m_success THEN connections \cap WithSuccess
             ELSE connections \cap WithFailed

EmitSignal ==
    /\ Top("emit")
    /\ toCall' = Receivers
    /\ stack' = <<"deliver">> \o Tail(stack)
    /\ UNCHANGED <<result, m_functor, connections, asked, calls>>

\* One receiver after the other, here in any order.
Deliver ==
    /\ Top("deliver")
    /\ \/ \E b \in toCall :
             /\ toCall' = toCall \ {b}
             /\ Run(b, m_success, ~m_success, stack)
       \/ /\ toCall = {}
          /\ stack' = Tail(stack)
          /\ UNCHANGED <<toCall, calls>>
    /\ UNCHANGED <<result, m_functor, connections, asked>>

\* callSuccessCallback(), callFailedCallback()
CallScript ==
    /\ Top("script")
    /\ IF m_functor = None
       THEN stack' = Tail(stack) /\ UNCHANGED calls
       ELSE Run(m_functor, SucceedsFor(m_functor), ScriptFailsFor(m_functor), Tail(stack))
    /\ UNCHANGED <<result, m_functor, connections, toCall, asked>>

Init ==
    /\ m_type \in Types
    /\ m_resultAvailable = FALSE
    /\ m_success = FALSE
    /\ m_data = NoValue
    /\ m_functor = None
    /\ connections = {}
    /\ toCall = {}
    /\ stack = <<>>
    /\ asked = {}
    /\ calledSuccess = [b \in Callbacks |-> 0]
    /\ calledFailed = [b \in Callbacks |-> 0]

Delivers == SlotReturns \/ EmitSignal \/ Deliver \/ CallScript

Next ==
    \/ UserSetSuccess
    \/ UserSetFailed
    \/ \E b \in Callbacks : ThenCpp(b) \/ ThenScript(b)
    \/ Delivers

\* Delivery is one synchronous call: it goes on, and slots and callbacks return.
Spec == Init /\ [][Next]_vars /\ WF_vars(Delivers)

-----------------------------------------------------------------------------
(* Properties *)

\* What a successful reply can hold: its type, and with an enum whatever has the
\* number of a key, with a flag or a QVariant whatever it was given.
Held == IF m_type \in {"flag", "variant"} THEN Typed \cup Given
        ELSE IF m_type = "enum" THEN Typed \cup (Given \cap Keys)
        ELSE Typed

\* Every variable has its type.  A successful reply of a plain type holds a value
\* of this type, and one of an enum a value of the type or one that has the
\* number of a key, whatever the untyped setSuccess() was called with.
TypeOK ==
    /\ m_type \in Types
    /\ m_resultAvailable \in BOOLEAN
    /\ m_success \in BOOLEAN
    /\ m_data \in Typed \cup Given \cup {NoValue}
    /\ m_success => m_data \in Held
    /\ m_functor \in Scripts \cup {None}
    /\ connections \subseteq Callbacks \ Scripts
    /\ toCall \subseteq Callbacks \ Scripts
    /\ stack \in Seq({"slot", "emit", "deliver", "script"})
    /\ asked \subseteq Callbacks
    /\ calledSuccess \in [Callbacks -> Nat]
    /\ calledFailed \in [Callbacks -> Nat]

\* The result is set once, and each C++ then() hears of it at most once, however
\* its callback and the slots that run before it call the reply again.
Told(b) == calledSuccess[b] + calledFailed[b]
Cpp == Callbacks \ Scripts
P == INSTANCE Promise WITH
        Callbacks <- Cpp,
        Outcomes <- Typed \cup Given \cup {Rejected},
        Pending <- NoValue,
        outcome <- (IF ~m_resultAvailable THEN NoValue
                    ELSE IF m_success THEN m_data ELSE Rejected),
        asked <- asked \cap Cpp,
        told <- [b \in Cpp |-> Told(b)]
ImplementsPromise == P!Spec

\* A success callback runs only for a successful reply; whoever passed both
\* callbacks hears of a failure only for a failed one, and so does a script.
CalledTruthfully ==
    \A b \in Callbacks :
        /\ calledSuccess[b] > 0 => m_resultAvailable /\ m_success
        /\ calledFailed[b] > 0 => m_resultAvailable
        /\ (calledFailed[b] > 0 /\ b \in Scripts \cup WithSuccess) => ~m_success

\* When the reply is at rest with a result, each C++ then() with a callback for
\* that result had exactly this callback called, exactly once; and so did, at
\* least once, the script that called then() last.
Wants(b) == b \in (IF m_success THEN WithSuccess ELSE WithFailed)
NobodyForgotten ==
    (m_resultAvailable /\ stack = <<>>) =>
        /\ \A b \in asked \ Scripts : Wants(b) => Told(b) = 1
        /\ m_functor # None /\ Wants(m_functor) => Told(m_functor) >= 1

\* Who waits for a result that is set hears of it in the end.
EveryoneHears ==
    \A b \in Callbacks \ Scripts :
        (b \in asked /\ m_resultAvailable /\ Wants(b)) ~> (Told(b) = 1)
=============================================================================
