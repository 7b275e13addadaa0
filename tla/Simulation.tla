------------------------------ MODULE Simulation ------------------------------
(***************************************************************************)
(* The calls between a C++ instance and the QML objects that script it     *)
(* (src/interfaceframework/qifsimulationproxy.*, qifsimulationengine.cpp): *)
(* one instantiation of QIfSimulationProxy with its registered instance,   *)
(* its list of proxies and its recursion guard.  Everything happens on one *)
(* thread, so the state is the stack of the calls that are under way.      *)
(***************************************************************************)
EXTENDS Naturals, Sequences, SequencesExt

CONSTANTS
    Functions,      \* of the instance that are forwarded to QML
    AskAll,         \* those that go on after a QML function has run: their
                    \* QIF_SIMULATION_TRY_CALL_FUNC() does not return
    Signals,        \* of the instance
    Proxies,        \* the QML objects
    Foreign,        \* those in another engine than the registered one
    Defines,        \* [Proxies -> the functions that their QML declares]
    Frontend,       \* the receiver of signals in the framework
    MaxDepth,       \* bound on the calls under way
    None

ASSUME SimulationAssumption ==
    /\ AskAll \subseteq Functions
    /\ Foreign \subseteq Proxies
    /\ Defines \in [Proxies -> SUBSET Functions]
    /\ Frontend \notin Proxies
    /\ None \notin Functions \cup Signals \cup Proxies
    /\ MaxDepth \in Nat

VARIABLES
    proxies,        \* the list QIfSimulationProxy<T>::proxies
    guard,          \* QIfSimulationProxy<T>::recursionGuard; None when empty
    stack           \* the calls under way, the innermost last

vars == <<proxies, guard, stack>>

Receivers == Proxies \cup {Frontend}

\* cpp: a function of the instance, with the RecursionGuard on its frame and the
\* proxies it has yet to ask.  qml: a QML function.  emit: a signal of the instance
\* with the receivers it has yet to reach.  handler: a signal handler in QML.
\* slot: a slot of the frontend.  script: QML run by the engine, such as a timer.
Frame == [kind : {"cpp", "qml", "emit", "handler", "slot", "script"},
          name : Functions \cup Signals \cup {None},
          proxy : Proxies \cup {None},
          saved : Functions \cup {None},
          prevented : BOOLEAN,
          todo : SUBSET Receivers]

CallFrame(f, saved, prevented, todo) ==
    [kind |-> "cpp", name |-> f, proxy |-> None, saved |-> saved,
     prevented |-> prevented, todo |-> todo]
EmitFrame(s, todo) ==
    [kind |-> "emit", name |-> s, proxy |-> None, saved |-> None,
     prevented |-> FALSE, todo |-> todo]
ScriptFrame(kind, name, p) ==
    [kind |-> kind, name |-> name, proxy |-> p, saved |-> None,
     prevented |-> FALSE, todo |-> {}]

Depth == Len(stack)
Top == stack[Depth]
TopIs(kind) == Depth > 0 /\ Top.kind = kind
Push(frame) == Depth < MaxDepth /\ stack' = Append(stack, frame)
Pop(n) == stack' = SubSeq(stack, 1, Depth - n)

\* callQmlMethod() of a proxy of another engine executes nothing.
Declares(p, f) == p \notin Foreign /\ f \in Defines[p]
Listed == {proxies[i] : i \in 1..Len(proxies)}

\* A proxy in whose QML the innermost call is
InScriptOf(p) == Depth > 0 /\ Top.kind \in {"qml", "handler", "script"} /\ Top.proxy = p
AtEventLoop == stack = <<>>

Init ==
    /\ proxies = <<>>
    /\ guard = None
    /\ stack = <<>>

-----------------------------------------------------------------------------
(* Functions of the instance *)

\* Mutant: the guard stays set while the original runs.
KeepsGuard(f) == f

\* trySet() and saveAndRelease()
GuardAfter(f) == IF guard = f THEN None ELSE f

\* The proxies that have something to be called
ToAsk(f) == {p \in Listed : guard # f /\ Declares(p, f)}

\* QIF_SIMULATION_TRY_CALL_FUNC() in function f of the instance
Enter(f) ==
    /\ Push(CallFrame(f, guard, guard = f, ToAsk(f)))
    /\ guard' = GuardAfter(f)
    /\ UNCHANGED proxies

\* The application, a slot of the frontend, or QML by Base, by a function that it
\* does not declare or by the write of a property
CallFromFrontend(f) == (AtEventLoop \/ TopIs("slot")) /\ Enter(f)
CallFromQml(p, f) == InScriptOf(p) /\ Enter(f)

\* callQmlMethod() of the next proxy in the list that declares the function
CallQmlMethod ==
    /\ TopIs("cpp")
    /\ \E i \in 1..Len(proxies) :
          /\ proxies[i] \in Top.todo
          /\ \A j \in 1..(i - 1) : proxies[j] \notin Top.todo
          /\ Push(ScriptFrame("qml", Top.name, proxies[i]))
    /\ UNCHANGED <<proxies, guard>>

\* Mutant: the guard is only restored if it was set.
RestoresWhatWasSet(frame) == IF frame.prevented THEN None ELSE frame.saved

\* ~RecursionGuard()
Restored(frame) == frame.saved

\* A QML function returns to the function of the instance, which returns its value
\* or asks the next proxy.
QmlReturns ==
    /\ TopIs("qml")
    /\ LET caller == stack[Depth - 1]
       IN  IF caller.name \in AskAll
           THEN /\ stack' = [SubSeq(stack, 1, Depth - 1) EXCEPT
                               ![Depth - 1].todo = @ \ {Top.proxy}]
                /\ UNCHANGED guard
           ELSE /\ Pop(2)
                /\ guard' = Restored(caller)
    /\ UNCHANGED proxies

\* The original has run.
OriginalReturns ==
    /\ TopIs("cpp") /\ Top.todo = {}
    /\ Pop(1)
    /\ guard' = Restored(Top)
    /\ UNCHANGED proxies

-----------------------------------------------------------------------------
(* Signals *)

\* The proxies that setup() has connected to the instance, and the frontend
Connected == {p \in Listed : p \notin Foreign} \cup {Frontend}

\* The instance emits in an original, or as its hardware or a timer lets it.
EmitFromInstance(s) ==
    /\ AtEventLoop \/ (TopIs("cpp") /\ Top.todo = {})
    /\ Push(EmitFrame(s, Connected))
    /\ UNCHANGED <<proxies, guard>>

\* The signal that is being delivered to p: senderSignalIndex() of sender()
Delivering(p) ==
    LET last == SelectLastInSeq(stack, LAMBDA e : e.kind = "handler" /\ e.proxy = p)
    IN  IF last = 0 THEN None ELSE stack[last].name

\* qt_metacall() of a signal that QML emits: passed on to the instance, unless it
\* looks like the relay of a signal of the instance.
EmitFromQml(p, s) ==
    /\ InScriptOf(p)
    /\ Push(IF Delivering(p) = s THEN ScriptFrame("handler", s, p)
            ELSE EmitFrame(s, Connected))
    /\ UNCHANGED <<proxies, guard>>

\* The slots of a signal run in any order; a proxy relays it to its handlers.
Deliver(r) ==
    /\ TopIs("emit") /\ r \in Top.todo
    /\ Depth < MaxDepth
    /\ stack' = Append([stack EXCEPT ![Depth].todo = @ \ {r}],
                       IF r = Frontend THEN ScriptFrame("slot", Top.name, None)
                       ELSE ScriptFrame("handler", Top.name, r))
    /\ UNCHANGED <<proxies, guard>>

EmitReturns ==
    /\ TopIs("emit") /\ Top.todo = {}
    /\ Pop(1)
    /\ UNCHANGED <<proxies, guard>>

-----------------------------------------------------------------------------
(* Scripts *)

\* The engine runs a script of p.
RunScript(p) ==
    /\ AtEventLoop
    /\ p \in Listed \ Foreign
    /\ Push(ScriptFrame("script", None, p))
    /\ UNCHANGED <<proxies, guard>>

ScriptReturns ==
    /\ Depth > 0 /\ Top.kind \in {"handler", "slot", "script"}
    /\ Pop(1)
    /\ UNCHANGED <<proxies, guard>>

\* No loop over the list goes on after the call of a QML function.
NobodyIterates ==
    \A i \in 1..Depth : ~(stack[i].kind = "cpp" /\ stack[i].name \in AskAll /\ stack[i].todo # {})
InQml == Depth > 0 /\ Top.kind \in {"qml", "handler", "script"}

\* classBegin()
ClassBegin(p) ==
    /\ AtEventLoop \/ InQml
    /\ NobodyIterates
    /\ p \notin Listed
    /\ proxies' = Append(proxies, p)
    /\ UNCHANGED <<guard, stack>>

\* ~QIfSimulationProxy() of an object none of whose scripts is running
Destroy(p) ==
    /\ AtEventLoop \/ InQml
    /\ NobodyIterates
    /\ \A i \in 1..Depth : stack[i].proxy # p
    /\ \E i \in 1..Len(proxies) : proxies[i] = p /\ proxies' = RemoveAt(proxies, i)
    /\ stack' = [i \in 1..Depth |-> [stack[i] EXCEPT !.todo = @ \ {p}]]
    /\ UNCHANGED guard

Next ==
    \/ \E f \in Functions : CallFromFrontend(f)
    \/ \E p \in Proxies, f \in Functions : CallFromQml(p, f)
    \/ CallQmlMethod
    \/ QmlReturns
    \/ OriginalReturns
    \/ \E s \in Signals : EmitFromInstance(s)
    \/ \E p \in Proxies, s \in Signals : EmitFromQml(p, s)
    \/ \E r \in Receivers : Deliver(r)
    \/ EmitReturns
    \/ \E p \in Proxies : RunScript(p) \/ ClassBegin(p) \/ Destroy(p)
    \/ ScriptReturns

Spec == Init /\ [][Next]_vars
-----------------------------------------------------------------------------
(* Properties *)

\* Types, and what stands where on the stack.
TypeOK ==
    /\ proxies \in Seq(Proxies)
    /\ guard \in Functions \cup {None}
    /\ stack \in Seq(Frame)
    /\ \A i \in 1..Depth : stack[i].kind = "qml" =>
          /\ i > 1
          /\ stack[i - 1].kind = "cpp" /\ stack[i - 1].name = stack[i].name
          /\ ~stack[i - 1].prevented
    /\ \A i \in 1..Depth : stack[i].prevented => stack[i].todo = {}

\* When the QML function of a name calls the function of the instance, the original
\* runs and the QML function is not called again, whatever has run before and
\* whichever proxies have come or gone (testRecursionPrevention,
\* tst_qifsimulationengine.cpp:901).
OriginalIsReached ==
    \A i \in 2..Depth :
        /\ stack[i].kind = "cpp" /\ stack[i - 1].kind = "qml"
        /\ stack[i].name = stack[i - 1].name
        => stack[i].prevented

\* Level j of the stack has the innermost call of the instance below level i.
IsCallBelow(j, i) ==
    /\ stack[j].kind = "cpp"
    /\ \A k \in (j + 1)..(i - 1) : stack[k].kind # "cpp"

\* A call is only kept from QML inside the simulation of the same function: the
\* slots of the signals that an original emits can call the simulation ("new calls
\* to the simulation (via the QtIF frontend API) are allowed",
\* qifsimulationproxy.h:206), and a guard that is left over from an earlier call
\* keeps nobody from it.
CallsAreSimulated ==
    /\ AtEventLoop => guard = None
    /\ \A i \in 1..Depth : stack[i].kind = "cpp" /\ stack[i].prevented =>
          \E j \in 1..(i - 1) :
              /\ IsCallBelow(j, i)
              /\ stack[j].name = stack[i].name
              /\ ~stack[j].prevented
=============================================================================
