------------------------ MODULE PendingReply_proofs ------------------------
(***************************************************************************)
(* Proofs about PendingReply, for every set of callbacks and values and    *)
(* every depth of nested calls.                                            *)
(***************************************************************************)
EXTENDS PendingReply, TLAPS

Op == {"slot", "emit", "deliver", "script"}
Emission == {"emit", "deliver"}

Has(s, op) == \E i \in DOMAIN s : s[i] = op
Single(s) == \A i, j \in DOMAIN s : s[i] \in Emission /\ s[j] \in Emission => i = j

(* The delivery of the result has one emission, which is on the stack from  *)
(* the moment the result is set until every receiver was called.            *)
OneEmission == Single(stack)

\* Who has not called then() is not called; the functors stored were passed to it.
Untold ==
    /\ \A b \in Callbacks \ asked : Told(b) = 0
    /\ m_functor \in asked \cup {None}

\* Without a result nothing is delivered and every C++ callback is connected.
BeforeResult ==
    ~m_resultAvailable =>
        /\ stack = <<>>
        /\ toCall = {}
        /\ m_data = NoValue
        /\ ~m_success
        /\ asked \ Scripts \subseteq connections
        /\ \A b \in Callbacks : Told(b) = 0

\* A receiver the emission has still to call was not called, whatever foreign
\* code ran since the result was set.
Connected ==
    /\ connections \subseteq asked
    /\ toCall \subseteq Receivers
    /\ \A b \in toCall : Told(b) = 0
    /\ Has(stack, "emit") => toCall = {} /\ \A b \in connections : Told(b) = 0

AtMostOnce == \A b \in Callbacks \ Scripts : Told(b) \in {0, 1}

\* Whoever waits for the result that is there was called, or the delivery that
\* will call it is still on the stack.
Heard ==
    /\ toCall # {} => Has(stack, "deliver")
    /\ m_resultAvailable =>
         \A b \in asked \ Scripts : Wants(b) =>
            Told(b) = 1 \/ b \in toCall \/ (b \in connections /\ Has(stack, "emit"))
    /\ m_resultAvailable /\ m_functor # None /\ Wants(m_functor) =>
         Told(m_functor) >= 1 \/ Has(stack, "script")

IInv ==
    /\ TypeOK
    /\ OneEmission
    /\ Untold
    /\ BeforeResult
    /\ Connected
    /\ AtMostOnce
    /\ Heard
    /\ CalledTruthfully

-----------------------------------------------------------------------------
(* How a step changes the stack *)

\* A slot that calls the reply is put on the stack.
LEMMA Pushed ==
    ASSUME NEW s \in Seq(Op), NEW t, t = <<"slot">> \o s
    PROVE  /\ t \in Seq(Op)
           /\ t # <<>>
           /\ Single(s) => Single(t)
           /\ \A op \in {"emit", "deliver", "script"} : Has(t, op) <=> Has(s, op)
  <1>1. /\ t \in Seq(Op)
        /\ t # <<>>
        /\ Len(t) = Len(s) + 1
        /\ t[1] = "slot"
        /\ \A i \in 1..Len(s) : t[i + 1] = s[i]
    BY DEF Op
  <1>2. DOMAIN t = 1..Len(t) /\ DOMAIN s = 1..Len(s)
    BY <1>1
  <1>3. \A i \in DOMAIN t : i = 1 \/ (i - 1 \in DOMAIN s /\ t[i] = s[i - 1])
    BY <1>1, <1>2
  <1>4. Single(s) => Single(t)
    BY <1>1, <1>2, <1>3 DEF Single, Emission
  <1>5. \A i \in DOMAIN s : i + 1 \in DOMAIN t /\ t[i + 1] = s[i]
    BY <1>1, <1>2
  <1>6. \A op \in {"emit", "deliver", "script"} : Has(t, op) <=> Has(s, op)
    BY <1>1, <1>3, <1>5 DEF Has
  <1> QED
    BY <1>1, <1>4, <1>6

\* A stack without its innermost frame.
LEMMA Popped ==
    ASSUME NEW s \in Seq(Op), s # <<>>, NEW t, t = Tail(s)
    PROVE  /\ t \in Seq(Op)
           /\ Single(s) => Single(t)
           /\ \A op \in Op : Has(t, op) => Has(s, op)
           /\ \A op \in Op : Has(s, op) /\ s[1] # op => Has(t, op)
           /\ Single(s) /\ s[1] \in Emission => ~Has(t, "emit") /\ ~Has(t, "deliver")
  <1>1. /\ t \in Seq(Op)
        /\ Len(t) = Len(s) - 1
        /\ \A i \in 1..Len(t) : t[i] = s[i + 1]
    BY DEF Op
  <1>2. DOMAIN t = 1..Len(t) /\ DOMAIN s = 1..Len(s) /\ Len(s) >= 1
    BY <1>1
  <1>3. \A i \in DOMAIN t : i + 1 \in DOMAIN s /\ t[i] = s[i + 1]
    BY <1>1, <1>2
  <1>4. Single(s) => Single(t)
    BY <1>2, <1>3 DEF Single, Emission
  <1>5. \A op \in Op : Has(t, op) => Has(s, op)
    BY <1>3 DEF Has
  <1>6. \A i \in DOMAIN s : i = 1 \/ (i - 1 \in DOMAIN t /\ t[i - 1] = s[i])
    BY <1>1, <1>2
  <1>7. \A op \in Op : Has(s, op) /\ s[1] # op => Has(t, op)
    BY <1>6 DEF Has
  <1>8. ASSUME Single(s), s[1] \in Emission, NEW op \in Emission, Has(t, op)
        PROVE  FALSE
    <2>1. PICK i \in DOMAIN t : t[i] = op
      BY <1>8 DEF Has
    <2>2. i + 1 \in DOMAIN s /\ s[i + 1] = op /\ 1 \in DOMAIN s /\ i + 1 # 1
      BY <2>1, <1>2, <1>3
    <2> QED
      BY <1>8, <2>2 DEF Single
  <1> QED
    BY <1>1, <1>4, <1>5, <1>7, <1>8 DEF Emission

\* A delivery that starts has everyone before it.
LEMMA Started ==
    ASSUME NEW s \in Seq(Op), s = <<>>, NEW t, t = Delivery \o s
    PROVE  /\ t \in Seq(Op)
           /\ Single(t)
           /\ Has(t, "emit")
           /\ Has(t, "script")
  <1>1. Delivery \o s = Delivery /\ Delivery \in Seq(Op)
    BY DEF Delivery, Op
  <1>2. Len(t) = 3 /\ t[1] = "slot" /\ t[2] = "emit" /\ t[3] = "script"
    BY <1>1 DEF Delivery
  <1>3. DOMAIN t = 1..3
    BY <1>1, <1>2
  <1>4. \A i \in DOMAIN t : t[i] \in Emission => i = 2
    BY <1>2, <1>3 DEF Emission
  <1>5. Single(t) /\ Has(t, "emit") /\ Has(t, "script")
    BY <1>2, <1>3, <1>4 DEF Single, Has
  <1> QED
    BY <1>1, <1>2, <1>5

\* A signal that is emitted goes to the callers that are connected.
LEMMA Emitting ==
    ASSUME NEW s \in Seq(Op), s # <<>>, s[1] = "emit", Single(s),
           NEW t, t = <<"deliver">> \o Tail(s)
    PROVE  /\ t \in Seq(Op)
           /\ Single(t)
           /\ ~Has(t, "emit")
           /\ Has(t, "deliver")
           /\ Has(s, "script") => Has(t, "script")
  <1>1. /\ t \in Seq(Op)
        /\ Len(t) = Len(s)
        /\ t[1] = "deliver"
        /\ \A i \in 2..Len(t) : t[i] = s[i]
    BY DEF Op
  <1>2. DOMAIN t = 1..Len(t) /\ DOMAIN s = 1..Len(t) /\ 1 \in DOMAIN s
    BY <1>1
  <1>3. \A i \in DOMAIN s : s[i] \in Emission => i = 1
    BY <1>2 DEF Single, Emission
  <1>4. \A i \in DOMAIN t : i # 1 => t[i] = s[i]
    BY <1>1, <1>2
  <1> QED
    BY <1>1, <1>2, <1>3, <1>4 DEF Has, Single, Emission

\* What a call of one of b's callbacks, or of none, changes.
LEMMA Runs ==
    ASSUME TypeOK, NEW b \in Callbacks, NEW su \in BOOLEAN, NEW fa \in BOOLEAN,
           ~(su /\ fa), NEW frames \in Seq(Op), Run(b, su, fa, frames)
    PROVE  /\ stack' \in Seq(Op)
           /\ Single(frames) => Single(stack')
           /\ \A op \in {"emit", "deliver", "script"} : Has(stack', op) <=> Has(frames, op)
           /\ calledSuccess' \in [Callbacks -> Nat]
           /\ calledFailed' \in [Callbacks -> Nat]
           /\ Told(b)' = Told(b) + (IF su \/ fa THEN 1 ELSE 0)
           /\ \A c \in Callbacks \ {b} : /\ Told(c)' = Told(c)
                                       /\ calledSuccess'[c] = calledSuccess[c]
                                       /\ calledFailed'[c] = calledFailed[c]
           /\ ~su => calledSuccess'[b] = calledSuccess[b]
           /\ ~fa => calledFailed'[b] = calledFailed[b]
  <1>1. /\ calledSuccess' \in [Callbacks -> Nat]
        /\ calledFailed' \in [Callbacks -> Nat]
        /\ calledSuccess'[b] = calledSuccess[b] + (IF su THEN 1 ELSE 0)
        /\ calledFailed'[b] = calledFailed[b] + (IF fa THEN 1 ELSE 0)
        /\ \A c \in Callbacks \ {b} : /\ calledSuccess'[c] = calledSuccess[c]
                                    /\ calledFailed'[c] = calledFailed[c]
    BY DEF Run, TypeOK
  <1>2. Told(b)' = Told(b) + (IF su \/ fa THEN 1 ELSE 0)
    BY <1>1 DEF Told, TypeOK
  <1>5. ASSUME NEW c \in Callbacks \ {b} PROVE Told(c)' = Told(c)
    BY <1>1 DEF Told
  <1>6. /\ ~su => calledSuccess'[b] = calledSuccess[b]
        /\ ~fa => calledFailed'[b] = calledFailed[b]
    BY <1>1 DEF TypeOK
  <1>3. \/ stack' = frames
        \/ stack' = <<"slot">> \o frames
    <2>1. <<>> \o frames = frames
      OBVIOUS
    <2> QED
      BY <2>1 DEF Run
  <1>4. /\ stack' \in Seq(Op)
        /\ Single(frames) => Single(stack')
        /\ \A op \in {"emit", "deliver", "script"} : Has(stack', op) <=> Has(frames, op)
    BY <1>3, Pushed
  <1> QED
    BY <1>1, <1>2, <1>4, <1>5, <1>6

-----------------------------------------------------------------------------
(* The invariant *)

\* The invariant holds initially.
LEMMA Initially == Init => IInv
  <1> SUFFICES ASSUME Init PROVE IInv
    OBVIOUS
  <1>1. TypeOK
    <2>1. /\ calledSuccess \in [Callbacks -> Nat]
          /\ calledFailed \in [Callbacks -> Nat]
      BY DEF Init
    <2>2. stack \in Seq({"slot", "emit", "deliver", "script"})
      BY DEF Init
    <2> QED
      BY <2>1, <2>2 DEF Init, TypeOK
  <1>2. ASSUME NEW b \in Callbacks
        PROVE  calledSuccess[b] = 0 /\ calledFailed[b] = 0 /\ Told(b) = 0
    BY DEF Init, Told
  <1>3. \A op \in Op : ~Has(stack, op)
    BY DEF Init, Has
  <1>4. OneEmission /\ Untold /\ BeforeResult /\ AtMostOnce
    BY <1>2 DEF Init, OneEmission, Single, Untold, BeforeResult, AtMostOnce
  <1>5. Connected /\ Heard /\ CalledTruthfully
    BY <1>2, <1>3 DEF Init, Connected, Heard, CalledTruthfully, Receivers, Op
  <1> QED
    BY <1>1, <1>4, <1>5 DEF IInv

\* A step that changes nothing keeps the invariant.
LEMMA Same == ASSUME IInv, UNCHANGED vars PROVE IInv'
  BY DEF IInv, vars, result, calls, TypeOK, Held, OneEmission, Untold, BeforeResult,
         Connected, AtMostOnce, Heard, CalledTruthfully, Told, Receivers, Wants

\* setSuccess() and setFailed(): the delivery begins.
LEMMA ResultSet ==
    ASSUME IInv, ~m_resultAvailable, m_resultAvailable' = TRUE,
           m_success' \in BOOLEAN, m_data' \in Typed \cup Given \cup {NoValue},
           UNCHANGED m_type, m_success' => m_data' \in Held, stack' = Delivery \o stack,
           UNCHANGED <<m_functor, connections, toCall, asked, calls>>
    PROVE  IInv'
  <1> USE DEF IInv
  <1>1. stack = <<>> /\ stack \in Seq(Op) /\ toCall = {}
    BY DEF BeforeResult, TypeOK, Op
  <1>2. stack' \in Seq(Op) /\ Single(stack') /\ Has(stack', "emit") /\ Has(stack', "script")
    BY <1>1, Started
  <1>3. \A b \in Callbacks : Told(b)' = 0 /\ Told(b) = 0
    BY DEF Told, calls, BeforeResult
  <1>4. TypeOK'
    BY <1>2 DEF TypeOK, Held, calls, Op
  <1>5. OneEmission' /\ Untold' /\ BeforeResult' /\ AtMostOnce'
    BY <1>2, <1>3 DEF OneEmission, Untold, BeforeResult, AtMostOnce
  <1>6. Connected'
    BY <1>1, <1>3 DEF Connected, TypeOK
  <1>7. Heard'
    BY <1>1, <1>2 DEF Heard, BeforeResult
  <1>8. \A b \in Callbacks : calledSuccess'[b] = 0 /\ calledFailed'[b] = 0
    BY <1>3 DEF Told, TypeOK, calls
  <1>9. CalledTruthfully'
    BY <1>8 DEF CalledTruthfully
  <1> QED
    BY <1>4, <1>5, <1>6, <1>7, <1>9

\* Every step keeps the invariant.
LEMMA StepInv == IInv /\ [Next]_vars => IInv'
  <1> SUFFICES ASSUME IInv, [Next]_vars PROVE IInv'
    OBVIOUS
  <1> USE ReplyAssumption
  <1>0. /\ stack \in Seq(Op)
        /\ m_resultAvailable \in BOOLEAN
        /\ m_success \in BOOLEAN
        /\ m_success => m_resultAvailable
    BY DEF IInv, TypeOK, Op, BeforeResult
  <1>1. CASE UserSetSuccess
    <2>1. PICK v \in Held \cup {Rejected} : SetSuccess(v)
      <3>1. Typed \subseteq Held
        BY DEF Held
      <3>2. \A v \in Given : Converted(v) \in Held \cup {Rejected}
        BY ValuesAssumption DEF Converted, Accepts, Held, IInv, TypeOK
      <3> QED
        BY <1>1, <3>1, <3>2 DEF UserSetSuccess
    <2>2. CASE m_resultAvailable \/ v = Rejected
      <3>1. UNCHANGED vars
        BY <1>1, <2>1, <2>2 DEF UserSetSuccess, SetSuccess, ResultIsSet, vars, result
      <3> QED
        BY <3>1, Same
    <2>3. CASE ~m_resultAvailable /\ v # Rejected
      BY <1>1, <2>1, <2>3, ResultSet DEF UserSetSuccess, SetSuccess, ResultIsSet, Held
    <2> QED
      BY <2>2, <2>3
  <1>2. CASE UserSetFailed
    <2>1. CASE m_resultAvailable
      <3>1. UNCHANGED vars
        BY <1>2, <2>1 DEF UserSetFailed, ResultIsSet, vars, result
      <3> QED
        BY <3>1, Same
    <2>2. CASE ~m_resultAvailable
      BY <1>2, <2>2, ResultSet DEF UserSetFailed, ResultIsSet, IInv, TypeOK
    <2> QED
      BY <1>0, <2>1, <2>2
  <1>3. ASSUME NEW b \in Callbacks, ThenCpp(b), ~m_resultAvailable PROVE IInv'
    <2>1. /\ b \notin asked /\ b \notin Scripts
          /\ asked' = asked \cup {b}
          /\ connections' = connections \cup {b}
          /\ UNCHANGED <<stack, calls, result, m_functor, toCall>>
      BY <1>3 DEF ThenCpp, Connects
    <2>2. /\ stack = <<>> /\ toCall = {} /\ ~m_success
          /\ \A op \in Op : ~Has(stack, op)
      BY <1>3 DEF IInv, BeforeResult, Has
    <2>3. ASSUME NEW c \in Callbacks PROVE Told(c)' = Told(c) /\ Told(c) = 0
      BY <1>3, <2>1 DEF Told, calls, IInv, BeforeResult
    <2>4. TypeOK'
      BY <2>1 DEF IInv, TypeOK, Held, result, calls
    <2>5. OneEmission' /\ Untold' /\ BeforeResult' /\ AtMostOnce'
      BY <1>3, <2>1, <2>3
      DEF IInv, OneEmission, Untold, BeforeResult, AtMostOnce, result
    <2>6. Connected' /\ Heard' /\ CalledTruthfully'
      BY <1>3, <2>1, <2>2, <2>3
      DEF IInv, Connected, Heard, CalledTruthfully, result, calls, Op
    <2> QED
      BY <2>4, <2>5, <2>6 DEF IInv
  <1>4. ASSUME NEW b \in Callbacks, ThenCpp(b), m_resultAvailable PROVE IInv'
    <2> DEFINE su == SucceedsFor(b)
               fa == FailsFor(b)
    <2>1. /\ b \notin asked /\ b \notin Scripts
          /\ asked' = asked \cup {b}
          /\ UNCHANGED <<connections, m_type, m_resultAvailable, m_success, m_data, m_functor,
                         toCall>>
          /\ Run(b, su, fa, stack)
      BY <1>4 DEF ThenCpp, Connects, result
    <2>2. su \in BOOLEAN /\ fa \in BOOLEAN /\ ~(su /\ fa)
      BY <1>0 DEF SucceedsFor, FailsFor
    <2>3. /\ stack' \in Seq(Op)
          /\ Single(stack')
          /\ \A op \in {"emit", "deliver", "script"} : Has(stack', op) <=> Has(stack, op)
          /\ calledSuccess' \in [Callbacks -> Nat]
          /\ calledFailed' \in [Callbacks -> Nat]
          /\ Told(b)' = IF su \/ fa THEN 1 ELSE 0
          /\ \A c \in Callbacks \ {b} : /\ Told(c)' = Told(c)
                                      /\ calledSuccess'[c] = calledSuccess[c]
                                      /\ calledFailed'[c] = calledFailed[c]
          /\ ~su => calledSuccess'[b] = calledSuccess[b]
          /\ ~fa => calledFailed'[b] = calledFailed[b]
      <3> HIDE DEF su, fa
      <3>1. Told(b) = 0
        BY <2>1 DEF IInv, Untold
      <3> QED
        BY <1>0, <2>1, <2>2, <3>1, Runs DEF IInv, OneEmission
    <2>4. TypeOK'
      BY <2>1, <2>3 DEF IInv, TypeOK, Held, Op
    <2>5. OneEmission' /\ Untold' /\ BeforeResult' /\ AtMostOnce'
      BY <1>4, <2>1, <2>3 DEF IInv, OneEmission, Untold, BeforeResult, AtMostOnce
    <2>6. b \notin connections /\ b \notin toCall /\ connections \subseteq Callbacks
      BY <2>1 DEF IInv, Connected, TypeOK, Receivers
    <2>7. Connected'
      BY <2>1, <2>3, <2>6 DEF IInv, Connected, Receivers, TypeOK
    <2>8. Wants(b) => su \/ fa
      BY DEF Wants, SucceedsFor, FailsFor
    <2>9. Heard'
      BY <1>4, <2>1, <2>3, <2>8 DEF IInv, Heard, Wants, TypeOK
    <2>10. CalledTruthfully'
      <3>1. /\ su => m_success /\ b \in WithSuccess
            /\ fa /\ b \in WithSuccess => ~m_success
        BY DEF SucceedsFor, FailsFor
      <3> QED
        BY <1>4, <2>1, <2>3, <3>1 DEF IInv, CalledTruthfully
    <2> QED
      BY <2>4, <2>5, <2>7, <2>9, <2>10 DEF IInv
  <1>5. ASSUME NEW b \in Callbacks, ThenScript(b), ~m_resultAvailable PROVE IInv'
    <2>1. /\ b \notin asked /\ b \in Scripts
          /\ asked' = asked \cup {b}
          /\ m_functor' = b
          /\ UNCHANGED <<stack, calls, result, connections, toCall>>
      BY <1>5 DEF ThenScript
    <2>2. TypeOK'
      BY <2>1 DEF IInv, TypeOK, Held, result, calls
    <2>3. ASSUME NEW c \in Callbacks PROVE Told(c)' = Told(c) /\ Told(c) = 0
      BY <1>5, <2>1 DEF Told, calls, IInv, BeforeResult
    <2>4. OneEmission' /\ Untold' /\ BeforeResult' /\ AtMostOnce'
      BY <1>5, <2>1, <2>3
      DEF IInv, OneEmission, Untold, BeforeResult, AtMostOnce, result
    <2>5. stack = <<>> /\ toCall = {} /\ \A op \in Op : ~Has(stack, op)
      BY <1>5 DEF IInv, BeforeResult, Has
    <2>6. Connected' /\ Heard' /\ CalledTruthfully'
      BY <1>5, <2>1, <2>3, <2>5
      DEF IInv, Connected, Heard, CalledTruthfully, result, calls, Op
    <2> QED
      BY <2>2, <2>4, <2>6 DEF IInv
  <1>6. ASSUME NEW b \in Callbacks, ThenScript(b), m_resultAvailable PROVE IInv'
    <2> DEFINE su == SucceedsFor(b)
               fa == ScriptFailsFor(b)
    <2>1. /\ b \notin asked /\ b \in Scripts
          /\ asked' = asked \cup {b}
          /\ m_functor' = b
          /\ UNCHANGED <<connections, m_type, m_resultAvailable, m_success, m_data, toCall>>
          /\ Run(b, su, fa, stack)
      BY <1>6 DEF ThenScript, result
    <2>2. /\ su \in BOOLEAN /\ fa \in BOOLEAN /\ ~(su /\ fa)
          /\ su => m_success
          /\ fa => ~m_success
          /\ Wants(b) => su \/ fa
      BY <1>0 DEF SucceedsFor, ScriptFailsFor, Wants
    <2>3. /\ stack' \in Seq(Op)
          /\ Single(stack')
          /\ \A op \in {"emit", "deliver", "script"} : Has(stack', op) <=> Has(stack, op)
          /\ calledSuccess' \in [Callbacks -> Nat]
          /\ calledFailed' \in [Callbacks -> Nat]
          /\ Told(b)' = IF su \/ fa THEN 1 ELSE 0
          /\ \A c \in Callbacks \ {b} : /\ Told(c)' = Told(c)
                                      /\ calledSuccess'[c] = calledSuccess[c]
                                      /\ calledFailed'[c] = calledFailed[c]
          /\ ~su => calledSuccess'[b] = calledSuccess[b]
          /\ ~fa => calledFailed'[b] = calledFailed[b]
      <3> HIDE DEF su, fa
      <3>1. Told(b) = 0
        BY <2>1 DEF IInv, Untold
      <3> QED
        BY <1>0, <2>1, <2>2, <3>1, Runs DEF IInv, OneEmission
    <2> HIDE DEF su, fa
    <2>4. TypeOK'
      BY <2>1, <2>3 DEF IInv, TypeOK, Held, Op
    <2>5. OneEmission' /\ Untold' /\ BeforeResult' /\ AtMostOnce'
      BY <1>6, <2>1, <2>3 DEF IInv, OneEmission, Untold, BeforeResult, AtMostOnce
    <2>6. b \notin connections /\ b \notin toCall /\ connections \subseteq Callbacks
      BY <2>1 DEF IInv, Connected, TypeOK, Receivers
    <2>7. Connected'
      BY <2>1, <2>3, <2>6 DEF IInv, Connected, Receivers, TypeOK
    <2>8. Heard'
      BY <1>6, <2>1, <2>2, <2>3 DEF IInv, Heard, Wants, TypeOK
    <2>9. CalledTruthfully'
      BY <1>6, <2>1, <2>2, <2>3 DEF IInv, CalledTruthfully
    <2> QED
      BY <2>4, <2>5, <2>7, <2>8, <2>9 DEF IInv
  <1>7. CASE SlotReturns
    <2>1. /\ stack # <<>> /\ stack[1] = "slot" /\ stack' = Tail(stack)
          /\ UNCHANGED <<m_type, m_resultAvailable, m_success, m_data, m_functor, connections,
                         toCall, asked, calledSuccess, calledFailed>>
      BY <1>0, <1>7 DEF SlotReturns, Top, result, calls
    <2>2. /\ stack' \in Seq(Op)
          /\ Single(stack')
          /\ \A op \in {"emit", "deliver", "script"} : Has(stack', op) <=> Has(stack, op)
      BY <1>0, <2>1, Popped DEF IInv, OneEmission, Op
    <2>3. TypeOK' /\ OneEmission' /\ CalledTruthfully'
      BY <2>1, <2>2 DEF IInv, TypeOK, Held, OneEmission, CalledTruthfully, Op
    <2>4. ASSUME NEW c PROVE Told(c)' = Told(c)
      BY <2>1 DEF Told
    <2>5. Untold' /\ BeforeResult' /\ AtMostOnce'
      BY <2>1, <2>4 DEF IInv, Untold, BeforeResult, AtMostOnce
    <2>6. Connected' /\ Heard'
      BY <2>1, <2>2, <2>4 DEF IInv, Connected, Heard, Wants, Receivers
    <2> QED
      BY <2>3, <2>5, <2>6 DEF IInv
  <1>8. CASE EmitSignal
    <2>1. /\ stack # <<>> /\ stack[1] = "emit" /\ stack' = <<"deliver">> \o Tail(stack)
          /\ toCall' = Receivers
          /\ UNCHANGED <<m_type, m_resultAvailable, m_success, m_data, m_functor, connections,
                         asked, calledSuccess, calledFailed>>
      BY <1>0, <1>8 DEF EmitSignal, Top, result, calls
    <2>2. /\ stack' \in Seq(Op)
          /\ Single(stack')
          /\ ~Has(stack', "emit")
          /\ Has(stack', "deliver")
          /\ Has(stack, "script") => Has(stack', "script")
      BY <1>0, <2>1, Emitting DEF IInv, OneEmission
    <2>3. Has(stack, "emit")
      BY <1>0, <2>1 DEF Has
    <2>4. m_resultAvailable
      BY <2>1 DEF IInv, BeforeResult
    <2>5. TypeOK' /\ OneEmission' /\ CalledTruthfully'
      BY <2>1, <2>2 DEF IInv, TypeOK, Held, OneEmission, CalledTruthfully, Receivers, Op
    <2>6. ASSUME NEW c PROVE Told(c)' = Told(c)
      BY <2>1 DEF Told
    <2>7. Untold' /\ BeforeResult' /\ AtMostOnce'
      BY <2>1, <2>4, <2>6 DEF IInv, Untold, BeforeResult, AtMostOnce
    <2>8. Connected'
      BY <2>1, <2>2, <2>3, <2>6 DEF IInv, Connected, Receivers
    <2>9. Heard'
      BY <2>1, <2>2, <2>3, <2>6 DEF IInv, Heard, Connected, Wants, Receivers
    <2> QED
      BY <2>5, <2>7, <2>8, <2>9 DEF IInv
  <1>9. CASE Deliver
    <2>1. /\ stack # <<>> /\ stack[1] = "deliver"
          /\ UNCHANGED <<m_type, m_resultAvailable, m_success, m_data, m_functor, connections,
                         asked>>
      BY <1>0, <1>9 DEF Deliver, Top, result
    <2>2. m_resultAvailable /\ Has(stack, "deliver") /\ ~Has(stack, "emit")
      <3>1. 1 \in DOMAIN stack
        BY <1>0, <2>1
      <3>2. \A i \in DOMAIN stack : stack[i] = "emit" => i = 1
        BY <2>1, <3>1 DEF IInv, OneEmission, Single, Emission
      <3> QED
        BY <2>1, <3>1, <3>2 DEF IInv, BeforeResult, Has
    <2>3. CASE toCall = {} /\ stack' = Tail(stack) /\ UNCHANGED <<toCall, calls>>
      <3>1. /\ stack' \in Seq(Op)
            /\ Single(stack')
            /\ Has(stack', "emit") => Has(stack, "emit")
            /\ Has(stack, "script") => Has(stack', "script")
        BY <1>0, <2>1, <2>3, Popped DEF IInv, OneEmission, Op
      <3>2. TypeOK' /\ OneEmission' /\ CalledTruthfully'
        BY <2>1, <2>3, <3>1
        DEF IInv, TypeOK, Held, OneEmission, CalledTruthfully, Op, calls
      <3>3. ASSUME NEW c PROVE Told(c)' = Told(c)
        BY <2>3 DEF Told, calls
      <3>4. Untold' /\ BeforeResult' /\ AtMostOnce'
        BY <2>1, <2>2, <3>3 DEF IInv, Untold, BeforeResult, AtMostOnce
      <3>5. Connected' /\ Heard'
        BY <2>1, <2>2, <2>3, <3>1, <3>3 DEF IInv, Connected, Heard, Wants, Receivers
      <3> QED
        BY <3>2, <3>4, <3>5 DEF IInv
    <2>4. ASSUME NEW b \in toCall, toCall' = toCall \ {b},
                 Run(b, m_success, ~m_success, stack)
          PROVE  IInv'
      <3>1. /\ b \in Callbacks \ Scripts /\ b \in connections /\ b \in asked
            /\ Wants(b) /\ Told(b) = 0
        BY DEF IInv, Connected, Receivers, TypeOK, Wants
      <3>2. /\ stack' \in Seq(Op)
            /\ Single(stack')
            /\ \A op \in {"emit", "deliver", "script"} : Has(stack', op) <=> Has(stack, op)
            /\ calledSuccess' \in [Callbacks -> Nat]
            /\ calledFailed' \in [Callbacks -> Nat]
            /\ Told(b)' = 1
            /\ \A c \in Callbacks \ {b} : /\ Told(c)' = Told(c)
                                        /\ calledSuccess'[c] = calledSuccess[c]
                                        /\ calledFailed'[c] = calledFailed[c]
            /\ ~m_success => calledSuccess'[b] = calledSuccess[b]
            /\ m_success => calledFailed'[b] = calledFailed[b]
        <4> DEFINE su == m_success
                   fa == ~m_success
        <4>1. su \in BOOLEAN /\ fa \in BOOLEAN /\ ~(su /\ fa) /\ Run(b, su, fa, stack)
          BY <1>0, <2>4
        <4>2. (su \/ fa) /\ (~m_success => ~su) /\ (m_success => ~fa)
          OBVIOUS
        <4> HIDE DEF su, fa
        <4> QED
          BY <1>0, <3>1, <4>1, <4>2, Runs DEF IInv, OneEmission
      <3>3. TypeOK'
        BY <2>1, <2>4, <3>2 DEF IInv, TypeOK, Held, Op
      <3>4. OneEmission' /\ Untold' /\ BeforeResult' /\ AtMostOnce'
        BY <2>1, <2>2, <3>1, <3>2 DEF IInv, OneEmission, Untold, BeforeResult, AtMostOnce
      <3>5. Connected'
        BY <2>1, <2>2, <2>4, <3>2 DEF IInv, Connected, Receivers, TypeOK
      <3>6. Heard'
        BY <2>1, <2>2, <2>4, <3>1, <3>2 DEF IInv, Heard, Wants, TypeOK
      <3>7. CalledTruthfully'
        BY <2>1, <2>2, <3>1, <3>2 DEF IInv, CalledTruthfully, Wants
      <3> QED
        BY <3>3, <3>4, <3>5, <3>6, <3>7 DEF IInv
    <2> QED
      BY <1>9, <2>3, <2>4 DEF Deliver
  <1>10. CASE CallScript
    <2>1. /\ stack # <<>> /\ stack[1] = "script" /\ Tail(stack) \in Seq(Op)
          /\ UNCHANGED <<m_type, m_resultAvailable, m_success, m_data, m_functor, connections,
                         toCall, asked>>
      BY <1>0, <1>10 DEF CallScript, Top, result
    <2>2. m_resultAvailable
      BY <2>1 DEF IInv, BeforeResult
    <2>3. /\ Single(Tail(stack))
          /\ \A op \in {"emit", "deliver"} : Has(Tail(stack), op) <=> Has(stack, op)
      BY <1>0, <2>1, Popped DEF IInv, OneEmission, Op
    <2>4. CASE m_functor = None
      <3>1. stack' = Tail(stack) /\ UNCHANGED calls
        BY <1>10, <2>4 DEF CallScript
      <3>2. TypeOK' /\ OneEmission' /\ CalledTruthfully'
        BY <2>1, <2>3, <3>1
        DEF IInv, TypeOK, Held, OneEmission, CalledTruthfully, Op, calls
      <3>3. ASSUME NEW c PROVE Told(c)' = Told(c)
        BY <3>1 DEF Told, calls
      <3>4. Untold' /\ BeforeResult' /\ AtMostOnce'
        BY <2>1, <2>2, <3>3 DEF IInv, Untold, BeforeResult, AtMostOnce
      <3>5. Connected' /\ Heard'
        BY <2>1, <2>3, <2>4, <3>1, <3>3 DEF IInv, Connected, Heard, Wants, Receivers
      <3> QED
        BY <3>2, <3>4, <3>5 DEF IInv
    <2>5. ASSUME NEW b \in Scripts, m_functor = b PROVE IInv'
      <3> DEFINE su == SucceedsFor(b)
                 fa == ScriptFailsFor(b)
      <3>1. /\ b \in Callbacks /\ b # None /\ Run(b, su, fa, Tail(stack))
        BY <1>10, <2>5 DEF CallScript
      <3>2. /\ su \in BOOLEAN /\ fa \in BOOLEAN /\ ~(su /\ fa)
            /\ su => m_success
            /\ fa => ~m_success
            /\ Wants(b) => su \/ fa
        BY <1>0 DEF SucceedsFor, ScriptFailsFor, Wants
      <3> HIDE DEF su, fa
      <3>3. /\ stack' \in Seq(Op)
            /\ Single(stack')
            /\ \A op \in {"emit", "deliver", "script"} :
                  Has(stack', op) <=> Has(Tail(stack), op)
            /\ calledSuccess' \in [Callbacks -> Nat]
            /\ calledFailed' \in [Callbacks -> Nat]
            /\ Told(b)' = Told(b) + (IF su \/ fa THEN 1 ELSE 0)
            /\ \A c \in Callbacks \ {b} : /\ Told(c)' = Told(c)
                                        /\ calledSuccess'[c] = calledSuccess[c]
                                        /\ calledFailed'[c] = calledFailed[c]
            /\ ~su => calledSuccess'[b] = calledSuccess[b]
            /\ ~fa => calledFailed'[b] = calledFailed[b]
        <4> DEFINE frames == Tail(stack)
        <4>1. frames \in Seq(Op) /\ Single(frames) /\ Run(b, su, fa, frames)
          BY <2>1, <2>3, <3>1
        <4> HIDE DEF frames
        <4>2. /\ stack' \in Seq(Op)
              /\ Single(stack')
              /\ \A op \in {"emit", "deliver", "script"} :
                    Has(stack', op) <=> Has(frames, op)
              /\ calledSuccess' \in [Callbacks -> Nat]
              /\ calledFailed' \in [Callbacks -> Nat]
              /\ Told(b)' = Told(b) + (IF su \/ fa THEN 1 ELSE 0)
              /\ \A c \in Callbacks \ {b} : /\ Told(c)' = Told(c)
                                          /\ calledSuccess'[c] = calledSuccess[c]
                                          /\ calledFailed'[c] = calledFailed[c]
              /\ ~su => calledSuccess'[b] = calledSuccess[b]
              /\ ~fa => calledFailed'[b] = calledFailed[b]
          BY <3>1, <3>2, <4>1, Runs DEF IInv
        <4> QED
          BY <4>2 DEF frames
      <3>4. TypeOK'
        BY <2>1, <3>3 DEF IInv, TypeOK, Held, Op
      <3>5. b \in asked
        BY <2>5, <3>1 DEF IInv, Untold
      <3>6. OneEmission' /\ Untold' /\ BeforeResult' /\ AtMostOnce'
        BY <2>1, <2>2, <3>1, <3>3, <3>5
        DEF IInv, OneEmission, Untold, BeforeResult, AtMostOnce
      <3>7. Connected'
        BY <2>1, <2>3, <3>1, <3>3 DEF IInv, Connected, Receivers, TypeOK
      <3>8. Told(b) \in Nat
        BY <3>1 DEF IInv, TypeOK, Told
      <3>9. Heard'
        BY <2>1, <2>2, <2>3, <2>5, <3>1, <3>2, <3>3, <3>8 DEF IInv, Heard, Wants, TypeOK
      <3>10. CalledTruthfully'
        BY <2>1, <2>2, <3>1, <3>2, <3>3 DEF IInv, CalledTruthfully
      <3> QED
        BY <3>4, <3>6, <3>7, <3>9, <3>10 DEF IInv
    <2> QED
      BY <2>4, <2>5 DEF IInv, TypeOK
  <1>11. CASE UNCHANGED vars
    BY <1>11, Same
  <1> QED
    BY <1>0, <1>1, <1>2, <1>3, <1>4, <1>5, <1>6, <1>7, <1>8, <1>9, <1>10, <1>11
    DEF Next, Delivers

\* The invariant holds in every state.
LEMMA Invariant == Spec => []IInv
  BY Initially, StepInv, PTL DEF Spec

-----------------------------------------------------------------------------
(* Theorems *)

\* Type correctness; in particular a successful reply of a plain type holds a
\* value of this type, and one of an enum a value of it or one with the number of
\* a key, whatever untyped values setSuccess() was called with.
THEOREM TypeCorrect == Spec => []TypeOK
  <1>1. IInv => TypeOK
    BY DEF IInv
  <1> QED
    BY <1>1, Invariant, PTL

\* Callbacks are told the truth, at whatever depth they call the reply again.
THEOREM Truthful == Spec => []CalledTruthfully
  <1>1. IInv => CalledTruthfully
    BY DEF IInv
  <1> QED
    BY <1>1, Invariant, PTL

\* Once a delivery is over, nobody who waited for the result was left out, and
\* no C++ callback was called twice.
THEOREM NobodyIsForgotten == Spec => []NobodyForgotten
  <1>1. IInv => NobodyForgotten
    <2> SUFFICES ASSUME IInv, m_resultAvailable, stack = <<>>
                 PROVE  /\ \A b \in asked \ Scripts : Wants(b) => Told(b) = 1
                        /\ m_functor # None /\ Wants(m_functor) => Told(m_functor) >= 1
      BY DEF NobodyForgotten
    <2>1. \A op \in Op : ~Has(stack, op)
      BY DEF Has
    <2> QED
      BY <2>1 DEF IInv, Heard, Op
  <1> QED
    BY <1>1, Invariant, PTL

-----------------------------------------------------------------------------
(* Refinement of Promise *)

Outcome == IF ~m_resultAvailable THEN NoValue ELSE IF m_success THEN m_data ELSE Rejected

\* A step that leaves result, C++ registrations and C++ calls alone is a stutter.
LEMMA Stutters ==
    ASSUME UNCHANGED result, asked' \cap Cpp = asked \cap Cpp,
           \A b \in Cpp : Told(b)' = Told(b)
    PROVE  UNCHANGED P!promise
  <1>1. [b \in Cpp |-> Told(b)]' = [b \in Cpp |-> Told(b)]
    OBVIOUS
  <1> QED
    BY <1>1 DEF P!promise, result, Cpp

\* A step that calls a C++ callback the first time is Tell.
LEMMA Tells ==
    ASSUME NEW b \in Cpp, m_resultAvailable, Outcome # NoValue, UNCHANGED result,
           Told(b) = 0, Told(b)' = 1, \A c \in Cpp \ {b} : Told(c)' = Told(c),
           asked' \in {asked, asked \cup {b}}, b \in asked'
    PROVE  P!Tell(b)
  <1>1. [c \in Cpp |-> Told(c)]' = [[c \in Cpp |-> Told(c)] EXCEPT ![b] = 1]
    OBVIOUS
  <1> QED
    BY <1>1 DEF P!Tell, result, Outcome, Cpp

\* A reply that is set has an outcome.
LEMMA NotPending == ASSUME IInv, m_resultAvailable PROVE Outcome # NoValue
  BY ValuesAssumption DEF IInv, TypeOK, Held, Outcome

\* Every step is one of the promise, or none.
LEMMA StepRefines == IInv /\ IInv' /\ [Next]_vars => [P!Next]_(P!promise)
  <1> SUFFICES ASSUME IInv, IInv', [Next]_vars PROVE P!Next \/ UNCHANGED P!promise
    OBVIOUS
  <1> USE ReplyAssumption
  <1>1. ASSUME ~m_resultAvailable, m_resultAvailable' = TRUE,
               UNCHANGED <<m_functor, connections, toCall, asked, calls>>
        PROVE  P!Resolve
    <2>1. Outcome = NoValue /\ Outcome' \in Typed \cup Given \cup {Rejected}
      BY <1>1 DEF Outcome, IInv, TypeOK, Held
    <2>2. [b \in Cpp |-> Told(b)]' = [b \in Cpp |-> Told(b)]
      BY <1>1 DEF Told, calls, Cpp
    <2> QED
      BY <1>1, <2>1, <2>2 DEF P!Resolve, Outcome, Cpp
  <1>2. CASE UserSetSuccess \/ UserSetFailed
    <2>1. CASE m_resultAvailable' = m_resultAvailable
      <3>1. UNCHANGED <<result, asked, calls>>
        BY <1>2, <2>1
        DEF UserSetSuccess, UserSetFailed, SetSuccess, ResultIsSet, result, IInv, TypeOK
      <3> QED
        BY <3>1, Stutters DEF Told, calls
    <2>2. CASE m_resultAvailable' # m_resultAvailable
      BY <1>1, <1>2, <2>2
      DEF UserSetSuccess, UserSetFailed, SetSuccess, ResultIsSet, result, P!Next
    <2> QED
      BY <2>1, <2>2
  <1>3. ASSUME NEW b \in Callbacks, ThenCpp(b) PROVE P!Ask(b) \/ P!Tell(b)
    <2>1. b \in Cpp /\ b \notin asked /\ asked' = asked \cup {b} /\ UNCHANGED result
          /\ Told(b) = 0
      BY <1>3 DEF ThenCpp, Cpp, IInv, Untold
    <2>2. CASE \A c \in Cpp : Told(c)' = Told(c)
      <3>1. [c \in Cpp |-> Told(c)]' = [c \in Cpp |-> Told(c)]
        BY <2>2
      <3> QED
        BY <2>1, <3>1 DEF P!Ask, result, Cpp
    <2>3. CASE m_resultAvailable /\ ~(\A c \in Cpp : Told(c)' = Told(c))
      <3> DEFINE su == SucceedsFor(b)
                 fa == FailsFor(b)
      <3>1. Run(b, su, fa, stack) /\ su \in BOOLEAN /\ fa \in BOOLEAN /\ ~(su /\ fa)
        BY <1>3, <2>3 DEF ThenCpp, SucceedsFor, FailsFor, IInv, TypeOK
      <3> HIDE DEF su, fa
      <3>2. /\ Told(b)' = IF su \/ fa THEN 1 ELSE 0
            /\ \A c \in Callbacks \ {b} : Told(c)' = Told(c)
        BY <2>1, <3>1, Runs DEF IInv, TypeOK, Op
      <3>3. Told(b)' = 1
        BY <2>1, <2>3, <3>2 DEF Cpp
      <3> QED
        BY <2>1, <2>3, <3>2, <3>3, NotPending, Tells DEF Cpp
    <2>4. CASE ~m_resultAvailable
      BY <1>3, <2>2, <2>4 DEF ThenCpp, Told, calls
    <2> QED
      BY <2>2, <2>3, <2>4
  <1>4. ASSUME NEW b \in Callbacks, ThenScript(b) PROVE UNCHANGED P!promise
    <2>1. b \in Scripts /\ asked' = asked \cup {b} /\ UNCHANGED result
      BY <1>4 DEF ThenScript
    <2>2. ASSUME NEW c \in Callbacks \ {b} PROVE Told(c)' = Told(c)
      <3> DEFINE su == SucceedsFor(b)
                 fa == ScriptFailsFor(b)
      <3>1. CASE m_resultAvailable
        <4>1. Run(b, su, fa, stack) /\ su \in BOOLEAN /\ fa \in BOOLEAN /\ ~(su /\ fa)
          BY <1>4, <3>1 DEF ThenScript, SucceedsFor, ScriptFailsFor, IInv, TypeOK
        <4> HIDE DEF su, fa
        <4> QED
          BY <4>1, Runs DEF IInv, TypeOK, Op
      <3>2. CASE ~m_resultAvailable
        BY <1>4, <3>2 DEF ThenScript, Told, calls
      <3> QED
        BY <3>1, <3>2
    <2> QED
      BY <2>1, <2>2, Stutters DEF Cpp
  <1>5. CASE SlotReturns \/ EmitSignal
    BY <1>5, Stutters DEF SlotReturns, EmitSignal, Told, calls
  <1>6. CASE Deliver
    <2>1. m_resultAvailable /\ UNCHANGED <<result, asked>>
      BY <1>6 DEF Deliver, Top, IInv, BeforeResult
    <2>2. ASSUME NEW b \in toCall, Run(b, m_success, ~m_success, stack)
          PROVE  b \in Cpp /\ P!Tell(b)
      <3>1. b \in Cpp /\ b \in Callbacks /\ b \in asked /\ Told(b) = 0
        BY DEF IInv, Connected, Receivers, TypeOK, Cpp
      <3> DEFINE su == m_success
                 fa == ~m_success
      <3>2. su \in BOOLEAN /\ fa \in BOOLEAN /\ ~(su /\ fa) /\ Run(b, su, fa, stack)
            /\ (su \/ fa)
        BY <2>2 DEF IInv, TypeOK
      <3> HIDE DEF su, fa
      <3>3. Told(b)' = 1 /\ \A c \in Callbacks \ {b} : Told(c)' = Told(c)
        BY <3>1, <3>2, Runs DEF IInv, TypeOK, Op
      <3> QED
        BY <2>1, <3>1, <3>3, NotPending, Tells DEF Cpp
    <2>3. CASE UNCHANGED calls
      BY <2>1, <2>3, Stutters DEF Told, calls
    <2> QED
      BY <1>6, <2>2, <2>3 DEF Deliver, P!Next
  <1>7. CASE CallScript
    <2>1. UNCHANGED <<result, asked>>
      BY <1>7 DEF CallScript
    <2>2. ASSUME NEW c \in Cpp PROVE Told(c)' = Told(c)
      <3>1. CASE m_functor = None
        BY <1>7, <3>1 DEF CallScript, Told, calls
      <3>2. ASSUME NEW b \in Scripts, m_functor = b PROVE Told(c)' = Told(c)
        <4> DEFINE su == SucceedsFor(b)
                   fa == ScriptFailsFor(b)
                   frames == Tail(stack)
        <4>1. /\ b \in Callbacks /\ b # None /\ frames \in Seq(Op)
              /\ Run(b, su, fa, frames)
          BY <1>7, <3>2 DEF CallScript, Top, IInv, TypeOK, Op
        <4>2. su \in BOOLEAN /\ fa \in BOOLEAN /\ ~(su /\ fa)
          BY DEF SucceedsFor, ScriptFailsFor, IInv, TypeOK
        <4> HIDE DEF su, fa, frames
        <4> QED
          BY <4>1, <4>2, Runs DEF IInv, Cpp
      <3> QED
        BY <3>1, <3>2 DEF IInv, TypeOK
    <2> QED
      BY <2>1, <2>2, Stutters
  <1>8. CASE UNCHANGED vars
    BY <1>8, Stutters DEF vars, Told, calls
  <1> QED
    BY <1>2, <1>3, <1>4, <1>5, <1>6, <1>7, <1>8 DEF Next, Delivers, P!Next, Cpp, ThenCpp

\* The watcher and its callbacks keep what the documentation of QIfPendingReply
\* promises: one result, and each C++ then() told at most once, after it is there.
THEOREM Refines == Spec => ImplementsPromise
  <1>1. Init => P!Init
    <2> SUFFICES ASSUME Init PROVE P!Init
      OBVIOUS
    <2>1. ASSUME NEW b \in Callbacks PROVE Told(b) = 0
      BY DEF Init, Told
    <2> QED
      BY <2>1 DEF Init, P!Init, Cpp
  <1>2. IInv /\ IInv' /\ [Next]_vars => [P!Next]_(P!promise)
    BY StepRefines
  <1> QED
    BY <1>1, <1>2, Invariant, PTL DEF Spec, ImplementsPromise, P!Spec
=============================================================================
