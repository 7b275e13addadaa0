--------------------------- MODULE Simulation_proofs ---------------------------
(***************************************************************************)
(* Proofs about Simulation: type correctness, and what the recursion guard *)
(* is for, for any number of functions, proxies and calls under way.       *)
(***************************************************************************)
EXTENDS Simulation, SequenceTheorems, TLAPS

USE SimulationAssumption

-----------------------------------------------------------------------------
(* The guard and the stack *)

\* Level j of stack s has the innermost call of the instance below level i.
Nearest(s, j, i) ==
    /\ j \in 1..(i - 1)
    /\ s[j].kind = "cpp"
    /\ \A k \in (j + 1)..(i - 1) : s[k].kind # "cpp"

\* What a call of the instance sets the guard to
GuardOf(frame) == IF frame.prevented THEN None ELSE frame.name

\* Each call has saved, and the guard g is, what the innermost call below has set;
\* what is not None has been set by a call.
Chain(s, g) ==
    /\ \A i, j \in 1..Len(s) :
          s[i].kind = "cpp" /\ Nearest(s, j, i) => s[i].saved = GuardOf(s[j])
    /\ \A i \in 1..Len(s) : s[i].kind = "cpp" /\ s[i].saved # None =>
          \E j \in 1..Len(s) : Nearest(s, j, i)
    /\ \A j \in 1..Len(s) : Nearest(s, j, Len(s) + 1) => g = GuardOf(s[j])
    /\ g # None => \E j \in 1..Len(s) : Nearest(s, j, Len(s) + 1)
    /\ \A i \in 1..Len(s) : s[i].kind = "cpp" =>
          /\ s[i].prevented <=> (s[i].saved = s[i].name)
          /\ s[i].name \in Functions

\* Frames that are alike for the chain and for the shape of the stack
Alike(a, b) ==
    /\ a.kind = b.kind /\ a.name = b.name
    /\ a.saved = b.saved /\ a.prevented = b.prevented

\* Below level n + 1, stacks that are alike have the same innermost calls.
LEMMA NearestAlike ==
    ASSUME NEW s, NEW t, NEW n \in Nat, \A k \in 1..n : Alike(t[k], s[k])
    PROVE  \A j \in Nat, i \in 1..(n + 1) : Nearest(t, j, i) <=> Nearest(s, j, i)
  <1> TAKE j \in Nat, i \in 1..(n + 1)
  <1>1. ASSUME j \in 1..(i - 1) PROVE \A k \in (j + 1)..(i - 1) : k \in 1..n
    BY <1>1
  <1>2. ASSUME j \in 1..(i - 1) PROVE j \in 1..n BY <1>2
  <1> QED BY <1>1, <1>2 DEF Nearest, Alike

\* A stack that is alike has the same chain.
LEMMA ChainAlike ==
    ASSUME NEW s \in Seq(Frame), NEW t \in Seq(Frame), NEW g, Chain(s, g),
           Len(t) = Len(s), \A k \in 1..Len(s) : Alike(t[k], s[k])
    PROVE  Chain(t, g)
  <1>1. \A j \in Nat, i \in 1..(Len(s) + 1) : Nearest(t, j, i) <=> Nearest(s, j, i)
    <2>1. Len(s) \in Nat OBVIOUS
    <2> QED BY <2>1, NearestAlike
  <1>2. Len(s) \in Nat /\ \A k \in 1..Len(s) : k \in Nat /\ k \in 1..(Len(s) + 1)
    OBVIOUS
  <1>3. Len(s) + 1 \in 1..(Len(s) + 1) BY <1>2
  <1>4. \A k \in 1..Len(s) : GuardOf(t[k]) = GuardOf(s[k]) BY DEF Alike, GuardOf
  <1> QED BY <1>1, <1>2, <1>3, <1>4 DEF Chain, Alike

\* A frame that is no call of the instance does not change the chain.
LEMMA ChainOther ==
    ASSUME NEW s \in Seq(Frame), NEW t \in Seq(Frame), NEW g, Chain(s, g),
           Len(t) = Len(s) + 1, \A k \in 1..Len(s) : Alike(t[k], s[k]),
           t[Len(t)].kind # "cpp"
    PROVE  Chain(t, g)
  <1>0. Len(s) \in Nat OBVIOUS
  <1>1. \A j \in Nat, i \in 1..(Len(s) + 1) : Nearest(t, j, i) <=> Nearest(s, j, i)
    <2>1. Len(s) \in Nat OBVIOUS
    <2> QED BY <2>1, NearestAlike
  <1>2. \A k \in 1..Len(s) : k \in Nat /\ k \in 1..(Len(s) + 1) /\ k \in 1..Len(t)
    BY <1>0
  <1>3. \A k \in 1..Len(t) : k \in 1..Len(s) \/ k = Len(t) BY <1>0
  <1>4. \A k \in 1..Len(s) : GuardOf(t[k]) = GuardOf(s[k]) BY DEF Alike, GuardOf
  <1>5. \A j \in 1..Len(s) :
          Nearest(t, j, Len(t) + 1) <=> Nearest(s, j, Len(s) + 1)
    <2> TAKE j \in 1..Len(s)
    <2>1. Nearest(t, j, Len(s) + 1) <=> Nearest(s, j, Len(s) + 1) BY <1>0, <1>1, <1>2
    <2>2. Nearest(t, j, Len(t) + 1) <=> Nearest(t, j, Len(s) + 1)
      BY <1>0 DEF Nearest
    <2> QED BY <2>1, <2>2
  <1>6. ~Nearest(t, Len(t), Len(t) + 1) BY DEF Nearest
  <1>7. \A i, j \in 1..Len(t) :
          t[i].kind = "cpp" /\ Nearest(t, j, i) => t[i].saved = GuardOf(t[j])
    <2> SUFFICES ASSUME NEW i \in 1..Len(t), NEW j \in 1..Len(t),
                        t[i].kind = "cpp", Nearest(t, j, i)
                 PROVE  t[i].saved = GuardOf(t[j])
      OBVIOUS
    <2>1. i \in 1..Len(s) BY <1>3
    <2>2. j \in 1..Len(s) BY <2>1, <1>0 DEF Nearest
    <2> QED BY <2>1, <2>2, <1>1, <1>2, <1>4 DEF Chain, Alike
  <1>8. \A i \in 1..Len(t) : t[i].kind = "cpp" /\ t[i].saved # None =>
          \E j \in 1..Len(t) : Nearest(t, j, i)
    BY <1>1, <1>2, <1>3 DEF Chain, Alike
  <1>9. \A j \in 1..Len(t) : Nearest(t, j, Len(t) + 1) => g = GuardOf(t[j])
    BY <1>3, <1>4, <1>5, <1>6 DEF Chain
  <1>10. g # None => \E j \in 1..Len(t) : Nearest(t, j, Len(t) + 1)
    BY <1>2, <1>5 DEF Chain
  <1>11. \A i \in 1..Len(t) : t[i].kind = "cpp" =>
          /\ t[i].prevented <=> (t[i].saved = t[i].name)
          /\ t[i].name \in Functions
    BY <1>3 DEF Chain, Alike
  <1> QED BY <1>7, <1>8, <1>9, <1>10, <1>11 DEF Chain

\* A call of the instance that saves the guard extends the chain.
LEMMA ChainCall ==
    ASSUME NEW s \in Seq(Frame), NEW t \in Seq(Frame), NEW g, Chain(s, g),
           Len(t) = Len(s) + 1, \A k \in 1..Len(s) : Alike(t[k], s[k]),
           t[Len(t)].kind = "cpp", t[Len(t)].saved = g,
           t[Len(t)].name \in Functions,
           t[Len(t)].prevented <=> (g = t[Len(t)].name)
    PROVE  Chain(t, GuardOf(t[Len(t)]))
  <1>0. Len(s) \in Nat OBVIOUS
  <1>1. \A j \in Nat, i \in 1..(Len(s) + 1) : Nearest(t, j, i) <=> Nearest(s, j, i)
    <2>1. Len(s) \in Nat OBVIOUS
    <2> QED BY <2>1, NearestAlike
  <1>2. \A k \in 1..Len(s) : k \in Nat /\ k \in 1..(Len(s) + 1) /\ k \in 1..Len(t)
    BY <1>0
  <1>3. \A k \in 1..Len(t) : k \in 1..Len(s) \/ k = Len(t) BY <1>0
  <1>4. \A k \in 1..Len(s) : GuardOf(t[k]) = GuardOf(s[k]) BY DEF Alike, GuardOf
  <1>5. /\ Len(s) + 1 \in 1..(Len(s) + 1) /\ Len(t) \in 1..Len(t)
        /\ Len(s) + 1 = Len(t)
    BY <1>0
  <1>6. \A i, j \in 1..Len(t) : Nearest(t, j, i) => j \in 1..Len(s)
    BY <1>0 DEF Nearest
  <1>7. \A i, j \in 1..Len(t) :
          t[i].kind = "cpp" /\ Nearest(t, j, i) => t[i].saved = GuardOf(t[j])
    <2> SUFFICES ASSUME NEW i \in 1..Len(t), NEW j \in 1..Len(t),
                        t[i].kind = "cpp", Nearest(t, j, i)
                 PROVE  t[i].saved = GuardOf(t[j])
      OBVIOUS
    <2>1. j \in 1..Len(s) BY <1>6
    <2>2. CASE i \in 1..Len(s) BY <2>1, <2>2, <1>1, <1>2, <1>4 DEF Chain, Alike
    <2>3. CASE i = Len(t)
      <3>1. Nearest(s, j, Len(s) + 1) BY <2>1, <2>3, <1>1, <1>2, <1>5
      <3>2. g = GuardOf(s[j]) BY <3>1, <2>1 DEF Chain
      <3> QED BY <3>2, <2>1, <2>3, <1>4
    <2> QED BY <2>2, <2>3, <1>3
  <1>8. \A i \in 1..Len(t) : t[i].kind = "cpp" /\ t[i].saved # None =>
          \E j \in 1..Len(t) : Nearest(t, j, i)
    <2> SUFFICES ASSUME NEW i \in 1..Len(t), t[i].kind = "cpp", t[i].saved # None
                 PROVE  \E j \in 1..Len(t) : Nearest(t, j, i)
      OBVIOUS
    <2>1. CASE i \in 1..Len(s) BY <2>1, <1>1, <1>2 DEF Chain, Alike
    <2>2. CASE i = Len(t)
      <3>1. PICK j \in 1..Len(s) : Nearest(s, j, Len(s) + 1) BY <2>2 DEF Chain
      <3> QED BY <3>1, <2>2, <1>1, <1>2, <1>5
    <2> QED BY <2>1, <2>2, <1>3
  <1>9. \A j \in 1..Len(t) : Nearest(t, j, Len(t) + 1) => j = Len(t)
    <2> SUFFICES ASSUME NEW j \in 1..Len(t), Nearest(t, j, Len(t) + 1), j # Len(t)
                 PROVE  FALSE
      OBVIOUS
    <2>1. Len(t) \in (j + 1)..(Len(t) + 1 - 1) BY <1>0
    <2> QED BY <2>1 DEF Nearest
  <1>10. Nearest(t, Len(t), Len(t) + 1) BY <1>0 DEF Nearest
  <1>11. \A i \in 1..Len(t) : t[i].kind = "cpp" =>
          /\ t[i].prevented <=> (t[i].saved = t[i].name)
          /\ t[i].name \in Functions
    BY <1>3 DEF Chain, Alike
  <1> QED BY <1>5, <1>7, <1>8, <1>9, <1>10, <1>11 DEF Chain

\* When the innermost frame goes, the guard is what a call has saved.
LEMMA ChainPopped ==
    ASSUME NEW s \in Seq(Frame), NEW t \in Seq(Frame), NEW g, Chain(s, g), s # <<>>,
           Len(t) = Len(s) - 1, \A k \in 1..Len(t) : Alike(t[k], s[k])
    PROVE  Chain(t, IF s[Len(s)].kind = "cpp" THEN s[Len(s)].saved ELSE g)
  <1>0. Len(s) \in Nat \ {0} /\ Len(t) \in Nat OBVIOUS
  <1>1. \A j \in Nat, i \in 1..(Len(t) + 1) : Nearest(t, j, i) <=> Nearest(s, j, i)
    <2>1. \A k \in 1..Len(t) : Alike(t[k], s[k]) OBVIOUS
    <2> QED BY <2>1, <1>0, NearestAlike
  <1>2. \A k \in 1..Len(t) : k \in Nat /\ k \in 1..(Len(t) + 1) /\ k \in 1..Len(s)
    BY <1>0
  <1>4. \A k \in 1..Len(t) : GuardOf(t[k]) = GuardOf(s[k]) BY DEF Alike, GuardOf
  <1>5. Len(t) + 1 = Len(s) /\ Len(s) \in 1..(Len(t) + 1) /\ Len(s) \in 1..Len(s)
    BY <1>0
  <1>6. \A i \in 1..Len(s) : \A j \in 1..Len(s) : Nearest(s, j, i) => j \in 1..Len(t)
    BY <1>0 DEF Nearest
  <1>7. \A i, j \in 1..Len(t) :
          t[i].kind = "cpp" /\ Nearest(t, j, i) => t[i].saved = GuardOf(t[j])
    BY <1>1, <1>2, <1>4 DEF Chain, Alike
  <1>8. \A i \in 1..Len(t) : t[i].kind = "cpp" /\ t[i].saved # None =>
          \E j \in 1..Len(t) : Nearest(t, j, i)
    BY <1>1, <1>2, <1>6 DEF Chain, Alike
  <1>9. \A i \in 1..Len(t) : t[i].kind = "cpp" =>
          /\ t[i].prevented <=> (t[i].saved = t[i].name)
          /\ t[i].name \in Functions
    BY <1>2 DEF Chain, Alike
  <1>10. CASE s[Len(s)].kind = "cpp"
    <2>1. \A j \in 1..Len(t) :
            Nearest(t, j, Len(t) + 1) => s[Len(s)].saved = GuardOf(t[j])
      BY <1>1, <1>2, <1>4, <1>5, <1>10 DEF Chain
    <2>2. s[Len(s)].saved # None => \E j \in 1..Len(t) : Nearest(t, j, Len(t) + 1)
      BY <1>1, <1>2, <1>5, <1>6, <1>10 DEF Chain
    <2> QED BY <1>7, <1>8, <1>9, <1>10, <2>1, <2>2 DEF Chain
  <1>11. CASE s[Len(s)].kind # "cpp"
    <2>1. \A j \in 1..Len(t) : Nearest(s, j, Len(s) + 1) <=> Nearest(s, j, Len(s))
      <3> TAKE j \in 1..Len(t)
      <3>1. j \in 1..(Len(s) - 1) /\ j \in 1..(Len(s) + 1 - 1) BY <1>0
      <3>2. \A k \in (j + 1)..(Len(s) + 1 - 1) :
              k \in (j + 1)..(Len(s) - 1) \/ k = Len(s)
        BY <1>0
      <3>3. \A k \in (j + 1)..(Len(s) - 1) : k \in (j + 1)..(Len(s) + 1 - 1) BY <1>0
      <3> QED BY <3>1, <3>2, <3>3, <1>11 DEF Nearest
    <2>2. ~Nearest(s, Len(s), Len(s) + 1) BY <1>11 DEF Nearest
    <2>3. \A j \in 1..Len(s) : j \in 1..Len(t) \/ j = Len(s) BY <1>0
    <2>4. \A j \in 1..Len(t) : Nearest(t, j, Len(t) + 1) => g = GuardOf(t[j])
      BY <2>1, <1>1, <1>2, <1>4, <1>5 DEF Chain
    <2>5. g # None => \E j \in 1..Len(t) : Nearest(t, j, Len(t) + 1)
      BY <2>1, <2>2, <2>3, <1>1, <1>2, <1>5 DEF Chain
    <2> QED BY <1>7, <1>8, <1>9, <1>11, <2>4, <2>5 DEF Chain
  <1> QED BY <1>10, <1>11

-----------------------------------------------------------------------------
(* The invariant *)

\* Types, the places of the frames, and the chain of guards
IInv == TypeOK /\ Chain(stack, guard)

\* The innermost frame exists and is on the stack.
LEMMA TopFrame ==
    ASSUME stack \in Seq(Frame), Depth > 0
    PROVE  Depth \in Nat \ {0} /\ Depth \in 1..Depth /\ Top \in Frame /\ Top = stack[Depth]
  BY DEF Depth, Top

\* The proxies of the list are proxies.
LEMMA ListedType ==
    ASSUME TypeOK
    PROVE  Listed \subseteq Proxies /\ Connected \subseteq Receivers
  BY DEF TypeOK, Listed, Connected, Receivers

\* Frames of each kind are frames.
LEMMA FrameTypes ==
    /\ \A f \in Functions, saved \in Functions \cup {None}, prevented \in BOOLEAN,
          todo \in SUBSET Receivers : CallFrame(f, saved, prevented, todo) \in Frame
    /\ \A s \in Signals, todo \in SUBSET Receivers : EmitFrame(s, todo) \in Frame
    /\ \A kind \in {"qml", "handler", "slot", "script"},
          name \in Functions \cup Signals \cup {None}, p \in Proxies \cup {None} :
             ScriptFrame(kind, name, p) \in Frame
  BY DEF CallFrame, EmitFrame, ScriptFrame, Frame

\* A frame is pushed on a stack that is otherwise alike.
LEMMA PushedType ==
    ASSUME IInv, NEW frame \in Frame, NEW s \in Seq(Frame),
           Len(s) = Depth, \A k \in 1..Depth : Alike(s[k], stack[k]),
           \A k \in 1..Depth : s[k].todo \subseteq stack[k].todo,
           stack' = Append(s, frame),
           frame.prevented => frame.todo = {},
           frame.kind = "qml" =>
              /\ Depth > 0
              /\ Top.kind = "cpp" /\ Top.name = frame.name /\ ~Top.prevented,
           proxies' \in Seq(Proxies), guard' \in Functions \cup {None}
    PROVE  /\ TypeOK'
           /\ stack \in Seq(Frame) /\ stack' \in Seq(Frame)
           /\ Len(stack') = Len(stack) + 1
           /\ \A k \in 1..Len(stack) : Alike(stack'[k], stack[k])
           /\ stack'[Len(stack')] = frame
  <1>1. /\ stack' \in Seq(Frame) /\ stack \in Seq(Frame)
        /\ Depth \in Nat /\ Len(stack) = Depth
        /\ Len(stack') = Depth + 1
        /\ stack'[Depth + 1] = frame
        /\ \A k \in 1..Depth : stack'[k] = s[k]
    BY DEF IInv, TypeOK, Depth
  <1>2. \A k \in 1..Depth : Alike(stack'[k], stack[k]) BY <1>1
  <1>3. ASSUME NEW i \in 1..Depth', stack'[i].kind = "qml"
        PROVE  /\ i > 1
               /\ stack'[i - 1].kind = "cpp" /\ stack'[i - 1].name = stack'[i].name
               /\ ~stack'[i - 1].prevented
    <2>1. CASE i \in 1..Depth
      <3>1. /\ i > 1
            /\ stack[i - 1].kind = "cpp" /\ stack[i - 1].name = stack[i].name
            /\ ~stack[i - 1].prevented
        BY <1>2, <1>3, <2>1 DEF Alike, IInv, TypeOK
      <3>2. i - 1 \in 1..Depth BY <3>1, <1>1, <2>1
      <3> QED BY <3>1, <3>2, <1>2, <2>1 DEF Alike
    <2>2. CASE i = Depth + 1
      <3>1. Depth \in 1..Depth /\ i > 1 /\ i - 1 = Depth BY <1>1, <1>3, <2>2
      <3> QED BY <3>1, <2>2, <1>1, <1>2, <1>3 DEF Top, Alike
    <2> QED BY <2>1, <2>2, <1>1 DEF Depth
  <1>4. \A i \in 1..Depth' : stack'[i].prevented => stack'[i].todo = {}
    <2>1. \A i \in 1..Depth' : i \in 1..Depth \/ i = Depth + 1 BY <1>1 DEF Depth
    <2>2. \A i \in 1..Depth : stack'[i].prevented => stack'[i].todo = {}
      BY <1>1, <1>2 DEF Alike, IInv, TypeOK
    <2> QED BY <2>1, <2>2, <1>1
  <1>5. TypeOK' BY <1>1, <1>3, <1>4 DEF TypeOK
  <1> QED BY <1>1, <1>2, <1>5

\* Frames are taken from a stack, which is otherwise alike.
LEMMA ShorterType ==
    ASSUME IInv, stack' \in Seq(Frame), Depth' <= Depth,
           \A k \in 1..Depth' : Alike(stack'[k], stack[k]),
           \A k \in 1..Depth' : stack'[k].todo \subseteq stack[k].todo,
           proxies' \in Seq(Proxies), guard' \in Functions \cup {None}
    PROVE  TypeOK'
  <1>1. Depth \in Nat /\ Depth' \in Nat BY DEF Depth, IInv, TypeOK
  <1>2. \A i \in 1..Depth' : i \in 1..Depth BY <1>1
  <1>3. ASSUME NEW i \in 1..Depth', stack'[i].kind = "qml"
        PROVE  /\ i > 1
               /\ stack'[i - 1].kind = "cpp" /\ stack'[i - 1].name = stack'[i].name
               /\ ~stack'[i - 1].prevented
    <2>1. /\ i > 1
          /\ stack[i - 1].kind = "cpp" /\ stack[i - 1].name = stack[i].name
          /\ ~stack[i - 1].prevented
      BY <1>2, <1>3 DEF Alike, IInv, TypeOK
    <2>2. i - 1 \in 1..Depth' BY <2>1, <1>1
    <2> QED BY <2>1, <2>2 DEF Alike
  <1>4. \A i \in 1..Depth' : stack'[i].prevented => stack'[i].todo = {}
    BY <1>2 DEF Alike, IInv, TypeOK
  <1> QED BY <1>3, <1>4 DEF TypeOK

\* A frame that is no call of the instance is pushed.
LEMMA PushOther ==
    ASSUME IInv, NEW frame \in Frame, frame.kind # "cpp", Push(frame),
           UNCHANGED <<proxies, guard>>,
           frame.prevented => frame.todo = {},
           frame.kind = "qml" =>
              /\ Depth > 0
              /\ Top.kind = "cpp" /\ Top.name = frame.name /\ ~Top.prevented
    PROVE  IInv'
  <1>1. /\ stack \in Seq(Frame) /\ Len(stack) = Depth
        /\ stack' = Append(stack, frame)
        /\ \A k \in 1..Depth : Alike(stack[k], stack[k])
        /\ \A k \in 1..Depth : stack[k].todo \subseteq stack[k].todo
        /\ proxies' \in Seq(Proxies) /\ guard' \in Functions \cup {None}
    BY DEF IInv, TypeOK, Push, Depth, Alike
  <1>2. /\ TypeOK'
        /\ stack \in Seq(Frame) /\ stack' \in Seq(Frame)
        /\ Len(stack') = Len(stack) + 1
        /\ \A k \in 1..Len(stack) : Alike(stack'[k], stack[k])
        /\ stack'[Len(stack')] = frame
    BY <1>1, PushedType
  <1>3. Chain(stack', guard)
    <2>1. Chain(stack, guard) BY DEF IInv
    <2> QED BY <1>2, <2>1, ChainOther
  <1> QED BY <1>2, <1>3 DEF IInv

\* A frame that is no call of the instance is popped.
LEMMA PopOther ==
    ASSUME IInv, Depth > 0, Top.kind # "cpp", Pop(1), UNCHANGED <<proxies, guard>>
    PROVE  IInv'
  <1>1. stack \in Seq(Frame) /\ Depth \in Nat \ {0} /\ Len(stack) = Depth
    BY DEF IInv, TypeOK, Depth
  <1>2. /\ stack' \in Seq(Frame) /\ Len(stack') = Len(stack) - 1
        /\ \A k \in 1..Len(stack') : stack'[k] = stack[k]
    BY <1>1 DEF Pop
  <1>3. \A k \in 1..Len(stack') : Alike(stack'[k], stack[k]) BY <1>2 DEF Alike
  <1>4. TypeOK'
    <2>1. Depth' <= Depth BY <1>1, <1>2 DEF Depth
    <2>2. \A k \in 1..Depth' : Alike(stack'[k], stack[k]) /\ stack'[k].todo \subseteq stack[k].todo
      BY <1>2, <1>3 DEF Depth
    <2>3. proxies' \in Seq(Proxies) /\ guard' \in Functions \cup {None}
      BY DEF IInv, TypeOK
    <2> QED BY <1>2, <2>1, <2>2, <2>3, ShorterType
  <1>5. Chain(stack', guard)
    <2>1. Chain(stack, guard) /\ stack # <<>> BY <1>1 DEF IInv
    <2>2. stack[Len(stack)].kind # "cpp" BY <1>1 DEF Top
    <2>3. Chain(stack', IF stack[Len(stack)].kind = "cpp"
                        THEN stack[Len(stack)].saved ELSE guard)
      BY <1>1, <1>2, <1>3, <2>1, ChainPopped
    <2> QED BY <2>2, <2>3
  <1> QED BY <1>4, <1>5 DEF IInv

-----------------------------------------------------------------------------
(* The steps *)

\* A function of the instance is entered.
LEMMA EnterStep ==
    ASSUME IInv, NEW f \in Functions, Enter(f)
    PROVE  IInv'
  <1> DEFINE frame == CallFrame(f, guard, guard = f, ToAsk(f))
  <1>1. /\ stack \in Seq(Frame) /\ Len(stack) = Depth
        /\ stack' = Append(stack, frame)
        /\ \A k \in 1..Depth : Alike(stack[k], stack[k])
        /\ \A k \in 1..Depth : stack[k].todo \subseteq stack[k].todo
        /\ proxies' \in Seq(Proxies)
    BY DEF IInv, TypeOK, Enter, Push, Depth, Alike
  <1>2. guard' \in Functions \cup {None} BY DEF Enter, GuardAfter
  <1>3. frame \in Frame
    <2>1. ToAsk(f) \in SUBSET Receivers
      <3>1. Listed \subseteq Proxies BY ListedType DEF IInv
      <3> QED BY <3>1 DEF ToAsk, Receivers
    <2>2. guard \in Functions \cup {None} /\ (guard = f) \in BOOLEAN
      BY DEF IInv, TypeOK
    <2> QED BY <2>1, <2>2, FrameTypes
  <1>4. /\ frame.kind = "cpp" /\ frame.saved = guard /\ frame.name = f
        /\ frame.prevented <=> (guard = f)
        /\ frame.todo = ToAsk(f)
    BY DEF CallFrame
  <1>5. frame.prevented => frame.todo = {} BY <1>4 DEF ToAsk
  <1> HIDE DEF frame
  <1>6. /\ TypeOK'
        /\ stack \in Seq(Frame) /\ stack' \in Seq(Frame)
        /\ Len(stack') = Len(stack) + 1
        /\ \A k \in 1..Len(stack) : Alike(stack'[k], stack[k])
        /\ stack'[Len(stack')] = frame
    <2>1. frame.kind # "qml" BY <1>4
    <2> QED BY <1>1, <1>2, <1>3, <1>5, <2>1, PushedType
  <1>7. Chain(stack', GuardOf(frame))
    <2>1. Chain(stack, guard) BY DEF IInv
    <2> QED BY <1>4, <1>6, <2>1, ChainCall
  <1>8. GuardOf(frame) = guard' BY <1>4 DEF GuardOf, Enter, GuardAfter
  <1> QED BY <1>6, <1>7, <1>8 DEF IInv

\* A QML function is called.
LEMMA CallQmlMethodStep ==
    ASSUME IInv, CallQmlMethod
    PROVE  IInv'
  <1>1. PICK i \in 1..Len(proxies) :
          proxies[i] \in Top.todo /\ Push(ScriptFrame("qml", Top.name, proxies[i]))
    BY DEF CallQmlMethod
  <1>2. Depth > 0 /\ Top.kind = "cpp" /\ UNCHANGED <<proxies, guard>>
    BY DEF CallQmlMethod, TopIs
  <1>3. stack \in Seq(Frame) BY DEF IInv, TypeOK
  <1>4. Depth \in 1..Depth /\ Top \in Frame /\ Top = stack[Depth] BY <1>2, <1>3, TopFrame
  <1>5. ~Top.prevented
    <2>1. Top.prevented => Top.todo = {} BY <1>4 DEF IInv, TypeOK
    <2> QED BY <1>1, <2>1
  <1>6. ScriptFrame("qml", Top.name, proxies[i]) \in Frame
    <2>1. Top.name \in Functions \cup Signals \cup {None} BY <1>4 DEF Frame
    <2>2. proxies[i] \in Proxies BY DEF IInv, TypeOK
    <2> QED BY <2>1, <2>2, FrameTypes
  <1>7. \A n : /\ ScriptFrame("qml", n, proxies[i]).kind = "qml"
               /\ ScriptFrame("qml", n, proxies[i]).name = n
               /\ ~ScriptFrame("qml", n, proxies[i]).prevented
    BY DEF ScriptFrame
  <1> QED BY <1>1, <1>2, <1>5, <1>6, <1>7, PushOther

\* A QML function returns.
LEMMA QmlReturnsStep ==
    ASSUME IInv, QmlReturns
    PROVE  IInv'
  <1> DEFINE rest == SubSeq(stack, 1, Depth - 1)
  <1>1. /\ stack \in Seq(Frame) /\ proxies' \in Seq(Proxies)
        /\ Depth > 0 /\ Top.kind = "qml"
    BY DEF IInv, TypeOK, QmlReturns, TopIs
  <1>2. Depth \in Nat \ {0} /\ Depth \in 1..Depth /\ Len(stack) = Depth /\ Top = stack[Depth]
    BY <1>1, TopFrame DEF Depth
  <1>3. Depth > 1 /\ stack[Depth - 1].kind = "cpp"
    BY <1>1, <1>2 DEF IInv, TypeOK
  <1>4. Depth - 1 \in 1..Depth /\ stack[Depth - 1] \in Frame BY <1>1, <1>2, <1>3
  <1>5. /\ rest \in Seq(Frame) /\ Len(rest) = Depth - 1
        /\ \A k \in 1..Len(rest) : rest[k] = stack[k]
    BY <1>1, <1>2, <1>3
  <1>6. \A k \in 1..Len(rest) : Alike(rest[k], stack[k]) BY <1>5 DEF Alike
  <1>7. Chain(rest, guard)
    <2>1. Chain(stack, guard) /\ stack # <<>> BY <1>2 DEF IInv
    <2>2. stack[Len(stack)].kind # "cpp" BY <1>1, <1>2
    <2>3. Len(rest) = Len(stack) - 1 BY <1>2, <1>5
    <2>4. Chain(rest, IF stack[Len(stack)].kind = "cpp"
                      THEN stack[Len(stack)].saved ELSE guard)
      <3> HIDE DEF rest
      <3> QED BY <1>1, <1>5, <1>6, <2>1, <2>3, ChainPopped
    <2> QED BY <2>2, <2>4
  <1>8. CASE stack[Depth - 1].name \in AskAll
    <2>1. /\ stack' = [rest EXCEPT ![Depth - 1].todo = @ \ {Top.proxy}]
          /\ guard' = guard
      BY <1>8 DEF QmlReturns
    <2>2. /\ stack' \in Seq(Frame) /\ Len(stack') = Len(rest)
          /\ \A k \in 1..Len(rest) : Alike(stack'[k], rest[k])
          /\ \A k \in 1..Len(rest) : stack'[k].todo \subseteq rest[k].todo
      <3>1. rest[Depth - 1] \in Frame /\ rest[Depth - 1].todo \in SUBSET Receivers
        BY <1>4, <1>5, <1>2, <1>3 DEF Frame
      <3>2. [rest[Depth - 1] EXCEPT !.todo = @ \ {Top.proxy}] \in Frame
        BY <3>1 DEF Frame
      <3> HIDE DEF rest
      <3>3. stack' = [rest EXCEPT ![Depth - 1] =
                        [rest[Depth - 1] EXCEPT !.todo = @ \ {Top.proxy}]]
        BY <2>1
      <3>4. Depth - 1 \in 1..Len(rest) BY <1>5, <1>2, <1>3
      <3>5. stack' \in Seq(Frame) /\ Len(stack') = Len(rest) BY <3>2, <3>3, <3>4, <1>5
      <3>6. \A k \in 1..Len(rest) : k # Depth - 1 => stack'[k] = rest[k]
        BY <3>3, <1>5
      <3>7. stack'[Depth - 1] = [rest[Depth - 1] EXCEPT !.todo = @ \ {Top.proxy}]
        BY <3>3, <3>4, <1>5
      <3>8. /\ Alike(stack'[Depth - 1], rest[Depth - 1])
            /\ stack'[Depth - 1].todo \subseteq rest[Depth - 1].todo
        BY <3>1, <3>7 DEF Alike, Frame
      <3> QED BY <3>5, <3>6, <3>8 DEF Alike
    <2>3. TypeOK'
      <3>1. Depth' <= Depth BY <2>2, <1>5, <1>2 DEF Depth
      <3>2. \A k \in 1..Depth' : Alike(stack'[k], stack[k])
                                 /\ stack'[k].todo \subseteq stack[k].todo
        <4> HIDE DEF rest
        <4> QED BY <2>2, <1>5 DEF Depth, Alike
      <3>3. guard' \in Functions \cup {None} BY <2>1 DEF IInv, TypeOK
      <3> QED BY <1>1, <2>2, <3>1, <3>2, <3>3, ShorterType
    <2>4. Chain(stack', guard')
      <3> HIDE DEF rest
      <3> QED BY <1>5, <1>7, <2>1, <2>2, ChainAlike
    <2> QED BY <2>3, <2>4 DEF IInv
  <1>9. CASE stack[Depth - 1].name \notin AskAll
    <2>1. Pop(2) /\ guard' = stack[Depth - 1].saved
      BY <1>9 DEF QmlReturns, Restored
    <2>2. /\ stack' \in Seq(Frame) /\ Len(stack') = Depth - 2
          /\ \A k \in 1..Len(stack') : stack'[k] = stack[k]
      BY <1>1, <1>2, <1>3, <2>1 DEF Pop
    <2>3. TypeOK'
      <3>1. Depth' <= Depth BY <2>2, <1>2 DEF Depth
      <3>2. \A k \in 1..Depth' : Alike(stack'[k], stack[k])
                                 /\ stack'[k].todo \subseteq stack[k].todo
        BY <2>2 DEF Depth, Alike
      <3>3. guard' \in Functions \cup {None} BY <2>1, <1>4 DEF Frame
      <3> QED BY <1>1, <2>2, <3>1, <3>2, <3>3, ShorterType
    <2>4. Chain(stack', guard')
      <3>1. /\ rest # <<>> /\ Len(stack') = Len(rest) - 1
            /\ rest[Len(rest)] = stack[Depth - 1]
        BY <1>2, <1>3, <1>5, <2>2
      <3>2. \A k \in 1..Len(stack') : Alike(stack'[k], rest[k])
        <4>1. \A k \in 1..Len(stack') : k \in 1..Len(rest) BY <3>1, <1>5, <1>2
        <4> HIDE DEF rest
        <4> QED BY <4>1, <1>5, <2>2 DEF Alike
      <3> HIDE DEF rest
      <3>3. Chain(stack', IF rest[Len(rest)].kind = "cpp"
                          THEN rest[Len(rest)].saved ELSE guard)
        BY <1>5, <1>7, <2>2, <3>1, <3>2, ChainPopped
      <3> QED BY <3>1, <3>3, <1>3, <2>1
    <2> QED BY <2>3, <2>4 DEF IInv
  <1> QED BY <1>8, <1>9

\* The original returns.
LEMMA OriginalReturnsStep ==
    ASSUME IInv, OriginalReturns
    PROVE  IInv'
  <1>1. /\ stack \in Seq(Frame) /\ proxies' \in Seq(Proxies)
        /\ Depth > 0 /\ Top.kind = "cpp" /\ Pop(1) /\ guard' = Top.saved
    BY DEF IInv, TypeOK, OriginalReturns, TopIs, Restored
  <1>2. /\ Depth \in Nat \ {0} /\ Depth \in 1..Depth /\ Len(stack) = Depth
        /\ Top = stack[Depth] /\ Top \in Frame
    BY <1>1, TopFrame DEF Depth
  <1>3. /\ stack' \in Seq(Frame) /\ Len(stack') = Len(stack) - 1
        /\ \A k \in 1..Len(stack') : stack'[k] = stack[k]
    BY <1>1, <1>2 DEF Pop
  <1>4. \A k \in 1..Len(stack') : Alike(stack'[k], stack[k]) BY <1>3 DEF Alike
  <1>5. TypeOK'
    <2>1. Depth' <= Depth BY <1>2, <1>3 DEF Depth
    <2>2. \A k \in 1..Depth' : Alike(stack'[k], stack[k]) /\ stack'[k].todo \subseteq stack[k].todo
      BY <1>3, <1>4 DEF Depth
    <2>3. guard' \in Functions \cup {None} BY <1>1, <1>2 DEF Frame
    <2> QED BY <1>1, <1>3, <2>1, <2>2, <2>3, ShorterType
  <1>6. Chain(stack', guard')
    <2>1. Chain(stack, guard) /\ stack # <<>> BY <1>2 DEF IInv
    <2>2. Chain(stack', IF stack[Len(stack)].kind = "cpp"
                        THEN stack[Len(stack)].saved ELSE guard)
      BY <1>1, <1>3, <1>4, <2>1, ChainPopped
    <2> QED BY <1>1, <1>2, <2>2
  <1> QED BY <1>5, <1>6 DEF IInv

\* A signal is delivered to a receiver.
LEMMA DeliverStep ==
    ASSUME IInv, NEW r \in Receivers, Deliver(r)
    PROVE  IInv'
  <1> DEFINE s == [stack EXCEPT ![Depth].todo = @ \ {r}]
             frame == IF r = Frontend THEN ScriptFrame("slot", Top.name, None)
                      ELSE ScriptFrame("handler", Top.name, r)
  <1>1. /\ stack \in Seq(Frame) /\ proxies' \in Seq(Proxies)
        /\ guard' \in Functions \cup {None} /\ guard' = guard
        /\ Depth > 0 /\ Top.kind = "emit" /\ stack' = Append(s, frame)
    BY DEF IInv, TypeOK, Deliver, TopIs
  <1>2. /\ Depth \in Nat \ {0} /\ Depth \in 1..Depth /\ Len(stack) = Depth
        /\ Top = stack[Depth] /\ Top \in Frame
    BY <1>1, TopFrame DEF Depth
  <1>3. /\ s \in Seq(Frame) /\ Len(s) = Depth
        /\ \A k \in 1..Depth : Alike(s[k], stack[k])
        /\ \A k \in 1..Depth : s[k].todo \subseteq stack[k].todo
    <2> DEFINE top == [Top EXCEPT !.todo = @ \ {r}]
    <2>1. top \in Frame BY <1>2 DEF Frame
    <2>2. /\ top.kind = Top.kind /\ top.name = Top.name /\ top.saved = Top.saved
          /\ top.prevented = Top.prevented /\ top.todo \subseteq Top.todo
      BY <1>2 DEF Frame
    <2>3. s = [stack EXCEPT ![Depth] = top] BY <1>2
    <2> HIDE DEF top, s
    <2>4. s \in Seq(Frame) /\ Len(s) = Depth BY <1>1, <1>2, <2>1, <2>3
    <2>5. \A k \in 1..Depth : s[k] = IF k = Depth THEN top ELSE stack[k]
      BY <1>1, <1>2, <2>3
    <2> QED BY <1>2, <2>2, <2>4, <2>5 DEF Alike
  <1>4. /\ frame \in Frame /\ frame.kind \in {"slot", "handler"} /\ ~frame.prevented
    <2>1. Top.name \in Functions \cup Signals \cup {None} BY <1>2 DEF Frame
    <2>2. r # Frontend => r \in Proxies BY DEF Receivers
    <2>3. frame \in Frame BY <2>1, <2>2, FrameTypes
    <2> QED BY <2>3 DEF ScriptFrame
  <1> HIDE DEF s, frame
  <1>5. /\ TypeOK'
        /\ stack \in Seq(Frame) /\ stack' \in Seq(Frame)
        /\ Len(stack') = Len(stack) + 1
        /\ \A k \in 1..Len(stack) : Alike(stack'[k], stack[k])
        /\ stack'[Len(stack')] = frame
    <2>1. frame.kind # "qml" BY <1>4
    <2> QED BY <1>1, <1>3, <1>4, <2>1, PushedType
  <1>6. Chain(stack', guard)
    <2>1. Chain(stack, guard) BY DEF IInv
    <2>2. stack'[Len(stack')].kind # "cpp" BY <1>4, <1>5
    <2> QED BY <1>5, <2>1, <2>2, ChainOther
  <1> QED BY <1>1, <1>5, <1>6 DEF IInv

\* The list of proxies, and what is left to be called, may change.
LEMMA SameStack ==
    ASSUME IInv, stack' \in Seq(Frame), Len(stack') = Len(stack),
           \A k \in 1..Depth : Alike(stack'[k], stack[k]),
           \A k \in 1..Depth : stack'[k].todo \subseteq stack[k].todo,
           proxies' \in Seq(Proxies), guard' = guard
    PROVE  IInv'
  <1>1. stack \in Seq(Frame) /\ Len(stack) \in Nat BY DEF IInv, TypeOK
  <1>2. TypeOK'
    <2>1. Depth' <= Depth BY <1>1 DEF Depth
    <2>2. \A k \in 1..Depth' : Alike(stack'[k], stack[k]) /\ stack'[k].todo \subseteq stack[k].todo
      BY DEF Depth
    <2>3. guard' \in Functions \cup {None} BY DEF IInv, TypeOK
    <2> QED BY <2>1, <2>2, <2>3, ShorterType
  <1>3. Chain(stack', guard)
    <2>1. Chain(stack, guard) BY DEF IInv
    <2>2. \A k \in 1..Len(stack) : Alike(stack'[k], stack[k]) BY DEF Depth
    <2> QED BY <1>1, <2>1, <2>2, ChainAlike
  <1> QED BY <1>2, <1>3 DEF IInv

\* An object of the engine is created.
LEMMA ClassBeginStep ==
    ASSUME IInv, NEW p \in Proxies, ClassBegin(p)
    PROVE  IInv'
  <1>1. stack \in Seq(Frame) /\ proxies \in Seq(Proxies) BY DEF IInv, TypeOK
  <1>2. /\ proxies' \in Seq(Proxies) /\ stack' = stack /\ guard' = guard
    BY <1>1 DEF ClassBegin
  <1>3. \A k \in 1..Depth : Alike(stack'[k], stack[k]) /\ stack'[k].todo \subseteq stack[k].todo
    BY <1>2 DEF Alike
  <1> QED BY <1>1, <1>2, <1>3, SameStack

\* An object of the engine is destroyed.
LEMMA DestroyStep ==
    ASSUME IInv, NEW p \in Proxies, Destroy(p)
    PROVE  IInv'
  <1>1. /\ stack \in Seq(Frame) /\ proxies \in Seq(Proxies)
        /\ Depth \in Nat /\ Len(stack) = Depth
    BY DEF IInv, TypeOK, Depth
  <1>2. guard' = guard
        /\ stack' = [i \in 1..Depth |-> [stack[i] EXCEPT !.todo = @ \ {p}]]
    BY DEF Destroy
  <1>3. proxies' \in Seq(Proxies)
    <2>1. PICK i \in 1..Len(proxies) : proxies' = RemoveAt(proxies, i) BY DEF Destroy
    <2>2. SubSeq(proxies, 1, i - 1) \in Seq(Proxies) BY <1>1
    <2>3. SubSeq(proxies, i + 1, Len(proxies)) \in Seq(Proxies) BY <1>1
    <2> QED BY <2>1, <2>2, <2>3 DEF RemoveAt
  <1>4. \A i \in 1..Depth : stack[i] \in Frame BY <1>1
  <1>5. \A i \in 1..Depth : [stack[i] EXCEPT !.todo = @ \ {p}] \in Frame
    BY <1>4 DEF Frame
  <1>6. stack' \in Seq(Frame) /\ Len(stack') = Depth
    <2> DEFINE left(i) == [stack[i] EXCEPT !.todo = @ \ {p}]
    <2>1. stack' = [i \in 1..Depth |-> left(i)] /\ \A i \in 1..Depth : left(i) \in Frame
      BY <1>2, <1>5
    <2> HIDE DEF left
    <2> QED BY <1>1, <2>1
  <1>7. \A k \in 1..Depth : Alike(stack'[k], stack[k]) /\ stack'[k].todo \subseteq stack[k].todo
    BY <1>2, <1>4 DEF Alike, Frame
  <1> QED BY <1>1, <1>2, <1>3, <1>6, <1>7, SameStack

\* Signals, handlers, slots and scripts begin and end.
LEMMA ScriptSteps ==
    ASSUME IInv,
           \/ \E s \in Signals : EmitFromInstance(s)
           \/ \E p \in Proxies, s \in Signals : EmitFromQml(p, s)
           \/ \E p \in Proxies : RunScript(p)
           \/ EmitReturns
           \/ ScriptReturns
    PROVE  IInv'
  <1>1. Connected \in SUBSET Receivers BY ListedType DEF IInv
  <1>2. ASSUME NEW s \in Signals, NEW todo \in SUBSET Receivers, Push(EmitFrame(s, todo)),
               UNCHANGED <<proxies, guard>>
        PROVE  IInv'
    <2>1. EmitFrame(s, todo) \in Frame BY FrameTypes
    <2>2. EmitFrame(s, todo).kind = "emit" /\ ~EmitFrame(s, todo).prevented
      BY DEF EmitFrame
    <2> QED BY <1>2, <2>1, <2>2, PushOther
  <1>3. ASSUME NEW kind \in {"handler", "slot", "script"}, NEW p \in Proxies \cup {None},
               NEW s \in Signals \cup {None},
               Push(ScriptFrame(kind, s, p)), UNCHANGED <<proxies, guard>>
        PROVE  IInv'
    <2>1. ScriptFrame(kind, s, p) \in Frame BY FrameTypes
    <2>2. /\ ScriptFrame(kind, s, p).kind \notin {"cpp", "qml"}
          /\ ~ScriptFrame(kind, s, p).prevented
      BY DEF ScriptFrame
    <2> QED BY <1>3, <2>1, <2>2, PushOther
  <1>4. CASE \E s \in Signals : EmitFromInstance(s)
    BY <1>1, <1>2, <1>4 DEF EmitFromInstance
  <1>5. CASE \E p \in Proxies, s \in Signals : EmitFromQml(p, s)
    <2> PICK p \in Proxies, s \in Signals : EmitFromQml(p, s) BY <1>5
    <2>1. CASE Delivering(p) = s
      <3>1. Push(ScriptFrame("handler", s, p)) /\ UNCHANGED <<proxies, guard>>
        BY <2>1 DEF EmitFromQml
      <3> QED BY <3>1, <1>3
    <2>2. CASE Delivering(p) # s
      <3>1. Push(EmitFrame(s, Connected)) /\ UNCHANGED <<proxies, guard>>
        BY <2>2 DEF EmitFromQml
      <3> QED BY <3>1, <1>1, <1>2
    <2> QED BY <2>1, <2>2
  <1>6. CASE \E p \in Proxies : RunScript(p)
    <2> PICK p \in Proxies : RunScript(p) BY <1>6
    <2>1. Push(ScriptFrame("script", None, p)) /\ UNCHANGED <<proxies, guard>>
      BY DEF RunScript
    <2> QED BY <2>1, <1>3
  <1>7. CASE EmitReturns
    <2>1. /\ Depth > 0 /\ Top.kind # "cpp" /\ Pop(1)
          /\ UNCHANGED <<proxies, guard>>
      BY <1>7 DEF EmitReturns, TopIs
    <2> QED BY <2>1, PopOther
  <1>8. CASE ScriptReturns
    <2>1. /\ Depth > 0 /\ Top.kind # "cpp" /\ Pop(1)
          /\ UNCHANGED <<proxies, guard>>
      BY <1>8 DEF ScriptReturns
    <2> QED BY <2>1, PopOther
  <1> QED BY <1>4, <1>5, <1>6, <1>7, <1>8

\* The invariant is inductive.
LEMMA Inductive ==
    /\ Init => IInv
    /\ IInv /\ [Next]_vars => IInv'
  <1>1. ASSUME Init PROVE IInv
    <2>1. stack = <<>> /\ Len(stack) = 0 /\ proxies = <<>> /\ guard = None
      BY <1>1 DEF Init
    <2>2. TypeOK BY <2>1 DEF TypeOK, Depth
    <2>3. Chain(stack, guard) BY <2>1 DEF Chain, Nearest
    <2> QED BY <2>2, <2>3 DEF IInv
  <1>2. ASSUME IInv, Next PROVE IInv'
    <2>1. CASE \E f \in Functions : CallFromFrontend(f)
      BY <1>2, <2>1, EnterStep DEF CallFromFrontend
    <2>2. CASE \E p \in Proxies, f \in Functions : CallFromQml(p, f)
      BY <1>2, <2>2, EnterStep DEF CallFromQml
    <2>3. CASE CallQmlMethod BY <1>2, <2>3, CallQmlMethodStep
    <2>4. CASE QmlReturns BY <1>2, <2>4, QmlReturnsStep
    <2>5. CASE OriginalReturns BY <1>2, <2>5, OriginalReturnsStep
    <2>6. CASE \E r \in Receivers : Deliver(r) BY <1>2, <2>6, DeliverStep
    <2>7. CASE \E p \in Proxies : ClassBegin(p) BY <1>2, <2>7, ClassBeginStep
    <2>8. CASE \E p \in Proxies : Destroy(p) BY <1>2, <2>8, DestroyStep
    <2>9. CASE \/ \E s \in Signals : EmitFromInstance(s)
               \/ \E p \in Proxies, s \in Signals : EmitFromQml(p, s)
               \/ \E p \in Proxies : RunScript(p)
               \/ EmitReturns
               \/ ScriptReturns
      BY <1>2, <2>9, ScriptSteps
    <2> QED BY <1>2, <2>1, <2>2, <2>3, <2>4, <2>5, <2>6, <2>7, <2>8, <2>9 DEF Next
  <1>3. ASSUME IInv, UNCHANGED vars PROVE IInv'
    <2>1. /\ stack' = stack /\ proxies' = proxies /\ guard' = guard
      BY <1>3 DEF vars
    <2>2. /\ stack \in Seq(Frame) /\ proxies \in Seq(Proxies)
      BY <1>3 DEF IInv, TypeOK
    <2> QED BY <1>3, <2>1, <2>2, SameStack DEF Alike
  <1> QED BY <1>1, <1>2, <1>3

-----------------------------------------------------------------------------
(* The theorems *)

\* Frames are where they belong: a QML function above the call that asks it.
THEOREM TypeCorrect == Spec => []TypeOK
  <1>1. IInv => TypeOK BY DEF IInv
  <1> QED BY <1>1, Inductive, PTL DEF Spec

\* The original runs when the QML function of a name calls the instance: such a call
\* has saved what the innermost call below set, the name of the QML function.
THEOREM OriginalReached == Spec => []OriginalIsReached
  <1>1. ASSUME IInv PROVE OriginalIsReached
    <2> SUFFICES ASSUME NEW i \in 2..Depth,
                        stack[i].kind = "cpp", stack[i - 1].kind = "qml",
                        stack[i].name = stack[i - 1].name
                 PROVE  stack[i].prevented
      BY DEF OriginalIsReached
    <2>1. /\ Depth \in Nat /\ Len(stack) = Depth
          /\ i \in 1..Depth /\ i - 1 \in 1..Depth
      BY <1>1 DEF IInv, TypeOK, Depth
    <2>2. /\ i - 1 > 1
          /\ stack[i - 1 - 1].kind = "cpp" /\ stack[i - 1 - 1].name = stack[i - 1].name
          /\ ~stack[i - 1 - 1].prevented
      BY <1>1, <2>1 DEF IInv, TypeOK
    <2>3. i - 1 - 1 = i - 2 /\ i - 2 \in 1..Depth BY <2>1, <2>2
    <2>4. Nearest(stack, i - 2, i)
      <3>1. \A k \in (i - 2 + 1)..(i - 1) : k = i - 1 BY <2>1
      <3>2. i - 2 \in 1..(i - 1) BY <2>1, <2>3
      <3> QED BY <3>1, <3>2, <2>2, <2>3 DEF Nearest
    <2>5. stack[i].saved = GuardOf(stack[i - 2])
      BY <1>1, <2>1, <2>3, <2>4 DEF IInv, Chain
    <2>6. stack[i].saved = stack[i].name BY <2>2, <2>3, <2>5 DEF GuardOf
    <2> QED BY <1>1, <2>1, <2>6 DEF IInv, Chain
  <1> QED BY <1>1, Inductive, PTL DEF Spec

\* A call is kept from QML by the innermost call below it only, which is of the same
\* function and has asked QML; the guard is clear when no call is under way.
THEOREM Simulated == Spec => []CallsAreSimulated
  <1>1. ASSUME IInv PROVE CallsAreSimulated
    <2>1. AtEventLoop => guard = None
      BY <1>1 DEF AtEventLoop, IInv, Chain
    <2>2. ASSUME NEW i \in 1..Depth, stack[i].kind = "cpp", stack[i].prevented
          PROVE  \E j \in 1..(i - 1) :
                    /\ IsCallBelow(j, i)
                    /\ stack[j].name = stack[i].name
                    /\ ~stack[j].prevented
      <3>1. /\ stack[i].saved = stack[i].name /\ stack[i].name \in Functions
        BY <1>1, <2>2 DEF IInv, Chain, Depth
      <3>2. stack[i].saved # None BY <3>1 DEF SimulationAssumption
      <3>3. PICK j \in 1..Depth : Nearest(stack, j, i)
        BY <1>1, <2>2, <3>2 DEF IInv, Chain, Depth
      <3>4. stack[i].saved = GuardOf(stack[j])
        BY <1>1, <2>2, <3>3 DEF IInv, Chain, Depth
      <3>5. stack[j].name = stack[i].name /\ ~stack[j].prevented
        BY <3>1, <3>2, <3>4 DEF GuardOf
      <3> QED BY <3>3, <3>5 DEF Nearest, IsCallBelow
    <2> QED BY <2>1, <2>2 DEF CallsAreSimulated
  <1> QED BY <1>1, Inductive, PTL DEF Spec
=============================================================================
