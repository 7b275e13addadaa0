--------------------------- MODULE Selection_proofs ---------------------------
(***************************************************************************)
(* Facts about numbers and selections that the other proofs cite.  They    *)
(* are proved by induction, in the form "every nonempty set of natural     *)
(* numbers has a least element".                                           *)
(***************************************************************************)
EXTENDS Integers, Selection, WellFoundedInduction, TLAPS

\* A nonempty set of natural numbers has a least element.
LEMMA LeastExists ==
    ASSUME NEW I \in SUBSET Nat, I # {}
    PROVE  \E i \in I : \A j \in I : i <= j
  <1>1. PICK m \in I : \A k \in I : <<k, m>> \notin OpToRel(<, Nat)
    BY WFMin, NatLessThanWellFounded, Zenon
  <1>2. \A k \in I : ~(k < m) BY <1>1, Zenon DEF OpToRel
  <1>3. \A k \in I : m <= k BY <1>2
  <1> QED BY <1>3

\* A nonempty set of numbers up to n has a greatest element.
LEMMA GreatestExists ==
    ASSUME NEW n \in Nat, NEW I \in SUBSET (0..n), I # {}
    PROVE  \E i \in I : \A j \in I : j <= i
  <1> DEFINE C == {n - i : i \in I}
  <1>1. C \in SUBSET Nat OBVIOUS
  <1>2. C # {}
    <2>1. PICK i \in I : TRUE OBVIOUS
    <2>2. n - i \in C BY <2>1
    <2> QED BY <2>2
  <1>3. PICK c \in C : \A d \in C : c <= d BY <1>1, <1>2, LeastExists
  <1>4. PICK i \in I : c = n - i BY <1>3
  <1>5. \A j \in I : n - j \in C OBVIOUS
  <1>6. \A j \in I : n - i <= n - j BY <1>3, <1>4, <1>5
  <1> HIDE DEF C
  <1>7. \A j \in I : j <= i BY <1>6
  <1> QED BY <1>7

\* Induction up to N: the property is membership of a set.
LEMMA InductionUpTo ==
    ASSUME NEW N \in Nat, NEW S, 0 \in S, \A n \in 0..(N - 1) : n \in S => n + 1 \in S
    PROVE  \A n \in 0..N : n \in S
  <1> DEFINE T == {n \in 0..N : n \notin S}
  <1> SUFFICES ASSUME T # {} PROVE FALSE OBVIOUS
  <1>1. T \in SUBSET Nat OBVIOUS
  <1>2. PICK m \in T : \A k \in T : m <= k BY <1>1, LeastExists
  <1>3. m # 0 OBVIOUS
  <1>4. m - 1 \in 0..(N - 1) /\ m - 1 + 1 = m BY <1>3
  <1>5. m - 1 \in S BY <1>2, <1>4
  <1> QED BY <1>4, <1>5

-----------------------------------------------------------------------------
(* Selections *)

\* One round of the loop: what is chosen of the first n entries
Round(list, S, k, n) ==
    IF n = 0 THEN <<>>
    ELSE IF list[n] \in S THEN Append(k[n - 1], list[n]) ELSE k[n - 1]

\* There is a function that goes through the rounds.
LEMMA RoundsExist ==
    ASSUME NEW T, NEW list \in Seq(T), NEW S
    PROVE  \E k : k = [n \in 0..Len(list) |-> Round(list, S, k, n)]
  <1> DEFINE N == Len(list)
             E == {m \in 0..N : \E k : k = [n \in 0..m |-> Round(list, S, k, n)]}
  <1>1. N \in Nat OBVIOUS
  <1>2. 0 \in E
    <2> DEFINE k == [n \in 0..0 |-> <<>>]
    <2>1. \A n \in 0..0 : Round(list, S, k, n) = <<>> BY DEF Round
    <2>2. k = [n \in 0..0 |-> Round(list, S, k, n)] BY <2>1
    <2> QED BY <2>2
  <1>3. ASSUME NEW m \in 0..(N - 1), m \in E PROVE m + 1 \in E
    <2>1. PICK k : k = [n \in 0..m |-> Round(list, S, k, n)] BY <1>3
    <2> DEFINE h == [n \in 0..(m + 1) |-> IF n <= m THEN k[n] ELSE Round(list, S, k, n)]
    <2>2. \A n \in 0..(m + 1) : h[n] = Round(list, S, h, n)
      <3> TAKE n \in 0..(m + 1)
      <3>1. Round(list, S, h, n) = Round(list, S, k, n)
        <4>1. CASE n = 0 BY <4>1 DEF Round
        <4>2. CASE n # 0
          <5>1. n - 1 \in 0..m /\ h[n - 1] = k[n - 1] BY <4>2
          <5> QED BY <5>1 DEF Round
        <4> QED BY <4>1, <4>2
      <3>2. n <= m => k[n] = Round(list, S, k, n) BY <2>1
      <3> QED BY <3>1, <3>2
    <2>3. h = [n \in 0..(m + 1) |-> Round(list, S, h, n)] BY <2>2
    <2>4. m + 1 \in 0..N OBVIOUS
    <2> HIDE DEF h
    <2> QED BY <2>3, <2>4
  <1> HIDE DEF E, N
  <1>4. \A m \in 0..N : m \in E BY <1>1, <1>2, <1>3, InductionUpTo
  <1>5. N \in E BY <1>1, <1>4
  <1> QED BY <1>5 DEF E, N

\* Chosen() is what they come to.
LEMMA ChosenIs ==
    ASSUME NEW T, NEW list \in Seq(T), NEW S
    PROVE  \E k : /\ k = [n \in 0..Len(list) |-> Round(list, S, k, n)]
                  /\ Chosen(list, S) = k[Len(list)]
  <1> DEFINE k == CHOOSE h : h = [n \in 0..Len(list) |-> Round(list, S, h, n)]
  <1>1. k = [n \in 0..Len(list) |-> Round(list, S, k, n)] BY RoundsExist
  <1>2. Chosen(list, S) = k[Len(list)] BY DEF Chosen, Round
  <1> QED BY <1>1, <1>2

\* c lists the entries of the list that are in S.
IsChoice(c, T, list, S) ==
    /\ c \in Seq(T \cap S)
    /\ Len(c) \in 0..Len(list)
    /\ \A i \in 1..Len(c) : \E j \in 1..Len(list) : c[i] = list[j]
    /\ \A j \in 1..Len(list) : list[j] \in S => \E i \in 1..Len(c) : c[i] = list[j]

\* What a loop chooses is that.
LEMMA ChosenIsChoice ==
    ASSUME NEW T, NEW list \in Seq(T), NEW S
    PROVE  IsChoice(Chosen(list, S), T, list, S)
  <1> DEFINE N == Len(list)
  <1>1. N \in Nat OBVIOUS
  <1>2. PICK k : k = [n \in 0..N |-> Round(list, S, k, n)] /\ Chosen(list, S) = k[N]
    BY ChosenIs
  <1> DEFINE Right(n) == /\ k[n] \in Seq(T \cap S)
                         /\ Len(k[n]) \in 0..n
                         /\ \A i \in 1..Len(k[n]) : \E j \in 1..n : k[n][i] = list[j]
                         /\ \A j \in 1..n : list[j] \in S =>
                              \E i \in 1..Len(k[n]) : k[n][i] = list[j]
             E == {n \in 0..N : Right(n)}
  <1>3. k[0] = <<>> BY <1>1, <1>2 DEF Round
  <1>4. 0 \in E
    <2>1. k[0] \in Seq(T \cap S) /\ Len(k[0]) = 0 BY <1>3
    <2>2. Right(0) BY <2>1
    <2> QED BY <1>1, <2>2
  <1>5. ASSUME NEW n \in 0..(N - 1), n \in E PROVE n + 1 \in E
    <2>1. Right(n) BY <1>5
    <2>2. k[n + 1] = IF list[n + 1] \in S THEN Append(k[n], list[n + 1]) ELSE k[n]
      <3>1. k[n + 1] = Round(list, S, k, n + 1) BY <1>1, <1>2
      <3> QED BY <3>1 DEF Round
    <2>3. n + 1 \in 0..N /\ list[n + 1] \in T BY <1>1
    <2>4. \A j \in 1..(n + 1) : j = n + 1 \/ j \in 1..n OBVIOUS
    <2> HIDE DEF N
    <2>5. CASE list[n + 1] \in S
      <3> DEFINE q == k[n]
                 x == list[n + 1]
                 q1 == Append(q, x)
      <3>1. q \in Seq(T \cap S) /\ x \in T \cap S BY <2>1, <2>3, <2>5
      <3>2. k[n + 1] = q1 BY <2>2, <2>5
      <3> HIDE DEF x, q
      <3>3. /\ q1 \in Seq(T \cap S) /\ Len(q1) = Len(q) + 1 /\ Len(q) \in Nat
            /\ q1[Len(q) + 1] = x /\ \A i \in 1..Len(q) : q1[i] = q[i]
        BY <3>1
      <3> HIDE DEF q1
      <3>4. /\ Len(q) \in 0..n /\ \A i \in 1..Len(q) : \E j \in 1..n : q[i] = list[j]
            /\ \A j \in 1..n : list[j] \in S => \E i \in 1..Len(q) : q[i] = list[j]
        BY <2>1 DEF q
      <3>5. Len(q1) \in 0..(n + 1) BY <3>3, <3>4
      <3>6. ASSUME NEW i \in 1..Len(q1) PROVE \E j \in 1..(n + 1) : q1[i] = list[j]
        <4>1. CASE i = Len(q) + 1
          <5>1. q1[i] = list[n + 1] /\ n + 1 \in 1..(n + 1) BY <3>3, <4>1 DEF x
          <5> QED BY <5>1
        <4>2. CASE i \in 1..Len(q)
          <5>1. PICK j \in 1..n : q[i] = list[j] BY <3>4, <4>2
          <5>2. j \in 1..(n + 1) /\ q1[i] = list[j] BY <3>3, <4>2, <5>1
          <5> QED BY <5>2
        <4> QED BY <3>3, <4>1, <4>2
      <3>7. ASSUME NEW j \in 1..(n + 1), list[j] \in S
            PROVE  \E i \in 1..Len(q1) : q1[i] = list[j]
        <4>1. CASE j = n + 1
          <5>1. Len(q) + 1 \in 1..Len(q1) /\ q1[Len(q) + 1] = list[j] BY <3>3, <4>1 DEF x
          <5> QED BY <5>1
        <4>2. CASE j \in 1..n
          <5>1. PICK i \in 1..Len(q) : q[i] = list[j] BY <3>4, <3>7, <4>2
          <5>2. i \in 1..Len(q1) /\ q1[i] = list[j] BY <3>3, <5>1
          <5> QED BY <5>2
        <4> QED BY <4>1, <4>2
      <3>8. Right(n + 1) BY <3>2, <3>3, <3>5, <3>6, <3>7
      <3> HIDE DEF Right
      <3> QED BY <2>3, <3>8
    <2>6. CASE list[n + 1] \notin S
      <3>1. k[n + 1] = k[n] BY <2>2, <2>6
      <3>2. Len(k[n]) \in 0..(n + 1) BY <2>1
      <3>3. ASSUME NEW i \in 1..Len(k[n]) PROVE \E j \in 1..(n + 1) : k[n][i] = list[j]
        BY <2>1
      <3>4. ASSUME NEW j \in 1..(n + 1), list[j] \in S
            PROVE  \E i \in 1..Len(k[n]) : k[n][i] = list[j]
        BY <2>1, <2>4, <2>6, <3>4
      <3>5. k[n] \in Seq(T \cap S) BY <2>1
      <3>6. Right(n + 1) BY <3>1, <3>2, <3>3, <3>4, <3>5
      <3> HIDE DEF Right
      <3> QED BY <2>3, <3>6
    <2> QED BY <2>5, <2>6
  <1> HIDE DEF E
  <1>6. \A n \in 0..N : n \in E BY <1>1, <1>4, <1>5, InductionUpTo
  <1>7. Right(N) BY <1>1, <1>6 DEF E
  <1> QED BY <1>2, <1>7 DEF IsChoice

\* What is chosen of a list is a list of its entries that are in the set, it is
\* not longer, and has each of them.
LEMMA ChosenEntries ==
    ASSUME NEW T, NEW list \in Seq(T), NEW S
    PROVE  /\ Chosen(list, S) \in Seq(T \cap S)
           /\ Len(Chosen(list, S)) \in 0..Len(list)
           /\ \A i \in 1..Len(Chosen(list, S)) :
                \E j \in 1..Len(list) : Chosen(list, S)[i] = list[j]
           /\ \A j \in 1..Len(list) : list[j] \in S =>
                \E i \in 1..Len(Chosen(list, S)) : Chosen(list, S)[i] = list[j]
  <1>1. PICK c : c = Chosen(list, S) OBVIOUS
  <1>2. IsChoice(c, T, list, S) BY <1>1, ChosenIsChoice
  <1> QED BY <1>1, <1>2 DEF IsChoice
=============================================================================
