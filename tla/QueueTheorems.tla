--------------------------- MODULE QueueTheorems ---------------------------
(***************************************************************************)
(* What taking an id out of a queue does to it, for every queue.           *)
(***************************************************************************)
EXTENDS Queues, TLAPS

(* Removing an id leaves a queue of the same kind (the list comprehension  *)
(* of session_registry.py:207 and :226).                                   *)
LEMMA WithoutType ==
  ASSUME NEW S, NEW q \in Seq(S), NEW t
  PROVE  Without(q, t) \in Seq(S)
<1>1. CASE t \notin Elements(q)
  BY <1>1 DEF Without
<1>2. CASE t \in Elements(q)
  <2>1. Len(q) \in Nat /\ Len(q) > 0
    BY <1>2 DEF Elements
  <2>2. \A i \in 1..Len(q) - 1 : q[i] \in S /\ q[i + 1] \in S
    BY <2>1
  <2> DEFINE n == Len(q) - 1
             w == [i \in 1..n |-> IF i < Position(q, t) THEN q[i] ELSE q[i + 1]]
  <2>3. w \in [1..n -> S]
    BY <2>2
  <2>4. n \in Nat
    BY <2>1
  <2>5. w \in Seq(S)
    BY <2>3, <2>4
  <2> QED
    BY <1>2, <2>5 DEF Without
<1> QED
  BY <1>1, <1>2

(* It keeps the queue free of repetitions, adds nothing and removes the id *)
(* (session_registry.py:207, 226).                                         *)
LEMMA WithoutLaw ==
  ASSUME NEW S, NEW q \in Seq(S), NEW t, NoRepeats(q)
  PROVE  /\ NoRepeats(Without(q, t))
         /\ Elements(Without(q, t)) \subseteq Elements(q)
         /\ t \notin Elements(Without(q, t))
<1>1. CASE t \notin Elements(q)
  BY <1>1 DEF Without
<1>2. CASE t \in Elements(q)
  <2> DEFINE k == Position(q, t)
             n == Len(q) - 1
             w == Without(q, t)
  <2>1. k \in 1..Len(q) /\ q[k] = t
    BY <1>2 DEF Elements, Position
  <2>2. Len(q) \in Nat /\ n \in Nat
    BY <2>1
  <2>3. w = [i \in 1..n |-> IF i < k THEN q[i] ELSE q[i + 1]]
    BY <1>2 DEF Without
  <2>4. w \in Seq(S)
    BY WithoutType
  <2>5. Len(w) = n
    BY <2>2, <2>3, <2>4
  <2> HIDE DEF k, w
  <2>6. \A i \in 1..n : w[i] = IF i < k THEN q[i] ELSE q[i + 1]
    BY <2>3
  <2>7. NoRepeats(w)
    <3> SUFFICES ASSUME NEW i \in 1..n, NEW j \in 1..n, w[i] = w[j]
                 PROVE  i = j
      BY <2>5 DEF NoRepeats
    <3> QED
      BY <2>1, <2>2, <2>6 DEF NoRepeats
  <2>8. Elements(w) \subseteq Elements(q)
    BY <2>1, <2>2, <2>5, <2>6 DEF Elements
  <2>9. \A i \in 1..n : w[i] # t
    BY <2>1, <2>2, <2>6 DEF NoRepeats
  <2> QED
    BY <2>5, <2>7, <2>8, <2>9 DEF w, Elements
<1> QED
  BY <1>1, <1>2

(* Nobody but the id itself is lost (session_registry.py:207, 226).        *)
LEMMA WithoutKeeps ==
  ASSUME NEW S, NEW q \in Seq(S), NEW t
  PROVE  \A x \in Elements(q) : x # t => x \in Elements(Without(q, t))
<1>1. CASE t \notin Elements(q)
  BY <1>1 DEF Without
<1>2. CASE t \in Elements(q)
  <2> DEFINE k == Position(q, t)
             n == Len(q) - 1
             w == Without(q, t)
  <2>1. k \in 1..Len(q) /\ q[k] = t
    BY <1>2 DEF Elements, Position
  <2>2. Len(q) \in Nat /\ n \in Nat
    BY <2>1
  <2>3. w = [i \in 1..n |-> IF i < k THEN q[i] ELSE q[i + 1]]
    BY <1>2 DEF Without
  <2>4. w \in Seq(S)
    BY WithoutType
  <2>5. Len(w) = n
    BY <2>2, <2>3, <2>4
  <2> HIDE DEF k, w
  <2>6. \A i \in 1..n : w[i] = IF i < k THEN q[i] ELSE q[i + 1]
    BY <2>3
  <2>7. ASSUME NEW i \in 1..Len(q), q[i] # t
        PROVE  \E j \in 1..n : w[j] = q[i]
    <3>1. CASE i < k
      <4>1. i \in 1..n /\ w[i] = q[i]
        BY <2>1, <2>2, <2>6, <3>1
      <4> QED
        BY <4>1
    <3>2. CASE ~(i < k)
      <4>1. i # k
        BY <2>1, <2>7
      <4>2. i - 1 \in 1..n /\ ~(i - 1 < k) /\ (i - 1) + 1 = i
        BY <2>1, <2>2, <3>2, <4>1
      <4>3. w[i - 1] = q[i]
        BY <2>6, <4>2
      <4> QED
        BY <4>2, <4>3
    <3> QED
      BY <3>1, <3>2
  <2> QED
    BY <2>5, <2>7 DEF w, Elements
<1> QED
  BY <1>1, <1>2
=============================================================================
