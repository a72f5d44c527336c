--------------------------- MODULE ProgressProofs ---------------------------
(* What TLAPS proves of Progress: how a measure of four numbers is lowered. *)
EXTENDS Progress, Integers, TLAPS

\* Four natural numbers are a measure.
LEMMA FourMeasures ==
  ASSUME NEW a \in Nat, NEW b \in Nat, NEW c \in Nat, NEW d \in Nat
  PROVE  <<a, b, c, d>> \in Measures(4)
BY DEF Measures

\* Which of two measures of four numbers is nearer to the end.
LEMMA NearerOfFour ==
  ASSUME NEW a1, NEW b1, NEW c1, NEW d1, NEW a2, NEW b2, NEW c2, NEW d2,
         \/ a1 < a2
         \/ a1 = a2 /\ b1 < b2
         \/ a1 = a2 /\ b1 = b2 /\ c1 < c2
         \/ a1 = a2 /\ b1 = b2 /\ c1 = c2 /\ d1 < d2
  PROVE  Nearer(<<a1, b1, c1, d1>>, <<a2, b2, c2, d2>>)
<1> DEFINE new == <<a1, b1, c1, d1>>
           old == <<a2, b2, c2, d2>>
<1>1. /\ DOMAIN old = 1..4
      /\ new[1] = a1 /\ new[2] = b1 /\ new[3] = c1 /\ new[4] = d1
      /\ old[1] = a2 /\ old[2] = b2 /\ old[3] = c2 /\ old[4] = d2
      OBVIOUS
<1> SUFFICES Nearer(new, old)
    OBVIOUS
<1> HIDE DEF new, old
<1>2. ASSUME NEW i \in 1..4, new[i] < old[i], \A j \in 1..(i - 1) : new[j] = old[j]
      PROVE  Nearer(new, old)
      BY <1>1, <1>2 DEF Nearer
<1>3. CASE a1 < a2
      BY <1>1, <1>2, <1>3
<1>4. CASE a1 = a2 /\ b1 < b2
  <2>1. \A j \in 1..(2 - 1) : j = 1
        OBVIOUS
  <2> QED BY <1>1, <1>2, <1>4, <2>1
<1>5. CASE a1 = a2 /\ b1 = b2 /\ c1 < c2
  <2>1. \A j \in 1..(3 - 1) : j = 1 \/ j = 2
        OBVIOUS
  <2> QED BY <1>1, <1>2, <1>5, <2>1
<1>6. CASE a1 = a2 /\ b1 = b2 /\ c1 = c2 /\ d1 < d2
  <2>1. \A j \in 1..(4 - 1) : j = 1 \/ j = 2 \/ j = 3
        OBVIOUS
  <2> QED BY <1>1, <1>2, <1>6, <2>1
<1> QED BY <1>3, <1>4, <1>5, <1>6
=============================================================================
