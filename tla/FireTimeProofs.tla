--------------------------- MODULE FireTimeProofs ---------------------------
(***************************************************************************)
(* Proofs about deadline_fire_time, for every word size and timebase.      *)
(***************************************************************************)
EXTENDS FireTime, TLAPS

\* A number below the modulus is its own remainder.
LEMMA NoWrap == \A a \in Words : a % Modulus = a
BY FireTimeAssumption DEF Words

\* A remainder is a machine word.
LEMMA Remainder == \A a \in Int : a % Modulus \in Words
BY FireTimeAssumption DEF Words

\* What deadline_fire_time returns, whatever the margin and its rounding.
LEMMA Window ==
  ASSUME NEW n \in Words, NEW d \in Words, NEW share \in Words, NEW minimum \in Words
  PROVE  LET f == DeadlineFireTime(n, d, share, minimum) IN
         /\ f \in Words /\ f >= n
         /\ d > n => f <= d
         /\ f > n => d - f >= minimum
<1> DEFINE f == DeadlineFireTime(n, d, share, minimum)
           advance == IF share < minimum THEN minimum ELSE share
<1>1. CASE d <= n
  <2>1. f = n
    BY <1>1 DEF DeadlineFireTime
  <2> QED BY <1>1, <2>1, FireTimeAssumption DEF Words
<1>2. CASE d > n
  <2>1. d - n \in Words
    BY <1>2, FireTimeAssumption DEF Words
  <2>2. Minus(d, n) = d - n
    BY <2>1, NoWrap DEF Minus
  <2>3. CASE advance >= d - n
    <3>1. f = n
      BY <2>2, <2>3 DEF DeadlineFireTime
    <3> QED BY <1>2, <3>1, FireTimeAssumption DEF Words
  <2>4. CASE ~ (advance >= d - n)
    <3>1. advance \in Words /\ advance >= minimum /\ advance < d - n
      BY <2>4, <1>2, FireTimeAssumption DEF Words
    <3> HIDE DEF advance
    <3>2. d - advance \in Words
      BY <3>1, <1>2, FireTimeAssumption DEF Words
    <3>3. Minus(d, advance) = d - advance
      BY <3>2, NoWrap DEF Minus
    <3>4. f = d - advance
      BY <1>2, <2>2, <2>4, <3>3, FireTimeAssumption DEF DeadlineFireTime, advance, Words
    <3> QED BY <1>2, <3>1, <3>2, <3>4, FireTimeAssumption DEF Words
  <2> QED BY <2>3, <2>4
<1> QED BY <1>1, <1>2, FireTimeAssumption DEF Words

\* Integer division rounds down, by less than one.
LEMMA Quotient ==
  ASSUME NEW a \in Nat, NEW b \in Nat \ {0}
  PROVE  /\ a \div b \in Nat /\ a \div b <= a
         /\ (a \div b) * b <= a /\ (a \div b + 1) * b > a
OBVIOUS

\* The conversion of the minimum margin yields a machine word, and one that
\* is worth the option.
LEMMA Conversion ==
  ASSUME NEW ns \in Words
  PROVE  /\ MinMarginTicks(ns) \in Words
         /\ \/ (MinMarginTicks(ns) + 1) * Numer > ns * Denom
            \/ MinMarginTicks(ns) = Modulus - 1
<1>1. CASE ns > (Modulus - 1) \div Denom
  BY <1>1, FireTimeAssumption DEF MinMarginTicks, Words
<1>2. CASE ~ (ns > (Modulus - 1) \div Denom)
  <2>1. ns * Denom \in Words
    <3>1. PICK q \in Nat : q = (Modulus - 1) \div Denom
      BY Quotient, FireTimeAssumption
    <3>2. q * Denom <= Modulus - 1 /\ ns <= q /\ ns \in Nat
      BY <1>2, <3>1, Quotient, FireTimeAssumption DEF Words
    <3>3. PICK r \in Nat : q = ns + r
      <4>1. q - ns \in Nat /\ q = ns + (q - ns)
        BY <3>2
      <4> QED BY <4>1
    <3>4. q * Denom = ns * Denom + r * Denom /\ r * Denom \in Nat /\ ns * Denom \in Nat
      BY <3>2, <3>3, FireTimeAssumption
    <3> QED BY <3>2, <3>4, FireTimeAssumption DEF Words
  <2>2. MinMarginTicks(ns) = (ns * Denom) \div Numer
    BY <1>2, <2>1, NoWrap DEF MinMarginTicks, Product
  <2> QED BY <2>1, <2>2, Quotient, FireTimeAssumption DEF Words
<1> QED BY <1>1, <1>2

\* The facts about the fire time and the margin, and the types they need.
FireTimeInv == TypeOK /\ FiresInWindow /\ MarginSurvivesConversion

\* All of it holds at every moment.
THEOREM FireTimeInvariant == Spec => []FireTimeInv
<1>1. Init => FireTimeInv
  BY Conversion, FireTimeAssumption
     DEF Init, FireTimeInv, TypeOK, FiresInWindow, MarginSurvivesConversion, Words
<1>2. FireTimeInv /\ [Next]_vars => FireTimeInv'
  <2> SUFFICES ASSUME FireTimeInv, [Next]_vars PROVE FireTimeInv'
    OBVIOUS
  <2>1. CASE Next
    <3>1. PICK n \in Words, d \in Words, share \in Words : HandleAuth(n, d, share)
      BY <2>1 DEF Next
    <3>2. min_margin_ticks \in Words
      BY DEF FireTimeInv, TypeOK
    <3>3. /\ fire_at' \in Words /\ fire_at' >= n
          /\ d > n => fire_at' <= d
          /\ fire_at' > n => d - fire_at' >= min_margin_ticks
      BY <3>1, <3>2, Window DEF HandleAuth
    <3>4. now' = n /\ deadline' = d /\ UNCHANGED <<min_margin_ns, min_margin_ticks>>
      BY <3>1 DEF HandleAuth
    <3> QED BY <3>3, <3>4
            DEF FireTimeInv, TypeOK, FiresInWindow, MarginSurvivesConversion
  <2>2. CASE UNCHANGED vars
    BY <2>2
       DEF vars, FireTimeInv, TypeOK, FiresInWindow, MarginSurvivesConversion
  <2> QED BY <2>1, <2>2
<1> QED BY <1>1, <1>2, PTL DEF Spec

\* deadline_fire_time asks for the answer now, or at a later time that leaves
\* the minimum margin before the deadline.
THEOREM InWindow == Spec => []FiresInWindow
BY FireTimeInvariant, PTL DEF FireTimeInv

\* client_initialize never shortens the minimum margin by an overflow.
THEOREM ConversionSafe == Spec => []MarginSurvivesConversion
BY FireTimeInvariant, PTL DEF FireTimeInv
=============================================================================
