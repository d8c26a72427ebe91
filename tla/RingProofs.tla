----------------------------- MODULE RingProofs -----------------------------
(***************************************************************************)
(* The arithmetic of "position & mask", for every capacity.  Once these    *)
(* lemmas are proved, no other module expands SlotOf.                      *)
(***************************************************************************)
EXTENDS Ring, TLAPS

\* Multiplication by a natural number is monotonic.
LEMMA TimesMonotonic ==
  ASSUME NEW n \in Nat, NEW a \in Int, NEW b \in Int, a <= b
  PROVE  n * a <= n * b
<1> DEFINE d == b - a
<1>1. d \in Nat
  OBVIOUS
<1>2. n * d >= 0
  BY <1>1
<1>3. n * b = n * a + n * d
  OBVIOUS
<1> QED
  BY <1>2, <1>3

\* Every ticket is a number of whole laps and the index of a slot.
LEMMA Laps ==
  ASSUME NEW p \in Nat
  PROVE  \E a \in Nat : p = Capacity * a + SlotOf(p)
<1>1. p \div Capacity \in Nat
  BY CapacityAssumption
<1>2. p = Capacity * (p \div Capacity) + (p % Capacity)
  BY CapacityAssumption
<1> QED
  BY <1>1, <1>2 DEF SlotOf

\* Every ticket lives in a slot of the ring.
LEMMA SlotOfType == \A p \in Nat : SlotOf(p) \in Slots
BY CapacityAssumption DEF SlotOf, Slots

\* Two tickets of one slot are a whole lap apart.
LEMMA SlotOfApart ==
  ASSUME NEW p \in Nat, NEW q \in Nat, p < q, SlotOf(p) = SlotOf(q)
  PROVE  q >= p + Capacity
<1>1. PICK a \in Nat : p = Capacity * a + SlotOf(p)
  BY Laps
<1>2. PICK b \in Nat : q = Capacity * b + SlotOf(q)
  BY Laps
<1>3. SlotOf(p) \in Nat
  BY SlotOfType, CapacityAssumption DEF Slots
<1>4. Capacity * a \in Nat /\ Capacity * b \in Nat
  BY CapacityAssumption
<1>5. ~(b <= a)
  <2>1. b <= a => Capacity * b <= Capacity * a
    BY TimesMonotonic, CapacityAssumption
  <2> QED
    BY <1>1, <1>2, <1>3, <1>4, <2>1
<1>6. Capacity * (a + 1) <= Capacity * b
  BY <1>5, TimesMonotonic, CapacityAssumption
<1>7. Capacity * (a + 1) = Capacity * a + Capacity
  BY CapacityAssumption
<1> QED
  BY <1>1, <1>2, <1>3, <1>4, <1>6, <1>7, CapacityAssumption

\* A ticket and the one a lap later live in the same slot.
LEMMA SlotOfLap ==
  ASSUME NEW p \in Nat
  PROVE  SlotOf(p + Capacity) = SlotOf(p)
<1> DEFINE r == SlotOf(p)
           s == SlotOf(p + Capacity)
<1>1. PICK a \in Nat : p = Capacity * a + r
  BY Laps
<1>2. PICK b \in Nat : p + Capacity = Capacity * b + s
  <2>1. p + Capacity \in Nat
    BY CapacityAssumption
  <2> QED
    BY <2>1, Laps
<1>3. r \in 0 .. Capacity - 1 /\ s \in 0 .. Capacity - 1
  BY SlotOfType, CapacityAssumption DEF Slots
<1> HIDE DEF r, s
<1>4. Capacity * (a + 1) = Capacity * a + Capacity /\ Capacity * a \in Nat
  BY CapacityAssumption
<1>5. Capacity * (a + 2) = Capacity * a + Capacity + Capacity
  BY CapacityAssumption
<1>6. Capacity * b \in Nat
  BY CapacityAssumption
<1>7. ~(b <= a)
  <2>1. b <= a => Capacity * b <= Capacity * a
    BY TimesMonotonic, CapacityAssumption
  <2> QED
    BY <1>1, <1>2, <1>3, <1>4, <1>6, <2>1, CapacityAssumption
<1>8. ~(a + 2 <= b)
  <2>1. a + 2 <= b => Capacity * (a + 2) <= Capacity * b
    BY TimesMonotonic, CapacityAssumption
  <2> QED
    BY <1>1, <1>2, <1>3, <1>4, <1>5, <1>6, <2>1, CapacityAssumption
<1>9. b = a + 1
  BY <1>7, <1>8
<1>10. r = s
  BY <1>1, <1>2, <1>3, <1>4, <1>9, CapacityAssumption
<1> QED
  BY <1>10 DEF r, s

\* A slot's first ticket is its index.
LEMMA SlotOfSmall == \A i \in Slots : SlotOf(i) = i
BY CapacityAssumption DEF SlotOf, Slots

\* A ticket and the next one live in different slots: a slot whose sequence
\* is p + 1 was published by ticket p, it is not free for ticket p + 1.
LEMMA SlotOfNext ==
  ASSUME NEW p \in Nat
  PROVE  SlotOf(p + 1) # SlotOf(p)
BY SlotOfApart, CapacityAssumption
=============================================================================
