------------------------- MODULE DeadlineHeapProofs -------------------------
(***************************************************************************)
(* Proofs about the heap of the watchdog, for every capacity, every range  *)
(* of times and every set of tickets.                                      *)
(***************************************************************************)
EXTENDS DeadlineHeap, WellFoundedInduction, FiniteSetTheorems, TLAPS

\* The parent of a cell is a cell before it, and the children of i are the
\* two cells heap_down looks at.
LEMMA ParentFacts ==
  ASSUME NEW k \in Nat, k > 0
  PROVE  /\ Parent(k) \in Nat /\ Parent(k) < k
         /\ \A i \in Nat : Parent(k) = i <=> k = Left(i) \/ k = Right(i)
BY DEF Parent, Left, Right

\* The initial, empty heap satisfies the invariant.
LEMMA InitInv == Init => HeapInv
<1> SUFFICES ASSUME Init PROVE HeapInv
  OBVIOUS
<1>1. Cells = {}
  BY DEF Init, Cells
<1>2. TypeOK
  BY <1>1, HeapAssumption DEF Init, TypeOK, Slots, NoIndex, Times
<1>3. IndexInv
  BY <1>1 DEF Init, IndexInv
<1>4. OrderInv /\ AroundInv /\ WalkInv
  BY <1>1 DEF Init, OrderInv, AroundInv, WalkInv
<1> QED BY <1>2, <1>3, <1>4 DEF HeapInv

\* heap_swap exchanges two different cells and keeps every slot's index right.
LEMMA SwapInv ==
  ASSUME TypeOK, IndexInv, NEW i \in Cells, NEW j \in Cells, i # j, Swap(i, j),
         UNCHANGED heap_size
  PROVE  /\ heap' \in [Cells -> Entries]
         /\ watchdog_index' \in [Slots -> Slots \cup {NoIndex}]
         /\ IndexInv'
         /\ heap'[i] = heap[j] /\ heap'[j] = heap[i]
         /\ \A k \in Cells : k # i /\ k # j => heap'[k] = heap[k]
<1>1. /\ heap \in [Cells -> Entries]
      /\ Cells \subseteq Slots /\ Cells' = Cells
  BY HeapAssumption DEF TypeOK, Cells, Slots
<1>2. /\ heap' \in [Cells -> Entries]
      /\ heap'[i] = heap[j] /\ heap'[j] = heap[i]
      /\ \A k \in Cells : k # i /\ k # j => heap'[k] = heap[k]
  BY <1>1 DEF Swap
<1>3. \A k \in Cells : heap[k].slot \in Slots
  BY <1>1 DEF Entries
<1>4. \A k, l \in Cells : k # l => heap[k].slot # heap[l].slot
  BY DEF IndexInv
<1>5. watchdog_index' \in [Slots -> Slots \cup {NoIndex}]
  BY <1>1, <1>3 DEF TypeOK, Swap
<1>6. /\ watchdog_index'[heap[j].slot] = i /\ watchdog_index'[heap[i].slot] = j
      /\ \A s \in Slots : s # heap[i].slot /\ s # heap[j].slot =>
           watchdog_index'[s] = watchdog_index[s]
  BY <1>3, <1>4 DEF TypeOK, Swap
<1>7. \A k \in Cells : watchdog_index'[heap'[k].slot] = k
  <2> SUFFICES ASSUME NEW k \in Cells PROVE watchdog_index'[heap'[k].slot] = k
    OBVIOUS
  <2>1. CASE k = i
    BY <2>1, <1>2, <1>6
  <2>2. CASE k = j
    BY <2>2, <1>2, <1>6
  <2>3. CASE k # i /\ k # j
    <3>1. heap'[k] = heap[k] /\ watchdog_index[heap[k].slot] = k
      BY <2>3, <1>2 DEF IndexInv
    <3>2. watchdog_index'[heap[k].slot] = watchdog_index[heap[k].slot]
      BY <2>3, <1>3, <1>4, <1>6
    <3> QED BY <3>1, <3>2
  <2> QED BY <2>1, <2>2, <2>3
<1>8. \A s \in Slots : watchdog_index'[s] # NoIndex =>
        watchdog_index'[s] \in Cells /\ heap'[watchdog_index'[s]].slot = s
  <2> SUFFICES ASSUME NEW s \in Slots, watchdog_index'[s] # NoIndex
               PROVE  watchdog_index'[s] \in Cells /\ heap'[watchdog_index'[s]].slot = s
    OBVIOUS
  <2>1. CASE s = heap[i].slot
    BY <2>1, <1>2, <1>6
  <2>2. CASE s = heap[j].slot
    BY <2>2, <1>2, <1>6
  <2>3. CASE s # heap[i].slot /\ s # heap[j].slot
    <3>1. watchdog_index'[s] = watchdog_index[s]
      BY <2>3, <1>6
    <3>2. watchdog_index[s] \in Cells /\ heap[watchdog_index[s]].slot = s
      BY <3>1 DEF IndexInv
    <3> QED BY <3>1, <3>2, <2>3, <1>2
  <2> QED BY <2>1, <2>2, <2>3
<1>9. IndexInv'
  BY <1>1, <1>7, <1>8 DEF IndexInv
<1> QED BY <1>2, <1>5, <1>9

-----------------------------------------------------------------------------
\* A step up keeps the invariant: the parent that comes down fires no later
\* than the children it gets.
LEMMA UpSwapInv == HeapInv /\ UpSwap => HeapInv'
<1> SUFFICES ASSUME HeapInv, UpSwap PROVE HeapInv'
  OBVIOUS
<1> PICK i, p : i = index /\ p = Parent(index)
  OBVIOUS
<1>1. /\ TypeOK /\ IndexInv /\ OrderInv /\ AroundInv /\ WalkInv
      /\ pc = "up" /\ i > 0 /\ i \in Cells /\ Cells \subseteq Nat /\ Cells' = Cells
      /\ heap_size \in Nat
  BY HeapAssumption DEF HeapInv, UpSwap, WalkInv, Cells, TypeOK
<1>2. p \in Cells /\ p < i /\ p # i
  BY <1>1, ParentFacts DEF Cells
<1>3. Swap(p, i) /\ Fire(p) > Fire(i) /\ index' = p
  BY DEF UpSwap
<1>4. /\ heap' \in [Cells -> Entries]
      /\ watchdog_index' \in [Slots -> Slots \cup {NoIndex}]
      /\ IndexInv'
      /\ heap'[p] = heap[i] /\ heap'[i] = heap[p]
      /\ \A k \in Cells : k # p /\ k # i => heap'[k] = heap[k]
  BY <1>1, <1>2, <1>3, SwapInv DEF UpSwap
<1>5. \A k \in Cells : Fire(k) \in Nat /\ Fire(k)' \in Nat
  BY <1>1, <1>4, HeapAssumption DEF Fire, TypeOK, Entries, Times
<1>6. /\ Fire(p)' = Fire(i) /\ Fire(i)' = Fire(p)
      /\ \A k \in Cells : k # p /\ k # i => Fire(k)' = Fire(k)
  BY <1>4 DEF Fire
<1>7. TypeOK'
  BY <1>1, <1>2, <1>3, <1>4, HeapAssumption DEF TypeOK, UpSwap, Cells, Slots
<1>8. OrderInv'
  <2> SUFFICES ASSUME NEW k \in Cells \ {0}, k # p, Parent(k) # p
               PROVE  Fire(Parent(k))' <= Fire(k)'
    BY <1>1, <1>3 DEF OrderInv, UpSwap
  <2>1. Parent(k) \in Cells /\ Parent(k) < k
    BY <1>1, ParentFacts DEF Cells
  <2>2. CASE Parent(k) = i
    <3>1. Fire(p) <= Fire(k)
      BY <2>2, <1>1 DEF AroundInv
    <3> QED BY <3>1, <2>1, <2>2, <1>6, <1>2
  <2>3. CASE Parent(k) # i
    <3>1. k # i
      OBVIOUS
    <3>2. Fire(Parent(k)) <= Fire(k)
      BY <3>1, <2>3, <1>1 DEF OrderInv
    <3> QED BY <3>1, <3>2, <2>1, <2>3, <1>6
  <2> QED BY <2>2, <2>3
<1>9. AroundInv'
  <2> SUFFICES ASSUME p > 0, NEW k \in Cells \ {0}, Parent(k) = p
               PROVE  Fire(Parent(p))' <= Fire(k)'
    BY <1>1, <1>3 DEF AroundInv, UpSwap
  <2>1. /\ Parent(p) \in Cells /\ Parent(p) < p
    BY <1>1, <1>2, ParentFacts DEF Cells
  <2>2. k # p
    BY <1>1, ParentFacts
  <2>3. Fire(Parent(p))' = Fire(Parent(p)) /\ Fire(Parent(p)) <= Fire(p)
    <3>1. p \in Cells \ {0} /\ p # i /\ Parent(p) # i
      BY <1>1, <1>2, <2>1 DEF Cells
    <3>2. Fire(Parent(p)) <= Fire(p)
      BY <3>1, <1>1 DEF OrderInv
    <3>3. Parent(p) # p
      BY <1>1, <1>2, <2>1
    <3> QED BY <3>1, <3>2, <3>3, <1>6, <2>1
  <2>4. CASE k = i
    BY <2>3, <2>4, <1>6
  <2>5. CASE k # i
    <3>1. Fire(p) <= Fire(k)
      BY <2>5, <1>1, <1>2 DEF OrderInv
    <3> QED BY <3>1, <2>1, <2>2, <2>3, <2>5, <1>2, <1>5, <1>6
  <2> QED BY <2>4, <2>5
<1>10. WalkInv'
  BY <1>1, <1>2, <1>3, <1>4 DEF WalkInv, UpSwap
<1> QED BY <1>4, <1>7, <1>8, <1>9, <1>10 DEF HeapInv

\* The walk up ends where its entry is in order with its parent.
LEMMA UpDoneInv == HeapInv /\ UpDone => HeapInv'
<1> SUFFICES ASSUME HeapInv, UpDone PROVE HeapInv'
  OBVIOUS
<1>1. /\ TypeOK /\ IndexInv /\ OrderInv /\ AroundInv /\ WalkInv
      /\ index \in Cells /\ heap[index].slot = moved /\ Cells' = Cells
  BY DEF HeapInv, UpDone, WalkInv, Cells
<1>2. index' = index
  BY <1>1 DEF UpDone, IndexInv
<1>3. TypeOK'
  BY <1>1, <1>2 DEF TypeOK, UpDone, Cells
<1>4. IndexInv'
  BY <1>1 DEF IndexInv, UpDone
<1>5. OrderInv'
  <2>1. \A k \in Cells \ {0} : Fire(Parent(k)) <= Fire(k) \/ Parent(k) = index
    <3> SUFFICES ASSUME NEW k \in Cells \ {0}, Parent(k) # index
                 PROVE  Fire(Parent(k)) <= Fire(k)
      OBVIOUS
    <3>1. CASE k = index
      BY <3>1, <1>1, HeapAssumption DEF UpDone, Cells, TypeOK
    <3>2. CASE k # index
      BY <3>2, <1>1 DEF OrderInv, UpDone
    <3> QED BY <3>1, <3>2
  <2>2. \A k : Fire(k)' = Fire(k)
    BY DEF Fire, UpDone
  <2> QED BY <1>1, <1>2, <2>1, <2>2 DEF OrderInv, UpDone
<1>6. AroundInv'
  BY <1>1, <1>2 DEF AroundInv, UpDone, Fire
<1>7. WalkInv'
  BY <1>1, <1>2 DEF WalkInv, UpDone
<1> QED BY <1>3, <1>4, <1>5, <1>6, <1>7 DEF HeapInv

\* A step down keeps the invariant: the child that comes up fires no later
\* than its sibling.
LEMMA DownSwapInv == HeapInv /\ DownSwap => HeapInv'
<1> SUFFICES ASSUME HeapInv, DownSwap PROVE HeapInv'
  OBVIOUS
<1> PICK i, c : i = index /\ c = Smallest(index)
  OBVIOUS
<1>1. /\ TypeOK /\ IndexInv /\ OrderInv /\ AroundInv /\ WalkInv
      /\ pc = "down" /\ i \in Cells /\ Cells \subseteq Nat /\ Cells' = Cells
      /\ heap_size \in Nat
  BY HeapAssumption DEF HeapInv, DownSwap, WalkInv, Cells, TypeOK
<1>2. c \in Cells /\ c # i /\ c > 0 /\ Parent(c) = i
  <2>1. c = Left(i) \/ c = Right(i)
    BY DEF Smallest
  <2>2. c \in Nat /\ c > 0 /\ c < heap_size /\ c > i
    BY <1>1, <2>1 DEF Smallest, DownSwap, Left, Right
  <2>3. Parent(c) = i
    BY <1>1, <2>1, <2>2, ParentFacts
  <2> QED BY <1>1, <2>2, <2>3 DEF Cells
<1>3. Swap(i, c) /\ Fire(i) > Fire(c) /\ index' = c
  BY DEF DownSwap
<1>4. /\ heap' \in [Cells -> Entries]
      /\ watchdog_index' \in [Slots -> Slots \cup {NoIndex}]
      /\ IndexInv'
      /\ heap'[c] = heap[i] /\ heap'[i] = heap[c]
      /\ \A k \in Cells : k # c /\ k # i => heap'[k] = heap[k]
  BY <1>1, <1>2, <1>3, SwapInv DEF DownSwap
<1>5. \A k \in Cells : Fire(k) \in Nat /\ Fire(k)' \in Nat
  BY <1>1, <1>4, HeapAssumption DEF Fire, TypeOK, Entries, Times
<1>6. /\ Fire(c)' = Fire(i) /\ Fire(i)' = Fire(c)
      /\ \A k \in Cells : k # c /\ k # i => Fire(k)' = Fire(k)
  BY <1>4 DEF Fire
<1>7. \A k \in Cells \ {0} : Parent(k) = i => Fire(c) <= Fire(k)
  <2> SUFFICES ASSUME NEW k \in Cells \ {0}, Parent(k) = i
               PROVE  Fire(c) <= Fire(k)
    OBVIOUS
  <2>1. k \in Nat /\ k > 0 /\ k < heap_size
    BY <1>1 DEF Cells
  <2>2. k = Left(i) \/ k = Right(i)
    BY <1>1, <2>1, ParentFacts
  <2>3. Left(i) \in Cells
    BY <1>1 DEF DownSwap, Left, Cells
  <2> QED BY <2>1, <2>2, <2>3, <1>2, <1>5 DEF Smallest
<1>8. TypeOK'
  BY <1>1, <1>2, <1>3, <1>4, HeapAssumption DEF TypeOK, DownSwap, Cells, Slots
<1>9. OrderInv'
  <2> SUFFICES ASSUME NEW k \in Cells \ {0}, Parent(k) # c
               PROVE  Fire(Parent(k))' <= Fire(k)'
    BY <1>1, <1>3 DEF OrderInv, DownSwap
  <2>1. Parent(k) \in Cells /\ Parent(k) # k
    BY <1>1, ParentFacts DEF Cells
  <2>2. CASE Parent(k) = i
    <3>1. CASE k = c
      BY <3>1, <2>2, <1>3, <1>5, <1>6, <1>2, <1>1
    <3>2. CASE k # c
      BY <3>2, <2>1, <2>2, <1>6, <1>7
    <3> QED BY <3>1, <3>2
  <2>3. CASE Parent(k) # i
    <3>1. k # c
      BY <2>3, <1>2
    <3>2. Fire(Parent(k)) <= Fire(k) /\ Fire(Parent(k))' = Fire(Parent(k))
      BY <2>1, <2>3, <1>1, <1>6 DEF OrderInv
    <3>3. CASE k = i
      <4>1. Fire(Parent(i)) <= Fire(c)
        BY <3>3, <1>1, <1>2 DEF AroundInv
      <4> QED BY <4>1, <3>2, <3>3, <1>6
    <3>4. CASE k # i
      BY <3>1, <3>2, <3>4, <1>6
    <3> QED BY <3>3, <3>4
  <2> QED BY <2>2, <2>3
<1>10. AroundInv'
  <2> SUFFICES ASSUME NEW k \in Cells \ {0}, Parent(k) = c
               PROVE  Fire(Parent(c))' <= Fire(k)'
    BY <1>1, <1>3 DEF AroundInv, DownSwap
  <2>1. k # c /\ k # i
    BY <1>1, <1>2, ParentFacts
  <2>2. Fire(c) <= Fire(k)
    BY <1>1, <1>2 DEF OrderInv
  <2> QED BY <2>1, <2>2, <1>2, <1>6
<1>11. WalkInv'
  BY <1>1, <1>2, <1>3, <1>4 DEF WalkInv, DownSwap
<1> QED BY <1>4, <1>8, <1>9, <1>10, <1>11 DEF HeapInv

\* The walk down ends where its entry is in order with its children.
LEMMA DownDoneInv == HeapInv /\ DownDone => HeapInv'
<1> SUFFICES ASSUME HeapInv, DownDone PROVE HeapInv'
  OBVIOUS
<1>1. /\ TypeOK /\ IndexInv /\ OrderInv /\ AroundInv /\ WalkInv
      /\ index \in Cells /\ Cells \subseteq Nat /\ Cells' = Cells /\ heap_size \in Nat
      /\ \A k \in Cells : Fire(k) \in Nat
  BY HeapAssumption DEF HeapInv, DownDone, WalkInv, Cells, TypeOK, Fire, Entries, Times
<1>2. TypeOK' /\ IndexInv'
  BY <1>1, HeapAssumption DEF TypeOK, IndexInv, DownDone, Cells, Slots
<1>3. \A k \in Cells \ {0} : Fire(Parent(k)) <= Fire(k)
  <2> SUFFICES ASSUME NEW k \in Cells \ {0}, Parent(k) = index
               PROVE  Fire(index) <= Fire(k)
    BY <1>1 DEF OrderInv, DownDone
  <2>1. k \in Nat /\ k > 0 /\ k < heap_size
    BY <1>1 DEF Cells
  <2>2. k = Left(index) \/ k = Right(index)
    BY <1>1, <2>1, ParentFacts
  <2>3. Left(index) \in Cells
    BY <1>1, <2>1, <2>2 DEF Left, Right, Cells
  <2>4. Fire(index) <= Fire(Smallest(index))
    BY <1>1, <2>3 DEF DownDone, Cells
  <2>5. Fire(index) \in Nat /\ Fire(Left(index)) \in Nat /\ Fire(k) \in Nat
    BY <1>1, <2>3
  <2>6. CASE k = Left(index)
    <3>1. Right(index) < heap_size => Fire(Right(index)) \in Nat
      BY <1>1 DEF Right, Cells
    <3> QED BY <3>1, <2>1, <2>4, <2>5, <2>6 DEF Smallest
  <2>7. CASE k = Right(index)
    BY <2>1, <2>4, <2>5, <2>7 DEF Smallest
  <2> QED BY <2>2, <2>6, <2>7
<1>4. OrderInv'
  BY <1>1, <1>3 DEF OrderInv, DownDone, Fire
<1>5. AroundInv' /\ WalkInv'
  BY <1>1 DEF AroundInv, WalkInv, DownDone, TypeOK
<1> QED BY <1>2, <1>4, <1>5 DEF HeapInv

-----------------------------------------------------------------------------
\* heap_set overwrites an entry of the slot; the order around it is what it
\* was, so the new entry may start its walk.
LEMMA SetAgainInv == ASSUME HeapInv, NEW e \in Entries, SetAgain(e) PROVE HeapInv'
<1> PICK i : i = watchdog_index[e.slot]
  OBVIOUS
<1>1. /\ TypeOK /\ IndexInv /\ OrderInv
      /\ pc = "collect" /\ i \in Cells /\ heap[i].slot = e.slot
      /\ Cells \subseteq Nat /\ Cells' = Cells
      /\ e.slot \in Slots
  BY HeapAssumption DEF HeapInv, SetAgain, HasEntry, Cells, TypeOK, Entries
<1>2. /\ heap' = [heap EXCEPT ![i] = e]
      /\ pc' = "up" /\ index' = i /\ moved' = e.slot /\ back' = "collect"
      /\ UNCHANGED <<heap_size, watchdog_index, now>>
  BY DEF SetAgain, StartWalk
<1>3. /\ heap' \in [Cells -> Entries] /\ heap'[i] = e
      /\ \A k \in Cells : k # i => heap'[k] = heap[k]
      /\ \A k \in Cells : heap'[k].slot = heap[k].slot
  BY <1>1, <1>2 DEF TypeOK
<1>4. TypeOK'
  BY <1>1, <1>2, <1>3, HeapAssumption DEF TypeOK, Cells, Slots
<1>5. IndexInv'
  BY <1>1, <1>2, <1>3 DEF IndexInv
<1>6. \A k \in Cells \ {0} : Fire(Parent(k)) <= Fire(k)
  BY <1>1 DEF OrderInv
<1>7. \A k \in Cells \ {0} : Parent(k) \in Cells /\ Parent(k) < k
  BY <1>1, ParentFacts, HeapAssumption DEF Cells, TypeOK
<1>8. \A k \in Cells : k # i => Fire(k)' = Fire(k)
  BY <1>3 DEF Fire
<1>9. OrderInv'
  BY <1>1, <1>2, <1>6, <1>7, <1>8 DEF OrderInv
<1>10. AroundInv'
  <2> SUFFICES ASSUME i > 0, NEW k \in Cells \ {0}, Parent(k) = i
               PROVE  Fire(Parent(i))' <= Fire(k)'
    BY <1>1, <1>2 DEF AroundInv
  <2>1. /\ Parent(i) \in Cells /\ Parent(i) < i /\ Parent(i) # i
        /\ k # i /\ i \in Cells \ {0}
    BY <1>1, <1>7
  <2>2. Fire(Parent(i)) <= Fire(i) /\ Fire(i) <= Fire(k)
    BY <1>6, <2>1
  <2>3. Fire(Parent(i)) \in Nat /\ Fire(i) \in Nat /\ Fire(k) \in Nat
    <3>1. \A l \in Cells : Fire(l) \in Nat
      BY <1>1, HeapAssumption DEF TypeOK, Fire, Entries, Times
    <3> QED BY <3>1, <1>1, <2>1
  <2> QED BY <2>1, <2>2, <2>3, <1>8
<1>11. WalkInv'
  BY <1>1, <1>2, <1>3 DEF WalkInv
<1> QED BY <1>4, <1>5, <1>9, <1>10, <1>11 DEF HeapInv

\* heap_set appends the entry of a slot that has none, at a cell without
\* children.
LEMMA SetNewInv == ASSUME HeapInv, NEW e \in Entries, SetNew(e) PROVE HeapInv'
<1> PICK n : n = heap_size
  OBVIOUS
<1>1. /\ TypeOK /\ IndexInv /\ OrderInv
      /\ pc = "collect" /\ n \in Nat /\ n < Capacity /\ Cells = 0 .. n - 1 /\ Cells' = 0 .. n
      /\ n \in Slots /\ e.slot \in Slots
      /\ watchdog_index[e.slot] = NoIndex
  <2>1. ~ HasEntry(e.slot) /\ e.slot \in Slots
    BY DEF SetNew, Entries
  <2>2. watchdog_index[e.slot] = NoIndex
    BY <2>1 DEF HeapInv, IndexInv, HasEntry
  <2> QED BY <2>1, <2>2, HeapAssumption DEF HeapInv, SetNew, Cells, TypeOK, Slots
<1>2. /\ heap' = [k \in 0 .. n |-> IF k = n THEN e ELSE heap[k]]
      /\ watchdog_index' = [watchdog_index EXCEPT ![e.slot] = n]
      /\ pc' = "up" /\ index' = n /\ moved' = e.slot /\ back' = "collect"
      /\ heap_size' = n + 1 /\ UNCHANGED now
  BY DEF SetNew, StartWalk
<1>3. \A k \in Cells : heap[k] \in Entries /\ heap[k].slot \in Slots /\ heap[k].slot # e.slot
  <2> TAKE k \in Cells
  <2>1. heap[k] \in Entries /\ heap[k].slot \in Slots
    BY <1>1 DEF TypeOK, Entries
  <2>2. watchdog_index[heap[k].slot] = k /\ k # NoIndex
    BY <1>1 DEF IndexInv, NoIndex
  <2> QED BY <2>1, <2>2, <1>1
<1>4. /\ heap' \in [0 .. n -> Entries] /\ heap'[n] = e
      /\ \A k \in Cells : heap'[k] = heap[k] /\ k # n
  BY <1>1, <1>2, <1>3
<1>5. /\ watchdog_index' \in [Slots -> Slots \cup {NoIndex}]
      /\ watchdog_index'[e.slot] = n
      /\ \A s \in Slots : s # e.slot => watchdog_index'[s] = watchdog_index[s]
  BY <1>1, <1>2 DEF TypeOK
<1>6. TypeOK'
  BY <1>1, <1>2, <1>4, <1>5, HeapAssumption DEF TypeOK, Slots
<1>7. IndexInv'
  <2>1. \A k \in 0 .. n : watchdog_index'[heap'[k].slot] = k
    <3> TAKE k \in 0 .. n
    <3>1. CASE k = n
      BY <3>1, <1>4, <1>5
    <3>2. CASE k # n
      <4>1. k \in Cells
        BY <3>2, <1>1
      <4>2. watchdog_index[heap[k].slot] = k
        BY <4>1, <1>1 DEF IndexInv
      <4> QED BY <4>1, <4>2, <1>3, <1>4, <1>5
    <3> QED BY <3>1, <3>2
  <2>2. \A s \in Slots : watchdog_index'[s] # NoIndex =>
          watchdog_index'[s] \in 0 .. n /\ heap'[watchdog_index'[s]].slot = s
    <3> SUFFICES ASSUME NEW s \in Slots, watchdog_index'[s] # NoIndex
                 PROVE  watchdog_index'[s] \in 0 .. n /\ heap'[watchdog_index'[s]].slot = s
      OBVIOUS
    <3>1. CASE s = e.slot
      BY <3>1, <1>1, <1>4, <1>5
    <3>2. CASE s # e.slot
      <4>1. watchdog_index'[s] = watchdog_index[s]
        BY <3>2, <1>5
      <4>2. watchdog_index[s] \in Cells /\ heap[watchdog_index[s]].slot = s
        BY <4>1, <1>1 DEF IndexInv
      <4>3. watchdog_index[s] \in 0 .. n
        BY <4>2, <1>1
      <4> QED BY <4>1, <4>2, <4>3, <1>4
    <3> QED BY <3>1, <3>2
  <2> QED BY <1>1, <2>1, <2>2 DEF IndexInv
<1>8. \A k \in (0 .. n) \ {0} : Parent(k) \in Cells /\ Parent(k) # n
  <2> TAKE k \in (0 .. n) \ {0}
  <2>1. k \in Nat /\ k > 0 /\ k <= n
    BY <1>1
  <2> QED BY <2>1, <1>1, ParentFacts
<1>9. OrderInv'
  <2> SUFFICES ASSUME NEW k \in (0 .. n) \ {0}, k # n
               PROVE  Fire(Parent(k))' <= Fire(k)'
    BY <1>1, <1>2 DEF OrderInv
  <2>1. k \in Cells \ {0}
    BY <1>1
  <2>2. Fire(Parent(k)) <= Fire(k)
    BY <2>1, <1>1 DEF OrderInv
  <2> QED BY <2>1, <2>2, <1>4, <1>8 DEF Fire
<1>10. AroundInv'
  BY <1>1, <1>2, <1>8 DEF AroundInv
<1>11. WalkInv'
  BY <1>1, <1>2, <1>4 DEF WalkInv
<1> QED BY <1>6, <1>7, <1>9, <1>10, <1>11 DEF HeapInv

\* heap_remove of the only entry leaves an empty heap.
LEMMA PopLastInv == ASSUME HeapInv, PopLast PROVE HeapInv'
<1>1. /\ TypeOK /\ IndexInv /\ heap_size = 1 /\ Cells = {0} /\ Cells' = {}
      /\ heap[0].slot \in Slots /\ pc = "due"
  BY HeapAssumption DEF HeapInv, PopLast, Cells, TypeOK, Entries
<1>2. TypeOK'
  <2>1. heap' \in [Cells' -> Entries]
    BY <1>1 DEF PopLast
  <2>2. now' \in Times
    BY <1>1, HeapAssumption DEF PopLast, TypeOK, Times
  <2> QED BY <2>1, <2>2, <1>1, HeapAssumption DEF TypeOK, PopLast, walkVars
<1>3. \A s \in Slots : watchdog_index'[s] = NoIndex
  <2> TAKE s \in Slots
  <2>1. CASE s = heap[0].slot
    BY <2>1, <1>1 DEF PopLast, TypeOK
  <2>2. CASE s # heap[0].slot
    <3>1. watchdog_index[s] = NoIndex
      BY <2>2, <1>1 DEF IndexInv
    <3> QED BY <3>1, <2>2, <1>1 DEF PopLast, TypeOK
  <2> QED BY <2>1, <2>2
<1>4. IndexInv'
  BY <1>1, <1>3 DEF IndexInv
<1>5. OrderInv' /\ AroundInv' /\ WalkInv'
  BY <1>1 DEF OrderInv, AroundInv, WalkInv, PopLast
<1> QED BY <1>2, <1>4, <1>5 DEF HeapInv

\* heap_remove moves the last entry to the root; everything below the root
\* stays ordered, and the last cell had no children.
LEMMA PopRootInv == ASSUME HeapInv, PopRoot PROVE HeapInv'
<1> PICK n, r, s : n = heap_size - 1 /\ r = heap[0].slot /\ s = heap[n].slot
  OBVIOUS
<1>1. /\ TypeOK /\ IndexInv /\ OrderInv
      /\ pc = "due" /\ n \in Nat /\ n > 0 /\ n < Capacity
      /\ Cells = 0 .. n /\ Cells' = 0 .. n - 1 /\ heap \in [Cells -> Entries]
  BY HeapAssumption DEF HeapInv, PopRoot, Cells, TypeOK
<1>2. /\ r \in Slots /\ s \in Slots /\ r # s
      /\ watchdog_index[r] = 0 /\ watchdog_index[s] = n
      /\ heap[n] \in Entries
  BY <1>1 DEF IndexInv, Entries
<1>3. /\ heap' = [k \in 0 .. n - 1 |-> IF k = 0 THEN heap[n] ELSE heap[k]]
      /\ watchdog_index' = [watchdog_index EXCEPT ![r] = NoIndex, ![s] = 0]
      /\ pc' = "up" /\ index' = 0 /\ moved' = s /\ back' = "due"
      /\ heap_size' = n /\ now' \in now .. MaxTime
  BY DEF PopRoot, StartWalk
<1>4. /\ heap' \in [0 .. n - 1 -> Entries] /\ heap'[0] = heap[n]
      /\ \A k \in 0 .. n - 1 : k # 0 => heap'[k] = heap[k]
  BY <1>1, <1>2, <1>3
<1>5. /\ watchdog_index' \in [Slots -> Slots \cup {NoIndex}]
      /\ watchdog_index'[r] = NoIndex /\ watchdog_index'[s] = 0
      /\ \A t \in Slots : t # r /\ t # s => watchdog_index'[t] = watchdog_index[t]
  BY <1>1, <1>2, <1>3 DEF TypeOK, Slots
<1>6. TypeOK'
  <2>1. now' \in Times
    BY <1>1, <1>3, HeapAssumption DEF TypeOK, Times
  <2>2. heap_size' \in 0 .. Capacity /\ index' \in Slots /\ moved' \in Slots
    BY <1>1, <1>2, <1>3, HeapAssumption DEF Slots
  <2>3. heap' \in [Cells' -> Entries]
    BY <1>1, <1>4
  <2>4. pc' \in {"collect", "due", "up", "down"} /\ back' \in {"collect", "due"}
    BY <1>3
  <2> QED BY <2>1, <2>2, <2>3, <2>4, <1>5 DEF TypeOK
<1>7. IndexInv'
  <2>1. \A k \in 0 .. n - 1 : watchdog_index'[heap'[k].slot] = k
    <3> TAKE k \in 0 .. n - 1
    <3>1. CASE k = 0
      BY <3>1, <1>4, <1>5
    <3>2. CASE k # 0
      <4>1. k \in Cells /\ k # n /\ heap[k].slot \in Slots
        BY <1>1 DEF Entries
      <4>2. watchdog_index[heap[k].slot] = k
        BY <4>1, <1>1 DEF IndexInv
      <4>3. heap[k].slot # r /\ heap[k].slot # s
        BY <3>2, <4>1, <4>2, <1>2
      <4> QED BY <3>2, <4>1, <4>2, <4>3, <1>4, <1>5
    <3> QED BY <3>1, <3>2
  <2>2. \A t \in Slots : watchdog_index'[t] # NoIndex =>
          watchdog_index'[t] \in 0 .. n - 1 /\ heap'[watchdog_index'[t]].slot = t
    <3> SUFFICES ASSUME NEW t \in Slots, watchdog_index'[t] # NoIndex
                 PROVE  watchdog_index'[t] \in 0 .. n - 1 /\ heap'[watchdog_index'[t]].slot = t
      OBVIOUS
    <3>1. CASE t = s
      BY <3>1, <1>1, <1>4, <1>5
    <3>2. CASE t # s
      <4>1. t # r /\ watchdog_index'[t] = watchdog_index[t]
        BY <3>2, <1>5
      <4>2. watchdog_index[t] \in Cells /\ heap[watchdog_index[t]].slot = t
        BY <4>1, <1>1 DEF IndexInv
      <4>3. watchdog_index[t] # 0 /\ watchdog_index[t] # n
        BY <4>1, <4>2, <3>2
      <4>4. watchdog_index[t] \in 0 .. n - 1
        BY <4>2, <4>3, <1>1
      <4> QED BY <4>1, <4>2, <4>3, <4>4, <1>4
    <3> QED BY <3>1, <3>2
  <2> QED BY <1>1, <2>1, <2>2 DEF IndexInv
<1>8. OrderInv'
  <2> SUFFICES ASSUME NEW k \in (0 .. n - 1) \ {0}, Parent(k) # 0
               PROVE  Fire(Parent(k))' <= Fire(k)'
    BY <1>1, <1>3 DEF OrderInv
  <2>1. k \in Cells \ {0} /\ Parent(k) \in 0 .. n - 1
    BY <1>1, ParentFacts
  <2>2. Fire(Parent(k)) <= Fire(k)
    BY <2>1, <1>1 DEF OrderInv
  <2> QED BY <2>1, <2>2, <1>4 DEF Fire
<1>9. AroundInv'
  BY <1>3 DEF AroundInv
<1>10. WalkInv'
  BY <1>1, <1>3, <1>4 DEF WalkInv
<1> QED BY <1>6, <1>7, <1>8, <1>9, <1>10 DEF HeapInv

\* Looking at the clock and sleeping leave the heap alone.
LEMMA ClockInv == ASSUME HeapInv, ReadClock \/ Sleep PROVE HeapInv'
<1>1. /\ UNCHANGED <<heap, heap_size, watchdog_index, index, moved, back>>
      /\ pc \in {"collect", "due"} /\ pc' \in {"collect", "due"} /\ now' \in Times
  BY HeapAssumption DEF HeapInv, TypeOK, Times, ReadClock, Sleep, walkVars
<1>2. TypeOK' /\ IndexInv'
  BY <1>1 DEF HeapInv, TypeOK, IndexInv, Cells
<1>3. OrderInv'
  BY <1>1 DEF HeapInv, OrderInv, Cells, Fire
<1>4. AroundInv' /\ WalkInv'
  BY <1>1 DEF HeapInv, AroundInv, WalkInv
<1> QED BY <1>2, <1>3, <1>4 DEF HeapInv

\* Every step of the watchdog keeps the invariant.
LEMMA StepInv == HeapInv /\ [Next]_vars => HeapInv'
<1> SUFFICES ASSUME HeapInv, [Next]_vars PROVE HeapInv'
  OBVIOUS
<1>1. CASE UpSwap \/ UpDone \/ DownSwap \/ DownDone
  BY <1>1, UpSwapInv, UpDoneInv, DownSwapInv, DownDoneInv
<1>2. CASE \E e \in Entries : SetAgain(e) \/ SetNew(e)
  BY <1>2, SetAgainInv, SetNewInv
<1>3. CASE ReadClock \/ PopLast \/ PopRoot \/ Sleep
  BY <1>3, ClockInv, PopLastInv, PopRootInv
<1>4. CASE UNCHANGED vars
  BY <1>4 DEF vars, HeapInv, TypeOK, IndexInv, OrderInv, AroundInv, WalkInv, Cells, Fire
<1> QED BY <1>1, <1>2, <1>3, <1>4 DEF Next

\* At every moment the array of watchdog.c is a heap of the slots' entries,
\* or on the way to one by the swaps of heap_up and heap_down.
THEOREM HeapInvariant == Spec => []HeapInv
BY InitInv, StepInv, PTL DEF Spec
-----------------------------------------------------------------------------
\* In an ordered heap no cell fires before the root: a first cell that did
\* would have a parent that does.
LEMMA RootIsFirst ==
  ASSUME TypeOK, \A k \in Cells \ {0} : Fire(Parent(k)) <= Fire(k)
  PROVE  \A k \in Cells : Fire(0) <= Fire(k)
<1> DEFINE Early == {k \in Cells : ~ (Fire(0) <= Fire(k))}
<1>1. /\ Cells \subseteq Nat /\ heap_size \in Nat
      /\ \A k \in Cells : Fire(k) \in Nat
  <2>1. \A k \in Cells : heap[k] \in Entries
    BY DEF TypeOK
  <2> QED BY <2>1, HeapAssumption DEF TypeOK, Cells, Fire, Entries, Times
<1> SUFFICES ASSUME Early # {} PROVE FALSE
  OBVIOUS
<1>2. Early \subseteq Nat
  BY <1>1
<1>3. PICK k \in Early : \A l \in Early : ~ (<<l, k>> \in OpToRel(<, Nat))
  <2> HIDE DEF Early
  <2> QED BY <1>2, NatLessThanWellFounded, WFMin
<1>4. \A l \in Early : ~ (l < k)
  BY <1>2, <1>3 DEF OpToRel
<1>5. k # 0 /\ k \in Nat /\ k < heap_size /\ 0 \in Cells
  BY <1>1 DEF Cells
<1>6. Parent(k) \in Cells /\ Parent(k) < k
  BY <1>5, <1>1, ParentFacts DEF Cells
<1>7. Fire(0) <= Fire(Parent(k)) /\ Fire(Parent(k)) <= Fire(k)
  BY <1>4, <1>5, <1>6
<1>8. k \in Cells /\ ~ (Fire(0) <= Fire(k))
  OBVIOUS
<1>9. Fire(0) \in Nat /\ Fire(k) \in Nat /\ Fire(Parent(k)) \in Nat
  BY <1>1, <1>5, <1>6, <1>8
<1> QED BY <1>7, <1>8, <1>9

\* Between calls the whole heap is ordered.
LEMMA Ordered ==
  ASSUME HeapInv, pc \in {"collect", "due"}
  PROVE  \A k \in Cells \ {0} : Fire(Parent(k)) <= Fire(k)
BY DEF HeapInv, OrderInv

\* esrb_watchdog_main, which looks at the root only, never goes to sleep on
\* an entry that is due.
THEOREM NeverOversleeps == Spec => []NothingDueOverlooked
<1>1. HeapInv => NothingDueOverlooked
  <2> SUFFICES ASSUME HeapInv, pc = "due", ~ Due, NEW k \in Cells
               PROVE  Fire(k) > now
    BY DEF NothingDueOverlooked
  <2>1. TypeOK
    BY DEF HeapInv
  <2>2. Fire(0) <= Fire(k)
    BY <2>1, Ordered, RootIsFirst
  <2>3. 0 \in Cells /\ heap_size > 0
    BY <2>1, HeapAssumption DEF Cells, TypeOK
  <2>4. Fire(0) \in Nat /\ Fire(k) \in Nat /\ now \in Nat
    BY <2>1, <2>3, HeapAssumption DEF TypeOK, Fire, Entries, Times
  <2> QED BY <2>2, <2>3, <2>4 DEF Due
<1> QED BY <1>1, HeapInvariant, PTL

\* heap_set always finds room: when the heap is full, every slot has its
\* entry in it.
THEOREM NeverRefuses == Spec => []RoomForEverySlot
<1>1. HeapInv => RoomForEverySlot
  <2> SUFFICES ASSUME HeapInv, NEW s \in Slots, ~ HasEntry(s), ~ (heap_size < Capacity)
               PROVE  FALSE
    BY DEF RoomForEverySlot
  <2> DEFINE f == [k \in Slots |-> heap[k].slot]
  <2>1. /\ TypeOK /\ IndexInv /\ heap_size = Capacity /\ Cells = Slots
    BY HeapAssumption DEF HeapInv, TypeOK, Cells, Slots
  <2>2. \A k \in Slots : watchdog_index[heap[k].slot] = k /\ heap[k].slot \in Slots
    BY <2>1 DEF IndexInv, TypeOK, Entries
  <2>3. \A k \in Slots : heap[k].slot # s
    <3> SUFFICES ASSUME NEW k \in Slots, heap[k].slot = s PROVE FALSE
      OBVIOUS
    <3> QED BY <2>1, <2>2 DEF HasEntry
  <2>4. f \in [Slots -> Slots \ {s}]
    BY <2>2, <2>3
  <2>5. /\ IsFiniteSet(Slots) /\ Cardinality(Slots) = Capacity
    <3>1. 0 \in Int /\ Capacity - 1 \in Int /\ ~ (0 > Capacity - 1)
      BY HeapAssumption
    <3>2. /\ IsFiniteSet(0 .. Capacity - 1)
          /\ Cardinality(0 .. Capacity - 1) = (Capacity - 1) - 0 + 1
      BY <3>1, FS_Interval
    <3> QED BY <3>2, HeapAssumption DEF Slots
  <2>6. /\ IsFiniteSet(Slots \ {s}) /\ Cardinality(Slots \ {s}) = Capacity - 1
    BY <2>5, FS_RemoveElement
  <2>7. Cardinality(Slots \ {s}) < Cardinality(Slots)
    BY <2>5, <2>6, HeapAssumption
  <2>8. \E x, y \in Slots : x # y /\ f[x] = f[y]
    <3> HIDE DEF f
    <3> QED BY <2>4, <2>5, <2>6, <2>7, FS_PigeonHole
  <2> QED BY <2>2, <2>8
<1> QED BY <1>1, HeapInvariant, PTL
-----------------------------------------------------------------------------
\* The entries, as Deadlines.tla sees them.
Pending == {heap[k] : k \in Cells}

\* A swap keeps the set of entries.
LEMMA SwapKeeps ==
  ASSUME TypeOK, IndexInv, NEW i \in Cells, NEW j \in Cells, i # j, Swap(i, j),
         UNCHANGED heap_size
  PROVE  Pending' = Pending
<1>1. Cells' = Cells
  BY DEF Cells
<1>2. /\ heap'[i] = heap[j] /\ heap'[j] = heap[i]
      /\ \A k \in Cells : k # i /\ k # j => heap'[k] = heap[k]
  BY SwapInv
<1>3. \A k \in Cells : heap'[k] \in Pending
  BY <1>2 DEF Pending
<1>4. \A k \in Cells : heap[k] \in Pending'
  BY <1>1, <1>2 DEF Pending
<1> QED BY <1>1, <1>3, <1>4 DEF Pending

\* heap_set replaces the entry of the slot.
LEMMA SetAgainArms ==
  ASSUME HeapInv, NEW e \in Entries, SetAgain(e)
  PROVE  Pending' = {x \in Pending : x.slot # e.slot} \cup {e}
<1> PICK i : i = watchdog_index[e.slot]
  OBVIOUS
<1>1. /\ IndexInv /\ i \in Cells /\ heap[i].slot = e.slot /\ Cells' = Cells
      /\ heap \in [Cells -> Entries] /\ heap' = [heap EXCEPT ![i] = e]
  BY DEF HeapInv, SetAgain, HasEntry, Cells, TypeOK
<1>2. heap'[i] = e /\ \A k \in Cells : k # i => heap'[k] = heap[k]
  BY <1>1
<1>3. \A k \in Cells : heap[k].slot = e.slot <=> k = i
  BY <1>1 DEF IndexInv
<1> QED BY <1>1, <1>2, <1>3 DEF Pending

\* heap_set adds the entry of a slot that had none.
LEMMA SetNewArms ==
  ASSUME HeapInv, NEW e \in Entries, SetNew(e)
  PROVE  Pending' = {x \in Pending : x.slot # e.slot} \cup {e}
<1> PICK n : n = heap_size
  OBVIOUS
<1>1. /\ IndexInv /\ n \in Nat /\ Cells = 0 .. n - 1 /\ Cells' = 0 .. n
      /\ heap' = [k \in 0 .. n |-> IF k = n THEN e ELSE heap[k]]
      /\ ~ HasEntry(e.slot)
  BY HeapAssumption DEF HeapInv, SetNew, Cells, TypeOK
<1>2. \A k \in Cells : heap[k].slot # e.slot
  BY <1>1 DEF IndexInv, HasEntry
<1>3. /\ heap'[n] = e /\ n \in 0 .. n
      /\ \A k \in 0 .. n - 1 : heap'[k] = heap[k] /\ k \in 0 .. n
      /\ \A k \in 0 .. n : k = n \/ k \in 0 .. n - 1
  BY <1>1
<1> QED BY <1>1, <1>2, <1>3 DEF Pending

\* heap_remove(0) takes the root's entry and no other.
LEMMA PopTakes ==
  ASSUME HeapInv, PopLast \/ PopRoot
  PROVE  heap[0] \in Pending /\ Pending' = Pending \ {heap[0]}
<1>0. PICK n : n = heap_size - 1
  OBVIOUS
<1>1. /\ IndexInv /\ n \in Nat /\ Cells = 0 .. n /\ Cells' = 0 .. n - 1
      /\ \A k \in 0 .. n - 1 : heap'[k] = IF k = 0 THEN heap[n] ELSE heap[k]
  <2>1. heap_size \in Nat /\ heap_size > 0 /\ IndexInv
    BY HeapAssumption DEF HeapInv, TypeOK, PopLast, PopRoot
  <2>2. CASE PopLast
    BY <1>0, <2>1, <2>2 DEF PopLast, Cells
  <2>3. CASE PopRoot
    BY <1>0, <2>1, <2>3 DEF PopRoot, Cells
  <2> QED BY <1>0, <2>1, <2>2, <2>3
<1>2. \A k, l \in Cells : heap[k] = heap[l] => k = l
  BY <1>1 DEF IndexInv
<1>3. 0 \in Cells /\ n \in Cells
  BY <1>1
<1>4. \A k \in 0 .. n - 1 : heap'[k] \in Pending /\ heap'[k] # heap[0]
  <2> TAKE k \in 0 .. n - 1
  <2>1. k \in Cells /\ n # 0
    BY <1>1
  <2> QED BY <2>1, <1>1, <1>2, <1>3 DEF Pending
<1>5. \A k \in Cells : k # 0 => heap[k] \in {heap'[l] : l \in 0 .. n - 1}
  <2> SUFFICES ASSUME NEW k \in Cells, k # 0
               PROVE  \E l \in 0 .. n - 1 : heap'[l] = heap[k]
    OBVIOUS
  <2>1. CASE k = n
    <3>1. n # 0 /\ n \in Nat
      BY <1>1, <2>1
    <3>2. 0 \in 0 .. n - 1
      BY <3>1
    <3> QED BY <3>2, <1>1, <2>1
  <2>2. CASE k # n
    <3>1. k \in 0 .. n - 1
      BY <1>1, <2>2
    <3> QED BY <3>1, <1>1
  <2> QED BY <2>1, <2>2
<1>6. Pending' = {heap'[l] : l \in 0 .. n - 1}
  BY <1>1 DEF Pending
<1>7. Pending' \subseteq Pending \ {heap[0]}
  BY <1>4, <1>6
<1>8. Pending \ {heap[0]} \subseteq Pending'
  <2> SUFFICES ASSUME NEW k \in Cells, heap[k] # heap[0] PROVE heap[k] \in Pending'
    BY DEF Pending
  <2> QED BY <1>5, <1>6
<1>9. heap[0] \in Pending
  BY <1>3 DEF Pending
<1> QED BY <1>7, <1>8, <1>9

\* Every step of the heap is a step of Deadlines, or none.
LEMMA StepTakesTheFirst ==
  ASSUME HeapInv, [Next]_vars
  PROVE  [D!DeadlinesNext]_Pending
<1>1. CASE UpSwap
  <2>1. /\ TypeOK /\ IndexInv /\ index \in Cells /\ index > 0 /\ index \in Nat
        /\ heap_size \in Nat
    BY <1>1, HeapAssumption DEF HeapInv, WalkInv, UpSwap, Cells, TypeOK
  <2>2. Parent(index) \in Cells /\ Parent(index) # index
    BY <2>1, ParentFacts DEF Cells
  <2> QED BY <1>1, <2>1, <2>2, SwapKeeps DEF UpSwap
<1>2. CASE DownSwap
  <2>1. /\ TypeOK /\ IndexInv /\ index \in Cells /\ index \in Nat /\ heap_size \in Nat
    BY <1>2, HeapAssumption DEF HeapInv, WalkInv, DownSwap, Cells, TypeOK
  <2>2. Smallest(index) \in Cells /\ Smallest(index) # index
    BY <1>2, <2>1 DEF Smallest, Left, Right, DownSwap, Cells
  <2> QED BY <1>2, <2>1, <2>2, SwapKeeps DEF DownSwap
<1>3. CASE \E e \in Entries : SetAgain(e) \/ SetNew(e)
  <2>1. PICK e \in Entries : SetAgain(e) \/ SetNew(e)
    BY <1>3
  <2>2. D!Arm(e)
    BY <2>1, SetAgainArms, SetNewArms DEF D!Arm, Pending
  <2>3. e \in D!Entries
    BY DEF D!Entries, Entries, D!Slots, Slots, D!Times, Times
  <2> QED BY <2>2, <2>3 DEF D!DeadlinesNext
<1>4. CASE PopLast \/ PopRoot
  <2>1. \A k \in Cells : Fire(0) <= Fire(k)
    <3>1. TypeOK /\ pc \in {"collect", "due"}
      BY <1>4 DEF HeapInv, PopLast, PopRoot
    <3> QED BY <3>1, Ordered, RootIsFirst
  <2>2. \A x \in Pending : heap[0].fire_at <= x.fire_at
    BY <2>1 DEF Pending, Fire
  <2>3. PICK e : e = heap[0]
    OBVIOUS
  <2>4. D!PopFirst(e) /\ e \in Pending
    BY <1>4, <2>2, <2>3, PopTakes DEF D!PopFirst, Pending
  <2> QED BY <2>4 DEF D!DeadlinesNext, Pending
<1>5. CASE UpDone \/ DownDone \/ ReadClock \/ Sleep \/ UNCHANGED vars
  BY <1>5 DEF UpDone, DownDone, ReadClock, Sleep, vars, Pending, Cells
<1> QED BY <1>1, <1>2, <1>3, <1>4, <1>5 DEF Next

\* The heap of watchdog.c keeps exactly the entries it was given, one for
\* each slot, and gives them back first deadline first.
THEOREM FirstDeadlineFirst == Spec => TakesTheFirst
<1>1. Init => D!DeadlinesInit
  BY DEF Init, D!DeadlinesInit, Cells
<1>2. HeapInv /\ [Next]_vars => [D!DeadlinesNext]_Pending
  BY StepTakesTheFirst
<1> QED BY <1>1, <1>2, HeapInvariant, PTL DEF Spec, TakesTheFirst, D!DeadlinesSpec, Pending
=============================================================================
