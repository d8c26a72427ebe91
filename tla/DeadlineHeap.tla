---------------------------- MODULE DeadlineHeap ----------------------------
(***************************************************************************)
(* The heap of watchdog.c: an array ordered by fire time, in which every   *)
(* slot knows the index of its own entry (watchdog_index), so that a new   *)
(* request of a slot overwrites the stale entry of an earlier message.     *)
(*                                                                         *)
(* Only the watchdog thread touches it.  The loops of heap_up and          *)
(* heap_down are walks of single swaps here, so that what holds between    *)
(* two swaps can be stated and proved; nobody sees the heap in between.    *)
(***************************************************************************)
EXTENDS Integers

CONSTANTS
  Capacity,       \* slots of the queue, and the capacity of the heap
  Positions,      \* the tickets of the queue
  MaxTime         \* the clock stops here

ASSUME HeapAssumption == Capacity \in Nat \ {0} /\ MaxTime \in Nat /\ Positions # {}

Slots == 0 .. Capacity - 1
Times == 0 .. MaxTime

\* SIZE_MAX, the watchdog_index of a slot that has no entry.
NoIndex == -1

\* esrb_watchdog_entry_t; a request has the same fields.
Entries == [slot : Slots, position : Positions, fire_at : Times]

VARIABLES
  heap,             \* the cells 0 .. heap_size - 1 of the array
  heap_size,
  watchdog_index,   \* slots[i].watchdog_index
  now,              \* what mach_absolute_time returned last
  pc,               \* "collect", "due", or a walk: "up", "down"
  index,            \* where the walk is
  moved,            \* the slot whose entry walks
  back              \* where the walk returns to

walkVars == <<index, moved, back>>
vars == <<heap, heap_size, watchdog_index, now, pc, index, moved, back>>

Cells == 0 .. heap_size - 1

Parent(k) == (k - 1) \div 2

Fire(k) == heap[k].fire_at

Init ==
  /\ heap_size = 0
  /\ heap = [k \in {} |-> k]
  /\ watchdog_index = [s \in Slots |-> NoIndex]
  /\ now \in Times
  /\ pc = "collect"
  /\ index = 0 /\ moved = 0 /\ back = "collect"
-----------------------------------------------------------------------------
(***************************************************************************)
(* heap_swap, heap_up, heap_down.                                          *)
(***************************************************************************)

\* Variant: the slots are not told.
SwapSilently(i, j) ==
  /\ heap' = [heap EXCEPT ![i] = heap[j], ![j] = heap[i]]
  /\ UNCHANGED watchdog_index

\* Exchanges two cells and tells their slots.
Swap(i, j) ==
  /\ heap' = [heap EXCEPT ![i] = heap[j], ![j] = heap[i]]
  /\ watchdog_index' = [watchdog_index EXCEPT ![heap[j].slot] = i, ![heap[i].slot] = j]

\* heap_up(i), then heap_down from wherever the entry of slot s has come to.
StartWalk(i, s, l) ==
  /\ pc' = "up" /\ index' = i /\ moved' = s /\ back' = l

\* Variant: the first swap ends the walk.
UpSwapOnce ==
  LET parent == Parent(index) IN
  /\ pc = "up"
  /\ index > 0
  /\ Fire(parent) > Fire(index)
  /\ Swap(parent, index)
  /\ pc' = "down" /\ index' = parent
  /\ UNCHANGED <<heap_size, now, moved, back>>

UpSwap ==
  LET parent == Parent(index) IN
  /\ pc = "up"
  /\ index > 0
  /\ Fire(parent) > Fire(index)
  /\ Swap(parent, index)
  /\ index' = parent
  /\ UNCHANGED <<heap_size, now, pc, moved, back>>

UpDone ==
  /\ pc = "up"
  /\ index > 0 => Fire(Parent(index)) <= Fire(index)
  /\ pc' = "down"
  /\ index' = watchdog_index[moved]
  /\ UNCHANGED <<heap, heap_size, watchdog_index, now, moved, back>>

Left(i) == 2 * i + 1
Right(i) == 2 * i + 2

\* Variant: the right child is never considered.
SmallestLeft(i) == Left(i)

\* The child of i that fires first, the left one if both fire together.
Smallest(i) ==
  IF Right(i) < heap_size /\ Fire(Right(i)) < Fire(Left(i)) THEN Right(i) ELSE Left(i)

DownSwap ==
  LET smallest == Smallest(index) IN
  /\ pc = "down"
  /\ Left(index) < heap_size
  /\ Fire(index) > Fire(smallest)
  /\ Swap(index, smallest)
  /\ index' = smallest
  /\ UNCHANGED <<heap_size, now, pc, moved, back>>

DownDone ==
  /\ pc = "down"
  /\ Left(index) < heap_size => Fire(index) <= Fire(Smallest(index))
  /\ pc' = back
  /\ index' = 0 /\ moved' = 0 /\ back' = "collect"
  /\ UNCHANGED <<heap, heap_size, watchdog_index, now>>
-----------------------------------------------------------------------------
(***************************************************************************)
(* heap_set and heap_remove, called from esrb_watchdog_main.               *)
(***************************************************************************)

\* The slot's index leads to an entry of the slot.
HasEntry(s) ==
  /\ watchdog_index[s] \in Cells
  /\ heap[watchdog_index[s]].slot = s

\* heap_set, when the slot has an entry: overwrite it.
SetAgain(e) ==
  LET i == watchdog_index[e.slot] IN
  /\ pc = "collect"
  /\ HasEntry(e.slot)
  /\ heap' = [heap EXCEPT ![i] = e]
  /\ StartWalk(i, e.slot, "collect")
  /\ UNCHANGED <<heap_size, watchdog_index, now>>

\* heap_set, when the slot has no entry and there is room: append it.
SetNew(e) ==
  /\ pc = "collect"
  /\ ~HasEntry(e.slot)
  /\ heap_size < Capacity
  /\ heap' = [k \in 0 .. heap_size |-> IF k = heap_size THEN e ELSE heap[k]]
  /\ heap_size' = heap_size + 1
  /\ watchdog_index' = [watchdog_index EXCEPT ![e.slot] = heap_size]
  /\ StartWalk(heap_size, e.slot, "collect")
  /\ UNCHANGED now

\* The request ring is empty: look at the clock.
ReadClock ==
  /\ pc = "collect"
  /\ now' \in now .. MaxTime
  /\ pc' = "due"
  /\ UNCHANGED <<heap, heap_size, watchdog_index, walkVars>>

Due == heap_size > 0 /\ Fire(0) <= now

\* heap_remove(0) of a single entry, answer_due, look at the clock.
PopLast ==
  /\ pc = "due"
  /\ Due
  /\ heap_size = 1
  /\ watchdog_index' = [watchdog_index EXCEPT ![heap[0].slot] = NoIndex]
  /\ heap_size' = 0
  /\ heap' = [k \in {} |-> k]
  /\ now' \in now .. MaxTime
  /\ UNCHANGED <<pc, walkVars>>

\* Variant: the removed slot keeps its index.
PopRootForgets ==
  LET last == heap_size - 1
      s == heap[last].slot
  IN
  /\ pc = "due"
  /\ Due
  /\ heap_size > 1
  /\ watchdog_index' = [watchdog_index EXCEPT ![s] = 0]
  /\ heap_size' = last
  /\ heap' = [k \in 0 .. last - 1 |-> IF k = 0 THEN heap[last] ELSE heap[k]]
  /\ now' \in now .. MaxTime
  /\ StartWalk(0, s, "due")

\* heap_remove(0): the last entry moves to the root and walks from there.
PopRoot ==
  LET last == heap_size - 1
      s == heap[last].slot
  IN
  /\ pc = "due"
  /\ Due
  /\ heap_size > 1
  /\ watchdog_index' = [watchdog_index EXCEPT ![heap[0].slot] = NoIndex, ![s] = 0]
  /\ heap_size' = last
  /\ heap' = [k \in 0 .. last - 1 |-> IF k = 0 THEN heap[last] ELSE heap[k]]
  /\ now' \in now .. MaxTime
  /\ StartWalk(0, s, "due")

\* Nothing is due: sleep, then collect again.
Sleep ==
  /\ pc = "due"
  /\ ~Due
  /\ pc' = "collect"
  /\ UNCHANGED <<heap, heap_size, watchdog_index, now, walkVars>>

Next ==
  \/ UpSwap \/ UpDone \/ DownSwap \/ DownDone
  \/ \E e \in Entries : SetAgain(e) \/ SetNew(e)
  \/ ReadClock \/ PopLast \/ PopRoot \/ Sleep

Spec == Init /\ [][Next]_vars
-----------------------------------------------------------------------------
(***************************************************************************)
(* Properties.                                                             *)
(***************************************************************************)

\* Every variable stays in its range.
TypeOK ==
  /\ heap_size \in 0 .. Capacity
  /\ heap \in [Cells -> Entries]
  /\ watchdog_index \in [Slots -> Slots \cup {NoIndex}]
  /\ now \in Times
  /\ pc \in {"collect", "due", "up", "down"}
  /\ index \in Slots /\ moved \in Slots
  /\ back \in {"collect", "due"}

\* heap_set never returns without having stored the request: a heap with the
\* capacity of the queue has room for every slot that has no entry.
RoomForEverySlot ==
  pc = "collect" => \A s \in Slots : HasEntry(s) \/ heap_size < Capacity

\* The watchdog, which looks at the root only, never goes to sleep on an
\* entry that is due, after any sequence of requests and removals.
NothingDueOverlooked ==
  pc = "due" /\ ~Due => \A k \in Cells : Fire(k) > now

\* Each slot knows where its entry is and no slot has two.
IndexInv ==
  /\ \A k \in Cells : watchdog_index[heap[k].slot] = k
  /\ \A s \in Slots : watchdog_index[s] # NoIndex =>
       watchdog_index[s] \in Cells /\ heap[watchdog_index[s]].slot = s

\* What is ordered: everything between calls; everything but the walking
\* entry's relation to its parent, or to its children, during a walk.
OrderInv ==
  \A k \in Cells \ {0} :
    \/ Fire(Parent(k)) <= Fire(k)
    \/ pc = "up" /\ (k = index \/ Parent(k) = index)
    \/ pc = "down" /\ Parent(k) = index

\* Around the walking entry: its parent fires no later than its children.
AroundInv ==
  pc \in {"up", "down"} /\ index > 0 =>
    \A k \in Cells \ {0} : Parent(k) = index => Fire(Parent(index)) <= Fire(k)

\* The walking entry is the one of the slot that was set or moved.
WalkInv ==
  pc \in {"up", "down"} => index \in Cells /\ heap[index].slot = moved

\* The array is a heap, or on the way to one: the inductive invariant.
HeapInv == TypeOK /\ IndexInv /\ OrderInv /\ AroundInv /\ WalkInv

D == INSTANCE Deadlines WITH pending <- {heap[k] : k \in Cells}

\* Seen from outside, heap_set stores exactly the request and heap_remove
\* takes exactly the entry that fires first: no entry is lost, doubled or
\* given to another slot by the swaps.
TakesTheFirst == D!DeadlinesSpec
=============================================================================
