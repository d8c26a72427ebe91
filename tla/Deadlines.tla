----------------------------- MODULE Deadlines ------------------------------
(***************************************************************************)
(* What the watchdog's heap promises: a set of entries, at most one for    *)
(* each slot, from which the one that fires first is taken.                *)
(*                                                                         *)
(* DeadlineHeap.tla has the array of watchdog.c and is shown to implement  *)
(* this.  The heap of Delivery.tla, which leaves the times out, is the     *)
(* same set seen as a function from slots to positions.                    *)
(***************************************************************************)
EXTENDS Integers

CONSTANTS
  Capacity,       \* slots of the queue, and the capacity of the heap
  Positions,      \* the tickets of the queue
  MaxTime         \* fire times are bounded by this

Slots == 0 .. Capacity - 1
Times == 0 .. MaxTime

\* esrb_watchdog_entry_t; a request has the same fields.
Entries == [slot : Slots, position : Positions, fire_at : Times]

VARIABLE pending  \* the entries that have not been taken

DeadlinesInit == pending = {}

\* The entry of a slot replaces the one the slot had.
Arm(e) == pending' = {x \in pending : x.slot # e.slot} \cup {e}

\* The entry that fires first is taken; any of them if several do.
PopFirst(e) ==
  /\ \A x \in pending : e.fire_at <= x.fire_at
  /\ pending' = pending \ {e}

DeadlinesNext ==
  \/ \E e \in Entries : Arm(e)
  \/ \E e \in pending : PopFirst(e)

DeadlinesSpec == DeadlinesInit /\ [][DeadlinesNext]_pending
=============================================================================
