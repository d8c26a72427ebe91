-------------------------------- MODULE Ring --------------------------------
(***************************************************************************)
(* What the bounded ring of queue.c promises its users.                    *)
(*                                                                         *)
(* A position is a ticket: producers claim positions in order, consumers   *)
(* take them in the same order, and position p always lives in slot        *)
(* SlotOf(p).  The sequence number of a slot tells which ticket may use it *)
(* next and for what:                                                      *)
(*     p             the slot is free for, or being filled by, ticket p    *)
(*     p + 1         ticket p is published and may be taken                *)
(*     p + Capacity  ticket p was given back                               *)
(*                                                                         *)
(* Each operation is one indivisible step here.  Queue.tla has the code's  *)
(* loads and compare-and-swaps and is shown to implement RingSpec;         *)
(* Delivery.tla is written with the indivisible operations.                *)
(*                                                                         *)
(* Positions are naturals.  The code's size_t wraps at 2^64 and compares   *)
(* by signed difference, so the two agree for the first 2^64 tickets.      *)
(***************************************************************************)
EXTENDS Integers

CONSTANT Capacity

\* esrb_queue_init refuses every other capacity; "position & mask" is
\* "position % capacity" only because of it.
ASSUME CapacityAssumption == Capacity \in Nat /\ Capacity >= 2
ASSUME PowerOfTwoAssumption == \E k \in 1..Capacity : Capacity = 2^k

VARIABLES
  sequence,             \* slots[i].sequence
  enqueue_position,     \* the next ticket to claim
  dequeue_position      \* the next ticket to take

ringVars == <<sequence, enqueue_position, dequeue_position>>

Slots == 0 .. Capacity - 1

\* position & queue->mask
SlotOf(p) == p % Capacity

\* What esrb_queue_publish stores in the sequence of ticket p's slot.
PublishedSequence(p) == p + 1

\* Variant: the next lap is off by one.
ReleasedSequenceEarly(p) == p + Capacity - 1

\* What esrb_queue_release stores in the sequence of ticket p's slot.
ReleasedSequence(p) == p + Capacity

Claimable == sequence[SlotOf(enqueue_position)] = enqueue_position

Takeable == sequence[SlotOf(dequeue_position)] = dequeue_position + 1

RingInit ==
  /\ sequence = [i \in Slots |-> i]
  /\ enqueue_position = 0
  /\ dequeue_position = 0

(***************************************************************************)
(* The four steps of a ticket.                                             *)
(***************************************************************************)
Claim ==
  /\ Claimable
  /\ enqueue_position' = enqueue_position + 1
  /\ UNCHANGED <<sequence, dequeue_position>>

Publish(p) ==
  /\ dequeue_position <= p /\ p < enqueue_position
  /\ sequence[SlotOf(p)] = p
  /\ sequence' = [sequence EXCEPT ![SlotOf(p)] = p + 1]
  /\ UNCHANGED <<enqueue_position, dequeue_position>>

Take ==
  /\ Takeable
  /\ dequeue_position' = dequeue_position + 1
  /\ UNCHANGED <<sequence, enqueue_position>>

GiveBack(p) ==
  /\ p < dequeue_position
  /\ sequence[SlotOf(p)] = p + 1
  /\ sequence' = [sequence EXCEPT ![SlotOf(p)] = p + Capacity]
  /\ UNCHANGED <<enqueue_position, dequeue_position>>

RingNext ==
  \/ Claim
  \/ Take
  \/ \E p \in 0 .. enqueue_position : Publish(p) \/ GiveBack(p)

\* The ring as its users may see it: a FIFO of tickets in which a slot serves
\* one ticket at a time, from its claim to its return.
RingSpec == RingInit /\ [][RingNext]_ringVars
=============================================================================
