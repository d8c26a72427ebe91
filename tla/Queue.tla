------------------------------- MODULE Queue --------------------------------
(***************************************************************************)
(* queue.c, one action per access to shared memory.                        *)
(*                                                                         *)
(* Producers are Endpoint Security handler threads, consumers are Ruby     *)
(* threads.  No lock is held: each thread works from the position it last  *)
(* loaded, and the compare-and-swaps may fail, also spuriously (they are   *)
(* the weak ones).  A thread's local "position" is pos[t]; the pointer to  *)
(* the slot it works on is always slot SlotOf(pos[t]).                     *)
(***************************************************************************)
EXTENDS Ring, FiniteSets

CONSTANTS
  Producers,
  Consumers,
  MaxPosition     \* no enqueue starts once this many tickets were claimed

ASSUME ThreadsAssumption ==
  Producers \cap Consumers = {} /\ MaxPosition \in Nat

VARIABLES
  position,       \* slots[i].position
  depth_max,      \* the high-water mark of the depth
  pc,             \* what each thread is about to do
  pos,            \* each thread's local position
  depth,          \* the local depth of esrb_queue_publish
  maximum         \* the local maximum of esrb_queue_publish

localVars == <<pc, pos, depth, maximum>>
vars == <<sequence, enqueue_position, dequeue_position, position, depth_max,
          pc, pos, depth, maximum>>

Threads == Producers \cup Consumers

Goto(t, l) == pc' = [pc EXCEPT ![t] = l]

\* The local position of a thread is reloaded.
Reload(t, p) == pos' = [pos EXCEPT ![t] = p]

Init ==
  /\ RingInit
  /\ position = [i \in Slots |-> 0]
  /\ depth_max = 0
  /\ pc = [t \in Threads |-> "idle"]
  /\ pos = [t \in Threads |-> 0]
  /\ depth = [t \in Threads |-> 0]
  /\ maximum = [t \in Threads |-> 0]
-----------------------------------------------------------------------------
(***************************************************************************)
(* esrb_queue_enqueue.                                                     *)
(***************************************************************************)
EnqueueLoad(t) ==
  /\ pc[t] = "idle"
  /\ enqueue_position < MaxPosition
  /\ Reload(t, enqueue_position)
  /\ Goto(t, "enqueue_scan")
  /\ UNCHANGED <<ringVars, position, depth_max, depth, maximum>>

\* Variant: a stale position is taken for a full ring.
EnqueueScanGivesUp(t) ==
  LET difference == sequence[SlotOf(pos[t])] - pos[t] IN
  /\ pc[t] = "enqueue_scan"
  /\ Goto(t, IF difference = 0 THEN "enqueue_cas" ELSE "idle")
  /\ UNCHANGED <<ringVars, position, depth_max, pos, depth, maximum>>

\* The difference of the slot's sequence and the local position is zero:
\* try to claim; negative: full, return NULL; positive: reload.
EnqueueScan(t) ==
  LET difference == sequence[SlotOf(pos[t])] - pos[t] IN
  /\ pc[t] = "enqueue_scan"
  /\ \/ difference = 0 /\ Goto(t, "enqueue_cas") /\ UNCHANGED pos
     \/ difference < 0 /\ Goto(t, "idle") /\ UNCHANGED pos
     \/ difference > 0 /\ Reload(t, enqueue_position) /\ UNCHANGED pc
  /\ UNCHANGED <<ringVars, position, depth_max, depth, maximum>>

\* Variant: a plain store instead of the compare-and-swap.
EnqueueCasBlind(t) ==
  /\ pc[t] = "enqueue_cas"
  /\ enqueue_position' = pos[t] + 1
  /\ Goto(t, "claimed")
  /\ UNCHANGED <<sequence, dequeue_position, position, depth_max, pos, depth, maximum>>

EnqueueCas(t) ==
  /\ pc[t] = "enqueue_cas"
  /\ enqueue_position = pos[t]
  /\ enqueue_position' = pos[t] + 1
  /\ Goto(t, "claimed")
  /\ UNCHANGED <<sequence, dequeue_position, position, depth_max, pos, depth, maximum>>

\* A failed (or spuriously failed) compare-and-swap reloads the position.
EnqueueCasFail(t) ==
  /\ pc[t] = "enqueue_cas"
  /\ Reload(t, enqueue_position)
  /\ Goto(t, "enqueue_scan")
  /\ UNCHANGED <<ringVars, position, depth_max, depth, maximum>>

\* slot->position = position; the slot is returned to the caller, who fills it.
EnqueueOwn(t) ==
  /\ pc[t] = "claimed"
  /\ position' = [position EXCEPT ![SlotOf(pos[t])] = pos[t]]
  /\ Goto(t, "filling")
  /\ UNCHANGED <<ringVars, depth_max, pos, depth, maximum>>
-----------------------------------------------------------------------------
(***************************************************************************)
(* esrb_queue_publish.                                                     *)
(***************************************************************************)
\* The two loads.  A maximum that rises between them only makes the loop
\* reload it, which PublishRaiseMax does as well.
PublishDepth(t) ==
  /\ pc[t] = "filling"
  /\ depth' = [depth EXCEPT ![t] = position[SlotOf(pos[t])] + 1 - dequeue_position]
  /\ maximum' = [maximum EXCEPT ![t] = depth_max]
  /\ Goto(t, "raise_max")
  /\ UNCHANGED <<ringVars, position, depth_max, pos>>

PublishRaiseMax(t) ==
  /\ pc[t] = "raise_max"
  /\ depth[t] > maximum[t]
  /\ \/ /\ depth_max = maximum[t]
        /\ depth_max' = depth[t]
        /\ Goto(t, "publish")
        /\ UNCHANGED maximum
     \/ /\ maximum' = [maximum EXCEPT ![t] = depth_max]
        /\ UNCHANGED <<depth_max, pc>>
  /\ UNCHANGED <<ringVars, position, pos, depth>>

PublishKeepMax(t) ==
  /\ pc[t] = "raise_max"
  /\ depth[t] <= maximum[t]
  /\ Goto(t, "publish")
  /\ UNCHANGED <<ringVars, position, depth_max, pos, depth, maximum>>

PublishStore(t) ==
  LET i == SlotOf(pos[t]) IN
  /\ pc[t] = "publish"
  /\ sequence' = [sequence EXCEPT ![i] = PublishedSequence(position[i])]
  /\ Goto(t, "idle")
  /\ UNCHANGED <<enqueue_position, dequeue_position, position, depth_max, pos, depth, maximum>>
-----------------------------------------------------------------------------
(***************************************************************************)
(* esrb_queue_dequeue.                                                     *)
(***************************************************************************)
DequeueLoad(t) ==
  /\ pc[t] = "idle"
  /\ Reload(t, dequeue_position)
  /\ Goto(t, "dequeue_scan")
  /\ UNCHANGED <<ringVars, position, depth_max, depth, maximum>>

\* Variant: a stale position is taken for an empty ring.
DequeueScanGivesUp(t) ==
  LET difference == sequence[SlotOf(pos[t])] - (pos[t] + 1) IN
  /\ pc[t] = "dequeue_scan"
  /\ Goto(t, IF difference = 0 THEN "dequeue_cas" ELSE "idle")
  /\ UNCHANGED <<ringVars, position, depth_max, pos, depth, maximum>>

\* As EnqueueScan, against the sequence of a published ticket.
DequeueScan(t) ==
  LET difference == sequence[SlotOf(pos[t])] - (pos[t] + 1) IN
  /\ pc[t] = "dequeue_scan"
  /\ \/ difference = 0 /\ Goto(t, "dequeue_cas") /\ UNCHANGED pos
     \/ difference < 0 /\ Goto(t, "idle") /\ UNCHANGED pos
     \/ difference > 0 /\ Reload(t, dequeue_position) /\ UNCHANGED pc
  /\ UNCHANGED <<ringVars, position, depth_max, depth, maximum>>

\* Variant: a plain store instead of the compare-and-swap.
DequeueCasBlind(t) ==
  /\ pc[t] = "dequeue_cas"
  /\ dequeue_position' = pos[t] + 1
  /\ Goto(t, "holding")
  /\ UNCHANGED <<sequence, enqueue_position, position, depth_max, pos, depth, maximum>>

DequeueCas(t) ==
  /\ pc[t] = "dequeue_cas"
  /\ dequeue_position = pos[t]
  /\ dequeue_position' = pos[t] + 1
  /\ Goto(t, "holding")
  /\ UNCHANGED <<sequence, enqueue_position, position, depth_max, pos, depth, maximum>>

DequeueCasFail(t) ==
  /\ pc[t] = "dequeue_cas"
  /\ Reload(t, dequeue_position)
  /\ Goto(t, "dequeue_scan")
  /\ UNCHANGED <<ringVars, position, depth_max, depth, maximum>>

\* The store of esrb_queue_release; what it waits for is in Delivery.tla.
ReleaseStore(t) ==
  LET i == SlotOf(pos[t]) IN
  /\ pc[t] = "holding"
  /\ sequence' = [sequence EXCEPT ![i] = ReleasedSequence(position[i])]
  /\ Goto(t, "idle")
  /\ UNCHANGED <<enqueue_position, dequeue_position, position, depth_max, pos, depth, maximum>>
-----------------------------------------------------------------------------
ProducerStep(t) ==
  \/ EnqueueLoad(t) \/ EnqueueScan(t) \/ EnqueueCas(t) \/ EnqueueCasFail(t)
  \/ EnqueueOwn(t)
  \/ PublishDepth(t) \/ PublishRaiseMax(t) \/ PublishKeepMax(t) \/ PublishStore(t)

ConsumerStep(t) ==
  \/ DequeueLoad(t) \/ DequeueScan(t) \/ DequeueCas(t) \/ DequeueCasFail(t)
  \/ ReleaseStore(t)

Next ==
  \/ \E t \in Producers : ProducerStep(t)
  \/ \E t \in Consumers : ConsumerStep(t)

Spec == Init /\ [][Next]_vars
-----------------------------------------------------------------------------
OwningPcs == {"claimed", "filling", "raise_max", "publish"}
ProducerPcs == {"idle", "enqueue_scan", "enqueue_cas"} \cup OwningPcs
ConsumerPcs == {"idle", "dequeue_scan", "dequeue_cas", "holding"}

\* A thread that owns the slot of its local position: a producer from its
\* claim to its publication, a consumer from its dequeue to its release.
Owner(t) == pc[t] \in OwningPcs \cup {"holding"}

\* A producer fills, or a consumer holds, the slot of ticket p.
Fills(t, p) == pc[t] \in OwningPcs /\ pos[t] = p
Holds(t, p) == pc[t] = "holding" /\ pos[t] = p

\* Every variable stays in its range; a depth below zero would be a wrapped
\* size_t.
TypeOK ==
  /\ sequence \in [Slots -> Nat]
  /\ enqueue_position \in Nat
  /\ dequeue_position \in Nat
  /\ position \in [Slots -> Nat]
  /\ depth_max \in Nat
  /\ pos \in [Threads -> Nat]
  /\ depth \in [Threads -> Nat]
  /\ maximum \in [Threads -> Nat]
  /\ pc \in [Threads -> ProducerPcs \cup ConsumerPcs]
  /\ \A t \in Producers : pc[t] \in ProducerPcs
  /\ \A t \in Consumers : pc[t] \in ConsumerPcs

\* No two threads own the same slot: the plain (non-atomic) fields of a slot
\* are never accessed by a producer and a consumer, or by two of either, at
\* the same time, although each acted on a sequence number it read earlier.
SlotExclusive ==
  \A t, u \in Threads :
    t # u /\ Owner(t) /\ Owner(u) => SlotOf(pos[t]) # SlotOf(pos[u])

\* A consumer holds the slot of the very ticket it dequeued: the slot's
\* position, which esrb_queue_release computes from, is the consumer's own.
HolderHasItsTicket ==
  \A t \in Consumers :
    pc[t] = "holding" => position[SlotOf(pos[t])] = pos[t]

\* The high-water mark the statistics report never exceeds the capacity,
\* although esrb_queue_publish computes it from a separately loaded
\* dequeue position.
DepthMaxBounded == depth_max <= Capacity

\* esrb_queue_enqueue returns NULL only at a moment when the ring really is
\* full for the next ticket: Capacity tickets are in it, or a consumer still
\* holds the slot.  Never because its position was stale, and never because
\* a slot got lost on its way back.
FullIsReal ==
  [][\A t \in Producers :
       pc[t] = "enqueue_scan" /\ pc'[t] = "idle" =>
         /\ pos[t] = enqueue_position
         /\ \/ enqueue_position = dequeue_position + Capacity
            \/ \E u \in Consumers : Holds(u, enqueue_position - Capacity)]_vars

\* esrb_queue_dequeue returns NULL only at a moment when no ticket is in the
\* ring, or the next one in order is still being filled by its producer.
EmptyIsReal ==
  [][\A t \in Consumers :
       pc[t] = "dequeue_scan" /\ pc'[t] = "idle" =>
         /\ pos[t] = dequeue_position
         /\ \/ dequeue_position = enqueue_position
            \/ \E u \in Producers : Fills(u, dequeue_position)]_vars
-----------------------------------------------------------------------------
(***************************************************************************)
(* Why it works: the invariant the proofs of QueueProofs.tla rest on.      *)
(***************************************************************************)

\* The tickets in the ring are at most Capacity, and each of the Capacity
\* tickets from dequeue_position on finds its slot in one of two states:
\* claimed or published if it was claimed already; free, or still held by the
\* consumer of the lap before, if it was not.
TicketInv ==
  /\ dequeue_position <= enqueue_position
  /\ enqueue_position <= dequeue_position + Capacity
  /\ \A p \in dequeue_position .. enqueue_position - 1 :
       \/ sequence[SlotOf(p)] = p
       \/ sequence[SlotOf(p)] = p + 1 /\ position[SlotOf(p)] = p
  /\ \A p \in enqueue_position .. dequeue_position + Capacity - 1 :
       \/ sequence[SlotOf(p)] = p
       \/ p >= Capacity /\ sequence[SlotOf(p)] = p - Capacity + 1

\* A slot that is not yet published, or not yet given back, is in the hands
\* of a thread that will do so.
InHandInv ==
  /\ \A p \in dequeue_position .. enqueue_position - 1 :
       sequence[SlotOf(p)] = p => \E t \in Producers : Fills(t, p)
  /\ \A p \in enqueue_position .. dequeue_position + Capacity - 1 :
       sequence[SlotOf(p)] # p => \E t \in Consumers : Holds(t, p - Capacity)

\* What a stale position finds: a slot that has moved on, never one that
\* looks full (to a producer) or empty (to a consumer).
StaleInv ==
  /\ \A p \in 0 .. enqueue_position - 1 : sequence[SlotOf(p)] >= p
  /\ \A p \in 0 .. dequeue_position - 1 : sequence[SlotOf(p)] >= p + 1

\* The ticket of a producer is claimed and not published, that of a consumer
\* is taken and not given back, and no two threads own the same ticket.
OwnerInv ==
  /\ \A t \in Producers : pc[t] \in OwningPcs =>
       /\ dequeue_position <= pos[t] /\ pos[t] < enqueue_position
       /\ sequence[SlotOf(pos[t])] = pos[t]
       /\ pc[t] # "claimed" => position[SlotOf(pos[t])] = pos[t]
  /\ \A t \in Consumers : pc[t] = "holding" =>
       /\ pos[t] < dequeue_position /\ enqueue_position <= pos[t] + Capacity
       /\ sequence[SlotOf(pos[t])] = pos[t] + 1
       /\ position[SlotOf(pos[t])] = pos[t]
  /\ \A t, u \in Threads : t # u /\ Owner(t) /\ Owner(u) => pos[t] # pos[u]

\* A compare-and-swap can only succeed if what the scan saw is still so.
AttemptInv ==
  /\ \A t \in Producers :
       /\ pc[t] \in {"enqueue_scan", "enqueue_cas"} => pos[t] <= enqueue_position
       /\ pc[t] = "enqueue_cas" /\ pos[t] = enqueue_position =>
            sequence[SlotOf(pos[t])] = pos[t]
  /\ \A t \in Consumers :
       /\ pc[t] \in {"dequeue_scan", "dequeue_cas"} => pos[t] <= dequeue_position
       /\ pc[t] = "dequeue_cas" /\ pos[t] = dequeue_position =>
            sequence[SlotOf(pos[t])] = pos[t] + 1

\* A depth a producer computed is a real one, and so is the maximum.
DepthInv ==
  /\ depth_max <= Capacity
  /\ \A t \in Producers : depth[t] <= Capacity

\* The tickets, the threads and the sequence numbers agree: the inductive
\* invariant of queue.c.
QueueInv ==
  /\ TypeOK /\ TicketInv /\ InHandInv /\ StaleInv /\ OwnerInv /\ AttemptInv
  /\ DepthInv
=============================================================================
