---------------------------- MODULE QueueProofs -----------------------------
(***************************************************************************)
(* Proofs about the two rings, Queue.tla and Requests.tla, for every       *)
(* capacity and every set of threads.                                      *)
(***************************************************************************)
EXTENDS Queue, Requests, RingProofs, SequenceTheorems, TLAPS

-----------------------------------------------------------------------------
(***************************************************************************)
(* The invariant holds initially and every step preserves it.              *)
(***************************************************************************)
LEMMA InitInv == Init => QueueInv
<1> SUFFICES ASSUME Init PROVE QueueInv
  OBVIOUS
<1> USE DEF Init, RingInit
<1>1. TypeOK
  BY CapacityAssumption, ThreadsAssumption
  DEF TypeOK, Slots, Threads, ProducerPcs, ConsumerPcs, OwningPcs
<1>2. TicketInv
  <2>1. \A p \in 0 .. Capacity - 1 : SlotOf(p) = p
    BY CapacityAssumption DEF SlotOf
  <2>2. \A p \in enqueue_position .. dequeue_position + Capacity - 1 : sequence[SlotOf(p)] = p
    BY <2>1, CapacityAssumption DEF Slots
  <2> QED
    BY <2>2, CapacityAssumption DEF TicketInv
<1>3. StaleInv
  BY DEF StaleInv
<1>4. OwnerInv
  BY DEF OwnerInv, Owner, OwningPcs, Threads
<1>5. AttemptInv
  BY DEF AttemptInv, Threads
<1>6. DepthInv
  BY CapacityAssumption DEF DepthInv, Threads
<1>7. InHandInv
  <2>1. \A p \in 0 .. Capacity - 1 : SlotOf(p) = p
    BY CapacityAssumption DEF SlotOf
  <2>2. \A p \in enqueue_position .. dequeue_position + Capacity - 1 : sequence[SlotOf(p)] = p
    BY <2>1, CapacityAssumption DEF Slots
  <2> QED
    BY <2>2, CapacityAssumption DEF InHandInv
<1> QED
  BY <1>1, <1>2, <1>3, <1>4, <1>5, <1>6, <1>7 DEF QueueInv

\* What a thread does to its own locations while it scans and retries.
LEMMA LocalStepInv ==
  ASSUME QueueInv, NEW t \in Threads,
         NEW l, NEW p \in Nat,
         pc' = [pc EXCEPT ![t] = l],
         pos' = [pos EXCEPT ![t] = p],
         UNCHANGED <<ringVars, position, depth_max, depth, maximum>>,
         ~Owner(t),
         \/ l = "idle" /\ t \in Threads
         \/ l = "enqueue_scan" /\ t \in Producers /\ p <= enqueue_position
         \/ /\ l = "enqueue_cas" /\ t \in Producers
            /\ p <= enqueue_position /\ sequence[SlotOf(p)] = p
         \/ l = "dequeue_scan" /\ t \in Consumers /\ p <= dequeue_position
         \/ /\ l = "dequeue_cas" /\ t \in Consumers
            /\ p <= dequeue_position /\ sequence[SlotOf(p)] = p + 1
  PROVE  QueueInv'
<1> USE ThreadsAssumption DEF ringVars, Threads
<1>1. TypeOK'
  BY DEF QueueInv, TypeOK, ProducerPcs, ConsumerPcs, OwningPcs
<1>2. TicketInv' /\ StaleInv' /\ DepthInv'
  BY DEF QueueInv, TicketInv, StaleInv, DepthInv
<1>3. \A u \in Threads : Owner(u)' => Owner(u) /\ u # t /\ pos'[u] = pos[u] /\ pc'[u] = pc[u]
  BY DEF QueueInv, TypeOK, Owner, OwningPcs
<1>4. OwnerInv'
  BY <1>3 DEF QueueInv, OwnerInv, Owner, OwningPcs
<1>5. AttemptInv'
  BY DEF QueueInv, AttemptInv, TypeOK
<1>6. InHandInv'
  <2>1. \A u \in Threads : Owner(u) => pos'[u] = pos[u] /\ pc'[u] = pc[u]
    BY DEF QueueInv, TypeOK, Owner
  <2> QED
    BY <2>1 DEF QueueInv, InHandInv, Fills, Holds, Owner
<1> QED
  BY <1>1, <1>2, <1>4, <1>5, <1>6 DEF QueueInv

\* The steps that only look: none of them touches the ring.
LEMMA ScanStepInv ==
  ASSUME QueueInv, NEW t \in Threads,
         \/ t \in Producers /\ (EnqueueLoad(t) \/ EnqueueScan(t) \/ EnqueueCasFail(t))
         \/ t \in Consumers /\ (DequeueLoad(t) \/ DequeueScan(t) \/ DequeueCasFail(t))
  PROVE  QueueInv'
<1> DEFINE l == pc'[t]
           p == pos'[t]
<1> USE ThreadsAssumption DEF Threads, Goto, Reload
<1>1. pc \in [Threads -> ProducerPcs \cup ConsumerPcs] /\ pos \in [Threads -> Nat]
  BY DEF QueueInv, TypeOK
<1>2. enqueue_position \in Nat /\ dequeue_position \in Nat /\ sequence \in [Slots -> Nat]
  BY DEF QueueInv, TypeOK
<1>3. sequence[SlotOf(pos[t])] \in Nat /\ pos[t] \in Nat
  BY <1>1, <1>2, SlotOfType
<1>4. /\ t \in Producers /\ pc[t] \in {"enqueue_scan", "enqueue_cas"} => pos[t] <= enqueue_position
      /\ t \in Consumers /\ pc[t] \in {"dequeue_scan", "dequeue_cas"} => pos[t] <= dequeue_position
  BY DEF QueueInv, AttemptInv
<1>5. /\ pc' = [pc EXCEPT ![t] = l]
      /\ pos' = [pos EXCEPT ![t] = p]
      /\ p \in Nat
      /\ ~Owner(t)
      /\ UNCHANGED <<ringVars, position, depth_max, depth, maximum>>
  BY <1>1, <1>2
  DEF EnqueueLoad, EnqueueScan, EnqueueCasFail, DequeueLoad, DequeueScan, DequeueCasFail,
      Owner, OwningPcs
<1>6. \/ l = "idle" /\ t \in Threads
      \/ l = "enqueue_scan" /\ t \in Producers /\ p <= enqueue_position
      \/ /\ l = "enqueue_cas" /\ t \in Producers
         /\ p <= enqueue_position /\ sequence[SlotOf(p)] = p
      \/ l = "dequeue_scan" /\ t \in Consumers /\ p <= dequeue_position
      \/ /\ l = "dequeue_cas" /\ t \in Consumers
         /\ p <= dequeue_position /\ sequence[SlotOf(p)] = p + 1
  BY <1>1, <1>2, <1>3, <1>4
  DEF EnqueueLoad, EnqueueScan, EnqueueCasFail, DequeueLoad, DequeueScan, DequeueCasFail
<1> HIDE DEF l, p
<1> QED
  BY <1>5, <1>6, LocalStepInv

\* No two owners share a slot.
LEMMA OwnersApart ==
  ASSUME TypeOK, TicketInv, OwnerInv,
         NEW t \in Threads, NEW u \in Threads, t # u, Owner(t), Owner(u)
  PROVE  SlotOf(pos[t]) # SlotOf(pos[u])
<1> USE CapacityAssumption DEF Threads
<1>1. pos[t] \in Nat /\ pos[u] \in Nat /\ pos[t] # pos[u]
  BY DEF TypeOK, OwnerInv
<1>2. \A v \in {t, u} : /\ pos[v] < enqueue_position
                        /\ enqueue_position <= pos[v] + Capacity
  BY <1>1 DEF TypeOK, TicketInv, OwnerInv, Owner, ProducerPcs, ConsumerPcs, OwningPcs
<1>3. ~(pos[t] + Capacity <= pos[u]) /\ ~(pos[u] + Capacity <= pos[t])
  BY <1>1, <1>2 DEF TypeOK
<1> QED
  BY <1>1, <1>3, SlotOfApart

\* Claiming a ticket.
LEMMA EnqueueCasInv ==
  ASSUME QueueInv, NEW t \in Producers, EnqueueCas(t)
  PROVE  QueueInv'
<1> USE ThreadsAssumption, CapacityAssumption DEF Threads, Goto
<1> DEFINE e == enqueue_position
<1>0. TypeOK /\ TicketInv /\ InHandInv /\ StaleInv /\ OwnerInv /\ AttemptInv /\ DepthInv
  BY DEF QueueInv
<1>1. /\ e \in Nat /\ dequeue_position \in Nat
      /\ pos[t] = e /\ e' = e + 1 /\ sequence[SlotOf(e)] = e
      /\ pc' = [pc EXCEPT ![t] = "claimed"] /\ ~Owner(t)
      /\ UNCHANGED <<sequence, dequeue_position, position, depth_max, pos, depth, maximum>>
  BY <1>0 DEF EnqueueCas, AttemptInv, TypeOK, Owner, OwningPcs
<1>2. TypeOK'
  BY <1>0, <1>1 DEF TypeOK, ProducerPcs, ConsumerPcs, OwningPcs
<1>3. e # dequeue_position + Capacity
  <2>1. SlotOf(dequeue_position + Capacity) = SlotOf(dequeue_position)
    BY <1>1, SlotOfLap
  <2> QED
    BY <1>0, <1>1, <2>1 DEF TicketInv
<1>4. TicketInv'
  BY <1>0, <1>1, <1>3 DEF TicketInv
<1>5. StaleInv'
  BY <1>0, <1>1 DEF StaleInv
<1>6. OwnerInv'
  <2>1. \A u \in Producers : pc[u] \in OwningPcs => pos[u] < e
    BY <1>0 DEF OwnerInv
  <2>2. \A u \in Consumers : pc[u] = "holding" => pos[u] < e /\ e + 1 <= pos[u] + Capacity
    <3> SUFFICES ASSUME NEW u \in Consumers, pc[u] = "holding"
                 PROVE  pos[u] < e /\ e + 1 <= pos[u] + Capacity
      OBVIOUS
    <3>1. /\ pos[u] \in Nat /\ pos[u] < dequeue_position /\ e <= pos[u] + Capacity
          /\ sequence[SlotOf(pos[u])] = pos[u] + 1
      BY <1>0 DEF OwnerInv, TypeOK
    <3>2. e # pos[u] + Capacity
      BY <1>1, <3>1, SlotOfLap
    <3> QED
      BY <1>0, <1>1, <3>1, <3>2 DEF TicketInv
  <2>3. \A u \in Threads : Owner(u)' => u = t \/ (Owner(u) /\ pc'[u] = pc[u])
    BY <1>0, <1>1 DEF Owner, TypeOK
  <2>4. \A u \in Threads : u # t /\ Owner(u) => pos[u] # e
    BY <1>0, <1>1, <2>1, <2>2 DEF Owner, TypeOK, ProducerPcs, ConsumerPcs, OwningPcs
  <2>5. \A u, v \in Threads : u # v /\ Owner(u)' /\ Owner(v)' => pos'[u] # pos'[v]
    BY <1>0, <1>1, <2>3, <2>4 DEF OwnerInv
  <2>6. \A u \in Producers : pc'[u] \in OwningPcs =>
          /\ dequeue_position' <= pos'[u] /\ pos'[u] < e'
          /\ sequence'[SlotOf(pos'[u])] = pos'[u]
          /\ pc'[u] # "claimed" => position'[SlotOf(pos'[u])] = pos'[u]
    BY <1>0, <1>1, <2>1 DEF OwnerInv, TypeOK, TicketInv
  <2>7. \A u \in Consumers : pc'[u] = "holding" =>
          /\ pos'[u] < dequeue_position' /\ e' <= pos'[u] + Capacity
          /\ sequence'[SlotOf(pos'[u])] = pos'[u] + 1
          /\ position'[SlotOf(pos'[u])] = pos'[u]
    BY <1>0, <1>1, <2>2 DEF OwnerInv, TypeOK
  <2> QED
    BY <2>5, <2>6, <2>7 DEF OwnerInv
<1>7. AttemptInv'
  BY <1>0, <1>1 DEF AttemptInv, TypeOK
<1>8. DepthInv'
  BY <1>0, <1>1 DEF DepthInv
<1>9. InHandInv'
  <2>1. \A u \in Threads, p \in Int : (Fills(u, p) => Fills(u, p)') /\ (Holds(u, p) => Holds(u, p)')
    BY <1>0, <1>1 DEF Fills, Holds, Owner, TypeOK
  <2>2. \A p \in Int : p = e => Fills(t, p)'
    BY <1>0, <1>1 DEF Fills, TypeOK, OwningPcs
  <2>3. \A p \in dequeue_position' .. e' - 1 :
          sequence'[SlotOf(p)] = p => \E u \in Producers : Fills(u, p)'
    BY <1>0, <1>1, <2>1, <2>2 DEF InHandInv
  <2>4. \A p \in e' .. dequeue_position' + Capacity - 1 :
          sequence'[SlotOf(p)] # p => \E u \in Consumers : Holds(u, p - Capacity)'
    BY <1>0, <1>1, <2>1 DEF InHandInv
  <2> QED
    BY <2>3, <2>4 DEF InHandInv
<1> QED
  BY <1>2, <1>4, <1>5, <1>6, <1>7, <1>8, <1>9 DEF QueueInv

\* Noting the ticket in the slot.
LEMMA EnqueueOwnInv ==
  ASSUME QueueInv, NEW t \in Producers, EnqueueOwn(t)
  PROVE  QueueInv'
<1> USE ThreadsAssumption, CapacityAssumption DEF Threads, Goto
<1> DEFINE i == SlotOf(pos[t])
<1>0. TypeOK /\ TicketInv /\ InHandInv /\ StaleInv /\ OwnerInv /\ AttemptInv /\ DepthInv
  BY DEF QueueInv
<1>1. /\ pc[t] = "claimed" /\ pos[t] \in Nat /\ i \in Slots
      /\ position' = [position EXCEPT ![i] = pos[t]]
      /\ pc' = [pc EXCEPT ![t] = "filling"]
      /\ UNCHANGED <<sequence, enqueue_position, dequeue_position, depth_max, pos, depth, maximum>>
  BY <1>0, SlotOfType DEF EnqueueOwn, TypeOK, ringVars
<1>2. TypeOK'
  BY <1>0, <1>1 DEF TypeOK, ProducerPcs, ConsumerPcs, OwningPcs
<1>3. /\ dequeue_position <= pos[t] /\ pos[t] < enqueue_position
      /\ sequence[i] = pos[t]
  BY <1>0, <1>1 DEF OwnerInv, OwningPcs
<1>4. TicketInv'
  <2>1. \A p \in dequeue_position .. enqueue_position - 1 :
          sequence[SlotOf(p)] = p + 1 => SlotOf(p) # i
    <3> SUFFICES ASSUME NEW p \in dequeue_position .. enqueue_position - 1,
                        sequence[SlotOf(p)] = p + 1, SlotOf(p) = i
                 PROVE  FALSE
      OBVIOUS
    <3>1. p \in Nat /\ p + 1 = pos[t]
      BY <1>0, <1>3 DEF TypeOK
    <3> QED
      BY <1>1, <3>1, SlotOfApart
  <2> QED
    BY <1>0, <1>1, <2>1 DEF TicketInv, TypeOK
<1>5. StaleInv' /\ DepthInv'
  BY <1>0, <1>1 DEF StaleInv, DepthInv
<1>6. OwnerInv'
  <2>0. Owner(t) /\ t \in Threads
    BY <1>1 DEF Owner, OwningPcs
  <2>1. \A u \in Threads : u # t /\ Owner(u) => SlotOf(pos[u]) # i
    BY <1>0, <2>0, OwnersApart
  <2>2. \A u \in Threads : Owner(u)' => Owner(u) /\ (u = t \/ pc'[u] = pc[u])
    BY <1>0, <1>1 DEF Owner, TypeOK, OwningPcs
  <2>3. \A u \in Threads : u # t /\ Owner(u) => position'[SlotOf(pos[u])] = position[SlotOf(pos[u])]
    BY <1>0, <1>1, <2>1 DEF TypeOK
  <2>4. position'[i] = pos[t]
    BY <1>0, <1>1 DEF TypeOK
  <2> QED
    BY <1>0, <1>1, <1>3, <2>2, <2>3, <2>4 DEF OwnerInv, Owner, OwningPcs, TypeOK
<1>7. AttemptInv'
  BY <1>0, <1>1 DEF AttemptInv, TypeOK
<1>8. InHandInv'
  <2>1. \A u \in Threads, p \in Int : (Fills(u, p) => Fills(u, p)') /\ (Holds(u, p) => Holds(u, p)')
    BY <1>0, <1>1 DEF Fills, Holds, OwningPcs, TypeOK
  <2> QED
    BY <1>0, <1>1, <2>1 DEF InHandInv, TypeOK
<1> QED
  BY <1>2, <1>4, <1>5, <1>6, <1>7, <1>8 DEF QueueInv

\* Computing the depth and raising the high-water mark.
LEMMA PublishMaxInv ==
  ASSUME QueueInv, NEW t \in Producers,
         PublishDepth(t) \/ PublishRaiseMax(t) \/ PublishKeepMax(t)
  PROVE  QueueInv'
<1> USE ThreadsAssumption, CapacityAssumption DEF Threads, Goto
<1>0. TypeOK /\ TicketInv /\ InHandInv /\ StaleInv /\ OwnerInv /\ AttemptInv /\ DepthInv
  BY DEF QueueInv
<1>1. /\ pc[t] \in {"filling", "raise_max"}
      /\ \E l \in {"raise_max", "publish"} : pc' = [pc EXCEPT ![t] = l]
      /\ UNCHANGED <<sequence, enqueue_position, dequeue_position, position, pos>>
  BY <1>0 DEF PublishDepth, PublishRaiseMax, PublishKeepMax, ringVars, TypeOK
<1>2. /\ pos[t] \in Nat
      /\ dequeue_position <= pos[t] /\ pos[t] + 1 <= dequeue_position + Capacity
      /\ position[SlotOf(pos[t])] = pos[t]
  BY <1>0, <1>1 DEF OwnerInv, TicketInv, TypeOK, OwningPcs
<1>3. PublishDepth(t) => position[SlotOf(pos[t])] + 1 - dequeue_position \in 0 .. Capacity
  BY <1>0, <1>2 DEF TypeOK
<1>4. TypeOK' /\ DepthInv'
  <2>1. depth' \in [Threads -> Nat] /\ \A u \in Producers : depth'[u] <= Capacity
    BY <1>0, <1>3 DEF PublishDepth, PublishRaiseMax, PublishKeepMax, TypeOK, DepthInv
  <2>2. depth_max' \in Nat /\ maximum' \in [Threads -> Nat] /\ depth_max' <= Capacity
    BY <1>0 DEF PublishDepth, PublishRaiseMax, PublishKeepMax, TypeOK, DepthInv
  <2> QED
    BY <1>0, <1>1, <2>1, <2>2 DEF TypeOK, DepthInv, ProducerPcs, ConsumerPcs, OwningPcs
<1>5. TicketInv' /\ StaleInv'
  BY <1>0, <1>1 DEF TicketInv, StaleInv
<1>6. OwnerInv'
  <2>1. \A u \in Threads : /\ Owner(u)' <=> Owner(u)
                           /\ pc'[u] = pc[u] \/ (u = t /\ pc[u] \in OwningPcs /\ pc[u] # "claimed")
    BY <1>0, <1>1 DEF Owner, TypeOK, OwningPcs
  <2> QED
    BY <1>0, <1>1, <2>1 DEF OwnerInv, Owner, OwningPcs, TypeOK
<1>7. AttemptInv'
  BY <1>0, <1>1 DEF AttemptInv, TypeOK
<1>8. InHandInv'
  <2>1. \A u \in Threads, p \in Int : (Fills(u, p) => Fills(u, p)') /\ (Holds(u, p) => Holds(u, p)')
    BY <1>0, <1>1 DEF Fills, Holds, OwningPcs, TypeOK
  <2> QED
    BY <1>0, <1>1, <2>1 DEF InHandInv, TypeOK
<1> QED
  BY <1>4, <1>5, <1>6, <1>7, <1>8 DEF QueueInv

\* An owner that gives its slot on: what its store leaves alone.
LEMMA HandOverInv ==
  ASSUME QueueInv, NEW t \in Threads, Owner(t), NEW v \in Nat,
         sequence[SlotOf(pos[t])] < v,
         sequence' = [sequence EXCEPT ![SlotOf(pos[t])] = v],
         pc' = [pc EXCEPT ![t] = "idle"],
         UNCHANGED <<enqueue_position, dequeue_position, position, depth_max, pos, depth, maximum>>
  PROVE  TypeOK' /\ StaleInv' /\ OwnerInv' /\ DepthInv'
<1> USE ThreadsAssumption, CapacityAssumption DEF Threads
<1> DEFINE i == SlotOf(pos[t])
<1>0. TypeOK /\ TicketInv /\ StaleInv /\ OwnerInv /\ DepthInv
  BY DEF QueueInv
<1>1. i \in Slots /\ pos[t] \in Nat
  BY <1>0, SlotOfType DEF TypeOK
<1>2. TypeOK'
  BY <1>0, <1>1 DEF TypeOK, ProducerPcs, ConsumerPcs, OwningPcs
<1>3. \A j \in Slots : sequence'[j] >= sequence[j] /\ (j # i => sequence'[j] = sequence[j])
  BY <1>0, <1>1 DEF TypeOK
<1>4. StaleInv'
  <2>1. \A p \in Nat : SlotOf(p) \in Slots /\ sequence[SlotOf(p)] \in Nat
                       /\ sequence'[SlotOf(p)] \in Nat
    BY <1>0, <1>2, SlotOfType DEF TypeOK
  <2> QED
    BY <1>0, <1>3, <2>1 DEF StaleInv, TypeOK
<1>5. OwnerInv'
  <2>1. \A u \in Threads : Owner(u)' => u # t /\ Owner(u) /\ pc'[u] = pc[u]
    BY <1>0 DEF Owner, TypeOK, OwningPcs
  <2>2. \A u \in Threads : Owner(u)' => SlotOf(pos[u]) # i
    BY <1>0, <2>1, OwnersApart
  <2>3. \A u \in Threads : Owner(u)' => sequence'[SlotOf(pos[u])] = sequence[SlotOf(pos[u])]
    BY <1>0, <1>3, <2>2, SlotOfType DEF TypeOK
  <2> QED
    BY <1>0, <2>1, <2>3 DEF OwnerInv, Owner, OwningPcs
<1>6. DepthInv'
  BY <1>0 DEF DepthInv
<1> QED
  BY <1>2, <1>4, <1>5, <1>6

\* Publishing a ticket.
LEMMA PublishStoreInv ==
  ASSUME QueueInv, NEW t \in Producers, PublishStore(t)
  PROVE  QueueInv'
<1> USE ThreadsAssumption, CapacityAssumption DEF Threads, Goto
<1> DEFINE i == SlotOf(pos[t])
<1>0. TypeOK /\ TicketInv /\ InHandInv /\ OwnerInv /\ AttemptInv
  BY DEF QueueInv
<1>1. /\ pos[t] \in Nat /\ i \in Slots /\ t \in Threads /\ Owner(t)
      /\ dequeue_position <= pos[t] /\ pos[t] < enqueue_position
      /\ sequence[i] = pos[t] /\ position[i] = pos[t]
      /\ enqueue_position <= dequeue_position + Capacity
  BY <1>0, SlotOfType DEF PublishStore, TypeOK, OwnerInv, TicketInv, Owner, OwningPcs
<1>2. /\ sequence' = [sequence EXCEPT ![i] = pos[t] + 1]
      /\ pc' = [pc EXCEPT ![t] = "idle"]
      /\ UNCHANGED <<enqueue_position, dequeue_position, position, depth_max, pos, depth, maximum>>
  BY <1>1 DEF PublishStore, PublishedSequence
<1>3. TypeOK' /\ StaleInv' /\ OwnerInv' /\ DepthInv'
  <2>1. pos[t] + 1 \in Nat /\ sequence[i] < pos[t] + 1
    BY <1>1
  <2> QED
    BY <1>1, <1>2, <2>1, HandOverInv
<1>4. \A p \in dequeue_position .. dequeue_position + Capacity - 1 :
         SlotOf(p) \in Slots /\ (p # pos[t] => SlotOf(p) # i)
  <2> SUFFICES ASSUME NEW p \in dequeue_position .. dequeue_position + Capacity - 1
               PROVE  SlotOf(p) \in Slots /\ (p # pos[t] => SlotOf(p) # i)
    OBVIOUS
  <2>1. p \in Nat
    BY <1>0 DEF TypeOK
  <2>2. ~(pos[t] + Capacity <= p) /\ ~(p + Capacity <= pos[t])
    BY <1>0, <1>1, <2>1 DEF TypeOK
  <2> QED
    BY <1>1, <2>1, <2>2, SlotOfApart, SlotOfType
<1>5. TicketInv'
  <2>1. \A p \in dequeue_position .. dequeue_position + Capacity - 1 :
          p # pos[t] => sequence'[SlotOf(p)] = sequence[SlotOf(p)]
    BY <1>0, <1>2, <1>4 DEF TypeOK
  <2>2. sequence'[i] = pos[t] + 1
    BY <1>0, <1>1, <1>2 DEF TypeOK
  <2> QED
    BY <1>0, <1>1, <1>2, <2>1, <2>2 DEF TicketInv, TypeOK
<1>6. AttemptInv'
  <2>1. \A u \in Producers : pc[u] = "enqueue_cas" /\ pos[u] = enqueue_position =>
          SlotOf(pos[u]) # i
    BY <1>0, <1>1 DEF AttemptInv, TypeOK
  <2>2. \A u \in Consumers : pc[u] = "dequeue_cas" /\ pos[u] = dequeue_position =>
          SlotOf(pos[u]) # i
    <3> SUFFICES ASSUME NEW u \in Consumers, pc[u] = "dequeue_cas",
                        pos[u] = dequeue_position, SlotOf(pos[u]) = i
                 PROVE  FALSE
      OBVIOUS
    <3>1. sequence[i] = dequeue_position + 1
      BY <1>0 DEF AttemptInv
    <3>2. dequeue_position \in Nat /\ pos[t] = dequeue_position + 1
      BY <1>0, <1>1, <3>1 DEF TypeOK
    <3> QED
      BY <1>1, <3>2, SlotOfApart
  <2>3. \A u \in Threads : /\ SlotOf(pos[u]) \in Slots
                           /\ pc'[u] # "idle" => pc'[u] = pc[u]
    BY <1>0, <1>2, SlotOfType DEF TypeOK
  <2>4. \A j \in Slots : j # i => sequence'[j] = sequence[j]
    BY <1>0, <1>2 DEF TypeOK
  <2> QED
    BY <1>0, <1>2, <2>1, <2>2, <2>3, <2>4 DEF AttemptInv
<1>7. InHandInv'
  <2>1. \A p \in dequeue_position .. dequeue_position + Capacity - 1 :
          IF p = pos[t] THEN sequence'[SlotOf(p)] # p
                        ELSE sequence'[SlotOf(p)] = sequence[SlotOf(p)]
    BY <1>0, <1>1, <1>2, <1>4 DEF TypeOK
  <2>2. \A u \in Threads, p \in Int : /\ Fills(u, p) /\ p # pos[t] => Fills(u, p)'
                                      /\ Holds(u, p) => Holds(u, p)'
    BY <1>0, <1>1, <1>2 DEF PublishStore, Fills, Holds, TypeOK
  <2> QED
    BY <1>0, <1>1, <1>2, <2>1, <2>2 DEF InHandInv, TypeOK
<1> QED
  BY <1>3, <1>5, <1>6, <1>7 DEF QueueInv

\* Giving a ticket back.
LEMMA ReleaseStoreInv ==
  ASSUME QueueInv, NEW t \in Consumers, ReleaseStore(t)
  PROVE  QueueInv'
<1> USE ThreadsAssumption, CapacityAssumption DEF Threads, Goto
<1> DEFINE i == SlotOf(pos[t])
           q == pos[t] + Capacity
<1>0. TypeOK /\ TicketInv /\ InHandInv /\ OwnerInv /\ AttemptInv
  BY DEF QueueInv
<1>1. /\ pos[t] \in Nat /\ i \in Slots /\ t \in Threads /\ Owner(t)
      /\ pos[t] < dequeue_position /\ enqueue_position <= q
      /\ sequence[i] = pos[t] + 1 /\ position[i] = pos[t]
      /\ dequeue_position <= enqueue_position
  BY <1>0, SlotOfType DEF ReleaseStore, TypeOK, OwnerInv, TicketInv, Owner
<1>2. /\ sequence' = [sequence EXCEPT ![i] = q]
      /\ pc' = [pc EXCEPT ![t] = "idle"]
      /\ UNCHANGED <<enqueue_position, dequeue_position, position, depth_max, pos, depth, maximum>>
  BY <1>1 DEF ReleaseStore, ReleasedSequence
<1>3. TypeOK' /\ StaleInv' /\ OwnerInv' /\ DepthInv'
  <2>1. q \in Nat /\ sequence[i] < q
    BY <1>1
  <2> QED
    BY <1>1, <1>2, <2>1, HandOverInv
<1>4. SlotOf(q) = i /\ q \in Nat
  BY <1>1, SlotOfLap
<1>5. \A p \in dequeue_position .. dequeue_position + Capacity - 1 :
         SlotOf(p) \in Slots /\ (p # q => SlotOf(p) # i)
  <2> SUFFICES ASSUME NEW p \in dequeue_position .. dequeue_position + Capacity - 1
               PROVE  SlotOf(p) \in Slots /\ (p # q => SlotOf(p) # i)
    OBVIOUS
  <2>1. p \in Nat
    BY <1>0 DEF TypeOK
  <2>2. ~(q + Capacity <= p) /\ ~(p + Capacity <= q)
    BY <1>0, <1>1, <2>1 DEF TypeOK
  <2> QED
    BY <1>4, <2>1, <2>2, SlotOfApart, SlotOfType
<1>6. TicketInv'
  <2>1. \A p \in dequeue_position .. dequeue_position + Capacity - 1 :
          p # q => sequence'[SlotOf(p)] = sequence[SlotOf(p)]
    BY <1>0, <1>2, <1>5 DEF TypeOK
  <2>2. sequence'[SlotOf(q)] = q
    BY <1>0, <1>1, <1>2, <1>4 DEF TypeOK
  <2> QED
    BY <1>0, <1>1, <1>2, <2>1, <2>2 DEF TicketInv, TypeOK
<1>7. AttemptInv'
  <2>1. \A u \in Producers : pc[u] = "enqueue_cas" /\ pos[u] = enqueue_position =>
          SlotOf(pos[u]) # i
    <3> SUFFICES ASSUME NEW u \in Producers, pc[u] = "enqueue_cas",
                        pos[u] = enqueue_position, SlotOf(pos[u]) = i
                 PROVE  FALSE
      OBVIOUS
    <3>1. enqueue_position \in Nat /\ enqueue_position = pos[t] + 1
      BY <1>0, <1>1 DEF AttemptInv, TypeOK
    <3> QED
      BY <1>1, <3>1, SlotOfApart
  <2>2. \A u \in Consumers : pc[u] = "dequeue_cas" /\ pos[u] = dequeue_position =>
          SlotOf(pos[u]) # i
    BY <1>0, <1>1 DEF AttemptInv, TypeOK
  <2>3. \A u \in Threads : /\ SlotOf(pos[u]) \in Slots
                           /\ pc'[u] # "idle" => pc'[u] = pc[u]
    BY <1>0, <1>2, SlotOfType DEF TypeOK
  <2>4. \A j \in Slots : j # i => sequence'[j] = sequence[j]
    BY <1>0, <1>2 DEF TypeOK
  <2> QED
    BY <1>0, <1>2, <2>1, <2>2, <2>3, <2>4 DEF AttemptInv
<1>8. InHandInv'
  <2>1. \A p \in dequeue_position .. dequeue_position + Capacity - 1 :
          IF p = q THEN sequence'[SlotOf(p)] = p
                   ELSE sequence'[SlotOf(p)] = sequence[SlotOf(p)]
    BY <1>0, <1>1, <1>2, <1>4, <1>5 DEF TypeOK
  <2>2. \A u \in Threads, p \in Int : /\ Fills(u, p) => Fills(u, p)'
                                      /\ Holds(u, p) /\ p # pos[t] => Holds(u, p)'
    BY <1>0, <1>1, <1>2 DEF ReleaseStore, Fills, Holds, OwningPcs, TypeOK
  <2> QED
    BY <1>0, <1>1, <1>2, <2>1, <2>2 DEF InHandInv, TypeOK
<1> QED
  BY <1>3, <1>6, <1>7, <1>8 DEF QueueInv

\* Taking a ticket.
LEMMA DequeueCasInv ==
  ASSUME QueueInv, NEW t \in Consumers, DequeueCas(t)
  PROVE  QueueInv'
<1> USE ThreadsAssumption, CapacityAssumption DEF Threads, Goto
<1> DEFINE d == dequeue_position
<1>0. TypeOK /\ TicketInv /\ InHandInv /\ StaleInv /\ OwnerInv /\ AttemptInv /\ DepthInv
  BY DEF QueueInv
<1>1. /\ d \in Nat /\ enqueue_position \in Nat
      /\ pos[t] = d /\ d' = d + 1 /\ sequence[SlotOf(d)] = d + 1
      /\ pc' = [pc EXCEPT ![t] = "holding"] /\ ~Owner(t)
      /\ UNCHANGED <<sequence, enqueue_position, position, depth_max, pos, depth, maximum>>
  BY <1>0 DEF DequeueCas, AttemptInv, TypeOK, Owner, OwningPcs
<1>2. TypeOK'
  BY <1>0, <1>1 DEF TypeOK, ProducerPcs, ConsumerPcs, OwningPcs
<1>3. d < enqueue_position
  BY <1>0, <1>1 DEF TicketInv
<1>4. position[SlotOf(d)] = d
  BY <1>0, <1>1, <1>3 DEF TicketInv
<1>5. TicketInv'
  <2>1. SlotOf(d + Capacity) = SlotOf(d)
    BY <1>1, SlotOfLap
  <2> QED
    BY <1>0, <1>1, <1>3, <2>1 DEF TicketInv
<1>6. StaleInv'
  BY <1>0, <1>1 DEF StaleInv
<1>7. OwnerInv'
  <2>1. \A u \in Producers : pc[u] \in OwningPcs => d + 1 <= pos[u]
    BY <1>0, <1>1 DEF OwnerInv, TypeOK
  <2>2. \A u \in Consumers : pc[u] = "holding" => pos[u] < d
    BY <1>0 DEF OwnerInv
  <2>3. \A u \in Threads : Owner(u)' => u = t \/ (Owner(u) /\ pc'[u] = pc[u])
    BY <1>0, <1>1 DEF Owner, TypeOK
  <2>4. \A u \in Threads : u # t /\ Owner(u) => pos[u] # d
    BY <1>0, <1>1, <2>1, <2>2 DEF Owner, TypeOK, ProducerPcs, ConsumerPcs, OwningPcs
  <2>5. \A u, v \in Threads : u # v /\ Owner(u)' /\ Owner(v)' => pos'[u] # pos'[v]
    BY <1>0, <1>1, <2>3, <2>4 DEF OwnerInv
  <2>6. \A u \in Producers : pc'[u] \in OwningPcs =>
          /\ d' <= pos'[u] /\ pos'[u] < enqueue_position'
          /\ sequence'[SlotOf(pos'[u])] = pos'[u]
          /\ pc'[u] # "claimed" => position'[SlotOf(pos'[u])] = pos'[u]
    BY <1>0, <1>1, <2>1 DEF OwnerInv, TypeOK
  <2>7. \A u \in Consumers : pc'[u] = "holding" =>
          /\ pos'[u] < d' /\ enqueue_position' <= pos'[u] + Capacity
          /\ sequence'[SlotOf(pos'[u])] = pos'[u] + 1
          /\ position'[SlotOf(pos'[u])] = pos'[u]
    BY <1>0, <1>1, <1>4, <2>2 DEF OwnerInv, TypeOK, TicketInv
  <2> QED
    BY <2>5, <2>6, <2>7 DEF OwnerInv
<1>8. AttemptInv'
  BY <1>0, <1>1 DEF AttemptInv, TypeOK
<1>9. DepthInv'
  BY <1>0, <1>1 DEF DepthInv
<1>10. InHandInv'
  <2>1. \A u \in Threads, p \in Int : (Fills(u, p) => Fills(u, p)') /\ (Holds(u, p) => Holds(u, p)')
    BY <1>0, <1>1 DEF Fills, Holds, Owner, TypeOK
  <2>2. \A p \in Int : p = d + Capacity => Holds(t, p - Capacity)'
    BY <1>0, <1>1 DEF Holds, TypeOK
  <2>3. \A p \in d' .. enqueue_position' - 1 :
          sequence'[SlotOf(p)] = p => \E u \in Producers : Fills(u, p)'
    BY <1>0, <1>1, <2>1 DEF InHandInv
  <2>4. \A p \in enqueue_position' .. d' + Capacity - 1 :
          sequence'[SlotOf(p)] # p => \E u \in Consumers : Holds(u, p - Capacity)'
    BY <1>0, <1>1, <2>1, <2>2 DEF InHandInv
  <2> QED
    BY <2>3, <2>4 DEF InHandInv
<1> QED
  BY <1>2, <1>5, <1>6, <1>7, <1>8, <1>9, <1>10 DEF QueueInv

\* Every step of queue.c keeps the invariant.
LEMMA StepInv == QueueInv /\ [Next]_vars => QueueInv'
<1> SUFFICES ASSUME QueueInv, [Next]_vars PROVE QueueInv'
  OBVIOUS
<1>1. ASSUME NEW t \in Producers, ProducerStep(t) PROVE QueueInv'
  <2>1. CASE EnqueueLoad(t) \/ EnqueueScan(t) \/ EnqueueCasFail(t)
    BY <2>1, ScanStepInv DEF Threads
  <2>2. CASE EnqueueCas(t)
    BY <2>2, EnqueueCasInv
  <2>3. CASE EnqueueOwn(t)
    BY <2>3, EnqueueOwnInv
  <2>4. CASE PublishDepth(t) \/ PublishRaiseMax(t) \/ PublishKeepMax(t)
    BY <2>4, PublishMaxInv
  <2>5. CASE PublishStore(t)
    BY <2>5, PublishStoreInv
  <2> QED
    BY <1>1, <2>1, <2>2, <2>3, <2>4, <2>5 DEF ProducerStep
<1>2. ASSUME NEW t \in Consumers, ConsumerStep(t) PROVE QueueInv'
  <2>1. CASE DequeueLoad(t) \/ DequeueScan(t) \/ DequeueCasFail(t)
    BY <2>1, ScanStepInv DEF Threads
  <2>2. CASE DequeueCas(t)
    BY <2>2, DequeueCasInv
  <2>3. CASE ReleaseStore(t)
    BY <2>3, ReleaseStoreInv
  <2> QED
    BY <1>2, <2>1, <2>2, <2>3 DEF ConsumerStep
<1>3. ASSUME UNCHANGED vars PROVE QueueInv'
  BY <1>3
  DEF vars, QueueInv, TypeOK, TicketInv, InHandInv, StaleInv, OwnerInv, AttemptInv,
      DepthInv, Owner, Fills, Holds
<1> QED
  BY <1>1, <1>2, <1>3 DEF Next

\* The tickets, the threads' local positions and the sequence numbers of
\* queue.c agree in every reachable state.
THEOREM QueueInvariant == Spec => []QueueInv
BY InitInv, StepInv, PTL DEF Spec
-----------------------------------------------------------------------------
(***************************************************************************)
(* What follows for the users of the queue.                                *)
(***************************************************************************)

\* The variables keep their types; in particular the depth that
\* esrb_queue_publish computes by an unsigned subtraction never wraps.
THEOREM TypeCorrect == Spec => []TypeOK
<1>1. QueueInv => TypeOK
  BY DEF QueueInv
<1> QED
  BY <1>1, QueueInvariant, PTL

\* The plain fields of a slot are never touched by two threads at once.
THEOREM Exclusion == Spec => []SlotExclusive
<1>1. QueueInv => SlotExclusive
  BY OwnersApart DEF QueueInv, SlotExclusive
<1> QED
  BY <1>1, QueueInvariant, PTL

\* The slot esrb_queue_dequeue returns carries the ticket that was dequeued.
THEOREM Tickets == Spec => []HolderHasItsTicket
<1>1. QueueInv => HolderHasItsTicket
  BY DEF QueueInv, OwnerInv, HolderHasItsTicket
<1> QED
  BY <1>1, QueueInvariant, PTL

\* The reported high-water mark is at most the capacity.
THEOREM DepthBound == Spec => []DepthMaxBounded
<1>1. QueueInv => DepthMaxBounded
  BY DEF QueueInv, DepthInv, DepthMaxBounded
<1> QED
  BY <1>1, QueueInvariant, PTL

\* Only its own scan takes a thread out of a scan.
LEMMA ScanIsOwn ==
  ASSUME TypeOK, Next, NEW t \in Threads, pc'[t] # pc[t]
  PROVE  /\ pc[t] = "enqueue_scan" => EnqueueScan(t)
         /\ pc[t] = "dequeue_scan" => DequeueScan(t)
<1> USE DEF Threads, Goto, TypeOK
<1>1. ASSUME NEW u \in Producers, ProducerStep(u) PROVE pc[u] = "enqueue_scan" => EnqueueScan(u)
  BY <1>1 DEF ProducerStep, EnqueueLoad, EnqueueCas, EnqueueCasFail, EnqueueOwn,
              PublishDepth, PublishRaiseMax, PublishKeepMax, PublishStore
<1>2. ASSUME NEW u \in Consumers, ConsumerStep(u) PROVE pc[u] = "dequeue_scan" => DequeueScan(u)
  BY <1>2 DEF ConsumerStep, DequeueLoad, DequeueCas, DequeueCasFail, ReleaseStore
<1>3. ASSUME NEW u \in Producers, ProducerStep(u)
      PROVE  /\ \A v \in Threads : v # u => pc'[v] = pc[v]
             /\ pc[u] # "dequeue_scan"
  BY <1>3 DEF ProducerStep, EnqueueLoad, EnqueueScan, EnqueueCas, EnqueueCasFail, EnqueueOwn,
              PublishDepth, PublishRaiseMax, PublishKeepMax, PublishStore
<1>4. ASSUME NEW u \in Consumers, ConsumerStep(u)
      PROVE  /\ \A v \in Threads : v # u => pc'[v] = pc[v]
             /\ pc[u] # "enqueue_scan"
  BY <1>4 DEF ConsumerStep, DequeueLoad, DequeueScan, DequeueCas, DequeueCasFail, ReleaseStore
<1> QED
  BY <1>1, <1>2, <1>3, <1>4 DEF Next

\* A producer is told "full" only when the ring is full for the next ticket.
THEOREM FullOnlyWhenFull == Spec => FullIsReal
<1> DEFINE A == \A t \in Producers :
                  pc[t] = "enqueue_scan" /\ pc'[t] = "idle" =>
                    /\ pos[t] = enqueue_position
                    /\ \/ enqueue_position = dequeue_position + Capacity
                       \/ \E u \in Consumers : Holds(u, enqueue_position - Capacity)
<1>1. QueueInv /\ [Next]_vars => [A]_vars
  <2> SUFFICES ASSUME QueueInv, Next, NEW t \in Producers,
                      pc[t] = "enqueue_scan", pc'[t] = "idle"
               PROVE  /\ pos[t] = enqueue_position
                      /\ \/ enqueue_position = dequeue_position + Capacity
                         \/ \E u \in Consumers : Holds(u, enqueue_position - Capacity)
    BY DEF vars
  <2>1. /\ pos[t] \in Nat /\ SlotOf(pos[t]) \in Slots
        /\ sequence[SlotOf(pos[t])] \in Nat /\ enqueue_position \in Nat
    BY SlotOfType DEF QueueInv, TypeOK, Threads
  <2>2. sequence[SlotOf(pos[t])] < pos[t]
    BY <2>1, ScanIsOwn DEF EnqueueScan, QueueInv, TypeOK, Goto, Threads
  <2>3. pos[t] <= enqueue_position
    BY DEF QueueInv, AttemptInv
  <2> QED
    <3>1. pos[t] = enqueue_position
      BY <2>1, <2>2, <2>3 DEF QueueInv, StaleInv
    <3>2. enqueue_position # dequeue_position + Capacity =>
            enqueue_position \in enqueue_position .. dequeue_position + Capacity - 1
      BY CapacityAssumption DEF QueueInv, TypeOK, TicketInv
    <3> QED
      BY <2>1, <2>2, <3>1, <3>2 DEF QueueInv, InHandInv
<1> QED
  BY <1>1, QueueInvariant, PTL DEF Spec, FullIsReal

\* A consumer is told "empty" only when the next ticket is not published.
THEOREM EmptyOnlyWhenEmpty == Spec => EmptyIsReal
<1> DEFINE A == \A t \in Consumers :
                  pc[t] = "dequeue_scan" /\ pc'[t] = "idle" =>
                    /\ pos[t] = dequeue_position
                    /\ \/ dequeue_position = enqueue_position
                       \/ \E u \in Producers : Fills(u, dequeue_position)
<1>1. QueueInv /\ [Next]_vars => [A]_vars
  <2> SUFFICES ASSUME QueueInv, Next, NEW t \in Consumers,
                      pc[t] = "dequeue_scan", pc'[t] = "idle"
               PROVE  /\ pos[t] = dequeue_position
                      /\ \/ dequeue_position = enqueue_position
                         \/ \E u \in Producers : Fills(u, dequeue_position)
    BY DEF vars
  <2>1. /\ pos[t] \in Nat /\ SlotOf(pos[t]) \in Slots
        /\ sequence[SlotOf(pos[t])] \in Nat /\ dequeue_position \in Nat
    BY SlotOfType DEF QueueInv, TypeOK, Threads
  <2>2. sequence[SlotOf(pos[t])] < pos[t] + 1
    BY <2>1, ScanIsOwn DEF DequeueScan, QueueInv, TypeOK, Goto, Threads
  <2>3. pos[t] <= dequeue_position
    BY DEF QueueInv, AttemptInv
  <2> QED
    BY <2>1, <2>2, <2>3 DEF QueueInv, TypeOK, StaleInv, TicketInv, InHandInv
<1> QED
  BY <1>1, QueueInvariant, PTL DEF Spec, EmptyIsReal
-----------------------------------------------------------------------------
(***************************************************************************)
(* The code's loads and compare-and-swaps implement the indivisible ring.  *)
(***************************************************************************)
LEMMA StepRefines == QueueInv /\ [Next]_vars => [RingNext]_ringVars
<1> SUFFICES ASSUME QueueInv, [Next]_vars PROVE [RingNext]_ringVars
  OBVIOUS
<1> USE CapacityAssumption DEF Threads
<1>1. ASSUME NEW t \in Producers, ProducerStep(t) PROVE [RingNext]_ringVars
  <2>1. CASE EnqueueCas(t)
    <3>1. Claim
      BY <2>1 DEF EnqueueCas, Claim, Claimable, QueueInv, AttemptInv
    <3> QED
      BY <3>1 DEF RingNext
  <2>2. CASE PublishStore(t)
    <3>1. /\ pos[t] \in 0 .. enqueue_position
          /\ dequeue_position <= pos[t] /\ pos[t] < enqueue_position
          /\ sequence[SlotOf(pos[t])] = pos[t] /\ position[SlotOf(pos[t])] = pos[t]
      BY <2>2 DEF PublishStore, QueueInv, OwnerInv, OwningPcs, TypeOK
    <3>2. Publish(pos[t])
      BY <2>2, <3>1 DEF PublishStore, PublishedSequence, Publish
    <3> QED
      BY <3>1, <3>2 DEF RingNext
  <2> QED
    BY <1>1, <2>1, <2>2
    DEF ProducerStep, EnqueueLoad, EnqueueScan, EnqueueCasFail, EnqueueOwn,
        PublishDepth, PublishRaiseMax, PublishKeepMax, ringVars
<1>2. ASSUME NEW t \in Consumers, ConsumerStep(t) PROVE [RingNext]_ringVars
  <2>1. CASE DequeueCas(t)
    <3>1. Take
      BY <2>1 DEF DequeueCas, Take, Takeable, QueueInv, AttemptInv
    <3> QED
      BY <3>1 DEF RingNext
  <2>2. CASE ReleaseStore(t)
    <3>1. /\ pos[t] \in 0 .. enqueue_position /\ pos[t] < dequeue_position
          /\ sequence[SlotOf(pos[t])] = pos[t] + 1 /\ position[SlotOf(pos[t])] = pos[t]
      BY <2>2 DEF ReleaseStore, QueueInv, OwnerInv, TicketInv, TypeOK
    <3>2. GiveBack(pos[t])
      BY <2>2, <3>1 DEF ReleaseStore, ReleasedSequence, GiveBack
    <3> QED
      BY <3>1, <3>2 DEF RingNext
  <2> QED
    BY <1>2, <2>1, <2>2
    DEF ConsumerStep, DequeueLoad, DequeueScan, DequeueCasFail, ringVars
<1>3. ASSUME UNCHANGED vars PROVE [RingNext]_ringVars
  BY <1>3 DEF vars, ringVars
<1> QED
  BY <1>1, <1>2, <1>3 DEF Next

\* queue.c implements the ring of tickets: the abstraction the rest of the
\* library relies on, and Delivery.tla is written with.
THEOREM Refinement == Spec => RingSpec
<1>1. Init => RingInit
  BY DEF Init
<1> QED
  BY <1>1, StepRefines, QueueInvariant, PTL DEF Spec, RingSpec
-----------------------------------------------------------------------------
(***************************************************************************)
(* The request ring.                                                       *)
(***************************************************************************)

\* Two tickets less than a lap apart live in different slots.
LEMMA SlotsApart ==
  ASSUME NEW p \in Nat, NEW q \in Nat, p # q, p < q + Capacity, q < p + Capacity
  PROVE  SlotOf(p) # SlotOf(q)
BY SlotOfApart, CapacityAssumption

\* The ring is empty at first.
LEMMA RequestsInitInv == RequestsInit => RequestsInv
<1> SUFFICES ASSUME RequestsInit PROVE RequestsInv
  OBVIOUS
<1> USE CapacityAssumption DEF RequestsInit, RingInit
<1>1. RequestsType
  BY DEF RequestsType, Slots
<1>2. CountInv /\ ArmInv /\ PopInv
  BY DEF CountInv, ArmInv, ArmKnows, PopInv
<1>3. \A p \in 0 .. Capacity - 1 : sequence[SlotOf(p)] = p
  BY SlotOfSmall DEF Slots
<1>4. CellInv
  BY <1>3 DEF CellInv
<1> QED
  BY <1>1, <1>2, <1>4 DEF RequestsInv

\* Where a callback is.
ArmType ==
  [pc : {"idle", "scan", "claim", "write", "publish"}, position : Nat, request : Payloads \cup {Cleared}]

\* Appending to a sequence.
LEMMA AppendFacts ==
  ASSUME NEW S, NEW s \in Seq(S), NEW x \in S
  PROVE  /\ Append(s, x) \in Seq(S) /\ Len(Append(s, x)) = Len(s) + 1 /\ Append(s, x)[Len(s) + 1] = x
         /\ \A k \in 1 .. Len(s) : Append(s, x)[k] = s[k]
OBVIOUS

\* A callback that only looks: it has no ticket before nor after.
LEMMA ArmLooks ==
  ASSUME RequestsInv, NEW c \in Callbacks, arm[c].pc \notin {"write", "publish"},
         arm' \in [Callbacks -> ArmType], \A b \in Callbacks : b # c => arm'[b] = arm[b],
         arm'[c].pc \notin {"write", "publish"},
         arm'[c].pc # "idle" => arm'[c].request \in Payloads /\ arm'[c].position <= enqueue_position,
         arm'[c].pc = "claim" => sequence[SlotOf(arm'[c].position)] = arm'[c].position,
         UNCHANGED <<ringVars, requests, pop, log, delivered>>
  PROVE  RequestsInv'
<1> USE DEF ringVars
<1>0. RequestsType /\ CountInv /\ CellInv /\ ArmInv /\ PopInv
  BY DEF RequestsInv
<1>1. RequestsType'
  BY <1>0 DEF RequestsType, ArmType
<1>2. CountInv' /\ PopInv'
  BY <1>0 DEF CountInv, PopInv
<1>4. \A b \in Callbacks, q \in Nat : Writes(b, q)' <=> Writes(b, q)
  BY DEF Writes
<1>5. CellInv'
  BY <1>0, <1>4, CapacityAssumption DEF CellInv, RequestsType
<1>6. ArmInv'
  BY <1>0 DEF ArmInv, ArmKnows, Writes
<1> QED
  BY <1>1, <1>2, <1>5, <1>6 DEF RequestsInv

\* The loads and the failed compare-and-swap.
LEMMA ArmLooksInv ==
  ASSUME RequestsInv, NEW c \in Callbacks,
         (\E r \in Payloads : ArmLoad(c, r)) \/ ArmScan(c) \/ ArmCasFail(c)
  PROVE  RequestsInv'
<1>0. RequestsType /\ ArmInv
  BY DEF RequestsInv
<1>1. /\ arm \in [Callbacks -> ArmType] /\ enqueue_position \in Nat
      /\ sequence[SlotOf(arm[c].position)] \in Nat /\ arm[c].position \in Nat
  BY <1>0, SlotOfType DEF RequestsType, ArmType
<1>2. arm[c].pc \notin {"write", "publish"} /\ UNCHANGED <<ringVars, requests, pop, log, delivered>>
  BY DEF ArmLoad, ArmScan, ArmCasFail
<1>3. arm[c].pc # "idle" => arm[c].request \in Payloads /\ arm[c].position <= enqueue_position
  BY <1>0, <1>1, <1>2 DEF ArmInv, ArmKnows, ArmType
<1>4. arm' \in [Callbacks -> ArmType] /\ \A b \in Callbacks : b # c => arm'[b] = arm[b]
  BY <1>1 DEF ArmLoad, ArmScan, ArmCasFail, ArmGoto, ArmType
<1>5. /\ arm'[c].pc \notin {"write", "publish"}
      /\ arm'[c].pc # "idle" => arm'[c].request \in Payloads /\ arm'[c].position <= enqueue_position
      /\ arm'[c].pc = "claim" => sequence[SlotOf(arm'[c].position)] = arm'[c].position
  BY <1>1, <1>3 DEF ArmLoad, ArmScan, ArmCasFail, ArmGoto, ArmType
<1> QED
  BY <1>2, <1>4, <1>5, ArmLooks

\* A ticket whose slot is free for it is less than a lap ahead of the oldest
\* that was not popped.
LEMMA ClaimHasRoom ==
  ASSUME RequestsInv, NEW c \in Callbacks, ArmCas(c)
  PROVE  enqueue_position < Len(delivered) + Capacity
<1> USE CapacityAssumption
<1>0. RequestsType /\ CountInv /\ CellInv /\ ArmInv
  BY DEF RequestsInv
<1>e. PICK e \in Nat : e = enqueue_position
  BY <1>0 DEF RequestsType
<1>1. Len(delivered) \in Nat /\ sequence[SlotOf(e)] = e
  BY <1>0, <1>e DEF RequestsType, ArmInv, ArmKnows, ArmCas
<1>2. SUFFICES ASSUME e = Len(delivered) + Capacity PROVE FALSE
  <2>1. e <= Len(delivered) + Capacity
    BY <1>0, <1>e DEF CountInv
  <2> QED
    BY <1>e, <1>1, <2>1
<1>3. SlotOf(e) = SlotOf(Len(delivered))
  BY <1>1, <1>2, SlotOfLap
<1>4. sequence[SlotOf(Len(delivered))] \in {Len(delivered), Len(delivered) + 1}
  <2>1. Len(delivered) \in Len(delivered) .. enqueue_position - 1
    BY <1>e, <1>1, <1>2
  <2> QED
    BY <1>0, <2>1 DEF CellInv
<1> QED
  BY <1>1, <1>2, <1>3, <1>4

\* A ticket is claimed: its request is the newest that waits.
LEMMA ArmCasInv ==
  ASSUME RequestsInv, NEW c \in Callbacks, ArmCas(c)
  PROVE  RequestsInv'
<1> USE CapacityAssumption
<1>e. PICK e : e = enqueue_position
  OBVIOUS
<1>0. RequestsType /\ CountInv /\ CellInv /\ ArmInv /\ PopInv
  BY DEF RequestsInv
<1>1. /\ enqueue_position' = e + 1 /\ UNCHANGED <<sequence, dequeue_position, requests, pop, delivered>>
      /\ arm[c].pc = "claim" /\ arm[c].position = e /\ log' = Append(log, arm[c].request)
  BY <1>e DEF ArmCas
<1>2. e \in Nat /\ dequeue_position \in Nat /\ Len(delivered) \in Nat /\ sequence[SlotOf(e)] = e
      /\ arm[c].request \in Payloads
  BY <1>0, <1>e, <1>1 DEF RequestsType, ArmInv, ArmKnows
<1>3. /\ arm' \in [Callbacks -> ArmType] /\ \A b \in Callbacks : b # c => arm'[b] = arm[b]
      /\ arm'[c].pc = "write" /\ arm'[c].position = e /\ arm'[c].request = arm[c].request
  BY <1>0, <1>e, <1>1 DEF ArmCas, ArmGoto, RequestsType, ArmType
<1>4. /\ log' \in Seq(Payloads) /\ Len(log') = e + 1 /\ log'[e + 1] = arm[c].request
      /\ \A k \in 1 .. e : log'[k] = log[k]
  <2>1. log \in Seq(Payloads) /\ Len(log) = e
    BY <1>0, <1>e DEF RequestsType, CountInv
  <2> QED
    BY <1>1, <1>2, <2>1, AppendFacts
<1>5. e < Len(delivered) + Capacity
  BY <1>e, ClaimHasRoom
<1>6. RequestsType'
  BY <1>0, <1>e, <1>1, <1>2, <1>3, <1>4 DEF RequestsType, ArmType
<1>7. CountInv'
  BY <1>0, <1>e, <1>1, <1>2, <1>4, <1>5 DEF CountInv
<1>8. \A b \in Callbacks, q \in Nat : Writes(b, q)' <=> Writes(b, q) \/ (b = c /\ q = e)
  BY <1>1, <1>2, <1>3 DEF Writes
<1>9. CellInv'
  <2>1. ASSUME NEW p \in Len(delivered) .. e
        PROVE  \/ sequence[SlotOf(p)] = p /\ dequeue_position <= p /\ \E b \in Callbacks : Writes(b, p)'
               \/ sequence[SlotOf(p)] = p + 1 /\ requests[SlotOf(p)] = log'[p + 1]
    <3>1. CASE p = e
      BY <1>0, <1>e, <1>2, <1>8, <3>1 DEF CountInv
    <3>2. CASE p # e
      <4>1. p \in Nat /\ p \in Len(delivered) .. e - 1 /\ p + 1 \in 1 .. e
        BY <1>2, <3>2
      <4> QED
        BY <1>0, <1>e, <1>4, <1>8, <4>1 DEF CellInv
    <3> QED
      BY <3>1, <3>2
  <2>2. \A p \in 0 .. e : sequence[SlotOf(p)] >= p
    BY <1>0, <1>e, <1>2 DEF CellInv
  <2>3. \A p \in e + 1 .. Len(delivered) + Capacity - 1 : sequence[SlotOf(p)] = p
    BY <1>0, <1>e, <1>2 DEF CellInv
  <2>4. enqueue_position' - 1 = e /\ Len(delivered') = Len(delivered)
    BY <1>1, <1>2
  <2> QED
    BY <1>1, <1>2, <2>1, <2>2, <2>3, <2>4 DEF CellInv
<1>10. ArmInv'
  <2>1. \A b \in Callbacks : arm[b].position \in Nat /\ ArmKnows(b)
    BY <1>0 DEF RequestsType, ArmInv
  <2>2. ~(\E b \in Callbacks : Writes(b, e))
    BY <1>2, <1>e, <2>1 DEF ArmKnows, Writes
  <2>3. ASSUME NEW b \in Callbacks, b # c PROVE ArmKnows(b)'
    <3>1. arm'[b] = arm[b] /\ arm[b].position \in Nat /\ ArmKnows(b)
      BY <1>3, <2>1, <2>3
    <3>2. arm[b].pc \in {"scan", "claim"} => arm[b].position <= e /\ arm[b].position # e + 1
      BY <1>2, <1>e, <3>1 DEF ArmKnows
    <3>q. PICK q \in Nat : q = arm[b].position /\ q = arm'[b].position
      BY <3>1
    <3>3. ASSUME arm[b].pc \in {"write", "publish"}
          PROVE  q < e + 1 /\ arm[b].request = log'[q + 1] /\ \A a \in Callbacks : Writes(a, q)' => a = b
      <4>1. q < e /\ q + 1 \in 1 .. e /\ arm[b].request = log[q + 1] /\ \A a \in Callbacks : Writes(a, q) => a = b
        BY <1>2, <1>e, <3>1, <3>q, <3>3 DEF ArmKnows, Writes
      <4> QED
        BY <1>2, <1>4, <1>8, <4>1
    <3> QED
      <4>1. CASE arm[b].pc \in {"write", "publish"}
        <5>1. /\ dequeue_position <= q /\ sequence[SlotOf(q)] = q /\ arm[b].request \in Payloads
              /\ arm[b].pc = "publish" => requests[SlotOf(q)] = arm[b].request
          BY <3>1, <3>q, <4>1 DEF ArmKnows
        <5>2. \A a \in Callbacks : Writes(a, arm[b].position)' => a = b
          BY <3>q, <3>3, <4>1 DEF Writes
        <5> QED
          BY <1>1, <3>1, <3>q, <3>3, <4>1, <5>1, <5>2 DEF ArmKnows
      <4>2. CASE arm[b].pc \notin {"write", "publish"}
        BY <1>1, <1>2, <3>1, <3>2, <4>2 DEF ArmKnows
      <4> QED
        BY <4>1, <4>2
  <2>4. ArmKnows(c)'
    <3>1. \A a \in Callbacks : Writes(a, e)' => a = c
      BY <1>2, <1>8, <2>2
    <3>2. dequeue_position <= e
      BY <1>0, <1>e DEF CountInv
    <3> QED
      BY <1>1, <1>2, <1>3, <1>4, <1>e, <3>1, <3>2 DEF ArmKnows, Writes
  <2> QED
    BY <2>3, <2>4 DEF ArmInv
<1>11. PopInv'
  <2>1. pop.pc = "release" => pop.position + 1 \in 1 .. e
    BY <1>0, <1>e, <1>2 DEF PopInv, CountInv, RequestsType
  <2> QED
    BY <1>0, <1>e, <1>1, <1>2, <1>4, <2>1 DEF PopInv
<1> QED
  BY <1>6, <1>7, <1>9, <1>10, <1>11 DEF RequestsInv

\* The tickets in the ring have different slots, and only their own callback
\* writes to one.
LEMMA TicketsApart ==
  ASSUME RequestsInv,
         NEW p \in Len(delivered) .. Len(delivered) + Capacity - 1,
         NEW q \in Len(delivered) .. Len(delivered) + Capacity - 1, p # q
  PROVE  SlotOf(p) # SlotOf(q)
<1>1. Len(delivered) \in Nat
  BY DEF RequestsInv, RequestsType
<1>2. p \in Nat /\ q \in Nat /\ p < q + Capacity /\ q < p + Capacity
  BY <1>1, CapacityAssumption
<1> QED
  BY <1>2, SlotsApart

\* The contents of a ticket that its callback has claimed and not published.
LEMMA ArmWriteInv ==
  ASSUME RequestsInv, NEW c \in Callbacks, ArmWrite(c)
  PROVE  RequestsInv'
<1> USE CapacityAssumption
<1>0. RequestsType /\ CountInv /\ CellInv /\ ArmInv /\ PopInv
  BY DEF RequestsInv
<1>q. PICK q \in Nat : q = arm[c].position
  BY <1>0 DEF RequestsType
<1>1. /\ UNCHANGED <<sequence, enqueue_position, dequeue_position, pop, log, delivered>>
      /\ arm[c].pc = "write" /\ requests' = [requests EXCEPT ![SlotOf(q)] = arm[c].request]
  BY <1>q DEF ArmWrite, ringVars
<1>2. /\ arm' \in [Callbacks -> ArmType] /\ \A b \in Callbacks : b # c => arm'[b] = arm[b]
      /\ arm'[c].pc = "publish" /\ arm'[c].position = q /\ arm'[c].request = arm[c].request
  BY <1>0, <1>1, <1>q DEF ArmWrite, ArmGoto, RequestsType, ArmType
<1>3. /\ enqueue_position \in Nat /\ dequeue_position \in Nat /\ Len(delivered) \in Nat
      /\ Len(delivered) <= dequeue_position /\ enqueue_position <= Len(delivered) + Capacity
  BY <1>0 DEF RequestsType, CountInv
<1>4. /\ dequeue_position <= q /\ q < enqueue_position /\ sequence[SlotOf(q)] = q
      /\ arm[c].request \in Payloads /\ arm[c].request = log[q + 1]
      /\ \A b \in Callbacks : Writes(b, q) => b = c
  BY <1>0, <1>1, <1>q DEF ArmInv, ArmKnows, Writes
<1>5. SlotOf(q) \in Slots /\ \A i \in Slots : requests'[i] = IF i = SlotOf(q) THEN log[q + 1] ELSE requests[i]
  BY <1>0, <1>1, <1>4, SlotOfType DEF RequestsType
<1>6. \A p \in Len(delivered) .. enqueue_position - 1 : p # q => SlotOf(p) # SlotOf(q) /\ SlotOf(p) \in Slots
  BY <1>3, <1>4, TicketsApart, SlotOfType
<1>7. RequestsType'
  BY <1>0, <1>1, <1>2, <1>4 DEF RequestsType, ArmType
<1>8. CountInv' /\ PopInv'
  BY <1>0, <1>1 DEF CountInv, PopInv
<1>9. \A b \in Callbacks, p \in Nat : Writes(b, p)' <=> Writes(b, p)
  BY <1>1, <1>2, <1>q DEF Writes
<1>10. CellInv'
  <2>1. ASSUME NEW p \in Len(delivered) .. enqueue_position - 1
        PROVE  \/ sequence[SlotOf(p)] = p /\ dequeue_position <= p /\ \E b \in Callbacks : Writes(b, p)'
               \/ sequence[SlotOf(p)] = p + 1 /\ requests'[SlotOf(p)] = log[p + 1]
    <3>1. p \in Nat
      BY <1>3
    <3>2. \/ sequence[SlotOf(p)] = p /\ dequeue_position <= p /\ \E b \in Callbacks : Writes(b, p)
          \/ sequence[SlotOf(p)] = p + 1 /\ requests[SlotOf(p)] = log[p + 1]
      BY <1>0 DEF CellInv
    <3>3. p = q \/ requests'[SlotOf(p)] = requests[SlotOf(p)]
      BY <1>5, <1>6
    <3> QED
      BY <1>4, <1>9, <3>1, <3>2, <3>3
  <2> QED
    BY <1>0, <1>1, <2>1 DEF CellInv
<1>11. ArmInv'
  <2>1. ASSUME NEW b \in Callbacks, b # c PROVE ArmKnows(b)'
    <3>1. arm'[b] = arm[b] /\ ArmKnows(b) /\ arm[b].position \in Nat
      BY <1>0, <1>2, <2>1 DEF RequestsType, ArmInv
    <3>2. CASE arm[b].pc \in {"write", "publish"}
      <4>1. PICK p \in Nat : p = arm[b].position
        BY <3>1
      <4>2. dequeue_position <= p /\ p < enqueue_position /\ \A a \in Callbacks : Writes(a, p) => a = b
        BY <3>1, <3>2, <4>1 DEF ArmKnows, Writes
      <4>3. p # q
        BY <1>4, <2>1, <3>2, <4>1 DEF Writes
      <4>4. requests'[SlotOf(p)] = requests[SlotOf(p)]
        BY <1>3, <1>5, <1>6, <4>2, <4>3
      <4>5. \A a \in Callbacks : Writes(a, p)' => a = b
        BY <1>9, <4>2
      <4>6. \A a \in Callbacks : Writes(a, arm[b].position)' => a = b
        BY <3>1, <4>1, <4>5 DEF Writes
      <4> QED
        BY <1>1, <3>1, <3>2, <4>1, <4>4, <4>6 DEF ArmKnows
    <3>3. CASE arm[b].pc \notin {"write", "publish"}
      BY <1>1, <3>1, <3>3 DEF ArmKnows
    <3> QED
      BY <3>2, <3>3
  <2>2. ArmKnows(c)'
    <3>1. \A a \in Callbacks : Writes(a, q)' => a = c
      BY <1>4, <1>9
    <3> QED
      BY <1>1, <1>2, <1>4, <1>5, <3>1 DEF ArmKnows, Writes
  <2> QED
    BY <2>1, <2>2 DEF ArmInv
<1> QED
  BY <1>7, <1>8, <1>10, <1>11 DEF RequestsInv

\* The sequence number says that the contents are there.
LEMMA ArmPublishInv ==
  ASSUME RequestsInv, NEW c \in Callbacks, ArmPublish(c)
  PROVE  RequestsInv'
<1> USE CapacityAssumption
<1>0. RequestsType /\ CountInv /\ CellInv /\ ArmInv /\ PopInv
  BY DEF RequestsInv
<1>q. PICK q \in Nat : q = arm[c].position
  BY <1>0 DEF RequestsType
<1>1. /\ UNCHANGED <<enqueue_position, dequeue_position, requests, pop, log, delivered>>
      /\ arm[c].pc = "publish" /\ sequence' = [sequence EXCEPT ![SlotOf(q)] = q + 1]
  BY <1>q DEF ArmPublish
<1>2. /\ arm' \in [Callbacks -> ArmType] /\ \A b \in Callbacks : b # c => arm'[b] = arm[b]
      /\ arm'[c].pc = "idle"
  <2>1. arm' = [arm EXCEPT ![c].pc = "idle"] /\ arm \in [Callbacks -> ArmType]
    BY <1>0 DEF ArmPublish, ArmGoto, RequestsType, ArmType
  <2> QED
    BY <2>1 DEF ArmType
<1>3. /\ enqueue_position \in Nat /\ dequeue_position \in Nat /\ Len(delivered) \in Nat
      /\ Len(delivered) <= dequeue_position /\ enqueue_position <= Len(delivered) + Capacity
  BY <1>0 DEF RequestsType, CountInv
<1>4. /\ dequeue_position <= q /\ q < enqueue_position /\ sequence[SlotOf(q)] = q
      /\ requests[SlotOf(q)] = log[q + 1]
      /\ \A b \in Callbacks : Writes(b, q) => b = c
  BY <1>0, <1>1, <1>q DEF ArmInv, ArmKnows, Writes
<1>5. SlotOf(q) \in Slots /\ \A i \in Slots : sequence'[i] = IF i = SlotOf(q) THEN q + 1 ELSE sequence[i]
  BY <1>0, <1>1, <1>4, SlotOfType DEF RequestsType
<1>6. \A p \in Len(delivered) .. Len(delivered) + Capacity - 1 :
        p # q => p \in Nat /\ sequence'[SlotOf(p)] = sequence[SlotOf(p)]
  BY <1>3, <1>4, <1>5, TicketsApart, SlotOfType
<1>7. RequestsType'
  BY <1>0, <1>1, <1>2, <1>5 DEF RequestsType, ArmType
<1>8. CountInv'
  BY <1>0, <1>1 DEF CountInv
<1>9. \A b \in Callbacks, p \in Nat : p # q => (Writes(b, p)' <=> Writes(b, p))
  BY <1>1, <1>2, <1>q DEF Writes
<1>10. CellInv'
  <2>1. ASSUME NEW p \in Len(delivered) .. enqueue_position - 1
        PROVE  \/ sequence'[SlotOf(p)] = p /\ dequeue_position <= p /\ \E b \in Callbacks : Writes(b, p)'
               \/ sequence'[SlotOf(p)] = p + 1 /\ requests[SlotOf(p)] = log[p + 1]
    <3>1. CASE p = q
      BY <1>4, <1>5, <3>1
    <3>2. CASE p # q
      <4>1. p \in Nat /\ sequence'[SlotOf(p)] = sequence[SlotOf(p)]
        BY <1>3, <1>6, <3>2
      <4> QED
        BY <1>0, <1>9, <3>2, <4>1 DEF CellInv
    <3> QED
      BY <3>1, <3>2
  <2>2. \A p \in enqueue_position .. Len(delivered) + Capacity - 1 : sequence'[SlotOf(p)] = p
    BY <1>0, <1>3, <1>4, <1>6 DEF CellInv
  <2>3. \A p \in 0 .. enqueue_position - 1 : sequence'[SlotOf(p)] >= p
    <3>1. SUFFICES ASSUME NEW p \in 0 .. enqueue_position - 1 PROVE sequence'[SlotOf(p)] >= p
      OBVIOUS
    <3>2. /\ p \in Nat /\ SlotOf(p) \in Slots
          /\ sequence[SlotOf(p)] >= p /\ sequence[SlotOf(p)] \in Nat
      <4>1. p \in Nat
        BY <1>3
      <4>2. SlotOf(p) \in Slots
        BY <4>1, SlotOfType
      <4> QED
        BY <1>0, <4>1, <4>2 DEF CellInv, RequestsType
    <3>3. sequence'[SlotOf(p)] = sequence[SlotOf(p)] \/ (sequence'[SlotOf(p)] = q + 1 /\ sequence[SlotOf(p)] = q)
      BY <1>4, <1>5, <3>2
    <3> QED
      BY <3>2, <3>3
  <2> QED
    BY <1>1, <2>1, <2>2, <2>3 DEF CellInv
<1>11. ArmInv'
  <2>1. ASSUME NEW b \in Callbacks, b # c PROVE ArmKnows(b)'
    <3>1. arm'[b] = arm[b] /\ ArmKnows(b)
      BY <1>0, <1>2, <2>1 DEF RequestsType, ArmInv
    <3>2. PICK p \in Nat : p = arm[b].position
      BY <1>0 DEF RequestsType
    <3>3. CASE arm[b].pc \in {"write", "publish"}
      <4>1. /\ dequeue_position <= p /\ p < enqueue_position /\ \A a \in Callbacks : Writes(a, p) => a = b
            /\ sequence[SlotOf(p)] = p
        BY <3>1, <3>2, <3>3 DEF ArmKnows, Writes
      <4>2. p # q
        BY <1>4, <2>1, <3>2, <3>3 DEF Writes
      <4>3. sequence'[SlotOf(p)] = p
        BY <1>3, <1>6, <4>1, <4>2
      <4>4. \A a \in Callbacks : Writes(a, p)' => a = b
        BY <1>9, <4>1, <4>2
      <4>5. \A a \in Callbacks : Writes(a, arm[b].position)' => a = b
        BY <3>1, <3>2, <4>4 DEF Writes
      <4> QED
        BY <1>1, <3>1, <3>2, <3>3, <4>3, <4>5 DEF ArmKnows
    <3>4. CASE arm[b].pc \notin {"write", "publish"}
      <4>1. arm[b].pc = "claim" /\ p = enqueue_position => sequence'[SlotOf(p)] = sequence[SlotOf(p)]
        <5>1. SUFFICES ASSUME arm[b].pc = "claim", p = enqueue_position, SlotOf(p) = SlotOf(q) PROVE FALSE
          BY <1>5, SlotOfType
        <5>2. sequence[SlotOf(p)] = p
          BY <3>1, <3>2, <5>1 DEF ArmKnows
        <5> QED
          BY <1>3, <1>4, <5>1, <5>2
      <4> QED
        BY <1>1, <3>1, <3>2, <3>4, <4>1 DEF ArmKnows
    <3> QED
      BY <3>3, <3>4
  <2>2. ArmKnows(c)'
    BY <1>2 DEF ArmKnows
  <2> QED
    BY <2>1, <2>2 DEF ArmInv
<1>12. PopInv'
  <2>1. pop.position \in Nat /\ (pop.pc \in {"advance", "copy", "release"} => sequence[SlotOf(pop.position)] = pop.position + 1)
    BY <1>0 DEF PopInv, RequestsType
  <2>2. pop.pc \in {"advance", "copy", "release"} =>
          /\ pop.position \in Len(delivered) .. Len(delivered) + Capacity - 1
          /\ pop.position # q
    <3>1. pop.pc = "advance" => pop.position = dequeue_position /\ dequeue_position < enqueue_position
      BY <1>0 DEF PopInv
    <3>2. pop.pc \in {"copy", "release"} => pop.position = Len(delivered)
      BY <1>0 DEF PopInv
    <3>3. pop.pc \in {"advance", "copy", "release"} => pop.position # q
      BY <1>4, <2>1
    <3> QED
      BY <1>3, <2>1, <3>1, <3>2, <3>3
  <2>3. pop.pc \in {"advance", "copy", "release"} => sequence'[SlotOf(pop.position)] = sequence[SlotOf(pop.position)]
    BY <1>6, <2>2
  <2> QED
    BY <1>0, <1>1, <2>3 DEF PopInv
<1> QED
  BY <1>7, <1>8, <1>10, <1>11, <1>12 DEF RequestsInv

\* What request_pop does before it gives the slot back leaves the tickets
\* alone; the contents it copies are those of the oldest.
LEMMA PopLooksInv ==
  ASSUME RequestsInv, PopLoad \/ PopScan \/ PopAdvance \/ PopCopy
  PROVE  RequestsInv'
<1> USE CapacityAssumption
<1>0. RequestsType /\ CountInv /\ CellInv /\ ArmInv /\ PopInv
  BY DEF RequestsInv
<1>1. UNCHANGED <<sequence, enqueue_position, requests, arm, log, delivered>>
  BY DEF PopLoad, PopScan, PopAdvance, PopCopy, ringVars
<1>2. /\ dequeue_position \in Nat /\ enqueue_position \in Nat /\ Len(delivered) \in Nat /\ pop.position \in Nat
      /\ dequeue_position <= enqueue_position
  BY <1>0 DEF RequestsType, CountInv
<1>3. \A b, p : Writes(b, p)' <=> Writes(b, p)
  BY <1>1 DEF Writes
<1>4. CASE PopLoad
  <2>1. /\ pop'.pc = "scan" /\ pop'.position = dequeue_position /\ pop'.output = pop.output
        /\ pop.pc = "idle" /\ UNCHANGED dequeue_position
    BY <1>0, <1>4 DEF PopLoad, RequestsType, ringVars
  <2>2. RequestsType'
    BY <1>0, <1>1, <1>2, <1>4, <2>1 DEF RequestsType, PopLoad
  <2>3. CountInv' /\ PopInv'
    BY <1>0, <1>1, <2>1 DEF CountInv, PopInv
  <2>4. CellInv' /\ ArmInv'
    BY <1>0, <1>1, <1>3, <2>1 DEF CellInv, ArmInv, ArmKnows
  <2> QED
    BY <2>2, <2>3, <2>4 DEF RequestsInv
<1>5. CASE PopScan
  <2>1. /\ pop.pc = "scan" /\ UNCHANGED dequeue_position /\ pop'.position = pop.position /\ pop.position = dequeue_position
        /\ \/ pop'.pc = "idle"
           \/ pop'.pc = "advance" /\ sequence[SlotOf(dequeue_position)] = dequeue_position + 1
    BY <1>0, <1>5 DEF PopScan, PopGoto, PopInv, RequestsType, ringVars
  <2>2. RequestsType'
    BY <1>0, <1>1, <1>5, <2>1 DEF RequestsType, PopScan, PopGoto
  <2>3. CountInv'
    BY <1>0, <1>1, <2>1 DEF CountInv
  <2>4. CellInv' /\ ArmInv'
    BY <1>0, <1>1, <1>3, <2>1 DEF CellInv, ArmInv, ArmKnows
  <2>5. pop'.pc = "advance" => dequeue_position < enqueue_position
    <3>1. Len(delivered) = dequeue_position
      BY <1>0, <2>1 DEF CountInv
    <3>2. dequeue_position = enqueue_position => sequence[SlotOf(dequeue_position)] = dequeue_position
      BY <1>0, <1>2, <3>1 DEF CellInv
    <3> QED
      BY <1>2, <2>1, <3>2
  <2>6. PopInv'
    BY <1>0, <1>1, <2>1, <2>5 DEF PopInv
  <2> QED
    BY <2>2, <2>3, <2>4, <2>6 DEF RequestsInv
<1>6. CASE PopAdvance
  <2>1. /\ pop.pc = "advance" /\ pop'.pc = "copy" /\ pop'.position = pop.position /\ pop'.output = pop.output
        /\ pop.position = dequeue_position /\ dequeue_position' = dequeue_position + 1
        /\ dequeue_position < enqueue_position /\ sequence[SlotOf(dequeue_position)] = dequeue_position + 1
        /\ Len(delivered) = dequeue_position
    BY <1>0, <1>6 DEF PopAdvance, PopGoto, PopInv, CountInv, RequestsType
  <2>2. RequestsType'
    <3>1. pop' = [pop EXCEPT !.pc = "copy"]
      BY <1>6 DEF PopAdvance, PopGoto
    <3>2. dequeue_position' \in Nat
      BY <1>2, <2>1
    <3> QED
      BY <1>0, <1>1, <3>1, <3>2 DEF RequestsType
  <2>3. CountInv' /\ PopInv'
    BY <1>0, <1>1, <1>2, <2>1 DEF CountInv, PopInv
  <2>4. CellInv'
    <3>1. ASSUME NEW p \in Len(delivered) .. enqueue_position - 1, sequence[SlotOf(p)] = p, dequeue_position <= p
          PROVE  dequeue_position + 1 <= p
      BY <1>2, <2>1, <3>1
    <3> QED
      BY <1>0, <1>1, <1>3, <2>1, <3>1 DEF CellInv
  <2>5. ArmInv'
    <3>1. ASSUME NEW b \in Callbacks, arm[b].pc \in {"write", "publish"}
          PROVE  dequeue_position + 1 <= arm[b].position
      <4>1. /\ arm[b].position \in Nat /\ dequeue_position <= arm[b].position
            /\ sequence[SlotOf(arm[b].position)] = arm[b].position
        BY <1>0, <3>1 DEF RequestsType, ArmInv, ArmKnows
      <4> QED
        BY <1>2, <2>1, <4>1
    <3> QED
      BY <1>0, <1>1, <1>3, <2>1, <3>1 DEF ArmInv, ArmKnows
  <2> QED
    BY <2>2, <2>3, <2>4, <2>5 DEF RequestsInv
<1>7. CASE PopCopy
  <2>1. /\ pop.pc = "copy" /\ pop'.pc = "release" /\ pop'.position = pop.position
        /\ pop'.output = requests[SlotOf(pop.position)] /\ UNCHANGED dequeue_position
        /\ pop.position = Len(delivered) /\ sequence[SlotOf(pop.position)] = pop.position + 1
        /\ Len(delivered) = dequeue_position - 1
    BY <1>0, <1>7 DEF PopCopy, PopInv, CountInv, RequestsType, ringVars
  <2>2. requests[SlotOf(pop.position)] = log[pop.position + 1]
    BY <1>0, <1>2, <2>1 DEF CellInv
  <2>3. RequestsType'
    BY <1>0, <1>1, <1>2, <1>7, <2>1, SlotOfType DEF RequestsType, PopCopy
  <2>4. CountInv' /\ PopInv'
    BY <1>0, <1>1, <1>2, <2>1, <2>2 DEF CountInv, PopInv
  <2>5. CellInv' /\ ArmInv'
    BY <1>0, <1>1, <1>3, <2>1 DEF CellInv, ArmInv, ArmKnows
  <2> QED
    BY <2>3, <2>4, <2>5 DEF RequestsInv
<1> QED
  BY <1>4, <1>5, <1>6, <1>7

\* The slot of the oldest ticket is given back, and its request returned.
LEMMA PopReleaseInv ==
  ASSUME RequestsInv, PopRelease
  PROVE  RequestsInv'
<1> USE CapacityAssumption
<1>0. RequestsType /\ CountInv /\ CellInv /\ ArmInv /\ PopInv
  BY DEF RequestsInv
<1>n. PICK n \in Nat : n = Len(delivered)
  BY <1>0 DEF RequestsType
<1>1. /\ UNCHANGED <<enqueue_position, dequeue_position, requests, arm, log>>
      /\ pop.pc = "release" /\ pop'.pc = "idle" /\ pop.position = n /\ pop'.output = pop.output
      /\ sequence' = [sequence EXCEPT ![SlotOf(n)] = n + Capacity] /\ sequence[SlotOf(n)] = n + 1
      /\ delivered' = Append(delivered, log[n + 1]) /\ dequeue_position = n + 1
  <2>1. /\ pop.pc = "release" /\ pop' = [pop EXCEPT !.pc = "idle"]
        /\ sequence' = [sequence EXCEPT ![SlotOf(pop.position)] = pop.position + Capacity]
        /\ delivered' = Append(delivered, pop.output)
        /\ UNCHANGED <<enqueue_position, dequeue_position, requests, arm, log>>
    BY DEF PopRelease, PopGoto
  <2>2. /\ pop.position = n /\ pop.output = log[n + 1] /\ sequence[SlotOf(n)] = n + 1
    BY <1>0, <1>n, <2>1 DEF PopInv
  <2>3. dequeue_position = n + 1
    BY <1>0, <1>n, <2>1 DEF CountInv, RequestsType
  <2>4. pop'.pc = "idle" /\ pop'.output = pop.output
    BY <1>0, <2>1 DEF RequestsType
  <2> QED
    BY <2>1, <2>2, <2>3, <2>4
<1>2. /\ enqueue_position \in Nat /\ n + 1 <= enqueue_position /\ enqueue_position <= n + Capacity
      /\ Len(log) = enqueue_position /\ log \in Seq(Payloads) /\ delivered \in Seq(Payloads)
  BY <1>0, <1>1, <1>n DEF RequestsType, CountInv
<1>3. log[n + 1] \in Payloads
  BY <1>2
<1>4. /\ delivered' \in Seq(Payloads) /\ Len(delivered') = n + 1 /\ delivered'[n + 1] = log[n + 1]
      /\ \A k \in 1 .. n : delivered'[k] = delivered[k]
  BY <1>1, <1>2, <1>3, <1>n, AppendFacts
<1>5. \A b, p : Writes(b, p)' <=> Writes(b, p)
  BY <1>1 DEF Writes
<1>6. SlotOf(n) \in Slots /\ \A i \in Slots : sequence'[i] = IF i = SlotOf(n) THEN n + Capacity ELSE sequence[i]
  BY <1>0, <1>1, SlotOfType DEF RequestsType
<1>7. \A p \in n + 1 .. n + Capacity - 1 : p \in Nat /\ sequence'[SlotOf(p)] = sequence[SlotOf(p)]
  BY <1>6, <1>n, TicketsApart, SlotOfType
<1>8. RequestsType'
  <2>1. pop' = [pop EXCEPT !.pc = "idle"]
    BY DEF PopRelease, PopGoto
  <2>2. sequence' \in [Slots -> Nat]
    <3>1. n + Capacity \in Nat /\ sequence \in [Slots -> Nat]
      BY <1>0 DEF RequestsType
    <3> QED
      BY <1>1, <3>1
  <2> QED
    BY <1>0, <1>1, <1>4, <2>1, <2>2 DEF RequestsType
<1>9. CountInv'
  <2>1. \A k \in 1 .. n + 1 : delivered'[k] = log[k]
    BY <1>0, <1>4, <1>n DEF CountInv
  <2> QED
    BY <1>1, <1>2, <1>4, <2>1 DEF CountInv
<1>10. CellInv'
  <2>1. ASSUME NEW p \in n + 1 .. enqueue_position - 1
        PROVE  \/ sequence'[SlotOf(p)] = p /\ dequeue_position <= p /\ \E b \in Callbacks : Writes(b, p)'
               \/ sequence'[SlotOf(p)] = p + 1 /\ requests[SlotOf(p)] = log[p + 1]
    <3>1. p \in n .. enqueue_position - 1 /\ sequence'[SlotOf(p)] = sequence[SlotOf(p)]
      BY <1>2, <1>7
    <3> QED
      BY <1>0, <1>5, <1>n, <3>1 DEF CellInv
  <2>2. ASSUME NEW p \in enqueue_position .. n + Capacity PROVE sequence'[SlotOf(p)] = p
    <3>1. CASE p = n + Capacity
      <4>1. SlotOf(n + Capacity) = SlotOf(n)
        BY SlotOfLap
      <4> QED
        BY <1>6, <3>1, <4>1
    <3>2. CASE p # n + Capacity
      <4>1. p \in enqueue_position .. n + Capacity - 1 /\ sequence'[SlotOf(p)] = sequence[SlotOf(p)]
        BY <1>2, <1>7, <3>2
      <4> QED
        BY <1>0, <1>n, <4>1 DEF CellInv
    <3> QED
      BY <3>1, <3>2
  <2>3. ASSUME NEW p \in 0 .. enqueue_position - 1 PROVE sequence'[SlotOf(p)] >= p
    <3>1. p \in Nat
      BY <1>2
    <3>2. SlotOf(p) \in Slots
      BY <3>1, SlotOfType
    <3>3. sequence[SlotOf(p)] >= p /\ sequence[SlotOf(p)] \in Nat
      BY <1>0, <3>2 DEF CellInv, RequestsType
    <3>4. sequence'[SlotOf(p)] \in {sequence[SlotOf(p)], n + Capacity}
      BY <1>6, <3>2
    <3> QED
      BY <1>2, <3>1, <3>3, <3>4
  <2>4. Len(delivered') = n + 1 /\ Len(delivered') + Capacity - 1 = n + Capacity
    BY <1>4
  <2> QED
    BY <1>1, <2>1, <2>2, <2>3, <2>4 DEF CellInv
<1>11. ArmInv'
  <2>1. SUFFICES ASSUME NEW b \in Callbacks PROVE ArmKnows(b)'
    BY DEF ArmInv
  <2>2. PICK p \in Nat : p = arm[b].position
    BY <1>0 DEF RequestsType
  <2>3. ArmKnows(b)
    BY <1>0 DEF ArmInv
  <2>4. CASE arm[b].pc \in {"write", "publish"}
    <3>1. dequeue_position <= p /\ p < enqueue_position
      BY <2>2, <2>3, <2>4 DEF ArmKnows
    <3>2. sequence'[SlotOf(p)] = sequence[SlotOf(p)]
      BY <1>1, <1>2, <1>7, <3>1
    <3> QED
      BY <1>1, <1>5, <2>2, <2>3, <2>4, <3>2 DEF ArmKnows
  <2>5. CASE arm[b].pc = "claim" /\ p = enqueue_position
    <3>1. sequence[SlotOf(p)] = p
      BY <2>2, <2>3, <2>5 DEF ArmKnows
    <3>2. sequence'[SlotOf(p)] = p
      <4>1. CASE SlotOf(p) = SlotOf(n)
        BY <1>1, <1>2, <2>5, <3>1, <4>1, SlotOfNext
      <4>2. CASE SlotOf(p) # SlotOf(n)
        BY <1>6, <3>1, <4>2, SlotOfType
      <4> QED
        BY <4>1, <4>2
    <3> QED
      BY <1>1, <2>2, <2>3, <2>5, <3>2 DEF ArmKnows
  <2>6. CASE arm[b].pc \notin {"write", "publish"} /\ ~(arm[b].pc = "claim" /\ p = enqueue_position)
    BY <1>1, <2>2, <2>3, <2>6 DEF ArmKnows
  <2> QED
    BY <2>4, <2>5, <2>6
<1>12. PopInv'
  BY <1>1 DEF PopInv
<1> QED
  BY <1>8, <1>9, <1>10, <1>11, <1>12 DEF RequestsInv

\* Every step keeps the invariant.
LEMMA RequestsStepInv == RequestsInv /\ [RequestsNext]_requestVars => RequestsInv'
<1> SUFFICES ASSUME RequestsInv, [RequestsNext]_requestVars PROVE RequestsInv'
  OBVIOUS
<1>1. CASE PopStep
  BY <1>1, PopLooksInv, PopReleaseInv DEF PopStep
<1>2. ASSUME NEW c \in Callbacks, ArmStep(c) PROVE RequestsInv'
  BY <1>2, ArmLooksInv, ArmCasInv, ArmWriteInv, ArmPublishInv DEF ArmStep
<1>3. CASE UNCHANGED requestVars
  BY <1>3 DEF requestVars, ringVars, RequestsInv, RequestsType, CountInv, CellInv, ArmInv, ArmKnows, PopInv, Writes
<1> QED
  BY <1>1, <1>2, <1>3 DEF RequestsNext

\* The inductive invariant of the request ring: for every capacity and any
\* callbacks, a ticket in the ring is being written by its own callback or
\* holds its request.
THEOREM RequestsInvariant == RequestsSpec => []RequestsInv
<1> QED
  BY RequestsInitInv, RequestsStepInv, PTL DEF RequestsSpec

\* What a callback that gives up has seen.
LEMMA RefusedStep ==
  ASSUME RequestsInv, [RequestsNext]_requestVars, NEW c \in Callbacks,
         arm[c].pc = "scan", arm'[c].pc = "idle"
  PROVE  Len(log) = Len(delivered) + Capacity
<1> USE CapacityAssumption
<1>0. RequestsType /\ CountInv /\ CellInv /\ ArmInv
  BY DEF RequestsInv
<1>p. PICK p \in Nat : p = arm[c].position
  BY <1>0 DEF RequestsType
<1>1. sequence[SlotOf(p)] \in Nat
  BY <1>0, SlotOfType DEF RequestsType
<1>2. sequence[SlotOf(p)] < p
  <2>1. arm' # arm
    OBVIOUS
  <2>2. PICK b \in Callbacks : ArmStep(b)
    BY <2>1 DEF RequestsNext, PopStep, PopLoad, PopScan, PopAdvance, PopCopy, PopRelease, requestVars
  <2>3. b = c
    BY <1>0, <2>2 DEF ArmStep, ArmLoad, ArmScan, ArmCas, ArmCasFail, ArmWrite, ArmPublish, ArmGoto, RequestsType
  <2>4. ArmScan(c)
    BY <2>2, <2>3 DEF ArmStep, ArmLoad, ArmCas, ArmCasFail, ArmWrite, ArmPublish
  <2>5. arm \in [Callbacks -> ArmType]
    BY <1>0 DEF RequestsType, ArmType
  <2>6. sequence[SlotOf(p)] - p < 0
    BY <1>p, <2>4, <2>5 DEF ArmScan, ArmGoto, ArmType
  <2> QED
    BY <1>1, <2>6
<1>3. p <= enqueue_position /\ enqueue_position \in Nat /\ Len(delivered) \in Nat
  BY <1>0, <1>p DEF RequestsType, ArmInv, ArmKnows
<1>4. p = enqueue_position
  BY <1>0, <1>1, <1>2, <1>3 DEF CellInv
<1>5. enqueue_position >= Len(delivered) + Capacity
  <2>1. SUFFICES ASSUME enqueue_position < Len(delivered) + Capacity PROVE FALSE
    BY <1>3
  <2>2. p \in enqueue_position .. Len(delivered) + Capacity - 1
    BY <1>3, <1>4, <2>1
  <2>3. sequence[SlotOf(p)] = p
    BY <1>0, <2>2 DEF CellInv
  <2> QED
    BY <1>2, <2>3
<1>6. Len(log) = enqueue_position /\ enqueue_position <= Len(delivered) + Capacity
  BY <1>0 DEF CountInv
<1> QED
  BY <1>3, <1>5, <1>6

\* For every capacity and any callbacks, esrb_watchdog_arm returns false only
\* at a moment when every slot holds a request that waits, although its
\* position may have been stale for long.
THEOREM RefusesOnlyWhenFull == RequestsSpec => RefusedOnlyWhenFull
<1> DEFINE Full == \A c \in Callbacks :
                     arm[c].pc = "scan" /\ arm'[c].pc = "idle" => Len(log) = Len(delivered) + Capacity
<1>1. RequestsInv /\ [RequestsNext]_requestVars => [Full]_requestVars
  BY RefusedStep
<1> QED
  BY <1>1, RequestsInvariant, PTL DEF RequestsSpec, RefusedOnlyWhenFull

\* What the watchdog has seen when it finds nothing.
LEMMA MissedStep ==
  ASSUME RequestsInv, [RequestsNext]_requestVars, pop.pc = "scan", pop'.pc = "idle"
  PROVE  Len(log) = Len(delivered) \/ \E c \in Callbacks : Writes(c, Len(delivered))
<1> USE CapacityAssumption
<1>0. RequestsType /\ CountInv /\ CellInv /\ PopInv
  BY DEF RequestsInv
<1>1. pop.position = dequeue_position /\ Len(delivered) = dequeue_position
  BY <1>0 DEF PopInv, CountInv
<1>2. sequence[SlotOf(dequeue_position)] # dequeue_position + 1
  <2>1. pop' # pop
    OBVIOUS
  <2>2. PopScan
    BY <2>1 DEF RequestsNext, PopStep, PopLoad, PopAdvance, PopCopy, PopRelease, requestVars,
                ArmStep, ArmLoad, ArmScan, ArmCas, ArmCasFail, ArmWrite, ArmPublish
  <2> QED
    BY <1>0, <1>1, <2>2 DEF PopScan, PopGoto, RequestsType
<1>3. dequeue_position \in Nat /\ enqueue_position \in Nat /\ Len(log) = enqueue_position
      /\ dequeue_position <= enqueue_position
  BY <1>0 DEF RequestsType, CountInv
<1>4. CASE dequeue_position = enqueue_position
  BY <1>1, <1>3, <1>4
<1>5. CASE dequeue_position # enqueue_position
  <2>1. dequeue_position \in Len(delivered) .. enqueue_position - 1
    BY <1>1, <1>3, <1>5
  <2> QED
    BY <1>0, <1>1, <1>2, <2>1 DEF CellInv
<1> QED
  BY <1>4, <1>5

\* For every capacity and any callbacks, request_pop overlooks a request only
\* while the callback of the oldest is still writing it.
THEOREM MissesOnlyUnwritten == RequestsSpec => MissedOnlyUnwritten
<1> DEFINE Unwritten == pop.pc = "scan" /\ pop'.pc = "idle" =>
                          Len(log) = Len(delivered) \/ \E c \in Callbacks : Writes(c, Len(delivered))
<1>1. RequestsInv /\ [RequestsNext]_requestVars => [Unwritten]_requestVars
  BY MissedStep
<1> QED
  BY <1>1, RequestsInvariant, PTL DEF RequestsSpec, MissedOnlyUnwritten

\* What is left of a sequence after its first n elements, as the sequence
\* grows and as n does.
LEMMA RestOfAppend ==
  ASSUME NEW S, NEW s \in Seq(S), NEW x \in S, NEW n \in 0 .. Len(s)
  PROVE  /\ Len(SubSeq(s, n + 1, Len(s))) = Len(s) - n
         /\ SubSeq(Append(s, x), n + 1, Len(s) + 1) = Append(SubSeq(s, n + 1, Len(s)), x)
<1> DEFINE rest == SubSeq(s, n + 1, Len(s))
           more == SubSeq(Append(s, x), n + 1, Len(s) + 1)
<1>1. rest \in Seq(S) /\ Len(rest) = Len(s) - n /\ \A k \in 1 .. Len(s) - n : rest[k] = s[n + k]
  OBVIOUS
<1>2. Append(s, x) \in Seq(S) /\ Len(Append(s, x)) = Len(s) + 1
  OBVIOUS
<1>3. more \in Seq(S) /\ Len(more) = Len(s) + 1 - n /\ \A k \in 1 .. Len(s) + 1 - n : more[k] = Append(s, x)[n + k]
  BY <1>2
<1>4. /\ Append(rest, x) \in Seq(S) /\ Len(Append(rest, x)) = Len(s) + 1 - n
      /\ \A k \in 1 .. Len(s) - n : Append(rest, x)[k] = s[n + k]
      /\ Append(rest, x)[Len(s) + 1 - n] = x
  BY <1>1
<1>5. \A k \in 1 .. Len(s) + 1 - n : more[k] = Append(rest, x)[k]
  BY <1>3, <1>4
<1> HIDE DEF rest, more
<1>6. more = Append(rest, x)
  BY <1>3, <1>4, <1>5, SeqEqual
<1> QED
  BY <1>1, <1>6 DEF rest, more

LEMMA RestOfMore ==
  ASSUME NEW S, NEW s \in Seq(S), NEW n \in 0 .. Len(s) - 1
  PROVE  /\ SubSeq(s, n + 1, Len(s)) # <<>>
         /\ Head(SubSeq(s, n + 1, Len(s))) = s[n + 1]
         /\ SubSeq(s, n + 2, Len(s)) = Tail(SubSeq(s, n + 1, Len(s)))
<1> DEFINE rest == SubSeq(s, n + 1, Len(s))
           less == SubSeq(s, n + 2, Len(s))
<1>1. rest \in Seq(S) /\ Len(rest) = Len(s) - n /\ \A k \in 1 .. Len(s) - n : rest[k] = s[n + k]
  OBVIOUS
<1>2. less \in Seq(S) /\ Len(less) = Len(s) - n - 1 /\ \A k \in 1 .. Len(s) - n - 1 : less[k] = s[n + 1 + k]
  OBVIOUS
<1> HIDE DEF rest, less
<1>3. rest # <<>>
  <2>1. Len(rest) # 0
    BY <1>1
  <2> QED
    BY <2>1
<1>4. /\ Tail(rest) \in Seq(S) /\ Len(Tail(rest)) = Len(s) - n - 1
      /\ \A k \in 1 .. Len(s) - n - 1 : Tail(rest)[k] = rest[k + 1]
  BY <1>1, <1>3, HeadTailProperties
<1>5. ASSUME NEW k \in 1 .. Len(s) - n - 1 PROVE less[k] = Tail(rest)[k]
  <2>1. k + 1 \in 1 .. Len(s) - n /\ n + (k + 1) = n + 1 + k
    OBVIOUS
  <2> QED
    BY <1>1, <1>2, <1>4, <2>1
<1>6. Head(rest) = s[n + 1]
  BY <1>1
<1>7. less = Tail(rest)
  BY <1>2, <1>4, <1>5, SeqEqual
<1> QED
  BY <1>3, <1>6, <1>7 DEF rest, less

\* The claim of a ticket puts its request in; the return of its slot takes
\* the oldest request out; no other step shows.
LEMMA FifoStep ==
  ASSUME RequestsInv, [RequestsNext]_requestVars
  PROVE  [F!FifoNext]_(F!fifoVars)
<1> USE CapacityAssumption
<1>0. RequestsType /\ CountInv /\ ArmInv /\ PopInv
  BY DEF RequestsInv
<1>1. /\ log \in Seq(Payloads) /\ delivered \in Seq(Payloads) /\ Len(delivered) \in 0 .. Len(log)
      /\ Len(log) = enqueue_position
  BY <1>0 DEF RequestsType, CountInv
<1>2. ASSUME NEW c \in Callbacks, ArmCas(c) PROVE F!FifoNext
  <2>1. arm[c].request \in Payloads /\ log' = Append(log, arm[c].request) /\ delivered' = delivered
    BY <1>0, <1>2 DEF ArmCas, ArmInv, ArmKnows
  <2>2. Len(log) < Len(delivered) + Capacity
    BY <1>1, <1>2, ClaimHasRoom
  <2>3. Len(log') = Len(log) + 1
    BY <1>1, <2>1
  <2>4. /\ Len(SubSeq(log, Len(delivered) + 1, Len(log))) = Len(log) - Len(delivered)
        /\ SubSeq(log', Len(delivered) + 1, Len(log')) =
             Append(SubSeq(log, Len(delivered) + 1, Len(log)), arm[c].request)
    BY <1>1, <2>1, <2>3, RestOfAppend
  <2>5. Len(SubSeq(log, Len(delivered) + 1, Len(log))) < Capacity
    BY <1>1, <2>2, <2>4
  <2>6. F!Push(arm[c].request)
    BY <2>1, <2>4, <2>5 DEF F!Push
  <2> QED
    BY <2>1, <2>6 DEF F!FifoNext
<1>3. ASSUME PopRelease PROVE F!FifoNext
  <2>1. /\ log' = log /\ delivered' = Append(delivered, log[Len(delivered) + 1])
        /\ Len(delivered) = dequeue_position - 1 /\ dequeue_position <= Len(log)
    BY <1>0, <1>1, <1>3 DEF PopRelease, PopInv, CountInv
  <2>2. Len(delivered) \in 0 .. Len(log) - 1
    BY <1>0, <1>1, <2>1 DEF RequestsType
  <2>3. Len(delivered') = Len(delivered) + 1
    BY <1>1, <2>1, <2>2
  <2>4. /\ SubSeq(log, Len(delivered) + 1, Len(log)) # <<>>
        /\ Head(SubSeq(log, Len(delivered) + 1, Len(log))) = log[Len(delivered) + 1]
        /\ SubSeq(log, Len(delivered) + 2, Len(log)) = Tail(SubSeq(log, Len(delivered) + 1, Len(log)))
    BY <1>1, <2>2, RestOfMore
  <2>5. Len(delivered') + 1 = Len(delivered) + 2
    BY <1>1, <2>3
  <2>6. F!Pop
    BY <2>1, <2>4, <2>5 DEF F!Pop
  <2> QED
    BY <2>6 DEF F!FifoNext
<1>4. CASE log' = log /\ delivered' = delivered
  BY <1>4 DEF F!fifoVars
<1>5. (\E c \in Callbacks : ArmCas(c)) \/ PopRelease \/ (log' = log /\ delivered' = delivered)
  BY DEF RequestsNext, PopStep, PopLoad, PopScan, PopAdvance, PopCopy, requestVars,
         ArmStep, ArmLoad, ArmScan, ArmCasFail, ArmWrite, ArmPublish
<1> QED
  BY <1>2, <1>3, <1>4, <1>5

\* For every capacity, any callbacks and any requests, the request ring is
\* the bounded FIFO that Delivery has in its place: its claims and the copies
\* in and out of plain memory cannot be told from putting in and taking out.
THEOREM RequestsImplementFifo == RequestsSpec => RequestsAreFifo
<1>1. RequestsInit => SubSeq(log, Len(delivered) + 1, Len(log)) = <<>> /\ delivered = <<>>
  BY DEF RequestsInit
<1>2. RequestsInv /\ [RequestsNext]_requestVars => [F!FifoNext]_(F!fifoVars)
  BY FifoStep
<1> QED
  BY <1>1, <1>2, RequestsInvariant, PTL DEF RequestsSpec, RequestsAreFifo, F!FifoSpec
=============================================================================
