------------------------------ MODULE Requests ------------------------------
(***************************************************************************)
(* The request ring of the watchdog, one action per access to shared       *)
(* memory: esrb_watchdog_arm on the threads of the callbacks, request_pop  *)
(* on the watchdog's.                                                      *)
(*                                                                         *)
(* It is a ring like that of queue.c (the variables of Ring.tla are those  *)
(* of esrb_watchdog_t here), with two differences.  There is one consumer, *)
(* which advances dequeue_position with a plain store and asks only        *)
(* whether its slot is published.  And a ticket's contents are copied in   *)
(* and out: between the two a request is in plain memory, which nothing    *)
(* but the sequence number protects.                                       *)
(*                                                                         *)
(* Delivery.tla has a FIFO in its place: arming is the claim of a ticket,  *)
(* popping is the return of the ticket's slot.                             *)
(***************************************************************************)
EXTENDS Ring, Sequences

CONSTANTS
  Callbacks,
  Payloads,       \* slot, position and fire_at of a request
  MaxRequests     \* no arming starts once this many tickets were claimed

ASSUME RequestsAssumption == MaxRequests \in Nat

VARIABLES
  requests,       \* the contents of requests[i], but for the sequence
  arm,            \* where each callback is, its position and its request
  pop,            \* where the watchdog is, its position and its output
  log,            \* history: the request of every ticket claimed
  delivered       \* history: what request_pop returned

requestVars == <<ringVars, requests, arm, pop, log, delivered>>

Cleared == [slot |-> "NULL"]        \* calloc

RequestsInit ==
  /\ RingInit
  /\ requests = [i \in Slots |-> Cleared]
  /\ arm = [c \in Callbacks |-> [pc |-> "idle", position |-> 0, request |-> Cleared]]
  /\ pop = [pc |-> "idle", position |-> 0, output |-> Cleared]
  /\ log = <<>> /\ delivered = <<>>
-----------------------------------------------------------------------------
(***************************************************************************)
(* esrb_watchdog_arm.                                                      *)
(***************************************************************************)
ArmGoto(c, l) == arm' = [arm EXCEPT ![c].pc = l]

ArmLoad(c, r) ==
  /\ arm[c].pc = "idle" /\ enqueue_position < MaxRequests
  /\ arm' = [arm EXCEPT ![c] = [pc |-> "scan", position |-> enqueue_position, request |-> r]]
  /\ UNCHANGED <<ringVars, requests, pop, log, delivered>>

\* Variant: a stale position is taken for a full ring.
ArmScanGivesUp(c) ==
  LET difference == sequence[SlotOf(arm[c].position)] - arm[c].position IN
  /\ arm[c].pc = "scan"
  /\ ArmGoto(c, IF difference = 0 THEN "claim" ELSE "idle")
  /\ UNCHANGED <<ringVars, requests, pop, log, delivered>>

\* A slot that is free for the position may be claimed; one that is not yet
\* given back makes arm return false; a position that is behind is reloaded.
ArmScan(c) ==
  LET difference == sequence[SlotOf(arm[c].position)] - arm[c].position IN
  /\ arm[c].pc = "scan"
  /\ \/ difference = 0 /\ ArmGoto(c, "claim")
     \/ difference < 0 /\ ArmGoto(c, "idle")
     \/ difference > 0 /\ arm' = [arm EXCEPT ![c].position = enqueue_position]
  /\ UNCHANGED <<ringVars, requests, pop, log, delivered>>

ArmCas(c) ==
  /\ arm[c].pc = "claim"
  /\ enqueue_position = arm[c].position
  /\ enqueue_position' = arm[c].position + 1
  /\ log' = Append(log, arm[c].request)
  /\ ArmGoto(c, "write")
  /\ UNCHANGED <<sequence, dequeue_position, requests, pop, delivered>>

ArmCasFail(c) ==
  /\ arm[c].pc = "claim"
  /\ arm' = [arm EXCEPT ![c].pc = "scan", ![c].position = enqueue_position]
  /\ UNCHANGED <<ringVars, requests, pop, log, delivered>>

\* Three plain stores.
ArmWrite(c) ==
  /\ arm[c].pc = "write"
  /\ requests' = [requests EXCEPT ![SlotOf(arm[c].position)] = arm[c].request]
  /\ ArmGoto(c, "publish")
  /\ UNCHANGED <<ringVars, pop, log, delivered>>

ArmPublish(c) ==
  /\ arm[c].pc = "publish"
  /\ sequence' = [sequence EXCEPT ![SlotOf(arm[c].position)] = arm[c].position + 1]
  /\ ArmGoto(c, "idle")
  /\ UNCHANGED <<enqueue_position, dequeue_position, requests, pop, log, delivered>>
-----------------------------------------------------------------------------
(***************************************************************************)
(* request_pop.                                                            *)
(***************************************************************************)
PopGoto(l) == pop' = [pop EXCEPT !.pc = l]

PopLoad ==
  /\ pop.pc = "idle"
  /\ pop' = [pop EXCEPT !.pc = "scan", !.position = dequeue_position]
  /\ UNCHANGED <<ringVars, requests, arm, log, delivered>>

\* Variant: a claimed ticket is taken for a published one.
PopScanEarly ==
  /\ pop.pc = "scan"
  /\ PopGoto(IF pop.position < enqueue_position THEN "advance" ELSE "idle")
  /\ UNCHANGED <<ringVars, requests, arm, log, delivered>>

\* Variant: the ring is asked for the slot of the next ticket.
PopScanAhead ==
  /\ pop.pc = "scan"
  /\ PopGoto(IF sequence[SlotOf(pop.position + 1)] = pop.position + 2 THEN "advance" ELSE "idle")
  /\ UNCHANGED <<ringVars, requests, arm, log, delivered>>

\* A slot that is not published makes request_pop return false.
PopScan ==
  /\ pop.pc = "scan"
  /\ PopGoto(IF sequence[SlotOf(pop.position)] = pop.position + 1 THEN "advance" ELSE "idle")
  /\ UNCHANGED <<ringVars, requests, arm, log, delivered>>

PopAdvance ==
  /\ pop.pc = "advance"
  /\ dequeue_position' = pop.position + 1
  /\ PopGoto("copy")
  /\ UNCHANGED <<sequence, enqueue_position, requests, arm, log, delivered>>

PopCopy ==
  /\ pop.pc = "copy"
  /\ pop' = [pop EXCEPT !.pc = "release", !.output = requests[SlotOf(pop.position)]]
  /\ UNCHANGED <<ringVars, requests, arm, log, delivered>>

PopRelease ==
  /\ pop.pc = "release"
  /\ sequence' = [sequence EXCEPT ![SlotOf(pop.position)] = pop.position + Capacity]
  /\ delivered' = Append(delivered, pop.output)
  /\ PopGoto("idle")
  /\ UNCHANGED <<enqueue_position, dequeue_position, requests, arm, log>>
-----------------------------------------------------------------------------
ArmStep(c) ==
  \/ \E r \in Payloads : ArmLoad(c, r)
  \/ ArmScan(c) \/ ArmCas(c) \/ ArmCasFail(c) \/ ArmWrite(c) \/ ArmPublish(c)

PopStep == PopLoad \/ PopScan \/ PopAdvance \/ PopCopy \/ PopRelease

RequestsNext == PopStep \/ \E c \in Callbacks : ArmStep(c)

RequestsSpec == RequestsInit /\ [][RequestsNext]_requestVars
-----------------------------------------------------------------------------
(***************************************************************************)
(* Properties.                                                             *)
(***************************************************************************)

\* A callback that has claimed ticket p and not published it.
Writes(c, p) == arm[c].pc \in {"write", "publish"} /\ arm[c].position = p

\* The ring is the FIFO that Delivery has in its place: the requests that
\* were claimed and not popped are those that wait, and request_pop returns
\* the oldest of them, whole, whatever the callbacks write meanwhile.
F == INSTANCE Fifo WITH waiting <- SubSeq(log, Len(delivered) + 1, Len(log)), received <- delivered
RequestsAreFifo == F!FifoSpec

\* esrb_watchdog_arm returns false, upon which the message is answered at
\* once, only at a moment when as many requests wait as there are slots.
RefusedOnlyWhenFull ==
  [][\A c \in Callbacks :
       arm[c].pc = "scan" /\ arm'[c].pc = "idle" => Len(log) = Len(delivered) + Capacity]_requestVars

\* request_pop returns false only at a moment when no request waits, or the
\* oldest is still being written by its callback: a deadline is overlooked
\* no longer than that takes.
MissedOnlyUnwritten ==
  [][pop.pc = "scan" /\ pop'.pc = "idle" =>
       Len(log) = Len(delivered) \/ \E c \in Callbacks : Writes(c, Len(delivered))]_requestVars
-----------------------------------------------------------------------------
(***************************************************************************)
(* Why it works: the invariant the proofs rest on.                         *)
(***************************************************************************)
RequestsType ==
  /\ sequence \in [Slots -> Nat] /\ enqueue_position \in Nat /\ dequeue_position \in Nat
  /\ requests \in [Slots -> Payloads \cup {Cleared}]
  /\ arm \in [Callbacks -> [pc : {"idle", "scan", "claim", "write", "publish"}, position : Nat,
                            request : Payloads \cup {Cleared}]]
  /\ pop \in [pc : {"idle", "scan", "advance", "copy", "release"}, position : Nat,
              output : Payloads \cup {Cleared}]
  /\ log \in Seq(Payloads) /\ delivered \in Seq(Payloads)

\* Tickets are claimed and popped in order, and at most Capacity of them are
\* in the ring.
CountInv ==
  /\ Len(log) = enqueue_position
  /\ Len(delivered) = IF pop.pc \in {"copy", "release"} THEN dequeue_position - 1 ELSE dequeue_position
  /\ dequeue_position <= enqueue_position /\ enqueue_position <= Len(delivered) + Capacity
  /\ \A k \in 1 .. Len(delivered) : delivered[k] = log[k]

\* The slot of a ticket in the ring is being written by its callback or
\* holds its request; the other slots are free for the tickets to come.
CellInv ==
  /\ \A p \in Len(delivered) .. enqueue_position - 1 :
       \/ sequence[SlotOf(p)] = p /\ dequeue_position <= p /\ \E c \in Callbacks : Writes(c, p)
       \/ sequence[SlotOf(p)] = p + 1 /\ requests[SlotOf(p)] = log[p + 1]
  /\ \A p \in enqueue_position .. Len(delivered) + Capacity - 1 : sequence[SlotOf(p)] = p
  /\ \A p \in 0 .. enqueue_position - 1 : sequence[SlotOf(p)] >= p

\* What a callback knows of the ticket it tries for or writes.
ArmKnows(c) ==
  /\ arm[c].pc # "idle" => arm[c].request \in Payloads
  /\ arm[c].pc \in {"scan", "claim"} => arm[c].position <= enqueue_position
  /\ arm[c].pc = "claim" /\ arm[c].position = enqueue_position =>
       sequence[SlotOf(arm[c].position)] = arm[c].position
  /\ arm[c].pc \in {"write", "publish"} =>
       /\ dequeue_position <= arm[c].position /\ arm[c].position < enqueue_position
       /\ sequence[SlotOf(arm[c].position)] = arm[c].position
       /\ arm[c].request = log[arm[c].position + 1]
       /\ arm[c].pc = "publish" => requests[SlotOf(arm[c].position)] = arm[c].request
       /\ \A b \in Callbacks : Writes(b, arm[c].position) => b = c

ArmInv == \A c \in Callbacks : ArmKnows(c)

\* What the watchdog knows of the ticket it pops.
PopInv ==
  /\ pop.pc \in {"scan", "advance"} => pop.position = dequeue_position
  /\ pop.pc = "advance" => dequeue_position < enqueue_position
                           /\ sequence[SlotOf(dequeue_position)] = dequeue_position + 1
  /\ pop.pc \in {"copy", "release"} => pop.position = Len(delivered)
                                       /\ sequence[SlotOf(pop.position)] = pop.position + 1
  /\ pop.pc = "release" => pop.output = log[pop.position + 1]

\* Tickets, sequence numbers, contents and threads agree: the inductive
\* invariant of the request ring.
RequestsInv == RequestsType /\ CountInv /\ CellInv /\ ArmInv /\ PopInv
=============================================================================
