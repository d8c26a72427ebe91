--------------------------- MODULE DeliveryProofs ---------------------------
(***************************************************************************)
(* Proofs about Delivery.tla, for every capacity, every number of messages *)
(* and callbacks, and every choice of the AUTH messages.                   *)
(***************************************************************************)
EXTENDS Delivery, RingProofs, FiniteSetTheorems, TLAPS

(***************************************************************************)
(* First part: who may use a slot, and when.  The tickets, the "occupied"  *)
(* flags, the readers, the store buffer and the close.                     *)
(***************************************************************************)

(***************************************************************************)
(* The inductive invariant.                                                *)
(***************************************************************************)

\* A callback between esrb_queue_enqueue and esrb_queue_publish owns a slot;
\* from "occupy" on the slot is filled, from "arm" on it is occupied.
FillingPcs == {"fill", "occupy", "arm", "unarmed", "send", "publish"}
FilledPcs == {"occupy", "arm", "unarmed", "send", "publish"}
OccupiedPcs == {"arm", "unarmed", "send", "publish"}

Owns(c) == cb[c].pc \in FillingPcs

\* Slot i is published and was not given back: it is queued, or a Message
\* object refers to it.
Live(i) == SlotOf(position[i]) = i /\ sequence[i] = position[i] + 1

\* A callback fills slot i, and has marked it occupied.
Occupying(i) == \E c \in Callbacks : cb[c].pc \in OccupiedPcs /\ CbSlot(c) = i

\* Slot i holds a message, published or not.
InUse(i) == Live(i) \/ \E c \in Callbacks : cb[c].pc \in FilledPcs /\ CbSlot(c) = i

\* Each slot is free for the next lap, owned by the one callback whose ticket
\* its sequence is, or live.  A live slot has a Message object exactly if its
\* ticket was taken.
TicketInv ==
  /\ dequeue_position <= enqueue_position
  /\ \A i \in Slots : SlotOf(sequence[i]) = i \/ Live(i)
  /\ \A i \in Slots : position[i] <= sequence[i]
  /\ \A i \in Slots : Live(i) =>
       position[i] < enqueue_position /\ enqueue_position <= position[i] + Capacity
  /\ \A i \in Slots : wrapper[i] <=> Live(i) /\ position[i] < dequeue_position
  /\ \A c \in Callbacks : Owns(c) =>
       /\ sequence[CbSlot(c)] = cb[c].pos
       /\ dequeue_position <= cb[c].pos /\ cb[c].pos < enqueue_position
       /\ enqueue_position <= cb[c].pos + Capacity
  /\ \A c, d \in Callbacks : Owns(c) /\ Owns(d) /\ c # d => cb[c].pos # cb[d].pos
  /\ \A c \in Callbacks : cb[c].pc \in FilledPcs =>
       position[CbSlot(c)] = cb[c].pos /\ message[CbSlot(c)] = cb[c].msg

\* Every queued ticket is being filled, or published.
QueuedInv ==
  \A p \in dequeue_position .. enqueue_position - 1 :
    \/ \E c \in Callbacks : Owns(c) /\ cb[c].pos = p
    \/ Live(SlotOf(p)) /\ position[SlotOf(p)] = p

ReadingPcs == {"recheck", "claim", "send", "resign"}
ReleasingPcs == {"send", "release_send", "disarm", "disarm_wait", "free", "recycle"}

\* Which slots a thread may rely on.  A slot is occupied only while it is
\* live or about to be; the message an operation of the Ruby thread works on
\* has its object; what the watchdog found occupied after it enlisted stays
\* where it is until the watchdog resigns.
ReadersInv ==
  \A i \in Slots : readers[i] = IF wd.pc \in ReadingPcs /\ wd.slot = i THEN 1 ELSE 0

OccupiedInv ==
  \A i \in Slots : occupied[i] => Live(i) \/ Occupying(i)

\* The store buffer holds at most the "occupied" of the slot that is being
\* released, and that is gone before the message is.
RubyInv ==
  /\ rb.pc \in ReleasingPcs => wrapper[rb.slot]
  /\ \A k \in 1 .. Len(buffered) : buffered[k].cell = "occupied" =>
       rb.pc \in {"disarm_wait", "free"} /\ buffered[k].slot = rb.slot
  /\ rb.pc \in {"disarm_wait", "free"} /\ occupied[rb.slot] =>
       \E k \in 1 .. Len(buffered) : buffered[k].cell = "occupied"
  /\ rb.pc = "recycle" => ~occupied[rb.slot]

WatchdogInv ==
  wd.pc \in {"claim", "send"} =>
    position[wd.slot] = wd.position /\ (Live(wd.slot) \/ Occupying(wd.slot))

GuardInv == ReadersInv /\ OccupiedInv /\ RubyInv /\ WatchdogInv

\* client_close_native has waited for the callbacks and for the watchdog
\* before it touches a slot, and the callbacks that came since were refused.
ClosePcs == {"close_callbacks", "close_watchdog", "close_answer", "close_drain", "close_join"}

StopInv ==
  /\ rb.pc \in ClosePcs => closed
  /\ ~watchdog_running =>
       closed /\ \A c \in Callbacks : cb[c].pc \in {"idle", "check", "reject", "leave"}
  /\ watchdog_stopped <=> wd.pc \in {"await_delete", "done"}
  /\ watchdog_stopped => ~watchdog_running
  /\ closed /\ rb.pc \notin {"close_callbacks", "close_watchdog"} => watchdog_stopped

\* active_callbacks counts the running handlers.
ActiveInv == active_callbacks = Cardinality({c \in Callbacks : cb[c].pc # "idle"})

-----------------------------------------------------------------------------
(***************************************************************************)
(* What the steps have in common.                                          *)
(***************************************************************************)

\* The steps of the watchdog and of the Ruby thread that touch no ticket.
WatchSteps ==
  \/ WatchdogLoop \/ Collect \/ Sleep \/ CheckOccupied \/ Enlist \/ Recheck \/ ClaimDue
  \/ SendDue \/ Resign \/ DeleteClient
  \/ \E i \in Slots : PopDue(i)

RubySteps ==
  \/ StartDrain \/ EndDrain \/ CheckDepth \/ NotifyLeft
  \/ SendResponse \/ SendDefault \/ Disarm \/ DisarmWait \/ FreeMessage
  \/ Close \/ CloseCallbacks \/ CloseWatchdog \/ CloseAnswer \/ CloseDrained \/ CloseJoin
  \/ \E i \in Slots : Respond(i) \/ ReleaseMessage(i)

\* Neither the watchdog nor a Ruby function nor the flush of a buffer touches
\* what the callbacks hold.
LEMMA TicketFrame ==
  ASSUME WatchSteps \/ RubySteps \/ Flush \/ UNCHANGED vars
  PROVE  UNCHANGED <<ringVars, position, message, wrapper, cb>>
<1>1. CASE WatchSteps
  BY <1>1 DEF WatchSteps, WatchdogLoop, Collect, Sleep, CheckOccupied, Enlist, Recheck, ClaimDue,
     SendDue, Resign, DeleteClient, PopDue, slotVars, rubyVars
<1>2. CASE RubySteps
  BY <1>2 DEF RubySteps, StartDrain, EndDrain, CheckDepth, NotifyLeft, SendResponse, SendDefault,
     Disarm, DisarmWait, FreeMessage, Close, CloseCallbacks, CloseWatchdog, CloseAnswer,
     CloseDrained, CloseJoin, Respond, ReleaseMessage, slotVars
<1>3. CASE Flush
  BY <1>3 DEF Flush
<1>4. CASE UNCHANGED vars
  BY <1>4 DEF vars, slotVars, rubyVars
<1> QED
  BY <1>1, <1>2, <1>3, <1>4

\* A callback that moves on without a step of its ticket.
CallbackMoves(c) ==
  \/ CheckClosed(c) \/ RejectClosed(c) \/ EnqueueFull(c) \/ AnswerFull(c) \/ Occupy(c)
  \/ Arm(c) \/ AnswerUnarmed(c) \/ SendUnarmed(c) \/ NotifyQueued(c)

\* The edges of handle_message without a step of the ticket.
CallbackEdges == {<<"check", "reject">>, <<"check", "enqueue">>, <<"reject", "leave">>,
  <<"enqueue", "full">>, <<"full", "leave">>, <<"occupy", "arm">>, <<"occupy", "publish">>,
  <<"arm", "publish">>, <<"arm", "unarmed">>, <<"unarmed", "send">>, <<"unarmed", "publish">>,
  <<"send", "publish">>, <<"notify", "leave">>}

\* A step of a callback changes its own record only.
LEMMA CallbackFrame ==
  ASSUME TypeOK, NEW c \in Callbacks, CallbackMoves(c)
  PROVE  /\ UNCHANGED <<ringVars, position, message, wrapper>>
         /\ \E l \in CallbackPcs : cb' = [cb EXCEPT ![c].pc = l] /\ <<cb[c].pc, l>> \in CallbackEdges
<1>1. UNCHANGED <<ringVars, position, message, wrapper>>
  BY DEF CallbackMoves, CheckClosed, RejectClosed, EnqueueFull, AnswerFull, Occupy, Arm,
     AnswerUnarmed, SendUnarmed, NotifyQueued, slotVars, rubyVars
<1>2. \E l \in CallbackPcs : cb' = [cb EXCEPT ![c].pc = l] /\ <<cb[c].pc, l>> \in CallbackEdges
  BY DEF CallbackMoves, CheckClosed, RejectClosed, EnqueueFull, AnswerFull, Occupy, Arm,
     AnswerUnarmed, SendUnarmed, NotifyQueued, CbGoto, CallbackPcs, CallbackEdges
<1> QED
  BY <1>1, <1>2

\* The types the arithmetic of tickets needs.
LEMMA NatTypes ==
  ASSUME TypeOK
  PROVE  /\ sequence \in [Slots -> Nat] /\ position \in [Slots -> Nat] /\ armed \in [Slots -> Int]
         /\ enqueue_position \in Nat /\ dequeue_position \in Nat /\ arrived \in Nat
         /\ cb \in [Callbacks -> [pc : CallbackPcs, msg : {0} \cup Messages, pos : Nat]]
         /\ refs \in [Messages -> Nat]
<1>c. Capacity \in Nat /\ MessageCount \in Nat
  BY CapacityAssumption, DeliveryAssumption
<1>p. Positions \subseteq Nat
  BY <1>c DEF Positions
<1>1. sequence \in [Slots -> Nat]
  <2>1. sequence \in [Slots -> 0 .. MessageCount + Capacity]
    BY DEF TypeOK
  <2>2. 0 .. MessageCount + Capacity \subseteq Nat
    BY <1>c
  <2> QED
    BY <2>1, <2>2
<1>2. position \in [Slots -> Nat]
  <2>1. position \in [Slots -> Positions]
    BY DEF TypeOK
  <2> QED
    BY <2>1, <1>p
<1>3. armed \in [Slots -> Int]
  <2>1. armed \in [Slots -> Positions \cup {NoPosition}]
    BY DEF TypeOK
  <2>2. Positions \cup {NoPosition} \subseteq Int
    BY <1>p DEF NoPosition
  <2> QED
    BY <2>1, <2>2
<1>4. enqueue_position \in Nat /\ dequeue_position \in Nat
  BY <1>p DEF TypeOK
<1>5. arrived \in Nat
  BY <1>c DEF TypeOK
<1>6. cb \in [Callbacks -> [pc : CallbackPcs, msg : {0} \cup Messages, pos : Nat]]
  <2>1. cb \in [Callbacks -> [pc : CallbackPcs, msg : {0} \cup Messages, pos : Positions]]
    BY DEF TypeOK
  <2> QED
    BY <2>1, <1>p
<1>7. refs \in [Messages -> Nat]
  <2>1. refs \in [Messages -> 0 .. 2]
    BY DEF TypeOK
  <2>2. 0 .. 2 \subseteq Nat
    OBVIOUS
  <2> QED
    BY <2>1, <2>2
<1> QED
  BY <1>1, <1>2, <1>3, <1>4, <1>5, <1>6, <1>7

\* A slot is not both live and owned, or free.
LEMMA LiveNotFree ==
  ASSUME TypeOK, NEW i \in Slots, Live(i)
  PROVE  SlotOf(sequence[i]) # i
<1>1. position[i] \in Nat
  BY DEF TypeOK, Positions
<1> QED
  BY <1>1, SlotOfNext DEF Live

\* A callback's step changes nothing of another callback.
LEMMA CallbackUpdate ==
  ASSUME TypeOK, NEW c \in Callbacks, NEW l, cb' = [cb EXCEPT ![c].pc = l]
  PROVE  /\ cb'[c].pc = l /\ cb'[c].msg = cb[c].msg /\ cb'[c].pos = cb[c].pos
         /\ \A d \in Callbacks : d # c => cb'[d] = cb[d]
BY DEF TypeOK

\* The slot of the oldest ticket, when that can be taken.
LEMMA TakeSlot ==
  ASSUME TypeOK, TicketInv, Takeable
  PROVE  LET i == SlotOf(dequeue_position) IN
         /\ i \in Slots /\ Live(i) /\ position[i] = dequeue_position
         /\ dequeue_position < enqueue_position
         /\ \A c \in Callbacks : Owns(c) => CbSlot(c) # i /\ cb[c].pos > dequeue_position
<1> DEFINE i == SlotOf(dequeue_position)
<1>1. /\ i \in Slots /\ dequeue_position \in Nat /\ sequence[i] = dequeue_position + 1
      /\ \A c \in Callbacks : cb[c].pos \in Nat
      /\ position[i] \in Nat
  BY SlotOfType DEF TypeOK, Positions, Takeable
<1>2. Live(i)
  BY <1>1, SlotOfNext DEF TicketInv
<1>3. position[i] = dequeue_position /\ dequeue_position < enqueue_position
  BY <1>1, <1>2 DEF Live, TicketInv
<1>4. ASSUME NEW c \in Callbacks, Owns(c) PROVE CbSlot(c) # i /\ cb[c].pos > dequeue_position
  <2>1. CbSlot(c) # i
    BY <1>1, <1>2, <1>4, LiveNotFree DEF TicketInv, CbSlot
  <2>2. cb[c].pos # dequeue_position
    BY <2>1 DEF CbSlot
  <2> QED
    BY <1>1, <1>4, <2>1, <2>2 DEF TicketInv
<1> QED
  BY <1>1, <1>2, <1>3, <1>4

\* TicketInv speaks of the tickets of the callbacks and the ring, and of
\* nothing else.
LEMMA TicketStep ==
  ASSUME TypeOK, TicketInv, GuardInv, Next
  PROVE  TicketInv'
<1> USE DEF TicketInv
<1>t. /\ sequence \in [Slots -> Nat] /\ position \in [Slots -> Nat] /\ wrapper \in [Slots -> BOOLEAN]
      /\ enqueue_position \in Nat /\ dequeue_position \in Nat
      /\ cb \in [Callbacks -> [pc : CallbackPcs, msg : {0} \cup Messages, pos : Nat]]
      /\ message \in [Slots -> {0} \cup Messages]
      /\ Capacity \in Nat /\ Capacity >= 2
  BY CapacityAssumption, DeliveryAssumption DEF TypeOK, Positions
<1>s. \A c \in Callbacks : CbSlot(c) \in Slots /\ CbSlot(c) = SlotOf(cb[c].pos)
  BY <1>t, SlotOfType DEF CbSlot
<1>n. \A i \in Slots : Live(i) => SlotOf(sequence[i]) # i
  BY LiveNotFree
\* Steps that move a callback without a step of its ticket.
<1>1. ASSUME NEW c \in Callbacks, cb'[c].pos = cb[c].pos, cb'[c].msg = cb[c].msg,
             \A d \in Callbacks : d # c => cb'[d] = cb[d],
             cb'[c].pc \in FillingPcs <=> cb[c].pc \in FillingPcs,
             cb'[c].pc \in FilledPcs <=> cb[c].pc \in FilledPcs,
             UNCHANGED <<ringVars, position, message, wrapper>>
      PROVE  TicketInv'
  <2>1. \A d \in Callbacks : /\ Owns(d)' <=> Owns(d)
                             /\ cb'[d].pc \in FilledPcs <=> cb[d].pc \in FilledPcs
                             /\ cb'[d].pos = cb[d].pos /\ cb'[d].msg = cb[d].msg
                             /\ CbSlot(d)' = CbSlot(d)
    BY <1>1 DEF Owns, CbSlot
  <2>2. \A i \in Slots : Live(i)' <=> Live(i)
    BY <1>1 DEF Live, ringVars
  <2> QED
    BY <1>1, <2>1, <2>2 DEF ringVars
<1>2. CASE WatchSteps \/ RubySteps \/ Flush \/ UNCHANGED vars
  <2>1. UNCHANGED <<ringVars, position, message, wrapper, cb>>
    BY <1>2, TicketFrame
  <2> QED
    BY <2>1 DEF ringVars, Live, Owns, CbSlot
<1>3. ASSUME NEW c \in Callbacks, CallbackMoves(c)
      PROVE  TicketInv'
  <2>1. PICK l \in CallbackPcs : cb' = [cb EXCEPT ![c].pc = l] /\ <<cb[c].pc, l>> \in CallbackEdges
    BY <1>3, CallbackFrame
  <2>2. UNCHANGED <<ringVars, position, message, wrapper>>
    BY <1>3, CallbackFrame
  <2>3. /\ l \in FillingPcs <=> cb[c].pc \in FillingPcs
        /\ l \in FilledPcs <=> cb[c].pc \in FilledPcs
    BY <2>1 DEF CallbackEdges, FillingPcs, FilledPcs
  <2>4. /\ cb'[c].pc = l /\ cb'[c].msg = cb[c].msg /\ cb'[c].pos = cb[c].pos
        /\ \A d \in Callbacks : d # c => cb'[d] = cb[d]
    BY <2>1, CallbackUpdate
  <2> QED
    BY <1>1, <2>2, <2>3, <2>4
<1>4. ASSUME NEW c \in Callbacks, HandleMessage(c) \/ LeaveHandler(c)
      PROVE  TicketInv'
  <2>1. /\ cb'[c].pc \notin FillingPcs /\ cb[c].pc \notin FillingPcs
        /\ cb'[c].pc \notin FilledPcs
        /\ \A d \in Callbacks : d # c => cb'[d] = cb[d]
        /\ UNCHANGED <<ringVars, position, message, wrapper>>
    BY <1>4, <1>t DEF HandleMessage, LeaveHandler, IdleCallback, FillingPcs, FilledPcs, slotVars, rubyVars
  <2>2. \A d \in Callbacks : Owns(d)' <=> Owns(d) /\ d # c
    BY <2>1 DEF Owns
  <2>3. \A i \in Slots : Live(i)' <=> Live(i)
    BY <2>1 DEF Live, ringVars
  <2> QED
    BY <2>1, <2>2, <2>3 DEF ringVars, CbSlot, Owns
<1>5. ASSUME NEW c \in Callbacks, Enqueue(c)
      PROVE  TicketInv'
  <2> DEFINE e == enqueue_position
  <2>1. /\ enqueue_position' = e + 1 /\ sequence[SlotOf(e)] = e
        /\ UNCHANGED <<sequence, dequeue_position, position, message, wrapper>>
        /\ cb[c].pc = "enqueue" /\ cb'[c].pc = "fill" /\ cb'[c].pos = e
        /\ \A d \in Callbacks : d # c => cb'[d] = cb[d]
    BY <1>5, <1>t DEF Enqueue, Claim, Claimable, slotVars, rubyVars
  <2>2. \A i \in Slots : Live(i)' <=> Live(i)
    BY <2>1 DEF Live
  <2>3. \A d \in Callbacks : Owns(d)' <=> Owns(d) \/ d = c
    BY <2>1 DEF Owns, FillingPcs
  <2>4. ASSUME NEW i \in Slots, Live(i) PROVE e + 1 <= position[i] + Capacity
    <3>1. position[i] + Capacity = e => SlotOf(e) = i
      BY <2>4, <1>t, SlotOfLap DEF Live
    <3> QED
      BY <3>1, <2>1, <2>4, <1>t DEF Live
  <2>5. ASSUME NEW d \in Callbacks, Owns(d) PROVE e + 1 <= cb[d].pos + Capacity
    <3>1. cb[d].pos + Capacity = e => SlotOf(e) = CbSlot(d)
      BY <1>t, SlotOfLap DEF CbSlot
    <3>2. cb[d].pos \in Nat /\ cb[d].pos < e /\ e <= cb[d].pos + Capacity
      BY <2>5, <1>t
    <3>3. sequence[CbSlot(d)] # e
      BY <2>5, <3>2, <1>t
    <3>4. cb[d].pos + Capacity # e
      BY <3>1, <3>3, <2>1
    <3>5. e \in Nat /\ Capacity \in Nat
      BY <1>t
    <3> HIDE DEF TicketInv, e
    <3> QED
      BY <3>2, <3>4, <3>5
  <2>6. \A d \in Callbacks : d # c => CbSlot(d)' = CbSlot(d)
    BY <2>1 DEF CbSlot
  <2>7. CbSlot(c)' = SlotOf(e)
    BY <2>1 DEF CbSlot
  <2>8. \A d \in Callbacks : d # c /\ Owns(d) => cb'[d].pos # e
    BY <2>1, <1>t
  <2>9. cb'[c].pc \notin FilledPcs
    BY <2>1 DEF FilledPcs
  <2> QED
    BY <2>1, <2>2, <2>3, <2>4, <2>5, <2>6, <2>7, <2>8, <2>9, <1>t
<1>6. ASSUME NEW c \in Callbacks, FillSlot(c)
      PROVE  TicketInv'
  <2>0. PICK s \in Slots : s = CbSlot(c)
    BY <1>s
  <2>1. /\ UNCHANGED <<sequence, enqueue_position, dequeue_position, wrapper>>
        /\ position' = [position EXCEPT ![s] = cb[c].pos]
        /\ message' = [message EXCEPT ![s] = cb[c].msg]
        /\ cb[c].pc = "fill" /\ cb' = [cb EXCEPT ![c].pc = "occupy"]
    BY <1>6, <2>0 DEF FillSlot, CbGoto, ringVars, rubyVars
  <2>2. /\ cb'[c].pc = "occupy" /\ cb'[c].msg = cb[c].msg /\ cb'[c].pos = cb[c].pos
        /\ \A d \in Callbacks : d # c => cb'[d] = cb[d]
    BY <2>1, CallbackUpdate
  <2>3. \A d \in Callbacks : Owns(d)' <=> Owns(d)
    BY <2>1, <2>2 DEF Owns, FillingPcs
  <2>4. \A d \in Callbacks : CbSlot(d)' = CbSlot(d)
    BY <2>2 DEF CbSlot
  <2>5. Owns(c) /\ s \in Slots /\ sequence[s] = cb[c].pos
    BY <2>0, <2>1, <1>s DEF Owns, FillingPcs
  <2>6. ~Live(s) /\ ~Live(s)'
    BY <2>0, <2>1, <2>5, <1>t, <1>s, <1>n DEF Live
  <2>7. \A i \in Slots : i # s => position'[i] = position[i] /\ message'[i] = message[i]
    BY <2>1, <2>5, <1>t
  <2>8. \A i \in Slots : Live(i)' <=> Live(i)
    BY <2>1, <2>6, <2>7 DEF Live
  <2>9. \A d \in Callbacks : Owns(d) /\ d # c => CbSlot(d) # s
    BY <2>5, <1>t
  <2>10. \A d \in Callbacks : cb'[d].pc \in FilledPcs => Owns(d) /\ (d # c => cb[d].pc \in FilledPcs)
    BY <2>1, <2>2 DEF Owns, FilledPcs, FillingPcs
  <2>11. \A d \in Callbacks : cb'[d].pc \in FilledPcs =>
            position'[CbSlot(d)'] = cb'[d].pos /\ message'[CbSlot(d)'] = cb'[d].msg
    BY <2>0, <2>1, <2>2, <2>4, <2>5, <2>7, <2>9, <2>10, <1>t, <1>s
  <2>12. position'[s] = cb[c].pos
    BY <2>1, <2>5, <1>t
  <2>13. ~wrapper[s] /\ ~wrapper'[s]
    BY <2>1, <2>5, <2>6, <1>t
  <2>14. \A i \in Slots : SlotOf(sequence'[i]) = i \/ Live(i)'
    BY <2>1, <2>8
  <2>15. \A i \in Slots : position'[i] <= sequence'[i]
    BY <2>1, <2>5, <2>7, <2>12, <1>t
  <2>16. \A i \in Slots : Live(i)' =>
           position'[i] < enqueue_position' /\ enqueue_position' <= position'[i] + Capacity
    BY <2>1, <2>6, <2>7, <2>8
  <2>17. \A i \in Slots : wrapper'[i] <=> Live(i)' /\ position'[i] < dequeue_position'
    BY <2>1, <2>6, <2>7, <2>8, <2>13
  <2> QED
    BY <2>1, <2>2, <2>3, <2>4, <2>11, <2>14, <2>15, <2>16, <2>17
<1>7. ASSUME NEW c \in Callbacks, PublishSlot(c)
      PROVE  TicketInv'
  <2>0. PICK s \in Slots : s = CbSlot(c)
    BY <1>s
  <2>1. /\ UNCHANGED <<enqueue_position, dequeue_position, position, message, wrapper>>
        /\ sequence' = [sequence EXCEPT ![s] = position[s] + 1]
        /\ cb[c].pc = "publish" /\ cb' = [cb EXCEPT ![c].pc = "notify"]
    BY <1>7, <2>0 DEF PublishSlot, PublishedSequence, CbGoto, slotVars, rubyVars
  <2>2. /\ cb'[c].pc = "notify" /\ cb'[c].msg = cb[c].msg /\ cb'[c].pos = cb[c].pos
        /\ \A d \in Callbacks : d # c => cb'[d] = cb[d]
    BY <2>1, CallbackUpdate
  <2>3. \A d \in Callbacks : CbSlot(d)' = CbSlot(d) /\ (Owns(d)' <=> Owns(d) /\ d # c)
    BY <2>1, <2>2 DEF CbSlot, Owns, FillingPcs
  <2>4. /\ Owns(c) /\ sequence[s] = cb[c].pos /\ position[s] = cb[c].pos
        /\ SlotOf(cb[c].pos) = s /\ cb[c].pos \in Nat
    BY <2>0, <2>1, <1>s, <1>t DEF Owns, FillingPcs, FilledPcs
  <2>5. \A i \in Slots : i # s => sequence'[i] = sequence[i]
    BY <2>1, <1>t
  <2>6. sequence'[s] = position[s] + 1
    BY <2>1, <1>t
  <2>7. Live(s)' /\ \A i \in Slots : i # s => (Live(i)' <=> Live(i))
    BY <2>1, <2>4, <2>5, <2>6 DEF Live
  <2>8. ~Live(s) /\ ~wrapper[s]
    BY <2>4, <1>n
  <2>9. \A d \in Callbacks : Owns(d) /\ d # c => CbSlot(d) # s
    BY <2>4, <1>t
  <2>10. \A d \in Callbacks : cb'[d].pc \in FilledPcs => cb[d].pc \in FilledPcs /\ d # c
    BY <2>2 DEF FilledPcs
  <2>11. \A i \in Slots : SlotOf(sequence'[i]) = i \/ Live(i)'
    BY <2>5, <2>7
  <2>12. \A i \in Slots : position'[i] <= sequence'[i]
    BY <2>1, <2>5, <2>6, <1>t
  <2>13. \A i \in Slots : Live(i)' =>
           position'[i] < enqueue_position' /\ enqueue_position' <= position'[i] + Capacity
    BY <2>1, <2>4, <2>7
  <2>14. \A i \in Slots : wrapper'[i] <=> Live(i)' /\ position'[i] < dequeue_position'
    BY <2>1, <2>4, <2>7, <2>8, <1>t
  <2>15. \A d \in Callbacks : Owns(d)' => /\ sequence'[CbSlot(d)'] = cb'[d].pos
                                          /\ cb'[d] = cb[d]
    BY <2>2, <2>3, <2>5, <2>9, <1>s
  <2> QED
    BY <2>1, <2>2, <2>3, <2>10, <2>11, <2>12, <2>13, <2>14, <2>15
<1>8. ASSUME DrainOne
      PROVE  TicketInv'
  <2>0. PICK s \in Slots : s = SlotOf(dequeue_position)
    BY <1>t, SlotOfType
  <2>1. /\ UNCHANGED <<sequence, enqueue_position, position, message, cb>>
        /\ dequeue_position' = dequeue_position + 1
        /\ wrapper' = [wrapper EXCEPT ![s] = TRUE]
        /\ Takeable
    BY <1>8, <2>0 DEF DrainOne, Take, slotVars
  <2>2. /\ Live(s) /\ position[s] = dequeue_position /\ dequeue_position < enqueue_position
        /\ \A c \in Callbacks : Owns(c) => CbSlot(c) # s /\ cb[c].pos > dequeue_position
    BY <2>0, <2>1, TakeSlot
  <2>3. \A i \in Slots : Live(i) /\ i # s => position[i] # dequeue_position
    BY <2>0 DEF Live
  <2>4. \A i \in Slots : Live(i)' <=> Live(i)
    BY <2>1 DEF Live
  <2>5. \A c \in Callbacks : (Owns(c)' <=> Owns(c)) /\ CbSlot(c)' = CbSlot(c)
    BY <2>1 DEF Owns, CbSlot
  <2>6. \A i \in Slots : wrapper'[i] <=> Live(i)' /\ position'[i] < dequeue_position'
    <3> SUFFICES ASSUME NEW i \in Slots
                 PROVE  wrapper'[i] <=> Live(i)' /\ position'[i] < dequeue_position'
      OBVIOUS
    <3>1. wrapper[i] <=> Live(i) /\ position[i] < dequeue_position
      OBVIOUS
    <3> HIDE DEF TicketInv
    <3>2. position[i] \in Nat /\ dequeue_position \in Nat
      BY <1>t
    <3>3. CASE i = s
      BY <3>2, <3>3, <2>1, <2>2, <2>4, <1>t
    <3>4. CASE i # s
      <4>1. wrapper'[i] = wrapper[i] /\ (Live(i)' <=> Live(i)) /\ position'[i] = position[i]
        BY <3>4, <2>1, <2>4, <1>t
      <4>2. Live(i) => (position[i] < dequeue_position + 1 <=> position[i] < dequeue_position)
        BY <3>2, <3>4, <2>3
      <4> QED
        BY <3>1, <2>1, <4>1, <4>2
    <3> QED
      BY <3>3, <3>4
  <2> QED
    BY <2>1, <2>2, <2>4, <2>5, <2>6, <1>t
\* A slot is given back, by release! or by close.
<1>9. ASSUME NEW s \in Slots, Live(s), NEW d \in Nat, d <= enqueue_position,
             UNCHANGED <<enqueue_position, position, message, cb>>,
             sequence' = [sequence EXCEPT ![s] = position[s] + Capacity],
             dequeue_position' = d, wrapper' = [wrapper EXCEPT ![s] = FALSE],
             \A i \in Slots : i # s /\ Live(i) => (position[i] < d <=> position[i] < dequeue_position),
             \A c \in Callbacks : Owns(c) => d <= cb[c].pos
      PROVE  TicketInv'
  <2>1. /\ SlotOf(position[s] + Capacity) = s
        /\ position[s] \in Nat /\ position[s] + Capacity >= enqueue_position
    BY <1>9, <1>t, SlotOfLap DEF Live
  <2>2. sequence'[s] = position[s] + Capacity /\ \A i \in Slots : i # s => sequence'[i] = sequence[i]
    BY <1>9, <1>t
  <2>3. ~Live(s)' /\ \A i \in Slots : i # s => (Live(i)' <=> Live(i))
    BY <1>9, <2>1, <2>2, <1>t DEF Live
  <2>4. \A c \in Callbacks : (Owns(c)' <=> Owns(c)) /\ CbSlot(c)' = CbSlot(c)
    BY <1>9 DEF Owns, CbSlot
  <2>5. \A c \in Callbacks : Owns(c) => CbSlot(c) # s
    BY <1>9, <1>n, <1>s
  <2>6. \A i \in Slots : SlotOf(sequence'[i]) = i \/ Live(i)'
    BY <2>1, <2>2, <2>3
  <2>7. \A i \in Slots : position'[i] <= sequence'[i]
    BY <1>9, <2>1, <2>2, <1>t
  <2>8. \A i \in Slots : wrapper'[i] <=> Live(i)' /\ position'[i] < dequeue_position'
    BY <1>9, <2>3, <1>t
  <2> QED
    BY <1>9, <1>s, <2>2, <2>3, <2>4, <2>5, <2>6, <2>7, <2>8
<1>10. ASSUME RecycleSlot
       PROVE  TicketInv'
  <2>0. PICK s \in Slots : s = rb.slot
    BY DEF TypeOK
  <2>1. wrapper[s] /\ Live(s)
    BY <1>10, <2>0 DEF RecycleSlot, GuardInv, RubyInv, ReleasingPcs
  <2>2. /\ UNCHANGED <<enqueue_position, dequeue_position, position, message, cb>>
        /\ sequence' = [sequence EXCEPT ![s] = position[s] + Capacity]
        /\ wrapper' = [wrapper EXCEPT ![s] = FALSE]
    BY <1>10, <2>0 DEF RecycleSlot, GiveSlotBack, ReleasedSequence, slotVars
  <2> QED
    BY <1>9, <2>1, <2>2, <1>t
<1>11. ASSUME CloseDrainOne
       PROVE  TicketInv'
  <2>0. PICK s \in Slots : s = SlotOf(dequeue_position)
    BY <1>t, SlotOfType
  <2>1. /\ UNCHANGED <<enqueue_position, position, message, cb, wrapper>>
        /\ dequeue_position' = dequeue_position + 1
        /\ sequence' = [sequence EXCEPT ![s] = position[s] + Capacity]
        /\ Takeable
    BY <1>11, <2>0 DEF CloseDrainOne, ReleasedSequence, rubyVars
  <2>2. /\ Live(s) /\ position[s] = dequeue_position /\ dequeue_position < enqueue_position
        /\ \A c \in Callbacks : Owns(c) => CbSlot(c) # s /\ cb[c].pos > dequeue_position
    BY <2>0, <2>1, TakeSlot
  <2>3. \A i \in Slots : Live(i) /\ i # s => position[i] # dequeue_position
    BY <2>0 DEF Live
  <2>4. ~wrapper[s]
    BY <2>2, <1>t
  <2>5. wrapper' = [wrapper EXCEPT ![s] = FALSE]
    BY <2>1, <2>4, <1>t
  <2>6. \A i \in Slots : i # s /\ Live(i) =>
          (position[i] < dequeue_position + 1 <=> position[i] < dequeue_position)
    <3> HIDE DEF TicketInv
    <3> QED
      BY <2>3, <1>t
  <2>7. \A c \in Callbacks : Owns(c) => dequeue_position + 1 <= cb[c].pos
    BY <2>2, <1>t
  <2>8. dequeue_position + 1 \in Nat /\ dequeue_position + 1 <= enqueue_position
    BY <2>2, <1>t
  <2> QED
    BY <1>9, <2>1, <2>2, <2>5, <2>6, <2>7, <2>8
<1> QED
  BY <1>2, <1>3, <1>4, <1>5, <1>6, <1>7, <1>8, <1>10, <1>11
  DEF Next, Callback, Watchdog, RubyStarts, RubyContinues, Terminated, WatchSteps, RubySteps,
      CallbackMoves

-----------------------------------------------------------------------------
(***************************************************************************)
(* A slot keeps its message until it is given back.                        *)
(***************************************************************************)
GivesBack(i) ==
  \/ RecycleSlot /\ rb.slot = i
  \/ CloseDrainOne /\ SlotOf(dequeue_position) = i

\* A slot in use stays in use until it is given back.
LEMMA SlotStays ==
  ASSUME TypeOK, TicketInv, GuardInv, Next, NEW i \in Slots, InUse(i), ~GivesBack(i)
  PROVE  /\ InUse(i)' /\ position'[i] = position[i] /\ message'[i] = message[i]
         /\ Live(i) => Live(i)'
         /\ Live(i) \/ Occupying(i) => Live(i)' \/ Occupying(i)'
<1>t. /\ sequence \in [Slots -> Nat] /\ position \in [Slots -> Nat]
      /\ enqueue_position \in Nat /\ dequeue_position \in Nat
      /\ cb \in [Callbacks -> [pc : CallbackPcs, msg : {0} \cup Messages, pos : Nat]]
      /\ message \in [Slots -> {0} \cup Messages]
  BY CapacityAssumption, DeliveryAssumption DEF TypeOK, Positions
<1>s. \A c \in Callbacks : CbSlot(c) \in Slots /\ CbSlot(c) = SlotOf(cb[c].pos)
  BY <1>t, SlotOfType DEF CbSlot
<1>f. \A c \in Callbacks : /\ cb[c].pc \in OccupiedPcs => cb[c].pc \in FilledPcs
                           /\ cb[c].pc \in FilledPcs => Owns(c)
  BY DEF FilledPcs, OccupiedPcs, FillingPcs, Owns
<1>o. \A c \in Callbacks : Owns(c) => sequence[CbSlot(c)] = cb[c].pos
  BY DEF TicketInv
<1>u. \A c, d \in Callbacks : Owns(c) /\ Owns(d) /\ c # d => CbSlot(c) # CbSlot(d)
  BY <1>o DEF TicketInv
<1>n. \A c \in Callbacks : Owns(c) => ~Live(CbSlot(c))
  BY <1>s, <1>o, LiveNotFree
\* Steps that leave the ring alone and in which every callback keeps its slot.
<1>1. ASSUME UNCHANGED <<sequence, position, message>>,
             \A c \in Callbacks :
               /\ cb[c].pc \in FilledPcs => cb'[c].pc \in FilledPcs /\ cb'[c].pos = cb[c].pos
               /\ cb[c].pc \in OccupiedPcs => cb'[c].pc \in OccupiedPcs
      PROVE  /\ InUse(i)' /\ position'[i] = position[i] /\ message'[i] = message[i]
             /\ Live(i) => Live(i)'
             /\ Live(i) \/ Occupying(i) => Live(i)' \/ Occupying(i)'
  BY <1>1, <1>f DEF InUse, Occupying, Live, CbSlot
<1>2. CASE WatchSteps \/ RubySteps \/ Flush \/ UNCHANGED vars
  <2>1. UNCHANGED <<ringVars, position, message, wrapper, cb>>
    BY <1>2, TicketFrame
  <2> QED
    BY <1>1, <2>1 DEF ringVars
<1>3. ASSUME NEW c \in Callbacks, CallbackMoves(c)
      PROVE  /\ InUse(i)' /\ position'[i] = position[i] /\ message'[i] = message[i]
             /\ Live(i) => Live(i)'
             /\ Live(i) \/ Occupying(i) => Live(i)' \/ Occupying(i)'
  <2>1. PICK l \in CallbackPcs : cb' = [cb EXCEPT ![c].pc = l] /\ <<cb[c].pc, l>> \in CallbackEdges
    BY <1>3, CallbackFrame
  <2>2. UNCHANGED <<ringVars, position, message, wrapper>>
    BY <1>3, CallbackFrame
  <2>3. /\ cb[c].pc \in FilledPcs => l \in FilledPcs
        /\ cb[c].pc \in OccupiedPcs => l \in OccupiedPcs
    BY <2>1 DEF CallbackEdges, OccupiedPcs, FilledPcs
  <2>4. /\ cb'[c].pc = l /\ cb'[c].msg = cb[c].msg /\ cb'[c].pos = cb[c].pos
        /\ \A d \in Callbacks : d # c => cb'[d] = cb[d]
    BY <2>1, CallbackUpdate
  <2> QED
    BY <1>1, <2>2, <2>3, <2>4 DEF ringVars
<1>4. ASSUME NEW c \in Callbacks, HandleMessage(c) \/ LeaveHandler(c) \/ Enqueue(c)
      PROVE  /\ InUse(i)' /\ position'[i] = position[i] /\ message'[i] = message[i]
             /\ Live(i) => Live(i)'
             /\ Live(i) \/ Occupying(i) => Live(i)' \/ Occupying(i)'
  <2>1. /\ cb[c].pc \notin FilledPcs /\ cb[c].pc \notin OccupiedPcs
        /\ \A d \in Callbacks : d # c => cb'[d] = cb[d]
        /\ UNCHANGED <<sequence, position, message>>
    BY <1>4, <1>t DEF HandleMessage, LeaveHandler, Enqueue, Claim, FilledPcs, OccupiedPcs, slotVars,
       ringVars
  <2> QED
    BY <1>1, <2>1
<1>5. ASSUME NEW c \in Callbacks, FillSlot(c)
      PROVE  /\ InUse(i)' /\ position'[i] = position[i] /\ message'[i] = message[i]
             /\ Live(i) => Live(i)'
             /\ Live(i) \/ Occupying(i) => Live(i)' \/ Occupying(i)'
  <2>0. PICK s \in Slots : s = CbSlot(c)
    BY <1>s
  <2>1. /\ UNCHANGED sequence
        /\ position' = [position EXCEPT ![s] = cb[c].pos]
        /\ message' = [message EXCEPT ![s] = cb[c].msg]
        /\ cb[c].pc = "fill" /\ cb' = [cb EXCEPT ![c].pc = "occupy"]
    BY <1>5, <2>0 DEF FillSlot, CbGoto, ringVars
  <2>2. /\ cb'[c].pc = "occupy"
        /\ \A d \in Callbacks : d # c => cb'[d] = cb[d]
    BY <2>1, CallbackUpdate
  <2>3. Owns(c) /\ cb[c].pc \notin FilledPcs
    BY <2>1 DEF Owns, FillingPcs, FilledPcs
  <2>4. i # s
    BY <2>0, <2>3, <1>f, <1>n, <1>u DEF InUse
  <2>5. position'[i] = position[i] /\ message'[i] = message[i]
    BY <2>1, <2>4, <1>t
  <2> QED
    BY <2>1, <2>2, <2>3, <2>5, <1>f DEF InUse, Occupying, Live, CbSlot
<1>6. ASSUME NEW c \in Callbacks, PublishSlot(c)
      PROVE  /\ InUse(i)' /\ position'[i] = position[i] /\ message'[i] = message[i]
             /\ Live(i) => Live(i)'
             /\ Live(i) \/ Occupying(i) => Live(i)' \/ Occupying(i)'
  <2>0. PICK s \in Slots : s = CbSlot(c)
    BY <1>s
  <2>1. /\ UNCHANGED <<position, message>>
        /\ sequence' = [sequence EXCEPT ![s] = position[s] + 1]
        /\ cb[c].pc = "publish" /\ cb' = [cb EXCEPT ![c].pc = "notify"]
    BY <1>6, <2>0 DEF PublishSlot, PublishedSequence, CbGoto, slotVars
  <2>2. \A d \in Callbacks : d # c => cb'[d] = cb[d]
    BY <2>1, CallbackUpdate
  <2>3. position[s] = cb[c].pos /\ SlotOf(position[s]) = s
    BY <2>0, <2>1, <1>s DEF TicketInv, FilledPcs
  <2>4. CASE i = s
    BY <2>1, <2>3, <2>4, <1>t DEF InUse, Live
  <2>5. CASE i # s
    <3>1. sequence'[i] = sequence[i]
      BY <2>1, <2>5, <1>t
    <3>2. Live(i) <=> Live(i)'
      BY <2>1, <3>1 DEF Live
    <3>3. \A d \in Callbacks : CbSlot(d) = i => cb'[d] = cb[d] /\ CbSlot(d)' = i
      BY <2>0, <2>2, <2>5 DEF CbSlot
    <3> QED
      BY <2>1, <3>2, <3>3 DEF InUse, Occupying
  <2> QED
    BY <2>4, <2>5
<1>7. CASE DrainOne
  BY <1>1, <1>7 DEF DrainOne, Take, slotVars
<1>8. ASSUME NEW s \in Slots, i # s, sequence' = [sequence EXCEPT ![s] = position[s] + Capacity],
             UNCHANGED <<position, message, cb>>
      PROVE  /\ InUse(i)' /\ position'[i] = position[i] /\ message'[i] = message[i]
             /\ Live(i) => Live(i)'
             /\ Live(i) \/ Occupying(i) => Live(i)' \/ Occupying(i)'
  BY <1>8, <1>t DEF InUse, Occupying, Live, CbSlot
<1>9. CASE RecycleSlot
  <2>1. rb.slot \in Slots /\ rb.slot # i
    BY <1>9 DEF GivesBack, TypeOK
  <2> QED
    BY <1>8, <1>9, <2>1 DEF RecycleSlot, GiveSlotBack, ReleasedSequence, slotVars
<1>10. CASE CloseDrainOne
  <2>1. SlotOf(dequeue_position) \in Slots /\ SlotOf(dequeue_position) # i
    BY <1>10, <1>t, SlotOfType DEF GivesBack
  <2> QED
    BY <1>8, <1>10, <2>1 DEF CloseDrainOne, ReleasedSequence
<1> QED
  BY <1>2, <1>3, <1>4, <1>5, <1>6, <1>7, <1>9, <1>10
  DEF Next, Callback, Watchdog, RubyStarts, RubyContinues, Terminated, WatchSteps, RubySteps,
      CallbackMoves

-----------------------------------------------------------------------------
(***************************************************************************)
(* Which steps change which variable.                                      *)
(***************************************************************************)
USE DEF Next, HandleMessage, Callback, CheckClosed, RejectClosed, Enqueue, EnqueueFull,
  AnswerFull, FillSlot, Occupy, Arm, AnswerUnarmed, SendUnarmed, PublishSlot, NotifyQueued,
  LeaveHandler, Watchdog, WatchSteps, WatchdogLoop, Collect, Sleep, CheckOccupied, Enlist, Recheck,
  ClaimDue, SendDue, Resign, DeleteClient, PopDue, Flush, RubyStarts, RubyContinues, StartDrain,
  DrainOne, EndDrain, CheckDepth, NotifyLeft, Respond, SendResponse, ReleaseMessage, SendDefault,
  Disarm, DisarmWait, FreeMessage, RecycleSlot, GiveSlotBack, Close, CloseCallbacks, CloseWatchdog,
  CloseAnswer, CloseDrainOne, CloseDrained, CloseJoin, Terminated, Claim, Take, vars, ringVars,
  slotVars, lifeVars, wakeVars, statVars, watchVars, rubyVars, sendVars, esVars

\* occupied is set by handle_message, reset by a release through the store buffer,
\* and reset directly by close.
LEMMA OccupiedFrame ==
  Next => UNCHANGED occupied \/ Flush \/ CloseDrainOne \/ \E c \in Callbacks : Occupy(c)
BY ZenonT(60)

\* Only the watchdog enters and leaves the slots as a reader.
LEMMA ReadersFrame == Next => UNCHANGED <<readers, wd>> \/ WatchSteps
BY ZenonT(60)

\* The heap of deadlines is the watchdog's.
LEMMA ArmedFrame == Next => UNCHANGED armed \/ Collect \/ \E i \in Slots : PopDue(i)
BY ZenonT(60)

\* A callback asks for a deadline, the watchdog collects the requests.
LEMMA RequestsFrame == Next => UNCHANGED requests \/ Collect \/ \E c \in Callbacks : Arm(c)
BY ZenonT(60)

\* The state of an answer changes by a claim, a response or the next message.
LEMMA AnswerFrame ==
  Next => \/ UNCHANGED answer_state \/ ClaimDue \/ CloseAnswer \/ CloseDrainOne
          \/ \E c \in Callbacks : FillSlot(c) \/ AnswerUnarmed(c)
          \/ \E i \in Slots : Respond(i) \/ ReleaseMessage(i)
BY ZenonT(60)

\* The positions and sequence words of the ring.
LEMMA RingFrame ==
  Next => \/ UNCHANGED ringVars \/ DrainOne \/ RecycleSlot \/ CloseDrainOne
          \/ \E c \in Callbacks : Enqueue(c) \/ PublishSlot(c)
BY ZenonT(60)

\* Only a callback fills a slot.
LEMMA MessageFrame == Next => UNCHANGED <<position, message>> \/ \E c \in Callbacks : FillSlot(c)
BY ZenonT(60)

\* esrb_message_wrap and the release of a message.
LEMMA WrapperFrame == Next => UNCHANGED wrapper \/ DrainOne \/ RecycleSlot
BY ZenonT(60)

\* The stores that the other threads do not see yet.
LEMMA BufferFrame == Next => UNCHANGED buffered \/ Flush \/ EndDrain \/ Disarm
BY ZenonT(60)

\* The functions called with the GVL.
LEMMA RubyFrame == Next => UNCHANGED rb \/ RubyStarts \/ RubyContinues
BY ZenonT(60)

\* The callbacks.
LEMMA CbFrame == Next => UNCHANGED cb \/ \E c \in Callbacks : HandleMessage(c) \/ Callback(c)
BY ZenonT(60)

\* es_retain_message and es_release_message.
LEMMA RefsFrame ==
  Next => \/ UNCHANGED refs \/ FreeMessage \/ CloseDrainOne
          \/ \E c \in Callbacks : \/ HandleMessage(c) \/ LeaveHandler(c) \/ Enqueue(c)
                                  \/ EnqueueFull(c) \/ AnswerFull(c)
BY ZenonT(60)

\* The calls of es_respond_*_result.
LEMMA ResponsesFrame ==
  Next => \/ UNCHANGED <<responses, response_errors, accepted>>
          \/ SendDue \/ SendResponse \/ SendDefault \/ CloseAnswer \/ CloseDrainOne
          \/ \E c \in Callbacks : RejectClosed(c) \/ AnswerFull(c) \/ SendUnarmed(c)
BY ZenonT(60)

\* Endpoint Security hands over a message by a callback.
LEMMA ArrivedFrame == Next => UNCHANGED arrived \/ \E c \in Callbacks : HandleMessage(c)
BY ZenonT(60)

\* The flags of a client's life.
LEMMA LifeFrame ==
  Next => /\ UNCHANGED closed \/ Close
          /\ UNCHANGED watchdog_running \/ CloseCallbacks
          /\ UNCHANGED watchdog_stopped \/ WatchdogLoop
          /\ UNCHANGED delete_ready \/ CloseDrained
BY ZenonT(60)

\* The counters of the ring.
LEMMA PositionFrame ==
  Next => /\ UNCHANGED enqueue_position \/ \E c \in Callbacks : Enqueue(c)
          /\ UNCHANGED dequeue_position \/ DrainOne \/ CloseDrainOne
          /\ UNCHANGED sequence \/ RecycleSlot \/ CloseDrainOne \/ \E c \in Callbacks : PublishSlot(c)
BY ZenonT(60)

\* The counters that stats returns.
LEMMA StatFrame ==
  Next => /\ UNCHANGED dropped \/ \E c \in Callbacks : AnswerFull(c)
          /\ UNCHANGED delivered \/ DrainOne
          /\ UNCHANGED timeouts \/ SendDue
          /\ UNCHANGED <<deleted, delete_errors>> \/ DeleteClient
BY ZenonT(60)

\* The pipe and the flag that a byte is in it.
LEMMA WakeFrame ==
  Next => \/ UNCHANGED <<notified, pipe>> \/ Flush \/ StartDrain \/ NotifyLeft \/ CloseJoin \/ SendDue
          \/ \E c \in Callbacks : NotifyQueued(c)
BY ZenonT(60)

HIDE DEF Next, HandleMessage, Callback, CheckClosed, RejectClosed, Enqueue, EnqueueFull,
  AnswerFull, FillSlot, Occupy, Arm, AnswerUnarmed, SendUnarmed, PublishSlot, NotifyQueued,
  LeaveHandler, Watchdog, WatchSteps, WatchdogLoop, Collect, Sleep, CheckOccupied, Enlist, Recheck,
  ClaimDue, SendDue, Resign, DeleteClient, PopDue, Flush, RubyStarts, RubyContinues, StartDrain,
  DrainOne, EndDrain, CheckDepth, NotifyLeft, Respond, SendResponse, ReleaseMessage, SendDefault,
  Disarm, DisarmWait, FreeMessage, RecycleSlot, GiveSlotBack, Close, CloseCallbacks, CloseWatchdog,
  CloseAnswer, CloseDrainOne, CloseDrained, CloseJoin, Terminated, Claim, Take, vars, ringVars,
  slotVars, lifeVars, wakeVars, statVars, watchVars, rubyVars, sendVars, esVars

-----------------------------------------------------------------------------
(***************************************************************************)
(* Which slots a thread may rely on.                                       *)
(***************************************************************************)
\* readers of a slot is 1 exactly while the watchdog is between its increment and
\* its decrement for that slot.
LEMMA ReadersStep ==
  ASSUME TypeOK, ReadersInv, Next
  PROVE  ReadersInv'
<1>t. /\ readers \in [Slots -> {0, 1}] /\ wd.slot \in Slots
      /\ wd \in [pc : WatchdogPcs, slot : Slots, position : Positions \cup {NoPosition}]
  BY DEF TypeOK
<1>1. CASE UNCHANGED <<readers, wd>>
  BY <1>1 DEF ReadersInv
<1>2. ASSUME UNCHANGED readers, wd.pc \notin ReadingPcs, wd'.pc \notin ReadingPcs
      PROVE  ReadersInv'
  BY <1>2 DEF ReadersInv
<1>3. ASSUME UNCHANGED readers, wd.pc \in ReadingPcs, wd'.pc \in ReadingPcs, wd'.slot = wd.slot
      PROVE  ReadersInv'
  BY <1>3 DEF ReadersInv
<1>4. CASE WatchdogLoop \/ Collect \/ Sleep \/ CheckOccupied \/ DeleteClient \/ \E i \in Slots : PopDue(i)
  BY <1>2, <1>4, <1>t DEF WatchdogLoop, Collect, Sleep, CheckOccupied, DeleteClient, PopDue, WdGoto, WdNext,
     ReadingPcs, slotVars, watchVars
<1>5. CASE Recheck \/ ClaimDue \/ SendDue
  BY <1>3, <1>5, <1>t DEF Recheck, ClaimDue, SendDue, WdGoto, ReadingPcs, slotVars
<1>6. CASE Enlist \/ Resign
  BY <1>6, <1>t DEF ReadersInv, Enlist, Resign, WdGoto, WdNext, ReadingPcs
<1> QED
  BY <1>1, <1>4, <1>5, <1>6, ReadersFrame DEF WatchSteps

\* A slot is marked occupied only while it is live, or a callback is about to
\* publish it.
LEMMA OccupiedStep ==
  ASSUME TypeOK, TicketInv, GuardInv, Next
  PROVE  OccupiedInv'
<1> SUFFICES ASSUME NEW i \in Slots, occupied'[i]
             PROVE  Live(i)' \/ Occupying(i)'
  BY DEF OccupiedInv
<1>t. /\ occupied \in [Slots -> BOOLEAN] /\ dequeue_position \in Nat
      /\ buffered \in Seq([cell : {"occupied", "notified"}, slot : Slots])
      /\ cb \in [Callbacks -> [pc : CallbackPcs, msg : {0} \cup Messages, pos : Nat]]
      /\ rb.slot \in Slots
  BY NatTypes DEF TypeOK
<1>1. ~GivesBack(i)
  <2>1. ~(RecycleSlot /\ rb.slot = i)
    BY <1>t DEF RecycleSlot, GuardInv, RubyInv, slotVars
  <2>2. ~(CloseDrainOne /\ SlotOf(dequeue_position) = i)
    BY <1>t DEF CloseDrainOne
  <2> QED
    BY <2>1, <2>2 DEF GivesBack
<1>2. CASE occupied[i]
  <2>1. Live(i) \/ Occupying(i)
    BY <1>2 DEF GuardInv, OccupiedInv
  <2>2. InUse(i)
    BY <2>1 DEF InUse, Occupying, OccupiedPcs, FilledPcs
  <2> QED
    BY <2>1, <2>2, <1>1, SlotStays
<1>3. CASE ~occupied[i]
  <2>1. ~Flush
    <3>1. ASSUME Flush PROVE FALSE
      <4>1. occupied' = [occupied EXCEPT ![Head(buffered).slot] = FALSE] \/ UNCHANGED occupied
        BY <3>1 DEF Flush
      <4> QED
        BY <4>1, <1>3, <1>t
    <3> QED
      BY <3>1
  <2>2. ~CloseDrainOne
    BY <1>3, <1>t, SlotOfType DEF CloseDrainOne
  <2>3. PICK c \in Callbacks : Occupy(c)
    BY <1>3, <2>1, <2>2, OccupiedFrame
  <2>4. /\ occupied' = [occupied EXCEPT ![CbSlot(c)] = TRUE]
        /\ cb[c].pc = "occupy"
        /\ cb' = [cb EXCEPT ![c].pc = IF cb[c].msg \in Auth THEN "arm" ELSE "publish"]
    BY <2>3 DEF Occupy, CbGoto
  <2>5. CbSlot(c) = i
    BY <1>3, <2>4, <1>t
  <2>6. cb'[c].pc \in OccupiedPcs /\ cb'[c].pos = cb[c].pos
    BY <2>4, <1>t DEF OccupiedPcs
  <2>7. CbSlot(c)' = i
    BY <2>5, <2>6 DEF CbSlot
  <2> QED
    BY <2>6, <2>7 DEF Occupying
<1> QED
  BY <1>2, <1>3

\* No slot that the Ruby thread is releasing is being filled.
LEMMA ReleasedNotOwned ==
  ASSUME TypeOK, TicketInv, RubyInv, rb.pc \in ReleasingPcs, NEW c \in Callbacks, Owns(c)
  PROVE  CbSlot(c) # rb.slot
<1>1. cb[c].pos \in Nat /\ rb.slot \in Slots
  BY DEF TypeOK, Positions
<1>2. Live(rb.slot)
  BY <1>1 DEF RubyInv, TicketInv
<1>3. sequence[CbSlot(c)] = cb[c].pos /\ SlotOf(cb[c].pos) = CbSlot(c)
  BY DEF TicketInv, CbSlot
<1> QED
  BY <1>1, <1>2, <1>3, LiveNotFree

\* What a function that keeps the GVL holds stays true while callbacks and
\* the watchdog run.
LEMMA RubyStep ==
  ASSUME TypeOK, TicketInv, RubyInv, Next
  PROVE  RubyInv'
<1>t. /\ occupied \in [Slots -> BOOLEAN] /\ wrapper \in [Slots -> BOOLEAN] /\ dequeue_position \in Nat
      /\ buffered \in Seq([cell : {"occupied", "notified"}, slot : Slots])
      /\ rb \in [pc : RubyPcs, slot : Slots]
  BY DEF TypeOK, Positions
<1>l. \A x : Len(Append(buffered, x)) = Len(buffered) + 1 /\ Append(buffered, x)[Len(buffered) + 1] = x
             /\ \A k \in 1 .. Len(buffered) : Append(buffered, x)[k] = buffered[k]
  BY <1>t
<1>1. CASE ~RubyStarts /\ ~RubyContinues /\ ~Flush
  <2>1. UNCHANGED <<rb, wrapper, buffered>>
    BY <1>1, RubyFrame, WrapperFrame, BufferFrame DEF RubyStarts, RubyContinues
  <2>2. CASE UNCHANGED occupied
    BY <2>1, <2>2 DEF RubyInv
  <2>3. ASSUME NEW c \in Callbacks, Occupy(c) PROVE RubyInv'
    <3>1. Owns(c) /\ occupied' = [occupied EXCEPT ![CbSlot(c)] = TRUE]
      BY <2>3 DEF Occupy, Owns, FillingPcs
    <3>2. rb.pc \in {"disarm_wait", "free", "recycle"} => occupied'[rb.slot] = occupied[rb.slot]
      BY <3>1, <1>t, ReleasedNotOwned DEF ReleasingPcs
    <3> QED
      BY <2>1, <3>2 DEF RubyInv
  <2> QED
    BY <1>1, <2>2, <2>3, OccupiedFrame DEF RubyContinues
<1>2. CASE Flush
  <2> DEFINE h == Head(buffered)
  <2>1. /\ buffered # <<>> /\ buffered' = Tail(buffered) /\ UNCHANGED <<rb, wrapper>>
        /\ IF h.cell = "occupied" THEN occupied' = [occupied EXCEPT ![h.slot] = FALSE]
                                  ELSE UNCHANGED occupied
    BY <1>2 DEF Flush
  <2>2. /\ Len(buffered) \in Nat /\ Len(buffered) >= 1 /\ h = buffered[1]
        /\ Len(buffered') = Len(buffered) - 1
        /\ \A k \in 1 .. Len(buffered') : buffered'[k] = buffered[k + 1]
    BY <2>1, <1>t
  <2>3. \A k \in 1 .. Len(buffered') : k + 1 \in 1 .. Len(buffered)
    BY <2>2
  <2>4. \A k \in 1 .. Len(buffered') : buffered'[k].cell = "occupied" =>
          rb'.pc \in {"disarm_wait", "free"} /\ buffered'[k].slot = rb'.slot
    BY <2>1, <2>2, <2>3 DEF RubyInv
  <2>5. rb'.pc = "recycle" => ~occupied'[rb'.slot]
    BY <2>1, <1>t DEF RubyInv
  <2>6. ASSUME rb'.pc \in {"disarm_wait", "free"}, occupied'[rb'.slot]
        PROVE  \E k \in 1 .. Len(buffered') : buffered'[k].cell = "occupied"
    <3>1. h.cell # "occupied"
      <4>1. h.cell = "occupied" => h.slot = rb.slot
        BY <2>2 DEF RubyInv
      <4> QED
        BY <4>1, <2>1, <2>6, <1>t
    <3>2. occupied[rb.slot] /\ rb.pc \in {"disarm_wait", "free"}
      BY <3>1, <2>1, <2>6
    <3>3. PICK k \in 1 .. Len(buffered) : buffered[k].cell = "occupied"
      BY <3>2 DEF RubyInv
    <3>4. k # 1 /\ k - 1 \in 1 .. Len(buffered') /\ (k - 1) + 1 = k
      BY <3>1, <3>3, <2>2
    <3> QED
      BY <3>3, <3>4, <2>2
  <2> QED
    BY <2>1, <2>4, <2>5, <2>6 DEF RubyInv
\* The Ruby thread is not releasing a message, and does not begin to.
<1>3. ASSUME rb.pc \notin {"disarm_wait", "free"}, rb'.pc \notin ReleasingPcs,
             UNCHANGED buffered \/ EndDrain
      PROVE  RubyInv'
  <2>1. \A k \in 1 .. Len(buffered) : buffered[k].cell # "occupied"
    BY <1>3 DEF RubyInv
  <2>2. \A k \in 1 .. Len(buffered') : buffered'[k].cell # "occupied"
    <3>1. CASE UNCHANGED buffered
      BY <2>1, <3>1
    <3>2. CASE EndDrain
      <4>1. buffered' = Append(buffered, [cell |-> "notified", slot |-> 0])
        BY <3>2 DEF EndDrain, BufferFalse
      <4>2. Len(buffered) \in Nat
        BY <1>t
      <4> QED
        BY <2>1, <4>1, <4>2, <1>l
    <3> QED
      BY <1>3, <3>1, <3>2
  <2> QED
    BY <1>3, <2>2 DEF RubyInv, ReleasingPcs
<1>4. CASE \/ StartDrain \/ EndDrain \/ CheckDepth \/ NotifyLeft \/ DrainOne \/ SendResponse
           \/ RecycleSlot \/ Close \/ CloseCallbacks \/ CloseWatchdog \/ CloseAnswer \/ CloseDrainOne
           \/ CloseDrained \/ CloseJoin
  <2>1. rb.pc \notin {"disarm_wait", "free"} /\ (UNCHANGED buffered \/ EndDrain)
    BY <1>4 DEF StartDrain, EndDrain, CheckDepth, NotifyLeft, DrainOne, SendResponse, RecycleSlot, Close,
       CloseCallbacks, CloseWatchdog, CloseAnswer, CloseDrainOne, CloseDrained, CloseJoin, RbStart,
       rubyVars
  <2>2. rb'.pc \notin ReleasingPcs
    BY <1>4, <1>t DEF StartDrain, EndDrain, CheckDepth, NotifyLeft, DrainOne, SendResponse, RecycleSlot, Close,
       CloseCallbacks, CloseWatchdog, CloseAnswer, CloseDrainOne, CloseDrained, CloseJoin, RbStart, RbGoto,
       IdleRuby, rubyVars, ReleasingPcs
  <2> QED
    BY <1>3, <2>1, <2>2
<1>5. ASSUME NEW i \in Slots, Respond(i) \/ ReleaseMessage(i) PROVE RubyInv'
  <2>1. /\ rb.pc = "idle" /\ rb'.pc \in {"send", "release_send", "disarm"} /\ rb'.slot = i
        /\ wrapper[i] /\ UNCHANGED <<wrapper, buffered, occupied>>
    BY <1>5 DEF Respond, ReleaseMessage, RbStart
  <2> QED
    BY <2>1 DEF RubyInv
<1>6. CASE SendDefault
  <2>1. rb.pc = "release_send" /\ rb'.pc = "disarm" /\ rb'.slot = rb.slot
        /\ UNCHANGED <<wrapper, buffered, occupied>>
    BY <1>6, <1>t DEF SendDefault, RbGoto, slotVars
  <2> QED
    BY <2>1 DEF RubyInv, ReleasingPcs
<1>7. CASE Disarm
  <2>1. /\ rb.pc = "disarm" /\ rb'.pc = "disarm_wait" /\ rb'.slot = rb.slot
        /\ UNCHANGED <<wrapper, occupied>>
        /\ buffered' = Append(buffered, [cell |-> "occupied", slot |-> rb.slot])
    BY <1>7, <1>t DEF Disarm, RbGoto, BufferFalse, slotVars
  <2>2. Len(buffered) \in Nat
    BY <1>t
  <2>3. \A k \in 1 .. Len(buffered') : buffered'[k].cell = "occupied" => buffered'[k].slot = rb.slot
    BY <2>1, <2>2, <1>l DEF RubyInv
  <2>4. \E k \in 1 .. Len(buffered') : buffered'[k].cell = "occupied"
    BY <2>1, <2>2, <1>l
  <2> QED
    BY <2>1, <2>3, <2>4 DEF RubyInv, ReleasingPcs
<1>8. CASE DisarmWait
  <2>1. rb.pc = "disarm_wait" /\ rb'.pc = "free" /\ rb'.slot = rb.slot
        /\ UNCHANGED <<wrapper, buffered, occupied>>
    BY <1>8, <1>t DEF DisarmWait, RbGoto, slotVars
  <2> QED
    BY <2>1 DEF RubyInv, ReleasingPcs
<1>9. CASE FreeMessage
  <2>1. rb.pc = "free" /\ rb'.pc = "recycle" /\ rb'.slot = rb.slot /\ Len(buffered) = 0
        /\ UNCHANGED <<wrapper, buffered, occupied>>
    BY <1>9, <1>t DEF FreeMessage, Drained, RbGoto, slotVars
  <2>2. ~occupied[rb.slot]
    BY <2>1 DEF RubyInv
  <2> QED
    BY <2>1, <2>2 DEF RubyInv, ReleasingPcs
<1> QED
  BY <1>1, <1>2, <1>4, <1>5, <1>6, <1>7, <1>8, <1>9 DEF RubyStarts, RubyContinues

\* The watchdog's slot stays in use while it is a reader of it.
LEMMA WatchdogStep ==
  ASSUME TypeOK, TicketInv, GuardInv, Next
  PROVE  WatchdogInv'
<1>t. /\ wd \in [pc : WatchdogPcs, slot : Slots, position : Positions \cup {NoPosition}]
      /\ readers \in [Slots -> {0, 1}]
      /\ rb \in [pc : RubyPcs, slot : Slots]
  BY DEF TypeOK
<1>1. ASSUME NEW i \in Slots, i = wd.slot, Live(i) \/ Occupying(i), wd'.slot = i, wd'.position = wd.position,
             position[i] = wd.position, ~GivesBack(i)
      PROVE  WatchdogInv'
  <2>1. InUse(i)
    BY <1>1 DEF InUse, Occupying, OccupiedPcs, FilledPcs
  <2>2. position'[i] = position[i] /\ (Live(i)' \/ Occupying(i)')
    BY <1>1, <2>1, SlotStays
  <2>3. (Live(wd.slot) \/ Occupying(wd.slot))' <=> Live(i)' \/ Occupying(i)'
    BY <1>1 DEF Live, Occupying
  <2> QED
    BY <1>1, <2>2, <2>3 DEF WatchdogInv
<1>2. wd.pc \in ReadingPcs => ~GivesBack(wd.slot)
  <2>1. SUFFICES ASSUME wd.pc \in ReadingPcs PROVE ~GivesBack(wd.slot)
    OBVIOUS
  <2>2. readers[wd.slot] = 1
    BY <2>1, <1>t DEF GuardInv, ReadersInv
  <2> QED
    BY <2>2 DEF GivesBack, RecycleSlot, CloseDrainOne
<1>3. CASE UNCHANGED wd
  <2>1. CASE wd.pc \in {"claim", "send"}
    BY <2>1, <1>1, <1>2, <1>3, <1>t DEF GuardInv, WatchdogInv, ReadingPcs
  <2> QED
    BY <2>1, <1>3 DEF WatchdogInv
<1>4. CASE WatchdogLoop \/ Collect \/ Sleep \/ CheckOccupied \/ DeleteClient \/ Enlist \/ Resign \/ SendDue
           \/ \E i \in Slots : PopDue(i)
  <2>1. wd'.pc \notin {"claim", "send"}
    BY <1>4, <1>t DEF WatchdogLoop, Collect, Sleep, CheckOccupied, DeleteClient, Enlist, Resign, SendDue,
       PopDue, WdGoto, WdNext
  <2> QED
    BY <2>1 DEF WatchdogInv
<1>5. CASE Recheck
  <2>1. /\ wd.pc = "recheck" /\ wd'.slot = wd.slot /\ wd'.position = wd.position
        /\ wd'.pc = IF occupied[wd.slot] /\ position[wd.slot] = wd.position THEN "claim" ELSE "resign"
    BY <1>5, <1>t DEF Recheck, WdGoto
  <2>2. CASE occupied[wd.slot] /\ position[wd.slot] = wd.position
    <3>1. Live(wd.slot) \/ Occupying(wd.slot)
      BY <2>2, <1>t DEF GuardInv, OccupiedInv
    <3> QED
      BY <1>1, <1>2, <1>t, <2>1, <2>2, <3>1 DEF ReadingPcs
  <2>3. CASE ~(occupied[wd.slot] /\ position[wd.slot] = wd.position)
    BY <2>1, <2>3 DEF WatchdogInv
  <2> QED
    BY <2>2, <2>3
<1>6. CASE ClaimDue
  <2>1. wd.pc = "claim" /\ wd'.slot = wd.slot /\ wd'.position = wd.position
    BY <1>6, <1>t DEF ClaimDue, WdGoto
  <2> QED
    BY <1>1, <1>2, <1>t, <2>1 DEF GuardInv, WatchdogInv, ReadingPcs
<1> QED
  BY <1>3, <1>4, <1>5, <1>6, ReadersFrame DEF WatchSteps

-----------------------------------------------------------------------------
(***************************************************************************)
(* The close.                                                              *)
(***************************************************************************)
LEMMA StopStep ==
  ASSUME TypeOK, StopInv, ActiveInv, Next
  PROVE  StopInv'
<1>t. /\ wd \in [pc : WatchdogPcs, slot : Slots, position : Positions \cup {NoPosition}]
      /\ cb \in [Callbacks -> [pc : CallbackPcs, msg : {0} \cup Messages, pos : Nat]]
      /\ rb \in [pc : RubyPcs, slot : Slots]
      /\ closed \in BOOLEAN /\ watchdog_running \in BOOLEAN /\ watchdog_stopped \in BOOLEAN
  BY DEF TypeOK, Positions
<1>1. rb'.pc \in ClosePcs => closed'
  <2>1. closed => closed'
    BY LifeFrame DEF Close
  <2>2. CASE UNCHANGED rb
    BY <2>1, <2>2 DEF StopInv
  <2>3. CASE RubyStarts \/ RubyContinues
    <3>1. rb'.pc \in ClosePcs => rb.pc \in ClosePcs \/ closed'
      BY <2>3, <1>t DEF RubyStarts, RubyContinues, StartDrain, DrainOne, EndDrain, CheckDepth, NotifyLeft,
         Respond, SendResponse, ReleaseMessage, SendDefault, Disarm, DisarmWait, FreeMessage, RecycleSlot,
         Close, CloseCallbacks, CloseWatchdog, CloseAnswer, CloseDrainOne, CloseDrained, CloseJoin,
         RbGoto, RbStart, IdleRuby, ClosePcs, rubyVars
    <3> QED
      BY <2>1, <3>1 DEF StopInv
  <2> QED
    BY <2>2, <2>3, RubyFrame
<1>2. ~watchdog_running' => closed' /\ \A c \in Callbacks : cb'[c].pc \in {"idle", "check", "reject", "leave"}
  <2>1. CASE CloseCallbacks
    <3>1. active_callbacks = 0 /\ rb.pc \in ClosePcs /\ UNCHANGED <<closed, cb>>
      BY <2>1 DEF CloseCallbacks, ClosePcs
    <3>2. IsFiniteSet({c \in Callbacks : cb[c].pc # "idle"})
      BY DeliveryAssumption, FS_Subset
    <3>3. {c \in Callbacks : cb[c].pc # "idle"} = {}
      BY <3>1, <3>2, FS_EmptySet DEF ActiveInv
    <3> QED
      BY <3>1, <3>3 DEF StopInv
  <2>2. CASE ~CloseCallbacks
    <3> SUFFICES ASSUME ~watchdog_running, closed,
                        \A c \in Callbacks : cb[c].pc \in {"idle", "check", "reject", "leave"}
                 PROVE  /\ closed'
                        /\ \A c \in Callbacks : cb'[c].pc \in {"idle", "check", "reject", "leave"}
      BY <2>2, LifeFrame DEF StopInv
    <3>1. closed'
      BY LifeFrame DEF Close
    <3>2. CASE UNCHANGED cb
      BY <3>1, <3>2
    <3>3. ASSUME NEW c \in Callbacks, HandleMessage(c) \/ Callback(c)
          PROVE  \A d \in Callbacks : cb'[d].pc \in {"idle", "check", "reject", "leave"}
      <4>1. HandleMessage(c) \/ CheckClosed(c) \/ RejectClosed(c) \/ LeaveHandler(c)
        BY <3>3 DEF Callback, Enqueue, EnqueueFull, AnswerFull, FillSlot, Occupy, Arm, AnswerUnarmed,
           SendUnarmed, PublishSlot, NotifyQueued
      <4>2. cb'[c].pc \in {"idle", "check", "reject", "leave"}
        <5>1. CASE CheckClosed(c)
          <6>1. cb' = [cb EXCEPT ![c].pc = "reject"]
            BY <5>1 DEF CheckClosed, CbGoto
          <6> QED
            BY <6>1, <1>t
        <5>2. CASE HandleMessage(c)
          BY <5>2, <1>t DEF HandleMessage
        <5>3. CASE RejectClosed(c)
          BY <5>3, <1>t DEF RejectClosed, CbGoto
        <5>4. CASE LeaveHandler(c)
          BY <5>4, <1>t DEF LeaveHandler, IdleCallback
        <5> QED
          BY <4>1, <5>1, <5>2, <5>3, <5>4
      <4>3. \A d \in Callbacks : d # c => cb'[d] = cb[d]
        BY <4>1, <1>t DEF HandleMessage, CheckClosed, RejectClosed, LeaveHandler, CbGoto
      <4> QED
        BY <4>2, <4>3
    <3> QED
      BY <3>1, <3>2, <3>3, CbFrame
  <2> QED
    BY <2>1, <2>2
<1>3. /\ watchdog_stopped' <=> wd'.pc \in {"await_delete", "done"}
      /\ watchdog_stopped' => ~watchdog_running'
  <2>1. CASE WatchdogLoop
    BY <2>1, <1>t DEF WatchdogLoop, WdGoto, StopInv
  <2>2. CASE ~WatchdogLoop
    <3>1. UNCHANGED watchdog_stopped /\ (watchdog_running' => watchdog_running)
      BY <2>2, <1>t, LifeFrame DEF CloseCallbacks
    <3>2. wd'.pc \in {"await_delete", "done"} <=> wd.pc \in {"await_delete", "done"}
      BY <2>2, <1>t, ReadersFrame DEF WatchSteps, Collect, Sleep, CheckOccupied, Enlist, Recheck,
         ClaimDue, SendDue, Resign, DeleteClient, PopDue, WdGoto, WdNext
    <3> QED
      BY <3>1, <3>2 DEF StopInv
  <2> QED
    BY <2>1, <2>2
<1>4. closed' /\ rb'.pc \notin {"close_callbacks", "close_watchdog"} => watchdog_stopped'
  <2>1. watchdog_stopped => watchdog_stopped'
    BY LifeFrame DEF WatchdogLoop
  <2>2. CASE Close
    BY <2>2 DEF Close, RbStart
  <2>3. CASE ~Close
    <3>1. UNCHANGED closed
      BY <2>3, LifeFrame
    <3>2. CASE UNCHANGED rb
      BY <2>1, <3>1, <3>2 DEF StopInv
    <3>3. CASE RubyStarts \/ RubyContinues
      <4>1. rb.pc \in {"close_callbacks", "close_watchdog"} =>
              rb'.pc \in {"close_callbacks", "close_watchdog"} \/ watchdog_stopped
        BY <3>3, <1>t DEF RubyStarts, RubyContinues, StartDrain, DrainOne, EndDrain, CheckDepth, NotifyLeft,
           Respond, SendResponse, ReleaseMessage, SendDefault, Disarm, DisarmWait, FreeMessage, RecycleSlot,
           Close, CloseCallbacks, CloseWatchdog, CloseAnswer, CloseDrainOne, CloseDrained, CloseJoin,
           RbGoto, RbStart
      <4> QED
        BY <2>1, <3>1, <4>1 DEF StopInv
    <3> QED
      BY <3>2, <3>3, RubyFrame
  <2> QED
    BY <2>2, <2>3
<1> QED
  BY <1>1, <1>2, <1>3, <1>4 DEF StopInv

\* The number of callbacks under way is what active_callbacks says.
LEMMA ActiveStep ==
  ASSUME TypeOK, ActiveInv, Next
  PROVE  ActiveInv'
<1> DEFINE A == {c \in Callbacks : cb[c].pc # "idle"}
<1>t. cb \in [Callbacks -> [pc : CallbackPcs, msg : {0} \cup Messages, pos : Nat]]
  BY DEF TypeOK, Positions
<1>f. IsFiniteSet(A) /\ Cardinality(A) \in Nat /\ active_callbacks = Cardinality(A)
  BY DeliveryAssumption, FS_Subset, FS_CardinalityType DEF ActiveInv
<1>1. ASSUME NEW c \in Callbacks, HandleMessage(c) PROVE ActiveInv'
  <2>1. /\ cb[c].pc = "idle" /\ active_callbacks' = active_callbacks + 1
        /\ cb'[c].pc = "check" /\ \A d \in Callbacks : d # c => cb'[d] = cb[d]
    BY <1>1, <1>t DEF HandleMessage
  <2>2. A' = A \cup {c} /\ c \notin A
    BY <2>1
  <2>3. Cardinality(A \cup {c}) = Cardinality(A) + 1
    BY <2>2, <1>f, FS_AddElement
  <2> QED
    BY <2>1, <2>2, <2>3, <1>f DEF ActiveInv
<1>2. ASSUME NEW c \in Callbacks, LeaveHandler(c) PROVE ActiveInv'
  <2>1. /\ cb[c].pc = "leave" /\ active_callbacks' = active_callbacks - 1
        /\ cb'[c].pc = "idle" /\ \A d \in Callbacks : d # c => cb'[d] = cb[d]
    BY <1>2, <1>t DEF LeaveHandler, IdleCallback
  <2>2. A' = A \ {c} /\ c \in A
    BY <2>1
  <2>3. Cardinality(A \ {c}) = Cardinality(A) - 1
    BY <2>2, <1>f, FS_RemoveElement
  <2> QED
    BY <2>1, <2>2, <2>3, <1>f DEF ActiveInv
<1>3. ASSUME NEW c \in Callbacks, Callback(c), ~LeaveHandler(c) PROVE ActiveInv'
  <2>1. /\ active_callbacks' = active_callbacks /\ cb[c].pc # "idle" /\ cb'[c].pc # "idle"
        /\ \A d \in Callbacks : d # c => cb'[d] = cb[d]
    BY <1>3, <1>t DEF Callback, CheckClosed, RejectClosed, Enqueue, EnqueueFull, AnswerFull,
       FillSlot, Occupy, Arm, AnswerUnarmed, SendUnarmed, PublishSlot, NotifyQueued, CbGoto, lifeVars
  <2>2. A' = A
    BY <2>1
  <2> QED
    BY <2>1, <2>2, <1>f DEF ActiveInv
<1>4. CASE \A c \in Callbacks : ~HandleMessage(c) /\ ~Callback(c)
  <2>1. UNCHANGED <<cb, active_callbacks>>
    BY <1>4 DEF Next, Watchdog, WatchdogLoop, Collect, Sleep, CheckOccupied, Enlist, Recheck,
       ClaimDue, SendDue, Resign, DeleteClient, PopDue, Flush, RubyStarts, RubyContinues, StartDrain,
       DrainOne, EndDrain, CheckDepth, NotifyLeft, Respond, SendResponse, ReleaseMessage, SendDefault,
       Disarm, DisarmWait, FreeMessage, RecycleSlot, Close, CloseCallbacks, CloseWatchdog,
       CloseAnswer, CloseDrainOne, CloseDrained, CloseJoin, Terminated, vars, lifeVars, rubyVars
  <2> QED
    BY <2>1, <1>f DEF ActiveInv
<1> QED
  BY <1>1, <1>2, <1>3, <1>4
-----------------------------------------------------------------------------
(***************************************************************************)
(* Second part: the messages, their answers and the client's end.          *)
(***************************************************************************)

(***************************************************************************)
(* The rest of the inductive invariant.                                    *)
(***************************************************************************)

\* A callback that has not published its message.
FreshPcs == {"check", "reject", "enqueue", "full", "fill", "occupy", "arm", "unarmed", "send", "publish"}

\* Every message is with at most one callback, and in at most one slot: never
\* both before it is published.
MessageInv ==
  /\ \A c \in Callbacks : cb[c].pc # "idle" => cb[c].msg \in 1 .. arrived
  /\ \A c, d \in Callbacks : cb[c].pc # "idle" /\ cb[d].pc # "idle" /\ c # d => cb[c].msg # cb[d].msg
  /\ \A i \in Slots : Live(i) => message[i] \in 1 .. arrived
  /\ \A i, j \in Slots : Live(i) /\ Live(j) /\ i # j => message[i] # message[j]
  /\ \A c \in Callbacks, i \in Slots : cb[c].pc \in FreshPcs /\ Live(i) => message[i] # cb[c].msg

\* Where an answer may be pending: in a slot that is occupied or about to be,
\* not in one that Ruby is answering or releasing, and in none once
\* client_close_native has gone through them.
BeforeAnswered == {"close_callbacks", "close_watchdog", "close_answer"}

PendingInv ==
  /\ \A i \in Slots : answer_state[i] = "pending" =>
       occupied[i] \/ \E c \in Callbacks : cb[c].pc = "occupy" /\ CbSlot(c) = i
  /\ rb.pc \in ReleasingPcs => answer_state[rb.slot] # "pending"
  /\ closed /\ rb.pc \notin BeforeAnswered => \A i \in Slots : answer_state[i] # "pending"
  /\ rb.pc = "close_answer" => \A i \in Slots : i < rb.slot => answer_state[i] # "pending"
  /\ delete_ready => closed /\ rb.pc \notin BeforeAnswered
  /\ rb.pc \in {"free", "recycle"} => ~(wd.pc = "send" /\ wd.slot = rb.slot)

\* Endpoint Security's own reference while the handler runs, and the one of
\* es_retain_message: the handler's, then the slot's until es_release_message.
Running(m) == \E c \in Callbacks : cb[c].pc # "idle" /\ cb[c].msg = m
Kept(i) == Live(i) /\ ~(rb.pc = "recycle" /\ rb.slot = i)
Held(m) ==
  \/ \E c \in Callbacks : cb[c].pc \in FillingPcs \cup {"full"} /\ cb[c].msg = m
  \/ \E i \in Slots : Kept(i) /\ message[i] = m

RefsInv ==
  \A m \in Messages : refs[m] = (IF Running(m) THEN 1 ELSE 0) + (IF Held(m) THEN 1 ELSE 0)

\* Who has won the answer of slot i and has not sent it yet.
CbSends(i) == \E c \in Callbacks : cb[c].pc = "send" /\ CbSlot(c) = i
WdSends(i) == wd.pc = "send" /\ wd.slot = i
RbSends(i) == rb.pc \in {"send", "release_send"} /\ rb.slot = i
Sends(i) == CbSends(i) \/ WdSends(i) \/ RbSends(i)

\* The answer of slot i is pending or on its way.
Open(i) == answer_state[i] = "pending" \/ Sends(i)

\* One thread at most has won it.
ExclusiveInv ==
  \A i \in Slots :
    /\ Sends(i) => answer_state[i] # "pending"
    /\ ~(CbSends(i) /\ WdSends(i)) /\ ~(CbSends(i) /\ RbSends(i)) /\ ~(WdSends(i) /\ RbSends(i))

\* A callback that still has to answer, or to leave the answer to its slot.
UnansweredPcs == {"check", "reject", "enqueue", "full", "fill"}

\* An AUTH message that arrived has no answer exactly as long as a callback
\* or the slot it is in owes it one.
AnswerInv ==
  /\ \A i \in Slots : Open(i) => message[i] \in Auth /\ responses[message[i]] = 0
  /\ \A m \in Messages : m > arrived => responses[m] = 0
  /\ \A c \in Callbacks : cb[c].pc \in UnansweredPcs => responses[cb[c].msg] = 0
  /\ AnsweredAtMostOnce
  /\ \A m \in Auth : m <= arrived /\ responses[m] = 0 =>
       \/ \E c \in Callbacks : cb[c].pc \in UnansweredPcs /\ cb[c].msg = m
       \/ \E i \in Slots : message[i] = m /\ Open(i)

\* The entries for a slot are no younger than its message, and are collected
\* in their order: heap_set never replaces an entry by an older one.
OrderInv ==
  /\ \A i \in Slots : armed[i] <= position[i]
  /\ \A k \in 1 .. Len(requests) :
       /\ requests[k].position <= position[requests[k].slot]
       /\ armed[requests[k].slot] <= requests[k].position
  /\ \A j, k \in 1 .. Len(requests) : j < k /\ requests[j].slot = requests[k].slot =>
       requests[j].position <= requests[k].position

\* Callbacks that have not been given a slot, or refused one.
EntryPcs == {"check", "reject", "enqueue", "full"}
Entering == {c \in Callbacks : cb[c].pc \in EntryPcs}
Answered == {m \in Messages : responses[m] > 0}

\* What the counters count.
CountInv ==
  /\ enqueue_position + dropped + Cardinality(Entering) <= arrived
  /\ delivered <= dequeue_position
  /\ timeouts <= Cardinality(Answered)

\* Every slot a thread names is one of the ring's.
LEMMA SlotIndices ==
  ASSUME TypeOK
  PROVE  /\ rb.slot \in Slots /\ wd.slot \in Slots /\ SlotOf(dequeue_position) \in Slots
         /\ dequeue_position \in Nat /\ enqueue_position \in Nat /\ SlotOf(enqueue_position) \in Slots
         /\ \A c \in Callbacks : CbSlot(c) \in Slots /\ cb[c].pos \in Nat
<1>1. dequeue_position \in Nat /\ enqueue_position \in Nat
  BY DEF TypeOK, Positions
<1>2. \A c \in Callbacks : cb[c].pos \in Nat
  BY DEF TypeOK, Positions
<1>3. rb.slot \in Slots /\ wd.slot \in Slots
  BY DEF TypeOK
<1> QED
  BY <1>1, <1>2, <1>3, SlotOfType DEF CbSlot

-----------------------------------------------------------------------------
(***************************************************************************)
(* Messages.                                                               *)
(***************************************************************************)

\* Only its own steps move a callback.
LEMMA CallbackSteps ==
  ASSUME TypeOK, Next, NEW c \in Callbacks
  PROVE  cb'[c] = cb[c] \/ HandleMessage(c) \/ Callback(c)
<1>t. cb \in [Callbacks -> [pc : CallbackPcs, msg : {0} \cup Messages, pos : Nat]]
  BY DEF TypeOK, Positions
<1>1. ASSUME NEW d \in Callbacks, d # c, HandleMessage(d) \/ Callback(d)
      PROVE  cb'[c] = cb[c]
  BY <1>1, <1>t DEF HandleMessage, Callback, CheckClosed, RejectClosed, Enqueue, EnqueueFull, AnswerFull,
     FillSlot, Occupy, Arm, AnswerUnarmed, SendUnarmed, PublishSlot, NotifyQueued, LeaveHandler, CbGoto
<1> QED
  BY <1>1, CbFrame

\* How a callback gets its message, and how it moves.
LEMMA CallbackKeepsMessage ==
  ASSUME TypeOK, Next, NEW c \in Callbacks, cb'[c].pc # "idle"
  PROVE  \/ HandleMessage(c) /\ cb'[c].pc = "check" /\ cb'[c].msg = arrived' /\ arrived' = arrived + 1
         \/ /\ cb[c].pc # "idle" /\ cb'[c].msg = cb[c].msg
            /\ cb'[c].pc \in FreshPcs => cb[c].pc \in FreshPcs
<1>t. cb \in [Callbacks -> [pc : CallbackPcs, msg : {0} \cup Messages, pos : Nat]]
  BY DEF TypeOK, Positions
<1>1. CASE cb'[c] = cb[c]
  BY <1>1
<1>3. CASE HandleMessage(c)
  BY <1>3, <1>t DEF HandleMessage
<1>4. CASE CallbackMoves(c)
  <2>1. PICK l \in CallbackPcs : cb' = [cb EXCEPT ![c].pc = l] /\ <<cb[c].pc, l>> \in CallbackEdges
    BY <1>4, CallbackFrame
  <2>2. cb[c].pc # "idle" /\ (l \in FreshPcs => cb[c].pc \in FreshPcs)
    BY <2>1 DEF CallbackEdges, FreshPcs
  <2> QED
    BY <2>1, <2>2, CallbackUpdate
<1>5. CASE Enqueue(c) \/ FillSlot(c) \/ PublishSlot(c)
  BY <1>5, <1>t DEF Enqueue, FillSlot, PublishSlot, CbGoto, FreshPcs
<1>6. CASE LeaveHandler(c)
  BY <1>6, <1>t DEF LeaveHandler, IdleCallback
<1> QED
  BY <1>1, <1>3, <1>4, <1>5, <1>6, CallbackSteps DEF Callback, CallbackMoves

\* A slot becomes live only when its callback publishes it.
LEMMA LiveIsPublished ==
  ASSUME TypeOK, TicketInv, GuardInv, Next, NEW i \in Slots, Live(i)'
  PROVE  /\ position'[i] = position[i] /\ message'[i] = message[i]
         /\ Live(i) \/ \E c \in Callbacks : /\ PublishSlot(c) /\ CbSlot(c) = i /\ cb[c].pc = "publish"
                                            /\ message[i] = cb[c].msg
<1>t. /\ sequence \in [Slots -> Nat] /\ position \in [Slots -> Nat] /\ Capacity \in Nat /\ Capacity >= 2
      /\ dequeue_position \in Nat /\ rb.slot \in Slots
      /\ cb \in [Callbacks -> [pc : CallbackPcs, msg : {0} \cup Messages, pos : Nat]]
      /\ message \in [Slots -> {0} \cup Messages]
  BY CapacityAssumption, DeliveryAssumption DEF TypeOK, Positions
<1>s. \A c \in Callbacks : CbSlot(c) \in Slots /\ CbSlot(c) = SlotOf(cb[c].pos)
  BY <1>t, SlotOfType DEF CbSlot
<1>1. CASE UNCHANGED <<sequence, position, message>>
  BY <1>1 DEF Live
<1>2. ASSUME NEW c \in Callbacks, FillSlot(c)
      PROVE  Live(i) /\ position'[i] = position[i] /\ message'[i] = message[i]
  <2>0. PICK s \in Slots : s = CbSlot(c)
    BY <1>s
  <2>1. /\ UNCHANGED sequence
        /\ position' = [position EXCEPT ![s] = cb[c].pos]
        /\ message' = [message EXCEPT ![s] = cb[c].msg]
        /\ cb[c].pc = "fill"
    BY <1>2, <2>0 DEF FillSlot, ringVars
  <2>2. sequence[s] = cb[c].pos
    BY <2>0, <2>1 DEF TicketInv, Owns, FillingPcs
  <2>3. i # s
    BY <2>1, <2>2, <1>t DEF Live
  <2> QED
    BY <2>1, <2>3, <1>t DEF Live
<1>3. ASSUME NEW c \in Callbacks, PublishSlot(c)
      PROVE  /\ position'[i] = position[i] /\ message'[i] = message[i]
             /\ Live(i) \/ (CbSlot(c) = i /\ cb[c].pc = "publish" /\ message[i] = cb[c].msg)
  <2>0. PICK s \in Slots : s = CbSlot(c)
    BY <1>s
  <2>1. /\ UNCHANGED <<position, message>>
        /\ sequence' = [sequence EXCEPT ![s] = position[s] + 1]
        /\ cb[c].pc = "publish"
    BY <1>3, <2>0 DEF PublishSlot, PublishedSequence, slotVars
  <2>2. message[s] = cb[c].msg
    BY <2>0, <2>1 DEF TicketInv, FilledPcs
  <2> QED
    BY <2>0, <2>1, <2>2, <1>t DEF Live
<1>4. ASSUME NEW s \in Slots, UNCHANGED <<position, message>>,
             sequence' = [sequence EXCEPT ![s] = position[s] + Capacity]
      PROVE  Live(i) /\ position'[i] = position[i] /\ message'[i] = message[i]
  <2>1. i # s
    BY <1>4, <1>t DEF Live
  <2> QED
    BY <1>4, <2>1, <1>t DEF Live
<1>5. CASE RecycleSlot
  BY <1>4, <1>5, <1>t DEF RecycleSlot, GiveSlotBack, ReleasedSequence, slotVars
<1>6. CASE CloseDrainOne
  BY <1>4, <1>6, <1>t, SlotOfType DEF CloseDrainOne, ReleasedSequence
<1> QED
  BY <1>1, <1>2, <1>3, <1>5, <1>6, PositionFrame, MessageFrame

\* A message is with at most one callback and in at most one slot.
LEMMA MessageStep ==
  ASSUME TypeOK, TicketInv, GuardInv, MessageInv, Next
  PROVE  MessageInv'
<1>t. arrived \in Nat /\ (arrived' = arrived \/ arrived' = arrived + 1)
  BY DeliveryAssumption, ArrivedFrame DEF TypeOK, HandleMessage
<1>k. \A c \in Callbacks : cb'[c].pc # "idle" =>
        \/ HandleMessage(c) /\ cb'[c].pc = "check" /\ cb'[c].msg = arrived' /\ arrived' = arrived + 1
        \/ /\ cb[c].pc # "idle" /\ cb'[c].msg = cb[c].msg
           /\ cb'[c].pc \in FreshPcs => cb[c].pc \in FreshPcs
  BY CallbackKeepsMessage
<1>h. \A c, d \in Callbacks : HandleMessage(c) /\ HandleMessage(d) => c = d
  <2> SUFFICES ASSUME NEW c \in Callbacks, NEW d \in Callbacks, HandleMessage(c), HandleMessage(d), c # d
               PROVE  FALSE
    OBVIOUS
  <2>1. /\ cb' = [cb EXCEPT ![c] = [pc |-> "check", msg |-> arrived + 1, pos |-> 0]]
        /\ cb' = [cb EXCEPT ![d] = [pc |-> "check", msg |-> arrived + 1, pos |-> 0]]
        /\ cb[c].pc = "idle"
    BY DEF HandleMessage
  <2>2. cb'[c].pc = "check" /\ cb'[c] = cb[c]
    BY <2>1 DEF TypeOK
  <2> QED
    BY <2>1, <2>2
<1>p. \A i \in Slots : Live(i)' =>
        /\ message'[i] = message[i]
        /\ Live(i) \/ \E c \in Callbacks : /\ PublishSlot(c) /\ CbSlot(c) = i /\ cb[c].pc = "publish"
                                           /\ message[i] = cb[c].msg
  BY LiveIsPublished
<1>q. \A c \in Callbacks : PublishSlot(c) => cb'[c].pc = "notify" /\ UNCHANGED arrived
  BY DEF PublishSlot, CbGoto, TypeOK, esVars
<1>u. \A c, d \in Callbacks : PublishSlot(c) /\ cb[d].pc = "publish" /\ PublishSlot(d) => c = d
  <2> SUFFICES ASSUME NEW c \in Callbacks, NEW d \in Callbacks, PublishSlot(c), PublishSlot(d), c # d
               PROVE  FALSE
    OBVIOUS
  <2>1. /\ cb' = [cb EXCEPT ![c].pc = "notify"] /\ cb' = [cb EXCEPT ![d].pc = "notify"]
        /\ cb[c].pc = "publish"
    BY DEF PublishSlot, CbGoto
  <2>2. cb'[c].pc = "notify"
    BY <2>1, CallbackUpdate
  <2>3. cb'[c] = cb[c]
    BY <2>1, CallbackUpdate
  <2> QED
    BY <2>1, <2>2, <2>3
<1>1. \A c \in Callbacks : cb'[c].pc # "idle" => cb'[c].msg \in 1 .. arrived'
  BY <1>t, <1>k DEF MessageInv
<1>2. \A c, d \in Callbacks : cb'[c].pc # "idle" /\ cb'[d].pc # "idle" /\ c # d => cb'[c].msg # cb'[d].msg
  BY <1>t, <1>k, <1>h DEF MessageInv
<1>3. \A i \in Slots : Live(i)' => message'[i] \in 1 .. arrived'
  BY <1>t, <1>p DEF MessageInv
<1>4. \A i, j \in Slots : Live(i)' /\ Live(j)' /\ i # j => message'[i] # message'[j]
  BY <1>p, <1>u DEF MessageInv, FreshPcs
<1>5. ASSUME NEW c \in Callbacks, NEW i \in Slots, cb'[c].pc \in FreshPcs, Live(i)'
      PROVE  message'[i] # cb'[c].msg
  <2>1. cb'[c].pc # "idle"
    BY <1>5 DEF FreshPcs
  <2>2. CASE HandleMessage(c) /\ cb'[c].msg = arrived' /\ arrived' = arrived + 1
    <3>1. Live(i) /\ message'[i] = message[i]
      BY <1>5, <1>p, <1>q, <2>2, <1>t
    <3> QED
      BY <3>1, <2>2, <1>t DEF MessageInv
  <2>3. CASE cb[c].pc # "idle" /\ cb'[c].msg = cb[c].msg /\ cb[c].pc \in FreshPcs
    <3>1. CASE Live(i) /\ message'[i] = message[i]
      BY <3>1, <2>3, <1>5 DEF MessageInv
    <3>2. ASSUME NEW d \in Callbacks, PublishSlot(d), message'[i] = cb[d].msg, cb[d].pc = "publish"
          PROVE  message'[i] # cb'[c].msg
      <4>1. c # d
        BY <3>2, <1>q, <1>5 DEF FreshPcs
      <4> QED
        BY <4>1, <3>2, <2>3 DEF MessageInv
    <3> QED
      BY <3>1, <3>2, <1>5, <1>p
  <2> QED
    BY <1>5, <1>k, <2>1, <2>2, <2>3
<1> QED
  BY <1>1, <1>2, <1>3, <1>4, <1>5 DEF MessageInv

-----------------------------------------------------------------------------
(***************************************************************************)
(* Pending answers.                                                        *)
(***************************************************************************)

\* An answer becomes pending only when a callback fills the slot.
LEMMA NewPending ==
  ASSUME TypeOK, Next, NEW i \in Slots, answer_state'[i] = "pending"
  PROVE  \/ answer_state[i] = "pending" /\ ~\E c \in Callbacks : FillSlot(c) /\ CbSlot(c) = i
         \/ \E c \in Callbacks : /\ FillSlot(c) /\ CbSlot(c) = i /\ cb[c].pc = "fill"
                                 /\ cb[c].msg \in Auth /\ message'[i] = cb[c].msg
<1>t. /\ answer_state \in [Slots -> {"pending", "answered", "not_auth"}] /\ message \in [Slots -> {0} \cup Messages]
      /\ rb.slot \in Slots /\ wd.slot \in Slots /\ SlotOf(dequeue_position) \in Slots
      /\ \A c \in Callbacks : CbSlot(c) \in Slots
  BY SlotIndices DEF TypeOK
<1>1. ASSUME NEW c \in Callbacks, FillSlot(c), CbSlot(c) = i
      PROVE  cb[c].pc = "fill" /\ cb[c].msg \in Auth /\ message'[i] = cb[c].msg
  BY <1>1, <1>t DEF FillSlot
<1>2. ASSUME NEW c \in Callbacks, FillSlot(c), CbSlot(c) # i
      PROVE  answer_state[i] = "pending"
  BY <1>2, <1>t DEF FillSlot
<1>3. ASSUME NEW s \in Slots, ClaimAnswer(s)
      PROVE  answer_state[i] = "pending"
  BY <1>3, <1>t DEF ClaimAnswer
<1>4. ASSUME ClaimDue \/ CloseAnswer \/ CloseDrainOne
      PROVE  answer_state[i] = "pending"
  <2>1. UNCHANGED answer_state \/ \E s \in Slots : ClaimAnswer(s)
    BY <1>4, <1>t DEF ClaimDue, CloseAnswer, CloseDrainOne, AnswerSlot
  <2> QED
    BY <2>1, <1>3
<1>5. ASSUME NEW c \in Callbacks, AnswerUnarmed(c)
      PROVE  answer_state[i] = "pending"
  BY <1>3, <1>5, <1>t DEF AnswerUnarmed
<1>6. ASSUME NEW s \in Slots, Respond(s) \/ ReleaseMessage(s)
      PROVE  answer_state[i] = "pending"
  BY <1>3, <1>6 DEF Respond, ReleaseMessage
<1>7. CASE \E c \in Callbacks : FillSlot(c) /\ CbSlot(c) = i
  BY <1>7, <1>1
<1>8. CASE ~\E c \in Callbacks : FillSlot(c) /\ CbSlot(c) = i
  <2>1. answer_state[i] = "pending"
    BY <1>2, <1>4, <1>5, <1>6, <1>8, AnswerFrame
  <2> QED
    BY <2>1, <1>8
<1> QED
  BY <1>7, <1>8

\* A callback at "occupy" stays there until it has marked its slot.
LEMMA OccupyStays ==
  ASSUME TypeOK, Next, NEW c \in Callbacks, cb[c].pc = "occupy", ~Occupy(c)
  PROVE  cb'[c] = cb[c]
<1>1. ~HandleMessage(c) /\ ~Callback(c)
  BY DEF HandleMessage, Callback, CheckClosed, RejectClosed, Enqueue, EnqueueFull, AnswerFull,
     FillSlot, Arm, AnswerUnarmed, SendUnarmed, PublishSlot, NotifyQueued, LeaveHandler
<1> QED
  BY <1>1, CallbackSteps

\* Once the watchdog has stopped nobody fills a slot.
LEMMA NobodyFills ==
  ASSUME StopInv, watchdog_stopped, NEW c \in Callbacks
  PROVE  cb[c].pc \in {"idle", "check", "reject", "leave"} /\ ~FillSlot(c)
BY DEF StopInv, FillSlot

\* Where an answer may be pending.
LEMMA PendingStep ==
  ASSUME TypeOK, TicketInv, GuardInv, StopInv, PendingInv, Next
  PROVE  PendingInv'
<1>t. /\ answer_state \in [Slots -> {"pending", "answered", "not_auth"}]
      /\ occupied \in [Slots -> BOOLEAN] /\ closed \in BOOLEAN
      /\ buffered \in Seq([cell : {"occupied", "notified"}, slot : Slots])
      /\ wd \in [pc : WatchdogPcs, slot : Slots, position : Positions \cup {NoPosition}]
      /\ cb \in [Callbacks -> [pc : CallbackPcs, msg : {0} \cup Messages, pos : Nat]]
      /\ rb \in [pc : RubyPcs, slot : Slots] /\ rb.slot \in Slots
  BY DEF TypeOK, Positions
<1>s. closed => closed'
  BY LifeFrame DEF Close
<1>n. \A i \in Slots : answer_state'[i] = "pending" =>
        \/ answer_state[i] = "pending" /\ ~\E c \in Callbacks : FillSlot(c) /\ CbSlot(c) = i
        \/ \E c \in Callbacks : FillSlot(c) /\ CbSlot(c) = i /\ cb[c].pc = "fill"
  BY NewPending
<1>o. \A c \in Callbacks : FillSlot(c) => Owns(c)
  BY DEF FillSlot, Owns, FillingPcs
<1>w. closed /\ rb.pc \notin {"close_callbacks", "close_watchdog"} => watchdog_stopped
  BY DEF StopInv
<1>1. ASSUME NEW i \in Slots, answer_state'[i] = "pending"
      PROVE  occupied'[i] \/ \E c \in Callbacks : cb'[c].pc = "occupy" /\ CbSlot(c)' = i
  <2>1. ASSUME NEW c \in Callbacks, FillSlot(c), CbSlot(c) = i
        PROVE  cb'[c].pc = "occupy" /\ CbSlot(c)' = i
    <3>1. cb' = [cb EXCEPT ![c].pc = "occupy"]
      BY <2>1 DEF FillSlot, CbGoto
    <3> QED
      BY <2>1, <3>1, CallbackUpdate DEF CbSlot
  <2>2. ASSUME NEW c \in Callbacks, cb[c].pc = "occupy", CbSlot(c) = i
        PROVE  occupied'[i] \/ (cb'[c].pc = "occupy" /\ CbSlot(c)' = i)
    <3>1. CASE Occupy(c)
      BY <3>1, <2>2, <1>t DEF Occupy
    <3>2. CASE ~Occupy(c)
      BY <3>2, <2>2, OccupyStays DEF CbSlot
    <3> QED
      BY <3>1, <3>2
  <2>3. ASSUME occupied[i], answer_state[i] = "pending"
        PROVE  occupied'[i]
    <3>1. CASE Flush
      <4>1. /\ buffered # <<>>
            /\ \/ UNCHANGED occupied
               \/ /\ Head(buffered).cell = "occupied"
                  /\ occupied' = [occupied EXCEPT ![Head(buffered).slot] = FALSE]
        BY <3>1 DEF Flush
      <4>2. Len(buffered) \in Nat /\ Len(buffered) >= 1 /\ Head(buffered) = buffered[1]
        BY <4>1, <1>t
      <4>3. Head(buffered).cell = "occupied" => Head(buffered).slot # i
        BY <4>2, <2>3 DEF GuardInv, RubyInv, PendingInv, ReleasingPcs
      <4> QED
        BY <4>1, <4>3, <2>3, <1>t
    <3>2. ~CloseDrainOne
      <4>1. CloseDrainOne => closed /\ rb.pc \notin BeforeAnswered
        BY DEF CloseDrainOne, StopInv, ClosePcs, BeforeAnswered
      <4> QED
        BY <4>1, <2>3 DEF PendingInv
    <3>3. ASSUME NEW c \in Callbacks, Occupy(c) PROVE occupied'[i]
      BY <3>3, <2>3, <1>t DEF Occupy
    <3> QED
      BY <2>3, <3>1, <3>2, <3>3, OccupiedFrame
  <2> QED
    BY <1>1, <1>n, <2>1, <2>2, <2>3 DEF PendingInv
<1>2. rb'.pc \in ReleasingPcs => answer_state'[rb'.slot] # "pending"
  <2>1. ASSUME rb.pc \in ReleasingPcs, rb'.slot = rb.slot
        PROVE  answer_state'[rb'.slot] # "pending"
    BY <2>1, <1>n, <1>o, <1>t, ReleasedNotOwned DEF GuardInv, PendingInv
  <2>2. CASE UNCHANGED rb
    BY <2>1, <2>2
  <2>3. ASSUME NEW i \in Slots, Respond(i) \/ ReleaseMessage(i)
        PROVE  answer_state'[rb'.slot] # "pending"
    <3>1. rb'.slot = i /\ rb.pc = "idle"
      BY <2>3 DEF Respond, ReleaseMessage, RbStart
    <3>2. \/ answer_state' = [answer_state EXCEPT ![i] = "answered"]
          \/ UNCHANGED answer_state /\ (closed \/ answer_state[i] # "pending")
      BY <2>3 DEF Respond, ReleaseMessage, ClaimAnswer
    <3>3. closed => answer_state[i] # "pending"
      BY <3>1 DEF PendingInv, BeforeAnswered
    <3> QED
      BY <3>1, <3>2, <3>3, <1>t
  <2>4. CASE SendDefault \/ Disarm \/ DisarmWait \/ FreeMessage
    <3>1. rb.pc \in ReleasingPcs /\ rb'.slot = rb.slot
      BY <2>4, <1>t DEF SendDefault, Disarm, DisarmWait, FreeMessage, RbGoto, ReleasingPcs
    <3> QED
      BY <2>1, <3>1
  <2>5. CASE \/ StartDrain \/ EndDrain \/ CheckDepth \/ NotifyLeft \/ DrainOne \/ SendResponse
             \/ RecycleSlot \/ Close \/ CloseCallbacks \/ CloseWatchdog \/ CloseAnswer \/ CloseDrainOne
             \/ CloseDrained \/ CloseJoin
    <3>1. rb'.pc \notin ReleasingPcs
      BY <2>5, <1>t DEF StartDrain, EndDrain, CheckDepth, NotifyLeft, DrainOne, SendResponse, RecycleSlot, Close,
         CloseCallbacks, CloseWatchdog, CloseAnswer, CloseDrainOne, CloseDrained, CloseJoin, RbStart, RbGoto,
         IdleRuby, rubyVars, ReleasingPcs
    <3> QED
      BY <3>1
  <2> QED
    BY <2>2, <2>3, <2>4, <2>5, RubyFrame DEF RubyStarts, RubyContinues
\* What client_answer_occupied leaves behind.
<1>a. ASSUME CloseAnswer PROVE answer_state'[rb.slot] # "pending"
  <2>1. rb.pc = "close_answer" /\ watchdog_stopped
    BY <1>a DEF CloseAnswer, StopInv, ClosePcs
  <2>2. answer_state[rb.slot] = "pending" => occupied[rb.slot]
    BY <2>1, <1>t, NobodyFills DEF PendingInv
  <2> QED
    BY <1>a, <2>2, <1>t DEF CloseAnswer, AnswerSlot, ClaimAnswer
\* The Ruby thread on the way through client_close_native.
<1>r. /\ rb'.pc \in BeforeAnswered => Close \/ rb.pc \in BeforeAnswered
      /\ rb'.pc = "close_answer" => \/ rb'.slot = 0
                                    \/ rb.pc = "close_answer" /\ rb'.slot = rb.slot
                                    \/ CloseAnswer /\ rb.pc = "close_answer" /\ rb'.slot = rb.slot + 1
      /\ rb.pc \in BeforeAnswered /\ rb'.pc \notin BeforeAnswered =>
           CloseAnswer /\ rb.pc = "close_answer" /\ rb.slot + 1 \notin Slots
  <2>1. CASE UNCHANGED rb
    BY <2>1
  <2>2. CASE CloseAnswer
    BY <2>2, <1>t DEF CloseAnswer, BeforeAnswered
  <2>3. CASE CloseCallbacks \/ CloseWatchdog \/ Close
    BY <2>3, <1>t DEF CloseCallbacks, CloseWatchdog, Close, RbGoto, RbStart, BeforeAnswered
  <2>4. CASE \/ StartDrain \/ EndDrain \/ CheckDepth \/ NotifyLeft \/ DrainOne \/ SendResponse
             \/ RecycleSlot \/ CloseDrainOne \/ CloseDrained \/ CloseJoin
             \/ SendDefault \/ Disarm \/ DisarmWait \/ FreeMessage
             \/ \E i \in Slots : Respond(i) \/ ReleaseMessage(i)
    <3>1. rb.pc \notin BeforeAnswered /\ rb'.pc \notin BeforeAnswered
      BY <2>4, <1>t DEF StartDrain, EndDrain, CheckDepth, NotifyLeft, DrainOne, SendResponse, RecycleSlot,
         CloseDrainOne, CloseDrained, CloseJoin, SendDefault, Disarm, DisarmWait, FreeMessage, Respond,
         ReleaseMessage, RbStart, RbGoto, IdleRuby, rubyVars, BeforeAnswered
    <3> QED
      BY <3>1 DEF BeforeAnswered
  <2> QED
    BY <2>1, <2>2, <2>3, <2>4, RubyFrame DEF RubyStarts, RubyContinues
\* Nothing becomes pending behind its back.
<1>b. ASSUME watchdog_stopped, NEW i \in Slots, answer_state[i] # "pending"
      PROVE  answer_state'[i] # "pending"
  BY <1>b, <1>n, NobodyFills
<1>3. ASSUME closed', rb'.pc \notin BeforeAnswered, NEW i \in Slots
      PROVE  answer_state'[i] # "pending"
  <2>1. ~Close
    BY <1>3 DEF Close, RbStart, BeforeAnswered
  <2>2. closed
    BY <1>3, <2>1, LifeFrame
  <2>3. CASE rb.pc \notin BeforeAnswered
    <3>1. watchdog_stopped /\ answer_state[i] # "pending"
      BY <2>2, <2>3, <1>w DEF PendingInv, BeforeAnswered
    <3> QED
      BY <3>1, <1>b
  <2>4. CASE rb.pc \in BeforeAnswered
    <3>1. CloseAnswer /\ rb.pc = "close_answer" /\ rb.slot + 1 \notin Slots
      BY <1>3, <1>r, <2>4
    <3>2. i < rb.slot \/ i = rb.slot
      BY <3>1, <1>t, CapacityAssumption DEF Slots
    <3>3. watchdog_stopped
      BY <2>2, <3>1, <1>w
    <3>4. i < rb.slot => answer_state[i] # "pending"
      BY <3>1 DEF PendingInv
    <3> QED
      BY <3>1, <3>2, <3>3, <3>4, <1>a, <1>b
  <2> QED
    BY <2>3, <2>4
<1>4. ASSUME rb'.pc = "close_answer", NEW i \in Slots, i < rb'.slot
      PROVE  answer_state'[i] # "pending"
  <2>1. i \in Nat /\ rb.slot \in Nat
    BY <1>t, CapacityAssumption DEF Slots
  <2>2. rb.pc = "close_answer" /\ (i < rb.slot \/ (CloseAnswer /\ i = rb.slot))
    BY <1>4, <1>r, <2>1
  <2>3. watchdog_stopped
    BY <2>2 DEF StopInv, ClosePcs
  <2>4. i < rb.slot => answer_state[i] # "pending"
    BY <2>2 DEF PendingInv
  <2> QED
    BY <2>2, <2>3, <2>4, <1>a, <1>b
<1>5. delete_ready' => closed' /\ rb'.pc \notin BeforeAnswered
  <2>1. CASE CloseDrained
    BY <2>1, <1>s, <1>t DEF CloseDrained, RbGoto, StopInv, ClosePcs, BeforeAnswered
  <2>2. CASE ~CloseDrained
    <3>1. delete_ready' => closed /\ rb.pc \notin BeforeAnswered
      BY <2>2, LifeFrame DEF PendingInv
    <3>2. closed => ~Close
      BY DEF Close
    <3> QED
      BY <3>1, <3>2, <1>s, <1>r
  <2> QED
    BY <2>1, <2>2
<1>6. rb'.pc \in {"free", "recycle"} => ~(wd'.pc = "send" /\ wd'.slot = rb'.slot)
  <2>1. CASE DisarmWait
    <3>1. readers[rb.slot] = 0 /\ rb'.slot = rb.slot /\ UNCHANGED wd
      BY <2>1, <1>t DEF DisarmWait, RbGoto, watchVars
    <3> QED
      BY <3>1, <1>t DEF GuardInv, ReadersInv, ReadingPcs
  <2>2. CASE ~DisarmWait
    <3>1. rb'.pc \in {"free", "recycle"} => rb.pc \in {"free", "recycle"} /\ rb'.slot = rb.slot
      <4>1. CASE UNCHANGED rb
        BY <4>1
      <4>2. CASE RubyStarts \/ RubyContinues
        BY <4>2, <2>2, <1>t DEF RubyStarts, RubyContinues, StartDrain, DrainOne, EndDrain, CheckDepth,
           NotifyLeft, Respond, SendResponse, ReleaseMessage, SendDefault, Disarm, FreeMessage, RecycleSlot,
           Close, CloseCallbacks, CloseWatchdog, CloseAnswer, CloseDrainOne, CloseDrained, CloseJoin,
           RbGoto, RbStart, IdleRuby, rubyVars
      <4> QED
        BY <4>1, <4>2, RubyFrame
    <3>2. wd'.pc = "send" => \/ wd.pc = "send" /\ wd'.slot = wd.slot
                             \/ answer_state[wd.slot] = "pending" /\ wd'.slot = wd.slot
      BY <1>t, ReadersFrame DEF WatchSteps, WatchdogLoop, Collect, Sleep, CheckOccupied, Enlist, Recheck,
         ClaimDue, ClaimAnswer, SendDue, Resign, DeleteClient, PopDue, WdGoto, WdNext
    <3> QED
      BY <3>1, <3>2 DEF PendingInv, ReleasingPcs
  <2> QED
    BY <2>1, <2>2
<1> QED
  BY <1>1, <1>2, <1>3, <1>4, <1>5, <1>6 DEF PendingInv

-----------------------------------------------------------------------------
(***************************************************************************)
(* Tickets that are queued.                                                *)
(***************************************************************************)

\* A callback keeps its slot until it has published it.
LEMMA OwnsStays ==
  ASSUME TypeOK, Next, NEW c \in Callbacks, Owns(c), ~PublishSlot(c)
  PROVE  /\ Owns(c)' /\ cb'[c].pos = cb[c].pos /\ cb'[c].msg = cb[c].msg /\ CbSlot(c)' = CbSlot(c)
         /\ cb[c].pc \in FilledPcs => cb'[c].pc \in FilledPcs
         /\ cb[c].pc = "fill" => cb'[c] = cb[c] \/ FillSlot(c)
<1>1. CASE cb'[c] = cb[c]
  BY <1>1 DEF Owns, CbSlot
<1>2. CASE CallbackMoves(c)
  <2>1. PICK l \in CallbackPcs : cb' = [cb EXCEPT ![c].pc = l] /\ <<cb[c].pc, l>> \in CallbackEdges
    BY <1>2, CallbackFrame
  <2>2. l \in FillingPcs /\ (cb[c].pc \in FilledPcs => l \in FilledPcs) /\ cb[c].pc # "fill"
    BY <2>1 DEF CallbackEdges, FillingPcs, FilledPcs, Owns
  <2> QED
    BY <2>1, <2>2, CallbackUpdate DEF Owns, CbSlot
<1>3. CASE FillSlot(c)
  <2>1. cb' = [cb EXCEPT ![c].pc = "occupy"]
    BY <1>3 DEF FillSlot, CbGoto
  <2> QED
    BY <1>3, <2>1, CallbackUpdate DEF Owns, CbSlot, FillingPcs, FilledPcs
<1>4. ~HandleMessage(c) /\ ~LeaveHandler(c) /\ ~Enqueue(c)
  BY DEF Owns, FillingPcs, HandleMessage, LeaveHandler, Enqueue
<1> QED
  BY <1>1, <1>2, <1>3, <1>4, CallbackSteps DEF Callback, CallbackMoves

\* Publishing makes the slot live.
LEMMA PublishMakesLive ==
  ASSUME TypeOK, TicketInv, NEW c \in Callbacks, PublishSlot(c), NEW i \in Slots, i = CbSlot(c)
  PROVE  /\ Live(i)' /\ position'[i] = cb[c].pos /\ message'[i] = cb[c].msg
         /\ UNCHANGED <<position, message, rb>>
<1>1. /\ UNCHANGED <<position, message, rb>>
      /\ sequence' = [sequence EXCEPT ![i] = position[i] + 1]
      /\ cb[c].pc = "publish"
  BY DEF PublishSlot, PublishedSequence, slotVars, rubyVars
<1>2. position[i] = cb[c].pos /\ message[i] = cb[c].msg /\ SlotOf(cb[c].pos) = i
  BY <1>1 DEF TicketInv, FilledPcs, CbSlot
<1>3. sequence'[i] = position[i] + 1
  BY <1>1 DEF TypeOK
<1> QED
  BY <1>1, <1>2, <1>3 DEF Live

\* A queued ticket is being filled or is published.
LEMMA QueuedStep ==
  ASSUME TypeOK, TicketInv, QueuedInv, GuardInv, Next
  PROVE  QueuedInv'
<1> SUFFICES ASSUME NEW p \in dequeue_position' .. enqueue_position' - 1
             PROVE  \/ \E c \in Callbacks : Owns(c)' /\ cb'[c].pos = p
                    \/ Live(SlotOf(p))' /\ position'[SlotOf(p)] = p
  BY DEF QueuedInv, Live
<1>t. dequeue_position \in Nat /\ enqueue_position \in Nat
  BY SlotIndices
<1>d. dequeue_position' = dequeue_position \/ dequeue_position' = dequeue_position + 1
  BY PositionFrame DEF DrainOne, Take, CloseDrainOne
<1>e. enqueue_position' = enqueue_position \/ enqueue_position' = enqueue_position + 1
  <2>1. \A c \in Callbacks : Enqueue(c) => enqueue_position' = enqueue_position + 1
    BY DEF Enqueue, Claim
  <2> QED
    BY <2>1, PositionFrame
<1>p. p \in Nat /\ SlotOf(p) \in Slots /\ dequeue_position <= p
  <2>1. dequeue_position' \in Nat /\ enqueue_position' \in Int
    BY <1>t, <1>d, <1>e
  <2> QED
    BY <1>t, <1>d, <2>1, SlotOfType
<1>1. ASSUME NEW c \in Callbacks, Enqueue(c), p = enqueue_position
      PROVE  Owns(c)' /\ cb'[c].pos = p
  <2>1. cb'[c].pc = "fill" /\ cb'[c].pos = enqueue_position
    BY <1>1 DEF Enqueue, TypeOK
  <2> QED
    BY <1>1, <2>1 DEF Owns, FillingPcs
<1>2. CASE p \in dequeue_position .. enqueue_position - 1
  <2>1. ASSUME NEW c \in Callbacks, Owns(c), cb[c].pos = p
        PROVE  \/ Owns(c)' /\ cb'[c].pos = p
               \/ Live(SlotOf(p))' /\ position'[SlotOf(p)] = p
    <3>1. CASE PublishSlot(c)
      <4>1. SlotOf(p) = CbSlot(c)
        BY <2>1 DEF CbSlot
      <4>2. PICK i \in Slots : i = SlotOf(p)
        BY <1>p
      <4>3. Live(i)' /\ position'[i] = p
        BY <2>1, <3>1, <4>1, <4>2, PublishMakesLive
      <4> QED
        BY <4>2, <4>3 DEF Live
    <3>2. CASE ~PublishSlot(c)
      BY <2>1, <3>2, OwnsStays
    <3> QED
      BY <3>1, <3>2
  <2>2. ASSUME Live(SlotOf(p)), position[SlotOf(p)] = p
        PROVE  Live(SlotOf(p))' /\ position'[SlotOf(p)] = p
    <3>1. PICK i \in Slots : i = SlotOf(p)
      BY <1>p
    <3>2. ~(RecycleSlot /\ rb.slot = i)
      <4>1. RecycleSlot /\ rb.slot = i => wrapper[i]
        BY DEF RecycleSlot, GuardInv, RubyInv, ReleasingPcs
      <4>2. wrapper[i] => position[i] < dequeue_position
        BY DEF TicketInv
      <4> QED
        BY <4>1, <4>2, <3>1, <2>2, <1>p, <1>t
    <3>3. ~(CloseDrainOne /\ SlotOf(dequeue_position) = i)
      <4>1. SUFFICES ASSUME CloseDrainOne, SlotOf(dequeue_position) = i PROVE FALSE
        OBVIOUS
      <4>2. dequeue_position' = dequeue_position + 1 /\ Takeable
        BY <4>1 DEF CloseDrainOne
      <4>3. position[i] = dequeue_position
        BY <4>1, <4>2, TakeSlot
      <4>4. enqueue_position' \in Int
        BY <1>t, <1>e
      <4>5. p >= dequeue_position + 1
        BY <4>2, <4>4, <1>t
      <4> QED
        BY <4>3, <4>5, <2>2, <3>1, <1>t
    <3>4. Live(i) /\ ~GivesBack(i)
      BY <2>2, <3>1, <3>2, <3>3 DEF GivesBack
    <3>5. Live(i)' /\ position'[i] = p
      BY <2>2, <3>1, <3>4, SlotStays DEF InUse
    <3> QED
      BY <3>1, <3>5 DEF Live
  <2> QED
    BY <1>2, <2>1, <2>2 DEF QueuedInv
<1>3. p \in dequeue_position .. enqueue_position - 1 \/ \E c \in Callbacks : Enqueue(c) /\ p = enqueue_position
  <2>1. CASE UNCHANGED enqueue_position
    BY <2>1, <1>t, <1>p, <1>d
  <2>2. ASSUME NEW c \in Callbacks, Enqueue(c)
        PROVE  p \in dequeue_position .. enqueue_position - 1 \/ p = enqueue_position
    <3>1. enqueue_position' = enqueue_position + 1
      BY <2>2 DEF Enqueue, Claim
    <3> QED
      BY <3>1, <1>t, <1>p, <1>d
  <2> QED
    BY <2>1, <2>2, PositionFrame
<1> QED
  BY <1>1, <1>2, <1>3

-----------------------------------------------------------------------------
(***************************************************************************)
(* References.                                                             *)
(***************************************************************************)

\* A message is running from the call of its handler to the return.
LEMMA RunningStep ==
  ASSUME TypeOK, MessageInv, Next, NEW m \in Messages,
         \A c \in Callbacks : ~(HandleMessage(c) /\ m = arrived + 1),
         \A c \in Callbacks : ~(LeaveHandler(c) /\ m = cb[c].msg)
  PROVE  Running(m)' <=> Running(m)
<1>1. ASSUME NEW c \in Callbacks, cb'[c].pc # "idle", cb'[c].msg = m
      PROVE  Running(m)
  <2>1. cb[c].pc # "idle" /\ cb[c].msg = m
    BY <1>1, CallbackKeepsMessage
  <2> QED
    BY <2>1 DEF Running
<1>2. ASSUME NEW c \in Callbacks, cb[c].pc # "idle", cb[c].msg = m
      PROVE  cb'[c].pc # "idle" /\ cb'[c].msg = m
  <2>1. CASE cb'[c] = cb[c]
    BY <1>2, <2>1
  <2>2. CASE Callback(c) /\ ~LeaveHandler(c)
    <3>1. cb'[c].pc # "idle"
      BY <2>2 DEF TypeOK, Callback, CheckClosed, RejectClosed, Enqueue, EnqueueFull, AnswerFull,
         FillSlot, Occupy, Arm, AnswerUnarmed, SendUnarmed, PublishSlot, NotifyQueued, CbGoto
    <3>2. ~HandleMessage(c)
      BY <1>2 DEF HandleMessage
    <3> QED
      BY <1>2, <3>1, <3>2, CallbackKeepsMessage
  <2>3. ~HandleMessage(c) /\ ~LeaveHandler(c)
    BY <1>2 DEF HandleMessage
  <2> QED
    BY <2>1, <2>2, <2>3, CallbackSteps
<1> QED
  BY <1>1, <1>2 DEF Running

\* The Ruby thread between es_release_message and the end of
\* esrb_queue_release.
LEMMA RecycleSteps ==
  ASSUME TypeOK, Next
  PROVE  /\ rb.pc = "recycle" => UNCHANGED rb \/ RecycleSlot
         /\ rb'.pc = "recycle" => UNCHANGED rb \/ (FreeMessage /\ rb.pc = "free" /\ rb'.slot = rb.slot)
<1>t. rb \in [pc : RubyPcs, slot : Slots]
  BY DEF TypeOK
<1>1. CASE RubyStarts \/ RubyContinues
  BY <1>1, <1>t DEF RubyStarts, RubyContinues, StartDrain, DrainOne, EndDrain, CheckDepth,
     NotifyLeft, Respond, SendResponse, ReleaseMessage, SendDefault, Disarm, DisarmWait, FreeMessage, RecycleSlot,
     Close, CloseCallbacks, CloseWatchdog, CloseAnswer, CloseDrainOne, CloseDrained, CloseJoin,
     RbGoto, RbStart, IdleRuby, rubyVars
<1> QED
  BY <1>1, RubyFrame

\* A slot that was given back is not live.
LEMMA GivenBack ==
  ASSUME TypeOK, NEW i \in Slots, GivesBack(i)
  PROVE  ~Live(i)'
<1>1. /\ position \in [Slots -> Nat] /\ sequence \in [Slots -> Nat] /\ Capacity \in Nat /\ Capacity >= 2
  BY CapacityAssumption, DeliveryAssumption DEF TypeOK, Positions
<1>2. UNCHANGED position /\ sequence' = [sequence EXCEPT ![i] = position[i] + Capacity]
  BY DEF GivesBack, RecycleSlot, GiveSlotBack, CloseDrainOne, ReleasedSequence, slotVars
<1>3. sequence'[i] = position[i] + Capacity /\ position'[i] = position[i] /\ position[i] \in Nat
  BY <1>1, <1>2
<1> QED
  BY <1>1, <1>3 DEF Live

\* The steps that retain or release message m.
LEMMA HeldStep ==
  ASSUME TypeOK, TicketInv, GuardInv, MessageInv, Next, NEW m \in Messages,
         \A c \in Callbacks : cb[c].msg = m => ~Enqueue(c) /\ ~EnqueueFull(c) /\ ~AnswerFull(c),
         ~(FreeMessage /\ message[rb.slot] = m),
         ~(CloseDrainOne /\ message[SlotOf(dequeue_position)] = m)
  PROVE  Held(m)' <=> Held(m)
<1> DEFINE H == FillingPcs \cup {"full"}
<1>h. \A c \in Callbacks : /\ cb[c].pc \in H => cb[c].pc # "idle" /\ cb[c].pc \in FreshPcs
                           /\ cb'[c].pc \in H => cb'[c].pc # "idle"
  BY DEF FillingPcs, FreshPcs
<1>1. ASSUME NEW c \in Callbacks, cb'[c].pc \in H, cb'[c].msg = m
      PROVE  cb[c].pc \in H /\ cb[c].msg = m
  <2>1. cb[c].pc # "idle" /\ cb[c].msg = m
    BY <1>1, <1>h, CallbackKeepsMessage DEF FillingPcs
  <2>2. CASE cb'[c] = cb[c]
    BY <1>1, <2>2
  <2>3. CASE CallbackMoves(c) /\ ~EnqueueFull(c)
    <3>1. PICK l \in CallbackPcs : cb' = [cb EXCEPT ![c].pc = l] /\ <<cb[c].pc, l>> \in CallbackEdges
      BY <2>3, CallbackFrame
    <3>2. cb'[c].pc = l
      BY <3>1, CallbackUpdate
    <3>3. cb[c].pc # "enqueue"
      BY <2>3 DEF CallbackMoves, CheckClosed, RejectClosed, AnswerFull, Occupy, Arm, AnswerUnarmed,
         SendUnarmed, NotifyQueued
    <3> QED
      BY <1>1, <2>1, <3>1, <3>2, <3>3 DEF CallbackEdges, FillingPcs
  <2>4. CASE FillSlot(c) \/ PublishSlot(c)
    BY <2>1, <2>4 DEF FillSlot, PublishSlot, FillingPcs
  <2>5. ~HandleMessage(c) /\ ~LeaveHandler(c)
    <3>1. LeaveHandler(c) => cb'[c].pc = "idle"
      BY DEF LeaveHandler, IdleCallback, TypeOK
    <3> QED
      BY <1>1, <1>h, <2>1, <3>1 DEF HandleMessage
  <2> QED
    BY <2>1, <2>2, <2>3, <2>4, <2>5, CallbackSteps DEF Callback, CallbackMoves
<1>2. ASSUME NEW i \in Slots, Kept(i)', message'[i] = m
      PROVE  Held(m)
  <2>1. CASE Live(i)
    <3>1. message[i] = m
      BY <1>2, LiveIsPublished DEF Kept
    <3>2. ~GivesBack(i)
      BY <1>2, GivenBack DEF Kept
    <3>3. ~(rb.pc = "recycle" /\ rb.slot = i)
      BY <1>2, <3>2, RecycleSteps DEF Kept, GivesBack
    <3> QED
      BY <2>1, <3>1, <3>3 DEF Held, Kept
  <2>2. ASSUME NEW c \in Callbacks, PublishSlot(c), message[i] = cb[c].msg, message'[i] = message[i]
        PROVE  Held(m)
    BY <1>2, <2>2 DEF Held, PublishSlot, FillingPcs
  <2> QED
    BY <1>2, <2>1, <2>2, LiveIsPublished DEF Kept
<1>3. ASSUME NEW c \in Callbacks, cb[c].pc \in H, cb[c].msg = m
      PROVE  Held(m)'
  <2>1. CASE PublishSlot(c)
    <3>1. PICK i \in Slots : i = CbSlot(c)
      BY SlotIndices
    <3>2. Live(i)' /\ message'[i] = m /\ UNCHANGED rb
      BY <1>3, <2>1, <3>1, PublishMakesLive
    <3>3. Owns(c)
      BY <2>1 DEF PublishSlot, Owns, FillingPcs
    <3>4. ~(rb'.pc = "recycle" /\ rb'.slot = i)
      BY <3>1, <3>2, <3>3, ReleasedNotOwned DEF GuardInv, ReleasingPcs
    <3> QED
      BY <3>2, <3>4 DEF Held, Kept
  <2>2. CASE Owns(c) /\ ~PublishSlot(c)
    <3>1. Owns(c)' /\ cb'[c].msg = m
      BY <1>3, <2>2, OwnsStays
    <3> QED
      BY <3>1 DEF Held, Owns
  <2>3. CASE cb[c].pc = "full"
    <3>1. ~HandleMessage(c) /\ ~Callback(c)
      BY <1>3, <2>3 DEF HandleMessage, Callback, CheckClosed, RejectClosed, Enqueue, EnqueueFull,
         FillSlot, Occupy, Arm, AnswerUnarmed, SendUnarmed, PublishSlot, NotifyQueued, LeaveHandler
    <3>2. cb'[c] = cb[c]
      BY <3>1, CallbackSteps
    <3> QED
      BY <1>3, <3>2 DEF Held
  <2> QED
    BY <1>3, <2>1, <2>2, <2>3 DEF Owns
<1>4. ASSUME NEW i \in Slots, Kept(i), message[i] = m
      PROVE  Held(m)'
  <2>1. ~GivesBack(i)
    BY <1>4 DEF GivesBack, Kept, RecycleSlot
  <2>2. Live(i)' /\ message'[i] = m
    BY <1>4, <2>1, SlotStays DEF Kept, InUse
  <2>3. ~(rb'.pc = "recycle" /\ rb'.slot = i)
    BY <1>4, RecycleSteps DEF Kept
  <2> QED
    BY <2>2, <2>3 DEF Held, Kept
<1>5. Held(m)' => Held(m)
  <2>1. Held(m)' <=> \/ \E c \in Callbacks : cb'[c].pc \in H /\ cb'[c].msg = m
                     \/ \E i \in Slots : Kept(i)' /\ message'[i] = m
    BY DEF Held
  <2> QED
    BY <1>1, <1>2, <2>1 DEF Held
<1>6. Held(m) => Held(m)'
  BY <1>3, <1>4 DEF Held
<1> QED
  BY <1>5, <1>6

\* Nobody else has the message of a callback that has not published it, or
\* of a live slot.
LEMMA HeldAlone ==
  ASSUME TypeOK, TicketInv, GuardInv, MessageInv
  PROVE  /\ \A c \in Callbacks : cb[c].pc \in {"enqueue", "full"} =>
              ~\E d \in Callbacks : d # c /\ cb[d].pc # "idle" /\ cb[d].msg = cb[c].msg
         /\ \A c \in Callbacks : cb[c].pc \in FreshPcs => ~\E i \in Slots : Live(i) /\ message[i] = cb[c].msg
         /\ \A i \in Slots : Live(i) =>
              /\ ~\E j \in Slots : j # i /\ Live(j) /\ message[j] = message[i]
              /\ ~\E c \in Callbacks : cb[c].pc \in FillingPcs \cup {"full"} /\ cb[c].msg = message[i]
<1>1. \A c \in Callbacks : /\ cb[c].pc \in FillingPcs \cup {"full"} => cb[c].pc \in FreshPcs
                           /\ cb[c].pc \in {"enqueue", "full"} => cb[c].pc # "idle"
  BY DEF FillingPcs, FreshPcs
<1> QED
  BY <1>1 DEF MessageInv

\* A message has Endpoint Security's reference while its handler runs, and one more
\* while its slot holds it.
LEMMA RefsStep ==
  ASSUME TypeOK, TicketInv, GuardInv, MessageInv, RefsInv, Next
  PROVE  RefsInv'
<1>t. /\ refs \in [Messages -> Nat] /\ message \in [Slots -> {0} \cup Messages] /\ arrived \in Nat
      /\ cb \in [Callbacks -> [pc : CallbackPcs, msg : {0} \cup Messages, pos : Nat]]
      /\ rb \in [pc : RubyPcs, slot : Slots] /\ sequence \in [Slots -> Nat]
  BY NatTypes DEF TypeOK
<1> SUFFICES ASSUME NEW m \in Messages
             PROVE  refs'[m] = (IF Running(m)' THEN 1 ELSE 0) + (IF Held(m)' THEN 1 ELSE 0)
  BY DEF RefsInv, Running, Held, Kept, Live
<1>r. refs[m] = (IF Running(m) THEN 1 ELSE 0) + (IF Held(m) THEN 1 ELSE 0)
  BY DEF RefsInv
<1>1. ASSUME NEW c \in Callbacks, HandleMessage(c) PROVE refs'[m] = (IF Running(m)' THEN 1 ELSE 0) + (IF Held(m)' THEN 1 ELSE 0)
  <2>1. /\ cb[c].pc = "idle" /\ refs' = [refs EXCEPT ![arrived + 1] = @ + 1]
        /\ cb'[c].pc = "check" /\ cb'[c].msg = arrived + 1
    BY <1>1, <1>t DEF HandleMessage, Retain
  <2>2. /\ \A d \in Callbacks : ~Enqueue(d) /\ ~EnqueueFull(d) /\ ~AnswerFull(d) /\ ~LeaveHandler(d)
        /\ ~FreeMessage /\ ~CloseDrainOne
    <3>1. arrived' = arrived + 1 /\ arrived' # arrived
      BY <1>1, <1>t DEF HandleMessage
    <3> QED
      BY <3>1 DEF Enqueue, EnqueueFull, AnswerFull, LeaveHandler, FreeMessage, CloseDrainOne
  <2>3. Held(m)' <=> Held(m)
    BY <2>2, HeldStep
  <2>4. CASE m # arrived + 1
    <3>1. Running(m)' <=> Running(m)
      BY <2>2, <2>4, RunningStep
    <3> QED
      BY <1>r, <2>1, <2>3, <2>4, <3>1, <1>t
  <2>5. CASE m = arrived + 1
    <3>1. ~Running(m) /\ Running(m)'
      BY <2>1, <2>5, <1>t DEF Running, MessageInv
    <3>2. ~Held(m)
      <4>1. \A d \in Callbacks : cb[d].pc \in FillingPcs \cup {"full"} => cb[d].pc # "idle"
        BY DEF FillingPcs
      <4> QED
        BY <2>5, <4>1, <1>t DEF Held, Kept, MessageInv
    <3> QED
      BY <1>r, <2>1, <2>3, <2>5, <3>1, <3>2, <1>t
  <2> QED
    BY <2>4, <2>5
<1>2. ASSUME NEW c \in Callbacks, LeaveHandler(c) PROVE refs'[m] = (IF Running(m)' THEN 1 ELSE 0) + (IF Held(m)' THEN 1 ELSE 0)
  <2>1. /\ cb[c].pc = "leave" /\ refs' = [refs EXCEPT ![cb[c].msg] = @ - 1]
        /\ cb'[c].pc = "idle" /\ \A d \in Callbacks : d # c => cb'[d] = cb[d]
        /\ cb[c].msg \in Messages
    BY <1>2, <1>t DEF LeaveHandler, Release, IdleCallback, MessageInv
  <2>2. /\ \A d \in Callbacks : ~Enqueue(d) /\ ~EnqueueFull(d) /\ ~AnswerFull(d) /\ ~HandleMessage(d)
        /\ ~FreeMessage /\ ~CloseDrainOne
    <3>1. cb'[c] # cb[c] /\ cb[c].pc = "leave"
      BY <2>1
    <3>2. ~FreeMessage /\ ~CloseDrainOne
      BY <3>1 DEF FreeMessage, CloseDrainOne
    <3>3. ASSUME NEW d \in Callbacks, Enqueue(d) \/ EnqueueFull(d) \/ AnswerFull(d) \/ HandleMessage(d)
          PROVE  FALSE
      <4>1. cb[d].pc \in {"enqueue", "full", "idle"}
        BY <3>3 DEF Enqueue, EnqueueFull, AnswerFull, HandleMessage
      <4>2. d # c
        BY <3>1, <4>1
      <4>3. cb'[c] = cb[c]
        BY <3>3, <4>2, <1>t DEF Enqueue, EnqueueFull, AnswerFull, HandleMessage, CbGoto
      <4> QED
        BY <3>1, <4>3
    <3> QED
      BY <3>2, <3>3
  <2>3. Held(m)' <=> Held(m)
    BY <2>2, HeldStep
  <2>4. CASE m # cb[c].msg
    <3>1. \A d \in Callbacks : LeaveHandler(d) => d = c
      <4>1. \A d \in Callbacks : LeaveHandler(d) => cb[d].pc = "leave" /\ cb'[d].pc = "idle"
        BY <1>t DEF LeaveHandler, IdleCallback
      <4> QED
        BY <2>1, <4>1
    <3>2. Running(m)' <=> Running(m)
      BY <2>2, <2>4, <3>1, RunningStep
    <3> QED
      BY <1>r, <2>1, <2>3, <2>4, <3>2, <1>t
  <2>5. CASE m = cb[c].msg
    <3>1. Running(m) /\ ~Running(m)'
      BY <2>1, <2>5 DEF Running, MessageInv
    <3> QED
      BY <1>r, <2>1, <2>3, <2>5, <3>1, <1>t
  <2> QED
    BY <2>4, <2>5
\* Steps of the other threads.
<1>m. ASSUME UNCHANGED cb, NEW c \in Callbacks
      PROVE  ~Enqueue(c) /\ ~EnqueueFull(c) /\ ~AnswerFull(c) /\ ~HandleMessage(c) /\ ~LeaveHandler(c)
  BY <1>m, <1>t DEF Enqueue, EnqueueFull, AnswerFull, HandleMessage, LeaveHandler, IdleCallback, CbGoto
\* The other steps neither begin nor end a handler.
<1>3. ASSUME \A c \in Callbacks : ~HandleMessage(c) /\ ~LeaveHandler(c)
      PROVE  Running(m)' <=> Running(m)
  BY <1>3, RunningStep
<1>4. ASSUME NEW c \in Callbacks, Enqueue(c) \/ EnqueueFull(c) \/ AnswerFull(c)
      PROVE  /\ \A d \in Callbacks : ~HandleMessage(d) /\ ~LeaveHandler(d)
             /\ ~FreeMessage /\ ~CloseDrainOne
             /\ \A d \in Callbacks : d # c => ~Enqueue(d) /\ ~EnqueueFull(d) /\ ~AnswerFull(d)
  <2>1. cb'[c].pc # cb[c].pc /\ cb[c].pc \in {"enqueue", "full"} /\ cb'[c].pc \in {"fill", "full", "leave"}
    BY <1>4, <1>t DEF Enqueue, EnqueueFull, AnswerFull, CbGoto
  <2>2. ~FreeMessage /\ ~CloseDrainOne
    BY <2>1 DEF FreeMessage, CloseDrainOne
  <2>3. ASSUME NEW d \in Callbacks, d # c,
               HandleMessage(d) \/ LeaveHandler(d) \/ Enqueue(d) \/ EnqueueFull(d) \/ AnswerFull(d)
        PROVE  FALSE
    <3>1. cb'[c] = cb[c]
      BY <2>3, <1>t DEF HandleMessage, LeaveHandler, Enqueue, EnqueueFull, AnswerFull, CbGoto
    <3> QED
      BY <2>1, <3>1
  <2>4. ~HandleMessage(c) /\ ~LeaveHandler(c)
    BY <2>1 DEF HandleMessage, LeaveHandler
  <2> QED
    BY <2>2, <2>3, <2>4
<1>5. ASSUME NEW c \in Callbacks, Enqueue(c) \/ EnqueueFull(c)
      PROVE  refs'[m] = (IF Running(m)' THEN 1 ELSE 0) + (IF Held(m)' THEN 1 ELSE 0)
  <2>1. /\ cb[c].pc = "enqueue" /\ refs' = [refs EXCEPT ![cb[c].msg] = @ + 1]
        /\ cb'[c].pc \in FillingPcs \cup {"full"} /\ cb'[c].msg = cb[c].msg
        /\ cb[c].msg \in Messages
    BY <1>5, <1>t DEF Enqueue, EnqueueFull, Retain, CbGoto, FillingPcs, MessageInv
  <2>2. Running(m)' <=> Running(m)
    BY <1>3, <1>4, <1>5
  <2>3. CASE m # cb[c].msg
    <3>1. Held(m)' <=> Held(m)
      BY <1>4, <1>5, <2>3, HeldStep
    <3> QED
      BY <1>r, <2>1, <2>2, <2>3, <3>1, <1>t
  <2>4. CASE m = cb[c].msg
    <3>1. Held(m)'
      BY <2>1, <2>4 DEF Held
    <3>2. ~Held(m)
      <4>1. cb[c].pc \in FreshPcs /\ cb[c].pc \notin FillingPcs \cup {"full"}
        BY <2>1 DEF FreshPcs, FillingPcs
      <4>2. \A d \in Callbacks : cb[d].pc \in FillingPcs \cup {"full"} => cb[d].pc # "idle"
        BY DEF FillingPcs
      <4> QED
        BY <2>1, <2>4, <4>1, <4>2, HeldAlone DEF Held, Kept
    <3> QED
      BY <1>r, <2>1, <2>2, <2>4, <3>1, <3>2, <1>t
  <2> QED
    BY <2>3, <2>4
<1>6. ASSUME NEW c \in Callbacks, AnswerFull(c)
      PROVE  refs'[m] = (IF Running(m)' THEN 1 ELSE 0) + (IF Held(m)' THEN 1 ELSE 0)
  <2>1. /\ cb[c].pc = "full" /\ refs' = [refs EXCEPT ![cb[c].msg] = @ - 1]
        /\ cb'[c].pc = "leave" /\ cb'[c].msg = cb[c].msg
        /\ cb[c].msg \in Messages /\ \A d \in Callbacks : d # c => cb'[d] = cb[d]
        /\ UNCHANGED <<sequence, position, message>>
    BY <1>6, <1>t DEF AnswerFull, Release, CbGoto, MessageInv, ringVars, slotVars
  <2>2. Running(m)' <=> Running(m)
    BY <1>3, <1>4, <1>6
  <2>3. CASE m # cb[c].msg
    <3>1. Held(m)' <=> Held(m)
      BY <1>4, <1>6, <2>3, HeldStep
    <3> QED
      BY <1>r, <2>1, <2>2, <2>3, <3>1, <1>t
  <2>4. CASE m = cb[c].msg
    <3>1. Held(m)
      BY <2>1, <2>4 DEF Held
    <3>2. ~Held(m)'
      <4>1. cb[c].pc \in FreshPcs /\ cb'[c].pc \notin FillingPcs \cup {"full"}
        BY <2>1 DEF FreshPcs, FillingPcs
      <4>2. \A d \in Callbacks : cb[d].pc \in FillingPcs \cup {"full"} => cb[d].pc # "idle"
        BY DEF FillingPcs
      <4>3. ~\E d \in Callbacks : cb'[d].pc \in FillingPcs \cup {"full"} /\ cb'[d].msg = m
        BY <2>1, <2>4, <4>1, <4>2, HeldAlone
      <4>4. \A i \in Slots : Live(i)' => Live(i) /\ message'[i] = message[i]
        BY <2>1 DEF Live
      <4>5. ~\E i \in Slots : Kept(i)' /\ message'[i] = m
        BY <2>4, <4>1, <4>4, HeldAlone DEF Kept
      <4> QED
        BY <4>3, <4>5 DEF Held
    <3> QED
      BY <1>r, <2>1, <2>2, <2>4, <3>1, <3>2, <1>t
  <2> QED
    BY <2>3, <2>4
\* es_release_message for a live slot.
<1>7. ASSUME NEW s \in Slots, Live(s), UNCHANGED <<position, message, cb>>,
             ~(rb.pc = "recycle" /\ rb.slot = s),
             refs' = [refs EXCEPT ![message[s]] = @ - 1],
             ~Kept(s)', \A i \in Slots : Live(i)' => Live(i),
             m = message[s]
      PROVE  refs'[m] = (IF Running(m)' THEN 1 ELSE 0) + (IF Held(m)' THEN 1 ELSE 0)
  <2>1. Running(m)' <=> Running(m)
    BY <1>7 DEF Running
  <2>2. Held(m)
    BY <1>7 DEF Held, Kept
  <2>3. ~\E d \in Callbacks : cb'[d].pc \in FillingPcs \cup {"full"} /\ cb'[d].msg = m
    BY <1>7, HeldAlone
  <2>4. ~\E i \in Slots : Kept(i)' /\ message'[i] = m
    BY <1>7, HeldAlone DEF Kept
  <2>5. ~Held(m)'
    BY <2>3, <2>4 DEF Held
  <2> QED
    BY <1>7, <1>r, <2>1, <2>2, <2>5, <1>t
<1>8. CASE FreeMessage
  <2>0. PICK s \in Slots : s = rb.slot
    BY <1>t
  <2>1. /\ rb.pc = "free" /\ rb'.pc = "recycle" /\ rb'.slot = s /\ UNCHANGED <<sequence, position, message, cb>>
        /\ refs' = [refs EXCEPT ![message[s]] = @ - 1]
    BY <1>8, <2>0, <1>t DEF FreeMessage, Release, RbGoto, ringVars, slotVars
  <2>2. Live(s) /\ \A i \in Slots : Live(i)' => Live(i)
    BY <2>0, <2>1 DEF GuardInv, RubyInv, TicketInv, ReleasingPcs, Live
  <2>3. ~Kept(s)'
    BY <2>0, <2>1 DEF Kept
  <2>4. CASE m = message[s]
    BY <1>7, <2>1, <2>2, <2>3, <2>4
  <2>5. CASE m # message[s]
    <3>1. /\ \A c \in Callbacks : /\ ~Enqueue(c) /\ ~EnqueueFull(c) /\ ~AnswerFull(c)
                                  /\ ~HandleMessage(c) /\ ~LeaveHandler(c)
          /\ ~CloseDrainOne
      BY <2>1, <1>m DEF CloseDrainOne
    <3>2. Held(m)' <=> Held(m)
      BY <2>0, <2>5, <3>1, HeldStep
    <3>3. Running(m)' <=> Running(m)
      BY <3>1, <1>3
    <3>4. refs'[m] = refs[m]
      BY <2>1, <2>5, <1>t
    <3> QED
      BY <1>r, <3>2, <3>3, <3>4
  <2> QED
    BY <2>4, <2>5
<1>9. CASE CloseDrainOne
  <2>0. PICK s \in Slots : s = SlotOf(dequeue_position)
    BY SlotIndices
  <2>1. /\ rb.pc = "close_drain" /\ UNCHANGED <<rb, position, message, cb>> /\ Takeable
        /\ refs' = [refs EXCEPT ![message[s]] = @ - 1]
        /\ sequence' = [sequence EXCEPT ![s] = position[s] + Capacity]
    BY <1>9, <2>0 DEF CloseDrainOne, Release, rubyVars, ReleasedSequence
  <2>2. Live(s)
    BY <2>0, <2>1, TakeSlot
  <2>3. ~Live(s)'
    BY <1>9, <2>0, GivenBack DEF GivesBack
  <2>4. \A i \in Slots : Live(i)' => Live(i)
    <3>1. \A i \in Slots : i # s => sequence'[i] = sequence[i] /\ position'[i] = position[i]
      BY <2>1, <1>t
    <3> QED
      BY <2>3, <3>1 DEF Live
  <2>5. CASE m = message[s]
    BY <1>7, <2>1, <2>2, <2>3, <2>4, <2>5 DEF Kept
  <2>6. CASE m # message[s]
    <3>1. /\ \A c \in Callbacks : /\ ~Enqueue(c) /\ ~EnqueueFull(c) /\ ~AnswerFull(c)
                                  /\ ~HandleMessage(c) /\ ~LeaveHandler(c)
          /\ ~FreeMessage
      BY <2>1, <1>m DEF FreeMessage
    <3>2. Held(m)' <=> Held(m)
      BY <2>0, <2>6, <3>1, HeldStep
    <3>3. Running(m)' <=> Running(m)
      BY <3>1, <1>3
    <3>4. refs'[m] = refs[m]
      BY <2>1, <2>6, <1>t
    <3> QED
      BY <1>r, <3>2, <3>3, <3>4
  <2> QED
    BY <2>5, <2>6
<1>10. ASSUME /\ \A c \in Callbacks : /\ ~Enqueue(c) /\ ~EnqueueFull(c) /\ ~AnswerFull(c)
                                      /\ ~HandleMessage(c) /\ ~LeaveHandler(c)
              /\ ~FreeMessage /\ ~CloseDrainOne
       PROVE  refs'[m] = (IF Running(m)' THEN 1 ELSE 0) + (IF Held(m)' THEN 1 ELSE 0)
  <2>1. Held(m)' <=> Held(m)
    BY <1>10, HeldStep
  <2>2. Running(m)' <=> Running(m)
    BY <1>10, <1>3
  <2>3. UNCHANGED refs
    BY <1>10, RefsFrame
  <2> QED
    BY <1>r, <2>1, <2>2, <2>3
<1> QED
  BY <1>1, <1>2, <1>5, <1>6, <1>8, <1>9, <1>10

-----------------------------------------------------------------------------
(***************************************************************************)
(* Answers.                                                                *)
(***************************************************************************)

\* A slot whose answer is open holds a message, and nobody fills it.
LEMMA OpenInUse ==
  ASSUME TypeOK, TicketInv, GuardInv, PendingInv, NEW i \in Slots, Open(i)
  PROVE  InUse(i)
<1>1. CASE answer_state[i] = "pending"
  <2>1. occupied[i] \/ \E c \in Callbacks : cb[c].pc = "occupy" /\ CbSlot(c) = i
    BY <1>1 DEF PendingInv
  <2>2. occupied[i] => Live(i) \/ Occupying(i)
    BY DEF GuardInv, OccupiedInv
  <2> QED
    BY <2>1, <2>2 DEF InUse, Occupying, OccupiedPcs, FilledPcs
<1>2. CASE CbSends(i)
  BY <1>2 DEF CbSends, InUse, FilledPcs
<1>3. CASE WdSends(i)
  BY <1>3 DEF WdSends, GuardInv, WatchdogInv, InUse, Occupying, OccupiedPcs, FilledPcs
<1>4. CASE RbSends(i)
  BY <1>4 DEF RbSends, GuardInv, RubyInv, ReleasingPcs, TicketInv, InUse
<1> QED
  BY <1>1, <1>2, <1>3, <1>4 DEF Open, Sends

\* The slot a callback is filling is nobody else's.
LEMMA FillNotInUse ==
  ASSUME TypeOK, TicketInv, NEW c \in Callbacks, cb[c].pc = "fill", NEW i \in Slots, CbSlot(c) = i
  PROVE  ~InUse(i)
<1>1. Owns(c)
  BY DEF Owns, FillingPcs
<1>2. sequence[i] = cb[c].pos /\ SlotOf(cb[c].pos) = i
  BY <1>1 DEF TicketInv, CbSlot
<1>3. ~Live(i)
  BY <1>2, LiveNotFree
<1>4. ASSUME NEW d \in Callbacks, cb[d].pc \in FilledPcs, CbSlot(d) = i PROVE FALSE
  <2>1. Owns(d) /\ d # c
    BY <1>4 DEF Owns, FillingPcs, FilledPcs
  <2>2. cb[d].pos = cb[c].pos
    BY <1>2, <1>4, <2>1 DEF TicketInv
  <2> QED
    BY <1>1, <2>1, <2>2 DEF TicketInv
<1> QED
  BY <1>3, <1>4 DEF InUse

\* Two callbacks own different slots.
LEMMA OwnedApart ==
  ASSUME TicketInv, NEW c \in Callbacks, NEW d \in Callbacks, Owns(c), Owns(d), CbSlot(c) = CbSlot(d)
  PROVE  c = d
BY DEF TicketInv

\* No two slots in use have the same message, nor does a callback that has
\* not filled its slot.
LEMMA UsedApart ==
  ASSUME TypeOK, TicketInv, MessageInv, NEW i \in Slots, InUse(i)
  PROVE  /\ message[i] \in 1 .. arrived
         /\ \A j \in Slots : InUse(j) /\ j # i => message[j] # message[i]
         /\ \A c \in Callbacks : cb[c].pc \in UnansweredPcs => cb[c].msg # message[i]
<1>1. \A c \in Callbacks : cb[c].pc \in FilledPcs =>
        /\ cb[c].pc # "idle" /\ cb[c].pc \in FreshPcs /\ cb[c].pc \notin UnansweredPcs /\ Owns(c)
        /\ message[CbSlot(c)] = cb[c].msg
  BY DEF FilledPcs, FillingPcs, FreshPcs, UnansweredPcs, Owns, TicketInv
<1>2. \A c \in Callbacks : cb[c].pc \in UnansweredPcs => cb[c].pc # "idle" /\ cb[c].pc \in FreshPcs
  BY DEF UnansweredPcs, FreshPcs
<1>3. message[i] \in 1 .. arrived
  BY <1>1 DEF InUse, MessageInv
<1>4. ASSUME NEW j \in Slots, InUse(j), j # i PROVE message[j] # message[i]
  BY <1>1, <1>4 DEF InUse, MessageInv
<1>5. ASSUME NEW c \in Callbacks, cb[c].pc \in UnansweredPcs PROVE cb[c].msg # message[i]
  BY <1>1, <1>2, <1>5 DEF InUse, MessageInv
<1> QED
  BY <1>3, <1>4, <1>5

\* How the answer of slot i is won, and by whom.
LEMMA CbSendsStep ==
  ASSUME TypeOK, TicketInv, Next, NEW i \in Slots
  PROVE  /\ CbSends(i)' => \/ CbSends(i) /\ \A c \in Callbacks : SendUnarmed(c) => CbSlot(c) # i
                           \/ \E c \in Callbacks : AnswerUnarmed(c) /\ ClaimAnswer(i) /\ UNCHANGED <<wd, rb>>
         /\ CbSends(i) => CbSends(i)' \/ \E c \in Callbacks : SendUnarmed(c) /\ CbSlot(c) = i
<1>t. cb \in [Callbacks -> [pc : CallbackPcs, msg : {0} \cup Messages, pos : Nat]]
  BY DEF TypeOK, Positions
<1>o. \A c \in Callbacks : cb[c].pc = "send" => Owns(c)
  BY DEF Owns, FillingPcs
<1>1. ASSUME NEW c \in Callbacks, cb'[c].pc = "send", CbSlot(c)' = i
      PROVE  \/ CbSends(i) /\ \A d \in Callbacks : SendUnarmed(d) => CbSlot(d) # i
             \/ AnswerUnarmed(c) /\ ClaimAnswer(i) /\ UNCHANGED <<wd, rb>>
  <2>1. CASE AnswerUnarmed(c)
    <3>1. CbSlot(c)' = CbSlot(c)
      BY <2>1, <1>t DEF AnswerUnarmed, CbGoto, CbSlot
    <3>2. ClaimAnswer(i) /\ UNCHANGED <<wd, rb>>
      BY <1>1, <2>1, <3>1, <1>t DEF AnswerUnarmed, CbGoto, watchVars, rubyVars
    <3> QED
      BY <2>1, <3>2
  <2>2. CASE ~AnswerUnarmed(c)
    <3>1. cb'[c] = cb[c]
      <4>1. HandleMessage(c) \/ Callback(c) => cb'[c].pc # "send"
        BY <2>2, <1>t DEF HandleMessage, Callback, CheckClosed, RejectClosed, Enqueue, EnqueueFull, AnswerFull,
           FillSlot, Occupy, Arm, SendUnarmed, PublishSlot, NotifyQueued, LeaveHandler, IdleCallback, CbGoto
      <4> QED
        BY <1>1, <4>1, CallbackSteps
    <3>2. cb[c].pc = "send" /\ CbSlot(c) = i
      BY <1>1, <3>1 DEF CbSlot
    <3>3. ASSUME NEW d \in Callbacks, SendUnarmed(d), CbSlot(d) = i PROVE FALSE
      <4>1. cb[d].pc = "send" /\ cb'[d].pc = "publish"
        BY <3>3, <1>t DEF SendUnarmed, CbGoto
      <4>2. c = d
        BY <3>2, <3>3, <4>1, <1>o, OwnedApart
      <4> QED
        BY <3>1, <4>1, <4>2
    <3> QED
      BY <3>2, <3>3 DEF CbSends
  <2> QED
    BY <2>1, <2>2
<1>2. ASSUME NEW c \in Callbacks, cb[c].pc = "send", CbSlot(c) = i, ~SendUnarmed(c)
      PROVE  cb'[c].pc = "send" /\ CbSlot(c)' = i
  <2>1. ~HandleMessage(c) /\ ~Callback(c)
    BY <1>2 DEF HandleMessage, Callback, CheckClosed, RejectClosed, Enqueue, EnqueueFull, AnswerFull,
       FillSlot, Occupy, Arm, AnswerUnarmed, PublishSlot, NotifyQueued, LeaveHandler
  <2> QED
    BY <1>2, <2>1, CallbackSteps DEF CbSlot
<1> QED
  BY <1>1, <1>2 DEF CbSends

\* The watchdog sends an answer only after it has claimed the slot.
LEMMA WdSendsStep ==
  ASSUME TypeOK, Next, NEW i \in Slots
  PROVE  /\ WdSends(i)' => \/ WdSends(i) /\ ~SendDue
                           \/ ClaimDue /\ ClaimAnswer(i) /\ UNCHANGED <<cb, rb>>
         /\ WdSends(i) => WdSends(i)' \/ (SendDue /\ wd.slot = i)
<1>t. wd \in [pc : WatchdogPcs, slot : Slots, position : Positions \cup {NoPosition}]
  BY DEF TypeOK
<1>1. CASE UNCHANGED <<readers, wd>>
  <2>1. ~SendDue \/ wd.pc # "send"
    BY <1>1, <1>t DEF SendDue, WdGoto
  <2> QED
    BY <1>1, <2>1 DEF WdSends
<1>2. CASE ClaimDue
  BY <1>2, <1>t DEF ClaimDue, WdGoto, WdSends, ClaimAnswer, rubyVars
<1>3. CASE SendDue
  BY <1>3, <1>t DEF SendDue, WdGoto, WdSends
<1>4. CASE WatchSteps /\ ~ClaimDue /\ ~SendDue
  <2>1. wd.pc # "send" /\ wd'.pc # "send"
    BY <1>4, <1>t DEF WatchSteps, WatchdogLoop, Collect, Sleep, CheckOccupied, Enlist, Recheck,
       Resign, DeleteClient, PopDue, WdGoto, WdNext
  <2> QED
    BY <2>1 DEF WdSends
<1> QED
  BY <1>1, <1>2, <1>3, <1>4, ReadersFrame

\* Ruby sends an answer only after it has claimed the slot.
LEMMA RbSendsStep ==
  ASSUME TypeOK, Next, NEW i \in Slots
  PROVE  /\ RbSends(i)' => \/ RbSends(i) /\ ~SendResponse /\ ~SendDefault
                           \/ ClaimAnswer(i) /\ UNCHANGED <<cb, wd>>
         /\ RbSends(i) => RbSends(i)' \/ ((SendResponse \/ SendDefault) /\ rb.slot = i)
<1>t. rb \in [pc : RubyPcs, slot : Slots]
  BY DEF TypeOK
<1>1. CASE UNCHANGED rb
  <2>1. (SendResponse \/ SendDefault) => rb'.pc # rb.pc
    BY <1>t DEF SendResponse, SendDefault, RbGoto, IdleRuby
  <2> QED
    BY <1>1, <2>1 DEF RbSends
<1>2. ASSUME NEW j \in Slots, Respond(j) \/ ReleaseMessage(j)
      PROVE  /\ RbSends(i)' => ClaimAnswer(i) /\ UNCHANGED <<cb, wd>>
             /\ ~RbSends(i)
  BY <1>2, <1>t DEF Respond, ReleaseMessage, RbStart, RbSends, watchVars
<1>3. CASE SendResponse \/ SendDefault
  BY <1>3, <1>t DEF SendResponse, SendDefault, RbGoto, IdleRuby, RbSends
<1>4. CASE /\ RubyStarts \/ RubyContinues
           /\ ~SendResponse /\ ~SendDefault /\ \A j \in Slots : ~Respond(j) /\ ~ReleaseMessage(j)
  <2>1. rb.pc \notin {"send", "release_send"} /\ rb'.pc \notin {"send", "release_send"}
    BY <1>4, <1>t DEF RubyStarts, RubyContinues, StartDrain, DrainOne, EndDrain, CheckDepth, NotifyLeft,
       Disarm, DisarmWait, FreeMessage, RecycleSlot, Close, CloseCallbacks, CloseWatchdog, CloseAnswer,
       CloseDrainOne, CloseDrained, CloseJoin, RbGoto, RbStart, IdleRuby, rubyVars
  <2> QED
    BY <2>1 DEF RbSends
<1> QED
  BY <1>1, <1>2, <1>3, <1>4, RubyFrame

\* The claim of a slot has one winner, who alone sends the answer.
LEMMA ExclusiveStep ==
  ASSUME TypeOK, TicketInv, GuardInv, PendingInv, ExclusiveInv, Next
  PROVE  ExclusiveInv'
<1> SUFFICES ASSUME NEW i \in Slots
             PROVE  /\ Sends(i)' => answer_state'[i] # "pending"
                    /\ ~(CbSends(i)' /\ WdSends(i)') /\ ~(CbSends(i)' /\ RbSends(i)')
                    /\ ~(WdSends(i)' /\ RbSends(i)')
  BY DEF ExclusiveInv, Sends, CbSends, WdSends, RbSends, CbSlot
<1>e. /\ Sends(i) => answer_state[i] # "pending"
      /\ ~(CbSends(i) /\ WdSends(i)) /\ ~(CbSends(i) /\ RbSends(i)) /\ ~(WdSends(i) /\ RbSends(i))
  BY DEF ExclusiveInv
<1>c. ClaimAnswer(i) => answer_state[i] = "pending" /\ answer_state'[i] = "answered"
  BY DEF ClaimAnswer, TypeOK
<1>1. Sends(i)' => Sends(i) \/ ClaimAnswer(i)
  BY CbSendsStep, WdSendsStep, RbSendsStep DEF Sends
<1>2. ASSUME Sends(i)', answer_state'[i] = "pending" PROVE FALSE
  <2>1. Sends(i)
    BY <1>1, <1>2, <1>c
  <2>2. \A c \in Callbacks : ~(FillSlot(c) /\ CbSlot(c) = i)
    BY <2>1, OpenInUse, FillNotInUse DEF FillSlot, Open
  <2> QED
    BY <1>2, <1>e, <2>1, <2>2, NewPending
<1>3. /\ CbSends(i)' => CbSends(i) \/ (ClaimAnswer(i) /\ UNCHANGED <<wd, rb>>)
      /\ WdSends(i)' => WdSends(i) \/ (ClaimAnswer(i) /\ UNCHANGED <<cb, rb>>)
      /\ RbSends(i)' => RbSends(i) \/ (ClaimAnswer(i) /\ UNCHANGED <<cb, wd>>)
  BY CbSendsStep, WdSendsStep, RbSendsStep
<1>4. ClaimAnswer(i) => ~CbSends(i) /\ ~WdSends(i) /\ ~RbSends(i)
  BY <1>c, <1>e DEF Sends
<1>5. /\ UNCHANGED wd => (WdSends(i)' <=> WdSends(i))
      /\ UNCHANGED rb => (RbSends(i)' <=> RbSends(i))
      /\ UNCHANGED cb => (CbSends(i)' <=> CbSends(i))
  BY DEF WdSends, RbSends, CbSends, CbSlot
<1> QED
  BY <1>2, <1>3, <1>4, <1>5, <1>e

\* The steps that answer the message of slot i.
Answers(i) ==
  \/ \E c \in Callbacks : SendUnarmed(c) /\ CbSlot(c) = i
  \/ SendDue /\ wd.slot = i
  \/ (SendResponse \/ SendDefault) /\ rb.slot = i
  \/ CloseAnswer /\ rb.slot = i /\ occupied[i] /\ answer_state[i] = "pending"
  \/ CloseDrainOne /\ SlotOf(dequeue_position) = i /\ answer_state[i] = "pending"

\* An open answer is open until one of them is taken, and closed by it.
LEMMA OpenStep ==
  ASSUME TypeOK, TicketInv, GuardInv, PendingInv, ExclusiveInv, StopInv, Next, NEW i \in Slots
  PROVE  /\ Open(i)' => Open(i) \/ \E c \in Callbacks : FillSlot(c) /\ CbSlot(c) = i /\ cb[c].msg \in Auth
         /\ Open(i) => message'[i] = message[i]
         /\ Open(i) /\ ~Open(i)' => Answers(i)
         /\ Answers(i) => Open(i) /\ ~Open(i)'
<1>t. /\ answer_state \in [Slots -> {"pending", "answered", "not_auth"}] /\ message \in [Slots -> {0} \cup Messages]
      /\ rb.slot \in Slots /\ wd.slot \in Slots /\ SlotOf(dequeue_position) \in Slots
      /\ \A c \in Callbacks : CbSlot(c) \in Slots
  BY SlotIndices DEF TypeOK
<1>e. /\ Sends(i) => answer_state[i] # "pending"
      /\ ~(CbSends(i) /\ WdSends(i)) /\ ~(CbSends(i) /\ RbSends(i)) /\ ~(WdSends(i) /\ RbSends(i))
  BY DEF ExclusiveInv
<1>f. Open(i) => \A c \in Callbacks : ~(FillSlot(c) /\ CbSlot(c) = i)
  BY OpenInUse, FillNotInUse DEF FillSlot
<1>c. ClaimAnswer(i) => answer_state[i] = "pending" /\ answer_state'[i] = "answered"
  BY <1>t DEF ClaimAnswer
<1>s. Sends(i)' => Sends(i) \/ ClaimAnswer(i)
  BY CbSendsStep, WdSendsStep, RbSendsStep DEF Sends
<1>1. Open(i)' => Open(i) \/ \E c \in Callbacks : FillSlot(c) /\ CbSlot(c) = i /\ cb[c].msg \in Auth
  <2>1. answer_state'[i] = "pending" =>
          answer_state[i] = "pending" \/ \E c \in Callbacks : FillSlot(c) /\ CbSlot(c) = i /\ cb[c].msg \in Auth
    BY NewPending
  <2>2. Open(i)' <=> answer_state'[i] = "pending" \/ Sends(i)'
    BY DEF Open
  <2> QED
    BY <2>1, <2>2, <1>s, <1>c DEF Open
<1>2. Open(i) => message'[i] = message[i]
  <2>1. ASSUME NEW c \in Callbacks, FillSlot(c), CbSlot(c) # i PROVE message'[i] = message[i]
    BY <2>1, <1>t DEF FillSlot
  <2> QED
    BY <2>1, <1>f, MessageFrame
\* The compare-and-swap: from pending to on its way, or answered at once.
<1>3. ASSUME answer_state[i] = "pending", answer_state'[i] # "pending", ~Answers(i)
      PROVE  Sends(i)'
  <2>1. CASE ClaimDue
    <3>1. \/ wd.slot = i /\ wd'.pc = "send" /\ wd'.slot = wd.slot
          \/ answer_state'[i] = answer_state[i]
      BY <2>1, <1>t DEF ClaimDue, ClaimAnswer, WdGoto, TypeOK
    <3> QED
      BY <1>3, <3>1 DEF Sends, WdSends
  <2>2. ASSUME NEW c \in Callbacks, AnswerUnarmed(c) PROVE Sends(i)'
    <3>1. CASE CbSlot(c) = i
      <4>1. cb' = [cb EXCEPT ![c].pc = "send"]
        BY <1>3, <2>2, <3>1 DEF AnswerUnarmed, CbGoto
      <4>2. cb'[c].pc = "send" /\ CbSlot(c)' = i
        BY <3>1, <4>1, CallbackUpdate DEF CbSlot
      <4> QED
        BY <4>2 DEF Sends, CbSends
    <3>2. CASE CbSlot(c) # i
      BY <1>3, <2>2, <3>2, <1>t DEF AnswerUnarmed, ClaimAnswer
    <3> QED
      BY <3>1, <3>2
  <2>3. ASSUME NEW j \in Slots, Respond(j) \/ ReleaseMessage(j) PROVE Sends(i)'
    <3>1. ClaimAnswer(j) /\ rb'.pc \in {"send", "release_send"} /\ rb'.slot = j
      BY <1>3, <2>3 DEF Respond, ReleaseMessage, RbStart
    <3>2. j = i
      BY <1>3, <3>1, <1>t DEF ClaimAnswer
    <3> QED
      BY <3>1, <3>2 DEF Sends, RbSends
  <2>4. ~CloseAnswer
    BY <1>3, <1>t DEF CloseAnswer, AnswerSlot, ClaimAnswer, Answers
  <2>5. ~CloseDrainOne
    BY <1>3, <1>t DEF CloseDrainOne, AnswerSlot, ClaimAnswer, Answers
  <2>6. ASSUME NEW c \in Callbacks, FillSlot(c) PROVE Sends(i)'
    BY <1>3, <2>6, <1>f, <1>t DEF FillSlot, Open
  <2> QED
    BY <1>3, <2>1, <2>2, <2>3, <2>4, <2>5, <2>6, AnswerFrame
<1>4. ASSUME Open(i), ~Open(i)', ~Answers(i) PROVE FALSE
  <2>1. answer_state'[i] # "pending" /\ ~Sends(i)'
    BY <1>4 DEF Open
  <2>2. Sends(i)
    BY <1>3, <1>4, <2>1 DEF Open
  <2> QED
    BY <1>4, <2>1, <2>2, CbSendsStep, WdSendsStep, RbSendsStep DEF Sends, Answers
\* A step that sends leaves the answer state alone.
<1>5. ASSUME Sends(i), UNCHANGED answer_state,
             CbSends(i) => ~CbSends(i)', WdSends(i) => ~WdSends(i)', RbSends(i) => ~RbSends(i)'
      PROVE  Open(i) /\ ~Open(i)'
  <2>1. answer_state'[i] # "pending" /\ ~ClaimAnswer(i)
    BY <1>5, <1>e, <1>c
  <2>2. ~CbSends(i)' /\ ~WdSends(i)' /\ ~RbSends(i)'
    BY <1>5, <2>1, CbSendsStep, WdSendsStep, RbSendsStep
  <2>3. ~Sends(i)'
    BY <2>2 DEF Sends
  <2> QED
    BY <1>5, <2>1, <2>3 DEF Open
<1>6. ASSUME NEW c \in Callbacks, SendUnarmed(c), CbSlot(c) = i PROVE Open(i) /\ ~Open(i)'
  <2>1. CbSends(i) /\ UNCHANGED answer_state
    BY <1>6 DEF SendUnarmed, CbSends, slotVars
  <2>2. ~CbSends(i)'
    BY <1>6, <2>1, <1>c, <1>e, CbSendsStep DEF Sends
  <2> QED
    BY <1>5, <1>e, <2>1, <2>2 DEF Sends
<1>7. ASSUME SendDue, wd.slot = i PROVE Open(i) /\ ~Open(i)'
  <2>1. WdSends(i) /\ UNCHANGED answer_state
    BY <1>7 DEF SendDue, WdSends, slotVars
  <2>2. ~WdSends(i)'
    BY <1>7, <2>1, <1>c, <1>e, WdSendsStep DEF Sends
  <2> QED
    BY <1>5, <1>e, <2>1, <2>2 DEF Sends
<1>8. ASSUME SendResponse \/ SendDefault, rb.slot = i PROVE Open(i) /\ ~Open(i)'
  <2>1. RbSends(i) /\ UNCHANGED answer_state
    BY <1>8 DEF SendResponse, SendDefault, RbSends, slotVars
  <2>2. ~RbSends(i)'
    BY <1>8, <2>1, <1>c, <1>e, RbSendsStep DEF Sends
  <2> QED
    BY <1>5, <1>e, <2>1, <2>2 DEF Sends
\* client_close_native claims the answer and sends it in one step.
<1>9. ASSUME answer_state[i] = "pending", CloseAnswer \/ CloseDrainOne, ClaimAnswer(i)
      PROVE  Open(i) /\ ~Open(i)'
  <2>1. UNCHANGED <<cb, wd>> /\ rb'.pc \notin {"send", "release_send"}
    <3>1. CASE CloseAnswer
      BY <3>1 DEF CloseAnswer, watchVars, TypeOK
    <3>2. CASE CloseDrainOne
      BY <3>2 DEF CloseDrainOne, watchVars, rubyVars
    <3> QED
      BY <1>9, <3>1, <3>2
  <2>2. ~CbSends(i)' /\ ~WdSends(i)' /\ ~RbSends(i)'
    BY <1>9, <1>e, <2>1 DEF Sends, CbSends, WdSends, RbSends, CbSlot
  <2>3. answer_state'[i] # "pending" /\ ~Sends(i)'
    BY <1>9, <1>c, <2>2 DEF Sends
  <2> QED
    BY <1>9, <2>3 DEF Open
<1>10. ASSUME CloseAnswer, rb.slot = i, occupied[i], answer_state[i] = "pending" PROVE Open(i) /\ ~Open(i)'
  BY <1>9, <1>10 DEF CloseAnswer, AnswerSlot
<1>11. ASSUME CloseDrainOne, SlotOf(dequeue_position) = i, answer_state[i] = "pending"
       PROVE  Open(i) /\ ~Open(i)'
  BY <1>9, <1>11 DEF CloseDrainOne, AnswerSlot
<1>12. Answers(i) => Open(i) /\ ~Open(i)'
  BY <1>6, <1>7, <1>8, <1>10, <1>11 DEF Answers
<1> QED
  BY <1>1, <1>2, <1>4, <1>12

\* Who answers message m in a step: a callback that refuses it, or the thread
\* that won the answer of its slot; once, and nobody else's message.
LEMMA Answering ==
  ASSUME TypeOK, TicketInv, GuardInv, PendingInv, ExclusiveInv, StopInv, AnswerInv, Next, NEW m \in Messages
  PROVE  /\ responses'[m] \in Nat
         /\ \/ responses'[m] = responses[m]
            \/ /\ responses'[m] = responses[m] + 1
               /\ \/ \E c \in Callbacks : /\ RejectClosed(c) \/ AnswerFull(c)
                                          /\ cb[c].msg = m /\ m \in Auth
                  \/ \E i \in Slots : Answers(i) /\ message[i] = m
         /\ \A c \in Callbacks : (RejectClosed(c) \/ AnswerFull(c)) /\ cb[c].msg = m /\ m \in Auth =>
              responses'[m] = responses[m] + 1
         /\ \A i \in Slots : Answers(i) /\ message[i] = m => responses'[m] = responses[m] + 1
<1>t. /\ responses \in [Messages -> Nat] /\ rb.slot \in Slots /\ wd.slot \in Slots
      /\ SlotOf(dequeue_position) \in Slots /\ \A c \in Callbacks : CbSlot(c) \in Slots
  BY SlotIndices DEF TypeOK
<1>s. ASSUME NEW n \in Messages, Send(n)
      PROVE  /\ responses'[m] \in Nat
             /\ m = n => responses'[m] = responses[m] + 1
             /\ m # n => responses'[m] = responses[m]
  BY <1>s, <1>t DEF Send
<1>a. \A i \in Slots : Open(i) => message[i] \in Messages
  BY DeliveryAssumption DEF AnswerInv
\* The answer of a slot.
<1>1. ASSUME NEW i \in Slots, Answers(i)
      PROVE  Send(message[i]) /\ message[i] \in Messages
  <2>1. message[i] \in Messages
    BY <1>1, <1>a, OpenStep
  <2>2. Send(message[i])
    BY <1>1 DEF Answers, SendUnarmed, SendDue, SendResponse, SendDefault, CloseAnswer, CloseDrainOne, AnswerSlot
  <2> QED
    BY <2>1, <2>2
<1>2. \A i \in Slots : Answers(i) /\ message[i] = m => responses'[m] = responses[m] + 1
  BY <1>1, <1>s
<1>3. \A c \in Callbacks : (RejectClosed(c) \/ AnswerFull(c)) /\ cb[c].msg = m /\ m \in Auth =>
        responses'[m] = responses[m] + 1
  BY <1>s DEF RejectClosed, AnswerFull, SendIfAuth
<1>4. /\ responses'[m] \in Nat
      /\ \/ responses'[m] = responses[m]
         \/ \E c \in Callbacks : (RejectClosed(c) \/ AnswerFull(c)) /\ cb[c].msg = m /\ m \in Auth
         \/ \E i \in Slots : Answers(i) /\ message[i] = m
  <2>1. CASE UNCHANGED responses
    BY <2>1, <1>t
  <2>2. ASSUME NEW c \in Callbacks, RejectClosed(c) \/ AnswerFull(c)
        PROVE  /\ responses'[m] \in Nat
               /\ responses'[m] = responses[m] \/ (cb[c].msg = m /\ m \in Auth)
    <3>1. CASE cb[c].msg \in Auth
      <4>1. Send(cb[c].msg) /\ cb[c].msg \in Messages
        BY <2>2, <3>1, DeliveryAssumption DEF RejectClosed, AnswerFull, SendIfAuth
      <4> QED
        BY <4>1, <3>1, <1>s
    <3>2. CASE cb[c].msg \notin Auth
      BY <2>2, <3>2, <1>t DEF RejectClosed, AnswerFull, SendIfAuth, sendVars
    <3> QED
      BY <3>1, <3>2
  <2>3. ASSUME NEW i \in Slots, Answers(i)
        PROVE  responses'[m] \in Nat /\ (responses'[m] = responses[m] \/ message[i] = m)
    BY <2>3, <1>1, <1>s
  <2>4. SendDue => Answers(wd.slot)
    BY DEF Answers
  <2>5. SendResponse \/ SendDefault => Answers(rb.slot)
    BY DEF Answers
  <2>6. \A c \in Callbacks : SendUnarmed(c) => Answers(CbSlot(c))
    BY DEF Answers
  <2>7. CloseAnswer => UNCHANGED responses \/ Answers(rb.slot)
    BY DEF CloseAnswer, AnswerSlot, Answers, sendVars
  <2>8. CloseDrainOne => UNCHANGED responses \/ Answers(SlotOf(dequeue_position))
    BY DEF CloseDrainOne, AnswerSlot, Answers, sendVars
  <2>9. \/ UNCHANGED responses \/ \E i \in Slots : Answers(i)
        \/ \E c \in Callbacks : RejectClosed(c) \/ AnswerFull(c)
    BY <2>4, <2>5, <2>6, <2>7, <2>8, <1>t, ResponsesFrame
  <2> QED
    BY <2>1, <2>2, <2>3, <2>9
<1> QED
  BY <1>2, <1>3, <1>4

\* Each AUTH message is answered when its slot says so, and once.
LEMMA AnswerStep ==
  ASSUME TypeOK, TicketInv, GuardInv, PendingInv, ExclusiveInv, StopInv, MessageInv, AnswerInv, Next
  PROVE  AnswerInv'
<1>t. /\ responses \in [Messages -> Nat] /\ arrived \in Nat /\ Auth \subseteq Messages
      /\ cb \in [Callbacks -> [pc : CallbackPcs, msg : {0} \cup Messages, pos : Nat]]
      /\ arrived' = arrived \/ arrived' = arrived + 1
  BY DeliveryAssumption, ArrivedFrame DEF TypeOK, Positions, HandleMessage
<1>m. 1 .. arrived \subseteq Messages
  BY DeliveryAssumption DEF TypeOK, Messages
<1>c. \A c \in Callbacks : RejectClosed(c) \/ AnswerFull(c) =>
        cb[c].pc \in UnansweredPcs /\ cb[c].pc # "idle" /\ cb'[c].pc = "leave"
  BY <1>t DEF RejectClosed, AnswerFull, CbGoto, UnansweredPcs
<1>o. \A i \in Slots : Open(i) =>
        /\ message[i] \in Messages /\ message[i] \in 1 .. arrived
        /\ \A j \in Slots : Open(j) /\ j # i => message[j] # message[i]
        /\ \A c \in Callbacks : cb[c].pc \in UnansweredPcs => cb[c].msg # message[i]
  BY <1>m, OpenInUse, UsedApart
<1>n. \A c \in Callbacks : cb[c].pc \in UnansweredPcs => cb[c].pc # "idle" /\ cb[c].msg \in 1 .. arrived
  BY DEF UnansweredPcs, MessageInv
\* Nobody answers the message of a slot that stays open, or of a callback
\* that has still to answer it, or one that did not arrive.
<1>1. ASSUME NEW i \in Slots, Open(i), Open(i)' PROVE responses'[message[i]] = responses[message[i]]
  BY <1>1, <1>c, <1>o, Answering, OpenStep
<1>2. ASSUME NEW c \in Callbacks, cb[c].pc \in UnansweredPcs, cb'[c].pc \in UnansweredPcs
      PROVE  responses'[cb[c].msg] = responses[cb[c].msg]
  <2>1. cb[c].msg \in Messages
    BY <1>2, <1>n, <1>m
  <2>2. ~RejectClosed(c) /\ ~AnswerFull(c)
    BY <1>2, <1>c DEF UnansweredPcs
  <2>3. \A d \in Callbacks : RejectClosed(d) \/ AnswerFull(d) => cb[d].msg # cb[c].msg
    BY <1>2, <1>c, <1>n, <2>2 DEF MessageInv
  <2>4. \A i \in Slots : Answers(i) => message[i] # cb[c].msg
    BY <1>2, <1>o, OpenStep
  <2> QED
    BY <2>1, <2>3, <2>4, Answering
<1>3. ASSUME NEW m \in Messages, m > arrived PROVE responses'[m] = 0
  <2>1. \A i \in Slots : Answers(i) => message[i] # m
    BY <1>3, <1>o, <1>t, OpenStep
  <2>2. \A d \in Callbacks : RejectClosed(d) \/ AnswerFull(d) => cb[d].msg # m
    BY <1>3, <1>c, <1>n, <1>t
  <2>3. responses[m] = 0
    BY <1>3 DEF AnswerInv
  <2> QED
    BY <2>1, <2>2, <2>3, Answering
\* The conjuncts.
<1>4. ASSUME NEW i \in Slots, Open(i)'
      PROVE  message'[i] \in Auth /\ responses'[message'[i]] = 0
  <2>1. CASE Open(i)
    BY <1>1, <1>4, <2>1, OpenStep DEF AnswerInv
  <2>2. ASSUME NEW c \in Callbacks, FillSlot(c), CbSlot(c) = i, cb[c].msg \in Auth
        PROVE  message'[i] \in Auth /\ responses'[message'[i]] = 0
    <3>1. cb[c].pc = "fill" /\ message'[i] = cb[c].msg /\ UNCHANGED responses
      BY <2>2 DEF FillSlot, TypeOK, sendVars
    <3> QED
      BY <2>2, <3>1 DEF AnswerInv, UnansweredPcs
  <2> QED
    BY <1>4, <2>1, <2>2, OpenStep
<1>5. ASSUME NEW m \in Messages, m > arrived' PROVE responses'[m] = 0
  <2>1. m > arrived
    BY <1>5, <1>t DEF Messages
  <2> QED
    BY <2>1, <1>3
<1>6. ASSUME NEW c \in Callbacks, cb'[c].pc \in UnansweredPcs PROVE responses'[cb'[c].msg] = 0
  <2>1. CASE HandleMessage(c) /\ cb'[c].msg = arrived + 1
    <3>1. arrived + 1 \in Messages /\ arrived + 1 > arrived
      BY <2>1, <1>t DEF HandleMessage
    <3> QED
      BY <2>1, <3>1, <1>3
  <2>2. CASE cb[c].pc \in UnansweredPcs /\ cb'[c].msg = cb[c].msg
    BY <1>2, <1>6, <2>2 DEF AnswerInv
  <2>3. cb[c].pc \in UnansweredPcs \/ HandleMessage(c)
    <3>1. CASE CallbackMoves(c)
      <4>1. PICK l \in CallbackPcs : cb' = [cb EXCEPT ![c].pc = l] /\ <<cb[c].pc, l>> \in CallbackEdges
        BY <3>1, CallbackFrame
      <4>2. cb'[c].pc = l
        BY <4>1, CallbackUpdate
      <4> QED
        BY <1>6, <4>1, <4>2 DEF CallbackEdges, UnansweredPcs
    <3>2. CASE Enqueue(c) \/ FillSlot(c) \/ PublishSlot(c) \/ LeaveHandler(c)
      BY <1>6, <3>2, <1>t DEF Enqueue, FillSlot, PublishSlot, LeaveHandler, IdleCallback, CbGoto, UnansweredPcs
    <3> QED
      BY <1>6, <3>1, <3>2, CallbackSteps DEF Callback, CallbackMoves
  <2>4. cb'[c].pc # "idle"
    BY <1>6 DEF UnansweredPcs
  <2>5. HandleMessage(c) => cb[c].pc = "idle"
    BY DEF HandleMessage
  <2> QED
    BY <2>1, <2>2, <2>3, <2>4, <2>5, CallbackKeepsMessage
<1>7. ASSUME NEW m \in Messages PROVE responses'[m] <= (IF m \in Auth THEN 1 ELSE 0)
  <2>1. responses[m] \in Nat /\ responses[m] <= (IF m \in Auth THEN 1 ELSE 0)
    BY <1>t DEF AnswerInv, AnsweredAtMostOnce
  <2>2. ASSUME NEW c \in Callbacks, RejectClosed(c) \/ AnswerFull(c), cb[c].msg = m PROVE responses[m] = 0
    BY <2>2, <1>c DEF AnswerInv
  <2>3. ASSUME NEW i \in Slots, Answers(i), message[i] = m PROVE responses[m] = 0 /\ m \in Auth
    BY <2>3, OpenStep DEF AnswerInv
  <2>4. responses'[m] = responses[m] \/ (responses'[m] = responses[m] + 1 /\ m \in Auth /\ responses[m] = 0)
    BY <2>2, <2>3, Answering
  <2> QED
    BY <2>1, <2>4
<1>8. ASSUME NEW m \in Auth, m <= arrived', responses'[m] = 0
      PROVE  \/ \E c \in Callbacks : cb'[c].pc \in UnansweredPcs /\ cb'[c].msg = m
             \/ \E i \in Slots : message'[i] = m /\ Open(i)'
  <2>0. m \in Messages /\ m \in Nat
    BY <1>t DEF Messages
  <2>1. CASE ~(m <= arrived)
    <3>1. PICK c \in Callbacks : HandleMessage(c)
      BY <1>8, <2>1, ArrivedFrame
    <3>2. cb'[c].pc = "check" /\ cb'[c].msg = arrived + 1
      BY <3>1, <1>t DEF HandleMessage
    <3>3. m = arrived + 1
      BY <1>8, <2>0, <2>1, <1>t
    <3> QED
      BY <3>2, <3>3 DEF UnansweredPcs
  <2>2. CASE m <= arrived
    <3>1. responses[m] = 0 /\ responses[m] \in Nat
      BY <1>8, <2>0, <1>t, Answering
    <3>2. ASSUME NEW c \in Callbacks, cb[c].pc \in UnansweredPcs, cb[c].msg = m
          PROVE  \/ cb'[c].pc \in UnansweredPcs /\ cb'[c].msg = m
                 \/ \E i \in Slots : message'[i] = m /\ Open(i)'
      <4>1. ~RejectClosed(c) /\ ~AnswerFull(c)
        BY <3>1, <3>2, <1>8, <2>0, Answering
      <4>2. CASE FillSlot(c)
        <5>1. PICK i \in Slots : i = CbSlot(c)
          BY SlotIndices
        <5>2. message'[i] = m /\ answer_state'[i] = "pending"
          BY <3>2, <4>2, <5>1 DEF FillSlot, TypeOK
        <5> QED
          BY <5>2 DEF Open
      <4>3. CASE CheckClosed(c) \/ Enqueue(c) \/ EnqueueFull(c)
        BY <3>2, <4>3, <1>t DEF CheckClosed, Enqueue, EnqueueFull, CbGoto, UnansweredPcs
      <4>4. CASE cb'[c] = cb[c]
        BY <3>2, <4>4
      <4>5. /\ ~HandleMessage(c) /\ ~Occupy(c) /\ ~Arm(c) /\ ~AnswerUnarmed(c) /\ ~SendUnarmed(c)
            /\ ~PublishSlot(c) /\ ~NotifyQueued(c) /\ ~LeaveHandler(c)
        BY <3>2 DEF HandleMessage, Occupy, Arm, AnswerUnarmed, SendUnarmed, PublishSlot, NotifyQueued,
           LeaveHandler, UnansweredPcs
      <4> QED
        BY <4>1, <4>2, <4>3, <4>4, <4>5, CallbackSteps DEF Callback
    <3>3. ASSUME NEW i \in Slots, message[i] = m, Open(i)
          PROVE  message'[i] = m /\ Open(i)'
      <4>1. ~Answers(i)
        BY <3>1, <3>3, <1>8, <2>0, Answering
      <4> QED
        BY <3>3, <4>1, OpenStep
    <3> QED
      BY <2>2, <3>1, <3>2, <3>3 DEF AnswerInv
  <2> QED
    BY <2>1, <2>2
<1>9. AnsweredAtMostOnce'
  BY <1>7 DEF AnsweredAtMostOnce
<1> QED
  BY <1>4, <1>5, <1>6, <1>8, <1>9 DEF AnswerInv

-----------------------------------------------------------------------------
(***************************************************************************)
(* Deadlines.                                                              *)
(***************************************************************************)

\* A request names a slot and a ticket.
LEMMA RequestType ==
  ASSUME TypeOK
  PROVE  /\ Len(requests) \in Nat
         /\ \A k \in 1 .. Len(requests) : requests[k].slot \in Slots /\ requests[k].position \in Nat
<1>1. PICK S : S = [slot : Slots, position : Positions]
  OBVIOUS
<1>2. requests \in Seq(S)
  BY <1>1 DEF TypeOK
<1>3. Len(requests) \in Nat /\ \A k \in 1 .. Len(requests) : requests[k] \in S
  BY <1>2
<1>4. \A x \in S : x.slot \in Slots /\ x.position \in Nat
  BY <1>1 DEF Positions
<1> QED
  BY <1>3, <1>4

\* What request_push and request_pop do to the request ring.
LEMMA RequestPush ==
  ASSUME TypeOK, NEW x, requests' = Append(requests, x)
  PROVE  /\ Len(requests) \in Nat /\ Len(requests') = Len(requests) + 1
         /\ requests'[Len(requests) + 1] = x
         /\ \A k \in 1 .. Len(requests) : requests'[k] = requests[k]
<1>1. requests \in Seq([slot : Slots, position : Positions])
  BY DEF TypeOK
<1> QED
  BY <1>1

\* The watchdog takes its requests from the front.
LEMMA RequestPop ==
  ASSUME TypeOK, requests # <<>>, requests' = Tail(requests)
  PROVE  /\ Len(requests) \in Nat /\ Len(requests) >= 1 /\ Len(requests') = Len(requests) - 1
         /\ Head(requests) = requests[1]
         /\ \A k \in 1 .. Len(requests') : k + 1 \in 1 .. Len(requests) /\ requests'[k] = requests[k + 1]
<1>1. requests \in Seq([slot : Slots, position : Positions])
  BY DEF TypeOK
<1>2. Len(requests) \in Nat /\ Len(requests) >= 1 /\ Len(requests') = Len(requests) - 1
  BY <1>1
<1>3. \A k \in 1 .. Len(requests') : requests'[k] = requests[k + 1]
  BY <1>1
<1> QED
  BY <1>1, <1>2, <1>3

\* Requests and entries for a slot are no younger than its message, and in order.
LEMMA OrderStep ==
  ASSUME TypeOK, TicketInv, OrderInv, Next
  PROVE  OrderInv'
<1>t. /\ position \in [Slots -> Nat] /\ armed \in [Slots -> Int]
      /\ Len(requests) \in Nat
      /\ \A k \in 1 .. Len(requests) : requests[k].slot \in Slots /\ requests[k].position \in Nat
  <2>1. position \in [Slots -> Nat]
    BY NatTypes
  <2>2. armed \in [Slots -> Int]
    BY NatTypes
  <2> QED
    BY <2>1, <2>2, RequestType
<1>i. \A c \in Callbacks : CbSlot(c) \in Slots /\ cb[c].pos \in Nat
  BY SlotIndices
<1>1. ASSUME NEW c \in Callbacks, FillSlot(c) PROVE OrderInv'
  <2>0. PICK s \in Slots : s = CbSlot(c)
    BY <1>i
  <2>1. position' = [position EXCEPT ![s] = cb[c].pos] /\ UNCHANGED <<requests, armed>>
    BY <1>1, <2>0 DEF FillSlot, watchVars
  <2>2. position[s] <= cb[c].pos
    BY <1>1, <2>0 DEF FillSlot, TicketInv, Owns, FillingPcs
  <2>3. \A i \in Slots : position[i] <= position'[i] /\ position'[i] \in Nat /\ position[i] \in Nat /\ armed[i] \in Int
    BY <2>1, <2>2, <1>t, <1>i
  <2>4. \A i \in Slots : armed[i] <= position'[i]
    BY <2>3 DEF OrderInv
  <2>5. \A k \in 1 .. Len(requests) : requests[k].position <= position'[requests[k].slot]
    BY <2>3, <1>t DEF OrderInv
  <2> QED
    BY <2>1, <2>4, <2>5 DEF OrderInv
<1>2. ASSUME NEW c \in Callbacks, Arm(c) PROVE OrderInv'
  <2>0. PICK s \in Slots : s = CbSlot(c)
    BY <1>i
  <2>1. /\ UNCHANGED <<armed, position>>
        /\ \/ UNCHANGED requests
           \/ requests' = Append(requests, [slot |-> s, position |-> position[s]])
    BY <1>2, <2>0 DEF Arm, slotVars
  <2>2. CASE UNCHANGED requests
    BY <2>1, <2>2 DEF OrderInv
  <2>3. CASE requests' = Append(requests, [slot |-> s, position |-> position[s]])
    <3> DEFINE n == Len(requests)
    <3>1. /\ n \in Nat /\ Len(requests') = n + 1 /\ requests'[n + 1] = [slot |-> s, position |-> position[s]]
          /\ \A k \in 1 .. n : requests'[k] = requests[k]
      BY <2>3, RequestPush
    <3>2. \A k \in 1 .. n + 1 : k \in 1 .. n \/ k = n + 1
      BY <3>1
    <3>3. ASSUME NEW k \in 1 .. Len(requests')
          PROVE  /\ requests'[k].position <= position[requests'[k].slot]
                 /\ armed[requests'[k].slot] <= requests'[k].position
      <4>1. CASE k \in 1 .. n
        BY <3>1, <4>1 DEF OrderInv
      <4>2. CASE k = n + 1
        BY <3>1, <4>2, <1>t DEF OrderInv
      <4> QED
        BY <3>1, <3>2, <3>3, <4>1, <4>2
    <3>4. ASSUME NEW j \in 1 .. Len(requests'), NEW k \in 1 .. Len(requests'), j < k,
                 requests'[j].slot = requests'[k].slot
          PROVE  requests'[j].position <= requests'[k].position
      <4>1. j \in 1 .. n
        BY <3>1, <3>4
      <4>2. CASE k \in 1 .. n
        BY <3>1, <3>4, <4>1, <4>2 DEF OrderInv
      <4>3. CASE k = n + 1
        BY <3>1, <3>4, <4>1, <4>3 DEF OrderInv
      <4> QED
        BY <3>1, <3>2, <3>4, <4>2, <4>3
    <3> QED
      BY <2>1, <3>3, <3>4 DEF OrderInv
  <2> QED
    BY <2>1, <2>2, <2>3
<1>3. CASE Collect
  <2>1. CASE UNCHANGED <<requests, armed>>
    BY <1>3, <2>1 DEF Collect, OrderInv, slotVars
  <2>2. CASE /\ requests # <<>> /\ requests' = Tail(requests)
             /\ armed' = [armed EXCEPT ![Head(requests).slot] = Head(requests).position]
    <3> DEFINE h == requests[1]
    <3>1. /\ UNCHANGED position /\ requests' = Tail(requests)
          /\ armed' = [armed EXCEPT ![Head(requests).slot] = Head(requests).position]
      BY <1>3, <2>2 DEF Collect, slotVars
    <3>2. /\ Len(requests) \in Nat /\ Len(requests) >= 1 /\ Len(requests') = Len(requests) - 1
          /\ Head(requests) = h
          /\ \A k \in 1 .. Len(requests') : k + 1 \in 1 .. Len(requests) /\ requests'[k] = requests[k + 1]
      BY <2>2, <3>1, RequestPop
    <3>3. /\ 1 \in 1 .. Len(requests) /\ h.slot \in Slots /\ h.position \in Nat
          /\ h.position <= position[h.slot]
      BY <3>2, <1>t DEF OrderInv
    <3>4. \A i \in Slots : armed'[i] = IF i = h.slot THEN h.position ELSE armed[i]
      BY <3>1, <3>2, <1>t
    <3>5. \A i \in Slots : armed'[i] <= position'[i]
      BY <3>1, <3>3, <3>4 DEF OrderInv
    <3>6. ASSUME NEW k \in 1 .. Len(requests')
          PROVE  /\ requests'[k].position <= position'[requests'[k].slot]
                 /\ armed'[requests'[k].slot] <= requests'[k].position
      <4>1. k + 1 \in 1 .. Len(requests) /\ requests'[k] = requests[k + 1] /\ 1 < k + 1
        BY <3>2, <3>6
      <4>2. requests[k + 1].slot = h.slot => h.position <= requests[k + 1].position
        BY <3>3, <4>1 DEF OrderInv
      <4>3. /\ requests[k + 1].slot \in Slots
            /\ requests[k + 1].position <= position[requests[k + 1].slot]
            /\ armed[requests[k + 1].slot] <= requests[k + 1].position
        BY <4>1, <1>t DEF OrderInv
      <4> QED
        BY <3>1, <3>4, <4>1, <4>2, <4>3
    <3>7. ASSUME NEW j \in 1 .. Len(requests'), NEW k \in 1 .. Len(requests'), j < k,
                 requests'[j].slot = requests'[k].slot
          PROVE  requests'[j].position <= requests'[k].position
      <4>1. j + 1 < k + 1
        BY <3>2, <3>7
      <4> QED
        BY <3>2, <3>7, <4>1 DEF OrderInv
    <3> QED
      BY <3>5, <3>6, <3>7 DEF OrderInv
  <2> QED
    BY <1>3, <2>1, <2>2 DEF Collect
<1>4. ASSUME NEW i \in Slots, PopDue(i) PROVE OrderInv'
  <2>1. UNCHANGED <<position, requests>> /\ armed' = [armed EXCEPT ![i] = -1]
    BY <1>4 DEF PopDue, slotVars, NoPosition
  <2>2. \A j \in Slots : armed'[j] = IF j = i THEN -1 ELSE armed[j]
    BY <2>1, <1>t
  <2>3. \A j \in Slots : armed'[j] <= position'[j]
    <3>1. \A j \in Slots : armed[j] <= position[j] /\ position[j] \in Nat /\ position'[j] = position[j]
      BY <2>1, <1>t DEF OrderInv
    <3>2. \A x \in Nat : -1 <= x
      OBVIOUS
    <3> QED
      BY <2>2, <3>1, <3>2
  <2>4. \A k \in 1 .. Len(requests) : armed'[requests[k].slot] <= requests[k].position
    BY <2>2, <1>t DEF OrderInv
  <2> QED
    BY <2>1, <2>3, <2>4 DEF OrderInv
<1>5. CASE UNCHANGED <<position, requests, armed>>
  BY <1>5 DEF OrderInv
<1> QED
  BY <1>1, <1>2, <1>3, <1>4, <1>5, MessageFrame, RequestsFrame, ArmedFrame

\* A deadline is handed on: from the callback to the request ring, to the
\* heap, to the watchdog.
LEMMA DeadlineStep ==
  ASSUME TypeOK, TicketInv, GuardInv, PendingInv, AnswerInv, OrderInv, NoLostDeadline, Next
  PROVE  NoLostDeadline'
<1>t. /\ answer_state \in [Slots -> {"pending", "answered", "not_auth"}] /\ occupied \in [Slots -> BOOLEAN]
      /\ cb \in [Callbacks -> [pc : CallbackPcs, msg : {0} \cup Messages, pos : Nat]]
      /\ wd \in [pc : WatchdogPcs, slot : Slots, position : Positions \cup {NoPosition}]
  BY DEF TypeOK, Positions
<1>a. armed \in [Slots -> Int] /\ position \in [Slots -> Nat]
  BY NatTypes
<1> DEFINE Handed(i) ==
      \/ \E c \in Callbacks : cb[c].pc \in {"arm", "unarmed"} /\ cb[c].pos = position[i]
      \/ \E k \in 1 .. Len(requests) : requests[k] = [slot |-> i, position |-> position[i]]
      \/ armed[i] = position[i]
      \/ wd.slot = i /\ wd.position = position[i] /\ wd.pc \in {"check", "enlist", "recheck", "claim"}
<1> SUFFICES ASSUME NEW i \in Slots, occupied'[i], answer_state'[i] = "pending"
             PROVE  Handed(i)'
  BY DEF NoLostDeadline
<1>1. answer_state[i] = "pending"
  <2>1. ASSUME NEW c \in Callbacks, FillSlot(c), CbSlot(c) = i, cb[c].pc = "fill" PROVE FALSE
    <3>1. occupied[i]
      BY <2>1 DEF FillSlot
    <3>2. InUse(i)
      BY <3>1 DEF GuardInv, OccupiedInv, InUse, Occupying, OccupiedPcs, FilledPcs
    <3> QED
      BY <2>1, <3>2, FillNotInUse
  <2> QED
    BY <2>1, NewPending
<1>2. InUse(i) /\ message[i] \in Auth
  BY <1>1, OpenInUse DEF Open, AnswerInv
<1>3. \A c \in Callbacks : ~(FillSlot(c) /\ CbSlot(c) = i)
  BY <1>2, FillNotInUse DEF FillSlot
<1>4. position'[i] = position[i]
  <2>1. ASSUME NEW c \in Callbacks, FillSlot(c), CbSlot(c) # i PROVE position'[i] = position[i]
    BY <2>1, <1>a DEF FillSlot
  <2> QED
    BY <2>1, <1>3, MessageFrame
<1>5. SlotOf(position[i]) = i
  BY <1>2 DEF InUse, Live, TicketInv, CbSlot
<1>6. CASE ~occupied[i]
  <2>1. ~Flush /\ ~CloseDrainOne
    <3>1. Flush \/ CloseDrainOne =>
            UNCHANGED occupied \/ \E s : occupied' = [occupied EXCEPT ![s] = FALSE]
      BY DEF Flush, CloseDrainOne
    <3> QED
      BY <1>6, <3>1, <1>t
  <2>2. PICK c \in Callbacks : Occupy(c)
    BY <1>6, <2>1, OccupiedFrame
  <2>3. /\ cb[c].pc = "occupy" /\ occupied' = [occupied EXCEPT ![CbSlot(c)] = TRUE]
        /\ cb' = [cb EXCEPT ![c].pc = IF cb[c].msg \in Auth THEN "arm" ELSE "publish"]
    BY <2>2 DEF Occupy, CbGoto
  <2>4. CbSlot(c) = i
    BY <1>6, <2>3, <1>t
  <2>5. position[i] = cb[c].pos /\ message[i] = cb[c].msg
    BY <2>3, <2>4 DEF TicketInv, FilledPcs
  <2>6. cb'[c].pc = "arm" /\ cb'[c].pos = position'[i]
    BY <1>2, <1>4, <2>3, <2>5, CallbackUpdate
  <2> QED
    BY <2>6
<1>7. CASE occupied[i]
  <2>1. ASSUME NEW c \in Callbacks, cb[c].pc \in {"arm", "unarmed"}, cb[c].pos = position[i]
        PROVE  Handed(i)'
    <3>1. CbSlot(c) = i
      BY <1>5, <2>1 DEF CbSlot
    <3>2. CASE Arm(c)
      <4>1. CASE requests' = Append(requests, [slot |-> i, position |-> position[i]])
        <5>1. /\ Len(requests) \in Nat /\ Len(requests') = Len(requests) + 1
              /\ requests'[Len(requests) + 1] = [slot |-> i, position |-> position[i]]
          BY <4>1, RequestPush
        <5>2. Len(requests) + 1 \in 1 .. Len(requests')
          BY <5>1
        <5> QED
          BY <1>4, <5>1, <5>2
      <4>2. CASE cb' = [cb EXCEPT ![c].pc = "unarmed"]
        <5>1. cb'[c].pc = "unarmed" /\ cb'[c].pos = position'[i]
          BY <1>4, <2>1, <4>2, CallbackUpdate
        <5> QED
          BY <5>1
      <4> QED
        BY <3>1, <3>2, <4>1, <4>2 DEF Arm, CbGoto
    <3>3. ~AnswerUnarmed(c)
      <4>1. AnswerUnarmed(c) => ClaimAnswer(i)
        BY <1>1, <3>1 DEF AnswerUnarmed
      <4> QED
        BY <4>1, <1>t DEF ClaimAnswer
    <3>4. CASE ~Arm(c)
      <4>1. ~HandleMessage(c) /\ ~Callback(c)
        BY <2>1, <3>3, <3>4 DEF HandleMessage, Callback, CheckClosed, RejectClosed, Enqueue, EnqueueFull,
           AnswerFull, FillSlot, Occupy, SendUnarmed, PublishSlot, NotifyQueued, LeaveHandler
      <4>2. cb'[c] = cb[c]
        BY <4>1, CallbackSteps
      <4> QED
        BY <1>4, <2>1, <4>2
    <3> QED
      BY <3>2, <3>4
  <2>2. ASSUME NEW k \in 1 .. Len(requests), requests[k] = [slot |-> i, position |-> position[i]]
        PROVE  Handed(i)'
    <3>1. CASE UNCHANGED requests
      BY <1>4, <2>2, <3>1
    <3>2. ASSUME NEW c \in Callbacks, Arm(c), requests' # requests PROVE Handed(i)'
      <4>1. requests' = Append(requests, [slot |-> CbSlot(c), position |-> position[CbSlot(c)]])
        BY <3>2 DEF Arm
      <4>2. /\ Len(requests) \in Nat /\ Len(requests') = Len(requests) + 1
            /\ requests'[k] = requests[k]
        BY <2>2, <4>1, RequestPush
      <4>3. k \in 1 .. Len(requests')
        BY <2>2, <4>2
      <4> QED
        BY <1>4, <2>2, <4>2, <4>3
    <3>3. CASE Collect /\ requests' # requests
      <4>1. /\ requests # <<>> /\ requests' = Tail(requests)
            /\ armed' = [armed EXCEPT ![Head(requests).slot] = Head(requests).position]
        BY <3>3 DEF Collect
      <4>2. /\ Len(requests) \in Nat /\ Len(requests') = Len(requests) - 1 /\ Head(requests) = requests[1]
            /\ \A l \in 1 .. Len(requests') : requests'[l] = requests[l + 1]
        BY <4>1, RequestPop
      <4>3. CASE k = 1
        <5>1. armed'[i] = position[i]
          BY <2>2, <4>1, <4>2, <4>3, <1>a
        <5> QED
          BY <1>4, <5>1
      <4>4. CASE k # 1
        <5>1. k - 1 \in 1 .. Len(requests') /\ (k - 1) + 1 = k
          BY <2>2, <4>2, <4>4
        <5>2. requests'[k - 1] = requests[k]
          BY <4>2, <5>1
        <5> QED
          BY <1>4, <2>2, <5>1, <5>2
      <4> QED
        BY <4>3, <4>4
    <3> QED
      BY <3>1, <3>2, <3>3, RequestsFrame
  <2>3. ASSUME armed[i] = position[i] PROVE Handed(i)'
    <3>1. CASE UNCHANGED armed
      BY <1>4, <2>3, <3>1
    <3>2. CASE Collect /\ armed' # armed
      <4>1. /\ requests # <<>> /\ requests' = Tail(requests)
            /\ armed' = [armed EXCEPT ![Head(requests).slot] = Head(requests).position]
        BY <3>2 DEF Collect
      <4>2. Head(requests) = requests[1] /\ 1 \in 1 .. Len(requests)
        BY <4>1, RequestPop
      <4>3. CASE Head(requests).slot = i
        <5>1. requests[1].position <= position[i] /\ position[i] <= requests[1].position
          BY <2>3, <4>2, <4>3 DEF OrderInv
        <5>2. requests[1].position \in Nat /\ position[i] \in Nat
          BY <4>2, <1>a, RequestType
        <5>3. requests[1].position = position[i]
          BY <5>1, <5>2
        <5>4. armed'[i] = position[i]
          BY <4>1, <4>2, <4>3, <5>3, <1>a
        <5> QED
          BY <1>4, <5>4
      <4>4. CASE Head(requests).slot # i
        <5>1. armed'[i] = armed[i]
          BY <4>1, <4>4, <1>a
        <5> QED
          BY <1>4, <2>3, <5>1
      <4> QED
        BY <4>3, <4>4
    <3>3. ASSUME NEW j \in Slots, PopDue(j) PROVE Handed(i)'
      <4>1. /\ armed' = [armed EXCEPT ![j] = NoPosition]
            /\ wd' = [pc |-> "check", slot |-> j, position |-> armed[j]]
        BY <3>3 DEF PopDue
      <4>2. CASE j = i
        <5>1. wd'.slot = i /\ wd'.position = position'[i] /\ wd'.pc = "check"
          BY <1>4, <2>3, <4>1, <4>2
        <5> QED
          BY <5>1
      <4>3. CASE j # i
        <5>1. armed'[i] = armed[i]
          BY <4>1, <4>3, <1>a
        <5> QED
          BY <1>4, <2>3, <5>1
      <4> QED
        BY <4>2, <4>3
    <3> QED
      BY <3>1, <3>2, <3>3, ArmedFrame
  <2>4. ASSUME wd.slot = i, wd.position = position[i], wd.pc \in {"check", "enlist", "recheck", "claim"}
        PROVE  Handed(i)'
    <3>1. wd'.slot = i /\ wd'.position = position[i] /\ wd'.pc \in {"check", "enlist", "recheck", "claim"}
      <4>1. CASE UNCHANGED <<readers, wd>>
        BY <2>4, <4>1
      <4>2. CASE CheckOccupied \/ Enlist \/ Recheck
        BY <1>7, <2>4, <4>2, <1>t DEF CheckOccupied, Enlist, Recheck, WdGoto
      <4>3. ~ClaimDue
        BY <1>1, <2>4, <1>t DEF ClaimDue, ClaimAnswer
      <4>4. /\ ~WatchdogLoop /\ ~Collect /\ ~Sleep /\ ~SendDue /\ ~Resign /\ ~DeleteClient
            /\ \A j \in Slots : ~PopDue(j)
        BY <2>4 DEF WatchdogLoop, Collect, Sleep, SendDue, Resign, DeleteClient, PopDue
      <4> QED
        BY <4>1, <4>2, <4>3, <4>4, ReadersFrame DEF WatchSteps
    <3> QED
      BY <1>4, <3>1
  <2>5. Handed(i)
    BY <1>1, <1>7 DEF NoLostDeadline
  <2> QED
    BY <2>1, <2>2, <2>3, <2>4, <2>5
<1> QED
  BY <1>6, <1>7

-----------------------------------------------------------------------------
(***************************************************************************)
(* Counters and the wakeup.                                                *)
(***************************************************************************)
LEMMA CountStep ==
  ASSUME TypeOK, TicketInv, GuardInv, PendingInv, ExclusiveInv, StopInv, AnswerInv, CountInv, Next
  PROVE  CountInv'
<1>t. /\ cb \in [Callbacks -> [pc : CallbackPcs, msg : {0} \cup Messages, pos : Nat]]
      /\ responses \in [Messages -> Nat]
  BY DEF TypeOK, Positions
<1>n. /\ arrived \in Nat /\ enqueue_position \in Nat /\ dequeue_position \in Nat /\ dropped \in Nat
      /\ delivered \in Nat /\ timeouts \in Nat
  BY DeliveryAssumption DEF TypeOK, Positions
<1>f. /\ IsFiniteSet(Entering) /\ Cardinality(Entering) \in Nat
      /\ IsFiniteSet(Entering') /\ Cardinality(Entering') \in Nat
  <2>1. Entering \subseteq Callbacks /\ Entering' \subseteq Callbacks
    BY DEF Entering
  <2> QED
    BY <2>1, DeliveryAssumption, FS_Subset, FS_CardinalityType
<1>1. enqueue_position' + dropped' + Cardinality(Entering)' <= arrived'
  <2>0. enqueue_position + dropped + Cardinality(Entering) <= arrived /\ Cardinality(Entering)' = Cardinality(Entering')
    BY DEF CountInv
  <2>1. ASSUME NEW c \in Callbacks, HandleMessage(c)
        PROVE  enqueue_position' + dropped' + Cardinality(Entering)' <= arrived'
    <3>1. /\ cb[c].pc = "idle" /\ cb'[c].pc = "check" /\ \A d \in Callbacks : d # c => cb'[d] = cb[d]
          /\ arrived' = arrived + 1 /\ UNCHANGED <<enqueue_position, dropped>>
      BY <2>1, <1>t DEF HandleMessage, ringVars, statVars
    <3>2. Entering' = Entering \cup {c} /\ c \notin Entering
      BY <3>1 DEF Entering, EntryPcs
    <3>3. Cardinality(Entering \cup {c}) = Cardinality(Entering) + 1
      BY <3>2, <1>f, FS_AddElement
    <3> QED
      BY <2>0, <3>1, <3>2, <3>3, <1>n, <1>f
  <2>2. ASSUME NEW c \in Callbacks, RejectClosed(c) \/ Enqueue(c) \/ AnswerFull(c)
        PROVE  enqueue_position' + dropped' + Cardinality(Entering)' <= arrived'
    <3>1. /\ cb[c].pc \in EntryPcs /\ cb'[c].pc \notin EntryPcs /\ \A d \in Callbacks : d # c => cb'[d] = cb[d]
      BY <2>2, <1>t DEF RejectClosed, Enqueue, AnswerFull, CbGoto, EntryPcs
    <3>2. Entering' = Entering \ {c} /\ c \in Entering
      BY <3>1 DEF Entering
    <3>3. Cardinality(Entering \ {c}) = Cardinality(Entering) - 1
      BY <3>2, <1>f, FS_RemoveElement
    <3>4. /\ UNCHANGED arrived
          /\ \/ enqueue_position' = enqueue_position /\ dropped' = dropped
             \/ enqueue_position' = enqueue_position + 1 /\ dropped' = dropped
             \/ enqueue_position' = enqueue_position /\ dropped' = dropped + 1
      BY <2>2 DEF RejectClosed, Enqueue, AnswerFull, Claim, ringVars, statVars, esVars
    <3> QED
      BY <2>0, <3>2, <3>3, <3>4, <1>n, <1>f
  <2>3. CASE \A c \in Callbacks : ~HandleMessage(c) /\ ~RejectClosed(c) /\ ~Enqueue(c) /\ ~AnswerFull(c)
    <3>1. UNCHANGED <<enqueue_position, dropped, arrived>>
      BY <2>3, PositionFrame, StatFrame, ArrivedFrame
    <3>2. ASSUME NEW c \in Callbacks PROVE cb'[c].pc \in EntryPcs <=> cb[c].pc \in EntryPcs
      <4>1. CASE cb'[c] = cb[c]
        BY <4>1
      <4>2. CASE Callback(c)
        BY <2>3, <4>2, <1>t DEF Callback, CheckClosed, EnqueueFull, FillSlot, Occupy, Arm, AnswerUnarmed,
           SendUnarmed, PublishSlot, NotifyQueued, LeaveHandler, IdleCallback, CbGoto, EntryPcs
      <4> QED
        BY <2>3, <4>1, <4>2, CallbackSteps
    <3>3. Entering' = Entering
      BY <3>2 DEF Entering
    <3> QED
      BY <2>0, <3>1, <3>3
  <2> QED
    BY <2>1, <2>2, <2>3
<1>2. delivered' <= dequeue_position'
  <2>1. CASE DrainOne
    <3>1. delivered' = delivered + 1 /\ dequeue_position' = dequeue_position + 1
      BY <2>1 DEF DrainOne, Take
    <3> QED
      BY <3>1, <1>n DEF CountInv
  <2>2. CASE ~DrainOne
    <3>1. delivered' = delivered /\ (dequeue_position' = dequeue_position \/ dequeue_position' = dequeue_position + 1)
      BY <2>2, StatFrame, PositionFrame DEF CloseDrainOne
    <3> QED
      BY <3>1, <1>n DEF CountInv
  <2> QED
    BY <2>1, <2>2
<1>3. timeouts' <= Cardinality(Answered)'
  <2>0. IsFiniteSet(Messages)
    BY DeliveryAssumption, FS_Interval DEF Messages
  <2>1. /\ IsFiniteSet(Answered) /\ Cardinality(Answered) \in Nat
        /\ IsFiniteSet(Answered') /\ Cardinality(Answered') \in Nat
    <3>1. Answered \subseteq Messages /\ Answered' \subseteq Messages
      BY DEF Answered
    <3> QED
      BY <2>0, <3>1, FS_Subset, FS_CardinalityType
  <2>2. Answered \subseteq Answered'
    <3>1. ASSUME NEW m \in Messages, responses[m] > 0 PROVE responses'[m] > 0
      <4>1. responses'[m] = responses[m] \/ responses'[m] = responses[m] + 1
        BY Answering
      <4>2. responses[m] \in Nat
        BY <1>t
      <4> QED
        BY <3>1, <4>1, <4>2
    <3> QED
      BY <3>1 DEF Answered
  <2>3. Cardinality(Answered) <= Cardinality(Answered')
    BY <2>1, <2>2, FS_Subset
  <2>4. timeouts <= Cardinality(Answered) /\ Cardinality(Answered)' = Cardinality(Answered')
    BY DEF CountInv
  <2>5. CASE ~SendDue
    <3>1. timeouts' = timeouts
      BY <2>5, StatFrame
    <3> QED
      BY <2>1, <2>3, <2>4, <3>1, <1>n
  <2>6. CASE SendDue
    <3>1. PICK i \in Slots : i = wd.slot
      BY SlotIndices
    <3>2. Answers(i) /\ timeouts' = timeouts + 1
      BY <2>6, <3>1 DEF Answers, SendDue
    <3>3. message[i] \in Messages /\ responses[message[i]] = 0
      BY <3>2, OpenStep, DeliveryAssumption DEF AnswerInv
    <3>4. responses'[message[i]] = 1
      BY <3>2, <3>3, Answering
    <3>5. Answered \cup {message[i]} \subseteq Answered' /\ message[i] \notin Answered
      BY <2>2, <3>3, <3>4 DEF Answered
    <3>6. Cardinality(Answered \cup {message[i]}) = Cardinality(Answered) + 1
      BY <2>1, <3>5, FS_AddElement
    <3>7. Cardinality(Answered \cup {message[i]}) <= Cardinality(Answered')
      BY <2>1, <3>5, FS_Subset
    <3> QED
      BY <2>1, <2>4, <3>2, <3>6, <3>7, <1>n
  <2> QED
    BY <2>5, <2>6
<1> QED
  BY <1>1, <1>2, <1>3 DEF CountInv

\* A byte that nobody will write is never promised: notified and the pipe
\* agree.
LEMMA WakeupStep ==
  ASSUME TypeOK, WakeupNeverStuck, Next
  PROVE  WakeupNeverStuck'
<1>t. /\ Len(buffered) \in Nat /\ buffered \in Seq([cell : {"occupied", "notified"}, slot : Slots])
      /\ rb \in [pc : RubyPcs, slot : Slots] /\ notified \in BOOLEAN /\ pipe \in BOOLEAN
  BY DEF TypeOK
<1>l. \A x : Len(Append(buffered, x)) = Len(buffered) + 1 /\ Append(buffered, x)[Len(buffered) + 1] = x
             /\ \A k \in 1 .. Len(buffered) : Append(buffered, x)[k] = buffered[k]
  BY <1>t
<1> DEFINE Cleared == \E k \in 1 .. Len(buffered) : buffered[k].cell = "notified"
<1> SUFFICES ASSUME notified', ~pipe'
             PROVE  rb'.pc = "drain" \/ Cleared'
  BY DEF WakeupNeverStuck
<1>1. CASE Flush
  <2>1. /\ buffered # <<>> /\ buffered' = Tail(buffered) /\ Head(buffered).cell = "occupied"
        /\ UNCHANGED <<pipe, rb, notified>>
    BY <1>1 DEF Flush
  <2>2. /\ Len(buffered) >= 1 /\ Head(buffered) = buffered[1] /\ Len(buffered') = Len(buffered) - 1
        /\ \A k \in 1 .. Len(buffered') : buffered'[k] = buffered[k + 1]
    BY <2>1, <1>t
  <2>3. ASSUME NEW k \in 1 .. Len(buffered), buffered[k].cell = "notified" PROVE Cleared'
    <3>1. k # 1 /\ k - 1 \in 1 .. Len(buffered') /\ (k - 1) + 1 = k
      BY <2>1, <2>2, <2>3, <1>t
    <3>2. buffered'[k - 1] = buffered[k]
      BY <2>2, <3>1
    <3> QED
      BY <2>3, <3>1, <3>2
  <2> QED
    BY <2>1, <2>3 DEF WakeupNeverStuck
<1>2. CASE StartDrain
  BY <1>2 DEF StartDrain, RbStart
<1>3. CASE ~Flush /\ ~StartDrain
  <2>1. notified /\ ~pipe
    <3>1. CASE UNCHANGED <<notified, pipe>>
      BY <3>1
    <3>2. ASSUME Notify PROVE notified /\ ~pipe
      BY <3>2, <1>t DEF Notify
    <3> QED
      BY <1>3, <3>1, <3>2, WakeFrame DEF NotifyLeft, CloseJoin, SendDue, NotifyQueued
  <2>2. CASE rb.pc = "drain"
    <3>1. CASE EndDrain
      <4>1. buffered' = Append(buffered, [cell |-> "notified", slot |-> 0])
        BY <3>1 DEF EndDrain, BufferFalse
      <4>2. Len(buffered) + 1 \in 1 .. Len(buffered') /\ buffered'[Len(buffered) + 1].cell = "notified"
        BY <4>1, <1>l, <1>t
      <4> QED
        BY <4>2
    <3>2. CASE ~EndDrain
      <4>1. UNCHANGED rb
        <5>1. RubyStarts \/ RubyContinues => DrainOne
          BY <2>2, <3>2 DEF RubyStarts, RubyContinues, StartDrain, CheckDepth, NotifyLeft, Respond,
             SendResponse, ReleaseMessage, SendDefault, Disarm, DisarmWait, FreeMessage, RecycleSlot,
             Close, CloseCallbacks, CloseWatchdog, CloseAnswer, CloseDrainOne, CloseDrained, CloseJoin,
             RbStart
        <5> QED
          BY <5>1, RubyFrame DEF DrainOne
      <4> QED
        BY <2>2, <4>1
    <3> QED
      BY <3>1, <3>2
  <2>3. ASSUME NEW k \in 1 .. Len(buffered), buffered[k].cell = "notified" PROVE Cleared'
    <3>1. UNCHANGED buffered \/ \E x : buffered' = Append(buffered, x)
      BY <1>3, BufferFrame DEF EndDrain, Disarm, BufferFalse
    <3>2. k \in 1 .. Len(buffered') /\ buffered'[k] = buffered[k]
      BY <2>3, <3>1, <1>l, <1>t
    <3> QED
      BY <2>3, <3>2
  <2> QED
    BY <2>1, <2>2, <2>3 DEF WakeupNeverStuck
<1> QED
  BY <1>1, <1>2, <1>3

-----------------------------------------------------------------------------
(***************************************************************************)
(* Types.                                                                  *)
(***************************************************************************)

\* The ring and the slots.  The bounds on the counters come from CountInv.
LEMMA SlotTypes ==
  ASSUME TypeOK, TicketInv', ReadersInv', CountInv', Next
  PROVE  /\ sequence' \in [Slots -> 0 .. MessageCount + Capacity]
         /\ enqueue_position' \in Positions /\ dequeue_position' \in Positions
         /\ position' \in [Slots -> Positions]
         /\ message' \in [Slots -> {0} \cup Messages]
         /\ answer_state' \in [Slots -> {"pending", "answered", "not_auth"}]
         /\ occupied' \in [Slots -> BOOLEAN]
         /\ readers' \in [Slots -> {0, 1}]
         /\ arrived' \in 0 .. MessageCount
         /\ dropped' \in 0 .. MessageCount /\ delivered' \in 0 .. MessageCount
<1>c. /\ Capacity \in Nat /\ Capacity >= 2 /\ MessageCount \in Nat
      /\ Auth \subseteq Messages
  BY CapacityAssumption, DeliveryAssumption
<1>i. /\ rb.slot \in Slots /\ wd.slot \in Slots /\ SlotOf(dequeue_position) \in Slots
      /\ \A c \in Callbacks : CbSlot(c) \in Slots
  BY SlotIndices
<1>k. \A c \in Callbacks : cb[c].pos \in Positions /\ cb[c].msg \in {0} \cup Messages
  BY DEF TypeOK
<1>1. arrived' \in 0 .. MessageCount
  <2>1. arrived \in 0 .. MessageCount
    BY DEF TypeOK
  <2>2. ASSUME NEW c \in Callbacks, HandleMessage(c) PROVE arrived' \in Messages
    BY <2>2 DEF HandleMessage
  <2> QED
    BY ArrivedFrame, <1>c, <2>1, <2>2 DEF Messages
<1>2. enqueue_position' \in Nat /\ dequeue_position' \in Nat /\ dropped' \in Nat /\ delivered' \in Nat
  <2>0. enqueue_position \in Nat /\ dequeue_position \in Nat /\ dropped \in Nat /\ delivered \in Nat
    BY <1>c DEF TypeOK, Positions
  <2>1. enqueue_position' = enqueue_position \/ enqueue_position' = enqueue_position + 1
    <3>1. \A c \in Callbacks : Enqueue(c) => enqueue_position' = enqueue_position + 1
      BY DEF Enqueue, Claim
    <3> QED
      BY <3>1, PositionFrame
  <2>2. dequeue_position' = dequeue_position \/ dequeue_position' = dequeue_position + 1
    BY PositionFrame DEF DrainOne, Take, CloseDrainOne
  <2>3. dropped' = dropped \/ dropped' = dropped + 1
    <3>1. \A c \in Callbacks : AnswerFull(c) => dropped' = dropped + 1
      BY DEF AnswerFull
    <3> QED
      BY <3>1, StatFrame
  <2>4. delivered' = delivered \/ delivered' = delivered + 1
    BY StatFrame DEF DrainOne
  <2> QED
    BY <2>0, <2>1, <2>2, <2>3, <2>4
<1>3. /\ enqueue_position' \in 0 .. MessageCount /\ dequeue_position' \in 0 .. MessageCount
      /\ dropped' \in 0 .. MessageCount /\ delivered' \in 0 .. MessageCount
  <2>1. Cardinality(Entering') \in Nat
    <3>1. Entering' \subseteq Callbacks
      BY DEF Entering
    <3> QED
      BY <3>1, DeliveryAssumption, FS_Subset, FS_CardinalityType
  <2>2. /\ enqueue_position' + dropped' + Cardinality(Entering') <= arrived'
        /\ delivered' <= dequeue_position' /\ dequeue_position' <= enqueue_position'
    BY DEF CountInv, TicketInv
  <2> QED
    BY <2>1, <2>2, <1>1, <1>2, <1>c
<1>4. position' \in [Slots -> Positions] /\ message' \in [Slots -> {0} \cup Messages]
  <2>1. ASSUME NEW c \in Callbacks, FillSlot(c)
        PROVE  position' \in [Slots -> Positions] /\ message' \in [Slots -> {0} \cup Messages]
    BY <2>1, <1>k DEF FillSlot, TypeOK
  <2> QED
    BY <2>1, MessageFrame DEF TypeOK
<1>5. sequence' \in [Slots -> 0 .. MessageCount + Capacity]
  <2>1. ASSUME NEW s \in Slots, NEW v \in 0 .. MessageCount + Capacity, sequence' = [sequence EXCEPT ![s] = v]
        PROVE  sequence' \in [Slots -> 0 .. MessageCount + Capacity]
    BY <2>1 DEF TypeOK
  <2>2. \A s \in Slots : /\ position[s] + 1 \in 0 .. MessageCount + Capacity
                         /\ position[s] + Capacity \in 0 .. MessageCount + Capacity
    <3>1. \A s \in Slots : position[s] \in 0 .. MessageCount
      BY DEF TypeOK, Positions
    <3> QED
      BY <3>1, <1>c
  <2>3. ASSUME NEW c \in Callbacks, PublishSlot(c)
        PROVE  sequence' \in [Slots -> 0 .. MessageCount + Capacity]
    BY <2>1, <2>2, <2>3, <1>i DEF PublishSlot, PublishedSequence
  <2>4. CASE RecycleSlot
    BY <2>1, <2>2, <2>4, <1>i DEF RecycleSlot, GiveSlotBack, ReleasedSequence
  <2>5. CASE CloseDrainOne
    BY <2>1, <2>2, <2>5, <1>i DEF CloseDrainOne, ReleasedSequence
  <2>6. CASE UNCHANGED sequence
    BY <2>6 DEF TypeOK
  <2> QED
    BY <2>3, <2>4, <2>5, <2>6, PositionFrame
<1>6. answer_state' \in [Slots -> {"pending", "answered", "not_auth"}]
  <2>0. answer_state \in [Slots -> {"pending", "answered", "not_auth"}]
    BY DEF TypeOK
  <2>1. ASSUME NEW s \in Slots, ClaimAnswer(s)
        PROVE  answer_state' \in [Slots -> {"pending", "answered", "not_auth"}]
    BY <2>0, <2>1 DEF ClaimAnswer
  <2>2. ASSUME NEW c \in Callbacks, FillSlot(c)
        PROVE  answer_state' \in [Slots -> {"pending", "answered", "not_auth"}]
    BY <2>0, <2>2 DEF FillSlot
  <2>3. ASSUME NEW c \in Callbacks, AnswerUnarmed(c)
        PROVE  answer_state' \in [Slots -> {"pending", "answered", "not_auth"}]
    BY <2>0, <2>1, <2>3, <1>i DEF AnswerUnarmed
  <2>4. CASE ClaimDue \/ CloseAnswer \/ CloseDrainOne
    BY <2>0, <2>1, <2>4, <1>i DEF ClaimDue, CloseAnswer, CloseDrainOne, AnswerSlot
  <2>5. ASSUME NEW s \in Slots, Respond(s) \/ ReleaseMessage(s)
        PROVE  answer_state' \in [Slots -> {"pending", "answered", "not_auth"}]
    BY <2>0, <2>1, <2>5 DEF Respond, ReleaseMessage
  <2> QED
    BY <2>0, <2>2, <2>3, <2>4, <2>5, AnswerFrame
<1>7. occupied' \in [Slots -> BOOLEAN]
  <2>0. occupied \in [Slots -> BOOLEAN]
    BY DEF TypeOK
  <2>1. UNCHANGED occupied \/ Flush \/ \E s \in Slots, v \in BOOLEAN : occupied' = [occupied EXCEPT ![s] = v]
    BY <1>i, OccupiedFrame DEF CloseDrainOne, Occupy
  <2>2. CASE Flush
    <3>1. UNCHANGED occupied \/ occupied' = [occupied EXCEPT ![Head(buffered).slot] = FALSE]
      BY <2>2 DEF Flush
    <3> QED
      BY <2>0, <3>1
  <2> QED
    BY <2>0, <2>1, <2>2
<1>8. readers' \in [Slots -> {0, 1}]
  <2>1. DOMAIN readers' = Slots /\ readers' = [i \in Slots |-> readers'[i]]
    <3>1. readers \in [Slots -> {0, 1}]
      BY DEF TypeOK
    <3>2. UNCHANGED readers \/ \E s, v : readers' = [readers EXCEPT ![s] = v]
      BY ReadersFrame DEF WatchSteps, WatchdogLoop, Collect, Sleep, CheckOccupied, Enlist, Recheck, ClaimDue,
         SendDue, Resign, DeleteClient, PopDue, slotVars
    <3> QED
      BY <3>1, <3>2
  <2>2. \A i \in Slots : readers'[i] \in {0, 1}
    BY DEF ReadersInv
  <2> QED
    BY <2>1, <2>2
<1> QED
  BY <1>1, <1>3, <1>4, <1>5, <1>6, <1>7, <1>8 DEF Positions

\* The flags and counters of the client.
LEMMA ClientTypes ==
  ASSUME TypeOK, ActiveInv', CountInv', Next
  PROVE  /\ closed' \in BOOLEAN /\ watchdog_running' \in BOOLEAN /\ watchdog_stopped' \in BOOLEAN
         /\ delete_ready' \in BOOLEAN /\ deleted' \in BOOLEAN
         /\ active_callbacks' \in 0 .. Cardinality(Callbacks)
         /\ notified' \in BOOLEAN /\ pipe' \in BOOLEAN
         /\ timeouts' \in 0 .. MessageCount
         /\ delete_errors' \in 0 .. MaxDeleteErrors
<1>1. /\ closed' \in BOOLEAN /\ watchdog_running' \in BOOLEAN /\ watchdog_stopped' \in BOOLEAN
      /\ delete_ready' \in BOOLEAN
  <2>1. closed' \in BOOLEAN
    BY LifeFrame DEF TypeOK, Close
  <2>2. watchdog_running' \in BOOLEAN
    BY LifeFrame DEF TypeOK, CloseCallbacks
  <2>3. watchdog_stopped' \in BOOLEAN
    BY LifeFrame DEF TypeOK, WatchdogLoop
  <2>4. delete_ready' \in BOOLEAN
    BY LifeFrame DEF TypeOK, CloseDrained
  <2> QED
    BY <2>1, <2>2, <2>3, <2>4
<1>2. deleted' \in BOOLEAN /\ delete_errors' \in 0 .. MaxDeleteErrors
  <2>0. deleted \in BOOLEAN /\ delete_errors \in 0 .. MaxDeleteErrors /\ MaxDeleteErrors \in Nat
    BY DeliveryAssumption DEF TypeOK
  <2>1. CASE DeleteClient
    <3>1. deleted' = TRUE \/ deleted' = deleted
      BY <2>1 DEF DeleteClient
    <3>2. delete_errors' = delete_errors
          \/ (delete_errors < MaxDeleteErrors /\ delete_errors' = delete_errors + 1)
      BY <2>1 DEF DeleteClient
    <3>3. delete_errors' \in 0 .. MaxDeleteErrors
      BY <2>0, <3>2
    <3>4. deleted' \in BOOLEAN
      BY <2>0, <3>1
    <3> QED
      BY <3>3, <3>4
  <2> QED
    BY <2>0, <2>1, StatFrame
<1>3. active_callbacks' \in 0 .. Cardinality(Callbacks)
  <2> DEFINE A == {c \in Callbacks : cb'[c].pc # "idle"}
  <2>1. active_callbacks' = Cardinality(A)
    BY DEF ActiveInv
  <2>2. A \subseteq Callbacks
    OBVIOUS
  <2>3. /\ Cardinality(A) \in Nat /\ Cardinality(Callbacks) \in Nat
        /\ Cardinality(A) <= Cardinality(Callbacks)
    <3> HIDE DEF A
    <3> QED
      BY <2>2, DeliveryAssumption, FS_Subset, FS_CardinalityType
  <2> HIDE DEF A
  <2> QED
    BY <2>1, <2>3
<1>4. notified' \in BOOLEAN /\ pipe' \in BOOLEAN
  <2>0. notified \in BOOLEAN /\ pipe \in BOOLEAN
    BY DEF TypeOK
  <2>1. CASE Flush
    BY <2>0, <2>1 DEF Flush
  <2>2. CASE StartDrain
    BY <2>0, <2>2 DEF StartDrain
  <2>3. CASE Notify
    BY <2>0, <2>3 DEF Notify
  <2> QED
    BY <2>0, <2>1, <2>2, <2>3, WakeFrame DEF NotifyLeft, CloseJoin, SendDue, NotifyQueued
<1>5. timeouts' \in 0 .. MessageCount
  <2>1. timeouts' \in Nat
    BY StatFrame, DeliveryAssumption DEF TypeOK, SendDue
  <2>2. /\ IsFiniteSet(Messages) /\ Cardinality(Messages) = MessageCount /\ MessageCount \in Nat
    <3>1. MessageCount \in Nat
      BY DeliveryAssumption
    <3>2. IsFiniteSet(1 .. MessageCount) /\ Cardinality(1 .. MessageCount) = MessageCount
      BY <3>1, FS_Interval
    <3> QED
      BY <3>1, <3>2 DEF Messages
  <2>3. Answered' \subseteq Messages
    BY DEF Answered
  <2>4. /\ Cardinality(Answered') \in Nat /\ Cardinality(Answered') <= MessageCount
    BY <2>2, <2>3, FS_Subset, FS_CardinalityType
  <2>5. timeouts' <= Cardinality(Answered')
    BY DEF CountInv
  <2> QED
    BY <2>1, <2>2, <2>4, <2>5
<1> QED
  BY <1>1, <1>2, <1>3, <1>4, <1>5

\* The threads, and what lies between them.
LEMMA ThreadTypes ==
  ASSUME TypeOK, Next
  PROVE  /\ requests' \in Seq([slot : Slots, position : Positions]) /\ Len(requests') <= Capacity
         /\ armed' \in [Slots -> Positions \cup {NoPosition}]
         /\ cb' \in [Callbacks -> [pc : CallbackPcs, msg : {0} \cup Messages, pos : Positions]]
         /\ wd' \in [pc : WatchdogPcs, slot : Slots, position : Positions \cup {NoPosition}]
         /\ rb' \in [pc : RubyPcs, slot : Slots]
         /\ wrapper' \in [Slots -> BOOLEAN]
         /\ buffered' \in Seq([cell : {"occupied", "notified"}, slot : Slots])
<1>i. /\ rb.slot \in Slots /\ wd.slot \in Slots /\ SlotOf(dequeue_position) \in Slots /\ 0 \in Slots
      /\ \A c \in Callbacks : CbSlot(c) \in Slots /\ position[CbSlot(c)] \in Positions
      /\ \A i \in Slots : position[i] \in Positions
      /\ Capacity \in Nat
  <2>1. /\ rb.slot \in Slots /\ wd.slot \in Slots /\ SlotOf(dequeue_position) \in Slots
        /\ \A c \in Callbacks : CbSlot(c) \in Slots
    BY SlotIndices
  <2>2. \A i \in Slots : position[i] \in Positions
    BY DEF TypeOK
  <2>3. Capacity \in Nat /\ 0 \in Slots
    BY CapacityAssumption DEF Slots
  <2> QED
    BY <2>1, <2>2, <2>3
<1>1. requests' \in Seq([slot : Slots, position : Positions]) /\ Len(requests') <= Capacity
  <2>0. PICK S : S = [slot : Slots, position : Positions]
    OBVIOUS
  <2>1. requests \in Seq(S) /\ Len(requests) \in Nat /\ Len(requests) <= Capacity
    BY <2>0 DEF TypeOK
  <2>2. ASSUME NEW c \in Callbacks, Arm(c) PROVE requests' \in Seq(S) /\ Len(requests') <= Capacity
    <3>1. \/ UNCHANGED requests
          \/ /\ Len(requests) < Capacity
             /\ requests' = Append(requests, [slot |-> CbSlot(c), position |-> position[CbSlot(c)]])
      BY <2>2 DEF Arm
    <3>2. [slot |-> CbSlot(c), position |-> position[CbSlot(c)]] \in S
      <4>1. \A x \in Slots, y \in Positions : [slot |-> x, position |-> y] \in S
        BY <2>0
      <4> QED
        BY <4>1, <1>i
    <3>3. \A x \in S : Append(requests, x) \in Seq(S) /\ Len(Append(requests, x)) = Len(requests) + 1
      BY <2>1
    <3> QED
      BY <2>1, <3>1, <3>2, <3>3, <1>i
  <2>3. CASE Collect
    <3>1. requests' = requests \/ (requests # <<>> /\ requests' = Tail(requests))
      BY <2>3 DEF Collect
    <3>2. requests # <<>> => Tail(requests) \in Seq(S) /\ Len(Tail(requests)) = Len(requests) - 1
      BY <2>1
    <3>3. CASE requests' = requests
      BY <2>0, <2>1, <3>3
    <3>4. CASE requests # <<>> /\ requests' = Tail(requests)
      <4>1. requests' \in Seq(S) /\ Len(requests') = Len(requests) - 1
        BY <3>2, <3>4
      <4>2. \A x, y \in Nat, z \in Int : x <= y /\ z = x - 1 => z <= y
        OBVIOUS
      <4>3. Len(requests') \in Int
        BY <2>1, <4>1
      <4> QED
        BY <2>0, <2>1, <4>1, <4>2, <4>3, <1>i
    <3> QED
      BY <3>1, <3>3, <3>4
  <2> QED
    BY <2>0, <2>1, <2>2, <2>3, RequestsFrame
<1>2. armed' \in [Slots -> Positions \cup {NoPosition}]
  <2>0. armed \in [Slots -> Positions \cup {NoPosition}]
    BY DEF TypeOK
  <2>1. CASE Collect
    <3>1. CASE UNCHANGED armed
      BY <2>0, <3>1
    <3>2. CASE /\ requests # <<>>
               /\ armed' = [armed EXCEPT ![Head(requests).slot] = Head(requests).position]
      <4>0. PICK S : S = [slot : Slots, position : Positions]
        OBVIOUS
      <4>1. requests \in Seq(S)
        BY <4>0 DEF TypeOK
      <4>2. Head(requests) \in S
        BY <3>2, <4>1
      <4> QED
        BY <2>0, <3>2, <4>0, <4>2
    <3> QED
      BY <2>1, <3>1, <3>2 DEF Collect
  <2>2. ASSUME NEW i \in Slots, PopDue(i) PROVE armed' \in [Slots -> Positions \cup {NoPosition}]
    BY <2>0, <2>2 DEF PopDue
  <2> QED
    BY <2>0, <2>1, <2>2, ArmedFrame
<1>3. cb' \in [Callbacks -> [pc : CallbackPcs, msg : {0} \cup Messages, pos : Positions]]
  <2>0. cb \in [Callbacks -> [pc : CallbackPcs, msg : {0} \cup Messages, pos : Positions]]
    BY DEF TypeOK
  <2>1. ASSUME NEW c \in Callbacks, NEW x \in [pc : CallbackPcs, msg : {0} \cup Messages, pos : Positions],
               cb' = [cb EXCEPT ![c] = x]
        PROVE  cb' \in [Callbacks -> [pc : CallbackPcs, msg : {0} \cup Messages, pos : Positions]]
    BY <2>0, <2>1
  <2>2. ASSUME NEW c \in Callbacks, NEW l \in CallbackPcs, cb' = [cb EXCEPT ![c].pc = l]
        PROVE  cb' \in [Callbacks -> [pc : CallbackPcs, msg : {0} \cup Messages, pos : Positions]]
    BY <2>0, <2>2
  <2>3. 0 \in Positions
    BY DeliveryAssumption DEF Positions
  <2>4. ASSUME NEW c \in Callbacks, HandleMessage(c)
        PROVE  cb' \in [Callbacks -> [pc : CallbackPcs, msg : {0} \cup Messages, pos : Positions]]
    <3>1. [pc |-> "check", msg |-> arrived + 1, pos |-> 0] \in [pc : CallbackPcs, msg : {0} \cup Messages, pos : Positions]
      BY <2>3, <2>4 DEF HandleMessage, CallbackPcs
    <3> QED
      BY <2>1, <2>4, <3>1 DEF HandleMessage
  <2>5. ASSUME NEW c \in Callbacks, LeaveHandler(c)
        PROVE  cb' \in [Callbacks -> [pc : CallbackPcs, msg : {0} \cup Messages, pos : Positions]]
    <3>1. IdleCallback \in [pc : CallbackPcs, msg : {0} \cup Messages, pos : Positions]
      BY <2>3 DEF IdleCallback, CallbackPcs
    <3> QED
      BY <2>1, <2>5, <3>1 DEF LeaveHandler
  <2>6. ASSUME NEW c \in Callbacks, Enqueue(c)
        PROVE  cb' \in [Callbacks -> [pc : CallbackPcs, msg : {0} \cup Messages, pos : Positions]]
    <3>1. enqueue_position \in Positions /\ "fill" \in CallbackPcs
      BY DEF TypeOK, CallbackPcs
    <3>2. cb' = [cb EXCEPT ![c].pc = "fill", ![c].pos = enqueue_position]
      BY <2>6 DEF Enqueue
    <3> QED
      BY <2>0, <3>1, <3>2
  <2>7. ASSUME NEW c \in Callbacks, CallbackMoves(c)
        PROVE  cb' \in [Callbacks -> [pc : CallbackPcs, msg : {0} \cup Messages, pos : Positions]]
    BY <2>2, <2>7, CallbackFrame
  <2>8. ASSUME NEW c \in Callbacks, FillSlot(c) \/ PublishSlot(c)
        PROVE  cb' \in [Callbacks -> [pc : CallbackPcs, msg : {0} \cup Messages, pos : Positions]]
    <3>1. \E l \in CallbackPcs : cb' = [cb EXCEPT ![c].pc = l]
      BY <2>8 DEF FillSlot, PublishSlot, CbGoto, CallbackPcs
    <3> QED
      BY <2>2, <3>1
  <2> QED
    BY <2>0, <2>4, <2>5, <2>6, <2>7, <2>8, CbFrame DEF Callback, CallbackMoves
<1>4. wd' \in [pc : WatchdogPcs, slot : Slots, position : Positions \cup {NoPosition}]
  <2>0. /\ wd \in [pc : WatchdogPcs, slot : Slots, position : Positions \cup {NoPosition}]
        /\ armed \in [Slots -> Positions \cup {NoPosition}]
    BY DEF TypeOK
  <2> QED
    BY <2>0, <1>i, ReadersFrame DEF WatchSteps, WatchdogLoop, Collect, Sleep, CheckOccupied, Enlist, Recheck,
       ClaimDue, SendDue, Resign, DeleteClient, PopDue, WdGoto, WdNext, WatchdogPcs
<1>5. rb' \in [pc : RubyPcs, slot : Slots]
  <2>0. rb \in [pc : RubyPcs, slot : Slots]
    BY DEF TypeOK
  <2>1. CASE RubyStarts
    BY <2>0, <2>1, <1>i DEF RubyStarts, StartDrain, Respond, ReleaseMessage, Close, RbStart, RubyPcs
  <2>2. CASE CloseAnswer
    BY <2>0, <2>2, <1>i DEF CloseAnswer, RubyPcs
  <2>3. CASE RubyContinues /\ ~CloseAnswer
    BY <2>0, <2>3, <1>i DEF RubyContinues, DrainOne, EndDrain, CheckDepth, NotifyLeft,
       SendResponse, SendDefault, Disarm, DisarmWait, FreeMessage, RecycleSlot,
       CloseCallbacks, CloseWatchdog, CloseDrainOne, CloseDrained, CloseJoin,
       RbGoto, IdleRuby, rubyVars, RubyPcs
  <2> QED
    BY <2>0, <2>1, <2>2, <2>3, RubyFrame
<1>6. wrapper' \in [Slots -> BOOLEAN]
  BY <1>i, WrapperFrame DEF TypeOK, DrainOne, RecycleSlot
<1>7. buffered' \in Seq([cell : {"occupied", "notified"}, slot : Slots])
  <2>0. PICK S : S = [cell : {"occupied", "notified"}, slot : Slots]
    OBVIOUS
  <2>1. buffered \in Seq(S)
    BY <2>0 DEF TypeOK
  <2>2. CASE EndDrain \/ Disarm
    <3>1. \E x \in S : buffered' = Append(buffered, x)
      BY <2>0, <2>2, <1>i DEF EndDrain, Disarm, BufferFalse
    <3> QED
      BY <2>0, <2>1, <3>1
  <2>3. CASE Flush
    <3>1. buffered # <<>> /\ buffered' = Tail(buffered)
      BY <2>3 DEF Flush
    <3>2. buffered' \in Seq(S)
      BY <2>1, <3>1
    <3> QED
      BY <2>0, <3>2
  <2> QED
    BY <2>0, <2>1, <2>2, <2>3, BufferFrame
<1> QED
  BY <1>1, <1>2, <1>3, <1>4, <1>5, <1>6, <1>7

\* Endpoint Security.
LEMMA SecurityTypes ==
  ASSUME TypeOK, RefsInv', Next
  PROVE  /\ refs' \in [Messages -> 0 .. 2]
         /\ responses' \in [Messages -> Nat]
         /\ accepted' \in [Messages -> BOOLEAN]
         /\ response_errors' \in 0 .. MaxResponseErrors
<1>1. refs' \in [Messages -> 0 .. 2]
  <2>1. refs' = [m \in Messages |-> refs'[m]]
    <3>1. refs = [m \in Messages |-> refs[m]]
      BY DEF TypeOK
    <3>2. UNCHANGED refs \/ \E n, v : refs' = [refs EXCEPT ![n] = v]
      BY RefsFrame DEF FreeMessage, CloseDrainOne, HandleMessage, LeaveHandler, Enqueue, EnqueueFull,
         AnswerFull, Retain, Release
    <3> QED
      BY <3>1, <3>2
  <2>2. \A m \in Messages : refs'[m] \in 0 .. 2
    <3>1. \A m \in Messages : refs'[m] = (IF Running(m)' THEN 1 ELSE 0) + (IF Held(m)' THEN 1 ELSE 0)
      BY DEF RefsInv
    <3> QED
      BY <3>1
  <2> QED
    BY <2>1, <2>2
<1>2. /\ responses' \in [Messages -> Nat] /\ accepted' \in [Messages -> BOOLEAN]
      /\ response_errors' \in 0 .. MaxResponseErrors
  <2>0. /\ responses \in [Messages -> Nat] /\ accepted \in [Messages -> BOOLEAN]
        /\ response_errors \in 0 .. MaxResponseErrors /\ MaxResponseErrors \in Nat
    BY DeliveryAssumption DEF TypeOK
  <2>1. ASSUME NEW m, Send(m)
        PROVE  /\ responses' \in [Messages -> Nat] /\ accepted' \in [Messages -> BOOLEAN]
               /\ response_errors' \in 0 .. MaxResponseErrors
    <3>1. responses' \in [Messages -> Nat]
      <4>1. responses' = [responses EXCEPT ![m] = responses[m] + 1]
        BY <2>1 DEF Send
      <4>2. ASSUME NEW k \in Messages PROVE responses[k] + 1 \in Nat
        BY <2>0
      <4>3. ASSUME NEW k \in Messages PROVE responses'[k] \in Nat
        <5>1. responses'[k] = responses[k] \/ responses'[k] = responses[k] + 1
          BY <2>0, <4>1
        <5> QED
          BY <2>0, <4>2, <5>1
      <4>4. responses' = [k \in Messages |-> responses'[k]]
        BY <2>0, <4>1
      <4> QED
        BY <4>3, <4>4
    <3>2. accepted' \in [Messages -> BOOLEAN]
      <4>1. accepted' = accepted \/ accepted' = [accepted EXCEPT ![m] = TRUE]
        BY <2>1 DEF Send
      <4> QED
        BY <2>0, <4>1
    <3>3. response_errors' = response_errors \/
          (response_errors < MaxResponseErrors /\ response_errors' = response_errors + 1)
      BY <2>1 DEF Send
    <3> QED
      BY <2>0, <3>1, <3>2, <3>3
  <2>2. UNCHANGED <<responses, response_errors, accepted>> \/ \E m : Send(m)
    BY ResponsesFrame DEF SendDue, SendResponse, SendDefault, CloseAnswer, CloseDrainOne, AnswerSlot,
       RejectClosed, AnswerFull, SendUnarmed, SendIfAuth, sendVars
  <2> QED
    BY <2>0, <2>1, <2>2
<1> QED
  BY <1>1, <1>2

\* Every step of the system keeps the types, the bounds on the ring's positions
\* and on the counters of the client's statistics included.
LEMMA TypeStep ==
  ASSUME TypeOK, TicketInv', ReadersInv', ActiveInv', RefsInv', CountInv', Next
  PROVE  TypeOK'
<1>1. /\ sequence' \in [Slots -> 0 .. MessageCount + Capacity]
      /\ enqueue_position' \in Positions /\ dequeue_position' \in Positions
      /\ position' \in [Slots -> Positions]
      /\ message' \in [Slots -> {0} \cup Messages]
      /\ answer_state' \in [Slots -> {"pending", "answered", "not_auth"}]
      /\ occupied' \in [Slots -> BOOLEAN]
      /\ readers' \in [Slots -> {0, 1}]
      /\ arrived' \in 0 .. MessageCount
      /\ dropped' \in 0 .. MessageCount /\ delivered' \in 0 .. MessageCount
  BY SlotTypes
<1>2. /\ closed' \in BOOLEAN /\ watchdog_running' \in BOOLEAN /\ watchdog_stopped' \in BOOLEAN
      /\ delete_ready' \in BOOLEAN /\ deleted' \in BOOLEAN
      /\ active_callbacks' \in 0 .. Cardinality(Callbacks)
      /\ notified' \in BOOLEAN /\ pipe' \in BOOLEAN
      /\ timeouts' \in 0 .. MessageCount
      /\ delete_errors' \in 0 .. MaxDeleteErrors
  BY ClientTypes
<1>3. /\ requests' \in Seq([slot : Slots, position : Positions]) /\ Len(requests') <= Capacity
      /\ armed' \in [Slots -> Positions \cup {NoPosition}]
      /\ cb' \in [Callbacks -> [pc : CallbackPcs, msg : {0} \cup Messages, pos : Positions]]
      /\ wd' \in [pc : WatchdogPcs, slot : Slots, position : Positions \cup {NoPosition}]
      /\ rb' \in [pc : RubyPcs, slot : Slots]
      /\ wrapper' \in [Slots -> BOOLEAN]
      /\ buffered' \in Seq([cell : {"occupied", "notified"}, slot : Slots])
  BY ThreadTypes
<1>4. /\ refs' \in [Messages -> 0 .. 2]
      /\ responses' \in [Messages -> Nat]
      /\ accepted' \in [Messages -> BOOLEAN]
      /\ response_errors' \in 0 .. MaxResponseErrors
  BY SecurityTypes
<1> QED
  BY <1>1, <1>2, <1>3, <1>4, Zenon DEF TypeOK

-----------------------------------------------------------------------------
(***************************************************************************)
(* The inductive invariant, and what follows from it.                      *)
(***************************************************************************)
SlotInv == TicketInv /\ QueuedInv /\ GuardInv /\ StopInv /\ ActiveInv
AnswersInv == MessageInv /\ PendingInv /\ ExclusiveInv /\ AnswerInv
BooksInv == RefsInv /\ OrderInv /\ NoLostDeadline /\ CountInv /\ WakeupNeverStuck

DeliveryInv == TypeOK /\ SlotInv /\ AnswersInv /\ BooksInv

\* A client that was just created: the types, first of all.
LEMMA InitTypes ==
  ASSUME Init
  PROVE  TypeOK
<1>c. /\ Capacity \in Nat /\ Capacity >= 2 /\ MessageCount \in Nat
      /\ MaxResponseErrors \in Nat /\ MaxDeleteErrors \in Nat
  BY CapacityAssumption, DeliveryAssumption
<1>s. 0 \in Slots /\ \A i \in Slots : i \in 0 .. MessageCount + Capacity
  BY <1>c DEF Slots
<1>p. 0 \in Positions
  BY <1>c DEF Positions
<1>1. /\ sequence \in [Slots -> 0 .. MessageCount + Capacity]
      /\ enqueue_position \in Positions /\ dequeue_position \in Positions
      /\ position \in [Slots -> Positions]
      /\ message \in [Slots -> {0} \cup Messages]
      /\ answer_state \in [Slots -> {"pending", "answered", "not_auth"}]
      /\ occupied \in [Slots -> BOOLEAN]
      /\ readers \in [Slots -> {0, 1}]
  BY <1>s, <1>p DEF Init, RingInit
<1>b. /\ closed \in BOOLEAN /\ watchdog_running \in BOOLEAN /\ watchdog_stopped \in BOOLEAN
      /\ delete_ready \in BOOLEAN /\ deleted \in BOOLEAN
      /\ notified \in BOOLEAN /\ pipe \in BOOLEAN
  BY DEF Init
<1>2. /\ dropped \in 0 .. MessageCount /\ delivered \in 0 .. MessageCount
      /\ timeouts \in 0 .. MessageCount
      /\ response_errors \in 0 .. MaxResponseErrors /\ delete_errors \in 0 .. MaxDeleteErrors
      /\ arrived \in 0 .. MessageCount
  BY <1>c DEF Init
<1>3. active_callbacks \in 0 .. Cardinality(Callbacks)
  <2>1. Cardinality(Callbacks) \in Nat
    BY DeliveryAssumption, FS_CardinalityType
  <2> QED
    BY <2>1 DEF Init
<1>4. requests \in Seq([slot : Slots, position : Positions]) /\ Len(requests) <= Capacity
  BY <1>c DEF Init
<1>5. buffered \in Seq([cell : {"occupied", "notified"}, slot : Slots])
  BY DEF Init
<1>6. /\ armed \in [Slots -> Positions \cup {NoPosition}]
      /\ wrapper \in [Slots -> BOOLEAN]
  BY DEF Init
<1>7. cb \in [Callbacks -> [pc : CallbackPcs, msg : {0} \cup Messages, pos : Positions]]
  BY <1>p DEF Init, IdleCallback, CallbackPcs
<1>8. wd \in [pc : WatchdogPcs, slot : Slots, position : Positions \cup {NoPosition}]
  BY <1>s DEF Init, WatchdogPcs
<1>9. rb \in [pc : RubyPcs, slot : Slots]
  BY <1>s DEF Init, IdleRuby, RubyPcs
<1>10. refs \in [Messages -> 0 .. 2] /\ responses \in [Messages -> Nat]
       /\ accepted \in [Messages -> BOOLEAN]
  BY DEF Init
<1> QED
  BY <1>b, <1>1, <1>2, <1>3, <1>4, <1>5, <1>6, <1>7, <1>8, <1>9, <1>10, Zenon DEF TypeOK

\* And the rest: every slot is free, nothing arrived, nobody runs.
LEMMA InitInv ==
  ASSUME Init
  PROVE  DeliveryInv
<1>t. TypeOK
  BY InitTypes
<1>c. Capacity \in Nat /\ Capacity >= 2 /\ MessageCount \in Nat
  BY CapacityAssumption, DeliveryAssumption
<1>s. \A i \in Slots : i \in Nat /\ i < Capacity /\ i % Capacity = i
  BY <1>c DEF Slots
<1>i. /\ \A i \in Slots : position[i] = 0 /\ sequence[i] = i /\ ~occupied[i] /\ readers[i] = 0
      /\ \A i \in Slots : ~wrapper[i] /\ answer_state[i] = "not_auth" /\ armed[i] = NoPosition
      /\ \A c \in Callbacks : cb[c].pc = "idle"
      /\ \A m \in Messages : refs[m] = 0 /\ responses[m] = 0
      /\ wd.pc = "loop" /\ rb.pc = "idle" /\ buffered = <<>> /\ requests = <<>>
      /\ dequeue_position = 0 /\ enqueue_position = 0
  BY DEF Init, RingInit, IdleCallback, IdleRuby
<1>l. \A i \in Slots : ~Live(i)
  <2> SUFFICES ASSUME NEW i \in Slots, i = 0, i = 1 PROVE FALSE
    BY <1>i, <1>s, <1>c DEF Live, SlotOf
  <2> QED
    OBVIOUS
<1>1. SlotInv
  <2>1. TicketInv
    <3>1. \A i \in Slots : SlotOf(sequence[i]) = i
      BY <1>i, <1>s DEF SlotOf
    <3>2. \A i \in Slots : position[i] <= sequence[i]
      BY <1>i, <1>s
    <3>3. \A c \in Callbacks : ~Owns(c) /\ cb[c].pc \notin FilledPcs
      BY <1>i DEF Owns, FillingPcs, FilledPcs
    <3>4. dequeue_position <= enqueue_position
      BY <1>i
    <3> QED
      BY <1>i, <1>l, <3>1, <3>2, <3>3, <3>4 DEF TicketInv
  <2>2. QueuedInv
    BY <1>i DEF QueuedInv
  <2>3. GuardInv
    <3>1. ReadersInv
      BY <1>i DEF ReadersInv, ReadingPcs
    <3>2. OccupiedInv
      BY <1>i DEF OccupiedInv
    <3>3. RubyInv
      BY <1>i DEF RubyInv, ReleasingPcs
    <3>4. WatchdogInv
      BY <1>i DEF WatchdogInv
    <3> QED
      BY <3>1, <3>2, <3>3, <3>4 DEF GuardInv
  <2>4. StopInv
    BY <1>i DEF StopInv, Init, ClosePcs
  <2>5. ActiveInv
    <3>1. {c \in Callbacks : cb[c].pc # "idle"} = {}
      BY <1>i
    <3> QED
      BY <3>1, FS_EmptySet DEF ActiveInv, Init
  <2> QED
    BY <2>1, <2>2, <2>3, <2>4, <2>5 DEF SlotInv
<1>2. AnswersInv
  <2>o. \A i \in Slots : ~Open(i) /\ ~Sends(i)
    BY <1>i DEF Open, Sends, CbSends, WdSends, RbSends
  <2>1. MessageInv
    BY <1>i, <1>l DEF MessageInv, FreshPcs
  <2>2. PendingInv
    BY <1>i DEF PendingInv, ReleasingPcs, Init
  <2>3. ExclusiveInv
    BY <1>i DEF ExclusiveInv, Sends, CbSends, WdSends, RbSends
  <2>4. AnswerInv
    <3>1. AnsweredAtMostOnce
      BY <1>i DEF AnsweredAtMostOnce
    <3>2. \A m \in Auth : ~(m <= arrived)
      BY DeliveryAssumption, <1>c DEF Init, Messages
    <3> QED
      BY <1>i, <2>o, <3>1, <3>2 DEF AnswerInv, UnansweredPcs
  <2> QED
    BY <2>1, <2>2, <2>3, <2>4 DEF AnswersInv
<1>3. BooksInv
  <2>1. RefsInv
    <3>1. \A m \in Messages : ~Running(m) /\ ~Held(m)
      BY <1>i, <1>l DEF Running, Held, Kept, FillingPcs
    <3> QED
      BY <1>i, <3>1 DEF RefsInv
  <2>2. OrderInv
    BY <1>i DEF OrderInv, NoPosition
  <2>3. NoLostDeadline
    BY <1>i DEF NoLostDeadline
  <2>4. CountInv
    <3>1. Entering = {} /\ Answered = {}
      BY <1>i DEF Entering, Answered, EntryPcs
    <3>2. Cardinality(Entering) = 0 /\ Cardinality(Answered) = 0
      BY <3>1, FS_EmptySet
    <3> QED
      BY <3>2, <1>i DEF CountInv, Init
  <2>5. WakeupNeverStuck
    BY DEF WakeupNeverStuck, Init
  <2> QED
    BY <2>1, <2>2, <2>3, <2>4, <2>5 DEF BooksInv
<1> QED
  BY <1>t, <1>1, <1>2, <1>3 DEF DeliveryInv

\* Every step of a callback, of the native thread, of the Ruby thread or of
\* its store buffer keeps the invariant.
LEMMA NextInv ==
  ASSUME DeliveryInv, Next
  PROVE  DeliveryInv'
<1>1. /\ TypeOK /\ TicketInv /\ QueuedInv /\ GuardInv /\ StopInv /\ ActiveInv
      /\ MessageInv /\ PendingInv /\ ExclusiveInv /\ AnswerInv
      /\ RefsInv /\ OrderInv /\ NoLostDeadline /\ CountInv /\ WakeupNeverStuck
  BY DEF DeliveryInv, SlotInv, AnswersInv, BooksInv
<1>2. ReadersInv /\ OccupiedInv /\ RubyInv /\ WatchdogInv
  BY <1>1 DEF GuardInv
<1>3. TicketInv'
  BY <1>1, TicketStep
<1>4. QueuedInv'
  BY <1>1, QueuedStep
<1>5. GuardInv'
  <2>1. ReadersInv'
    BY <1>1, <1>2, ReadersStep
  <2>2. OccupiedInv'
    BY <1>1, OccupiedStep
  <2>3. RubyInv'
    BY <1>1, <1>2, RubyStep
  <2>4. WatchdogInv'
    BY <1>1, WatchdogStep
  <2> QED
    BY <2>1, <2>2, <2>3, <2>4 DEF GuardInv
<1>6. StopInv' /\ ActiveInv'
  BY <1>1, StopStep, ActiveStep
<1>7. MessageInv'
  BY <1>1, MessageStep
<1>8. PendingInv'
  BY <1>1, PendingStep
<1>9. ExclusiveInv'
  BY <1>1, ExclusiveStep
<1>10. AnswerInv'
  BY <1>1, AnswerStep
<1>11. RefsInv'
  BY <1>1, RefsStep
<1>12. OrderInv'
  BY <1>1, OrderStep
<1>13. NoLostDeadline'
  BY <1>1, DeadlineStep
<1>14. CountInv'
  BY <1>1, CountStep
<1>15. WakeupNeverStuck'
  BY <1>1, WakeupStep
<1>16. TypeOK'
  BY <1>1, <1>3, <1>5, <1>6, <1>11, <1>14, TypeStep DEF GuardInv
<1> QED
  BY <1>3, <1>4, <1>5, <1>6, <1>7, <1>8, <1>9, <1>10, <1>11, <1>12, <1>13, <1>14, <1>15, <1>16
  DEF DeliveryInv, SlotInv, AnswersInv, BooksInv

\* Nor does a step that changes nothing disturb it.
LEMMA StutterInv ==
  ASSUME DeliveryInv, UNCHANGED vars
  PROVE  DeliveryInv'
<1> USE DEF vars, ringVars, slotVars, lifeVars, wakeVars, statVars, watchVars, rubyVars, sendVars, esVars
<1>1. /\ TypeOK /\ TicketInv /\ QueuedInv /\ GuardInv /\ StopInv /\ ActiveInv
      /\ MessageInv /\ PendingInv /\ ExclusiveInv /\ AnswerInv
      /\ RefsInv /\ OrderInv /\ NoLostDeadline /\ CountInv /\ WakeupNeverStuck
  BY DEF DeliveryInv, SlotInv, AnswersInv, BooksInv
<1>2. TypeOK'
  BY <1>1 DEF TypeOK
<1>3. TicketInv' /\ QueuedInv'
  BY <1>1 DEF TicketInv, QueuedInv, Live, Owns, CbSlot
<1>4. GuardInv'
  BY <1>1 DEF GuardInv, ReadersInv, OccupiedInv, RubyInv, WatchdogInv, Live, Occupying, CbSlot
<1>5. StopInv' /\ ActiveInv'
  BY <1>1 DEF StopInv, ActiveInv
<1>6. MessageInv' /\ PendingInv'
  BY <1>1 DEF MessageInv, PendingInv, Live, CbSlot
<1>7. ExclusiveInv' /\ AnswerInv'
  BY <1>1 DEF ExclusiveInv, AnswerInv, Open, Sends, CbSends, WdSends, RbSends, CbSlot,
     AnsweredAtMostOnce
<1>8. RefsInv'
  BY <1>1 DEF RefsInv, Running, Held, Kept, Live
<1>9. OrderInv' /\ NoLostDeadline' /\ CountInv' /\ WakeupNeverStuck'
  BY <1>1 DEF OrderInv, NoLostDeadline, CountInv, Entering, Answered, WakeupNeverStuck
<1> QED
  BY <1>2, <1>3, <1>4, <1>5, <1>6, <1>7, <1>8, <1>9 DEF DeliveryInv, SlotInv, AnswersInv, BooksInv

\* The invariant holds in every reachable state of the client: it is the
\* argument why the callbacks, the native thread, the drains, the releases and
\* the close may share the slots of the ring.
THEOREM DeliveryInvariant == Spec => []DeliveryInv
<1>1. DeliveryInv /\ [Next]_vars => DeliveryInv'
  BY NextInv, StutterInv
<1>2. Init => DeliveryInv
  BY InitInv
<1> QED
  BY <1>1, <1>2, PTL DEF Spec

\* Types and bounds: no counter of the statistics exceeds the number of
\* messages, the request ring never holds more entries than it has cells, and
\* no message has more references than the two es_retain_message accounts for.
THEOREM DeliveryTypes == Spec => []TypeOK
<1>1. DeliveryInv => TypeOK
  BY DEF DeliveryInv
<1> QED
  BY <1>1, DeliveryInvariant, PTL

\* "A message is never answered twice", whichever of the five places that
\* answer (the handler's fallback, the watchdog, respond_*, the release, the
\* close) race for it, and a NOTIFY message is never answered.
THEOREM NeverAnsweredTwice == Spec => []AnsweredAtMostOnce
<1>1. DeliveryInv => AnsweredAtMostOnce
  BY DEF DeliveryInv, AnswersInv, AnswerInv
<1> QED
  BY <1>1, DeliveryInvariant, PTL

\* A slot that is live and not on its way back to the ring has a reference.
LEMMA KeptIsReferenced ==
  ASSUME DeliveryInv, NEW i \in Slots, Kept(i) \/ Occupying(i)
  PROVE  refs[message[i]] > 0
<1>1. TypeOK /\ TicketInv /\ MessageInv /\ RefsInv
  BY DEF DeliveryInv, SlotInv, AnswersInv, BooksInv
<1>2. message[i] \in Messages
  <2>1. CASE Kept(i)
    <3>1. message[i] \in 1 .. arrived
      BY <2>1, <1>1 DEF MessageInv, Kept
    <3> QED
      BY <3>1, <1>1, DeliveryAssumption DEF TypeOK, Messages
  <2>2. CASE Occupying(i)
    <3>1. PICK c \in Callbacks : cb[c].pc \in OccupiedPcs /\ CbSlot(c) = i
      BY <2>2 DEF Occupying
    <3>2. message[i] = cb[c].msg /\ cb[c].msg \in 1 .. arrived
      BY <3>1, <1>1 DEF OccupiedPcs, FilledPcs, TicketInv, MessageInv
    <3> QED
      BY <3>2, <1>1, DeliveryAssumption DEF TypeOK, Messages
  <2> QED
    BY <2>1, <2>2
<1>3. Held(message[i])
  <2>1. CASE Kept(i)
    BY <2>1 DEF Held
  <2>2. CASE Occupying(i)
    <3>1. PICK c \in Callbacks : cb[c].pc \in OccupiedPcs /\ CbSlot(c) = i
      BY <2>2 DEF Occupying
    <3>2. message[i] = cb[c].msg
      BY <3>1, <1>1 DEF OccupiedPcs, FilledPcs, TicketInv
    <3> QED
      BY <3>1, <3>2 DEF Held, OccupiedPcs, FillingPcs
  <2> QED
    BY <2>1, <2>2
<1> QED
  BY <1>1, <1>2, <1>3 DEF RefsInv

\* No thread gives Endpoint Security a message that was released: what is
\* occupied and pending can still be found by the watchdog and is not on its
\* way back; what the watchdog or Ruby have won stays until they have sent.
THEOREM NeverUsedAfterRelease == Spec => []NoUseAfterRelease
<1>1. DeliveryInv => NoUseAfterRelease
  <2> SUFFICES ASSUME DeliveryInv PROVE NoUseAfterRelease
    OBVIOUS
  <2>0. /\ TypeOK /\ TicketInv /\ GuardInv /\ PendingInv
        /\ rb.slot \in Slots /\ wd.slot \in Slots
    BY SlotIndices DEF DeliveryInv, SlotInv, AnswersInv
  <2>1. ASSUME NEW i \in Slots, occupied[i], answer_state[i] = "pending"
        PROVE  refs[message[i]] > 0
    <3>1. Live(i) \/ Occupying(i)
      BY <2>0, <2>1 DEF GuardInv, OccupiedInv
    <3>2. ~(rb.pc = "recycle" /\ rb.slot = i)
      BY <2>0, <2>1 DEF PendingInv, ReleasingPcs
    <3> QED
      BY <3>1, <3>2, KeptIsReferenced DEF Kept
  <2>2. ASSUME wd.pc = "send" PROVE refs[message[wd.slot]] > 0
    <3>1. Live(wd.slot) \/ Occupying(wd.slot)
      BY <2>0, <2>2 DEF GuardInv, WatchdogInv
    <3>2. ~(rb.pc = "recycle" /\ rb.slot = wd.slot)
      BY <2>0, <2>2 DEF PendingInv
    <3> QED
      BY <2>0, <3>1, <3>2, KeptIsReferenced DEF Kept
  <2>3. ASSUME rb.pc \in {"send", "release_send"} PROVE refs[message[rb.slot]] > 0
    <3>1. Live(rb.slot) /\ rb.pc # "recycle"
      BY <2>0, <2>3 DEF GuardInv, RubyInv, TicketInv, ReleasingPcs
    <3> QED
      BY <2>0, <3>1, KeptIsReferenced DEF Kept
  <2> QED
    BY <2>1, <2>2, <2>3 DEF NoUseAfterRelease
<1> QED
  BY <1>1, DeliveryInvariant, PTL

\* The watchdog answers only for the entry it popped: answer_due's enlisting
\* and its second look at the slot close the window in which the slot may be
\* released and reused.
THEOREM WatchdogAnswersOnlyItsEntry == Spec => []WatchdogAnswersItsEntry
<1>1. DeliveryInv => WatchdogAnswersItsEntry
  BY DEF DeliveryInv, SlotInv, GuardInv, WatchdogInv, WatchdogAnswersItsEntry
<1> QED
  BY <1>1, DeliveryInvariant, PTL

\* An AUTH message is never given back to Endpoint Security unanswered: as
\* long as it has no answer the callback that runs for it, or the slot it is
\* in, refers to it.
THEOREM NeverReleasedWithoutAnswer == Spec => []NeverReleasedUnanswered
<1>1. DeliveryInv => NeverReleasedUnanswered
  <2> SUFFICES ASSUME DeliveryInv, NEW m \in Auth, m <= arrived, refs[m] = 0, responses[m] <= 0
               PROVE  FALSE
    <3>1. DeliveryInv => \A k \in Auth : responses[k] \in Nat
      BY DeliveryAssumption DEF DeliveryInv, TypeOK
    <3> QED
      BY <3>1 DEF NeverReleasedUnanswered
  <2>t. TypeOK /\ m \in Messages
    BY DeliveryAssumption DEF DeliveryInv
  <2>r. responses[m] = 0
    BY <2>t DEF TypeOK
  <2>0. /\ TypeOK /\ TicketInv /\ GuardInv /\ PendingInv /\ AnswerInv /\ RefsInv
        /\ m \in Messages
    BY DeliveryAssumption DEF DeliveryInv, SlotInv, AnswersInv, BooksInv
  <2>1. \/ \E c \in Callbacks : cb[c].pc \in UnansweredPcs /\ cb[c].msg = m
        \/ \E i \in Slots : message[i] = m /\ Open(i)
    BY <2>0, <2>r DEF AnswerInv
  <2>2. CASE \E c \in Callbacks : cb[c].pc \in UnansweredPcs /\ cb[c].msg = m
    <3>1. Running(m)
      BY <2>2 DEF Running, UnansweredPcs
    <3> QED
      BY <2>0, <3>1 DEF RefsInv
  <2>3. ASSUME NEW i \in Slots, message[i] = m, Open(i) PROVE FALSE
    <3>1. ASSUME NEW c \in Callbacks, cb[c].pc \in FilledPcs, CbSlot(c) = i PROVE Held(m)
      BY <2>0, <2>3, <3>1 DEF TicketInv, Held, FilledPcs, FillingPcs
    <3>2. InUse(i)
      BY <2>0, <2>3, OpenInUse
    <3>3. ~(rb.pc = "recycle" /\ rb.slot = i)
      <4>1. answer_state[i] = "pending" => ~(rb.pc = "recycle" /\ rb.slot = i)
        BY <2>0 DEF PendingInv, ReleasingPcs
      <4>2. WdSends(i) => ~(rb.pc = "recycle" /\ rb.slot = i)
        BY <2>0 DEF PendingInv, WdSends
      <4>3. RbSends(i) => ~(rb.pc = "recycle" /\ rb.slot = i)
        BY DEF RbSends
      <4>4. ASSUME CbSends(i), rb.pc = "recycle", rb.slot = i PROVE FALSE
        <5>1. PICK c \in Callbacks : cb[c].pc = "send" /\ CbSlot(c) = i
          BY <4>4 DEF CbSends
        <5>2. sequence[i] = position[i] + 1
          BY <2>0, <4>4 DEF GuardInv, RubyInv, TicketInv, ReleasingPcs, Live
        <5>3. sequence[i] = position[i]
          BY <2>0, <5>1 DEF TicketInv, Owns, FilledPcs, FillingPcs
        <5>4. position[i] \in Int
          BY <2>0 DEF TypeOK, Positions
        <5> QED
          BY <5>2, <5>3, <5>4
      <4> QED
        BY <2>3, <4>1, <4>2, <4>3, <4>4 DEF Open, Sends
    <3>4. Held(m)
      BY <2>3, <3>1, <3>2, <3>3 DEF InUse, Held, Kept
    <3> QED
      BY <2>0, <3>4 DEF RefsInv
  <2> QED
    BY <2>1, <2>2, <2>3
<1> QED
  BY <1>1, DeliveryInvariant, PTL

\* Somebody has the deadline of every pending answer: the callback before
\* esrb_deadline_arm, the request ring, the heap, or the watchdog that popped
\* it; no interleaving of arm, collect and pop loses it.
THEOREM NoDeadlineLost == Spec => []NoLostDeadline
<1>1. DeliveryInv => NoLostDeadline
  BY DEF DeliveryInv, BooksInv
<1> QED
  BY <1>1, DeliveryInvariant, PTL

\* Before es_delete_client runs every AUTH message has its answer: the close
\* answered every slot, and after "closed" no callback adds one.
THEOREM DeletedOnlyAnswered == Spec => []AnsweredBeforeDelete
<1>1. DeliveryInv => AnsweredBeforeDelete
  BY DEF DeliveryInv, AnswersInv, PendingInv, AnsweredBeforeDelete
<1> QED
  BY <1>1, DeliveryInvariant, PTL

\* A set "notified" whose byte was read is reset by the drain that read it,
\* although its store is delayed by the store buffer.
THEOREM WakeupNeverLost == Spec => []WakeupNeverStuck
<1>1. DeliveryInv => WakeupNeverStuck
  BY DEF DeliveryInv, BooksInv
<1> QED
  BY <1>1, DeliveryInvariant, PTL

\* While client_close_native answers, drains and joins, the native thread has
\* left its loop and every callback that runs was refused.
THEOREM CloseIsAlone == Spec => []CloseRunsAlone
<1>1. DeliveryInv => CloseRunsAlone
  <2> SUFFICES ASSUME DeliveryInv, rb.pc \in {"close_answer", "close_drain", "close_join"}
               PROVE  /\ wd.pc \in {"await_delete", "done"}
                      /\ \A c \in Callbacks : cb[c].pc \in {"idle", "check", "reject", "leave"}
    BY DEF CloseRunsAlone
  <2>1. StopInv
    BY DEF DeliveryInv, SlotInv
  <2> QED
    BY <2>1 DEF StopInv, ClosePcs
<1> QED
  BY <1>1, DeliveryInvariant, PTL

\* A free callback runs no handler and has a message nowhere: then the ring
\* and the Ruby objects alone hold references.
LEMMA QuietlyHeld ==
  ASSUME DeliveryInv, Quiet, NEW m \in Messages
  PROVE  Held(m) <=> m \in Queued \cup Wrapped
<1>0. TypeOK /\ TicketInv /\ QueuedInv
  BY DEF DeliveryInv, SlotInv
<1>1. \A c \in Callbacks : ~Owns(c) /\ cb[c].pc \notin FillingPcs \cup {"full"}
  BY DEF Quiet, Owns, FillingPcs
<1>2. \A i \in Slots : Kept(i) <=> Live(i)
  BY DEF Quiet, Kept
<1>3. /\ Held(m) <=> \E i \in Slots : Live(i) /\ message[i] = m
  BY <1>1, <1>2 DEF Held
<1>4. ASSUME NEW i \in Slots, Live(i), message[i] = m PROVE m \in Queued \cup Wrapped
  <2>1. position[i] \in Nat /\ dequeue_position \in Nat /\ enqueue_position \in Nat
    BY <1>0, SlotIndices DEF TypeOK, Positions
  <2>2. CASE position[i] < dequeue_position
    BY <1>0, <1>4, <2>2 DEF TicketInv, Wrapped
  <2>3. CASE ~(position[i] < dequeue_position)
    <3>1. position[i] < enqueue_position
      BY <1>0, <1>4 DEF TicketInv
    <3>2. position[i] \in dequeue_position .. enqueue_position - 1
      BY <2>1, <2>3, <3>1
    <3>3. SlotOf(position[i]) = i
      BY <1>4 DEF Live
    <3> QED
      BY <1>4, <3>2, <3>3 DEF Queued
  <2> QED
    BY <2>2, <2>3
<1>5. ASSUME m \in Queued PROVE \E i \in Slots : Live(i) /\ message[i] = m
  <2>1. PICK p \in dequeue_position .. enqueue_position - 1 : message[SlotOf(p)] = m
    BY <1>5 DEF Queued
  <2>2. Live(SlotOf(p))
    BY <1>0, <1>1, <2>1 DEF QueuedInv
  <2>3. SlotOf(p) \in Slots
    <3>1. dequeue_position \in Nat /\ enqueue_position \in Nat
      BY <1>0, SlotIndices
    <3>2. p \in Nat
      BY <2>1, <3>1
    <3> QED
      BY <3>2, CapacityAssumption DEF SlotOf, Slots
  <2> QED
    BY <2>1, <2>2, <2>3
<1>6. ASSUME m \in Wrapped PROVE \E i \in Slots : Live(i) /\ message[i] = m
  BY <1>0, <1>6 DEF Wrapped, TicketInv
<1> QED
  BY <1>3, <1>4, <1>5, <1>6

\* Between operations Endpoint Security's reference counts are exactly what
\* the ring and the Message objects account for: es_retain_message and
\* es_release_message are paired on every path through the callback, the
\* dispatch and the close.
THEOREM ReferencesBalance == Spec => []RefsBalance
<1>1. DeliveryInv => RefsBalance
  <2> SUFFICES ASSUME DeliveryInv, Quiet, NEW m \in Messages
               PROVE  refs[m] = IF m \in Queued \cup Wrapped THEN 1 ELSE 0
    BY DEF RefsBalance
  <2>1. ~Running(m)
    BY DEF Running, Quiet
  <2>2. refs[m] = IF Held(m) THEN 1 ELSE 0
    BY <2>1 DEF DeliveryInv, BooksInv, RefsInv
  <2> QED
    BY <2>2, QuietlyHeld
<1> QED
  BY <1>1, DeliveryInvariant, PTL

(***************************************************************************)
(* The client keeps the ring's contract.  client_drain_and_release takes a *)
(* ticket and gives it back in one step of the model; everything else is a *)
(* step of Ring.tla, which Queue.tla implements.                           *)
(***************************************************************************)
TakeAndGiveBack ==
  /\ Takeable
  /\ dequeue_position' = dequeue_position + 1
  /\ sequence' = [sequence EXCEPT ![SlotOf(dequeue_position)] = dequeue_position + Capacity]
  /\ UNCHANGED enqueue_position

RingContract == [][RingNext \/ TakeAndGiveBack]_ringVars

\* A callback publishes the ticket it claimed, a Message object gives back the
\* ticket it was made for, and never the one that now lives in its slot.
LEMMA RingStep ==
  ASSUME DeliveryInv, Next
  PROVE  UNCHANGED ringVars \/ RingNext \/ TakeAndGiveBack
<1>0. TypeOK /\ TicketInv /\ GuardInv
  BY DEF DeliveryInv, SlotInv
<1>t. /\ \A i \in Slots : position[i] \in Nat /\ sequence[i] \in Nat
      /\ enqueue_position \in Nat /\ dequeue_position \in Nat
      /\ rb.slot \in Slots /\ SlotOf(dequeue_position) \in Slots
      /\ \A c \in Callbacks : CbSlot(c) \in Slots /\ cb[c].pos \in Nat
  <2>1. /\ sequence \in [Slots -> Nat] /\ position \in [Slots -> Nat]
        /\ enqueue_position \in Nat /\ dequeue_position \in Nat
    BY <1>0, NatTypes
  <2>2. /\ rb.slot \in Slots /\ SlotOf(dequeue_position) \in Slots
        /\ \A c \in Callbacks : CbSlot(c) \in Slots /\ cb[c].pos \in Nat
    BY <1>0, SlotIndices
  <2> QED
    BY <2>1, <2>2
<1>1. \/ UNCHANGED ringVars \/ DrainOne \/ RecycleSlot \/ CloseDrainOne
      \/ \E c \in Callbacks : Enqueue(c) \/ PublishSlot(c)
  BY RingFrame
<1>2. ASSUME NEW c \in Callbacks, PublishSlot(c) PROVE RingNext
  <2>1. /\ cb[c].pc = "publish" /\ Owns(c)
        /\ position[CbSlot(c)] = cb[c].pos /\ sequence[CbSlot(c)] = cb[c].pos
        /\ dequeue_position <= cb[c].pos /\ cb[c].pos < enqueue_position
    BY <1>0, <1>2 DEF PublishSlot, TicketInv, Owns, FillingPcs, FilledPcs
  <2>2. /\ sequence' = [sequence EXCEPT ![SlotOf(cb[c].pos)] = cb[c].pos + 1]
        /\ UNCHANGED <<enqueue_position, dequeue_position>>
    BY <1>2, <2>1 DEF PublishSlot, PublishedSequence, CbSlot
  <2>3. Publish(cb[c].pos)
    BY <2>1, <2>2 DEF Publish, CbSlot
  <2>4. cb[c].pos \in 0 .. enqueue_position
    BY <1>t, <2>1
  <2> QED
    BY <2>3, <2>4 DEF RingNext
<1>3. ASSUME RecycleSlot PROVE RingNext
  <2>1. PICK i \in Slots : i = rb.slot
    BY <1>t
  <2>2. Live(i) /\ position[i] < dequeue_position
    BY <1>0, <1>3, <2>1 DEF RecycleSlot, GuardInv, RubyInv, ReleasingPcs, TicketInv
  <2>3. SlotOf(position[i]) = i /\ sequence[i] = position[i] + 1
    BY <2>2 DEF Live
  <2>4. /\ sequence' = [sequence EXCEPT ![i] = position[i] + Capacity]
        /\ UNCHANGED <<enqueue_position, dequeue_position>>
    BY <1>3, <2>1 DEF RecycleSlot, GiveSlotBack, ReleasedSequence
  <2>5. GiveBack(position[i])
    BY <2>2, <2>3, <2>4 DEF GiveBack
  <2>6. position[i] \in 0 .. enqueue_position
    BY <1>t, <1>0, <2>2 DEF TicketInv
  <2> QED
    BY <2>5, <2>6 DEF RingNext
<1>4. ASSUME CloseDrainOne PROVE TakeAndGiveBack
  <2>1. Takeable
    BY <1>4 DEF CloseDrainOne
  <2>2. position[SlotOf(dequeue_position)] = dequeue_position
    BY <1>0, <2>1, TakeSlot
  <2> QED
    BY <1>4, <2>1, <2>2 DEF CloseDrainOne, TakeAndGiveBack, ReleasedSequence
<1> QED
  BY <1>1, <1>2, <1>3, <1>4 DEF DrainOne, Enqueue, RingNext

\* Everything the callbacks, the drains, the releases and the close do to the
\* ring is one of the ring's four operations on a ticket it is due for.
THEOREM KeepsRingContract == Spec => RingContract
<1>1. DeliveryInv /\ [Next]_vars => [RingNext \/ TakeAndGiveBack]_ringVars
  BY RingStep DEF vars, ringVars
<1> QED
  BY <1>1, DeliveryInvariant, PTL DEF Spec, RingContract
=============================================================================
