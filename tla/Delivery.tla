------------------------------ MODULE Delivery ------------------------------
(***************************************************************************)
(* How a message travels from the Endpoint Security callback to its answer *)
(* and its release: client.c, watchdog.c and message.c over the ring of    *)
(* queue.c.                                                                *)
(*                                                                         *)
(* Four kinds of threads share the slots of the ring without a lock:       *)
(*   - callbacks   handle_message, on Endpoint Security's threads;         *)
(*   - wd          the native thread: watchdog, then es_delete_client;     *)
(*   - rb          the Ruby thread that holds the GVL: drain, respond,     *)
(*                 release, close.  C code keeps the GVL, so one Ruby      *)
(*                 operation at a time;                                    *)
(*   - Endpoint Security itself (external), which counts the references    *)
(*     to a message and the answers it is given.                           *)
(*                                                                         *)
(* The ring's operations are the indivisible ones of Ring.tla, which       *)
(* Queue.tla implements.  Time is left out: an armed deadline may be found *)
(* due, or not due, whenever the watchdog looks.  The release stores of    *)
(* the Ruby thread that are followed by a load of another location wait in *)
(* a store buffer until a read-modify-write or the hardware drains it, as  *)
(* on x86.                                                                 *)
(***************************************************************************)
EXTENDS Ring, FiniteSets, Sequences

CONSTANTS
  MessageCount,         \* messages Endpoint Security delivers
  Auth,                 \* those that are AUTH events; the others are NOTIFY
  Callbacks,            \* callbacks that may run at the same time
  MaxResponseErrors,    \* responses that Endpoint Security may refuse
  MaxDeleteErrors       \* es_delete_client calls that may fail

Messages == 1 .. MessageCount

ASSUME DeliveryAssumption ==
  /\ MessageCount \in Nat
  /\ Auth \subseteq Messages
  /\ MaxResponseErrors \in Nat /\ MaxDeleteErrors \in Nat
  /\ IsFiniteSet(Callbacks)

VARIABLES
  \* esrb_slot_t
  position, message, answer_state, occupied, readers,
  \* esrb_client_t
  closed, active_callbacks, watchdog_running, watchdog_stopped, delete_ready,
  notified, pipe,       \* the wakeup flag; whether wakeup_fd is readable
  dropped, delivered, timeouts, response_errors, delete_errors,
  \* esrb_watchdog_t
  requests,             \* the request ring: a sequence of [slot, position]
  armed,                \* the heap: armed[i] is the position of slot i's entry
  \* the threads
  cb, wd, rb,           \* where each thread is, and its locals
  wrapper,              \* wrapper[i]: a valid Message object refers to slot i
  buffered,             \* the Ruby thread's store buffer
  \* Endpoint Security
  arrived, refs, responses, accepted, deleted

slotVars == <<position, message, answer_state, occupied, readers>>
lifeVars == <<closed, active_callbacks, watchdog_running, watchdog_stopped, delete_ready>>
wakeVars == <<notified, pipe>>
statVars == <<dropped, delivered, timeouts, delete_errors>>
watchVars == <<wd, requests, armed>>
rubyVars == <<rb, wrapper, buffered>>
sendVars == <<responses, accepted, response_errors>>
esVars == <<arrived, refs, deleted>>
vars == <<ringVars, slotVars, lifeVars, wakeVars, statVars, watchVars, rubyVars,
          cb, sendVars, esVars>>

NoPosition == -1
IdleCallback == [pc |-> "idle", msg |-> 0, pos |-> 0]
IdleRuby == [pc |-> "idle", slot |-> 0]

Init ==
  /\ RingInit
  /\ position = [i \in Slots |-> 0]
  /\ message = [i \in Slots |-> 0]
  /\ answer_state = [i \in Slots |-> "not_auth"]
  /\ occupied = [i \in Slots |-> FALSE]
  /\ readers = [i \in Slots |-> 0]
  /\ closed = FALSE /\ active_callbacks = 0
  /\ watchdog_running = TRUE /\ watchdog_stopped = FALSE /\ delete_ready = FALSE
  /\ notified = FALSE /\ pipe = FALSE
  /\ dropped = 0 /\ delivered = 0 /\ timeouts = 0 /\ delete_errors = 0
  /\ requests = <<>>
  /\ armed = [i \in Slots |-> NoPosition]
  /\ cb = [c \in Callbacks |-> IdleCallback]
  /\ wd = [pc |-> "loop", slot |-> 0, position |-> NoPosition]
  /\ rb = IdleRuby
  /\ wrapper = [i \in Slots |-> FALSE]
  /\ buffered = <<>>
  /\ arrived = 0 /\ deleted = FALSE
  /\ refs = [m \in Messages |-> 0]
  /\ responses = [m \in Messages |-> 0]
  /\ accepted = [m \in Messages |-> FALSE]
  /\ response_errors = 0
-----------------------------------------------------------------------------
(***************************************************************************)
(* Endpoint Security, and what the threads have in common.                 *)
(***************************************************************************)

\* es_retain_message and es_release_message.
Retain(m) == refs' = [refs EXCEPT ![m] = @ + 1]
Release(m) == refs' = [refs EXCEPT ![m] = @ - 1]

\* esrb_send_response: Endpoint Security takes the answer or refuses it.
Send(m) ==
  /\ responses' = [responses EXCEPT ![m] = @ + 1]
  /\ \/ accepted' = [accepted EXCEPT ![m] = TRUE] /\ UNCHANGED response_errors
     \/ /\ response_errors < MaxResponseErrors
        /\ response_errors' = response_errors + 1
        /\ UNCHANGED accepted

SendIfAuth(m) == IF m \in Auth THEN Send(m) ELSE UNCHANGED sendVars

\* Variant: the answer state is set without comparing it first.
ClaimAnswerBlind(i) == answer_state' = [answer_state EXCEPT ![i] = "answered"]

\* The compare-and-swap that precedes every answer given through a slot: only
\* the thread that turns "pending" into "answered" may send.
ClaimAnswer(i) ==
  /\ answer_state[i] = "pending"
  /\ answer_state' = [answer_state EXCEPT ![i] = "answered"]

\* esrb_notify: the first to set the flag writes the byte.
Notify ==
  /\ notified' = TRUE
  /\ pipe' = (pipe \/ ~notified)
-----------------------------------------------------------------------------
(***************************************************************************)
(* handle_message.                                                         *)
(***************************************************************************)
CbGoto(c, l) == cb' = [cb EXCEPT ![c].pc = l]

CbSlot(c) == SlotOf(cb[c].pos)

\* Endpoint Security calls the handler; it keeps the message alive until the
\* handler returns.
HandleMessage(c) ==
  LET m == arrived + 1 IN
  /\ cb[c].pc = "idle"
  /\ m \in Messages /\ ~deleted
  /\ arrived' = m
  /\ Retain(m)
  /\ active_callbacks' = active_callbacks + 1
  /\ cb' = [cb EXCEPT ![c] = [pc |-> "check", msg |-> m, pos |-> 0]]
  /\ UNCHANGED <<ringVars, slotVars, closed, watchdog_running, watchdog_stopped, delete_ready,
                 wakeVars, statVars, watchVars, rubyVars, sendVars, deleted>>

CheckClosed(c) ==
  /\ cb[c].pc = "check"
  /\ CbGoto(c, IF closed THEN "reject" ELSE "enqueue")
  /\ UNCHANGED <<ringVars, slotVars, lifeVars, wakeVars, statVars, watchVars, rubyVars,
                 sendVars, esVars>>

\* The client is closed: answer at once.
RejectClosed(c) ==
  /\ cb[c].pc = "reject"
  /\ SendIfAuth(cb[c].msg)
  /\ CbGoto(c, "leave")
  /\ UNCHANGED <<ringVars, slotVars, lifeVars, wakeVars, statVars, watchVars, rubyVars, esVars>>

\* es_retain_message, then esrb_queue_enqueue finds a slot.
Enqueue(c) ==
  /\ cb[c].pc = "enqueue"
  /\ Claim
  /\ Retain(cb[c].msg)
  /\ cb' = [cb EXCEPT ![c].pc = "fill", ![c].pos = enqueue_position]
  /\ UNCHANGED <<slotVars, lifeVars, wakeVars, statVars, watchVars, rubyVars, sendVars,
                 arrived, deleted>>

\* es_retain_message, then esrb_queue_enqueue returns NULL.
EnqueueFull(c) ==
  /\ cb[c].pc = "enqueue"
  /\ sequence[SlotOf(enqueue_position)] < enqueue_position
  /\ Retain(cb[c].msg)
  /\ CbGoto(c, "full")
  /\ UNCHANGED <<ringVars, slotVars, lifeVars, wakeVars, statVars, watchVars, rubyVars, sendVars,
                 arrived, deleted>>

\* Variant: an overflowing AUTH message is dropped like a NOTIFY message.
DropFull(c) ==
  /\ cb[c].pc = "full"
  /\ dropped' = dropped + 1
  /\ Release(cb[c].msg)
  /\ CbGoto(c, "leave")
  /\ UNCHANGED <<ringVars, slotVars, lifeVars, wakeVars, delivered, timeouts, delete_errors, watchVars, rubyVars,
                 sendVars, arrived, deleted>>

\* Variant: the retain is not undone.
AnswerFullLeaks(c) ==
  /\ cb[c].pc = "full"
  /\ SendIfAuth(cb[c].msg)
  /\ dropped' = dropped + 1
  /\ CbGoto(c, "leave")
  /\ UNCHANGED <<ringVars, slotVars, lifeVars, wakeVars, delivered, timeouts, delete_errors,
                 watchVars, rubyVars, esVars>>

\* No slot: answer, count the drop, undo the retain.
AnswerFull(c) ==
  /\ cb[c].pc = "full"
  /\ SendIfAuth(cb[c].msg)
  /\ dropped' = dropped + 1
  /\ Release(cb[c].msg)
  /\ CbGoto(c, "leave")
  /\ UNCHANGED <<ringVars, slotVars, lifeVars, wakeVars, delivered, timeouts, delete_errors, watchVars, rubyVars,
                 arrived, deleted>>

\* The plain fields of the slot and its answer_state.
FillSlot(c) ==
  LET i == CbSlot(c)
      m == cb[c].msg
  IN
  /\ cb[c].pc = "fill"
  /\ position' = [position EXCEPT ![i] = cb[c].pos]
  /\ message' = [message EXCEPT ![i] = m]
  /\ answer_state' = [answer_state EXCEPT ![i] = IF m \in Auth THEN "pending" ELSE "not_auth"]
  /\ CbGoto(c, "occupy")
  /\ UNCHANGED <<ringVars, occupied, readers, lifeVars, wakeVars, statVars, watchVars, rubyVars,
                 sendVars, esVars>>

Occupy(c) ==
  /\ cb[c].pc = "occupy"
  /\ occupied' = [occupied EXCEPT ![CbSlot(c)] = TRUE]
  /\ CbGoto(c, IF cb[c].msg \in Auth THEN "arm" ELSE "publish")
  /\ UNCHANGED <<ringVars, position, message, answer_state, readers, lifeVars, wakeVars, statVars,
                 watchVars, rubyVars, sendVars, esVars>>

\* esrb_watchdog_arm.  Its request ring has the capacity of the queue; here it
\* is the FIFO that Requests.tla shows it to be.  The step is the claim of a
\* ticket; the request is written down at some time before PublishSlot.
Arm(c) ==
  /\ cb[c].pc = "arm"
  /\ IF Len(requests) < Capacity
       THEN /\ requests' = Append(requests, [slot |-> CbSlot(c), position |-> position[CbSlot(c)]])
            /\ CbGoto(c, "publish")
       ELSE UNCHANGED requests /\ CbGoto(c, "unarmed")
  /\ UNCHANGED <<ringVars, slotVars, lifeVars, wakeVars, statVars, wd, armed, rubyVars, sendVars,
                 esVars>>

\* The request ring was full: client_answer_slot.
AnswerUnarmed(c) ==
  LET i == CbSlot(c) IN
  /\ cb[c].pc = "unarmed"
  /\ IF answer_state[i] = "pending"
       THEN ClaimAnswer(i) /\ CbGoto(c, "send")
       ELSE UNCHANGED answer_state /\ CbGoto(c, "publish")
  /\ UNCHANGED <<ringVars, position, message, occupied, readers, lifeVars, wakeVars, statVars,
                 watchVars, rubyVars, sendVars, esVars>>

SendUnarmed(c) ==
  /\ cb[c].pc = "send"
  /\ Send(message[CbSlot(c)])
  /\ CbGoto(c, "publish")
  /\ UNCHANGED <<ringVars, slotVars, lifeVars, wakeVars, statVars, watchVars, rubyVars, esVars>>

\* esrb_queue_publish.
PublishSlot(c) ==
  /\ cb[c].pc = "publish"
  /\ sequence' = [sequence EXCEPT ![CbSlot(c)] = PublishedSequence(position[CbSlot(c)])]
  /\ CbGoto(c, "notify")
  /\ UNCHANGED <<enqueue_position, dequeue_position, slotVars, lifeVars, wakeVars, statVars,
                 watchVars, rubyVars, sendVars, esVars>>

NotifyQueued(c) ==
  /\ cb[c].pc = "notify"
  /\ Notify
  /\ CbGoto(c, "leave")
  /\ UNCHANGED <<ringVars, slotVars, lifeVars, statVars, watchVars, rubyVars, sendVars, esVars>>

\* Variant: an active callback is never counted out.
LeaveHandlerForgets(c) ==
  /\ cb[c].pc = "leave"
  /\ Release(cb[c].msg)
  /\ cb' = [cb EXCEPT ![c] = IdleCallback]
  /\ UNCHANGED <<ringVars, slotVars, lifeVars, wakeVars, statVars, watchVars, rubyVars, sendVars,
                 arrived, deleted>>

\* The handler returns, and Endpoint Security drops its own reference.
LeaveHandler(c) ==
  /\ cb[c].pc = "leave"
  /\ active_callbacks' = active_callbacks - 1
  /\ Release(cb[c].msg)
  /\ cb' = [cb EXCEPT ![c] = IdleCallback]
  /\ UNCHANGED <<ringVars, slotVars, closed, watchdog_running, watchdog_stopped, delete_ready,
                 wakeVars, statVars, watchVars, rubyVars, sendVars, arrived, deleted>>

Callback(c) ==
  \/ CheckClosed(c) \/ RejectClosed(c) \/ Enqueue(c) \/ EnqueueFull(c) \/ AnswerFull(c)
  \/ FillSlot(c) \/ Occupy(c) \/ Arm(c) \/ AnswerUnarmed(c) \/ SendUnarmed(c)
  \/ PublishSlot(c) \/ NotifyQueued(c) \/ LeaveHandler(c)
-----------------------------------------------------------------------------
(***************************************************************************)
(* client_native_main, once the client exists: esrb_watchdog_main, then    *)
(* es_delete_client.                                                       *)
(***************************************************************************)
WdGoto(l) == wd' = [wd EXCEPT !.pc = l]

\* Back to the loop over the due entries; the popped entry is forgotten.
WdNext == wd' = [pc |-> "due", slot |-> 0, position |-> NoPosition]

WatchdogLoop ==
  /\ wd.pc = "loop"
  /\ IF watchdog_running
       THEN WdGoto("collect") /\ UNCHANGED watchdog_stopped
       ELSE WdGoto("await_delete") /\ watchdog_stopped' = TRUE
  /\ UNCHANGED <<ringVars, slotVars, closed, active_callbacks, watchdog_running, delete_ready,
                 wakeVars, statVars, requests, armed, rubyVars, cb, sendVars, esVars>>

\* The callback that claimed a ticket for this request may not have written
\* it down yet.
MaybeUnwritten(request) ==
  \E c \in Callbacks :
    cb[c].pc = "publish" /\ CbSlot(c) = request.slot /\ cb[c].pos = request.position

\* request_pop returns false: there is no request, or the oldest is unwritten.
\* Whatever others have written after it has to wait.
RequestPopMisses == requests # <<>> => MaybeUnwritten(Head(requests))

\* Variant: a slot that has an entry in the heap keeps it.
CollectKeepsOld ==
  /\ wd.pc = "collect"
  /\ \/ RequestPopMisses /\ WdGoto("due") /\ UNCHANGED <<requests, armed>>
     \/ /\ requests # <<>>
        /\ requests' = Tail(requests)
        /\ armed' = [armed EXCEPT ![Head(requests).slot] =
                       IF @ = NoPosition THEN Head(requests).position ELSE @]
        /\ UNCHANGED wd
  /\ UNCHANGED <<ringVars, slotVars, lifeVars, wakeVars, statVars, rubyVars, cb, sendVars, esVars>>

\* request_pop and heap_set: the slot's entry is replaced, or added.
Collect ==
  /\ wd.pc = "collect"
  /\ \/ RequestPopMisses /\ WdGoto("due") /\ UNCHANGED <<requests, armed>>
     \/ /\ requests # <<>>
        /\ requests' = Tail(requests)
        /\ armed' = [armed EXCEPT ![Head(requests).slot] = Head(requests).position]
        /\ UNCHANGED wd
  /\ UNCHANGED <<ringVars, slotVars, lifeVars, wakeVars, statVars, rubyVars, cb, sendVars, esVars>>

\* The first entry of the heap is due; which one that is depends on the
\* deadlines, so it may be any.
PopDue(i) ==
  /\ wd.pc = "due"
  /\ armed[i] # NoPosition
  /\ armed' = [armed EXCEPT ![i] = NoPosition]
  /\ wd' = [pc |-> "check", slot |-> i, position |-> armed[i]]
  /\ UNCHANGED <<ringVars, slotVars, lifeVars, wakeVars, statVars, requests, rubyVars, cb,
                 sendVars, esVars>>

\* Nothing is due: sleep for a millisecond.
Sleep ==
  /\ wd.pc = "due"
  /\ WdGoto("loop")
  /\ UNCHANGED <<ringVars, slotVars, lifeVars, wakeVars, statVars, requests, armed, rubyVars, cb,
                 sendVars, esVars>>

\* answer_due.
CheckOccupied ==
  /\ wd.pc = "check"
  /\ IF occupied[wd.slot] THEN WdGoto("enlist") ELSE WdNext
  /\ UNCHANGED <<ringVars, slotVars, lifeVars, wakeVars, statVars, requests, armed, rubyVars, cb,
                 sendVars, esVars>>

\* The fetch_add is an acquire only: that its store is visible before the
\* second look at occupied is an assumption of the same kind.
Enlist ==
  /\ wd.pc = "enlist"
  /\ readers' = [readers EXCEPT ![wd.slot] = @ + 1]
  /\ WdGoto("recheck")
  /\ UNCHANGED <<ringVars, position, message, answer_state, occupied, lifeVars, wakeVars, statVars,
                 requests, armed, rubyVars, cb, sendVars, esVars>>

\* The slot must still be occupied, by the message the entry was made for.
Recheck ==
  /\ wd.pc = "recheck"
  /\ WdGoto(IF occupied[wd.slot] /\ position[wd.slot] = wd.position THEN "claim" ELSE "resign")
  /\ UNCHANGED <<ringVars, slotVars, lifeVars, wakeVars, statVars, requests, armed, rubyVars, cb,
                 sendVars, esVars>>

ClaimDue ==
  /\ wd.pc = "claim"
  /\ \/ ClaimAnswer(wd.slot) /\ WdGoto("send")
     \/ answer_state[wd.slot] # "pending" /\ WdGoto("resign") /\ UNCHANGED answer_state
  /\ UNCHANGED <<ringVars, position, message, occupied, readers, lifeVars, wakeVars, statVars,
                 requests, armed, rubyVars, cb, sendVars, esVars>>

SendDue ==
  /\ wd.pc = "send"
  /\ Send(message[wd.slot])
  /\ timeouts' = timeouts + 1
  /\ Notify
  /\ WdGoto("resign")
  /\ UNCHANGED <<ringVars, slotVars, lifeVars, dropped, delivered, delete_errors, requests, armed,
                 rubyVars, cb, esVars>>

Resign ==
  /\ wd.pc = "resign"
  /\ readers' = [readers EXCEPT ![wd.slot] = @ - 1]
  /\ WdNext
  /\ UNCHANGED <<ringVars, position, message, answer_state, occupied, lifeVars, wakeVars, statVars,
                 requests, armed, rubyVars, cb, sendVars, esVars>>

\* es_delete_client (external): it lets the running handlers finish, and
\* calls none afterwards unless it failed.
DeleteClient ==
  /\ wd.pc = "await_delete"
  /\ delete_ready
  /\ \A c \in Callbacks : cb[c].pc = "idle"
  /\ \/ deleted' = TRUE /\ UNCHANGED delete_errors
     \/ /\ delete_errors < MaxDeleteErrors
        /\ delete_errors' = delete_errors + 1
        /\ UNCHANGED deleted
  /\ WdGoto("done")
  /\ UNCHANGED <<ringVars, slotVars, lifeVars, wakeVars, dropped, delivered, timeouts, requests,
                 armed, rubyVars, cb, sendVars, arrived, refs>>

Watchdog ==
  \/ WatchdogLoop \/ Collect \/ Sleep \/ CheckOccupied \/ Enlist \/ Recheck \/ ClaimDue
  \/ SendDue \/ Resign \/ DeleteClient
  \/ \E i \in Slots : PopDue(i)
-----------------------------------------------------------------------------
(***************************************************************************)
(* The Ruby thread's store buffer.                                         *)
(***************************************************************************)

\* A read-modify-write, or a system call, finds the buffer empty.  So it is on
\* x86, where the former is a locked instruction; C11 and arm64 promise no such
\* order between an earlier release store and a later load (see the README).
Drained == buffered = <<>>

\* atomic_store_explicit(..., false, memory_order_release).
BufferFalse(cell, i) == buffered' = Append(buffered, [cell |-> cell, slot |-> i])

\* The hardware writes the oldest buffered store to memory.
Flush ==
  /\ buffered # <<>>
  /\ buffered' = Tail(buffered)
  /\ IF Head(buffered).cell = "occupied"
       THEN occupied' = [occupied EXCEPT ![Head(buffered).slot] = FALSE] /\ UNCHANGED notified
       ELSE notified' = FALSE /\ UNCHANGED occupied
  /\ UNCHANGED <<ringVars, position, message, answer_state, readers, lifeVars, pipe, statVars,
                 watchVars, rb, wrapper, cb, sendVars, esVars>>
-----------------------------------------------------------------------------
(***************************************************************************)
(* The Ruby thread: client_drain.                                          *)
(***************************************************************************)
RbGoto(l) == rb' = [rb EXCEPT !.pc = l]
RbStart(l, i) == rb.pc = "idle" /\ rb' = [pc |-> l, slot |-> i]

\* Read the pipe empty.
StartDrain ==
  /\ ~closed
  /\ Drained
  /\ RbStart("drain", 0)
  /\ pipe' = FALSE
  /\ UNCHANGED <<ringVars, slotVars, lifeVars, notified, statVars, watchVars, wrapper, buffered,
                 cb, sendVars, esVars>>

\* esrb_queue_dequeue and esrb_message_wrap.
DrainOne ==
  /\ rb.pc = "drain"
  /\ Drained
  /\ Take
  /\ wrapper' = [wrapper EXCEPT ![SlotOf(dequeue_position)] = TRUE]
  /\ delivered' = delivered + 1
  /\ UNCHANGED <<slotVars, lifeVars, wakeVars, dropped, timeouts, delete_errors, watchVars, rb,
                 buffered, cb, sendVars, esVars>>

\* Variant: the flag is not reset.
EndDrainKeepsFlag ==
  /\ rb.pc = "drain"
  /\ RbGoto("drain_depth")
  /\ UNCHANGED <<ringVars, slotVars, lifeVars, wakeVars, statVars, watchVars, wrapper, buffered, cb,
                 sendVars, esVars>>

\* The ring is empty, or the caller's maximum (which may be any) is reached.
EndDrain ==
  /\ rb.pc = "drain"
  /\ BufferFalse("notified", 0)
  /\ RbGoto("drain_depth")
  /\ UNCHANGED <<ringVars, slotVars, lifeVars, wakeVars, statVars, watchVars, wrapper, cb,
                 sendVars, esVars>>

\* esrb_queue_depth, a plain load, does not wait for the store before it.
CheckDepth ==
  /\ rb.pc = "drain_depth"
  /\ rb' = IF enqueue_position > dequeue_position THEN [rb EXCEPT !.pc = "drain_notify"]
                                                  ELSE IdleRuby
  /\ UNCHANGED <<ringVars, slotVars, lifeVars, wakeVars, statVars, watchVars, wrapper, buffered,
                 cb, sendVars, esVars>>

NotifyLeft ==
  /\ rb.pc = "drain_notify"
  /\ Drained
  /\ Notify
  /\ rb' = IdleRuby
  /\ UNCHANGED <<ringVars, slotVars, lifeVars, statVars, watchVars, wrapper, buffered, cb,
                 sendVars, esVars>>
-----------------------------------------------------------------------------
(***************************************************************************)
(* esrb_respond_slot and message_release.                                  *)
(***************************************************************************)

\* allow!, deny!, respond or the dispatcher's fallback, on a valid message.
Respond(i) ==
  /\ wrapper[i] /\ message[i] \in Auth
  /\ ~closed
  /\ Drained
  /\ ClaimAnswer(i)
  /\ RbStart("send", i)
  /\ UNCHANGED <<ringVars, position, message, occupied, readers, lifeVars, wakeVars, statVars,
                 watchVars, wrapper, buffered, cb, sendVars, esVars>>

SendResponse ==
  /\ rb.pc = "send"
  /\ Send(message[rb.slot])
  /\ rb' = IdleRuby
  /\ UNCHANGED <<ringVars, slotVars, lifeVars, wakeVars, statVars, watchVars, wrapper, buffered,
                 cb, esVars>>

\* message_release, from release!, from the end of the dispatch or from the
\* garbage collector: first the default answer, unless the client is closed.
ReleaseMessage(i) ==
  /\ wrapper[i]
  /\ \/ ~closed /\ Drained /\ ClaimAnswer(i) /\ RbStart("release_send", i)
     \/ /\ closed \/ (Drained /\ answer_state[i] # "pending")
        /\ RbStart("disarm", i) /\ UNCHANGED answer_state
  /\ UNCHANGED <<ringVars, position, message, occupied, readers, lifeVars, wakeVars, statVars,
                 watchVars, wrapper, buffered, cb, sendVars, esVars>>

SendDefault ==
  /\ rb.pc = "release_send"
  /\ Send(message[rb.slot])
  /\ RbGoto("disarm")
  /\ UNCHANGED <<ringVars, slotVars, lifeVars, wakeVars, statVars, watchVars, wrapper, buffered,
                 cb, esVars>>

\* esrb_queue_disarm: the store, then the wait for the readers.
Disarm ==
  /\ rb.pc = "disarm"
  /\ BufferFalse("occupied", rb.slot)
  /\ RbGoto("disarm_wait")
  /\ UNCHANGED <<ringVars, slotVars, lifeVars, wakeVars, statVars, watchVars, wrapper, cb,
                 sendVars, esVars>>

\* Variant: the readers are not waited for.
DisarmNoWait ==
  /\ rb.pc = "disarm_wait"
  /\ RbGoto("free")
  /\ UNCHANGED <<ringVars, slotVars, lifeVars, wakeVars, statVars, watchVars, wrapper, buffered,
                 cb, sendVars, esVars>>

DisarmWait ==
  /\ rb.pc = "disarm_wait"
  /\ readers[rb.slot] = 0
  /\ RbGoto("free")
  /\ UNCHANGED <<ringVars, slotVars, lifeVars, wakeVars, statVars, watchVars, wrapper, buffered,
                 cb, sendVars, esVars>>

\* es_release_message, whose reference count is a read-modify-write.
FreeMessage ==
  /\ rb.pc = "free"
  /\ Drained
  /\ Release(message[rb.slot])
  /\ RbGoto("recycle")
  /\ UNCHANGED <<ringVars, slotVars, lifeVars, wakeVars, statVars, watchVars, wrapper, buffered,
                 cb, sendVars, arrived, deleted>>

GiveSlotBack(i) ==
  /\ sequence' = [sequence EXCEPT ![i] = ReleasedSequence(position[i])]
  /\ UNCHANGED <<enqueue_position, dequeue_position>>

\* Variant: esrb_queue_release without its second disarm.
RecycleAtOnce ==
  /\ rb.pc = "recycle"
  /\ GiveSlotBack(rb.slot)
  /\ wrapper' = [wrapper EXCEPT ![rb.slot] = FALSE]
  /\ rb' = IdleRuby
  /\ UNCHANGED <<slotVars, lifeVars, wakeVars, statVars, watchVars, buffered, cb, sendVars, esVars>>

\* esrb_queue_release: disarm once more (occupied is false already), wait for
\* the readers that came in between, give the slot back.
RecycleSlot ==
  /\ rb.pc = "recycle"
  /\ readers[rb.slot] = 0
  /\ GiveSlotBack(rb.slot)
  /\ wrapper' = [wrapper EXCEPT ![rb.slot] = FALSE]
  /\ rb' = IdleRuby
  /\ UNCHANGED <<slotVars, lifeVars, wakeVars, statVars, watchVars, buffered, cb, sendVars, esVars>>
-----------------------------------------------------------------------------
(***************************************************************************)
(* client_close_native.                                                    *)
(***************************************************************************)
Close ==
  /\ ~closed
  /\ Drained
  /\ closed' = TRUE
  /\ RbStart("close_callbacks", 0)
  /\ UNCHANGED <<ringVars, slotVars, active_callbacks, watchdog_running, watchdog_stopped,
                 delete_ready, wakeVars, statVars, watchVars, wrapper, buffered, cb, sendVars,
                 esVars>>

\* Variant: the callbacks are not waited for.
CloseCallbacksNoWait ==
  /\ rb.pc = "close_callbacks"
  /\ watchdog_running' = FALSE
  /\ RbGoto("close_watchdog")
  /\ UNCHANGED <<ringVars, slotVars, closed, active_callbacks, watchdog_stopped, delete_ready,
                 wakeVars, statVars, watchVars, wrapper, buffered, cb, sendVars, esVars>>

\* Wait until no callback is active, then stop the watchdog.
CloseCallbacks ==
  /\ rb.pc = "close_callbacks"
  /\ active_callbacks = 0
  /\ watchdog_running' = FALSE
  /\ RbGoto("close_watchdog")
  /\ UNCHANGED <<ringVars, slotVars, closed, active_callbacks, watchdog_stopped, delete_ready,
                 wakeVars, statVars, watchVars, wrapper, buffered, cb, sendVars, esVars>>

CloseWatchdog ==
  /\ rb.pc = "close_watchdog"
  /\ watchdog_stopped
  /\ rb' = [pc |-> "close_answer", slot |-> 0]
  /\ UNCHANGED <<ringVars, slotVars, lifeVars, wakeVars, statVars, watchVars, wrapper, buffered,
                 cb, sendVars, esVars>>

\* client_answer_slot, when no other thread uses the slots any more.
AnswerSlot(i) ==
  IF answer_state[i] = "pending" THEN ClaimAnswer(i) /\ Send(message[i])
                                 ELSE UNCHANGED <<answer_state, sendVars>>

\* Variant: only the queued messages are answered, not those Ruby holds.
CloseAnswerSkipped ==
  /\ rb.pc = "close_answer"
  /\ RbGoto("close_drain")
  /\ UNCHANGED <<ringVars, slotVars, lifeVars, wakeVars, statVars, watchVars, wrapper, buffered,
                 cb, sendVars, esVars>>

\* One slot of client_answer_occupied.
CloseAnswer ==
  LET i == rb.slot IN
  /\ rb.pc = "close_answer"
  /\ IF occupied[i] THEN AnswerSlot(i) ELSE UNCHANGED <<answer_state, sendVars>>
  /\ rb' = IF i + 1 \in Slots THEN [rb EXCEPT !.slot = i + 1]
                              ELSE [pc |-> "close_drain", slot |-> 0]
  /\ UNCHANGED <<ringVars, position, message, occupied, readers, lifeVars, wakeVars, statVars,
                 watchVars, wrapper, buffered, cb, esVars>>

\* One message of client_drain_and_release.
CloseDrainOne ==
  LET i == SlotOf(dequeue_position) IN
  /\ rb.pc = "close_drain"
  /\ Takeable
  /\ AnswerSlot(i)
  /\ Release(message[i])
  /\ occupied' = [occupied EXCEPT ![i] = FALSE]
  /\ readers[i] = 0
  /\ dequeue_position' = dequeue_position + 1
  /\ sequence' = [sequence EXCEPT ![i] = ReleasedSequence(position[i])]
  /\ UNCHANGED <<enqueue_position, position, message, readers, lifeVars, wakeVars, statVars,
                 watchVars, rubyVars, cb, arrived, deleted>>

CloseDrained ==
  /\ rb.pc = "close_drain"
  /\ ~Takeable
  /\ delete_ready' = TRUE
  /\ RbGoto("close_join")
  /\ UNCHANGED <<ringVars, slotVars, closed, active_callbacks, watchdog_running, watchdog_stopped,
                 wakeVars, statVars, watchVars, wrapper, buffered, cb, sendVars, esVars>>

\* pthread_join, and a last wakeup.
CloseJoin ==
  /\ rb.pc = "close_join"
  /\ wd.pc = "done"
  /\ Notify
  /\ rb' = IdleRuby
  /\ UNCHANGED <<ringVars, slotVars, lifeVars, statVars, watchVars, wrapper, buffered, cb,
                 sendVars, esVars>>
-----------------------------------------------------------------------------
\* A Ruby operation that has begun.
RubyContinues ==
  \/ DrainOne \/ EndDrain \/ CheckDepth \/ NotifyLeft
  \/ SendResponse \/ SendDefault \/ Disarm \/ DisarmWait \/ FreeMessage \/ RecycleSlot
  \/ CloseCallbacks \/ CloseWatchdog \/ CloseAnswer \/ CloseDrainOne \/ CloseDrained \/ CloseJoin

\* What the Ruby program may begin at any time, or never.
RubyStarts ==
  \/ StartDrain \/ Close
  \/ \E i \in Slots : Respond(i) \/ ReleaseMessage(i)

\* The client is closed and nothing refers to it any more.
Terminated ==
  /\ wd.pc = "done" /\ rb.pc = "idle" /\ Drained
  /\ \A c \in Callbacks : cb[c].pc = "idle"
  /\ \A i \in Slots : ~wrapper[i]
  /\ arrived = MessageCount \/ deleted
  /\ UNCHANGED vars

Next ==
  \/ \E c \in Callbacks : HandleMessage(c) \/ Callback(c)
  \/ Watchdog
  \/ RubyStarts
  \/ RubyContinues
  \/ Flush
  \/ Terminated

Spec == Init /\ [][Next]_vars

\* Native threads and begun C functions run on; an entry in the heap becomes
\* due some day.  Nothing makes the Ruby program drain, answer or close.
Fairness ==
  /\ \A c \in Callbacks : WF_vars(Callback(c))
  /\ WF_vars(Watchdog)
  /\ \A i \in Slots : SF_vars(PopDue(i))
  /\ WF_vars(RubyContinues)
  /\ WF_vars(Flush)

FairSpec == Spec /\ Fairness
-----------------------------------------------------------------------------
(***************************************************************************)
(* Properties.                                                             *)
(***************************************************************************)
CallbackPcs == {"idle", "check", "reject", "enqueue", "full", "fill", "occupy", "arm", "unarmed",
                "send", "publish", "notify", "leave"}
WatchdogPcs == {"loop", "collect", "due", "check", "enlist", "recheck", "claim", "send", "resign",
                "await_delete", "done"}
RubyPcs == {"idle", "drain", "drain_depth", "drain_notify", "send", "release_send", "disarm",
            "disarm_wait", "free", "recycle", "close_callbacks", "close_watchdog", "close_answer",
            "close_drain", "close_join"}
Positions == 0 .. MessageCount

\* Every variable stays in its range: counters do not wrap, and the request
\* ring and the readers stay within their bounds.
TypeOK ==
  /\ sequence \in [Slots -> 0 .. MessageCount + Capacity]
  /\ enqueue_position \in Positions /\ dequeue_position \in Positions
  /\ position \in [Slots -> Positions]
  /\ message \in [Slots -> {0} \cup Messages]
  /\ answer_state \in [Slots -> {"pending", "answered", "not_auth"}]
  /\ occupied \in [Slots -> BOOLEAN]
  /\ readers \in [Slots -> {0, 1}]
  /\ closed \in BOOLEAN /\ watchdog_running \in BOOLEAN /\ watchdog_stopped \in BOOLEAN
  /\ delete_ready \in BOOLEAN /\ deleted \in BOOLEAN
  /\ active_callbacks \in 0 .. Cardinality(Callbacks)
  /\ notified \in BOOLEAN /\ pipe \in BOOLEAN
  /\ dropped \in 0 .. MessageCount /\ delivered \in 0 .. MessageCount
  /\ timeouts \in 0 .. MessageCount
  /\ response_errors \in 0 .. MaxResponseErrors /\ delete_errors \in 0 .. MaxDeleteErrors
  /\ requests \in Seq([slot : Slots, position : Positions]) /\ Len(requests) <= Capacity
  /\ armed \in [Slots -> Positions \cup {NoPosition}]
  /\ cb \in [Callbacks -> [pc : CallbackPcs, msg : {0} \cup Messages, pos : Positions]]
  /\ wd \in [pc : WatchdogPcs, slot : Slots, position : Positions \cup {NoPosition}]
  /\ rb \in [pc : RubyPcs, slot : Slots]
  /\ wrapper \in [Slots -> BOOLEAN]
  /\ buffered \in Seq([cell : {"occupied", "notified"}, slot : Slots])
  /\ arrived \in 0 .. MessageCount
  /\ refs \in [Messages -> 0 .. 2]
  /\ responses \in [Messages -> Nat]
  /\ accepted \in [Messages -> BOOLEAN]

\* "A message is never answered twice": the handler, the callback's fallback,
\* the watchdog, the release and the close race for the same answer.  And a
\* NOTIFY message is never answered.
AnsweredAtMostOnce ==
  \A m \in Messages : responses[m] <= (IF m \in Auth THEN 1 ELSE 0)

\* No thread gives Endpoint Security a message that was released: not the
\* watchdog, which reads the slot without holding a reference, and not a
\* thread that lost time between winning the answer and sending it.
NoUseAfterRelease ==
  /\ \A i \in Slots : occupied[i] /\ answer_state[i] = "pending" => refs[message[i]] > 0
  /\ wd.pc = "send" => refs[message[wd.slot]] > 0
  /\ rb.pc \in {"send", "release_send"} => refs[message[rb.slot]] > 0

\* The watchdog never answers for another message than the one whose deadline
\* it popped, although the slot may be released and reused at any time while
\* answer_due looks at it.
WatchdogAnswersItsEntry ==
  wd.pc \in {"claim", "send"} => position[wd.slot] = wd.position

\* An AUTH message is never given back to Endpoint Security unanswered.
NeverReleasedUnanswered ==
  \A m \in Auth : m <= arrived /\ refs[m] = 0 => responses[m] > 0

\* As long as the answer of a message in the ring is pending, somebody has
\* its deadline: the callback that will arm it or answer it, the request
\* ring, the heap, or the watchdog that has just popped it.
NoLostDeadline ==
  \A i \in Slots : occupied[i] /\ answer_state[i] = "pending" =>
    \/ \E c \in Callbacks : cb[c].pc \in {"arm", "unarmed"} /\ cb[c].pos = position[i]
    \/ \E k \in 1 .. Len(requests) : requests[k] = [slot |-> i, position |-> position[i]]
    \/ armed[i] = position[i]
    \/ wd.slot = i /\ wd.position = position[i] /\ wd.pc \in {"check", "enlist", "recheck", "claim"}

\* While client_close_native answers and drains, no other thread is anywhere
\* near a slot: the watchdog has left its loop, and a callback that is still
\* running has seen that the client is closed.
CloseRunsAlone ==
  rb.pc \in {"close_answer", "close_drain", "close_join"} =>
    /\ wd.pc \in {"await_delete", "done"}
    /\ \A c \in Callbacks : cb[c].pc \in {"idle", "check", "reject", "leave"}

\* When the native client is about to be deleted, every AUTH message that was
\* queued or is held by Ruby has its answer; afterwards none could be given.
AnsweredBeforeDelete ==
  delete_ready =>
    \A i \in Slots : answer_state[i] # "pending"

\* A set flag whose byte was read is reset, by the drain that read it: else
\* nobody would ever write a byte again, and no message be announced.
WakeupNeverStuck ==
  notified /\ ~pipe =>
    rb.pc = "drain" \/ \E k \in 1 .. Len(buffered) : buffered[k].cell = "notified"

Quiet == rb.pc = "idle" /\ \A c \in Callbacks : cb[c].pc = "idle"

Queued == {message[SlotOf(p)] : p \in dequeue_position .. enqueue_position - 1}
Wrapped == {message[i] : i \in {j \in Slots : wrapper[j]}}

\* Between operations Endpoint Security's reference counts are exactly what
\* the ring and the Ruby objects account for: no leak, no double release.
RefsBalance ==
  Quiet => \A m \in Messages : refs[m] = IF m \in Queued \cup Wrapped THEN 1 ELSE 0

\* Every AUTH message is answered, whatever Ruby does or omits to do.
EventuallyAnswered ==
  \A m \in Auth : m <= arrived ~> responses[m] > 0

\* client_close_native returns: none of its waits is in vain, and the native
\* thread ends.
CloseCompletes == closed ~> (rb.pc = "idle" /\ wd.pc = "done")
-----------------------------------------------------------------------------
(***************************************************************************)
(* What the README says and the code does not do.                          *)
(***************************************************************************)

\* "A native watchdog guarantees a single fallback response for AUTH events":
\* Endpoint Security has an answer to every AUTH message the client let go
\* of.  It has not if it refused the first one: that is never repeated.
FallbackGuaranteed ==
  ~closed => \A m \in Auth : m <= arrived /\ refs[m] = 0 => accepted[m]
=============================================================================
