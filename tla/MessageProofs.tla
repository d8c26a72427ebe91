---------------------------- MODULE MessageProofs ----------------------------
(***************************************************************************)
(* Proofs about Message.tla, for any number of threads and messages, any   *)
(* ring and any stream of the events of the tables.                        *)
(***************************************************************************)
EXTENDS Message, FiniteSetTheorems, TLAPS

(***************************************************************************)
(* The inductive invariant.                                                *)
(***************************************************************************)

\* What the type invariant leaves open.
ShapeInv ==
  /\ DOMAIN answers = Messages /\ DOMAIN seen_seq = Keys
  /\ view = NoView \/ view \in [owner : Messages, schema : Schemas]
  /\ tickets <= arrived /\ lost \subseteq 1 .. arrived

\* Only the calling thread is left in a child, and it is in no call.
ForkInv == forked => \A t \in Threads : call[t] = None

InQueue(s) == \E k \in 1 .. Len(queue) : queue[k] = s

\* The slots in use are those of queued messages and those of valid objects,
\* each the slot of one message that has one reference.  A child process sees
\* what it inherited.
SlotInv ==
  /\ \A j, k \in 1 .. Len(queue) : queue[j] = queue[k] => j = k
  /\ \A k \in 1 .. Len(queue) : slot[queue[k]].used
  /\ \A s \in Slots : slot[s].used =>
       slot[s].message \in Messages /\ slot[s].message <= arrived /\ refs[slot[s].message] = 1
  /\ \A r, s \in Slots : slot[r].used /\ slot[s].used /\ slot[r].message = slot[s].message => r = s
  /\ \A m \in Messages : m > arrived => refs[m] = 0

ValidInv ==
  ~forked =>
    /\ \A o \in Messages : valid[o] => slot[slotOf[o]].used /\ slot[slotOf[o]].message = o
    /\ \A s \in Slots : slot[s].used => (InQueue(s) <=> ~valid[slot[s].message])
    /\ \A m \in Messages : refs[m] = 1 => \E s \in Slots : slot[s].used /\ slot[s].message = m

\* Only a message that was given back counts as leaked, and only once.
Gone == {m \in 1 .. arrived : refs[m] = 0}
LeakInv == leaked_messages <= Cardinality(Gone)

\* What record_sequence_gaps remembers of each counter is the last message
\* delivered.
Delivered == (1 .. arrived) \ lost
IsLast(k, l) == l \in Delivered /\ Key(l) = k /\ \A b \in Delivered : Key(b) = k => b <= l

SeqInv ==
  Version >= 2 => \A k \in Keys :
    /\ seen_seq[k] => \E l \in Messages : IsLast(k, l) /\ last_seq[k] = Number(l)
    /\ ~seen_seq[k] => \A b \in Delivered : Key(b) # k

\* The gaps counted are the lost messages that the counters can know of.
GapSet ==
  {m \in lost : \E a, b \in Delivered : a < m /\ m < b /\ Key(a) = Key(m) /\ Key(b) = Key(m)}
GapInv == seq_gaps = IF Version < 2 THEN 0 ELSE Cardinality(GapSet)

MessageInv ==
  /\ TypeOK /\ ShapeInv /\ ForkInv /\ SlotInv /\ ValidInv /\ LeakInv /\ SeqInv
  /\ GapInv /\ NothingReadAfterRelease
-----------------------------------------------------------------------------
(***************************************************************************)
(* Which steps change which variables.                                     *)
(***************************************************************************)
USE DEF Next, Lose, HandleMessage, Drain, Close, Fork, WatchdogAnswers, Access, RespondBegin, RespondEnd,
  RespondAtOnce, RespondDefault, RespondSlot, Retain, Release, AutoRelease, Collect, ViewOf, ReadViewField,
  ExecValues, ReadThrough, Usable, ViewUsable, vars, esVars, seqVars, queueVars, objectVars, rubyVars

\* What has arrived and how it was numbered: the callback alone.
LEMMA ArrivalFrame ==
  Next => /\ UNCHANGED stream
          /\ Lose \/ HandleMessage \/ UNCHANGED <<arrived, lost, last_seq, seen_seq, seq_gaps>>
BY ZenonT(60)

\* The ring, the references and the objects.
LEMMA ObjectFrame ==
  Next => \/ HandleMessage \/ Drain \/ Close
          \/ /\ \E o \in Messages : valid[o] /\ MessageRelease(o)
             /\ UNCHANGED <<arrived, queue, tickets, slotOf, forked>>
          \/ /\ UNCHANGED <<refs, queue, tickets, valid, slotOf>>
             /\ UNCHANGED slot \/ \E s, who : AnswerSlot(s, who)
             /\ Lose \/ (forked' = TRUE /\ UNCHANGED arrived) \/ UNCHANGED <<arrived, forked>>
BY ZenonT(60)

\* The answers that Endpoint Security receives: of the callback, of close, of a
\* release, by default, and of objects.
LEMMA AnswerFrame ==
  Next => \/ HandleMessage \/ Close \/ UNCHANGED answers
          \/ \E o \in Messages : valid[o] /\ MessageRelease(o)
          \/ \E s : AnswerSlot(s, Default)
          \/ \E o \in Messages : valid[o] /\ ~forked /\ AnswerSlot(slotOf[o], Explicit(o))
          \/ \E t \in Threads : call[t] # None /\ AnswerSlot(slotOf[call[t]], Explicit(call[t]))
BY ZenonT(60)

\* What is read, and through which object or view.
LEMMA ReadFrame ==
  Next => \/ UNCHANGED strayed
          \/ \E o \in Messages : valid[o] /\ ~forked /\ Reads(o)
          \/ /\ view # NoView /\ valid[view.owner] /\ ~forked
             /\ strayed' = IF refs[view.owner] > 0 THEN strayed ELSE strayed \cup {view.owner}
BY ZenonT(60)

\* The view of the program.
LEMMA ViewFrame ==
  Next => \/ UNCHANGED view \/ view' = NoView
          \/ \E o \in Messages : ViewOf(o)
          \/ \E field \in FieldsOf(view.schema) : view.schema # <<>> /\ ReadViewField(field)
          \/ ExecValues
BY ZenonT(60)

\* The calls, the leaks and the flags.
LEMMA CallFrame ==
  Next => /\ \/ UNCHANGED <<call, forked>> \/ Fork
             \/ UNCHANGED forked /\ \E t \in Threads : call' = [call EXCEPT ![t] = None]
             \/ UNCHANGED forked /\ ~forked /\ \E t \in Threads, o \in Messages : call' = [call EXCEPT ![t] = o]
BY ZenonT(60)

\* Only message_free reports a leak.
LEMMA LeakFrame ==
  Next => UNCHANGED leaked_messages \/ \E o \in Messages : Collect(o)
BY ZenonT(60)

\* closed is set once; retain! and esrb_message_wrap set held.
LEMMA FlagFrame ==
  Next => /\ UNCHANGED closed \/ closed' = TRUE
          /\ UNCHANGED held \/ Drain \/ \E o \in Messages : held' = [held EXCEPT ![o] = TRUE]
BY ZenonT(60)

\* In a child process only its own objects, its view and its calls change.
LEMMA ChildFrame ==
  ForkInv /\ forked /\ Next => UNCHANGED <<refs, answers, slot, leaked_messages>>
BY ZenonT(60) DEF ForkInv, MessageRelease

HIDE DEF Next, Lose, HandleMessage, Drain, Close, Fork, WatchdogAnswers, Access, RespondBegin, RespondEnd,
  RespondAtOnce, RespondDefault, RespondSlot, Retain, Release, AutoRelease, Collect, ViewOf, ReadViewField,
  ExecValues, ReadThrough, Usable, ViewUsable, vars, esVars, seqVars, queueVars, objectVars, rubyVars
-----------------------------------------------------------------------------
(***************************************************************************)
(* The ring and the objects.                                               *)
(***************************************************************************)

\* The sizes, and the slot of the next ticket.
LEMMA Sizes ==
  /\ Capacity \in Nat /\ Capacity > 1 /\ MessageCount \in Nat /\ MaxLost \in Nat
  /\ \A n \in Nat : n % Capacity \in Slots
<1>1. Capacity \in Nat /\ Capacity > 1 /\ MessageCount \in Nat /\ MaxLost \in Nat
  BY MessageAssumption
<1> QED
  BY <1>1 DEF Slots

\* The counters.
LEMMA CounterTypes ==
  ASSUME TypeOK, ShapeInv
  PROVE  /\ arrived \in Nat /\ arrived <= MessageCount /\ MessageCount \in Nat
         /\ tickets \in Nat /\ tickets <= arrived
         /\ \A m \in Messages : m \in Nat /\ m >= 1 /\ m <= MessageCount
<1>1. arrived \in 0 .. MessageCount /\ tickets \in 0 .. MessageCount /\ tickets <= arrived
  BY DEF TypeOK, ShapeInv
<1> QED
  BY <1>1, Sizes DEF Messages

\* The ring and the objects.
LEMMA SlotTypes ==
  ASSUME TypeOK
  PROVE  /\ DOMAIN slot = Slots
         /\ \A s \in Slots :
              /\ slot[s] \in [message : Messages \cup {None}, used : BOOLEAN,
                              answer : {"not_auth", "pending", "answered"}]
              /\ slot[s].message \in Messages \cup {None} /\ slot[s].used \in BOOLEAN
BY DEF TypeOK

\* The references, and the fields of the objects.
LEMMA ObjectTypes ==
  ASSUME TypeOK
  PROVE  /\ refs \in [Messages -> 0 .. 1] /\ slotOf \in [Messages -> Slots]
         /\ valid \in [Messages -> BOOLEAN]
BY DEF TypeOK

\* The queue is a sequence of slots.
LEMMA QueueTypes ==
  ASSUME TypeOK
  PROVE  /\ queue \in Seq(Slots) /\ Len(queue) \in Nat
         /\ \A k \in 1 .. Len(queue) : queue[k] \in Slots
<1>1. queue \in Seq(Slots)
  BY DEF TypeOK
<1> QED
  BY <1>1

\* An answer changes nothing else of a slot.
LEMMA AnswerOnly ==
  ASSUME TypeOK, NEW s, NEW who, AnswerSlot(s, who)
  PROVE  \A r \in Slots : slot'[r].message = slot[r].message /\ slot'[r].used = slot[r].used
<1>1. CASE slot' = [slot EXCEPT ![s].answer = "answered"]
  <2> SUFFICES ASSUME NEW r \in Slots PROVE slot'[r].message = slot[r].message /\ slot'[r].used = slot[r].used
    OBVIOUS
  <2>1. CASE r = s
    <3>1. slot'[r] = [slot[r] EXCEPT !.answer = "answered"]
      BY <1>1, <2>1, SlotTypes
    <3> QED
      BY <3>1, SlotTypes
  <2>2. CASE r # s
    BY <1>1, <2>2, SlotTypes
  <2> QED
    BY <2>1, <2>2
<1>2. CASE UNCHANGED slot
  BY <1>2
<1> QED
  BY <1>1, <1>2 DEF AnswerSlot

\* An answer, a loss or a fork leaves the messages where they are.
LEMMA AnswerKeeps ==
  ASSUME TypeOK, ShapeInv, SlotInv, ValidInv,
         UNCHANGED <<refs, queue, tickets, valid, slotOf>>,
         UNCHANGED slot \/ \E s, who : AnswerSlot(s, who),
         Lose \/ (forked' = TRUE /\ UNCHANGED arrived) \/ UNCHANGED <<arrived, forked>>
  PROVE  SlotInv' /\ ValidInv'
<1>0. UNCHANGED refs /\ UNCHANGED queue /\ UNCHANGED valid /\ UNCHANGED slotOf
  OBVIOUS
<1>1. \A s \in Slots : slot'[s].message = slot[s].message /\ slot'[s].used = slot[s].used
  BY AnswerOnly
<1>2. arrived' \in Nat /\ arrived <= arrived'
  BY CounterTypes DEF Lose
<1>f. ~forked' => ~forked
  BY DEF Lose, rubyVars
<1>3. SlotInv'
  <2>1. \A k \in 1 .. Len(queue) : slot'[queue[k]].used
    BY <1>1, QueueTypes DEF SlotInv
  <2>2. \A s \in Slots : slot'[s].used =>
          slot'[s].message \in Messages /\ slot'[s].message <= arrived' /\ refs[slot'[s].message] = 1
    BY <1>1, <1>2, CounterTypes DEF SlotInv
  <2>3. \A r, s \in Slots : slot'[r].used /\ slot'[s].used /\ slot'[r].message = slot'[s].message => r = s
    BY <1>1 DEF SlotInv
  <2>4. \A m \in Messages : m > arrived' => refs[m] = 0
    BY <1>2, CounterTypes DEF SlotInv
  <2> QED
    BY <1>0, <2>1, <2>2, <2>3, <2>4 DEF SlotInv
<1>4. ValidInv'
  <2> SUFFICES ASSUME ~forked' PROVE ValidInv'
    BY DEF ValidInv
  <2>1. /\ \A o \in Messages : valid'[o] => slot'[slotOf'[o]].used /\ slot'[slotOf'[o]].message = o
    BY <1>0, <1>1, <1>f, ObjectTypes DEF ValidInv
  <2>2. \A s \in Slots : slot'[s].used => (InQueue(s)' <=> ~valid'[slot'[s].message])
    BY <1>0, <1>1, <1>f DEF ValidInv, InQueue
  <2>3. \A m \in Messages : refs'[m] = 1 => \E s \in Slots : slot'[s].used /\ slot'[s].message = m
    BY <1>0, <1>1, <1>f DEF ValidInv
  <2> QED
    BY <2>1, <2>2, <2>3 DEF ValidInv
<1> QED
  BY <1>3, <1>4

\* handle_message puts a new message in a free slot at the end of the queue.
LEMMA HandleKeeps ==
  ASSUME TypeOK, ShapeInv, SlotInv, ValidInv, HandleMessage
  PROVE  SlotInv' /\ ValidInv'
<1>m. PICK m \in Messages : m = arrived + 1 /\ arrived' = m
  BY CounterTypes DEF HandleMessage, Messages
<1>s. PICK s \in Slots : s = tickets % Capacity
  BY CounterTypes, Sizes
<1>0. ~forked /\ ~forked' /\ UNCHANGED valid /\ UNCHANGED slotOf
  BY DEF HandleMessage, objectVars, rubyVars
<1>n. m \in Nat /\ arrived \in Nat /\ \A n \in Messages : n \in Nat
  BY CounterTypes
<1>u. \A r \in Slots : slot[r].used =>
        slot[r].message \in Messages /\ slot[r].message <= arrived /\ refs[slot[r].message] = 1
  BY DEF SlotInv
<1>v. \A r \in Slots : slot[r].used => slot[r].message <= m /\ slot[r].message # m
  <2> SUFFICES ASSUME NEW r \in Slots, slot[r].used PROVE slot[r].message <= m /\ slot[r].message # m
    OBVIOUS
  <2>1. slot[r].message \in Nat /\ slot[r].message <= arrived
    BY <1>u, <1>n
  <2> QED
    BY <1>m, <1>n, <2>1
<1>1. CASE slot[s].used
  <2>1. UNCHANGED refs /\ UNCHANGED slot /\ UNCHANGED queue
    BY <1>1, <1>s DEF HandleMessage, queueVars
  <2>2. SlotInv'
    <3>1. \A r \in Slots : slot[r].used =>
            slot[r].message \in Messages /\ slot[r].message <= arrived' /\ refs[slot[r].message] = 1
      BY <1>m, <1>u, <1>v
    <3>2. \A n \in Messages : n > arrived' => refs[n] = 0
      BY <1>m, <1>n DEF SlotInv
    <3> QED
      BY <2>1, <3>1, <3>2 DEF SlotInv
  <2>3. ValidInv'
    BY <1>0, <2>1 DEF ValidInv, InQueue
  <2> QED
    BY <2>2, <2>3
<1>2. CASE ~slot[s].used
  <2>0. PICK x : x = (IF Auth(m) THEN "pending" ELSE "not_auth")
    OBVIOUS
  <2>1. /\ refs' = [refs EXCEPT ![m] = 1]
        /\ slot' = [slot EXCEPT ![s] = [message |-> m, used |-> TRUE, answer |-> x]]
        /\ queue' = Append(queue, s)
    BY <1>2, <1>m, <1>s, <2>0 DEF HandleMessage
  <2>2. /\ slot'[s].used /\ slot'[s].message = m
        /\ \A r \in Slots : r # s => slot'[r] = slot[r]
    BY <2>1, SlotTypes
  <2>3. /\ refs'[m] = 1 /\ \A n \in Messages : n # m => refs'[n] = refs[n]
    BY <2>1, ObjectTypes
  <2>4. /\ Len(queue') = Len(queue) + 1 /\ queue'[Len(queue) + 1] = s
        /\ \A k \in 1 .. Len(queue) : queue'[k] = queue[k]
    BY <2>1, QueueTypes
  <2>5. \A k \in 1 .. Len(queue) : queue[k] # s
    BY <1>2, QueueTypes DEF SlotInv
  <2>6. \A r \in Slots : slot[r].used => slot[r].message # m /\ slot[r].message \in Messages
    BY <1>u, <1>v
  <2>q. /\ Len(queue) \in Nat /\ Len(queue) + 1 \in 1 .. Len(queue')
        /\ \A k \in 1 .. Len(queue') : k \in 1 .. Len(queue) \/ k = Len(queue) + 1
        /\ \A k \in 1 .. Len(queue) : k \in 1 .. Len(queue')
    BY <2>4, QueueTypes
  <2>7. SlotInv'
    <3>1. \A j, k \in 1 .. Len(queue') : queue'[j] = queue'[k] => j = k
      BY <2>4, <2>5, <2>q DEF SlotInv
    <3>2. \A k \in 1 .. Len(queue') : slot'[queue'[k]].used
      <4>1. \A k \in 1 .. Len(queue) : slot'[queue[k]] = slot[queue[k]] /\ slot[queue[k]].used
        BY <2>2, <2>5, QueueTypes DEF SlotInv
      <4> QED
        BY <2>2, <2>4, <2>q, <4>1
    <3>3. \A r \in Slots : slot'[r].used =>
            slot'[r].message \in Messages /\ slot'[r].message <= arrived' /\ refs'[slot'[r].message] = 1
      <4>1. ASSUME NEW r \in Slots, r # s, slot[r].used
            PROVE  slot[r].message \in Messages /\ slot[r].message <= m /\ refs'[slot[r].message] = 1
        BY <1>u, <1>v, <2>3, <4>1
      <4>2. slot'[s].message \in Messages /\ slot'[s].message <= m /\ refs'[slot'[s].message] = 1
        BY <1>n, <2>2, <2>3
      <4>3. \A r \in Slots : r # s /\ slot'[r].used =>
              slot'[r].message \in Messages /\ slot'[r].message <= m /\ refs'[slot'[r].message] = 1
        BY <2>2, <4>1
      <4> QED
        BY <1>m, <4>2, <4>3
    <3>4. \A q, r \in Slots : slot'[q].used /\ slot'[r].used /\ slot'[q].message = slot'[r].message => q = r
      BY <2>2, <2>6 DEF SlotInv
    <3>5. \A n \in Messages : n > arrived' => refs'[n] = 0
      BY <1>m, <1>n, <2>3 DEF SlotInv
    <3> QED
      BY <3>1, <3>2, <3>3, <3>4, <3>5 DEF SlotInv
  <2>8. ~valid[m]
    <3>1. valid[m] => slot[slotOf[m]].used /\ slot[slotOf[m]].message = m /\ slotOf[m] \in Slots
      BY <1>0, ObjectTypes DEF ValidInv
    <3> QED
      BY <2>6, <3>1
  <2>9. ValidInv'
    <3>1. \A o \in Messages : valid'[o] => slot'[slotOf'[o]].used /\ slot'[slotOf'[o]].message = o
      <4>1. \A o \in Messages : valid[o] => slotOf[o] \in Slots /\ slotOf[o] # s
        BY <1>0, <1>2, ObjectTypes DEF ValidInv
      <4> QED
        BY <1>0, <2>2, <4>1 DEF ValidInv
    <3>2. \A r \in Slots : slot'[r].used => (InQueue(r)' <=> ~valid'[slot'[r].message])
      <4>1. InQueue(s)'
        BY <2>4, <2>q DEF InQueue
      <4>2. \A r \in Slots : r # s => (InQueue(r)' <=> InQueue(r))
        BY <2>4, <2>q DEF InQueue
      <4>3. \A r \in Slots : slot[r].used => (InQueue(r) <=> ~valid[slot[r].message])
        BY <1>0 DEF ValidInv
      <4> QED
        BY <1>0, <2>2, <2>8, <4>1, <4>2, <4>3
    <3>3. \A n \in Messages : refs'[n] = 1 => \E r \in Slots : slot'[r].used /\ slot'[r].message = n
      <4>1. \A n \in Messages : refs[n] = 1 => \E r \in Slots : r # s /\ slot[r].used /\ slot[r].message = n
        BY <1>0, <1>2 DEF ValidInv
      <4> QED
        BY <2>2, <2>3, <4>1
    <3> QED
      BY <3>1, <3>2, <3>3 DEF ValidInv
  <2> QED
    BY <2>7, <2>9
<1> QED
  BY <1>1, <1>2

\* esrb_message_wrap: the oldest message of the queue gets a valid object.
LEMMA DrainKeeps ==
  ASSUME TypeOK, ShapeInv, SlotInv, ValidInv, Drain
  PROVE  SlotInv' /\ ValidInv'
<1>q. queue # <<>> /\ queue \in Seq(Slots) /\ Len(queue) \in Nat /\ Len(queue) >= 1 /\ 1 \in 1 .. Len(queue)
  BY QueueTypes DEF Drain
<1>s. PICK s \in Slots : s = queue[1] /\ s = Head(queue)
  BY <1>q, QueueTypes
<1>m. PICK m : m = slot[s].message
  OBVIOUS
<1>0. /\ ~forked /\ ~forked' /\ UNCHANGED refs /\ UNCHANGED slot /\ UNCHANGED arrived
  BY DEF Drain, esVars, rubyVars
<1>1. slot[s].used /\ m \in Messages /\ ~valid[m]
  <2>1. slot[s].used /\ InQueue(s)
    BY <1>q, <1>s DEF SlotInv, InQueue
  <2> QED
    BY <1>0, <1>m, <2>1 DEF SlotInv, ValidInv
<1>2. /\ valid' = [valid EXCEPT ![m] = TRUE] /\ slotOf' = [slotOf EXCEPT ![m] = s]
      /\ queue' = Tail(queue)
  BY <1>s, <1>m DEF Drain
<1>3. /\ Len(queue') = Len(queue) - 1 /\ \A k \in 1 .. Len(queue) - 1 : queue'[k] = queue[k + 1]
  BY <1>q, <1>2
<1>i. \A k \in 1 .. Len(queue') : k \in Nat /\ k + 1 \in 1 .. Len(queue) /\ k + 1 # 1 /\ queue'[k] = queue[k + 1]
  BY <1>q, <1>3
<1>4. SlotInv'
  <2>1. \A j, k \in 1 .. Len(queue') : queue'[j] = queue'[k] => j = k
    <3> SUFFICES ASSUME NEW j \in 1 .. Len(queue'), NEW k \in 1 .. Len(queue'), queue'[j] = queue'[k]
                 PROVE  j = k
      OBVIOUS
    <3>1. j + 1 = k + 1
      BY <1>i DEF SlotInv
    <3> QED
      BY <1>i, <3>1
  <2>2. \A k \in 1 .. Len(queue') : slot[queue'[k]].used
    BY <1>i DEF SlotInv
  <2> QED
    BY <1>0, <2>1, <2>2 DEF SlotInv
<1>5. ValidInv'
  <2>0. \A r \in Slots : r # s /\ slot[r].used => slot[r].message # m /\ slot[r].message \in Messages
    BY <1>1, <1>m DEF SlotInv
  <2>1. \A o \in Messages : valid'[o] => slot[slotOf'[o]].used /\ slot[slotOf'[o]].message = o
    BY <1>0, <1>1, <1>2, <1>m, ObjectTypes DEF ValidInv
  <2>2. \A r \in Slots : slot[r].used => (InQueue(r)' <=> ~valid'[slot[r].message])
    <3>1. ~InQueue(s)'
      BY <1>i, <1>s, <1>q DEF SlotInv, InQueue
    <3>2. ASSUME NEW r \in Slots, r # s PROVE InQueue(r)' <=> InQueue(r)
      <4>1. InQueue(r)' => InQueue(r)
        BY <1>i DEF InQueue
      <4>2. ASSUME NEW k \in 1 .. Len(queue), queue[k] = r PROVE InQueue(r)'
        <5>1. k # 1
          BY <1>s, <3>2, <4>2
        <5>2. k - 1 \in 1 .. Len(queue') /\ k - 1 + 1 = k
          BY <1>3, <1>q, <5>1
        <5>3. queue'[k - 1] = r
          BY <1>i, <5>2, <4>2
        <5> QED
          BY <5>2, <5>3 DEF InQueue
      <4> QED
        BY <4>1, <4>2 DEF InQueue
    <3>4. \A r \in Slots : r # s /\ slot[r].used => valid'[slot[r].message] = valid[slot[r].message]
      BY <1>2, <2>0, ObjectTypes
    <3>5. valid'[m]
      BY <1>1, <1>2, ObjectTypes
    <3>6. \A r \in Slots : slot[r].used => (InQueue(r) <=> ~valid[slot[r].message])
      BY <1>0 DEF ValidInv
    <3> QED
      BY <1>m, <3>1, <3>2, <3>4, <3>5, <3>6
  <2>3. \A n \in Messages : refs[n] = 1 => \E r \in Slots : slot[r].used /\ slot[r].message = n
    BY <1>0 DEF ValidInv
  <2> QED
    BY <1>0, <2>1, <2>2, <2>3 DEF ValidInv
<1> QED
  BY <1>4, <1>5

\* client_close_native gives back what is queued, and nothing else.
LEMMA CloseKeeps ==
  ASSUME TypeOK, ShapeInv, SlotInv, ValidInv, Close
  PROVE  SlotInv' /\ ValidInv'
<1> DEFINE queued == {queue[k] : k \in 1 .. Len(queue)}
<1>0. /\ ~forked /\ ~forked' /\ UNCHANGED valid /\ UNCHANGED slotOf /\ UNCHANGED arrived /\ queue' = <<>>
  BY DEF Close, objectVars, rubyVars
<1>1. \A s : s \in queued <=> InQueue(s)
  BY DEF InQueue
<1>2. \A m \in Messages : refs'[m] = IF \E s \in queued : slot[s].message = m THEN refs[m] - 1 ELSE refs[m]
  BY DEF Close
<1>3. \A s \in Slots : slot'[s] = [slot[s] EXCEPT !.used = @ /\ s \notin queued,
                                   !.answer = IF slot[s].used /\ @ = "pending" THEN "answered" ELSE @]
  BY DEF Close
<1> HIDE DEF queued
<1>4. \A s \in Slots : /\ slot'[s].message = slot[s].message
                       /\ slot'[s].used <=> slot[s].used /\ ~InQueue(s)
  BY <1>1, <1>3, SlotTypes
<1>5. \A s : InQueue(s) => s \in Slots /\ slot[s].used
  BY QueueTypes DEF InQueue, SlotInv
<1>6. ASSUME NEW s \in Slots, slot[s].used, ~InQueue(s)
      PROVE  refs'[slot[s].message] = refs[slot[s].message] /\ slot[s].message \in Messages
  <2>1. slot[s].message \in Messages
    BY <1>6 DEF SlotInv
  <2>2. ~\E r \in queued : slot[r].message = slot[s].message
    BY <1>1, <1>5, <1>6 DEF SlotInv
  <2> QED
    BY <1>2, <2>1, <2>2
<1>7. SlotInv'
  <2>1. Len(queue') = 0
    BY <1>0
  <2>2. \A s \in Slots : slot'[s].used =>
          slot'[s].message \in Messages /\ slot'[s].message <= arrived' /\ refs'[slot'[s].message] = 1
    BY <1>0, <1>4, <1>6 DEF SlotInv
  <2>3. \A r, s \in Slots : slot'[r].used /\ slot'[s].used /\ slot'[r].message = slot'[s].message => r = s
    BY <1>4 DEF SlotInv
  <2>4. ASSUME NEW m \in Messages, m > arrived' PROVE refs'[m] = 0
    <3>1. ~\E r \in queued : slot[r].message = m
      <4> SUFFICES ASSUME NEW r \in queued, slot[r].message = m PROVE FALSE
        OBVIOUS
      <4>1. m <= arrived
        BY <1>1, <1>5 DEF SlotInv
      <4> QED
        BY <1>0, <2>4, <4>1, CounterTypes
    <3> QED
      BY <1>0, <1>2, <2>4, <3>1 DEF SlotInv
  <2> QED
    BY <2>1, <2>2, <2>3, <2>4 DEF SlotInv
<1>8. ValidInv'
  <2>v. /\ \A o \in Messages : valid[o] => slot[slotOf[o]].used /\ slot[slotOf[o]].message = o
        /\ \A s \in Slots : slot[s].used => (InQueue(s) <=> ~valid[slot[s].message])
        /\ \A m \in Messages : refs[m] = 1 => \E s \in Slots : slot[s].used /\ slot[s].message = m
    BY <1>0 DEF ValidInv
  <2>1. \A o \in Messages : valid'[o] => slot'[slotOf'[o]].used /\ slot'[slotOf'[o]].message = o
    BY <1>0, <1>4, <2>v, ObjectTypes
  <2>2. \A s : ~InQueue(s)'
    BY <1>0 DEF InQueue
  <2>3. \A s \in Slots : slot'[s].used => valid'[slot'[s].message]
    BY <1>0, <1>4, <2>v
  <2>4. ASSUME NEW m \in Messages, refs'[m] = 1
        PROVE  \E s \in Slots : slot'[s].used /\ slot'[s].message = m
    <3>1. refs[m] \in 0 .. 1
      BY ObjectTypes
    <3>2. refs[m] = 1 /\ ~\E r \in queued : slot[r].message = m
      BY <1>2, <2>4, <3>1
    <3>3. PICK s \in Slots : slot[s].used /\ slot[s].message = m
      BY <2>v, <3>2
    <3> QED
      BY <1>1, <1>4, <3>2, <3>3
  <2> QED
    BY <2>1, <2>2, <2>3, <2>4 DEF ValidInv
<1> QED
  BY <1>7, <1>8

\* message_release of a valid object in the process of the client.
LEMMA GiveBackEffect ==
  ASSUME TypeOK, NEW o \in Messages, NEW s \in Slots, s = slotOf[o], slot[s].message = o, GiveBack(o)
  PROVE  /\ \A r \in Slots : slot'[r].message = slot[r].message
         /\ ~slot'[s].used /\ \A r \in Slots : r # s => slot'[r].used = slot[r].used
         /\ refs' = [refs EXCEPT ![o] = refs[o] - 1]
<1>1. PICK x : slot' = [slot EXCEPT ![s].used = FALSE, ![s].answer = x]
  BY DEF GiveBack
<1>2. slot'[s].message = slot[s].message /\ ~slot'[s].used
  BY <1>1, SlotTypes
<1>3. \A r \in Slots : r # s => slot'[r] = slot[r]
  BY <1>1, SlotTypes
<1>4. refs' = [refs EXCEPT ![o] = refs[o] - 1]
  BY DEF GiveBack
<1> QED
  BY <1>2, <1>3, <1>4

\* message_release keeps the rest of the ring; in a child process it only
\* ends the object.
LEMMA ReleaseKeeps ==
  ASSUME TypeOK, ShapeInv, SlotInv, ValidInv, NEW o \in Messages, valid[o], MessageRelease(o),
         UNCHANGED <<arrived, queue, tickets, slotOf, forked>>
  PROVE  SlotInv' /\ ValidInv'
<1>0. UNCHANGED arrived /\ UNCHANGED queue /\ UNCHANGED slotOf /\ UNCHANGED forked
  OBVIOUS
<1>1. valid' = [valid EXCEPT ![o] = FALSE]
  BY DEF MessageRelease
<1>2. CASE forked
  <2>1. UNCHANGED refs /\ UNCHANGED slot
    BY <1>2 DEF MessageRelease
  <2> QED
    BY <1>0, <1>2, <2>1 DEF SlotInv, ValidInv
<1>3. CASE ~forked
  <2>v. /\ \A n \in Messages : valid[n] => slot[slotOf[n]].used /\ slot[slotOf[n]].message = n
        /\ \A r \in Slots : slot[r].used => (InQueue(r) <=> ~valid[slot[r].message])
        /\ \A n \in Messages : refs[n] = 1 => \E r \in Slots : slot[r].used /\ slot[r].message = n
    BY <1>3 DEF ValidInv
  <2>s. PICK s \in Slots : s = slotOf[o]
    BY ObjectTypes
  <2>1. slot[s].used /\ slot[s].message = o
    BY <2>v, <2>s
  <2>2. /\ \A r \in Slots : slot'[r].message = slot[r].message
        /\ ~slot'[s].used /\ \A r \in Slots : r # s => slot'[r].used = slot[r].used
        /\ refs' = [refs EXCEPT ![o] = refs[o] - 1]
    <3>1. GiveBack(o)
      BY <1>3 DEF MessageRelease
    <3> QED
      BY <2>s, <2>1, <3>1, GiveBackEffect
  <2>3. refs'[o] = 0 /\ \A n \in Messages : n # o => refs'[n] = refs[n]
    <3>1. refs[o] = 1
      BY <2>1 DEF SlotInv
    <3> QED
      BY <2>2, <3>1, ObjectTypes
  <2>4. \A r \in Slots : slot'[r].used => r # s /\ slot[r].used
    BY <2>2
  <2>5. \A r \in Slots : r # s /\ slot[r].used => slot[r].message # o /\ slot[r].message \in Messages
    BY <2>1 DEF SlotInv
  <2>6. \A k \in 1 .. Len(queue) : queue[k] # s
    BY <2>v, <2>1 DEF InQueue
  <2>7. SlotInv'
    <3>1. \A k \in 1 .. Len(queue) : slot'[queue[k]].used
      BY <2>2, <2>6, QueueTypes DEF SlotInv
    <3>2. \A r \in Slots : slot'[r].used =>
            slot'[r].message \in Messages /\ slot'[r].message <= arrived /\ refs'[slot'[r].message] = 1
      BY <2>2, <2>3, <2>4, <2>5 DEF SlotInv
    <3>3. \A q, r \in Slots : slot'[q].used /\ slot'[r].used /\ slot'[q].message = slot'[r].message => q = r
      BY <2>2, <2>4 DEF SlotInv
    <3>4. \A n \in Messages : n > arrived => refs'[n] = 0
      BY <2>3 DEF SlotInv
    <3> QED
      BY <1>0, <3>1, <3>2, <3>3, <3>4 DEF SlotInv
  <2>8. ValidInv'
    <3>1. \A n \in Messages : valid'[n] => n # o /\ valid[n]
      BY <1>1, ObjectTypes
    <3>2. \A n \in Messages : valid[n] /\ n # o => slotOf[n] \in Slots /\ slotOf[n] # s
      BY <2>1, <2>v, ObjectTypes
    <3>3. \A n \in Messages : valid'[n] => slot'[slotOf[n]].used /\ slot'[slotOf[n]].message = n
      BY <2>2, <2>v, <3>1, <3>2
    <3>4. \A r \in Slots : slot'[r].used => (InQueue(r) <=> ~valid'[slot'[r].message])
      <4>1. \A n \in Messages : n # o => valid'[n] = valid[n]
        BY <1>1, ObjectTypes
      <4> QED
        BY <2>2, <2>4, <2>5, <2>v, <4>1
    <3>5. \A n \in Messages : refs'[n] = 1 => \E r \in Slots : slot'[r].used /\ slot'[r].message = n
      <4> SUFFICES ASSUME NEW n \in Messages, refs'[n] = 1
                   PROVE  \E r \in Slots : slot'[r].used /\ slot'[r].message = n
        OBVIOUS
      <4>1. n # o /\ refs[n] = 1
        BY <2>3
      <4>2. PICK r \in Slots : slot[r].used /\ slot[r].message = n
        BY <2>v, <4>1
      <4> QED
        BY <2>1, <2>2, <4>1, <4>2
    <3>6. \A r : InQueue(r)' <=> InQueue(r)
      BY <1>0 DEF InQueue
    <3> QED
      BY <1>0, <3>3, <3>4, <3>5, <3>6 DEF ValidInv
  <2> QED
    BY <2>7, <2>8
<1> QED
  BY <1>2, <1>3

\* The ring and the objects stay consistent.
LEMMA SlotStep ==
  ASSUME TypeOK, ShapeInv, SlotInv, ValidInv, Next
  PROVE  SlotInv' /\ ValidInv'
BY ObjectFrame, AnswerKeeps, HandleKeeps, DrainKeeps, CloseKeeps, ReleaseKeeps
-----------------------------------------------------------------------------
(***************************************************************************)
(* The sequence numbers.                                                   *)
(***************************************************************************)

\* The sets of messages are finite and no larger than the stream.
LEMMA Finite ==
  ASSUME NEW S, S \subseteq Messages
  PROVE  IsFiniteSet(S) /\ Cardinality(S) \in 0 .. MessageCount
<1>1. IsFiniteSet(Messages) /\ Cardinality(Messages) <= MessageCount
  <2>1. 1 \in Int /\ MessageCount \in Int /\ MessageCount \in Nat
    BY Sizes
  <2>2. /\ IsFiniteSet(1 .. MessageCount)
        /\ Cardinality(1 .. MessageCount) = IF 1 > MessageCount THEN 0 ELSE MessageCount - 1 + 1
    BY <2>1, FS_Interval
  <2> QED
    BY <2>1, <2>2 DEF Messages
<1>2. IsFiniteSet(S) /\ Cardinality(S) <= Cardinality(Messages)
  BY <1>1, FS_Subset
<1>3. Cardinality(S) \in Nat /\ Cardinality(Messages) \in Nat
  BY <1>1, <1>2, FS_CardinalityType
<1> QED
  BY <1>1, <1>2, <1>3, Sizes

\* Two sets with nothing in common are counted one after the other.
LEMMA CountDisjoint ==
  ASSUME NEW S, NEW T, S \subseteq Messages, T \subseteq Messages, S \cap T = {}
  PROVE  Cardinality(S \cup T) = Cardinality(S) + Cardinality(T)
<1>1. IsFiniteSet(S) /\ IsFiniteSet(T) /\ Cardinality(S) \in Nat /\ Cardinality(T) \in Nat
  BY Finite
<1>2. Cardinality(S \cup T) = Cardinality(S) + Cardinality(T) - Cardinality(S \cap T)
  BY <1>1, FS_Union
<1>3. Cardinality(S \cap T) = 0
  BY FS_EmptySet
<1> QED
  BY <1>1, <1>2, <1>3

\* The messages of one counter between two others.
Between(l, m) == {x \in Messages : l < x /\ x < m /\ Key(x) = Key(m)}

\* The number of a message is at most the size of the stream.
LEMMA NumberType ==
  ASSUME NEW m \in Messages
  PROVE  Number(m) \in 0 .. MessageCount
<1>1. {k \in 1 .. m - 1 : Key(k) = Key(m)} \subseteq Messages
  BY Sizes DEF Messages
<1> QED
  BY <1>1, Finite DEF Number

\* Endpoint Security numbers the messages of a counter without a gap.
LEMMA NumberBetween ==
  ASSUME NEW l \in Messages, NEW m \in Messages, l < m, Key(l) = Key(m)
  PROVE  Number(m) = Number(l) + 1 + Cardinality(Between(l, m))
<1> DEFINE A == {k \in 1 .. l - 1 : Key(k) = Key(l)}
           B == {k \in 1 .. m - 1 : Key(k) = Key(m)}
<1>0. MessageCount \in Nat /\ Messages = 1 .. MessageCount /\ l \in 1 .. MessageCount /\ m \in 1 .. MessageCount
  BY Sizes DEF Messages
<1>1. A \subseteq Messages /\ {l} \subseteq Messages /\ A \cap {l} = {}
  BY <1>0
<1>2. A \cup {l} \subseteq Messages /\ Between(l, m) \subseteq Messages /\ (A \cup {l}) \cap Between(l, m) = {}
  <2>1. A \cup {l} \subseteq Messages /\ \A k \in A \cup {l} : ~(l < k)
    BY <1>0
  <2>2. Between(l, m) \subseteq Messages /\ \A k \in Between(l, m) : l < k
    BY DEF Between
  <2> HIDE DEF A
  <2> QED
    BY <2>1, <2>2
<1>3. B = (A \cup {l}) \cup Between(l, m)
  <2>1. \A k \in B : k \in (A \cup {l}) \cup Between(l, m)
    BY <1>0 DEF Between
  <2>2. \A k \in (A \cup {l}) \cup Between(l, m) : k \in B
    BY <1>0 DEF Between
  <2> QED
    BY <2>1, <2>2
<1>4. Cardinality(B) = Cardinality(A \cup {l}) + Cardinality(Between(l, m))
  BY <1>2, <1>3, CountDisjoint
<1>5. Cardinality(A \cup {l}) = Cardinality(A) + 1
  <2>1. Cardinality(A \cup {l}) = Cardinality(A) + Cardinality({l})
    BY <1>1, CountDisjoint
  <2>2. Cardinality({l}) = 1
    BY FS_Singleton
  <2> QED
    BY <2>1, <2>2
<1>6. Cardinality(A) \in Nat /\ Cardinality(Between(l, m)) \in Nat
  BY <1>1, <1>2, Finite
<1> QED
  BY <1>4, <1>5, <1>6 DEF Number

\* The messages of a stream keep their numbers.
LEMMA KeyFrame ==
  ASSUME UNCHANGED stream
  PROVE  /\ Version' = Version /\ Keys' = Keys
         /\ \A m : Key(m)' = Key(m) /\ Number(m)' = Number(m)
BY DEF Version, Keys, Key, Number, EventOf

\* Every message has a counter.
LEMMA KeyType ==
  ASSUME NEW m \in Messages
  PROVE  Key(m) \in Keys
BY DEF Key, Keys

\* A lost message is nothing the counters know of yet.
LEMMA LoseGaps ==
  ASSUME TypeOK, ShapeInv, SeqInv, GapInv, Lose
  PROVE  SeqInv' /\ GapInv'
<1>m. PICK m \in Messages : m = arrived + 1 /\ arrived' = m
  BY CounterTypes DEF Lose, Messages
<1>0. /\ UNCHANGED stream /\ UNCHANGED last_seq /\ UNCHANGED seen_seq /\ UNCHANGED seq_gaps
      /\ lost' = lost \cup {m}
  BY <1>m DEF Lose, seqVars
<1>n. arrived \in Nat /\ m \in Nat
  BY CounterTypes
<1>1. Delivered' = Delivered
  <2>1. (1 .. m) \ (lost \cup {m}) = (1 .. arrived) \ lost
    BY <1>m, <1>n
  <2> QED
    BY <1>0, <1>m, <2>1 DEF Delivered
<1>k. /\ Version' = Version /\ Keys' = Keys /\ \A x : Key(x)' = Key(x) /\ Number(x)' = Number(x)
  BY <1>0, KeyFrame
<1>2. SeqInv'
  BY <1>0, <1>1, <1>k DEF SeqInv, IsLast
<1>3. GapSet' = GapSet
  <2>1. \A b \in Delivered : b < m
    BY <1>m, <1>n DEF Delivered
  <2>2. \A b \in Delivered : ~(m < b)
    BY <2>1, <1>n DEF Delivered
  <2> QED
    BY <1>0, <1>1, <1>k, <2>2 DEF GapSet
<1>4. GapInv'
  BY <1>0, <1>3, <1>k DEF GapInv
<1> QED
  BY <1>2, <1>4

\* A message of a counter that has been seen closes the gap before it: the
\* messages since the last one delivered were all lost.
LEMMA GapCloses ==
  ASSUME NEW k, NEW m \in Messages, NEW l \in Messages, TypeOK, ShapeInv,
         m = arrived + 1, k = Key(m), IsLast(k, l), UNCHANGED stream, UNCHANGED lost,
         arrived' = m
  PROVE  /\ l < m /\ Key(l) = Key(m)
         /\ GapSet' = GapSet \cup Between(l, m) /\ GapSet \cap Between(l, m) = {}
         /\ GapSet \subseteq Messages
<1>n. arrived \in Nat /\ m \in Nat /\ \A x \in Messages : x \in Nat /\ x >= 1 /\ x <= MessageCount
  BY CounterTypes
<1>k. \A x : Key(x)' = Key(x)
  BY KeyFrame
<1>l. l \in Delivered /\ Key(l) = Key(m) /\ l <= arrived /\ l < m
  BY <1>n DEF IsLast, Delivered
<1>s. lost \subseteq 1 .. arrived /\ lost \subseteq Messages
  BY DEF ShapeInv, TypeOK
<1>b. \A b \in Delivered : b \in Nat /\ b <= arrived /\ (Key(b) = Key(m) => b <= l)
  BY <1>n DEF IsLast, Delivered
<1>1. Delivered' = Delivered \cup {m}
  <2>1. (1 .. m) \ lost = ((1 .. arrived) \ lost) \cup {m}
    BY <1>n, <1>s
  <2> QED
    BY <2>1 DEF Delivered
<1>2. \A x \in GapSet : x \in GapSet'
  BY <1>1, <1>k DEF GapSet
<1>3. \A x \in Between(l, m) : x \in lost
  <2> SUFFICES ASSUME NEW x \in Between(l, m), x \notin lost PROVE FALSE
    OBVIOUS
  <2>1. x \in Messages /\ l < x /\ x < m /\ Key(x) = Key(m)
    BY DEF Between
  <2>2. x \in Delivered
    BY <1>n, <2>1 DEF Delivered
  <2> QED
    BY <1>b, <1>n, <2>1, <2>2
<1>4. \A x \in Between(l, m) : x \in GapSet'
  <2> SUFFICES ASSUME NEW x \in Between(l, m) PROVE x \in GapSet'
    OBVIOUS
  <2>1. l < x /\ x < m /\ Key(x) = Key(m) /\ x \in lost
    BY <1>3 DEF Between
  <2> QED
    BY <1>1, <1>k, <1>l, <2>1 DEF GapSet
<1>5. ASSUME NEW x \in GapSet', x \notin Between(l, m) PROVE x \in GapSet
  <2>1. PICK a \in Delivered \cup {m}, b \in Delivered \cup {m} :
          a < x /\ x < b /\ Key(a) = Key(x) /\ Key(b) = Key(x)
    BY <1>1, <1>k DEF GapSet
  <2>2. x \in lost /\ x \in Messages /\ x \in Nat /\ x < m
    BY <1>n, <1>s DEF GapSet
  <2>3. a \in Delivered
    BY <1>n, <2>1, <2>2
  <2>4. CASE b \in Delivered
    BY <2>1, <2>2, <2>3, <2>4 DEF GapSet
  <2>5. CASE b = m
    <3>1. Key(x) = Key(m) /\ ~(l < x)
      BY <1>5, <2>1, <2>2, <2>5 DEF Between
    <3>2. l # x
      BY <1>l, <2>2 DEF Delivered
    <3>3. x < l
      BY <1>n, <2>2, <3>1, <3>2
    <3> QED
      BY <1>l, <2>1, <2>2, <2>3, <3>1, <3>3 DEF GapSet
  <2> QED
    BY <2>1, <2>4, <2>5
<1>6. ASSUME NEW x \in GapSet, x \in Between(l, m) PROVE FALSE
  <2>1. PICK b \in Delivered : x < b /\ Key(b) = Key(x)
    BY DEF GapSet
  <2>2. l < x /\ Key(x) = Key(m) /\ x \in Nat
    BY <1>6, <1>n DEF Between
  <2> QED
    BY <1>b, <1>n, <2>1, <2>2
<1>7. GapSet \subseteq Messages
  BY <1>s DEF GapSet
<1> QED
  BY <1>l, <1>2, <1>4, <1>5, <1>6, <1>7

\* record_sequence_gaps counts the messages lost since the last one of the
\* same counter.
LEMMA HandleGaps ==
  ASSUME TypeOK, ShapeInv, SeqInv, GapInv, HandleMessage
  PROVE  SeqInv' /\ GapInv'
<1>m. PICK m \in Messages : m = arrived + 1 /\ arrived' = m
  BY CounterTypes DEF HandleMessage, Messages
<1>0. UNCHANGED stream /\ UNCHANGED lost /\ RecordSequenceGaps(m)
  BY <1>m DEF HandleMessage
<1>n. arrived \in Nat /\ m \in Nat /\ \A x \in Messages : x \in Nat /\ x >= 1 /\ x <= MessageCount
  BY CounterTypes
<1>k. /\ Version' = Version /\ Keys' = Keys /\ \A x : Key(x)' = Key(x) /\ Number(x)' = Number(x)
  BY <1>0, KeyFrame
<1>1. CASE Version < 2
  <2>1. UNCHANGED seq_gaps
    BY <1>0, <1>1 DEF RecordSequenceGaps, seqVars
  <2>2. ~(Version >= 2)
    BY <1>1, MessageAssumption DEF Version, TypeOK
  <2> QED
    BY <1>1, <1>k, <2>1, <2>2 DEF SeqInv, GapInv
<1>2. CASE ~(Version < 2)
  <2>v. Version >= 2
    BY <1>2, MessageAssumption DEF Version, TypeOK
  <2>k. PICK k \in Keys : k = Key(m)
    BY KeyType
  <2>1. /\ last_seq' = [last_seq EXCEPT ![k] = Number(m)]
        /\ seen_seq' = [seen_seq EXCEPT ![k] = TRUE]
        /\ seq_gaps' = IF seen_seq[k] /\ Number(m) > last_seq[k] + 1
                         THEN seq_gaps + Number(m) - last_seq[k] - 1 ELSE seq_gaps
    BY <1>0, <1>2, <2>k DEF RecordSequenceGaps
  <2>d. DOMAIN last_seq = Keys /\ DOMAIN seen_seq = Keys
    BY DEF TypeOK, ShapeInv
  <2>2. last_seq'[k] = Number(m) /\ seen_seq'[k]
        /\ \A j \in Keys : j # k => last_seq'[j] = last_seq[j] /\ seen_seq'[j] = seen_seq[j]
    BY <2>1, <2>d
  <2>3. Delivered' = Delivered \cup {m}
    <3>0. lost \subseteq 1 .. arrived
      BY DEF ShapeInv
    <3>1. (1 .. m) \ lost = ((1 .. arrived) \ lost) \cup {m}
      BY <1>m, <1>n, <3>0
    <3> QED
      BY <1>0, <1>m, <3>1 DEF Delivered
  <2>4. IsLast(k, m)'
    <3>1. \A b \in Delivered : b <= m
      BY <1>m, <1>n DEF Delivered
    <3>2. m <= m
      BY <1>n
    <3> QED
      BY <1>k, <2>3, <2>k, <3>1, <3>2 DEF IsLast
  <2>5. \A j \in Keys, l \in Messages : j # k => (IsLast(j, l)' <=> IsLast(j, l))
    BY <1>k, <2>3, <2>k DEF IsLast
  <2>6. SeqInv'
    <3> SUFFICES ASSUME NEW j \in Keys
                 PROVE  /\ seen_seq'[j] => \E l \in Messages : IsLast(j, l)' /\ last_seq'[j] = Number(l)
                        /\ ~seen_seq'[j] => \A b \in Delivered' : Key(b) # j
      BY <1>k DEF SeqInv
    <3>1. CASE j = k
      BY <2>2, <2>4, <3>1
    <3>2. CASE j # k
      <4>1. /\ seen_seq[j] => \E l \in Messages : IsLast(j, l) /\ last_seq[j] = Number(l)
            /\ ~seen_seq[j] => \A b \in Delivered : Key(b) # j
        BY <2>v DEF SeqInv
      <4> QED
        BY <2>2, <2>3, <2>5, <2>k, <3>2, <4>1
    <3> QED
      BY <3>1, <3>2
  <2>7. GapInv'
    <3>0. seq_gaps = Cardinality(GapSet) /\ (GapInv' <=> seq_gaps' = Cardinality(GapSet'))
      BY <1>2, <1>k DEF GapInv
    <3>1. CASE ~seen_seq[k]
      <4>1. \A b \in Delivered : Key(b) # k
        BY <2>v, <3>1 DEF SeqInv
      <4>2. GapSet' = GapSet
        <5>1. \A x \in lost : x < m /\ x \in Nat
          BY <1>m, <1>n DEF ShapeInv
        <5>2. \A x \in GapSet : x \in GapSet'
          BY <1>0, <1>k, <2>3 DEF GapSet
        <5>3. ASSUME NEW x \in GapSet' PROVE x \in GapSet
          <6>1. PICK a \in Delivered \cup {m}, b \in Delivered \cup {m} :
                  a < x /\ x < b /\ Key(a) = Key(x) /\ Key(b) = Key(x)
            BY <1>k, <2>3 DEF GapSet
          <6>2. x \in lost /\ x < m /\ x \in Nat
            BY <1>0, <5>1 DEF GapSet
          <6>3. a \in Delivered
            BY <1>n, <6>1, <6>2
          <6>4. b \in Delivered
            BY <2>k, <4>1, <6>1, <6>3
          <6> QED
            BY <6>1, <6>2, <6>3, <6>4 DEF GapSet
        <5> QED
          BY <5>2, <5>3
      <4> QED
        BY <2>1, <3>0, <3>1, <4>2
    <3>2. CASE seen_seq[k]
      <4>l. PICK l \in Messages : IsLast(k, l) /\ last_seq[k] = Number(l)
        BY <2>v, <3>2 DEF SeqInv
      <4>1. /\ l < m /\ Key(l) = Key(m)
            /\ GapSet' = GapSet \cup Between(l, m) /\ GapSet \cap Between(l, m) = {}
            /\ GapSet \subseteq Messages
        BY <1>0, <1>m, <2>k, <4>l, GapCloses
      <4>2. Between(l, m) \subseteq Messages
        BY DEF Between
      <4>3. Cardinality(GapSet') = Cardinality(GapSet) + Cardinality(Between(l, m))
        BY <4>1, <4>2, CountDisjoint
      <4>4. Number(m) = Number(l) + 1 + Cardinality(Between(l, m))
        BY <4>1, NumberBetween
      <4>5. Number(l) \in Nat /\ Cardinality(Between(l, m)) \in Nat /\ Cardinality(GapSet) \in Nat
        BY <4>1, <4>2, NumberType, Finite, Sizes
      <4>6. seq_gaps' = IF Number(m) > Number(l) + 1
                          THEN seq_gaps + Number(m) - Number(l) - 1 ELSE seq_gaps
        BY <2>1, <3>2, <4>l
      <4> QED
        BY <3>0, <4>3, <4>4, <4>5, <4>6
    <3> QED
      BY <3>1, <3>2
  <2> QED
    BY <2>6, <2>7
<1> QED
  BY <1>1, <1>2

\* The counters stay right.
LEMMA GapStep ==
  ASSUME TypeOK, ShapeInv, SeqInv, GapInv, Next
  PROVE  SeqInv' /\ GapInv'
<1>1. CASE Lose
  BY <1>1, LoseGaps
<1>2. CASE HandleMessage
  BY <1>2, HandleGaps
<1>3. CASE UNCHANGED <<arrived, lost, last_seq, seen_seq, seq_gaps>>
  <2>0. UNCHANGED arrived /\ UNCHANGED lost /\ UNCHANGED last_seq /\ UNCHANGED seen_seq /\ UNCHANGED seq_gaps
    BY <1>3
  <2>1. Version' = Version /\ Keys' = Keys /\ \A x : Key(x)' = Key(x) /\ Number(x)' = Number(x)
    BY ArrivalFrame, KeyFrame
  <2>2. Delivered' = Delivered
    BY <2>0 DEF Delivered
  <2>3. GapSet' = GapSet
    BY <2>0, <2>1, <2>2 DEF GapSet
  <2> QED
    BY <2>0, <2>1, <2>2, <2>3 DEF SeqInv, IsLast, GapInv
<1> QED
  BY <1>1, <1>2, <1>3, ArrivalFrame
-----------------------------------------------------------------------------
(***************************************************************************)
(* Leaks, calls and reads.                                                 *)
(***************************************************************************)

\* A message that was given back stays given back.
LEMMA GoneGrows ==
  ASSUME TypeOK, ShapeInv, SlotInv, ValidInv, Next
  PROVE  Gone \subseteq Gone' /\ arrived' \in 0 .. MessageCount /\ Gone' \subseteq Messages
<1>n. /\ arrived \in Nat /\ arrived <= MessageCount /\ MessageCount \in Nat
      /\ \A m \in Messages : m \in Nat /\ m >= 1 /\ m <= MessageCount
  BY CounterTypes
<1>1. arrived' \in 0 .. MessageCount /\ arrived <= arrived'
  <2>1. (arrived < MessageCount /\ arrived' = arrived + 1) \/ UNCHANGED arrived
    BY ArrivalFrame DEF Lose, HandleMessage
  <2> QED
    BY <1>n, <2>1
<1>2. Gone' \subseteq Messages
  BY <1>1, Sizes DEF Gone, Messages
<1>3. ASSUME NEW m \in Messages, m <= arrived, refs[m] = 0 PROVE refs'[m] = 0
  <2>1. CASE UNCHANGED refs
    BY <1>3, <2>1
  <2>2. CASE HandleMessage
    <3>1. UNCHANGED refs \/ refs' = [refs EXCEPT ![arrived + 1] = 1]
      BY <2>2 DEF HandleMessage
    <3>2. m # arrived + 1
      BY <1>n, <1>3
    <3> QED
      BY <1>3, <3>1, <3>2, ObjectTypes
  <2>3. CASE Close
    <3>1. ~\E k \in 1 .. Len(queue) : slot[queue[k]].message = m
      BY <1>3, QueueTypes DEF SlotInv
    <3>2. refs'[m] = IF \E s \in {queue[k] : k \in 1 .. Len(queue)} : slot[s].message = m
                       THEN refs[m] - 1 ELSE refs[m]
      BY <2>3 DEF Close
    <3> QED
      BY <1>3, <3>1, <3>2
  <2>4. CASE \E o \in Messages : valid[o] /\ MessageRelease(o)
    <3>1. PICK o \in Messages : valid[o] /\ MessageRelease(o)
      BY <2>4
    <3>2. CASE forked
      BY <1>3, <3>1, <3>2 DEF MessageRelease
    <3>3. CASE ~forked
      <4>1. slot[slotOf[o]].message = o /\ slot[slotOf[o]].used /\ slotOf[o] \in Slots
        BY <3>1, <3>3, ObjectTypes DEF ValidInv
      <4>2. refs[o] = 1
        BY <4>1 DEF SlotInv
      <4>3. refs' = [refs EXCEPT ![o] = refs[o] - 1]
        BY <3>1, <3>3, <4>1 DEF MessageRelease, GiveBack
      <4> QED
        BY <1>3, <4>2, <4>3, ObjectTypes
    <3> QED
      BY <3>2, <3>3
  <2> QED
    BY <2>1, <2>2, <2>3, <2>4, ObjectFrame DEF Drain, esVars
<1>4. \A m \in Gone : m \in Gone'
  <2>1. \A m \in Gone : m \in Messages /\ m <= arrived /\ refs[m] = 0 /\ m \in 1 .. arrived'
    BY <1>n, <1>1 DEF Gone, Messages
  <2> QED
    BY <1>3, <2>1 DEF Gone
<1> QED
  BY <1>1, <1>2, <1>4

\* message_free counts a leak when it gives a retained message back.
LEMMA LeakStep ==
  ASSUME TypeOK, ShapeInv, SlotInv, ValidInv, LeakInv, Next
  PROVE  LeakInv' /\ leaked_messages' \in 0 .. MessageCount
<1>0. Gone \subseteq Gone' /\ Gone' \subseteq Messages
  BY GoneGrows
<1>1. /\ IsFiniteSet(Gone) /\ IsFiniteSet(Gone') /\ Cardinality(Gone) \in 0 .. MessageCount
      /\ Cardinality(Gone') \in 0 .. MessageCount /\ Cardinality(Gone) <= Cardinality(Gone')
  <2>1. Gone \subseteq Messages
    BY <1>0
  <2> QED
    BY <1>0, <2>1, Finite, FS_Subset
<1>n. leaked_messages \in 0 .. MessageCount /\ MessageCount \in Nat
  BY Sizes DEF TypeOK
<1>2. CASE UNCHANGED leaked_messages
  BY <1>1, <1>2, <1>n DEF LeakInv
<1>3. ASSUME NEW o \in Messages, Collect(o), leaked_messages' = leaked_messages + 1, ~forked
      PROVE  LeakInv' /\ leaked_messages' \in 0 .. MessageCount
  <2>1. valid[o] /\ MessageRelease(o) /\ UNCHANGED arrived
    BY <1>3 DEF Collect
  <2>2. slot[slotOf[o]].message = o /\ slot[slotOf[o]].used /\ slotOf[o] \in Slots
    BY <1>3, <2>1, ObjectTypes DEF ValidInv
  <2>3. refs[o] = 1 /\ o <= arrived
    BY <2>2 DEF SlotInv
  <2>4. refs' = [refs EXCEPT ![o] = refs[o] - 1]
    BY <1>3, <2>1, <2>2 DEF MessageRelease, GiveBack
  <2>5. refs'[o] = 0
    BY <2>3, <2>4, ObjectTypes
  <2>6. o \in Gone' /\ o \notin Gone
    BY <2>1, <2>3, <2>5, CounterTypes DEF Gone
  <2>7. Cardinality(Gone \cup {o}) = Cardinality(Gone) + 1 /\ Gone \cup {o} \subseteq Gone'
    BY <1>0, <1>1, <2>6, FS_AddElement
  <2>8. Cardinality(Gone \cup {o}) <= Cardinality(Gone')
    BY <1>1, <2>7, FS_Subset
  <2> QED
    BY <1>1, <1>3, <1>n, <2>7, <2>8 DEF LeakInv
<1> QED
  BY <1>2, <1>3, LeakFrame DEF Collect

\* The child of a fork is in no call.
LEMMA ForkStep ==
  ASSUME TypeOK, ForkInv, Next
  PROVE  ForkInv'
<1>0. call \in [Threads -> Messages \cup {None}]
  BY DEF TypeOK
<1>1. CASE Fork
  BY <1>1 DEF Fork, ForkInv
<1>2. CASE UNCHANGED <<call, forked>>
  BY <1>2 DEF ForkInv
<1>3. ASSUME UNCHANGED forked, NEW t \in Threads, call' = [call EXCEPT ![t] = None] PROVE ForkInv'
  BY <1>0, <1>3 DEF ForkInv
<1>4. ASSUME UNCHANGED forked, ~forked PROVE ForkInv'
  BY <1>4 DEF ForkInv
<1> QED
  BY <1>1, <1>2, <1>3, <1>4, CallFrame

\* An accessor or a view of a usable message reads its own message, which has
\* a reference.
LEMMA ReadStep ==
  ASSUME TypeOK, ShapeInv, SlotInv, ValidInv, NothingReadAfterRelease, Next
  PROVE  NothingReadAfterRelease'
<1>0. strayed = {}
  BY DEF NothingReadAfterRelease
<1>1. ASSUME NEW o \in Messages, valid[o], ~forked PROVE slot[slotOf[o]].message = o /\ refs[o] > 0
  <2>1. slot[slotOf[o]].message = o /\ slot[slotOf[o]].used /\ slotOf[o] \in Slots
    BY <1>1, ObjectTypes DEF ValidInv
  <2>2. refs[o] = 1
    BY <2>1 DEF SlotInv
  <2> QED
    BY <2>1, <2>2
<1>2. \A o \in Messages : valid[o] /\ ~forked /\ Reads(o) => UNCHANGED strayed
  BY <1>1 DEF Reads
<1>3. view # NoView => view.owner \in Messages
  BY DEF ShapeInv
<1>4. UNCHANGED strayed
  BY <1>1, <1>2, <1>3, ReadFrame
<1> QED
  BY <1>0, <1>4 DEF NothingReadAfterRelease
-----------------------------------------------------------------------------
(***************************************************************************)
(* What read_field returns.                                                *)
(***************************************************************************)

\* The event of every message has a structure in the tables.
LEMMA EventSchemas == \A event \in Events : EventSchema(event) \in Schemas
BY DEF Events, AuthEvents, EventSchema, Schemas

\* esrb_view_wrap makes views of structures of the tables only.
LEMMA WrapSchemas ==
  ASSUME NEW schema, NEW r \in Wrap(schema), r.kind \in {"view", "views"}
  PROVE  r.schema \in Schemas
<1>1. r # Nil
  BY DEF Nil
<1>2. schema \in Schemas /\ r = View(schema)
  BY <1>1 DEF Wrap
<1> QED
  BY <1>2 DEF View

\* The one array of structures is an array of authorization results.
LEMMA ArrayField ==
  ASSUME NEW field \in FieldsOf(Judgement), field.name = "results"
  PROVE  field.type.words = Result
<1>1. \A s \in {File, Process, Thread, ThreadState, Descriptor, Result, Member, Exec, Open, Rename,
             RemoteThread, GroupAdd} : Judgement # s
  BY DEF Judgement, File, Process, Thread, ThreadState, Descriptor, Result, Member, Exec, Open, Rename,
     RemoteThread, GroupAdd
<1>2. FieldsOf(Judgement) = JudgementFields
  BY <1>1 DEF FieldsOf
<1>3. field = Field("results", Named(Result, TRUE), 1)
  <2>1. /\ Field("instigator", Named(Process, TRUE), 1).name # "results"
        /\ Field("return_code", Copied, 1).name # "results"
        /\ Field("instigator_token", Copied, 8).name # "results"
    BY DEF Field
  <2> QED
    BY <1>2, <2>1, Zenon DEF JudgementFields
<1> QED
  BY <1>3 DEF Field, Named

\* Whatever read_field makes a view of is a structure of the tables.
LEMMA ReadSchemas ==
  ASSUME NEW schema, NEW field \in FieldsOf(schema), NEW version, NEW strict,
         NEW r \in ReadField(schema, field, version, strict), r.kind \in {"view", "views"}
  PROVE  r.schema \in Schemas
<1>0. r \notin {Nil, Value, Unavailable}
  BY DEF Nil, Value, Unavailable
<1>1. r \in Decode(schema, field)
  BY <1>0 DEF ReadField
<1>2. CASE r \in ReadUnion(schema, field)
  BY <1>0, <1>2, WrapSchemas DEF ReadUnion, DestinationUnion
<1>3. CASE IsArray(schema, field) /\ r = Views(field.type.words)
  <2>1. schema = Judgement /\ field.name = "results"
    BY <1>3 DEF IsArray
  <2>2. field.type.words = Result
    BY <2>1, ArrayField
  <2> QED
    BY <1>3, <2>2 DEF Views, Schemas
<1>4. CASE r \in Wrap(ReferencedSchema(field.type.words))
  BY <1>4, WrapSchemas
<1> QED
  BY <1>0, <1>1, <1>2, <1>3, <1>4 DEF Decode
-----------------------------------------------------------------------------
(***************************************************************************)
(* Types.                                                                  *)
(***************************************************************************)

\* The counters of arrivals.
LEMMA CounterStep ==
  ASSUME TypeOK, ShapeInv, SlotInv, ValidInv, Next
  PROVE  /\ stream' \in Streams
         /\ arrived' \in 0 .. MessageCount /\ lost' \subseteq 1 .. arrived' /\ lost' \subseteq Messages
         /\ tickets' \in 0 .. MessageCount /\ tickets' <= arrived'
<1>n. arrived \in Nat /\ arrived <= MessageCount /\ tickets \in Nat /\ tickets <= arrived /\ MessageCount \in Nat
      /\ lost \subseteq 1 .. arrived
  BY CounterTypes DEF ShapeInv
<1>1. arrived' \in 0 .. MessageCount
  BY GoneGrows
<1>2. \/ arrived' = arrived + 1 /\ lost' = lost \cup {arrived + 1}
      \/ (UNCHANGED arrived \/ arrived' = arrived + 1) /\ UNCHANGED lost
  BY ArrivalFrame DEF Lose, HandleMessage
<1>3. lost' \subseteq 1 .. arrived'
  <2>1. 1 .. arrived \subseteq 1 .. (arrived + 1) /\ arrived + 1 \in 1 .. (arrived + 1)
    BY <1>n
  <2> QED
    BY <1>n, <1>2, <2>1
<1>4. UNCHANGED tickets \/ (tickets' = tickets + 1 /\ arrived' = arrived + 1)
  BY ObjectFrame DEF HandleMessage, Drain, Close, queueVars
<1>5. tickets' \in 0 .. MessageCount /\ tickets' <= arrived'
  <2>1. arrived <= arrived' /\ arrived' \in Nat /\ arrived' <= MessageCount
    BY <1>n, <1>1, <1>2
  <2> QED
    BY <1>n, <1>4, <2>1
<1>6. stream' \in Streams
  BY ArrivalFrame DEF TypeOK
<1> QED
  BY <1>n, <1>1, <1>3, <1>5, <1>6 DEF Messages

\* No message gets a second reference, or is given back twice.
LEMMA RefsStep ==
  ASSUME TypeOK, ShapeInv, SlotInv, ValidInv, Next
  PROVE  refs' \in [Messages -> 0 .. 1]
<1>0. refs \in [Messages -> 0 .. 1]
  BY ObjectTypes
<1>1. CASE HandleMessage
  <2>1. UNCHANGED refs \/ refs' = [refs EXCEPT ![arrived + 1] = 1]
    BY <1>1 DEF HandleMessage
  <2> QED
    BY <1>0, <2>1
<1>2. CASE Close
  <2>1. refs' = [m \in Messages |-> IF \E s \in {queue[k] : k \in 1 .. Len(queue)} : slot[s].message = m
                                      THEN refs[m] - 1 ELSE refs[m]]
    BY <1>2 DEF Close
  <2>2. \A m \in Messages : (\E s \in {queue[k] : k \in 1 .. Len(queue)} : slot[s].message = m) => refs[m] = 1
    BY QueueTypes DEF SlotInv
  <2>3. ASSUME NEW m \in Messages PROVE refs'[m] \in 0 .. 1
    BY <1>0, <2>1, <2>2
  <2>4. DOMAIN refs' = Messages /\ refs' = [m \in Messages |-> refs'[m]]
    BY <2>1
  <2> QED
    BY <2>3, <2>4
<1>3. CASE \E o \in Messages : valid[o] /\ MessageRelease(o)
  <2>1. PICK o \in Messages : valid[o] /\ MessageRelease(o)
    BY <1>3
  <2>2. CASE forked
    BY <1>0, <2>1, <2>2 DEF MessageRelease
  <2>3. CASE ~forked
    <3>1. slot[slotOf[o]].message = o /\ slot[slotOf[o]].used /\ slotOf[o] \in Slots
      BY <2>1, <2>3, ObjectTypes DEF ValidInv
    <3>2. refs[o] = 1
      BY <3>1 DEF SlotInv
    <3>3. refs' = [refs EXCEPT ![o] = refs[o] - 1]
      BY <2>1, <2>3, <3>1 DEF MessageRelease, GiveBack
    <3> QED
      BY <1>0, <3>2, <3>3
  <2> QED
    BY <2>2, <2>3
<1>4. CASE UNCHANGED refs
  BY <1>0, <1>4
<1> QED
  BY <1>1, <1>2, <1>3, <1>4, ObjectFrame DEF Drain, esVars

SlotType == [message : Messages \cup {None}, used : BOOLEAN, answer : {"not_auth", "pending", "answered"}]

\* The slots of the ring.
LEMMA SlotTypeStep ==
  ASSUME TypeOK, ShapeInv, Next
  PROVE  slot' \in [Slots -> SlotType]
<1>0. slot \in [Slots -> SlotType]
  BY DEF TypeOK, SlotType
<1>1. ASSUME NEW s, NEW who, AnswerSlot(s, who) PROVE slot' \in [Slots -> SlotType]
  <2>1. UNCHANGED slot \/ slot' = [slot EXCEPT ![s].answer = "answered"]
    BY <1>1 DEF AnswerSlot
  <2>2. ASSUME s \in Slots PROVE [slot[s] EXCEPT !.answer = "answered"] \in SlotType
    BY <1>0, <2>2 DEF SlotType
  <2> QED
    BY <1>0, <2>1, <2>2
<1>2. CASE HandleMessage
  <2>m. PICK m \in Messages : m = arrived + 1
    BY <1>2, CounterTypes DEF HandleMessage, Messages
  <2>x. PICK x \in {"not_auth", "pending"} : x = (IF Auth(m) THEN "pending" ELSE "not_auth")
    OBVIOUS
  <2>1. \/ UNCHANGED slot
        \/ slot' = [slot EXCEPT ![tickets % Capacity] = [message |-> m, used |-> TRUE, answer |-> x]]
    BY <1>2, <2>m, <2>x DEF HandleMessage
  <2>2. [message |-> m, used |-> TRUE, answer |-> x] \in SlotType
    BY DEF SlotType
  <2> QED
    BY <1>0, <2>1, <2>2
<1>3. CASE Close
  <2>1. slot' = [s \in Slots |-> slot'[s]]
    BY <1>3 DEF Close
  <2>2. ASSUME NEW s \in Slots PROVE slot'[s] \in SlotType
    <3>1. PICK u \in BOOLEAN : u = (slot[s].used /\ s \notin {queue[k] : k \in 1 .. Len(queue)})
      BY Zenon
    <3>2. PICK x : x = IF slot[s].used /\ slot[s].answer = "pending" THEN "answered" ELSE slot[s].answer
      OBVIOUS
    <3>3. slot'[s] = [slot[s] EXCEPT !.used = u, !.answer = x]
      BY <1>3, <3>1, <3>2 DEF Close
    <3>4. slot[s] \in SlotType /\ x \in {"not_auth", "pending", "answered"}
      BY <1>0, <3>2 DEF SlotType
    <3> QED
      BY <3>3, <3>4 DEF SlotType
  <2> QED
    BY <2>1, <2>2
<1>4. ASSUME NEW o \in Messages, MessageRelease(o) PROVE slot' \in [Slots -> SlotType]
  <2>s. PICK s \in Slots : s = slotOf[o]
    BY ObjectTypes
  <2>x. PICK x : x = IF slot[s].answer = "pending" /\ ~closed THEN "answered" ELSE slot[s].answer
    OBVIOUS
  <2>1. UNCHANGED slot \/ slot' = [slot EXCEPT ![s].used = FALSE, ![s].answer = x]
    BY <1>4, <2>s, <2>x DEF MessageRelease, GiveBack
  <2>2. slot[s] \in SlotType /\ x \in {"not_auth", "pending", "answered"}
    BY <1>0, <2>x DEF SlotType
  <2>3. [slot[s] EXCEPT !.used = FALSE, !.answer = x] \in SlotType
    BY <2>2 DEF SlotType
  <2>4. [slot EXCEPT ![s].used = FALSE, ![s].answer = x] = [slot EXCEPT ![s] = [slot[s] EXCEPT !.used = FALSE, !.answer = x]]
    BY <1>0
  <2> QED
    BY <1>0, <2>1, <2>3, <2>4
<1>5. CASE UNCHANGED slot
  BY <1>0, <1>5
<1> QED
  BY <1>1, <1>2, <1>3, <1>4, <1>5, ObjectFrame DEF Drain

AnswerType == {NoAnswer, Default} \cup {Explicit(o) : o \in Messages}

\* What the messages were answered.
LEMMA AnswerTypeStep ==
  ASSUME TypeOK, ShapeInv, Next
  PROVE  DOMAIN answers' = Messages /\ \A m \in Messages : answers'[m] \in AnswerType
<1>0. DOMAIN answers = Messages /\ \A m \in Messages : answers[m] \in AnswerType
  BY DEF ShapeInv, TypeOK, AnswerType
<1>d. Default \in AnswerType /\ \A o \in Messages : Explicit(o) \in AnswerType
  BY DEF AnswerType
<1>c. call \in [Threads -> Messages \cup {None}]
  BY DEF TypeOK
<1> DEFINE Goal == DOMAIN answers' = Messages /\ \A m \in Messages : answers'[m] \in AnswerType
<1>1. ASSUME NEW s, NEW who \in AnswerType, AnswerSlot(s, who) PROVE Goal
  <2>1. UNCHANGED answers \/ answers' = [answers EXCEPT ![slot[s].message] = who]
    BY <1>1 DEF AnswerSlot
  <2> QED
    BY <1>0, <2>1
<1>2. CASE HandleMessage
  <2>1. UNCHANGED answers \/ answers' = [answers EXCEPT ![arrived + 1] = Default]
    BY <1>2 DEF HandleMessage
  <2> QED
    BY <1>0, <1>d, <2>1
<1>3. CASE Close
  <2>1. PICK S : answers' = [m \in Messages |-> IF m \in S THEN Default ELSE answers[m]]
    BY <1>3 DEF Close
  <2> QED
    BY <1>0, <1>d, <2>1
<1>4. ASSUME NEW o \in Messages, MessageRelease(o) PROVE Goal
  <2>1. UNCHANGED answers \/ answers' = [answers EXCEPT ![slot[slotOf[o]].message] = Default]
    BY <1>4 DEF MessageRelease, GiveBack
  <2> QED
    BY <1>0, <1>d, <2>1
<1>5. CASE UNCHANGED answers
  BY <1>0, <1>5
<1> QED
  BY <1>1, <1>2, <1>3, <1>4, <1>5, <1>c, <1>d, AnswerFrame

\* The counters of sequence numbers.
LEMMA SeqTypeStep ==
  ASSUME TypeOK, ShapeInv, SlotInv, ValidInv, GapInv', Next
  PROVE  /\ DOMAIN last_seq' = Keys' /\ DOMAIN seen_seq' = Keys'
         /\ \A k \in Keys' : last_seq'[k] \in 0 .. MessageCount /\ seen_seq'[k] \in BOOLEAN
         /\ seq_gaps' \in 0 .. MessageCount
<1>0. /\ DOMAIN last_seq = Keys /\ DOMAIN seen_seq = Keys
      /\ \A k \in Keys : last_seq[k] \in 0 .. MessageCount
      /\ \A k \in Keys : seen_seq[k] \in BOOLEAN
  BY DEF TypeOK, ShapeInv
<1>k. Keys' = Keys
  BY ArrivalFrame, KeyFrame
<1>1. seq_gaps' \in 0 .. MessageCount
  <2>1. GapSet' \subseteq Messages
    BY CounterStep DEF GapSet
  <2>2. Cardinality(GapSet') \in 0 .. MessageCount /\ 0 \in 0 .. MessageCount
    BY <2>1, Finite, Sizes
  <2> QED
    BY <2>2 DEF GapInv
<1>2. \/ UNCHANGED <<last_seq, seen_seq>>
      \/ \E m \in Messages : /\ last_seq' = [last_seq EXCEPT ![Key(m)] = Number(m)]
                             /\ seen_seq' = [seen_seq EXCEPT ![Key(m)] = TRUE]
  <2>1. CASE HandleMessage
    <3>1. PICK m \in Messages : m = arrived + 1
      BY <2>1, CounterTypes DEF HandleMessage, Messages
    <3>2. RecordSequenceGaps(m)
      BY <2>1, <3>1 DEF HandleMessage
    <3> QED
      BY <3>2 DEF RecordSequenceGaps, seqVars
  <2> QED
    BY <2>1, ArrivalFrame DEF Lose, seqVars
<1>3. ASSUME NEW m \in Messages, last_seq' = [last_seq EXCEPT ![Key(m)] = Number(m)],
             seen_seq' = [seen_seq EXCEPT ![Key(m)] = TRUE]
      PROVE  /\ DOMAIN last_seq' = Keys /\ DOMAIN seen_seq' = Keys
             /\ \A k \in Keys : last_seq'[k] \in 0 .. MessageCount
             /\ \A k \in Keys : seen_seq'[k] \in BOOLEAN
  <2>1. Number(m) \in 0 .. MessageCount
    BY NumberType
  <2>2. DOMAIN last_seq' = Keys /\ \A k \in Keys : last_seq'[k] \in 0 .. MessageCount
    BY <1>0, <1>3, <2>1
  <2>3. DOMAIN seen_seq' = Keys /\ \A k \in Keys : seen_seq'[k] \in BOOLEAN
    BY <1>0, <1>3
  <2> QED
    BY <2>2, <2>3
<1> QED
  BY <1>0, <1>1, <1>2, <1>3, <1>k

\* The objects, the queue and the calls.
LEMMA ObjectTypeStep ==
  ASSUME TypeOK, ShapeInv, SlotInv, ValidInv, Next
  PROVE  /\ slotOf' \in [Messages -> Slots] /\ valid' \in [Messages -> BOOLEAN] /\ held' \in [Messages -> BOOLEAN]
         /\ queue' \in Seq(Slots)
<1>0. /\ slotOf \in [Messages -> Slots] /\ valid \in [Messages -> BOOLEAN] /\ held \in [Messages -> BOOLEAN]
      /\ queue \in Seq(Slots)
  BY DEF TypeOK
<1>1. ASSUME Drain
      PROVE  /\ slotOf' \in [Messages -> Slots] /\ valid' \in [Messages -> BOOLEAN]
             /\ held' \in [Messages -> BOOLEAN] /\ queue' \in Seq(Slots)
  <2>1. queue # <<>> /\ queue' = Tail(queue)
    BY <1>1 DEF Drain
  <2>2. Head(queue) \in Slots /\ queue' \in Seq(Slots)
    BY <1>0, <2>1
  <2>3. PICK m : /\ slotOf' = [slotOf EXCEPT ![m] = Head(queue)] /\ valid' = [valid EXCEPT ![m] = TRUE]
                 /\ held' = [held EXCEPT ![m] = FALSE]
    BY <1>1 DEF Drain
  <2>4. slotOf' \in [Messages -> Slots]
    BY <1>0, <2>2, <2>3
  <2>5. valid' \in [Messages -> BOOLEAN] /\ held' \in [Messages -> BOOLEAN]
    BY <1>0, <2>3
  <2> QED
    BY <2>2, <2>4, <2>5
<1>2. queue' \in Seq(Slots)
  <2>1. HandleMessage => UNCHANGED queue \/ queue' = Append(queue, tickets % Capacity)
    BY DEF HandleMessage, queueVars
  <2>2. Append(queue, tickets % Capacity) \in Seq(Slots) /\ <<>> \in Seq(Slots)
    BY <1>0, Sizes, CounterTypes
  <2>3. Close => queue' = <<>>
    BY DEF Close
  <2> QED
    BY <1>0, <1>1, <2>1, <2>2, <2>3, ObjectFrame
<1>3. slotOf' \in [Messages -> Slots]
  BY <1>0, <1>1, ObjectFrame DEF HandleMessage, Close, objectVars
<1>4. valid' \in [Messages -> BOOLEAN]
  <2>1. ASSUME NEW o \in Messages, MessageRelease(o) PROVE valid' \in [Messages -> BOOLEAN]
    BY <1>0, <2>1 DEF MessageRelease
  <2> QED
    BY <1>0, <1>1, <2>1, ObjectFrame DEF HandleMessage, Close, objectVars
<1>5. held' \in [Messages -> BOOLEAN]
  BY <1>0, <1>1, FlagFrame
<1> QED
  BY <1>2, <1>3, <1>4, <1>5

\* The view of the program is a view of a structure of the tables.
LEMMA ViewStep ==
  ASSUME TypeOK, ShapeInv, Next
  PROVE  view' = NoView \/ view' \in [owner : Messages, schema : Schemas]
<1>0. view = NoView \/ view \in [owner : Messages, schema : Schemas]
  BY DEF ShapeInv
<1>1. ASSUME NEW o \in Messages, ViewOf(o) PROVE view' \in [owner : Messages, schema : Schemas]
  <2>1. EventOf[o] \in Events
    BY MessageAssumption DEF TypeOK, EventOf
  <2>2. PICK schema \in {Process, EventSchema(EventOf[o]), Thread} : view' = [owner |-> o, schema |-> schema]
    BY <1>1 DEF ViewOf
  <2>3. schema \in Schemas
    BY <2>1, EventSchemas DEF Schemas
  <2> QED
    BY <2>2, <2>3
<1>2. ASSUME NEW results, ReadThrough(results), view # NoView,
             \A r \in results : r.kind \in {"view", "views"} => r.schema \in Schemas
      PROVE  view' \in [owner : Messages, schema : Schemas]
  <2>1. PICK r \in results : view' = IF r.kind \in {"view", "views"} THEN [view EXCEPT !.schema = r.schema] ELSE view
    BY <1>2 DEF ReadThrough
  <2> QED
    BY <1>0, <1>2, <2>1
<1>3. ASSUME NEW field \in FieldsOf(view.schema), ReadViewField(field)
      PROVE  view' \in [owner : Messages, schema : Schemas]
  <2>1. view # NoView /\ ReadThrough(ReadField(view.schema, field, Version, StrictVersion))
    BY <1>3 DEF ReadViewField, ViewUsable
  <2>2. \A r \in ReadField(view.schema, field, Version, StrictVersion) :
          r.kind \in {"view", "views"} => r.schema \in Schemas
    BY ReadSchemas
  <2> QED
    BY <1>2, <2>1, <2>2
<1>4. ASSUME ExecValues PROVE view' \in [owner : Messages, schema : Schemas]
  <2>1. view # NoView /\ ReadThrough({Value, Views(Descriptor)})
    BY <1>4 DEF ExecValues, ViewUsable
  <2>2. \A r \in {Value, Views(Descriptor)} : r.kind \in {"view", "views"} => r.schema \in Schemas
    BY DEF Value, Views, Schemas
  <2> QED
    BY <1>2, <2>1, <2>2
<1> QED
  BY <1>0, <1>1, <1>3, <1>4, ViewFrame

\* Every variable keeps its range.
LEMMA TypeStep ==
  ASSUME TypeOK, ShapeInv, SlotInv, ValidInv, LeakInv, GapInv', Next
  PROVE  TypeOK' /\ ShapeInv'
<1>1. closed' \in BOOLEAN /\ forked' \in BOOLEAN
  <2>1. closed \in BOOLEAN /\ forked \in BOOLEAN
    BY DEF TypeOK
  <2> QED
    BY <2>1, FlagFrame, CallFrame DEF Fork
<1>2. call' \in [Threads -> Messages \cup {None}]
  <2>1. call \in [Threads -> Messages \cup {None}]
    BY DEF TypeOK
  <2> QED
    BY <2>1, CallFrame DEF Fork
<1>3. view' = NoView \/ view' \in [owner : Messages, schema : Schemas]
  BY ViewStep
<1>4. view'.owner \in Messages \cup {None} /\ view'.schema \in Schemas \cup {<<>>}
  BY <1>3 DEF NoView
<1>5. slot' \in [Slots -> [message : Messages \cup {None}, used : BOOLEAN,
                           answer : {"not_auth", "pending", "answered"}]]
  BY SlotTypeStep DEF SlotType
<1>6. /\ DOMAIN answers' = Messages
      /\ \A m \in Messages : answers'[m] \in {NoAnswer, Default} \cup {Explicit(o) : o \in Messages}
  BY AnswerTypeStep DEF AnswerType
<1>7. leaked_messages' \in 0 .. MessageCount
  BY LeakStep
<1>8. refs' \in [Messages -> 0 .. 1]
  BY RefsStep
<1>9. /\ stream' \in Streams
      /\ arrived' \in 0 .. MessageCount /\ lost' \subseteq 1 .. arrived' /\ lost' \subseteq Messages
      /\ tickets' \in 0 .. MessageCount /\ tickets' <= arrived'
  BY CounterStep
<1>10. /\ DOMAIN last_seq' = Keys' /\ DOMAIN seen_seq' = Keys'
       /\ \A k \in Keys' : last_seq'[k] \in 0 .. MessageCount /\ seen_seq'[k] \in BOOLEAN
       /\ seq_gaps' \in 0 .. MessageCount
  BY SeqTypeStep
<1>11. /\ slotOf' \in [Messages -> Slots] /\ valid' \in [Messages -> BOOLEAN] /\ held' \in [Messages -> BOOLEAN]
       /\ queue' \in Seq(Slots)
  BY ObjectTypeStep
<1>12. TypeOK'
  BY <1>1, <1>2, <1>4, <1>5, <1>6, <1>7, <1>8, <1>9, <1>10, <1>11, Zenon DEF TypeOK
<1>13. ShapeInv'
  BY <1>3, <1>6, <1>9, <1>10, Zenon DEF ShapeInv
<1> QED
  BY <1>12, <1>13
-----------------------------------------------------------------------------
(***************************************************************************)
(* The theorems.                                                           *)
(***************************************************************************)

\* The invariant holds for a new client.
LEMMA InitInv == Init => MessageInv
<1> SUFFICES ASSUME Init PROVE MessageInv
  OBVIOUS
<1>c. /\ MessageCount \in Nat /\ 0 \in 0 .. MessageCount /\ 0 \in Slots
      /\ 1 .. 0 = {}
  BY Sizes DEF Slots
<1>d. Delivered = {} /\ GapSet = {} /\ Gone = {}
  BY <1>c DEF Init, Delivered, GapSet, Gone
<1>1. TypeOK
  <2>1. /\ stream \in Streams /\ arrived \in 0 .. MessageCount /\ lost \subseteq Messages
        /\ tickets \in 0 .. MessageCount /\ seq_gaps \in 0 .. MessageCount
        /\ leaked_messages \in 0 .. MessageCount
    BY <1>c DEF Init
  <2>2. /\ refs \in [Messages -> 0 .. 1] /\ slotOf \in [Messages -> Slots]
    BY <1>c DEF Init
  <2>3. \A m \in Messages : answers[m] \in {NoAnswer, Default} \cup {Explicit(o) : o \in Messages}
    BY DEF Init
  <2>4. slot \in [Slots -> [message : Messages \cup {None}, used : BOOLEAN,
                            answer : {"not_auth", "pending", "answered"}]]
    BY DEF Init
  <2>5. queue \in Seq(Slots)
    BY DEF Init
  <2>6. closed \in BOOLEAN /\ forked \in BOOLEAN
    BY Zenon DEF Init
  <2>7. DOMAIN last_seq = Keys /\ \A k \in Keys : last_seq[k] \in 0 .. MessageCount /\ seen_seq[k] \in BOOLEAN
    BY <1>c DEF Init
  <2>8. /\ valid \in [Messages -> BOOLEAN] /\ held \in [Messages -> BOOLEAN]
        /\ call \in [Threads -> Messages \cup {None}]
    BY DEF Init
  <2>9. view.owner \in Messages \cup {None} /\ view.schema \in Schemas \cup {<<>>}
    BY DEF Init, NoView
  <2> QED
    BY <2>1, <2>2, <2>3, <2>4, <2>5, <2>6, <2>7, <2>8, <2>9, Zenon DEF TypeOK
<1>2. ShapeInv
  <2>1. DOMAIN answers = Messages /\ DOMAIN seen_seq = Keys /\ view = NoView /\ lost = {}
        /\ tickets = 0 /\ arrived = 0
    BY DEF Init
  <2> QED
    BY <2>1 DEF ShapeInv
<1>3. ForkInv
  BY DEF Init, ForkInv
<1>4. SlotInv /\ ValidInv
  <2>1. /\ Len(queue) = 0 /\ \A s \in Slots : ~slot[s].used
        /\ \A m \in Messages : refs[m] = 0 /\ ~valid[m]
    BY DEF Init
  <2> QED
    BY <2>1 DEF SlotInv, ValidInv
<1>5. LeakInv
  BY <1>d, FS_EmptySet DEF Init, LeakInv
<1>6. SeqInv
  <2>1. \A k \in Keys : ~seen_seq[k]
    BY DEF Init
  <2> QED
    BY <1>d, <2>1 DEF SeqInv
<1>7. GapInv
  BY <1>d, FS_EmptySet DEF Init, GapInv
<1>8. NothingReadAfterRelease
  BY DEF Init, NothingReadAfterRelease
<1> QED
  BY <1>1, <1>2, <1>3, <1>4, <1>5, <1>6, <1>7, <1>8 DEF MessageInv

\* Every step keeps it.
LEMMA NextInv == MessageInv /\ [Next]_vars => MessageInv'
<1> SUFFICES ASSUME MessageInv, [Next]_vars PROVE MessageInv'
  OBVIOUS
<1>0. /\ TypeOK /\ ShapeInv /\ ForkInv /\ SlotInv /\ ValidInv /\ LeakInv /\ SeqInv
      /\ GapInv /\ NothingReadAfterRelease
  BY DEF MessageInv
<1>1. CASE Next
  <2>1. SeqInv' /\ GapInv'
    BY <1>0, <1>1, GapStep
  <2>2. TypeOK' /\ ShapeInv'
    BY <1>0, <1>1, <2>1, TypeStep
  <2>3. SlotInv' /\ ValidInv'
    BY <1>0, <1>1, SlotStep
  <2>4. ForkInv' /\ LeakInv' /\ NothingReadAfterRelease'
    BY <1>0, <1>1, ForkStep, LeakStep, ReadStep
  <2> QED
    BY <2>1, <2>2, <2>3, <2>4 DEF MessageInv
<1>2. CASE UNCHANGED vars
  <2>1. /\ UNCHANGED <<stream, arrived, lost, refs, answers>>
        /\ UNCHANGED <<slot, queue, tickets, closed, last_seq, seen_seq, seq_gaps, leaked_messages>>
        /\ UNCHANGED <<slotOf, valid, held, call, view, forked, strayed>>
    BY <1>2 DEF vars, esVars, seqVars, queueVars, objectVars, rubyVars
  <2>k. Version' = Version /\ Keys' = Keys /\ \A x : Key(x)' = Key(x) /\ Number(x)' = Number(x)
    BY <2>1, KeyFrame
  <2>2. TypeOK'
    BY <1>0, <2>1, <2>k DEF TypeOK
  <2>3. ShapeInv' /\ ForkInv' /\ NothingReadAfterRelease'
    BY <1>0, <2>1, <2>k DEF ShapeInv, ForkInv, NothingReadAfterRelease
  <2>4. SlotInv' /\ ValidInv'
    BY <1>0, <2>1 DEF SlotInv, ValidInv, InQueue
  <2>5. Delivered' = Delivered /\ Gone' = Gone
    BY <2>1 DEF Delivered, Gone
  <2>6. GapSet' = GapSet
    BY <2>1, <2>k, <2>5 DEF GapSet
  <2>7. LeakInv' /\ SeqInv' /\ GapInv'
    BY <1>0, <2>1, <2>k, <2>5, <2>6 DEF LeakInv, SeqInv, IsLast, GapInv
  <2> QED
    BY <2>2, <2>3, <2>4, <2>7 DEF MessageInv
<1> QED
  BY <1>1, <1>2

\* The inductive invariant of the message objects, their ring and their
\* sequence numbers.
THEOREM MessageInvariant == Spec => []MessageInv
<1>1. Init => MessageInv
  BY InitInv
<1>2. MessageInv /\ [Next]_vars => MessageInv'
  BY NextInv
<1> QED
  BY <1>1, <1>2, PTL DEF Spec

\* message_release gives each message back exactly once, whichever of
\* release!, the end of the dispatch, the collector and close come first: the
\* references never leave 0 .. 1, and once nothing is queued they are those
\* of the valid objects.
THEOREM ReleasedExactlyOnce == Spec => []ObjectInv
<1>1. MessageInv => ObjectInv
  <2> SUFFICES ASSUME MessageInv PROVE ObjectInv
    OBVIOUS
  <2>0. TypeOK /\ SlotInv /\ ValidInv
    BY DEF MessageInv
  <2>1. ASSUME queue = <<>>, ~forked, NEW m \in Messages PROVE refs[m] = 1 <=> valid[m]
    <3>1. \A s \in Slots : ~InQueue(s)
      BY <2>1 DEF InQueue
    <3>2. refs[m] = 1 => valid[m]
      BY <2>0, <2>1, <3>1 DEF ValidInv
    <3>3. valid[m] => slot[slotOf[m]].used /\ slot[slotOf[m]].message = m /\ slotOf[m] \in Slots
      BY <2>0, <2>1, ObjectTypes DEF ValidInv
    <3>4. valid[m] => refs[m] = 1
      BY <2>0, <3>3 DEF SlotInv
    <3> QED
      BY <3>2, <3>4
  <2> QED
    BY <2>0, <2>1 DEF ObjectInv, RetainedWhileValid
<1> QED
  BY <1>1, MessageInvariant, PTL

\* No accessor and no view reads a message that was released, or another one
\* that took its slot, whichever thread released it.
THEOREM NeverReadAfterRelease == Spec => []NothingReadAfterRelease
<1>1. MessageInv => NothingReadAfterRelease
  BY DEF MessageInv
<1> QED
  BY <1>1, MessageInvariant, PTL

\* What record_sequence_gaps counts are the messages lost between the first
\* and the last one delivered of each counter, for every stream.
THEOREM GapsCountLosses == Spec => []GapsAreLostMessages
<1>1. MessageInv => GapsAreLostMessages
  <2>1. GapInv => GapsAreLostMessages
    BY DEF GapInv, GapSet, Delivered, GapsAreLostMessages
  <2> QED
    BY <2>1 DEF MessageInv
<1> QED
  BY <1>1, MessageInvariant, PTL

\* A response of an object goes to its own message, unless the object was
\* released while allow! or deny! was in a Ruby method.
THEOREM AnswersOwnMessageUnlessReleased == Spec => AnswersItsMessageUnlessReleased
<1> DEFINE OwnMessage ==
      \A m \in Messages : AnsweredByObject(m) => answers'[m].object = m \/ ~valid[answers'[m].object]
<1>1. MessageInv /\ [Next]_vars => [OwnMessage]_vars
  <2> SUFFICES ASSUME MessageInv, Next, NEW m \in Messages, AnsweredByObject(m)
               PROVE  answers'[m].object = m \/ ~valid[answers'[m].object]
    OBVIOUS
  <2>0. /\ TypeOK /\ ShapeInv /\ ForkInv /\ ValidInv /\ DOMAIN answers = Messages
        /\ call \in [Threads -> Messages \cup {None}]
    BY DEF MessageInv, ShapeInv, TypeOK
  <2>1. answers'[m] # answers[m] /\ answers'[m] # Default
    BY DEF AnsweredByObject, Default
  <2>2. ~UNCHANGED answers
    BY <2>1
  <2>3. ~HandleMessage
    <3>1. HandleMessage => UNCHANGED answers \/ answers' = [answers EXCEPT ![arrived + 1] = Default]
      BY DEF HandleMessage
    <3> QED
      BY <2>0, <2>1, <3>1
  <2>4. ~Close
    BY <2>0, <2>1 DEF Close
  <2>5. ~\E o \in Messages : valid[o] /\ MessageRelease(o)
    <3>1. \A o \in Messages : MessageRelease(o) =>
            UNCHANGED answers \/ answers' = [answers EXCEPT ![slot[slotOf[o]].message] = Default]
      BY DEF MessageRelease, GiveBack
    <3> QED
      BY <2>0, <2>1, <3>1
  <2>6. ~\E s : AnswerSlot(s, Default)
    BY <2>0, <2>1 DEF AnswerSlot
  <2>7. PICK o \in Messages : AnswerSlot(slotOf[o], Explicit(o)) /\ ~forked
    BY <2>0, <2>2, <2>3, <2>4, <2>5, <2>6, AnswerFrame DEF ForkInv
  <2>8. m = slot[slotOf[o]].message /\ answers'[m] = Explicit(o)
    BY <2>0, <2>1, <2>7 DEF AnswerSlot
  <2>9. answers'[m].object = o
    BY <2>8 DEF Explicit
  <2>10. valid[o] => slot[slotOf[o]].message = o
    BY <2>0, <2>7 DEF ValidInv
  <2> QED
    BY <2>8, <2>9, <2>10
<1>2. Spec => [][OwnMessage]_vars
  BY <1>1, MessageInvariant, PTL DEF Spec
<1> QED
  BY <1>2 DEF AnswersItsMessageUnlessReleased

\* Whatever a child process does with the objects it inherited, it answers,
\* releases and reports nothing.
THEOREM ChildIsHarmless == Spec => ChildLeavesParentAlone
<1> DEFINE Alone == forked => UNCHANGED <<refs, answers, slot, leaked_messages>>
<1>1. MessageInv /\ [Next]_vars => [Alone]_vars
  BY ChildFrame DEF MessageInv
<1>2. Spec => [][Alone]_vars
  BY <1>1, MessageInvariant, PTL DEF Spec
<1> QED
  BY <1>2 DEF ChildLeavesParentAlone
-----------------------------------------------------------------------------
(***************************************************************************)
(* Which structure a type name refers to.                                  *)
(***************************************************************************)

\* The name that referenced_schema_name cuts out of words ends at the first
\* word that begins with a t.
LEMMA EndsAtFirstT ==
  ASSUME NEW words, Len(words) \in Nat, NEW k \in 2 .. Len(words), NEW n \in Nat, k = n + 1,
         words[k] \in BeginWithT, \A j \in 2 .. n : words[j] \notin BeginWithT
  PROVE  ReferencedSchema(words) = SubSeq(words, 1, n) \o <<"t">>
<1> DEFINE ends == {j \in 2 .. Len(words) : words[j] \in BeginWithT}
           first == CHOOSE j \in ends : \A i \in ends : j <= i
<1>1. k \in ends /\ \A i \in ends : k <= i
  OBVIOUS
<1>2. first \in ends /\ \A i \in ends : first <= i
  BY <1>1, Zenon
<1>3. ReferencedSchema(words) = SubSeq(words, 1, first - 1) \o <<"t">>
  BY Zenon DEF ReferencedSchema
<1> HIDE DEF first
<1>4. first - 1 = n
  BY <1>1, <1>2
<1> QED
  BY <1>3, <1>4, Zenon

\* The words of the names.
Words ==
  {"es", "file", "process", "thread", "state", "fd", "authorization", "result", "od", "member", "id", "event", "exec",
   "open", "rename", "remote", "create", "judgement", "group", "add", "cs", "validation", "category", "rule",
   "class", "destination", "type", "t"}

\* A name whose first word that begins with a t is its last is not cut.
LEMMA NotCut ==
  ASSUME NEW words \in Seq(Words), Len(words) >= 2, words[Len(words)] = "t",
         \A j \in 2 .. Len(words) - 1 : words[j] \notin BeginWithT
  PROVE  ReferencedSchema(words) = words
<1>1. ReferencedSchema(words) = SubSeq(words, 1, Len(words) - 1) \o <<"t">>
  BY EndsAtFirstT DEF BeginWithT
<1> QED
  BY <1>1

\* The names of the tables' structures and enumerations.
TypeNames ==
  {File, Process, ThreadState, Result, Member, <<"es", "cs", "validation", "category", "t">>,
   <<"es", "authorization", "rule", "class", "t">>, <<"es", "od", "member", "type", "t">>,
   <<"es", "destination", "type", "t">>}

\* The fields of the tables have one of these types, and a version.
LEMMA FieldTypes ==
  ASSUME NEW schema \in Schemas, NEW f \in FieldsOf(schema)
  PROVE  f.since \in Nat /\ (f.type.kind = "named" => f.type.words \in TypeNames)
<1>1. \/ f \in FileFields \/ f \in ProcessFields \/ f \in ThreadFields \/ f \in ThreadStateFields
      \/ f \in DescriptorFields \/ f \in ResultFields \/ f \in MemberFields \/ f \in ExecFields
      \/ f \in OpenFields \/ f \in RenameFields \/ f \in RemoteThreadFields \/ f \in JudgementFields
      \/ f \in GroupAddFields
  BY DEF Schemas, FieldsOf
<1> USE DEF TypeNames, Field, Copied, Union, Named
<1>2. f \in ProcessFields \/ f \in ExecFields => f.since \in Nat /\ (f.type.kind = "named" => f.type.words \in TypeNames)
  BY DEF ProcessFields, ExecFields
<1>3. f \in FileFields \/ f \in ThreadFields \/ f \in ThreadStateFields \/ f \in DescriptorFields
        => f.since \in Nat /\ (f.type.kind = "named" => f.type.words \in TypeNames)
  BY DEF FileFields, ThreadFields, ThreadStateFields, DescriptorFields
<1>4. f \in ResultFields \/ f \in MemberFields \/ f \in OpenFields \/ f \in RenameFields
        => f.since \in Nat /\ (f.type.kind = "named" => f.type.words \in TypeNames)
  BY DEF ResultFields, MemberFields, OpenFields, RenameFields
<1>5. f \in RemoteThreadFields \/ f \in JudgementFields \/ f \in GroupAddFields
        => f.since \in Nat /\ (f.type.kind = "named" => f.type.words \in TypeNames)
  BY DEF RemoteThreadFields, JudgementFields, GroupAddFields
<1> QED
  BY <1>1, <1>2, <1>3, <1>4, <1>5

\* The name looked up for a type is the type's own or that of no structure.
LEMMA OwnNameOrNone ==
  ASSUME NEW words \in TypeNames, ReferencedSchema(words) \in Schemas
  PROVE  ReferencedSchema(words) = words
<1> DEFINE cut == {ThreadState, <<"es", "od", "member", "type", "t">>, <<"es", "destination", "type", "t">>}
<1>1. ASSUME words \in TypeNames \ cut PROVE ReferencedSchema(words) = words
  <2> DEFINE Whole(w) == /\ w \in Seq(Words) /\ Len(w) >= 2 /\ w[Len(w)] = "t"
                         /\ \A j \in 2 .. Len(w) - 1 : w[j] \notin BeginWithT
  <2>1. Whole(File) /\ Whole(Process)
    BY DEF Words, File, Process, BeginWithT
  <2>2. Whole(Result)
    BY DEF Words, Result, BeginWithT
  <2>3. Whole(Member)
    BY DEF Words, Member, BeginWithT
  <2>4. Whole(<<"es", "cs", "validation", "category", "t">>)
    BY DEF Words, BeginWithT
  <2>5. Whole(<<"es", "authorization", "rule", "class", "t">>)
    BY DEF Words, BeginWithT
  <2>6. Whole(words)
    BY <1>1, <2>1, <2>2, <2>3, <2>4, <2>5, Zenon DEF TypeNames
  <2> QED
    BY <2>6, NotCut
<1>2. ASSUME words \in cut PROVE ReferencedSchema(words) \notin Schemas
  <2>1. CASE words = ThreadState
    <3>1. ReferencedSchema(words) = SubSeq(words, 1, 1) \o <<"t">>
      <4>1. /\ Len(words) = 4 /\ words[2] \in BeginWithT
            /\ \A j \in 2 .. 1 : words[j] \notin BeginWithT
        BY <2>1 DEF ThreadState, BeginWithT
      <4>2. PICK n \in Nat, k \in Nat : n = 1 /\ k = 2
        OBVIOUS
      <4>3. /\ Len(words) \in Nat /\ k \in 2 .. Len(words) /\ k = n + 1
            /\ words[k] \in BeginWithT /\ \A j \in 2 .. n : words[j] \notin BeginWithT
        BY <4>1, <4>2
      <4>4. ReferencedSchema(words) = SubSeq(words, 1, n) \o <<"t">>
        BY <4>3, EndsAtFirstT
      <4> QED
        BY <4>2, <4>4, Zenon
    <3> QED
      BY <2>1, <3>1 DEF ThreadState, Schemas, File, Process, Thread, Descriptor, Result, Member, Exec, Open, Rename,
        RemoteThread, Judgement, GroupAdd
  <2>2. CASE words = <<"es", "od", "member", "type", "t">>
    <3>1. ReferencedSchema(words) = SubSeq(words, 1, 3) \o <<"t">>
      <4>1. /\ Len(words) = 5 /\ words[4] \in BeginWithT
            /\ \A j \in 2 .. 3 : words[j] \notin BeginWithT
        BY <2>2 DEF BeginWithT
      <4>2. PICK n \in Nat, k \in Nat : n = 3 /\ k = 4
        OBVIOUS
      <4>3. /\ Len(words) \in Nat /\ k \in 2 .. Len(words) /\ k = n + 1
            /\ words[k] \in BeginWithT /\ \A j \in 2 .. n : words[j] \notin BeginWithT
        BY <4>1, <4>2
      <4>4. ReferencedSchema(words) = SubSeq(words, 1, n) \o <<"t">>
        BY <4>3, EndsAtFirstT
      <4> QED
        BY <4>2, <4>4, Zenon
    <3> QED
      BY <2>2, <3>1 DEF ThreadState, Schemas, File, Process, Thread, Descriptor, Result, Member, Exec, Open, Rename,
        RemoteThread, Judgement, GroupAdd
  <2>3. CASE words = <<"es", "destination", "type", "t">>
    <3>1. ReferencedSchema(words) = SubSeq(words, 1, 2) \o <<"t">>
      <4>1. /\ Len(words) = 4 /\ words[3] \in BeginWithT
            /\ \A j \in 2 .. 2 : words[j] \notin BeginWithT
        BY <2>3 DEF BeginWithT
      <4>2. PICK n \in Nat, k \in Nat : n = 2 /\ k = 3
        OBVIOUS
      <4>3. /\ Len(words) \in Nat /\ k \in 2 .. Len(words) /\ k = n + 1
            /\ words[k] \in BeginWithT /\ \A j \in 2 .. n : words[j] \notin BeginWithT
        BY <4>1, <4>2
      <4>4. ReferencedSchema(words) = SubSeq(words, 1, n) \o <<"t">>
        BY <4>3, EndsAtFirstT
      <4> QED
        BY <4>2, <4>4, Zenon
    <3> QED
      BY <2>3, <3>1 DEF ThreadState, Schemas, File, Process, Thread, Descriptor, Result, Member, Exec, Open, Rename,
        RemoteThread, Judgement, GroupAdd
  <2> QED
    BY <1>2, <2>1, <2>2, <2>3
<1> QED
  BY <1>1, <1>2

\* The structures' own names end with their only _t, or are cut.
LEMMA SchemaNames ==
  ASSUME NEW words \in Schemas, \A j \in 2 .. Len(words) - 1 : words[j] \notin BeginWithT
  PROVE  ReferencedSchema(words) = words
<1> DEFINE Ends(w) == w \in Seq(Words) /\ Len(w) >= 2 /\ w[Len(w)] = "t"
<1>1. Ends(File) /\ Ends(Process) /\ Ends(Thread) /\ Ends(Descriptor)
  BY DEF Words, File, Process, Thread, Descriptor
<1>2. Ends(ThreadState) /\ Ends(Result) /\ Ends(Member) /\ Ends(Exec)
  BY DEF Words, ThreadState, Result, Member, Exec
<1>3. Ends(Open) /\ Ends(Rename) /\ Ends(RemoteThread)
  BY DEF Words, Open, Rename, RemoteThread
<1>4. Ends(Judgement) /\ Ends(GroupAdd)
  BY DEF Words, Judgement, GroupAdd
<1>5. Ends(words)
  BY <1>1, <1>2, <1>3, <1>4, Zenon DEF Schemas
<1> QED
  BY <1>5, NotCut

\* What read_field makes a view of is the structure that the field has or
\* points to.
LEMMA ReadsOwnType ==
  ASSUME NEW schema \in Schemas, NEW f \in FieldsOf(schema), NEW version, NEW strict,
         NEW r \in ReadField(schema, f, version, strict), r.kind \in {"view", "views"},
         f.type.kind = "named"
  PROVE  r.schema = f.type.words
<1>0. r \notin {Nil, Value, Unavailable}
  BY DEF Nil, Value, Unavailable
<1>1. r \in Decode(schema, f)
  BY <1>0 DEF ReadField
<1>2. \/ r = Views(f.type.words)
      \/ ReferencedSchema(f.type.words) \in Schemas /\ r \in Wrap(ReferencedSchema(f.type.words))
  BY <1>0, <1>1 DEF Decode
<1>3. CASE r = Views(f.type.words)
  BY <1>3 DEF Views
<1>4. CASE ReferencedSchema(f.type.words) \in Schemas /\ r \in Wrap(ReferencedSchema(f.type.words))
  <2>1. r = View(ReferencedSchema(f.type.words))
    BY <1>0, <1>4 DEF Wrap
  <2>2. ReferencedSchema(f.type.words) = f.type.words
    BY <1>4, FieldTypes, OwnNameOrNone
  <2> QED
    BY <2>1, <2>2 DEF View
<1> QED
  BY <1>2, <1>3, <1>4

\* A field whose structure is in the tables, under a name that is not cut, is
\* read as a view.
LEMMA ReadsSomeView ==
  ASSUME NEW schema \in Schemas, NEW f \in FieldsOf(schema), NEW version \in Nat, NEW strict,
         f.type.kind = "named", f.type.words \in Schemas, f.since <= version,
         \A k \in 2 .. Len(f.type.words) - 1 : f.type.words[k] \notin BeginWithT
  PROVE  \E r \in ReadField(schema, f, version, strict) : r.kind \in {"view", "views"}
<1>1. ReadField(schema, f, version, strict) = Decode(schema, f)
  BY FieldTypes DEF ReadField
<1>2. ReferencedSchema(f.type.words) = f.type.words
  BY SchemaNames
<1>3. Decode(schema, f) = IF IsArray(schema, f) THEN {Views(f.type.words)} ELSE Wrap(f.type.words)
  BY <1>2 DEF Decode
<1>4. View(f.type.words) \in Wrap(f.type.words)
  BY DEF Wrap
<1>5. View(f.type.words).kind = "view" /\ Views(f.type.words).kind = "views"
  BY DEF View, Views
<1> QED
  BY <1>1, <1>3, <1>4, <1>5

\* A view is never one of a structure that its memory is not, and a field
\* whose structure is in the tables is nil or a view of it: the search by the
\* text of a type finds the type itself unless an earlier word begins with t.
THEOREM ViewsHaveTheirTypes == Spec => []ViewsAreTyped
<1>1. MessageInv => ViewsAreTyped
  <2> SUFFICES ASSUME MessageInv, view # NoView PROVE ViewsMatchTheirTypes /\ ResolvedUnlessCut
    BY DEF ViewsAreTyped
  <2>1. view.schema \in Schemas
    BY DEF MessageInv, ShapeInv
  <2>2. Version \in Nat
    BY MessageAssumption DEF MessageInv, TypeOK, Version
  <2>3. ViewsMatchTheirTypes
    BY <2>1, ReadsOwnType DEF ViewsMatchTheirTypes
  <2>4. ResolvedUnlessCut
    BY <2>1, <2>2, ReadsSomeView DEF ResolvedUnlessCut
  <2> QED
    BY <2>3, <2>4
<1> QED
  BY <1>1, MessageInvariant, PTL
=============================================================================
