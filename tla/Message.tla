------------------------------ MODULE Message -------------------------------
(***************************************************************************)
(* Message objects (message.c), the views that read their memory           *)
(* (field.c), and Ruby threads that share them.                            *)
(*                                                                         *)
(* A C function keeps the GVL, so it is one step, except where it calls a  *)
(* Ruby method: allow! and deny! do, after they checked the message and    *)
(* before they answer it.  An operation that raises changes nothing and is *)
(* no step.  Delivery.tla has the steps inside the callback, the watchdog  *)
(* and close; here each is one step.                                       *)
(*                                                                         *)
(* The objects of a message and the views are independent of each other,   *)
(* so the program looks at one view at a time.                             *)
(***************************************************************************)
EXTENDS Integers, Sequences, FiniteSets, Fields

CONSTANTS
  Threads,          \* Ruby threads
  Capacity,         \* slots of the ring
  MessageCount,     \* messages Endpoint Security numbers
  Streams,          \* the messages there may be: [version, events]
  StrictVersion,    \* the options strict_version and
  StrictCache,      \*   strict_cache
  MaxLost           \* messages Endpoint Security may lose

Messages == 1 .. MessageCount
Slots == 0 .. Capacity - 1

AuthEvents == {"auth_exec", "auth_open", "auth_rename"}
Cacheable == {"auth_exec", "auth_open"}
Events == AuthEvents \cup {"notify_remote_thread_create", "notify_authorization_judgement",
                          "notify_od_group_add"}

ASSUME MessageAssumption ==
  /\ Capacity \in Nat \ {0, 1} /\ MessageCount \in Nat /\ MaxLost \in Nat
  /\ \A s \in Streams : s.version \in Nat \ {0} /\ s.events \in [Messages -> Events]
  /\ StrictVersion \in BOOLEAN /\ StrictCache \in BOOLEAN

VARIABLES
  \* Endpoint Security
  stream,           \* the version of the system and the events that happen
  arrived, lost,    \* the last number used; the messages lost before the client
  refs,             \* references to each message
  answers,          \* who answered each message
  \* esrb_client_t
  slot,             \* [message, used, answer] of each slot
  queue, tickets,   \* the published slots, and how many were ever claimed
  closed, last_seq, seen_seq, seq_gaps, leaked_messages,
  \* esrb_message_t of each message
  slotOf, valid, held,
  \* Ruby
  call,             \* the message whose allow! or deny! a thread is in
  view,             \* the view the program looks at
  forked,           \* this is a child process
  strayed           \* messages read through an object of another message or
                    \* after their release

esVars == <<stream, arrived, lost, refs, answers>>
seqVars == <<last_seq, seen_seq, seq_gaps>>
queueVars == <<queue, tickets>>
objectVars == <<slotOf, valid, held>>
rubyVars == <<call, view, forked, strayed>>
vars == <<esVars, slot, queueVars, closed, seqVars, leaked_messages, objectVars, rubyVars>>

None == 0
NoAnswer == [by |-> "nobody", object |-> None]
Default == [by |-> "default", object |-> None]
Explicit(o) == [by |-> "object", object |-> o]
NoView == [owner |-> None, schema |-> <<>>]

Version == stream.version
EventOf == stream.events
Auth(m) == EventOf[m] \in AuthEvents

\* The counter that numbers a message: one for all, or one for each event.
Keys == {"global"} \cup {EventOf[m] : m \in Messages}
Key(m) == IF Version >= 4 THEN "global" ELSE EventOf[m]
Number(m) == Cardinality({k \in 1 .. m - 1 : Key(k) = Key(m)})

Init ==
  /\ stream \in Streams
  /\ arrived = 0 /\ lost = {}
  /\ refs = [m \in Messages |-> 0] /\ answers = [m \in Messages |-> NoAnswer]
  /\ slot = [s \in Slots |-> [message |-> None, used |-> FALSE, answer |-> "not_auth"]]
  /\ queue = <<>> /\ tickets = 0 /\ closed = FALSE
  /\ last_seq = [k \in Keys |-> 0] /\ seen_seq = [k \in Keys |-> FALSE] /\ seq_gaps = 0
  /\ leaked_messages = 0
  /\ slotOf = [m \in Messages |-> 0]
  /\ valid = [m \in Messages |-> FALSE] /\ held = [m \in Messages |-> FALSE]
  /\ call = [t \in Threads |-> None] /\ view = NoView /\ forked = FALSE /\ strayed = {}
-----------------------------------------------------------------------------
(***************************************************************************)
(* Endpoint Security, the callback and the watchdog.                       *)
(***************************************************************************)
\* Variant: the difference itself is counted.
RecordSequenceDifference(m) ==
  LET k == Key(m)  n == Number(m) IN
  IF Version < 2 THEN UNCHANGED seqVars
  ELSE /\ last_seq' = [last_seq EXCEPT ![k] = n]
       /\ seen_seq' = [seen_seq EXCEPT ![k] = TRUE]
       /\ seq_gaps' = IF seen_seq[k] /\ n > last_seq[k] + 1 THEN seq_gaps + n - last_seq[k] ELSE seq_gaps

\* record_sequence_gaps, with one callback at a time.
RecordSequenceGaps(m) ==
  LET k == Key(m)  n == Number(m) IN
  IF Version < 2 THEN UNCHANGED seqVars
  ELSE /\ last_seq' = [last_seq EXCEPT ![k] = n]
       /\ seen_seq' = [seen_seq EXCEPT ![k] = TRUE]
       /\ seq_gaps' = IF seen_seq[k] /\ n > last_seq[k] + 1
                        THEN seq_gaps + n - last_seq[k] - 1 ELSE seq_gaps

Lose ==
  /\ arrived < MessageCount /\ Cardinality(lost) < MaxLost /\ ~closed /\ ~forked
  /\ arrived' = arrived + 1
  /\ lost' = lost \cup {arrived + 1}
  /\ UNCHANGED <<stream, refs, answers, slot, queueVars, closed, seqVars, leaked_messages, objectVars,
                 rubyVars>>

\* handle_message: the next message is put into the ring, or answered and
\* dropped if its slot is in use.
HandleMessage ==
  LET m == arrived + 1
      s == tickets % Capacity
  IN
  /\ arrived < MessageCount /\ ~closed /\ ~forked
  /\ arrived' = m
  /\ RecordSequenceGaps(m)
  /\ IF slot[s].used
       THEN /\ answers' = IF Auth(m) THEN [answers EXCEPT ![m] = Default] ELSE answers
            /\ UNCHANGED <<refs, slot, queueVars>>
       ELSE /\ refs' = [refs EXCEPT ![m] = 1]
            /\ slot' = [slot EXCEPT ![s] = [message |-> m, used |-> TRUE,
                                            answer |-> IF Auth(m) THEN "pending" ELSE "not_auth"]]
            /\ queue' = Append(queue, s)
            /\ tickets' = tickets + 1
            /\ UNCHANGED answers
  /\ UNCHANGED <<stream, lost, closed, leaked_messages, objectVars, rubyVars>>

\* The message of a slot is answered if nobody has answered it.
AnswerSlot(s, who) ==
  IF slot[s].answer = "pending"
    THEN /\ slot' = [slot EXCEPT ![s].answer = "answered"]
         /\ answers' = [answers EXCEPT ![slot[s].message] = who]
    ELSE UNCHANGED <<slot, answers>>

WatchdogAnswers(s) ==
  /\ ~closed /\ ~forked /\ slot[s].used
  /\ slot[s].answer = "pending"
  /\ AnswerSlot(s, Default)
  /\ UNCHANGED <<stream, arrived, lost, refs, queueVars, closed, seqVars, leaked_messages, objectVars, rubyVars>>
-----------------------------------------------------------------------------
(***************************************************************************)
(* The client.                                                             *)
(***************************************************************************)
\* A Ruby thread that is in no call runs.
Running == \E t \in Threads : call[t] = None

\* esrb_message_wrap for the oldest message of the queue.
Drain ==
  LET s == Head(queue)  m == slot[s].message IN
  /\ Running /\ ~forked /\ ~closed /\ queue # <<>>
  /\ queue' = Tail(queue)
  /\ slotOf' = [slotOf EXCEPT ![m] = s]
  /\ valid' = [valid EXCEPT ![m] = TRUE]
  /\ held' = [held EXCEPT ![m] = FALSE]
  /\ UNCHANGED <<esVars, slot, tickets, closed, seqVars, leaked_messages, rubyVars>>

\* client_close_native: everything is answered, what is queued is released.
Close ==
  LET queued == {queue[k] : k \in 1 .. Len(queue)}
      pending == {slot[s].message : s \in {s \in Slots : slot[s].used /\ slot[s].answer = "pending"}}
  IN
  /\ Running /\ ~forked /\ ~closed
  /\ closed' = TRUE
  /\ answers' = [m \in Messages |-> IF m \in pending THEN Default ELSE answers[m]]
  /\ refs' = [m \in Messages |-> IF \E s \in queued : slot[s].message = m THEN refs[m] - 1 ELSE refs[m]]
  /\ slot' = [s \in Slots |->
                [slot[s] EXCEPT !.used = @ /\ s \notin queued,
                                !.answer = IF slot[s].used /\ @ = "pending" THEN "answered" ELSE @]]
  /\ queue' = <<>>
  /\ UNCHANGED <<stream, arrived, lost, tickets, seqVars, leaked_messages, objectVars, rubyVars>>

\* fork: the calling thread is the only one of the child.  From here on the
\* variables of Endpoint Security are those of the parent.
Fork ==
  /\ ~forked /\ Running
  /\ forked' = TRUE
  /\ call' = [t \in Threads |-> None]
  /\ UNCHANGED <<esVars, slot, queueVars, closed, seqVars, leaked_messages, objectVars, view, strayed>>
-----------------------------------------------------------------------------
(***************************************************************************)
(* Message objects.                                                        *)
(***************************************************************************)
\* get_message does not raise.
Usable(o) == ~forked /\ valid[o]

\* The message whose memory is read through object o.
Reads(o) ==
  LET m == slot[slotOf[o]].message IN
  strayed' = IF m = o /\ refs[m] > 0 THEN strayed ELSE strayed \cup {o}

\* esrb_respond_slot for an object.
RespondSlot(o) == IF closed THEN UNCHANGED <<slot, answers>> ELSE AnswerSlot(slotOf[o], Explicit(o))

\* version, event_type, deadline, seq_num, time, result, answered? and the
\* other accessors.
Access(o) ==
  /\ Running /\ Usable(o)
  /\ Reads(o)
  /\ UNCHANGED <<esVars, slot, queueVars, closed, seqVars, leaked_messages, objectVars, call, view, forked>>

\* respond_auth up to the calls of Ruby methods, with cache: true.
RespondBegin(t, o) ==
  /\ call[t] = None
  /\ Usable(o) /\ Auth(o)
  /\ Reads(o)
  /\ call' = [call EXCEPT ![t] = o]
  /\ UNCHANGED <<esVars, slot, queueVars, closed, seqVars, leaked_messages, objectVars, view, forked>>

\* The rest: a strict client refuses to cache some events.
RespondEnd(t) ==
  LET o == call[t] IN
  /\ o # None
  /\ IF EventOf[o] \notin Cacheable /\ StrictCache THEN UNCHANGED <<slot, answers>> ELSE RespondSlot(o)
  /\ call' = [call EXCEPT ![t] = None]
  /\ UNCHANGED <<stream, arrived, lost, refs, queueVars, closed, seqVars, leaked_messages, objectVars, view,
                 forked, strayed>>

\* With cache: false nothing of Ruby is called; respond(flags:) is for one
\* event only.
RespondAtOnce(o) ==
  /\ Running /\ Usable(o) /\ Auth(o)
  /\ Reads(o)
  /\ RespondSlot(o)
  /\ UNCHANGED <<stream, arrived, lost, refs, queueVars, closed, seqVars, leaked_messages, objectVars, call, view,
                 forked>>

\* __respond_default!.
RespondDefault(o) ==
  /\ Running /\ Usable(o) /\ ~closed
  /\ AnswerSlot(slotOf[o], Default)
  /\ UNCHANGED <<stream, arrived, lost, refs, queueVars, closed, seqVars, leaked_messages, objectVars, rubyVars>>

Retain(o) ==
  /\ Running /\ Usable(o)
  /\ held' = [held EXCEPT ![o] = TRUE]
  /\ UNCHANGED <<esVars, slot, queueVars, closed, seqVars, leaked_messages, slotOf, valid, rubyVars>>

\* What message_release does in the process that owns the client.
GiveBack(o) ==
  LET s == slotOf[o]  m == slot[s].message IN
  /\ slot' = [slot EXCEPT ![s].used = FALSE,
                          ![s].answer = IF @ = "pending" /\ ~closed THEN "answered" ELSE @]
  /\ answers' = IF slot[s].answer = "pending" /\ ~closed THEN [answers EXCEPT ![m] = Default] ELSE answers
  /\ refs' = [refs EXCEPT ![m] = @ - 1]

\* Variant: the object stays valid.
MessageReleaseKeepsValid(o) ==
  IF ~valid[o] \/ forked THEN UNCHANGED <<slot, answers, refs, valid>>
  ELSE GiveBack(o) /\ UNCHANGED valid

\* Variant: the child gives back what the parent owns.
MessageReleaseAnywhere(o) ==
  IF ~valid[o] THEN UNCHANGED <<slot, answers, refs, valid>>
  ELSE GiveBack(o) /\ valid' = [valid EXCEPT ![o] = FALSE]

MessageRelease(o) ==
  IF ~valid[o] THEN UNCHANGED <<slot, answers, refs, valid>>
  ELSE /\ IF forked THEN UNCHANGED <<slot, answers, refs>> ELSE GiveBack(o)
       /\ valid' = [valid EXCEPT ![o] = FALSE]

\* release!
Release(o) ==
  /\ Running /\ ~forked /\ valid[o]
  /\ MessageRelease(o)
  /\ UNCHANGED <<stream, arrived, lost, queueVars, closed, seqVars, leaked_messages, slotOf, held, rubyVars>>

\* __auto_release!
AutoRelease(o) ==
  /\ Running /\ valid[o] /\ ~held[o]
  /\ MessageRelease(o)
  /\ UNCHANGED <<stream, arrived, lost, queueVars, closed, seqVars, leaked_messages, slotOf, held, rubyVars>>

\* message_free: neither the program nor a call refers to the message.
Collect(o) ==
  /\ Running /\ valid[o] /\ \A t \in Threads : call[t] # o
  /\ leaked_messages' = IF held[o] /\ ~forked THEN leaked_messages + 1 ELSE leaked_messages
  /\ MessageRelease(o)
  /\ view' = IF view.owner = o THEN NoView ELSE view
  /\ UNCHANGED <<stream, arrived, lost, queueVars, closed, seqVars, slotOf, held, call, forked, strayed>>
-----------------------------------------------------------------------------
(***************************************************************************)
(* Views.                                                                  *)
(***************************************************************************)
\* message.process, message.event and message.thread.
ViewOf(o) ==
  /\ Running /\ Usable(o)
  /\ \E schema \in {Process, EventSchema(EventOf[o])} \cup (IF Version >= 4 THEN {Thread} ELSE {}) :
       view' = [owner |-> o, schema |-> schema]
  /\ Reads(o)
  /\ UNCHANGED <<esVars, slot, queueVars, closed, seqVars, leaked_messages, objectVars, call, forked>>

\* The memory of the view's message is read, and the view of a nested
\* structure takes its place.
ReadThrough(results) ==
  /\ strayed' = IF refs[view.owner] > 0 THEN strayed ELSE strayed \cup {view.owner}
  /\ \E r \in results : view' = IF r.kind \in {"view", "views"} THEN [view EXCEPT !.schema = r.schema] ELSE view
  /\ UNCHANGED <<esVars, slot, queueVars, closed, seqVars, leaked_messages, objectVars, call, forked>>

\* Variant: a view does not ask its message.
ViewUsableAlways == ~forked /\ view # NoView

\* get_view does not raise.
ViewUsable == view # NoView /\ Usable(view.owner)

ReadViewField(field) ==
  /\ Running /\ ViewUsable
  /\ ReadThrough(ReadField(view.schema, field, Version, StrictVersion))

\* __exec_values: arguments, environment and descriptors of an exec event.
ExecValues ==
  /\ Running /\ ViewUsable /\ view.schema = Exec
  /\ ReadThrough({Value, Views(Descriptor)})
-----------------------------------------------------------------------------
Next ==
  \/ Lose \/ HandleMessage \/ Drain \/ Close \/ Fork
  \/ \E s \in Slots : WatchdogAnswers(s)
  \/ \E o \in Messages :
       \/ Access(o) \/ RespondAtOnce(o) \/ RespondDefault(o)
       \/ Retain(o) \/ Release(o) \/ AutoRelease(o) \/ Collect(o) \/ ViewOf(o)
  \/ \E t \in Threads : RespondEnd(t) \/ \E o \in Messages : RespondBegin(t, o)
  \/ \E schema \in {view.schema} \ {<<>>} : \E field \in FieldsOf(schema) : ReadViewField(field)
  \/ ExecValues

Spec == Init /\ [][Next]_vars
-----------------------------------------------------------------------------
(***************************************************************************)
(* Properties.                                                             *)
(***************************************************************************)

\* Every variable stays in its range.
TypeOK ==
  /\ stream \in Streams
  /\ arrived \in 0 .. MessageCount /\ lost \subseteq Messages /\ tickets \in 0 .. MessageCount
  /\ refs \in [Messages -> 0 .. 1]
  /\ \A m \in Messages : answers[m] \in {NoAnswer, Default} \cup {Explicit(o) : o \in Messages}
  /\ slot \in [Slots -> [message : Messages \cup {None}, used : BOOLEAN,
                         answer : {"not_auth", "pending", "answered"}]]
  /\ queue \in Seq(Slots) /\ closed \in BOOLEAN /\ forked \in BOOLEAN
  /\ DOMAIN last_seq = Keys /\ \A k \in Keys : last_seq[k] \in 0 .. MessageCount /\ seen_seq[k] \in BOOLEAN
  /\ seq_gaps \in 0 .. MessageCount /\ leaked_messages \in 0 .. MessageCount
  /\ slotOf \in [Messages -> Slots] /\ valid \in [Messages -> BOOLEAN] /\ held \in [Messages -> BOOLEAN]
  /\ call \in [Threads -> Messages \cup {None}]
  /\ view.owner \in Messages \cup {None} /\ view.schema \in Schemas \cup {<<>>}

\* No accessor and no view reads a released message, or another message that
\* took the slot since: objects and views learn of a release by any thread.
NothingReadAfterRelease == strayed = {}

\* Responses of objects.
AnsweredByObject(m) == answers[m] # answers'[m] /\ answers'[m].by = "object"

\* A response goes to the message of its object; only if the object was
\* released while allow! or deny! was in a Ruby method it may go elsewhere.
AnswersItsMessageUnlessReleased ==
  [][\A m \in Messages :
       AnsweredByObject(m) => answers'[m].object = m \/ ~valid[answers'[m].object]]_vars

\* What a child process does with the objects it inherited is nothing to
\* Endpoint Security: no answer, no release, no report of a leak.
ChildLeavesParentAlone ==
  [][forked => UNCHANGED <<refs, answers, slot, leaked_messages>>]_vars

\* A message is kept as long as its object may be used, and no longer: once
\* nothing is queued, the references are those of the valid objects.
RetainedWhileValid ==
  queue = <<>> /\ ~forked => \A m \in Messages : refs[m] = 1 <=> valid[m]

\* message_release gives each message back exactly once: the references stay
\* in their range, with the other variables, and follow the objects.
ObjectInv == TypeOK /\ RetainedWhileValid

\* The gaps counted are the messages lost between the first and the last one
\* seen, of all or of the same event as the messages' version numbers them.
GapsAreLostMessages ==
  LET delivered == (1 .. arrived) \ lost IN
  seq_gaps = IF Version < 2 THEN 0 ELSE
    Cardinality({m \in lost : \E a, b \in delivered :
                   a < m /\ m < b /\ Key(a) = Key(m) /\ Key(b) = Key(m)})

\* A view of a field is a view of the structure that the field is declared to
\* be or to point to: no memory is read as a structure it is not.
ViewsMatchTheirTypes ==
  \A f \in FieldsOf(view.schema) : \A r \in ReadField(view.schema, f, Version, StrictVersion) :
    r.kind \in {"view", "views"} /\ f.type.kind = "named" => r.schema = f.type.words

\* A field that points to a structure of the tables is read as a view of it,
\* with one exception: a name with a word that begins with t before its end
\* is cut there.
ResolvedUnlessCut ==
  \A f \in FieldsOf(view.schema) :
    /\ f.type.kind = "named" /\ f.type.words \in Schemas /\ f.since <= Version
    /\ \A k \in 2 .. Len(f.type.words) - 1 : f.type.words[k] \notin BeginWithT
    => \E r \in ReadField(view.schema, f, Version, StrictVersion) : r.kind \in {"view", "views"}

\* The structure that read_field looks up by the text of a type is the one
\* the tables declare: never another one, and, but for the names that are cut
\* too early, never none.
ViewsAreTyped == view # NoView => ViewsMatchTheirTypes /\ ResolvedUnlessCut
-----------------------------------------------------------------------------
(***************************************************************************)
(* What the documentation says and the code does not do.                   *)
(***************************************************************************)

\* A released message raises MessageInvalidatedError; it does not answer
\* another message, whatever the threads do between check and answer.
AnswersItsOwnMessage ==
  [][\A m \in Messages : AnsweredByObject(m) => answers'[m].object = m]_vars
=============================================================================
