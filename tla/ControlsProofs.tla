--------------------------- MODULE ControlsProofs ---------------------------
(***************************************************************************)
(* Proofs about Controls.tla and Lifecycle.tla, for any number of threads  *)
(* and events, any requests, and any number of failed deletes and wakeups  *)
(* nobody sent.                                                            *)
(***************************************************************************)
EXTENDS Controls, FiniteSetTheorems, TLAPS

(***************************************************************************)
(* The inductive invariant: the client's life.                             *)
(***************************************************************************)
InitPcs == {"queue_init", "watchdog_init", "pipe", "fcntl", "pthread_create"}
WaitPcs == {"lock", "check", "block", "wait"}
StopPcs == {"close_wait", "close_delete", "close_unlock", "close_join"}
RubyPcs == {"none", "result", "close", "close_end", "free"} \cup InitPcs \cup WaitPcs \cup StopPcs
NativePcs == {"unborn", "new_client", "announce", "announced", "watch", "slept", "delete", "dead"} \cup WaitPcs

PcInv ==
  /\ pc \in [{"ruby", "native"} -> RubyPcs \cup NativePcs]
  /\ pc["ruby"] \in RubyPcs /\ pc["native"] \in NativePcs
  /\ why \in {"method", "ensure", "free"}

\* What client_initialize has acquired at each of its lines.
Acquired(l) ==
  CASE l = "watchdog_init" -> {"queue"}
    [] l = "pipe" -> {"queue", "watchdog"}
    [] l \in {"fcntl", "pthread_create"} -> Resources
    [] OTHER -> {}

\* Before pthread_create succeeds there is nothing but the memory.
UnbornInv ==
  pc["native"] = "unborn" =>
    /\ ~watchdog_thread_started /\ ~client /\ es = "none" /\ waiting = {}
    /\ ~client_ready /\ ~creation_result /\ ~delete_ready
    /\ pc["ruby"] \in InitPcs \cup {"none", "free"}
    /\ object = "initializing" <=> pc["ruby"] \in InitPcs
    /\ object # "usable" /\ (object = "freed" => pc["ruby"] = "none")
    /\ closed <=> pc["ruby"] # "pthread_create"
    /\ pc["ruby"] = "pthread_create" => owner_pid /\ watchdog_running /\ ~watchdog_stopped
    /\ fields = Acquired(pc["ruby"])
    /\ mutex = IF "watchdog" \in fields THEN "free" ELSE "none"

\* As long as the native thread has not been joined: where the functions of
\* Ruby and the native thread may be at a time.
StartedInv ==
  pc["native"] # "unborn" /\ watchdog_thread_started /\ ~forked =>
    /\ fields = Resources
    /\ object \in {"initializing", "usable"}
    /\ pc["ruby"] \in {"none", "result", "close"} \cup WaitPcs \cup StopPcs
    /\ closed <=> pc["ruby"] \in StopPcs
    /\ watchdog_running <=> ~closed
    /\ pc["ruby"] \in WaitPcs \cup {"result"} => object = "initializing"
    /\ pc["ruby"] \in StopPcs \cup {"close"} => (why = "ensure" <=> object = "initializing")
    /\ pc["ruby"] \notin WaitPcs => client_ready
    /\ pc["ruby"] \notin WaitPcs \cup {"result"} => creation_result
    /\ client_ready <=> pc["native"] \notin {"new_client", "announce"}
    /\ creation_result => client /\ client_ready
    /\ pc["native"] # "new_client" /\ es = "none" => ~client
    /\ client_ready /\ ~creation_result => ~client /\ pc["native"] \in {"announced", "dead"}
    /\ ~client => es = "none"
    /\ pc["native"] = "new_client" => ~client
    /\ watchdog_stopped <=> creation_result /\ pc["native"] \in WaitPcs \cup {"delete", "dead"}
    /\ pc["ruby"] \in {"close_delete", "close_unlock", "close_join"} => watchdog_stopped
    /\ delete_ready <=> pc["ruby"] \in {"close_unlock", "close_join"}
    /\ creation_result /\ pc["native"] \in {"delete", "dead"} => delete_ready
    /\ client /\ pc["native"] # "dead" => es = "live"

\* The mutex is held between lock and unlock, and a thread is in
\* pthread_cond_wait only where it calls it.
MutexInv ==
  pc["native"] # "unborn" /\ ~forked =>
    /\ mutex = "native" <=> pc["native"] \in {"check", "block", "announced"}
    /\ mutex = "ruby" <=> pc["ruby"] \in {"check", "block", "close_unlock"}
    /\ mutex = "none" <=> fields = {}
    /\ "ruby" \in waiting => pc["ruby"] = "wait"
    /\ "native" \in waiting => pc["native"] \in {"wait", "slept"}

\* Once it has been joined.
JoinedInv ==
  pc["native"] # "unborn" /\ ~watchdog_thread_started /\ ~forked =>
    /\ pc["native"] = "dead" /\ closed /\ ~client /\ client_ready
    /\ pc["ruby"] \in {"none", "close_end", "free"}
    /\ object \in {"initializing", "usable", "raised", "freed"}
    /\ object = "initializing" => pc["ruby"] = "close_end" /\ why = "ensure"
    /\ pc["ruby"] = "close_end" /\ why = "ensure" => object = "initializing"
    /\ pc["ruby"] = "close_end" => creation_result
    /\ object = "usable" => creation_result
    /\ object = "raised" /\ ~creation_result => fields = {}
    /\ object = "freed" => fields = {} /\ pc["ruby"] = "none"
    /\ pc["ruby"] = "close_end" => object \in {"initializing", "usable", "raised"}
    /\ fields \in {{}, Resources}

\* In every process: the fields are what exists, nothing was misused, what
\* failed gave everything back, and a child runs nothing but client_free.
ProcessInv ==
  /\ live = fields /\ misused = {}
  /\ pc["native"] # "unborn" => owner_pid
  /\ pc["native"] = "dead" /\ es = "live" => delete_errors > 0
  /\ forked => pc["ruby"] \in {"none", "free"}
  /\ pc["ruby"] = "free" => object \in {"allocated", "usable", "raised"}
  /\ object = "raised" /\ ~(client_ready /\ creation_result) => fields = {}
  /\ object = "freed" => fields = {}

LifeInv == PcInv /\ UnbornInv /\ StartedInv /\ MutexInv /\ JoinedInv /\ ProcessInv
-----------------------------------------------------------------------------
(***************************************************************************)
(* The inductive invariant: the control methods.                           *)
(***************************************************************************)

\* Until new returns, the thread that called it is alone with the object, and
\* nothing is subscribed before the subscribe option is looked at.
NewInv ==
  /\ stage \in {"mute", "eager", "subscribe", "end"}
  /\ object = "allocated" \/ (object = "initializing" /\ pc["ruby"] # "none") =>
       \A u \in Users : call[u] = Idle
  /\ object = "initializing" => \A u \in Users \ {Creator} : call[u] = Idle
  /\ object = "allocated" \/ pc["ruby"] \in InitPcs => stage = "mute" /\ subscribed = {}
  /\ object \in {"allocated", "initializing"} /\ stage \in {"mute", "eager"} =>
       subscriptions = {} /\ call[Creator].at \notin Changing

\* Only events that are available come to __subscribe.
Sound(c) ==
  /\ c.at = "probed" => c.todo # <<>> /\ Head(c.todo) \in Available
  /\ c.at \in {"probe", "probed"} /\ c.on = "subscribe" => c.events \subseteq Available \cup ToSet(c.todo)
  /\ c.at \in {"probe", "probed"} /\ c.on # "subscribe" => (c.events \cup ToSet(c.todo)) \subseteq Available
  /\ c.at \in {"subscribe", "record"} => c.events \subseteq Available

EventInv == \A u \in Users : Sound(call[u])

\* One thread at a time changes the subscriptions.
LoneInv ==
  ~overlapped => \A u, v \in Users : call[u].at \in Changing /\ call[v].at \in Changing => u = v

\* The list is what is subscribed, but for what a failed probe left behind, and
\* for what the call c has done and not yet written down.
Settled == subscriptions \subseteq subscribed /\ subscribed \subseteq subscriptions \cup leftover

AgreeFor(c) ==
  /\ c.at \notin {"probed", "record", "unlist"} => Settled
  /\ c.at \in {"probe", "probed", "subscribe"} => (c.events \cup ToSet(c.todo)) \cap subscriptions = {}
  /\ c.at = "probed" =>
       /\ subscriptions \subseteq subscribed
       /\ subscribed \subseteq subscriptions \cup leftover \cup {Head(c.todo)}
  /\ c.at = "record" =>
       /\ subscriptions \cup c.events \subseteq subscribed
       /\ subscribed \subseteq subscriptions \cup leftover \cup c.events
  /\ c.at = "unlist" =>
       /\ subscriptions \subseteq subscribed \cup c.events
       /\ subscribed \subseteq (subscriptions \cup leftover) \ c.events

AgreeInv ==
  ~closed /\ ~forked /\ ~overlapped =>
    \A u \in Users : (\A v \in Users \ {u} : call[v].at \notin Changing) => AgreeFor(call[u])

MethodInv == NewInv /\ EventInv /\ LoneInv /\ AgreeInv /\ SetsReleased

ControlsInv == TypeOK /\ LifeInv /\ MethodInv
-----------------------------------------------------------------------------
(***************************************************************************)
(* The client's life.                                                      *)
(***************************************************************************)
\* The flags, out of the type invariant's set.
LEMMA FlagTypes ==
  ASSUME TypeOK
  PROVE  /\ owner_pid \in BOOLEAN /\ client \in BOOLEAN /\ closed \in BOOLEAN
         /\ watchdog_thread_started \in BOOLEAN /\ watchdog_running \in BOOLEAN
         /\ watchdog_stopped \in BOOLEAN /\ client_ready \in BOOLEAN /\ creation_result \in BOOLEAN
         /\ delete_ready \in BOOLEAN /\ forked \in BOOLEAN /\ overlapped \in BOOLEAN
BY DEF TypeOK

\* A step of the Ruby thread leaves the native one where it is.
LEMMA GotoRuby ==
  ASSUME PcInv, NEW l \in RubyPcs, Goto("ruby", l)
  PROVE  /\ pc' \in [{"ruby", "native"} -> RubyPcs \cup NativePcs]
         /\ pc'["ruby"] = l /\ pc'["native"] = pc["native"]
BY DEF PcInv, Goto

\* And the other way round.
LEMMA GotoNative ==
  ASSUME PcInv, NEW l \in NativePcs, Goto("native", l)
  PROVE  /\ pc' \in [{"ruby", "native"} -> RubyPcs \cup NativePcs]
         /\ pc'["native"] = l /\ pc'["ruby"] = pc["ruby"]
BY DEF PcInv, Goto

\* Where the two threads are after a step.
At2(r, n) ==
  /\ pc' \in [{"ruby", "native"} -> RubyPcs \cup NativePcs]
  /\ pc'["ruby"] = r /\ pc'["native"] = n

\* What client_initialize has acquired, line by line.
LEMMA AcquiredAt ==
  /\ Acquired("none") = {} /\ Acquired("free") = {} /\ Acquired("queue_init") = {}
  /\ Acquired("watchdog_init") = {"queue"} /\ Acquired("pipe") = {"queue", "watchdog"}
  /\ Acquired("fcntl") = Resources /\ Acquired("pthread_create") = Resources
BY DEF Acquired

USE DEF flagVars, readyVars, resourceVars, waitVars, objectVars, esVars, InitPcs, WaitPcs, StopPcs

\* client_close_native.
LEMMA CloseLife ==
  ASSUME TypeOK, LifeInv,
         CloseBegins \/ CloseWait \/ CloseDelete \/ CloseUnlock \/ CloseJoin \/ CloseEnd
  PROVE  LifeInv'
<1> USE FlagTypes DEF LifeInv
<1>0. PcInv /\ UnbornInv /\ StartedInv /\ MutexInv /\ JoinedInv /\ ProcessInv
  OBVIOUS
<1>1. CASE CloseBegins
  <2>1. pc["ruby"] = "close" /\ pc["native"] # "unborn" /\ ~forked /\ watchdog_thread_started
    BY <1>1 DEF CloseBegins, UnbornInv, ProcessInv, JoinedInv
  <2>2. At2("close_wait", pc["native"])
    BY <1>1, <2>1, GotoRuby DEF CloseBegins, RubyPcs, At2
  <2> QED
    BY <1>1, <2>1, <2>2 DEF CloseBegins, At2, PcInv, UnbornInv, StartedInv, MutexInv, JoinedInv, ProcessInv, RubyPcs
<1>2. CASE CloseWait
  <2>1. pc["ruby"] = "close_wait" /\ pc["native"] # "unborn" /\ ~forked /\ watchdog_thread_started
    BY <1>2 DEF CloseWait, UnbornInv, ProcessInv, JoinedInv
  <2>2. At2("close_delete", pc["native"])
    BY <1>2, <2>1, GotoRuby DEF CloseWait, RubyPcs, At2
  <2> QED
    BY <1>2, <2>1, <2>2 DEF CloseWait, At2, PcInv, UnbornInv, StartedInv, MutexInv, JoinedInv, ProcessInv, RubyPcs
<1>3. CASE CloseDelete
  <2>1. pc["ruby"] = "close_delete" /\ pc["native"] # "unborn" /\ ~forked /\ watchdog_thread_started
    BY <1>3 DEF CloseDelete, UnbornInv, ProcessInv, JoinedInv
  <2>2. At2("close_unlock", pc["native"])
    BY <1>3, <2>1, GotoRuby DEF CloseDelete, RubyPcs, At2
  <2> QED
    BY <1>3, <2>1, <2>2 DEF CloseDelete, At2, PcInv, UnbornInv, StartedInv, MutexInv, JoinedInv, ProcessInv, RubyPcs
<1>4. CASE CloseUnlock
  <2>1. pc["ruby"] = "close_unlock" /\ pc["native"] # "unborn" /\ ~forked /\ watchdog_thread_started
    BY <1>4 DEF CloseUnlock, UnbornInv, ProcessInv, JoinedInv
  <2>2. At2("close_join", pc["native"])
    BY <1>4, <2>1, GotoRuby DEF CloseUnlock, RubyPcs, At2
  <2> QED
    BY <1>4, <2>1, <2>2 DEF CloseUnlock, At2, PcInv, UnbornInv, StartedInv, MutexInv, JoinedInv, ProcessInv, RubyPcs, Resources
<1>5. CASE CloseJoin
  <2>1. pc["ruby"] = "close_join" /\ pc["native"] # "unborn" /\ ~forked /\ watchdog_thread_started
    BY <1>5 DEF CloseJoin, UnbornInv, ProcessInv, JoinedInv
  <2>2. At2("close_end", pc["native"])
    BY <1>5, <2>1, GotoRuby DEF CloseJoin, RubyPcs, At2
  <2> QED
    BY <1>5, <2>1, <2>2 DEF CloseJoin, At2, PcInv, UnbornInv, StartedInv, MutexInv, JoinedInv, ProcessInv, RubyPcs, Resources
<1>6. CASE CloseEnd
  <2>1. pc["ruby"] = "close_end" /\ pc["native"] # "unborn" /\ ~forked /\ ~watchdog_thread_started
    BY <1>6 DEF CloseEnd, UnbornInv, ProcessInv, StartedInv
  <2>2. At2(IF why = "free" THEN "free" ELSE "none", pc["native"])
    BY <1>6, <2>1, GotoRuby DEF CloseEnd, RubyPcs, At2
  <2> QED
    BY <1>6, <2>1, <2>2 DEF CloseEnd, At2, PcInv, UnbornInv, StartedInv, MutexInv, JoinedInv, ProcessInv, RubyPcs
<1> QED
  BY <1>1, <1>2, <1>3, <1>4, <1>5, <1>6

\* client_native_main.
LEMMA NativeLife ==
  ASSUME TypeOK, LifeInv, ~forked,
         NewClient \/ Announce \/ Announced \/ Watch \/ Slept \/ DeleteClient
  PROVE  LifeInv'
<1> USE FlagTypes DEF LifeInv
<1>0. PcInv /\ UnbornInv /\ StartedInv /\ MutexInv /\ JoinedInv /\ ProcessInv
  OBVIOUS
<1>1. CASE NewClient
  <2>1. pc["native"] = "new_client" /\ watchdog_thread_started
    BY <1>1 DEF NewClient, JoinedInv
  <2>2. At2(pc["ruby"], "announce")
    BY <1>1, <2>1, GotoNative DEF NewClient, NativePcs, At2
  <2> QED
    BY <1>1, <2>1, <2>2 DEF NewClient, At2, PcInv, UnbornInv, StartedInv, MutexInv, JoinedInv, ProcessInv, RubyPcs, NativePcs, Resources
<1>2. CASE Announce
  <2>1. pc["native"] = "announce" /\ watchdog_thread_started
    BY <1>2 DEF Announce, JoinedInv
  <2>2. At2(pc["ruby"], "announced")
    BY <1>2, <2>1, GotoNative DEF Announce, NativePcs, At2
  <2> QED
    BY <1>2, <2>1, <2>2 DEF Announce, At2, PcInv, UnbornInv, StartedInv, MutexInv, JoinedInv, ProcessInv, RubyPcs, NativePcs, Resources
<1>3. CASE Announced
  <2>1. pc["native"] = "announced" /\ watchdog_thread_started
    BY <1>3 DEF Announced, JoinedInv
  <2>2. At2(pc["ruby"], IF creation_result THEN "watch" ELSE "dead")
    BY <1>3, <2>1, GotoNative DEF Announced, NativePcs, At2
  <2> QED
    BY <1>3, <2>1, <2>2 DEF Announced, At2, PcInv, UnbornInv, StartedInv, MutexInv, JoinedInv, ProcessInv, RubyPcs, NativePcs, Resources
<1>4. CASE Watch
  <2>1. pc["native"] = "watch" /\ watchdog_thread_started
    BY <1>4 DEF Watch, JoinedInv
  <2>2. At2(pc["ruby"], IF watchdog_running THEN "slept" ELSE "lock")
    BY <1>4, <2>1, GotoNative DEF Watch, NativePcs, At2
  <2> QED
    BY <1>4, <2>1, <2>2 DEF Watch, At2, PcInv, UnbornInv, StartedInv, MutexInv, JoinedInv, ProcessInv, RubyPcs, NativePcs, Resources
<1>5. CASE Slept
  <2>1. pc["native"] = "slept" /\ watchdog_thread_started
    BY <1>5 DEF Slept, JoinedInv
  <2>2. At2(pc["ruby"], "watch")
    BY <1>5, <2>1, GotoNative DEF Slept, NativePcs, At2
  <2> QED
    BY <1>5, <2>1, <2>2 DEF Slept, At2, PcInv, UnbornInv, StartedInv, MutexInv, JoinedInv, ProcessInv, RubyPcs, NativePcs, Resources
<1>6. CASE DeleteClient
  <2>1. pc["native"] = "delete" /\ watchdog_thread_started
    BY <1>6 DEF DeleteClient, JoinedInv
  <2>2. At2(pc["ruby"], "dead")
    BY <1>6, <2>1, GotoNative DEF DeleteClient, NativePcs, At2
  <2>3. es' = "live" => delete_errors' > 0
    BY <1>6, LifecycleAssumption DEF DeleteClient, TypeOK
  <2> QED
    BY <1>6, <2>1, <2>2, <2>3 DEF DeleteClient, At2, PcInv, UnbornInv, StartedInv, MutexInv, JoinedInv, ProcessInv, RubyPcs, NativePcs, Resources
<1> QED
  BY <1>1, <1>2, <1>3, <1>4, <1>5, <1>6

\* The loop around pthread_cond_wait in client_initialize.
LEMMA RubyWaitLife ==
  ASSUME TypeOK, LifeInv,
         CondLock("ruby") \/ CondCheck("ruby") \/ CondBlock("ruby") \/ CondWoken("ruby")
  PROVE  LifeInv'
<1> USE FlagTypes DEF LifeInv
<1>0. PcInv /\ UnbornInv /\ StartedInv /\ MutexInv /\ JoinedInv /\ ProcessInv
  OBVIOUS
<1>1. CASE CondLock("ruby")
  <2>1. pc["ruby"] = "lock" /\ pc["native"] # "unborn" /\ ~forked /\ watchdog_thread_started
    BY <1>1 DEF CondLock, UnbornInv, ProcessInv, JoinedInv
  <2>2. At2("check", pc["native"])
    BY <1>1, <2>1, GotoRuby DEF CondLock, RubyPcs, At2, WaitsFor
  <2> QED
    BY <1>1, <2>1, <2>2 DEF CondLock, At2, PcInv, UnbornInv, StartedInv, MutexInv, JoinedInv, ProcessInv, RubyPcs, NativePcs, Resources, WaitsFor
<1>2. CASE CondCheck("ruby")
  <2>1. pc["ruby"] = "check" /\ pc["native"] # "unborn" /\ ~forked /\ watchdog_thread_started
    BY <1>2 DEF CondCheck, UnbornInv, ProcessInv, JoinedInv
  <2>2. At2(IF client_ready THEN "result" ELSE "block", pc["native"])
    BY <1>2, <2>1, GotoRuby DEF CondCheck, RubyPcs, At2, WaitsFor
  <2> QED
    BY <1>2, <2>1, <2>2 DEF CondCheck, At2, PcInv, UnbornInv, StartedInv, MutexInv, JoinedInv, ProcessInv, RubyPcs, NativePcs, Resources, WaitsFor
<1>3. CASE CondBlock("ruby")
  <2>1. pc["ruby"] = "block" /\ pc["native"] # "unborn" /\ ~forked /\ watchdog_thread_started
    BY <1>3 DEF CondBlock, UnbornInv, ProcessInv, JoinedInv
  <2>2. At2("wait", pc["native"])
    BY <1>3, <2>1, GotoRuby DEF CondBlock, RubyPcs, At2, WaitsFor
  <2> QED
    BY <1>3, <2>1, <2>2 DEF CondBlock, At2, PcInv, UnbornInv, StartedInv, MutexInv, JoinedInv, ProcessInv, RubyPcs, NativePcs, Resources, WaitsFor
<1>4. CASE CondWoken("ruby")
  <2>1. pc["ruby"] = "wait" /\ pc["native"] # "unborn" /\ ~forked /\ watchdog_thread_started
    BY <1>4 DEF CondWoken, UnbornInv, ProcessInv, JoinedInv
  <2>2. At2("lock", pc["native"])
    BY <1>4, <2>1, GotoRuby DEF CondWoken, RubyPcs, At2, WaitsFor
  <2> QED
    BY <1>4, <2>1, <2>2 DEF CondWoken, At2, PcInv, UnbornInv, StartedInv, MutexInv, JoinedInv, ProcessInv, RubyPcs, NativePcs, Resources, WaitsFor
<1> QED
  BY <1>1, <1>2, <1>3, <1>4

\* The loop around pthread_cond_wait in client_native_main.
LEMMA NativeWaitLife ==
  ASSUME TypeOK, LifeInv, ~forked,
         CondLock("native") \/ CondCheck("native") \/ CondBlock("native") \/ CondWoken("native")
  PROVE  LifeInv'
<1> USE FlagTypes DEF LifeInv
<1>0. PcInv /\ UnbornInv /\ StartedInv /\ MutexInv /\ JoinedInv /\ ProcessInv
  OBVIOUS
<1>1. CASE CondLock("native")
  <2>1. pc["native"] = "lock" /\ watchdog_thread_started
    BY <1>1 DEF CondLock, JoinedInv
  <2>2. At2(pc["ruby"], "check")
    BY <1>1, <2>1, GotoNative DEF CondLock, NativePcs, At2, WaitsFor
  <2> QED
    BY <1>1, <2>1, <2>2 DEF CondLock, At2, PcInv, UnbornInv, StartedInv, MutexInv, JoinedInv, ProcessInv, RubyPcs, NativePcs, Resources, WaitsFor
<1>2. CASE CondCheck("native")
  <2>1. pc["native"] = "check" /\ watchdog_thread_started
    BY <1>2 DEF CondCheck, JoinedInv
  <2>2. At2(pc["ruby"], IF delete_ready THEN "delete" ELSE "block")
    BY <1>2, <2>1, GotoNative DEF CondCheck, NativePcs, At2, WaitsFor
  <2> QED
    BY <1>2, <2>1, <2>2 DEF CondCheck, At2, PcInv, UnbornInv, StartedInv, MutexInv, JoinedInv, ProcessInv, RubyPcs, NativePcs, Resources, WaitsFor
<1>3. CASE CondBlock("native")
  <2>1. pc["native"] = "block" /\ watchdog_thread_started
    BY <1>3 DEF CondBlock, JoinedInv
  <2>2. At2(pc["ruby"], "wait")
    BY <1>3, <2>1, GotoNative DEF CondBlock, NativePcs, At2, WaitsFor
  <2> QED
    BY <1>3, <2>1, <2>2 DEF CondBlock, At2, PcInv, UnbornInv, StartedInv, MutexInv, JoinedInv, ProcessInv, RubyPcs, NativePcs, Resources, WaitsFor
<1>4. CASE CondWoken("native")
  <2>1. pc["native"] = "wait" /\ watchdog_thread_started
    BY <1>4 DEF CondWoken, JoinedInv
  <2>2. At2(pc["ruby"], "lock")
    BY <1>4, <2>1, GotoNative DEF CondWoken, NativePcs, At2, WaitsFor
  <2> QED
    BY <1>4, <2>1, <2>2 DEF CondWoken, At2, PcInv, UnbornInv, StartedInv, MutexInv, JoinedInv, ProcessInv, RubyPcs, NativePcs, Resources, WaitsFor
<1> QED
  BY <1>1, <1>2, <1>3, <1>4

\* client_initialize up to pthread_create: what it acquires and gives back.
LEMMA CreateLife ==
  ASSUME TypeOK, LifeInv,
         RejectOptions \/ Initialize \/ QueueInit \/ WatchdogInit \/ Pipe \/ FcntlFails \/ Fcntl
           \/ PthreadCreateFails \/ PthreadCreate
  PROVE  LifeInv'
<1> USE FlagTypes DEF LifeInv
<1>0. PcInv /\ UnbornInv /\ StartedInv /\ MutexInv /\ JoinedInv /\ ProcessInv
  OBVIOUS
<1>1. CASE RejectOptions \/ Initialize
  <2>1. pc["ruby"] = "none" /\ pc["native"] = "unborn" /\ ~forked /\ object = "allocated"
    BY <1>1 DEF RejectOptions, Initialize, StartedInv, JoinedInv
  <2>2. \/ At2("none", "unborn") /\ object' = "raised"
        \/ At2("queue_init", "unborn") /\ object' = "initializing"
    BY <1>1, <2>1, GotoRuby DEF RejectOptions, Initialize, Failed, RubyPcs, At2
  <2>3. UNCHANGED <<flagVars, readyVars, resourceVars, waitVars, why, forked, esVars>>
    BY <1>1 DEF RejectOptions, Initialize
  <2> QED
    BY <2>1, <2>2, <2>3, AcquiredAt DEF At2, PcInv, UnbornInv, StartedInv, MutexInv, JoinedInv, ProcessInv, RubyPcs, NativePcs
<1>2. CASE QueueInit
  <2>1. pc["ruby"] = "queue_init" /\ pc["native"] = "unborn" /\ ~forked
    BY <1>2 DEF QueueInit, Step, StartedInv, JoinedInv, ProcessInv, UnbornInv
  <2>2. At2("watchdog_init", "unborn") \/ At2("none", "unborn")
    BY <1>2, <2>1, GotoRuby DEF QueueInit, Step, Failed, RubyPcs, At2
  <2>3. /\ fields = {} /\ live = {} /\ misused = {} /\ waiting = {}
        /\ mutex = IF "watchdog" \in fields THEN "free" ELSE "none"
    BY <2>1, AcquiredAt DEF UnbornInv, ProcessInv
  <2>4. \/ At2("watchdog_init", "unborn") /\ UNCHANGED object /\ fields' = {"queue"}
        \/ At2("none", "unborn") /\ object' = "raised" /\ fields' = {}
    BY <1>2, <2>1, <2>3, GotoRuby DEF QueueInit, Step, Failed, Acquire, Free, Resources, RubyPcs, At2
  <2>5. live' = fields' /\ misused' = {} /\ mutex' = IF "watchdog" \in fields' THEN "free" ELSE "none"
    BY <1>2, <2>3 DEF QueueInit, Step, Acquire, Free, Misuse, Resources
  <2>6. UNCHANGED <<waitVars, why, forked, esVars, owner_pid, watchdog_thread_started, watchdog_stopped, readyVars>>
    BY <1>2 DEF QueueInit, Step
  <2>7. closed' = TRUE /\ object = "initializing"
    BY <1>2, <2>1 DEF QueueInit, Step, UnbornInv
  <2> QED
    BY <2>1, <2>3, <2>4, <2>5, <2>6, <2>7, AcquiredAt DEF At2, PcInv, UnbornInv, StartedInv, MutexInv, JoinedInv, ProcessInv, RubyPcs, NativePcs
<1>3. CASE WatchdogInit
  <2>1. pc["ruby"] = "watchdog_init" /\ pc["native"] = "unborn" /\ ~forked
    BY <1>3 DEF WatchdogInit, Step, StartedInv, JoinedInv, ProcessInv, UnbornInv
  <2>2. At2("pipe", "unborn") \/ At2("none", "unborn")
    BY <1>3, <2>1, GotoRuby DEF WatchdogInit, Step, Failed, RubyPcs, At2
  <2>3. /\ fields = {"queue"} /\ live = {"queue"} /\ misused = {} /\ waiting = {}
        /\ mutex = IF "watchdog" \in fields THEN "free" ELSE "none"
    BY <2>1, AcquiredAt DEF UnbornInv, ProcessInv
  <2>4. \/ At2("pipe", "unborn") /\ UNCHANGED object /\ fields' = {"queue", "watchdog"}
        \/ At2("none", "unborn") /\ object' = "raised" /\ fields' = {}
    BY <1>3, <2>1, <2>3, GotoRuby DEF WatchdogInit, Step, Failed, Acquire, Free, Resources, RubyPcs, At2
  <2>5. live' = fields' /\ misused' = {} /\ mutex' = IF "watchdog" \in fields' THEN "free" ELSE "none"
    BY <1>3, <2>3 DEF WatchdogInit, Step, Acquire, Free, Misuse, Resources
  <2>6. UNCHANGED <<waitVars, why, forked, esVars, owner_pid, watchdog_thread_started, watchdog_stopped, readyVars>>
    BY <1>3 DEF WatchdogInit, Step
  <2>7. closed' = TRUE /\ object = "initializing"
    BY <1>3, <2>1 DEF WatchdogInit, Step, UnbornInv
  <2> QED
    BY <2>1, <2>3, <2>4, <2>5, <2>6, <2>7, AcquiredAt DEF At2, PcInv, UnbornInv, StartedInv, MutexInv, JoinedInv, ProcessInv, RubyPcs, NativePcs
<1>4. CASE Pipe
  <2>1. pc["ruby"] = "pipe" /\ pc["native"] = "unborn" /\ ~forked
    BY <1>4 DEF Pipe, Step, StartedInv, JoinedInv, ProcessInv, UnbornInv
  <2>2. At2("fcntl", "unborn") \/ At2("none", "unborn")
    BY <1>4, <2>1, GotoRuby DEF Pipe, Step, Failed, RubyPcs, At2
  <2>3. /\ fields = {"queue", "watchdog"} /\ live = {"queue", "watchdog"} /\ misused = {} /\ waiting = {}
        /\ mutex = IF "watchdog" \in fields THEN "free" ELSE "none"
    BY <2>1, AcquiredAt DEF UnbornInv, ProcessInv
  <2>4. \/ At2("fcntl", "unborn") /\ UNCHANGED object /\ fields' = Resources
        \/ At2("none", "unborn") /\ object' = "raised" /\ fields' = {}
    BY <1>4, <2>1, <2>3, GotoRuby DEF Pipe, Step, Failed, Acquire, Free, Resources, RubyPcs, At2
  <2>5. live' = fields' /\ misused' = {} /\ mutex' = IF "watchdog" \in fields' THEN "free" ELSE "none"
    BY <1>4, <2>3 DEF Pipe, Step, Acquire, Free, Misuse, Resources
  <2>6. UNCHANGED <<waitVars, why, forked, esVars, owner_pid, watchdog_thread_started, watchdog_stopped, readyVars>>
    BY <1>4 DEF Pipe, Step
  <2>7. closed' = TRUE /\ object = "initializing"
    BY <1>4, <2>1 DEF Pipe, Step, UnbornInv
  <2> QED
    BY <2>1, <2>3, <2>4, <2>5, <2>6, <2>7, AcquiredAt DEF At2, PcInv, UnbornInv, StartedInv, MutexInv, JoinedInv, ProcessInv, RubyPcs, NativePcs
<1>5. CASE FcntlFails
  <2>1. pc["ruby"] = "fcntl" /\ pc["native"] = "unborn" /\ ~forked
    BY <1>5 DEF FcntlFails, Step, StartedInv, JoinedInv, ProcessInv, UnbornInv
  <2>2. At2("none", "unborn") \/ At2("none", "unborn")
    BY <1>5, <2>1, GotoRuby DEF FcntlFails, Step, Failed, RubyPcs, At2
  <2>3. /\ fields = Resources /\ live = Resources /\ misused = {} /\ waiting = {}
        /\ mutex = IF "watchdog" \in fields THEN "free" ELSE "none"
    BY <2>1, AcquiredAt DEF UnbornInv, ProcessInv
  <2>4. At2("none", "unborn") /\ object' = "raised" /\ fields' = {}
    BY <1>5, <2>1, <2>2, <2>3 DEF FcntlFails, Failed, Free, Resources
  <2>5. live' = fields' /\ misused' = {} /\ mutex' = IF "watchdog" \in fields' THEN "free" ELSE "none"
    BY <1>5, <2>3 DEF FcntlFails, Step, Acquire, Free, Misuse, Resources
  <2>6. UNCHANGED <<waitVars, why, forked, esVars, owner_pid, watchdog_thread_started, watchdog_stopped, readyVars>>
    BY <1>5 DEF FcntlFails, Step
  <2>7. closed' = TRUE /\ object = "initializing"
    BY <1>5, <2>1 DEF FcntlFails, Step, UnbornInv
  <2> QED
    BY <2>1, <2>3, <2>4, <2>5, <2>6, <2>7, AcquiredAt DEF At2, PcInv, UnbornInv, StartedInv, MutexInv, JoinedInv, ProcessInv, RubyPcs, NativePcs
<1>6. CASE Fcntl
  <2>1. pc["ruby"] = "fcntl" /\ pc["native"] = "unborn" /\ ~forked
    BY <1>6 DEF Fcntl, StartedInv, JoinedInv, ProcessInv
  <2>2. At2("pthread_create", "unborn")
    BY <1>6, <2>1, GotoRuby DEF Fcntl, RubyPcs, At2
  <2> QED
    BY <1>6, <2>1, <2>2, AcquiredAt DEF Fcntl, At2, PcInv, UnbornInv, StartedInv, MutexInv, JoinedInv, ProcessInv, RubyPcs, NativePcs
<1>7. CASE PthreadCreateFails
  <2>1. pc["ruby"] = "pthread_create" /\ pc["native"] = "unborn" /\ ~forked
    BY <1>7 DEF PthreadCreateFails, Step, StartedInv, JoinedInv, ProcessInv, UnbornInv
  <2>2. At2("none", "unborn") \/ At2("none", "unborn")
    BY <1>7, <2>1, GotoRuby DEF PthreadCreateFails, Step, Failed, RubyPcs, At2
  <2>3. /\ fields = Resources /\ live = Resources /\ misused = {} /\ waiting = {}
        /\ mutex = IF "watchdog" \in fields THEN "free" ELSE "none"
    BY <2>1, AcquiredAt DEF UnbornInv, ProcessInv
  <2>4. At2("none", "unborn") /\ object' = "raised" /\ fields' = {}
    BY <1>7, <2>1, <2>2, <2>3 DEF PthreadCreateFails, Failed, Free, Resources
  <2>5. live' = fields' /\ misused' = {} /\ mutex' = IF "watchdog" \in fields' THEN "free" ELSE "none"
    BY <1>7, <2>3 DEF PthreadCreateFails, Step, Acquire, Free, Misuse, Resources
  <2>6. UNCHANGED <<waitVars, why, forked, esVars, owner_pid, watchdog_thread_started, watchdog_stopped, readyVars>>
    BY <1>7 DEF PthreadCreateFails, Step
  <2>7. closed' = TRUE /\ object = "initializing"
    BY <1>7, <2>1 DEF PthreadCreateFails, Step, UnbornInv
  <2> QED
    BY <2>1, <2>3, <2>4, <2>5, <2>6, <2>7, AcquiredAt DEF At2, PcInv, UnbornInv, StartedInv, MutexInv, JoinedInv, ProcessInv, RubyPcs, NativePcs
<1>8. CASE PthreadCreate
  <2>1. pc["ruby"] = "pthread_create" /\ pc["native"] = "unborn" /\ ~forked
    BY <1>8 DEF PthreadCreate, StartedInv, JoinedInv, ProcessInv
  <2>2. At2("lock", "new_client")
    BY <1>8 DEF PthreadCreate, RubyPcs, NativePcs, At2
  <2>3. fields = Resources /\ mutex = "free" /\ fields # {}
    BY <2>1, AcquiredAt DEF UnbornInv, Resources
  <2> QED
    BY <1>8, <2>1, <2>2, <2>3 DEF PthreadCreate, At2, PcInv, UnbornInv, StartedInv, MutexInv, JoinedInv, ProcessInv, RubyPcs, NativePcs
<1> QED
  BY <1>1, <1>2, <1>3, <1>4, <1>5, <1>6, <1>7, <1>8

\* The end of client_initialize.
LEMMA ResultLife ==
  ASSUME TypeOK, LifeInv, Created \/ NotCreated
  PROVE  LifeInv'
<1> USE FlagTypes DEF LifeInv
<1>0. PcInv /\ UnbornInv /\ StartedInv /\ MutexInv /\ JoinedInv /\ ProcessInv
  OBVIOUS
<1>1. CASE Created
  <2>1. pc["ruby"] = "result" /\ pc["native"] # "unborn" /\ ~forked /\ watchdog_thread_started
    BY <1>1 DEF Created, UnbornInv, JoinedInv, ProcessInv
  <2>2. At2("none", pc["native"])
    BY <1>1, <2>1, GotoRuby DEF Created, Failed, RubyPcs, At2
  <2> QED
    BY <1>1, <2>1, <2>2 DEF Created, Failed, Free, Misuse, Resources, At2, PcInv, UnbornInv, StartedInv, MutexInv, JoinedInv, ProcessInv, RubyPcs, NativePcs
<1>2. CASE NotCreated
  <2>1. /\ pc["ruby"] = "result" /\ pc["native"] = "dead" /\ ~forked /\ watchdog_thread_started
        /\ ~creation_result /\ client_ready /\ ~client /\ fields = Resources /\ es = "none"
    BY <1>2 DEF NotCreated, UnbornInv, JoinedInv, ProcessInv, StartedInv
  <2>2. At2("none", "dead") /\ object' = "raised"
    BY <1>2, <2>1, GotoRuby DEF NotCreated, Failed, RubyPcs, At2
  <2>3. waiting = {} /\ mutex = "free"
    BY <2>1 DEF MutexInv, TypeOK, Resources
  <2>4. fields' = {} /\ live' = {} /\ misused' = {} /\ mutex' = "none"
    BY <1>2, <2>1, <2>3 DEF NotCreated, Free, Misuse, Resources, ProcessInv
  <2>5. UNCHANGED <<owner_pid, watchdog_running, watchdog_stopped, readyVars, waitVars, why, forked, esVars>>
        /\ watchdog_thread_started' = FALSE /\ closed' = TRUE
    BY <1>2 DEF NotCreated
  <2> QED
    BY <2>1, <2>2, <2>3, <2>4, <2>5 DEF At2, PcInv, UnbornInv, StartedInv, MutexInv, JoinedInv, ProcessInv, RubyPcs, NativePcs
<1> QED
  BY <1>1, <1>2

\* client_free, in the process that created the client and in a child.
LEMMA FreeLife ==
  ASSUME TypeOK, LifeInv, ClientFree \/ Freed
  PROVE  LifeInv'
<1> USE FlagTypes DEF LifeInv
<1>0. PcInv /\ UnbornInv /\ StartedInv /\ MutexInv /\ JoinedInv /\ ProcessInv
  OBVIOUS
<1>1. CASE ClientFree
  <2>1. pc["ruby"] = "none" /\ object \in {"allocated", "usable", "raised"} /\ why' = "free"
    BY <1>1 DEF ClientFree, Closing
  <2>2. \/ At2("free", pc["native"]) /\ (closed \/ forked) /\ closed' = TRUE
        \/ At2("close", pc["native"]) /\ ~closed /\ ~forked /\ UNCHANGED <<client, watchdog_running, closed>>
    BY <1>1, <2>1, GotoRuby DEF ClientFree, Closing, OwnedHere, UnbornInv, ProcessInv, RubyPcs, At2
  <2>3. UNCHANGED <<owner_pid, watchdog_thread_started, watchdog_stopped, readyVars, resourceVars,
                    waitVars, object, forked, es, subscribed>>
    BY <1>1 DEF ClientFree
  <2>4. ~forked \/ ~client => UNCHANGED client
    BY <1>1 DEF ClientFree, OwnedHere
  <2> QED
    BY <2>1, <2>2, <2>3, <2>4, AcquiredAt DEF At2, PcInv, UnbornInv, StartedInv, MutexInv, JoinedInv, ProcessInv, RubyPcs, NativePcs
<1>2. CASE Freed
  <2>1. pc["ruby"] = "free" /\ At2("none", pc["native"]) /\ object' = "freed"
    BY <1>2, GotoRuby DEF Freed, RubyPcs, At2
  <2>2. fields' = {} /\ live' = {}
    BY <1>2, <2>1 DEF Freed, Free, Abandon, TypeOK, Resources, ProcessInv
  <2>3. ~forked /\ fields # {} => fields = Resources /\ mutex = "free" /\ waiting = {}
    BY <2>1, AcquiredAt DEF TypeOK, UnbornInv, JoinedInv, StartedInv, MutexInv
  <2>4. forked /\ ~owner_pid => fields = {}
    BY <2>1, AcquiredAt DEF UnbornInv, ProcessInv
  <2>5. misused' = {}
    BY <1>2, <2>1, <2>3, <2>4 DEF Freed, Free, Abandon, OwnedHere, Misuse, ProcessInv
  <2>6. mutex' = IF ~forked /\ fields # {} THEN "none" ELSE mutex
    BY <1>2, <2>3, <2>4 DEF Freed, Free, Abandon, OwnedHere, Resources
  <2>7. UNCHANGED <<flagVars, readyVars, waitVars, why, forked, esVars>>
    BY <1>2 DEF Freed
  <2> QED
    BY <2>1, <2>2, <2>3, <2>5, <2>6, <2>7, AcquiredAt DEF At2, PcInv, UnbornInv, StartedInv, MutexInv, JoinedInv, ProcessInv, RubyPcs, NativePcs
<1> QED
  BY <1>1, <1>2

\* A wakeup nobody sent.
LEMMA SpuriousLife ==
  ASSUME TypeOK, LifeInv, NEW t \in {"ruby", "native"}, CondSpurious(t)
  PROVE  LifeInv'
BY FlagTypes DEF LifeInv, CondSpurious, At2, PcInv, UnbornInv, StartedInv, MutexInv, JoinedInv, ProcessInv, RubyPcs, NativePcs

\* fork: the child has everything but the native thread and the other calls.
LEMMA ForkLife ==
  ASSUME TypeOK, LifeInv, Fork
  PROVE  LifeInv'
<1>1. forked' = TRUE /\ pc["ruby"] = "none"
      /\ UNCHANGED <<flagVars, readyVars, resourceVars, waitVars, pc, object, why, esVars>>
  BY DEF Fork
<1> QED
  BY <1>1, FlagTypes DEF LifeInv, PcInv, UnbornInv, StartedInv, MutexInv, JoinedInv, ProcessInv

\* What a method may do to the client: nothing, call Endpoint Security, and
\* at its end return, raise, or call close.
LEMMA MethodFrame ==
  ASSUME NEW u \in Users, Method(u)
  PROVE  /\ pc["ruby"] = "none" /\ ~forked /\ UNCHANGED fixedVars
         /\ UNCHANGED misused \/ UseClient
         /\ \/ UNCHANGED <<pc, object, why>>
            \/ /\ object = "initializing" /\ UNCHANGED object /\ Closing("ensure", "close_end")
               /\ Continue(u, Idle)
            \/ object = "initializing" /\ object' = "usable" /\ stage = "end" /\ UNCHANGED <<pc, why, call>>
            \/ object = "usable" /\ ~closed /\ UNCHANGED <<object, call>> /\ Closing("method", "none")
<1> USE DEF fixedVars, lifeVars, controlVars, rubyVars, historyVars, CanRun, CanCall, InInitialize, Probing,
            Continue, Return, Raise, NextEvent, Answer
<1>1. CASE \E e \in Requests : Subscribe(u, e) \/ Unsubscribe(u, e)
  BY <1>1, Zenon DEF Subscribe, Unsubscribe
<1>2. CASE Unsubscribe(u, Events)
  BY <1>2, Zenon DEF Unsubscribe
<1>3. CASE Known(u)
  BY <1>3, Zenon DEF Known
<1>4. CASE ProbeEvent(u)
  BY <1>4, Zenon DEF ProbeEvent
<1>5. CASE UnprobeEvent(u)
  BY <1>5, Zenon DEF UnprobeEvent
<1>6. CASE ProbesDone(u)
  BY <1>6, Zenon DEF ProbesDone
<1>7. CASE NativeSubscribe(u)
  BY <1>7, Zenon DEF NativeSubscribe
<1>8. CASE Record(u) \/ Unlist(u)
  BY <1>8, Zenon DEF Record, Unlist
<1>9. CASE (\E k \in Mutes : Mute(u, k)) \/ MuteProcess(u) \/ MuteProcessNative(u)
  BY <1>9, Zenon DEF Mute, MuteProcess, MuteProcessNative
<1>10. CASE Fetch(u) \/ CopyRaises(u) \/ CopyReturns(u)
  BY <1>10, Zenon DEF Fetch, CopyRaises, CopyReturns
<1>11. CASE Skip(u) \/ EagerProbe(u) \/ Initialized(u)
  BY <1>11, Zenon DEF Skip, EagerProbe, Initialized
<1>12. CASE Close(u)
  BY <1>12, Zenon DEF Close
<1> QED
  BY <1>1, <1>2, <1>3, <1>4, <1>5, <1>6, <1>7, <1>8, <1>9, <1>10, <1>11, <1>12 DEF Method

\* The methods use the client only while it is open, and close it at most once.
LEMMA MethodLife ==
  ASSUME TypeOK, LifeInv, NEW u \in Users, Method(u)
  PROVE  LifeInv'
<1> USE FlagTypes DEF LifeInv
<1>0. PcInv /\ UnbornInv /\ StartedInv /\ MutexInv /\ JoinedInv /\ ProcessInv
  OBVIOUS
<1>1. /\ pc["ruby"] = "none" /\ ~forked /\ UNCHANGED fixedVars
      /\ UNCHANGED misused \/ UseClient
  BY MethodFrame
<1>2. ~(client /\ es = "deleted")
  BY <1>1 DEF UnbornInv, StartedInv, JoinedInv
<1>3. misused' = {}
  BY <1>1, <1>2 DEF UseClient, ProcessInv
<1>4. object \in {"initializing", "usable"} =>
        pc["native"] # "unborn" /\ (object = "initializing" => watchdog_thread_started)
  BY <1>1 DEF UnbornInv, JoinedInv
<1>5. CASE UNCHANGED <<pc, object, why>>
  BY <1>1, <1>3, <1>5 DEF fixedVars, PcInv, UnbornInv, StartedInv, MutexInv, JoinedInv, ProcessInv
<1>6. CASE object = "initializing" /\ UNCHANGED object /\ Closing("ensure", "close_end")
  <2>1. ~closed
    BY <1>1, <1>4, <1>6 DEF StartedInv
  <2>2. At2("close", pc["native"]) /\ why' = "ensure"
    BY <1>6, <2>1, GotoRuby DEF Closing, RubyPcs, At2
  <2> QED
    BY <1>1, <1>3, <1>4, <1>6, <2>1, <2>2
    DEF At2, fixedVars, PcInv, UnbornInv, StartedInv, MutexInv, JoinedInv, ProcessInv, RubyPcs
<1>7. CASE object = "initializing" /\ object' = "usable" /\ UNCHANGED <<pc, why>>
  BY <1>1, <1>3, <1>4, <1>7 DEF fixedVars, PcInv, UnbornInv, StartedInv, MutexInv, JoinedInv, ProcessInv
<1>8. CASE object = "usable" /\ ~closed /\ UNCHANGED object /\ Closing("method", "none")
  <2>2. At2("close", pc["native"]) /\ why' = "method"
    BY <1>8, GotoRuby DEF Closing, RubyPcs, At2
  <2> QED
    BY <1>1, <1>3, <1>4, <1>8, <2>2
    DEF At2, fixedVars, PcInv, UnbornInv, StartedInv, MutexInv, JoinedInv, ProcessInv, RubyPcs
<1> QED
  BY <1>5, <1>6, <1>7, <1>8, MethodFrame

\* Every step keeps the invariant of the client's life.
LEMMA LifeStep ==
  ASSUME TypeOK, LifeInv, [Next]_vars
  PROVE  LifeInv'
<1>1. CASE UNCHANGED vars
  BY <1>1 DEF vars, lifeVars, LifeInv, PcInv, UnbornInv, StartedInv, MutexInv, JoinedInv, ProcessInv
<1>2. CASE \E u \in Users : Method(u)
  BY <1>2, MethodLife
<1>3. CASE Life
  BY <1>3, CreateLife, ResultLife, CloseLife, NativeLife, RubyWaitLife, NativeWaitLife, FreeLife, SpuriousLife
     DEF Life, Running, Native
<1>4. CASE Collect
  BY <1>4, FreeLife DEF Collect
<1>5. CASE Fork
  BY <1>5, ForkLife
<1> QED
  BY <1>1, <1>2, <1>3, <1>4, <1>5 DEF Next
-----------------------------------------------------------------------------
(***************************************************************************)
(* The events of a call.                                                   *)
(***************************************************************************)

\* An order of some events has these events.
LEMMA OrderOf ==
  ASSUME NEW S \in SUBSET Events, NEW list \in SetToSeqs(S)
  PROVE  list \in Seq(Events) /\ ToSet(list) = S
<1> DEFINE n == Cardinality(S)
<1>1. IsFiniteSet(S) /\ n \in Nat
  BY ControlsAssumption, FS_Subset, FS_CardinalityType
<1>2. list \in [1 .. n -> S] /\ \A i, j \in 1 .. n : i # j => list[i] # list[j]
  BY DEF SetToSeqs
<1>3. list \in Injection(1 .. n, S)
  BY <1>2 DEF Injection, IsInjective
<1>4. Cardinality(1 .. n) = n
  BY <1>1, FS_Interval
<1>5. list \in Surjection(1 .. n, S)
  BY <1>1, <1>3, <1>4, FS_Injection
<1>6. ToSet(list) = S
  BY <1>2, <1>5 DEF ToSet, Surjection
<1>7. list \in Seq(Events)
  <2> HIDE DEF n
  <2> QED
    BY <1>1, <1>2
<1> QED
  BY <1>6, <1>7

\* The first event and the others.
LEMMA FirstOf ==
  ASSUME NEW list \in Seq(Events), list # <<>>
  PROVE  /\ Head(list) \in Events /\ Tail(list) \in Seq(Events)
         /\ ToSet(list) = {Head(list)} \cup ToSet(Tail(list))
<1>1. Head(list) \in Events /\ Tail(list) \in Seq(Events) /\ Head(list) = list[1]
  OBVIOUS
<1>2. /\ Len(list) \in Nat \ {0} /\ Len(Tail(list)) = Len(list) - 1
      /\ \A i \in 1 .. Len(Tail(list)) : Tail(list)[i] = list[i + 1]
  OBVIOUS
<1>3. \A l \in Seq(Events) : \A x : x \in ToSet(l) <=> \E i \in 1 .. Len(l) : x = l[i]
  <2> SUFFICES ASSUME NEW l \in Seq(Events), NEW x PROVE x \in ToSet(l) <=> \E i \in 1 .. Len(l) : x = l[i]
    OBVIOUS
  <2>1. DOMAIN l = 1 .. Len(l)
    OBVIOUS
  <2> QED
    BY <2>1, Zenon DEF ToSet
<1>4. ASSUME NEW i \in 1 .. Len(list) PROVE list[i] \in {Head(list)} \cup ToSet(Tail(list))
  <2>1. CASE i = 1
    BY <1>1, <2>1
  <2>2. CASE i # 1
    <3>1. i - 1 \in 1 .. Len(Tail(list)) /\ Tail(list)[i - 1] = list[i]
      BY <1>2, <2>2
    <3> QED
      BY <1>1, <1>3, <3>1
  <2> QED
    BY <2>1, <2>2
<1>5. ASSUME NEW i \in 1 .. Len(Tail(list)) PROVE Tail(list)[i] \in ToSet(list)
  <2>1. i + 1 \in 1 .. Len(list) /\ Tail(list)[i] = list[i + 1]
    BY <1>2
  <2> QED
    BY <1>1, <1>3, <2>1
<1>6. Head(list) \in ToSet(list)
  BY <1>1, <1>2, <1>3
<1> QED
  BY <1>1, <1>3, <1>4, <1>5, <1>6

\* The call of a thread is typed.
LEMMA CallTypes ==
  ASSUME TypeOK, NEW u \in Users
  PROVE  /\ call[u] \in Calls /\ call[u].at \in {"idle", "token", "copy"} \cup Changing
         /\ call[u].on \in {"none", "subscribe", "refused", "eager"}
         /\ call[u].todo \in Seq(Events) /\ call[u].events \in SUBSET Events
<1>1. call[u] \in Calls
  BY DEF TypeOK
<1> QED
  BY <1>1 DEF Calls

\* Idle is typed, and has no events.
LEMMA IdleCall == Idle \in Calls /\ Sound(Idle)
BY DEF Idle, Calls, Sound

\* The call that goes on with its next event.
LEMMA NextEventCall ==
  ASSUME TypeOK, NEW u \in Users, Sound(call[u]), NEW supported \in BOOLEAN, NextEvent(u, supported),
         call[u].at \in {"probe", "probed"}, call[u].todo # <<>>,
         supported /\ call[u].on = "subscribe" => Head(call[u].todo) \in Available
  PROVE  \E c \in Calls :
           /\ Sound(c) /\ call' = [call EXCEPT ![u] = c]
           /\ c.at = "probe" /\ c.todo = Tail(call[u].todo) /\ c.events \subseteq call[u].events
<1> DEFINE d == call[u]
           s == IF d.on = "subscribe" /\ ~supported THEN d.events \ {Head(d.todo)} ELSE d.events
           c == At("probe", d.on, Tail(d.todo), s)
<1>1. /\ d.on \in {"none", "subscribe", "refused", "eager"} /\ d.todo \in Seq(Events) /\ d.events \in SUBSET Events
  BY CallTypes
<1>2. /\ Head(d.todo) \in Events /\ Tail(d.todo) \in Seq(Events)
      /\ ToSet(d.todo) = {Head(d.todo)} \cup ToSet(Tail(d.todo))
  BY <1>1, FirstOf
<1>3. call' = [call EXCEPT ![u] = c]
  BY DEF NextEvent, Continue
<1>4. s \subseteq d.events
  OBVIOUS
<1>5. c \in Calls
  BY <1>1, <1>2 DEF At, Calls, Changing
<1>6. c.at = "probe" /\ c.on = d.on /\ c.todo = Tail(d.todo) /\ c.events = s
  BY DEF At
<1>7. Sound(c)
  <2>1. CASE d.on = "subscribe"
    <3>1. d.events \subseteq Available \cup ToSet(d.todo)
      BY <2>1 DEF Sound
    <3>2. s \subseteq Available \cup ToSet(Tail(d.todo))
      BY <1>2, <2>1, <3>1
    <3> HIDE DEF c, s
    <3> QED
      BY <1>6, <2>1, <3>2 DEF Sound
  <2>2. CASE d.on # "subscribe"
    <3>1. (d.events \cup ToSet(d.todo)) \subseteq Available
      BY <2>2 DEF Sound
    <3> HIDE DEF c, s
    <3> QED
      BY <1>2, <1>4, <1>6, <2>2, <3>1 DEF Sound
  <2> QED
    BY <2>1, <2>2
<1> HIDE DEF c, s
<1> QED
  BY <1>3, <1>4, <1>5, <1>6, <1>7

\* What a step of a method does to the call of its thread, and to the sets of
\* Endpoint Security it holds.
CallsTo(u, c) ==
  /\ c \in Calls /\ Sound(c) /\ call' = [call EXCEPT ![u] = c]
  /\ sets' = IF c.at = "copy" THEN sets \cup {u} ELSE sets \ {u}
  /\ c.at \in Changing /\ call[u].at \notin Changing =>
       /\ Overlap(u) \/ object = "initializing"
       /\ object = "initializing" => stage' \in {"subscribe", "end"}

\* subscribe and its probes.
LEMMA SubscribeCalls ==
  ASSUME TypeOK, EventInv, SetsReleased, NEW u \in Users,
         \/ \E events \in Requests : Subscribe(u, events)
         \/ Known(u) \/ ProbeEvent(u) \/ UnprobeEvent(u) \/ ProbesDone(u) \/ NativeSubscribe(u) \/ Record(u)
  PROVE  \E c : CallsTo(u, c)
<1>t. /\ call[u].on \in {"none", "subscribe", "refused", "eager"}
      /\ call[u].todo \in Seq(Events) /\ call[u].events \in SUBSET Events
  BY CallTypes
<1>s. Sound(call[u])
  BY DEF EventInv
<1>n. ~forked /\ call[u].at # "copy" => u \notin sets
  BY DEF SetsReleased
<1>i. ASSUME ~forked, call[u].at # "copy", UNCHANGED sets, Continue(u, Idle)
      PROVE  CallsTo(u, Idle)
  BY <1>i, <1>n, IdleCall DEF CallsTo, Continue, Idle, Changing
<1>p. ASSUME ~forked, call[u].at \in Changing, UNCHANGED sets, NEW c \in Calls, Sound(c), c.at \in Changing,
             call' = [call EXCEPT ![u] = c]
      PROVE  CallsTo(u, c)
  BY <1>p, <1>n DEF CallsTo, Changing
<1>e. ASSUME ~forked, UNCHANGED sets, call[u].at \in {"probe", "probed"}, call[u].todo # <<>>,
             NEW supported \in BOOLEAN, NextEvent(u, supported),
             supported /\ call[u].on = "subscribe" => Head(call[u].todo) \in Available
      PROVE  \E c : CallsTo(u, c)
  <2>1. PICK c \in Calls : Sound(c) /\ call' = [call EXCEPT ![u] = c] /\ c.at = "probe"
    BY <1>e, <1>s, NextEventCall
  <2> QED
    BY <1>e, <1>p, <2>1 DEF Changing
<1>1. CASE \E events \in Requests : Subscribe(u, events)
  <2>1. PICK events \in Requests : Subscribe(u, events)
    BY <1>1
  <2> DEFINE new == events \ subscriptions
  <2>2. PICK list \in SetToSeqs(new) : Continue(u, At("probe", "subscribe", list, new))
    BY <2>1 DEF Subscribe
  <2>3. new \in SUBSET Events
    BY ControlsAssumption
  <2>4. list \in Seq(Events) /\ ToSet(list) = new
    BY <2>2, <2>3, OrderOf
  <2> DEFINE c == At("probe", "subscribe", list, new)
  <2>5. c \in Calls
    BY <2>3, <2>4 DEF Calls, At, Changing
  <2>6. c.at = "probe" /\ c.on = "subscribe" /\ c.todo = list /\ c.events = new
    BY DEF At
  <2>7. /\ ~forked /\ call[u].at = "idle" /\ UNCHANGED sets /\ Overlap(u)
        /\ object = "initializing" => stage' = "end"
    BY <2>1 DEF Subscribe, CanCall, InInitialize, CanRun, Idle
  <2>8. call' = [call EXCEPT ![u] = c]
    BY <2>2 DEF Continue
  <2> HIDE DEF c, new
  <2>9. Sound(c)
    BY <2>4, <2>6 DEF Sound
  <2> QED
    BY <1>n, <2>5, <2>6, <2>7, <2>8, <2>9 DEF CallsTo
<1>2. CASE Known(u)
  <2>1. ~forked /\ UNCHANGED sets /\ call[u].at = "probe" /\ call[u].todo # <<>>
    BY <1>2 DEF Known, Probing, CanRun
  <2>2. \/ NextEvent(u, FALSE)
        \/ NextEvent(u, TRUE) /\ Head(call[u].todo) \in Available
    BY <1>2 DEF Known, KnownSupported
  <2> QED
    BY <1>e, <2>1, <2>2
<1>3. CASE ProbeEvent(u)
  <2>1. ~forked /\ UNCHANGED sets /\ call[u].at = "probe" /\ call[u].todo # <<>>
    BY <1>3 DEF ProbeEvent, Probing, CanRun
  <2>2. CASE Raise(u)
    BY <1>i, <2>1, <2>2 DEF Raise
  <2>3. CASE Continue(u, [call[u] EXCEPT !.at = "probed"])
    <3> DEFINE c == [call[u] EXCEPT !.at = "probed"]
    <3>1. call[u] \in Calls
      BY CallTypes
    <3>2. /\ c \in Calls /\ c.at = "probed" /\ c.on = call[u].on /\ c.todo = call[u].todo
          /\ c.events = call[u].events
      BY <3>1 DEF Calls, Changing
    <3>3. ~KnownUnsupported(u, Head(call[u].todo))
      BY <1>3 DEF ProbeEvent
    <3>4. Head(call[u].todo) \in ToSet(call[u].todo)
      BY <1>t, <2>1, FirstOf
    <3>5. Head(call[u].todo) \in Available
      BY <1>s, <2>1, <3>3, <3>4 DEF KnownUnsupported, Sound
    <3>6. call' = [call EXCEPT ![u] = c]
      BY <2>3 DEF Continue
    <3> HIDE DEF c
    <3>7. Sound(c)
      BY <1>s, <2>1, <3>2, <3>5 DEF Sound
    <3> QED
      BY <1>p, <2>1, <3>2, <3>6, <3>7 DEF Changing
  <2>4. CASE Answer(u, FALSE)
    BY <1>e, <2>1, <2>4 DEF Answer
  <2> QED
    BY <1>3, <2>2, <2>3, <2>4 DEF ProbeEvent
<1>4. CASE UnprobeEvent(u)
  <2>1. ~forked /\ UNCHANGED sets /\ call[u].at = "probed" /\ call[u].todo # <<>>
    BY <1>4 DEF UnprobeEvent, Probing, CanRun
  <2>2. Head(call[u].todo) \in Available
    BY <1>s, <2>1 DEF Sound
  <2>3. CASE Raise(u)
    BY <1>i, <2>1, <2>3 DEF Raise
  <2>4. CASE Answer(u, FALSE) \/ Answer(u, TRUE)
    BY <1>e, <2>1, <2>2, <2>4 DEF Answer
  <2> QED
    BY <1>4, <2>3, <2>4 DEF UnprobeEvent
<1>5. CASE ProbesDone(u)
  <2>1. ~forked /\ UNCHANGED sets /\ call[u].at = "probe" /\ call[u].todo = <<>>
    BY <1>5 DEF ProbesDone, CanRun
  <2>2. CASE Raise(u) \/ Return(u)
    BY <1>i, <2>1, <2>2 DEF Raise, Return
  <2>3. CASE Continue(u, [call[u] EXCEPT !.at = "subscribe"])
    <3> DEFINE c == [call[u] EXCEPT !.at = "subscribe"]
    <3>1. call[u] \in Calls
      BY CallTypes
    <3>2. c \in Calls /\ c.at = "subscribe" /\ c.events = call[u].events
      BY <3>1 DEF Calls, Changing
    <3>3. ToSet(call[u].todo) = {}
      BY <2>1 DEF ToSet
    <3>4. call[u].events \subseteq Available
      BY <1>s, <2>1, <3>3 DEF Sound
    <3>5. call' = [call EXCEPT ![u] = c]
      BY <2>3 DEF Continue
    <3> HIDE DEF c
    <3>6. Sound(c)
      BY <3>2, <3>4 DEF Sound
    <3> QED
      BY <1>p, <2>1, <3>2, <3>5, <3>6 DEF Changing
  <2> QED
    BY <1>5, <2>2, <2>3, Zenon DEF ProbesDone
<1>6. CASE NativeSubscribe(u)
  <2>1. ~forked /\ UNCHANGED sets /\ call[u].at = "subscribe" /\ call[u].events \subseteq Available
    BY <1>6, <1>s DEF NativeSubscribe, CanRun, Sound
  <2>2. CASE Raise(u)
    BY <1>i, <2>1, <2>2 DEF Raise
  <2>3. CASE Continue(u, [call[u] EXCEPT !.at = "record"])
    <3> DEFINE c == [call[u] EXCEPT !.at = "record"]
    <3>1. call[u] \in Calls
      BY CallTypes
    <3>2. c \in Calls /\ c.at = "record" /\ c.events = call[u].events
      BY <3>1 DEF Calls, Changing
    <3>3. call' = [call EXCEPT ![u] = c]
      BY <2>3 DEF Continue
    <3> HIDE DEF c
    <3>4. Sound(c)
      BY <2>1, <3>2 DEF Sound
    <3> QED
      BY <1>p, <2>1, <3>2, <3>3, <3>4 DEF Changing
  <2>4. CASE \E list \in SetToSeqs(call[u].events) : Continue(u, At("probe", "refused", list, call[u].events))
    <3>1. PICK list \in SetToSeqs(call[u].events) : Continue(u, At("probe", "refused", list, call[u].events))
      BY <2>4
    <3>2. list \in Seq(Events) /\ ToSet(list) = call[u].events
      BY <1>t, <3>1, OrderOf
    <3> DEFINE c == At("probe", "refused", list, call[u].events)
    <3>3. c \in Calls /\ c.at = "probe" /\ c.on = "refused" /\ c.todo = list /\ c.events = call[u].events
      BY <1>t, <3>2 DEF Calls, At, Changing
    <3>4. call' = [call EXCEPT ![u] = c]
      BY <3>1 DEF Continue
    <3> HIDE DEF c
    <3>5. Sound(c)
      BY <2>1, <3>2, <3>3 DEF Sound
    <3> QED
      BY <1>p, <2>1, <3>3, <3>4, <3>5 DEF Changing
  <2> QED
    BY <1>6, <2>2, <2>3, <2>4 DEF NativeSubscribe
<1>7. CASE Record(u)
  BY <1>7, <1>i DEF Record, CanRun, Return
<1> QED
  BY <1>1, <1>2, <1>3, <1>4, <1>5, <1>6, <1>7

\* The other methods.
LEMMA OtherCalls ==
  ASSUME TypeOK, SetsReleased, NEW u \in Users,
         \/ \E events \in Requests : Unsubscribe(u, events)
         \/ Unsubscribe(u, Events) \/ Unlist(u) \/ MuteProcess(u) \/ MuteProcessNative(u)
         \/ Fetch(u) \/ CopyRaises(u) \/ CopyReturns(u) \/ EagerProbe(u)
  PROVE  \E c : CallsTo(u, c)
<1>n. ~forked /\ call[u].at # "copy" => u \notin sets
  BY DEF SetsReleased
<1>c. ASSUME NEW S \in SUBSET Events, NEW l \in {"unlist", "token", "copy"}
      PROVE  /\ At(l, "none", <<>>, S) \in Calls /\ Sound(At(l, "none", <<>>, S))
             /\ At(l, "none", <<>>, S).at = l
  BY DEF At, Calls, Changing, Sound
<1>1. ASSUME NEW S \in SUBSET Events, Unsubscribe(u, S)
      PROVE  \E c : CallsTo(u, c)
  <2> DEFINE c == At("unlist", "none", <<>>, S)
  <2>1. /\ ~forked /\ call[u].at = "idle" /\ UNCHANGED sets /\ Overlap(u) /\ call' = [call EXCEPT ![u] = c]
        /\ object = "usable"
    BY <1>1 DEF Unsubscribe, CanCall, CanRun, Idle, Continue
  <2>2. c \in Calls /\ Sound(c) /\ c.at = "unlist"
    BY <1>c
  <2> HIDE DEF c
  <2> QED
    BY <1>n, <2>1, <2>2 DEF CallsTo
<1>2. CASE Unlist(u) \/ MuteProcessNative(u) \/ CopyRaises(u) \/ CopyReturns(u)
  <2>1. ~forked /\ call' = [call EXCEPT ![u] = Idle]
    BY <1>2 DEF Unlist, MuteProcessNative, CopyRaises, CopyReturns, CanRun, Return, Raise, Continue
  <2>2. sets' = sets \ {u}
    BY <1>2, <1>n DEF Unlist, MuteProcessNative, CopyRaises, CopyReturns, CanRun
  <2>3. Idle.at = "idle"
    BY DEF Idle
  <2> QED
    BY <2>1, <2>2, <2>3, IdleCall DEF CallsTo, Changing
<1>3. CASE MuteProcess(u)
  <2> DEFINE c == At("token", "none", <<>>, {})
  <2>1. ~forked /\ call[u].at = "idle" /\ UNCHANGED sets /\ call' = [call EXCEPT ![u] = c]
    BY <1>3 DEF MuteProcess, CanCall, InInitialize, CanRun, Idle, Continue
  <2>2. c \in Calls /\ Sound(c) /\ c.at = "token"
    BY <1>c
  <2> HIDE DEF c
  <2> QED
    BY <1>n, <2>1, <2>2 DEF CallsTo, Changing
<1>4. CASE Fetch(u)
  <2> DEFINE c == At("copy", "none", <<>>, {})
  <2>1. sets' = sets \cup {u} /\ call' = [call EXCEPT ![u] = c]
    BY <1>4 DEF Fetch, Continue
  <2>2. c \in Calls /\ Sound(c) /\ c.at = "copy"
    BY <1>c
  <2> HIDE DEF c
  <2> QED
    BY <2>1, <2>2 DEF CallsTo, Changing
<1>5. CASE EagerProbe(u)
  <2>1. ~forked /\ call[u].at = "idle" /\ UNCHANGED sets /\ object = "initializing" /\ stage' = "subscribe"
    BY <1>5 DEF EagerProbe, InInitialize, CanRun, Idle
  <2>2. PICK list \in SetToSeqs(Available) : Continue(u, At("probe", "eager", list, {}))
    BY <1>5 DEF EagerProbe
  <2>3. list \in Seq(Events) /\ ToSet(list) = Available
    BY <2>2, OrderOf, ControlsAssumption
  <2> DEFINE c == At("probe", "eager", list, {})
  <2>4. c \in Calls /\ c.at = "probe" /\ c.on = "eager" /\ c.todo = list /\ c.events = {}
    BY <2>3 DEF Calls, At, Changing
  <2>5. call' = [call EXCEPT ![u] = c]
    BY <2>2 DEF Continue
  <2> HIDE DEF c
  <2>6. Sound(c)
    BY <2>3, <2>4 DEF Sound
  <2> QED
    BY <1>n, <2>1, <2>4, <2>5, <2>6 DEF CallsTo
<1> QED
  BY <1>1, <1>2, <1>3, <1>4, <1>5, ControlsAssumption

\* Every method.
LEMMA MethodCalls ==
  ASSUME TypeOK, EventInv, SetsReleased, NEW u \in Users, Method(u)
  PROVE  UNCHANGED <<call, sets>> \/ \E c : CallsTo(u, c)
<1>1. CASE (\E k \in Mutes : Mute(u, k)) \/ Skip(u) \/ Initialized(u) \/ Close(u)
  BY <1>1 DEF Mute, Skip, Initialized, Close
<1> QED
  BY <1>1, SubscribeCalls, OtherCalls DEF Method

USE DEF Life, RejectOptions, Initialize, Running, QueueInit, WatchdogInit, Pipe, Step, FcntlFails, Fcntl,
  PthreadCreateFails, PthreadCreate, Created, NotCreated, CondLock, CondCheck, CondBlock, CondWoken, CloseBegins,
  CloseWait, CloseDelete, CloseUnlock, CloseJoin, CloseEnd, Freed, Native, NewClient, Announce, Announced, Watch,
  Slept, DeleteClient, CondSpurious, Failed, Acquire, Free, Abandon

\* What the functions of the life leave alone, and what they do to Endpoint
\* Security's side and to "closed".
LEMMA LifeFrame ==
  ASSUME Life
  PROVE  /\ UNCHANGED controlVars /\ UNCHANGED forked
         /\ UNCHANGED subscribed \/ subscribed' = {}
         /\ UNCHANGED <<subscribed, es>> \/ CloseBegins \/ (~forked /\ (NewClient \/ DeleteClient))
         /\ UNCHANGED closed \/ closed' = TRUE \/ Fcntl
<1>1. UNCHANGED controlVars /\ UNCHANGED forked
  BY ZenonT(60)
<1>2. UNCHANGED subscribed \/ subscribed' = {}
  BY ZenonT(60)
<1>3. UNCHANGED <<subscribed, es>> \/ CloseBegins \/ (~forked /\ (NewClient \/ DeleteClient))
  BY ZenonT(60)
<1>4. UNCHANGED closed \/ closed' = TRUE \/ Fcntl
  BY ZenonT(60)
<1> HIDE DEF Life
<1> QED
  BY <1>1, <1>2, <1>3, <1>4, Zenon

\* The flags are assigned constants, and one of them "client".
LEMMA FlagFrame ==
  ASSUME Life
  PROVE  /\ UNCHANGED owner_pid \/ owner_pid' = TRUE
         /\ UNCHANGED client \/ client' = TRUE \/ client' = FALSE
         /\ UNCHANGED closed \/ closed' = TRUE \/ closed' = FALSE
         /\ UNCHANGED watchdog_thread_started \/ watchdog_thread_started' = TRUE \/ watchdog_thread_started' = FALSE
         /\ UNCHANGED watchdog_running \/ watchdog_running' = TRUE \/ watchdog_running' = FALSE
         /\ UNCHANGED watchdog_stopped \/ watchdog_stopped' = TRUE \/ watchdog_stopped' = FALSE
         /\ UNCHANGED client_ready \/ client_ready' = TRUE \/ client_ready' = FALSE
         /\ UNCHANGED creation_result \/ creation_result' = client \/ creation_result' = FALSE
         /\ UNCHANGED delete_ready \/ delete_ready' = TRUE \/ delete_ready' = FALSE
<1>1. UNCHANGED owner_pid \/ owner_pid' = TRUE
  BY ZenonT(60)
<1>2. UNCHANGED client \/ client' = TRUE \/ client' = FALSE
  BY ZenonT(60)
<1>3. UNCHANGED closed \/ closed' = TRUE \/ closed' = FALSE
  BY ZenonT(60)
<1>4. UNCHANGED watchdog_thread_started \/ watchdog_thread_started' = TRUE \/ watchdog_thread_started' = FALSE
  BY ZenonT(60)
<1>5. UNCHANGED watchdog_running \/ watchdog_running' = TRUE \/ watchdog_running' = FALSE
  BY ZenonT(60)
<1>6. UNCHANGED watchdog_stopped \/ watchdog_stopped' = TRUE \/ watchdog_stopped' = FALSE
  BY ZenonT(60)
<1>7. UNCHANGED client_ready \/ client_ready' = TRUE \/ client_ready' = FALSE
  BY ZenonT(60)
<1>8. UNCHANGED creation_result \/ creation_result' = client \/ creation_result' = FALSE
  BY ZenonT(60)
<1>9. UNCHANGED delete_ready \/ delete_ready' = TRUE \/ delete_ready' = FALSE
  BY ZenonT(60)
<1> HIDE DEF Life
<1> QED
  BY <1>1, <1>2, <1>3, <1>4, <1>5, <1>6, <1>7, <1>8, <1>9, Zenon

\* The resources, the mutex and the waits.
LEMMA ResourceFrame ==
  ASSUME Life
  PROVE  /\ live' \subseteq live \/ \E r \in Resources : live' = live \cup {r}
         /\ UNCHANGED mutex \/ mutex' \in {"none", "free", "ruby", "native"}
         /\ waiting' \subseteq waiting \/ \E t \in {"ruby", "native"} : waiting' = waiting \cup {t}
         /\ \/ UNCHANGED object \/ object' \in {"raised", "freed"}
            \/ object = "allocated" /\ object' = "initializing"
         /\ UNCHANGED es \/ es' \in {"live", "deleted"}
         /\ UNCHANGED delete_errors \/ delete_errors' = 0
              \/ (delete_errors < MaxDeleteErrors /\ delete_errors' = delete_errors + 1)
         /\ UNCHANGED spurious \/ spurious' = 0 \/ (spurious < MaxSpurious /\ spurious' = spurious + 1)
<1>1. live' \subseteq live \/ \E r \in Resources : live' = live \cup {r}
  BY ZenonT(60) DEF Resources
<1>2. UNCHANGED mutex \/ mutex' \in {"none", "free", "ruby", "native"}
  BY ZenonT(60)
<1>3. waiting' \subseteq waiting \/ \E t \in {"ruby", "native"} : waiting' = waiting \cup {t}
  BY ZenonT(60)
<1>4. \/ UNCHANGED object \/ object' \in {"raised", "freed"}
      \/ object = "allocated" /\ object' = "initializing"
  BY ZenonT(60)
<1>5. UNCHANGED es \/ es' \in {"live", "deleted"}
  BY ZenonT(60)
<1>6. \/ UNCHANGED delete_errors \/ delete_errors' = 0
      \/ (delete_errors < MaxDeleteErrors /\ delete_errors' = delete_errors + 1)
  BY ZenonT(60)
<1>7. UNCHANGED spurious \/ spurious' = 0 \/ (spurious < MaxSpurious /\ spurious' = spurious + 1)
  BY ZenonT(60)
<1> HIDE DEF Life
<1> QED
  BY <1>1, <1>2, <1>3, <1>4, <1>5, <1>6, <1>7, Zenon

HIDE DEF Life, RejectOptions, Initialize, Running, QueueInit, WatchdogInit, Pipe, Step, FcntlFails, Fcntl,
  PthreadCreateFails, PthreadCreate, Created, NotCreated, CondLock, CondCheck, CondBlock, CondWoken, CloseBegins,
  CloseWait, CloseDelete, CloseUnlock, CloseJoin, CloseEnd, Freed, Native, NewClient, Announce, Announced, Watch,
  Slept, DeleteClient, CondSpurious, Failed, Acquire, Free, Abandon

\* The calls, their events, and the sets of Endpoint Security.
LEMMA CallsStep ==
  ASSUME TypeOK, EventInv, SetsReleased, [Next]_vars
  PROVE  call' \in [Users -> Calls] /\ EventInv' /\ SetsReleased' /\ sets' \subseteq Users
<1>0. call \in [Users -> Calls] /\ sets \subseteq Users
  BY DEF TypeOK
<1>1. CASE \E u \in Users : Method(u)
  <2>1. PICK u \in Users : Method(u)
    BY <1>1
  <2>2. ~forked /\ forked' = forked
    BY <2>1, MethodFrame DEF fixedVars
  <2>3. CASE UNCHANGED <<call, sets>>
    BY <1>0, <2>2, <2>3 DEF EventInv, SetsReleased, Sound
  <2>4. ASSUME NEW c, CallsTo(u, c)
        PROVE  call' \in [Users -> Calls] /\ EventInv' /\ SetsReleased' /\ sets' \subseteq Users
    <3>1. c \in Calls /\ Sound(c) /\ call' = [call EXCEPT ![u] = c]
      BY <2>4 DEF CallsTo
    <3>2. call' \in [Users -> Calls] /\ \A v \in Users : call'[v] = IF v = u THEN c ELSE call[v]
      BY <1>0, <3>1
    <3>3. EventInv'
      BY <3>1, <3>2 DEF EventInv, Sound
    <3>4. sets' = IF c.at = "copy" THEN sets \cup {u} ELSE sets \ {u}
      BY <2>4 DEF CallsTo
    <3>5. SetsReleased' /\ sets' \subseteq Users
      BY <1>0, <2>2, <3>2, <3>4 DEF SetsReleased
    <3> QED
      BY <3>2, <3>3, <3>5
  <2> QED
    BY <2>1, <2>3, <2>4, MethodCalls
<1>2. CASE Fork
  <2>1. call' = [u \in Users |-> Idle] /\ sets' = sets /\ forked' = TRUE
    BY <1>2 DEF Fork
  <2> QED
    BY <1>0, <2>1, IdleCall DEF EventInv, SetsReleased, Sound
<1>3. CASE Life \/ Collect \/ UNCHANGED vars
  <2>1. UNCHANGED <<call, sets>>
    BY <1>3 DEF Life, Collect, vars, controlVars
  <2>2. UNCHANGED forked
    BY <1>3, LifeFrame DEF Collect, ClientFree, vars, lifeVars
  <2> QED
    BY <1>0, <2>1, <2>2 DEF EventInv, SetsReleased, Sound
<1> QED
  BY <1>1, <1>2, <1>3 DEF Next

\* The lists, the probes' answers and the mutes, in the methods.
LEMMA MethodTypes ==
  ASSUME TypeOK, EventInv, NEW u \in Users, Method(u)
  PROVE  /\ subscribed' \subseteq Available /\ subscriptions' \subseteq Available /\ leftover' \subseteq Available
         /\ probe_cache' \in [Events -> {"unknown", "yes", "no"}]
         /\ muted' \subseteq Mutes /\ overlapped' \in BOOLEAN
         /\ object' \in {"allocated", "initializing", "usable", "raised", "freed"}
<1>0. /\ subscribed \subseteq Available /\ subscriptions \subseteq Available /\ leftover \subseteq Available
      /\ probe_cache \in [Events -> {"unknown", "yes", "no"}] /\ muted \subseteq Mutes /\ overlapped \in BOOLEAN
      /\ object \in {"allocated", "initializing", "usable", "raised", "freed"}
  BY FlagTypes DEF TypeOK
<1>t. /\ call[u].on \in {"none", "subscribe", "refused", "eager"}
      /\ call[u].todo \in Seq(Events) /\ call[u].events \in SUBSET Events /\ Sound(call[u])
  BY CallTypes DEF EventInv
<1>1. subscribed' \subseteq Available
  <2>1. CASE ProbeEvent(u)
    <3>1. call[u].at = "probe" /\ call[u].todo # <<>> /\ ~KnownUnsupported(u, Head(call[u].todo))
      BY <2>1 DEF ProbeEvent, Probing
    <3>2. Head(call[u].todo) \in ToSet(call[u].todo)
      BY <1>t, <3>1, FirstOf
    <3>3. Head(call[u].todo) \in Available
      BY <1>t, <3>1, <3>2 DEF KnownUnsupported, Sound
    <3> QED
      BY <1>0, <2>1, <3>3 DEF ProbeEvent
  <2>2. CASE NativeSubscribe(u)
    BY <1>0, <1>t, <2>2 DEF NativeSubscribe, Sound
  <2>3. CASE ~ProbeEvent(u) /\ ~NativeSubscribe(u)
    <3>1. subscribed' \subseteq subscribed
      BY <2>3, Zenon DEF Method, Subscribe, Unsubscribe, Known, UnprobeEvent, ProbesDone, Record, Unlist, Mute, MuteProcess,
        MuteProcessNative, Fetch, CopyRaises, CopyReturns, Skip, EagerProbe, Initialized, Close, lifeVars
    <3> QED
      BY <1>0, <3>1
  <2> QED
    BY <2>1, <2>2, <2>3
<1>2. subscriptions' \subseteq Available
  <2>1. CASE Record(u)
    BY <1>0, <1>t, <2>1 DEF Record, Sound
  <2>2. CASE ~Record(u)
    <3>1. subscriptions' \subseteq subscriptions
      BY <2>2, Zenon DEF Method, Subscribe, Unsubscribe, Known, ProbeEvent, UnprobeEvent, ProbesDone, NativeSubscribe, Unlist,
        Mute, MuteProcess, MuteProcessNative, Fetch, CopyRaises, CopyReturns, Skip, EagerProbe, Initialized, Close,
        rubyVars
    <3> QED
      BY <1>0, <3>1
  <2> QED
    BY <2>1, <2>2
<1>3. leftover' \subseteq Available
  <2>1. UNCHANGED leftover \/ UnprobeEvent(u)
    BY Zenon DEF Method, Subscribe, Unsubscribe, Known, ProbeEvent, ProbesDone, NativeSubscribe, Record, Unlist,
      Mute, MuteProcess, MuteProcessNative, Fetch, CopyRaises, CopyReturns, Skip, EagerProbe, Initialized, Close,
      historyVars
  <2>2. CASE UnprobeEvent(u)
    BY <1>0, <1>t, <2>2 DEF UnprobeEvent, Probing, Sound
  <2> QED
    BY <1>0, <2>1, <2>2
<1>4. probe_cache' \in [Events -> {"unknown", "yes", "no"}]
  <2>1. \/ UNCHANGED probe_cache
        \/ (ProbeEvent(u) \/ UnprobeEvent(u)) /\ (Answer(u, FALSE) \/ Answer(u, TRUE))
    BY Zenon DEF Method, Subscribe, Unsubscribe, Known, ProbeEvent, UnprobeEvent, ProbesDone, NativeSubscribe, Record, Unlist,
      Mute, MuteProcess, MuteProcessNative, Fetch, CopyRaises, CopyReturns, Skip, EagerProbe, Initialized, Close,
      rubyVars
  <2>2. CASE (ProbeEvent(u) \/ UnprobeEvent(u)) /\ (Answer(u, FALSE) \/ Answer(u, TRUE))
    <3>1. Head(call[u].todo) \in Events
      BY <1>t, <2>2, FirstOf DEF ProbeEvent, UnprobeEvent, Probing
    <3> QED
      BY <1>0, <2>2, <3>1 DEF Answer
  <2> QED
    BY <1>0, <2>1, <2>2
<1>5. muted' \subseteq Mutes
  <2>1. \/ UNCHANGED muted
        \/ \E k \in Mutes : muted' \in {muted \cup {k}, muted \ {k}}
    <3>1. CASE \E k \in Mutes : Mute(u, k)
      BY <3>1 DEF Mute
    <3>2. CASE MuteProcessNative(u)
      BY <3>2 DEF MuteProcessNative, Mutes
    <3> QED
      BY <3>1, <3>2, Zenon DEF Method, Subscribe, Unsubscribe, Known, ProbeEvent, UnprobeEvent, ProbesDone, NativeSubscribe, Record, Unlist,
        MuteProcess, Fetch, CopyRaises, CopyReturns, Skip, EagerProbe, Initialized, Close
  <2> QED
    BY <1>0, <2>1
<1>6. overlapped' \in BOOLEAN
  <2>1. UNCHANGED overlapped \/ Overlap(u)
    BY Zenon DEF Method, Subscribe, Unsubscribe, Known, ProbeEvent, UnprobeEvent, ProbesDone, NativeSubscribe, Record, Unlist,
      Mute, MuteProcess, MuteProcessNative, Fetch, CopyRaises, CopyReturns, Skip, EagerProbe, Initialized, Close,
      historyVars
  <2> QED
    BY <1>0, <2>1 DEF Overlap
<1>7. object' \in {"allocated", "initializing", "usable", "raised", "freed"}
  BY <1>0, MethodFrame
<1> QED
  BY <1>1, <1>2, <1>3, <1>4, <1>5, <1>6, <1>7

\* The type invariant.
LEMMA TypeStep ==
  ASSUME ControlsInv, [Next]_vars
  PROVE  TypeOK'
<1>0. TypeOK /\ EventInv /\ SetsReleased /\ LifeInv /\ LifeInv'
  BY LifeStep DEF ControlsInv, MethodInv
<1>1. fields' = live'
  BY <1>0 DEF LifeInv, ProcessInv
<1>2. call' \in [Users -> Calls] /\ sets' \subseteq Users
  BY <1>0, CallsStep
<1>3. CASE \E u \in Users : Method(u)
  <2>1. UNCHANGED fixedVars
    BY <1>3, MethodFrame
  <2>2. /\ subscribed' \subseteq Available /\ subscriptions' \subseteq Available /\ leftover' \subseteq Available
        /\ probe_cache' \in [Events -> {"unknown", "yes", "no"}]
        /\ muted' \subseteq Mutes /\ overlapped' \in BOOLEAN
        /\ object' \in {"allocated", "initializing", "usable", "raised", "freed"}
    BY <1>0, <1>3, MethodTypes
  <2> QED
    BY <1>0, <1>1, <1>2, <2>1, <2>2, FlagTypes DEF TypeOK, fixedVars
<1>4. CASE Life
  <2>1. UNCHANGED controlVars /\ UNCHANGED forked /\ (UNCHANGED subscribed \/ subscribed' = {})
    BY <1>4, LifeFrame
  <2>2. /\ owner_pid' \in BOOLEAN /\ client' \in BOOLEAN /\ closed' \in BOOLEAN
        /\ watchdog_thread_started' \in BOOLEAN /\ watchdog_running' \in BOOLEAN
        /\ watchdog_stopped' \in BOOLEAN /\ client_ready' \in BOOLEAN /\ creation_result' \in BOOLEAN
        /\ delete_ready' \in BOOLEAN
    <3>1. owner_pid' \in BOOLEAN
      BY <1>0, <1>4, FlagFrame, FlagTypes, Zenon
    <3>2. client' \in BOOLEAN
      BY <1>0, <1>4, FlagFrame, FlagTypes, Zenon
    <3>3. closed' \in BOOLEAN
      BY <1>0, <1>4, FlagFrame, FlagTypes, Zenon
    <3>4. watchdog_thread_started' \in BOOLEAN
      BY <1>0, <1>4, FlagFrame, FlagTypes, Zenon
    <3>5. watchdog_running' \in BOOLEAN
      BY <1>0, <1>4, FlagFrame, FlagTypes, Zenon
    <3>6. watchdog_stopped' \in BOOLEAN
      BY <1>0, <1>4, FlagFrame, FlagTypes, Zenon
    <3>7. client_ready' \in BOOLEAN
      BY <1>0, <1>4, FlagFrame, FlagTypes, Zenon
    <3>8. creation_result' \in BOOLEAN
      BY <1>0, <1>4, FlagFrame, FlagTypes, Zenon
    <3>9. delete_ready' \in BOOLEAN
      BY <1>0, <1>4, FlagFrame, FlagTypes, Zenon
    <3> QED
      BY <3>1, <3>2, <3>3, <3>4, <3>5, <3>6, <3>7, <3>8, <3>9
  <2>3. /\ live' \subseteq Resources /\ mutex' \in {"none", "free", "ruby", "native"}
        /\ waiting' \subseteq {"ruby", "native"}
        /\ object' \in {"allocated", "initializing", "usable", "raised", "freed"}
        /\ es' \in {"none", "live", "deleted"}
    BY <1>0, <1>4, ResourceFrame DEF TypeOK
  <2>4. delete_errors' \in 0 .. MaxDeleteErrors /\ spurious' \in 0 .. MaxSpurious
    BY <1>0, <1>4, ResourceFrame, LifecycleAssumption DEF TypeOK
  <2> QED
    BY <1>0, <1>1, <1>2, <2>1, <2>2, <2>3, <2>4, FlagTypes DEF TypeOK, controlVars, rubyVars, historyVars
<1>5. CASE Collect
  <2>1. /\ UNCHANGED <<owner_pid, watchdog_thread_started, watchdog_stopped, readyVars, live, mutex, waitVars,
                       object, forked, es, subscribed, controlVars>>
        /\ client' \in {client, FALSE} /\ watchdog_running' \in {watchdog_running, FALSE} /\ closed' \in {closed, TRUE}
    BY <1>5 DEF Collect, ClientFree
  <2>2. client' \in BOOLEAN /\ watchdog_running' \in BOOLEAN /\ closed' \in BOOLEAN
    BY <1>0, <2>1, FlagTypes, Zenon
  <2> QED
    BY <1>0, <1>1, <1>2, <2>1, <2>2, FlagTypes DEF TypeOK, controlVars, rubyVars, historyVars
<1>6. CASE Fork
  BY <1>0, <1>1, <1>2, <1>6, FlagTypes DEF Fork, TypeOK, rubyVars, historyVars
<1>7. CASE UNCHANGED vars
  BY <1>0, <1>7 DEF TypeOK, vars, lifeVars, controlVars, rubyVars, historyVars
<1> QED
  BY <1>3, <1>4, <1>5, <1>6, <1>7 DEF Next

-----------------------------------------------------------------------------
(***************************************************************************)
(* The thread that calls new.                                              *)
(***************************************************************************)

\* Where the functions of the life take the Ruby thread.
LEMMA RubyPcFrame ==
  ASSUME PcInv, Life
  PROVE  \/ pc'["ruby"] = pc["ruby"] \/ object = "allocated" \/ pc["ruby"] \in InitPcs
         \/ pc["ruby"] # "none" /\ pc'["ruby"] \notin InitPcs
<1>1. CASE RejectOptions \/ Initialize
  BY <1>1 DEF RejectOptions, Initialize
<1>2. CASE QueueInit \/ WatchdogInit \/ Pipe \/ FcntlFails \/ Fcntl \/ PthreadCreateFails \/ PthreadCreate
  BY <1>2 DEF QueueInit, WatchdogInit, Pipe, Step, FcntlFails, Fcntl, PthreadCreateFails, PthreadCreate
<1>3. CASE Created \/ NotCreated \/ Freed
  BY <1>3 DEF Created, NotCreated, Freed, Failed, Goto, PcInv
<1>4. CASE CondLock("ruby") \/ CondCheck("ruby") \/ CondBlock("ruby") \/ CondWoken("ruby")
  BY <1>4 DEF CondLock, CondCheck, CondBlock, CondWoken, Goto, PcInv
<1>5. CASE CloseBegins \/ CloseWait \/ CloseDelete \/ CloseUnlock \/ CloseJoin \/ CloseEnd
  BY <1>5 DEF CloseBegins, CloseWait, CloseDelete, CloseUnlock, CloseJoin, CloseEnd, Goto, PcInv
<1>6. CASE NewClient \/ Announce \/ Announced \/ Watch \/ Slept \/ DeleteClient
  BY <1>6 DEF NewClient, Announce, Announced, Watch, Slept, DeleteClient, Goto, PcInv
<1>7. CASE CondLock("native") \/ CondCheck("native") \/ CondBlock("native") \/ CondWoken("native")
  BY <1>7 DEF CondLock, CondCheck, CondBlock, CondWoken, Goto, PcInv
<1>8. CASE \E t \in {"ruby", "native"} : CondSpurious(t)
  BY <1>8 DEF CondSpurious
<1> QED
  BY <1>1, <1>2, <1>3, <1>4, <1>5, <1>6, <1>7, <1>8, Zenon DEF Life, Running, Native

\* Who takes a step of a method, how initialize goes on, and who changes the
\* list.
LEMMA MethodStage ==
  ASSUME NEW u \in Users, Method(u)
  PROVE  /\ \/ call[u].at \in Changing \cup {"token", "copy"}
            \/ object = "usable"
            \/ object = "initializing" /\ u = Creator
         /\ UNCHANGED stage \/ stage' \in {"subscribe", "end"} \/ (stage = "mute" /\ stage' = "eager")
         /\ UNCHANGED subscriptions \/ Record(u) \/ Unlist(u)
<1> USE DEF CanRun, CanCall, InInitialize, Probing, rubyVars
<1>1. \/ call[u].at \in Changing \cup {"token", "copy"}
      \/ object = "usable"
      \/ object = "initializing" /\ u = Creator
  BY ZenonT(60) DEF Method, Changing, Subscribe, Unsubscribe, Known, ProbeEvent, UnprobeEvent, ProbesDone, NativeSubscribe, Record,
    Unlist, Mute, MuteProcess, MuteProcessNative, Fetch, CopyRaises, CopyReturns, Skip, EagerProbe, Initialized, Close
<1>2. UNCHANGED stage \/ stage' \in {"subscribe", "end"} \/ (stage = "mute" /\ stage' = "eager")
  <2>1. CASE MuteProcess(u)
    BY <2>1 DEF MuteProcess
  <2>2. CASE Skip(u) \/ EagerProbe(u)
    BY <2>2 DEF Skip, EagerProbe
  <2>3. CASE \E events \in Requests : Subscribe(u, events)
    BY <2>3 DEF Subscribe
  <2> QED
    BY <2>1, <2>2, <2>3, ZenonT(60) DEF Method, Unsubscribe, Known, ProbeEvent, UnprobeEvent, ProbesDone, NativeSubscribe, Record,
      Unlist, Mute, MuteProcessNative, Fetch, CopyRaises, CopyReturns, Initialized, Close
<1>3. UNCHANGED subscriptions \/ Record(u) \/ Unlist(u)
  BY ZenonT(60) DEF Method, Subscribe, Unsubscribe, Known, ProbeEvent, UnprobeEvent, ProbesDone, NativeSubscribe,
    Mute, MuteProcess, MuteProcessNative, Fetch, CopyRaises, CopyReturns, Skip, EagerProbe, Initialized, Close
<1> HIDE DEF CanRun, CanCall, InInitialize, Probing
<1> QED
  BY <1>1, <1>2, <1>3

\* Until new returns, its thread is alone.
LEMMA NewStep ==
  ASSUME ControlsInv, [Next]_vars
  PROVE  NewInv'
<1>0. TypeOK /\ EventInv /\ SetsReleased /\ LifeInv /\ LifeInv' /\ NewInv /\ PcInv /\ UnbornInv
  BY LifeStep DEF ControlsInv, MethodInv, LifeInv
<1>1. CASE \E u \in Users : Method(u)
  <2>1. PICK u \in Users : Method(u)
    BY <1>1
  <2>2. /\ pc["ruby"] = "none" /\ ~forked
        /\ \/ UNCHANGED <<pc, object, why>>
           \/ /\ object = "initializing" /\ UNCHANGED object /\ Closing("ensure", "close_end")
              /\ Continue(u, Idle)
           \/ object = "initializing" /\ object' = "usable" /\ stage = "end" /\ UNCHANGED <<pc, why, call>>
           \/ object = "usable" /\ ~closed /\ UNCHANGED <<object, call>> /\ Closing("method", "none")
    BY <2>1, MethodFrame
  <2>3. object # "allocated" /\ (object = "initializing" => u = Creator)
    BY <1>0, <2>1, MethodStage DEF NewInv, Changing, Idle
  <2>4. object' # "allocated" /\ (object' = "initializing" => object = "initializing")
    BY <2>2, <2>3
  <2>5. pc'["ruby"] \notin InitPcs
    BY <1>0, <2>2 DEF Closing, Goto, PcInv
  <2>6. /\ UNCHANGED stage \/ stage' \in {"subscribe", "end"} \/ (stage = "mute" /\ stage' = "eager")
        /\ UNCHANGED subscriptions \/ call[u].at \in Changing
    BY <2>1, MethodStage DEF Record, Unlist, Changing
  <2>7. PICK c \in Calls :
          /\ call' = [call EXCEPT ![u] = c]
          /\ c.at \in Changing /\ call[u].at \notin Changing /\ object = "initializing" => stage' \in {"subscribe", "end"}
    <3>1. CASE UNCHANGED <<call, sets>>
      <4>1. call[u] \in Calls /\ call' = [call EXCEPT ![u] = call[u]]
        BY <1>0, <3>1 DEF TypeOK
      <4> QED
        BY <4>1
    <3>2. CASE \E c : CallsTo(u, c)
      BY <3>2 DEF CallsTo
    <3> QED
      BY <1>0, <2>1, <3>1, <3>2, MethodCalls
  <2>8. \A v \in Users : call'[v] = IF v = u THEN c ELSE call[v]
    BY <1>0, <2>7 DEF TypeOK
  <2>9. object' = "initializing" /\ pc'["ruby"] # "none" => \A v \in Users : call'[v] = Idle
    <3> SUFFICES ASSUME object' = "initializing", pc'["ruby"] # "none"
                 PROVE  \A v \in Users : call'[v] = Idle
      OBVIOUS
    <3>1. Continue(u, Idle) /\ u = Creator
      BY <2>2, <2>3, <2>4
    <3>2. \A v \in Users \ {Creator} : call[v] = Idle
      BY <1>0, <2>4 DEF NewInv
    <3> QED
      BY <1>0, <3>1, <3>2 DEF Continue, TypeOK
  <2>10. object' = "initializing" => \A v \in Users \ {Creator} : call'[v] = Idle
    BY <1>0, <2>3, <2>4, <2>8 DEF NewInv
  <2>11. object' = "initializing" /\ stage' \in {"mute", "eager"} =>
           subscriptions' = {} /\ call'[Creator].at \notin Changing
    <3> SUFFICES ASSUME object' = "initializing", stage' \in {"mute", "eager"}
                 PROVE  subscriptions' = {} /\ call'[Creator].at \notin Changing
      OBVIOUS
    <3>1. object = "initializing" /\ u = Creator /\ stage \in {"mute", "eager"}
      BY <2>3, <2>4, <2>6
    <3>2. subscriptions = {} /\ call[u].at \notin Changing
      BY <1>0, <3>1 DEF NewInv
    <3>3. c.at \notin Changing
      BY <2>7, <3>1, <3>2
    <3> QED
      BY <2>6, <2>8, <3>1, <3>2, <3>3
  <2>12. stage' \in {"mute", "eager", "subscribe", "end"}
    BY <1>0, <2>6 DEF NewInv
  <2> QED
    BY <2>4, <2>5, <2>9, <2>10, <2>11, <2>12 DEF NewInv
<1>2. CASE Life
  <2>1. /\ UNCHANGED <<call, stage, subscriptions>>
        /\ UNCHANGED subscribed \/ subscribed' = {}
    BY <1>2, LifeFrame DEF controlVars, rubyVars
  <2>2. \/ UNCHANGED object \/ object' \in {"raised", "freed"}
        \/ object = "allocated" /\ object' = "initializing"
    BY <1>2, ResourceFrame
  <2>3. \/ pc'["ruby"] = pc["ruby"] \/ object = "allocated" \/ pc["ruby"] \in InitPcs
        \/ pc["ruby"] # "none" /\ pc'["ruby"] \notin InitPcs
    BY <1>0, <1>2, RubyPcFrame
  <2> QED
    BY <1>0, <2>1, <2>2, <2>3 DEF NewInv
<1>3. CASE Collect
  <2>1. /\ object \in {"allocated", "usable", "raised"} /\ pc'["ruby"] \in {"free", "close"}
        /\ UNCHANGED <<call, stage, subscriptions, subscribed, object>>
    BY <1>0, <1>3 DEF Collect, ClientFree, Closing, Goto, PcInv, controlVars, rubyVars
  <2> QED
    BY <1>0, <2>1 DEF NewInv
<1>4. CASE Fork
  <2>1. /\ object \in {"allocated", "usable", "raised"} /\ call' = [u \in Users |-> Idle]
        /\ UNCHANGED <<pc, object, stage, subscriptions, subscribed>>
    BY <1>4 DEF Fork, rubyVars
  <2>2. Creator \in Users /\ Idle.at = "idle"
    BY ControlsAssumption DEF Idle
  <2> QED
    BY <1>0, <2>1, <2>2 DEF NewInv, Changing
<1>5. CASE UNCHANGED vars
  BY <1>0, <1>5 DEF NewInv, vars, lifeVars, controlVars, rubyVars
<1> QED
  BY <1>1, <1>2, <1>3, <1>4, <1>5 DEF Next

\* A step of a method is the creator's until new returns.
LEMMA MethodWho ==
  ASSUME NewInv, NEW u \in Users, Method(u)
  PROVE  object # "allocated" /\ (object = "initializing" => u = Creator)
BY MethodStage DEF NewInv, Changing, Idle

\* Where a method leaves the call of its thread.
LEMMA MethodCall ==
  ASSUME TypeOK, EventInv, SetsReleased, NEW u \in Users, Method(u)
  PROVE  \E c \in Calls :
           /\ call' = [call EXCEPT ![u] = c]
           /\ c.at \in Changing /\ call[u].at \notin Changing => Overlap(u) \/ object = "initializing"
<1>1. CASE UNCHANGED <<call, sets>>
  <2>1. call[u] \in Calls /\ call' = [call EXCEPT ![u] = call[u]]
    BY <1>1 DEF TypeOK
  <2> QED
    BY <2>1
<1>2. CASE \E c : CallsTo(u, c)
  BY <1>2 DEF CallsTo
<1> QED
  BY <1>1, <1>2, MethodCalls

\* The history of overlaps only grows.
LEMMA OverlapFrame ==
  ASSUME TypeOK, NEW u \in Users, Method(u), ~overlapped'
  PROVE  ~overlapped
<1>1. UNCHANGED overlapped \/ Overlap(u)
  BY Zenon DEF Method, Subscribe, Unsubscribe, Known, ProbeEvent, UnprobeEvent, ProbesDone, NativeSubscribe, Record, Unlist,
    Mute, MuteProcess, MuteProcessNative, Fetch, CopyRaises, CopyReturns, Skip, EagerProbe, Initialized, Close,
    historyVars
<1> QED
  BY <1>1, FlagTypes DEF Overlap
-----------------------------------------------------------------------------
(***************************************************************************)
(* The list of subscriptions and Endpoint Security's.                      *)
(***************************************************************************)

\* As long as no overlap is recorded, one thread changes the subscriptions.
LEMMA LoneStep ==
  ASSUME ControlsInv, [Next]_vars
  PROVE  LoneInv'
<1>0. TypeOK /\ EventInv /\ SetsReleased /\ NewInv /\ LoneInv
  BY DEF ControlsInv, MethodInv
<1>1. CASE \E u \in Users : Method(u)
  <2> SUFFICES ASSUME ~overlapped', NEW v \in Users, NEW w \in Users,
                      call'[v].at \in Changing, call'[w].at \in Changing
               PROVE  v = w
    BY DEF LoneInv
  <2>1. PICK u \in Users : Method(u)
    BY <1>1
  <2>2. PICK c \in Calls :
          /\ call' = [call EXCEPT ![u] = c]
          /\ c.at \in Changing /\ call[u].at \notin Changing => Overlap(u) \/ object = "initializing"
    BY <1>0, <2>1, MethodCall
  <2>3. \A x \in Users : call'[x] = IF x = u THEN c ELSE call[x]
    BY <1>0, <2>2 DEF TypeOK
  <2>4. ~overlapped
    BY <1>0, <2>1, OverlapFrame
  <2>5. CASE call[u].at \in Changing \/ c.at \notin Changing
    BY <1>0, <2>3, <2>4, <2>5 DEF LoneInv
  <2>6. CASE call[u].at \notin Changing /\ c.at \in Changing
    <3>1. \A x \in Users \ {u} : call[x].at \notin Changing
      <4>1. CASE Overlap(u)
        BY <4>1 DEF Overlap
      <4>2. CASE object = "initializing"
        BY <1>0, <2>1, <4>2, MethodWho DEF NewInv, Idle, Changing
      <4> QED
        BY <2>2, <2>6, <4>1, <4>2
    <3> QED
      BY <2>3, <3>1
  <2> QED
    BY <2>5, <2>6
<1>2. CASE Fork
  <2>1. call' = [u \in Users |-> Idle] /\ Idle.at = "idle"
    BY <1>2 DEF Fork, Idle
  <2> QED
    BY <2>1 DEF LoneInv, Changing
<1>3. CASE Life \/ Collect \/ UNCHANGED vars
  BY <1>0, <1>3 DEF Life, Collect, vars, controlVars, historyVars, LoneInv
<1> QED
  BY <1>1, <1>2, <1>3 DEF Next

\* The list and Endpoint Security's side change only in calls that change the
\* subscriptions.
LEMMA SubscriptionFrame ==
  ASSUME NEW u \in Users, Method(u)
  PROVE  \/ UNCHANGED <<subscriptions, subscribed, leftover>>
         \/ call[u].at \in Changing
         \/ \E S \in SUBSET Events : Unsubscribe(u, S)
<1> USE DEF Probing, rubyVars, historyVars, lifeVars
<1>1. CASE (\E events \in Requests : Unsubscribe(u, events)) \/ Unsubscribe(u, Events)
  BY <1>1, ControlsAssumption
<1> QED
  BY <1>1, ZenonT(60) DEF Method, Changing, Subscribe, Known, ProbeEvent, UnprobeEvent, ProbesDone, NativeSubscribe, Record, Unlist,
    Mute, MuteProcess, MuteProcessNative, Fetch, CopyRaises, CopyReturns, Skip, EagerProbe, Initialized, Close

\* The agreement, for a call that goes on with its next event.
LEMMA NextEventAgrees ==
  ASSUME TypeOK, EventInv, NEW u \in Users, NEW supported \in BOOLEAN, NextEvent(u, supported),
         call[u].at \in {"probe", "probed"}, call[u].todo # <<>>,
         supported /\ call[u].on = "subscribe" => Head(call[u].todo) \in Available,
         AgreeFor(call[u]), UNCHANGED subscriptions, Settled'
  PROVE  \E c : call' = [call EXCEPT ![u] = c] /\ AgreeFor(c)'
<1>1. PICK c \in Calls :
        /\ Sound(c) /\ call' = [call EXCEPT ![u] = c]
        /\ c.at = "probe" /\ c.todo = Tail(call[u].todo) /\ c.events \subseteq call[u].events
  BY NextEventCall DEF EventInv
<1>2. ToSet(call[u].todo) = {Head(call[u].todo)} \cup ToSet(Tail(call[u].todo))
  BY CallTypes, FirstOf
<1>3. (call[u].events \cup ToSet(call[u].todo)) \cap subscriptions = {}
  BY DEF AgreeFor
<1>4. AgreeFor(c)'
  BY <1>1, <1>2, <1>3 DEF AgreeFor
<1> QED
  BY <1>1, <1>4

\* The agreement, in subscribe, its probes and unsubscribe.
LEMMA SubscribeAgrees ==
  ASSUME TypeOK, EventInv, ~closed, NEW u \in Users, AgreeFor(call[u]),
         \/ \E events \in Requests : Subscribe(u, events)
         \/ Known(u) \/ ProbeEvent(u) \/ UnprobeEvent(u) \/ ProbesDone(u) \/ NativeSubscribe(u) \/ Record(u)
         \/ \E S \in SUBSET Events : Unsubscribe(u, S)
         \/ Unlist(u)
  PROVE  \E c : call' = [call EXCEPT ![u] = c] /\ AgreeFor(c)'
<1>t. /\ call[u] \in Calls /\ call[u].on \in {"none", "subscribe", "refused", "eager"}
      /\ call[u].todo \in Seq(Events) /\ call[u].events \in SUBSET Events
      /\ Sound(call[u])
  BY CallTypes DEF EventInv
<1>i. ASSUME Settled', Continue(u, Idle)
      PROVE  \E c : call' = [call EXCEPT ![u] = c] /\ AgreeFor(c)'
  <2>1. Idle.at = "idle"
    BY DEF Idle
  <2>2. AgreeFor(Idle)'
    BY <1>i, <2>1 DEF AgreeFor
  <2> QED
    BY <1>i, <2>2 DEF Continue
<1>1. CASE \E events \in Requests : Subscribe(u, events)
  <2>1. PICK events \in Requests : Subscribe(u, events)
    BY <1>1
  <2> DEFINE new == events \ subscriptions
  <2>2. PICK list \in SetToSeqs(new) : Continue(u, At("probe", "subscribe", list, new))
    BY <2>1 DEF Subscribe
  <2>3. new \in SUBSET Events /\ new \cap subscriptions = {}
    BY ControlsAssumption
  <2>4. ToSet(list) = new
    BY <2>2, <2>3, OrderOf
  <2>0. PICK c : c = At("probe", "subscribe", list, new)
    OBVIOUS
  <2>5. c.at = "probe" /\ c.todo = list /\ c.events = new
    BY <2>0 DEF At
  <2>6. call' = [call EXCEPT ![u] = c]
    BY <2>0, <2>2 DEF Continue
  <2>7. call[u].at = "idle" /\ UNCHANGED <<subscribed, subscriptions, leftover>>
    BY <2>1 DEF Subscribe, CanCall, InInitialize, Idle, rubyVars
  <2>8. Settled'
    BY <2>7 DEF AgreeFor, Settled
  <2> HIDE DEF new
  <2>9. AgreeFor(c)'
    BY <2>3, <2>4, <2>5, <2>7, <2>8 DEF AgreeFor
  <2> QED
    BY <2>6, <2>9
<1>2. CASE Known(u)
  <2>1. /\ call[u].at = "probe" /\ call[u].todo # <<>>
        /\ UNCHANGED <<subscribed, subscriptions, leftover>>
    BY <1>2 DEF Known, Probing, rubyVars, historyVars
  <2>2. \/ NextEvent(u, FALSE)
        \/ NextEvent(u, TRUE) /\ Head(call[u].todo) \in Available
    BY <1>2 DEF Known, KnownSupported
  <2>3. Settled'
    BY <2>1 DEF AgreeFor, Settled
  <2> QED
    BY <2>1, <2>2, <2>3, NextEventAgrees
<1>3. CASE ProbeEvent(u)
  <2>1. call[u].at = "probe" /\ call[u].todo # <<>> /\ UNCHANGED <<subscriptions, leftover>>
    BY <1>3 DEF ProbeEvent, Probing, historyVars
  <2>2. Settled /\ (call[u].events \cup ToSet(call[u].todo)) \cap subscriptions = {}
    BY <2>1 DEF AgreeFor
  <2>3. CASE subscribed' = subscribed \cup {Head(call[u].todo)} /\ Continue(u, [call[u] EXCEPT !.at = "probed"])
    <3>0. PICK c : c = [call[u] EXCEPT !.at = "probed"]
      OBVIOUS
    <3>1. c.at = "probed" /\ c.todo = call[u].todo /\ c.events = call[u].events
      BY <1>t, <3>0 DEF Calls
    <3>2. call' = [call EXCEPT ![u] = c]
      BY <2>3, <3>0 DEF Continue
    <3>3. AgreeFor(c)'
      BY <2>1, <2>2, <2>3, <3>1 DEF AgreeFor, Settled
    <3> QED
      BY <3>2, <3>3
  <2>4. CASE Answer(u, FALSE) /\ UNCHANGED subscribed
    BY <2>1, <2>2, <2>4, NextEventAgrees DEF Answer, Settled
  <2> QED
    BY <1>3, <2>3, <2>4 DEF ProbeEvent
<1>4. CASE UnprobeEvent(u)
  <2>1. call[u].at = "probed" /\ call[u].todo # <<>> /\ UNCHANGED subscriptions
    BY <1>4 DEF UnprobeEvent, Probing
  <2>2. /\ Head(call[u].todo) \in Available /\ Head(call[u].todo) \in ToSet(call[u].todo)
    BY <1>t, <2>1, FirstOf DEF Sound
  <2>3. /\ subscriptions \subseteq subscribed
        /\ subscribed \subseteq subscriptions \cup leftover \cup {Head(call[u].todo)}
        /\ Head(call[u].todo) \notin subscriptions
    BY <2>1, <2>2 DEF AgreeFor
  <2>4. CASE subscribed' = subscribed \ {Head(call[u].todo)} /\ Answer(u, TRUE) /\ UNCHANGED leftover
    <3>1. Settled'
      BY <2>1, <2>3, <2>4 DEF Settled
    <3> QED
      BY <2>1, <2>2, <2>4, <3>1, NextEventAgrees DEF Answer
  <2>5. CASE leftover' = leftover \cup {Head(call[u].todo)} /\ Answer(u, FALSE) /\ UNCHANGED subscribed
    <3>1. Settled'
      BY <2>1, <2>3, <2>5 DEF Settled
    <3> QED
      BY <2>1, <2>5, <3>1, NextEventAgrees DEF Answer
  <2> QED
    BY <1>4, <2>4, <2>5 DEF UnprobeEvent
<1>5. CASE ProbesDone(u)
  <2>1. call[u].at = "probe" /\ UNCHANGED <<subscribed, subscriptions, leftover>>
    BY <1>5 DEF ProbesDone, rubyVars, historyVars
  <2>2. Settled' /\ (call[u].events \cup ToSet(call[u].todo)) \cap subscriptions = {}
    BY <2>1 DEF AgreeFor, Settled
  <2>3. CASE Raise(u) \/ Return(u)
    BY <1>i, <2>2, <2>3 DEF Raise, Return
  <2>4. CASE Continue(u, [call[u] EXCEPT !.at = "subscribe"])
    <3>0. PICK c : c = [call[u] EXCEPT !.at = "subscribe"]
      OBVIOUS
    <3>1. c.at = "subscribe" /\ c.todo = call[u].todo /\ c.events = call[u].events
      BY <1>t, <3>0 DEF Calls
    <3>2. call' = [call EXCEPT ![u] = c]
      BY <2>4, <3>0 DEF Continue
    <3>3. AgreeFor(c)'
      BY <2>1, <2>2, <3>1 DEF AgreeFor
    <3> QED
      BY <3>2, <3>3
  <2> QED
    BY <1>5, <2>3, <2>4, Zenon DEF ProbesDone
<1>6. CASE NativeSubscribe(u)
  <2>1. call[u].at = "subscribe" /\ UNCHANGED <<subscriptions, leftover>>
    BY <1>6 DEF NativeSubscribe, rubyVars, historyVars
  <2>2. Settled /\ call[u].events \cap subscriptions = {}
    BY <2>1 DEF AgreeFor
  <2>3. CASE subscribed' = subscribed \cup call[u].events /\ Continue(u, [call[u] EXCEPT !.at = "record"])
    <3>0. PICK c : c = [call[u] EXCEPT !.at = "record"]
      OBVIOUS
    <3>1. c.at = "record" /\ c.events = call[u].events
      BY <1>t, <3>0 DEF Calls
    <3>2. call' = [call EXCEPT ![u] = c]
      BY <2>3, <3>0 DEF Continue
    <3>3. AgreeFor(c)'
      BY <2>1, <2>2, <2>3, <3>1 DEF AgreeFor, Settled
    <3> QED
      BY <3>2, <3>3
  <2>4. CASE /\ \E list \in SetToSeqs(call[u].events) : Continue(u, At("probe", "refused", list, call[u].events))
             /\ UNCHANGED subscribed
    <3>1. PICK list \in SetToSeqs(call[u].events) : Continue(u, At("probe", "refused", list, call[u].events))
      BY <2>4
    <3>2. ToSet(list) = call[u].events
      BY <1>t, <3>1, OrderOf
    <3>0. PICK c : c = At("probe", "refused", list, call[u].events)
      OBVIOUS
    <3>3. c.at = "probe" /\ c.todo = list /\ c.events = call[u].events
      BY <3>0 DEF At
    <3>4. call' = [call EXCEPT ![u] = c]
      BY <3>0, <3>1 DEF Continue
    <3>5. AgreeFor(c)'
      BY <2>1, <2>2, <2>4, <3>2, <3>3 DEF AgreeFor, Settled
    <3> QED
      BY <3>4, <3>5
  <2> QED
    BY <1>6, <2>3, <2>4 DEF NativeSubscribe
<1>7. CASE Record(u)
  <2>1. Settled'
    BY <1>7 DEF Record, AgreeFor, Settled, historyVars
  <2> QED
    BY <1>7, <1>i, <2>1 DEF Record, Return
<1>8. CASE \E S \in SUBSET Events : Unsubscribe(u, S)
  <2>1. PICK S \in SUBSET Events : Unsubscribe(u, S)
    BY <1>8
  <2>0. PICK c : c = At("unlist", "none", <<>>, S)
    OBVIOUS
  <2>2. /\ call[u].at = "idle" /\ subscribed' = subscribed \ S /\ UNCHANGED <<subscriptions, leftover>>
        /\ call' = [call EXCEPT ![u] = c]
    BY <2>0, <2>1 DEF Unsubscribe, CanCall, Idle, Continue, rubyVars
  <2>3. Settled
    BY <2>2 DEF AgreeFor
  <2>4. c.at = "unlist" /\ c.events = S
    BY <2>0 DEF At
  <2>5. AgreeFor(c)'
    BY <2>2, <2>3, <2>4 DEF AgreeFor, Settled
  <2> QED
    BY <2>2, <2>5
<1>9. CASE Unlist(u)
  <2>1. Settled'
    BY <1>9 DEF Unlist, AgreeFor, Settled, historyVars
  <2> QED
    BY <1>9, <1>i, <2>1 DEF Unlist, Return
<1> QED
  BY <1>1, <1>2, <1>3, <1>4, <1>5, <1>6, <1>7, <1>8, <1>9

\* The agreement, in every method.
LEMMA MethodAgrees ==
  ASSUME TypeOK, EventInv, SetsReleased, NewInv, ~closed, NEW u \in Users, Method(u), AgreeFor(call[u])
  PROVE  \E c : call' = [call EXCEPT ![u] = c] /\ AgreeFor(c)'
<1>1. CASE \/ \E events \in Requests : Subscribe(u, events) \/ Unsubscribe(u, events)
           \/ Unsubscribe(u, Events) \/ Unlist(u)
           \/ Known(u) \/ ProbeEvent(u) \/ UnprobeEvent(u) \/ ProbesDone(u) \/ NativeSubscribe(u) \/ Record(u)
  <2>1. Requests \subseteq SUBSET Events /\ Events \in SUBSET Events
    BY ControlsAssumption
  <2> QED
    BY <1>1, <2>1, SubscribeAgrees
<1>2. CASE EagerProbe(u)
  <2>1. PICK list \in SetToSeqs(Available) : Continue(u, At("probe", "eager", list, {}))
    BY <1>2 DEF EagerProbe
  <2>2. PICK c : c = At("probe", "eager", list, {})
    OBVIOUS
  <2>3. c.at = "probe" /\ call' = [call EXCEPT ![u] = c]
    BY <2>1, <2>2 DEF At, Continue
  <2>4. /\ object = "initializing" /\ stage = "eager" /\ call[u].at = "idle"
        /\ UNCHANGED <<subscribed, subscriptions, leftover>>
    BY <1>2 DEF EagerProbe, InInitialize, Idle, lifeVars, rubyVars, historyVars
  <2>5. subscriptions = {} /\ Settled'
    BY <2>4 DEF NewInv, AgreeFor, Settled
  <2>6. AgreeFor(c)'
    BY <2>3, <2>4, <2>5 DEF AgreeFor
  <2> QED
    BY <2>3, <2>6
<1>3. CASE (\E k \in Mutes : Mute(u, k)) \/ Skip(u) \/ Initialized(u) \/ Close(u)
  <2>1. UNCHANGED <<call, subscribed, subscriptions, leftover>>
    BY <1>3 DEF Mute, Skip, Initialized, Close, lifeVars, rubyVars, historyVars
  <2>2. PICK c : c = call[u]
    OBVIOUS
  <2>3. call' = [call EXCEPT ![u] = c]
    BY <2>1, <2>2 DEF TypeOK
  <2>4. AgreeFor(c)'
    BY <2>1, <2>2 DEF AgreeFor, Settled
  <2> QED
    BY <2>3, <2>4
<1>4. CASE MuteProcess(u) \/ MuteProcessNative(u) \/ Fetch(u) \/ CopyRaises(u) \/ CopyReturns(u)
  <2>1. /\ call[u].at \in {"idle", "token", "copy"}
        /\ UNCHANGED <<subscribed, subscriptions, leftover>>
    BY <1>4 DEF MuteProcess, MuteProcessNative, Fetch, CopyRaises, CopyReturns, CanCall, InInitialize, Idle,
      rubyVars, historyVars
  <2>2. PICK c : c \in {Idle, At("token", "none", <<>>, {}), At("copy", "none", <<>>, {})}
                 /\ call' = [call EXCEPT ![u] = c]
    BY <1>4 DEF MuteProcess, MuteProcessNative, Fetch, CopyRaises, CopyReturns, Return, Raise, Continue
  <2>3. c.at \in {"idle", "token", "copy"}
    BY <2>2 DEF Idle, At
  <2>4. Settled'
    BY <2>1 DEF AgreeFor, Settled
  <2>5. AgreeFor(c)'
    BY <2>3, <2>4 DEF AgreeFor
  <2> QED
    BY <2>2, <2>5
<1> QED
  BY <1>1, <1>2, <1>3, <1>4, Zenon DEF Method

\* es_delete_client is called when the client is closed.
LEMMA DeleteWhenClosed ==
  ASSUME TypeOK, LifeInv, ~forked, DeleteClient
  PROVE  closed /\ es = "live"
BY FlagTypes DEF DeleteClient, LifeInv, UnbornInv, StartedInv, JoinedInv

\* Until client_initialize has opened the client, there is nothing to agree on.
LEMMA FcntlAgrees ==
  ASSUME TypeOK, LifeInv, NewInv, Fcntl, UNCHANGED subscriptions
  PROVE  Settled' /\ \A u \in Users : call[u] = Idle
<1>1. pc["ruby"] = "fcntl" /\ UNCHANGED subscribed
  BY DEF Fcntl
<1>2. object = "initializing"
  BY <1>1, FlagTypes DEF LifeInv, UnbornInv, StartedInv, JoinedInv, ProcessInv
<1>3. stage = "mute" /\ subscribed = {} /\ subscriptions = {} /\ \A u \in Users : call[u] = Idle
  BY <1>1, <1>2 DEF NewInv
<1> QED
  BY <1>1, <1>3 DEF Settled

\* The list and Endpoint Security agree, up to the call under way.
LEMMA AgreeStep ==
  ASSUME ControlsInv, [Next]_vars
  PROVE  AgreeInv'
<1>0. TypeOK /\ LifeInv /\ EventInv /\ SetsReleased /\ NewInv /\ LoneInv /\ AgreeInv
  BY DEF ControlsInv, MethodInv
<1> SUFFICES ASSUME ~closed', ~forked', ~overlapped', NEW w \in Users,
                    \A v \in Users \ {w} : call'[v].at \notin Changing
             PROVE  AgreeFor(call[w])'
  BY DEF AgreeInv
<1>1. CASE \E u \in Users : Method(u)
  <2>1. PICK u \in Users : Method(u)
    BY <1>1
  <2>2. ~closed /\ ~forked /\ ~overlapped
    BY <1>0, <2>1, MethodFrame, OverlapFrame DEF fixedVars
  <2>3. PICK c \in Calls : call' = [call EXCEPT ![u] = c]
    BY <1>0, <2>1, MethodCall
  <2>4. \A x \in Users : call'[x] = IF x = u THEN c ELSE call[x]
    BY <1>0, <2>3 DEF TypeOK
  <2>5. AgreeFor(call[u]) => AgreeFor(c)'
    <3> SUFFICES ASSUME AgreeFor(call[u]) PROVE AgreeFor(c)'
      OBVIOUS
    <3>1. PICK d : call' = [call EXCEPT ![u] = d] /\ AgreeFor(d)'
      BY <1>0, <2>1, <2>2, MethodAgrees
    <3>2. c = d
      BY <1>0, <2>3, <3>1 DEF TypeOK
    <3> QED
      BY <3>1, <3>2
  <2>6. CASE w = u
    <3>1. \A v \in Users \ {u} : call[v].at \notin Changing
      BY <2>4, <2>6
    <3>2. AgreeFor(c)'
      BY <1>0, <2>2, <2>5, <3>1 DEF AgreeInv
    <3>3. call'[w] = c
      BY <2>4, <2>6
    <3> QED
      BY <3>2, <3>3 DEF AgreeFor, Settled
  <2>7. CASE w # u
    <3>1. c.at \notin Changing /\ call'[w] = call[w]
      BY <2>4, <2>7
    <3>2. CASE call[w].at \in Changing
      <4>1. call[u].at \notin Changing
        BY <1>0, <2>2, <2>7, <3>2 DEF LoneInv
      <4>2. \A v \in Users \ {w} : call[v].at \notin Changing
        BY <2>4, <4>1
      <4>3. AgreeFor(call[w])
        BY <1>0, <2>2, <4>2 DEF AgreeInv
      <4>4. ~\E S \in SUBSET Events : Unsubscribe(u, S)
        <5> SUFFICES ASSUME NEW S \in SUBSET Events, Unsubscribe(u, S) PROVE FALSE
          OBVIOUS
        <5>1. call' = [call EXCEPT ![u] = At("unlist", "none", <<>>, S)]
          BY DEF Unsubscribe, Continue
        <5>2. c = At("unlist", "none", <<>>, S)
          BY <1>0, <2>3, <5>1 DEF TypeOK
        <5> QED
          BY <3>1, <5>2 DEF At, Changing
      <4>5. UNCHANGED <<subscriptions, subscribed, leftover>>
        BY <2>1, <4>1, <4>4, SubscriptionFrame
      <4> QED
        BY <3>1, <4>3, <4>5 DEF AgreeFor, Settled
    <3>3. CASE call[w].at \notin Changing
      <4>1. \A v \in Users \ {u} : call[v].at \notin Changing
        BY <2>4, <3>3
      <4>2. AgreeFor(c)'
        BY <1>0, <2>2, <2>5, <4>1 DEF AgreeInv
      <4>3. Settled'
        BY <3>1, <4>2 DEF AgreeFor, Changing
      <4> QED
        BY <3>1, <3>3, <4>3 DEF AgreeFor, Changing
    <3> QED
      BY <3>2, <3>3
  <2> QED
    BY <2>6, <2>7
<1>2. CASE Life
  <2>1. UNCHANGED <<call, subscriptions, leftover, overlapped, forked>>
    BY <1>2, LifeFrame DEF controlVars, rubyVars, historyVars
  <2>2. CASE Fcntl
    <3>1. Settled' /\ call'[w] = Idle
      BY <1>0, <2>1, <2>2, FcntlAgrees
    <3> QED
      BY <3>1 DEF AgreeFor, Idle
  <2>3. CASE ~Fcntl
    <3>0. UNCHANGED closed \/ closed' = TRUE
      BY <1>2, <2>3, LifeFrame, Zenon
    <3>1. ~closed /\ ~forked /\ ~overlapped
      <4>1. ~closed
        BY <3>0, Zenon
      <4> QED
        BY <2>1, <4>1, Zenon
    <3>2. UNCHANGED subscribed
      <4>1. ~CloseBegins
        BY DEF CloseBegins
      <4>2. ~DeleteClient
        BY <1>0, <3>1, DeleteWhenClosed
      <4> QED
        BY <1>2, <4>1, <4>2, LifeFrame DEF NewClient
    <3>3. AgreeFor(call[w])
      BY <1>0, <2>1, <3>1 DEF AgreeInv
    <3> QED
      BY <2>1, <3>2, <3>3 DEF AgreeFor, Settled
  <2> QED
    BY <2>2, <2>3
<1>3. CASE Collect \/ UNCHANGED vars
  <2>1. UNCHANGED <<call, subscriptions, subscribed, leftover, overlapped, forked>> /\ ~closed
    <3>1. CASE Collect
      BY <1>0, <3>1, FlagTypes DEF Collect, ClientFree, controlVars, rubyVars, historyVars
    <3>2. CASE UNCHANGED vars
      BY <3>2 DEF vars, lifeVars, controlVars, rubyVars, historyVars
    <3> QED
      BY <1>3, <3>1, <3>2
  <2>2. AgreeFor(call[w])
    BY <1>0, <2>1 DEF AgreeInv
  <2> QED
    BY <2>1, <2>2 DEF AgreeFor, Settled
<1>4. CASE Fork
  BY <1>4 DEF Fork
<1> QED
  BY <1>1, <1>2, <1>3, <1>4 DEF Next
-----------------------------------------------------------------------------
(***************************************************************************)
(* The theorems.                                                           *)
(***************************************************************************)

\* client_allocate establishes the invariant.
LEMMA ControlsInit ==
  ASSUME Init
  PROVE  ControlsInv
<1> USE DEF Init, LifeInit
<1>1. TypeOK
  <2>1. call \in [Users -> Calls]
    BY IdleCall
  <2>2. /\ delete_errors \in 0 .. MaxDeleteErrors /\ spurious \in 0 .. MaxSpurious
    BY LifecycleAssumption
  <2>3. probe_cache \in [Events -> {"unknown", "yes", "no"}]
    OBVIOUS
  <2> QED
    BY <2>1, <2>2, <2>3 DEF TypeOK
<1>2. LifeInv
  <2>1. pc["ruby"] = "none" /\ pc["native"] = "unborn" /\ pc \in [{"ruby", "native"} -> RubyPcs \cup NativePcs]
    BY DEF RubyPcs, NativePcs
  <2>2. Acquired("none") = {}
    BY AcquiredAt
  <2> HIDE DEF Acquired
  <2> QED
    BY <2>1, <2>2
    DEF LifeInv, PcInv, UnbornInv, StartedInv, MutexInv, JoinedInv, ProcessInv, RubyPcs, NativePcs
<1>3. MethodInv
  <2>1. \A u \in Users : call[u] = Idle
    OBVIOUS
  <2>2. Creator \in Users /\ Idle.at = "idle"
    BY ControlsAssumption DEF Idle
  <2>3. pc["ruby"] = "none"
    OBVIOUS
  <2>4. NewInv
    BY <2>1, <2>2, <2>3 DEF NewInv, Changing
  <2>5. EventInv /\ LoneInv /\ AgreeInv /\ SetsReleased
    BY <2>1, <2>2, IdleCall DEF EventInv, LoneInv, AgreeInv, SetsReleased, Changing
  <2> QED
    BY <2>4, <2>5 DEF MethodInv
<1> QED
  BY <1>1, <1>2, <1>3 DEF ControlsInv

\* The invariant of the client and its control methods: from client_allocate
\* on, through every failure, close, free and fork.
THEOREM ControlsInvariant == Spec => []ControlsInv
<1>1. Init => ControlsInv
  BY ControlsInit
<1>2. ControlsInv /\ [Next]_vars => ControlsInv'
  <2> SUFFICES ASSUME ControlsInv, [Next]_vars PROVE ControlsInv'
    OBVIOUS
  <2>1. TypeOK /\ LifeInv /\ EventInv /\ SetsReleased
    BY DEF ControlsInv, MethodInv
  <2>2. TypeOK' /\ LifeInv'
    BY <2>1, TypeStep, LifeStep
  <2>3. NewInv' /\ LoneInv' /\ AgreeInv'
    BY NewStep, LoneStep, AgreeStep
  <2>4. EventInv' /\ SetsReleased'
    BY <2>1, CallsStep
  <2> QED
    BY <2>2, <2>3, <2>4 DEF ControlsInv, MethodInv
<1> QED
  BY <1>1, <1>2, PTL DEF Spec

\* Whatever client_initialize, the native thread or a method acquires is given
\* back once, is not used afterwards and is not forgotten, whichever way the
\* object ends.
THEOREM ResourceSafe == Spec => []ResourceInv
<1>1. ControlsInv => ResourceInv
  <2> SUFFICES ASSUME ControlsInv PROVE ResourceInv
    OBVIOUS
  <2>1. TypeOK /\ LifeInv /\ SetsReleased
    BY DEF ControlsInv, MethodInv
  <2>2. PcInv /\ UnbornInv /\ StartedInv /\ JoinedInv /\ ProcessInv
    BY <2>1 DEF LifeInv
  <2>3. NothingMisused
    BY <2>2 DEF ProcessInv, NothingMisused
  <2>4. EndedLeavesNothing
    <3>1. object \in {"raised", "freed"} /\ ~forked =>
            closed /\ ~watchdog_thread_started /\ pc["native"] \in {"unborn", "dead"}
      BY <2>1, <2>2, FlagTypes DEF UnbornInv, StartedInv, JoinedInv
    <3>2. object \in {"raised", "freed"} /\ ~forked /\ es = "live" => delete_errors > 0
      BY <2>1, <2>2, <3>1, FlagTypes DEF UnbornInv, ProcessInv
    <3>3. /\ object = "raised" /\ ~(client_ready /\ creation_result) => live = {}
          /\ object = "freed" => live = {} /\ fields = {}
      BY <2>1, <2>2, FlagTypes DEF ProcessInv
    <3> QED
      BY <2>1, <3>1, <3>2, <3>3, FlagTypes DEF EndedLeavesNothing
  <2> QED
    BY <2>1, <2>3, <2>4 DEF ResourceInv
<1> QED
  BY <1>1, ControlsInvariant, PTL

\* When no call is under way, @subscriptions is what Endpoint Security
\* delivers, but for what a failed probe left behind: for any number of
\* threads, as long as no two change it at a time.
THEOREM SubscriptionsSafe == Spec => []SubscriptionsAgree
<1>1. ControlsInv => SubscriptionsAgree
  <2> SUFFICES ASSUME ControlsInv, ~closed, ~forked, ~overlapped, \A u \in Users : call[u].at \notin Changing
               PROVE  subscriptions \subseteq subscribed /\ subscribed \ subscriptions \subseteq leftover
    BY DEF SubscriptionsAgree
  <2>1. AgreeFor(call[Creator]) /\ call[Creator].at \notin Changing
    BY ControlsAssumption DEF ControlsInv, MethodInv, AgreeInv
  <2>2. Settled
    BY <2>1 DEF AgreeFor, Changing
  <2> QED
    BY <2>2 DEF Settled
<1> QED
  BY <1>1, ControlsInvariant, PTL

\* A method changes Endpoint Security's state only when the client is open.
LEMMA MethodControls ==
  ASSUME TypeOK, LifeInv, NEW u \in Users, Method(u)
  PROVE  UNCHANGED <<subscribed, muted>> \/ ~closed
<1>1. CASE MuteProcessNative(u)
  <2>1. pc["ruby"] = "none" /\ ~forked
    BY MethodFrame
  <2>2. client => ~closed
    BY <2>1, FlagTypes DEF LifeInv, UnbornInv, StartedInv, JoinedInv
  <2>3. UNCHANGED <<subscribed, muted>> \/ client
    BY <1>1, Zenon DEF MuteProcessNative
  <2> QED
    BY <2>2, <2>3
<1>2. CASE ~MuteProcessNative(u)
  BY <1>2, ZenonT(60) DEF Method, Subscribe, Unsubscribe, Known, ProbeEvent, UnprobeEvent, ProbesDone, NativeSubscribe, Record,
    Unlist, Mute, MuteProcess, Fetch, CopyRaises, CopyReturns, Skip, EagerProbe, Initialized, Close, lifeVars
<1> QED
  BY <1>1, <1>2

\* Endpoint Security's state changes only for a client that is open, in the
\* process that created it: not by a call that close overtook, and not in the
\* child of a fork.
THEOREM ControlledWhileOpen == Spec => ControlledOnlyWhileOpen
<1> DEFINE A == subscribed' # subscribed \/ muted' # muted \/ es' # es =>
                  ~forked /\ (~closed \/ es' # es)
<1>1. ControlsInv /\ [Next]_vars => [A]_vars
  <2> SUFFICES ASSUME ControlsInv, Next PROVE A
    OBVIOUS
  <2>0. TypeOK /\ LifeInv
    BY DEF ControlsInv
  <2>1. CASE \E u \in Users : Method(u)
    <3>1. ~forked /\ UNCHANGED es
      BY <2>1, MethodFrame DEF fixedVars
    <3>2. UNCHANGED <<subscribed, muted>> \/ ~closed
      BY <2>0, <2>1, MethodControls
    <3> QED
      BY <3>1, <3>2
  <2>2. CASE Life
    <3>0. UNCHANGED muted
      BY <2>2, LifeFrame DEF controlVars
    <3>1. CASE UNCHANGED <<subscribed, es>>
      BY <3>0, <3>1
    <3>2. CASE CloseBegins
      <4>1. pc["ruby"] = "close" /\ UNCHANGED es
        BY <3>2 DEF CloseBegins
      <4>2. ~forked /\ ~closed
        BY <2>0, <4>1, FlagTypes DEF LifeInv, UnbornInv, StartedInv, JoinedInv, ProcessInv
      <4> QED
        BY <4>2
    <3>3. CASE ~forked /\ NewClient
      BY <3>0, <3>3 DEF NewClient
    <3>4. CASE ~forked /\ DeleteClient
      <4>1. es = "live"
        BY <2>0, <3>4, DeleteWhenClosed
      <4> QED
        BY <3>0, <3>4, <4>1 DEF DeleteClient
    <3> QED
      BY <2>2, <3>1, <3>2, <3>3, <3>4, LifeFrame
  <2>3. CASE Collect \/ Fork
    BY <2>3 DEF Collect, ClientFree, Fork, controlVars
  <2> QED
    BY <2>1, <2>2, <2>3 DEF Next
<1> QED
  BY <1>1, ControlsInvariant, PTL DEF Spec, ControlledOnlyWhileOpen
=============================================================================
